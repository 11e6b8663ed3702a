-------------------------- MODULE MCTicketDelivery --------------------------
(* A small instance of TicketDelivery for TLC: one order with both its mails.   *)
EXTENDS TicketDeliveryProofs

CONSTANTS o1, buyer, copy
OneOrder == [m \in Mails |-> o1]
=============================================================================
