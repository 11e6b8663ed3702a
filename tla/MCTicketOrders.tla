--------------------------- MODULE MCTicketOrders ---------------------------
(* Small instances of TicketOrders for TLC: the functions a cfg cannot spell. *)
EXTENDS TicketOrdersProofs, TLC

CONSTANTS day1, day2

\* One type with one seat, one ticket per order.
LastSeat == [t \in {day1} |-> 1]
TwoSeats == [t \in {day1} |-> 2]
OneTicket == {[t \in {day1} |-> 1]}

\* Two types, the second with one seat: two orders of both race for it, two
\* orders of the first alone fit, but not both of them on a coupon with one use.
TwoDays == [t \in {day1, day2} |-> IF t = day1 THEN 2 ELSE 1]
OneDayOrBoth == {[t \in {day1, day2} |-> IF t = day1 THEN 1 ELSE n] : n \in 0..1}

OrderSymmetry == Permutations(Orders)
=============================================================================
