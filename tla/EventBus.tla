------------------------------ MODULE EventBus ------------------------------
(***************************************************************************)
(* What the event bus promises those who use it, without tables, drains,   *)
(* backoff or databases: a posted message is offered to its consumer any   *)
(* number of times while it is pending, is settled once -- acknowledged    *)
(* only if the consumer has it, else given up -- and may be forgotten only *)
(* after that.  FreeqOutbox implements it.                                 *)
(***************************************************************************)
CONSTANT Messages

VARIABLES
  fate,     \* of each message: "absent", "pending", "done", "failed", "pruned"
  arrived   \* messages the consumer has taken in, perhaps several times

bus == <<fate, arrived>>

BusInit == fate = [m \in Messages |-> "absent"] /\ arrived = {}

Become(m, f) == fate' = [fate EXCEPT ![m] = f]

Post(m) == fate[m] = "absent" /\ Become(m, "pending") /\ UNCHANGED arrived

\* No delivery after the message was settled: duplicates come from retries only.
Arrive(m) == fate[m] = "pending" /\ arrived' = arrived \cup {m} /\ UNCHANGED fate

Acknowledge(m) ==
  fate[m] = "pending" /\ m \in arrived /\ Become(m, "done") /\ UNCHANGED arrived

GiveUp(m) == fate[m] = "pending" /\ Become(m, "failed") /\ UNCHANGED arrived

\* Retention forgets any number of settled messages at once.
Forget ==
  /\ \E gone \in SUBSET {m \in Messages : fate[m] \in {"done", "failed"}} :
       fate' = [m \in Messages |-> IF m \in gone THEN "pruned" ELSE fate[m]]
  /\ UNCHANGED arrived

Settle(m) == Acknowledge(m) \/ GiveUp(m)

BusNext == (\E m \in Messages : Post(m) \/ Arrive(m) \/ Settle(m)) \/ Forget

BusSafety == BusInit /\ [][BusNext]_bus

\* Nothing stays pending for ever, and what is settled is not kept for ever.
BusLiveness == (\A m \in Messages : WF_bus(Settle(m))) /\ WF_bus(Forget)

BusSpec == BusSafety /\ BusLiveness
=============================================================================
