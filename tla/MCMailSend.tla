----------------------------- MODULE MCMailSend -----------------------------
(* Small instances of MailSend for TLC: a few requests and cron invocations,    *)
(* one client key, one or two scheduled rows, two bodies.                       *)
EXTENDS MailSendProofs, TLC

CONSTANTS c1, c2, c3, t1, t2, key, s1, s2, b1, b2

WorkerSymmetry == Permutations(Clients) \cup Permutations(Crons)
BodySymmetry == WorkerSymmetry \cup Permutations(Bodies) \cup Permutations(Schedules)

\* Clients and the drain use different keys and never read each other's rows: a
\* behaviour has requests or a scheduled row, not both, or TLC would explore the
\* product of the two.
Requested == (\E c \in Clients : ~At(c, "idle")) \/ (\E k \in ClientKeys : log[k].status # "none")
Scheduled == \E s \in Schedules : rows[s].status # "none"
ApartSpec == Init /\ [][Next /\ ~(Requested /\ Scheduled)']_vars
=============================================================================
