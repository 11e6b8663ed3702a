------------------------ MODULE MCNotificationIngest ------------------------
(* Small instances of NotificationIngest for TLC: a chat message in a direct    *)
(* conversation that also mentions people, and one broadcast.                   *)
EXTENDS NotificationIngestProofs, TLC

CONSTANTS r1, r2, r3, u1, u2, chat, mention, dm, broadcast, dmKey, broadcastKey

\* The mention carries no dedup key, the direct message and the broadcast do.
ChatPlan == [e \in {chat} |-> <<mention, dm>>]
MentionPlan == [e \in {chat} |-> <<mention>>]
DmPlan == [e \in {chat} |-> <<dm>>]
Everyone == [in \in Inputs |-> Users]
OneEach == [in \in Inputs |-> IF in = mention THEN {u1} ELSE Users]
Keyed == [in \in Inputs |-> CASE in = dm -> dmKey [] in = broadcast -> broadcastKey [] OTHER -> None]
\* Requests are interchangeable.
RequestSymmetry == Permutations(Requests)

SecondMutesPush == {<<u2, "push">>}

\* The handler of an event and the requests about a broadcast name different
\* notifications and never read each other's rows: a behaviour has one or the
\* other, or TLC would explore the product of the two. And a bound: only the
\* inbox rows of a broadcast take more than one attempt.
Dispatched == \E r \in Requests : job[r].event # None
Broadcasting == \E r \in Requests : ~At(r, "idle") /\ job[r].event = None
FirstAttempt ==
  \A r \in Requests : job[r].event # None /\ job[r].tries > 0 => job[r].at[2] # "in_app"
ApartNext ==
  \/ (\E r \in Requests : Step(r)) /\ (FirstAttempt /\ ~(Dispatched /\ Broadcasting))'
  \/ ~Dispatched /\ (PurgeInbox \/ PurgeDeliveries)
ApartSpec == Init /\ [][ApartNext]_vars
=============================================================================
