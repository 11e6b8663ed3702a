---------------------------- MODULE FreeqOutbox ----------------------------
(***************************************************************************)
(* The free-tier event bus: producers insert rows into the freeq_outbox    *)
(* table of their database (packages/freeq), and the alarm of FreeqDrainDO *)
(* (services/freeq-drain) forwards every due row to the consumer its topic  *)
(* routes to, retries with exponential backoff, gives up after MaxAttempts, *)
(* and prunes finished rows.                                                *)
(*                                                                          *)
(* The alarm of a Durable Object does not overlap itself, so there is one   *)
(* drainer; its statements, the consumer's answer, the producers and the    *)
(* clock interleave. Times are relative: how long a row still waits, how    *)
(* old it is.                                                               *)
(***************************************************************************)
EXTENDS Integers, Sequences, FiniteSets

CONSTANTS
  Messages,         \* outbox rows, by id
  None,
  Dbs,              \* physical databases
  Home,             \* the database each row is in
  Passes,           \* OUTBOX_DB_BINDINGS, resolved: the database of each pass
  Routed,           \* rows whose topic has a delivering route that is bound
  Broken,           \* databases whose statements fail throughout
  Batch,            \* DRAIN_OPTS.batchSize
  MaxAttempts,      \* DRAIN_OPTS.maxAttempts
  Base, MaxDelay,   \* backoff: first delay and ceiling
  DoneKept, FailedKept,  \* retention of done and of failed rows
  PruneEvery,       \* PRUNE_INTERVAL_MS
  Late,             \* bound: how long overdue is told apart
  Happenings        \* which failures a run explores

AllHappenings == {"reject", "lostAnswer", "dbError", "crash"}

ASSUME RowsAssumption ==
  /\ IsFiniteSet(Messages) /\ None \notin Messages
  /\ Home \in [Messages -> Dbs] /\ Routed \subseteq Messages
ASSUME PassesAssumption == Passes \in Seq(Dbs) /\ Passes # <<>> /\ Broken \subseteq Dbs
ASSUME NumbersAssumption ==
  /\ Batch \in Nat \ {0} /\ MaxAttempts \in Nat \ {0}
  /\ Base \in Nat \ {0} /\ MaxDelay \in Nat /\ Base <= MaxDelay
  /\ DoneKept \in Nat /\ FailedKept \in Nat /\ DoneKept <= FailedKept
  /\ PruneEvery \in Nat /\ Late \in Nat
ASSUME HappeningsAssumption == Happenings \subseteq AllHappenings

VARIABLES
  status,    \* status of each row, "absent" before the insert, "pruned" after the delete
  attempts,  \* attempts recorded in the row
  wait,      \* next_attempt_at - now; due when not positive
  since,     \* now - the start of this database's drain
  age,       \* now - created_at, as far as retention tells it apart
  accepted,  \* rows the consumer has taken in
  alarm,     \* does the Durable Object have an alarm set?
  pc,        \* where the alarm handler stands
  pass,      \* index in Passes
  batch,     \* rows selected by this pass and not handled yet
  row,       \* the row being handled
  outcome,   \* of its delivery
  pruned     \* time since the last prune; -1 before the baseline

rows  == <<status, attempts, wait, age>>
vars  == <<status, attempts, wait, since, age, accepted, alarm, pc, pass, batch, row, outcome, pruned>>

Least(a, b)   == IF a < b THEN a ELSE b
AtLeast(a, b) == IF a < b THEN b ELSE a

\* backoffMs: base * 2^(n - 1), capped.
Bug_Uncapped(n) == Base * 2^(n - 1)
Backoff(n) == Least(Base * 2^(n - 1), MaxDelay)

TypeOK ==
  /\ status \in [Messages -> {"absent", "pending", "done", "failed", "pruned"}]
  /\ attempts \in [Messages -> 0..MaxAttempts]
  /\ wait \in [Messages -> (-Late)..MaxDelay]
  /\ since \in 0..(MaxDelay + Late)
  /\ age \in [Messages -> 0..FailedKept]
  /\ accepted \subseteq Messages
  /\ alarm \in BOOLEAN
  /\ pc \in {"idle", "select", "deliver", "record", "prune"}
  /\ pass \in 0..Len(Passes)
  /\ batch \subseteq Messages
  /\ row \in Messages \cup {None}
  /\ outcome \in {"none", "ok", "error"}
  /\ pruned \in -1..PruneEvery

Init ==
  /\ status = [m \in Messages |-> "absent"]
  /\ attempts = [m \in Messages |-> 0]
  /\ wait = [m \in Messages |-> 0]
  /\ since = 0
  /\ age = [m \in Messages |-> 0]
  /\ accepted = {}
  /\ alarm = FALSE
  /\ pc = "idle" /\ pass = 0 /\ batch = {} /\ row = None /\ outcome = "none"
  /\ pruned = -1

-----------------------------------------------------------------------------
\* enqueue: INSERT OR IGNORE of a pending row that is due at once.
Enqueue(m) ==
  /\ status[m] = "absent" /\ Home[m] \notin Broken
  /\ status' = [status EXCEPT ![m] = "pending"]
  /\ UNCHANGED <<attempts, wait, since, age, accepted, alarm, pc, pass, batch, row, outcome, pruned>>

\* POST /internal/drain/kick: ensureAlarm leaves a pending alarm alone.
Kick ==
  /\ ~alarm /\ alarm' = TRUE
  /\ UNCHANGED <<rows, since, accepted, pc, pass, batch, row, outcome, pruned>>

-----------------------------------------------------------------------------
(* alarm(): reschedule, drain every database, perhaps prune.                    *)

Bug_NotRescheduled ==
  /\ alarm /\ pc = "idle"
  /\ alarm' = FALSE
  /\ pc' = "select" /\ pass' = 1
  /\ UNCHANGED <<rows, since, accepted, batch, row, outcome, pruned>>
\* setAlarm comes before anything that can fail.
Alarm ==
  /\ alarm /\ pc = "idle"
  /\ alarm' = TRUE
  /\ pc' = "select" /\ pass' = 1
  /\ UNCHANGED <<rows, since, accepted, batch, row, outcome, pruned>>

Db == Passes[pass]
Bug_FailedAgain(d) == {m \in Messages : Home[m] = d /\ status[m] \in {"pending", "failed"} /\ wait[m] <= 0}
Due(d) == {m \in Messages : Home[m] = d /\ status[m] = "pending" /\ wait[m] <= 0}

\* drainAll goes on to the next database, then to the prune.
NextPass ==
  /\ batch' = {} /\ row' = None /\ outcome' = "none"
  /\ IF pass < Len(Passes) THEN pass' = pass + 1 /\ pc' = "select"
     ELSE pass' = 0 /\ pc' = "prune"

\* The most overdue rows, at most Batch of them.
Select ==
  /\ pc = "select" /\ Db \notin Broken
  /\ \E B \in SUBSET Due(Db) :
       /\ Cardinality(B) = Least(Batch, Cardinality(Due(Db)))
       /\ \A m \in B, n \in Due(Db) \ B : wait[m] <= wait[n]
       /\ IF B = {} THEN NextPass
          ELSE pc' = "deliver" /\ batch' = B /\ UNCHANGED <<pass, row, outcome>>
  /\ since' = 0
  /\ UNCHANGED <<rows, accepted, alarm, pruned>>

Bug_DatabaseErrorEndsDrain ==
  /\ pc = "select" /\ Db \in Broken
  /\ pc' = "idle" /\ pass' = 0 /\ batch' = {} /\ row' = None /\ outcome' = "none"
  /\ UNCHANGED <<rows, since, accepted, alarm, pruned>>
\* The SELECT throws: drainAll records the error and goes on.
SelectFails ==
  /\ pc = "select" /\ (Db \in Broken \/ "dbError" \in Happenings)
  /\ NextPass
  /\ UNCHANGED <<rows, since, accepted, alarm, pruned>>

Bug_ForeignTopicAcked(m) ==
  /\ pc = "deliver" /\ m \in batch
  /\ pc' = "record" /\ row' = m /\ batch' = batch \ {m}
  /\ outcome' = "ok" /\ accepted' = IF m \in Routed THEN accepted \cup {m} ELSE accepted
  /\ UNCHANGED <<rows, since, alarm, pass, pruned>>
\* makeDeliver: the consumer takes the row in and says so, or the answer is
\* lost, or it refuses (not 2xx, unreachable); without a route it is deferred.
Deliver(m) ==
  /\ pc = "deliver" /\ m \in batch
  /\ pc' = "record" /\ row' = m /\ batch' = batch \ {m}
  /\ \/ m \in Routed /\ outcome' = "ok" /\ accepted' = accepted \cup {m}
     \/ m \in Routed /\ "lostAnswer" \in Happenings /\ outcome' = "error" /\ accepted' = accepted \cup {m}
     \/ (m \notin Routed \/ "reject" \in Happenings) /\ outcome' = "error" /\ UNCHANGED accepted
  /\ UNCHANGED <<rows, since, alarm, pass, pruned>>

\* The for loop takes the next row, or the drain of this database is over.
Handled ==
  IF batch = {} THEN NextPass
  ELSE pc' = "deliver" /\ row' = None /\ outcome' = "none" /\ UNCHANGED <<pass, batch>>

RecordDone ==
  /\ pc = "record" /\ outcome = "ok"
  /\ status' = [status EXCEPT ![row] = "done"]
  /\ attempts' = [attempts EXCEPT ![row] = @ + 1]
  /\ Handled
  /\ UNCHANGED <<wait, since, age, accepted, alarm, pruned>>

\* The UPDATE is inside the try: its failure is handled like a failed delivery.
RecordDoneFails ==
  /\ pc = "record" /\ outcome = "ok" /\ "dbError" \in Happenings
  /\ outcome' = "error"
  /\ UNCHANGED <<rows, since, accepted, alarm, pc, pass, batch, row, pruned>>

\* nextAt counts from the start of the drain.
Reschedule == [wait EXCEPT ![row] = AtLeast(Backoff(attempts[row] + 1) - since, -Late)]

\* One more attempt: reschedule, or give up.
RecordError ==
  /\ pc = "record" /\ outcome = "error"
  /\ attempts' = [attempts EXCEPT ![row] = @ + 1]
  /\ IF attempts[row] + 1 >= MaxAttempts
     THEN status' = [status EXCEPT ![row] = "failed"] /\ UNCHANGED wait
     ELSE wait' = Reschedule /\ UNCHANGED status
  /\ Handled
  /\ UNCHANGED <<since, age, accepted, alarm, pruned>>

\* That UPDATE is in the catch: its failure ends the drain of this database.
RecordErrorFails ==
  /\ pc = "record" /\ outcome = "error" /\ "dbError" \in Happenings
  /\ NextPass
  /\ UNCHANGED <<rows, since, accepted, alarm, pruned>>

Bug_AnyStatus(m) ==
  status[m] \in {"pending", "done", "failed"} /\ age[m] >= DoneKept
Expired(m) ==
  \/ status[m] = "done" /\ age[m] >= DoneKept
  \/ status[m] = "failed" /\ age[m] >= FailedKept

\* maybePrune: the first tick sets the baseline; a prune that is due stamps the
\* time first and deletes the finished rows of every database but the bad ones.
Prune(bad) ==
  /\ pc = "prune" /\ pc' = "idle"
  /\ pruned' = IF pruned \in {-1, PruneEvery} THEN 0 ELSE pruned
  /\ status' = [m \in Messages |->
       IF pruned = PruneEvery /\ Expired(m) /\ Home[m] \notin Broken \cup bad
       THEN "pruned" ELSE status[m]]
  /\ UNCHANGED <<attempts, wait, since, age, accepted, alarm, pass, batch, row, outcome>>

-----------------------------------------------------------------------------
\* The object is evicted: what it held in memory is gone, its alarm is not.
Crash ==
  /\ pc # "idle" /\ "crash" \in Happenings
  /\ pc' = "idle" /\ pass' = 0 /\ batch' = {} /\ row' = None /\ outcome' = "none"
  /\ UNCHANGED <<rows, since, accepted, alarm, pruned>>

\* Time passes; each clock stops where nothing can tell the difference.
Tick ==
  /\ wait' = [m \in Messages |-> IF status[m] = "pending" THEN AtLeast(wait[m] - 1, -Late) ELSE wait[m]]
  /\ age' = [m \in Messages |-> IF status[m] \in {"pending", "done", "failed"}
                                THEN Least(age[m] + 1, FailedKept) ELSE age[m]]
  /\ since' = IF pc \in {"deliver", "record"} THEN Least(since + 1, MaxDelay + Late) ELSE since
  /\ pruned' = IF pruned = -1 THEN -1 ELSE Least(pruned + 1, PruneEvery)
  /\ UNCHANGED <<status, attempts, accepted, alarm, pc, pass, batch, row, outcome>>

PruneFailures == IF "dbError" \in Happenings THEN SUBSET Dbs ELSE {{}}

Drain ==
  \/ Alarm \/ Select \/ SelectFails \/ RecordDone \/ RecordDoneFails
  \/ RecordError \/ RecordErrorFails
  \/ \E bad \in PruneFailures : Prune(bad)
  \/ \E m \in Messages : Deliver(m)

Next == (\E m \in Messages : Enqueue(m)) \/ Kick \/ Drain \/ Crash \/ Tick

Spec == Init /\ [][Next]_vars

\* A step in which the object is not evicted and no statement fails but those of
\* the broken databases.
Calm ==
  \/ \E m \in Messages : Enqueue(m) \/ Deliver(m)
  \/ Kick \/ Alarm \/ Select \/ (SelectFails /\ Db \in Broken)
  \/ RecordDone \/ RecordError \/ Prune({}) \/ Tick

\* Somebody kicks the loop once after the deploy, an alarm that is set fires, the
\* awaits of its handler end, time passes, and evictions and database errors
\* are transient.
Fairness == <>alarm /\ WF_vars(Drain) /\ WF_vars(Tick) /\ <>[][Calm]_vars

FairSpec == Spec /\ Fairness

-----------------------------------------------------------------------------
(* Properties.                                                                  *)

\* A row is acknowledged only when its consumer has it: neither a topic the
\* drain does not know nor a lost status write drops a message (the "mis-ack
\* data-loss bug" routing.ts guards against).
NoFalseAck == \A m \in Messages : status[m] = "done" => m \in accepted

\* A message vanishes without having arrived only after MaxAttempts tries and
\* the whole retention of failed rows (drain, pruneOutbox).
LostOnlyAfterRetention ==
  \A m \in Messages : status[m] = "pruned" /\ m \notin accepted
                      => attempts[m] = MaxAttempts /\ age[m] = FailedKept

\* To those who post and those who consume, the table, its drain, its retries and
\* its crashes are the EventBus: a message goes to its consumer only while it is
\* pending, is settled once, and is forgotten only after that; no consumer, topic or
\* database that fails for ever keeps a row of another pending, and finished rows do
\* not pile up (drainAll, pruneAll).
Bus == INSTANCE EventBus WITH fate <- status, arrived <- accepted
ImplementsBus == Bus!BusSpec

(* What the comments claim and the code does not keep.                          *)

\* "Keeps the outbox row pending/durable": a topic without a live route waits.
DeferredStaysPending ==
  \A m \in Messages \ Routed : status[m] \in {"absent", "pending"}

\* "an audit event enqueued here can never be lost".
NeverLost == \A m \in Messages : status[m] = "pruned" => m \in accepted
=============================================================================
