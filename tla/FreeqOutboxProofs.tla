------------------------- MODULE FreeqOutboxProofs --------------------------
(***************************************************************************)
(* Proofs about FreeqOutbox, for every set of rows, every assignment of    *)
(* rows to databases, every batch size, attempt limit and retention.       *)
(***************************************************************************)
EXTENDS FreeqOutbox, TLAPS

-----------------------------------------------------------------------------
(* The inductive invariant.                                                 *)

\* What the drainer holds in memory is still true of the table: nobody else
\* changes a row that it has claimed.
DrainInv ==
  /\ pc \in {"select", "deliver", "record"} => pass \in 1..Len(Passes)
  /\ \A m \in batch : status[m] = "pending"
  /\ pc = "deliver" => row = None
  /\ pc = "record" => row \in Messages /\ row \notin batch /\ status[row] = "pending" /\ outcome # "none"
  /\ pc = "record" /\ outcome = "ok" => row \in accepted
  /\ pc \in {"idle", "select", "prune"} => batch = {} /\ row = None

\* A row that has used up its attempts is no longer pending, and was not given
\* up before.
AttemptInv ==
  \A m \in Messages :
    /\ status[m] = "absent" => attempts[m] = 0
    /\ status[m] = "pending" => attempts[m] < MaxAttempts
    /\ status[m] = "failed" => attempts[m] = MaxAttempts

IInv == TypeOK /\ DrainInv /\ AttemptInv /\ NoFalseAck /\ LostOnlyAfterRetention

-----------------------------------------------------------------------------
(* The operators.                                                           *)

LEMMA BackoffBounded ==
  ASSUME NEW n \in Nat PROVE Backoff(n + 1) \in Int /\ Backoff(n + 1) <= MaxDelay
<1>1. 2^n \in Int OBVIOUS
<1>2. Base * 2^n \in Int BY <1>1, NumbersAssumption
<1>3. (n + 1) - 1 = n OBVIOUS
<1> QED BY <1>2, <1>3, NumbersAssumption DEF Backoff, Least

LEMMA WaitBounded ==
  ASSUME NEW w \in Int, w <= MaxDelay PROVE AtLeast(w, -Late) \in (-Late)..MaxDelay
BY NumbersAssumption DEF AtLeast

\* A new delay of the row at hand fits the type of wait.
LEMMA RescheduleType ==
  ASSUME TypeOK, row \in Messages
  PROVE  Reschedule \in [Messages -> (-Late)..MaxDelay]
<1>1. attempts[row] \in Nat BY DEF TypeOK
<1>2. since \in Nat BY NumbersAssumption DEF TypeOK
<1>3. Backoff(attempts[row] + 1) - since \in Int /\ Backoff(attempts[row] + 1) - since <= MaxDelay
  BY <1>1, <1>2, BackoffBounded, NumbersAssumption
<1>4. AtLeast(Backoff(attempts[row] + 1) - since, -Late) \in (-Late)..MaxDelay
  BY <1>3, WaitBounded
<1> QED BY <1>4 DEF Reschedule, TypeOK

LEMMA LenPasses == Len(Passes) \in Nat \ {0}
BY PassesAssumption

-----------------------------------------------------------------------------
LEMMA InitIInv == Init => IInv
<1> SUFFICES ASSUME Init PROVE IInv OBVIOUS
<1>1. 0 \in (-Late)..MaxDelay /\ 0 \in 0..FailedKept /\ 0 \in 0..MaxAttempts
      /\ 0 \in 0..(MaxDelay + Late) /\ -1 \in -1..PruneEvery
  BY NumbersAssumption
<1>2. TypeOK
  <2>1. wait \in [Messages -> (-Late)..MaxDelay] /\ attempts \in [Messages -> 0..MaxAttempts]
        /\ age \in [Messages -> 0..FailedKept]
    BY <1>1 DEF Init
  <2>2. status \in [Messages -> {"absent", "pending", "done", "failed", "pruned"}]
    BY DEF Init
  <2>3. pass \in 0..Len(Passes) BY LenPasses DEF Init
  <2> QED BY <1>1, <2>1, <2>2, <2>3 DEF Init, TypeOK
<1>3. DrainInv /\ AttemptInv BY NumbersAssumption DEF Init, DrainInv, AttemptInv
<1>4. NoFalseAck /\ LostOnlyAfterRetention BY DEF Init, NoFalseAck, LostOnlyAfterRetention
<1> QED BY <1>2, <1>3, <1>4 DEF IInv

\* The end of a pass keeps the drainer's part of the invariant.
LEMMA NextPassKeeps ==
  ASSUME IInv, pc \in {"select", "record"}, NextPass
  PROVE  /\ pc' \in {"select", "prune"} /\ pass' \in 0..Len(Passes)
         /\ batch' = {} /\ row' = None /\ outcome' = "none"
         /\ pc' = "select" => pass' \in 1..Len(Passes)
BY LenPasses DEF IInv, TypeOK, DrainInv, NextPass

LEMMA EnqueueKeeps == ASSUME IInv, NEW m \in Messages, Enqueue(m) PROVE IInv'
BY NumbersAssumption, RowsAssumption
   DEF Enqueue, IInv, TypeOK, DrainInv, AttemptInv, NoFalseAck, LostOnlyAfterRetention

LEMMA KickKeeps == ASSUME IInv, Kick PROVE IInv'
BY DEF Kick, rows, IInv, TypeOK, DrainInv, AttemptInv, NoFalseAck, LostOnlyAfterRetention

LEMMA AlarmKeeps == ASSUME IInv, Alarm PROVE IInv'
BY LenPasses
   DEF Alarm, rows, IInv, TypeOK, DrainInv, AttemptInv, NoFalseAck, LostOnlyAfterRetention

LEMMA SelectKeeps == ASSUME IInv, Select PROVE IInv'
<1>1. pc = "select" /\ UNCHANGED <<rows, accepted, alarm, pruned>> /\ since' = 0
  BY DEF Select
<1>2. PICK B \in SUBSET Due(Db) :
        IF B = {} THEN NextPass
        ELSE pc' = "deliver" /\ batch' = B /\ UNCHANGED <<pass, row, outcome>>
  BY DEF Select
<1>3. CASE B = {}
  BY <1>1, <1>2, <1>3, NextPassKeeps, NumbersAssumption
     DEF rows, IInv, TypeOK, DrainInv, AttemptInv, NoFalseAck, LostOnlyAfterRetention
<1>4. CASE B # {}
  <2>1. B \subseteq Messages /\ \A m \in B : status[m] = "pending"
    BY DEF Due
  <2> QED
    BY <1>1, <1>2, <1>4, <2>1, NumbersAssumption
       DEF rows, IInv, TypeOK, DrainInv, AttemptInv, NoFalseAck, LostOnlyAfterRetention
<1> QED BY <1>3, <1>4

LEMMA SelectFailsKeeps == ASSUME IInv, SelectFails PROVE IInv'
BY NextPassKeeps
   DEF SelectFails, rows, IInv, TypeOK, DrainInv, AttemptInv, NoFalseAck, LostOnlyAfterRetention

LEMMA DeliverKeeps == ASSUME IInv, NEW m \in Messages, Deliver(m) PROVE IInv'
BY DEF Deliver, rows, IInv, TypeOK, DrainInv, AttemptInv, NoFalseAck, LostOnlyAfterRetention

\* After a row is recorded the drainer stands at the next row or the next pass.
LEMMA HandledKeeps ==
  ASSUME IInv, pc = "record", Handled
  PROVE  /\ pc' \in {"deliver", "select", "prune"} /\ pass' \in 0..Len(Passes)
         /\ pc' \in {"select", "deliver"} => pass' \in 1..Len(Passes)
         /\ batch' \in {batch, {}} /\ row' = None /\ outcome' = "none"
         /\ pc' \in {"select", "prune"} => batch' = {}
<1>1. CASE batch = {} BY <1>1, NextPassKeeps DEF Handled
<1>2. CASE batch # {} BY <1>2, LenPasses DEF Handled, IInv, DrainInv, TypeOK
<1> QED BY <1>1, <1>2

LEMMA RecordDoneKeeps == ASSUME IInv, RecordDone PROVE IInv'
<1>1. row \in Messages /\ row \notin batch /\ status[row] = "pending" /\ row \in accepted
      /\ attempts[row] + 1 \in 0..MaxAttempts
  BY NumbersAssumption DEF RecordDone, IInv, DrainInv, AttemptInv, TypeOK
<1>2. /\ status' = [status EXCEPT ![row] = "done"]
      /\ attempts' = [attempts EXCEPT ![row] = attempts[row] + 1]
      /\ UNCHANGED <<wait, since, age, accepted, alarm, pruned>>
  BY DEF RecordDone
<1>3. TypeOK' BY <1>1, <1>2, HandledKeeps DEF RecordDone, IInv, TypeOK
<1>4. DrainInv' BY <1>1, <1>2, HandledKeeps DEF RecordDone, IInv, DrainInv, TypeOK
<1>5. AttemptInv' BY <1>1, <1>2 DEF IInv, AttemptInv, TypeOK
<1>6. NoFalseAck' /\ LostOnlyAfterRetention'
  BY <1>1, <1>2 DEF IInv, NoFalseAck, LostOnlyAfterRetention, TypeOK
<1> QED BY <1>3, <1>4, <1>5, <1>6 DEF IInv

LEMMA RecordDoneFailsKeeps == ASSUME IInv, RecordDoneFails PROVE IInv'
BY DEF RecordDoneFails, rows, IInv, TypeOK, DrainInv, AttemptInv, NoFalseAck, LostOnlyAfterRetention

LEMMA RecordErrorKeeps == ASSUME IInv, RecordError PROVE IInv'
<1>1. row \in Messages /\ row \notin batch /\ status[row] = "pending"
      /\ attempts[row] \in Nat /\ attempts[row] < MaxAttempts
  BY DEF RecordError, IInv, DrainInv, AttemptInv, TypeOK
<1>2. /\ attempts' = [attempts EXCEPT ![row] = attempts[row] + 1]
      /\ UNCHANGED <<since, age, accepted, alarm, pruned>>
  BY DEF RecordError
<1>3. CASE attempts[row] + 1 >= MaxAttempts
  <2>1. status' = [status EXCEPT ![row] = "failed"] /\ wait' = wait
    BY <1>3 DEF RecordError
  <2>2. attempts[row] + 1 = MaxAttempts BY <1>1, <1>3, NumbersAssumption
  <2>3. TypeOK' BY <1>1, <1>2, <2>1, <2>2, HandledKeeps DEF RecordError, IInv, TypeOK
  <2>4. DrainInv' BY <1>1, <1>2, <2>1, HandledKeeps DEF RecordError, IInv, DrainInv, TypeOK
  <2>5. AttemptInv' BY <1>1, <1>2, <2>1, <2>2 DEF IInv, AttemptInv, TypeOK
  <2>6. NoFalseAck' /\ LostOnlyAfterRetention'
    BY <1>1, <1>2, <2>1 DEF IInv, NoFalseAck, LostOnlyAfterRetention, TypeOK
  <2> QED BY <2>3, <2>4, <2>5, <2>6 DEF IInv
<1>4. CASE ~(attempts[row] + 1 >= MaxAttempts)
  <2>1. status' = status /\ wait' = Reschedule BY <1>4 DEF RecordError
  <2>2. attempts[row] + 1 \in 0..MaxAttempts /\ attempts[row] + 1 < MaxAttempts
    BY <1>1, <1>4, NumbersAssumption
  <2>3. wait' \in [Messages -> (-Late)..MaxDelay] BY <1>1, <2>1, RescheduleType DEF IInv
  <2>4. TypeOK' BY <1>1, <1>2, <2>1, <2>2, <2>3, HandledKeeps DEF RecordError, IInv, TypeOK
  <2>5. DrainInv' BY <1>1, <1>2, <2>1, HandledKeeps DEF RecordError, IInv, DrainInv, TypeOK
  <2>6. AttemptInv' BY <1>1, <1>2, <2>1, <2>2 DEF IInv, AttemptInv, TypeOK
  <2>7. NoFalseAck' /\ LostOnlyAfterRetention'
    BY <1>1, <1>2, <2>1 DEF IInv, NoFalseAck, LostOnlyAfterRetention, TypeOK
  <2> QED BY <2>4, <2>5, <2>6, <2>7 DEF IInv
<1> QED BY <1>3, <1>4

LEMMA RecordErrorFailsKeeps == ASSUME IInv, RecordErrorFails PROVE IInv'
BY NextPassKeeps
   DEF RecordErrorFails, rows, IInv, TypeOK, DrainInv, AttemptInv, NoFalseAck, LostOnlyAfterRetention

LEMMA PruneKeeps == ASSUME IInv, NEW bad \in SUBSET Dbs, Prune(bad) PROVE IInv'
<1>1. /\ pc = "prune" /\ pc' = "idle"
      /\ pruned' \in -1..PruneEvery
      /\ UNCHANGED <<attempts, wait, since, age, accepted, alarm, pass, batch, row, outcome>>
  BY NumbersAssumption DEF Prune, IInv, TypeOK
<1>2. status' \in [Messages -> {"absent", "pending", "done", "failed", "pruned"}]
  BY DEF Prune, IInv, TypeOK
<1>3. ASSUME NEW m \in Messages, status'[m] # status[m]
      PROVE  status'[m] = "pruned" /\ Expired(m)
  BY <1>3 DEF Prune
<1>4. TypeOK' BY <1>1, <1>2 DEF IInv, TypeOK
<1>5. DrainInv' BY <1>1 DEF IInv, DrainInv
<1>6. AttemptInv' BY <1>1, <1>3 DEF IInv, AttemptInv
<1>7. NoFalseAck' BY <1>1, <1>3 DEF IInv, NoFalseAck
<1>8. LostOnlyAfterRetention'
  <2> SUFFICES ASSUME NEW m \in Messages, status'[m] = "pruned", m \notin accepted
               PROVE  attempts[m] = MaxAttempts /\ age[m] = FailedKept
    BY <1>1 DEF LostOnlyAfterRetention
  <2>1. CASE status'[m] = status[m] BY <2>1 DEF IInv, LostOnlyAfterRetention
  <2>2. CASE status'[m] # status[m]
    <3>1. status[m] = "failed" /\ age[m] >= FailedKept
      BY <2>2, <1>3 DEF Expired, IInv, NoFalseAck
    <3> QED BY <3>1, NumbersAssumption DEF IInv, AttemptInv, TypeOK
  <2> QED BY <2>1, <2>2
<1> QED BY <1>4, <1>5, <1>6, <1>7, <1>8 DEF IInv

LEMMA CrashKeeps == ASSUME IInv, Crash PROVE IInv'
BY LenPasses
   DEF Crash, rows, IInv, TypeOK, DrainInv, AttemptInv, NoFalseAck, LostOnlyAfterRetention

LEMMA TickKeeps == ASSUME IInv, Tick PROVE IInv'
<1>1. UNCHANGED <<status, attempts, accepted, alarm, pc, pass, batch, row, outcome>>
  BY DEF Tick
<1>2. wait' \in [Messages -> (-Late)..MaxDelay]
  BY NumbersAssumption DEF Tick, AtLeast, IInv, TypeOK
<1>3. age' \in [Messages -> 0..FailedKept]
      /\ \A m \in Messages : age[m] = FailedKept => age'[m] = FailedKept
  BY NumbersAssumption DEF Tick, Least, IInv, TypeOK
<1>4. since' \in 0..(MaxDelay + Late) /\ pruned' \in -1..PruneEvery
  BY NumbersAssumption DEF Tick, Least, IInv, TypeOK
<1>5. TypeOK' BY <1>1, <1>2, <1>3, <1>4 DEF IInv, TypeOK
<1>6. LostOnlyAfterRetention' BY <1>1, <1>3 DEF IInv, LostOnlyAfterRetention
<1> QED BY <1>1, <1>5, <1>6 DEF IInv, DrainInv, AttemptInv, NoFalseAck

LEMMA StepIInv == IInv /\ [Next]_vars => IInv'
<1> SUFFICES ASSUME IInv, [Next]_vars PROVE IInv' OBVIOUS
<1>1. CASE \E m \in Messages : Enqueue(m) BY <1>1, EnqueueKeeps
<1>2. CASE Kick BY <1>2, KickKeeps
<1>3. CASE Drain
  <2>1. \A bad \in PruneFailures : bad \in SUBSET Dbs BY DEF PruneFailures
  <2> QED
    BY <1>3, <2>1, AlarmKeeps, SelectKeeps, SelectFailsKeeps, DeliverKeeps, RecordDoneKeeps,
       RecordDoneFailsKeeps, RecordErrorKeeps, RecordErrorFailsKeeps, PruneKeeps DEF Drain
<1>4. CASE Crash BY <1>4, CrashKeeps
<1>5. CASE Tick BY <1>5, TickKeeps
<1>6. CASE UNCHANGED vars
  BY <1>6 DEF vars, IInv, TypeOK, DrainInv, AttemptInv, NoFalseAck, LostOnlyAfterRetention
<1> QED BY <1>1, <1>2, <1>3, <1>4, <1>5, <1>6 DEF Next

-----------------------------------------------------------------------------
\* The inductive invariant of the outbox and its drainer holds in every state.
THEOREM OutboxInvariant == Spec => []IInv
BY InitIInv, StepIInv, PTL DEF Spec

\* Rows, clocks and the drainer stay in their ranges: in particular no row is
\* tried more than maxAttempts times and no delay exceeds maxDelayMs.
THEOREM OutboxTypeCorrect == Spec => []TypeOK
<1>1. IInv => TypeOK BY DEF IInv
<1> QED BY <1>1, OutboxInvariant, PTL

\* A row is marked done only when its consumer has taken it in (drain,
\* makeDeliver), whatever topics, failures and evictions there are.
THEOREM AckedIsDelivered == Spec => []NoFalseAck
<1>1. IInv => NoFalseAck BY DEF IInv
<1> QED BY <1>1, OutboxInvariant, PTL

\* A message disappears undelivered only after maxAttempts tries and the whole
\* retention of failed rows (pruneOutbox).
THEOREM LossNeedsRetention == Spec => []LostOnlyAfterRetention
<1>1. IInv => LostOnlyAfterRetention BY DEF IInv
<1> QED BY <1>1, OutboxInvariant, PTL

-----------------------------------------------------------------------------
(* The refinement of EventBus: every step of the table, the drainer, the    *)
(* consumers and the clock is a step of the bus or none.                     *)

LEMMA ArriveSimulated ==
  ASSUME IInv, NEW m \in Messages, Deliver(m) PROVE [Bus!BusNext]_(Bus!bus)
<1>1. status[m] = "pending" /\ status' = status BY DEF Deliver, rows, IInv, DrainInv
<1>2. CASE accepted' = accepted BY <1>1, <1>2 DEF Bus!bus
<1>3. CASE accepted' = accepted \cup {m} BY <1>1, <1>3 DEF Bus!BusNext, Bus!Arrive
<1> QED BY <1>2, <1>3 DEF Deliver

LEMMA SettleSimulated ==
  ASSUME IInv, RecordDone \/ RecordError PROVE [Bus!BusNext]_(Bus!bus)
<1>1. row \in Messages /\ status[row] = "pending" /\ accepted' = accepted
  BY DEF RecordDone, RecordError, IInv, DrainInv
<1>2. CASE RecordDone
  BY <1>1, <1>2
     DEF RecordDone, IInv, DrainInv, Bus!BusNext, Bus!Settle, Bus!Acknowledge, Bus!Become
<1>3. CASE RecordError
  <2>1. status' = [status EXCEPT ![row] = "failed"] \/ status' = status
    BY <1>3 DEF RecordError
  <2> QED BY <1>1, <2>1 DEF Bus!BusNext, Bus!Settle, Bus!GiveUp, Bus!Become, Bus!bus
<1> QED BY <1>2, <1>3

LEMMA ForgetSimulated ==
  ASSUME IInv, NEW bad, Prune(bad) PROVE Bus!Forget
<1> DEFINE gone == {m \in Messages : pruned = PruneEvery /\ Expired(m) /\ Home[m] \notin Broken \cup bad}
<1>1. gone \in SUBSET {m \in Messages : status[m] \in {"done", "failed"}} BY DEF Expired
<1>2. status' = [m \in Messages |-> IF m \in gone THEN "pruned" ELSE status[m]] BY DEF Prune
<1>3. accepted' = accepted BY DEF Prune
<1> HIDE DEF gone
<1> QED BY <1>1, <1>2, <1>3 DEF Bus!Forget

LEMMA StepSimulated == IInv /\ [Next]_vars => [Bus!BusNext]_(Bus!bus)
<1> SUFFICES ASSUME IInv, [Next]_vars PROVE [Bus!BusNext]_(Bus!bus) OBVIOUS
<1>1. ASSUME NEW m \in Messages, Enqueue(m) PROVE [Bus!BusNext]_(Bus!bus)
  BY <1>1 DEF Enqueue, Bus!BusNext, Bus!Post, Bus!Become
<1>2. ASSUME Kick \/ Alarm \/ Select \/ SelectFails \/ RecordDoneFails \/ RecordErrorFails
             \/ Crash \/ Tick \/ UNCHANGED vars
      PROVE  UNCHANGED <<status, accepted>>
  BY <1>2 DEF Kick, Alarm, Select, SelectFails, RecordDoneFails, RecordErrorFails, Crash, Tick, rows, vars
<1>3. ASSUME NEW bad, Prune(bad) PROVE [Bus!BusNext]_(Bus!bus)
  BY <1>3, ForgetSimulated DEF Bus!BusNext
<1> QED BY <1>1, <1>2, <1>3, ArriveSimulated, SettleSimulated DEF Next, Drain, Bus!bus

\* The free-tier outbox implements the abstract bus (its safety part; that it
\* also settles every message is left to TLC): consumers see a message only
\* while it is pending, and what is settled stays settled.
THEOREM OutboxImplementsBus == Spec => Bus!BusSafety
<1>1. Init => Bus!BusInit BY DEF Init, Bus!BusInit
<1> QED BY <1>1, StepSimulated, OutboxInvariant, PTL DEF Spec, Bus!BusSafety
=============================================================================
