----------------------- MODULE NotificationIngestProofs ----------------------
(***************************************************************************)
(* Proofs about NotificationIngest, for every set of requests, users,       *)
(* events and inputs, every preference and every number of attempts.        *)
(***************************************************************************)
EXTENDS NotificationIngest, TLAPS

-----------------------------------------------------------------------------
(* The inductive invariant.                                                  *)

Ingesting == {"find", "insert", "fan", "record", "giveUp"}

\* Every target of an input has an outcome.
Complete(in, R) == \A x \in Targets(in) : <<in, x[1], x[2]>> \in R

\* The unkeyed inputs of an event before the k-th are complete.
CompleteUpTo(e, k, R) ==
  \A h \in 1..Len(Plan[e]) : h < k /\ Key[Plan[e][h]] = None => Complete(Plan[e][h], R)

\* What one request holds in memory agrees with the outcomes R in the tables.
JobOK(r, j, R) ==
  /\ j.pc \in Ingesting /\ j.event # None
       => j.i \in 1..Len(Plan[j.event]) /\ CompleteUpTo(j.event, j.i, R)
  /\ j.pc = "mark" => j.event # None /\ CompleteUpTo(j.event, Len(Plan[j.event]) + 1, R)
  /\ j.pc \in {"fan", "record", "giveUp"} =>
       /\ j.notification = [by |-> r, input |-> InputOf(j)]
       /\ j.todo \subseteq Targets(InputOf(j))
       /\ \A x \in Targets(InputOf(j)) \ j.todo : <<InputOf(j), x[1], x[2]>> \in R
  /\ j.pc = "fan" => j.tries < MaxAttempts /\ (j.tries > 0 => j.at \in j.todo)
  /\ j.pc = "record" => j.tries < MaxAttempts /\ j.at \in j.todo
  /\ j.pc = "giveUp" => j.at \in j.todo
  /\ j.pc = "backfill" => j.user \in Users

JobInv == \A r \in Requests : JobOK(r, job[r], reached)

\* The inputs a request may still insert a row for.
Upcoming(j) ==
  {in \in Inputs :
     \/ j.pc = "idle"
     \/ j.event = None /\ j.pc \in {"find", "insert"} /\ in = Broadcast
     \/ /\ j.event # None /\ j.pc \in Ingesting
        /\ \E k \in 1..Len(Plan[j.event]) :
             /\ Plan[j.event][k] = in
             /\ k > j.i \/ (k = j.i /\ j.pc \in {"find", "insert"})}

\* No row is inserted twice, so that a retracted one stays away.
FreshInv == \A n \in notifications \cup retracted : n.input \notin Upcoming(job[n.by])

\* The constraints of the schema, and what retracting means.
KeyInv ==
  \A n, m \in notifications : Key[n.input] # None /\ Key[n.input] = Key[m.input] => n = m
ReferInv ==
  /\ \A x \in inbox : x[1] \in notifications
  /\ \A d \in deliveries : d[1] \in notifications
  /\ notifications \cap retracted = {}

IInv == TypeOK /\ JobInv /\ FreshInv /\ KeyInv /\ ReferInv /\ ProcessedIsDelivered

-----------------------------------------------------------------------------
(* Lemmas.                                                                   *)

LEMMA PlanFacts ==
  ASSUME NEW e \in Events
  PROVE  /\ Len(Plan[e]) \in Nat /\ Len(Plan[e]) > 0
         /\ \A k \in 1..Len(Plan[e]) : Plan[e][k] \in Inputs
         /\ \A i, k \in 1..Len(Plan[e]) : Plan[e][i] = Plan[e][k] => i = k
BY PlanAssumption

LEMMA InputType ==
  ASSUME NEW r \in Requests, NEW j \in Jobs, NEW R, JobOK(r, j, R), j.pc \in Ingesting
  PROVE  InputOf(j) \in Inputs
BY InputsAssumption, PlanFacts DEF InputOf, JobOK, Jobs

LEMMA TargetsType == \A in \in Inputs : Targets(in) \subseteq Users \X Channels
BY InputsAssumption DEF Targets

\* Outcomes are only ever added.
LEMMA OutcomesGrow ==
  ASSUME NEW r \in Requests, NEW j \in Jobs, NEW R, NEW S, R \subseteq S, JobOK(r, j, R)
  PROVE  JobOK(r, j, S)
BY DEF JobOK, CompleteUpTo, Complete

\* One request moves on, the others stay where they are.
LEMMA OneMoves ==
  ASSUME IInv, NEW r \in Requests, NEW j \in Jobs, Set(r, j), reached \subseteq reached',
         JobOK(r, j, reached'), Upcoming(j) \subseteq Upcoming(job[r])
  PROVE  /\ job' \in [Requests -> Jobs] /\ JobInv'
         /\ \A n \in notifications \cup retracted : n.input \notin Upcoming(job'[n.by])
<1>1. job \in [Requests -> Jobs] BY DEF IInv, TypeOK
<1>2. job' = [job EXCEPT ![r] = j] BY DEF Set
<1>3. job' \in [Requests -> Jobs] BY <1>1, <1>2
<1>4. JobInv'
  <2> SUFFICES ASSUME NEW q \in Requests PROVE JobOK(q, job'[q], reached') BY DEF JobInv
  <2>1. CASE q = r BY <1>1, <1>2, <2>1
  <2>2. CASE q # r
    <3>1. job'[q] = job[q] /\ job[q] \in Jobs /\ JobOK(q, job[q], reached)
      BY <1>1, <1>2, <2>2 DEF IInv, JobInv
    <3> QED BY <3>1, OutcomesGrow
  <2> QED BY <2>1, <2>2
<1>5. ASSUME NEW n \in notifications \cup retracted PROVE n.input \notin Upcoming(job'[n.by])
  <2>1. n.input \notin Upcoming(job[n.by]) BY DEF IInv, FreshInv
  <2>2. n.by \in Requests BY DEF IInv, TypeOK, Notifications
  <2>3. job'[n.by] = IF n.by = r THEN j ELSE job[n.by] BY <1>1, <1>2, <2>2
  <2> QED BY <2>1, <2>3
<1> QED BY <1>3, <1>4, <1>5

\* The end of the ingest of an input, once what it owes is stored in R.
LEMMA AfterInputOK ==
  ASSUME IInv, NEW r \in Requests, job[r].pc \in Ingesting, NEW R, reached \subseteq R,
         Key[Input(r)] = None => Complete(Input(r), R)
  PROVE  /\ AfterInput(r) \in Jobs /\ JobOK(r, AfterInput(r), R)
         /\ Upcoming(AfterInput(r)) \subseteq Upcoming(job[r])
         /\ Input(r) \notin Upcoming(AfterInput(r))
<1> DEFINE j == job[r]
<1>1. j \in Jobs /\ JobOK(r, j, reached) BY DEF IInv, TypeOK, JobInv
<1>2. JobOK(r, j, R) BY <1>1, OutcomesGrow
<1>3. CASE j.event = None
  <2>1. AfterInput(r) = [j EXCEPT !.pc = "done"] BY <1>3 DEF AfterInput
  <2> QED BY <1>1, <2>1, <1>3 DEF Jobs, Over, JobOK, Upcoming, Ingesting
<1>4. CASE j.event # None
  <2> DEFINE e == j.event
             L == Len(Plan[j.event])
  <2>1. e \in Events /\ j.i \in 1..L /\ L \in Nat /\ Input(r) = Plan[e][j.i]
    BY <1>1, <1>4, PlanFacts DEF Jobs, JobOK, Input, InputOf
  <2>2. CompleteUpTo(e, j.i + 1, R)
    <3> SUFFICES ASSUME NEW h \in 1..L, h < j.i + 1, Key[Plan[e][h]] = None
                 PROVE  Complete(Plan[e][h], R)
      BY DEF CompleteUpTo
    <3>1. CASE h < j.i BY <1>2, <1>4, <3>1, <2>1 DEF JobOK, CompleteUpTo
    <3>2. CASE h = j.i BY <3>2, <2>1
    <3> QED BY <3>1, <3>2, <2>1
  <2>3. \A k \in 1..L : Plan[e][k] = Plan[e][j.i] => k = j.i BY <2>1, PlanFacts
  <2>4. CASE j.i < L
    <3> DEFINE a == [j EXCEPT !.pc = "find", !.i = j.i + 1, !.todo = {}, !.tries = 0]
    <3>1. AfterInput(r) = a BY <1>4, <2>4 DEF AfterInput
    <3>2. a \in Jobs
      <4>1. j.i + 1 \in Nat /\ 0 \in 0..MaxAttempts BY <2>1, BoundsAssumption
      <4>2. "find" \in {"idle"} \cup Running \cup Over BY DEF Running
      <4> HIDE DEF j
      <4> QED BY <1>1, <4>1, <4>2 DEF Jobs
    <3>3. a.pc = "find" /\ a.event = e /\ a.i = j.i + 1 BY <1>1 DEF Jobs
    <3>4. JobOK(r, a, R) BY <2>1, <2>2, <2>4, <3>3 DEF JobOK, Ingesting
    <3>5. Upcoming(a) \subseteq Upcoming(j)
      BY <1>4, <2>1, <3>3 DEF Upcoming, Ingesting
    <3>6. Plan[e][j.i] \notin Upcoming(a)
      BY <1>4, <2>1, <2>3, <3>3 DEF Upcoming, Ingesting
    <3> QED BY <3>1, <3>2, <3>4, <3>5, <3>6, <2>1
  <2>5. CASE ~(j.i < L)
    <3> DEFINE a == [j EXCEPT !.pc = "mark", !.todo = {}, !.tries = 0]
    <3>1. AfterInput(r) = a BY <1>4, <2>5 DEF AfterInput
    <3>2. a \in Jobs
      <4>1. 0 \in 0..MaxAttempts BY BoundsAssumption
      <4>2. "mark" \in {"idle"} \cup Running \cup Over BY DEF Running
      <4> HIDE DEF j
      <4> QED BY <1>1, <4>1, <4>2 DEF Jobs
    <3>3. a.pc = "mark" /\ a.event = e BY <1>1 DEF Jobs
    <3>4. JobOK(r, a, R)
      <4>1. j.i = L BY <2>1, <2>5
      <4>2. CompleteUpTo(e, L + 1, R) BY <2>2, <4>1
      <4> QED BY <3>3, <4>2, <1>4 DEF JobOK, Ingesting
    <3>5. Upcoming(a) = {} BY <3>3, <1>4 DEF Upcoming, Ingesting
    <3> QED BY <3>1, <3>2, <3>4, <3>5
  <2> QED BY <2>4, <2>5
<1> QED BY <1>3, <1>4

\* The part of the invariant about the tables, when they do not change.
LEMMA TablesSame ==
  ASSUME IInv, UNCHANGED <<tables, ghosts>>, job' \in [Requests -> Jobs], JobInv',
         \A n \in notifications \cup retracted : n.input \notin Upcoming(job'[n.by])
  PROVE  IInv'
BY DEF tables, ghosts, IInv, TypeOK, FreshInv, KeyInv, ReferInv, ProcessedIsDelivered

\* A request that only moves on.
LEMMA MovesOn ==
  ASSUME IInv, NEW r \in Requests, NEW j \in Jobs, Set(r, j), UNCHANGED <<tables, ghosts>>,
         JobOK(r, j, reached), Upcoming(j) \subseteq Upcoming(job[r])
  PROVE  IInv'
<1>1. reached' = reached BY DEF ghosts
<1> QED BY <1>1, OneMoves, TablesSame

\* A request that ends, successfully or not.
LEMMA EndOK ==
  ASSUME IInv, NEW r \in Requests, NEW pc \in Over
  PROVE  /\ [job[r] EXCEPT !.pc = pc] \in Jobs
         /\ \A R : JobOK(r, [job[r] EXCEPT !.pc = pc], R)
         /\ Upcoming([job[r] EXCEPT !.pc = pc]) = {}
<1>1. job[r] \in Jobs BY DEF IInv, TypeOK
<1>2. [job[r] EXCEPT !.pc = pc] \in Jobs BY <1>1 DEF Jobs
<1>3. [job[r] EXCEPT !.pc = pc].pc = pc BY <1>1 DEF Jobs
<1> QED BY <1>2, <1>3 DEF Over, JobOK, Upcoming, Ingesting

LEMMA FailKeeps == ASSUME IInv, NEW r \in Requests, Fail(r) PROVE IInv'
BY EndOK, MovesOn DEF Fail, Goto, Over

\* Steps that neither insert nor delete a canonical row, nor mark an event.
LEMMA RowsSame ==
  ASSUME IInv, job' \in [Requests -> Jobs], JobInv',
         \A n \in notifications \cup retracted : n.input \notin Upcoming(job'[n.by]),
         UNCHANGED <<notifications, retracted, processed>>,
         reached \subseteq reached', reached' \subseteq Inputs \X Users \X Channels,
         inbox' \subseteq notifications \X Users,
         deliveries' \subseteq notifications \X Users \X Channels \X {"sent", "skipped", "failed"},
         purged' \subseteq Notifications \X Users
  PROVE  IInv'
<1>1. TypeOK' BY DEF IInv, TypeOK
<1>2. FreshInv' BY DEF FreshInv
<1>3. KeyInv' BY DEF IInv, KeyInv
<1>4. ReferInv' BY DEF IInv, ReferInv
<1>5. ProcessedIsDelivered' BY DEF IInv, ProcessedIsDelivered
<1> QED BY <1>1, <1>2, <1>3, <1>4, <1>5 DEF IInv

\* What the tables hold, as RowsSame asks for it.
LEMMA TablesRefer ==
  ASSUME IInv
  PROVE  /\ inbox \subseteq notifications \X Users
         /\ deliveries \subseteq notifications \X Users \X Channels \X {"sent", "skipped", "failed"}
         /\ reached \subseteq Inputs \X Users \X Channels
         /\ purged \subseteq Notifications \X Users
BY DEF IInv, TypeOK, ReferInv

\* What a request in the middle of an ingest holds.
LEMMA FanFacts ==
  ASSUME IInv, NEW r \in Requests, job[r].pc \in {"fan", "record", "giveUp"}
  PROVE  /\ job[r] \in Jobs /\ JobOK(r, job[r], reached) /\ Input(r) \in Inputs
         /\ job[r].notification = Row(r) /\ Row(r) \in Notifications
         /\ job[r].todo \subseteq Targets(Input(r))
         /\ \A x \in Targets(Input(r)) \ job[r].todo : <<Input(r), x[1], x[2]>> \in reached
<1>1. job[r] \in Jobs /\ JobOK(r, job[r], reached) BY DEF IInv, TypeOK, JobInv
<1>2. Input(r) \in Inputs BY <1>1, InputType DEF Input, Ingesting
<1> QED BY <1>1, <1>2 DEF JobOK, Row, Input, Notifications

LEMMA StoredKeeps ==
  ASSUME IInv, NEW r \in Requests, job[r].pc \in {"fan", "record", "giveUp"},
         NEW x \in job[r].todo, NEW outcome \in {"sent", "skipped", "failed"},
         Refers(job[r].notification), Stored(r, x, outcome)
  PROVE  IInv'
<1> DEFINE n == job[r].notification
           R == reached \cup {<<n.input, x[1], x[2]>>}
           j == [job[r] EXCEPT !.pc = "fan", !.todo = @ \ {x}, !.at = <<>>, !.tries = 0]
<1>1. /\ job[r] \in Jobs /\ JobOK(r, job[r], reached) /\ Input(r) \in Inputs
      /\ n = Row(r) /\ n \in Notifications /\ n.input = Input(r) /\ n \in notifications
      /\ job[r].todo \subseteq Targets(Input(r))
      /\ \A y \in Targets(Input(r)) \ job[r].todo : <<Input(r), y[1], y[2]>> \in reached
  BY FanFacts DEF Refers, Row
<1>2. x \in Users \X Channels /\ x[1] \in Users /\ x[2] \in Channels
  BY <1>1, TargetsType
<1>3. reached' = R /\ R \subseteq Inputs \X Users \X Channels /\ reached \subseteq R
  BY <1>1, <1>2 DEF Stored, IInv, TypeOK
<1>4. deliveries' \subseteq notifications \X Users \X Channels \X {"sent", "skipped", "failed"}
  <2>1. deliveries' \subseteq deliveries \cup {<<n, x[1], x[2], outcome>>} BY DEF Stored
  <2> QED BY <2>1, <1>1, <1>2, TablesRefer
<1>5. /\ job' \in [Requests -> Jobs] /\ JobInv'
      /\ \A m \in notifications \cup retracted : m.input \notin Upcoming(job'[m.by])
  <2>1. CASE job[r].todo = {x}
    <3>1. Set(r, AfterInput(r)) BY <2>1 DEF Stored
    <3>2. Complete(Input(r), R) BY <1>1, <2>1 DEF Complete
    <3>3. /\ AfterInput(r) \in Jobs /\ JobOK(r, AfterInput(r), R)
          /\ Upcoming(AfterInput(r)) \subseteq Upcoming(job[r])
      BY <1>3, <3>2, AfterInputOK DEF Ingesting
    <3> QED BY <3>1, <3>3, <1>3, OneMoves
  <2>2. CASE job[r].todo # {x}
    <3>1. Set(r, j) BY <2>2 DEF Stored
    <3>2. j \in Jobs
      <4>1. 0 \in 0..MaxAttempts /\ "fan" \in {"idle"} \cup Running \cup Over
        BY BoundsAssumption DEF Running
      <4>2. job[r].todo \ {x} \in SUBSET (Users \X Channels) BY <1>1 DEF Jobs
      <4> QED BY <1>1, <4>1, <4>2 DEF Jobs
    <3>3. /\ j.pc = "fan" /\ j.event = job[r].event /\ j.i = job[r].i /\ j.tries = 0
          /\ j.todo = job[r].todo \ {x} /\ j.notification = n
      BY <1>1 DEF Jobs
    <3>4. InputOf(j) = Input(r) BY <3>3 DEF Input, InputOf
    <3>5. JobOK(r, job[r], R) BY <1>1, <1>3, OutcomesGrow
    <3>6. JobOK(r, j, R)
      <4>1. \A y \in Targets(Input(r)) \ j.todo : <<Input(r), y[1], y[2]>> \in R
        BY <1>1, <3>3
      <4>2. j.todo \subseteq Targets(Input(r)) BY <1>1, <3>3
      <4>3. j.event # None => j.i \in 1..Len(Plan[j.event]) /\ CompleteUpTo(j.event, j.i, R)
        BY <3>3, <3>5 DEF JobOK, Ingesting
      <4>4. j.tries < MaxAttempts /\ ~(j.tries > 0) BY <3>3, BoundsAssumption
      <4>5. j.notification = [by |-> r, input |-> InputOf(j)] BY <1>1, <3>3, <3>4 DEF Row
      <4> HIDE DEF j, R
      <4> QED BY <3>3, <3>4, <4>1, <4>2, <4>3, <4>4, <4>5 DEF JobOK, Ingesting
    <3>7. Upcoming(j) \subseteq Upcoming(job[r]) BY <3>3 DEF Upcoming, Ingesting
    <3> QED BY <3>1, <3>2, <3>6, <3>7, <1>3, OneMoves
  <2> QED BY <2>1, <2>2
<1> QED BY <1>3, <1>4, <1>5, TablesRefer, RowsSame DEF Stored

\* The target being tried is one that is still to be reached.
LEMMA TargetedIsOwed ==
  ASSUME IInv, NEW r \in Requests, job[r].pc = "fan", NEW x \in Targeted(r)
  PROVE  x \in job[r].todo
BY DEF IInv, JobInv, JobOK, Targeted

LEMMA RetryKeeps ==
  ASSUME IInv, NEW r \in Requests, job[r].pc \in {"fan", "record"},
         NEW x \in job[r].todo, Retry(r, x), UNCHANGED <<tables, ghosts>>
  PROVE  IInv'
<1> DEFINE pc == IF job[r].tries + 1 < MaxAttempts THEN "fan" ELSE "giveUp"
           j == [job[r] EXCEPT !.at = x, !.tries = @ + 1, !.pc = pc]
<1>1. job[r] \in Jobs /\ JobOK(r, job[r], reached) /\ job[r].todo \subseteq Users \X Channels
  BY FanFacts DEF Jobs
<1>2. job[r].tries \in Nat /\ job[r].tries < MaxAttempts /\ MaxAttempts \in Nat
  BY <1>1, BoundsAssumption DEF JobOK, Jobs
<1>3. j \in Jobs
  <2>1. job[r].tries + 1 \in 0..MaxAttempts /\ pc \in {"idle"} \cup Running \cup Over
    BY <1>2 DEF Running
  <2> HIDE DEF pc
  <2> QED BY <1>1, <2>1 DEF Jobs
<1>4. /\ j.pc = pc /\ j.event = job[r].event /\ j.i = job[r].i /\ j.todo = job[r].todo
      /\ j.at = x /\ j.tries = job[r].tries + 1 /\ j.notification = job[r].notification
  BY <1>1 DEF Jobs
<1>5. InputOf(j) = Input(r) BY <1>4 DEF InputOf, Input
<1>6. JobOK(r, j, reached)
  <2>1. j.event # None => j.i \in 1..Len(Plan[j.event]) /\ CompleteUpTo(j.event, j.i, reached)
    BY <1>1, <1>4 DEF JobOK, Ingesting
  <2>2. /\ j.notification = [by |-> r, input |-> InputOf(j)]
        /\ j.todo \subseteq Targets(InputOf(j))
        /\ \A y \in Targets(InputOf(j)) \ j.todo : <<InputOf(j), y[1], y[2]>> \in reached
    BY <1>4, <1>5, FanFacts DEF Row
  <2>3. j.pc = "fan" => j.tries < MaxAttempts BY <1>4, <1>2
  <2>4. j.at \in j.todo /\ j.pc \in {"fan", "giveUp"} BY <1>4
  <2> HIDE DEF j, pc
  <2> QED BY <2>1, <2>2, <2>3, <2>4 DEF JobOK, Ingesting
<1>7. Upcoming(j) \subseteq Upcoming(job[r]) BY <1>4 DEF Upcoming, Ingesting
<1>8. Set(r, j) BY DEF Retry
<1> HIDE DEF j
<1> QED BY <1>3, <1>6, <1>7, <1>8, MovesOn

-----------------------------------------------------------------------------
(* One lemma per action.                                                     *)

\* A request that starts from idle may become any job that owes nothing yet.
LEMMA StartKeeps ==
  ASSUME IInv, NEW r \in Requests, At(r, "idle"), NEW j \in Jobs, Set(r, j),
         JobOK(r, j, reached), UNCHANGED <<tables, ghosts>>
  PROVE  IInv'
<1>1. Upcoming(j) \subseteq Upcoming(job[r]) BY DEF At, Upcoming
<1> QED BY <1>1, MovesOn

LEMMA IdleType ==
  /\ Idle \in Jobs
  /\ \A pc \in {"idle"} \cup Running \cup Over : [Idle EXCEPT !.pc = pc] \in Jobs
<1>1. 0 \in 0..MaxAttempts BY BoundsAssumption
<1> QED BY <1>1 DEF Idle, Jobs

LEMMA DispatchKeeps ==
  ASSUME IInv, NEW r \in Requests, NEW e \in Events, Dispatch(r, e)
  PROVE  IInv'
<1> DEFINE pc == IF e \in processed THEN "done" ELSE "find"
           j == [Idle EXCEPT !.event = e, !.i = 1, !.pc = pc]
<1>1. pc \in {"idle"} \cup Running \cup Over /\ pc \in {"done", "find"} BY DEF Running, Over
<1>2. j \in Jobs
  <2> HIDE DEF pc
  <2>1. 0 \in 0..MaxAttempts BY BoundsAssumption
  <2> QED BY <1>1, <2>1 DEF Idle, Jobs
<1>3. j.pc = pc /\ j.event = e /\ j.i = 1 BY DEF Idle
<1>4. JobOK(r, j, reached)
  <2>1. 1 \in 1..Len(Plan[e]) BY PlanFacts
  <2>2. CompleteUpTo(e, 1, reached) BY PlanFacts DEF CompleteUpTo
  <2> HIDE DEF j, pc
  <2> QED BY <1>1, <1>3, <2>1, <2>2 DEF JobOK, Ingesting
<1> HIDE DEF j
<1> QED BY <1>2, <1>4, StartKeeps DEF Dispatch, j

LEMMA PublishKeeps == ASSUME IInv, NEW r \in Requests, Publish(r) PROVE IInv'
<1> DEFINE j == [Idle EXCEPT !.pc = "find"]
<1>1. j \in Jobs BY IdleType DEF Running
<1>2. j.pc = "find" /\ j.event = None BY DEF Idle
<1>3. JobOK(r, j, reached) BY <1>2 DEF JobOK, Ingesting
<1> QED BY <1>1, <1>3, StartKeeps DEF Publish

LEMMA UnpublishKeeps == ASSUME IInv, NEW r \in Requests, Unpublish(r) PROVE IInv'
<1>1. CASE Holders(Key[Broadcast]) = {}
  <2> DEFINE j == [Idle EXCEPT !.pc = "done"]
  <2>1. j \in Jobs /\ j.pc = "done" BY IdleType DEF Over, Idle
  <2>2. JobOK(r, j, reached) BY <2>1 DEF JobOK, Ingesting
  <2> QED BY <1>1, <2>1, <2>2, StartKeeps DEF Unpublish
<1>2. CASE Holders(Key[Broadcast]) # {}
  <2>1. PICK n \in Holders(Key[Broadcast]) :
          Set(r, [Idle EXCEPT !.pc = "cutInbox", !.notification = n])
    BY <1>2 DEF Unpublish
  <2> DEFINE j == [Idle EXCEPT !.pc = "cutInbox", !.notification = n]
  <2>2. n \in Notifications BY DEF Holders, IInv, TypeOK
  <2>3. "cutInbox" \in {"idle"} \cup Running \cup Over /\ 0 \in 0..MaxAttempts
    BY BoundsAssumption DEF Running
  <2>4. j \in Jobs BY <2>2, <2>3 DEF Idle, Jobs
  <2>5. j.pc = "cutInbox" /\ j.notification = n BY DEF Idle
  <2>6. JobOK(r, j, reached) BY <2>2, <2>5 DEF JobOK, Ingesting
  <2> QED BY <2>1, <2>4, <2>6, StartKeeps DEF Unpublish
<1> QED BY <1>1, <1>2

LEMMA ReadInboxKeeps ==
  ASSUME IInv, NEW r \in Requests, NEW u \in Users, ReadInbox(r, u) PROVE IInv'
<1> DEFINE missing == {n \in notifications : n.input = Broadcast /\ <<n, u>> \notin inbox}
           pc == IF missing = {} THEN "done" ELSE "backfill"
           j == [Idle EXCEPT !.user = u, !.missing = missing, !.pc = pc]
<1>1. missing \in SUBSET Notifications BY DEF IInv, TypeOK
<1>2. pc \in {"idle"} \cup Running \cup Over /\ pc \in {"done", "backfill"} /\ 0 \in 0..MaxAttempts
  BY BoundsAssumption DEF Running, Over
<1> HIDE DEF missing, pc
<1>3. j \in Jobs BY <1>1, <1>2 DEF Idle, Jobs
<1>4. j.pc = pc /\ j.user = u BY DEF Idle
<1>5. JobOK(r, j, reached) BY <1>2, <1>4 DEF JobOK, Ingesting
<1> QED BY <1>3, <1>5, StartKeeps DEF ReadInbox, missing, pc

LEMMA FindKeeps == ASSUME IInv, NEW r \in Requests, Find(r) PROVE IInv'
<1>1. job[r] \in Jobs /\ JobOK(r, job[r], reached) /\ job[r].pc = "find"
  BY DEF Find, At, IInv, TypeOK, JobInv
<1>2. CASE Holders(Key[Input(r)]) # {}
  <2>1. Key[Input(r)] # None BY <1>2 DEF Holders
  <2>2. /\ AfterInput(r) \in Jobs /\ JobOK(r, AfterInput(r), reached)
        /\ Upcoming(AfterInput(r)) \subseteq Upcoming(job[r])
    BY <1>1, <2>1, AfterInputOK DEF Ingesting
  <2> QED BY <1>2, <2>2, MovesOn DEF Find
<1>3. CASE Holders(Key[Input(r)]) = {}
  <2> DEFINE j == [job[r] EXCEPT !.pc = "insert"]
  <2>1. "insert" \in {"idle"} \cup Running \cup Over BY DEF Running
  <2>2. j \in Jobs BY <1>1, <2>1 DEF Jobs
  <2>3. j.pc = "insert" /\ j.event = job[r].event /\ j.i = job[r].i BY <1>1 DEF Jobs
  <2>4. JobOK(r, j, reached) BY <1>1, <2>3 DEF JobOK, Ingesting
  <2>5. Upcoming(j) \subseteq Upcoming(job[r]) BY <1>1, <2>3 DEF Upcoming, Ingesting
  <2> QED BY <1>3, <2>2, <2>4, <2>5, MovesOn DEF Find
<1> QED BY <1>2, <1>3

LEMMA SkipKeeps == ASSUME IInv, NEW r \in Requests, Skip(r) PROVE IInv'
BY TargetedIsOwed, StoredKeeps DEF Skip, At

LEMMA RecordKeeps == ASSUME IInv, NEW r \in Requests, Record(r) PROVE IInv'
<1>1. job[r].at \in job[r].todo BY DEF Record, At, IInv, JobInv, JobOK
<1> QED BY <1>1, StoredKeeps DEF Record, At

LEMMA GiveUpKeeps == ASSUME IInv, NEW r \in Requests, GiveUp(r) PROVE IInv'
<1>1. job[r].at \in job[r].todo BY DEF GiveUp, At, IInv, JobInv, JobOK
<1> QED BY <1>1, StoredKeeps DEF GiveUp, At

LEMMA DeliverFailsKeeps == ASSUME IInv, NEW r \in Requests, DeliverFails(r) PROVE IInv'
BY TargetedIsOwed, RetryKeeps DEF DeliverFails, At

LEMMA RecordFailsKeeps == ASSUME IInv, NEW r \in Requests, RecordFails(r) PROVE IInv'
<1>1. job[r].at \in job[r].todo BY DEF RecordFails, At, IInv, JobInv, JobOK
<1> QED BY <1>1, RetryKeeps DEF RecordFails, At

LEMMA DeliverKeeps == ASSUME IInv, NEW r \in Requests, Deliver(r) PROVE IInv'
<1>1. PICK x \in Targeted(r) :
        /\ x[2] = "in_app" => Refers(job[r].notification)
        /\ inbox' = IF x[2] = "in_app" THEN inbox \cup {<<job[r].notification, x[1]>>} ELSE inbox
        /\ Set(r, [job[r] EXCEPT !.pc = "record", !.at = x])
  BY DEF Deliver
<1> DEFINE j == [job[r] EXCEPT !.pc = "record", !.at = x]
<1>2. /\ job[r] \in Jobs /\ JobOK(r, job[r], reached) /\ job[r].pc = "fan"
      /\ x \in job[r].todo /\ job[r].todo \subseteq Users \X Channels
  BY FanFacts, TargetedIsOwed DEF Deliver, At, Jobs
<1>3. "record" \in {"idle"} \cup Running \cup Over BY DEF Running
<1>4. j \in Jobs BY <1>2, <1>3 DEF Jobs
<1>5. /\ j.pc = "record" /\ j.event = job[r].event /\ j.i = job[r].i /\ j.todo = job[r].todo
      /\ j.at = x /\ j.tries = job[r].tries /\ j.notification = job[r].notification
  BY <1>2 DEF Jobs
<1>6. JobOK(r, j, reached)
  <2>1. InputOf(j) = InputOf(job[r]) BY <1>5 DEF InputOf
  <2> HIDE DEF j
  <2> QED BY <1>2, <1>5, <2>1 DEF JobOK, Ingesting
<1>7. Upcoming(j) \subseteq Upcoming(job[r]) BY <1>2, <1>5 DEF Upcoming, Ingesting
<1>8. reached' = reached BY DEF Deliver, ghosts
<1>9. inbox' \subseteq notifications \X Users BY <1>1, <1>2, TablesRefer DEF Refers
<1> HIDE DEF j
<1>10. /\ job' \in [Requests -> Jobs] /\ JobInv'
       /\ \A n \in notifications \cup retracted : n.input \notin Upcoming(job'[n.by])
  BY <1>1, <1>4, <1>6, <1>7, <1>8, OneMoves DEF j
<1> QED BY <1>8, <1>9, <1>10, RowsSame, TablesRefer DEF Deliver, ghosts

LEMMA MarkKeeps == ASSUME IInv, NEW r \in Requests, Mark(r) PROVE IInv'
<1> DEFINE e == job[r].event
<1>1. /\ job[r] \in Jobs /\ JobOK(r, job[r], reached) /\ job[r].pc = "mark"
  BY DEF Mark, At, IInv, TypeOK, JobInv
<1>2. e \in Events /\ CompleteUpTo(e, Len(Plan[e]) + 1, reached) BY <1>1 DEF JobOK, Jobs
<1>3. /\ job' \in [Requests -> Jobs] /\ JobInv'
      /\ \A n \in notifications \cup retracted : n.input \notin Upcoming(job'[n.by])
  <2>1. reached' = reached BY DEF Mark, ghosts
  <2> QED BY <2>1, EndOK, OneMoves DEF Mark, Goto, Over
<1>4. TypeOK' BY <1>2, <1>3 DEF IInv, TypeOK, Mark, ghosts
<1>5. FreshInv' /\ KeyInv' /\ ReferInv'
  BY <1>3 DEF IInv, FreshInv, KeyInv, ReferInv, Mark, ghosts
<1>6. ProcessedIsDelivered'
  <2> SUFFICES ASSUME NEW f \in processed', NEW k \in 1..Len(Plan[f]), Key[Plan[f][k]] = None
               PROVE  \A x \in Targets(Plan[f][k]) : <<Plan[f][k], x[1], x[2]>> \in reached'
    BY DEF ProcessedIsDelivered
  <2>1. reached' = reached /\ processed' = processed \cup {e} BY DEF Mark, ghosts
  <2>2. CASE f \in processed BY <2>1, <2>2 DEF IInv, ProcessedIsDelivered
  <2>3. CASE f = e
    <3>1. k < Len(Plan[e]) + 1 BY <2>3, <1>2, PlanFacts
    <3> QED BY <3>1, <2>1, <2>3, <1>2 DEF CompleteUpTo, Complete
  <2> QED BY <2>1, <2>2, <2>3
<1> QED BY <1>3, <1>4, <1>5, <1>6 DEF IInv

LEMMA InsertKeeps == ASSUME IInv, NEW r \in Requests, Insert(r) PROVE IInv'
<1> DEFINE in == Input(r)
<1>1. job[r] \in Jobs /\ JobOK(r, job[r], reached) /\ job[r].pc = "insert"
  BY DEF Insert, At, IInv, TypeOK, JobInv
<1>2. in \in Inputs /\ Row(r) \in Notifications /\ Row(r).by = r /\ Row(r).input = in
  BY <1>1, InputType DEF Ingesting, Input, Row, Notifications
<1>3. /\ reached' = reached /\ retracted' = retracted /\ processed' = processed
      /\ inbox' = inbox /\ deliveries' = deliveries /\ purged' = purged
      /\ notifications' = notifications \cup {Row(r)}
  BY DEF Insert, ghosts
<1>4. in \in Upcoming(job[r])
  <2>1. CASE job[r].event = None BY <1>1, <1>2, <2>1 DEF Upcoming, Input, InputOf
  <2>2. CASE job[r].event # None
    BY <1>1, <1>2, <2>2 DEF Upcoming, Input, InputOf, JobOK, Ingesting
  <2> QED BY <2>1, <2>2
<1>5. /\ job' \in [Requests -> Jobs] /\ JobInv'
      /\ \A n \in notifications \cup retracted : n.input \notin Upcoming(job'[n.by])
      /\ in \notin Upcoming(job'[r])
  <2>1. CASE Recipients[in] = {}
    <3>1. Complete(in, reached) BY <2>1 DEF Complete, Targets
    <3>2. /\ AfterInput(r) \in Jobs /\ JobOK(r, AfterInput(r), reached)
          /\ Upcoming(AfterInput(r)) \subseteq Upcoming(job[r])
          /\ in \notin Upcoming(AfterInput(r))
      BY <1>1, <3>1, AfterInputOK DEF Ingesting
    <3>3. Set(r, AfterInput(r)) BY <2>1 DEF Insert
    <3>4. job'[r] = AfterInput(r) BY <3>3 DEF Set, IInv, TypeOK
    <3> QED BY <3>2, <3>3, <3>4, <1>3, OneMoves
  <2>2. CASE Recipients[in] # {}
    <3> DEFINE j == [job[r] EXCEPT !.pc = "fan", !.notification = Row(r),
                                   !.todo = Targets(in), !.at = <<>>, !.tries = 0]
    <3>1. /\ 0 \in 0..MaxAttempts /\ "fan" \in {"idle"} \cup Running \cup Over
          /\ Targets(in) \in SUBSET (Users \X Channels)
      BY <1>2, BoundsAssumption, TargetsType DEF Running
    <3>2. j \in Jobs BY <1>1, <1>2, <3>1 DEF Jobs
    <3>3. /\ j.pc = "fan" /\ j.event = job[r].event /\ j.i = job[r].i /\ j.tries = 0
          /\ j.todo = Targets(in) /\ j.notification = Row(r)
      BY <1>1 DEF Jobs
    <3>4. InputOf(j) = in BY <3>3 DEF Input, InputOf
    <3>5. JobOK(r, j, reached)
      <4>1. j.tries < MaxAttempts /\ ~(j.tries > 0) BY <3>3, BoundsAssumption
      <4> HIDE DEF j
      <4> QED BY <1>1, <3>3, <3>4, <4>1 DEF JobOK, Ingesting, Row
    <3>6. Upcoming(j) \subseteq Upcoming(job[r]) BY <1>1, <3>3 DEF Upcoming, Ingesting
    <3>7. in \notin Upcoming(j)
      <4>1. CASE job[r].event = None BY <3>3, <4>1 DEF Upcoming
      <4>2. CASE job[r].event # None
        <5>1. job[r].event \in Events /\ job[r].i \in 1..Len(Plan[job[r].event])
          BY <1>1, <4>2 DEF Jobs, JobOK, Ingesting
        <5>2. in = Plan[job[r].event][job[r].i] BY <4>2 DEF Input, InputOf
        <5>3. \A k \in 1..Len(Plan[job[r].event]) :
                Plan[job[r].event][k] = in => k = job[r].i
          BY <5>1, <5>2, PlanFacts
        <5> HIDE DEF j, in
        <5> QED BY <3>3, <4>2, <5>1, <5>3 DEF Upcoming
      <4> QED BY <4>1, <4>2
    <3>8. Set(r, j) BY <2>2 DEF Insert
    <3>9. job'[r] = j BY <3>8 DEF Set, IInv, TypeOK
    <3> HIDE DEF j
    <3> QED BY <3>2, <3>5, <3>6, <3>7, <3>8, <3>9, <1>3, OneMoves
  <2> QED BY <2>1, <2>2
<1>6. TypeOK' BY <1>2, <1>3, <1>5 DEF IInv, TypeOK
<1>7. FreshInv' BY <1>2, <1>3, <1>5 DEF FreshInv
<1>8. KeyInv'
  <2>1. \A n \in notifications : Key[in] # None => Key[n.input] # Key[in]
    BY DEF Insert, Holders
  <2> QED BY <1>2, <1>3, <2>1 DEF IInv, KeyInv
<1>9. ReferInv'
  <2>1. Row(r) \notin retracted BY <1>2, <1>4 DEF IInv, FreshInv
  <2> QED BY <1>3, <2>1 DEF IInv, ReferInv
<1>10. ProcessedIsDelivered' BY <1>3 DEF IInv, ProcessedIsDelivered
<1> QED BY <1>5, <1>6, <1>7, <1>8, <1>9, <1>10 DEF IInv

\* Going on to the next statement of a cascade.
LEMMA GotoCut ==
  ASSUME IInv, NEW r \in Requests, Goto(r, "cutDeliveries") \/ Goto(r, "cutRow") \/ Goto(r, "done"),
         job[r].pc # "idle", reached' = reached
  PROVE  /\ job' \in [Requests -> Jobs] /\ JobInv'
         /\ \A n \in notifications \cup retracted : n.input \notin Upcoming(job'[n.by])
<1>1. PICK pc \in {"cutDeliveries", "cutRow", "done"} : Goto(r, pc) OBVIOUS
<1> DEFINE j == [job[r] EXCEPT !.pc = pc]
<1>2. job[r] \in Jobs BY DEF IInv, TypeOK
<1>3. pc \in {"idle"} \cup Running \cup Over BY DEF Running, Over
<1>4. j \in Jobs BY <1>2, <1>3 DEF Jobs
<1>5. j.pc = pc BY <1>2 DEF Jobs
<1>6. JobOK(r, j, reached) /\ Upcoming(j) = {} BY <1>5 DEF JobOK, Ingesting, Upcoming
<1> QED BY <1>1, <1>4, <1>6, OneMoves DEF Goto

LEMMA CutInboxKeeps == ASSUME IInv, NEW r \in Requests, CutInbox(r) PROVE IInv'
<1>1. reached' = reached /\ job[r].pc # "idle" BY DEF CutInbox, At, ghosts
<1>2. /\ job' \in [Requests -> Jobs] /\ JobInv'
      /\ \A n \in notifications \cup retracted : n.input \notin Upcoming(job'[n.by])
  BY <1>1, GotoCut DEF CutInbox
<1>3. inbox' \subseteq inbox BY DEF CutInbox
<1> QED BY <1>1, <1>2, <1>3, TablesRefer, RowsSame DEF CutInbox, ghosts

LEMMA CutDeliveriesKeeps == ASSUME IInv, NEW r \in Requests, CutDeliveries(r) PROVE IInv'
<1>1. reached' = reached /\ job[r].pc # "idle" BY DEF CutDeliveries, At, ghosts
<1>2. /\ job' \in [Requests -> Jobs] /\ JobInv'
      /\ \A n \in notifications \cup retracted : n.input \notin Upcoming(job'[n.by])
  BY <1>1, GotoCut DEF CutDeliveries
<1>3. deliveries' \subseteq deliveries BY DEF CutDeliveries
<1> QED BY <1>1, <1>2, <1>3, TablesRefer, RowsSame DEF CutDeliveries, ghosts

LEMMA CutRowKeeps == ASSUME IInv, NEW r \in Requests, CutRow(r) PROVE IInv'
<1> DEFINE n == job[r].notification
<1>1. /\ reached' = reached /\ inbox' = inbox /\ deliveries' = deliveries
      /\ processed' = processed /\ purged' = purged /\ job[r].pc # "idle"
      /\ notifications' = notifications \ {n}
      /\ retracted' = retracted \cup ({n} \cap notifications)
      /\ ~Referred(n)
  BY DEF CutRow, At
<1>2. /\ job' \in [Requests -> Jobs] /\ JobInv'
      /\ \A m \in notifications \cup retracted : m.input \notin Upcoming(job'[m.by])
  BY <1>1, GotoCut DEF CutRow
<1>3. TypeOK' BY <1>1, <1>2 DEF IInv, TypeOK
<1>4. FreshInv' BY <1>1, <1>2 DEF FreshInv
<1>5. KeyInv' BY <1>1 DEF IInv, KeyInv
<1>6. ReferInv'
  <2>1. (\A x \in inbox : x[1] # n) /\ (\A d \in deliveries : d[1] # n)
    BY <1>1 DEF Referred
  <2> QED BY <1>1, <2>1 DEF IInv, ReferInv
<1>7. ProcessedIsDelivered' BY <1>1 DEF IInv, ProcessedIsDelivered
<1> QED BY <1>2, <1>3, <1>4, <1>5, <1>6, <1>7 DEF IInv

LEMMA BackfillKeeps == ASSUME IInv, NEW r \in Requests, Backfill(r) PROVE IInv'
<1>1. PICK n \in job[r].missing :
        /\ Refers(n)
        /\ inbox' = inbox \cup {<<n, job[r].user>>}
        /\ Set(r, [job[r] EXCEPT !.missing = @ \ {n},
                                 !.pc = IF job[r].missing = {n} THEN "done" ELSE "backfill"])
  BY DEF Backfill
<1> DEFINE pc == IF job[r].missing = {n} THEN "done" ELSE "backfill"
           j == [job[r] EXCEPT !.missing = @ \ {n}, !.pc = pc]
<1>2. /\ job[r] \in Jobs /\ JobOK(r, job[r], reached) /\ job[r].pc = "backfill"
      /\ job[r].user \in Users
  BY DEF Backfill, At, IInv, TypeOK, JobInv, JobOK
<1>3. pc \in {"idle"} \cup Running \cup Over /\ pc \in {"done", "backfill"} BY DEF Running, Over
<1>4. j \in Jobs
  <2>1. job[r].missing \ {n} \in SUBSET Notifications BY <1>2 DEF Jobs
  <2> HIDE DEF pc
  <2> QED BY <1>2, <1>3, <2>1 DEF Jobs
<1>5. j.pc = pc /\ j.user = job[r].user BY <1>2 DEF Jobs
<1>6. JobOK(r, j, reached) /\ Upcoming(j) = {}
  <2> HIDE DEF j, pc
  <2> QED BY <1>2, <1>3, <1>5 DEF JobOK, Ingesting, Upcoming
<1>7. reached' = reached BY DEF Backfill, ghosts
<1>8. inbox' \subseteq notifications \X Users BY <1>1, <1>2, TablesRefer DEF Refers
<1> HIDE DEF j
<1>9. /\ job' \in [Requests -> Jobs] /\ JobInv'
      /\ \A m \in notifications \cup retracted : m.input \notin Upcoming(job'[m.by])
  BY <1>1, <1>4, <1>6, <1>7, OneMoves DEF j
<1> QED BY <1>7, <1>8, <1>9, RowsSame, TablesRefer DEF Backfill, ghosts

LEMMA PurgeKeeps == ASSUME IInv, PurgeInbox \/ PurgeDeliveries PROVE IInv'
<1>1. job' = job /\ reached' = reached BY DEF PurgeInbox, PurgeDeliveries, ghosts
<1>2. /\ job' \in [Requests -> Jobs] /\ JobInv'
      /\ \A n \in notifications \cup retracted : n.input \notin Upcoming(job'[n.by])
  BY <1>1 DEF IInv, TypeOK, JobInv, FreshInv
<1>3. CASE PurgeInbox
  <2>1. inbox' \subseteq inbox /\ purged' \subseteq purged \cup inbox BY <1>3 DEF PurgeInbox
  <2>2. purged' \subseteq Notifications \X Users BY <2>1 DEF IInv, TypeOK
  <2> QED BY <1>1, <1>2, <1>3, <2>1, <2>2, TablesRefer, RowsSame DEF PurgeInbox
<1>4. CASE PurgeDeliveries
  <2>1. deliveries' \subseteq deliveries BY <1>4 DEF PurgeDeliveries
  <2> QED BY <1>1, <1>2, <1>4, <2>1, TablesRefer, RowsSame DEF PurgeDeliveries, ghosts
<1> QED BY <1>3, <1>4

-----------------------------------------------------------------------------
(* The invariant.                                                            *)

LEMMA StepKeeps == ASSUME IInv, NEW r \in Requests, Step(r) PROVE IInv'
<1>1. CASE InsertFails(r) \/ FanFails(r) \/ Abort(r) \/ CutRowFails(r) \/ BackfillFails(r)
  BY <1>1, FailKeeps DEF InsertFails, FanFails, Abort, CutRowFails, BackfillFails
<1> QED
  BY <1>1, DispatchKeeps, PublishKeeps, FindKeeps, InsertKeeps, SkipKeeps, DeliverKeeps,
     DeliverFailsKeeps, RecordKeeps, RecordFailsKeeps, GiveUpKeeps, MarkKeeps, UnpublishKeeps,
     CutInboxKeeps, CutDeliveriesKeeps, CutRowKeeps, ReadInboxKeeps, BackfillKeeps
  DEF Step

LEMMA InitHolds == Init => IInv
<1> SUFFICES ASSUME Init PROVE IInv OBVIOUS
<1>1. TypeOK BY IdleType DEF Init, TypeOK
<1>2. JobInv BY DEF Init, JobInv, JobOK, Idle, Ingesting
<1> QED BY <1>1, <1>2 DEF Init, IInv, FreshInv, KeyInv, ReferInv, ProcessedIsDelivered

LEMMA StutterKeeps == ASSUME IInv, UNCHANGED vars PROVE IInv'
BY DEF vars, IInv, TypeOK, JobInv, FreshInv, KeyInv, ReferInv, ProcessedIsDelivered

\* Every reachable state of the notification service satisfies the inductive
\* invariant: what each request holds in memory agrees with the tables.
THEOREM IngestInvariant == Spec => []IInv
<1>1. IInv /\ [Next]_vars => IInv' BY StepKeeps, PurgeKeeps, StutterKeeps DEF Next
<1> QED BY InitHolds, <1>1, PTL DEF Spec

-----------------------------------------------------------------------------
(* What follows from it.                                                     *)

\* Tables and requests keep their types; in particular no delivery is tried more
\* than MaxAttempts times (deliverWithRetry).
THEOREM IngestTypeCorrect == Spec => []TypeOK
<1>1. IInv => TypeOK BY DEF IInv
<1> QED BY <1>1, IngestInvariant, PTL

\* An event is acknowledged only when each recipient of its unkeyed inputs has
\* an outcome on every channel (dispatchEvent marks after the handler).
THEOREM ProcessedReachesAll == Spec => []ProcessedIsDelivered
<1>1. IInv => ProcessedIsDelivered BY DEF IInv
<1> QED BY <1>1, IngestInvariant, PTL

\* No user ever has two inbox rows of one dedup key (ingest, and the unique index).
THEOREM KeyedAtMostOnce == Spec => []KeyedOnce
<1>1. IInv => KeyedOnce
  <2> SUFFICES ASSUME IInv, NEW x \in inbox, NEW y \in inbox, x[2] = y[2],
                      Key[x[1].input] # None, Key[x[1].input] = Key[y[1].input]
               PROVE  x = y
    BY DEF KeyedOnce
  <2>1. x[1] = y[1] BY DEF IInv, KeyInv, ReferInv
  <2> QED BY <2>1 DEF IInv, TypeOK
<1> QED BY <1>1, IngestInvariant, PTL

\* Nothing of an unpublished broadcast is or comes back in an inbox or among the
\* deliveries (deleteBroadcastCascade, under the foreign keys).
THEOREM RetractedStaysGone == Spec => []RetractedIsGone
<1>1. IInv => RetractedIsGone BY DEF IInv, ReferInv, RetractedIsGone
<1> QED BY <1>1, IngestInvariant, PTL
=============================================================================
