--------------------------- MODULE MailSendProofs ---------------------------
(***************************************************************************)
(* Proofs about MailSend, for every set of requests, drains, keys, rows and *)
(* bodies, and every number of attempts.                                     *)
(***************************************************************************)
EXTENDS MailSend, TLAPS

-----------------------------------------------------------------------------
(* The inductive invariant.                                                  *)

\* Keys under which more than one delivery is possible.
Doubtful == flunked \cup unsure

\* A worker that is sending holds a claim of its own body; one that marks a send
\* as done has delivered it; one that is about to call the provider under a key
\* that is not doubtful is the first to do so.
JobOK(j) ==
  /\ j.pc \in OnAKey => j.key \in Keys /\ j.body \in Bodies
  /\ j.pc \in Sending => log[j.key].status # "none" /\ log[j.key].body = j.body
  /\ j.pc = "markSent" => delivered[j.key][j.body] > 0
  /\ j.pc = "send" /\ j.key \notin Doubtful => delivered[j.key][j.body] = 0

JobInv == \A w \in Workers : JobOK(job[w])

Holding(w, k) == job[w].pc \in Sending /\ job[w].key = k

\* A key that is not doubtful has one sender at a time, and never a second one.
ExclusiveInv ==
  \A k \in Keys \ Doubtful :
    /\ log[k].status # "failed"
    /\ \A v, w \in Workers : Holding(v, k) /\ Holding(w, k) => v = w

LogInv ==
  \A k \in Keys : IF log[k].status = "none" THEN log[k].body = None ELSE log[k].body \in Bodies

RowInv ==
  \A s \in Schedules :
    rows[s].status = "scheduled" => rows[s].attempts < MaxAttempts /\ rows[s].body \in Bodies

IInv == /\ TypeOK /\ JobInv /\ ExclusiveInv /\ LogInv /\ RowInv
        /\ OneBodyPerKey /\ LogIsTrue /\ OnceUnlessFailed

-----------------------------------------------------------------------------
(* Lemmas.                                                                   *)

LEMMA JobsOK == IInv => \A w \in Workers : job[w] \in Jobs /\ JobOK(job[w])
BY DEF IInv, TypeOK, JobInv

LEMMA IdleType == Idle \in Jobs /\ Idle.pc = "idle"
<1>1. 0 \in 0..MaxAttempts /\ 0 \in 0..(SendTries - 1) BY BoundsAssumption
<1> QED BY <1>1 DEF Idle, Jobs

LEMMA IdleOK == JobOK(Idle)
BY IdleType DEF JobOK, OnAKey, Sending

LEMMA GotoType ==
  ASSUME NEW j \in Jobs, NEW pc \in OnAKey
  PROVE  /\ [j EXCEPT !.pc = pc] \in Jobs
         /\ [j EXCEPT !.pc = pc].pc = pc /\ [j EXCEPT !.pc = pc].key = j.key
         /\ [j EXCEPT !.pc = pc].body = j.body
BY DEF Jobs

\* A step of one worker that leaves the send log and the deliveries alone.
LEMMA QuietKeeps ==
  ASSUME IInv, NEW w \in Workers, NEW j \in Jobs, Set(w, j), JobOK(j),
         UNCHANGED <<log, delivered, flunked, unsure>>,
         j.pc \in Sending => Holding(w, j.key) \/ j.key \in Doubtful,
         rows' \in [Schedules -> [status : {"none", "scheduled"} \cup Final,
                      body : Bodies \cup {None}, attempts : 0..MaxAttempts, due : BOOLEAN]],
         RowInv', tried' \in [Schedules -> 0..MaxAttempts], answered' \subseteq Keys \X Bodies
  PROVE  IInv'
<1>1. job \in [Workers -> Jobs] BY DEF IInv, TypeOK
<1>2. job' \in [Workers -> Jobs] /\ job'[w] = j /\ \A v \in Workers \ {w} : job'[v] = job[v]
  BY <1>1 DEF Set
<1>3. TypeOK' BY <1>2 DEF IInv, TypeOK
<1>4. JobInv' BY <1>2 DEF IInv, JobInv, JobOK, Doubtful
<1>5. ExclusiveInv'
  <2> SUFFICES ASSUME NEW k \in Keys \ Doubtful
               PROVE  /\ log[k].status # "failed"
                      /\ \A u, v \in Workers : Holding(u, k)' /\ Holding(v, k)' => u = v
    BY DEF ExclusiveInv, Doubtful
  <2>1. \A v \in Workers : Holding(v, k)' => Holding(v, k)
    BY <1>2 DEF Holding
  <2> QED BY <2>1 DEF IInv, ExclusiveInv
<1>6. LogInv' BY DEF IInv, LogInv
<1>7. OneBodyPerKey' /\ LogIsTrue' /\ OnceUnlessFailed'
  BY DEF IInv, OneBodyPerKey, LogIsTrue, OnceUnlessFailed
<1> QED BY <1>3, <1>4, <1>5, <1>6, <1>7 DEF IInv

\* The same when the tables do not change at all.
LEMMA StillKeeps ==
  ASSUME IInv, NEW w \in Workers, NEW j \in Jobs, Set(w, j), JobOK(j),
         UNCHANGED <<store, delivered, flunked, unsure, tried>>,
         j.pc \in Sending => Holding(w, j.key) \/ j.key \in Doubtful,
         answered' \subseteq Keys \X Bodies
  PROVE  IInv'
<1>1. RowInv' BY DEF IInv, RowInv, store
<1> QED BY <1>1, QuietKeeps DEF IInv, TypeOK, store

\* What returning from sendMail, or throwing out of it, does to a worker.
LEMMA ReturnsTo ==
  ASSUME IInv, NEW w \in Workers, job[w].pc \in OnAKey, Returns(w)
  PROVE  /\ answered' \subseteq Keys \X Bodies
         /\ \E j \in Jobs : /\ Set(w, j) /\ j.pc \in {"idle", "markRow"}
                            /\ j.pc \in OnAKey => j.key = job[w].key /\ j.body = job[w].body
<1>1. job[w] \in Jobs /\ job[w].key \in Keys /\ job[w].body \in Bodies BY JobsOK DEF JobOK
<1>2. CASE w \in Clients
  <2>1. Set(w, Idle) /\ answered' = answered \cup {<<job[w].key, job[w].body>>}
    BY <1>2 DEF Returns
  <2>2. answered' \subseteq Keys \X Bodies BY <1>1, <2>1 DEF IInv, TypeOK
  <2>3. Idle.pc \notin OnAKey BY IdleType DEF OnAKey, Sending
  <2> QED BY <2>1, <2>2, <2>3, IdleType
<1>3. CASE w \notin Clients
  <2> DEFINE j == [job[w] EXCEPT !.pc = "markRow"]
  <2>1. j \in Jobs /\ j.pc = "markRow" /\ j.key = job[w].key /\ j.body = job[w].body
    BY <1>1, GotoType DEF OnAKey
  <2>2. Set(w, j) /\ answered' = answered BY <1>3 DEF Returns, Goto
  <2> QED BY <2>1, <2>2 DEF IInv, TypeOK
<1> QED BY <1>2, <1>3

LEMMA ThrowsTo ==
  ASSUME IInv, NEW w \in Workers, job[w].pc \in OnAKey, Throws(w)
  PROVE  /\ answered' = answered
         /\ \E j \in Jobs : /\ Set(w, j) /\ j.pc \in {"idle", "rowFailed"}
                            /\ j.pc \in OnAKey => j.key = job[w].key /\ j.body = job[w].body
<1>1. job[w] \in Jobs /\ job[w].key \in Keys /\ job[w].body \in Bodies BY JobsOK DEF JobOK
<1>2. CASE w \in Clients
  BY <1>1, <1>2, IdleType DEF Throws, OnAKey, Sending
<1>3. CASE w \notin Clients
  <2> DEFINE j == [job[w] EXCEPT !.pc = "rowFailed"]
  <2>1. j \in Jobs /\ j.pc = "rowFailed" /\ j.key = job[w].key /\ j.body = job[w].body
    BY <1>1, GotoType DEF OnAKey
  <2>2. Set(w, j) /\ answered' = answered BY <1>3 DEF Throws, Goto
  <2> QED BY <2>1, <2>2
<1> QED BY <1>2, <1>3

LEMMA ReturnsKeeps ==
  ASSUME IInv, NEW w \in Workers, job[w].pc \in OnAKey, Returns(w),
         UNCHANGED <<store, delivered, flunked, unsure, tried>>
  PROVE  IInv'
<1>1. PICK j \in Jobs : /\ Set(w, j) /\ j.pc \in {"idle", "markRow"}
                        /\ j.pc \in OnAKey => j.key = job[w].key /\ j.body = job[w].body
  BY ReturnsTo
<1>2. JobOK(j) BY <1>1, JobsOK DEF JobOK, OnAKey, Sending
<1> QED BY <1>1, <1>2, ReturnsTo, StillKeeps DEF Sending

LEMMA ThrowsKeeps ==
  ASSUME IInv, NEW w \in Workers, job[w].pc \in OnAKey, Throws(w),
         UNCHANGED <<store, delivered, flunked, unsure, tried>>
  PROVE  IInv'
<1>1. PICK j \in Jobs : /\ Set(w, j) /\ j.pc \in {"idle", "rowFailed"}
                        /\ j.pc \in OnAKey => j.key = job[w].key /\ j.body = job[w].body
  BY ThrowsTo
<1>2. JobOK(j) BY <1>1, JobsOK DEF JobOK, OnAKey, Sending
<1>3. answered' \subseteq Keys \X Bodies BY ThrowsTo DEF IInv, TypeOK
<1> QED BY <1>1, <1>2, <1>3, StillKeeps DEF Sending

\* Going on with the same send.
LEMMA GoesOn ==
  ASSUME IInv, NEW w \in Workers, NEW pc \in OnAKey, job[w].pc \in OnAKey, Goto(w, pc),
         JobOK([job[w] EXCEPT !.pc = pc]),
         UNCHANGED <<store, delivered, flunked, unsure, answered>>,
         tried' \in [Schedules -> 0..MaxAttempts],
         pc \in Sending => job[w].pc \in Sending \/ job[w].key \in Doubtful
  PROVE  IInv'
<1> DEFINE j == [job[w] EXCEPT !.pc = pc]
<1>1. j \in Jobs /\ j.pc = pc /\ j.key = job[w].key BY JobsOK, GotoType
<1>2. Set(w, j) BY DEF Goto
<1>3. j.pc \in Sending => Holding(w, j.key) \/ j.key \in Doubtful BY <1>1 DEF Holding
<1>4. RowInv' BY DEF IInv, RowInv, store
<1> HIDE DEF j
<1> QED BY <1>1, <1>2, <1>3, <1>4, QuietKeeps DEF IInv, TypeOK, store, j

-----------------------------------------------------------------------------
(* The steps of sendMail.                                                    *)

LEMMA RequestKeeps ==
  ASSUME IInv, NEW w \in Workers, NEW k \in ClientKeys, NEW b \in Bodies, Request(w, k, b)
  PROVE  IInv'
<1> DEFINE j == [Idle EXCEPT !.pc = "find", !.key = k, !.body = b]
<1>1. 0 \in 0..MaxAttempts /\ 0 \in 0..(SendTries - 1) BY BoundsAssumption
<1>2. j \in Jobs /\ j.pc = "find" /\ j.key = k /\ j.body = b
  BY <1>1 DEF Idle, Jobs, OnAKey, Keys
<1>3. JobOK(j) BY <1>2 DEF JobOK, Keys, Sending
<1>4. Set(w, j) /\ UNCHANGED <<store, history>> BY DEF Request
<1>5. answered' \subseteq Keys \X Bodies BY <1>4 DEF IInv, TypeOK, history
<1> HIDE DEF j
<1> QED BY <1>2, <1>3, <1>4, <1>5, StillKeeps DEF history, Sending

LEMMA FindKeeps ==
  ASSUME IInv, NEW w \in Workers, Find(w)
  PROVE  IInv'
<1> DEFINE k == job[w].key
<1>1. /\ job[w] \in Jobs /\ job[w].pc = "find" /\ job[w].pc \in OnAKey
      /\ k \in Keys /\ job[w].body \in Bodies
  BY JobsOK DEF Find, At, OnAKey, JobOK
<1>2. UNCHANGED <<store, delivered, flunked, unsure, tried>> BY DEF Find
<1>3. tried' \in [Schedules -> 0..MaxAttempts] BY <1>2 DEF IInv, TypeOK
<1>4. CASE Goto(w, "claim") /\ UNCHANGED answered
  <2>1. "claim" \in OnAKey /\ "claim" \notin Sending BY DEF OnAKey, Sending
  <2>2. JobOK([job[w] EXCEPT !.pc = "claim"]) BY <1>1, <2>1, GotoType DEF JobOK
  <2> QED BY <1>1, <1>2, <1>3, <1>4, <2>1, <2>2, GoesOn
<1>5. CASE log[k].status = "failed" /\ log[k].body = job[w].body /\ Goto(w, "send") /\ UNCHANGED answered
  <2>1. "send" \in OnAKey BY DEF OnAKey, Sending
  <2>2. k \in Doubtful BY <1>1, <1>5 DEF IInv, ExclusiveInv
  <2>3. JobOK([job[w] EXCEPT !.pc = "send"]) BY <1>1, <1>5, <2>1, <2>2, GotoType DEF JobOK
  <2> QED BY <1>1, <1>2, <1>3, <1>5, <2>1, <2>2, <2>3, GoesOn
<1>6. CASE Returns(w) BY <1>1, <1>2, <1>6, ReturnsKeeps
<1>7. CASE Throws(w) BY <1>1, <1>2, <1>7, ThrowsKeeps
<1> QED BY <1>4, <1>5, <1>6, <1>7 DEF Find

LEMMA ClaimKeeps ==
  ASSUME IInv, NEW w \in Workers, Claim(w)
  PROVE  IInv'
<1> DEFINE k == job[w].key
           j == [job[w] EXCEPT !.pc = "send"]
<1>1. /\ job[w] \in Jobs /\ job[w].pc = "claim" /\ job[w].pc \in OnAKey
      /\ k \in Keys /\ job[w].body \in Bodies
  BY JobsOK DEF Claim, At, OnAKey, JobOK
<1>2. CASE Returns(w) /\ UNCHANGED log
  BY <1>1, <1>2, ReturnsKeeps DEF Claim, store
<1>3. CASE /\ log[k].status = "none" /\ Goto(w, "send") /\ UNCHANGED answered
           /\ log' = [log EXCEPT ![k] = [status |-> "pending", body |-> job[w].body]]
  <2>1. /\ job \in [Workers -> Jobs]
        /\ log \in [Keys -> [status : {"none", "pending", "sent", "failed"}, body : Bodies \cup {None}]]
    BY DEF IInv, TypeOK
  <2>2. j \in Jobs /\ j.pc = "send" /\ j.key = k /\ j.body = job[w].body
    BY <1>1, GotoType DEF OnAKey, Sending
  <2> HIDE DEF j
  <2>3. /\ job' \in [Workers -> Jobs] /\ job'[w] = j
        /\ \A v \in Workers \ {w} : job'[v] = job[v]
    BY <1>3, <2>1, <2>2 DEF Goto, Set, j
  <2>4. UNCHANGED <<rows, delivered, flunked, unsure, tried, answered>> BY <1>3 DEF Claim
  <2>5. /\ log' \in [Keys -> [status : {"none", "pending", "sent", "failed"}, body : Bodies \cup {None}]]
        /\ log'[k].status = "pending" /\ log'[k].body = job[w].body
        /\ \A i \in Keys \ {k} : log'[i] = log[i]
    BY <1>1, <1>3, <2>1
  <2>6. \A v \in Workers : ~Holding(v, k)
    BY <1>3 DEF IInv, JobInv, JobOK, Holding
  <2>7. \A b \in Bodies : delivered[k][b] = 0
    <3> SUFFICES ASSUME NEW b \in Bodies PROVE delivered[k][b] = 0 OBVIOUS
    <3>1. delivered[k][b] \in 0..2 BY <1>1 DEF IInv, TypeOK
    <3>2. log[k].body # b BY <1>1, <1>3, NamesAssumption DEF IInv, LogInv
    <3> QED BY <1>1, <3>1, <3>2 DEF IInv, OneBodyPerKey
  <2>8. TypeOK' BY <2>3, <2>4, <2>5 DEF IInv, TypeOK
  <2>9. JobInv'
    <3> SUFFICES ASSUME NEW v \in Workers PROVE JobOK(job[v])' BY DEF JobInv
    <3>1. CASE v = w BY <1>1, <2>2, <2>3, <2>4, <2>5, <2>7, <3>1 DEF JobOK
    <3>2. CASE v # w
      <4>1. job'[v] = job[v] /\ JobOK(job[v]) BY <2>3, <3>2 DEF IInv, JobInv
      <4>2. job[v].pc \in Sending => job[v].key # k BY <2>6 DEF Holding
      <4>3. job[v].pc \in Sending => log'[job[v].key] = log[job[v].key]
        BY <2>5, <4>1, <4>2 DEF JobOK, OnAKey
      <4> QED BY <2>4, <4>1, <4>3 DEF JobOK, Doubtful
    <3> QED BY <3>1, <3>2
  <2>10. ExclusiveInv'
    <3> SUFFICES ASSUME NEW i \in Keys \ Doubtful
                 PROVE  /\ log'[i].status # "failed"
                        /\ \A u, v \in Workers : Holding(u, i)' /\ Holding(v, i)' => u = v
      BY <2>4 DEF ExclusiveInv, Doubtful
    <3>1. CASE i = k
      BY <2>3, <2>5, <2>6, <3>1 DEF Holding
    <3>2. CASE i # k
      <4>1. \A v \in Workers : Holding(v, i)' => Holding(v, i)
        BY <2>2, <2>3, <3>2 DEF Holding
      <4> QED BY <2>5, <3>2, <4>1 DEF IInv, ExclusiveInv
    <3> QED BY <3>1, <3>2
  <2>11. LogInv' BY <1>1, <2>5 DEF IInv, LogInv
  <2>12. RowInv' BY <2>4 DEF IInv, RowInv
  <2>13. OneBodyPerKey' BY <2>4, <2>5, <2>7 DEF IInv, OneBodyPerKey
  <2>14. LogIsTrue' BY <2>4, <2>5 DEF IInv, LogIsTrue
  <2>15. OnceUnlessFailed' BY <2>4 DEF IInv, OnceUnlessFailed
  <2> QED BY <2>8, <2>9, <2>10, <2>11, <2>12, <2>13, <2>14, <2>15 DEF IInv
<1> QED BY <1>2, <1>3 DEF Claim

LEMMA ReachesType ==
  ASSUME IInv, NEW w \in Workers, Reaches(w)
  PROVE  tried' \in [Schedules -> 0..MaxAttempts]
<1>1. /\ tried \in [Schedules -> 0..MaxAttempts] /\ MaxAttempts \in Nat
  BY BoundsAssumption DEF IInv, TypeOK
<1>2. \A k \in Schedules : tried[k] < MaxAttempts => tried[k] + 1 \in 0..MaxAttempts BY <1>1
<1> QED BY <1>1, <1>2 DEF Reaches

\* The provider accepts: either its answer arrives, or the key becomes doubtful.
LEMMA AcceptsKeeps ==
  ASSUME IInv, NEW w \in Workers, At(w, "send"), Reaches(w), Accepts(w),
         NEW j \in Jobs, Set(w, j), j.pc \in Sending, j.key = job[w].key, j.body = job[w].body,
         UNCHANGED <<store, flunked, answered>>,
         \/ unsure' = unsure /\ j.pc = "markSent"
         \/ unsure' = unsure \cup {job[w].key}
  PROVE  IInv'
<1> DEFINE k == job[w].key
           b == job[w].body
           Once == IF delivered[k][b] < 2 THEN delivered[k][b] + 1 ELSE 2
<1>1. /\ job[w] \in Jobs /\ JobOK(job[w]) /\ job[w].pc = "send" /\ k \in Keys /\ b \in Bodies
      /\ log[k].status # "none" /\ log[k].body = b /\ job[w].pc \in Sending
  BY JobsOK DEF At, OnAKey, Sending, JobOK
<1>2. /\ job \in [Workers -> Jobs] /\ delivered \in [Keys -> [Bodies -> 0..2]] /\ unsure \subseteq Keys
  BY DEF IInv, TypeOK
<1>3. /\ job' \in [Workers -> Jobs] /\ job'[w] = j
      /\ \A v \in Workers \ {w} : job'[v] = job[v]
  BY <1>2 DEF Set
<1>4. delivered[k][b] \in 0..2 BY <1>1, <1>2
<1>5. Once \in 0..2 /\ Once > 0 /\ Once >= delivered[k][b] BY <1>4
<1>6. delivered' = [delivered EXCEPT ![k] = [delivered[k] EXCEPT ![b] = Once]]
  BY <1>1, <1>2 DEF Accepts
<1> HIDE DEF Once
<1>7. /\ delivered' \in [Keys -> [Bodies -> 0..2]] /\ delivered'[k][b] = Once
      /\ \A i \in Keys : \A c \in Bodies : i # k \/ c # b => delivered'[i][c] = delivered[i][c]
  BY <1>1, <1>2, <1>5, <1>6
<1>8. /\ unsure' \subseteq Keys /\ Doubtful \subseteq Doubtful'
      /\ \A i \in Keys \ {k} : i \in Doubtful' => i \in Doubtful
      /\ k \notin Doubtful' => j.pc = "markSent"
  BY <1>1, <1>2 DEF Doubtful
<1>9. UNCHANGED <<log, rows, flunked, answered>> BY DEF store
<1>10. TypeOK' BY <1>3, <1>7, <1>8, <1>9, ReachesType DEF IInv, TypeOK
<1>11. JobInv'
  <2> SUFFICES ASSUME NEW v \in Workers PROVE JobOK(job[v])' BY DEF JobInv
  <2>1. CASE v = w
    <3>1. delivered'[j.key][j.body] > 0 BY <1>1, <1>5, <1>7
    <3>2. ~(j.pc = "send" /\ j.key \notin Doubtful') BY <1>1, <1>8
    <3> QED BY <1>1, <1>3, <1>9, <2>1, <3>1, <3>2 DEF JobOK
  <2>2. CASE v # w
    <3>1. job'[v] = job[v] /\ JobOK(job[v]) BY <1>3, <2>2 DEF IInv, JobInv
    <3>2. job[v].pc = "markSent" => delivered'[job[v].key][job[v].body] > 0
      BY <1>1, <1>5, <1>7, <3>1 DEF JobOK, OnAKey, Sending
    <3>3. job[v].pc = "send" /\ job[v].key \notin Doubtful' => delivered'[job[v].key][job[v].body] = 0
      <4> SUFFICES ASSUME job[v].pc = "send", job[v].key \notin Doubtful'
                   PROVE  delivered'[job[v].key][job[v].body] = 0
        OBVIOUS
      <4>1. job[v].key \in Keys \ Doubtful /\ job[v].body \in Bodies
        BY <1>8, <3>1 DEF JobOK, OnAKey, Sending
      <4>2. Holding(v, job[v].key) BY DEF Holding, Sending
      <4>3. job[v].key # k
        BY <1>1, <2>2, <4>1, <4>2 DEF IInv, ExclusiveInv, Holding
      <4> QED BY <1>7, <3>1, <4>1, <4>3 DEF JobOK
    <3> QED BY <1>9, <3>1, <3>2, <3>3 DEF JobOK
  <2> QED BY <2>1, <2>2
<1>12. ExclusiveInv'
  <2> SUFFICES ASSUME NEW i \in Keys \ Doubtful'
               PROVE  /\ log'[i].status # "failed"
                      /\ \A u, v \in Workers : Holding(u, i)' /\ Holding(v, i)' => u = v
    BY DEF ExclusiveInv
  <2>1. i \in Keys \ Doubtful BY <1>8
  <2>2. \A v \in Workers : Holding(v, i)' => Holding(v, i)
    BY <1>1, <1>3 DEF Holding
  <2> QED BY <1>9, <2>1, <2>2 DEF IInv, ExclusiveInv
<1>13. LogInv' /\ RowInv' BY <1>9 DEF IInv, LogInv, RowInv
<1>14. OneBodyPerKey' BY <1>1, <1>7, <1>9 DEF IInv, OneBodyPerKey
<1>15. LogIsTrue' BY <1>1, <1>5, <1>7, <1>9 DEF IInv, LogIsTrue
<1>16. OnceUnlessFailed'
  <2> SUFFICES ASSUME NEW i \in Keys, i \notin Doubtful', NEW c \in Bodies
               PROVE  delivered'[i][c] <= 1
    BY DEF OnceUnlessFailed, Doubtful
  <2>1. i \notin Doubtful /\ delivered[i][c] <= 1
    BY <1>8 DEF IInv, OnceUnlessFailed, Doubtful
  <2>2. CASE i = k /\ c = b
    <3>1. delivered[k][b] = 0 BY <1>1, <2>1, <2>2 DEF JobOK
    <3> QED BY <1>7, <2>2, <3>1 DEF Once
  <2>3. CASE i # k \/ c # b BY <1>7, <2>1, <2>3
  <2> QED BY <2>2, <2>3
<1> QED BY <1>10, <1>11, <1>12, <1>13, <1>14, <1>15, <1>16 DEF IInv

LEMMA AcceptedKeeps ==
  ASSUME IInv, NEW w \in Workers, Accepted(w)
  PROVE  IInv'
<1> DEFINE j == [job[w] EXCEPT !.pc = "markSent"]
<1>1. j \in Jobs /\ j.pc = "markSent" /\ j.key = job[w].key /\ j.body = job[w].body
  BY JobsOK, GotoType DEF OnAKey, Sending
<1>2. Set(w, j) BY DEF Accepted, Goto
<1> HIDE DEF j
<1> QED BY <1>1, <1>2, AcceptsKeeps DEF Accepted, Sending

LEMMA RefusedKeeps ==
  ASSUME IInv, NEW w \in Workers, Refused(w)
  PROVE  IInv'
<1>1. job[w] \in Jobs /\ JobOK(job[w]) /\ job[w].pc \in Sending /\ "markFailed" \in OnAKey
  BY JobsOK DEF Refused, At, Sending, OnAKey
<1>2. JobOK([job[w] EXCEPT !.pc = "markFailed"])
  BY <1>1, GotoType DEF JobOK, OnAKey
<1> QED BY <1>1, <1>2, ReachesType, GoesOn DEF Refused, OnAKey

LEMMA UnansweredKeeps ==
  ASSUME IInv, NEW w \in Workers, Unanswered(w)
  PROVE  IInv'
<1> DEFINE j == IF job[w].tries + 1 < SendTries THEN [job[w] EXCEPT !.tries = @ + 1]
                ELSE [job[w] EXCEPT !.pc = "markFailed"]
<1>1. /\ job[w] \in Jobs /\ JobOK(job[w]) /\ job[w].pc = "send" /\ job[w].pc \in Sending
      /\ job[w].pc \in OnAKey
  BY JobsOK DEF Unanswered, At, Sending, OnAKey
<1>2. /\ j \in Jobs /\ j.pc \in {"send", "markFailed"}
      /\ j.key = job[w].key /\ j.body = job[w].body
  <2>1. job[w].tries \in 0..(SendTries - 1) /\ SendTries \in Nat
    BY <1>1, BoundsAssumption DEF Jobs
  <2>2. CASE job[w].tries + 1 < SendTries
    <3>1. job[w].tries + 1 \in 0..(SendTries - 1) BY <2>1, <2>2
    <3> QED BY <1>1, <2>2, <3>1 DEF Jobs
  <2>3. CASE ~(job[w].tries + 1 < SendTries)
    BY <1>1, <2>3, GotoType DEF OnAKey, Sending
  <2> QED BY <2>2, <2>3
<1>3. Set(w, j) BY DEF Unanswered
<1> HIDE DEF j
<1>4. Reaches(w) /\ UNCHANGED <<store, flunked, answered>> BY DEF Unanswered
<1>5. CASE Accepts(w) /\ unsure' = unsure \cup {job[w].key}
  BY <1>2, <1>3, <1>4, <1>5, AcceptsKeeps DEF Unanswered, Sending
<1>6. CASE UNCHANGED <<delivered, unsure>>
  <2>1. JobOK(j) BY <1>1, <1>2 DEF JobOK, OnAKey, Sending
  <2>2. Holding(w, j.key) BY <1>1, <1>2 DEF Holding
  <2>3. RowInv' BY <1>4 DEF IInv, RowInv, store
  <2>4. UNCHANGED <<log, rows>> BY <1>4 DEF store
  <2>5. /\ rows' \in [Schedules -> [status : {"none", "scheduled"} \cup Final,
                      body : Bodies \cup {None}, attempts : 0..MaxAttempts, due : BOOLEAN]]
        /\ answered' \subseteq Keys \X Bodies
    BY <1>4, <2>4 DEF IInv, TypeOK
  <2> QED BY <1>2, <1>3, <1>4, <1>6, <2>1, <2>2, <2>3, <2>4, <2>5, ReachesType, QuietKeeps
<1> QED BY <1>5, <1>6 DEF Unanswered

\* The outcome of the send is written to the log and the worker leaves sendMail.
LEMMA EndsKeeps ==
  ASSUME IInv, NEW w \in Workers, job[w].pc \in Sending,
         NEW st \in {"sent", "failed"}, NEW j \in Jobs, Set(w, j),
         log' = [log EXCEPT ![job[w].key].status = st],
         j.pc \in {"idle", "markRow", "rowFailed"},
         j.pc \in OnAKey => j.key = job[w].key /\ j.body = job[w].body,
         \/ st = "sent" /\ job[w].pc = "markSent" /\ flunked' = flunked
         \/ st = "failed" /\ flunked' = flunked \cup {job[w].key},
         UNCHANGED <<rows, delivered, unsure, tried>>, answered' \subseteq Keys \X Bodies
  PROVE  IInv'
<1> DEFINE k == job[w].key
<1>1. /\ job[w] \in Jobs /\ JobOK(job[w]) /\ k \in Keys /\ job[w].body \in Bodies
      /\ log[k].status # "none" /\ log[k].body = job[w].body
  BY JobsOK DEF JobOK, OnAKey
<1>2. /\ job \in [Workers -> Jobs] /\ flunked \subseteq Keys
      /\ log \in [Keys -> [status : {"none", "pending", "sent", "failed"}, body : Bodies \cup {None}]]
  BY DEF IInv, TypeOK
<1>3. /\ job' \in [Workers -> Jobs] /\ job'[w] = j
      /\ \A v \in Workers \ {w} : job'[v] = job[v]
  BY <1>2 DEF Set
<1>4. /\ log' \in [Keys -> [status : {"none", "pending", "sent", "failed"}, body : Bodies \cup {None}]]
      /\ log'[k].status = st /\ log'[k].body = log[k].body
      /\ \A i \in Keys \ {k} : log'[i] = log[i]
  BY <1>1, <1>2
<1>5. /\ flunked' \subseteq Keys /\ Doubtful \subseteq Doubtful'
      /\ k \notin Doubtful' => st = "sent"
  BY <1>1, <1>2 DEF Doubtful
<1>6. TypeOK' BY <1>3, <1>4, <1>5 DEF IInv, TypeOK
<1>7. j.pc \notin Sending /\ ("idle" \notin OnAKey) BY DEF Sending, OnAKey
<1>8. JobInv'
  <2> SUFFICES ASSUME NEW v \in Workers PROVE JobOK(job[v])' BY DEF JobInv
  <2>1. CASE v = w BY <1>1, <1>3, <1>7, <2>1 DEF JobOK, Sending
  <2>2. CASE v # w
    <3>1. job'[v] = job[v] /\ JobOK(job[v]) BY <1>3, <2>2 DEF IInv, JobInv
    <3>2. job[v].pc \in Sending => log'[job[v].key].status # "none"
                                   /\ log'[job[v].key].body = job[v].body
      BY <1>1, <1>4, <3>1 DEF JobOK, OnAKey
    <3> QED BY <1>5, <3>1, <3>2 DEF JobOK
  <2> QED BY <2>1, <2>2
<1>9. ExclusiveInv'
  <2> SUFFICES ASSUME NEW i \in Keys \ Doubtful'
               PROVE  /\ log'[i].status # "failed"
                      /\ \A u, v \in Workers : Holding(u, i)' /\ Holding(v, i)' => u = v
    BY DEF ExclusiveInv
  <2>1. i \in Keys \ Doubtful BY <1>5
  <2>2. \A v \in Workers : Holding(v, i)' => Holding(v, i)
    BY <1>3, <1>7 DEF Holding
  <2>3. log'[i].status # "failed" BY <1>4, <1>5, <2>1 DEF IInv, ExclusiveInv
  <2> QED BY <2>1, <2>2, <2>3 DEF IInv, ExclusiveInv
<1>10. LogInv' BY <1>1, <1>4 DEF IInv, LogInv
<1>11. RowInv' BY DEF IInv, RowInv
<1>12. OneBodyPerKey' BY <1>1, <1>4 DEF IInv, OneBodyPerKey
<1>13. LogIsTrue'
  <2>1. st = "sent" => delivered[k][job[w].body] > 0 BY <1>1 DEF JobOK
  <2> QED BY <1>1, <1>4, <2>1 DEF IInv, LogIsTrue
<1>14. OnceUnlessFailed' BY <1>5 DEF IInv, OnceUnlessFailed, Doubtful
<1> QED BY <1>6, <1>8, <1>9, <1>10, <1>11, <1>12, <1>13, <1>14 DEF IInv

LEMMA MarkSentKeeps ==
  ASSUME IInv, NEW w \in Workers, MarkSent(w)
  PROVE  IInv'
<1>1. job[w].pc = "markSent" /\ job[w].pc \in Sending /\ job[w].pc \in OnAKey
  BY DEF MarkSent, At, Sending, OnAKey
<1>2. PICK j \in Jobs : /\ Set(w, j) /\ j.pc \in {"idle", "markRow"}
                        /\ j.pc \in OnAKey => j.key = job[w].key /\ j.body = job[w].body
  BY <1>1, ReturnsTo DEF MarkSent
<1>3. answered' \subseteq Keys \X Bodies BY <1>1, ReturnsTo DEF MarkSent
<1> QED BY <1>1, <1>2, <1>3, EndsKeeps DEF MarkSent

LEMMA MarkFailedKeeps ==
  ASSUME IInv, NEW w \in Workers, MarkFailed(w)
  PROVE  IInv'
<1>1. job[w].pc = "markFailed" /\ job[w].pc \in Sending /\ job[w].pc \in OnAKey
  BY DEF MarkFailed, At, Sending, OnAKey
<1>2. PICK j \in Jobs : /\ Set(w, j) /\ j.pc \in {"idle", "rowFailed"}
                        /\ j.pc \in OnAKey => j.key = job[w].key /\ j.body = job[w].body
  BY <1>1, ThrowsTo DEF MarkFailed
<1>3. answered' \subseteq Keys \X Bodies
  BY <1>1, ThrowsTo DEF MarkFailed, IInv, TypeOK
<1> QED BY <1>1, <1>2, <1>3, EndsKeeps DEF MarkFailed

LEMMA MarkSentFailsKeeps ==
  ASSUME IInv, NEW w \in Workers, MarkSentFails(w)
  PROVE  IInv'
<1>1. job[w] \in Jobs /\ JobOK(job[w]) /\ job[w].pc \in Sending /\ "markFailed" \in OnAKey
      /\ job[w].pc \in OnAKey
  BY JobsOK DEF MarkSentFails, At, Sending, OnAKey
<1>2. JobOK([job[w] EXCEPT !.pc = "markFailed"])
  BY <1>1, GotoType DEF JobOK
<1>3. tried' \in [Schedules -> 0..MaxAttempts] BY DEF MarkSentFails, history, IInv, TypeOK
<1> QED BY <1>1, <1>2, <1>3, GoesOn DEF MarkSentFails, history

LEMMA DbFailsKeeps ==
  ASSUME IInv, NEW w \in Workers, DbFails(w)
  PROVE  IInv'
<1>1. job[w].pc \in OnAKey BY DEF DbFails, OnAKey, Sending
<1> QED BY <1>1, ThrowsKeeps DEF DbFails

LEMMA IdleKeeps ==
  ASSUME IInv, NEW w \in Workers, Set(w, Idle), UNCHANGED <<store, history>>
  PROVE  IInv'
<1>1. answered' \subseteq Keys \X Bodies BY DEF history, IInv, TypeOK
<1>2. Idle.pc \notin Sending BY IdleType DEF Sending
<1> QED BY <1>1, <1>2, IdleType, IdleOK, StillKeeps DEF history

-----------------------------------------------------------------------------
(* The steps of the drain.                                                   *)

LEMMA CronsOnRows ==
  ASSUME IInv, NEW w \in Workers, job[w].pc \in {"markRow", "rowFailed"}
  PROVE  job[w] \in Jobs /\ job[w].key \in Keys /\ job[w].pc \in OnAKey
BY JobsOK DEF JobOK, OnAKey

LEMMA TodoKeeps ==
  ASSUME IInv, NEW w \in Workers, NEW j \in Jobs, Set(w, j), j.pc \notin Sending, JobOK(j),
         UNCHANGED <<store, history>>
  PROVE  IInv'
<1>1. answered' \subseteq Keys \X Bodies BY DEF history, IInv, TypeOK
<1> QED BY <1>1, StillKeeps DEF history

LEMMA TickKeeps ==
  ASSUME IInv, NEW w \in Workers, Tick(w)
  PROVE  IInv'
<1> DEFINE Todo(S) == {[id |-> s, body |-> rows[s].body, attempts |-> rows[s].attempts] : s \in S}
           j(S) == [Idle EXCEPT !.pc = "row", !.todo = Todo(S)]
<1>1. PICK S \in SUBSET DueRows : Set(w, j(S)) BY DEF Tick
<1>2. Todo(S) \in SUBSET Snapshots
  <2> SUFFICES ASSUME NEW s \in S
               PROVE  [id |-> s, body |-> rows[s].body, attempts |-> rows[s].attempts] \in Snapshots
    OBVIOUS
  <2>1. s \in Schedules /\ rows[s].status = "scheduled" BY <1>1 DEF DueRows
  <2>2. rows[s].attempts \in 0..MaxAttempts /\ MaxAttempts \in Nat
    BY <2>1, BoundsAssumption DEF IInv, TypeOK
  <2>3. rows[s].attempts \in 0..(MaxAttempts - 1) /\ rows[s].body \in Bodies
    BY <2>1, <2>2 DEF IInv, RowInv
  <2> QED BY <2>1, <2>3 DEF Snapshots
<1>3. 0 \in 0..MaxAttempts /\ 0 \in 0..(SendTries - 1) BY BoundsAssumption
<1> HIDE DEF Todo
<1>4. j(S) \in Jobs /\ j(S).pc = "row" BY <1>2, <1>3 DEF Idle, Jobs
<1>5. "row" \notin OnAKey /\ "row" \notin Sending /\ "row" \notin {"markSent", "send"}
  BY DEF OnAKey, Sending
<1>6. JobOK(j(S)) BY <1>4, <1>5 DEF JobOK
<1> HIDE DEF j
<1> QED BY <1>1, <1>4, <1>5, <1>6, TodoKeeps DEF Tick

LEMMA TakeRowKeeps ==
  ASSUME IInv, NEW w \in Workers, TakeRow(w)
  PROVE  IInv'
<1> DEFINE j(x) == [pc |-> "find", key |-> x.id, body |-> x.body, attempts |-> x.attempts + 1,
                    tries |-> 0, todo |-> job[w].todo \ {x}]
<1>1. PICK x \in job[w].todo : Set(w, j(x)) BY DEF TakeRow
<1>2. job[w].todo \subseteq Snapshots BY JobsOK DEF Jobs
<1>3. /\ x.id \in Schedules /\ x.body \in Bodies /\ x.attempts \in 0..(MaxAttempts - 1)
      /\ MaxAttempts \in Nat \ {0} /\ SendTries \in Nat \ {0}
  BY <1>1, <1>2, BoundsAssumption DEF Snapshots
<1>4. x.attempts + 1 \in 0..MaxAttempts /\ 0 \in 0..(SendTries - 1) BY <1>3
<1>5. j(x) \in Jobs /\ j(x).pc = "find" /\ j(x).key \in Keys /\ j(x).body \in Bodies
  BY <1>2, <1>3, <1>4 DEF Jobs, OnAKey, Keys
<1> HIDE DEF j
<1>6. JobOK(j(x)) /\ j(x).pc \notin Sending BY <1>5 DEF JobOK, Sending
<1> QED BY <1>1, <1>5, <1>6, TodoKeeps DEF TakeRow

LEMMA RowFails ==
  ASSUME IInv, NEW w \in Workers, job[w].pc \in OnAKey, Goto(w, "rowFailed"),
         UNCHANGED <<store, history>>
  PROVE  IInv'
<1>1. job[w] \in Jobs /\ JobOK(job[w]) /\ "rowFailed" \in OnAKey /\ "rowFailed" \notin Sending
  BY JobsOK DEF OnAKey, Sending
<1>2. JobOK([job[w] EXCEPT !.pc = "rowFailed"]) BY <1>1, GotoType DEF JobOK, Sending
<1>3. tried' \in [Schedules -> 0..MaxAttempts] BY DEF history, IInv, TypeOK
<1> QED BY <1>1, <1>2, <1>3, GoesOn DEF history

LEMMA RowWritten ==
  ASSUME IInv, NEW w \in Workers, job[w].pc \in {"markRow", "rowFailed"}, NextRow(w),
         UNCHANGED <<log, history>>, RowInv',
         rows' \in [Schedules -> [status : {"none", "scheduled"} \cup Final,
                      body : Bodies \cup {None}, attempts : 0..MaxAttempts, due : BOOLEAN]]
  PROVE  IInv'
<1> DEFINE j == IF job[w].todo = {} THEN Idle ELSE [Idle EXCEPT !.pc = "row", !.todo = job[w].todo]
<1>1. Set(w, j) BY DEF NextRow
<1>2. job[w].todo \in SUBSET Snapshots BY JobsOK DEF Jobs
<1>3. 0 \in 0..MaxAttempts /\ 0 \in 0..(SendTries - 1) BY BoundsAssumption
<1>4. [Idle EXCEPT !.pc = "row", !.todo = job[w].todo] \in Jobs BY <1>2, <1>3 DEF Idle, Jobs
<1>5. j \in Jobs /\ j.pc \in {"idle", "row"}
  BY <1>4, IdleType DEF Idle
<1> HIDE DEF j
<1>6. JobOK(j) /\ j.pc \notin Sending BY <1>5 DEF JobOK, OnAKey, Sending
<1>7. tried' \in [Schedules -> 0..MaxAttempts] /\ answered' \subseteq Keys \X Bodies
  BY DEF history, IInv, TypeOK
<1> QED BY <1>1, <1>5, <1>6, <1>7, QuietKeeps DEF history

LEMMA MarkRowKeeps ==
  ASSUME IInv, NEW w \in Workers, MarkRow(w)
  PROVE  IInv'
<1>1. job[w].pc = "markRow" /\ job[w].attempts \in 0..MaxAttempts
  BY JobsOK DEF MarkRow, At, Jobs
<1>2. /\ rows' \in [Schedules -> [status : {"none", "scheduled"} \cup Final,
                      body : Bodies \cup {None}, attempts : 0..MaxAttempts, due : BOOLEAN]]
      /\ RowInv'
  BY <1>1 DEF MarkRow, IInv, TypeOK, RowInv, Final
<1> QED BY <1>1, <1>2, RowWritten DEF MarkRow

LEMMA RowFailedKeeps ==
  ASSUME IInv, NEW w \in Workers, RowFailed(w)
  PROVE  IInv'
<1> DEFINE n == job[w].attempts
<1>1. job[w].pc = "rowFailed" /\ n \in 0..MaxAttempts /\ MaxAttempts \in Nat
  BY JobsOK, BoundsAssumption DEF RowFailed, At, Jobs
<1>2. rows' \in [Schedules -> [status : {"none", "scheduled"} \cup Final,
                      body : Bodies \cup {None}, attempts : 0..MaxAttempts, due : BOOLEAN]]
  <2> DEFINE R == [status : {"none", "scheduled"} \cup Final,
                   body : Bodies \cup {None}, attempts : 0..MaxAttempts, due : BOOLEAN]
  <2>1. \A r \in R : Attempted(r, n) \in R BY <1>1 DEF Attempted, Final
  <2>2. rows \in [Schedules -> R] BY DEF IInv, TypeOK
  <2> HIDE DEF R
  <2>3. rows' \in [Schedules -> R] BY <2>1, <2>2 DEF RowFailed
  <2> QED BY <2>3 DEF R
<1>3. RowInv' BY <1>1 DEF RowFailed, Attempted, IInv, TypeOK, RowInv
<1> QED BY <1>1, <1>2, <1>3, RowWritten DEF RowFailed

-----------------------------------------------------------------------------
(* The owner's steps, and every step.                                        *)

LEMMA OwnerKeeps ==
  ASSUME IInv, NEW s \in Schedules, Owner(s)
  PROVE  IInv'
<1> DEFINE R == [status : {"none", "scheduled"} \cup Final,
                 body : Bodies \cup {None}, attempts : 0..MaxAttempts, due : BOOLEAN]
<1>1. UNCHANGED <<log, history, job>>
  BY DEF Owner, Schedule, FallsDue, Edit, Reschedule, Cancel
<1>2. rows \in [Schedules -> R] /\ MaxAttempts \in Nat \ {0}
  BY BoundsAssumption DEF IInv, TypeOK
<1>3. rows' \in [Schedules -> R]
  <2>1. ASSUME NEW b \in Bodies, Schedule(s, b) PROVE rows' \in [Schedules -> R]
    BY <1>2, <2>1 DEF Schedule
  <2>2. ASSUME NEW b \in Bodies, Edit(s, b) PROVE rows' \in [Schedules -> R]
    BY <1>2, <2>2 DEF Edit
  <2>3. CASE FallsDue(s) BY <1>2, <2>3 DEF FallsDue
  <2>4. CASE Reschedule(s) BY <1>2, <2>4 DEF Reschedule
  <2>5. CASE Cancel(s) BY <1>2, <2>5 DEF Cancel, Final
  <2> QED BY <2>1, <2>2, <2>3, <2>4, <2>5 DEF Owner
<1>4. RowInv'
  BY <1>2 DEF IInv, RowInv, Owner, Schedule, FallsDue, Edit, Reschedule, Cancel
<1>5. TypeOK' BY <1>1, <1>3 DEF IInv, TypeOK, history
<1>6. JobInv' /\ ExclusiveInv' /\ LogInv'
  BY <1>1 DEF IInv, history, JobInv, JobOK, Doubtful, ExclusiveInv, Holding, LogInv
<1>7. OneBodyPerKey' /\ LogIsTrue' /\ OnceUnlessFailed'
  BY <1>1 DEF IInv, history, OneBodyPerKey, LogIsTrue, OnceUnlessFailed
<1> QED BY <1>4, <1>5, <1>6, <1>7 DEF IInv

LEMMA WorkerKeeps ==
  ASSUME IInv, NEW w \in Workers, Step(w)
  PROVE  IInv'
<1>1. ASSUME NEW k \in ClientKeys, NEW b \in Bodies, Request(w, k, b) PROVE IInv'
  BY <1>1, RequestKeeps
<1>2. CASE Find(w) BY <1>2, FindKeeps
<1>3. CASE Claim(w) BY <1>3, ClaimKeeps
<1>4. CASE Accepted(w) BY <1>4, AcceptedKeeps
<1>5. CASE Refused(w) BY <1>5, RefusedKeeps
<1>6. CASE Unanswered(w) BY <1>6, UnansweredKeeps
<1>7. CASE MarkSent(w) BY <1>7, MarkSentKeeps
<1>8. CASE MarkFailed(w) BY <1>8, MarkFailedKeeps
<1>9. CASE Tick(w) BY <1>9, TickKeeps
<1>10. CASE TakeRow(w) BY <1>10, TakeRowKeeps
<1>11. CASE LoadFails(w)
  BY <1>11, RowFails DEF LoadFails, At, OnAKey
<1>12. CASE MarkRow(w) BY <1>12, MarkRowKeeps
<1>13. CASE RowFailed(w) BY <1>13, RowFailedKeeps
<1>14. CASE MarkSentFails(w) BY <1>14, MarkSentFailsKeeps
<1>15. CASE DbFails(w) BY <1>15, DbFailsKeeps
<1>16. CASE MarkRowFails(w)
  BY <1>16, RowFails DEF MarkRowFails, At, OnAKey
<1>17. CASE RowFailedFails(w) \/ Crash(w)
  BY <1>17, IdleKeeps DEF RowFailedFails, Crash
<1> QED BY <1>1, <1>2, <1>3, <1>4, <1>5, <1>6, <1>7, <1>8, <1>9, <1>10, <1>11, <1>12, <1>13,
           <1>14, <1>15, <1>16, <1>17 DEF Step, Smooth

LEMMA InitHolds == Init => IInv
<1> SUFFICES ASSUME Init PROVE IInv OBVIOUS
<1>1. MaxAttempts \in Nat \ {0} BY BoundsAssumption
<1>2. job \in [Workers -> Jobs] /\ \A w \in Workers : job[w] = Idle
  BY IdleType DEF Init
<1>3. TypeOK
  <2>1. /\ log \in [Keys -> [status : {"none", "pending", "sent", "failed"}, body : Bodies \cup {None}]]
        /\ rows \in [Schedules -> [status : {"none", "scheduled"} \cup Final, body : Bodies \cup {None},
                             attempts : 0..MaxAttempts, due : BOOLEAN]]
        /\ delivered \in [Keys -> [Bodies -> 0..2]]
    BY <1>1 DEF Init
  <2>2. flunked \subseteq Keys /\ unsure \subseteq Keys /\ answered \subseteq Keys \X Bodies
        /\ tried \in [Schedules -> 0..MaxAttempts]
    BY <1>1 DEF Init
  <2> QED BY <1>2, <2>1, <2>2 DEF TypeOK
<1>4. JobInv BY <1>2, IdleOK DEF JobInv
<1>5. ExclusiveInv
  <2>1. \A w \in Workers, k \in Keys : ~Holding(w, k) BY <1>2, IdleType DEF Holding, Sending
  <2> QED BY <2>1 DEF ExclusiveInv, Init
<1>6. LogInv /\ RowInv BY DEF Init, LogInv, RowInv
<1>7. OneBodyPerKey /\ LogIsTrue /\ OnceUnlessFailed
  BY DEF Init, OneBodyPerKey, LogIsTrue, OnceUnlessFailed
<1> QED BY <1>3, <1>4, <1>5, <1>6, <1>7 DEF IInv

LEMMA StutterKeeps == IInv /\ UNCHANGED vars => IInv'
<1> SUFFICES ASSUME IInv, UNCHANGED vars PROVE IInv' OBVIOUS
<1>1. UNCHANGED <<log, rows, delivered, flunked, unsure, tried, answered, job>> BY DEF vars
<1>2. TypeOK' BY <1>1 DEF IInv, TypeOK
<1>3. JobInv' /\ ExclusiveInv' /\ LogInv' /\ RowInv'
  BY <1>1 DEF IInv, JobInv, JobOK, Doubtful, ExclusiveInv, Holding, LogInv, RowInv
<1>4. OneBodyPerKey' /\ LogIsTrue' /\ OnceUnlessFailed'
  BY <1>1 DEF IInv, OneBodyPerKey, LogIsTrue, OnceUnlessFailed
<1> QED BY <1>2, <1>3, <1>4 DEF IInv

LEMMA StepKeeps == IInv /\ [Next]_vars => IInv'
BY WorkerKeeps, OwnerKeeps, StutterKeeps DEF Next

-----------------------------------------------------------------------------
(* Theorems.                                                                 *)

\* The inductive invariant holds in every state sendMail and the drain reach.
THEOREM SendInvariant == Spec => []IInv
BY InitHolds, StepKeeps, PTL DEF Spec

\* The send log, the scheduled rows and what each request and drain is doing keep
\* their types; in particular a row never counts more attempts than it is allowed.
THEOREM MailTypeCorrect == Spec => []TypeOK
<1>1. IInv => TypeOK BY DEF IInv
<1> QED BY <1>1, SendInvariant, PTL

\* The idempotent send log of sendMail: no key is delivered twice unless a send of
\* it was recorded as failed or the provider's answer to one was lost.
THEOREM DeliveredOnceUnlessFailed == Spec => []OnceUnlessFailed
<1>1. IInv => OnceUnlessFailed BY DEF IInv
<1> QED BY <1>1, SendInvariant, PTL

\* The hash check of sendMail: whatever is delivered under a key is the body that
\* claimed it, also when its owner edits a scheduled send while it is sent.
THEOREM KeyCarriesOneBody == Spec => []OneBodyPerKey
<1>1. IInv => OneBodyPerKey BY DEF IInv
<1> QED BY <1>1, SendInvariant, PTL

\* A row of the send log says "sent" only of a mail the provider accepted.
THEOREM SendLogIsTrue == Spec => []LogIsTrue
<1>1. IInv => LogIsTrue BY DEF IInv
<1> QED BY <1>1, SendInvariant, PTL

LEMMA StepsEndForGood ==
  ASSUME IInv, [Next]_vars, NEW s \in Schedules, rows[s].status \in Final
  PROVE  rows'[s].status = rows[s].status
<1>1. rows \in [Schedules -> [status : {"none", "scheduled"} \cup Final, body : Bodies \cup {None},
                             attempts : 0..MaxAttempts, due : BOOLEAN]]
  BY DEF IInv, TypeOK
<1>2. rows[s].status \notin {"none", "scheduled"} BY DEF Final
<1>3. ASSUME NEW w \in Workers, Step(w) PROVE rows'[s].status = rows[s].status
  <2>1. CASE MarkRow(w) \/ RowFailed(w)
    BY <1>1, <1>2, <2>1 DEF MarkRow, RowFailed
  <2>2. CASE UNCHANGED rows BY <2>2
  <2>3. ASSUME NEW k \in ClientKeys, NEW b \in Bodies, Request(w, k, b) PROVE UNCHANGED rows
    BY <2>3 DEF Request, store
  <2>4. Find(w) \/ Claim(w) \/ Accepted(w) \/ Refused(w) \/ Unanswered(w) \/ MarkSent(w)
        \/ MarkFailed(w) \/ Tick(w) \/ TakeRow(w) \/ LoadFails(w) => UNCHANGED rows
    BY DEF Find, Claim, Accepted, Refused, Unanswered, MarkSent, MarkFailed, Tick, TakeRow,
           LoadFails, store
  <2>5. MarkSentFails(w) \/ DbFails(w) \/ MarkRowFails(w) \/ RowFailedFails(w) \/ Crash(w)
        => UNCHANGED rows
    BY DEF MarkSentFails, DbFails, MarkRowFails, RowFailedFails, Crash, store
  <2> QED BY <1>3, <2>1, <2>2, <2>3, <2>4, <2>5 DEF Step, Smooth
<1>4. ASSUME NEW i \in Schedules, Owner(i) PROVE rows'[s].status = rows[s].status
  BY <1>1, <1>2, <1>4 DEF Owner, Schedule, FallsDue, Edit, Reschedule, Cancel
<1>5. CASE UNCHANGED vars BY <1>5 DEF vars
<1> QED BY <1>3, <1>4, <1>5 DEF Next

\* The status guards of the drain's and the owner's statements: a scheduled send
\* that was sent, canceled or given up is never written back by a drain that read
\* it before.
THEOREM SchedulesEndForGood == Spec => EndedForGood
<1>1. IInv /\ [Next]_vars =>
        [\A s \in Schedules : rows[s].status \in Final => rows'[s].status = rows[s].status]_vars
  BY StepsEndForGood
<1> QED BY <1>1, SendInvariant, PTL DEF Spec, EndedForGood
=============================================================================
