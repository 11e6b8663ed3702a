------------------------- MODULE TicketOrdersProofs -------------------------
(***************************************************************************)
(* Proofs about TicketOrders, for every set of orders, requests and types, *)
(* every capacity and every bound on the clock.                            *)
(***************************************************************************)
EXTENDS TicketOrders, FiniteSetTheorems, TLAPS

-----------------------------------------------------------------------------
(* The inductive invariant.                                                *)

\* How far a checkout got bounds what its row and its session can be.
CheckoutInv ==
  \A o \in Orders :
    /\ checkout[o] \in {"none", "checked"} => status[o] = "absent"
    /\ checkout[o] \in {"none", "checked", "creating", "issuing"} => session[o] = "none"
    /\ checkout[o] = "storing" => session[o] \in {"open", "expired"}
    /\ checkout[o] \in {"storing", "redirected"} => status[o] # "absent"
    /\ session[o] # "none" => status[o] # "absent"
    /\ session[o] \notin {"none", "open", "expired"} => checkout[o] = "redirected"
    /\ checkout[o] = "redirected" => linked[o]
    /\ linked[o] => session[o] # "none"
    /\ coupon[o] /\ status[o] # "absent" => status[o] = "paid"
    /\ coupon[o] => session[o] = "none" /\ checkout[o] \notin {"creating", "storing", "redirected"}
    /\ checkout[o] \in {"creating", "aborting"} => status[o] # "absent"

\* What Stripe says of the money.
MoneyInv ==
  \A o \in Orders :
    /\ charge[o] # "none" <=> session[o] = "paid"
    /\ dispute[o] # "none" => charge[o] # "none"
    /\ dispute[o] = "lost" => charge[o] = "returned"

Happened(e) ==
  /\ e[1] \in {"completed_paid", "async_succeeded"} => session[e[2]] = "paid"
  /\ e[1] = "expired" => session[e[2]] = "expired"
  /\ e[1] = "async_failed" => session[e[2]] = "failed"
  /\ e[1] \in {"refunded", "dispute_lost"} => charge[e[2]] = "returned"
  /\ session[e[2]] # "none"

\* Every event says something true of the session or the charge.
EventInv == \A e \in events : Happened(e)

\* What a job has learned stays true: a session never leaves "paid", "failed"
\* or "expired".
JobSound(q) ==
  /\ q.pc \in {"fetch", "decide", "review", "pay", "release", "issue", "approve"}
       => q.order \in Orders /\ status[q.order] # "absent"
  /\ q.event # "none" => q.order \in Orders /\ Happened(<<q.event, q.order>>)
  /\ q.pc \in {"fetch", "decide", "review", "pay", "release"} => session[q.order] # "none"
  /\ q.pc \in {"decide", "review", "pay", "release"} =>
       /\ q.paid => session[q.order] = "paid"
       /\ q.gone => session[q.order] \in {"failed", "expired"}
  /\ q.pc \in {"review", "pay"} => q.paid
  /\ q.pc = "pay" => exact[q.order]
  /\ q.pc = "release" => q.gone
  /\ q.pc = "pay" /\ ~q.late => InHold(q.order) \/ q.order \in lapsed

JobInv ==
  /\ \A o \in todo : session[o] # "none"
  /\ \A j \in Jobs : JobSound(job[j])

\* An order is given up only when nobody can pay for it any more.
ExpiredInv ==
  \A o \in Orders : status[o] = "expired" =>
    \/ session[o] \in {"failed", "expired"}
    \/ /\ session[o] \in {"none", "open"}
       /\ checkout[o] = "over" \/ now >= created[o] + Ttl

\* What a settled order rests on, and what a refund leaves.
SettledInv ==
  \A o \in Orders :
    /\ status[o] \in {"paid", "needs_review"} /\ ~coupon[o] /\ o \notin waved
         => exact[o] /\ charge[o] # "none"
    /\ status[o] = "refunded" => charge[o] = "returned" /\ tickets[o] # "valid"
    /\ intent[o] => session[o] = "paid" /\ status[o] \in {"paid", "needs_review", "refunded"}
    /\ tickets[o] = "void" => status[o] = "refunded"

IInv == TypeOK /\ CheckoutInv /\ MoneyInv /\ EventInv /\ JobInv /\ ExpiredInv /\ SettledInv

-----------------------------------------------------------------------------
(* Every step preserves the inductive invariant. The first step of an action *)
(* that moves a job says that its next value is a job; the parts of the       *)
(* invariant that mention only variables the action leaves alone share a leaf.*)

LEMMA IdleIsJob == Idle \in Job /\ \A j \in Jobs : Finished(j) \in Job
  BY DEF Idle, Job, JobPc, Status, Finished

LEMMA JobField ==
  ASSUME NEW q \in Job, NEW pc \in JobPc, NEW p \in BOOLEAN, NEW g \in BOOLEAN
  PROVE  /\ [q EXCEPT !.pc = pc, !.paid = p, !.gone = g] \in Job
         /\ [q EXCEPT !.pc = pc, !.late = p] \in Job
  BY DEF Job

LEMMA JobKept ==
  ASSUME TypeOK, NEW j \in Jobs, NEW r \in Job, Become(j, r)
  PROVE  job' \in [Jobs -> Job]
  BY DEF TypeOK, Become

\* A step of job j keeps JobInv if what jobs have learned stays true and what j
\* does next rests on what it has learned.
LEMMA JobMoves ==
  ASSUME IInv, NEW j \in Jobs, NEW q \in Job, Become(j, q), UNCHANGED <<todo, session>>,
         \A x \in Job : JobSound(x) => JobSound(x)', JobSound(q)'
  PROVE  JobInv'
<1>1. \A i \in Jobs : job'[i] \in Job /\ (job'[i] = q \/ job'[i] = job[i])
  BY DEF Become, IInv, TypeOK
<1>2. \A i \in Jobs : JobSound(job[i])
  BY DEF IInv, JobInv
<1>3. ASSUME NEW i \in Jobs PROVE JobSound(job[i])'
  <2>1. PICK x \in Job : x = job'[i] /\ (x = q \/ x = job[i])
    BY <1>1
  <2>2. JobSound(x)'
    BY <1>2, <2>1
  <2>. QED BY <2>1, <2>2
<1>. QED BY <1>3 DEF IInv, JobInv, Jobs

LEMMA CheckoutKeeps ==
  ASSUME IInv, NEW o \in Orders, CheckoutStep(o)
  PROVE  IInv'
<1>1. ASSUME NEW c \in Carts, NEW free \in BOOLEAN, Begin(o, c, free) PROVE IInv'
  <2>1. TypeOK'
    BY <1>1, SeatsAssumption DEF Begin, rest, history, stripe, IInv, TypeOK, Status, CheckoutPc,
      SessionEvents, ChargeEvents
  <2>2. CheckoutInv'
    BY <1>1, SeatsAssumption DEF Begin, rest, history, stripe, IInv, TypeOK, CheckoutInv
  <2>3. JobInv'
    BY <1>1, SeatsAssumption, TimeAssumption DEF Begin, rest, history, stripe, IInv, TypeOK,
      JobInv, JobSound, Happened, EventInv, CheckoutInv, MoneyInv, Jobs, InHold
  <2>4. ExpiredInv'
    BY <1>1, SeatsAssumption, TimeAssumption DEF Begin, rest, history, stripe, IInv, TypeOK,
      ExpiredInv, CheckoutInv, JobInv, JobSound, InHold
  <2>5. SettledInv'
    BY <1>1, SeatsAssumption DEF Begin, rest, history, stripe, IInv, TypeOK, SettledInv,
      CheckoutInv, MoneyInv, JobInv, JobSound, EventInv, Happened
  <2>6. MoneyInv' /\ EventInv'
    BY <1>1 DEF Begin, rest, history, stripe, IInv, MoneyInv, EventInv, Happened
  <2>. QED BY <2>1, <2>2, <2>3, <2>4, <2>5, <2>6 DEF IInv
<1>2. ASSUME Insert(o) PROVE IInv'
  <2>1. TypeOK'
    BY <1>2 DEF Insert, rest, history, row, stripe, IInv, TypeOK, Status, CheckoutPc,
      SessionEvents, ChargeEvents
  <2>2. CheckoutInv'
    BY <1>2 DEF Insert, rest, history, row, stripe, IInv, TypeOK, CheckoutInv
  <2>3. JobInv'
    BY <1>2, TimeAssumption DEF Insert, rest, history, row, stripe, IInv, TypeOK, JobInv, JobSound,
      Happened, EventInv, CheckoutInv, MoneyInv, Jobs, InHold
  <2>4. ExpiredInv'
    BY <1>2, TimeAssumption DEF Insert, rest, history, row, stripe, IInv, TypeOK, ExpiredInv,
      CheckoutInv, JobInv, JobSound, InHold
  <2>5. SettledInv'
    BY <1>2 DEF Insert, rest, history, row, stripe, IInv, TypeOK, SettledInv, CheckoutInv,
      MoneyInv, JobInv, JobSound, EventInv, Happened
  <2>6. MoneyInv' /\ EventInv'
    BY <1>2 DEF Insert, rest, history, row, stripe, IInv, MoneyInv, EventInv, Happened
  <2>. QED BY <2>1, <2>2, <2>3, <2>4, <2>5, <2>6 DEF IInv
<1>3. ASSUME IssueFree(o) PROVE IInv'
  <2>1. TypeOK'
    BY <1>3 DEF IssueFree, issueFulfilment, rest, history, row, stripe, IInv, TypeOK, Status,
      CheckoutPc, SessionEvents, ChargeEvents
  <2>2. CheckoutInv'
    BY <1>3 DEF IssueFree, issueFulfilment, rest, history, row, stripe, IInv, TypeOK, CheckoutInv
  <2>3. ExpiredInv'
    BY <1>3, TimeAssumption DEF IssueFree, issueFulfilment, rest, history, row, stripe, IInv,
      TypeOK, ExpiredInv, CheckoutInv, JobInv, JobSound, InHold
  <2>4. SettledInv'
    BY <1>3 DEF IssueFree, issueFulfilment, rest, history, row, stripe, IInv, TypeOK, SettledInv,
      CheckoutInv, MoneyInv, JobInv, JobSound, EventInv, Happened
  <2>5. MoneyInv' /\ EventInv' /\ JobInv'
    BY <1>3 DEF IssueFree, issueFulfilment, rest, history, row, stripe, IInv, MoneyInv, EventInv,
      JobInv, JobSound, Happened, InHold, Jobs
  <2>. QED BY <2>1, <2>2, <2>3, <2>4, <2>5 DEF IInv
<1>4. ASSUME NEW answered \in BOOLEAN, CreateSession(o, answered) PROVE IInv'
  <2>1. TypeOK'
    BY <1>4 DEF CreateSession, rest, history, row, IInv, TypeOK, Status, CheckoutPc,
      SessionEvents, ChargeEvents
  <2>2. CheckoutInv'
    BY <1>4 DEF CreateSession, rest, history, row, IInv, TypeOK, CheckoutInv
  <2>3. MoneyInv'
    BY <1>4 DEF CreateSession, rest, history, row, IInv, TypeOK, MoneyInv, CheckoutInv
  <2>4. EventInv'
    BY <1>4 DEF CreateSession, rest, history, row, IInv, TypeOK, EventInv, Happened, MoneyInv,
      CheckoutInv
  <2>5. JobInv'
    BY <1>4, TimeAssumption DEF CreateSession, rest, history, row, IInv, TypeOK, JobInv, JobSound,
      Happened, EventInv, CheckoutInv, MoneyInv, Jobs, InHold
  <2>6. ExpiredInv'
    BY <1>4, TimeAssumption DEF CreateSession, rest, history, row, IInv, TypeOK, ExpiredInv,
      CheckoutInv, JobInv, JobSound, InHold
  <2>7. SettledInv'
    BY <1>4 DEF CreateSession, rest, history, row, IInv, TypeOK, SettledInv, CheckoutInv,
      MoneyInv, JobInv, JobSound, EventInv, Happened
  <2>. QED BY <2>1, <2>2, <2>3, <2>4, <2>5, <2>6, <2>7 DEF IInv
<1>5. ASSUME CreateFails(o) PROVE IInv'
  <2>1. TypeOK'
    BY <1>5 DEF CreateFails, rest, history, row, stripe, IInv, TypeOK, Status, CheckoutPc,
      SessionEvents, ChargeEvents
  <2>2. CheckoutInv'
    BY <1>5 DEF CreateFails, rest, history, row, stripe, IInv, TypeOK, CheckoutInv
  <2>3. ExpiredInv'
    BY <1>5, TimeAssumption DEF CreateFails, rest, history, row, stripe, IInv, TypeOK,
      ExpiredInv, CheckoutInv, JobInv, JobSound, InHold
  <2>4. MoneyInv' /\ EventInv' /\ JobInv' /\ SettledInv'
    BY <1>5 DEF CreateFails, rest, history, row, stripe, IInv, MoneyInv, EventInv, JobInv, JobSound,
      SettledInv, Happened, InHold, Jobs
  <2>. QED BY <2>1, <2>2, <2>3, <2>4 DEF IInv
<1>6. ASSUME Abort(o) PROVE IInv'
  <2>1. TypeOK'
    BY <1>6 DEF Abort, markOrderExpired, rest, history, row, stripe, IInv, TypeOK, Status,
      CheckoutPc, SessionEvents, ChargeEvents
  <2>2. CheckoutInv'
    BY <1>6 DEF Abort, markOrderExpired, rest, history, row, stripe, IInv, TypeOK, CheckoutInv
  <2>3. JobInv'
    BY <1>6, TimeAssumption DEF Abort, markOrderExpired, rest, history, row, stripe, IInv,
      TypeOK, JobInv, JobSound, Happened, EventInv, CheckoutInv, MoneyInv, Jobs, InHold
  <2>4. ExpiredInv'
    BY <1>6, TimeAssumption DEF Abort, markOrderExpired, rest, history, row, stripe, IInv,
      TypeOK, ExpiredInv, CheckoutInv, JobInv, JobSound, InHold
  <2>5. SettledInv'
    BY <1>6 DEF Abort, markOrderExpired, rest, history, row, stripe, IInv, TypeOK, SettledInv,
      CheckoutInv, MoneyInv, JobInv, JobSound, EventInv, Happened
  <2>6. MoneyInv' /\ EventInv'
    BY <1>6 DEF Abort, markOrderExpired, rest, history, row, stripe, IInv, MoneyInv, EventInv,
      Happened
  <2>. QED BY <2>1, <2>2, <2>3, <2>4, <2>5, <2>6 DEF IInv
<1>7. ASSUME StoreSession(o) PROVE IInv'
  <2>1. TypeOK'
    BY <1>7 DEF StoreSession, rest, history, row, stripe, IInv, TypeOK, Status, CheckoutPc,
      SessionEvents, ChargeEvents
  <2>2. CheckoutInv'
    BY <1>7 DEF StoreSession, rest, history, row, stripe, IInv, TypeOK, CheckoutInv
  <2>3. ExpiredInv'
    BY <1>7, TimeAssumption DEF StoreSession, rest, history, row, stripe, IInv, TypeOK,
      ExpiredInv, CheckoutInv, JobInv, JobSound, InHold
  <2>4. MoneyInv' /\ EventInv' /\ JobInv' /\ SettledInv'
    BY <1>7 DEF StoreSession, rest, history, row, stripe, IInv, MoneyInv, EventInv, JobInv, JobSound,
      SettledInv, Happened, InHold, Jobs
  <2>. QED BY <2>1, <2>2, <2>3, <2>4 DEF IInv
<1>8. ASSUME CheckoutCrash(o) PROVE IInv'
  <2>1. TypeOK'
    BY <1>8 DEF CheckoutCrash, rest, history, row, stripe, IInv, TypeOK, Status, CheckoutPc,
      SessionEvents, ChargeEvents
  <2>2. CheckoutInv'
    BY <1>8 DEF CheckoutCrash, rest, history, row, stripe, IInv, TypeOK, CheckoutInv
  <2>3. ExpiredInv'
    BY <1>8, TimeAssumption DEF CheckoutCrash, rest, history, row, stripe, IInv, TypeOK,
      ExpiredInv, CheckoutInv, JobInv, JobSound, InHold
  <2>4. MoneyInv' /\ EventInv' /\ JobInv' /\ SettledInv'
    BY <1>8 DEF CheckoutCrash, rest, history, row, stripe, IInv, MoneyInv, EventInv, JobInv, JobSound,
      SettledInv, Happened, InHold, Jobs
  <2>. QED BY <2>1, <2>2, <2>3, <2>4 DEF IInv
<1>. QED BY <1>1, <1>2, <1>3, <1>4, <1>5, <1>6, <1>7, <1>8 DEF CheckoutStep, Answers

LEMMA StripeKeeps ==
  ASSUME IInv, NEW o \in Orders, StripeStep(o)
  PROVE  IInv'
<1>1. ASSUME NEW right \in BOOLEAN, Pay(o, right) PROVE IInv'
  <2>1. TypeOK'
    BY <1>1 DEF Pay, Emit, db, row, history, IInv, TypeOK, Status, CheckoutPc, SessionEvents,
      ChargeEvents
  <2>2. CheckoutInv'
    BY <1>1 DEF Pay, Emit, db, row, history, IInv, TypeOK, CheckoutInv
  <2>3. MoneyInv'
    BY <1>1 DEF Pay, Emit, db, row, history, IInv, TypeOK, MoneyInv, CheckoutInv
  <2>4. EventInv'
    BY <1>1 DEF Pay, Emit, db, row, history, IInv, TypeOK, EventInv, Happened, MoneyInv,
      CheckoutInv
  <2>5. JobInv'
    BY <1>1, TimeAssumption DEF Pay, Emit, db, row, history, IInv, TypeOK, JobInv, JobSound, Happened,
      EventInv, CheckoutInv, MoneyInv, Jobs, InHold
  <2>6. ExpiredInv'
    BY <1>1, TimeAssumption DEF Pay, Emit, db, row, history, IInv, TypeOK, ExpiredInv,
      CheckoutInv, JobInv, JobSound, InHold
  <2>7. SettledInv'
    BY <1>1 DEF Pay, Emit, db, row, history, IInv, TypeOK, SettledInv, CheckoutInv, MoneyInv,
      JobInv, JobSound, EventInv, Happened
  <2>. QED BY <2>1, <2>2, <2>3, <2>4, <2>5, <2>6, <2>7 DEF IInv
<1>2. ASSUME NEW right \in BOOLEAN, AsyncSucceeds(o, right) PROVE IInv'
  <2>1. TypeOK'
    BY <1>2 DEF AsyncSucceeds, Emit, db, row, history, IInv, TypeOK, Status, CheckoutPc,
      SessionEvents, ChargeEvents
  <2>2. CheckoutInv'
    BY <1>2 DEF AsyncSucceeds, Emit, db, row, history, IInv, TypeOK, CheckoutInv
  <2>3. MoneyInv'
    BY <1>2 DEF AsyncSucceeds, Emit, db, row, history, IInv, TypeOK, MoneyInv, CheckoutInv
  <2>4. EventInv'
    BY <1>2 DEF AsyncSucceeds, Emit, db, row, history, IInv, TypeOK, EventInv, Happened,
      MoneyInv, CheckoutInv
  <2>5. JobInv'
    BY <1>2, TimeAssumption DEF AsyncSucceeds, Emit, db, row, history, IInv, TypeOK, JobInv, JobSound,
      Happened, EventInv, CheckoutInv, MoneyInv, Jobs, InHold
  <2>6. ExpiredInv'
    BY <1>2, TimeAssumption DEF AsyncSucceeds, Emit, db, row, history, IInv, TypeOK, ExpiredInv,
      CheckoutInv, JobInv, JobSound, InHold
  <2>7. SettledInv'
    BY <1>2 DEF AsyncSucceeds, Emit, db, row, history, IInv, TypeOK, SettledInv, CheckoutInv,
      MoneyInv, JobInv, JobSound, EventInv, Happened
  <2>. QED BY <2>1, <2>2, <2>3, <2>4, <2>5, <2>6, <2>7 DEF IInv
<1>3. ASSUME PayLater(o) PROVE IInv'
  <2>1. TypeOK'
    BY <1>3 DEF PayLater, Emit, db, row, history, IInv, TypeOK, Status, CheckoutPc,
      SessionEvents, ChargeEvents
  <2>2. CheckoutInv'
    BY <1>3 DEF PayLater, Emit, db, row, history, IInv, TypeOK, CheckoutInv
  <2>3. MoneyInv'
    BY <1>3 DEF PayLater, Emit, db, row, history, IInv, TypeOK, MoneyInv, CheckoutInv
  <2>4. EventInv'
    BY <1>3 DEF PayLater, Emit, db, row, history, IInv, TypeOK, EventInv, Happened, MoneyInv,
      CheckoutInv
  <2>5. JobInv'
    BY <1>3, TimeAssumption DEF PayLater, Emit, db, row, history, IInv, TypeOK, JobInv, JobSound, Happened,
      EventInv, CheckoutInv, MoneyInv, Jobs, InHold
  <2>6. ExpiredInv'
    BY <1>3, TimeAssumption DEF PayLater, Emit, db, row, history, IInv, TypeOK, ExpiredInv,
      CheckoutInv, JobInv, JobSound, InHold
  <2>7. SettledInv'
    BY <1>3 DEF PayLater, Emit, db, row, history, IInv, TypeOK, SettledInv, CheckoutInv,
      MoneyInv, JobInv, JobSound, EventInv, Happened
  <2>. QED BY <2>1, <2>2, <2>3, <2>4, <2>5, <2>6, <2>7 DEF IInv
<1>4. ASSUME AsyncFails(o) PROVE IInv'
  <2>1. TypeOK'
    BY <1>4 DEF AsyncFails, Emit, db, row, history, IInv, TypeOK, Status, CheckoutPc,
      SessionEvents, ChargeEvents
  <2>2. CheckoutInv'
    BY <1>4 DEF AsyncFails, Emit, db, row, history, IInv, TypeOK, CheckoutInv
  <2>3. MoneyInv'
    BY <1>4 DEF AsyncFails, Emit, db, row, history, IInv, TypeOK, MoneyInv, CheckoutInv
  <2>4. EventInv'
    BY <1>4 DEF AsyncFails, Emit, db, row, history, IInv, TypeOK, EventInv, Happened, MoneyInv,
      CheckoutInv
  <2>5. JobInv'
    BY <1>4, TimeAssumption DEF AsyncFails, Emit, db, row, history, IInv, TypeOK, JobInv, JobSound,
      Happened, EventInv, CheckoutInv, MoneyInv, Jobs, InHold
  <2>6. ExpiredInv'
    BY <1>4, TimeAssumption DEF AsyncFails, Emit, db, row, history, IInv, TypeOK, ExpiredInv,
      CheckoutInv, JobInv, JobSound, InHold
  <2>7. SettledInv'
    BY <1>4 DEF AsyncFails, Emit, db, row, history, IInv, TypeOK, SettledInv, CheckoutInv,
      MoneyInv, JobInv, JobSound, EventInv, Happened
  <2>. QED BY <2>1, <2>2, <2>3, <2>4, <2>5, <2>6, <2>7 DEF IInv
<1>5. ASSUME SessionExpires(o) PROVE IInv'
  <2>1. TypeOK'
    BY <1>5 DEF SessionExpires, Emit, db, row, history, IInv, TypeOK, Status, CheckoutPc,
      SessionEvents, ChargeEvents
  <2>2. CheckoutInv'
    BY <1>5 DEF SessionExpires, Emit, db, row, history, IInv, TypeOK, CheckoutInv
  <2>3. MoneyInv'
    BY <1>5 DEF SessionExpires, Emit, db, row, history, IInv, TypeOK, MoneyInv, CheckoutInv
  <2>4. EventInv'
    BY <1>5 DEF SessionExpires, Emit, db, row, history, IInv, TypeOK, EventInv, Happened,
      MoneyInv, CheckoutInv
  <2>5. JobInv'
    BY <1>5, TimeAssumption DEF SessionExpires, Emit, db, row, history, IInv, TypeOK, JobInv, JobSound,
      Happened, EventInv, CheckoutInv, MoneyInv, Jobs, InHold
  <2>6. ExpiredInv'
    BY <1>5, TimeAssumption DEF SessionExpires, Emit, db, row, history, IInv, TypeOK, ExpiredInv,
      CheckoutInv, JobInv, JobSound, InHold
  <2>7. SettledInv'
    BY <1>5 DEF SessionExpires, Emit, db, row, history, IInv, TypeOK, SettledInv, CheckoutInv,
      MoneyInv, JobInv, JobSound, EventInv, Happened
  <2>. QED BY <2>1, <2>2, <2>3, <2>4, <2>5, <2>6, <2>7 DEF IInv
<1>6. ASSUME Refund(o) PROVE IInv'
  <2>1. TypeOK'
    BY <1>6 DEF Refund, Emit, db, row, history, IInv, TypeOK, Status, CheckoutPc, SessionEvents,
      ChargeEvents
  <2>2. MoneyInv'
    BY <1>6 DEF Refund, Emit, db, row, history, IInv, TypeOK, MoneyInv, CheckoutInv
  <2>3. EventInv'
    BY <1>6 DEF Refund, Emit, db, row, history, IInv, TypeOK, EventInv, Happened, MoneyInv,
      CheckoutInv
  <2>4. JobInv'
    BY <1>6, TimeAssumption DEF Refund, Emit, db, row, history, IInv, TypeOK, JobInv, JobSound, Happened,
      EventInv, CheckoutInv, MoneyInv, Jobs, InHold
  <2>5. SettledInv'
    BY <1>6 DEF Refund, Emit, db, row, history, IInv, TypeOK, SettledInv, CheckoutInv, MoneyInv,
      JobInv, JobSound, EventInv, Happened
  <2>6. CheckoutInv' /\ ExpiredInv'
    BY <1>6 DEF Refund, Emit, db, row, history, IInv, CheckoutInv, ExpiredInv
  <2>. QED BY <2>1, <2>2, <2>3, <2>4, <2>5, <2>6 DEF IInv
<1>7. ASSUME DisputeOpens(o) PROVE IInv'
  <2>1. TypeOK'
    BY <1>7 DEF DisputeOpens, Emit, db, row, history, IInv, TypeOK, Status, CheckoutPc,
      SessionEvents, ChargeEvents
  <2>2. MoneyInv'
    BY <1>7 DEF DisputeOpens, Emit, db, row, history, IInv, TypeOK, MoneyInv, CheckoutInv
  <2>3. EventInv'
    BY <1>7 DEF DisputeOpens, Emit, db, row, history, IInv, TypeOK, EventInv, Happened, MoneyInv,
      CheckoutInv
  <2>4. CheckoutInv' /\ JobInv' /\ ExpiredInv' /\ SettledInv'
    BY <1>7 DEF DisputeOpens, Emit, db, row, history, IInv, CheckoutInv, JobInv, JobSound, ExpiredInv,
      SettledInv, Happened, InHold, Jobs
  <2>. QED BY <2>1, <2>2, <2>3, <2>4 DEF IInv
<1>8. ASSUME NEW won \in BOOLEAN, DisputeCloses(o, won) PROVE IInv'
  <2>1. TypeOK'
    BY <1>8 DEF DisputeCloses, Emit, db, row, history, IInv, TypeOK, Status, CheckoutPc,
      SessionEvents, ChargeEvents
  <2>2. MoneyInv'
    BY <1>8 DEF DisputeCloses, Emit, db, row, history, IInv, TypeOK, MoneyInv, CheckoutInv
  <2>3. EventInv'
    BY <1>8 DEF DisputeCloses, Emit, db, row, history, IInv, TypeOK, EventInv, Happened,
      MoneyInv, CheckoutInv
  <2>4. JobInv'
    BY <1>8, TimeAssumption DEF DisputeCloses, Emit, db, row, history, IInv, TypeOK, JobInv, JobSound,
      Happened, EventInv, CheckoutInv, MoneyInv, Jobs, InHold
  <2>5. SettledInv'
    BY <1>8 DEF DisputeCloses, Emit, db, row, history, IInv, TypeOK, SettledInv, CheckoutInv,
      MoneyInv, JobInv, JobSound, EventInv, Happened
  <2>6. CheckoutInv' /\ ExpiredInv'
    BY <1>8 DEF DisputeCloses, Emit, db, row, history, IInv, CheckoutInv, ExpiredInv
  <2>. QED BY <2>1, <2>2, <2>3, <2>4, <2>5, <2>6 DEF IInv
<1>. QED BY <1>1, <1>2, <1>3, <1>4, <1>5, <1>6, <1>7, <1>8 DEF StripeStep, Amounts

LEMMA SettleKeeps ==
  ASSUME IInv, NEW j \in Jobs, SettleStep(j)
  PROVE  IInv'
<1>1. ASSUME Fetch(j) PROVE IInv'
  <2>1. [job[j] EXCEPT !.pc = "decide", !.paid = session[job[j].order] = "paid", !.gone
          = session[job[j].order] = "expired"] \in Job
    <3>1. job[j] \in Job /\ "decide" \in JobPc BY DEF IInv, TypeOK, JobPc
    <3>2. /\ (session[job[j].order] = "paid") \in BOOLEAN
          /\ (session[job[j].order] = "expired") \in BOOLEAN  OBVIOUS
    <3>. QED BY <3>1, <3>2, JobField
  <2>2. job' \in [Jobs -> Job]
    BY <1>1, <2>1, JobKept DEF Fetch, IInv, Jobs
  <2>3. TypeOK'
    BY <1>1, <2>2 DEF Fetch, quiet, history, row, stripe, IInv, TypeOK, Status, CheckoutPc,
      SessionEvents, ChargeEvents, JobInv, JobSound, EventInv, Happened
  <2>4. JobInv'
    BY <1>1, <2>2, TimeAssumption DEF Fetch, quiet, history, row, stripe, Become, IInv, TypeOK,
      JobInv, JobSound, Happened, EventInv, CheckoutInv, MoneyInv, Jobs, Job, Idle, Finished, InHold
  <2>5. CheckoutInv' /\ MoneyInv' /\ EventInv' /\ ExpiredInv' /\ SettledInv'
    BY <1>1 DEF Fetch, quiet, history, row, stripe, IInv, CheckoutInv, MoneyInv, EventInv,
      ExpiredInv, SettledInv, Happened
  <2>. QED BY <2>3, <2>4, <2>5 DEF IInv
<1>2. ASSUME FetchFails(j) PROVE IInv'
  <2>1. Finished(j) \in Job
    BY <1>2, IdleIsJob DEF FetchFails, IInv, TypeOK, Job, JobPc, Status, Idle,
      SessionEvents, ChargeEvents, Jobs
  <2>2. job' \in [Jobs -> Job]
    BY <1>2, <2>1, JobKept DEF FetchFails, IInv, Jobs
  <2>3. TypeOK'
    BY <1>2, <2>2 DEF FetchFails, quiet, history, row, stripe, IInv, TypeOK, Status, CheckoutPc,
      SessionEvents, ChargeEvents, JobInv, JobSound, EventInv, Happened
  <2>4. JobInv'
    BY <1>2, <2>2, TimeAssumption DEF FetchFails, quiet, history, row, stripe, Become, IInv,
      TypeOK, JobInv, JobSound, Happened, EventInv, CheckoutInv, MoneyInv, Jobs, Job, Idle,
      Finished, InHold
  <2>5. CheckoutInv' /\ MoneyInv' /\ EventInv' /\ ExpiredInv' /\ SettledInv'
    BY <1>2 DEF FetchFails, quiet, history, row, stripe, IInv, CheckoutInv, MoneyInv, EventInv,
      ExpiredInv, SettledInv, Happened
  <2>. QED BY <2>3, <2>4, <2>5 DEF IInv
<1>3. ASSUME Decide(j) PROVE IInv'
  <2>1. (IF Verdict(j) = "unchanged" THEN Finished(j) ELSE [job[j] EXCEPT !.pc =
          Verdict(j), !.late = Verdict(j) = "pay" /\ Late(j)]) \in Job
    <3>1. job[j] \in Job /\ (Verdict(j) = "unchanged" \/ Verdict(j) \in JobPc)
      BY DEF IInv, TypeOK, JobPc, Verdict
    <3>2. (Verdict(j) = "pay" /\ Late(j)) \in BOOLEAN  OBVIOUS
    <3>. QED BY <3>1, <3>2, JobField, IdleIsJob
  <2>2. job' \in [Jobs -> Job]
    BY <1>3, <2>1, JobKept DEF Decide, IInv, Jobs
  <2>3. TypeOK'
    BY <1>3, <2>2 DEF Decide, Verdict, Late, InHold, quiet, history, row, stripe, IInv, TypeOK,
      Status, CheckoutPc, SessionEvents, ChargeEvents, JobInv, JobSound, EventInv, Happened
  <2>4. JobInv'
    <3>1. PICK q \in Job : /\ Become(j, q)
                           /\ q = IF Verdict(j) = "unchanged" THEN Finished(j)
                                  ELSE [job[j] EXCEPT !.pc = Verdict(j),
                                                      !.late = Verdict(j) = "pay" /\ Late(j)]
      BY <1>3, <2>1 DEF Decide
    <3>2. \A x \in Job : JobSound(x) => JobSound(x)'
      BY <1>3 DEF Decide, quiet, history, row, stripe, JobSound, Happened, InHold
    <3>3. JobSound(q)
      <4>1. JobSound(job[j]) /\ job[j] \in Job /\ job[j].pc = "decide"
        BY <1>3 DEF Decide, IInv, TypeOK, JobInv
      <4>2. CASE Verdict(j) = "unchanged"
        BY <3>1, <4>2 DEF JobSound, Finished, Idle
      <4>3. CASE Verdict(j) # "unchanged"
        <5>1. /\ q.pc = Verdict(j) /\ q.late = (Verdict(j) = "pay" /\ Late(j))
              /\ q.order = job[j].order /\ q.paid = job[j].paid
              /\ q.gone = job[j].gone /\ q.event = job[j].event
          BY <3>1, <4>1, <4>3 DEF Job
        <5>2. Verdict(j) \in {"pay", "review", "release"}
          BY <4>3 DEF Verdict
        <5>3. /\ Verdict(j) \in {"pay", "review"} => job[j].paid
              /\ Verdict(j) = "pay" => exact[job[j].order]
              /\ Verdict(j) = "release" => job[j].gone
          BY DEF Verdict
        <5>4. ~Late(j) => InHold(job[j].order)
          BY DEF Late
        <5>. QED BY <4>1, <5>1, <5>2, <5>3, <5>4 DEF JobSound
      <4>. QED BY <4>2, <4>3
    <3>. QED BY <1>3, <3>1, <3>2, <3>3, JobMoves DEF Decide, quiet, history, stripe
  <2>5. CheckoutInv' /\ MoneyInv' /\ EventInv' /\ ExpiredInv' /\ SettledInv'
    BY <1>3 DEF Decide, Verdict, Late, InHold, quiet, history, row, stripe, IInv, CheckoutInv,
      MoneyInv, EventInv, ExpiredInv, SettledInv, Happened
  <2>. QED BY <2>3, <2>4, <2>5 DEF IInv
<1>4. ASSUME WriteReview(j) PROVE IInv'
  <2>0. /\ job[j].order \in Orders /\ session[job[j].order] = "paid"
        /\ ~coupon[job[j].order] /\ status[job[j].order] # "absent"
    BY <1>4 DEF WriteReview, IInv, JobInv, JobSound, CheckoutInv
  <2>1. Finished(j) \in Job
    BY <1>4, IdleIsJob DEF WriteReview, IInv, TypeOK, Job, JobPc, Status, Idle,
      SessionEvents, ChargeEvents, Jobs
  <2>2. job' \in [Jobs -> Job]
    BY <1>4, <2>1, JobKept DEF WriteReview, IInv, Jobs
  <2>3. TypeOK'
    BY <1>4, <2>0, <2>2 DEF WriteReview, markOrderNeedsReview, quiet, history, row, stripe, IInv,
      TypeOK, Status, CheckoutPc, SessionEvents, ChargeEvents, JobInv, JobSound, EventInv, Happened
  <2>4. CheckoutInv'
    BY <1>4, <2>0 DEF WriteReview, markOrderNeedsReview, quiet, history, row, stripe, IInv, TypeOK,
      CheckoutInv, JobInv, JobSound, SettledInv
  <2>5. JobInv'
    BY <1>4, <2>0, <2>2, TimeAssumption DEF WriteReview, markOrderNeedsReview, quiet, history, row,
      stripe, Become, IInv, TypeOK, JobInv, JobSound, Happened, EventInv, CheckoutInv, MoneyInv,
      Jobs, Job, Idle, Finished, InHold
  <2>6. ExpiredInv'
    BY <1>4, <2>0, TimeAssumption DEF WriteReview, markOrderNeedsReview, quiet, history, row, stripe,
      IInv, TypeOK, ExpiredInv, CheckoutInv, JobInv, JobSound, SettledInv, InHold
  <2>7. SettledInv'
    BY <1>4, <2>0 DEF WriteReview, markOrderNeedsReview, quiet, history, row, stripe, IInv, TypeOK,
      SettledInv, CheckoutInv, MoneyInv, JobInv, JobSound, EventInv, Happened
  <2>8. MoneyInv' /\ EventInv'
    BY <1>4, <2>0 DEF WriteReview, markOrderNeedsReview, quiet, history, row, stripe, IInv, MoneyInv,
      EventInv, Happened
  <2>. QED BY <2>3, <2>4, <2>5, <2>6, <2>7, <2>8 DEF IInv
<1>5. ASSUME WritePaid(j) PROVE IInv'
  <2>0. /\ job[j].order \in Orders /\ session[job[j].order] = "paid"
        /\ ~coupon[job[j].order] /\ status[job[j].order] # "absent"
    BY <1>5 DEF WritePaid, IInv, JobInv, JobSound, CheckoutInv
  <2>1. (IF status[job[j].order] # "paid" /\ status'[job[j].order] = "paid" THEN [job[j]
          EXCEPT !.pc = "issue", !.late = FALSE] ELSE Finished(j)) \in Job
    BY IdleIsJob, JobField DEF IInv, TypeOK, JobPc
  <2>2. job' \in [Jobs -> Job]
    BY <1>5, <2>1, JobKept DEF WritePaid, IInv, Jobs
  <2>3. TypeOK'
    BY <1>5, <2>0, <2>2 DEF WritePaid, markOrderPaid, quiet, history, row, stripe, IInv, TypeOK,
      Status, CheckoutPc, SessionEvents, ChargeEvents, JobInv, JobSound, EventInv, Happened
  <2>4. CheckoutInv'
    BY <1>5, <2>0 DEF WritePaid, markOrderPaid, quiet, history, row, stripe, IInv, TypeOK, CheckoutInv,
      JobInv, JobSound, SettledInv
  <2>5. JobInv'
    <3>1. PICK q \in Job : /\ Become(j, q)
                           /\ q = IF status[job[j].order] # "paid" /\ status'[job[j].order] = "paid"
                                  THEN [job[j] EXCEPT !.pc = "issue", !.late = FALSE]
                                  ELSE Finished(j)
      BY <1>5, <2>1 DEF WritePaid
    <3>2. \A x \in Job : JobSound(x) => JobSound(x)'
      BY <1>5, <2>0 DEF WritePaid, markOrderPaid, quiet, history, row, stripe, JobSound, Happened, InHold,
        IInv, TypeOK, Status
    <3>3. JobSound(q)
      <4>1. JobSound(job[j]) /\ job[j] \in Job /\ job[j].pc = "pay"
        BY <1>5 DEF WritePaid, IInv, TypeOK, JobInv
      <4>2. CASE q = Finished(j)
        BY <4>2 DEF JobSound, Finished, Idle
      <4>3. CASE q = [job[j] EXCEPT !.pc = "issue", !.late = FALSE]
        BY <4>1, <4>3 DEF JobSound, Job
      <4>. QED BY <3>1, <4>2, <4>3
    <3>. QED BY <1>5, <3>1, <3>2, <3>3, JobMoves DEF WritePaid, quiet, history, stripe
  <2>6. ExpiredInv'
    BY <1>5, <2>0, TimeAssumption DEF WritePaid, markOrderPaid, quiet, history, row, stripe, IInv,
      TypeOK, ExpiredInv, CheckoutInv, JobInv, JobSound, SettledInv, InHold
  <2>7. SettledInv'
    BY <1>5, <2>0 DEF WritePaid, markOrderPaid, quiet, history, row, stripe, IInv, TypeOK, SettledInv,
      CheckoutInv, MoneyInv, JobInv, JobSound, EventInv, Happened
  <2>8. MoneyInv' /\ EventInv'
    BY <1>5, <2>0 DEF WritePaid, markOrderPaid, quiet, history, row, stripe, IInv, MoneyInv, EventInv,
      Happened
  <2>. QED BY <2>3, <2>4, <2>5, <2>6, <2>7, <2>8 DEF IInv
<1>6. ASSUME WriteExpired(j) PROVE IInv'
  <2>0. /\ job[j].order \in Orders /\ session[job[j].order] \in {"failed", "expired"}
        /\ ~coupon[job[j].order] /\ status[job[j].order] # "absent"
    BY <1>6 DEF WriteExpired, IInv, JobInv, JobSound, CheckoutInv
  <2>1. Finished(j) \in Job
    BY <1>6, IdleIsJob DEF WriteExpired, IInv, TypeOK, Job, JobPc, Status, Idle,
      SessionEvents, ChargeEvents, Jobs
  <2>2. job' \in [Jobs -> Job]
    BY <1>6, <2>1, JobKept DEF WriteExpired, IInv, Jobs
  <2>3. TypeOK'
    BY <1>6, <2>0, <2>2 DEF WriteExpired, markOrderExpired, quiet, history, row, stripe, IInv, TypeOK,
      Status, CheckoutPc, SessionEvents, ChargeEvents, JobInv, JobSound, EventInv, Happened
  <2>4. CheckoutInv'
    BY <1>6, <2>0 DEF WriteExpired, markOrderExpired, quiet, history, row, stripe, IInv, TypeOK,
      CheckoutInv, JobInv, JobSound, SettledInv
  <2>5. JobInv'
    BY <1>6, <2>0, <2>2, TimeAssumption DEF WriteExpired, markOrderExpired, quiet, history, row,
      stripe, Become, IInv, TypeOK, JobInv, JobSound, Happened, EventInv, CheckoutInv, MoneyInv,
      Jobs, Job, Idle, Finished, InHold
  <2>6. ExpiredInv'
    BY <1>6, <2>0, TimeAssumption DEF WriteExpired, markOrderExpired, quiet, history, row, stripe,
      IInv, TypeOK, ExpiredInv, CheckoutInv, JobInv, JobSound, SettledInv, InHold
  <2>7. SettledInv'
    BY <1>6, <2>0 DEF WriteExpired, markOrderExpired, quiet, history, row, stripe, IInv, TypeOK,
      SettledInv, CheckoutInv, MoneyInv, JobInv, JobSound, EventInv, Happened
  <2>8. MoneyInv' /\ EventInv'
    BY <1>6, <2>0 DEF WriteExpired, markOrderExpired, quiet, history, row, stripe, IInv, MoneyInv,
      EventInv, Happened
  <2>. QED BY <2>3, <2>4, <2>5, <2>6, <2>7, <2>8 DEF IInv
<1>7. ASSUME Issue(j) PROVE IInv'
  <2>1. Finished(j) \in Job
    BY <1>7, IdleIsJob DEF Issue, IInv, TypeOK, Job, JobPc, Status, Idle, SessionEvents,
      ChargeEvents, Jobs
  <2>2. job' \in [Jobs -> Job]
    BY <1>7, <2>1, JobKept DEF Issue, IInv, Jobs
  <2>3. TypeOK'
    BY <1>7, <2>2 DEF Issue, issueFulfilment, quiet, history, row, stripe, IInv, TypeOK, Status,
      CheckoutPc, SessionEvents, ChargeEvents, JobInv, JobSound, EventInv, Happened
  <2>4. JobInv'
    BY <1>7, <2>2, TimeAssumption DEF Issue, issueFulfilment, quiet, history, row, stripe,
      Become, IInv, TypeOK, JobInv, JobSound, Happened, EventInv, CheckoutInv, MoneyInv, Jobs, Job,
      Idle, Finished, InHold
  <2>5. SettledInv'
    BY <1>7 DEF Issue, issueFulfilment, quiet, history, row, stripe, IInv, TypeOK, SettledInv,
      CheckoutInv, MoneyInv, JobInv, JobSound, EventInv, Happened
  <2>6. CheckoutInv' /\ MoneyInv' /\ EventInv' /\ ExpiredInv'
    BY <1>7 DEF Issue, issueFulfilment, quiet, history, row, stripe, IInv, CheckoutInv, MoneyInv,
      EventInv, ExpiredInv, Happened
  <2>. QED BY <2>3, <2>4, <2>5, <2>6 DEF IInv
<1>. QED BY <1>1, <1>2, <1>3, <1>4, <1>5, <1>6, <1>7 DEF SettleStep

LEMMA RequestKeeps ==
  ASSUME IInv, NEW r \in Requests, RequestStep(r)
  PROVE  IInv'
<1>1. ASSUME NEW e \in events, ReceiveSession(r, e) PROVE IInv'
  <2>1. [Idle EXCEPT !.pc = "decide", !.order = e[2], !.seen = status[e[2]], !.paid =
          e[1] \in {"completed_paid", "async_succeeded"}, !.gone = e[1] \in {"expired",
          "async_failed"}, !.event = e[1]] \in Job
    <3>1. e[2] \in Orders /\ e[1] \in SessionEvents /\ status[e[2]] \in Status
      BY <1>1 DEF ReceiveSession, IInv, TypeOK
    <3>2. /\ (e[1] \in {"completed_paid", "async_succeeded"}) \in BOOLEAN
          /\ (e[1] \in {"expired", "async_failed"}) \in BOOLEAN  OBVIOUS
    <3>. QED BY <3>1, <3>2, IdleIsJob DEF Job, JobPc, Idle
  <2>2. job' \in [Jobs -> Job]
    BY <1>1, <2>1, JobKept DEF ReceiveSession, IInv, Jobs
  <2>3. TypeOK'
    BY <1>1, <2>2 DEF ReceiveSession, Take, quiet, history, row, stripe, IInv, TypeOK, Status,
      CheckoutPc, SessionEvents, ChargeEvents, JobInv, JobSound, EventInv, Happened
  <2>4. EventInv'
    BY <1>1 DEF ReceiveSession, Take, quiet, history, row, stripe, IInv, TypeOK, EventInv,
      Happened, MoneyInv, CheckoutInv
  <2>5. JobInv'
    BY <1>1, <2>2, TimeAssumption DEF ReceiveSession, Take, quiet, history, row, stripe, Become,
      IInv, TypeOK, JobInv, JobSound, Happened, EventInv, CheckoutInv, MoneyInv, Jobs, Job, Idle,
      Finished, InHold
  <2>6. CheckoutInv' /\ MoneyInv' /\ ExpiredInv' /\ SettledInv'
    BY <1>1 DEF ReceiveSession, Take, quiet, history, row, stripe, IInv, CheckoutInv, MoneyInv,
      ExpiredInv, SettledInv
  <2>. QED BY <2>3, <2>4, <2>5, <2>6 DEF IInv
<1>2. ASSUME NEW e \in events, ReceiveCharge(r, e) PROVE IInv'
  <2>0. e[2] \in Orders /\ e[1] \in ChargeEvents
    BY <1>2 DEF ReceiveCharge, IInv, TypeOK
  <2>1. (IF e[1] = "dispute_won" /\ status[e[2]] # status'[e[2]] THEN [Idle EXCEPT !.pc =
          "issue", !.order = e[2], !.event = e[1]] ELSE Idle) \in Job
    BY <1>2, IdleIsJob DEF ReceiveCharge, IInv, TypeOK, Job, JobPc, Status, Idle,
      SessionEvents, ChargeEvents, Jobs
  <2>2. job' \in [Jobs -> Job]
    BY <1>2, <2>1, JobKept DEF ReceiveCharge, IInv, Jobs
  <2>3. TypeOK'
    <3>1. /\ status' \in [Orders -> Status]
          /\ reason' \in [Orders -> {"none", "oversold", "mismatch", "dispute"}]
          /\ intent' \in [Orders -> BOOLEAN]
          /\ tickets' \in [Orders -> {"none", "valid", "void"}]
          /\ waved' \subseteq Orders /\ lapsed' \subseteq Orders /\ slipped' \subseteq Orders
      <4>1. CASE ~intent[e[2]]
        BY <1>2, <4>1 DEF ReceiveCharge, history, IInv, TypeOK
      <4>2. CASE intent[e[2]] /\ e[1] = "dispute_created"
        <5>1. markOrderNeedsReview(e[2], "dispute") /\ UNCHANGED tickets
          BY <1>2, <4>2 DEF ReceiveCharge
        <5>2. status' \in [Orders -> Status] /\ tickets' \in [Orders -> {"none", "valid", "void"}]
          BY <2>0, <5>1 DEF markOrderNeedsReview, IInv, TypeOK, Status
        <5>3. /\ reason' \in [Orders -> {"none", "oversold", "mismatch", "dispute"}]
              /\ waved' \subseteq Orders /\ lapsed' \subseteq Orders /\ slipped' \subseteq Orders
          BY <2>0, <5>1 DEF markOrderNeedsReview, IInv, TypeOK
        <5>4. intent' \in [Orders -> BOOLEAN]
          BY <2>0, <5>1 DEF markOrderNeedsReview, IInv, TypeOK
        <5>. QED BY <5>2, <5>3, <5>4
      <4>3. CASE intent[e[2]] /\ e[1] \in {"dispute_lost", "refunded"}
        <5>1. /\ markOrderRefunded(e[2]) /\ UNCHANGED <<reason, intent>>
              /\ UNCHANGED <<waved, lapsed, slipped>>
          BY <1>2, <4>3 DEF ReceiveCharge, history
        <5>. QED BY <2>0, <5>1 DEF markOrderRefunded, IInv, TypeOK, Status
      <4>4. CASE intent[e[2]] /\ e[1] = "dispute_won"
        BY <1>2, <2>0, <4>4 DEF ReceiveCharge, approveOrder, history, IInv, TypeOK, Status
      <4>. QED BY <1>2, <4>1, <4>2, <4>3, <4>4 DEF ReceiveCharge
    <3>2. events' \subseteq events
      BY <1>2 DEF ReceiveCharge, Take
    <3>. QED BY <1>2, <2>2, <3>1, <3>2 DEF ReceiveCharge, quiet, history, row, stripe, IInv, TypeOK
  <2>4. CheckoutInv'
    BY <1>2 DEF ReceiveCharge, markOrderNeedsReview, markOrderRefunded, approveOrder,
      Take, quiet, history, row, stripe, IInv, TypeOK, CheckoutInv, JobInv, JobSound, SettledInv
  <2>5. EventInv'
    BY <1>2 DEF ReceiveCharge, markOrderNeedsReview, markOrderRefunded, approveOrder,
      Take, quiet, history, row, stripe, IInv, TypeOK, EventInv, Happened, MoneyInv, CheckoutInv
  <2>6. JobInv'
    <3>1. PICK q \in Job : /\ Become(r, q)
                           /\ q = IF e[1] = "dispute_won" /\ status[e[2]] # status'[e[2]]
                                  THEN [Idle EXCEPT !.pc = "issue", !.order = e[2], !.event = e[1]]
                                  ELSE Idle
      BY <1>2, <2>1 DEF ReceiveCharge
    <3>2. \A o \in Orders : status[o] # "absent" => status'[o] # "absent"
      BY <1>2, <2>0 DEF ReceiveCharge, markOrderNeedsReview, markOrderRefunded, approveOrder,
        IInv, TypeOK
    <3>3. UNCHANGED <<session, charge, exact, now, created, todo, lapsed>>
      BY <1>2 DEF ReceiveCharge, markOrderNeedsReview, quiet, history, row, stripe
    <3>4. \A x \in Job : JobSound(x) => JobSound(x)'
      BY <3>2, <3>3 DEF JobSound, Happened, InHold
    <3>5. JobSound(q)
      <4>1. Happened(e) /\ e = <<e[1], e[2]>> /\ status[e[2]] # "absent"
        BY <1>2, <2>0 DEF IInv, TypeOK, EventInv, Happened, CheckoutInv
      <4>2. CASE q = Idle
        BY <4>2 DEF JobSound, Idle
      <4>3. CASE q = [Idle EXCEPT !.pc = "issue", !.order = e[2], !.event = e[1]]
        BY <2>0, <4>1, <4>3 DEF JobSound, Idle, Happened
      <4>. QED BY <3>1, <4>2, <4>3
    <3>. QED BY <3>1, <3>3, <3>4, <3>5, JobMoves DEF Jobs
  <2>7. ExpiredInv'
    BY <1>2, TimeAssumption DEF ReceiveCharge, markOrderNeedsReview, markOrderRefunded,
      approveOrder, Take, quiet, history, row, stripe, IInv, TypeOK, ExpiredInv, CheckoutInv,
      JobInv, JobSound, SettledInv, InHold
  <2>8. SettledInv'
    BY <1>2 DEF ReceiveCharge, markOrderNeedsReview, markOrderRefunded, approveOrder,
      Take, quiet, history, row, stripe, IInv, TypeOK, SettledInv, CheckoutInv, MoneyInv, JobInv, JobSound,
      EventInv, Happened
  <2>9. MoneyInv'
    BY <1>2 DEF ReceiveCharge, markOrderNeedsReview, markOrderRefunded, approveOrder,
      Take, quiet, history, row, stripe, IInv, MoneyInv
  <2>. QED BY <2>3, <2>4, <2>5, <2>6, <2>7, <2>8, <2>9 DEF IInv
<1>3. ASSUME NEW o \in Orders, Confirm(r, o) PROVE IInv'
  <2>1. [Idle EXCEPT !.pc = "fetch", !.order = o, !.seen = "pending"] \in Job
    BY <1>3, IdleIsJob DEF Confirm, IInv, TypeOK, Job, JobPc, Status, Idle,
      SessionEvents, ChargeEvents, Jobs
  <2>2. job' \in [Jobs -> Job]
    BY <1>3, <2>1, JobKept DEF Confirm, IInv, Jobs
  <2>3. TypeOK'
    BY <1>3, <2>2 DEF Confirm, quiet, history, row, stripe, IInv, TypeOK, Status, CheckoutPc,
      SessionEvents, ChargeEvents, JobInv, JobSound, EventInv, Happened
  <2>4. JobInv'
    BY <1>3, <2>2, TimeAssumption DEF Confirm, quiet, history, row, stripe, Become, IInv, TypeOK,
      JobInv, JobSound, Happened, EventInv, CheckoutInv, MoneyInv, Jobs, Job, Idle, Finished, InHold
  <2>5. CheckoutInv' /\ MoneyInv' /\ EventInv' /\ ExpiredInv' /\ SettledInv'
    BY <1>3 DEF Confirm, quiet, history, row, stripe, IInv, CheckoutInv, MoneyInv, EventInv,
      ExpiredInv, SettledInv, Happened
  <2>. QED BY <2>3, <2>4, <2>5 DEF IInv
<1>4. ASSUME NEW o \in Orders, ApproveRead(r, o) PROVE IInv'
  <2>1. [Idle EXCEPT !.pc = "approve", !.order = o] \in Job
    BY <1>4, IdleIsJob DEF ApproveRead, IInv, TypeOK, Job, JobPc, Status, Idle,
      SessionEvents, ChargeEvents, Jobs
  <2>2. job' \in [Jobs -> Job]
    BY <1>4, <2>1, JobKept DEF ApproveRead, IInv, Jobs
  <2>3. TypeOK'
    BY <1>4, <2>2 DEF ApproveRead, quiet, history, row, stripe, IInv, TypeOK, Status, CheckoutPc,
      SessionEvents, ChargeEvents, JobInv, JobSound, EventInv, Happened
  <2>4. JobInv'
    BY <1>4, <2>2, TimeAssumption DEF ApproveRead, quiet, history, row, stripe, Become, IInv,
      TypeOK, JobInv, JobSound, Happened, EventInv, CheckoutInv, MoneyInv, Jobs, Job, Idle,
      Finished, InHold
  <2>5. CheckoutInv' /\ MoneyInv' /\ EventInv' /\ ExpiredInv' /\ SettledInv'
    BY <1>4 DEF ApproveRead, quiet, history, row, stripe, IInv, CheckoutInv, MoneyInv, EventInv,
      ExpiredInv, SettledInv, Happened
  <2>. QED BY <2>3, <2>4, <2>5 DEF IInv
<1>5. ASSUME ApproveWrite(r) PROVE IInv'
  <2>1. (IF status[job[r].order] # status'[job[r].order] THEN [Idle EXCEPT !.pc =
          "issue", !.order = job[r].order] ELSE Idle) \in Job
    BY <1>5, IdleIsJob DEF ApproveWrite, IInv, TypeOK, Job, JobPc, Status, Idle,
      SessionEvents, ChargeEvents, Jobs, JobInv, JobSound
  <2>2. job' \in [Jobs -> Job]
    BY <1>5, <2>1, JobKept DEF ApproveWrite, IInv, Jobs
  <2>3. TypeOK'
    BY <1>5, <2>2 DEF ApproveWrite, approveOrder, quiet, history, row, stripe, IInv, TypeOK,
      Status, CheckoutPc, SessionEvents, ChargeEvents, JobInv, JobSound, EventInv, Happened
  <2>4. CheckoutInv'
    BY <1>5 DEF ApproveWrite, approveOrder, quiet, history, row, stripe, IInv, TypeOK,
      CheckoutInv, JobInv, JobSound, SettledInv
  <2>5. JobInv'
    BY <1>5, <2>2, TimeAssumption DEF ApproveWrite, approveOrder, quiet, history, row, stripe,
      Become, IInv, TypeOK, JobInv, JobSound, Happened, EventInv, CheckoutInv, MoneyInv, Jobs, Job,
      Idle, Finished, InHold
  <2>6. ExpiredInv'
    BY <1>5, TimeAssumption DEF ApproveWrite, approveOrder, quiet, history, row, stripe, IInv,
      TypeOK, ExpiredInv, CheckoutInv, JobInv, JobSound, SettledInv, InHold
  <2>7. SettledInv'
    BY <1>5 DEF ApproveWrite, approveOrder, quiet, history, row, stripe, IInv, TypeOK,
      SettledInv, CheckoutInv, MoneyInv, JobInv, JobSound, EventInv, Happened
  <2>8. MoneyInv' /\ EventInv'
    BY <1>5 DEF ApproveWrite, approveOrder, quiet, history, row, stripe, IInv, MoneyInv,
      EventInv, Happened
  <2>. QED BY <2>3, <2>4, <2>5, <2>6, <2>7, <2>8 DEF IInv
<1>6. ASSUME Crash(r) PROVE IInv'
  <2>1. Idle \in Job
    BY <1>6, IdleIsJob DEF Crash, IInv, TypeOK, Job, JobPc, Status, Idle, SessionEvents,
      ChargeEvents, Jobs
  <2>2. job' \in [Jobs -> Job]
    BY <1>6, <2>1, JobKept DEF Crash, IInv, Jobs
  <2>3. TypeOK'
    <3>1. job[r].event # "none" =>
            <<job[r].event, job[r].order>> \in (SessionEvents \cup ChargeEvents) \X Orders
      BY DEF IInv, TypeOK, Job, Jobs, JobInv, JobSound
    <3>. QED BY <1>6, <2>2, <3>1 DEF Crash, quiet, history, row, stripe, IInv, TypeOK
  <2>4. EventInv'
    <3>1. job[r].event # "none" => Happened(<<job[r].event, job[r].order>>)
      BY DEF IInv, JobInv, JobSound, Jobs
    <3>. QED BY <1>6, <3>1 DEF Crash, quiet, history, row, stripe, IInv, EventInv, Happened
  <2>5. JobInv'
    BY <1>6, <2>2, TimeAssumption DEF Crash, quiet, history, row, stripe, Become, IInv, TypeOK,
      JobInv, JobSound, Happened, EventInv, CheckoutInv, MoneyInv, Jobs, Job, Idle, Finished, InHold
  <2>6. CheckoutInv' /\ MoneyInv' /\ ExpiredInv' /\ SettledInv'
    BY <1>6 DEF Crash, quiet, history, row, stripe, IInv, CheckoutInv, MoneyInv, ExpiredInv,
      SettledInv
  <2>. QED BY <2>3, <2>4, <2>5, <2>6 DEF IInv
<1>. QED BY <1>1, <1>2, <1>3, <1>4, <1>5, <1>6 DEF RequestStep

LEMMA CronKeeps ==
  ASSUME IInv, CronStep
  PROVE  IInv'
<1>1. ASSUME CronStart PROVE IInv'
  <2>1. Finished(Cron) \in Job
    BY <1>1, IdleIsJob DEF CronStart, IInv, TypeOK, Job, JobPc, Status, Idle,
      SessionEvents, ChargeEvents, Jobs
  <2>2. job' \in [Jobs -> Job]
    BY <1>1, <2>1, JobKept DEF CronStart, IInv, Jobs
  <2>3. TypeOK'
    BY <1>1, <2>2 DEF CronStart, InHold, quiet, history, row, stripe, IInv, TypeOK, Status,
      CheckoutPc, SessionEvents, ChargeEvents, JobInv, JobSound, EventInv, Happened
  <2>4. CheckoutInv'
    BY <1>1 DEF CronStart, InHold, quiet, history, row, stripe, IInv, TypeOK, CheckoutInv
  <2>5. JobInv'
    BY <1>1, <2>2, TimeAssumption DEF CronStart, InHold, quiet, history, row, stripe, Become,
      IInv, TypeOK, JobInv, JobSound, Happened, EventInv, CheckoutInv, MoneyInv, Jobs, Job, Idle,
      Finished
  <2>6. ExpiredInv'
    BY <1>1, TimeAssumption DEF CronStart, InHold, quiet, history, row, stripe, IInv, TypeOK,
      ExpiredInv, CheckoutInv, JobInv, JobSound
  <2>7. SettledInv'
    BY <1>1 DEF CronStart, InHold, quiet, history, row, stripe, IInv, TypeOK, SettledInv,
      CheckoutInv, MoneyInv, JobInv, JobSound, EventInv, Happened
  <2>8. MoneyInv' /\ EventInv'
    BY <1>1 DEF CronStart, InHold, quiet, history, row, stripe, IInv, MoneyInv, EventInv,
      Happened
  <2>. QED BY <2>3, <2>4, <2>5, <2>6, <2>7, <2>8 DEF IInv
<1>2. ASSUME NEW o \in Orders, CronTake(o) PROVE IInv'
  <2>1. [Idle EXCEPT !.pc = "fetch", !.order = o, !.seen = "pending"] \in Job
    BY <1>2, IdleIsJob DEF CronTake, IInv, TypeOK, Job, JobPc, Status, Idle,
      SessionEvents, ChargeEvents, Jobs
  <2>2. job' \in [Jobs -> Job]
    BY <1>2, <2>1, JobKept DEF CronTake, IInv, Jobs
  <2>3. TypeOK'
    BY <1>2, <2>2 DEF CronTake, quiet, history, row, stripe, IInv, TypeOK, Status, CheckoutPc,
      SessionEvents, ChargeEvents, JobInv, JobSound, EventInv, Happened
  <2>4. JobInv'
    BY <1>2, <2>2, TimeAssumption DEF CronTake, quiet, history, row, stripe, Become, IInv,
      TypeOK, JobInv, JobSound, Happened, EventInv, CheckoutInv, MoneyInv, Jobs, Job, Idle,
      Finished, InHold
  <2>5. CheckoutInv' /\ MoneyInv' /\ EventInv' /\ ExpiredInv' /\ SettledInv'
    BY <1>2 DEF CronTake, quiet, history, row, stripe, IInv, CheckoutInv, MoneyInv, EventInv,
      ExpiredInv, SettledInv, Happened
  <2>. QED BY <2>3, <2>4, <2>5 DEF IInv
<1>3. ASSUME CronSweep PROVE IInv'
  <2>1. Idle \in Job
    BY <1>3, IdleIsJob DEF CronSweep, IInv, TypeOK, Job, JobPc, Status, Idle,
      SessionEvents, ChargeEvents, Jobs
  <2>2. job' \in [Jobs -> Job]
    BY <1>3, <2>1, JobKept DEF CronSweep, IInv, Jobs
  <2>3. TypeOK'
    BY <1>3, <2>2 DEF CronSweep, quiet, history, row, stripe, IInv, TypeOK, Status, CheckoutPc,
      SessionEvents, ChargeEvents, JobInv, JobSound, EventInv, Happened
  <2>4. JobInv'
    BY <1>3, <2>2, TimeAssumption DEF CronSweep, quiet, history, row, stripe, Become, IInv,
      TypeOK, JobInv, JobSound, Happened, EventInv, CheckoutInv, MoneyInv, Jobs, Job, Idle,
      Finished, InHold
  <2>5. SettledInv'
    BY <1>3 DEF CronSweep, quiet, history, row, stripe, IInv, TypeOK, SettledInv, CheckoutInv,
      MoneyInv, JobInv, JobSound, EventInv, Happened
  <2>6. CheckoutInv' /\ MoneyInv' /\ EventInv' /\ ExpiredInv'
    BY <1>3 DEF CronSweep, quiet, history, row, stripe, IInv, CheckoutInv, MoneyInv, EventInv,
      ExpiredInv, Happened
  <2>. QED BY <2>3, <2>4, <2>5, <2>6 DEF IInv
<1>. QED BY <1>1, <1>2, <1>3 DEF CronStep

LEMMA OtherKeeps ==
  ASSUME IInv, Tick \/ SetCouponActive \/ \E e \in events : LoseEvent(e)
  PROVE  IInv'
<1>1. ASSUME NEW e \in events, LoseEvent(e) PROVE IInv'
  <2>1. TypeOK'
    BY <1>1 DEF LoseEvent, db, row, history, stripe, IInv, TypeOK, Status, CheckoutPc,
      SessionEvents, ChargeEvents
  <2>2. EventInv'
    BY <1>1 DEF LoseEvent, db, row, history, stripe, IInv, TypeOK, EventInv, Happened, MoneyInv,
      CheckoutInv
  <2>3. CheckoutInv' /\ MoneyInv' /\ JobInv' /\ ExpiredInv' /\ SettledInv'
    BY <1>1 DEF LoseEvent, db, row, history, stripe, IInv, CheckoutInv, MoneyInv, JobInv, JobSound,
      ExpiredInv, SettledInv, Happened, InHold, Jobs
  <2>. QED BY <2>1, <2>2, <2>3 DEF IInv
<1>2. ASSUME SetCouponActive PROVE IInv'
  <2>1. TypeOK'
    BY <1>2 DEF SetCouponActive, row, history, stripe, IInv, TypeOK, Status, CheckoutPc,
      SessionEvents, ChargeEvents
  <2>2. CheckoutInv' /\ MoneyInv' /\ EventInv' /\ JobInv' /\ ExpiredInv' /\ SettledInv'
    BY <1>2 DEF SetCouponActive, row, history, stripe, IInv, CheckoutInv, MoneyInv, EventInv,
      JobInv, JobSound, ExpiredInv, SettledInv, Happened, InHold, Jobs
  <2>. QED BY <2>1, <2>2 DEF IInv
<1>3. ASSUME Tick PROVE IInv'
  <2>1. TypeOK'
    BY <1>3, TimeAssumption DEF Tick, row, stripe, IInv, TypeOK, Status, CheckoutPc,
      SessionEvents, ChargeEvents
  <2>2. JobInv'
    <3>1. UNCHANGED <<created, status, session, charge, exact, job, todo>> /\ lapsed \subseteq lapsed'
      BY <1>3 DEF Tick, row, stripe
    <3>2. ASSUME NEW j \in Jobs PROVE JobSound(job[j])'
      <4>1. JobSound(job[j])
        BY DEF IInv, JobInv
      <4>2. job[j].pc = "pay" /\ ~job[j].late
              => (InHold(job[j].order) \/ job[j].order \in lapsed)'
        <5>. SUFFICES ASSUME job[j].pc = "pay", ~job[j].late, job[j].order \notin lapsed'
                      PROVE  InHold(job[j].order)'
          BY <3>1
        <5>1. job[j].order \in Orders /\ InHold(job[j].order)
          BY <3>1, <4>1 DEF JobSound
        <5>2. created[job[j].order] # now - Hold
          BY <1>3, <5>1 DEF Tick
        <5>3. created[job[j].order] \in Int /\ now \in Int /\ Hold \in Int /\ now' = now + 1
          BY <1>3, <5>1, TimeAssumption DEF Tick, IInv, TypeOK
        <5>4. created[job[j].order] >= now' - Hold
          BY <5>1, <5>2, <5>3 DEF InHold
        <5>. QED BY <3>1, <5>4 DEF InHold
      <4>. QED BY <3>1, <4>1, <4>2 DEF JobSound, Happened
    <3>. QED BY <3>1, <3>2 DEF IInv, JobInv, Jobs
  <2>3. ExpiredInv'
    BY <1>3, TimeAssumption DEF Tick, row, stripe, IInv, TypeOK, ExpiredInv,
      CheckoutInv, JobInv, JobSound, InHold
  <2>4. CheckoutInv' /\ MoneyInv' /\ EventInv' /\ SettledInv'
    BY <1>3 DEF Tick, row, stripe, IInv, CheckoutInv, MoneyInv, EventInv, SettledInv,
      Happened
  <2>. QED BY <2>1, <2>2, <2>3, <2>4 DEF IInv
<1>. QED BY <1>1, <1>2, <1>3

LEMMA InitEstablishes == Init => IInv
<1>. SUFFICES ASSUME Init PROVE IInv
  OBVIOUS
<1>1. TypeOK
  BY IdleIsJob, TimeAssumption, SeatsAssumption DEF Init, TypeOK, Status, CheckoutPc
<1>2. CheckoutInv /\ MoneyInv /\ ExpiredInv /\ SettledInv /\ EventInv
  BY DEF Init, CheckoutInv, MoneyInv, ExpiredInv, SettledInv, EventInv
<1>3. JobInv
  BY DEF Init, JobInv, JobSound, Idle, Jobs
<1>. QED BY <1>1, <1>2, <1>3 DEF IInv

LEMMA NextKeeps == IInv /\ [Next]_vars => IInv'
<1>. SUFFICES ASSUME IInv, [Next]_vars PROVE IInv'
  OBVIOUS
<1>1. CASE UNCHANGED vars
  BY <1>1 DEF vars, history, IInv, TypeOK, CheckoutInv, MoneyInv, EventInv, JobInv, JobSound,
    ExpiredInv, SettledInv, Happened, InHold, Jobs
<1>2. CASE Next
  BY <1>2, CheckoutKeeps, StripeKeeps, SettleKeeps, RequestKeeps, CronKeeps, OtherKeeps DEF Next
<1>. QED BY <1>1, <1>2

LEMMA AlwaysIInv == Spec => []IInv
BY InitEstablishes, NextKeeps, PTL DEF Spec

-----------------------------------------------------------------------------
(* What follows from it.                                                      *)

\* Every variable keeps its type: in particular no statement of d1-repo.ts
\* writes a status outside the CHECK of the table.
THEOREM TypeCorrect == Spec => []TypeOK
BY AlwaysIInv, PTL DEF IInv

\* checkout() stores the session before it answers with the payment URL, so
\* that money is never on its way to a session no order row names.
THEOREM MoneyIsAccountedFor == Spec => []MoneyHasAnOrder
<1>1. IInv => MoneyHasAnOrder
  BY DEF IInv, CheckoutInv, MoneyHasAnOrder
<1>. QED BY <1>1, AlwaysIInv, PTL

\* settle() marks paid only what Stripe collected exactly; an order becomes paid
\* otherwise only as a coupon order or through review.
THEOREM PaidIsPaid == Spec => []PaidMeansPaid
<1>1. IInv => PaidMeansPaid
  BY DEF IInv, SettledInv, PaidMeansPaid
<1>. QED BY <1>1, AlwaysIInv, PTL

\* Releasing an order (settle, abort, the sessionless sweep) and paying for it
\* cannot cross: an expired order's session can no longer collect money.
THEOREM ReleasedIsUnpaid == Spec => []MoneyIsNeverReleased
<1>1. IInv => MoneyIsNeverReleased
  BY DEF IInv, ExpiredInv, MoneyInv, MoneyIsNeverReleased
<1>. QED BY <1>1, AlwaysIInv, PTL

\* A refund voids the tickets in its own batch and a fulfilment that raced it
\* inserts nothing, so a refunded order admits nobody.
THEOREM RefundsAreComplete == Spec => []RefundIsComplete
<1>1. IInv => RefundIsComplete
  BY DEF IInv, SettledInv, RefundIsComplete
<1>. QED BY <1>1, AlwaysIInv, PTL

\* Late, repeated and reordered events find the status predicates of d1-repo.ts:
\* no statement takes a paid or reviewed order back, none revives a refund.
THEOREM SettledForGood == Spec => NoUnsettling
<1>1. ASSUME IInv, Next, NEW p \in Orders PROVE StaysSettled(p)
  <2>1. ASSUME NEW o \in Orders, CheckoutStep(o) PROVE StaysSettled(p)
    <3>1. ASSUME Insert(o) PROVE StaysSettled(p)
      <4>1. status[o] = "absent" /\ tickets' = tickets
        BY <1>1, <3>1 DEF Insert, IInv, CheckoutInv
      <4>2. status'[p] = status[p] \/ status[p] = "absent"
        BY <1>1, <3>1, <4>1 DEF Insert, IInv, TypeOK
      <4>. QED BY <4>1, <4>2 DEF StaysSettled
    <3>2. ASSUME IssueFree(o) PROVE StaysSettled(p)
      BY <1>1, <3>2 DEF IssueFree, issueFulfilment, StaysSettled, IInv, TypeOK
    <3>3. ASSUME Abort(o) PROVE StaysSettled(p)
      BY <1>1, <3>3 DEF Abort, markOrderExpired, StaysSettled, IInv, TypeOK
    <3>. QED BY <2>1, <3>1, <3>2, <3>3 DEF CheckoutStep, Begin, CreateFails, StoreSession,
           CheckoutCrash, CreateSession, StaysSettled
  <2>2. ASSUME NEW o \in Orders, StripeStep(o) PROVE StaysSettled(p)
    BY <2>2 DEF StripeStep, Pay, AsyncSucceeds, PayLater, AsyncFails, SessionExpires, Refund,
      DisputeOpens, DisputeCloses, db, StaysSettled
  <2>3. ASSUME NEW j \in Jobs, SettleStep(j) PROVE StaysSettled(p)
    <3>1. ASSUME WriteReview(j) PROVE StaysSettled(p)
      BY <1>1, <3>1 DEF WriteReview, markOrderNeedsReview, StaysSettled, IInv, TypeOK
    <3>2. ASSUME WritePaid(j) PROVE StaysSettled(p)
      BY <1>1, <3>2 DEF WritePaid, markOrderPaid, StaysSettled, IInv, TypeOK
    <3>3. ASSUME WriteExpired(j) PROVE StaysSettled(p)
      BY <1>1, <3>3 DEF WriteExpired, markOrderExpired, StaysSettled, IInv, TypeOK
    <3>4. ASSUME Issue(j) PROVE StaysSettled(p)
      <4>1. status' = status /\ (issueFulfilment(job[j].order) \/ tickets' = tickets)
        BY <3>4 DEF Issue
      <4>. QED BY <1>1, <4>1 DEF issueFulfilment, StaysSettled, IInv, TypeOK
    <3>. QED BY <2>3, <3>1, <3>2, <3>3, <3>4 DEF SettleStep, Fetch, FetchFails, Decide, StaysSettled
  <2>4. ASSUME NEW r \in Requests, RequestStep(r) PROVE StaysSettled(p)
    <3>1. ASSUME NEW e \in events, ReceiveCharge(r, e) PROVE StaysSettled(p)
      <4>1. CASE ~intent[e[2]]
        BY <3>1, <4>1 DEF ReceiveCharge, StaysSettled
      <4>2. CASE intent[e[2]] /\ e[1] = "dispute_created"
        <5>1. markOrderNeedsReview(e[2], "dispute") /\ tickets' = tickets
          BY <3>1, <4>2 DEF ReceiveCharge
        <5>. QED BY <1>1, <5>1 DEF markOrderNeedsReview, StaysSettled, IInv, TypeOK
      <4>3. CASE intent[e[2]] /\ e[1] \in {"dispute_lost", "refunded"}
        <5>1. markOrderRefunded(e[2])
          BY <3>1, <4>3 DEF ReceiveCharge
        <5>. QED BY <1>1, <5>1 DEF markOrderRefunded, StaysSettled, IInv, TypeOK
      <4>4. CASE intent[e[2]] /\ e[1] = "dispute_won"
        <5>1. approveOrder(e[2], "dispute") /\ tickets' = tickets
          BY <3>1, <4>4 DEF ReceiveCharge
        <5>. QED BY <1>1, <5>1 DEF approveOrder, StaysSettled, IInv, TypeOK
      <4>. QED BY <3>1, <4>1, <4>2, <4>3, <4>4 DEF ReceiveCharge
    <3>2. ASSUME ApproveWrite(r) PROVE StaysSettled(p)
      BY <1>1, <3>2 DEF ApproveWrite, approveOrder, StaysSettled, IInv, TypeOK
    <3>. QED BY <2>4, <3>1, <3>2 DEF RequestStep, ReceiveSession, Confirm, ApproveRead, Crash,
           StaysSettled
  <2>5. ASSUME CronStep PROVE StaysSettled(p)
    <3>1. ASSUME CronStart PROVE StaysSettled(p)
      BY <3>1 DEF CronStart, StaysSettled
    <3>2. ASSUME CronSweep PROVE StaysSettled(p)
      BY <3>2 DEF CronSweep, StaysSettled
    <3>. QED BY <2>5, <3>1, <3>2 DEF CronStep, CronTake, StaysSettled
  <2>6. ASSUME Tick \/ SetCouponActive \/ \E e \in events : LoseEvent(e) PROVE StaysSettled(p)
    BY <2>6 DEF Tick, SetCouponActive, LoseEvent, db, StaysSettled
  <2>. QED BY <1>1, <2>1, <2>2, <2>3, <2>4, <2>5, <2>6 DEF Next
<1>2. IInv /\ [Next]_vars => [\A o \in Orders : StaysSettled(o)]_vars
  BY <1>1
<1>. QED BY <1>2, AlwaysIInv, PTL DEF Spec, NoUnsettling

-----------------------------------------------------------------------------
(* No oversell. Counting needs the seats to be finite; a step either sells no  *)
(* order that was not sold before, or one that fits.                           *)

LEMMA SeatsAreFinite ==
  ASSUME NEW S \in SUBSET ((Orders \X Types) \X (1..MaxQty))
  PROVE  IsFiniteSet(S)
<1>1. IsFiniteSet(Orders \X Types)
  BY OrdersAssumption, SeatsAssumption, FS_Product
<1>2. IsFiniteSet(1..MaxQty)
  BY SeatsAssumption, FS_Interval
<1>3. IsFiniteSet((Orders \X Types) \X (1..MaxQty))
  BY <1>1, <1>2, FS_Product
<1>. QED BY <1>3, FS_Subset

LEMMA SeatsAreSeats ==
  \A o \in Orders : Seats(o) \subseteq (Orders \X Types) \X (1..MaxQty)
BY DEF Seats, Bundle

LEMMA SoldShrinks ==
  ASSUME NoOversell, Sold' \subseteq Sold, \A o \in Sold' : cart'[o] = cart[o]
  PROVE  NoOversell'
<1>1. SoldSeats' \subseteq SoldSeats
  BY DEF SoldSeats, Seats, Bundle
<1>2. SoldSeats \subseteq (Orders \X Types) \X (1..MaxQty)
  BY SeatsAreSeats DEF SoldSeats, Sold
<1>. SUFFICES ASSUME NEW t \in Types PROVE Cardinality(OfType(SoldSeats, t)') <= Capacity[t]
  BY DEF NoOversell
<1>3. OfType(SoldSeats, t)' \subseteq OfType(SoldSeats, t)
  BY <1>1 DEF OfType
<1>4. IsFiniteSet(OfType(SoldSeats, t))
  BY <1>2, SeatsAreFinite DEF OfType
<1>5. /\ Cardinality(OfType(SoldSeats, t)') <= Cardinality(OfType(SoldSeats, t))
      /\ Cardinality(OfType(SoldSeats, t)') \in Nat /\ Cardinality(OfType(SoldSeats, t)) \in Nat
  BY <1>3, <1>4, FS_Subset, FS_CardinalityType
<1>6. Cardinality(OfType(SoldSeats, t)) <= Capacity[t] /\ Capacity[t] \in Nat
  BY SeatsAssumption DEF NoOversell
<1>. QED BY <1>5, <1>6

LEMMA SoldFits ==
  ASSUME NoOversell, TypeOK, NEW o \in Orders, Fits(o), cart' = cart, Sold' \subseteq Sold \cup {o}
  PROVE  NoOversell'
<1>. SUFFICES ASSUME NEW t \in Types PROVE Cardinality(OfType(SoldSeats, t)') <= Capacity[t]
  BY DEF NoOversell
<1>0. Capacity[t] \in Nat /\ cart[o][t] \in Nat
  BY SeatsAssumption DEF TypeOK
<1>1. CASE cart[o][t] > 0
  <2>1. SoldSeats' \subseteq HeldSeats \cup Seats(o)
    BY DEF SoldSeats, HeldSeats, Seats, Bundle, Sold
  <2>2. OfType(SoldSeats, t)' \subseteq OfType(HeldSeats \cup Seats(o), t)
    BY <2>1 DEF OfType
  <2>3. HeldSeats \cup Seats(o) \subseteq (Orders \X Types) \X (1..MaxQty)
    BY SeatsAreSeats DEF HeldSeats
  <2>4. IsFiniteSet(OfType(HeldSeats \cup Seats(o), t))
    BY <2>3, SeatsAreFinite DEF OfType
  <2>5. /\ Cardinality(OfType(SoldSeats, t)') <= Cardinality(OfType(HeldSeats \cup Seats(o), t))
        /\ Cardinality(OfType(SoldSeats, t)') \in Nat
        /\ Cardinality(OfType(HeldSeats \cup Seats(o), t)) \in Nat
    BY <2>2, <2>4, FS_Subset, FS_CardinalityType
  <2>6. Cardinality(OfType(HeldSeats \cup Seats(o), t)) <= Capacity[t]
    BY <1>1 DEF Fits
  <2>. QED BY <1>0, <2>5, <2>6
<1>2. CASE ~(cart[o][t] > 0)
  <2>1. OfType(Seats(o), t) = {}
    <3>1. SUFFICES ASSUME NEW s \in OfType(Seats(o), t) PROVE FALSE
      OBVIOUS
    <3>2. s[1][2] = t /\ s[2] \in 1..MaxQty /\ s[2] <= cart[o][t]
      BY <3>1 DEF OfType, Seats, Bundle
    <3>. QED BY <1>0, <1>2, <3>2, SeatsAssumption
  <2>2. OfType(SoldSeats, t)' \subseteq OfType(SoldSeats, t)
    BY <2>1 DEF OfType, SoldSeats, Seats, Bundle
  <2>3. SoldSeats \subseteq (Orders \X Types) \X (1..MaxQty)
    BY SeatsAreSeats DEF SoldSeats, Sold
  <2>4. IsFiniteSet(OfType(SoldSeats, t))
    BY <2>3, SeatsAreFinite DEF OfType
  <2>5. /\ Cardinality(OfType(SoldSeats, t)') <= Cardinality(OfType(SoldSeats, t))
        /\ Cardinality(OfType(SoldSeats, t)') \in Nat /\ Cardinality(OfType(SoldSeats, t)) \in Nat
    BY <2>2, <2>4, FS_Subset, FS_CardinalityType
  <2>6. Cardinality(OfType(SoldSeats, t)) <= Capacity[t]
    BY DEF NoOversell
  <2>. QED BY <1>0, <2>5, <2>6
<1>. QED BY <1>1, <1>2

\* Nothing is newly sold when statuses, holds and reviews stand still.
LEMMA StandsStill ==
  ASSUME NoOversell, UNCHANGED <<cart, created, status, now, waved, slipped>>
  PROVE  NoOversell'
<1>1. Sold' = Sold
  BY DEF Sold, Held, InHold
<1>. QED BY <1>1, SoldShrinks

\* A step that changes the status of one order only, and never to a status
\* that holds seats from one that does not, sells nothing new.
LEMMA NothingNew ==
  ASSUME NoOversell, UNCHANGED <<cart, created, now>>, waved \subseteq waved', slipped \subseteq slipped',
         \A p \in Orders : \/ status'[p] = status[p]
                          \/ status'[p] \notin {"paid", "needs_review", "pending"}
                          \/ status[p] \in {"paid", "needs_review"}
                          \/ p \in waved' \cup slipped'
  PROVE  NoOversell'
<1>1. Sold' \subseteq Sold
  BY DEF Sold, Held, InHold
<1>. QED BY <1>1, SoldShrinks

LEMMA CheckoutSells ==
  ASSUME IInv, NoOversell, NEW o \in Orders, CheckoutStep(o)
  PROVE  NoOversell'
<1>1. ASSUME NEW c \in Carts, NEW free \in BOOLEAN, Begin(o, c, free) PROVE NoOversell'
  <2>1. status[o] = "absent" /\ UNCHANGED <<status, now, waved, slipped>>
    BY <1>1 DEF Begin, rest, history, IInv, CheckoutInv
  <2>2. \A p \in Orders : p # o => cart'[p] = cart[p] /\ created'[p] = created[p]
    BY <1>1 DEF Begin, IInv, TypeOK
  <2>3. Sold' \subseteq Sold /\ \A p \in Sold' : cart'[p] = cart[p]
    BY <2>1, <2>2 DEF Sold, Held, InHold
  <2>. QED BY <2>3, SoldShrinks
<1>2. ASSUME Insert(o) PROVE NoOversell'
  <2>1. CASE Fits(o)
    <3>1. /\ UNCHANGED <<cart, created, now, waved, slipped>>
          /\ \A p \in Orders : p # o => status'[p] = status[p]
      BY <1>2 DEF Insert, rest, history, row, IInv, TypeOK
    <3>2. Sold' \subseteq Sold \cup {o}
      BY <3>1 DEF Sold, Held, InHold
    <3>. QED BY <2>1, <3>1, <3>2, SoldFits DEF IInv
  <2>2. CASE ~Fits(o)
    BY <1>2, <2>2, StandsStill DEF Insert, rest, history, row
  <2>. QED BY <2>1, <2>2
<1>3. ASSUME Abort(o) PROVE NoOversell'
  BY <1>3, NothingNew DEF Abort, markOrderExpired, rest, history, row, IInv, TypeOK
<1>4. CASE \/ IssueFree(o) \/ CreateFails(o) \/ StoreSession(o) \/ CheckoutCrash(o)
          \/ \E answered \in Answers : CreateSession(o, answered)
  BY <1>4, StandsStill DEF IssueFree, CreateFails, StoreSession, CheckoutCrash, CreateSession,
    rest, history, row
<1>. QED BY <1>1, <1>2, <1>3, <1>4 DEF CheckoutStep

\* A settlement that did not ask for the capacity check finds the order pending.
\* Inside its hold, the order is paid for the very seats it holds; if the hold
\* lapsed since the check, either the seats still fit or the order slipped in.
LEMMA SettleSells ==
  ASSUME IInv, NoOversell, NEW j \in Jobs, SettleStep(j)
  PROVE  NoOversell'
<1>1. ASSUME WriteReview(j) PROVE NoOversell'
  <2>1. UNCHANGED <<cart, created, now>> /\ markOrderNeedsReview(job[j].order, "mismatch")
    BY <1>1 DEF WriteReview, quiet, row, Become, IInv, TypeOK
  <2>2. waved \subseteq waved' /\ slipped' = slipped
    BY <2>1 DEF markOrderNeedsReview
  <2>3. \A p \in Orders : status'[p] = status[p] \/ status[p] = "paid" \/ p \in waved'
    BY <2>1 DEF markOrderNeedsReview, IInv, TypeOK
  <2>. QED BY <2>1, <2>2, <2>3, NothingNew
<1>2. ASSUME WritePaid(j) PROVE NoOversell'
  <2> DEFINE o == job[j].order
  <2>1. /\ UNCHANGED <<cart, created, now>> /\ markOrderPaid(o, job[j].late)
        /\ JobSound(job[j]) /\ job[j].pc = "pay" /\ o \in Orders /\ job[j].late \in BOOLEAN
    BY <1>2 DEF WritePaid, quiet, history, row, IInv, JobInv, JobSound, TypeOK, Job
  <2>2. \A p \in Orders : p # o => status'[p] = status[p]
    BY <2>1 DEF markOrderPaid, IInv, TypeOK
  <2>3. CASE job[j].late /\ Fits(o)
    <3>1. waved' = waved /\ slipped' = slipped
      BY <2>1, <2>3 DEF markOrderPaid
    <3>2. Sold' \subseteq Sold \cup {o}
      BY <2>1, <2>2, <3>1 DEF Sold, Held, InHold
    <3>. QED BY <2>1, <2>3, <3>2, SoldFits DEF IInv
  <2>4. CASE job[j].late /\ ~Fits(o)
    <3>1. waved \subseteq waved' /\ slipped \subseteq slipped' /\ (status'[o] = status[o] \/ o \in waved')
      BY <2>1, <2>4 DEF markOrderPaid
    <3>. QED BY <2>1, <2>2, <3>1, NothingNew
  <2>5. CASE ~job[j].late
    <3>1. (InHold(o) \/ o \in lapsed) /\ session[o] = "paid"
      BY <2>1, <2>5 DEF JobSound
    <3>2. status[o] # "expired"
      BY <2>1, <3>1 DEF IInv, ExpiredInv
    <3>3. /\ waved' = waved /\ slipped \subseteq slipped'
          /\ status'[o] = status[o] \/ status[o] = "pending"
      BY <2>1, <2>5, <3>2 DEF markOrderPaid, IInv, TypeOK
    <3>4. CASE InHold(o)
      <4>1. Sold' \subseteq Sold
        BY <2>1, <2>2, <3>3, <3>4 DEF Sold, Held, InHold
      <4>. QED BY <2>1, <4>1, SoldShrinks
    <3>5. CASE o \in lapsed /\ Fits(o)
      <4>1. Sold' \subseteq Sold \cup {o}
        BY <2>1, <2>2, <3>3 DEF Sold, Held, InHold
      <4>. QED BY <2>1, <3>5, <4>1, SoldFits DEF IInv
    <3>6. CASE o \in lapsed /\ ~Fits(o)
      <4>1. status'[o] = status[o] \/ o \in slipped'
        BY <2>1, <2>5, <3>3, <3>6 DEF markOrderPaid
      <4>. QED BY <2>1, <2>2, <3>3, <4>1, NothingNew
    <3>. QED BY <3>1, <3>4, <3>5, <3>6
  <2>. QED BY <2>1, <2>3, <2>4, <2>5
<1>3. ASSUME WriteExpired(j) PROVE NoOversell'
  BY <1>3, NothingNew DEF WriteExpired, markOrderExpired, quiet, history, row, IInv, TypeOK
<1>4. CASE Fetch(j) \/ FetchFails(j) \/ Decide(j) \/ Issue(j)
  BY <1>4, StandsStill DEF Fetch, FetchFails, Decide, Issue, quiet, history, row
<1>. QED BY <1>1, <1>2, <1>3, <1>4 DEF SettleStep

LEMMA RequestSells ==
  ASSUME IInv, NoOversell, NEW r \in Requests, RequestStep(r)
  PROVE  NoOversell'
<1>1. ASSUME NEW e \in events, ReceiveCharge(r, e) PROVE NoOversell'
  <2>1. UNCHANGED <<cart, created, now>>
    BY <1>1 DEF ReceiveCharge, quiet, history, row
  <2>2. CASE ~intent[e[2]]
    BY <1>1, <2>1, <2>2, StandsStill DEF ReceiveCharge, history
  <2>3. CASE intent[e[2]] /\ e[1] = "dispute_created"
    <3>1. markOrderNeedsReview(e[2], "dispute")
      BY <1>1, <2>3 DEF ReceiveCharge
    <3>2. waved \subseteq waved' /\ slipped' = slipped
      BY <3>1 DEF markOrderNeedsReview
    <3>3. \A p \in Orders : status'[p] = status[p] \/ status[p] = "paid" \/ p \in waved'
      BY <3>1 DEF markOrderNeedsReview, IInv, TypeOK
    <3>. QED BY <2>1, <3>2, <3>3, NothingNew
  <2>4. CASE intent[e[2]] /\ e[1] \in {"dispute_lost", "refunded"}
    <3>1. markOrderRefunded(e[2]) /\ UNCHANGED <<waved, slipped>>
      BY <1>1, <2>4 DEF ReceiveCharge, history
    <3>2. \A p \in Orders : status'[p] = status[p] \/ status'[p] = "refunded"
      BY <3>1 DEF markOrderRefunded, IInv, TypeOK
    <3>. QED BY <2>1, <3>1, <3>2, NothingNew
  <2>5. CASE intent[e[2]] /\ e[1] = "dispute_won"
    <3>1. approveOrder(e[2], "dispute") /\ UNCHANGED <<waved, slipped>>
      BY <1>1, <2>5 DEF ReceiveCharge, history
    <3>2. \A p \in Orders : status'[p] = status[p] \/ status[p] = "needs_review"
      BY <3>1 DEF approveOrder, IInv, TypeOK
    <3>. QED BY <2>1, <3>1, <3>2, NothingNew
  <2>. QED BY <1>1, <2>2, <2>3, <2>4, <2>5 DEF ReceiveCharge
<1>2. ASSUME ApproveWrite(r) PROVE NoOversell'
  <2>1. UNCHANGED <<cart, created, now, waved, slipped>> /\ approveOrder(job[r].order, "none")
    BY <1>2 DEF ApproveWrite, quiet, history, row
  <2>2. \A p \in Orders : status'[p] = status[p] \/ status[p] = "needs_review"
    BY <2>1 DEF approveOrder, IInv, TypeOK
  <2>. QED BY <2>1, <2>2, NothingNew
<1>3. ASSUME NEW e \in events, ReceiveSession(r, e) PROVE NoOversell'
  BY <1>3, StandsStill DEF ReceiveSession, quiet, history, row
<1>4. ASSUME NEW o \in Orders, Confirm(r, o) \/ ApproveRead(r, o) PROVE NoOversell'
  BY <1>4, StandsStill DEF Confirm, ApproveRead, quiet, history, row
<1>5. ASSUME Crash(r) PROVE NoOversell'
  BY <1>5, StandsStill DEF Crash, quiet, history, row
<1>. QED BY <1>1, <1>2, <1>3, <1>4, <1>5 DEF RequestStep

\* No race of checkouts, settlements and lapsing holds oversells a type but
\* through an order under review or one whose hold lapsed while its settlement
\* stood between settle's check and its UPDATE: otherwise the capacity predicates
\* of insertOrderIfAvailable and markOrderPaid are enough.
THEOREM NeverOversold == Spec => []NoOversell
<1>1. Init => NoOversell
  <2>. SUFFICES ASSUME Init, NEW t \in Types PROVE Cardinality(OfType(SoldSeats, t)) <= Capacity[t]
    BY DEF NoOversell
  <2>1. OfType(SoldSeats, t) = {}
    BY DEF Init, OfType, SoldSeats, Sold, Held
  <2>. QED BY <2>1, FS_EmptySet, SeatsAssumption
<1>2. IInv /\ NoOversell /\ [Next]_vars => NoOversell'
  <2>. SUFFICES ASSUME IInv, NoOversell, [Next]_vars PROVE NoOversell'
    OBVIOUS
  <2>1. CASE UNCHANGED vars
    BY <2>1, StandsStill DEF vars, history
  <2>2. ASSUME NEW o \in Orders, StripeStep(o) PROVE NoOversell'
    BY <2>2, StandsStill DEF StripeStep, Pay, AsyncSucceeds, PayLater, AsyncFails, SessionExpires,
      Refund, DisputeOpens, DisputeCloses, db, row, history
  <2>3. ASSUME CronStart PROVE NoOversell'
    BY <2>3, NothingNew DEF CronStart, quiet, history, row
  <2>4. CASE CronSweep \/ \E o \in Orders : CronTake(o)
    BY <2>4, StandsStill DEF CronSweep, CronTake, quiet, history, row
  <2>5. ASSUME Tick PROVE NoOversell'
    <3>1. Sold' \subseteq Sold
      BY <2>5, TimeAssumption DEF Tick, row, Sold, Held, InHold, IInv, TypeOK
    <3>. QED BY <2>5, <3>1, SoldShrinks DEF Tick, row
  <2>6. CASE SetCouponActive \/ \E e \in events : LoseEvent(e)
    BY <2>6, StandsStill DEF SetCouponActive, LoseEvent, db, row, history
  <2>. QED BY <2>1, <2>2, <2>3, <2>4, <2>5, <2>6, CheckoutSells, SettleSells, RequestSells
         DEF Next, CronStep
<1>. QED BY <1>1, <1>2, AlwaysIInv, PTL DEF Spec

-----------------------------------------------------------------------------
(* Uses of the coupon. Only the insert of a coupon order adds a use, and a     *)
(* used coupon order is paid and therefore counted by the insert's EXISTS.     *)

Users == {x \in Orders : coupon[x] /\ status[x] # "absent"}

LEMMA UsesShrink ==
  ASSUME CouponWithinLimit, Users' \subseteq Users, \A x \in Users' : cart'[x] = cart[x]
  PROVE  CouponWithinLimit'
<1> DEFINE Uses == UNION {Seats(x) : x \in Users}
<1>1. Uses' \subseteq Uses
  BY DEF Seats, Bundle
<1>2. Uses \subseteq (Orders \X Types) \X (1..MaxQty)
  BY SeatsAreSeats DEF Users
<1>3. IsFiniteSet(Uses)
  BY <1>2, SeatsAreFinite
<1>4. Cardinality(Uses') <= Cardinality(Uses) /\ Cardinality(Uses') \in Nat /\ Cardinality(Uses) \in Nat
  BY <1>1, <1>3, FS_Subset, FS_CardinalityType
<1>5. Cardinality(Uses) <= CouponMax /\ CouponMax \in Nat
  BY SeatsAssumption DEF CouponWithinLimit, Users
<1>6. Cardinality(Uses') <= CouponMax
  BY <1>4, <1>5
<1>. QED BY <1>6 DEF CouponWithinLimit, Users

\* No order is created by a step that leaves absent rows absent.
LEMMA NoNewUse ==
  ASSUME CouponWithinLimit, UNCHANGED <<cart, coupon>>,
         \A x \in Orders : status[x] = "absent" => status'[x] = "absent"
  PROVE  CouponWithinLimit'
<1>1. Users' \subseteq Users
  BY DEF Users
<1>. QED BY <1>1, UsesShrink

LEMMA CheckoutUses ==
  ASSUME IInv, CouponWithinLimit, NEW o \in Orders, CheckoutStep(o)
  PROVE  CouponWithinLimit'
<1>1. ASSUME NEW c \in Carts, NEW free \in BOOLEAN, Begin(o, c, free) PROVE CouponWithinLimit'
  <2>1. status[o] = "absent" /\ status' = status
    BY <1>1 DEF Begin, IInv, CheckoutInv
  <2>2. \A x \in Orders : x # o => cart'[x] = cart[x] /\ coupon'[x] = coupon[x]
    BY <1>1 DEF Begin, IInv, TypeOK
  <2>3. Users' \subseteq Users /\ \A x \in Users' : cart'[x] = cart[x]
    BY <2>1, <2>2 DEF Users
  <2>. QED BY <2>3, UsesShrink
<1>2. ASSUME Insert(o) PROVE CouponWithinLimit'
  <2>1. UNCHANGED <<cart, coupon>> /\ \A x \in Orders : x # o => status'[x] = status[x]
    BY <1>2 DEF Insert, row, IInv, TypeOK
  <2>2. CASE coupon[o] /\ CouponHasRoom(o)
    <3> DEFINE Uses == UNION {Seats(x) : x \in Users}
    <3>1. Users' \subseteq Users \cup {o}
      BY <2>1 DEF Users
    <3>2. \A x \in Users : coupon[x] /\ Held(x)
      BY DEF Users, Held, IInv, CheckoutInv
    <3>3. Uses' \subseteq CouponSeats \cup Seats(o)
      BY <2>1, <3>1, <3>2 DEF CouponSeats, Users, Seats, Bundle
    <3>4. CouponSeats \cup Seats(o) \subseteq (Orders \X Types) \X (1..MaxQty)
      BY SeatsAreSeats DEF CouponSeats
    <3>5. IsFiniteSet(CouponSeats \cup Seats(o))
      BY <3>4, SeatsAreFinite
    <3>6. /\ Cardinality(Uses') <= Cardinality(CouponSeats \cup Seats(o))
          /\ Cardinality(Uses') \in Nat /\ Cardinality(CouponSeats \cup Seats(o)) \in Nat
      BY <3>3, <3>5, FS_Subset, FS_CardinalityType
    <3>7. Cardinality(CouponSeats \cup Seats(o)) <= CouponMax /\ CouponMax \in Nat
      BY <2>2, SeatsAssumption DEF CouponHasRoom
    <3>8. Cardinality(Uses') <= CouponMax
      BY <3>6, <3>7
    <3>. QED BY <3>8 DEF CouponWithinLimit, Users
  <2>3. CASE coupon[o] /\ ~CouponHasRoom(o)
    BY <1>2, <2>1, <2>3, NoNewUse DEF Insert
  <2>4. CASE ~coupon[o]
    <3>1. Users' \subseteq Users
      BY <2>1, <2>4 DEF Users
    <3>. QED BY <2>1, <3>1, UsesShrink
  <2>. QED BY <2>2, <2>3, <2>4
<1>3. ASSUME Abort(o) PROVE CouponWithinLimit'
  BY <1>3, NoNewUse DEF Abort, markOrderExpired, row
<1>4. CASE \/ IssueFree(o) \/ CreateFails(o) \/ StoreSession(o) \/ CheckoutCrash(o)
          \/ \E answered \in Answers : CreateSession(o, answered)
  BY <1>4, NoNewUse DEF IssueFree, CreateFails, StoreSession, CheckoutCrash, CreateSession, row
<1>. QED BY <1>1, <1>2, <1>3, <1>4 DEF CheckoutStep

\* However checkouts with the coupon race, and whenever staff switch it off
\* and on, its uses never exceed max_uses (insertOrderIfAvailable).
THEOREM CouponNeverOverused == Spec => []CouponWithinLimit
<1>1. Init => CouponWithinLimit
  <2>. SUFFICES ASSUME Init PROVE CouponWithinLimit
    OBVIOUS
  <2>1. UNION {Seats(x) : x \in Users} = {}
    BY DEF Init, Users
  <2>. QED BY <2>1, FS_EmptySet, SeatsAssumption DEF CouponWithinLimit, Users
<1>2. IInv /\ CouponWithinLimit /\ [Next]_vars => CouponWithinLimit'
  <2>. SUFFICES ASSUME IInv, CouponWithinLimit, [Next]_vars PROVE CouponWithinLimit'
    OBVIOUS
  <2>1. CASE UNCHANGED vars
    BY <2>1, NoNewUse DEF vars, history
  <2>2. ASSUME NEW o \in Orders, StripeStep(o) PROVE CouponWithinLimit'
    BY <2>2, NoNewUse DEF StripeStep, Pay, AsyncSucceeds, PayLater, AsyncFails, SessionExpires,
      Refund, DisputeOpens, DisputeCloses, db, row, history
  <2>3. ASSUME NEW j \in Jobs, SettleStep(j) PROVE CouponWithinLimit'
    <3>1. UNCHANGED <<cart, coupon>>
      BY <2>3 DEF SettleStep, Fetch, FetchFails, Decide, WriteReview, WritePaid, WriteExpired, Issue,
        quiet, history, row
    <3>2. \/ status' = status
          \/ markOrderNeedsReview(job[j].order, "mismatch")
          \/ markOrderPaid(job[j].order, job[j].late)
          \/ markOrderExpired(job[j].order)
      BY <2>3 DEF SettleStep, Fetch, FetchFails, Decide, WriteReview, WritePaid, WriteExpired, Issue
    <3>3. \A x \in Orders : status[x] = "absent" => status'[x] = "absent"
      BY <3>2 DEF markOrderNeedsReview, markOrderPaid, markOrderExpired, IInv, TypeOK
    <3>. QED BY <3>1, <3>3, NoNewUse
  <2>4. ASSUME NEW r \in Requests, RequestStep(r) PROVE CouponWithinLimit'
    <3>1. ASSUME NEW e \in events, ReceiveCharge(r, e) PROVE CouponWithinLimit'
      <4>1. UNCHANGED <<cart, coupon>>
        BY <3>1 DEF ReceiveCharge, quiet, history, row
      <4>2. \/ status' = status
            \/ markOrderNeedsReview(e[2], "dispute")
            \/ markOrderRefunded(e[2])
            \/ approveOrder(e[2], "dispute")
        BY <3>1 DEF ReceiveCharge
      <4>3. \A x \in Orders : status[x] = "absent" => status'[x] = "absent"
        BY <4>2 DEF markOrderNeedsReview, markOrderRefunded, approveOrder, IInv, TypeOK
      <4>. QED BY <4>1, <4>3, NoNewUse
    <3>2. ASSUME ApproveWrite(r) PROVE CouponWithinLimit'
      <4>1. UNCHANGED <<cart, coupon>> /\ approveOrder(job[r].order, "none")
        BY <3>2 DEF ApproveWrite, quiet, history, row
      <4>2. \A x \in Orders : status[x] = "absent" => status'[x] = "absent"
        BY <4>1 DEF approveOrder, IInv, TypeOK
      <4>. QED BY <4>1, <4>2, NoNewUse
    <3>3. ASSUME NEW e \in events, ReceiveSession(r, e) PROVE UNCHANGED <<cart, coupon, status>>
      BY <3>3 DEF ReceiveSession, quiet, history, row
    <3>4. ASSUME NEW o \in Orders, Confirm(r, o) \/ ApproveRead(r, o)
          PROVE  UNCHANGED <<cart, coupon, status>>
      BY <3>4 DEF Confirm, ApproveRead, quiet, history, row
    <3>5. ASSUME Crash(r) PROVE UNCHANGED <<cart, coupon, status>>
      BY <3>5 DEF Crash, quiet, history, row
    <3>. QED BY <2>4, <3>1, <3>2, <3>3, <3>4, <3>5, NoNewUse DEF RequestStep
  <2>5. ASSUME CronStep PROVE CouponWithinLimit'
    <3>1. ASSUME CronStart PROVE CouponWithinLimit'
      BY <3>1, NoNewUse DEF CronStart, quiet, history, row
    <3>2. ASSUME CronSweep PROVE UNCHANGED <<cart, coupon, status>>
      BY <3>2 DEF CronSweep, quiet, history, row
    <3>3. ASSUME NEW o \in Orders, CronTake(o) PROVE UNCHANGED <<cart, coupon, status>>
      BY <3>3 DEF CronTake, quiet, history, row
    <3>. QED BY <2>5, <3>1, <3>2, <3>3, NoNewUse DEF CronStep
  <2>6. ASSUME Tick \/ SetCouponActive \/ \E e \in events : LoseEvent(e) PROVE CouponWithinLimit'
    BY <2>6, NoNewUse DEF Tick, SetCouponActive, LoseEvent, db, row, history
  <2>. QED BY <2>1, <2>2, <2>3, <2>4, <2>5, <2>6, CheckoutUses DEF Next
<1>. QED BY <1>1, <1>2, AlwaysIInv, PTL DEF Spec

=============================================================================
