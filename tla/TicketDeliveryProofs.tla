------------------------ MODULE TicketDeliveryProofs ------------------------
(***************************************************************************)
(* Proofs about TicketDelivery, for every set of orders, mails and drains, *)
(* and for every lease, budget and delay within LeaseAssumption.           *)
(***************************************************************************)
EXTENDS TicketDelivery, FiniteSetTheorems, TLAPS

-----------------------------------------------------------------------------
(* The inductive invariant.                                                 *)

\* The latest moment, counted from its start, at which a drain begins a pause.
Slack == AtLeast(3 * StepTime, Budget - 1 + SendTime)

\* How old a drain can be, given where it stands and how long it has stood there.
Clock(d) ==
  /\ pc[d] # "idle" => spent[d] <= TimeOut(d)
  /\ pc[d] = "allowance" => since[d] <= spent[d]
  /\ pc[d] = "claim" => since[d] <= StepTime + spent[d] /\ spent[d] <= since[d]
  /\ pc[d] \in {"orders", "tickets"} => since[d] <= 2 * StepTime + spent[d]
  /\ pc[d] = "pause" => since[d] <= Slack + spent[d]
  /\ pc[d] = "send" => since[d] <= Budget - 1 + spent[d]
  /\ pc[d] = "apply" => since[d] <= Slack + StepTime + spent[d]

\* What a drain has in hand is pending, and leased for longer than it lives.
Hand(d) ==
  /\ pc[d] \in {"idle", "allowance", "claim"} => held[d] = {} /\ updates[d] = {}
  /\ pc[d] = "send" => at[d] \in held[d]
  /\ \A m \in InHand(d) : status[m] = "pending" /\ wait[m] >= Lease - since[d]

Own(u) == IF u.own THEN 1 ELSE 0
\* n attempts and status s are failures of the mail's own, `more` of them yet to be
\* recorded, or the order is refunded or missing.
Excused(m, n, s, more) ==
  \/ order[OrderOf[m]] \in Gone
  \/ n <= faulted[m] + more /\ (s = "failed" => n = MaxAttempts)

Reason(d) ==
  /\ \A o \in Orders : seen[d][o] \in Gone \/ o \in voided[d] => order[o] \in Gone
  /\ \A m \in held[d] : Excused(m, tries[d][m], "pending", 0)
  /\ \A u \in updates[d] : Excused(u.mail, u.attempts, u.status, Own(u))

DrainInv == \A d \in Drains : Clock(d) /\ Hand(d) /\ Reason(d)
RowInv == \A m \in Mails : Excused(m, attempts[m], status[m], 0)

IInv == DeliveryTypeOK /\ DrainInv /\ RowInv /\ OneClaim

-----------------------------------------------------------------------------
(* Arithmetic of the lease.                                                 *)

LEMMA SlackFits ==
  /\ Slack \in Nat /\ 3 * StepTime <= Slack /\ Budget - 1 + SendTime <= Slack
  /\ Slack + 2 * StepTime < Lease
BY LeaseAssumption DEF Slack, AtLeast

\* While a drain has rows, its lease has not run out.
LEMMA Alive ==
  ASSUME NEW d \in Drains, DeliveryTypeOK, Clock(d), Hand(d), NEW m \in InHand(d)
  PROVE  wait[m] > 0 /\ status[m] = "pending" /\ m \in Mails
<1>1. pc[d] \in {"orders", "tickets", "pause", "send", "apply"}
  BY DEF Hand, InHand, DeliveryTypeOK
<1>2. m \in Mails BY DEF InHand, DeliveryTypeOK, Outcomes
<1>3. since[d] < Lease
  BY <1>1, SlackFits, LeaseAssumption DEF Clock, TimeOut, DeliveryTypeOK
<1>4. wait[m] \in Int /\ since[d] \in Int /\ wait[m] >= Lease - since[d]
  BY <1>2 DEF Hand, DeliveryTypeOK
<1> QED BY <1>2, <1>3, <1>4, LeaseAssumption DEF Hand

-----------------------------------------------------------------------------
(* A step of one drain that leaves the tables and the other drains alone.   *)

Alone(d) ==
  /\ UNCHANGED <<order, cap, table>>
  /\ \A m \in Mails : faulted[m] <= faulted'[m]
  /\ \A e \in Drains \ {d} :
       /\ pc'[e] = pc[e] /\ since'[e] = since[e] /\ spent'[e] = spent[e]
       /\ held'[e] = held[e] /\ tries'[e] = tries[e] /\ seen'[e] = seen[e]
       /\ voided'[e] = voided[e] /\ at'[e] = at[e] /\ updates'[e] = updates[e]

\* An excuse stays one: failures are not taken back, nor are refunds or deletions.
LEMMA ExcuseStays ==
  ASSUME DeliveryTypeOK, DeliveryTypeOK',
         \A o \in Orders : order[o] \in Gone => order'[o] \in Gone,
         \A m \in Mails : faulted[m] <= faulted'[m],
         NEW m \in Mails, NEW n \in 0..MaxAttempts, NEW s, NEW more \in 0..1, Excused(m, n, s, more)
  PROVE  Excused(m, n, s, more)'
<1>1. OrderOf[m] \in Orders BY MailsAssumption
<1>2. faulted[m] \in 0..MaxAttempts /\ faulted'[m] \in 0..MaxAttempts BY DEF DeliveryTypeOK
<1>3. MaxAttempts \in Nat BY CountsAssumption
<1>4. faulted[m] <= faulted'[m] OBVIOUS
<1>5. n <= faulted[m] + more => n <= faulted'[m] + more BY <1>2, <1>3, <1>4
<1> QED BY <1>1, <1>5 DEF Excused

LEMMA AloneKeeps ==
  ASSUME IInv, DeliveryTypeOK', NEW d \in Drains, Alone(d),
         Clock(d)', Hand(d)', Reason(d)', InHand(d)' \subseteq InHand(d)
  PROVE  IInv'
<1>1. ASSUME NEW e \in Drains, e # d PROVE Clock(e)' /\ Hand(e)' /\ Reason(e)' /\ InHand(e)' = InHand(e)
  <2>1. Clock(e)' BY <1>1 DEF Alone, IInv, DrainInv, Clock, TimeOut
  <2>2. InHand(e)' = InHand(e) BY <1>1 DEF Alone, InHand
  <2>3. Hand(e)' BY <1>1, <2>2 DEF Alone, IInv, DrainInv, Hand, table
  <2>4. \A u \in updates[e] : u.mail \in Mails /\ u.attempts \in 0..MaxAttempts /\ Own(u) \in 0..1
    BY DEF IInv, DeliveryTypeOK, Outcomes, Own
  <2>5. \A m \in held[e] : m \in Mails /\ tries[e][m] \in 0..MaxAttempts
    BY DEF IInv, DeliveryTypeOK
  <2>6. ASSUME NEW m \in Mails, NEW n \in 0..MaxAttempts, NEW s, NEW more \in 0..1, Excused(m, n, s, more)
        PROVE  Excused(m, n, s, more)'
    BY <2>6, ExcuseStays DEF Alone, IInv
  <2>7. \A m \in held'[e] : Excused(m, tries[e][m], "pending", 0)'
    BY <1>1, <2>5, <2>6 DEF Alone, IInv, DrainInv, Reason
  <2>8. \A u \in updates'[e] : Excused(u.mail, u.attempts, u.status, Own(u))'
    BY <1>1, <2>4, <2>6 DEF Alone, IInv, DrainInv, Reason
  <2>9. Reason(e)'
    BY <1>1, <2>7, <2>8 DEF Alone, IInv, DrainInv, Reason
  <2> QED BY <2>1, <2>2, <2>3, <2>9
<1>2. DrainInv' BY <1>1 DEF DrainInv
<1>3. RowInv'
  <2> SUFFICES ASSUME NEW m \in Mails PROVE Excused(m, attempts[m], status[m], 0)'
    BY DEF RowInv
  <2>1. attempts[m] \in 0..MaxAttempts /\ Excused(m, attempts[m], status[m], 0)
    BY DEF IInv, DeliveryTypeOK, RowInv
  <2>2. order'[OrderOf[m]] = order[OrderOf[m]] /\ attempts'[m] = attempts[m] /\ status'[m] = status[m]
    BY DEF Alone, table
  <2>3. faulted[m] <= faulted'[m] /\ faulted[m] \in 0..MaxAttempts /\ faulted'[m] \in 0..MaxAttempts
    BY DEF Alone, IInv, DeliveryTypeOK
  <2> QED BY <2>1, <2>2, <2>3, CountsAssumption DEF Excused
<1>4. OneClaim' BY <1>1 DEF IInv, OneClaim
<1> QED BY <1>2, <1>3, <1>4 DEF IInv

LEMMA InitIInv == Init => IInv
<1> SUFFICES ASSUME Init PROVE IInv OBVIOUS
<1>1. DeliveryTypeOK
  BY CountsAssumption DEF Init, DeliveryTypeOK, OrderStates, RowStates
<1>2. DrainInv BY DEF Init, DrainInv, Clock, Hand, InHand, Reason
<1>3. RowInv BY CountsAssumption DEF Init, RowInv, Excused
<1>4. OneClaim BY DEF Init, OneClaim, InHand
<1> QED BY <1>1, <1>2, <1>3, <1>4 DEF IInv

-----------------------------------------------------------------------------
(* The orders, and the day.                                                 *)

\* No drain moves, and no row that exists changes.
LEMMA OutsideKeeps ==
  ASSUME IInv, DeliveryTypeOK', UNCHANGED <<faulted, drain>>,
         \A o \in Orders : order[o] \in Gone => order'[o] \in Gone,
         \A m \in Mails : attempts'[m] = attempts[m]
           /\ (status[m] # "none" => status'[m] = status[m] /\ wait'[m] = wait[m])
           /\ (status[m] = "none" => status'[m] # "failed")
  PROVE  IInv'
<1>1. ASSUME NEW m \in Mails, NEW n \in 0..MaxAttempts, NEW st, NEW more \in 0..1, Excused(m, n, st, more)
      PROVE  Excused(m, n, st, more)'
  <2>1. \A x \in Mails : faulted[x] <= faulted'[x] BY CountsAssumption DEF IInv, DeliveryTypeOK
  <2> QED BY <1>1, <2>1, ExcuseStays DEF IInv
<1>2. ASSUME NEW d \in Drains PROVE Clock(d)' /\ Hand(d)' /\ Reason(d)'
  <2>1. Clock(d)' BY DEF IInv, DrainInv, drain, Clock, TimeOut
  <2>2. InHand(d)' = InHand(d) BY DEF drain, InHand
  <2>3. InHand(d) \subseteq Mails BY DEF InHand, IInv, DeliveryTypeOK, Outcomes
  <2>4. Hand(d)' BY <2>2, <2>3 DEF IInv, DrainInv, drain, Hand
  <2>5. \A u \in updates[d] : u.mail \in Mails /\ u.attempts \in 0..MaxAttempts /\ Own(u) \in 0..1
    BY DEF IInv, DeliveryTypeOK, Outcomes, Own
  <2>6. \A m \in held[d] : m \in Mails /\ tries[d][m] \in 0..MaxAttempts
    BY DEF IInv, DeliveryTypeOK
  <2>7. \A m \in held'[d] : Excused(m, tries[d][m], "pending", 0)'
    BY <1>1, <2>6 DEF IInv, DrainInv, Reason, drain
  <2>8. \A u \in updates'[d] : Excused(u.mail, u.attempts, u.status, Own(u))'
    BY <1>1, <2>5 DEF IInv, DrainInv, Reason, drain
  <2>9. Reason(d)' BY <2>7, <2>8 DEF IInv, DrainInv, Reason, drain
  <2> QED BY <2>1, <2>4, <2>9
<1>3. RowInv'
  <2> SUFFICES ASSUME NEW m \in Mails PROVE Excused(m, attempts[m], status[m], 0)'
    BY DEF RowInv
  <2>1. /\ faulted'[m] = faulted[m] /\ attempts'[m] = attempts[m] /\ attempts[m] \in 0..MaxAttempts
        /\ order[OrderOf[m]] \in Gone => order'[OrderOf[m]] \in Gone
    BY MailsAssumption DEF drain, IInv, DeliveryTypeOK
  <2>2. Excused(m, attempts[m], status[m], 0) BY DEF IInv, RowInv
  <2> QED BY <2>1, <2>2 DEF Excused
<1>4. OneClaim' BY DEF IInv, OneClaim, drain, InHand
<1> QED BY <1>2, <1>3, <1>4 DEF IInv, DrainInv

LEMMA OrderKeeps ==
  ASSUME IInv, NEW o \in Orders, Pay(o) \/ Review(o) \/ Approve(o) \/ Refund(o) \/ Vanish(o)
  PROVE  IInv'
<1>1. /\ UNCHANGED <<cap, table, old, faulted, drain>>
      /\ \E s \in OrderStates : /\ order[o] \in Gone => s \in Gone
                              /\ order' = [order EXCEPT ![o] = s]
  BY DEF Pay, Review, Approve, Refund, Vanish, Becomes, OrderStates, Gone
<1>2. DeliveryTypeOK' BY <1>1 DEF IInv, DeliveryTypeOK, table, drain
<1>3. \A x \in Orders : order[x] \in Gone => order'[x] \in Gone
  BY <1>1 DEF IInv, DeliveryTypeOK
<1> QED BY <1>1, <1>2, <1>3, OutsideKeeps DEF table

LEMMA FulfilKeeps == ASSUME IInv, NEW o \in Orders, Fulfil(o) PROVE IInv'
<1>1. DeliveryTypeOK' BY DEF Fulfil, IInv, DeliveryTypeOK, RowStates, drain
<1> QED BY <1>1, OutsideKeeps DEF Fulfil

LEMMA MidnightKeeps == ASSUME IInv, Midnight PROVE IInv'
<1>1. DeliveryTypeOK' BY DEF Midnight, IInv, DeliveryTypeOK, table, drain
<1> QED BY <1>1, OutsideKeeps DEF Midnight, table

-----------------------------------------------------------------------------
(* The drains.                                                              *)

LEMMA StartKeeps ==
  ASSUME IInv, NEW d \in Drains, NEW o \in Orders \cup {None}, Start(d, o)
  PROVE  IInv'
<1>1. DeliveryTypeOK' BY DEF Start, Goto, IInv, DeliveryTypeOK, table
<1>2. Alone(d) BY CountsAssumption DEF Start, Goto, IInv, DeliveryTypeOK, Alone
<1>3. Clock(d)' BY LeaseAssumption DEF Start, Goto, IInv, DeliveryTypeOK, Clock, TimeOut
<1>4. InHand(d)' = InHand(d) /\ InHand(d) = {}
  BY DEF Start, IInv, DrainInv, Hand, InHand
<1>5. Hand(d)' BY <1>4 DEF Start, Goto, IInv, DrainInv, Hand, DeliveryTypeOK
<1>6. Reason(d)' BY <1>4 DEF Start, IInv, DrainInv, Hand, Reason
<1> QED BY <1>1, <1>2, <1>3, <1>4, <1>5, <1>6, AloneKeeps

\* However a drain ends without writing, nothing else notices.
LEMMA ForgottenKeeps ==
  ASSUME IInv, NEW d \in Drains, Forgotten(d), UNCHANGED <<order, cap, table, old, faulted>>
  PROVE  IInv'
<1>1. DeliveryTypeOK'
  BY CountsAssumption DEF Forgotten, IInv, DeliveryTypeOK, OrderStates, table
<1>2. Alone(d) BY CountsAssumption DEF Forgotten, IInv, DeliveryTypeOK, Alone
<1>3. pc'[d] = "idle" /\ held'[d] = {} /\ updates'[d] = {} /\ voided'[d] = {}
      /\ seen'[d] = [o \in Orders |-> "unpaid"]
  BY DEF Forgotten, IInv, DeliveryTypeOK
<1>4. Clock(d)' BY <1>3 DEF Clock
<1>5. InHand(d)' = {} BY <1>3 DEF InHand
<1>6. Hand(d)' BY <1>3, <1>5 DEF Hand
<1>7. Reason(d)' BY <1>3 DEF Reason, Gone
<1> QED BY <1>1, <1>2, <1>4, <1>5, <1>6, <1>7, AloneKeeps

LEMMA AllowanceKeeps == ASSUME IInv, NEW d \in Drains, Allowance(d) PROVE IInv'
<1>1. CASE Room = 0 BY <1>1, ForgottenKeeps DEF Allowance
<1>2. CASE Room # 0
  <2>1. /\ pc[d] = "allowance" /\ Goto(d, "claim")
        /\ UNCHANGED <<order, cap, table, old, faulted, since, scope, held, tries, seen, voided, at, updates>>
        /\ limit' = [limit EXCEPT ![d] = Least(IF d = Alarm THEN Batch ELSE SoonBatch, Room)]
    BY <1>2 DEF Allowance
  <2>2. Room \in Nat
    <3>1. SentToday \in SUBSET Mails /\ IsFiniteSet(SentToday)
      BY MailsAssumption, FS_Subset DEF SentToday
    <3>2. Cardinality(SentToday) \in Nat BY <3>1, FS_CardinalityType
    <3> QED BY <3>2, CountsAssumption DEF Room, AtLeast, IInv, DeliveryTypeOK
  <2>3. limit' \in [Drains -> Nat]
    BY <2>1, <2>2, CountsAssumption DEF Least, IInv, DeliveryTypeOK
  <2>4. DeliveryTypeOK' BY <2>1, <2>3 DEF Goto, IInv, DeliveryTypeOK, table
  <2>5. Alone(d) BY <2>1, CountsAssumption DEF Goto, IInv, DeliveryTypeOK, Alone
  <2>6. Clock(d)'
    <3>0. since[d] \in Nat /\ spent[d] \in Nat /\ Clock(d) BY DEF IInv, DrainInv, DeliveryTypeOK
    <3>1. since[d] \in Nat /\ since[d] <= StepTime
      BY <2>1, <3>0, LeaseAssumption DEF Clock, TimeOut
    <3>2. pc'[d] = "claim" /\ spent'[d] = 0 /\ since'[d] = since[d]
      BY <2>1 DEF Goto, IInv, DeliveryTypeOK
    <3> QED BY <3>1, <3>2, LeaseAssumption DEF Clock, TimeOut
  <2>7. InHand(d)' = InHand(d) BY <2>1 DEF InHand
  <2>8. Hand(d)' BY <2>1, <2>7 DEF Goto, IInv, DrainInv, DeliveryTypeOK, Hand, table
  <2>9. Reason(d)' BY <2>1 DEF IInv, DrainInv, Reason, Excused
  <2> QED BY <2>4, <2>5, <2>6, <2>7, <2>8, <2>9, AloneKeeps
<1> QED BY <1>1, <1>2

LEMMA DrainFacts ==
  ASSUME IInv, NEW d \in Drains
  PROVE  /\ since[d] \in Nat /\ spent[d] \in Nat
         /\ Clock(d) /\ Hand(d) /\ Reason(d)
         /\ InHand(d) \subseteq Mails /\ held[d] \subseteq InHand(d)
BY DEF IInv, DrainInv, DeliveryTypeOK, InHand, Outcomes

\* Rows in hand are leased, so a claim takes none of them.
LEMMA ClaimedIsFree ==
  ASSUME IInv, NEW d \in Drains, NEW e \in Drains, NEW m \in InHand(e)
  PROVE  m \notin Claimable(d)
<1>1. wait[m] > 0 /\ m \in Mails /\ wait[m] \in Int
  BY DrainFacts, Alive DEF IInv, DeliveryTypeOK
<1>2. since[d] \in Nat BY DrainFacts
<1> QED BY <1>1, <1>2 DEF Claimable

LEMMA ClaimKeeps == ASSUME IInv, NEW d \in Drains, Claim(d) PROVE IInv'
<1>1. PICK C \in SUBSET Claimable(d) :
        /\ wait' = [m \in Mails |-> IF m \in C THEN Lease - spent[d] ELSE wait[m]]
        /\ IF C = {} THEN Forgotten(d)
           ELSE /\ Goto(d, "orders")
                /\ held' = [held EXCEPT ![d] = C]
                /\ tries' = [tries EXCEPT ![d] = [m \in Mails |-> IF m \in C THEN attempts[m] ELSE 0]]
                /\ scope' = [scope EXCEPT ![d] = None] /\ limit' = [limit EXCEPT ![d] = 0]
                /\ UNCHANGED <<since, seen, voided, at, updates>>
  BY DEF Claim
<1>2. pc[d] = "claim" /\ UNCHANGED <<order, cap, status, attempts, old, faulted>>
  BY DEF Claim
<1>3. CASE C = {}
  <2>1. wait' = wait BY <1>1, <1>3 DEF IInv, DeliveryTypeOK
  <2> QED BY <1>1, <1>2, <1>3, <2>1, ForgottenKeeps DEF table
<1>4. CASE C # {}
  <2>1. C \subseteq Mails /\ \A m \in C : status[m] = "pending" BY DEF Claimable
  <2>2. since[d] \in Nat /\ spent[d] \in Nat /\ spent[d] <= since[d] /\ since[d] <= 2 * StepTime
    BY <1>2, DrainFacts, LeaseAssumption DEF Clock, TimeOut
  <2>3. DeliveryTypeOK'
    <3>1. wait' \in [Mails -> Int] BY <1>1, <2>2, LeaseAssumption DEF IInv, DeliveryTypeOK
    <3>2. tries' \in [Drains -> [Mails -> 0..MaxAttempts]]
      <4> DEFINE t == [m \in Mails |-> IF m \in C THEN attempts[m] ELSE 0]
      <4>1. t \in [Mails -> 0..MaxAttempts] BY CountsAssumption DEF IInv, DeliveryTypeOK
      <4>2. tries' = [tries EXCEPT ![d] = t] BY <1>1, <1>4
      <4> HIDE DEF t
      <4> QED BY <4>1, <4>2 DEF IInv, DeliveryTypeOK
    <3>a. held' = [held EXCEPT ![d] = C] /\ limit' = [limit EXCEPT ![d] = 0]
          /\ scope' = [scope EXCEPT ![d] = None]
          /\ pc' = [pc EXCEPT ![d] = "orders"] /\ spent' = [spent EXCEPT ![d] = 0]
      BY <1>1, <1>4 DEF Goto
    <3>3. held' \in [Drains -> SUBSET Mails] BY <3>a, <2>1 DEF IInv, DeliveryTypeOK
    <3>4. limit' \in [Drains -> Nat] BY <3>a DEF IInv, DeliveryTypeOK
    <3>5. scope' \in [Drains -> Orders \cup {None}] BY <3>a DEF IInv, DeliveryTypeOK
    <3>6. /\ pc' \in [Drains -> {"idle", "allowance", "claim", "orders", "tickets", "pause", "send", "apply"}]
          /\ spent' \in [Drains -> Nat]
      BY <3>a DEF IInv, DeliveryTypeOK
    <3>7. UNCHANGED <<since, seen, voided, at, updates>> BY <1>1, <1>4
    <3> QED BY <1>2, <3>1, <3>2, <3>3, <3>4, <3>5, <3>6, <3>7 DEF IInv, DeliveryTypeOK
  <2>4. /\ pc'[d] = "orders" /\ spent'[d] = 0 /\ since'[d] = since[d] /\ held'[d] = C
        /\ updates'[d] = {} /\ seen'[d] = seen[d] /\ voided'[d] = voided[d]
        /\ \A m \in C : tries'[d][m] = attempts[m]
    BY <1>1, <1>2, <1>4, <2>1, DrainFacts DEF Goto, Hand, IInv, DeliveryTypeOK
  <2>5. ASSUME NEW e \in Drains, e # d
        PROVE  /\ pc'[e] = pc[e] /\ since'[e] = since[e] /\ spent'[e] = spent[e]
               /\ held'[e] = held[e] /\ tries'[e] = tries[e] /\ seen'[e] = seen[e]
               /\ voided'[e] = voided[e] /\ at'[e] = at[e] /\ updates'[e] = updates[e]
               /\ InHand(e)' = InHand(e)
    BY <1>1, <1>4, <2>5 DEF Goto, IInv, DeliveryTypeOK, InHand
  <2>6. InHand(d)' = C BY <2>4 DEF InHand
  <2>7. ASSUME NEW e \in Drains, NEW m \in InHand(e) PROVE m \notin C /\ m \in Mails
    BY ClaimedIsFree, DrainFacts
  <2>8. Clock(d)' BY <2>2, <2>4, LeaseAssumption DEF Clock, TimeOut
  <2>9. Hand(d)'
    BY <1>1, <1>2, <2>1, <2>2, <2>4, <2>6, LeaseAssumption DEF Hand
  <2>10. Reason(d)'
    BY <1>2, <2>1, <2>4, DrainFacts DEF Reason, IInv, RowInv, Excused
  <2>11. ASSUME NEW e \in Drains, e # d PROVE Clock(e)' /\ Hand(e)' /\ Reason(e)'
    <3>1. Clock(e)' BY <2>5, <2>11, DrainFacts DEF Clock, TimeOut
    <3>2. Hand(e)' BY <1>1, <1>2, <2>5, <2>7, <2>11, DrainFacts DEF Hand
    <3>3. Reason(e)' BY <1>2, <2>5, <2>11, DrainFacts DEF Reason, Excused
    <3> QED BY <3>1, <3>2, <3>3
  <2>12. DrainInv' BY <2>8, <2>9, <2>10, <2>11 DEF DrainInv
  <2>13. OneClaim' BY <2>5, <2>6, <2>7 DEF IInv, OneClaim
  <2>14. RowInv' BY <1>2 DEF IInv, RowInv, Excused
  <2> QED BY <2>3, <2>12, <2>13, <2>14 DEF IInv
<1> QED BY <1>3, <1>4

LEMMA ReadKeeps ==
  ASSUME IInv, NEW d \in Drains, ReadOrders(d) \/ ReadTickets(d) PROVE IInv'
<1>0. UNCHANGED <<order, cap, table, old, faulted, since, scope, limit, held, tries, at, updates>>
  BY DEF ReadOrders, ReadTickets
<1>1. DeliveryTypeOK'
  <2>1. /\ pc' \in [Drains -> {"idle", "allowance", "claim", "orders", "tickets", "pause", "send", "apply"}]
        /\ spent' \in [Drains -> Nat]
    <3>1. \/ pc' = [pc EXCEPT ![d] = "tickets"] /\ spent' = spent
          \/ pc' = [pc EXCEPT ![d] = "pause"] /\ spent' = [spent EXCEPT ![d] = 0]
      BY DEF ReadOrders, ReadTickets, Goto
    <3>2. CASE pc' = [pc EXCEPT ![d] = "tickets"] /\ spent' = spent
      BY <3>2 DEF IInv, DeliveryTypeOK
    <3>3. CASE pc' = [pc EXCEPT ![d] = "pause"] /\ spent' = [spent EXCEPT ![d] = 0]
      BY <3>3 DEF IInv, DeliveryTypeOK
    <3> QED BY <3>1, <3>2, <3>3
  <2>2. seen' \in [Drains -> [Orders -> OrderStates]]
    BY DEF ReadOrders, ReadTickets, IInv, DeliveryTypeOK
  <2>3. voided' \in [Drains -> SUBSET Orders]
    BY DEF ReadOrders, ReadTickets, IInv, DeliveryTypeOK
  <2> QED BY <1>0, <2>1, <2>2, <2>3 DEF IInv, DeliveryTypeOK, table
<1>2. Alone(d)
  BY <1>0, CountsAssumption DEF ReadOrders, ReadTickets, Goto, IInv, DeliveryTypeOK, Alone
<1>3. InHand(d)' = InHand(d) BY <1>0 DEF InHand
<1>4. Hand(d)'
  BY <1>0, <1>3, DrainFacts DEF ReadOrders, ReadTickets, Goto, IInv, DeliveryTypeOK, Hand, table
<1>5. /\ seen'[d] \in {seen[d], order} /\ voided'[d] \in {voided[d], {o \in Orders : order[o] \in Gone}}
  BY DEF ReadOrders, ReadTickets, IInv, DeliveryTypeOK
<1>6. Reason(d)' BY <1>0, <1>5, DrainFacts DEF Reason, Excused
<1>7. Clock(d)'
  <2>1. CASE ReadOrders(d)
    BY <2>1, DrainFacts DEF ReadOrders, IInv, DeliveryTypeOK, Clock, TimeOut
  <2>2. CASE ReadTickets(d)
    <3>1. since[d] <= Slack /\ since[d] \in Nat
      BY <2>2, DrainFacts, SlackFits, LeaseAssumption DEF ReadTickets, Clock, TimeOut
    <3>2. pc'[d] = "pause" /\ spent'[d] = 0 /\ since'[d] = since[d]
      BY <2>2 DEF ReadTickets, Goto, IInv, DeliveryTypeOK
    <3> QED BY <3>1, <3>2, SlackFits, LeaseAssumption DEF Clock, TimeOut
  <2> QED BY <2>1, <2>2
<1> QED BY <1>1, <1>2, <1>3, <1>4, <1>6, <1>7, AloneKeeps

Places == {"idle", "allowance", "claim", "orders", "tickets", "pause", "send", "apply"}

\* The end of a row or of a batch: what was in hand becomes outcomes.
LEMMA HandledKeeps ==
  ASSUME IInv, NEW d \in Drains, pc[d] \in {"pause", "send"},
         NEW H \in SUBSET held[d], NEW U \in SUBSET Outcomes, NEW p \in {"pause", "apply"},
         \A u \in U : u.mail \in held[d] /\ Excused(u.mail, u.attempts, u.status, Own(u))',
         held' = [held EXCEPT ![d] = H],
         updates' = [updates EXCEPT ![d] = updates[d] \cup U],
         Goto(d, p), since[d] <= Slack + StepTime, p = "pause" => since[d] <= Slack,
         UNCHANGED <<order, cap, table, faulted, since, scope, limit, tries, seen, voided>>,
         at' = [at EXCEPT ![d] = None] \/ at' = at, old' \subseteq Mails
  PROVE  IInv'
<1>1. DeliveryTypeOK'
  <2>1. pc' \in [Drains -> Places]
    BY DEF Goto, IInv, DeliveryTypeOK, Places
  <2>2. spent' \in [Drains -> Nat] BY DEF Goto, IInv, DeliveryTypeOK
  <2>3. held' \in [Drains -> SUBSET Mails] BY DEF IInv, DeliveryTypeOK
  <2>4. at' \in [Drains -> Mails \cup {None}]
    <3>1. CASE at' = at BY <3>1 DEF IInv, DeliveryTypeOK
    <3>2. CASE at' = [at EXCEPT ![d] = None] BY <3>2 DEF IInv, DeliveryTypeOK
    <3> QED BY <3>1, <3>2
  <2>5. updates' \in [Drains -> SUBSET Outcomes]
    BY DEF IInv, DeliveryTypeOK
  <2> QED BY <2>1, <2>2, <2>3, <2>4, <2>5 DEF IInv, DeliveryTypeOK, table, Places
<1>2. Alone(d)
  <2>1. ASSUME NEW e \in Drains \ {d}
        PROVE  /\ pc'[e] = pc[e] /\ spent'[e] = spent[e] /\ held'[e] = held[e]
               /\ at'[e] = at[e] /\ updates'[e] = updates[e]
    BY DEF Goto, IInv, DeliveryTypeOK
  <2>2. \A m \in Mails : faulted[m] <= faulted'[m] BY CountsAssumption DEF IInv, DeliveryTypeOK
  <2> QED BY <2>1, <2>2 DEF Alone
<1>3. pc'[d] = p /\ spent'[d] = 0 /\ since'[d] = since[d] /\ held'[d] = H
      /\ updates'[d] = updates[d] \cup U
  BY DEF Goto, IInv, DeliveryTypeOK
<1>4. Clock(d)' BY <1>3, DrainFacts, SlackFits, LeaseAssumption DEF Clock, TimeOut
<1>5. InHand(d)' \subseteq InHand(d) BY <1>3 DEF InHand
<1>6. Hand(d)' BY <1>3, <1>5, DrainFacts DEF Hand, table
<1>7. Reason(d)'
  <2>1. \A u \in updates[d] : u.mail \in Mails /\ u.attempts \in 0..MaxAttempts /\ Own(u) \in 0..1
    BY DEF IInv, DeliveryTypeOK, Outcomes, Own
  <2>2. \A m \in H : m \in Mails /\ tries[d][m] \in 0..MaxAttempts
    BY DEF IInv, DeliveryTypeOK
  <2>3. ASSUME NEW m \in Mails, NEW n \in 0..MaxAttempts, NEW s, NEW more \in 0..1, Excused(m, n, s, more)
        PROVE  Excused(m, n, s, more)'
    BY <1>1, <1>2, <2>3, ExcuseStays DEF IInv, Alone
  <2>4. \A u \in updates[d] : Excused(u.mail, u.attempts, u.status, Own(u))'
    BY <2>1, <2>3, DrainFacts DEF Reason
  <2>5. \A m \in H : Excused(m, tries[d][m], "pending", 0)'
    BY <2>2, <2>3, DrainFacts DEF Reason
  <2>6. \A m \in held'[d] : Excused(m, tries[d][m], "pending", 0)'
    BY <1>3, <2>5
  <2>7. \A u \in updates'[d] : Excused(u.mail, u.attempts, u.status, Own(u))'
    BY <1>3, <2>4
  <2>8. \A o \in Orders : seen'[d][o] \in Gone \/ o \in voided'[d] => order'[o] \in Gone
    BY DrainFacts DEF Reason
  <2> QED BY <2>6, <2>7, <2>8 DEF Reason
<1> QED BY <1>1, <1>2, <1>4, <1>5, <1>6, <1>7, AloneKeeps

\* How old a drain is when it has finished a row in time.
LEMMA InTime ==
  ASSUME IInv, NEW d \in Drains, (pc[d] = "pause" /\ ~PastDeadline(d)) \/ pc[d] = "send"
  PROVE  since[d] <= Slack /\ since[d] <= Slack + StepTime
<1>1. CASE pc[d] = "pause" /\ ~PastDeadline(d)
  BY <1>1, DrainFacts, SlackFits, LeaseAssumption DEF PastDeadline
<1>2. CASE pc[d] = "send"
  BY <1>2, DrainFacts, SlackFits, LeaseAssumption DEF Clock, TimeOut
<1> QED BY <1>1, <1>2

LEMMA OutcomeKeeps ==
  ASSUME IInv, NEW d \in Drains, NEW m \in held[d],
         (pc[d] = "pause" /\ ~PastDeadline(d)) \/ pc[d] = "send",
         NEW s \in RowStates, NEW a \in 0..MaxAttempts, NEW w \in Int, NEW own \in BOOLEAN,
         Outcome(d, m, s, a, w, own), Excused(m, a, s, IF own THEN 1 ELSE 0)',
         UNCHANGED <<order, cap, table, faulted, since, scope, limit, tries, seen, voided>>,
         at' = [at EXCEPT ![d] = None] \/ at' = at, old' \subseteq Mails
  PROVE  IInv'
<1> DEFINE u == [mail |-> m, status |-> s, attempts |-> a, wait |-> w, own |-> own]
<1>1. m \in Mails BY DrainFacts
<1>2. u \in Outcomes BY <1>1 DEF Outcomes
<1>3. u.mail \in held[d] /\ Excused(u.mail, u.attempts, u.status, Own(u))' BY DEF Own
<1>4. updates' = [updates EXCEPT ![d] = updates[d] \cup {u}] BY DEF Outcome
<1> HIDE DEF u
<1>5. held' = [held EXCEPT ![d] = held[d] \ {m}] BY DEF Outcome
<1>6. PICK p \in {"pause", "apply"} : Goto(d, p) BY DEF Outcome
<1>7. \A x \in {u} : x.mail \in held[d] /\ Excused(x.mail, x.attempts, x.status, Own(x))' BY <1>3
<1>8. {u} \in SUBSET Outcomes /\ held[d] \ {m} \in SUBSET held[d] BY <1>2
<1> QED BY <1>4, <1>5, <1>6, <1>7, <1>8, InTime, HandledKeeps

LEMMA PutBackKeeps ==
  ASSUME IInv, NEW d \in Drains, pc[d] \in {"pause", "send"}, since[d] <= Slack + StepTime,
         NEW rest \in SUBSET held[d], NEW given \in SUBSET Outcomes, PutBack(d, rest, given),
         \A u \in given : u.mail \in held[d] /\ Excused(u.mail, u.attempts, u.status, Own(u)),
         UNCHANGED <<order, cap, table, old, faulted, since, scope, limit, tries, seen, voided>>,
         at' = [at EXCEPT ![d] = None] \/ at' = at
  PROVE  IInv'
<1> DEFINE back == {[mail |-> n, status |-> "pending", attempts |-> tries[d][n], wait |-> 0, own |-> FALSE] : n \in rest}
<1> DEFINE U == given \cup back
<1>1. rest \subseteq Mails /\ \A n \in rest : tries[d][n] \in 0..MaxAttempts /\ Excused(n, tries[d][n], "pending", 0)
  BY DrainFacts DEF Reason, IInv, DeliveryTypeOK
<1>2. back \subseteq Outcomes
  <2>1. ASSUME NEW n \in rest
        PROVE  [mail |-> n, status |-> "pending", attempts |-> tries[d][n], wait |-> 0, own |-> FALSE] \in Outcomes
    BY <1>1 DEF Outcomes, RowStates
  <2> QED BY <2>1
<1>3. \A u \in back : u.mail \in held[d] /\ Excused(u.mail, u.attempts, u.status, Own(u))
  BY <1>1 DEF Own
<1>4. updates' = [updates EXCEPT ![d] = updates[d] \cup U]
  <2>1. updates' = [updates EXCEPT ![d] = @ \cup given \cup back] BY DEF PutBack
  <2>2. updates[d] \cup given \cup back = updates[d] \cup U OBVIOUS
  <2> HIDE DEF back, U
  <2> QED BY <2>1, <2>2 DEF IInv, DeliveryTypeOK
<1>5. \A u \in U : u.mail \in held[d] /\ Excused(u.mail, u.attempts, u.status, Own(u)) BY <1>3
<1>6. U \in SUBSET Outcomes BY <1>2
<1> HIDE DEF back, U
<1>7. \A u \in U : u.mail \in held[d] /\ Excused(u.mail, u.attempts, u.status, Own(u))'
  BY <1>5 DEF Excused
<1>8. held' = [held EXCEPT ![d] = {}] /\ Goto(d, "apply") BY DEF PutBack
<1>9. old' \subseteq Mails BY DEF IInv, DeliveryTypeOK
<1>10. {} \in SUBSET held[d] OBVIOUS
<1> QED BY <1>4, <1>6, <1>7, <1>8, <1>9, <1>10, HandledKeeps

LEMMA OutOfTimeKeeps == ASSUME IInv, NEW d \in Drains, OutOfTime(d) PROVE IInv'
<1>1. since[d] <= Slack + StepTime
  BY DrainFacts, SlackFits, LeaseAssumption DEF OutOfTime, Clock, TimeOut
<1> QED BY <1>1, PutBackKeeps DEF OutOfTime

\* The excuses of what sendRow records.
LEMMA CountedKeeps ==
  ASSUME IInv, NEW d \in Drains, NEW m \in held[d], NEW own \in BOOLEAN,
         (pc[d] = "pause" /\ ~PastDeadline(d)) \/ pc[d] = "send", Counted(d, m, own),
         UNCHANGED <<order, cap, table, faulted, since, scope, limit, tries, seen, voided>>,
         at' = [at EXCEPT ![d] = None] \/ at' = at, old' \subseteq Mails,
         own \/ order[OrderOf[m]] \in Gone
  PROVE  IInv'
<1>1. m \in Mails /\ tries[d][m] \in 0..MaxAttempts /\ Excused(m, tries[d][m], "pending", 0)
      /\ faulted[m] \in 0..MaxAttempts
  BY DrainFacts DEF Reason, IInv, DeliveryTypeOK
<1>2. CASE tries[d][m] + 1 >= MaxAttempts
  <2>1. Outcome(d, m, "failed", MaxAttempts, 0, own) BY <1>2 DEF Counted
  <2>2. Excused(m, MaxAttempts, "failed", IF own THEN 1 ELSE 0)'
    BY <1>1, <1>2, CountsAssumption DEF Excused
  <2>3. MaxAttempts \in 0..MaxAttempts BY CountsAssumption
  <2>4. "failed" \in RowStates /\ 0 \in Int BY DEF RowStates
  <2> QED BY <2>1, <2>2, <2>3, <2>4, OutcomeKeeps
<1>3. CASE ~(tries[d][m] + 1 >= MaxAttempts)
  <2>1. tries[d][m] + 1 \in 0..MaxAttempts BY <1>1, <1>3, CountsAssumption
  <2>2. PICK n \in 0..MaxAttempts : n = tries[d][m] + 1 BY <2>1
  <2>3. Outcome(d, m, "pending", n, Backoff(n), own) BY <1>3, <2>2 DEF Counted
  <2>4. Excused(m, n, "pending", IF own THEN 1 ELSE 0)'
    BY <1>1, <2>2, CountsAssumption DEF Excused
  <2>5. "pending" \in RowStates BY DEF RowStates
  <2>6. Backoff(n) \in Int
    <3>1. n - 1 \in Nat BY <1>1, <2>2
    <3>2. 2^(n - 1) \in Int BY <3>1
    <3>3. Base * 2^(n - 1) \in Int BY <3>2, CountsAssumption
    <3> QED BY <3>3, CountsAssumption DEF Backoff, Least
  <2> QED BY <2>3, <2>4, <2>5, <2>6, OutcomeKeeps
<1> QED BY <1>2, <1>3

LEMMA UnsentKeeps == ASSUME IInv, NEW d \in Drains, NEW m \in Mails, Unsent(d, m) PROVE IInv'
<1>1. /\ pc[d] = "pause" /\ ~PastDeadline(d) /\ m \in held[d]
      /\ UNCHANGED <<order, cap, table, old, faulted, since, scope, limit, tries, seen, voided, at>>
  BY DEF Unsent
<1>2. old' \subseteq Mails BY <1>1 DEF IInv, DeliveryTypeOK
<1>3. OrderOf[m] \in Orders /\ tries[d][m] \in 0..MaxAttempts
  BY MailsAssumption DEF IInv, DeliveryTypeOK
<1>4. "failed" \in RowStates /\ "pending" \in RowStates /\ 0 \in Int /\ HoldTime \in Int
  BY CountsAssumption DEF RowStates
<1>5. CASE seen[d][OrderOf[m]] = "refunded" /\ Outcome(d, m, "failed", tries[d][m], 0, FALSE)
  <2>1. Excused(m, tries[d][m], "failed", 0)'
    BY <1>1, <1>3, <1>5, DrainFacts DEF Reason, Excused, Gone
  <2> QED BY <1>1, <1>2, <1>3, <1>4, <1>5, <2>1, OutcomeKeeps
<1>6. CASE seen[d][OrderOf[m]] = "needs_review" /\ Later(d, m, HoldTime)
  <2>1. Excused(m, tries[d][m], "pending", 0)'
    BY <1>1, DrainFacts DEF Reason, Excused
  <2> QED BY <1>1, <1>2, <1>3, <1>4, <1>6, <2>1, OutcomeKeeps DEF Later
<1>7. CASE (seen[d][OrderOf[m]] = "missing" \/ OrderOf[m] \in voided[d]) /\ Counted(d, m, FALSE)
  <2>1. order[OrderOf[m]] \in Gone BY <1>3, <1>7, DrainFacts DEF Reason, Gone
  <2> QED BY <1>1, <1>2, <1>7, <2>1, CountedKeeps
<1> QED BY <1>5, <1>6, <1>7 DEF Unsent

LEMMA SendKeeps == ASSUME IInv, NEW d \in Drains, NEW m \in Mails, Send(d, m) PROVE IInv'
<1>1. /\ pc[d] = "pause" /\ ~PastDeadline(d) /\ m \in held[d] /\ at' = [at EXCEPT ![d] = m]
      /\ pc' = [pc EXCEPT ![d] = "send"] /\ spent' = [spent EXCEPT ![d] = 0]
      /\ UNCHANGED <<order, cap, table, old, faulted, since, scope, limit, held, tries, seen, voided, updates>>
  BY DEF Send, Goto
<1>2. DeliveryTypeOK'
  <2>1. pc' \in [Drains -> Places] BY <1>1 DEF IInv, DeliveryTypeOK, Places
  <2>2. spent' \in [Drains -> Nat] BY <1>1 DEF IInv, DeliveryTypeOK
  <2>3. at' \in [Drains -> Mails \cup {None}] BY <1>1 DEF IInv, DeliveryTypeOK
  <2> QED BY <1>1, <2>1, <2>2, <2>3 DEF IInv, DeliveryTypeOK, table, Places
<1>3. Alone(d)
  <2>1. ASSUME NEW e \in Drains \ {d}
        PROVE  pc'[e] = pc[e] /\ spent'[e] = spent[e] /\ at'[e] = at[e]
    BY <1>1 DEF IInv, DeliveryTypeOK
  <2>2. \A x \in Mails : faulted[x] <= faulted'[x]
    BY <1>1, CountsAssumption DEF IInv, DeliveryTypeOK
  <2> QED BY <1>1, <2>1, <2>2 DEF Alone
<1>4. pc'[d] = "send" /\ spent'[d] = 0 /\ at'[d] = m
  BY <1>1 DEF IInv, DeliveryTypeOK
<1>5. Clock(d)'
  <2>1. since[d] <= Budget - 1 /\ since[d] \in Nat
    BY <1>1, DrainFacts, LeaseAssumption DEF PastDeadline
  <2> QED BY <1>1, <1>4, <2>1, LeaseAssumption DEF Clock, TimeOut
<1>6. InHand(d)' = InHand(d) BY <1>1 DEF InHand
<1>7. Hand(d)' BY <1>1, <1>4, <1>6, DrainFacts DEF Hand, table
<1>8. Reason(d)' BY <1>1, DrainFacts DEF Reason, Excused
<1> QED BY <1>2, <1>3, <1>5, <1>6, <1>7, <1>8, AloneKeeps

\* The row being sent, and what answers leave alone.
LEMMA AnsweredFacts ==
  ASSUME IInv, NEW d \in Drains, Answered(d)
  PROVE  /\ pc[d] = "send" /\ at[d] \in held[d] /\ at[d] \in Mails
         /\ at' = [at EXCEPT ![d] = None]
         /\ UNCHANGED <<order, cap, table, faulted, since, scope, limit, tries, seen, voided>>
         /\ tries[d][at[d]] \in 0..MaxAttempts /\ Excused(at[d], tries[d][at[d]], "pending", 0)
<1>1. pc[d] = "send" /\ at[d] \in held[d] BY DrainFacts DEF Answered, Hand
<1>2. at[d] \in Mails BY <1>1, DrainFacts
<1>3. tries[d][at[d]] \in 0..MaxAttempts BY <1>2 DEF IInv, DeliveryTypeOK
<1>4. Excused(at[d], tries[d][at[d]], "pending", 0) BY <1>1, DrainFacts DEF Reason
<1> QED BY <1>1, <1>2, <1>3, <1>4 DEF Answered, IInv, DeliveryTypeOK

LEMMA AcceptedKeeps == ASSUME IInv, NEW d \in Drains, Accepted(d) PROVE IInv'
<1>1. Answered(d) /\ Outcome(d, at[d], "sent", tries[d][at[d]], 0, FALSE) /\ old' \subseteq Mails
  BY DEF Accepted, IInv, DeliveryTypeOK
<1>2. PICK m \in held[d] : m = at[d] BY <1>1, AnsweredFacts
<1>3. PICK n \in 0..MaxAttempts : n = tries[d][m] BY <1>1, <1>2, AnsweredFacts
<1>4. Excused(m, n, "pending", 0) BY <1>1, <1>2, <1>3, AnsweredFacts
<1>5. Excused(m, n, "sent", 0)' BY <1>1, <1>4, AnsweredFacts DEF Excused
<1>6. Outcome(d, m, "sent", n, 0, FALSE) BY <1>1, <1>2, <1>3
<1>7. "sent" \in RowStates /\ 0 \in Int BY DEF RowStates
<1> QED BY <1>1, <1>5, <1>6, <1>7, AnsweredFacts, OutcomeKeeps

LEMMA UnrenderedKeeps == ASSUME IInv, NEW d \in Drains, NEW m \in Mails, Unrendered(d, m) PROVE IInv'
<1>1. /\ pc[d] = "pause" /\ ~PastDeadline(d) /\ m \in held[d] /\ Counted(d, m, TRUE)
      /\ UNCHANGED <<order, cap, table, old, faulted, since, scope, limit, tries, seen, voided, at>>
  BY DEF Unrendered
<1>2. old' \subseteq Mails BY <1>1 DEF IInv, DeliveryTypeOK
<1> QED BY <1>1, <1>2, CountedKeeps

LEMMA RejectedKeeps == ASSUME IInv, NEW d \in Drains, Rejected(d) PROVE IInv'
<1>1. Answered(d) /\ Counted(d, at[d], TRUE) /\ old' = old BY DEF Rejected
<1>2. PICK m \in held[d] : m = at[d] BY <1>1, AnsweredFacts
<1>3. Counted(d, m, TRUE) BY <1>1, <1>2
<1>4. old' \subseteq Mails BY <1>1 DEF IInv, DeliveryTypeOK
<1> QED BY <1>1, <1>3, <1>4, AnsweredFacts, CountedKeeps

LEMMA UnavailableKeeps == ASSUME IInv, NEW d \in Drains, Unavailable(d) PROVE IInv'
<1>1. PICK delay \in (IF "rate_limited" \in Troubles THEN {RateLimitRetry} ELSE {})
                  \cup (IF "transient" \in Troubles THEN {TransientRetry} ELSE {}) :
        PutBack(d, held[d] \ {at[d]},
                {[mail |-> at[d], status |-> "pending", attempts |-> tries[d][at[d]], wait |-> delay, own |-> FALSE]})
  BY DEF Unavailable
<1>2. Answered(d) /\ UNCHANGED <<old, faulted>> BY DEF Unavailable, Answered
<1>3. delay \in Int BY CountsAssumption
<1> DEFINE u == [mail |-> at[d], status |-> "pending", attempts |-> tries[d][at[d]], wait |-> delay, own |-> FALSE]
<1>4. u \in Outcomes BY <1>2, <1>3, AnsweredFacts DEF Outcomes, RowStates
<1>5. u.mail \in held[d] /\ Excused(u.mail, u.attempts, u.status, Own(u)) BY <1>2, AnsweredFacts DEF Own
<1>6. PutBack(d, held[d] \ {at[d]}, {u}) BY <1>1
<1> HIDE DEF u
<1>7. \A x \in {u} : x.mail \in held[d] /\ Excused(x.mail, x.attempts, x.status, Own(x)) BY <1>5
<1>8. held[d] \ {at[d]} \in SUBSET held[d] /\ {u} \in SUBSET Outcomes BY <1>4
<1>9. pc[d] \in {"pause", "send"} /\ since[d] <= Slack + StepTime
  BY <1>2, AnsweredFacts, InTime
<1> QED BY <1>2, <1>6, <1>7, <1>8, <1>9, AnsweredFacts, PutBackKeeps

-----------------------------------------------------------------------------
(* The end of a drain, and time.                                            *)

\* What is written is an outcome of a row in hand.
LEMMA WrittenFacts ==
  ASSUME IInv, NEW d \in Drains, NEW m \in Mails, Written(m, d)
  PROVE  /\ Update(m, d) \in Outcomes /\ m \in InHand(d)
         /\ Excused(m, Update(m, d).attempts, Update(m, d).status, Own(Update(m, d)))
<1>1. Update(m, d) \in updates[d] /\ Update(m, d).mail = m BY DEF Written, Update
<1>2. updates[d] \subseteq Outcomes BY DEF IInv, DeliveryTypeOK
<1>3. m \in InHand(d) BY <1>1 DEF InHand
<1>4. \A u \in updates[d] : Excused(u.mail, u.attempts, u.status, Own(u)) BY DrainFacts DEF Reason
<1> QED BY <1>1, <1>2, <1>3, <1>4

LEMMA ApplyKeeps == ASSUME IInv, NEW d \in Drains, Apply(d) PROVE IInv'
<1>1. /\ status' = [m \in Mails |-> IF Written(m, d) THEN Update(m, d).status ELSE status[m]]
      /\ attempts' = [m \in Mails |-> IF Written(m, d) THEN Update(m, d).attempts ELSE attempts[m]]
      /\ wait' = [m \in Mails |-> IF Written(m, d) THEN Update(m, d).wait ELSE wait[m]]
      /\ faulted' = [m \in Mails |-> IF Written(m, d) /\ Update(m, d).own
                                     THEN Least(faulted[m] + 1, MaxAttempts) ELSE faulted[m]]
      /\ Forgotten(d) /\ UNCHANGED <<order, cap, old>>
  BY DEF Apply
<1>2. \A m \in Mails : Written(m, d) =>
        /\ Update(m, d).status \in RowStates /\ Update(m, d).attempts \in 0..MaxAttempts
        /\ Update(m, d).wait \in Int /\ Update(m, d).own \in BOOLEAN
  BY WrittenFacts DEF Outcomes
<1>a. \A m \in Mails : faulted[m] \in 0..MaxAttempts /\ faulted'[m] \in 0..MaxAttempts
                       /\ faulted[m] <= faulted'[m]
  BY <1>1, <1>2, CountsAssumption DEF Least, IInv, DeliveryTypeOK
<1>3. DeliveryTypeOK'
  <2>1. status' \in [Mails -> RowStates] BY <1>1, <1>2 DEF IInv, DeliveryTypeOK
  <2>2. attempts' \in [Mails -> 0..MaxAttempts] BY <1>1, <1>2 DEF IInv, DeliveryTypeOK
  <2>3. wait' \in [Mails -> Int] BY <1>1, <1>2 DEF IInv, DeliveryTypeOK
  <2>4. /\ pc' \in [Drains -> Places] /\ since' \in [Drains -> Nat] /\ spent' \in [Drains -> Nat]
        /\ scope' \in [Drains -> Orders \cup {None}] /\ limit' \in [Drains -> Nat]
        /\ held' \in [Drains -> SUBSET Mails] /\ tries' \in [Drains -> [Mails -> 0..MaxAttempts]]
    BY <1>1, CountsAssumption DEF Forgotten, IInv, DeliveryTypeOK, Places
  <2>5. /\ seen' \in [Drains -> [Orders -> OrderStates]] /\ voided' \in [Drains -> SUBSET Orders]
        /\ at' \in [Drains -> Mails \cup {None}] /\ updates' \in [Drains -> SUBSET Outcomes]
    BY <1>1 DEF Forgotten, IInv, DeliveryTypeOK, OrderStates
  <2>6. order' \in [Orders -> OrderStates] /\ cap' \in Caps /\ old' \subseteq Mails
        /\ faulted' \in [Mails -> 0..MaxAttempts]
    BY <1>1, <1>a DEF IInv, DeliveryTypeOK
  <2> QED BY <2>1, <2>2, <2>3, <2>4, <2>5, <2>6 DEF DeliveryTypeOK, Places
<1>4. pc'[d] = "idle" /\ held'[d] = {} /\ updates'[d] = {} /\ voided'[d] = {}
      /\ seen'[d] = [o \in Orders |-> "unpaid"]
  BY <1>1 DEF Forgotten, IInv, DeliveryTypeOK
<1>5. Clock(d)' /\ Hand(d)' /\ Reason(d)' /\ InHand(d)' = {}
  BY <1>4 DEF Clock, Hand, Reason, InHand, Gone
<1>6. ASSUME NEW e \in Drains, e # d
      PROVE  /\ pc'[e] = pc[e] /\ since'[e] = since[e] /\ spent'[e] = spent[e]
             /\ held'[e] = held[e] /\ tries'[e] = tries[e] /\ seen'[e] = seen[e]
             /\ voided'[e] = voided[e] /\ at'[e] = at[e] /\ updates'[e] = updates[e]
  BY <1>1, <1>6 DEF Forgotten, IInv, DeliveryTypeOK
<1>7. ASSUME NEW e \in Drains, e # d PROVE Clock(e)' /\ Hand(e)' /\ Reason(e)' /\ InHand(e)' = InHand(e)
  <2>1. Clock(e)' BY <1>6, <1>7, DrainFacts DEF Clock, TimeOut
  <2>2. InHand(e)' = InHand(e) BY <1>6, <1>7 DEF InHand
  <2>3. ASSUME NEW m \in InHand(e) PROVE status'[m] = status[m] /\ wait'[m] = wait[m]
    <3>1. m \in Mails /\ m \notin InHand(d) BY <1>7, DrainFacts DEF IInv, OneClaim
    <3>2. ~Written(m, d) BY <3>1, WrittenFacts
    <3> QED BY <1>1, <3>1, <3>2
  <2>4. Hand(e)' BY <1>6, <1>7, <2>2, <2>3, DrainFacts DEF Hand
  <2>5. ASSUME NEW m \in Mails, NEW n \in 0..MaxAttempts, NEW st, NEW more \in 0..1,
               Excused(m, n, st, more)
        PROVE  Excused(m, n, st, more)'
    BY <1>1, <1>3, <1>a, <2>5, ExcuseStays DEF IInv
  <2>6. \A m \in held'[e] : Excused(m, tries[e][m], "pending", 0)'
    <3>1. \A m \in held[e] : m \in Mails /\ tries[e][m] \in 0..MaxAttempts
      BY DEF IInv, DeliveryTypeOK
    <3> QED BY <1>6, <1>7, <2>5, <3>1, DrainFacts DEF Reason
  <2>7. \A u \in updates'[e] : Excused(u.mail, u.attempts, u.status, Own(u))'
    <3>1. \A u \in updates[e] : u.mail \in Mails /\ u.attempts \in 0..MaxAttempts /\ Own(u) \in 0..1
      BY DEF Own, IInv, DeliveryTypeOK, Outcomes
    <3> QED BY <1>6, <1>7, <2>5, <3>1, DrainFacts DEF Reason
  <2>8. Reason(e)' BY <1>1, <1>6, <1>7, <2>6, <2>7, DrainFacts DEF Reason
  <2> QED BY <2>1, <2>2, <2>4, <2>8
<1>8. DrainInv' BY <1>5, <1>7 DEF DrainInv
<1>9. OneClaim' BY <1>5, <1>7 DEF IInv, OneClaim
<1>10. RowInv'
  <2> SUFFICES ASSUME NEW m \in Mails PROVE Excused(m, attempts[m], status[m], 0)' BY DEF RowInv
  <2>1. CASE Written(m, d)
    <3>1. Excused(m, Update(m, d).attempts, Update(m, d).status, Own(Update(m, d)))
      BY <2>1, WrittenFacts
    <3>2. attempts'[m] = Update(m, d).attempts /\ status'[m] = Update(m, d).status
          /\ Update(m, d).attempts \in 0..MaxAttempts
      BY <1>1, <1>2, <2>1
    <3>3. faulted'[m] = IF Update(m, d).own THEN Least(faulted[m] + 1, MaxAttempts) ELSE faulted[m]
      BY <1>1, <2>1
    <3> QED BY <1>1, <1>a, <3>1, <3>2, <3>3, CountsAssumption DEF Excused, Own, Least
  <2>2. CASE ~Written(m, d)
    <3>1. attempts'[m] = attempts[m] /\ status'[m] = status[m] /\ faulted'[m] = faulted[m]
      BY <1>1, <2>2
    <3> QED BY <1>1, <3>1 DEF Excused, IInv, RowInv
  <2> QED BY <2>1, <2>2
<1> QED BY <1>3, <1>8, <1>9, <1>10 DEF IInv

LEMMA DiesKeeps == ASSUME IInv, NEW d \in Drains, Dies(d) PROVE IInv'
BY ForgottenKeeps DEF Dies

Aged(u) == [u EXCEPT !.wait = IF u.status = "pending" THEN Passed(@) ELSE @]

LEMMA AgedFacts ==
  ASSUME NEW u \in Outcomes
  PROVE  /\ Aged(u) \in Outcomes /\ Aged(u).mail = u.mail
         /\ Aged(u).status = u.status /\ Aged(u).attempts = u.attempts /\ Aged(u).own = u.own
BY LeaseAssumption DEF Aged, Outcomes, Passed, AtLeast

\* A lease runs down no faster than the drain that holds it ages.
LEMMA TickKeeps == ASSUME IInv, Tick PROVE IInv'
<1>1. /\ \A d \in Drains : pc[d] # "idle" => spent[d] < TimeOut(d)
      /\ wait' = [m \in Mails |-> IF status[m] = "pending" THEN Passed(wait[m]) ELSE wait[m]]
      /\ since' = [d \in Drains |-> IF pc[d] = "idle" THEN since[d] ELSE since[d] + 1]
      /\ spent' = [d \in Drains |-> IF pc[d] = "idle" THEN spent[d] ELSE spent[d] + 1]
      /\ updates' = [d \in Drains |-> {Aged(u) : u \in updates[d]}]
      /\ UNCHANGED <<order, cap, status, attempts, old, faulted, pc, scope, limit, held, tries, seen, voided, at>>
  BY DEF Tick, Aged
<1>2. \A m \in Mails : wait[m] \in Int /\ wait'[m] \in Int /\ wait'[m] >= wait[m] - 1
  BY <1>1, LeaseAssumption DEF Passed, AtLeast, IInv, DeliveryTypeOK
<1>3. \A d \in Drains : \A u \in updates[d] :
        /\ Aged(u) \in Outcomes /\ Aged(u).mail = u.mail
        /\ Aged(u).status = u.status /\ Aged(u).attempts = u.attempts /\ Aged(u).own = u.own
  BY AgedFacts DEF IInv, DeliveryTypeOK
<1>4. DeliveryTypeOK'
  <2>1. wait' \in [Mails -> Int] BY <1>1, <1>2
  <2>2. updates' \in [Drains -> SUBSET Outcomes] BY <1>1, <1>3
  <2>3. since' \in [Drains -> Nat] /\ spent' \in [Drains -> Nat]
    BY <1>1 DEF IInv, DeliveryTypeOK
  <2> QED BY <1>1, <2>1, <2>2, <2>3 DEF IInv, DeliveryTypeOK
<1>5. ASSUME NEW d \in Drains PROVE Clock(d)' /\ Hand(d)' /\ Reason(d)' /\ InHand(d)' = InHand(d)
  <2>1. /\ pc'[d] = pc[d] /\ held'[d] = held[d] /\ tries'[d] = tries[d] /\ seen'[d] = seen[d]
        /\ voided'[d] = voided[d] /\ at'[d] = at[d] /\ updates'[d] = {Aged(u) : u \in updates[d]}
        /\ pc[d] = "idle" => since'[d] = since[d] /\ spent'[d] = spent[d]
        /\ pc[d] # "idle" => since'[d] = since[d] + 1 /\ spent'[d] = spent[d] + 1 /\ spent[d] < TimeOut(d)
    BY <1>1
  <2>2. Clock(d)'
    BY <2>1, DrainFacts, LeaseAssumption, SlackFits DEF Clock, TimeOut
  <2>3. InHand(d)' = InHand(d) BY <1>3, <2>1 DEF InHand
  <2>4. Hand(d)'
    <3>1. \A m \in InHand(d) : m \in Mails /\ status'[m] = "pending" BY <1>1, DrainFacts DEF Hand
    <3>2. ASSUME NEW m \in InHand(d) PROVE wait'[m] >= Lease - since'[d]
      <4>1. pc[d] # "idle" BY DrainFacts DEF Hand, InHand
      <4>2. wait[m] >= Lease - since[d] /\ m \in Mails BY DrainFacts DEF Hand
      <4> QED BY <1>2, <2>1, <4>1, <4>2, DrainFacts, LeaseAssumption
    <3>3. pc[d] \in {"idle", "allowance", "claim"} => held'[d] = {} /\ updates'[d] = {}
      BY <2>1, DrainFacts DEF Hand
    <3>4. pc[d] = "send" => at'[d] \in held'[d] BY <2>1, DrainFacts DEF Hand
    <3> QED BY <2>1, <2>3, <3>1, <3>2, <3>3, <3>4 DEF Hand
  <2>5. Reason(d)'
    <3>1. \A m \in held'[d] : Excused(m, tries[d][m], "pending", 0)'
      BY <1>1, <2>1, DrainFacts DEF Reason, Excused
    <3>2. \A u \in updates[d] : Excused(u.mail, u.attempts, u.status, Own(u))'
      BY <1>1, DrainFacts DEF Reason, Excused
    <3>3. \A u \in updates[d] : Excused(Aged(u).mail, Aged(u).attempts, Aged(u).status, Own(Aged(u)))'
      BY <1>3, <3>2 DEF Excused, Own
    <3>4. \A x \in updates'[d] : Excused(x.mail, x.attempts, x.status, Own(x))' BY <2>1, <3>3
    <3>5. \A o \in Orders : seen'[d][o] \in Gone \/ o \in voided'[d] => order'[o] \in Gone
      BY <1>1, <2>1, DrainFacts DEF Reason
    <3> QED BY <3>1, <3>4, <3>5 DEF Reason
  <2> QED BY <2>2, <2>3, <2>4, <2>5
<1>6. RowInv' BY <1>1 DEF IInv, RowInv, Excused
<1>7. OneClaim' BY <1>5 DEF IInv, OneClaim
<1> QED BY <1>4, <1>5, <1>6, <1>7 DEF IInv, DrainInv

-----------------------------------------------------------------------------
(* The theorems.                                                            *)

LEMMA DrainedKeeps == ASSUME IInv, NEW d \in Drains, Drained(d) PROVE IInv'
BY AllowanceKeeps, ClaimKeeps, ReadKeeps, OutOfTimeKeeps, UnsentKeeps, UnrenderedKeeps, SendKeeps, AcceptedKeeps,
   RejectedKeeps, UnavailableKeeps, ApplyKeeps DEF Drained, Works

LEMMA StepIInv == IInv /\ [Next]_vars => IInv'
<1> SUFFICES ASSUME IInv, [Next]_vars PROVE IInv' OBVIOUS
<1>1. CASE Others
  <2>1. ASSUME NEW o \in Orders, Pay(o) \/ Review(o) \/ Approve(o) \/ Refund(o) \/ Vanish(o) \/ Fulfil(o)
        PROVE  IInv'
    BY <2>1, OrderKeeps, FulfilKeeps
  <2>2. CASE Start(Alarm, None) BY <2>2, StartKeeps DEF Drains
  <2> QED BY <1>1, <2>1, <2>2, TickKeeps, MidnightKeeps DEF Others
<1>2. ASSUME NEW d \in Soon, NEW o \in Orders, Start(d, o) PROVE IInv'
  BY <1>2, StartKeeps DEF Drains
<1>3. ASSUME NEW d \in Drains, Drained(d) \/ Dies(d) PROVE IInv'
  BY <1>3, DrainedKeeps, DiesKeeps
<1>4. CASE UNCHANGED vars
  <2>1. DeliveryTypeOK' BY <1>4 DEF vars, IInv, DeliveryTypeOK
  <2>2. UNCHANGED <<order, attempts, status, wait, faulted, drain>> BY <1>4 DEF vars, drain
  <2> QED BY <2>1, <2>2, OutsideKeeps DEF IInv, DeliveryTypeOK
<1> QED BY <1>1, <1>2, <1>3, <1>4 DEF Next

LEMMA AlwaysIInv == Spec => []IInv
<1>1. Init => IInv BY InitIInv
<1>2. IInv /\ [Next]_vars => IInv' BY StepIInv
<1> QED BY <1>1, <1>2, PTL DEF Spec

\* Every variable keeps its type (lp_ticket_outbox and the memory of a drain).
THEOREM DeliveryTypeCorrect == Spec => []DeliveryTypeOK
<1>1. IInv => DeliveryTypeOK BY DEF IInv
<1> QED BY <1>1, AlwaysIInv, PTL

\* Whatever the durations, as long as LeaseAssumption holds of them, no row is
\* in the hands of two drains (claimDueMail, drain).
THEOREM NoRowTwice == Spec => []OneClaim
<1>1. IInv => OneClaim BY DEF IInv
<1> QED BY <1>1, AlwaysIInv, PTL

\* A mail is given up only after MaxAttempts failures of its own, refused or not
\* rendered, or for a refund or a deletion of its order (sendRow).
THEOREM GivenUpForAReason == Spec => []FailedForAReason
<1>1. IInv => FailedForAReason
  <2> SUFFICES ASSUME IInv, NEW m \in Mails, status[m] = "failed"
               PROVE  faulted[m] = MaxAttempts \/ order[OrderOf[m]] \in Gone
    BY DEF FailedForAReason
  <2>1. Excused(m, attempts[m], "failed", 0) /\ faulted[m] \in 0..MaxAttempts
    BY DEF IInv, RowInv, DeliveryTypeOK
  <2> QED BY <2>1, CountsAssumption DEF Excused
<1> QED BY <1>1, AlwaysIInv, PTL

\* A step that ends no mail twice: only Apply writes a status, and only of rows
\* that are pending.
LEMMA StepEnded ==
  IInv /\ [Next]_vars => [\A m \in Mails : status[m] \in {"sent", "failed"} => status'[m] = status[m]]_vars
<1> SUFFICES ASSUME IInv, Next, NEW m \in Mails, status[m] \in {"sent", "failed"}
             PROVE  status'[m] = status[m]
  OBVIOUS
<1>1. ASSUME NEW d \in Drains, Apply(d) PROVE status'[m] = status[m]
  <2>1. ~Written(m, d)
    <3>1. m \notin InHand(d) BY DrainFacts DEF Hand
    <3> QED BY <3>1, WrittenFacts
  <2> QED BY <1>1, <2>1 DEF Apply
<1>2. ASSUME NEW o \in Orders, Fulfil(o) PROVE status'[m] = status[m]
  BY <1>2 DEF Fulfil
<1>3. ASSUME NEW o \in Orders, Pay(o) \/ Review(o) \/ Approve(o) \/ Refund(o) \/ Vanish(o)
      PROVE  status'[m] = status[m]
  BY <1>3 DEF Pay, Review, Approve, Refund, Vanish, Becomes, table
<1>4. ASSUME NEW d \in Drains, NEW o, Start(d, o) PROVE status'[m] = status[m]
  BY <1>4 DEF Start, table
<1>5. CASE Tick \/ Midnight BY <1>5 DEF Tick, Midnight, table
<1>6. ASSUME NEW d \in Drains, Dies(d) PROVE status'[m] = status[m] BY <1>6 DEF Dies, table
<1>7. ASSUME NEW d \in Drains, Works(d) \/ Unavailable(d), ~Apply(d) PROVE status' = status
  BY <1>7 DEF Works, Unavailable, Allowance, Claim, ReadOrders, ReadTickets, OutOfTime, Unsent, Send,
     Unrendered, Accepted, Rejected, Answered, table
<1> QED BY <1>1, <1>2, <1>3, <1>4, <1>5, <1>6, <1>7 DEF Next, Others, Drained, Drains

\* No outcome written late overwrites a mail that has ended (applyOutboxUpdates).
THEOREM EndedForGood == Spec => EndedStays
BY AlwaysIInv, StepEnded, PTL DEF Spec, EndedStays
=============================================================================
