--------------------------- MODULE TicketDelivery ---------------------------
(***************************************************************************)
(* services/lp-tickets, after the payment: tickets and mails of a paid      *)
(* order are issued in one batch, and drains send the mails: one run by     *)
(* the alarm of TicketReconcileDO, others right after a payment beside it.  *)
(* A drain claims due rows by moving next_attempt_at to the end of a lease, *)
(* sends them one by one within a budget, and writes all outcomes at the    *)
(* end, unconditionally. That no two drains hold a row rests on durations,  *)
(* so time is part of the model: no await outlasts its bound.               *)
(*                                                                          *)
(* What makes an order paid, disputed or refunded is TicketOrders; here it  *)
(* is the environment. Rendering, the daily backup and the limit on new     *)
(* orders are left out.                                                     *)
(***************************************************************************)
EXTENDS Integers, FiniteSets

CONSTANTS
  Orders, Mails, None,
  OrderOf,       \* the order of each outbox row
  Ops,           \* the rows that are copies for the staff
  Alarm, Soon,   \* the drain of the alarm; drains that requests deferred
  Batch,         \* DRAIN_BATCH_MAX
  SoonBatch,     \* the limit of sendSoon
  Caps,          \* TICKET_MAIL_DAILY_CAP, None when it is not set
  MaxAttempts,   \* OUTBOX_MAX_ATTEMPTS
  Base, BackoffCap, TransientRetry, RateLimitRetry, HoldTime,  \* delays
  Lease, Budget, \* OUTBOX_LEASE_MS, DRAIN_BUDGET_MS
  SendTime,      \* MAIL_TIMEOUT_MS
  StepTime,      \* longest D1 statement, and longest pause between two mails
  Late,          \* bound: how long overdue is told apart
  Troubles       \* which failures a run explores

Drains == {Alarm} \cup Soon
AllTroubles == {"rejected", "render", "missing", "rate_limited", "transient", "review", "crash"}

ASSUME MailsAssumption ==
  /\ IsFiniteSet(Mails) /\ OrderOf \in [Mails -> Orders] /\ Ops \subseteq Mails
  /\ None \notin Orders \cup Mails /\ Alarm \notin Soon
ASSUME CountsAssumption ==
  /\ Batch \in Nat \ {0} /\ SoonBatch \in Nat \ {0} /\ MaxAttempts \in Nat \ {0}
  /\ Caps \subseteq (Nat \ {0}) \cup {None} /\ Base \in Nat \ {0} /\ BackoffCap \in Nat /\ TransientRetry \in Nat
  /\ RateLimitRetry \in Nat /\ HoldTime \in Nat /\ Troubles \subseteq AllTroubles
\* "Longer than a full drain, so a live drain never loses its rows."
ASSUME LeaseAssumption ==
  /\ Lease \in Nat /\ Budget \in Nat \ {0} /\ SendTime \in Nat /\ StepTime \in Nat /\ Late \in Nat
  /\ Lease > 5 * StepTime /\ Lease >= Budget + SendTime + 2 * StepTime
  /\ Late >= 2 * StepTime

VARIABLES
  order,     \* lp_ticket_orders.status
  status,    \* lp_ticket_outbox.status, "none" before the row exists
  attempts,  \* failures counted in the row
  wait,      \* next_attempt_at - now
  cap,       \* the cap of this deployment
  old,       \* mails whose last acceptance was not today
  faulted,   \* history: recorded failures of the mail itself, up to MaxAttempts
  pc,        \* where each drain stands
  since,     \* time since it read the clock
  spent,     \* time in the await it stands at
  scope,     \* the order it is for, None for all
  limit,     \* rows it may claim
  held,      \* rows it claimed and has not handled
  tries,     \* attempts of the rows as it claimed them
  seen,      \* status of the orders as it read them
  voided,    \* orders it read no valid ticket of
  at,        \* the row being sent
  updates    \* outcomes to write, as [mail, status, attempts, wait], and for
             \* the history whether it is a failure of the mail's own

table == <<status, attempts, wait>>
clocks == <<since, spent>>
drain == <<pc, since, spent, scope, limit, held, tries, seen, voided, at, updates>>
vars  == <<order, cap, status, attempts, wait, old, faulted, pc, since, spent, scope, limit,
           held, tries, seen, voided, at, updates>>

OrderStates == {"unpaid", "paid", "needs_review", "refunded", "missing"}
Gone == {"refunded", "missing"}
RowStates == {"none", "pending", "sent", "failed"}
Outcomes == [mail : Mails, status : RowStates, attempts : 0..MaxAttempts, wait : Int,
             own : BOOLEAN]

DeliveryTypeOK ==
  /\ order \in [Orders -> OrderStates]
  /\ status \in [Mails -> RowStates]
  /\ attempts \in [Mails -> 0..MaxAttempts]
  /\ wait \in [Mails -> Int]
  /\ cap \in Caps /\ old \subseteq Mails /\ faulted \in [Mails -> 0..MaxAttempts]
  /\ pc \in [Drains -> {"idle", "allowance", "claim", "orders", "tickets", "pause", "send", "apply"}]
  /\ since \in [Drains -> Nat] /\ spent \in [Drains -> Nat]
  /\ scope \in [Drains -> Orders \cup {None}]
  /\ limit \in [Drains -> Nat]
  /\ held \in [Drains -> SUBSET Mails]
  /\ tries \in [Drains -> [Mails -> 0..MaxAttempts]]
  /\ seen \in [Drains -> [Orders -> OrderStates]]
  /\ voided \in [Drains -> SUBSET Orders]
  /\ at \in [Drains -> Mails \cup {None}]
  /\ updates \in [Drains -> SUBSET Outcomes]

Init ==
  /\ order = [o \in Orders |-> "unpaid"]
  /\ status = [m \in Mails |-> "none"] /\ attempts = [m \in Mails |-> 0] /\ wait = [m \in Mails |-> 0]
  /\ cap \in Caps /\ old = Mails /\ faulted = [m \in Mails |-> 0]
  /\ pc = [d \in Drains |-> "idle"] /\ since = [d \in Drains |-> 0] /\ spent = [d \in Drains |-> 0]
  /\ scope = [d \in Drains |-> None] /\ limit = [d \in Drains |-> 0] /\ held = [d \in Drains |-> {}]
  /\ tries = [d \in Drains |-> [m \in Mails |-> 0]]
  /\ seen = [d \in Drains |-> [o \in Orders |-> "unpaid"]] /\ voided = [d \in Drains |-> {}]
  /\ at = [d \in Drains |-> None] /\ updates = [d \in Drains |-> {}]

Least(a, b) == IF a < b THEN a ELSE b
AtLeast(a, b) == IF a < b THEN b ELSE a

-----------------------------------------------------------------------------
(* The orders.                                                              *)

Becomes(o, s) == order' = [order EXCEPT ![o] = s] /\ UNCHANGED <<cap, table, old, faulted, drain>>

Pay(o) == order[o] = "unpaid" /\ Becomes(o, "paid")
Review(o) == "review" \in Troubles /\ order[o] = "paid" /\ Becomes(o, "needs_review")
Approve(o) == order[o] = "needs_review" /\ Becomes(o, "paid")
\* Voids the tickets in the same batch.
Refund(o) == order[o] \in {"paid", "needs_review"} /\ Becomes(o, "refunded")
\* Nothing in the service deletes a paid order: an operator may, tickets and all.
Vanish(o) == "missing" \in Troubles /\ order[o] # "unpaid" /\ Becomes(o, "missing")

Owed(o) == {m \in Mails : OrderOf[m] = o}
\* issueFulfilment, from onPaid or from the sweep of the alarm: INSERT OR
\* IGNORE, as long as the order is paid.
Fulfil(o) ==
  /\ order[o] = "paid" /\ \E m \in Owed(o) : status[m] = "none"
  /\ status' = [m \in Mails |-> IF m \in Owed(o) /\ status[m] = "none" THEN "pending" ELSE status[m]]
  /\ wait' = [m \in Mails |-> IF m \in Owed(o) /\ status[m] = "none" THEN 0 ELSE wait[m]]
  /\ UNCHANGED <<order, cap, attempts, old, faulted, drain>>

-----------------------------------------------------------------------------
(* A drain.                                                                 *)

\* Goes on to an await that starts now.
Goto(d, p) == pc' = [pc EXCEPT ![d] = p] /\ spent' = [spent EXCEPT ![d] = 0]

\* sendSoon follows onPaid, however late.
Start(d, o) ==
  /\ pc[d] = "idle"
  /\ o \in Orders => order[o] # "unpaid"
  /\ Goto(d, "allowance")
  /\ since' = [since EXCEPT ![d] = 0] /\ scope' = [scope EXCEPT ![d] = o]
  /\ UNCHANGED <<order, cap, table, old, faulted, limit, held, tries, seen, voided, at, updates>>

\* What a drain holds in memory is gone with it.
Forgotten(d) ==
  /\ pc' = [pc EXCEPT ![d] = "idle"]
  /\ since' = [since EXCEPT ![d] = 0] /\ spent' = [spent EXCEPT ![d] = 0]
  /\ scope' = [scope EXCEPT ![d] = None] /\ limit' = [limit EXCEPT ![d] = 0]
  /\ held' = [held EXCEPT ![d] = {}] /\ tries' = [tries EXCEPT ![d] = [m \in Mails |-> 0]]
  /\ seen' = [seen EXCEPT ![d] = [o \in Orders |-> "unpaid"]] /\ voided' = [voided EXCEPT ![d] = {}]
  /\ at' = [at EXCEPT ![d] = None] /\ updates' = [updates EXCEPT ![d] = {}]

\* dailyAllowance: rows sent today.
Bug_SentEver == {m \in Mails : status[m] = "sent"}
SentToday == {m \in Mails : status[m] = "sent" /\ m \notin old}
Room == IF cap = None THEN Batch ELSE AtLeast(cap - Cardinality(SentToday), 0)

Allowance(d) ==
  /\ pc[d] = "allowance"
  /\ IF Room = 0 THEN Forgotten(d)
     ELSE /\ Goto(d, "claim")
          /\ limit' = [limit EXCEPT ![d] = Least(IF d = Alarm THEN Batch ELSE SoonBatch, Room)]
          /\ UNCHANGED <<since, scope, held, tries, seen, voided, at, updates>>
  /\ UNCHANGED <<order, cap, table, old, faulted>>

Bug_AnyStatus(d) ==
  {m \in Mails : /\ status[m] # "none" /\ wait[m] <= -since[d]
                 /\ scope[d] \in {None, OrderOf[m]}}
\* Due when the drain read the clock.
Claimable(d) ==
  {m \in Mails : /\ status[m] = "pending" /\ wait[m] <= -since[d]
                 /\ scope[d] \in {None, OrderOf[m]}}
\* ORDER BY kind, next_attempt_at.
Precedes(m, n) ==
  \/ m \notin Ops /\ n \in Ops
  \/ (m \in Ops) = (n \in Ops) /\ wait[m] <= wait[n]

\* The lease counts from when the statement was issued.
Claim(d) ==
  /\ pc[d] = "claim"
  /\ \E C \in SUBSET Claimable(d) :
       /\ Cardinality(C) = Least(limit[d], Cardinality(Claimable(d)))
       /\ \A m \in C, n \in Claimable(d) \ C : Precedes(m, n)
       /\ wait' = [m \in Mails |-> IF m \in C THEN Lease - spent[d] ELSE wait[m]]
       /\ IF C = {} THEN Forgotten(d)
          ELSE /\ Goto(d, "orders")
               /\ held' = [held EXCEPT ![d] = C]
               /\ tries' = [tries EXCEPT ![d] = [m \in Mails |-> IF m \in C THEN attempts[m] ELSE 0]]
               /\ scope' = [scope EXCEPT ![d] = None] /\ limit' = [limit EXCEPT ![d] = 0]
               /\ UNCHANGED <<since, seen, voided, at, updates>>
  /\ UNCHANGED <<order, cap, status, attempts, old, faulted>>

\* Two statements side by side: one await.
ReadOrders(d) ==
  /\ pc[d] = "orders" /\ pc' = [pc EXCEPT ![d] = "tickets"]
  /\ seen' = [seen EXCEPT ![d] = order]
  /\ UNCHANGED <<order, cap, table, old, faulted, since, spent, scope, limit, held, tries, voided, at, updates>>
ReadTickets(d) ==
  /\ pc[d] = "tickets" /\ Goto(d, "pause")
  /\ voided' = [voided EXCEPT ![d] = {o \in Orders : order[o] \in Gone}]
  /\ UNCHANGED <<order, cap, table, old, faulted, since, scope, limit, held, tries, seen, at, updates>>

\* The row is done with: the next one, or the end of the batch.
Outcome(d, m, s, a, w, own) ==
  /\ updates' = [updates EXCEPT ![d] =
       @ \cup {[mail |-> m, status |-> s, attempts |-> a, wait |-> w, own |-> own]}]
  /\ held' = [held EXCEPT ![d] = @ \ {m}]
  /\ Goto(d, IF held[d] = {m} THEN "apply" ELSE "pause")
Backoff(n) == Least(BackoffCap, Base * 2^(n - 1))
Bug_NeverGivesUp(d, m, own) ==
  Outcome(d, m, "pending", tries[d][m] + 1, Backoff(tries[d][m] + 1), own)
Counted(d, m, own) ==
  LET n == tries[d][m] + 1
  IN  IF n >= MaxAttempts THEN Outcome(d, m, "failed", MaxAttempts, 0, own)
      ELSE Outcome(d, m, "pending", n, Backoff(n), own)
Later(d, m, delay) == Outcome(d, m, "pending", tries[d][m], delay, FALSE)
\* Everything not handled yet goes back unsent, the row at hand (if any) as given.
PutBack(d, rest, given) ==
  /\ updates' = [updates EXCEPT ![d] =
       @ \cup given \cup {[mail |-> n, status |-> "pending", attempts |-> tries[d][n], wait |-> 0,
                          own |-> FALSE] : n \in rest}]
  /\ held' = [held EXCEPT ![d] = {}]
  /\ Goto(d, "apply")

Bug_NoDeadline(d) == FALSE
PastDeadline(d) == since[d] >= Budget

OutOfTime(d) ==
  /\ pc[d] = "pause" /\ PastDeadline(d)
  /\ PutBack(d, held[d], {})
  /\ UNCHANGED <<order, cap, table, old, faulted, since, scope, limit, tries, seen, voided, at>>

Bug_HoldCounts(d, m) ==
  /\ pc[d] = "pause" /\ ~PastDeadline(d) /\ m \in held[d]
  /\ \/ seen[d][OrderOf[m]] = "refunded" /\ Outcome(d, m, "failed", tries[d][m], 0, FALSE)
     \/ seen[d][OrderOf[m]] = "needs_review" /\ Counted(d, m, FALSE)
     \/ seen[d][OrderOf[m]] = "paid" /\ m \notin Ops /\ OrderOf[m] \in voided[d] /\ Counted(d, m, FALSE)
  /\ UNCHANGED <<order, cap, table, old, faulted, since, scope, limit, tries, seen, voided, at>>
\* sendRow without a send: order missing, refunded or on hold, or no valid tickets.
Unsent(d, m) ==
  /\ pc[d] = "pause" /\ ~PastDeadline(d) /\ m \in held[d]
  /\ \/ seen[d][OrderOf[m]] = "refunded" /\ Outcome(d, m, "failed", tries[d][m], 0, FALSE)
     \/ seen[d][OrderOf[m]] = "missing" /\ Counted(d, m, FALSE)
     \/ seen[d][OrderOf[m]] = "needs_review" /\ Later(d, m, HoldTime)
     \/ seen[d][OrderOf[m]] = "paid" /\ m \notin Ops /\ OrderOf[m] \in voided[d] /\ Counted(d, m, FALSE)
  /\ UNCHANGED <<order, cap, table, old, faulted, since, scope, limit, tries, seen, voided, at>>

\* mailFor throws.
Unrendered(d, m) ==
  /\ pc[d] = "pause" /\ ~PastDeadline(d) /\ m \in held[d]
  /\ "render" \in Troubles /\ seen[d][OrderOf[m]] = "paid" /\ (m \in Ops \/ OrderOf[m] \notin voided[d])
  /\ Counted(d, m, TRUE)
  /\ UNCHANGED <<order, cap, table, old, faulted, since, scope, limit, tries, seen, voided, at>>

Send(d, m) ==
  /\ pc[d] = "pause" /\ ~PastDeadline(d) /\ m \in held[d]
  /\ seen[d][OrderOf[m]] = "paid" /\ (m \in Ops \/ OrderOf[m] \notin voided[d])
  /\ Goto(d, "send") /\ at' = [at EXCEPT ![d] = m]
  /\ UNCHANGED <<order, cap, table, old, faulted, since, scope, limit, held, tries, seen, voided, updates>>

Answered(d) ==
  /\ pc[d] = "send" /\ at' = [at EXCEPT ![d] = None]
  /\ UNCHANGED <<order, cap, table, faulted, since, scope, limit, tries, seen, voided>>
Accepted(d) ==
  /\ Answered(d) /\ Outcome(d, at[d], "sent", tries[d][at[d]], 0, FALSE)
  /\ old' = old \ {at[d]}
Rejected(d) ==
  /\ "rejected" \in Troubles
  /\ Answered(d) /\ Counted(d, at[d], TRUE) /\ UNCHANGED old
\* Rate limit, our key, 5xx, no answer: not the row's fault, and the rest waits too.
Unavailable(d) ==
  /\ Answered(d)
  /\ \E delay \in (IF "rate_limited" \in Troubles THEN {RateLimitRetry} ELSE {})
                  \cup (IF "transient" \in Troubles THEN {TransientRetry} ELSE {}) :
       PutBack(d, held[d] \ {at[d]},
               {[mail |-> at[d], status |-> "pending", attempts |-> tries[d][at[d]], wait |-> delay,
                 own |-> FALSE]})
  /\ UNCHANGED old

Written(m, d) == \E u \in updates[d] : u.mail = m
Update(m, d) == CHOOSE u \in updates[d] : u.mail = m
\* UPDATE ... WHERE id = ?, whatever the row holds by now.
Apply(d) ==
  /\ pc[d] = "apply"
  /\ status' = [m \in Mails |-> IF Written(m, d) THEN Update(m, d).status ELSE status[m]]
  /\ attempts' = [m \in Mails |-> IF Written(m, d) THEN Update(m, d).attempts ELSE attempts[m]]
  /\ wait' = [m \in Mails |-> IF Written(m, d) THEN Update(m, d).wait ELSE wait[m]]
  /\ faulted' = [m \in Mails |-> IF Written(m, d) /\ Update(m, d).own THEN Least(faulted[m] + 1, MaxAttempts)
                                ELSE faulted[m]]
  /\ Forgotten(d)
  /\ UNCHANGED <<order, cap, old>>

\* The isolate ends, or a statement fails and drain throws.
Dies(d) ==
  /\ pc[d] # "idle" /\ "crash" \in Troubles
  /\ Forgotten(d)
  /\ UNCHANGED <<order, cap, table, old, faulted>>

-----------------------------------------------------------------------------
(* Time.                                                                    *)

TimeOut(d) == IF pc[d] = "send" THEN SendTime ELSE StepTime
Passed(w) == AtLeast(w - 1, -Late)

\* Time passes unless an await would outlast its bound. Clocks of finished rows
\* stand still.
Tick ==
  /\ \A d \in Drains : pc[d] # "idle" => spent[d] < TimeOut(d)
  /\ wait' = [m \in Mails |-> IF status[m] = "pending" THEN Passed(wait[m]) ELSE wait[m]]
  /\ since' = [d \in Drains |-> IF pc[d] = "idle" THEN since[d] ELSE since[d] + 1]
  /\ spent' = [d \in Drains |-> IF pc[d] = "idle" THEN spent[d] ELSE spent[d] + 1]
  /\ updates' = [d \in Drains |->
       {[u EXCEPT !.wait = IF u.status = "pending" THEN Passed(@) ELSE @] : u \in updates[d]}]
  /\ UNCHANGED <<order, cap, status, attempts, old, faulted, pc, scope, limit, held, tries, seen, voided, at>>

\* The day matters under a cap only.
Midnight ==
  /\ cap # None /\ old' = Mails
  /\ UNCHANGED <<order, cap, table, faulted, drain>>

-----------------------------------------------------------------------------
\* A drain goes on, and the provider answers for the mail.
Works(d) ==
  \/ Allowance(d) \/ Claim(d) \/ ReadOrders(d) \/ ReadTickets(d)
  \/ OutOfTime(d) \/ (\E m \in Mails : Unsent(d, m) \/ Unrendered(d, m) \/ Send(d, m))
  \/ Accepted(d) \/ Rejected(d) \/ Apply(d)
Drained(d) == Works(d) \/ Unavailable(d)

Others ==
  \/ \E o \in Orders : Pay(o) \/ Review(o) \/ Approve(o) \/ Refund(o) \/ Vanish(o) \/ Fulfil(o)
  \/ Start(Alarm, None) \/ Tick \/ Midnight

Next ==
  \/ Others
  \/ \E d \in Soon, o \in Orders : Start(d, o)
  \/ \E d \in Drains : Drained(d) \/ Dies(d)

Spec == Init /\ [][Next]_vars

\* A step in which no payment sends its mails, nobody dies and the provider is there.
Calm == Others \/ \E d \in Drains : Works(d)

\* The alarm re-arms itself first, so it fires for ever; its sweep finds what was
\* not fulfilled; awaits end; time passes, however much happens in it; payments
\* and troubles do not go on for ever.
Fairness ==
  /\ \A o \in Orders : WF_vars(Fulfil(o))
  /\ WF_vars(Start(Alarm, None)) /\ \A d \in Drains : WF_vars(Drained(d))
  /\ SF_vars(Tick) /\ WF_vars(Midnight)
  /\ <>[][Calm]_vars

FairSpec == Spec /\ Fairness

-----------------------------------------------------------------------------
(* Properties.                                                              *)

InHand(d) == held[d] \cup {u.mail : u \in updates[d]}

\* Two drains at once split the rows between them: the claim hands each to one,
\* and a drain that is alive never loses its rows to the next claim (drain).
OneClaim == \A d, e \in Drains : d # e => InHand(d) \cap InHand(e) = {}

\* No outcome written late overwrites a mail that was sent or has ended
\* (applyOutboxUpdates names the row by its id only).
EndedStays ==
  [][\A m \in Mails : status[m] \in {"sent", "failed"} => status'[m] = status[m]]_vars

\* A mail is given up after MaxAttempts recorded failures of that very mail,
\* refused by the provider or not rendered, or because its order was refunded or
\* deleted: no outage, rate limit, dispute, lost lease or crash uses up an attempt
\* (sendRow).
FailedForAReason ==
  \A m \in Mails : status[m] = "failed"
    => faulted[m] = MaxAttempts \/ order[OrderOf[m]] \in Gone

\* The mails of an order that stays paid end, sent or given up, though the
\* request that was paid died, the cap was reached or drains failed.
PaidIsMailed ==
  \A o \in Orders :
    (order[o] = "paid") ~> (order[o] # "paid" \/ \A m \in Owed(o) : status[m] \in {"sent", "failed"})
=============================================================================
