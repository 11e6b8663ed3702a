---------------------------- MODULE TicketOrders ----------------------------
(***************************************************************************)
(* The order book of the lp-tickets service: checkout, the Stripe session  *)
(* it opens, the settlement rule shared by the webhook, the thanks page    *)
(* and the reconcile alarm, refunds and disputes, and the staff decision   *)
(* on an order under review.                                               *)
(*                                                                         *)
(* Every SQL statement (or D1 batch) of d1-repo.ts is one step; whatever   *)
(* the Worker awaits between two statements is a program counter, so that  *)
(* two requests, the alarm, the clock and Stripe interleave between them.  *)
(* Stripe is external: its sessions, charges and disputes move on their    *)
(* own, and the webhook events it sends may be reordered, repeated, or     *)
(* lost.                                                                   *)
(***************************************************************************)
EXTENDS Integers, FiniteSets

CONSTANTS
  Orders,          \* order ids; each is the id of one checkout request
  None,            \* "no order"
  Requests,        \* concurrent Worker requests (webhook, thanks page, staff)
  Cron,            \* the reconcile alarm of TicketReconcileDO
  Types,           \* ticket types
  Capacity,        \* seats of each type (an unlimited type has a large one)
  MaxQty,          \* MAX_PER_ORDER_MAX: most tickets of one type per order
  Carts,           \* what a buyer may ask for: a quantity of each type
  CouponType,      \* the type the coupon opens
  CouponMax,       \* max_uses of the coupon
  ClientMax,       \* PER_CLIENT_HELD_MAX; every order is from one sender
  Ttl,             \* CHECKOUT_TTL_SEC: how long Stripe accepts a payment
  Hold,            \* PENDING_HOLD_MS: how long a pending order holds seats
  MinAge, MaxAge,  \* the reconcile window
  LastStart,       \* bound: no checkout starts after this time
  MaxTime,         \* bound: the clock stops here
  Happenings       \* which kinds of external event a run explores

AllHappenings == {"coupon", "async", "mismatch", "refund", "dispute",
                  "staff", "crash", "loss", "thanks", "duplicate"}

\* The session outlives neither its seat nor the clock: CHECKOUT_TTL_SEC is
\* 31 minutes, PENDING_HOLD_MS 35.
ASSUME OrdersAssumption == IsFiniteSet(Orders) /\ None \notin Orders
ASSUME CronAssumption == Cron \notin Requests
ASSUME SeatsAssumption ==
  /\ Capacity \in [Types -> Nat]
  /\ IsFiniteSet(Types) /\ MaxQty \in Nat
  /\ Carts \subseteq [Types -> 0..MaxQty]
  /\ CouponType \in Types
  /\ CouponMax \in Nat /\ ClientMax \in Nat
ASSUME TimeAssumption ==
  /\ Ttl \in Nat /\ Hold \in Nat /\ Ttl < Hold
  /\ MinAge \in Nat /\ MaxAge \in Nat /\ LastStart \in Nat /\ MaxTime \in Nat
ASSUME RunAssumption == Happenings \subseteq AllHappenings

VARIABLES
  now,        \* the clock
  checkout,   \* where each checkout request stands
  cart,       \* the items of each order
  coupon,     \* is it a (free) coupon order?
  created,    \* created_at
  status,     \* status of the order row, "absent" before the insert
  linked,     \* is stripe_session_id stored?
  intent,     \* is payment_intent_id stored?
  reason,     \* review_reason
  tickets,    \* the rows of lp_tickets of the order
  couponOn,   \* active flag of the coupon
  session,    \* Stripe: the checkout session of the order
  exact,      \* Stripe: did it collect the right amount and currency?
  charge,     \* Stripe: where the buyer's money is
  dispute,    \* Stripe: the chargeback on that money
  events,     \* webhook events Stripe has yet to see acknowledged
  job,        \* what each request and the alarm are in the middle of
  todo,       \* orders the running reconcile pass has listed
  waved,      \* history: orders under review since their settlement, which
              \* hold seats whether or not those fit
  lapsed,     \* history: orders whose hold lapsed while a settlement of theirs
              \* stood between its check and its write
  slipped     \* history: those of them that were paid although their seats
              \* no longer fitted

stripe == <<session, exact, charge, dispute>>
row    == <<cart, coupon, created>>
history == <<waved, lapsed, slipped>>
vars   == <<now, checkout, cart, coupon, created, status, linked, intent, reason,
            tickets, couponOn, session, exact, charge, dispute, events, job, todo, history>>

Status == {"absent", "pending", "paid", "expired", "needs_review", "refunded"}
CheckoutPc == {"none", "checked", "creating", "storing", "aborting", "issuing",
               "redirected", "over"}
SessionEvents == {"completed_paid", "completed_unpaid", "async_succeeded",
                  "async_failed", "expired"}
ChargeEvents == {"refunded", "dispute_created", "dispute_lost", "dispute_won"}
Jobs == Requests \cup {Cron}
JobPc == {"idle", "loop", "fetch", "decide", "review", "pay", "release", "issue", "approve"}
Job == [pc: JobPc, order: Orders \cup {None}, seen: Status, paid: BOOLEAN,
        gone: BOOLEAN, late: BOOLEAN, event: SessionEvents \cup ChargeEvents \cup {"none"}]
Idle == [pc |-> "idle", order |-> None, seen |-> "absent", paid |-> FALSE,
         gone |-> FALSE, late |-> FALSE, event |-> "none"]

TypeOK ==
  /\ now \in 0..MaxTime
  /\ checkout \in [Orders -> CheckoutPc]
  /\ cart \in [Orders -> [Types -> 0..MaxQty]]
  /\ coupon \in [Orders -> BOOLEAN]
  /\ created \in [Orders -> 0..MaxTime]
  /\ status \in [Orders -> Status]
  /\ linked \in [Orders -> BOOLEAN]
  /\ intent \in [Orders -> BOOLEAN]
  /\ reason \in [Orders -> {"none", "oversold", "mismatch", "dispute"}]
  /\ tickets \in [Orders -> {"none", "valid", "void"}]
  /\ couponOn \in BOOLEAN
  /\ session \in [Orders -> {"none", "open", "processing", "paid", "failed", "expired"}]
  /\ exact \in [Orders -> BOOLEAN]
  /\ charge \in [Orders -> {"none", "taken", "returned"}]
  /\ dispute \in [Orders -> {"none", "open", "lost", "won"}]
  /\ events \subseteq (SessionEvents \cup ChargeEvents) \X Orders
  /\ job \in [Jobs -> Job]
  /\ todo \subseteq Orders
  /\ waved \subseteq Orders /\ lapsed \subseteq Orders /\ slipped \subseteq Orders

Init ==
  /\ now = 0
  /\ checkout = [o \in Orders |-> "none"]
  /\ cart = [o \in Orders |-> [t \in Types |-> 0]]
  /\ coupon = [o \in Orders |-> FALSE]
  /\ created = [o \in Orders |-> 0]
  /\ status = [o \in Orders |-> "absent"]
  /\ linked = [o \in Orders |-> FALSE]
  /\ intent = [o \in Orders |-> FALSE]
  /\ reason = [o \in Orders |-> "none"]
  /\ tickets = [o \in Orders |-> "none"]
  /\ couponOn = TRUE
  /\ session = [o \in Orders |-> "none"]
  /\ exact = [o \in Orders |-> FALSE]
  /\ charge = [o \in Orders |-> "none"]
  /\ dispute = [o \in Orders |-> "none"]
  /\ events = {}
  /\ job = [j \in Jobs |-> Idle]
  /\ todo = {}
  /\ waved = {} /\ lapsed = {} /\ slipped = {}

-----------------------------------------------------------------------------
(* Seats. A seat is <<<<order, type>>, n>>, one per ticket as fulfilmentOf makes   *)
(* them, so that SUM(quantity) of a query is the cardinality of a set of seats. *)

Bundle(o, c) == {s \in ({o} \X Types) \X (1..MaxQty) : s[2] <= c[s[1][2]]}
Seats(o) == Bundle(o, cart[o])
OfType(S, t) == {s \in S : s[1][2] = t}

InHold(o) == created[o] >= now - Hold
\* HELD: paid and needs_review orders, and pending ones inside the hold.
Held(o) == status[o] \in {"paid", "needs_review"} \/ (status[o] = "pending" /\ InHold(o))
HeldSeats == UNION {Seats(o) : o \in {x \in Orders : Held(x)}}

\* Do the seats of o fit beside everything else that is held?
Fits(o) ==
  \A t \in Types : cart[o][t] > 0 => Cardinality(OfType(HeldSeats \cup Seats(o), t)) <= Capacity[t]

CouponSeats == UNION {Seats(o) : o \in {x \in Orders : coupon[x] /\ Held(x)}}

Bug_CouponLastUse(o) == couponOn /\ Cardinality(CouponSeats) <= CouponMax
\* The EXISTS of the order insert: the coupon is (still) active and has room.
CouponHasRoom(o) == couponOn /\ Cardinality(CouponSeats \cup Seats(o)) <= CouponMax

\* heldPendingByClient: unpaid seats of the (one) sender.
ClientSeats == UNION {Seats(o) : o \in {x \in Orders : status[x] = "pending" /\ InHold(x)}}

-----------------------------------------------------------------------------
(* The statements of d1-repo.ts, each atomic on D1's single writer.          *)

\* UPDATE ... SET status = 'expired' WHERE id = ? AND status = 'pending'
Bug_ExpireAsFailed(o) ==
  status' = IF status[o] = "pending" THEN [status EXCEPT ![o] = "failed"] ELSE status
markOrderExpired(o) ==
  status' = IF status[o] = "pending" THEN [status EXCEPT ![o] = "expired"] ELSE status

\* paid, or needs_review "oversold" when `late` asks for the capacity check and
\* the seats are gone; no row unless the order is pending or expired.
markOrderPaid(o, late) ==
  LET open == status[o] \in {"pending", "expired"}
      over == open /\ late /\ ~Fits(o)
  IN /\ status' = IF open THEN [status EXCEPT ![o] = IF over THEN "needs_review" ELSE "paid"]
                  ELSE status
     /\ reason' = IF open THEN [reason EXCEPT ![o] = IF over THEN "oversold" ELSE "none"]
                  ELSE reason
     /\ linked' = [linked EXCEPT ![o] = @ \/ open]
     /\ intent' = [intent EXCEPT ![o] = @ \/ open]
     /\ waved' = IF over THEN waved \cup {o} ELSE waved
     /\ slipped' = IF open /\ ~over /\ o \in lapsed /\ ~Fits(o) THEN slipped \cup {o} ELSE slipped
     /\ UNCHANGED lapsed

\* UPDATE ... 'needs_review' WHERE status IN ('pending', 'expired', 'paid')
Bug_ReviewAny(o, why) ==
  /\ status' = [status EXCEPT ![o] = "needs_review"]
  /\ reason' = [reason EXCEPT ![o] = why]
  /\ intent' = [intent EXCEPT ![o] = @ \/ why = "mismatch"]
  /\ UNCHANGED history
markOrderNeedsReview(o, why) ==
  LET open == status[o] \in {"pending", "expired", "paid"}
  IN /\ status' = IF open THEN [status EXCEPT ![o] = "needs_review"] ELSE status
     /\ reason' = IF open THEN [reason EXCEPT ![o] = why] ELSE reason
     \* only the settlement passes a payment_intent
     /\ intent' = [intent EXCEPT ![o] = @ \/ (open /\ why = "mismatch")]
     /\ waved' = IF status[o] \in {"pending", "expired"} THEN waved \cup {o} ELSE waved
     /\ UNCHANGED <<lapsed, slipped>>

\* One batch: the order becomes refunded, its valid tickets void.
markOrderRefunded(o) ==
  /\ status' = IF status[o] \in {"paid", "needs_review"} THEN [status EXCEPT ![o] = "refunded"]
               ELSE status
  /\ tickets' = IF tickets[o] = "valid" THEN [tickets EXCEPT ![o] = "void"] ELSE tickets

\* needs_review -> paid, with `only` restricted to orders under that reason.
approveOrder(o, only) ==
  status' = IF status[o] = "needs_review" /\ (only = "none" \/ reason[o] = only)
            THEN [status EXCEPT ![o] = "paid"] ELSE status

Bug_IssueUnguarded(o) ==
  tickets' = IF tickets[o] = "none" THEN [tickets EXCEPT ![o] = "valid"] ELSE tickets
\* fulfill + issueFulfilment: INSERT OR IGNORE ... WHERE the order is paid now.
issueFulfilment(o) ==
  tickets' = IF status[o] = "paid" /\ tickets[o] = "none" THEN [tickets EXCEPT ![o] = "valid"]
             ELSE tickets

-----------------------------------------------------------------------------
(* checkout(): one request per order id, awaiting D1 and Stripe in turn.        *)

rest == <<now, couponOn, events, job, todo>>

\* Up to the insert: settings, coupon and per-sender limit, read beforehand.
Begin(o, c, free) ==
  /\ checkout[o] = "none" /\ now <= LastStart
  /\ IF free THEN couponOn /\ {t \in Types : c[t] > 0} = {CouponType}
     ELSE Cardinality(ClientSeats) + Cardinality(Bundle(o, c)) <= ClientMax
  /\ checkout' = [checkout EXCEPT ![o] = "checked"]
  /\ cart' = [cart EXCEPT ![o] = c]
  /\ coupon' = [coupon EXCEPT ![o] = free]
  /\ created' = [created EXCEPT ![o] = now]
  /\ UNCHANGED <<rest, status, linked, intent, reason, tickets, stripe, history>>

\* insertOrderIfAvailable: one batch that leaves the whole order or nothing.
Insert(o) ==
  /\ checkout[o] = "checked"
  /\ IF Fits(o) /\ (coupon[o] => CouponHasRoom(o))
     THEN /\ status' = [status EXCEPT ![o] = IF coupon[o] THEN "paid" ELSE "pending"]
          /\ checkout' = [checkout EXCEPT ![o] = IF coupon[o] THEN "issuing" ELSE "creating"]
     ELSE /\ checkout' = [checkout EXCEPT ![o] = "over"]
          /\ UNCHANGED status
  /\ UNCHANGED <<rest, row, linked, intent, reason, tickets, stripe, history>>

\* onPaid of a free order.
IssueFree(o) ==
  /\ checkout[o] = "issuing"
  /\ issueFulfilment(o)
  /\ checkout' = [checkout EXCEPT ![o] = "over"]
  /\ UNCHANGED <<rest, row, status, linked, intent, reason, stripe, history>>

Bug_RedirectFirst(o, answered) ==
  /\ checkout[o] = "creating" /\ now < created[o] + Ttl
  /\ session' = [session EXCEPT ![o] = "open"]
  /\ checkout' = [checkout EXCEPT ![o] = IF answered THEN "redirected" ELSE "aborting"]
  /\ UNCHANGED <<rest, row, status, linked, intent, reason, tickets, exact, charge, dispute, history>>
\* createCheckoutSession; the answer may be lost after Stripe made the session.
CreateSession(o, answered) ==
  /\ checkout[o] = "creating" /\ now < created[o] + Ttl
  /\ session' = [session EXCEPT ![o] = "open"]
  /\ checkout' = [checkout EXCEPT ![o] = IF answered THEN "storing" ELSE "aborting"]
  /\ UNCHANGED <<rest, row, status, linked, intent, reason, tickets, exact, charge, dispute, history>>

CreateFails(o) ==
  /\ checkout[o] = "creating"
  /\ checkout' = [checkout EXCEPT ![o] = "aborting"]
  /\ UNCHANGED <<rest, row, status, linked, intent, reason, tickets, stripe, history>>

Abort(o) ==
  /\ checkout[o] = "aborting"
  /\ markOrderExpired(o)
  /\ checkout' = [checkout EXCEPT ![o] = "over"]
  /\ UNCHANGED <<rest, row, linked, intent, reason, tickets, stripe, history>>

\* setOrderSession, and only then the payment URL goes to the buyer.
StoreSession(o) ==
  /\ checkout[o] = "storing"
  /\ linked' = [linked EXCEPT ![o] = TRUE]
  /\ checkout' = [checkout EXCEPT ![o] = "redirected"]
  /\ UNCHANGED <<rest, row, status, intent, reason, tickets, stripe, history>>

\* The Worker dies, or the write it awaits throws.
CheckoutCrash(o) ==
  /\ "crash" \in Happenings
  /\ checkout[o] \in {"checked", "creating", "storing", "aborting", "issuing"}
  /\ checkout' = [checkout EXCEPT ![o] = "over"]
  /\ UNCHANGED <<rest, row, status, linked, intent, reason, tickets, stripe, history>>

\* Staff pause or reopen the coupon.
SetCouponActive ==
  /\ "coupon" \in Happenings
  /\ couponOn' = ~couponOn
  /\ UNCHANGED <<now, checkout, row, status, linked, intent, reason, tickets, stripe, events,
                 job, todo, history>>

-----------------------------------------------------------------------------
(* Stripe and the buyer.                                                        *)

db == <<checkout, row, status, linked, intent, reason, tickets, history>>

Emit(type, o) == events' = events \cup {<<type, o>>}

\* The buyer, who has the URL, pays at once.
Pay(o, right) ==
  /\ checkout[o] = "redirected" /\ session[o] = "open" /\ now < created[o] + Ttl
  /\ session' = [session EXCEPT ![o] = "paid"]
  /\ exact' = [exact EXCEPT ![o] = right]
  /\ charge' = [charge EXCEPT ![o] = "taken"]
  /\ Emit("completed_paid", o)
  /\ UNCHANGED <<now, db, couponOn, dispute, job, todo>>

\* A delayed payment method: the session completes, the money is still to come.
PayLater(o) ==
  /\ "async" \in Happenings
  /\ checkout[o] = "redirected" /\ session[o] = "open" /\ now < created[o] + Ttl
  /\ session' = [session EXCEPT ![o] = "processing"]
  /\ Emit("completed_unpaid", o)
  /\ UNCHANGED <<now, db, couponOn, exact, charge, dispute, job, todo>>

AsyncSucceeds(o, right) ==
  /\ session[o] = "processing"
  /\ session' = [session EXCEPT ![o] = "paid"]
  /\ exact' = [exact EXCEPT ![o] = right]
  /\ charge' = [charge EXCEPT ![o] = "taken"]
  /\ Emit("async_succeeded", o)
  /\ UNCHANGED <<now, db, couponOn, dispute, job, todo>>

AsyncFails(o) ==
  /\ session[o] = "processing"
  /\ session' = [session EXCEPT ![o] = "failed"]
  /\ Emit("async_failed", o)
  /\ UNCHANGED <<now, db, couponOn, exact, charge, dispute, job, todo>>

SessionExpires(o) ==
  /\ session[o] = "open" /\ now >= created[o] + Ttl
  /\ session' = [session EXCEPT ![o] = "expired"]
  /\ Emit("expired", o)
  /\ UNCHANGED <<now, db, couponOn, exact, charge, dispute, job, todo>>

\* A full refund from the Stripe dashboard.
Refund(o) ==
  /\ "refund" \in Happenings
  /\ charge[o] = "taken" /\ dispute[o] # "open"
  /\ charge' = [charge EXCEPT ![o] = "returned"]
  /\ Emit("refunded", o)
  /\ UNCHANGED <<now, db, couponOn, session, exact, dispute, job, todo>>

DisputeOpens(o) ==
  /\ "dispute" \in Happenings
  /\ charge[o] = "taken" /\ dispute[o] = "none"
  /\ dispute' = [dispute EXCEPT ![o] = "open"]
  /\ Emit("dispute_created", o)
  /\ UNCHANGED <<now, db, couponOn, session, exact, charge, job, todo>>

DisputeCloses(o, won) ==
  /\ dispute[o] = "open"
  /\ dispute' = [dispute EXCEPT ![o] = IF won THEN "won" ELSE "lost"]
  /\ charge' = IF won THEN charge ELSE [charge EXCEPT ![o] = "returned"]
  /\ Emit(IF won THEN "dispute_won" ELSE "dispute_lost", o)
  /\ UNCHANGED <<now, db, couponOn, session, exact, job, todo>>

\* Stripe stops retrying, or the endpoint is misconfigured.
LoseEvent(e) ==
  /\ "loss" \in Happenings
  /\ events' = events \ {e}
  /\ UNCHANGED <<now, db, couponOn, stripe, job, todo>>

-----------------------------------------------------------------------------
(* Settlement. A webhook request, the thanks page (confirm) and the alarm's     *)
(* pass each read the order, learn the session's state, decide, and write.      *)

quiet == <<now, checkout, row, couponOn, stripe>>

Become(j, r) == job' = [job EXCEPT ![j] = r]
\* The alarm goes back to its list of orders, a request is answered.
Finished(j) == IF j = Cron THEN [Idle EXCEPT !.pc = "loop"] ELSE Idle

\* A delivery removes the event (2xx seen) or leaves it to be repeated.
Take(e) == \/ events' = events \ {e}
           \/ "duplicate" \in Happenings /\ UNCHANGED events

\* webhook(), session events: the order is read; the payload is the event's.
ReceiveSession(r, e) ==
  /\ job[r] = Idle /\ e \in events /\ e[1] \in SessionEvents
  /\ Become(r, [Idle EXCEPT !.pc = "decide", !.order = e[2], !.seen = status[e[2]],
                            !.paid = e[1] \in {"completed_paid", "async_succeeded"},
                            !.gone = e[1] \in {"expired", "async_failed"},
                            !.event = e[1]])
  /\ Take(e)
  /\ UNCHANGED <<quiet, status, linked, intent, reason, tickets, todo, history>>

\* confirm(): the thanks page asks Stripe only about a pending order.
Confirm(r, o) ==
  /\ "thanks" \in Happenings
  /\ job[r] = Idle /\ checkout[o] = "redirected" /\ linked[o] /\ status[o] = "pending"
  /\ Become(r, [Idle EXCEPT !.pc = "fetch", !.order = o, !.seen = "pending"])
  /\ UNCHANGED <<quiet, status, linked, intent, reason, tickets, events, todo, history>>

Bug_FetchIgnoresExpired(j) ==
  /\ job[j].pc = "fetch"
  /\ Become(j, [job[j] EXCEPT !.pc = "decide", !.paid = session[job[j].order] = "paid"])
  /\ UNCHANGED <<quiet, status, linked, intent, reason, tickets, events, todo, history>>
\* getCheckoutSession: the session as it is now.
Fetch(j) ==
  /\ job[j].pc = "fetch"
  /\ Become(j, [job[j] EXCEPT !.pc = "decide", !.paid = session[job[j].order] = "paid",
                              !.gone = session[job[j].order] = "expired"])
  /\ UNCHANGED <<quiet, status, linked, intent, reason, tickets, events, todo, history>>

FetchFails(j) ==
  /\ job[j].pc = "fetch"
  /\ Become(j, Finished(j))
  /\ UNCHANGED <<quiet, status, linked, intent, reason, tickets, events, todo, history>>

\* What settle makes of the order as it was read and the session.
Bug_VerdictIgnoresAmount(j) ==
  IF job[j].seen \notin {"pending", "expired"} THEN "unchanged"
  ELSE IF job[j].paid THEN "pay"
  ELSE IF job[j].gone THEN "release" ELSE "unchanged"
Bug_VerdictUnpaidIsGone(j) ==
  IF job[j].seen \notin {"pending", "expired"} THEN "unchanged"
  ELSE IF job[j].paid THEN IF exact[job[j].order] THEN "pay" ELSE "review"
  ELSE "release"
Verdict(j) ==
  IF job[j].seen \notin {"pending", "expired"} THEN "unchanged"
  ELSE IF job[j].paid THEN IF exact[job[j].order] THEN "pay" ELSE "review"
  ELSE IF job[j].gone THEN "release" ELSE "unchanged"

\* late: the seats may have gone to someone else since.
Bug_LateIfExpired(j) == job[j].seen = "expired"
Late(j) == job[j].seen = "expired" \/ ~InHold(job[j].order)

Decide(j) ==
  /\ job[j].pc = "decide"
  /\ Become(j, IF Verdict(j) = "unchanged" THEN Finished(j)
               ELSE [job[j] EXCEPT !.pc = Verdict(j), !.late = Verdict(j) = "pay" /\ Late(j)])
  /\ UNCHANGED <<quiet, status, linked, intent, reason, tickets, events, todo, history>>

WriteReview(j) ==
  /\ job[j].pc = "review"
  /\ markOrderNeedsReview(job[j].order, "mismatch")
  /\ Become(j, Finished(j))
  /\ UNCHANGED <<quiet, linked, tickets, events, todo>>

WritePaid(j) ==
  LET o == job[j].order
  IN /\ job[j].pc = "pay"
     /\ markOrderPaid(o, job[j].late)
     /\ Become(j, IF status[o] # "paid" /\ status'[o] = "paid"
                  THEN [job[j] EXCEPT !.pc = "issue", !.late = FALSE] ELSE Finished(j))
     /\ UNCHANGED <<quiet, tickets, events, todo>>

WriteExpired(j) ==
  /\ job[j].pc = "release"
  /\ markOrderExpired(job[j].order)
  /\ Become(j, Finished(j))
  /\ UNCHANGED <<quiet, linked, intent, reason, tickets, events, todo, history>>

\* onPaid: fulfil the order; a failure is logged and left to the sweep.
Issue(j) ==
  /\ job[j].pc = "issue"
  /\ \/ issueFulfilment(job[j].order)
     \/ "crash" \in Happenings /\ UNCHANGED tickets
  /\ Become(j, Finished(j))
  /\ UNCHANGED <<quiet, status, linked, intent, reason, events, todo, history>>

\* applyCharge: found by payment_intent, or dropped.
ReceiveCharge(r, e) ==
  LET o == e[2]
  IN /\ job[r] = Idle /\ e \in events /\ e[1] \in ChargeEvents
     /\ \/ ~intent[o] /\ UNCHANGED <<status, reason, intent, tickets, history>>
        \/ /\ intent[o] /\ e[1] = "dispute_created"
           /\ markOrderNeedsReview(o, "dispute") /\ UNCHANGED tickets
        \/ /\ intent[o] /\ e[1] \in {"dispute_lost", "refunded"}
           /\ markOrderRefunded(o) /\ UNCHANGED <<reason, intent, history>>
        \/ /\ intent[o] /\ e[1] = "dispute_won"
           /\ approveOrder(o, "dispute") /\ UNCHANGED <<reason, intent, tickets, history>>
     /\ Become(r, IF e[1] = "dispute_won" /\ status[o] # status'[o]
                  THEN [Idle EXCEPT !.pc = "issue", !.order = o, !.event = e[1]] ELSE Idle)
     /\ Take(e)
     /\ UNCHANGED <<quiet, linked, todo>>

\* approve(): staff, who may not decide an open dispute, then the write.
ApproveRead(r, o) ==
  /\ "staff" \in Happenings
  /\ job[r] = Idle /\ status[o] # "absent"
  /\ ~(status[o] = "needs_review" /\ reason[o] = "dispute")
  /\ Become(r, [Idle EXCEPT !.pc = "approve", !.order = o])
  /\ UNCHANGED <<quiet, status, linked, intent, reason, tickets, events, todo, history>>

ApproveWrite(r) ==
  LET o == job[r].order
  IN /\ job[r].pc = "approve"
     /\ approveOrder(o, "none")
     /\ Become(r, IF status[o] # status'[o] THEN [Idle EXCEPT !.pc = "issue", !.order = o] ELSE Idle)
     /\ UNCHANGED <<quiet, linked, intent, reason, tickets, events, todo, history>>

\* A request dies: Stripe sees no 2xx and delivers its event again.
Crash(r) ==
  /\ "crash" \in Happenings
  /\ r \in Requests /\ job[r] # Idle
  /\ events' = IF job[r].event = "none" THEN events ELSE events \cup {<<job[r].event, job[r].order>>}
  /\ Become(r, Idle)
  /\ UNCHANGED <<quiet, status, linked, intent, reason, tickets, todo, history>>

-----------------------------------------------------------------------------
(* The reconcile pass of the alarm.                                             *)

Bug_WindowReversed ==
  /\ job[Cron].pc = "idle"
  /\ status' = [o \in Orders |-> IF status[o] = "pending" /\ ~linked[o] /\ ~InHold(o)
                                 THEN "expired" ELSE status[o]]
  /\ todo' = {o \in Orders : /\ status[o] = "pending" /\ linked[o]
                             /\ created[o] >= now - MinAge /\ created[o] < now - MaxAge}
  /\ Become(Cron, Finished(Cron))
  /\ UNCHANGED <<quiet, linked, intent, reason, tickets, events, history>>
\* expireSessionlessPending, then listPendingWithSession.
CronStart ==
  /\ job[Cron].pc = "idle"
  /\ status' = [o \in Orders |-> IF status[o] = "pending" /\ ~linked[o] /\ ~InHold(o)
                                 THEN "expired" ELSE status[o]]
  /\ todo' = {o \in Orders : /\ status[o] = "pending" /\ linked[o]
                             /\ created[o] >= now - MaxAge /\ created[o] < now - MinAge}
  /\ Become(Cron, Finished(Cron))
  /\ UNCHANGED <<quiet, linked, intent, reason, tickets, events, history>>

CronTake(o) ==
  /\ job[Cron].pc = "loop" /\ o \in todo
  /\ todo' = todo \ {o}
  /\ Become(Cron, [Idle EXCEPT !.pc = "fetch", !.order = o, !.seen = "pending"])
  /\ UNCHANGED <<quiet, status, linked, intent, reason, tickets, events, history>>

Bug_NoSweep ==
  /\ job[Cron].pc = "loop" /\ todo = {}
  /\ Become(Cron, Idle)
  /\ UNCHANGED <<quiet, status, linked, intent, reason, tickets, events, todo, history>>
\* The sweep of reconcilePass: paid orders that nobody fulfilled.
CronSweep ==
  /\ job[Cron].pc = "loop" /\ todo = {}
  /\ tickets' = [o \in Orders |-> IF status[o] = "paid" /\ tickets[o] = "none"
                                  THEN "valid" ELSE tickets[o]]
  /\ Become(Cron, Idle)
  /\ UNCHANGED <<quiet, status, linked, intent, reason, events, todo, history>>

\* The clock does not wait for a settlement that is about to write.
Tick ==
  /\ now < MaxTime
  /\ now' = now + 1
  /\ lapsed' = lapsed \cup
       {o \in Orders : created[o] = now - Hold /\ \E j \in Jobs : job[j].pc = "pay" /\ job[j].order = o}
  /\ UNCHANGED <<checkout, row, status, linked, intent, reason, tickets, couponOn, stripe,
                 events, job, todo, waved, slipped>>

-----------------------------------------------------------------------------
Amounts == IF "mismatch" \in Happenings THEN BOOLEAN ELSE {TRUE}
Answers == IF "crash" \in Happenings THEN BOOLEAN ELSE {TRUE}

CheckoutStep(o) ==
  \/ \E c \in Carts, free \in (IF "coupon" \in Happenings THEN BOOLEAN ELSE {FALSE}) : Begin(o, c, free)
  \/ Insert(o) \/ IssueFree(o) \/ CreateFails(o) \/ Abort(o) \/ StoreSession(o) \/ CheckoutCrash(o)
  \/ \E answered \in Answers : CreateSession(o, answered)

StripeStep(o) ==
  \/ \E right \in Amounts : Pay(o, right) \/ AsyncSucceeds(o, right)
  \/ PayLater(o) \/ AsyncFails(o) \/ SessionExpires(o)
  \/ Refund(o) \/ DisputeOpens(o)
  \/ \E won \in BOOLEAN : DisputeCloses(o, won)

SettleStep(j) ==
  Fetch(j) \/ FetchFails(j) \/ Decide(j) \/ WriteReview(j) \/ WritePaid(j) \/ WriteExpired(j) \/ Issue(j)

RequestStep(r) ==
  \/ \E e \in events : ReceiveSession(r, e) \/ ReceiveCharge(r, e)
  \/ \E o \in Orders : Confirm(r, o) \/ ApproveRead(r, o)
  \/ ApproveWrite(r) \/ Crash(r)

CronStep == CronStart \/ CronSweep \/ \E o \in Orders : CronTake(o)

Next ==
  \/ \E o \in Orders : CheckoutStep(o) \/ StripeStep(o)
  \/ \E j \in Jobs : SettleStep(j)
  \/ \E r \in Requests : RequestStep(r)
  \/ CronStep
  \/ \E e \in events : LoseEvent(e)
  \/ SetCouponActive
  \/ Tick

Spec == Init /\ [][Next]_vars

\* The alarm fires again and again and each of its awaits ends; Stripe answers
\* it now and then; time passes and sessions expire. Nothing is assumed of
\* webhooks, of the thanks page or of the checkout request.
Fairness ==
  /\ WF_vars(CronStep)
  /\ SF_vars(Fetch(Cron))
  /\ WF_vars(SettleStep(Cron))
  /\ WF_vars(Tick)
  /\ \A o \in Orders : WF_vars(SessionExpires(o))

FairSpec == Spec /\ Fairness

-----------------------------------------------------------------------------
(* Properties.                                                                  *)

\* No type is oversold but by the orders that staff have to look at and by those
\* whose hold lapsed between settle's check and its UPDATE: the seats of all
\* other orders that are paid, approved or on hold fit together, whatever
\* checkouts, late settlements and lapsing holds race for the last one
\* (insertOrderIfAvailable, markOrderPaid).
Sold == {o \in Orders \ (waved \cup slipped) : Held(o)}
SoldSeats == UNION {Seats(o) : o \in Sold}
NoOversell == \A t \in Types : Cardinality(OfType(SoldSeats, t)) <= Capacity[t]

\* The uses of a coupon never exceed max_uses (the EXISTS of the order insert).
CouponWithinLimit ==
  Cardinality(UNION {Seats(o) : o \in {x \in Orders : coupon[x] /\ status[x] # "absent"}}) <= CouponMax

\* Money is only ever on its way to a session that the order row names: there
\* is no "money taken, order unknown" (checkout stores the session first).
MoneyHasAnOrder ==
  \A o \in Orders : session[o] \in {"processing", "paid"} => linked[o] /\ status[o] # "absent"

\* An order that settled as paid by itself was paid, in full and in yen.
PaidMeansPaid ==
  \A o \in Orders : status[o] = "paid" /\ ~coupon[o] /\ o \notin waved
                    => exact[o] /\ charge[o] # "none"

\* An order whose money arrived is never given up as expired: releasing a seat
\* and settling the same order cannot cross (settle, markOrderExpired).
MoneyIsNeverReleased ==
  \A o \in Orders : status[o] = "expired" => charge[o] = "none"

\* A refunded order really got its money back, and none of its tickets admits
\* anyone, not even one issued by a fulfilment that raced the refund.
RefundIsComplete ==
  \A o \in Orders : status[o] = "refunded" => charge[o] = "returned" /\ tickets[o] # "valid"

\* No step un-settles an order: a refund is final, and a paid or reviewed order
\* never becomes unpaid again, in whatever order late and repeated events come.
StaysSettled(o) ==
  /\ status[o] = "refunded" => status'[o] = "refunded"
  /\ status[o] \in {"paid", "needs_review"} => status'[o] \in {"paid", "needs_review", "refunded"}
  /\ tickets[o] = "void" => tickets'[o] = "void"
NoUnsettling == [][\A o \in Orders : StaysSettled(o)]_vars

\* Taken money settles even if every webhook is lost and nobody opens the
\* thanks page: the alarm's pass finds the order.
MoneySettles ==
  \A o \in Orders : (session[o] = "paid") ~> (status[o] \notin {"absent", "pending", "expired"})

\* A paid order gets its tickets even if the request that settled it died.
TicketsFollow ==
  \A o \in Orders : (status[o] = "paid") ~> (tickets[o] # "none" \/ status[o] # "paid")

\* An abandoned checkout gives its seats back.
AbandonedIsReleased ==
  \A o \in Orders : (session[o] = "expired") ~> (status[o] # "pending")

(* What the comments of the code claim and the code does not keep.              *)

\* "A late settle that no longer fits capacity -> needs_review": what is sold
\* without a review fits.
LateIsReviewed ==
  \A t \in Types :
    Cardinality(OfType(UNION {Seats(o) : o \in {x \in Orders \ waved : Held(x)}}, t)) <= Capacity[t]

\* "Unpaid seats one sender may hold at once" (PER_CLIENT_HELD_MAX).
SenderWithinLimit == Cardinality(ClientSeats) <= ClientMax

\* "An open dispute is decided by Stripe, not by us": once its event was
\* delivered, no write of approve() turns the disputed order into a paid one.
DisputeIsStripes ==
  [][\A o \in Orders : dispute[o] = "open" /\ <<"dispute_created", o>> \notin events
                       => ~(status[o] = "needs_review" /\ status'[o] = "paid")]_vars

Settled(o) == /\ \A e \in events : e[2] # o
              /\ \A j \in Jobs : job[j].order # o

\* "dispute.closed settles it automatically": with every event delivered, a
\* closed dispute leaves no order waiting for its outcome.
ClosedDisputeIsSettled ==
  \A o \in Orders : dispute[o] \in {"won", "lost"} /\ Settled(o)
                    => ~(status[o] = "needs_review" /\ reason[o] = "dispute")

\* "charge.refunded (full only) -> refunded": with every event delivered, an
\* order whose money went back is refunded.
RefundArrives ==
  \A o \in Orders : charge[o] = "returned" /\ Settled(o) => status[o] # "paid"
=============================================================================
