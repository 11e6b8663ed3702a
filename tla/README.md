# A TLA+ development of dub-ecosystem

dub-ecosystem is a pnpm monorepo of about 25 Cloudflare Workers that share a few D1
databases, a handful of Durable Objects and a set of front ends. Most of what can go
wrong in it happens between two `await`s: a Worker reads a row, another request, an
alarm or an external service moves on, and the Worker writes. This directory models the
parts where such interleavings decide about money, messages, mail or the agreement of two
systems, and the one algorithm the schedules rest on.

    TicketOrders        the order book of lp-tickets               (services/lp-tickets)
    TicketDelivery      its tickets and its mail outbox            (services/lp-tickets)
    EventBus            what the event bus promises (abstract)
    FreeqOutbox         the free-tier event bus and its drain      (packages/freeq, services/freeq-drain)
    NotificationIngest  ingest, fan-out and broadcasts             (services/notification)
    MailSend            the send core and scheduled sends          (services/mail-gateway)
    TaskService         tasks, versions, dependencies              (services/task-service)
    GithubSync          an issue and its task (extends TaskService) (services/github-sync)
    GanttCalendar, GanttGraph, GanttSchedule                       (packages/gantt-calc)

For a module `M` there may be `MProofs` (extends `M`; theorems proved with TLAPS), and `MCM`
(extends `M` or `MProofs`; instances for TLC). EventBus is checked and proved as what FreeqOutbox
implements. In every module one D1 statement (or batch) and one call of
another service is one step; what a Worker awaits in between is a program counter. D1 is one writer
per database, so a statement is atomic and nothing else is. In the Gantt modules one iteration of a
loop is one step.

Definitions called `Bug_...` are never used by a specification: each is a mutated form of the
definition after it, listed in PROJECT.json with the property that finds it out.

To check: `tlc -config <run>.cfg <MC module>`, `tlapm <Proofs module>`.

## 1. The system

### How the parts interact

- **Requests.** Browsers and apps reach `api-gateway`, which authenticates (`auth-service`
  sessions), asks `identity-roster` for authorization (through the caches of `auth-client`
  and `policy-gate`) and forwards to one service over a service binding.
- **Events.** A service enqueues an event as a row of `freeq_outbox` in its own database
  (`packages/freeq`). The alarm of `FreeqDrainDO` (`services/freeq-drain`, once a minute)
  reads the due rows of every database and posts each to the service its topic routes to.
  Consumers (`notification`, `audit-log`, `file-meta`, `github-sync`, `mail-automation`, ...)
  deduplicate by envelope id. The paid-plan queues of `packages/events` are the alternative
  that is not deployed. `chat-service` posts directly to `notification` besides its row.
- **Outside.** Stripe (webhooks, sessions) with `lp-tickets`; Resend, SES or MailChannels with
  `mail-gateway`; GitHub with `webhook-ingest` and `github-sync`; Google with
  `drive-share-service` and `drive-proxy`; Cloudflare Pages with `deploy-service`.
- **Loops.** Durable Object alarms (freeq-drain, lp-tickets, github-sync, app-health-monitor,
  usage-meter, meeting sync) and cron triggers (mail-gateway every 5 minutes).

### Inventory

State, operations, what is hard, and what makes each part correct. The `components` list of
PROJECT.json names the files and the status of each.

| part | state | operations | hard | correct when |
|---|---|---|---|---|
| lp-tickets, order book | `lp_ticket_orders`, `lp_tickets`, types, coupons; Stripe sessions | checkout, webhook, thanks page, reconcile alarm, approve, coupon pause | races for seats, lost/reordered/repeated webhooks, crashes between writes, lapsing holds | no type oversold; money always has an order; a settlement is never taken back; money settles, abandoned seats return |
| lp-tickets, ticket mail | `lp_ticket_mail_outbox` | enqueue with fulfilment, drain (claim with lease), canAcceptOrder | lease expiry during a paced drain, daily cap | each mail sent, normally once; cap kept |
| freeq, freeq-drain | `freeq_outbox` per database; alarm, last prune | enqueue, kick, alarm: select, deliver, record, prune | lost answers and writes, a broken database, eviction | no false acknowledgement; every row ends; nothing vanishes early |
| notification | notifications, inbox, deliveries, processed events, preferences | dispatch an event, publish/unpublish a broadcast, backfill on read, purge | at-least-once events, overlapping deliveries, deletion beside fan-out | acknowledged means delivered; one keyed row; an unpublished broadcast stays gone |
| mail-gateway, sending | `mail_send_log`, `mail_scheduled` | sendMail, schedule, edit, reschedule, cancel, drain | races on a key, provider answers lost, crash after a claim, edits beside a drain | one delivery per key unless a failure was recorded; one body per key; an ended row stays ended; every due row ends |
| mail-gateway, the rest | inbound mail, folders, drafts, routing rules, team lists | inbound parse and store, CRUD, canary | dedup of inbound mail | single-statement operations |
| events | none | publishEvent, createQueueHandler | partial fan-out, check-then-mark | at-least-once per consumer |
| webhook-ingest | `webhook_deliveries`, raw bodies in R2 | verify, insertIfNew, publish, compensate, cleanup | a duplicate during a first delivery that fails | an acknowledged webhook is published |
| deploy-service | sites, deployments, DNS changes | create, job execute/poll/finalize | redelivered jobs, crash inside a job | one Pages deployment per request; a terminal state is announced |
| mail-automation | rules, decisions, rate counters, threads | processInbound, rule CRUD | redelivery, concurrent mails of one sender | at most one reply per mail; caps kept; no loops |
| github-sync | links, repositories, runs, processed events | webhook, task event, reconcile alarm | echoes, conflicts, reordering, crash between task and link | both sides converge; no duplicate task |
| task-service | tasks with versions, dependencies | CRUD, bulk, dependencies, consumers | optimistic versions, cycles | no lost update, acyclic dependencies |
| gantt-service, gantt-calc | view states, KV cache; none | views, critical path | a stale cache; pure algorithm | schedule is the earliest feasible one |
| auth-service | KV sessions, OAuth states, challenges, passkeys | login, refresh, logout | KV is eventually consistent | a challenge is used once |
| auth-client, policy-gate | TTL caches | check | stale allow | bounded by the TTL |
| identity-roster | organizations, users, roles | CRUD, check | role changes beside checks | the check follows the stored roles |
| api-gateway | none (per-isolate counters) | route, impersonate | - | policy table complete |
| audit-log | append-only rows, R2 archive | append, archive | repeated records | INSERT OR IGNORE by id |
| chat-service | messages, reads, reactions; room sockets | post, edit, read | realtime beside rows | rows are authoritative |
| drive-share-service | shares, role grants, meetings | grant, sync, attendance | Google beside role changes | grants follow roles |
| drive-proxy, file-meta | cache, watch channels; files, links | proxy, consume | repeated events | idempotent by event id |
| event-service, member-service, lp-analytics | events; roster, HR, goals, sponsors; statistics | CRUD | role sync | - |
| app-health-monitor, usage-meter | status, incidents; snapshots, alerts | alarm cycle | crash between alert and save | one alert per change |
| commander-service, -phases, -relay, daemon, web | features, tasks, phases; relay sockets; processes | phase transitions, relay, run | reconnects, tickets | phases only move along the machine |
| mo3-mobile-bff | remembered mutations, change log | replay, sync | crash between dispatch and save | a mutation is applied once |
| front ends, shared packages, infra, docs | views; none | - | - | not modelled |

## 2. The modules

### TicketOrders

*Code.* `tickets.ts` (checkout, confirm, webhook, settle, applyCharge, approve, reconcile),
`d1-repo.ts` (every statement on orders and tickets), `delivery.ts` (onPaid, fulfil, sweep),
`reconcile-do.ts` (the alarm).

*State.* Per order: the row (`status`, `linked`, `intent`, `reason`, `created`, `cart`,
`coupon`), its `tickets`, the `checkout` request that made it, and Stripe's side of it
(`session`, `exact`, `charge`, `dispute`). `events` is the set of webhooks Stripe has yet to
see acknowledged: a set, so unordered, and repeated when a run allows "duplicate". `job` is
what each concurrent request and the alarm are in the middle of; `todo` is the list of a
running reconcile pass. Three variables are history, read by no guard: `waved`, the orders that
held seats under review; `lapsed`, those whose hold ran out while a settlement of theirs stood
between settle's lateness check and its UPDATE; and `slipped`, those of them that were then paid
although their seats no longer fitted.

*Actions.* One per statement or await: `Begin`, `Insert`, `CreateSession`, `StoreSession`,
`Abort`, `IssueFree` (checkout); `ReceiveSession`, `Confirm`, `Fetch`, `Decide`, `WritePaid`,
`WriteReview`, `WriteExpired`, `Issue` (settlement, shared by webhook, thanks page and alarm);
`ReceiveCharge` (refunds and disputes); `ApproveRead`, `ApproveWrite`; `CronStart`, `CronTake`,
`CronSweep`; `SetCouponActive`; and Stripe's own `Pay`, `PayLater`, `AsyncSucceeds`,
`AsyncFails`, `SessionExpires`, `Refund`, `DisputeOpens`, `DisputeCloses`, `LoseEvent`.

*Abstractions.* Seats are a set of triples, so SUM(quantity) is a cardinality. Amounts are
"exact or not". A pass lists every order of its window (the code: 50 at a time). Preview
orders, the payment_intent backfill, the payment method, livemode mismatches and edits of
types are left out.

The clock waits for nobody: it may move between settle's lateness check and its UPDATE, and a
hold that lapses exactly there lets one order in past the capacity and past the review.
`NoOversell` says that this is the only way (and `LateIsReviewed`, refuted in section 5, that
there is none).

### TicketDelivery

*Code.* `delivery.ts` (fulfilment, the drain and its daily allowance), the outbox statements of
`d1-repo.ts`, `mailer.ts` (how an answer of the mail service is classified).

*State.* `order` (the status only: TicketOrders is the environment here) and, per row of the mail
outbox, `status`, `attempts`, `wait` (next_attempt_at relative to now); the deployment's daily
`cap` and which acceptances are `old`; per drain `pc`, the time since it read the clock (`since`)
and the time spent in the current await (`spent`), the rows it holds, what it read of them and the
outcomes it will write in one batch (`updates`). `faulted` is history: the recorded failures of a
mail's own, as the outcomes carry them (`own`).

*Actions.* `Fulfil` (tickets and outbox rows in one batch), `Start`, `Allowance`, `Claim` (moves
next_attempt_at to the end of a lease), `ReadOrders`, `ReadTickets`, `OutOfTime`, `Unsent`
(order refunded, missing or on hold, no valid tickets), `Unrendered` (mailFor throws), `Send`,
`Answered` = `Accepted` / `Rejected`, `Unavailable`, `Apply` (unconditional), `Dies`; `Tick`,
`Midnight`; and the order's `Pay`, `Review`, `Approve`, `Refund`. sendRow
counts an attempt when the order's row is missing; nothing in `src/` deletes an order that has
mails, so `Vanish` (external) is an operator's deletion.

That no row is in two hands rests on durations only: the lease is longer than a drain can last. So
time is part of the model, and the assumption `LeaseAssumption` says what the constants of the code
must satisfy, together with the bounds on an await (`SendTime` is the code's timeout of a send;
`StepTime`, that of a D1 statement, is not in the code: see the divergences).

### EventBus

What the bus promises its users, without tables or drains: `Post`, `Arrive`, `Acknowledge` (only
what arrived), `GiveUp`, `Forget` (only what is settled), and that nothing stays pending or settled
for ever. `FreeqOutbox!Bus` instantiates it with the fate of a row (its status, "absent" before it
is enqueued, "pruned" after) and what the consumer accepted; `ImplementsBus` is the refinement.

### FreeqOutbox

*Code.* `packages/freeq/src/outbox.ts` and `backoff.ts`; `freeq-drain/src/drain-do.ts`,
`drain-all.ts`, `routing.ts`.

*State.* The rows (`status`, `attempts`, `wait`: time until next_attempt_at, `age`),
`accepted` (what the consumer took in), the alarm, the handler's position (`pc`, `pass`,
`batch`, `row`, `outcome`), the time since the last prune. Three of the four bindings are the
same physical database, so `Passes` may name one twice. Times are relative and stop where
nothing can tell the difference, so the clock is unbounded and liveness is real.

*Actions.* `Enqueue`, `Kick`, `Alarm`, `Select`/`SelectFails`, `Deliver`, `RecordDone`,
`RecordDoneFails`, `RecordError`, `RecordErrorFails`, `Prune`, `Crash`, `Tick`.

### NotificationIngest

*Code.* `queue.ts` (dispatchEvent, the handlers), `ingest.ts`, `adapters.ts`, `broadcast.ts`,
`repo.ts`, `idempotency.ts`.

*State.* The four tables as sets of rows; `job` per request; `reached`, `retracted` and `purged`
are history. The foreign keys and the unique index on the dedup key are guards of the
statements (D1 enforces them by default).

*Actions.* `Dispatch`, `Publish`, `Find`, `Insert`, the fan-out `Deliver`, `Record`, `Skip`,
`GiveUp` and their failures, `Mark`; `Unpublish`, `CutInbox`, `CutDeliveries`, `CutRow`;
`ReadInbox`, `Backfill`; `PurgeInbox`, `PurgeDeliveries`; `Abort` (a failed statement or an
isolate that ends).

*Abstractions.* "push" stands for every channel that calls another service. A handler is the
list of ingest inputs it makes (`Plan`), each resolving to a fixed set of users. The purge of
processed events is left out: its 7 days exceed the time any outbox row is retried.

### MailSend

*Code.* `send.ts` (sendMail), `retry.ts`, `scheduled-send.ts`, the statements of `repo.ts`.

*State.* `log` (the send log by idempotency key), `rows` (scheduled sends), `job` per request and
per cron invocation. `delivered` counts what the provider accepted; `flunked`, `unsure`, `tried`
and `answered` are history.

*Actions.* `Request`, `Find`, `Claim`, `Accepted`, `Refused`, `Unanswered`, `MarkSent`,
`MarkFailed` (sendMail); `Tick`, `TakeRow`, `LoadFails`, `MarkRow`, `RowFailed` (the drain);
`Schedule`, `FallsDue`, `Edit`, `Reschedule`, `Cancel` (the owner); and the failing statements
and `Crash`.

*Abstractions.* A body stands for everything the request hash covers. The drain takes its due
rows in any order. Attachments, and the events and audit records published after a send (none
can fail it), are left out.

### TaskService

*Code.* `services/task-service`: the handlers of `app.ts` (create, get, patch, archive, replace
dependencies), the statements of `repo.ts`, `validate.ts`, `principal.ts`, `events.ts`; the
transition table of `packages/types/src/task.ts`. The cycle check of `gantt-calc` is `Acyclic` here
and an algorithm in GanttGraph.

*State.* `tasks` (life, title, status, origin, version), `deps`, `held` (the row each client read
last: what it sends a version of), `req` (the request of each client, with the row the handler
read), `events`. Two history variables tell what no table does: `overtaken`, the clients whose
replacement of dependencies listed the tasks before another one was stored, and `raced`, the tasks
whose dependencies were stored by one of those since the last replacement that was not.

*Actions.* `Get`, `Create`, `CreateEmit`, `ArchiveRead`, `Archive`, `ArchiveEmit`, `ArchiveAll`,
`PatchRead`, `Update`, `NoRowChanged`, `PatchEmit`, `PatchGone`, `DependRead`, `DependList`,
`DependCheck`, `DependBump`, `DependReplace`, `DependEmit`, `Die`, `Handle`. The optimistic lock is
the WHERE clause of `Update`; the transition table is checked against the row read before it.
Replacements of dependencies overlap freely: `DependList`, `DependCheck`, `DependBump` and
`DependReplace` of two clients interleave, and only the version of the task itself is compared.

*Abstractions.* The title stands for every field a request overwrites and GitHub owns; of its text
only whether it is too long counts (`checkTitle`, `TooLong`). Teams,
parents, audit records and the events of the organization are left out.

### GithubSync

*Code.* `services/github-sync`: `queue.ts` (webhooks and task events), `engine/sync.ts` (upsert,
push, archive, reconcile), `domain/conflict.ts`, `domain/mapping.ts`, `domain/echo.ts`, `service.ts`,
`reconcile-do.ts`, `store/d1.ts` (the statements on links). It extends TaskService: its two workers (the consumer
of deliveries, the alarm) are that module's service clients, and every call of task-service is the
sequence of statements of its handler.

*State.* `repo` (direction, which side owns the fields), `issue` (GitHub, external), `edits` to
come, `webhooks` (a set of snapshots: unordered), `link`, `work` per worker, `faults` to come.

*Actions.* `EditIssue`, `EditTask`; `TakeWebhook`, `TakeEvent`, `StartReconcile`, `FindLink`,
`Compare`; the shared steps `ReadTask`, `TaskGone`, `ReadIssue`, `Push`, `Patch`, `Patching`,
`Import`, `ImportRefused`, `Imported`, `CreateLink`, `Close`, `SaveLink`, `ReadLink`, `WriteLink`; `Crash`,
`UserDies`, `LoseRequest`, `Outage`.

*Abstractions.* One issue. Assignees, label filters, comments, the runs table, conflict events and
the manual linking request are left out; a link as the last leaves it is one of the starts.
`NewId` takes task ids in order.

### GanttCalendar, GanttGraph, GanttSchedule

*Code.* `packages/gantt-calc`: `calendar.ts`, `graph.ts`, `schedule.ts`.

*State and actions.* The calendar is operators (`WorkingDaysUpTo`, `ToOrdinal`, `FromOrdinal`).
GanttGraph is Kahn's sort with the smallest ready id first (`waiting`, `ready`, `order`) and
Tarjan's search (`idx`, `low`, `stack`, `calls`, `cycles`), one iteration, call or return a step.
GanttSchedule has the pass forward (`es`), the turn (`projectEnd`) and the pass backward (`lf`).
Ids are numbers in the order of the strings; the sorted array of ready ids is a set.

## 3. The runs

| run | instance | what it shows |
|---|---|---|
| `orders_race` | 2 orders, 2 types, capacity 2 and 1, coupon with 1 use, 1 request and the alarm; clock 0..3, hold 2, session 1 | seats and coupon uses are never exceeded whatever races; money always has a linked order and is never released |
| `orders_money` | 1 order, 2 requests and the alarm; wrong amounts, delayed payment, refund, dispute, staff, thanks page, crash, repeated events | paid means paid in full; refunded means money back and no valid ticket; nothing is unsettled |
| `orders_live` | 2 orders, every webhook may be lost, requests may crash | the alarm alone settles money, issues tickets and releases seats |
| `ticket_mail` | 1 order with the buyer's mail and the staff copy, the alarm's drain and one beside it, cap 1 or none, 2 attempts; refusals, rendering errors, outages, reviews, refunds, deleted orders, dying drains | no row in two hands; a mail that ended stays ended and is given up only after its own failures, a refund or the deletion of its order; while the order stays paid every mail ends |
| `outbox` | 2 rows (one without a route), 3 passes over 2 databases of which one never answers, batch 1, 3 attempts; refusals, lost answers, failing statements, evictions | no false acknowledgement, no early loss, and the refinement of EventBus with its liveness: every row ends, finished rows go |
| `notify` | 3 deliveries of one event with an unkeyed and a keyed input, 2 users, one mutes push, 2 attempts; or 3 requests that publish, unpublish or read a broadcast, and the purge; adapters, resolution and statements fail, isolates end | acknowledged means delivered; one row per key; an unpublished broadcast leaves nothing |
| `mail_sends` | 3 requests, 1 key, 2 bodies, 2 provider calls per send; or 2 overlapping drains on 1 row its owner edits, reschedules, cancels; every failure | one delivery unless a failure was recorded or an answer lost; one body per key; the log is true; an ended row stays ended |
| `mail_live` | 1 drain, 2 rows, batch 1, 2 attempts, a provider that may refuse for ever | every due row ends unless its owner intervenes |
| `gantt` | every graph on 3 tasks, every one without self-dependencies on 4, both requests; 3 shapes of 2 dependencies in all kinds with leads and lags; 15 calendars and 14 starts | the order is the least topological one; the cycles are the strongly connected components; both schedules can be kept and slack is exact against all schedules in -3..6; dates are the working days counted |
| `tasks` | 2 users, 1 service, one task that is patched and archived or two with dependencies replaced by both users at once; 5 patches, versions up to 2 written over | nothing is overwritten unread; statuses follow the table as stored; a circle of dependencies needs a replacement that was overtaken |
| `sync` | 1 issue, 3 task ids, 1 user, 8 starts over directions, origins, links and titles (three, one too long for a task), each with an edit of the issue or one crash, lost request or outage | the link never remembers more than has happened; once edits stop both sides agree, but for the refusals of section 5 |
| `orders_refund_order` | 1 order, 1 request | violated: a refund handled before the settlement is dropped |

*Why these bounds are enough.* The races are between two orders for one seat, two deliveries
of one event, two sends of one key: a third participant adds a bystander, except where it is
the one that observes (hence three requests in `notify` and `mail_sends`). The clock of
`orders_*` covers a whole life: created at 0, session over at 1, hold lapsed at 3 (created
before now - Hold), one more checkout after that; `LastStart` and `MaxTime` are the only bounds
on it. `MaxAge` (3 days in the code) is beyond `MaxTime`: what happens to money that Stripe
refuses to talk about for 3 days is outside the runs, and outside what the code promises.
`notify`, `mail_sends` and `tasks` leave out the product of two parts that share no rows
(`ApartSpec`, in the MC module: a behaviour has requests of the one kind or of the other);
`FirstAttempt` bounds the in-app rows of an event to one attempt, which only repeats an insert the
retry of a broadcast repeats as well; `MaxEvents` bounds the events that wait, of which `tasks`
reads none. `UsersReplace`: the sync service replaces no dependencies, since github-sync has no call
for it; users do so at the same time. `MaxVersion` bounds the versions users write over.
In `sync` a start is chosen once: the product of all directions, edits and faults adds no
interleaving within one of them, and one fault is enough for each await to be the one that fails.
In `gantt` four tasks are the least with two separate cycles or with an edge between them; a loop
over days may step `Reach` days, and that it never needs more is proved.
Two attempts distinguish first, last and only attempt; three in `outbox` add a middle one, and a
backoff that would exceed its ceiling. Symmetry is used for safety only, over identical
requests, orders, rows and bodies.

`CHECK_DEADLOCK FALSE` is set where the system may stop for good: every request answered and
every row ended.

### Fairness

- `TicketOrders!Fairness`: the alarm re-arms itself before doing anything (`reconcile-do.ts:40-41`),
  so its steps are weakly fair; a read of Stripe may fail again and again but not always
  (strong fairness of `Fetch(Cron)`); time passes; sessions expire. Nothing is assumed of
  webhooks, the thanks page or the checkout request.
- `FreeqOutbox!Fairness`: somebody kicks the loop once after the deploy (`<>alarm`; the code has
  an endpoint for it and no other bootstrap), the steps of a set alarm are taken (Cloudflare's
  at-least-once alarms), time passes, and from some time on nothing is evicted and no statement
  fails except on the databases in `Broken`. Consumers may refuse for ever.
- `TicketDelivery!Fairness`: the alarm re-arms itself first, so its drain starts for ever and its
  sweep fulfils what was paid; awaits end; time passes however much happens in it (strong fairness
  of `Tick`) and midnight comes; and from some time on no drain dies, the provider is not
  unavailable and no payment starts a drain of its own (`<>[][Calm]_vars`). It may refuse a mail for
  ever.
- `GithubSync!FairSpec`: deliveries are taken again until they are processed, or refused and given up (weak fairness of
  `DrainStep`; the outbox and the webhook retries), and the alarm re-arms before it does anything
  (`reconcile-do.ts:46`; weak fairness of `AlarmStep`). Users owe nothing; faults are finitely many.
- `MailSend!FairSpec`: the steps of a cron invocation are taken and ticks come (the trigger every
  5 minutes), and from some time on no statement fails and no isolate ends. The provider may
  refuse for ever.

## 4. What is proved

All theorems hold for every value of the constants that satisfies the named assumptions
(finite sets of orders, positive batch sizes and attempts, `Ttl < Hold`, ...).

**TicketOrdersProofs.** `IInv` conjoins what a checkout has done by each of its program counters
(`CheckoutInv`), what Stripe's money says about the row (`MoneyInv`), that every undelivered
event did happen (`EventInv`), what a job knows (`JobInv`: what it saw of the session is still
true, since sessions only move forward), and that expired and paid rows agree with the money
(`ExpiredInv`, `SettledInv`). None of the safety properties is inductive: to see that an expired
order holds no money one has to know that a job about to release it saw a session that is over,
and that no event of a payment can exist for it. Proved from it: `TypeCorrect`,
`MoneyIsAccountedFor`, `PaidIsPaid`, `ReleasedIsUnpaid`, `RefundsAreComplete`, and the action
property `SettledForGood`.
`NeverOversold`: the set of orders sold only shrinks, except through an insert or a late
settlement, and both check the seats against everything held in the same statement (`SoldShrinks`,
`SoldFits`). A settlement that did not ask for the check is either inside the hold, and then the
order already holds its seats, or its hold lapsed since (`JobSound`), and then it fits or it
slipped; the rest is which statement can do what (`CheckoutSells`, `SettleSells`,
`RequestSells`).
`CouponNeverOverused` goes the same way: only the insert of a coupon order adds a use, and every
used coupon order is paid (`CheckoutInv`), so the insert's own condition counted it
(`CheckoutUses`).

**TicketDeliveryProofs.** `OneClaim` is about durations, so its invariant says how old each hand
may be: a row held by a drain has a lease that ends no earlier than the drain's own deadline leaves
time for (its budget, one send, two statements), and by then the drain has written and let go.
Proved under `LeaseAssumption`: `DeliveryTypeCorrect`, `NoRowTwice`, `GivenUpForAReason`, and the
action property `EndedForGood` (the unconditional write of outcomes changes no ended row because
its rows are in one hand). For `GivenUpForAReason` every attempt a row has, a drain read or an
outcome carries must be excused (`Excused`): it is a failure of that mail's own, or its order is
refunded or missing, and stays so.

**FreeqOutboxProofs.** `IInv` adds where the drain stands (`DrainInv`: the row being recorded was
delivered if its outcome is "ok") and how attempts, status and age go together (`AttemptInv`).
Proved: `OutboxTypeCorrect` (attempts and delays stay within their bounds, which takes the
boundedness of the backoff), `AckedIsDelivered`, `LossNeedsRetention`. `OutboxImplementsBus`: from the same invariant every
step of the detailed system is a step of EventBus or a stutter (the safety part of the refinement).

**NotificationIngestProofs.** `IInv` adds what a request still owes (`JobInv`: all inputs before the
current one are delivered, the rest of the current one is in `todo`), that a request has not used
the names of rows it is yet to insert (`FreshInv`), the unique key (`KeyInv`) and the foreign keys
(`ReferInv`). Proved: `IngestTypeCorrect`, `ProcessedReachesAll`, `KeyedAtMostOnce`,
`RetractedStaysGone`.

**MailSendProofs.** `IInv` adds that a key which never failed and never lost an answer has at most
one sender, in a state that says whether the mail is out (`ExclusiveInv`), and what jobs, log and
rows know of each other (`JobInv`, `LogInv`, `RowInv`). Proved: `MailTypeCorrect`,
`DeliveredOnceUnlessFailed`, `KeyCarriesOneBody`, `SendLogIsTrue`, and the action property
`SchedulesEndForGood`.

**GanttScheduleProofs.** For any finite set of tasks, any dependencies and any calendar.

*The passes.* The invariant says that the order found so far keeps every dependency, that on the part
of it the forward pass has done `es` keeps every dependency and start, and the same for `lf` from the
end. Proved: `ScheduleTypeCorrect`, `ScheduleCanBeKept` (both schedules keep all dependencies and
starts), and `SlackIsExactAlways`, from the induction along the order that any schedule keeping the
constraints is nowhere earlier than `es`, and, ending in time, nowhere later than `lf`.

*The sort.* `OrderIsLeastAlways`. `LeastInv`: at each place of the order stands the least task that
was ready there (`Greedy`), so another order that keeps the dependencies is larger at the first place
where it differs (`SortedIsLeast`); and what is left over when nothing is ready is a set each of
which waits for another of it (`Stuck`), which no order can begin (`StuckHasNoOrder`).

*The cycles.* `CyclesAreExactAlways`. `TarjanInv` is the reason why Tarjan's low numbers work: the
numbers order the stack (`Ascends`); an open node leads to everything above it (`Upward`), a finished
one that is still on the stack to something below it (`Downward`); nothing leads out of what was cut
off (`CutOff`); a low number is that of a node on the stack that can be reached (`LowReached`) and
bounds every edge back that was looked at (`LowBounds`). So from a root nothing below can be reached
(`RootCloses`), everything above it leads back to it (`UpperIsComponent`, by a least node that would
otherwise lead below itself), and the stack above is its component. Reaching is defined without paths,
by the sets closed under the edges, so no induction over data is needed. From the same invariant
`NoCycleIsAcyclic`: no cycle is reported exactly when every set of tasks has one that depends on none
of it, which is what TaskService writes for the check.

*The calendar.* `DatesAreWorkingDaysAlways`, when no holiday lies before day 0 (with one the property
is false: section 5). One day further the arithmetic count grows by one exactly on a working day
(`CountStep`), so it equals the count one by one (`CountIsCounted`, by a least day where they differ)
and is monotone (`CountRises`); the guess of fromOrdinal has the right number of slots and only
holidays to make up for, and both its loops end within a week for each holiday and one more
(`ReachSuffices`, `FromOrdinalIs`).

**TaskServiceProofs.** `Inv`: a row a client or a handler has seen is the row as it is or one with a
lower version (`SeenRows`), so an equal version means an equal row; and what a handler checked
holds of the row it read (`Checked`). Proved: `TasksTypeCorrect`, `VersionNamesItsRow`,
`StatusAlwaysFollows`. `CirclesNeedRaces`, with replacements that overlap freely: of a replacement
that is not overtaken, what it listed and what it checked still stand when it stores its rows
(`Listed`, `Passed`), except for archived tasks and newly created ones, which depend on nothing, and
the lemma `AcyclicExtends` does the rest (`GraphReplaced`); one that is overtaken joins `raced`, and the
rest of the graph only loses edges.

**GithubSyncProofs.** For any tasks, titles and users. `SInv` carries TaskService's invariant
through the composition (the engine's two workers take the steps of its service clients) and adds that
no time the link, a webhook or a worker holds is later than the issue's (`IssueInv`) and, for each
program counter of a worker (`JobInv`), that the row and the version it holds are of the link's task
and no newer than it is: both only grow, so what is written late is still behind. Proved: `SyncTypeCorrect`; `LinkNeverAhead` (what a link remembers of either side
has been, although drain and alarm write it late and over each other); `SyncFollowsTable` (the status
table holds with the engine's repeated and outdated patches); and the action property
`LinkStaysWithTask`. `SyncAssumption` asks only for a task, a title short enough for one, and that `None` is
neither.

**Only model-checked.** Liveness under fairness (`MoneySettles`, `TicketsFollow`,
`AbandonedIsReleased`, `PaidIsMailed`, `EveryScheduleEnds`, `Settles`, the liveness part of
`ImplementsBus`): outside what the prover handles. Every invariant and every action property of the
passing runs has a theorem; one of them carries a hypothesis, which the run satisfies:
`HolidaysSinceEpoch` (`DatesAreWorkingDaysAlways`). Section 5 says how the claim fails without it.

## 5. Divergences

Claims of comments, documents or tests that the code does not keep. The first is a run of
PROJECT.json; the others with a configuration are stated in the modules as well, and the
configuration refutes them in seconds.

| claim | configuration | how it fails |
|---|---|---|
| `RefundArrives`: "charge.refunded (full only) -> refunded" (tickets.ts:980) | `orders_refund_order` | applyCharge drops an event whose payment_intent no row has yet; the settlement then marks the refunded order paid and issues tickets |
| `KeyedIsDelivered`: a retried event reaches everybody | `notify_lost` | the keyed row is inserted before the fan-out; a retry after an early end is deduplicated |
| `SentWasDelivered`: "Only after a successful send do we flip the schedule row to 'sent'" (scheduled-send.ts:9) | `mail_lost` | a claim left pending by a crash counts as a duplicate in flight for ever |
| `LateIsReviewed`: "a late settle that no longer fits capacity -> needs_review" (tickets.ts:832) | `orders_hold_lapse` | the hold lapses between settle's check and its UPDATE |
| `SenderWithinLimit`: "Unpaid seats one sender may hold at once" (tickets.ts:50) | `orders_sender` | the count is read before the insert |
| `DisputeIsStripes`: "decided by Stripe [...], not by us" (tickets.ts:781) | `orders_dispute` | an order already under review keeps its reason, and approve() looks at the reason |
| `ClosedDisputeIsSettled`: "dispute.closed settles it automatically" (tickets.ts:781) | `orders_dispute_order` | closed handled before created |
| `DeferredStaysPending`: "keeps the outbox row pending/durable" (freeq-drain) | `outbox_deferred` | a deferral counts as an attempt |
| `NeverLost`: "an audit event enqueued here can never be lost" | `outbox_lost` | failed rows are pruned after 30 days |
| `DeliveredOnce`: no user gets an event twice | `notify_twice` | overlapping deliveries both find it unprocessed |
| `PurgedStaysPurged`: retention deletes inbox rows | `notify_revival` | the backfill of the next read inserts them again |
| `OneDelivery`: "concurrent sends [collapse] to one delivery" (send.ts:1-3) | `mail_twice` | two retries of a failed key both send |
| `ConflictIsRefused`: "same key + different body = 409" (mail-gateway README:415) | `mail_conflict` | the loser of the claim race is not compared |
| `FailedWasTried`: "a transient provider outage is retried across several ticks" (scheduled-send.ts:31) | `mail_edit` | after an edit every attempt conflicts with the log; `mail_serial` shows that it holds without edits and failing statements |
| `DatesAreWorkingDays` with a holiday before 1970 (calendar.ts:91-92) | `gantt_before_1970` | the guess ignores holidays, which before 1970 puts it too late, and the loop only steps on: with a holiday on day -3, fromOrdinal(-4) is -6 and not -7 |
| `LiveGraphAcyclic`: the dependencies are "cycle-checked" (task-service app.ts:587, docs/openapi/task-service.yaml:9) | `tasks_circle` | each of two concurrent replacements is checked against the graph before the other (app.ts:641); the version compared at the write is that of its own task |
| `CanceledIsNotDelivered`: "does not deliver a canceled schedule" (test/scheduled-send.test.ts:105) | `mail_cancel` | the drain read the row before |

Met while modelling task-service and github-sync. The modules behave like this, and `sync`
checks what is left (the disjuncts of `Settled`):

- An issue reopened whose task is done, or closed whose task is blocked, asks for a transition the
  table refuses; the 409 is swallowed and the link stays in error (`Refused`).
- GitHub takes titles of 256 characters, task-service of 200 (validate.ts:31). An issue with a longer
  one is never imported: each try of the alarm is refused, and the delivery is given up after its
  retries (wrangler.toml:38). Of a linked issue with such a title nothing reaches the task, its status
  included, because the PATCH carries the title always (sync.ts:192). Both hold until the title
  is shortened, or a push overwrites it (`Refused`, and the last disjunct of `Settled`).
- A crash between createTask and the insert of the link imports an issue twice, against
  "safe under at-least-once redelivery" (queue.ts:12).
- A stale webhook overwrites a newer task and moves lastGithubUpdatedAt back until the alarm repairs
  it; a user's edit whose event is still out may be what is reverted.
- A push overwrites an edit made on GitHub between getIssue and updateIssue.
- A PATCH whose answer was lost is sent again with the old version, gets 409 and puts the link in
  error although it was applied.
- task.status_changed is emitted from what the handler read again, and may carry a later status.
- An upsert in flight while the task is archived may reopen the issue just closed.
- The reconcile pass does not ask for the direction of existing links
  (docs/api-contracts/@dub/github-sync.md:125, sync.ts:71).
- A calendar with seven weekend days never returns from nextWorkingDay; `IsCalendar` excludes it.
- `LeaseAssumption` bounds D1 statements, which the code does not: a stalled statement between a
  claim and its send outlasts the lease, and the mail is sent twice (delivery.ts:337).

## 6. Plan

In order; each with its abstract specification, runs and theorems where it has them.

1. **MailAutomation**: processInbound with its per-attempt decision id over MailSend's key
   discipline, counters and loop guard.
2. **DeployJobs**, **WebhookIngest**: short protocols with a crash at each await; WebhookIngest
   composes with GithubSync's deliveries.
3. **MobileSync**: mutation replay and incremental sync with tombstones.
4. **CommanderPhases**: the phase machine against its table, with the daemon's reconnects.
5. The consumers of EventBus as compositions: NotificationIngest's `Dispatch` fed by its messages.
6. Later: auth challenges over KV, authorization caches, the relay, the alert loops.

Theorems still wanted: for each module above, type correctness and its main safety property; and that
the requests of TaskService refine one that changes a task in a single step.

## 7. Not modelled, and why

CRUD services whose operations are single statements (identity-roster, member-service,
event-service, lp-analytics, most of mail-gateway's inbound side) have no interleaving worth a
model beyond what a unit test reaches. api-gateway keeps no state. Front ends show the state of
the services. audit-log is an idempotent append whose delivery is FreeqOutbox's. drive-* and
meeting sync are dominated by the behaviour of Google's API, which the repository only mocks.
Shared packages hold no protocol. The remaining parts are in the plan.

Left out of the modelled parts: the rendering and the daily backup of lp-tickets; the per-sender and
per-day limits as guarantees (they are read before the insert); teams, parents, bulk requests and
audit records of task-service; assignees, comments, label filters and run records of github-sync;
the view states and cache of gantt-service.
