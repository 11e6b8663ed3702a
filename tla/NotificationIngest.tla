------------------------- MODULE NotificationIngest -------------------------
(***************************************************************************)
(* services/notification: one ingest path turns domain events (POST         *)
(* /internal/events-async, deduplicated by envelope id) and published        *)
(* broadcasts into a canonical notification row, an inbox row per recipient  *)
(* and a delivery record per recipient and channel. Around it: unpublishing  *)
(* a broadcast, the backfill of missed broadcasts on every inbox read, and   *)
(* the retention purge.                                                      *)
(*                                                                           *)
(* Every request runs on its own; each D1 statement is one step, and the     *)
(* foreign keys and the unique index of the schema hold at each. Of the      *)
(* channels, "push" stands for every channel that calls another service.     *)
(***************************************************************************)
EXTENDS Integers, Sequences, FiniteSets

CONSTANTS
  Requests, None,
  Users,
  Events, Inputs,
  Plan,          \* the ingest inputs of an event, in the order of its handler
  Recipients,    \* the users an input resolves to
  Keys, Key,     \* the dedup key of an input, or None
  Broadcast,     \* the input that publishes one admin notification to all members
  Off,           \* <<user, channel>> pairs that preferences turn off
  MaxAttempts,   \* MAX_DELIVERY_ATTEMPTS
  Work,          \* what requests do in a run
  Happenings     \* which failures a run explores

Channels == {"in_app", "push"}
AllWork == {"dispatch", "publish", "unpublish", "read", "purge"}
AllHappenings == {"adapterError", "dbError", "resolveError", "crash"}

ASSUME InputsAssumption ==
  /\ Broadcast \in Inputs /\ None \notin Inputs \cup Keys \cup Events \cup Users
  /\ Recipients \in [Inputs -> SUBSET Users]
  /\ Key \in [Inputs -> Keys \cup {None}] /\ Key[Broadcast] # None
  /\ Off \subseteq Users \X Channels
ASSUME PlanAssumption ==
  /\ Plan \in [Events -> Seq(Inputs)]
  /\ \A e \in Events :
       /\ Plan[e] # <<>>
       /\ \A i, k \in 1..Len(Plan[e]) :
            /\ Plan[e][i] # Broadcast
            /\ Plan[e][i] = Plan[e][k] => i = k
ASSUME BoundsAssumption ==
  MaxAttempts \in Nat \ {0} /\ Work \subseteq AllWork /\ Happenings \subseteq AllHappenings

\* A notification row is named by the request that inserts it and its input.
Notifications == [by : Requests, input : Inputs]
NoNotification == [by |-> None, input |-> None]

VARIABLES
  notifications,  \* notif_notifications
  inbox,          \* notif_inbox: <<notification, user>>
  deliveries,     \* notif_deliveries: <<notification, user, channel>> -> outcome, as a set
  processed,      \* notif_processed_events
  reached,        \* history: <<input, user, channel>> whose outcome was stored
  retracted,      \* history: notifications that an unpublish deleted
  purged,         \* history: inbox rows the retention purge deleted
  job             \* what each request is doing

tables == <<notifications, inbox, deliveries, processed>>
ghosts == <<reached, retracted, purged>>
vars   == <<notifications, inbox, deliveries, processed, reached, retracted, purged, job>>

Idle == [pc |-> "idle", event |-> None, i |-> 0, todo |-> {}, at |-> <<>>, tries |-> 0,
         notification |-> NoNotification, user |-> None, missing |-> {}]

Running == {"find", "insert", "fan", "record", "giveUp", "mark",
            "cutInbox", "cutDeliveries", "cutRow", "backfill"}
Over == {"done", "failed"}

Jobs ==
  [pc : {"idle"} \cup Running \cup Over, event : Events \cup {None}, i : Nat,
   todo : SUBSET (Users \X Channels), at : (Users \X Channels) \cup {<<>>},
   tries : 0..MaxAttempts, notification : Notifications \cup {NoNotification},
   user : Users \cup {None}, missing : SUBSET Notifications]

TypeOK ==
  /\ notifications \subseteq Notifications
  /\ inbox \subseteq Notifications \X Users
  /\ deliveries \subseteq Notifications \X Users \X Channels \X {"sent", "skipped", "failed"}
  /\ processed \subseteq Events
  /\ reached \subseteq Inputs \X Users \X Channels
  /\ retracted \subseteq Notifications
  /\ purged \subseteq Notifications \X Users
  /\ job \in [Requests -> Jobs]

Init ==
  /\ notifications = {} /\ inbox = {} /\ deliveries = {} /\ processed = {}
  /\ reached = {} /\ retracted = {} /\ purged = {}
  /\ job = [r \in Requests |-> Idle]

-----------------------------------------------------------------------------
(* The ingest of one input.                                                     *)

Set(r, j) == job' = [job EXCEPT ![r] = j]
At(r, pc) == job[r].pc = pc
Goto(r, pc) == Set(r, [job[r] EXCEPT !.pc = pc])
Fail(r) == Goto(r, "failed") /\ UNCHANGED <<tables, ghosts>>

InputOf(j) == IF j.event = None THEN Broadcast ELSE Plan[j.event][j.i]
Input(r) == InputOf(job[r])

\* ingest() returns; the handler of an event goes on with its next input.
AfterInput(r) ==
  IF job[r].event = None THEN [job[r] EXCEPT !.pc = "done"]
  ELSE IF job[r].i < Len(Plan[job[r].event])
       THEN [job[r] EXCEPT !.pc = "find", !.i = @ + 1, !.todo = {}, !.tries = 0]
       ELSE [job[r] EXCEPT !.pc = "mark", !.todo = {}, !.tries = 0]

Holders(k) == {n \in notifications : k # None /\ Key[n.input] = k}

\* dispatchEvent: an event that was processed is acknowledged at once.
Bug_MarkFirst(r, e) ==
  /\ At(r, "idle") /\ "dispatch" \in Work
  /\ Set(r, [Idle EXCEPT !.event = e, !.i = 1, !.pc = IF e \in processed THEN "done" ELSE "find"])
  /\ processed' = processed \cup {e}
  /\ UNCHANGED <<notifications, inbox, deliveries, ghosts>>
Dispatch(r, e) ==
  /\ At(r, "idle") /\ "dispatch" \in Work
  /\ Set(r, [Idle EXCEPT !.event = e, !.i = 1, !.pc = IF e \in processed THEN "done" ELSE "find"])
  /\ UNCHANGED <<tables, ghosts>>

\* publishBroadcastFromNotification of the one admin notification there is.
Publish(r) ==
  /\ At(r, "idle") /\ "publish" \in Work
  /\ Set(r, [Idle EXCEPT !.pc = "find"])
  /\ UNCHANGED <<tables, ghosts>>

\* Business dedup: a key that is taken ends the ingest.
Find(r) ==
  /\ At(r, "find")
  /\ Set(r, IF Holders(Key[Input(r)]) # {} THEN AfterInput(r)
            ELSE [job[r] EXCEPT !.pc = "insert"])
  /\ UNCHANGED <<tables, ghosts>>

Row(r) == [by |-> r, input |-> Input(r)]
Targets(in) == Recipients[in] \X Channels

Bug_NoUniqueIndex(r) ==
  /\ At(r, "insert")
  /\ notifications' = notifications \cup {Row(r)}
  /\ Set(r, [job[r] EXCEPT !.pc = "fan", !.notification = Row(r), !.todo = Targets(Input(r))])
  /\ UNCHANGED <<inbox, deliveries, processed, ghosts>>
\* Recipients are resolved, the canonical row is inserted: the unique index on
\* the dedup key refuses the second of two racing inserts.
Insert(r) ==
  /\ At(r, "insert")
  /\ Holders(Key[Input(r)]) = {}
  /\ notifications' = notifications \cup {Row(r)}
  /\ Set(r, IF Recipients[Input(r)] = {} THEN AfterInput(r)
            ELSE [job[r] EXCEPT !.pc = "fan", !.notification = Row(r),
                                !.todo = Targets(Input(r)), !.at = <<>>, !.tries = 0])
  /\ UNCHANGED <<inbox, deliveries, processed, ghosts>>

InsertFails(r) ==
  /\ At(r, "insert")
  /\ Holders(Key[Input(r)]) # {} \/ "resolveError" \in Happenings \/ "dbError" \in Happenings
  /\ Fail(r)

-----------------------------------------------------------------------------
(* The fan-out: user by user, in_app before push, up to MaxAttempts each.       *)

\* The target being retried, else the other channel of the same user, else a new user.
Targeted(r) ==
  LET half == {x \in job[r].todo : <<x[1], "in_app">> \notin job[r].todo}
  IN  IF job[r].tries > 0 THEN {job[r].at}
      ELSE IF half # {} THEN half
      ELSE {x \in job[r].todo : x[2] = "in_app"}

Enabled(r, x) == x \notin Off \/ (Input(r) = Broadcast /\ x[2] = "in_app")

\* Foreign keys: an inbox or delivery row needs its notification row.
Bug_NoForeignKey(n) == TRUE
Refers(n) == n \in notifications

Stored(r, x, outcome) ==
  LET n == job[r].notification
  IN  /\ deliveries' = {d \in deliveries : <<d[1], d[2], d[3]>> # <<n, x[1], x[2]>>}
                       \cup {<<n, x[1], x[2], outcome>>}
      /\ reached' = reached \cup {<<n.input, x[1], x[2]>>}
      /\ Set(r, IF job[r].todo = {x} THEN AfterInput(r)
                ELSE [job[r] EXCEPT !.pc = "fan", !.todo = @ \ {x}, !.at = <<>>, !.tries = 0])
      /\ UNCHANGED <<notifications, inbox, processed, retracted, purged>>

\* A preference that is off is recorded and the channel is not tried.
Skip(r) ==
  /\ At(r, "fan") /\ Refers(job[r].notification)
  /\ \E x \in Targeted(r) : ~Enabled(r, x) /\ Stored(r, x, "skipped")

Bug_RetryForever(r, x) == Set(r, [job[r] EXCEPT !.at = x, !.tries = @ + 1, !.pc = "fan"])
\* The adapter threw, or recording "sent" did: once more, or give up.
Retry(r, x) ==
  Set(r, [job[r] EXCEPT !.at = x, !.tries = @ + 1,
                        !.pc = IF job[r].tries + 1 < MaxAttempts THEN "fan" ELSE "giveUp"])

\* The adapter does its work; the record comes next.
Deliver(r) ==
  /\ At(r, "fan")
  /\ \E x \in Targeted(r) :
       /\ Enabled(r, x)
       /\ x[2] = "in_app" => Refers(job[r].notification)
       /\ inbox' = IF x[2] = "in_app" THEN inbox \cup {<<job[r].notification, x[1]>>} ELSE inbox
       /\ Set(r, [job[r] EXCEPT !.pc = "record", !.at = x])
  /\ UNCHANGED <<notifications, deliveries, processed, ghosts>>

DeliverFails(r) ==
  /\ At(r, "fan")
  /\ \E x \in Targeted(r) :
       /\ Enabled(r, x)
       /\ \/ x[2] = "in_app" /\ (~Refers(job[r].notification) \/ "dbError" \in Happenings)
          \/ x[2] = "push" /\ "adapterError" \in Happenings
       /\ Retry(r, x)
  /\ UNCHANGED <<tables, ghosts>>

Record(r) ==
  /\ At(r, "record") /\ Refers(job[r].notification)
  /\ Stored(r, job[r].at, "sent")

RecordFails(r) ==
  /\ At(r, "record")
  /\ ~Refers(job[r].notification) \/ "dbError" \in Happenings
  /\ Retry(r, job[r].at)
  /\ UNCHANGED <<tables, ghosts>>

\* Attempts are used up: the delivery is recorded as failed.
GiveUp(r) ==
  /\ At(r, "giveUp") /\ Refers(job[r].notification)
  /\ Stored(r, job[r].at, "failed")

\* recordSkipped and the last recordDelivery are not retried: ingest throws.
FanFails(r) ==
  /\ At(r, "giveUp") \/ (At(r, "fan") /\ \E x \in Targeted(r) : ~Enabled(r, x))
  /\ ~Refers(job[r].notification) \/ "dbError" \in Happenings
  /\ Fail(r)

\* The event is marked only when its whole handler succeeded.
Mark(r) ==
  /\ At(r, "mark")
  /\ processed' = processed \cup {job[r].event}
  /\ Goto(r, "done")
  /\ UNCHANGED <<notifications, inbox, deliveries, ghosts>>

\* Any other statement fails, or the isolate is gone.
Abort(r) ==
  /\ job[r].pc \in Running
  /\ "crash" \in Happenings \/ ("dbError" \in Happenings /\ job[r].pc # "record")
  /\ Fail(r)

-----------------------------------------------------------------------------
(* Unpublishing, reading, purging.                                              *)

\* unpublishBroadcastFromNotification: a broadcast that was never published is a no-op.
Unpublish(r) ==
  /\ At(r, "idle") /\ "unpublish" \in Work
  /\ IF Holders(Key[Broadcast]) = {} THEN Set(r, [Idle EXCEPT !.pc = "done"])
     ELSE \E n \in Holders(Key[Broadcast]) :
            Set(r, [Idle EXCEPT !.pc = "cutInbox", !.notification = n])
  /\ UNCHANGED <<tables, ghosts>>

\* deleteBroadcastCascade, statement by statement.
CutInbox(r) ==
  /\ At(r, "cutInbox")
  /\ inbox' = {x \in inbox : x[1] # job[r].notification}
  /\ Goto(r, "cutDeliveries")
  /\ UNCHANGED <<notifications, deliveries, processed, ghosts>>

CutDeliveries(r) ==
  /\ At(r, "cutDeliveries")
  /\ deliveries' = {d \in deliveries : d[1] # job[r].notification}
  /\ Goto(r, "cutRow")
  /\ UNCHANGED <<notifications, inbox, processed, ghosts>>

\* A row that something refers to cannot be deleted: the request fails.
Referred(n) == (\E x \in inbox : x[1] = n) \/ (\E d \in deliveries : d[1] = n)

CutRow(r) ==
  LET n == job[r].notification
  IN  /\ At(r, "cutRow") /\ ~Referred(n)
      /\ notifications' = notifications \ {n}
      /\ retracted' = retracted \cup ({n} \cap notifications)
      /\ Goto(r, "done")
      /\ UNCHANGED <<inbox, deliveries, processed, reached, purged>>

CutRowFails(r) == At(r, "cutRow") /\ Referred(job[r].notification) /\ Fail(r)

\* GET /inbox: the broadcasts this user has no row of, then one insert for each.
ReadInbox(r, u) ==
  /\ At(r, "idle") /\ "read" \in Work
  /\ LET missing == {n \in notifications : n.input = Broadcast /\ <<n, u>> \notin inbox}
     IN  Set(r, [Idle EXCEPT !.user = u, !.missing = missing,
                             !.pc = IF missing = {} THEN "done" ELSE "backfill"])
  /\ UNCHANGED <<tables, ghosts>>

Backfill(r) ==
  /\ At(r, "backfill")
  /\ \E n \in job[r].missing :
       /\ Refers(n)
       /\ inbox' = inbox \cup {<<n, job[r].user>>}
       /\ Set(r, [job[r] EXCEPT !.missing = @ \ {n},
                                !.pc = IF job[r].missing = {n} THEN "done" ELSE "backfill"])
  /\ UNCHANGED <<notifications, deliveries, processed, ghosts>>

BackfillFails(r) ==
  /\ At(r, "backfill") /\ \E n \in job[r].missing : ~Refers(n)
  /\ Fail(r)

\* purgeOlderThan deletes what is past its retention, table by table. What a
\* running request has just written is not that old. (The ledger of processed
\* events is left out: its 7 days are longer than any outbox row is retried.)
Old(x) ==
  /\ job[x[1].by].pc \in Over
  /\ \A r \in Requests : At(r, "backfill") => job[r].user # x[2]

PurgeInbox ==
  /\ "purge" \in Work
  /\ \E S \in SUBSET {x \in inbox : Old(x)} : inbox' = inbox \ S /\ purged' = purged \cup S
  /\ UNCHANGED <<notifications, deliveries, processed, reached, retracted, job>>

PurgeDeliveries ==
  /\ "purge" \in Work
  /\ \E D \in SUBSET {d \in deliveries : Old(d)} : deliveries' = deliveries \ D
  /\ UNCHANGED <<notifications, inbox, processed, ghosts, job>>

-----------------------------------------------------------------------------
Step(r) ==
  \/ \E e \in Events : Dispatch(r, e)
  \/ Publish(r) \/ Find(r) \/ Insert(r) \/ InsertFails(r)
  \/ Skip(r) \/ Deliver(r) \/ DeliverFails(r) \/ Record(r) \/ RecordFails(r)
  \/ GiveUp(r) \/ FanFails(r) \/ Mark(r) \/ Abort(r)
  \/ Unpublish(r) \/ CutInbox(r) \/ CutDeliveries(r) \/ CutRow(r) \/ CutRowFails(r)
  \/ \E u \in Users : ReadInbox(r, u)
  \/ Backfill(r) \/ BackfillFails(r)

Next == (\E r \in Requests : Step(r)) \/ PurgeInbox \/ PurgeDeliveries

Spec == Init /\ [][Next]_vars

-----------------------------------------------------------------------------
(* Properties.                                                                  *)

\* An event is acknowledged only when every recipient of its unkeyed inputs has
\* an outcome on every channel: a handler that fails halfway is run again
\* (dispatchEvent marks after the handler).
ProcessedIsDelivered ==
  \A e \in processed : \A i \in 1..Len(Plan[e]) :
    Key[Plan[e][i]] = None =>
      \A x \in Targets(Plan[e][i]) : <<Plan[e][i], x[1], x[2]>> \in reached

\* However often an event is delivered or a broadcast published, and however the
\* requests overlap, no user has two inbox rows of one dedup key (ingest).
KeyedOnce ==
  \A x, y \in inbox :
    /\ x[2] = y[2]
    /\ Key[x[1].input] # None
    /\ Key[x[1].input] = Key[y[1].input]
    => x = y

\* Once an unpublish has deleted a broadcast, nothing of that broadcast is or comes back in
\* any inbox: not through a fan-out still running, nor through a backfill
\* (deleteBroadcastCascade).
RetractedIsGone ==
  /\ \A x \in inbox : x[1] \notin retracted
  /\ \A d \in deliveries : d[1] \notin retracted

(* What the comments claim and the code does not keep.                          *)

\* "no event is ever lost": the same for inputs with a dedup key.
KeyedIsDelivered ==
  \A e \in processed : \A i \in 1..Len(Plan[e]) :
    \A x \in Targets(Plan[e][i]) : <<Plan[e][i], x[1], x[2]>> \in reached

\* "notification dedups on envelope.id, so the later drain redelivery is a no-op".
DeliveredOnce ==
  \A x, y \in inbox : x[2] = y[2] /\ x[1].input = y[1].input => x = y

\* "inbox 90d": a purged inbox row does not come back.
PurgedStaysPurged == inbox \cap purged = {}
=============================================================================
