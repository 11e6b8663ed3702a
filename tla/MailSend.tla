------------------------------ MODULE MailSend ------------------------------
(***************************************************************************)
(* services/mail-gateway: the outbound send core (sendMail, idempotent by    *)
(* key through the send log) as requests call it, and the cron drain of the  *)
(* scheduled sends, which hands every due row to the same core under the key *)
(* of the row, while its owner may still edit, reschedule or cancel it.      *)
(*                                                                           *)
(* A body stands for everything hashRequest covers. Each D1 statement and    *)
(* each call of the provider is one step. The order of due rows, the         *)
(* attachments' bytes and the events and audit records published afterwards  *)
(* (none of which can fail a send) are left out.                             *)
(***************************************************************************)
EXTENDS Integers, FiniteSets

CONSTANTS
  Clients,      \* requests that run sendMail, one at a time each
  Crons,        \* invocations of the drain that may overlap
  ClientKeys, Schedules,   \* idempotency keys: of clients, and "sched:<row>"
  Bodies, None,
  Batch,        \* SCHEDULED_DRAIN_BATCH
  MaxAttempts,  \* SCHEDULED_MAX_ATTEMPTS, per scheduled row
  SendTries,    \* DEFAULT_SEND_MAX_ATTEMPTS, calls of the provider per send
  Work,         \* what owners do with their scheduled sends in a run
  Happenings    \* which failures a run explores

Workers == Clients \cup Crons
Keys == ClientKeys \cup Schedules
AllWork == {"edit", "reschedule", "cancel"}
AllHappenings == {"refused", "busy", "answerLost", "loadError", "dbError", "crash"}

ASSUME NamesAssumption ==
  /\ Clients \cap Crons = {} /\ ClientKeys \cap Schedules = {}
  /\ None \notin Bodies \cup Keys
ASSUME BoundsAssumption ==
  /\ Batch \in Nat \ {0} /\ MaxAttempts \in Nat \ {0} /\ SendTries \in Nat \ {0}
  /\ Work \subseteq AllWork /\ Happenings \subseteq AllHappenings

VARIABLES
  log,        \* mail_send_log, by key
  rows,       \* mail_scheduled
  delivered,  \* what the provider accepted: how often (2 is "twice or more"), by key and body
  flunked,    \* history: keys a send of which was recorded as failed
  unsure,     \* history: keys for which the provider accepted and its answer was lost
  tried,      \* history: attempts on a scheduled row that reached the provider
  answered,   \* history: <<key, body>> of requests that were answered with success
  job         \* what each worker is doing

store   == <<log, rows>>
history == <<delivered, flunked, unsure, tried, answered>>
vars    == <<log, rows, delivered, flunked, unsure, tried, answered, job>>

Idle == [pc |-> "idle", key |-> None, body |-> None, attempts |-> 0, tries |-> 0, todo |-> {}]
Snapshots == [id : Schedules, body : Bodies, attempts : 0..(MaxAttempts - 1)]
Sending == {"send", "markSent", "markFailed"}
OnAKey == {"find", "claim", "markRow", "rowFailed"} \cup Sending

Jobs ==
  [pc : {"idle", "row"} \cup OnAKey, key : Keys \cup {None}, body : Bodies \cup {None},
   attempts : 0..MaxAttempts, tries : 0..(SendTries - 1), todo : SUBSET Snapshots]

Final == {"sent", "failed", "canceled"}

TypeOK ==
  /\ log \in [Keys -> [status : {"none", "pending", "sent", "failed"}, body : Bodies \cup {None}]]
  /\ rows \in [Schedules -> [status : {"none", "scheduled"} \cup Final, body : Bodies \cup {None},
                             attempts : 0..MaxAttempts, due : BOOLEAN]]
  /\ delivered \in [Keys -> [Bodies -> 0..2]]
  /\ flunked \subseteq Keys /\ unsure \subseteq Keys
  /\ tried \in [Schedules -> 0..MaxAttempts]
  /\ answered \subseteq Keys \X Bodies
  /\ job \in [Workers -> Jobs]

Init ==
  /\ log = [k \in Keys |-> [status |-> "none", body |-> None]]
  /\ rows = [s \in Schedules |-> [status |-> "none", body |-> None, attempts |-> 0, due |-> FALSE]]
  /\ delivered = [k \in Keys |-> [b \in Bodies |-> 0]]
  /\ flunked = {} /\ unsure = {} /\ answered = {}
  /\ tried = [s \in Schedules |-> 0]
  /\ job = [w \in Workers |-> Idle]

-----------------------------------------------------------------------------
(* The owner of a scheduled send. Times are in the future when they are given. *)

Schedule(s, b) ==
  /\ rows[s].status = "none"
  /\ rows' = [rows EXCEPT ![s] = [status |-> "scheduled", body |-> b, attempts |-> 0, due |-> FALSE]]
  /\ UNCHANGED <<log, history, job>>

FallsDue(s) ==
  /\ rows[s].status = "scheduled" /\ ~rows[s].due
  /\ rows' = [rows EXCEPT ![s].due = TRUE]
  /\ UNCHANGED <<log, history, job>>

\* PATCH /scheduled/:id, refused unless the row is still scheduled.
Edit(s, b) ==
  /\ "edit" \in Work /\ rows[s].status = "scheduled"
  /\ rows' = [rows EXCEPT ![s].body = b]
  /\ UNCHANGED <<log, history, job>>

Reschedule(s) ==
  /\ "reschedule" \in Work /\ rows[s].status = "scheduled"
  /\ rows' = [rows EXCEPT ![s].due = FALSE]
  /\ UNCHANGED <<log, history, job>>

Cancel(s) ==
  /\ "cancel" \in Work /\ rows[s].status = "scheduled"
  /\ rows' = [rows EXCEPT ![s].status = "canceled"]
  /\ UNCHANGED <<log, history, job>>

-----------------------------------------------------------------------------
(* sendMail.                                                                    *)

Set(w, j) == job' = [job EXCEPT ![w] = j]
At(w, pc) == job[w].pc = pc
Goto(w, pc) == Set(w, [job[w] EXCEPT !.pc = pc])

\* A request answers with success; the drain goes on to mark its row.
Returns(w) ==
  IF w \in Clients
  THEN Set(w, Idle) /\ answered' = answered \cup {<<job[w].key, job[w].body>>}
  ELSE Goto(w, "markRow") /\ UNCHANGED answered
Throws(w) ==
  /\ IF w \in Clients THEN Set(w, Idle) ELSE Goto(w, "rowFailed")
  /\ UNCHANGED answered

Request(w, k, b) ==
  /\ w \in Clients /\ At(w, "idle")
  /\ Set(w, [Idle EXCEPT !.pc = "find", !.key = k, !.body = b])
  /\ UNCHANGED <<store, history>>

Bug_NoHashCheck(w) ==
  LET row == log[job[w].key]
  IN  /\ At(w, "find")
      /\ \/ row.status = "none" /\ Goto(w, "claim") /\ UNCHANGED answered
         \/ row.status \in {"sent", "pending"} /\ Returns(w)
         \/ row.status = "failed" /\ Goto(w, "send") /\ UNCHANGED answered
      /\ UNCHANGED <<store, delivered, flunked, unsure, tried>>
Bug_ResendsPending(w) ==
  LET row == log[job[w].key]
  IN  /\ At(w, "find")
      /\ \/ row.status = "none" /\ Goto(w, "claim") /\ UNCHANGED answered
         \/ row.status # "none" /\ row.body # job[w].body /\ Throws(w)
         \/ row.status = "sent" /\ row.body = job[w].body /\ Returns(w)
         \/ row.status \in {"failed", "pending"} /\ row.body = job[w].body /\ Goto(w, "send") /\ UNCHANGED answered
      /\ UNCHANGED <<store, delivered, flunked, unsure, tried>>
\* Reconcile with an earlier claim of the key: another body conflicts, a send
\* that is done or under way is a duplicate, a failed one is tried again.
Find(w) ==
  LET row == log[job[w].key]
  IN  /\ At(w, "find")
      /\ \/ row.status = "none" /\ Goto(w, "claim") /\ UNCHANGED answered
         \/ row.status # "none" /\ row.body # job[w].body /\ Throws(w)
         \/ row.status \in {"sent", "pending"} /\ row.body = job[w].body /\ Returns(w)
         \/ row.status = "failed" /\ row.body = job[w].body /\ Goto(w, "send") /\ UNCHANGED answered
      /\ UNCHANGED <<store, delivered, flunked, unsure, tried>>

\* INSERT OR IGNORE on the unique key; the loser of the race is a duplicate.
Claim(w) ==
  LET k == job[w].key
  IN  /\ At(w, "claim")
      /\ IF log[k].status = "none"
         THEN /\ log' = [log EXCEPT ![k] = [status |-> "pending", body |-> job[w].body]]
              /\ Goto(w, "send") /\ UNCHANGED answered
         ELSE Returns(w) /\ UNCHANGED log
      /\ UNCHANGED <<rows, delivered, flunked, unsure, tried>>

\* The first call of the provider in this send.
Reaches(w) ==
  LET k == job[w].key
  IN  tried' = IF k \in Schedules /\ job[w].tries = 0 /\ tried[k] < MaxAttempts
               THEN [tried EXCEPT ![k] = @ + 1] ELSE tried
Accepts(w) ==
  LET k == job[w].key  b == job[w].body
  IN  delivered' = [delivered EXCEPT ![k][b] = IF @ < 2 THEN @ + 1 ELSE 2]

Accepted(w) ==
  /\ At(w, "send") /\ Reaches(w) /\ Accepts(w)
  /\ Goto(w, "markSent")
  /\ UNCHANGED <<store, flunked, unsure, answered>>

\* A rejection that is final.
Refused(w) ==
  /\ At(w, "send") /\ "refused" \in Happenings /\ Reaches(w)
  /\ Goto(w, "markFailed")
  /\ UNCHANGED <<store, delivered, flunked, unsure, answered>>

Bug_OneTryMore(w) ==
  /\ At(w, "send") /\ Reaches(w)
  /\ \/ "busy" \in Happenings /\ UNCHANGED <<delivered, unsure>>
     \/ "answerLost" \in Happenings /\ Accepts(w) /\ unsure' = unsure \cup {job[w].key}
  /\ Set(w, IF job[w].tries < SendTries THEN [job[w] EXCEPT !.tries = @ + 1]
            ELSE [job[w] EXCEPT !.pc = "markFailed"])
  /\ UNCHANGED <<store, flunked, answered>>
\* A reset, a timeout, a 429 or a 5xx: the provider may have accepted it.
Unanswered(w) ==
  /\ At(w, "send") /\ Reaches(w)
  /\ \/ "busy" \in Happenings /\ UNCHANGED <<delivered, unsure>>
     \/ "answerLost" \in Happenings /\ Accepts(w) /\ unsure' = unsure \cup {job[w].key}
  /\ Set(w, IF job[w].tries + 1 < SendTries THEN [job[w] EXCEPT !.tries = @ + 1]
            ELSE [job[w] EXCEPT !.pc = "markFailed"])
  /\ UNCHANGED <<store, flunked, answered>>

MarkSent(w) ==
  /\ At(w, "markSent")
  /\ log' = [log EXCEPT ![job[w].key].status = "sent"]
  /\ Returns(w)
  /\ UNCHANGED <<rows, delivered, flunked, unsure, tried>>

\* The catch of the provider call covers markSendSent.
MarkSentFails(w) ==
  /\ At(w, "markSent") /\ "dbError" \in Happenings
  /\ Goto(w, "markFailed")
  /\ UNCHANGED <<store, history>>

Bug_MarksSent(w) ==
  /\ At(w, "markFailed")
  /\ log' = [log EXCEPT ![job[w].key].status = "sent"]
  /\ Throws(w)
  /\ UNCHANGED <<rows, delivered, flunked, unsure, tried>>
MarkFailed(w) ==
  /\ At(w, "markFailed")
  /\ log' = [log EXCEPT ![job[w].key].status = "failed"]
  /\ flunked' = flunked \cup {job[w].key}
  /\ Throws(w)
  /\ UNCHANGED <<rows, delivered, unsure, tried>>

\* Any other statement of sendMail fails: the claim stays as it is.
DbFails(w) ==
  /\ job[w].pc \in {"find", "claim", "markFailed"} /\ "dbError" \in Happenings
  /\ Throws(w)
  /\ UNCHANGED <<store, delivered, flunked, unsure, tried>>

Crash(w) ==
  /\ ~At(w, "idle") /\ "crash" \in Happenings
  /\ Set(w, Idle)
  /\ UNCHANGED <<store, history>>

-----------------------------------------------------------------------------
(* runScheduledSendDrain.                                                       *)

DueRows == {s \in Schedules : rows[s].status = "scheduled" /\ rows[s].due}

\* claimDueScheduled only reads: what it returns is a snapshot.
Tick(w) ==
  /\ w \in Crons /\ At(w, "idle")
  /\ \E S \in (SUBSET DueRows) \ {{}} :
       /\ Cardinality(S) <= Batch /\ (S = DueRows \/ Cardinality(S) = Batch)
       /\ Set(w, [Idle EXCEPT !.pc = "row",
            !.todo = {[id |-> s, body |-> rows[s].body, attempts |-> rows[s].attempts] : s \in S}])
  /\ UNCHANGED <<store, history>>

TakeRow(w) ==
  /\ At(w, "row")
  /\ \E x \in job[w].todo :
       Set(w, [pc |-> "find", key |-> x.id, body |-> x.body, attempts |-> x.attempts + 1,
               tries |-> 0, todo |-> job[w].todo \ {x}])
  /\ UNCHANGED <<store, history>>

\* The parked attachments cannot be read, or the sender cannot be resolved.
LoadFails(w) ==
  /\ w \in Crons /\ At(w, "find") /\ "loadError" \in Happenings
  /\ Goto(w, "rowFailed")
  /\ UNCHANGED <<store, history>>

NextRow(w) == Set(w, IF job[w].todo = {} THEN Idle ELSE [Idle EXCEPT !.pc = "row", !.todo = job[w].todo])

MarkRow(w) ==
  LET s == job[w].key
  IN  /\ At(w, "markRow")
      /\ rows' = IF rows[s].status = "scheduled"
                 THEN [rows EXCEPT ![s].status = "sent", ![s].attempts = job[w].attempts] ELSE rows
      /\ NextRow(w)
      /\ UNCHANGED <<log, history>>

MarkRowFails(w) ==
  /\ At(w, "markRow") /\ "dbError" \in Happenings
  /\ Goto(w, "rowFailed")
  /\ UNCHANGED <<store, history>>

Attempted(row, n) ==
  [row EXCEPT !.status = IF n >= MaxAttempts THEN "failed" ELSE "scheduled", !.attempts = n]

Bug_Unguarded(w) ==
  LET s == job[w].key
  IN  /\ At(w, "rowFailed")
      /\ rows' = [rows EXCEPT ![s] = Attempted(@, job[w].attempts)]
      /\ NextRow(w)
      /\ UNCHANGED <<log, history>>
Bug_NotCounted(w) ==
  LET s == job[w].key
  IN  /\ At(w, "rowFailed")
      /\ rows' = rows
      /\ NextRow(w)
      /\ UNCHANGED <<log, history>>
\* markScheduledAttemptFailed: the last attempt makes the row failed.
RowFailed(w) ==
  LET s == job[w].key
  IN  /\ At(w, "rowFailed")
      /\ rows' = IF rows[s].status = "scheduled"
                 THEN [rows EXCEPT ![s] = Attempted(@, job[w].attempts)] ELSE rows
      /\ NextRow(w)
      /\ UNCHANGED <<log, history>>

\* The statement in the catch fails: the drain ends, its other rows wait for a tick.
RowFailedFails(w) ==
  /\ At(w, "rowFailed") /\ "dbError" \in Happenings
  /\ Set(w, Idle)
  /\ UNCHANGED <<store, history>>

-----------------------------------------------------------------------------
Smooth(w) ==
  \/ \E k \in ClientKeys, b \in Bodies : Request(w, k, b)
  \/ Find(w) \/ Claim(w) \/ Accepted(w) \/ Refused(w) \/ Unanswered(w)
  \/ MarkSent(w) \/ MarkFailed(w)
  \/ Tick(w) \/ TakeRow(w) \/ LoadFails(w) \/ MarkRow(w) \/ RowFailed(w)

Step(w) ==
  \/ Smooth(w)
  \/ MarkSentFails(w) \/ DbFails(w) \/ MarkRowFails(w) \/ RowFailedFails(w) \/ Crash(w)

Owner(s) ==
  (\E b \in Bodies : Schedule(s, b) \/ Edit(s, b)) \/ FallsDue(s) \/ Reschedule(s) \/ Cancel(s)

Next == (\E w \in Workers : Step(w)) \/ (\E s \in Schedules : Owner(s))

Spec == Init /\ [][Next]_vars

\* A cron invocation runs to its end, ticks keep coming, and from some time on no
\* statement fails and no isolate ends; the provider may go on refusing.
Calm == (\E w \in Workers : Smooth(w)) \/ (\E s \in Schedules : Owner(s))
FairSpec == Spec /\ (\A w \in Crons : WF_vars(Step(w))) /\ <>[][Calm]_vars

-----------------------------------------------------------------------------
(* Properties.                                                                  *)

\* No key is delivered twice unless a send under it was recorded as failed or the
\* provider's answer was lost, whatever races, crashes and failing statements
\* there are (the send log of sendMail).
OnceUnlessFailed ==
  \A k \in Keys \ (flunked \cup unsure) : \A b \in Bodies : delivered[k][b] <= 1

\* Whatever is delivered under a key is the body that claimed the key, however
\* requests and edits of a scheduled send race (the hash check of sendMail).
OneBodyPerKey ==
  \A k \in Keys : \A b \in Bodies : delivered[k][b] > 0 => log[k].body = b

\* The send log says "sent" only of a mail that the provider accepted.
LogIsTrue ==
  \A k \in Keys : log[k].status = "sent" => \E b \in Bodies : delivered[k][b] > 0

\* A scheduled send that was sent, canceled or given up stays so: a drain that
\* read it before never writes it back (the status guards of markScheduled...).
EndedForGood ==
  [][\A s \in Schedules : rows[s].status \in Final => rows'[s].status = rows[s].status]_vars

\* "Only after a successful send do we flip the schedule row to 'sent'."
SentWasDelivered ==
  \A s \in Schedules : rows[s].status = "sent" => \E b \in Bodies : delivered[s][b] > 0

\* "a transient provider outage is retried across several ticks": a row is given
\* up only when each of its attempts reached the provider.
FailedWasTried ==
  \A s \in Schedules : rows[s].status = "failed" => tried[s] = MaxAttempts

\* Every scheduled send that falls due is sent or given up, unless its owner
\* cancels or reschedules it: neither a row that fails nor a full batch blocks it.
EveryScheduleEnds ==
  \A s \in Schedules :
    (rows[s].status = "scheduled" /\ rows[s].due) ~> (rows[s].status # "scheduled" \/ ~rows[s].due)

(* What the documentation claims and the code does not keep.                    *)

\* "Same key + same body = one delivery; concurrent sends collapse".
OneDelivery == \A k \in Keys : \A b \in Bodies : delivered[k][b] <= 1

\* "same key + different body = 409".
ConflictIsRefused == \A x \in answered : log[x[1]].body = x[2]

\* "does not deliver a canceled schedule".
CanceledIsNotDelivered ==
  \A s \in Schedules : rows[s].status = "canceled" => \A b \in Bodies : delivered[s][b] = 0
=============================================================================
