---------------------------- MODULE GithubSync ------------------------------
(***************************************************************************)
(* services/github-sync: one issue of an enabled repository and the task it *)
(* is linked to.  Webhooks carry a snapshot of the issue and may arrive in  *)
(* any order; domain events of task-service make the engine read the task;  *)
(* an alarm compares the two every six hours.  Deliveries and alarm run     *)
(* beside each other and beside the users of both sides, one call of a      *)
(* service or statement at a time.  What fails is delivered again, a PATCH  *)
(* without an answer is sent again, and any worker may die in between.      *)
(*                                                                         *)
(* The title stands for title and body; assignees, label filters, comments, *)
(* the runs table and the conflict events are left out, and so are manual   *)
(* links beyond the state they leave behind.  GitHub is external.           *)
(***************************************************************************)
EXTENDS TaskService

CONSTANTS
  Drain, Alarm,  \* the consumer of webhooks and events, and the reconcile loop
  Starts,        \* where a behaviour starts: the repository's direction and origin,
                 \* whether there is a link yet, the titles agree and the issue's is
                 \* too long for a task, and, as bounds,
                 \* the edits of the issue by people and the faults to come
  Faults         \* the kinds of faults explored

Directions == {"bidirectional", "internal_to_github", "github_to_internal"}
Markers == {"in_progress", "blocked", "cancelled"}
Issues == [title : Titles, state : {"open", "closed"}, marker : Markers \cup {None}, at : Nat]
ASSUME SyncAssumption ==
  /\ Services = {Drain, Alarm} /\ Drain # Alarm /\ Tasks # {} /\ Titles \ TooLong # {}
  /\ Starts \subseteq [direction : Directions, origin : {"internal", "github"}, linked : BOOLEAN,
                       agree : BOOLEAN, long : BOOLEAN, edits : SUBSET {"title", "state"}, faults : Nat]
  /\ Faults \subseteq {"crash", "request", "outage"} /\ None \notin Issues

VARIABLES
  repo,      \* direction and origin of the row of github_repos, an enabled one
  issue,     \* the issue, on GitHub
  edits,     \* edits of it by people, to come
  webhooks,  \* deliveries not yet processed, as [n, issue]
  link,      \* the row of github_links
  work,      \* what each consumer is doing
  faults     \* faults to come

vars == <<taskVars, repo, issue, edits, webhooks, link, work, faults>>

Links == [task : Tasks \cup {None}, state : {"none", "pending", "in_sync", "error"},
          gh : Nat, tv : Nat \cup {None}]
NoLink == [task |-> None, state |-> "none", gh |-> 0, tv |-> None]
Webhooks == [n : SUBSET {"title", "state"}, issue : Issues]
\* pc, the delivery, the rows and the issue as read, and what goes to the link.
NoJob == [pc |-> "idle", job |-> {}, link |-> NoLink, row |-> NoRow, issue |-> None,
          task |-> None, gh |-> 0, tv |-> None, set |-> None, again |-> FALSE]
Linked == link # NoLink

Jobs ==
  [pc : {"idle", "link", "look", "task", "issue", "push", "patch", "patching", "import",
         "importing", "create", "close", "save", "amend", "write"},
   job : SUBSET (Webhooks \cup Events), link : Links, row : Rows, issue : Issues \cup {None},
   task : Tasks \cup {None}, gh : Nat, tv : Nat \cup {None},
   set : {None, "error", "tv", "pending"}, again : BOOLEAN]
SyncTypeOK ==
  /\ TasksTypeOK
  /\ repo \in [direction : Directions, origin : {"internal", "github"}]
  /\ issue \in Issues /\ edits \subseteq {"title", "state"} /\ webhooks \subseteq Webhooks
  /\ link \in Links /\ faults \in Nat /\ work \in [Services -> Jobs]

-----------------------------------------------------------------------------
(* domain/: mapping, conflict, echo.                                        *)

StatusToState(status) == IF status \in {"done", "cancelled"} THEN "closed" ELSE "open"
StatusMarker(status) == IF status \in Markers THEN status ELSE None
\* The marker counts where it fits the state.
StateToStatus(i) ==
  IF i.marker # None /\ StatusToState(i.marker) = i.state THEN i.marker
  ELSE IF i.state = "open" THEN "todo" ELSE "done"

HasAnyDiff(row, i) ==
  row.title # i.title \/ StatusToState(row.status) # i.state \/ StateToStatus(i) # row.status

GithubMoved(l, i) == i.at > l.gh
TaskMoved(l, row) == l.tv # None => row.version > l.tv

SelfCaused(actor) == actor = "service"

-----------------------------------------------------------------------------
(* The two sides.                                                           *)

\* Ids are as good as one another, and so are titles.
NewId == CHOOSE t \in Tasks : tasks[t].life = "none"
SyncInit ==
  /\ \E t \in {CHOOSE u \in Tasks : TRUE}, b \in Titles \ TooLong, start \in Starts,
        a \in {CHOOSE s \in Titles \ TooLong : TRUE} \cup TooLong :
       /\ (a = b) = start.agree /\ checkTitle(a) = ~start.long /\ repo = [direction |-> start.direction, origin |-> start.origin]
       /\ issue = [title |-> a, state |-> "open", marker |-> None, at |-> 1]
       /\ tasks = [u \in Tasks |-> IF start.linked /\ u = t
                     THEN [life |-> "live", title |-> b, status |-> "todo", origin |-> "internal", version |-> 1]
                     ELSE NoRow]
       /\ link = IF start.linked THEN [task |-> t, state |-> "pending", gh |-> 1, tv |-> None] ELSE NoLink
       /\ edits = start.edits /\ faults = start.faults
       /\ webhooks = IF start.linked THEN {} ELSE {[n |-> edits, issue |-> issue]}
  /\ deps = [t \in Tasks |-> {}] /\ overtaken = {} /\ raced = {} /\ events = {}
  /\ held = [c \in Clients |-> Unread] /\ req = [c \in Clients |-> NoRequest]
  /\ work = [w \in Services |-> NoJob]

\* updated_at has whole seconds. The webhooks of our own login are dropped on
\* arrival.
Seconds(i) == {[i EXCEPT !.at = @ + k] : k \in 0..1}
EditIssue ==
  /\ \E kind \in edits :
       /\ edits' = edits \ {kind}
       /\ \E i \in CASE kind = "title" -> {[issue EXCEPT !.title = s] : s \in Titles \ {issue.title}}
                     [] kind = "state" -> {[issue EXCEPT !.state = IF @ = "open" THEN "closed" ELSE "open"]} :
            issue' \in Seconds(i)
  /\ webhooks' = webhooks \cup {[n |-> edits', issue |-> issue']}
  /\ UNCHANGED <<taskVars, link, work, faults, repo>>

sync == <<repo, issue, edits, webhooks, link, work, faults>>
\* A request with a version that is not current changes nothing, and whoever
\* holds a current one has read the row (VersionNamesRow): users read just before.
\* Bound: of the task with the link; events of any other are ignored.
EditTask(c) ==
  /\ \/ \E t \in Tasks :
          /\ t = link.task
          /\ Young(t) /\ (ArchiveRead(c, t) \/ \E p \in Edits : PatchRead(c, t, tasks[t].version, p))
     \/ Proceed(c)
  /\ UNCHANGED sync

-----------------------------------------------------------------------------
(* The engine.                                                              *)

Is(w, pc) == work[w].pc = pc
Continue(w, pc) == work' = [work EXCEPT ![w].pc = pc]
Begin(w, pc, job, l, i) ==
  work' = [work EXCEPT ![w] = [NoJob EXCEPT !.pc = pc, !.job = job, !.link = l, !.issue = i]]
\* Some columns of the link are written, the others as read: markLinkError, the
\* version of a task that does not differ, the issue of an archived task.
Amend(w, set, again) ==
  work' = [work EXCEPT ![w] = [NoJob EXCEPT !.pc = "amend", !.job = work[w].job, !.set = set, !.again = again,
                                            !.tv = IF set = "tv" THEN work[w].row.version ELSE None]]
Fault(kind) == kind \in Faults /\ faults > 0 /\ faults' = faults - 1
\* The delivery is over, handled or not.
Leave(w) == work' = [work EXCEPT ![w] = NoJob]
\* markProcessed, after the last write to the link, unless the worker dies between.
Processed(w) ==
  /\ Leave(w)
  /\ \/ webhooks' = webhooks \ work[w].job /\ events' = events \ work[w].job /\ UNCHANGED faults
     \/ Fault("crash") /\ work[w].job # {} /\ UNCHANGED <<webhooks, events>>
quiet == <<repo, issue, edits, webhooks, link, faults>>

\* applyWebhook.
TakeWebhook(h) ==
  /\ Is(Drain, "idle")
  /\ IF repo.direction = "internal_to_github" THEN webhooks' = webhooks \ {h} /\ UNCHANGED work
     ELSE Begin(Drain, IF Linked THEN "task" ELSE "import", {h}, link, h.issue) /\ UNCHANGED webhooks
  /\ UNCHANGED <<taskVars, issue, edits, link, faults, repo>>

\* dispatchDomainEvent: applyTaskUpsert, applyTaskArchived.
Ignored(e) ==
  \/ e.name = "dependency_changed" \/ SelfCaused(e.actor)
  \/ link.task # e.task \/ repo.direction = "github_to_internal"
TakeEvent(e) ==
  /\ Is(Drain, "idle")
  /\ IF Ignored(e) THEN Handle(e) /\ UNCHANGED work
     ELSE Begin(Drain, IF e.name = "archived" THEN "close" ELSE "task", {e}, link, None) /\ UNCHANGED taskVars
  /\ UNCHANGED quiet

\* reconcileRepo: the listed issue, then its link, then the task.
StartReconcile ==
  /\ Is(Alarm, "idle") /\ Begin(Alarm, "link", {}, NoLink, issue)
  /\ UNCHANGED <<taskVars, quiet>>
FindLink ==
  /\ Is(Alarm, "link")
  /\ IF Linked THEN work' = [work EXCEPT ![Alarm].pc = "look", ![Alarm].link = link]
     ELSE IF repo.direction = "internal_to_github" THEN Leave(Alarm) ELSE Continue(Alarm, "import")
  /\ UNCHANGED <<taskVars, quiet>>
Bug_MovedOnly ==
  LET t == work[Alarm].link.task IN
  /\ Is(Alarm, "look")
  /\ IF Live(t) /\ GithubMoved(work[Alarm].link, work[Alarm].issue) THEN Continue(Alarm, "task") ELSE Leave(Alarm)
  /\ UNCHANGED <<taskVars, quiet>>
Compare ==
  LET t == work[Alarm].link.task i == work[Alarm].issue IN
  /\ Is(Alarm, "look")
  /\ IF Live(t) /\ (HasAnyDiff(tasks[t], i) \/ GithubMoved(work[Alarm].link, i))
     THEN Continue(Alarm, "task") ELSE Leave(Alarm)
  /\ UNCHANGED <<taskVars, quiet>>

\* getTask. reconcileIssueChange: both sides moved and internal is the origin,
\* or the task is overwritten. applyTaskUpsert reads the issue next.
Clash(w, i) == GithubMoved(work[w].link, i) /\ TaskMoved(work[w].link, tasks[work[w].link.task])
ReadTask(w) ==
  LET t == work[w].link.task IN
  /\ Is(w, "task") /\ Live(t)
  /\ work' = [work EXCEPT ![w].row = tasks[t], ![w].task = t,
       ![w].pc = IF work[w].issue = None THEN "issue"
                 ELSE IF Clash(w, work[w].issue) /\ repo.origin = "internal" THEN "push" ELSE "patch",
       ![w].link = IF work[w].issue = None THEN @ ELSE NoLink]
  /\ UNCHANGED <<taskVars, quiet>>
TaskGone(w) ==
  /\ Is(w, "task") /\ ~Live(work[w].link.task)
  /\ Amend(w, "error", FALSE) /\ UNCHANGED <<taskVars, quiet>>

\* getIssue, in applyTaskUpsert.
ReadIssue(w) ==
  LET moved == GithubMoved(work[w].link, issue)
      wins  == moved /\ TaskMoved(work[w].link, work[w].row) /\ repo.origin = "github"
      goto(pc) == work' = [work EXCEPT ![w].pc = pc, ![w].issue = issue, ![w].link = NoLink] IN
  /\ Is(w, "issue")
  /\ IF wins THEN goto("patch")
     ELSE IF moved \/ HasAnyDiff(work[w].row, issue) THEN goto("push")
     ELSE Amend(w, "tv", FALSE)
  /\ UNCHANGED <<taskVars, quiet>>

\* The link remembers the issue and the task as of these.
Save(w, at, version) ==
  work' = [work EXCEPT ![w] = [NoJob EXCEPT !.pc = "save", !.job = work[w].job, !.gh = at, !.tv = version]]

\* pushTaskToIssue, whatever has happened to the issue since it was read.
Pushed(row, i) ==
  [i EXCEPT !.title = row.title, !.state = StatusToState(row.status), !.marker = StatusMarker(row.status)]
Bug_CountsOwnWrite(w) ==
  /\ Is(w, "push") /\ issue' \in Seconds(Pushed(work[w].row, issue))
  /\ Save(w, issue'.at, work[w].row.version + 1)
  /\ UNCHANGED <<taskVars, edits, webhooks, link, faults, repo>>
Push(w) ==
  /\ Is(w, "push") /\ issue' \in Seconds(Pushed(work[w].row, issue))
  /\ Save(w, issue'.at, work[w].row.version)
  /\ UNCHANGED <<taskVars, edits, webhooks, link, faults, repo>>

\* patchTaskFromIssue: PATCH with the version of the task that was read.
PatchFrom(row, i) ==
  [title |-> i.title, status |-> IF StateToStatus(i) = row.status THEN None ELSE StateToStatus(i)]
Patch(w) ==
  LET row == work[w].row t == work[w].task patch == PatchFrom(row, work[w].issue) IN
  /\ Is(w, "patch")
  /\ IF Accepts(w, t, row.version, patch) THEN PatchRead(w, t, row.version, patch) /\ Continue(w, "patching")
     ELSE Amend(w, "error", FALSE) /\ UNCHANGED taskVars
  /\ UNCHANGED quiet
\* The events of our own writes are dropped on arrival.
Hear(w, e) == IF SelfCaused(ActorOf(w)) THEN UNCHANGED events ELSE Emits(w, req[w].task, e)
Patching(w) ==
  /\ Is(w, "patching")
  /\ \/ Update(w) /\ UNCHANGED work
     \/ /\ At(w, "updated") /\ Live(req[w].task) /\ Hear(w, PatchEvents(w)) /\ Done(w)
        /\ Save(w, work[w].issue.at, tasks[req[w].task].version) /\ UNCHANGED <<tasks, graph, held>>
     \/ (NoRowChanged(w) \/ PatchGone(w)) /\ Amend(w, "error", FALSE)
  /\ UNCHANGED quiet

\* importIssueAsTask: a task, then the link; the second link of an issue is a
\* UNIQUE violation, and the delivery is tried again.
Import(w) ==
  /\ Is(w, "import") /\ \E t \in Tasks : t = NewId /\ Create(w, t, work[w].issue.title, "github")
  /\ Continue(w, "importing") /\ UNCHANGED quiet
\* A title that is too long is a 400 each time: the alarm goes on to the next
\* issue, and the queue gives the delivery up after its retries.
ImportRefused(w) ==
  /\ Is(w, "import") /\ ~checkTitle(work[w].issue.title)
  /\ Leave(w) /\ webhooks' \in {webhooks, webhooks \ work[w].job}
  /\ UNCHANGED <<taskVars, repo, issue, edits, link, faults>>
Imported(w) ==
  /\ Is(w, "importing") /\ At(w, "created") /\ Hear(w, {"created"}) /\ Done(w)
  /\ work' = [work EXCEPT ![w] = [NoJob EXCEPT !.pc = "create", !.job = work[w].job, !.task = req[w].task,
                                                !.gh = work[w].issue.at, !.tv = req[w].row.version]]
  /\ UNCHANGED <<tasks, graph, held, quiet>>
CreateLink(w) ==
  /\ Is(w, "create")
  /\ IF Linked THEN Leave(w) /\ UNCHANGED <<webhooks, events, link, faults, repo>>
     ELSE /\ link' = [task |-> work[w].task, state |-> "in_sync", gh |-> work[w].gh, tv |-> work[w].tv]
          /\ Processed(w)
  /\ UNCHANGED <<tasks, graph, held, req, issue, edits, repo>>

\* applyTaskArchived.
Close(w) ==
  /\ Is(w, "close") /\ issue' \in Seconds([issue EXCEPT !.state = "closed"])
  /\ Amend(w, "pending", FALSE)
  /\ UNCHANGED <<taskVars, edits, webhooks, link, faults, repo>>

\* links.update after a write on either side sets every column.
SaveLink(w) ==
  /\ Is(w, "save")
  /\ link' = [link EXCEPT !.state = "in_sync", !.gh = work[w].gh, !.tv = work[w].tv]
  /\ Processed(w) /\ UNCHANGED <<tasks, graph, held, req, issue, edits, repo>>
\* Otherwise it reads the row first, and writes the columns it does not set back.
ReadLink(w) ==
  /\ Is(w, "amend") /\ work' = [work EXCEPT ![w].pc = "write", ![w].link = link]
  /\ UNCHANGED <<taskVars, quiet>>
WriteLink(w) ==
  LET row == work[w].link IN
  /\ Is(w, "write")
  /\ link' = IF work[w].set = "tv" THEN [row EXCEPT !.tv = work[w].tv] ELSE [row EXCEPT !.state = work[w].set]
  /\ IF work[w].again THEN Leave(w) /\ UNCHANGED <<webhooks, events, faults>> ELSE Processed(w)
  /\ UNCHANGED <<tasks, graph, held, req, issue, edits, repo>>

Step(w) ==
  \/ ReadTask(w) \/ TaskGone(w) \/ ReadIssue(w) \/ Push(w) \/ Patch(w) \/ Patching(w)
  \/ Import(w) \/ ImportRefused(w) \/ Imported(w) \/ CreateLink(w) \/ Close(w)
  \/ SaveLink(w) \/ ReadLink(w) \/ WriteLink(w)
DrainStep == Step(Drain) \/ (\E h \in webhooks : TakeWebhook(h)) \/ (\E e \in events : TakeEvent(e))
AlarmStep == Step(Alarm) \/ StartReconcile \/ FindLink \/ Compare

-----------------------------------------------------------------------------
(* Faults.                                                                  *)

\* The worker dies, and with it the request it waits for; so may a user.
Crash(w) ==
  /\ Fault("crash") /\ ~Is(w, "idle") /\ Leave(w) /\ Done(w)
  /\ UNCHANGED <<tasks, graph, held, events, issue, edits, webhooks, link, repo>>
UserDies(c) == Fault("crash") /\ Die(c) /\ UNCHANGED <<issue, edits, webhooks, link, work, repo>>

\* The PATCH dies, or only its answer is lost; the client sends it again.
LoseRequest(w) ==
  /\ Fault("request") /\ Is(w, "patching") /\ Done(w) /\ Continue(w, "patch")
  /\ \/ UNCHANGED events
     \/ At(w, "updated") /\ Live(req[w].task) /\ Hear(w, PatchEvents(w))
  /\ UNCHANGED <<tasks, graph, held, issue, edits, webhooks, link, repo>>

\* GitHub is out or limits the rate: the error is marked and thrown.
Outage(w) ==
  /\ Fault("outage") /\ work[w].pc \in {"issue", "push", "close"}
  /\ Amend(w, "error", TRUE) /\ UNCHANGED <<taskVars, issue, edits, webhooks, link, repo>>

Trouble == (\E w \in Services : Crash(w) \/ LoseRequest(w) \/ Outage(w)) \/ (\E c \in Users : UserDies(c))

SyncNext == EditIssue \/ (\E c \in Users : EditTask(c)) \/ DrainStep \/ AlarmStep \/ Trouble
SyncSpec == SyncInit /\ [][SyncNext]_vars

\* The drain takes deliveries again until they are processed, and the alarm
\* sets the next one before it does anything.
FairSpec == SyncSpec /\ WF_vars(DrainStep) /\ WF_vars(AlarmStep)

-----------------------------------------------------------------------------
(* Properties.                                                              *)

\* What a link remembers of a side is something that side has been: were it
\* ahead, an edit would be taken for no move, and a conflict missed.
NeverAhead ==
  Linked =>
    /\ link.gh <= issue.at
    /\ link.tv # None => link.tv <= tasks[link.task].version

\* Once both sides are left alone, task and issue agree, however late, lost or
\* repeated what was delivered about them: but for an archived task, and for an
\* issue whose status the task may not take, or whose title is too long for one:
\* its import is refused, and so is every patch of it with all its fields.
Agree == ~HasAnyDiff(tasks[link.task], issue)
Refused == ~MayBecome(tasks[link.task], StateToStatus(issue)) \/ ~checkTitle(issue.title)
Settled ==
  \/ Linked /\ (~Live(link.task) \/ Agree \/ Refused)
  \/ ~Linked /\ (repo.direction = "internal_to_github" \/ ~checkTitle(issue.title))
Settles == <>[]Settled
=============================================================================
