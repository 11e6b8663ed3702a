---------------------------- MODULE TaskService -----------------------------
(***************************************************************************)
(* services/task-service: tasks behind an optimistic lock.  A client reads  *)
(* a task and sends back the version it read; the handler reads the row     *)
(* again, checks, writes only where the row still has that version, and     *)
(* emits events.  A client may die, and with it its request, between any    *)
(* two statements.                                                          *)
(*                                                                         *)
(* One field, the title, stands for every field of the row a request may    *)
(* overwrite and GitHub owns on an imported task.  Teams, parents, events   *)
(* of the organisation and the audit trail are left out.                    *)
(***************************************************************************)
EXTENDS Naturals, FiniteSets

CONSTANTS
  Tasks, Titles,
  TooLong,     \* titles of more than 200 characters, which GitHub takes and task-service does not
  Users,       \* principals of kind "user"
  Services,    \* principals of kind "service": only these import and may write what GitHub owns
  Edits,       \* bound: the requests of users that are explored, sets of records
  MaxVersion,  \* bound: versions users write over
  None

Clients == Users \cup Services
Statuses == {"todo", "in_progress", "blocked", "done", "cancelled"}
Patches == [title : Titles \cup {None}, status : Statuses \cup {None}]

ASSUME TasksAssumption ==
  /\ None \notin Tasks \cup Titles \cup Statuses /\ TooLong \subseteq Titles /\ Users \cap Services = {}
  /\ Edits \subseteq Patches /\ MaxVersion \in Nat

VARIABLES
  tasks,  \* task_tasks
  deps,   \* task_dependencies, as the tasks each one depends on
  held,   \* of each client: the task it read or was answered last, as [task, row]
  req,    \* of each client: its request
  events, \* events emitted and not yet handled
  \* History, in no table:
  overtaken, \* clients whose replacement of dependencies listed the tasks before another one was stored
  raced      \* tasks with dependencies stored by one of those since the last one that was not

graph == <<deps, overtaken, raced>>
taskVars == <<tasks, graph, held, req, events>>

Rows == [life : {"none", "live", "archived"}, title : Titles \cup {None}, status : Statuses,
         origin : {"internal", "github"}, version : Nat]
NoRow == [life |-> "none", title |-> None, status |-> "todo", origin |-> "internal", version |-> 0]
NoPatch == [title |-> None, status |-> None]
Unread == [task |-> None, row |-> NoRow]
NoRequest == [pc |-> "idle", task |-> None, row |-> NoRow, patch |-> NoPatch, on |-> {}, live |-> {}]
Requests ==
  [pc : {"idle", "created", "update", "updated", "archive", "archived", "list", "check", "bump", "replace", "replaced"},
   task : Tasks \cup {None}, row : Rows, patch : Patches, on : SUBSET Tasks, live : SUBSET Tasks]
\* The version, of no event of the code, tells the writes they are about apart.
EventNames == {"created", "updated", "status_changed", "archived", "dependency_changed"}
Events == [name : EventNames, task : Tasks, actor : {"user", "service"}, version : Nat]

TasksTypeOK ==
  /\ tasks \in [Tasks -> Rows] /\ deps \in [Tasks -> SUBSET Tasks]
  /\ held \in [Clients -> [task : Tasks \cup {None}, row : Rows]]
  /\ req \in [Clients -> Requests] /\ events \subseteq Events
  /\ overtaken \subseteq Clients /\ raced \subseteq Tasks

TasksInit ==
  /\ tasks = [t \in Tasks |-> NoRow] /\ deps = [t \in Tasks |-> {}]
  /\ held = [c \in Clients |-> Unread] /\ req = [c \in Clients |-> NoRequest] /\ events = {}
  /\ overtaken = {} /\ raced = {}

At(c, pc) == req[c].pc = pc
Live(t) == tasks[t].life = "live"
LiveTasks == {t \in Tasks : Live(t)}
ActorOf(c) == IF c \in Users THEN "user" ELSE "service"

Goto(c, pc) == req' = [req EXCEPT ![c].pc = pc]
Done(c) == req' = [req EXCEPT ![c] = NoRequest]
Emits(c, t, names) ==
  events' = events \cup {[name |-> n, task |-> t, actor |-> ActorOf(c), version |-> tasks[t].version] : n \in names}

-----------------------------------------------------------------------------
(* Reading, creating, archiving.                                            *)

\* GET /tasks/:id of a live task; any other is a 404. What a PATCH answers is
\* what a GET would at that moment.
Get(c, t) ==
  /\ At(c, "idle") /\ Live(t)
  /\ held' = [held EXCEPT ![c] = [task |-> t, row |-> tasks[t]]]
  /\ UNCHANGED <<tasks, graph, req, events>>

\* Any other title is a 400, before anything is read.
checkTitle(title) == title \notin TooLong

\* POST /tasks. Only services name an origin.
Create(c, t, title, origin) ==
  /\ At(c, "idle") /\ checkTitle(title) /\ tasks[t].life = "none" /\ (c \in Users => origin = "internal")
  /\ LET row == [life |-> "live", title |-> title, status |-> "todo", origin |-> origin, version |-> 1] IN
     /\ tasks' = [tasks EXCEPT ![t] = row]
     /\ req' = [req EXCEPT ![c] = [NoRequest EXCEPT !.pc = "created", !.task = t, !.row = row]]
  /\ UNCHANGED <<graph, held, events>>

CreateEmit(c) ==
  /\ At(c, "created")
  /\ Emits(c, req[c].task, {"created"}) /\ Done(c) /\ UNCHANGED <<tasks, graph, held>>

ArchiveRead(c, t) ==
  /\ At(c, "idle") /\ Live(t)
  /\ req' = [req EXCEPT ![c] = [NoRequest EXCEPT !.pc = "archive", !.task = t]]
  /\ UNCHANGED <<tasks, graph, held, events>>

Bug_ArchiveKeepsVersion(row) == [row EXCEPT !.life = "archived"]
Archived(row) == [row EXCEPT !.life = "archived", !.version = row.version + 1]
Archive(c) ==
  /\ At(c, "archive") /\ Live(req[c].task)
  /\ tasks' = [tasks EXCEPT ![req[c].task] = Archived(tasks[req[c].task])]
  /\ Goto(c, "archived") /\ UNCHANGED <<graph, held, events>>

ArchiveEmit(c) ==
  /\ At(c, "archived") /\ Emits(c, req[c].task, {"archived"})
  /\ Done(c) /\ UNCHANGED <<tasks, graph, held>>

\* The consumer of event.archived, which emits nothing for the tasks.
ArchiveAll ==
  /\ LiveTasks # {}
  /\ tasks' = [t \in Tasks |-> IF Live(t) THEN Archived(tasks[t]) ELSE tasks[t]]
  /\ UNCHANGED <<graph, held, req, events>>

-----------------------------------------------------------------------------
(* PATCH /tasks/:id.                                                        *)

Transitions ==
  [todo |-> {"in_progress", "blocked", "done", "cancelled"},
   in_progress |-> {"todo", "blocked", "done", "cancelled"},
   blocked |-> {"todo", "in_progress", "cancelled"},
   done |-> {"in_progress"},
   cancelled |-> {"todo"}]

Alters(value, old) == value \notin {None, old}
\* What assertStatusTransition lets through.
MayBecome(row, status) == Alters(status, row.status) => status \in Transitions[row.status]
Protected(c, row, patch) ==
  row.origin = "github" /\ c \in Users /\ (Alters(patch.title, row.title) \/ Alters(patch.status, row.status))

\* The client sent the version of the row the handler reads.
UpToDate(t, version) == Live(t) /\ tasks[t].version = version
Accepts(c, t, version, patch) ==
  /\ checkTitle(patch.title) /\ UpToDate(t, version)
  /\ ~Protected(c, tasks[t], patch) /\ MayBecome(tasks[t], patch.status)

PatchRead(c, t, version, patch) ==
  /\ At(c, "idle") /\ patch # NoPatch /\ Accepts(c, t, version, patch)
  /\ req' = [req EXCEPT ![c] = [NoRequest EXCEPT !.pc = "update", !.task = t, !.row = tasks[t], !.patch = patch]]
  /\ UNCHANGED <<tasks, graph, held, events>>

Bug_VersionNotCompared(c) == Live(req[c].task)
\* WHERE id = ? AND version = ? AND archived_at IS NULL
Unchanged(c) == UpToDate(req[c].task, req[c].row.version)
Set(value, old) == IF value = None THEN old ELSE value
Updated(row, patch) ==
  [row EXCEPT !.title = Set(patch.title, row.title), !.status = Set(patch.status, row.status),
              !.version = row.version + 1]

Update(c) ==
  /\ At(c, "update") /\ Unchanged(c)
  /\ tasks' = [tasks EXCEPT ![req[c].task] = Updated(tasks[req[c].task], req[c].patch)]
  /\ Goto(c, "updated") /\ UNCHANGED <<graph, held, events>>

\* No row changed: 409, or 404 for an archive.
NoRowChanged(c) ==
  /\ At(c, "update") \/ At(c, "bump") => ~Unchanged(c)
  /\ At(c, "archive") => ~Live(req[c].task)
  /\ At(c, "update") \/ At(c, "bump") \/ At(c, "archive")
  /\ Done(c) /\ UNCHANGED <<tasks, graph, held, events>>

\* The handler reads the row once more: a later write shows in the answer and
\* in the events, an archived row is a 404 and no event at all.
PatchEvents(c) ==
  LET row == req[c].row patch == req[c].patch IN
  {n \in {"updated"} : patch.title # None /\ row.title # tasks[req[c].task].title}
    \cup {n \in {"status_changed"} : Alters(patch.status, row.status)}
PatchEmit(c) ==
  /\ At(c, "updated") /\ Live(req[c].task)
  /\ Emits(c, req[c].task, PatchEvents(c)) /\ Done(c) /\ UNCHANGED <<tasks, graph, held>>
PatchGone(c) ==
  /\ At(c, "updated") /\ ~Live(req[c].task)
  /\ Done(c) /\ UNCHANGED <<tasks, graph, held, events>>

-----------------------------------------------------------------------------
(* PUT /tasks/:id/dependencies.                                             *)

\* validateDependencies of gantt-calc reports no cycle: every set of tasks has
\* one that depends on none of them.
Acyclic(d, V) == \A S \in SUBSET V : S # {} => \E s \in S : d[s] \cap S = {}

DependRead(c, t, version, on) ==
  /\ At(c, "idle") /\ UpToDate(t, version) /\ t \notin on
  /\ req' = [req EXCEPT ![c] = [NoRequest EXCEPT !.pc = "list", !.task = t, !.row = tasks[t], !.on = on]]
  /\ UNCHANGED <<tasks, graph, held, events>>

DependList(c) ==
  /\ At(c, "list")
  /\ req' = [req EXCEPT ![c].pc = "check", ![c].live = LiveTasks]
  /\ overtaken' = overtaken \ {c}
  /\ UNCHANGED <<tasks, deps, raced, held, events>>

Bug_StoredGraph(c) == [t \in Tasks |-> IF t \in req[c].live THEN deps[t] \cap req[c].live ELSE {}]
\* The dependencies between the tasks listed, this task's as requested.
Requested(c) ==
  [t \in Tasks |-> IF t = req[c].task THEN req[c].on
                   ELSE IF t \in req[c].live THEN deps[t] \cap req[c].live ELSE {}]
Valid(c) ==
  /\ req[c].on # {} => req[c].task \in req[c].live
  /\ req[c].on \subseteq req[c].live /\ Acyclic(Requested(c), req[c].live)
DependCheck(c) ==
  /\ At(c, "check")
  /\ IF Valid(c) THEN Goto(c, "bump") ELSE Done(c)
  /\ UNCHANGED <<tasks, graph, held, events>>

\* replaceDependencies: the version in one statement, the rows in the next.
DependBump(c) ==
  /\ At(c, "bump") /\ Unchanged(c)
  /\ tasks' = [tasks EXCEPT ![req[c].task].version = @ + 1]
  /\ Goto(c, "replace") /\ UNCHANGED <<graph, held, events>>
DependReplace(c) ==
  /\ At(c, "replace")
  /\ deps' = [deps EXCEPT ![req[c].task] = req[c].on]
  /\ overtaken' = overtaken \cup {d \in Clients \ {c} : At(d, "check") \/ At(d, "bump") \/ At(d, "replace")}
  /\ raced' = IF c \in overtaken THEN raced \cup {req[c].task} ELSE {}
  /\ Goto(c, "replaced") /\ UNCHANGED <<tasks, held, events>>
DependEmit(c) ==
  /\ At(c, "replaced") /\ Emits(c, req[c].task, {"dependency_changed"})
  /\ Done(c) /\ UNCHANGED <<tasks, graph, held>>

-----------------------------------------------------------------------------

\* The rest of a request, once it has begun.
Proceed(c) ==
  \/ CreateEmit(c) \/ Archive(c) \/ ArchiveEmit(c)
  \/ Update(c) \/ NoRowChanged(c) \/ PatchEmit(c) \/ PatchGone(c)
  \/ DependList(c) \/ DependCheck(c) \/ DependBump(c) \/ DependReplace(c) \/ DependEmit(c)

\* Whoever sent the request, or the handler, is gone.
Die(c) == ~At(c, "idle") /\ Done(c) /\ UNCHANGED <<tasks, graph, held, events>>

\* A subscriber has handled the event.
Handle(e) == events' = events \ {e} /\ UNCHANGED <<tasks, graph, held, req>>

Young(t) == tasks[t].version < MaxVersion
\* What a request sends is the version its client read last.
ClientStep(c) ==
  \/ \E t \in Tasks : Young(t) /\ (Get(c, t) \/ ArchiveRead(c, t) \/ \E s \in Titles : Create(c, t, s, "internal"))
  \/ \E t \in Tasks :
       /\ held[c].task = t /\ Young(t)
       /\ \/ \E p \in Edits : PatchRead(c, t, held[c].row.version, p)
          \/ \E on \in SUBSET Tasks : DependRead(c, t, held[c].row.version, on)

TasksNext ==
  \/ \E c \in Clients : ClientStep(c) \/ Proceed(c) \/ Die(c)
  \/ \E c \in Services, t \in Tasks, s \in Titles : Create(c, t, s, "github")
  \/ ArchiveAll
  \/ \E e \in events : Handle(e)

TasksSpec == TasksInit /\ [][TasksNext]_taskVars

-----------------------------------------------------------------------------
(* Properties.                                                              *)

\* A status only ever moves along TASK_STATUS_TRANSITIONS, although the check
\* and the UPDATE are two statements and others write in between.
StatusFollowsTable ==
  [][\A t \in Tasks : MayBecome(tasks[t], tasks'[t].status)]_taskVars

\* Who holds the version of a row has seen what it says, so that a request it
\* is accepted for overwrites nothing its sender has not read.
VersionNamesRow ==
  \A c \in Clients :
    held[c].task # None /\ held[c].row.version = tasks[held[c].task].version =>
      held[c].row = tasks[held[c].task]

\* The live tasks depend on each other in a circle only where two replacements
\* of dependencies raced: each circle has a task whose dependencies were stored
\* after another request had stored some it was not checked against, and the
\* next replacement that is not overtaken stores nothing while one is left.
\* Creates, archives and patches beside a replacement close none.
CircleNeedsRace == Acyclic([t \in Tasks |-> IF t \in raced THEN {} ELSE deps[t]], LiveTasks)

\* What the comment of the handler and the docs say, "cycle-checked": the live
\* tasks never depend on each other in a circle, so that computeSchedule has an
\* order for them. The version protects the row of a task, not the graph, and
\* two replacements at once break it.
LiveGraphAcyclic == Acyclic(deps, LiveTasks)
=============================================================================
