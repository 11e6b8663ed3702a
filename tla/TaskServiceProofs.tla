------------------------- MODULE TaskServiceProofs -------------------------
(***************************************************************************)
(* Proofs about TaskService, for every set of tasks, clients and titles.    *)
(*                                                                         *)
(* SeenRows is the heart of the optimistic lock: whatever row of a task a   *)
(* client holds or a handler has read is the row as it is or one with a     *)
(* lower version.  What a PATCH checked on the row it read is therefore     *)
(* true of the row it writes.  No version protects the graph: what a        *)
(* replacement of dependencies checked (Passed) is true of it as long as    *)
(* no other replacement was stored meanwhile.                               *)
(***************************************************************************)
EXTENDS TaskService, TLAPS

\* The graph and its history change together or not at all.
USE DEF graph

Seen(t, row) == row = tasks[t] \/ row.version < tasks[t].version

\* A request under way is about some task.
Named == \A c \in Clients : req[c].pc # "idle" => req[c].task \in Tasks
SeenRows ==
  /\ \A c \in Clients : held[c].task # None => Seen(held[c].task, held[c].row)
  /\ \A c \in Clients : req[c].pc = "update" => Seen(req[c].task, req[c].row)
Checked == \A c \in Clients : req[c].pc = "update" => MayBecome(req[c].row, req[c].patch.status)
Blank == \A t \in Tasks : tasks[t].life = "none" => tasks[t] = NoRow
Inv == TasksTypeOK /\ Named /\ Blank /\ SeenRows /\ Checked

LEMMA NoRowTyped == NoRow \in Rows /\ NoRequest \in Requests /\ NoPatch \in Patches
  BY DEF NoRow, Rows, NoRequest, Requests, NoPatch, Patches, Statuses

LEMMA ArchivedTyped ==
  ASSUME NEW row \in Rows
  PROVE  /\ Archived(row) \in Rows /\ Archived(row).version = row.version + 1
         /\ Archived(row).status = row.status /\ Archived(row).life = "archived"
<1> DEFINE version == row.version + 1
<1>1. version \in Nat BY DEF Rows
<1> HIDE DEF version
<1>2. [row EXCEPT !.life = "archived", !.version = version] \in Rows BY <1>1 DEF Rows
<1>3. Archived(row) \in Rows BY <1>2 DEF Archived, version
<1> QED BY <1>3 DEF Rows, Archived

LEMMA UpdatedTyped ==
  ASSUME NEW row \in Rows, NEW patch \in Patches
  PROVE  /\ Updated(row, patch) \in Rows /\ Updated(row, patch).version = row.version + 1
         /\ Updated(row, patch).life = row.life
         /\ Updated(row, patch).status = IF patch.status = None THEN row.status ELSE patch.status
<1> DEFINE title == Set(patch.title, row.title)
           status == Set(patch.status, row.status)
           version == row.version + 1
<1>1. title \in Titles \cup {None} /\ status \in Statuses /\ version \in Nat
  BY TasksAssumption DEF Rows, Patches, Set
<1>2. status = IF patch.status = None THEN row.status ELSE patch.status BY DEF Set
<1>3. Updated(row, patch) = [row EXCEPT !.title = title, !.status = status, !.version = version]
  BY DEF Updated
<1>4. version = row.version + 1 OBVIOUS
<1> HIDE DEF title, status, version
<1>5. [row EXCEPT !.title = title, !.status = status, !.version = version] \in Rows BY <1>1 DEF Rows
<1> QED BY <1>1, <1>2, <1>3, <1>4, <1>5 DEF Rows

LEMMA EmitsTyped ==
  ASSUME TasksTypeOK, NEW c \in Clients, NEW t \in Tasks, NEW N \in SUBSET EventNames, Emits(c, t, N)
  PROVE  events' \subseteq Events
<1>1. tasks[t].version \in Nat BY DEF TasksTypeOK, Rows
<1>2. ActorOf(c) \in {"user", "service"} BY DEF ActorOf
<1>3. \A n \in N : [name |-> n, task |-> t, actor |-> ActorOf(c), version |-> tasks[t].version] \in Events
  BY <1>1, <1>2 DEF Events
<1> QED BY <1>3 DEF Emits, TasksTypeOK

-----------------------------------------------------------------------------
(* The type invariant.                                                      *)

\* A request ends, goes on or begins.
LEMMA RequestTyped ==
  ASSUME TasksTypeOK, NEW c \in Clients
  PROVE  /\ Done(c) => req' \in [Clients -> Requests]
         /\ \A pc \in {"created", "update", "updated", "archive", "archived", "list", "check", "bump",
                       "replace", "replaced"} : Goto(c, pc) => req' \in [Clients -> Requests]
<1>1. Done(c) => req' \in [Clients -> Requests] BY NoRowTyped DEF TasksTypeOK, Done
<1>2. ASSUME NEW pc \in {"created", "update", "updated", "archive", "archived", "list", "check", "bump",
                       "replace", "replaced"}, Goto(c, pc)
      PROVE  req' \in [Clients -> Requests]
  <2>1. [req[c] EXCEPT !.pc = pc] \in Requests BY DEF TasksTypeOK, Requests
  <2>2. req' = [req EXCEPT ![c] = [req[c] EXCEPT !.pc = pc]] BY <1>2 DEF Goto
  <2> QED BY <2>1, <2>2 DEF TasksTypeOK
<1> QED BY <1>1, <1>2

LEMMA RowTyped ==
  ASSUME TasksTypeOK, NEW t \in Tasks, NEW row \in Rows, tasks' = [tasks EXCEPT ![t] = row]
  PROVE  tasks' \in [Tasks -> Rows]
  BY DEF TasksTypeOK

LEMMA CreateTyped ==
  ASSUME TasksTypeOK, NEW c \in Clients, NEW t \in Tasks, NEW s \in Titles,
         NEW o \in {"internal", "github"}, Create(c, t, s, o)
  PROVE  TasksTypeOK'
<1> DEFINE row == [life |-> "live", title |-> s, status |-> "todo", origin |-> o, version |-> 1]
<1>1. row \in Rows BY DEF Rows, Statuses
<1>2. /\ tasks' = [tasks EXCEPT ![t] = row] /\ UNCHANGED <<graph, held, events>>
      /\ req' = [req EXCEPT ![c] = [NoRequest EXCEPT !.pc = "created", !.task = t, !.row = row]]
  BY DEF Create
<1> HIDE DEF row
<1>3. [NoRequest EXCEPT !.pc = "created", !.task = t, !.row = row] \in Requests
  BY <1>1, NoRowTyped DEF Requests
<1> QED BY <1>1, <1>2, <1>3 DEF TasksTypeOK

LEMMA TypeStep == ASSUME TasksTypeOK, Named, TasksNext PROVE TasksTypeOK'
<1> USE NoRowTyped
<1>1. ASSUME NEW c \in Clients, NEW t \in Tasks, Get(c, t) PROVE TasksTypeOK'
  <2>1. [task |-> t, row |-> tasks[t]] \in [task : Tasks \cup {None}, row : Rows] BY DEF TasksTypeOK
  <2> QED BY <1>1, <2>1 DEF Get, TasksTypeOK
<1>2. ASSUME NEW c \in Clients, NEW t \in Tasks, ArchiveRead(c, t) PROVE TasksTypeOK'
  <2>1. [NoRequest EXCEPT !.pc = "archive", !.task = t] \in Requests BY DEF Requests
  <2> QED BY <1>2, <2>1 DEF ArchiveRead, TasksTypeOK
<1>3. ASSUME NEW c \in Clients, NEW t \in Tasks, NEW v, NEW p \in Edits, PatchRead(c, t, v, p)
      PROVE  TasksTypeOK'
  <2>1. tasks[t] \in Rows /\ p \in Patches BY TasksAssumption DEF TasksTypeOK
  <2>2. [NoRequest EXCEPT !.pc = "update", !.task = t, !.row = tasks[t], !.patch = p] \in Requests
    BY <2>1 DEF Requests
  <2> QED BY <1>3, <2>2 DEF PatchRead, TasksTypeOK
<1>4. ASSUME NEW c \in Clients, NEW t \in Tasks, NEW v, NEW on \in SUBSET Tasks, DependRead(c, t, v, on)
      PROVE  TasksTypeOK'
  <2>1. tasks[t] \in Rows BY DEF TasksTypeOK
  <2>2. [NoRequest EXCEPT !.pc = "list", !.task = t, !.row = tasks[t], !.on = on] \in Requests
    BY <2>1 DEF Requests
  <2> QED BY <1>4, <2>2 DEF DependRead, TasksTypeOK
<1>5. ASSUME NEW c \in Clients, Proceed(c) PROVE TasksTypeOK'
  <2> DEFINE t == req[c].task
  <2>0. req[c] \in Requests BY DEF TasksTypeOK
  <2>1. ASSUME t \in Tasks, NEW N \in SUBSET EventNames, Emits(c, t, N), Done(c), UNCHANGED <<tasks, graph, held>>
        PROVE  TasksTypeOK'
    BY <2>1, EmitsTyped, RequestTyped DEF TasksTypeOK
  <2>2. CASE CreateEmit(c)
    BY <2>1, <2>2 DEF CreateEmit, At, Named, EventNames
  <2>3. CASE ArchiveEmit(c)
    BY <2>1, <2>3 DEF ArchiveEmit, At, Named, EventNames
  <2>4. CASE DependEmit(c)
    BY <2>1, <2>4 DEF DependEmit, At, Named, EventNames
  <2>5. CASE PatchEmit(c)
    <3>1. PatchEvents(c) \subseteq EventNames BY DEF PatchEvents, EventNames
    <3> QED BY <2>1, <2>5, <3>1 DEF PatchEmit, At, Named
  <2>6. CASE Archive(c)
    <3>1. t \in Tasks BY <2>6 DEF Archive, At, Named
    <3>2. Archived(tasks[t]) \in Rows BY <3>1, ArchivedTyped DEF TasksTypeOK
    <3> QED BY <2>6, <3>1, <3>2, RowTyped, RequestTyped DEF Archive, TasksTypeOK
  <2>7. CASE Update(c)
    <3>1. t \in Tasks BY <2>7 DEF Update, At, Named
    <3>2. Updated(tasks[t], req[c].patch) \in Rows BY <2>0, <3>1, UpdatedTyped DEF TasksTypeOK, Requests
    <3> QED BY <2>7, <3>1, <3>2, RowTyped, RequestTyped DEF Update, TasksTypeOK
  <2>8. CASE NoRowChanged(c) \/ PatchGone(c)
    BY <2>8, RequestTyped DEF NoRowChanged, PatchGone, TasksTypeOK
  <2>9. CASE DependList(c)
    <3>1. LiveTasks \subseteq Tasks BY DEF LiveTasks
    <3>2. [req[c] EXCEPT !.pc = "check", !.live = LiveTasks] \in Requests BY <2>0, <3>1 DEF Requests
    <3>3. req' = [req EXCEPT ![c] = [req[c] EXCEPT !.pc = "check", !.live = LiveTasks]]
      BY <2>9 DEF DependList, TasksTypeOK
    <3> QED BY <2>9, <3>2, <3>3 DEF DependList, TasksTypeOK
  <2>10. CASE DependCheck(c)
    BY <2>10, RequestTyped DEF DependCheck, TasksTypeOK
  <2>11. CASE DependBump(c)
    <3>1. t \in Tasks BY <2>11 DEF DependBump, At, Named
    <3> DEFINE v == tasks[t].version + 1
    <3>2. tasks[t] \in Rows /\ v \in Nat BY <3>1 DEF TasksTypeOK, Rows
    <3>3. tasks' = [tasks EXCEPT ![t] = [tasks[t] EXCEPT !.version = v]]
      BY <2>11, <3>1 DEF DependBump, TasksTypeOK
    <3> HIDE DEF v
    <3>4. [tasks[t] EXCEPT !.version = v] \in Rows BY <3>2 DEF Rows
    <3> QED BY <2>11, <3>1, <3>3, <3>4, RowTyped, RequestTyped DEF DependBump, TasksTypeOK
  <2>12. CASE DependReplace(c)
    <3>1. t \in Tasks /\ req[c].on \subseteq Tasks BY <2>0, <2>12 DEF Requests, DependReplace, At, Named
    <3>2. overtaken' \subseteq Clients /\ raced' \subseteq Tasks BY <2>12, <3>1 DEF DependReplace, TasksTypeOK
    <3>3. req' \in [Clients -> Requests] BY <2>12, RequestTyped DEF DependReplace
    <3>4. deps' \in [Tasks -> SUBSET Tasks] BY <2>12, <3>1 DEF DependReplace, TasksTypeOK
    <3> QED BY <2>12, <3>2, <3>3, <3>4 DEF DependReplace, TasksTypeOK
  <2> QED BY <1>5, <2>2, <2>3, <2>4, <2>5, <2>6, <2>7, <2>8, <2>9, <2>10, <2>11, <2>12 DEF Proceed
<1>6. ASSUME NEW c \in Clients, Die(c) PROVE TasksTypeOK'
  BY <1>6, RequestTyped DEF Die, TasksTypeOK
<1>7. CASE ArchiveAll
  <2>1. \A t \in Tasks : Archived(tasks[t]) \in Rows BY ArchivedTyped DEF TasksTypeOK
  <2> QED BY <1>7, <2>1 DEF ArchiveAll, TasksTypeOK
<1>8. ASSUME NEW e \in events, Handle(e) PROVE TasksTypeOK'
  BY <1>8 DEF Handle, TasksTypeOK
<1>9. Services \subseteq Clients BY DEF Clients
<1> QED BY <1>1, <1>2, <1>3, <1>4, <1>5, <1>6, <1>7, <1>8, <1>9, CreateTyped DEF TasksNext, ClientStep

-----------------------------------------------------------------------------
(* What a step does to a row, to what a client holds, and to a request.     *)

\* Every write raises the version.
LEMMA RowsStep ==
  ASSUME TasksTypeOK, Named, Blank, TasksNext, NEW t \in Tasks
  PROVE  \/ tasks'[t] = tasks[t]
         \/ /\ tasks'[t].version > tasks[t].version
            /\ tasks[t].life # "archived" /\ tasks'[t].life # "none"
            /\ \/ tasks'[t].status = tasks[t].status
               \/ \E c \in Clients : Update(c) /\ t = req[c].task
<1> DEFINE Goal == \/ tasks'[t] = tasks[t]
                   \/ /\ tasks'[t].version > tasks[t].version
                      /\ tasks[t].life # "archived" /\ tasks'[t].life # "none"
                      /\ \/ tasks'[t].status = tasks[t].status
                         \/ \E c \in Clients : Update(c) /\ t = req[c].task
<1>0. tasks \in [Tasks -> Rows] /\ tasks[t] \in Rows /\ tasks[t].version \in Nat BY DEF TasksTypeOK, Rows
<1>1. ASSUME NEW c \in Clients, NEW u \in Tasks, NEW s \in Titles, NEW o, Create(c, u, s, o) PROVE Goal
  <2> DEFINE row == [life |-> "live", title |-> s, status |-> "todo", origin |-> o, version |-> 1]
  <2>1. tasks' = [tasks EXCEPT ![u] = row] /\ tasks[u].life = "none" BY <1>1 DEF Create
  <2>2. tasks[u] = NoRow BY <2>1 DEF Blank
  <2>3. /\ row.version = 1 /\ row.life = "live" /\ row.status = "todo"
        /\ NoRow.version = 0 /\ NoRow.status = "todo" /\ NoRow.life = "none" BY DEF NoRow
  <2> HIDE DEF row
  <2>4. CASE u = t
    <3>1. tasks'[t] = row BY <1>0, <2>1, <2>4
    <3> QED BY <2>2, <2>3, <2>4, <3>1
  <2>5. CASE u # t BY <1>0, <2>1, <2>5
  <2> QED BY <2>4, <2>5
<1>2. ASSUME NEW c \in Clients, Archive(c) PROVE Goal
  <2>1. /\ tasks' = [tasks EXCEPT ![req[c].task] = Archived(tasks[req[c].task])] /\ req[c].task \in Tasks
        /\ tasks[req[c].task].life = "live"
    BY <1>2 DEF Archive, At, Named, Live
  <2>2. CASE req[c].task = t
    <3>1. tasks'[t] = Archived(tasks[t]) BY <1>0, <2>1, <2>2
    <3> QED BY <1>0, <2>1, <2>2, <3>1, ArchivedTyped
  <2>3. CASE req[c].task # t BY <1>0, <2>1, <2>3
  <2> QED BY <2>2, <2>3
<1>3. ASSUME NEW c \in Clients, Update(c) PROVE Goal
  <2>1. /\ tasks' = [tasks EXCEPT ![req[c].task] = Updated(tasks[req[c].task], req[c].patch)]
        /\ req[c].task \in Tasks /\ req[c].patch \in Patches /\ tasks[req[c].task].life = "live"
    BY <1>3 DEF Update, At, Named, TasksTypeOK, Requests, Unchanged, UpToDate, Live
  <2>2. CASE req[c].task = t
    <3>1. tasks'[t] = Updated(tasks[t], req[c].patch) BY <1>0, <2>1, <2>2
    <3> QED BY <1>0, <1>3, <2>1, <2>2, <3>1, UpdatedTyped
  <2>3. CASE req[c].task # t BY <1>0, <2>1, <2>3
  <2> QED BY <2>2, <2>3
<1>4. ASSUME NEW c \in Clients, DependBump(c) PROVE Goal
  <2>1. /\ tasks' = [tasks EXCEPT ![req[c].task].version = @ + 1] /\ req[c].task \in Tasks
        /\ tasks[req[c].task].life = "live"
    BY <1>4 DEF DependBump, At, Named, Unchanged, UpToDate, Live
  <2>2. CASE req[c].task = t
    <3>1. tasks'[t] = [tasks[t] EXCEPT !.version = tasks[t].version + 1] BY <1>0, <2>1, <2>2
    <3>2. /\ tasks'[t].version = tasks[t].version + 1 /\ tasks'[t].life = tasks[t].life
          /\ tasks'[t].status = tasks[t].status BY <1>0, <3>1 DEF Rows
    <3> QED BY <1>0, <2>1, <2>2, <3>2
  <2>3. CASE req[c].task # t BY <1>0, <2>1, <2>3
  <2> QED BY <2>2, <2>3
<1>5. ASSUME ArchiveAll PROVE Goal
  <2>1. tasks'[t] = IF Live(t) THEN Archived(tasks[t]) ELSE tasks[t] BY <1>5 DEF ArchiveAll
  <2>2. CASE Live(t) BY <1>0, <2>1, <2>2, ArchivedTyped DEF Live
  <2>3. CASE ~Live(t) BY <2>1, <2>3
  <2> QED BY <2>2, <2>3
<1>6. ASSUME UNCHANGED tasks PROVE Goal BY <1>6
<1> HIDE DEF Goal
<1>7. ASSUME NEW c \in Clients, ClientStep(c) \/ Proceed(c) \/ Die(c) PROVE Goal
  BY <1>1, <1>2, <1>3, <1>4, <1>6, <1>7
  DEF ClientStep, Proceed, Die, Get, ArchiveRead, PatchRead, DependRead, CreateEmit, ArchiveEmit, NoRowChanged,
      PatchEmit, PatchGone, DependList, DependCheck, DependReplace, DependEmit
<1>8. ASSUME NEW e \in events, Handle(e) PROVE Goal BY <1>6, <1>8 DEF Handle
<1>9. Goal BY <1>1, <1>5, <1>7, <1>8 DEF TasksNext, Clients
<1> QED BY <1>9 DEF Goal

LEMMA HeldStep ==
  ASSUME TasksTypeOK, TasksNext, NEW d \in Clients
  PROVE  \/ held'[d] = held[d]
         \/ held'[d].task \in Tasks /\ held'[d].row = tasks[held'[d].task] /\ tasks' = tasks
<1>1. ASSUME NEW c \in Clients, NEW t \in Tasks, Get(c, t)
      PROVE  \/ held'[d] = held[d]
             \/ held'[d].task \in Tasks /\ held'[d].row = tasks[held'[d].task] /\ tasks' = tasks
  BY <1>1 DEF Get, TasksTypeOK
<1>2. CASE UNCHANGED held BY <1>2
<1> QED
  BY <1>1, <1>2
  DEF TasksNext, ClientStep, Proceed, Die, Handle, Create, ArchiveRead, PatchRead, DependRead, CreateEmit, Archive,
      ArchiveEmit, ArchiveAll, Update, NoRowChanged, PatchEmit, PatchGone, DependList, DependCheck, DependBump,
      DependReplace, DependEmit

\* A request that is about to write has just read and checked, or is as it was.
LEMMA RequestsStep ==
  ASSUME TasksTypeOK, Named, TasksNext, NEW d \in Clients
  PROVE  \/ req'[d] = req[d]
         \/ req'[d].pc = "idle"
         \/ req'[d].pc # "update" /\ req'[d].task \in Tasks
         \/ /\ req'[d].pc = "update" /\ req'[d].task \in Tasks /\ tasks' = tasks
            /\ req'[d].row = tasks[req'[d].task] /\ MayBecome(req'[d].row, req'[d].patch.status)
<1> DEFINE Goal == \/ req'[d] = req[d]
                   \/ req'[d].pc = "idle"
                   \/ req'[d].pc # "update" /\ req'[d].task \in Tasks
                   \/ /\ req'[d].pc = "update" /\ req'[d].task \in Tasks /\ tasks' = tasks
                      /\ req'[d].row = tasks[req'[d].task] /\ MayBecome(req'[d].row, req'[d].patch.status)
<1>0. req \in [Clients -> Requests] BY DEF TasksTypeOK
<1>1. ASSUME UNCHANGED req PROVE Goal BY <1>1
<1>2. ASSUME NEW c \in Clients, Done(c) PROVE Goal
  BY <1>0, <1>2 DEF Done, NoRequest
<1>3. ASSUME NEW c \in Clients, NEW pc \in {"updated", "archived", "check", "bump", "replace", "replaced"},
             req[c].pc # "idle", Goto(c, pc)
      PROVE  Goal
  <2>1. CASE d = c
    <3>1. req'[d] = [req[d] EXCEPT !.pc = pc] BY <1>0, <1>3, <2>1 DEF Goto
    <3>2. req'[d].pc = pc /\ req'[d].task = req[d].task BY <1>0, <3>1 DEF Requests
    <3> QED BY <1>3, <2>1, <3>2 DEF Named
  <2>2. CASE d # c BY <1>0, <1>3, <2>2 DEF Goto
  <2> QED BY <2>1, <2>2
<1>4. ASSUME NEW c \in Clients, DependList(c) PROVE Goal
  <2>1. CASE d = c
    <3>1. req'[d] = [req[d] EXCEPT !.pc = "check", !.live = LiveTasks] BY <1>0, <1>4, <2>1 DEF DependList
    <3>2. req'[d].pc = "check" /\ req'[d].task = req[d].task BY <1>0, <3>1 DEF Requests
    <3> QED BY <1>4, <2>1, <3>2 DEF Named, DependList, At
  <2>2. CASE d # c BY <1>0, <1>4, <2>2 DEF DependList
  <2> QED BY <2>1, <2>2
<1>5. ASSUME NEW c \in Clients, NEW t \in Tasks, NEW s, NEW o, Create(c, t, s, o) PROVE Goal
  BY <1>0, <1>5 DEF Create, NoRequest
<1>6. ASSUME NEW c \in Clients, NEW t \in Tasks, ArchiveRead(c, t) PROVE Goal
  BY <1>0, <1>6 DEF ArchiveRead, NoRequest
<1>7. ASSUME NEW c \in Clients, NEW t \in Tasks, NEW v, NEW on, DependRead(c, t, v, on) PROVE Goal
  BY <1>0, <1>7 DEF DependRead, NoRequest
<1>8. ASSUME NEW c \in Clients, NEW t \in Tasks, NEW v, NEW p, PatchRead(c, t, v, p) PROVE Goal
  <2>1. /\ req' = [req EXCEPT ![c] = [NoRequest EXCEPT !.pc = "update", !.task = t, !.row = tasks[t], !.patch = p]]
        /\ MayBecome(tasks[t], p.status) /\ tasks' = tasks
    BY <1>8 DEF PatchRead, Accepts
  <2>2. CASE d = c
    <3>1. req'[d] = [NoRequest EXCEPT !.pc = "update", !.task = t, !.row = tasks[t], !.patch = p]
      BY <1>0, <2>1, <2>2
    <3>2. /\ req'[d].pc = "update" /\ req'[d].task = t /\ req'[d].row = tasks[t] /\ req'[d].patch = p
      BY <3>1 DEF NoRequest
    <3> QED BY <2>1, <3>2
  <2>3. CASE d # c BY <1>0, <2>1, <2>3
  <2> QED BY <2>2, <2>3
<1> HIDE DEF Goal
<1>9. ASSUME NEW c \in Clients, ClientStep(c) PROVE Goal
  BY <1>1, <1>5, <1>6, <1>7, <1>8, <1>9 DEF ClientStep, Get
<1>10. ASSUME NEW c \in Clients, Proceed(c) PROVE Goal
  <2>1. CASE Archive(c) \/ Update(c) \/ DependBump(c) \/ DependReplace(c)
    BY <1>3, <2>1 DEF Archive, Update, DependBump, DependReplace, At
  <2>2. CASE DependCheck(c) BY <1>2, <1>3, <2>2 DEF DependCheck, At
  <2>3. CASE CreateEmit(c) \/ ArchiveEmit(c) \/ NoRowChanged(c) \/ PatchEmit(c) \/ PatchGone(c) \/ DependEmit(c)
    BY <1>2, <2>3 DEF CreateEmit, ArchiveEmit, NoRowChanged, PatchEmit, PatchGone, DependEmit
  <2> QED BY <1>4, <1>10, <2>1, <2>2, <2>3 DEF Proceed
<1>11. ASSUME NEW c \in Clients, Die(c) PROVE Goal BY <1>2, <1>11 DEF Die
<1>12. ASSUME NEW e \in events, Handle(e) PROVE Goal BY <1>1, <1>12 DEF Handle
<1>13. ASSUME ArchiveAll PROVE Goal BY <1>1, <1>13 DEF ArchiveAll
<1>14. Goal BY <1>5, <1>9, <1>10, <1>11, <1>12, <1>13 DEF TasksNext, Clients
<1> QED BY <1>14 DEF Goal

-----------------------------------------------------------------------------
(* The optimistic lock.                                                     *)

\* A row seen stays the row as it is or one with a lower version.
LEMMA SeenStep ==
  ASSUME TasksTypeOK, Named, Blank, TasksNext, NEW t \in Tasks, NEW row \in Rows, Seen(t, row)
  PROVE  row = tasks'[t] \/ row.version < tasks'[t].version
<1>1. row.version \in Nat /\ tasks[t].version \in Nat BY DEF TasksTypeOK, Rows
<1>2. tasks' \in [Tasks -> Rows] BY TypeStep DEF TasksTypeOK
<1>3. tasks'[t].version \in Nat BY <1>2 DEF Rows
<1>4. tasks'[t] = tasks[t] \/ tasks'[t].version > tasks[t].version BY RowsStep
<1> QED BY <1>1, <1>3, <1>4 DEF Seen

LEMMA InvInit == TasksInit => Inv
<1> SUFFICES ASSUME TasksInit PROVE Inv OBVIOUS
<1>1. Unread \in [task : Tasks \cup {None}, row : Rows] BY NoRowTyped DEF Unread
<1>2. TasksTypeOK BY <1>1, NoRowTyped DEF TasksInit, TasksTypeOK
<1>3. Named /\ Checked BY DEF TasksInit, Named, Checked, NoRequest
<1>4. Blank BY DEF TasksInit, Blank
<1>5. SeenRows BY DEF TasksInit, SeenRows, NoRequest, Unread
<1> QED BY <1>2, <1>3, <1>4, <1>5 DEF Inv

LEMMA InvStep == Inv /\ [TasksNext]_taskVars => Inv'
<1> SUFFICES ASSUME Inv, [TasksNext]_taskVars PROVE Inv' OBVIOUS
<1>1. CASE UNCHANGED taskVars
  BY <1>1 DEF Inv, taskVars, TasksTypeOK, Named, Blank, SeenRows, Checked, Seen, MayBecome, Alters
<1>2. CASE TasksNext
  <2> USE <1>2 DEF Inv
  <2>1. TasksTypeOK' BY TypeStep
  <2>2. Named' BY RequestsStep DEF Named
  <2>3. Blank'
    <3> SUFFICES ASSUME NEW t \in Tasks, tasks'[t].life = "none" PROVE tasks'[t] = NoRow BY DEF Blank
    <3> QED BY RowsStep DEF Blank
  <2>4. ASSUME NEW d \in Clients, held'[d].task # None
        PROVE  Seen(held[d].task, held[d].row)'
    <3>1. held'[d].task \in Tasks /\ held'[d].row \in Rows BY <2>1, <2>4 DEF TasksTypeOK
    <3>2. CASE held'[d] = held[d] BY <2>4, <3>1, <3>2, SeenStep DEF SeenRows, Seen
    <3>3. CASE held'[d].row = tasks[held'[d].task] /\ tasks' = tasks BY <3>3 DEF Seen
    <3> QED BY <3>2, <3>3, HeldStep
  <2>5. ASSUME NEW d \in Clients, req'[d].pc = "update"
        PROVE  Seen(req[d].task, req[d].row)' /\ MayBecome(req[d].row, req[d].patch.status)'
    <3>1. req'[d].task \in Tasks /\ req'[d].row \in Rows BY <2>1, <2>2, <2>5 DEF TasksTypeOK, Requests, Named
    <3>2. CASE req'[d] = req[d] BY <2>5, <3>1, <3>2, SeenStep DEF SeenRows, Seen, Checked, MayBecome, Alters
    <3>3. CASE /\ req'[d].row = tasks[req'[d].task] /\ tasks' = tasks
               /\ MayBecome(req'[d].row, req'[d].patch.status)
      BY <3>3 DEF Seen, MayBecome, Alters
    <3> QED BY <2>5, <3>2, <3>3, RequestsStep
  <2> QED BY <2>1, <2>2, <2>3, <2>4, <2>5 DEF SeenRows, Checked
<1> QED BY <1>1, <1>2

\* Every table keeps its columns, and every request one of the shapes the
\* handlers give it.
THEOREM TasksTypeCorrect == TasksSpec => []TasksTypeOK
<1>1. Inv => TasksTypeOK BY DEF Inv
<1> QED BY InvInit, InvStep, <1>1, PTL DEF TasksSpec

LEMMA SeenNamesRow == TasksTypeOK /\ SeenRows => VersionNamesRow
<1> SUFFICES ASSUME TasksTypeOK, SeenRows, NEW c \in Clients, held[c].task # None,
                    held[c].row.version = tasks[held[c].task].version
             PROVE  held[c].row = tasks[held[c].task]
  BY DEF VersionNamesRow
<1>1. tasks[held[c].task].version \in Nat BY DEF TasksTypeOK, Rows
<1> QED BY <1>1 DEF SeenRows, Seen

\* The optimistic lock of PATCH and of the dependencies: whoever holds the
\* version of a row has read that row.
THEOREM VersionNamesItsRow == TasksSpec => []VersionNamesRow
<1>1. Inv => VersionNamesRow BY SeenNamesRow DEF Inv
<1> QED BY InvInit, InvStep, <1>1, PTL DEF TasksSpec

LEMMA StatusStep == Inv /\ [TasksNext]_taskVars =>
                      (\A t \in Tasks : MayBecome(tasks[t], tasks'[t].status)) \/ UNCHANGED taskVars
<1> SUFFICES ASSUME Inv, TasksNext, NEW t \in Tasks PROVE MayBecome(tasks[t], tasks'[t].status) OBVIOUS
<1>1. CASE tasks'[t].status = tasks[t].status BY <1>1 DEF MayBecome, Alters
<1>2. ASSUME NEW c \in Clients, Update(c), t = req[c].task PROVE MayBecome(tasks[t], tasks'[t].status)
  <2>1. /\ tasks \in [Tasks -> Rows] /\ req[c] \in Requests /\ req[c].pc = "update"
        /\ tasks' = [tasks EXCEPT ![t] = Updated(tasks[t], req[c].patch)]
        /\ tasks[t].version = req[c].row.version
    BY <1>2 DEF Update, At, Inv, TasksTypeOK, Unchanged, UpToDate
  <2>2. tasks[t].version \in Nat BY <2>1 DEF Rows
  <2>3. req[c].row = tasks[t] BY <1>2, <2>1, <2>2 DEF Inv, SeenRows, Seen
  <2>4. tasks'[t].status = IF req[c].patch.status = None THEN tasks[t].status ELSE req[c].patch.status
    BY <2>1, UpdatedTyped DEF Requests
  <2>5. MayBecome(tasks[t], req[c].patch.status) BY <2>1, <2>3 DEF Inv, Checked
  <2> QED BY <2>4, <2>5 DEF MayBecome, Alters
<1> QED BY <1>1, <1>2, RowsStep DEF Inv

\* assertStatusTransition holds of the row that is written, not only of the one
\* the handler read.
THEOREM StatusAlwaysFollows == TasksSpec => StatusFollowsTable
<1>1. Inv /\ [TasksNext]_taskVars => [\A t \in Tasks : MayBecome(tasks[t], tasks'[t].status)]_taskVars
  BY StatusStep
<1> QED BY InvInit, InvStep, <1>1, PTL DEF TasksSpec, StatusFollowsTable

-----------------------------------------------------------------------------
(* The graph of dependencies, and the replacements that were not overtaken. *)

Replacing(c) == req[c].pc \in {"list", "check", "bump", "replace"}
Storing(c) == req[c].pc \in {"check", "bump", "replace"}
\* What is left of the graph without the dependencies stored in a race.
Unraced == [t \in Tasks |-> IF t \in raced THEN {} ELSE deps[t]]

Free == \A t \in Tasks : tasks[t].life = "none" => deps[t] = {}
Stands == \A c \in Clients : Replacing(c) => tasks[req[c].task].life # "none"
\* Tasks that went live since the replacement listed them depend on nothing.
Listed ==
  \A c \in Clients \ overtaken : Storing(c) => \A t \in LiveTasks : t \notin req[c].live => deps[t] = {}
Passed == \A c \in Clients \ overtaken : req[c].pc \in {"bump", "replace"} => Valid(c)
GraphInv == Inv /\ Free /\ Stands /\ Listed /\ Passed /\ CircleNeedsRace

\* A graph stays acyclic when tasks leave it, tasks without dependencies join
\* it, and the others gain none.
LEMMA AcyclicExtends ==
  ASSUME NEW V, NEW W, NEW d, NEW e, Acyclic(d, V),
         \A t \in W : t \notin V => e[t] = {},
         \A t \in W : t \in V => e[t] \cap V \subseteq d[t]
  PROVE  Acyclic(e, W)
<1> SUFFICES ASSUME NEW S \in SUBSET W, S # {} PROVE \E s \in S : e[s] \cap S = {} BY DEF Acyclic
<1>1. CASE S \subseteq V
  <2>1. PICK s \in S : d[s] \cap S = {} BY <1>1 DEF Acyclic
  <2>2. e[s] \cap S = {} BY <1>1, <2>1
  <2> QED BY <2>2
<1>2. CASE ~(S \subseteq V)
  <2>1. PICK s \in S : s \notin V BY <1>2
  <2> QED BY <2>1
<1> QED BY <1>1, <1>2

LEMMA LiveStep ==
  ASSUME TasksTypeOK, Named, Blank, TasksNext, NEW t \in Tasks
  PROVE  /\ t \in LiveTasks' => t \in LiveTasks \/ tasks[t].life = "none"
         /\ tasks[t].life # "none" => tasks'[t].life # "none"
<1>1. tasks[t].life \in {"none", "live", "archived"} BY DEF TasksTypeOK, Rows
<1> QED BY <1>1, RowsStep DEF LiveTasks, Live

\* Dependencies change only where a replacement stores them, and only who lists
\* the tasks anew is no longer overtaken.
LEMMA DepsStep ==
  ASSUME TasksNext
  PROVE  \/ \E c \in Clients : DependReplace(c)
         \/ /\ deps' = deps /\ raced' = raced
            /\ overtaken' = overtaken \/ \E c \in Clients : DependList(c) /\ overtaken' = overtaken \ {c}
<1>1. CASE UNCHANGED graph BY <1>1
<1>2. ASSUME NEW c \in Clients, DependList(c) PROVE deps' = deps /\ raced' = raced /\ overtaken' = overtaken \ {c}
  BY <1>2 DEF DependList
<1>3. ASSUME NEW c \in Clients, Proceed(c) PROVE UNCHANGED graph \/ DependList(c) \/ DependReplace(c)
  BY <1>3 DEF Proceed, CreateEmit, Archive, ArchiveEmit, Update, NoRowChanged, PatchEmit, PatchGone, DependCheck,
              DependBump, DependEmit
<1>4. UNCHANGED graph \/ \E c \in Clients : DependList(c) \/ DependReplace(c)
  BY <1>3 DEF TasksNext, ClientStep, Die, Handle, Create, Get, ArchiveRead, PatchRead, DependRead, ArchiveAll, Clients
<1> QED BY <1>1, <1>2, <1>4

\* A replacement goes on as it was, begins, or takes its next step.
LEMMA ReplacementStep ==
  ASSUME TasksTypeOK, TasksNext, NEW d \in Clients, Replacing(d)'
  PROVE  \/ req'[d] = req[d]
         \/ req'[d].pc = "list" /\ req'[d].task \in LiveTasks /\ tasks' = tasks
         \/ DependList(d)
         \/ DependCheck(d) /\ Valid(d)
         \/ DependBump(d)
<1> DEFINE Goal == \/ req'[d] = req[d]
                   \/ req'[d].pc = "list" /\ req'[d].task \in LiveTasks /\ tasks' = tasks
                   \/ DependList(d)
                   \/ DependCheck(d) /\ Valid(d)
                   \/ DependBump(d)
<1>0. req \in [Clients -> Requests] /\ req'[d].pc \in {"list", "check", "bump", "replace"}
  BY DEF TasksTypeOK, Replacing
<1>1. ASSUME UNCHANGED req PROVE Goal BY <1>1
<1>2. ASSUME NEW c \in Clients, Done(c) PROVE Goal
  BY <1>0, <1>2 DEF Done, NoRequest
<1>3. ASSUME NEW c \in Clients, NEW pc \in {"updated", "archived", "replaced"}, Goto(c, pc) PROVE Goal
  <2>1. CASE d = c
    <3>1. req'[d] = [req[d] EXCEPT !.pc = pc] BY <1>0, <1>3, <2>1 DEF Goto
    <3>2. req'[d].pc = pc BY <1>0, <3>1 DEF Requests
    <3> QED BY <1>0, <3>2
  <2>2. CASE d # c BY <1>0, <1>3, <2>2 DEF Goto
  <2> QED BY <2>1, <2>2
<1>4. ASSUME NEW c \in Clients, DependList(c) \/ DependBump(c) PROVE Goal
  <2>1. CASE d = c BY <1>4, <2>1
  <2>2. CASE d # c BY <1>0, <1>4, <2>2 DEF DependList, DependBump, Goto
  <2> QED BY <2>1, <2>2
<1>5. ASSUME NEW c \in Clients, NEW pc \in {"created", "update", "archive"}, NEW r,
             req' = [req EXCEPT ![c] = r], r.pc = pc
      PROVE  Goal
  BY <1>0, <1>5
<1>6. ASSUME NEW c \in Clients, NEW t \in Tasks, NEW s, NEW o, Create(c, t, s, o) PROVE Goal
  <2> DEFINE r == [NoRequest EXCEPT !.pc = "created", !.task = t, !.row =
                     [life |-> "live", title |-> s, status |-> "todo", origin |-> o, version |-> 1]]
  <2>1. r.pc = "created" BY DEF NoRequest
  <2>2. req' = [req EXCEPT ![c] = r] BY <1>6 DEF Create
  <2> QED BY <1>5, <2>1, <2>2
<1>7. ASSUME NEW c \in Clients, NEW t \in Tasks, ArchiveRead(c, t) PROVE Goal
  <2> DEFINE r == [NoRequest EXCEPT !.pc = "archive", !.task = t]
  <2>1. r.pc = "archive" BY DEF NoRequest
  <2>2. req' = [req EXCEPT ![c] = r] BY <1>7 DEF ArchiveRead
  <2> QED BY <1>5, <2>1, <2>2
<1>8. ASSUME NEW c \in Clients, NEW t \in Tasks, NEW v, NEW p, PatchRead(c, t, v, p) PROVE Goal
  <2> DEFINE r == [NoRequest EXCEPT !.pc = "update", !.task = t, !.row = tasks[t], !.patch = p]
  <2>1. r.pc = "update" BY DEF NoRequest
  <2>2. req' = [req EXCEPT ![c] = r] BY <1>8 DEF PatchRead
  <2> QED BY <1>5, <2>1, <2>2
<1>9. ASSUME NEW c \in Clients, NEW t \in Tasks, NEW v, NEW on, DependRead(c, t, v, on) PROVE Goal
  <2> DEFINE r == [NoRequest EXCEPT !.pc = "list", !.task = t, !.row = tasks[t], !.on = on]
  <2>1. r.pc = "list" /\ r.task = t BY DEF NoRequest
  <2>2. req' = [req EXCEPT ![c] = r] /\ tasks' = tasks /\ t \in LiveTasks
    BY <1>9 DEF DependRead, UpToDate, LiveTasks
  <2> QED BY <1>0, <2>1, <2>2
<1>10. ASSUME NEW c \in Clients, DependCheck(c) PROVE Goal
  <2>1. CASE Valid(c)
    <3>1. CASE d = c BY <1>10, <2>1, <3>1
    <3>2. CASE d # c BY <1>0, <1>10, <2>1, <3>2 DEF DependCheck, Goto
    <3> QED BY <3>1, <3>2
  <2>2. CASE ~Valid(c) BY <1>2, <1>10, <2>2 DEF DependCheck
  <2> QED BY <2>1, <2>2
<1> HIDE DEF Goal
<1>11. ASSUME NEW c \in Clients, ClientStep(c) PROVE Goal
  BY <1>1, <1>6, <1>7, <1>8, <1>9, <1>11 DEF ClientStep, Get
<1>12. ASSUME NEW c \in Clients, Proceed(c) PROVE Goal
  <2>1. CASE Archive(c) \/ Update(c) \/ DependReplace(c)
    BY <1>3, <2>1 DEF Archive, Update, DependReplace
  <2>2. CASE CreateEmit(c) \/ ArchiveEmit(c) \/ NoRowChanged(c) \/ PatchEmit(c) \/ PatchGone(c) \/ DependEmit(c)
    BY <1>2, <2>2 DEF CreateEmit, ArchiveEmit, NoRowChanged, PatchEmit, PatchGone, DependEmit
  <2> QED BY <1>4, <1>10, <1>12, <2>1, <2>2 DEF Proceed
<1>13. ASSUME NEW c \in Clients, Die(c) PROVE Goal BY <1>2, <1>13 DEF Die
<1>14. ASSUME NEW e \in events, Handle(e) PROVE Goal BY <1>1, <1>14 DEF Handle
<1>15. ASSUME ArchiveAll PROVE Goal BY <1>1, <1>15 DEF ArchiveAll
<1>16. Goal BY <1>6, <1>11, <1>12, <1>13, <1>14, <1>15 DEF TasksNext, Clients
<1> QED BY <1>16 DEF Goal

\* What the request of a replacement says after its next step.
LEMMA NextStage ==
  ASSUME TasksTypeOK, NEW d \in Clients
  PROVE  /\ DependList(d) => /\ req'[d].pc = "check" /\ req'[d].task = req[d].task /\ req'[d].live = LiveTasks
                             /\ req[d].pc = "list"
         /\ DependCheck(d) /\ Valid(d) =>
              /\ req'[d].pc = "bump" /\ req'[d].task = req[d].task /\ req'[d].live = req[d].live
              /\ req'[d].on = req[d].on /\ req[d].pc = "check"
         /\ DependBump(d) =>
              /\ req'[d].pc = "replace" /\ req'[d].task = req[d].task /\ req'[d].live = req[d].live
              /\ req'[d].on = req[d].on /\ req[d].pc = "bump"
<1>0. req \in [Clients -> Requests] /\ req[d] \in Requests BY DEF TasksTypeOK
<1>1. ASSUME DependList(d)
      PROVE  /\ req'[d].pc = "check" /\ req'[d].task = req[d].task /\ req'[d].live = LiveTasks /\ req[d].pc = "list"
  <2>1. req'[d] = [req[d] EXCEPT !.pc = "check", !.live = LiveTasks] /\ req[d].pc = "list"
    BY <1>0, <1>1 DEF DependList, At
  <2> QED BY <1>0, <2>1 DEF Requests
<1>2. ASSUME NEW pc, Goto(d, pc)
      PROVE  req'[d].pc = pc /\ req'[d].task = req[d].task /\ req'[d].live = req[d].live /\ req'[d].on = req[d].on
  <2>1. req'[d] = [req[d] EXCEPT !.pc = pc] BY <1>0, <1>2 DEF Goto
  <2> QED BY <1>0, <2>1 DEF Requests
<1> QED BY <1>1, <1>2 DEF DependCheck, DependBump, At

LEMMA GraphInit == TasksInit => GraphInv
<1> SUFFICES ASSUME TasksInit PROVE GraphInv OBVIOUS
<1>1. \A c \in Clients : req[c].pc = "idle" BY DEF TasksInit, NoRequest
<1>2. LiveTasks = {} BY DEF TasksInit, LiveTasks, Live, NoRow
<1>3. Stands /\ Listed /\ Passed BY <1>1 DEF Stands, Listed, Passed, Replacing, Storing
<1>4. Free BY DEF TasksInit, Free
<1>5. CircleNeedsRace BY <1>2 DEF CircleNeedsRace, Acyclic
<1> QED BY <1>3, <1>4, <1>5, InvInit DEF GraphInv

\* A step that stores no dependencies.
LEMMA GraphKept ==
  ASSUME GraphInv, TasksNext, Inv', deps' = deps, raced' = raced,
         overtaken' = overtaken \/ \E c \in Clients : DependList(c) /\ overtaken' = overtaken \ {c}
  PROVE  GraphInv'
<1>0. TasksTypeOK /\ Named /\ Blank /\ TasksTypeOK' /\ Named' BY DEF GraphInv, Inv
<1>1. Free'
  <2> SUFFICES ASSUME NEW t \in Tasks, tasks'[t].life = "none" PROVE deps'[t] = {} BY DEF Free
  <2> QED BY <1>0, LiveStep DEF GraphInv, Free
<1>2. \A t \in LiveTasks' : t \notin LiveTasks => deps[t] = {}
  BY <1>0, LiveStep DEF GraphInv, Free, LiveTasks
<1>3. Stands'
  <2> SUFFICES ASSUME NEW d \in Clients, Replacing(d)' PROVE tasks'[req'[d].task].life # "none"
    BY DEF Stands
  <2>1. req'[d].task \in Tasks BY <1>0 DEF Named, Replacing
  <2>2. CASE req'[d].task = req[d].task /\ Replacing(d)
    BY <1>0, <2>1, <2>2, LiveStep DEF GraphInv, Stands
  <2>3. CASE req'[d].task \in LiveTasks /\ tasks' = tasks BY <2>3 DEF LiveTasks, Live
  <2>4. req'[d] = req[d] => Replacing(d) BY DEF Replacing
  <2> QED BY <1>0, <2>2, <2>3, <2>4, ReplacementStep, NextStage DEF Replacing
<1>4. ASSUME NEW d \in Clients \ overtaken', ~DependList(d) PROVE d \notin overtaken BY <1>4
<1>5. Listed'
  <2> SUFFICES ASSUME NEW d \in Clients \ overtaken', Storing(d)', NEW t \in LiveTasks', t \notin req'[d].live
               PROVE  deps[t] = {}
    BY DEF Listed
  <2>1. CASE req'[d].live = LiveTasks BY <1>2, <2>1
  <2>2. CASE req'[d].live = req[d].live /\ Storing(d) /\ d \notin overtaken
    BY <1>2, <2>2 DEF GraphInv, Listed
  <2>3. Replacing(d)' /\ req'[d].pc # "list" BY DEF Storing, Replacing
  <2> QED BY <1>0, <1>4, <2>1, <2>2, <2>3, ReplacementStep, NextStage DEF Storing
<1>6. Passed'
  <2> SUFFICES ASSUME NEW d \in Clients \ overtaken', req'[d].pc \in {"bump", "replace"} PROVE Valid(d)'
    BY DEF Passed
  <2>1. ASSUME req'[d].task = req[d].task, req'[d].live = req[d].live, req'[d].on = req[d].on, Valid(d)
        PROVE  Valid(d)'
    <3>1. Requested(d)' = Requested(d) BY <2>1 DEF Requested
    <3> QED BY <2>1, <3>1 DEF Valid, Acyclic
  <2>2. Replacing(d)' /\ d \notin overtaken BY <1>0, <1>4, NextStage DEF Replacing
  <2>3. CASE req'[d] = req[d] BY <2>1, <2>2, <2>3 DEF GraphInv, Passed
  <2>4. CASE DependCheck(d) /\ Valid(d) BY <1>0, <2>1, <2>4, NextStage
  <2>5. CASE DependBump(d) BY <1>0, <2>1, <2>2, <2>5, NextStage DEF GraphInv, Passed
  <2> QED BY <1>0, <2>2, <2>3, <2>4, <2>5, ReplacementStep, NextStage
<1>7. CircleNeedsRace'
  <2>1. \A t \in LiveTasks' : t \notin LiveTasks => Unraced[t] = {} BY <1>2 DEF Unraced, LiveTasks
  <2>2. Acyclic(Unraced, LiveTasks') BY <2>1, AcyclicExtends DEF GraphInv, CircleNeedsRace, Unraced
  <2>3. CircleNeedsRace' <=> Acyclic(Unraced, LiveTasks') BY DEF CircleNeedsRace, Unraced
  <2> QED BY <2>2, <2>3
<1> QED BY <1>1, <1>3, <1>5, <1>6, <1>7 DEF GraphInv

\* The step that stores them: whoever else has listed the tasks is overtaken, and
\* one that was not itself leaves a graph without circles.
LEMMA GraphReplaced ==
  ASSUME GraphInv, NEW c \in Clients, DependReplace(c), Inv'
  PROVE  GraphInv'
<1> DEFINE t == req[c].task
<1>1. /\ t \in Tasks /\ Replacing(c) /\ Storing(c) /\ req[c].pc = "replace" /\ UNCHANGED tasks
      /\ deps \in [Tasks -> SUBSET Tasks] /\ deps' = [deps EXCEPT ![t] = req[c].on]
      /\ req' = [req EXCEPT ![c].pc = "replaced"] /\ req \in [Clients -> Requests]
  BY DEF GraphInv, Inv, DependReplace, At, Goto, Named, Replacing, Storing, TasksTypeOK
<1>2. LiveTasks' = LiveTasks BY <1>1 DEF LiveTasks, Live
<1>3. ASSUME NEW d \in Clients, Replacing(d)' PROVE d # c /\ req'[d] = req[d] /\ Replacing(d)
  <2>1. d # c BY <1>1, <1>3 DEF Replacing, Requests
  <2>2. req'[d] = req[d] BY <1>1, <2>1
  <2> QED BY <1>3, <2>1, <2>2 DEF Replacing
<1>4. Free'
  <2> SUFFICES ASSUME NEW u \in Tasks, tasks'[u].life = "none" PROVE deps'[u] = {} BY DEF Free
  <2>1. u # t BY <1>1 DEF GraphInv, Stands
  <2> QED BY <1>1, <2>1 DEF GraphInv, Free
<1>5. Stands' BY <1>1, <1>3 DEF GraphInv, Stands
<1>6. ASSUME NEW d \in Clients, Storing(d)' PROVE d \in overtaken'
  <2>1. d # c /\ req'[d] = req[d] BY <1>3, <1>6 DEF Storing, Replacing
  <2>2. At(d, "check") \/ At(d, "bump") \/ At(d, "replace") BY <1>6, <2>1 DEF Storing, At
  <2> QED BY <2>1, <2>2 DEF DependReplace
<1>7. (Listed /\ Passed)' BY <1>6 DEF Listed, Passed, Storing
<1>8. CASE c \in overtaken
  <2>1. raced' = raced \cup {t} BY <1>8 DEF DependReplace
  <2>2. \A u \in LiveTasks : Unraced'[u] \cap LiveTasks \subseteq Unraced[u]
    BY <1>1, <2>1 DEF Unraced, LiveTasks
  <2>3. Acyclic(Unraced, LiveTasks) BY DEF GraphInv, CircleNeedsRace, Unraced
  <2>4. Acyclic(Unraced', LiveTasks) BY <2>2, <2>3, AcyclicExtends
  <2>5. CircleNeedsRace' BY <1>2, <2>4 DEF CircleNeedsRace, Unraced
  <2> QED BY <1>4, <1>5, <1>7, <2>5 DEF GraphInv
<1>9. CASE c \notin overtaken
  <2>1. raced' = {} BY <1>9 DEF DependReplace
  <2>2. Valid(c) BY <1>1, <1>9 DEF GraphInv, Passed
  <2>3. ASSUME NEW u \in LiveTasks, u \notin req[c].live PROVE Unraced'[u] = {}
    <3>1. u \in Tasks /\ Unraced'[u] = deps'[u] BY <2>1 DEF LiveTasks, Unraced
    <3>2. CASE u = t BY <1>1, <2>2, <2>3, <3>1, <3>2 DEF Valid
    <3>3. CASE u # t BY <1>1, <1>9, <2>3, <3>1, <3>3 DEF GraphInv, Listed
    <3> QED BY <3>2, <3>3
  <2>4. ASSUME NEW u \in LiveTasks, u \in req[c].live
        PROVE  Unraced'[u] \cap req[c].live \subseteq Requested(c)[u]
    <3>1. u \in Tasks /\ Unraced'[u] = deps'[u] BY <2>1 DEF LiveTasks, Unraced
    <3>2. CASE u = t BY <1>1, <3>1, <3>2 DEF Requested
    <3>3. CASE u # t BY <1>1, <2>4, <3>1, <3>3 DEF Requested
    <3> QED BY <3>2, <3>3
  <2>5. Acyclic(Requested(c), req[c].live) BY <2>2 DEF Valid
  <2>6. Acyclic(Unraced', LiveTasks) BY <2>3, <2>4, <2>5, AcyclicExtends
  <2>7. CircleNeedsRace' BY <1>2, <2>6 DEF CircleNeedsRace, Unraced
  <2> QED BY <1>4, <1>5, <1>7, <2>7 DEF GraphInv
<1> QED BY <1>8, <1>9

LEMMA GraphStep == GraphInv /\ [TasksNext]_taskVars => GraphInv'
<1> SUFFICES ASSUME GraphInv, [TasksNext]_taskVars PROVE GraphInv' OBVIOUS
<1>1. Inv' BY InvStep DEF GraphInv
<1>2. CASE UNCHANGED taskVars
  <2>1. tasks' = tasks /\ deps' = deps /\ req' = req /\ overtaken' = overtaken /\ raced' = raced
    BY <1>2 DEF taskVars
  <2>2. (Free /\ Stands)' BY <2>1 DEF GraphInv, Free, Stands, Replacing
  <2>3. (Listed /\ CircleNeedsRace)'
    BY <2>1 DEF GraphInv, Listed, Storing, CircleNeedsRace, LiveTasks, Live
  <2>4. Passed' BY <2>1 DEF GraphInv, Passed, Valid, Requested
  <2> QED BY <1>1, <2>2, <2>3, <2>4 DEF GraphInv
<1>3. CASE TasksNext BY <1>1, <1>3, DepsStep, GraphKept, GraphReplaced
<1> QED BY <1>2, <1>3

\* The check of a replacement and its writes are several statements, and others
\* create, archive, patch and replace in between: a circle among the live tasks
\* goes through dependencies that were stored after another replacement had been
\* stored behind their check, and one that is not overtaken leaves no circle.
THEOREM CirclesNeedRaces == TasksSpec => []CircleNeedsRace
<1>1. GraphInv => CircleNeedsRace BY DEF GraphInv
<1> QED BY GraphInit, GraphStep, <1>1, PTL DEF TasksSpec
=============================================================================
