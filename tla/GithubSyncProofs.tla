-------------------------- MODULE GithubSyncProofs --------------------------
(***************************************************************************)
(* Proofs about GithubSync, for every set of tasks, users and starts.       *)
(*                                                                         *)
(* Times of the issue and versions of a task only grow, and a link once     *)
(* made stays with its task.  So whatever a worker carries towards the link *)
(* was true of the two sides when it was read and is not ahead of them when *)
(* it is written, however long that takes and whatever is written between.  *)
(***************************************************************************)
EXTENDS GithubSync, TaskServiceProofs

\* The engine changes neither the graph nor its history.
USE DEF graph

\* A row that exists has a title.
Titled == \A t \in Tasks : tasks[t].life # "none" => tasks[t].title \in Titles
TaskInv == Inv /\ Titled

\* No time anybody remembers is ahead of the issue.
TimeInv(w) ==
  /\ work[w].gh <= issue.at /\ work[w].link.gh <= issue.at
  /\ work[w].issue # None => work[w].issue.at <= issue.at
IssueInv ==
  /\ link.gh <= issue.at /\ \A h \in webhooks : h.issue.at <= issue.at
  /\ \A w \in Services : TimeInv(w)

Behind(version, t) == version # None => version <= tasks[t].version
StaysBehind(version, t) == version # None => version <= tasks'[t].version

\* What a worker knows, by where it stands.
Bound == {"look", "task", "issue", "push", "patch", "patching", "close", "save", "amend", "write"}
JobInv(w) ==
  /\ work[w].pc \in Bound => link.task \in Tasks
  /\ work[w].pc \in {"look", "task", "issue", "write"} => work[w].link.task = link.task
  /\ work[w].pc \in {"link", "look", "patch", "patching", "import", "importing"} => work[w].issue # None
  /\ work[w].pc \in {"issue", "push", "patch", "patching"} =>
       /\ work[w].task = link.task /\ work[w].row.title \in Titles /\ Behind(work[w].row.version, link.task)
  /\ work[w].pc = "patching" => req[w].pc \in {"update", "updated"} /\ req[w].task = link.task
  /\ work[w].pc = "importing" => req[w].pc = "created" /\ Behind(req[w].row.version, req[w].task)
  /\ work[w].pc = "create" => work[w].task \in Tasks /\ Behind(work[w].tv, work[w].task)
  /\ work[w].pc \in {"save", "amend", "write"} => Behind(work[w].tv, link.task)
  /\ work[w].pc = "write" => Behind(work[w].link.tv, link.task)
  /\ work[w].pc \in {"amend", "write"} => work[w].set \in {"error", "tv", "pending"}

LinkInv == link = NoLink \/ (link.task \in Tasks /\ Behind(link.tv, link.task))

SInv == SyncTypeOK /\ TaskInv /\ IssueInv /\ LinkInv /\ \A w \in Services : JobInv(w)

-----------------------------------------------------------------------------
(* What the steps of a worker leave in work.                                *)

LEMMA NoJobTyped == NoJob \in Jobs /\ NoLink \in Links
<1>1. NoLink \in Links BY DEF NoLink, Links
<1> QED BY <1>1, NoRowTyped DEF NoJob, Jobs

\* One worker moves.
Moves(w, r) == /\ work' \in [Services -> Jobs] /\ work'[w] = r
               /\ \A v \in Services : v # w => work'[v] = work[v]

LEMMA MovesTo ==
  ASSUME work \in [Services -> Jobs], NEW w \in Services, NEW r \in Jobs, work' = [work EXCEPT ![w] = r]
  PROVE  Moves(w, r)
  BY DEF Moves

LEMMA LeaveIs ==
  ASSUME work \in [Services -> Jobs], NEW w \in Services, Leave(w)
  PROVE  Moves(w, NoJob)
  BY NoJobTyped, MovesTo DEF Leave

LEMMA ContinueIs ==
  ASSUME work \in [Services -> Jobs], NEW w \in Services,
         NEW pc \in {"task", "import", "importing", "patch", "patching"}, Continue(w, pc)
  PROVE  Moves(w, [work[w] EXCEPT !.pc = pc])
<1>1. work' = [work EXCEPT ![w] = [work[w] EXCEPT !.pc = pc]] BY DEF Continue
<1>2. [work[w] EXCEPT !.pc = pc] \in Jobs BY DEF Jobs
<1> QED BY <1>1, <1>2, MovesTo

LEMMA BeginIs ==
  ASSUME work \in [Services -> Jobs], NEW w \in Services, NEW pc \in {"link", "task", "import", "close"},
         NEW job \in SUBSET (Webhooks \cup Events), NEW l \in Links, NEW i \in Issues \cup {None},
         Begin(w, pc, job, l, i)
  PROVE  Moves(w, [NoJob EXCEPT !.pc = pc, !.job = job, !.link = l, !.issue = i])
<1>1. [NoJob EXCEPT !.pc = pc, !.job = job, !.link = l, !.issue = i] \in Jobs BY NoJobTyped DEF Jobs
<1> QED BY <1>1, MovesTo DEF Begin

LEMMA SaveIs ==
  ASSUME work \in [Services -> Jobs], NEW w \in Services, NEW time \in Nat, NEW version \in Nat,
         Save(w, time, version)
  PROVE  Moves(w, [NoJob EXCEPT !.pc = "save", !.job = work[w].job, !.gh = time, !.tv = version])
<1>1. work[w].job \in SUBSET (Webhooks \cup Events) BY DEF Jobs
<1>2. [NoJob EXCEPT !.pc = "save", !.job = work[w].job, !.gh = time, !.tv = version] \in Jobs
  BY <1>1, NoJobTyped DEF Jobs
<1> QED BY <1>2, MovesTo DEF Save

LEMMA AmendIs ==
  ASSUME work \in [Services -> Jobs], NEW w \in Services, NEW set \in {"error", "tv", "pending"},
         NEW again \in BOOLEAN, Amend(w, set, again)
  PROVE  Moves(w, [NoJob EXCEPT !.pc = "amend", !.job = work[w].job, !.set = set, !.again = again,
                                !.tv = IF set = "tv" THEN work[w].row.version ELSE None])
<1> DEFINE tv == IF set = "tv" THEN work[w].row.version ELSE None
<1>1. work[w].job \in SUBSET (Webhooks \cup Events) /\ tv \in Nat \cup {None} BY DEF Jobs, Rows
<1>2. work' = [work EXCEPT ![w] = [NoJob EXCEPT !.pc = "amend", !.job = work[w].job, !.set = set,
                                                !.again = again, !.tv = tv]]
  BY DEF Amend
<1> HIDE DEF tv
<1>3. [NoJob EXCEPT !.pc = "amend", !.job = work[w].job, !.set = set, !.again = again, !.tv = tv] \in Jobs
  BY <1>1, NoJobTyped DEF Jobs
<1>4. Moves(w, [NoJob EXCEPT !.pc = "amend", !.job = work[w].job, !.set = set, !.again = again, !.tv = tv])
  BY <1>2, <1>3, MovesTo
<1> QED BY <1>4 DEF tv

-----------------------------------------------------------------------------
(* The side of the tasks.  Whatever github-sync does to it, task-service     *)
(* could do on its own, but for a PATCH with a version nobody has held, for   *)
(* a worker that dies without a request, and for the events handled.        *)

TaskStep ==
  \/ TasksNext
  \/ \E c \in Clients, t \in Tasks, v \in Nat, p \in Patches : PatchRead(c, t, v, p)
  \/ \E c \in Clients : Done(c) /\ UNCHANGED <<tasks, graph, held, events>>
  \/ UNCHANGED <<tasks, graph, held, req>> /\ events' \subseteq events
Grows == \A t \in Tasks : tasks[t].version <= tasks'[t].version

LEMMA PatchReadKeeps ==
  ASSUME Inv, NEW c \in Clients, NEW t \in Tasks, NEW v, NEW p \in Patches, PatchRead(c, t, v, p)
  PROVE  Inv'
<1> DEFINE r == [NoRequest EXCEPT !.pc = "update", !.task = t, !.row = tasks[t], !.patch = p]
<1>1. /\ req' = [req EXCEPT ![c] = r] /\ UNCHANGED <<tasks, graph, held, events>>
      /\ MayBecome(tasks[t], p.status) /\ TasksTypeOK
  BY DEF PatchRead, Accepts, Inv
<1>2. tasks[t] \in Rows BY <1>1 DEF TasksTypeOK
<1>3. r \in Requests BY <1>2, NoRowTyped DEF Requests
<1>4. r.pc = "update" /\ r.task = t /\ r.row = tasks[t] /\ r.patch = p BY DEF NoRequest
<1> HIDE DEF r
<1>5. TasksTypeOK' BY <1>1, <1>3 DEF TasksTypeOK
<1>6. \A d \in Clients : req'[d] = IF d = c THEN r ELSE req[d] BY <1>1 DEF TasksTypeOK
<1>7. Named' BY <1>4, <1>6 DEF Inv, Named
<1>8. Blank' BY <1>1 DEF Inv, Blank
<1>9. SeenRows' BY <1>1, <1>4, <1>6 DEF Inv, SeenRows, Seen
<1>10. Checked' BY <1>1, <1>4, <1>6 DEF Inv, Checked, MayBecome, Alters
<1> QED BY <1>5, <1>7, <1>8, <1>9, <1>10 DEF Inv

LEMMA HandledKeeps ==
  ASSUME Inv, UNCHANGED <<tasks, graph, held, req>>, events' \subseteq events
  PROVE  Inv'
  BY DEF Inv, TasksTypeOK, Named, Blank, SeenRows, Checked, Seen, MayBecome, Alters

LEMMA DoneKeeps ==
  ASSUME Inv, NEW c \in Clients, Done(c), UNCHANGED <<tasks, graph, held, events>>
  PROVE  Inv'
<1>1. TasksTypeOK /\ NoRequest.pc = "idle" BY DEF Inv, NoRequest
<1>2. \A d \in Clients : req'[d] = IF d = c THEN NoRequest ELSE req[d] BY <1>1 DEF Done, TasksTypeOK
<1>3. TasksTypeOK' BY <1>1, NoRowTyped DEF TasksTypeOK, Done
<1>4. Named' /\ Blank' BY <1>1, <1>2 DEF Inv, Named, Blank
<1>5. SeenRows'
  <2>1. NoRequest.task = None BY DEF NoRequest
  <2> QED BY <1>1, <1>2, <2>1 DEF Inv, SeenRows, Seen
<1>6. Checked' BY <1>1, <1>2 DEF Inv, Checked, MayBecome, Alters
<1> QED BY <1>3, <1>4, <1>5, <1>6 DEF Inv

\* What is written as a title is one.
LEMMA TitledStep == ASSUME Inv, Titled, TasksNext PROVE Titled'
<1> SUFFICES ASSUME NEW t \in Tasks, tasks'[t].life # "none" PROVE tasks'[t].title \in Titles BY DEF Titled
<1>0. tasks \in [Tasks -> Rows] /\ tasks[t] \in Rows BY DEF Inv, TasksTypeOK
<1>1. ASSUME NEW c \in Clients, NEW u \in Tasks, NEW s \in Titles, NEW o, Create(c, u, s, o)
      PROVE  tasks'[t].title \in Titles
  <2> DEFINE row == [life |-> "live", title |-> s, status |-> "todo", origin |-> o, version |-> 1]
  <2>1. tasks' = [tasks EXCEPT ![u] = row] BY <1>1 DEF Create
  <2>2. row.title = s OBVIOUS
  <2> HIDE DEF row
  <2>3. CASE u = t BY <1>0, <2>1, <2>2, <2>3
  <2>4. CASE u # t BY <1>0, <2>1, <2>4 DEF Titled
  <2> QED BY <2>3, <2>4
<1>2. \A row \in Rows : Archived(row).title = row.title BY DEF Archived, Rows
<1>3. ASSUME NEW c \in Clients, Archive(c) PROVE tasks'[t].title \in Titles
  BY <1>0, <1>2, <1>3 DEF Archive, Live, Titled
<1>4. ASSUME NEW c \in Clients, Update(c) PROVE tasks'[t].title \in Titles
  <2> DEFINE u == req[c].task
             p == req[c].patch
  <2>1. tasks' = [tasks EXCEPT ![u] = Updated(tasks[u], p)] /\ tasks[u].life = "live"
        /\ u \in Tasks /\ p \in Patches
    BY <1>4 DEF Update, At, Unchanged, UpToDate, Live, Inv, Named, TasksTypeOK, Requests
  <2>2. tasks[u] \in Rows /\ tasks[u].title \in Titles BY <1>0, <2>1 DEF Titled
  <2>3. Updated(tasks[u], p).title = Set(p.title, tasks[u].title) BY <2>2 DEF Updated, Rows
  <2>4. Updated(tasks[u], p).title \in Titles BY <2>1, <2>2, <2>3 DEF Set, Patches
  <2> HIDE DEF u, p
  <2>5. CASE u = t BY <1>0, <2>1, <2>4, <2>5
  <2>6. CASE u # t BY <1>0, <2>1, <2>6 DEF Titled
  <2> QED BY <2>5, <2>6
<1>5. ASSUME NEW c \in Clients, DependBump(c) PROVE tasks'[t].title \in Titles
  <2> DEFINE u == req[c].task
             version == tasks[u].version + 1
  <2>1. tasks' = [tasks EXCEPT ![u] = [tasks[u] EXCEPT !.version = version]] /\ u \in Tasks
        /\ tasks[u].life = "live"
    BY <1>0, <1>5 DEF DependBump, At, Inv, Named, Unchanged, UpToDate, Live
  <2> HIDE DEF u, version
  <2>2. tasks[u] \in Rows /\ tasks[u].title \in Titles BY <1>0, <2>1 DEF Titled
  <2>3. [tasks[u] EXCEPT !.version = version].title = tasks[u].title BY <2>2 DEF Rows
  <2>4. CASE u = t BY <1>0, <2>1, <2>2, <2>3, <2>4
  <2>5. CASE u # t BY <1>0, <2>1, <2>5 DEF Titled
  <2> QED BY <2>4, <2>5
<1>6. ASSUME ArchiveAll PROVE tasks'[t].title \in Titles
  <2>1. tasks'[t] = IF Live(t) THEN Archived(tasks[t]) ELSE tasks[t] BY <1>6 DEF ArchiveAll
  <2> QED BY <1>0, <1>2, <2>1 DEF Live, Titled
<1>7. ASSUME UNCHANGED tasks PROVE tasks'[t].title \in Titles BY <1>7 DEF Titled
<1>8. ASSUME NEW c \in Clients, ClientStep(c) \/ Proceed(c) \/ Die(c) PROVE tasks'[t].title \in Titles
  BY <1>1, <1>3, <1>4, <1>5, <1>7, <1>8
  DEF ClientStep, Proceed, Die, Get, ArchiveRead, PatchRead, DependRead, CreateEmit, ArchiveEmit, NoRowChanged,
      PatchEmit, PatchGone, DependList, DependCheck, DependReplace, DependEmit
<1>9. ASSUME NEW e \in events, Handle(e) PROVE tasks'[t].title \in Titles BY <1>7, <1>9 DEF Handle
<1> QED BY <1>1, <1>6, <1>8, <1>9 DEF TasksNext, Clients

LEMMA TaskStepKeeps == ASSUME TaskInv, TaskStep PROVE TaskInv' /\ Grows
<1>1. CASE TasksNext
  <2>1. Inv' BY <1>1, InvStep DEF TaskInv
  <2>2. Titled' BY <1>1, TitledStep DEF TaskInv
  <2>3. ASSUME NEW t \in Tasks PROVE tasks[t].version <= tasks'[t].version
    <3>1. tasks[t].version \in Nat /\ tasks'[t].version \in Nat BY <2>1 DEF TaskInv, Inv, TasksTypeOK, Rows
    <3> QED BY <1>1, <3>1, RowsStep DEF TaskInv, Inv
  <2> QED BY <2>1, <2>2, <2>3 DEF TaskInv, Grows
<1>2. CASE tasks' = tasks
  <2>1. \A t \in Tasks : tasks[t].version \in Nat BY DEF TaskInv, Inv, TasksTypeOK, Rows
  <2>2. Grows /\ Titled' BY <1>2, <2>1 DEF TaskInv, Titled, Grows
  <2>3. TasksNext \/ Inv' BY PatchReadKeeps, HandledKeeps, DoneKeeps DEF TaskInv, TaskStep
  <2> QED BY <1>1, <2>2, <2>3 DEF TaskInv
<1>3. TasksNext \/ tasks' = tasks BY DEF TaskStep, PatchRead
<1> QED BY <1>1, <1>2, <1>3

\* No status leaves the table either.
LEMMA StatusKept == ASSUME TaskInv, TaskStep, NEW t \in Tasks PROVE MayBecome(tasks[t], tasks'[t].status)
<1>1. CASE TasksNext
  <2>1. (\A u \in Tasks : MayBecome(tasks[u], tasks'[u].status)) \/ UNCHANGED taskVars
    BY <1>1, StatusStep DEF TaskInv
  <2>2. UNCHANGED taskVars => tasks' = tasks BY DEF taskVars
  <2> QED BY <2>1, <2>2 DEF MayBecome, Alters
<1>2. CASE tasks' = tasks BY <1>2 DEF MayBecome, Alters
<1>3. TasksNext \/ tasks' = tasks BY DEF TaskStep, PatchRead
<1> QED BY <1>1, <1>2, <1>3

-----------------------------------------------------------------------------
(* What stands still keeps what it knows.                                   *)

Further == Grows /\ issue.at <= issue'.at /\ (link.task \in Tasks => link'.task = link.task)

LEMMA StillBehind ==
  ASSUME SInv, TaskInv', Grows, NEW version \in Nat \cup {None}, NEW t \in Tasks, Behind(version, t)
  PROVE  StaysBehind(version, t)
<1>1. tasks[t].version \in Nat /\ tasks'[t].version \in Nat /\ tasks[t].version <= tasks'[t].version
  BY DEF SInv, TaskInv, Inv, TasksTypeOK, Rows, Grows
<1> QED BY <1>1 DEF Behind, StaysBehind

LEMMA OthersKeep ==
  ASSUME SInv, SyncTypeOK', TaskInv', Further, NEW v \in Services, work'[v] = work[v], req'[v] = req[v]
  PROVE  JobInv(v)' /\ TimeInv(v)'
<1>1. /\ work[v] \in Jobs /\ issue.at \in Nat /\ issue'.at \in Nat /\ issue.at <= issue'.at
      /\ v \in Clients /\ req[v] \in Requests
  BY DEF SInv, SyncTypeOK, Issues, Further, Clients, TasksTypeOK
<1>2. TimeInv(v)'
  <2>1. /\ work[v].gh \in Nat /\ work[v].link.gh \in Nat
        /\ work[v].issue # None => work[v].issue.at \in Nat
    BY <1>1 DEF Jobs, Links, Issues
  <2> QED BY <1>1, <2>1 DEF SInv, IssueInv, TimeInv
<1>3. /\ work[v].row.version \in Nat /\ work[v].tv \in Nat \cup {None} /\ work[v].link.tv \in Nat \cup {None}
      /\ req[v].row.version \in Nat
  BY <1>1 DEF Jobs, Rows, Links, Requests
<1>4. \A version \in Nat \cup {None}, t \in Tasks : Behind(version, t) => StaysBehind(version, t)
  BY StillBehind DEF Further
<1>5. link.task \in Tasks => link'.task = link.task BY DEF Further
<1>6. req[v].pc # "idle" => req[v].task \in Tasks BY <1>1 DEF SInv, TaskInv, Inv, Named
<1>7. JobInv(v) BY DEF SInv
<1>8. JobInv(v)'
  <2>1. work[v].pc \in Bound => link'.task = link.task /\ link.task \in Tasks BY <1>5, <1>7 DEF JobInv
  <2>2. work[v].pc = "importing" => req[v].pc = "created" /\ req[v].task \in Tasks BY <1>6, <1>7 DEF JobInv
  <2> QED BY <1>3, <1>4, <1>7, <2>1, <2>2 DEF JobInv, Bound, Behind, StaysBehind
<1> QED BY <1>2, <1>8

LEMMA Assemble ==
  ASSUME SInv, SyncTypeOK', TaskInv', Further, LinkInv', link'.gh <= issue'.at,
         \A h \in webhooks' : h \in webhooks \/ h.issue.at <= issue'.at,
         \A w \in Services : \/ work'[w] = work[w] /\ req'[w] = req[w]
                             \/ JobInv(w)' /\ TimeInv(w)'
  PROVE  SInv'
<1>1. \A w \in Services : JobInv(w)' /\ TimeInv(w)' BY OthersKeep
<1>2. ASSUME NEW h \in webhooks' PROVE h.issue.at <= issue'.at
  <2>1. CASE h \in webhooks
    <3>1. h \in Webhooks BY <2>1 DEF SInv, SyncTypeOK
    <3>2. h.issue.at \in Nat /\ issue.at \in Nat /\ issue'.at \in Nat
      BY <3>1 DEF SInv, SyncTypeOK, Webhooks, Issues
    <3>3. h.issue.at <= issue.at BY <2>1 DEF SInv, IssueInv
    <3> QED BY <3>2, <3>3 DEF Further
  <2> QED BY <2>1
<1>3. IssueInv' BY <1>1, <1>2 DEF IssueInv
<1> QED BY <1>1, <1>3 DEF SInv

LEMMA SameLink ==
  ASSUME SInv, TaskInv', Grows, link' = link, issue.at <= issue'.at, issue' \in Issues
  PROVE  LinkInv' /\ link'.gh <= issue'.at
<1>1. link \in Links /\ issue.at \in Nat /\ issue'.at \in Nat BY DEF SInv, SyncTypeOK, Issues
<1>2. link.gh \in Nat /\ link.tv \in Nat \cup {None} BY <1>1 DEF Links
<1>3. link.gh <= issue.at BY DEF SInv, IssueInv
<1>4. link'.gh <= issue'.at BY <1>1, <1>2, <1>3
<1>5. LinkInv' BY <1>2, StillBehind DEF SInv, LinkInv, Behind, StaysBehind
<1> QED BY <1>4, <1>5

\* The steps of a worker that do not write the link.
LEMMA WorkerKeeps ==
  ASSUME SInv, NEW w \in Services, TaskStep, NEW r, Moves(w, r),
         \A v \in Services : v # w => req'[v] = req[v],
         UNCHANGED <<repo, edits, link>>, webhooks' \subseteq webhooks, faults' \in Nat,
         issue' \in Issues, issue.at <= issue'.at,
         TaskInv' /\ Grows => JobInv(w)' /\ TimeInv(w)'
  PROVE  SInv'
<1>1. TaskInv' /\ Grows BY TaskStepKeeps DEF SInv
<1>2. SyncTypeOK' BY <1>1 DEF SInv, SyncTypeOK, Moves, TaskInv, Inv
<1>3. LinkInv' /\ link'.gh <= issue'.at BY <1>1, SameLink
<1>4. Further BY <1>1 DEF Further
<1>5. \A v \in Services : v # w => work'[v] = work[v] BY DEF Moves
<1> QED BY <1>1, <1>2, <1>3, <1>4, <1>5, Assemble

\* The steps of nobody among the workers.
LEMMA OutsideKeeps ==
  ASSUME SInv, TaskStep, UNCHANGED <<repo, link, work>>, \A v \in Services : req'[v] = req[v],
         edits' \subseteq edits, faults' \in Nat, issue' \in Issues, issue.at <= issue'.at,
         webhooks' \subseteq Webhooks, \A h \in webhooks' : h \in webhooks \/ h.issue.at <= issue'.at
  PROVE  SInv'
<1>1. TaskInv' /\ Grows BY TaskStepKeeps DEF SInv
<1>2. SyncTypeOK' BY <1>1 DEF SInv, SyncTypeOK, TaskInv, Inv
<1>3. LinkInv' /\ link'.gh <= issue'.at BY <1>1, SameLink
<1>4. Further BY <1>1 DEF Further
<1> QED BY <1>1, <1>2, <1>3, <1>4, Assemble

LEMMA SyncFacts ==
  ASSUME SInv
  PROVE  /\ work \in [Services -> Jobs] /\ issue \in Issues /\ issue.at \in Nat /\ issue.at <= issue.at
         /\ link \in Links /\ (Linked <=> link.task \in Tasks) /\ faults \in Nat
         /\ webhooks \subseteq Webhooks /\ events \subseteq Events
         /\ req \in [Clients -> Requests] /\ tasks \in [Tasks -> Rows] /\ Services \subseteq Clients
         /\ Drain \in Services /\ Alarm \in Services /\ Users \subseteq Clients
<1>1. /\ work \in [Services -> Jobs] /\ issue \in Issues /\ issue.at \in Nat
      /\ link \in Links /\ faults \in Nat /\ webhooks \subseteq Webhooks /\ TasksTypeOK
  BY DEF SInv, SyncTypeOK, Issues
<1>2. Linked <=> link.task \in Tasks
  <2>1. NoLink.task = None /\ None \notin Tasks BY TasksAssumption DEF NoLink
  <2> QED BY <2>1 DEF SInv, LinkInv, Linked
<1> QED BY <1>1, <1>2, SyncAssumption DEF TasksTypeOK, Clients

-----------------------------------------------------------------------------
(* What the mover knows, by what it was left with.                          *)

LEMMA LeftKnows ==
  ASSUME NEW w \in Services, Moves(w, NoJob), issue' \in Issues
  PROVE  JobInv(w)' /\ TimeInv(w)'
<1>1. /\ work'[w].pc = "idle" /\ work'[w].gh = 0 /\ work'[w].link.gh = 0 /\ work'[w].issue = None
  BY DEF Moves, NoJob, NoLink
<1>2. issue'.at \in Nat BY DEF Issues
<1> QED BY <1>1, <1>2 DEF JobInv, TimeInv, Bound

LEMMA BegunKnows ==
  ASSUME NEW w \in Services, NEW pc \in {"link", "task", "import", "close"}, NEW job, NEW l, NEW i,
         Moves(w, [NoJob EXCEPT !.pc = pc, !.job = job, !.link = l, !.issue = i]), issue' \in Issues,
         l.gh <= issue'.at, i # None => i.at <= issue'.at,
         pc \in {"task", "close"} => link'.task \in Tasks /\ l.task = link'.task,
         pc \in {"link", "import"} => i # None
  PROVE  JobInv(w)' /\ TimeInv(w)'
<1>1. work'[w].pc = pc /\ work'[w].gh = 0 /\ work'[w].link = l /\ work'[w].issue = i BY DEF Moves, NoJob
<1>2. issue'.at \in Nat BY DEF Issues
<1> QED BY <1>1, <1>2 DEF JobInv, TimeInv, Bound

LEMMA SavedKnows ==
  ASSUME NEW w \in Services, NEW job, NEW time, NEW version,
         Moves(w, [NoJob EXCEPT !.pc = "save", !.job = job, !.gh = time, !.tv = version]), issue' \in Issues,
         time <= issue'.at, link'.task \in Tasks, StaysBehind(version, link'.task)
  PROVE  JobInv(w)' /\ TimeInv(w)'
<1>1. /\ work'[w].pc = "save" /\ work'[w].gh = time /\ work'[w].tv = version /\ work'[w].link.gh = 0
      /\ work'[w].issue = None
  BY DEF Moves, NoJob, NoLink
<1>2. issue'.at \in Nat BY DEF Issues
<1> QED BY <1>1, <1>2 DEF JobInv, TimeInv, Bound, Behind, StaysBehind

LEMMA AmendedKnows ==
  ASSUME NEW w \in Services, NEW job, NEW set \in {"error", "tv", "pending"}, NEW again, NEW version,
         Moves(w, [NoJob EXCEPT !.pc = "amend", !.job = job, !.set = set, !.again = again,
                                !.tv = IF set = "tv" THEN version ELSE None]),
         issue' \in Issues, link'.task \in Tasks, set = "tv" => StaysBehind(version, link'.task)
  PROVE  JobInv(w)' /\ TimeInv(w)'
<1>1. /\ work'[w].pc = "amend" /\ work'[w].gh = 0 /\ work'[w].link.gh = 0 /\ work'[w].set = set
      /\ work'[w].issue = None /\ work'[w].tv = IF set = "tv" THEN version ELSE None
  BY DEF Moves, NoJob, NoLink
<1>2. issue'.at \in Nat BY DEF Issues
<1> QED BY <1>1, <1>2 DEF JobInv, TimeInv, Bound, Behind, StaysBehind

-----------------------------------------------------------------------------
(* One lemma per action.                                                    *)

LEMMA SecondsLater ==
  ASSUME NEW i \in Issues, NEW j \in Seconds(i)
  PROVE  j \in Issues /\ i.at <= j.at
<1>1. PICK k \in 0..1 : j = [i EXCEPT !.at = @ + k] BY DEF Seconds
<1>2. i.at \in Nat /\ k \in Nat BY DEF Issues
<1> DEFINE time == i.at + k
<1>3. time \in Nat /\ i.at <= time BY <1>2
<1>4. j = [i EXCEPT !.at = time] BY <1>1
<1> HIDE DEF time
<1> QED BY <1>3, <1>4 DEF Issues

LEMMA EditIssueKeeps == ASSUME SInv, EditIssue PROVE SInv'
<1>1. PICK kind \in edits :
        /\ edits' = edits \ {kind}
        /\ \E i \in CASE kind = "title" -> {[issue EXCEPT !.title = s] : s \in Titles \ {issue.title}}
                      [] kind = "state" -> {[issue EXCEPT !.state = IF @ = "open" THEN "closed" ELSE "open"]} :
             issue' \in Seconds(i)
  BY DEF EditIssue
<1>2. kind = "title" \/ kind = "state" BY DEF SInv, SyncTypeOK
<1>3. PICK i : /\ \/ \E s \in Titles : i = [issue EXCEPT !.title = s]
                  \/ i = [issue EXCEPT !.state = IF @ = "open" THEN "closed" ELSE "open"]
               /\ issue' \in Seconds(i)
  BY <1>1, <1>2
<1>4. i \in Issues /\ i.at = issue.at
  <2>1. issue \in Issues BY SyncFacts
  <2>2. ASSUME NEW s \in Titles, i = [issue EXCEPT !.title = s] PROVE i \in Issues /\ i.at = issue.at
    BY <2>1, <2>2 DEF Issues
  <2>3. ASSUME i = [issue EXCEPT !.state = IF @ = "open" THEN "closed" ELSE "open"]
        PROVE  i \in Issues /\ i.at = issue.at
    <3>1. PICK state \in {"open", "closed"} : i = [issue EXCEPT !.state = state] BY <2>3
    <3> QED BY <2>1, <3>1 DEF Issues
  <2> QED BY <1>3, <2>2, <2>3
<1>5. issue' \in Issues /\ issue.at <= issue'.at BY <1>3, <1>4, SecondsLater
<1>6. /\ webhooks' = webhooks \cup {[n |-> edits', issue |-> issue']}
      /\ UNCHANGED <<tasks, graph, held, req, events, link, work, faults, repo>>
  BY DEF EditIssue, taskVars
<1> DEFINE h == [n |-> edits', issue |-> issue']
<1>7. h \in Webhooks /\ h.issue.at <= issue'.at
  <2>1. edits' \subseteq {"title", "state"} BY <1>1 DEF SInv, SyncTypeOK
  <2>2. issue'.at <= issue'.at BY <1>5 DEF Issues
  <2> QED BY <1>5, <2>1, <2>2 DEF Webhooks
<1> HIDE DEF h
<1>8. webhooks' \subseteq Webhooks /\ \A g \in webhooks' : g \in webhooks \/ g.issue.at <= issue'.at
  BY <1>6, <1>7, SyncFacts DEF h
<1>9. TaskStep BY <1>6 DEF TaskStep
<1> QED BY <1>1, <1>5, <1>6, <1>8, <1>9, SyncFacts, OutsideKeeps

\* A request of one client is no other's.
LEMMA OwnRequest ==
  ASSUME SInv, NEW c \in Clients, NEW r, req' = [req EXCEPT ![c] = r]
  PROVE  \A d \in Clients : d # c => req'[d] = req[d]
  BY SyncFacts

LEMMA ProceedOwn ==
  ASSUME SInv, NEW c \in Clients, Proceed(c)
  PROVE  \A d \in Clients : d # c => req'[d] = req[d]
<1>1. req \in [Clients -> Requests] BY SyncFacts
<1> QED BY <1>1 DEF Proceed, CreateEmit, Archive, ArchiveEmit, Update, NoRowChanged, PatchEmit, PatchGone, DependList,
                    DependCheck, DependBump, DependReplace, DependEmit, Goto, Done

LEMMA EditTaskKeeps == ASSUME SInv, NEW c \in Users, EditTask(c) PROVE SInv'
<1>1. c \in Clients /\ c \notin Services /\ Services \subseteq Clients
      /\ req \in [Clients -> Requests] /\ tasks \in [Tasks -> Rows]
  BY SyncFacts, TasksAssumption
<1>2. UNCHANGED <<repo, issue, edits, webhooks, link, work, faults>> BY DEF EditTask, sync
<1>3. TaskStep /\ \A v \in Services : req'[v] = req[v]
  <2>1. ASSUME NEW t \in Tasks, Young(t), ArchiveRead(c, t) PROVE TaskStep /\ \A v \in Services : req'[v] = req[v]
    <3>1. TaskStep BY <1>1, <2>1 DEF TaskStep, TasksNext, ClientStep
    <3> QED BY <1>1, <2>1, <3>1 DEF ArchiveRead
  <2>2. ASSUME NEW t \in Tasks, NEW p \in Edits, PatchRead(c, t, tasks[t].version, p)
        PROVE  TaskStep /\ \A v \in Services : req'[v] = req[v]
    <3>1. tasks[t].version \in Nat /\ p \in Patches BY <1>1, TasksAssumption DEF Rows
    <3>2. TaskStep BY <1>1, <2>2, <3>1 DEF TaskStep
    <3> QED BY <1>1, <2>2, <3>2 DEF PatchRead
  <2>3. ASSUME Proceed(c) PROVE TaskStep /\ \A v \in Services : req'[v] = req[v]
    <3>1. TaskStep BY <1>1, <2>3 DEF TaskStep, TasksNext
    <3> QED BY <1>1, <2>3, <3>1, ProceedOwn
  <2> QED BY <2>1, <2>2, <2>3 DEF EditTask
<1>4. /\ edits' \subseteq edits /\ faults' \in Nat /\ issue' \in Issues /\ issue.at <= issue'.at
      /\ webhooks' \subseteq Webhooks /\ \A h \in webhooks' : h \in webhooks \/ h.issue.at <= issue'.at
  BY <1>2, SyncFacts
<1> QED BY <1>2, <1>3, <1>4, OutsideKeeps

\* A worker that neither writes the issue nor calls task-service.
LEMMA ThinkerKeeps ==
  ASSUME SInv, NEW w \in Services, NEW r, Moves(w, r), UNCHANGED <<taskVars, repo, issue, edits, link>>,
         webhooks' \subseteq webhooks, faults' \in Nat,
         TaskInv' /\ Grows => JobInv(w)' /\ TimeInv(w)'
  PROVE  SInv'
<1>1. UNCHANGED <<tasks, graph, held, req, events, repo, issue, edits, link>> BY DEF taskVars
<1>2. TaskStep BY <1>1 DEF TaskStep
<1>3. issue' \in Issues /\ issue.at <= issue'.at BY <1>1, SyncFacts
<1> QED BY <1>1, <1>2, <1>3, WorkerKeeps

LEMMA TakeWebhookKeeps == ASSUME SInv, NEW h \in webhooks, TakeWebhook(h) PROVE SInv'
<1>1. h \in Webhooks /\ h.issue \in Issues /\ h.issue.at <= issue.at /\ link.gh <= issue.at
  BY SyncFacts DEF SInv, IssueInv, Webhooks
<1>2. UNCHANGED <<tasks, graph, held, req, events, issue, edits, link, faults, repo>>
  BY DEF TakeWebhook, taskVars
<1>3. CASE webhooks' = webhooks \ {h} /\ UNCHANGED work
  <2>1. TaskStep BY <1>2 DEF TaskStep
  <2>2. /\ edits' \subseteq edits /\ faults' \in Nat /\ issue' \in Issues /\ issue.at <= issue'.at
        /\ webhooks' \subseteq Webhooks /\ \A g \in webhooks' : g \in webhooks \/ g.issue.at <= issue'.at
    BY <1>2, <1>3, SyncFacts
  <2> QED BY <1>2, <1>3, <2>1, <2>2, OutsideKeeps
<1>4. CASE Begin(Drain, IF Linked THEN "task" ELSE "import", {h}, link, h.issue) /\ UNCHANGED webhooks
  <2> DEFINE pc == IF Linked THEN "task" ELSE "import"
  <2>1. pc \in {"link", "task", "import", "close"} /\ (pc = "task" => link.task \in Tasks) /\ pc \notin {"link", "close"}
    BY SyncFacts
  <2>2. Begin(Drain, pc, {h}, link, h.issue) BY <1>4
  <2> HIDE DEF pc
  <2>3. {h} \in SUBSET (Webhooks \cup Events) /\ h.issue # None BY <1>1, SyncAssumption
  <2>4. Moves(Drain, [NoJob EXCEPT !.pc = pc, !.job = {h}, !.link = link, !.issue = h.issue])
    BY <1>1, <2>1, <2>2, <2>3, BeginIs, SyncFacts
  <2>5. JobInv(Drain)' /\ TimeInv(Drain)'
    BY <1>1, <1>2, <2>1, <2>3, <2>4, BegunKnows, SyncFacts
  <2>6. webhooks' \subseteq webhooks /\ faults' \in Nat BY <1>2, <1>4, SyncFacts
  <2>7. UNCHANGED <<taskVars, repo, issue, edits, link>> BY <1>2 DEF taskVars
  <2> QED BY <2>4, <2>5, <2>6, <2>7, ThinkerKeeps, SyncFacts
<1> QED BY <1>3, <1>4 DEF TakeWebhook

LEMMA TakeEventKeeps == ASSUME SInv, NEW e \in events, TakeEvent(e) PROVE SInv'
<1>1. UNCHANGED <<repo, issue, edits, webhooks, link, faults>> BY DEF TakeEvent, quiet
<1>2. CASE Handle(e) /\ UNCHANGED work
  <2>1. TaskStep BY <1>2 DEF TaskStep, TasksNext
  <2>2. /\ edits' \subseteq edits /\ faults' \in Nat /\ issue' \in Issues /\ issue.at <= issue'.at
        /\ webhooks' \subseteq Webhooks /\ \A h \in webhooks' : h \in webhooks \/ h.issue.at <= issue'.at
        /\ \A v \in Services : req'[v] = req[v]
    BY <1>1, <1>2, SyncFacts DEF Handle
  <2> QED BY <1>1, <1>2, <2>1, <2>2, OutsideKeeps
<1>3. CASE ~Ignored(e)
  <2> DEFINE pc == IF e.name = "archived" THEN "close" ELSE "task"
  <2>1. e \in Events /\ link.task = e.task BY <1>3, SyncFacts DEF Ignored
  <2>2. link.task \in Tasks /\ link.gh <= issue.at BY <2>1 DEF Events, SInv, IssueInv
  <2>3. Begin(Drain, pc, {e}, link, None) /\ UNCHANGED taskVars BY <1>3 DEF TakeEvent
  <2>4. pc \in {"link", "task", "import", "close"} /\ pc \notin {"link", "import"} OBVIOUS
  <2> HIDE DEF pc
  <2>5. {e} \in SUBSET (Webhooks \cup Events) /\ None \in Issues \cup {None} BY <2>1
  <2>6. Moves(Drain, [NoJob EXCEPT !.pc = pc, !.job = {e}, !.link = link, !.issue = None])
    BY <2>3, <2>4, <2>5, BeginIs, SyncFacts
  <2>7. JobInv(Drain)' /\ TimeInv(Drain)' BY <1>1, <2>2, <2>4, <2>6, BegunKnows, SyncFacts
  <2> QED BY <1>1, <2>3, <2>6, <2>7, ThinkerKeeps, SyncFacts
<1> QED BY <1>2, <1>3 DEF TakeEvent

LEMMA StartReconcileKeeps == ASSUME SInv, StartReconcile PROVE SInv'
<1>1. UNCHANGED <<taskVars, repo, issue, edits, webhooks, link, faults>> BY DEF StartReconcile, quiet
<1>2. Begin(Alarm, "link", {}, NoLink, issue) BY DEF StartReconcile
<1>3. Moves(Alarm, [NoJob EXCEPT !.pc = "link", !.job = {}, !.link = NoLink, !.issue = issue])
  BY <1>2, BeginIs, SyncFacts, NoJobTyped
<1>4. NoLink.gh = 0 /\ 0 <= issue.at /\ issue # None BY SyncFacts, SyncAssumption DEF NoLink
<1>5. JobInv(Alarm)' /\ TimeInv(Alarm)' BY <1>1, <1>3, <1>4, BegunKnows, SyncFacts
<1> QED BY <1>1, <1>3, <1>5, ThinkerKeeps, SyncFacts

LEMMA LeaveKeeps ==
  ASSUME SInv, NEW w \in Services, Leave(w), UNCHANGED <<taskVars, repo, issue, edits, webhooks, link, faults>>
  PROVE  SInv'
<1>1. Moves(w, NoJob) BY LeaveIs, SyncFacts
<1>2. JobInv(w)' /\ TimeInv(w)' BY <1>1, LeftKnows, SyncFacts
<1> QED BY <1>1, <1>2, ThinkerKeeps, SyncFacts

LEMMA WorkFacts ==
  ASSUME SInv, NEW w \in Services
  PROVE  /\ work[w] \in Jobs /\ JobInv(w) /\ TimeInv(w) /\ work[w].job \in SUBSET (Webhooks \cup Events)
         /\ work[w].link \in Links /\ work[w].row \in Rows /\ work[w].row.version \in Nat
         /\ work[w].issue \in Issues \cup {None} /\ work[w].gh \in Nat /\ work[w].tv \in Nat \cup {None}
<1>1. work[w] \in Jobs /\ JobInv(w) /\ TimeInv(w) BY SyncFacts DEF SInv, IssueInv
<1> QED BY <1>1 DEF Jobs, Rows

\* A worker goes on with what it has.
LEMMA ContinuesKeep ==
  ASSUME SInv, NEW w \in Services, NEW pc \in {"task", "import"}, Continue(w, pc),
         UNCHANGED <<taskVars, repo, issue, edits, webhooks, link, faults>>,
         pc = "task" => work[w].pc = "look", pc = "import" => work[w].pc = "link"
  PROVE  SInv'
<1>1. Moves(w, [work[w] EXCEPT !.pc = pc]) BY ContinueIs, SyncFacts
<1>2. /\ work'[w].pc = pc /\ work'[w].link = work[w].link /\ work'[w].issue = work[w].issue
      /\ work'[w].gh = work[w].gh
  BY <1>1, WorkFacts DEF Moves, Jobs
<1>3. JobInv(w)' /\ TimeInv(w)' BY <1>2, WorkFacts DEF JobInv, TimeInv, Bound
<1> QED BY <1>1, <1>3, ThinkerKeeps, SyncFacts

LEMMA FindLinkKeeps == ASSUME SInv, FindLink PROVE SInv'
<1>1. UNCHANGED <<taskVars, repo, issue, edits, webhooks, link, faults>> /\ work[Alarm].pc = "link"
  BY DEF FindLink, quiet, Is
<1>2. CASE Linked
  <2> DEFINE r == [work[Alarm] EXCEPT !.pc = "look", !.link = link]
  <2>1. work' = [work EXCEPT ![Alarm] = r] BY <1>2 DEF FindLink
  <2>2. r \in Jobs /\ r.pc = "look" /\ r.link = link /\ r.issue = work[Alarm].issue /\ r.gh = work[Alarm].gh
    BY WorkFacts, SyncFacts DEF Jobs
  <2> HIDE DEF r
  <2>3. Moves(Alarm, r) BY <2>1, <2>2, MovesTo, SyncFacts
  <2>4. link.task \in Tasks /\ link.gh <= issue.at BY <1>2, SyncFacts DEF SInv, IssueInv
  <2>5. JobInv(Alarm)' /\ TimeInv(Alarm)'
    BY <1>1, <2>2, <2>3, <2>4, WorkFacts, SyncFacts DEF JobInv, TimeInv, Bound, Moves
  <2> QED BY <1>1, <2>3, <2>5, ThinkerKeeps, SyncFacts
<1>3. CASE Leave(Alarm) BY <1>1, <1>3, LeaveKeeps, SyncFacts
<1>4. CASE Continue(Alarm, "import") BY <1>1, <1>4, ContinuesKeep, SyncFacts
<1> QED BY <1>2, <1>3, <1>4 DEF FindLink

LEMMA CompareKeeps == ASSUME SInv, Compare PROVE SInv'
<1>1. UNCHANGED <<taskVars, repo, issue, edits, webhooks, link, faults>> /\ work[Alarm].pc = "look"
  BY DEF Compare, quiet, Is
<1>2. CASE Continue(Alarm, "task") BY <1>1, <1>2, ContinuesKeep, SyncFacts
<1>3. CASE Leave(Alarm) BY <1>1, <1>3, LeaveKeeps, SyncFacts
<1> QED BY <1>2, <1>3 DEF Compare

LEMMA ReadTaskKeeps == ASSUME SInv, NEW w \in Services, ReadTask(w) PROVE SInv'
<1> DEFINE t == work[w].link.task
           pc == IF work[w].issue = None THEN "issue"
                 ELSE IF Clash(w, work[w].issue) /\ repo.origin = "internal" THEN "push" ELSE "patch"
           l == IF work[w].issue = None THEN work[w].link ELSE NoLink
           r == [work[w] EXCEPT !.row = tasks[t], !.task = t, !.pc = pc, !.link = l]
<1>1. UNCHANGED <<taskVars, repo, issue, edits, webhooks, link, faults>> /\ work[w].pc = "task" /\ Live(t)
  BY DEF ReadTask, quiet, Is
<1>2. work' = [work EXCEPT ![w] = r] BY SyncFacts DEF ReadTask
<1>3. t = link.task /\ t \in Tasks BY <1>1, WorkFacts DEF JobInv, Bound
<1>4. /\ tasks[t] \in Rows /\ tasks[t].title \in Titles /\ tasks[t].version \in Nat
      /\ tasks[t].version <= tasks[t].version
  BY <1>1, <1>3, SyncFacts DEF Live, SInv, TaskInv, Titled, Rows
<1>5. l \in Links /\ l.gh <= issue.at /\ (pc = "issue" => l = work[w].link)
  <2>1. NoLink \in Links /\ NoLink.gh <= issue.at BY NoJobTyped, SyncFacts DEF NoLink
  <2> QED BY <2>1, WorkFacts DEF TimeInv
<1>6. pc \in {"issue", "push", "patch"} /\ (pc # "issue" => work[w].issue # None) OBVIOUS
<1> HIDE DEF t, pc, l
<1>7. /\ r \in Jobs /\ r.pc = pc /\ r.link = l /\ r.issue = work[w].issue /\ r.gh = work[w].gh /\ r.task = t
      /\ r.row = tasks[t]
  BY <1>3, <1>4, <1>5, <1>6, WorkFacts DEF Jobs
<1> HIDE DEF r
<1>8. Moves(w, r) BY <1>2, <1>7, MovesTo, SyncFacts
<1>9. UNCHANGED <<tasks, issue, link>> BY <1>1 DEF taskVars
<1>10. JobInv(w)' /\ TimeInv(w)'
  <2>1. TimeInv(w)' BY <1>5, <1>7, <1>8, <1>9, WorkFacts DEF TimeInv, Moves
  <2>2. work'[w] = r /\ (pc = "issue" => l.task = link.task) BY <1>3, <1>5, <1>8 DEF Moves, t
  <2>3. JobInv(w)' BY <1>3, <1>4, <1>6, <1>7, <1>9, <2>2 DEF JobInv, Bound, Behind
  <2> QED BY <2>1, <2>3
<1> QED BY <1>1, <1>8, <1>10, ThinkerKeeps, SyncFacts

LEMMA AmendKeeps ==
  ASSUME SInv, NEW w \in Services, NEW set \in {"error", "tv", "pending"}, NEW again \in BOOLEAN,
         Amend(w, set, again), TaskStep, \A v \in Services : v # w => req'[v] = req[v],
         UNCHANGED <<repo, edits, link>>, webhooks' \subseteq webhooks, faults' \in Nat,
         issue' \in Issues, issue.at <= issue'.at, work[w].pc \in Bound,
         set = "tv" => work[w].pc = "issue"
  PROVE  SInv'
<1> DEFINE r == [NoJob EXCEPT !.pc = "amend", !.job = work[w].job, !.set = set, !.again = again,
                              !.tv = IF set = "tv" THEN work[w].row.version ELSE None]
<1>1. Moves(w, r) BY AmendIs, SyncFacts
<1>2. link.task \in Tasks BY WorkFacts DEF JobInv
<1>3. ASSUME TaskInv', Grows PROVE JobInv(w)' /\ TimeInv(w)'
  <2>1. set = "tv" => Behind(work[w].row.version, link.task) BY WorkFacts DEF JobInv
  <2>2. set = "tv" => StaysBehind(work[w].row.version, link'.task) BY <1>2, <1>3, <2>1, StillBehind, WorkFacts
  <2> QED BY <1>1, <1>2, <2>2, AmendedKnows
<1> QED BY <1>1, <1>3, WorkerKeeps

\* The same, when the task side is left alone.
LEMMA AmendAlone ==
  ASSUME SInv, NEW w \in Services, NEW set \in {"error", "tv", "pending"}, NEW again \in BOOLEAN,
         Amend(w, set, again), UNCHANGED <<taskVars, repo, edits, webhooks, link>>, faults' \in Nat,
         issue' \in Issues, issue.at <= issue'.at, work[w].pc \in Bound,
         set = "tv" => work[w].pc = "issue"
  PROVE  SInv'
<1>1. UNCHANGED <<tasks, graph, held, req, events>> BY DEF taskVars
<1>2. TaskStep BY <1>1 DEF TaskStep
<1> QED BY <1>1, <1>2, AmendKeeps

LEMMA TaskGoneKeeps == ASSUME SInv, NEW w \in Services, TaskGone(w) PROVE SInv'
<1>1. /\ UNCHANGED <<taskVars, repo, issue, edits, webhooks, link, faults>>
      /\ work[w].pc \in Bound /\ Amend(w, "error", FALSE)
  BY DEF TaskGone, quiet, Is, Bound
<1> QED BY <1>1, AmendAlone, SyncFacts

LEMMA ReadIssueKeeps == ASSUME SInv, NEW w \in Services, ReadIssue(w) PROVE SInv'
<1>1. UNCHANGED <<taskVars, repo, issue, edits, webhooks, link, faults>> /\ work[w].pc = "issue"
  BY DEF ReadIssue, quiet, Is
<1>2. ASSUME NEW pc \in {"patch", "push"},
             work' = [work EXCEPT ![w].pc = pc, ![w].issue = issue, ![w].link = NoLink]
      PROVE  SInv'
  <2> DEFINE r == [work[w] EXCEPT !.pc = pc, !.issue = issue, !.link = NoLink]
  <2>1. work' = [work EXCEPT ![w] = r] BY <1>2
  <2>2. /\ r \in Jobs /\ r.pc = pc /\ r.issue = issue /\ r.link = NoLink /\ r.gh = work[w].gh
        /\ r.row = work[w].row /\ r.task = work[w].task
    BY WorkFacts, SyncFacts, NoJobTyped DEF Jobs
  <2> HIDE DEF r
  <2>3. Moves(w, r) BY <2>1, <2>2, MovesTo, SyncFacts
  <2>4. UNCHANGED <<tasks, issue, link>> /\ work'[w] = r BY <1>1, <2>3 DEF taskVars, Moves
  <2>5. NoLink.gh <= issue.at /\ issue # None BY SyncFacts, SyncAssumption DEF NoLink
  <2>6. TimeInv(w)' BY <2>2, <2>4, <2>5, WorkFacts, SyncFacts DEF TimeInv
  <2>7. JobInv(w)' BY <1>1, <2>2, <2>4, <2>5, WorkFacts DEF JobInv, Bound, Behind
  <2> QED BY <1>1, <2>3, <2>6, <2>7, ThinkerKeeps, SyncFacts
<1>3. CASE Amend(w, "tv", FALSE) BY <1>1, <1>3, AmendAlone, SyncFacts DEF Bound
<1> QED BY <1>2, <1>3 DEF ReadIssue

LEMMA SaveKeeps ==
  ASSUME SInv, NEW w \in Services, NEW time \in Nat, NEW version \in Nat, Save(w, time, version),
         TaskStep, \A v \in Services : v # w => req'[v] = req[v],
         UNCHANGED <<repo, edits, link, webhooks, faults>>,
         issue' \in Issues, issue.at <= issue'.at, work[w].pc \in Bound,
         time <= issue'.at, Behind(version, link.task)
  PROVE  SInv'
<1>1. Moves(w, [NoJob EXCEPT !.pc = "save", !.job = work[w].job, !.gh = time, !.tv = version])
  BY SaveIs, SyncFacts
<1>2. link.task \in Tasks BY WorkFacts DEF JobInv
<1>3. ASSUME TaskInv', Grows PROVE JobInv(w)' /\ TimeInv(w)'
  BY <1>1, <1>2, <1>3, StillBehind, SavedKnows
<1> QED BY <1>1, <1>3, WorkerKeeps, SyncFacts

LEMMA PushKeeps == ASSUME SInv, NEW w \in Services, Push(w) PROVE SInv'
<1> DEFINE i == Pushed(work[w].row, issue)
<1>1. /\ UNCHANGED <<tasks, graph, held, req, events, edits, webhooks, link, faults, repo>>
      /\ work[w].pc = "push" /\ issue' \in Seconds(i) /\ Save(w, issue'.at, work[w].row.version)
  BY DEF Push, Is, taskVars
<1>2. work[w].row.title \in Titles /\ Behind(work[w].row.version, link.task) /\ work[w].pc \in Bound
  BY <1>1, WorkFacts DEF JobInv, Bound
<1>3. i \in Issues /\ i.at = issue.at
  <2> DEFINE state == StatusToState(work[w].row.status)
             marker == StatusMarker(work[w].row.status)
  <2>1. state \in {"open", "closed"} /\ marker \in Markers \cup {None} BY DEF StatusToState, StatusMarker
  <2>2. i = [issue EXCEPT !.title = work[w].row.title, !.state = state, !.marker = marker] BY DEF Pushed
  <2> HIDE DEF state, marker, i
  <2> QED BY <1>2, <2>1, <2>2, SyncFacts DEF Issues
<1>4. issue' \in Issues /\ issue.at <= issue'.at BY <1>1, <1>3, SecondsLater
<1>5. issue'.at \in Nat /\ issue'.at <= issue'.at BY <1>4 DEF Issues
<1>6. TaskStep BY <1>1 DEF TaskStep
<1> QED BY <1>1, <1>2, <1>4, <1>5, <1>6, SaveKeeps, WorkFacts

LEMMA CloseKeeps == ASSUME SInv, NEW w \in Services, Close(w) PROVE SInv'
<1> DEFINE i == [issue EXCEPT !.state = "closed"]
<1>1. /\ UNCHANGED <<taskVars, edits, webhooks, link, faults, repo>>
      /\ work[w].pc = "close" /\ issue' \in Seconds(i) /\ Amend(w, "pending", FALSE)
  BY DEF Close, Is
<1>2. i \in Issues /\ i.at = issue.at BY SyncFacts DEF Issues
<1> HIDE DEF i
<1>3. issue' \in Issues /\ issue.at <= issue'.at BY <1>1, <1>2, SecondsLater
<1> QED BY <1>1, <1>3, AmendAlone, SyncFacts DEF Bound

LEMMA OutageKeeps == ASSUME SInv, NEW w \in Services, Outage(w) PROVE SInv'
<1>1. /\ UNCHANGED <<taskVars, issue, edits, webhooks, link, repo>> /\ faults' = faults - 1 /\ faults > 0
      /\ work[w].pc \in Bound /\ Amend(w, "error", TRUE)
  BY DEF Outage, Fault, Bound
<1>2. faults' \in Nat BY <1>1, SyncFacts
<1> QED BY <1>1, <1>2, AmendAlone, SyncFacts

LEMMA ReadLinkKeeps == ASSUME SInv, NEW w \in Services, ReadLink(w) PROVE SInv'
<1> DEFINE r == [work[w] EXCEPT !.pc = "write", !.link = link]
<1>1. /\ UNCHANGED <<taskVars, repo, issue, edits, webhooks, link, faults>> /\ work[w].pc = "amend"
      /\ work' = [work EXCEPT ![w] = r]
  BY DEF ReadLink, quiet, Is
<1>2. /\ r \in Jobs /\ r.pc = "write" /\ r.link = link /\ r.gh = work[w].gh /\ r.issue = work[w].issue
      /\ r.tv = work[w].tv /\ r.set = work[w].set
  BY WorkFacts, SyncFacts DEF Jobs
<1> HIDE DEF r
<1>3. Moves(w, r) BY <1>1, <1>2, MovesTo, SyncFacts
<1>4. UNCHANGED <<tasks, issue, link>> /\ work'[w] = r BY <1>1, <1>3 DEF taskVars, Moves
<1>5. link.task \in Tasks BY <1>1, WorkFacts DEF JobInv, Bound
<1>6. Behind(link.tv, link.task) /\ link.gh <= issue.at
  BY <1>5, SyncFacts DEF SInv, LinkInv, Linked, IssueInv
<1>7. TimeInv(w)' BY <1>2, <1>4, <1>6, WorkFacts DEF TimeInv
<1>8. JobInv(w)' BY <1>1, <1>2, <1>4, <1>5, <1>6, WorkFacts DEF JobInv, Bound, Behind
<1> QED BY <1>1, <1>3, <1>7, <1>8, ThinkerKeeps, SyncFacts

\* A worker waits for its PATCH.
LEMMA PatchingKnows ==
  ASSUME SInv, NEW w \in Services, TaskInv', Grows, work[w].pc \in {"patch", "patching"},
         NEW pc \in {"patch", "patching"}, work'[w] = [work[w] EXCEPT !.pc = pc], UNCHANGED <<issue, link>>,
         pc = "patching" => req'[w].pc \in {"update", "updated"} /\ req'[w].task = link.task
  PROVE  JobInv(w)' /\ TimeInv(w)'
<1>1. /\ work'[w].pc = pc /\ work'[w].link = work[w].link /\ work'[w].issue = work[w].issue
      /\ work'[w].gh = work[w].gh /\ work'[w].row = work[w].row /\ work'[w].task = work[w].task
  BY WorkFacts DEF Jobs
<1>2. TimeInv(w)' BY <1>1, WorkFacts DEF TimeInv
<1>3. /\ link.task \in Tasks /\ work[w].issue # None /\ work[w].task = link.task /\ work[w].row.title \in Titles
      /\ Behind(work[w].row.version, link.task)
  BY WorkFacts DEF JobInv, Bound
<1>4. StaysBehind(work[w].row.version, link.task) BY <1>3, StillBehind, WorkFacts
<1>5. JobInv(w)' BY <1>1, <1>3, <1>4 DEF JobInv, Bound, Behind, StaysBehind
<1> QED BY <1>2, <1>5

LEMMA PatchKeeps == ASSUME SInv, NEW w \in Services, Patch(w) PROVE SInv'
<1> DEFINE row == work[w].row
           t == work[w].task
           p == PatchFrom(row, work[w].issue)
<1>1. UNCHANGED <<repo, issue, edits, webhooks, link, faults>> /\ work[w].pc = "patch"
  BY DEF Patch, quiet, Is
<1>2. w \in Clients /\ t = link.task /\ t \in Tasks /\ work[w].issue \in Issues /\ row.version \in Nat
  BY <1>1, WorkFacts, SyncFacts DEF JobInv, Bound
<1>3. CASE PatchRead(w, t, row.version, p) /\ Continue(w, "patching")
  <2>1. p \in Patches
    <3>1. StateToStatus(work[w].issue) \in Statuses BY <1>2 DEF StateToStatus, Issues, Markers, Statuses
    <3> QED BY <1>2, <3>1 DEF PatchFrom, Patches, Issues
  <2>2. TaskStep BY <1>2, <1>3, <2>1 DEF TaskStep
  <2>3. req' = [req EXCEPT ![w] = [NoRequest EXCEPT !.pc = "update", !.task = t, !.row = tasks[t], !.patch = p]]
    BY <1>3 DEF PatchRead
  <2>4. req'[w].pc = "update" /\ req'[w].task = t BY <1>2, <2>3, SyncFacts DEF NoRequest
  <2>5. \A v \in Services : v # w => req'[v] = req[v] BY <1>2, <2>3, SyncFacts
  <2>6. Moves(w, [work[w] EXCEPT !.pc = "patching"]) BY <1>3, ContinueIs, SyncFacts
  <2> HIDE DEF t, p
  <2>7. TaskInv' /\ Grows => JobInv(w)' /\ TimeInv(w)'
    BY <1>1, <1>2, <2>4, <2>6, PatchingKnows DEF Moves
  <2> QED BY <1>1, <2>2, <2>5, <2>6, <2>7, WorkerKeeps, SyncFacts
<1>4. CASE Amend(w, "error", FALSE) /\ UNCHANGED taskVars BY <1>1, <1>4, AmendAlone, SyncFacts DEF Bound
<1> QED BY <1>3, <1>4 DEF Patch

LEMMA Deaf ==
  ASSUME NEW w \in Services, NEW names, Hear(w, names)
  PROVE  UNCHANGED events
<1>1. w \notin Users BY TasksAssumption
<1> QED BY <1>1 DEF Hear, SelfCaused, ActorOf

LEMMA DoneIs ==
  ASSUME SInv, NEW c \in Clients, Done(c), UNCHANGED <<tasks, graph, held, events>>
  PROVE  TaskStep /\ \A d \in Clients : d # c => req'[d] = req[d]
<1>1. TaskStep BY DEF TaskStep
<1> QED BY <1>1, SyncFacts DEF Done

LEMMA PatchingKeeps == ASSUME SInv, NEW w \in Services, Patching(w) PROVE SInv'
<1>1. UNCHANGED <<repo, issue, edits, webhooks, link, faults>> /\ work[w].pc = "patching"
  BY DEF Patching, quiet, Is
<1>2. /\ w \in Clients /\ req[w].task = link.task /\ link.task \in Tasks /\ work[w].issue # None
  BY <1>1, WorkFacts, SyncFacts DEF JobInv, Bound
<1>3. CASE Update(w) /\ UNCHANGED work
  <2>1. TaskStep BY <1>2, <1>3 DEF TaskStep, TasksNext, Proceed
  <2>2. req' = [req EXCEPT ![w].pc = "updated"] /\ req[w] \in Requests BY <1>2, <1>3, SyncFacts DEF Update, Goto
  <2>3. req'[w].pc = "updated" /\ req'[w].task = req[w].task BY <1>2, <2>2, SyncFacts DEF Requests
  <2>4. \A v \in Services : v # w => req'[v] = req[v] BY <1>2, <2>2, SyncFacts
  <2>5. work[w] = [work[w] EXCEPT !.pc = "patching"] BY <1>1, WorkFacts DEF Jobs
  <2>6. Moves(w, work[w]) BY <1>3, SyncFacts DEF Moves
  <2>7. TaskInv' /\ Grows => JobInv(w)' /\ TimeInv(w)'
    BY <1>1, <1>2, <1>3, <2>3, <2>5, PatchingKnows
  <2> QED BY <1>1, <2>1, <2>4, <2>6, <2>7, WorkerKeeps, SyncFacts
<1>4. CASE /\ At(w, "updated") /\ Live(req[w].task) /\ Hear(w, PatchEvents(w)) /\ Done(w)
           /\ Save(w, work[w].issue.at, tasks[req[w].task].version) /\ UNCHANGED <<tasks, graph, held>>
  <2>1. UNCHANGED events BY <1>4, Deaf
  <2>2. TaskStep /\ \A v \in Services : v # w => req'[v] = req[v]
    BY <1>2, <1>4, <2>1, DoneIs, SyncFacts
  <2>3. work[w].issue.at \in Nat /\ work[w].issue.at <= issue.at BY <1>2, WorkFacts DEF Issues, TimeInv
  <2>4. tasks[req[w].task].version \in Nat /\ tasks[req[w].task].version <= tasks[link.task].version
    BY <1>2, SyncFacts DEF Rows
  <2> QED BY <1>1, <1>4, <2>2, <2>3, <2>4, SaveKeeps, SyncFacts DEF Bound, Behind
<1>5. CASE (NoRowChanged(w) \/ PatchGone(w)) /\ Amend(w, "error", FALSE)
  <2>1. Done(w) /\ UNCHANGED <<tasks, graph, held, events>> BY <1>5 DEF NoRowChanged, PatchGone
  <2>2. TaskStep /\ \A v \in Services : v # w => req'[v] = req[v] BY <1>2, <2>1, DoneIs, SyncFacts
  <2> QED BY <1>1, <1>5, <2>2, AmendKeeps, SyncFacts DEF Bound
<1> QED BY <1>3, <1>4, <1>5 DEF Patching

LEMMA ImportKeeps == ASSUME SInv, NEW w \in Services, Import(w) PROVE SInv'
<1>1. UNCHANGED <<repo, issue, edits, webhooks, link, faults>> /\ work[w].pc = "import" /\ Continue(w, "importing")
  BY DEF Import, quiet, Is
<1>2. work[w].issue \in Issues /\ work[w].issue.title \in Titles /\ w \in Clients /\ work[w].issue # None
  BY <1>1, WorkFacts, SyncFacts DEF JobInv, Issues
<1>3. PICK t \in Tasks : Create(w, t, work[w].issue.title, "github") BY DEF Import
<1> DEFINE row == [life |-> "live", title |-> work[w].issue.title, status |-> "todo", origin |-> "github", version |-> 1]
           r == [NoRequest EXCEPT !.pc = "created", !.task = t, !.row = row]
<1>4. tasks' = [tasks EXCEPT ![t] = row] /\ req' = [req EXCEPT ![w] = r] BY <1>3 DEF Create
<1>5. r.pc = "created" /\ r.task = t /\ r.row.version = 1 /\ row.version = 1 BY DEF NoRequest
<1> HIDE DEF r, row
<1>6. req'[w].pc = "created" /\ req'[w].task = t /\ req'[w].row.version = 1 /\ tasks'[t].version = 1
  BY <1>2, <1>4, <1>5, SyncFacts
<1>7. \A v \in Services : v # w => req'[v] = req[v] BY <1>2, <1>4, SyncFacts
<1>8. TaskStep BY <1>2, <1>3 DEF TaskStep, TasksNext
<1>9. Moves(w, [work[w] EXCEPT !.pc = "importing"]) BY <1>1, ContinueIs, SyncFacts
<1>10. /\ work'[w].pc = "importing" /\ work'[w].link = work[w].link /\ work'[w].issue = work[w].issue
       /\ work'[w].gh = work[w].gh
  BY <1>9, WorkFacts DEF Moves, Jobs
<1>11. TimeInv(w)' BY <1>1, <1>10, WorkFacts DEF TimeInv
<1>12. JobInv(w)' BY <1>2, <1>6, <1>10 DEF JobInv, Bound, Behind
<1> QED BY <1>1, <1>7, <1>8, <1>9, <1>11, <1>12, WorkerKeeps, SyncFacts

LEMMA ImportRefusedKeeps == ASSUME SInv, NEW w \in Services, ImportRefused(w) PROVE SInv'
<1>1. /\ UNCHANGED <<taskVars, repo, issue, edits, link, faults>> /\ Leave(w) /\ webhooks' \subseteq webhooks
  BY DEF ImportRefused
<1>2. Moves(w, NoJob) BY <1>1, LeaveIs, SyncFacts
<1>3. JobInv(w)' /\ TimeInv(w)' BY <1>1, <1>2, LeftKnows, SyncFacts
<1> QED BY <1>1, <1>2, <1>3, ThinkerKeeps, SyncFacts

LEMMA ImportedKeeps == ASSUME SInv, NEW w \in Services, Imported(w) PROVE SInv'
<1> DEFINE t == req[w].task
           time == work[w].issue.at
           version == req[w].row.version
           r == [NoJob EXCEPT !.pc = "create", !.job = work[w].job, !.task = t, !.gh = time, !.tv = version]
<1>1. /\ UNCHANGED <<tasks, graph, held, repo, issue, edits, webhooks, link, faults>> /\ work[w].pc = "importing"
      /\ work' = [work EXCEPT ![w] = r] /\ Done(w) /\ UNCHANGED events
  BY Deaf DEF Imported, quiet, Is
<1>2. w \in Clients /\ req[w].pc = "created" /\ Behind(version, t) /\ work[w].issue # None
  BY <1>1, WorkFacts, SyncFacts DEF JobInv
<1>3. t \in Tasks /\ version \in Nat
  BY <1>2, SyncFacts DEF SInv, TaskInv, Inv, Named, Requests, Rows
<1>4. time \in Nat /\ time <= issue.at BY <1>2, WorkFacts DEF TimeInv, Issues
<1> HIDE DEF t, time, version
<1>5. /\ r \in Jobs /\ r.pc = "create" /\ r.task = t /\ r.gh = time /\ r.tv = version /\ r.issue = None
      /\ r.link.gh = 0
  <2>1. r.pc = "create" /\ r.task = t /\ r.gh = time /\ r.tv = version /\ r.issue = None /\ r.link.gh = 0
    BY DEF NoJob, NoLink
  <2> QED BY <1>3, <1>4, <2>1, WorkFacts, NoJobTyped DEF Jobs
<1> HIDE DEF r
<1>6. Moves(w, r) BY <1>1, <1>5, MovesTo, SyncFacts
<1>7. work'[w] = r BY <1>6 DEF Moves
<1>8. TimeInv(w)' BY <1>1, <1>4, <1>5, <1>7, SyncFacts DEF TimeInv
<1>9. JobInv(w)' BY <1>1, <1>2, <1>3, <1>5, <1>7 DEF JobInv, Bound, Behind
<1>10. TaskStep /\ \A v \in Services : v # w => req'[v] = req[v] BY <1>1, <1>2, DoneIs, SyncFacts
<1> QED BY <1>1, <1>6, <1>8, <1>9, <1>10, WorkerKeeps, SyncFacts

LEMMA CrashKeeps == ASSUME SInv, NEW w \in Services, Crash(w) PROVE SInv'
<1>1. /\ UNCHANGED <<tasks, graph, held, events, issue, edits, webhooks, link, repo>> /\ Leave(w) /\ Done(w)
      /\ faults' = faults - 1 /\ faults > 0
  BY DEF Crash, Fault
<1>2. faults' \in Nat /\ w \in Clients BY <1>1, SyncFacts
<1>3. TaskStep /\ \A v \in Services : v # w => req'[v] = req[v] BY <1>1, <1>2, DoneIs, SyncFacts
<1>4. Moves(w, NoJob) BY <1>1, LeaveIs, SyncFacts
<1>5. JobInv(w)' /\ TimeInv(w)' BY <1>1, <1>4, LeftKnows, SyncFacts
<1> QED BY <1>1, <1>2, <1>3, <1>4, <1>5, WorkerKeeps, SyncFacts

LEMMA UserDiesKeeps == ASSUME SInv, NEW c \in Users, UserDies(c) PROVE SInv'
<1>1. /\ UNCHANGED <<tasks, graph, held, events, issue, edits, webhooks, link, work, repo>> /\ Done(c)
      /\ faults' = faults - 1 /\ faults > 0
  BY DEF UserDies, Die, Fault
<1>2. faults' \in Nat /\ c \in Clients /\ c \notin Services BY <1>1, SyncFacts, TasksAssumption
<1>3. TaskStep /\ \A v \in Services : req'[v] = req[v] BY <1>1, <1>2, DoneIs, SyncFacts
<1> QED BY <1>1, <1>2, <1>3, OutsideKeeps, SyncFacts

LEMMA LoseRequestKeeps == ASSUME SInv, NEW w \in Services, LoseRequest(w) PROVE SInv'
<1>1. UNCHANGED events BY Deaf DEF LoseRequest
<1>2. /\ UNCHANGED <<tasks, graph, held, issue, edits, webhooks, link, repo>> /\ Continue(w, "patch") /\ Done(w)
      /\ faults' = faults - 1 /\ faults > 0 /\ work[w].pc = "patching"
  BY DEF LoseRequest, Fault, Is
<1>3. faults' \in Nat /\ w \in Clients BY <1>2, SyncFacts
<1>4. TaskStep /\ \A v \in Services : v # w => req'[v] = req[v] BY <1>1, <1>2, <1>3, DoneIs, SyncFacts
<1>5. Moves(w, [work[w] EXCEPT !.pc = "patch"]) BY <1>2, ContinueIs, SyncFacts
<1>6. TaskInv' /\ Grows => JobInv(w)' /\ TimeInv(w)' BY <1>2, <1>5, PatchingKnows DEF Moves
<1> QED BY <1>2, <1>3, <1>4, <1>5, <1>6, WorkerKeeps, SyncFacts

\* What is written to the link is not ahead, and about the same task.
LEMMA WriterKeeps ==
  ASSUME SInv, NEW w \in Services, Processed(w) \/ (Leave(w) /\ UNCHANGED <<webhooks, events, faults>>),
         UNCHANGED <<tasks, graph, held, req, issue, edits, repo>>,
         link' \in Links, link'.task \in Tasks, link.task \in Tasks => link'.task = link.task,
         link'.gh <= issue.at, Behind(link'.tv, link'.task)
  PROVE  SInv'
<1>1. Leave(w) BY DEF Processed
<1>2. webhooks' \subseteq webhooks /\ events' \subseteq events /\ faults' \in Nat
  BY SyncFacts DEF Processed, Fault
<1>3. Moves(w, NoJob) BY <1>1, LeaveIs, SyncFacts
<1>4. JobInv(w)' /\ TimeInv(w)' BY <1>3, LeftKnows, SyncFacts
<1>5. TaskStep BY <1>2 DEF TaskStep
<1>6. TaskInv' /\ Grows BY <1>5, TaskStepKeeps DEF SInv
<1>7. SyncTypeOK' BY <1>2, <1>3, <1>6 DEF SInv, SyncTypeOK, Moves, TaskInv, Inv
<1>8. Further BY <1>6, SyncFacts DEF Further
<1>9. LinkInv' BY DEF LinkInv, Behind
<1>10. \A v \in Services : v # w => work'[v] = work[v] /\ req'[v] = req[v] BY <1>3 DEF Moves
<1>11. link'.gh <= issue'.at /\ \A h \in webhooks' : h \in webhooks BY <1>2
<1> QED BY <1>4, <1>6, <1>7, <1>8, <1>9, <1>10, <1>11, Assemble

LEMMA CreateLinkKeeps == ASSUME SInv, NEW w \in Services, CreateLink(w) PROVE SInv'
<1>1. UNCHANGED <<tasks, graph, held, req, issue, edits, repo>> /\ work[w].pc = "create" BY DEF CreateLink, Is
<1>2. CASE Linked
  <2>1. Leave(w) /\ UNCHANGED <<taskVars, repo, issue, edits, webhooks, link, faults>>
    BY <1>1, <1>2 DEF CreateLink, taskVars
  <2> QED BY <2>1, LeaveKeeps
<1>3. CASE ~Linked
  <2>1. link' = [task |-> work[w].task, state |-> "in_sync", gh |-> work[w].gh, tv |-> work[w].tv] /\ Processed(w)
    BY <1>3 DEF CreateLink
  <2>2. work[w].task \in Tasks /\ Behind(work[w].tv, work[w].task) /\ work[w].gh <= issue.at
    BY <1>1, WorkFacts DEF JobInv, TimeInv
  <2>3. link' \in Links /\ link'.task = work[w].task /\ link'.gh = work[w].gh /\ link'.tv = work[w].tv
    BY <2>1, <2>2, WorkFacts DEF Links
  <2>4. link.task \notin Tasks BY <1>3, SyncFacts
  <2> QED BY <1>1, <2>1, <2>2, <2>3, <2>4, WriterKeeps
<1> QED BY <1>2, <1>3

LEMMA SaveLinkKeeps == ASSUME SInv, NEW w \in Services, SaveLink(w) PROVE SInv'
<1>1. /\ UNCHANGED <<tasks, graph, held, req, issue, edits, repo>> /\ work[w].pc = "save" /\ Processed(w)
      /\ link' = [link EXCEPT !.state = "in_sync", !.gh = work[w].gh, !.tv = work[w].tv]
  BY DEF SaveLink, Is
<1>2. link.task \in Tasks /\ Behind(work[w].tv, link.task) /\ work[w].gh <= issue.at
  BY <1>1, WorkFacts DEF JobInv, TimeInv, Bound
<1>3. link' \in Links /\ link'.task = link.task /\ link'.gh = work[w].gh /\ link'.tv = work[w].tv
  BY <1>1, WorkFacts, SyncFacts DEF Links
<1> QED BY <1>1, <1>2, <1>3, WriterKeeps

LEMMA WriteLinkKeeps == ASSUME SInv, NEW w \in Services, WriteLink(w) PROVE SInv'
<1> DEFINE row == work[w].link
<1>1. /\ UNCHANGED <<tasks, graph, held, req, issue, edits, repo>> /\ work[w].pc = "write"
      /\ Processed(w) \/ (Leave(w) /\ UNCHANGED <<webhooks, events, faults>>)
      /\ link' = IF work[w].set = "tv" THEN [row EXCEPT !.tv = work[w].tv] ELSE [row EXCEPT !.state = work[w].set]
  BY DEF WriteLink, Is
<1>2. /\ link.task \in Tasks /\ row.task = link.task /\ row.gh <= issue.at /\ row \in Links
      /\ Behind(row.tv, link.task) /\ Behind(work[w].tv, link.task)
      /\ work[w].set \in {"error", "tv", "pending"}
  BY <1>1, WorkFacts DEF JobInv, TimeInv, Bound
<1> HIDE DEF row
<1>3. link' \in Links /\ link'.task = link.task /\ link'.gh <= issue.at /\ Behind(link'.tv, link.task)
  <2>1. CASE work[w].set = "tv"
    <3>1. link' = [row EXCEPT !.tv = work[w].tv] BY <1>1, <2>1
    <3>2. link' \in Links /\ link'.task = row.task /\ link'.gh = row.gh /\ link'.tv = work[w].tv
      BY <1>2, <3>1, WorkFacts DEF Links
    <3> QED BY <1>2, <3>2
  <2>2. CASE work[w].set # "tv"
    <3>1. link' = [row EXCEPT !.state = work[w].set] BY <1>1, <2>2
    <3>2. link' \in Links /\ link'.task = row.task /\ link'.gh = row.gh /\ link'.tv = row.tv
      BY <1>2, <2>2, <3>1 DEF Links
    <3> QED BY <1>2, <3>2
  <2> QED BY <2>1, <2>2
<1> QED BY <1>1, <1>2, <1>3, WriterKeeps

-----------------------------------------------------------------------------
(* The results.                                                             *)

LEMMA SInvInit == SyncInit => SInv
<1> SUFFICES ASSUME SyncInit PROVE SInv OBVIOUS
<1>1. PICK t \in {CHOOSE u \in Tasks : TRUE}, b \in Titles \ TooLong, start \in Starts,
           a \in {CHOOSE s \in Titles \ TooLong : TRUE} \cup TooLong :
       /\ (a = b) = start.agree /\ checkTitle(a) = ~start.long /\ repo = [direction |-> start.direction, origin |-> start.origin]
       /\ issue = [title |-> a, state |-> "open", marker |-> None, at |-> 1]
       /\ tasks = [u \in Tasks |-> IF start.linked /\ u = t
                     THEN [life |-> "live", title |-> b, status |-> "todo", origin |-> "internal", version |-> 1]
                     ELSE NoRow]
       /\ link = IF start.linked THEN [task |-> t, state |-> "pending", gh |-> 1, tv |-> None] ELSE NoLink
       /\ edits = start.edits /\ faults = start.faults
       /\ webhooks = IF start.linked THEN {} ELSE {[n |-> edits, issue |-> issue]}
  BY Zenon DEF SyncInit
<1>2. /\ deps = [u \in Tasks |-> {}] /\ overtaken = {} /\ raced = {} /\ events = {}
      /\ held = [c \in Clients |-> Unread] /\ req = [c \in Clients |-> NoRequest]
      /\ work = [w \in Services |-> NoJob]
  BY DEF SyncInit
<1>3. t \in Tasks /\ a \in Titles /\ b \in Titles BY SyncAssumption, TasksAssumption
<1>4. /\ start.direction \in Directions /\ start.origin \in {"internal", "github"}
      /\ start.edits \subseteq {"title", "state"} /\ start.faults \in Nat
  BY SyncAssumption
<1> DEFINE row == [life |-> "live", title |-> b, status |-> "todo", origin |-> "internal", version |-> 1]
<1>5. row \in Rows /\ row.title = b /\ row.life = "live" /\ row.version = 1 BY <1>3 DEF Rows, Statuses
<1>6. \A u \in Tasks : tasks[u] = row \/ tasks[u] = NoRow BY <1>1
<1> HIDE DEF row
<1>7. issue \in Issues /\ issue.at = 1 BY <1>1, <1>3 DEF Issues
<1>8. link \in Links /\ link.gh <= 1 /\ (link = NoLink \/ link.task \in Tasks) /\ link.tv = None
  BY <1>1, <1>3 DEF Links, NoLink
<1>9. TasksTypeOK
  <2>1. tasks \in [Tasks -> Rows] BY <1>1, <1>5, <1>6, NoRowTyped
  <2>2. Unread \in [task : Tasks \cup {None}, row : Rows] BY NoRowTyped DEF Unread
  <2> QED BY <1>2, <2>1, <2>2, NoRowTyped DEF TasksTypeOK
<1>10. webhooks \subseteq Webhooks /\ \A h \in webhooks : h.issue.at <= issue.at
  BY <1>1, <1>4, <1>7 DEF Webhooks
<1>11. SyncTypeOK
  <2>1. repo \in [direction : Directions, origin : {"internal", "github"}] BY <1>1, <1>4
  <2>2. work \in [Services -> Jobs] BY <1>2, NoJobTyped
  <2> QED BY <1>1, <1>4, <1>7, <1>8, <1>9, <1>10, <2>1, <2>2 DEF SyncTypeOK
<1>12. Inv
  <2>1. NoRequest.pc = "idle" /\ Unread.task = None /\ NoRow.life = "none" BY DEF NoRequest, Unread, NoRow
  <2>2. Named /\ SeenRows /\ Checked BY <1>2, <2>1 DEF Named, SeenRows, Checked
  <2>3. Blank BY <1>5, <1>6 DEF Blank
  <2> QED BY <1>9, <2>2, <2>3 DEF Inv
<1>13. Titled
  <2>1. NoRow.life = "none" BY DEF NoRow
  <2> QED BY <1>5, <1>6, <2>1 DEF Titled
<1>14. ASSUME NEW w \in Services PROVE JobInv(w) /\ TimeInv(w)
  <2>1. /\ work[w].pc = "idle" /\ work[w].gh = 0 /\ work[w].link.gh = 0 /\ work[w].issue = None
    BY <1>2 DEF NoJob, NoLink
  <2> QED BY <1>7, <2>1 DEF JobInv, TimeInv, Bound
<1>15. LinkInv BY <1>8 DEF LinkInv, Behind
<1>16. IssueInv BY <1>7, <1>8, <1>10, <1>14 DEF IssueInv
<1> QED BY <1>11, <1>12, <1>13, <1>14, <1>15, <1>16 DEF SInv, TaskInv

LEMMA SyncNextParts ==
  ASSUME SyncNext
  PROVE  \/ EditIssue \/ StartReconcile \/ FindLink \/ Compare
         \/ \E h \in webhooks : TakeWebhook(h)
         \/ \E e \in events : TakeEvent(e)
         \/ \E c \in Users : EditTask(c) \/ UserDies(c)
         \/ \E w \in Services : Step(w) \/ Crash(w) \/ LoseRequest(w) \/ Outage(w)
<1>1. Drain \in Services /\ Alarm \in Services BY SyncAssumption
<1> QED BY <1>1 DEF SyncNext, DrainStep, AlarmStep, Trouble

LEMMA StepKeeps == ASSUME SInv, NEW w \in Services, Step(w) PROVE SInv'
  BY ReadTaskKeeps, TaskGoneKeeps, ReadIssueKeeps, PushKeeps, PatchKeeps, PatchingKeeps, ImportKeeps, ImportRefusedKeeps,
     ImportedKeeps, CreateLinkKeeps, CloseKeeps, SaveLinkKeeps, ReadLinkKeeps, WriteLinkKeeps
  DEF Step

LEMMA SInvStep == SInv /\ [SyncNext]_vars => SInv'
<1> SUFFICES ASSUME SInv, [SyncNext]_vars PROVE SInv' OBVIOUS
<1>1. CASE SyncNext
  BY <1>1, SyncNextParts, EditIssueKeeps, StartReconcileKeeps, FindLinkKeeps, CompareKeeps, TakeWebhookKeeps,
     TakeEventKeeps, EditTaskKeeps, UserDiesKeeps, StepKeeps, CrashKeeps, LoseRequestKeeps, OutageKeeps
<1>2. CASE UNCHANGED vars
  <2>1. UNCHANGED <<tasks, graph, held, req, events, repo, issue, edits, webhooks, link, work, faults>>
    BY <1>2 DEF vars, taskVars
  <2>2. TaskStep BY <2>1 DEF TaskStep
  <2> QED BY <2>1, <2>2, OutsideKeeps, SyncFacts
<1> QED BY <1>1, <1>2

\* Whatever a delivery, an alarm, a person or a fault does, the state of the
\* engine and of both sides keeps its shape: a worker holds rows of the tables
\* and snapshots of the issue, never half of one.
THEOREM SyncTypeCorrect == SyncSpec => []SyncTypeOK
<1>1. SInv => SyncTypeOK BY DEF SInv
<1> QED BY <1>1, SInvInit, SInvStep, PTL DEF SyncSpec

\* The link never remembers a time of the issue or a version of the task that
\* has not been: links.update and links.create, however late and in whatever
\* order drain and alarm reach them, write what was true when it was read.
THEOREM LinkNeverAhead == SyncSpec => []NeverAhead
<1>1. SInv => NeverAhead BY DEF SInv, NeverAhead, IssueInv, LinkInv, Linked, Behind
<1> QED BY <1>1, SInvInit, SInvStep, PTL DEF SyncSpec

\* Who writes a task, and who the link.
LEMMA TaskWriters == ASSUME SInv, SyncNext PROVE TaskStep \/ UNCHANGED tasks
<1>1. ASSUME NEW c \in Users, EditTask(c) PROVE TaskStep \/ UNCHANGED tasks
  <2>1. c \in Clients BY DEF Clients
  <2> QED BY <1>1, <2>1 DEF EditTask, ArchiveRead, PatchRead, TaskStep, TasksNext
<1>2. ASSUME NEW w \in Services, Step(w) PROVE TaskStep \/ UNCHANGED tasks
  <2>1. w \in Clients BY DEF Clients
  <2>2. ASSUME Patching(w) PROVE TaskStep \/ UNCHANGED tasks
    BY <2>1, <2>2 DEF Patching, TaskStep, TasksNext, Proceed
  <2>3. ASSUME Import(w) PROVE TaskStep \/ UNCHANGED tasks
    <3>1. work[w].issue.title \in Titles BY <2>3, WorkFacts DEF Import, Is, JobInv, Issues
    <3> QED BY <2>3, <3>1 DEF Import, TaskStep, TasksNext
  <2> QED BY <1>2, <2>2, <2>3
      DEF Step, ReadTask, TaskGone, ReadIssue, Push, Patch, PatchRead, ImportRefused, Imported, CreateLink, Close, SaveLink, ReadLink,
          WriteLink, taskVars
<1>3. ASSUME NEW w \in Services, Crash(w) \/ LoseRequest(w) \/ Outage(w) PROVE UNCHANGED tasks
  BY <1>3 DEF Crash, LoseRequest, Outage, taskVars
<1> QED BY <1>1, <1>2, <1>3, SyncNextParts
    DEF EditIssue, StartReconcile, FindLink, Compare, TakeWebhook, TakeEvent, Handle, UserDies, Die, taskVars

\* The engine's own writes keep to TASK_STATUS_TRANSITIONS as well: a PATCH sent
\* again after its answer was lost, or for a snapshot long out of date, moves no
\* status where assertStatusTransition would not let a user move it.
THEOREM SyncFollowsTable == SyncSpec => StatusFollowsTable
<1>1. SInv /\ [SyncNext]_vars => [\A t \in Tasks : MayBecome(tasks[t], tasks'[t].status)]_taskVars
  <2> SUFFICES ASSUME SInv, [SyncNext]_vars PROVE [\A t \in Tasks : MayBecome(tasks[t], tasks'[t].status)]_taskVars
    OBVIOUS
  <2>1. CASE SyncNext
    <3>1. CASE TaskStep BY <3>1, StatusKept DEF SInv
    <3>2. CASE UNCHANGED tasks BY <3>2 DEF MayBecome, Alters
    <3> QED BY <2>1, <3>1, <3>2, TaskWriters
  <2>2. CASE UNCHANGED vars BY <2>2 DEF vars
  <2> QED BY <2>1, <2>2
<1> QED BY <1>1, SInvInit, SInvStep, PTL DEF SyncSpec, StatusFollowsTable

\* The link, once made, names one task.
LinkStays == [][Linked => link'.task = link.task]_vars

\* A link once made stays, and with its task: two imports of one issue leave two
\* tasks but one link, and no write of a row read earlier brings another one back.
THEOREM LinkStaysWithTask == SyncSpec => LinkStays
<1>1. SInv /\ [SyncNext]_vars => [Linked => link'.task = link.task]_vars
  <2> SUFFICES ASSUME SInv, [SyncNext]_vars, Linked PROVE link'.task = link.task OBVIOUS
  <2>1. ASSUME NEW w \in Services, Step(w) PROVE link'.task = link.task
    <3>1. ASSUME SaveLink(w) PROVE link'.task = link.task
      BY <3>1, SyncFacts DEF SaveLink, Links
    <3>2. ASSUME WriteLink(w) PROVE link'.task = link.task
      <4>1. work[w].link.task = link.task /\ work[w].link \in Links
        BY <3>2, WorkFacts DEF WriteLink, Is, JobInv
      <4> QED BY <3>2, <4>1 DEF WriteLink, Links
    <3> QED BY <2>1, <3>1, <3>2
        DEF Step, ReadTask, TaskGone, ReadIssue, Push, Patch, Patching, Import, ImportRefused, Imported, CreateLink, Close,
            ReadLink, quiet
  <2>2. ASSUME NEW w \in Services, Crash(w) \/ LoseRequest(w) \/ Outage(w) PROVE link' = link
    BY <2>2 DEF Crash, LoseRequest, Outage
  <2>3. CASE SyncNext
    BY <2>1, <2>2, <2>3, SyncNextParts
    DEF EditIssue, StartReconcile, FindLink, Compare, TakeWebhook, TakeEvent, UserDies, EditTask, sync, quiet
  <2>4. CASE UNCHANGED vars BY <2>4 DEF vars
  <2> QED BY <2>3, <2>4
<1> QED BY <1>1, SInvInit, SInvStep, PTL DEF SyncSpec, LinkStays
=============================================================================
