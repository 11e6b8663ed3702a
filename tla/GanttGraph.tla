----------------------------- MODULE GanttGraph -----------------------------
(***************************************************************************)
(* packages/gantt-calc, graph.ts: the topological sort the schedule rests   *)
(* on (Kahn, smallest ready id first) and the search for cycles (Tarjan)    *)
(* that task-service asks before it stores a dependency.  Each iteration of *)
(* a loop, and each call and return of the recursion, is an action.         *)
(*                                                                         *)
(* Ids are numbers in the order of the strings.  The sorted array of ready  *)
(* ids is the set of them, of which the least is taken; the indegree of an  *)
(* id is the set of dependencies it counts.                                *)
(***************************************************************************)
EXTENDS GanttCalendar, Sequences

CONSTANTS
  Ids,     \* every id a request may name
  Inputs,  \* the requests explored
  None

Kinds == {"FS", "SS", "FF", "SF"}
Dependencies == [task : Ids, on : Ids, kind : Kinds, lag : Int]

\* ask: computeSchedule (which throws) or validateDependencies (which reports).
ASSUME IdsAssumption == Ids \subseteq Nat /\ IsFiniteSet(Ids) /\ None \notin Int
ASSUME InputsAssumption ==
  \A x \in Inputs :
    /\ x.ask \in {"schedule", "validate"} /\ x.tasks \in SUBSET Ids
    /\ x.deps \in Seq(Dependencies)
    /\ x.duration \in [Ids -> Int] /\ x.start \in [Ids -> Int \cup {None}]
    /\ x.calendar = None \/ IsCalendar(x.calendar)

VARIABLES
  input,    \* the request
  pc,       \* the loop that runs
  waiting,  \* of each task: its dependencies on tasks not yet in the order
  ready,    \* tasks not in the order that wait for nothing
  order,    \* topological order so far
  nodes,    \* the tasks searched for cycles
  idx, low, \* Tarjan's numbers
  stack,    \* Tarjan's stack
  calls,    \* calls of strongconnect: [node, left: successors to look at]
  cycles    \* what findCycles returns

sorting == <<waiting, ready, order>>
searching == <<nodes, idx, low, stack, calls, cycles>>
graph == <<input, pc, sorting, searching>>

Tasks == input.tasks
Deps == input.deps
Places == DOMAIN Deps
Elements(s) == {s[i] : i \in DOMAIN s}
Known(k) == Deps[k].task \in Tasks /\ Deps[k].on \in Tasks
Self(k) == Deps[k].task = Deps[k].on
Less(a, b) == IF a < b THEN a ELSE b

\* findCycles starts on tasks V: the self-dependencies come first.
Search(V) ==
  /\ pc' = "search" /\ nodes' = V
  /\ cycles' = {<<Deps[k].task>> : k \in {j \in Places : Known(j) /\ Self(j) /\ Deps[j].task \in V}}
  /\ idx' = [v \in Ids |-> None] /\ low' = [v \in Ids |-> None] /\ stack' = << >> /\ calls' = << >>

GraphInit ==
  /\ input \in Inputs /\ pc = "start"
  /\ waiting = [t \in Ids |-> {}] /\ ready = {} /\ order = << >>
  /\ nodes = {} /\ idx = [v \in Ids |-> None] /\ low = [v \in Ids |-> None]
  /\ stack = << >> /\ calls = << >> /\ cycles = {}

\* validateDependencies: unknown ids are reported beside the cycles of the known.
Validate ==
  /\ pc = "start" /\ input.ask = "validate"
  /\ Search(Tasks) /\ UNCHANGED <<input, sorting>>

\* assertKnownRefs.
Refuse ==
  /\ pc = "start" /\ input.ask = "schedule" /\ \E k \in Places : ~Known(k)
  /\ pc' = "unknown" /\ UNCHANGED <<input, sorting, searching>>

\* A self-dependency throws before anything is sorted.
SelfCycle ==
  /\ pc = "start" /\ input.ask = "schedule" /\ \A k \in Places : Known(k)
  /\ \E k \in Places :
       /\ Self(k) /\ \A j \in 1..(k - 1) : ~Self(j)
       /\ cycles' = {<<Deps[k].task>>}
  /\ pc' = "cycle" /\ UNCHANGED <<input, sorting, nodes, idx, low, stack, calls>>

Build ==
  /\ pc = "start" /\ input.ask = "schedule" /\ \A k \in Places : Known(k) /\ ~Self(k)
  /\ waiting' = [t \in Ids |-> {k \in Places : Deps[k].task = t}]
  /\ ready' = {t \in Tasks : \A k \in Places : Deps[k].task # t}
  /\ pc' = "sort" /\ UNCHANGED <<input, order, searching>>

Bug_ReleasesEarly(id) ==
  /\ waiting' = [t \in Ids |-> waiting[t] \ {k \in Places : Deps[k].on = id}]
  /\ ready' = (ready \ {id}) \cup {t \in Tasks : waiting'[t] # waiting[t]}
\* The successors of id lose an indegree; those that reach zero are ready.
Release(id) ==
  /\ waiting' = [t \in Ids |-> waiting[t] \ {k \in Places : Deps[k].on = id}]
  /\ ready' = (ready \ {id}) \cup {t \in Tasks : waiting[t] # {} /\ waiting'[t] = {}}

Pop ==
  /\ pc = "sort"
  /\ \E id \in ready :
       /\ \A r \in ready : id <= r
       /\ order' = Append(order, id) /\ Release(id)
  /\ UNCHANGED <<input, pc, searching>>

Sorted ==
  /\ pc = "sort" /\ ready = {} /\ Len(order) = Cardinality(Tasks)
  /\ pc' = "sorted" /\ UNCHANGED <<input, sorting, searching>>

\* Tasks are left over: the error names the cycles among them.
Unsorted ==
  /\ pc = "sort" /\ ready = {} /\ Len(order) # Cardinality(Tasks)
  /\ Search(Tasks \ Elements(order)) /\ UNCHANGED <<input, sorting>>

-----------------------------------------------------------------------------
(* findCycles: strongconnect.                                               *)

Successors(v) == {Deps[k].task : k \in {j \in Places : Known(j) /\ ~Self(j) /\ Deps[j].on = v}} \cap nodes
Visited == {v \in nodes : idx[v] # None}

Enter(v, below) ==
  /\ idx' = [idx EXCEPT ![v] = Cardinality(Visited)]
  /\ low' = [low EXCEPT ![v] = Cardinality(Visited)]
  /\ stack' = Append(stack, v)
  /\ calls' = Append(below, [node |-> v, left |-> Successors(v)])

Root ==
  /\ pc = "search" /\ calls = << >>
  /\ \E v \in nodes \ Visited : (\A u \in nodes \ Visited : v <= u) /\ Enter(v, << >>)
  /\ UNCHANGED <<input, pc, sorting, nodes, cycles>>

Bug_OffStack(v, w) == low' = [low EXCEPT ![v] = Less(@, idx[w])]
BackEdge(v, w) == low' = IF w \in Elements(stack) THEN [low EXCEPT ![v] = Less(@, idx[w])] ELSE low

\* The call at the top looks at its next successor.
Look ==
  /\ pc = "search" /\ calls # << >>
  /\ LET n == Len(calls)
         v == calls[n].node
     IN  \E w \in calls[n].left :
           /\ \A u \in calls[n].left : w <= u
           /\ LET rest == [calls EXCEPT ![n].left = @ \ {w}]
              IN  \/ w \notin Visited /\ Enter(w, rest)
                  \/ w \in Visited /\ BackEdge(v, w) /\ calls' = rest /\ UNCHANGED <<idx, stack>>
  /\ UNCHANGED <<input, pc, sorting, nodes, cycles>>

\* The call at the top is done: a root of a component pops it, and the caller
\* takes over the low number.
Return ==
  /\ pc = "search" /\ calls # << >> /\ calls[Len(calls)].left = {}
  /\ LET n == Len(calls)
         v == calls[n].node
         at == CHOOSE i \in DOMAIN stack : stack[i] = v
         component == SubSeq(stack, at, Len(stack))
     IN  /\ IF low[v] = idx[v]
            THEN /\ stack' = SubSeq(stack, 1, at - 1)
                 /\ cycles' = IF Len(component) > 1 THEN cycles \cup {component} ELSE cycles
            ELSE UNCHANGED <<stack, cycles>>
         /\ calls' = SubSeq(calls, 1, n - 1)
         /\ low' = IF n = 1 THEN low
                   ELSE [low EXCEPT ![calls[n - 1].node] = Less(@, low[v])]
  /\ UNCHANGED <<input, pc, sorting, nodes, idx>>

Searched ==
  /\ pc = "search" /\ calls = << >> /\ Visited = nodes
  /\ pc' = IF input.ask = "schedule" THEN "cycle" ELSE "verdict"
  /\ UNCHANGED <<input, sorting, searching>>

GraphNext ==
  \/ Validate \/ Refuse \/ SelfCycle \/ Build \/ Pop \/ Sorted \/ Unsorted
  \/ Root \/ Look \/ Return \/ Searched

-----------------------------------------------------------------------------
(* Properties.                                                              *)

\* The orders that keep every dependency.
Orders == {p \in [1..Cardinality(Tasks) -> Tasks] :
             /\ Elements(p) = Tasks
             /\ \A k \in Places : \A i, j \in DOMAIN p :
                  p[i] = Deps[k].task /\ p[j] = Deps[k].on => j < i}
Before(p, q) == \E i \in DOMAIN p : p[i] < q[i] /\ \A j \in 1..(i - 1) : p[j] = q[j]

\* "Deterministic Kahn topological sort [...] Ties broken by id asc": the order is
\* the least of all that keep the dependencies, and the sort throws only if there
\* is none (topologicalSort).
OrderIsLeast ==
  /\ pc = "sorted" => order \in Orders /\ \A p \in Orders : p = order \/ Before(order, p)
  /\ pc = "cycle" => Orders = {}

\* v is in every set that holds what depends on u and is closed under dependents.
Reaches(u, v) ==
  \A S \in SUBSET Tasks :
    (\A k \in Places : Known(k) /\ Deps[k].on \in S \cup {u} => Deps[k].task \in S) => v \in S

\* validateDependencies names exactly the tasks that depend on themselves, those
\* of one strongly connected component together (findCycles).
CyclesAreExact ==
  pc = "verdict" =>
    {Elements(c) : c \in cycles} =
      {{t \in Tasks : t = v \/ (Reaches(v, t) /\ Reaches(t, v))} : v \in {u \in Tasks : Reaches(u, u)}}
      \cup {{Deps[k].task} : k \in {j \in Places : Known(j) /\ Self(j)}}
=============================================================================
