---------------------------- MODULE GanttSchedule ----------------------------
(***************************************************************************)
(* packages/gantt-calc, schedule.ts: computeSchedule.  On the order that     *)
(* GanttGraph finds, one pass forward gives every task its earliest start   *)
(* and one pass backward its latest finish; each task of a pass is an       *)
(* action.  Days are units: calendar days, or ordinals of working days      *)
(* when a calendar is given; the passes are the same.                       *)
(***************************************************************************)
EXTENDS GanttGraph

CONSTANT Days   \* bound: the days that schedules are compared on
ASSUME DaysAssumption == Days \subseteq Int

VARIABLES
  at,          \* the place in the order the pass has come to
  es,          \* earliestStartDay of each task
  projectEnd,
  lf           \* latestFinishDay of each task

passes == <<at, es, projectEnd, lf>>
vars == <<graph, passes>>

Longer(a, b) == IF a > b THEN a ELSE b
DurationOf(t) == Longer(0, input.duration[t])
EF(t) == es[t] + DurationOf(t)
LS(t) == lf[t] - DurationOf(t)
Slack(t) == LS(t) - es[t]
Predecessors(t) == {k \in Places : Deps[k].task = t}
SuccessorsOf(t) == {k \in Places : Deps[k].on = t}
Greatest(S) == CHOOSE x \in S : \A y \in S : y <= x

Bug_EndsTooEarly(d) ==
  LET on == d.on IN
  CASE d.kind = "SS" -> es[on] + d.lag
    [] d.kind = "FF" -> EF(on) + d.lag - DurationOf(d.task)
    [] d.kind = "SF" -> es[on] + d.lag
    [] OTHER -> EF(on) + d.lag
\* The day before which dependency d does not let its task start.
EsConstraint(d) ==
  LET on == d.on IN
  CASE d.kind = "SS" -> es[on] + d.lag
    [] d.kind = "FF" -> EF(on) + d.lag - DurationOf(d.task)
    [] d.kind = "SF" -> es[on] + d.lag - DurationOf(d.task)
    [] OTHER -> EF(on) + d.lag

Bug_StartsAsFinishes(d) ==
  CASE d.kind = "SS" -> LS(d.task) - d.lag
    [] d.kind = "FF" -> lf[d.task] - d.lag
    [] d.kind = "SF" -> lf[d.task] - d.lag + DurationOf(d.on)
    [] OTHER -> LS(d.task) - d.lag
\* The day after which dependency d does not let the task it is on finish.
LfConstraint(d) ==
  CASE d.kind = "SS" -> LS(d.task) - d.lag + DurationOf(d.on)
    [] d.kind = "FF" -> lf[d.task] - d.lag
    [] d.kind = "SF" -> lf[d.task] - d.lag + DurationOf(d.on)
    [] OTHER -> LS(d.task) - d.lag

\* The mapper: a unit is a day, or an ordinal of the calendar.
Calendar == input.calendar
FromDay(day) == IF Calendar = None THEN day ELSE ToOrdinal(Calendar, day)
ToDay(unit) == IF Calendar = None THEN unit ELSE FromOrdinal(Calendar, unit)

\* A task without a start may begin at the first day any task names, or at day 0.
Starts == {FromDay(input.start[t]) : t \in {u \in Tasks : input.start[u] # None}}
Anchor == IF Starts = {} THEN FromDay(0) ELSE Least(Starts)
StartConstraint(t) == IF input.start[t] = None THEN Anchor ELSE FromDay(input.start[t])

Init ==
  /\ GraphInit
  /\ at = 0 /\ es = [t \in Ids |-> 0] /\ projectEnd = 0 /\ lf = [t \in Ids |-> 0]

\* computeSchedule takes the order that topologicalSort returned.
Begin ==
  /\ pc = "sorted" /\ pc' = "forward" /\ at' = 1
  /\ UNCHANGED <<input, sorting, searching, es, projectEnd, lf>>

Forward ==
  /\ pc = "forward" /\ at <= Len(order)
  /\ LET t == order[at] IN
       es' = [es EXCEPT ![t] =
                Greatest({StartConstraint(t)} \cup {EsConstraint(Deps[k]) : k \in Predecessors(t)})]
  /\ at' = at + 1
  /\ UNCHANGED <<graph, projectEnd, lf>>

Turn ==
  /\ pc = "forward" /\ at > Len(order)
  /\ pc' = "backward" /\ at' = Len(order)
  /\ projectEnd' = IF Tasks = {} THEN Anchor ELSE Greatest({EF(t) : t \in Tasks})
  /\ UNCHANGED <<input, sorting, searching, es, lf>>

Backward ==
  /\ pc = "backward" /\ at >= 1
  /\ LET t == order[at] IN
       lf' = [lf EXCEPT ![t] =
                Least({projectEnd} \cup {LfConstraint(Deps[k]) : k \in SuccessorsOf(t)})]
  /\ at' = at - 1
  /\ UNCHANGED <<graph, es, projectEnd>>

Finish ==
  /\ pc = "backward" /\ at = 0 /\ pc' = "done"
  /\ UNCHANGED <<input, sorting, searching, passes>>

Next ==
  \/ GraphNext /\ UNCHANGED passes
  \/ Begin \/ Forward \/ Turn \/ Backward \/ Finish

Spec == Init /\ [][Next]_vars

-----------------------------------------------------------------------------
(* Properties.                                                              *)

TypeOK ==
  /\ pc \in {"start", "unknown", "cycle", "sort", "sorted", "search", "verdict",
             "forward", "backward", "done"}
  /\ waiting \in [Ids -> SUBSET Places] /\ ready \subseteq Ids /\ order \in Seq(Ids)
  /\ nodes \subseteq Tasks /\ cycles \subseteq Seq(Ids) /\ stack \in Seq(Ids)
  /\ idx \in [Ids -> Nat \cup {None}] /\ low \in [Ids -> Nat \cup {None}]
  /\ calls \in Seq([node : Ids, left : SUBSET Ids])
  /\ at \in Nat /\ es \in [Ids -> Int] /\ projectEnd \in Int /\ lf \in [Ids -> Int]

\* The schedules a project manager could keep: s gives every task its start.
Keeps(s, d) ==
  LET end(t) == s[t] + DurationOf(t) IN
  CASE d.kind = "SS" -> s[d.task] >= s[d.on] + d.lag
    [] d.kind = "FF" -> end(d.task) >= end(d.on) + d.lag
    [] d.kind = "SF" -> end(d.task) >= s[d.on] + d.lag
    [] OTHER -> s[d.task] >= end(d.on) + d.lag
Feasible(s) ==
  /\ \A t \in Tasks : s[t] >= StartConstraint(t)
  /\ \A k \in Places : Keeps(s, Deps[k])

\* Both schedules computeSchedule returns can be kept, the late one ends when the
\* early one does, and no task has less than no slack (forward and backward pass).
BothCanBeKept ==
  pc = "done" =>
    /\ Feasible(es) /\ Feasible([t \in Ids |-> LS(t)])
    /\ \A t \in Tasks : EF(t) <= projectEnd /\ lf[t] <= projectEnd /\ Slack(t) >= 0

\* Every way to schedule the project on the days in view.
Schedules == {s \in [Tasks -> Days] : Feasible(s)}

\* No schedule starts a task before its earliest start, and none that ends by
\* projectEnd starts it after its latest: the slack is exactly how far the task can
\* slip (schedule.ts, rollup's and criticalPath's numbers).
SlackIsExact ==
  pc = "done" =>
    \A s \in Schedules :
      /\ \A t \in Tasks : es[t] <= s[t]
      /\ (\A t \in Tasks : s[t] + DurationOf(t) <= projectEnd) => \A t \in Tasks : s[t] <= LS(t)

\* Under a calendar the dates computeRollup answers with are working days, on which
\* as many working days have passed as the schedule says (counted one by one, from
\* day 0), and no task starts before the day asked for: toOrdinal and fromOrdinal
\* are inverses up to the snapping of a start.
DatesAreWorkingDays ==
  pc = "done" /\ Calendar # None =>
    /\ \A unit \in {es[t] : t \in Tasks} \cup {lf[t] : t \in Tasks} :
         LET day == ToDay(unit) IN
         /\ IsWorkingDay(Calendar, day)
         /\ unit = IF day >= 0 THEN Cardinality({d \in 0..(day - 1) : IsWorkingDay(Calendar, d)})
                   ELSE -Cardinality({d \in day..(-1) : IsWorkingDay(Calendar, d)})
    /\ \A t \in Tasks : input.start[t] # None => ToDay(es[t]) >= input.start[t]
=============================================================================
