--------------------------- MODULE MCGanttSchedule ---------------------------
(* Small requests for TLC: every graph on three tasks, and every graph without  *)
(* self-dependencies on four, to be sorted and searched for cycles; and          *)
(* projects of two dependencies on three tasks, of every pair of kinds, to be    *)
(* scheduled.                                                                   *)
EXTENDS GanttSchedule, TLC

Dep(task, on, kind, lag) == [task |-> task, on |-> on, kind |-> kind, lag |-> lag]
Ask(ask, deps, tasks) ==
  [ask |-> ask, tasks |-> tasks, deps |-> deps,
   duration |-> [t \in Ids |-> 1], start |-> [t \in Ids |-> None], calendar |-> None]

\* The edges between four ids, and any of them as a list.
Edges == [n \in 1..16 |-> Dep((n - 1) \div 4 + 1, ((n - 1) % 4) + 1, "FS", 0)]
Listed(S) == SelectSeq(Edges, LAMBDA d : <<d.task, d.on>> \in S)
Three == {1, 2, 3}
Asked == {"schedule", "validate"}
Graphs3 == {Ask(ask, Listed(S), Three) : ask \in Asked, S \in SUBSET (Three \X Three)}
Graphs4 == {Ask(ask, Listed(S), Ids) : ask \in Asked, S \in SUBSET {e \in Ids \X Ids : e[1] # e[2]}}
\* Some of the dependencies name a task the request does not hold.
Strangers == {Ask(ask, Listed(S), {2, 3}) : ask \in Asked, S \in SUBSET {<<1, 2>>, <<2, 3>>, <<3, 2>>}}

\* Chains, forks and joins; a negative lag is a lead.
Projects ==
  {[ask |-> "schedule", tasks |-> Three,
    deps |-> <<Dep(shape[1], 1, a, l), Dep(3, shape[2], b, m)>>,
    duration |-> [t \in Ids |-> IF t = 1 THEN c ELSE IF t = 2 THEN 2 ELSE d],
    start |-> [t \in Ids |-> IF t = 1 THEN f ELSE IF t = 3 THEN g ELSE None],
    calendar |-> None] :
   shape \in {<<2, 1>>, <<2, 2>>, <<3, 2>>}, a \in Kinds, b \in Kinds, l \in {-1, 1}, m \in {-1, 1},
   c \in {-1, 1}, d \in {0, 1}, f \in {None, 2}, g \in {None, 2}}

\* The same in working days: one task after another, from a start in the first two
\* weeks, over weekends and holidays (one of them on a Saturday).
Office == {[weekend |-> w, holidays |-> h] :
             w \in {{}, {0, 6}, {0, 2, 6}}, h \in {{}, {1}, {1, 2, 4}, {4, 5, 6, 7}, {8, 20}}}
WorkingProjects ==
  {[ask |-> "schedule", tasks |-> {1, 2}, deps |-> <<Dep(2, 1, "FS", l)>>,
    duration |-> [t \in Ids |-> d], start |-> [t \in Ids |-> IF t = 1 THEN f ELSE None],
    calendar |-> c] : c \in Office, l \in {0, 1}, d \in {0, 1, 6}, f \in {None} \cup 0..13}
\* A start before 1970, and a holiday before it.
OldProjects ==
  {[ask |-> "schedule", tasks |-> {1}, deps |-> << >>,
    duration |-> [t \in Ids |-> 1], start |-> [t \in Ids |-> f],
    calendar |-> [weekend |-> {0, 6}, holidays |-> {-3}]] : f \in -14..-1}

SmallRequests == Graphs3 \cup Graphs4 \cup Strangers \cup Projects \cup WorkingProjects \cup {Ask("schedule", << >>, {})}
SmallDays == -3..6
=============================================================================
