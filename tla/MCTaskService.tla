---------------------------- MODULE MCTaskService ---------------------------
(* Small instances of TaskService for TLC.                                      *)
EXTENDS TaskService, TLC

CONSTANTS t1, t2, u1, u2, s1, x, long

TaskSymmetry == Permutations(Tasks) \cup Permutations(Users)
To(status) == [title |-> None, status |-> status]
MCEdits == {To("in_progress"), To("done"), To("cancelled"), [title |-> x, status |-> None], [title |-> long, status |-> None]}

\* A PATCH touches the row of one task, and dependencies touch no status: a
\* behaviour has one task, or dependencies between several, or TLC would explore
\* the product of the two. Bound: events emitted and not yet handled.
Patched ==
  \/ \E t \in Tasks : tasks[t].origin = "github" \/ tasks[t].status # "todo"
  \/ \E c \in Clients : req[c].patch # NoPatch
Several == Cardinality({t \in Tasks : tasks[t].life # "none"}) > 1
MaxEvents == 1
\* Bound: the sync service, whose client has no call for it, replaces no dependencies.
UsersReplace == \A c \in Services : ~At(c, "list")
ApartSpec ==
  TasksInit /\ [][TasksNext /\ (UsersReplace /\ ~(Patched /\ Several) /\ Cardinality(events) <= MaxEvents)']_taskVars
=============================================================================
