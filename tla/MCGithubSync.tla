---------------------------- MODULE MCGithubSync ----------------------------
(* Small instances of GithubSync for TLC: one issue, one user, a few edits.     *)
EXTENDS GithubSyncProofs, TLC

CONSTANTS t1, t2, t3, u1, d, a, x, y, z

To(status) == [title |-> None, status |-> status]
MCEdits == {To("in_progress"), To("done")}
From(di, o, l, g, e, f) ==
  [direction |-> di, origin |-> o, linked |-> l, agree |-> g, long |-> FALSE, edits |-> e, faults |-> f]
MCStarts ==
  {[From("bidirectional", "github", FALSE, FALSE, {"title"}, 0) EXCEPT !.long = TRUE],
   From("bidirectional", "internal", TRUE, TRUE, {"state"}, 1),
   From("bidirectional", "internal", TRUE, FALSE, {"title"}, 0),
   From("bidirectional", "github", FALSE, TRUE, {"state"}, 0),
   From("bidirectional", "github", FALSE, TRUE, {}, 1),
   From("bidirectional", "github", TRUE, TRUE, {"state"}, 0),
   From("github_to_internal", "internal", TRUE, FALSE, {"state"}, 0),
   From("internal_to_github", "internal", TRUE, FALSE, {"state"}, 0)}
=============================================================================
