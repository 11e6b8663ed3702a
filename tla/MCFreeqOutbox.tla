--------------------------- MODULE MCFreeqOutbox ---------------------------
(* Small instances of FreeqOutbox for TLC: homes of rows and order of passes.  *)
EXTENDS FreeqOutboxProofs

CONSTANTS m1, m2, core, auth

\* DB_CORE, DB_AUTH and DB_DRIVE, of which the last is the shared dub-core again.
CorePasses == <<core, auth, core>>
AllInCore == [m \in Messages |-> core]
=============================================================================
