-------------------------- MODULE MCActivityServer --------------------------
EXTENDS ActivityServer, TLC

CONSTANTS r1, r2, read, unread

MCShows == [f \in Filters |-> IF f = "unread" THEN {unread} ELSE {read, unread}]

\* Rows are interchangeable: no definition tells one from another.
RowSymmetry == Permutations(Rows)
=============================================================================
