--------------------------- MODULE MCActivitySync ---------------------------
EXTENDS ActivitySync, TLC

CONSTANTS r1, p1, c1, c2

MCShows == [f \in Filters |-> Payloads]

\* Calls are interchangeable.
Symmetry == Permutations(Calls)
=============================================================================
