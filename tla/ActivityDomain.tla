--------------------------- MODULE ActivityDomain ---------------------------
(***************************************************************************)
(* The fold of the Activity domain, packages/sync-core/src/domains/        *)
(* activity.ts.  A window is a function from row ids to what is held for   *)
(* the row: a live row [version, payload], a tombstone [version, payload   *)
(* |-> Buried], or Unknown (version 0).  The code keeps rows and           *)
(* tombstones in two maps, which stay disjoint: applying a row deletes its *)
(* tombstone and burying a row deletes the row.                            *)
(*                                                                         *)
(* Left out: the order of rows and the window totals, which no frame can   *)
(* get wrong row by row, and readStateUpdated events, which the server     *)
(* does not log.                                                           *)
(***************************************************************************)
EXTENDS Integers

CONSTANTS Rows, Payloads, Buried

Unknown == [version |-> 0, payload |-> Buried]

\* What a scope holds of a row.
Cells == [version : Nat, payload : Payloads \cup {Buried}]

EmptyWindow == [r \in Rows |-> Unknown]

Live(window) == {r \in Rows : window[r].payload # Buried}

\* A row replaces what is held only when strictly newer than the row or than
\* the tombstone; a tombstone also buries a row of its own version.
Newer(held, incoming) ==
    \/ incoming.version > held.version
    \/ /\ incoming.version = held.version
       /\ incoming.version > 0
       /\ incoming.payload = Buried
       /\ held.payload # Buried

\* applyRowsAndTombstones: an event is a partial window, Unknown elsewhere.
ApplyRowsAndTombstones(window, event) ==
    [r \in Rows |-> IF Newer(window[r], event[r]) THEN event[r] ELSE window[r]]

=============================================================================
