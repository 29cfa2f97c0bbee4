--------------------------- MODULE ActivityServer ---------------------------
(***************************************************************************)
(* The server authority of the Activity panel,                             *)
(* packages/server/src/services/activitySyncService.ts, for one principal. *)
(* Every read reconciles: it compares the canonical window of a filter     *)
(* with the rows kept for that filter, gives every change a row version    *)
(* from the counter of the principal, and appends the changes to the log   *)
(* of the filter.  A log that would outgrow its retention is cut by        *)
(* starting a new epoch.                                                   *)
(*                                                                         *)
(* One transaction is one step: it runs at repeatable read, locks the      *)
(* principal and the scope row and is retried on a serialization failure.  *)
(* A digest is the value it is taken of.  The watermark of a scope is the  *)
(* length of its log: both are written together and both start again at    *)
(* an epoch.                                                               *)
(***************************************************************************)
EXTENDS ActivityDomain, Sequences, FiniteSets, SequencesExt, FiniteSetsExt

CONSTANTS
    Filters,        \* windows kept for the principal
    Shows,          \* Shows[f]: the payloads that filter f shows
    Retention,      \* CHANGE_RETENTION
    MaxEdits,       \* bound: changes of the canonical data in a behaviour
    NoRow           \* the row id of a "scope" change

\* One reconciliation fits a log: every row changes once, and the scope.
ASSUME ServerAssumption ==
    /\ Buried \notin Payloads /\ NoRow \notin Rows
    /\ Shows \in [Filters -> SUBSET Payloads]
    /\ IsFiniteSet(Rows) /\ Retention \in Nat /\ Retention > Cardinality(Rows)
    /\ MaxEdits \in Nat

VARIABLES
    world,          \* world[r]: the payload of row r in the canonical data
    totals,         \* a window total that changes without any row of a window
    edits,          \* changes of the canonical data so far
    principal,      \* activity_sync_principal_authorities.row_version
    authority,      \* activity_sync_row_authorities: last version and payload
    rows,           \* rows[f]: activity_sync_rows
    log,            \* log[f]: activity_sync_changes of the current epoch
    epoch, digest   \* activity_sync_scopes

worldVars  == <<world, totals, edits>>
scopeVars  == <<principal, authority, rows, log, epoch, digest>>
serverVars == <<worldVars, scopeVars>>

NoDigest == [none |-> TRUE]

ServerInit ==
    /\ world \in [Rows -> Payloads \cup {Buried}]
    /\ totals = 0
    /\ edits = 0
    /\ principal = 0
    /\ authority = EmptyWindow
    /\ rows = [f \in Filters |-> EmptyWindow]
    /\ log = [f \in Filters |-> <<>>]
    /\ epoch = [f \in Filters |-> 1]
    /\ digest = [f \in Filters |-> NoDigest]

-----------------------------------------------------------------------------
(* The canonical data. *)

\* A message, a read or a removal changes a row.
Edit(r) ==
    /\ edits < MaxEdits
    /\ edits' = edits + 1
    /\ \E p \in (Payloads \cup {Buried}) \ {world[r]} : world' = [world EXCEPT ![r] = p]
    /\ UNCHANGED <<totals, scopeVars>>

\* A change beyond the window shows in its totals only.
EditTotals ==
    /\ edits < MaxEdits
    /\ edits' = edits + 1
    /\ totals' = totals + 1
    /\ UNCHANGED <<world, scopeVars>>

-----------------------------------------------------------------------------
(* reconcileInTransaction *)

\* readCanonicalWindow
Canonical(f) == [r \in Rows |-> IF world[r] \in Shows[f] THEN world[r] ELSE Buried]

Upserts(f) == {r \in Rows : /\ Canonical(f)[r] # Buried
                            /\ rows[f][r].payload # Canonical(f)[r]}

MissingActive(f) == {r \in Rows : /\ Canonical(f)[r] = Buried
                                  /\ rows[f][r].payload # Buried}

\* Mutant: the newest version of the row is reused for any payload.
ReusesAuthorityBlindly(f, r) ==
    /\ Canonical(f)[r] # Buried
    /\ authority[r].payload # Buried
    /\ authority[r].version > rows[f][r].version

\* Another filter has already given this very payload a version.
ReusesAuthority(f, r) ==
    /\ Canonical(f)[r] # Buried
    /\ authority[r].payload = Canonical(f)[r]
    /\ authority[r].version > rows[f][r].version

\* Changed rows in the order they are versioned: upserts, then tombstones.
Orders(f) == {up \o gone : up \in SetToSeqs(Upserts(f)), gone \in SetToSeqs(MissingActive(f))}

Fresh(f, order, n) == Cardinality({i \in 1..n : ~ReusesAuthority(f, order[i])})

\* The row and tombstone changes, each with its version.
RowChanges(f, order) ==
    [i \in DOMAIN order |->
        [row  |-> order[i],
         cell |-> [payload |-> Canonical(f)[order[i]],
                   version |-> IF ReusesAuthority(f, order[i])
                               THEN authority[order[i]].version
                               ELSE principal + Fresh(f, order, i)]]]

\* Mutant: nextRowVersion forgets to store the version it hands out.
PrincipalAfterLost(f, order) == principal

PrincipalAfter(f, order) == principal + Fresh(f, order, Len(order))

\* The last change of every row in a list of changes.
LatestByRow(changes) ==
    [r \in Rows |-> LET at == {i \in DOMAIN changes : changes[i].row = r}
                    IN  IF at = {} THEN Unknown ELSE changes[Max(at)].cell]

\* A window after some changes to it.
Replay(window, changes) ==
    LET latest == LatestByRow(changes)
    IN  [r \in Rows |-> IF latest[r] = Unknown THEN window[r] ELSE latest[r]]

ScopeChange == [row |-> NoRow, cell |-> Unknown]

ScopeFact(f, window) ==
    [rows |-> Canonical(f), totals |-> totals,
     tombstones |-> {<<r, window[r].version>> : r \in Rows \ Live(window)}]

WithoutTombstones(window) ==
    [r \in Rows |-> IF window[r].payload = Buried THEN Unknown ELSE window[r]]

\* What a reconciliation of f appends, for one order of the changed rows.
Pending(f, order) ==
    LET changes == RowChanges(f, order)
        fact    == ScopeFact(f, Replay(rows[f], changes))
    IN  IF digest[f] # fact THEN Append(changes, ScopeChange) ELSE changes

\* Mutant: the changes about to be appended are not counted.
RollsOverLate(f, pending) == pending # <<>> /\ Len(log[f]) > Retention

RollsOver(f, pending) == pending # <<>> /\ Len(log[f]) + Len(pending) > Retention

\* Mutant: the log is cut without starting an epoch.
NextEpochSame(f, pending) == epoch[f]

NextEpoch(f, pending) == IF RollsOver(f, pending) THEN epoch[f] + 1 ELSE epoch[f]

Reconcile(f, order) ==
    LET changes == RowChanges(f, order)
        pending == Pending(f, order)
        cut     == RollsOver(f, pending)
        after   == Replay(rows[f], changes)
        kept    == IF cut THEN WithoutTombstones(after) ELSE after
    IN  /\ principal' = PrincipalAfter(f, order)
        /\ authority' = Replay(authority, changes)
        /\ rows' = [rows EXCEPT ![f] = kept]
        /\ log' = [log EXCEPT ![f] = IF cut THEN pending ELSE @ \o pending]
        /\ epoch' = [epoch EXCEPT ![f] = NextEpoch(f, pending)]
        /\ digest' = [digest EXCEPT ![f] =
                         IF pending = <<>> THEN @ ELSE ScopeFact(f, kept)]
        /\ UNCHANGED worldVars

-----------------------------------------------------------------------------
ServerNext ==
    \/ \E r \in Rows : Edit(r)
    \/ EditTotals
    \/ \E f \in Filters : \E order \in Orders(f) : Reconcile(f, order)

ServerSpec == ServerInit /\ [][ServerNext]_serverVars

-----------------------------------------------------------------------------
(* Properties. *)

\* The state is well formed; no log outgrows its retention.
ServerTypeOK ==
    /\ world \in [Rows -> Payloads \cup {Buried}]
    /\ totals \in Nat /\ edits \in 0..MaxEdits /\ principal \in Nat
    /\ authority \in [Rows -> Cells]
    /\ rows \in [Filters -> [Rows -> Cells]]
    /\ log \in [Filters -> Seq([row : Rows \cup {NoRow}, cell : Cells])]
    /\ \A f \in Filters : Len(log[f]) <= Retention
    /\ epoch \in [Filters -> Nat \ {0}]

\* A version of a row names one fact in every window of the principal: two
\* filters that report the same row and version report the same payload, also
\* when one took the version from the row authorities of the other
\* (activitySyncService.ts:617-644).
VersionNamesOneFact ==
    \A f, g \in Filters : \A i \in DOMAIN log[f], j \in DOMAIN log[g] :
        LET a == log[f][i]
            b == log[g][j]
        IN  (a.row = b.row /\ a.cell.version = b.cell.version) => a.cell = b.cell

\* Within a log the versions of a row only grow, tombstones included, so that a
\* reader that keeps the higher version ends with the later change.
LogAdvances ==
    \A f \in Filters : \A i, j \in DOMAIN log[f] :
        (i < j /\ log[f][i].row = log[f][j].row /\ log[f][i].row # NoRow) =>
            log[f][i].cell.version < log[f][j].cell.version

\* A position of a scope, once written, keeps its change for as long as the
\* epoch lasts: what (epoch, seq) names never changes.
PositionsAreStable ==
    [][\A f \in Filters : epoch'[f] = epoch[f] => IsPrefix(log[f], log'[f])]_serverVars

=============================================================================
