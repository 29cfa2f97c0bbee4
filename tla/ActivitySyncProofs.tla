------------------------- MODULE ActivitySyncProofs --------------------------
(***************************************************************************)
(* What holds of the Activity panel.                                       *)
(*                                                                         *)
(* First, what the server authority promises for every set of rows,        *)
(* payloads and filters: a version of a row names one fact in all windows  *)
(* of the principal, versions grow along a log, a log stays within its     *)
(* retention, and a position keeps its change while the epoch lasts.       *)
(*                                                                         *)
(* Then, what holds end to end, for any rows, filters, calls and           *)
(* retention, whatever is lost, repeated or overtaken on the way.          *)
(***************************************************************************)
EXTENDS ActivitySync, SetInduction, FiniteSetTheorems, SequenceTheorems, TLAPS

\* c is kept for row r: by the row authorities, by a window or by a log.
Seen(r, c) ==
    \/ c = authority[r]
    \/ \E f \in Filters : c = rows[f][r]
    \/ \E f \in Filters : \E i \in DOMAIN log[f] : log[f][i].row = r /\ log[f][i].cell = c

\* Versions come from the counter of the principal, and of the cells kept
\* anywhere for a row no two share one.
Versioned ==
    \A r \in Rows : \A c \in Cells : Seen(r, c) =>
        /\ c.version <= principal
        /\ (c.version = 0 => c = Unknown)
        /\ \A d \in Cells : (Seen(r, d) /\ d.version = c.version) => d = c

\* The row authorities are as new as any log, and so is a window, but for the
\* tombstones that a cut of the log took from the window and left in the log.
LogFollowed ==
    \A f \in Filters : \A i \in DOMAIN log[f] :
        /\ log[f][i].row = NoRow => log[f][i].cell = Unknown
        /\ log[f][i].row # NoRow =>
              /\ log[f][i].cell.version <= authority[log[f][i].row].version
              /\ \/ log[f][i].cell.version <= rows[f][log[f][i].row].version
                 \/ log[f][i].cell.payload = Buried /\ rows[f][log[f][i].row] = Unknown

\* The inductive invariant.
IInv == ServerTypeOK /\ Versioned /\ LogFollowed /\ LogAdvances

Changes == [row : Rows \cup {NoRow}, cell : Cells]

-----------------------------------------------------------------------------
(* The operators of a reconciliation. *)

\* The order lists the changed rows, each once.
LEMMA OrderFacts ==
    ASSUME NEW f \in Filters, NEW order \in Orders(f)
    PROVE  /\ order \in Seq(Rows) /\ Len(order) <= Cardinality(Rows)
           /\ \A i, j \in DOMAIN order : order[i] = order[j] => i = j
<1> DEFINE U == Upserts(f)
           M == MissingActive(f)
<1>1. PICK up \in SetToSeqs(U), gone \in SetToSeqs(M) : order = up \o gone
  BY DEF Orders
<1>2. U \subseteq Rows /\ M \subseteq Rows /\ U \cap M = {}
  BY DEF Upserts, MissingActive
<1> HIDE DEF U, M
<1>3. IsFiniteSet(Rows) /\ IsFiniteSet(U) /\ IsFiniteSet(M) /\ IsFiniteSet(U \cup M)
  BY <1>2, ServerAssumption, FS_Subset, FS_Union
<1>4. /\ Cardinality(U) \in Nat /\ Cardinality(M) \in Nat /\ Cardinality(Rows) \in Nat
      /\ Cardinality(U \cup M) <= Cardinality(Rows)
  BY <1>2, <1>3, FS_CardinalityType, FS_Subset
<1>5. Cardinality(U \cup M) = Cardinality(U) + Cardinality(M)
  <2>1. Cardinality(U \cap M) = 0
    BY <1>2, FS_EmptySet
  <2>2. Cardinality(U \cup M) = Cardinality(U) + Cardinality(M) - Cardinality(U \cap M)
    BY <1>3, FS_Union
  <2> QED BY <1>4, <2>1, <2>2
<1>6. /\ up \in Seq(U) /\ Len(up) = Cardinality(U) /\ DOMAIN up = 1..Cardinality(U)
      /\ \A i, j \in DOMAIN up : up[i] = up[j] => i = j
  BY <1>4 DEF SetToSeqs
<1>7. /\ gone \in Seq(M) /\ Len(gone) = Cardinality(M) /\ DOMAIN gone = 1..Cardinality(M)
      /\ \A i, j \in DOMAIN gone : gone[i] = gone[j] => i = j
  BY <1>4 DEF SetToSeqs
<1>8. up \in Seq(Rows) /\ gone \in Seq(Rows)
  BY <1>2, <1>6, <1>7
<1> DEFINE m == Len(up)
           n == Len(gone)
<1>9. /\ order \in Seq(Rows) /\ Len(order) = m + n /\ m \in Nat /\ n \in Nat
      /\ \A i \in 1..m : order[i] = up[i]
      /\ \A i \in (m + 1)..(m + n) : order[i] = gone[i - m]
  BY <1>1, <1>8, ConcatProperties, LenProperties
<1>10. ASSUME NEW i \in DOMAIN order, NEW j \in DOMAIN order, order[i] = order[j]
       PROVE  i = j
  <2>0. i \in 1..(m + n) /\ j \in 1..(m + n)
    BY <1>9
  <2>1. \A k \in 1..m : order[k] \in U
    BY <1>6, <1>9
  <2>2. \A k \in (m + 1)..(m + n) : order[k] \in M /\ k - m \in DOMAIN gone
    BY <1>7, <1>9
  <2>3. CASE i <= m /\ j <= m
    BY <1>6, <1>9, <1>10, <2>0, <2>3
  <2>4. CASE i > m /\ j > m
    <3>1. gone[i - m] = gone[j - m] /\ i - m \in DOMAIN gone /\ j - m \in DOMAIN gone
      BY <1>9, <1>10, <2>0, <2>2, <2>4
    <3>2. i - m = j - m
      BY <1>7, <3>1
    <3> QED BY <1>9, <2>0, <3>2
  <2>5. CASE i <= m /\ j > m
    BY <1>2, <1>9, <1>10, <2>0, <2>1, <2>2, <2>5
  <2>6. CASE i > m /\ j <= m
    BY <1>2, <1>9, <1>10, <2>0, <2>1, <2>2, <2>6
  <2> QED BY <1>9, <2>0, <2>3, <2>4, <2>5, <2>6
<1> QED BY <1>4, <1>5, <1>6, <1>7, <1>9, <1>10

\* Counting the versions handed out.
LEMMA FreshFacts ==
    ASSUME NEW f \in Filters, NEW order \in Seq(Rows), NEW n \in 0..Len(order)
    PROVE  /\ Fresh(f, order, n) \in Nat
           /\ Fresh(f, order, n) <= Fresh(f, order, Len(order))
           /\ (n > 0 /\ ~ReusesAuthority(f, order[n])) => Fresh(f, order, n) >= 1
<1> DEFINE S(k) == {i \in 1..k : ~ReusesAuthority(f, order[i])}
<1>0. Len(order) \in Nat
  OBVIOUS
<1>1. ASSUME NEW k \in Nat PROVE IsFiniteSet(S(k))
  <2>1. IsFiniteSet(1..k)
    BY FS_Interval
  <2>2. S(k) \subseteq 1..k
    OBVIOUS
  <2> QED BY <2>1, <2>2, FS_Subset
<1>2. \A k : Fresh(f, order, k) = Cardinality(S(k))
  BY DEF Fresh
<1>3. S(n) \subseteq S(Len(order))
  BY <1>0
<1>4. (n > 0 /\ ~ReusesAuthority(f, order[n])) => n \in S(n)
  BY <1>0
<1> HIDE DEF S
<1>5. /\ Cardinality(S(n)) \in Nat /\ Cardinality(S(n)) <= Cardinality(S(Len(order)))
  BY <1>0, <1>1, <1>3, FS_CardinalityType, FS_Subset
<1>6. n \in S(n) => Cardinality(S(n)) # 0
  BY <1>0, <1>1, FS_EmptySet
<1> QED BY <1>2, <1>4, <1>5, <1>6

\* A cell is a version and a payload.
LEMMA CellFacts ==
    ASSUME NEW c \in Cells
    PROVE  /\ c = [version |-> c.version, payload |-> c.payload]
           /\ c.version \in Nat /\ c.payload \in Payloads \cup {Buried}
BY DEF Cells

\* A change carries a version never used before, or repeats what the row
\* authorities have, which is newer than the window.
LEMMA ChangeFacts ==
    ASSUME IInv, NEW f \in Filters, NEW order \in Orders(f)
    PROVE  /\ RowChanges(f, order) \in Seq(Changes)
           /\ Len(RowChanges(f, order)) = Len(order)
           /\ PrincipalAfter(f, order) \in Nat /\ PrincipalAfter(f, order) >= principal
           /\ \A i \in DOMAIN order :
                 /\ RowChanges(f, order)[i].row = order[i]
                 /\ RowChanges(f, order)[i].cell \in Cells
                 /\ RowChanges(f, order)[i].cell.version >= 1
                 /\ RowChanges(f, order)[i].cell.version <= PrincipalAfter(f, order)
                 /\ \/ RowChanges(f, order)[i].cell.version > principal
                    \/ /\ RowChanges(f, order)[i].cell = authority[order[i]]
                       /\ RowChanges(f, order)[i].cell.version > rows[f][order[i]].version
                       /\ RowChanges(f, order)[i].cell.payload # Buried
<1> DEFINE ch == RowChanges(f, order)
           P == PrincipalAfter(f, order)
<1>0. /\ principal \in Nat /\ authority \in [Rows -> Cells]
      /\ rows \in [Filters -> [Rows -> Cells]] /\ world \in [Rows -> Payloads \cup {Buried}]
  BY DEF IInv, ServerTypeOK
<1>1. order \in Seq(Rows) /\ Len(order) \in Nat /\ DOMAIN order = 1..Len(order)
  BY OrderFacts
<1>2. P \in Nat /\ P >= principal
  <2>1. Fresh(f, order, Len(order)) \in Nat
    BY <1>1, FreshFacts
  <2> QED BY <1>0, <2>1 DEF PrincipalAfter
<1>3. ASSUME NEW i \in DOMAIN order
      PROVE  /\ ch[i] = [row |-> ch[i].row, cell |-> ch[i].cell]
             /\ ch[i].row = order[i] /\ order[i] \in Rows
             /\ ch[i].cell \in Cells
             /\ ch[i].cell.version >= 1
             /\ ch[i].cell.version <= P
             /\ \/ ch[i].cell.version > principal
                \/ /\ ch[i].cell = authority[order[i]]
                   /\ ch[i].cell.version > rows[f][order[i]].version
                   /\ ch[i].cell.payload # Buried
  <2> DEFINE r == order[i]
             v == IF ReusesAuthority(f, r) THEN authority[r].version
                  ELSE principal + Fresh(f, order, i)
             c == [payload |-> Canonical(f)[r], version |-> v]
  <2>1. r \in Rows
    BY <1>1
  <2>2. ch[i] = [row |-> r, cell |-> c]
    BY DEF RowChanges
  <2>3. Canonical(f)[r] \in Payloads \cup {Buried}
    BY <1>0, <2>1 DEF Canonical
  <2>4. authority[r] \in Cells /\ rows[f][r] \in Cells
    BY <1>0, <2>1
  <2>5. authority[r].version \in Nat /\ rows[f][r].version \in Nat
    BY <2>4, CellFacts
  <2>6. authority[r].version <= principal
    BY <2>1, <2>4 DEF IInv, Versioned, Seen
  <2>7. CASE ReusesAuthority(f, r)
    <3>1. /\ Canonical(f)[r] # Buried /\ authority[r].payload = Canonical(f)[r]
          /\ authority[r].version > rows[f][r].version
      BY <2>7 DEF ReusesAuthority
    <3>2. v = authority[r].version
      BY <2>7
    <3> HIDE DEF v, r
    <3>3. c = authority[r]
      BY <2>4, <3>1, <3>2, CellFacts DEF Cells
    <3>4. c \in Cells /\ c.version >= 1 /\ c.version <= P /\ c.version > rows[f][r].version
          /\ c.payload # Buried
      <4> HIDE DEF P
      <4>1. c.version = v /\ c.payload = Canonical(f)[r]
        OBVIOUS
      <4> HIDE DEF c
      <4> QED BY <1>0, <1>2, <2>4, <2>5, <2>6, <3>1, <3>2, <3>3, <4>1
    <3> HIDE DEF c
    <3> QED BY <2>1, <2>2, <3>3, <3>4 DEF r
  <2>8. CASE ~ReusesAuthority(f, r)
    <3>1. i \in 0..Len(order) /\ i > 0
      BY <1>1
    <3>2. /\ Fresh(f, order, i) \in Nat /\ Fresh(f, order, i) >= 1
          /\ Fresh(f, order, i) <= Fresh(f, order, Len(order))
          /\ Fresh(f, order, Len(order)) \in Nat
      BY <1>1, <2>8, <3>1, FreshFacts
    <3>3. v = principal + Fresh(f, order, i) /\ P = principal + Fresh(f, order, Len(order))
      BY <2>8 DEF PrincipalAfter
    <3> HIDE DEF v, P
    <3>4. v \in Nat /\ v >= 1 /\ v <= P /\ v > principal
      BY <1>0, <3>2, <3>3
    <3>5. c \in Cells /\ c.version = v
      BY <2>3, <3>4 DEF Cells
    <3> HIDE DEF c, r
    <3> QED BY <2>1, <2>2, <3>4, <3>5 DEF r
  <2> QED BY <2>7, <2>8
<1>4. ch \in Seq(Changes) /\ Len(ch) = Len(order)
  <2>1. DOMAIN ch = 1..Len(order) /\ ch = [i \in 1..Len(order) |-> ch[i]]
    BY <1>1 DEF RowChanges
  <2> HIDE DEF ch
  <2>2. ASSUME NEW i \in 1..Len(order) PROVE ch[i] \in Changes
    <3>1. /\ ch[i] = [row |-> ch[i].row, cell |-> ch[i].cell]
          /\ ch[i].row \in Rows \cup {NoRow} /\ ch[i].cell \in Cells
      BY <1>1, <1>3
    <3> QED BY <3>1 DEF Changes
  <2> QED BY <1>1, <2>1, <2>2
<1> HIDE DEF ch, P
<1>5. \A i \in DOMAIN order :
         /\ ch[i].row = order[i]
         /\ ch[i].cell \in Cells
         /\ ch[i].cell.version >= 1
         /\ ch[i].cell.version <= P
         /\ \/ ch[i].cell.version > principal
            \/ /\ ch[i].cell = authority[order[i]]
               /\ ch[i].cell.version > rows[f][order[i]].version
               /\ ch[i].cell.payload # Buried
  BY <1>3
<1> QED BY <1>2, <1>4, <1>5 DEF ch, P

\* A list that changes a row at most once.
OncePerRow(ch) ==
    /\ \A i \in DOMAIN ch : ch[i].cell # Unknown
    /\ \A i, j \in DOMAIN ch : ch[i].row = ch[j].row => i = j

\* w is window with the changes ch.
Changed(w, window, ch) ==
    /\ w \in [Rows -> Cells]
    /\ \A i \in DOMAIN ch : ch[i].row \in Rows => w[ch[i].row] = ch[i].cell
    /\ \A r \in Rows : (\A i \in DOMAIN ch : ch[i].row # r) => w[r] = window[r]

\* Each row of a window is what the list of changes says of it, or what it was.
LEMMA ReplayFacts ==
    ASSUME NEW ch \in Seq(Changes), NEW window \in [Rows -> Cells], OncePerRow(ch)
    PROVE  Changed(Replay(window, ch), window, ch)
<1> DEFINE at(r) == {i \in DOMAIN ch : ch[i].row = r}
           w == Replay(window, ch)
<1>0. DOMAIN ch \subseteq Nat /\ \A i \in DOMAIN ch : ch[i] \in Changes
  OBVIOUS
<1>1. \A r \in Rows : LatestByRow(ch)[r] = IF at(r) = {} THEN Unknown ELSE ch[Max(at(r))].cell
  BY DEF LatestByRow
<1>2. w = [r \in Rows |-> IF LatestByRow(ch)[r] = Unknown THEN window[r] ELSE LatestByRow(ch)[r]]
  BY DEF Replay
<1>3. ASSUME NEW i \in DOMAIN ch, ch[i].row \in Rows PROVE w[ch[i].row] = ch[i].cell
  <2>1. at(ch[i].row) = {i}
    BY DEF OncePerRow
  <2>2. Max({i}) = i
    BY <1>0 DEF Max
  <2> HIDE DEF at
  <2>3. LatestByRow(ch)[ch[i].row] = ch[i].cell
    BY <1>1, <1>3, <2>1, <2>2
  <2> HIDE DEF w
  <2> QED BY <1>2, <1>3, <2>3 DEF OncePerRow
<1>4. ASSUME NEW r \in Rows, \A i \in DOMAIN ch : ch[i].row # r PROVE w[r] = window[r]
  <2>1. at(r) = {}
    BY <1>4
  <2> HIDE DEF at
  <2>2. LatestByRow(ch)[r] = Unknown
    BY <1>1, <2>1
  <2> HIDE DEF w
  <2> QED BY <1>2, <2>2
<1>5. w \in [Rows -> Cells]
  <2>1. ASSUME NEW r \in Rows PROVE w[r] \in Cells
    <3>1. CASE \E i \in DOMAIN ch : ch[i].row = r
      <4>1. PICK i \in DOMAIN ch : ch[i].row = r
        BY <3>1
      <4>2. ch[i].cell \in Cells
        BY <1>0 DEF Changes
      <4> QED BY <1>3, <4>1, <4>2
    <3>2. CASE ~\E i \in DOMAIN ch : ch[i].row = r
      BY <1>4, <3>2
    <3> QED BY <3>1, <3>2
  <2> HIDE DEF w
  <2>2. w = [r \in Rows |-> w[r]]
    BY <1>2
  <2> QED BY <2>1, <2>2
<1> QED BY <1>3, <1>4, <1>5 DEF Changed

\* What is appended: the changes, and the scope change if it changed.
LEMMA PendingFacts ==
    ASSUME IInv, NEW f \in Filters, NEW order \in Orders(f)
    PROVE  /\ Pending(f, order) \in Seq(Changes)
           /\ Len(Pending(f, order)) <= Len(order) + 1
           /\ \A i \in DOMAIN Pending(f, order) :
                 \/ Pending(f, order)[i] = ScopeChange
                 \/ i \in DOMAIN order /\ Pending(f, order)[i] = RowChanges(f, order)[i]
<1> DEFINE ch == RowChanges(f, order)
<1>0. order \in Seq(Rows) /\ DOMAIN order = 1..Len(order) /\ Len(order) \in Nat
  BY OrderFacts
<1>1. ch \in Seq(Changes) /\ Len(ch) = Len(order)
  BY ChangeFacts
<1>2. Pending(f, order) = ch \/ Pending(f, order) = Append(ch, ScopeChange)
  BY DEF Pending
<1>3. ScopeChange \in Changes
  BY DEF ScopeChange, Changes, Unknown, Cells
<1> HIDE DEF ch
<1>4. CASE Pending(f, order) = ch
  BY <1>0, <1>1, <1>4 DEF ch
<1>5. CASE Pending(f, order) = Append(ch, ScopeChange)
  <2> DEFINE p == Append(ch, ScopeChange)
  <2>1. /\ p \in Seq(Changes) /\ Len(p) = Len(order) + 1 /\ DOMAIN p = 1..(Len(order) + 1)
        /\ p[Len(order) + 1] = ScopeChange /\ \A i \in 1..Len(order) : p[i] = ch[i]
    BY <1>0, <1>1, <1>3, AppendProperties
  <2> HIDE DEF p
  <2>2. \A i \in DOMAIN p : p[i] = ScopeChange \/ (i \in DOMAIN order /\ p[i] = ch[i])
    BY <1>0, <2>1
  <2>3. Pending(f, order) = p
    BY <1>5 DEF p
  <2> QED BY <1>0, <2>1, <2>2, <2>3 DEF ch
<1> QED BY <1>2, <1>4, <1>5

-----------------------------------------------------------------------------
(* A reconciliation. *)

\* The part of a step a row sees: its new cell if it has one, the window it had,
\* and no row at all where a cut took its tombstone.
LEMMA ReconcileFacts ==
    ASSUME IInv, NEW f \in Filters, NEW order \in Orders(f), Reconcile(f, order)
    PROVE  /\ principal' = PrincipalAfter(f, order)
           /\ authority' \in [Rows -> Cells] /\ rows' \in [Filters -> [Rows -> Cells]]
           /\ \A g \in Filters \ {f} : rows'[g] = rows[g] /\ log'[g] = log[g]
           /\ \A i \in DOMAIN order :
                 /\ authority'[order[i]] = RowChanges(f, order)[i].cell
                 /\ \/ rows'[f][order[i]] = RowChanges(f, order)[i].cell
                    \/ /\ RollsOver(f, Pending(f, order))
                       /\ RowChanges(f, order)[i].cell.payload = Buried
                       /\ rows'[f][order[i]] = Unknown
           /\ \A r \in Rows : (\A i \in DOMAIN order : order[i] # r) =>
                 /\ authority'[r] = authority[r]
                 /\ \/ rows'[f][r] = rows[f][r]
                    \/ RollsOver(f, Pending(f, order)) /\ rows'[f][r] = Unknown
           /\ log'[f] = IF RollsOver(f, Pending(f, order)) THEN Pending(f, order)
                        ELSE log[f] \o Pending(f, order)
<1> DEFINE ch  == RowChanges(f, order)
           p   == Pending(f, order)
           cut == RollsOver(f, p)
           a   == Replay(rows[f], ch)
           k   == IF cut THEN WithoutTombstones(a) ELSE a
<1>0. /\ authority \in [Rows -> Cells] /\ rows \in [Filters -> [Rows -> Cells]]
      /\ DOMAIN log = Filters
  BY DEF IInv, ServerTypeOK
<1>1. /\ principal' = PrincipalAfter(f, order) /\ authority' = Replay(authority, ch)
      /\ rows' = [rows EXCEPT ![f] = k]
      /\ log' = [log EXCEPT ![f] = IF cut THEN p ELSE log[f] \o p]
  BY DEF Reconcile
<1>2. /\ order \in Seq(Rows) /\ \A i, j \in DOMAIN order : order[i] = order[j] => i = j
  BY OrderFacts
<1>3. /\ ch \in Seq(Changes) /\ Len(ch) = Len(order) /\ DOMAIN ch = DOMAIN order
      /\ \A i \in DOMAIN order : ch[i].row = order[i] /\ ch[i].cell \in Cells /\ ch[i].cell.version >= 1
  <2>1. /\ ch \in Seq(Changes) /\ Len(ch) = Len(order)
        /\ \A i \in DOMAIN order : ch[i].row = order[i] /\ ch[i].cell \in Cells /\ ch[i].cell.version >= 1
    BY ChangeFacts
  <2> HIDE DEF ch
  <2>2. DOMAIN ch = DOMAIN order
    BY <1>2, <2>1
  <2> QED BY <2>1, <2>2
<1> HIDE DEF ch, p, cut
<1>4. OncePerRow(ch)
  <2>1. \A i \in DOMAIN ch : ch[i].cell # Unknown
    BY <1>3 DEF Unknown
  <2>2. \A i, j \in DOMAIN ch : ch[i].row = ch[j].row => i = j
    BY <1>2, <1>3
  <2> QED BY <2>1, <2>2 DEF OncePerRow
<1>5. Changed(a, rows[f], ch) /\ Changed(Replay(authority, ch), authority, ch)
  BY <1>0, <1>3, <1>4, ReplayFacts
<1> HIDE DEF a
<1>6. /\ a \in [Rows -> Cells]
      /\ \A i \in DOMAIN ch : ch[i].row \in Rows => a[ch[i].row] = ch[i].cell
      /\ \A r \in Rows : (\A i \in DOMAIN ch : ch[i].row # r) => a[r] = rows[f][r]
  BY <1>5 DEF Changed
<1>7. /\ authority' \in [Rows -> Cells]
      /\ \A i \in DOMAIN ch : ch[i].row \in Rows => authority'[ch[i].row] = ch[i].cell
      /\ \A r \in Rows : (\A i \in DOMAIN ch : ch[i].row # r) => authority'[r] = authority[r]
  BY <1>1, <1>5 DEF Changed
<1>8. /\ k \in [Rows -> Cells]
      /\ \A r \in Rows : k[r] = a[r] \/ (cut /\ a[r].payload = Buried /\ k[r] = Unknown)
  <2>1. CASE cut
    <3>1. k = [r \in Rows |-> IF a[r].payload = Buried THEN Unknown ELSE a[r]]
      BY <2>1 DEF WithoutTombstones
    <3>2. Unknown \in Cells
      BY DEF Unknown, Cells
    <3> HIDE DEF k
    <3> QED BY <1>6, <2>1, <3>1, <3>2
  <2>2. CASE ~cut
    BY <1>6, <2>2
  <2> QED BY <2>1, <2>2
<1> HIDE DEF k
<1>9. /\ rows' \in [Filters -> [Rows -> Cells]] /\ rows'[f] = k
      /\ \A g \in Filters \ {f} : rows'[g] = rows[g] /\ log'[g] = log[g]
      /\ log'[f] = IF cut THEN p ELSE log[f] \o p
  BY <1>0, <1>1, <1>8
<1>10. \A i \in DOMAIN order : order[i] \in Rows
  BY <1>2
<1>11. \A i \in DOMAIN order :
          /\ authority'[order[i]] = ch[i].cell
          /\ rows'[f][order[i]] = ch[i].cell \/ (cut /\ ch[i].cell.payload = Buried /\ rows'[f][order[i]] = Unknown)
  BY <1>3, <1>6, <1>7, <1>8, <1>9, <1>10
<1>12. \A r \in Rows : (\A i \in DOMAIN order : order[i] # r) =>
          /\ authority'[r] = authority[r]
          /\ rows'[f][r] = rows[f][r] \/ (cut /\ rows'[f][r] = Unknown)
  BY <1>3, <1>6, <1>7, <1>8, <1>9
<1> QED BY <1>1, <1>7, <1>9, <1>11, <1>12 DEF ch, p, cut

\* Where the old log ends in the new one.
Kept(f, order) == IF RollsOver(f, Pending(f, order)) THEN 0 ELSE Len(log[f])

\* A position of the new log has the change it had, a row change or the scope
\* change.
LEMMA LogFacts ==
    ASSUME IInv, NEW f \in Filters, NEW order \in Orders(f), Reconcile(f, order)
    PROVE  /\ log'[f] \in Seq(Changes) /\ Len(log'[f]) <= Retention
           /\ Kept(f, order) \in Nat
           /\ \A i \in DOMAIN log'[f] :
                 /\ i \in Nat
                 /\ i <= Kept(f, order) => /\ i \in DOMAIN log[f] /\ log'[f][i] = log[f][i]
                                           /\ ~RollsOver(f, Pending(f, order))
                 /\ i > Kept(f, order) =>
                       \/ log'[f][i] = ScopeChange
                       \/ \E k \in DOMAIN order : /\ k = i - Kept(f, order)
                                                  /\ log'[f][i] = RowChanges(f, order)[k]
<1> DEFINE ch  == RowChanges(f, order)
           p   == Pending(f, order)
           cut == RollsOver(f, p)
           n   == Kept(f, order)
<1>0. log[f] \in Seq(Changes) /\ Len(log[f]) \in Nat /\ Len(log[f]) <= Retention
  <2>1. log[f] \in Seq(Changes) /\ Len(log[f]) <= Retention
    BY DEF IInv, ServerTypeOK, Changes
  <2> QED BY <2>1, LenProperties
<1>1. log'[f] = IF cut THEN p ELSE log[f] \o p
  BY ReconcileFacts
<1>2. /\ p \in Seq(Changes) /\ Len(p) <= Len(order) + 1
      /\ \A i \in DOMAIN p : p[i] = ScopeChange \/ (i \in DOMAIN order /\ p[i] = ch[i])
  BY PendingFacts
<1>3. /\ Retention \in Nat /\ Cardinality(Rows) \in Nat /\ Retention > Cardinality(Rows)
      /\ Len(order) <= Cardinality(Rows) /\ Len(order) \in Nat
  BY ServerAssumption, FS_CardinalityType, OrderFacts
<1>4. ~cut => (p = <<>> \/ Len(log[f]) + Len(p) <= Retention)
  <2>1. ~cut => (p = <<>> \/ ~(Len(log[f]) + Len(p) > Retention))
    BY DEF RollsOver
  <2>2. Len(p) \in Nat
    BY <1>2, LenProperties
  <2> QED BY <1>0, <1>3, <2>1, <2>2
<1>5. n = IF cut THEN 0 ELSE Len(log[f])
  BY DEF Kept
<1> HIDE DEF ch, p, cut, n
<1>6. CASE cut
  <2>1. log'[f] = p /\ n = 0
    BY <1>1, <1>5, <1>6
  <2>2. Len(p) \in Nat /\ DOMAIN p = 1..Len(p)
    BY <1>2
  <2>3. Len(p) <= Retention
    BY <1>2, <1>3, <2>2
  <2>4. \A i \in DOMAIN p : i \in Nat /\ i > 0 /\ i - 0 = i
    BY <2>2
  <2>5. \A i \in DOMAIN log'[f] :
           /\ i \in Nat
           /\ ~(i <= n)
           /\ \/ log'[f][i] = ScopeChange
              \/ \E k \in DOMAIN order : k = i - n /\ log'[f][i] = ch[k]
    BY <1>2, <2>1, <2>4
  <2> QED BY <1>2, <2>1, <2>3, <2>5 DEF ch, p, cut, n
<1>7. CASE ~cut
  <2> DEFINE s == log[f]
  <2>1. log'[f] = s \o p /\ n = Len(s)
    BY <1>1, <1>5, <1>7
  <2> HIDE DEF s
  <2>2. /\ s \in Seq(Changes) /\ Len(s) \in Nat /\ Len(p) \in Nat
        /\ DOMAIN p = 1..Len(p) /\ DOMAIN s = 1..Len(s)
    BY <1>0, <1>2 DEF s
  <2>3. /\ s \o p \in Seq(Changes) /\ Len(s \o p) = Len(s) + Len(p)
        /\ DOMAIN (s \o p) = 1..(Len(s) + Len(p))
        /\ \A i \in 1..Len(s) : (s \o p)[i] = s[i]
        /\ \A i \in (Len(s) + 1)..(Len(s) + Len(p)) : (s \o p)[i] = p[i - Len(s)]
    BY <1>2, <2>2, ConcatProperties
  <2>4. Len(s \o p) <= Retention
    <3>1. CASE p = <<>>
      <4>1. Len(p) = 0
        BY <3>1
      <4> QED BY <1>0, <2>2, <2>3, <4>1 DEF s
    <3>2. CASE p # <<>>
      BY <1>4, <1>7, <2>3, <3>2 DEF s
    <3> QED BY <3>1, <3>2
  <2>5. ASSUME NEW i \in DOMAIN (s \o p)
        PROVE  /\ i \in Nat
               /\ i <= n => i \in DOMAIN s /\ (s \o p)[i] = s[i]
               /\ i > n => \/ (s \o p)[i] = ScopeChange
                           \/ \E k \in DOMAIN order : k = i - n /\ (s \o p)[i] = ch[k]
    <3>1. i \in Nat /\ (i <= n => i \in DOMAIN s /\ (s \o p)[i] = s[i])
      BY <2>1, <2>2, <2>3
    <3>2. i > n => i - n \in DOMAIN p /\ (s \o p)[i] = p[i - n]
      BY <2>1, <2>2, <2>3
    <3> QED BY <1>2, <3>1, <3>2
  <2> QED BY <1>7, <2>1, <2>2, <2>3, <2>4, <2>5 DEF ch, p, cut, n, s
<1> QED BY <1>6, <1>7

LEMMA ReconcileTyped ==
    ASSUME IInv, NEW f \in Filters, NEW order \in Orders(f), Reconcile(f, order)
    PROVE  ServerTypeOK'
<1>0. /\ log \in [Filters -> Seq(Changes)] /\ \A g \in Filters : Len(log[g]) <= Retention
      /\ epoch \in [Filters -> Nat \ {0}] /\ world \in [Rows -> Payloads \cup {Buried}]
      /\ totals \in Nat /\ edits \in 0..MaxEdits
  BY DEF IInv, ServerTypeOK, Changes
<1>1. /\ authority' \in [Rows -> Cells] /\ rows' \in [Filters -> [Rows -> Cells]]
      /\ \A g \in Filters \ {f} : log'[g] = log[g]
  BY ReconcileFacts
<1>2. principal' \in Nat
  BY ReconcileFacts, ChangeFacts
<1>3. log'[f] \in Seq(Changes) /\ Len(log'[f]) <= Retention
  BY LogFacts
<1>4. log' \in [Filters -> Seq(Changes)] /\ \A g \in Filters : Len(log'[g]) <= Retention
  <2>1. \E x : log' = [log EXCEPT ![f] = x]
    BY DEF Reconcile
  <2>2. DOMAIN log' = Filters /\ log' = [g \in Filters |-> log'[g]]
    BY <1>0, <2>1
  <2>3. \A g \in Filters : log'[g] \in Seq(Changes) /\ Len(log'[g]) <= Retention
    BY <1>0, <1>1, <1>3
  <2> QED BY <2>2, <2>3
<1>5. epoch' \in [Filters -> Nat \ {0}]
  <2>1. epoch' = [epoch EXCEPT ![f] = NextEpoch(f, Pending(f, order))]
    BY DEF Reconcile
  <2>2. NextEpoch(f, Pending(f, order)) \in Nat \ {0}
    BY <1>0 DEF NextEpoch
  <2> HIDE DEF NextEpoch
  <2> QED BY <1>0, <2>1, <2>2
<1>6. world' = world /\ totals' = totals /\ edits' = edits
  BY DEF Reconcile, worldVars
<1> QED BY <1>0, <1>1, <1>2, <1>4, <1>5, <1>6 DEF ServerTypeOK, Changes

LEMMA ReconcileVersioned ==
    ASSUME IInv, NEW f \in Filters, NEW order \in Orders(f), Reconcile(f, order)
    PROVE  Versioned'
<1> DEFINE ch == RowChanges(f, order)
           New(r, c) == \E i \in DOMAIN order : order[i] = r /\ c = ch[i].cell
<1>0. /\ \A i, j \in DOMAIN order : order[i] = order[j] => i = j
      /\ \A i \in DOMAIN order : order[i] \in Rows
  <2>1. order \in Seq(Rows) /\ \A i, j \in DOMAIN order : order[i] = order[j] => i = j
    BY OrderFacts
  <2> QED BY <2>1
<1>1. /\ principal \in Nat /\ principal' \in Nat /\ principal' >= principal
      /\ \A i \in DOMAIN order :
            /\ ch[i].row = order[i] /\ ch[i].cell \in Cells
            /\ ch[i].cell.version >= 1 /\ ch[i].cell.version <= principal'
            /\ ch[i].cell.version > principal \/ ch[i].cell = authority[order[i]]
  <2>1. principal' = PrincipalAfter(f, order) /\ principal \in Nat
    BY ReconcileFacts DEF IInv, ServerTypeOK
  <2> HIDE DEF ch
  <2> QED BY <2>1, ChangeFacts DEF ch
<1>2. /\ \A g \in Filters \ {f} : rows'[g] = rows[g] /\ log'[g] = log[g]
      /\ \A i \in DOMAIN order :
            /\ authority'[order[i]] = ch[i].cell
            /\ rows'[f][order[i]] = ch[i].cell \/ rows'[f][order[i]] = Unknown
      /\ \A r \in Rows : (\A i \in DOMAIN order : order[i] # r) =>
            authority'[r] = authority[r] /\ (rows'[f][r] = rows[f][r] \/ rows'[f][r] = Unknown)
  BY ReconcileFacts
<1>3. \A i \in DOMAIN log'[f] :
         \/ i \in DOMAIN log[f] /\ log'[f][i] = log[f][i]
         \/ log'[f][i] = ScopeChange
         \/ \E k \in DOMAIN order : log'[f][i] = ch[k]
  <2> HIDE DEF ch
  <2>1. \A i \in DOMAIN log'[f] : i \in Nat /\ Kept(f, order) \in Nat
    BY LogFacts
  <2>2. \A i \in DOMAIN log'[f] : i <= Kept(f, order) \/ i > Kept(f, order)
    BY <2>1
  <2> QED BY <2>2, LogFacts DEF ch
<1> HIDE DEF ch
<1>4. ASSUME NEW r \in Rows, NEW c \in Cells, Seen(r, c)'
      PROVE  Seen(r, c) \/ c = Unknown \/ New(r, c)
  <2>0. r # NoRow /\ ScopeChange.row = NoRow
    BY ServerAssumption DEF ScopeChange
  <2>1. CASE c = authority'[r]
    <3>1. CASE \E i \in DOMAIN order : order[i] = r
      BY <1>2, <2>1, <3>1
    <3>2. CASE ~\E i \in DOMAIN order : order[i] = r
      BY <1>2, <2>1, <3>2 DEF Seen
    <3> QED BY <3>1, <3>2
  <2>2. CASE \E g \in Filters : c = rows'[g][r]
    <3>0. PICK g \in Filters : c = rows'[g][r]
      BY <2>2
    <3>1. CASE g # f
      BY <1>2, <3>0, <3>1 DEF Seen
    <3>2. CASE g = f /\ \E i \in DOMAIN order : order[i] = r
      BY <1>2, <3>0, <3>2
    <3>3. CASE g = f /\ ~\E i \in DOMAIN order : order[i] = r
      BY <1>2, <3>0, <3>3 DEF Seen
    <3> QED BY <3>1, <3>2, <3>3
  <2>3. CASE \E g \in Filters : \E i \in DOMAIN log'[g] : log'[g][i].row = r /\ log'[g][i].cell = c
    <3>a. PICK g \in Filters : \E i \in DOMAIN log'[g] : log'[g][i].row = r /\ log'[g][i].cell = c
      BY <2>3
    <3>0. PICK i \in DOMAIN log'[g] : log'[g][i].row = r /\ log'[g][i].cell = c
      BY <3>a
    <3>1. CASE g # f
      BY <1>2, <3>0, <3>1 DEF Seen
    <3>2. CASE g = f
      <4>1. CASE i \in DOMAIN log[f] /\ log'[f][i] = log[f][i]
        BY <3>0, <3>2, <4>1 DEF Seen
      <4>2. CASE log'[f][i] = ScopeChange
        BY <2>0, <3>0, <3>2, <4>2
      <4>3. CASE \E k \in DOMAIN order : log'[f][i] = ch[k]
        BY <1>1, <3>0, <3>2, <4>3
      <4> QED BY <1>3, <3>0, <3>2, <4>1, <4>2, <4>3
    <3> QED BY <3>1, <3>2
  <2> QED BY <1>4, <2>1, <2>2, <2>3 DEF Seen
<1>5. ASSUME NEW r \in Rows, NEW c \in Cells, Seen(r, c)
      PROVE  /\ c.version <= principal /\ (c.version = 0 => c = Unknown)
             /\ \A d \in Cells : (Seen(r, d) /\ d.version = c.version) => d = c
  BY <1>5 DEF IInv, Versioned
<1>6. ASSUME NEW r \in Rows, NEW c \in Cells, New(r, c)
      PROVE  /\ c.version >= 1 /\ c.version <= principal'
             /\ c.version > principal \/ c = authority[r]
             /\ \A d \in Cells : New(r, d) => d = c
  <2>1. PICK i \in DOMAIN order : order[i] = r /\ c = ch[i].cell
    BY <1>6
  <2> QED BY <1>0, <1>1, <2>1
<1>7. \A r \in Rows : Seen(r, authority[r]) /\ authority[r] \in Cells
  BY DEF Seen, IInv, ServerTypeOK
<1>8. Unknown \in Cells /\ Unknown.version = 0
  BY DEF Unknown, Cells
<1> HIDE DEF New
<1>9. ASSUME NEW r \in Rows, NEW c \in Cells, NEW d \in Cells, Seen(r, c)', Seen(r, d)',
             d.version = c.version
      PROVE  d = c
  <2>0. c.version \in Nat /\ d.version \in Nat
    BY CellFacts
  <2>1. (Seen(r, c) \/ c = Unknown \/ New(r, c)) /\ (Seen(r, d) \/ d = Unknown \/ New(r, d))
    BY <1>4, <1>9
  <2>2. CASE Seen(r, c) /\ Seen(r, d)
    BY <1>5, <1>9, <2>2
  <2>3. CASE c = Unknown \/ d = Unknown
    BY <1>5, <1>6, <1>8, <1>9, <2>0, <2>1, <2>3
  <2>4. CASE New(r, c) /\ New(r, d)
    BY <1>6, <2>4
  <2>5. CASE Seen(r, c) /\ New(r, d)
    <3>1. d.version <= principal
      BY <1>5, <1>9, <2>5
    <3>2. d = authority[r]
      BY <1>1, <1>6, <2>0, <2>5, <3>1
    <3> QED BY <1>5, <1>7, <1>9, <2>5, <3>2
  <2>6. CASE New(r, c) /\ Seen(r, d)
    <3>1. c.version <= principal
      BY <1>5, <1>9, <2>6
    <3>2. c = authority[r]
      BY <1>1, <1>6, <2>0, <2>6, <3>1
    <3> QED BY <1>5, <1>7, <1>9, <2>6, <3>2
  <2> QED BY <2>1, <2>2, <2>3, <2>4, <2>5, <2>6
<1>10. ASSUME NEW r \in Rows, NEW c \in Cells, Seen(r, c)'
       PROVE  c.version <= principal' /\ (c.version = 0 => c = Unknown)
  <2>0. c.version \in Nat
    BY CellFacts
  <2>1. CASE Seen(r, c)
    BY <1>1, <1>5, <2>0, <2>1
  <2>2. CASE c = Unknown
    BY <1>1, <1>8, <2>2
  <2>3. CASE New(r, c)
    BY <1>6, <2>0, <2>3
  <2> QED BY <1>4, <1>10, <2>1, <2>2, <2>3
<1> QED BY <1>9, <1>10 DEF Versioned

\* What the next two lemmas share: a row change is newer than every change of
\* its row in the log.
LEMMA ChangesAreNewer ==
    ASSUME IInv, NEW f \in Filters, NEW order \in Orders(f),
           NEW g \in Filters, NEW i \in DOMAIN log[g], NEW k \in DOMAIN order,
           log[g][i].row = order[k]
    PROVE  /\ log[g][i].cell.version <= RowChanges(f, order)[k].cell.version
           /\ g = f => log[g][i].cell.version < RowChanges(f, order)[k].cell.version
<1> DEFINE r == order[k]
           c == log[g][i].cell
           n == RowChanges(f, order)[k].cell
<1>1. r \in Rows /\ r # NoRow
  <2>1. order \in Seq(Rows)
    BY OrderFacts
  <2> QED BY <2>1, ServerAssumption
<1>2. c \in Cells /\ authority[r] \in Cells /\ rows[g][r] \in Cells /\ principal \in Nat
  <2>1. log[g] \in Seq(Changes) /\ authority \in [Rows -> Cells]
        /\ rows \in [Filters -> [Rows -> Cells]] /\ principal \in Nat
    BY DEF IInv, ServerTypeOK, Changes
  <2>2. log[g][i] \in Changes
    BY <2>1
  <2> QED BY <1>1, <2>1, <2>2 DEF Changes
<1>3. /\ n \in Cells
      /\ n.version > principal \/ (n = authority[r] /\ n.version > rows[f][r].version /\ n.payload # Buried)
  BY ChangeFacts
<1>4. /\ c.version <= authority[r].version
      /\ c.version <= rows[g][r].version \/ c.payload = Buried
  BY <1>1 DEF IInv, LogFollowed
<1>5. Seen(r, c) /\ Seen(r, authority[r])
  BY DEF Seen
<1>6. c.version <= principal /\ (authority[r].version = c.version => authority[r] = c)
  BY <1>1, <1>2, <1>5 DEF IInv, Versioned
<1> HIDE DEF r, c, n
<1>7. c.version \in Nat /\ n.version \in Nat /\ authority[r].version \in Nat /\ rows[g][r].version \in Nat
  BY <1>2, <1>3, CellFacts
<1>8. c.version <= n.version
  BY <1>2, <1>3, <1>4, <1>6, <1>7
<1>9. ASSUME g = f PROVE c.version < n.version
  <2>1. CASE n.version > principal
    BY <1>2, <1>6, <1>7, <2>1
  <2>2. CASE n = authority[r] /\ n.version > rows[f][r].version /\ n.payload # Buried
    <3>1. CASE c.version <= rows[g][r].version
      BY <1>7, <1>9, <2>2, <3>1
    <3>2. CASE c.payload = Buried
      <4>1. authority[r].version # c.version
        BY <1>6, <2>2, <3>2
      <4> QED BY <1>4, <1>7, <2>2, <4>1
    <3> QED BY <1>4, <3>1, <3>2
  <2> QED BY <1>3, <2>1, <2>2
<1> QED BY <1>8, <1>9 DEF c, n

LEMMA ReconcileFollowed ==
    ASSUME IInv, NEW f \in Filters, NEW order \in Orders(f), Reconcile(f, order)
    PROVE  LogFollowed'
<1> DEFINE ch == RowChanges(f, order)
           cut == RollsOver(f, Pending(f, order))
<1>0. /\ \A i \in DOMAIN order : order[i] \in Rows /\ order[i] # NoRow
  <2>1. order \in Seq(Rows)
    BY OrderFacts
  <2> QED BY <2>1, ServerAssumption
<1>1. \A i \in DOMAIN order : ch[i].row = order[i] /\ ch[i].cell \in Cells
  BY ChangeFacts
<1>2. /\ \A g \in Filters \ {f} : rows'[g] = rows[g] /\ log'[g] = log[g]
      /\ \A i \in DOMAIN order :
            /\ authority'[order[i]] = ch[i].cell
            /\ \/ rows'[f][order[i]] = ch[i].cell
               \/ cut /\ ch[i].cell.payload = Buried /\ rows'[f][order[i]] = Unknown
      /\ \A r \in Rows : (\A i \in DOMAIN order : order[i] # r) =>
            authority'[r] = authority[r] /\ (rows'[f][r] = rows[f][r] \/ cut)
  BY ReconcileFacts
<1>3. \A i \in DOMAIN log'[f] :
         \/ i \in DOMAIN log[f] /\ log'[f][i] = log[f][i] /\ ~cut
         \/ log'[f][i] = ScopeChange
         \/ \E k \in DOMAIN order : log'[f][i] = ch[k]
  <2> HIDE DEF ch, cut
  <2>1. \A i \in DOMAIN log'[f] : i \in Nat /\ Kept(f, order) \in Nat
    BY LogFacts
  <2>2. \A i \in DOMAIN log'[f] : i <= Kept(f, order) \/ i > Kept(f, order)
    BY <2>1
  <2> QED BY <2>2, LogFacts DEF ch, cut
<1>4. ASSUME NEW g \in Filters, NEW i \in DOMAIN log[g], NEW k \in DOMAIN order,
             log[g][i].row = order[k]
      PROVE  log[g][i].cell.version <= ch[k].cell.version
  BY <1>4, ChangesAreNewer
<1> HIDE DEF ch, cut
\* An entry that stays.
<1>5. ASSUME NEW g \in Filters, NEW i \in DOMAIN log[g], g # f \/ ~cut
      PROVE  /\ log[g][i].row = NoRow => log[g][i].cell = Unknown
             /\ log[g][i].row # NoRow =>
                   /\ log[g][i].cell.version <= authority'[log[g][i].row].version
                   /\ \/ log[g][i].cell.version <= rows'[g][log[g][i].row].version
                      \/ log[g][i].cell.payload = Buried /\ rows'[g][log[g][i].row] = Unknown
  <2> DEFINE r == log[g][i].row
             c == log[g][i].cell
  <2>1. /\ r = NoRow => c = Unknown
        /\ r # NoRow => /\ c.version <= authority[r].version
                        /\ \/ c.version <= rows[g][r].version
                           \/ c.payload = Buried /\ rows[g][r] = Unknown
    BY DEF IInv, LogFollowed
  <2>2. r # NoRow => r \in Rows
    <3>1. log[g] \in Seq(Changes)
      BY DEF IInv, ServerTypeOK, Changes
    <3>2. log[g][i] \in Changes
      BY <3>1
    <3> QED BY <3>2 DEF Changes
  <2>3. ASSUME NEW k \in DOMAIN order, r = order[k]
        PROVE  /\ c.version <= authority'[r].version
               /\ g = f => c.version <= rows'[g][r].version
    BY <1>2, <1>4, <1>5, <2>3
  <2> HIDE DEF r, c
  <2>4. CASE r = NoRow
    BY <2>1, <2>4 DEF r, c
  <2>5. CASE r # NoRow /\ \E k \in DOMAIN order : r = order[k]
    <3>1. /\ c.version <= authority'[r].version
          /\ g = f => c.version <= rows'[g][r].version
      BY <2>3, <2>5
    <3>2. g # f => rows'[g][r] = rows[g][r]
      BY <1>2
    <3> QED BY <2>1, <2>5, <3>1, <3>2 DEF r, c
  <2>6. CASE r # NoRow /\ ~\E k \in DOMAIN order : r = order[k]
    <3>1. authority'[r] = authority[r] /\ rows'[g][r] = rows[g][r]
      BY <1>2, <1>5, <2>2, <2>6
    <3> QED BY <2>1, <2>6, <3>1 DEF r, c
  <2> QED BY <2>4, <2>5, <2>6
\* A row change.
<1>6. ASSUME NEW k \in DOMAIN order
      PROVE  /\ ch[k].row # NoRow
             /\ ch[k].cell.version <= authority'[ch[k].row].version
             /\ \/ ch[k].cell.version <= rows'[f][ch[k].row].version
                \/ ch[k].cell.payload = Buried /\ rows'[f][ch[k].row] = Unknown
  <2>1. ch[k].cell.version \in Nat
    BY <1>1, CellFacts
  <2> QED BY <1>0, <1>1, <1>2, <2>1
<1>7. ScopeChange.row = NoRow /\ ScopeChange.cell = Unknown
  BY DEF ScopeChange
<1> HIDE DEF ScopeChange
<1>8. ASSUME NEW g \in Filters, NEW i \in DOMAIN log'[g]
      PROVE  /\ log'[g][i].row = NoRow => log'[g][i].cell = Unknown
             /\ log'[g][i].row # NoRow =>
                   /\ log'[g][i].cell.version <= authority'[log'[g][i].row].version
                   /\ \/ log'[g][i].cell.version <= rows'[g][log'[g][i].row].version
                      \/ log'[g][i].cell.payload = Buried /\ rows'[g][log'[g][i].row] = Unknown
  <2>1. CASE g # f
    <3>1. log'[g] = log[g]
      BY <1>2, <2>1
    <3> QED BY <1>5, <2>1, <3>1
  <2>2. CASE g = f
    <3>1. CASE i \in DOMAIN log[f] /\ log'[f][i] = log[f][i] /\ ~cut
      BY <1>5, <2>2, <3>1
    <3>2. CASE log'[f][i] = ScopeChange
      BY <1>7, <2>2, <3>2
    <3>3. CASE \E k \in DOMAIN order : log'[f][i] = ch[k]
      <4>1. PICK k \in DOMAIN order : log'[f][i] = ch[k]
        BY <3>3
      <4> QED BY <1>6, <2>2, <4>1
    <3> QED BY <1>3, <2>2, <3>1, <3>2, <3>3
  <2> QED BY <2>1, <2>2
<1> QED BY <1>8 DEF LogFollowed

LEMMA ReconcileAdvances ==
    ASSUME IInv, NEW f \in Filters, NEW order \in Orders(f), Reconcile(f, order)
    PROVE  LogAdvances'
<1> DEFINE ch == RowChanges(f, order)
           n  == Kept(f, order)
<1>0. /\ \A g \in Filters \ {f} : log'[g] = log[g]
      /\ n \in Nat
      /\ \A i \in DOMAIN log'[f] :
            /\ i \in Nat
            /\ i <= n => i \in DOMAIN log[f] /\ log'[f][i] = log[f][i]
            /\ i > n => \/ log'[f][i] = ScopeChange
                        \/ \E k \in DOMAIN order : k = i - n /\ log'[f][i] = ch[k]
  BY ReconcileFacts, LogFacts
<1>1. \A i \in DOMAIN order : ch[i].row = order[i]
  BY ChangeFacts
<1>2. \A i, j \in DOMAIN order : order[i] = order[j] => i = j
  BY OrderFacts
<1>3. \A i \in DOMAIN log[f], k \in DOMAIN order :
          log[f][i].row = order[k] => log[f][i].cell.version < ch[k].cell.version
  BY ChangesAreNewer
<1>4. ScopeChange.row = NoRow
  BY DEF ScopeChange
<1> HIDE DEF ch, n, ScopeChange
<1>5. ASSUME NEW g \in Filters, NEW i \in DOMAIN log'[g], NEW j \in DOMAIN log'[g],
             i < j, log'[g][i].row = log'[g][j].row, log'[g][i].row # NoRow
      PROVE  log'[g][i].cell.version < log'[g][j].cell.version
  <2>1. CASE g # f
    BY <1>0, <1>5, <2>1 DEF IInv, LogAdvances
  <2>2. CASE g = f
    <3>0. i \in Nat /\ j \in Nat /\ n \in Nat
      BY <1>0, <2>2
    <3>1. CASE j <= n
      <4>1. i <= n
        BY <1>5, <3>0, <3>1
      <4>2. /\ i \in DOMAIN log[f] /\ log'[f][i] = log[f][i]
            /\ j \in DOMAIN log[f] /\ log'[f][j] = log[f][j]
        BY <1>0, <2>2, <3>1, <4>1
      <4> QED BY <1>5, <2>2, <4>2 DEF IInv, LogAdvances
    <3>2. CASE j > n
      <4>1. PICK k \in DOMAIN order : k = j - n /\ log'[f][j] = ch[k]
        BY <1>0, <1>4, <1>5, <2>2, <3>2
      <4>2. CASE i <= n
        <5>1. i \in DOMAIN log[f] /\ log'[f][i] = log[f][i]
          BY <1>0, <2>2, <4>2
        <5> QED BY <1>1, <1>3, <1>5, <2>2, <4>1, <5>1
      <4>3. CASE i > n
        <5>1. PICK l \in DOMAIN order : l = i - n /\ log'[f][i] = ch[l]
          BY <1>0, <1>4, <1>5, <2>2, <4>3
        <5>2. k = l
          BY <1>1, <1>2, <1>5, <2>2, <4>1, <5>1
        <5> QED BY <1>5, <3>0, <4>1, <5>1, <5>2
      <4> QED BY <3>0, <4>2, <4>3
    <3> QED BY <3>0, <3>1, <3>2
  <2> QED BY <2>1, <2>2
<1> QED BY <1>5 DEF LogAdvances

-----------------------------------------------------------------------------
(* Theorems. *)

\* A step that changes the canonical data only.
LEMMA EditKeeps ==
    ASSUME IInv, UNCHANGED scopeVars, world' \in [Rows -> Payloads \cup {Buried}],
           totals' \in Nat, edits' \in 0..MaxEdits
    PROVE  IInv'
<1>1. /\ principal' = principal /\ authority' = authority /\ rows' = rows
      /\ log' = log /\ epoch' = epoch
  BY DEF scopeVars
<1>2. ServerTypeOK'
  BY <1>1 DEF IInv, ServerTypeOK
<1>3. Versioned' /\ LogFollowed' /\ LogAdvances'
  BY <1>1 DEF IInv, Versioned, Seen, LogFollowed, LogAdvances
<1> QED BY <1>2, <1>3 DEF IInv

\* The invariant holds of every reachable state of the authority.
THEOREM ServerInvariant == ServerSpec => []IInv
<1>1. ServerInit => IInv
  <2> SUFFICES ASSUME ServerInit PROVE IInv
    OBVIOUS
  <2>1. /\ authority = [r \in Rows |-> Unknown] /\ rows = [f \in Filters |-> [r \in Rows |-> Unknown]]
        /\ log = [f \in Filters |-> <<>>] /\ principal = 0 /\ Unknown \in Cells
        /\ Unknown.version = 0
    BY DEF ServerInit, EmptyWindow, Unknown, Cells
  <2>2. ServerTypeOK
    <3>1. Retention \in Nat /\ MaxEdits \in Nat /\ 0 \in 0..MaxEdits
      BY ServerAssumption
    <3>2. <<>> \in Seq([row : Rows \cup {NoRow}, cell : Cells]) /\ Len(<<>>) = 0
      OBVIOUS
    <3>3. /\ log \in [Filters -> Seq([row : Rows \cup {NoRow}, cell : Cells])]
          /\ \A f \in Filters : Len(log[f]) <= Retention
      BY <2>1, <3>1, <3>2
    <3>4. /\ authority \in [Rows -> Cells] /\ rows \in [Filters -> [Rows -> Cells]]
      BY <2>1
    <3> QED BY <2>1, <3>1, <3>3, <3>4 DEF ServerInit, ServerTypeOK
  <2>3. \A f \in Filters : DOMAIN log[f] = {}
    BY <2>1
  <2>4. \A r \in Rows : \A c : Seen(r, c) => c = Unknown
    BY <2>1, <2>3 DEF Seen
  <2>5. Versioned
    BY <2>1, <2>4 DEF Versioned
  <2> QED BY <2>2, <2>3, <2>5 DEF IInv, LogFollowed, LogAdvances
<1>2. IInv /\ [ServerNext]_serverVars => IInv'
  <2> SUFFICES ASSUME IInv, [ServerNext]_serverVars PROVE IInv'
    OBVIOUS
  <2>0. /\ world \in [Rows -> Payloads \cup {Buried}] /\ totals \in Nat /\ edits \in 0..MaxEdits
        /\ MaxEdits \in Nat
    BY ServerAssumption DEF IInv, ServerTypeOK
  <2>1. ASSUME NEW r \in Rows, Edit(r) PROVE IInv'
    <3>1. /\ UNCHANGED scopeVars /\ totals' = totals /\ edits' = edits + 1 /\ edits < MaxEdits
          /\ \E p \in (Payloads \cup {Buried}) \ {world[r]} : world' = [world EXCEPT ![r] = p]
      BY <2>1 DEF Edit
    <3>2. world' \in [Rows -> Payloads \cup {Buried}] /\ edits' \in 0..MaxEdits
      BY <2>0, <3>1
    <3> QED BY <2>0, <3>1, <3>2, EditKeeps
  <2>2. CASE EditTotals
    <3>1. /\ UNCHANGED scopeVars /\ totals' = totals + 1 /\ edits' = edits + 1 /\ edits < MaxEdits
          /\ world' = world
      BY <2>2 DEF EditTotals
    <3>2. totals' \in Nat /\ edits' \in 0..MaxEdits /\ world' \in [Rows -> Payloads \cup {Buried}]
      BY <2>0, <3>1
    <3> QED BY <3>1, <3>2, EditKeeps
  <2>3. ASSUME NEW f \in Filters, NEW order \in Orders(f), Reconcile(f, order) PROVE IInv'
    BY <2>3, ReconcileTyped, ReconcileVersioned, ReconcileFollowed, ReconcileAdvances DEF IInv
  <2>4. CASE UNCHANGED serverVars
    <3>1. UNCHANGED scopeVars /\ world' = world /\ totals' = totals /\ edits' = edits
      BY <2>4 DEF serverVars, worldVars
    <3> QED BY <2>0, <3>1, EditKeeps
  <2> QED BY <2>1, <2>2, <2>3, <2>4 DEF ServerNext
<1> QED BY <1>1, <1>2, PTL DEF ServerSpec

\* The state is well formed, and no log outgrows its retention.
THEOREM ServerTypeCorrect == ServerSpec => []ServerTypeOK
<1>1. IInv => ServerTypeOK
  BY DEF IInv
<1> QED BY <1>1, ServerInvariant, PTL

\* Two logs that report a version of a row report the same fact.
THEOREM VersionsNameFacts == ServerSpec => []VersionNamesOneFact
<1>1. IInv => VersionNamesOneFact
  <2> SUFFICES ASSUME IInv, NEW f \in Filters, NEW g \in Filters,
                      NEW i \in DOMAIN log[f], NEW j \in DOMAIN log[g],
                      log[f][i].row = log[g][j].row,
                      log[f][i].cell.version = log[g][j].cell.version
               PROVE  log[f][i].cell = log[g][j].cell
    BY DEF VersionNamesOneFact
  <2> DEFINE r == log[f][i].row
  <2>1. log[f] \in Seq(Changes) /\ log[g] \in Seq(Changes)
    BY DEF IInv, ServerTypeOK, Changes
  <2>2. log[f][i] \in Changes /\ log[g][j] \in Changes
    BY <2>1
  <2>3. CASE r = NoRow
    BY <2>3 DEF IInv, LogFollowed
  <2>4. CASE r # NoRow
    <3>1. r \in Rows /\ log[f][i].cell \in Cells /\ log[g][j].cell \in Cells
      BY <2>2, <2>4 DEF Changes
    <3>2. Seen(r, log[f][i].cell) /\ Seen(r, log[g][j].cell)
      BY DEF Seen
    <3> HIDE DEF r
    <3> QED BY <3>1, <3>2 DEF IInv, Versioned
  <2> QED BY <2>3, <2>4
<1> QED BY <1>1, ServerInvariant, PTL

\* Versions of a row grow along every log.
THEOREM LogsAdvance == ServerSpec => []LogAdvances
<1>1. IInv => LogAdvances
  BY DEF IInv
<1> QED BY <1>1, ServerInvariant, PTL

\* What (epoch, seq) names never changes: a log is only cut by a new epoch.
THEOREM PositionsStay == ServerSpec => PositionsAreStable
<1>1. ASSUME IInv, [ServerNext]_serverVars, NEW f \in Filters, epoch'[f] = epoch[f]
      PROVE  IsPrefix(log[f], log'[f])
  <2>0. /\ log[f] \in Seq(Changes) /\ log \in [Filters -> Seq(Changes)]
        /\ epoch \in [Filters -> Nat \ {0}]
    BY <1>1 DEF IInv, ServerTypeOK, Changes
  <2>1. CASE log'[f] = log[f]
    BY <2>0, <2>1 DEF IsPrefix
  <2>2. ASSUME NEW g \in Filters, NEW order \in Orders(g), Reconcile(g, order)
        PROVE  IsPrefix(log[f], log'[f])
    <3>1. CASE g # f
      BY <1>1, <2>1, <2>2, <3>1, ReconcileFacts
    <3>2. CASE g = f
      <4>1. epoch' = [epoch EXCEPT ![f] = NextEpoch(f, Pending(f, order))]
        BY <2>2, <3>2 DEF Reconcile
      <4>2. ~RollsOver(f, Pending(f, order))
        <5>1. epoch'[f] = NextEpoch(f, Pending(f, order)) /\ epoch[f] \in Nat
          BY <2>0, <4>1
        <5> QED BY <1>1, <5>1 DEF NextEpoch
      <4>3. log'[f] = log[f] \o Pending(f, order)
        BY <1>1, <2>2, <3>2, <4>2, ReconcileFacts
      <4>4. Pending(f, order) \in Seq(Changes)
        BY <1>1, <3>2, PendingFacts
      <4> DEFINE s == log[f]
                 p == Pending(f, order)
      <4>5. s \in Seq(Changes) /\ p \in Seq(Changes)
        BY <2>0, <4>4
      <4> HIDE DEF s, p
      <4>6. /\ Len(s) \in Nat /\ Len(p) \in Nat /\ Len(s \o p) = Len(s) + Len(p)
            /\ \A i \in 1..Len(s) : (s \o p)[i] = s[i]
        BY <4>5, ConcatProperties, LenProperties
      <4>7. SubSeq(s \o p, 1, Len(s)) = SubSeq(s, 1, Len(s))
        BY <4>5, <4>6
      <4> QED BY <4>3, <4>6, <4>7 DEF IsPrefix, s, p
    <3> QED BY <3>1, <3>2
  <2>3. CASE ~\E g \in Filters : \E order \in Orders(g) : Reconcile(g, order)
    <3>1. UNCHANGED scopeVars
      BY <1>1, <2>3 DEF ServerNext, Edit, EditTotals, serverVars
    <3> QED BY <2>1, <3>1 DEF scopeVars
  <2> QED BY <2>2, <2>3
<1>2. IInv /\ [ServerNext]_serverVars =>
         [\A f \in Filters : epoch'[f] = epoch[f] => IsPrefix(log[f], log'[f])]_serverVars
  BY <1>1
<1> QED BY <1>2, ServerInvariant, PTL DEF ServerSpec, PositionsAreStable

-----------------------------------------------------------------------------
\* The panel of a host, on top of the server.

-----------------------------------------------------------------------------
(* The server does not notice its readers. *)

\* With hosts, a network and pushes around it the authority still behaves as
\* ActivityServer says, so what is proved of it holds here.
THEOREM ServerRunsAlone == Spec => ServerSpec
<1>1. Init => ServerInit
  BY DEF Init
<1>2. [Next]_vars => [ServerNext]_serverVars
  <2> SUFFICES ASSUME [Next]_vars PROVE [ServerNext]_serverVars
    OBVIOUS
  <2>1. CASE World
    BY <2>1 DEF World, ServerNext
  <2>2. ASSUME NEW order \in Orders(Scope), Reconcile(Scope, order) PROVE ServerNext
    BY <2>2, ScopeAssumption DEF ServerNext
  <2>3. CASE OtherReader
    BY <2>2, <2>3 DEF OtherReader
  <2>4. ASSUME NEW c \in Calls, Serve(c) PROVE ServerNext
    BY <2>2, <2>4 DEF Serve
  <2>5. ASSUME NEW c \in Calls,
               \/ Bootstrap(c) \/ Drain(c) \/ Fail(c) \/ ReceiveDrained(c)
               \/ ReceiveBootstrap(c) \/ ConflictThrows(c)
        PROVE  UNCHANGED serverVars
    BY <2>5 DEF Bootstrap, Drain, Fail, ReceiveDrained, ReceiveBootstrap, ConflictThrows
  <2>6. ASSUME NEW e, NEW s, Push(e, s) PROVE UNCHANGED serverVars
    BY <2>6 DEF Push
  <2>7. CASE UNCHANGED vars
    BY <2>7 DEF vars
  <2> QED BY <2>1, <2>3, <2>4, <2>5, <2>6, <2>7 DEF Next
<1> QED BY <1>1, <1>2, PTL DEF Spec, ServerSpec

-----------------------------------------------------------------------------
(* The scope entry of the host. *)

Requests ==
    [kind : {"snapshot"}] \cup
    [kind : {"snapshot"}, reason : {"initial", "epoch_mismatch", "snapshot_required", "sparse_repull"}] \cup
    [kind : {"difference"}, sinceSeq : Nat, epoch : Nat]

\* An entry has a watermark as soon as it has an epoch.
EntryTyped(e) ==
    /\ e.applied \in Nat \cup {Core!NoSeq} /\ e.epoch \in Nat
    /\ (e.epoch = Core!NoEpoch <=> e.applied = Core!NoSeq)
    /\ e.repair \in BOOLEAN /\ e.pending \in Seq(Requests)
    /\ e.state \in [Rows -> Cells]
    /\ (e.repair <=> e.pending # <<>>)

\* What is asked for: a snapshot, or what follows the watermark.
AskedFor(q, e) ==
    /\ q \in Requests
    /\ q.kind = "difference" => q.sinceSeq = e.applied

\* The entry n differs from e in what it asks for.
Repairs(e, n) ==
    /\ n.applied = e.applied /\ n.epoch = e.epoch /\ n.state = e.state /\ n.repair = TRUE
    /\ n.pending \in Seq(Requests) /\ n.pending # <<>>
    /\ \A i \in DOMAIN n.pending :
          AskedFor(n.pending[i], e) \/ \E j \in DOMAIN e.pending : n.pending[i] = e.pending[j]

LEMMA CoreNone == Core!NoSeq = -1 /\ Core!NoEpoch = 0
BY DEF Core!NoSeq, Core!NoEpoch

LEMMA PutFacts ==
    ASSUME NEW p \in Seq(Requests), NEW q \in Requests
    PROVE  /\ Core!PutRequest(p, q) \in Seq(Requests) /\ Core!PutRequest(p, q) # <<>>
           /\ \A i \in DOMAIN Core!PutRequest(p, q) :
                 Core!PutRequest(p, q)[i] = q \/ \E j \in DOMAIN p : Core!PutRequest(p, q)[i] = p[j]
<1>1. CASE \E i \in DOMAIN p : p[i].kind = q.kind
  <2> DEFINE n == [i \in DOMAIN p |-> IF p[i].kind = q.kind THEN q ELSE p[i]]
  <2>1. Core!PutRequest(p, q) = n
    BY <1>1 DEF Core!PutRequest
  <2>2. n \in Seq(Requests) /\ DOMAIN n = DOMAIN p
    OBVIOUS
  <2>3. n # <<>>
    BY <1>1, <2>2
  <2> QED BY <2>1, <2>2, <2>3
<1>2. CASE ~ \E i \in DOMAIN p : p[i].kind = q.kind
  <2>1. Core!PutRequest(p, q) = Append(p, q)
    BY <1>2 DEF Core!PutRequest
  <2>2. /\ Append(p, q) \in Seq(Requests) /\ Append(p, q) # <<>>
        /\ \A i \in DOMAIN Append(p, q) : Append(p, q)[i] = q \/ (i \in DOMAIN p /\ Append(p, q)[i] = p[i])
    OBVIOUS
  <2> QED BY <2>1, <2>2
<1> QED BY <1>1, <1>2

LEMMA AskRepairs ==
    ASSUME NEW e, EntryTyped(e), NEW q, AskedFor(q, e)
    PROVE  Repairs(e, Core!Ask(e, q))
<1>1. PICK p : p = Core!PutRequest(e.pending, q)
  OBVIOUS
<1>2. /\ p \in Seq(Requests) /\ p # <<>>
      /\ \A i \in DOMAIN p : p[i] = q \/ \E j \in DOMAIN e.pending : p[i] = e.pending[j]
  BY <1>1, PutFacts DEF EntryTyped, AskedFor
<1>3. Core!Ask(e, q) = Core!Entry(e.applied, e.print, e.epoch, TRUE, e.state, p)
  BY <1>1 DEF Core!Ask, Core!Asking
<1> QED BY <1>2, <1>3 DEF Repairs, Core!Entry

LEMMA RequestTypes ==
    ASSUME NEW e, EntryTyped(e)
    PROVE  /\ \A reason \in {"initial", "epoch_mismatch", "snapshot_required", "sparse_repull"} :
                 AskedFor(Core!SnapshotRequest(reason), e)
           /\ e.applied # Core!NoSeq => AskedFor(Core!DifferenceRequest(e.applied, e.epoch), e)
BY DEF AskedFor, Requests, Core!SnapshotRequest, Core!DifferenceRequest, EntryTyped

\* A frame is ignored, or asks for something, or is the next of its epoch and
\* is folded.
LEMMA FrameFacts ==
    ASSUME NEW e, EntryTyped(e), NEW ep \in Nat \ {0}, NEW s \in Nat, NEW event
    PROVE  LET n == Core!IngestFrame(e, [seq |-> s, epoch |-> ep, event |-> event])
           IN  \/ n = e
               \/ Repairs(e, n)
               \/ /\ e.applied # Core!NoSeq /\ ep = e.epoch /\ s = e.applied + 1
                  /\ n.applied = s /\ n.epoch = e.epoch /\ n.repair = e.repair
                  /\ n.pending = e.pending /\ n.state = FoldActivityEvent(e.state, event)
<1> DEFINE f == [seq |-> s, epoch |-> ep, event |-> event]
           n == Core!IngestFrame(e, f)
<1>0. f.seq = s /\ f.epoch = ep /\ f.event = event
  OBVIOUS
<1> HIDE DEF f
<1>1. CASE Core!EpochMismatch(e, f.epoch)
  <2>1. n = Core!Ask(e, Core!SnapshotRequest("epoch_mismatch"))
    BY <1>1 DEF Core!IngestFrame
  <2> QED BY <2>1, RequestTypes, AskRepairs DEF f
<1>2. CASE ~Core!EpochMismatch(e, f.epoch) /\ e.applied = Core!NoSeq
  <2>1. n = Core!Ask(e, Core!SnapshotRequest("initial"))
    BY <1>2 DEF Core!IngestFrame, Core!FirstFrame
  <2> QED BY <2>1, RequestTypes, AskRepairs DEF f
<1>3. CASE ~Core!EpochMismatch(e, f.epoch) /\ e.applied # Core!NoSeq
  <2>0. e.applied \in Nat /\ e.epoch # Core!NoEpoch /\ ep = e.epoch
    BY <1>0, <1>3, CoreNone DEF EntryTyped, Core!EpochMismatch
  <2>1. CASE s < e.applied
    <3>1. n = e
      BY <1>0, <1>3, <2>1 DEF Core!IngestFrame
    <3> QED BY <3>1 DEF f
  <2>2. CASE s = e.applied
    <3>1. n = Core!SameVersionFrame(e, f)
      BY <1>0, <1>3, <2>0, <2>2 DEF Core!IngestFrame
    <3>2. n = e \/ n = Core!Ask(e, Core!SnapshotRequest("snapshot_required"))
      BY <3>1 DEF Core!SameVersionFrame
    <3> QED BY <3>2, RequestTypes, AskRepairs DEF f
  <2>3. CASE s > e.applied
    <3>1. n = Core!NewerFrame(e, f)
      BY <1>0, <1>3, <2>0, <2>3 DEF Core!IngestFrame
    <3>2. CASE s = e.applied + 1
      <4>1. n = Core!Entry(s, Core!PrintOf(event), e.epoch, e.repair, FoldActivityEvent(e.state, event), e.pending)
        BY <1>0, <3>1, <3>2 DEF Core!NewerFrame, Core!Accept
      <4>2. /\ n.applied = s /\ n.epoch = e.epoch /\ n.repair = e.repair
            /\ n.pending = e.pending /\ n.state = FoldActivityEvent(e.state, event)
        BY <4>1 DEF Core!Entry
      <4> QED BY <1>3, <2>0, <3>2, <4>2 DEF f
    <3>3. CASE s # e.applied + 1
      <4>1. n = Core!Ask(e, Core!DifferenceRequest(e.applied, e.epoch))
        BY <1>0, <3>1, <3>3 DEF Core!NewerFrame
      <4> QED BY <1>3, <4>1, RequestTypes, AskRepairs DEF f
    <3> QED BY <3>2, <3>3
  <2> QED BY <2>0, <2>1, <2>2, <2>3
<1> QED BY <1>1, <1>2, <1>3

\* A snapshot is stale, or replaces the entry and settles its requests.
LEMMA SnapshotFacts ==
    ASSUME NEW e, EntryTyped(e), NEW body
    PROVE  LET n == Core!IngestSnapshot(e, body)
           IN  \/ n = e
               \/ /\ n.applied = body.watermark /\ n.epoch = body.epoch /\ n.repair = FALSE
                  /\ n.pending = <<>> /\ n.state = StateFromSnapshot(body.state)
                  /\ (body.epoch = e.epoch /\ e.applied # Core!NoSeq /\ body.watermark \in Nat)
                        => body.watermark > e.applied
<1> DEFINE n == Core!IngestSnapshot(e, body)
<1>1. CASE Core!StaleSnapshot(e, body)
  BY <1>1 DEF Core!IngestSnapshot
<1>2. CASE ~Core!StaleSnapshot(e, body)
  <2>1. n = Core!Entry(body.watermark, Core!NoPrint, body.epoch, FALSE, StateFromSnapshot(body.state), <<>>)
    BY <1>2 DEF Core!IngestSnapshot, Core!Clear, Core!Asking, Core!Entry
  <2>2. /\ n.applied = body.watermark /\ n.epoch = body.epoch /\ n.repair = FALSE
        /\ n.pending = <<>> /\ n.state = StateFromSnapshot(body.state)
    BY <2>1 DEF Core!Entry
  <2>3. ASSUME body.epoch = e.epoch, e.applied # Core!NoSeq, body.watermark \in Nat
        PROVE  body.watermark > e.applied
    <3>1. ~(body.watermark < e.applied) /\ body.watermark # e.applied
      BY <1>2, <2>3 DEF Core!StaleSnapshot, NeverSame
    <3> QED BY <2>3, <3>1, CoreNone DEF EntryTyped
  <2> QED BY <2>2, <2>3
<1> QED BY <1>1, <1>2

\* The events of an answer up to a position: one or none.
Single(events, to) == events = {} \/ \E event : events = {[seq |-> to, event |-> event]}

\* The entry n has settled the requests of e and folded the event, if it reaches
\* past the watermark.
Settles(e, n, to, events) ==
    /\ n.epoch = e.epoch /\ n.repair = FALSE /\ n.pending = <<>>
    /\ n.applied = IF to > e.applied THEN to ELSE e.applied
    /\ \/ n.state = e.state /\ (to <= e.applied \/ events = {})
       \/ /\ to > e.applied
          /\ \E event : /\ events = {[seq |-> to, event |-> event]}
                        /\ n.state = FoldActivityEvent(e.state, event)

\* A difference of the epoch held settles the requests.
LEMMA DifferenceFacts ==
    ASSUME NEW e, EntryTyped(e), NEW to \in Nat, e.applied # Core!NoSeq, NEW events, Single(events, to)
    PROVE  Settles(e, Core!IngestDifference(e, [epoch |-> e.epoch, toSeq |-> to, events |-> events,
                                                partial |-> FALSE, snapshotRequired |-> FALSE]), to, events)
<1> DEFINE d == [epoch |-> e.epoch, toSeq |-> to, events |-> events,
                 partial |-> FALSE, snapshotRequired |-> FALSE]
           n == Core!IngestDifference(e, d)
           g == Core!FoldFresh(e, d)
           a == Core!AdvanceTo(g, to)
<1>0. e.applied \in Nat
  BY CoreNone DEF EntryTyped
<1>1. /\ d.epoch = e.epoch /\ d.toSeq = to /\ d.events = events
      /\ d.partial = FALSE /\ d.snapshotRequired = FALSE
  OBVIOUS
<1> HIDE DEF d
<1>2. n = Core!Entry(a.applied, a.print, a.epoch, FALSE, a.state, <<>>)
  <2>1. ~Core!EpochMismatch(e, d.epoch)
    BY <1>1 DEF Core!EpochMismatch
  <2> QED BY <1>1, <2>1 DEF Core!IngestDifference, Core!ApplyDifference, Core!Clear, Core!Asking, Core!Entry
<1>3. /\ n.applied = a.applied /\ n.epoch = a.epoch /\ n.state = a.state
      /\ n.repair = FALSE /\ n.pending = <<>>
  BY <1>2 DEF Core!Entry
<1> DEFINE fresh == {x \in d.events : e.applied = Core!NoSeq \/ x.seq > e.applied}
<1>4. g = IF fresh = {} THEN e
          ELSE Core!Accept(e, (CHOOSE x \in fresh : TRUE).seq, (CHOOSE x \in fresh : TRUE).event)
  BY DEF Core!FoldFresh
<1>5. CASE to <= e.applied \/ events = {}
  <2>0. \A x \in d.events : x.seq = to
    BY <1>1 DEF Single
  <2>1. fresh = {}
    BY <1>0, <1>1, <1>5, <2>0
  <2>2. g = e
    BY <1>4, <2>1
  <2>3. a.epoch = e.epoch /\ a.state = e.state /\ a.applied = IF to > e.applied THEN to ELSE e.applied
    BY <2>2 DEF Core!AdvanceTo, Core!Entry
  <2>4. Settles(e, n, to, events)
    <3> HIDE DEF n, a, g
    <3> QED BY <1>0, <1>3, <1>5, <2>3 DEF Settles
  <2> QED BY <2>4 DEF n, d
<1>6. CASE ~(to <= e.applied) /\ events # {}
  <2>1. PICK event : events = {[seq |-> to, event |-> event]}
    BY <1>6 DEF Single
  <2>2. PICK x : x = [seq |-> to, event |-> event]
    OBVIOUS
  <2>3. to > e.applied /\ x.seq = to /\ x.event = event
    BY <1>0, <1>6, <2>2
  <2>4. fresh = {x}
    BY <1>1, <2>1, <2>2, <2>3
  <2> HIDE DEF fresh
  <2>5. (CHOOSE y \in fresh : TRUE) = x /\ fresh # {}
    BY <2>4
  <2>6. g = Core!Entry(to, Core!PrintOf(event), e.epoch, e.repair, FoldActivityEvent(e.state, event), e.pending)
    BY <1>4, <2>3, <2>5 DEF Core!Accept
  <2>7. g.applied = to /\ g.epoch = e.epoch /\ g.state = FoldActivityEvent(e.state, event)
    BY <2>6 DEF Core!Entry
  <2>8. a = g
    <3> HIDE DEF g
    <3> QED BY <2>7, CoreNone DEF Core!AdvanceTo
  <2>9. n.epoch = e.epoch /\ n.applied = to /\ n.state = FoldActivityEvent(e.state, event)
    BY <1>3, <2>7, <2>8
  <2> HIDE DEF n
  <2>10. Settles(e, n, to, events)
    BY <1>3, <2>1, <2>3, <2>9 DEF Settles
  <2> QED BY <2>10 DEF n, d
<1> QED BY <1>0, <1>5, <1>6
-----------------------------------------------------------------------------
(* Lists of changes. *)

Windows == [Rows -> Cells]

\* The cell is the last one that the changes after a and up to b give row r.
LastCell(ch, a, b, r, cell) ==
    \/ cell = Unknown /\ \A i \in (a + 1)..b : ch[i].row # r
    \/ \E i \in (a + 1)..b : ch[i].row = r /\ ch[i].cell = cell /\ \A j \in (i + 1)..b : ch[j].row # r

\* Changes of rows are versioned, the change of the scope is not.
Numbered(ch) == \A i \in DOMAIN ch : ch[i].row \in Rows => ch[i].cell.version >= 1

\* A set of positions that is not empty has a largest member.
LEMMA MaxIn ==
    ASSUME NEW n \in Nat, NEW S, S \subseteq 1..n, S # {}
    PROVE  Max(S) \in S /\ \A k \in S : k <= Max(S)
<1> DEFINE T == {n - x : x \in S}
<1>0. \A x \in S : x \in Nat /\ x <= n
  OBVIOUS
<1>1. T \subseteq Nat /\ T # {}
  <2>1. \A x \in S : n - x \in Nat
    BY <1>0
  <2> QED BY <2>1
<1>2. PICK m \in T : \A k \in T : ~(k < m)
  <2> HIDE DEF T
  <2> QED BY <1>1, LeastMember
<1>3. PICK x \in S : m = n - x
  BY <1>2
<1>4. \A y \in S : x >= y
  <2> SUFFICES ASSUME NEW y \in S PROVE x >= y
    OBVIOUS
  <2>1. n - y \in T
    OBVIOUS
  <2>2. ~(n - y < n - x)
    BY <1>2, <1>3, <2>1
  <2> QED BY <1>0, <2>2
<1>5. Max(S) \in S /\ \A y \in S : Max(S) >= y
  BY <1>4 DEF Max
<1> QED BY <1>0, <1>5

LEMMA UnknownCell == Unknown \in Cells /\ Unknown.version = 0 /\ Unknown.payload = Buried
BY DEF Unknown, Cells

LEMMA LatestFacts ==
    ASSUME NEW ch \in Seq(Changes), NEW a \in Nat, NEW b \in Nat, a <= b, b <= Len(ch), NEW r \in Rows
    PROVE  /\ LastCell(ch, a, b, r, LatestByRow(SubSeq(ch, a + 1, b))[r])
           /\ LatestByRow(SubSeq(ch, a + 1, b))[r] \in Cells
<1> DEFINE sub == SubSeq(ch, a + 1, b)
           at == {i \in DOMAIN sub : sub[i].row = r}
           cell == LatestByRow(sub)[r]
<1>1. /\ Len(ch) \in Nat /\ sub \in Seq(Changes) /\ DOMAIN sub = 1..(b - a) /\ b - a \in Nat
      /\ \A i \in 1..(b - a) : sub[i] = ch[i + a]
  <2>1. a + 1 \in 1..(Len(ch) + 1) /\ b \in (a + 1) - 1..Len(ch) /\ Len(ch) \in Nat
    OBVIOUS
  <2>2. /\ sub \in Seq(Changes) /\ Len(sub) = IF a + 1 <= b THEN b - (a + 1) + 1 ELSE 0
        /\ \A i \in 1..(b - (a + 1) + 1) : sub[i] = ch[(a + 1) + i - 1]
    BY <2>1, SubSeqProperties
  <2> QED BY <2>1, <2>2
<1> HIDE DEF sub
<1>2. cell = IF at = {} THEN Unknown ELSE sub[Max(at)].cell
  BY DEF LatestByRow
<1>3. CASE at = {}
  <2>1. ASSUME NEW i \in (a + 1)..b PROVE ch[i].row # r
    <3>1. i - a \in 1..(b - a) /\ (i - a) + a = i
      OBVIOUS
    <3>2. sub[i - a] = ch[i] /\ i - a \in DOMAIN sub
      BY <1>1, <3>1
    <3> QED BY <1>3, <3>2
  <2>2. cell = Unknown
    BY <1>2, <1>3
  <2> HIDE DEF cell, at
  <2> QED BY <2>1, <2>2, UnknownCell DEF LastCell, cell, sub
<1>4. CASE at # {}
  <2>1. PICK m : m = Max(at)
    OBVIOUS
  <2>2. m \in at /\ \A k \in at : k <= m
    <3>1. at \subseteq 1..(b - a)
      BY <1>1
    <3> HIDE DEF at
    <3> QED BY <1>1, <1>4, <2>1, <3>1, MaxIn
  <2>3. m \in 1..(b - a) /\ sub[m].row = r /\ sub[m] = ch[m + a] /\ m + a \in (a + 1)..b /\ sub[m] \in Changes
    BY <1>1, <2>2
  <2>4. ASSUME NEW j \in (m + a + 1)..b PROVE ch[j].row # r
    <3>1. j - a \in 1..(b - a) /\ (j - a) + a = j /\ ~(j - a <= m)
      BY <2>3
    <3>2. sub[j - a] = ch[j] /\ j - a \in DOMAIN sub
      BY <1>1, <3>1
    <3> QED BY <2>2, <3>1, <3>2
  <2>5. cell = ch[m + a].cell /\ cell \in Cells
    BY <1>2, <1>4, <2>1, <2>3 DEF Changes
  <2> HIDE DEF cell, at
  <2> QED BY <2>3, <2>4, <2>5 DEF LastCell, cell, sub
<1> QED BY <1>3, <1>4

\* Two last changes of the same list agree.
LEMMA LastUnique ==
    ASSUME NEW ch \in Seq(Changes), Numbered(ch), NEW a \in Nat, NEW b \in Nat, b <= Len(ch), NEW r \in Rows,
           NEW x, NEW y, LastCell(ch, a, b, r, x), LastCell(ch, a, b, r, y)
    PROVE  x = y
<1>1. CASE \A i \in (a + 1)..b : ch[i].row # r
  BY <1>1 DEF LastCell
<1>2. CASE \E i \in (a + 1)..b : ch[i].row = r
  <2>1. PICK i \in (a + 1)..b : ch[i].row = r /\ ch[i].cell = x /\ \A k \in (i + 1)..b : ch[k].row # r
    BY <1>2 DEF LastCell
  <2>2. PICK j \in (a + 1)..b : ch[j].row = r /\ ch[j].cell = y /\ \A k \in (j + 1)..b : ch[k].row # r
    BY <1>2 DEF LastCell
  <2>3. ~(i \in (j + 1)..b) /\ ~(j \in (i + 1)..b)
    BY <2>1, <2>2
  <2>4. i = j
    BY <2>3
  <2> QED BY <2>1, <2>2, <2>4
<1> QED BY <1>1, <1>2

\* The last change of two lists together.
LEMMA LastTogether ==
    ASSUME NEW ch, NEW a \in Nat, NEW b \in Nat, NEW m \in Nat, a <= m, m <= b, NEW r,
           NEW x, NEW y, LastCell(ch, a, m, r, x), LastCell(ch, m, b, r, y)
    PROVE  \/ LastCell(ch, a, b, r, y)
           \/ LastCell(ch, a, b, r, x) /\ y = Unknown
<1>1. CASE \A i \in (m + 1)..b : ch[i].row # r
  <2>1. y = Unknown
    BY <1>1 DEF LastCell
  <2>2. CASE \A i \in (a + 1)..m : ch[i].row # r
    <3>1. x = Unknown /\ \A i \in (a + 1)..b : ch[i].row # r
      BY <1>1, <2>2 DEF LastCell
    <3> QED BY <2>1, <3>1 DEF LastCell
  <2>3. CASE \E i \in (a + 1)..m : ch[i].row = r
    <3>1. PICK i \in (a + 1)..m : ch[i].row = r /\ ch[i].cell = x /\ \A k \in (i + 1)..m : ch[k].row # r
      BY <2>3 DEF LastCell
    <3>2. i \in (a + 1)..b /\ \A k \in (i + 1)..b : ch[k].row # r
      <4>1. \A k \in (i + 1)..b : k \in (i + 1)..m \/ k \in (m + 1)..b
        OBVIOUS
      <4> QED BY <1>1, <3>1, <4>1
    <3> QED BY <2>1, <3>1, <3>2 DEF LastCell
  <2> QED BY <2>2, <2>3
<1>2. CASE \E i \in (m + 1)..b : ch[i].row = r
  <2>1. PICK i \in (m + 1)..b : ch[i].row = r /\ ch[i].cell = y /\ \A k \in (i + 1)..b : ch[k].row # r
    BY <1>2 DEF LastCell
  <2>2. i \in (a + 1)..b
    OBVIOUS
  <2> QED BY <2>1, <2>2 DEF LastCell
<1> QED BY <1>1, <1>2
-----------------------------------------------------------------------------
(* The history of the scope, and what windows have of it. *)

\* The changes of an epoch.
Made(h, e) == [i \in DOMAIN h[e] |-> h[e][i].change]

Histories == Seq(Seq([change : Changes, live : Windows]))

\* The versions of a row at a position: in the live window, and of the change.
VersionsAt(x, r) == {x.live[r].version} \cup (IF x.change.row = r THEN {x.change.cell.version} ELSE {})

\* Nothing a window at position k of epoch e holds is newer than all of the
\* history up to there.
Held(h, w, e, k) ==
    \A r \in Rows : w[r].version = 0 \/
        \E i \in 1..k : \E v \in VersionsAt(h[e][i], r) : w[r].version <= v

\* A row a window at position k shows is as new as all of the history up to
\* there.
Newest(h, w, e, k) ==
    \A r \in Live(w) : \A i \in 1..k : \A v \in VersionsAt(h[e][i], r) : v <= w[r].version

\* A window is exactly what the changes of the epoch up to position k make.
Exact(h, w, e, k) == \A r \in Rows : LastCell(Made(h, e), 0, k, r, w[r])

\* A position of the history.
At(h, e, k) == e \in DOMAIN h /\ k \in DOMAIN h[e]

\* A history with more positions.
Extends(h, g) ==
    /\ g \in Histories
    /\ \A e \in DOMAIN h : /\ e \in DOMAIN g
                           /\ \A k \in DOMAIN h[e] : k \in DOMAIN g[e] /\ g[e][k] = h[e][k]

LEMMA HistoryFacts ==
    ASSUME NEW h \in Histories, NEW e \in DOMAIN h
    PROVE  /\ Len(h[e]) \in Nat /\ DOMAIN h[e] = 1..Len(h[e])
           /\ Made(h, e) \in Seq(Changes) /\ Len(Made(h, e)) = Len(h[e])
           /\ \A k \in DOMAIN h[e] : /\ h[e][k].change \in Changes /\ h[e][k].live \in Windows
                                     /\ Made(h, e)[k] = h[e][k].change
           /\ e \in Nat /\ e >= 1
<1>1. h[e] \in Seq([change : Changes, live : Windows]) /\ e \in 1..Len(h) /\ Len(h) \in Nat
  BY DEF Histories
<1>2. PICK x : x = h[e]
  OBVIOUS
<1>3. /\ x \in Seq([change : Changes, live : Windows]) /\ Len(x) \in Nat /\ DOMAIN x = 1..Len(x)
      /\ \A k \in DOMAIN x : x[k] \in [change : Changes, live : Windows]
  <2>1. PICK T : T = [change : Changes, live : Windows]
    OBVIOUS
  <2>2. x \in Seq(T)
    BY <1>1, <1>2, <2>1
  <2>3. Len(x) \in Nat /\ DOMAIN x = 1..Len(x) /\ \A k \in DOMAIN x : x[k] \in T
    BY <2>2
  <2> QED BY <2>1, <2>2, <2>3
<1>4. \A k \in DOMAIN x : x[k].change \in Changes /\ x[k].live \in Windows
  BY <1>3
<1>5. [i \in DOMAIN x |-> x[i].change] \in Seq(Changes) /\ Len([i \in DOMAIN x |-> x[i].change]) = Len(x)
  BY <1>3, <1>4
<1> QED BY <1>1, <1>2, <1>3, <1>4, <1>5 DEF Made

\* The last change up to a position stays so as the history grows.
LEMMA LastStays ==
    ASSUME NEW h \in Histories, NEW g, Extends(h, g), NEW e, NEW k, At(h, e, k), NEW a \in Nat,
           NEW r, NEW x, LastCell(Made(h, e), a, k, r, x)
    PROVE  LastCell(Made(g, e), a, k, r, x)
<1>1. e \in DOMAIN h /\ e \in DOMAIN g /\ k \in DOMAIN h[e]
  BY DEF At, Extends
<1>2. k \in Nat /\ \A i \in 1..k : i \in DOMAIN h[e]
  BY <1>1, HistoryFacts
<1>3. \A i \in 1..k : g[e][i] = h[e][i] /\ i \in DOMAIN g[e]
  BY <1>1, <1>2 DEF Extends
<1>4. \A i \in 1..k : Made(g, e)[i] = Made(h, e)[i]
  BY <1>2, <1>3 DEF Made
<1>5. \A i \in (a + 1)..k : i \in 1..k /\ \A j \in (i + 1)..k : j \in 1..k
  BY <1>2
<1>6. CASE x = Unknown /\ \A i \in (a + 1)..k : Made(h, e)[i].row # r
  BY <1>4, <1>5, <1>6 DEF LastCell
<1>7. CASE \E i \in (a + 1)..k : Made(h, e)[i].row = r /\ Made(h, e)[i].cell = x
                                 /\ \A j \in (i + 1)..k : Made(h, e)[j].row # r
  <2>1. PICK i \in (a + 1)..k : Made(h, e)[i].row = r /\ Made(h, e)[i].cell = x
                                /\ \A j \in (i + 1)..k : Made(h, e)[j].row # r
    BY <1>7
  <2> QED BY <1>4, <1>5, <2>1 DEF LastCell
<1> QED BY <1>6, <1>7 DEF LastCell

\* What windows have of the history stays true as it grows.
LEMMA WindowsStay ==
    ASSUME NEW h \in Histories, NEW g, Extends(h, g), NEW e, NEW k, At(h, e, k), NEW w
    PROVE  /\ At(g, e, k)
           /\ Held(h, w, e, k) => Held(g, w, e, k)
           /\ Newest(h, w, e, k) => Newest(g, w, e, k)
           /\ Exact(h, w, e, k) => Exact(g, w, e, k)
<1>1. e \in DOMAIN h /\ e \in DOMAIN g /\ k \in DOMAIN h[e] /\ At(g, e, k) /\ g \in Histories
  BY DEF At, Extends
<1>2. k \in Nat /\ \A i \in 1..k : i \in DOMAIN h[e]
  BY <1>1, HistoryFacts
<1>3. \A i \in 1..k : g[e][i] = h[e][i] /\ i \in DOMAIN g[e]
  BY <1>1, <1>2 DEF Extends
<1>4. Held(h, w, e, k) => Held(g, w, e, k)
  BY <1>3 DEF Held
<1>5. Newest(h, w, e, k) => Newest(g, w, e, k)
  BY <1>3 DEF Newest
<1>6. ASSUME Exact(h, w, e, k) PROVE Exact(g, w, e, k)
  <2> SUFFICES ASSUME NEW r \in Rows PROVE LastCell(Made(g, e), 0, k, r, w[r])
    BY DEF Exact
  <2>1. LastCell(Made(h, e), 0, k, r, w[r])
    BY <1>6 DEF Exact
  <2> QED BY <2>1, LastStays
<1> QED BY <1>1, <1>4, <1>5, <1>6

LEMMA WindowCells ==
    ASSUME NEW w \in Windows, NEW r \in Rows
    PROVE  /\ w[r] \in Cells /\ w[r].version \in Nat /\ w[r].payload \in Payloads \cup {Buried}
BY DEF Windows, Cells

LEMMA VersionsNat ==
    ASSUME NEW h \in Histories, NEW e, NEW k, At(h, e, k), NEW r \in Rows
    PROVE  VersionsAt(h[e][k], r) \subseteq Nat /\ h[e][k].live[r].version \in VersionsAt(h[e][k], r)
<1>1. h[e][k].change \in Changes /\ h[e][k].live \in Windows
  BY HistoryFacts DEF At
<1>2. h[e][k].change.cell.version \in Nat /\ h[e][k].live[r].version \in Nat
  <2>1. h[e][k].change.cell \in Cells
    BY <1>1 DEF Changes
  <2> QED BY <1>1, <2>1, CellFacts, WindowCells
<1> QED BY <1>2 DEF VersionsAt

\* A newer window of the epoch shows no row in an older version.
LEMMA ShownNoOlder ==
    ASSUME NEW h \in Histories, NEW e, NEW j, At(h, e, j), NEW k, At(h, e, k), j <= k,
           NEW w \in Windows, Held(h, w, e, j), NEW x \in Windows, Newest(h, x, e, k), NEW r \in Live(x)
    PROVE  x[r].version >= w[r].version
<1>0. r \in Rows /\ x[r].version \in Nat /\ w[r].version \in Nat
  BY WindowCells DEF Live
<1>1. CASE w[r].version = 0
  BY <1>0, <1>1
<1>2. CASE w[r].version # 0
  <2>1. PICK i \in 1..j : \E v \in VersionsAt(h[e][i], r) : w[r].version <= v
    BY <1>0, <1>2 DEF Held
  <2>2. PICK v \in VersionsAt(h[e][i], r) : w[r].version <= v
    BY <2>1
  <2>3. i \in 1..k /\ At(h, e, i)
    <3>1. j \in Nat /\ k \in Nat /\ DOMAIN h[e] = 1..Len(h[e]) /\ Len(h[e]) \in Nat /\ k \in DOMAIN h[e]
      BY HistoryFacts DEF At
    <3> QED BY <3>1 DEF At
  <2>4. v <= x[r].version /\ v \in Nat
    BY <1>0, <2>3, VersionsNat DEF Newest
  <2> QED BY <1>0, <2>2, <2>4
<1> QED BY <1>1, <1>2

-----------------------------------------------------------------------------
(* Folding. *)

LEMMA FoldTyped ==
    ASSUME NEW w \in Windows, NEW cells \in Windows
    PROVE  /\ ApplyRowsAndTombstones(w, cells) \in Windows
           /\ \A r \in Rows :
                 ApplyRowsAndTombstones(w, cells)[r] = IF Newer(w[r], cells[r]) THEN cells[r] ELSE w[r]
           /\ \A r \in Rows : ApplyRowsAndTombstones(w, cells)[r].version >= w[r].version
<1>1. \A r \in Rows : w[r] \in Cells /\ cells[r] \in Cells /\ w[r].version \in Nat /\ cells[r].version \in Nat
  BY WindowCells
<1>2. ASSUME NEW r \in Rows, Newer(w[r], cells[r]) PROVE cells[r].version >= w[r].version
  BY <1>1, <1>2 DEF Newer
<1>3. ASSUME NEW r \in Rows PROVE w[r].version >= w[r].version
  <2>1. PICK v \in Nat : v = w[r].version
    BY <1>1
  <2> QED BY <2>1
<1>4. \A r \in Rows : ApplyRowsAndTombstones(w, cells)[r] = IF Newer(w[r], cells[r]) THEN cells[r] ELSE w[r]
  BY DEF ApplyRowsAndTombstones
<1>5. ApplyRowsAndTombstones(w, cells) \in Windows
  BY <1>1 DEF ApplyRowsAndTombstones, Windows
<1> QED BY <1>2, <1>3, <1>4, <1>5

\* A snapshot is taken as it is.
LEMMA SnapshotTaken ==
    ASSUME NEW w \in Windows, \A r \in Rows : w[r].version = 0 => w[r] = Unknown
    PROVE  StateFromSnapshot(w) = w
<1>1. ASSUME NEW r \in Rows PROVE (IF Newer(Unknown, w[r]) THEN w[r] ELSE Unknown) = w[r]
  BY WindowCells, UnknownCell DEF Newer
<1>2. StateFromSnapshot(w) = [r \in Rows |-> IF Newer(Unknown, w[r]) THEN w[r] ELSE Unknown]
  BY DEF StateFromSnapshot, ApplyRowsAndTombstones, EmptyWindow
<1>3. [r \in Rows |-> IF Newer(Unknown, w[r]) THEN w[r] ELSE Unknown] = [r \in Rows |-> w[r]]
  BY <1>1
<1> QED BY <1>2, <1>3 DEF Windows
\* Versions of a row grow along a list of changes.
Advancing(ch) ==
    \A i, j \in DOMAIN ch :
        (i < j /\ ch[i].row = ch[j].row /\ ch[i].row \in Rows) => ch[i].cell.version < ch[j].cell.version

\* Folding the last changes up to a position adds nothing newer.
LEMMA FoldHeld ==
    ASSUME NEW h \in Histories, NEW e, NEW j, At(h, e, j), NEW k, At(h, e, k), j <= k, NEW a \in Nat,
           NEW w \in Windows, Held(h, w, e, j), NEW cells \in Windows,
           \A r \in Rows : LastCell(Made(h, e), a, k, r, cells[r])
    PROVE  Held(h, ApplyRowsAndTombstones(w, cells), e, k)
<1> DEFINE n == ApplyRowsAndTombstones(w, cells)
<1>0. /\ j \in Nat /\ k \in Nat /\ e \in DOMAIN h
      /\ DOMAIN h[e] = 1..Len(h[e]) /\ Len(h[e]) \in Nat /\ k \in DOMAIN h[e]
  BY HistoryFacts DEF At
<1> SUFFICES ASSUME NEW r \in Rows, n[r].version # 0
             PROVE  \E i \in 1..k : \E v \in VersionsAt(h[e][i], r) : n[r].version <= v
  BY DEF Held
<1>1. n[r] = cells[r] \/ n[r] = w[r]
  BY FoldTyped
<1> HIDE DEF n
<1>2. CASE n[r] = w[r]
  <2>1. PICK i \in 1..j : \E v \in VersionsAt(h[e][i], r) : w[r].version <= v
    BY <1>2 DEF Held
  <2>2. i \in 1..k
    BY <1>0
  <2> QED BY <1>2, <2>1, <2>2
<1>3. CASE n[r] = cells[r]
  <2>1. cells[r] # Unknown
    BY <1>3, UnknownCell
  <2>2. PICK i \in (a + 1)..k : Made(h, e)[i].row = r /\ Made(h, e)[i].cell = cells[r]
    BY <2>1 DEF LastCell
  <2>3. i \in 1..k /\ i \in DOMAIN h[e] /\ h[e][i].change = Made(h, e)[i]
    BY <1>0, HistoryFacts
  <2>4. cells[r].version \in VersionsAt(h[e][i], r)
    BY <2>2, <2>3 DEF VersionsAt
  <2>5. PICK v : v = cells[r].version
    OBVIOUS
  <2>6. v \in Nat
    BY <2>5, WindowCells
  <2>7. v <= v
    BY <2>6
  <2> QED BY <1>3, <2>3, <2>4, <2>5, <2>7
<1> QED BY <1>1, <1>2, <1>3

\* Folding the last changes since a position at or before the window's makes
\* the window of the later position.
LEMMA FoldExact ==
    ASSUME NEW h \in Histories, NEW e, NEW j, At(h, e, j), NEW k, At(h, e, k), j <= k,
           NEW a \in Nat, a <= j, Numbered(Made(h, e)), Advancing(Made(h, e)),
           NEW w \in Windows, Exact(h, w, e, j), NEW cells \in Windows,
           \A r \in Rows : LastCell(Made(h, e), a, k, r, cells[r])
    PROVE  Exact(h, ApplyRowsAndTombstones(w, cells), e, k)
<1> SUFFICES ASSUME NEW r \in Rows PROVE LastCell(Made(h, e), 0, k, r, ApplyRowsAndTombstones(w, cells)[r])
  BY DEF Exact
<1>0. /\ j \in Nat /\ k \in Nat /\ e \in DOMAIN h
      /\ Made(h, e) \in Seq(Changes) /\ DOMAIN Made(h, e) = 1..Len(Made(h, e))
      /\ Len(Made(h, e)) \in Nat /\ k <= Len(Made(h, e))
  BY HistoryFacts DEF At
<1>1. PICK ch, n, x, y : /\ ch = Made(h, e) /\ n = ApplyRowsAndTombstones(w, cells)[r]
                         /\ x = w[r] /\ y = cells[r]
  OBVIOUS
<1>2. /\ n = IF Newer(x, y) THEN y ELSE x
      /\ x \in Cells /\ y \in Cells /\ x.version \in Nat /\ y.version \in Nat
  BY <1>1, FoldTyped, WindowCells
<1>3. LastCell(ch, 0, j, r, x) /\ LastCell(ch, a, k, r, y)
  BY <1>1 DEF Exact
<1>4. CASE y = Unknown /\ \A i \in (a + 1)..k : ch[i].row # r
  <2>1. n = x
    BY <1>2, <1>4, UnknownCell DEF Newer
  <2>2. \A i \in (j + 1)..k : i \in (a + 1)..k
    BY <1>0
  <2>3. LastCell(ch, j, k, r, Unknown)
    BY <1>4, <2>2 DEF LastCell
  <2>4. LastCell(ch, 0, k, r, Unknown) \/ LastCell(ch, 0, k, r, x)
    BY <1>0, <1>3, <2>3, LastTogether
  <2>5. CASE LastCell(ch, 0, k, r, x)
    BY <1>1, <2>1, <2>5
  <2>6. CASE LastCell(ch, 0, k, r, Unknown)
    <3>1. \A i \in (0 + 1)..k : ch[i].row # r
      <4> SUFFICES ASSUME NEW i \in (0 + 1)..k, ch[i].row = r, ch[i].cell = Unknown PROVE FALSE
        BY <2>6 DEF LastCell
      <4>1. i \in DOMAIN ch
        BY <1>0, <1>1
      <4>2. ch[i].cell.version >= 1
        BY <1>1, <4>1 DEF Numbered
      <4> QED BY <4>2, UnknownCell
    <3>2. x = Unknown
      BY <1>0, <1>3, <3>1 DEF LastCell
    <3> QED BY <1>1, <2>1, <2>6, <3>2
  <2> QED BY <2>4, <2>5, <2>6
<1>5. CASE \E i \in (a + 1)..k : ch[i].row = r /\ ch[i].cell = y /\ \A l \in (i + 1)..k : ch[l].row # r
  <2>1. PICK i \in (a + 1)..k : ch[i].row = r /\ ch[i].cell = y /\ \A l \in (i + 1)..k : ch[l].row # r
    BY <1>5
  <2>2. i \in Nat /\ i \in (0 + 1)..k /\ i \in DOMAIN ch /\ y.version >= 1
    <3>1. i \in Nat /\ i \in (0 + 1)..k /\ i \in DOMAIN ch
      BY <1>0, <1>1
    <3> QED BY <1>1, <2>1, <3>1 DEF Numbered
  <2>3. LastCell(ch, 0, k, r, y)
    BY <2>1, <2>2 DEF LastCell
  <2>4. CASE i <= j
    <3>1. i \in (0 + 1)..j /\ \A l \in (i + 1)..j : l \in (i + 1)..k
      BY <1>0, <2>2, <2>4
    <3>2. LastCell(ch, 0, j, r, y)
      BY <2>1, <3>1 DEF LastCell
    <3>3. x = y
      BY <1>0, <1>1, <1>3, <3>2, LastUnique
    <3> QED BY <1>1, <1>2, <2>3, <3>3
  <2>5. CASE i > j
    <3>1. x.version < y.version
      <4>1. CASE x = Unknown
        BY <1>2, <2>2, <4>1, UnknownCell
      <4>2. CASE x # Unknown
        <5>1. PICK l \in (0 + 1)..j : ch[l].row = r /\ ch[l].cell = x
          BY <1>3, <4>2 DEF LastCell
        <5>2. l \in DOMAIN ch /\ l < i
          BY <1>0, <1>1, <2>2, <2>5
        <5> QED BY <1>1, <2>1, <2>2, <5>1, <5>2 DEF Advancing
      <4> QED BY <4>1, <4>2
    <3>2. n = y
      BY <1>2, <3>1 DEF Newer
    <3> QED BY <1>1, <2>3, <3>2
  <2> QED BY <1>0, <2>2, <2>4, <2>5
<1> QED BY <1>3, <1>4, <1>5 DEF LastCell
-----------------------------------------------------------------------------
(* The inductive invariant. *)

\* The server is in its first epoch.
First == epoch[Scope] = 1

\* What a window shows of a cell.
ShownOf(cell) == IF cell.payload = Buried THEN Unknown ELSE cell

\* The live window at a position of the first epoch is what the changes make.
LiveExact(h, k) ==
    \A r \in Rows : \E cell \in {Unknown} \cup {Made(h, 1)[i].cell : i \in 1..k} :
        LastCell(Made(h, 1), 0, k, r, cell) /\ h[1][k].live[r] = ShownOf(cell)

\* The row authorities are as new as the window and as every live window of the
\* epoch, and so is the window but for the rows it has forgotten.
RowsFollow(h) ==
    \A r \in Rows :
        /\ rows[Scope][r].version <= authority[r].version
        /\ \A i \in DOMAIN log[Scope] :
              LET v == h[epoch[Scope]][i].live[r].version
              IN  v <= authority[r].version /\ (v <= rows[Scope][r].version \/ rows[Scope][r] = Unknown)

\* The history of the scope tells its log and its window.
HistoryOk ==
    /\ history \in Histories /\ Len(history) = epoch[Scope]
    /\ Made(history, epoch[Scope]) = log[Scope] /\ Numbered(log[Scope])
    /\ log[Scope] = <<>> => digest[Scope] = NoDigest
    /\ RowsFollow(history)
    /\ Held(history, rows[Scope], epoch[Scope], Len(log[Scope]))
    /\ First => /\ Exact(history, rows[Scope], 1, Len(log[Scope]))
                /\ \A k \in DOMAIN history[1] : LiveExact(history, k)

\* What an entry holds is what the history says, in the first epoch exactly.
EntryTrue(e) ==
    e.applied # Core!NoSeq =>
        /\ At(history, e.epoch, e.applied)
        /\ Held(history, e.state, e.epoch, e.applied)
        /\ First => Exact(history, e.state, e.epoch, e.applied)

Bodies ==
    [kind : {"snapshot"}, watermark : Nat, epoch : Nat \ {0}, state : Windows] \cup
    [kind : {"snapshotRequired"}, epoch : Nat \ {0}] \cup
    [kind : {"notModified"}, watermark : Nat, epoch : Nat \ {0}] \cup
    [kind : {"difference"}, epoch : Nat \ {0}, toSeq : Nat, event : [totals : {TRUE}, cells : Windows]]

\* An answer, however late it is taken, is to what was asked and still true.
SnapshotTrue(body) ==
    /\ At(history, body.epoch, body.watermark)
    /\ Held(history, body.state, body.epoch, body.watermark)
    /\ Newest(history, body.state, body.epoch, body.watermark)
    /\ \A r \in Rows : body.state[r].version = 0 => body.state[r] = Unknown
    /\ First => Exact(history, body.state, body.epoch, body.watermark)

NotModifiedTrue(asked, body) ==
    /\ body.epoch = asked.epoch /\ body.watermark = asked.sinceSeq
    /\ At(history, body.epoch, body.watermark)

DifferenceTrue(asked, body) ==
    /\ body.epoch = asked.epoch /\ asked.sinceSeq <= body.toSeq
    /\ At(history, body.epoch, body.toSeq)
    /\ \A r \in Rows :
          LastCell(Made(history, body.epoch), asked.sinceSeq, body.toSeq, r, body.event.cells[r])

BodyTrue(asked, body) ==
    /\ body \in Bodies
    /\ body.kind = "snapshot" <=> asked.kind = "snapshot"
    /\ body.kind = "snapshot" => SnapshotTrue(body)
    /\ body.kind = "notModified" => NotModifiedTrue(asked, body)
    /\ body.kind = "difference" => DifferenceTrue(asked, body)

CallTyped(x) ==
    \/ x = Idle
    \/ /\ x \in [at : {"sent", "answered"}, bootstrap : BOOLEAN, asked : Requests,
                 todo : Seq(Requests), body : {x.body}]
       /\ x.bootstrap => x.asked.kind = "snapshot"

CallOk(x) == CallTyped(x) /\ (x.at = "answered" => BodyTrue(x.asked, x.body))

\* In the first epoch no difference is asked for from past the watermark.
SinceOk(q, e) == (First /\ q.kind = "difference") => q.sinceSeq <= e.applied

CallSince(x, e) ==
    x.at # "idle" => SinceOk(x.asked, e) /\ \A i \in DOMAIN x.todo : SinceOk(x.todo[i], e)

\* The difference whose answer is expected was asked for in the epoch held.
Correlated(c, x, e, out) ==
    (out = c /\ x.at # "idle" /\ ~x.bootstrap /\ x.asked.kind = "difference") => x.asked.epoch = e.epoch

HostOk ==
    /\ EntryTyped(entry) /\ EntryTrue(entry)
    /\ \A i \in DOMAIN entry.pending : SinceOk(entry.pending[i], entry)
    /\ DOMAIN call = Calls
    /\ \A c \in Calls : /\ CallOk(call[c]) /\ CallSince(call[c], entry)
                        /\ Correlated(c, call[c], entry, outstanding)

SInv == HistoryOk /\ HostOk
-----------------------------------------------------------------------------
(* A reconciliation of the scope. *)

LEMMA LastShift ==
    ASSUME NEW c, NEW d, NEW n \in Nat, NEW k \in Nat, \A j \in 1..k : d[n + j] = c[j],
           NEW r, NEW x, LastCell(c, 0, k, r, x)
    PROVE  LastCell(d, n, n + k, r, x)
<1>1. ASSUME NEW i \in (n + 1)..(n + k)
      PROVE  i - n \in 1..k /\ d[i] = c[i - n]
  <2>1. i - n \in 1..k /\ n + (i - n) = i
    OBVIOUS
  <2> QED BY <2>1
<1>2. CASE x = Unknown /\ \A i \in (0 + 1)..k : c[i].row # r
  BY <1>1, <1>2 DEF LastCell
<1>3. CASE \E i \in (0 + 1)..k : c[i].row = r /\ c[i].cell = x /\ \A j \in (i + 1)..k : c[j].row # r
  <2>1. PICK i \in 1..k : c[i].row = r /\ c[i].cell = x /\ \A j \in (i + 1)..k : c[j].row # r
    BY <1>3
  <2>2. n + i \in (n + 1)..(n + k) /\ d[n + i] = c[i]
    OBVIOUS
  <2>3. ASSUME NEW j \in (n + i + 1)..(n + k) PROVE d[j].row # r
    <3>1. j \in (n + 1)..(n + k) /\ j - n \in (i + 1)..k
      OBVIOUS
    <3> QED BY <1>1, <2>1, <3>1
  <2> QED BY <2>1, <2>2, <2>3 DEF LastCell
<1> QED BY <1>2, <1>3 DEF LastCell

\* A cell that is the last of its row is Unknown only if the row has no change.
LEMMA LastJoined ==
    ASSUME NEW ch \in Seq(Changes), Numbered(ch), NEW n \in Nat, NEW b \in Nat, n <= b, b <= Len(ch),
           NEW r \in Rows, NEW x, NEW y, LastCell(ch, 0, n, r, x), LastCell(ch, n, b, r, y)
    PROVE  LastCell(ch, 0, b, r, IF y = Unknown THEN x ELSE y)
<1>1. LastCell(ch, 0, b, r, y) \/ (LastCell(ch, 0, b, r, x) /\ y = Unknown)
  BY LastTogether
<1>2. CASE y = Unknown /\ LastCell(ch, 0, b, r, Unknown)
  <2>1. \A i \in (0 + 1)..b : ch[i].row # r
    <3> SUFFICES ASSUME NEW i \in (0 + 1)..b, ch[i].row = r, ch[i].cell = Unknown PROVE FALSE
      BY <1>2 DEF LastCell
    <3>1. i \in DOMAIN ch
      OBVIOUS
    <3>2. ch[i].cell.version >= 1
      BY <3>1 DEF Numbered
    <3> QED BY <3>2, UnknownCell
  <2>2. \A i \in (0 + 1)..n : i \in (0 + 1)..b
    OBVIOUS
  <2>3. x = Unknown
    BY <2>1, <2>2 DEF LastCell
  <2> QED BY <1>2, <2>3
<1> QED BY <1>1, <1>2

LEMMA LastIn ==
    ASSUME NEW ch, NEW k, NEW r, NEW x, LastCell(ch, 0, k, r, x)
    PROVE  x \in {Unknown} \cup {ch[i].cell : i \in 1..k}
BY DEF LastCell

Noted == [change : Changes, live : Windows]

\* A new epoch.
LEMMA HistoryCut ==
    ASSUME NEW h \in Histories, NEW e \in Nat, e >= 1, Len(h) = e, NEW logged \in Seq(Noted),
           NEW g, g = Append(h, logged)
    PROVE  Extends(h, g) /\ Len(g) = e + 1 /\ e + 1 \in DOMAIN g /\ g[e + 1] = logged
<1>0. PICK T : T = Seq(Noted)
  OBVIOUS
<1>1. h \in Seq(T) /\ logged \in T /\ DOMAIN h = 1..e
  <2>1. h \in Seq(T) /\ logged \in T
    BY <1>0 DEF Histories, Noted
  <2> QED BY <2>1
<1>2. /\ g \in Seq(T) /\ Len(g) = e + 1 /\ DOMAIN g = 1..(e + 1) /\ g[e + 1] = logged
      /\ \A i \in 1..e : g[i] = h[i]
  BY <1>1, AppendProperties
<1>3. g \in Histories
  BY <1>0, <1>2 DEF Histories, Noted
<1>4. Extends(h, g)
  BY <1>1, <1>2, <1>3 DEF Extends
<1> QED BY <1>2, <1>4

Longer(h, g, e, x, s, logged) ==
    /\ Extends(h, g) /\ Len(g) = e /\ e \in DOMAIN g /\ g[e] = s
    /\ Len(x) \in Nat /\ Len(s) = Len(x) + Len(logged) /\ DOMAIN s = 1..(Len(x) + Len(logged))
    /\ \A i \in 1..Len(x) : s[i] = x[i]
    /\ \A i \in 1..Len(logged) : s[Len(x) + i] = logged[i]

\* More positions of the last epoch.
LEMMA HistoryGrows ==
    ASSUME NEW h \in Histories, NEW e \in Nat, e >= 1, Len(h) = e, NEW logged \in Seq(Noted),
           NEW x, x = h[e], NEW s, s = x \o logged, NEW g, g = [h EXCEPT ![e] = s]
    PROVE  Longer(h, g, e, x, s, logged)
<1>0. PICK T : T = Seq(Noted)
  OBVIOUS
<1>1. h \in Seq(T) /\ DOMAIN h = 1..e /\ e \in DOMAIN h /\ x \in T
  <2>1. h \in Seq(T)
    BY <1>0 DEF Histories, Noted
  <2> QED BY <2>1
<1>2. x \in Seq(Noted) /\ Len(x) \in Nat /\ DOMAIN x = 1..Len(x) /\ Len(logged) \in Nat
  <2>1. x \in Seq(Noted)
    BY <1>0, <1>1
  <2> QED BY <2>1, LenProperties
<1>3. PICK n, m : n = Len(x) /\ m = Len(logged)
  OBVIOUS
<1>4. /\ s \in Seq(Noted) /\ Len(s) = n + m /\ DOMAIN s = 1..(n + m)
      /\ \A i \in 1..n : s[i] = x[i]
      /\ \A i \in 1..m : s[n + i] = logged[i]
  <2>1. /\ s \in Seq(Noted) /\ Len(s) = n + m
        /\ \A i \in 1..n : s[i] = x[i]
        /\ \A i \in (n + 1)..(n + m) : s[i] = logged[i - n]
    <3>1. /\ x \o logged \in Seq(Noted) /\ Len(x \o logged) = Len(x) + Len(logged)
          /\ \A i \in 1..(Len(x) + Len(logged)) :
                (x \o logged)[i] = IF i <= Len(x) THEN x[i] ELSE logged[i - Len(x)]
      BY <1>2, ConcatProperties
    <3>2. \A i \in 1..(n + m) : s[i] = IF i <= n THEN x[i] ELSE logged[i - n]
      BY <1>3, <3>1
    <3>3. /\ \A i \in 1..n : i \in 1..(n + m) /\ i <= n
          /\ \A i \in (n + 1)..(n + m) : i \in 1..(n + m) /\ ~(i <= n)
      BY <1>2, <1>3
    <3>4. \A i \in 1..n : s[i] = x[i]
      BY <3>2, <3>3
    <3>5. \A i \in (n + 1)..(n + m) : s[i] = logged[i - n]
      BY <3>2, <3>3
    <3>6. s \in Seq(Noted) /\ Len(s) = n + m
      BY <1>3, <3>1
    <3> QED BY <3>4, <3>5, <3>6
  <2>2. DOMAIN s = 1..(n + m)
    BY <2>1, LenProperties
  <2>3. \A i \in 1..m : n + i \in (n + 1)..(n + m) /\ (n + i) - n = i
    BY <1>2, <1>3
  <2>4. \A i \in 1..m : s[n + i] = logged[i]
    BY <2>1, <2>3
  <2> QED BY <2>1, <2>2, <2>4
<1>5. /\ g \in Seq(T) /\ Len(g) = e /\ DOMAIN g = 1..e /\ g[e] = s /\ \A i \in (1..e) \ {e} : g[i] = h[i]
  <2>1. s \in T
    BY <1>0, <1>4
  <2>2. g \in [1..e -> T] /\ g[e] = s /\ \A i \in (1..e) \ {e} : g[i] = h[i]
    BY <1>1, <2>1
  <2>3. DOMAIN g = 1..e
    BY <2>2
  <2>4. PICK y : y = g
    OBVIOUS
  <2>5. y \in [1..e -> T]
    BY <2>2, <2>4
  <2>6. y \in Seq(T)
    BY <2>5, SeqDef
  <2>7. Len(y) = e
    BY <2>3, <2>4, <2>6, LenProperties
  <2> QED BY <2>2, <2>3, <2>4, <2>6, <2>7
<1>6. g \in Histories
  BY <1>0, <1>5 DEF Histories, Noted
<1>7. ASSUME NEW d \in DOMAIN h
      PROVE  d \in DOMAIN g /\ \A k \in DOMAIN h[d] : k \in DOMAIN g[d] /\ g[d][k] = h[d][k]
  <2>1. CASE d = e
    <3>1. \A k \in DOMAIN x : k \in 1..n /\ k \in 1..(n + m)
      BY <1>2, <1>3
    <3> QED BY <1>1, <1>4, <1>5, <2>1, <3>1
  <2>2. CASE d # e
    BY <1>1, <1>5, <2>2
  <2> QED BY <2>1, <2>2
<1>8. Extends(h, g)
  BY <1>6, <1>7 DEF Extends
<1> QED BY <1>1, <1>2, <1>3, <1>4, <1>5, <1>8 DEF Longer

\* The cell of a row after the first i pending changes.
After(p, i, r) ==
    LET cell == LatestByRow(SubSeq(p, 1, i))[r] IN IF cell = Unknown THEN rows[Scope][r] ELSE cell

\* What a reconciliation adds to the history: from position n on the changes p,
\* in the epoch there is after it.
Added(p, n) ==
    LET g == history'
        E == epoch'[Scope]
    IN  /\ Extends(history, g) /\ Len(g) = E /\ E \in DOMAIN g /\ n \in Nat
        /\ Len(g[E]) = n + Len(p) /\ Len(log'[Scope]) = n + Len(p)
        /\ \A i \in 1..n : /\ E = epoch[Scope] /\ i \in DOMAIN log[Scope]
                           /\ g[E][i] = history[E][i] /\ log'[Scope][i] = log[Scope][i]
        /\ \A i \in 1..Len(p) : /\ g[E][n + i].change = p[i] /\ log'[Scope][n + i] = p[i]
                                /\ \A r \in Rows : g[E][n + i].live[r] = ShownOf(After(p, i, r))
        /\ Made(g, E) = log'[Scope]

LEMMA AnnotatedFacts ==
    ASSUME NEW w \in Windows, w = rows[Scope], NEW p \in Seq(Changes)
    PROVE  /\ Annotated(w, p) \in Seq(Noted) /\ Len(Annotated(w, p)) = Len(p)
           /\ \A i \in 1..Len(p) :
                 /\ Annotated(w, p)[i].change = p[i]
                 /\ \A r \in Rows : Annotated(w, p)[i].live[r] = ShownOf(After(p, i, r))
<1>0. Len(p) \in Nat /\ DOMAIN p = 1..Len(p)
  OBVIOUS
<1> DEFINE live(i) == WithoutTombstones(Replay(w, SubSeq(p, 1, i)))
<1>1. ASSUME NEW i \in 1..Len(p)
      PROVE  /\ live(i) \in Windows
             /\ \A r \in Rows : live(i)[r] = ShownOf(After(p, i, r))
  <2>1. ASSUME NEW r \in Rows PROVE After(p, i, r) \in Cells
    <3>1. LatestByRow(SubSeq(p, 0 + 1, i))[r] \in Cells
      BY <1>0, LatestFacts
    <3>2. 0 + 1 = 1
      OBVIOUS
    <3>3. LatestByRow(SubSeq(p, 1, i))[r] \in Cells
      BY <3>1, <3>2
    <3> QED BY <3>3, WindowCells DEF After
  <2>2. Replay(w, SubSeq(p, 1, i)) = [r \in Rows |-> After(p, i, r)]
    BY DEF Replay, After
  <2>3. live(i) = [r \in Rows |-> ShownOf(After(p, i, r))]
    BY <2>2 DEF WithoutTombstones, ShownOf
  <2>4. \A r \in Rows : ShownOf(After(p, i, r)) \in Cells
    BY <2>1, UnknownCell DEF ShownOf
  <2> QED BY <2>3, <2>4 DEF Windows
<1> HIDE DEF live
<1>2. Annotated(w, p) = [i \in 1..Len(p) |-> [change |-> p[i], live |-> live(i)]]
  BY <1>0 DEF Annotated, live
<1>3. \A i \in 1..Len(p) : p[i] \in Changes /\ [change |-> p[i], live |-> live(i)] \in Noted
  BY <1>0, <1>1 DEF Noted
<1>4. PICK a, T : a = Annotated(w, p) /\ T = Noted
  OBVIOUS
<1>5. a \in [1..Len(p) -> T] /\ \A i \in 1..Len(p) : a[i] = [change |-> p[i], live |-> live(i)]
  BY <1>2, <1>3, <1>4
<1>6. a \in Seq(T) /\ Len(a) = Len(p)
  BY <1>0, <1>5, SeqDef
<1>7. \A i \in 1..Len(p) : a[i].change = p[i] /\ a[i].live = live(i)
  BY <1>5
<1> QED BY <1>1, <1>4, <1>6, <1>7

LEMMA RecordAdds ==
    ASSUME IInv, HistoryOk, NEW order \in Orders(Scope), Reconcile(Scope, order), Record(order)
    PROVE  Added(Pending(Scope, order), Kept(Scope, order))
<1>0. /\ Scope \in Filters /\ rows[Scope] \in Windows /\ log[Scope] \in Seq(Changes)
      /\ epoch \in [Filters -> Nat \ {0}]
  BY ScopeAssumption DEF IInv, ServerTypeOK, Windows, Changes
<1>1. PICK h, g, e, p, n, cut, logged :
         /\ h = history /\ g = history' /\ e = epoch[Scope] /\ p = Pending(Scope, order)
         /\ n = Kept(Scope, order) /\ cut = RollsOver(Scope, p) /\ logged = Annotated(rows[Scope], p)
  OBVIOUS
<1>2. /\ h \in Histories /\ e \in Nat /\ e >= 1 /\ Len(h) = e /\ Made(h, e) = log[Scope]
      /\ cut \in BOOLEAN /\ p \in Seq(Changes)
  <2>1. p \in Seq(Changes)
    BY <1>0, <1>1, PendingFacts
  <2>2. cut \in BOOLEAN
    BY <1>1 DEF RollsOver
  <2> QED BY <1>0, <1>1, <2>1, <2>2 DEF HistoryOk
<1>3. /\ logged \in Seq(Noted) /\ Len(logged) = Len(p)
      /\ \A i \in 1..Len(p) : /\ logged[i].change = p[i]
                              /\ \A r \in Rows : logged[i].live[r] = ShownOf(After(p, i, r))
  BY <1>0, <1>1, <1>2, AnnotatedFacts
<1>4. g = IF cut THEN Append(h, logged) ELSE [h EXCEPT ![Len(h)] = h[Len(h)] \o logged]
  BY <1>1 DEF Record
<1>5. epoch'[Scope] = IF cut THEN e + 1 ELSE e
  <2>1. epoch' = [epoch EXCEPT ![Scope] = NextEpoch(Scope, Pending(Scope, order))]
    BY DEF Reconcile
  <2>2. epoch'[Scope] = NextEpoch(Scope, Pending(Scope, order))
    BY <1>0, <2>1
  <2> QED BY <1>1, <2>2 DEF NextEpoch
<1>6. log'[Scope] = IF cut THEN p ELSE log[Scope] \o p
  BY <1>0, <1>1, ReconcileFacts
<1>7. n = IF cut THEN 0 ELSE Len(log[Scope])
  BY <1>1 DEF Kept
<1>8. PICK l, E : l = log[Scope] /\ E = epoch'[Scope]
  OBVIOUS
<1>9. /\ e \in DOMAIN h /\ DOMAIN h[e] = 1..Len(h[e]) /\ Len(h[e]) \in Nat /\ Len(h[e]) = Len(l)
      /\ l \in Seq(Changes) /\ DOMAIN l = 1..Len(l)
  <2>1. e \in DOMAIN h
    BY <1>2 DEF Histories
  <2> QED BY <1>0, <1>2, <1>8, <2>1, HistoryFacts
<1>10. Len(p) \in Nat /\ DOMAIN p = 1..Len(p)
  BY <1>2
<1>11. CASE cut
  <2>1. /\ g = Append(h, logged) /\ E = e + 1 /\ n = 0 /\ log'[Scope] = p
    BY <1>4, <1>5, <1>6, <1>7, <1>8, <1>11
  <2>2. Extends(h, g) /\ Len(g) = E /\ E \in DOMAIN g /\ g[E] = logged
    <3>1. Extends(h, g) /\ Len(g) = e + 1 /\ e + 1 \in DOMAIN g /\ g[e + 1] = logged
      <4>1. /\ h \in Histories /\ e \in Nat /\ e >= 1 /\ Len(h) = e /\ logged \in Seq(Noted)
            /\ g = Append(h, logged)
        BY <1>2, <1>3, <2>1
      <4> QED BY ONLY <4>1, HistoryCut
    <3> QED BY <2>1, <3>1
  <2>3. Len(g[E]) = n + Len(p) /\ Len(log'[Scope]) = n + Len(p) /\ \A i \in 1..Len(p) : n + i = i
    BY <1>3, <1>10, <2>1, <2>2
  <2>4. Made(g, E) = p
    <3>1. DOMAIN logged = 1..Len(p)
      BY <1>3, <1>10
    <3>2. Made(g, E) = [i \in 1..Len(p) |-> p[i]]
      <4>1. PICK s : s = g[E]
        OBVIOUS
      <4>2. DOMAIN s = 1..Len(p) /\ \A i \in 1..Len(p) : s[i].change = p[i]
        BY <1>3, <2>2, <3>1, <4>1
      <4> QED BY <4>1, <4>2 DEF Made
    <3> QED BY <1>2, <1>10, <3>2
  <2>5. \A i \in 1..Len(p) : /\ g[E][n + i].change = p[i] /\ log'[Scope][n + i] = p[i]
                             /\ \A r \in Rows : g[E][n + i].live[r] = ShownOf(After(p, i, r))
    BY <1>3, <2>1, <2>2, <2>3
  <2>6. n \in Nat /\ \A i \in 1..n : FALSE
    BY <2>1
  <2> HIDE DEF Added
  <2> QED BY <1>1, <1>8, <2>1, <2>2, <2>3, <2>4, <2>5, <2>6 DEF Added
<1>12. CASE ~cut
  <2>1. /\ g = [h EXCEPT ![e] = h[e] \o logged] /\ E = e /\ n = Len(l) /\ log'[Scope] = l \o p
    BY <1>2, <1>4, <1>5, <1>6, <1>7, <1>8, <1>12
  <2>2. PICK x, s, t : x = h[e] /\ s = x \o logged /\ t = l \o p
    OBVIOUS
  <2>3. /\ Extends(h, g) /\ Len(g) = e /\ e \in DOMAIN g /\ g[e] = s
        /\ Len(x) \in Nat /\ Len(s) = Len(x) + Len(logged)
        /\ \A i \in 1..Len(x) : s[i] = x[i]
        /\ \A i \in 1..Len(logged) : s[Len(x) + i] = logged[i]
    <3>1. g = [h EXCEPT ![e] = s]
      BY <2>1, <2>2
    <3>2. /\ h \in Histories /\ e \in Nat /\ e >= 1 /\ Len(h) = e /\ logged \in Seq(Noted)
          /\ x = h[e] /\ s = x \o logged
      BY <1>2, <1>3, <2>2
    <3>3. Longer(h, g, e, x, s, logged)
      BY ONLY <3>1, <3>2, HistoryGrows
    <3> QED BY <3>3 DEF Longer
  <2>4. /\ Len(x) = n /\ n \in Nat /\ t = log'[Scope] /\ Len(t) = n + Len(p) /\ DOMAIN t = 1..(n + Len(p))
        /\ \A i \in 1..n : t[i] = l[i]
        /\ \A i \in 1..Len(p) : t[n + i] = p[i]
    <3>1. /\ t \in Seq(Changes) /\ Len(t) = Len(l) + Len(p)
          /\ \A i \in 1..(Len(l) + Len(p)) : t[i] = IF i <= Len(l) THEN l[i] ELSE p[i - Len(l)]
      BY <1>2, <1>9, <2>2, ConcatProperties
    <3>2. n \in Nat /\ n = Len(l) /\ Len(x) = n /\ t = log'[Scope]
      BY <1>9, <2>1, <2>2
    <3>3. /\ \A i \in 1..n : i \in 1..(n + Len(p)) /\ i <= n
          /\ \A i \in 1..Len(p) : n + i \in 1..(n + Len(p)) /\ ~(n + i <= n) /\ (n + i) - n = i
      BY <1>10, <3>2
    <3>4. \A i \in 1..(n + Len(p)) : t[i] = IF i <= n THEN l[i] ELSE p[i - n]
      BY <3>1, <3>2
    <3>5. DOMAIN t = 1..(n + Len(p)) /\ Len(t) = n + Len(p)
      BY <3>1, <3>2, LenProperties
    <3> QED BY <3>2, <3>3, <3>4, <3>5
  <2>5. \A i \in 1..n : i \in DOMAIN l /\ l[i] = x[i].change
    BY <1>2, <1>8, <1>9, <2>1, <2>2 DEF Made
  <2>6. Made(g, E) = t
    <3>1. DOMAIN g[E] = 1..(n + Len(p)) /\ g[E] = s
      <4>1. g \in Histories /\ E \in DOMAIN g
        BY <2>1, <2>3 DEF Extends
      <4> QED BY <1>3, <2>1, <2>3, <2>4, <4>1, HistoryFacts
    <3>2. ASSUME NEW i \in 1..(n + Len(p)) PROVE s[i].change = t[i]
      <4>1. CASE i <= n
        <5>1. i \in 1..n
          BY <2>4, <4>1
        <5> QED BY <2>3, <2>4, <2>5, <5>1
      <4>2. CASE i > n
        <5>1. i - n \in 1..Len(p) /\ n + (i - n) = i
          BY <1>10, <2>4, <4>2
        <5>2. s[i] = logged[i - n] /\ t[i] = p[i - n]
          BY <1>3, <2>3, <2>4, <5>1
        <5> QED BY <1>3, <5>1, <5>2
      <4> QED BY <1>10, <2>4, <4>1, <4>2
    <3>3. Made(g, E) = [i \in 1..(n + Len(p)) |-> t[i]]
      BY <3>1, <3>2 DEF Made
    <3>4. t = [i \in 1..(n + Len(p)) |-> t[i]]
      <4>1. t \in Seq(Changes)
        BY <1>2, <1>9, <2>2
      <4> QED BY <2>4, <4>1
    <3> QED BY <3>3, <3>4
  <2>7. \A i \in 1..Len(p) : /\ g[E][n + i].change = p[i] /\ log'[Scope][n + i] = p[i]
                             /\ \A r \in Rows : g[E][n + i].live[r] = ShownOf(After(p, i, r))
    <3>1. g[E] = s /\ log'[Scope] = t /\ Len(x) = n /\ Len(logged) = Len(p)
      BY <1>3, <2>1, <2>3, <2>4
    <3>2. ASSUME NEW i \in 1..Len(p)
          PROVE  s[n + i] = logged[i] /\ t[n + i] = p[i]
      BY <2>3, <2>4, <3>1
    <3>3. ASSUME NEW i \in 1..Len(p)
          PROVE  s[n + i].change = p[i] /\ \A r \in Rows : s[n + i].live[r] = ShownOf(After(p, i, r))
      BY <1>3, <3>2
    <3> QED BY <3>1, <3>2, <3>3
  <2>8. \A i \in 1..n : /\ E = epoch[Scope] /\ i \in DOMAIN log[Scope]
                        /\ g[E][i] = history[E][i] /\ log'[Scope][i] = log[Scope][i]
    <3>1. g[E] = s /\ history[E] = x /\ E = epoch[Scope] /\ Len(x) = n /\ log[Scope] = l /\ log'[Scope] = t
      BY <1>1, <1>8, <2>1, <2>2, <2>3, <2>4
    <3>2. \A i \in 1..n : s[i] = x[i] /\ t[i] = l[i] /\ i \in DOMAIN l
      BY <2>3, <2>4, <2>5
    <3> QED BY <3>1, <3>2
  <2>9. Len(g[E]) = n + Len(p) /\ Len(log'[Scope]) = n + Len(p) /\ Len(g) = E /\ E \in DOMAIN g
    BY <1>3, <2>1, <2>3, <2>4
  <2> QED BY <1>1, <1>8, <2>3, <2>4, <2>6, <2>7, <2>8, <2>9 DEF Added
<1> QED BY <1>2, <1>11, <1>12

\* What becomes of a row: it changes once, or not at all, and a new epoch has
\* no tombstones.
RowStep(p, cut, r) ==
    /\ \/ \E k \in 1..Len(p) :
             /\ p[k].row = r /\ \A j \in 1..Len(p) : p[j].row = r => j = k
             /\ p[k].cell.version >= 1 /\ p[k].cell = authority'[r]
             /\ p[k].cell.version >= authority[r].version
             /\ p[k].cell.version >= rows[Scope][r].version
             /\ rows'[Scope][r] = p[k].cell \/ (cut /\ rows'[Scope][r] = Unknown)
       \/ /\ \A j \in 1..Len(p) : p[j].row # r
          /\ authority'[r] = authority[r]
          /\ rows'[Scope][r] = rows[Scope][r] \/ (cut /\ rows'[Scope][r] = Unknown)
    /\ cut => rows'[Scope][r] = ShownOf(rows'[Scope][r])

LEMMA RowSteps ==
    ASSUME IInv, NEW order \in Orders(Scope), Reconcile(Scope, order), NEW r \in Rows,
           NEW p, p = Pending(Scope, order)
    PROVE  RowStep(p, RollsOver(Scope, p), r)
<1> DEFINE ch  == RowChanges(Scope, order)
           cut == RollsOver(Scope, p)
           w   == rows[Scope][r]
           w2  == rows'[Scope][r]
<1>0. /\ Scope \in Filters /\ rows \in [Filters -> [Rows -> Cells]] /\ authority \in [Rows -> Cells]
      /\ principal \in Nat /\ r # NoRow
  BY ScopeAssumption, ServerAssumption DEF IInv, ServerTypeOK
<1>1. /\ order \in Seq(Rows) /\ DOMAIN order = 1..Len(order) /\ Len(order) \in Nat
      /\ \A i, j \in DOMAIN order : order[i] = order[j] => i = j
  BY <1>0, OrderFacts
<1>2. /\ ch \in Seq(Changes) /\ Len(ch) = Len(order)
      /\ \A i \in DOMAIN order :
            /\ ch[i].row = order[i] /\ ch[i].cell \in Cells /\ ch[i].cell.version >= 1
            /\ \/ ch[i].cell.version > principal
               \/ /\ ch[i].cell = authority[order[i]]
                  /\ ch[i].cell.version > rows[Scope][order[i]].version
  BY <1>0, ChangeFacts
<1>3. /\ p \in Seq(Changes) /\ Len(p) \in Nat /\ DOMAIN p = 1..Len(p)
      /\ \A i \in 1..Len(p) : p[i] = ScopeChange \/ (i \in DOMAIN order /\ p[i] = ch[i])
  <2>1. /\ p \in Seq(Changes)
        /\ \A i \in DOMAIN p : p[i] = ScopeChange \/ (i \in DOMAIN order /\ p[i] = ch[i])
    BY <1>0, PendingFacts
  <2> QED BY <2>1
<1>4. \A k \in DOMAIN order : k \in 1..Len(p) /\ p[k] = ch[k]
  <2>1. p = ch \/ p = Append(ch, ScopeChange)
    BY DEF Pending
  <2>2. ScopeChange \in Changes
    BY UnknownCell DEF ScopeChange, Changes
  <2> HIDE DEF ch
  <2> QED BY <1>1, <1>2, <2>1, <2>2
<1>5. ScopeChange.row = NoRow
  BY DEF ScopeChange
<1>6. /\ \A i \in DOMAIN order :
            /\ authority'[order[i]] = ch[i].cell
            /\ rows'[Scope][order[i]] = ch[i].cell \/ (cut /\ rows'[Scope][order[i]] = Unknown)
      /\ (\A i \in DOMAIN order : order[i] # r) =>
            /\ authority'[r] = authority[r]
            /\ rows'[Scope][r] = rows[Scope][r] \/ (cut /\ rows'[Scope][r] = Unknown)
  BY <1>0, ReconcileFacts
<1>7. cut => w2 = ShownOf(w2)
  <2> SUFFICES ASSUME cut PROVE w2 = ShownOf(w2)
    OBVIOUS
  <2>1. PICK a : a = Replay(rows[Scope], ch)
    OBVIOUS
  <2>2. rows' = [rows EXCEPT ![Scope] = WithoutTombstones(a)]
    BY <2>1 DEF Reconcile
  <2>3. rows'[Scope] = WithoutTombstones(a)
    BY <1>0, <2>2
  <2>4. w2 = IF a[r].payload = Buried THEN Unknown ELSE a[r]
    BY <2>3 DEF WithoutTombstones
  <2> HIDE DEF w2
  <2> QED BY <2>4, UnknownCell DEF ShownOf
<1>8. /\ w \in Cells /\ authority[r] \in Cells /\ w.version \in Nat /\ authority[r].version \in Nat
      /\ w.version <= principal /\ authority[r].version <= principal
  <2>1. w \in Cells /\ authority[r] \in Cells
    BY <1>0
  <2>2. Seen(r, w) /\ Seen(r, authority[r])
    BY <1>0 DEF Seen
  <2>3. w.version <= principal /\ authority[r].version <= principal
    BY <2>1, <2>2 DEF IInv, Versioned
  <2> HIDE DEF w
  <2> QED BY <2>1, <2>3, CellFacts
<1> HIDE DEF ch, cut
<1>9. CASE \E k \in DOMAIN order : order[k] = r
  <2>1. PICK k \in DOMAIN order : order[k] = r
    BY <1>9
  <2>2. PICK c : c = ch[k].cell
    OBVIOUS
  <2>3. /\ c \in Cells /\ c.version \in Nat /\ c.version >= 1
        /\ c.version > principal \/ (c = authority[r] /\ c.version > w.version)
        /\ authority'[r] = c /\ (w2 = c \/ (cut /\ w2 = Unknown))
    <3>1. c \in Cells
      BY <1>2, <2>1, <2>2
    <3> QED BY <1>2, <1>6, <2>1, <2>2, <3>1, CellFacts
  <2>4. c.version >= authority[r].version /\ c.version >= w.version
    BY <1>0, <1>8, <2>3
  <2>5. k \in 1..Len(p) /\ p[k].row = r /\ p[k].cell = c
    BY <1>2, <1>4, <2>1, <2>2
  <2>6. \A j \in 1..Len(p) : p[j].row = r => j = k
    <3> SUFFICES ASSUME NEW j \in 1..Len(p), p[j].row = r PROVE j = k
      OBVIOUS
    <3>1. j \in DOMAIN order /\ p[j] = ch[j]
      BY <1>0, <1>3, <1>5
    <3>2. order[j] = order[k]
      BY <1>2, <2>1, <3>1
    <3> QED BY <1>1, <2>1, <3>1, <3>2
  <2> QED BY <1>7, <2>3, <2>4, <2>5, <2>6 DEF RowStep, w, w2, cut
<1>10. CASE ~\E k \in DOMAIN order : order[k] = r
  <2>1. \A j \in 1..Len(p) : p[j].row # r
    BY <1>0, <1>2, <1>3, <1>5, <1>10
  <2> QED BY <1>6, <1>7, <1>10, <2>1 DEF RowStep, w, w2, cut
<1> QED BY <1>9, <1>10

\* The cell of a row after i pending changes: its new cell or the one it had.
LEMMA AfterFacts ==
    ASSUME NEW p \in Seq(Changes), NEW i \in 1..Len(p), NEW r \in Rows
    PROVE  /\ LastCell(p, 0, i, r, LatestByRow(SubSeq(p, 1, i))[r])
           /\ \/ After(p, i, r) = rows[Scope][r]
              \/ \E k \in 1..Len(p) : p[k].row = r /\ After(p, i, r) = p[k].cell
<1>0. Len(p) \in Nat
  OBVIOUS
<1>1. LastCell(p, 0, i, r, LatestByRow(SubSeq(p, 0 + 1, i))[r])
  BY <1>0, LatestFacts
<1>2. PICK x : x = LatestByRow(SubSeq(p, 1, i))[r]
  OBVIOUS
<1>3. LastCell(p, 0, i, r, x)
  <2>1. 0 + 1 = 1
    OBVIOUS
  <2> QED BY <1>1, <1>2, <2>1
<1>4. x # Unknown => \E k \in 1..Len(p) : p[k].row = r /\ x = p[k].cell
  <2> SUFFICES ASSUME x # Unknown PROVE \E k \in 1..Len(p) : p[k].row = r /\ x = p[k].cell
    OBVIOUS
  <2>1. PICK k \in (0 + 1)..i : p[k].row = r /\ p[k].cell = x
    BY <1>3 DEF LastCell
  <2>2. k \in 1..Len(p)
    BY <1>0
  <2> QED BY <2>1, <2>2
<1>5. After(p, i, r) = IF x = Unknown THEN rows[Scope][r] ELSE x
  BY <1>2 DEF After
<1> QED BY <1>2, <1>3, <1>4, <1>5

\* A step of the scope: the changes p from position n on, in a new epoch or in
\* the one there was.
Stepped(p, n, cut) ==
    /\ p \in Seq(Changes) /\ Len(p) \in Nat /\ n \in Nat /\ n + Len(p) >= 1
    /\ Added(p, n) /\ \A r \in Rows : RowStep(p, cut, r)
    /\ cut => n = 0 /\ epoch'[Scope] = epoch[Scope] + 1
    /\ ~cut => n = Len(log[Scope]) /\ epoch'[Scope] = epoch[Scope]

LEMMA StepTaken ==
    ASSUME IInv, HistoryOk, NEW order \in Orders(Scope), Reconcile(Scope, order), Record(order)
    PROVE  Stepped(Pending(Scope, order), Kept(Scope, order), RollsOver(Scope, Pending(Scope, order)))
<1>0. /\ Scope \in Filters /\ log[Scope] \in Seq(Changes) /\ epoch \in [Filters -> Nat \ {0}]
  BY ScopeAssumption DEF IInv, ServerTypeOK, Changes
<1>1. PICK p, n, cut : p = Pending(Scope, order) /\ n = Kept(Scope, order) /\ cut = RollsOver(Scope, p)
  OBVIOUS
<1>2. p \in Seq(Changes) /\ Len(p) \in Nat /\ Len(log[Scope]) \in Nat
  <2>1. p \in Seq(Changes)
    BY <1>0, <1>1, PendingFacts
  <2> QED BY <1>0, <2>1, LenProperties
<1>3. n = (IF cut THEN 0 ELSE Len(log[Scope])) /\ (cut => p # <<>>)
  BY <1>1 DEF Kept, RollsOver
<1>4. epoch'[Scope] = IF cut THEN epoch[Scope] + 1 ELSE epoch[Scope]
  <2>1. epoch' = [epoch EXCEPT ![Scope] = NextEpoch(Scope, Pending(Scope, order))]
    BY DEF Reconcile
  <2>2. epoch'[Scope] = NextEpoch(Scope, Pending(Scope, order))
    BY <1>0, <2>1
  <2> QED BY <1>1, <2>2 DEF NextEpoch
<1>5. log[Scope] = <<>> => p # <<>>
  <2> SUFFICES ASSUME log[Scope] = <<>> PROVE p # <<>>
    OBVIOUS
  <2>1. digest[Scope] = [none |-> TRUE]
    BY DEF HistoryOk, NoDigest
  <2>2. PICK w : w = Replay(rows[Scope], RowChanges(Scope, order))
    OBVIOUS
  <2>3. ScopeFact(Scope, w) # [none |-> TRUE]
    <3>1. "rows" \in DOMAIN ScopeFact(Scope, w)
      BY DEF ScopeFact
    <3>2. "rows" \notin DOMAIN [none |-> TRUE]
      OBVIOUS
    <3> QED BY <3>1, <3>2
  <2>4. p = Append(RowChanges(Scope, order), ScopeChange)
    <3>1. Pending(Scope, order) = IF digest[Scope] # ScopeFact(Scope, w)
                                  THEN Append(RowChanges(Scope, order), ScopeChange)
                                  ELSE RowChanges(Scope, order)
      BY <2>2 DEF Pending
    <3>2. digest[Scope] # ScopeFact(Scope, w)
      BY <2>1, <2>3
    <3> QED BY <1>1, <3>1, <3>2
  <2>5. RowChanges(Scope, order) \in Seq(Changes)
    BY <1>0, ChangeFacts
  <2>6. Append(RowChanges(Scope, order), ScopeChange) # <<>>
    <3>1. PICK s, c : s = RowChanges(Scope, order) /\ c = ScopeChange
      OBVIOUS
    <3>2. s \in Seq(Changes) /\ c \in Changes
      BY <2>5, <3>1, UnknownCell DEF ScopeChange, Changes
    <3>3. Append(s, c) # <<>>
      BY <3>2, AppendProperties
    <3> QED BY <3>1, <3>3
  <2> QED BY <2>4, <2>6
<1>6. n \in Nat /\ n + Len(p) >= 1
  <2>1. p # <<>> => Len(p) >= 1
    BY <1>2
  <2>2. log[Scope] # <<>> => Len(log[Scope]) >= 1
    BY <1>0, <1>2
  <2> QED BY <1>2, <1>3, <1>5, <2>1, <2>2
<1>7. Added(p, n)
  BY <1>1, RecordAdds
<1>8. \A r \in Rows : RowStep(p, cut, r)
  BY <1>1, RowSteps
<1>9. Stepped(p, n, cut)
  BY <1>2, <1>3, <1>4, <1>6, <1>7, <1>8 DEF Stepped
<1> QED BY <1>1, <1>9

\* A position of the new log or history is an old one or a pending one.
LEMMA StepPositions ==
    ASSUME NEW p, NEW n, NEW cut, Stepped(p, n, cut), NEW i \in 1..(n + Len(p))
    PROVE  \/ i \in 1..n
           \/ i - n \in 1..Len(p) /\ n + (i - n) = i
<1>1. n \in Nat /\ Len(p) \in Nat
  BY DEF Stepped
<1> QED BY <1>1

LEMMA StepNumbered ==
    ASSUME HistoryOk, NEW p, NEW n, NEW cut, Stepped(p, n, cut), log'[Scope] \in Seq(Changes)
    PROVE  Numbered(log'[Scope])
<1>0. PICK m, l, l2 : m = n + Len(p) /\ l = log[Scope] /\ l2 = log'[Scope]
  OBVIOUS
<1>1. /\ DOMAIN l2 = 1..m
      /\ \A i \in 1..n : i \in DOMAIN l /\ l2[i] = l[i]
      /\ \A i \in 1..Len(p) : l2[n + i] = p[i]
  BY <1>0 DEF Stepped, Added
<1>2. Numbered(l)
  BY <1>0 DEF HistoryOk
<1> SUFFICES ASSUME NEW i \in 1..m, l2[i].row \in Rows PROVE l2[i].cell.version >= 1
  BY <1>0, <1>1 DEF Numbered
<1>3. CASE i \in 1..n
  BY <1>1, <1>2, <1>3 DEF Numbered
<1>4. CASE i - n \in 1..Len(p) /\ n + (i - n) = i
  <2>1. l2[i] = p[i - n]
    BY <1>1, <1>4
  <2>2. RowStep(p, cut, l2[i].row)
    BY DEF Stepped
  <2>3. PICK j : j = i - n
    OBVIOUS
  <2>4. p[j].row = l2[i].row /\ j \in 1..Len(p) /\ l2[i] = p[j]
    BY <1>4, <2>1, <2>3
  <2> QED BY <2>2, <2>4 DEF RowStep
<1> QED BY <1>0, <1>3, <1>4, StepPositions

LEMMA ShownFacts ==
    ASSUME NEW c \in Cells
    PROVE  ShownOf(c) \in Cells /\ (ShownOf(c).version = 0 \/ ShownOf(c) = c)
BY UnknownCell DEF ShownOf

LEMMA ServerCells ==
    ASSUME IInv, NEW r \in Rows
    PROVE  /\ authority[r] \in Cells /\ authority[r].version \in Nat
           /\ rows[Scope] \in Windows /\ rows[Scope][r] \in Cells /\ rows[Scope][r].version \in Nat
           /\ log[Scope] \in Seq(Changes) /\ Len(log[Scope]) \in Nat
           /\ epoch[Scope] \in Nat /\ epoch[Scope] >= 1
<1>1. /\ authority[r] \in Cells /\ rows[Scope] \in Windows /\ log[Scope] \in Seq(Changes)
      /\ epoch[Scope] \in Nat \ {0}
  BY ScopeAssumption DEF IInv, ServerTypeOK, Windows, Changes
<1>2. epoch[Scope] \in Nat /\ epoch[Scope] >= 1
  BY <1>1
<1> QED BY <1>1, <1>2, CellFacts, WindowCells, LenProperties

LEMMA ServerCellsNext ==
    ASSUME IInv', NEW r \in Rows
    PROVE  /\ authority'[r] \in Cells /\ authority'[r].version \in Nat
           /\ rows'[Scope] \in Windows /\ rows'[Scope][r] \in Cells /\ rows'[Scope][r].version \in Nat
<1>1. /\ authority'[r] \in Cells /\ rows'[Scope] \in Windows
  BY ScopeAssumption DEF IInv, ServerTypeOK, Windows
<1> QED BY <1>1, CellFacts, WindowCells

LEMMA StepFollow ==
    ASSUME IInv, IInv', HistoryOk, NEW p, NEW n, NEW cut, Stepped(p, n, cut), NEW r \in Rows
    PROVE  /\ rows'[Scope][r].version <= authority'[r].version
           /\ \A i \in 1..(n + Len(p)) :
                 LET v == history'[epoch'[Scope]][i].live[r].version
                 IN  v <= authority'[r].version /\ (v <= rows'[Scope][r].version \/ rows'[Scope][r] = Unknown)
<1>1. PICK a, a2, w, w2, E : /\ a = authority[r] /\ a2 = authority'[r] /\ w = rows[Scope][r]
                             /\ w2 = rows'[Scope][r] /\ E = epoch'[Scope]
  OBVIOUS
<1>2. /\ w \in Cells /\ a.version \in Nat /\ a2.version \in Nat /\ w.version \in Nat /\ w2.version \in Nat
  BY <1>1, ServerCells, ServerCellsNext
<1>3. /\ w.version <= a.version
      /\ \A i \in DOMAIN log[Scope] :
            LET v == history[epoch[Scope]][i].live[r].version
            IN  v <= a.version /\ (v <= w.version \/ w = Unknown)
  BY <1>1 DEF HistoryOk, RowsFollow
<1>4. /\ p \in Seq(Changes) /\ Len(p) \in Nat /\ n \in Nat /\ (cut => n = 0)
      /\ \A i \in 1..n : /\ E = epoch[Scope] /\ i \in DOMAIN log[Scope]
                         /\ history'[E][i] = history[E][i]
      /\ \A i \in 1..Len(p) : history'[E][n + i].live[r] = ShownOf(After(p, i, r))
  BY <1>1 DEF Stepped, Added
<1>5. RowStep(p, cut, r)
  BY DEF Stepped
\* The new row is newer than the old one, or forgotten.
<1>6. /\ a.version <= a2.version /\ w2.version <= a2.version
      /\ w.version <= w2.version \/ w2 = Unknown
      /\ ~cut => (w2 = w /\ a2 = a) \/ w2 = a2
      /\ \A k \in 1..Len(p) : p[k].row = r => p[k].cell = a2 /\ (w2 = a2 \/ w2 = Unknown)
  <2>1. CASE \E k \in 1..Len(p) :
               /\ p[k].row = r /\ \A j \in 1..Len(p) : p[j].row = r => j = k
               /\ p[k].cell = a2 /\ p[k].cell.version >= a.version
               /\ p[k].cell.version >= w.version
               /\ w2 = p[k].cell \/ (cut /\ w2 = Unknown)
    <3>1. /\ a2.version >= a.version /\ a2.version >= w.version /\ (w2 = a2 \/ (cut /\ w2 = Unknown))
          /\ \A k \in 1..Len(p) : p[k].row = r => p[k].cell = a2
      BY <2>1
    <3>2. w2.version <= a2.version
      BY <1>2, <3>1, UnknownCell
    <3> QED BY <1>2, <3>1, <3>2
  <2>2. CASE /\ \A j \in 1..Len(p) : p[j].row # r
             /\ a2 = a
             /\ w2 = w \/ (cut /\ w2 = Unknown)
    <3>1. w2.version <= a2.version /\ a.version <= a2.version
      BY <1>2, <1>3, <2>2, UnknownCell
    <3>2. w.version <= w2.version \/ w2 = Unknown
      BY <1>2, <2>2
    <3> QED BY <2>2, <3>1, <3>2
  <2> QED BY <1>1, <1>5, <2>1, <2>2 DEF RowStep
<1>7. ASSUME NEW i \in 1..n, NEW v, v = history'[E][i].live[r].version
      PROVE  v <= a2.version /\ (v <= w2.version \/ w2 = Unknown)
  <2>1. i \in DOMAIN log[Scope] /\ v = history[epoch[Scope]][i].live[r].version /\ ~cut
    BY <1>4, <1>7
  <2>2. v <= a.version /\ (v <= w.version \/ w = Unknown)
    BY <1>3, <2>1
  <2>3. v \in Nat
    <3>1. history \in Histories /\ epoch[Scope] \in DOMAIN history
      BY ServerCells DEF HistoryOk, Histories
    <3>2. At(history, epoch[Scope], i)
      <4>1. Made(history, epoch[Scope]) = log[Scope]
        BY DEF HistoryOk
      <4>2. DOMAIN history[epoch[Scope]] = DOMAIN log[Scope]
        BY <4>1 DEF Made
      <4> QED BY <2>1, <3>1, <4>2 DEF At
    <3> QED BY <2>1, <3>1, <3>2, VersionsNat
  <2> QED BY <1>2, <1>6, <2>1, <2>2, <2>3
<1>8. ASSUME NEW j \in 1..Len(p), NEW v, v = history'[E][n + j].live[r].version
      PROVE  v <= a2.version /\ (v <= w2.version \/ w2 = Unknown)
  <2>1. PICK c : c = After(p, j, r)
    OBVIOUS
  <2>2. c = w \/ (c = a2 /\ (w2 = a2 \/ w2 = Unknown))
    <3>1. c = w \/ \E k \in 1..Len(p) : p[k].row = r /\ c = p[k].cell
      BY <1>1, <1>4, <2>1, AfterFacts
    <3> QED BY <1>6, <3>1
  <2>3. v = 0 \/ v = c.version
    <3>1. c \in Cells
      BY <1>1, <1>2, <2>2, ServerCellsNext
    <3>2. v = ShownOf(c).version
      BY <1>4, <1>8, <2>1
    <3> QED BY <3>1, <3>2, ShownFacts
  <2> QED BY <1>2, <1>3, <1>6, <2>2, <2>3
<1>9. ASSUME NEW i \in 1..(n + Len(p)), NEW v, v = history'[E][i].live[r].version
      PROVE  v <= a2.version /\ (v <= w2.version \/ w2 = Unknown)
  <2>1. CASE i \in 1..n
    BY <1>7, <1>9, <2>1
  <2>2. CASE i - n \in 1..Len(p) /\ n + (i - n) = i
    BY <1>8, <1>9, <2>2
  <2> QED BY <2>1, <2>2, StepPositions
<1> QED BY <1>1, <1>6, <1>9

LEMMA StepHeld ==
    ASSUME IInv, IInv', HistoryOk, NEW p, NEW n, NEW cut, Stepped(p, n, cut)
    PROVE  Held(history', rows'[Scope], epoch'[Scope], n + Len(p))
<1>1. PICK m, E : m = n + Len(p) /\ E = epoch'[Scope]
  OBVIOUS
<1> SUFFICES ASSUME NEW r \in Rows, rows'[Scope][r].version # 0
             PROVE  \E i \in 1..m : \E v \in VersionsAt(history'[E][i], r) : rows'[Scope][r].version <= v
  BY <1>1 DEF Held
<1>2. PICK w, w2, u : w = rows[Scope][r] /\ w2 = rows'[Scope][r] /\ u = w2.version
  OBVIOUS
<1>3. u \in Nat /\ u # 0 /\ u <= u /\ w2 # Unknown
  <2>1. u \in Nat /\ u # 0
    BY <1>2, ServerCellsNext
  <2> QED BY <1>2, <2>1, UnknownCell
<1>4. /\ p \in Seq(Changes) /\ Len(p) \in Nat /\ n \in Nat /\ (cut => n = 0) /\ m >= 1
      /\ (~cut => n = Len(log[Scope]) /\ E = epoch[Scope])
      /\ \A i \in 1..n : history'[E][i] = history[E][i]
      /\ \A i \in 1..Len(p) : /\ history'[E][n + i].change = p[i]
                              /\ history'[E][n + i].live[r] = ShownOf(After(p, i, r))
  BY <1>1 DEF Stepped, Added
<1>5. RowStep(p, cut, r)
  BY DEF Stepped
<1>6. CASE \E k \in 1..Len(p) : p[k].row = r /\ w2 = p[k].cell
  <2>1. PICK k \in 1..Len(p) : p[k].row = r /\ w2 = p[k].cell
    BY <1>6
  <2>2. u \in VersionsAt(history'[E][n + k], r)
    BY <1>2, <1>4, <2>1 DEF VersionsAt
  <2>3. n + k \in 1..m
    BY <1>1, <1>4
  <2> QED BY <1>2, <1>3, <2>2, <2>3
<1>7. CASE w2 = w /\ ~cut
  <2>1. Held(history, rows[Scope], epoch[Scope], Len(log[Scope]))
    BY DEF HistoryOk
  <2>2. PICK i \in 1..n : \E v \in VersionsAt(history[E][i], r) : u <= v
    BY <1>2, <1>3, <1>4, <1>7, <2>1 DEF Held
  <2>3. i \in 1..m /\ history'[E][i] = history[E][i]
    BY <1>1, <1>4
  <2> QED BY <1>2, <2>2, <2>3
<1>8. CASE w2 = w /\ cut /\ \A j \in 1..Len(p) : p[j].row # r
  <2>1. 1 \in 1..Len(p) /\ n + 1 \in 1..m
    BY <1>1, <1>4, <1>8
  <2>2. After(p, 1, r) = w
    BY <1>2, <1>4, <1>8, <2>1, AfterFacts
  <2>3. history'[E][n + 1].live[r] = w2
    <3>1. w2 = ShownOf(w2)
      BY <1>2, <1>5, <1>8 DEF RowStep
    <3> QED BY <1>4, <1>8, <2>1, <2>2, <3>1
  <2>4. u \in VersionsAt(history'[E][n + 1], r)
    BY <1>2, <2>3 DEF VersionsAt
  <2> QED BY <1>2, <1>3, <2>1, <2>4
<1> QED BY <1>2, <1>3, <1>5, <1>6, <1>7, <1>8 DEF RowStep

LEMMA ScopeFacts ==
    ASSUME IInv
    PROVE  /\ epoch[Scope] \in Nat /\ epoch[Scope] >= 1 /\ rows[Scope] \in Windows
           /\ log[Scope] \in Seq(Changes)
<1>1. epoch[Scope] \in Nat \ {0} /\ rows[Scope] \in Windows /\ log[Scope] \in Seq(Changes)
  BY ScopeAssumption DEF IInv, ServerTypeOK, Windows, Changes
<1> QED BY <1>1

LEMMA StaysFirst ==
    ASSUME IInv, NEW p, NEW n, NEW cut, Stepped(p, n, cut), First'
    PROVE  ~cut /\ First
BY ScopeFacts DEF Stepped, First

\* In the first epoch the log makes the window, before and after.
LEMMA StepLast ==
    ASSUME IInv, IInv', HistoryOk, NEW p, NEW n, NEW cut, Stepped(p, n, cut), First',
           NEW r \in Rows, NEW i \in 0..Len(p), NEW x, LastCell(p, 0, i, r, x)
    PROVE  LastCell(log'[Scope], 0, n + i, r, IF x = Unknown THEN rows[Scope][r] ELSE x)
<1>1. PICK l, l2, w : l = log[Scope] /\ l2 = log'[Scope] /\ w = rows[Scope][r]
  OBVIOUS
<1>2. /\ ~cut /\ n = Len(l) /\ epoch[Scope] = 1
      /\ Len(p) \in Nat /\ n \in Nat /\ Len(l2) = n + Len(p)
      /\ \A j \in 1..n : l2[j] = l[j]
      /\ \A j \in 1..Len(p) : l2[n + j] = p[j]
  <2>1. ~cut
    BY StaysFirst
  <2> QED BY <1>1, <2>1 DEF Stepped, Added, First
<1>3. LastCell(l, 0, n, r, w)
  BY <1>1, <1>2 DEF HistoryOk, First, Exact
<1>4. LastCell(l2, 0, n, r, w)
  <2>1. \A j \in 1..n : l2[0 + j] = l[j]
    BY <1>2
  <2>2. LastCell(l2, 0, 0 + n, r, w)
    BY <1>2, <1>3, <2>1, LastShift
  <2>3. 0 + n = n
    BY <1>2
  <2> QED BY <2>2, <2>3
<1>5. LastCell(l2, n, n + i, r, x)
  <2>1. \A j \in 1..i : l2[n + j] = p[j]
    BY <1>2
  <2>2. i \in Nat
    BY <1>2
  <2> QED BY <1>2, <2>1, <2>2, LastShift
<1>6. l2 \in Seq(Changes) /\ Numbered(l2)
  <2>1. l2 \in Seq(Changes)
    BY <1>1, ScopeAssumption DEF IInv, ServerTypeOK, Changes
  <2> QED BY <1>1, <2>1, StepNumbered
<1>7. n + i \in Nat /\ n <= n + i /\ n + i <= Len(l2)
  BY <1>2
<1>8. LastCell(l2, 0, n + i, r, IF x = Unknown THEN w ELSE x)
  BY <1>2, <1>4, <1>5, <1>6, <1>7, LastJoined
<1> QED BY <1>1, <1>8

LEMMA StepExact ==
    ASSUME IInv, IInv', HistoryOk, NEW p, NEW n, NEW cut, Stepped(p, n, cut), First'
    PROVE  Exact(history', rows'[Scope], 1, n + Len(p))
<1>1. /\ Made(history', 1) = log'[Scope] /\ Len(p) \in Nat /\ ~cut
  BY StaysFirst DEF Stepped, Added, First
<1> SUFFICES ASSUME NEW r \in Rows PROVE LastCell(log'[Scope], 0, n + Len(p), r, rows'[Scope][r])
  BY <1>1 DEF Exact
<1>2. PICK w, w2, m : w = rows[Scope][r] /\ w2 = rows'[Scope][r] /\ m = Len(p)
  OBVIOUS
<1>3. RowStep(p, cut, r)
  BY DEF Stepped
<1>4. CASE \E k \in 1..m : /\ p[k].row = r /\ \A j \in 1..m : p[j].row = r => j = k
                           /\ p[k].cell.version >= 1 /\ w2 = p[k].cell
  <2>1. PICK k \in 1..m : /\ p[k].row = r /\ \A j \in 1..m : p[j].row = r => j = k
                          /\ p[k].cell.version >= 1 /\ w2 = p[k].cell
    BY <1>4
  <2>2. m \in Nat /\ k \in (0 + 1)..m /\ \A j \in (k + 1)..m : j \in 1..m /\ j # k
    BY <1>1, <1>2
  <2>3. LastCell(p, 0, m, r, w2)
    BY <2>1, <2>2 DEF LastCell
  <2>4. w2 # Unknown
    BY <2>1, UnknownCell
  <2>5. m \in 0..Len(p)
    BY <1>2, <2>2
  <2>6. LastCell(log'[Scope], 0, n + m, r, IF w2 = Unknown THEN rows[Scope][r] ELSE w2)
    BY <2>3, <2>5, StepLast
  <2> QED BY <1>2, <2>4, <2>6
<1>5. CASE (\A j \in 1..m : p[j].row # r) /\ w2 = w
  <2>1. LastCell(p, 0, m, r, Unknown)
    BY <1>5 DEF LastCell
  <2>2. m \in 0..Len(p)
    BY <1>1, <1>2
  <2>3. LastCell(log'[Scope], 0, n + m, r, IF Unknown = Unknown THEN rows[Scope][r] ELSE Unknown)
    BY <2>1, <2>2, StepLast
  <2> QED BY <1>2, <1>5, <2>3
<1> QED BY <1>1, <1>2, <1>3, <1>4, <1>5 DEF RowStep

LEMMA StepLive ==
    ASSUME IInv, IInv', HistoryOk, NEW p, NEW n, NEW cut, Stepped(p, n, cut), First'
    PROVE  \A k \in 1..(n + Len(p)) : LiveExact(history', k)
<1>0. PICK h, g, w : h = history /\ g = history' /\ w = rows[Scope]
  OBVIOUS
<1>1. /\ Made(g, 1) = log'[Scope] /\ Len(p) \in Nat /\ n \in Nat /\ ~cut /\ First
      /\ h \in Histories /\ Extends(h, g) /\ p \in Seq(Changes)
      /\ \A i \in 1..n : i \in DOMAIN log[Scope] /\ g[1][i] = h[1][i]
      /\ \A i \in 1..Len(p) : \A r \in Rows : g[1][n + i].live[r] = ShownOf(After(p, i, r))
  <2>1. ~cut /\ First /\ epoch'[Scope] = 1 /\ h \in Histories
    BY <1>0, StaysFirst DEF First, HistoryOk
  <2>2. p \in Seq(Changes) /\ Len(p) \in Nat /\ n \in Nat /\ Added(p, n)
    BY DEF Stepped
  <2>3. /\ Made(g, 1) = log'[Scope] /\ Extends(h, g)
        /\ \A i \in 1..n : i \in DOMAIN log[Scope] /\ g[1][i] = h[1][i]
        /\ \A i \in 1..Len(p) : \A r \in Rows : g[1][n + i].live[r] = ShownOf(After(p, i, r))
    BY <1>0, <2>1, <2>2 DEF Added
  <2> QED BY <2>1, <2>2, <2>3
<1>2. ASSUME NEW k \in 1..n, NEW r \in Rows
      PROVE  \E cell \in {Unknown} \cup {Made(g, 1)[i].cell : i \in 1..k} :
                LastCell(Made(g, 1), 0, k, r, cell) /\ g[1][k].live[r] = ShownOf(cell)
  <2>1. At(h, 1, k)
    <3>1. Made(h, 1) = log[Scope] /\ Len(h) = 1
      BY <1>0, <1>1 DEF HistoryOk, First
    <3>2. DOMAIN h[1] = DOMAIN log[Scope]
      BY <3>1 DEF Made
    <3>3. 1 \in DOMAIN h
      BY <1>1, <3>1 DEF Histories
    <3> QED BY <1>1, <3>2, <3>3 DEF At
  <2>2. LiveExact(h, k)
    BY <1>0, <1>1, <2>1 DEF HistoryOk, At
  <2>3. PICK cell : LastCell(Made(h, 1), 0, k, r, cell) /\ h[1][k].live[r] = ShownOf(cell)
    BY <2>2 DEF LiveExact
  <2>4. LastCell(Made(g, 1), 0, k, r, cell)
    BY <1>1, <2>1, <2>3, LastStays
  <2>5. cell \in {Unknown} \cup {Made(g, 1)[i].cell : i \in 1..k}
    BY <2>4, LastIn
  <2>6. g[1][k].live[r] = ShownOf(cell)
    BY <1>1, <2>3
  <2> QED BY <2>4, <2>5, <2>6
<1>3. ASSUME NEW i \in 1..Len(p), NEW k, k = n + i, NEW r \in Rows
      PROVE  \E cell \in {Unknown} \cup {Made(g, 1)[j].cell : j \in 1..k} :
                LastCell(Made(g, 1), 0, k, r, cell) /\ g[1][k].live[r] = ShownOf(cell)
  <2>1. PICK x : x = LatestByRow(SubSeq(p, 1, i))[r]
    OBVIOUS
  <2>2. LastCell(p, 0, i, r, x) /\ i \in 0..Len(p)
    BY <1>1, <2>1, AfterFacts
  <2>3. LastCell(Made(g, 1), 0, k, r, IF x = Unknown THEN rows[Scope][r] ELSE x)
    BY <1>1, <1>3, <2>2, StepLast
  <2>4. After(p, i, r) = IF x = Unknown THEN rows[Scope][r] ELSE x
    BY <2>1 DEF After
  <2>5. PICK cell : cell = After(p, i, r)
    OBVIOUS
  <2>6. LastCell(Made(g, 1), 0, k, r, cell) /\ g[1][k].live[r] = ShownOf(cell)
    BY <1>1, <1>3, <2>3, <2>4, <2>5
  <2>7. cell \in {Unknown} \cup {Made(g, 1)[j].cell : j \in 1..k}
    BY <2>6, LastIn
  <2> QED BY <2>6, <2>7
<1> SUFFICES ASSUME NEW k \in 1..(n + Len(p)), NEW r \in Rows
             PROVE  \E cell \in {Unknown} \cup {Made(g, 1)[i].cell : i \in 1..k} :
                       LastCell(Made(g, 1), 0, k, r, cell) /\ g[1][k].live[r] = ShownOf(cell)
  BY <1>0 DEF LiveExact
<1>4. CASE k \in 1..n
  BY <1>2, <1>4
<1>5. CASE k - n \in 1..Len(p) /\ n + (k - n) = k
  BY <1>3, <1>5
<1> QED BY <1>4, <1>5, StepPositions

\* A reconciliation keeps the history true, and only adds to it.
LEMMA ScopeStep ==
    ASSUME IInv, IInv', HistoryOk, NEW order \in Orders(Scope), Reconcile(Scope, order), Record(order)
    PROVE  /\ HistoryOk' /\ Extends(history, history') /\ (First' => First)
           /\ At(history', epoch'[Scope], Len(log'[Scope]))
<1>1. PICK p, n, cut : Stepped(p, n, cut)
  BY StepTaken
<1>2. /\ Extends(history, history') /\ history' \in Histories /\ Len(history') = epoch'[Scope]
      /\ epoch'[Scope] \in DOMAIN history'
      /\ Made(history', epoch'[Scope]) = log'[Scope] /\ Len(log'[Scope]) = n + Len(p)
      /\ n + Len(p) \in Nat /\ n + Len(p) >= 1
  BY <1>1 DEF Stepped, Added, Extends
<1>3. log'[Scope] \in Seq(Changes) /\ DOMAIN log'[Scope] = 1..(n + Len(p)) /\ log'[Scope] # <<>>
  <2>1. log'[Scope] \in Seq(Changes)
    BY ScopeAssumption DEF IInv, ServerTypeOK, Changes
  <2> QED BY <1>2, <2>1
<1>4. Numbered(log'[Scope])
  BY <1>1, <1>3, StepNumbered
<1>5. RowsFollow(history)'
  BY <1>1, <1>3, StepFollow DEF RowsFollow
<1>6. Held(history', rows'[Scope], epoch'[Scope], Len(log'[Scope]))
  BY <1>1, <1>2, StepHeld
<1>7. DOMAIN history'[epoch'[Scope]] = 1..(n + Len(p))
  BY <1>2, <1>3, HistoryFacts
<1>8. ASSUME First'
      PROVE  /\ Exact(history', rows'[Scope], 1, Len(log'[Scope])) /\ First
             /\ \A k \in DOMAIN history'[1] : LiveExact(history', k)
  <2>1. First
    BY <1>1, <1>8, StaysFirst
  <2>2. epoch'[Scope] = 1
    BY <1>8 DEF First
  <2> QED BY <1>1, <1>2, <1>7, <1>8, <2>1, <2>2, StepExact, StepLive
<1>9. HistoryOk'
  BY <1>2, <1>3, <1>4, <1>5, <1>6, <1>8 DEF HistoryOk
<1>10. At(history', epoch'[Scope], Len(log'[Scope]))
  BY <1>2, <1>7 DEF At
<1> QED BY <1>2, <1>8, <1>9, <1>10

-----------------------------------------------------------------------------
(* Answers. *)

LEMMA RequestFacts ==
    ASSUME NEW q \in Requests
    PROVE  /\ q.kind \in {"snapshot", "difference"}
           /\ q.kind = "difference" => q.sinceSeq \in Nat /\ q.epoch \in Nat
BY DEF Requests

\* What was true of an answer or an entry stays true as the history grows.
LEMMA BodyStays ==
    ASSUME history \in Histories, Extends(history, history'), First' => First,
           NEW asked \in Requests, NEW body, BodyTrue(asked, body)
    PROVE  BodyTrue(asked, body)'
<1>1. CASE body.kind = "snapshot"
  <2>1. SnapshotTrue(body)
    BY <1>1 DEF BodyTrue
  <2>2. SnapshotTrue(body)'
    BY <2>1, WindowsStay DEF SnapshotTrue
  <2> QED BY <1>1, <2>2 DEF BodyTrue
<1>2. CASE body.kind = "notModified"
  <2>1. NotModifiedTrue(asked, body)
    BY <1>2 DEF BodyTrue
  <2>2. NotModifiedTrue(asked, body)'
    BY <2>1, WindowsStay DEF NotModifiedTrue
  <2> QED BY <1>2, <2>2 DEF BodyTrue
<1>3. CASE body.kind = "difference"
  <2>1. DifferenceTrue(asked, body)
    BY <1>3 DEF BodyTrue
  <2>2. asked.kind = "difference" /\ asked.sinceSeq \in Nat
    BY <1>3, RequestFacts DEF BodyTrue
  <2>3. DifferenceTrue(asked, body)'
    <3>1. At(history, body.epoch, body.toSeq) /\ At(history', body.epoch, body.toSeq)
      BY <2>1, WindowsStay DEF DifferenceTrue
    <3>2. \A r \in Rows :
             LastCell(Made(history', body.epoch), asked.sinceSeq, body.toSeq, r, body.event.cells[r])
      BY <2>1, <2>2, <3>1, LastStays DEF DifferenceTrue
    <3> QED BY <2>1, <3>1, <3>2 DEF DifferenceTrue
  <2> QED BY <1>3, <2>3 DEF BodyTrue
<1>4. CASE body.kind \notin {"snapshot", "notModified", "difference"}
  BY <1>4 DEF BodyTrue
<1> QED BY <1>1, <1>2, <1>3, <1>4

LEMMA EntryStays ==
    ASSUME history \in Histories, Extends(history, history'), First' => First,
           NEW e, EntryTrue(e)
    PROVE  EntryTrue(e)'
BY WindowsStay DEF EntryTrue

\* The answer to a request.
Answer(asked) ==
    IF asked.kind = "snapshot"
    THEN SnapshotBody(rows[Scope], log[Scope], epoch[Scope])
    ELSE DifferenceBody(log[Scope], epoch[Scope], asked.epoch, asked.sinceSeq)

LEMMA SnapshotServed ==
    ASSUME IInv, HistoryOk, At(history, epoch[Scope], Len(log[Scope]))
    PROVE  /\ SnapshotBody(rows[Scope], log[Scope], epoch[Scope]) \in Bodies
           /\ SnapshotTrue(SnapshotBody(rows[Scope], log[Scope], epoch[Scope]))
<1>1. PICK h, w, l, E, n : /\ h = history /\ w = rows[Scope] /\ l = log[Scope] /\ E = epoch[Scope]
                           /\ n = Len(log[Scope])
  OBVIOUS
<1>2. /\ w \in Windows /\ l \in Seq(Changes) /\ E \in Nat \ {0} /\ n \in Nat /\ h \in Histories
      /\ DOMAIN l = 1..n /\ At(h, E, n) /\ Held(h, w, E, n) /\ Made(h, E) = l
      /\ First => Exact(h, w, E, n)
  <2>1. /\ w \in Windows /\ l \in Seq(Changes) /\ E \in Nat \ {0} /\ h \in Histories
        /\ At(h, E, n) /\ Held(h, w, E, n) /\ Made(h, E) = l
    BY <1>1, ScopeFacts DEF HistoryOk
  <2>2. n \in Nat /\ DOMAIN l = 1..n
    BY <1>1, <2>1, LenProperties
  <2>3. First => Exact(h, w, E, n)
    BY <1>1 DEF HistoryOk, First
  <2> QED BY <2>1, <2>2, <2>3
<1>3. ASSUME NEW r \in Live(w), NEW i \in 1..n, NEW v \in VersionsAt(h[E][i], r)
      PROVE  v <= w[r].version
  <2>1. r \in Rows /\ w[r] # Unknown /\ r # NoRow
    BY UnknownCell, ServerAssumption DEF Live
  <2>2. i \in DOMAIN l /\ h[E][i].change = l[i]
    BY <1>2, HistoryFacts DEF At
  <2>3. CASE v = h[E][i].live[r].version
    BY <1>1, <2>1, <2>2, <2>3 DEF HistoryOk, RowsFollow
  <2>4. CASE l[i].row = r /\ v = l[i].cell.version
    BY <1>1, <2>1, <2>2, <2>4, ScopeAssumption DEF IInv, LogFollowed
  <2> QED BY <2>2, <2>3, <2>4 DEF VersionsAt
<1>4. Newest(h, w, E, n)
  BY <1>3 DEF Newest
<1>5. ASSUME NEW r \in Rows, w[r].version = 0 PROVE w[r] = Unknown
  <2>1. w[r] \in Cells /\ Seen(r, w[r])
    BY <1>1, <1>2, WindowCells, ScopeAssumption DEF Seen
  <2> QED BY <1>5, <2>1 DEF IInv, Versioned
<1> DEFINE b == SnapshotBody(w, l, E)
<1>6. b.kind = "snapshot" /\ b.watermark = n /\ b.epoch = E /\ b.state = w /\ b \in Bodies
  BY <1>1, <1>2 DEF SnapshotBody, Bodies
<1> HIDE DEF b
<1>7. SnapshotTrue(b)
  BY <1>1, <1>2, <1>4, <1>5, <1>6 DEF SnapshotTrue
<1> QED BY <1>1, <1>6, <1>7 DEF b

LEMMA DifferenceServed ==
    ASSUME IInv, HistoryOk, At(history, epoch[Scope], Len(log[Scope])),
           NEW asked \in Requests, asked.kind = "difference", NEW b,
           b = DifferenceBody(log[Scope], epoch[Scope], asked.epoch, asked.sinceSeq)
    PROVE  BodyTrue(asked, b)
<1>1. PICK l, E, n, a : /\ l = log[Scope] /\ E = epoch[Scope] /\ n = Len(log[Scope]) /\ a = asked.sinceSeq
  OBVIOUS
<1>2. /\ l \in Seq(Changes) /\ E \in Nat \ {0} /\ n \in Nat /\ Len(l) = n
      /\ At(history, E, n) /\ Made(history, E) = l /\ a \in Nat
  <2>1. l \in Seq(Changes) /\ E \in Nat \ {0} /\ At(history, E, n) /\ Made(history, E) = l
    BY <1>1, ScopeFacts DEF HistoryOk
  <2>2. n \in Nat /\ Len(l) = n
    BY <1>1, <2>1, LenProperties
  <2> QED BY <1>1, <2>1, <2>2, RequestFacts
<1> DEFINE old == asked.epoch # E \/ a > Len(l)
           same == asked.epoch = E /\ a = Len(l)
           required == [kind |-> "snapshotRequired", epoch |-> E]
           unmodified == [kind |-> "notModified", watermark |-> a, epoch |-> E]
           changed == [kind |-> "difference", epoch |-> E, toSeq |-> Len(l),
                       event |-> DifferenceEvent(SubSeq(l, a + 1, Len(l)))]
<1>0. b = CASE old -> required [] same -> unmodified [] OTHER -> changed
  BY <1>1 DEF DifferenceBody
<1>3. CASE asked.epoch # E \/ a > n
  <2>1. b = [kind |-> "snapshotRequired", epoch |-> E]
    <3>1. old /\ ~same
      BY <1>2, <1>3
    <3> HIDE DEF old, same, required, unmodified, changed
    <3>2. b = required
      BY <1>0, <3>1
    <3> QED BY <3>2 DEF required
  <2> HIDE DEF old, same, required, unmodified, changed
  <2>2. b.kind = "snapshotRequired" /\ b \in Bodies
    <3>1. b \in [kind : {"snapshotRequired"}, epoch : Nat \ {0}]
      BY <1>2, <2>1
    <3> QED BY <2>1, <3>1 DEF Bodies
  <2> QED BY <2>2 DEF BodyTrue
<1>4. CASE asked.epoch = E /\ a = n
  <2>1. b = [kind |-> "notModified", watermark |-> a, epoch |-> E]
    <3>1. same /\ ~old
      BY <1>2, <1>4
    <3> HIDE DEF old, same, required, unmodified, changed
    <3>2. b = unmodified
      BY <1>0, <3>1
    <3> QED BY <3>2 DEF unmodified
  <2>2. b.kind = "notModified" /\ b \in Bodies /\ b.watermark = a /\ b.epoch = E
    <3> HIDE DEF old, same, required, unmodified, changed
    <3>1. b \in [kind : {"notModified"}, watermark : Nat, epoch : Nat \ {0}]
      BY <1>2, <2>1
    <3>2. b \in Bodies
      BY <3>1 DEF Bodies
    <3> QED BY <2>1, <3>2
  <2>3. NotModifiedTrue(asked, b)
    BY <1>1, <1>2, <1>4, <2>2 DEF NotModifiedTrue
  <2> QED BY <2>2, <2>3 DEF BodyTrue
<1>5. CASE asked.epoch = E /\ a < n
  <2>1. PICK cells : cells = LatestByRow(SubSeq(l, a + 1, n))
    OBVIOUS
  <2>2. b = [kind |-> "difference", epoch |-> E, toSeq |-> n, event |-> [totals |-> TRUE, cells |-> cells]]
    <3>1. ~same /\ ~old
      BY <1>2, <1>5
    <3>2. changed = [kind |-> "difference", epoch |-> E, toSeq |-> n, event |-> [totals |-> TRUE, cells |-> cells]]
      BY <1>2, <2>1 DEF DifferenceEvent
    <3> HIDE DEF old, same, required, unmodified, changed
    <3>3. b = changed
      BY <1>0, <3>1
    <3> QED BY <3>2, <3>3
  <2>3. \A r \in Rows : LastCell(l, a, n, r, cells[r]) /\ cells[r] \in Cells
    <3>1. a <= n /\ n <= Len(l)
      BY <1>2, <1>5
    <3>2. ASSUME NEW r \in Rows
          PROVE  /\ LastCell(l, a, n, r, LatestByRow(SubSeq(l, a + 1, n))[r])
                 /\ LatestByRow(SubSeq(l, a + 1, n))[r] \in Cells
      BY <1>2, <3>1, LatestFacts
    <3> QED BY <2>1, <3>2
  <2>4. cells \in Windows
    <3>1. cells = [r \in Rows |-> cells[r]]
      BY <2>1 DEF LatestByRow
    <3> QED BY <2>3, <3>1 DEF Windows
  <2>5. /\ b.kind = "difference" /\ b.epoch = E /\ b.toSeq = n /\ b.event.cells = cells /\ b \in Bodies
    BY <1>2, <2>2, <2>4 DEF Bodies
  <2>6. DifferenceTrue(asked, b)
    BY <1>1, <1>2, <1>5, <2>3, <2>5 DEF DifferenceTrue
  <2> QED BY <2>5, <2>6 DEF BodyTrue
<1> QED BY <1>2, <1>3, <1>4, <1>5

\* Every answer is true when it is given.
LEMMA AnswerTrue ==
    ASSUME IInv, HistoryOk, At(history, epoch[Scope], Len(log[Scope]))
    PROVE  \A asked \in Requests : BodyTrue(asked, Answer(asked))
<1> SUFFICES ASSUME NEW asked \in Requests PROVE BodyTrue(asked, Answer(asked))
  OBVIOUS
<1>1. CASE asked.kind = "snapshot"
  <2>1. PICK b : b = SnapshotBody(rows[Scope], log[Scope], epoch[Scope])
    OBVIOUS
  <2>2. Answer(asked) = b /\ b.kind = "snapshot"
    BY <1>1, <2>1 DEF Answer, SnapshotBody
  <2>3. b \in Bodies /\ SnapshotTrue(b)
    BY <2>1, SnapshotServed
  <2> QED BY <1>1, <2>2, <2>3 DEF BodyTrue
<1>2. CASE asked.kind # "snapshot"
  BY <1>2, RequestFacts, DifferenceServed DEF Answer
<1> QED BY <1>1, <1>2

-----------------------------------------------------------------------------
(* The host takes what it is told. *)

\* An entry that is true and asks for nothing past its watermark.
EntryOk(e) ==
    /\ EntryTyped(e) /\ EntryTrue(e)
    /\ \A i \in DOMAIN e.pending : SinceOk(e.pending[i], e)

\* In the epoch of e, no row is shown by n in an older version.
NotOlder(e, n) ==
    (n.epoch = e.epoch /\ e.epoch # Core!NoEpoch) =>
        \A r \in Live(n.state) : n.state[r].version >= e.state[r].version

\* The entry n may follow e.
Evolves(e, n) == EntryOk(n) /\ (First => n.applied >= e.applied) /\ NotOlder(e, n)

LEMMA FirstEpoch ==
    ASSUME IInv, HistoryOk, First, NEW e, NEW k, At(history, e, k)
    PROVE  e = 1 /\ Numbered(Made(history, e)) /\ Advancing(Made(history, e))
<1>1. Len(history) = 1 /\ Made(history, 1) = log[Scope] /\ Numbered(log[Scope])
  BY DEF HistoryOk, First
<1>2. e = 1
  BY <1>1 DEF At, HistoryOk, Histories
<1>3. Advancing(log[Scope])
  BY ScopeAssumption, ServerAssumption DEF IInv, LogAdvances, Advancing
<1> QED BY <1>1, <1>2, <1>3

LEMMA AppliedFacts ==
    ASSUME NEW e, EntryTyped(e)
    PROVE  /\ e.applied \in Int /\ e.applied >= -1 /\ e.state \in Windows
           /\ (e.applied # Core!NoSeq <=> e.applied \in Nat)
           /\ (e.epoch # Core!NoEpoch <=> e.applied # Core!NoSeq)
           /\ \A r \in Rows : e.state[r].version >= e.state[r].version
<1>1. e.applied \in Nat \cup {-1} /\ e.state \in Windows
  BY CoreNone DEF EntryTyped, Windows
<1>2. \A r \in Rows : e.state[r].version \in Nat
  BY <1>1, WindowCells
<1>3. ASSUME NEW r \in Rows PROVE e.state[r].version >= e.state[r].version
  <2>1. PICK v \in Nat : v = e.state[r].version
    BY <1>2
  <2> QED BY <2>1
<1> QED BY <1>1, <1>3, CoreNone DEF EntryTyped

LEMMA SameOk ==
    ASSUME NEW e, EntryOk(e)
    PROVE  Evolves(e, e)
<1>1. e.applied >= e.applied /\ \A r \in Rows : e.state[r].version >= e.state[r].version
  BY AppliedFacts DEF EntryOk
<1> QED BY <1>1 DEF Evolves, NotOlder, Live

LEMMA RepairsOk ==
    ASSUME NEW e, EntryOk(e), NEW n, Repairs(e, n)
    PROVE  Evolves(e, n) /\ n.epoch = e.epoch
<1>1. /\ n.applied = e.applied /\ n.epoch = e.epoch /\ n.state = e.state /\ n.repair = TRUE
      /\ n.pending \in Seq(Requests) /\ n.pending # <<>>
  BY DEF Repairs
<1>2. EntryTyped(n)
  BY <1>1 DEF EntryOk, EntryTyped
<1>3. EntryTrue(n)
  BY <1>1 DEF EntryOk, EntryTrue
<1>4. \A q : SinceOk(q, e) => SinceOk(q, n)
  BY <1>1 DEF SinceOk
<1>5. ASSUME NEW q, AskedFor(q, e) PROVE SinceOk(q, n)
  <2> SUFFICES ASSUME q.kind = "difference" PROVE q.sinceSeq <= n.applied
    BY DEF SinceOk
  <2>1. q.sinceSeq = e.applied /\ e.applied \in Int
    BY <1>5, AppliedFacts DEF AskedFor, EntryOk
  <2> QED BY <1>1, <2>1
<1>6. \A i \in DOMAIN n.pending : SinceOk(n.pending[i], n)
  BY <1>4, <1>5 DEF Repairs, EntryOk
<1>7. e.applied >= e.applied /\ \A r \in Rows : e.state[r].version >= e.state[r].version
  BY AppliedFacts DEF EntryOk
<1> QED BY <1>1, <1>2, <1>3, <1>6, <1>7 DEF Evolves, EntryOk, NotOlder, Live

\* An entry that settles, or keeps, its requests while its window is folded
\* forward to position k of its epoch.
LEMMA FoldOk ==
    ASSUME IInv, HistoryOk, NEW e, EntryOk(e), e.applied # Core!NoSeq, NEW k, At(history, e.epoch, k),
           k >= e.applied, NEW a \in Nat, First => a <= e.applied, NEW cells \in Windows,
           \A r \in Rows : LastCell(Made(history, e.epoch), a, k, r, cells[r]),
           NEW n, n.applied = k, n.epoch = e.epoch, n.state = ApplyRowsAndTombstones(e.state, cells),
           \/ n.repair = FALSE /\ n.pending = <<>>
           \/ n.repair = e.repair /\ n.pending = e.pending
    PROVE  Evolves(e, n)
<1>1. /\ EntryTyped(e) /\ e.applied \in Nat /\ e.state \in Windows /\ e.epoch # Core!NoEpoch
      /\ history \in Histories
  BY AppliedFacts DEF EntryOk, HistoryOk
<1>2. /\ At(history, e.epoch, e.applied) /\ Held(history, e.state, e.epoch, e.applied)
      /\ First => Exact(history, e.state, e.epoch, e.applied)
  BY DEF EntryOk, EntryTrue
<1>3. k \in Nat /\ e.applied <= k
  <2>1. k \in Nat
    BY <1>1, HistoryFacts DEF At
  <2> QED BY <1>1, <2>1
<1>4. PICK w, h : w = e.state /\ h = history
  OBVIOUS
<1>5. n.state \in Windows /\ \A r \in Rows : n.state[r].version >= w[r].version
  BY <1>1, <1>4, FoldTyped
<1>6. Held(history, n.state, e.epoch, k)
  BY <1>1, <1>2, <1>3, FoldHeld
<1>7. ASSUME First PROVE Exact(history, n.state, e.epoch, k)
  <2>1. Numbered(Made(history, e.epoch)) /\ Advancing(Made(history, e.epoch))
    BY <1>2, <1>7, FirstEpoch
  <2>2. a <= e.applied /\ Exact(history, e.state, e.epoch, e.applied)
    BY <1>2, <1>7
  <2> QED BY <1>1, <1>2, <1>3, <2>1, <2>2, FoldExact
<1>8. EntryTyped(n)
  <2>1. /\ n.repair \in BOOLEAN /\ n.pending \in Seq(Requests) /\ (n.repair <=> n.pending # <<>>)
    <3>1. CASE n.repair = FALSE /\ n.pending = <<>>
      <4>1. <<>> \in Seq(Requests)
        OBVIOUS
      <4> QED BY <3>1, <4>1
    <3>2. CASE n.repair = e.repair /\ n.pending = e.pending
      <4>1. e.repair \in BOOLEAN /\ e.pending \in Seq(Requests) /\ (e.repair <=> e.pending # <<>>)
        BY <1>1 DEF EntryTyped
      <4> QED BY <3>2, <4>1
    <3> QED BY <3>1, <3>2
  <2>2. /\ n.applied \in Nat /\ n.epoch \in Nat /\ n.epoch # Core!NoEpoch /\ n.applied # Core!NoSeq
    BY <1>1, <1>3, CoreNone DEF EntryTyped
  <2>3. n.state \in [Rows -> Cells]
    BY <1>5 DEF Windows
  <2> QED BY <2>1, <2>2, <2>3 DEF EntryTyped
<1>9. EntryTrue(n)
  BY <1>6, <1>7 DEF EntryTrue
<1>10. \A i \in DOMAIN n.pending : SinceOk(n.pending[i], n)
  <2> SUFFICES ASSUME NEW i \in DOMAIN n.pending, First, n.pending[i].kind = "difference"
               PROVE  n.pending[i].sinceSeq <= n.applied
    BY DEF SinceOk
  <2>1. n.pending = e.pending /\ n.pending[i] \in Requests
    BY <1>8 DEF EntryTyped
  <2>2. n.pending[i].sinceSeq \in Nat /\ n.pending[i].sinceSeq <= e.applied
    BY <2>1, RequestFacts DEF EntryOk, SinceOk
  <2> QED BY <1>1, <1>3, <2>2
<1>11. NotOlder(e, n)
  BY <1>4, <1>5 DEF NotOlder, Live
<1> QED BY <1>8, <1>9, <1>10, <1>11 DEF Evolves, EntryOk

\* A push.
LEMMA FrameOk ==
    ASSUME IInv, HistoryOk, NEW e, EntryOk(e), NEW ep, NEW s, At(history, ep, s), NEW n,
           n = Core!IngestFrame(e, [seq |-> s, epoch |-> ep, event |-> PushEvent(history[ep][s].change)])
    PROVE  Evolves(e, n) /\ n.epoch = e.epoch
<1>1. /\ history \in Histories /\ ep \in Nat \ {0} /\ s \in Nat /\ history[ep][s].change \in Changes
      /\ Made(history, ep)[s] = history[ep][s].change
  <2>1. history \in Histories /\ ep \in DOMAIN history /\ s \in DOMAIN history[ep]
    BY DEF HistoryOk, At
  <2> QED BY <2>1, HistoryFacts
<1>2. PICK change, event : change = history[ep][s].change /\ event = PushEvent(change)
  OBVIOUS
<1>3. EntryTyped(e)
  BY DEF EntryOk
<1>4. n = Core!IngestFrame(e, [seq |-> s, epoch |-> ep, event |-> event])
  BY <1>2
<1>5. \/ n = e
      \/ Repairs(e, n)
      \/ /\ e.applied # Core!NoSeq /\ ep = e.epoch /\ s = e.applied + 1
         /\ n.applied = s /\ n.epoch = e.epoch /\ n.repair = e.repair
         /\ n.pending = e.pending /\ n.state = FoldActivityEvent(e.state, event)
  BY <1>1, <1>3, <1>4, FrameFacts
<1>6. CASE n = e
  BY <1>6, SameOk
<1>7. CASE Repairs(e, n)
  BY <1>7, RepairsOk
<1>8. CASE /\ e.applied # Core!NoSeq /\ ep = e.epoch /\ s = e.applied + 1
           /\ n.applied = s /\ n.epoch = e.epoch /\ n.repair = e.repair
           /\ n.pending = e.pending /\ n.state = FoldActivityEvent(e.state, event)
  <2>1. PICK cells, ch, a : cells = event.cells /\ ch = Made(history, e.epoch) /\ a = e.applied
    OBVIOUS
  <2>2. a \in Nat /\ a <= a
    <3>1. a \in Nat
      BY <1>3, <1>8, <2>1, AppliedFacts
    <3> QED BY <3>1
  <2>3. cells = [r \in Rows |-> IF change.row = r THEN change.cell ELSE Unknown]
    BY <1>2, <2>1 DEF PushEvent
  <2>4. cells \in Windows
    BY <1>1, <1>2, <2>3, UnknownCell DEF Windows, Changes
  <2>5. ASSUME NEW r \in Rows PROVE LastCell(ch, a, s, r, cells[r])
    <3>1. ch[s] = change /\ s = a + 1
      BY <1>1, <1>2, <1>8, <2>1
    <3>2. (a + 1)..s = {s} /\ (s + 1)..s = {}
      BY <1>1, <2>2, <3>1
    <3>3. cells[r] = IF change.row = r THEN change.cell ELSE Unknown
      BY <2>3
    <3> QED BY <3>1, <3>2, <3>3 DEF LastCell
  <2>6. n.state = ApplyRowsAndTombstones(e.state, cells)
    BY <1>8, <2>1 DEF FoldActivityEvent
  <2>7. s >= e.applied
    BY <1>8, <2>1, <2>2
  <2>8. Evolves(e, n)
    BY <1>8, <2>1, <2>2, <2>4, <2>5, <2>6, <2>7, FoldOk
  <2> QED BY <1>8, <2>8
<1> QED BY <1>5, <1>6, <1>7, <1>8

\* A snapshot.
LEMMA SnapshotOk ==
    ASSUME IInv, HistoryOk, NEW e, EntryOk(e), NEW body \in Bodies, body.kind = "snapshot",
           SnapshotTrue(body), NEW n, n = Core!IngestSnapshot(e, body)
    PROVE  Evolves(e, n) /\ (n.epoch = e.epoch \/ n.pending = <<>>)
<1>1. PICK k, ep, w : k = body.watermark /\ ep = body.epoch /\ w = body.state
  OBVIOUS
<1>2. k \in Nat /\ ep \in Nat \ {0} /\ w \in Windows
  BY <1>1 DEF Bodies
<1>3. /\ At(history, ep, k) /\ Held(history, w, ep, k) /\ Newest(history, w, ep, k)
      /\ \A r \in Rows : w[r].version = 0 => w[r] = Unknown
      /\ First => Exact(history, w, ep, k)
  BY <1>1 DEF SnapshotTrue
<1>4. /\ EntryTyped(e) /\ e.state \in Windows /\ e.applied \in Int /\ e.applied >= -1
      /\ history \in Histories
  BY AppliedFacts DEF EntryOk, HistoryOk
<1>5. CASE n = e
  BY <1>5, SameOk
<1>6. CASE /\ n.applied = k /\ n.epoch = ep /\ n.repair = FALSE
           /\ n.pending = <<>> /\ n.state = StateFromSnapshot(w)
           /\ (ep = e.epoch /\ e.applied # Core!NoSeq) => k > e.applied
  <2>1. n.state = w
    BY <1>2, <1>3, <1>6, SnapshotTaken
  <2>2. EntryTyped(n)
    <3>1. <<>> \in Seq(Requests)
      OBVIOUS
    <3>2. n.applied \in Nat /\ n.epoch \in Nat /\ n.applied # Core!NoSeq /\ n.epoch # Core!NoEpoch
      BY <1>2, <1>6, CoreNone
    <3>3. n.state \in [Rows -> Cells]
      BY <1>2, <2>1 DEF Windows
    <3> QED BY <1>6, <3>1, <3>2, <3>3 DEF EntryTyped
  <2>3. EntryTrue(n)
    BY <1>3, <1>6, <2>1 DEF EntryTrue
  <2>4. \A i \in DOMAIN n.pending : SinceOk(n.pending[i], n)
    BY <1>6
  <2>5. ASSUME First PROVE n.applied >= e.applied
    <3>1. CASE e.applied = Core!NoSeq
      BY <1>2, <1>6, <3>1, CoreNone
    <3>2. CASE e.applied # Core!NoSeq
      <4>1. At(history, e.epoch, e.applied)
        BY <3>2 DEF EntryOk, EntryTrue
      <4>2. ep = e.epoch
        BY <1>3, <2>5, <4>1, FirstEpoch
      <4> QED BY <1>2, <1>4, <1>6, <3>2, <4>2
    <3> QED BY <3>1, <3>2
  <2>6. NotOlder(e, n)
    <3> SUFFICES ASSUME n.epoch = e.epoch, e.epoch # Core!NoEpoch, NEW r \in Live(w)
                 PROVE  w[r].version >= e.state[r].version
      BY <2>1 DEF NotOlder
    <3>1. e.applied # Core!NoSeq /\ ep = e.epoch
      BY <1>4, <1>6, AppliedFacts
    <3>2. At(history, ep, e.applied) /\ Held(history, e.state, ep, e.applied) /\ e.applied <= k
      BY <1>2, <1>4, <1>6, <3>1 DEF EntryOk, EntryTrue
    <3> QED BY <1>2, <1>3, <1>4, <3>2, ShownNoOlder
  <2> QED BY <1>6, <2>2, <2>3, <2>4, <2>5, <2>6 DEF Evolves, EntryOk
<1> QED BY <1>1, <1>2, <1>4, <1>5, <1>6, SnapshotFacts

\* Requests are settled and the window stays as it is.
LEMMA StayOk ==
    ASSUME IInv, HistoryOk, NEW e, EntryOk(e), e.applied # Core!NoSeq, NEW k, At(history, e.epoch, k),
           k >= e.applied, First => k <= e.applied,
           NEW n, n.applied = k, n.epoch = e.epoch, n.state = e.state, n.repair = FALSE, n.pending = <<>>
    PROVE  Evolves(e, n)
<1>1. k \in Nat /\ e.state \in Windows
  <2>1. history \in Histories /\ e.epoch \in DOMAIN history /\ k \in DOMAIN history[e.epoch]
    BY DEF HistoryOk, At
  <2> QED BY <2>1, HistoryFacts, AppliedFacts DEF EntryOk
<1>2. EmptyWindow \in Windows /\ \A r \in Rows : EmptyWindow[r] = Unknown
  BY UnknownCell DEF EmptyWindow, Windows
<1>3. \A r \in Rows : LastCell(Made(history, e.epoch), k, k, r, EmptyWindow[r])
  <2>1. (k + 1)..k = {}
    BY <1>1
  <2> QED BY <1>2, <2>1 DEF LastCell
<1>4. n.state = ApplyRowsAndTombstones(e.state, EmptyWindow)
  <2>1. PICK w : w = e.state
    OBVIOUS
  <2>2. \A r \in Rows : ~Newer(w[r], EmptyWindow[r])
    <3> SUFFICES ASSUME NEW r \in Rows PROVE ~Newer(w[r], Unknown)
      BY <1>2
    <3>1. w[r].version \in Nat
      BY <1>1, <2>1, WindowCells
    <3> QED BY <3>1, UnknownCell DEF Newer
  <2>3. ApplyRowsAndTombstones(w, EmptyWindow) = [r \in Rows |-> w[r]]
    BY <2>2 DEF ApplyRowsAndTombstones
  <2>4. w = [r \in Rows |-> w[r]]
    BY <1>1, <2>1 DEF Windows
  <2> QED BY <2>1, <2>3, <2>4
<1> QED BY <1>1, <1>2, <1>3, <1>4, FoldOk

\* A difference of the epoch held, from no later than the watermark while the
\* first epoch lasts.
LEMMA DifferenceOk ==
    ASSUME IInv, HistoryOk, NEW e, EntryOk(e), NEW to \in Nat, e.epoch # Core!NoEpoch,
           At(history, e.epoch, to), NEW since \in Nat, First => since <= e.applied,
           NEW events, NEW cells \in Windows,
           \/ events = {} /\ to = since
           \/ /\ events = {[seq |-> to, event |-> [totals |-> TRUE, cells |-> cells]]}
              /\ \A r \in Rows : LastCell(Made(history, e.epoch), since, to, r, cells[r]),
           NEW n, n = Core!IngestDifference(e, [epoch |-> e.epoch, toSeq |-> to, events |-> events,
                                                partial |-> FALSE, snapshotRequired |-> FALSE])
    PROVE  Evolves(e, n) /\ n.epoch = e.epoch
<1>1. EntryTyped(e) /\ e.applied # Core!NoSeq /\ e.applied \in Nat
  BY AppliedFacts DEF EntryOk
<1>2. At(history, e.epoch, e.applied)
  BY <1>1 DEF EntryOk, EntryTrue
<1>3. Single(events, to)
  BY DEF Single
<1>4. Settles(e, n, to, events)
  BY <1>1, <1>3, DifferenceFacts
<1>5. CASE to <= e.applied
  <2>1. n.applied = e.applied /\ n.state = e.state /\ e.applied >= e.applied
    BY <1>1, <1>4, <1>5 DEF Settles
  <2>2. n.epoch = e.epoch /\ n.repair = FALSE /\ n.pending = <<>> /\ (First => e.applied <= e.applied)
    BY <1>1, <1>4 DEF Settles
  <2>3. Evolves(e, n)
    BY <1>1, <1>2, <2>1, <2>2, StayOk
  <2> QED BY <2>2, <2>3
<1>6. CASE to > e.applied /\ events = {}
  <2>1. n.applied = to /\ n.state = e.state /\ to = since
    BY <1>1, <1>4, <1>6 DEF Settles
  <2>2. First => to <= e.applied
    BY <2>1
  <2>3. to >= e.applied
    BY <1>1, <1>6
  <2>4. n.epoch = e.epoch /\ n.repair = FALSE /\ n.pending = <<>>
    BY <1>4 DEF Settles
  <2>5. Evolves(e, n)
    BY <1>1, <2>1, <2>2, <2>3, <2>4, StayOk
  <2> QED BY <2>4, <2>5
<1>7. CASE to > e.applied /\ events # {}
  <2>1. PICK event : /\ events = {[seq |-> to, event |-> event]}
                     /\ n.state = FoldActivityEvent(e.state, event)
    <3>1. ~(to <= e.applied)
      BY <1>1, <1>7
    <3>2. n.state # e.state \/ ~(to <= e.applied \/ events = {})
      BY <1>7, <3>1
    <3> QED BY <1>4, <1>7, <3>1, <3>2, Zenon DEF Settles
  <2>2. /\ events = {[seq |-> to, event |-> [totals |-> TRUE, cells |-> cells]]}
        /\ \A r \in Rows : LastCell(Made(history, e.epoch), since, to, r, cells[r])
    BY <1>7
  <2>3. event.cells = cells
    <3>1. [seq |-> to, event |-> event] = [seq |-> to, event |-> [totals |-> TRUE, cells |-> cells]]
      BY <2>1, <2>2
    <3>2. event = [totals |-> TRUE, cells |-> cells]
      BY <3>1
    <3> QED BY <3>2
  <2>4. n.state = ApplyRowsAndTombstones(e.state, cells) /\ n.applied = to /\ to >= e.applied
    <3>1. n.applied = to /\ to >= e.applied
      BY <1>1, <1>4, <1>7 DEF Settles
    <3> QED BY <2>1, <2>3, <3>1 DEF FoldActivityEvent
  <2>5. n.epoch = e.epoch /\ n.repair = FALSE /\ n.pending = <<>>
    BY <1>4 DEF Settles
  <2>6. Evolves(e, n)
    BY <1>1, <2>2, <2>4, <2>5, FoldOk
  <2> QED BY <2>5, <2>6
<1> QED BY <1>1, <1>5, <1>6, <1>7

\* The answer the host expects.
LEMMA IngestOk ==
    ASSUME IInv, HistoryOk, NEW e, EntryOk(e), NEW asked \in Requests, NEW body, BodyTrue(asked, body),
           body.kind # "snapshotRequired", SinceOk(asked, e),
           asked.kind = "difference" => asked.epoch = e.epoch,
           NEW n, n = Ingest(e, body)
    PROVE  Evolves(e, n) /\ (n.epoch = e.epoch \/ n.pending = <<>>)
<1>0. body \in Bodies /\ body.kind \in {"snapshot", "notModified", "difference"}
  <2>1. body \in Bodies
    BY DEF BodyTrue
  <2>2. body.kind \in {"snapshot", "snapshotRequired", "notModified", "difference"}
    BY <2>1 DEF Bodies
  <2> QED BY <2>1, <2>2
<1>1. CASE body.kind = "snapshot"
  <2>1. n = Core!IngestSnapshot(e, body)
    BY <1>1 DEF Ingest
  <2> QED BY <1>0, <1>1, <2>1, SnapshotOk DEF BodyTrue
<1>2. ASSUME body.kind # "snapshot"
      PROVE  /\ asked.kind = "difference" /\ asked.sinceSeq \in Nat
             /\ First => asked.sinceSeq <= e.applied
  BY <1>2, RequestFacts DEF BodyTrue, SinceOk
<1>3. CASE body.kind = "notModified"
  <2>1. /\ body.epoch = e.epoch /\ body.watermark = asked.sinceSeq /\ At(history, e.epoch, asked.sinceSeq)
    BY <1>2, <1>3 DEF BodyTrue, NotModifiedTrue
  <2>2. e.epoch # Core!NoEpoch
    <3>1. body.epoch \in Nat \ {0}
      BY <1>0, <1>3 DEF Bodies
    <3> QED BY <2>1, <3>1, CoreNone
  <2>3. n = Core!IngestDifference(e, [epoch |-> e.epoch, toSeq |-> asked.sinceSeq, events |-> {},
                                      partial |-> FALSE, snapshotRequired |-> FALSE])
    BY <1>3, <2>1 DEF Ingest
  <2>4. EmptyWindow \in Windows
    BY UnknownCell DEF EmptyWindow, Windows
  <2> QED BY <1>2, <1>3, <2>1, <2>2, <2>3, <2>4, DifferenceOk
<1>4. CASE body.kind = "difference"
  <2>1. /\ body.epoch = e.epoch /\ At(history, e.epoch, body.toSeq)
        /\ \A r \in Rows :
              LastCell(Made(history, e.epoch), asked.sinceSeq, body.toSeq, r, body.event.cells[r])
    BY <1>2, <1>4 DEF BodyTrue, DifferenceTrue
  <2>2. PICK to, event, cells : to = body.toSeq /\ event = body.event /\ cells = body.event.cells
    OBVIOUS
  <2>3. body.epoch \in Nat \ {0} /\ to \in Nat /\ event \in [totals : {TRUE}, cells : Windows]
    BY <1>0, <1>4, <2>2 DEF Bodies
  <2>4. cells \in Windows /\ event = [totals |-> TRUE, cells |-> cells] /\ e.epoch # Core!NoEpoch
    BY <2>1, <2>2, <2>3, CoreNone
  <2>5. n = Core!IngestDifference(e, [epoch |-> e.epoch, toSeq |-> to,
                                      events |-> {[seq |-> to, event |-> event]},
                                      partial |-> FALSE, snapshotRequired |-> FALSE])
    BY <1>4, <2>1, <2>2 DEF Ingest
  <2>6. PICK events : events = {[seq |-> to, event |-> [totals |-> TRUE, cells |-> cells]]}
    OBVIOUS
  <2>7. n = Core!IngestDifference(e, [epoch |-> e.epoch, toSeq |-> to, events |-> events,
                                      partial |-> FALSE, snapshotRequired |-> FALSE])
    BY <2>4, <2>5, <2>6
  <2>8. \A r \in Rows : LastCell(Made(history, e.epoch), asked.sinceSeq, to, r, cells[r])
    BY <2>1, <2>2
  <2>9. At(history, e.epoch, to)
    BY <2>1, <2>2
  <2> QED BY <1>2, <1>4, <2>3, <2>4, <2>6, <2>7, <2>8, <2>9, DifferenceOk
<1> QED BY <1>0, <1>1, <1>3, <1>4

-----------------------------------------------------------------------------
(* The steps of the host. *)

LEMMA IdleOk ==
    /\ CallOk(Idle)
    /\ \A e : CallSince(Idle, e)
    /\ \A c, e, out : Correlated(c, Idle, e, out)
<1>1. Idle.at = "idle"
  BY DEF Idle
<1> QED BY <1>1 DEF CallOk, CallTyped, CallSince, Correlated

LEMMA AskingFacts ==
    ASSUME NEW q \in Requests, NEW e, e.epoch \in Nat
    PROVE  /\ Asking(q, e) \in Requests /\ Asking(q, e).kind = q.kind
           /\ q.kind = "difference" => Asking(q, e).sinceSeq = q.sinceSeq /\ Asking(q, e).epoch = e.epoch
<1>1. CASE q.kind = "snapshot"
  <2>1. Asking(q, e) = q
    BY <1>1 DEF Asking
  <2> QED BY <1>1, <2>1
<1>2. CASE q.kind # "snapshot"
  <2>1. q \in [kind : {"difference"}, sinceSeq : Nat, epoch : Nat]
    BY <1>2 DEF Requests
  <2>2. PICK a : a = [q EXCEPT !.epoch = e.epoch]
    OBVIOUS
  <2>3. /\ a \in [kind : {"difference"}, sinceSeq : Nat, epoch : Nat]
        /\ a.kind = q.kind /\ a.sinceSeq = q.sinceSeq /\ a.epoch = e.epoch
    BY <2>1, <2>2
  <2>4. Asking(q, e) = a
    BY <1>2, <2>2 DEF Asking
  <2>5. a \in Requests
    BY <2>3 DEF Requests
  <2> QED BY <2>3, <2>4, <2>5
<1> QED BY <1>1, <1>2

\* A drain sends its next request in the epoch held.
LEMMA DrainOk ==
    ASSUME NEW e, EntryTyped(e), NEW todo \in Seq(Requests), todo # <<>>,
           \A i \in DOMAIN todo : SinceOk(todo[i], e),
           NEW c, NEW x, x = Sent(FALSE, Asking(Head(todo), e), Tail(todo))
    PROVE  CallOk(x) /\ CallSince(x, e) /\ Correlated(c, x, e, c)
<1>1. PICK q, rest, a : q = Head(todo) /\ rest = Tail(todo) /\ a = Asking(q, e)
  OBVIOUS
<1>2. /\ q \in Requests /\ q = todo[1] /\ 1 \in DOMAIN todo
      /\ rest \in Seq(Requests) /\ \A i \in DOMAIN rest : i + 1 \in DOMAIN todo /\ rest[i] = todo[i + 1]
  <2>1. PICK T : T = Requests
    OBVIOUS
  <2>2. todo \in Seq(T) /\ todo # <<>> /\ Len(todo) \in Nat /\ DOMAIN todo = 1..Len(todo) /\ Len(todo) >= 1
    <3>1. todo \in Seq(T)
      BY <2>1
    <3> QED BY <3>1, LenProperties, EmptySeq
  <2>3. /\ Head(todo) \in T /\ Tail(todo) \in Seq(T) /\ Len(Tail(todo)) = Len(todo) - 1
        /\ Head(todo) = todo[1] /\ \A i \in 1..Len(Tail(todo)) : Tail(todo)[i] = todo[i + 1]
    BY <2>2, HeadTailProperties
  <2>4. DOMAIN rest = 1..(Len(todo) - 1) /\ \A i \in DOMAIN rest : rest[i] = todo[i + 1]
    BY <1>1, <2>3, LenProperties
  <2>5. \A i \in 1..(Len(todo) - 1) : i + 1 \in 1..Len(todo)
    BY <2>2
  <2> QED BY <1>1, <2>1, <2>2, <2>3, <2>4, <2>5
<1>3. a \in Requests /\ a.kind = q.kind /\ (q.kind = "difference" => a.sinceSeq = q.sinceSeq /\ a.epoch = e.epoch)
  BY <1>1, <1>2, AskingFacts DEF EntryTyped
<1>4. CallOk(x) /\ x.at = "sent" /\ x.bootstrap = FALSE /\ x.asked = a /\ x.todo = rest
  <2>1. x = Sent(FALSE, a, rest) /\ a \in Requests /\ rest \in Seq(Requests)
    BY <1>1, <1>2, <1>3
  <2>2. /\ x.at = "sent" /\ x.bootstrap = FALSE /\ x.asked = a /\ x.todo = rest
        /\ x \in [at : {"sent", "answered"}, bootstrap : BOOLEAN, asked : Requests,
                  todo : Seq(Requests), body : {x.body}]
    BY ONLY <2>1 DEF Sent
  <2> QED BY <2>2 DEF CallOk, CallTyped
<1>5. SinceOk(a, e)
  <2>1. SinceOk(q, e)
    BY <1>2
  <2> QED BY <1>3, <2>1 DEF SinceOk
<1>6. \A i \in DOMAIN rest : SinceOk(rest[i], e)
  BY <1>2
<1>7. CallSince(x, e)
  BY <1>4, <1>5, <1>6 DEF CallSince
<1>8. Correlated(c, x, e, c)
  BY <1>3, <1>4 DEF Correlated
<1> QED BY <1>4, <1>7, <1>8

LEMMA CallFacts ==
    ASSUME NEW x, CallTyped(x), x.at # "idle"
    PROVE  /\ x.at \in {"sent", "answered"} /\ x.bootstrap \in BOOLEAN /\ x.asked \in Requests
           /\ x.todo \in Seq(Requests) /\ (x.bootstrap => x.asked.kind = "snapshot")
           /\ x = [at |-> x.at, bootstrap |-> x.bootstrap, asked |-> x.asked, todo |-> x.todo, body |-> x.body]
<1>1. x # Idle
  BY DEF Idle
<1>2. /\ x \in [at : {"sent", "answered"}, bootstrap : BOOLEAN, asked : Requests,
                todo : Seq(Requests), body : {x.body}]
      /\ x.bootstrap => x.asked.kind = "snapshot"
  BY <1>1 DEF CallTyped
<1> QED BY <1>2

\* What a call asks for stays behind the watermark as the entry moves on.
LEMMA SinceStays ==
    ASSUME NEW x, CallTyped(x), NEW e, NEW n, EntryTyped(e), EntryTyped(n),
           First => n.applied >= e.applied, CallSince(x, e)
    PROVE  CallSince(x, n)
<1> SUFFICES ASSUME x.at # "idle" PROVE SinceOk(x.asked, n) /\ \A i \in DOMAIN x.todo : SinceOk(x.todo[i], n)
  BY DEF CallSince
<1>1. ASSUME NEW q \in Requests, SinceOk(q, e) PROVE SinceOk(q, n)
  <2> SUFFICES ASSUME First, q.kind = "difference" PROVE q.sinceSeq <= n.applied
    BY DEF SinceOk
  <2>1. q.sinceSeq <= e.applied /\ q.sinceSeq \in Nat /\ e.applied \in Int /\ n.applied \in Int
    BY <1>1, RequestFacts, AppliedFacts DEF SinceOk
  <2> QED BY <2>1
<1>2. x.asked \in Requests /\ x.todo \in Seq(Requests)
  BY CallFacts
<1>3. \A i \in DOMAIN x.todo : x.todo[i] \in Requests
  BY <1>2
<1> QED BY <1>1, <1>2, <1>3 DEF CallSince

-----------------------------------------------------------------------------
(* The host as the history grows. *)

LEMMA ExtendsSelf ==
    ASSUME NEW h \in Histories
    PROVE  Extends(h, h)
BY DEF Extends

LEMMA CallStays ==
    ASSUME history \in Histories, Extends(history, history'), First' => First,
           NEW x, CallOk(x)
    PROVE  CallOk(x)'
<1>1. CallTyped(x)
  BY DEF CallOk
<1>2. ASSUME x.at = "answered" PROVE BodyTrue(x.asked, x.body)'
  <2>1. PICK a, b : a = x.asked /\ b = x.body
    OBVIOUS
  <2>2. a \in Requests /\ BodyTrue(a, b)
    BY <1>1, <1>2, <2>1, CallFacts DEF CallOk
  <2>3. BodyTrue(a, b)'
    BY <2>2, BodyStays
  <2> QED BY <2>1, <2>3
<1> QED BY <1>1, <1>2 DEF CallOk

LEMMA SinceKept ==
    ASSUME First' => First, NEW x, NEW e, CallSince(x, e)
    PROVE  CallSince(x, e)'
BY DEF CallSince, SinceOk

LEMMA EntryKept ==
    ASSUME history \in Histories, Extends(history, history'), First' => First,
           NEW e, EntryOk(e)
    PROVE  EntryOk(e)'
<1>1. EntryTyped(e) /\ EntryTrue(e)
  BY DEF EntryOk
<1>2. EntryTrue(e)'
  BY <1>1, EntryStays
<1>3. (\A i \in DOMAIN e.pending : SinceOk(e.pending[i], e))'
  BY DEF EntryOk, SinceOk
<1> QED BY <1>1, <1>2, <1>3 DEF EntryOk

\* The parts of the next state.
LEMMA HostNext ==
    ASSUME NEW n, n = entry', EntryOk(n)', NEW k, k = call', DOMAIN k = Calls,
           NEW out, out = outstanding',
           \A c \in Calls : CallOk(k[c])' /\ CallSince(k[c], n)' /\ Correlated(c, k[c], n, out)
    PROVE  HostOk'
<1>1. EntryTyped(entry') /\ EntryTrue(entry)'
  <2>1. EntryTyped(n) /\ EntryTrue(n)'
    BY DEF EntryOk
  <2> QED BY <2>1 DEF EntryTrue
<1>2. (\A i \in DOMAIN entry.pending : SinceOk(entry.pending[i], entry))'
  <2>1. (\A i \in DOMAIN n.pending : SinceOk(n.pending[i], n))'
    BY DEF EntryOk
  <2> QED BY <2>1 DEF SinceOk
<1>3. ASSUME NEW c \in Calls
      PROVE  (CallOk(call[c]) /\ CallSince(call[c], entry) /\ Correlated(c, call[c], entry, outstanding))'
  <2>1. PICK x : x = k[c]
    OBVIOUS
  <2>2. CallOk(x)' /\ CallSince(x, n)' /\ Correlated(c, x, n, out)
    BY <2>1
  <2>3. x = call'[c]
    BY <2>1
  <2> QED BY <2>2, <2>3 DEF CallOk, BodyTrue, SnapshotTrue, NotModifiedTrue, DifferenceTrue, CallSince, SinceOk
<1> QED BY <1>1, <1>2, <1>3 DEF HostOk

LEMMA HostFacts ==
    ASSUME HostOk
    PROVE  /\ EntryOk(entry) /\ EntryTyped(entry) /\ DOMAIN call = Calls
           /\ \A c \in Calls : /\ CallOk(call[c]) /\ CallTyped(call[c]) /\ CallSince(call[c], entry)
                               /\ Correlated(c, call[c], entry, outstanding)
BY DEF HostOk, EntryOk, CallOk

\* A call that a step leaves alone.
LEMMA OtherKept ==
    ASSUME HistoryOk, HostOk, Extends(history, history'), First' => First,
           NEW n, Evolves(entry, n), NEW d \in Calls, NEW x, x = call[d],
           NEW out, out \in {outstanding, NoCall} \/ out # d,
           n.epoch = entry.epoch \/ out # outstanding \/ out = NoCall
    PROVE  CallOk(x)' /\ CallSince(x, n)' /\ Correlated(d, x, n, out)
<1>1. /\ CallOk(x) /\ CallTyped(x) /\ CallSince(x, entry) /\ Correlated(d, x, entry, outstanding)
      /\ EntryTyped(entry) /\ EntryTyped(n) /\ (First => n.applied >= entry.applied)
      /\ history \in Histories
  BY HostFacts DEF Evolves, EntryOk, HistoryOk
<1>2. CallOk(x)'
  BY <1>1, CallStays
<1>3. CallSince(x, n)'
  <2>1. PICK e : e = entry
    OBVIOUS
  <2>2. CallSince(x, n)
    BY <1>1, <2>1, SinceStays
  <2> QED BY <2>2, SinceKept
<1>4. Correlated(d, x, n, out)
  <2>1. out # NoCall \/ d # NoCall
    BY ScopeAssumption
  <2> QED BY <1>1, <2>1, ScopeAssumption DEF Correlated
<1> QED BY <1>2, <1>3, <1>4

\* A step of one call.
LEMMA HostStep ==
    ASSUME HistoryOk, HostOk, Extends(history, history'), First' => First,
           NEW n, n = entry', Evolves(entry, n), NEW out, out = outstanding',
           NEW c \in Calls, NEW y, call' = [call EXCEPT ![c] = y],
           CallOk(y)', CallSince(y, n)', out = c => Correlated(c, y, n, c),
           out \in {outstanding, NoCall, c},
           n.epoch = entry.epoch \/ out \in {NoCall, c}
    PROVE  HostOk'
<1>1. history \in Histories /\ DOMAIN call = Calls
  BY HostFacts DEF HistoryOk
<1>2. PICK k : k = call'
  OBVIOUS
<1>3. DOMAIN k = Calls /\ k[c] = y /\ \A d \in Calls \ {c} : k[d] = call[d]
  BY <1>1, <1>2
<1>4. EntryOk(n)'
  BY <1>1, EntryKept DEF Evolves
<1>5. ASSUME NEW d \in Calls, d # c
      PROVE  CallOk(k[d])' /\ CallSince(k[d], n)' /\ Correlated(d, k[d], n, out)
  <2>1. PICK x : x = call[d]
    OBVIOUS
  <2>2. out \in {outstanding, NoCall} \/ out # d
    BY <1>5
  <2>3. CASE n.epoch = entry.epoch \/ out # outstanding \/ out = NoCall
    <3>1. CallOk(x)' /\ CallSince(x, n)' /\ Correlated(d, x, n, out)
      BY <2>1, <2>2, <2>3, OtherKept
    <3>2. x = k[d]
      BY <1>3, <1>5, <2>1
    <3> QED BY <3>1, <3>2
  <2>4. CASE out = c
    <3>1. out # d
      BY <1>5, <2>4
    <3>2. PICK o : o = NoCall
      OBVIOUS
    <3>3. CallOk(x)' /\ CallSince(x, n)'
      BY <2>1, <3>2, OtherKept
    <3>4. Correlated(d, x, n, out)
      BY <3>1 DEF Correlated
    <3>5. x = k[d]
      BY <1>3, <1>5, <2>1
    <3> QED BY <3>3, <3>4, <3>5
  <2> QED BY <2>3, <2>4
<1>6. CallOk(k[c])' /\ CallSince(k[c], n)' /\ Correlated(c, k[c], n, out)
  <2>1. Correlated(c, y, n, out)
    BY DEF Correlated
  <2> QED BY <1>3, <2>1
<1>7. ASSUME NEW d \in Calls
      PROVE  CallOk(k[d])' /\ CallSince(k[d], n)' /\ Correlated(d, k[d], n, out)
  BY <1>5, <1>6
<1>8. n = entry' /\ out = outstanding' /\ k = call' /\ DOMAIN k = Calls
  BY <1>2, <1>3
<1> QED BY ONLY <1>4, <1>7, <1>8, HostNext

\* A step of no call.
LEMMA HostRest ==
    ASSUME HistoryOk, HostOk, Extends(history, history'), First' => First,
           NEW n, n = entry', Evolves(entry, n), n.epoch = entry.epoch,
           UNCHANGED <<outstanding, call>>
    PROVE  HostOk'
<1>1. history \in Histories /\ DOMAIN call = Calls
  BY HostFacts DEF HistoryOk
<1>2. PICK k, out : k = call' /\ out = outstanding'
  OBVIOUS
<1>3. DOMAIN k = Calls /\ out = outstanding /\ \A d \in Calls : k[d] = call[d]
  BY <1>1, <1>2
<1>4. EntryOk(n)'
  BY <1>1, EntryKept DEF Evolves
<1>5. ASSUME NEW d \in Calls
      PROVE  CallOk(k[d])' /\ CallSince(k[d], n)' /\ Correlated(d, k[d], n, out)
  <2>1. PICK x : x = call[d]
    OBVIOUS
  <2>2. CallOk(x)' /\ CallSince(x, n)' /\ Correlated(d, x, n, out)
    BY <1>3, <2>1, OtherKept
  <2>3. x = k[d]
    BY <1>3, <2>1
  <2> QED BY <2>2, <2>3
<1> QED BY <1>2, <1>3, <1>4, <1>5, HostNext

-----------------------------------------------------------------------------
(* The steps of the composition keep the invariant. *)

\* The last position of the log is one of the history.
Served == At(history, epoch[Scope], Len(log[Scope]))

AnswersTrue == \A asked \in Requests : \E b : b = Answer(asked) /\ BodyTrue(asked, b)

LEMMA AnswersNext == (IInv /\ HistoryOk /\ Served)' => AnswersTrue'
<1>1. (IInv /\ HistoryOk /\ Served) => AnswersTrue
  <2> SUFFICES ASSUME IInv, HistoryOk, Served PROVE AnswersTrue
    OBVIOUS
  <2>1. \A asked \in Requests : BodyTrue(asked, Answer(asked))
    BY AnswerTrue DEF Served
  <2> QED BY <2>1 DEF AnswersTrue
<1> QED BY <1>1, PTL

\* A step that leaves the scope alone.
LEMMA Resting ==
    ASSUME HistoryOk, UNCHANGED scopeVars, UNCHANGED history
    PROVE  HistoryOk' /\ Extends(history, history') /\ (First' => First)
<1>1. /\ authority' = authority /\ rows' = rows /\ log' = log /\ epoch' = epoch /\ digest' = digest
      /\ history' = history
  BY DEF scopeVars
<1>2. HistoryOk'
  BY <1>1 DEF HistoryOk, RowsFollow, First
<1>3. Extends(history, history')
  BY <1>1, ExtendsSelf DEF HistoryOk
<1> QED BY <1>1, <1>2, <1>3 DEF First

LEMMA WorldStep ==
    ASSUME SInv, World
    PROVE  SInv' /\ NotOlder(entry, entry')
<1>1. /\ UNCHANGED scopeVars /\ UNCHANGED history /\ entry' = entry /\ UNCHANGED <<outstanding, call>>
  BY DEF World, Edit, EditTotals, hostVars
<1>2. PICK n : n = entry'
  OBVIOUS
<1>3. HistoryOk' /\ Extends(history, history') /\ (First' => First)
  BY <1>1, Resting DEF SInv
<1>4. HistoryOk /\ HostOk /\ Evolves(entry, n) /\ n.epoch = entry.epoch
  BY <1>1, <1>2, HostFacts, SameOk DEF SInv
<1>5. HostOk'
  BY <1>1, <1>2, <1>3, <1>4, HostRest
<1> QED BY <1>2, <1>3, <1>4, <1>5 DEF SInv, Evolves

LEMMA PushStep ==
    ASSUME IInv, SInv, NEW e \in DOMAIN history, NEW s \in DOMAIN history[e], Push(e, s)
    PROVE  SInv' /\ NotOlder(entry, entry')
<1>1. /\ UNCHANGED scopeVars /\ UNCHANGED history /\ UNCHANGED <<outstanding, call>>
  BY DEF Push, serverVars
<1>2. PICK n, o : n = entry' /\ o = entry
  OBVIOUS
<1>3. HistoryOk' /\ Extends(history, history') /\ (First' => First)
  BY <1>1, Resting DEF SInv
<1>4. HistoryOk /\ HostOk /\ EntryOk(o) /\ At(history, e, s)
  BY <1>2, HostFacts DEF SInv, At
<1>5. n = Core!IngestFrame(o, [seq |-> s, epoch |-> e, event |-> PushEvent(history[e][s].change)])
  BY <1>2 DEF Push
<1>6. Evolves(o, n) /\ n.epoch = o.epoch
  BY <1>4, <1>5, FrameOk
<1>7. Evolves(entry, n) /\ n.epoch = entry.epoch
  BY <1>2, <1>6
<1>8. HostOk'
  BY <1>1, <1>2, <1>3, <1>4, <1>7, HostRest
<1> QED BY <1>2, <1>3, <1>7, <1>8 DEF SInv, Evolves

LEMMA ReaderStep ==
    ASSUME IInv, IInv', SInv, OtherReader
    PROVE  SInv' /\ NotOlder(entry, entry')
<1>1. PICK order \in Orders(Scope) : Reconcile(Scope, order) /\ Record(order)
  BY DEF OtherReader
<1>2. HistoryOk' /\ Extends(history, history') /\ (First' => First)
  BY <1>1, ScopeStep DEF SInv
<1>3. PICK n : n = entry'
  OBVIOUS
<1>4. entry' = entry /\ UNCHANGED <<outstanding, call>>
  BY DEF OtherReader, hostVars
<1>5. HistoryOk /\ HostOk /\ Evolves(entry, n) /\ n.epoch = entry.epoch
  BY <1>3, <1>4, HostFacts, SameOk DEF SInv
<1>6. HostOk'
  BY <1>2, <1>3, <1>4, <1>5, HostRest
<1> QED BY <1>2, <1>3, <1>5, <1>6 DEF SInv, Evolves

\* A request is answered.
Answered(x, b) == [x EXCEPT !.at = "answered", !.body = b]

LEMMA AnsweredOk ==
    ASSUME NEW x, CallTyped(x), x.at = "sent", NEW a, a = x.asked, NEW b, BodyTrue(a, b)',
           NEW y, y = Answered(x, b), NEW e, CallSince(x, e)', NEW c
    PROVE  /\ CallOk(y)' /\ CallSince(y, e)'
           /\ Correlated(c, x, e, c) => Correlated(c, y, e, c)
<1>1. /\ x.bootstrap \in BOOLEAN /\ x.asked \in Requests /\ x.todo \in Seq(Requests)
      /\ (x.bootstrap => x.asked.kind = "snapshot")
      /\ x = [at |-> x.at, bootstrap |-> x.bootstrap, asked |-> x.asked, todo |-> x.todo, body |-> x.body]
  BY CallFacts
<1>2. PICK bs, t : bs = x.bootstrap /\ t = x.todo
  OBVIOUS
<1>3. y = [at |-> "answered", bootstrap |-> bs, asked |-> a, todo |-> t, body |-> b]
  BY <1>1, <1>2 DEF Answered
<1>4. y.at = "answered" /\ y.bootstrap = bs /\ y.asked = a /\ y.todo = t /\ y.body = b
  BY ONLY <1>3
<1>5. y \in [at : {"sent", "answered"}, bootstrap : BOOLEAN, asked : Requests,
             todo : Seq(Requests), body : {y.body}]
  BY <1>1, <1>2, <1>3, <1>4
<1>6. CallTyped(y)
  BY <1>1, <1>2, <1>4, <1>5 DEF CallTyped
<1>7. BodyTrue(y.asked, y.body)'
  BY <1>2, <1>4
<1>8. CallOk(y)'
  BY <1>6, <1>7 DEF CallOk
<1>9. CallSince(y, e)'
  BY <1>2, <1>4 DEF CallSince
<1>10. Correlated(c, x, e, c) => Correlated(c, y, e, c)
  BY <1>2, <1>4 DEF Correlated
<1> QED BY <1>8, <1>9, <1>10

LEMMA ServeStep ==
    ASSUME IInv, IInv', SInv, NEW c \in Calls, Serve(c)
    PROVE  SInv' /\ NotOlder(entry, entry')
<1>1. PICK order \in Orders(Scope) : Reconcile(Scope, order) /\ Record(order)
  BY DEF Serve
<1>2. HistoryOk' /\ Extends(history, history') /\ (First' => First) /\ Served'
  BY <1>1, ScopeStep DEF SInv, Served
<1>3. PICK n, out, x : n = entry' /\ out = outstanding' /\ x = call[c]
  OBVIOUS
<1>4. n = entry /\ out = outstanding /\ x.at = "sent"
  BY <1>3 DEF Serve
<1>5. /\ HistoryOk /\ HostOk /\ Evolves(entry, n) /\ n.epoch = entry.epoch
      /\ CallOk(x) /\ CallTyped(x) /\ CallSince(x, n) /\ Correlated(c, x, n, out)
  BY <1>3, <1>4, HostFacts, SameOk DEF SInv
<1>6. x.asked \in Requests
  BY <1>4, <1>5, CallFacts
<1>7. PICK a \in Requests : a = x.asked
  BY <1>6
<1>8. PICK b : b = Answer(a)' /\ BodyTrue(a, b)'
  <2>1. AnswersTrue'
    BY <1>2, AnswersNext
  <2> QED BY <2>1 DEF AnswersTrue
<1>9. PICK y : y = Answered(x, b)
  OBVIOUS
<1>10. call' = [call EXCEPT ![c] = y]
  BY <1>3, <1>7, <1>8, <1>9 DEF Serve, Answer, Answered
<1>11. CallSince(x, n)'
  BY <1>2, <1>5, SinceKept
<1>12. /\ CallOk(y)' /\ CallSince(y, n)'
       /\ Correlated(c, x, n, c) => Correlated(c, y, n, c)
  BY ONLY <1>4, <1>5, <1>7, <1>8, <1>9, <1>11, AnsweredOk
<1>13. HostOk'
  <2>1. out = c => Correlated(c, y, n, c)
    BY <1>5, <1>12
  <2>2. out \in {outstanding, NoCall, c}
    BY <1>4
  <2> QED BY <1>2, <1>3, <1>5, <1>10, <1>12, <2>1, <2>2, HostStep
<1> QED BY <1>2, <1>3, <1>5, <1>13 DEF SInv, Evolves

\* A step of one call of the host, which leaves the server alone.
LEMMA CallStep ==
    ASSUME SInv, UNCHANGED scopeVars, UNCHANGED history,
           NEW n, n = entry', Evolves(entry, n), NEW out, out = outstanding',
           NEW c \in Calls, NEW y, call' = [call EXCEPT ![c] = y],
           CallOk(y), CallSince(y, n), out = c => Correlated(c, y, n, c),
           out \in {outstanding, NoCall, c},
           n.epoch = entry.epoch \/ out \in {NoCall, c}
    PROVE  SInv' /\ NotOlder(entry, entry')
<1>1. HistoryOk /\ HostOk /\ history \in Histories
  BY DEF SInv, HistoryOk
<1>2. HistoryOk' /\ Extends(history, history') /\ (First' => First)
  BY <1>1, Resting
<1>3. CallOk(y)' /\ CallSince(y, n)'
  BY <1>1, <1>2, CallStays, SinceKept
<1>4. HostOk'
  BY <1>1, <1>2, <1>3, HostStep
<1> QED BY <1>2, <1>4 DEF SInv, Evolves

\* A call ends.
LEMMA EndStep ==
    ASSUME SInv, UNCHANGED scopeVars, UNCHANGED history,
           NEW n, n = entry', Evolves(entry, n), NEW c \in Calls, call' = [call EXCEPT ![c] = Idle],
           outstanding' \in {outstanding, NoCall}, n.epoch = entry.epoch \/ outstanding' = NoCall
    PROVE  SInv' /\ NotOlder(entry, entry')
<1>1. PICK y, out : y = Idle /\ out = outstanding'
  OBVIOUS
<1>2. CallOk(y) /\ CallSince(y, n) /\ Correlated(c, y, n, c)
  BY <1>1, IdleOk
<1>3. call' = [call EXCEPT ![c] = y] /\ out \in {outstanding, NoCall, c}
      /\ (n.epoch = entry.epoch \/ out \in {NoCall, c})
  BY <1>1
<1> QED BY <1>1, <1>2, <1>3, CallStep

\* A call goes on with a list of requests.
LEMMA GoesOn ==
    ASSUME SInv, UNCHANGED scopeVars, UNCHANGED history,
           NEW n, n = entry', Evolves(entry, n), NEW c \in Calls,
           NEW todo \in Seq(Requests), todo # <<>>, \A i \in DOMAIN todo : SinceOk(todo[i], n),
           DrainStep(c, todo, n)
    PROVE  SInv' /\ NotOlder(entry, entry')
<1>1. PICK y, out : y = Sent(FALSE, Asking(Head(todo), n), Tail(todo)) /\ out = outstanding'
  OBVIOUS
<1>2. call' = [call EXCEPT ![c] = y] /\ out = c
  BY <1>1 DEF DrainStep
<1>3. EntryTyped(n)
  BY DEF Evolves, EntryOk
<1>4. CallOk(y) /\ CallSince(y, n) /\ Correlated(c, y, n, c)
  BY <1>1, <1>3, DrainOk
<1>5. out \in {outstanding, NoCall, c} /\ (n.epoch = entry.epoch \/ out \in {NoCall, c})
  BY <1>2
<1> QED BY <1>1, <1>2, <1>4, <1>5, CallStep

LEMMA BootstrapStep ==
    ASSUME SInv, NEW c \in Calls, Bootstrap(c)
    PROVE  SInv' /\ NotOlder(entry, entry')
<1>1. PICK n, out, y : n = entry' /\ out = outstanding' /\ y = Sent(TRUE, [kind |-> "snapshot"], <<>>)
  OBVIOUS
<1>2. /\ UNCHANGED scopeVars /\ UNCHANGED history /\ n = entry /\ out = outstanding
      /\ call' = [call EXCEPT ![c] = y]
  BY <1>1 DEF Bootstrap, serverVars
<1>3. PICK q : q = [kind |-> "snapshot"]
  OBVIOUS
<1>4. q \in Requests /\ q.kind = "snapshot"
  BY <1>3 DEF Requests
<1>5. /\ y.at = "sent" /\ y.bootstrap = TRUE /\ y.asked = q /\ y.todo = <<>>
      /\ y \in [at : {"sent", "answered"}, bootstrap : BOOLEAN, asked : Requests,
                todo : Seq(Requests), body : {y.body}]
  <2>1. y = Sent(TRUE, q, <<>>) /\ <<>> \in Seq(Requests)
    BY <1>1, <1>3
  <2> QED BY ONLY <1>4, <2>1 DEF Sent
<1>6. CallOk(y)
  BY <1>4, <1>5 DEF CallOk, CallTyped
<1>7. CallSince(y, n)
  BY <1>4, <1>5 DEF CallSince, SinceOk
<1>8. Correlated(c, y, n, c)
  BY <1>5 DEF Correlated
<1>9. Evolves(entry, n) /\ n.epoch = entry.epoch
  BY <1>2, HostFacts, SameOk DEF SInv
<1> QED BY <1>1, <1>2, <1>6, <1>7, <1>8, <1>9, CallStep

LEMMA DrainsStep ==
    ASSUME SInv, NEW c \in Calls, Drain(c)
    PROVE  SInv' /\ NotOlder(entry, entry')
<1>1. PICK n, todo : n = entry' /\ todo = entry.pending
  OBVIOUS
<1>2. /\ UNCHANGED scopeVars /\ UNCHANGED history /\ n = entry /\ todo # <<>> /\ DrainStep(c, todo, n)
  BY <1>1 DEF Drain, serverVars
<1>3. Evolves(entry, n) /\ todo \in Seq(Requests) /\ \A i \in DOMAIN todo : SinceOk(todo[i], n)
  BY <1>1, <1>2, HostFacts, SameOk DEF SInv, EntryOk, EntryTyped
<1> QED BY <1>1, <1>2, <1>3, GoesOn

LEMMA EndsStep ==
    ASSUME SInv, NEW c \in Calls, Fail(c) \/ ConflictThrows(c)
    PROVE  SInv' /\ NotOlder(entry, entry')
<1>1. PICK n : n = entry'
  OBVIOUS
<1>2. /\ UNCHANGED scopeVars /\ UNCHANGED history /\ n = entry /\ outstanding' = outstanding
      /\ call' = [call EXCEPT ![c] = Idle]
  BY <1>1 DEF Fail, ConflictThrows, serverVars
<1>3. Evolves(entry, n) /\ n.epoch = entry.epoch
  BY <1>2, HostFacts, SameOk DEF SInv
<1> QED BY <1>1, <1>2, <1>3, EndStep

\* What an answered call holds.
LEMMA AnsweredFacts ==
    ASSUME SInv, NEW c \in Calls, NEW x, x = call[c], x.at = "answered"
    PROVE  /\ x.asked \in Requests /\ x.todo \in Seq(Requests) /\ BodyTrue(x.asked, x.body)
           /\ (x.bootstrap => x.asked.kind = "snapshot") /\ SinceOk(x.asked, entry)
           /\ \A n : (EntryTyped(n) /\ (First => n.applied >= entry.applied)) =>
                 \A i \in DOMAIN x.todo : SinceOk(x.todo[i], n)
           /\ (outstanding = c /\ ~x.bootstrap /\ x.asked.kind = "difference") => x.asked.epoch = entry.epoch
<1>1. /\ CallOk(x) /\ CallTyped(x) /\ CallSince(x, entry) /\ Correlated(c, x, entry, outstanding)
      /\ EntryTyped(entry)
  BY HostFacts DEF SInv
<1>2. ASSUME NEW n, EntryTyped(n), First => n.applied >= entry.applied
      PROVE  \A i \in DOMAIN x.todo : SinceOk(x.todo[i], n)
  <2>1. PICK e : e = entry
    OBVIOUS
  <2>2. CallSince(x, n)
    BY <1>1, <1>2, <2>1, SinceStays
  <2> QED BY <2>2 DEF CallSince
<1>3. x.asked \in Requests /\ x.todo \in Seq(Requests) /\ (x.bootstrap => x.asked.kind = "snapshot")
  BY <1>1, CallFacts
<1>4. BodyTrue(x.asked, x.body) /\ SinceOk(x.asked, entry)
  BY <1>1 DEF CallOk, CallSince
<1>5. (outstanding = c /\ ~x.bootstrap /\ x.asked.kind = "difference") => x.asked.epoch = entry.epoch
  BY <1>1 DEF Correlated
<1> QED BY <1>2, <1>3, <1>4, <1>5

\* The entry after an expected answer.
LEMMA TakenOk ==
    ASSUME IInv, SInv, NEW c \in Calls, NEW x, x = call[c], x.at = "answered",
           x.body.kind # "snapshotRequired", x.bootstrap \/ outstanding = c,
           NEW n, n = Ingest(entry, x.body)
    PROVE  Evolves(entry, n) /\ (n.epoch = entry.epoch \/ n.pending = <<>>)
<1>1. PICK e, a, b : e = entry /\ a = x.asked /\ b = x.body
  OBVIOUS
<1>2. /\ a \in Requests /\ BodyTrue(a, b) /\ SinceOk(a, e) /\ (x.bootstrap => a.kind = "snapshot")
      /\ (outstanding = c /\ ~x.bootstrap /\ a.kind = "difference") => a.epoch = e.epoch
  BY <1>1, AnsweredFacts
<1>3. a.kind = "difference" => a.epoch = e.epoch
  BY <1>2, HostFacts DEF SInv
<1>4. HistoryOk /\ EntryOk(e) /\ b.kind # "snapshotRequired" /\ n = Ingest(e, b)
  BY <1>1, HostFacts DEF SInv
<1>5. Evolves(e, n) /\ (n.epoch = e.epoch \/ n.pending = <<>>)
  BY <1>2, <1>3, <1>4, IngestOk
<1> QED BY <1>1, <1>5

LEMMA ReceiveDrainedStep ==
    ASSUME IInv, SInv, NEW c \in Calls, ReceiveDrained(c)
    PROVE  SInv' /\ NotOlder(entry, entry')
<1>1. PICK n, x, todo : n = entry' /\ x = call[c] /\ todo = x.todo
  OBVIOUS
<1>2. /\ UNCHANGED scopeVars /\ UNCHANGED history /\ x.at = "answered" /\ ~x.bootstrap
      /\ x.body.kind # "snapshotRequired"
      /\ n = IF Correlates(c) THEN Ingest(entry, x.body) ELSE entry
  BY <1>1 DEF ReceiveDrained, serverVars
<1>3. /\ todo = <<>> => /\ call' = [call EXCEPT ![c] = Idle]
                        /\ outstanding' = IF Correlates(c) THEN NoCall ELSE outstanding
      /\ todo # <<>> => DrainStep(c, todo, n)
  BY <1>1 DEF ReceiveDrained
<1>4. Evolves(entry, n) /\ (Correlates(c) \/ n.epoch = entry.epoch)
  <2>1. CASE Correlates(c)
    <3>1. n = Ingest(entry, x.body) /\ outstanding = c
      BY <1>2, <2>1 DEF Correlates
    <3> QED BY <1>1, <1>2, <2>1, <3>1, TakenOk
  <2>2. CASE ~Correlates(c)
    <3>1. n = entry
      BY <1>2, <2>2
    <3> QED BY <3>1, HostFacts, SameOk DEF SInv
  <2> QED BY <2>1, <2>2
<1>5. CASE todo = <<>>
  <2>1. outstanding' \in {outstanding, NoCall} /\ (n.epoch = entry.epoch \/ outstanding' = NoCall)
    BY <1>3, <1>4, <1>5
  <2> QED BY <1>1, <1>2, <1>3, <1>4, <1>5, <2>1, EndStep
<1>6. CASE todo # <<>>
  <2>1. todo \in Seq(Requests)
    BY <1>1, <1>2, AnsweredFacts
  <2>2. EntryTyped(n) /\ (First => n.applied >= entry.applied)
    BY <1>4 DEF Evolves, EntryOk
  <2>3. \A i \in DOMAIN todo : SinceOk(todo[i], n)
    BY <1>1, <1>2, <2>2, AnsweredFacts
  <2> QED BY <1>1, <1>2, <1>3, <1>4, <1>6, <2>1, <2>3, GoesOn
<1> QED BY <1>5, <1>6

LEMMA ReceiveBootstrapStep ==
    ASSUME IInv, SInv, NEW c \in Calls, ReceiveBootstrap(c)
    PROVE  SInv' /\ NotOlder(entry, entry')
<1>1. PICK n, x : n = entry' /\ x = call[c]
  OBVIOUS
<1>2. UNCHANGED scopeVars /\ UNCHANGED history /\ x.at = "answered" /\ x.bootstrap
  BY <1>1 DEF ReceiveBootstrap, serverVars
<1>3. CASE latestBootstrap # c
  <2>1. call' = [call EXCEPT ![c] = Idle] /\ n = entry /\ outstanding' = outstanding
    BY <1>1, <1>3 DEF ReceiveBootstrap
  <2>2. Evolves(entry, n) /\ n.epoch = entry.epoch
    BY <2>1, HostFacts, SameOk DEF SInv
  <2> QED BY <1>1, <1>2, <2>1, <2>2, EndStep
<1>4. CASE latestBootstrap = c
  <2>1. /\ n = Ingest(entry, x.body)
        /\ n.pending = <<>> => call' = [call EXCEPT ![c] = Idle] /\ outstanding' = NoCall
        /\ n.pending # <<>> => DrainStep(c, n.pending, n)
    BY <1>1, <1>4 DEF ReceiveBootstrap
  <2>2. x.body.kind # "snapshotRequired"
    <3>1. BodyTrue(x.asked, x.body) /\ x.asked.kind = "snapshot"
      BY <1>1, <1>2, AnsweredFacts
    <3> QED BY <3>1 DEF BodyTrue
  <2>3. Evolves(entry, n)
    BY <1>1, <1>2, <2>1, <2>2, TakenOk
  <2>4. CASE n.pending = <<>>
    <3>1. /\ call' = [call EXCEPT ![c] = Idle] /\ outstanding' \in {outstanding, NoCall}
          /\ n.epoch = entry.epoch \/ outstanding' = NoCall
      BY <2>1, <2>4
    <3> QED BY <1>1, <1>2, <2>3, <3>1, EndStep
  <2>5. CASE n.pending # <<>>
    <3>1. PICK todo : todo = n.pending
      OBVIOUS
    <3>2. /\ todo \in Seq(Requests) /\ todo # <<>> /\ DrainStep(c, todo, n)
          /\ \A i \in DOMAIN todo : SinceOk(todo[i], n)
      BY <2>1, <2>3, <2>5, <3>1 DEF Evolves, EntryOk, EntryTyped
    <3> QED BY <1>1, <1>2, <2>3, <3>2, GoesOn
  <2> QED BY <2>4, <2>5
<1> QED BY <1>3, <1>4

\* Every step keeps the invariant and shows no row in an older version.
LEMMA SyncStep ==
    ASSUME IInv, IInv', SInv, [Next]_vars
    PROVE  SInv' /\ NotOlder(entry, entry')
<1>1. CASE World
  BY <1>1, WorldStep
<1>2. CASE OtherReader
  BY <1>2, ReaderStep
<1>3. ASSUME NEW c \in Calls,
             \/ Bootstrap(c) \/ Drain(c) \/ Serve(c) \/ Fail(c)
             \/ ReceiveDrained(c) \/ ReceiveBootstrap(c) \/ ConflictThrows(c)
      PROVE  SInv' /\ NotOlder(entry, entry')
  BY <1>3, BootstrapStep, DrainsStep, ServeStep, EndsStep, ReceiveDrainedStep, ReceiveBootstrapStep
<1>4. ASSUME NEW e \in DOMAIN history, NEW s \in DOMAIN history[e], Push(e, s)
      PROVE  SInv' /\ NotOlder(entry, entry')
  BY <1>4, PushStep
<1>5. CASE UNCHANGED vars
  <2>1. /\ UNCHANGED scopeVars /\ UNCHANGED history /\ entry' = entry /\ UNCHANGED <<outstanding, call>>
    BY <1>5 DEF vars, serverVars, hostVars
  <2>2. PICK n : n = entry'
    OBVIOUS
  <2>3. HistoryOk' /\ Extends(history, history') /\ (First' => First)
    BY <2>1, Resting DEF SInv
  <2>4. HistoryOk /\ HostOk /\ Evolves(entry, n) /\ n.epoch = entry.epoch
    BY <2>1, <2>2, HostFacts, SameOk DEF SInv
  <2>5. HostOk'
    BY <2>1, <2>2, <2>3, <2>4, HostRest
  <2> QED BY <2>2, <2>3, <2>4, <2>5 DEF SInv, Evolves
<1> QED BY <1>1, <1>2, <1>3, <1>4, <1>5 DEF Next

-----------------------------------------------------------------------------
(* The theorems. *)

LEMMA SyncInit ==
    ASSUME Init
    PROVE  SInv
<1>1. /\ authority = EmptyWindow /\ rows[Scope] = EmptyWindow /\ log[Scope] = <<>> /\ epoch[Scope] = 1
      /\ digest[Scope] = NoDigest
  BY ScopeAssumption DEF Init, ServerInit
<1>2. /\ EmptyWindow \in Windows /\ \A r \in Rows : EmptyWindow[r] = Unknown
  BY UnknownCell DEF EmptyWindow, Windows
<1>3. PICK h : h = history
  OBVIOUS
<1>4. h = <<<<>>>> /\ Len(h) = 1 /\ DOMAIN h = {1} /\ h[1] = <<>> /\ DOMAIN h[1] = {}
  BY <1>3 DEF Init
<1>5. h \in Histories
  <2>1. PICK T : T = Seq([change : Changes, live : Windows])
    OBVIOUS
  <2>2. <<>> \in T
    BY <2>1
  <2>3. h \in Seq(T)
    BY <1>4, <2>2
  <2> QED BY <2>1, <2>3 DEF Histories
<1>6. Made(h, 1) = <<>>
  <2>1. Made(h, 1) = [i \in {} |-> h[1][i].change]
    BY <1>4 DEF Made
  <2> QED BY <2>1
<1>7. Numbered(<<>>) /\ \A r \in Rows : LastCell(<<>>, 0, 0, r, Unknown)
  BY DEF Numbered, LastCell
<1>8. RowsFollow(h)
  <2>1. DOMAIN log[Scope] = {}
    BY <1>1
  <2>2. ASSUME NEW r \in Rows PROVE rows[Scope][r].version = 0 /\ authority[r].version = 0
    BY <1>1, <1>2, UnknownCell
  <2>3. ASSUME NEW r \in Rows PROVE rows[Scope][r].version <= authority[r].version
    <3>1. PICK v \in Nat : v = rows[Scope][r].version /\ v = authority[r].version
      BY <2>2
    <3> QED BY <3>1
  <2> QED BY <2>1, <2>3 DEF RowsFollow
<1>9. Held(h, EmptyWindow, 1, 0)
  BY <1>2, <1>4, UnknownCell DEF Held
<1>10. Exact(h, EmptyWindow, 1, 0)
  BY <1>2, <1>6, <1>7 DEF Exact
<1>11. HistoryOk
  <2>1. Len(log[Scope]) = 0
    BY <1>1
  <2> QED BY <1>1, <1>3, <1>4, <1>5, <1>6, <1>7, <1>8, <1>9, <1>10, <2>1 DEF HistoryOk
<1>12. /\ entry.applied = Core!NoSeq /\ entry.epoch = Core!NoEpoch /\ entry.repair = FALSE
       /\ entry.pending = <<>> /\ entry.state = EmptyWindow
  BY DEF Init, Core!NewEntry, Core!Entry
<1>13. EntryTyped(entry) /\ EntryTrue(entry)
  <2>1. PICK e : e = entry
    OBVIOUS
  <2>2. /\ e.applied = -1 /\ e.epoch = 0 /\ e.repair = FALSE /\ e.pending = <<>> /\ e.state = EmptyWindow
        /\ e.applied = Core!NoSeq /\ e.epoch = Core!NoEpoch
    BY <1>12, <2>1, CoreNone
  <2>3. e.pending \in Seq(Requests) /\ e.state \in [Rows -> Cells]
    BY <1>2, <2>2 DEF Windows
  <2>4. EntryTyped(e)
    <3>1. e.applied \in Nat \cup {Core!NoSeq} /\ e.epoch \in Nat
      BY <2>2
    <3>2. e.repair \in BOOLEAN /\ (e.repair <=> e.pending # <<>>)
      BY <2>2
    <3>3. e.epoch = Core!NoEpoch <=> e.applied = Core!NoSeq
      BY <2>2
    <3> QED BY <2>3, <3>1, <3>2, <3>3 DEF EntryTyped
  <2> QED BY <1>12, <2>1, <2>4 DEF EntryTrue
<1>14. \A i \in DOMAIN entry.pending : SinceOk(entry.pending[i], entry)
  BY <1>12
<1>15. DOMAIN call = Calls /\ \A c \in Calls : call[c] = Idle
  BY DEF Init
<1>16. HostOk
  BY <1>13, <1>14, <1>15, IdleOk DEF HostOk
<1> QED BY <1>11, <1>16 DEF SInv

\* The history tells the log of the scope, and the entry, the requests and the
\* answers under way agree with it.
THEOREM SyncInvariant == Spec => [](IInv /\ SInv)
<1>1. Spec => []IInv
  BY ServerRunsAlone, ServerInvariant, PTL
<1>2. Init => SInv
  BY SyncInit
<1>3. IInv /\ IInv' /\ SInv /\ [Next]_vars => SInv'
  BY SyncStep
<1> QED BY <1>1, <1>2, <1>3, PTL DEF Spec

\* A scope that waits for a repair has asked for one, and only then.
THEOREM RepairRequested == Spec => []RepairIsRequested
<1>1. SInv => RepairIsRequested
  BY DEF SInv, HostOk, EntryTyped, RepairIsRequested
<1> QED BY <1>1, SyncInvariant, PTL

\* While the server keeps its first log, a window the core claims authority for
\* is the window the server had at that position.
THEOREM ExactFirst == Spec => []ExactUntilRollover
<1>1. ASSUME IInv, SInv PROVE ExactUntilRollover
  <2> SUFFICES ASSUME First, Authoritative PROVE AuthorityIsExact
    BY DEF ExactUntilRollover, First, AuthorityIsExact
  <2>1. PICK h, e, k, w : h = history /\ e = entry.epoch /\ k = entry.applied /\ w = entry.state
    OBVIOUS
  <2>2. /\ At(h, e, k) /\ Exact(h, w, e, k) /\ w \in Windows /\ k \in Nat
    BY <1>1, <2>1, HostFacts, AppliedFacts DEF SInv, EntryOk, EntryTrue, Authoritative
  <2>3. e = 1 /\ Numbered(Made(h, 1))
    BY <1>1, <2>1, <2>2, FirstEpoch DEF SInv
  <2>4. h \in Histories /\ 1 \in DOMAIN h /\ k \in DOMAIN h[1] /\ LiveExact(h, k)
    BY <1>1, <2>1, <2>2, <2>3 DEF SInv, HistoryOk, At
  <2>5. h[1][k].live \in Windows
    BY <2>4, HistoryFacts
  <2>6. ASSUME NEW r \in Rows PROVE WithoutTombstones(w)[r] = h[1][k].live[r]
    <3>1. PICK ch : ch = Made(h, 1)
      OBVIOUS
    <3>2. PICK cell : LastCell(ch, 0, k, r, cell) /\ h[1][k].live[r] = ShownOf(cell)
      BY <2>4, <3>1 DEF LiveExact
    <3>3. LastCell(ch, 0, k, r, w[r])
      BY <2>2, <2>3, <3>1 DEF Exact
    <3>4. ch \in Seq(Changes) /\ Numbered(ch) /\ k <= Len(ch) /\ 0 \in Nat
      <4>1. ch \in Seq(Changes) /\ Len(ch) = Len(h[1]) /\ Len(h[1]) \in Nat /\ k \in 1..Len(h[1])
        BY <2>4, <3>1, HistoryFacts
      <4> QED BY <2>3, <3>1, <4>1
    <3>5. PICK x : x = w[r]
      OBVIOUS
    <3>6. x = cell
      BY <2>2, <3>2, <3>3, <3>4, <3>5, LastUnique
    <3> QED BY <3>2, <3>5, <3>6 DEF WithoutTombstones, ShownOf
  <2>7. WithoutTombstones(w) = h[1][k].live
    BY <2>5, <2>6 DEF WithoutTombstones, Windows
  <2> QED BY <2>1, <2>3, <2>4, <2>7 DEF AuthorityIsExact
<1>2. IInv /\ SInv => ExactUntilRollover
  BY <1>1
<1> QED BY <1>2, SyncInvariant, PTL

\* While an epoch lasts no row falls back to an older version.
THEOREM NothingResurrected == Spec => NoResurrection
<1>1. IInv /\ IInv' /\ SInv /\ [Next]_vars =>
          [(entry'.epoch = entry.epoch /\ entry.epoch # Core!NoEpoch) =>
             \A r \in Live(entry'.state) : entry'.state[r].version >= entry.state[r].version]_vars
  BY SyncStep DEF NotOlder
<1> QED BY <1>1, SyncInvariant, PTL DEF Spec, NoResurrection
=============================================================================
