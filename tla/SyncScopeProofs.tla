--------------------------- MODULE SyncScopeProofs --------------------------
(***************************************************************************)
(* What the sync core promises for every domain, every density and every   *)
(* sequence of inputs.                                                     *)
(***************************************************************************)
EXTENDS SyncScope, TLAPS

\* What holds of an entry between two inputs.
Good(e) == IsEntry(e) /\ OnePerKind(e.pending)

\* A step of the core from e to n that respects versions.
Respects(e, n) ==
    /\ Good(n)
    /\ n.epoch = e.epoch => n.applied >= e.applied
    /\ (n.epoch = e.epoch /\ n.state # e.state /\ \A s, t : ~AcceptSame(s, t)) =>
           n.applied > e.applied

-----------------------------------------------------------------------------
(* Requests. *)

\* The requests the core makes are requests.
LEMMA RequestTypes ==
    /\ \A reason \in Reasons : SnapshotRequest(reason) \in Requests
    /\ \A since, epoch \in Nat : DifferenceRequest(since, epoch) \in Requests
BY DEF SnapshotRequest, DifferenceRequest, Requests

\* Putting a request leaves at most one per kind.
LEMMA PutRequestFacts ==
    ASSUME NEW p \in Seq(Requests), OnePerKind(p), NEW q \in Requests
    PROVE  PutRequest(p, q) \in Seq(Requests) /\ OnePerKind(PutRequest(p, q))
<1>1. CASE \E i \in DOMAIN p : p[i].kind = q.kind
  <2> DEFINE n == [i \in DOMAIN p |-> IF p[i].kind = q.kind THEN q ELSE p[i]]
  <2>1. PutRequest(p, q) = n
    BY <1>1 DEF PutRequest
  <2>2. n \in Seq(Requests)
    OBVIOUS
  <2>3. \A i \in DOMAIN p : n[i].kind = p[i].kind
    OBVIOUS
  <2>4. OnePerKind(n)
    BY <2>3 DEF OnePerKind
  <2> QED BY <2>1, <2>2, <2>4
<1>2. CASE ~ \E i \in DOMAIN p : p[i].kind = q.kind
  <2>1. PutRequest(p, q) = Append(p, q)
    BY <1>2 DEF PutRequest
  <2>2. Append(p, q) \in Seq(Requests)
    OBVIOUS
  <2>3. OnePerKind(Append(p, q))
    <3> SUFFICES ASSUME NEW i \in DOMAIN Append(p, q), NEW j \in DOMAIN Append(p, q),
                        Append(p, q)[i].kind = Append(p, q)[j].kind
                 PROVE  i = j
      BY DEF OnePerKind
    <3>1. i \in DOMAIN p \/ i = Len(p) + 1
      OBVIOUS
    <3>2. j \in DOMAIN p \/ j = Len(p) + 1
      OBVIOUS
    <3> QED BY <3>1, <3>2, <1>2 DEF OnePerKind
  <2> QED BY <2>1, <2>2, <2>3
<1> QED BY <1>1, <1>2

\* Changing the requests of an entry changes no accepted fact.
LEMMA AskingFacts ==
    ASSUME NEW e, Good(e), NEW repair \in BOOLEAN,
           NEW p \in Seq(Requests), OnePerKind(p)
    PROVE  LET n == Asking(e, repair, p)
           IN  /\ Good(n) /\ n.applied = e.applied /\ n.pending = p
               /\ n.epoch = e.epoch /\ n.state = e.state /\ n.repair = repair
BY DEF Good, IsEntry, Asking, Entry

\* Asking for a repair changes no accepted fact.
LEMMA AskFacts ==
    ASSUME NEW e, Good(e), NEW q \in Requests
    PROVE  LET n == Ask(e, q)
           IN  Good(n) /\ n.applied = e.applied /\ n.epoch = e.epoch /\ n.state = e.state
<1>1. PutRequest(e.pending, q) \in Seq(Requests) /\ OnePerKind(PutRequest(e.pending, q))
  BY PutRequestFacts DEF Good, IsEntry
<1> QED BY <1>1, AskingFacts DEF Ask

\* Clearing the requests of a scope changes no accepted fact.
LEMMA ClearFacts ==
    ASSUME NEW e, Good(e)
    PROVE  LET n == Clear(e)
           IN  /\ Good(n) /\ n.applied = e.applied /\ n.pending = << >>
               /\ n.epoch = e.epoch /\ n.state = e.state /\ n.repair = e.repair
<1>1. << >> \in Seq(Requests) /\ OnePerKind(<< >>)
  BY DEF OnePerKind
<1>2. e.repair \in BOOLEAN
  BY DEF Good, IsEntry
<1> QED BY <1>1, <1>2, AskingFacts DEF Clear

\* Accepting an event moves an entry to the position of the event.
LEMMA AcceptFacts ==
    ASSUME NEW e, Good(e), NEW seq \in Nat, NEW event
    PROVE  LET n == Accept(e, seq, event)
           IN  Good(n) /\ n.applied = seq /\ n.epoch = e.epoch
BY DEF Good, IsEntry, Accept, Entry

\* An input that changes neither watermark, epoch nor state respects versions.
LEMMA SameFactsRespect ==
    ASSUME NEW e, Good(e), NEW n, Good(n),
           n.applied = e.applied, n.epoch = e.epoch, n.state = e.state
    PROVE  Respects(e, n)
BY DEF Respects, Good, IsEntry, NoSeq

-----------------------------------------------------------------------------
(* Inputs. *)

\* ingestFrame respects versions.
LEMMA FrameRespects ==
    ASSUME NEW e, Good(e), NEW f, f.seq \in Nat, f.epoch \in Nat
    PROVE  Respects(e, IngestFrame(e, f))
<1>1. Respects(e, e)
  BY SameFactsRespect
<1>2. ASSUME NEW q \in Requests PROVE Respects(e, Ask(e, q))
  BY AskFacts, SameFactsRespect
<1>3. ASSUME f.seq > e.applied PROVE Respects(e, Accept(e, f.seq, f.event))
  BY <1>3, AcceptFacts DEF Respects, Good, IsEntry, NoSeq
<1>4. ASSUME e.applied = NoSeq PROVE Respects(e, FirstFrame(e, f))
  <2>1. CASE Contiguous
    BY <2>1, <1>2, RequestTypes DEF FirstFrame, Reasons
  <2>2. CASE ~Contiguous
    <3> DEFINE n == FirstFrame(e, f)
    <3>1. n.applied = f.seq /\ n.epoch \in Nat /\ n.repair = e.repair /\ n.pending = e.pending
      BY <2>2 DEF FirstFrame, Entry, Good, IsEntry
    <3>2. f.seq > e.applied
      BY <1>4 DEF NoSeq
    <3> HIDE DEF n
    <3> QED BY <3>1, <3>2 DEF Respects, Good, IsEntry, NoSeq, n
  <2> QED BY <2>1, <2>2
<1>5. Respects(e, SameVersionFrame(e, f))
  BY <1>1, <1>2, RequestTypes DEF SameVersionFrame, Reasons
<1>6. ASSUME f.seq > e.applied, e.applied # NoSeq PROVE Respects(e, NewerFrame(e, f))
  <2>1. DifferenceRequest(e.applied, e.epoch) \in Requests
    BY <1>6, RequestTypes DEF Good, IsEntry
  <2> QED BY <2>1, <1>2, <1>3, <1>6 DEF NewerFrame
<1>7. CASE EpochMismatch(e, f.epoch)
  BY <1>7, <1>2, RequestTypes DEF IngestFrame, Reasons
<1>8. CASE ~EpochMismatch(e, f.epoch) /\ e.applied = NoSeq
  BY <1>8, <1>4 DEF IngestFrame
<1>9. CASE ~EpochMismatch(e, f.epoch) /\ e.applied # NoSeq
  <2>1. e.applied \in Nat
    BY <1>9 DEF Good, IsEntry
  <2>2. CASE f.seq < e.applied
    BY <2>1, <2>2, <1>9, <1>1 DEF IngestFrame
  <2>3. CASE f.seq = e.applied
    BY <2>1, <2>3, <1>9, <1>5 DEF IngestFrame
  <2>4. CASE f.seq > e.applied
    BY <2>1, <2>4, <1>9, <1>6 DEF IngestFrame
  <2> QED BY <2>1, <2>2, <2>3, <2>4
<1> QED BY <1>7, <1>8, <1>9

\* ingestSnapshot respects versions: a stale snapshot of the epoch is dropped.
LEMMA SnapshotRespects ==
    ASSUME NEW e, Good(e), NEW s, s.watermark \in Nat, s.epoch \in Nat
    PROVE  Respects(e, IngestSnapshot(e, s))
<1>1. CASE StaleSnapshot(e, s)
  BY <1>1, SameFactsRespect DEF IngestSnapshot
<1>2. CASE ~StaleSnapshot(e, s)
  <2> DEFINE m == Entry(s.watermark, NoPrint, s.epoch, FALSE,
                        FromSnapshot(s.state), e.pending)
             n == IngestSnapshot(e, s)
  <2>1. Good(m) /\ m.applied = s.watermark /\ m.epoch = s.epoch
    BY DEF Good, IsEntry, Entry
  <2>2. n = Clear(m)
    BY <1>2 DEF IngestSnapshot
  <2> HIDE DEF m, n
  <2>3. Good(n) /\ n.applied = s.watermark /\ n.epoch = s.epoch
    BY <2>1, <2>2, ClearFacts
  <2>4. ASSUME s.epoch = e.epoch
        PROVE  /\ s.watermark >= e.applied
               /\ (\A x, y : ~AcceptSame(x, y)) => s.watermark > e.applied
    BY <1>2, <2>4 DEF StaleSnapshot, Good, IsEntry, NoSeq
  <2> QED BY <2>3, <2>4 DEF Respects, n
<1> QED BY <1>1, <1>2

\* Folding what is fresh in a range moves the watermark forward or not at all.
LEMMA FoldFreshFacts ==
    ASSUME NEW e, Good(e), NEW d, \A x \in d.events : x.seq \in Nat
    PROVE  LET n == FoldFresh(e, d)
           IN  Good(n) /\ n.epoch = e.epoch /\ (n = e \/ n.applied > e.applied)
<1> DEFINE fresh == {x \in d.events : e.applied = NoSeq \/ x.seq > e.applied}
           y     == CHOOSE x \in fresh : TRUE
<1>1. CASE fresh = {}
  BY <1>1 DEF FoldFresh
<1>2. CASE fresh # {}
  <2>1. y \in fresh
    BY <1>2
  <2>2. y.seq \in Nat /\ y.seq > e.applied
    BY <2>1 DEF NoSeq, Good, IsEntry
  <2>3. FoldFresh(e, d) = Accept(e, y.seq, y.event)
    BY <1>2 DEF FoldFresh
  <2> HIDE DEF y
  <2> QED BY <2>2, <2>3, AcceptFacts
<1> QED BY <1>1, <1>2

\* Taking the end of a range as the watermark never moves it back, and leaves
\* a baseline.
LEMMA AdvanceToFacts ==
    ASSUME NEW e, Good(e), NEW toSeq \in Nat
    PROVE  LET n == AdvanceTo(e, toSeq)
           IN  /\ Good(n) /\ n.epoch = e.epoch /\ n.state = e.state
               /\ n.applied \in Nat /\ n.applied >= e.applied
BY DEF AdvanceTo, Entry, Good, IsEntry, NoSeq

\* ingestDifference respects versions.
LEMMA DifferenceRespects ==
    ASSUME NEW e, Good(e), NEW d \in Differences
    PROVE  Respects(e, IngestDifference(e, d))
<1>0. d.toSeq \in Nat /\ \A x \in d.events : x.seq \in Nat
  BY InputsAssumption DEF Seqs, Epochs
<1>1. CASE EpochMismatch(e, d.epoch)
  <2> DEFINE p == PutRequest(e.pending, SnapshotRequest("epoch_mismatch"))
  <2>1. p \in Seq(Requests) /\ OnePerKind(p) /\ e.repair \in BOOLEAN
    BY PutRequestFacts, RequestTypes DEF Good, IsEntry, Reasons
  <2>2. IngestDifference(e, d) = Asking(e, e.repair, p)
    BY <1>1 DEF IngestDifference
  <2> HIDE DEF p
  <2> QED BY <2>1, <2>2, AskingFacts, SameFactsRespect
<1>2. CASE ~EpochMismatch(e, d.epoch) /\ d.snapshotRequired
  <2> DEFINE c == Clear(e)
             n == Ask(c, SnapshotRequest("snapshot_required"))
  <2>1. IngestDifference(e, d) = n
    BY <1>2 DEF IngestDifference
  <2>2. Good(c) /\ c.applied = e.applied /\ c.epoch = e.epoch /\ c.state = e.state
    BY ClearFacts
  <2> HIDE DEF c
  <2>3. Good(n) /\ n.applied = e.applied /\ n.epoch = e.epoch /\ n.state = e.state
    BY <2>2, AskFacts, RequestTypes DEF Reasons
  <2> QED BY <2>1, <2>3, SameFactsRespect
<1>3. CASE ~EpochMismatch(e, d.epoch) /\ ~d.snapshotRequired
  <2> DEFINE g == FoldFresh(e, d)
             a == ApplyDifference(e, d)
             c == Clear(a)
             p == PutRequest(c.pending, DifferenceRequest(c.applied, c.epoch))
             n == IngestDifference(e, d)
  <2>1. Good(g) /\ g.epoch = e.epoch /\ (g = e \/ g.applied > e.applied)
    BY <1>0, FoldFreshFacts
  <2>2. a = AdvanceTo(g, d.toSeq)
    BY DEF ApplyDifference
  <2>3. n = IF d.partial THEN Asking(c, c.repair, p) ELSE Asking(c, FALSE, c.pending)
    BY <1>3 DEF IngestDifference
  <2> HIDE DEF g, a, n
  <2>4. /\ Good(a) /\ a.epoch = g.epoch /\ a.state = g.state
        /\ a.applied \in Nat /\ a.applied >= g.applied
    BY <2>1, <2>2, <1>0, AdvanceToFacts
  <2>5. /\ Good(c) /\ c.applied = a.applied /\ c.epoch = a.epoch /\ c.state = a.state
        /\ c.pending = << >>
    BY <2>4, ClearFacts
  <2> HIDE DEF c
  <2>6. p \in Seq(Requests) /\ OnePerKind(p)
    BY <2>4, <2>5, PutRequestFacts, RequestTypes DEF Good, IsEntry
  <2> HIDE DEF p
  <2>7. Good(n) /\ n.applied = c.applied /\ n.epoch = c.epoch /\ n.state = c.state
    <3>1. c.repair \in BOOLEAN /\ c.pending \in Seq(Requests) /\ OnePerKind(c.pending)
      BY <2>5 DEF Good, IsEntry
    <3>2. CASE d.partial
      <4>1. n = Asking(c, c.repair, p)
        BY <3>2, <2>3
      <4> QED BY <4>1, <3>1, <2>5, <2>6, AskingFacts
    <3>3. CASE ~d.partial
      <4>1. n = Asking(c, FALSE, c.pending)
        BY <3>3, <2>3
      <4> QED BY <4>1, <3>1, <2>5, AskingFacts
    <3> QED BY <3>2, <3>3
  <2>8. n.epoch = e.epoch /\ n.applied >= e.applied
        /\ (n.state # e.state => n.applied > e.applied)
    BY <2>1, <2>4, <2>5, <2>7 DEF Good, IsEntry, NoSeq
  <2> QED BY <2>7, <2>8 DEF Respects, n
<1> QED BY <1>1, <1>2, <1>3

\* Every step of the core respects versions.
LEMMA StepRespects ==
    ASSUME Good(entry), Next
    PROVE  Respects(entry, entry')
<1>1. CASE \E f \in Frames : entry' = IngestFrame(entry, f)
  BY <1>1, FrameRespects, InputsAssumption DEF Seqs, Epochs
<1>2. CASE \E s \in Snapshots : entry' = IngestSnapshot(entry, s)
  BY <1>2, SnapshotRespects, InputsAssumption DEF Seqs, Epochs
<1>3. CASE \E d \in Differences : entry' = IngestDifference(entry, d)
  BY <1>3, DifferenceRespects
<1> QED BY <1>1, <1>2, <1>3 DEF Next

-----------------------------------------------------------------------------
(* Theorems. *)

\* The entry stays well formed with at most one request per kind.
THEOREM GoodInvariant == Spec => []Good(entry)
<1>1. Init => Good(entry)
  BY DEF Init, NewEntry, Entry, Good, IsEntry, OnePerKind, NoSeq, NoEpoch
<1>2. Good(entry) /\ [Next]_entry => Good(entry)'
  BY StepRespects DEF Respects, Good, IsEntry
<1> QED BY <1>1, <1>2, PTL DEF Spec

\* The entry stays well formed whatever is ingested.
THEOREM ScopeTypeCorrect == Spec => []ScopeTypeOK
<1>1. Good(entry) => ScopeTypeOK
  BY DEF Good, ScopeTypeOK
<1> QED BY <1>1, GoodInvariant, PTL

\* For every domain, density and input: within an epoch the watermark never
\* moves back.
THEOREM NeverRollsBack == Spec => NoRollback
<1>1. Good(entry) /\ [Next]_entry =>
        [entry'.epoch = entry.epoch => entry'.applied >= entry.applied]_entry
  BY StepRespects DEF Respects
<1> QED BY <1>1, GoodInvariant, PTL DEF Spec, NoRollback

\* For every domain without a same-watermark rule and every input: within an
\* epoch the state changes only with a newer version.
THEOREM OnlyNewVersionsMutate ==
    ASSUME \A s, t : ~AcceptSame(s, t)
    PROVE  Spec => StateNeedsNewVersion
<1>1. Good(entry) /\ [Next]_entry =>
        [(entry'.epoch = entry.epoch /\ entry'.state # entry.state) =>
             entry'.applied > entry.applied]_entry
  BY StepRespects DEF Respects
<1> QED BY <1>1, GoodInvariant, PTL DEF Spec, StateNeedsNewVersion

=============================================================================
