------------------------------ MODULE SyncCore ------------------------------
(***************************************************************************)
(* The deterministic sync state machine of packages/sync-core/src/core.ts, *)
(* for one scope of one registered domain.  Each ingest function is an     *)
(* operator from a scope entry and an input to the scope entry it leaves.  *)
(*                                                                         *)
(* A scope entry is a record                                               *)
(*   applied     appliedSeq, NoSeq before the first baseline               *)
(*   print       acceptedFingerprint, NoPrint when null                    *)
(*   epoch       NoEpoch before first contact (epochs start at 1)          *)
(*   repair      repairPending                                             *)
(*   state       the state of the domain                                   *)
(*   pending     the requests of this scope in the order of the keyed map  *)
(* What goes to the violation buffer changes no entry and is left out.     *)
(*                                                                         *)
(* Inputs: a frame [seq, epoch, event], a snapshot [watermark, epoch,      *)
(* state], a difference [epoch, toSeq, events, partial, snapshotRequired]  *)
(* whose events is a set of at most one [seq, event]: the only caller of   *)
(* ingestDifference sends one aggregate event or none, so its sort and its *)
(* loop have nothing more to do.                                           *)
(***************************************************************************)
EXTENDS Integers, Sequences

CONSTANTS
    Contiguous,             \* density: TRUE contiguous, FALSE sparse
    HasFingerprint,         \* the domain provides eventFingerprint
    Fingerprint(_),         \* eventFingerprint
    Fold(_, _),             \* fold(state, event)
    FromSnapshot(_),        \* fromSnapshot, of the state a snapshot carries
    AcceptSame(_, _),       \* acceptSameWatermarkSnapshot(state, snapshot)
    InitialState            \* initialState()

NoSeq   == -1
NoEpoch == 0
NoPrint == [none |-> TRUE]

Entry(applied, print, epoch, repair, state, pending) ==
    [applied |-> applied, print |-> print, epoch |-> epoch,
     repair |-> repair, state |-> state, pending |-> pending]

\* scopeEntry: the entry made at the first contact with a scope.
NewEntry == Entry(NoSeq, NoPrint, NoEpoch, FALSE, InitialState, <<>>)

-----------------------------------------------------------------------------
(* Requests: idempotent, one per kind, in insertion order. *)

SnapshotRequest(reason)         == [kind |-> "snapshot", reason |-> reason]
DifferenceRequest(since, epoch) == [kind |-> "difference", sinceSeq |-> since,
                                    epoch |-> epoch]

\* Mutant: requests are not idempotent.
PutRequestAppends(pending, request) == Append(pending, request)

\* Map.set: a request of a kind already pending keeps its place.
PutRequest(pending, request) ==
    IF \E i \in DOMAIN pending : pending[i].kind = request.kind
    THEN [i \in DOMAIN pending |->
             IF pending[i].kind = request.kind THEN request ELSE pending[i]]
    ELSE Append(pending, request)

\* An entry that differs in its requests, and in repairPending.
Asking(entry, repair, pending) ==
    Entry(entry.applied, entry.print, entry.epoch, repair, entry.state, pending)

Ask(entry, request) == Asking(entry, TRUE, PutRequest(entry.pending, request))

\* Mutant: only the difference request is taken back.
ClearDifferenceOnly(entry) ==
    Asking(entry, entry.repair,
           SelectSeq(entry.pending, LAMBDA q : q.kind # "difference"))

\* clearScopeRequests
Clear(entry) == Asking(entry, entry.repair, <<>>)

EpochMismatch(entry, epoch) ==
    entry.epoch # NoEpoch /\ epoch # NoEpoch /\ epoch # entry.epoch

PrintOf(event) == IF HasFingerprint THEN Fingerprint(event) ELSE NoPrint

\* Fold an event and take its position as the watermark.
Accept(entry, seq, event) ==
    Entry(seq, PrintOf(event), entry.epoch, entry.repair,
          Fold(entry.state, event), entry.pending)

-----------------------------------------------------------------------------
(* ingestFrame *)

\* A frame before any baseline: contiguous scopes ask for a snapshot, sparse
\* scopes adopt it.
FirstFrame(entry, frame) ==
    IF Contiguous
    THEN Ask(entry, SnapshotRequest("initial"))
    ELSE Entry(frame.seq, PrintOf(frame.event),
               IF entry.epoch = NoEpoch THEN frame.epoch ELSE entry.epoch,
               entry.repair, Fold(entry.state, frame.event), entry.pending)

\* Mutant: the last writer of a version wins.
SameVersionFrameWins(entry, frame) == Accept(entry, frame.seq, frame.event)

\* A frame at the watermark: dropped when provably the fact already accepted.
SameVersionFrame(entry, frame) ==
    IF ~HasFingerprint \/ entry.print = Fingerprint(frame.event)
    THEN entry
    ELSE Ask(entry, SnapshotRequest(IF Contiguous THEN "snapshot_required"
                                                  ELSE "sparse_repull"))

\* Mutant: no stop-gate, a frame past the next one is applied.
NewerFrameNoGate(entry, frame) == Accept(entry, frame.seq, frame.event)

\* A frame past the watermark: applied when next (or sparse), else a gap.
NewerFrame(entry, frame) ==
    IF ~Contiguous \/ frame.seq = entry.applied + 1
    THEN Accept(entry, frame.seq, frame.event)
    ELSE Ask(entry, DifferenceRequest(entry.applied, entry.epoch))

IngestFrame(entry, frame) ==
    IF EpochMismatch(entry, frame.epoch)
    THEN Ask(entry, SnapshotRequest("epoch_mismatch"))
    ELSE IF entry.applied = NoSeq        THEN FirstFrame(entry, frame)
    ELSE IF frame.seq < entry.applied    THEN entry
    ELSE IF frame.seq = entry.applied    THEN SameVersionFrame(entry, frame)
    ELSE NewerFrame(entry, frame)

-----------------------------------------------------------------------------
(* ingestSnapshot and ingestDifference *)

\* Mutant: snapshots are compared without looking at the watermark.
StaleSnapshotNever(entry, snapshot) == FALSE

\* A snapshot of the same epoch that is not ahead of what was applied.
StaleSnapshot(entry, snapshot) ==
    /\ entry.epoch = NoEpoch \/ snapshot.epoch = NoEpoch \/ snapshot.epoch = entry.epoch
    /\ entry.applied # NoSeq
    /\ \/ snapshot.watermark < entry.applied
       \/ /\ snapshot.watermark = entry.applied
          /\ ~AcceptSame(entry.state, snapshot)

IngestSnapshot(entry, snapshot) ==
    IF StaleSnapshot(entry, snapshot)
    THEN entry
    ELSE Clear(Entry(snapshot.watermark, NoPrint, snapshot.epoch, FALSE,
                     FromSnapshot(snapshot.state), entry.pending))

\* The events of a range not applied yet, folded.
FoldFresh(entry, response) ==
    LET fresh == {e \in response.events : entry.applied = NoSeq \/ e.seq > entry.applied}
        e     == CHOOSE x \in fresh : TRUE
    IN  IF fresh = {} THEN entry ELSE Accept(entry, e.seq, e.event)

\* Take the end of the range as the watermark when it is ahead.
AdvanceTo(entry, toSeq) ==
    IF entry.applied = NoSeq \/ toSeq > entry.applied
    THEN Entry(toSeq, NoPrint, entry.epoch, entry.repair, entry.state, entry.pending)
    ELSE entry

ApplyDifference(entry, response) == AdvanceTo(FoldFresh(entry, response), response.toSeq)

IngestDifference(entry, response) ==
    IF EpochMismatch(entry, response.epoch)
    THEN \* repairPending is left as it is
         Asking(entry, entry.repair,
                PutRequest(entry.pending, SnapshotRequest("epoch_mismatch")))
    ELSE IF response.snapshotRequired
    THEN Ask(Clear(entry), SnapshotRequest("snapshot_required"))
    ELSE LET done == Clear(ApplyDifference(entry, response))
         IN  IF response.partial
             THEN Asking(done, done.repair,
                         PutRequest(done.pending, DifferenceRequest(done.applied, done.epoch)))
             ELSE Asking(done, FALSE, done.pending)

=============================================================================
