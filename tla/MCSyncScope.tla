----------------------------- MODULE MCSyncScope ----------------------------
EXTENDS SyncScope

CONSTANTS a, b, Empty

\* A register, as the read_state domain: the state is the last accepted fact.
MCFingerprint(event)      == [fact |-> event]
MCFold(state, event)      == event
MCFromSnapshot(state)     == state
MCAcceptSame(state, snap) == FALSE

MCSeqs   == 1..4
MCEpochs == 0..2

MCFrames    == [seq : MCSeqs, epoch : MCEpochs, event : {a, b}]
MCSnapshots == [watermark : MCSeqs, epoch : MCEpochs, state : {a, b}]
MCDifferences ==
    {[epoch |-> e, toSeq |-> s, events |-> ev, partial |-> p, snapshotRequired |-> r] :
        e \in MCEpochs, s \in MCSeqs, p \in BOOLEAN, r \in BOOLEAN,
        ev \in {{}} \cup {{x} : x \in [seq : MCSeqs, event : {a, b}]}}
=============================================================================
