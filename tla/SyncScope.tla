------------------------------ MODULE SyncScope -----------------------------
(***************************************************************************)
(* One scope of the sync core under every sequence of inputs, whatever the *)
(* producer and the host do: what createSyncCore promises by itself.       *)
(***************************************************************************)
EXTENDS SyncCore

CONSTANTS
    Frames, Snapshots, Differences      \* inputs that may arrive

Seqs   == Nat
Epochs == Nat

ASSUME InputsAssumption ==
    /\ \A f \in Frames : f.seq \in Seqs /\ f.epoch \in Epochs
    /\ \A s \in Snapshots : s.watermark \in Seqs /\ s.epoch \in Epochs
    /\ \A d \in Differences :
           /\ d.epoch \in Epochs /\ d.toSeq \in Seqs
           /\ \A e \in d.events : e.seq \in Seqs
           /\ \A e1, e2 \in d.events : e1 = e2

VARIABLE entry

Init == entry = NewEntry

Next ==
    \/ \E f \in Frames : entry' = IngestFrame(entry, f)
    \/ \E s \in Snapshots : entry' = IngestSnapshot(entry, s)
    \/ \E d \in Differences : entry' = IngestDifference(entry, d)

Spec == Init /\ [][Next]_entry

-----------------------------------------------------------------------------
(* Properties. *)

Reasons == {"initial", "epoch_mismatch", "snapshot_required", "sparse_repull"}

Requests == [kind : {"snapshot"}, reason : Reasons]
                \cup [kind : {"difference"}, sinceSeq : Nat, epoch : Nat]

IsEntry(e) ==
    /\ e.applied \in Nat \cup {NoSeq}
    /\ e.epoch \in Nat
    /\ e.repair \in BOOLEAN
    /\ e.pending \in Seq(Requests)

OnePerKind(pending) ==
    \A i, j \in DOMAIN pending : pending[i].kind = pending[j].kind => i = j

\* The entry is well formed: in particular no difference is ever asked for from
\* before the first baseline, and "requests are idempotent" (core.ts:50): at
\* most one of each kind is pending, however many inputs asked for it.
ScopeTypeOK == IsEntry(entry) /\ OnePerKind(entry.pending)

\* Within an epoch the watermark never moves back, whatever arrives: "never a
\* rollback" (core.ts:221-223).
NoRollback == [][entry'.epoch = entry.epoch => entry'.applied >= entry.applied]_entry

\* Within an epoch the state of a scope changes only when its watermark
\* advances: a reused version "must never mutate accepted state"
\* (core.ts:168-170).
StateNeedsNewVersion ==
    [][(entry'.epoch = entry.epoch /\ entry'.state # entry.state) =>
           entry'.applied > entry.applied]_entry

=============================================================================
