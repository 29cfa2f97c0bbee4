---------------------------- MODULE OutcomeQueue ----------------------------
(***************************************************************************)
(* The queue of one agent in the daemon's runtime outcome outbox (RFC 071, *)
(* packages/daemon/src/runtimeOutcomeOutbox.ts): the pure capacity logic.  *)
(* Entries are evidence frames, oldest first, and markers that stand for   *)
(* frames folded away: a gap for one daemon instance, a cross entry for    *)
(* several.                                                                *)
(*                                                                         *)
(* A frame is <<daemon instance, client sequence number>>; of its kind     *)
(* only "turn completed or critical" is kept.  A marker carries the set of *)
(* frames it stands for, where the code carries counts per kind and a      *)
(* range; its random id is the entry that gave rise to it.                 *)
(***************************************************************************)
EXTENDS Integers, FiniteSetsExt, SequencesExt, Lists

CONSTANTS
    NormalCap,           \* OUTBOX_NORMAL_CAP
    GapInstancesMax,     \* OUTBOX_GAP_INSTANCES_MAX
    GapsPerInstanceMax,  \* OUTBOX_GAPS_PER_INSTANCE_MAX
    CrossMax,            \* OUTBOX_CROSS_MAX
    LaunchReserve        \* OUTBOX_LAUNCH_CRITICAL_RESERVE

ASSUME CapsAssumption ==
    {NormalCap, GapInstancesMax, GapsPerInstanceMax, CrossMax, LaunchReserve} \subseteq Nat \ {0}

\* freshOutboxState; human is humanTakeoverEpoch, 0 when absent.
EmptyQueue == [entries |-> <<>>, sending |-> FALSE, epoch |-> 0, human |-> 0]

Normal(i, s, turn, e) == [t |-> "normal", inst |-> i, seq |-> s, turn |-> turn, epoch |-> e]
Marker(t, id, insts, frames, e) ==
    [t |-> t, id |-> id, insts |-> insts, frames |-> frames, epoch |-> e, sealed |-> FALSE]

Frame(n) == <<n.inst, n.seq>>
Id(e) == IF e.t = "normal" THEN <<"normal", e.inst, e.seq>> ELSE e.id

Held(q) == ToSet(q.entries)
Normals(q) == {n \in Held(q) : n.t = "normal"}
Markers(q) == {m \in Held(q) : m.t # "normal"}
InFlight(q) == IF q.sending THEN {q.entries[1]} ELSE {}

-----------------------------------------------------------------------------
\* Slots for markers.

GapsOf(q, i) == {m \in Markers(q) : m.t = "gap" /\ i \in m.insts}
GapInstances(q) == UNION {m.insts : m \in {m \in Markers(q) : m.t = "gap"}}
Crosses(q) == {m \in Markers(q) : m.t = "cross"}

Open(q, ms) == {m \in ms : ~m.sealed /\ m.epoch = q.epoch}
CrossSlot(q) == Open(q, Crosses(q)) # {} \/ Cardinality(Crosses(q)) < CrossMax

Position(q, e) == CHOOSE k \in DOMAIN q.entries : q.entries[k] = e
First(q, es) == CHOOSE e \in es : \A f \in es : Position(q, e) <= Position(q, f)

\* Instances other than i whose gaps may all be merged into the cross entry.
Mergeable(q, i) == {j \in GapInstances(q) \ {i} : Open(q, GapsOf(q, j)) = GapsOf(q, j)}

\* gapSlotAvailable
GapSlot(q, i) ==
    \/ Open(q, GapsOf(q, i)) # {}
    \/ /\ Cardinality(GapsOf(q, i)) < GapsPerInstanceMax
       /\ \/ GapsOf(q, i) # {}
          \/ Cardinality(GapInstances(q)) < GapInstancesMax
          \/ CrossSlot(q) /\ Mergeable(q, i) # {}

Droppable(q) == {n \in Normals(q) \ InFlight(q) : n.turn}
Foldable(q) == {n \in Normals(q) \ InFlight(q) : ~n.turn /\ n.epoch = q.epoch}

\* canAdmitStart
CanAdmit(q, i) ==
    /\ NormalCap - Cardinality(Normals(q)) + Cardinality(Droppable(q))
         + Cardinality(Foldable(q)) >= LaunchReserve
    /\ GapSlot(q, i)
    /\ CrossSlot(q)

-----------------------------------------------------------------------------
\* Folding.

Without(q, es) == [q EXCEPT !.entries = Others(@, es)]
Before(q, e, m) == [q EXCEPT !.entries = InsertAt(@, Position(q, e), m)]
Grown(q, m, i, frames) ==
    [q EXCEPT !.entries[Position(q, m)] =
        [m EXCEPT !.frames = @ \cup frames, !.insts = @ \cup {i}]]

\* mergeInstanceIntoCross
MergeIntoCross(q, j) ==
    LET gaps == GapsOf(q, j)
        frames == UNION {m.frames : m \in gaps}
        first == First(q, gaps)
        cross == Open(q, Crosses(q))
    IN  IF cross # {}
        THEN Without(Grown(q, First(q, cross), j, frames), gaps)
        ELSE Without(Before(q, first, Marker("cross", <<"cross", first.id[2], first.id[3]>>, {j},
                                             frames, q.epoch)), gaps)

\* foldEntry: the queues (at most one) in which a marker stands for n.  A gap
\* for a new instance may have to make room first, in r.
FoldInto(r, n) ==
    LET i == n.inst
        gap == Open(r, GapsOf(r, i))
        cross == Open(r, Crosses(r))
        fresh(t) == Marker(t, <<t, i, n.seq>>, {i}, {Frame(n)}, r.epoch)
    IN  CASE gap # {} -> {Without(Grown(r, First(r, gap), i, {Frame(n)}), {n})}
          [] gap = {} /\ Cardinality(GapsOf(r, i)) < GapsPerInstanceMax
               /\ (GapsOf(r, i) # {} \/ Cardinality(GapInstances(r)) < GapInstancesMax) ->
                 {Without(Before(r, n, fresh("gap")), {n})}
          [] OTHER ->
                 CASE cross # {} -> {Without(Grown(r, First(r, cross), i, {Frame(n)}), {n})}
                   [] cross = {} /\ CrossSlot(r) -> {Without(Before(r, n, fresh("cross")), {n})}
                   [] OTHER -> {}

Fold(q, n) ==
    LET full == GapsOf(q, n.inst) = {} /\ Cardinality(GapInstances(q)) >= GapInstancesMax
        merge == Mergeable(q, n.inst)
        oldest == CHOOSE j \in merge : \A k \in merge :
                      Position(q, First(q, GapsOf(q, j))) <= Position(q, First(q, GapsOf(q, k)))
    IN  FoldInto(IF full /\ merge # {} /\ CrossSlot(q) THEN MergeIntoCross(q, oldest) ELSE q, n)

\* A dropped turn is counted in the open gap of its instance, if there is one.
DropTurn(q, n) ==
    LET gap == Open(q, GapsOf(q, n.inst))
    IN  Without(IF gap # {} /\ n.epoch = q.epoch
                THEN Grown(q, First(q, gap), n.inst, {Frame(n)}) ELSE q, {n})

\* appendToOutbox: the queues (none: no room) that may follow from adding n.
Appended(q, n) ==
    LET add(r) == [r EXCEPT !.entries = Append(@, n)]
        folds == {f \in Foldable(q) : Fold(q, f) # {}}
    IN  CASE Cardinality(Normals(q)) < NormalCap -> {add(q)}
          [] Cardinality(Normals(q)) >= NormalCap /\ Droppable(q) # {} ->
               {add(DropTurn(q, First(q, Droppable(q))))}
          [] Cardinality(Normals(q)) >= NormalCap /\ Droppable(q) = {} /\ n.turn -> {q}
          [] OTHER -> IF folds = {} THEN {} ELSE {add(r) : r \in Fold(q, First(q, folds))}

-----------------------------------------------------------------------------
\* Takeover, sending and acknowledgement.

\* adoptTakeoverEpoch for a larger epoch.
Adopted(q, e) ==
    [q EXCEPT !.epoch = e,
              !.entries = [k \in DOMAIN @ |->
                  IF @[k].t = "normal" THEN @[k] ELSE [@[k] EXCEPT !.sealed = TRUE]]]

\* Mutant: what was sent may still be folded into.
SentUnsealed(q) == [q EXCEPT !.sending = TRUE]

\* The oldest entry is in flight; a marker that is sent is sealed.
Sent(q) ==
    [q EXCEPT !.sending = TRUE,
              !.entries[1] = IF @.t = "normal" THEN @ ELSE [@ EXCEPT !.sealed = TRUE]]

\* Mutant: the entry in flight is deleted and still taken to be in flight.
AckedStillSending(q, id) == Without(q, {e \in Held(q) : Id(e) = id})

\* applyOutboxAck for the id of an entry.
Acked(q, id) ==
    LET e == CHOOSE e \in Held(q) : Id(e) = id
    IN  [Without(q, {e}) EXCEPT !.sending = @ /\ e \notin InFlight(q)]

\* blockingMarkers
Blocking(q) == {m \in Markers(q) : m.epoch >= q.human}
=============================================================================
