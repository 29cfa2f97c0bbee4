---------------------------- MODULE ActivitySync ----------------------------
(***************************************************************************)
(* The Activity panel end to end: the server authority (ActivityServer),   *)
(* the network, and the web host that runs the sync core over it           *)
(* (packages/web/src/store/activityPanel: host.ts, consumer.ts,            *)
(* runtime.ts, ingress.ts).                                                *)
(*                                                                         *)
(* Calls.  A call is an asynchronous activity of the host: a bootstrap     *)
(* (observeActivityBootstrap) or a drain of the pending requests, which a  *)
(* bootstrap also ends with.  Between a request and its answer other calls *)
(* and pushes run.  A call has one request in flight at a time and ids are *)
(* only compared with the last one issued, so the call itself stands for   *)
(* the id of its request.                                                  *)
(*                                                                         *)
(* Pushes.  A push carries one logged change of the scope.  Its producer   *)
(* is not part of the repository: any change ever logged may arrive, any   *)
(* number of times, in any order, or never.                                *)
(***************************************************************************)
EXTENDS ActivityServer

CONSTANTS
    Scope,              \* the filter the host observes
    Calls,              \* concurrent calls of the host
    NoCall              \* no call

ASSUME ScopeAssumption == Scope \in Filters /\ NoCall \notin Calls

VARIABLES
    entry,              \* the scope entry of the sync core
    outstanding,        \* the call whose answer the consumer expects, NoCall if none
    latestBootstrap,    \* latestIssuedBootstrapId
    call,               \* call[c]: where call c stands
    history             \* history[e][s]: change s of epoch e, window after it

hostVars == <<entry, outstanding, latestBootstrap, call>>
vars     == <<serverVars, hostVars, history>>

Idle == [at |-> "idle"]

-----------------------------------------------------------------------------
(* The domain the core is given. *)

\* A push carries rows only; a difference also carries the window totals, and
\* the fingerprint covers them.
PushEvent(change) ==
    [totals |-> FALSE,
     cells  |-> [r \in Rows |-> IF change.row = r THEN change.cell ELSE Unknown]]

DifferenceEvent(changes) == [totals |-> TRUE, cells |-> LatestByRow(changes)]

FingerprintActivityEvent(event) == event

FoldActivityEvent(state, event) == ApplyRowsAndTombstones(state, event.cells)

StateFromSnapshot(window) == ApplyRowsAndTombstones(EmptyWindow, window)

NeverSame(state, snapshot) == FALSE

Core == INSTANCE SyncCore WITH
    Contiguous     <- TRUE,
    HasFingerprint <- TRUE,
    Fingerprint    <- FingerprintActivityEvent,
    Fold           <- FoldActivityEvent,
    FromSnapshot   <- StateFromSnapshot,
    AcceptSame     <- NeverSame,
    InitialState   <- EmptyWindow

Init ==
    /\ ServerInit
    /\ entry = Core!NewEntry
    /\ outstanding = NoCall
    /\ latestBootstrap = NoCall
    /\ call = [c \in Calls |-> Idle]
    /\ history = <<<<>>>>

-----------------------------------------------------------------------------
(* The server answers. *)

\* The answers of getActivitySnapshot and getActivityDifference, from the
\* state the reconciliation left.
SnapshotBody(window, logged, ep) ==
    [kind |-> "snapshot", watermark |-> Len(logged), epoch |-> ep, state |-> window]

DifferenceBody(logged, ep, requestedEpoch, since) ==
    CASE requestedEpoch # ep \/ since > Len(logged) ->
             [kind |-> "snapshotRequired", epoch |-> ep]
      [] requestedEpoch = ep /\ since = Len(logged) ->
             [kind |-> "notModified", watermark |-> since, epoch |-> ep]
      [] OTHER ->
             [kind |-> "difference", epoch |-> ep, toSeq |-> Len(logged),
              event |-> DifferenceEvent(SubSeq(logged, since + 1, Len(logged)))]

\* What the log of an epoch says, with the live window after every change.
Annotated(window, changes) ==
    [i \in DOMAIN changes |->
        [change |-> changes[i],
         live   |-> WithoutTombstones(Replay(window, SubSeq(changes, 1, i)))]]

\* The history of the scope grows as its log does.
Record(order) ==
    LET pending == Pending(Scope, order)
        logged  == Annotated(rows[Scope], pending)
    IN  history' = IF RollsOver(Scope, pending)
                   THEN Append(history, logged)
                   ELSE [history EXCEPT ![Len(history)] = @ \o logged]

\* A request reaches the server, which reconciles and answers it.
Serve(c) ==
    /\ call[c].at = "sent"
    /\ \E order \in Orders(Scope) : Reconcile(Scope, order) /\ Record(order)
    /\ LET asked == call[c].asked
           body  == IF asked.kind = "snapshot"
                    THEN SnapshotBody(rows'[Scope], log'[Scope], epoch'[Scope])
                    ELSE DifferenceBody(log'[Scope], epoch'[Scope],
                                        asked.epoch, asked.sinceSeq)
       IN  call' = [call EXCEPT ![c] = [@ EXCEPT !.at = "answered", !.body = body]]
    /\ UNCHANGED <<entry, outstanding, latestBootstrap>>

\* Another device of the principal reads the window.
OtherReader ==
    /\ \E order \in Orders(Scope) : Reconcile(Scope, order) /\ Record(order)
    /\ UNCHANGED hostVars

-----------------------------------------------------------------------------
(* The host sends. *)

Sent(bootstrap, asked, todo) ==
    [at |-> "sent", bootstrap |-> bootstrap, asked |-> asked, todo |-> todo,
     body |-> <<>>]

\* observeActivityBootstrap up to its request.
Bootstrap(c) ==
    /\ call[c].at = "idle"
    /\ latestBootstrap' = c
    /\ call' = [call EXCEPT ![c] = Sent(TRUE, [kind |-> "snapshot"], <<>>)]
    /\ UNCHANGED <<serverVars, entry, outstanding, history>>

\* fetchSnapshot and fetchDifference: a difference is asked for from the
\* position the request recorded, in the epoch held when it is sent.
Asking(request, held) ==
    IF request.kind = "snapshot" THEN request
    ELSE [request EXCEPT !.epoch = held.epoch]

\* drain: send the next of the requests captured when the drain began, or end.
DrainStep(c, todo, held) ==
    IF todo = <<>>
    THEN /\ call' = [call EXCEPT ![c] = Idle]
         /\ UNCHANGED outstanding
    ELSE /\ call' = [call EXCEPT ![c] = Sent(FALSE, Asking(Head(todo), held), Tail(todo))]
         /\ outstanding' = c

Drain(c) ==
    /\ call[c].at = "idle"
    /\ entry.pending # <<>>
    /\ DrainStep(c, entry.pending, entry)
    /\ UNCHANGED <<serverVars, entry, latestBootstrap, history>>

-----------------------------------------------------------------------------
(* The host receives. *)

\* The core's view of an answer.  acceptDifference has a branch for a 409, which
\* no answer reaches: see ConflictThrows.
Ingest(held, body) ==
    CASE body.kind = "snapshot" -> Core!IngestSnapshot(held, body)
      [] body.kind = "snapshotRequired" ->
             \* routed under the epoch held, which selects the branch that clears
             Core!IngestDifference(held,
                 [epoch |-> IF held.epoch = Core!NoEpoch THEN body.epoch ELSE held.epoch,
                  toSeq |-> 0, events |-> {}, partial |-> FALSE, snapshotRequired |-> TRUE])
      [] body.kind = "notModified" ->
             Core!IngestDifference(held,
                 [epoch |-> body.epoch, toSeq |-> body.watermark, events |-> {},
                  partial |-> FALSE, snapshotRequired |-> FALSE])
      [] OTHER ->
             Core!IngestDifference(held,
                 [epoch |-> body.epoch, toSeq |-> body.toSeq,
                  events |-> {[seq |-> body.toSeq, event |-> body.event]},
                  partial |-> FALSE, snapshotRequired |-> FALSE])

\* correlate: only the request issued last for the scope may be settled.
Correlates(c) == outstanding = c

\* The answer to a drained request; an uncorrelated one changes nothing, and
\* either way the drain goes on.
ReceiveDrained(c) ==
    /\ call[c].at = "answered"
    /\ ~call[c].bootstrap
    /\ call[c].body.kind # "snapshotRequired"
    /\ LET next == IF Correlates(c) THEN Ingest(entry, call[c].body) ELSE entry
       IN  /\ entry' = next
           /\ IF call[c].todo = <<>>
              THEN /\ call' = [call EXCEPT ![c] = Idle]
                   /\ outstanding' = IF Correlates(c) THEN NoCall ELSE outstanding
              ELSE DrainStep(c, call[c].todo, next)
    /\ UNCHANGED <<serverVars, latestBootstrap, history>>

\* The answer to the newest bootstrap is registered and taken at once, and the
\* call goes on as a drain; a superseded one is dropped.
ReceiveBootstrap(c) ==
    /\ call[c].at = "answered"
    /\ call[c].bootstrap
    /\ IF latestBootstrap # c
       THEN /\ call' = [call EXCEPT ![c] = Idle]
            /\ UNCHANGED <<entry, outstanding>>
       ELSE LET next == Ingest(entry, call[c].body)
            IN  /\ entry' = next
                /\ IF next.pending = <<>>
                   THEN call' = [call EXCEPT ![c] = Idle] /\ outstanding' = NoCall
                   ELSE DrainStep(c, next.pending, next)
    /\ UNCHANGED <<serverVars, latestBootstrap, history>>

\* runtime.ts: the HTTP client rejects a 409, so the drain ends with an
\* exception before acceptDifference sees the body.
ConflictThrows(c) ==
    /\ call[c].at = "answered"
    /\ call[c].body.kind = "snapshotRequired"
    /\ call' = [call EXCEPT ![c] = Idle]
    /\ UNCHANGED <<serverVars, entry, outstanding, latestBootstrap, history>>

\* A request fails or its answer is lost: the exception ends the call and is
\* swallowed.
Fail(c) ==
    /\ call[c].at # "idle"
    /\ call' = [call EXCEPT ![c] = Idle]
    /\ UNCHANGED <<serverVars, entry, outstanding, latestBootstrap, history>>

\* acceptPush
Push(e, s) ==
    /\ entry' = Core!IngestFrame(entry,
                    [seq |-> s, epoch |-> e, event |-> PushEvent(history[e][s].change)])
    /\ UNCHANGED <<serverVars, outstanding, latestBootstrap, call, history>>

-----------------------------------------------------------------------------
World == /\ (\E r \in Rows : Edit(r)) \/ EditTotals
         /\ UNCHANGED <<hostVars, history>>

Next ==
    \/ World
    \/ OtherReader
    \/ \E c \in Calls : \/ Bootstrap(c) \/ Drain(c) \/ Serve(c) \/ Fail(c)
                        \/ ReceiveDrained(c) \/ ReceiveBootstrap(c)
                        \/ ConflictThrows(c)
    \/ \E e \in DOMAIN history : \E s \in DOMAIN history[e] : Push(e, s)

Spec == Init /\ [][Next]_vars

-----------------------------------------------------------------------------
(* Properties. *)

\* The core may serve the window (decideActivityWindowAuthority).
Authoritative == entry.applied # Core!NoSeq /\ ~entry.repair

\* A window the core claims authority for is exactly the window the server had
\* at the position the core claims to be at: no lost, stale or resurrected row.
AuthorityIsExact ==
    Authoritative =>
        /\ entry.applied \in DOMAIN history[entry.epoch]
        /\ WithoutTombstones(entry.state) = history[entry.epoch][entry.applied].live

\* While the server has kept its first log, whatever was lost, repeated or
\* overtaken on the way, a window the core claims authority for is exact.
ExactUntilRollover == epoch[Scope] = 1 => AuthorityIsExact

\* A row is never shown in an older version than the window held of it before:
\* while the epoch lasts it does not fall back, nor come back from under a newer
\* tombstone (activity.ts:171-174).
NoResurrection ==
    [][(entry'.epoch = entry.epoch /\ entry.epoch # Core!NoEpoch) =>
         \A r \in Live(entry'.state) : entry'.state[r].version >= entry.state[r].version]_vars

\* A scope that waits for a repair has a request for it pending, and only then:
\* otherwise a window stays on the legacy path with nothing to bring it back.
RepairIsRequested == entry.repair <=> entry.pending # <<>>

=============================================================================
