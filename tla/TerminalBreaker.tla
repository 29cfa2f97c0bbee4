--------------------------- MODULE TerminalBreaker ---------------------------
(***************************************************************************)
(* The terminal failure breaker of one agent (RFC 071): the record the     *)
(* server keeps about an agent's launches, and the transitions that gate,  *)
(* claim, roll back and settle its starts.  The operators on a record r    *)
(* are the pure transitions of terminalFailureBreaker.ts; the store runs   *)
(* each as one compare-and-set, so each is one step here.                  *)
(*                                                                         *)
(* Time is abstracted to two facts, "the backoff has passed" and "the      *)
(* lease has run out"; fingerprints to whether a failure repeats the last  *)
(* one; the catch-up obligation to its origin (the module                  *)
(* CatchupObligation has its content).  Outbox frames reach the server in  *)
(* order, so the sequence check of a launch never differs from the         *)
(* watermark of its instance and is left out.  The server is one with      *)
(* RUNTIME_OUTCOME_ACK_ENABLED on, the machine one that has the capability.*)
(***************************************************************************)
EXTENDS Integers, FiniteSets, SequencesExt, Lists

CONSTANTS
    MaxLaunch,       \* bound: launches the server mints
    MaxInstance,     \* bound: daemon instances
    MaxProcess,      \* bound: runtime processes
    ReadyInOrder,    \* the reconcile of a ready never outlives its connection
    MaxFaults,       \* bound: restarts, respawns, failed sends, lost acks, folded
                     \* frames, lost records, human starts, lifts and stops together
    MaxFrames,       \* bound: frames waiting in the daemon's outbox
    SameThreshold,   \* TERMINAL_FAILURE_SAME_FP_THRESHOLD
    TotalThreshold,  \* TERMINAL_FAILURE_TOTAL_THRESHOLD
    UnexitedMax      \* TERMINAL_FAILURE_UNEXITED_MAX

ASSUME BreakerAssumption ==
    /\ {MaxLaunch, MaxInstance, MaxProcess, MaxFrames} \subseteq Nat \ {0}
    /\ {SameThreshold, TotalThreshold, UnexitedMax} \subseteq Nat \ {0}
    /\ MaxFaults \in Nat /\ ReadyInOrder \in BOOLEAN

Launches == 1..MaxLaunch
Instances == 1..MaxInstance
Processes == 1..MaxProcess

-----------------------------------------------------------------------------
\* The record and its parts.

NoLaunch == [id |-> 0, gen |-> 0, probe |-> FALSE, lease |-> "none", terminal |-> "no"]
NoManual == [reason |-> "none", causes |-> {}]
NoDemand == [claimed |-> -1, fresh |-> FALSE]

\* freshTerminalFailureBreakerState.
FreshRecord ==
    [circuit |-> "closed", gen |-> 1, cur |-> NoLaunch, last |-> NoLaunch,
     manual |-> NoManual, unexited |-> <<>>, exits |-> {}, overflow |-> FALSE,
     acknowledged |-> {}, same |-> 0, total |-> 0, blocked |-> FALSE,
     owed |-> "none", marked |-> {}, judged |-> FALSE, marksLost |-> FALSE,
     epoch |-> 0, demand |-> NoDemand]

\* terminalBreakerStateFromUnreadable.
UnreadableRecord == [FreshRecord EXCEPT !.owed = "failure", !.marksLost = TRUE]

Entry(l, i, p, ls) == [spawn |-> l, inst |-> i, proc |-> p, launches |-> ls, protected |-> FALSE]
Key(e) == <<e.spawn, e.inst>>

Entries(r) == Range(r.unexited)
Dropping(r, es) == [r EXCEPT !.unexited = Others(@, es)]
PendingOf(r, ls, i) == {e \in Entries(r) : e.spawn \in ls /\ e.inst = i /\ e.proc = 0}
Identified(r, i, p) == {e \in Entries(r) : e.inst = i /\ e.proc = p}

Engaged(r) ==
    \/ r.total > 0
    \/ r.circuit # "closed"
    \/ r.owed = "failure"
    \/ r.cur.probe
    \/ r.manual.reason \notin {"none", "unexited_process"}

\* Mutant: a dispatch without a known process counts as confirmed.
ExemptsPending(r, e) ==
    /\ r.circuit = "closed"
    /\ r.cur # NoLaunch /\ r.cur.terminal = "no" /\ r.cur.gen = r.gen
    /\ r.cur.id \in e.launches

\* isConfirmedLiveCurrentProcess, and the entries that block a start.
ConfirmedLive(r, e) ==
    /\ r.circuit = "closed"
    /\ r.cur # NoLaunch /\ r.cur.terminal = "no" /\ r.cur.gen = r.gen
    /\ e.proc # 0 /\ r.cur.id \in e.launches

Blocking(r) == {e \in Entries(r) : ~ConfirmedLive(r, e)}

\* Mutant: any needs-manual block ends when nothing blocks.
SettlesEvery(r) == IF Blocking(r) = {} /\ ~r.overflow THEN [r EXCEPT !.manual = NoManual] ELSE r

\* settleTerminalNeedsManual and markProtectedIfEngaged.
SettleManual(r) ==
    IF /\ r.manual.reason \in {"unexited_process", "daemon_restarted_no_exit"}
       /\ Blocking(r) = {} /\ ~r.overflow
       /\ \/ r.manual.reason = "unexited_process"
          \/ \A e \in Entries(r) : Key(e) \notin r.manual.causes
    THEN [r EXCEPT !.manual = NoManual] ELSE r

MarkProtected(r) ==
    IF Engaged(r)
    THEN [r EXCEPT !.unexited = [k \in DOMAIN @ |-> [@[k] EXCEPT !.protected = TRUE]]]
    ELSE r

Finish(r) == MarkProtected(SettleManual(r))

\* normalizeTerminalBreakerLease: a probe whose lease ran out.
Lapse(r) ==
    IF r.circuit = "half_open" /\ r.cur.lease = "past"
    THEN MarkProtected([r EXCEPT !.circuit = "open", !.blocked = TRUE,
                                 !.last = r.cur, !.cur = NoLaunch])
    ELSE r

Normalize(r) == Finish(Lapse(r))

-----------------------------------------------------------------------------
\* Evidence frames.

\* bindLaunch: the frame's launch is this one, of this generation, not ended.
Binds(r, launch, l) == launch.id = l /\ launch.gen = r.gen /\ launch.terminal = "no"

RaiseOwed(r, origin) == [r EXCEPT !.owed = IF origin = "failure" \/ @ = "none" THEN origin ELSE @]

\* applyTerminalFailureFrame; same: the fingerprint repeats the last one.
TerminalFailure(r0, l, same) ==
    LET r == Lapse(r0)
        run == IF same THEN r.same + 1 ELSE 1
        counted == [r EXCEPT !.cur.terminal = "e1", !.same = run, !.total = @ + 1]
        opens == run >= SameThreshold \/ r.total + 1 >= TotalThreshold
    IN  CASE r.circuit = "open" ->
               IF Binds(r, r.last, l) THEN Finish([r EXCEPT !.last.terminal = "e1"]) ELSE r0
          [] r.circuit # "open" /\ ~Binds(r, r.cur, l) -> r0
          [] r.circuit = "half_open" /\ Binds(r, r.cur, l) ->
               Finish(RaiseOwed([counted EXCEPT !.circuit = "open", !.blocked = TRUE,
                                                !.cur.lease = "none"], "failure"))
          [] r.circuit = "closed" /\ Binds(r, r.cur, l) ->
               IF opens
               THEN Finish(RaiseOwed([counted EXCEPT !.circuit = "open", !.blocked = TRUE], "failure"))
               ELSE Finish(counted)

\* Mutant: a clean turn also settles the wakes refused after its claim.
SettlesLaterWakes(r, l) ==
    [r EXCEPT !.same = 0, !.total = 0, !.demand = IF @.claimed # l THEN @ ELSE NoDemand]

\* applyCleanTurn and resetCounts; a served wake demand is settled.
CleanTurn(r, l) ==
    [r EXCEPT !.same = 0, !.total = 0,
              !.demand = IF @.claimed # l THEN @
                         ELSE IF @.fresh THEN [claimed |-> 0, fresh |-> FALSE] ELSE NoDemand]

\* applyTurnCompletedFrame for a session-bound frame; echo: the batch it
\* carries settles the whole obligation.
TurnCompleted(r0, l, echo) ==
    LET r == Lapse(r0)
        late == r.circuit = "open" /\ r.cur = NoLaunch /\ Binds(r, r.last, l)
        live == r.circuit # "open" /\ Binds(r, r.cur, l)
        launch == [(IF late THEN r.last ELSE r.cur) EXCEPT !.lease = "none"]
        clean == [CleanTurn(r, l) EXCEPT
                    !.cur = launch,
                    !.last = IF late THEN NoLaunch ELSE @,
                    !.circuit = "closed", !.blocked = FALSE,
                    !.owed = IF echo THEN "none" ELSE @]
    IN  IF late \/ live THEN Finish(clean) ELSE r0

\* pushUnexited.
Push(r, e) ==
    LET all == Append(r.unexited, e)
    IN  IF Len(all) <= UnexitedMax THEN [r EXCEPT !.unexited = all]
        ELSE [r EXCEPT !.unexited = Tail(all), !.overflow = TRUE]

\* The entry that takes an identity, with the launches it now carries.
Identify(r, e, p, ls) ==
    LET identified == [e EXCEPT !.proc = p, !.launches = @ \cup ls]
    IN  [r EXCEPT !.unexited = [k \in DOMAIN @ |-> IF @[k] = e THEN identified ELSE @[k]]]

\* applyTerminalStartAck of a rebind.
StartRebound(r, l, i, p) ==
    LET pending == PendingOf(r, {l}, i)
        known == Identified(r, i, p)
    IN  Finish(CASE <<i, p>> \in r.exits -> Dropping(r, pending)
                 [] <<i, p>> \notin r.exits /\ known # {} ->
                      Dropping(Identify(r, CHOOSE e \in known : TRUE, p, {l}), pending)
                 [] <<i, p>> \notin r.exits /\ known = {} /\ pending # {} ->
                      Identify(r, CHOOSE e \in pending : TRUE, p, {l})
                 [] OTHER -> r)

\* applyTerminalProcessSpawned; ls: the launch and the ones it superseded.
ProcessSpawned(r, l, ls, i, p, respawn) ==
    LET pending == PendingOf(r, ls, i)
        known == Identified(r, i, p)
        own == PendingOf(r, {l}, i)
        first == CHOOSE e \in (IF own # {} THEN own ELSE pending) : TRUE
        taken == {a \in r.acknowledged : a.spawn \in ls /\ a.inst = i /\ a.proc = 0}
        named(s) == [s EXCEPT !.acknowledged = (@ \ taken) \cup {[a EXCEPT !.proc = p] : a \in taken}]
        revive(s) == IF /\ respawn /\ s.circuit = "closed" /\ s.cur.id = l
                        /\ s.cur.gen = s.gen /\ s.cur.terminal = "exit"
                     THEN [s EXCEPT !.cur.terminal = "no"] ELSE s
    IN  CASE <<i, p>> \in r.exits ->
               IF pending = {} THEN r ELSE Finish(Dropping(r, pending))
          [] <<i, p>> \notin r.exits /\ known # {} ->
               Finish(revive(named(Dropping(Identify(r, CHOOSE e \in known : TRUE, p, ls), pending))))
          [] <<i, p>> \notin r.exits /\ known = {} /\ pending # {} ->
               Finish(revive(named(Identify(Dropping(r, pending \ {first}), first, p, ls))))
          [] <<i, p>> \notin r.exits /\ known = {} /\ pending = {} /\ taken # {} ->
               LET a == CHOOSE a \in taken : TRUE
               IN  [r EXCEPT !.acknowledged = (@ \ {a}) \cup {[a EXCEPT !.proc = p]}]
          [] OTHER -> Finish(revive(Push(r, Entry(l, i, p, ls))))

\* applyTerminalProcessExited of a process spawned for launch l that last
\* carried launch m; matched by identity, else by its pending entry.
ProcessExited(r, l, m, i, p) ==
    LET match == IF Identified(r, i, p) # {} THEN Identified(r, i, p) ELSE PendingOf(r, {l}, i)
        acked == LET ackedAs(q) == {a \in r.acknowledged : a.inst = i /\ a.proc = q /\ (q # 0 \/ a.spawn = l)}
                 IN  IF ackedAs(p) # {} THEN ackedAs(p) ELSE ackedAs(0)
        carried == {l, m} \cup UNION {e.launches : e \in match}
        gone == [Dropping(r, match) EXCEPT !.exits = @ \cup {<<i, p>>},
                                           !.acknowledged = IF match = {} THEN @ \ acked ELSE @]
        current == r.cur.id \in carried /\ Binds(r, r.cur, r.cur.id)
    IN  Finish(CASE match # {} /\ current /\ r.circuit = "half_open" /\ r.cur.probe ->
                      [gone EXCEPT !.cur.terminal = "exit", !.cur.lease = "none",
                                   !.circuit = "open", !.blocked = TRUE]
                 [] match # {} /\ current /\ ~(r.circuit = "half_open" /\ r.cur.probe) ->
                      [gone EXCEPT !.cur.terminal = "exit"]
                 [] match # {} /\ ~current /\ r.circuit = "open" /\ r.last.id \in carried
                      /\ r.last.terminal = "no" -> [gone EXCEPT !.last.terminal = "exit"]
                 [] OTHER -> gone)

\* applyTerminalStartRejectedBeforeSpawn.
StartRejected(r0, l, i, reason) ==
    LET r == Lapse(r0)
        pending == PendingOf(r, {l}, i)
        bound == Binds(r, r.cur, l)
        counts == bound /\ reason = "spawn_error"
        releases == bound /\ ~counts /\ r.circuit = "half_open" /\ r.cur.probe
        unclaims == bound /\ reason \in {"spawn_error", "stale_dispatch"} /\ r.demand.claimed = l
        base == [Dropping(r, pending) EXCEPT
                    !.demand = IF unclaims THEN [claimed |-> 0, fresh |-> FALSE] ELSE @]
    IN  CASE counts ->
               LET ended == [base EXCEPT !.cur.terminal = "e1", !.cur.lease = "none", !.blocked = TRUE]
               IN  Finish(IF r.circuit = "open" THEN ended
                          ELSE RaiseOwed([ended EXCEPT !.circuit = "open"], "failure"))
          [] releases -> Finish([base EXCEPT !.last = r.cur, !.cur = NoLaunch, !.circuit = "open"])
          [] ~counts /\ ~releases /\ (pending # {} \/ unclaims) -> Finish(base)
          [] OTHER -> r

\* markEvidenceLost.
EvidenceLost(r) ==
    IF r.manual.reason \in {"none", "unexited_process", "daemon_restarted_no_exit"}
    THEN Finish([r EXCEPT !.manual = [reason |-> "outcome_evidence_lost", causes |-> {}]])
    ELSE r

\* applyTerminalOutcomeMarker: frames folded away by the daemon.
OutcomeMarker(r, epoch) == IF epoch < r.epoch THEN r ELSE EvidenceLost(r)

\* applyTerminalDaemonReady of instance i.
DaemonReady(r, i) ==
    LET m == MarkProtected(r)
        old == {e \in Entries(m) : e.inst # i}
        untracked == {e \in old : ~e.protected}
        kept == old \ untracked
        moved == [Dropping(m, untracked) EXCEPT !.acknowledged = @ \cup
                    {[spawn |-> e.spawn, inst |-> e.inst, proc |-> e.proc] : e \in untracked}]
    IN  IF old = {} THEN r
        ELSE Finish(IF kept # {} /\ r.manual.reason \in {"none", "unexited_process"}
                    THEN [moved EXCEPT !.manual = [reason |-> "daemon_restarted_no_exit",
                                                   causes |-> {Key(e) : e \in kept}]]
                    ELSE moved)

-----------------------------------------------------------------------------
\* Gate, claim, rollback, lifts.

\* automaticRefusal, on a machine that reports outcomes: the refusal, and
\* the needs-manual reason it teaches.
Refusal(r) ==
    LET says(x, y) == [refusal |-> x, manual |-> y]
    IN  CASE r.circuit = "half_open" -> says("probe_in_flight", "none")
          [] r.circuit # "half_open" /\ r.manual # NoManual -> says("needs_manual", r.manual.reason)
          [] r.circuit # "half_open" /\ r.manual = NoManual /\ r.overflow ->
               says("needs_manual", "unexited_overflow")
          [] r.circuit # "half_open" /\ r.manual = NoManual /\ ~r.overflow /\ Blocking(r) # {} ->
               says("needs_manual", "unexited_process")
          [] OTHER -> says(IF r.circuit = "open" /\ r.blocked THEN "paused" ELSE "none", "none")

MoreDemand(d) == IF d = NoDemand THEN [claimed |-> 0, fresh |-> FALSE]
                 ELSE [d EXCEPT !.fresh = @ \/ d.claimed # 0]

\* evaluateTerminalWakeGate; message: the wake carries a message to owe.
Gate(r0, message, wake) ==
    LET r == Normalize(r0)
        ref == Refusal(r)
        origin == IF /\ ref.refusal = "needs_manual" /\ ref.manual = "unexited_process"
                     /\ ~Engaged(r) THEN "identity" ELSE "failure"
        blocked == IF ref.manual # "none" /\ r.manual = NoManual
                   THEN [r EXCEPT !.manual = [reason |-> ref.manual,
                           causes |-> IF ref.manual = "unexited_process"
                                      THEN {Key(e) : e \in Blocking(r)} ELSE {}]]
                   ELSE r
        owing == IF message \/ (origin = "failure" /\ r.owed # "none")
                 THEN RaiseOwed(blocked, origin) ELSE blocked
    IN  IF ref.refusal = "none" THEN r
        ELSE MarkProtected([owing EXCEPT
               !.demand = IF wake THEN MoreDemand(@) ELSE @])

\* Mutant: the backoff outlives the lift.
LiftKeepsBackoff(r) ==
    [r EXCEPT !.same = 0, !.total = 0, !.gen = @ + 1, !.cur = NoLaunch, !.last = NoLaunch,
              !.circuit = "closed"]

\* liftCommon.
Lifted(r) ==
    [r EXCEPT !.same = 0, !.total = 0, !.gen = @ + 1, !.cur = NoLaunch, !.last = NoLaunch,
              !.blocked = FALSE, !.circuit = "closed"]

\* claimTerminalStart of launch l on instance i; an automatic claim is only
\* taken when nothing refuses it.
Claimed(r0, l, i, human, wake) ==
    LET r == Normalize(r0)
        probe == ~human /\ r.circuit = "open"
        base == IF human
                THEN Lifted([r EXCEPT !.unexited = <<>>, !.overflow = FALSE, !.manual = NoManual,
                        !.epoch = @ + 1,
                        !.acknowledged = @ \cup {[spawn |-> e.spawn, inst |-> e.inst, proc |-> e.proc] :
                                                     e \in Entries(r)}])
                ELSE IF probe THEN [r EXCEPT !.last = r.cur, !.circuit = "half_open"]
                ELSE r
        demand == IF wake /\ ~human THEN MoreDemand(base.demand) ELSE base.demand
    IN  MarkProtected(Push([base EXCEPT
          !.cur = [id |-> l, gen |-> base.gen, probe |-> probe,
                   lease |-> IF probe THEN "live" ELSE "none", terminal |-> "no"],
          !.demand = IF demand = NoDemand THEN NoDemand ELSE [claimed |-> l, fresh |-> FALSE]],
          Entry(l, i, 0, {l})))

\* The token of a claim, for its rollback.
TokenOf(r0, l, human) ==
    LET r == Normalize(r0)
        probe == ~human /\ r.circuit = "open"
    IN  [launch |-> l, gen |-> IF human THEN r.gen + 1 ELSE r.gen, probe |-> probe,
         previous |-> IF human \/ probe THEN NoLaunch ELSE r.cur]

\* rollbackTerminalClaim, if the claim still owns the record.
RolledBack(r, token, left) ==
    LET base == IF token.probe
                THEN [r EXCEPT !.blocked = TRUE, !.gen = @ + 1, !.cur = NoLaunch, !.circuit = "open"]
                ELSE [r EXCEPT !.cur = token.previous]
        never == IF left THEN {} ELSE {e \in Entries(r) : e.spawn = token.launch /\ e.proc = 0}
    IN  IF r.cur.id = token.launch /\ r.cur.gen = token.gen /\ r.gen = token.gen
        THEN Finish([Dropping(base, never) EXCEPT
               !.demand = IF @.claimed = token.launch THEN [claimed |-> 0, fresh |-> FALSE] ELSE @])
        ELSE r

\* Mutant: a stop clears the probe and leaves the circuit half open.
StopLeavesHalfOpen(r0) ==
    LET r == [Lapse(r0) EXCEPT !.demand = NoDemand]
    IN  IF r.circuit = "half_open" THEN Finish([r EXCEPT !.cur = NoLaunch]) ELSE r

\* applyTerminalManualStop.
ManuallyStopped(r0) ==
    LET r == [Lapse(r0) EXCEPT !.demand = NoDemand]
    IN  IF r.circuit = "half_open" THEN Finish([r EXCEPT !.cur = NoLaunch, !.circuit = "open"])
        ELSE r

-----------------------------------------------------------------------------
(***************************************************************************)
(* The record among the replica that claims and dispatches starts, the     *)
(* daemon that runs them, and the queue of outcome frames between the two. *)
(***************************************************************************)

VARIABLES
    b,         \* the stored record
    inst,      \* the daemon instance that runs
    conn,      \* the last instance that connected
    readies,   \* instances whose ready reconcile has not reached this agent
    starts,    \* what became of each launch's agent:start
    procs,     \* the runtime processes
    outbox,    \* outcome frames not yet acknowledged, oldest first
    gaps,      \* takeover epochs of the markers for folded frames
    faults,    \* faults and interventions so far
    released,  \* ghost: launches the rules let go (takeover, restart, lost record)
    wake,      \* ghost: the first launch that may serve the newest wake, 0 if none
    heard      \* ghost: times the oldest frame has been applied

vars == <<b, inst, conn, readies, starts, procs, outbox, gaps, faults, released, wake, heard>>
daemon == <<inst, conn, readies>>
ghosts == <<released, wake, heard>>

NoToken == [launch |-> 0, gen |-> 0, probe |-> FALSE, previous |-> NoLaunch]
NoStart == [phase |-> "none", human |-> FALSE, on |-> 0, epoch |-> 0, undo |-> "no", token |-> NoToken]
NoProcess == [state |-> "none", inst |-> 0, spawn |-> 0, last |-> 0, told |-> FALSE]

Known == {l \in Launches : starts[l].phase # "none"}
Out == {l \in Launches : starts[l].phase = "out"}
Live(i) == {p \in Processes : procs[p].state = "alive" /\ procs[p].inst = i}
Free == {p \in Processes : procs[p].state = "none"}
Critical(f) == f.kind # "turn_completed"
Room == Len(outbox) < MaxFrames
Fault == faults < MaxFaults /\ faults' = faults + 1

Init ==
    /\ b = FreshRecord
    /\ inst = 1 /\ conn = 1 /\ readies = (IF ReadyInOrder THEN {} ELSE {1})
    /\ starts = [l \in Launches |-> NoStart]
    /\ procs = [p \in Processes |-> NoProcess]
    /\ outbox = <<>> /\ gaps = {} /\ faults = 0
    /\ released = {} /\ wake = 0 /\ heard = 0

\* The gate refuses an automatic start and records what it learned.
WakeRefused(message, demand) ==
    /\ Refusal(Normalize(b)).refusal # "none"
    /\ b' = Gate(b, message, demand)
    /\ wake' = IF demand THEN Cardinality(Known) + 1 ELSE wake
    /\ demand => Cardinality(Known) < MaxLaunch
    /\ UNCHANGED <<daemon, starts, procs, outbox, gaps, faults, released, heard>>

\* The combined claim of the next launch.  The daemon instance was read when
\* the start began to be prepared, so it may be an older one.
Claim(i, human, demand) ==
    LET l == Cardinality(Known) + 1
        c == Claimed(b, l, i, human, demand)
    IN  /\ l \in Launches /\ i \in 1..conn
        /\ IF human THEN Fault ELSE UNCHANGED faults
        /\ human => ~demand
        /\ human \/ Refusal(Normalize(b)).refusal = "none"
        /\ b' = c
        /\ starts' = [starts EXCEPT ![l] = [phase |-> "claimed", human |-> human, on |-> 0,
                           epoch |-> c.epoch, undo |-> "no", token |-> TokenOf(b, l, human)]]
        /\ released' = IF human THEN released \cup Known ELSE released
        /\ wake' = IF demand THEN l ELSE wake
        /\ UNCHANGED <<daemon, procs, outbox, gaps, heard>>

\* The catch-up build, which may settle the obligation by the read cursor,
\* and the send: it left ("sent"), it may have left ("doubt": the caller
\* rolls back all the same), or it provably did not ("failed").
Dispatch(l, settles, result) ==
    /\ starts[l].phase = "claimed"
    /\ IF result = "sent" THEN UNCHANGED faults ELSE Fault
    /\ b' = IF settles THEN [b EXCEPT !.owed = "none"] ELSE b
    /\ starts' = [starts EXCEPT
          ![l].phase = IF result = "failed" THEN "over" ELSE "out",
          ![l].on = IF result = "failed" THEN 0 ELSE conn,
          ![l].token = IF result = "sent" THEN NoToken ELSE @,
          ![l].undo = CASE result = "sent" -> "no" [] result = "doubt" -> "left" [] OTHER -> "never"]
    /\ UNCHANGED <<daemon, procs, outbox, gaps, ghosts>>

Rollback(l) ==
    /\ starts[l].undo # "no"
    /\ b' = RolledBack(b, starts[l].token, starts[l].undo = "left")
    /\ starts' = [starts EXCEPT ![l].undo = "no", ![l].token = NoToken]
    /\ UNCHANGED <<daemon, procs, outbox, gaps, faults, ghosts>>

\* The daemon accepts a start: an automatic one only on the connection it
\* was dispatched on; a human start carries no connection epoch.
Accepts(l) == l \in Out /\ (starts[l].human \/ starts[l].on = inst)

Queue(f) == outbox' = Append(outbox, f)
Ended(ls) == [l \in Launches |-> IF l \in ls THEN [starts[l] EXCEPT !.phase = "over", !.on = 0] ELSE starts[l]]

\* Spawn a process for a start and the ones it supersedes.
Spawn(l, superseded, p) ==
    /\ Room /\ Live(inst) = {}
    /\ Accepts(l) /\ \A m \in superseded : Accepts(m) /\ m # l
    /\ p \in Free /\ \A q \in Free : p <= q
    /\ procs' = [procs EXCEPT ![p] = [state |-> "alive", inst |-> inst, spawn |-> l, last |-> l, told |-> TRUE]]
    /\ Queue([kind |-> "process_spawned", launch |-> l, launches |-> superseded \cup {l},
              proc |-> p, inst |-> inst, respawn |-> FALSE])
    /\ starts' = Ended(superseded \cup {l})
    /\ UNCHANGED <<b, daemon, gaps, faults, ghosts>>

\* A start that meets a running process is rebound onto it.
Rebind(l, p) ==
    /\ Room /\ Accepts(l) /\ p \in Live(inst)
    /\ procs' = [procs EXCEPT ![p].last = l]
    /\ Queue([kind |-> "start_rebound", launch |-> l, proc |-> p, inst |-> inst])
    /\ starts' = Ended({l})
    /\ UNCHANGED <<b, daemon, gaps, faults, ghosts>>

\* A start refused before any spawn: on another connection as stale_dispatch.
RefuseStart(l, reason) ==
    /\ Room /\ l \in Out
    /\ Accepts(l) <=> reason # "stale_dispatch"
    /\ Queue([kind |-> "start_not_spawned", launch |-> l, reason |-> reason, inst |-> inst])
    /\ starts' = Ended({l})
    /\ UNCHANGED <<b, daemon, procs, gaps, faults, ghosts>>

\* The daemon starts the runtime again by itself, under its last launch.
Respawn(l, p) ==
    /\ Fault
    /\ Room /\ Live(inst) = {} /\ p \in Free /\ \A q \in Free : p <= q
    /\ \E q \in Processes : procs[q].state = "dead" /\ procs[q].inst = inst /\ procs[q].last = l
    /\ procs' = [procs EXCEPT ![p] = [state |-> "alive", inst |-> inst, spawn |-> l, last |-> l, told |-> FALSE]]
    /\ Queue([kind |-> "process_spawned", launch |-> l, launches |-> {l}, proc |-> p, inst |-> inst, respawn |-> TRUE])
    /\ UNCHANGED <<b, daemon, starts, gaps, ghosts>>

\* A turn of a running process ends: terminal_failure or turn_completed.
EndTurn(p, kind) ==
    /\ Room /\ p \in Live(inst)
    /\ Queue([kind |-> kind, launch |-> procs[p].last, inst |-> inst])
    /\ UNCHANGED <<b, daemon, starts, procs, gaps, faults, ghosts>>

\* A process ends; nobody reports the end of one an earlier instance left.
Exit(p) ==
    /\ procs[p].state = "alive"
    /\ procs' = [procs EXCEPT ![p].state = "dead", ![p].spawn = 0, ![p].told = TRUE]
    /\ IF procs[p].inst = inst
       THEN Room /\ Queue([kind |-> "process_exited", launch |-> procs[p].last,
                          spawn |-> procs[p].spawn, proc |-> p, inst |-> inst])
       ELSE UNCHANGED outbox
    /\ UNCHANGED <<b, daemon, starts, gaps, faults, ghosts>>

\* The daemon restarts; its queue is on disk, its processes may run on.
Restart ==
    /\ Fault
    /\ inst < MaxInstance
    /\ inst' = inst + 1
    /\ UNCHANGED <<b, conn, readies, starts, procs, outbox, gaps, ghosts>>

Connect ==
    /\ conn # inst
    /\ conn' = inst /\ readies' = (IF ReadyInOrder THEN {} ELSE readies) \cup {inst}
    /\ UNCHANGED <<b, inst, starts, procs, outbox, gaps, faults, ghosts>>

\* observeTerminalDaemonReady: the reconcile loop of a ready reaches this
\* agent, with the instance it captured when the ready arrived.
ObserveReady(i) ==
    /\ i \in readies
    /\ readies' = readies \ {i}
    /\ b' = DaemonReady(b, i)
    /\ released' = released \cup
         UNION {e.launches : e \in {x \in Entries(MarkProtected(b)) : x.inst < i /\ ~x.protected}}
    /\ UNCHANGED <<inst, conn, starts, procs, outbox, gaps, faults, wake, heard>>

-----------------------------------------------------------------------------
\* applyTerminalOutboxFrame: one transition and the watermark.
Transition(r, f, same, echo) ==
    CASE f.kind = "terminal_failure"  -> TerminalFailure(r, f.launch, same)
      [] f.kind = "turn_completed"    -> IF same THEN TurnCompleted(r, f.launch, echo) ELSE r
      [] f.kind = "process_spawned"   -> ProcessSpawned(r, f.launch, f.launches, f.inst, f.proc, f.respawn)
      [] f.kind = "process_exited"    -> ProcessExited(r, f.spawn, f.launch, f.inst, f.proc)
      [] f.kind = "start_rebound"     -> StartRebound(r, f.launch, f.inst, f.proc)
      [] f.kind = "start_not_spawned" -> StartRejected(r, f.launch, f.inst, f.reason)

\* Mutant: a record that lost its watermarks applies what it is sent.
TrustsLostMarks(r, f) == ~r.judged

\* Is the frame above its instance's watermark, and not the first of an
\* instance whose watermark was lost?
Applies(r, f) == ~r.judged /\ (r.marksLost => f.inst \in r.marked)

Judged(r, f, same, echo) ==
    [(IF Applies(r, f) THEN Transition(r, f, same, echo) ELSE EvidenceLost(r))
        EXCEPT !.marked = @ \cup {f.inst}, !.judged = TRUE]

\* The oldest frame reaches the server: a replay is only acknowledged, and
\* the acknowledgement may be lost.  same: the failure repeats the last one,
\* or the turn is bound to the session.
Deliver(same, echo, acked) ==
    LET f == Head(outbox)
        r == IF b.judged THEN b ELSE Judged(b, f, same, echo)
        applies == Applies(b, f)
        serves == f.kind = "turn_completed" /\ applies /\ f.launch >= wake /\ r.demand # b.demand
        times == heard + (IF applies THEN 1 ELSE 0)
    IN  /\ conn = inst /\ outbox # <<>>
        /\ IF acked THEN UNCHANGED faults ELSE Fault
        /\ b' = [r EXCEPT !.judged = ~acked]
        /\ outbox' = IF acked THEN Tail(outbox) ELSE outbox
        /\ procs' = IF applies /\ f.kind = "process_spawned" THEN [procs EXCEPT ![f.proc].told = TRUE] ELSE procs
        /\ heard' = IF acked /\ times <= 1 THEN 0 ELSE times
        /\ wake' = IF serves THEN 0 ELSE wake
        /\ UNCHANGED <<daemon, starts, gaps, released>>

\* The full queue folds a frame that was never sent into a marker.
FoldFrame(k) ==
    /\ Fault
    /\ k \in DOMAIN outbox /\ (k = 1 => ~b.judged /\ heard = 0)
    /\ outbox' = RemoveAt(outbox, k)
    /\ gaps' = IF Critical(outbox[k]) THEN gaps \cup {starts[outbox[k].launch].epoch} ELSE gaps
    /\ UNCHANGED <<b, daemon, starts, procs, ghosts>>

DeliverMarker(epoch, acked) ==
    /\ conn = inst /\ epoch \in gaps
    /\ b' = OutcomeMarker(b, epoch)
    /\ gaps' = IF acked THEN gaps \ {epoch} ELSE gaps
    /\ UNCHANGED <<daemon, starts, procs, outbox, faults, ghosts>>

\* applyTerminalLift: a reset or a runtime configuration change.
Lift ==
    /\ Fault
    /\ b' = Finish(Lifted(b))
    /\ UNCHANGED <<daemon, starts, procs, outbox, gaps, ghosts>>

ManualStop ==
    /\ Fault
    /\ b' = ManuallyStopped(b) /\ b' # b
    /\ wake' = 0
    /\ UNCHANGED <<daemon, starts, procs, outbox, gaps, released, heard>>

\* The stored record cannot be decoded any more.
RecordUnreadable ==
    /\ Fault
    /\ ~b.marksLost
    /\ b' = UnreadableRecord
    /\ released' = released \cup Known
    /\ wake' = 0
    /\ UNCHANGED <<daemon, starts, procs, outbox, gaps, heard>>

LeaseRunsOut ==
    /\ b.cur.lease = "live"
    /\ b' = [b EXCEPT !.cur.lease = "past"]
    /\ UNCHANGED <<daemon, starts, procs, outbox, gaps, faults, ghosts>>

BackoffPasses ==
    /\ b.blocked
    /\ b' = [b EXCEPT !.blocked = FALSE]
    /\ UNCHANGED <<daemon, starts, procs, outbox, gaps, faults, ghosts>>

Next ==
    \/ \E message, demand \in BOOLEAN : WakeRefused(message, demand)
    \/ \E i \in Instances, human, demand \in BOOLEAN : Claim(i, human, demand)
    \/ \E l \in Launches, settles \in BOOLEAN, result \in {"sent", "doubt", "failed"} : Dispatch(l, settles, result)
    \/ \E l \in Launches : Rollback(l)
    \/ \E l \in Launches, superseded \in SUBSET Launches, p \in Processes : Spawn(l, superseded, p)
    \/ \E l \in Launches, p \in Processes : Rebind(l, p)
    \/ \E l \in Launches, reason \in {"spawn_error", "stale_dispatch", "other"} : RefuseStart(l, reason)
    \/ \E l \in Launches, p \in Processes : Respawn(l, p)
    \/ \E p \in Processes, kind \in {"terminal_failure", "turn_completed"} : EndTurn(p, kind)
    \/ \E p \in Processes : Exit(p)
    \/ Restart
    \/ Connect
    \/ \E i \in Instances : ObserveReady(i)
    \/ \E same, echo, acked \in BOOLEAN : Deliver(same, echo, acked)
    \/ \E k \in 1..MaxFrames : FoldFrame(k)
    \/ \E epoch \in 0..MaxLaunch, acked \in BOOLEAN : DeliverMarker(epoch, acked)
    \/ Lift
    \/ ManualStop
    \/ RecordUnreadable
    \/ LeaseRunsOut
    \/ BackoffPasses

Spec == Init /\ [][Next]_vars

-----------------------------------------------------------------------------

\* Type correctness: counts within their totals, no process listed twice among
\* those without an exit, and a closed circuit keeps no backoff.
BreakerTypeOK ==
    /\ b.circuit \in {"closed", "open", "half_open"}
    /\ b.gen \in Nat \ {0} /\ b.epoch \in 0..MaxLaunch
    /\ b.total \in 0..MaxLaunch /\ b.same \in 0..b.total
    /\ Len(b.unexited) <= UnexitedMax
    /\ \A j, k \in DOMAIN b.unexited : j # k =>
         \/ Key(b.unexited[j]) # Key(b.unexited[k])
         \/ b.unexited[j].proc # b.unexited[k].proc
    /\ b.demand.claimed \in -1..MaxLaunch
    /\ b.circuit = "closed" => ~b.blocked
    /\ Len(outbox) <= MaxFrames
    /\ heard \in 0..2

\* A half-open circuit always has its one probe, bound and under a lease: a
\* half-open circuit without one would refuse every automatic start for ever,
\* since only the probe's outcome or its lease leaves that state.
ProbeIsLeased ==
    b.circuit = "half_open" =>
        /\ b.cur.probe /\ b.cur.gen = b.gen /\ b.cur.terminal = "no"
        /\ b.cur.lease \in {"live", "past"}

\* No automatic start passes while an earlier one is unaccounted for: when
\* the breaker would let a start through, no claimed or dispatched start is
\* still undecided, and every running process it was told of is the confirmed
\* process of the live current launch -- except launches released by a human
\* takeover, by a restart on an agent never protected, or with a lost record.
NoUnknownStart ==
    Refusal(Normalize(b)).refusal = "none" =>
        /\ \A l \in Known \ released : starts[l].phase = "over"
        /\ \A p \in Processes :
             /\ procs[p].state = "alive" /\ procs[p].told
             /\ procs[p].spawn \notin released
             => \E e \in Entries(b) :
                   e.inst = procs[p].inst /\ e.proc = p /\ ConfirmedLive(Normalize(b), e)

\* A wake nobody else retries stays recorded as demand until a clean turn of
\* a launch claimed after it, a manual stop or the loss of the record.
WakeNotForgotten == wake # 0 => b.demand # NoDemand

\* A frame is applied at most once, whatever acknowledgements are lost and
\* even when the record, with its watermarks, is lost in between.
AppliedOnce == heard <= 1

\* Once evidence is known to be lost, automatic starts stay refused until a
\* human start takes over (or the record itself is lost).
LostEvidenceHolds ==
    [][b.manual.reason = "outcome_evidence_lost" =>
         \/ b'.manual = b.manual
         \/ b'.epoch > b.epoch
         \/ RecordUnreadable]_vars
=============================================================================
