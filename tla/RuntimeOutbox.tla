---------------------------- MODULE RuntimeOutbox ----------------------------
(***************************************************************************)
(* The runtime outcome outbox of one agent (RFC 071,                       *)
(* packages/daemon/src/runtimeOutcomeOutbox.ts) with its files, the        *)
(* launches that produce its frames, the link to a server that             *)
(* acknowledges them, and the server's watermark.                          *)
(*                                                                         *)
(* Handlers are synchronous, so a handler is one step.  It is a function   *)
(* of a context c: the memory c.mem and the files c.disk of the agent,     *)
(* what it sent (c.out), and where storage fails it.  A durable write is   *)
(* temp file, fsync, rename, fsync of the directory.  It may succeed, fail *)
(* before the rename ("fail"), fail after it ("torn": the new file is      *)
(* there, the caller is told it is not), or be cut off by a crash.         *)
(*                                                                         *)
(* The server is one with RUNTIME_OUTCOME_ACK_ENABLED on.                  *)
(*                                                                         *)
(* One frame goes past the queue: the refusal of a start because storage   *)
(* is blocked takes the next number of the instance and, on a link, is     *)
(* sent at once.  The server ingests it like any other frame, so it may    *)
(* overtake frames that are still queued (see Overtaken).                  *)
(*                                                                         *)
(* Left out: servers that do not acknowledge, processes the daemon starts  *)
(* without a launch, the write that makes a process reliable when a start  *)
(* is rebound onto one that was opened without a link, the best-effort     *)
(* outcome_unreliable notice, which of several waiting launches a process  *)
(* supersedes, and the work that goes on for a waiting launch refused      *)
(* together with another one.                                              *)
(***************************************************************************)
EXTENDS OutcomeQueue

CONSTANTS
    MaxLaunch,     \* bound: starts the server sends
    MaxInstance,   \* bound: daemon instances
    MaxSeq,        \* bound: frames of an instance
    MaxFaults,     \* bound: handlers that storage fails, and crashes
    TornRecovery   \* the two writes of a human recovery may be torn

ASSUME OutboxAssumption ==
    /\ {MaxLaunch, MaxInstance, MaxSeq} \subseteq Nat \ {0}
    /\ MaxFaults \in Nat /\ TornRecovery \in BOOLEAN

VARIABLES
    mem,      \* the daemon's memory of the agent
    disk,     \* the agent's files
    minted,   \* ids of unreliable markers given out
    launch,   \* launch[l]: where start l stands in the daemon
    epoch,    \* the server's takeover epoch
    direct,   \* refusals sent past the queue; like entries, they arrive any time
    wire,     \* entries sent; any of them may arrive, again and again, or never
    acks,     \* acknowledgements sent, likewise
    mark,     \* mark[i]: the server's watermark for instance i
    applied,  \* frames the server has applied
    told,     \* frames a marker told the server it has lost
    owed,     \* history: evidence, critical frames and launches left by a crash
    covered,  \* history: evidence known when a human start was last admitted
    faults    \* faults so far

serverVars == <<epoch, mark, applied, told>>
vars == <<mem, disk, minted, launch, direct, wire, acks, owed, covered, faults, serverVars>>

Launches == 1..MaxLaunch
Reliable == -1
NoGrant == [launch |-> 0, known |-> {}]
NoResolution == [marker |-> 0, open |-> {}, aside |-> {}]

\* bad: Reliable, 0 (unreliable, not durably so) or the id of the marker file.
FreshMemory(i) == [up |-> TRUE, inst |-> i, seq |-> 0, link |-> FALSE, q |-> EmptyQueue,
                   bad |-> Reliable, open |-> {}, grant |-> NoGrant]

EmptyDisk == [queue |-> EmptyQueue, damaged |-> FALSE, marker |-> 0, open |-> {},
              resolution |-> NoResolution, aside |-> {}]

\* A start without its outcome yet.
Waiting == {"pending", "passed", "starting", "running"}
Live == {l \in Launches : launch[l] \in Waiting}
Request(l, i) == [what |-> "request", launch |-> l, inst |-> i]
Process(l, i) == [what |-> "process", launch |-> l, inst |-> i]

Init ==
    /\ mem = FreshMemory(1) /\ disk = EmptyDisk /\ minted = 0
    /\ launch = [l \in Launches |-> "none"]
    /\ epoch = 0 /\ direct = {} /\ wire = {} /\ acks = {}
    /\ mark = [i \in 1..MaxInstance |-> 0] /\ applied = {} /\ told = {}
    /\ owed = {} /\ covered = {} /\ faults = 0

-----------------------------------------------------------------------------
\* Durable writes.

\* Where storage fails a handler: at write `at`, and at the later ones if lasting.
NoFault == [at |-> 0, how |-> "fail", lasting |-> FALSE]
Faults == {NoFault} \cup [at : 1..6, how : {"fail", "torn"}, lasting : BOOLEAN]
                    \cup [at : 1..6, how : {"crash"}, lasting : {TRUE}]

PossibleFaults == IF faults < MaxFaults THEN Faults ELSE {NoFault}

Context(fault) == [mem |-> mem, disk |-> disk, minted |-> minted, out |-> {}, made |-> {},
                   fault |-> fault, writes |-> 0, alive |-> TRUE, ok |-> TRUE]

\* durableWrite of a file; file "cleanup" is the removal of what is resolved.
Write(c, file, part, value) ==
    LET n == c.writes + 1
        hit == c.fault.at # 0 /\ (n = c.fault.at \/ (n > c.fault.at /\ c.fault.lasting))
        new == [c EXCEPT !.writes = n, !.disk[part] = value]
        old == [c EXCEPT !.writes = n, !.ok = FALSE]
    IN  CASE ~c.alive -> [c EXCEPT !.ok = FALSE]
          [] c.alive /\ ~hit -> [new EXCEPT !.ok = TRUE]
          [] c.alive /\ hit /\ c.fault.how = "crash" -> [old EXCEPT !.alive = FALSE]
          [] c.alive /\ hit /\ c.fault.how = "torn" /\ (TornRecovery \/ file # "recovery") ->
               [new EXCEPT !.ok = FALSE]
          [] OTHER -> old

\* What follows a write that succeeded, and one that did not.
IfOk(c, Then(_), Else(_)) == IF c.ok THEN Then(c) ELSE Else(c)

\* writeMarker, markUnreliable
WriteMarker(c) ==
    LET id == c.minted + 1
    IN  IfOk(Write([c EXCEPT !.minted = id], "marker", "marker", id),
             LAMBDA w : [w EXCEPT !.mem.bad = id], LAMBDA w : w)

MarkUnreliable(c) ==
    IF c.mem.bad \in {Reliable, 0} THEN WriteMarker([c EXCEPT !.mem.bad = 0]) ELSE c

\* A memory-only unreliable state is made durable as soon as storage works.
MakeDurable(c) == IF c.mem.bad = 0 THEN WriteMarker(c) ELSE c

\* commit, persist: a queue stands only once it is written.
Commit(c, q, file) ==
    IfOk(Write(c, file, "queue", q),
         LAMBDA w : [MakeDurable([w EXCEPT !.mem.q = q]) EXCEPT !.ok = TRUE],
         LAMBDA w : [MarkUnreliable(w) EXCEPT !.ok = FALSE])

\* writeOpenLaunches
WriteOpen(c, open, marks) ==
    IfOk(Write(c, "open", "open", open),
         LAMBDA w : [w EXCEPT !.mem.open = open],
         LAMBDA w : IF marks THEN [MarkUnreliable(w) EXCEPT !.ok = FALSE] ELSE w)

\* closeOpenEntries, unreliableDurableForRemoval
CloseOpen(c, gone) ==
    LET remove(d) == IF d.mem.bad = 0 THEN d ELSE WriteOpen(d, d.mem.open \ gone, FALSE)
    IN  IF c.mem.open \cap gone = {} THEN c ELSE remove(MakeDurable(c))

-----------------------------------------------------------------------------
\* Sending.

WireForm(e) == IF e.t = "normal" THEN e ELSE [e EXCEPT !.sealed = TRUE]
Send(c, e) == IF c.alive THEN [c EXCEPT !.out = @ \cup {WireForm(e)}] ELSE c

\* sendOldest
SendOldest(c) ==
    LET q == c.mem.q
    IN  CASE ~c.mem.link \/ q.entries = <<>> -> c
          [] c.mem.link /\ q.entries # <<>> /\ (~q.sending \/ Sent(q) # q) ->
               IfOk(Commit(c, Sent(q), "queue"), LAMBDA w : Send(w, w.mem.q.entries[1]), LAMBDA w : w)
          [] OTHER -> Send(c, q.entries[1])

Pump(c) == IF c.mem.q.sending THEN c ELSE SendOldest(c)

\* enqueue of the next frame; gone: the open entries it closes once it is stored.
Enqueue(c, turn, gone) ==
    LET s == c.mem.seq + 1
        n == Normal(c.mem.inst, s, turn, c.mem.q.epoch)
        store(d, qs) == IF qs = {} THEN MarkUnreliable(d)
                        ELSE IfOk(Commit(d, CHOOSE q \in qs : TRUE, "queue"),
                                  LAMBDA w : Pump(CloseOpen(w, gone)), LAMBDA w : w)
    IN  store([c EXCEPT !.mem.seq = s, !.made = IF turn THEN @ ELSE @ \cup {Frame(n)}],
              Appended(c.mem.q, n))

-----------------------------------------------------------------------------
\* Starts.

\* Mutant: lost evidence is remembered and no longer blocks a start.
IgnoresMarkers(m) == m.bad # Reliable

RefusesAutomatic(m) == m.bad # Reliable \/ Blocking(m.q) # {}

\* The gate with a live grant of start l.
GrantCovers(m, l) ==
    m.bad = Reliable /\ {WireForm(b) : b \in Blocking(m.q)} \subseteq m.grant.known

\* startDecision: a live grant of this start passes unless there is a new fault.
Refused(m, l) == IF m.grant.launch = l THEN ~GrantCovers(m, l) ELSE RefusesAutomatic(m)

Spent(c, l) == IF c.mem.grant.launch = l THEN [c EXCEPT !.mem.grant = NoGrant] ELSE c

\* resolveUnreliable: the record first, then what it covers is removed.
Resolve(c) ==
    LET stale == {o \in c.mem.open : o.inst # c.mem.inst}
        record == [marker |-> c.mem.bad, open |-> stale, aside |-> c.disk.aside]
        close(d) == IF stale = {} THEN d ELSE WriteOpen(d, d.mem.open \ stale, FALSE)
        remove(d) == [d EXCEPT !.disk.aside = IF d.disk.marker = 0 THEN {} ELSE @, !.ok = d.alive]
        clean(w) == remove(Write(close([w EXCEPT !.mem.bad = Reliable]), "cleanup", "marker", 0))
    IN  IF c.mem.bad = Reliable THEN [c EXCEPT !.ok = TRUE]
        ELSE IfOk(Write(c, "recovery", "resolution", record), clean, LAMBDA w : w)

\* The takeover of an admitted human start.
TakeOver(c, e) ==
    IF ~c.ok \/ c.mem.q.human >= e THEN c
    ELSE Commit(c, [c.mem.q EXCEPT !.human = e], "recovery")

Storage(c) == [c |-> c, answer |-> "storage_blocked"]

\* admitServerStart: the context after it and the answer.
AdmitServerStart(c, l, human, e) ==
    LET request == Request(l, c.mem.inst)
        grant(d) == [d EXCEPT !.mem.grant =
                       [launch |-> l, known |-> {WireForm(b) : b \in Blocking(d.mem.q)}]]
        recover(d) == IF d.ok THEN [c |-> grant(d), answer |-> "admitted"]
                      ELSE Storage(CloseOpen(d, {request}))
        opened(d) == CASE ~d.ok -> Storage(d)
                       [] d.ok /\ ~human -> [c |-> d, answer |-> "admitted"]
                       [] OTHER -> recover(TakeOver(Resolve(d), e))
        adopted(d) == CASE ~d.ok \/ ~CanAdmit(d.mem.q, c.mem.inst) -> Storage(d)
                        [] d.ok /\ CanAdmit(d.mem.q, c.mem.inst) /\ ~human /\ RefusesAutomatic(d.mem) ->
                             [c |-> d, answer |-> "needs_manual"]
                        [] OTHER -> opened(WriteOpen(d, d.mem.open \cup {request}, TRUE))
    IN  adopted(IF e > c.mem.q.epoch THEN Commit(c, Adopted(c.mem.q, e), "queue") ELSE c)

-----------------------------------------------------------------------------
\* load: the memory of a new instance from the files.

LoadQueue(c) ==
    IF c.disk.damaged
    THEN MarkUnreliable([c EXCEPT !.disk.damaged = FALSE, !.disk.queue = EmptyQueue,
                                  !.disk.aside = @ \cup {c.mem.inst}])
    ELSE [c EXCEPT !.mem.q = c.disk.queue]

LoadMarker(c) ==
    CASE c.disk.marker = 0 -> c
      [] c.disk.marker # 0 /\ c.disk.marker = c.disk.resolution.marker -> [c EXCEPT !.disk.marker = 0]
      [] OTHER -> IF c.mem.bad = Reliable THEN [c EXCEPT !.mem.bad = c.disk.marker]
                  ELSE MarkUnreliable(c)

\* Mutant: launches an earlier instance left open are forgotten.
ForgetsOpen(c) == c

\* Entries a resolution covers are removed; any other means an unknown outcome.
LoadOpen(c) ==
    LET kept == c.disk.open \ c.disk.resolution.open
        held == [c EXCEPT !.mem.open = kept]
        judge(w) == IF kept = {} THEN w ELSE MarkUnreliable(w)
    IN  judge(IF kept = c.disk.open THEN held
              ELSE [WriteOpen(held, kept, FALSE) EXCEPT !.mem.open = kept])

LoadAside(c) ==
    LET left == c.disk.aside \ c.disk.resolution.aside
        d == [c EXCEPT !.disk.aside = left]
    IN  IF left = {} THEN d ELSE MarkUnreliable(d)

\* Mutant: the restarted daemon keeps its instance id and counts from 1 again.
LoadSameInstance(c) ==
    LoadAside(LoadOpen(LoadMarker(LoadQueue([c EXCEPT !.mem = FreshMemory(@.inst)]))))

Load(c) ==
    LoadAside(LoadOpen(LoadMarker(LoadQueue([c EXCEPT !.mem = FreshMemory(@.inst + 1)]))))

-----------------------------------------------------------------------------
\* Steps of the daemon.

Killed == [l \in Launches |-> IF l \in Live THEN "over" ELSE launch[l]]
Orphans(ls) == {<<0, l>> : l \in ls}

\* A handler ends in context c, start l then standing at `at` and the starts
\* `others` refused; or the daemon crashes within it, which leaves the other
\* launches, and l if it was not to end, without an outcome.  The refusal of a
\* start that was never admitted is no evidence: nothing ran.
EndsWith(c, l, at, others) ==
    LET made == IF l \in Live THEN c.made ELSE {}
    IN  /\ c.writes >= c.fault.at
        /\ faults' = IF c.fault = NoFault THEN faults ELSE faults + 1
        /\ disk' = c.disk /\ minted' = c.minted /\ wire' = wire \cup c.out
        /\ IF c.alive
           THEN /\ mem' = c.mem
                /\ launch' = [k \in Launches |-> IF k = l THEN at
                                               ELSE IF k \in others THEN "over" ELSE launch[k]]
                /\ owed' = owed \cup made
           ELSE /\ mem' = [FreshMemory(c.mem.inst) EXCEPT !.up = FALSE]
                /\ launch' = Killed
                /\ owed' = owed \cup made \cup Orphans(IF at \in Waiting THEN Live ELSE Live \ {l})

Ends(c, l, at) == EndsWith(c, l, at, {})

\* settleLaunches, routeAgentManagerFrame: n refusals for blocked storage take
\* the next numbers and are sent on the link past the queue, once.
TakeNumbers(c, n) == [c EXCEPT !.mem.seq = @ + n]
Refusals(n) == {mem.inst} \X ((mem.seq + 1)..(mem.seq + n))
SendsDirectly(c, n) == direct' = IF c.alive THEN direct \cup Refusals(n) ELSE direct

\* A start message: admission, or a refusal that is itself a frame, queued or
\* sent directly.
Start(l, human) ==
    LET e == IF human THEN epoch + 1 ELSE epoch
        ends(c, admitted) ==
            /\ Ends(c, l, IF admitted THEN "pending" ELSE "over")
            /\ covered' = IF admitted /\ human THEN owed ELSE covered
        answered(a) ==
            CASE a.answer = "admitted" -> ends(a.c, a.c.alive) /\ UNCHANGED direct
              [] a.answer = "needs_manual" -> ends(Enqueue(a.c, FALSE, {}), FALSE) /\ UNCHANGED direct
              [] OTHER -> ends(TakeNumbers(a.c, 1), FALSE) /\ SendsDirectly(a.c, 1)
    IN  /\ mem.up /\ mem.link
        /\ launch[l] = "none" /\ \A k \in 1..(l - 1) : launch[k] # "none"
        /\ epoch' = e
        /\ \E f \in PossibleFaults : answered(AdmitServerStart(Context(f), l, human, e))
        /\ UNCHANGED <<acks, mark, applied, told>>

\* The spawn / rebind gate: a start that is refused, or rebound onto a running
\* process, gets its outcome as a frame.
Gate(l) ==
    LET settled(c, at) == Ends(Enqueue(c, FALSE, {Request(l, mem.inst)}), l, at)
        gate(c) ==
            IF Refused(mem, l) THEN settled(c, "over")
            ELSE IF \E k \in Launches : launch[k] = "running" THEN settled(c, "rebound")
            ELSE Ends(c, l, "passed")
    IN  /\ mem.up /\ launch[l] = "pending"
        /\ \A k \in Launches : launch[k] \notin {"passed", "starting"}
        /\ \E f \in PossibleFaults : gate(Spent(Context(f), l))
        /\ UNCHANGED <<acks, direct, covered, serverVars>>

\* Later, the process is durably open before it is spawned.  If that cannot be
\* written, every start that waits is refused: directly on a link; else l now
\* and the others at the gate, which no automatic start passes any more.
OpenProcess(l) ==
    LET others == {k \in Launches : launch[k] = "pending"}
        n == 1 + Cardinality(others)
        ends(c) ==
            CASE c.ok -> Ends(c, l, "starting") /\ UNCHANGED direct
              [] ~c.ok /\ mem.link -> EndsWith(TakeNumbers(c, n), l, "over", others) /\ SendsDirectly(c, n)
              [] OTHER -> Ends(Enqueue(c, FALSE, {Request(l, mem.inst)}), l, "over") /\ UNCHANGED direct
    IN  /\ mem.up /\ launch[l] = "passed"
        /\ \E f \in PossibleFaults : ends(WriteOpen(Context(f), mem.open \cup {Process(l, mem.inst)}, TRUE))
        /\ UNCHANGED <<acks, covered, serverVars>>

Spawned(l) ==
    /\ mem.up /\ launch[l] = "starting"
    /\ \E f \in PossibleFaults : Ends(Enqueue(Context(f), FALSE, {Request(l, mem.inst)}), l, "running")
    /\ UNCHANGED <<acks, direct, covered, serverVars>>

\* The start fails before a process is reported: its launch is settled, then
\* its process is known not to run (processNotStarted).
SpawnFails(l) ==
    /\ mem.up /\ launch[l] = "starting"
    /\ \E f \in PossibleFaults :
         Ends(CloseOpen(Enqueue(Context(f), FALSE, {Request(l, mem.inst)}), {Process(l, mem.inst)}),
              l, "over")
    /\ UNCHANGED <<acks, direct, covered, serverVars>>

\* A completed turn or a terminal failure of a running process.
Outcome(l, turn) ==
    /\ mem.up /\ launch[l] = "running" /\ mem.seq < MaxSeq
    /\ \E f \in PossibleFaults : Ends(Enqueue(Context(f), turn, {}), l, "running")
    /\ UNCHANGED <<acks, direct, covered, serverVars>>

Exited(l) ==
    /\ mem.up /\ launch[l] = "running"
    /\ \E f \in PossibleFaults : Ends(Enqueue(Context(f), FALSE, {Process(l, mem.inst)}), l, "over")
    /\ UNCHANGED <<acks, direct, covered, serverVars>>

\* onServerContext of an acknowledging server, onDisconnected.
Connect ==
    /\ mem.up /\ ~mem.link
    /\ \E f \in PossibleFaults :
         Ends(SendOldest([Context(f) EXCEPT !.mem.link = TRUE]), 0, "none")
    /\ UNCHANGED <<acks, direct, covered, serverVars>>

Disconnect ==
    /\ mem.up /\ mem.link
    /\ mem' = [mem EXCEPT !.link = FALSE]
    /\ UNCHANGED <<disk, minted, launch, direct, wire, acks, owed, covered, faults, serverVars>>

\* The timer of armRetransmit, where the last send was not written.  (Sending
\* the entry in flight again adds nothing to the wire.)
Retransmit ==
    /\ mem.up /\ mem.link /\ mem.q.entries # <<>> /\ ~mem.q.sending
    /\ \E f \in PossibleFaults : Ends(SendOldest(Context(f)), 0, "none")
    /\ UNCHANGED <<acks, direct, covered, serverVars>>

\* ack: the exact entry is deleted, durably; then the next one is sent.
ReceiveAck(id) ==
    /\ mem.up /\ mem.link
    /\ \E e \in Held(mem.q) : Id(e) = id
    /\ \E f \in PossibleFaults :
         Ends(IfOk(Commit(Context(f), Acked(mem.q, id), "queue"), Pump, LAMBDA w : w), 0, "none")
    /\ UNCHANGED <<acks, direct, covered, serverVars>>

Crash ==
    /\ mem.up /\ faults < MaxFaults
    /\ faults' = faults + 1
    /\ mem' = [FreshMemory(mem.inst) EXCEPT !.up = FALSE]
    /\ launch' = Killed
    /\ owed' = owed \cup Orphans(Live)
    /\ UNCHANGED <<disk, minted, direct, wire, acks, covered, serverVars>>

Boot ==
    /\ ~mem.up /\ mem.inst < MaxInstance
    /\ \E f \in PossibleFaults : Ends(Load(Context(f)), 0, "none")
    /\ UNCHANGED <<acks, direct, covered, serverVars>>

\* While the daemon is down, the queue file becomes unreadable.
Damage ==
    /\ ~mem.up /\ mem.inst < MaxInstance /\ disk.queue # EmptyQueue /\ ~disk.damaged
    /\ disk' = [disk EXCEPT !.damaged = TRUE]
    /\ UNCHANGED <<mem, minted, launch, direct, wire, acks, owed, covered, faults, serverVars>>

-----------------------------------------------------------------------------
\* The server: commit, then acknowledge (ingestRuntimeOutcomeOutboxMessage).

Receive(e) ==
    /\ IF e.t = "normal"
       THEN /\ IF e.seq > mark[e.inst]
               THEN mark' = [mark EXCEPT ![e.inst] = e.seq] /\ applied' = applied \cup {Frame(e)}
               ELSE UNCHANGED <<mark, applied>>
            /\ UNCHANGED told
       ELSE told' = told \cup e.frames /\ UNCHANGED <<mark, applied>>
    /\ acks' = acks \cup {Id(e)}
    /\ UNCHANGED <<mem, disk, minted, launch, epoch, direct, wire, owed, covered, faults>>

\* A refusal sent past the queue: applied and the watermark raised like for any
\* frame.  Its acknowledgement names no entry of the queue.
ReceiveDirect(d) ==
    /\ d[2] > mark[d[1]]
    /\ mark' = [mark EXCEPT ![d[1]] = d[2]] /\ applied' = applied \cup {d}
    /\ UNCHANGED <<mem, disk, minted, launch, epoch, direct, wire, acks, told, owed, covered, faults>>

Next ==
    \/ \E l \in Launches, human \in BOOLEAN : Start(l, human)
    \/ \E l \in Launches : Gate(l) \/ OpenProcess(l) \/ Spawned(l) \/ SpawnFails(l) \/ Exited(l)
    \/ \E l \in Launches, turn \in BOOLEAN : Outcome(l, turn)
    \/ Connect \/ Disconnect \/ Retransmit \/ \E id \in acks : ReceiveAck(id)
    \/ Crash \/ Boot \/ Damage
    \/ \E e \in wire : Receive(e)
    \/ \E d \in direct : ReceiveDirect(d)

Spec == Init /\ [][Next]_vars

-----------------------------------------------------------------------------
\* Properties.

\* The caps of the queue hold in memory and on disk, and only a queue with an
\* entry is sending.
OutboxTypeOK ==
    \A q \in {mem.q, disk.queue} :
        /\ Cardinality(Normals(q)) <= NormalCap
        /\ Cardinality(GapInstances(q)) <= GapInstancesMax
        /\ \A i \in GapInstances(q) : Cardinality(GapsOf(q, i)) <= GapsPerInstanceMax
        /\ Cardinality(Crosses(q)) <= CrossMax
        /\ q.sending => q.entries # <<>>
        /\ q.human <= q.epoch /\ q.epoch <= epoch

\* Frames below a refusal that was sent directly and that the server applied:
\* it takes them for duplicates, acknowledges them, and never applies them.
Overtaken == UNION {{d[1]} \X (1..(d[2] - 1)) : d \in direct \cap applied}

\* Evidence the server has, will get from queue q, knows to be lost, or a
\* person has taken over; or that a direct refusal overtook, which is the one
\* way the code loses evidence and forgets it (see WatermarkInOrder).
Settled(q) == applied \cup told \cup covered \cup Overtaken \cup {Frame(n) : n \in Normals(q)}

\* Whatever write fails and wherever the daemon crashes: as long as a critical
\* frame is lost, or a launch has no outcome, without the server knowing, a
\* person having taken over or a direct refusal having overtaken it, automatic
\* starts are refused; and they would be by a daemon that started now from
\* what is on disk.
LossIsRemembered ==
    LET booted == Load(Context(NoFault)).mem
    IN  /\ mem.up => RefusesAutomatic(mem) \/ owed \subseteq Settled(mem.q)
        /\ RefusesAutomatic(booted) \/ owed \cup Orphans(Live) \subseteq Settled(booted.q)

\* No start, with a recovery grant or without, passes the gate while evidence
\* is missing that no person knew of when a start was last admitted and that
\* no direct refusal overtook.
NoBlindStart ==
    [][\A l \in Launches :
          launch[l] = "pending" /\ launch'[l] \in {"passed", "rebound"} =>
              owed \subseteq Settled(mem.q)]_vars

\* Only a direct refusal takes the server's watermark past a frame that is
\* still to be delivered: whatever is resent, replayed by a later instance or
\* repeated, stop-and-wait delivers in order.
NothingSwallowed ==
    \A n \in Normals(mem.q) \cup Normals(disk.queue) :
        n.seq <= mark[n.inst] => Frame(n) \in applied \cup Overtaken

\* What the server's comment on applyTerminalOutboxFrame relies on: a frame
\* above one still being resent was never committed.  A direct refusal breaks
\* it, and the frame still queued is then acknowledged as a duplicate.
WatermarkInOrder ==
    \A n \in Normals(mem.q) : n.seq <= mark[n.inst] => Frame(n) \in applied

\* What was sent under an id is what the queue holds under it: an
\* acknowledgement deletes nothing the server has not seen.
AckMeansSeen ==
    \A e \in Held(mem.q), m \in wire : Id(e) = Id(m) => WireForm(e) = m
=============================================================================
