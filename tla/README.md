# A TLA+ verification of raft

This directory models and verifies the parts of the raft repository whose
correctness rests on interleavings, failures and ordering. Each module is
translated from the source named in its header; `PROJECT.json` maps every
definition to its lines.

1. [The system](#1-the-system) – inventory
2. [Modules](#2-modules)
3. [Runs](#3-runs) – what TLC checks, bounds, fairness
4. [Theorems](#4-theorems) – what TLAPS proves and how
5. [Where code and text disagree](#5-where-code-and-text-disagree)
6. [What is not modelled](#6-what-is-not-modelled)
7. [Plan](#7-plan)

To repeat: `tlc -workers 2 -config X.cfg M`, `tlapm MProofs.tla`.

## 1. The system

raft is a chat workspace for people and coding agents. A **server**
(`packages/server`: Postgres, sockets, HTTP) holds channels, messages, tasks and
the life cycle of agents; a **daemon** on each machine (`packages/daemon`) starts
agent processes and delivers messages to them; a **computer** supervisor
(`packages/computer`) keeps the daemon installed and running; the **web**
application, the **cli** and the **sdk** are clients. Small packages serve them:
`sync-core` (client-side synchronisation), `raft-event-buffer` (telemetry
buffer), `trace-client` and `trace-upload-worker` (traces), `shared` (contracts).

The components this project looks at, with their state and operations:

| component | state | operations | what is hard | what makes it correct |
|---|---|---|---|---|
| durable tasks, `server/src/services/durableTasks.ts` | a row per task: state, attempts, claim token, lease; in memory the run of an attempt and a recovery loop per replica | create with the caller's transaction, run inline, extend lease, finish (fenced), sweep spent rows, claim an expired row, read it back, prune, stop | runs that outlive their lease, crashes at any point, rolling deploys with different registries, two statements per claim | an attempt has one runner; the budget holds; a lease protects its holder; outcomes are final; every task is settled |
| sync core, `sync-core/src/core.ts` | per scope: watermark, epoch, fingerprint, `repairPending`, domain state; a keyed map of pending requests | ingest a frame, a snapshot, a difference | late, repeated, reordered, lost inputs; epochs | no rollback, no mutation without a new version, one request per kind |
| activity authority, `server/src/services/activitySyncService.ts` | per principal a version counter and row authorities; per filter rows, a change log, epoch, digest | reconcile (on every read), answer a snapshot or a difference request | filters sharing versions, a log cut at its retention | a version names one fact; a position of an epoch never changes |
| activity panel host, `web/src/store/activityPanel/` | the core's scope, the outstanding request id, the newest bootstrap, calls in flight | bootstrap, drain, receive, push | concurrent calls, answers out of order, failed requests, rollovers between request and answer | a window that is served equals the server's at its position; repairs are requested and settle |
| event buffer, `raft-event-buffer/src/core.ts`, `signalDrain.ts` | queue, batch in flight, the worker promise, token bucket, backoff, drain state, ledger | enqueue, take a batch, settle, rate-limit and requeue, drain on a signal, time out, exit | callbacks between awaits, wake-ups, a timeout racing an answer | every row is accounted for once; order and limits hold; no lost wake-up; a drain ends |
| terminal failure breaker, `server/src/terminalFailureBreaker.ts`, its store, its use in `agentOrchestrator.ts` and `runtimeOutcomeOutboxIngest.ts` | per agent a record: circuit, generation, current launch and last probe, processes not seen to exit, needs-manual block, failure counts, takeover epoch, watermarks per daemon instance, wake demand | gate and claim a start, roll a claim back, settle spawned / exited / rejected / failed / completed frames and markers, observe a ready, lift, stop | claims, sends, frames and readies of several connections interleave; sends that fail after leaving; a record that cannot be read | no second automatic start beside an unaccounted one; a half-open circuit always has its probe; demand and lost evidence are not forgotten; a frame counts once |
| catch-up obligation, the same file and `getAgentResumeCatchupMessages` in `messageService.ts` | what is owed per conversation, overflow, the obligation cursor, the pending batch | raise, build a batch from obligation, chain and rows, record it, settle by read cursor, settle by echo | five reads and writes of one start with messages, wakes, cursors and another start in between | an owed row is rendered, read or still owed; owed rows go first |
| runtime outcome outbox, `daemon/src/runtimeOutcomeOutbox.ts`, its use in `core.ts` and `agentProcessManager.ts` | per agent a bounded queue with gap and cross markers, in memory and in a file; a marker file, an open-launches file, a resolution file, files set aside; the takeover epoch and a recovery grant | admit a start, gate and open a process, refuse for blocked storage past the queue, enqueue, fold, send one at a time, retransmit, acknowledge, resolve, load | any durable write may fail or be torn, a crash between any two, damaged files, lost and repeated acks, full queues | lost evidence blocks automatic starts until the server or a person knows; nothing is acknowledged that was not seen; the watermark passes no undelivered frame (a direct refusal breaks this, section 5) |

**Interactions.** The host calls the core synchronously, asks the server over HTTP
what the core's pending requests say, and hands answers and pushes back to the
core; the server reconciles from canonical data that other services change.
Replicas share durable task rows through Postgres and nothing else. Producers of
telemetry call the event buffer in process; its exporter calls an endpoint. The
server's breaker claims a start and sends it to the daemon; the daemon's outbox
may refuse it, opens it durably before it spawns, and sends frames about what
became of it; the server applies a frame to the breaker record, moves the
watermark of the daemon instance and then acknowledges. A human start carries a
takeover epoch that both sides record. The breaker says what is owed, a start
carries it, and the frame of its completed turn echoes the batch. All of this is
switched off at this commit (`RUNTIME_OUTCOME_ACK_ENABLED`,
`runtimeOutcomeOutboxIngest.ts:40`); the models are of the code with it on.

`PROJECT.json` lists the hazards of this code line by line with the properties
that cover them, and the components that are not modelled.

## 2. Modules

| module | models | used by |
|---|---|---|
| `DurableTasks` | durable tasks | `MCDurableTasks`, `DurableTasksProofs` |
| `SyncCore` | the ingest functions of the core as operators on a scope entry; parameterised by the domain and the density | `SyncScope`, `ActivitySync` (`INSTANCE`) |
| `SyncScope` | one scope under arbitrary inputs | `MCSyncScope`, `SyncScopeProofs` |
| `ActivityDomain` | the merge of rows and tombstones | `ActivityServer` |
| `ActivityServer` | reconciliation | `MCActivityServer`, `ActivitySync`, `ActivitySyncProofs` |
| `ActivitySync` | server, network and web host composed | `MCActivitySync`, `ActivitySyncProofs` |
| `EventBuffer` | buffer and signal drain | `MCEventBuffer`, `EventBufferProofs` |
| `TerminalBreaker` | the breaker record, the server's starts, a daemon with its processes and an in-order outbox | `MCBreaker`, `TerminalBreakerProofs` |
| `CatchupObligation` | what the breaker owes, and the batches that pay it | `MCCatchup`, `CatchupProofs` |
| `OutcomeQueue` | the pure capacity logic of the outbox, as operators on a queue | `RuntimeOutbox`, `RuntimeOutboxProofs` |
| `RuntimeOutbox` | the outbox with its files, the starts of the daemon, the link and the server's watermark | `MCOutbox`, `RuntimeOutboxProofs` |
| `Lists` | the filter of an array (`Others`), as a recursive function | `OutcomeQueue`, `TerminalBreaker`, `SetInduction` |
| `SetInduction` | no code: induction and recursion over naturals in a first-order form, and what `Others` keeps | all proof modules but `DurableTasksProofs` and `SyncScopeProofs` |

Definitions marked `Mutant:` are changed forms of the definition below them. They
are part of no specification; replacing the definition by its mutant must break
the property it is listed with in `PROJECT.json`.

### DurableTasks

A row is `state`, `attempts`, `claimedBy`, `lease`, `keep`. `lease[t]` is
`lease_until - now`: `Tick` counts it down and it rests at -1, so `lease_until <
now` is `lease[t] < 0`. `keep` is the same for the retention of succeeded rows. A
*runner* is either the inline run of a task or the recovery loop of a replica;
`pc`, `task`, `attempt` are its place and the claim it holds. The token
`<worker>:<uuid>` is `<<runner, attempt>>`.

One SQL statement is one action, because statements of two replicas interleave:
`SweepSpent` (the first UPDATE of `claimExpiredDurableTasks`), `ClaimExpired` (the
second), `ReadClaim` (the SELECT that follows it and its filter). A handler is
`HandlerEnds` with any result, after any number of `ExtendDurableTaskLease`.
`Lose` is a crash of the process or an error of the database anywhere in a run:
memory is lost, the row stays. `Stop` is `stop()` of a replica that leaves.
Replicas' clocks agree, and the order in which expired rows are picked is open.

### SyncCore, SyncScope

An entry is the record the core keeps per scope, plus the pending requests of the
scope in map order. `IngestFrame`, `IngestSnapshot`, `IngestDifference` follow the
order of the early returns. Epochs are numbers with 0 for "none yet". The domain
(`Fold`, `Fingerprint`, ...) is a parameter, as `SyncDomainConfig` is. A
difference has at most one event, which is what the only caller sends. The
violation buffer is a log nothing reads back.

### ActivityServer

`Reconcile(f, order)` is the transaction `reconcileInTransaction`: the rows that
changed are versioned (fresh from the principal's counter, or reusing the version
another filter gave the same payload), the scope change is added when the digest
moved, and the log is extended or, past its retention, cut with a new epoch and
without tombstones. It is one step: it runs at repeatable read under row locks and
is retried on a serialization failure. `order` is any order of the changed rows.
A digest is the value it is taken of. `Edit` and `EditTotals` are the canonical
data changing (external).

### ActivitySync

A *call* is an asynchronous activity of the host. `Bootstrap` and `Drain` send;
`Serve` is the server's whole answer; `ReceiveBootstrap`, `ReceiveDrained` are the
continuations after the `await`, including the next request of a drain;
`ConflictThrows` is the rejected promise of a 409; `Fail` any other failure.
Between them other calls, pushes, edits and readers run. A drain works through
the requests it captured when it began (`todo`). The producer of pushes is not in
the repository and its gate is off by default; a push may be any change ever
logged, at any time, any number of times.

### EventBuffer

JavaScript runs to completion, so an action is the code between two awaits.
`RunWorker` is the worker's loop from its test to its next await, and the tail of
every action that reaches it. The state `"ended"` stands for the moment between
the loop's end and the `finally` block, when rows can still be accepted. Instants
are what is left of them (`sleep`, `tokenWait`, `backoff`, the age of a row).
`ExportRateLimited` is a 429 with or without `Retry-After`.

### TerminalBreaker

Every transition of `terminalFailureBreaker.ts` is an operator from a record to a
record of the same name without the prefix (`claimTerminalStart` is `Claimed`,
`finishTransition` is `Finish`, ...); the store runs each as one compare-and-set, so
each is one step. A start of the server is several: `Claim`, `Dispatch` (sent,
failed before leaving, or failed after it may have left), `Rollback`. The instance
and connection a start was prepared for are read when preparation begins and used
at the claim. The daemon is kept to what the breaker can see of it: it accepts a
start of its own connection, spawns, re-binds a running process, refuses or drops
a start; its processes end turns, fail and exit; it restarts. Frames wait in
`outbox` and are delivered in order, applied and acknowledged; an acknowledgement
may be lost (the frame comes again) and a frame may be folded into a marker.
`ObserveReady` is the agent's turn in the reconcile loop of a ready. Time is two
facts, "the backoff has passed" and "the lease has run out"; a fingerprint is
whether a failure repeats the last one.

`released` collects the launches for which the rules themselves give up the claim
that no process is left: a human took over, the daemon restarted and the agent was
never protected, or the record was lost. `told`, `heard`, `wake` are likewise
history for the properties.

### CatchupObligation

Messages are numbers; an *inbox* fixes the conversation of each and which of them
the agent is not to be given. A start goes through `ReadObligation`, `ReadChain`,
`FetchRows`, `Claim`, `RecordBuild`, each reading what it reads at that moment;
between any two of them messages commit (`PostMessage`), the agent reads, wakes are
refused, the breaker opens, leases lapse and the other start moves. `Candidates`,
`FetchOne` and `Build` are the selection, the row query with its three caps and the
contiguous-prefix coverage. Of the breaker only which launch is current and which
still binds is kept; `TerminalBreaker` has the rest. `debt` and `rendered` are
history.

### OutcomeQueue, RuntimeOutbox

`OutcomeQueue` follows `appendToOutbox`, `foldEntry`, `mergeInstanceIntoCross`,
`applyOutboxAck`, `canAdmitStart`. A marker carries the set of frames it stands for
where the code carries counts and a range, so that a property can ask which frames
are accounted for.

A handler of `RuntimeOutbox` is a function of a *context*: memory, files, what was
sent, and where storage fails it. Every durable write goes through `Write`, which
succeeds, fails before the rename, fails after it (*torn*: the file is new, the
caller is told it is not), or is cut off by a crash; a fault may be at any write
of a handler and may last for the writes after it. So `MarkUnreliable`, `Commit`,
`CloseOpen`, `Resolve` and `Load` compose as the code's private methods do and TLC
tries each handler with storage failing at each of its writes. `Crash` loses memory;
`Boot` is `load()` under a new daemon instance; `Damage` makes the queue file
unreadable. The link loses, repeats and reorders both ways: `wire` and `acks` are
sets nothing is removed from.

*Direct refusals.* A start that is refused because storage is blocked gets its result
past the queue: `settleLaunches` takes the next `clientSeq` of the instance for it and
`routeAgentManagerFrame` (`core.ts:3961-3965`) sends it at once if the server
acknowledges. `Start` and `OpenProcess` take the number (`TakeNumbers`) and put the
refusal into `direct` (`SendsDirectly`), one for every waiting start where the open
record of a process cannot be written; without a link the refusal is queued like any
other frame. `ReceiveDirect` is the server: it applies the refusal and raises the
watermark, as for any frame. `Overtaken` is what this costs: the frames below a direct
refusal the server has applied. The properties of the outbox name this exception, and
`outcome_outbox_direct` shows that it is needed.

## 3. Runs

| run | instance | distinct states | shows |
|---|---|---|---|
| `durable_tasks` | 2 tasks of 2 kinds, 2 replicas (the older one knows one kind and leaves), 1 loss, `FairSpec` | 347 752 | the safety properties below and `EventuallySettled` |
| `sync_scope` | sparse register, 4 positions, epochs 0–2, 2 values | 598 | core invariants under every input |
| `activity_server` | 2 rows, 2 payloads, 2 filters, 4 edits, log of 5 | 503 254 | versions and positions |
| `activity_sync` | 1 row, 2 edits, 2 calls, log of 4 | 167 326 | exactness up to a rollover, and what holds across it |
| `event_buffer` | 6 rows through a queue of 4, batches of 2, `FairSpec` | 58 912 | safety and liveness |
| `catchup` | 3 messages in 2 conversations (2 inboxes), 2 starts, every cap 1 or 2 | 921 199 | what is owed is paid |
| `terminal_breaker` | 2 launches, 2 daemon instances, 2 processes, 2 faults, thresholds 1 and 2 | about 912 000 | the breaker against server, network and daemon |
| `outcome_outbox` | 2 launches, 2 daemon instances, 2 frames each, queue of 2, 1 fault at any write | 420 912 | the outbox against storage, crashes and the link |
| `activity_exact`, `catchup_reserved`, `terminal_breaker_ready`, `outcome_outbox_direct` | | | violated, see section 5 |

**Properties.**

- `NoSharedAttempt`, `BudgetRespected`: two runners never hold the same attempt, and
  attempts stay within the budget.
  `NoEarlyTakeover`: while a lease holds, only its holder's outcome releases the
  claim. `FinishedIsFinal`: a finished row is never reopened or claimed, and
  `needs_attention` rows are kept.
- `ScopeTypeOK` (with at most one request of a kind), `NoRollback`,
  `StateNeedsNewVersion`: see section 4.
- `VersionNamesOneFact`, `LogAdvances`, `PositionsAreStable`: what readers rely on
  when they merge by version and resume by position.
- `ExactUntilRollover`: as long as the server has not started a new epoch, whenever
  the host may serve the core's window, it is the window the server had at exactly
  that position. `RepairIsRequested`: a scope waits for a repair iff a request is
  pending. `NoResurrection`: within an epoch no row is shown in an older version than
  the window held of it before, nor comes back from under a newer tombstone (that no
  version ever falls would be too much: a snapshot taken after a rollover may leave out
  a tombstone the rollover dropped); that the watermark does not go back is
  `NoRollback`. `AuthorityIsExact` is `ExactUntilRollover` without
  its premise; section 5.
- `LedgerBalances`, `FirstInFirstOut`, `RowsWithinLimits`, `BytesWithinLimits`,
  `DrainedMeansEmpty`, `NoOversleep`, `NothingIsStranded`, `DrainEnds`: in the
  order of the table of section 1.
- `NoUnknownStart`: when the breaker would let an automatic start pass, every start
  it claimed before is decided and every process it was told of is the confirmed
  process of the live current launch. This is the breaker's purpose: two processes
  of one agent are what a unit test of single transitions cannot see.
  `ProbeIsLeased`: nothing leaves a half-open circuit without its probe, so that
  the lease always ends it. `WakeNotForgotten`: a wake nobody retries stays demand
  until a launch claimed after it completes a turn. `AppliedOnce`: no frame counts
  twice, also over a lost record. `LostEvidenceHolds`: a block for lost evidence
  ends by a human start only.
- `OwedUntilRendered`: a row owed by name is rendered by a completed turn, read, or
  still owed. `CoverageIsRendered`: no deliverable row at or below the obligation
  cursor was passed over. `OwedGoFirst`: a start that leaves an owed conversation
  out carries only conversations owed for at least as long (ties keep the inbox's
  order).
- `LossIsRemembered`: as long as evidence is lost, or a launch has no outcome,
  that neither the server nor a person knows of, automatic starts are refused, by
  the running daemon and by one that would boot from the files as they are.
  `NoBlindStart`: no start, with a recovery grant or without, passes the gate over
  evidence lost since it was granted. Both but for evidence that a direct refusal
  overtook, which the code loses and forgets. `NothingSwallowed`: only a direct refusal
  takes the watermark past a frame still to be delivered. `WatermarkInOrder` is
  `NothingSwallowed` without that exception; section 5. `AckMeansSeen`: what the queue
  holds under an id is what was sent under it.

**Bounds.** `MaxLosses`, `MaxEdits`, `Retention`, `MaxAccepted`, `MaxFaults`,
`MaxFrames` and the numbers of launches, instances, processes, messages and frames
are constants in guards or in the code's own tests; there are no state constraints.
Leases of 0 and 1 tick make runs outlive leases, budgets of 2 and 1 reach the sweep with and
without retries, and the kind only the newer replica knows is swept by the older
one. A log of 4 with one row lets a second edit with its scope change roll the epoch
over after positions were served. A queue of 4 with batches of 2 holds one batch
in flight, one full batch and forces `queue_full`; the envelope `<<3, 1>>` has a row
no batch can hold. `activity_sync` uses one row because the order of two rows adds
nothing to the protocol of positions; several rows are in `activity_server`.
`OwedMax`, `MaxCandidates`, `MaxChannels` and `ChannelRows` of 1 make two conversations
overflow the map, the cut, the channels and a batch; one inbox has a conversation
longer than a batch, the other a hidden row between two. With 2 faults the breaker
meets every pair of a restart, a respawn, a failed send, a lost acknowledgement, a
folded frame, a lost record, a human start, a lift and a stop. A queue of 2 with
one gap instance folds, fills its markers and merges across instances; the outbox
was also checked by hand with 3 frames per instance (2 849 997 states) and with a
queue of 1 (621 525).

Three constants are assumptions of a passing run, and their negation is a known
counterexample: `CommitInOrder` (messages of the instance become visible in the
order of their numbers; without it `catchup_reserved`), `ReadyInOrder` (the reconcile
of a ready does not outlive its connection; without it `terminal_breaker_ready`),
`TornRecovery = FALSE` (the two writes of a human recovery are not torn; with it
section 5).

**Symmetry.** Rows in `activity_server`, calls in `activity_sync` and
`activity_exact`, launches in the catch-up runs: no definition tells them apart, and
these runs check no liveness. The launches of the breaker and the outbox are
numbered in the order they are minted, which is the canonical one.

**Deadlock** is checked except in `event_buffer`, whose process exits, and in the
runs of the catch-up, the breaker and the outbox, where the bounded launches,
messages and faults run out.

**Fairness.**

- Durable tasks: time passes, a handler ends, and the timer of a replica that is
  not stopped keeps starting passes (`WF`). Nothing for creating, extending,
  losing or stopping. `EventuallySettled` is stated for tasks some replica that
  stays can run, and assumes a handler does not extend its lease for ever.
- Activity: the runs state no liveness. That a pending difference is answered or
  turned into a snapshot request is not true of the code (section 5).
- Event buffer: continuations run, time passes, every export is answered, and the
  endpoint does not rate-limit for ever (`SF`). Nothing for the timeout of a
  drain: `DrainEnds` says the drain ends without it.
- The breaker, catch-up and outbox runs state no liveness. That a reachable server
  drains the outbox was tried and dropped: fairness needs `ENABLED` of handlers that
  choose among all faults, which TLC evaluates too slowly on this state space.

## 4. Theorems

All are proved by TLAPS for every value of the constants that satisfies the named
assumptions.

**DurableTasksProofs** (`ConstantsAssumption`: the types of the tables, disjoint
tasks and replicas, a longest lease per registry). `FencingInvariant: Spec =>
[]IInv`. No property of section 3 is inductive alone: that two runs differ in
their attempt needs that every *held* claim, also one that is only claimed and not
yet read back, has an attempt number its row has counted (`RunsWellFormed`), that
held attempts of a task are pairwise distinct (`HeldAttemptsDistinct`), and that
the claim in the row is the latest attempt (`ClaimIsLatest`); a new claim takes
`attempts + 1`, which is above all of them. One lemma per conjunct, one step per
action. Corollaries: `TypeCorrect` (the columns, and that only an open row carries a
claim), `AttemptsNotShared`, `BudgetIsRespected`, `SuccessIsEarned`, and the action properties `LeaseProtects` (a takeover needs an
expired lease; a finish needs the fence, which names its own runner) and
`FinishedStays`.

**SyncScopeProofs** (`InputsAssumption`: the types of inputs; the domain's
functions are arbitrary). `GoodInvariant` (type and one request per kind) gives
`ScopeTypeCorrect`. `Respects(e, n)` says that within an epoch `n`
is not behind `e` and differs in state only if it is ahead; one lemma per ingest
function shows it, and `NeverRollsBack` and `OnlyNewVersionsMutate` follow. The
latter assumes a domain without `acceptSameWatermarkSnapshot`, whose purpose is to
accept a state at the same watermark. These theorems cover both densities.

**SetInduction.** The library's induction theorems take an operator as a parameter,
which the provers cannot instantiate; the same facts about a *set* of naturals are
first-order. `LeastMember` follows from the well-foundedness of `<`, `SetInduction`
and `SetInductionUpTo` from it, and `RecursionExists` says that a recursion over
`0..n` whose steps stay within a set has a solution there, so that a recursive
function of the model (`Bytes`, `Fitting`, `Fetched`) equals what its equation says.
`OthersFacts` uses it for the filter of `Lists`: what it returns is the members not taken
out, each once, in their order.

**EventBufferProofs** (`OptionsAssumption`: what `validateOptions` enforces). The
invariant adds to the properties which phases go together (rows are in flight only
while the worker exports; rows are given up, and the buffer is empty, exactly once a
drain has timed out) and that ids in the buffer do not exceed `accepted`. Theorems:
`TypeCorrect`, `LedgerAlwaysBalances`, `OrderIsKept`, `RowLimitsHold`,
`DrainedIsHonest`, `NoLostWakeup`, and `ByteLimitsHold`: the two byte counters of the
code are incremented and decremented far apart, and the theorem says they are the
sums over the queue and over the batch in flight. It needs that a sum over a
concatenation is the sum of the sums, and that every queued event alone fits a batch
(`Sized`), which is what `Fitting` filters for.

**ActivitySyncProofs, the server** (`ServerAssumption`: finitely many rows, fewer than a
log retains, and a tombstone is no payload). `ServerInvariant: ServerSpec => []IInv` with
`IInv == ServerTypeOK /\ Versioned /\ LogFollowed /\ LogAdvances`. A version names one
fact only because it was drawn from the principal's counter or copied from the row
authority with its payload, so `Versioned` bounds every version anywhere by the
counter and makes authorities, windows and logs agree on what a version names;
`LogFollowed` says that authorities and windows are as new as any log, but for
tombstones a rollover took from the window, which is what makes the next change of a
row newer than all before it in the log. Theorems:
`ServerTypeCorrect`, `VersionsNameFacts`, `LogsAdvance`, and the action property
`PositionsStay`.

**ActivitySyncProofs, the composition** (`ServerAssumption`, `ScopeAssumption`), for any rows, filters,
retention and any number of concurrent calls. `ServerRunsAlone: Spec => ServerSpec`
says that readers, network and pushes leave the server its own steps, so
all theorems above hold of the composition. `SyncInvariant` is `SInv == HistoryOk /\
HostOk`. `HistoryOk`: the history of the scope ends with its log, the window the server
keeps holds nothing newer than the history (`Held`) and, in the first epoch, is exactly
what the changes make (`Exact`). `HostOk`: the entry agrees with the history at its
position; every answer under way, however late it will be taken, is *true* of the
history it came from (`BodyTrue`) and stays so, because the history only grows
(`BodyStays`); the difference whose answer is expected was asked for in the epoch held
(`Correlated`), and in the first epoch none was asked for from past the watermark
(`SinceOk`). That last part is why folding a difference onto an entry that pushes have
moved meanwhile skips no change. Theorems: `RepairRequested`; `ExactFirst`, by the
uniqueness of the last change of a row (`LastUnique`); and the action property
`NothingResurrected`: a snapshot shows rows as new as all of the history up to its
position (`Newest`), and the entry holds nothing newer than that (`Held`), also across
tombstones a rollover has dropped. After the first epoch exactness does not hold (the
run `activity_exact`), which is why `ExactFirst` stops there.

**TerminalBreakerProofs** (`BreakerAssumption`: the bounds are naturals).
`BreakerInvariant: Spec => []IInv` with `IInv == Typed /\ Minted /\ TokensAgree /\
ProbeIsLeased /\ WakeIsOwed /\ HeardIsJudged`. Every transition of
`terminalFailureBreaker.ts` other than a claim is shown to be an *evolution* of the
record (`Evolves`: its launches are kin of the old ones, a half-open circuit keeps its
probe, lost evidence stays on record); then one lemma per step of server and daemon.
`ProbeIsLeased` is not inductive: a rollback restores the launch its token remembers,
so `TokensAgree` says that a token knows whether the launch it names is a probe.
`WakeNotForgotten` needs that the recorded demand names no launch claimed before the
wake (`WakeIsOwed`), `AppliedOnce` that an applied frame not yet acknowledged is at the
head of the outbox and judged or unjudgeable (`HeardIsJudged`). Theorems:
`ProbeAlwaysLeased`, `WakeNeverForgotten`, `FramesAppliedOnce`, and the action property
`LostEvidenceIsHeld`.

`NoStartUnknown: ReadyInOrder => (Spec => []NoUnknownStart)`, the purpose of the breaker,
needs two more invariants, because the record learns of processes only through frames
that arrive later than what they tell. `DaemonInv` is about those frames: they speak of
starts the daemon has dealt with, one instance runs one process, and once the server was
told of a running process no frame still under way speaks of its start, nor does any
behind its announcement (`FramesOk`, `OrderOk`); otherwise a late refusal or exit would
end the entry of a process that runs. `ListInv` is about the list of processes without
an exit: every start not released is decided, has its pending entry or was dropped by
the overflow flag (`StartsAccounted`), and every running process the server was told of
is named by an entry that carries its start, or has the pending entry of that start
(`ProcessesAccounted`). A transition is summarised by what it may drop, list, acknowledge
and count as exited (`Kept`), so one lemma (`ListKept`) serves every step. The hypothesis
is used in one place, that the reconcile of a ready drops entries of older instances only;
without it the run `terminal_breaker_ready` refutes the property. `DaemonInv` and the part
of `ListInv` about the list alone (`ListOk`) hold without it.

`BreakerTypeCorrect: Spec => []BreakerTypeOK` has no hypothesis. That no process is listed
twice and the list stays within its limit is `ListOk`; that the failures counted stay
below the launches minted is `TallyInv`: there is a set of minted launches, as large as
the count, none of which the record or a token still remembers as unfailed (`CountedOk`),
and no launch is remembered twice (`ApartOk`): a claim moves the launch it replaces from
the record to its token, so a rollback cannot bring back a copy that does not know of
its own failure and count it again.

**CatchupProofs** (`CatchupAssumption`: finitely many conversations, positive limits).
`CatchupInvariant: Spec => []IInv`. A start acts on an obligation, a chain and a batch
it read earlier; the invariant says that each of them is still *honest*: every
deliverable row at or below its cursors is paid or among its rows, and nothing
uncommitted is below them (`Honest`, in `StartOk`, `PendingOk`, `ObligationOk`). That
survives every step because messages, read cursors and rendered rows only grow
(`Monotone`, `HonestStays`). A batch is honest because the fetch of a conversation
leaves no gap (`FetchOneGood`: the oldest `limit` rows are downward closed), for any
number of candidates (`FetchedSteps`, by recursion); an echo is because the batch of the
record is the one its launch runs with. `DebtOk` adds that a row owed by name is paid
or under its ceiling. The action property `OwedGoFirst` rests on three facts about a
batch: every order is onto the candidates (`OrderFacts`), a candidate with a deliverable
row gets its oldest one unless the batch is full (`FetchOneRows`), and rows are fetched
in the order of the candidates, the owed ones first (`FetchedInOrder`, `PrecedesOwed`).
Theorems: `OwedMapBounded` and `OwedFirst`, for any order of commits, and
`CoverageHonest` and `OwedNeverLost` under `CommitInOrder`; without it the run
`catchup_reserved` shows that they fail, so the hypothesis is the exact boundary and
not a convenience.

**RuntimeOutboxProofs** (`CapsAssumption`, `OutboxAssumption`: the caps and bounds are
positive), for any caps, launches, instances and faults. The proof has three layers.

*One queue.* `Others`, which takes entries out of a queue, is a recursive function; by
`RecursionExists` what it returns *embeds* in what it was given (`WithoutShape`), and
every edit of the code is an embedding or a replacement in place (`Edited`). `QueueOK(q,
W, A)` says that q is fit to be sent beside the entries W already out and the frames A
the server has applied: no two entries are of one origin, frames ascend, the head is
fixed while it is sent, and an entry out under some id agrees with what the queue holds
under it or is behind it. An edit keeps all frames
that markers stand for (`Carries`), and a frame it folds is in a marker afterwards. One lemma per function of the
code, through `Appended`, the whole of `appendToOutbox` with its folds and merges.

*One handler.* A handler writes up to six times and any write may fail, so it is
summarised by a relation between the context before and the context after
(`Committed`, `Opened`, `Closed`, `Enqueued`, `Resolved`, `Answered`, `Loaded`, ...)
that allows what the code can leave behind, whichever write fails and however.

*The system.* `OutboxDelivers: Spec => []Delivery`. `Delivery` says that the queue in
memory **and** the queue on disk are both fit beside everything ever sent (`Good`),
since a failed write leaves one and a restart takes the other; that no queued entry is
sent over a frame not yet judged (`SentOK`); and that the server's marks and
acknowledgements come from what it was sent (`ServerOK`). A frame is judged once it is
applied or a direct refusal overtook it (`Judged`); where the proof of a queue speaks of
the frames the server has applied, the system puts these. A watermark is the number of
an entry that was sent or of a direct refusal that was applied (`Landed`): in the
first case stop-and-wait has every frame below it judged, in the second all of them are
overtaken. `Delivery` gives `OutboxTypeCorrect` (the caps), `NothingIsSwallowed` and
`AcksMeanSeen`, with no hypothesis on faults; the last does not depend on the exception.

`OutboxRecalls: ~TornRecovery => (Spec => [](Delivery /\ Recall))` is about what is
lost. `Kept`: the files alone either are in doubt (a damaged queue, a marker file, an
open launch or a file set aside that no resolution covers) or hold all evidence owed
that is not known (`Known`: judged by the server, told by a marker, or taken over).
`Minded`: so does memory, and with a reliable memory queue and file
are the same. `Tracked`: a waiting start has its open entry in memory and on disk, under
the present instance, so that a resolution, which covers older instances only, cannot
cover it; this is what turns a crash at any point into doubt (`DownRecall`). `GrantPassed`:
what a recovery grant knows was known to a person when the grant was made (`Asked`,
`Told`). It gives `LossStaysRemembered` and, for every start, `NoStartIsBlind`: only
the gate lets a start on (`OnlyTheGate`), and a gate that does not refuse leaves
nothing owed (`CoveredIsSettled`). `~TornRecovery` is the constant the run has, and the
boundary: without it `LossIsRemembered` fails (section 5). The evidence a direct refusal
overtook counts as known here, which is all the two theorems can say of this code.

**How the invariants were found.** Each inductive invariant was first checked by TLC on
the instance of the component's run (the conjuncts that bound nothing are evaluated as
they stand), then proved.

**Only model-checked.** Liveness under fairness (`EventuallySettled`,
`NothingIsStranded`, `DrainEnds`), which this prover does not handle.
Every invariant and every action property of a passing run is stated by a theorem; where
a theorem has a hypothesis, it is a constant of the run with the value it has there.

## 5. Where code and text disagree

Each is a run TLC must find violated.

- `activity_exact`. `runtime.ts:101-102` sends the position captured with the
  request and the epoch held at sending. If a drain captured a difference and a
  snapshot of a new epoch came in between, the server is asked for the changes
  after an old position under the new epoch's name and skips changes.
- `catchup_reserved`. The number of a message is drawn before its transaction
  commits: `prepareSystemMessageForOrderedDelivery` reserves it in an earlier
  statement (`messageService.ts:2189`), other inserts take the column's default and
  then write more in the same transaction; only a conversation bridged to an outside
  service is locked. A lower number that becomes visible after a batch covered a
  higher one of its conversation is at or below the obligation cursor: its refused
  wake raises a ceiling that counts as fulfilled. `terminalFailureBreaker.ts:25` says
  the obligation is one "that only an echoed, rendered batch fulfils".
- `terminal_breaker_ready`. The reconcile of a ready captures the daemon instance
  (`agentOrchestrator.ts:8340`) and then awaits agent by agent. If the next daemon
  connects and a start is claimed on it meanwhile, `applyTerminalDaemonReady`
  (`terminalFailureBreaker.ts:1866`) takes that start's entry, of another instance
  than its own, for one left by an older daemon and drops it when it is not
  protected. A second automatic start passes while the first may still spawn;
  `:1131` says "Every other entry blocks, in every state: a pending (unconfirmed)
  dispatch".
- `outcome_outbox_direct`. A refusal for blocked storage takes the next `clientSeq` and
  is sent past the stop-and-wait queue (`core.ts:3961-3965`), typically when the queue
  is full. The server applies it and raises the watermark of the instance
  (`terminalFailureBreaker.ts:2175`); the frames still queued have lower numbers, are
  judged duplicates (`:2105-2107`), acknowledged, and deleted by the daemon. Critical
  evidence is gone, and neither a marker nor an unreliable state remembers it. `:2094`
  says "the daemon's stop-and-wait queue sends an entry only after every older one was
  acked, so a frame above one still being resent was never committed".

Met while modelling, and not kept as runs:

- `consumer.ts:25-27` and `:79-80` want a 409 handled inside `acceptDifference`.
  `runtime.ts:95` awaits an HTTP client that rejects it, so the core is never told and
  the host repeats the same difference until a bootstrap (`ConflictThrows`).
- A recovered durable task gets the longest lease of all registered kinds
  (`durableTasks.ts:242`), an extension the kind's own (`:132`, `:196`), so an early
  extension by a kind with a short lease shortens it. The comment says "Push the
  lease forward" (`:38`).
- A difference answered before a frame was logged, but received after the frame was
  stop-gated, settles the repair without that frame; the comment says the difference
  redelivers it (`core.ts:210-211`). The window is exact for its position and behind
  until the next input.
- The echo of a complete batch clears the overflow flag of the obligation
  (`terminalFailureBreaker.ts:808`), also when the flag was raised after the batch
  was built; rows that only the flag owed are then owed no more.
- With `TornRecovery` and a queue of 1, `LossIsRemembered` is violated:
  `resolveUnreliable` (`runtimeOutcomeOutbox.ts:1696`) writes the resolution, the sync
  of the directory fails and the human start is refused, but after a restart the
  agent counts as resolved.
- The rollback of a claim that is no probe, after a failure of it has opened the
  breaker, restores a launch that is not terminal under an open breaker
  (`terminalFailureBreaker.ts:1499`). No decision the properties speak of changes.
- `repairPending` is not set when a difference of another epoch asks for a
  snapshot, nor for the next range of a partial difference (`core.ts:256-265`,
  `:291-301`), although `types.ts:91` says the flag means an outstanding request.
  The Activity host cannot reach either (`RepairIsRequested` holds).
- After a snapshot or a difference, an honest replay of the last change does not
  match the stored fingerprint and costs a snapshot (`core.ts:171-192`, `:245`,
  `:287`).
- A snapshot of any other epoch is accepted, so an answer computed before a
  rollover can take the host back an epoch until its next difference.

## 6. What is not modelled

In the modelled components: metrics and tracing; rejections of the event buffer;
the row order, totals and `activityVersion` of a window; `readStateUpdated` events;
the generation that a server switch or a gate change starts on the web; the
canonical inbox query; a second concurrent `drain()` of the event buffer, which
would be told of an empty buffer by the first one's timeout (`core.ts:206`) and
which `signalDrain.ts:25` rules out.

Of the breaker: machines without the outcome capability and the wait for it,
replicas that do not hold the machine's connection, the diagnostics, the second
breaker its claim is combined with (`wakeCrashLoopBreaker.ts`), the per-launch
sequence check (frames arrive in order here, so the watermark decides), the refusals
that the daemon sends past its queue (see `RuntimeOutbox`; what they overtake is
acknowledged and never applied), exact times and fingerprints. Of the catch-up: the wake folded into a batch, and the
formatting of rows. Of the outbox: servers that do not acknowledge, processes the
daemon starts without a launch, the write that makes a process reliable when a start
is rebound onto one that was opened without a link, the work that goes on for a waiting
launch refused together with another one, which of several waiting launches a process
supersedes, the best-effort `outcome_unreliable` notice, and damage to the marker,
resolution and open-launches files (only the queue file is damaged).

Other components are listed in `PROJECT.json` with the reason: mostly SQL over a
large schema, request handlers, user interface, adapters to third parties, and
generated code.

## 7. Plan

In order of importance.

1. *Done.* `DurableTasks`, `SyncCore`/`SyncScope`, `ActivityServer`,
   `ActivitySync`, `EventBuffer`, `TerminalBreaker`, `CatchupObligation`,
   `OutcomeQueue`, `RuntimeOutbox`, and the proofs of section 4.
2. Proofs left: a fair scheduler's liveness, if a later prover handles it.
3. Server: `wakeCrashLoopBreaker.ts`, `agentLifecycleReducer.ts`, `drainCoordinator.ts`,
   `externalDeliveryOutboxService.ts` (leases again, against the abstract
   specification `DurableTasks` suggests), `readMutationSequencer.ts`.
4. Daemon: start coordination of agent processes (`AgentStartCoordinator`),
   `agentInboxStateMachine.ts`, `agentVisibleDeliveryLedger.ts`, with an abstract
   specification "every accepted message is made visible once".
5. Web: the refresh of a session across tabs (`refreshCoordinator.ts`).
