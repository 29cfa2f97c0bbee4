----------------------------- MODULE EventBuffer ----------------------------
(***************************************************************************)
(* The telemetry buffer of packages/raft-event-buffer: EventBuffer         *)
(* (src/core.ts) and the drain its process runs on SIGTERM or SIGINT       *)
(* (src/signalDrain.ts).                                                   *)
(*                                                                         *)
(* One JavaScript thread: an action is a run of code between two awaits.   *)
(* The worker is the promise of runWorker, and stands                      *)
(*   "none"       not started, or its finally block has run                *)
(*   "waiting"    in waitForWakeOrDelay, `sleep` from its timer            *)
(*   "exporting"  in exporter.export                                       *)
(*   "ended"      out of its loop, the finally block still to run          *)
(* The continuation of drain runs before any other callback once its race  *)
(* is decided, so a drain is waiting, drained or timed out.                *)
(*                                                                         *)
(* Time passes in ticks.  Instants are kept as what is left of them: an    *)
(* entry its age, the bucket and the backoff the time until they allow an  *)
(* attempt.  Timers may fire late.                                         *)
(*                                                                         *)
(* A row is its number in the order of acceptance, its size and its age.   *)
(* Rejections change metrics only and are left out, but for the filter     *)
(* that rejects an oversized row and keeps its siblings.                   *)
(***************************************************************************)
EXTENDS Integers, Sequences

CONSTANTS
    Envelopes,          \* the row sizes of the envelopes that may arrive
    MaxQueueRows, MaxQueueBytes, MaxBatchRows, MaxBatchBytes,
    MaxBatchAge,        \* maxBatchAgeMs
    Period,             \* time in which the bucket makes one token
    Backoff, MaxBackoff,\* rateLimitBackoffMs, maxRateLimitBackoffMs
    RetryAfters,        \* what a rate-limited answer may ask for, 0 for nothing
    MaxAccepted         \* bound: rows accepted in a behaviour

\* validateOptions
ASSUME OptionsAssumption ==
    /\ MaxQueueRows \in Nat /\ MaxBatchRows \in 1..MaxQueueRows
    /\ MaxQueueBytes \in Nat /\ MaxBatchBytes \in 1..MaxQueueBytes
    /\ MaxBatchAge \in Nat \ {0} /\ Period \in Nat \ {0}
    /\ Backoff \in Nat \ {0} /\ MaxBackoff \in Nat /\ Backoff <= MaxBackoff
    /\ RetryAfters \subseteq Nat /\ MaxAccepted \in Nat
    /\ Envelopes \subseteq Seq(Nat)

VARIABLES
    queue, queuedBytes, inFlight,
    worker, sleep,
    tokenWait, backoff,         \* SingleTokenBucket.waitMs, blockedUntilMs - now
    exponential,                \* exponentialBackoff of rateLimitStreak, 0 at streak 0
    drain,                      \* "none", "waiting", "drained", "timedOut"
    abandonInFlight,
    exited,                     \* process.exit was called
    accepted, committed, dropped, unknown       \* the ledger of metrics.ts

pool   == <<queue, queuedBytes, inFlight>>
loop   == <<worker, sleep, tokenWait>>
pace   == <<backoff, exponential>>
ledger == <<accepted, committed, dropped, unknown>>
vars   == <<pool, loop, pace, drain, abandonInFlight, exited, ledger>>

Least(a, b)    == IF a < b THEN a ELSE b
Greatest(a, b) == IF a < b THEN b ELSE a

\* The bytes of a sequence of entries.
Bytes(entries) ==
    LET sum[i \in 0..Len(entries)] ==
            IF i = 0 THEN 0 ELSE sum[i - 1] + entries[i].bytes
    IN  sum[Len(entries)]

PendingRows(q, f) == Len(q) + Len(f)

PendingBytes == queuedBytes + Bytes(inFlight)

Init ==
    /\ queue = <<>> /\ queuedBytes = 0 /\ inFlight = <<>>
    /\ worker = "none" /\ sleep = 0 /\ tokenWait = 0
    /\ backoff = 0 /\ exponential = 0
    /\ drain = "none" /\ abandonInFlight = FALSE /\ exited = FALSE
    /\ accepted = 0 /\ committed = 0 /\ dropped = 0 /\ unknown = 0

-----------------------------------------------------------------------------
(* The worker. *)

BatchThresholdReached(q, qb) == Len(q) >= MaxBatchRows \/ qb >= MaxBatchBytes

\* waitBeforeNextAttemptMs, d being where the drain stands.
WaitBeforeNextAttempt(q, qb, token, blocked, d) ==
    IF blocked > 0 THEN blocked
    ELSE IF token > 0 THEN token
    ELSE IF d # "none" \/ BatchThresholdReached(q, qb) THEN 0
    ELSE Greatest(0, MaxBatchAge - q[1].age)

\* takeBatch: the greedy prefix of n entries, never empty.
IsBatch(q, n) ==
    /\ n \in 1..Len(q) /\ n <= MaxBatchRows
    /\ n > 1 => Bytes(SubSeq(q, 1, n)) <= MaxBatchBytes
    /\ (n < Len(q) /\ n < MaxBatchRows) => Bytes(SubSeq(q, 1, n + 1)) > MaxBatchBytes

\* runWorker from the test of its loop to its next await, with q in the queue.
RunWorker(q, qb, blocked, d) ==
    LET wait == WaitBeforeNextAttempt(q, qb, tokenWait, blocked, d)
    IN  IF q = <<>> \/ abandonInFlight
        THEN /\ worker' = "ended" /\ sleep' = 0 /\ UNCHANGED tokenWait
             /\ queue' = q /\ queuedBytes' = qb /\ inFlight' = <<>>
        ELSE IF wait > 0
        THEN /\ worker' = "waiting" /\ sleep' = wait /\ UNCHANGED tokenWait
             /\ queue' = q /\ queuedBytes' = qb /\ inFlight' = <<>>
        ELSE /\ worker' = "exporting" /\ sleep' = 0 /\ tokenWait' = Period
             /\ \E n \in 1..Len(q) :
                    /\ IsBatch(q, n)
                    /\ inFlight' = SubSeq(q, 1, n)
                    /\ queue' = SubSeq(q, n + 1, Len(q))
                    /\ queuedBytes' = qb - Bytes(SubSeq(q, 1, n))

\* Mutant: nobody wakes the worker.
WakeNobody == sleep' = sleep

\* wake: the wait of the worker is over.
Wake == sleep' = 0

\* wake and ensureWorker, with q in the queue.
EnsureWorker(q, qb, d) ==
    IF worker # "none" \/ q = <<>>
    THEN /\ Wake
         /\ queue' = q /\ queuedBytes' = qb
         /\ UNCHANGED <<inFlight, worker, tokenWait>>
    ELSE RunWorker(q, qb, backoff, d)

\* Mutant: a drain that waits is never told.
NotifyNobody(q, f) == drain' = drain

\* notifyEmpty: a drain that waits for an empty buffer has it.
NotifyEmpty(q, f) ==
    drain' = IF drain = "waiting" /\ PendingRows(q, f) = 0 THEN "drained" ELSE drain

-----------------------------------------------------------------------------
(* Ingress. *)

\* The rows that fit a batch; the others are rejected.
Fitting(sizes) ==
    LET fit[i \in 0..Len(sizes)] ==
            IF i = 0 THEN <<>>
            ELSE IF sizes[i] <= MaxBatchBytes THEN Append(fit[i - 1], sizes[i])
            ELSE fit[i - 1]
    IN  fit[Len(sizes)]

\* Mutant: the rows of the envelope are not counted against the limit.
HasRoomForOne(entries) == PendingRows(queue, inFlight) < MaxQueueRows

HasRoom(entries) ==
    /\ PendingRows(queue, inFlight) + Len(entries) <= MaxQueueRows
    /\ PendingBytes + Bytes(entries) <= MaxQueueBytes

Enqueue(sizes) ==
    LET rows    == Fitting(sizes)
        entries == [i \in 1..Len(rows) |->
                       [id |-> accepted + i, bytes |-> rows[i], age |-> 0]]
    IN  /\ ~exited /\ drain = "none"
        /\ rows # <<>>
        /\ HasRoom(entries)
        /\ accepted + Len(rows) <= MaxAccepted
        /\ accepted' = accepted + Len(rows)
        /\ EnsureWorker(queue \o entries, queuedBytes + Bytes(entries), "none")
        /\ UNCHANGED <<pace, drain, abandonInFlight, exited, committed, dropped, unknown>>

-----------------------------------------------------------------------------
(* Exports. *)

\* The wait of the worker ends.
Resume ==
    /\ ~exited /\ worker = "waiting" /\ sleep = 0
    /\ RunWorker(queue, queuedBytes, backoff, drain)
    /\ UNCHANGED <<pace, drain, abandonInFlight, exited, ledger>>

\* exponentialBackoff of the next streak: min(MaxBackoff, Backoff * 2^(streak - 1)).
Doubled == IF exponential = 0 THEN Backoff ELSE Least(MaxBackoff, 2 * exponential)

\* The rest of the iteration after handleExportResult: inFlight is emptied,
\* a waiting drain is told, and the loop goes on with q in the queue.
NextIteration(q, qb, blocked) ==
    /\ NotifyEmpty(q, <<>>)
    /\ RunWorker(q, qb, blocked, drain)
    /\ UNCHANGED <<abandonInFlight, exited, accepted, unknown>>

\* handleExportResult of an export that is over: committed, or failed or
\* committed short.
ExportSettled(ok) ==
    /\ ~exited /\ worker = "exporting" /\ ~abandonInFlight
    /\ committed' = IF ok THEN committed + Len(inFlight) ELSE committed
    /\ dropped'   = IF ok THEN dropped ELSE dropped + Len(inFlight)
    /\ backoff' = 0 /\ exponential' = 0
    /\ NextIteration(queue, queuedBytes, 0)

\* Mutant: the batch goes to the end of the queue.
RequeuedLast == queue \o inFlight

Requeued == inFlight \o queue

\* Mutant: the bytes of a batch are not counted again.
RequeuedBytesLost == queuedBytes

RequeuedBytes == queuedBytes + Bytes(inFlight)

\* handleExportResult of a rate-limited export.
ExportRateLimited(retryAfter) ==
    /\ ~exited /\ worker = "exporting" /\ ~abandonInFlight
    /\ exponential' = Doubled
    /\ backoff' = Greatest(Doubled, Least(MaxBackoff, retryAfter))
    /\ NextIteration(Requeued, RequeuedBytes, Greatest(Doubled, Least(MaxBackoff, retryAfter)))
    /\ UNCHANGED <<committed, dropped>>

\* An export ends after a drain gave it up.
ExportAbandoned ==
    /\ ~exited /\ worker = "exporting" /\ abandonInFlight
    /\ inFlight' = <<>> /\ worker' = "ended"
    /\ UNCHANGED <<queue, queuedBytes, sleep, tokenWait, pace, drain,
                   abandonInFlight, exited, ledger>>

\* Mutant: the worker is not started again for rows that came meanwhile.
RestartsNever == FALSE

Restarts == queue # <<>> /\ ~abandonInFlight

\* The finally block of the worker.
WorkerFinally ==
    /\ ~exited /\ worker = "ended"
    /\ IF Restarts
       THEN RunWorker(queue, queuedBytes, backoff, drain)
       ELSE worker' = "none" /\ UNCHANGED <<pool, sleep, tokenWait>>
    /\ NotifyEmpty(queue, inFlight)
    /\ UNCHANGED <<pace, abandonInFlight, exited, ledger>>

-----------------------------------------------------------------------------
(* Shutdown. *)

\* Mutant: rows in flight are taken for exported.
DrainBeginsQueueOnly ==
    /\ ~exited /\ drain = "none"
    /\ drain' = IF queue = <<>> THEN "drained" ELSE "waiting"
    /\ EnsureWorker(queue, queuedBytes, "waiting")
    /\ UNCHANGED <<pace, abandonInFlight, exited, ledger>>

\* The first signal: drain up to its race.  Later signals are ignored.
DrainBegins ==
    /\ ~exited /\ drain = "none"
    /\ drain' = IF PendingRows(queue, inFlight) = 0 THEN "drained" ELSE "waiting"
    /\ EnsureWorker(queue, queuedBytes, "waiting")
    /\ UNCHANGED <<pace, abandonInFlight, exited, ledger>>

\* Mutant: rows in flight are forgotten.
DrainTimesOutSilent ==
    /\ ~exited /\ drain = "waiting"
    /\ drain' = "timedOut"
    /\ dropped' = dropped + Len(queue)
    /\ queue' = <<>> /\ queuedBytes' = 0 /\ inFlight' = <<>>
    /\ abandonInFlight' = TRUE
    /\ Wake
    /\ UNCHANGED <<worker, tokenWait, pace, exited, accepted, committed, unknown>>

\* The timeout of drain, and the rest of it.
DrainTimesOut ==
    /\ ~exited /\ drain = "waiting"
    /\ drain' = "timedOut"
    /\ dropped' = dropped + Len(queue)
    /\ unknown' = unknown + Len(inFlight)
    /\ queue' = <<>> /\ queuedBytes' = 0 /\ inFlight' = <<>>
    /\ abandonInFlight' = TRUE
    /\ Wake
    /\ UNCHANGED <<worker, tokenWait, pace, exited, accepted, committed>>

\* The receipt is reported and the process exits, with 0 if drained.
Exit ==
    /\ ~exited /\ drain \in {"drained", "timedOut"}
    /\ exited' = TRUE
    /\ UNCHANGED <<pool, loop, pace, drain, abandonInFlight, ledger>>

-----------------------------------------------------------------------------
Older(entries) ==
    [i \in DOMAIN entries |->
        [entries[i] EXCEPT !.age = Least(MaxBatchAge, @ + 1)]]

\* Mutant: the bucket fills beyond its one token.
LeftUncapped(n) == n - 1

\* What is left of a wait after a tick: never less than nothing.
Left(n) == Greatest(0, n - 1)

Tick ==
    /\ ~exited
    /\ queue' = Older(queue) /\ inFlight' = Older(inFlight)
    /\ sleep'     = Left(sleep)
    /\ tokenWait' = Left(tokenWait)
    /\ backoff'   = Left(backoff)
    /\ UNCHANGED <<queuedBytes, worker, exponential, drain, abandonInFlight, exited, ledger>>

Next ==
    \/ \E sizes \in Envelopes : Enqueue(sizes)
    \/ Resume \/ WorkerFinally
    \/ \E ok \in BOOLEAN : ExportSettled(ok)
    \/ \E after \in RetryAfters : ExportRateLimited(after)
    \/ ExportAbandoned
    \/ DrainBegins \/ DrainTimesOut \/ Exit
    \/ Tick

Spec == Init /\ [][Next]_vars

\* Time passes, continuations run, every export is answered, and the endpoint
\* does not rate-limit for ever.  Nothing is assumed of the timeout of drain.
Fairness ==
    /\ WF_vars(Tick) /\ WF_vars(Resume) /\ WF_vars(WorkerFinally)
    /\ SF_vars(\E ok \in BOOLEAN : ExportSettled(ok))
    /\ WF_vars(ExportAbandoned) /\ WF_vars(Exit)

FairSpec == Spec /\ Fairness

-----------------------------------------------------------------------------
(* Properties. *)

Entries == [id : Nat, bytes : Nat, age : Nat]

\* The state of core.ts is well formed; no wait is negative.
TypeOK ==
    /\ queue \in Seq(Entries) /\ inFlight \in Seq(Entries)
    /\ worker \in {"none", "waiting", "exporting", "ended"}
    /\ sleep \in Nat /\ tokenWait \in Nat /\ backoff \in Nat /\ exponential \in Nat
    /\ drain \in {"none", "waiting", "drained", "timedOut"}
    /\ abandonInFlight \in BOOLEAN /\ exited \in BOOLEAN
    /\ accepted \in Nat /\ committed \in Nat /\ dropped \in Nat /\ unknown \in Nat

\* Every accepted row is committed, dropped, of unknown outcome or still in the
\* buffer, and counted once: "the accepted/committed/dropped ledger makes
\* managed loss visible" (README.md of the package).
LedgerBalances ==
    accepted = committed + dropped + unknown + PendingRows(queue, inFlight)

Ordered(entries) ==
    \A i, j \in DOMAIN entries : i < j => entries[i].id < entries[j].id

\* Rows leave in the order of acceptance: "A 429 requeues the old batch ahead
\* of rows accepted during backoff" (README.md of the package).
FirstInFirstOut == Ordered(inFlight \o queue)

\* What is pending fits the limit of rows, requeued rows included, and no
\* export has more rows than a batch may have.
RowsWithinLimits ==
    /\ PendingRows(queue, inFlight) <= MaxQueueRows
    /\ Len(inFlight) <= MaxBatchRows

\* queuedBytes is the size of the queue after every take and requeue, so that
\* what is pending and what is exported fit the limits of bytes.
BytesWithinLimits ==
    /\ queuedBytes = Bytes(queue)
    /\ PendingBytes <= MaxQueueBytes
    /\ Bytes(inFlight) <= MaxBatchBytes

\* A process that exits with 0 has lost no row to its shutdown: nothing was
\* pending, nothing was given up (signalDrain.ts:30).
DrainedMeansEmpty ==
    drain = "drained" => PendingRows(queue, inFlight) = 0 /\ unknown = 0

\* The worker never sleeps past the moment an attempt is due: whatever makes
\* one due earlier (a full batch, a drain) wakes it.
NoOversleep ==
    (worker = "waiting" /\ queue # <<>>) =>
        sleep <= WaitBeforeNextAttempt(queue, queuedBytes, tokenWait, backoff, drain)

\* No row is stranded: the buffer empties again and again, even for rows that
\* come while the worker is on its way out (core.ts:229).
NothingIsStranded == []<>(PendingRows(queue, inFlight) = 0)

\* A drain comes to its end without its timeout.
DrainEnds == drain = "waiting" ~> drain # "waiting"

=============================================================================
