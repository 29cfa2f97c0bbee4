---------------------------- MODULE DurableTasks ----------------------------
(***************************************************************************)
(* RFC 073 durable tasks (packages/server/src/services/durableTasks.ts):   *)
(* a task row is written, already claimed, in the transaction that needs   *)
(* the follow-up work; the request runs it inline; any replica recovers it *)
(* once its lease has expired.  Every write of an attempt is fenced on     *)
(* (claimed_by, attempts).                                                 *)
(*                                                                         *)
(* Time.  lease[t] is lease_until - now, counted down by Tick and held at  *)
(* -1 once past, so "lease_until < now" is lease[t] < 0; keep[t] is the    *)
(* same for the retention of a finished row.  The order in which expired   *)
(* leases are picked up (ORDER BY lease_until) is left open.  Replicas'    *)
(* clocks agree.                                                           *)
(*                                                                         *)
(* Runners.  A run of an attempt belongs to a runner: the task itself      *)
(* stands for its inline run, a replica for its recovery loop.  The claim  *)
(* token "<worker>:<uuid>" is the pair <<runner, attempt>>, as unique      *)
(* within a row as the uuid.                                               *)
(***************************************************************************)
EXTENDS Integers, FiniteSets

CONSTANTS
    Tasks,          \* rows that may be created
    Replicas,       \* server replicas running the recovery loop
    Kinds,          \* task kinds
    KindOf,         \* KindOf[t]: the kind of task t
    Known,          \* Known[r]: the kinds registered on replica r
    MaxAttempts,    \* MaxAttempts[k], LeaseMs[k]: definition of kind k
    LeaseMs,
    BackoffMs,      \* BackoffMs[k]: delay before a failed attempt is due again
    Retention,      \* DURABLE_TASK_RETENTION_MS
    MaxLosses,      \* bound: crashes and database errors in a behaviour
    Leaving,        \* replicas whose recovery loop may be stopped
    None            \* no claimant, no task

Runners == Tasks \cup Replicas

ASSUME ConstantsAssumption ==
    /\ KindOf \in [Tasks -> Kinds]
    /\ Known \in [Replicas -> SUBSET Kinds]
    /\ MaxAttempts \in [Kinds -> Nat \ {0}]
    /\ LeaseMs \in [Kinds -> Nat]
    /\ BackoffMs \in [Kinds -> Nat]
    /\ Retention \in Nat
    /\ MaxLosses \in Nat
    /\ Leaving \subseteq Replicas
    /\ Tasks \cap Replicas = {}
    \* a registry is a finite map, so one of its leases is the longest
    /\ \A r \in Replicas : Known[r] # {} =>
           \E k \in Known[r] : \A j \in Known[r] : LeaseMs[j] <= LeaseMs[k]
    /\ None \notin Tasks \cup (Runners \X Nat)

VARIABLES
    state, attempts, claimedBy, lease, keep,   \* the columns of the row of a task
    pc,         \* pc[w]: where runner w stands
    task,       \* task[w]: the task of the claim runner w holds
    attempt,    \* attempt[w]: the attempt number of that claim
    stopped,    \* replicas whose recovery loop was stopped
    handled,    \* history: tasks whose handler has completed once
    losses      \* crashes and database errors so far

rowVars == <<state, attempts, claimedBy, lease, keep>>
runVars == <<pc, task, attempt>>
vars    == <<rowVars, runVars, stopped, handled, losses>>

Results == {"ok", "retryable", "permanent"}
Busy    == {"handling"} \cup Results

\* A runner has a claim and has not yet recorded its outcome.
Running(w) == pc[w] \in Busy

\* The longest lease among the kinds replica r has registered.
ProvisionalLease(r) ==
    LET leases == {LeaseMs[k] : k \in Known[r]}
    IN  CHOOSE m \in leases : \A n \in leases : n <= m

Init ==
    /\ state = [t \in Tasks |-> "absent"]
    /\ attempts = [t \in Tasks |-> 0]
    /\ claimedBy = [t \in Tasks |-> None]
    /\ lease = [t \in Tasks |-> -1]
    /\ keep = [t \in Tasks |-> -1]
    /\ pc = [w \in Runners |-> "idle"]
    /\ task = [w \in Runners |-> None]
    /\ attempt = [w \in Runners |-> 0]
    /\ stopped = {}
    /\ handled = {}
    /\ losses = 0

-----------------------------------------------------------------------------
(* Producer and the run of an attempt. *)

\* createDurableTask, and the start of the inline run after the commit.
CreateDurableTask(t) ==
    /\ state[t] = "absent"
    /\ state' = [state EXCEPT ![t] = "open"]
    /\ attempts' = [attempts EXCEPT ![t] = 1]
    /\ claimedBy' = [claimedBy EXCEPT ![t] = <<t, 1>>]
    /\ lease' = [lease EXCEPT ![t] = LeaseMs[KindOf[t]]]
    /\ pc' = [pc EXCEPT ![t] = "handling"]
    /\ task' = [task EXCEPT ![t] = t]
    /\ attempt' = [attempt EXCEPT ![t] = 1]
    /\ UNCHANGED <<keep, stopped, handled, losses>>

\* Mutant: writes that check the state of the row only.
FencedUnchecked(w) == state[task[w]] = "open"

\* The WHERE clause of every write after a claim.
Fenced(w) ==
    LET t == task[w]
    IN  /\ state[t] = "open"
        /\ claimedBy[t] = <<w, attempt[w]>>
        /\ attempts[t] = attempt[w]

\* The handler extends its lease; a fenced-out attempt changes nothing.
ExtendDurableTaskLease(w) ==
    /\ pc[w] = "handling"
    /\ Fenced(w)
    /\ lease' = [lease EXCEPT ![task[w]] = LeaseMs[KindOf[task[w]]]]
    /\ UNCHANGED <<state, attempts, claimedBy, keep, runVars, stopped, handled, losses>>

\* runDurableTask: the handler (or decode) returns or throws.
HandlerEnds(w, result) ==
    /\ pc[w] = "handling"
    /\ pc' = [pc EXCEPT ![w] = result]
    /\ handled' = IF result = "ok" THEN handled \cup {task[w]} ELSE handled
    /\ UNCHANGED <<rowVars, task, attempt, stopped, losses>>

\* After its run an inline runner is over; a recovery loop goes round again
\* unless it was stopped meanwhile.
AfterRun(w) == CASE w \in Tasks   -> "over"
                 [] w \in stopped -> "prune"
                 [] OTHER         -> "loop"

Succeed(t) ==
    /\ state' = [state EXCEPT ![t] = "succeeded"]
    /\ keep' = [keep EXCEPT ![t] = Retention]
    /\ UNCHANGED lease

Retry(t) ==
    /\ lease' = [lease EXCEPT ![t] = BackoffMs[KindOf[t]]]
    /\ UNCHANGED <<state, keep>>

GiveUp(t) ==
    /\ state' = [state EXCEPT ![t] = "needs_attention"]
    /\ UNCHANGED <<lease, keep>>

MayRetry(w) == pc[w] = "retryable" /\ attempt[w] < MaxAttempts[KindOf[task[w]]]

\* finishDurableTask: one fenced UPDATE; "fenced" leaves the row alone.
FinishDurableTask(w) ==
    /\ pc[w] \in Results
    /\ LET t == task[w]
       IN  \/ /\ Fenced(w)
              /\ claimedBy' = [claimedBy EXCEPT ![t] = None]
              /\ \/ pc[w] = "ok" /\ Succeed(t)
                 \/ pc[w] # "ok" /\ MayRetry(w) /\ Retry(t)
                 \/ pc[w] # "ok" /\ ~MayRetry(w) /\ GiveUp(t)
           \/ ~Fenced(w) /\ UNCHANGED <<claimedBy, state, lease, keep>>
    /\ pc' = [pc EXCEPT ![w] = AfterRun(w)]
    /\ UNCHANGED <<attempts, task, attempt, stopped, handled, losses>>

-----------------------------------------------------------------------------
(* The recovery loop of a replica (startDurableTaskRecovery, recover). *)

\* Start-up or the timer; "running || stopped" returns.
Recover(r) ==
    /\ pc[r] = "idle"
    /\ r \notin stopped
    /\ pc' = [pc EXCEPT ![r] = "loop"]
    /\ UNCHANGED <<rowVars, task, attempt, stopped, handled, losses>>

\* The leases that let recovery take a row over.
Expired(t) == lease[t] < 0

Spent(t) == attempts[t] >= MaxAttempts[KindOf[t]]

\* Mutant: the state of the row is not looked at.
SweptRowsAnyState == {t \in Tasks : state[t] # "absent" /\ Expired(t) /\ Spent(t)}

\* Rows the first UPDATE gives up on.  It does not look at the kind.
SweptRows == {t \in Tasks : state[t] = "open" /\ Expired(t) /\ Spent(t)}

\* Mutant: claimed_by is not set to null.
SweepKeepsClaim(r) ==
    /\ pc[r] = "loop"
    /\ Known[r] # {}
    /\ state' = [t \in Tasks |-> IF t \in SweptRows THEN "needs_attention" ELSE state[t]]
    /\ pc' = [pc EXCEPT ![r] = "swept"]
    /\ UNCHANGED <<attempts, claimedBy, lease, keep, task, attempt, stopped, handled, losses>>

\* claimExpiredDurableTasks, first UPDATE.
SweepSpent(r) ==
    /\ pc[r] = "loop"
    /\ Known[r] # {}
    /\ state' = [t \in Tasks |-> IF t \in SweptRows THEN "needs_attention" ELSE state[t]]
    /\ claimedBy' = [t \in Tasks |-> IF t \in SweptRows THEN None ELSE claimedBy[t]]
    /\ pc' = [pc EXCEPT ![r] = "swept"]
    /\ UNCHANGED <<attempts, lease, keep, task, attempt, stopped, handled, losses>>

\* Mutant: the sweep just before is trusted to have removed spent rows.
ClaimableNoBudget(r, t) == state[t] = "open" /\ Expired(t) /\ KindOf[t] \in Known[r]

\* Mutant: only rows somebody released are picked up.
ClaimableReleased(r, t) ==
    /\ state[t] = "open" /\ claimedBy[t] = None
    /\ Expired(t) /\ KindOf[t] \in Known[r]
    /\ attempts[t] < MaxAttempts[KindOf[t]]

\* Rows the second UPDATE may claim.
Claimable(r, t) ==
    /\ state[t] = "open"
    /\ Expired(t)
    /\ KindOf[t] \in Known[r]
    /\ attempts[t] < MaxAttempts[KindOf[t]]

\* Mutant: taking a row over does not count an attempt.
ClaimKeepsAttempt(r, t) ==
    /\ pc[r] = "swept"
    /\ Claimable(r, t)
    /\ claimedBy' = [claimedBy EXCEPT ![t] = <<r, attempts[t]>>]
    /\ lease' = [lease EXCEPT ![t] = ProvisionalLease(r)]
    /\ pc' = [pc EXCEPT ![r] = "claimed"]
    /\ task' = [task EXCEPT ![r] = t]
    /\ attempt' = [attempt EXCEPT ![r] = attempts[t]]
    /\ UNCHANGED <<state, attempts, keep, stopped, handled, losses>>

\* claimExpiredDurableTasks, second UPDATE: claims one row (LIMIT 1).
ClaimExpired(r, t) ==
    /\ pc[r] = "swept"
    /\ Claimable(r, t)
    /\ claimedBy' = [claimedBy EXCEPT ![t] = <<r, attempts[t] + 1>>]
    /\ attempts' = [attempts EXCEPT ![t] = @ + 1]
    /\ lease' = [lease EXCEPT ![t] = ProvisionalLease(r)]
    /\ pc' = [pc EXCEPT ![r] = "claimed"]
    /\ task' = [task EXCEPT ![r] = t]
    /\ attempt' = [attempt EXCEPT ![r] = attempts[t] + 1]
    /\ UNCHANGED <<state, keep, stopped, handled, losses>>

\* Nothing to claim (or no kind registered): the loop breaks.
ClaimNothing(r) ==
    /\ \/ pc[r] = "swept" /\ ~ \E t \in Tasks : Claimable(r, t)
       \/ pc[r] = "loop" /\ Known[r] = {}
    /\ pc' = [pc EXCEPT ![r] = "prune"]
    /\ UNCHANGED <<rowVars, task, attempt, stopped, handled, losses>>

\* The claimed row is read back and kept only if it still carries the token;
\* otherwise the call returns nothing and the loop breaks.
ReadClaim(r) ==
    /\ pc[r] = "claimed"
    /\ LET t == task[r]
       IN  \/ /\ state[t] # "deleted" /\ claimedBy[t] = <<r, attempt[r]>>
              /\ pc' = [pc EXCEPT ![r] = "handling"]
           \/ /\ ~(state[t] # "deleted" /\ claimedBy[t] = <<r, attempt[r]>>)
              /\ pc' = [pc EXCEPT ![r] = "prune"]
    /\ UNCHANGED <<rowVars, task, attempt, stopped, handled, losses>>

\* Succeeded rows past retention.
Prunable == {t \in Tasks : state[t] = "succeeded" /\ keep[t] < 0}

\* pruneDurableTasks, then observeDurableTasks (gauges only); the pass ends.
PruneDurableTasks(r) ==
    /\ pc[r] = "prune"
    /\ state' = [t \in Tasks |-> IF t \in Prunable THEN "deleted" ELSE state[t]]
    /\ pc' = [pc EXCEPT ![r] = "idle"]
    /\ UNCHANGED <<attempts, claimedBy, lease, keep, task, attempt, stopped, handled, losses>>

-----------------------------------------------------------------------------
(* Environment. *)

\* stop(): no further pass and no further claim; a run in progress goes on.
Stop(r) ==
    /\ r \in Leaving \ stopped
    /\ stopped' = stopped \cup {r}
    /\ UNCHANGED <<rowVars, runVars, handled, losses>>

\* The process crashes, or a database call throws out of the run: what the
\* runner held in memory is gone and the row keeps its claim.
Lose(w) ==
    /\ losses < MaxLosses
    /\ pc[w] \notin {"idle", "over"}
    /\ losses' = losses + 1
    /\ pc' = [pc EXCEPT ![w] = IF w \in Tasks THEN "over" ELSE "idle"]
    /\ UNCHANGED <<rowVars, task, attempt, stopped, handled>>

\* A deadline that has passed stays passed.
Down(n) == IF n < 0 THEN n ELSE n - 1

Tick ==
    /\ lease' = [t \in Tasks |-> Down(lease[t])]
    /\ keep' = [t \in Tasks |-> Down(keep[t])]
    /\ lease' # lease \/ keep' # keep
    /\ UNCHANGED <<state, attempts, claimedBy, runVars, stopped, handled, losses>>

RunStep(w) ==
    \/ \E result \in Results : HandlerEnds(w, result)
    \/ FinishDurableTask(w)

RecoveryStep(r) ==
    \/ Recover(r)
    \/ SweepSpent(r)
    \/ \E t \in Tasks : ClaimExpired(r, t)
    \/ ClaimNothing(r)
    \/ ReadClaim(r)
    \/ PruneDurableTasks(r)

Next ==
    \/ \E t \in Tasks : CreateDurableTask(t)
    \/ \E w \in Runners : ExtendDurableTaskLease(w) \/ RunStep(w) \/ Lose(w)
    \/ \E r \in Replicas : RecoveryStep(r) \/ Stop(r)
    \/ Tick

Spec == Init /\ [][Next]_vars

\* Time passes, handlers end, and the timer keeps starting the passes of a
\* replica that is not stopped.  No fairness for producers, lease extensions,
\* losses or stops.
Fairness ==
    /\ WF_vars(Tick)
    /\ \A w \in Runners : WF_vars(RunStep(w))
    /\ \A r \in Replicas : WF_vars(RecoveryStep(r))

FairSpec == Spec /\ Fairness

-----------------------------------------------------------------------------
(* Properties. *)

States == {"absent", "open", "succeeded", "needs_attention", "deleted"}
Places == {"idle", "loop", "swept", "claimed", "prune", "over"} \cup Busy

ColumnTypes ==
    /\ state \in [Tasks -> States]
    /\ attempts \in [Tasks -> Nat]
    /\ claimedBy \in [Tasks -> (Runners \X Nat) \cup {None}]
    /\ lease \in [Tasks -> Nat \cup {-1}]
    /\ keep \in [Tasks -> Nat \cup {-1}]
    /\ pc \in [Runners -> Places]
    /\ task \in [Runners -> Tasks \cup {None}]
    /\ attempt \in [Runners -> Nat]
    /\ stopped \subseteq Replicas
    /\ handled \subseteq Tasks
    /\ losses \in Nat

\* The columns of a row and the place of a runner are well formed; whichever
\* statement closes a row, the sweep included, it takes the claim off it.
TypeOK == ColumnTypes /\ \A t \in Tasks : claimedBy[t] # None => state[t] = "open"

\* No attempt of a task is run by two runners, however often leases expire
\* under runs that are still going on: the fencing token of a run is its own.
NoSharedAttempt ==
    \A v, w \in Runners :
        Running(v) /\ Running(w) /\ v # w /\ task[v] = task[w] => attempt[v] # attempt[w]

\* The number of attempts started never passes the budget written in the row.
BudgetRespected ==
    /\ \A t \in Tasks : attempts[t] <= MaxAttempts[KindOf[t]]
    /\ \A w \in Runners : Running(w) => attempt[w] <= attempts[task[w]]

\* A row says succeeded only if some attempt's handler returned normally.
SucceededWasHandled ==
    \A t \in Tasks : state[t] \in {"succeeded", "deleted"} => t \in handled

\* A claim is taken away from a runner only after its lease ran out: while the
\* lease holds, the claim leaves the row in no step but the claimant's own.
NoEarlyTakeover ==
    [][\A t \in Tasks :
          claimedBy[t] # None /\ lease[t] >= 0 /\ claimedBy'[t] # claimedBy[t] =>
              LET w == claimedBy[t][1] IN pc[w] \in Results /\ task[w] = t /\ pc'[w] # pc[w]]_vars

\* needs_attention rows are kept until somebody handles them, and a finished
\* row is never reopened or reclaimed.
FinishedIsFinal ==
    [][\A t \in Tasks :
          /\ state[t] = "needs_attention" => state'[t] = "needs_attention"
          /\ state[t] = "succeeded" => state'[t] \in {"succeeded", "deleted"}
          /\ state[t] \notin {"absent", "open"} => attempts'[t] = attempts[t]]_vars

\* Recoverable: some replica that stays knows the kind.
Recoverable(t) == \E r \in Replicas \ Leaving : KindOf[t] \in Known[r]

\* A task that was committed is eventually finished or handed to an operator,
\* whatever is lost on the way, if its handlers stop extending their leases.
EventuallySettled ==
    \A t \in Tasks : Recoverable(t) =>
        (state[t] = "open" ~> state[t] \in {"succeeded", "needs_attention", "deleted"})

-----------------------------------------------------------------------------
(* The inductive invariant behind the safety properties. *)

\* A runner that has claimed a row and not yet recorded an outcome.
Holding(w) == pc[w] \in Busy \cup {"claimed"}

RunsWellFormed ==
    \A w \in Runners : Holding(w) =>
        /\ task[w] \in Tasks
        /\ state[task[w]] # "absent"
        /\ attempt[w] \in 1..attempts[task[w]]
        /\ pc[w] = "ok" => task[w] \in handled

HeldAttemptsDistinct ==
    \A v, w \in Runners :
        Holding(v) /\ Holding(w) /\ v # w /\ task[v] = task[w] => attempt[v] # attempt[w]

\* A claimed row is open and carries the latest attempt number.
ClaimIsLatest ==
    \A t \in Tasks : claimedBy[t] # None =>
        state[t] = "open" /\ claimedBy[t][2] = attempts[t]

AbsentIsBlank == \A t \in Tasks : state[t] = "absent" => attempts[t] = 0

WithinBudget == \A t \in Tasks : attempts[t] <= MaxAttempts[KindOf[t]]

RowsWellFormed == ClaimIsLatest /\ AbsentIsBlank /\ WithinBudget /\ SucceededWasHandled

\* Runs and rows agree: every run holds an attempt its row has counted, no two
\* runs hold the same one, and a row's claim is its latest attempt.
IInv == ColumnTypes /\ RunsWellFormed /\ HeldAttemptsDistinct /\ RowsWellFormed
=============================================================================
