------------------------- MODULE DurableTasksProofs -------------------------
(***************************************************************************)
(* Proofs about DurableTasks: the fencing invariant and the properties of  *)
(* the runs that follow from it, for every set of tasks and replicas,      *)
(* every budget and every lease.                                           *)
(***************************************************************************)
EXTENDS DurableTasks, TLAPS

\* The provisional lease of a recovery claim is a length of time.
LEMMA ProvisionalLeaseNat ==
  ASSUME NEW r \in Replicas, Known[r] # {}
  PROVE  ProvisionalLease(r) \in Nat
<1> DEFINE leases == {LeaseMs[k] : k \in Known[r]}
<1>1. PICK k \in Known[r] : \A j \in Known[r] : LeaseMs[j] <= LeaseMs[k]
  BY ConstantsAssumption
<1>2. LeaseMs[k] \in leases /\ \A n \in leases : n <= LeaseMs[k]
  BY <1>1
<1>3. ProvisionalLease(r) \in leases
  BY <1>2 DEF ProvisionalLease
<1>4. leases \subseteq Nat
  BY ConstantsAssumption
<1> QED
  BY <1>3, <1>4

\* The initial state has no row and no run.
LEMMA InitIInv == Init => IInv
  BY ConstantsAssumption
  DEF Init, IInv, ColumnTypes, RunsWellFormed, HeldAttemptsDistinct, ClaimIsLatest, AbsentIsBlank,
      WithinBudget, SucceededWasHandled, RowsWellFormed, Holding, States, Places, Busy, Results, Runners

\* Every step keeps the variables in their types.
LEMMA NextColumnTypes == IInv /\ [Next]_vars => ColumnTypes'
<1> SUFFICES ASSUME IInv, [Next]_vars PROVE ColumnTypes'
  OBVIOUS
<1> USE ConstantsAssumption DEF IInv, ColumnTypes, RunsWellFormed, Holding, States, Places, Busy,
        Results, Runners, rowVars, runVars
<1>1. CASE UNCHANGED vars
  BY <1>1 DEF vars
<1>2. ASSUME NEW t \in Tasks, CreateDurableTask(t) PROVE ColumnTypes'
  BY <1>2 DEF CreateDurableTask
<1>3. ASSUME NEW w \in Runners, ExtendDurableTaskLease(w) PROVE ColumnTypes'
  BY <1>3 DEF ExtendDurableTaskLease
<1>4. ASSUME NEW w \in Runners, NEW result \in Results, HandlerEnds(w, result) PROVE ColumnTypes'
  BY <1>4 DEF HandlerEnds
<1>5. ASSUME NEW w \in Runners, FinishDurableTask(w) PROVE ColumnTypes'
  <2>1. AfterRun(w) \in Places
    BY DEF AfterRun
  <2>2. pc' \in [Runners -> Places]
    BY <1>5, <2>1 DEF FinishDurableTask
  <2>3. task[w] \in Tasks
    BY <1>5 DEF FinishDurableTask
  <2>4. CASE Fenced(w)
    <3>1. claimedBy' \in [Tasks -> (Runners \X Nat) \cup {None}]
      BY <1>5, <2>3, <2>4 DEF FinishDurableTask
    <3>2. state' \in [Tasks -> States] /\ lease' \in [Tasks -> Nat \cup {-1}]
                                     /\ keep' \in [Tasks -> Nat \cup {-1}]
      <4>1. \/ Succeed(task[w]) \/ Retry(task[w]) \/ GiveUp(task[w])
        BY <1>5, <2>4 DEF FinishDurableTask
      <4>2. CASE Succeed(task[w])
        BY <2>3, <4>2 DEF Succeed
      <4>3. CASE Retry(task[w])
        BY <2>3, <4>3 DEF Retry
      <4>4. CASE GiveUp(task[w])
        BY <2>3, <4>4 DEF GiveUp
      <4> QED
        BY <4>1, <4>2, <4>3, <4>4
    <3> QED
      BY <1>5, <2>2, <3>1, <3>2 DEF FinishDurableTask
  <2>5. CASE ~Fenced(w)
    BY <1>5, <2>2, <2>5 DEF FinishDurableTask
  <2> QED
    BY <2>4, <2>5
<1>6. ASSUME NEW w \in Runners, Lose(w) PROVE ColumnTypes'
  BY <1>6 DEF Lose
<1>7. ASSUME NEW r \in Replicas, Recover(r) PROVE ColumnTypes'
  BY <1>7 DEF Recover
<1>8. ASSUME NEW r \in Replicas, SweepSpent(r) PROVE ColumnTypes'
  BY <1>8 DEF SweepSpent
<1>9. ASSUME NEW r \in Replicas, NEW t \in Tasks, ClaimExpired(r, t) PROVE ColumnTypes'
  <2>1. ProvisionalLease(r) \in Nat
    BY <1>9, ProvisionalLeaseNat DEF ClaimExpired, Claimable
  <2> QED
    BY <1>9, <2>1 DEF ClaimExpired
<1>10. ASSUME NEW r \in Replicas, ClaimNothing(r) PROVE ColumnTypes'
  BY <1>10 DEF ClaimNothing
<1>11. ASSUME NEW r \in Replicas, ReadClaim(r) PROVE ColumnTypes'
  BY <1>11 DEF ReadClaim
<1>12. ASSUME NEW r \in Replicas, PruneDurableTasks(r) PROVE ColumnTypes'
  BY <1>12 DEF PruneDurableTasks
<1>13. ASSUME NEW r \in Replicas, Stop(r) PROVE ColumnTypes'
  BY <1>13 DEF Stop
<1>14. CASE Tick
  <2>1. \A n \in Nat \cup {-1} : Down(n) \in Nat \cup {-1}
    BY DEF Down
  <2>2. /\ lease' \in [Tasks -> Nat \cup {-1}]
        /\ keep' \in [Tasks -> Nat \cup {-1}]
    BY <1>14, <2>1 DEF Tick
  <2> QED
    BY <1>14, <2>2 DEF Tick
<1> HIDE DEF IInv, ColumnTypes, RunsWellFormed, Holding, States, Places, Busy, Results,
        rowVars, runVars
<1> QED
  BY <1>1, <1>2, <1>3, <1>4, <1>5, <1>6, <1>7, <1>8, <1>9, <1>10, <1>11, <1>12, <1>13, <1>14
  DEF Next, RunStep, RecoveryStep

\* A held claim names a row that exists and an attempt the row has counted.
LEMMA NextRuns == IInv /\ [Next]_vars => RunsWellFormed'
<1> SUFFICES ASSUME IInv, [Next]_vars PROVE RunsWellFormed'
  OBVIOUS
<1> USE ConstantsAssumption DEF IInv, ColumnTypes, RunsWellFormed, Holding, Busy,
        Results, Runners, rowVars, runVars
<1>1. CASE UNCHANGED vars
  BY <1>1 DEF vars
<1>2. ASSUME NEW t \in Tasks, CreateDurableTask(t) PROVE RunsWellFormed'
  BY <1>2 DEF CreateDurableTask
<1>3. ASSUME NEW w \in Runners, ExtendDurableTaskLease(w) PROVE RunsWellFormed'
  BY <1>3 DEF ExtendDurableTaskLease
<1>4. ASSUME NEW w \in Runners, NEW result \in Results, HandlerEnds(w, result) PROVE RunsWellFormed'
  BY <1>4 DEF HandlerEnds
<1>5. ASSUME NEW w \in Runners, FinishDurableTask(w) PROVE RunsWellFormed'
  BY <1>5 DEF FinishDurableTask, Fenced, Succeed, Retry, GiveUp, AfterRun
<1>6. ASSUME NEW w \in Runners, Lose(w) PROVE RunsWellFormed'
  BY <1>6 DEF Lose
<1>7. ASSUME NEW r \in Replicas, Recover(r) PROVE RunsWellFormed'
  BY <1>7 DEF Recover
<1>8. ASSUME NEW r \in Replicas, SweepSpent(r) PROVE RunsWellFormed'
  BY <1>8 DEF SweepSpent, SweptRows
<1>9. ASSUME NEW r \in Replicas, NEW t \in Tasks, ClaimExpired(r, t) PROVE RunsWellFormed'
  BY <1>9 DEF ClaimExpired, Claimable
<1>10. ASSUME NEW r \in Replicas, ClaimNothing(r) PROVE RunsWellFormed'
  BY <1>10 DEF ClaimNothing
<1>11. ASSUME NEW r \in Replicas, ReadClaim(r) PROVE RunsWellFormed'
  BY <1>11 DEF ReadClaim
<1>12. ASSUME NEW r \in Replicas, PruneDurableTasks(r) PROVE RunsWellFormed'
  BY <1>12 DEF PruneDurableTasks, Prunable
<1>13. ASSUME NEW r \in Replicas, Stop(r) PROVE RunsWellFormed'
  BY <1>13 DEF Stop
<1>14. CASE Tick
  BY <1>14 DEF Tick
<1> HIDE DEF IInv, ColumnTypes, RunsWellFormed, Holding, Busy, Results, rowVars, runVars
<1> QED
  BY <1>1, <1>2, <1>3, <1>4, <1>5, <1>6, <1>7, <1>8, <1>9, <1>10, <1>11, <1>12, <1>13, <1>14
  DEF Next, RunStep, RecoveryStep

\* A new claim takes an attempt number above that of every run of the task.
LEMMA NextDistinct == IInv /\ [Next]_vars => HeldAttemptsDistinct'
<1> SUFFICES ASSUME IInv, [Next]_vars PROVE HeldAttemptsDistinct'
  OBVIOUS
<1> USE ConstantsAssumption DEF IInv, ColumnTypes, RunsWellFormed, Holding, Busy,
        Results, Runners, rowVars, runVars, HeldAttemptsDistinct
<1>1. CASE UNCHANGED vars
  BY <1>1 DEF vars
<1>2. ASSUME NEW t \in Tasks, CreateDurableTask(t) PROVE HeldAttemptsDistinct'
  BY <1>2 DEF CreateDurableTask
<1>3. ASSUME NEW w \in Runners, ExtendDurableTaskLease(w) PROVE HeldAttemptsDistinct'
  BY <1>3 DEF ExtendDurableTaskLease
<1>4. ASSUME NEW w \in Runners, NEW result \in Results, HandlerEnds(w, result) PROVE HeldAttemptsDistinct'
  BY <1>4 DEF HandlerEnds
<1>5. ASSUME NEW w \in Runners, FinishDurableTask(w) PROVE HeldAttemptsDistinct'
  BY <1>5 DEF FinishDurableTask, Fenced, Succeed, Retry, GiveUp, AfterRun
<1>6. ASSUME NEW w \in Runners, Lose(w) PROVE HeldAttemptsDistinct'
  BY <1>6 DEF Lose
<1>7. ASSUME NEW r \in Replicas, Recover(r) PROVE HeldAttemptsDistinct'
  BY <1>7 DEF Recover
<1>8. ASSUME NEW r \in Replicas, SweepSpent(r) PROVE HeldAttemptsDistinct'
  BY <1>8 DEF SweepSpent, SweptRows
<1>9. ASSUME NEW r \in Replicas, NEW t \in Tasks, ClaimExpired(r, t) PROVE HeldAttemptsDistinct'
  BY <1>9 DEF ClaimExpired, Claimable
<1>10. ASSUME NEW r \in Replicas, ClaimNothing(r) PROVE HeldAttemptsDistinct'
  BY <1>10 DEF ClaimNothing
<1>11. ASSUME NEW r \in Replicas, ReadClaim(r) PROVE HeldAttemptsDistinct'
  BY <1>11 DEF ReadClaim
<1>12. ASSUME NEW r \in Replicas, PruneDurableTasks(r) PROVE HeldAttemptsDistinct'
  BY <1>12 DEF PruneDurableTasks, Prunable
<1>13. ASSUME NEW r \in Replicas, Stop(r) PROVE HeldAttemptsDistinct'
  BY <1>13 DEF Stop
<1>14. CASE Tick
  BY <1>14 DEF Tick
<1> HIDE DEF IInv, ColumnTypes, RunsWellFormed, Holding, Busy, Results, rowVars, runVars, HeldAttemptsDistinct
<1> QED
  BY <1>1, <1>2, <1>3, <1>4, <1>5, <1>6, <1>7, <1>8, <1>9, <1>10, <1>11, <1>12, <1>13, <1>14
  DEF Next, RunStep, RecoveryStep

\* What the rows say of their claims, budgets and results is kept.
LEMMA NextRows == IInv /\ [Next]_vars => RowsWellFormed'
<1> SUFFICES ASSUME IInv, [Next]_vars PROVE RowsWellFormed'
  OBVIOUS
<1> USE ConstantsAssumption DEF IInv, ColumnTypes, RunsWellFormed, Holding, Busy,
        Results, Runners, rowVars, runVars,
        RowsWellFormed, ClaimIsLatest, AbsentIsBlank, WithinBudget, SucceededWasHandled
<1>0. \A t \in Tasks : MaxAttempts[KindOf[t]] \in Nat /\ 1 <= MaxAttempts[KindOf[t]]
  OBVIOUS
<1>1. CASE UNCHANGED vars
  BY <1>1 DEF vars
<1>2. ASSUME NEW t \in Tasks, CreateDurableTask(t) PROVE RowsWellFormed'
  <2>1. ClaimIsLatest'
    BY <1>2 DEF CreateDurableTask
  <2>2. (AbsentIsBlank /\ SucceededWasHandled)'
    BY <1>2 DEF CreateDurableTask
  <2>3. WithinBudget'
    BY <1>0, <1>2 DEF CreateDurableTask
  <2> QED
    BY <2>1, <2>2, <2>3
<1>3. ASSUME NEW w \in Runners, ExtendDurableTaskLease(w) PROVE RowsWellFormed'
  BY <1>3 DEF ExtendDurableTaskLease
<1>4. ASSUME NEW w \in Runners, NEW result \in Results, HandlerEnds(w, result) PROVE RowsWellFormed'
  BY <1>4 DEF HandlerEnds
<1>5. ASSUME NEW w \in Runners, FinishDurableTask(w) PROVE RowsWellFormed'
  <2>1. CASE Fenced(w)
    <3>1. /\ task[w] \in Tasks
          /\ claimedBy' = [claimedBy EXCEPT ![task[w]] = None]
          /\ state[task[w]] = "open"
          /\ attempts' = attempts /\ handled' = handled
      BY <1>5, <2>1 DEF FinishDurableTask, Fenced
    <3>2. \/ pc[w] = "ok" /\ state' = [state EXCEPT ![task[w]] = "succeeded"]
          \/ state' = state
          \/ state' = [state EXCEPT ![task[w]] = "needs_attention"]
      BY <1>5, <2>1 DEF FinishDurableTask, Succeed, Retry, GiveUp
    <3>3. ClaimIsLatest'
      BY <3>1, <3>2
    <3>4. (AbsentIsBlank /\ WithinBudget)'
      BY <3>1, <3>2
    <3>5. SucceededWasHandled'
      BY <3>1, <3>2
    <3> QED
      BY <3>3, <3>4, <3>5
  <2>2. CASE ~Fenced(w)
    BY <1>5, <2>2 DEF FinishDurableTask
  <2> QED
    BY <2>1, <2>2
<1>6. ASSUME NEW w \in Runners, Lose(w) PROVE RowsWellFormed'
  BY <1>6 DEF Lose
<1>7. ASSUME NEW r \in Replicas, Recover(r) PROVE RowsWellFormed'
  BY <1>7 DEF Recover
<1>8. ASSUME NEW r \in Replicas, SweepSpent(r) PROVE RowsWellFormed'
  BY <1>8 DEF SweepSpent, SweptRows
<1>9. ASSUME NEW r \in Replicas, NEW t \in Tasks, ClaimExpired(r, t) PROVE RowsWellFormed'
  <2>1. ClaimIsLatest'
    BY <1>9 DEF ClaimExpired, Claimable
  <2>2. (AbsentIsBlank /\ SucceededWasHandled)'
    BY <1>9 DEF ClaimExpired, Claimable
  <2>3. WithinBudget'
    BY <1>0, <1>9 DEF ClaimExpired, Claimable
  <2> QED
    BY <2>1, <2>2, <2>3
<1>10. ASSUME NEW r \in Replicas, ClaimNothing(r) PROVE RowsWellFormed'
  BY <1>10 DEF ClaimNothing
<1>11. ASSUME NEW r \in Replicas, ReadClaim(r) PROVE RowsWellFormed'
  BY <1>11 DEF ReadClaim
<1>12. ASSUME NEW r \in Replicas, PruneDurableTasks(r) PROVE RowsWellFormed'
  BY <1>12 DEF PruneDurableTasks, Prunable
<1>13. ASSUME NEW r \in Replicas, Stop(r) PROVE RowsWellFormed'
  BY <1>13 DEF Stop
<1>14. CASE Tick
  BY <1>14 DEF Tick
<1> HIDE DEF IInv, ColumnTypes, RunsWellFormed, Holding, Busy, Results, rowVars, runVars,
        RowsWellFormed, ClaimIsLatest, AbsentIsBlank, WithinBudget, SucceededWasHandled
<1> QED
  BY <1>1, <1>2, <1>3, <1>4, <1>5, <1>6, <1>7, <1>8, <1>9, <1>10, <1>11, <1>12, <1>13, <1>14
  DEF Next, RunStep, RecoveryStep

\* The fencing invariant is inductive.
THEOREM FencingInvariant == Spec => []IInv
<1>1. Init => IInv
  BY InitIInv
<1>2. IInv /\ [Next]_vars => IInv'
  BY NextColumnTypes, NextRuns, NextDistinct, NextRows DEF IInv
<1> QED
  BY <1>1, <1>2, PTL DEF Spec

\* Type correctness, and that only an open row carries a claim.
THEOREM TypeCorrect == Spec => []TypeOK
<1>1. IInv => TypeOK
  BY DEF IInv, TypeOK, RowsWellFormed, ClaimIsLatest
<1> QED
  BY <1>1, FencingInvariant, PTL

\* No attempt of a task is ever run by two runners.
THEOREM AttemptsNotShared == Spec => []NoSharedAttempt
<1>1. IInv => NoSharedAttempt
  BY DEF IInv, HeldAttemptsDistinct, NoSharedAttempt, Holding, Running
<1> QED
  BY <1>1, FencingInvariant, PTL

\* No task is attempted more often than its budget allows.
THEOREM BudgetIsRespected == Spec => []BudgetRespected
<1>1. IInv => BudgetRespected
  BY DEF IInv, ColumnTypes, RowsWellFormed, WithinBudget, RunsWellFormed, BudgetRespected, Holding,
         Running
<1> QED
  BY <1>1, FencingInvariant, PTL

\* A row marked succeeded, or pruned, was handled.
THEOREM SuccessIsEarned == Spec => []SucceededWasHandled
<1>1. IInv => SucceededWasHandled
  BY DEF IInv, RowsWellFormed
<1> QED
  BY <1>1, FencingInvariant, PTL

\* While a lease holds, only the claimant's own finish takes the claim away.
THEOREM LeaseProtects == Spec => NoEarlyTakeover
<1> DEFINE A == \A t \in Tasks :
          claimedBy[t] # None /\ lease[t] >= 0 /\ claimedBy'[t] # claimedBy[t] =>
              LET w == claimedBy[t][1] IN pc[w] \in Results /\ task[w] = t /\ pc'[w] # pc[w]
<1>1. IInv /\ [Next]_vars => [A]_vars
  <2> SUFFICES ASSUME IInv, Next, NEW t \in Tasks, claimedBy[t] # None, lease[t] >= 0,
                      claimedBy'[t] # claimedBy[t]
               PROVE  LET w == claimedBy[t][1]
                      IN  pc[w] \in Results /\ task[w] = t /\ pc'[w] # pc[w]
    OBVIOUS
  <2>1. state[t] = "open" /\ claimedBy \in [Tasks -> (Runners \X Nat) \cup {None}] /\ lease[t] \in Int
    BY DEF IInv, ColumnTypes, RowsWellFormed, ClaimIsLatest
  <2>2. ASSUME NEW u \in Tasks, CreateDurableTask(u) PROVE FALSE
    BY <2>1, <2>2 DEF CreateDurableTask
  <2>3. ASSUME NEW r \in Replicas, SweepSpent(r) PROVE FALSE
    BY <2>1, <2>3 DEF SweepSpent, SweptRows, Expired
  <2>4. ASSUME NEW r \in Replicas, NEW u \in Tasks, ClaimExpired(r, u) PROVE FALSE
    BY <2>1, <2>4 DEF ClaimExpired, Claimable, Expired
  <2>5. ASSUME NEW w \in Runners, FinishDurableTask(w)
        PROVE  LET v == claimedBy[t][1]
               IN  pc[v] \in Results /\ task[v] = t /\ pc'[v] # pc[v]
    <3>1. Fenced(w) /\ task[w] = t
      BY <2>1, <2>5 DEF FinishDurableTask, IInv, RunsWellFormed, Holding, Busy
    <3>2. claimedBy[t][1] = w
      BY <3>1 DEF Fenced
    <3>3. pc'[w] = AfterRun(w)
      BY <2>5 DEF FinishDurableTask, IInv, ColumnTypes
    <3>4. AfterRun(w) \notin Results
      BY DEF AfterRun, Results
    <3> QED
      BY <2>5, <3>1, <3>2, <3>3, <3>4 DEF FinishDurableTask
  <2>6. \/ claimedBy' = claimedBy
        \/ \E u \in Tasks : CreateDurableTask(u)
        \/ \E w \in Runners : FinishDurableTask(w)
        \/ \E r \in Replicas : SweepSpent(r) \/ \E u \in Tasks : ClaimExpired(r, u)
    BY DEF Next, RunStep, RecoveryStep, ExtendDurableTaskLease, HandlerEnds, Lose, Recover,
           ClaimNothing, ReadClaim, PruneDurableTasks, Stop, Tick, rowVars
  <2> QED
    BY <2>2, <2>3, <2>4, <2>5, <2>6
<1> QED
  BY <1>1, FencingInvariant, PTL DEF Spec, NoEarlyTakeover

\* Rows under attention are kept, and a finished row is never reopened nor
\* claimed again: neither a late run, a sweep nor a claim touches one.
THEOREM FinishedStays == Spec => FinishedIsFinal
<1> DEFINE A == \A t \in Tasks :
          /\ state[t] = "needs_attention" => state'[t] = "needs_attention"
          /\ state[t] = "succeeded" => state'[t] \in {"succeeded", "deleted"}
          /\ state[t] \notin {"absent", "open"} => attempts'[t] = attempts[t]
<1>1. IInv /\ [Next]_vars => [A]_vars
  <2> SUFFICES ASSUME IInv, Next, NEW t \in Tasks, state[t] \notin {"absent", "open"}
               PROVE  /\ \/ state'[t] = state[t]
                         \/ state[t] = "succeeded" /\ state'[t] = "deleted"
                      /\ attempts'[t] = attempts[t]
    OBVIOUS
  <2> DEFINE Final == /\ \/ state'[t] = state[t]
                         \/ state[t] = "succeeded" /\ state'[t] = "deleted"
                      /\ attempts'[t] = attempts[t]
  <2>1. state \in [Tasks -> States] /\ attempts \in [Tasks -> Nat]
    BY DEF IInv, ColumnTypes
  <2>2. ASSUME NEW u \in Tasks, CreateDurableTask(u) PROVE Final
    BY <2>1, <2>2 DEF CreateDurableTask
  <2>3. ASSUME NEW w \in Runners, FinishDurableTask(w) PROVE Final
    <3>1. CASE Fenced(w)
      <4>1. state[task[w]] = "open"
        BY <3>1 DEF Fenced
      <4>2. t # task[w] /\ attempts' = attempts
        BY <2>3, <4>1 DEF FinishDurableTask
      <4>3. Succeed(task[w]) \/ Retry(task[w]) \/ GiveUp(task[w])
        BY <2>3, <3>1 DEF FinishDurableTask
      <4>4. state'[t] = state[t]
        BY <2>1, <4>2, <4>3 DEF Succeed, Retry, GiveUp
      <4> QED
        BY <4>2, <4>4
    <3>2. CASE ~Fenced(w)
      BY <2>3, <3>2 DEF FinishDurableTask
    <3> QED
      BY <3>1, <3>2
  <2>4. ASSUME NEW r \in Replicas, SweepSpent(r) PROVE Final
    BY <2>1, <2>4 DEF SweepSpent, SweptRows
  <2>5. ASSUME NEW r \in Replicas, NEW u \in Tasks, ClaimExpired(r, u) PROVE Final
    BY <2>1, <2>5 DEF ClaimExpired, Claimable
  <2>6. ASSUME NEW r \in Replicas, PruneDurableTasks(r) PROVE Final
    BY <2>1, <2>6 DEF PruneDurableTasks, Prunable
  <2>7. ASSUME UNCHANGED <<state, attempts>> PROVE Final
    BY <2>7
  <2>8. ASSUME NEW w \in Runners, ExtendDurableTaskLease(w) \/ Lose(w)
               \/ \E result \in Results : HandlerEnds(w, result)
        PROVE  UNCHANGED <<state, attempts>>
    BY <2>8 DEF ExtendDurableTaskLease, Lose, HandlerEnds, rowVars
  <2>9. ASSUME NEW r \in Replicas, Recover(r) \/ ClaimNothing(r) \/ ReadClaim(r) \/ Stop(r)
        PROVE  UNCHANGED <<state, attempts>>
    BY <2>9 DEF Recover, ClaimNothing, ReadClaim, Stop, rowVars
  <2>10. Tick => UNCHANGED <<state, attempts>>
    BY DEF Tick
  <2> HIDE DEF Final
  <2>11. Final
    BY <2>2, <2>3, <2>4, <2>5, <2>6, <2>7, <2>8, <2>9, <2>10 DEF Next, RunStep, RecoveryStep
  <2> QED
    BY <2>11 DEF Final
<1> QED
  BY <1>1, FencingInvariant, PTL DEF Spec, FinishedIsFinal
=============================================================================
