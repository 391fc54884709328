----------------------- MODULE WaveOrchestratorProofs -----------------------
(***************************************************************************)
(* Proofs about WaveOrchestrator, for every set of task numbers and of     *)
(* plans: one orchestrator and its most general client.  What each method  *)
(* does to the record is in SharedProofs.                                  *)
(***************************************************************************)
EXTENDS WaveOrchestrator, SharedProofs

\* A step of the specification is a method call or a stutter.
LEMMA NextFollows ==
    ASSUME WellFormed(orch), [Next]_orch
    PROVE  Follows(orch, orch')
  <1>1. CASE StartNext
    BY <1>1, StartNextWaveFollows DEF StartNext
  <1>2. ASSUME NEW t \in TaskNumbers, Complete(t)
        PROVE  Follows(orch, orch')
    BY <1>2, MarkTaskFollows DEF Complete, MarkTaskComplete
  <1>3. ASSUME NEW t \in TaskNumbers, Fail(t)
        PROVE  Follows(orch, orch')
    BY <1>3, MarkTaskFollows DEF Fail, MarkTaskFailed
  <1>4. CASE AskConfirm
    BY <1>4, ConfirmFollows DEF AskConfirm
  <1>5. CASE DeclineConfirm
    BY <1>5, ConfirmFollows DEF DeclineConfirm
  <1>6. CASE Retry
    BY <1>6, RetryFollows DEF Retry
  <1>7. CASE UNCHANGED orch
    BY <1>7 DEF WellFormed, Follows, StatusStep
  <1>8. QED
    BY <1>1, <1>2, <1>3, <1>4, <1>5, <1>6, <1>7 DEF Next

----------------------------------------------------------------------------
(* Theorems of the specification *)

\* Whatever app.go calls, and in whatever order, an orchestrator stays well
\* formed: WellFormed(orch) is inductive on its own.
THEOREM WellFormedInvariant == Spec => []WellFormed(orch)
  <1>1. Init => WellFormed(orch)
    BY PlansAssumption, NewWellFormed DEF Init
  <1>2. WellFormed(orch) /\ [Next]_orch => WellFormed(orch)'
    <2> SUFFICES ASSUME WellFormed(orch), [Next]_orch
                 PROVE  WellFormed(orch')
      OBVIOUS
    <2>1. CASE StartNext
      BY <2>1, StartNextWaveWellFormed DEF StartNext
    <2>2. ASSUME NEW t \in TaskNumbers, Complete(t)
          PROVE  WellFormed(orch')
      BY <2>2, MarkTaskWellFormed DEF Complete, MarkTaskComplete
    <2>3. ASSUME NEW t \in TaskNumbers, Fail(t)
          PROVE  WellFormed(orch')
      BY <2>3, MarkTaskWellFormed DEF Fail, MarkTaskFailed
    <2>4. CASE AskConfirm
      BY <2>4, ConfirmWellFormed DEF AskConfirm
    <2>5. CASE DeclineConfirm
      BY <2>5, ConfirmWellFormed DEF DeclineConfirm
    <2>6. CASE Retry
      BY <2>6, RetryWellFormed DEF Retry
    <2>7. CASE UNCHANGED orch
      BY <2>7
    <2>8. QED
      BY <2>1, <2>2, <2>3, <2>4, <2>5, <2>6, <2>7 DEF Next
  <1>3. QED
    BY <1>1, <1>2, PTL DEF Spec

\* Type correctness.
THEOREM TypeCorrect == Spec => []TypeOK
  <1>1. WellFormed(orch) => TypeOK
    BY DEF WellFormed, TypeOK
  <1>2. QED
    BY <1>1, WellFormedInvariant, PTL

\* A wave that is over has no unresolved task, for every set of plans.
THEOREM OverMeansResolvedTheorem == Spec => []OverMeansResolved
  <1>1. WellFormed(orch) => OverMeansResolved
    BY DEF WellFormed, OverMeansResolved
  <1>2. QED
    BY <1>1, WellFormedInvariant, PTL

\* Only tasks of the current wave run, for every set of plans.
THEOREM RunningOnlyInCurrentWaveTheorem == Spec => []RunningOnlyInCurrentWave
  <1>1. WellFormed(orch) => RunningOnlyInCurrentWave
    BY DEF WellFormed, RunningOnlyInCurrentWave
  <1>2. QED
    BY <1>1, WellFormedInvariant, PTL

\* A running wave with tasks has one that runs, which will end it, for every set of plans.
THEOREM RunningWaveHasWorkTheorem == Spec => []RunningWaveHasWork
  <1>1. WellFormed(orch) => RunningWaveHasWork
    BY DEF WellFormed, RunningWaveHasWork
  <1>2. QED
    BY <1>1, WellFormedInvariant, PTL

\* The latch is only set where a question can be asked, for every set of plans.
THEOREM LatchBelongsToWaveTheorem == Spec => []LatchBelongsToWave
  <1>1. WellFormed(orch) => LatchBelongsToWave
    BY DEF WellFormed, LatchBelongsToWave
  <1>2. QED
    BY <1>1, WellFormedInvariant, PTL

\* No step skips a wave, goes back, or leaves a wave with an unresolved task.
THEOREM AdvanceOnlyWhenResolvedTheorem == Spec => AdvanceOnlyWhenResolved
  <1>1. WellFormed(orch) /\ [Next]_orch =>
           [orch'.currentWave # orch.currentWave =>
              /\ orch'.currentWave = orch.currentWave + 1
              /\ \A t \in CurrentWaveTasks(orch) : Resolved(orch, t)]_orch
    BY NextFollows DEF Follows
  <1>2. QED
    BY <1>1, WellFormedInvariant, PTL DEF Spec, AdvanceOnlyWhenResolved

\* Wave barrier, for every set of plans.
THEOREM BarrierTheorem == Spec => []Barrier
  <1>1. Init => Barrier
    BY PlansAssumption, NewWellFormed DEF Init, Barrier
  <1>2. WellFormed(orch) /\ Barrier /\ [Next]_orch => Barrier'
    <2> SUFFICES ASSUME WellFormed(orch), Barrier, [Next]_orch
                 PROVE  InWaveOrder(orch')
      BY DEF Barrier
    <2>1. Follows(orch, orch')
      BY NextFollows
    <2>2. QED
      BY <2>1, FollowsInWaveOrder DEF Barrier
  <1>3. QED
    BY <1>1, <1>2, WellFormedInvariant, PTL DEF Spec

\* The orchestrator implements WaveBarrier, for every set of plans: each
\* method call begins tasks of one wave between ended and untouched waves, ends
\* one task, or changes nothing WaveBarrier speaks of.
THEOREM Refinement == Spec => ImplementsBarrier
  <1>1. Init => Abstract!Init
    BY DEF Init, NewWaveOrchestrator, Abstract!Init
  <1>2. WellFormed(orch) /\ Barrier /\ Barrier' /\ [Next]_orch
          => [Abstract!Next]_Abstract!vars
    <2> SUFFICES ASSUME WellFormed(orch), Barrier, Barrier', [Next]_orch
                 PROVE  [Abstract!Next]_Abstract!vars
      OBVIOUS
    <2>1. Follows(orch, orch')
      BY NextFollows
    <2>2. /\ orch \in Orchestrator /\ orch' \in Orchestrator
          /\ orch'.plan = orch.plan
          /\ InWaveOrder(orch) /\ InWaveOrder(orch')
      BY <2>1 DEF WellFormed, Follows, Barrier
    <2>3. CASE orch'.taskStates = orch.taskStates
      BY <2>2, <2>3 DEF Abstract!vars
    <2>4. ASSUME NEW S \in SUBSET CurrentWaveTasks(orch'), S # {},
                 orch'.taskStates =
                    [t \in TaskNumbers |-> IF t \in S THEN "running" ELSE orch.taskStates[t]]
          PROVE  Abstract!Next
      <3> DEFINE k == orch'.currentWave + 1
      <3>1. /\ k \in 1 .. Len(orch.plan) /\ S \subseteq orch.plan[k].tasks
            /\ orch'.currentWave \in Nat /\ Len(orch.plan) \in Nat
        BY <2>2, <2>4 DEF CurrentWaveTasks, PastLastWave, Orchestrator
      <3>2. \A j \in DOMAIN orch.plan : orch.plan[j].tasks \subseteq TaskNumbers
        <4>1. \A j \in DOMAIN orch.plan : orch.plan[j] \in Wave
          BY <2>2 DEF Orchestrator
        <4>2. QED
          BY <4>1 DEF Wave
      <3>3. \A j \in 1 .. k - 1 : \A t \in OwnTasks(orch.plan, j) :
               orch.taskStates[t] \in {"complete", "failed"}
        <4> SUFFICES ASSUME NEW j \in 1 .. k - 1, NEW t \in OwnTasks(orch.plan, j)
                     PROVE  orch.taskStates[t] \in {"complete", "failed"}
          OBVIOUS
        <4>1. j \in DOMAIN orch.plan /\ j <= orch'.currentWave
          BY <2>2, <3>1 DEF Orchestrator
        <4>2. Resolved(orch', t)
          BY <2>2, <4>1 DEF InWaveOrder
        <4>3. t \in TaskNumbers
          BY <3>2, <4>1 DEF OwnTasks
        <4>4. QED
          BY <2>4, <4>2, <4>3 DEF Resolved
      <3>4. \A j \in k + 1 .. Len(orch.plan) : \A t \in OwnTasks(orch.plan, j) :
               orch.taskStates[t] = "pending"
        <4> SUFFICES ASSUME NEW j \in k + 1 .. Len(orch.plan), NEW t \in OwnTasks(orch.plan, j)
                     PROVE  orch.taskStates[t] = "pending"
          OBVIOUS
        <4>1. j \in DOMAIN orch.plan /\ j > orch'.currentWave + 1
          BY <2>2, <3>1 DEF Orchestrator
        <4>2. orch'.taskStates[t] = "pending"
          BY <2>2, <4>1 DEF InWaveOrder
        <4>3. t \in TaskNumbers
          BY <3>2, <4>1 DEF OwnTasks
        <4>4. QED
          BY <2>4, <4>2, <4>3
      <3>5. Abstract!Begin(k, S)
        BY <2>2, <2>4, <3>1, <3>3, <3>4
           DEF Abstract!Begin, Abstract!Tasks, Abstract!Own, Abstract!Ended, OwnTasks
      <3>6. k \in DOMAIN orch.plan /\ S \in SUBSET orch.plan[k].tasks
        BY <2>2, <3>1 DEF Orchestrator
      <3>7. QED
        BY <3>5, <3>6 DEF Abstract!Next, Abstract!Tasks
    <2>5. ASSUME NEW t \in CurrentWaveTasks(orch), NEW result \in {"complete", "failed"},
                 orch.taskStates[t] = "running",
                 orch'.taskStates =
                    [u \in TaskNumbers |-> IF u = t THEN result ELSE orch.taskStates[u]]
          PROVE  Abstract!Next
      <3>1. t \in TaskNumbers
        BY <2>2, CurrentWaveTasksType
      <3>2. orch'.taskStates = [orch.taskStates EXCEPT ![t] = result]
        BY <2>2, <2>5, <3>1 DEF Orchestrator
      <3>3. Abstract!End(t, result)
        BY <2>2, <2>5, <3>2 DEF Abstract!End
      <3>4. QED
        BY <3>1, <3>3 DEF Abstract!Next, Abstract!Ended
    <2>6. ASSUME NEW S \in SUBSET CurrentWaveTasks(orch'), S = {},
                 orch'.taskStates =
                    [t \in TaskNumbers |-> IF t \in S THEN "running" ELSE orch.taskStates[t]]
          PROVE  orch'.taskStates = orch.taskStates
      BY <2>2, <2>6 DEF Orchestrator
    <2>7. QED
      BY <2>1, <2>3, <2>4, <2>5, <2>6 DEF Follows, StatusStep
  <1>3. QED
    BY <1>1, <1>2, WellFormedInvariant, BarrierTheorem, PTL
       DEF Spec, ImplementsBarrier, Abstract!Spec
=============================================================================
