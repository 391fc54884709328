-------------------------- MODULE WaveOrchestrator --------------------------
(***************************************************************************)
(* One wave orchestrator and the most general client of it: app.go may     *)
(* call any of its methods at any time, in any order and any number of     *)
(* times (ticks, dialog keys, messages already in flight, the context      *)
(* menu), and the orchestrator itself is what has to keep the waves apart. *)
(***************************************************************************)
EXTENDS WaveOrchestratorOps

CONSTANT Plans   \* the plans an orchestrator may be created for

ASSUME PlansAssumption == Plans \subseteq Seq(Wave)

VARIABLE orch

Init == \E p \in Plans : orch = NewWaveOrchestrator(p)

StartNext       == orch' = StartNextWave(orch)
Complete(t)     == orch' = MarkTaskComplete(orch, t)
Fail(t)         == orch' = MarkTaskFailed(orch, t)
AskConfirm      == orch' = TakeConfirm(orch)
DeclineConfirm  == orch' = ResetConfirm(orch)
Retry           == orch' = RetryFailedTasks(orch)

Next == \/ StartNext
        \/ \E t \in TaskNumbers : Complete(t) \/ Fail(t)
        \/ AskConfirm
        \/ DeclineConfirm
        \/ Retry

Spec == Init /\ [][Next]_orch

----------------------------------------------------------------------------
(* Properties *)

TypeOK == orch \in Orchestrator

\* Once started, no wave the orchestrator declared over (wave_orchestrator.go,
\* checkWaveComplete) has a task that is running or never ran, and a wave is
\* the last one exactly when it ends as allComplete: allComplete is terminal
\* for the user (push and review), so it must not be reached from a middle wave.
OverMeansResolved ==
    orch.state \in {"waveComplete", "allComplete"} =>
        /\ \A t \in CurrentWaveTasks(orch) : Resolved(orch, t)
        /\ orch.state = "allComplete" <=> orch.currentWave + 1 >= Len(orch.plan)

\* An agent only runs for the wave the orchestrator shows as current: an
\* advance, a retry or a late start never leaves a task of another wave running.
RunningOnlyInCurrentWave ==
    \A t \in TaskNumbers : IsTaskRunning(orch, t) => t \in CurrentWaveTasks(orch)

\* A wave that is running has a running task, whose end will be noticed: a
\* running wave without one would never end, because only the end of a task
\* calls checkWaveComplete.  A wave without tasks is such a wave.
RunningWaveHasWork ==
    orch.state = "running" /\ CurrentWaveTasks(orch) # {} =>
        TasksWith(orch, "running") # {}

\* The one-shot latch of NeedsConfirm is set only while its own wave waits for
\* an answer.  A latch carried into the next wave would silence that wave's
\* dialog and leave the plan waiting for ever.
LatchBelongsToWave == orch.waitingForConfirm => orch.state = "waveComplete"

\* Wave barrier: every earlier wave has ended and no later wave has begun,
\* whatever the client calls; only a task number used in two waves is excused.
Barrier == InWaveOrder(orch)

\* No step skips a wave or goes back, and a wave is left only after every one
\* of its tasks has ended, whatever their numbers.
AdvanceOnlyWhenResolved ==
    [][orch'.currentWave # orch.currentWave =>
          /\ orch'.currentWave = orch.currentWave + 1
          /\ \A t \in CurrentWaveTasks(orch) : Resolved(orch, t)]_orch

----------------------------------------------------------------------------
(* The abstract specification the orchestrator implements *)

Abstract == INSTANCE WaveBarrier WITH plan <- orch.plan, outcome <- orch.taskStates

\* The orchestrator implements the wave barrier.
ImplementsBarrier == Abstract!Spec
=============================================================================
