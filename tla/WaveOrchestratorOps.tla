------------------------ MODULE WaveOrchestratorOps ------------------------
(***************************************************************************)
(* The methods of app/wave_orchestrator.go as operators on one             *)
(* orchestrator, a record with the fields of the Go struct.  Every method  *)
(* that assigns a field returns the new record; every query returns what   *)
(* the method returns.  currentWave keeps its 0-indexed value, so wave     *)
(* number currentWave of the Go slice is plan[currentWave + 1] here.       *)
(*                                                                         *)
(* A plan is the sequence of its waves.  A wave has the number written in  *)
(* its "## Wave N" header (planparser takes it from the text, it need not  *)
(* be the wave's index) and the set of its task numbers, which may be      *)
(* empty: parseTasks accepts a wave section without tasks.                 *)
(***************************************************************************)
EXTENDS Integers, Sequences

CONSTANT TaskNumbers   \* the numbers a "### Task N:" header may carry

WaveState  == {"idle", "running", "waveComplete", "allComplete"}
TaskStatus == {"pending", "running", "complete", "failed"}

Wave == [number : Nat, tasks : SUBSET TaskNumbers]

Orchestrator == [plan              : Seq(Wave),
                 state             : WaveState,
                 currentWave       : Nat,
                 taskStates        : [TaskNumbers -> TaskStatus],
                 waitingForConfirm : BOOLEAN]

\* A Go map returns taskPending for a task number it does not hold.
NewWaveOrchestrator(plan) ==
    [plan |-> plan, state |-> "idle", currentWave |-> 0,
     taskStates |-> [t \in TaskNumbers |-> "pending"],
     waitingForConfirm |-> FALSE]

----------------------------------------------------------------------------
(* Queries *)

PastLastWave(o) == o.currentWave >= Len(o.plan)

CurrentWaveNumber(o) ==
    IF PastLastWave(o) THEN 0 ELSE o.plan[o.currentWave + 1].number

CurrentWaveTasks(o) ==
    IF PastLastWave(o) THEN {} ELSE o.plan[o.currentWave + 1].tasks

TasksWith(o, status) == {t \in CurrentWaveTasks(o) : o.taskStates[t] = status}

IsTaskRunning(o, t) == o.taskStates[t] = "running"

----------------------------------------------------------------------------
(* Mutating methods *)

\* Mutant: the wave ends with its first failure.
FailFastCheckWaveComplete(o) ==
    IF \/ PastLastWave(o)
       \/ /\ TasksWith(o, "failed") = {}
          /\ TasksWith(o, "running") \cup TasksWith(o, "pending") # {}
    THEN o
    ELSE [o EXCEPT !.state = IF o.currentWave + 1 >= Len(o.plan)
                             THEN "allComplete" ELSE "waveComplete"]

CheckWaveComplete(o) ==
    IF PastLastWave(o) \/ TasksWith(o, "running") \cup TasksWith(o, "pending") # {}
    THEN o
    ELSE [o EXCEPT !.state = IF o.currentWave + 1 >= Len(o.plan)
                             THEN "allComplete" ELSE "waveComplete"]

SetTasks(o, S, status) ==
    [o EXCEPT !.taskStates =
        [t \in TaskNumbers |-> IF t \in S THEN status ELSE o.taskStates[t]]]

\* Mutants: an advance out of a running wave; an advance that keeps the latch.
UnguardedEnterNextWave(o) ==
    IF o.state # "idle"
    THEN [o EXCEPT !.currentWave = o.currentWave + 1, !.waitingForConfirm = FALSE]
    ELSE o

LatchedEnterNextWave(o) ==
    IF o.state = "waveComplete"
    THEN [o EXCEPT !.currentWave = o.currentWave + 1]
    ELSE o

\* StartNextWave: the step to the next wave, taken only out of waveComplete.
EnterNextWave(o) ==
    IF o.state = "waveComplete"
    THEN [o EXCEPT !.currentWave = o.currentWave + 1, !.waitingForConfirm = FALSE]
    ELSE o

\* The wave EnterNextWave left current starts: all of its tasks are running.
\* There is no guard against a wave that is running already.
StartCurrentWave(o) ==
    IF PastLastWave(o)
    THEN [o EXCEPT !.state = "allComplete"]
    ELSE [SetTasks(o, CurrentWaveTasks(o), "running") EXCEPT !.state = "running"]

StartNextWave(o) ==
    IF o.state = "allComplete" THEN o ELSE StartCurrentWave(EnterNextWave(o))

\* The slice StartNextWave returns (nil and empty are both {}).
StartedTasks(o) ==
    IF o.state = "allComplete" THEN {} ELSE CurrentWaveTasks(EnterNextWave(o))

\* Mutant: the wave is not checked for its end.
UncheckedMarkTask(o, t, status) ==
    IF o.taskStates[t] = "running" THEN SetTasks(o, {t}, status) ELSE o

\* MarkTaskComplete and MarkTaskFailed differ in the status they assign.
MarkTask(o, t, status) ==
    IF o.taskStates[t] = "running"
    THEN CheckWaveComplete(SetTasks(o, {t}, status))
    ELSE o

\* Mutant: a status the other methods do not know.
DoneMarkTaskComplete(o, t) == MarkTask(o, t, "done")

MarkTaskComplete(o, t) == MarkTask(o, t, "complete")
MarkTaskFailed(o, t)   == MarkTask(o, t, "failed")

\* NeedsConfirm answers TRUE once and sets the latch in the same call.
NeedsConfirm(o) == o.state = "waveComplete" /\ ~o.waitingForConfirm
TakeConfirm(o)  ==
    [o EXCEPT !.waitingForConfirm = o.waitingForConfirm \/ NeedsConfirm(o)]
ResetConfirm(o) == [o EXCEPT !.waitingForConfirm = FALSE]

RetryFailedTasks(o) ==
    IF TasksWith(o, "failed") = {}
    THEN o
    ELSE ResetConfirm([SetTasks(o, TasksWith(o, "failed"), "running")
                         EXCEPT !.state = "running"])

----------------------------------------------------------------------------
(* What every method preserves, whatever the order of the calls *)

Resolved(o, t) == o.taskStates[t] \in {"complete", "failed"}

\* An orchestrator no client can leave by calling its methods: nothing ran
\* before the first wave started, a started wave has no task that never ran,
\* a running wave with tasks has a running one, a wave that is over has only
\* resolved ones and is the last exactly when all is complete, nothing runs
\* outside the current wave, and the latch is set only over a finished wave.
WellFormed(o) ==
    /\ o \in Orchestrator
    /\ o.state = "idle" =>
          o.currentWave = 0 /\ \A t \in TaskNumbers : o.taskStates[t] = "pending"
    /\ o.state = "running" =>
          /\ o.currentWave < Len(o.plan)
          /\ \A t \in CurrentWaveTasks(o) : o.taskStates[t] # "pending"
          /\ CurrentWaveTasks(o) # {} => TasksWith(o, "running") # {}
    /\ o.state \in {"waveComplete", "allComplete"} =>
          /\ \A t \in CurrentWaveTasks(o) : Resolved(o, t)
          /\ o.state = "allComplete" <=> o.currentWave + 1 >= Len(o.plan)
    /\ \A t \in TaskNumbers : IsTaskRunning(o, t) => t \in CurrentWaveTasks(o)
    /\ o.waitingForConfirm => o.state = "waveComplete"

\* The tasks of wave k whose number no other wave uses.  planparser lets a number
\* occur in two waves; the waves then share one status.
OwnTasks(plan, k) ==
    {t \in plan[k].tasks : \A j \in DOMAIN plan \ {k} : t \notin plan[j].tasks}

\* Every earlier wave has ended and no later wave has begun.
InWaveOrder(o) ==
    \A k \in DOMAIN o.plan : \A t \in OwnTasks(o.plan, k) :
        /\ k <= o.currentWave => Resolved(o, t)
        /\ k > o.currentWave + 1 => o.taskStates[t] = "pending"
=============================================================================
