-------------------------- MODULE WaveControlProofs --------------------------
(***************************************************************************)
(* Proofs about WaveControl.  The invariants are built up in layers, each  *)
(* of which may use the ones before it: the orchestrator (whatever the     *)
(* constants are), then the dialogs of a wave and their answers, then the  *)
(* instances and sessions of its tasks.                                    *)
(***************************************************************************)
EXTENDS WaveControl, SharedProofs

----------------------------------------------------------------------------
(* The orchestrator *)

\* An orchestrator of the plan that is well formed and in wave order.
Ordered(o) == WellFormed(o) /\ InWaveOrder(o) /\ o.plan = Plan

\* A new one is.
LEMMA NewOrdered ==
    /\ Ordered(NewWaveOrchestrator(Plan))
    /\ NewWaveOrchestrator(Plan).state = "idle"
    /\ NewWaveOrchestrator(Plan).currentWave = 0
    /\ ~NewWaveOrchestrator(Plan).waitingForConfirm
  <1>1. Plan \in Seq(Wave)
    BY ControlAssumption
  <1>2. NewWaveOrchestrator(Plan).plan = Plan
    BY DEF NewWaveOrchestrator
  <1>3. Ordered(NewWaveOrchestrator(Plan))
    BY <1>1, <1>2, NewWellFormed DEF Ordered
  <1>4. QED
    BY <1>3 DEF NewWaveOrchestrator

\* The methods keep it so.
LEMMA MethodsKeepOrder ==
    ASSUME NEW o, Ordered(o)
    PROVE  /\ Ordered(StartNextWave(o))
           /\ Ordered(RetryFailedTasks(o))
           /\ Ordered(TakeConfirm(o))
           /\ Ordered(ResetConfirm(o))
           /\ \A t \in TaskNumbers : Ordered(MarkTaskComplete(o, t))
  <1>1. WellFormed(o) /\ InWaveOrder(o) /\ o.plan = Plan
    BY DEF Ordered
  <1>2. ASSUME NEW n, WellFormed(n), Follows(o, n)
        PROVE  Ordered(n)
    <2>1. n.plan = Plan
      BY <1>1, <1>2 DEF Follows
    <2>2. InWaveOrder(n)
      BY <1>1, <1>2, FollowsInWaveOrder
    <2>3. QED
      BY <1>2, <2>1, <2>2 DEF Ordered
  <1>3. Ordered(StartNextWave(o))
    BY <1>1, <1>2, StartNextWaveWellFormed, StartNextWaveFollows
  <1>4. Ordered(RetryFailedTasks(o))
    BY <1>1, <1>2, RetryWellFormed, RetryFollows
  <1>5. Ordered(TakeConfirm(o)) /\ Ordered(ResetConfirm(o))
    BY <1>1, <1>2, ConfirmWellFormed, ConfirmFollows
  <1>6. ASSUME NEW t \in TaskNumbers
        PROVE  Ordered(MarkTaskComplete(o, t))
    BY <1>1, <1>2, MarkTaskWellFormed, MarkTaskFollows DEF MarkTaskComplete
  <1>7. QED
    BY <1>3, <1>4, <1>5, <1>6

\* A series of ends keeps it so, and ends exactly the running tasks it names.
LEMMA ResolveFacts ==
    ASSUME NEW o, Ordered(o), NEW done, NEW lost, NEW n, n = Resolve(o, done, lost)
    PROVE  /\ Ordered(n)
           /\ n.currentWave = o.currentWave
           /\ n.waitingForConfirm <=> o.waitingForConfirm
           /\ \A t \in TaskNumbers : n.taskStates[t] =
                 IF o.taskStates[t] = "running" /\ t \in done THEN "complete"
                 ELSE IF o.taskStates[t] = "running" /\ t \in lost THEN "failed"
                 ELSE o.taskStates[t]
           /\ o.state # "running" => n = o
  <1> DEFINE running == TasksWith(o, "running")
             C == running \cap done
             F == running \cap (lost \ done)
  <1>1. WellFormed(o) /\ o \in Orchestrator /\ CurrentWaveTasks(o) \subseteq TaskNumbers
    BY CurrentWaveTasksType DEF Ordered, WellFormed
  <1>2. \A t \in TaskNumbers : t \in running <=> o.taskStates[t] = "running"
    BY <1>1 DEF WellFormed, IsTaskRunning, TasksWith
  <1>3. CASE running \cap (done \cup lost) = {}
    <2>1. n = o
      BY <1>3 DEF Resolve
    <2>2. QED
      BY <1>2, <1>3, <2>1
  <1>4. CASE running \cap (done \cup lost) # {}
    <2>1. n = CheckWaveComplete(SetTasks(SetTasks(o, C, "complete"), F, "failed"))
      BY <1>4 DEF Resolve
    <2>2. C \cup F \subseteq running /\ C \cup F # {}
      BY <1>4
    <2> HIDE DEF C, F
    <2>3. /\ WellFormed(n)
          /\ n.plan = o.plan
          /\ n.currentWave = o.currentWave
          /\ ~n.waitingForConfirm
          /\ InWaveOrder(o) => InWaveOrder(n)
          /\ \A t \in TaskNumbers : n.taskStates[t] =
                IF t \in F THEN "failed" ELSE IF t \in C THEN "complete" ELSE o.taskStates[t]
      BY <1>1, <2>1, <2>2, EndTasks
    <2>4. Ordered(n)
      BY <2>3 DEF Ordered
    <2>5. o.state = "running"
      <3>1. PICK t \in CurrentWaveTasks(o) : o.taskStates[t] = "running"
        BY <1>4 DEF TasksWith
      <3>2. QED
        BY <1>1, <3>1 DEF WellFormed, Resolved, Orchestrator, WaveState
    <2>6. ~o.waitingForConfirm
      BY <1>1, <2>5 DEF WellFormed
    <2>7. QED
      BY <1>2, <2>3, <2>4, <2>5, <2>6 DEF C, F
  <1>5. QED
    BY <1>3, <1>4

\* Forwarded obeys its recursive definition: the recursion is well founded.
LEMMA ForwardedDef ==
    \A k \in 0 .. Len(Plan) :
       Forwarded[k] = IF k = 0 THEN NewWaveOrchestrator(Plan)
                      ELSE LET o == StartNextWave(Forwarded[k - 1])
                           IN Resolve(o, CurrentWaveTasks(o), {})
  <1> DEFINE L == Len(Plan)
             T == {o \in Orchestrator : Ordered(o)}
             Adv(o) == Resolve(StartNextWave(o), CurrentWaveTasks(StartNextWave(o)), {})
             step == [k \in 1 .. L |-> [o \in T |-> Adv(o)]]
             Eqn(f) == f = [k \in 0 .. L |-> IF k = 0 THEN NewWaveOrchestrator(Plan)
                                             ELSE Adv(f[k - 1])]
  <1>1. L \in Nat
    BY ControlAssumption
  <1>2. NewWaveOrchestrator(Plan) \in T
    BY NewOrdered DEF Ordered, WellFormed
  <1>3. ASSUME NEW o \in T
        PROVE  Adv(o) \in T
    <2>1. Ordered(StartNextWave(o))
      BY MethodsKeepOrder
    <2>2. Ordered(Adv(o))
      BY <2>1, ResolveFacts
    <2>3. QED
      BY <2>2 DEF Ordered, WellFormed
  <1> HIDE DEF Adv, T, L
  <1>4. step \in [1 .. L -> [T -> T]]
    BY <1>3
  <1>5. PICK f : DefinedBySteps(f, L, T, NewWaveOrchestrator(Plan), step)
    <2> HIDE DEF step
    <2> QED
      BY <1>1, <1>2, <1>4, Recursion
  <1>6. /\ f \in [0 .. L -> T] /\ f[0] = NewWaveOrchestrator(Plan)
        /\ \A k \in 1 .. L : f[k] = Adv(f[k - 1])
    <2>1. /\ f \in [0 .. L -> T] /\ f[0] = NewWaveOrchestrator(Plan)
          /\ \A k \in 1 .. L : f[k] = step[k][f[k - 1]]
      BY <1>5 DEF DefinedBySteps
    <2>2. \A k \in 1 .. L : k - 1 \in 0 .. L
      BY <1>1
    <2>3. QED
      BY <2>1, <2>2
  <1>7. Eqn(f)
    <2>1. \A k \in 0 .. L : f[k] = IF k = 0 THEN NewWaveOrchestrator(Plan) ELSE Adv(f[k - 1])
      BY <1>1, <1>6
    <2>2. QED
      BY <1>6, <2>1
  <1>8. Forwarded = CHOOSE g : Eqn(g)
    BY DEF Forwarded, Adv, L
  <1>9. Eqn(Forwarded)
    <2> HIDE DEF Eqn
    <2> QED
      BY <1>7, <1>8
  <1>10. QED
    BY <1>1, <1>9 DEF L, Adv

\* What StartNextWave does to an orchestrator of the plan that is not finished: the
\* wave it leaves current runs, all of it, and it is the next one exactly when the
\* wave before is complete.
LEMMA StartNextWaveFacts ==
    ASSUME NEW o, Ordered(o), o.state # "allComplete", NEW n, n = StartNextWave(o)
    PROVE  /\ Ordered(n)
           /\ n.state = "running"
           /\ ~n.waitingForConfirm
           /\ n.currentWave = IF o.state = "waveComplete"
                              THEN o.currentWave + 1 ELSE o.currentWave
           /\ StartedTasks(o) = CurrentWaveTasks(n)
           /\ \A t \in TaskNumbers : n.taskStates[t] =
                 IF t \in CurrentWaveTasks(n) THEN "running" ELSE o.taskStates[t]
  <1>1. /\ WellFormed(o) /\ o \in Orchestrator /\ o.plan = Plan
        /\ Plan \in Seq(Wave) /\ Plan # << >>
    BY ControlAssumption DEF Ordered, WellFormed
  <1>2. Ordered(n) /\ WellFormed(n)
    BY MethodsKeepOrder DEF Ordered
  <1> DEFINE e == EnterNextWave(o)
             C == CurrentWaveTasks(e)
             m == SetTasks(e, C, "running")
  <1>3. /\ e \in Orchestrator
        /\ e.plan = o.plan
        /\ e.taskStates = o.taskStates
        /\ o.state # "waveComplete" => e = o
        /\ o.state = "waveComplete" => e.currentWave = o.currentWave + 1
                                        /\ e.currentWave < Len(e.plan)
        /\ ~e.waitingForConfirm
    BY <1>1, EnterNextWaveFacts
  <1>4. ~PastLastWave(e)
    <2>1. CASE o.state = "waveComplete"
      BY <1>1, <1>3, <2>1 DEF PastLastWave, Orchestrator
    <2>2. CASE o.state = "running"
      BY <1>1, <1>3, <2>2 DEF PastLastWave, Orchestrator, WellFormed
    <2>3. CASE o.state = "idle"
      <3>1. o.currentWave = 0 /\ Len(Plan) \in Nat \ {0}
        BY <1>1, <2>3 DEF WellFormed
      <3>2. QED
        BY <1>1, <1>3, <2>3, <3>1 DEF PastLastWave
    <2>4. QED
      BY <1>1, <2>1, <2>2, <2>3 DEF Orchestrator, WaveState
  <1>5. n = [m EXCEPT !.state = "running"]
    BY <1>4 DEF StartNextWave, StartCurrentWave
  <1>6. StartedTasks(o) = C
    BY DEF StartedTasks
  <1> HIDE DEF e
  <1>7. /\ m \in Orchestrator
        /\ m.plan = e.plan /\ m.currentWave = e.currentWave
        /\ m.waitingForConfirm = e.waitingForConfirm
        /\ \A t \in TaskNumbers : m.taskStates[t] = IF t \in C THEN "running" ELSE e.taskStates[t]
    BY <1>3, SetTasksType DEF TaskStatus
  <1> HIDE DEF m
  <1>8. n = [plan |-> m.plan, state |-> "running", currentWave |-> m.currentWave,
             taskStates |-> m.taskStates, waitingForConfirm |-> m.waitingForConfirm]
    BY <1>5, <1>7, SetStateType DEF WaveState
  <1>9. /\ n.plan = m.plan /\ n.state = "running" /\ n.currentWave = m.currentWave
        /\ n.taskStates = m.taskStates /\ n.waitingForConfirm = m.waitingForConfirm
    BY <1>8
  <1>10. CurrentWaveTasks(n) = C
    BY <1>7, <1>9, SameWaveSameTasks
  <1>11. ~n.waitingForConfirm
    BY <1>3, <1>7, <1>9
  <1>12. QED
    BY <1>2, <1>3, <1>6, <1>7, <1>9, <1>10, <1>11

\* The orchestrators a wave signal or a restart begins with are in order, and not
\* finished before the last wave.
LEMMA ForwardedFacts ==
    ASSUME NEW k \in 0 .. Len(Plan)
    PROVE  /\ Ordered(Forwarded[k])
           /\ k < Len(Plan) => Forwarded[k].state # "allComplete"
  <1> DEFINE L == Len(Plan)
             Good(n) == /\ Ordered(Forwarded[n])
                        /\ n = 0 => Forwarded[n].state = "idle"
                        /\ n > 0 => Forwarded[n].currentWave <= n - 1
                        /\ Forwarded[n].currentWave <= n
                        /\ n < L => Forwarded[n].state # "allComplete"
             S == {n \in Nat : n <= L => Good(n)}
  <1>1. L \in Nat
    BY ControlAssumption
  <1>2. 0 \in S
    <2>1. Forwarded[0] = NewWaveOrchestrator(Plan)
      BY <1>1, ForwardedDef
    <2>2. QED
      BY <2>1, NewOrdered
  <1>3. ASSUME NEW n \in S
        PROVE  n + 1 \in S
    <2> SUFFICES ASSUME n + 1 <= L
                 PROVE  Good(n + 1)
      OBVIOUS
    <2>1. Good(n) /\ n < L /\ n \in Nat
      BY <1>1
    <2> DEFINE f == Forwarded[n]
               o == StartNextWave(f)
               r == Resolve(o, CurrentWaveTasks(o), {})
    <2>2. r = Forwarded[n + 1]
      <3>1. n + 1 \in 0 .. Len(Plan) /\ n + 1 # 0 /\ (n + 1) - 1 = n
        BY <1>1
      <3>2. QED
        BY <3>1, ForwardedDef
    <2>3. Ordered(f) /\ f.state # "allComplete" /\ f.currentWave \in Nat /\ f.currentWave <= n
      BY <2>1 DEF Ordered, WellFormed, Orchestrator
    <2> HIDE DEF f
    <2>4. /\ Ordered(o)
          /\ o.currentWave = IF f.state = "waveComplete" THEN f.currentWave + 1 ELSE f.currentWave
      BY <2>3, StartNextWaveFacts
    <2>5. o.currentWave \in Nat /\ o.currentWave <= n
      BY <2>1, <2>3, <2>4 DEF f
    <2> HIDE DEF o
    <2>6. Ordered(r) /\ r.currentWave = o.currentWave
      BY <2>4, ResolveFacts
    <2> HIDE DEF r
    <2>7. n + 1 < L => r.state # "allComplete"
      BY <1>1, <2>1, <2>5, <2>6 DEF Ordered, WellFormed
    <2>8. QED
      BY <1>1, <2>1, <2>2, <2>5, <2>6, <2>7
  <1>4. S \in SUBSET Nat
    OBVIOUS
  <1> HIDE DEF S
  <1>5. S = Nat
    BY <1>2, <1>3, <1>4, NatSetInduction
  <1>6. k \in S /\ k <= L
    BY <1>1, <1>5
  <1>7. QED
    BY <1>6 DEF S

\* The wave numbers of a plan are bounded.
LEMMA NumbersBounded == \E b \in Nat : \A k \in DOMAIN Plan : Plan[k].number <= b
  <1> DEFINE S == {n \in Nat : \E b \in Nat : \A k \in DOMAIN Plan : k <= n => Plan[k].number <= b}
  <1>1. Plan \in Seq(Wave) /\ Len(Plan) \in Nat /\ DOMAIN Plan = 1 .. Len(Plan)
    BY ControlAssumption
  <1>2. \A k \in DOMAIN Plan : Plan[k].number \in Nat
    <2>1. \A k \in DOMAIN Plan : Plan[k] \in Wave
      BY <1>1
    <2>2. QED
      BY <2>1 DEF Wave
  <1>3. 0 \in S
    BY <1>1
  <1>4. ASSUME NEW n \in S
        PROVE  n + 1 \in S
    <2>1. PICK b \in Nat : \A k \in DOMAIN Plan : k <= n => Plan[k].number <= b
      OBVIOUS
    <2>2. CASE n + 1 \in DOMAIN Plan
      <3> DEFINE c == IF Plan[n + 1].number <= b THEN b ELSE Plan[n + 1].number
      <3>1. c \in Nat /\ b <= c /\ Plan[n + 1].number <= c
        BY <1>2, <2>2
      <3> HIDE DEF c
      <3>2. \A k \in DOMAIN Plan : k <= n + 1 => Plan[k].number <= c
        BY <1>1, <1>2, <2>1, <3>1
      <3>3. QED
        BY <3>1, <3>2
    <2>3. CASE n + 1 \notin DOMAIN Plan
      <3>1. \A k \in DOMAIN Plan : k # n + 1 /\ k \in Nat
        BY <1>1, <2>3
      <3>2. \A k \in DOMAIN Plan : k <= n + 1 => k <= n
        BY <3>1
      <3>3. QED
        BY <2>1, <3>2
    <2>4. QED
      BY <2>2, <2>3
  <1>5. S \in SUBSET Nat
    OBVIOUS
  <1> HIDE DEF S
  <1>6. Len(Plan) \in S
    BY <1>1, <1>3, <1>4, <1>5, NatSetInduction
  <1>7. QED
    BY <1>1, <1>6 DEF S

\* Every wave has a task.
NoEmptyWave == \A k \in DOMAIN Plan : Plan[k].tasks # {}

\* In a plan without empty waves, exactly the waves that were fast-forwarded are over.
LEMMA ForwardedExactly ==
    ASSUME NoEmptyWave, NEW k \in 0 .. Len(Plan), k < Len(Plan)
    PROVE  StartNextWave(Forwarded[k]).currentWave = k
  <1> DEFINE L == Len(Plan)
             Good(n) == /\ n = 0 => Forwarded[n].state = "idle"
                        /\ n > 0 => Forwarded[n].state = "waveComplete"
                                    /\ Forwarded[n].currentWave = n - 1
             S == {n \in Nat : n < L => Good(n)}
  <1>1. L \in Nat /\ DOMAIN Plan = 1 .. L
    BY ControlAssumption
  <1>2. ASSUME NEW n \in Nat, n < L
        PROVE  Ordered(Forwarded[n]) /\ Forwarded[n].state # "allComplete"
    BY <1>1, <1>2, ForwardedFacts
  <1>3. ASSUME NEW n \in Nat, n < L, Good(n)
        PROVE  StartNextWave(Forwarded[n]).currentWave = n
    <2> DEFINE f == Forwarded[n]
    <2>1. Ordered(f) /\ f.state # "allComplete"
      BY <1>2, <1>3
    <2>2. n = 0 => f.state = "idle" /\ f.currentWave = 0
      BY <1>3, <2>1 DEF Ordered, WellFormed
    <2>3. n > 0 => f.state = "waveComplete" /\ f.currentWave = n - 1
      BY <1>3
    <2> HIDE DEF f
    <2>4. StartNextWave(f).currentWave = IF f.state = "waveComplete" THEN f.currentWave + 1
                                         ELSE f.currentWave
      BY <2>1, StartNextWaveFacts
    <2>5. StartNextWave(f).currentWave = n
      BY <1>3, <2>2, <2>3, <2>4
    <2>6. QED
      BY <2>5 DEF f
  <1>4. 0 \in S
    <2>1. Forwarded[0] = NewWaveOrchestrator(Plan)
      BY <1>1, ForwardedDef
    <2>2. QED
      BY <2>1, NewOrdered
  <1>5. ASSUME NEW n \in S PROVE n + 1 \in S
    <2> SUFFICES ASSUME n + 1 < L PROVE Good(n + 1)
      OBVIOUS
    <2> DEFINE f == Forwarded[n]
               s == StartNextWave(f)
               r == Resolve(s, CurrentWaveTasks(s), {})
    <2>1. n \in Nat /\ n < L /\ Good(n)
      BY <1>1
    <2>2. s.currentWave = n
      BY <1>3, <2>1
    <2>3. Forwarded[n + 1] = r
      <3>1. n + 1 \in 0 .. L /\ n + 1 # 0 /\ (n + 1) - 1 = n
        BY <1>1, <2>1
      <3>2. QED
        BY <3>1, ForwardedDef
    <2>4. Ordered(f) /\ f.state # "allComplete"
      BY <1>2, <2>1
    <2> HIDE DEF f
    <2>5. /\ Ordered(s) /\ s.state = "running"
          /\ \A t \in TaskNumbers : t \in CurrentWaveTasks(s) => s.taskStates[t] = "running"
      BY <2>4, StartNextWaveFacts
    <2> HIDE DEF s
    <2>6. CurrentWaveTasks(s) # {} /\ CurrentWaveTasks(s) \subseteq TaskNumbers /\ s.plan = Plan
      <3>1. s.plan = Plan /\ s \in Orchestrator
        BY <2>5 DEF Ordered, WellFormed
      <3>2. CurrentWaveTasks(s) = Plan[n + 1].tasks
        BY <1>1, <2>1, <2>2, <3>1 DEF CurrentWaveTasks, PastLastWave
      <3>3. n + 1 \in DOMAIN Plan
        BY <1>1, <2>1
      <3>4. QED
        BY <3>1, <3>2, <3>3, CurrentWaveTasksType DEF NoEmptyWave
    <2> DEFINE done == CurrentWaveTasks(s)
    <2>7. /\ Ordered(r) /\ r.currentWave = n
          /\ \A t \in TaskNumbers : r.taskStates[t] =
                IF s.taskStates[t] = "running" /\ t \in done THEN "complete"
                ELSE IF s.taskStates[t] = "running" /\ t \in {} THEN "failed"
                ELSE s.taskStates[t]
      <3> HIDE DEF done
      <3>1. Ordered(Resolve(s, done, {})) /\ Resolve(s, done, {}).currentWave = s.currentWave
            /\ \A t \in TaskNumbers : Resolve(s, done, {}).taskStates[t] =
                  IF s.taskStates[t] = "running" /\ t \in done THEN "complete"
                  ELSE IF s.taskStates[t] = "running" /\ t \in {} THEN "failed"
                  ELSE s.taskStates[t]
        BY <2>5, ResolveFacts
      <3>2. QED
        BY <2>2, <3>1 DEF done
    <2>8. \A t \in done : t \in TaskNumbers /\ r.taskStates[t] = "complete"
      BY <2>5, <2>6, <2>7
    <2> HIDE DEF r
    <2>9. CurrentWaveTasks(r) = done
      BY <2>2, <2>5, <2>6, <2>7, SameWaveSameTasks DEF Ordered
    <2>10. WellFormed(r) /\ r.plan = Plan
      BY <2>7 DEF Ordered
    <2>11. r.state = "waveComplete"
      <3>1. r.state # "idle"
        BY <2>6, <2>8, <2>10 DEF WellFormed
      <3>2. r.state # "running"
        BY <2>6, <2>8, <2>9, <2>10 DEF WellFormed, TasksWith
      <3>3. r.state # "allComplete"
        BY <2>1, <2>7, <2>10 DEF WellFormed
      <3>4. r.state \in WaveState
        BY <2>10 DEF WellFormed, Orchestrator
      <3>5. QED
        BY <3>1, <3>2, <3>3, <3>4 DEF WaveState
    <2>12. QED
      BY <2>1, <2>3, <2>7, <2>11
  <1>6. S \in SUBSET Nat
    OBVIOUS
  <1>7. k \in S
    <2> HIDE DEF S
    <2>1. S = Nat
      BY <1>4, <1>5, <1>6, NatSetInduction
    <2>2. QED
      BY <2>1
  <1>8. QED
    BY <1>1, <1>3, <1>7

\* What a restart rebuilds is in order, its latch is not set, and without empty waves
\* its wave is the highest one that has an instance.
LEMMA RebuiltOrdered ==
    ASSUME NEW n, Rebuilt(n) # NoOrch
    PROVE  /\ Ordered(Rebuilt(n)) /\ ~Rebuilt(n).waitingForConfirm
           /\ NoEmptyWave =>
                 /\ Rebuilt(n).currentWave + 1 \in DOMAIN Plan
                 /\ \A t \in Titles :
                       n[t] # << >> => t[1] <= Plan[Rebuilt(n).currentWave + 1].number
  <1> DEFINE known  == {t \in Titles : ~Missing(n, t)}
             target == CHOOSE w \in {t[1] : t \in known} : \A t \in known : t[1] <= w
             index  == CHOOSE k \in DOMAIN Plan :
                          /\ Plan[k].number = target
                          /\ \A j \in 1 .. k - 1 : Plan[j].number # target
             IsPaused(t) == \E k \in DOMAIN n[t] : n[t][k].phase = "paused"
             paused == {t[2] : t \in {u \in known : u[1] = target /\ IsPaused(u)}}
             numbers == {t[1] : t \in known}
  <1>1. known # {} /\ Rebuilt(n) = Resolve(StartNextWave(Forwarded[index - 1]), paused, {})
    BY DEF Rebuilt
  <1>2. Plan \in Seq(Wave) /\ Len(Plan) \in Nat /\ DOMAIN Plan = 1 .. Len(Plan)
    BY ControlAssumption
  <1>3. \A k \in DOMAIN Plan : Plan[k].number \in Nat
    <2>1. \A k \in DOMAIN Plan : Plan[k] \in Wave
      BY <1>2
    <2>2. QED
      BY <2>1 DEF Wave
  <1>4. \A t \in Titles : \E k \in DOMAIN Plan : t[1] = Plan[k].number
    BY DEF Titles
  <1>5. known \subseteq Titles
    OBVIOUS
  <1> HIDE DEF known, paused
  <1>6. numbers \in SUBSET Nat /\ numbers # {}
    BY <1>1, <1>3, <1>4, <1>5
  <1>7. target \in numbers /\ \A t \in known : t[1] <= target
    <2>1. PICK b \in Nat : \A k \in DOMAIN Plan : Plan[k].number <= b
      BY NumbersBounded
    <2>2. \A w \in numbers : w <= b
      BY <1>4, <1>5, <2>1
    <2>3. PICK m \in numbers : \A w \in numbers : w <= m
      <3> HIDE DEF numbers
      <3> QED
        BY <1>6, <2>2, NatMax
    <2>4. \A t \in known : t[1] <= m
      BY <2>3
    <2>5. QED
      BY <2>3, <2>4
  <1>8. \E k \in DOMAIN Plan : Plan[k].number = target
    BY <1>4, <1>5, <1>7
  <1> HIDE DEF target, numbers
  <1>9. index \in DOMAIN Plan /\ Plan[index].number = target
    <2> DEFINE K == {k \in DOMAIN Plan : Plan[k].number = target}
    <2>1. K \in SUBSET Nat /\ K # {}
      BY <1>2, <1>8
    <2>2. PICK m \in K : \A k \in K : m <= k
      <3> HIDE DEF K
      <3> QED
        BY <2>1, NatMin
    <2>3. \A j \in 1 .. m - 1 : Plan[j].number # target
      <3> SUFFICES ASSUME NEW j \in 1 .. m - 1, Plan[j].number = target PROVE FALSE
        OBVIOUS
      <3>1. j \in K /\ j < m /\ j \in Nat /\ m \in Nat
        BY <1>2, <2>2
      <3>2. QED
        BY <2>2, <3>1
    <2>4. QED
      BY <2>2, <2>3
  <1> HIDE DEF index
  <1>10. index - 1 \in 0 .. Len(Plan) /\ index - 1 < Len(Plan)
    BY <1>2, <1>9
  <1>11. Ordered(Forwarded[index - 1]) /\ Forwarded[index - 1].state # "allComplete"
    BY <1>10, ForwardedFacts
  <1> DEFINE s == StartNextWave(Forwarded[index - 1])
  <1>12. Ordered(s) /\ ~s.waitingForConfirm
    BY <1>11, StartNextWaveFacts
  <1> HIDE DEF s
  <1>13. /\ Ordered(Resolve(s, paused, {})) /\ ~Resolve(s, paused, {}).waitingForConfirm
         /\ Resolve(s, paused, {}).currentWave = s.currentWave
    BY <1>12, ResolveFacts
  <1>14. Ordered(Rebuilt(n)) /\ ~Rebuilt(n).waitingForConfirm
           /\ Rebuilt(n).currentWave = s.currentWave
    BY <1>1, <1>13 DEF s
  <1>15. ASSUME NoEmptyWave
         PROVE  /\ Rebuilt(n).currentWave + 1 = index
                /\ \A t \in Titles : n[t] # << >> => t[1] <= Plan[index].number
    <2>1. s.currentWave = index - 1
      BY <1>10, <1>15, ForwardedExactly DEF s
    <2>2. index \in Nat
      BY <1>2, <1>9
    <2>3. Rebuilt(n).currentWave + 1 = index
      BY <1>14, <2>1, <2>2
    <2>4. \A t \in Titles : n[t] # << >> => t \in known
      BY DEF known, Missing
    <2>5. QED
      BY <1>7, <1>9, <2>3, <2>4
  <1>16. QED
    BY <1>9, <1>14, <1>15

----------------------------------------------------------------------------
(* The orchestrator of the plan, whatever the constants are *)

\* The steps that assign m.waveOrchestrators; every other one leaves it alone.
LEMMA OrchMovers ==
    ASSUME [Next]_vars
    PROVE  \/ Implement \/ TickApply \/ CancelKey \/ EscapeKey
           \/ HandleAdvance \/ HandleRetry \/ HandleAbort
           \/ \E t \in Titles : \E k \in DOMAIN nav[t] : MarkComplete(t, k)
           \/ \E graceful \in BOOLEAN : Restart(graceful)
           \/ UNCHANGED orch
  <1>1. ASSUME NEW k \in DOMAIN Plan, PlanImplementCommand(k)
        PROVE  UNCHANGED orch
    BY <1>1 DEF PlanImplementCommand
  <1>2. ASSUME NEW t \in Titles, NEW k \in DOMAIN nav[t], StartDone(t, k) \/ StartFailed(t, k)
        PROVE  UNCHANGED orch
    BY <1>2 DEF StartDone, StartFailed
  <1>3. ASSUME NEW t \in Titles, StrayStarted(t) \/ AgentFinishes(t) \/ AgentDies(t)
        PROVE  UNCHANGED orch
    BY <1>3 DEF StrayStarted, AgentFinishes, AgentDies
  <1>4. CASE TickCollect \/ CooldownOver \/ HandleAllComplete \/ CancelPlan
    BY <1>4 DEF TickCollect, CooldownOver, HandleAllComplete, CancelPlan
  <1>5. CASE ConfirmKey \/ AbortKey
    BY <1>5 DEF ConfirmKey, AbortKey
  <1>6. ASSUME NEW t \in Titles, NEW k \in DOMAIN nav[t],
               PauseInstance(t, k) \/ ResumeInstance(t, k) \/ KillInstance(t, k)
        PROVE  UNCHANGED orch
    BY <1>6 DEF PauseInstance, ResumeInstance, KillInstance
  <1>7. CASE ShowOther
    BY <1>7 DEF ShowOther, AskOther, OpenOverlay, CloseOverlay, BrowseSessions,
                SessionsArrive, Shows
  <1>8. CASE UNCHANGED vars
    BY <1>8 DEF vars
  <1>9. QED
    BY <1>1, <1>2, <1>3, <1>4, <1>5, <1>6, <1>7, <1>8 DEF Next, Answer, Handle, Act

\* A signalled wave is a wave of the plan.
SignalInv == signal \in 0 .. Len(Plan) /\ (view # NoView => view.wave \in 0 .. Len(Plan))

\* The orchestrator there is keeps the order of its waves.
OrchInv == orch # NoOrch => Ordered(orch)

\* The steps that write, read or consume a wave signal.
LEMMA SignalMovers ==
    ASSUME [Next]_vars
    PROVE  \/ \E k \in DOMAIN Plan : PlanImplementCommand(k)
           \/ TickCollect \/ TickApply
           \/ \E graceful \in BOOLEAN : Restart(graceful)
           \/ UNCHANGED <<view, signal>>
  <1>1. ASSUME NEW t \in Titles, NEW k \in DOMAIN nav[t],
               StartDone(t, k) \/ StartFailed(t, k) \/ Act(t, k)
        PROVE  UNCHANGED <<view, signal>>
    BY <1>1 DEF StartDone, StartFailed, Act, MarkComplete, PauseInstance, ResumeInstance,
                KillInstance
  <1>2. ASSUME NEW t \in Titles, StrayStarted(t) \/ AgentFinishes(t) \/ AgentDies(t)
        PROVE  UNCHANGED <<view, signal>>
    BY <1>2 DEF StrayStarted, AgentFinishes, AgentDies
  <1>3. ASSUME Implement \/ Answer \/ CooldownOver \/ Handle \/ CancelPlan
        PROVE  UNCHANGED <<view, signal>>
    BY <1>3 DEF Implement, Answer, ConfirmKey, AbortKey, CancelKey, EscapeKey, CooldownOver,
                Handle, HandleAdvance, HandleRetry, HandleAbort, HandleAllComplete, CancelPlan
  <1>4. ASSUME ShowOther PROVE UNCHANGED <<view, signal>>
    BY <1>4 DEF ShowOther, AskOther, OpenOverlay, CloseOverlay, BrowseSessions,
                SessionsArrive, Shows
  <1>5. ASSUME UNCHANGED vars PROVE UNCHANGED <<view, signal>>
    BY <1>5 DEF vars
  <1>6. QED
    BY <1>1, <1>2, <1>3, <1>4, <1>5 DEF Next

\* SignalInv is inductive on its own.
LEMMA SignalInvInvariant == Spec => []SignalInv
  <1>1. Len(Plan) \in Nat /\ DOMAIN Plan = 1 .. Len(Plan)
    BY ControlAssumption
  <1>2. Init => SignalInv
    BY <1>1 DEF Init, SignalInv
  <1>3. SignalInv /\ [Next]_vars => SignalInv'
    <2> SUFFICES ASSUME SignalInv, [Next]_vars PROVE SignalInv'
      OBVIOUS
    <2> USE DEF SignalInv
    <2>1. ASSUME NEW k \in DOMAIN Plan, PlanImplementCommand(k)
          PROVE  SignalInv'
      BY <1>1, <2>1 DEF PlanImplementCommand
    <2>2. CASE TickCollect
      BY <2>2 DEF TickCollect, ScanWaveSignals
    <2>3. CASE TickApply
      BY <1>1, <2>3 DEF TickApply, ConsumeWaveSignal
    <2>4. ASSUME NEW graceful \in BOOLEAN, Restart(graceful)
          PROVE  SignalInv'
      BY <2>4 DEF Restart
    <2>5. CASE UNCHANGED <<view, signal>>
      BY <2>5
    <2>6. QED
      BY <2>1, <2>2, <2>3, <2>4, <2>5, SignalMovers
  <1>4. QED
    BY <1>2, <1>3, PTL DEF Spec

\* What a wave signal comes to: nothing, or the orchestrator of the wave it asks for.
LEMMA SignalledFacts ==
    ASSUME SignalInv, view # NoView, NEW r \in Signalled
    PROVE  \/ r.orch = orch /\ r.nav = nav /\ r.faults = 0
           \/ /\ orch = NoOrch /\ view.wave # 0
              /\ view.wave - 1 \in 0 .. Len(Plan) /\ view.wave - 1 < Len(Plan)
              /\ r.orch = StartNextWave(Forwarded[view.wave - 1])
              /\ \/ r.nav = Added(nav, CurrentTitles(r.orch)) /\ r.faults = 0
                 \/ r.nav = nav /\ r.faults = 1
  <1>1. view.wave \in 0 .. Len(Plan) /\ Len(Plan) \in Nat
    BY ControlAssumption DEF SignalInv
  <1>2. CASE view.wave = 0 \/ orch # NoOrch
    BY <1>2 DEF Signalled
  <1>3. CASE ~(view.wave = 0 \/ orch # NoOrch)
    <2> DEFINE new == StartNextWave(Forwarded[view.wave - 1])
    <2>1. r \in {[orch |-> new, nav |-> Added(nav, CurrentTitles(new)), faults |-> 0],
                 [orch |-> new, nav |-> nav, faults |-> 1]}
      BY <1>3 DEF Signalled
    <2> HIDE DEF new
    <2>2. r.orch = new /\ (\/ r.nav = Added(nav, CurrentTitles(new)) /\ r.faults = 0
                           \/ r.nav = nav /\ r.faults = 1)
      BY <2>1
    <2>3. QED
      BY <1>1, <1>3, <2>2 DEF new
  <1>4. QED
    BY <1>2, <1>3

\* What the monitor leaves of an orchestrator.
LEMMA MonitoredFacts ==
    ASSUME NEW o, Ordered(o), NEW n
    PROVE  /\ Ordered(Monitored(o, n))
           /\ Monitored(o, n).currentWave = o.currentWave
           /\ Monitored(o, n).waitingForConfirm <=> o.waitingForConfirm
           /\ o.state # "running" => Monitored(o, n) = o
  <1>1. CASE o.state = "running"
    BY <1>1, ResolveFacts DEF Monitored
  <1>2. CASE o.state # "running"
    BY <1>2 DEF Monitored
  <1>3. QED
    BY <1>1, <1>2

\* What a tick leaves of the orchestrator: nothing, what the monitor makes of it, or
\* that with its latch set.
LEMMA TickOrch ==
    ASSUME TickApply
    PROVE  \E r \in Signalled :
           \E o \in {IF r.orch = NoOrch THEN NoOrch ELSE Monitored(r.orch, Observe(r.nav))} :
              IF o # NoOrch /\ r.orch.state = "running" /\ o.state = "allComplete"
              THEN orch' = NoOrch
              ELSE orch' = o \/ (o # NoOrch /\ orch' = TakeConfirm(o))
  <1> DEFINE postponed == deferred /\ ui.screen # "default"
  <1>1. PICK r \in Signalled :
           \E o \in {IF r.orch = NoOrch THEN NoOrch ELSE Monitored(r.orch, Observe(r.nav))} :
              IF o # NoOrch /\ r.orch.state = "running" /\ o.state = "allComplete"
              THEN FinishImplementation(Observe(r.nav), Drained(ui), postponed)
              ELSE DecideWave(o, Observe(r.nav), Drained(ui), postponed)
    BY DEF TickApply
  <1>2. PICK o \in {IF r.orch = NoOrch THEN NoOrch ELSE Monitored(r.orch, Observe(r.nav))} :
           IF o # NoOrch /\ r.orch.state = "running" /\ o.state = "allComplete"
           THEN FinishImplementation(Observe(r.nav), Drained(ui), postponed)
           ELSE DecideWave(o, Observe(r.nav), Drained(ui), postponed)
    BY <1>1
  <1> HIDE DEF postponed
  <1>3. IF o # NoOrch /\ r.orch.state = "running" /\ o.state = "allComplete"
        THEN orch' = NoOrch
        ELSE orch' = o \/ (o # NoOrch /\ orch' = TakeConfirm(o))
    BY <1>2 DEF FinishImplementation, DecideWave
  <1>4. QED
    BY <1>3

\* Every orchestrator the TUI keeps is in order: no handler and no restart makes
\* one that is not.
LEMMA OrchInvInvariant == Spec => []OrchInv
  <1>1. Init => OrchInv
    BY DEF Init, OrchInv
  <1>2. SignalInv /\ OrchInv /\ [Next]_vars => OrchInv'
    <2> SUFFICES ASSUME SignalInv, OrchInv, [Next]_vars, orch' # NoOrch
                 PROVE  Ordered(orch')
      BY DEF OrchInv
    <2> DEFINE new == NewWaveOrchestrator(Plan)
    <2>1. CASE Implement
      <3>1. orch' = StartNextWave(new) \/ orch' = new
        BY <2>1 DEF Implement, StartNextWaveOf
      <3> HIDE DEF new
      <3>2. QED
        BY <3>1, NewOrdered, MethodsKeepOrder DEF new
    <2>2. CASE TickApply
      <3>1. PICK r \in Signalled :
               \E o \in {IF r.orch = NoOrch THEN NoOrch ELSE Monitored(r.orch, Observe(r.nav))} :
                  \/ orch' = NoOrch
                  \/ orch' = o
                  \/ o # NoOrch /\ orch' = TakeConfirm(o)
        BY <2>2, TickOrch
      <3>2. PICK o \in {IF r.orch = NoOrch THEN NoOrch ELSE Monitored(r.orch, Observe(r.nav))} :
               orch' = o \/ (o # NoOrch /\ orch' = TakeConfirm(o))
        BY <3>1
      <3>3. view # NoView
        BY <2>2 DEF TickApply
      <3>4. r.orch # NoOrch => Ordered(r.orch)
        BY <3>3, SignalledFacts, ForwardedFacts, MethodsKeepOrder DEF OrchInv
      <3>5. o # NoOrch => Ordered(o)
        BY <3>4, MonitoredFacts
      <3>6. QED
        BY <3>2, <3>5, MethodsKeepOrder
    <2>3. CASE CancelKey \/ EscapeKey
      BY <2>3, MethodsKeepOrder DEF CancelKey, EscapeKey, Unlatched, OrchInv
    <2>4. CASE HandleAdvance
      BY <2>4, MethodsKeepOrder DEF HandleAdvance, StartNextWaveOf, OrchInv
    <2>5. CASE HandleRetry
      <3>1. orch' = orch \/ (orch # NoOrch /\ orch' = RetryFailedTasks(orch))
        BY <2>5 DEF HandleRetry
      <3>2. QED
        BY <3>1, MethodsKeepOrder DEF OrchInv
    <2>6. CASE HandleAbort
      BY <2>6 DEF HandleAbort
    <2>7. ASSUME NEW t \in Titles, NEW k \in DOMAIN nav[t], MarkComplete(t, k)
          PROVE  Ordered(orch')
      <3>1. t[2] \in TaskNumbers
        <4>1. PICK j \in DOMAIN Plan : t \in {<<Plan[j].number, u>> : u \in Plan[j].tasks}
          BY DEF Titles
        <4>2. Plan[j] \in Wave
          BY ControlAssumption
        <4>3. QED
          BY <4>1, <4>2 DEF Wave
      <3>2. QED
        BY <2>7, <3>1, MethodsKeepOrder DEF MarkComplete, OrchInv
    <2>8. ASSUME NEW graceful \in BOOLEAN, Restart(graceful)
          PROVE  Ordered(orch')
      <3>1. \E n : orch' = Rebuilt(n)
        BY <2>8 DEF Restart
      <3>2. QED
        BY <3>1, RebuiltOrdered
    <2>9. CASE UNCHANGED orch
      BY <2>9 DEF OrchInv
    <2>10. QED
      BY <2>1, <2>2, <2>3, <2>4, <2>5, <2>6, <2>7, <2>8, <2>9, OrchMovers
  <1>3. QED
    BY <1>1, <1>2, SignalInvInvariant, PTL DEF Spec

\* The waves of a plan stay in order for every plan, in every environment: user,
\* ticks, agents and restarts in any order, any number of them.
THEOREM WavesInOrderTheorem == Spec => []WavesInOrder
  <1>1. OrchInv => WavesInOrder
    BY DEF OrchInv, WavesInOrder, Ordered
  <1>2. QED
    BY <1>1, OrchInvInvariant, PTL

----------------------------------------------------------------------------
(* The bounds *)

\* The names of the bounds.
Bounds == {"starts", "retries", "faults", "acts", "restarts"}

\* What was used goes from u to v: the type and the bounds are kept, nothing is
\* given back.
Uses(u, v) ==
    /\ v \in [Bounds -> Nat]
    /\ \A b \in Bounds : u[b] <= v[b] /\ v[b] <= Limit[b]

\* What was used is within the bounds.
UsedInv == Uses(used, used)

\* The bounds by their names.
LEMMA LimitFacts ==
    /\ DOMAIN Limit = Bounds
    /\ \A b \in Bounds : Limit[b] \in Nat
    /\ Limit["starts"] = MaxStarts
    /\ Limit["faults"] = MaxFaults
    /\ Limit["restarts"] = MaxRestarts
  BY ControlAssumption DEF Limit, Bounds

\* Using one more of what can be afforded.
LEMMA SpendUses ==
    ASSUME NEW u, Uses(u, u), NEW b \in Bounds, u[b] < Limit[b]
    PROVE  /\ Uses(u, [u EXCEPT ![b] = @ + 1])
           /\ [u EXCEPT ![b] = @ + 1][b] # 0
  <1>1. u \in [Bounds -> Nat] /\ Limit[b] \in Nat /\ u[b] \in Nat
    BY LimitFacts DEF Uses
  <1>2. QED
    BY <1>1 DEF Uses

\* spawnWaveTasks uses a fault at most.
LEMMA SpawnUses ==
    ASSUME UsedInv, NEW u, Uses(used, u), NEW S, NEW n, SpawnWaveTasks(n, S, u)
    PROVE  Uses(used, used') /\ used'.starts = u.starts
  <1>1. Uses(u, u) /\ used \in [Bounds -> Nat] /\ u \in [Bounds -> Nat]
    BY DEF Uses, UsedInv
  <1>2. CASE used' = u
    BY <1>2
  <1>3. CASE u.faults < MaxFaults /\ used' = [u EXCEPT !.faults = @ + 1]
    <2>1. Uses(u, used')
      BY <1>1, <1>3, LimitFacts, SpendUses DEF Bounds
    <2>2. \A b \in Bounds : used[b] \in Nat /\ u[b] \in Nat /\ used'[b] \in Nat
      BY <1>1, <2>1 DEF Uses
    <2>3. QED
      BY <1>1, <1>3, <2>1, <2>2 DEF Uses, Bounds
  <1>4. QED
    BY <1>2, <1>3 DEF SpawnWaveTasks

\* A step uses no more than the bounds allow and gives nothing back; a restart and a
\* start are counted.
LEMMA UsedStep ==
    ASSUME SignalInv, UsedInv, [Next]_vars
    PROVE  /\ Uses(used, used')
           /\ (\E graceful \in BOOLEAN : Restart(graceful)) => used'.restarts # 0
           /\ Implement \/ (\E k \in DOMAIN Plan : PlanImplementCommand(k))
                 => used'.starts # 0
  <1>1. Uses(used, used)
    BY DEF UsedInv
  <1>2. ASSUME NEW b \in Bounds, Affordable(b)
        PROVE  Uses(used, Spend(b)) /\ Spend(b)[b] # 0
    BY <1>1, <1>2, SpendUses DEF Affordable, Spend
  <1>3. /\ Affordable("starts") => Uses(used, Spend("starts")) /\ Spend("starts").starts # 0
        /\ Affordable("retries") => Uses(used, Spend("retries"))
        /\ Affordable("faults") => Uses(used, Spend("faults"))
        /\ Affordable("acts") => Uses(used, Spend("acts"))
        /\ Affordable("restarts") =>
              Uses(used, Spend("restarts")) /\ Spend("restarts").restarts # 0
    BY <1>2 DEF Bounds
  <1>5. ASSUME UNCHANGED used PROVE Uses(used, used')
    BY <1>1, <1>5
  <1>6. ASSUME Implement PROVE Uses(used, used')
    <2>1. Affordable("starts")
      BY <1>6 DEF Implement
    <2>2. used' = Spend("starts") \/ \E S : SpawnWaveTasks(nav, S, Spend("starts"))
      BY <1>6 DEF Implement, StartNextWaveOf
    <2>3. QED
      BY <1>3, <2>1, <2>2, SpawnUses
  <1>7. ASSUME NEW k \in DOMAIN Plan, PlanImplementCommand(k)
        PROVE  Uses(used, used') /\ used'.starts # 0
    BY <1>3, <1>7 DEF PlanImplementCommand
  <1>8. ASSUME NEW t \in Titles, NEW k \in DOMAIN nav[t], StartDone(t, k) \/ StartFailed(t, k)
        PROVE  Uses(used, used')
    BY <1>1, <1>3, <1>8 DEF StartDone, StartFailed
  <1>9. ASSUME NEW t \in Titles, StrayStarted(t) \/ AgentFinishes(t) \/ AgentDies(t)
        PROVE  Uses(used, used')
    BY <1>1, <1>3, <1>9 DEF StrayStarted, AgentFinishes, AgentDies
  <1>10. ASSUME TickApply PROVE Uses(used, used')
    <2>1. PICK r \in Signalled : used' = [used EXCEPT !.faults = @ + r.faults]
      BY <1>10 DEF TickApply
    <2>2. r.faults = 0 \/ (r.faults = 1 /\ used.faults + r.faults <= MaxFaults)
      BY <2>1 DEF Signalled
    <2>3. used \in [Bounds -> Nat] /\ used.faults \in Nat /\ MaxFaults \in Nat
      BY <1>1, LimitFacts DEF Uses, Bounds
    <2>4. CASE r.faults = 0
      <3>1. used' = used
        BY <2>1, <2>3, <2>4 DEF Bounds
      <3>2. QED
        BY <1>1, <3>1
    <2>5. CASE r.faults = 1 /\ used.faults + r.faults <= MaxFaults
      <3>1. Affordable("faults")
        BY <2>3, <2>5, LimitFacts DEF Affordable
      <3>2. used' = Spend("faults")
        BY <2>1, <2>5 DEF Spend
      <3>3. QED
        BY <1>3, <3>1, <3>2
    <2>6. QED
      BY <2>2, <2>4, <2>5
  <1>11. ASSUME Answer PROVE Uses(used, used')
    <2>1. UNCHANGED used \/ (Affordable("retries") /\ used' = Spend("retries"))
      BY <1>11 DEF Answer, ConfirmKey, AbortKey, CancelKey, EscapeKey
    <2>2. QED
      BY <1>3, <1>5, <2>1
  <1>12. ASSUME Handle PROVE Uses(used, used')
    <2>1. UNCHANGED used \/ \E n, S : SpawnWaveTasks(n, S, used)
      BY <1>12 DEF Handle, HandleAdvance, HandleRetry, HandleAbort, HandleAllComplete,
                   StartNextWaveOf
    <2>2. QED
      BY <1>1, <2>1, SpawnUses DEF UsedInv
  <1>13. ASSUME NEW t \in Titles, NEW k \in DOMAIN nav[t], Act(t, k)
         PROVE  Uses(used, used')
    BY <1>3, <1>13 DEF Act, MarkComplete, PauseInstance, ResumeInstance, KillInstance, Acts
  <1>14. ASSUME CancelPlan PROVE Uses(used, used')
    BY <1>3, <1>14 DEF CancelPlan, Acts
  <1>15. ASSUME NEW graceful \in BOOLEAN, Restart(graceful)
         PROVE  Uses(used, used') /\ used'.restarts # 0
    BY <1>3, <1>15 DEF Restart
  <1>16. ASSUME TickCollect \/ CooldownOver PROVE Uses(used, used')
    BY <1>1, <1>16 DEF TickCollect, CooldownOver
  <1>17. ASSUME ShowOther PROVE Uses(used, used')
    BY <1>1, <1>17 DEF ShowOther, AskOther, OpenOverlay, CloseOverlay, BrowseSessions,
                       SessionsArrive, Shows
  <1>18. ASSUME UNCHANGED vars PROVE Uses(used, used')
    BY <1>1, <1>18 DEF vars
  <1>19. Uses(used, used')
    BY <1>6, <1>7, <1>8, <1>9, <1>10, <1>11, <1>12, <1>13, <1>14, <1>15, <1>16, <1>17, <1>18
       DEF Next
  <1>20. Implement => used'.starts # 0
    <2> SUFFICES ASSUME Implement PROVE used'.starts # 0
      OBVIOUS
    <2>1. Affordable("starts")
      BY DEF Implement
    <2>2. used' = Spend("starts") \/ \E S : SpawnWaveTasks(nav, S, Spend("starts"))
      BY DEF Implement, StartNextWaveOf
    <2>3. QED
      BY <1>3, <2>1, <2>2, SpawnUses
  <1>21. QED
    BY <1>7, <1>15, <1>19, <1>20

\* The bounds are kept.
LEMMA UsedInvInvariant == Spec => []UsedInv
  <1>1. Init => UsedInv
    BY LimitFacts DEF Init, UsedInv, Uses
  <1>2. SignalInv /\ UsedInv /\ [Next]_vars => UsedInv'
    <2> SUFFICES ASSUME SignalInv, UsedInv, [Next]_vars PROVE Uses(used', used')
      BY DEF UsedInv
    <2>1. Uses(used, used')
      BY UsedStep
    <2>2. QED
      BY <2>1 DEF Uses
  <1>3. QED
    BY <1>1, <1>2, SignalInvInvariant, PTL DEF Spec

----------------------------------------------------------------------------
(* A finished orchestrator is forgotten *)

\* The latch is all that NeedsConfirm and ResetConfirm assign.
LEMMA LatchFacts ==
    ASSUME NEW o, Ordered(o), NEW n, n \in {TakeConfirm(o), ResetConfirm(o)}
    PROVE  /\ n.state = o.state /\ n.currentWave = o.currentWave
           /\ n.plan = o.plan /\ n.taskStates = o.taskStates
           /\ n = TakeConfirm(o) => (n.waitingForConfirm <=> o.state = "waveComplete")
           /\ n = ResetConfirm(o) => ~n.waitingForConfirm
  <1>1. o \in Orchestrator /\ o.waitingForConfirm \in BOOLEAN
        /\ (o.waitingForConfirm => o.state = "waveComplete")
    BY DEF Ordered, WellFormed, Orchestrator
  <1>2. o.waitingForConfirm \/ NeedsConfirm(o) \in BOOLEAN
    BY <1>1 DEF NeedsConfirm
  <1>3. ASSUME NEW b \in BOOLEAN, NEW c, c = [o EXCEPT !.waitingForConfirm = b]
        PROVE  /\ c.state = o.state /\ c.currentWave = o.currentWave
               /\ c.plan = o.plan /\ c.taskStates = o.taskStates
               /\ c.waitingForConfirm = b
    BY <1>1, <1>3 DEF Orchestrator
  <1>4. ASSUME n = TakeConfirm(o)
        PROVE  /\ n.state = o.state /\ n.currentWave = o.currentWave
               /\ n.plan = o.plan /\ n.taskStates = o.taskStates
               /\ n.waitingForConfirm <=> o.state = "waveComplete"
    <2>1. n.waitingForConfirm = (o.waitingForConfirm \/ NeedsConfirm(o))
      BY <1>2, <1>3, <1>4 DEF TakeConfirm
    <2>2. (o.waitingForConfirm \/ NeedsConfirm(o)) <=> o.state = "waveComplete"
      BY <1>1 DEF NeedsConfirm
    <2>3. QED
      BY <1>2, <1>3, <1>4, <2>1, <2>2 DEF TakeConfirm
  <1>5. ASSUME n = ResetConfirm(o)
        PROVE  /\ n.state = o.state /\ n.currentWave = o.currentWave
               /\ n.plan = o.plan /\ n.taskStates = o.taskStates
               /\ ~n.waitingForConfirm
    BY <1>3, <1>5 DEF ResetConfirm
  <1>6. QED
    BY <1>4, <1>5

\* A retry runs the failed tasks of the current wave again, or changes nothing.
LEMMA RetryFacts ==
    ASSUME NEW o, Ordered(o), NEW n, n = RetryFailedTasks(o)
    PROVE  /\ Ordered(n)
           /\ n.currentWave = o.currentWave
           /\ TasksWith(o, "failed") = {} => n = o
           /\ TasksWith(o, "failed") # {} =>
                 /\ n.state = "running"
                 /\ ~n.waitingForConfirm
                 /\ \A t \in TaskNumbers : n.taskStates[t] =
                       IF t \in TasksWith(o, "failed") THEN "running" ELSE o.taskStates[t]
  <1> DEFINE F == TasksWith(o, "failed")
             s == SetTasks(o, F, "running")
             u == [s EXCEPT !.state = "running"]
  <1>1. o \in Orchestrator /\ o.plan = Plan /\ Ordered(n)
    BY MethodsKeepOrder DEF Ordered, WellFormed
  <1>2. CASE F = {}
    BY <1>1, <1>2 DEF RetryFailedTasks
  <1>3. CASE F # {}
    <2>1. n = [u EXCEPT !.waitingForConfirm = FALSE]
      BY <1>3 DEF RetryFailedTasks, ResetConfirm
    <2>2. /\ s \in Orchestrator /\ s.currentWave = o.currentWave
          /\ \A t \in TaskNumbers : s.taskStates[t] =
                IF t \in F THEN "running" ELSE o.taskStates[t]
      BY <1>1, SetTasksType DEF TaskStatus
    <2> HIDE DEF s
    <2>3. /\ u = [plan |-> s.plan, state |-> "running", currentWave |-> s.currentWave,
                   taskStates |-> s.taskStates, waitingForConfirm |-> s.waitingForConfirm]
          /\ u \in Orchestrator
      BY <2>2, SetStateType DEF WaveState
    <2> HIDE DEF u
    <2>4. /\ u.state = "running" /\ u.currentWave = s.currentWave
          /\ u.taskStates = s.taskStates
      BY <2>3
    <2>5. /\ n.state = u.state /\ n.currentWave = u.currentWave
          /\ n.taskStates = u.taskStates /\ ~n.waitingForConfirm
      BY <2>1, <2>3 DEF Orchestrator
    <2>6. QED
      BY <1>1, <1>3, <2>2, <2>4, <2>5
  <1>4. QED
    BY <1>2, <1>3

\* A step that is not a restart counts none.
LEMMA NotRestartedBefore ==
    ASSUME SignalInv, UsedInv, [Next]_vars, NotRestarted'
    PROVE  NotRestarted /\ ~\E graceful \in BOOLEAN : Restart(graceful)
  <1>1. Uses(used, used') /\ Uses(used, used)
    BY UsedStep DEF UsedInv
  <1>2. used.restarts \in Nat /\ used.restarts <= used'.restarts /\ used'.restarts = 0
    BY <1>1 DEF Uses, Bounds, NotRestarted
  <1>3. QED
    BY <1>2, UsedStep DEF NotRestarted

\* Unless the user ends tasks by hand, an orchestrator whose last wave has ended is
\* forgotten in the very step that ends it, and none is created finished.
THEOREM FinishedIsForgottenTheorem == ~Manual => (Spec => []FinishedIsForgotten)
  <1> SUFFICES ASSUME ~Manual PROVE Spec => []FinishedIsForgotten
    OBVIOUS
  <1>1. Init => FinishedIsForgotten
    BY DEF Init, FinishedIsForgotten
  <1>2. SignalInv /\ UsedInv /\ OrchInv /\ FinishedIsForgotten /\ [Next]_vars
          => FinishedIsForgotten'
    <2> SUFFICES ASSUME SignalInv, UsedInv, OrchInv, FinishedIsForgotten, [Next]_vars,
                        NotRestarted', orch' # NoOrch
                 PROVE  orch'.state # "allComplete"
      BY DEF FinishedIsForgotten
    <2>1. /\ NotRestarted /\ ~\E graceful \in BOOLEAN : Restart(graceful)
          /\ orch # NoOrch => Ordered(orch) /\ orch.state # "allComplete"
      BY NotRestartedBefore DEF FinishedIsForgotten, OrchInv
    <2> DEFINE new == NewWaveOrchestrator(Plan)
    <2>2. CASE Implement
      <3>1. orch' = StartNextWave(new) \/ orch' = new
        BY <2>2 DEF Implement, StartNextWaveOf
      <3>2. Ordered(new) /\ new.state = "idle"
        BY NewOrdered
      <3> HIDE DEF new
      <3>3. StartNextWave(new).state = "running"
        BY <3>2, StartNextWaveFacts
      <3>4. QED
        BY <3>1, <3>2, <3>3
    <2>3. CASE TickApply
      <3>1. PICK r \in Signalled :
               \E o \in {IF r.orch = NoOrch THEN NoOrch ELSE Monitored(r.orch, Observe(r.nav))} :
                  IF o # NoOrch /\ r.orch.state = "running" /\ o.state = "allComplete"
                  THEN orch' = NoOrch
                  ELSE orch' = o \/ (o # NoOrch /\ orch' = TakeConfirm(o))
        BY <2>3, TickOrch
      <3>2. PICK o \in {IF r.orch = NoOrch THEN NoOrch ELSE Monitored(r.orch, Observe(r.nav))} :
               /\ ~(o # NoOrch /\ r.orch.state = "running" /\ o.state = "allComplete")
               /\ orch' = o \/ (o # NoOrch /\ orch' = TakeConfirm(o))
        BY <3>1
      <3>3. view # NoView
        BY <2>3 DEF TickApply
      <3>4. r.orch # NoOrch => Ordered(r.orch) /\ r.orch.state # "allComplete"
        <4>1. CASE r.orch = orch
          BY <2>1, <4>1
        <4>2. CASE r.orch # orch
          <5>1. /\ view.wave - 1 \in 0 .. Len(Plan) /\ view.wave - 1 < Len(Plan)
                /\ r.orch = StartNextWave(Forwarded[view.wave - 1])
            BY <3>3, <4>2, SignalledFacts
          <5> DEFINE f == Forwarded[view.wave - 1]
          <5>2. Ordered(f) /\ f.state # "allComplete"
            BY <5>1, ForwardedFacts
          <5> HIDE DEF f
          <5>3. Ordered(StartNextWave(f)) /\ StartNextWave(f).state = "running"
            BY <5>2, StartNextWaveFacts
          <5>4. QED
            BY <5>1, <5>3 DEF f
        <4>3. QED
          BY <4>1, <4>2
      <3>5. o # NoOrch => Ordered(o) /\ o.state # "allComplete"
        BY <3>2, <3>4, MonitoredFacts
      <3>6. QED
        BY <3>2, <3>5, LatchFacts
    <2>4. CASE CancelKey \/ EscapeKey
      BY <2>1, <2>4, LatchFacts DEF CancelKey, EscapeKey, Unlatched
    <2>5. CASE HandleAdvance
      <3>1. orch' = orch \/ (orch # NoOrch /\ orch' = StartNextWave(orch))
        BY <2>5 DEF HandleAdvance, StartNextWaveOf
      <3>2. orch # NoOrch => StartNextWave(orch).state = "running"
        BY <2>1, StartNextWaveFacts
      <3>3. QED
        BY <2>1, <3>1, <3>2
    <2>6. CASE HandleRetry
      <3>1. orch' = orch \/ (orch # NoOrch /\ orch' = RetryFailedTasks(orch))
        BY <2>6 DEF HandleRetry
      <3>2. QED
        BY <2>1, <3>1, RetryFacts
    <2>7. CASE HandleAbort
      BY <2>7 DEF HandleAbort
    <2>8. ~\E t \in Titles : \E k \in DOMAIN nav[t] : MarkComplete(t, k)
      BY DEF MarkComplete, Acts
    <2>9. CASE UNCHANGED orch
      BY <2>1, <2>9
    <2>10. QED
      BY <2>1, <2>2, <2>3, <2>4, <2>5, <2>6, <2>7, <2>8, <2>9, OrchMovers
  <1>3. QED
    BY <1>1, <1>2, SignalInvInvariant, UsedInvInvariant, OrchInvInvariant, PTL DEF Spec

----------------------------------------------------------------------------
(* The dialogs *)

\* What opening and answering a dialog makes of the home model's fields.
LEMMA ConfirmingFields ==
    ASSUME NEW u \in UI, NEW a \in Message \cup {"other"}, NEW c, c = Confirming(u, a)
    PROVE  /\ c \in UI
           /\ c.screen = "confirm" /\ c.confirm = a
           /\ c.next = u.next /\ c.abort = u.abort /\ c.wave = u.wave
           /\ c.browsing = u.browsing
  <1>1. c \in UI
    BY DEF Confirming, UI, Message
  <1>2. QED
    BY <1>1 DEF Confirming, UI

\* What the two dialogs about a wave set in the home state.
LEMMA WaveDialogFields ==
    ASSUME NEW u \in UI
    PROVE  /\ WaveStandard(u) \in UI
           /\ WaveStandard(u).screen = "confirm" /\ WaveStandard(u).confirm = "advance"
           /\ WaveStandard(u).next = u.next /\ WaveStandard(u).abort = u.abort
           /\ WaveStandard(u).wave /\ WaveStandard(u).browsing = u.browsing
           /\ WaveFailed(u) \in UI
           /\ WaveFailed(u).screen = "confirm" /\ WaveFailed(u).confirm = "retry"
           /\ WaveFailed(u).next /\ WaveFailed(u).abort
           /\ WaveFailed(u).wave /\ WaveFailed(u).browsing = u.browsing
  <1> DEFINE s == Confirming(u, "advance")
             f == Confirming(u, "retry")
  <1>1. /\ s \in UI /\ s.screen = "confirm" /\ s.confirm = "advance"
        /\ s.next = u.next /\ s.abort = u.abort /\ s.browsing = u.browsing
        /\ f \in UI /\ f.screen = "confirm" /\ f.confirm = "retry"
        /\ f.browsing = u.browsing
    BY ConfirmingFields DEF Message
  <1>2. WaveStandard(u) = [s EXCEPT !.wave = TRUE]
        /\ WaveFailed(u) = [f EXCEPT !.wave = TRUE, !.next = TRUE, !.abort = TRUE]
    BY DEF WaveStandard, WaveFailed
  <1> HIDE DEF s, f
  <1>3. WaveStandard(u) \in UI /\ WaveFailed(u) \in UI
    BY <1>1, <1>2 DEF UI
  <1>4. /\ WaveStandard(u).screen = "confirm" /\ WaveStandard(u).confirm = "advance"
        /\ WaveStandard(u).next = u.next /\ WaveStandard(u).abort = u.abort
        /\ WaveStandard(u).wave /\ WaveStandard(u).browsing = u.browsing
    BY <1>1, <1>2 DEF UI
  <1>5. /\ WaveFailed(u).screen = "confirm" /\ WaveFailed(u).confirm = "retry"
        /\ WaveFailed(u).next /\ WaveFailed(u).abort
        /\ WaveFailed(u).wave /\ WaveFailed(u).browsing = u.browsing
    BY <1>1, <1>2 DEF UI
  <1>6. QED
    BY <1>3, <1>4, <1>5

\* An answered dialog leaves nothing pending.
LEMMA ClosedFields ==
    ASSUME NEW u \in UI
    PROVE  /\ Answered(u) \in UI
           /\ Answered(u).screen = "default" /\ Answered(u).confirm = "none"
           /\ ~Answered(u).next /\ ~Answered(u).abort /\ ~Answered(u).wave
           /\ Answered(u).browsing = u.browsing
           /\ NoPending \in UI
           /\ NoPending.screen = "default" /\ NoPending.confirm = "none"
           /\ ~NoPending.next /\ ~NoPending.abort /\ ~NoPending.wave /\ ~NoPending.browsing
  <1>1. NoPending \in UI
    BY DEF NoPending, UI
  <1>2. Answered(u) \in UI
    BY DEF Answered, NoPending, UI
  <1>3. /\ Answered(u).screen = "default" /\ Answered(u).confirm = "none"
        /\ ~Answered(u).next /\ ~Answered(u).abort /\ ~Answered(u).wave
        /\ Answered(u).browsing = u.browsing
    BY DEF Answered, NoPending, UI
  <1>4. QED
    BY <1>1, <1>2, <1>3 DEF NoPending

\* How a step may change the fields of the home model.
LEMMA UiMovers ==
    ASSUME [Next]_vars, ui \in UI
    PROVE  \/ UNCHANGED ui
           \/ ui.screen = "confirm" /\ ui' = Answered(ui)
           \/ ui' = NoPending
           \/ /\ ui.screen = "default"
              /\ \/ \E a \in {"allComplete", "other"} : ui' = Confirming(ui, a)
                 \/ ui' \in {WaveStandard(ui), WaveFailed(ui)}
                 \/ ui' = [ui EXCEPT !.screen = "overlay"]
           \/ ui.screen = "overlay" /\ ui' = [ui EXCEPT !.screen = "default"]
           \/ Interruptions /\ ui' = [ui EXCEPT !.browsing = TRUE]
           \/ ui.browsing /\ ui' = [ui EXCEPT !.browsing = FALSE, !.screen = "overlay"]
  <1>1. CASE Answer
    BY <1>1 DEF Answer, ConfirmKey, AbortKey, CancelKey, EscapeKey
  <1>2. CASE TickApply
    <2>1. PICK n, o, p, b : \/ b /\ FinishImplementation(n, Drained(ui), p)
                            \/ ~b /\ DecideWave(o, n, Drained(ui), p)
      <3>1. PICK r \in Signalled : \E n \in {Observe(r.nav)} :
              \E o \in {IF r.orch = NoOrch THEN NoOrch ELSE Monitored(r.orch, n)} :
                IF o # NoOrch /\ r.orch.state = "running" /\ o.state = "allComplete"
                THEN FinishImplementation(n, Drained(ui), deferred /\ ui.screen # "default")
                ELSE DecideWave(o, n, Drained(ui), deferred /\ ui.screen # "default")
        BY <1>2 DEF TickApply
      <3>2. QED
        BY <3>1
    <2>2. \/ Drained(ui) = ui
          \/ ui.screen = "default" /\ Drained(ui) = Confirming(ui, "allComplete")
      BY DEF Drained
    <2>3. Confirming(ui, "allComplete").screen = "confirm"
      BY ConfirmingFields DEF Message
    <2>4. CASE FinishImplementation(n, Drained(ui), p)
      BY <2>2, <2>3, <2>4 DEF FinishImplementation
    <2>5. CASE DecideWave(o, n, Drained(ui), p)
      BY <2>2, <2>3, <2>5 DEF DecideWave
    <2>6. QED
      BY <2>1, <2>4, <2>5
  <1>3. ASSUME NEW graceful \in BOOLEAN, Restart(graceful)
        PROVE  ui' = NoPending
    BY <1>3 DEF Restart
  <1>4. CASE ShowOther
    BY <1>4 DEF ShowOther, AskOther, OpenOverlay, CloseOverlay, BrowseSessions,
                SessionsArrive, Shows
  <1>5. CASE Implement \/ TickCollect \/ CooldownOver \/ Handle \/ CancelPlan
    BY <1>5 DEF Implement, TickCollect, CooldownOver, Handle, HandleAdvance, HandleRetry,
                HandleAbort, HandleAllComplete, CancelPlan
  <1>6. ASSUME NEW k \in DOMAIN Plan, PlanImplementCommand(k)
        PROVE  UNCHANGED ui
    BY <1>6 DEF PlanImplementCommand
  <1>7. ASSUME NEW t \in Titles, NEW k \in DOMAIN nav[t],
               StartDone(t, k) \/ StartFailed(t, k) \/ Act(t, k)
        PROVE  UNCHANGED ui
    BY <1>7 DEF StartDone, StartFailed, Act, MarkComplete, PauseInstance, ResumeInstance,
                KillInstance
  <1>8. ASSUME NEW t \in Titles, StrayStarted(t) \/ AgentFinishes(t) \/ AgentDies(t)
        PROVE  UNCHANGED ui
    BY <1>8 DEF StrayStarted, AgentFinishes, AgentDies
  <1>9. CASE UNCHANGED vars
    BY <1>9 DEF vars
  <1>10. QED
    BY <1>1, <1>2, <1>3, <1>4, <1>5, <1>6, <1>7, <1>8, <1>9 DEF Next

\* What is pending belongs to a wave dialog, which sets pendingWaveConfirmPlanFile.
PendingIsOfWave ==
    ui.next \/ ui.abort \/ ui.confirm \in {"advance", "retry", "abort"} => ui.wave

\* As long as no overlay arrives over a dialog, nothing is pending without a dialog,
\* and a dialog has exactly the pending actions of its kind.
PendingIsShown ==
    /\ ~ui.browsing
    /\ ui.screen # "confirm" =>
          ui.confirm = "none" /\ ~ui.next /\ ~ui.abort /\ ~ui.wave
    /\ ui.screen = "confirm" =>
          /\ ui.confirm \in {"advance", "retry", "allComplete", "other"}
          /\ ui.wave <=> ui.confirm \in {"advance", "retry"}
          /\ ui.next <=> ui.confirm = "retry"
          /\ ui.abort <=> ui.confirm = "retry"

\* The home state's type, and its pending actions belong to the dialog that is shown.
UIInv == ui \in UI /\ PendingIsOfWave /\ (~Interruptions => PendingIsShown)

\* UIInv is inductive on its own.
LEMMA UIInvInvariant == Spec => []UIInv
  <1>1. Init => UIInv
    BY DEF Init, UIInv, PendingIsOfWave, PendingIsShown, NoPending, UI
  <1>2. UIInv /\ [Next]_vars => UIInv'
    <2> SUFFICES ASSUME UIInv, [Next]_vars PROVE UIInv'
      OBVIOUS
    <2>1. ui \in UI /\ PendingIsOfWave /\ (~Interruptions => PendingIsShown)
      BY DEF UIInv
    <2> USE DEF UIInv, PendingIsOfWave, PendingIsShown
    <2>2. CASE UNCHANGED ui
      BY <2>1, <2>2
    <2>3. CASE ui.screen = "confirm" /\ ui' = Answered(ui)
      BY <2>1, <2>3, ClosedFields
    <2>4. CASE ui' = NoPending
      BY <2>1, <2>4, ClosedFields
    <2>5. ASSUME ui.screen = "default", NEW a \in {"allComplete", "other"},
                 ui' = Confirming(ui, a)
          PROVE  UIInv'
      <3>1. a \in Message \cup {"other"}
        BY DEF Message
      <3>2. /\ ui' \in UI
            /\ ui'.screen = "confirm" /\ ui'.confirm = a
            /\ ui'.next = ui.next /\ ui'.abort = ui.abort /\ ui'.wave = ui.wave
            /\ ui'.browsing = ui.browsing
        BY <2>1, <2>5, <3>1, ConfirmingFields
      <3>3. QED
        BY <2>1, <2>5, <3>2
    <2>6. ASSUME ui.screen = "default", ui' \in {WaveStandard(ui), WaveFailed(ui)}
          PROVE  UIInv'
      BY <2>1, <2>6, WaveDialogFields
    <2>7. ASSUME NEW screen \in {"default", "overlay"}, ui.screen # "confirm",
                 ui' = [ui EXCEPT !.screen = screen]
          PROVE  UIInv'
      <3>1. /\ ui' \in UI
            /\ ui'.screen = screen /\ ui'.confirm = ui.confirm
            /\ ui'.next = ui.next /\ ui'.abort = ui.abort /\ ui'.wave = ui.wave
            /\ ui'.browsing = ui.browsing
        BY <2>1, <2>7 DEF UI
      <3>2. QED
        BY <2>1, <2>7, <3>1
    <2>8. CASE Interruptions /\ ui' = [ui EXCEPT !.browsing = TRUE]
      <3>1. ui' \in UI
        BY <2>1, <2>8 DEF UI
      <3>2. /\ ui'.confirm = ui.confirm
            /\ ui'.next = ui.next /\ ui'.abort = ui.abort /\ ui'.wave = ui.wave
        BY <2>1, <2>8 DEF UI
      <3>3. QED
        BY <2>1, <2>8, <3>1, <3>2
    <2>9. CASE ui.browsing /\ ui' = [ui EXCEPT !.browsing = FALSE, !.screen = "overlay"]
      <3>1. ui' \in UI
        BY <2>1, <2>9 DEF UI
      <3>2. /\ ui'.confirm = ui.confirm
            /\ ui'.next = ui.next /\ ui'.abort = ui.abort /\ ui'.wave = ui.wave
        BY <2>1, <2>9 DEF UI
      <3>3. QED
        BY <2>1, <2>9, <3>1, <3>2
    <2>10. QED
      BY <2>1, <2>2, <2>3, <2>4, <2>5, <2>6, <2>7, <2>8, <2>9, UiMovers
  <1>3. QED
    BY <1>1, <1>2, PTL DEF Spec

\* The cancel key declines wherever it is not labelled otherwise, as long as no overlay
\* arrives over a dialog.
THEOREM DeclineSendsNothingTheorem == ~Interruptions => (Spec => DeclineSendsNothing)
  <1> SUFFICES ASSUME ~Interruptions PROVE Spec => DeclineSendsNothing
    OBVIOUS
  <1>1. UIInv /\ [Next]_vars => [CancelKey /\ ui.confirm # "retry" => msgs' = msgs]_vars
    BY DEF UIInv, PendingIsShown, CancelKey
  <1>2. QED
    BY <1>1, UIInvInvariant, PTL DEF Spec, DeclineSendsNothing

----------------------------------------------------------------------------
(* The latch and the messages of the dialogs *)

\* The messages under way are counted.
MsgsInv == msgs \in [Message -> Nat]

\* What sending and receiving a message does to the counts.
LEMMA MessageFacts ==
    ASSUME MsgsInv, NEW m \in Message
    PROVE  /\ Send(m) => /\ MsgsInv'
                         /\ \A n \in Message : msgs'[n] = IF n = m THEN msgs[n] + 1 ELSE msgs[n]
           /\ Receive(m) => /\ MsgsInv' /\ msgs[m] > 0
                            /\ \A n \in Message :
                                  msgs'[n] = IF n = m THEN msgs[n] - 1 ELSE msgs[n]
  <1>1. msgs[m] \in Nat
    BY DEF MsgsInv
  <1>2. ASSUME Receive(m) PROVE msgs[m] - 1 \in Nat
    BY <1>1, <1>2 DEF Receive
  <1>3. ASSUME NEW i \in Nat, msgs' = [msgs EXCEPT ![m] = i]
        PROVE  MsgsInv' /\ \A n \in Message : msgs'[n] = IF n = m THEN i ELSE msgs[n]
    BY <1>3 DEF MsgsInv
  <1>4. ASSUME Send(m)
        PROVE  /\ MsgsInv'
               /\ \A n \in Message : msgs'[n] = IF n = m THEN msgs[n] + 1 ELSE msgs[n]
    <2>1. msgs[m] + 1 \in Nat /\ msgs' = [msgs EXCEPT ![m] = msgs[m] + 1]
      BY <1>1, <1>4 DEF Send
    <2>2. QED
      BY <1>3, <2>1
  <1>5. ASSUME Receive(m)
        PROVE  /\ MsgsInv' /\ msgs[m] > 0
               /\ \A n \in Message : msgs'[n] = IF n = m THEN msgs[n] - 1 ELSE msgs[n]
    <2>1. msgs[m] > 0 /\ msgs' = [msgs EXCEPT ![m] = msgs[m] - 1]
      BY <1>5 DEF Receive
    <2>2. QED
      BY <1>2, <1>3, <1>5, <2>1
  <1>6. QED
    BY <1>4, <1>5

\* The steps that assign the orchestrator, the home model's fields or the messages.
LEMMA ControlMovers ==
    ASSUME [Next]_vars
    PROVE  \/ Implement \/ TickApply \/ Answer \/ Handle \/ ShowOther
           \/ \E t \in Titles : \E k \in DOMAIN nav[t] : MarkComplete(t, k)
           \/ \E graceful \in BOOLEAN : Restart(graceful)
           \/ UNCHANGED <<orch, ui, msgs>>
  <1>1. ASSUME NEW k \in DOMAIN Plan, PlanImplementCommand(k)
        PROVE  UNCHANGED <<orch, ui, msgs>>
    BY <1>1 DEF PlanImplementCommand
  <1>2. ASSUME NEW t \in Titles, NEW k \in DOMAIN nav[t],
               StartDone(t, k) \/ StartFailed(t, k) \/ PauseInstance(t, k)
                  \/ ResumeInstance(t, k) \/ KillInstance(t, k)
        PROVE  UNCHANGED <<orch, ui, msgs>>
    BY <1>2 DEF StartDone, StartFailed, PauseInstance, ResumeInstance, KillInstance
  <1>3. ASSUME NEW t \in Titles, StrayStarted(t) \/ AgentFinishes(t) \/ AgentDies(t)
        PROVE  UNCHANGED <<orch, ui, msgs>>
    BY <1>3 DEF StrayStarted, AgentFinishes, AgentDies
  <1>4. ASSUME TickCollect \/ CooldownOver \/ CancelPlan
        PROVE  UNCHANGED <<orch, ui, msgs>>
    BY <1>4 DEF TickCollect, CooldownOver, CancelPlan
  <1>5. ASSUME UNCHANGED vars PROVE UNCHANGED <<orch, ui, msgs>>
    BY <1>5 DEF vars
  <1>6. QED
    BY <1>1, <1>2, <1>3, <1>4, <1>5 DEF Next, Act

\* What a step sends and receives.
LEMMA MsgsInvInvariant == Spec => []MsgsInv
  <1>1. Init => MsgsInv
    BY DEF Init, MsgsInv
  <1>2. MsgsInv /\ [Next]_vars => MsgsInv'
    <2> SUFFICES ASSUME MsgsInv, [Next]_vars PROVE MsgsInv'
      OBVIOUS
    <2>1. {"advance", "retry", "abort", "allComplete"} = Message
      BY DEF Message
    <2>2. ASSUME UNCHANGED msgs PROVE MsgsInv'
      BY <2>2 DEF MsgsInv
    <2>3. CASE Implement
      BY <2>2, <2>3 DEF Implement
    <2>4. CASE TickApply
      <3>1. UNCHANGED msgs \/ Send("advance")
        BY <2>4, ZenonT(30) DEF TickApply, FinishImplementation, DecideWave
      <3>2. QED
        BY <2>1, <2>2, <3>1, MessageFacts
    <2>5. CASE Answer
      <3>1. UNCHANGED msgs \/ \E m \in Message : Send(m)
        BY <2>1, <2>5 DEF Answer, ConfirmKey, AbortKey, CancelKey, EscapeKey
      <3>2. QED
        BY <2>2, <3>1, MessageFacts
    <2>6. CASE Handle
      <3>1. \E m \in Message : Receive(m)
        BY <2>1, <2>6 DEF Handle, HandleAdvance, HandleRetry, HandleAbort, HandleAllComplete
      <3>2. QED
        BY <3>1, MessageFacts
    <2>7. CASE ShowOther
      BY <2>2, <2>7 DEF ShowOther, AskOther, OpenOverlay, CloseOverlay, BrowseSessions,
                  SessionsArrive, Shows
    <2>8. ASSUME NEW t \in Titles, NEW k \in DOMAIN nav[t], MarkComplete(t, k)
          PROVE  MsgsInv'
      BY <2>2, <2>8 DEF MarkComplete
    <2>9. ASSUME NEW graceful \in BOOLEAN, Restart(graceful)
          PROVE  MsgsInv'
      BY <2>9 DEF Restart, MsgsInv
    <2>10. QED
      BY <2>2, <2>3, <2>4, <2>5, <2>6, <2>7, <2>8, <2>9, ControlMovers
  <1>3. QED
    BY <1>1, <1>2, PTL DEF Spec

\* The orchestrator waits for the answer to a dialog.
Latched(o) == o # NoOrch /\ o.waitingForConfirm

\* What a tick does about the waves: it finishes the implementation, decides nothing,
\* or latches a wave that is over and asks about it, once and on a free screen.
LEMMA TickOutcomes ==
    ASSUME SignalInv, OrchInv, ui \in UI, TickApply
    PROVE  \/ /\ orch' = NoOrch /\ ~Latched(orch) /\ msgs' = msgs
              /\ ui' \in {Drained(ui), Confirming(Drained(ui), "allComplete")}
              /\ ui' # Drained(ui) => Drained(ui).screen = "default"
           \/ /\ Latched(orch') <=> Latched(orch)
              /\ Latched(orch) => orch' = orch
              /\ orch' = NoOrch => orch = NoOrch
              /\ ui' = Drained(ui) /\ msgs' = msgs
           \/ /\ Latched(orch') /\ ~Latched(orch) /\ Drained(ui) = ui /\ ui.screen = "default"
              /\ \/ ui' = WaveFailed(ui) /\ TasksWith(orch', "failed") # {} /\ msgs' = msgs
                 \/ ui' = WaveStandard(ui) /\ msgs' = msgs
                 \/ ui' = ui /\ Send("advance")
  <1> DEFINE postponed == deferred /\ ui.screen # "default"
             d == Drained(ui)
  <1>1. PICK r \in Signalled :
           \E o \in {IF r.orch = NoOrch THEN NoOrch ELSE Monitored(r.orch, Observe(r.nav))} :
              IF o # NoOrch /\ r.orch.state = "running" /\ o.state = "allComplete"
              THEN FinishImplementation(Observe(r.nav), d, postponed)
              ELSE DecideWave(o, Observe(r.nav), d, postponed)
    BY DEF TickApply
  <1>2. PICK o \in {IF r.orch = NoOrch THEN NoOrch ELSE Monitored(r.orch, Observe(r.nav))} :
           IF o # NoOrch /\ r.orch.state = "running" /\ o.state = "allComplete"
           THEN FinishImplementation(Observe(r.nav), d, postponed)
           ELSE DecideWave(o, Observe(r.nav), d, postponed)
    BY <1>1
  <1>3. view # NoView
    BY DEF TickApply
  <1>4. /\ r.orch # NoOrch => Ordered(r.orch)
        /\ r.orch = orch \/ (orch = NoOrch /\ ~r.orch.waitingForConfirm)
    <2>1. CASE r.orch = orch
      BY <2>1 DEF OrchInv
    <2>2. CASE r.orch # orch
      <3>1. /\ view.wave - 1 \in 0 .. Len(Plan) /\ view.wave - 1 < Len(Plan)
            /\ orch = NoOrch
            /\ r.orch = StartNextWave(Forwarded[view.wave - 1])
        BY <1>3, <2>2, SignalledFacts
      <3> DEFINE f == Forwarded[view.wave - 1]
      <3>2. Ordered(f) /\ f.state # "allComplete"
        BY <3>1, ForwardedFacts
      <3> HIDE DEF f
      <3>3. Ordered(StartNextWave(f)) /\ ~StartNextWave(f).waitingForConfirm
        BY <3>2, StartNextWaveFacts
      <3>4. QED
        BY <3>1, <3>3 DEF f
    <2>3. QED
      BY <2>1, <2>2
  <1>5. /\ o # NoOrch => r.orch # NoOrch /\ Ordered(o)
        /\ Latched(o) <=> Latched(orch)
        /\ Latched(orch) => o = orch
        /\ r.orch.state = "running" => ~Latched(orch)
        /\ o = NoOrch => r.orch = NoOrch \/ Monitored(r.orch, Observe(r.nav)) = NoOrch
    <2>1. CASE r.orch = NoOrch
      <3>1. o = NoOrch /\ orch = NoOrch
        BY <1>2, <1>4, <2>1
      <3>2. QED
        BY <2>1, <3>1 DEF Latched
    <2>2. CASE r.orch # NoOrch
      <3>1. o = Monitored(r.orch, Observe(r.nav))
        BY <1>2, <2>2
      <3>2. Ordered(o) /\ (o.waitingForConfirm <=> r.orch.waitingForConfirm)
            /\ (r.orch.state # "running" => o = r.orch)
        BY <1>4, <2>2, <3>1, MonitoredFacts
      <3>3. r.orch.waitingForConfirm => r.orch.state = "waveComplete"
        BY <1>4, <2>2 DEF Ordered, WellFormed
      <3>4. QED
        BY <1>4, <2>2, <3>1, <3>2, <3>3 DEF Latched
    <2>3. QED
      BY <2>1, <2>2
  <1> HIDE DEF postponed, d
  <1>6. CASE o # NoOrch /\ r.orch.state = "running" /\ o.state = "allComplete"
    <2>1. FinishImplementation(Observe(r.nav), d, postponed)
      BY <1>2, <1>6
    <2>2. QED
      BY <1>5, <1>6, <2>1 DEF FinishImplementation, d
  <1>7. CASE ~(o # NoOrch /\ r.orch.state = "running" /\ o.state = "allComplete")
    <2>1. DecideWave(o, Observe(r.nav), d, postponed)
      BY <1>2, <1>7
    <2> DEFINE ask == /\ o # NoOrch /\ o.state = "waveComplete"
                      /\ d.screen = "default" /\ ~cooldown /\ NeedsConfirm(o)
    <2>2. CASE ~ask
      <3>1. orch' = o /\ ui' = d /\ msgs' = msgs
        BY <2>1, <2>2 DEF DecideWave
      <3>2. CASE o # NoOrch
        BY <1>5, <3>1, <3>2 DEF d
      <3>3. CASE o = NoOrch
        <4>1. ~Latched(orch) /\ ~Latched(orch')
          BY <1>5, <3>1, <3>3 DEF Latched
        <4>2. QED
          BY <1>5, <3>1, <3>3, <4>1 DEF d
      <3>4. QED
        BY <3>2, <3>3
    <2>3. CASE ask
      <3>1. /\ orch' = TakeConfirm(o)
            /\ \/ ui' = WaveFailed(d) /\ TasksWith(o, "failed") # {} /\ msgs' = msgs
               \/ ui' = WaveStandard(d) /\ msgs' = msgs
               \/ ui' = d /\ Send("advance")
        BY <2>1, <2>3 DEF DecideWave
      <3>2. /\ Ordered(o) /\ ~o.waitingForConfirm /\ o.state = "waveComplete"
            /\ d.screen = "default"
        BY <1>5, <2>3 DEF NeedsConfirm
      <3>3. d = ui
        <4>1. Confirming(ui, "allComplete").screen = "confirm"
          BY ConfirmingFields DEF Message
        <4>2. QED
          BY <3>2, <4>1 DEF d, Drained
      <3>4. /\ orch'.waitingForConfirm
            /\ orch'.currentWave = o.currentWave
            /\ orch'.plan = o.plan /\ orch'.taskStates = o.taskStates
        BY <3>1, <3>2, LatchFacts
      <3>5. TasksWith(orch', "failed") = TasksWith(o, "failed")
        BY <3>4 DEF TasksWith, CurrentWaveTasks, PastLastWave
      <3>6. orch' # NoOrch
        BY <3>1, <3>2, MethodsKeepOrder, ControlAssumption DEF Ordered, WellFormed
      <3>7. QED
        BY <1>5, <3>1, <3>2, <3>3, <3>4, <3>5, <3>6 DEF Latched, d
    <2>4. QED
      BY <2>2, <2>3
  <1>8. QED
    BY <1>6, <1>7


\* A set latch has the dialog of the wave on screen or its answer on the way, and a
\* retry is only offered and sent for a wave with failed tasks.
LatchInv ==
    Latched(orch) =>
        \/ /\ ui.screen = "confirm" /\ ui.wave
           /\ ui.confirm = "retry" => TasksWith(orch, "failed") # {}
        \/ msgs["advance"] > 0 \/ msgs["abort"] > 0
        \/ msgs["retry"] > 0 /\ TasksWith(orch, "failed") # {}

\* Ending a running task by hand ends this task alone, in a wave without a latch.
LEMMA MarkCompleteFacts ==
    ASSUME NEW o, Ordered(o), NEW t \in TaskNumbers, IsTaskRunning(o, t),
           NEW n, n = MarkTaskComplete(o, t)
    PROVE  /\ Ordered(n) /\ ~o.waitingForConfirm /\ ~n.waitingForConfirm
           /\ n.currentWave = o.currentWave
           /\ \A u \in TaskNumbers : n.taskStates[u] =
                 IF u = t THEN "complete" ELSE o.taskStates[u]
  <1>1. WellFormed(o) /\ o \in Orchestrator
    BY DEF Ordered, WellFormed
  <1>2. ~o.waitingForConfirm
    <2>1. t \in CurrentWaveTasks(o) /\ ~Resolved(o, t)
      BY <1>1 DEF WellFormed, IsTaskRunning, Resolved
    <2>2. QED
      BY <1>1, <2>1 DEF WellFormed
  <1> DEFINE m == SetTasks(o, {t}, "complete")
  <1>3. /\ m \in Orchestrator /\ m.currentWave = o.currentWave
        /\ m.waitingForConfirm = o.waitingForConfirm
        /\ \A u \in TaskNumbers : m.taskStates[u] = IF u \in {t} THEN "complete"
                                                           ELSE o.taskStates[u]
    BY <1>1, SetTasksType DEF TaskStatus
  <1>4. n = CheckWaveComplete(m)
    BY DEF MarkTaskComplete, MarkTask, IsTaskRunning
  <1> HIDE DEF m
  <1>5. /\ n.currentWave = m.currentWave /\ n.taskStates = m.taskStates
        /\ n.waitingForConfirm = m.waitingForConfirm
    BY <1>3, <1>4, CheckWaveCompleteFrame
  <1>6. Ordered(n)
    BY MethodsKeepOrder
  <1>7. ~n.waitingForConfirm
    BY <1>2, <1>3, <1>5
  <1>8. QED
    BY <1>2, <1>3, <1>5, <1>6, <1>7

\* A title's task is a task number.
LEMMA TitleTasks == \A t \in Titles : t[2] \in TaskNumbers
  <1> SUFFICES ASSUME NEW t \in Titles PROVE t[2] \in TaskNumbers
    OBVIOUS
  <1>1. PICK j \in DOMAIN Plan : t \in {<<Plan[j].number, u>> : u \in Plan[j].tasks}
    BY DEF Titles
  <1>2. Plan[j] \in Wave
    BY ControlAssumption
  <1>3. QED
    BY <1>1, <1>2 DEF Wave

\* The latch is set over a wave that is over; starting a wave leaves none.
LEMMA LatchedIsOver ==
    ASSUME OrchInv
    PROVE  /\ Latched(orch) => Ordered(orch) /\ orch.state = "waveComplete"
           /\ orch # NoOrch => ~Latched(StartNextWave(orch))
  <1>1. orch # NoOrch => Ordered(orch) /\ WellFormed(orch)
    BY DEF OrchInv, Ordered
  <1>2. Latched(orch) => Ordered(orch) /\ orch.state = "waveComplete"
    BY <1>1 DEF Latched, WellFormed
  <1>3. ASSUME orch # NoOrch PROVE ~StartNextWave(orch).waitingForConfirm
    <2>1. CASE orch.state = "allComplete"
      <3>1. StartNextWave(orch) = orch /\ ~orch.waitingForConfirm
        BY <1>1, <1>3, <2>1 DEF StartNextWave, WellFormed
      <3>2. QED
        BY <3>1
    <2>2. CASE orch.state # "allComplete"
      BY <1>1, <1>3, <2>2, StartNextWaveFacts
    <2>3. QED
      BY <2>1, <2>2
  <1>4. QED
    BY <1>2, <1>3 DEF Latched

\* The latch is unset by everything that takes a decision about the wave, and by
\* everything that makes an orchestrator.
LEMMA LatchInvStep ==
    ASSUME ~Interruptions, SignalInv, OrchInv, UIInv, MsgsInv, MsgsInv', LatchInv, [Next]_vars
    PROVE  LatchInv'
  <1>1. ui \in UI /\ PendingIsOfWave /\ PendingIsShown
    BY DEF UIInv
  <1>2. /\ {"advance", "retry", "abort", "allComplete"} = Message
        /\ \A m \in Message : msgs[m] \in Nat /\ msgs'[m] \in Nat
    BY DEF MsgsInv, Message
  <1> DEFINE Sent == \/ msgs["advance"] > 0 \/ msgs["abort"] > 0
                     \/ msgs["retry"] > 0 /\ TasksWith(orch, "failed") # {}
             Shown == /\ ui.screen = "confirm" /\ ui.wave
                      /\ ui.confirm = "retry" => TasksWith(orch, "failed") # {}
             MoreSent == \A m \in {"advance", "retry", "abort"} : msgs'[m] >= msgs[m]
  <1>3. Latched(orch) => Shown \/ Sent
    BY DEF LatchInv
  <1>4. ASSUME Sent, orch' = orch, MoreSent PROVE Sent'
    <2>1. /\ msgs["advance"] \in Nat /\ msgs["abort"] \in Nat /\ msgs["retry"] \in Nat
          /\ msgs'["advance"] \in Nat /\ msgs'["abort"] \in Nat /\ msgs'["retry"] \in Nat
          /\ msgs'["advance"] >= msgs["advance"] /\ msgs'["abort"] >= msgs["abort"]
          /\ msgs'["retry"] >= msgs["retry"]
      BY <1>2, <1>4
    <2>2. QED
      BY <1>4, <2>1
  <1>5. ASSUME UNCHANGED msgs PROVE MoreSent
    BY <1>2, <1>5
  <1>6. ASSUME Shown' \/ Sent' PROVE LatchInv'
    BY <1>6 DEF LatchInv
  <1>7. ASSUME ~Latched(orch') PROVE LatchInv'
    BY <1>7 DEF LatchInv, Latched
  <1>8. ASSUME NEW m \in {"advance", "retry", "abort"}, msgs[m] \in Nat, Send(m)
        PROVE  MoreSent /\ msgs'[m] > 0
    BY <1>2, <1>8, MessageFacts
  <1> HIDE DEF Sent, Shown, MoreSent
  <1>9. CASE Implement
    <2>1. orch' = StartNextWave(NewWaveOrchestrator(Plan)) \/ orch' = NewWaveOrchestrator(Plan)
      BY <1>9 DEF Implement, StartNextWaveOf
    <2> DEFINE new == NewWaveOrchestrator(Plan)
    <2>2. Ordered(new) /\ new.state = "idle" /\ ~new.waitingForConfirm
      BY NewOrdered
    <2> HIDE DEF new
    <2>3. ~StartNextWave(new).waitingForConfirm
      BY <2>2, StartNextWaveFacts
    <2>4. ~orch'.waitingForConfirm
      BY <2>1, <2>2, <2>3 DEF new
    <2>5. QED
      BY <1>7, <2>4 DEF Latched
  <1>10. CASE TickApply
    <2>1. ASSUME Latched(orch) => orch' = orch, Latched(orch') => Latched(orch),
                 ui' = Drained(ui), msgs' = msgs
          PROVE  LatchInv'
      <3>1. ASSUME Latched(orch') PROVE Shown' \/ Sent'
        <4>1. orch' = orch /\ (Shown \/ Sent) /\ MoreSent
          BY <1>3, <1>5, <2>1, <3>1
        <4>2. CASE Sent
          BY <1>4, <4>1, <4>2
        <4>3. CASE Shown
          <5>1. ui' = ui
            BY <2>1, <4>3 DEF Drained, Shown
          <5>2. QED
            BY <4>1, <4>3, <5>1 DEF Shown
        <4>4. QED
          BY <4>1, <4>2, <4>3
      <3>2. QED
        BY <1>6, <1>7, <3>1
    <2>2. ASSUME ui' = WaveFailed(ui), TasksWith(orch', "failed") # {}
          PROVE  Shown'
      BY <1>1, <2>2, WaveDialogFields DEF Shown
    <2>3. ASSUME ui' = WaveStandard(ui)
          PROVE  Shown'
      BY <1>1, <2>3, WaveDialogFields DEF Shown
    <2>4. ASSUME Send("advance")
          PROVE  Sent'
      BY <1>2, <1>8, <2>4 DEF Sent
    <2>5. ~Latched(NoOrch)
      BY DEF Latched
    <2>6. QED
      BY <1>1, <1>6, <1>7, <1>10, <2>1, <2>2, <2>3, <2>4, <2>5, TickOutcomes
  <1>11. CASE Answer
    <2>1. ui.screen = "confirm"
      BY <1>11 DEF Answer, ConfirmKey, AbortKey, CancelKey, EscapeKey
    <2>2. \/ orch' = orch /\ UNCHANGED msgs /\ ~ui.wave
          \/ orch' = orch /\ Send("allComplete") /\ ~ui.wave
          \/ orch' = orch /\ (Send("advance") \/ Send("abort"))
          \/ orch' = orch /\ Send("retry") /\ ui.confirm = "retry" /\ ui.wave
          \/ ~Latched(orch')
      <3>1. CASE ConfirmKey
        <4>1. orch' = orch /\ (IF ui.confirm \in Message THEN Send(ui.confirm) ELSE UNCHANGED msgs)
          BY <3>1 DEF ConfirmKey
        <4>2. QED
          BY <1>1, <1>2, <2>1, <4>1 DEF PendingIsShown
      <3>2. CASE AbortKey
        BY <3>2 DEF AbortKey
      <3>3. CASE CancelKey \/ EscapeKey
        <4>1. \/ orch' = orch /\ Send("advance")
              \/ orch' = Unlatched /\ UNCHANGED msgs
          BY <3>3 DEF CancelKey, EscapeKey
        <4>2. CASE orch' = Unlatched /\ UNCHANGED msgs
          <5>1. CASE ui.wave /\ orch # NoOrch
            <6>1. Ordered(orch) /\ orch' = ResetConfirm(orch)
              BY <4>2, <5>1 DEF OrchInv, Unlatched
            <6>2. ~ResetConfirm(orch).waitingForConfirm
              BY <6>1, LatchFacts
            <6>3. QED
              BY <6>1, <6>2 DEF Latched
          <5>2. CASE ~(ui.wave /\ orch # NoOrch)
            BY <4>2, <5>2 DEF Unlatched, Latched
          <5>3. QED
            BY <5>1, <5>2
        <4>3. QED
          BY <4>1, <4>2
      <3>4. QED
        BY <1>11, <3>1, <3>2, <3>3 DEF Answer
    <2>3. ASSUME orch' = orch, ~ui.wave, MoreSent PROVE LatchInv'
      <3>1. Latched(orch) => Sent
        BY <1>3, <2>3 DEF Shown
      <3>2. QED
        BY <1>4, <1>6, <1>7, <2>3, <3>1
    <2>4. Send("allComplete") => MoreSent
      <3>1. ASSUME Send("allComplete"), NEW m \in {"advance", "retry", "abort"}
            PROVE  msgs'[m] = msgs[m]
        BY <1>2, <3>1, MessageFacts
      <3>2. QED
        BY <1>2, <3>1 DEF MoreSent
    <2>5. ASSUME Send("advance") \/ Send("abort") PROVE Sent'
      BY <1>2, <1>8, <2>5 DEF Sent
    <2>6. ASSUME orch' = orch, Send("retry"), ui.confirm = "retry", ui.wave PROVE LatchInv'
      <3>1. Latched(orch) => TasksWith(orch, "failed") # {} \/ Sent
        BY <1>3, <2>6 DEF Shown
      <3>2. MoreSent /\ msgs'["retry"] > 0
        BY <1>2, <1>8, <2>6
      <3>3. TasksWith(orch, "failed") # {} => Sent'
        BY <2>6, <3>2 DEF Sent
      <3>4. QED
        BY <1>4, <1>6, <1>7, <2>6, <3>1, <3>2, <3>3
    <2>7. QED
      BY <1>5, <1>6, <1>7, <2>2, <2>3, <2>4, <2>5, <2>6
  <1>12. CASE HandleAdvance
    <2>1. IF orch = NoOrch THEN orch' = orch ELSE orch' = StartNextWave(orch)
      BY <1>12 DEF HandleAdvance, StartNextWaveOf
    <2>2. ~Latched(orch')
      BY <2>1, LatchedIsOver DEF Latched
    <2>3. QED
      BY <1>7, <2>2
  <1>13. CASE HandleRetry
    <2> DEFINE failed == IF orch = NoOrch THEN {} ELSE TasksWith(orch, "failed")
    <2>1. /\ Receive("retry") /\ UNCHANGED ui
          /\ IF failed = {} THEN orch' = orch ELSE orch' = RetryFailedTasks(orch)
      BY <1>13 DEF HandleRetry
    <2>2. CASE failed # {}
      <3>1. Ordered(orch) /\ orch' = RetryFailedTasks(orch) /\ TasksWith(orch, "failed") # {}
        BY <2>1, <2>2 DEF OrchInv
      <3>2. ~RetryFailedTasks(orch).waitingForConfirm
        BY <3>1, RetryFacts
      <3>3. QED
        BY <1>7, <3>1, <3>2 DEF Latched
    <2>3. CASE failed = {}
      <3>1. orch' = orch /\ (Latched(orch) => TasksWith(orch, "failed") = {})
        BY <2>1, <2>3 DEF Latched
      <3>2. msgs'["advance"] = msgs["advance"] /\ msgs'["abort"] = msgs["abort"]
        BY <1>2, <2>1, MessageFacts
      <3>3. Latched(orch) /\ Sent => Sent'
        BY <3>1, <3>2 DEF Sent
      <3>4. Shown => Shown'
        BY <2>1, <3>1 DEF Shown
      <3>5. QED
        BY <1>3, <1>6, <1>7, <3>1, <3>3, <3>4
    <2>4. QED
      BY <2>2, <2>3
  <1>14. CASE HandleAbort
    BY <1>7, <1>14 DEF HandleAbort, Latched
  <1>15. CASE HandleAllComplete
    <2>1. Receive("allComplete") /\ UNCHANGED <<orch, ui>>
      BY <1>15 DEF HandleAllComplete
    <2>2. msgs'["advance"] = msgs["advance"] /\ msgs'["abort"] = msgs["abort"]
          /\ msgs'["retry"] = msgs["retry"]
      BY <1>2, <2>1, MessageFacts
    <2>3. (Shown => Shown') /\ (Sent => Sent')
      BY <2>1, <2>2 DEF Shown, Sent
    <2>4. QED
      BY <1>3, <1>6, <1>7, <2>1, <2>3
  <1>16. CASE ShowOther
    <2>1. UNCHANGED <<orch, msgs>> /\ (ui.screen # "confirm" \/ ui.browsing)
      BY <1>16 DEF ShowOther, AskOther, OpenOverlay, CloseOverlay, BrowseSessions,
                   SessionsArrive, Shows
    <2>2. Latched(orch) => Sent
      BY <1>1, <1>3, <2>1 DEF Shown, PendingIsShown
    <2>3. QED
      BY <1>4, <1>5, <1>6, <1>7, <2>1, <2>2
  <1>17. ASSUME NEW t \in Titles, NEW k \in DOMAIN nav[t], MarkComplete(t, k)
         PROVE  LatchInv'
    <2>1. /\ Ordered(orch) /\ IsTaskRunning(orch, t[2]) /\ t[2] \in TaskNumbers
          /\ orch' = MarkTaskComplete(orch, t[2])
      BY <1>17, TitleTasks DEF MarkComplete, OrchInv
    <2>2. ~MarkTaskComplete(orch, t[2]).waitingForConfirm
      BY <2>1, MarkCompleteFacts
    <2>3. QED
      BY <1>7, <2>1, <2>2 DEF Latched
  <1>18. ASSUME NEW graceful \in BOOLEAN, Restart(graceful)
         PROVE  LatchInv'
    <2>1. \E n : orch' = Rebuilt(n)
      BY <1>18 DEF Restart
    <2>2. QED
      BY <1>7, <2>1, RebuiltOrdered DEF Latched
  <1>19. CASE UNCHANGED <<orch, ui, msgs>>
    <2>1. (Shown => Shown') /\ (Sent => Sent')
      BY <1>19 DEF Shown, Sent
    <2>2. QED
      BY <1>3, <1>6, <1>7, <1>19, <2>1
  <1>20. QED
    BY <1>9, <1>10, <1>11, <1>12, <1>13, <1>14, <1>15, <1>16, <1>17, <1>18, <1>19,
       ControlMovers DEF Handle

\* A wave whose one-shot latch is set is never left without a dialog or an answer on its
\* way, as long as no overlay arrives over a dialog.
THEOREM LatchIsAnswerableTheorem == ~Interruptions => (Spec => []LatchIsAnswerable)
  <1> SUFFICES ASSUME ~Interruptions PROVE Spec => []LatchIsAnswerable
    OBVIOUS
  <1>1. Init => LatchInv
    BY DEF Init, LatchInv, Latched
  <1>2. SignalInv /\ OrchInv /\ UIInv /\ MsgsInv /\ MsgsInv' /\ LatchInv /\ [Next]_vars => LatchInv'
    BY LatchInvStep
  <1>3. LatchInv => LatchIsAnswerable
    BY DEF LatchInv, LatchIsAnswerable, Latched
  <1>4. QED
    BY <1>1, <1>2, <1>3, SignalInvInvariant, OrchInvInvariant, UIInvInvariant, MsgsInvInvariant,
       PTL DEF Spec

----------------------------------------------------------------------------
(* The lists of instances *)

\* Selecting keeps the type of what is selected, and selects nothing twice.
LEMMA SelectedFacts ==
    ASSUME NEW B, NEW s \in Seq(B), NEW A, NEW K, \A k \in DOMAIN s : k \in K => s[k] \in A
    PROVE  Selected(s, K) \in Seq(A) /\ Len(Selected(s, K)) <= Len(s)
  <1> DEFINE N == Len(s)
             next(k, q) == IF k \in K THEN Append(q, s[k]) ELSE q
             step == [k \in 1 .. N |-> [q \in Seq(A) |-> next(k, q)]]
             Eqn(f) == f = [k \in 0 .. N |-> IF k = 0 THEN << >> ELSE next(k, f[k - 1])]
  <1>1. N \in Nat /\ DOMAIN s = 1 .. N
    OBVIOUS
  <1>2. << >> \in Seq(A)
    OBVIOUS
  <1>3. \A k \in 1 .. N : \A q \in Seq(A) : next(k, q) \in Seq(A) /\ Len(next(k, q)) <= Len(q) + 1
    BY <1>1
  <1> HIDE DEF next, N
  <1>4. step \in [1 .. N -> [Seq(A) -> Seq(A)]]
    BY <1>3
  <1>5. PICK f : DefinedBySteps(f, N, Seq(A), << >>, step)
    <2> HIDE DEF step
    <2> QED
      BY <1>1, <1>2, <1>4, Recursion
  <1>6. /\ f \in [0 .. N -> Seq(A)] /\ f[0] = << >>
        /\ \A k \in 1 .. N : f[k] = next(k, f[k - 1])
    <2>1. /\ f \in [0 .. N -> Seq(A)] /\ f[0] = << >>
          /\ \A k \in 1 .. N : f[k] = step[k][f[k - 1]]
      BY <1>5 DEF DefinedBySteps
    <2>2. \A k \in 1 .. N : k - 1 \in 0 .. N
      BY <1>1
    <2>3. QED
      BY <2>1, <2>2
  <1>7. Eqn(f)
    <2>1. \A k \in 0 .. N : f[k] = IF k = 0 THEN << >> ELSE next(k, f[k - 1])
      BY <1>1, <1>6
    <2>2. QED
      BY <1>6, <2>1
  <1> DEFINE list == CHOOSE g : Eqn(g)
  <1>8. Eqn(list)
    <2> HIDE DEF Eqn
    <2> QED
      BY <1>7
  <1>9. Selected(s, K) = list[N]
    BY DEF Selected, next, N
  <1> HIDE DEF list
  <1>10. list[0] = << >> /\ \A k \in 1 .. N : list[k] = next(k, list[k - 1])
    BY <1>1, <1>8
  <1> DEFINE I == {k \in Nat : k <= N => list[k] \in Seq(A) /\ Len(list[k]) <= k}
  <1>11. I = Nat
    <2>1. I \in SUBSET Nat
      OBVIOUS
    <2>2. 0 \in I
      <3>1. list[0] = << >> /\ Len(<< >>) = 0
        BY <1>10
      <3>2. list[0] \in Seq(A) /\ Len(list[0]) <= 0
        BY <1>2, <3>1
      <3>3. QED
        BY <3>2
    <2>3. ASSUME NEW k \in I PROVE k + 1 \in I
      <3> SUFFICES ASSUME k + 1 <= N
                   PROVE  list[k + 1] \in Seq(A) /\ Len(list[k + 1]) <= k + 1
        OBVIOUS
      <3>1. k \in Nat /\ k + 1 \in 1 .. N /\ list[k] \in Seq(A) /\ Len(list[k]) <= k
        BY <1>1
      <3>2. list[k + 1] = next(k + 1, list[k])
        BY <1>10, <3>1
      <3>3. list[k + 1] \in Seq(A) /\ Len(list[k + 1]) <= Len(list[k]) + 1
        BY <1>3, <3>1, <3>2
      <3>4. QED
        BY <3>1, <3>3
    <2> HIDE DEF I
    <2>4. QED
      BY <2>1, <2>2, <2>3, NatSetInduction
  <1>12. N \in I
    BY <1>1, <1>11
  <1>13. QED
    BY <1>1, <1>9, <1>12 DEF N

\* A list that is made from another one element by element.
LEMMA MappedFacts ==
    ASSUME NEW A, NEW B, NEW s \in Seq(A), NEW m, DOMAIN m = DOMAIN s,
           m = [k \in DOMAIN s |-> m[k]],
           \A k \in DOMAIN s : m[k] \in B
    PROVE  m \in Seq(B) /\ Len(m) = Len(s)
  <1>1. Len(s) \in Nat /\ DOMAIN s = 1 .. Len(s)
    OBVIOUS
  <1>2. m \in [1 .. Len(s) -> B]
    BY <1>1
  <1>3. QED
    BY <1>1, <1>2

\* The sidebar's instances, per title.
Lists == [Titles -> Seq(Instance)]
Files == [Titles -> Seq({"live", "paused"})]   \* the state file

\* What is done to the lists of the sidebar keeps their type.  Only spawnWaveTasks
\* makes one longer.
LEMMA AddedFacts ==
    ASSUME NEW n \in Lists, NEW S
    PROVE  /\ Added(n, S) \in Lists
           /\ \A t \in Titles : Len(Added(n, S)[t]) = IF t \in S THEN Len(n[t]) + 1 ELSE Len(n[t])
  <1>1. [phase |-> "loading", prompt |-> FALSE] \in Instance
    BY DEF Instance
  <1>2. \A t \in Titles : n[t] \in Seq(Instance)
    BY DEF Lists
  <1> DEFINE i == [phase |-> "loading", prompt |-> FALSE]
  <1> HIDE DEF i
  <1>3. Added(n, S) = [t \in Titles |-> IF t \in S THEN Append(n[t], i) ELSE n[t]]
    BY DEF Added, i
  <1>4. \A t \in Titles : Append(n[t], i) \in Seq(Instance) /\ Len(Append(n[t], i)) = Len(n[t]) + 1
    BY <1>1, <1>2 DEF i
  <1>5. QED
    BY <1>2, <1>3, <1>4 DEF Lists

\* Removing all instances of some titles.
LEMMA ClearedFacts ==
    ASSUME NEW n \in Lists, NEW S
    PROVE  /\ Cleared(n, S) \in Lists
           /\ \A t \in Titles : Len(Cleared(n, S)[t]) = IF t \in S THEN 0 ELSE Len(n[t])
  BY DEF Cleared, Lists

\* Removing the first instance of some titles.
LEMMA RemovedFacts ==
    ASSUME NEW n \in Lists, NEW S
    PROVE  /\ Removed(n, S) \in Lists
           /\ \A t \in Titles : Len(Removed(n, S)[t]) <= Len(n[t])
  <1>1. \A t \in Titles : n[t] # << >> => Tail(n[t]) \in Seq(Instance)
          /\ Len(Tail(n[t])) <= Len(n[t])
    BY DEF Lists
  <1>2. \A t \in Titles : n[t] \in Seq(Instance) /\ Len(n[t]) <= Len(n[t])
    BY DEF Lists
  <1>3. QED
    BY <1>1, <1>2 DEF Removed, Lists

\* Replacing one instance, and the instances of every list one by one.
LEMMA ReplacedFacts ==
    ASSUME NEW n \in Lists, NEW t \in Titles, NEW k \in DOMAIN n[t], NEW i \in Instance
    PROVE  /\ [n EXCEPT ![t][k] = i] \in Lists
           /\ \A u \in Titles : Len([n EXCEPT ![t][k] = i][u]) = Len(n[u])
  <1>1. n[t] \in Seq(Instance)
    BY DEF Lists
  <1> DEFINE l == [n[t] EXCEPT ![k] = i]
  <1>2. l \in Seq(Instance) /\ Len(l) = Len(n[t])
    BY <1>1
  <1> HIDE DEF l
  <1>3. [n EXCEPT ![t][k] = i] = [n EXCEPT ![t] = l]
    BY DEF l
  <1>4. QED
    BY <1>2, <1>3 DEF Lists

\* Changing instances in place.
LEMMA EachFacts ==
    ASSUME NEW n \in Lists, NEW m, m = [t \in Titles |-> m[t]],
           \A t \in Titles : m[t] = [k \in DOMAIN n[t] |-> m[t][k]],
           \A t \in Titles : \A k \in DOMAIN n[t] : m[t][k] \in Instance
    PROVE  m \in Lists /\ \A t \in Titles : Len(m[t]) = Len(n[t])
  <1>1. ASSUME NEW t \in Titles
        PROVE  m[t] \in Seq(Instance) /\ Len(m[t]) = Len(n[t])
    <2> DEFINE l == m[t]
               s == n[t]
    <2>1. l = [k \in DOMAIN s |-> l[k]] /\ s \in Seq(Instance)
      BY DEF Lists
    <2>2. DOMAIN l = DOMAIN s /\ \A k \in DOMAIN s : l[k] \in Instance
      BY <2>1
    <2> HIDE DEF l, s
    <2>3. l \in Seq(Instance) /\ Len(l) = Len(s)
      BY <2>1, <2>2, MappedFacts
    <2>4. QED
      BY <2>3 DEF l, s
  <1>2. QED
    BY <1>1 DEF Lists

\* Saving the instances that have started.
LEMMA SaveFacts ==
    ASSUME NEW n \in Lists
    PROVE  /\ Save(n) \in Files
           /\ \A t \in Titles : Len(Save(n)[t]) <= Len(n[t])
  <1> DEFINE A == {i \in Instance : Started(i)}
             started(t) == Selected(n[t], StartedPositions(n[t]))
  <1>1. ASSUME NEW t \in Titles
        PROVE  /\ Save(n)[t] \in Seq({"live", "paused"})
               /\ Len(Save(n)[t]) <= Len(n[t])
    <2>1. n[t] \in Seq(Instance)
      BY DEF Lists
    <2>2. \A k \in DOMAIN n[t] : k \in StartedPositions(n[t]) => n[t][k] \in A
      BY <2>1 DEF StartedPositions
    <2>3. started(t) \in Seq(A) /\ Len(started(t)) <= Len(n[t])
      <3> HIDE DEF A
      <3> QED
        BY <2>1, <2>2, SelectedFacts
    <2> DEFINE s == started(t)
    <2>4. Save(n)[t] = [k \in DOMAIN s |-> s[k].phase]
      BY DEF Save
    <2> HIDE DEF s
    <2>5. \A k \in DOMAIN s : s[k] \in A
      BY <2>3 DEF s
    <2>6. \A k \in DOMAIN s : s[k].phase \in {"live", "paused"}
      BY <2>5 DEF Started
    <2>7. Save(n)[t] \in Seq({"live", "paused"}) /\ Len(Save(n)[t]) = Len(s)
      <3> DEFINE m == Save(n)[t]
                 P == {"live", "paused"}
      <3>1. DOMAIN m = DOMAIN s /\ m = [k \in DOMAIN s |-> m[k]] /\ \A k \in DOMAIN s : m[k] \in P
        BY <2>4, <2>6
      <3>2. s \in Seq(A)
        BY <2>3 DEF s
      <3> HIDE DEF m, P, A
      <3>3. m \in Seq(P) /\ Len(m) = Len(s)
        BY <3>1, <3>2, MappedFacts
      <3>4. QED
        BY <3>3 DEF m, P
    <2>8. QED
      BY <2>3, <2>7 DEF s
  <1>2. QED
    BY <1>1 DEF Save, Files

\* n is made of lists that are not longer than those of m.
Shrunk(n, m) == n \in Lists /\ \A t \in Titles : Len(n[t]) <= Len(m[t])

\* Pausing some instances, and applying what the tick collected, is done to each one.
LEMMA PausedFacts ==
    ASSUME NEW n \in Lists, NEW m, NEW c,
           m = [t \in Titles |-> [k \in DOMAIN n[t] |-> PauseIf(n[t][k], c[t][k])]]
    PROVE  m \in Lists /\ \A t \in Titles : Len(m[t]) = Len(n[t])
  <1>1. \A t \in Titles : \A k \in DOMAIN n[t] : n[t][k] \in Instance
    BY DEF Lists
  <1>2. \A i \in Instance : [i EXCEPT !.phase = "paused"] \in Instance
    BY DEF Instance
  <1>3. \A t \in Titles : \A k \in DOMAIN n[t] : m[t][k] \in Instance
    BY <1>1, <1>2 DEF PauseIf
  <1>4. m = [t \in Titles |-> m[t]] /\ \A t \in Titles : m[t] = [k \in DOMAIN n[t] |-> m[t][k]]
    OBVIOUS
  <1>5. n \in Lists
    OBVIOUS
  <1>6. QED
    BY ONLY <1>3, <1>4, <1>5, EachFacts

\* Noting what a tick saw of the instances.
LEMMA ObserveFacts ==
    ASSUME NEW n \in Lists
    PROVE  Observe(n) \in Lists /\ \A t \in Titles : Len(Observe(n)[t]) = Len(n[t])
  <1>1. ASSUME NEW i \in Instance, NEW seen PROVE Observed(i, seen) \in Instance
    <2>1. i.phase \in {"loading", "failed", "live", "paused"}
          /\ [i EXCEPT !.prompt = TRUE] \in Instance
      BY DEF Instance
    <2>2. [phase |-> IF i.phase = "paused" THEN "live" ELSE i.phase, prompt |-> FALSE] \in Instance
      BY <2>1 DEF Instance
    <2>3. QED
      BY <2>1, <2>2 DEF Observed
  <1>2. ASSUME NEW t \in Titles
        PROVE  Observe(n)[t] \in Seq(Instance) /\ Len(Observe(n)[t]) = Len(n[t])
    <2>1. n[t] \in Seq(Instance)
      BY DEF Lists
    <2>2. CASE n[t] = << >>
      BY <2>1, <2>2 DEF Observe, Missing
    <2>3. CASE n[t] # << >>
      <3> DEFINE j == Len(n[t])
                 i == Observed(n[t][j], view.seen[t])
      <3>1. j \in 1 .. Len(n[t]) /\ n[t][j] \in Instance
        BY <2>1, <2>3
      <3>2. i \in Instance
        BY <1>1, <3>1
      <3>3. Observe(n)[t] = [n[t] EXCEPT ![j] = i]
        BY <2>3 DEF Observe, Missing
      <3> HIDE DEF i, j
      <3>4. QED
        BY <2>1, <3>1, <3>2, <3>3
    <2>4. QED
      BY <2>2, <2>3
  <1>3. QED
    BY <1>2 DEF Observe, Lists

\* Dropping the started instances, as a restart does.
LEMMA EmptiedFacts ==
    ASSUME NEW n \in Lists, NEW m,
           m = [t \in Titles |-> Selected(n[t], DOMAIN n[t] \ StartedPositions(n[t]))]
    PROVE  Shrunk(m, n)
  <1>1. ASSUME NEW t \in Titles
        PROVE  m[t] \in Seq(Instance) /\ Len(m[t]) <= Len(n[t])
    <2> DEFINE s == n[t]
               K == DOMAIN n[t] \ StartedPositions(n[t])
    <2>1. s \in Seq(Instance) /\ \A k \in DOMAIN s : k \in K => s[k] \in Instance
      BY DEF Lists
    <2>2. m[t] = Selected(s, K)
      OBVIOUS
    <2> HIDE DEF s, K
    <2>3. Selected(s, K) \in Seq(Instance) /\ Len(Selected(s, K)) <= Len(s)
      BY <2>1, SelectedFacts
    <2>4. QED
      BY <2>2, <2>3 DEF s
  <1>2. QED
    BY <1>1 DEF Shrunk, Lists

\* The instances a restart finds.
LEMMA ReadFacts ==
    ASSUME NEW f \in Files, NEW m,
           m = [t \in Titles |-> [k \in DOMAIN f[t] |-> [phase |-> f[t][k], prompt |-> FALSE]]]
    PROVE  m \in Lists /\ \A t \in Titles : Len(m[t]) = Len(f[t])
  <1>1. ASSUME NEW t \in Titles
        PROVE  m[t] \in Seq(Instance) /\ Len(m[t]) = Len(f[t])
    <2> DEFINE l == m[t]
               s == f[t]
               P == {"live", "paused"}
    <2>1. s \in Seq(P)
      BY DEF Files
    <2>2. l = [k \in DOMAIN s |-> [phase |-> s[k], prompt |-> FALSE]]
      OBVIOUS
    <2> HIDE DEF l, s
    <2>3. \A k \in DOMAIN s : l[k] \in Instance
      <3>1. \A k \in DOMAIN s : s[k] \in P
        BY <2>1
      <3>2. QED
        BY <2>2, <3>1 DEF Instance
    <2>4. DOMAIN l = DOMAIN s /\ l = [k \in DOMAIN s |-> l[k]]
      BY <2>2
    <2> HIDE DEF P
    <2>5. l \in Seq(Instance) /\ Len(l) = Len(s)
      BY <2>1, <2>3, <2>4, MappedFacts
    <2>6. QED
      BY <2>5 DEF l, s
  <1>2. QED
    BY <1>1 DEF Lists

\* Some instances may be started for the titles of S.
LEMMA SpawnedFacts ==
    ASSUME NEW n \in Lists, NEW S, NEW spent, SpawnWaveTasks(n, S, spent)
    PROVE  Shrunk(nav', Added(n, S))
  <1>1. Added(n, S) \in Lists
        /\ \A t \in Titles : Len(Added(n, S)[t]) = IF t \in S THEN Len(n[t]) + 1 ELSE Len(n[t])
    BY AddedFacts
  <1>2. \A t \in Titles : Len(n[t]) \in Nat
    BY DEF Lists
  <1>3. \A t \in Titles : Len(n[t]) <= Len(Added(n, S)[t])
    BY <1>1, <1>2
  <1>4. \A t \in Titles : Len(Added(n, S)[t]) <= Len(Added(n, S)[t])
    BY <1>1, <1>2
  <1>5. CASE nav' = Added(n, S)
    BY <1>1, <1>4, <1>5 DEF Shrunk
  <1>6. CASE nav' = n
    BY <1>3, <1>6 DEF Shrunk
  <1>7. QED
    BY <1>5, <1>6 DEF SpawnWaveTasks

\* The lists that a start of the next wave of o leaves, when n was there.
LEMMA StartedLists ==
    ASSUME NEW n \in Lists, NEW o, Ordered(o), NEW spent, StartNextWaveOf(o, n, spent)
    PROVE  Shrunk(nav', Added(n, CurrentTitles(StartNextWave(o))))
  <1> DEFINE S == CurrentTitles(StartNextWave(o))
  <1> HIDE DEF S
  <1>1. CASE StartedTasks(o) = {}
    <2>1. nav' = n
      BY <1>1 DEF StartNextWaveOf
    <2>2. /\ Added(n, S) \in Lists
          /\ \A t \in Titles : Len(Added(n, S)[t]) = IF t \in S THEN Len(n[t]) + 1 ELSE Len(n[t])
      BY AddedFacts
    <2>3. \A t \in Titles : Len(n[t]) \in Nat
      BY DEF Lists
    <2>4. \A t \in Titles : Len(n[t]) <= Len(Added(n, S)[t])
      BY <2>2, <2>3
    <2>5. QED
      BY <2>1, <2>4 DEF Shrunk, S
  <1>2. CASE StartedTasks(o) # {}
    <2>1. SpawnWaveTasks(n, S, spent)
      BY <1>2 DEF StartNextWaveOf, S
    <2>2. QED
      BY <2>1, SpawnedFacts DEF S
  <1>3. QED
    BY <1>1, <1>2

\* As long lists stay as long.
LEMMA ShrunkAdded ==
    ASSUME NEW n \in Lists, NEW m \in Lists, \A t \in Titles : Len(m[t]) = Len(n[t]),
           NEW S, NEW l, Shrunk(l, Added(m, S))
    PROVE  Shrunk(l, Added(n, S))
  <1>1. \A t \in Titles : Len(Added(m, S)[t]) = IF t \in S THEN Len(m[t]) + 1 ELSE Len(m[t])
    BY AddedFacts
  <1>2. \A t \in Titles : Len(Added(n, S)[t]) = IF t \in S THEN Len(n[t]) + 1 ELSE Len(n[t])
    BY AddedFacts
  <1>3. QED
    BY <1>1, <1>2 DEF Shrunk

\* The types of the sidebar and the state file.
ListsInv == nav \in Lists /\ saved \in Files

\* The waves whose agents a step may start: that of an implementation, of a wave
\* signal without an orchestrator, and the next one of the orchestrator there is.
Starting(o) ==
    \/ Implement /\ o = NewWaveOrchestrator(Plan)
    \/ /\ TickApply /\ orch = NoOrch /\ view.wave # 0
       /\ o = Forwarded[view.wave - 1]
    \/ HandleAdvance /\ orch # NoOrch /\ o = orch

\* The titles a retry starts again.
RetriedTitles == {t \in CurrentTitles(orch) : t[2] \in TasksWith(orch, "failed")}

\* How a step changes the lists of the sidebar and the state file.
ListsStep ==
    \/ Shrunk(nav', nav) /\ (saved' = saved \/ saved' = Save(nav'))
    \/ /\ saved' = saved
       /\ \E o : /\ Starting(o) /\ Ordered(o)
                 /\ Shrunk(nav', Added(nav, CurrentTitles(StartNextWave(o))))
    \/ /\ HandleRetry /\ orch # NoOrch /\ saved' = saved
       /\ nav' \in Lists
       /\ \A t \in Titles : Len(nav'[t]) <= IF t \in RetriedTitles THEN 1 ELSE Len(nav[t])
    \/ /\ \E graceful \in BOOLEAN : Restart(graceful)
       /\ nav' \in Lists
       /\ saved' \in {saved, Save(nav)}
       /\ \A t \in Titles : Len(nav'[t]) = Len(saved'[t])

\* Every step is one of these.
LEMMA ListsStepTaken ==
    ASSUME SignalInv, OrchInv, ListsInv, [Next]_vars
    PROVE  ListsStep
  <1>1. nav \in Lists /\ saved \in Files
    BY DEF ListsInv
  <1>2. \A t \in Titles : nav[t] \in Seq(Instance) /\ Len(nav[t]) \in Nat
    BY <1>1 DEF Lists
  <1>3. ASSUME UNCHANGED <<nav, saved>> PROVE ListsStep
    <2>1. Shrunk(nav', nav)
      BY <1>1, <1>2, <1>3 DEF Shrunk
    <2>2. QED
      BY <1>3, <2>1 DEF ListsStep
  <1>4. ASSUME nav' \in Lists, \A t \in Titles : Len(nav'[t]) = Len(nav[t]),
               saved' = saved \/ saved' = Save(nav')
        PROVE  ListsStep
    <2>1. Shrunk(nav', nav)
      BY <1>2, <1>4 DEF Shrunk
    <2>2. QED
      BY <1>4, <2>1 DEF ListsStep
  <1>5. \A t \in Titles : \A k \in DOMAIN nav[t] : nav[t][k] \in Instance
    BY <1>2
  <1>6. CASE Implement
    <2>1. UNCHANGED saved
      BY <1>6 DEF Implement
    <2> DEFINE new == NewWaveOrchestrator(Plan)
    <2>2. UNCHANGED nav \/ StartNextWaveOf(new, nav, Spend("starts"))
      BY <1>6 DEF Implement
    <2>3. Starting(new) /\ Ordered(new)
      BY <1>6, NewOrdered DEF Starting
    <2> HIDE DEF new
    <2>4. ASSUME StartNextWaveOf(new, nav, Spend("starts")) PROVE ListsStep
      <3>1. Shrunk(nav', Added(nav, CurrentTitles(StartNextWave(new))))
        BY <1>1, <2>3, <2>4, StartedLists
      <3>2. QED
        BY <2>1, <2>3, <3>1 DEF ListsStep
    <2>5. QED
      BY <1>3, <2>1, <2>2, <2>4
  <1>7. ASSUME NEW t \in Titles, NEW k \in DOMAIN nav[t], StartDone(t, k)
        PROVE  ListsStep
    <2>1. [phase |-> "live", prompt |-> FALSE] \in Instance
      BY DEF Instance
    <2>2. nav' = [nav EXCEPT ![t][k] = [phase |-> "live", prompt |-> FALSE]] /\ saved' = Save(nav')
      BY <1>7 DEF StartDone
    <2> DEFINE i == [phase |-> "live", prompt |-> FALSE]
               m == [nav EXCEPT ![t][k] = i]
    <2>3. nav' = m
      BY <2>2
    <2>4. i \in Instance
      BY <2>1
    <2> HIDE DEF i
    <2>5. m \in Lists /\ \A u \in Titles : Len(m[u]) = Len(nav[u])
      BY <1>1, <2>4, ReplacedFacts
    <2> HIDE DEF m
    <2>6. QED
      BY <1>4, <2>2, <2>3, <2>5
  <1>8. ASSUME NEW t \in Titles, NEW k \in DOMAIN nav[t], StartFailed(t, k)
        PROVE  ListsStep
    <2> DEFINE i == [nav[t][k] EXCEPT !.phase = "failed"]
               m == [nav EXCEPT ![t][k] = i]
    <2>1. i \in Instance
      BY <1>5 DEF Instance
    <2>2. nav' = Removed(m, {t}) /\ saved' = saved
      BY <1>8 DEF StartFailed
    <2> HIDE DEF i
    <2>3. m \in Lists /\ \A u \in Titles : Len(m[u]) = Len(nav[u])
      BY <1>1, <2>1, ReplacedFacts
    <2> HIDE DEF m
    <2>4. nav' \in Lists /\ \A u \in Titles : Len(nav'[u]) <= Len(m[u])
      BY <2>2, <2>3, RemovedFacts
    <2>5. QED
      BY <2>2, <2>3, <2>4 DEF ListsStep, Shrunk
  <1>9. ASSUME NEW t \in Titles, StrayStarted(t) \/ AgentFinishes(t) \/ AgentDies(t)
        PROVE  ListsStep
    BY <1>3, <1>9 DEF StrayStarted, AgentFinishes, AgentDies
  <1>10. CASE TickCollect \/ CooldownOver \/ CancelPlan
    BY <1>3, <1>10 DEF TickCollect, CooldownOver, CancelPlan
  <1>11. CASE TickApply
    <2>1. PICK r \in Signalled : \E n \in {Observe(r.nav)} :
             \/ nav' = n
             \/ nav' = [t \in Titles |-> [k \in DOMAIN n[t] |-> PauseIf(n[t][k], TRUE)]]
      BY <1>11, ZenonT(30) DEF TickApply, FinishImplementation, DecideWave
    <2>2. view # NoView /\ saved' = saved
      BY <1>11 DEF TickApply
    <2>3. ASSUME r.nav \in Lists
          PROVE  nav' \in Lists /\ \A t \in Titles : Len(nav'[t]) = Len(r.nav[t])
      <3> DEFINE m == Observe(r.nav)
      <3>1. m \in Lists /\ \A t \in Titles : Len(m[t]) = Len(r.nav[t])
        BY <2>3, ObserveFacts
      <3>2. nav' = m \/ nav' = [t \in Titles |-> [k \in DOMAIN m[t] |-> PauseIf(m[t][k], TRUE)]]
        BY <2>1
      <3> HIDE DEF m
      <3> DEFINE c == [t \in Titles |-> [k \in DOMAIN m[t] |-> TRUE]]
      <3>3. [t \in Titles |-> [k \in DOMAIN m[t] |-> PauseIf(m[t][k], TRUE)]]
              = [t \in Titles |-> [k \in DOMAIN m[t] |-> PauseIf(m[t][k], c[t][k])]]
        OBVIOUS
      <3> HIDE DEF c
      <3>4. ASSUME nav' = [t \in Titles |-> [k \in DOMAIN m[t] |-> PauseIf(m[t][k], c[t][k])]]
            PROVE  nav' \in Lists /\ \A t \in Titles : Len(nav'[t]) = Len(m[t])
        BY <3>1, <3>4, PausedFacts
      <3>5. QED
        BY <3>1, <3>2, <3>3, <3>4
    <2>4. CASE r.nav = nav
      BY <1>1, <1>4, <2>2, <2>3, <2>4
    <2>5. CASE r.nav # nav
      <3> DEFINE f == Forwarded[view.wave - 1]
                 S == CurrentTitles(StartNextWave(f))
      <3>1. /\ orch = NoOrch /\ view.wave # 0
            /\ view.wave - 1 \in 0 .. Len(Plan) /\ view.wave - 1 < Len(Plan)
            /\ r.nav = Added(nav, S)
        BY <2>2, <2>5, SignalledFacts
      <3>2. Ordered(f)
        BY <3>1, ForwardedFacts
      <3>3. Starting(f)
        BY <1>11, <3>1 DEF Starting
      <3> HIDE DEF f, S
      <3>4. r.nav \in Lists /\ \A t \in Titles : Len(r.nav[t]) \in Nat
        BY <1>1, <3>1, AddedFacts DEF Lists
      <3>5. Shrunk(nav', Added(nav, S))
        BY <2>3, <3>1, <3>4 DEF Shrunk
      <3>6. QED
        BY <2>2, <3>2, <3>3, <3>5 DEF ListsStep, S
    <2>6. QED
      BY <2>4, <2>5
  <1>12. CASE Answer
    BY <1>3, <1>12 DEF Answer, ConfirmKey, AbortKey, CancelKey, EscapeKey
  <1>13. CASE HandleAdvance
    <2> DEFINE c == [t \in Titles |-> [k \in DOMAIN nav[t] |->
                       t \in CurrentTitles(orch) /\ nav[t][k].prompt]]
               m == [t \in Titles |-> [k \in DOMAIN nav[t] |-> PauseIf(nav[t][k], c[t][k])]]
    <2>1. saved' = saved
      BY <1>13 DEF HandleAdvance
    <2>2. CASE orch = NoOrch
      BY <1>3, <1>13, <2>2 DEF HandleAdvance
    <2>3. CASE orch # NoOrch
      <3>1. m = [t \in Titles |-> [k \in DOMAIN nav[t] |->
                   PauseIf(nav[t][k], t \in CurrentTitles(orch) /\ nav[t][k].prompt)]]
        OBVIOUS
      <3>2. StartNextWaveOf(orch, m, used)
        BY <1>13, <2>3, <3>1 DEF HandleAdvance
      <3> HIDE DEF c
      <3>3. m \in Lists /\ \A t \in Titles : Len(m[t]) = Len(nav[t])
        BY <1>1, PausedFacts
      <3> HIDE DEF m
      <3>4. Ordered(orch) /\ Starting(orch)
        BY <1>13, <2>3 DEF OrchInv, Starting
      <3>5. Shrunk(nav', Added(m, CurrentTitles(StartNextWave(orch))))
        BY <3>2, <3>3, <3>4, StartedLists
      <3>6. Shrunk(nav', Added(nav, CurrentTitles(StartNextWave(orch))))
        BY <1>1, <3>3, <3>5, ShrunkAdded
      <3>7. QED
        BY <2>1, <3>4, <3>6 DEF ListsStep
    <2>4. QED
      BY <2>2, <2>3
  <1>14. CASE HandleRetry
    <2> DEFINE failed == IF orch = NoOrch THEN {} ELSE TasksWith(orch, "failed")
               stale == {t \in Titles : t[2] \in failed}
               R == {t \in CurrentTitles(orch) : t[2] \in failed}
    <2>1. saved' = saved
      BY <1>14 DEF HandleRetry
    <2>2. CASE failed = {}
      BY <1>3, <1>14, <2>2 DEF HandleRetry
    <2>3. CASE failed # {}
      <3>1. orch # NoOrch /\ SpawnWaveTasks(Cleared(nav, stale), R, used) /\ R = RetriedTitles
        BY <1>14, <2>3 DEF HandleRetry, RetriedTitles
      <3>2. \A t \in Titles : t \in R => t \in stale
        OBVIOUS
      <3> HIDE DEF R, stale
      <3> DEFINE m == Cleared(nav, stale)
      <3>3. m \in Lists /\ \A t \in Titles : Len(m[t]) = IF t \in stale THEN 0 ELSE Len(nav[t])
        BY <1>1, ClearedFacts
      <3> HIDE DEF m
      <3>4. Shrunk(nav', Added(m, R))
        BY <3>1, <3>3, SpawnedFacts DEF m
      <3>5. \A t \in Titles : Len(Added(m, R)[t]) = IF t \in R THEN Len(m[t]) + 1 ELSE Len(m[t])
        BY <3>3, AddedFacts
      <3>6. ASSUME NEW t \in Titles PROVE Len(nav'[t]) <= IF t \in R THEN 1 ELSE Len(nav[t])
        <4>1. Len(nav'[t]) <= Len(Added(m, R)[t]) /\ nav'[t] \in Seq(Instance)
                /\ Len(nav[t]) \in Nat
          BY <1>2, <3>4 DEF Shrunk, Lists
        <4>2. CASE t \in R
          BY <3>2, <3>3, <3>5, <4>1, <4>2
        <4>3. CASE t \notin R
          BY <3>3, <3>5, <4>1, <4>3
        <4>4. QED
          BY <4>2, <4>3
      <3>7. QED
        BY <1>14, <2>1, <3>1, <3>4, <3>6 DEF ListsStep, Shrunk
    <2>4. QED
      BY <2>2, <2>3
  <1>15. CASE HandleAbort
    <2>1. nav' = [t \in Titles |-> Selected(nav[t], DOMAIN nav[t] \ StartedPositions(nav[t]))]
          /\ saved' = Save(nav')
      BY <1>15 DEF HandleAbort
    <2>2. Shrunk(nav', nav)
      BY <1>1, <2>1, EmptiedFacts
    <2>3. QED
      BY <2>1, <2>2 DEF ListsStep
  <1>16. CASE HandleAllComplete
    BY <1>3, <1>16 DEF HandleAllComplete
  <1>17. ASSUME NEW t \in Titles, NEW k \in DOMAIN nav[t], MarkComplete(t, k) \/ PauseInstance(t, k)
         PROVE  ListsStep
    <2>1. PICK p \in {"loading", "failed", "live", "paused"} :
             nav' = [nav EXCEPT ![t][k].phase = p]
      <3>1. nav[t][k].phase \in {"loading", "failed", "live", "paused"}
        BY <1>5 DEF Instance
      <3>2. CASE MarkComplete(t, k)
        <4> DEFINE q == IF nav[t][k].phase = "paused" THEN "live" ELSE nav[t][k].phase
        <4>1. nav' = [nav EXCEPT ![t][k].phase = q]
          BY <3>2 DEF MarkComplete
        <4>2. QED
          BY <3>1, <4>1
      <3>3. CASE PauseInstance(t, k)
        BY <3>3 DEF PauseInstance
      <3>4. QED
        BY <1>17, <3>2, <3>3
    <2> DEFINE i == [nav[t][k] EXCEPT !.phase = p]
    <2>2. i \in Instance
      BY <1>5 DEF Instance
    <2>3. nav' = [nav EXCEPT ![t][k] = i] /\ (saved' = saved \/ saved' = Save(nav'))
      BY <1>17, <2>1 DEF MarkComplete, PauseInstance
    <2> DEFINE m == [nav EXCEPT ![t][k] = i]
    <2> HIDE DEF i
    <2>4. m \in Lists /\ \A u \in Titles : Len(m[u]) = Len(nav[u])
      BY <1>1, <2>2, ReplacedFacts
    <2>5. nav' = m
      BY <2>3
    <2> HIDE DEF m
    <2>6. QED
      BY <1>4, <2>3, <2>4, <2>5
  <1>18. ASSUME NEW t \in Titles, NEW k \in DOMAIN nav[t], ResumeInstance(t, k)
         PROVE  ListsStep
    <2>1. [phase |-> "live", prompt |-> FALSE] \in Instance
      BY DEF Instance
    <2>2. nav' = [nav EXCEPT ![t][k] = [phase |-> "live", prompt |-> FALSE]] /\ saved' = Save(nav')
      BY <1>18 DEF ResumeInstance
    <2> DEFINE i == [phase |-> "live", prompt |-> FALSE]
               m == [nav EXCEPT ![t][k] = i]
    <2>3. nav' = m
      BY <2>2
    <2>4. i \in Instance
      BY <2>1
    <2> HIDE DEF i
    <2>5. m \in Lists /\ \A u \in Titles : Len(m[u]) = Len(nav[u])
      BY <1>1, <2>4, ReplacedFacts
    <2> HIDE DEF m
    <2>6. QED
      BY <1>4, <2>2, <2>3, <2>5
  <1>19. ASSUME NEW t \in Titles, NEW k \in DOMAIN nav[t], KillInstance(t, k)
         PROVE  ListsStep
    <2>1. nav' = Removed(nav, {t}) /\ saved' = Save(nav')
      BY <1>19 DEF KillInstance
    <2>2. Shrunk(nav', nav)
      BY <1>1, <2>1, RemovedFacts DEF Shrunk
    <2>3. QED
      BY <2>1, <2>2 DEF ListsStep
  <1>20. CASE ShowOther
    BY <1>3, <1>20 DEF ShowOther, AskOther, OpenOverlay, CloseOverlay, BrowseSessions,
                       SessionsArrive, Shows
  <1>21. ASSUME NEW graceful \in BOOLEAN, Restart(graceful)
         PROVE  ListsStep
    <2>1. /\ saved' \in {saved, Save(nav)}
          /\ nav' = [t \in Titles |-> [k \in DOMAIN saved'[t] |->
                        [phase |-> saved'[t][k], prompt |-> FALSE]]]
      BY <1>21 DEF Restart
    <2>2. saved' \in Files
      BY <1>1, <2>1, SaveFacts
    <2>3. nav' \in Lists /\ \A t \in Titles : Len(nav'[t]) = Len(saved'[t])
      BY <2>1, <2>2, ReadFacts
    <2>4. QED
      BY <1>21, <2>1, <2>3 DEF ListsStep
  <1>22. CASE \E k \in DOMAIN Plan : PlanImplementCommand(k)
    BY <1>3, <1>22 DEF PlanImplementCommand
  <1>23. CASE UNCHANGED vars
    BY <1>3, <1>23 DEF vars
  <1>24. QED
    BY <1>6, <1>7, <1>8, <1>9, <1>10, <1>11, <1>12, <1>13, <1>14, <1>15, <1>16, <1>17, <1>18,
       <1>19, <1>20, <1>21, <1>22, <1>23 DEF Next, Act, Handle

\* The lists are typed whatever happens.
LEMMA ListsInvInvariant == Spec => []ListsInv
  <1>1. Init => ListsInv
    BY DEF Init, ListsInv, Lists, Files
  <1>2. SignalInv /\ OrchInv /\ ListsInv /\ [Next]_vars => ListsInv'
    <2> SUFFICES ASSUME SignalInv, OrchInv, ListsInv, [Next]_vars PROVE ListsInv'
      OBVIOUS
    <2>1. nav \in Lists /\ saved \in Files /\ Save(nav) \in Files
      BY SaveFacts DEF ListsInv
    <2>2. ListsStep
      BY ListsStepTaken
    <2>3. nav' \in Lists
      BY <2>2 DEF ListsStep, Shrunk
    <2>4. Save(nav') \in Files
      BY <2>3, SaveFacts
    <2>5. saved' \in {saved, Save(nav), Save(nav')}
      BY <2>2 DEF ListsStep
    <2>6. QED
      BY <2>1, <2>3, <2>4, <2>5 DEF ListsInv
  <1>3. QED
    BY <1>1, <1>2, SignalInvInvariant, OrchInvInvariant, PTL DEF Spec

----------------------------------------------------------------------------
(* Type correctness *)

\* A transition of the plan's state machine ends in one of its states.
LEMMA TransitionType ==
    ASSUME NEW s, NEW e, Allowed(s, e)
    PROVE  ApplyTransition(s, e) \in Status
  <1> DEFINE edge == CHOOSE d \in TransitionTable : d[1] = s /\ d[2] = e
  <1>1. edge \in TransitionTable
    BY DEF Allowed
  <1>2. \A d \in TransitionTable : d[3] \in Status
    BY DEF TransitionTable, Status
  <1>3. edge[3] \in Status
    <2> HIDE DEF edge
    <2> QED
      BY <1>1, <1>2
  <1>4. QED
    BY <1>3 DEF ApplyTransition

\* What is left of TypeOK.
WorldInv ==
    /\ status \in Status
    /\ strays \subseteq Titles
    /\ sess \in [Titles -> Session]
    /\ view = NoView \/ view \in View
    /\ deferred \in BOOLEAN /\ cooldown \in BOOLEAN /\ reviewer \in BOOLEAN

\* WorldInv is inductive, with the types of the signals.
LEMMA WorldInvInvariant == Spec => []WorldInv
  <1>1. Init => WorldInv
    BY DEF Init, WorldInv, Status, Session
  <1>2. SignalInv /\ WorldInv /\ [Next]_vars => WorldInv'
    <2> SUFFICES ASSUME SignalInv, WorldInv, [Next]_vars PROVE WorldInv'
      OBVIOUS
    <2>1. /\ status \in Status
          /\ strays \subseteq Titles
          /\ sess \in [Titles -> Session]
          /\ view = NoView \/ view \in View
          /\ deferred \in BOOLEAN /\ cooldown \in BOOLEAN /\ reviewer \in BOOLEAN
      BY DEF WorldInv
    <2>2. \A t \in Titles : sess[t] \in Session /\ Opened(sess[t]) \in Session
                            /\ Attached(sess[t]) \in Session
      BY <2>1 DEF Opened, Attached, Session
    <2>3. {"none", "busy", "settling", "idle"} = Session
      BY DEF Session
    <2>4. "implementing" \in Status
      BY DEF Status
    <2>5. ASSUME status' \in Status, UNCHANGED <<strays, sess, view, deferred, cooldown, reviewer>>
          PROVE  WorldInv'
      BY <2>1, <2>5 DEF WorldInv
    <2>6. ASSUME strays' \subseteq Titles, sess' \in [Titles -> Session],
                 UNCHANGED <<status, view, deferred, cooldown, reviewer>>
          PROVE  WorldInv'
      BY <2>1, <2>6 DEF WorldInv
    <2>7. ASSUME NEW t \in Titles, NEW s \in Session
          PROVE  [sess EXCEPT ![t] = s] \in [Titles -> Session]
      BY <2>1
    <2>8. CASE Implement \/ \E k \in DOMAIN Plan : PlanImplementCommand(k)
      BY <2>1, <2>4, <2>5, <2>8 DEF Implement, PlanImplementCommand
    <2>9. CASE CancelPlan
      BY <2>5, <2>9, TransitionType DEF CancelPlan
    <2>10. CASE HandleAllComplete
      <3>1. status' \in Status
        BY <2>1, <2>10, TransitionType DEF HandleAllComplete
      <3>2. reviewer' = TRUE /\ UNCHANGED <<strays, sess, view, deferred, cooldown>>
        BY <2>10 DEF HandleAllComplete
      <3>3. QED
        BY <2>1, <3>1, <3>2 DEF WorldInv
    <2>11. ASSUME NEW t \in Titles, NEW k \in DOMAIN nav[t], StartDone(t, k)
           PROVE  WorldInv'
      <3>1. sess' = [sess EXCEPT ![t] = Opened(sess[t])]
            /\ UNCHANGED <<status, strays, view, deferred, cooldown, reviewer>>
        BY <2>11 DEF StartDone
      <3>2. QED
        BY <2>1, <2>2, <2>6, <2>7, <3>1
    <2>12. ASSUME NEW t \in Titles, NEW k \in DOMAIN nav[t], StartFailed(t, k) \/ MarkComplete(t, k)
                                                           \/ PauseInstance(t, k)
           PROVE  WorldInv'
      BY <2>1, <2>6, <2>12 DEF StartFailed, MarkComplete, PauseInstance
    <2>13. ASSUME NEW t \in Titles, StrayStarted(t)
           PROVE  WorldInv'
      <3>1. sess' = [sess EXCEPT ![t] = Opened(sess[t])] /\ strays' = strays \ {t}
            /\ UNCHANGED <<status, view, deferred, cooldown, reviewer>>
        BY <2>13 DEF StrayStarted
      <3>2. QED
        BY <2>1, <2>2, <2>6, <2>7, <3>1
    <2>14. ASSUME NEW t \in Titles, AgentFinishes(t) \/ AgentDies(t)
           PROVE  WorldInv'
      BY <2>1, <2>3, <2>6, <2>7, <2>14 DEF AgentFinishes, AgentDies
    <2>15. ASSUME NEW t \in Titles, NEW k \in DOMAIN nav[t], ResumeInstance(t, k)
           PROVE  WorldInv'
      <3>1. UNCHANGED <<status, strays, view, deferred, cooldown, reviewer>>
            /\ \E s \in Session : sess' = [sess EXCEPT ![t] = s]
        BY <2>2, <2>3, <2>15 DEF ResumeInstance
      <3>2. QED
        BY <2>1, <2>6, <2>7, <3>1
    <2>16. ASSUME NEW t \in Titles, NEW k \in DOMAIN nav[t], KillInstance(t, k)
           PROVE  WorldInv'
      <3>1. UNCHANGED <<status, view, deferred, cooldown, reviewer>>
            /\ strays' \in {strays, strays \cup {t}}
            /\ sess' \in {sess, [sess EXCEPT ![t] = "none"]}
        BY <2>16 DEF KillInstance
      <3>2. QED
        BY <2>1, <2>3, <2>6, <2>7, <3>1
    <2>17. CASE TickCollect
      <3>1. /\ view' = [seen |-> [t \in Titles |-> Collected(t)], wave |-> signal]
            /\ sess' = [t \in Titles |-> IF Collected(t) # "skipped" /\ sess[t] = "settling"
                                         THEN "idle" ELSE sess[t]]
            /\ UNCHANGED <<status, strays, deferred, cooldown, reviewer>>
        BY <2>17 DEF TickCollect, ScanWaveSignals
      <3>2. \A t \in Titles : Collected(t) \in Observation
        <4>1. \A t \in Titles : sess[t] \in {"none", "busy", "settling", "idle"}
          BY <2>2, <2>3
        <4>2. QED
          BY <4>1 DEF Collected, Observation
      <3>3. [t \in Titles |-> Collected(t)] \in [Titles -> Observation]
        BY <3>2
      <3>4. view' \in View
        BY <3>1, <3>3 DEF View, SignalInv
      <3>5. sess' \in [Titles -> Session]
        BY <2>2, <2>3, <3>1
      <3>6. QED
        BY <2>1, <3>1, <3>4, <3>5 DEF WorldInv
    <2>18. CASE TickApply
      <3>1. view' = NoView /\ UNCHANGED <<status, strays, sess, cooldown, reviewer>>
        BY <2>18 DEF TickApply
      <3>2. PICK u, p \in BOOLEAN : deferred' = p \/ deferred' = (p \/ u.screen # "default")
        <4>1. PICK r \in Signalled : \E n \in {Observe(r.nav)} :
                 \E o \in {IF r.orch = NoOrch THEN NoOrch ELSE Monitored(r.orch, n)} :
                 IF o # NoOrch /\ r.orch.state = "running" /\ o.state = "allComplete"
                 THEN FinishImplementation(n, Drained(ui), deferred /\ ui.screen # "default")
                 ELSE DecideWave(o, n, Drained(ui), deferred /\ ui.screen # "default")
          BY <2>18 DEF TickApply
        <4>2. \/ deferred' = (deferred /\ ui.screen # "default")
              \/ deferred' = ((deferred /\ ui.screen # "default") \/ Drained(ui).screen # "default")
          BY <4>1 DEF FinishImplementation, DecideWave
        <4>3. (deferred /\ ui.screen # "default") \in BOOLEAN
          BY <2>1
        <4>4. QED
          BY <4>2, <4>3
      <3>3. deferred' \in BOOLEAN
        BY <3>2
      <3>4. QED
        BY <2>1, <3>1, <3>3 DEF WorldInv
    <2>19. CASE Answer \/ CooldownOver
      <3>1. UNCHANGED <<status, strays, sess, view, deferred, reviewer>>
        BY <2>19 DEF Answer, ConfirmKey, AbortKey, CancelKey, EscapeKey, CooldownOver
      <3>2. cooldown' = cooldown \/ cooldown' = FALSE \/ cooldown' = (cooldown \/ ui.wave)
        BY <2>19 DEF Answer, ConfirmKey, AbortKey, CancelKey, EscapeKey, CooldownOver
      <3>3. cooldown' \in BOOLEAN
        BY <2>1, <3>2
      <3>4. QED
        BY <2>1, <3>1, <3>3 DEF WorldInv
    <2>20. CASE HandleAdvance
      BY <2>1, <2>6, <2>20 DEF HandleAdvance
    <2>21. CASE HandleRetry
      <3>1. UNCHANGED <<status, sess, view, deferred, cooldown, reviewer>>
            /\ strays' \subseteq strays \cup Titles
        BY <2>21 DEF HandleRetry
      <3>2. QED
        BY <2>1, <2>6, <3>1
    <2>22. CASE HandleAbort
      <3>1. UNCHANGED <<status, strays, view, deferred, cooldown, reviewer>>
            /\ sess' = [t \in Titles |-> IF StartedPositions(nav[t]) # {} THEN "none" ELSE sess[t]]
        BY <2>22 DEF HandleAbort
      <3>2. QED
        BY <2>1, <2>2, <2>3, <2>6, <3>1
    <2>23. CASE ShowOther
      BY <2>1, <2>6, <2>23 DEF ShowOther, AskOther, OpenOverlay, CloseOverlay, BrowseSessions,
                         SessionsArrive, Shows
    <2>24. ASSUME NEW graceful \in BOOLEAN, Restart(graceful)
           PROVE  WorldInv'
      <3>1. /\ strays' = {} /\ view' = NoView /\ deferred' = FALSE /\ cooldown' = FALSE
            /\ UNCHANGED <<status, reviewer>>
        BY <2>24 DEF Restart
      <3>2. PICK opened : sess' = [t \in Titles |-> CASE t \in opened       -> Opened(sess[t])
                                                      [] sess[t] = "idle"   -> "settling"
                                                      [] OTHER              -> sess[t]]
        BY <2>24 DEF Restart
      <3>3. \A t \in Titles : (CASE t \in opened       -> Opened(sess[t])
                                 [] sess[t] = "idle"   -> "settling"
                                 [] OTHER              -> sess[t]) \in Session
        BY <2>2, <2>3
      <3>4. sess' \in [Titles -> Session]
        BY <3>2, <3>3
      <3>5. QED
        BY <2>1, <3>1, <3>4 DEF WorldInv
    <2>25. CASE UNCHANGED vars
      BY <2>1, <2>6, <2>25 DEF vars
    <2>26. QED
      BY <2>8, <2>9, <2>10, <2>11, <2>12, <2>13, <2>14, <2>15, <2>16, <2>17, <2>18, <2>19,
         <2>20, <2>21, <2>22, <2>23, <2>24, <2>25 DEF Next, Act, Handle
  <1>3. QED
    BY <1>1, <1>2, SignalInvInvariant, PTL DEF Spec

\* The model is type correct, in every environment and for every plan.
THEOREM TypeCorrect == Spec => []TypeOK
  <1>1. SignalInv /\ OrchInv /\ UIInv /\ MsgsInv /\ UsedInv /\ ListsInv /\ WorldInv => TypeOK
    <2> SUFFICES ASSUME SignalInv, OrchInv, UIInv, MsgsInv, UsedInv, ListsInv, WorldInv
                 PROVE  TypeOK
      OBVIOUS
    <2>1. orch = NoOrch \/ orch \in Orchestrator
      BY DEF OrchInv, Ordered, WellFormed
    <2>2. \A b \in DOMAIN Limit : used[b] \in 0 .. Limit[b]
      <3>1. \A b \in Bounds : used[b] \in Nat /\ Limit[b] \in Nat /\ used[b] <= Limit[b]
        BY LimitFacts DEF UsedInv, Uses
      <3>2. QED
        BY <3>1, LimitFacts
    <2>3. ui \in UI /\ msgs \in [Message -> Nat] /\ signal \in 0 .. Len(Plan)
      BY DEF UIInv, MsgsInv, SignalInv
    <2>4. QED
      BY <2>1, <2>2, <2>3 DEF TypeOK, ListsInv, Lists, Files, WorldInv
  <1>2. QED
    BY <1>1, SignalInvInvariant, OrchInvInvariant, UIInvInvariant, MsgsInvInvariant,
       UsedInvInvariant, ListsInvInvariant, WorldInvInvariant, PTL

----------------------------------------------------------------------------
(* One implementation: a plan that is implemented once *)

\* The messages of a wave's dialogs.
DialogMessages == {"advance", "retry", "abort"}

\* Nothing of an implementation is there yet.
Fresh ==
    /\ orch = NoOrch
    /\ \A m \in DialogMessages : msgs[m] = 0
    /\ ~ui.wave
    /\ \A t \in Titles : Len(nav[t]) = 0 /\ Len(saved[t]) = 0

\* Before the plan is implemented, and until the tick has read the signal that asks for
\* it, nothing is there; a tick in flight that read the signal is the one to consume it.
StartInv ==
    /\ used.starts = 0 => signal = 0
    /\ used.starts = 0 \/ signal # 0 => Fresh
    /\ view # NoView /\ view.wave # 0 => signal = view.wave

\* Only the start of an implementation ends that.
LEMMA FreshStep ==
    ASSUME SignalInv, OrchInv, UIInv, MsgsInv, MsgsInv', ListsInv, ListsInv', Fresh,
           [Next]_vars, ~Implement, TickApply => view.wave = 0
    PROVE  Fresh'
  <1>1. /\ ui \in UI /\ PendingIsOfWave /\ ~ui.wave /\ orch = NoOrch
        /\ \A t \in Titles : Len(nav[t]) = 0 /\ Len(saved[t]) = 0
        /\ \A m \in DialogMessages : msgs[m] = 0
    BY DEF UIInv, Fresh
  <1>2. /\ \A m \in Message : msgs[m] \in Nat /\ msgs'[m] \in Nat
        /\ DialogMessages \subseteq Message /\ Message \ DialogMessages = {"allComplete"}
    BY DEF MsgsInv, Message, DialogMessages
  <1>3. /\ nav \in Lists /\ saved \in Files /\ nav' \in Lists /\ saved' \in Files
        /\ \A t \in Titles : /\ Len(nav[t]) \in Nat /\ Len(nav'[t]) \in Nat
                             /\ Len(saved'[t]) \in Nat
    BY DEF ListsInv, Lists, Files
  <1>4. \A t \in Titles : Len(nav'[t]) = 0 /\ Len(saved'[t]) = 0
    <2>1. CASE Shrunk(nav', nav) /\ (saved' = saved \/ saved' = Save(nav'))
      <3>1. \A t \in Titles : Len(nav'[t]) = 0
        BY <1>1, <1>3, <2>1 DEF Shrunk
      <3>2. \A t \in Titles : Len(Save(nav')[t]) <= Len(nav'[t])
        BY <1>3, SaveFacts
      <3>3. QED
        BY <1>1, <1>3, <2>1, <3>1, <3>2
    <2>2. CASE /\ \E graceful \in BOOLEAN : Restart(graceful)
               /\ saved' \in {saved, Save(nav)}
               /\ \A t \in Titles : Len(nav'[t]) = Len(saved'[t])
      <3>1. \A t \in Titles : Len(Save(nav)[t]) <= Len(nav[t])
        BY <1>3, SaveFacts
      <3>2. \A t \in Titles : Len(saved'[t]) = 0
        BY <1>1, <1>3, <2>2, <3>1
      <3>3. QED
        BY <2>2, <3>2
    <2>3. ~\E o : Starting(o)
      BY <1>1 DEF Starting
    <2>4. ListsStep
      BY ListsStepTaken
    <2>5. QED
      BY <1>1, <2>1, <2>2, <2>3, <2>4 DEF ListsStep
  <1>5. ASSUME orch' = NoOrch, ui'.wave = ui.wave \/ ~ui'.wave,
               \A m \in DialogMessages : msgs'[m] <= msgs[m]
        PROVE  Fresh'
    <2>1. \A m \in DialogMessages : msgs'[m] = 0
      BY <1>1, <1>2, <1>5
    <2>2. QED
      BY <1>1, <1>4, <1>5, <2>1 DEF Fresh
  <1>6. ASSUME UNCHANGED msgs PROVE \A m \in DialogMessages : msgs'[m] <= msgs[m]
    BY <1>2, <1>6
  <1>7. CASE TickApply
    <2>1. view.wave = 0 /\ view # NoView
      BY <1>7 DEF TickApply
    <2>2. PICK r \in Signalled :
             \E o \in {IF r.orch = NoOrch THEN NoOrch ELSE Monitored(r.orch, Observe(r.nav))} :
                orch' = NoOrch \/ (orch' = o) \/ (o # NoOrch /\ orch' = TakeConfirm(o))
      BY <1>7, TickOrch
    <2>3. r.orch = NoOrch
      BY <1>1, <2>1, SignalledFacts
    <2>4. orch' = NoOrch
      BY <2>2, <2>3
    <2>5. ~Latched(orch')
      BY <2>4 DEF Latched
    <2>6. /\ Drained(ui).wave = ui.wave
          /\ Drained(ui).screen = "default" => Confirming(Drained(ui), "allComplete").wave = ui.wave
      <3>1. Drained(ui) \in UI /\ Drained(ui).wave = ui.wave
        BY <1>1, ConfirmingFields DEF Drained, Message
      <3>2. Confirming(Drained(ui), "allComplete").wave = Drained(ui).wave
        BY <3>1, ConfirmingFields DEF Message
      <3>3. QED
        BY <3>1, <3>2
    <2>7. msgs' = msgs /\ ui'.wave = ui.wave
      BY <1>1, <1>7, <2>5, <2>6, TickOutcomes
    <2>8. QED
      BY <1>5, <1>6, <2>4, <2>7
  <1>8. CASE Answer
    <2>1. ui' = Answered(ui)
      BY <1>8 DEF Answer, ConfirmKey, AbortKey, CancelKey, EscapeKey
    <2>2. ~ui'.wave
      BY <1>1, <2>1, ClosedFields
    <2>3. orch' = NoOrch
      BY <1>1, <1>8 DEF Answer, ConfirmKey, AbortKey, CancelKey, EscapeKey, Unlatched
    <2>4. msgs' = msgs \/ Send("allComplete")
      <3>1. ~ui.next /\ ~ui.abort /\ ui.confirm \notin DialogMessages
        BY <1>1 DEF PendingIsOfWave, DialogMessages
      <3>2. ui.confirm \in Message => ui.confirm = "allComplete"
        BY <1>2, <3>1
      <3>3. QED
        BY <1>8, <3>1, <3>2 DEF Answer, ConfirmKey, AbortKey, CancelKey, EscapeKey
    <2>5. \A m \in DialogMessages : msgs'[m] <= msgs[m]
      <3>1. ASSUME Send("allComplete"), NEW m \in DialogMessages PROVE msgs'[m] = msgs[m]
        BY <1>2, <3>1, MessageFacts DEF DialogMessages
      <3>2. QED
        BY <1>2, <1>6, <2>4, <3>1
    <2>6. QED
      BY <1>5, <2>2, <2>3, <2>5
  <1>9. CASE Handle
    <2>1. ui' = ui /\ orch' = NoOrch /\ \E m \in Message : Receive(m)
      BY <1>1, <1>9 DEF Handle, HandleAdvance, HandleRetry, HandleAbort, HandleAllComplete, Message
    <2>2. \A m \in DialogMessages : msgs'[m] <= msgs[m]
      <3>1. PICK n \in Message : Receive(n)
        BY <2>1
      <3>2. QED
        BY <1>2, <3>1, MessageFacts
    <2>3. QED
      BY <1>5, <2>1, <2>2
  <1>10. CASE ShowOther
    <2>1. UNCHANGED <<orch, msgs>>
      BY <1>10 DEF ShowOther, AskOther, OpenOverlay, CloseOverlay, BrowseSessions,
                   SessionsArrive, Shows
    <2>2. ui'.wave = ui.wave
      <3>1. \A c \in {"default", "overlay"}, b \in BOOLEAN :
               [ui EXCEPT !.screen = c].wave = ui.wave /\ [ui EXCEPT !.browsing = b].wave = ui.wave
               /\ [ui EXCEPT !.browsing = b, !.screen = c].wave = ui.wave
        BY <1>1 DEF UI
      <3>2. Confirming(ui, "other").wave = ui.wave
        BY <1>1, ConfirmingFields
      <3>3. QED
        BY <1>10, <3>1, <3>2 DEF ShowOther, AskOther, OpenOverlay, CloseOverlay, BrowseSessions,
                     SessionsArrive, Shows
    <2>3. QED
      BY <1>1, <1>5, <1>6, <2>1, <2>2
  <1>11. ASSUME NEW graceful \in BOOLEAN, Restart(graceful)
         PROVE  Fresh'
    <2>1. orch' = Rebuilt(nav') /\ ui' = NoPending /\ msgs' = [m \in Message |-> 0]
      BY <1>11 DEF Restart
    <2>2. \A t \in Titles : nav'[t] = << >>
      BY <1>3, <1>4 DEF Lists
    <2>3. Rebuilt(nav') = NoOrch
      BY <2>2 DEF Rebuilt, Missing
    <2>4. ~ui'.wave /\ \A m \in DialogMessages : msgs'[m] <= msgs[m]
      BY <1>1, <1>2, <2>1, ClosedFields
    <2>5. QED
      BY <1>5, <2>1, <2>3, <2>4
  <1>12. ~\E t \in Titles : \E k \in DOMAIN nav[t] : MarkComplete(t, k)
    BY <1>1 DEF MarkComplete
  <1>13. CASE UNCHANGED <<orch, ui, msgs>>
    BY <1>1, <1>5, <1>6, <1>13
  <1>14. QED
    BY <1>7, <1>8, <1>9, <1>10, <1>11, <1>12, <1>13, ControlMovers

\* At most one implementation is started, so StartInv is inductive.
LEMMA StartInvStep ==
    ASSUME MaxStarts <= 1, SignalInv, OrchInv, UIInv, MsgsInv, MsgsInv', ListsInv, ListsInv',
           UsedInv, StartInv, [Next]_vars
    PROVE  StartInv'
  <1>1. /\ used.starts \in Nat /\ used'.starts \in Nat /\ used.starts <= used'.starts
        /\ MaxStarts \in Nat
    <2>1. Uses(used, used) /\ Uses(used, used')
      BY UsedStep DEF UsedInv
    <2>2. used \in [Bounds -> Nat] /\ used' \in [Bounds -> Nat] /\ used["starts"] <= used'["starts"]
      BY <2>1 DEF Uses, Bounds
    <2>3. QED
      BY <2>2, ControlAssumption DEF Bounds
  <1>2. /\ Implement => used.starts = 0 /\ used'.starts # 0
        /\ (\E k \in DOMAIN Plan : PlanImplementCommand(k)) =>
              used.starts = 0 /\ used'.starts # 0
    <2>1. Affordable("starts") => used.starts = 0
      BY <1>1, LimitFacts DEF Affordable
    <2>2. QED
      BY <2>1, UsedStep DEF Implement, PlanImplementCommand
  <1>3. /\ used.starts = 0 => signal = 0
        /\ used.starts = 0 \/ signal # 0 => Fresh
        /\ view # NoView /\ view.wave # 0 => signal = view.wave
    BY DEF StartInv
  <1>4. signal \in Nat /\ (view # NoView => view.wave \in Nat)
    BY DEF SignalInv
  <1>5. CASE Implement
    BY <1>1, <1>2, <1>3, <1>5 DEF Implement, StartInv
  <1>6. CASE TickApply /\ view.wave # 0
    <2>1. view # NoView /\ view' = NoView /\ signal' = 0
      BY <1>4, <1>6 DEF TickApply, ConsumeWaveSignal
    <2>2. used'.starts # 0
      BY <1>1, <1>3, <1>6, <2>1
    <2>3. QED
      BY <2>1, <2>2 DEF StartInv
  <1>7. CASE ~Implement /\ ~(TickApply /\ view.wave # 0)
    <2>1. Fresh => Fresh'
      BY <1>7, FreshStep
    <2>2. ASSUME NEW k \in DOMAIN Plan, PlanImplementCommand(k)
          PROVE  StartInv'
      <3>1. Fresh' /\ used'.starts # 0 /\ signal = 0 /\ view' = view
        BY <1>2, <1>3, <2>1, <2>2 DEF PlanImplementCommand
      <3>2. view # NoView => view.wave = 0
        BY <1>3, <3>1
      <3>3. QED
        BY <3>1, <3>2 DEF StartInv
    <2>3. ASSUME signal' = signal, view' # NoView /\ view'.wave # 0 => signal' = view'.wave
          PROVE  StartInv'
      <3>1. used'.starts = 0 => used.starts = 0
        BY <1>1
      <3>2. QED
        BY <1>3, <2>1, <2>3, <3>1 DEF StartInv
    <2>4. CASE TickCollect
      BY <2>3, <2>4 DEF TickCollect, ScanWaveSignals
    <2>5. CASE TickApply
      <3>1. view # NoView /\ view' = NoView /\ signal' = ConsumeWaveSignal
        BY <2>5 DEF TickApply
      <3>2. view.wave = 0
        BY <1>7, <2>5
      <3>3. signal' = signal
        BY <3>1, <3>2 DEF ConsumeWaveSignal
      <3>4. QED
        BY <2>3, <3>1, <3>3
    <2>6. CASE \E graceful \in BOOLEAN : Restart(graceful)
      BY <2>3, <2>6 DEF Restart
    <2>7. CASE UNCHANGED <<view, signal>>
      BY <1>3, <2>3, <2>7
    <2>8. QED
      BY <2>2, <2>4, <2>5, <2>6, <2>7, SignalMovers
  <1>8. QED
    BY <1>5, <1>6, <1>7

\* StartInv is inductive on the invariants before it.
LEMMA StartInvInvariant == MaxStarts <= 1 => (Spec => []StartInv)
  <1> SUFFICES ASSUME MaxStarts <= 1 PROVE Spec => []StartInv
    OBVIOUS
  <1>1. Init => StartInv
    BY LimitFacts DEF Init, StartInv, Fresh, NoPending, Bounds, DialogMessages, Message
  <1>2. SignalInv /\ OrchInv /\ UIInv /\ MsgsInv /\ MsgsInv' /\ ListsInv /\ ListsInv' /\ UsedInv
          /\ StartInv /\ [Next]_vars => StartInv'
    BY StartInvStep
  <1>3. QED
    BY <1>1, <1>2, SignalInvInvariant, OrchInvInvariant, UIInvInvariant, MsgsInvInvariant,
       ListsInvInvariant, UsedInvInvariant, PTL DEF Spec

\* A wave dialog and the answer to one are about the wave that is latched, and there is
\* one of them at most: a dialog, or a single answer on its way.
ProtocolInv ==
    /\ ui.wave => Latched(orch) /\ \A m \in DialogMessages : msgs[m] = 0
    /\ \A m \in DialogMessages : msgs[m] > 0 =>
          /\ Latched(orch) /\ msgs[m] = 1
          /\ \A n \in DialogMessages : msgs[n] > 0 => n = m

\* Every step of one implementation keeps ProtocolInv.
LEMMA ProtocolInvStep ==
    ASSUME MaxStarts <= 1, SignalInv, OrchInv, UIInv, MsgsInv, MsgsInv', UsedInv, StartInv,
           ProtocolInv, [Next]_vars
    PROVE  ProtocolInv'
  <1>1. ui \in UI /\ PendingIsOfWave
    BY DEF UIInv
  <1>2. /\ \A m \in Message : msgs[m] \in Nat /\ msgs'[m] \in Nat
        /\ DialogMessages \subseteq Message /\ Message \ DialogMessages = {"allComplete"}
        /\ {"advance", "retry", "abort"} = DialogMessages
    BY DEF MsgsInv, Message, DialogMessages
  <1> DEFINE None == \A m \in DialogMessages : msgs[m] = 0
             Alone(n) == /\ msgs[n] = 1
                         /\ \A m \in DialogMessages : msgs[m] > 0 => m = n
  <1>3. /\ ui.wave => Latched(orch) /\ None
        /\ \A m \in DialogMessages : msgs[m] > 0 => Latched(orch) /\ Alone(m)
    BY DEF ProtocolInv
  <1>4. ~Latched(orch) => ~ui.wave /\ None
    BY <1>2, <1>3
  <1>5. None /\ UNCHANGED msgs => None'
    OBVIOUS
  <1>6. ASSUME NEW n \in DialogMessages, Send(n), None PROVE Alone(n)'
    <2>1. \A m \in Message : msgs'[m] = IF m = n THEN msgs[m] + 1 ELSE msgs[m]
      BY <1>2, <1>6, MessageFacts
    <2>2. QED
      BY <1>2, <1>6, <2>1
  <1>7. ASSUME NEW n \in DialogMessages, Receive(n) PROVE None'
    <2>1. msgs[n] > 0 /\ \A m \in Message : msgs'[m] = IF m = n THEN msgs[m] - 1 ELSE msgs[m]
      BY <1>2, <1>7, MessageFacts
    <2>2. msgs[n] = 1 /\ \A m \in DialogMessages : msgs[m] > 0 => m = n
      BY <1>3, <1>7, <2>1
    <2>3. \A m \in DialogMessages : m # n => msgs[m] = 0
      BY <1>2, <2>2
    <2>4. QED
      BY <1>2, <1>7, <2>1, <2>2, <2>3
  <1>8. ASSUME Send("allComplete") \/ Receive("allComplete")
        PROVE  \A m \in DialogMessages : msgs'[m] = msgs[m]
    BY <1>2, <1>8, MessageFacts DEF DialogMessages
  <1>9. ASSUME None', ~ui'.wave PROVE ProtocolInv'
    BY <1>2, <1>9 DEF ProtocolInv
  <1>10. ASSUME None', Latched(orch') PROVE ProtocolInv'
    BY <1>2, <1>10 DEF ProtocolInv
  <1>11. ASSUME NEW n \in DialogMessages, Alone(n)', Latched(orch'), ~ui'.wave PROVE ProtocolInv'
    <2>1. \A m \in DialogMessages : msgs'[m] > 0 => m = n /\ msgs'[n] = 1
      BY <1>11
    <2>2. QED
      BY <1>11, <2>1 DEF ProtocolInv
  <1>12. ASSUME orch' = orch, ui'.wave = ui.wave,
                \A m \in DialogMessages : msgs'[m] = msgs[m]
         PROVE  ProtocolInv'
    BY <1>12 DEF ProtocolInv
  <1> HIDE DEF None, Alone
  <1>13. CASE Implement
    <2>1. Affordable("starts") /\ UNCHANGED <<ui, msgs>>
      BY <1>13 DEF Implement
    <2>2. used.starts = 0
      BY <2>1, LimitFacts, ControlAssumption DEF Affordable, UsedInv, Uses, Bounds
    <2>3. ~ui.wave /\ None
      BY <2>2 DEF StartInv, Fresh, None
    <2>4. QED
      BY <1>5, <1>9, <2>1, <2>3
  <1>14. CASE TickApply
    <2>1. Drained(ui) \in UI /\ Drained(ui).wave = ui.wave
      BY <1>1, ConfirmingFields DEF Drained, Message
    <2>2. Confirming(Drained(ui), "allComplete").wave = ui.wave
      BY <2>1, ConfirmingFields DEF Message
    <2>3. ASSUME ~Latched(orch), msgs' = msgs,
                 ui' \in {Drained(ui), Confirming(Drained(ui), "allComplete")}
          PROVE  ProtocolInv'
      BY <1>4, <1>5, <1>9, <2>1, <2>2, <2>3
    <2>4. ASSUME Latched(orch') <=> Latched(orch), Latched(orch) => orch' = orch,
                 ui' = Drained(ui), msgs' = msgs
          PROVE  ProtocolInv'
      <3>1. CASE Latched(orch)
        BY <1>12, <2>1, <2>4, <3>1
      <3>2. CASE ~Latched(orch)
        BY <2>3, <2>4, <3>2
      <3>3. QED
        BY <3>1, <3>2
    <2>5. ASSUME Latched(orch'), ~Latched(orch), msgs' = msgs
          PROVE  ProtocolInv'
      BY <1>4, <1>5, <1>10, <2>5
    <2>6. ASSUME Latched(orch'), ~Latched(orch), ui' = ui, Send("advance")
          PROVE  ProtocolInv'
      <3>1. Alone("advance")' /\ ~ui'.wave
        BY <1>2, <1>4, <1>6, <2>6
      <3>2. QED
        BY <1>2, <1>11, <2>6, <3>1
    <2>7. QED
      BY <1>1, <1>14, <2>3, <2>4, <2>5, <2>6, TickOutcomes
  <1>15. CASE Answer
    <2>1. ui' = Answered(ui)
      BY <1>15 DEF Answer, ConfirmKey, AbortKey, CancelKey, EscapeKey
    <2>2. ~ui'.wave
      BY <1>1, <2>1, ClosedFields
    <2>3. \/ orch' = orch /\ UNCHANGED msgs /\ ~ui.wave
          \/ orch' = orch /\ Send("allComplete") /\ (ui.wave => None')
          \/ \E m \in DialogMessages : orch' = orch /\ Send(m) /\ ui.wave
          \/ ui.wave /\ UNCHANGED msgs
      <3>1. CASE ConfirmKey
        <4>1. orch' = orch /\ (IF ui.confirm \in Message THEN Send(ui.confirm) ELSE UNCHANGED msgs)
          BY <3>1 DEF ConfirmKey
        <4>2. ui.confirm \in DialogMessages => ui.wave
          BY <1>1 DEF PendingIsOfWave, DialogMessages
        <4>3. CASE ui.confirm \in DialogMessages
          BY <1>2, <4>1, <4>2, <4>3
        <4>4. CASE ui.confirm = "allComplete"
          <5>1. Send("allComplete")
            BY <1>2, <4>1, <4>4
          <5>2. ui.wave => None'
            BY <1>3, <1>8, <5>1 DEF None
          <5>3. QED
            BY <4>1, <5>1, <5>2
        <4>5. CASE ui.confirm \notin Message
          BY <4>1, <4>5
        <4>6. QED
          BY <1>2, <4>3, <4>4, <4>5
      <3>2. CASE AbortKey
        BY <1>1, <1>2, <3>2 DEF AbortKey, PendingIsOfWave
      <3>3. CASE CancelKey \/ EscapeKey
        BY <1>1, <1>2, <3>3 DEF CancelKey, EscapeKey, PendingIsOfWave, Unlatched
      <3>4. QED
        BY <1>15, <3>1, <3>2, <3>3 DEF Answer
    <2>4. CASE orch' = orch /\ UNCHANGED msgs /\ ~ui.wave
      <3>1. ui'.wave = ui.wave
        BY <1>1, <2>1, <2>2, <2>4, ClosedFields DEF UI
      <3>2. QED
        BY <1>12, <2>4, <3>1
    <2>5. CASE orch' = orch /\ Send("allComplete") /\ (ui.wave => None')
      <3>1. CASE ui.wave
        BY <1>9, <2>2, <2>5, <3>1
      <3>2. CASE ~ui.wave
        <4>1. ui'.wave = ui.wave
          BY <1>1, <2>1, <2>2, <3>2, ClosedFields DEF UI
        <4>2. QED
          BY <1>8, <1>12, <2>5, <4>1
      <3>3. QED
        BY <3>1, <3>2
    <2>6. ASSUME NEW m \in DialogMessages, orch' = orch, Send(m), ui.wave PROVE ProtocolInv'
      <3>1. Alone(m)' /\ Latched(orch')
        BY <1>3, <1>6, <2>6
      <3>2. QED
        BY <1>11, <2>2, <3>1
    <2>7. CASE ui.wave /\ UNCHANGED msgs
      BY <1>3, <1>5, <1>9, <2>2, <2>7
    <2>8. QED
      BY <2>3, <2>4, <2>5, <2>6, <2>7
  <1>16. CASE HandleAdvance \/ HandleRetry \/ HandleAbort
    <2>1. ui' = ui /\ \E m \in DialogMessages : Receive(m)
      BY <1>2, <1>16 DEF HandleAdvance, HandleRetry, HandleAbort
    <2>2. ~ui.wave
      <3>1. \E m \in DialogMessages : msgs[m] > 0
        BY <2>1 DEF Receive
      <3>2. QED
        BY <1>2, <1>3, <3>1 DEF None
    <2>3. QED
      BY <1>7, <1>9, <2>1, <2>2
  <1>17. CASE HandleAllComplete
    <2>1. Receive("allComplete") /\ UNCHANGED <<orch, ui>>
      BY <1>17 DEF HandleAllComplete
    <2>2. QED
      BY <1>8, <1>12, <2>1
  <1>18. CASE ShowOther
    <2>1. UNCHANGED <<orch, msgs>>
      BY <1>18 DEF ShowOther, AskOther, OpenOverlay, CloseOverlay, BrowseSessions,
                   SessionsArrive, Shows
    <2>2. ui'.wave = ui.wave
      <3>1. \A c \in {"default", "overlay"}, b \in BOOLEAN :
               [ui EXCEPT !.screen = c].wave = ui.wave /\ [ui EXCEPT !.browsing = b].wave = ui.wave
               /\ [ui EXCEPT !.browsing = b, !.screen = c].wave = ui.wave
        BY <1>1 DEF UI
      <3>2. Confirming(ui, "other").wave = ui.wave
        BY <1>1, ConfirmingFields
      <3>3. QED
        BY <1>18, <3>1, <3>2 DEF ShowOther, AskOther, OpenOverlay, CloseOverlay, BrowseSessions,
                     SessionsArrive, Shows
    <2>3. QED
      BY <1>12, <2>1, <2>2
  <1>19. ASSUME NEW t \in Titles, NEW k \in DOMAIN nav[t], MarkComplete(t, k)
         PROVE  ProtocolInv'
    <2>1. Ordered(orch) /\ IsTaskRunning(orch, t[2]) /\ t[2] \in TaskNumbers
          /\ UNCHANGED <<ui, msgs>>
      BY <1>19, TitleTasks DEF MarkComplete, OrchInv
    <2>2. ~Latched(orch)
      BY <2>1, MarkCompleteFacts DEF Latched
    <2>3. QED
      BY <1>4, <1>5, <1>9, <2>1, <2>2
  <1>20. ASSUME NEW graceful \in BOOLEAN, Restart(graceful)
         PROVE  ProtocolInv'
    <2>1. ui' = NoPending /\ msgs' = [m \in Message |-> 0]
      BY <1>20 DEF Restart
    <2>2. ~ui'.wave /\ None'
      BY <1>1, <1>2, <2>1, ClosedFields DEF None
    <2>3. QED
      BY <1>9, <2>2
  <1>21. CASE UNCHANGED <<orch, ui, msgs>>
    BY <1>12, <1>21
  <1>22. QED
    BY <1>13, <1>14, <1>15, <1>16, <1>17, <1>18, <1>19, <1>20, <1>21, ControlMovers DEF Handle

\* ProtocolInv holds for one implementation.
LEMMA ProtocolInvInvariant == MaxStarts <= 1 => (Spec => []ProtocolInv)
  <1> SUFFICES ASSUME MaxStarts <= 1 PROVE Spec => []ProtocolInv
    OBVIOUS
  <1>1. Init => ProtocolInv
    BY DEF Init, ProtocolInv, NoPending, DialogMessages, Message
  <1>2. SignalInv /\ OrchInv /\ UIInv /\ MsgsInv /\ MsgsInv' /\ UsedInv
          /\ StartInv /\ ProtocolInv /\ [Next]_vars => ProtocolInv'
    BY ProtocolInvStep
  <1>3. QED
    BY <1>1, <1>2, SignalInvInvariant, OrchInvInvariant, UIInvInvariant, MsgsInvInvariant,
       UsedInvInvariant, StartInvInvariant, PTL DEF Spec

----------------------------------------------------------------------------
(* One instance per task *)

\* The titles of the k-th wave.
TitlesOf(k) == {<<Plan[k].number, u>> : u \in Plan[k].tasks}

\* Waves have numbers of their own, and in the order of the plan.
DistinctNumbers  == \A j, k \in DOMAIN Plan : Plan[j].number = Plan[k].number => j = k
AscendingNumbers == \A j, k \in DOMAIN Plan : j < k => Plan[j].number < Plan[k].number

\* The titles of the current wave are those of its index in the plan.
LEMMA CurrentTitlesFacts ==
    ASSUME NEW o, Ordered(o), o.currentWave < Len(Plan)
    PROVE  /\ o.currentWave + 1 \in DOMAIN Plan
           /\ CurrentTitles(o) = TitlesOf(o.currentWave + 1)
           /\ DistinctNumbers =>
                 \A k \in DOMAIN Plan : \A t \in TitlesOf(k) :
                    t \in CurrentTitles(o) => k = o.currentWave + 1
  <1>1. o.plan = Plan /\ o.currentWave \in Nat /\ Len(Plan) \in Nat /\ DOMAIN Plan = 1 .. Len(Plan)
    BY ControlAssumption DEF Ordered, WellFormed, Orchestrator
  <1>2. CurrentWaveNumber(o) = Plan[o.currentWave + 1].number
        /\ CurrentWaveTasks(o) = Plan[o.currentWave + 1].tasks
    BY <1>1 DEF CurrentWaveNumber, CurrentWaveTasks, PastLastWave
  <1>3. CurrentTitles(o) = TitlesOf(o.currentWave + 1)
    BY <1>2 DEF CurrentTitles, TitlesOf
  <1>4. o.currentWave + 1 \in DOMAIN Plan
    BY <1>1
  <1>5. ASSUME DistinctNumbers, NEW k \in DOMAIN Plan, NEW t \in TitlesOf(k), t \in CurrentTitles(o)
        PROVE  k = o.currentWave + 1
    <2>1. t[1] = Plan[k].number /\ t[1] = Plan[o.currentWave + 1].number
      BY <1>3, <1>5 DEF TitlesOf
    <2>2. QED
      BY <1>4, <1>5, <2>1 DEF DistinctNumbers
  <1>6. QED
    BY <1>3, <1>4, <1>5

\* The waves after w have no instance, in the sidebar or in the state file.
EmptyAfter(w) ==
    \A k \in DOMAIN Plan : k > w + 1 =>
        \A t \in TitlesOf(k) : Len(nav[t]) = 0 /\ Len(saved[t]) = 0

\* A title has one instance, and later waves have none.
InstancesInv ==
    /\ \A t \in Titles : Len(nav[t]) <= 1 /\ Len(saved[t]) <= 1
    /\ orch # NoOrch => EmptyAfter(orch.currentWave)

\* The titles of a wave are titles.
LEMMA TitlesOfTitles == \A k \in DOMAIN Plan : TitlesOf(k) \subseteq Titles
  BY DEF Titles, TitlesOf

\* A wave is started where there is no instance yet: the first one of an
\* implementation, or the one after the wave that is latched.
LEMMA StartingFacts ==
    ASSUME MaxStarts <= 1, SignalInv, OrchInv, UsedInv, StartInv, ProtocolInv, InstancesInv,
           NEW o, Starting(o), NEW n, n = StartNextWave(o)
    PROVE  /\ Ordered(o) /\ o.state # "allComplete" /\ Ordered(n) /\ n.currentWave < Len(Plan)
           /\ EmptyAfter(n.currentWave)
           /\ n.currentWave + 1 \in DOMAIN Plan
           /\ \A t \in TitlesOf(n.currentWave + 1) : Len(nav[t]) = 0
           /\ orch' # NoOrch => orch'.currentWave = n.currentWave
  <1>1. ASSUME Ordered(o), o.state # "allComplete"
        PROVE  /\ Ordered(n) /\ n.currentWave < Len(Plan) /\ n.currentWave + 1 \in DOMAIN Plan
               /\ n.currentWave = IF o.state = "waveComplete" THEN o.currentWave + 1
                                  ELSE o.currentWave
    <2>1. Ordered(n) /\ n.state = "running"
          /\ n.currentWave = IF o.state = "waveComplete" THEN o.currentWave + 1 ELSE o.currentWave
      BY <1>1, StartNextWaveFacts
    <2>2. n.currentWave < Len(Plan)
      BY <2>1 DEF Ordered, WellFormed
    <2>3. QED
      BY <2>1, <2>2, CurrentTitlesFacts
  <1>2. ASSUME Fresh
        PROVE  /\ \A w : EmptyAfter(w)
               /\ \A k \in DOMAIN Plan : \A t \in TitlesOf(k) : Len(nav[t]) = 0
    BY <1>2, TitlesOfTitles DEF EmptyAfter, Fresh
  <1>3. CASE Implement /\ o = NewWaveOrchestrator(Plan)
    <2>1. Ordered(o) /\ o.state = "idle" /\ o.currentWave = 0
      BY <1>3, NewOrdered
    <2>2. Affordable("starts") /\ (orch' = o \/ orch' = n)
      BY <1>3 DEF Implement, StartNextWaveOf
    <2>3. used.starts = 0
      BY <2>2, LimitFacts, ControlAssumption DEF Affordable, UsedInv, Uses, Bounds
    <2>4. Fresh
      BY <2>3 DEF StartInv
    <2>5. orch'.currentWave = n.currentWave
      BY <1>1, <2>1, <2>2
    <2>6. QED
      BY <1>1, <1>2, <2>1, <2>4, <2>5
  <1>4. CASE TickApply /\ orch = NoOrch /\ view.wave # 0 /\ o = Forwarded[view.wave - 1]
    <2>1. view # NoView
      BY <1>4 DEF TickApply
    <2>2. view.wave \in 0 .. Len(Plan) /\ signal = view.wave /\ Len(Plan) \in Nat
      BY <1>4, <2>1, ControlAssumption DEF SignalInv, StartInv
    <2>3. Fresh
      BY <1>4, <2>2 DEF StartInv
    <2>4. view.wave - 1 \in 0 .. Len(Plan) /\ view.wave - 1 < Len(Plan)
      BY <1>4, <2>2
    <2>5. Ordered(o) /\ o.state # "allComplete"
      BY <1>4, <2>4, ForwardedFacts
    <2>6. ASSUME orch' # NoOrch PROVE orch'.currentWave = n.currentWave
      <3>1. PICK r \in Signalled :
               \E m \in {IF r.orch = NoOrch THEN NoOrch ELSE Monitored(r.orch, Observe(r.nav))} :
                  orch' = m \/ (m # NoOrch /\ orch' = TakeConfirm(m))
        BY <1>4, <2>6, TickOrch
      <3>2. PICK m \in {IF r.orch = NoOrch THEN NoOrch ELSE Monitored(r.orch, Observe(r.nav))} :
               orch' = m \/ (m # NoOrch /\ orch' = TakeConfirm(m))
        BY <3>1
      <3>3. r.orch = n \/ r.orch = orch
        BY <1>4, <2>1, SignalledFacts
      <3>4. r.orch = n
        <4>1. r.orch # NoOrch
          BY <2>6, <3>2
        <4>2. QED
          BY <1>4, <3>3, <4>1
      <3>5. m = Monitored(n, Observe(r.nav))
        <4>1. n # NoOrch
          BY <1>1, <2>5, ControlAssumption DEF Ordered, WellFormed
        <4>2. QED
          BY <3>2, <3>4, <4>1
      <3>6. Ordered(m) /\ m.currentWave = n.currentWave
        BY <1>1, <2>5, <3>5, MonitoredFacts
      <3>7. TakeConfirm(m).currentWave = m.currentWave
        BY <3>6, LatchFacts
      <3>8. QED
        BY <3>2, <3>6, <3>7
    <2>7. QED
      BY <1>1, <1>2, <2>3, <2>5, <2>6
  <1>5. CASE HandleAdvance /\ orch # NoOrch /\ o = orch
    <2>1. Receive("advance") /\ orch' = n
      BY <1>5 DEF HandleAdvance, StartNextWaveOf
    <2>2. Latched(orch)
      BY <2>1 DEF Receive, ProtocolInv, DialogMessages
    <2>3. Ordered(o) /\ o.state = "waveComplete"
      BY <1>5, <2>2, LatchedIsOver
    <2>4. n.currentWave = o.currentWave + 1 /\ o.currentWave \in Nat
            /\ n.currentWave + 1 \in DOMAIN Plan
      BY <1>1, <2>3 DEF Ordered, WellFormed, Orchestrator
    <2>5. EmptyAfter(o.currentWave)
      BY <1>5 DEF InstancesInv
    <2>6. EmptyAfter(n.currentWave)
      <3>1. DOMAIN Plan \subseteq Nat
        BY ControlAssumption
      <3>2. \A k \in DOMAIN Plan : k > n.currentWave + 1 => k > o.currentWave + 1
        BY <2>4, <3>1
      <3>3. QED
        BY <2>5, <3>2 DEF EmptyAfter
    <2>7. \A t \in TitlesOf(n.currentWave + 1) : Len(nav[t]) = 0
      <3>1. n.currentWave + 1 > o.currentWave + 1
        BY <2>4
      <3>2. QED
        BY <2>4, <2>5, <3>1 DEF EmptyAfter
    <2>8. QED
      BY <1>1, <2>1, <2>3, <2>6, <2>7
  <1>6. QED
    BY <1>3, <1>4, <1>5 DEF Starting

\* Otherwise the current wave stays the same, except over a restart.
LEMMA CurrentWaveKept ==
    ASSUME SignalInv, OrchInv, [Next]_vars, orch' # NoOrch,
           ~\E o : Starting(o), ~\E graceful \in BOOLEAN : Restart(graceful)
    PROVE  orch # NoOrch /\ orch'.currentWave = orch.currentWave
  <1>1. ~Implement /\ ~(HandleAdvance /\ orch # NoOrch)
        /\ ~(TickApply /\ orch = NoOrch /\ view.wave # 0)
    BY DEF Starting
  <1>2. orch # NoOrch => Ordered(orch)
    BY DEF OrchInv
  <1>3. CASE TickApply
    <2>1. PICK r \in Signalled :
             \E m \in {IF r.orch = NoOrch THEN NoOrch ELSE Monitored(r.orch, Observe(r.nav))} :
                orch' = m \/ (m # NoOrch /\ orch' = TakeConfirm(m))
      BY <1>3, TickOrch
    <2>2. PICK m \in {IF r.orch = NoOrch THEN NoOrch ELSE Monitored(r.orch, Observe(r.nav))} :
             orch' = m \/ (m # NoOrch /\ orch' = TakeConfirm(m))
      BY <2>1
    <2>3. r.orch = orch
      BY <1>1, <1>3, SignalledFacts DEF TickApply
    <2>4. orch # NoOrch /\ m = Monitored(orch, Observe(r.nav))
      BY <2>2, <2>3
    <2>5. Ordered(m) /\ m.currentWave = orch.currentWave
      BY <1>2, <2>4, MonitoredFacts
    <2>6. TakeConfirm(m).currentWave = m.currentWave
      BY <2>5, LatchFacts
    <2>7. QED
      BY <2>2, <2>4, <2>5, <2>6
  <1>4. CASE CancelKey \/ EscapeKey
    <2>1. orch' = orch \/ (orch # NoOrch /\ orch' = ResetConfirm(orch))
      BY <1>4 DEF CancelKey, EscapeKey, Unlatched
    <2>2. orch # NoOrch => ResetConfirm(orch).currentWave = orch.currentWave
      BY <1>2, LatchFacts
    <2>3. QED
      BY <2>1, <2>2
  <1>5. CASE HandleAdvance
    BY <1>1, <1>5 DEF HandleAdvance
  <1>6. CASE HandleRetry
    <2>1. orch' = orch \/ (orch # NoOrch /\ orch' = RetryFailedTasks(orch))
      BY <1>6 DEF HandleRetry
    <2>2. orch # NoOrch => RetryFailedTasks(orch).currentWave = orch.currentWave
      BY <1>2, RetryFacts
    <2>3. QED
      BY <2>1, <2>2
  <1>7. CASE HandleAbort
    BY <1>7 DEF HandleAbort
  <1>8. ASSUME NEW t \in Titles, NEW k \in DOMAIN nav[t], MarkComplete(t, k)
        PROVE  orch # NoOrch /\ orch'.currentWave = orch.currentWave
    <2>1. Ordered(orch) /\ IsTaskRunning(orch, t[2]) /\ t[2] \in TaskNumbers
          /\ orch' = MarkTaskComplete(orch, t[2]) /\ orch # NoOrch
      BY <1>8, TitleTasks DEF MarkComplete, OrchInv
    <2>2. MarkTaskComplete(orch, t[2]).currentWave = orch.currentWave
      BY <2>1, MarkCompleteFacts
    <2>3. QED
      BY <2>1, <2>2
  <1>9. CASE UNCHANGED orch
    BY <1>9
  <1>10. QED
    BY <1>1, <1>3, <1>4, <1>5, <1>6, <1>7, <1>8, <1>9, OrchMovers

\* The waves of a plan have distinct numbers, and ascending ones when kasmos restarts:
\* the rebuild takes the highest number for the last wave that was started.
NumbersOrdered == DistinctNumbers /\ (MaxRestarts > 0 => AscendingNumbers)

\* InstancesInv is inductive for one implementation of such a plan.
LEMMA InstancesInvStep ==
    ASSUME MaxStarts <= 1, NumbersOrdered, SignalInv, OrchInv, UsedInv, ListsInv, ListsInv',
           StartInv, ProtocolInv, InstancesInv, [Next]_vars
    PROVE  InstancesInv'
  <1>1. /\ nav \in Lists /\ saved \in Files /\ nav' \in Lists /\ saved' \in Files
        /\ \A t \in Titles : /\ Len(nav[t]) \in Nat /\ Len(nav'[t]) \in Nat
                             /\ Len(saved[t]) \in Nat /\ Len(saved'[t]) \in Nat
    BY DEF ListsInv, Lists, Files
  <1>2. /\ \A t \in Titles : Len(nav[t]) <= 1 /\ Len(saved[t]) <= 1
        /\ orch # NoOrch => Ordered(orch) /\ EmptyAfter(orch.currentWave)
    BY DEF InstancesInv, OrchInv
  <1>3. CASE \E graceful \in BOOLEAN : Restart(graceful)
    <2>1. PICK graceful \in BOOLEAN : Restart(graceful)
      BY <1>3
    <2>2. /\ saved' \in {saved, Save(nav)}
          /\ nav' = [t \in Titles |-> [k \in DOMAIN saved'[t] |->
                        [phase |-> saved'[t][k], prompt |-> FALSE]]]
          /\ orch' = Rebuilt(nav')
          /\ Affordable("restarts")
      BY <2>1 DEF Restart
    <2>3. \A t \in Titles : Len(nav'[t]) = Len(saved'[t])
      BY <1>1, <2>2, ReadFacts
    <2>4. \A t \in Titles : Len(Save(nav)[t]) <= Len(nav[t])
      BY <1>1, SaveFacts
    <2>5. \A t \in Titles : Len(saved'[t]) <= 1 /\ Len(nav'[t]) <= 1
      <3>1. CASE saved' = saved
        BY <1>2, <2>3, <3>1
      <3>2. CASE saved' = Save(nav)
        BY <1>1, <1>2, <2>3, <2>4, <3>2
      <3>3. QED
        BY <2>2, <3>1, <3>2
    <2>6. ASSUME orch' # NoOrch PROVE EmptyAfter(orch.currentWave)'
      <3>1. MaxRestarts > 0
        <4>1. used["restarts"] \in Nat /\ MaxRestarts \in Nat
          BY ControlAssumption DEF UsedInv, Uses, Bounds
        <4>2. QED
          BY <2>2, <4>1, LimitFacts DEF Affordable
      <3>2. NoEmptyWave /\ AscendingNumbers
        BY <3>1, ControlAssumption DEF NumbersOrdered, NoEmptyWave
      <3> DEFINE w == orch'.currentWave
      <3>3. /\ w + 1 \in DOMAIN Plan
            /\ \A t \in Titles : nav'[t] # << >> => t[1] <= Plan[w + 1].number
        BY <2>2, <2>6, <3>2, RebuiltOrdered
      <3>4. \A k \in DOMAIN Plan : Plan[k].number \in Nat
        <4>1. \A k \in DOMAIN Plan : Plan[k] \in Wave
          BY ControlAssumption
        <4>2. QED
          BY <4>1 DEF Wave
      <3>5. ASSUME NEW k \in DOMAIN Plan, k > w + 1, NEW t \in TitlesOf(k)
            PROVE  Len(nav'[t]) = 0 /\ Len(saved'[t]) = 0
        <4>1. t \in Titles /\ t[1] = Plan[k].number
          BY TitlesOfTitles DEF TitlesOf
        <4>2. Plan[w + 1].number < Plan[k].number
          BY <3>2, <3>3, <3>5 DEF AscendingNumbers
        <4>3. nav'[t] = << >>
          BY <3>3, <3>4, <4>1, <4>2
        <4>4. QED
          BY <2>3, <4>1, <4>3
      <3>6. QED
        BY <3>5 DEF EmptyAfter
    <2>7. QED
      BY <2>5, <2>6 DEF InstancesInv
  <1>4. ASSUME ~\E graceful \in BOOLEAN : Restart(graceful),
               \A t \in Titles : Len(nav'[t]) <= 1,
               \A k \in DOMAIN Plan : orch' # NoOrch /\ k > orch'.currentWave + 1 =>
                  \A t \in TitlesOf(k) : Len(nav[t]) = 0 /\ Len(saved[t]) = 0 /\ Len(nav'[t]) = 0,
               saved' = saved \/ saved' = Save(nav')
        PROVE  InstancesInv'
    <2>1. \A t \in Titles : Len(Save(nav')[t]) <= Len(nav'[t])
      BY <1>1, SaveFacts
    <2>2. \A t \in Titles : Len(nav'[t]) <= 1 /\ Len(saved'[t]) <= 1
      <3>1. CASE saved' = saved
        BY <1>2, <1>4, <3>1
      <3>2. CASE saved' = Save(nav')
        BY <1>1, <1>4, <2>1, <3>2
      <3>3. QED
        BY <1>4, <3>1, <3>2
    <2>3. \A t \in Titles : Len(saved[t]) = 0 /\ Len(nav'[t]) = 0 => Len(saved'[t]) = 0
      <3>1. CASE saved' = saved
        BY <3>1
      <3>2. CASE saved' = Save(nav')
        BY <1>1, <2>1, <3>2
      <3>3. QED
        BY <1>4, <3>1, <3>2
    <2>4. ASSUME orch' # NoOrch, NEW k \in DOMAIN Plan, k > orch'.currentWave + 1,
                 NEW t \in TitlesOf(k)
          PROVE  Len(nav'[t]) = 0 /\ Len(saved'[t]) = 0
      BY <1>4, <2>3, <2>4, TitlesOfTitles
    <2>5. QED
      BY <2>2, <2>4 DEF InstancesInv, EmptyAfter
  \* What is empty after a step that starts no wave.
  <1>5. ASSUME ~\E graceful \in BOOLEAN : Restart(graceful), ~\E o : Starting(o), orch' # NoOrch
        PROVE  orch # NoOrch /\ orch'.currentWave = orch.currentWave
                 /\ EmptyAfter(orch'.currentWave)
    BY <1>2, <1>5, CurrentWaveKept
  <1>6. CASE /\ ~\E graceful \in BOOLEAN : Restart(graceful)
             /\ Shrunk(nav', nav) /\ (saved' = saved \/ saved' = Save(nav'))
    <2>1. orch' # NoOrch => EmptyAfter(orch'.currentWave)
      <3>1. CASE \E o : Starting(o)
        <4>1. PICK o : Starting(o)
          BY <3>1
        <4> DEFINE n == StartNextWave(o)
        <4>2. EmptyAfter(n.currentWave) /\ (orch' # NoOrch => orch'.currentWave = n.currentWave)
          BY <4>1, StartingFacts
        <4>3. QED
          BY <4>2
      <3>2. QED
        BY <1>5, <1>6, <3>1
    <2>2. \A t \in Titles : Len(nav'[t]) <= Len(nav[t])
      BY <1>6 DEF Shrunk
    <2>3. \A t \in Titles : Len(nav'[t]) <= 1 /\ (Len(nav[t]) = 0 => Len(nav'[t]) = 0)
      BY <1>1, <1>2, <2>2
    <2>4. \A k \in DOMAIN Plan : orch' # NoOrch /\ k > orch'.currentWave + 1 =>
             \A t \in TitlesOf(k) : Len(nav[t]) = 0 /\ Len(saved[t]) = 0 /\ Len(nav'[t]) = 0
      BY <2>1, <2>3, TitlesOfTitles DEF EmptyAfter
    <2>5. QED
      BY <1>4, <1>6, <2>3, <2>4
  <1>7. CASE /\ ~\E graceful \in BOOLEAN : Restart(graceful)
             /\ saved' = saved
             /\ \E o : /\ Starting(o) /\ Ordered(o)
                       /\ Shrunk(nav', Added(nav, CurrentTitles(StartNextWave(o))))
    <2>1. PICK o : Starting(o) /\ Shrunk(nav', Added(nav, CurrentTitles(StartNextWave(o))))
      BY <1>7
    <2> DEFINE n == StartNextWave(o)
    <2>2. /\ Ordered(n) /\ n.currentWave < Len(Plan)
          /\ EmptyAfter(n.currentWave)
          /\ n.currentWave + 1 \in DOMAIN Plan
          /\ \A t \in TitlesOf(n.currentWave + 1) : Len(nav[t]) = 0
          /\ orch' # NoOrch => orch'.currentWave = n.currentWave
      BY <2>1, StartingFacts
    <2> HIDE DEF n
    <2>3. /\ CurrentTitles(n) = TitlesOf(n.currentWave + 1)
          /\ \A k \in DOMAIN Plan : \A t \in TitlesOf(k) :
                t \in CurrentTitles(n) => k = n.currentWave + 1
      BY <2>2, CurrentTitlesFacts DEF NumbersOrdered
    <2>4. \A t \in Titles : Len(nav'[t]) <=
             IF t \in CurrentTitles(n) THEN Len(nav[t]) + 1 ELSE Len(nav[t])
      <3>1. Shrunk(nav', Added(nav, CurrentTitles(n)))
        BY <2>1 DEF n
      <3>2. QED
        BY <1>1, <3>1, AddedFacts DEF Shrunk
    <2>5. \A t \in Titles : Len(nav'[t]) <= 1
      BY <1>1, <1>2, <2>2, <2>3, <2>4
    <2>6. \A k \in DOMAIN Plan : orch' # NoOrch /\ k > orch'.currentWave + 1 =>
             \A t \in TitlesOf(k) : Len(nav[t]) = 0 /\ Len(saved[t]) = 0 /\ Len(nav'[t]) = 0
      <3>1. ASSUME NEW k \in DOMAIN Plan, k > n.currentWave + 1, NEW t \in TitlesOf(k)
            PROVE  Len(nav[t]) = 0 /\ Len(saved[t]) = 0 /\ Len(nav'[t]) = 0
        <4>1. t \in Titles /\ Len(nav[t]) = 0 /\ Len(saved[t]) = 0
          BY <2>2, <3>1, TitlesOfTitles DEF EmptyAfter
        <4>2. n.currentWave + 1 \in Int /\ k \in Int
          BY <2>2, ControlAssumption
        <4>3. k # n.currentWave + 1
          BY <3>1, <4>2
        <4>4. t \notin CurrentTitles(n)
          BY <2>3, <3>1, <4>3
        <4>5. QED
          BY <1>1, <2>4, <4>1, <4>4
      <3>2. QED
        BY <2>2, <3>1
    <2>7. QED
      BY <1>4, <1>7, <2>5, <2>6
  <1>8. CASE /\ ~\E graceful \in BOOLEAN : Restart(graceful)
             /\ HandleRetry /\ orch # NoOrch /\ saved' = saved
             /\ \A t \in Titles : Len(nav'[t]) <= IF t \in RetriedTitles THEN 1 ELSE Len(nav[t])
    <2>1. \A t \in Titles : Len(nav'[t]) <= 1
      BY <1>1, <1>2, <1>8
    <2>2. Ordered(orch) /\ orch.currentWave < Len(Plan)
      <3>1. Receive("retry")
        BY <1>8 DEF HandleRetry
      <3>2. Latched(orch)
        BY <3>1 DEF Receive, ProtocolInv, DialogMessages
      <3>3. QED
        BY <1>2, <1>8, <3>2, LatchedIsOver DEF Ordered, WellFormed, Orchestrator
    <2>3. \A k \in DOMAIN Plan : \A t \in TitlesOf(k) :
             t \in CurrentTitles(orch) => k = orch.currentWave + 1
      BY <2>2, CurrentTitlesFacts DEF NumbersOrdered
    <2>4. orch' # NoOrch => orch'.currentWave = orch.currentWave
      <3>1. orch' = orch \/ orch' = RetryFailedTasks(orch)
        BY <1>8 DEF HandleRetry
      <3>2. QED
        BY <2>2, <3>1, RetryFacts
    <2>5. \A k \in DOMAIN Plan : orch' # NoOrch /\ k > orch'.currentWave + 1 =>
             \A t \in TitlesOf(k) : Len(nav[t]) = 0 /\ Len(saved[t]) = 0 /\ Len(nav'[t]) = 0
      <3>1. ASSUME NEW k \in DOMAIN Plan, k > orch.currentWave + 1, NEW t \in TitlesOf(k)
            PROVE  Len(nav[t]) = 0 /\ Len(saved[t]) = 0 /\ Len(nav'[t]) = 0
        <4>1. t \in Titles /\ Len(nav[t]) = 0 /\ Len(saved[t]) = 0
          BY <1>2, <1>8, <3>1, TitlesOfTitles DEF EmptyAfter
        <4>2. orch.currentWave + 1 \in Int /\ k \in Int
          BY <2>2, ControlAssumption DEF Ordered, WellFormed, Orchestrator
        <4>3. k # orch.currentWave + 1
          BY <3>1, <4>2
        <4>4. t \notin RetriedTitles
          BY <2>3, <3>1, <4>3 DEF RetriedTitles
        <4>5. QED
          BY <1>1, <1>8, <4>1, <4>4
      <3>2. QED
        BY <2>4, <3>1
    <2>6. QED
      BY <1>4, <1>8, <2>1, <2>5
  <1>9. QED
    BY <1>3, <1>6, <1>7, <1>8, ListsStepTaken DEF ListsStep

\* So it always holds.
LEMMA InstancesInvInvariant == MaxStarts <= 1 /\ NumbersOrdered => (Spec => []InstancesInv)
  <1> SUFFICES ASSUME MaxStarts <= 1, NumbersOrdered PROVE Spec => []InstancesInv
    OBVIOUS
  <1>1. Init => InstancesInv
    BY DEF Init, InstancesInv
  <1>2. SignalInv /\ OrchInv /\ UsedInv /\ ListsInv /\ ListsInv' /\ StartInv /\ ProtocolInv
          /\ InstancesInv /\ [Next]_vars => InstancesInv'
    BY InstancesInvStep
  <1>3. QED
    BY <1>1, <1>2, SignalInvInvariant, OrchInvInvariant, UsedInvInvariant, ListsInvInvariant,
       StartInvInvariant, ProtocolInvInvariant, PTL DEF Spec

\* However answers, retries, ticks, dying agents and restarts interleave, a plan that is
\* implemented once has at most one instance for a task.
THEOREM OneInstancePerTaskTheorem ==
    MaxStarts <= 1 /\ NumbersOrdered => (Spec => []OneInstancePerTask)
  <1> SUFFICES ASSUME MaxStarts <= 1, NumbersOrdered PROVE Spec => []OneInstancePerTask
    OBVIOUS
  <1>1. InstancesInv => OneInstancePerTask
    BY DEF InstancesInv, OneInstancePerTask
  <1>2. QED
    BY <1>1, InstancesInvInvariant, PTL

----------------------------------------------------------------------------
(* Agents and their tasks.  As long as no tick result is late and the user *)
(* leaves single agents alone, an agent that works has a task that runs.   *)

\* A session at work, a started and a starting instance, and a task that runs.
Busy(s)    == s \in {"busy", "settling"}
Live(l)    == l # << >> /\ l[1].phase = "live"
Waiting(l) == l # << >> /\ l[1].phase = "loading"

RunningTitle(o, t) == o # NoOrch /\ t \in CurrentTitles(o) /\ IsTaskRunning(o, t[2])

\* A session that works, and an instance that is starting, belong to a running task; the
\* instance of such a session is live and not known to be idle.
TitleInv(o, l, s, t) ==
    /\ Busy(s) \/ Waiting(l) => RunningTitle(o, t)
    /\ Busy(s) => Live(l) /\ ~l[1].prompt

\* What the tick saw of a title is still so.
SeenRight(seen, l, s) ==
    /\ seen # "skipped" => Live(l)
    /\ seen = "dead" => s = "none"
    /\ seen = "prompt" => s = "idle"

\* Until a restart, the agents at work are those of running tasks.
AgentsInv ==
    NotRestarted =>
        /\ strays = {}
        /\ \A t \in Titles : TitleInv(orch, nav[t], sess[t], t)
        /\ view # NoView => \A t \in Titles : SeenRight(view.seen[t], nav[t], sess[t])

\* At most one instance per title.
Short(n) == n \in Lists /\ \A t \in Titles : Len(n[t]) <= 1

\* The tasks that run are a matter of the wave and the statuses.
LEMMA SameRunning ==
    ASSUME NEW o, NEW n, o # NoOrch, n # NoOrch, n.plan = o.plan,
           n.currentWave = o.currentWave, n.taskStates = o.taskStates, NEW t
    PROVE  RunningTitle(n, t) <=> RunningTitle(o, t)
  BY DEF RunningTitle, CurrentTitles, CurrentWaveNumber, CurrentWaveTasks, PastLastWave,
         IsTaskRunning

\* Nothing runs when the wave is over.
LEMMA OverRunsNothing ==
    ASSUME NEW o, Ordered(o), o.state \in {"waveComplete", "allComplete"}, NEW t
    PROVE  ~RunningTitle(o, t)
  <1>1. \A u \in CurrentWaveTasks(o) : Resolved(o, u)
    BY DEF Ordered, WellFormed
  <1>2. t \in CurrentTitles(o) => t[2] \in CurrentWaveTasks(o)
    BY DEF CurrentTitles
  <1>3. QED
    BY <1>1, <1>2 DEF RunningTitle, IsTaskRunning, Resolved

\* The current wave's running tasks are those of the titles of the wave.
LEMMA CurrentTitle ==
    ASSUME NEW o, NEW t \in CurrentTitles(o)
    PROVE  t[2] \in CurrentWaveTasks(o) /\ t = <<CurrentWaveNumber(o), t[2]>>
  BY DEF CurrentTitles

\* A sequence that is not the empty one.
LEMMA NonEmptySeq ==
    ASSUME NEW S, NEW s \in Seq(S), s # << >>
    PROVE  Len(s) \in Nat /\ Len(s) # 0 /\ DOMAIN s = 1 .. Len(s)
  OBVIOUS

\* The rest of a sequence with one element.
LEMMA TailOfOne ==
    ASSUME NEW S, NEW s \in Seq(S), Len(s) = 1
    PROVE  Tail(s) = << >> /\ s # << >>
  <1>1. s # << >> /\ Tail(s) \in Seq(S) /\ Len(Tail(s)) = 0
    OBVIOUS
  <1> DEFINE r == Tail(s)
  <1> HIDE DEF r
  <1>2. r = << >>
    BY <1>1, NonEmptySeq DEF r
  <1>3. QED
    BY <1>1, <1>2 DEF r

\* A short list after the tick's result was applied.
LEMMA ObservedShort ==
    ASSUME NEW n, Short(n), NEW t \in Titles
    PROVE  /\ n[t] = << >> => Observe(n)[t] = << >>
           /\ n[t] # << >> =>
                 /\ Observe(n)[t] # << >>
                 /\ Observe(n)[t][1] = Observed(n[t][1], view.seen[t])
                 /\ LastOf(Observe(n), t) = Observe(n)[t][1]
  <1>1. n[t] \in Seq(Instance) /\ Len(n[t]) <= 1
    BY DEF Short, Lists
  <1>2. CASE n[t] = << >>
    BY <1>2 DEF Observe, Missing
  <1>3. CASE n[t] # << >>
    <2> DEFINE i == Observed(n[t][1], view.seen[t])
    <2>1. Len(n[t]) = 1 /\ DOMAIN n[t] = 1 .. 1
      <3>1. Len(n[t]) \in Nat /\ Len(n[t]) # 0 /\ DOMAIN n[t] = 1 .. Len(n[t])
        BY <1>1, <1>3, NonEmptySeq
      <3> DEFINE k == Len(n[t])
      <3>2. k \in Nat /\ k # 0 /\ k <= 1
        BY <1>1, <3>1
      <3> HIDE DEF k
      <3>3. k = 1
        BY <3>2
      <3>4. QED
        BY <3>1, <3>3 DEF k
    <2>2. Observe(n)[t] = [n[t] EXCEPT ![1] = i]
      BY <1>3, <2>1 DEF Observe, Missing
    <2> HIDE DEF i
    <2>3. Observe(n)[t][1] = i /\ Len(Observe(n)[t]) = 1 /\ Observe(n)[t] # << >>
      BY <1>1, <2>1, <2>2
    <2>4. QED
      BY <1>3, <2>3 DEF i, LastOf
  <1>4. QED
    BY <1>2, <1>3

\* The monitor ends no task whose agent works or whose instance is starting.
LEMMA MonitorKeeps ==
    ASSUME NEW o, Ordered(o), o # NoOrch, NEW n, Short(n), NEW t \in Titles, NEW s,
           TitleInv(o, n[t], s, t), SeenRight(view.seen[t], n[t], s)
    PROVE  TitleInv(Monitored(o, Observe(n)), Observe(n)[t], s, t)
  <1> DEFINE l == Observe(n)[t]
             m == Monitored(o, Observe(n))
             seen == view.seen[t]
  <1>1. /\ n[t] = << >> => l = << >>
        /\ n[t] # << >> => /\ l # << >> /\ l[1] = Observed(n[t][1], seen)
                           /\ LastOf(Observe(n), t) = l[1]
    BY ObservedShort
  <1>2. n[t] # << >> => n[t][1] \in Instance
    <2>1. n[t] \in Seq(Instance)
      BY DEF Short, Lists
    <2>2. QED
      BY <2>1
  <1>3. Busy(s) => /\ Live(n[t]) /\ ~n[t][1].prompt /\ RunningTitle(o, t)
                   /\ seen # "dead" /\ seen # "prompt"
    BY DEF TitleInv, SeenRight, Busy
  <1>4. Busy(s) => Live(l) /\ ~l[1].prompt
    BY <1>1, <1>2, <1>3 DEF Live, Observed, Instance
  <1>5. Waiting(l) => Waiting(n[t]) /\ seen = "skipped"
    <2>1. ASSUME Waiting(l) PROVE n[t] # << >> /\ n[t][1].phase = "loading"
      <3>1. n[t] # << >> /\ Observed(n[t][1], seen).phase = "loading"
        BY <1>1, <2>1 DEF Waiting
      <3>2. [n[t][1] EXCEPT !.prompt = TRUE].phase = n[t][1].phase
        BY <1>2, <3>1 DEF Instance
      <3>3. QED
        BY <3>1, <3>2 DEF Observed
    <2>2. QED
      BY <2>1 DEF Waiting, SeenRight, Live
  <1> HIDE DEF l
  <1>6. ASSUME Busy(s) \/ Waiting(l) PROVE RunningTitle(m, t)
    <2>1. RunningTitle(o, t)
      BY <1>3, <1>5, <1>6 DEF TitleInv
    <2>2. t[2] \in CurrentWaveTasks(o) /\ t = <<CurrentWaveNumber(o), t[2]>>
          /\ o.taskStates[t[2]] = "running"
      BY <2>1, CurrentTitle DEF RunningTitle, IsTaskRunning
    <2>3. ~Missing(Observe(n), t) /\ LastOf(Observe(n), t) = l[1]
      BY <1>1, <1>4, <1>6 DEF l, Live, Waiting, Missing
    <2>4. l[1].phase # "paused"
      BY <1>4, <1>6 DEF Live, Waiting
    <2>5. seen # "skipped" => ~l[1].prompt
      BY <1>4, <1>5, <1>6
    <2>6. seen # "dead"
      BY <1>3, <1>5, <1>6
    <2>7. t[2] \notin Finished(o, Observe(n))
      BY <2>2, <2>3, <2>5 DEF Finished
    <2>8. t[2] \notin Lost(o, Observe(n))
      BY <2>2, <2>3, <2>4, <2>6 DEF Lost
    <2>9. m = o \/ m = Resolve(o, Finished(o, Observe(n)), Lost(o, Observe(n)))
      BY DEF Monitored
    <2>10. Ordered(m) /\ m.currentWave = o.currentWave /\ t[2] \in TaskNumbers
      BY MonitoredFacts, TitleTasks
    <2>11. m.taskStates[t[2]] = "running"
      BY <2>2, <2>7, <2>8, <2>9, <2>10, ResolveFacts
    <2>12. m # NoOrch
      BY <2>10, ControlAssumption DEF Ordered, WellFormed
    <2>13. CurrentTitles(m) = CurrentTitles(o)
      BY <2>10 DEF CurrentTitles, CurrentWaveNumber, CurrentWaveTasks, PastLastWave, Ordered
    <2>14. QED
      BY <2>1, <2>11, <2>12, <2>13 DEF RunningTitle, IsTaskRunning
  <1>7. QED
    BY <1>4, <1>6 DEF TitleInv, l

\* A short list has one instance that starts, or none.
LEMMA LoadingWaiting ==
    ASSUME NEW n, Short(n), NEW t \in Titles, Loading(n, t)
    PROVE  Waiting(n[t])
  <1>1. n[t] \in Seq(Instance) /\ Len(n[t]) <= 1
    BY DEF Short, Lists
  <1>2. PICK k \in DOMAIN n[t] : n[t][k].phase = "loading"
    BY DEF Loading
  <1>3. n[t] # << >>
    BY <1>2
  <1>4. Len(n[t]) \in Nat /\ DOMAIN n[t] = 1 .. Len(n[t])
    BY <1>1, <1>3, NonEmptySeq
  <1>5. k = 1
    BY <1>1, <1>2, <1>4
  <1>6. QED
    BY <1>2, <1>3, <1>5 DEF Waiting

\* What starts after agents were spawned started before or is in the wave.
LEMMA SpawnedWaiting ==
    ASSUME NEW n \in Lists, NEW S, NEW spent, SpawnWaveTasks(n, S, spent), NEW t \in Titles,
           Waiting(nav'[t])
    PROVE  t \in S \/ Waiting(n[t])
  BY DEF SpawnWaveTasks, Added

\* Only the agents of the wave that is started wait anew.
LEMMA StartedWaiting ==
    ASSUME NEW n \in Lists, NEW o, NEW spent, StartNextWaveOf(o, n, spent), NEW t \in Titles,
           Waiting(nav'[t])
    PROVE  t \in CurrentTitles(StartNextWave(o)) \/ Waiting(n[t])
  BY SpawnedWaiting DEF StartNextWaveOf

\* Pausing starts nothing.
LEMMA PausedWaiting ==
    ASSUME NEW l \in Seq(Instance), NEW c, NEW m, m = [k \in DOMAIN l |-> PauseIf(l[k], c[k])],
           Waiting(m)
    PROVE  Waiting(l)
  <1>1. CASE l = << >>
    <2>1. DOMAIN l = {} /\ m = << >>
      BY <1>1
    <2>2. QED
      BY <2>1 DEF Waiting
  <1>2. CASE l # << >>
    <2>1. 1 \in DOMAIN l /\ l[1] \in Instance
      <3>1. Len(l) \in Nat /\ Len(l) # 0 /\ DOMAIN l = 1 .. Len(l)
        BY <1>2, NonEmptySeq
      <3>2. 1 \in DOMAIN l
        BY <3>1
      <3>3. QED
        BY <3>2
    <2>2. m[1] = PauseIf(l[1], c[1])
      BY <2>1
    <2>3. PauseIf(l[1], c[1]).phase = "loading" => l[1].phase = "loading"
      BY <2>1 DEF PauseIf, Instance
    <2>4. QED
      BY <1>2, <2>2, <2>3 DEF Waiting
  <1>3. QED
    BY <1>1, <1>2

\* In the wave that starts, every task runs.
LEMMA StartedTitle ==
    ASSUME NEW o, Ordered(o), o.state # "allComplete", NEW n, n = StartNextWave(o),
           NEW t \in Titles, t \in CurrentTitles(n)
    PROVE  RunningTitle(n, t)
  <1>1. Ordered(n) /\ t[2] \in CurrentWaveTasks(n) /\ t[2] \in TaskNumbers
    BY StartNextWaveFacts, CurrentTitle, TitleTasks
  <1>2. n.taskStates[t[2]] = "running"
    BY <1>1, StartNextWaveFacts
  <1>3. n # NoOrch
    BY <1>1, ControlAssumption DEF Ordered, WellFormed
  <1>4. QED
    BY <1>2, <1>3 DEF RunningTitle, IsTaskRunning

\* Killing what was started leaves instances that do not start, when none does.
LEMMA EmptiedWaiting ==
    ASSUME NEW l \in Seq(Instance), Len(l) <= 1, NEW K, ~Waiting(l), NEW m, m = Selected(l, K)
    PROVE  ~Waiting(m)
  <1> DEFINE A == {i \in Instance : i.phase # "loading"}
  <1>1. \A k \in DOMAIN l : l[k] \in A
    <2>1. CASE l = << >>
      BY <2>1
    <2>2. CASE l # << >>
      <3>1. Len(l) \in Nat /\ Len(l) # 0 /\ DOMAIN l = 1 .. Len(l)
        BY <2>2, NonEmptySeq
      <3>2. \A k \in DOMAIN l : k = 1
        BY <3>1
      <3>3. QED
        BY <2>2, <3>2 DEF Waiting
    <2>3. QED
      BY <2>1, <2>2
  <1>2. m \in Seq(A)
    <2> HIDE DEF A
    <2> QED
      BY <1>1, SelectedFacts
  <1>3. ASSUME m # << >> PROVE m[1] \in A
    <2> HIDE DEF A
    <2>1. Len(m) \in Nat /\ Len(m) # 0 /\ DOMAIN m = 1 .. Len(m)
      BY <1>2, <1>3, NonEmptySeq
    <2>2. 1 \in DOMAIN m
      BY <2>1
    <2>3. QED
      BY <1>2, <2>2
  <1>4. QED
    BY <1>3 DEF Waiting

\* What starts when a tick's result is applied started before.
LEMMA ObservedWaiting ==
    ASSUME NEW n, Short(n), NEW t \in Titles, Waiting(Observe(n)[t])
    PROVE  Waiting(n[t])
  <1>1. n[t] # << >>
    BY ObservedShort DEF Waiting
  <1>2. n[t] \in Seq(Instance)
    BY DEF Short, Lists
  <1>3. n[t][1] \in Instance
    <2>1. Len(n[t]) \in Nat /\ Len(n[t]) # 0 /\ DOMAIN n[t] = 1 .. Len(n[t])
      BY <1>1, <1>2, NonEmptySeq
    <2>2. 1 \in DOMAIN n[t]
      BY <2>1
    <2>3. QED
      BY <1>2, <2>2
  <1>4. Observed(n[t][1], view.seen[t]).phase = "loading"
    BY <1>1, ObservedShort DEF Waiting
  <1>5. [n[t][1] EXCEPT !.prompt = TRUE].phase = n[t][1].phase
    BY <1>3 DEF Instance
  <1>6. QED
    BY <1>1, <1>4, <1>5 DEF Observed, Waiting

\* A tick result that is applied as soon as it was collected ends no task too early.
LEMMA TickKeepsAgents ==
    ASSUME SignalInv, OrchInv, StartInv, Short(nav), TickApply,
           \A t \in Titles : TitleInv(orch, nav[t], sess[t], t),
           \A t \in Titles : SeenRight(view.seen[t], nav[t], sess[t])
    PROVE  \A t \in Titles : TitleInv(orch', nav'[t], sess'[t], t)
  <1> SUFFICES ASSUME NEW t \in Titles PROVE TitleInv(orch', nav'[t], sess'[t], t)
    OBVIOUS
  <1> DEFINE d == Drained(ui)
             postponed == deferred /\ ui.screen # "default"
  <1>1. view # NoView /\ sess' = sess
    BY DEF TickApply
  <1>2. PICK r \in Signalled :
           \E o \in {IF r.orch = NoOrch THEN NoOrch ELSE Monitored(r.orch, Observe(r.nav))} :
              IF o # NoOrch /\ r.orch.state = "running" /\ o.state = "allComplete"
              THEN FinishImplementation(Observe(r.nav), d, postponed)
              ELSE DecideWave(o, Observe(r.nav), d, postponed)
    BY DEF TickApply
  <1> DEFINE n == Observe(r.nav)
  <1>3. PICK o \in {IF r.orch = NoOrch THEN NoOrch ELSE Monitored(r.orch, n)} :
           IF o # NoOrch /\ r.orch.state = "running" /\ o.state = "allComplete"
           THEN FinishImplementation(n, d, postponed)
           ELSE DecideWave(o, n, d, postponed)
    BY <1>2
  <1> HIDE DEF d, postponed
  \* What the signal left: as it was, or the first agents of the plan.
  <1>4. /\ r.orch # NoOrch => Ordered(r.orch)
        /\ Short(r.nav)
        /\ TitleInv(r.orch, r.nav[t], sess[t], t)
        /\ SeenRight(view.seen[t], r.nav[t], sess[t])
    <2>1. CASE r.orch = orch /\ r.nav = nav
      BY <2>1 DEF OrchInv
    <2>2. CASE /\ orch = NoOrch /\ view.wave # 0
               /\ view.wave - 1 \in 0 .. Len(Plan) /\ view.wave - 1 < Len(Plan)
               /\ r.orch = StartNextWave(Forwarded[view.wave - 1])
               /\ r.nav = Added(nav, CurrentTitles(r.orch)) \/ r.nav = nav
      <3> DEFINE f == Forwarded[view.wave - 1]
      <3>1. Ordered(f) /\ f.state # "allComplete" /\ r.orch = StartNextWave(f)
        BY <2>2, ForwardedFacts
      <3> HIDE DEF f
      <3>2. Ordered(r.orch)
        BY <3>1, StartNextWaveFacts
      <3>3. \A u \in Titles : Len(nav[u]) = 0 /\ nav[u] = << >>
        <4>1. signal # 0
          BY <1>1, <2>2 DEF StartInv
        <4>2. \A u \in Titles : Len(nav[u]) = 0
          BY <4>1 DEF StartInv, Fresh
        <4>3. QED
          BY <4>2 DEF Short, Lists
      <3>4. ~Busy(sess[t]) /\ view.seen[t] = "skipped"
        BY <2>2, <3>3 DEF TitleInv, SeenRight, RunningTitle, Live
      <3>5. Short(r.nav)
        BY <2>2, <3>3, AddedFacts DEF Short
      <3>6. Waiting(r.nav[t]) => t \in CurrentTitles(r.orch)
        BY <2>2, <3>3 DEF Added, Waiting
      <3>7. Waiting(r.nav[t]) => RunningTitle(r.orch, t)
        BY <3>1, <3>6, StartedTitle
      <3>8. QED
        BY <3>2, <3>4, <3>5, <3>7 DEF TitleInv, SeenRight
    <2>3. QED
      BY <1>1, <2>1, <2>2, SignalledFacts
  <1>5. TitleInv(o, n[t], sess[t], t) /\ (o # NoOrch => Ordered(o))
    <2>1. CASE r.orch = NoOrch
      <3>1. o = NoOrch
        BY <1>3, <2>1
      <3>2. ~Busy(sess[t]) /\ ~Waiting(r.nav[t])
        BY <1>4, <2>1 DEF TitleInv, RunningTitle
      <3>3. ~Waiting(n[t])
        BY <1>4, <3>2, ObservedWaiting
      <3>4. QED
        BY <3>1, <3>2, <3>3 DEF TitleInv
    <2>2. CASE r.orch # NoOrch
      BY <1>3, <1>4, <2>2, MonitorKeeps, MonitoredFacts
    <2>3. QED
      BY <2>1, <2>2
  <1>6. n[t] \in Seq(Instance)
    BY <1>4, ObserveFacts DEF Short, Lists
  <1> HIDE DEF n
  <1>7. CASE o # NoOrch /\ r.orch.state = "running" /\ o.state = "allComplete"
    <2>1. orch' = NoOrch /\ nav' = [u \in Titles |-> [k \in DOMAIN n[u] |-> PauseIf(n[u][k], TRUE)]]
      BY <1>3, <1>7 DEF FinishImplementation
    <2>2. ~Busy(sess[t]) /\ ~Waiting(n[t])
      BY <1>5, <1>7, OverRunsNothing DEF TitleInv
    <2>3. ~Waiting(nav'[t])
      <3> DEFINE l == n[t]
                 c == [k \in DOMAIN l |-> TRUE]
                 m == [k \in DOMAIN l |-> PauseIf(l[k], c[k])]
      <3>1. nav'[t] = m
        BY <2>1
      <3>2. l \in Seq(Instance) /\ ~Waiting(l)
        BY <1>6, <2>2
      <3>3. m = [k \in DOMAIN l |-> PauseIf(l[k], c[k])]
        OBVIOUS
      <3> HIDE DEF l, c, m
      <3>4. ~Waiting(m)
        BY <3>2, <3>3, PausedWaiting
      <3>5. QED
        BY <3>1, <3>4
    <2>4. QED
      BY <1>1, <2>1, <2>2, <2>3 DEF TitleInv
  <1>8. CASE ~(o # NoOrch /\ r.orch.state = "running" /\ o.state = "allComplete")
    <2>1. nav' = n /\ (orch' = o \/ (o # NoOrch /\ orch' = TakeConfirm(o)))
      BY <1>3, <1>8 DEF DecideWave
    <2>2. CASE orch' = o
      BY <1>1, <1>5, <2>1, <2>2
    <2>3. CASE o # NoOrch /\ orch' = TakeConfirm(o)
      <3>1. /\ orch'.plan = o.plan /\ orch'.currentWave = o.currentWave
            /\ orch'.taskStates = o.taskStates /\ orch' # NoOrch
        BY <1>5, <2>3, LatchFacts, MethodsKeepOrder, ControlAssumption DEF Ordered, WellFormed
      <3>2. RunningTitle(orch', t) <=> RunningTitle(o, t)
        BY <2>3, <3>1, SameRunning
      <3>3. QED
        BY <1>1, <1>5, <2>1, <3>2 DEF TitleInv
    <2>4. QED
      BY <2>1, <2>2, <2>3
  <1>9. QED
    BY <1>7, <1>8

\* Ticks that are applied at once, and a user who leaves agents and plan alone.
Calm == ~StaleTicks /\ ~Manual /\ MaxStarts <= 1 /\ NumbersOrdered

\* AgentsInv is inductive then.
LEMMA AgentsInvStep ==
    ASSUME Calm, SignalInv, OrchInv, UIInv, UsedInv, WorldInv, StartInv, ProtocolInv,
           ListsInv, InstancesInv, AgentsInv, [Next]_vars
    PROVE  AgentsInv'
  <1> SUFFICES ASSUME NotRestarted'
               PROVE  /\ strays' = {}
                      /\ \A t \in Titles : TitleInv(orch', nav'[t], sess'[t], t)
                      /\ view' # NoView =>
                            \A t \in Titles : SeenRight(view'.seen[t], nav'[t], sess'[t])
    BY DEF AgentsInv
  <1>1. /\ NotRestarted /\ ~\E graceful \in BOOLEAN : Restart(graceful)
        /\ strays = {}
        /\ \A t \in Titles : TitleInv(orch, nav[t], sess[t], t)
        /\ view # NoView => \A t \in Titles : SeenRight(view.seen[t], nav[t], sess[t])
    BY NotRestartedBefore DEF AgentsInv
  <1>2. /\ Short(nav) /\ nav \in Lists
        /\ \A t \in Titles : nav[t] \in Seq(Instance) /\ Len(nav[t]) <= 1
        /\ sess \in [Titles -> Session]
    BY DEF InstancesInv, ListsInv, Lists, Short, WorldInv
  <1>3. /\ BetweenTicks => view = NoView
        /\ ~Acts
        /\ orch # NoOrch => Ordered(orch)
    BY DEF Calm, BetweenTicks, Acts, OrchInv
  <1>4. ASSUME UNCHANGED <<orch, nav, sess, strays, view>>
        PROVE  /\ strays' = {}
               /\ \A t \in Titles : TitleInv(orch', nav'[t], sess'[t], t)
               /\ view' # NoView =>
                     \A t \in Titles : SeenRight(view'.seen[t], nav'[t], sess'[t])
    BY <1>1, <1>4
  \* While an answer is on its way, or nothing is there yet, no agent works.
  <1>5. ASSUME orch = NoOrch \/ Latched(orch), NEW t \in Titles
        PROVE  ~Busy(sess[t]) /\ ~Waiting(nav[t])
    <2>1. ~RunningTitle(orch, t)
      <3>1. CASE orch = NoOrch
        BY <3>1 DEF RunningTitle
      <3>2. CASE Latched(orch)
        BY <3>2, LatchedIsOver, OverRunsNothing
      <3>3. QED
        BY <1>5, <3>1, <3>2
    <2>2. QED
      BY <1>1, <2>1 DEF TitleInv
  <1>6. ASSUME Receive("advance") \/ Receive("retry") \/ Receive("abort") PROVE Latched(orch)
    BY <1>6 DEF Receive, ProtocolInv, DialogMessages
  <1>7. CASE Implement
    <2> DEFINE o == NewWaveOrchestrator(Plan)
    <2>1. used.starts = 0
      <3>1. used["starts"] < Limit["starts"] /\ used["starts"] \in Nat
        BY <1>7 DEF Implement, Affordable, UsedInv, Uses, Bounds
      <3>2. QED
        BY <3>1, LimitFacts, ControlAssumption DEF Calm
    <2>2. orch = NoOrch
      BY <2>1 DEF StartInv, Fresh
    <2>3. /\ view = NoView /\ UNCHANGED <<strays, sess, view>>
          /\ \/ StartNextWaveOf(o, nav, Spend("starts"))
             \/ orch' = o /\ nav' = nav
      BY <1>3, <1>7 DEF Implement
    <2>4. Ordered(o) /\ o.state = "idle"
      BY NewOrdered
    <2> HIDE DEF o
    <2>5. ASSUME NEW t \in Titles PROVE TitleInv(orch', nav'[t], sess'[t], t)
      <3>1. ~Busy(sess[t]) /\ ~Waiting(nav[t])
        BY <1>5, <2>2
      <3>2. CASE StartNextWaveOf(o, nav, Spend("starts"))
        <4>1. orch' = StartNextWave(o)
          BY <3>2 DEF StartNextWaveOf
        <4>2. Waiting(nav'[t]) => t \in CurrentTitles(orch')
          BY <1>2, <3>1, <3>2, <4>1, StartedWaiting
        <4>3. Waiting(nav'[t]) => RunningTitle(orch', t)
          BY <2>4, <4>1, <4>2, StartedTitle
        <4>4. QED
          BY <2>3, <3>1, <4>3 DEF TitleInv
      <3>3. CASE orch' = o /\ nav' = nav
        BY <2>3, <3>1, <3>3 DEF TitleInv
      <3>4. QED
        BY <2>3, <3>2, <3>3
    <2>6. QED
      BY <1>1, <2>3, <2>5
  <1>8. CASE \E k \in DOMAIN Plan : PlanImplementCommand(k)
    BY <1>4, <1>8 DEF PlanImplementCommand
  <1>9. ASSUME NEW t \in Titles, NEW k \in DOMAIN nav[t], nav[t][k].phase = "loading"
        PROVE  k = 1 /\ Waiting(nav[t]) /\ RunningTitle(orch, t) /\ ~Busy(sess[t])
                 /\ Len(nav[t]) = 1
    <2>1. Waiting(nav[t])
      BY <1>2, <1>9, LoadingWaiting DEF Loading
    <2>2. k = 1 /\ Len(nav[t]) = 1
      <3>1. Len(nav[t]) \in Nat /\ Len(nav[t]) # 0 /\ DOMAIN nav[t] = 1 .. Len(nav[t])
        BY <1>2, <2>1, NonEmptySeq DEF Waiting
      <3> DEFINE n == Len(nav[t])
      <3>2. n \in Nat /\ n # 0 /\ n <= 1 /\ k \in 1 .. n
        BY <1>2, <3>1
      <3> HIDE DEF n
      <3>3. n = 1 /\ k = 1
        BY <3>2
      <3>4. QED
        BY <3>3 DEF n
    <2>3. QED
      BY <1>1, <2>1, <2>2 DEF TitleInv, Live, Waiting
  <1>10. ASSUME NEW t \in Titles, NEW k \in DOMAIN nav[t], StartDone(t, k)
         PROVE  strays' = {} /\ view' = NoView
                /\ \A u \in Titles : TitleInv(orch', nav'[u], sess'[u], u)
    <2>1. /\ nav' = [nav EXCEPT ![t][k] = [phase |-> "live", prompt |-> FALSE]]
          /\ sess' = [sess EXCEPT ![t] = Opened(@)]
          /\ UNCHANGED <<orch, strays, view>> /\ view = NoView
          /\ k = 1 /\ Waiting(nav[t]) /\ RunningTitle(orch, t) /\ Len(nav[t]) = 1
      BY <1>3, <1>9, <1>10 DEF StartDone
    <2> DEFINE i == [phase |-> "live", prompt |-> FALSE]
               l == [nav[t] EXCEPT ![1] = i]
    <2>2. i.phase = "live" /\ ~i.prompt
      OBVIOUS
    <2>3. l # << >> /\ l[1] = i
      BY <1>2, <2>1
    <2>4. Live(l) /\ ~Waiting(l) /\ ~l[1].prompt
      BY <2>2, <2>3 DEF Live, Waiting
    <2> HIDE DEF i
    <2>5. nav' = [nav EXCEPT ![t] = l]
      BY <2>1 DEF i
    <2> HIDE DEF l
    <2>6. nav'[t] = l /\ \A u \in Titles : u # t => nav'[u] = nav[u] /\ sess'[u] = sess[u]
      BY <1>2, <2>1, <2>5 DEF Lists
    <2>7. TitleInv(orch', nav'[t], sess'[t], t)
      BY <2>1, <2>4, <2>6 DEF TitleInv
    <2>8. QED
      BY <1>1, <2>1, <2>6, <2>7
  <1>11. ASSUME NEW t \in Titles, NEW k \in DOMAIN nav[t], StartFailed(t, k)
         PROVE  strays' = {} /\ view' = NoView
                /\ \A u \in Titles : TitleInv(orch', nav'[u], sess'[u], u)
    <2>1. /\ nav' = Removed([nav EXCEPT ![t][k].phase = "failed"], {t})
          /\ UNCHANGED <<orch, strays, view, sess>> /\ view = NoView
          /\ k = 1 /\ Waiting(nav[t]) /\ ~Busy(sess[t]) /\ Len(nav[t]) = 1
      BY <1>3, <1>9, <1>11 DEF StartFailed
    <2> DEFINE m == [nav EXCEPT ![t][k].phase = "failed"]
    <2>2. nav' = Removed(m, {t}) /\ \A u \in Titles : u # t => m[u] = nav[u]
      BY <1>2, <2>1 DEF Lists
    <2>3. m[t] \in Seq(Instance) /\ Len(m[t]) = 1
      <3> DEFINE i == [nav[t][1] EXCEPT !.phase = "failed"]
                 l == [nav[t] EXCEPT ![1] = i]
      <3>1. nav[t][1] \in Instance
        BY <1>2, <2>1
      <3>2. i \in Instance
        BY <3>1 DEF Instance
      <3>3. m[t] = l
        BY <1>2, <2>1 DEF Lists
      <3> HIDE DEF i, m
      <3>4. l \in Seq(Instance) /\ Len(l) = 1
        BY <1>2, <2>1, <3>2
      <3>5. QED
        BY <3>3, <3>4
    <2> HIDE DEF m
    <2>4. Tail(m[t]) = << >> /\ m[t] # << >>
      BY <2>3, TailOfOne
    <2>5. nav'[t] = << >> /\ \A u \in Titles : u # t => nav'[u] = nav[u]
      BY <2>2, <2>4 DEF Removed
    <2>6. TitleInv(orch', nav'[t], sess'[t], t)
      BY <2>1, <2>5 DEF TitleInv, Waiting
    <2>7. QED
      BY <1>1, <2>1, <2>5, <2>6
  <1>12. ASSUME NEW t \in Titles, StrayStarted(t) PROVE FALSE
    BY <1>1, <1>12 DEF StrayStarted
  <1>13. ASSUME NEW t \in Titles, AgentFinishes(t) \/ AgentDies(t)
         PROVE  strays' = {} /\ view' = NoView
                /\ \A u \in Titles : TitleInv(orch', nav'[u], sess'[u], u)
    <2>1. /\ UNCHANGED <<orch, nav, strays, view>> /\ view = NoView
          /\ Busy(sess'[t]) => Busy(sess[t])
          /\ \A u \in Titles : u # t => sess'[u] = sess[u]
      BY <1>2, <1>3, <1>13 DEF AgentFinishes, AgentDies, Busy
    <2>2. TitleInv(orch', nav'[t], sess'[t], t)
      BY <1>1, <2>1 DEF TitleInv
    <2>3. QED
      BY <1>1, <2>1, <2>2
  <1>14. CASE TickCollect
    <2>1. /\ view' = [seen |-> [t \in Titles |-> Collected(t)], wave |-> ScanWaveSignals]
          /\ sess' = [t \in Titles |-> IF Collected(t) # "skipped" /\ sess[t] = "settling"
                                       THEN "idle" ELSE sess[t]]
          /\ UNCHANGED <<orch, nav, strays>>
      BY <1>14 DEF TickCollect
    <2>2. ASSUME NEW t \in Titles
          PROVE  /\ TitleInv(orch', nav'[t], sess'[t], t)
                 /\ SeenRight(view'.seen[t], nav'[t], sess'[t])
      <3>1. view'.seen[t] = Collected(t)
        BY <2>1
      <3>2. sess[t] \in Session
        BY <1>2
      <3>3. Busy(sess'[t]) => Busy(sess[t])
        BY <2>1 DEF Busy
      <3>4. TitleInv(orch', nav'[t], sess'[t], t)
        BY <1>1, <2>1, <3>3 DEF TitleInv
      <3>5. Collected(t) # "skipped" => Live(nav[t])
        <4>1. ASSUME NEW k \in DOMAIN nav[t], nav[t][k].phase = "live" PROVE Live(nav[t])
          <5>1. Len(nav[t]) \in Nat /\ DOMAIN nav[t] = 1 .. Len(nav[t]) /\ nav[t] # << >>
            BY <1>2, <4>1, NonEmptySeq
          <5>2. k = 1
            BY <1>2, <4>1, <5>1
          <5>3. QED
            BY <4>1, <5>1, <5>2 DEF Live
        <4>2. QED
          BY <4>1 DEF Collected
      <3>6. Collected(t) = "dead" => sess'[t] = "none"
        BY <2>1, <3>2 DEF Collected, Session
      <3>7. Collected(t) = "prompt" => sess'[t] = "idle"
        BY <2>1, <3>2 DEF Collected, Session
      <3>8. QED
        BY <2>1, <3>1, <3>4, <3>5, <3>6, <3>7 DEF SeenRight
    <2>3. QED
      BY <1>1, <2>1, <2>2
  <1>15. CASE TickApply
    <2>1. view # NoView /\ view' = NoView /\ UNCHANGED strays
      BY <1>15 DEF TickApply
    <2>2. \A t \in Titles : TitleInv(orch', nav'[t], sess'[t], t)
      BY <1>1, <1>2, <1>15, <2>1, TickKeepsAgents
    <2>3. QED
      BY <1>1, <2>1, <2>2
  <1>16. CASE ConfirmKey \/ AbortKey
    BY <1>4, <1>16 DEF ConfirmKey, AbortKey
  <1>17. CASE CancelKey \/ EscapeKey
    <2>1. UNCHANGED <<nav, sess, strays, view>> /\ (orch' = orch \/ orch' = Unlatched)
      BY <1>17 DEF CancelKey, EscapeKey
    <2>2. view = NoView
      BY <1>3, <1>17 DEF CancelKey, EscapeKey
    <2>3. CASE orch' = orch
      BY <1>4, <2>1, <2>3
    <2>4. CASE ui.wave /\ orch # NoOrch /\ orch' = ResetConfirm(orch)
      <3>1. Latched(orch)
        BY <2>4 DEF ProtocolInv
      <3>2. \A t \in Titles : ~Busy(sess[t]) /\ ~Waiting(nav[t])
        BY <1>5, <3>1
      <3>3. QED
        BY <1>1, <2>1, <2>2, <3>2 DEF TitleInv
    <2>5. QED
      BY <2>1, <2>3, <2>4 DEF Unlatched
  <1>18. CASE HandleAdvance
    <2>1. Latched(orch) /\ view = NoView /\ UNCHANGED <<strays, sess, view>>
      BY <1>3, <1>6, <1>18 DEF HandleAdvance
    <2>2. orch # NoOrch /\ Ordered(orch) /\ orch.state # "allComplete"
      BY <1>3, <2>1, LatchedIsOver DEF Latched
    <2> DEFINE C(t) == [k \in DOMAIN nav[t] |-> t \in CurrentTitles(orch) /\ nav[t][k].prompt]
               c == [t \in Titles |-> C(t)]
               n == [t \in Titles |-> [k \in DOMAIN nav[t] |-> PauseIf(nav[t][k], c[t][k])]]
    <2>3. StartNextWaveOf(orch, n, used)
      <3>1. [t \in Titles |-> [k \in DOMAIN nav[t] |->
                PauseIf(nav[t][k], t \in CurrentTitles(orch) /\ nav[t][k].prompt)]] = n
        OBVIOUS
      <3> HIDE DEF n
      <3>2. QED
        BY <1>18, <2>2, <3>1 DEF HandleAdvance
    <2>4. n \in Lists
      <3> HIDE DEF c
      <3> QED
        BY <1>2, PausedFacts
    <2>5. ASSUME NEW t \in Titles PROVE ~Waiting(n[t])
      <3> DEFINE l == nav[t]
                 e == c[t]
                 m == [k \in DOMAIN l |-> PauseIf(l[k], e[k])]
      <3>1. n[t] = m
        OBVIOUS
      <3>2. l \in Seq(Instance) /\ ~Waiting(l)
        BY <1>2, <1>5, <2>1
      <3>3. m = [k \in DOMAIN l |-> PauseIf(l[k], e[k])]
        OBVIOUS
      <3> HIDE DEF l, e, m
      <3>4. ~Waiting(m)
        BY <3>2, <3>3, PausedWaiting
      <3>5. QED
        BY <3>1, <3>4
    <2> HIDE DEF n
    <2>6. orch' = StartNextWave(orch)
      BY <2>3 DEF StartNextWaveOf
    <2>7. ASSUME NEW t \in Titles PROVE TitleInv(orch', nav'[t], sess'[t], t)
      <3>1. ~Busy(sess[t])
        BY <1>5, <2>1
      <3>2. Waiting(nav'[t]) => t \in CurrentTitles(orch')
        BY <2>3, <2>4, <2>5, <2>6, StartedWaiting
      <3>3. Waiting(nav'[t]) => RunningTitle(orch', t)
        BY <2>2, <2>6, <3>2, StartedTitle
      <3>4. QED
        BY <2>1, <3>1, <3>3 DEF TitleInv
    <2>8. QED
      BY <1>1, <2>1, <2>7
  <1>19. CASE HandleRetry
    <2> DEFINE failed == TasksWith(orch, "failed")
               stale  == {t \in Titles : t[2] \in failed}
    <2>1. Latched(orch) /\ view = NoView /\ UNCHANGED <<sess, view>>
      BY <1>3, <1>6, <1>19 DEF HandleRetry
    <2>2. orch # NoOrch /\ Ordered(orch)
      BY <1>3, <2>1 DEF Latched
    <2>3. \A t \in Titles : ~Busy(sess[t]) /\ ~Waiting(nav[t])
      BY <1>5, <2>1
    <2>4. CASE UNCHANGED <<orch, nav, strays>>
      BY <1>4, <2>1, <2>4
    <2>5. CASE /\ failed # {}
               /\ orch' = RetryFailedTasks(orch)
               /\ strays' = strays \cup {t \in stale : Loading(nav, t)}
               /\ SpawnWaveTasks(Cleared(nav, stale),
                                 {t \in CurrentTitles(orch) : t[2] \in failed}, used)
      <3>1. strays' = {}
        <4>1. \A t \in Titles : ~Loading(nav, t)
          BY <1>2, <2>3, LoadingWaiting
        <4>2. QED
          BY <1>1, <2>5, <4>1
      <3>2. Cleared(nav, stale) \in Lists /\ \A t \in Titles : ~Waiting(Cleared(nav, stale)[t])
        <4>1. Cleared(nav, stale) \in Lists
          BY <1>2, ClearedFacts
        <4>2. QED
          BY <2>3, <4>1 DEF Cleared, Waiting
      <3>3. ASSUME NEW t \in Titles PROVE TitleInv(orch', nav'[t], sess'[t], t)
        <4>1. Waiting(nav'[t]) => t \in CurrentTitles(orch) /\ t[2] \in failed
          <5> HIDE DEF failed
          <5>1. Waiting(nav'[t]) => t \in {u \in CurrentTitles(orch) : u[2] \in failed}
            BY <2>5, <3>2, SpawnedWaiting
          <5>2. QED
            BY <5>1
        <4>2. /\ Ordered(orch') /\ orch'.currentWave = orch.currentWave
              /\ \A u \in TaskNumbers : u \in failed => orch'.taskStates[u] = "running"
          BY <2>2, <2>5, RetryFacts
        <4>3. t[2] \in failed => orch'.taskStates[t[2]] = "running"
          BY <4>2, TitleTasks
        <4>4. CurrentTitles(orch') = CurrentTitles(orch) /\ orch' # NoOrch
          BY <2>2, <4>2, ControlAssumption
             DEF CurrentTitles, CurrentWaveNumber, CurrentWaveTasks, PastLastWave, Ordered,
                 WellFormed
        <4> HIDE DEF failed
        <4>5. Waiting(nav'[t]) => RunningTitle(orch', t)
          BY <4>1, <4>3, <4>4 DEF RunningTitle, IsTaskRunning
        <4>6. QED
          BY <2>1, <2>3, <4>5 DEF TitleInv
      <3>4. QED
        BY <2>1, <3>1, <3>3
    <2>6. QED
      BY <1>19, <2>2, <2>4, <2>5 DEF HandleRetry
  <1>20. CASE HandleAbort
    <2>1. /\ Latched(orch) /\ view = NoView /\ UNCHANGED <<strays, view>> /\ orch' = NoOrch
          /\ nav' = [t \in Titles |-> Selected(nav[t], DOMAIN nav[t] \ StartedPositions(nav[t]))]
          /\ \A t \in Titles : sess'[t] = "none" \/ sess'[t] = sess[t]
      BY <1>3, <1>6, <1>20 DEF HandleAbort
    <2>2. ASSUME NEW t \in Titles PROVE TitleInv(orch', nav'[t], sess'[t], t)
      <3>1. ~Busy(sess[t]) /\ ~Waiting(nav[t])
        BY <1>5, <2>1
      <3>2. ~Busy(sess'[t])
        BY <2>1, <3>1 DEF Busy
      <3> DEFINE l == nav[t]
                 K == DOMAIN l \ StartedPositions(l)
      <3>3. nav'[t] = Selected(l, K)
        BY <2>1
      <3>4. l \in Seq(Instance) /\ Len(l) <= 1 /\ ~Waiting(l)
        BY <1>2, <3>1
      <3> HIDE DEF l, K
      <3>5. ~Waiting(nav'[t])
        BY <3>3, <3>4, EmptiedWaiting
      <3>6. QED
        BY <3>2, <3>5 DEF TitleInv
    <2>3. QED
      BY <1>1, <2>1, <2>2
  <1>21. CASE HandleAllComplete \/ CooldownOver
    BY <1>4, <1>21 DEF HandleAllComplete, CooldownOver
  <1>22. CASE ShowOther
    BY <1>4, <1>22 DEF ShowOther, AskOther, OpenOverlay, CloseOverlay, BrowseSessions,
                       SessionsArrive, Shows
  <1>23. /\ ~CancelPlan
         /\ ~\E t \in Titles : \E k \in DOMAIN nav[t] : Act(t, k)
    BY <1>3 DEF CancelPlan, Act, MarkComplete, PauseInstance, ResumeInstance, KillInstance
  <1>24. CASE UNCHANGED vars
    BY <1>4, <1>24 DEF vars
  <1>25. QED
    BY <1>1, <1>7, <1>8, <1>10, <1>11, <1>12, <1>13, <1>14, <1>15, <1>16, <1>17, <1>18, <1>19,
       <1>20, <1>21, <1>22, <1>23, <1>24 DEF Next, Answer, Handle

\* So it always holds.
LEMMA AgentsInvInvariant == Calm => (Spec => []AgentsInv)
  <1> SUFFICES ASSUME Calm PROVE Spec => []AgentsInv
    OBVIOUS
  <1>1. MaxStarts <= 1 /\ NumbersOrdered
    BY DEF Calm
  <1>2. Init => AgentsInv
    BY DEF Init, AgentsInv, TitleInv, Busy, Waiting
  <1>3. SignalInv /\ OrchInv /\ UIInv /\ UsedInv /\ WorldInv /\ StartInv /\ ProtocolInv /\ ListsInv
          /\ InstancesInv /\ AgentsInv /\ [Next]_vars => AgentsInv'
    BY AgentsInvStep
  <1>4. QED
    BY <1>1, <1>2, <1>3, SignalInvInvariant, OrchInvInvariant, UIInvInvariant, UsedInvInvariant,
       WorldInvInvariant, StartInvInvariant, ProtocolInvInvariant, ListsInvInvariant,
       InstancesInvInvariant, PTL DEF Spec

\* An agent that works has a task that runs: no task is ended, and no wave is left, over
\* the head of its agent.
THEOREM NoAgentBehindItsTaskTheorem == Calm => (Spec => []NoAgentBehindItsTask)
  <1>1. AgentsInv => NoAgentBehindItsTask
    BY DEF AgentsInv, NoAgentBehindItsTask, TitleInv, Busy, RunningTitle
  <1>2. QED
    BY <1>1, AgentsInvInvariant, PTL

\* An implementation that ended or was aborted has left no agent that works.
THEOREM NoOrphanAgentsTheorem == Calm => (Spec => []NoOrphanAgents)
  <1>1. AgentsInv => NoOrphanAgents
    BY DEF AgentsInv, NoOrphanAgents, TitleInv, Busy, RunningTitle
  <1>2. QED
    BY <1>1, AgentsInvInvariant, PTL

----------------------------------------------------------------------------
(* The review *)

\* The user is being asked, will be asked or has agreed to start the review.
Asked == ui.confirm = "allComplete" \/ deferred \/ msgs["allComplete"] > 0

\* That comes after the implementation, during which the plan is implementing.
ReviewInv ==
    NotRestarted =>
        /\ used.starts = 0 => status = "ready"
        /\ orch # NoOrch \/ signal # 0 \/ Asked => reviewer \/ status = "implementing"
        /\ Asked => orch = NoOrch /\ used.starts # 0 /\ signal = 0

\* The steps that write the status or spawn the reviewer.
LEMMA StatusMovers ==
    ASSUME [Next]_vars, ~\E graceful \in BOOLEAN : Restart(graceful)
    PROVE  \/ Implement \/ \E k \in DOMAIN Plan : PlanImplementCommand(k)
           \/ HandleAllComplete \/ CancelPlan
           \/ UNCHANGED <<status, reviewer>>
  <1>1. ASSUME NEW t \in Titles, NEW k \in DOMAIN nav[t],
               StartDone(t, k) \/ StartFailed(t, k) \/ Act(t, k)
        PROVE  UNCHANGED <<status, reviewer>>
    BY <1>1 DEF StartDone, StartFailed, Act, MarkComplete, PauseInstance, ResumeInstance,
                KillInstance
  <1>2. ASSUME NEW t \in Titles, StrayStarted(t) \/ AgentFinishes(t) \/ AgentDies(t)
        PROVE  UNCHANGED <<status, reviewer>>
    BY <1>2 DEF StrayStarted, AgentFinishes, AgentDies
  <1>3. ASSUME Answer \/ CooldownOver \/ HandleAdvance \/ HandleRetry \/ HandleAbort
        PROVE  UNCHANGED <<status, reviewer>>
    BY <1>3 DEF Answer, ConfirmKey, AbortKey, CancelKey, EscapeKey, CooldownOver,
                HandleAdvance, HandleRetry, HandleAbort
  <1>4. ASSUME ShowOther \/ TickCollect \/ TickApply PROVE UNCHANGED <<status, reviewer>>
    BY <1>4 DEF ShowOther, AskOther, OpenOverlay, CloseOverlay, BrowseSessions,
                SessionsArrive, Shows, TickCollect, TickApply
  <1>5. ASSUME UNCHANGED vars PROVE UNCHANGED <<status, reviewer>>
    BY <1>5 DEF vars
  <1>6. QED
    BY <1>1, <1>2, <1>3, <1>4, <1>5 DEF Next, Handle

\* A tick asks for the review only when it ends the implementation, and a signal that
\* arrives with it does not start another one.
LEMMA TickReview ==
    ASSUME SignalInv, OrchInv, UIInv, MsgsInv, StartInv, TickApply, ui \in UI,
           Asked => orch = NoOrch /\ used.starts # 0 /\ signal = 0
    PROVE  /\ Asked' => orch' = NoOrch /\ used.starts # 0 /\ signal' = 0
           /\ orch' # NoOrch \/ signal' # 0 \/ Asked' => orch # NoOrch \/ signal # 0 \/ Asked
  <1> DEFINE postponed == deferred /\ ui.screen # "default"
             d == Drained(ui)
  <1>1. /\ view # NoView /\ signal' = ConsumeWaveSignal
        /\ view.wave \in Nat /\ signal \in Nat
        /\ view.wave # 0 => signal = view.wave
    BY DEF TickApply, SignalInv, StartInv
  <1>2. PICK r \in Signalled :
           \E o \in {IF r.orch = NoOrch THEN NoOrch ELSE Monitored(r.orch, Observe(r.nav))} :
              IF o # NoOrch /\ r.orch.state = "running" /\ o.state = "allComplete"
              THEN FinishImplementation(Observe(r.nav), d, postponed)
              ELSE DecideWave(o, Observe(r.nav), d, postponed)
    BY DEF TickApply
  <1>3. PICK o \in {IF r.orch = NoOrch THEN NoOrch ELSE Monitored(r.orch, Observe(r.nav))} :
           IF o # NoOrch /\ r.orch.state = "running" /\ o.state = "allComplete"
           THEN FinishImplementation(Observe(r.nav), d, postponed)
           ELSE DecideWave(o, Observe(r.nav), d, postponed)
    BY <1>2
  <1>4. /\ signal # 0 => Fresh /\ used.starts # 0
        /\ orch # NoOrch => used.starts # 0 /\ signal = 0
    BY DEF StartInv, Fresh
  <1>5. \/ r.orch = NoOrch /\ orch = NoOrch /\ view.wave = 0
        \/ r.orch # NoOrch /\ orch # NoOrch
        \/ orch = NoOrch /\ view.wave # 0
    BY <1>2 DEF Signalled
  <1> HIDE DEF postponed, d
  <1>6. CASE r.orch = NoOrch /\ orch = NoOrch /\ view.wave = 0
    <2>1. o = NoOrch
      BY <1>3, <1>6
    <2>2. orch' = NoOrch /\ ui' = d /\ deferred' = postponed /\ msgs' = msgs
      BY <1>3, <2>1 DEF DecideWave
    <2>3. signal' = signal
      BY <1>1, <1>6 DEF ConsumeWaveSignal
    <2>4. d.confirm = "allComplete" => Asked
      BY DEF d, Drained, Asked
    <2>5. Asked' => Asked
      BY <2>2, <2>4 DEF Asked, postponed
    <2>6. QED
      BY <1>6, <2>2, <2>3, <2>5
  <1>7. CASE orch # NoOrch \/ view.wave # 0
    <2>1. ~Asked /\ used.starts # 0 /\ (orch # NoOrch \/ signal # 0)
      BY <1>1, <1>4, <1>7
    <2>2. signal' = 0
      <3>1. CASE view.wave # 0
        BY <1>1, <3>1 DEF ConsumeWaveSignal
      <3>2. CASE view.wave = 0
        BY <1>1, <1>4, <1>7, <3>2 DEF ConsumeWaveSignal
      <3>3. QED
        BY <3>1, <3>2
    <2>3. ui.confirm # "allComplete" /\ ~deferred /\ ~(msgs["allComplete"] > 0) /\ d = ui
      BY <2>1 DEF Asked, d, Drained
    <2>4. CASE o # NoOrch /\ r.orch.state = "running" /\ o.state = "allComplete"
      <3>1. orch' = NoOrch
        BY <1>3, <2>4 DEF FinishImplementation
      <3>2. QED
        BY <2>1, <2>2, <3>1
    <2>5. CASE ~(o # NoOrch /\ r.orch.state = "running" /\ o.state = "allComplete")
      <3>1. DecideWave(o, Observe(r.nav), ui, postponed)
        BY <1>3, <2>3, <2>5
      <3>2. /\ ui' \in {ui, WaveFailed(ui), WaveStandard(ui)}
            /\ deferred' = postponed
            /\ msgs' = msgs \/ Send("advance")
        BY <3>1 DEF DecideWave
      <3>3. ui'.confirm # "allComplete"
        BY <2>3, <3>2, WaveDialogFields
      <3>4. ~deferred'
        BY <2>3, <3>2 DEF postponed
      <3>5. msgs'["allComplete"] = msgs["allComplete"]
        BY <3>2, MessageFacts DEF Message
      <3>6. ~Asked'
        BY <2>3, <3>3, <3>4, <3>5 DEF Asked
      <3>7. QED
        BY <2>1, <3>6
    <2>6. QED
      BY <2>4, <2>5
  <1>8. QED
    BY <1>5, <1>6, <1>7

\* The other steps do not ask, or start anything, unless the user starts the plan.
LEMMA OtherReview ==
    ASSUME SignalInv, OrchInv, MsgsInv, ui \in UI, PendingIsOfWave, [Next]_vars, ~TickApply,
           ~Implement, ~Manual,
           ~\E k \in DOMAIN Plan : PlanImplementCommand(k),
           ~\E graceful \in BOOLEAN : Restart(graceful)
    PROVE  /\ Asked' => Asked
           /\ orch = NoOrch => orch' = NoOrch
           /\ signal' = signal
  <1>1. signal' = signal
    <2>1. TickCollect => signal' = signal
      BY DEF TickCollect
    <2>2. QED
      BY <2>1, SignalMovers
  <1>2. orch = NoOrch => orch' = NoOrch
    <2>1. ASSUME orch' # NoOrch, orch = NoOrch PROVE FALSE
      <3>1. ~\E o : Starting(o)
        BY <2>1 DEF Starting
      <3>2. QED
        BY <2>1, <3>1, CurrentWaveKept
    <2>2. QED
      BY <2>1
  <1>3. deferred' => deferred
    <2>1. ASSUME NEW t \in Titles, NEW k \in DOMAIN nav[t], StartDone(t, k) \/ StartFailed(t, k)
                 \/ Act(t, k)
          PROVE  deferred' = deferred
      BY <2>1 DEF StartDone, StartFailed, Act, MarkComplete, PauseInstance, ResumeInstance,
                  KillInstance
    <2>2. ASSUME NEW t \in Titles, StrayStarted(t) \/ AgentFinishes(t) \/ AgentDies(t)
          PROVE  deferred' = deferred
      BY <2>2 DEF StrayStarted, AgentFinishes, AgentDies
    <2>3. ASSUME Answer \/ CooldownOver \/ Handle \/ CancelPlan \/ TickCollect
          PROVE  deferred' = deferred
      BY <2>3 DEF Answer, ConfirmKey, AbortKey, CancelKey, EscapeKey, CooldownOver, Handle,
                  HandleAdvance, HandleRetry, HandleAbort, HandleAllComplete, CancelPlan,
                  TickCollect
    <2>4. ASSUME ShowOther \/ UNCHANGED vars PROVE deferred' = deferred
      BY <2>4 DEF ShowOther, AskOther, OpenOverlay, CloseOverlay, BrowseSessions,
                  SessionsArrive, Shows, vars
    <2>5. QED
      BY <2>1, <2>2, <2>3, <2>4 DEF Next
  <1>4. ASSUME ui'.confirm = "allComplete" \/ msgs'["allComplete"] > 0
        PROVE  ui.confirm = "allComplete" \/ msgs["allComplete"] > 0
    <2>1. CASE Answer
      <3>1. ui' = Answered(ui)
        BY <2>1 DEF Answer, ConfirmKey, AbortKey, CancelKey, EscapeKey
      <3>2. msgs' = msgs \/ (\E m \in Message : Send(m) /\ (m = ui.confirm \/ m # "allComplete"))
        BY <2>1 DEF Answer, ConfirmKey, AbortKey, CancelKey, EscapeKey, Message
      <3>3. ui'.confirm = "none"
        BY <3>1, ClosedFields
      <3>4. CASE msgs' = msgs
        BY <1>4, <3>3, <3>4
      <3>5. ASSUME NEW m \in Message, Send(m), m = ui.confirm \/ m # "allComplete"
            PROVE  ui.confirm = "allComplete" \/ msgs["allComplete"] > 0
        <4>1. m # "allComplete" => msgs'["allComplete"] = msgs["allComplete"]
          BY <3>5, MessageFacts DEF Message
        <4>2. QED
          BY <1>4, <3>3, <3>5, <4>1
      <3>6. QED
        BY <3>2, <3>4, <3>5
    <2>2. CASE Handle
      <3>1. ui' = ui /\ \E m \in Message : Receive(m)
        BY <2>2 DEF Handle, HandleAdvance, HandleRetry, HandleAbort, HandleAllComplete, Message
      <3>2. msgs["allComplete"] \in Nat /\ msgs'["allComplete"] \in Nat
            /\ msgs'["allComplete"] <= msgs["allComplete"]
        <4>1. PICK m \in Message : Receive(m)
          BY <3>1
        <4>2. "allComplete" \in Message
          BY DEF Message
        <4>3. \A n \in Message : msgs[n] \in Nat /\ msgs'[n] \in Nat
                                 /\ msgs'[n] = IF n = m THEN msgs[n] - 1 ELSE msgs[n]
          BY <4>1, MessageFacts DEF MsgsInv
        <4>4. QED
          BY <4>2, <4>3
      <3>3. QED
        BY <1>4, <3>1, <3>2
    <2>3. CASE ShowOther
      <3>1. UNCHANGED msgs
        BY <2>3 DEF ShowOther, AskOther, OpenOverlay, CloseOverlay, BrowseSessions,
                    SessionsArrive, Shows
      <3>2. ui'.confirm \in {ui.confirm, "other"}
        <4>1. \A c \in {"default", "overlay"}, b \in BOOLEAN :
                 /\ [ui EXCEPT !.screen = c].confirm = ui.confirm
                 /\ [ui EXCEPT !.browsing = b].confirm = ui.confirm
                 /\ [ui EXCEPT !.browsing = b, !.screen = c].confirm = ui.confirm
          BY DEF UI
        <4>2. Confirming(ui, "other").confirm = "other"
          BY ConfirmingFields
        <4>3. QED
          BY <2>3, <4>1, <4>2 DEF ShowOther, AskOther, OpenOverlay, CloseOverlay,
                                  BrowseSessions, SessionsArrive, Shows
      <3>3. QED
        BY <1>4, <3>1, <3>2
    <2>4. CASE UNCHANGED <<orch, ui, msgs>>
      BY <1>4, <2>4
    <2>5. ~\E t \in Titles : \E k \in DOMAIN nav[t] : MarkComplete(t, k)
      BY DEF MarkComplete, Acts
    <2>6. QED
      BY <2>1, <2>2, <2>3, <2>4, <2>5, ControlMovers
  <1>5. QED
    BY <1>1, <1>2, <1>3, <1>4 DEF Asked

\* ReviewInv is inductive for one implementation that is left to itself.
LEMMA ReviewInvStep ==
    ASSUME Calm, SignalInv, OrchInv, UIInv, MsgsInv, UsedInv, StartInv, ReviewInv, [Next]_vars
    PROVE  ReviewInv'
  <1> SUFFICES ASSUME NotRestarted'
               PROVE  /\ used'.starts = 0 => status' = "ready"
                      /\ orch' # NoOrch \/ signal' # 0 \/ Asked'
                          => reviewer' \/ status' = "implementing"
                      /\ Asked' => orch' = NoOrch /\ used'.starts # 0 /\ signal' = 0
    BY DEF ReviewInv
  <1>1. /\ NotRestarted /\ ~\E graceful \in BOOLEAN : Restart(graceful)
        /\ used.starts = 0 => status = "ready"
        /\ orch # NoOrch \/ signal # 0 \/ Asked => reviewer \/ status = "implementing"
        /\ Asked => orch = NoOrch /\ used.starts # 0 /\ signal = 0
    BY NotRestartedBefore DEF ReviewInv
  <1>2. ui \in UI /\ PendingIsOfWave /\ ~Manual /\ MaxStarts <= 1
    BY DEF UIInv, Calm
  <1>3. used.starts # 0 => used'.starts # 0
    <2>1. Uses(used, used') /\ Uses(used, used)
      BY UsedStep DEF UsedInv
    <2>2. used["starts"] \in Nat /\ used'["starts"] \in Nat /\ used["starts"] <= used'["starts"]
      BY <2>1 DEF Uses, Bounds
    <2>3. QED
      BY <2>2
  <1>4. CASE Implement \/ \E k \in DOMAIN Plan : PlanImplementCommand(k)
    <2>1. used.starts = 0
      <3>1. used["starts"] < Limit["starts"] /\ used["starts"] \in Nat
        BY <1>4 DEF Implement, PlanImplementCommand, Affordable, UsedInv, Uses, Bounds
      <3>2. QED
        BY <1>2, <3>1, LimitFacts, ControlAssumption
    <2>2. ~Asked /\ used'.starts # 0
      BY <1>1, <1>4, <2>1, UsedStep
    <2>3. UNCHANGED <<ui, deferred, msgs>>
      BY <1>4 DEF Implement, PlanImplementCommand
    <2>4. ~Asked'
      BY <2>2, <2>3 DEF Asked
    <2>5. status' = "implementing"
      <3>1. status \in Implementable
        <4>1. status = "ready"
          BY <1>1, <2>1
        <4>2. <<"ready", "implement_start", "implementing">> \in TransitionTable
          BY DEF TransitionTable
        <4>3. QED
          BY <4>1, <4>2 DEF Implementable, Allowed, Status
      <3>2. QED
        BY <1>4, <3>1 DEF Implement, PlanImplementCommand
    <2>6. QED
      BY <2>2, <2>4, <2>5
  <1>5. ASSUME ~Implement, ~\E k \in DOMAIN Plan : PlanImplementCommand(k)
        PROVE  /\ Asked' => orch' = NoOrch /\ used'.starts # 0 /\ signal' = 0
               /\ orch' # NoOrch \/ signal' # 0 \/ Asked' => orch # NoOrch \/ signal # 0 \/ Asked
    <2>1. CASE TickApply
      BY <1>1, <1>2, <1>3, <2>1, TickReview
    <2>2. CASE ~TickApply
      BY <1>1, <1>2, <1>3, <1>5, <2>2, OtherReview
    <2>3. QED
      BY <2>1, <2>2
  <1>6. CASE HandleAllComplete /\ ~Implement /\ ~\E k \in DOMAIN Plan : PlanImplementCommand(k)
    <2>1. Receive("allComplete") /\ reviewer' = TRUE
      BY <1>6 DEF HandleAllComplete
    <2>2. Asked
      BY <2>1 DEF Receive, Asked
    <2>3. used'.starts # 0
      BY <1>1, <1>3, <2>2
    <2>4. QED
      BY <1>5, <1>6, <2>1, <2>3
  <1>7. CASE UNCHANGED <<status, reviewer>> /\ ~Implement
             /\ ~\E k \in DOMAIN Plan : PlanImplementCommand(k)
    BY <1>1, <1>3, <1>5, <1>7
  <1>8. ~CancelPlan
    BY <1>2 DEF CancelPlan, Acts
  <1>9. QED
    BY <1>1, <1>4, <1>6, <1>7, <1>8, StatusMovers

\* So it always holds.
LEMMA ReviewInvInvariant == Calm => (Spec => []ReviewInv)
  <1> SUFFICES ASSUME Calm PROVE Spec => []ReviewInv
    OBVIOUS
  <1>1. MaxStarts <= 1
    BY DEF Calm
  <1>2. Init => ReviewInv
    BY DEF Init, ReviewInv, Asked, NoPending, Message
  <1>3. SignalInv /\ OrchInv /\ UIInv /\ MsgsInv /\ UsedInv /\ StartInv /\ ReviewInv /\ [Next]_vars
          => ReviewInv'
    BY ReviewInvStep
  <1>4. QED
    BY <1>1, <1>2, <1>3, SignalInvInvariant, OrchInvInvariant, UIInvInvariant, MsgsInvInvariant,
       UsedInvInvariant, StartInvInvariant, PTL DEF Spec

\* The reviewer is spawned when the plan has gone from implementing to reviewing and no
\* coder is at work, however long the user was not there to be asked.
THEOREM ReviewerFollowsCodersTheorem == Calm => (Spec => ReviewerFollowsCoders)
  <1> SUFFICES ASSUME Calm PROVE Spec => ReviewerFollowsCoders
    OBVIOUS
  <1>1. AgentsInv /\ ReviewInv /\ WorldInv /\ [Next]_vars =>
           [NotRestarted /\ reviewer' # reviewer =>
               status' = "reviewing" /\ \A t \in Titles : sess[t] # "busy"]_vars
    <2> SUFFICES ASSUME AgentsInv, ReviewInv, WorldInv, Next, NotRestarted, reviewer' # reviewer
                 PROVE  status' = "reviewing" /\ \A t \in Titles : sess[t] # "busy"
      BY DEF vars
    <2>1. ~\E graceful \in BOOLEAN : Restart(graceful)
      BY DEF Restart
    <2>2. HandleAllComplete
      BY <2>1, StatusMovers DEF Implement, PlanImplementCommand, CancelPlan
    <2>3. Asked /\ reviewer \in BOOLEAN /\ reviewer' = TRUE
      BY <2>2 DEF HandleAllComplete, Receive, Asked, WorldInv
    <2>4. orch = NoOrch /\ status = "implementing"
      BY <2>3 DEF ReviewInv
    <2>5. status' = "reviewing"
      <3> DEFINE S == {edge \in TransitionTable :
                        edge[1] = "implementing" /\ edge[2] = "implement_finished"}
                 e == <<"implementing", "implement_finished", "reviewing">>
                 c == CHOOSE edge \in TransitionTable :
                         edge[1] = "implementing" /\ edge[2] = "implement_finished"
      <3>1. S = {e}
        BY DEF TransitionTable
      <3>2. Allowed("implementing", "implement_finished")
        BY <3>1 DEF Allowed
      <3>3. c = e
        BY <3>1
      <3> HIDE DEF c
      <3>4. c[3] = "reviewing"
        BY <3>3
      <3>5. ApplyTransition("implementing", "implement_finished") = c[3]
        BY Zenon DEF ApplyTransition, c
      <3>6. QED
        BY <2>2, <2>4, <3>2, <3>4, <3>5 DEF HandleAllComplete
    <2>6. \A t \in Titles : sess[t] # "busy"
      BY <2>4 DEF AgentsInv, TitleInv, Busy, RunningTitle
    <2>7. QED
      BY <2>5, <2>6
  <1>2. QED
    BY <1>1, AgentsInvInvariant, ReviewInvInvariant, WorldInvInvariant, PTL
       DEF Spec, ReviewerFollowsCoders
=============================================================================
