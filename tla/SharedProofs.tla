---------------------------- MODULE SharedProofs ----------------------------
(***************************************************************************)
(* What the proofs about more than one component rest on: recursion over   *)
(* the naturals, lists, and the methods of the wave orchestrator.  The     *)
(* lemmas speak of sets, sequences and records, not of variables, so that  *)
(* every module can cite them.                                             *)
(***************************************************************************)
EXTENDS WaveOrchestratorOps, Lists, SequencesExt, TLAPS, NaturalsInduction,
        WellFoundedInduction
----------------------------------------------------------------------------
(* Induction and recursion over the naturals, stated for sets and functions *)

\* A set of naturals has a least element.
LEMMA NatMin ==
    ASSUME NEW S \in SUBSET Nat, S # {}
    PROVE  \E m \in S : \A n \in S : m <= n
  <1> DEFINE R == OpToRel(<, Nat)
  <1>1. IsWellFoundedOn(R, Nat)
    BY NatLessThanWellFounded
  <1>2. PICK m \in S : \A n \in S : ~(<<n, m>> \in R)
    <2> HIDE DEF R
    <2> QED
      BY <1>1, WFMin
  <1>3. \A n \in S : ~(n < m)
    BY <1>2 DEF OpToRel
  <1>4. QED
    BY <1>3

\* Induction, stated for a set of naturals.
LEMMA NatSetInduction ==
    ASSUME NEW S \in SUBSET Nat, 0 \in S, \A n \in S : n + 1 \in S
    PROVE  S = Nat
  <1> SUFFICES ASSUME Nat \ S # {} PROVE FALSE
    OBVIOUS
  <1>1. PICK m \in Nat \ S : \A n \in Nat \ S : m <= n
    BY NatMin
  <1>2. m # 0 /\ m - 1 \in Nat /\ m - 1 \notin Nat \ S
    BY <1>1
  <1>3. QED
    BY <1>2

\* A bounded set of naturals has a greatest element.
LEMMA NatMax ==
    ASSUME NEW S \in SUBSET Nat, S # {}, NEW b \in Nat, \A n \in S : n <= b
    PROVE  \E m \in S : \A n \in S : n <= m
  <1> DEFINE D == {b - n : n \in S}
  <1>1. \A n \in S : n \in Nat /\ b - n \in Nat
    OBVIOUS
  <1>5. D \in SUBSET Nat /\ D # {}
    BY <1>1
  <1>2. PICK d \in D : \A e \in D : d <= e
    <2> HIDE DEF D
    <2> QED
      BY <1>5, NatMin
  <1>3. PICK m \in S : d = b - m
    OBVIOUS
  <1>4. \A n \in S : n <= m
    <2> SUFFICES ASSUME NEW n \in S PROVE n <= m
      OBVIOUS
    <2>1. b - m <= b - n
      BY <1>2, <1>3
    <2>2. QED
      BY <1>1, <2>1
  <1>6. QED
    BY <1>4

\* f is the function on 0 .. N that starts with base and goes on with the steps.
DefinedBySteps(f, N, T, base, step) ==
    /\ f \in [0 .. N -> T]
    /\ f[0] = base
    /\ \A k \in 1 .. N : f[k] = step[k][f[k - 1]]

\* A function that is defined by recursion exists, when every step stays in a set T.
LEMMA Recursion ==
    ASSUME NEW N \in Nat, NEW T, NEW base \in T, NEW step \in [1 .. N -> [T -> T]]
    PROVE  \E f : DefinedBySteps(f, N, T, base, step)
  <1> DEFINE Good(n, f) == f[0] = base /\ \A k \in 1 .. n : f[k] = step[k][f[k - 1]]
             S == {n \in Nat : n <= N => \E f \in [0 .. n -> T] : Good(n, f)}
  <1>1. 0 \in S
    <2>1. [k \in 0 .. 0 |-> base] \in [0 .. 0 -> T] /\ Good(0, [k \in 0 .. 0 |-> base])
      OBVIOUS
    <2>2. QED
      BY <2>1
  <1>2. ASSUME NEW n \in S
        PROVE  n + 1 \in S
    <2> SUFFICES ASSUME n + 1 <= N
                 PROVE  \E f \in [0 .. n + 1 -> T] : Good(n + 1, f)
      OBVIOUS
    <2>1. PICK f \in [0 .. n -> T] : Good(n, f)
      OBVIOUS
    <2> DEFINE next == step[n + 1][f[n]]
               g == [k \in 0 .. n + 1 |-> IF k = n + 1 THEN next ELSE f[k]]
    <2>2. next \in T
      <3>1. f[n] \in T /\ n + 1 \in 1 .. N
        BY <2>1
      <3>2. QED
        BY <3>1
    <2> HIDE DEF next
    <2>3. g \in [0 .. n + 1 -> T]
      BY <2>1, <2>2
    <2>4. g[0] = base /\ g[n + 1] = next
      BY <2>1
    <2>5. \A k \in 1 .. n + 1 : g[k] = step[k][g[k - 1]]
      <3> SUFFICES ASSUME NEW k \in 1 .. n + 1 PROVE g[k] = step[k][g[k - 1]]
        OBVIOUS
      <3>1. k - 1 \in 0 .. n /\ g[k - 1] = f[k - 1]
        OBVIOUS
      <3>2. CASE k = n + 1
        <4>1. g[k] = next /\ k - 1 = n
          BY <2>4, <3>2
        <4>2. QED
          BY <3>1, <3>2, <4>1 DEF next
      <3>3. CASE k # n + 1
        <4>1. k \in 1 .. n /\ g[k] = f[k]
          BY <3>3
        <4>2. QED
          BY <2>1, <3>1, <4>1
      <3>4. QED
        BY <3>2, <3>3
    <2> HIDE DEF g
    <2>6. QED
      BY <2>3, <2>4, <2>5
  <1>3. S \in SUBSET Nat
    OBVIOUS
  <1> HIDE DEF S
  <1>4. S = Nat
    BY <1>1, <1>2, <1>3, NatSetInduction
  <1>5. N \in S
    BY <1>4
  <1>6. \E f \in [0 .. N -> T] : Good(N, f)
    BY <1>5 DEF S
  <1>7. QED
    BY <1>6 DEF DefinedBySteps

\* What starts in a set and stays in it with every step is in it all along.
LEMMA StaysIn ==
    ASSUME NEW N \in Nat, NEW T, NEW f, f[0] \in T,
           \A k \in 1 .. N : f[k - 1] \in T => f[k] \in T
    PROVE  \A k \in 0 .. N : f[k] \in T
  <1> DEFINE I == {k \in Nat : k <= N => f[k] \in T}
  <1>1. I \in SUBSET Nat /\ 0 \in I
    OBVIOUS
  <1>2. ASSUME NEW k \in I PROVE k + 1 \in I
    <2>1. k \in Nat /\ k + 1 \in Nat /\ (k <= N => f[k] \in T)
      OBVIOUS
    <2>2. k + 1 <= N => k + 1 \in 1 .. N /\ k <= N /\ (k + 1) - 1 = k
      BY <2>1
    <2>3. k + 1 <= N => f[k + 1] \in T
      BY <2>1, <2>2
    <2>4. QED
      BY <2>1, <2>3
  <1> HIDE DEF I
  <1>3. I = Nat
    BY <1>1, <1>2, NatSetInduction
  <1>4. QED
    BY <1>3 DEF I

----------------------------------------------------------------------------
(* Lists and the sets of their elements *)

\* The elements of a sequence with one more, and of two sequences in a row.
LEMMA AppendSet ==
    ASSUME NEW T, NEW s \in Seq(T), NEW e \in T
    PROVE  Append(s, e) \in Seq(T) /\ ToSet(Append(s, e)) = ToSet(s) \cup {e}
<1> DEFINE k == Len(s)
           t == Append(s, e)
<1>1. /\ t \in Seq(T) /\ k \in Nat /\ DOMAIN s = 1 .. k /\ DOMAIN t = 1 .. k + 1
      /\ t[k + 1] = e
  OBVIOUS
<1>2. \A j \in 1 .. k : t[j] = s[j]
  OBVIOUS
<1> HIDE DEF k, t
<1>3. \A j \in 1 .. k + 1 : j \in 1 .. k \/ j = k + 1
  BY <1>1
<1>4. \A j \in 1 .. k : j \in 1 .. k + 1
  BY <1>1
<1>5. k + 1 \in 1 .. k + 1
  BY <1>1
<1>6. ToSet(t) = ToSet(s) \cup {e}
  BY <1>1, <1>2, <1>3, <1>4, <1>5 DEF ToSet
<1> QED BY <1>1, <1>6 DEF t

\* The members of a concatenation.
LEMMA CatSet ==
    ASSUME NEW T, NEW s \in Seq(T), NEW t \in Seq(T)
    PROVE  s \o t \in Seq(T) /\ ToSet(s \o t) = ToSet(s) \cup ToSet(t)
<1> DEFINE a == Len(s)
           b == Len(t)
           c == s \o t
<1>1. /\ c \in Seq(T) /\ a \in Nat /\ b \in Nat
      /\ DOMAIN s = 1 .. a /\ DOMAIN t = 1 .. b /\ DOMAIN c = 1 .. a + b
  OBVIOUS
<1>2. \A j \in 1 .. a : c[j] = s[j]
  OBVIOUS
<1>3. \A j \in a + 1 .. a + b : c[j] = t[j - a]
  OBVIOUS
<1> HIDE DEF a, b, c
<1>4. \A j \in 1 .. a + b : j \in 1 .. a \/ (j \in a + 1 .. a + b /\ j - a \in 1 .. b)
  BY <1>1
<1>5. \A j \in 1 .. a : j \in 1 .. a + b
  BY <1>1
<1>6. \A j \in 1 .. b : j + a \in a + 1 .. a + b /\ j + a \in 1 .. a + b /\ (j + a) - a = j
  BY <1>1
<1>7. \A x \in ToSet(c) : x \in ToSet(s) \cup ToSet(t)
  BY <1>1, <1>2, <1>3, <1>4 DEF ToSet
<1>8. \A x \in ToSet(s) : x \in ToSet(c)
  BY <1>1, <1>2, <1>5 DEF ToSet
<1>9. \A x \in ToSet(t) : x \in ToSet(c)
  <2>1. \A j \in 1 .. b : c[j + a] = t[j] /\ j + a \in DOMAIN c
    BY <1>1, <1>3, <1>6
  <2> QED BY <1>1, <2>1 DEF ToSet
<1>10. ToSet(c) = ToSet(s) \cup ToSet(t)
  BY <1>7, <1>8, <1>9
<1> QED BY <1>1, <1>10 DEF c

\* Short ones, and those of a type.
LEMMA FewSet ==
    ASSUME NEW T
    PROVE  /\ << >> \in Seq(T) /\ ToSet(<< >>) = {}
           /\ \A x \in T : <<x>> \in Seq(T) /\ ToSet(<<x>>) = {x}
           /\ \A s \in Seq(T) : ToSet(s) \subseteq T /\ (ToSet(s) = {} <=> s = << >>)
<1>1. << >> \in Seq(T) /\ ToSet(<< >>) = {}
  BY DEF ToSet
<1>2. \A x \in T : <<x>> \in Seq(T) /\ ToSet(<<x>>) = {x}
  BY DEF ToSet
<1>3. \A s \in Seq(T) : ToSet(s) \subseteq T
  BY DEF ToSet
<1>4. ASSUME NEW s \in Seq(T), s # << >> PROVE ToSet(s) # {}
  <2>1. Len(s) \in Nat \ {0} /\ DOMAIN s = 1 .. Len(s)
    BY <1>4
  <2>2. 1 \in DOMAIN s
    BY <2>1
  <2> QED BY <2>2 DEF ToSet
<1> QED BY <1>1, <1>2, <1>3, <1>4

\* f goes through a list, from the empty one, and takes what is in S.
Takes(f, list, S) ==
    /\ f[0] = << >>
    /\ \A k \in 1 .. Len(list) :
          f[k] = IF list[k] \in S THEN Append(f[k - 1], list[k]) ELSE f[k - 1]

\* The recursion of Only.
LEMMA OnlySteps ==
    ASSUME NEW T, NEW list \in Seq(T), NEW S
    PROVE  \E f \in [0 .. Len(list) -> Seq(T)] :
              Takes(f, list, S) /\ Only(list, S) = f[Len(list)]
<1> DEFINE N == Len(list)
           next(k, q) == IF list[k] \in S THEN Append(q, list[k]) ELSE q
           step == [k \in 1 .. N |-> [q \in Seq(T) |-> next(k, q)]]
           Eqn(f) == f = [k \in 0 .. N |-> IF k = 0 THEN << >> ELSE next(k, f[k - 1])]
<1>1. N \in Nat /\ << >> \in Seq(T)
  OBVIOUS
<1>2. \A k \in 1 .. N : \A q \in Seq(T) : next(k, q) \in Seq(T)
  OBVIOUS
<1>3. Only(list, S) = (CHOOSE g : Eqn(g))[N]
  BY DEF Only
<1> HIDE DEF next, N
<1>4. step \in [1 .. N -> [Seq(T) -> Seq(T)]]
  BY <1>2
<1>5. PICK f : DefinedBySteps(f, N, Seq(T), << >>, step)
  <2> HIDE DEF step
  <2> QED BY <1>1, <1>4, Recursion
<1>6. /\ f \in [0 .. N -> Seq(T)] /\ f[0] = << >>
      /\ \A k \in 1 .. N : f[k] = next(k, f[k - 1])
  <2>1. /\ f \in [0 .. N -> Seq(T)] /\ f[0] = << >>
        /\ \A k \in 1 .. N : f[k] = step[k][f[k - 1]]
    BY <1>5 DEF DefinedBySteps
  <2>2. \A k \in 1 .. N : k - 1 \in 0 .. N
    BY <1>1
  <2> QED BY <2>1, <2>2
<1>7. Eqn(f)
  <2>1. \A k \in 0 .. N : f[k] = IF k = 0 THEN << >> ELSE next(k, f[k - 1])
    BY <1>1, <1>6
  <2> QED BY <1>6, <2>1
<1> DEFINE g == CHOOSE h : Eqn(h)
<1>8. Eqn(g)
  <2> HIDE DEF Eqn
  <2> QED BY <1>7
<1>9. Only(list, S) = g[N]
  BY <1>3
<1> HIDE DEF g
<1>10. \A k \in 0 .. N : g[k] = IF k = 0 THEN << >> ELSE next(k, g[k - 1])
  BY <1>8
<1>11. g[0] = << >> /\ \A k \in 1 .. N : g[k] = next(k, g[k - 1])
  BY <1>1, <1>10
<1>12. \A k \in 0 .. N : g[k] \in Seq(T)
  <2>1. \A k \in 1 .. N : g[k - 1] \in Seq(T) => g[k] \in Seq(T)
    BY <1>2, <1>11
  <2>2. g[0] \in Seq(T)
    BY <1>1, <1>11
  <2> QED BY <1>1, <2>1, <2>2, StaysIn
<1>13. g \in [0 .. N -> Seq(T)]
  BY <1>8, <1>12
<1>14. Takes(g, list, S)
  BY <1>11 DEF Takes, next, N
<1> QED BY <1>9, <1>13, <1>14 DEF N

\* Only keeps those that are in S.
LEMMA OnlyFacts ==
    ASSUME NEW T, NEW list \in Seq(T), NEW S
    PROVE  Only(list, S) \in Seq(T) /\ ToSet(Only(list, S)) = ToSet(list) \cap S
<1> DEFINE N == Len(list)
<1>1. N \in Nat /\ DOMAIN list = 1 .. N
  OBVIOUS
<1>p. PICK f \in [0 .. N -> Seq(T)] : Takes(f, list, S) /\ Only(list, S) = f[N]
  BY OnlySteps
<1>2. /\ f[0] = << >>
      /\ \A k \in 1 .. N :
            f[k] = IF list[k] \in S THEN Append(f[k - 1], list[k]) ELSE f[k - 1]
      /\ Only(list, S) = f[N]
  BY <1>p DEF Takes
<1>3. \A k \in 1 .. N : list[k] \in T
  OBVIOUS
<1> HIDE DEF N
<1> DEFINE Upto(k) == {list[j] : j \in 1 .. k}
           I == {k \in Nat : k <= N => ToSet(f[k]) = Upto(k) \cap S}
<1>4. I \in SUBSET Nat
  OBVIOUS
<1>5. 0 \in I
  <2>1. ToSet(f[0]) = {} /\ Upto(0) = {}
    BY <1>2, FewSet
  <2> QED BY <2>1
<1>6. ASSUME NEW k \in I PROVE k + 1 \in I
  <2> SUFFICES ASSUME k + 1 <= N PROVE ToSet(f[k + 1]) = Upto(k + 1) \cap S
    OBVIOUS
  <2>0. k \in Nat /\ (k <= N => ToSet(f[k]) = Upto(k) \cap S)
    OBVIOUS
  <2>1. /\ k \in Nat /\ k <= N /\ k \in 0 .. N /\ k + 1 \in 1 .. N /\ (k + 1) - 1 = k
        /\ ToSet(f[k]) = Upto(k) \cap S
    <3> HIDE DEF I, Upto
    <3> QED BY <1>1, <2>0
  <2>2. Upto(k + 1) = Upto(k) \cup {list[k + 1]}
    <3>1. \A j : j \in 1 .. k + 1 <=> (j \in 1 .. k \/ j = k + 1)
      BY <2>1
    <3> QED BY <3>1
  <2>3. f[k] \in Seq(T) /\ list[k + 1] \in T
    BY <1>2, <1>3, <2>1
  <2>4. f[k + 1] = IF list[k + 1] \in S THEN Append(f[k], list[k + 1]) ELSE f[k]
    BY <1>2, <2>1
  <2>5. list[k + 1] \in S => ToSet(f[k + 1]) = ToSet(f[k]) \cup {list[k + 1]}
    BY <2>3, <2>4, AppendSet
  <2> HIDE DEF Upto
  <2> QED BY <2>1, <2>2, <2>4, <2>5
<1> HIDE DEF I
<1>7. I = Nat
  BY <1>4, <1>5, <1>6, NatSetInduction
<1>8. ToSet(f[N]) = Upto(N) \cap S
  <2>1. N \in I /\ N <= N
    BY <1>1, <1>7
  <2> QED BY <2>1 DEF I
<1>9. Upto(N) = ToSet(list)
  BY <1>1 DEF ToSet
<1>10. f[N] \in Seq(T)
  BY <1>1, <1>2
<1> QED BY <1>2, <1>8, <1>9, <1>10

----------------------------------------------------------------------------
(* The wave orchestrator: method by method, WellFormed and InWaveOrder are *)
(* preserved, for every set of task numbers.                               *)

\* A new orchestrator is well formed and in order.
LEMMA NewWellFormed ==
    ASSUME NEW p \in Seq(Wave)
    PROVE  WellFormed(NewWaveOrchestrator(p)) /\ InWaveOrder(NewWaveOrchestrator(p))
  <1> DEFINE o == NewWaveOrchestrator(p)
  <1>1. /\ o.plan = p /\ o.state = "idle" /\ o.currentWave = 0
        /\ o.taskStates = [t \in TaskNumbers |-> "pending"]
        /\ ~o.waitingForConfirm
        /\ o \in Orchestrator
    BY DEF NewWaveOrchestrator, Orchestrator, WaveState, TaskStatus
  <1>2. \A k \in DOMAIN p : k \in Nat \ {0} /\ p[k].tasks \subseteq TaskNumbers
    <2>1. \A k \in DOMAIN p : k \in 1 .. Len(p)
      OBVIOUS
    <2>2. \A k \in DOMAIN p : p[k] \in Wave
      BY <2>1
    <2>3. QED
      BY <2>1, <2>2 DEF Wave
  <1> HIDE DEF o
  <1>3. WellFormed(o)
    BY <1>1 DEF WellFormed, IsTaskRunning
  <1>4. InWaveOrder(o)
    <2> SUFFICES ASSUME NEW k \in DOMAIN p, NEW t \in p[k].tasks
                 PROVE  ~(k <= o.currentWave) /\ o.taskStates[t] = "pending"
      BY <1>1 DEF InWaveOrder, OwnTasks
    <2>1. k \in Nat \ {0} /\ t \in TaskNumbers
      BY <1>2
    <2>2. QED
      BY <1>1, <2>1
  <1>5. QED
    BY <1>3, <1>4 DEF o

\* The tasks of the current wave are task numbers.
LEMMA CurrentWaveTasksType ==
    ASSUME NEW o \in Orchestrator
    PROVE  CurrentWaveTasks(o) \subseteq TaskNumbers
  <1>1. CASE PastLastWave(o)
    BY <1>1 DEF CurrentWaveTasks
  <1>2. CASE ~PastLastWave(o)
    <2>1. o.currentWave + 1 \in 1 .. Len(o.plan) /\ o.plan \in Seq(Wave)
      BY <1>2 DEF PastLastWave, Orchestrator
    <2>2. o.plan[o.currentWave + 1] \in Wave
      BY <2>1
    <2>3. QED
      BY <1>2, <2>2 DEF CurrentWaveTasks, Wave
  <1>3. QED
    BY <1>1, <1>2

\* EnterNextWave moves only a wave that is complete, and then every wave up to
\* the one it leaves has ended.
LEMMA EnterNextWaveFacts ==
    ASSUME NEW o, WellFormed(o), NEW e, e = EnterNextWave(o)
    PROVE  /\ e \in Orchestrator
           /\ e.plan = o.plan
           /\ e.state = o.state
           /\ e.taskStates = o.taskStates
           /\ o.state # "waveComplete" => e = o
           /\ o.state = "waveComplete" =>
                /\ e.currentWave = o.currentWave + 1
                /\ e.currentWave < Len(e.plan)
           /\ ~e.waitingForConfirm
  <1>1. o \in Orchestrator
    BY DEF WellFormed
  <1>2. CASE o.state = "waveComplete"
    <2>1. e = [o EXCEPT !.currentWave = o.currentWave + 1, !.waitingForConfirm = FALSE]
      BY <1>2 DEF EnterNextWave
    <2>2. o.currentWave \in Nat /\ o.plan \in Seq(Wave) /\ Len(o.plan) \in Nat
      BY <1>1 DEF Orchestrator
    <2>3. o.currentWave + 1 < Len(o.plan)
      BY <1>2, <2>2 DEF WellFormed
    <2>4. e = [plan |-> o.plan, state |-> o.state, currentWave |-> o.currentWave + 1,
               taskStates |-> o.taskStates, waitingForConfirm |-> FALSE]
      BY <1>1, <2>1 DEF Orchestrator
    <2>6. e \in Orchestrator
      BY <1>1, <2>2, <2>4 DEF Orchestrator
    <2>5. QED
      BY <1>2, <2>3, <2>4, <2>6
  <1>3. CASE o.state # "waveComplete"
    BY <1>1, <1>3 DEF WellFormed, EnterNextWave, Orchestrator
  <1>4. QED
    BY <1>2, <1>3

\* StartNextWave keeps an orchestrator well formed, whatever its state.
LEMMA StartNextWaveWellFormed ==
    ASSUME NEW o, WellFormed(o)
    PROVE  WellFormed(StartNextWave(o))
  <1>1. o \in Orchestrator
    BY DEF WellFormed
  <1>2. CASE o.state = "allComplete"
    BY <1>2 DEF StartNextWave
  <1>3. CASE o.state # "allComplete"
    <2> DEFINE e == EnterNextWave(o)
               s == StartCurrentWave(e)
    <2>1. /\ e \in Orchestrator
          /\ e.plan = o.plan
          /\ e.taskStates = o.taskStates
          /\ o.state # "waveComplete" => e = o
          /\ o.state = "waveComplete" => /\ e.currentWave = o.currentWave + 1
                                         /\ e.currentWave < Len(e.plan)
          /\ ~e.waitingForConfirm
      BY EnterNextWaveFacts
    <2>2. CurrentWaveTasks(e) \subseteq TaskNumbers
      BY <2>1, CurrentWaveTasksType
    <2>3. StartNextWave(o) = s
      BY <1>3 DEF StartNextWave
    <2> HIDE DEF e
    <2>4. \A t \in TaskNumbers : e.taskStates[t] = "running" => t \in CurrentWaveTasks(e)
      BY <1>1, <2>1 DEF WellFormed, IsTaskRunning, Resolved, TaskStatus, Orchestrator
    <2>5. CASE PastLastWave(e)
      <3>1. o.state = "idle"
        <4>1. o.state # "waveComplete"
          BY <2>1, <2>5 DEF PastLastWave, Orchestrator
        <4>2. o.state # "running"
          BY <2>1, <2>5, <4>1 DEF PastLastWave, Orchestrator, WellFormed
        <4>3. QED
          BY <1>1, <1>3, <4>1, <4>2 DEF Orchestrator, WaveState
      <3>2. e = o /\ o.currentWave = 0
        BY <2>1, <3>1 DEF WellFormed
      <3>3. s = [e EXCEPT !.state = "allComplete"]
        BY <2>5 DEF StartCurrentWave
      <3>4. QED
        BY <1>1, <2>1, <2>3, <2>5, <3>1, <3>2, <3>3
           DEF WellFormed, PastLastWave, Orchestrator, WaveState, CurrentWaveTasks,
               IsTaskRunning
    <2>6. CASE ~PastLastWave(e)
      <3>1. s = [SetTasks(e, CurrentWaveTasks(e), "running") EXCEPT !.state = "running"]
        BY <2>6 DEF StartCurrentWave
      <3> DEFINE ts == [t \in TaskNumbers |->
                           IF t \in CurrentWaveTasks(e) THEN "running" ELSE e.taskStates[t]]
      <3>6. s = [plan |-> e.plan, state |-> "running", currentWave |-> e.currentWave,
                 taskStates |-> ts, waitingForConfirm |-> e.waitingForConfirm]
        BY <2>1, <3>1 DEF SetTasks, Orchestrator
      <3>7. ts \in [TaskNumbers -> TaskStatus]
        BY <2>1 DEF Orchestrator, TaskStatus
      <3>2. /\ s \in Orchestrator
            /\ s.plan = e.plan /\ s.currentWave = e.currentWave
            /\ s.state = "running"
            /\ ~s.waitingForConfirm
            /\ \A t \in TaskNumbers : s.taskStates[t] =
                  IF t \in CurrentWaveTasks(e) THEN "running" ELSE e.taskStates[t]
        BY <2>1, <3>6, <3>7 DEF Orchestrator, WaveState
      <3>3. CurrentWaveTasks(s) = CurrentWaveTasks(e)
        BY <3>2 DEF CurrentWaveTasks, PastLastWave
      <3>4. s.currentWave < Len(s.plan)
        BY <2>1, <2>6, <3>2 DEF PastLastWave, Orchestrator
      <3> HIDE DEF s
      <3>5. QED
        BY <2>2, <2>3, <2>4, <3>2, <3>3, <3>4 DEF WellFormed, IsTaskRunning, TasksWith
    <2>7. QED
      BY <2>5, <2>6
  <1>4. QED
    BY <1>2, <1>3

\* One task set to an end keeps a well formed orchestrator's record in type.
LEMMA SetTasksType ==
    ASSUME NEW o \in Orchestrator, NEW S, NEW st \in TaskStatus
    PROVE  /\ SetTasks(o, S, st) \in Orchestrator
           /\ SetTasks(o, S, st).plan = o.plan
           /\ SetTasks(o, S, st).state = o.state
           /\ SetTasks(o, S, st).currentWave = o.currentWave
           /\ SetTasks(o, S, st).waitingForConfirm = o.waitingForConfirm
           /\ \A t \in TaskNumbers : SetTasks(o, S, st).taskStates[t] =
                 IF t \in S THEN st ELSE o.taskStates[t]
  <1> DEFINE ts == [t \in TaskNumbers |-> IF t \in S THEN st ELSE o.taskStates[t]]
  <1>1. ts \in [TaskNumbers -> TaskStatus]
    BY DEF Orchestrator
  <1>2. SetTasks(o, S, st) =
           [plan |-> o.plan, state |-> o.state, currentWave |-> o.currentWave,
            taskStates |-> ts, waitingForConfirm |-> o.waitingForConfirm]
    BY DEF SetTasks, Orchestrator
  <1>3. QED
    BY <1>1, <1>2 DEF Orchestrator

\* Replacing the state and the latch keeps the type.
LEMMA SetStateType ==
    ASSUME NEW o \in Orchestrator, NEW st \in WaveState
    PROVE  /\ [o EXCEPT !.state = st] =
                 [plan |-> o.plan, state |-> st, currentWave |-> o.currentWave,
                  taskStates |-> o.taskStates, waitingForConfirm |-> o.waitingForConfirm]
           /\ [o EXCEPT !.state = st] \in Orchestrator
  <1>1. [o EXCEPT !.state = st] =
           [plan |-> o.plan, state |-> st, currentWave |-> o.currentWave,
            taskStates |-> o.taskStates, waitingForConfirm |-> o.waitingForConfirm]
    BY DEF Orchestrator
  <1>2. QED
    BY <1>1 DEF Orchestrator

\* checkWaveComplete makes a running orchestrator whose tasks have just been given
\* an end well formed: it stays running, or ends its wave.
LEMMA CheckWaveCompleteWellFormed ==
    ASSUME NEW m \in Orchestrator,
           m.state = "running", m.currentWave < Len(m.plan), ~m.waitingForConfirm,
           \A u \in CurrentWaveTasks(m) : m.taskStates[u] # "pending",
           \A u \in TaskNumbers : m.taskStates[u] = "running" => u \in CurrentWaveTasks(m)
    PROVE  WellFormed(CheckWaveComplete(m))
  <1>1. ~PastLastWave(m) /\ CurrentWaveTasks(m) \subseteq TaskNumbers
    BY CurrentWaveTasksType DEF PastLastWave, Orchestrator
  <1>2. CASE TasksWith(m, "running") # {}
    <2>1. CheckWaveComplete(m) = m
      BY <1>2 DEF CheckWaveComplete
    <2>2. QED
      BY <1>2, <2>1 DEF WellFormed, IsTaskRunning
  <1>3. CASE TasksWith(m, "running") = {}
    <2> DEFINE over == IF m.currentWave + 1 >= Len(m.plan)
                       THEN "allComplete" ELSE "waveComplete"
               c == [m EXCEPT !.state = over]
    <2>1. TasksWith(m, "pending") = {}
      BY DEF TasksWith
    <2>2. CheckWaveComplete(m) = c
      BY <1>1, <1>3, <2>1 DEF CheckWaveComplete
    <2>3. \A u \in CurrentWaveTasks(m) : Resolved(m, u)
      BY <1>1, <1>3, <2>1 DEF TasksWith, Resolved, Orchestrator, TaskStatus
    <2>4. over \in WaveState
      BY DEF WaveState
    <2>5. /\ c = [plan |-> m.plan, state |-> over, currentWave |-> m.currentWave,
                   taskStates |-> m.taskStates,
                   waitingForConfirm |-> m.waitingForConfirm]
          /\ c \in Orchestrator
      BY <2>4, SetStateType
    <2>6. CurrentWaveTasks(c) = CurrentWaveTasks(m)
      BY <2>5 DEF CurrentWaveTasks, PastLastWave
    <2>7. /\ c.plan = m.plan /\ c.state = over /\ c.currentWave = m.currentWave
          /\ c.taskStates = m.taskStates /\ ~c.waitingForConfirm
      BY <2>5
    <2>8. \A u \in CurrentWaveTasks(c) : Resolved(c, u)
      BY <2>3, <2>6, <2>7 DEF Resolved
    <2>9. over = "allComplete" <=> m.currentWave + 1 >= Len(m.plan)
      OBVIOUS
    <2> HIDE DEF c
    <2>10. /\ c.state # "idle" /\ c.state # "running"
           /\ c.state = "allComplete" <=> c.currentWave + 1 >= Len(c.plan)
      BY <2>7, <2>9
    <2>11. WellFormed(c)
      BY <2>5, <2>6, <2>7, <2>8, <2>10 DEF WellFormed, IsTaskRunning
    <2>12. QED
      BY <2>2, <2>11
  <1>4. QED
    BY <1>2, <1>3

\* MarkTaskComplete and MarkTaskFailed keep an orchestrator well formed.
LEMMA MarkTaskWellFormed ==
    ASSUME NEW o, WellFormed(o), NEW t \in TaskNumbers, NEW st \in {"complete", "failed"}
    PROVE  WellFormed(MarkTask(o, t, st))
  <1>1. o \in Orchestrator
    BY DEF WellFormed
  <1>2. CASE o.taskStates[t] # "running"
    BY <1>2 DEF MarkTask
  <1>3. CASE o.taskStates[t] = "running"
    <2> DEFINE m == SetTasks(o, {t}, st)
    <2>1. /\ m \in Orchestrator
          /\ m.plan = o.plan /\ m.state = o.state /\ m.currentWave = o.currentWave
          /\ m.waitingForConfirm = o.waitingForConfirm
          /\ \A u \in TaskNumbers : m.taskStates[u] =
                IF u = t THEN st ELSE o.taskStates[u]
      BY <1>1, SetTasksType DEF TaskStatus
    <2>2. MarkTask(o, t, st) = CheckWaveComplete(m)
      BY <1>3 DEF MarkTask
    <2> HIDE DEF m
    <2>3. /\ CurrentWaveTasks(m) = CurrentWaveTasks(o)
          /\ PastLastWave(m) <=> PastLastWave(o)
          /\ CurrentWaveTasks(o) \subseteq TaskNumbers
      BY <1>1, <2>1, CurrentWaveTasksType DEF CurrentWaveTasks, PastLastWave
    <2>4. t \in CurrentWaveTasks(o) /\ o.state = "running"
      BY <1>1, <1>3 DEF WellFormed, IsTaskRunning, Resolved, Orchestrator, WaveState
    <2>5. ~m.waitingForConfirm
      BY <1>1, <2>1, <2>4 DEF WellFormed
    <2>6. /\ ~PastLastWave(m)
          /\ \A u \in CurrentWaveTasks(m) : m.taskStates[u] # "pending"
          /\ \A u \in TaskNumbers : m.taskStates[u] = "running" => u \in CurrentWaveTasks(m)
      BY <1>1, <2>1, <2>3, <2>4 DEF WellFormed, IsTaskRunning, PastLastWave, Orchestrator
    <2>7. m.currentWave < Len(m.plan)
      BY <2>1, <2>6 DEF PastLastWave, Orchestrator
    <2>8. QED
      BY <2>1, <2>2, <2>4, <2>5, <2>6, <2>7, CheckWaveCompleteWellFormed
  <1>4. QED
    BY <1>2, <1>3

\* Replacing the latch keeps the other fields and the type.
LEMMA SetLatchType ==
    ASSUME NEW o \in Orchestrator, NEW b \in BOOLEAN
    PROVE  /\ [o EXCEPT !.waitingForConfirm = b] =
                 [plan |-> o.plan, state |-> o.state, currentWave |-> o.currentWave,
                  taskStates |-> o.taskStates, waitingForConfirm |-> b]
           /\ [o EXCEPT !.waitingForConfirm = b] \in Orchestrator
  <1>1. [o EXCEPT !.waitingForConfirm = b] =
           [plan |-> o.plan, state |-> o.state, currentWave |-> o.currentWave,
            taskStates |-> o.taskStates, waitingForConfirm |-> b]
    BY DEF Orchestrator
  <1>2. QED
    BY <1>1 DEF Orchestrator

\* The confirmation latch keeps an orchestrator well formed: TakeConfirm sets it
\* only over a finished wave.
LEMMA ConfirmWellFormed ==
    ASSUME NEW o, WellFormed(o)
    PROVE  WellFormed(TakeConfirm(o)) /\ WellFormed(ResetConfirm(o))
  <1>1. o \in Orchestrator
    BY DEF WellFormed
  <1> SUFFICES ASSUME NEW b \in BOOLEAN, b => o.state = "waveComplete",
                      NEW c, c = [o EXCEPT !.waitingForConfirm = b]
               PROVE  WellFormed(c)
    <2>1. o.waitingForConfirm \/ NeedsConfirm(o) \in BOOLEAN
      BY <1>1 DEF Orchestrator, NeedsConfirm
    <2>2. o.waitingForConfirm \/ NeedsConfirm(o) => o.state = "waveComplete"
      BY DEF NeedsConfirm, WellFormed
    <2>3. QED
      BY <2>1, <2>2 DEF TakeConfirm, ResetConfirm
  <1>2. c = [plan |-> o.plan, state |-> o.state, currentWave |-> o.currentWave,
             taskStates |-> o.taskStates, waitingForConfirm |-> b]
    BY <1>1, SetLatchType
  <1>3. c \in Orchestrator
    BY <1>1, SetLatchType
  <1>4. CurrentWaveTasks(c) = CurrentWaveTasks(o)
    BY <1>2 DEF CurrentWaveTasks, PastLastWave
  <1>5. /\ c.plan = o.plan /\ c.state = o.state /\ c.currentWave = o.currentWave
        /\ c.taskStates = o.taskStates /\ c.waitingForConfirm = b
    BY <1>2
  <1>6. QED
    BY <1>3, <1>4, <1>5 DEF WellFormed, Resolved, IsTaskRunning, TasksWith

\* RetryFailedTasks keeps an orchestrator well formed, in whatever state it is
\* called: failed tasks of the current wave run again, or nothing changes.
LEMMA RetryWellFormed ==
    ASSUME NEW o, WellFormed(o)
    PROVE  WellFormed(RetryFailedTasks(o))
  <1>1. o \in Orchestrator
    BY DEF WellFormed
  <1> DEFINE F == TasksWith(o, "failed")
             s == SetTasks(o, F, "running")
             u == [s EXCEPT !.state = "running"]
             r == ResetConfirm(u)
  <1>2. CASE F = {}
    BY <1>2 DEF RetryFailedTasks
  <1>3. CASE F # {}
    <2>1. RetryFailedTasks(o) = r
      BY <1>3 DEF RetryFailedTasks
    <2>2. /\ s \in Orchestrator
          /\ s.plan = o.plan /\ s.currentWave = o.currentWave
          /\ \A t \in TaskNumbers : s.taskStates[t] =
                IF t \in F THEN "running" ELSE o.taskStates[t]
      BY <1>1, SetTasksType DEF TaskStatus
    <2> HIDE DEF s
    <2>3. r = [plan |-> s.plan, state |-> "running", currentWave |-> s.currentWave,
               taskStates |-> s.taskStates, waitingForConfirm |-> FALSE]
      <3>1. /\ u = [plan |-> s.plan, state |-> "running", currentWave |-> s.currentWave,
                     taskStates |-> s.taskStates, waitingForConfirm |-> s.waitingForConfirm]
            /\ u \in Orchestrator
        BY <2>2, SetStateType DEF WaveState
      <3> HIDE DEF u
      <3>2. QED
        <4>1. \A b \in BOOLEAN : [u EXCEPT !.waitingForConfirm = b] =
                 [plan |-> u.plan, state |-> u.state, currentWave |-> u.currentWave,
                  taskStates |-> u.taskStates, waitingForConfirm |-> b]
          BY <3>1, SetLatchType
        <4>2. r = [plan |-> u.plan, state |-> u.state, currentWave |-> u.currentWave,
                   taskStates |-> u.taskStates, waitingForConfirm |-> FALSE]
          BY <4>1, Zenon DEF ResetConfirm
        <4>3. QED
          BY <3>1, <4>2
    <2> HIDE DEF u, r
    <2>12. s.taskStates \in [TaskNumbers -> TaskStatus] /\ s.plan \in Seq(Wave)
           /\ s.currentWave \in Nat
      BY <2>2 DEF Orchestrator
    <2>4. /\ r \in Orchestrator
          /\ r.plan = o.plan /\ r.currentWave = o.currentWave /\ r.state = "running"
          /\ ~r.waitingForConfirm
          /\ \A t \in TaskNumbers : r.taskStates[t] =
                IF t \in F THEN "running" ELSE o.taskStates[t]
      <3>1. r \in Orchestrator
        BY <2>3, <2>12 DEF Orchestrator, WaveState
      <3>2. r.waitingForConfirm = FALSE
        BY <2>3
      <3>3. r.plan = s.plan /\ r.currentWave = s.currentWave /\ r.state = "running"
            /\ r.taskStates = s.taskStates
        BY <2>3
      <3>4. QED
        BY <2>2, <3>1, <3>2, <3>3
    <2>5. /\ CurrentWaveTasks(r) = CurrentWaveTasks(o)
          /\ CurrentWaveTasks(o) \subseteq TaskNumbers
          /\ F \subseteq CurrentWaveTasks(o)
      BY <1>1, <2>4, CurrentWaveTasksType DEF CurrentWaveTasks, PastLastWave, TasksWith
    <2>6. TasksWith(r, "running") # {}
      BY <1>3, <2>4, <2>5 DEF TasksWith
    <2>7. o.state # "idle"
      BY <1>3, <2>5 DEF WellFormed, TasksWith
    <2>8. \A t \in CurrentWaveTasks(r) : r.taskStates[t] # "pending"
      BY <1>1, <2>4, <2>5, <2>7 DEF WellFormed, Resolved, Orchestrator, WaveState
    <2>9. r.currentWave < Len(r.plan)
      BY <1>1, <1>3, <2>4, <2>5 DEF CurrentWaveTasks, PastLastWave, Orchestrator
    <2>10. \A t \in TaskNumbers : r.taskStates[t] = "running" => t \in CurrentWaveTasks(r)
      BY <2>4, <2>5 DEF WellFormed, IsTaskRunning
    <2>11. QED
      BY <2>1, <2>4, <2>6, <2>8, <2>9, <2>10 DEF WellFormed, IsTaskRunning
  <1>4. QED
    BY <1>2, <1>3

----------------------------------------------------------------------------
(* Wave order *)

\* How a method may touch the statuses of a well formed orchestrator in wave
\* order and keep it in order: it changes only tasks of the wave it leaves
\* current, and it moves on by one wave only when that wave has ended.
LEMMA InWaveOrderStep ==
    ASSUME NEW o \in Orchestrator, NEW n \in Orchestrator,
           InWaveOrder(o),
           n.plan = o.plan,
           \/ n.currentWave = o.currentWave
           \/ /\ n.currentWave = o.currentWave + 1
              /\ \A t \in CurrentWaveTasks(o) : Resolved(o, t),
           \A t \in TaskNumbers \ CurrentWaveTasks(n) : n.taskStates[t] = o.taskStates[t]
    PROVE  InWaveOrder(n)
  <1> SUFFICES ASSUME NEW k \in DOMAIN o.plan, NEW t \in OwnTasks(o.plan, k)
               PROVE  /\ k <= n.currentWave => Resolved(n, t)
                      /\ k > n.currentWave + 1 => n.taskStates[t] = "pending"
    BY DEF InWaveOrder
  <1>1. /\ o.plan \in Seq(Wave) /\ o.currentWave \in Nat /\ n.currentWave \in Nat
        /\ k \in 1 .. Len(o.plan) /\ Len(o.plan) \in Nat
    BY DEF Orchestrator
  <1>2. t \in o.plan[k].tasks /\ t \in TaskNumbers
    <2>1. o.plan[k] \in Wave
      BY <1>1
    <2>2. QED
      BY <2>1 DEF Wave, OwnTasks
  <1>3. /\ k <= o.currentWave => Resolved(o, t)
        /\ k > o.currentWave + 1 => o.taskStates[t] = "pending"
    BY DEF InWaveOrder
  <1>4. CASE k = n.currentWave + 1
    BY <1>1, <1>4
  <1>5. CASE k # n.currentWave + 1
    <2>1. t \notin CurrentWaveTasks(n)
      <3>1. CASE PastLastWave(n)
        BY <3>1 DEF CurrentWaveTasks
      <3>2. CASE ~PastLastWave(n)
        <4>1. n.currentWave + 1 \in DOMAIN o.plan
          BY <1>1, <3>2 DEF PastLastWave
        <4>2. t \notin o.plan[n.currentWave + 1].tasks
          BY <1>5, <4>1 DEF OwnTasks
        <4>3. QED
          BY <3>2, <4>2 DEF CurrentWaveTasks
      <3>3. QED
        BY <3>1, <3>2
    <2>2. n.taskStates[t] = o.taskStates[t]
      BY <1>2, <2>1
    <2>3. CASE n.currentWave = o.currentWave
      BY <1>1, <1>3, <2>2, <2>3 DEF Resolved
    <2>4. CASE /\ n.currentWave = o.currentWave + 1
               /\ \A u \in CurrentWaveTasks(o) : Resolved(o, u)
      <3>1. CASE k = o.currentWave + 1
        <4>1. t \in CurrentWaveTasks(o)
          BY <1>1, <1>2, <3>1 DEF CurrentWaveTasks, PastLastWave
        <4>2. QED
          BY <1>1, <2>2, <2>4, <3>1, <4>1 DEF Resolved
      <3>2. CASE k # o.currentWave + 1
        BY <1>1, <1>3, <2>2, <2>4, <3>2 DEF Resolved
      <3>3. QED
        BY <3>1, <3>2
    <2>5. QED
      BY <2>3, <2>4
  <1>6. QED
    BY <1>4, <1>5

\* What one method call does to the statuses: nothing, some tasks of the wave it
\* leaves current begin, or one running task of the current wave ends.
StatusStep(o, n) ==
    \/ n.taskStates = o.taskStates
    \/ \E S \in SUBSET CurrentWaveTasks(n) :
          n.taskStates = [t \in TaskNumbers |-> IF t \in S THEN "running" ELSE o.taskStates[t]]
    \/ \E t \in CurrentWaveTasks(o), result \in {"complete", "failed"} :
          /\ o.taskStates[t] = "running"
          /\ n.currentWave = o.currentWave
          /\ n.taskStates = [u \in TaskNumbers |-> IF u = t THEN result ELSE o.taskStates[u]]

\* What one method call does to an orchestrator.
Follows(o, n) ==
    /\ n \in Orchestrator
    /\ n.plan = o.plan
    /\ \/ n.currentWave = o.currentWave
       \/ /\ n.currentWave = o.currentWave + 1
          /\ \A t \in CurrentWaveTasks(o) : Resolved(o, t)
    /\ StatusStep(o, n)

\* Two orchestrators with the same plan and current wave have the same tasks.
LEMMA SameWaveSameTasks ==
    ASSUME NEW o, NEW n, n.plan = o.plan, n.currentWave = o.currentWave
    PROVE  CurrentWaveTasks(n) = CurrentWaveTasks(o) /\ (PastLastWave(n) <=> PastLastWave(o))
  BY DEF CurrentWaveTasks, PastLastWave

\* checkWaveComplete assigns nothing but the state.
LEMMA CheckWaveCompleteFrame ==
    ASSUME NEW o \in Orchestrator
    PROVE  /\ CheckWaveComplete(o).plan = o.plan
           /\ CheckWaveComplete(o).currentWave = o.currentWave
           /\ CheckWaveComplete(o).taskStates = o.taskStates
           /\ CheckWaveComplete(o).waitingForConfirm = o.waitingForConfirm
  <1> DEFINE over == IF o.currentWave + 1 >= Len(o.plan)
                     THEN "allComplete" ELSE "waveComplete"
  <1>1. over \in WaveState
    BY DEF WaveState
  <1>2. CheckWaveComplete(o) = o \/ CheckWaveComplete(o) = [o EXCEPT !.state = over]
    BY DEF CheckWaveComplete
  <1>3. [o EXCEPT !.state = over] =
           [plan |-> o.plan, state |-> over, currentWave |-> o.currentWave,
            taskStates |-> o.taskStates, waitingForConfirm |-> o.waitingForConfirm]
    BY <1>1, SetStateType
  <1> HIDE DEF over
  <1>4. QED
    BY <1>2, <1>3

\* StartNextWave begins the tasks of one wave.
LEMMA StartNextWaveFollows ==
    ASSUME NEW o, WellFormed(o)
    PROVE  Follows(o, StartNextWave(o))
  <1>1. o \in Orchestrator
    BY DEF WellFormed
  <1>2. StartNextWave(o) \in Orchestrator
    BY StartNextWaveWellFormed DEF WellFormed
  <1>3. CASE o.state = "allComplete"
    BY <1>1, <1>3 DEF StartNextWave, Follows, StatusStep
  <1>4. CASE o.state # "allComplete"
    <2> DEFINE e == EnterNextWave(o)
               s == StartCurrentWave(e)
    <2>1. /\ e \in Orchestrator
          /\ e.plan = o.plan
          /\ e.taskStates = o.taskStates
          /\ o.state # "waveComplete" => e = o
          /\ o.state = "waveComplete" => e.currentWave = o.currentWave + 1
      BY EnterNextWaveFacts
    <2>2. StartNextWave(o) = s
      BY <1>4 DEF StartNextWave
    <2>3. \/ e.currentWave = o.currentWave
          \/ /\ e.currentWave = o.currentWave + 1
             /\ \A t \in CurrentWaveTasks(o) : Resolved(o, t)
      BY <2>1 DEF WellFormed
    <2> HIDE DEF e
    <2>4. CASE PastLastWave(e)
      <3>1. s = [e EXCEPT !.state = "allComplete"]
        BY <2>4 DEF StartCurrentWave
      <3>2. /\ s.plan = e.plan /\ s.currentWave = e.currentWave
            /\ s.taskStates = e.taskStates
        BY <2>1, <3>1, SetStateType DEF WaveState
      <3> HIDE DEF s
      <3>3. QED
        BY <1>2, <2>1, <2>2, <2>3, <3>2 DEF Follows, StatusStep
    <2>5. CASE ~PastLastWave(e)
      <3> DEFINE C == CurrentWaveTasks(e)
                 m == SetTasks(e, C, "running")
      <3>1. s = [m EXCEPT !.state = "running"]
        BY <2>5 DEF StartCurrentWave
      <3>2. /\ m \in Orchestrator
            /\ m.plan = e.plan /\ m.currentWave = e.currentWave
        BY <2>1, SetTasksType DEF TaskStatus
      <3>3. m.taskStates = [t \in TaskNumbers |-> IF t \in C THEN "running" ELSE e.taskStates[t]]
        BY <2>1 DEF SetTasks, Orchestrator
      <3> HIDE DEF m
      <3>4. /\ s.plan = m.plan /\ s.currentWave = m.currentWave
            /\ s.taskStates = m.taskStates
        BY <3>1, <3>2, SetStateType DEF WaveState
      <3>5. CurrentWaveTasks(s) = C
        BY <3>2, <3>4, SameWaveSameTasks
      <3> HIDE DEF s
      <3>6. StatusStep(o, s)
        BY <2>1, <3>3, <3>4, <3>5 DEF StatusStep
      <3>7. QED
        BY <1>2, <2>1, <2>2, <2>3, <3>2, <3>4, <3>6 DEF Follows
    <2>6. QED
      BY <2>4, <2>5
  <1>5. QED
    BY <1>3, <1>4

\* MarkTaskComplete and MarkTaskFailed end one task.
LEMMA MarkTaskFollows ==
    ASSUME NEW o, WellFormed(o), NEW t \in TaskNumbers, NEW st \in {"complete", "failed"}
    PROVE  Follows(o, MarkTask(o, t, st))
  <1>1. o \in Orchestrator
    BY DEF WellFormed
  <1>2. MarkTask(o, t, st) \in Orchestrator
    BY MarkTaskWellFormed DEF WellFormed
  <1>3. CASE o.taskStates[t] # "running"
    BY <1>1, <1>3 DEF MarkTask, Follows, StatusStep
  <1>4. CASE o.taskStates[t] = "running"
    <2> DEFINE m == SetTasks(o, {t}, st)
               c == CheckWaveComplete(m)
    <2>1. MarkTask(o, t, st) = c
      BY <1>4 DEF MarkTask
    <2>2. m \in Orchestrator /\ m.plan = o.plan /\ m.currentWave = o.currentWave
      BY <1>1, SetTasksType DEF TaskStatus
    <2>3. m.taskStates = [u \in TaskNumbers |-> IF u = t THEN st ELSE o.taskStates[u]]
      BY <1>1 DEF SetTasks, Orchestrator
    <2> HIDE DEF m
    <2>4. /\ c.plan = m.plan /\ c.currentWave = m.currentWave
          /\ c.taskStates = m.taskStates
      BY <2>2, CheckWaveCompleteFrame
    <2> HIDE DEF c
    <2>5. t \in CurrentWaveTasks(o)
      BY <1>4 DEF WellFormed, IsTaskRunning
    <2>6. StatusStep(o, c)
      BY <1>4, <2>2, <2>3, <2>4, <2>5 DEF StatusStep
    <2>7. QED
      BY <1>2, <2>1, <2>2, <2>4, <2>6 DEF Follows
  <1>5. QED
    BY <1>3, <1>4

\* The confirmation latch changes no status and no wave.
LEMMA ConfirmFollows ==
    ASSUME NEW o, WellFormed(o)
    PROVE  Follows(o, TakeConfirm(o)) /\ Follows(o, ResetConfirm(o))
  <1>1. o \in Orchestrator
    BY DEF WellFormed
  <1>2. ASSUME NEW b \in BOOLEAN
        PROVE  Follows(o, [o EXCEPT !.waitingForConfirm = b])
    <2> DEFINE c == [o EXCEPT !.waitingForConfirm = b]
    <2>1. /\ c = [plan |-> o.plan, state |-> o.state, currentWave |-> o.currentWave,
                  taskStates |-> o.taskStates, waitingForConfirm |-> b]
          /\ c \in Orchestrator
      BY <1>1, SetLatchType
    <2> HIDE DEF c
    <2>2. c.plan = o.plan /\ c.currentWave = o.currentWave /\ c.taskStates = o.taskStates
      BY <2>1
    <2>3. Follows(o, c)
      BY <2>1, <2>2 DEF Follows, StatusStep
    <2>4. QED
      BY <2>3 DEF c
  <1>3. o.waitingForConfirm \/ NeedsConfirm(o) \in BOOLEAN
    BY <1>1 DEF Orchestrator, NeedsConfirm
  <1>4. QED
    BY <1>2, <1>3 DEF TakeConfirm, ResetConfirm

\* RetryFailedTasks begins failed tasks of the current wave again.
LEMMA RetryFollows ==
    ASSUME NEW o, WellFormed(o)
    PROVE  Follows(o, RetryFailedTasks(o))
  <1>1. o \in Orchestrator
    BY DEF WellFormed
  <1>2. RetryFailedTasks(o) \in Orchestrator
    BY RetryWellFormed DEF WellFormed
  <1> DEFINE F == TasksWith(o, "failed")
             s == SetTasks(o, F, "running")
             u == [s EXCEPT !.state = "running"]
             r == [u EXCEPT !.waitingForConfirm = FALSE]
  <1>3. CASE F = {}
    BY <1>1, <1>3 DEF RetryFailedTasks, Follows, StatusStep
  <1>4. CASE F # {}
    <2>1. RetryFailedTasks(o) = r
      BY <1>4 DEF RetryFailedTasks, ResetConfirm
    <2>2. s \in Orchestrator /\ s.plan = o.plan /\ s.currentWave = o.currentWave
      BY <1>1, SetTasksType DEF TaskStatus
    <2>3. s.taskStates = [t \in TaskNumbers |-> IF t \in F THEN "running" ELSE o.taskStates[t]]
      BY <1>1 DEF SetTasks, Orchestrator
    <2> HIDE DEF s
    <2>4. /\ u \in Orchestrator
          /\ u.plan = s.plan /\ u.currentWave = s.currentWave
          /\ u.taskStates = s.taskStates
      <3>1. /\ u = [plan |-> s.plan, state |-> "running", currentWave |-> s.currentWave,
                     taskStates |-> s.taskStates, waitingForConfirm |-> s.waitingForConfirm]
            /\ u \in Orchestrator
        BY <2>2, SetStateType DEF WaveState
      <3> HIDE DEF u
      <3>2. QED
        BY <3>1
    <2> HIDE DEF u
    <2>5. \A b \in BOOLEAN :
             /\ [u EXCEPT !.waitingForConfirm = b].plan = u.plan
             /\ [u EXCEPT !.waitingForConfirm = b].currentWave = u.currentWave
             /\ [u EXCEPT !.waitingForConfirm = b].taskStates = u.taskStates
      BY <2>4, SetLatchType
    <2>6. r.plan = u.plan /\ r.currentWave = u.currentWave /\ r.taskStates = u.taskStates
      BY <2>5, Zenon
    <2>7. CurrentWaveTasks(r) = CurrentWaveTasks(o)
      BY <2>2, <2>4, <2>6, SameWaveSameTasks
    <2> HIDE DEF r
    <2>8. F \in SUBSET CurrentWaveTasks(r)
      BY <2>7 DEF TasksWith
    <2>9. StatusStep(o, r)
      BY <2>3, <2>4, <2>6, <2>8 DEF StatusStep
    <2>10. QED
      BY <1>2, <2>1, <2>2, <2>4, <2>6, <2>9 DEF Follows
  <1>5. QED
    BY <1>3, <1>4

\* A method call keeps the waves in order.
LEMMA FollowsInWaveOrder ==
    ASSUME NEW o, WellFormed(o), InWaveOrder(o), NEW n, Follows(o, n)
    PROVE  InWaveOrder(n)
  <1>1. o \in Orchestrator /\ n \in Orchestrator /\ n.plan = o.plan
    BY DEF WellFormed, Follows
  <1>2. n.currentWave = o.currentWave => CurrentWaveTasks(n) = CurrentWaveTasks(o)
    BY <1>1, SameWaveSameTasks
  <1>3. \A t \in TaskNumbers \ CurrentWaveTasks(n) : n.taskStates[t] = o.taskStates[t]
    BY <1>1, <1>2 DEF Follows, StatusStep
  <1>4. QED
    BY <1>1, <1>3, InWaveOrderStep DEF Follows

\* The end of any running tasks at once, which is what a series of MarkTaskComplete
\* and MarkTaskFailed calls comes to.
LEMMA EndTasks ==
    ASSUME NEW o, WellFormed(o),
           NEW C, NEW F, C \cup F \subseteq TasksWith(o, "running"), C \cup F # {},
           NEW n, n = CheckWaveComplete(SetTasks(SetTasks(o, C, "complete"), F, "failed"))
    PROVE  /\ WellFormed(n)
           /\ n.plan = o.plan
           /\ n.currentWave = o.currentWave
           /\ ~n.waitingForConfirm
           /\ InWaveOrder(o) => InWaveOrder(n)
           /\ \A t \in TaskNumbers : n.taskStates[t] =
                 IF t \in F THEN "failed" ELSE IF t \in C THEN "complete" ELSE o.taskStates[t]
  <1>1. o \in Orchestrator
    BY DEF WellFormed
  <1> DEFINE c == SetTasks(o, C, "complete")
             m == SetTasks(c, F, "failed")
  <1>2. /\ c \in Orchestrator
        /\ c.plan = o.plan /\ c.state = o.state /\ c.currentWave = o.currentWave
        /\ c.waitingForConfirm = o.waitingForConfirm
        /\ \A t \in TaskNumbers : c.taskStates[t] =
              IF t \in C THEN "complete" ELSE o.taskStates[t]
    BY <1>1, SetTasksType DEF TaskStatus
  <1> HIDE DEF c
  <1>3. /\ m \in Orchestrator
        /\ m.plan = o.plan /\ m.state = o.state /\ m.currentWave = o.currentWave
        /\ m.waitingForConfirm = o.waitingForConfirm
        /\ \A t \in TaskNumbers : m.taskStates[t] =
              IF t \in F THEN "failed" ELSE IF t \in C THEN "complete" ELSE o.taskStates[t]
    BY <1>2, SetTasksType DEF TaskStatus
  <1>4. n = CheckWaveComplete(m)
    BY DEF c
  <1> HIDE DEF m
  <1>5. /\ CurrentWaveTasks(m) = CurrentWaveTasks(o)
        /\ PastLastWave(m) <=> PastLastWave(o)
        /\ CurrentWaveTasks(o) \subseteq TaskNumbers
    BY <1>1, <1>3, CurrentWaveTasksType DEF CurrentWaveTasks, PastLastWave
  <1>6. o.state = "running" /\ ~o.waitingForConfirm
    <2>1. PICK t \in CurrentWaveTasks(o) : o.taskStates[t] = "running"
      BY DEF TasksWith
    <2>2. t \in TaskNumbers
      BY <1>5, <2>1
    <2>3. o.state = "running"
      BY <1>1, <2>1, <2>2 DEF WellFormed, Resolved, Orchestrator, WaveState
    <2>4. QED
      BY <2>3 DEF WellFormed
  <1>7. m.currentWave < Len(m.plan)
    BY <1>3, <1>6 DEF WellFormed
  <1>8. \A u \in CurrentWaveTasks(m) : m.taskStates[u] # "pending"
    BY <1>3, <1>5, <1>6 DEF WellFormed
  <1>9. \A u \in TaskNumbers : m.taskStates[u] = "running" => u \in CurrentWaveTasks(m)
    BY <1>3, <1>5 DEF WellFormed, IsTaskRunning
  <1>10. WellFormed(n)
    BY <1>3, <1>4, <1>6, <1>7, <1>8, <1>9, CheckWaveCompleteWellFormed
  <1>11. n \in Orchestrator
    BY <1>10 DEF WellFormed
  <1>12. /\ n.plan = o.plan /\ n.currentWave = o.currentWave
         /\ n.taskStates = m.taskStates /\ ~n.waitingForConfirm
    BY <1>3, <1>4, <1>6, CheckWaveCompleteFrame
  <1>13. CurrentWaveTasks(n) = CurrentWaveTasks(o)
    BY <1>12, SameWaveSameTasks
  <1>14. C \cup F \subseteq CurrentWaveTasks(o)
    BY DEF TasksWith
  <1>15. \A t \in TaskNumbers \ CurrentWaveTasks(n) : n.taskStates[t] = o.taskStates[t]
    BY <1>3, <1>12, <1>13, <1>14
  <1>16. InWaveOrder(o) => InWaveOrder(n)
    BY <1>1, <1>11, <1>12, <1>15, InWaveOrderStep
  <1>17. QED
    BY <1>3, <1>10, <1>12, <1>16
=============================================================================
