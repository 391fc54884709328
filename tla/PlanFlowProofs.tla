---------------------------- MODULE PlanFlowProofs ----------------------------
(***************************************************************************)
(* The types of a plan's way through its agents, and that a planner's end  *)
(* is put to the user, for every bound on the user's acts and the agents'  *)
(* reports. What the types hold more than ranges is that a plan has at     *)
(* most one planner, coder and reviewer: a handler adds an agent at the    *)
(* end of the list, and where the agent has to be alone, none of its kind  *)
(* is on the list then (StartedOK).                                        *)
(***************************************************************************)
EXTENDS PlanFlow, SharedProofs

\* The kinds a plan has one agent of, and what a list and a home model have to keep.
Lone == {"planner", "coder", "reviewer"}

AtMostOne(agents) ==
    \A i, j \in DOMAIN agents :
       agents[i].kind = agents[j].kind /\ agents[i].kind \in Lone => i = j

HomeOK(h) == h \in Home /\ AtMostOne(h.agents)
----------------------------------------------------------------------------
(* The home model, field by field *)

\* The fields have their types.
LEMMA HomeFields ==
    ASSUME NEW h \in Home
    PROVE  /\ h.status \in Status /\ h.cached \in Status /\ h.agents \in Seq(Agent)
           /\ h.sessions \in SUBSET Kind /\ h.files \in SUBSET File
           /\ h.dialog \in {"none", "menu"} \cup Message
           /\ h.menu \in Status /\ h.captured \in Status
           /\ h.deferred \in Nat /\ h.owed \in Nat
           /\ h.orch \in {"none", "idle", "running"}
           /\ h.idle \in BOOLEAN /\ h.planner \in BOOLEAN /\ h.prompted \in BOOLEAN
           /\ h.planned \in BOOLEAN
BY DEF Home

\* A home model whose status, or what the TUI has of it, is another.
LEMMA StatusSet ==
    ASSUME NEW h, HomeOK(h), NEW s \in Status
    PROVE  /\ HomeOK([h EXCEPT !.status = s]) /\ HomeOK([h EXCEPT !.cached = s])
           /\ HomeOK([h EXCEPT !.captured = s]) /\ HomeOK([h EXCEPT !.menu = s])
<1>1. /\ [h EXCEPT !.status = s] \in Home /\ [h EXCEPT !.status = s].agents = h.agents
      /\ [h EXCEPT !.cached = s] \in Home /\ [h EXCEPT !.cached = s].agents = h.agents
  BY DEF HomeOK, Home
<1>2. /\ [h EXCEPT !.captured = s] \in Home /\ [h EXCEPT !.captured = s].agents = h.agents
      /\ [h EXCEPT !.menu = s] \in Home /\ [h EXCEPT !.menu = s].agents = h.agents
  BY DEF HomeOK, Home
<1> QED BY <1>1, <1>2 DEF HomeOK

\* One with other sessions or files.
LEMMA SetsSet ==
    ASSUME NEW h, HomeOK(h), NEW S \in SUBSET Kind, NEW F \in SUBSET File
    PROVE  HomeOK([h EXCEPT !.sessions = S]) /\ HomeOK([h EXCEPT !.files = F])
<1>1. /\ [h EXCEPT !.sessions = S] \in Home /\ [h EXCEPT !.sessions = S].agents = h.agents
      /\ [h EXCEPT !.files = F] \in Home /\ [h EXCEPT !.files = F].agents = h.agents
  BY DEF HomeOK, Home
<1> QED BY <1>1 DEF HomeOK

\* One with another flag.
LEMMA FlagSet ==
    ASSUME NEW h, HomeOK(h), NEW b \in BOOLEAN
    PROVE  /\ HomeOK([h EXCEPT !.idle = b]) /\ HomeOK([h EXCEPT !.planner = b])
           /\ HomeOK([h EXCEPT !.prompted = b]) /\ HomeOK([h EXCEPT !.planned = b])
<1>1. /\ [h EXCEPT !.idle = b] \in Home /\ [h EXCEPT !.idle = b].agents = h.agents
      /\ [h EXCEPT !.planner = b] \in Home /\ [h EXCEPT !.planner = b].agents = h.agents
  BY DEF HomeOK, Home
<1>2. /\ [h EXCEPT !.prompted = b] \in Home /\ [h EXCEPT !.prompted = b].agents = h.agents
      /\ [h EXCEPT !.planned = b] \in Home /\ [h EXCEPT !.planned = b].agents = h.agents
  BY DEF HomeOK, Home
<1> QED BY <1>1, <1>2 DEF HomeOK

\* One with another dialog or orchestrator, or other counts.
LEMMA RestSet ==
    ASSUME NEW h, HomeOK(h), NEW d \in {"none", "menu"} \cup Message, NEW n \in Nat,
           NEW o \in {"none", "idle", "running"}
    PROVE  /\ HomeOK([h EXCEPT !.dialog = d]) /\ HomeOK([h EXCEPT !.orch = o])
           /\ HomeOK([h EXCEPT !.deferred = n]) /\ HomeOK([h EXCEPT !.owed = n])
<1>1. /\ [h EXCEPT !.dialog = d] \in Home /\ [h EXCEPT !.dialog = d].agents = h.agents
      /\ [h EXCEPT !.orch = o] \in Home /\ [h EXCEPT !.orch = o].agents = h.agents
  BY DEF HomeOK, Home
<1>2. /\ [h EXCEPT !.deferred = n] \in Home /\ [h EXCEPT !.deferred = n].agents = h.agents
      /\ [h EXCEPT !.owed = n] \in Home /\ [h EXCEPT !.owed = n].agents = h.agents
  BY DEF HomeOK, Home
<1> QED BY <1>1, <1>2 DEF HomeOK

\* One with another list of agents.
LEMMA AgentsSet ==
    ASSUME NEW h, HomeOK(h), NEW ag \in Seq(Agent), AtMostOne(ag)
    PROVE  HomeOK([h EXCEPT !.agents = ag])
<1>1. [h EXCEPT !.agents = ag] \in Home /\ [h EXCEPT !.agents = ag].agents = ag
  BY DEF HomeOK, Home
<1> QED BY <1>1 DEF HomeOK

----------------------------------------------------------------------------
(* Lists of agents *)

\* A list with the kinds of another has as many of each.
LEMMA SameKinds ==
    ASSUME NEW ag \in Seq(Agent), AtMostOne(ag), NEW bs \in [DOMAIN ag -> Agent],
           \A i \in DOMAIN ag : bs[i].kind = ag[i].kind
    PROVE  bs \in Seq(Agent) /\ AtMostOne(bs)
<1>1. Len(ag) \in Nat /\ DOMAIN ag = 1 .. Len(ag) /\ DOMAIN bs = DOMAIN ag
  BY ONLY ag \in Seq(Agent), bs \in [DOMAIN ag -> Agent]
<1>2. bs \in Seq(Agent)
  <2> DEFINE n == Len(ag)
  <2>1. n \in Nat /\ bs \in [1 .. n -> Agent]
    BY <1>1
  <2> HIDE DEF n
  <2> QED BY ONLY <2>1
<1>3. AtMostOne(bs)
  <2> DEFINE D == DOMAIN ag
  <2>1. DOMAIN ag = D /\ DOMAIN bs = D
    BY <1>1
  <2>2. \A i \in D : bs[i].kind = ag[i].kind
    OBVIOUS
  <2> HIDE DEF D
  <2> QED BY ONLY <2>1, <2>2, AtMostOne(ag) DEF AtMostOne
<1> QED BY <1>2, <1>3

\* An agent that is alone comes to a list that has none of its kind.
LEMMA OneMore ==
    ASSUME NEW ag \in Seq(Agent), AtMostOne(ag), NEW a \in Agent,
           a.kind \in Lone => \A i \in DOMAIN ag : ag[i].kind # a.kind
    PROVE  Append(ag, a) \in Seq(Agent) /\ AtMostOne(Append(ag, a))
<1> DEFINE k == Len(ag)
           t == Append(ag, a)
<1>1. /\ t \in Seq(Agent) /\ k \in Nat /\ DOMAIN ag = 1 .. k /\ DOMAIN t = 1 .. k + 1
      /\ t[k + 1] = a
  BY ONLY ag \in Seq(Agent), a \in Agent
<1>2. \A j \in 1 .. k : t[j] = ag[j]
  OBVIOUS
<1> HIDE DEF k, t
<1>3. \A j \in 1 .. k + 1 : j \in 1 .. k \/ j = k + 1
  BY <1>1
<1>4. AtMostOne(t)
  <2> SUFFICES ASSUME NEW i \in 1 .. k + 1, NEW j \in 1 .. k + 1,
                      t[i].kind = t[j].kind, t[i].kind \in Lone
               PROVE  i = j
    BY <1>1 DEF AtMostOne
  <2>1. ASSUME i \in 1 .. k, j \in 1 .. k PROVE i = j
    BY <1>1, <1>2, <2>1 DEF AtMostOne
  <2>2. ASSUME i \in 1 .. k, j = k + 1 PROVE FALSE
    BY <1>1, <1>2, <2>2
  <2>3. ASSUME j \in 1 .. k, i = k + 1 PROVE FALSE
    BY <1>1, <1>2, <2>3
  <2> QED BY <1>3, <2>1, <2>2, <2>3
<1> QED BY <1>1, <1>4 DEF t

\* A part of a list has at most as many of each kind.
LEMMA OnlyOne ==
    ASSUME NEW ag \in Seq(Agent), AtMostOne(ag), NEW S
    PROVE  AtMostOne(Only(ag, S))
<1> DEFINE N == Len(ag)
<1>1. N \in Nat /\ DOMAIN ag = 1 .. N
  BY ONLY ag \in Seq(Agent)
<1>2. PICK f \in [0 .. N -> Seq(Agent)] : Takes(f, ag, S) /\ Only(ag, S) = f[N]
  BY OnlySteps
<1>3. /\ f[0] = << >>
      /\ \A k \in 1 .. N : f[k] = IF ag[k] \in S THEN Append(f[k - 1], ag[k]) ELSE f[k - 1]
  BY <1>2 DEF Takes
<1>4. \A k \in 1 .. N : ag[k] \in Agent
  BY ONLY ag \in Seq(Agent), <1>1
<1>5. \A k \in 0 .. N : f[k] \in Seq(Agent)
  BY <1>2
<1> HIDE DEF N
<1> DEFINE From(k) == \A i \in DOMAIN f[k] : \E j \in 1 .. k : f[k][i] = ag[j]
           I == {k \in Nat : k <= N => AtMostOne(f[k]) /\ From(k)}
<1>6. I \in SUBSET Nat
  OBVIOUS
<1>7. 0 \in I
  <2>1. f[0] = << >> /\ DOMAIN f[0] = {}
    BY <1>3
  <2>2. AtMostOne(f[0]) /\ From(0)
    BY <2>1 DEF AtMostOne
  <2> HIDE DEF From
  <2> QED BY <2>2
<1>8. ASSUME NEW k \in I PROVE k + 1 \in I
  <2>0. k \in Nat /\ (k <= N => AtMostOne(f[k]) /\ From(k))
    OBVIOUS
  <2> SUFFICES ASSUME k + 1 <= N PROVE AtMostOne(f[k + 1]) /\ From(k + 1)
    <3> HIDE DEF From
    <3> QED BY <2>0
  <2>1. /\ k \in Nat /\ k <= N /\ k \in 0 .. N /\ k + 1 \in 1 .. N /\ (k + 1) - 1 = k
        /\ AtMostOne(f[k]) /\ From(k)
    <3> HIDE DEF I, From
    <3> QED BY <1>1, <2>0
  <2>2. f[k] \in Seq(Agent) /\ ag[k + 1] \in Agent
    BY <1>4, <1>5, <2>1
  <2>3. f[k + 1] = IF ag[k + 1] \in S THEN Append(f[k], ag[k + 1]) ELSE f[k]
    BY <1>3, <2>1
  <2>4. \A j \in 1 .. k : j \in 1 .. k + 1 /\ j \in 1 .. N /\ j # k + 1
    BY <1>1, <2>1
  <2>5. k + 1 \in 1 .. k + 1
    BY <2>1
  <2>6. CASE ag[k + 1] \notin S
    <3>1. f[k + 1] = f[k]
      BY <2>3, <2>6
    <3>2. From(k + 1)
      BY <2>1, <2>4, <3>1
    <3> QED BY <2>1, <3>1, <3>2
  <2>7. CASE ag[k + 1] \in S
    <3> DEFINE a == ag[k + 1]
    <3>1. f[k + 1] = Append(f[k], a)
      BY <2>3, <2>7
    <3>2. ASSUME a.kind \in Lone, NEW i \in DOMAIN f[k] PROVE f[k][i].kind # a.kind
      <4>1. PICK j \in 1 .. k : f[k][i] = ag[j]
        BY <2>1
      <4>2. j # k + 1 /\ j \in DOMAIN ag /\ k + 1 \in DOMAIN ag
        BY <1>1, <2>1, <2>4
      <4>3. ag[j].kind # ag[k + 1].kind
        BY <3>2, <4>2 DEF AtMostOne
      <4> QED BY <4>1, <4>3
    <3>3. AtMostOne(f[k + 1])
      <4> HIDE DEF a, From
      <4>1. a \in Agent
        BY <2>2 DEF a
      <4> QED BY <2>1, <2>2, <3>1, <3>2, <4>1, OneMore
    <3>4. From(k + 1)
      <4>1. Len(f[k]) \in Nat /\ DOMAIN f[k] = 1 .. Len(f[k])
        BY <2>2
      <4>2. DOMAIN f[k + 1] = 1 .. Len(f[k]) + 1
        BY <2>2, <3>1
      <4>3. f[k + 1][Len(f[k]) + 1] = a
        BY ONLY <2>2, <3>1
      <4>4. \A i \in 1 .. Len(f[k]) : f[k + 1][i] = f[k][i]
        BY ONLY <2>2, <3>1
      <4>5. \A i \in 1 .. Len(f[k]) + 1 : i \in 1 .. Len(f[k]) \/ i = Len(f[k]) + 1
        BY <4>1
      <4>6. \A i \in DOMAIN f[k] : \E j \in 1 .. k + 1 : f[k][i] = ag[j]
        BY <2>1, <2>4
      <4> QED BY ONLY <2>5, <4>1, <4>2, <4>3, <4>4, <4>5, <4>6
    <3> QED BY <3>3, <3>4
  <2> QED BY <2>6, <2>7
<1> HIDE DEF I
<1>9. I = Nat
  BY <1>6, <1>7, <1>8, NatSetInduction
<1>10. N \in I /\ N <= N
  BY <1>1, <1>9
<1> QED BY <1>2, <1>10 DEF I

----------------------------------------------------------------------------
(* Agents *)

\* The agents that are left are of none of the killed kinds.
LEMMA KilledOK ==
    ASSUME NEW h, HomeOK(h), NEW kinds
    PROVE  HomeOK(Killed(h, kinds)) /\ Listed(Killed(h, kinds)) \cap kinds = {}
<1> DEFINE ag == h.agents
           S == {a \in Agent : a.kind \notin kinds}
           left == Only(ag, S)
           x == [h EXCEPT !.agents = left]
           ended == h.sessions \ (kinds \cap Listed(h))
<1>1. h \in Home /\ ag \in Seq(Agent) /\ AtMostOne(ag) /\ h.sessions \in SUBSET Kind
  BY HomeFields DEF HomeOK
<1>2. left \in Seq(Agent) /\ ToSet(left) = ToSet(ag) \cap S /\ AtMostOne(left)
  <2> HIDE DEF S, ag
  <2> QED BY <1>1, OnlyFacts, OnlyOne
<1>3. HomeOK(x)
  <2> HIDE DEF left
  <2> QED BY <1>2, AgentsSet
<1>4. ended \in SUBSET Kind /\ h.files \in SUBSET File
  BY <1>1, HomeFields
<1>5. HomeOK([x EXCEPT !.sessions = ended])
  <2> HIDE DEF x, ended
  <2> QED BY <1>3, <1>4, SetsSet
<1>6. /\ Killed(h, kinds) = [x EXCEPT !.sessions = ended]
      /\ Killed(h, kinds).agents = left
  BY <1>1 DEF Killed, Home
<1>7. ASSUME NEW i \in DOMAIN left PROVE left[i].kind \notin kinds
  <2>1. left[i] \in ToSet(left)
    BY DEF ToSet
  <2> QED BY <1>2, <2>1
<1> HIDE DEF left, x, ended
<1> QED BY <1>5, <1>6, <1>7 DEF Listed

\* A new agent joins, when it may.
LEMMA StartedOK ==
    ASSUME NEW h, HomeOK(h), NEW kind \in Kind, kind \in Lone => kind \notin Listed(h)
    PROVE  HomeOK(Started(h, kind))
<1> DEFINE ag == h.agents
           a == [kind |-> kind, paused |-> FALSE, complete |-> FALSE]
           x == [h EXCEPT !.agents = Append(ag, a)]
           S == h.sessions \cup {kind}
           b == h.idle /\ (kind # "task" \/ "task" \in h.sessions)
           F == IF kind \in TreeKinds THEN {f \in h.files : f.dir = "main"} ELSE h.files
           y == [x EXCEPT !.sessions = S]
           z == [y EXCEPT !.idle = b]
<1>1. h \in Home /\ ag \in Seq(Agent) /\ AtMostOne(ag)
  BY HomeFields DEF HomeOK
<1>2. a \in Agent /\ a.kind = kind
  BY DEF Agent
<1>3. kind \in Lone => \A i \in DOMAIN ag : ag[i].kind # kind
  BY DEF Listed
<1>4. Append(ag, a) \in Seq(Agent) /\ AtMostOne(Append(ag, a))
  <2> HIDE DEF ag, a
  <2> QED BY <1>1, <1>2, <1>3, OneMore
<1>5. HomeOK(x)
  <2> HIDE DEF ag, a
  <2> QED BY <1>4, AgentsSet
<1>6. /\ S \in SUBSET Kind /\ F \in SUBSET File /\ h.files \in SUBSET File
      /\ b \in BOOLEAN
  BY <1>1, HomeFields
<1>7. HomeOK(y)
  <2> HIDE DEF x, S, F
  <2> QED BY <1>5, <1>6, SetsSet
<1>8. HomeOK(z)
  <2> HIDE DEF y, b
  <2> QED BY <1>6, <1>7, FlagSet
<1>9. HomeOK([z EXCEPT !.files = F])
  <2> HIDE DEF z, F, S
  <2> QED BY <1>6, <1>8, SetsSet
<1>10. Started(h, kind) = [z EXCEPT !.files = F]
  BY <1>1 DEF Started, Home
<1> QED BY <1>9, <1>10

\* The first of some agents is one of them.
LEMMA FirstIsOne ==
    ASSUME NEW ag \in Seq(Agent), NEW S \in SUBSET DOMAIN ag, S # {}
    PROVE  LET first == CHOOSE i \in S : \A j \in S : i <= j IN first \in DOMAIN ag
<1>1. S \in SUBSET Nat
  <2>1. DOMAIN ag = 1 .. Len(ag) /\ Len(ag) \in Nat
    BY ONLY ag \in Seq(Agent)
  <2> QED BY <2>1
<1>2. \E i \in S : \A j \in S : i <= j
  BY <1>1, NatMin
<1> QED BY <1>2

\* An agent, if there is one at this place, has other flags.
LEMMA FlagsSet ==
    ASSUME NEW h, HomeOK(h), NEW i, NEW p \in BOOLEAN, NEW c \in BOOLEAN
    PROVE  /\ HomeOK([h EXCEPT !.agents[i].paused = p, !.agents[i].complete = c])
           /\ HomeOK([h EXCEPT !.agents[i].paused = p])
           /\ HomeOK([h EXCEPT !.agents[i].complete = c])
<1> DEFINE ag == h.agents
           b1 == [ag EXCEPT ![i].paused = p, ![i].complete = c]
           b2 == [ag EXCEPT ![i].paused = p]
           b3 == [ag EXCEPT ![i].complete = c]
<1>1. h \in Home /\ ag \in Seq(Agent) /\ AtMostOne(ag)
  BY HomeFields DEF HomeOK
<1>2. \A j \in DOMAIN ag : ag[j] \in Agent
  BY <1>1
<1>3. /\ b1 \in [DOMAIN ag -> Agent] /\ \A j \in DOMAIN ag : b1[j].kind = ag[j].kind
      /\ b2 \in [DOMAIN ag -> Agent] /\ \A j \in DOMAIN ag : b2[j].kind = ag[j].kind
      /\ b3 \in [DOMAIN ag -> Agent] /\ \A j \in DOMAIN ag : b3[j].kind = ag[j].kind
  BY <1>2 DEF Agent
<1>4. /\ b1 \in Seq(Agent) /\ AtMostOne(b1) /\ b2 \in Seq(Agent) /\ AtMostOne(b2)
      /\ b3 \in Seq(Agent) /\ AtMostOne(b3)
  <2> HIDE DEF ag, b1, b2, b3
  <2> QED BY <1>1, <1>3, SameKinds
<1>5. /\ HomeOK([h EXCEPT !.agents = b1]) /\ HomeOK([h EXCEPT !.agents = b2])
      /\ HomeOK([h EXCEPT !.agents = b3])
  <2> HIDE DEF b1, b2, b3
  <2> QED BY <1>4, AgentsSet
<1>6. /\ [h EXCEPT !.agents[i].paused = p, !.agents[i].complete = c]
            = [h EXCEPT !.agents = b1]
      /\ [h EXCEPT !.agents[i].paused = p] = [h EXCEPT !.agents = b2]
      /\ [h EXCEPT !.agents[i].complete = c] = [h EXCEPT !.agents = b3]
  BY <1>1 DEF Home
<1> QED BY <1>5, <1>6

\* The first agent of some kinds is paused, perhaps with its work complete.
LEMMA PausedFirstOK ==
    ASSUME NEW h, HomeOK(h), NEW kinds, NEW complete \in BOOLEAN
    PROVE  HomeOK(PausedFirst(h, kinds, complete))
<1> DEFINE ag == h.agents
           S == {i \in DOMAIN ag : ag[i].kind \in kinds}
           first == CHOOSE i \in S : \A j \in S : i <= j
           c == ag[first].complete \/ complete
<1>1. h \in Home /\ ag \in Seq(Agent)
  BY HomeFields DEF HomeOK
<1>2. CASE S = {}
  BY <1>2 DEF PausedFirst
<1>3. CASE S # {}
  <2>1. first \in DOMAIN ag
    <3>1. S \in SUBSET DOMAIN ag
      OBVIOUS
    <3> HIDE DEF S, ag
    <3> QED BY <1>1, <1>3, <3>1, FirstIsOne
  <2>2. c \in BOOLEAN
    OBVIOUS
  <2>3. PausedFirst(h, kinds, complete)
           = [h EXCEPT !.agents[first].paused = TRUE, !.agents[first].complete = c]
    <3>1. PausedFirst(h, kinds, complete)
             = [h EXCEPT !.agents[first].paused = TRUE,
                         !.agents[first].complete = @ \/ complete]
      BY <1>3 DEF PausedFirst
    <3>2. ag[first] \in Agent
      <4> HIDE DEF ag, first
      <4> QED BY <1>1, <2>1
    <3> HIDE DEF first
    <3>3. [h EXCEPT !.agents[first].paused = TRUE,
                    !.agents[first].complete = @ \/ complete]
             = [h EXCEPT !.agents[first].paused = TRUE, !.agents[first].complete = c]
      BY <1>1, <2>1, <3>2 DEF Home, Agent
    <3> QED BY <3>1, <3>3
  <2> HIDE DEF first, c
  <2>4. HomeOK([h EXCEPT !.agents[first].paused = TRUE, !.agents[first].complete = c])
    BY <2>1, <2>2, FlagsSet
  <2> QED BY <2>3, <2>4
<1> QED BY <1>2, <1>3

\* The spawns kill what is of the new agent's kind, where it has to be alone.
LEMMA SpawnedOK ==
    ASSUME NEW h, HomeOK(h)
    PROVE  /\ HomeOK(SpawnedReviewer(h)) /\ HomeOK(SpawnedCoder(h))
           /\ \A kind \in Kind : HomeOK(SpawnedAgent(h, kind))
<1>1. HomeOK(SpawnedReviewer(h))
  <2>1. HomeOK(Killed(h, {"reviewer"})) /\ "reviewer" \notin Listed(Killed(h, {"reviewer"}))
    BY KilledOK
  <2>2. HomeOK(Started(Killed(h, {"reviewer"}), "reviewer"))
    BY <2>1, StartedOK DEF Kind
  <2> QED BY <2>2 DEF SpawnedReviewer
<1>2. HomeOK(SpawnedCoder(h))
  <2>1. HomeOK(Killed(h, CoderKinds)) /\ "coder" \notin Listed(Killed(h, CoderKinds))
    BY KilledOK DEF CoderKinds
  <2>2. HomeOK(Started(Killed(h, CoderKinds), "coder"))
    BY <2>1, StartedOK DEF Kind
  <2> QED BY <2>2 DEF SpawnedCoder
<1>3. ASSUME NEW kind \in Kind PROVE HomeOK(SpawnedAgent(h, kind))
  <2> DEFINE x == Killed(h, {kind} \ {"solo"})
  <2>1. HomeOK(x) /\ Listed(x) \cap ({kind} \ {"solo"}) = {}
    BY KilledOK
  <2>2. kind \in Lone => kind \notin Listed(x)
    <3> HIDE DEF x
    <3> QED BY <2>1 DEF Lone
  <2>3. HomeOK(Started(x, kind))
    <3> HIDE DEF x
    <3> QED BY <2>1, <2>2, StartedOK
  <2> QED BY <2>3 DEF SpawnedAgent
<1> QED BY <1>1, <1>2, <1>3

----------------------------------------------------------------------------
(* Walks through the lifecycle *)

\* A transition that is allowed leads to a status.
LEMMA NextStatus ==
    ASSUME NEW s, NEW e, Allowed(s, e)
    PROVE  ApplyTransition(s, e) \in Status
<1>1. \E edge \in TransitionTable : edge[1] = s /\ edge[2] = e
  BY DEF Allowed
<1> DEFINE edge == CHOOSE x \in TransitionTable : x[1] = s /\ x[2] = e
<1>2. edge \in TransitionTable
  BY <1>1
<1>3. \A x \in TransitionTable : x[3] \in Status
  BY DEF TransitionTable, Status
<1> QED BY <1>2, <1>3 DEF ApplyTransition

\* What a walk goes through.
Walk == [home : {h \in Home : AtMostOne(h.agents)}, ok : BOOLEAN]

\* A step of it.
LEMMA SentOK ==
    ASSUME NEW w \in Walk, NEW e
    PROVE  Sent(w, e) \in Walk
<1>1. HomeOK(w.home) /\ w.ok \in BOOLEAN /\ w = [home |-> w.home, ok |-> w.ok]
  BY DEF Walk, HomeOK
<1>2. CASE w.ok /\ Allowed(w.home.status, e)
  <2> DEFINE h == w.home
             s == ApplyTransition(h.status, e)
             x == [h EXCEPT !.status = s]
  <2>1. s \in Status
    BY <1>2, NextStatus
  <2>2. HomeOK(x)
    <3> HIDE DEF s, h
    <3> QED BY <1>1, <2>1, StatusSet DEF h
  <2>3. Sent(w, e) = [home |-> x, ok |-> w.ok]
    <3>1. Sent(w, e) = [w EXCEPT !.home.status = ApplyTransition(@, e)]
      BY <1>2 DEF Sent
    <3>2. w.home \in Home
      BY <1>1 DEF HomeOK
    <3> QED BY <1>1, <3>1, <3>2 DEF Walk, Home
  <2> HIDE DEF x
  <2> QED BY <1>1, <2>2, <2>3 DEF Walk, HomeOK
<1>3. CASE ~(w.ok /\ Allowed(w.home.status, e))
  <2>1. Sent(w, e) = [w EXCEPT !.ok = FALSE]
    BY <1>3 DEF Sent
  <2> QED BY <2>1 DEF Walk
<1> QED BY <1>2, <1>3

\* The recursion of Walked.
LEMMA WalkedSteps ==
    ASSUME NEW h, HomeOK(h), NEW events, Len(events) \in Nat
    PROVE  \E g : /\ g[0] = [home |-> h, ok |-> TRUE]
                  /\ \A k \in 1 .. Len(events) : g[k] = Sent(g[k - 1], events[k])
                  /\ \A k \in 0 .. Len(events) : g[k] \in Walk
                  /\ Walked(h, events) = g[Len(events)]
<1> DEFINE N == Len(events)
           base == [home |-> h, ok |-> TRUE]
           step == [k \in 1 .. N |-> [w \in Walk |-> Sent(w, events[k])]]
           Eqn(f) == f = [k \in 0 .. N |-> IF k = 0 THEN base ELSE Sent(f[k - 1], events[k])]
<1>1. N \in Nat /\ base \in Walk
  BY DEF Walk, HomeOK
<1>2. \A k \in 1 .. N : \A w \in Walk : Sent(w, events[k]) \in Walk
  BY SentOK
<1>3. Walked(h, events) = (CHOOSE g : Eqn(g))[N]
  BY DEF Walked
<1> HIDE DEF N, base
<1>4. step \in [1 .. N -> [Walk -> Walk]]
  BY <1>2
<1>5. PICK f : DefinedBySteps(f, N, Walk, base, step)
  <2> HIDE DEF step
  <2> QED BY <1>1, <1>4, Recursion
<1>6. /\ f \in [0 .. N -> Walk] /\ f[0] = base
      /\ \A k \in 1 .. N : f[k] = Sent(f[k - 1], events[k])
  <2>1. /\ f \in [0 .. N -> Walk] /\ f[0] = base
        /\ \A k \in 1 .. N : f[k] = step[k][f[k - 1]]
    BY <1>5 DEF DefinedBySteps
  <2>2. \A k \in 1 .. N : k - 1 \in 0 .. N
    BY <1>1
  <2> QED BY <2>1, <2>2
<1>7. Eqn(f)
  <2>1. \A k \in 0 .. N : f[k] = IF k = 0 THEN base ELSE Sent(f[k - 1], events[k])
    BY <1>1, <1>6
  <2> QED BY <1>6, <2>1
<1> DEFINE g == CHOOSE x : Eqn(x)
<1>8. Eqn(g)
  <2> HIDE DEF Eqn
  <2> QED BY <1>7
<1>9. Walked(h, events) = g[N]
  BY <1>3
<1> HIDE DEF g
<1>10. \A k \in 0 .. N : g[k] = IF k = 0 THEN base ELSE Sent(g[k - 1], events[k])
  BY <1>8
<1>11. g[0] = base /\ \A k \in 1 .. N : g[k] = Sent(g[k - 1], events[k])
  BY <1>1, <1>10
<1>12. \A k \in 0 .. N : g[k] \in Walk
  <2>1. \A k \in 1 .. N : g[k - 1] \in Walk => g[k] \in Walk
    BY <1>2, <1>11
  <2>2. g[0] \in Walk
    BY <1>1, <1>11
  <2> QED BY <1>1, <2>1, <2>2, StaysIn
<1> QED BY <1>9, <1>11, <1>12 DEF N, base

\* Where a walk of any events ends.
LEMMA WalkedOK ==
    ASSUME NEW h, HomeOK(h), NEW events, Len(events) \in Nat
    PROVE  HomeOK(Walked(h, events).home) /\ Walked(h, events).ok \in BOOLEAN
<1> DEFINE N == Len(events)
<1>1. PICK g : (\A k \in 0 .. N : g[k] \in Walk) /\ Walked(h, events) = g[N]
  BY WalkedSteps
<1>2. g[N] \in Walk
  <2>1. N \in Nat
    OBVIOUS
  <2> HIDE DEF N
  <2> QED BY <1>1, <2>1
<1> QED BY <1>1, <1>2 DEF Walk, HomeOK

\* What the handlers send are sequences of events.
LEMMA WalkLengths ==
    /\ \A e : Len(<<e>>) \in Nat
    /\ \A c : /\ Len(SetImplementingWalk(c)) \in Nat
              /\ Len(SetReviewingWalk(c)) \in Nat
              /\ Len(RevertToPlanningWalk(c)) \in Nat
              /\ Len(ForceToPlanningWalk(c)) \in Nat
    /\ \A s, c : Len(MarkDoneWalk(s, c)) \in Nat
<1>1. \A e : Len(<<e>>) \in Nat
  OBVIOUS
<1>0. \A e, d \in Event : <<e, d>> \in Seq(Event) /\ <<e>> \in Seq(Event)
  OBVIOUS
<1>2. \A c : SetImplementingWalk(c) \in Seq(Event)
  <2>1. /\ << >> \in Seq(Event) /\ <<"implement_start">> \in Seq(Event)
        /\ <<"planner_finished", "implement_start">> \in Seq(Event)
    BY <1>0 DEF Event
  <2> QED BY <2>1 DEF SetImplementingWalk
<1>3. \A q \in Seq(Event), e \in Event : q \o <<e>> \in Seq(Event)
  OBVIOUS
<1>4. \A c : SetReviewingWalk(c) \in Seq(Event)
  <2> SUFFICES ASSUME NEW c PROVE SetReviewingWalk(c) \in Seq(Event)
    OBVIOUS
  <2>1. << >> \in Seq(Event) /\ <<"implement_finished">> \in Seq(Event)
    BY DEF Event
  <2>2. SetImplementingWalk(c) \o <<"implement_finished">> \in Seq(Event)
    BY <1>2, <1>3 DEF Event
  <2> QED BY <2>1, <2>2 DEF SetReviewingWalk
<1>5. \A s, c : MarkDoneWalk(s, c) \in Seq(Event)
  <2> SUFFICES ASSUME NEW s, NEW c PROVE MarkDoneWalk(s, c) \in Seq(Event)
    OBVIOUS
  <2>1. << >> \in Seq(Event) /\ <<"review_approved">> \in Seq(Event)
    BY DEF Event
  <2>2. SetReviewingWalk(c) \o <<"review_approved">> \in Seq(Event)
    BY <1>3, <1>4 DEF Event
  <2> QED BY <2>1, <2>2 DEF MarkDoneWalk
<1>6. \A c : RevertToPlanningWalk(c) \in Seq(Event) /\ ForceToPlanningWalk(c) \in Seq(Event)
  <2>1. /\ << >> \in Seq(Event) /\ <<"reopen">> \in Seq(Event)
        /\ <<"start_over">> \in Seq(Event) /\ <<"cancel", "reopen">> \in Seq(Event)
    BY <1>0 DEF Event
  <2> QED BY <2>1 DEF RevertToPlanningWalk, ForceToPlanningWalk
<1>7. \A q \in Seq(Event) : Len(q) \in Nat
  OBVIOUS
<1> QED BY <1>1, <1>2, <1>4, <1>5, <1>6, <1>7

\* The cache is loaded anew.
LEMMA ReloadedOK ==
    ASSUME NEW h, HomeOK(h)
    PROVE  HomeOK(Reloaded(h))
<1>1. h.status \in Status
  BY HomeFields DEF HomeOK
<1> QED BY <1>1, StatusSet DEF Reloaded

\* After a walk, whether it was refused or not.
LEMMA WalkEnds ==
    ASSUME NEW h, HomeOK(h), NEW events, Len(events) \in Nat
    PROVE  /\ HomeOK(Walked(h, events).home)
           /\ HomeOK(Reloaded(Walked(h, events).home))
BY WalkedOK, ReloadedOK

\* One transition.
LEMMA TriedOK ==
    ASSUME NEW h, HomeOK(h), NEW e
    PROVE  HomeOK(Tried(h, e))
BY WalkedOK, WalkLengths DEF Tried

\* The planner starts.
LEMMA PlanningOK ==
    ASSUME NEW h, HomeOK(h), NEW walk, Len(walk) \in Nat
    PROVE  HomeOK(Planning(h, walk))
<1> DEFINE w == Walked(h, walk)
           x == Reloaded(w.home)
<1>1. HomeOK(w.home) /\ HomeOK(x)
  BY WalkEnds
<1>2. HomeOK(SpawnedAgent(x, "planner"))
  <2> HIDE DEF x
  <2> QED BY <1>1, SpawnedOK DEF Kind
<1>3. Planning(h, walk) = IF w.ok THEN SpawnedAgent(x, "planner") ELSE w.home
  BY DEF Planning, After
<1> HIDE DEF w, x
<1> QED BY <1>1, <1>2, <1>3

\* The implementation starts, or the plan goes back to the planner.
LEMMA ImplementedOK ==
    ASSUME NEW h, HomeOK(h), NEW text \in Text
    PROVE  HomeOK(Implemented(h, text))
<1>1. CASE text = "plain"
  <2>1. Len(RevertToPlanningWalk(h.cached)) \in Nat
    BY WalkLengths
  <2>2. HomeOK(Planning(h, RevertToPlanningWalk(h.cached)))
    BY <2>1, PlanningOK
  <2> QED BY <1>1, <2>2 DEF Implemented
<1>2. CASE text = "waves"
  <2> DEFINE y == [h EXCEPT !.orch = "idle"]
             walk == SetImplementingWalk(h.cached)
             w == Walked(y, walk)
             x == Reloaded(w.home)
             z == [x EXCEPT !.orch = "running"]
  <2>1. HomeOK(y)
    <3>1. "none" \in {"none", "menu"} \cup Message /\ 0 \in Nat
      OBVIOUS
    <3> QED BY <3>1, RestSet
  <2>2. HomeOK(w.home) /\ HomeOK(x)
    <3>1. Len(walk) \in Nat
      BY WalkLengths
    <3> HIDE DEF y, walk
    <3> QED BY <2>1, <3>1, WalkEnds
  <2>3. HomeOK(z)
    <3>1. "none" \in {"none", "menu"} \cup Message /\ 0 \in Nat
      OBVIOUS
    <3> HIDE DEF x
    <3> QED BY <2>2, <3>1, RestSet
  <2>4. HomeOK(Started(z, "task"))
    <3> HIDE DEF z
    <3> QED BY <2>3, StartedOK DEF Kind, Lone
  <2>5. Implemented(h, text) = IF w.ok THEN Started(z, "task") ELSE w.home
    BY <1>2 DEF Implemented, After
  <2> HIDE DEF w, z
  <2> QED BY <2>2, <2>4, <2>5
<1>3. CASE text = "unreadable"
  BY <1>3 DEF Implemented
<1> QED BY <1>1, <1>2, <1>3 DEF Text

----------------------------------------------------------------------------
(* Dialogs *)

\* A dialog opens, or none is open any more.
LEMMA AskedOK ==
    ASSUME NEW h, HomeOK(h), NEW d \in {"none", "menu"} \cup Message
    PROVE  HomeOK(Asked(h, d))
<1>1. 0 \in Nat /\ "none" \in {"none", "idle", "running"}
  OBVIOUS
<1> QED BY <1>1, RestSet DEF Asked

\* The planner's dialog, and what ends it.
LEMMA PlannerOK ==
    ASSUME NEW h, HomeOK(h)
    PROVE  /\ HomeOK(AskedPlanner(h)) /\ HomeOK(PlannerSettled(h)) /\ HomeOK(Declined(h))
           /\ HomeOK(PlannerFinished(h))
<1>1. ASSUME NEW x, HomeOK(x) PROVE HomeOK(AskedPlanner(x))
  <2>1. HomeOK(Asked(x, "plannerDone"))
    BY <1>1, AskedOK DEF Message
  <2> QED BY <2>1, FlagSet DEF AskedPlanner
<1>2. ASSUME NEW x, HomeOK(x) PROVE HomeOK(PlannerSettled(x))
  <2> DEFINE y == Killed(x, {"planner"})
             z == [y EXCEPT !.prompted = TRUE]
  <2>1. HomeOK(y)
    BY <1>2, KilledOK
  <2>2. HomeOK(z)
    <3> HIDE DEF y
    <3> QED BY <2>1, FlagSet
  <2>3. HomeOK([z EXCEPT !.planner = FALSE])
    <3> HIDE DEF z
    <3> QED BY <2>2, FlagSet
  <2>4. PlannerSettled(x) = [z EXCEPT !.planner = FALSE]
    BY DEF PlannerSettled
  <2> QED BY <2>3, <2>4
<1>3. HomeOK(Declined(h))
  <2>1. HomeOK(Asked(h, "none"))
    BY AskedOK
  <2> QED BY <1>2, <2>1 DEF Declined
<1>4. HomeOK(PlannerFinished(h))
  <2> DEFINE x == [h EXCEPT !.planned = TRUE]
  <2>1. HomeOK(x)
    BY FlagSet
  <2>2. x.deferred \in Nat
    BY <2>1, HomeFields DEF HomeOK
  <2>3. HomeOK([x EXCEPT !.deferred = x.deferred + 1])
    <3>1. /\ x.deferred + 1 \in Nat /\ "none" \in {"none", "menu"} \cup Message
          /\ "none" \in {"none", "idle", "running"}
      BY <2>2
    <3> HIDE DEF x
    <3> QED BY <2>1, <3>1, RestSet
  <2>4. HomeOK(AskedPlanner(x))
    <3> HIDE DEF x
    <3> QED BY <1>1, <2>1
  <2>5. \/ PlannerFinished(h) = x
        \/ PlannerFinished(h) = [x EXCEPT !.deferred = x.deferred + 1]
        \/ PlannerFinished(h) = AskedPlanner(x)
    <3>1. CASE h.prompted
      BY <3>1 DEF PlannerFinished
    <3>2. CASE ~h.prompted /\ InOverlay(h)
      BY <3>2 DEF PlannerFinished
    <3>3. CASE ~h.prompted /\ ~InOverlay(h)
      BY <3>3 DEF PlannerFinished
    <3> QED BY <3>1, <3>2, <3>3
  <2> HIDE DEF x
  <2> QED BY <2>1, <2>3, <2>4, <2>5
<1> QED BY <1>1, <1>2, <1>3, <1>4

----------------------------------------------------------------------------
(* The tick *)

\* A file is gone.
LEMMA ConsumedOK ==
    ASSUME NEW h, HomeOK(h), NEW f
    PROVE  HomeOK(Consumed(h, f))
<1>1. h.files \ {f} \in SUBSET File /\ {} \in SUBSET Kind
  BY HomeFields DEF HomeOK
<1> QED BY <1>1, SetsSet DEF Consumed

\* A signal.
LEMMA SignalOK ==
    ASSUME NEW h, HomeOK(h), NEW f \in File
    PROVE  HomeOK(SignalApplied(h, f))
<1> DEFINE c == Consumed(h, f)
           x == Tried(c, f.event)
           S == IF "reviewer" \in Listed(x) THEN x.sessions \ {"reviewer"} ELSE x.sessions
           a == SpawnedReviewer(PausedFirst(x, CoderKinds, TRUE))
           b == SpawnedCoder(PausedFirst(x, {"reviewer"}, FALSE))
<1>1. HomeOK(c) /\ HomeOK(x)
  BY ConsumedOK, TriedOK
<1>2. HomeOK(a) /\ HomeOK(b)
  <2>1. /\ HomeOK(PausedFirst(x, CoderKinds, TRUE))
        /\ HomeOK(PausedFirst(x, {"reviewer"}, FALSE))
    <3> HIDE DEF x
    <3> QED BY <1>1, PausedFirstOK
  <2> QED BY <2>1, SpawnedOK
<1>3. HomeOK([x EXCEPT !.sessions = S])
  <2>1. S \in SUBSET Kind /\ {} \in SUBSET File
    <3> HIDE DEF x
    <3> QED BY <1>1, HomeFields DEF HomeOK
  <2> HIDE DEF x, S
  <2> QED BY <1>1, <2>1, SetsSet
<1>4. HomeOK(PlannerFinished(x))
  <2> HIDE DEF x
  <2> QED BY <1>1, PlannerOK
<1>5. f.event \in {"planner_finished", "implement_finished", "review_approved",
                   "review_changes_requested"}
  BY DEF File, SentinelEvent
<1>6. \/ SignalApplied(h, f) = c
      \/ SignalApplied(h, f) = a
      \/ SignalApplied(h, f) = b
      \/ SignalApplied(h, f) = [x EXCEPT !.sessions = S]
      \/ SignalApplied(h, f) = PlannerFinished(x)
  <2>1. CASE \/ f.event = "implement_finished" /\ h.orch # "none"
             \/ ~Allowed(h.status, f.event)
    BY <2>1 DEF SignalApplied
  <2>2. CASE ~ \/ f.event = "implement_finished" /\ h.orch # "none"
               \/ ~Allowed(h.status, f.event)
    <3>1. CASE f.event = "implement_finished"
      BY <2>2, <3>1 DEF SignalApplied
    <3>2. CASE f.event = "review_approved"
      BY <2>2, <3>2 DEF SignalApplied
    <3>3. CASE f.event = "review_changes_requested"
      BY <2>2, <3>3 DEF SignalApplied
    <3>4. CASE f.event = "planner_finished"
      BY <2>2, <3>4 DEF SignalApplied
    <3> QED BY <1>5, <3>1, <3>2, <3>3, <3>4
  <2> QED BY <2>1, <2>2
<1> HIDE DEF c, x, a, b, S
<1> QED BY <1>1, <1>2, <1>3, <1>4, <1>6

\* The signals of a scan.
LEMMA ScannedSeq ==
    ASSUME NEW files
    PROVE  Scanned(files) \in Seq(File)
<1>1. ASSUME NEW dir \in {"main", "tree"} PROVE InDir(files, dir) \in Seq(File)
  <2> DEFINE all == [i \in 1 .. 4 |-> [dir |-> dir, event |-> SignalOrder[i]]]
  <2>1. \A i \in 1 .. 4 : SignalOrder[i] \in SentinelEvent
    BY DEF SignalOrder, SentinelEvent
  <2>2. \A i \in 1 .. 4 : [dir |-> dir, event |-> SignalOrder[i]] \in File
    BY <2>1 DEF File
  <2>3. all \in Seq(File)
    <3> DEFINE n == 4
    <3>1. all \in [1 .. n -> File] /\ n \in Nat
      BY <2>2
    <3> HIDE DEF all, n
    <3> QED BY ONLY <3>1
  <2> HIDE DEF all
  <2>4. Only(all, files) \in Seq(File)
    BY <2>3, OnlyFacts
  <2> QED BY <2>4 DEF InDir, all
<1> DEFINE m == InDir(files, "main")
           t == InDir(files, "tree")
           S == {f \in File : [f EXCEPT !.dir = "main"] \notin files}
<1>2. m \in Seq(File) /\ t \in Seq(File)
  BY <1>1
<1>3. Scanned(files) = m \o Only(t, S)
  BY DEF Scanned
<1> HIDE DEF m, t, S
<1>4. Only(t, S) \in Seq(File)
  BY <1>2, OnlyFacts
<1>5. m \o Only(t, S) \in Seq(File)
  BY <1>2, <1>4, CatSet
<1> QED BY <1>3, <1>5

\* The recursion of InTurn.
LEMMA InTurnSteps ==
    ASSUME NEW h, HomeOK(h), NEW signals \in Seq(File)
    PROVE  \E g : /\ g[0] = h
                  /\ \A k \in 1 .. Len(signals) :
                        g[k] = SignalApplied(g[k - 1], signals[k])
                  /\ \A k \in 0 .. Len(signals) : HomeOK(g[k])
                  /\ InTurn(h, signals) = g[Len(signals)]
<1> DEFINE T == {x \in Home : AtMostOne(x.agents)}
           N == Len(signals)
           step == [k \in 1 .. N |-> [x \in T |-> SignalApplied(x, signals[k])]]
           Eqn(f) == f = [k \in 0 .. N |->
                             IF k = 0 THEN h ELSE SignalApplied(f[k - 1], signals[k])]
<1>1. N \in Nat /\ h \in T /\ \A k \in 1 .. N : signals[k] \in File
  <2>1. N \in Nat /\ \A k \in 1 .. N : signals[k] \in File
    BY ONLY signals \in Seq(File)
  <2> QED BY <2>1 DEF HomeOK
<1>2. \A k \in 1 .. N : \A x \in T : SignalApplied(x, signals[k]) \in T
  <2>1. \A x : x \in T <=> HomeOK(x)
    BY DEF HomeOK
  <2> HIDE DEF T
  <2> QED BY <1>1, <2>1, SignalOK
<1>3. InTurn(h, signals) = (CHOOSE g : Eqn(g))[N]
  BY DEF InTurn
<1> HIDE DEF N, T
<1>4. step \in [1 .. N -> [T -> T]]
  BY <1>2
<1>5. PICK f : DefinedBySteps(f, N, T, h, step)
  <2> HIDE DEF step
  <2> QED BY <1>1, <1>4, Recursion
<1>6. /\ f \in [0 .. N -> T] /\ f[0] = h
      /\ \A k \in 1 .. N : f[k] = SignalApplied(f[k - 1], signals[k])
  <2>1. /\ f \in [0 .. N -> T] /\ f[0] = h
        /\ \A k \in 1 .. N : f[k] = step[k][f[k - 1]]
    BY <1>5 DEF DefinedBySteps
  <2>2. \A k \in 1 .. N : k - 1 \in 0 .. N
    BY <1>1
  <2> QED BY <2>1, <2>2
<1>7. Eqn(f)
  <2>1. \A k \in 0 .. N :
           f[k] = IF k = 0 THEN h ELSE SignalApplied(f[k - 1], signals[k])
    BY <1>1, <1>6
  <2> QED BY <1>6, <2>1
<1> DEFINE g == CHOOSE x : Eqn(x)
<1>8. Eqn(g)
  <2> HIDE DEF Eqn
  <2> QED BY <1>7
<1>9. InTurn(h, signals) = g[N]
  BY <1>3
<1> HIDE DEF g
<1>10. \A k \in 0 .. N : g[k] = IF k = 0 THEN h ELSE SignalApplied(g[k - 1], signals[k])
  BY <1>8
<1>11. g[0] = h /\ \A k \in 1 .. N : g[k] = SignalApplied(g[k - 1], signals[k])
  BY <1>1, <1>10
<1>12. \A k \in 0 .. N : g[k] \in T
  <2>1. \A k \in 1 .. N : g[k - 1] \in T => g[k] \in T
    BY <1>2, <1>11
  <2>2. g[0] \in T
    BY <1>1, <1>11
  <2> QED BY <1>1, <2>1, <2>2, StaysIn
<1>13. \A k \in 0 .. N : HomeOK(g[k])
  BY <1>12 DEF T, HomeOK
<1> QED BY <1>9, <1>11, <1>13 DEF N

\* One signal after the other.
LEMMA InTurnOK ==
    ASSUME NEW h, HomeOK(h), NEW signals \in Seq(File)
    PROVE  HomeOK(InTurn(h, signals))
<1> DEFINE N == Len(signals)
<1>1. PICK g : (\A k \in 0 .. N : HomeOK(g[k])) /\ InTurn(h, signals) = g[N]
  BY InTurnSteps
<1>2. N \in Nat
  BY ONLY signals \in Seq(File)
<1> HIDE DEF N
<1> QED BY <1>1, <1>2

\* All of a scan, and the cache after it.
LEMMA SignalsOK ==
    ASSUME NEW h, HomeOK(h), NEW files
    PROVE  HomeOK(SignalsApplied(h, files))
<1>1. HomeOK(InTurn(h, Scanned(files)))
  BY ScannedSeq, InTurnOK
<1>2. HomeOK(Reloaded(InTurn(h, Scanned(files))))
  BY <1>1, ReloadedOK
<1> QED BY <1>2 DEF SignalsApplied

\* A planner's dialog that waited.
LEMMA DeferredOK ==
    ASSUME NEW h, HomeOK(h)
    PROVE  HomeOK(DeferredShown(h))
<1> DEFINE x == [h EXCEPT !.deferred = h.deferred - 1]
<1>1. CASE h.deferred = 0 \/ InOverlay(h)
  BY <1>1 DEF DeferredShown
<1>2. CASE ~(h.deferred = 0 \/ InOverlay(h))
  <2>1. h.deferred \in Nat /\ h.deferred # 0
    BY <1>2, HomeFields DEF HomeOK
  <2>2. HomeOK(x)
    <3>1. /\ h.deferred - 1 \in Nat /\ "none" \in {"none", "menu"} \cup Message
          /\ "none" \in {"none", "idle", "running"}
      BY <2>1
    <3> QED BY <3>1, RestSet
  <2>3. HomeOK(AskedPlanner(x))
    <3> HIDE DEF x
    <3> QED BY <2>2, PlannerOK
  <2>4. DeferredShown(h) = x \/ DeferredShown(h) = AskedPlanner(x)
    BY <1>2 DEF DeferredShown
  <2> HIDE DEF x
  <2> QED BY <2>2, <2>3, <2>4
<1> QED BY <1>1, <1>2

\* The results of a tick.
LEMMA ResultsOK ==
    ASSUME NEW h, HomeOK(h), NEW v \in View
    PROVE  HomeOK(ResultsApplied(h, v))
<1> DEFINE ag == h.agents
           last(k) == CHOOSE i \in DOMAIN ag :
                         /\ ag[i].kind = k
                         /\ \A j \in DOMAIN ag : ag[j].kind = k => j <= i
           woken == {last(k) : k \in v.woken \cap Listed(h)}
           bs == [i \in DOMAIN ag |-> [ag[i] EXCEPT !.paused = @ /\ i \notin woken]]
           s == IF v.files = {} THEN v.status ELSE h.cached
           x == [h EXCEPT !.agents = bs]
<1>1. h \in Home /\ ag \in Seq(Agent) /\ AtMostOne(ag) /\ s \in Status
  BY HomeFields DEF HomeOK, View
<1>2. \A j \in DOMAIN ag : ag[j] \in Agent
  <2> HIDE DEF ag
  <2> QED BY <1>1
<1>3. bs \in [DOMAIN ag -> Agent] /\ \A j \in DOMAIN ag : bs[j].kind = ag[j].kind
  <2> HIDE DEF woken, ag
  <2> QED BY <1>2 DEF Agent
<1>4. ResultsApplied(h, v) = [x EXCEPT !.cached = s]
  <2>1. ResultsApplied(h, v) = [h EXCEPT !.agents = bs, !.cached = s]
    BY DEF ResultsApplied
  <2> HIDE DEF bs, s
  <2>2. [h EXCEPT !.agents = bs, !.cached = s] = [x EXCEPT !.cached = s]
    BY <1>1 DEF Home
  <2> QED BY <2>1, <2>2
<1>5. bs \in Seq(Agent) /\ AtMostOne(bs)
  <2> HIDE DEF ag, bs
  <2> QED BY <1>1, <1>3, SameKinds
<1>6. HomeOK(x)
  <2> HIDE DEF bs
  <2> QED BY <1>5, AgentsSet
<1>7. HomeOK([x EXCEPT !.cached = s])
  <2> HIDE DEF x, s
  <2> QED BY <1>1, <1>6, StatusSet
<1> QED BY <1>4, <1>7

\* The prompts of a tick.
LEMMA PromptsOK ==
    ASSUME NEW h, HomeOK(h), NEW v
    PROVE  HomeOK(CoderExitAsked(h, v)) /\ HomeOK(AllCompleteShown(h))
<1>1. HomeOK(CoderExitAsked(h, v))
  <2>1. HomeOK(Asked(h, "coderExit"))
    BY AskedOK DEF Message
  <2> QED BY <2>1 DEF CoderExitAsked
<1>2. HomeOK(AllCompleteShown(h))
  <2> DEFINE x == Asked(h, "allComplete")
  <2>1. HomeOK(x) /\ x.owed = h.owed
    BY AskedOK DEF Message, Asked, HomeOK, Home
  <2>2. CASE InOverlay(h) \/ h.owed = 0
    BY <2>2 DEF AllCompleteShown
  <2>3. CASE ~(InOverlay(h) \/ h.owed = 0)
    <3>1. h.owed \in Nat /\ h.owed # 0
      BY <2>3, HomeFields DEF HomeOK
    <3>2. HomeOK([x EXCEPT !.owed = x.owed - 1])
      <4>1. /\ x.owed - 1 \in Nat /\ "none" \in {"none", "menu"} \cup Message
            /\ "none" \in {"none", "idle", "running"}
        BY <2>1, <3>1
      <4> HIDE DEF x
      <4> QED BY <2>1, <4>1, RestSet
    <3>3. AllCompleteShown(h) = [x EXCEPT !.owed = x.owed - 1]
      BY <2>3 DEF AllCompleteShown
    <3> QED BY <3>2, <3>3
  <2> QED BY <2>2, <2>3
<1> QED BY <1>1, <1>2

\* The waves of a tick.
LEMMA MonitoredOK ==
    ASSUME NEW h, HomeOK(h), NEW v
    PROVE  HomeOK(WaveMonitored(h, v))
<1> DEFINE ag == h.agents
           bs == [i \in DOMAIN ag |->
                     IF ag[i].kind = "task"
                     THEN [ag[i] EXCEPT !.paused = TRUE, !.complete = TRUE] ELSE ag[i]]
           y == [h EXCEPT !.agents = bs]
           x == [y EXCEPT !.orch = "none"]
<1>1. h \in Home /\ ag \in Seq(Agent) /\ AtMostOne(ag)
  BY HomeFields DEF HomeOK
<1>2. \A j \in DOMAIN ag : ag[j] \in Agent
  <2> HIDE DEF ag
  <2> QED BY <1>1
<1>3. bs \in [DOMAIN ag -> Agent] /\ \A j \in DOMAIN ag : bs[j].kind = ag[j].kind
  <2> HIDE DEF ag
  <2> QED BY <1>2 DEF Agent
<1>4. bs \in Seq(Agent) /\ AtMostOne(bs)
  <2> HIDE DEF ag, bs
  <2> QED BY <1>1, <1>3, SameKinds
<1>5. HomeOK(y)
  <2> HIDE DEF bs
  <2> QED BY <1>4, AgentsSet
<1>6. HomeOK(x)
  <2>1. "none" \in {"none", "menu"} \cup Message /\ 0 \in Nat
    OBVIOUS
  <2> HIDE DEF y
  <2> QED BY <1>5, <2>1, RestSet
<1>7. HomeOK([x EXCEPT !.owed = x.owed + 1])
  <2> HIDE DEF x
  <2>1. x.owed \in Nat
    BY <1>6, HomeFields DEF HomeOK
  <2>2. /\ x.owed + 1 \in Nat /\ "none" \in {"none", "menu"} \cup Message
        /\ "none" \in {"none", "idle", "running"}
    BY <2>1
  <2> QED BY <1>6, <2>2, RestSet
<1>8. HomeOK(Asked(x, "allComplete"))
  <2> HIDE DEF x
  <2> QED BY <1>6, AskedOK DEF Message
<1>9. CASE h.orch # "running" \/ ~TaskEnded(h, v)
  BY <1>9 DEF WaveMonitored
<1>10. CASE ~(h.orch # "running" \/ ~TaskEnded(h, v))
  <2> DEFINE z == [h EXCEPT !.orch = "none", !.agents = bs]
  <2>1. z = x
    BY <1>1 DEF Home
  <2>2. WaveMonitored(h, v)
           = IF InOverlay(h) THEN [z EXCEPT !.owed = z.owed + 1]
                             ELSE Asked(z, "allComplete")
    BY <1>10 DEF WaveMonitored
  <2> HIDE DEF z, x
  <2> QED BY <1>7, <1>8, <2>1, <2>2
<1> QED BY <1>9, <1>10

\* The plans that are done.
LEMMA CompletionOK ==
    ASSUME NEW h, HomeOK(h)
    PROVE  HomeOK(CompletionChecked(h))
<1> DEFINE S == {i \in DOMAIN h.agents : ~h.agents[i].complete}
           first == CHOOSE i \in S : \A j \in S : i <= j
           x == [h EXCEPT !.agents[first].complete = TRUE]
           y == Tried(x, "implement_finished")
           z == [y EXCEPT !.agents[first].paused = TRUE]
<1>1. HomeOK(x)
  <2> HIDE DEF first
  <2> QED BY FlagsSet
<1>2. HomeOK(y)
  <2> HIDE DEF x
  <2> QED BY <1>1, TriedOK
<1>3. HomeOK(z)
  <2> HIDE DEF y, first
  <2> QED BY <1>2, FlagsSet
<1>4. HomeOK(SpawnedReviewer(z))
  <2> HIDE DEF z
  <2> QED BY <1>3, SpawnedOK
<1>5. \/ CompletionChecked(h) = h
      \/ CompletionChecked(h) = x
      \/ CompletionChecked(h) = SpawnedReviewer(z)
  <2>1. CASE h.cached # "done" \/ "reviewer" \in Listed(h) \/ S = {}
    BY <2>1 DEF CompletionChecked
  <2>2. CASE ~(h.cached # "done" \/ "reviewer" \in Listed(h) \/ S = {})
    BY <2>2 DEF CompletionChecked
  <2> QED BY <2>1, <2>2
<1> HIDE DEF x, z
<1> QED BY <1>1, <1>4, <1>5

----------------------------------------------------------------------------
(* The state *)

\* The parts of TypeOK that are not about the home model.
RestOK ==
    /\ view = NoView \/ view \in View
    /\ msgs \in [Message -> 0 .. 2]
    /\ used \in [DOMAIN Limit -> Nat] /\ \A b \in DOMAIN Limit : used[b] <= Limit[b]

\* TypeOK in two parts.
LEMMA TypeParts ==
    /\ TypeOK <=> HomeOK(home) /\ RestOK
    /\ TypeOK' <=> HomeOK(home') /\ RestOK'
<1>1. AtMostOne(home.agents) <=> \A i, j \in DOMAIN home.agents :
          /\ home.agents[i].kind = home.agents[j].kind
          /\ home.agents[i].kind \in {"planner", "coder", "reviewer"}
          => i = j
  BY DEF AtMostOne, Lone
<1>2. AtMostOne(home'.agents) <=> \A i, j \in DOMAIN home'.agents :
          /\ home'.agents[i].kind = home'.agents[j].kind
          /\ home'.agents[i].kind \in {"planner", "coder", "reviewer"}
          => i = j
  BY DEF AtMostOne, Lone
<1>3. TypeOK <=> HomeOK(home) /\ RestOK
  BY <1>1 DEF TypeOK, RestOK, HomeOK
<1>4. TypeOK' <=> HomeOK(home') /\ RestOK'
  BY <1>2 DEF TypeOK, RestOK, HomeOK
<1> QED BY <1>3, <1>4

\* A step that leaves the view, the messages and the counts alone.
LEMMA RestKept ==
    ASSUME RestOK, UNCHANGED <<view, msgs, used>>
    PROVE  RestOK'
BY DEF RestOK, View, Limit

\* One that spends of a bound.
LEMMA RestSpent ==
    ASSUME RestOK, NEW b \in DOMAIN Limit, Spend(b), UNCHANGED <<view, msgs>>
    PROVE  RestOK'
<1>1. \A c \in DOMAIN Limit : Limit[c] \in Nat
  BY FlowAssumption DEF Limit
<1> DEFINE D == DOMAIN Limit
<1>2. used \in [D -> Nat] /\ \A c \in D : used[c] <= Limit[c]
  BY DEF RestOK
<1>3. used[b] < Limit[b] /\ used' = [used EXCEPT ![b] = @ + 1] /\ b \in D
  BY DEF Spend
<1>4. D' = D /\ Limit' = Limit
  BY DEF Limit
<1>5. used' \in [D -> Nat] /\ \A c \in D : used'[c] <= Limit[c]
  <2> HIDE DEF D
  <2> QED BY <1>1, <1>2, <1>3
<1>6. view' = view /\ msgs' = msgs
  OBVIOUS
<1>7. View' = View
  BY DEF View
<1> QED BY <1>4, <1>5, <1>6, <1>7 DEF RestOK

\* One that answers with a command, and one that takes its message.
LEMMA RestMessage ==
    ASSUME RestOK, NEW m \in Message, UNCHANGED <<view, used>>,
           \/ msgs[m] < 2 /\ msgs' = [msgs EXCEPT ![m] = @ + 1]
           \/ msgs[m] > 0 /\ msgs' = [msgs EXCEPT ![m] = @ - 1]
    PROVE  RestOK'
<1>1. msgs \in [Message -> 0 .. 2]
  BY DEF RestOK
<1>2. msgs' \in [Message -> 0 .. 2]
  <2>1. msgs[m] \in 0 .. 2
    BY <1>1
  <2>2. CASE msgs[m] < 2 /\ msgs' = [msgs EXCEPT ![m] = @ + 1]
    <3>1. msgs[m] + 1 \in 0 .. 2
      BY <2>1, <2>2
    <3> QED BY <1>1, <2>2, <3>1
  <2>3. CASE msgs[m] > 0 /\ msgs' = [msgs EXCEPT ![m] = @ - 1]
    <3>1. msgs[m] - 1 \in 0 .. 2
      BY <2>1, <2>3
    <3> QED BY <1>1, <2>3, <3>1
  <2> QED BY <2>2, <2>3
<1> QED BY <1>2 DEF RestOK, View, Limit

\* The first state.
LEMMA InitTypes ==
    ASSUME Init
    PROVE  TypeOK
<1>1. PICK s \in Status :
          home = [status |-> s, cached |-> s, agents |-> << >>, sessions |-> {},
                  idle |-> FALSE, files |-> {}, dialog |-> "none", menu |-> s,
                  captured |-> s, planner |-> FALSE, prompted |-> FALSE, deferred |-> 0,
                  owed |-> 0, planned |-> FALSE, orch |-> "none"]
  BY DEF Init
<1>2. home \in Home
  <2>1. << >> \in Seq(Agent)
    OBVIOUS
  <2> QED BY <1>1, <2>1 DEF Home
<1>3. AtMostOne(home.agents)
  BY <1>1 DEF AtMostOne
<1>4. RestOK
  <2>1. view = NoView /\ msgs = [m \in Message |-> 0] /\ used = [b \in DOMAIN Limit |-> 0]
    BY DEF Init
  <2>2. \A c \in DOMAIN Limit : Limit[c] \in Nat
    BY FlowAssumption DEF Limit
  <2> QED BY <2>1, <2>2 DEF RestOK
<1> QED BY <1>2, <1>3, <1>4, TypeParts DEF HomeOK

\* A list without one of its agents.
LEMMA OneLess ==
    ASSUME NEW ag \in Seq(Agent), AtMostOne(ag), NEW i \in DOMAIN ag
    PROVE  RemoveAt(ag, i) \in Seq(Agent) /\ AtMostOne(RemoveAt(ag, i))
<1> DEFINE n == Len(ag)
           r == RemoveAt(ag, i)
           from(j) == IF j < i THEN j ELSE j + 1
<1>1. n \in Nat /\ DOMAIN ag = 1 .. n /\ i \in 1 .. n
  BY ONLY ag \in Seq(Agent), i \in DOMAIN ag
<1>2. r = SubSeq(ag, 1, i - 1) \o SubSeq(ag, i + 1, n)
  BY DEF RemoveAt
<1> DEFINE a == SubSeq(ag, 1, i - 1)
           b == SubSeq(ag, i + 1, n)
<1>3. a \in Seq(Agent) /\ Len(a) = i - 1 /\ \A j \in 1 .. i - 1 : a[j] = ag[j]
  BY <1>1
<1>4. b \in Seq(Agent) /\ Len(b) = n - i /\ \A j \in 1 .. n - i : b[j] = ag[i + j]
  BY <1>1
<1> HIDE DEF a, b, r, n
<1>5. r \in Seq(Agent) /\ Len(r) = n - 1 /\ DOMAIN r = 1 .. n - 1
  BY <1>1, <1>2, <1>3, <1>4 DEF a, b
<1>6. \A j \in 1 .. n - 1 : from(j) \in 1 .. n /\ r[j] = ag[from(j)]
  <2> SUFFICES ASSUME NEW j \in 1 .. n - 1
               PROVE  from(j) \in 1 .. n /\ r[j] = ag[from(j)]
    OBVIOUS
  <2>0. r = a \o b
    BY <1>2 DEF a, b, n
  <2>1. CASE j < i
    <3>1. j \in 1 .. i - 1 /\ j \in 1 .. n
      BY <1>1, <2>1
    <3>2. r[j] = a[j]
      BY <1>3, <1>4, <2>0, <3>1
    <3> QED BY <1>3, <2>1, <3>1, <3>2
  <2>2. CASE ~(j < i)
    <3> DEFINE k == j - (i - 1)
    <3>1. k \in 1 .. n - i /\ i + k = j + 1 /\ j + 1 \in 1 .. n
      BY <1>1, <2>2
    <3>2. r[j] = b[k]
      <4>1. Len(a) = i - 1 /\ Len(b) = n - i /\ i \in Nat /\ n \in Nat
        BY <1>1, <1>3, <1>4
      <4>2. j \in Len(a) + 1 .. Len(a) + Len(b) /\ k = j - Len(a)
        BY <1>1, <2>2, <4>1
      <4>3. a \in Seq(Agent) /\ b \in Seq(Agent)
        BY <1>3, <1>4
      <4> HIDE DEF k
      <4> QED BY ONLY <2>0, <4>2, <4>3
    <3> QED BY <1>4, <2>2, <3>1, <3>2
  <2> QED BY <2>1, <2>2
<1>7. \A j, k \in 1 .. n - 1 : from(j) = from(k) => j = k
  BY <1>1
<1>8. AtMostOne(r)
  <2> HIDE DEF from
  <2> QED BY <1>1, <1>5, <1>6, <1>7 DEF AtMostOne
<1> QED BY <1>5, <1>8 DEF r

----------------------------------------------------------------------------
(* The steps *)

\* The tick.
LEMMA CollectTypes ==
    ASSUME TypeOK, Collect
    PROVE  TypeOK'
<1>1. HomeOK(home) /\ RestOK
  BY TypeParts
<1>2. home' = home /\ msgs' = msgs /\ used' = used
  BY DEF Collect
<1> DEFINE ag == home.agents
           seen == {ag[i].kind : i \in {j \in DOMAIN ag : ~ag[j].paused}}
           alive == seen \cap home.sessions
           files == {f \in home.files :
                        f.dir = "main" \/ Listed(home) \cap TreeKinds # {}}
           idle == home.idle /\ "task" \in alive
<1>3. PICK woken \in SUBSET alive :
         view' = [seen |-> seen, dead |-> seen \ alive, idle |-> idle, woken |-> woken,
                  status |-> home.status, files |-> files]
  BY DEF Collect
<1>4. ag \in Seq(Agent) /\ home.files \in SUBSET File /\ home.status \in Status
  BY <1>1, HomeFields DEF HomeOK
<1>5. seen \in SUBSET Kind
  <2>1. \A i \in DOMAIN ag : ag[i] \in Agent
    <3> HIDE DEF ag
    <3> QED BY <1>4
  <2> HIDE DEF ag
  <2> QED BY <2>1 DEF Agent
<1>6. alive \in SUBSET Kind /\ files \in SUBSET File
  <2> HIDE DEF seen
  <2> QED BY <1>4, <1>5
<1>7. idle \in BOOLEAN
  OBVIOUS
<1>8. view' \in View
  <2> HIDE DEF seen, alive, files, idle
  <2> QED BY <1>3, <1>4, <1>5, <1>6, <1>7 DEF View
<1>9. RestOK'
  <2>1. View' = View /\ Limit' = Limit
    BY DEF View, Limit
  <2> QED BY <1>1, <1>2, <1>8, <2>1 DEF RestOK
<1>10. HomeOK(home')
  BY <1>1, <1>2
<1> QED BY <1>9, <1>10, TypeParts

\* Its end.
LEMMA ApplyTypes ==
    ASSUME TypeOK, Apply
    PROVE  TypeOK'
<1>1. HomeOK(home) /\ RestOK
  BY TypeParts
<1>2. view \in View
  BY <1>1 DEF Apply, RestOK
<1> DEFINE signalled == SignalsApplied(home, view.files)
           shown == DeferredShown(signalled)
           observed == ResultsApplied(shown, view)
           exits == CoderExitAsked(observed, view)
           asked == AllCompleteShown(exits)
           waves == WaveMonitored(asked, view)
<1>3. home' = CompletionChecked(waves)
  BY DEF Apply
<1>4. HomeOK(signalled)
  BY <1>1, SignalsOK
<1>5. HomeOK(shown)
  <2> HIDE DEF signalled
  <2> QED BY <1>4, DeferredOK
<1>6. HomeOK(observed)
  <2> HIDE DEF shown
  <2> QED BY <1>2, <1>5, ResultsOK
<1>7. HomeOK(exits)
  <2> HIDE DEF observed
  <2> QED BY <1>6, PromptsOK
<1>8. HomeOK(asked)
  <2> HIDE DEF exits
  <2> QED BY <1>7, PromptsOK
<1>9. HomeOK(waves)
  <2> HIDE DEF asked
  <2> QED BY <1>8, MonitoredOK
<1>10. HomeOK(home')
  <2> HIDE DEF waves
  <2> QED BY <1>3, <1>9, CompletionOK
<1>11. RestOK'
  BY <1>1 DEF Apply, RestOK, View, Limit
<1> QED BY <1>10, <1>11, TypeParts

\* Answers.
LEMMA AnswerTypes ==
    ASSUME TypeOK, Confirm \/ Decline
    PROVE  TypeOK'
<1>1. HomeOK(home) /\ RestOK
  BY TypeParts
<1>2. CASE Confirm
  <2>1. HomeOK(Asked(home, "none"))
    BY <1>1, AskedOK
  <2>2. HomeOK(home')
    BY <1>2, <2>1 DEF Confirm
  <2>3. RestOK'
    <3> DEFINE m == home.dialog
    <3>1. m \in Message /\ msgs[m] < 2 /\ msgs' = [msgs EXCEPT ![m] = @ + 1]
      BY <1>2 DEF Confirm
    <3>2. UNCHANGED <<view, used>>
      BY <1>2 DEF Confirm
    <3> HIDE DEF m
    <3> QED BY <1>1, <3>1, <3>2, RestMessage
  <2> QED BY <2>2, <2>3, TypeParts
<1>3. CASE Decline
  <2>1. home' = Declined(home) /\ UNCHANGED <<view, msgs, used>>
    BY <1>3 DEF Decline
  <2>2. HomeOK(home')
    BY <1>1, <2>1, PlannerOK
  <2> QED BY <1>1, <2>1, <2>2, RestKept, TypeParts
<1> QED BY <1>2, <1>3

\* A message whose handler leaves the home model well.
LEMMA HandledTypes ==
    ASSUME TypeOK, NEW m \in Message, NEW next, HomeOK(next), Handled(m, next)
    PROVE  TypeOK'
<1>1. HomeOK(home) /\ RestOK
  BY TypeParts
<1>2. /\ home' = next /\ UNCHANGED <<view, used>>
      /\ msgs[m] > 0 /\ msgs' = [msgs EXCEPT ![m] = @ - 1]
  BY DEF Handled
<1>3. RestOK'
  BY <1>1, <1>2, RestMessage
<1>4. HomeOK(home')
  BY <1>2
<1> QED BY <1>3, <1>4, TypeParts

\* The sessions of the agents end.
LEMMA SessionsKilledOK ==
    ASSUME HomeOK(home)
    PROVE  HomeOK(SessionsKilled)
<1>1. home.sessions \ Listed(home) \in SUBSET Kind /\ {} \in SUBSET File
  BY HomeFields DEF HomeOK
<1> QED BY <1>1, SetsSet DEF SessionsKilled

\* The messages of confirmed dialogs.
LEMMA ArrivalTypes ==
    ASSUME TypeOK, Arrival
    PROVE  TypeOK'
<1>1. HomeOK(home)
  BY TypeParts
<1>2. CASE PlannerComplete
  <2>1. PICK text \in Text :
           Handled("plannerDone", Implemented(PlannerSettled(home), text))
    BY <1>2 DEF PlannerComplete
  <2>2. HomeOK(Implemented(PlannerSettled(home), text))
    BY <1>1, PlannerOK, ImplementedOK
  <2> QED BY <2>1, <2>2, HandledTypes DEF Message
<1>3. CASE AllComplete
  <2>1. HomeOK(SpawnedReviewer(Reloaded(Tried(home, "implement_finished"))))
    BY <1>1, TriedOK, ReloadedOK, SpawnedOK
  <2> QED BY <1>3, <2>1, HandledTypes DEF AllComplete, Message
<1>4. CASE CoderComplete
  <2>1. HomeOK(PausedFirst(Tried(home, "implement_finished"), CoderKinds, TRUE))
    BY <1>1, TriedOK, PausedFirstOK
  <2>2. HomeOK(SpawnedReviewer(Reloaded(PausedFirst(Tried(home, "implement_finished"),
                                                    CoderKinds, TRUE))))
    BY <2>1, ReloadedOK, SpawnedOK
  <2> QED BY <1>4, <2>2, HandledTypes DEF CoderComplete, Message
<1>5. CASE CancelDone
  <2> DEFINE w == Walked(home, <<"cancel">>)
             next == IF w.ok THEN Reloaded(w.home) ELSE w.home
  <2>1. HomeOK(next)
    BY <1>1, WalkLengths, WalkEnds
  <2>2. Handled("cancel", next)
    BY <1>5 DEF CancelDone, After
  <2> HIDE DEF next
  <2> QED BY <2>1, <2>2, HandledTypes DEF Message
<1>6. CASE Merged
  <2> DEFINE walk == MarkDoneWalk(home.captured, home.cached)
             w == Walked(SessionsKilled, walk)
             next == IF w.ok THEN Reloaded(w.home) ELSE w.home
  <2>1. HomeOK(next)
    <3>1. HomeOK(SessionsKilled) /\ Len(walk) \in Nat
      BY <1>1, SessionsKilledOK, WalkLengths
    <3> HIDE DEF walk
    <3> QED BY <3>1, WalkEnds
  <2>2. Handled("merge", SessionsKilled) \/ Handled("merge", next)
    BY <1>6 DEF Merged, After
  <2> HIDE DEF next
  <2> QED BY <1>1, <2>1, <2>2, SessionsKilledOK, HandledTypes DEF Message
<1>7. CASE StartedOver
  <2> DEFINE walk == ForceToPlanningWalk(home.cached)
             w == Walked(SessionsKilled, walk)
             next == IF w.ok THEN Reloaded(w.home) ELSE w.home
  <2>1. HomeOK(next)
    <3>1. HomeOK(SessionsKilled) /\ Len(walk) \in Nat
      BY <1>1, SessionsKilledOK, WalkLengths
    <3> HIDE DEF walk
    <3> QED BY <3>1, WalkEnds
  <2>2. Handled("startOver", SessionsKilled) \/ Handled("startOver", next)
    BY <1>7 DEF StartedOver, After
  <2> HIDE DEF next
  <2> QED BY <1>1, <2>1, <2>2, SessionsKilledOK, HandledTypes DEF Message
<1> QED BY <1>2, <1>3, <1>4, <1>5, <1>6, <1>7 DEF Arrival

\* An entry of the menu that leaves the home model well.
LEMMA ChosenTypes ==
    ASSUME TypeOK, NEW offered, NEW next, HomeOK(next), Chosen(offered, next)
    PROVE  TypeOK'
<1>1. RestOK /\ home' = next /\ UNCHANGED <<view, msgs, used>>
  BY TypeParts DEF Chosen
<1>2. HomeOK(home')
  BY <1>1
<1> QED BY <1>1, <1>2, RestKept, TypeParts

\* The entries that start an agent.
LEMMA StartTypes ==
    ASSUME TypeOK, \/ StartPlan \/ StartImplement \/ StartSolo \/ StartReview
                   \/ RequestReview
    PROVE  TypeOK'
<1>1. HomeOK(home) /\ HomeOK(Closed)
  BY TypeParts, AskedOK DEF Closed
<1>2. CASE StartPlan
  <2>1. HomeOK(Planning(Closed, <<"plan_start">>))
    BY <1>1, WalkLengths, PlanningOK
  <2> QED BY <1>2, <2>1, ChosenTypes DEF StartPlan
<1>3. CASE StartImplement
  <2>1. PICK text \in Text :
           Chosen({"ready", "planning", "implementing"}, Implemented(Closed, text))
    BY <1>3 DEF StartImplement
  <2>2. HomeOK(Implemented(Closed, text))
    BY <1>1, ImplementedOK
  <2> QED BY <2>1, <2>2, ChosenTypes
<1>4. CASE StartSolo
  <2> DEFINE w == Walked(Closed, SetImplementingWalk(home.cached))
             x == Reloaded(w.home)
             next == IF w.ok THEN SpawnedAgent(x, "solo") ELSE w.home
  <2>1. HomeOK(w.home) /\ HomeOK(x)
    BY <1>1, WalkLengths, WalkEnds
  <2>2. HomeOK(next)
    <3> HIDE DEF x
    <3> QED BY <2>1, SpawnedOK DEF Kind
  <2>3. Chosen({"ready", "planning", "implementing"}, next)
    BY <1>4 DEF StartSolo, After
  <2> HIDE DEF next
  <2> QED BY <2>2, <2>3, ChosenTypes
<1>5. CASE StartReview
  <2> DEFINE w == Walked(Closed, SetReviewingWalk(home.cached))
             x == Reloaded(w.home)
             next == IF w.ok THEN SpawnedAgent(x, "reviewer") ELSE w.home
  <2>1. HomeOK(w.home) /\ HomeOK(x)
    BY <1>1, WalkLengths, WalkEnds
  <2>2. HomeOK(next)
    <3> HIDE DEF x
    <3> QED BY <2>1, SpawnedOK DEF Kind
  <2>3. Chosen({"ready", "planning", "implementing", "reviewing"}, next)
    BY <1>5 DEF StartReview, After
  <2> HIDE DEF next
  <2> QED BY <2>2, <2>3, ChosenTypes
<1>6. CASE RequestReview
  <2> DEFINE w == Walked(Closed, <<"request_review">>)
             x == Reloaded(w.home)
             next == IF w.ok THEN SpawnedReviewer(x) ELSE w.home
  <2>1. HomeOK(w.home) /\ HomeOK(x)
    BY <1>1, WalkLengths, WalkEnds
  <2>2. HomeOK(next)
    <3> HIDE DEF x
    <3> QED BY <2>1, SpawnedOK
  <2>3. Chosen({"done"}, next)
    BY <1>6 DEF RequestReview, After
  <2> HIDE DEF next
  <2> QED BY <2>2, <2>3, ChosenTypes
<1> QED BY <1>2, <1>3, <1>4, <1>5, <1>6

\* The menu and its other entries.
LEMMA MenuTypes ==
    ASSUME TypeOK, Menu
    PROVE  TypeOK'
<1>1. HomeOK(home) /\ RestOK /\ HomeOK(Closed)
  BY TypeParts, AskedOK DEF Closed
<1>2. home.cached \in Status
  BY <1>1, HomeFields DEF HomeOK
<1>3. CASE OpenMenu
  <2>1. home' = [Asked(home, "menu") EXCEPT !.menu = home.cached]
    BY <1>3 DEF OpenMenu
  <2>2. HomeOK(Asked(home, "menu"))
    BY <1>1, AskedOK
  <2>3. HomeOK(home')
    BY <1>2, <2>1, <2>2, StatusSet
  <2>4. RestOK'
    <3>1. Spend("acts") /\ UNCHANGED <<view, msgs>> /\ "acts" \in DOMAIN Limit
      BY <1>3 DEF OpenMenu, Limit
    <3> QED BY <1>1, <3>1, RestSpent
  <2> QED BY <2>3, <2>4, TypeParts
<1>4. CASE CloseMenu
  <2>1. home' = Asked(home, "none") /\ UNCHANGED <<view, msgs, used>>
    BY <1>4 DEF CloseMenu
  <2>2. HomeOK(home')
    BY <1>1, <2>1, AskedOK
  <2> QED BY <1>1, <2>1, <2>2, RestKept, TypeParts
<1>5. CASE StartPlan \/ StartImplement \/ StartSolo \/ StartReview \/ RequestReview
  BY <1>5, StartTypes
<1>6. CASE ResumeImplement
  <2> DEFINE w == Walked(Closed, <<"reimplement">>)
             next == IF w.ok THEN Reloaded(w.home) ELSE w.home
  <2>1. HomeOK(next)
    BY <1>1, WalkLengths, WalkEnds
  <2>2. Chosen({"done"}, next)
    BY <1>6 DEF ResumeImplement, After
  <2> HIDE DEF next
  <2> QED BY <2>1, <2>2, ChosenTypes
<1>7. CASE MarkPlanDone
  <2> DEFINE walk == MarkDoneWalk(home.cached, home.cached)
             w == Walked(Closed, walk)
             next == IF w.ok THEN Reloaded(w.home) ELSE w.home
  <2>1. HomeOK(next)
    <3>1. Len(walk) \in Nat
      BY WalkLengths
    <3> HIDE DEF walk
    <3> QED BY <1>1, <3>1, WalkEnds
  <2>2. Chosen(Status, next)
    BY <1>7 DEF MarkPlanDone, After
  <2> HIDE DEF next
  <2> QED BY <2>1, <2>2, ChosenTypes
<1>8. CASE AskAboutPlan
  <2>1. PICK d \in {"cancel", "merge", "startOver"} :
           Chosen(Status, [Asked(home, d) EXCEPT !.captured = home.cached])
    BY <1>8 DEF AskAboutPlan
  <2>2. HomeOK(Asked(home, d))
    BY <1>1, AskedOK DEF Message
  <2>3. HomeOK([Asked(home, d) EXCEPT !.captured = home.cached])
    BY <1>2, <2>2, StatusSet
  <2> QED BY <2>1, <2>3, ChosenTypes
<1> QED BY <1>3, <1>4, <1>5, <1>6, <1>7, <1>8 DEF Menu

\* What the agents do.
LEMMA AgentTypes ==
    ASSUME TypeOK, AgentReports \/ TaskIdle \/ AgentExits
    PROVE  TypeOK'
<1>1. HomeOK(home) /\ RestOK
  BY TypeParts
<1>2. home.files \in SUBSET File /\ home.sessions \in SUBSET Kind
  BY <1>1, HomeFields DEF HomeOK
<1>3. ASSUME NEW kind, NEW dir \in {"main", "tree"}, NEW event \in SentinelEvent,
             Report(kind, dir, event)
      PROVE  TypeOK'
  <2> DEFINE F == home.files \cup {[dir |-> dir, event |-> event]}
  <2>1. /\ home' = [home EXCEPT !.files = F] /\ Spend("work")
        /\ UNCHANGED <<view, msgs>> /\ "work" \in DOMAIN Limit
    BY <1>3 DEF Report, Limit
  <2>2. F \in SUBSET File /\ {} \in SUBSET Kind
    BY <1>2 DEF File
  <2>3. HomeOK(home')
    <3> HIDE DEF F
    <3> QED BY <1>1, <2>1, <2>2, SetsSet
  <2>4. RestOK'
    BY <1>1, <2>1, RestSpent
  <2> QED BY <2>3, <2>4, TypeParts
<1>4. CASE AgentReports
  <2>1. {"planner_finished", "implement_finished", "review_approved",
         "review_changes_requested"} = SentinelEvent
    BY DEF SentinelEvent
  <2>2. \E kind : \E dir \in {"main", "tree"}, event \in SentinelEvent :
           Report(kind, dir, event)
    BY <1>4, <2>1 DEF AgentReports
  <2> QED BY <1>3, <2>2
<1>5. CASE TaskIdle
  <2>1. home' = [home EXCEPT !.idle = TRUE] /\ UNCHANGED <<view, msgs, used>>
    BY <1>5 DEF TaskIdle
  <2>2. HomeOK(home')
    BY <1>1, <2>1, FlagSet
  <2> QED BY <1>1, <2>1, <2>2, RestKept, TypeParts
<1>6. CASE AgentExits
  <2>1. PICK k \in home.sessions : home' = [home EXCEPT !.sessions = home.sessions \ {k}]
    BY <1>6 DEF AgentExits
  <2>2. home.sessions \ {k} \in SUBSET Kind /\ {} \in SUBSET File
    BY <1>2
  <2>3. HomeOK(home')
    BY <1>1, <2>1, <2>2, SetsSet
  <2>4. UNCHANGED <<view, msgs, used>>
    BY <1>6 DEF AgentExits
  <2> QED BY <1>1, <2>3, <2>4, RestKept, TypeParts
<1> QED BY <1>4, <1>5, <1>6

\* The user removes an agent.
LEMMA KillTypes ==
    ASSUME TypeOK, KillAgent
    PROVE  TypeOK'
<1>1. HomeOK(home) /\ RestOK
  BY TypeParts
<1> DEFINE ag == home.agents
<1>2. PICK i \in DOMAIN ag :
         home' = [home EXCEPT !.agents = RemoveAt(ag, i),
                              !.sessions = home.sessions \ {ag[i].kind}]
  BY DEF KillAgent
<1>3. /\ home \in Home /\ ag \in Seq(Agent) /\ AtMostOne(ag)
      /\ home.sessions \in SUBSET Kind
  BY <1>1, HomeFields DEF HomeOK
<1> DEFINE left == RemoveAt(ag, i)
           S == home.sessions \ {ag[i].kind}
           x == [home EXCEPT !.agents = left]
<1>4. left \in Seq(Agent) /\ AtMostOne(left)
  <2> HIDE DEF ag
  <2> QED BY <1>3, OneLess
<1>5. HomeOK(x)
  <2> HIDE DEF left
  <2> QED BY <1>1, <1>4, AgentsSet
<1>6. home' = [x EXCEPT !.sessions = S]
  <2> HIDE DEF left, S
  <2> QED BY <1>2, <1>3 DEF Home, left, S
<1>7. HomeOK(home')
  <2>1. S \in SUBSET Kind /\ {} \in SUBSET File
    BY <1>3
  <2> HIDE DEF x, S
  <2> QED BY <1>5, <1>6, <2>1, SetsSet
<1>8. RestOK'
  <2>1. Spend("acts") /\ UNCHANGED <<view, msgs>> /\ "acts" \in DOMAIN Limit
    BY DEF KillAgent, Limit
  <2> QED BY <1>1, <2>1, RestSpent
<1> QED BY <1>7, <1>8, TypeParts

----------------------------------------------------------------------------

\* Every state has its shape, for every bound: one planner, one coder and one reviewer
\* of the plan at most, whatever starts agents: signals, answers that come late, and the
\* menu (spawnPlanAgent, spawnReviewer, spawnCoderWithFeedback).
THEOREM TypeCorrect == Spec => []TypeOK
<1>1. Init => TypeOK
  BY InitTypes
<1>2. TypeOK /\ [Next]_vars => TypeOK'
  <2> SUFFICES ASSUME TypeOK, [Next]_vars PROVE TypeOK'
    OBVIOUS
  <2>1. CASE Next
    BY <2>1, CollectTypes, ApplyTypes, AnswerTypes, ArrivalTypes, MenuTypes, AgentTypes,
       KillTypes DEF Next
  <2>2. CASE UNCHANGED vars
    <3>1. HomeOK(home) /\ RestOK /\ home' = home /\ UNCHANGED <<view, msgs, used>>
      BY <2>2, TypeParts DEF vars
    <3>2. HomeOK(home')
      BY <3>1
    <3> QED BY <3>1, <3>2, RestKept, TypeParts
  <2> QED BY <2>1, <2>2
<1> QED BY <1>1, <1>2, PTL DEF Spec

----------------------------------------------------------------------------
(* The end of the planner *)

\* What FinishedIsOwed depends on.
Kept(h, x) ==
    /\ x.planned = h.planned /\ x.prompted = h.prompted /\ x.planner = h.planner
    /\ x.deferred = h.deferred /\ x.dialog = h.dialog

\* What it depends on is kept, so it is.
LEMMA KeptOwing ==
    ASSUME NEW h, NEW x, NEW m, Kept(h, x), Owing(h, m)
    PROVE  Owing(x, m)
BY DEF Kept, Owing

\* Nothing about agents changes it.
LEMMA AgentsKept ==
    ASSUME NEW h, HomeOK(h)
    PROVE  /\ \A kinds : Kept(h, Killed(h, kinds))
           /\ \A kind : Kept(h, Started(h, kind))
           /\ \A kinds, complete : Kept(h, PausedFirst(h, kinds, complete))
<1>1. h \in Home
  BY DEF HomeOK
<1>2. \A ag, S : Kept(h, [h EXCEPT !.agents = ag, !.sessions = S])
  BY <1>1 DEF Kept, Home
<1>3. \A ag, S, b, F :
         Kept(h, [h EXCEPT !.agents = ag, !.sessions = S, !.idle = b, !.files = F])
  BY <1>1 DEF Kept, Home
<1>4. \A ag : Kept(h, [h EXCEPT !.agents = ag])
  BY <1>1 DEF Kept, Home
<1>5. ASSUME NEW kinds PROVE Kept(h, Killed(h, kinds))
  BY <1>2 DEF Killed
<1>6. ASSUME NEW kind PROVE Kept(h, Started(h, kind))
  BY <1>3 DEF Started
<1>7. ASSUME NEW kinds, NEW complete PROVE Kept(h, PausedFirst(h, kinds, complete))
  <2> DEFINE S == {i \in DOMAIN h.agents : h.agents[i].kind \in kinds}
             i == CHOOSE j \in S : \A k \in S : j <= k
             x == [h EXCEPT !.agents[i].paused = TRUE,
                            !.agents[i].complete = @ \/ complete]
  <2>1. PausedFirst(h, kinds, complete) = h \/ PausedFirst(h, kinds, complete) = x
    BY DEF PausedFirst
  <2>2. Kept(h, x)
    <3> HIDE DEF i
    <3> QED BY <1>1 DEF Kept, Home
  <2>3. Kept(h, h)
    BY DEF Kept
  <2> QED BY <2>1, <2>2, <2>3
<1> QED BY <1>5, <1>6, <1>7

\* Kept goes on from step to step.
LEMMA KeptOn ==
    ASSUME NEW h, NEW x, NEW y, Kept(h, x), Kept(x, y)
    PROVE  Kept(h, y)
BY DEF Kept

\* The spawns.
LEMMA SpawnedKept ==
    ASSUME NEW h, HomeOK(h)
    PROVE  /\ Kept(h, SpawnedReviewer(h)) /\ Kept(h, SpawnedCoder(h))
           /\ \A kind : Kept(h, SpawnedAgent(h, kind))
<1>1. ASSUME NEW kinds, NEW kind PROVE Kept(h, Started(Killed(h, kinds), kind))
  <2>1. Kept(h, Killed(h, kinds)) /\ HomeOK(Killed(h, kinds))
    BY AgentsKept, KilledOK
  <2>2. Kept(Killed(h, kinds), Started(Killed(h, kinds), kind))
    BY <2>1, AgentsKept
  <2> QED BY <2>1, <2>2, KeptOn
<1>2. Kept(h, h)
  BY DEF Kept
<1>3. Kept(h, SpawnedReviewer(h))
  BY <1>1, <1>2 DEF SpawnedReviewer
<1>4. Kept(h, SpawnedCoder(h))
  BY <1>1 DEF SpawnedCoder
<1>5. ASSUME NEW kind PROVE Kept(h, SpawnedAgent(h, kind))
  BY <1>1 DEF SpawnedAgent
<1> QED BY <1>3, <1>4, <1>5

\* A step of a walk.
LEMMA SentKept ==
    ASSUME NEW w \in Walk, NEW e
    PROVE  Kept(w.home, Sent(w, e).home)
<1>1. w.home \in Home /\ w = [home |-> w.home, ok |-> w.ok]
  BY DEF Walk
<1>2. CASE w.ok /\ Allowed(w.home.status, e)
  <2> DEFINE h == w.home
             s == ApplyTransition(h.status, e)
             x == [h EXCEPT !.status = s]
  <2>1. Kept(h, x)
    <3> HIDE DEF s
    <3> QED BY <1>1 DEF Kept, Home
  <2>2. Sent(w, e).home = x
    <3>1. Sent(w, e) = [w EXCEPT !.home.status = ApplyTransition(@, e)]
      BY <1>2 DEF Sent
    <3> QED BY <1>1, <3>1 DEF Home
  <2> QED BY <2>1, <2>2
<1>3. CASE ~(w.ok /\ Allowed(w.home.status, e))
  <2>1. Sent(w, e) = [w EXCEPT !.ok = FALSE]
    BY <1>3 DEF Sent
  <2>2. Sent(w, e).home = w.home
    BY <1>1, <2>1
  <2> QED BY <2>2 DEF Kept
<1> QED BY <1>2, <1>3

\* A walk.
LEMMA WalkedKept ==
    ASSUME NEW h, HomeOK(h), NEW events, Len(events) \in Nat
    PROVE  /\ Kept(h, Walked(h, events).home)
           /\ Kept(h, Reloaded(Walked(h, events).home))
<1> DEFINE N == Len(events)
           T == {w \in Walk : Kept(h, w.home)}
<1>1. PICK g : /\ g[0] = [home |-> h, ok |-> TRUE]
               /\ \A k \in 1 .. N : g[k] = Sent(g[k - 1], events[k])
               /\ \A k \in 0 .. N : g[k] \in Walk
               /\ Walked(h, events) = g[N]
  BY WalkedSteps
<1>2. N \in Nat
  OBVIOUS
<1> HIDE DEF N
<1>3. g[0] \in T
  <2>1. 0 \in 0 .. N /\ g[0].home = h
    BY <1>1, <1>2
  <2> QED BY <1>1, <2>1 DEF Kept
<1>4. \A k \in 1 .. N : g[k - 1] \in T => g[k] \in T
  <2> SUFFICES ASSUME NEW k \in 1 .. N, g[k - 1] \in T PROVE g[k] \in T
    OBVIOUS
  <2>1. k \in 0 .. N /\ g[k] \in Walk /\ g[k - 1] \in Walk /\ Kept(h, g[k - 1].home)
    BY <1>1, <1>2
  <2>2. Kept(g[k - 1].home, g[k].home)
    BY <1>1, <2>1, SentKept
  <2>3. Kept(h, g[k].home)
    BY <2>1, <2>2, KeptOn
  <2> QED BY <2>1, <2>3
<1> HIDE DEF T
<1>5. \A k \in 0 .. N : g[k] \in T
  BY <1>2, <1>3, <1>4, StaysIn
<1>6. g[N] \in T
  BY <1>2, <1>5
<1> DEFINE x == Walked(h, events).home
<1>7. Kept(h, x) /\ x \in Home
  BY <1>1, <1>6 DEF T, Walk
<1>8. Kept(x, Reloaded(x))
  <2> HIDE DEF x
  <2> QED BY <1>7 DEF Reloaded, Kept, Home
<1> HIDE DEF x
<1>9. Kept(h, Reloaded(x))
  BY <1>7, <1>8, KeptOn
<1> QED BY <1>7, <1>9 DEF x

\* One transition, and a start of the planner or of the implementation.
LEMMA StartsKept ==
    ASSUME NEW h, HomeOK(h)
    PROVE  /\ \A e : Kept(h, Tried(h, e))
           /\ \A walk : Len(walk) \in Nat => Kept(h, Planning(h, walk))
           /\ \A text \in Text : Kept(h, Implemented(h, text))
<1>1. \A e : Kept(h, Tried(h, e))
  BY WalkedKept, WalkLengths DEF Tried
<1>2. ASSUME NEW walk, Len(walk) \in Nat PROVE Kept(h, Planning(h, walk))
  <2> DEFINE w == Walked(h, walk)
             x == Reloaded(w.home)
  <2>1. Kept(h, w.home) /\ Kept(h, x) /\ HomeOK(x)
    BY <1>2, WalkedKept, WalkEnds
  <2>2. Kept(x, SpawnedAgent(x, "planner"))
    <3> HIDE DEF x
    <3> QED BY <2>1, SpawnedKept
  <2>3. Planning(h, walk) = IF w.ok THEN SpawnedAgent(x, "planner") ELSE w.home
    BY DEF Planning, After
  <2> HIDE DEF w, x
  <2>4. Kept(h, SpawnedAgent(x, "planner"))
    BY <2>1, <2>2, KeptOn
  <2> QED BY <2>1, <2>3, <2>4
<1>3. Kept(h, Implemented(h, "plain"))
  <2>1. Len(RevertToPlanningWalk(h.cached)) \in Nat
    BY WalkLengths
  <2> QED BY <1>2, <2>1 DEF Implemented
<1>4. Kept(h, Implemented(h, "waves"))
  <2> DEFINE y == [h EXCEPT !.orch = "idle"]
             walk == SetImplementingWalk(h.cached)
             w == Walked(y, walk)
             x == Reloaded(w.home)
             z == [x EXCEPT !.orch = "running"]
  <2>1. "none" \in {"none", "menu"} \cup Message /\ 0 \in Nat
    OBVIOUS
  <2>2. HomeOK(y) /\ Kept(h, y)
    <3>1. HomeOK(y)
      BY <2>1, RestSet
    <3>2. h \in Home
      BY DEF HomeOK
    <3>3. Kept(h, y)
      BY <3>2 DEF Kept, Home
    <3> QED BY <3>1, <3>3
  <2>3. HomeOK(x) /\ Kept(y, w.home) /\ Kept(y, x)
    <3>1. Len(walk) \in Nat
      BY WalkLengths
    <3> HIDE DEF y, walk
    <3> QED BY <2>2, <3>1, WalkEnds, WalkedKept
  <2>4. HomeOK(z) /\ Kept(x, z)
    <3> HIDE DEF x
    <3>1. HomeOK(z)
      BY <2>1, <2>3, RestSet
    <3>2. x \in Home
      BY <2>3 DEF HomeOK
    <3>3. Kept(x, z)
      BY <3>2 DEF Kept, Home
    <3> QED BY <3>1, <3>3
  <2>5. Kept(z, Started(z, "task"))
    <3> HIDE DEF z
    <3> QED BY <2>4, AgentsKept
  <2>6. Implemented(h, "waves") = IF w.ok THEN Started(z, "task") ELSE w.home
    BY DEF Implemented, After
  <2> HIDE DEF w, x, y, z
  <2>7. Kept(h, w.home) /\ Kept(h, Started(z, "task"))
    BY <2>2, <2>3, <2>4, <2>5, KeptOn
  <2> QED BY <2>6, <2>7
<1>5. Kept(h, Implemented(h, "unreadable"))
  BY DEF Implemented, Kept
<1> QED BY <1>1, <1>2, <1>3, <1>4, <1>5 DEF Text

\* Asking, settling and declining.
LEMMA DialogsOwing ==
    ASSUME NEW h, HomeOK(h), NEW m
    PROVE  /\ Owing(AskedPlanner(h), m)
           /\ Owing(PlannerSettled(h), m) /\ PlannerSettled(h).prompted
           /\ Owing(h, m) => Owing(Declined(h), m)
           /\ Owing(h, m) /\ h.dialog # "plannerDone" =>
                 \A d : d # "plannerDone" => Owing(Asked(h, d), m)
<1>1. h \in Home
  BY DEF HomeOK
<1>2. Owing(AskedPlanner(h), m)
  BY <1>1 DEF Owing, AskedPlanner, Asked, Home
<1>3. ASSUME NEW x, HomeOK(x) PROVE Owing(PlannerSettled(x), m) /\ PlannerSettled(x).prompted
  <2> DEFINE y == Killed(x, {"planner"})
  <2>1. y \in Home
    BY <1>3, KilledOK DEF HomeOK
  <2>2. PlannerSettled(x) = [y EXCEPT !.prompted = TRUE, !.planner = FALSE]
    BY DEF PlannerSettled
  <2> HIDE DEF y
  <2>3. PlannerSettled(x).prompted
    BY <2>1, <2>2 DEF Home
  <2> QED BY <2>3 DEF Owing
<1>4. ASSUME Owing(h, m), h.dialog # "plannerDone", NEW d, d # "plannerDone"
      PROVE  Owing(Asked(h, d), m)
  BY <1>1, <1>4 DEF Owing, Asked, Home
<1>5. ASSUME Owing(h, m) PROVE Owing(Declined(h), m)
  <2>1. HomeOK(Asked(h, "none"))
    BY AskedOK
  <2>2. CASE h.planner
    BY <1>3, <2>1, <2>2 DEF Declined
  <2>3. CASE ~h.planner
    <3>1. Declined(h) = Asked(h, "none")
      BY <2>3 DEF Declined
    <3>2. Owing(Asked(h, "none"), m)
      BY <1>1, <1>5, <2>3 DEF Owing, Asked, Home
    <3> QED BY <3>1, <3>2
  <2> QED BY <2>2, <2>3
<1> QED BY <1>2, <1>3, <1>4, <1>5

\* The planner's signal: a dialog that cannot open is counted.
LEMMA FinishedOwing ==
    ASSUME NEW h, HomeOK(h), NEW m, Owing(h, m)
    PROVE  Owing(PlannerFinished(h), m)
<1> DEFINE x == [h EXCEPT !.planned = TRUE]
<1>1. HomeOK(x) /\ h \in Home
  BY FlagSet DEF HomeOK
<1>2. CASE h.prompted
  BY <1>1, <1>2 DEF PlannerFinished, Owing, Home
<1>3. CASE ~h.prompted /\ InOverlay(h)
  <2>1. PlannerFinished(h) = [x EXCEPT !.deferred = @ + 1]
    BY <1>3 DEF PlannerFinished
  <2>2. h.deferred \in Nat
    BY <1>1, HomeFields
  <2>3. [x EXCEPT !.deferred = @ + 1].deferred > 0
    BY <1>1, <2>2 DEF Home
  <2> QED BY <1>1, <2>1, <2>3 DEF Owing, Home
<1>4. CASE ~h.prompted /\ ~InOverlay(h)
  <2>1. PlannerFinished(h) = AskedPlanner(x)
    BY <1>4 DEF PlannerFinished
  <2> HIDE DEF x
  <2> QED BY <1>1, <2>1, DialogsOwing
<1> QED BY <1>2, <1>3, <1>4

\* A signal.
LEMMA SignalOwing ==
    ASSUME NEW h, HomeOK(h), NEW m, Owing(h, m), NEW f \in File
    PROVE  Owing(SignalApplied(h, f), m)
<1> DEFINE c == Consumed(h, f)
           x == Tried(c, f.event)
           S == IF "reviewer" \in Listed(x) THEN x.sessions \ {"reviewer"} ELSE x.sessions
           p == PausedFirst(x, CoderKinds, TRUE)
           q == PausedFirst(x, {"reviewer"}, FALSE)
           y == [x EXCEPT !.sessions = S]
<1>1. HomeOK(c) /\ HomeOK(x)
  BY ConsumedOK, TriedOK
<1>2. Kept(h, c)
  BY DEF HomeOK, Consumed, Kept, Home
<1>3. Kept(c, x)
  <2> HIDE DEF c
  <2> QED BY <1>1, StartsKept
<1>4. Owing(c, m) /\ Owing(x, m)
  <2> HIDE DEF c, x
  <2> QED BY <1>2, <1>3, KeptOwing
<1>5. HomeOK(p) /\ Kept(x, p) /\ HomeOK(q) /\ Kept(x, q)
  <2> HIDE DEF x
  <2> QED BY <1>1, PausedFirstOK, AgentsKept
<1>6. Owing(SpawnedReviewer(p), m) /\ Owing(SpawnedCoder(q), m)
  <2> HIDE DEF x, p, q
  <2> QED BY <1>4, <1>5, SpawnedKept, KeptOwing
<1>7. Owing(y, m)
  <2>1. Kept(x, y)
    <3> HIDE DEF x, S
    <3> QED BY <1>1 DEF HomeOK, Kept, Home
  <2> HIDE DEF x, y
  <2> QED BY <1>4, <2>1, KeptOwing
<1>8. Owing(PlannerFinished(x), m)
  <2> HIDE DEF x
  <2> QED BY <1>1, <1>4, FinishedOwing
<1>9. f.event \in {"planner_finished", "implement_finished", "review_approved",
                   "review_changes_requested"}
  BY DEF File, SentinelEvent
<1>10. \/ SignalApplied(h, f) = c
       \/ SignalApplied(h, f) = SpawnedReviewer(p)
       \/ SignalApplied(h, f) = SpawnedCoder(q)
       \/ SignalApplied(h, f) = y
       \/ SignalApplied(h, f) = PlannerFinished(x)
  <2>1. CASE \/ f.event = "implement_finished" /\ h.orch # "none"
             \/ ~Allowed(h.status, f.event)
    BY <2>1 DEF SignalApplied
  <2>2. CASE ~ \/ f.event = "implement_finished" /\ h.orch # "none"
               \/ ~Allowed(h.status, f.event)
    <3>1. CASE f.event = "implement_finished"
      BY <2>2, <3>1 DEF SignalApplied
    <3>2. CASE f.event = "review_approved"
      BY <2>2, <3>2 DEF SignalApplied
    <3>3. CASE f.event = "review_changes_requested"
      BY <2>2, <3>3 DEF SignalApplied
    <3>4. CASE f.event = "planner_finished"
      BY <2>2, <3>4 DEF SignalApplied
    <3> QED BY <1>9, <3>1, <3>2, <3>3, <3>4
  <2> QED BY <2>1, <2>2
<1> HIDE DEF c, x, y, p, q
<1> QED BY <1>4, <1>6, <1>7, <1>8, <1>10

\* The signals of a scan.
LEMMA SignalsOwing ==
    ASSUME NEW h, HomeOK(h), NEW m, Owing(h, m), NEW files
    PROVE  Owing(SignalsApplied(h, files), m)
<1> DEFINE signals == Scanned(files)
           N == Len(signals)
           T == {x \in Home : HomeOK(x) /\ Owing(x, m)}
<1>1. signals \in Seq(File)
  BY ScannedSeq
<1> HIDE DEF signals
<1>2. PICK g : /\ g[0] = h
               /\ \A k \in 1 .. N : g[k] = SignalApplied(g[k - 1], signals[k])
               /\ \A k \in 0 .. N : HomeOK(g[k])
               /\ InTurn(h, signals) = g[N]
  BY <1>1, InTurnSteps
<1>3. N \in Nat /\ \A k \in 1 .. N : signals[k] \in File
  BY ONLY <1>1
<1> HIDE DEF N
<1>4. g[0] \in T
  BY <1>2 DEF HomeOK
<1>5. \A k \in 1 .. N : g[k - 1] \in T => g[k] \in T
  <2> SUFFICES ASSUME NEW k \in 1 .. N, g[k - 1] \in T PROVE g[k] \in T
    OBVIOUS
  <2>1. HomeOK(g[k - 1]) /\ Owing(g[k - 1], m) /\ signals[k] \in File /\ k \in 0 .. N
    BY <1>3
  <2>2. HomeOK(g[k]) /\ Owing(SignalApplied(g[k - 1], signals[k]), m)
    BY <1>2, <2>1, SignalOwing
  <2>3. Owing(g[k], m) /\ g[k] \in Home
    BY <1>2, <2>2 DEF HomeOK
  <2> QED BY <2>2, <2>3
<1> HIDE DEF T
<1>6. \A k \in 0 .. N : g[k] \in T
  BY <1>3, <1>4, <1>5, StaysIn
<1> DEFINE x == InTurn(h, signals)
<1>7. Owing(x, m) /\ x \in Home
  <2>1. g[N] \in T
    BY <1>3, <1>6
  <2> QED BY <1>2, <2>1 DEF T
<1>8. Owing(Reloaded(x), m)
  <2> HIDE DEF x
  <2>1. Kept(x, Reloaded(x))
    BY <1>7 DEF Reloaded, Kept, Home
  <2> QED BY <1>7, <2>1, KeptOwing
<1>9. SignalsApplied(h, files) = IF files = {} THEN h ELSE Reloaded(x)
  BY DEF SignalsApplied, signals
<1> HIDE DEF x
<1> QED BY <1>8, <1>9

\* The rest of a tick: it opens a dialog only where none is open, and takes from the
\* count only to open the one that was counted.
LEMMA ShownOwing ==
    ASSUME NEW h, HomeOK(h), NEW m, Owing(h, m), NEW v
    PROVE  /\ Owing(DeferredShown(h), m) /\ Owing(ResultsApplied(h, v), m)
           /\ Owing(CoderExitAsked(h, v), m) /\ Owing(AllCompleteShown(h), m)
           /\ Owing(WaveMonitored(h, v), m) /\ Owing(CompletionChecked(h), m)
<1>1. h \in Home /\ (~InOverlay(h) => h.dialog # "plannerDone")
  BY DEF HomeOK, InOverlay
<1>2. Owing(DeferredShown(h), m)
  <2> DEFINE x == [h EXCEPT !.deferred = h.deferred - 1]
  <2>1. CASE h.deferred = 0 \/ InOverlay(h)
    BY <2>1 DEF DeferredShown
  <2>2. CASE ~(h.deferred = 0 \/ InOverlay(h)) /\ h.prompted
    <3>1. DeferredShown(h) = x
      BY <2>2 DEF DeferredShown
    <3>2. x.prompted
      BY <1>1, <2>2 DEF Home
    <3> QED BY <3>1, <3>2 DEF Owing
  <2>3. CASE ~(h.deferred = 0 \/ InOverlay(h)) /\ ~h.prompted
    <3>1. DeferredShown(h) = AskedPlanner(x)
      BY <2>3 DEF DeferredShown
    <3>2. h.deferred - 1 \in Nat
      BY <1>1, <2>3, HomeFields
    <3>3. HomeOK(x)
      <4>1. "none" \in {"none", "menu"} \cup Message /\ "none" \in {"none", "idle", "running"}
        OBVIOUS
      <4> QED BY <3>2, <4>1, RestSet
    <3> HIDE DEF x
    <3> QED BY <3>1, <3>3, DialogsOwing
  <2> QED BY <2>1, <2>2, <2>3
<1>3. Owing(ResultsApplied(h, v), m)
  <2>1. \A ag, s : Kept(h, [h EXCEPT !.agents = ag, !.cached = s])
    BY <1>1 DEF Kept, Home
  <2>2. Kept(h, ResultsApplied(h, v))
    BY <2>1 DEF ResultsApplied
  <2> QED BY <2>2, KeptOwing
<1>4. Owing(CoderExitAsked(h, v), m)
  <2>1. ~InOverlay(h) => Owing(Asked(h, "coderExit"), m)
    BY <1>1, DialogsOwing
  <2> QED BY <2>1 DEF CoderExitAsked
<1>5. \A n : /\ Kept(h, [h EXCEPT !.owed = n])
             /\ ~InOverlay(h) => Owing([Asked(h, "allComplete") EXCEPT !.owed = n], m)
  <2> SUFFICES ASSUME NEW n
               PROVE  /\ Kept(h, [h EXCEPT !.owed = n])
                      /\ ~InOverlay(h) =>
                            Owing([Asked(h, "allComplete") EXCEPT !.owed = n], m)
    OBVIOUS
  <2> DEFINE x == Asked(h, "allComplete")
  <2>1. Kept(h, [h EXCEPT !.owed = n])
    BY <1>1 DEF Kept, Home
  <2>2. ~InOverlay(h) => Owing(x, m)
    BY <1>1, DialogsOwing
  <2>3. x \in Home
    BY <1>1 DEF Asked, Message, Home
  <2> HIDE DEF x
  <2>4. Kept(x, [x EXCEPT !.owed = n])
    BY <2>3 DEF Kept, Home
  <2>5. ~InOverlay(h) => Owing([x EXCEPT !.owed = n], m)
    BY <2>2, <2>4, KeptOwing
  <2> QED BY <2>1, <2>5 DEF x
<1>6. Owing(AllCompleteShown(h), m)
  BY <1>5 DEF AllCompleteShown
<1>7. Owing(WaveMonitored(h, v), m)
  <2> DEFINE bs == [i \in DOMAIN h.agents |->
                       IF h.agents[i].kind = "task"
                       THEN [h.agents[i] EXCEPT !.paused = TRUE, !.complete = TRUE]
                       ELSE h.agents[i]]
             x == [h EXCEPT !.orch = "none", !.agents = bs]
  <2>1. Kept(h, x) /\ InOverlay(x) = InOverlay(h)
    <3> HIDE DEF bs
    <3> QED BY <1>1 DEF Kept, Home, InOverlay
  <2>2. Kept(x, [x EXCEPT !.owed = x.owed + 1])
    <3> HIDE DEF bs
    <3> QED BY <1>1 DEF Kept, Home
  <2>3. ~InOverlay(h) => Owing(Asked(x, "allComplete"), m)
    <3>1. Owing(x, m)
      <4> HIDE DEF x
      <4> QED BY <2>1, KeptOwing
    <3>2. x.dialog = h.dialog /\ Asked(x, "allComplete") = [x EXCEPT !.dialog = "allComplete"]
      BY <2>1 DEF Kept, Asked
    <3> DEFINE y == [x EXCEPT !.dialog = "allComplete"]
    <3>4. /\ y.planned = x.planned /\ y.prompted = x.prompted /\ y.planner = x.planner
          /\ y.deferred = x.deferred /\ y.dialog = "allComplete"
      <4> HIDE DEF bs
      <4> QED BY <1>1 DEF Home
    <3> HIDE DEF x, y
    <3>5. ~InOverlay(h) => Owing(y, m)
      BY <1>1, <3>1, <3>2, <3>4 DEF Owing
    <3> QED BY <3>2, <3>5 DEF y
  <2>4. \/ WaveMonitored(h, v) = h
        \/ WaveMonitored(h, v) = [x EXCEPT !.owed = x.owed + 1]
        \/ ~InOverlay(h) /\ WaveMonitored(h, v) = Asked(x, "allComplete")
    BY DEF WaveMonitored
  <2>5. Owing([x EXCEPT !.owed = x.owed + 1], m)
    <3> HIDE DEF x
    <3> QED BY <2>1, <2>2, KeptOn, KeptOwing
  <2> HIDE DEF x
  <2> QED BY <2>3, <2>4, <2>5
<1>8. Owing(CompletionChecked(h), m)
  <2> DEFINE S == {i \in DOMAIN h.agents : ~h.agents[i].complete}
             i == CHOOSE k \in S : \A j \in S : k <= j
             x == [h EXCEPT !.agents[i].complete = TRUE]
             y == Tried(x, "implement_finished")
             z == [y EXCEPT !.agents[i].paused = TRUE]
  <2>1. HomeOK(x) /\ Kept(h, x)
    <3> HIDE DEF i
    <3> QED BY <1>1, FlagsSet DEF Kept, Home
  <2>2. HomeOK(y) /\ Kept(x, y)
    <3> HIDE DEF x
    <3> QED BY <2>1, TriedOK, StartsKept
  <2>3. HomeOK(z)
    <3> HIDE DEF y, i
    <3> QED BY <2>2, FlagsSet
  <2>4. Kept(y, z)
    <3> HIDE DEF y, i
    <3> QED BY <2>2 DEF HomeOK, Kept, Home
  <2>5. Kept(z, SpawnedReviewer(z))
    <3> HIDE DEF z
    <3> QED BY <2>3, SpawnedKept
  <2>6. \/ CompletionChecked(h) = h
        \/ CompletionChecked(h) = x
        \/ CompletionChecked(h) = SpawnedReviewer(z)
    <3>1. CASE h.cached # "done" \/ "reviewer" \in Listed(h) \/ S = {}
      BY <3>1 DEF CompletionChecked
    <3>2. CASE ~(h.cached # "done" \/ "reviewer" \in Listed(h) \/ S = {})
      BY <3>2 DEF CompletionChecked
    <3> QED BY <3>1, <3>2
  <2> HIDE DEF x, y, z
  <2>7. Owing(x, m) /\ Owing(SpawnedReviewer(z), m)
    BY <2>1, <2>2, <2>4, <2>5, KeptOn, KeptOwing
  <2> QED BY <2>6, <2>7
<1> QED BY <1>2, <1>3, <1>4, <1>6, <1>7, <1>8

\* The tick as a whole.
LEMMA ApplyOwing ==
    ASSUME TypeOK, Apply, NEW m, Owing(home, m)
    PROVE  Owing(home', m)
<1>1. HomeOK(home) /\ view \in View
  BY TypeParts DEF Apply, RestOK
<1> DEFINE signalled == SignalsApplied(home, view.files)
           shown == DeferredShown(signalled)
           observed == ResultsApplied(shown, view)
           exits == CoderExitAsked(observed, view)
           asked == AllCompleteShown(exits)
           waves == WaveMonitored(asked, view)
<1>2. home' = CompletionChecked(waves)
  BY DEF Apply
<1>3. HomeOK(signalled) /\ Owing(signalled, m)
  BY <1>1, SignalsOK, SignalsOwing
<1>4. HomeOK(shown) /\ Owing(shown, m)
  <2> HIDE DEF signalled
  <2> QED BY <1>3, DeferredOK, ShownOwing
<1>5. HomeOK(observed) /\ Owing(observed, m)
  <2> HIDE DEF shown
  <2> QED BY <1>1, <1>4, ResultsOK, ShownOwing
<1>6. HomeOK(exits) /\ Owing(exits, m)
  <2> HIDE DEF observed
  <2> QED BY <1>5, PromptsOK, ShownOwing
<1>7. HomeOK(asked) /\ Owing(asked, m)
  <2> HIDE DEF exits
  <2> QED BY <1>6, PromptsOK, ShownOwing
<1>8. HomeOK(waves) /\ Owing(waves, m)
  <2> HIDE DEF asked
  <2> QED BY <1>7, MonitoredOK, ShownOwing
<1> HIDE DEF waves
<1> QED BY <1>2, <1>8, ShownOwing

\* An answer: it takes the dialog away and sends its message.
LEMMA AnswerOwing ==
    ASSUME TypeOK, FinishedIsOwed, Confirm \/ Decline
    PROVE  Owing(home', msgs'["plannerDone"])
<1>1. HomeOK(home) /\ home \in Home /\ msgs \in [Message -> 0 .. 2]
  BY TypeParts DEF RestOK, HomeOK
<1>2. "plannerDone" \in Message /\ msgs["plannerDone"] \in 0 .. 2
  BY <1>1 DEF Message
<1>3. CASE Confirm
  <2>1. /\ home.dialog \in Message /\ home' = Asked(home, "none")
        /\ msgs' = [msgs EXCEPT ![home.dialog] = @ + 1]
    BY <1>3 DEF Confirm
  <2>2. CASE home.dialog = "plannerDone"
    <3>1. msgs'["plannerDone"] > 0
      BY <1>1, <1>2, <2>1, <2>2
    <3>2. home'.dialog = "none"
      BY <1>1, <2>1 DEF Asked, Home
    <3> QED BY <3>1, <3>2 DEF Owing
  <2>3. CASE home.dialog # "plannerDone"
    <3>1. msgs'["plannerDone"] = msgs["plannerDone"]
      BY <1>1, <1>2, <2>1, <2>3
    <3> QED BY <1>1, <2>1, <2>3, <3>1, DialogsOwing DEF FinishedIsOwed
  <2> QED BY <2>2, <2>3
<1>4. CASE Decline
  BY <1>1, <1>4, DialogsOwing DEF Decline, FinishedIsOwed
<1> QED BY <1>3, <1>4

\* A message.  That of the planner's dialog settles it, whatever becomes of its walk.
LEMMA ArrivalOwing ==
    ASSUME TypeOK, FinishedIsOwed, Arrival
    PROVE  Owing(home', msgs'["plannerDone"])
<1> DEFINE m == msgs["plannerDone"]
<1>1. /\ HomeOK(home) /\ home \in Home /\ msgs \in [Message -> 0 .. 2] /\ Owing(home, m)
  BY TypeParts DEF RestOK, HomeOK, FinishedIsOwed
<1>2. ASSUME NEW d \in Message, d # "plannerDone", NEW x, Handled(d, x), Owing(x, m)
      PROVE  Owing(home', msgs'["plannerDone"])
  <2>1. msgs' = [msgs EXCEPT ![d] = @ - 1] /\ home' = x
    BY <1>2 DEF Handled
  <2>2. msgs'["plannerDone"] = m
    BY <1>1, <1>2, <2>1
  <2> QED BY <1>2, <2>1, <2>2
<1>3. {"plannerDone", "coderExit", "allComplete", "cancel", "merge", "startOver"} = Message
  BY DEF Message
<1>4. HomeOK(SessionsKilled) /\ Kept(home, SessionsKilled)
  BY <1>1, SessionsKilledOK DEF SessionsKilled, Kept, Home
<1>5. CASE PlannerComplete
  <2>1. PICK text \in Text :
           Handled("plannerDone", Implemented(PlannerSettled(home), text))
    BY <1>5 DEF PlannerComplete
  <2> DEFINE x == PlannerSettled(home)
  <2>2. HomeOK(x) /\ x.prompted
    BY <1>1, PlannerOK, DialogsOwing
  <2>3. Kept(x, Implemented(x, text)) /\ home' = Implemented(x, text)
    <3> HIDE DEF x
    <3>1. Kept(x, Implemented(x, text))
      BY <2>2, StartsKept
    <3> QED BY <2>1, <3>1 DEF Handled, x
  <2>4. home'.prompted
    BY <2>2, <2>3 DEF Kept
  <2> QED BY <2>4 DEF Owing
<1>6. CASE AllComplete
  <2> DEFINE x == Tried(home, "implement_finished")
             y == Reloaded(x)
  <2>1. HomeOK(x) /\ Kept(home, x)
    BY <1>1, TriedOK, StartsKept
  <2>2. HomeOK(y) /\ Kept(x, y)
    <3> HIDE DEF x
    <3> QED BY <2>1, ReloadedOK DEF Reloaded, HomeOK, Kept, Home
  <2>3. Kept(y, SpawnedReviewer(y))
    <3> HIDE DEF y
    <3> QED BY <2>2, SpawnedKept
  <2>4. Handled("allComplete", SpawnedReviewer(y))
    BY <1>6 DEF AllComplete
  <2> HIDE DEF x, y
  <2>5. Owing(SpawnedReviewer(y), m)
    BY <1>1, <2>1, <2>2, <2>3, KeptOn, KeptOwing
  <2> QED BY <1>2, <1>3, <2>4, <2>5
<1>7. CASE CoderComplete
  <2> DEFINE w == Tried(home, "implement_finished")
             x == PausedFirst(w, CoderKinds, TRUE)
             y == Reloaded(x)
  <2>0. HomeOK(w) /\ Kept(home, w)
    BY <1>1, TriedOK, StartsKept
  <2>1. HomeOK(x) /\ Kept(w, x)
    <3> HIDE DEF w
    <3> QED BY <2>0, PausedFirstOK, AgentsKept
  <2>2. HomeOK(y) /\ Kept(x, y)
    <3> HIDE DEF x
    <3> QED BY <2>1, ReloadedOK DEF Reloaded, HomeOK, Kept, Home
  <2>3. Kept(y, SpawnedReviewer(y))
    <3> HIDE DEF y
    <3> QED BY <2>2, SpawnedKept
  <2>4. Handled("coderExit", SpawnedReviewer(y))
    BY <1>7 DEF CoderComplete
  <2> HIDE DEF w, x, y
  <2>5. Owing(SpawnedReviewer(y), m)
    BY <1>1, <2>0, <2>1, <2>2, <2>3, KeptOn, KeptOwing
  <2> QED BY <1>2, <1>3, <2>4, <2>5
<1>8. ASSUME NEW d \in {"cancel", "merge", "startOver"}, NEW h, HomeOK(h), Kept(home, h),
             NEW walk, Len(walk) \in Nat,
             Handled(d, IF Walked(h, walk).ok THEN Reloaded(Walked(h, walk).home)
                                              ELSE Walked(h, walk).home)
      PROVE  Owing(home', msgs'["plannerDone"])
  <2> DEFINE w == Walked(h, walk)
             next == IF w.ok THEN Reloaded(w.home) ELSE w.home
  <2>1. Kept(h, next)
    BY <1>8, WalkedKept
  <2>2. Handled(d, next)
    BY <1>8
  <2> HIDE DEF next
  <2>3. Owing(next, m)
    BY <1>1, <1>8, <2>1, KeptOn, KeptOwing
  <2> QED BY <1>2, <1>3, <2>2, <2>3
<1>9. CASE CancelDone
  <2>1. Len(<<"cancel">>) \in Nat /\ Kept(home, home)
    BY WalkLengths DEF Kept
  <2>2. Handled("cancel", IF Walked(home, <<"cancel">>).ok
                          THEN Reloaded(Walked(home, <<"cancel">>).home)
                          ELSE Walked(home, <<"cancel">>).home)
    BY <1>9 DEF CancelDone, After
  <2> QED BY <1>1, <1>8, <2>1, <2>2
<1>10. CASE Merged
  <2> DEFINE walk == MarkDoneWalk(home.captured, home.cached)
  <2>1. Len(walk) \in Nat
    BY WalkLengths
  <2>2. \/ Handled("merge", SessionsKilled)
        \/ Handled("merge", IF Walked(SessionsKilled, walk).ok
                            THEN Reloaded(Walked(SessionsKilled, walk).home)
                            ELSE Walked(SessionsKilled, walk).home)
    BY <1>10 DEF Merged, After
  <2> HIDE DEF walk
  <2>3. CASE Handled("merge", SessionsKilled)
    BY <1>1, <1>2, <1>3, <1>4, <2>3, KeptOwing
  <2> QED BY <1>4, <1>8, <2>1, <2>2, <2>3
<1>11. CASE StartedOver
  <2> DEFINE walk == ForceToPlanningWalk(home.cached)
  <2>1. Len(walk) \in Nat
    BY WalkLengths
  <2>2. \/ Handled("startOver", SessionsKilled)
        \/ Handled("startOver", IF Walked(SessionsKilled, walk).ok
                                THEN Reloaded(Walked(SessionsKilled, walk).home)
                                ELSE Walked(SessionsKilled, walk).home)
    BY <1>11 DEF StartedOver, After
  <2> HIDE DEF walk
  <2>3. CASE Handled("startOver", SessionsKilled)
    BY <1>1, <1>2, <1>3, <1>4, <2>3, KeptOwing
  <2> QED BY <1>4, <1>8, <2>1, <2>2, <2>3
<1> QED BY <1>5, <1>6, <1>7, <1>9, <1>10, <1>11 DEF Arrival

\* The menu opens where no dialog is open, and its entries close nothing but the menu.
LEMMA MenuOwing ==
    ASSUME TypeOK, FinishedIsOwed, Menu
    PROVE  Owing(home', msgs'["plannerDone"])
<1> DEFINE m == msgs["plannerDone"]
<1>1. /\ HomeOK(home) /\ home \in Home /\ Owing(home, m)
  BY TypeParts DEF HomeOK, FinishedIsOwed
<1>2. msgs' = msgs
  BY DEF Menu, OpenMenu, CloseMenu, StartPlan, StartImplement, StartSolo, StartReview,
         RequestReview, ResumeImplement, MarkPlanDone, AskAboutPlan, Chosen
<1>3. SUFFICES Owing(home', m)
  BY <1>2
<1>4. HomeOK(Closed) /\ Closed \in Home
  BY <1>1, AskedOK DEF Closed, HomeOK
<1>5. home.dialog = "menu" => Owing(Closed, m)
  BY <1>1, DialogsOwing DEF Closed
<1>6. ASSUME NEW offered, NEW x, Chosen(offered, x), Kept(Closed, x)
      PROVE  Owing(home', m)
  BY <1>5, <1>6, KeptOwing DEF Chosen
<1>7. ASSUME NEW walk, Len(walk) \in Nat
      PROVE  LET w == Walked(Closed, walk)
                 x == Reloaded(w.home)
             IN /\ Kept(Closed, w.home) /\ Kept(Closed, x) /\ HomeOK(x)
                /\ Kept(Closed, SpawnedReviewer(x))
                /\ \A kind : Kept(Closed, SpawnedAgent(x, kind))
  <2> DEFINE w == Walked(Closed, walk)
             x == Reloaded(w.home)
  <2>1. Kept(Closed, w.home) /\ Kept(Closed, x) /\ HomeOK(x)
    BY <1>4, <1>7, WalkedKept, WalkEnds
  <2> HIDE DEF x, w
  <2>2. Kept(x, SpawnedReviewer(x)) /\ \A kind : Kept(x, SpawnedAgent(x, kind))
    BY <2>1, SpawnedKept
  <2>3. Kept(Closed, SpawnedReviewer(x)) /\ \A kind : Kept(Closed, SpawnedAgent(x, kind))
    BY <2>1, <2>2, KeptOn
  <2> QED BY <2>1, <2>3 DEF x, w
<1>8. CASE OpenMenu
  <2> DEFINE x == Asked(home, "menu")
  <2>1. home' = [x EXCEPT !.menu = home.cached] /\ ~InOverlay(home)
    BY <1>8 DEF OpenMenu
  <2>2. Owing(x, m) /\ HomeOK(x)
    BY <1>1, <2>1, DialogsOwing, AskedOK DEF InOverlay
  <2> HIDE DEF x
  <2>3. Kept(x, home')
    BY <2>1, <2>2 DEF Kept, HomeOK, Home
  <2> QED BY <2>2, <2>3, KeptOwing
<1>9. CASE CloseMenu
  BY <1>5, <1>9 DEF CloseMenu, Closed
<1>10. CASE StartPlan
  <2>1. Kept(Closed, Planning(Closed, <<"plan_start">>))
    BY <1>4, WalkLengths, StartsKept
  <2> QED BY <1>6, <1>10, <2>1 DEF StartPlan
<1>11. CASE StartImplement
  <2>1. PICK text \in Text :
           Chosen({"ready", "planning", "implementing"}, Implemented(Closed, text))
    BY <1>11 DEF StartImplement
  <2>2. Kept(Closed, Implemented(Closed, text))
    BY <1>4, StartsKept
  <2> QED BY <1>6, <2>1, <2>2
<1>12. CASE StartSolo
  <2> DEFINE w == Walked(Closed, SetImplementingWalk(home.cached))
             next == IF w.ok THEN SpawnedAgent(Reloaded(w.home), "solo") ELSE w.home
  <2>1. Kept(Closed, next)
    BY <1>7, WalkLengths
  <2>2. Chosen({"ready", "planning", "implementing"}, next)
    BY <1>12 DEF StartSolo, After
  <2> HIDE DEF next
  <2> QED BY <1>6, <2>1, <2>2
<1>13. CASE StartReview
  <2> DEFINE w == Walked(Closed, SetReviewingWalk(home.cached))
             next == IF w.ok THEN SpawnedAgent(Reloaded(w.home), "reviewer") ELSE w.home
  <2>1. Kept(Closed, next)
    BY <1>7, WalkLengths
  <2>2. Chosen({"ready", "planning", "implementing", "reviewing"}, next)
    BY <1>13 DEF StartReview, After
  <2> HIDE DEF next
  <2> QED BY <1>6, <2>1, <2>2
<1>14. CASE RequestReview
  <2> DEFINE w == Walked(Closed, <<"request_review">>)
             next == IF w.ok THEN SpawnedReviewer(Reloaded(w.home)) ELSE w.home
  <2>1. Kept(Closed, next)
    BY <1>7, WalkLengths
  <2>2. Chosen({"done"}, next)
    BY <1>14 DEF RequestReview, After
  <2> HIDE DEF next
  <2> QED BY <1>6, <2>1, <2>2
<1>15. CASE ResumeImplement
  <2> DEFINE w == Walked(Closed, <<"reimplement">>)
             next == IF w.ok THEN Reloaded(w.home) ELSE w.home
  <2>1. Kept(Closed, next)
    BY <1>7, WalkLengths
  <2>2. Chosen({"done"}, next)
    BY <1>15 DEF ResumeImplement, After
  <2> HIDE DEF next
  <2> QED BY <1>6, <2>1, <2>2
<1>16. CASE MarkPlanDone
  <2> DEFINE w == Walked(Closed, MarkDoneWalk(home.cached, home.cached))
             next == IF w.ok THEN Reloaded(w.home) ELSE w.home
  <2>1. Kept(Closed, next)
    BY <1>7, WalkLengths
  <2>2. Chosen(Status, next)
    BY <1>16 DEF MarkPlanDone, After
  <2> HIDE DEF next
  <2> QED BY <1>6, <2>1, <2>2
<1>17. CASE AskAboutPlan
  <2>1. PICK d \in {"cancel", "merge", "startOver"} :
           Chosen(Status, [Asked(home, d) EXCEPT !.captured = home.cached])
    BY <1>17 DEF AskAboutPlan
  <2> DEFINE x == Asked(home, d)
  <2>2. home' = [x EXCEPT !.captured = home.cached] /\ home.dialog = "menu"
    BY <2>1 DEF Chosen
  <2>3. Owing(x, m) /\ HomeOK(x)
    BY <1>1, <2>2, DialogsOwing, AskedOK DEF Message
  <2> HIDE DEF x
  <2>4. Kept(x, home')
    BY <2>2, <2>3 DEF Kept, HomeOK, Home
  <2> QED BY <2>3, <2>4, KeptOwing
<1> QED BY <1>8, <1>9, <1>10, <1>11, <1>12, <1>13, <1>14, <1>15, <1>16, <1>17 DEF Menu

\* The agents and the user's acts on them.
LEMMA AgentsOwing ==
    ASSUME TypeOK, FinishedIsOwed, AgentReports \/ TaskIdle \/ AgentExits \/ KillAgent
    PROVE  Owing(home', msgs'["plannerDone"])
<1>1. home \in Home
  BY TypeParts DEF HomeOK
<1>2. /\ \A F : Kept(home, [home EXCEPT !.files = F])
      /\ \A b : Kept(home, [home EXCEPT !.idle = b])
      /\ \A S : Kept(home, [home EXCEPT !.sessions = S])
  BY <1>1 DEF Kept, Home
<1>m. msgs' = msgs
  BY DEF AgentReports, Report, TaskIdle, AgentExits, KillAgent
<1>3. CASE AgentReports
  <2>1. PICK F : home' = [home EXCEPT !.files = F]
    BY <1>3 DEF AgentReports, Report
  <2> QED BY <1>2, <2>1, <1>m, KeptOwing DEF FinishedIsOwed
<1>4. CASE TaskIdle
  <2>1. home' = [home EXCEPT !.idle = TRUE]
    BY <1>4 DEF TaskIdle
  <2> QED BY <1>2, <2>1, <1>m, KeptOwing DEF FinishedIsOwed
<1>5. CASE AgentExits
  <2>1. PICK S : home' = [home EXCEPT !.sessions = S]
    BY <1>5 DEF AgentExits
  <2> QED BY <1>2, <2>1, <1>m, KeptOwing DEF FinishedIsOwed
<1>6. CASE KillAgent
  <2>1. PICK ag, S : home' = [home EXCEPT !.agents = ag, !.sessions = S]
    BY <1>6 DEF KillAgent
  <2>2. Kept(home, [home EXCEPT !.agents = ag, !.sessions = S])
    BY <1>1 DEF Kept, Home
  <2> QED BY <2>1, <2>2, <1>m, KeptOwing DEF FinishedIsOwed
<1> QED BY <1>3, <1>4, <1>5, <1>6

\* The planner's signal is deleted when it is applied, and the dialog about its plan may
\* not open then.  The end is not lost: it is counted, asked or answered in every state.
THEOREM FinishedIsOwedTheorem == Spec => []FinishedIsOwed
<1>1. Init => FinishedIsOwed
  <2> SUFFICES ASSUME Init PROVE FinishedIsOwed
    OBVIOUS
  <2>1. ~home.planned /\ home.dialog = "none"
    BY DEF Init
  <2> QED BY <2>1 DEF FinishedIsOwed, Owing
<1>2. TypeOK /\ FinishedIsOwed /\ [Next]_vars => FinishedIsOwed'
  <2> SUFFICES ASSUME TypeOK, FinishedIsOwed, [Next]_vars
               PROVE  Owing(home', msgs'["plannerDone"])
    BY DEF FinishedIsOwed
  <2>1. CASE Collect
    <3>1. home' = home /\ msgs' = msgs
      BY <2>1 DEF Collect
    <3> QED BY <3>1 DEF FinishedIsOwed
  <2>2. CASE Apply
    <3>1. msgs' = msgs
      BY <2>2 DEF Apply
    <3> QED BY <2>2, <3>1, ApplyOwing DEF FinishedIsOwed
  <2>3. CASE UNCHANGED vars
    <3>1. home' = home /\ msgs' = msgs
      BY <2>3 DEF vars
    <3> QED BY <3>1 DEF FinishedIsOwed
  <2> QED BY <2>1, <2>2, <2>3, AnswerOwing, ArrivalOwing, MenuOwing, AgentsOwing DEF Next
<1> QED BY <1>1, <1>2, TypeCorrect, PTL DEF Spec
=============================================================================
