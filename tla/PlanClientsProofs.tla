-------------------------- MODULE PlanClientsProofs --------------------------
(***************************************************************************)
(* Proofs about PlanClients.                                               *)
(***************************************************************************)
EXTENDS PlanClients, Integers, TLAPS

(* The sequences operations are made of. *)

\* Modes, arguments and steps as sets.
Mode == {"must", "soft", "always"}
Arg  == Event \cup Status \cup Meta \cup Topics \cup Text \cup Names
Steps == [do : Do, name : Names, arg : Arg, mode : Mode]
TypedSteps == {step \in Steps : ArgOK(step)}

\* What is stored, cached and shown, typed.
StateTypeOK ==
    /\ StoreTypeOK
    /\ cache \in [Names -> Meta \cup {NoPlan}]
    /\ file \in [Names -> Text \cup {NoFile}]
    /\ view = NoView \/ view \in [Names -> Meta \cup {NoPlan}]
    /\ dialog = None \/
         dialog \in [op : {"cancel", "merge", "start_over"}, name : Names, meta : Meta]

\* What the clients are about to do, typed.
ClientTypeOK ==
    /\ todo \in [Clients -> Seq(TypedSteps)]
    /\ goal \in [Clients -> {None} \cup [name : Names, status : Status]]
    /\ ops \in 0 .. MaxOps
    /\ faults \in 0 .. MaxFaults

\* TypeOK with the steps typed as elements of sequences.
TypeInv == StateTypeOK /\ ClientTypeOK

\* A step made by a handler is a typed one if its argument fits.
LEMMA StepTyped ==
    ASSUME NEW do \in Do, NEW n \in Names, NEW arg \in Arg, NEW mode \in Mode,
           ArgOK(Step(do, n, arg, mode))
    PROVE  Step(do, n, arg, mode) \in TypedSteps
BY DEF Step, TypedSteps, Steps

\* The fields of a step.
LEMMA StepFields ==
    ASSUME NEW do, NEW n, NEW arg, NEW mode
    PROVE  /\ Step(do, n, arg, mode).do = do /\ Step(do, n, arg, mode).name = n
           /\ Step(do, n, arg, mode).arg = arg /\ Step(do, n, arg, mode).mode = mode
BY DEF Step

\* A row that is there is an entry.
LEMMA EntryTyped ==
    ASSUME NEW f \in [Names -> Meta \cup {NoPlan}], NEW n \in Names, f[n] # NoPlan
    PROVE  /\ f[n] \in Meta
           /\ f[n] = [status |-> f[n].status, topic |-> f[n].topic, branch |-> f[n].branch]
           /\ f[n].status \in Status \cup LegacyStatus
           /\ f[n].topic \in Topics \cup {""} /\ f[n].branch \in {"", "plan"}
BY DEF Meta

\* An entry is not the absence of one.
LEMMA EntryIsThere == ASSUME NEW m \in Meta PROVE m # NoPlan
BY NoPlanAssumption DEF Meta

\* Entries with one field replaced are entries.
LEMMA ReplacedTyped ==
    ASSUME NEW m \in Meta
    PROVE  /\ \A s \in Status : [m EXCEPT !.status = s] \in Meta
           /\ \A t \in Topics \cup {""} : [m EXCEPT !.topic = t] \in Meta
           /\ [m EXCEPT !.branch = "plan"] \in Meta
BY DEF Meta

\* Short sequences.
LEMMA ShortSeqs ==
    ASSUME NEW S
    PROVE  /\ << >> \in Seq(S)
           /\ \A x \in S : <<x>> \in Seq(S)
           /\ \A x, y \in S : <<x, y>> \in Seq(S)
           /\ \A x \in Seq(S), y \in Seq(S) : x \o y \in Seq(S)
OBVIOUS

\* Every walk is a sequence of events.
LEMMA WalksTyped ==
    ASSUME NEW s, NEW t
    PROVE  /\ SetImplementingWalk(s) \in Seq(Event)
           /\ SetReviewingWalk(s) \in Seq(Event)
           /\ MarkDoneWalk(t, s) \in Seq(Event)
           /\ RevertToPlanningWalk(s) \in Seq(Event)
           /\ ForceToPlanningWalk(s) \in Seq(Event)
<1>0. /\ << >> \in Seq(Event)
      /\ \A x \in Event : <<x>> \in Seq(Event)
      /\ \A x, y \in Event : <<x, y>> \in Seq(Event)
      /\ \A x \in Seq(Event), y \in Seq(Event) : x \o y \in Seq(Event)
  BY ShortSeqs
<1>e. /\ "plan_start" \in Event /\ "planner_finished" \in Event
      /\ "implement_start" \in Event /\ "implement_finished" \in Event
      /\ "review_approved" \in Event /\ "start_over" \in Event
      /\ "cancel" \in Event /\ "reopen" \in Event
  BY DEF Event
<1>w. /\ <<"planner_finished", "implement_start">> \in Seq(Event)
      /\ <<"cancel", "reopen">> \in Seq(Event)
      /\ <<"implement_start">> \in Seq(Event)
      /\ <<"implement_finished">> \in Seq(Event)
      /\ <<"review_approved">> \in Seq(Event)
      /\ <<"start_over">> \in Seq(Event) /\ <<"reopen">> \in Seq(Event)
  BY <1>0, <1>e, Zenon
<1> HIDE DEF Event
<1>1. SetImplementingWalk(s) \in Seq(Event)
  BY <1>0, <1>w, Zenon DEF SetImplementingWalk
<1>2. SetReviewingWalk(s) \in Seq(Event)
  BY <1>0, <1>w, <1>1, Zenon DEF SetReviewingWalk
<1>3. MarkDoneWalk(t, s) \in Seq(Event)
  BY <1>0, <1>w, <1>2, Zenon DEF MarkDoneWalk
<1>4. RevertToPlanningWalk(s) \in Seq(Event)
  BY <1>0, <1>w, Zenon DEF RevertToPlanningWalk
<1>5. ForceToPlanningWalk(s) \in Seq(Event)
  BY <1>0, <1>w, Zenon DEF ForceToPlanningWalk
<1> QED BY <1>1, <1>2, <1>3, <1>4, <1>5

\* The steps of a walk are typed.
LEMMA TransitionsTyped ==
    ASSUME NEW n \in Names, NEW walk \in Seq(Event)
    PROVE  Transitions(n, walk) \in Seq(TypedSteps)
<1>1. \A i \in 1 .. Len(walk) : Step("transition", n, walk[i], "must") \in TypedSteps
  <2> TAKE i \in 1 .. Len(walk)
  <2>1. walk[i] \in Event
    OBVIOUS
  <2> QED BY <2>1, StepTyped DEF Do, Mode, Arg, ArgOK, Step
<1> QED BY <1>1 DEF Transitions

\* One event of a sentinel file or a dialog is a walk.
LEMMA OneEvent ==
    ASSUME NEW e \in Event PROVE <<e>> \in Seq(Event)
OBVIOUS

\* The single steps the operations append.
LEMMA AppendedTyped ==
    ASSUME NEW n \in Names
    PROVE  /\ Backfill(n) \in Seq(TypedSteps)
           /\ Reload(n) \in Seq(TypedSteps)
           /\ Spawn(n) \in Seq(TypedSteps)
           /\ << Step("backfill", n, "", "soft") >> \in Seq(TypedSteps)
           /\ << Step("refresh", n, "", "must") >> \in Seq(TypedSteps)
           /\ << Step("reload", n, "", "always") >> \in Seq(TypedSteps)
           /\ << Step("fetch", n, "", "must") >> \in Seq(TypedSteps)
<1>1. \A do \in {"backfill", "reload", "spawn", "refresh", "fetch"}, mode \in Mode :
         Step(do, n, "", mode) \in TypedSteps
  BY StepTyped DEF Do, Arg, ArgOK, Step, Text
<1>2. /\ Step("backfill", n, "", "must") \in TypedSteps
      /\ Step("reload", n, "", "must") \in TypedSteps
      /\ Step("spawn", n, "", "must") \in TypedSteps
      /\ Step("backfill", n, "", "soft") \in TypedSteps
      /\ Step("refresh", n, "", "must") \in TypedSteps
      /\ Step("reload", n, "", "always") \in TypedSteps
      /\ Step("fetch", n, "", "must") \in TypedSteps
  BY <1>1 DEF Mode
<1> QED BY <1>2, ShortSeqs, Zenon DEF Backfill, Reload, Spawn

\* The single steps that carry something to the store.
LEMMA WritesTyped ==
    ASSUME NEW n \in Names, NEW mode \in Mode
    PROVE  /\ \A m \in Meta : /\ << Step("update", n, m, mode) >> \in Seq(TypedSteps)
                              /\ << Step("create", n, m, mode) >> \in Seq(TypedSteps)
           /\ \A t \in Topics : << Step("topic", n, t, mode) >> \in Seq(TypedSteps)
           /\ \A x \in Text : /\ << Step("content", n, x, mode) >> \in Seq(TypedSteps)
                              /\ << Step("write", n, x, mode) >> \in Seq(TypedSteps)
           /\ \A m \in Names : << Step("rename", n, m, mode) >> \in Seq(TypedSteps)
           /\ \A e \in Event : << Step("transition", n, e, mode) >> \in Seq(TypedSteps)
           /\ \A s \in Status : << Step("force", n, s, mode) >> \in Seq(TypedSteps)
           /\ << Step("register", n, "", mode) >> \in Seq(TypedSteps)
           /\ << Step("implement", n, "", mode) >> \in Seq(TypedSteps)
<1>1. \A m \in Meta : Step("update", n, m, mode) \in TypedSteps
                      /\ Step("create", n, m, mode) \in TypedSteps
  BY StepTyped DEF Do, Arg, ArgOK, Step
<1>2. \A t \in Topics : Step("topic", n, t, mode) \in TypedSteps
  BY StepTyped DEF Do, Arg, ArgOK, Step
<1>3. \A x \in Text : Step("content", n, x, mode) \in TypedSteps
                      /\ Step("write", n, x, mode) \in TypedSteps
  BY StepTyped DEF Do, Arg, ArgOK, Step
<1>4. \A m \in Names : Step("rename", n, m, mode) \in TypedSteps
  BY StepTyped DEF Do, Arg, ArgOK, Step
<1>5. \A e \in Event : Step("transition", n, e, mode) \in TypedSteps
  BY StepTyped DEF Do, Arg, ArgOK, Step
<1>6. \A s \in Status : Step("force", n, s, mode) \in TypedSteps
  BY StepTyped DEF Do, Arg, ArgOK, Step
<1>7. Step("register", n, "", mode) \in TypedSteps
      /\ Step("implement", n, "", mode) \in TypedSteps
  BY StepTyped DEF Do, Arg, ArgOK, Step, Text
<1>s. \A step \in TypedSteps : <<step>> \in Seq(TypedSteps)
  BY ShortSeqs
<1> QED BY <1>1, <1>2, <1>3, <1>4, <1>5, <1>6, <1>7, <1>s, Zenon

----------------------------------------------------------------------------
(* Type correctness. *)

\* What a client has to do next.
LEMMA HeadTyped ==
    ASSUME NEW c \in Clients, ClientTypeOK, ~Idle(c)
    PROVE  /\ Next1(c) \in TypedSteps
           /\ Tail(todo[c]) \in Seq(TypedSteps)
           /\ Next1(c).do \in Do /\ Next1(c).name \in Names /\ Next1(c).mode \in Mode
           /\ ArgOK(Next1(c))
<1>1. todo[c] \in Seq(TypedSteps) /\ todo[c] # << >>
  BY DEF ClientTypeOK, Idle
<1>2. Next1(c) \in TypedSteps /\ Tail(todo[c]) \in Seq(TypedSteps)
  <2> DEFINE s == todo[c]
  <2>1. s \in Seq(TypedSteps) /\ s # << >>
    BY <1>1
  <2> HIDE DEF s
  <2>2. Len(s) >= 1
    BY <2>1
  <2>3. Head(s) \in TypedSteps /\ Tail(s) \in Seq(TypedSteps)
    BY <2>1, <2>2
  <2> QED BY <2>3 DEF s, Next1
<1> QED BY <1>2 DEF TypedSteps, Steps

\* One client's steps and goal are replaced.
LEMMA ReplacedSteps ==
    ASSUME NEW c \in Clients, ClientTypeOK, NEW s \in Seq(TypedSteps),
           todo' = [todo EXCEPT ![c] = s]
    PROVE  todo' \in [Clients -> Seq(TypedSteps)]
BY DEF ClientTypeOK

\* An operation begins with typed steps.
LEMMA BeginTyped ==
    ASSUME NEW c \in Clients, ClientTypeOK, NEW s \in Seq(TypedSteps),
           NEW announced \in {None} \cup [name : Names, status : Status],
           Begin(c, s, announced)
    PROVE  ClientTypeOK' /\ UNCHANGED <<rows, topics, content>>
<1>1. todo' \in [Clients -> Seq(TypedSteps)]
  BY ReplacedSteps DEF Begin
<1>2. goal' \in [Clients -> {None} \cup [name : Names, status : Status]]
  BY DEF Begin, ClientTypeOK
<1>3. ops' \in 0 .. MaxOps /\ faults' = faults
  BY ClientsAssumption DEF Begin, ClientTypeOK
<1> QED BY <1>1, <1>2, <1>3 DEF ClientTypeOK, Begin

\* Proceeding replaces the current step by typed ones.
LEMMA ProceedTyped ==
    ASSUME NEW c \in Clients, ClientTypeOK, ~Idle(c), NEW s \in Seq(TypedSteps),
           Proceed(c, s)
    PROVE  todo' \in [Clients -> Seq(TypedSteps)]
<1>1. s \o Tail(todo[c]) \in Seq(TypedSteps)
  BY HeadTyped
<1> QED BY <1>1, ReplacedSteps DEF Proceed

\* What is left after an error is typed.
LEMMA GiveUpTyped ==
    ASSUME NEW c \in Clients, ClientTypeOK, ~Idle(c), GiveUp(c)
    PROVE  /\ todo' \in [Clients -> Seq(TypedSteps)]
           /\ goal' \in [Clients -> {None} \cup [name : Names, status : Status]]
<1>1. Tail(todo[c]) \in Seq(TypedSteps)
  BY HeadTyped
<1>2. Unskippable(Tail(todo[c])) \in Seq(TypedSteps)
  <2> DEFINE s == Tail(todo[c])
  <2>1. s \in Seq(TypedSteps)
    BY <1>1
  <2> HIDE DEF s
  <2>2. ASSUME s # << >> PROVE s[Len(s)] \in TypedSteps
    <3>1. Len(s) \in 1 .. Len(s)
      BY <2>1, <2>2
    <3> QED BY <2>1, <3>1
  <2>3. Unskippable(s) \in Seq(TypedSteps)
    BY <2>2, ShortSeqs, Zenon DEF Unskippable
  <2> QED BY <2>3 DEF s
<1>3. todo' = [todo EXCEPT ![c] = Unskippable(Tail(todo[c]))]
      \/ todo' = [todo EXCEPT ![c] = Tail(todo[c])]
  BY DEF GiveUp
<1>4. todo' \in [Clients -> Seq(TypedSteps)]
  BY <1>1, <1>2, <1>3, ReplacedSteps
<1>5. goal' \in [Clients -> {None} \cup [name : Names, status : Status]]
  BY DEF GiveUp, ClientTypeOK
<1> QED BY <1>4, <1>5

\* A failing call is counted.
LEMMA FaultTyped ==
    ASSUME ClientTypeOK, Fault PROVE faults' \in 0 .. MaxFaults
BY ClientsAssumption DEF ClientTypeOK, Fault

\* "tui" and the goroutines are clients.
LEMMA ClientNames ==
    /\ "tui" \in Clients
    /\ \A g \in Goroutines : g \in Clients
    /\ \A c \in Commands : c \in Clients
BY DEF Clients

\* Goals are typed.
LEMMA GoalTyped ==
    ASSUME NEW n \in Names, NEW s \in Status
    PROVE  Announce(n, s) \in {None} \cup [name : Names, status : Status]
BY DEF Announce

\* Boot.
LEMMA InitTyped == ASSUME Init PROVE TypeInv
<1>1. rows \in [Names -> Meta \cup {NoPlan}]
  BY ClientsAssumption DEF Init
<1>2. topics \subseteq Topics
  <2>1. \A n \in {m \in Names : rows[m] # NoPlan} : rows[n].topic \in Topics \cup {""}
    BY <1>1, EntryTyped
  <2>2. topics = {rows[n].topic : n \in {m \in Names : rows[m] # NoPlan}} \ {""}
    BY DEF Init
  <2> QED BY <2>1, <2>2
<1>3. StateTypeOK
  BY <1>1, <1>2 DEF Init, StateTypeOK, StoreTypeOK, Load, List, Text
<1>4. << >> \in Seq(TypedSteps)
  BY ShortSeqs
<1>5. ClientTypeOK
  <2>1. todo \in [Clients -> Seq(TypedSteps)]
    BY <1>4 DEF Init
  <2>2. goal \in [Clients -> {None} \cup [name : Names, status : Status]]
    BY DEF Init
  <2>3. ops \in 0 .. MaxOps /\ faults \in 0 .. MaxFaults
    <3>1. MaxOps \in Nat /\ MaxFaults \in Nat
      BY ClientsAssumption
    <3>2. ops = 0 /\ faults = 0
      BY DEF Init
    <3> QED BY <3>1, <3>2
  <2> QED BY <2>1, <2>2, <2>3 DEF ClientTypeOK
<1> QED BY <1>3, <1>5 DEF TypeInv

\* The stages and the context menu leave everything but the clients alone.
LEMMA StageTyped ==
    ASSUME TypeInv, NEW n \in Names,
           \/ StagePlan(n) \/ StageSolo(n) \/ StageImplement(n) \/ StageReview(n)
           \/ StageFinished(n) \/ StageRefused(n) \/ MarkPlanDone(n) \/ RequestReview(n)
           \/ ResumeImplement(n) \/ ModifyPlan(n) \/ ImplementationComplete(n)
    PROVE  /\ ClientTypeOK'
           /\ UNCHANGED <<rows, topics, content, cache, file, view, dialog>>
<1> DEFINE Seqs == Seq(TypedSteps)
<1>c. \A x \in Seqs, y \in Seqs : x \o y \in Seqs
  BY ShortSeqs
<1>t. "tui" \in Clients
  BY ClientNames
<1>a. /\ Backfill(n) \in Seqs /\ Reload(n) \in Seqs /\ Spawn(n) \in Seqs
      /\ << Step("backfill", n, "", "soft") >> \in Seqs
  BY AppendedTyped
<1>w. \A walk \in Seq(Event) : Transitions(n, walk) \in Seqs
  BY TransitionsTyped
<1>e. \A e \in Event : <<e>> \in Seq(Event)
  BY OneEvent
<1>f. /\ <<"plan_start">> \in Seq(Event) /\ <<"review_approved">> \in Seq(Event)
      /\ <<"request_review">> \in Seq(Event) /\ <<"reimplement">> \in Seq(Event)
  BY <1>e DEF Event
<1>g. \A s \in Status : Announce(n, s) \in {None} \cup [name : Names, status : Status]
  BY GoalTyped
<1>h. ClientTypeOK
  BY DEF TypeInv
<1>i. \A s \in Seqs, a \in {None} \cup [name : Names, status : Status] :
         Begin("tui", s, a) => ClientTypeOK' /\ UNCHANGED <<rows, topics, content>>
  BY <1>h, <1>t, BeginTyped
<1>j. \A s \in Seqs, a \in {None} \cup [name : Names, status : Status] :
         UserBegins(n, s, a) => ClientTypeOK' /\ UNCHANGED <<rows, topics, content>>
  BY <1>i DEF UserBegins
<1>s. "planning" \in Status /\ "implementing" \in Status /\ "reviewing" \in Status
      /\ "done" \in Status
  BY DEF Status
<1> HIDE DEF Seqs
<1>1. CASE StagePlan(n)
  <2>1. Backfill(n) \o Transitions(n, <<"plan_start">>) \o Reload(n) \o Spawn(n) \in Seqs
    BY <1>c, <1>a, <1>w, <1>f
  <2> QED BY <1>1, <2>1, <1>j, <1>g, <1>s DEF StagePlan
<1>2. CASE StageSolo(n)
  <2>1. Backfill(n) \o Transitions(n, SetImplementingWalk(cache[n].status))
          \o Reload(n) \o Spawn(n) \in Seqs
    BY <1>c, <1>a, <1>w, WalksTyped
  <2> QED BY <1>2, <2>1, <1>j, <1>g, <1>s DEF StageSolo
<1>3. CASE StageImplement(n)
  <2>1. Backfill(n) \o Transitions(n, RevertToPlanningWalk(cache[n].status))
          \o Reload(n) \o Spawn(n) \in Seqs
    BY <1>c, <1>a, <1>w, WalksTyped
  <2>2. Backfill(n) \o Transitions(n, SetImplementingWalk(cache[n].status))
          \o Reload(n) \in Seqs
    BY <1>c, <1>a, <1>w, WalksTyped
  <2> QED BY <1>3, <2>1, <2>2, <1>j, <1>g, <1>s DEF StageImplement
<1>4. CASE StageReview(n)
  <2>1. Backfill(n) \o Transitions(n, SetReviewingWalk(cache[n].status))
          \o Reload(n) \in Seqs
    BY <1>c, <1>a, <1>w, WalksTyped
  <2> QED BY <1>4, <2>1, <1>j, <1>g, <1>s DEF StageReview
<1>5. CASE StageFinished(n)
  <2>1. Backfill(n) \o Transitions(n, <<"review_approved">>) \o Reload(n) \in Seqs
    BY <1>c, <1>a, <1>w, <1>f
  <2> QED BY <1>5, <2>1, <1>j, <1>g, <1>s DEF StageFinished
<1>6. CASE StageRefused(n)
  BY <1>6, <1>a, <1>j DEF StageRefused
<1>7. CASE MarkPlanDone(n)
  <2>1. Transitions(n, MarkDoneWalk(cache[n].status, cache[n].status))
          \o Reload(n) \in Seqs
    BY <1>c, <1>a, <1>w, WalksTyped
  <2> QED BY <1>7, <2>1, <1>j, <1>g, <1>s DEF MarkPlanDone
<1>8. CASE RequestReview(n)
  <2>1. Transitions(n, <<"request_review">>) \o Reload(n)
          \o << Step("backfill", n, "", "soft") >> \in Seqs
    BY <1>c, <1>a, <1>w, <1>f
  <2> QED BY <1>8, <2>1, <1>j, <1>g, <1>s DEF RequestReview
<1>9. CASE ResumeImplement(n)
  <2>1. Transitions(n, <<"reimplement">>) \o Reload(n) \in Seqs
    BY <1>c, <1>a, <1>w, <1>f
  <2> QED BY <1>9, <2>1, <1>j, <1>g, <1>s DEF ResumeImplement
<1>10. CASE ModifyPlan(n)
  <2>1. Transitions(n, <<"plan_start">>) \o Reload(n) \o Spawn(n) \in Seqs
    BY <1>c, <1>a, <1>w, <1>f
  <2> QED BY <1>10, <2>1, <1>j, <1>g, <1>s DEF ModifyPlan
<1>11. CASE ImplementationComplete(n)
  <2>1. << Step("transition", n, "implement_finished", "soft") >> \in Seqs
    BY WritesTyped DEF Mode, Event, Seqs
  <2>2. << Step("transition", n, "implement_finished", "soft") >> \o Reload(n)
          \o << Step("backfill", n, "", "soft") >> \in Seqs
    BY <1>c, <1>a, <2>1
  <2> QED BY <1>11, <2>2, <1>i DEF ImplementationComplete
<1> QED BY <1>1, <1>2, <1>3, <1>4, <1>5, <1>6, <1>7, <1>8, <1>9, <1>10, <1>11

\* The steps of the pickers.
LEMMA PickersTyped ==
    ASSUME NEW n \in Names, NEW t \in Topics \cup {""}, NEW m \in Meta
    PROVE  /\ NewEntry(t) \in Meta
           /\ RegisterSteps(n) \in Seq(TypedSteps)
           /\ CreateSteps(n, t) \in Seq(TypedSteps)
           /\ SetTopicSteps(n, m) \in Seq(TypedSteps)
<1>1. NewEntry(t) \in Meta /\ NewEntry("") \in Meta
  BY DEF NewEntry, Meta, Status
<1>2. "must" \in Mode
  BY DEF Mode
<1>3. RegisterSteps(n) \in Seq(TypedSteps)
  BY <1>1, <1>2, WritesTyped DEF RegisterSteps
<1>4. \A u \in Topics \cup {""} : TopicStep(n, u) \in Seq(TypedSteps)
  BY <1>2, WritesTyped, ShortSeqs DEF TopicStep
<1>5. CreateSteps(n, t) \in Seq(TypedSteps)
  <2>1. << Step("create", n, NewEntry(t), "must") >> \in Seq(TypedSteps)
    BY <1>1, <1>2, WritesTyped
  <2>2. TopicStep(n, t) \in Seq(TypedSteps)
    BY <1>4
  <2> QED BY <2>1, <2>2, ShortSeqs DEF CreateSteps
<1>6. SetTopicSteps(n, m) \in Seq(TypedSteps)
  <2>1. m.topic \in Topics \cup {""}
    BY DEF Meta
  <2>2. << Step("update", n, m, "must") >> \in Seq(TypedSteps)
    BY <1>2, WritesTyped
  <2>3. TopicStep(n, m.topic) \in Seq(TypedSteps)
    BY <2>1, <1>4
  <2> QED BY <2>2, <2>3, ShortSeqs DEF SetTopicSteps
<1> QED BY <1>1, <1>3, <1>5, <1>6

\* The pickers, imports and renames.
LEMMA PickerTyped ==
    ASSUME TypeInv,
           \/ \E n \in Names, t \in Topics \cup {""} : ChangeTopic(n, t) \/ CreatePlan(n, t)
           \/ \E n \in Names, s \in Status : SetStatus(n, s)
           \/ \E old, new \in Names : RenamePlan(old, new)
           \/ \E n \in Names : ImportClickUpTask(n)
    PROVE  TypeInv'
<1>c. \A x \in Seq(TypedSteps), y \in Seq(TypedSteps) : x \o y \in Seq(TypedSteps)
  BY ShortSeqs
<1>t. "tui" \in Clients
  BY ClientNames
<1>h. ClientTypeOK /\ cache \in [Names -> Meta \cup {NoPlan}]
  BY DEF TypeInv, StateTypeOK
<1>i. \A s \in Seq(TypedSteps), a \in {None} \cup [name : Names, status : Status] :
         Begin("tui", s, a) => ClientTypeOK' /\ UNCHANGED <<rows, topics, content>>
  BY <1>h, <1>t, BeginTyped
<1>j. \A n \in Names, s \in Seq(TypedSteps),
         a \in {None} \cup [name : Names, status : Status] :
         UserBegins(n, s, a) => ClientTypeOK' /\ UNCHANGED <<rows, topics, content>>
  BY <1>i DEF UserBegins
<1>k. ASSUME ClientTypeOK', UNCHANGED <<rows, topics, content, view, dialog>>,
             cache' \in [Names -> Meta \cup {NoPlan}],
             file' \in [Names -> Text \cup {NoFile}]
      PROVE  TypeInv'
  <2>1. StateTypeOK'
    BY <1>k DEF TypeInv, StateTypeOK, StoreTypeOK
  <2> QED BY <1>k, <2>1 DEF TypeInv
<1>f. file \in [Names -> Text \cup {NoFile}]
  BY DEF TypeInv, StateTypeOK
<1>m. "must" \in Mode /\ "soft" \in Mode
  BY DEF Mode
<1>1. ASSUME NEW n \in Names, NEW t \in Topics \cup {""}, ChangeTopic(n, t)
      PROVE  TypeInv'
  <2> DEFINE entry == [cache[n] EXCEPT !.topic = t]
  <2>1. entry \in Meta
    BY <1>1, <1>h, EntryTyped, ReplacedTyped DEF ChangeTopic
  <2>2. /\ UserBegins(n, SetTopicSteps(n, entry), None)
        /\ cache' = [cache EXCEPT ![n] = entry]
        /\ UNCHANGED <<file, view, dialog>>
    BY <1>1 DEF ChangeTopic
  <2> HIDE DEF entry
  <2>3. SetTopicSteps(n, entry) \in Seq(TypedSteps)
    BY <2>1, PickersTyped
  <2>4. ClientTypeOK' /\ UNCHANGED <<rows, topics, content>>
    BY <2>2, <2>3, <1>j
  <2>5. cache' \in [Names -> Meta \cup {NoPlan}]
    BY <2>1, <2>2, <1>h
  <2> QED BY <2>2, <2>4, <2>5, <1>k, <1>f
<1>2. ASSUME NEW n \in Names, NEW t \in Topics \cup {""}, CreatePlan(n, t)
      PROVE  TypeInv'
  <2>1. CreateSteps(n, t) \o Reload(n) \in Seq(TypedSteps) /\ NewEntry(t) \in Meta
    <3>1. Reload(n) \in Seq(TypedSteps)
      BY AppendedTyped
    <3>2. CreateSteps(n, t) \in Seq(TypedSteps) /\ NewEntry(t) \in Meta
      <4>1. [status |-> "ready", topic |-> t, branch |-> "plan"] \in Meta
        BY DEF Meta, Status
      <4> QED BY <4>1, PickersTyped
    <3> QED BY <3>1, <3>2, <1>c
  <2>2. Announce(n, "ready") \in {None} \cup [name : Names, status : Status]
    BY GoalTyped DEF Status
  <2>3. /\ UserBegins(n, CreateSteps(n, t) \o Reload(n), Announce(n, "ready"))
        /\ cache' = [cache EXCEPT ![n] = NewEntry(t)]
        /\ UNCHANGED <<file, view, dialog>>
    BY <1>2 DEF CreatePlan
  <2>4. ClientTypeOK' /\ UNCHANGED <<rows, topics, content>>
    BY <2>1, <2>2, <2>3, <1>j
  <2>5. cache' \in [Names -> Meta \cup {NoPlan}]
    BY <2>1, <2>3, <1>h
  <2> QED BY <2>3, <2>4, <2>5, <1>k, <1>f
<1>3. ASSUME NEW n \in Names, NEW s \in Status, SetStatus(n, s)
      PROVE  TypeInv'
  <2> DEFINE entry == [cache[n] EXCEPT !.status = s]
  <2>1. entry \in Meta
    BY <1>3, <1>h, EntryTyped, ReplacedTyped DEF SetStatus
  <2>2. /\ UserBegins(n, << Step("update", n, entry, "must") >> \o Reload(n),
                      Announce(n, s))
        /\ cache' = [cache EXCEPT ![n] = entry]
        /\ UNCHANGED <<file, view, dialog>>
    BY <1>3 DEF SetStatus
  <2> HIDE DEF entry
  <2>3. << Step("update", n, entry, "must") >> \o Reload(n) \in Seq(TypedSteps)
    <3>1. << Step("update", n, entry, "must") >> \in Seq(TypedSteps)
      BY <2>1, <1>m, WritesTyped
    <3>2. Reload(n) \in Seq(TypedSteps)
      BY AppendedTyped
    <3> QED BY <3>1, <3>2, <1>c
  <2>4. ClientTypeOK' /\ UNCHANGED <<rows, topics, content>>
    BY <2>2, <2>3, <1>j, GoalTyped
  <2>5. cache' \in [Names -> Meta \cup {NoPlan}]
    BY <2>1, <2>2, <1>h
  <2> QED BY <2>2, <2>4, <2>5, <1>k, <1>f
<1>4. ASSUME NEW old \in Names, NEW new \in Names, RenamePlan(old, new)
      PROVE  TypeInv'
  <2>1. << Step("rename", old, new, "must") >> \in Seq(TypedSteps)
    BY <1>m, WritesTyped
  <2>2. /\ UserBegins(old, << Step("rename", old, new, "must") >>, None)
        /\ file' = IF file[old] = NoFile
                   THEN file
                   ELSE [file EXCEPT ![new] = file[old], ![old] = NoFile]
        /\ cache' = [cache EXCEPT ![new] = cache[old], ![old] = NoPlan]
        /\ UNCHANGED <<view, dialog>>
    BY <1>4 DEF RenamePlan
  <2>3. ClientTypeOK' /\ UNCHANGED <<rows, topics, content>>
    BY <2>1, <2>2, <1>j
  <2>4. cache' \in [Names -> Meta \cup {NoPlan}]
    BY <2>2, <1>h
  <2>5. file' \in [Names -> Text \cup {NoFile}]
    BY <2>2, <1>f
  <2> QED BY <2>2, <2>3, <2>4, <2>5, <1>k
<1>5. ASSUME NEW n \in Names, ImportClickUpTask(n)
      PROVE  TypeInv'
  <2>1. /\ RegisterSteps(n) \in Seq(TypedSteps)
        /\ Reload(n) \in Seq(TypedSteps) /\ Spawn(n) \in Seq(TypedSteps)
        /\ NewEntry("") \in Meta
    <3>1. [status |-> "ready", topic |-> "", branch |-> "plan"] \in Meta
      BY DEF Meta, Status
    <3> QED BY <3>1, PickersTyped, AppendedTyped
  <2>2. << Step("content", n, "text", "must"),
           Step("transition", n, "plan_start", "soft") >> \in Seq(TypedSteps)
    <3>1. Step("content", n, "text", "must") \in TypedSteps
      BY <1>m, StepTyped DEF Do, Arg, Text, ArgOK, Step
    <3>2. Step("transition", n, "plan_start", "soft") \in TypedSteps
      BY <1>m, StepTyped DEF Do, Arg, Event, ArgOK, Step
    <3> QED BY <3>1, <3>2, ShortSeqs
  <2> DEFINE s == RegisterSteps(n) \o << Step("content", n, "text", "must"),
                                         Step("transition", n, "plan_start", "soft") >>
                    \o Reload(n) \o Spawn(n)
  <2>3. s \in Seq(TypedSteps)
    BY <2>1, <2>2, <1>c
  <2>4. /\ Begin("tui", s, None)
        /\ cache' = [cache EXCEPT ![n] = NewEntry("")]
        /\ UNCHANGED <<file, view, dialog>>
    BY <1>5 DEF ImportClickUpTask
  <2> HIDE DEF s
  <2>5. ClientTypeOK' /\ UNCHANGED <<rows, topics, content>>
    BY <2>3, <2>4, <1>i
  <2>6. cache' \in [Names -> Meta \cup {NoPlan}]
    BY <2>1, <2>4, <1>h
  <2> QED BY <2>4, <2>5, <2>6, <1>k, <1>f
<1> QED BY <1>1, <1>2, <1>3, <1>4, <1>5

\* Sentinel files, dialogs and other processes.
LEMMA SignalTyped ==
    ASSUME TypeInv, NEW n \in Names, NEW event \in SentinelEvent, Signal(n, event)
    PROVE  TypeInv'
<1> DEFINE text == IF event = "planner_finished" /\ file[n] # NoFile
                   THEN << Step("content", n, file[n], "soft") >> ELSE << >>
<1>1. ClientTypeOK /\ "tui" \in Clients
  BY ClientNames DEF TypeInv
<1>2. Transitions(n, <<event>>) \in Seq(TypedSteps)
  <2>1. event \in Event
    BY DEF SentinelEvent, Event
  <2> QED BY <2>1, OneEvent, TransitionsTyped
<1>3. text \in Seq(TypedSteps)
  <2>1. CASE file[n] = NoFile
    BY <2>1, ShortSeqs
  <2>2. CASE file[n] # NoFile
    <3>1. file[n] \in Text
      BY <2>2 DEF TypeInv, StateTypeOK
    <3>2. "soft" \in Mode
      BY DEF Mode
    <3>3. << Step("content", n, file[n], "soft") >> \in Seq(TypedSteps)
      BY <3>1, <3>2, WritesTyped
    <3> QED BY <3>3, ShortSeqs
  <2> QED BY <2>1, <2>2
<1>4. << Step("reload", n, "", "always") >> \in Seq(TypedSteps)
  BY AppendedTyped
<1>5. Announce(n, SentinelTarget(event)) \in {None} \cup [name : Names, status : Status]
  <2>1. SentinelTarget(event) \in Status
    BY DEF SentinelTarget, SentinelEvent, Status
  <2> QED BY <2>1, GoalTyped
<1>6. /\ Begin("tui", Transitions(n, <<event>>) \o text
                        \o << Step("reload", n, "", "always") >>,
               Announce(n, SentinelTarget(event)))
      /\ view' = NoView /\ UNCHANGED <<cache, file, dialog>>
  BY DEF Signal
<1> HIDE DEF text
<1>7. Transitions(n, <<event>>) \o text \o << Step("reload", n, "", "always") >>
         \in Seq(TypedSteps)
  BY <1>2, <1>3, <1>4, ShortSeqs
<1>8. ClientTypeOK' /\ UNCHANGED <<rows, topics, content>>
  BY <1>1, <1>5, <1>6, <1>7, BeginTyped
<1> QED BY <1>6, <1>8 DEF TypeInv, StateTypeOK, StoreTypeOK

\* A dialog keeps a typed copy of the entry.
LEMMA OpenDialogTyped ==
    ASSUME TypeInv, NEW n \in Names, NEW op \in {"cancel", "merge", "start_over"},
           OpenDialog(op, n)
    PROVE  TypeInv'
<1>1. cache[n] \in Meta
  BY EntryTyped DEF OpenDialog, TypeInv, StateTypeOK
<1>2. dialog' \in [op : {"cancel", "merge", "start_over"}, name : Names, meta : Meta]
  BY <1>1 DEF OpenDialog
<1>3. StateTypeOK'
  BY <1>2 DEF OpenDialog, TypeInv, StateTypeOK, StoreTypeOK
<1>4. ClientTypeOK'
  BY DEF OpenDialog, TypeInv, ClientTypeOK
<1> QED BY <1>3, <1>4 DEF TypeInv

\* A confirmed dialog begins a typed operation.
LEMMA ConfirmDialogTyped ==
    ASSUME TypeInv, NEW g \in Goroutines, ConfirmDialog(g)
    PROVE  TypeInv'
<1> DEFINE n == dialog.name
           last == << Step("refresh", n, "", "must") >>
<1>1. n \in Names /\ dialog # None
  BY DEF ConfirmDialog, TypeInv, StateTypeOK
<1>2. ClientTypeOK /\ g \in Clients
  BY ClientNames DEF TypeInv
<1>3. last \in Seq(TypedSteps) /\ Reload(n) \o last \in Seq(TypedSteps)
  BY <1>1, AppendedTyped, ShortSeqs
<1>4. \A walk \in Seq(Event) : /\ Transitions(n, walk) \o last \in Seq(TypedSteps)
                               /\ Transitions(n, walk) \o (Reload(n) \o last)
                                     \in Seq(TypedSteps)
  BY <1>1, <1>3, TransitionsTyped, ShortSeqs
<1>5. <<"cancel">> \in Seq(Event)
  BY OneEvent DEF Event
<1>6. "cancelled" \in Status /\ "done" \in Status /\ "planning" \in Status
  BY DEF Status
<1>7. \A s \in Status : Announce(n, s) \in {None} \cup [name : Names, status : Status]
  BY <1>1, GoalTyped
<1>8. ClientTypeOK' /\ UNCHANGED <<rows, topics, content>>
  <2>1. CASE Begin(g, Transitions(n, <<"cancel">>) \o last, Announce(n, "cancelled"))
    BY <2>1, <1>2, <1>4, <1>5, <1>6, <1>7, BeginTyped
  <2>2. CASE Begin(g, Transitions(n, MarkDoneWalk(dialog.meta.status, cache[n].status))
                        \o (Reload(n) \o last),
                   Announce(n, "done"))
    BY <2>2, <1>2, <1>4, <1>6, <1>7, WalksTyped, BeginTyped
  <2>3. CASE Begin(g, Transitions(n, ForceToPlanningWalk(cache[n].status))
                        \o (Reload(n) \o last),
                   Announce(n, "planning"))
    BY <2>3, <1>2, <1>4, <1>6, <1>7, WalksTyped, BeginTyped
  <2> QED BY <2>1, <2>2, <2>3 DEF ConfirmDialog
<1>9. dialog' = None /\ UNCHANGED <<cache, file, view>>
  BY DEF ConfirmDialog
<1> QED BY <1>8, <1>9 DEF TypeInv, StateTypeOK, StoreTypeOK

\* Commands begin typed operations.
LEMMA CommandTyped ==
    ASSUME TypeInv, NEW c \in Commands, Command(c)
    PROVE  TypeInv'
<1>1. ClientTypeOK /\ c \in Clients
  BY ClientNames DEF TypeInv
<1>2. PICK s \in Seq(TypedSteps), a \in {None} \cup [name : Names, status : Status] :
         Begin(c, s, a)
  <2>1. PICK n \in Names :
           \/ \E e \in Event : Begin(c, Transitions(n, <<e>>), None)
           \/ /\ Overrides
              /\ \E s \in Status : Begin(c, << Step("force", n, s, "must") >>,
                                         Announce(n, s))
           \/ Begin(c, << Step("register", n, "", "must") >>, Announce(n, "ready"))
           \/ Begin(c, << Step("implement", n, "", "must") >>,
                    Announce(n, "implementing"))
    BY Zenon DEF Command
  <2>2. \A s \in Status : Announce(n, s) \in {None} \cup [name : Names, status : Status]
    BY GoalTyped
  <2>3. "must" \in Mode /\ "ready" \in Status /\ "implementing" \in Status
    BY DEF Mode, Status
  <2>4. /\ << Step("register", n, "", "must") >> \in Seq(TypedSteps)
        /\ << Step("implement", n, "", "must") >> \in Seq(TypedSteps)
        /\ \A s \in Status : << Step("force", n, s, "must") >> \in Seq(TypedSteps)
    BY <2>3, WritesTyped
  <2>5. \A e \in Event : Transitions(n, <<e>>) \in Seq(TypedSteps)
    BY OneEvent, TransitionsTyped
  <2> QED BY <2>1, <2>2, <2>3, <2>4, <2>5
<1>3. ClientTypeOK' /\ UNCHANGED <<rows, topics, content>>
  BY <1>1, <1>2, BeginTyped
<1>4. UNCHANGED <<cache, file, view, dialog>>
  BY DEF Command
<1> QED BY <1>3, <1>4 DEF TypeInv, StateTypeOK, StoreTypeOK

\* Dismissed dialogs, ticks and the agents' files.
LEMMA PassiveTyped ==
    ASSUME TypeInv,
           DismissDialog \/ TickLoad \/ TickApply \/ (\E n \in Names : AgentWritesPlan(n))
    PROVE  TypeInv'
<1>1. CASE DismissDialog
  BY <1>1 DEF DismissDialog, TypeInv, StateTypeOK, StoreTypeOK, ClientTypeOK
<1>2. CASE TickLoad
  BY <1>2 DEF TickLoad, Load, List, TypeInv, StateTypeOK, StoreTypeOK, ClientTypeOK
<1>3. CASE TickApply
  BY <1>3 DEF TickApply, TypeInv, StateTypeOK, StoreTypeOK, ClientTypeOK
<1>4. ASSUME NEW n \in Names, AgentWritesPlan(n) PROVE TypeInv'
  <2>1. file' \in [Names -> Text \cup {NoFile}]
    BY <1>4 DEF AgentWritesPlan, TypeInv, StateTypeOK, Text
  <2> QED BY <1>4, <2>1
          DEF AgentWritesPlan, TypeInv, StateTypeOK, StoreTypeOK, ClientTypeOK
<1> QED BY <1>1, <1>2, <1>3, <1>4

\* An allowed event leads to a status.
LEMMA AllowedTarget ==
    ASSUME NEW s, NEW e, Allowed(s, e)
    PROVE  /\ ApplyTransition(s, e) \in Status
           /\ e \in Event /\ s \in Status
           /\ \E edge \in TransitionTable : /\ edge[1] = s /\ edge[2] = e
                                           /\ edge[3] = ApplyTransition(s, e)
<1> DEFINE c == CHOOSE edge \in TransitionTable : edge[1] = s /\ edge[2] = e
<1>1. c \in TransitionTable /\ c[1] = s /\ c[2] = e
  BY Zenon DEF Allowed
<1>2. ApplyTransition(s, e) = c[3]
  BY Zenon DEF ApplyTransition
<1> HIDE DEF c
<1>3. c[3] \in Status /\ c[1] \in Status /\ c[2] \in Event
  BY <1>1 DEF TransitionTable, Status, Event
<1> QED BY <1>1, <1>2, <1>3

\* A loaded store continues with typed steps.
LEMMA ContinuationTyped ==
    ASSUME TypeInv, NEW step \in TypedSteps, step.do \in Reads, Permits(step)
    PROVE  Continuation(step) \in Seq(TypedSteps)
<1> DEFINE n == step.name
<1>1. n \in Names /\ step.mode \in Mode /\ ArgOK(step)
  BY DEF TypedSteps, Steps
<1>2. rows \in [Names -> Meta \cup {NoPlan}] /\ content \in [Names -> Text]
  BY DEF TypeInv, StateTypeOK, StoreTypeOK
<1>3. \A s \in Status : rows[n] # NoPlan => WithStatus(n, s) \in Meta
  BY <1>1, <1>2, EntryTyped, ReplacedTyped DEF WithStatus
<1>4. "must" \in Mode
  BY DEF Mode
<1>5. CASE step.do = "transition"
  <2> DEFINE current == MapLegacyStatus(rows[n].status)
             target  == ApplyTransition(current, step.arg)
  <2>1. rows[n] # NoPlan /\ Allowed(current, step.arg)
    BY <1>5 DEF Permits
  <2>2. target \in Status
    BY <2>1, AllowedTarget
  <2> HIDE DEF target
  <2>3. << Step("update", n, WithStatus(n, target), step.mode) >> \in Seq(TypedSteps)
    BY <2>1, <2>2, <1>1, <1>3, WritesTyped
  <2>4. Continuation(step) = << Step("update", n, WithStatus(n, target), step.mode) >>
    BY <1>5, Zenon DEF Continuation, target
  <2> QED BY <2>3, <2>4
<1>6. CASE step.do = "force"
  <2>1. rows[n] # NoPlan
    BY <1>6 DEF Permits
  <2>2. step.arg \in Status
    BY <1>1, <1>6 DEF ArgOK
  <2>3. << Step("update", n, WithStatus(n, step.arg), "must") >> \in Seq(TypedSteps)
    BY <2>1, <2>2, <1>1, <1>3, <1>4, WritesTyped
  <2>4. Continuation(step) = << Step("update", n, WithStatus(n, step.arg), "must") >>
    BY <1>6 DEF Continuation
  <2> QED BY <2>3, <2>4
<1>7. CASE step.do = "register"
  <2>1. Continuation(step) = RegisterSteps(n)
    BY <1>7 DEF Continuation
  <2>2. [status |-> "ready", topic |-> "", branch |-> "plan"] \in Meta
    BY DEF Meta, Status
  <2> QED BY <2>1, <2>2, <1>1, PickersTyped
<1>8. CASE step.do = "implement"
  <2>1. Continuation(step) = Transitions(n, SetImplementingWalk(rows[n].status))
    BY <1>8 DEF Continuation
  <2> QED BY <2>1, <1>1, WalksTyped, TransitionsTyped
<1>9. CASE step.do = "fetch"
  <2>1. Continuation(step) = << Step("write", n, content[n], "must") >>
    BY <1>9 DEF Continuation
  <2>2. content[n] \in Text
    BY <1>1, <1>2
  <2> QED BY <2>1, <2>2, <1>1, <1>4, WritesTyped
<1> QED BY <1>5, <1>6, <1>7, <1>8, <1>9 DEF Reads

\* Reads keep the type.
LEMMA ReadTyped ==
    ASSUME TypeInv, NEW c \in Clients, Read(c) PROVE TypeInv'
<1>1. ClientTypeOK /\ ~Idle(c)
  BY DEF TypeInv, Read
<1>2. Next1(c) \in TypedSteps /\ Next1(c).do \in Reads
  BY <1>1, HeadTyped DEF Read
<1>3. ClientTypeOK'
  <2>1. CASE /\ Permits(Next1(c))
             /\ Proceed(c, Continuation(Next1(c)))
             /\ UNCHANGED <<goal, faults>>
    <3>1. Continuation(Next1(c)) \in Seq(TypedSteps)
      BY <1>2, <2>1, ContinuationTyped
    <3>2. todo' \in [Clients -> Seq(TypedSteps)]
      BY <1>1, <2>1, <3>1, ProceedTyped
    <3>3. UNCHANGED <<goal, faults, ops>>
      BY <2>1 DEF Read
    <3> QED BY <1>1, <3>2, <3>3 DEF ClientTypeOK
  <2>2. CASE GiveUp(c) /\ (UNCHANGED faults \/ Fault)
    <3>1. faults' \in 0 .. MaxFaults
      BY <1>1, <2>2, FaultTyped DEF ClientTypeOK
    <3>2. ops' = ops
      BY DEF Read
    <3> QED BY <1>1, <2>2, <3>1, <3>2, GiveUpTyped DEF ClientTypeOK
  <2> QED BY <2>1, <2>2 DEF Read
<1>4. UNCHANGED <<rows, topics, content, cache, file, view, dialog>>
  BY DEF Read
<1> QED BY <1>3, <1>4 DEF TypeInv, StateTypeOK, StoreTypeOK

\* A statement leaves the tables typed.
LEMMA ExecuteTyped ==
    ASSUME StoreTypeOK, NEW step \in TypedSteps, Execute(step)
    PROVE  StoreTypeOK'
<1>1. step.name \in Names /\ ArgOK(step)
  BY DEF TypedSteps, Steps
<1>2. "" \in Text
  BY DEF Text
<1>3. CASE step.do = "update" /\ Update(step.name, step.arg)
  BY <1>1, <1>2, <1>3 DEF Update, ArgOK, StoreTypeOK
<1>4. CASE step.do = "create" /\ Create(step.name, step.arg)
  BY <1>1, <1>2, <1>4 DEF Create, ArgOK, StoreTypeOK
<1>5. CASE step.do = "content" /\ SetContent(step.name, step.arg)
  BY <1>1, <1>5 DEF SetContent, ArgOK, StoreTypeOK
<1>6. CASE step.do = "rename" /\ Rename(step.name, step.arg)
  BY <1>1, <1>2, <1>6 DEF Rename, ArgOK, StoreTypeOK
<1>7. CASE step.do = "topic" /\ CreateTopic(step.arg)
  BY <1>1, <1>7 DEF CreateTopic, ArgOK, StoreTypeOK
<1> QED BY <1>3, <1>4, <1>5, <1>6, <1>7 DEF Execute

\* Writes keep the type.
LEMMA WriteTyped ==
    ASSUME TypeInv, NEW c \in Clients, Write(c) PROVE TypeInv'
<1>1. ClientTypeOK /\ StoreTypeOK /\ ~Idle(c)
  BY DEF TypeInv, StateTypeOK, Write
<1>2. Next1(c) \in TypedSteps
  BY <1>1, HeadTyped
<1>3. StoreTypeOK'
  <2>1. CASE Execute(Next1(c))
    BY <1>1, <1>2, <2>1, ExecuteTyped
  <2>2. CASE UNCHANGED <<rows, topics, content>>
    BY <1>1, <2>2 DEF StoreTypeOK
  <2> QED BY <2>1, <2>2 DEF Write
<1>4. ClientTypeOK'
  <2>1. CASE Proceed(c, << >>) /\ UNCHANGED <<goal, faults>>
    <3>1. todo' \in [Clients -> Seq(TypedSteps)]
      BY <1>1, <2>1, ShortSeqs, ProceedTyped
    <3>2. UNCHANGED <<goal, faults, ops>>
      BY <2>1 DEF Write
    <3> QED BY <1>1, <3>1, <3>2 DEF ClientTypeOK
  <2>2. CASE GiveUp(c) /\ (UNCHANGED faults \/ Fault)
    <3>1. faults' \in 0 .. MaxFaults
      BY <1>1, <2>2, FaultTyped DEF ClientTypeOK
    <3>2. ops' = ops
      BY DEF Write
    <3> QED BY <1>1, <2>2, <3>1, <3>2, GiveUpTyped DEF ClientTypeOK
  <2> QED BY <2>1, <2>2 DEF Write
<1>5. UNCHANGED <<cache, file, view, dialog>>
  BY DEF Write
<1> QED BY <1>3, <1>4, <1>5 DEF TypeInv, StateTypeOK

\* Reloading the cache keeps the type.
LEMMA ReloadCacheTyped ==
    ASSUME TypeInv, NEW c \in Clients, ReloadCache(c) PROVE TypeInv'
<1>1. ClientTypeOK /\ ~Idle(c)
  BY DEF TypeInv, ReloadCache
<1>2. ClientTypeOK'
  <2>1. todo' \in [Clients -> Seq(TypedSteps)]
    BY <1>1, ShortSeqs, ProceedTyped DEF ReloadCache
  <2>2. faults' \in 0 .. MaxFaults
    BY <1>1, FaultTyped DEF ReloadCache, ClientTypeOK
  <2> QED BY <1>1, <2>1, <2>2 DEF ReloadCache, ClientTypeOK
<1>3. cache' = rows \/ cache' = cache
  BY DEF ReloadCache, Load, List
<1>4. UNCHANGED <<rows, topics, content, file, view, dialog>>
  BY DEF ReloadCache
<1> QED BY <1>2, <1>3, <1>4 DEF TypeInv, StateTypeOK, StoreTypeOK

\* Filling in a branch keeps the type.
LEMMA BackfillBranchTyped ==
    ASSUME TypeInv, NEW c \in Clients, BackfillBranch(c) PROVE TypeInv'
<1> DEFINE n     == Next1(c).name
           entry == [cache[n] EXCEPT !.branch = "plan"]
<1>1. ClientTypeOK /\ ~Idle(c) /\ cache \in [Names -> Meta \cup {NoPlan}]
  BY DEF TypeInv, StateTypeOK, BackfillBranch
<1>2. n \in Names /\ Next1(c).mode \in Mode
  BY <1>1, HeadTyped
<1>3. cache[n] # NoPlan => entry \in Meta
  BY <1>1, <1>2, EntryTyped, ReplacedTyped
<1>4. \/ GiveUp(c) /\ UNCHANGED cache
      \/ Proceed(c, << >>) /\ UNCHANGED <<cache, goal>>
      \/ /\ cache[n] # NoPlan
         /\ cache' = [cache EXCEPT ![n] = entry]
         /\ Proceed(c, << Step("update", n, entry, Next1(c).mode) >>)
         /\ UNCHANGED goal
  BY DEF BackfillBranch
<1>5. UNCHANGED <<rows, topics, content, file, view, dialog, ops, faults>>
  BY DEF BackfillBranch
<1> HIDE DEF entry
<1>6. cache' \in [Names -> Meta \cup {NoPlan}]
  BY <1>1, <1>3, <1>4
<1>7. ClientTypeOK'
  <2>1. CASE GiveUp(c)
    BY <2>1, <1>1, <1>5, GiveUpTyped DEF ClientTypeOK
  <2>2. CASE Proceed(c, << >>) /\ UNCHANGED goal
    BY <2>2, <1>1, <1>5, ShortSeqs, ProceedTyped DEF ClientTypeOK
  <2>3. CASE /\ cache[n] # NoPlan
             /\ Proceed(c, << Step("update", n, entry, Next1(c).mode) >>)
             /\ UNCHANGED goal
    <3>1. << Step("update", n, entry, Next1(c).mode) >> \in Seq(TypedSteps)
      BY <1>2, <1>3, <2>3, WritesTyped
    <3>2. todo' \in [Clients -> Seq(TypedSteps)]
      BY <1>1, <2>3, <3>1, ProceedTyped
    <3> QED BY <2>3, <3>2, <1>1, <1>5 DEF ClientTypeOK
  <2> QED BY <1>4, <2>1, <2>2, <2>3
<1> QED BY <1>5, <1>6, <1>7 DEF TypeInv, StateTypeOK, StoreTypeOK

\* What goroutines do keeps the type.
LEMMA GoroutineTyped ==
    ASSUME TypeInv, NEW g \in Goroutines, GoroutineStep(g) PROVE TypeInv'
<1>1. ClientTypeOK /\ g \in Clients /\ "tui" \in Clients /\ g # "tui"
  BY ClientNames, ClientsAssumption DEF TypeInv
<1>2. CASE SpawnAgent(g)
  <2> DEFINE n == Next1("tui").name
             rest == Tail(todo["tui"])
             fetch == << Step("fetch", n, "", "must") >>
  <2>1. ~Idle("tui")
    BY <1>2 DEF SpawnAgent
  <2>2. n \in Names /\ rest \in Seq(TypedSteps) /\ fetch \in Seq(TypedSteps)
    BY <1>1, <2>1, HeadTyped, AppendedTyped
  <2>3. \/ GiveUp("tui")
        \/ /\ todo' = [todo EXCEPT !["tui"] = rest, ![g] = fetch]
           /\ goal' = [goal EXCEPT ![g] = None]
    BY <1>2 DEF SpawnAgent
  <2>4. UNCHANGED <<rows, topics, content, cache, file, view, dialog, ops, faults>>
    BY <1>2 DEF SpawnAgent
  <2>5. ClientTypeOK'
    <3>1. CASE GiveUp("tui")
      BY <3>1, <2>1, <2>4, <1>1, GiveUpTyped DEF ClientTypeOK
    <3>2. CASE /\ todo' = [todo EXCEPT !["tui"] = rest, ![g] = fetch]
               /\ goal' = [goal EXCEPT ![g] = None]
      <4> HIDE DEF rest, fetch
      <4>1. todo' \in [Clients -> Seq(TypedSteps)]
        BY <3>2, <2>2, <1>1 DEF ClientTypeOK
      <4>2. goal' \in [Clients -> {None} \cup [name : Names, status : Status]]
        BY <3>2, <1>1 DEF ClientTypeOK
      <4> QED BY <4>1, <4>2, <2>4, <1>1 DEF ClientTypeOK
    <3> QED BY <2>3, <3>1, <3>2
  <2> QED BY <2>4, <2>5 DEF TypeInv, StateTypeOK, StoreTypeOK
<1>3. CASE WriteFile(g)
  <2>1. ~Idle(g) /\ Next1(g).do = "write" /\ Proceed(g, << >>)
    BY <1>3 DEF WriteFile
  <2>2. Next1(g).name \in Names /\ Next1(g).arg \in Text
    BY <1>1, <2>1, HeadTyped DEF ArgOK
  <2>3. file' \in [Names -> Text \cup {NoFile}]
    BY <1>3, <2>2 DEF WriteFile, TypeInv, StateTypeOK
  <2>4. todo' \in [Clients -> Seq(TypedSteps)]
    BY <1>1, <2>1, ShortSeqs, ProceedTyped
  <2>5. UNCHANGED <<rows, topics, content, cache, view, dialog, goal, ops, faults>>
    BY <1>3 DEF WriteFile
  <2> QED BY <2>3, <2>4, <2>5, <1>1
          DEF TypeInv, StateTypeOK, StoreTypeOK, ClientTypeOK
<1> QED BY <1>2, <1>3 DEF GoroutineStep

\* No step leaves the types.
LEMMA StepTypeInv ==
    ASSUME TypeInv, [Next]_vars PROVE TypeInv'
<1>1. CASE UNCHANGED vars
  BY <1>1 DEF vars, TypeInv, StateTypeOK, StoreTypeOK, ClientTypeOK
<1>2. CASE UserStep
  <2>1. ASSUME NEW n \in Names,
               \/ StagePlan(n) \/ StageSolo(n) \/ StageImplement(n) \/ StageReview(n)
               \/ StageFinished(n) \/ StageRefused(n) \/ MarkPlanDone(n)
               \/ RequestReview(n) \/ ResumeImplement(n) \/ ModifyPlan(n)
               \/ ImplementationComplete(n)
        PROVE  TypeInv'
    <3>1. ClientTypeOK' /\ UNCHANGED <<rows, topics, content, cache, file, view, dialog>>
      BY <2>1, StageTyped
    <3> QED BY <3>1 DEF TypeInv, StateTypeOK, StoreTypeOK
  <2> QED BY <1>2, <2>1, PickerTyped, OpenDialogTyped, ConfirmDialogTyped, PassiveTyped
          DEF UserStep
<1>3. CASE \E c \in Clients : Progress(c)
  BY <1>3, ReadTyped, WriteTyped, ReloadCacheTyped, BackfillBranchTyped DEF Progress
<1> QED BY <1>1, <1>2, <1>3, SignalTyped, CommandTyped, GoroutineTyped, PassiveTyped
        DEF Next

\* The sequences of all clients are typed.
LEMMA TypeInvariant == Spec => []TypeInv
BY InitTyped, StepTypeInv, PTL DEF Spec

\* Typed sequences have typed elements.
LEMMA TypeInvTypeOK == TypeInv => TypeOK
<1> SUFFICES ASSUME TypeInv PROVE TypeOK
  OBVIOUS
<1>1. \A c \in Clients : \A i \in DOMAIN todo[c] :
         /\ todo[c][i].do \in Do /\ todo[c][i].name \in Names
         /\ ArgOK(todo[c][i])
  <2> TAKE c \in Clients
  <2> TAKE i \in DOMAIN todo[c]
  <2>1. todo[c] \in Seq(TypedSteps)
    BY DEF TypeInv, ClientTypeOK
  <2>2. todo[c][i] \in TypedSteps
    BY <2>1
  <2> QED BY <2>2 DEF TypedSteps, Steps
<1>2. \A c \in Clients : goal[c] = None \/ goal[c] \in [name : Names, status : Status]
  BY DEF TypeInv, ClientTypeOK
<1> QED BY <1>1, <1>2 DEF TypeInv, StateTypeOK, ClientTypeOK, TypeOK

\* Whatever runs interleaved and fails, the store, the cache, the files and the steps
\* under way keep their types: no handler stores an entry that is none.
THEOREM TypeCorrect == Spec => []TypeOK
BY TypeInvariant, TypeInvTypeOK, PTL

----------------------------------------------------------------------------
(* What changes the rows *)

\* Only a call to the store does.
LEMMA RowsChange ==
    ASSUME TypeInv, [Next]_vars, rows' # rows
    PROVE  \E c \in Clients :
              /\ ~Idle(c) /\ Write(c)
              /\ Next1(c) \in TypedSteps
              /\ Accepted(Next1(c)) /\ Execute(Next1(c))
<1>1. PICK c \in Clients : Write(c)
  <2>1. ASSUME NEW c \in Clients, Progress(c) PROVE Write(c)
    BY <2>1 DEF Progress, Read, ReloadCache, BackfillBranch
  <2>2. ASSUME NEW g \in Goroutines, GoroutineStep(g) PROVE FALSE
    BY <2>2 DEF GoroutineStep, SpawnAgent, WriteFile
  <2>3. ASSUME NEW n \in Names, NEW e \in SentinelEvent, Signal(n, e) PROVE FALSE
    BY <2>3 DEF Signal, Begin
  <2>4. ASSUME NEW c \in Commands, Command(c) PROVE FALSE
    BY <2>4 DEF Command, Begin
  <2>5. ASSUME UserStep PROVE FALSE
    <3>1. ASSUME NEW n \in Names,
                 \/ StagePlan(n) \/ StageSolo(n) \/ StageImplement(n) \/ StageReview(n)
                 \/ StageFinished(n) \/ StageRefused(n) \/ MarkPlanDone(n)
                 \/ RequestReview(n) \/ ResumeImplement(n) \/ ModifyPlan(n)
                 \/ ImplementationComplete(n)
          PROVE  FALSE
      BY <3>1, StageTyped
    <3>2. ASSUME NEW n \in Names, ImportClickUpTask(n) PROVE FALSE
      BY <3>2 DEF ImportClickUpTask, Begin
    <3>3. ASSUME NEW n \in Names, NEW t \in Topics \cup {""},
                 ChangeTopic(n, t) \/ CreatePlan(n, t)
          PROVE  FALSE
      BY <3>3 DEF ChangeTopic, CreatePlan, UserBegins, Begin
    <3>4. ASSUME NEW n \in Names, NEW s \in Status, SetStatus(n, s) PROVE FALSE
      BY <3>4 DEF SetStatus, UserBegins, Begin
    <3>5. ASSUME NEW old \in Names, NEW new \in Names, RenamePlan(old, new) PROVE FALSE
      BY <3>5 DEF RenamePlan, UserBegins, Begin
    <3>6. ASSUME NEW n \in Names, NEW op \in {"cancel", "merge", "start_over"},
                 OpenDialog(op, n)
          PROVE  FALSE
      BY <3>6 DEF OpenDialog
    <3>7. ASSUME NEW g \in Goroutines, ConfirmDialog(g) PROVE FALSE
      BY <3>7 DEF ConfirmDialog, Begin
    <3>8. ASSUME DismissDialog PROVE FALSE
      BY <3>8 DEF DismissDialog
    <3> QED BY <2>5, <3>1, <3>2, <3>3, <3>4, <3>5, <3>6, <3>7, <3>8 DEF UserStep
  <2>6. ASSUME TickLoad \/ TickApply \/ (\E n \in Names : AgentWritesPlan(n)) PROVE FALSE
    BY <2>6 DEF TickLoad, TickApply, AgentWritesPlan
  <2>7. ASSUME UNCHANGED vars PROVE FALSE
    BY <2>7 DEF vars
  <2> QED BY <2>1, <2>2, <2>3, <2>4, <2>5, <2>6, <2>7 DEF Next
<1>2. ~Idle(c) /\ Accepted(Next1(c)) /\ Execute(Next1(c))
  BY <1>1 DEF Write
<1>3. Next1(c) \in TypedSteps
  BY <1>2, HeadTyped DEF TypeInv
<1> QED BY <1>1, <1>2, <1>3

----------------------------------------------------------------------------
(* Operations one at a time.                                               *)
(*                                                                         *)
(* What an operation under way will do is known from its steps: either it  *)
(* is destined to bring its plan along a path of statuses, one for each    *)
(* step, that starts at the status in the store and ends at the announced  *)
(* one, or it is doomed: its first transition will be refused before it    *)
(* has changed anything the cache does not show.                           *)

\* The status of a plan in the store, "none" without a plan.
StatusOf(n) == IF rows[n] = NoPlan THEN "none" ELSE MapLegacyStatus(rows[n].status)
\* What a status may be, with that of no plan.
Place == Status \cup {"none"}

\* The steps that bring the cache to the store.
Reloads == {"reload", "refresh"}

\* How the steps of an operation are ordered.
ShapeOK(s) ==
    \A i \in 1 .. Len(s) :
       /\ s[i].name = s[1].name
       /\ s[i].do \notin {"force", "register", "implement"}
       /\ s[i].do \in {"update", "create", "rename", "fetch", "write"} => i = 1
       /\ s[i].do = "transition" => \E j \in i + 1 .. Len(s) : s[j].do \in Reloads
       /\ s[i].do = "backfill" /\ i > 1 => s[i - 1].do \in Reloads
       /\ s[i].do = "backfill" /\ s[i].mode = "soft" => i = Len(s)
       /\ s[i].do = "spawn" => i = Len(s) /\ s[i].mode = "must"
       /\ s[i].do \in {"fetch", "write", "rename"} => Len(s) = 1 /\ s[i].mode = "must"
       /\ s[i].mode = "always" => i = Len(s) /\ s[i].do = "reload"
       /\ s[i].do = "transition" /\ s[i].mode = "soft" =>
             \A j \in i + 1 .. Len(s) : s[j].do \in {"reload", "backfill", "spawn"}

\* The cache already shows what the step is about to write.
Ahead(step) ==
    \/ /\ step.do \in {"update", "create"}
       /\ cache = [rows EXCEPT ![step.name] = step.arg]
    \/ /\ step.do = "rename"
       /\ RenameOK(step.name, step.arg)
       /\ cache = [rows EXCEPT ![step.arg] = rows[step.name], ![step.name] = NoPlan]

\* The cache is fresh, ahead, or about to be reloaded.
CacheOK(s) ==
    \/ Ahead(s[1])
    \/ cache = rows /\ s[1].do \notin {"update", "create", "rename"}
    \/ /\ \E i \in 1 .. Len(s) : s[i].do \in Reloads
       /\ s[1].do \notin {"backfill", "create", "rename"}

\* An operation that a refused event will end.
Doomed(s) ==
    /\ \E i \in 1 .. Len(s) :
          /\ s[i].do = "transition" /\ ~Allowed(StatusOf(s[i].name), s[i].arg)
          /\ s[i].mode = "must" \/ i = 1
          /\ \A j \in 1 .. i - 1 : s[j].do \in {"backfill", "update"}
    /\ s[1].do = "update" =>
          /\ Ahead(s[1]) /\ rows[s[1].name] # NoPlan
          /\ MapLegacyStatus(s[1].arg.status) = StatusOf(s[1].name)
    /\ s[1].do # "update" => cache = rows

\* A status is kept or changed along the table.
Edge(a, b) == b = a \/ \E e \in Event : Allowed(a, e) /\ b = ApplyTransition(a, e)

\* A step that succeeds in a status, and the status it leaves.
Follows(step, a, b) ==
    /\ step.do = "transition" => Allowed(a, step.arg) /\ b = ApplyTransition(a, step.arg)
    /\ step.do = "update" => /\ a # "none" /\ b = MapLegacyStatus(step.arg.status)
                             /\ Overrides \/ Edge(a, b)
    /\ step.do = "create" => a = "none" /\ b = "ready" /\ b = MapLegacyStatus(step.arg.status)
    /\ step.do = "content" => a # "none"
    /\ step.do = "rename" => a # "none" /\ b = "none"
    /\ step.do \notin {"transition", "update", "create", "rename"} => b = a

\* The statuses an operation goes through from the stored one.
PathOf(s, f) ==
    /\ f \in [1 .. Len(s) + 1 -> Place]
    /\ f[1] = StatusOf(s[1].name)
    /\ \A i \in 1 .. Len(s) : Follows(s[i], f[i], f[i + 1])

\* An operation nothing refuses ends in the status it announces.
Destined(s, g) ==
    \E f : /\ PathOf(s, f)
           /\ g # None => g.name = s[1].name /\ g.status = f[Len(s) + 1]

\* A merge dialog that was opened on a plan already done counts on it staying so.
MergedDone == dialog # None /\ dialog.op = "merge" /\ dialog.meta.status = "done"
\* While such a dialog is open, the plan stays done.
DialogOK ==
    MergedDone =>
       /\ rows[dialog.name] # NoPlan /\ rows[dialog.name].status = "done"
       /\ \A c \in Clients : ~Idle(c) /\ todo[c][1].name = dialog.name =>
             /\ \A i \in 1 .. Len(todo[c]) :
                   todo[c][i].do = "transition" => todo[c][i].arg \in SentinelEvent
             /\ todo[c][1].do = "update" => todo[c][1].arg.status = "done"
             /\ todo[c][1].do # "rename"

\* One operation at a time, never beside a tick.
Alone ==
    /\ \A c, d \in Clients : Idle(c) \/ Idle(d) \/ c = d
    /\ view # NoView => Quiet /\ view = rows
    /\ Quiet => cache = rows

\* What holds of an operation under way.
OpOK(c) ==
    ~Idle(c) =>
       /\ ShapeOK(todo[c])
       /\ CacheOK(todo[c])
       /\ Doomed(todo[c]) \/ Destined(todo[c], goal[c])
       /\ \A i \in 1 .. Len(todo[c]) :
             todo[c][i].do = "transition" /\ todo[c][i].mode = "soft" => goal[c] = None

\* The invariant of operations that run one at a time.
SerialInv == TypeInv /\ Alone /\ DialogOK /\ \A c \in Clients : OpOK(c)

\* The environment of the serial run.
Undisturbed == Serial /\ MaxFaults = 0 /\ Commands = {}

----------------------------------------------------------------------------
(* Walks. *)

\* A walk leads from a to b.
Leads(w, a, b) ==
    \E f \in [1 .. Len(w) + 1 -> Place] :
       /\ f[1] = a /\ f[Len(w) + 1] = b
       /\ \A i \in 1 .. Len(w) : /\ Allowed(f[i], w[i])
                                 /\ f[i + 1] = ApplyTransition(f[i], w[i])

\* It leads there or its first event is refused.
Outcome(w, a, b) == Leads(w, a, b) \/ (w # << >> /\ ~Allowed(a, w[1]))

\* The table is a function: an edge says what an event does.
LEMMA Edges ==
    ASSUME NEW edge \in TransitionTable
    PROVE  Allowed(edge[1], edge[2]) /\ ApplyTransition(edge[1], edge[2]) = edge[3]
<1>1. Allowed(edge[1], edge[2])
  BY DEF Allowed
<1>2. PICK other \in TransitionTable :
         /\ other[1] = edge[1] /\ other[2] = edge[2]
         /\ other[3] = ApplyTransition(edge[1], edge[2])
  BY <1>1, AllowedTarget
<1>3. other[3] = edge[3]
  BY <1>2 DEF TransitionTable
<1> QED BY <1>1, <1>2, <1>3

\* Legacy spellings stand for statuses.
LEMMA Mapped ==
    ASSUME NEW s \in Status \cup LegacyStatus
    PROVE  /\ MapLegacyStatus(s) \in Status
           /\ s \in Status => MapLegacyStatus(s) = s
BY DEF MapLegacyStatus, Status, LegacyStatus

\* No event applies where there is no plan.
LEMMA NothingAllowed == ASSUME NEW e PROVE ~Allowed("none", e)
BY AllowedTarget DEF Status

\* The status of a plan in the store is a status or none.
LEMMA PlaceTyped ==
    ASSUME TypeInv, NEW n \in Names
    PROVE  /\ StatusOf(n) \in Place
           /\ rows[n] # NoPlan => /\ rows[n] \in Meta
                                  /\ rows[n].status \in Status \cup LegacyStatus
                                  /\ StatusOf(n) \in Status
<1>1. rows \in [Names -> Meta \cup {NoPlan}]
  BY DEF TypeInv, StateTypeOK, StoreTypeOK
<1>2. rows[n] # NoPlan => rows[n].status \in Status \cup LegacyStatus
  BY <1>1, EntryTyped
<1> QED BY <1>1, <1>2, Mapped DEF StatusOf, Place

\* Concatenated sequences.
LEMMA CatFacts ==
    ASSUME NEW S, NEW a \in Seq(S), NEW b \in Seq(S)
    PROVE  /\ a \o b \in Seq(S)
           /\ Len(a \o b) = Len(a) + Len(b) /\ Len(a) \in Nat /\ Len(b) \in Nat
           /\ \A i \in 1 .. Len(a) : (a \o b)[i] = a[i]
           /\ \A i \in 1 .. Len(b) : (a \o b)[Len(a) + i] = b[i]
           /\ \A i \in Len(a) + 1 .. Len(a) + Len(b) : (a \o b)[i] = b[i - Len(a)]
OBVIOUS

\* The empty walk stays, one event follows an edge, walks compose.
LEMMA EmptyLeads == ASSUME NEW a \in Place PROVE Leads(<< >>, a, a)
<1> DEFINE f == [i \in 1 .. 1 |-> a]
<1>1. f \in [1 .. Len(<< >>) + 1 -> Place] /\ f[1] = a
  OBVIOUS
<1>2. f[Len(<< >>) + 1] = a /\ 1 .. Len(<< >>) = {}
  OBVIOUS
<1> QED BY <1>1, <1>2 DEF Leads

\* One allowed event leads to its target.
LEMMA EventLeads ==
    ASSUME NEW a \in Place, NEW e, Allowed(a, e)
    PROVE  Leads(<<e>>, a, ApplyTransition(a, e))
<1> DEFINE b == ApplyTransition(a, e)
           f == [i \in 1 .. 2 |-> IF i = 1 THEN a ELSE b]
<1>1. b \in Place
  BY AllowedTarget DEF Place
<1> HIDE DEF b
<1>2. f \in [1 .. 2 -> Place] /\ f[1] = a /\ f[2] = b
  BY <1>1
<1>3. Len(<<e>>) = 1 /\ <<e>>[1] = e
  OBVIOUS
<1>4. \A i \in 1 .. 1 : Allowed(f[i], <<e>>[i]) /\ f[i + 1] = b
                        /\ ApplyTransition(f[i], <<e>>[i]) = b
  BY <1>2, <1>3 DEF b
<1> HIDE DEF f
<1>5. /\ f \in [1 .. Len(<<e>>) + 1 -> Place]
      /\ f[1] = a /\ f[Len(<<e>>) + 1] = b
      /\ \A i \in 1 .. Len(<<e>>) : /\ Allowed(f[i], <<e>>[i])
                                    /\ f[i + 1] = ApplyTransition(f[i], <<e>>[i])
  <2>1. Len(<<e>>) + 1 = 2 /\ 1 .. Len(<<e>>) = 1 .. 1
    BY <1>3
  <2>2. \A i \in 1 .. 1 : /\ Allowed(f[i], <<e>>[i])
                          /\ f[i + 1] = ApplyTransition(f[i], <<e>>[i])
    BY <1>4
  <2> QED BY <1>2, <2>1, <2>2
<1> QED BY <1>5, Zenon DEF Leads, b

\* Two walks in a row are a walk.
LEMMA LeadsOn ==
    ASSUME NEW v \in Seq(Event), NEW w \in Seq(Event), NEW a, NEW b, NEW c,
           Leads(v, a, b), Leads(w, b, c)
    PROVE  Leads(v \o w, a, c)
<1>1. PICK f \in [1 .. Len(v) + 1 -> Place] :
         /\ f[1] = a /\ f[Len(v) + 1] = b
         /\ \A i \in 1 .. Len(v) : /\ Allowed(f[i], v[i])
                                   /\ f[i + 1] = ApplyTransition(f[i], v[i])
  BY DEF Leads
<1>2. PICK g \in [1 .. Len(w) + 1 -> Place] :
         /\ g[1] = b /\ g[Len(w) + 1] = c
         /\ \A i \in 1 .. Len(w) : /\ Allowed(g[i], w[i])
                                   /\ g[i + 1] = ApplyTransition(g[i], w[i])
  BY DEF Leads
<1> DEFINE m == Len(v)
           k == Len(w)
           vw == v \o w
           h == [i \in 1 .. m + k + 1 |-> IF i <= m THEN f[i] ELSE g[i - m]]
<1>3. /\ m \in Nat /\ k \in Nat /\ Len(vw) = m + k
      /\ \A i \in 1 .. m : vw[i] = v[i]
      /\ \A i \in m + 1 .. m + k : vw[i] = w[i - m]
  BY CatFacts
<1>4. /\ f \in [1 .. m + 1 -> Place] /\ f[1] = a /\ f[m + 1] = b
      /\ \A i \in 1 .. m : /\ Allowed(f[i], v[i])
                           /\ f[i + 1] = ApplyTransition(f[i], v[i])
  BY <1>1
<1>5. /\ g \in [1 .. k + 1 -> Place] /\ g[1] = b /\ g[k + 1] = c
      /\ \A i \in 1 .. k : /\ Allowed(g[i], w[i])
                           /\ g[i + 1] = ApplyTransition(g[i], w[i])
  BY <1>2
<1> HIDE DEF m, k, vw
<1>6. h \in [1 .. m + k + 1 -> Place]
  BY <1>3, <1>4, <1>5
<1>h. /\ \A i \in 1 .. m : h[i] = f[i]
      /\ \A i \in m + 1 .. m + k + 1 : h[i] = g[i - m]
  BY <1>3
<1> HIDE DEF h
<1>7. h[1] = a /\ h[m + k + 1] = c
  <2>1. m + k + 1 \in m + 1 .. m + k + 1 /\ (m + k + 1) - m = k + 1
    BY <1>3
  <2>2. CASE m = 0
    <3>1. 1 \in m + 1 .. m + k + 1 /\ 1 - m = 1
      BY <2>2, <1>3
    <3> QED BY <3>1, <2>1, <2>2, <1>h, <1>4, <1>5
  <2>3. CASE m # 0
    <3>1. 1 \in 1 .. m
      BY <2>3, <1>3
    <3> QED BY <3>1, <2>1, <1>h, <1>4, <1>5
  <2> QED BY <2>2, <2>3
<1>8. \A i \in 1 .. m + k : /\ Allowed(h[i], vw[i])
                            /\ h[i + 1] = ApplyTransition(h[i], vw[i])
  <2> TAKE i \in 1 .. m + k
  <2>1. CASE i < m
    <3>1. h[i] = f[i] /\ h[i + 1] = f[i + 1] /\ vw[i] = v[i]
      <4>1. i \in 1 .. m /\ i + 1 \in 1 .. m
        BY <2>1, <1>3
      <4> QED BY <4>1, <1>3, <1>h
    <3> QED BY <3>1, <2>1, <1>3, <1>4
  <2>2. CASE i = m
    <3>1. h[i] = f[i] /\ h[i + 1] = g[1] /\ vw[i] = v[i] /\ g[1] = f[i + 1]
      <4>1. i + 1 \in m + 1 .. m + k + 1 /\ (i + 1) - m = 1 /\ i \in 1 .. m
        BY <2>2, <1>3
      <4> QED BY <4>1, <2>2, <1>h, <1>3, <1>4, <1>5
    <3> QED BY <3>1, <2>2, <1>3, <1>4
  <2>3. CASE i > m
    <3>1. h[i] = g[i - m] /\ h[i + 1] = g[(i - m) + 1] /\ vw[i] = w[i - m]
      <4>1. i \in m + 1 .. m + k + 1 /\ i + 1 \in m + 1 .. m + k + 1
            /\ (i + 1) - m = (i - m) + 1 /\ i \in m + 1 .. m + k
        BY <2>3, <1>3
      <4> QED BY <4>1, <1>h, <1>3
    <3>2. i - m \in 1 .. k
      BY <2>3, <1>3
    <3> QED BY <3>1, <3>2, <1>5
  <2> QED BY <2>1, <2>2, <2>3, <1>3
<1>9. /\ h \in [1 .. Len(vw) + 1 -> Place]
      /\ h[1] = a /\ h[Len(vw) + 1] = c
      /\ \A i \in 1 .. Len(vw) : /\ Allowed(h[i], vw[i])
                                 /\ h[i + 1] = ApplyTransition(h[i], vw[i])
  BY <1>3, <1>6, <1>7, <1>8
<1> QED BY <1>9 DEF Leads, vw

\* A refused first event stays the first one.
LEMMA OutcomeOn ==
    ASSUME NEW v \in Seq(Event), NEW w \in Seq(Event), NEW a, NEW b, NEW c,
           Outcome(v, a, b), Leads(w, b, c)
    PROVE  Outcome(v \o w, a, c)
<1>1. CASE Leads(v, a, b)
  BY <1>1, LeadsOn DEF Outcome
<1>2. CASE v # << >> /\ ~Allowed(a, v[1])
  <2>1. v \o w # << >> /\ (v \o w)[1] = v[1]
    BY <1>2
  <2> QED BY <2>1, <1>2 DEF Outcome
<1> QED BY <1>1, <1>2 DEF Outcome

\* One event leads along its edge or is refused.
LEMMA EventOutcome ==
    ASSUME NEW a \in Place, NEW e, NEW b,
           \A edge \in TransitionTable : edge[1] = a /\ edge[2] = e => edge[3] = b
    PROVE  Outcome(<<e>>, a, b)
<1>1. CASE Allowed(a, e)
  <2>1. ApplyTransition(a, e) = b
    BY <1>1, AllowedTarget
  <2> QED BY <2>1, <1>1, EventLeads DEF Outcome
<1>2. CASE ~Allowed(a, e)
  <2>1. <<e>> # << >> /\ <<e>>[1] = e
    OBVIOUS
  <2> QED BY <2>1, <1>2 DEF Outcome
<1> QED BY <1>1, <1>2

\* The events the walks are made of.
LEMMA WalkEvents ==
    /\ "plan_start" \in Event /\ "planner_finished" \in Event
    /\ "implement_start" \in Event /\ "implement_finished" \in Event
    /\ "review_approved" \in Event /\ "start_over" \in Event
    /\ "cancel" \in Event /\ "reopen" \in Event
    /\ \A e \in Event : <<e>> \in Seq(Event)
BY OneEvent DEF Event

\* The edges the walks end with.
LEMMA ReadyLeads ==
    /\ Leads(<<"implement_start">>, "ready", "implementing")
    /\ Leads(<<"implement_finished">>, "implementing", "reviewing")
    /\ Leads(<<"review_approved">>, "reviewing", "done")
    /\ Leads(<<"reopen">>, "cancelled", "planning")
    /\ Leads(<<"start_over">>, "done", "planning")
<1>1. ASSUME NEW edge \in TransitionTable
      PROVE  Leads(<<edge[2]>>, edge[1], edge[3])
  <2>1. Allowed(edge[1], edge[2]) /\ ApplyTransition(edge[1], edge[2]) = edge[3]
    BY Edges
  <2>2. edge[1] \in Place
    BY <2>1, AllowedTarget DEF Place
  <2> QED BY <2>1, <2>2, EventLeads
<1>2. /\ <<"ready", "implement_start", "implementing">> \in TransitionTable
      /\ <<"implementing", "implement_finished", "reviewing">> \in TransitionTable
      /\ <<"reviewing", "review_approved", "done">> \in TransitionTable
      /\ <<"cancelled", "reopen", "planning">> \in TransitionTable
      /\ <<"done", "start_over", "planning">> \in TransitionTable
  BY DEF TransitionTable
<1> QED BY <1>1, <1>2

\* What each helper brings about from the status it was chosen by: its target, or a
\* refusal of its first event.
LEMMA SetImplementingOutcome ==
    ASSUME NEW s \in Status \cup LegacyStatus
    PROVE  Outcome(SetImplementingWalk(s), MapLegacyStatus(s), "implementing")
<1> DEFINE a == MapLegacyStatus(s)
<1>1. a \in Place /\ (s \in Status => a = s)
  BY Mapped DEF Place
<1>2. CASE s = "implementing"
  <2>1. SetImplementingWalk(s) = << >> /\ a = s
    BY <1>2, <1>1 DEF SetImplementingWalk, Status
  <2> QED BY <2>1, <1>1, <1>2, EmptyLeads DEF Outcome
<1>3. CASE s = "planning"
  <2>1. SetImplementingWalk(s) = <<"planner_finished", "implement_start">> /\ a = "planning"
    BY <1>3, <1>1 DEF SetImplementingWalk, Status
  <2>2. <<"planner_finished", "implement_start">>
           = <<"planner_finished">> \o <<"implement_start">>
    OBVIOUS
  <2>3. Outcome(<<"planner_finished">>, a, "ready")
    <3>1. \A edge \in TransitionTable :
             edge[1] = a /\ edge[2] = "planner_finished" => edge[3] = "ready"
      BY DEF TransitionTable
    <3> QED BY <3>1, <1>1, EventOutcome
  <2>4. Leads(<<"implement_start">>, "ready", "implementing")
    BY ReadyLeads
  <2> QED BY <2>1, <2>2, <2>3, <2>4, OutcomeOn, WalkEvents
<1>4. CASE s \notin {"implementing", "planning"}
  <2>1. SetImplementingWalk(s) = <<"implement_start">>
    BY <1>4 DEF SetImplementingWalk
  <2>2. \A edge \in TransitionTable :
           edge[1] = a /\ edge[2] = "implement_start" => edge[3] = "implementing"
    BY DEF TransitionTable
  <2> QED BY <2>1, <2>2, <1>1, EventOutcome
<1> QED BY <1>2, <1>3, <1>4

\* The walk to reviewing ends there, or is refused.
LEMMA SetReviewingOutcome ==
    ASSUME NEW s \in Status \cup LegacyStatus
    PROVE  Outcome(SetReviewingWalk(s), MapLegacyStatus(s), "reviewing")
<1> DEFINE a == MapLegacyStatus(s)
<1>1. a \in Place /\ (s \in Status => a = s)
  BY Mapped DEF Place
<1>2. CASE s = "reviewing"
  <2>1. SetReviewingWalk(s) = << >> /\ a = s
    BY <1>2, <1>1 DEF SetReviewingWalk, Status
  <2> QED BY <2>1, <1>1, <1>2, EmptyLeads DEF Outcome
<1>3. CASE s = "implementing"
  <2>1. SetReviewingWalk(s) = <<"implement_finished">> /\ a = s
    BY <1>3, <1>1 DEF SetReviewingWalk, Status
  <2> QED BY <2>1, <1>3, ReadyLeads DEF Outcome
<1>4. CASE s \notin {"reviewing", "implementing"}
  <2>1. SetReviewingWalk(s) = SetImplementingWalk(s) \o <<"implement_finished">>
    BY <1>4 DEF SetReviewingWalk
  <2> QED BY <2>1, SetImplementingOutcome, ReadyLeads, OutcomeOn, WalkEvents, WalksTyped
<1> QED BY <1>2, <1>3, <1>4

\* mergePlan decides by the status captured with the dialog: nothing to do if it was
\* done, and then the plan has to be done still.
LEMMA MarkDoneOutcome ==
    ASSUME NEW t, NEW s \in Status \cup LegacyStatus, t = "done" => s = "done"
    PROVE  Outcome(MarkDoneWalk(t, s), MapLegacyStatus(s), "done")
<1> DEFINE a == MapLegacyStatus(s)
<1>1. a \in Place /\ (s \in Status => a = s)
  BY Mapped DEF Place
<1>2. CASE t = "done"
  <2>1. MarkDoneWalk(t, s) = << >> /\ a = "done"
    BY <1>2, <1>1 DEF MarkDoneWalk, Status
  <2> QED BY <2>1, <1>1, EmptyLeads DEF Outcome
<1>3. CASE t = "reviewing"
  <2>1. MarkDoneWalk(t, s) = <<"review_approved">>
    BY <1>3 DEF MarkDoneWalk
  <2>2. \A edge \in TransitionTable :
           edge[1] = a /\ edge[2] = "review_approved" => edge[3] = "done"
    BY DEF TransitionTable
  <2> QED BY <2>1, <2>2, <1>1, EventOutcome
<1>4. CASE t \notin {"done", "reviewing"}
  <2>1. MarkDoneWalk(t, s) = SetReviewingWalk(s) \o <<"review_approved">>
    BY <1>4 DEF MarkDoneWalk
  <2> QED BY <2>1, SetReviewingOutcome, ReadyLeads, OutcomeOn, WalkEvents, WalksTyped
<1> QED BY <1>2, <1>3, <1>4

\* The walks to planning end there, or are refused.
LEMMA ToPlanningOutcome ==
    ASSUME NEW s \in Status \cup LegacyStatus
    PROVE  /\ Outcome(RevertToPlanningWalk(s), MapLegacyStatus(s), "planning")
           /\ Outcome(ForceToPlanningWalk(s), MapLegacyStatus(s), "planning")
<1> DEFINE a == MapLegacyStatus(s)
<1>1. a \in Place /\ (s \in Status => a = s)
  BY Mapped DEF Place
<1>2. Outcome(<<"cancel", "reopen">>, a, "planning")
  <2>1. <<"cancel", "reopen">> = <<"cancel">> \o <<"reopen">>
    OBVIOUS
  <2>2. Outcome(<<"cancel">>, a, "cancelled")
    <3>1. \A edge \in TransitionTable :
             edge[1] = a /\ edge[2] = "cancel" => edge[3] = "cancelled"
      BY DEF TransitionTable
    <3> QED BY <3>1, <1>1, EventOutcome
  <2> QED BY <2>1, <2>2, ReadyLeads, OutcomeOn, WalkEvents
<1>3. CASE s = "planning"
  <2>1. /\ RevertToPlanningWalk(s) = << >> /\ ForceToPlanningWalk(s) = << >>
        /\ a = "planning"
    BY <1>3, <1>1 DEF RevertToPlanningWalk, ForceToPlanningWalk, Status
  <2> QED BY <2>1, <1>1, EmptyLeads DEF Outcome
<1>4. CASE s = "cancelled"
  <2>1. /\ RevertToPlanningWalk(s) = <<"cancel", "reopen">>
        /\ ForceToPlanningWalk(s) = <<"reopen">> /\ a = "cancelled"
    BY <1>4, <1>1 DEF RevertToPlanningWalk, ForceToPlanningWalk, Status
  <2> QED BY <2>1, <1>2, ReadyLeads DEF Outcome
<1>5. CASE s = "done"
  <2>1. /\ RevertToPlanningWalk(s) = <<"cancel", "reopen">>
        /\ ForceToPlanningWalk(s) = <<"start_over">> /\ a = "done"
    BY <1>5, <1>1 DEF RevertToPlanningWalk, ForceToPlanningWalk, Status
  <2> QED BY <2>1, <1>2, ReadyLeads DEF Outcome
<1>6. CASE s \notin {"planning", "cancelled", "done"}
  <2>1. /\ RevertToPlanningWalk(s) = <<"cancel", "reopen">>
        /\ ForceToPlanningWalk(s) = <<"cancel", "reopen">>
    BY <1>6 DEF RevertToPlanningWalk, ForceToPlanningWalk
  <2> QED BY <2>1, <1>2
<1> QED BY <1>3, <1>4, <1>5, <1>6

----------------------------------------------------------------------------
(* The steps of an operation. *)

\* The rest of a sequence.
LEMMA TailFacts ==
    ASSUME NEW S, NEW s \in Seq(S), s # << >>
    PROVE  /\ Head(s) = s[1] /\ s[1] \in S
           /\ Tail(s) \in Seq(S)
           /\ Len(s) \in Nat \ {0} /\ Len(Tail(s)) = Len(s) - 1
           /\ \A i \in 1 .. Len(s) - 1 : Tail(s)[i] = s[i + 1]
           /\ << >> \o Tail(s) = Tail(s)
OBVIOUS

\* One element before a sequence.
LEMMA ConsFacts ==
    ASSUME NEW S, NEW h \in Seq(S), Len(h) = 1, NEW t \in Seq(S)
    PROVE  /\ h \o t \in Seq(S) /\ Len(h \o t) = 1 + Len(t) /\ Len(t) \in Nat
           /\ (h \o t)[1] = h[1]
           /\ \A i \in 2 .. 1 + Len(t) : (h \o t)[i] = t[i - 1]
<1> DEFINE c == h \o t
<1> DEFINE l == Len(h)
<1>1. /\ c \in Seq(S) /\ Len(c) = l + Len(t) /\ Len(t) \in Nat
      /\ \A i \in 1 .. l : c[i] = h[i]
      /\ \A i \in l + 1 .. l + Len(t) : c[i] = t[i - l]
  BY CatFacts, ZenonT(30)
<1>2. l = 1
  OBVIOUS
<1> HIDE DEF c, l
<1>3. /\ c \in Seq(S) /\ Len(c) = 1 + Len(t) /\ Len(t) \in Nat
      /\ c[1] = h[1]
      /\ \A i \in 2 .. 1 + Len(t) : c[i] = t[i - 1]
  BY <1>1, <1>2
<1> QED BY <1>3 DEF c

\* A sequence with another first element.
LEMMA HeadReplaced ==
    ASSUME NEW S, NEW s \in Seq(S), s # << >>, NEW x \in S
    PROVE  /\ <<x>> \o Tail(s) \in Seq(S)
           /\ Len(<<x>> \o Tail(s)) = Len(s)
           /\ (<<x>> \o Tail(s))[1] = x
           /\ \A i \in 2 .. Len(s) : (<<x>> \o Tail(s))[i] = s[i]
<1> DEFINE t == Tail(s)
           h == <<x>>
<1>1. /\ t \in Seq(S) /\ Len(s) \in Nat \ {0} /\ Len(t) = Len(s) - 1
      /\ \A i \in 1 .. Len(s) - 1 : t[i] = s[i + 1]
  BY TailFacts
<1>2. h \in Seq(S) /\ Len(h) = 1 /\ h[1] = x
  OBVIOUS
<1> HIDE DEF t, h
<1>3. /\ h \o t \in Seq(S) /\ Len(h \o t) = 1 + Len(t)
      /\ (h \o t)[1] = x
      /\ \A i \in 2 .. 1 + Len(t) : (h \o t)[i] = t[i - 1]
  BY <1>1, <1>2, ConsFacts
<1>4. \A i \in 2 .. Len(s) : (h \o t)[i] = s[i]
  <2> TAKE i \in 2 .. Len(s)
  <2>1. i \in 2 .. 1 + Len(t) /\ i - 1 \in 1 .. Len(s) - 1 /\ (i - 1) + 1 = i
    BY <1>1
  <2> QED BY <2>1, <1>1, <1>3
<1> QED BY <1>1, <1>3, <1>4 DEF h, t

\* What follows a walk: nothing that changes the row, and a reload among it.
PostOK(n, post) ==
    /\ post # << >> /\ ShapeOK(post)
    /\ post[1].name = n /\ post[1].do \in {"reload", "refresh", "content"}
    /\ \E i \in 1 .. Len(post) : post[i].do \in Reloads
    /\ \A i \in 1 .. Len(post) :
          post[i].do \notin {"transition", "update", "create", "rename", "fetch", "write"}

\* The steps of a walk between what precedes and what follows it.
WalkOp(n, p, w, post, s) ==
    /\ Len(s) = p + Len(w) + Len(post)
    /\ \A i \in 1 .. p : s[i] = Step("backfill", n, "", "must")
    /\ \A i \in p + 1 .. p + Len(w) : s[i] = Step("transition", n, w[i - p], "must")
    /\ \A i \in p + Len(w) + 1 .. Len(s) : s[i] = post[i - p - Len(w)]

\* A walk without a branch to fill in is a walk operation.
LEMMA PlainWalkOp ==
    ASSUME NEW n \in Names, NEW w \in Seq(Event), NEW post \in Seq(TypedSteps)
    PROVE  WalkOp(n, 0, w, post, Transitions(n, w) \o post)
<1> DEFINE t == Transitions(n, w)
           k == Len(w)
           q == Len(post)
           s == t \o post
<1>1. t \in Seq(TypedSteps) /\ Len(t) = k /\ k \in Nat /\ q \in Nat
      /\ \A i \in 1 .. k : t[i] = Step("transition", n, w[i], "must")
  <2>1. t \in Seq(TypedSteps)
    BY TransitionsTyped
  <2>2. k \in Nat /\ q \in Nat
    OBVIOUS
  <2>3. t = [i \in 1 .. k |-> Step("transition", n, w[i], "must")]
    BY DEF Transitions
  <2> HIDE DEF t, k
  <2> QED BY <2>1, <2>2, <2>3
<1> HIDE DEF t
<1>2. /\ Len(s) = Len(t) + q
      /\ \A i \in 1 .. Len(t) : s[i] = t[i]
      /\ \A i \in Len(t) + 1 .. Len(t) + q : s[i] = post[i - Len(t)]
  <2>1. t \in Seq(TypedSteps) /\ post \in Seq(TypedSteps)
    BY <1>1
  <2> QED BY ONLY <2>1, CatFacts
<1> HIDE DEF k, q, s
<1>3. /\ Len(s) = 0 + k + q
      /\ \A i \in 1 .. 0 : s[i] = Step("backfill", n, "", "must")
      /\ \A i \in 0 + 1 .. 0 + k : s[i] = Step("transition", n, w[i - 0], "must")
      /\ \A i \in 0 + k + 1 .. Len(s) : s[i] = post[i - 0 - k]
  BY <1>1, <1>2
<1> QED BY <1>3 DEF WalkOp, s, t, k, q

\* A walk after filling in the branch is one too.
LEMMA BackfilledWalkOp ==
    ASSUME NEW n \in Names, NEW w \in Seq(Event), NEW post \in Seq(TypedSteps)
    PROVE  /\ WalkOp(n, 1, w, post, Backfill(n) \o (Transitions(n, w) \o post))
           /\ Backfill(n) \o (Transitions(n, w) \o post) \in Seq(TypedSteps)
<1> DEFINE b == Backfill(n)
           k == Len(w)
           q == Len(post)
           r == Transitions(n, w) \o post
           s == b \o r
<1>1. /\ r \in Seq(TypedSteps) /\ k \in Nat /\ q \in Nat
      /\ b \in Seq(TypedSteps)
  <2>1. Transitions(n, w) \in Seq(TypedSteps) /\ b \in Seq(TypedSteps)
    BY TransitionsTyped, AppendedTyped
  <2>2. r \in Seq(TypedSteps)
    BY <2>1, ShortSeqs
  <2> QED BY <2>1, <2>2
<1>2. /\ Len(r) = k + q
      /\ \A i \in 1 .. k : r[i] = Step("transition", n, w[i], "must")
      /\ \A i \in k + 1 .. k + q : r[i] = post[i - k]
  <2>1. WalkOp(n, 0, w, post, r)
    BY PlainWalkOp
  <2> HIDE DEF r
  <2>2. /\ Len(r) = 0 + k + q
        /\ \A i \in 0 + 1 .. 0 + k : r[i] = Step("transition", n, w[i - 0], "must")
        /\ \A i \in 0 + k + 1 .. Len(r) : r[i] = post[i - 0 - k]
    BY <2>1 DEF WalkOp
  <2> HIDE DEF k, q
  <2> QED BY <2>2, <1>1
<1>3. Len(b) = 1 /\ b[1] = Step("backfill", n, "", "must")
  BY DEF Backfill
<1> HIDE DEF b, r
<1>4. /\ s \in Seq(TypedSteps)
      /\ Len(s) = 1 + Len(r) /\ s[1] = b[1]
      /\ \A i \in 2 .. 1 + Len(r) : s[i] = r[i - 1]
  BY <1>1, <1>3, ConsFacts
<1> HIDE DEF k, q, s
<1>5. /\ Len(s) = 1 + k + q
      /\ \A i \in 1 .. 1 : s[i] = Step("backfill", n, "", "must")
      /\ \A i \in 1 + 1 .. 1 + k : s[i] = Step("transition", n, w[i - 1], "must")
      /\ \A i \in 1 + k + 1 .. Len(s) : s[i] = post[i - 1 - k]
  <2>1. \A i \in 1 + 1 .. 1 + k : s[i] = Step("transition", n, w[i - 1], "must")
    <3> TAKE i \in 1 + 1 .. 1 + k
    <3>1. i \in 2 .. 1 + Len(r) /\ i - 1 \in 1 .. k
      BY <1>1, <1>2
    <3> QED BY <3>1, <1>2, <1>4
  <2>2. \A i \in 1 + k + 1 .. Len(s) : s[i] = post[i - 1 - k]
    <3> TAKE i \in 1 + k + 1 .. Len(s)
    <3>1. i \in 2 .. 1 + Len(r) /\ i - 1 \in k + 1 .. k + q /\ i - 1 - k = (i - 1) - k
      BY <1>1, <1>2, <1>4
    <3>2. s[i] = r[i - 1] /\ r[i - 1] = post[(i - 1) - k]
      BY <3>1, <1>2, <1>4
    <3> QED BY <3>1, <3>2
  <2>3. Len(s) = 1 + k + q
    BY <1>1, <1>2, <1>4
  <2>4. \A i \in 1 .. 1 : s[i] = Step("backfill", n, "", "must")
    <3>1. s[1] = Step("backfill", n, "", "must")
      BY <1>3, <1>4
    <3>2. \A i \in 1 .. 1 : i = 1
      OBVIOUS
    <3> QED BY <3>1, <3>2
  <2> QED BY <2>1, <2>2, <2>3, <2>4
<1> QED BY <1>4, <1>5 DEF WalkOp, s, r, b, k, q

\* Walk operations are ordered as they should be.
LEMMA WalkShape ==
    ASSUME NEW n \in Names, NEW p \in Nat, p <= 1, NEW w \in Seq(Event),
           NEW post \in Seq(TypedSteps), PostOK(n, post), NEW s, WalkOp(n, p, w, post, s)
    PROVE  /\ ShapeOK(s) /\ s[1].name = n
           /\ s[1].do \in {"backfill", "transition", "reload", "refresh", "content"}
           /\ \A i \in 1 .. Len(s) : s[i].do = "transition" => s[i].mode = "must"
           /\ Len(s) \in Nat \ {0}
<1> DEFINE k == Len(w)
           q == Len(post)
<1>1. k \in Nat /\ q \in Nat /\ q >= 1 /\ p \in Nat /\ p <= 1
  BY DEF PostOK
<1>2. /\ Len(s) = p + k + q
      /\ \A i \in 1 .. p : s[i] = Step("backfill", n, "", "must")
      /\ \A i \in p + 1 .. p + k : s[i] = Step("transition", n, w[i - p], "must")
      /\ \A i \in p + k + 1 .. p + k + q : s[i] = post[i - p - k]
  BY DEF WalkOp
<1>3. /\ \A i \in 1 .. q :
            /\ post[i].name = n
            /\ post[i].do \notin {"force", "register", "implement", "transition", "update",
                                  "create", "rename", "fetch", "write"}
            /\ post[i].do = "backfill" /\ i > 1 => post[i - 1].do \in Reloads
            /\ post[i].do = "backfill" /\ post[i].mode = "soft" => i = q
            /\ post[i].do = "spawn" => i = q /\ post[i].mode = "must"
            /\ post[i].mode = "always" => i = q /\ post[i].do = "reload"
      /\ post[1].do \in {"reload", "refresh", "content"}
      /\ \E j \in 1 .. q : post[j].do \in Reloads
  <2>1. 1 \in 1 .. q
    BY <1>1
  <2> QED BY <2>1 DEF PostOK, ShapeOK
<1> HIDE DEF k, q
<1>4. PICK j \in p + k + 1 .. p + k + q : s[j].do \in Reloads
  <2>1. PICK j \in 1 .. q : post[j].do \in Reloads
    BY <1>3
  <2>2. j + p + k \in p + k + 1 .. p + k + q /\ (j + p + k) - p - k = j
    BY <1>1
  <2> QED BY <2>1, <2>2, <1>2
<1>5. ASSUME NEW i \in 1 .. p
      PROVE  /\ s[i].name = n /\ s[i].do = "backfill" /\ s[i].mode = "must" /\ i = 1
  <2>1. s[i] = Step("backfill", n, "", "must")
    BY <1>2
  <2>2. i = 1
    BY <1>1
  <2>3. /\ Step("backfill", n, "", "must").name = n
        /\ Step("backfill", n, "", "must").do = "backfill"
        /\ Step("backfill", n, "", "must").mode = "must"
    BY DEF Step
  <2> QED BY <2>1, <2>2, <2>3
<1>6. ASSUME NEW i \in p + 1 .. p + k
      PROVE  /\ s[i].name = n /\ s[i].do = "transition" /\ s[i].mode = "must"
             /\ j \in i + 1 .. p + k + q
  <2>1. i \in Int /\ j \in Int /\ i <= p + k /\ j >= p + k + 1 /\ j <= p + k + q
    BY <1>1, <1>4
  <2>2. s[i] = Step("transition", n, w[i - p], "must")
    BY <1>2
  <2> QED BY <2>1, <2>2, <1>1 DEF Step
<1>7. ASSUME NEW i \in p + k + 1 .. p + k + q
      PROVE  /\ s[i].name = n
             /\ s[i].do \notin {"force", "register", "implement", "transition", "update",
                                "create", "rename", "fetch", "write"}
             /\ s[i].do = "backfill" => i > 1 /\ s[i - 1].do \in Reloads
             /\ s[i].do = "backfill" /\ s[i].mode = "soft" => i = p + k + q
             /\ s[i].do = "spawn" => i = p + k + q /\ s[i].mode = "must"
             /\ s[i].mode = "always" => i = p + k + q /\ s[i].do = "reload"
  <2> DEFINE x == i - p - k
  <2>1. x \in 1 .. q /\ s[i] = post[x] /\ (x = q => i = p + k + q)
    <3>1. x \in 1 .. q /\ (x = q => i = p + k + q)
      BY <1>1
    <3>2. s[i] = post[x]
      BY <1>2
    <3> QED BY <3>1, <3>2
  <2>2. ASSUME s[i].do = "backfill" PROVE i > 1 /\ s[i - 1].do \in Reloads
    <3>1. x # 1
      BY <2>1, <2>2, <1>3
    <3>2. x > 1 /\ i - 1 \in p + k + 1 .. p + k + q /\ (i - 1) - p - k = x - 1 /\ i > 1
      BY <2>1, <3>1, <1>1, SMTT(30)
    <3>3. s[i - 1] = post[x - 1]
      BY <3>2, <1>2
    <3> QED BY <3>2, <3>3, <2>1, <2>2, <1>3
  <2> HIDE DEF x
  <2> QED BY <2>1, <2>2, <1>3
<1>8. Len(s) = p + k + q /\ Len(s) \in Nat \ {0} /\ p \in Nat
  <2>1. Len(s) = p + k + q
    BY <1>2
  <2>2. p + k + q \in Nat \ {0}
    BY <1>1
  <2> QED BY <2>1, <2>2
<1>9. \A i \in 1 .. Len(s) :
         i \in 1 .. p \/ i \in p + 1 .. p + k \/ i \in p + k + 1 .. p + k + q
  BY <1>1, <1>8
<1>10. s[1].name = n
  <2>1. 1 \in 1 .. Len(s)
    BY <1>8
  <2> QED BY <2>1, <1>5, <1>6, <1>7, <1>9
<1>11. s[1].do \in {"backfill", "transition", "reload", "refresh", "content"}
  <2>1. CASE p + k = 0
    <3>1. s[1] = post[1]
      <4>1. 1 \in p + k + 1 .. p + k + q /\ 1 - p - k = 1
        BY <2>1, <1>1
      <4>2. s[1] = post[1 - p - k]
        BY <4>1, <1>2
      <4> QED BY <4>1, <4>2
    <3> QED BY <3>1, <1>3
  <2>2. CASE p + k # 0
    <3>1. 1 \in 1 .. p \/ 1 \in p + 1 .. p + k
      BY <2>2, <1>1
    <3> QED BY <3>1, <1>5, <1>6
  <2> QED BY <2>1, <2>2
<1>12. ShapeOK(s)
  <2> SUFFICES ASSUME NEW i \in 1 .. Len(s)
               PROVE  /\ s[i].name = s[1].name
                      /\ s[i].do \notin {"force", "register", "implement"}
                      /\ s[i].do \in {"update", "create", "rename", "fetch", "write"} => i = 1
                      /\ s[i].do = "transition" => \E y \in i + 1 .. Len(s) : s[y].do \in Reloads
                      /\ s[i].do = "backfill" /\ i > 1 => s[i - 1].do \in Reloads
                      /\ s[i].do = "backfill" /\ s[i].mode = "soft" => i = Len(s)
                      /\ s[i].do = "spawn" => i = Len(s) /\ s[i].mode = "must"
                      /\ s[i].do \in {"fetch", "write", "rename"} =>
                            Len(s) = 1 /\ s[i].mode = "must"
                      /\ s[i].mode = "always" => i = Len(s) /\ s[i].do = "reload"
                      /\ s[i].do = "transition" /\ s[i].mode = "soft" =>
                            \A y \in i + 1 .. Len(s) :
                               s[y].do \in {"reload", "backfill", "spawn"}
    BY Zenon DEF ShapeOK
  <2>1. CASE i \in 1 .. p
    BY <2>1, <1>5, <1>10
  <2>2. CASE i \in p + 1 .. p + k
    BY <2>2, <1>4, <1>6, <1>8, <1>10
  <2>3. CASE i \in p + k + 1 .. p + k + q
    BY <2>3, <1>7, <1>8, <1>10
  <2> QED BY <2>1, <2>2, <2>3, <1>9
<1>13. \A i \in 1 .. Len(s) : s[i].do = "transition" => s[i].mode = "must"
  BY <1>5, <1>6, <1>7, <1>9
<1> QED BY <1>8, <1>10, <1>11, <1>12, <1>13

\* A transition, and the other steps that leave a status alone.
LEMMA FollowsFacts ==
    ASSUME NEW n, NEW x, NEW mode, NEW a, NEW e, Allowed(a, e), NEW step
    PROVE  /\ Follows(Step("transition", n, e, mode), a, ApplyTransition(a, e))
           /\ Follows(Step("backfill", n, x, mode), a, a)
           /\ /\ step.do \notin {"transition", "update", "create", "rename"}
              /\ step.do = "content" => a # "none"
              => Follows(step, a, a)
<1>1. /\ Step("transition", n, e, mode).do = "transition"
      /\ Step("transition", n, e, mode).arg = e
      /\ Step("backfill", n, x, mode).do = "backfill"
  BY DEF Step
<1> QED BY <1>1 DEF Follows

\* A step without a say in the status leaves it.
LEMMA StayFollows ==
    ASSUME NEW a, NEW step, step.do \notin {"transition", "update", "create", "rename"},
           step.do = "content" => a # "none"
    PROVE  Follows(step, a, a)
BY DEF Follows

\* A walk that leads to a status destines its operation to it.
LEMMA WalkDestined ==
    ASSUME NEW n \in Names, NEW p \in Nat, p <= 1, NEW w \in Seq(Event),
           NEW post \in Seq(TypedSteps), PostOK(n, post), NEW s, WalkOp(n, p, w, post, s),
           NEW b \in Status, Leads(w, StatusOf(n), b),
           NEW g, g # None => g.name = n /\ g.status = b
    PROVE  Destined(s, g)
<1> DEFINE k == Len(w)
           q == Len(post)
           m == Len(s)
<1>1. k \in Nat /\ q \in Nat /\ q >= 1
  BY DEF PostOK
<1>2. m = p + k + q
  BY DEF WalkOp
<1>3. /\ \A i \in 1 .. p : s[i] = Step("backfill", n, "", "must")
      /\ \A i \in p + 1 .. p + k : s[i] = Step("transition", n, w[i - p], "must")
      /\ \A i \in p + k + 1 .. m : s[i] = post[i - p - k]
  BY <1>2 DEF WalkOp
<1>4. \A i \in 1 .. q : post[i].do \notin {"transition", "update", "create", "rename"}
  BY DEF PostOK
<1>5. s[1].name = n
  BY WalkShape
<1>6. PICK h \in [1 .. k + 1 -> Place] :
         /\ h[1] = StatusOf(n) /\ h[k + 1] = b
         /\ \A i \in 1 .. k : /\ Allowed(h[i], w[i])
                              /\ h[i + 1] = ApplyTransition(h[i], w[i])
  BY DEF Leads
<1> HIDE DEF k, q, m
<1> DEFINE at(i) == IF i <= p THEN 1 ELSE IF i <= p + k THEN i - p ELSE k + 1
           f == [i \in 1 .. m + 1 |-> h[at(i)]]
<1>7. \A i \in 1 .. m + 1 : at(i) \in 1 .. k + 1
  BY <1>1, <1>2
<1>8. f \in [1 .. m + 1 -> Place] /\ \A i \in 1 .. m + 1 : f[i] = h[at(i)]
  BY <1>6, <1>7
<1> HIDE DEF f
<1>9. f[1] = StatusOf(n) /\ f[m + 1] = b
  <2>1. at(1) = 1 /\ 1 \in 1 .. m + 1
    BY <1>1, <1>2
  <2>2. at(m + 1) = k + 1 /\ m + 1 \in 1 .. m + 1
    BY <1>1, <1>2
  <2> QED BY <2>1, <2>2, <1>6, <1>8
<1>10. \A i \in 1 .. m : Follows(s[i], f[i], f[i + 1])
  <2> TAKE i \in 1 .. m
  <2>1. i \in 1 .. m + 1 /\ i + 1 \in 1 .. m + 1
    BY <1>1, <1>2
  <2>2. CASE i \in 1 .. p
    <3>1. at(i) = 1 /\ at(i + 1) = 1
      BY <2>2, <1>1
    <3>2. f[i] = h[1] /\ f[i + 1] = h[1]
      BY <3>1, <2>1, <1>8
    <3>3. s[i].do = "backfill"
      <4>1. s[i] = Step("backfill", n, "", "must")
        BY <2>2, <1>3
      <4>2. Step("backfill", n, "", "must").do = "backfill"
        BY DEF Step
      <4> QED BY <4>1, <4>2
    <3> QED BY <3>2, <3>3, StayFollows
  <2>3. CASE i \in p + 1 .. p + k
    <3>1. at(i) = i - p /\ at(i + 1) = (i - p) + 1 /\ i - p \in 1 .. k
      BY <2>3, <1>1
    <3>2. f[i] = h[i - p] /\ f[i + 1] = h[(i - p) + 1]
      BY <3>1, <2>1, <1>8
    <3>3. s[i] = Step("transition", n, w[i - p], "must")
      BY <2>3, <1>3
    <3>4. /\ Allowed(h[i - p], w[i - p])
          /\ h[(i - p) + 1] = ApplyTransition(h[i - p], w[i - p])
      BY <3>1, <1>6
    <3> QED BY <3>2, <3>3, <3>4, FollowsFacts
  <2>4. CASE i \in p + k + 1 .. m
    <3>1. at(i) = k + 1 /\ at(i + 1) = k + 1 /\ i - p - k \in 1 .. q
      BY <2>4, <1>1, <1>2
    <3>2. f[i] = b /\ f[i + 1] = b
      BY <3>1, <2>1, <1>6, <1>8
    <3>3. s[i] = post[i - p - k]
      BY <2>4, <1>3
    <3>4. s[i].do \notin {"transition", "update", "create", "rename"}
      BY <3>1, <3>3, <1>4
    <3>5. b # "none"
      BY DEF Status
    <3> QED BY <3>2, <3>4, <3>5, StayFollows
  <2>5. i \in 1 .. p \/ i \in p + 1 .. p + k \/ i \in p + k + 1 .. m
    BY <1>1, <1>2
  <2> QED BY <2>2, <2>3, <2>4, <2>5
<1>11. PathOf(s, f)
  BY <1>5, <1>8, <1>9, <1>10 DEF PathOf, m
<1>12. g # None => g.name = s[1].name /\ g.status = f[Len(s) + 1]
  BY <1>5, <1>9 DEF m
<1> QED BY <1>11, <1>12 DEF Destined

\* A walk whose first event is refused dooms it.
LEMMA WalkDoomed ==
    ASSUME NEW n \in Names, NEW p \in Nat, p <= 1, NEW w \in Seq(Event),
           NEW post \in Seq(TypedSteps), PostOK(n, post), NEW s, WalkOp(n, p, w, post, s),
           w # << >>, ~Allowed(StatusOf(n), w[1]), cache = rows
    PROVE  Doomed(s)
<1> DEFINE k == Len(w)
<1>1. k \in Nat /\ k >= 1
  OBVIOUS
<1>2. Len(s) = p + k + Len(post) /\ Len(post) \in Nat
  <2>1. Len(s) = p + k + Len(post)
    BY DEF WalkOp
  <2>2. Len(post) \in Nat
    OBVIOUS
  <2> QED BY <2>1, <2>2
<1>3. s[p + 1] = Step("transition", n, w[(p + 1) - p], "must")
  <2>1. p + 1 \in p + 1 .. p + k
    BY <1>1
  <2> QED BY <2>1 DEF WalkOp
<1>4. p + 1 \in 1 .. Len(s)
  BY <1>1, <1>2
<1>5. /\ s[p + 1].do = "transition" /\ s[p + 1].mode = "must" /\ s[p + 1].name = n
      /\ s[p + 1].arg = w[1]
  <2>1. (p + 1) - p = 1
    OBVIOUS
  <2> QED BY <2>1, <1>3 DEF Step
<1>6. \A j \in 1 .. (p + 1) - 1 : s[j].do = "backfill"
  <2> TAKE j \in 1 .. (p + 1) - 1
  <2>1. j \in 1 .. p
    OBVIOUS
  <2>2. s[j] = Step("backfill", n, "", "must")
    BY <2>1 DEF WalkOp
  <2>3. Step("backfill", n, "", "must").do = "backfill"
    BY DEF Step
  <2> QED BY <2>2, <2>3
<1>7. s[1].do # "update"
  BY WalkShape
<1> QED BY <1>4, <1>5, <1>6, <1>7 DEF Doomed

\* A walk operation over a fresh cache is doomed or destined.
LEMMA WalkOpOK ==
    ASSUME NEW n \in Names, NEW p \in Nat, p <= 1, NEW w \in Seq(Event),
           NEW post \in Seq(TypedSteps), PostOK(n, post), NEW s, WalkOp(n, p, w, post, s),
           NEW b \in Status, Outcome(w, StatusOf(n), b), cache = rows,
           NEW g, g # None => g.name = n /\ g.status = b
    PROVE  /\ ShapeOK(s) /\ CacheOK(s) /\ (Doomed(s) \/ Destined(s, g))
           /\ \A i \in 1 .. Len(s) : s[i].do = "transition" => s[i].mode = "must"
           /\ s[1].name = n
<1>1. /\ ShapeOK(s) /\ s[1].name = n
      /\ s[1].do \in {"backfill", "transition", "reload", "refresh", "content"}
      /\ \A i \in 1 .. Len(s) : s[i].do = "transition" => s[i].mode = "must"
  <2>1. ShapeOK(s) /\ s[1].name = n
    BY WalkShape
  <2>2. s[1].do \in {"backfill", "transition", "reload", "refresh", "content"}
    BY WalkShape
  <2>3. \A i \in 1 .. Len(s) : s[i].do = "transition" => s[i].mode = "must"
    BY WalkShape
  <2> QED BY <2>1, <2>2, <2>3
<1>2. CacheOK(s)
  BY <1>1 DEF CacheOK
<1>3. Doomed(s) \/ Destined(s, g)
  <2>1. CASE Leads(w, StatusOf(n), b)
    BY <2>1, WalkDestined
  <2>2. CASE w # << >> /\ ~Allowed(StatusOf(n), w[1])
    BY <2>2, WalkDoomed
  <2> QED BY <2>1, <2>2 DEF Outcome
<1> QED BY <1>1, <1>2, <1>3

----------------------------------------------------------------------------
(* The beginning of an operation. *)

\* What an operation has to be when it begins.
Ready(s, g) ==
    /\ s \in Seq(TypedSteps) /\ s # << >>
    /\ ShapeOK(s) /\ CacheOK(s) /\ (Doomed(s) \/ Destined(s, g))
    /\ \A i \in 1 .. Len(s) :
          s[i].do = "transition" /\ s[i].mode = "soft" => g = None

\* It is judged by the rows and the cache alone.
LEMMA ReadyStays ==
    ASSUME NEW s, NEW g, Ready(s, g), UNCHANGED <<rows, cache>>
    PROVE  Ready(s, g)'
<1>1. \A n : StatusOf(n)' = StatusOf(n)
  BY DEF StatusOf
<1>2. \A step : Ahead(step)' <=> Ahead(step)
  BY DEF Ahead, RenameOK
<1>3. CacheOK(s)' <=> CacheOK(s)
  BY <1>2 DEF CacheOK
<1>4. Doomed(s)' <=> Doomed(s)
  BY <1>1, <1>2 DEF Doomed
<1>5. \A f : PathOf(s, f)' <=> PathOf(s, f)
  BY <1>1 DEF PathOf
<1>6. Destined(s, g)' <=> Destined(s, g)
  BY <1>5 DEF Destined
<1> QED BY <1>3, <1>4, <1>6 DEF Ready

\* A ready operation that begins keeps the invariant.
LEMMA BeginOK ==
    ASSUME SerialInv, Undisturbed, NEW c \in Clients, NEW s, NEW g,
           Begin(c, s, g), Ready(s, g)', StateTypeOK', ClientTypeOK', DialogOK',
           view' = view \/ view' = NoView
    PROVE  SerialInv'
<1>1. Quiet /\ view = NoView
  BY DEF Begin, Undisturbed
<1>2. s # << >>
  BY DEF Ready
<1>3. /\ \A d \in Clients : todo[d] = << >>
      /\ todo' = [todo EXCEPT ![c] = s] /\ goal' = [goal EXCEPT ![c] = g]
      /\ todo \in [Clients -> Seq(TypedSteps)]
      /\ DOMAIN goal = Clients
  BY <1>1 DEF Begin, Quiet, Idle, SerialInv, TypeInv, ClientTypeOK
<1>4. /\ todo'[c] = s /\ goal'[c] = g
      /\ \A d \in Clients \ {c} : todo'[d] = << >>
  BY <1>3
<1>5. Alone'
  <2>1. ~Quiet'
    BY <1>2, <1>4 DEF Quiet, Idle
  <2>2. view' = NoView
    BY <1>1
  <2>3. \A d, e \in Clients : todo'[d] = << >> \/ todo'[e] = << >> \/ d = e
    BY <1>4
  <2> QED BY <2>1, <2>2, <2>3 DEF Alone, Idle
<1>6. ASSUME NEW d \in Clients PROVE OpOK(d)'
  <2>1. CASE d = c
    <3>1. OpOK(c)'
      BY <1>4 DEF OpOK, Ready
    <3> QED BY <3>1, <2>1
  <2>2. CASE d # c
    BY <2>2, <1>4 DEF OpOK, Idle
  <2> QED BY <2>1, <2>2
<1> QED BY <1>5, <1>6 DEF SerialInv, TypeInv

\* With one operation at a time, all is quiet and the cache fresh when one begins.
LEMMA BeginsFresh ==
    ASSUME SerialInv, Undisturbed, NEW c \in Clients, NEW s, NEW g, Begin(c, s, g)
    PROVE  /\ Quiet /\ view = NoView /\ cache = rows
           /\ \A n \in Names : rows[n] # NoPlan =>
                 /\ rows[n].status \in Status \cup LegacyStatus
                 /\ StatusOf(n) = MapLegacyStatus(rows[n].status)
           /\ \A n \in Names : StatusOf(n) \in Place
<1>1. Quiet /\ view = NoView /\ cache = rows
  BY DEF Begin, Undisturbed, SerialInv, Alone
<1>2. rows \in [Names -> Meta \cup {NoPlan}]
  BY DEF SerialInv, TypeInv, StateTypeOK, StoreTypeOK
<1>3. \A n \in Names : rows[n] # NoPlan => rows[n].status \in Status \cup LegacyStatus
  BY <1>2, EntryTyped
<1>4. \A n \in Names : StatusOf(n) \in Place
  BY <1>3, Mapped DEF StatusOf, Place
<1> QED BY <1>1, <1>3, <1>4 DEF StatusOf

\* What follows the walks.
LEMMA Posts ==
    ASSUME NEW n \in Names
    PROVE  /\ \A post \in { Reload(n), Reload(n) \o Spawn(n),
                            Reload(n) \o << Step("backfill", n, "", "soft") >>,
                            Reload(n) \o << Step("refresh", n, "", "must") >>,
                            << Step("refresh", n, "", "must") >>,
                            << Step("reload", n, "", "always") >> } :
                 post \in Seq(TypedSteps) /\ PostOK(n, post)
           /\ \A x \in Text :
                 /\ << Step("content", n, x, "soft") >> \o << Step("reload", n, "", "always") >>
                       \in Seq(TypedSteps)
                 /\ PostOK(n, << Step("content", n, x, "soft") >>
                                \o << Step("reload", n, "", "always") >>)
<1>1. ASSUME NEW x \in TypedSteps, x.name = n, x.do \in Reloads,
             x.mode = "always" => x.do = "reload"
      PROVE  <<x>> \in Seq(TypedSteps) /\ PostOK(n, <<x>>)
  <2> DEFINE s == <<x>>
  <2>1. s \in Seq(TypedSteps) /\ Len(s) = 1 /\ s[1] = x
    OBVIOUS
  <2> HIDE DEF s
  <2>2. \A i \in 1 .. Len(s) : i = 1
    BY <2>1
  <2>3. 1 \in 1 .. Len(s) /\ s # << >>
    BY <2>1
  <2>4. ShapeOK(s)
    BY <1>1, <2>1, <2>2 DEF ShapeOK, Reloads
  <2>5. PostOK(n, s)
    BY <1>1, <2>1, <2>2, <2>3, <2>4 DEF PostOK, Reloads
  <2> QED BY <2>1, <2>5 DEF s
<1>2. ASSUME NEW x \in TypedSteps, NEW y \in TypedSteps, x.name = n, y.name = n,
             \/ x.do \in Reloads /\ x.mode = "must"
             \/ x.do = "content" /\ x.mode # "always" /\ y.do \in Reloads,
             y.do \in Reloads \cup {"spawn", "backfill"},
             y.do = "spawn" => y.mode = "must",
             y.mode = "always" => y.do = "reload"
      PROVE  <<x>> \o <<y>> \in Seq(TypedSteps) /\ PostOK(n, <<x>> \o <<y>>)
  <2> DEFINE s == <<x>> \o <<y>>
  <2>1. s \in Seq(TypedSteps) /\ Len(s) = 2 /\ s[1] = x /\ s[2] = y
    OBVIOUS
  <2> HIDE DEF s
  <2>2. \A i \in 1 .. Len(s) : i = 1 \/ i = 2
    BY <2>1
  <2>3. 1 \in 1 .. Len(s) /\ 2 \in 1 .. Len(s) /\ s # << >>
    <3>1. s # << >>
      <4>1. Len(s) = 2 /\ Len(<< >>) = 0
        BY <2>1
      <4> QED BY <4>1, SMTT(30)
    <3>2. 1 \in 1 .. Len(s) /\ 2 \in 1 .. Len(s)
      <4>1. Len(s) = 2
        BY <2>1
      <4> QED BY <4>1
    <3> QED BY <3>1, <3>2
  <2>4. ShapeOK(s)
    <3>1. ASSUME NEW i \in 1 .. Len(s)
          PROVE  /\ s[i].name = s[1].name
                 /\ s[i].do \in {"reload", "refresh", "content", "spawn", "backfill"}
                 /\ s[i].do = "backfill" => i = 2 /\ s[2 - 1].do \in Reloads
                 /\ s[i].do = "spawn" => i = 2 /\ s[i].mode = "must"
                 /\ s[i].mode = "always" => i = 2 /\ s[i].do = "reload"
      <4>1. CASE i = 1
        BY <4>1, <1>2, <2>1 DEF Reloads
      <4>2. CASE i = 2
        BY <4>2, <1>2, <2>1 DEF Reloads
      <4> QED BY <4>1, <4>2, <2>2
    <3> QED BY <3>1, <2>1 DEF ShapeOK
  <2>5. PostOK(n, s)
    <3>1. \E i \in 1 .. Len(s) : s[i].do \in Reloads
      BY <1>2, <2>1, <2>3
    <3>2. ASSUME NEW i \in 1 .. Len(s)
          PROVE  s[i].do \notin {"transition", "update", "create", "rename", "fetch",
                                 "write"}
      BY <1>2, <2>1, <2>2 DEF Reloads
    <3>3. s[1].do \in {"reload", "refresh", "content"} /\ s[1].name = n
      BY <1>2, <2>1 DEF Reloads
    <3> QED BY <2>3, <2>4, <3>1, <3>2, <3>3 DEF PostOK
  <2> QED BY <2>1, <2>5 DEF s
<1>3. /\ \A do \in {"backfill", "reload", "spawn", "refresh"}, mode \in Mode :
            Step(do, n, "", mode) \in TypedSteps
      /\ \A x \in Text : Step("content", n, x, "soft") \in TypedSteps
  BY StepTyped DEF Do, Arg, ArgOK, Step, Text, Mode
<1> DEFINE reload == Step("reload", n, "", "must")
           spawn == Step("spawn", n, "", "must")
           soft == Step("backfill", n, "", "soft")
           refresh == Step("refresh", n, "", "must")
           always == Step("reload", n, "", "always")
<1>4. /\ reload \in TypedSteps /\ spawn \in TypedSteps /\ soft \in TypedSteps
      /\ refresh \in TypedSteps /\ always \in TypedSteps
  BY <1>3 DEF Mode
<1>5. /\ reload.do = "reload" /\ reload.mode = "must" /\ reload.name = n
      /\ spawn.do = "spawn" /\ spawn.mode = "must" /\ spawn.name = n
      /\ soft.do = "backfill" /\ soft.mode = "soft" /\ soft.name = n
      /\ refresh.do = "refresh" /\ refresh.mode = "must" /\ refresh.name = n
      /\ always.do = "reload" /\ always.mode = "always" /\ always.name = n
  BY DEF Step
<1> HIDE DEF reload, spawn, soft, refresh, always
<1>6. <<reload>> \in Seq(TypedSteps) /\ PostOK(n, <<reload>>)
  BY <1>1, <1>4, <1>5 DEF Reloads
<1>7. <<refresh>> \in Seq(TypedSteps) /\ PostOK(n, <<refresh>>)
  BY <1>1, <1>4, <1>5 DEF Reloads
<1>8. <<always>> \in Seq(TypedSteps) /\ PostOK(n, <<always>>)
  BY <1>1, <1>4, <1>5 DEF Reloads
<1>9. <<reload>> \o <<spawn>> \in Seq(TypedSteps) /\ PostOK(n, <<reload>> \o <<spawn>>)
  BY <1>2, <1>4, <1>5 DEF Reloads
<1>10. <<reload>> \o <<soft>> \in Seq(TypedSteps) /\ PostOK(n, <<reload>> \o <<soft>>)
  BY <1>2, <1>4, <1>5 DEF Reloads
<1>11. <<reload>> \o <<refresh>> \in Seq(TypedSteps)
       /\ PostOK(n, <<reload>> \o <<refresh>>)
  BY <1>2, <1>4, <1>5 DEF Reloads
<1>12. ASSUME NEW x \in Text
       PROVE  /\ << Step("content", n, x, "soft") >> \o <<always>> \in Seq(TypedSteps)
              /\ PostOK(n, << Step("content", n, x, "soft") >> \o <<always>>)
  <2> DEFINE text == Step("content", n, x, "soft")
  <2>1. text.do = "content" /\ text.mode = "soft" /\ text.name = n
    BY DEF Step
  <2>2. text \in TypedSteps
    BY <1>3
  <2> HIDE DEF text
  <2>3. <<text>> \o <<always>> \in Seq(TypedSteps) /\ PostOK(n, <<text>> \o <<always>>)
    BY <2>1, <2>2, <1>2, <1>4, <1>5 DEF Reloads
  <2> QED BY <2>3 DEF text
<1>13. Reload(n) = <<reload>> /\ Spawn(n) = <<spawn>>
  BY DEF Reload, Spawn, reload, spawn
<1> QED BY <1>6, <1>7, <1>8, <1>9, <1>10, <1>11, <1>12, <1>13
        DEF soft, refresh, always

\* An operation that walks: its steps are ready to go.
LEMMA WalkReady ==
    ASSUME SerialInv, NEW n \in Names, NEW p \in Nat, p <= 1, NEW w \in Seq(Event),
           NEW post \in Seq(TypedSteps), PostOK(n, post),
           NEW s \in Seq(TypedSteps), WalkOp(n, p, w, post, s),
           NEW b \in Status, Outcome(w, StatusOf(n), b), cache = rows
    PROVE  Ready(s, Announce(n, b))
<1> DEFINE g == Announce(n, b)
<1>1. g # None => g.name = n /\ g.status = b
  BY DEF Announce
<1> HIDE DEF g
<1>2. /\ ShapeOK(s) /\ CacheOK(s) /\ (Doomed(s) \/ Destined(s, g))
      /\ s[1].name = n
  <2>1. ShapeOK(s) /\ CacheOK(s)
    BY <1>1, WalkOpOK
  <2>2. Doomed(s) \/ Destined(s, g)
    BY <1>1, WalkOpOK
  <2>3. s[1].name = n
    BY <1>1, WalkOpOK
  <2> QED BY <2>1, <2>2, <2>3
<1>3. \A i \in 1 .. Len(s) : s[i].do = "transition" => s[i].mode = "must"
  BY <1>1, WalkOpOK
<1>4. s # << >>
  <2>1. Len(s) \in Nat \ {0}
    BY WalkShape
  <2> QED BY <2>1
<1>5. \A i \in 1 .. Len(s) : s[i].do = "transition" /\ s[i].mode = "soft" => g = None
  BY <1>3
<1> QED BY <1>2, <1>4, <1>5 DEF Ready, g

\* Walk operations are ready to begin.
LEMMA PlainReady ==
    ASSUME SerialInv, NEW n \in Names, NEW w \in Seq(Event),
           NEW post \in Seq(TypedSteps), PostOK(n, post),
           NEW b \in Status, Outcome(w, StatusOf(n), b), cache = rows
    PROVE  /\ Ready(Transitions(n, w) \o post, Announce(n, b))
           /\ Transitions(n, w) \o post \in Seq(TypedSteps)
<1> DEFINE s == Transitions(n, w) \o post
<1>1. s \in Seq(TypedSteps)
  <2>1. Transitions(n, w) \in Seq(TypedSteps)
    BY TransitionsTyped
  <2> QED BY <2>1, ShortSeqs
<1>2. WalkOp(n, 0, w, post, s)
  BY PlainWalkOp
<1> HIDE DEF s
<1>3. Ready(s, Announce(n, b))
  <2>1. 0 \in Nat /\ 0 <= 1
    OBVIOUS
  <2> QED BY <2>1, <1>1, <1>2, WalkReady
<1> QED BY <1>1, <1>3 DEF s

\* Those that fill in the branch first are ready too.
LEMMA BackfilledReady ==
    ASSUME SerialInv, NEW n \in Names, NEW w \in Seq(Event),
           NEW post \in Seq(TypedSteps), PostOK(n, post),
           NEW b \in Status, Outcome(w, StatusOf(n), b), cache = rows
    PROVE  /\ Ready(Backfill(n) \o (Transitions(n, w) \o post), Announce(n, b))
           /\ Backfill(n) \o (Transitions(n, w) \o post) \in Seq(TypedSteps)
<1> DEFINE s == Backfill(n) \o (Transitions(n, w) \o post)
<1>1. s \in Seq(TypedSteps)
  BY BackfilledWalkOp
<1>2. WalkOp(n, 1, w, post, s)
  BY BackfilledWalkOp
<1> HIDE DEF s
<1>3. Ready(s, Announce(n, b))
  <2>1. 1 \in Nat /\ 1 <= 1
    OBVIOUS
  <2> QED BY <2>1, <1>1, <1>2, WalkReady
<1> QED BY <1>1, <1>3 DEF s

\* Concatenation is associative.
LEMMA CatAssoc ==
    ASSUME NEW a \in Seq(TypedSteps), NEW b \in Seq(TypedSteps), NEW c \in Seq(TypedSteps)
    PROVE  (a \o b) \o c = a \o (b \o c)
OBVIOUS

\* Steps that leave the statuses alone.
LEMMA StillDestined ==
    ASSUME NEW s, Len(s) \in Nat \ {0}, StatusOf(s[1].name) \in Place,
           \A i \in 1 .. Len(s) :
              s[i].do \notin {"transition", "update", "create", "content", "rename"},
           NEW g, g # None => /\ g.name = s[1].name
                              /\ g.status = StatusOf(s[1].name)
    PROVE  Destined(s, g)
<1> DEFINE a == StatusOf(s[1].name)
           m == Len(s)
           f == [i \in 1 .. m + 1 |-> a]
<1>1. /\ f \in [1 .. m + 1 -> Place]
      /\ \A i \in 1 .. m + 1 : f[i] = a
      /\ 1 \in 1 .. m + 1 /\ m + 1 \in 1 .. m + 1
      /\ \A i \in 1 .. m : i \in 1 .. m + 1 /\ i + 1 \in 1 .. m + 1
  OBVIOUS
<1> HIDE DEF f
<1>2. \A i \in 1 .. m : Follows(s[i], f[i], f[i + 1])
  <2> TAKE i \in 1 .. m
  <2>1. f[i] = a /\ f[i + 1] = a
    BY <1>1
  <2> QED BY <2>1, StayFollows
<1>3. PathOf(s, f)
  BY <1>1, <1>2 DEF PathOf
<1>4. g # None => g.name = s[1].name /\ g.status = f[Len(s) + 1]
  BY <1>1
<1> QED BY <1>3, <1>4 DEF Destined

\* A walk that is refused at once, after the branch was filled in.
LEMMA RefusedReady ==
    ASSUME SerialInv, NEW n \in Names, cache = rows, StatusOf(n) \in Place
    PROVE  Ready(Backfill(n), None)
<1> DEFINE s == Backfill(n)
<1>1. /\ s \in Seq(TypedSteps) /\ s # << >> /\ Len(s) = 1
      /\ s[1].do = "backfill" /\ s[1].name = n /\ s[1].mode = "must"
  <2>1. s \in Seq(TypedSteps)
    BY AppendedTyped
  <2> QED BY <2>1 DEF Backfill, Step
<1> HIDE DEF s
<1>2. \A i \in 1 .. Len(s) : i = 1
  BY <1>1
<1>3. ShapeOK(s) /\ CacheOK(s)
  BY <1>1, <1>2 DEF ShapeOK, CacheOK
<1>4. Destined(s, None)
  BY <1>1, <1>2, StillDestined
<1>5. \A i \in 1 .. Len(s) : s[i].do = "backfill"
  BY <1>1, <1>2
<1> QED BY <1>1, <1>3, <1>4, <1>5 DEF Ready, s

\* Three steps in a row.
Three(x, y, z) == <<x>> \o <<y>> \o <<z>>

\* Its elements, by their places.
LEMMA ThreeInARow ==
    ASSUME NEW x \in TypedSteps, NEW y \in TypedSteps, NEW z \in TypedSteps
    PROVE  /\ Three(x, y, z) \in Seq(TypedSteps)
           /\ Len(Three(x, y, z)) = 3
           /\ Three(x, y, z)[1] = x
           /\ Three(x, y, z)[2] = y
           /\ Three(x, y, z)[3] = z
<1> DEFINE xy == <<x>> \o <<y>>
           l == <<z>>
           s == xy \o l
<1>1. xy \in Seq(TypedSteps) /\ Len(xy) = 2 /\ xy[1] = x /\ xy[2] = y
  OBVIOUS
<1>2. l \in Seq(TypedSteps) /\ Len(l) = 1 /\ l[1] = z
  OBVIOUS
<1> HIDE DEF xy, l
<1>3. /\ s \in Seq(TypedSteps) /\ Len(s) = Len(xy) + Len(l)
      /\ \A i \in 1 .. Len(xy) : s[i] = xy[i]
      /\ \A i \in Len(xy) + 1 .. Len(xy) + Len(l) : s[i] = l[i - Len(xy)]
  <2>1. s \in Seq(TypedSteps) /\ Len(s) = Len(xy) + Len(l)
    BY <1>1, <1>2, CatFacts
  <2>2. \A i \in 1 .. Len(xy) : s[i] = xy[i]
    BY <1>1, <1>2, CatFacts, ZenonT(60)
  <2>3. \A i \in Len(xy) + 1 .. Len(xy) + Len(l) : s[i] = l[i - Len(xy)]
    BY <1>1, <1>2, CatFacts
  <2> QED BY <2>1, <2>2, <2>3
<1> HIDE DEF s
<1>4. Len(s) = 3 /\ 1 \in 1 .. Len(xy) /\ 2 \in 1 .. Len(xy)
      /\ 3 \in Len(xy) + 1 .. Len(xy) + Len(l) /\ 3 - Len(xy) = 1
  BY <1>1, <1>2, <1>3
<1>5. s[1] = x /\ s[2] = y /\ s[3] = z
  BY <1>1, <1>2, <1>3, <1>4
<1> QED BY <1>3, <1>4, <1>5 DEF Three, s, xy, l

\* The logged transition after the last wave, the reload and the reviewer's backfill.
LEMMA CompleteReady ==
    ASSUME SerialInv, NEW n \in Names, cache = rows, StatusOf(n) \in Place
    PROVE  Ready(<< Step("transition", n, "implement_finished", "soft") >> \o Reload(n)
                    \o << Step("backfill", n, "", "soft") >>, None)
<1> DEFINE s == << Step("transition", n, "implement_finished", "soft") >> \o Reload(n)
                    \o << Step("backfill", n, "", "soft") >>
           a == StatusOf(n)
<1> DEFINE x == Step("transition", n, "implement_finished", "soft")
           y == Step("reload", n, "", "must")
           z == Step("backfill", n, "", "soft")
<1>1. x \in TypedSteps /\ y \in TypedSteps /\ z \in TypedSteps
  <2>1. "implement_finished" \in Event /\ "soft" \in Mode /\ "must" \in Mode
    BY DEF Event, Mode
  <2>2. \A do \in {"backfill", "reload"}, mode \in Mode :
           Step(do, n, "", mode) \in TypedSteps
    BY StepTyped DEF Do, Arg, ArgOK, Step, Text
  <2>3. x \in TypedSteps
    BY <2>1, StepTyped DEF Do, Arg, ArgOK, Step
  <2> QED BY <2>1, <2>2, <2>3
<1>2. /\ x.do = "transition" /\ x.name = n /\ x.mode = "soft"
      /\ x.arg = "implement_finished"
      /\ y.do = "reload" /\ y.name = n /\ y.mode = "must"
      /\ z.do = "backfill" /\ z.name = n /\ z.mode = "soft"
  BY DEF Step
<1>3. s = Three(x, y, z)
  BY DEF Reload, Three
<1> HIDE DEF x, y, z, s
<1>4. /\ s \in Seq(TypedSteps) /\ Len(s) = 3 /\ s[1] = x /\ s[2] = y /\ s[3] = z
  BY <1>1, <1>3, ThreeInARow
<1>5. /\ s[1].do = "transition" /\ s[1].name = n /\ s[1].mode = "soft"
      /\ s[1].arg = "implement_finished"
      /\ s[2].do = "reload" /\ s[2].name = n /\ s[2].mode = "must"
      /\ s[3].do = "backfill" /\ s[3].name = n /\ s[3].mode = "soft"
  BY <1>2, <1>4
<1>6. /\ \A i \in 1 .. Len(s) : i \in {1, 2, 3}
      /\ 1 \in 1 .. Len(s) /\ 2 \in 1 + 1 .. Len(s)
      /\ \A j \in 1 + 1 .. Len(s) : j \in {2, 3}
      /\ \A j \in 1 .. 1 - 1 : FALSE
      /\ 3 - 1 = 2 /\ Len(s) + 1 = 4
  BY <1>4
<1>7. ShapeOK(s)
  <2>1. ASSUME NEW i \in 1 .. Len(s)
        PROVE  /\ s[i].name = s[1].name
               /\ s[i].do \in {"transition", "reload", "backfill"}
               /\ s[i].do = "transition" => i = 1
               /\ s[i].do = "backfill" => i = 3
               /\ s[i].mode # "always"
    BY <1>5, <1>6
  <2>2. \E j \in 1 + 1 .. Len(s) : s[j].do \in Reloads
    BY <1>5, <1>6 DEF Reloads
  <2>3. \A j \in 1 + 1 .. Len(s) : s[j].do \in {"reload", "backfill", "spawn"}
    BY <1>5, <1>6
  <2>4. s[3 - 1].do \in Reloads
    BY <1>5, <1>6 DEF Reloads
  <2> QED BY <1>4, <2>1, <2>2, <2>3, <2>4 DEF ShapeOK
<1>8. CacheOK(s)
  BY <1>5 DEF CacheOK
<1>9. Doomed(s) \/ Destined(s, None)
  <2>1. CASE ~Allowed(a, "implement_finished")
    BY <2>1, <1>5, <1>6 DEF Doomed
  <2>2. CASE Allowed(a, "implement_finished")
    <3> DEFINE b == ApplyTransition(a, "implement_finished")
               f == [i \in 1 .. 4 |-> IF i = 1 THEN a ELSE b]
    <3>1. b \in Place /\ b # "none"
      BY <2>2, AllowedTarget DEF Place, Status
    <3>2. f \in [1 .. 4 -> Place] /\ f[1] = a /\ f[2] = b /\ f[3] = b /\ f[4] = b
      BY <3>1
    <3> HIDE DEF f
    <3>3. Follows(s[1], f[1], f[2])
      BY <2>2, <3>2, <1>5 DEF Follows
    <3>4. Follows(s[2], f[2], f[3]) /\ Follows(s[3], f[3], f[4])
      BY <3>2, <1>5, StayFollows
    <3>5. \A i \in 1 .. Len(s) : Follows(s[i], f[i], f[i + 1])
      <4> TAKE i \in 1 .. Len(s)
      <4>1. (i = 1 /\ i + 1 = 2) \/ (i = 2 /\ i + 1 = 3) \/ (i = 3 /\ i + 1 = 4)
        BY <1>6
      <4> QED BY <4>1, <3>3, <3>4
    <3>6. f \in [1 .. Len(s) + 1 -> Place]
      BY <3>2, <1>6
    <3>7. f[1] = StatusOf(s[1].name)
      BY <3>2, <1>5
    <3> QED BY <3>5, <3>6, <3>7 DEF Destined, PathOf
  <2> QED BY <2>1, <2>2
<1>10. s # << >>
  <2>1. Len(s) \in Nat \ {0}
    BY <1>4
  <2> QED BY <2>1
<1>11. \A i \in 1 .. Len(s) : s[i].do = "transition" /\ s[i].mode = "soft" => None = None
  OBVIOUS
<1> QED BY <1>4, <1>7, <1>8, <1>9, <1>10, <1>11 DEF Ready, s, x, y, z

\* The stages and the context menu.
LEMMA StageReady ==
    ASSUME SerialInv, Undisturbed, NEW n \in Names,
           \/ StagePlan(n) \/ StageSolo(n) \/ StageImplement(n) \/ StageReview(n)
           \/ StageFinished(n) \/ StageRefused(n) \/ MarkPlanDone(n) \/ RequestReview(n)
           \/ ResumeImplement(n) \/ ModifyPlan(n)
    PROVE  /\ dialog = None
           /\ \E s, g : Begin("tui", s, g) /\ Ready(s, g)
<1> DEFINE solo == Reload(n) \o Spawn(n)
           a == StatusOf(n)
<1>1. PICK s, g : dialog = None /\ Begin("tui", s, g)
  BY DEF StagePlan, StageSolo, StageImplement, StageReview, StageFinished, StageRefused,
         MarkPlanDone, RequestReview, ResumeImplement, ModifyPlan, UserBegins
<1>2. /\ cache = rows /\ a \in Place
      /\ cache[n] # NoPlan => /\ cache[n].status \in Status \cup LegacyStatus
                              /\ a = MapLegacyStatus(cache[n].status)
  BY <1>1, BeginsFresh, ClientNames
<1>3. /\ Reload(n) \in Seq(TypedSteps) /\ PostOK(n, Reload(n))
      /\ solo \in Seq(TypedSteps) /\ PostOK(n, solo)
      /\ Reload(n) \o << Step("backfill", n, "", "soft") >> \in Seq(TypedSteps)
      /\ PostOK(n, Reload(n) \o << Step("backfill", n, "", "soft") >>)
  BY Posts
<1>4. /\ "planning" \in Status /\ "implementing" \in Status /\ "reviewing" \in Status
      /\ "done" \in Status
  BY DEF Status
<1>5. \A w \in Seq(Event), b \in Status :
         Outcome(w, a, b) =>
            /\ Ready(Backfill(n) \o (Transitions(n, w) \o solo), Announce(n, b))
            /\ Ready(Backfill(n) \o (Transitions(n, w) \o Reload(n)), Announce(n, b))
            /\ Ready(Transitions(n, w) \o solo, Announce(n, b))
            /\ Ready(Transitions(n, w) \o Reload(n), Announce(n, b))
            /\ Ready(Transitions(n, w)
                        \o (Reload(n) \o << Step("backfill", n, "", "soft") >>),
                     Announce(n, b))
  BY <1>2, <1>3, PlainReady, BackfilledReady
<1>6. \A w \in Seq(Event) :
         /\ Backfill(n) \o Transitions(n, w) \o Reload(n) \o Spawn(n)
               = Backfill(n) \o (Transitions(n, w) \o solo)
         /\ Backfill(n) \o Transitions(n, w) \o Reload(n)
               = Backfill(n) \o (Transitions(n, w) \o Reload(n))
         /\ Transitions(n, w) \o Reload(n) \o Spawn(n) = Transitions(n, w) \o solo
         /\ Transitions(n, w) \o Reload(n) \o << Step("backfill", n, "", "soft") >>
               = Transitions(n, w) \o (Reload(n) \o << Step("backfill", n, "", "soft") >>)
  <2> TAKE w \in Seq(Event)
  <2> DEFINE t == Transitions(n, w)
             b == Backfill(n)
             r == Reload(n)
             sp == Spawn(n)
             so == << Step("backfill", n, "", "soft") >>
  <2>1. /\ t \in Seq(TypedSteps) /\ b \in Seq(TypedSteps) /\ r \in Seq(TypedSteps)
        /\ sp \in Seq(TypedSteps) /\ so \in Seq(TypedSteps)
    BY TransitionsTyped, AppendedTyped
  <2> HIDE DEF t, b, r, sp, so
  <2>2. t \o r \in Seq(TypedSteps) /\ b \o t \in Seq(TypedSteps)
        /\ r \o sp \in Seq(TypedSteps)
    BY <2>1, ShortSeqs
  <2> DEFINE bt == b \o t
             rs == r \o sp
  <2>a. bt \in Seq(TypedSteps) /\ rs \in Seq(TypedSteps)
    BY <2>2
  <2>b. \A y \in Seq(TypedSteps) : bt \o y = b \o (t \o y)
    BY <2>1, CatAssoc
  <2>c. \A y \in Seq(TypedSteps) : (y \o r) \o sp = y \o rs
    BY <2>1, CatAssoc, SMTT(30)
  <2> HIDE DEF bt, rs
  <2>3. (bt \o r) \o sp = bt \o rs
    BY <2>a, <2>c
  <2>4. bt \o rs = b \o (t \o rs)
    BY <2>a, <2>b
  <2>5. bt \o r = b \o (t \o r) /\ (t \o r) \o sp = t \o rs
    BY <2>1, <2>b, <2>c
  <2>6. (t \o r) \o so = t \o (r \o so)
    BY <2>1, CatAssoc, SMTT(30)
  <2>7. (bt \o r) \o sp = b \o (t \o rs)
    BY <2>3, <2>4
  <2> QED BY <2>5, <2>6, <2>7 DEF t, b, r, sp, so, bt, rs
<1>7. /\ <<"plan_start">> \in Seq(Event) /\ <<"review_approved">> \in Seq(Event)
      /\ <<"request_review">> \in Seq(Event) /\ <<"reimplement">> \in Seq(Event)
  BY OneEvent DEF Event
<1>8. /\ Outcome(<<"plan_start">>, a, "planning")
      /\ Outcome(<<"review_approved">>, a, "done")
      /\ Outcome(<<"request_review">>, a, "reviewing")
      /\ Outcome(<<"reimplement">>, a, "implementing")
  <2>1. \A edge \in TransitionTable :
           /\ edge[2] = "plan_start" => edge[3] = "planning"
           /\ edge[2] = "review_approved" => edge[3] = "done"
           /\ edge[2] = "request_review" => edge[3] = "reviewing"
           /\ edge[2] = "reimplement" => edge[3] = "implementing"
    BY DEF TransitionTable
  <2> QED BY <2>1, <1>2, EventOutcome
<1> DEFINE walk1 == SetImplementingWalk(cache[n].status)
           walk2 == RevertToPlanningWalk(cache[n].status)
           walk3 == SetReviewingWalk(cache[n].status)
           walk4 == MarkDoneWalk(cache[n].status, cache[n].status)
<1>9. /\ walk1 \in Seq(Event) /\ walk2 \in Seq(Event)
      /\ walk3 \in Seq(Event) /\ walk4 \in Seq(Event)
  BY WalksTyped
<1>10. cache[n] # NoPlan =>
          /\ Outcome(walk1, a, "implementing") /\ Outcome(walk2, a, "planning")
          /\ Outcome(walk3, a, "reviewing") /\ Outcome(walk4, a, "done")
  BY <1>2, SetImplementingOutcome, ToPlanningOutcome, SetReviewingOutcome, MarkDoneOutcome
<1> HIDE DEF walk1, walk2, walk3, walk4, solo, a
<1>11. CASE StagePlan(n)
  <2>1. Begin("tui", Backfill(n) \o Transitions(n, <<"plan_start">>) \o Reload(n) \o Spawn(n),
              Announce(n, "planning"))
    BY <1>11 DEF StagePlan, UserBegins
  <2> QED BY <2>1, <1>1, <1>4, <1>5, <1>6, <1>7, <1>8
<1>12. CASE StageSolo(n)
  <2>1. /\ Begin("tui", Backfill(n) \o Transitions(n, walk1) \o Reload(n) \o Spawn(n),
                 Announce(n, "implementing"))
        /\ cache[n] # NoPlan
    BY <1>12 DEF StageSolo, UserBegins, walk1
  <2> QED BY <2>1, <1>1, <1>4, <1>5, <1>6, <1>9, <1>10
<1>13. CASE StageImplement(n)
  <2>1. /\ \/ Begin("tui", Backfill(n) \o Transitions(n, walk2) \o Reload(n) \o Spawn(n),
                    Announce(n, "planning"))
           \/ Begin("tui", Backfill(n) \o Transitions(n, walk1) \o Reload(n),
                    Announce(n, "implementing"))
        /\ cache[n] # NoPlan
    BY <1>13 DEF StageImplement, UserBegins, walk1, walk2
  <2> QED BY <2>1, <1>1, <1>4, <1>5, <1>6, <1>9, <1>10
<1>14. CASE StageReview(n)
  <2>1. /\ Begin("tui", Backfill(n) \o Transitions(n, walk3) \o Reload(n),
                 Announce(n, "reviewing"))
        /\ cache[n] # NoPlan
    BY <1>14 DEF StageReview, UserBegins, walk3
  <2> QED BY <2>1, <1>1, <1>4, <1>5, <1>6, <1>9, <1>10
<1>15. CASE StageFinished(n)
  <2>1. Begin("tui", Backfill(n) \o Transitions(n, <<"review_approved">>) \o Reload(n),
              Announce(n, "done"))
    BY <1>15 DEF StageFinished, UserBegins
  <2> QED BY <2>1, <1>1, <1>4, <1>5, <1>6, <1>7, <1>8
<1>16. CASE StageRefused(n)
  <2>1. Begin("tui", Backfill(n), None)
    BY <1>16 DEF StageRefused, UserBegins
  <2>2. Ready(Backfill(n), None)
    BY <1>2, RefusedReady DEF a
  <2> QED BY <2>1, <2>2, <1>1
<1>17. CASE MarkPlanDone(n)
  <2>1. /\ Begin("tui", Transitions(n, walk4) \o Reload(n), Announce(n, "done"))
        /\ cache[n] # NoPlan
    BY <1>17 DEF MarkPlanDone, UserBegins, walk4
  <2> QED BY <2>1, <1>1, <1>4, <1>5, <1>9, <1>10
<1>18. CASE RequestReview(n)
  <2>1. Begin("tui", Transitions(n, <<"request_review">>) \o Reload(n)
                        \o << Step("backfill", n, "", "soft") >>,
              Announce(n, "reviewing"))
    BY <1>18 DEF RequestReview, UserBegins
  <2> QED BY <2>1, <1>1, <1>4, <1>5, <1>6, <1>7, <1>8
<1>19. CASE ResumeImplement(n)
  <2>1. Begin("tui", Transitions(n, <<"reimplement">>) \o Reload(n),
              Announce(n, "implementing"))
    BY <1>19 DEF ResumeImplement, UserBegins
  <2> QED BY <2>1, <1>1, <1>4, <1>5, <1>7, <1>8
<1>20. CASE ModifyPlan(n)
  <2>1. Begin("tui", Transitions(n, <<"plan_start">>) \o Reload(n) \o Spawn(n),
              Announce(n, "planning"))
    BY <1>20 DEF ModifyPlan, UserBegins
  <2> QED BY <2>1, <1>1, <1>4, <1>5, <1>6, <1>7, <1>8
<1> QED BY <1>11, <1>12, <1>13, <1>14, <1>15, <1>16, <1>17, <1>18, <1>19, <1>20

\* The operation under way, as it was when it began.
LEMMA OpReady ==
    ASSUME SerialInv, NEW c \in Clients, ~Idle(c)
    PROVE  /\ Ready(todo[c], goal[c]) /\ todo[c] \in Seq(TypedSteps)
           /\ \A d \in Clients \ {c} : todo[d] = << >>
           /\ view = NoView /\ ~Quiet
<1>1. todo[c] \in Seq(TypedSteps) /\ todo[c] # << >>
  BY DEF SerialInv, TypeInv, ClientTypeOK, Idle
<1>2. ~Quiet
  BY DEF Quiet
<1>3. view = NoView /\ \A d \in Clients \ {c} : todo[d] = << >>
  BY <1>2 DEF SerialInv, Alone, Idle
<1>4. OpOK(c)
  BY DEF SerialInv
<1> QED BY <1>1, <1>2, <1>3, <1>4 DEF OpOK, Ready

\* A step of the operation under way.
LEMMA StepOK ==
    ASSUME SerialInv, NEW c \in Clients, ~Idle(c), NEW s, NEW g,
           todo' = [todo EXCEPT ![c] = s], goal'[c] = g,
           s # << >> => Ready(s, g)', s = << >> => cache' = rows',
           TypeInv', DialogOK', view' = view
    PROVE  SerialInv'
<1>1. todo'[c] = s /\ \A d \in Clients \ {c} : todo'[d] = << >>
  <2>1. DOMAIN todo = Clients
    BY DEF SerialInv, TypeInv, ClientTypeOK
  <2> QED BY <2>1, OpReady
<1>2. view' = NoView
  BY OpReady
<1>3. Alone'
  <2>1. \A d, e \in Clients : todo'[d] = << >> \/ todo'[e] = << >> \/ d = e
    BY <1>1
  <2>2. Quiet' => cache' = rows'
    <3>1. Quiet' => todo'[c] = << >>
      BY DEF Quiet, Idle
    <3> QED BY <3>1, <1>1
  <2> QED BY <2>1, <2>2, <1>2 DEF Alone, Idle
<1>4. ASSUME NEW d \in Clients PROVE OpOK(d)'
  <2>1. CASE d = c
    <3>1. OpOK(c)'
      BY <1>1 DEF OpOK, Ready, Idle
    <3> QED BY <3>1, <2>1
  <2>2. CASE d # c
    BY <2>2, <1>1 DEF OpOK, Idle
  <2> QED BY <2>1, <2>2
<1> QED BY <1>3, <1>4 DEF SerialInv

\* What leaves the operations and the rows alone.
LEMMA PassiveOK ==
    ASSUME SerialInv, Undisturbed, TypeInv',
           \/ DismissDialog \/ TickLoad \/ TickApply
           \/ \E n \in Names : AgentWritesPlan(n)
           \/ \E n \in Names, op \in {"cancel", "merge", "start_over"} : OpenDialog(op, n)
    PROVE  SerialInv'
<1>1. UNCHANGED <<rows, todo, goal>>
  BY DEF DismissDialog, TickLoad, TickApply, AgentWritesPlan, OpenDialog
<1>2. cache' = cache
  <2>1. CASE TickApply
    BY <2>1 DEF TickApply, SerialInv, Alone
  <2>2. CASE ~TickApply
    BY <2>2 DEF DismissDialog, TickLoad, TickApply, AgentWritesPlan, OpenDialog
  <2> QED BY <2>1, <2>2
<1>3. Alone'
  <2>1. Quiet' <=> Quiet
    BY <1>1 DEF Quiet, Idle
  <2>2. view' # NoView => Quiet /\ view' = rows
    BY DEF DismissDialog, TickLoad, TickApply, AgentWritesPlan, OpenDialog, Undisturbed,
           Load, List, SerialInv, Alone
  <2>3. \A c, d \in Clients : todo[c] = << >> \/ todo[d] = << >> \/ c = d
    BY DEF SerialInv, Alone, Idle
  <2>4. Quiet => cache = rows
    BY DEF SerialInv, Alone
  <2> QED BY <1>1, <1>2, <2>1, <2>2, <2>3, <2>4 DEF Alone, Idle
<1>4. ASSUME NEW c \in Clients PROVE OpOK(c)'
  <2>1. SUFFICES ASSUME todo[c] # << >> PROVE OpOK(c)'
    BY <1>1 DEF OpOK, Idle
  <2>2. PICK s, g : s = todo[c] /\ g = goal[c]
    OBVIOUS
  <2>3. Ready(s, g)
    BY <2>1, <2>2, OpReady DEF Idle
  <2>4. Ready(s, g)'
    BY <2>3, <1>1, <1>2, ReadyStays
  <2>5. todo'[c] = s /\ goal'[c] = g
    BY <1>1, <2>2
  <2> QED BY <2>4, <2>5 DEF OpOK, Ready
<1>5. DialogOK'
  <2>1. CASE \E n \in Names, op \in {"cancel", "merge", "start_over"} : OpenDialog(op, n)
    <3>1. PICK n \in Names, op \in {"cancel", "merge", "start_over"} : OpenDialog(op, n)
      BY <2>1
    <3>2. /\ dialog' = [op |-> op, name |-> n, meta |-> cache[n]]
          /\ cache[n] # NoPlan /\ Quiet
      BY <3>1 DEF OpenDialog, Undisturbed
    <3>3. cache = rows
      BY <3>2 DEF SerialInv, Alone
    <3>4. \A c \in Clients : todo'[c] = << >>
      BY <3>2, <1>1 DEF Quiet, Idle
    <3>5. dialog'.name = n /\ dialog'.meta = cache[n]
      BY <3>2
    <3>6. MergedDone' => rows'[n] # NoPlan /\ rows'[n].status = "done"
      BY <3>2, <3>3, <3>5, <1>1 DEF MergedDone
    <3> QED BY <3>4, <3>5, <3>6 DEF DialogOK, Idle
  <2>2. CASE dialog' = None
    BY <2>2 DEF DialogOK, MergedDone
  <2>3. CASE dialog' = dialog
    BY <2>3, <1>1 DEF DialogOK, MergedDone, Idle, SerialInv
  <2> QED BY <2>1, <2>2, <2>3 DEF DismissDialog, TickLoad, TickApply, AgentWritesPlan
<1> QED BY <1>3, <1>4, <1>5 DEF SerialInv

\* A dialog stays through the beginning of an operation that leaves its plan done.
LEMMA BeginDialog ==
    ASSUME SerialInv, Undisturbed, NEW c \in Clients, NEW s, NEW g, Begin(c, s, g),
           dialog' = dialog,
           dialog # None /\ rows[dialog.name] # NoPlan /\ s[1].name = dialog.name =>
              /\ \A i \in 1 .. Len(s) : s[i].do = "transition" => s[i].arg \in SentinelEvent
              /\ s[1].do \notin {"update", "rename"}
    PROVE  DialogOK'
<1>1. /\ \A d \in Clients : todo[d] = << >>
      /\ todo' = [todo EXCEPT ![c] = s] /\ rows' = rows
      /\ DOMAIN todo = Clients
  BY BeginsFresh DEF Begin, Quiet, Idle, SerialInv, TypeInv, ClientTypeOK
<1>2. todo'[c] = s /\ \A d \in Clients \ {c} : todo'[d] = << >>
  BY <1>1
<1>3. MergedDone => rows[dialog.name] # NoPlan /\ rows[dialog.name].status = "done"
  BY DEF SerialInv, DialogOK
<1>4. \A d \in Clients : todo'[d] # << >> => d = c
  BY <1>2
<1>5. MergedDone' <=> MergedDone
  BY DEF MergedDone
<1>6. MergedDone => dialog # None
  BY DEF MergedDone
<1>7. MergedDone /\ s[1].name = dialog.name =>
         /\ \A i \in 1 .. Len(s) : s[i].do = "transition" => s[i].arg \in SentinelEvent
         /\ s[1].do \notin {"update", "rename"}
  BY <1>3, <1>6
<1> QED BY <1>1, <1>2, <1>3, <1>4, <1>5, <1>7 DEF DialogOK, Idle

\* The stages and the context menu begin well.
LEMMA StageOK ==
    ASSUME SerialInv, Undisturbed, TypeInv', NEW n \in Names,
           \/ StagePlan(n) \/ StageSolo(n) \/ StageImplement(n) \/ StageReview(n)
           \/ StageFinished(n) \/ StageRefused(n) \/ MarkPlanDone(n) \/ RequestReview(n)
           \/ ResumeImplement(n) \/ ModifyPlan(n)
    PROVE  SerialInv'
<1>1. UNCHANGED <<rows, topics, content, cache, file, view, dialog>>
  BY StageTyped DEF SerialInv
<1>2. PICK s, g : dialog = None /\ Begin("tui", s, g) /\ Ready(s, g)
  BY StageReady
<1>3. Ready(s, g)'
  BY <1>1, <1>2, ReadyStays
<1>4. DialogOK'
  BY <1>1, <1>2 DEF DialogOK, MergedDone
<1>5. StateTypeOK' /\ ClientTypeOK'
  BY DEF TypeInv
<1> QED BY <1>1, <1>2, <1>3, <1>4, <1>5, BeginOK, ClientNames

\* The end of a task's last wave, and the end of a coder.
LEMMA CompleteOK ==
    ASSUME SerialInv, Undisturbed, TypeInv', NEW n \in Names, ImplementationComplete(n)
    PROVE  SerialInv'
<1> DEFINE x == << Step("transition", n, "implement_finished", "soft") >>
           y == Step("reload", n, "", "must")
           z == Step("backfill", n, "", "soft")
<1>1. PICK s, g : /\ s = << Step("transition", n, "implement_finished", "soft") >>
                            \o Reload(n) \o << Step("backfill", n, "", "soft") >>
                  /\ g = None /\ Begin("tui", s, g)
  BY DEF ImplementationComplete
<1>2. UNCHANGED <<rows, cache, view, dialog>>
  BY DEF ImplementationComplete, Begin
<1>3. cache = rows /\ StatusOf(n) \in Place
  BY <1>1, BeginsFresh, ClientNames
<1>4. Ready(s, g)
  BY <1>1, <1>3, CompleteReady
<1>5. Ready(s, g)'
  BY <1>2, <1>4, ReadyStays
<1>6. DialogOK'
  <2>1. /\ \A i \in 1 .. Len(s) : s[i].do = "transition" => s[i].arg \in SentinelEvent
        /\ s[1].do \notin {"update", "rename"}
    <3> DEFINE u == Step("transition", n, "implement_finished", "soft")
    <3>1. /\ u.do = "transition" /\ u.arg = "implement_finished"
          /\ y.do = "reload" /\ z.do = "backfill"
      BY DEF Step
    <3>2. u \in TypedSteps /\ y \in TypedSteps /\ z \in TypedSteps
      <4>1. "implement_finished" \in Event /\ "soft" \in Mode /\ "must" \in Mode
        BY DEF Event, Mode
      <4>2. \A do \in {"backfill", "reload"}, mode \in Mode :
               Step(do, n, "", mode) \in TypedSteps
        BY StepTyped DEF Do, Arg, ArgOK, Step, Text
      <4>3. u \in TypedSteps
        BY <4>1, StepTyped DEF Do, Arg, ArgOK, Step
      <4> QED BY <4>1, <4>2, <4>3
    <3>3. s = Three(u, y, z)
      BY <1>1 DEF Three, Reload
    <3> HIDE DEF u, y, z
    <3>4. Len(s) = 3 /\ s[1] = u /\ s[2] = y /\ s[3] = z
      BY <3>2, <3>3, ThreeInARow
    <3>5. \A i \in 1 .. Len(s) : i \in {1, 2, 3}
      BY <3>4
    <3> QED BY <3>1, <3>4, <3>5 DEF SentinelEvent
  <2> QED BY <2>1, <1>1, <1>2, BeginDialog, ClientNames
<1>7. StateTypeOK' /\ ClientTypeOK'
  BY DEF TypeInv
<1> QED BY <1>1, <1>2, <1>5, <1>6, <1>7, BeginOK, ClientNames

\* Sentinel files.
LEMMA SignalOK ==
    ASSUME SerialInv, Undisturbed, TypeInv', NEW n \in Names, NEW event \in SentinelEvent,
           Signal(n, event)
    PROVE  SerialInv'
<1> DEFINE w == <<event>>
           b == SentinelTarget(event)
           text == IF event = "planner_finished" /\ file[n] # NoFile
                   THEN << Step("content", n, file[n], "soft") >> ELSE << >>
           last == << Step("reload", n, "", "always") >>
           first == Transitions(n, w)
<1>1. /\ Begin("tui", first \o text \o last, Announce(n, b))
      /\ view' = NoView /\ UNCHANGED <<cache, file, dialog>>
  BY DEF Signal
<1>2. UNCHANGED <<rows, cache>>
  BY <1>1 DEF Begin
<1>3. cache = rows /\ StatusOf(n) \in Place
  BY <1>1, BeginsFresh, ClientNames
<1>4. w \in Seq(Event) /\ Len(w) = 1 /\ w[1] = event /\ b \in Status
  <2>1. event \in Event
    BY DEF SentinelEvent, Event
  <2>2. b \in Status
    BY DEF SentinelTarget, SentinelEvent, Status
  <2> QED BY <2>1, <2>2
<1>5. Outcome(w, StatusOf(n), b)
  <2>1. \A edge \in TransitionTable : edge[2] = event => edge[3] = b
    BY DEF TransitionTable, SentinelEvent, SentinelTarget
  <2> QED BY <2>1, <1>3, EventOutcome
<1>6. /\ text \o last \in Seq(TypedSteps) /\ PostOK(n, text \o last)
      /\ text \in Seq(TypedSteps) /\ last \in Seq(TypedSteps)
  <2>1. last \in Seq(TypedSteps) /\ PostOK(n, last)
    BY Posts
  <2>2. CASE text = << >>
    <3> HIDE DEF last, text
    <3>1. << >> \o last = last
      BY <2>1
    <3>2. << >> \in Seq(TypedSteps)
      BY ShortSeqs
    <3> QED BY <2>1, <2>2, <3>1, <3>2
  <2>3. CASE text # << >>
    <3>1. file[n] \in Text /\ text = << Step("content", n, file[n], "soft") >>
      BY <2>3 DEF SerialInv, TypeInv, StateTypeOK
    <3>2. "soft" \in Mode
      BY DEF Mode
    <3>3. text \in Seq(TypedSteps)
      BY <3>1, <3>2, WritesTyped
    <3>4. /\ << Step("content", n, file[n], "soft") >> \o last \in Seq(TypedSteps)
          /\ PostOK(n, << Step("content", n, file[n], "soft") >> \o last)
      BY <3>1, Posts
    <3> HIDE DEF text
    <3> QED BY <2>1, <3>1, <3>3, <3>4
  <2> QED BY <2>2, <2>3
<1>7. first \in Seq(TypedSteps)
  BY <1>4, TransitionsTyped
<1> HIDE DEF b, text, last
<1>8. first \o text \o last = first \o (text \o last)
  BY <1>6, <1>7, CatAssoc
<1> DEFINE post == text \o last
<1>9. Ready(first \o post, Announce(n, b))
  BY <1>3, <1>4, <1>5, <1>6, PlainReady
<1>10. WalkOp(n, 0, w, post, first \o post)
  BY <1>4, <1>6, PlainWalkOp
<1>11. PICK s, g : /\ s = first \o post /\ g = Announce(n, b)
                   /\ Begin("tui", s, g) /\ Ready(s, g) /\ WalkOp(n, 0, w, post, s)
  BY <1>1, <1>8, <1>9, <1>10
<1>12. Ready(s, g)'
  BY <1>2, <1>11, ReadyStays
<1>13. /\ \A i \in 1 .. Len(s) : s[i].do = "transition" => s[i].arg \in SentinelEvent
       /\ s[1].do \notin {"update", "rename"}
  <2> DEFINE q == Len(post)
  <2>1. q \in Nat /\ \A i \in 1 .. q : post[i].do # "transition"
    BY <1>6 DEF PostOK
  <2> HIDE DEF q, post, w
  <2>2. /\ Len(s) = 0 + 1 + q
        /\ \A i \in 0 + 1 .. 0 + 1 : s[i] = Step("transition", n, w[i - 0], "must")
        /\ \A i \in 0 + 1 + 1 .. Len(s) : s[i] = post[i - 0 - 1]
    BY <1>4, <1>11 DEF WalkOp, q
  <2>3. s[1] = Step("transition", n, event, "must")
    BY <1>4, <2>2
  <2>4. s[1].do = "transition" /\ s[1].arg = event
    BY <2>3 DEF Step
  <2>5. \A i \in 1 .. Len(s) : i = 1 \/ s[i].do # "transition"
    <3> TAKE i \in 1 .. Len(s)
    <3>1. CASE i # 1
      <4>1. i \in 0 + 1 + 1 .. Len(s) /\ i - 0 - 1 \in 1 .. q
        BY <2>1, <2>2, <3>1
      <4> QED BY <4>1, <2>1, <2>2
    <3> QED BY <3>1
  <2> QED BY <2>4, <2>5
<1>14. DialogOK'
  BY <1>1, <1>11, <1>13, BeginDialog, ClientNames
<1>15. StateTypeOK' /\ ClientTypeOK'
  BY DEF TypeInv
<1> QED BY <1>1, <1>11, <1>12, <1>14, <1>15, BeginOK, ClientNames

\* The confirmed action of a dialog.
LEMMA ConfirmOK ==
    ASSUME SerialInv, Undisturbed, TypeInv', NEW c \in Goroutines, ConfirmDialog(c)
    PROVE  SerialInv'
<1> DEFINE n == dialog.name
           a == StatusOf(n)
           cached == cache[n].status
           refresh == << Step("refresh", n, "", "must") >>
           after == Reload(n) \o refresh
           walk1 == <<"cancel">>
           walk2 == MarkDoneWalk(dialog.meta.status, cached)
           walk3 == ForceToPlanningWalk(cached)
<1>1. /\ dialog # None /\ n \in Names /\ c \in Clients
      /\ dialog' = None /\ UNCHANGED <<cache, view>>
  BY ClientNames DEF ConfirmDialog, SerialInv, TypeInv, StateTypeOK
<1>2. \/ Begin(c, Transitions(n, walk1) \o refresh, Announce(n, "cancelled"))
      \/ /\ dialog.op = "merge"
         /\ cache[n] # NoPlan \/ dialog.meta.status \in {"done", "reviewing"}
         /\ Begin(c, Transitions(n, walk2) \o after, Announce(n, "done"))
      \/ /\ cache[n] # NoPlan
         /\ Begin(c, Transitions(n, walk3) \o after, Announce(n, "planning"))
  BY DEF ConfirmDialog
<1>3. \E s, g : Begin(c, s, g)
  <2>1. \A s, g : Begin(c, s, g) => \E u, v : Begin(c, u, v)
    OBVIOUS
  <2> QED BY <1>2, <2>1, Zenon
<1>4. /\ cache = rows /\ a \in Place
      /\ cache[n] # NoPlan => cached \in Status \cup LegacyStatus /\ a = MapLegacyStatus(cached)
  BY <1>1, <1>3, BeginsFresh
<1>5. /\ walk1 \in Seq(Event) /\ walk2 \in Seq(Event) /\ walk3 \in Seq(Event)
  BY WalksTyped, WalkEvents
<1>6. /\ refresh \in Seq(TypedSteps) /\ PostOK(n, refresh)
      /\ after \in Seq(TypedSteps) /\ PostOK(n, after)
  BY <1>1, Posts
<1>7. Outcome(walk1, a, "cancelled")
  <2>1. \A edge \in TransitionTable : edge[2] = "cancel" => edge[3] = "cancelled"
    BY DEF TransitionTable
  <2> QED BY <2>1, <1>4, EventOutcome
<1>8. ASSUME dialog.op = "merge",
             cache[n] # NoPlan \/ dialog.meta.status \in {"done", "reviewing"}
      PROVE  Outcome(walk2, a, "done")
  <2>1. dialog.meta.status = "done" => cache[n] # NoPlan /\ cached = "done"
    BY <1>1, <1>4, <1>8 DEF SerialInv, DialogOK, MergedDone
  <2>2. CASE cache[n] # NoPlan
    BY <2>1, <2>2, <1>4, MarkDoneOutcome
  <2>3. CASE cache[n] = NoPlan
    <3>1. walk2 = <<"review_approved">>
      BY <2>1, <2>3, <1>8 DEF MarkDoneWalk
    <3>2. \A edge \in TransitionTable : edge[2] = "review_approved" => edge[3] = "done"
      BY DEF TransitionTable
    <3> QED BY <3>1, <3>2, <1>4, EventOutcome
  <2> QED BY <2>2, <2>3
<1>9. cache[n] # NoPlan => Outcome(walk3, a, "planning")
  BY <1>4, ToPlanningOutcome
<1>10. "cancelled" \in Status /\ "done" \in Status /\ "planning" \in Status
  BY DEF Status
<1> HIDE DEF walk1, walk2, walk3, after, refresh, a
<1>11. \A w \in Seq(Event), b \in Status :
          Outcome(w, a, b) => /\ Ready(Transitions(n, w) \o refresh, Announce(n, b))
                              /\ Ready(Transitions(n, w) \o after, Announce(n, b))
  BY <1>1, <1>4, <1>6, PlainReady DEF a
<1>12. \E s, g : Begin(c, s, g) /\ Ready(s, g)
  <2>1. \A s, g : Begin(c, s, g) /\ Ready(s, g) => \E u, v : Begin(c, u, v) /\ Ready(u, v)
    OBVIOUS
  <2>2. CASE Begin(c, Transitions(n, walk1) \o refresh, Announce(n, "cancelled"))
    BY <2>1, <2>2, <1>5, <1>7, <1>10, <1>11
  <2>3. CASE /\ dialog.op = "merge"
             /\ cache[n] # NoPlan \/ dialog.meta.status \in {"done", "reviewing"}
             /\ Begin(c, Transitions(n, walk2) \o after, Announce(n, "done"))
    BY <2>1, <2>3, <1>5, <1>8, <1>10, <1>11
  <2>4. CASE /\ cache[n] # NoPlan
             /\ Begin(c, Transitions(n, walk3) \o after, Announce(n, "planning"))
    BY <2>1, <2>4, <1>5, <1>9, <1>10, <1>11
  <2> QED BY <1>2, <2>2, <2>3, <2>4
<1>13. PICK s, g : Begin(c, s, g) /\ Ready(s, g)
  BY <1>12
<1>14. rows' = rows
  BY <1>13 DEF Begin
<1>15. Ready(s, g)'
  BY <1>1, <1>13, <1>14, ReadyStays
<1>16. DialogOK'
  BY <1>1 DEF DialogOK, MergedDone
<1>17. StateTypeOK' /\ ClientTypeOK'
  BY DEF TypeInv
<1> QED BY <1>1, <1>13, <1>15, <1>16, <1>17, BeginOK

\* Steps the first of which changes the status.
LEMMA FirstChanges ==
    ASSUME NEW s, Len(s) \in Nat \ {0}, NEW a \in Place, NEW b \in Place,
           StatusOf(s[1].name) = a, Follows(s[1], a, b),
           \A i \in 2 .. Len(s) :
              s[i].do \notin {"transition", "update", "create", "content", "rename"},
           NEW g, g # None => g.name = s[1].name /\ g.status = b
    PROVE  Destined(s, g)
<1> DEFINE m == Len(s)
           f == [i \in 1 .. m + 1 |-> IF i = 1 THEN a ELSE b]
<1>1. /\ f \in [1 .. m + 1 -> Place]
      /\ f[1] = a /\ \A i \in 2 .. m + 1 : f[i] = b
      /\ m + 1 \in 2 .. m + 1
      /\ \A i \in 1 .. m : i + 1 \in 2 .. m + 1 /\ (i = 1 \/ i \in 2 .. m)
      /\ \A i \in 2 .. m : i \in 2 .. m + 1
  OBVIOUS
<1> HIDE DEF f
<1>2. \A i \in 1 .. m : Follows(s[i], f[i], f[i + 1])
  <2> TAKE i \in 1 .. m
  <2>1. CASE i = 1
    BY <2>1, <1>1
  <2>2. CASE i \in 2 .. m
    <3>1. f[i] = b /\ f[i + 1] = b
      BY <2>2, <1>1
    <3> QED BY <2>2, <3>1, StayFollows
  <2> QED BY <2>1, <2>2, <1>1
<1>3. PathOf(s, f)
  BY <1>1, <1>2 DEF PathOf
<1>4. g # None => g.name = s[1].name /\ g.status = f[Len(s) + 1]
  BY <1>1
<1> QED BY <1>3, <1>4 DEF Destined

\* The pickers and the rename run ahead of the store.
LEMMA AheadOK ==
    ASSUME SerialInv, Undisturbed, TypeInv', NEW s \in Seq(TypedSteps), s # << >>, NEW g,
           Begin("tui", s, g), ShapeOK(s), Ahead(s[1])', Destined(s, g),
           \A i \in 1 .. Len(s) :
              s[i].do = "transition" /\ s[i].mode = "soft" => g = None,
           UNCHANGED <<view, dialog>>,
           dialog # None /\ rows[dialog.name] # NoPlan => s[1].name # dialog.name
    PROVE  SerialInv'
<1>1. rows' = rows
  BY DEF Begin
<1>2. Destined(s, g)'
  <2>1. \A n : StatusOf(n)' = StatusOf(n)
    BY <1>1 DEF StatusOf
  <2>2. \A f : PathOf(s, f)' <=> PathOf(s, f)
    BY <2>1 DEF PathOf
  <2> QED BY <2>2 DEF Destined
<1>3. CacheOK(s)'
  BY DEF CacheOK
<1>4. Ready(s, g)'
  BY <1>2, <1>3 DEF Ready
<1>5. DialogOK'
  BY BeginDialog, ClientNames
<1>6. StateTypeOK' /\ ClientTypeOK'
  BY DEF TypeInv
<1> QED BY <1>4, <1>5, <1>6, BeginOK, ClientNames

\* The steps of a picker: the row, its topic, the reload.
PickOK(n, x, s) ==
    /\ s \in Seq(TypedSteps) /\ Len(s) \in Nat \ {0} /\ s[1] = x
    /\ \A i \in 1 .. Len(s) : s[i].name = n /\ s[i].mode = "must"
    /\ s[1].do \in {"update", "create"}
    /\ \A i \in 2 .. Len(s) : s[i].do \in {"topic", "reload"}

\* The steps of a picker are ordered as they should be.
LEMMA PickShape ==
    ASSUME NEW n, NEW x, NEW s, PickOK(n, x, s)
    PROVE  /\ ShapeOK(s) /\ s # << >> /\ s[1].name = n
           /\ \A i \in 1 .. Len(s) : s[i].do # "transition"
           /\ \A i \in 2 .. Len(s) :
                 s[i].do \notin {"transition", "update", "create", "content", "rename"}
<1>1. \A i \in 1 .. Len(s) : i = 1 \/ i \in 2 .. Len(s)
  BY DEF PickOK
<1>2. 1 \in 1 .. Len(s) /\ s[1].name = n
  BY DEF PickOK
<1>3. ASSUME NEW i \in 1 .. Len(s)
      PROVE  /\ s[i].name = s[1].name /\ s[i].mode = "must"
             /\ s[i].do \in {"update", "create", "topic", "reload"}
             /\ s[i].do \in {"update", "create"} => i = 1
  BY <1>1, <1>2 DEF PickOK
<1>4. ShapeOK(s)
  BY <1>3 DEF ShapeOK
<1>5. s # << >>
  BY DEF PickOK
<1>6. \A i \in 1 .. Len(s) : s[i].do # "transition"
  BY <1>3
<1>7. \A i \in 2 .. Len(s) : s[i].do \notin {"transition", "update", "create", "content", "rename"}
  BY DEF PickOK
<1> QED BY <1>2, <1>4, <1>5, <1>6, <1>7

\* One, two or three steps of a picker.
One(x) == <<x>>
Two(x, y) == <<x>> \o <<y>>

\* Pickers of one, two and three steps.
LEMMA PickOne ==
    ASSUME NEW n, NEW x \in TypedSteps, x.name = n, x.mode = "must",
           x.do \in {"update", "create"}
    PROVE  PickOK(n, x, One(x)) /\ One(x) \o << >> = One(x)
<1> DEFINE s == One(x)
<1>1. s \in Seq(TypedSteps) /\ Len(s) = 1 /\ s[1] = x
  BY DEF One
<1> HIDE DEF s
<1>2. PickOK(n, x, s)
  BY <1>1 DEF PickOK
<1>3. s \o << >> = s
  BY <1>1
<1> QED BY <1>2, <1>3 DEF s

\* A picker's change, and a second step.
LEMMA PickTwo ==
    ASSUME NEW n, NEW x \in TypedSteps, x.name = n, x.mode = "must",
           x.do \in {"update", "create"},
           NEW y \in TypedSteps, y.name = n, y.mode = "must", y.do \in {"topic", "reload"}
    PROVE  PickOK(n, x, Two(x, y))
<1> DEFINE s == Two(x, y)
<1>1. s \in Seq(TypedSteps) /\ Len(s) = 2 /\ s[1] = x /\ s[2] = y
  BY DEF Two
<1> HIDE DEF s
<1>2. \A i \in 1 .. Len(s) : i \in {1, 2}
  BY <1>1
<1>3. \A i \in 2 .. Len(s) : i = 2
  BY <1>1
<1>4. PickOK(n, x, s)
  BY <1>1, <1>2, <1>3 DEF PickOK
<1> QED BY <1>4 DEF s

\* A picker's change, and two more steps.
LEMMA PickThree ==
    ASSUME NEW n, NEW x \in TypedSteps, x.name = n, x.mode = "must",
           x.do \in {"update", "create"},
           NEW y \in TypedSteps, y.name = n, y.mode = "must", y.do \in {"topic", "reload"},
           NEW z \in TypedSteps, z.name = n, z.mode = "must", z.do \in {"topic", "reload"}
    PROVE  PickOK(n, x, Three(x, y, z))
<1> DEFINE s == Three(x, y, z)
<1>1. s \in Seq(TypedSteps) /\ Len(s) = 3 /\ s[1] = x /\ s[2] = y /\ s[3] = z
  BY ThreeInARow
<1> HIDE DEF s
<1>2. \A i \in 1 .. Len(s) : i \in {1, 2, 3}
  BY <1>1
<1>3. \A i \in 2 .. Len(s) : i \in {2, 3}
  BY <1>1
<1>4. PickOK(n, x, s)
  BY <1>1, <1>2, <1>3 DEF PickOK
<1> QED BY <1>4 DEF s

\* The pickers' operations: topic, branch and new plan.
LEMMA PickerSteps ==
    ASSUME NEW n \in Names, NEW t \in Topics \cup {""}, NEW m \in Meta
    PROVE  /\ PickOK(n, Step("update", n, m, "must"), SetTopicSteps(n, m))
           /\ PickOK(n, Step("update", n, m, "must"),
                     << Step("update", n, m, "must") >> \o Reload(n))
           /\ PickOK(n, Step("create", n, NewEntry(t), "must"), CreateSteps(n, t) \o Reload(n))
<1> DEFINE e == NewEntry(t)
           u == Step("update", n, m, "must")
           c == Step("create", n, e, "must")
           v(x) == Step("topic", n, x, "must")
           r == Step("reload", n, "", "must")
<1>1. /\ m.topic \in Topics \cup {""}
      /\ e \in Meta
  BY PickersTyped DEF Meta
<1> HIDE DEF e
<1>2. /\ u \in TypedSteps /\ c \in TypedSteps /\ r \in TypedSteps
      /\ \A x \in Topics : v(x) \in TypedSteps
  <2>1. "must" \in Mode
    BY DEF Mode
  <2>2. u \in TypedSteps
    BY <2>1, StepTyped DEF Do, Arg, ArgOK, Step
  <2>3. c \in TypedSteps
    BY <1>1, <2>1, StepTyped DEF Do, Arg, ArgOK, Step
  <2>4. r \in TypedSteps
    BY <2>1, StepTyped DEF Do, Arg, ArgOK, Step, Text
  <2>5. \A x \in Topics : v(x) \in TypedSteps
    BY <2>1, StepTyped DEF Do, Arg, ArgOK, Step
  <2> QED BY <2>2, <2>3, <2>4, <2>5
<1>3. /\ u.do = "update" /\ u.name = n /\ u.mode = "must"
      /\ c.do = "create" /\ c.name = n /\ c.mode = "must"
      /\ r.do = "reload" /\ r.name = n /\ r.mode = "must"
      /\ \A x : v(x).do = "topic" /\ v(x).name = n /\ v(x).mode = "must"
  BY DEF Step
<1>4. /\ \A x : TopicStep(n, x) = IF x = "" THEN << >> ELSE << v(x) >>
      /\ SetTopicSteps(n, m) = <<u>> \o TopicStep(n, m.topic)
      /\ CreateSteps(n, t) \o Reload(n) = <<c>> \o TopicStep(n, t) \o <<r>>
      /\ Reload(n) = <<r>>
  BY DEF TopicStep, SetTopicSteps, CreateSteps, Reload, e
<1>o. \A x, y : One(x) = <<x>> /\ Two(x, y) = One(x) \o <<y>>
  BY DEF One, Two
<1> HIDE DEF u, c, v, r
<1>5. One(u) \o << >> = One(u) /\ One(c) \o << >> = One(c)
  BY <1>2, <1>3, PickOne
<1>6. PickOK(n, u, SetTopicSteps(n, m))
  <2>1. CASE m.topic = ""
    <3>1. SetTopicSteps(n, m) = One(u)
      BY <2>1, <1>4, <1>5, <1>o
    <3> QED BY <3>1, <1>2, <1>3, PickOne
  <2>2. CASE m.topic # ""
    <3>1. m.topic \in Topics
      BY <2>2, <1>1
    <3>2. SetTopicSteps(n, m) = Two(u, v(m.topic))
      BY <2>2, <1>4 DEF Two
    <3> DEFINE y == v(m.topic)
    <3>3. /\ y \in TypedSteps /\ y.do = "topic" /\ y.name = n /\ y.mode = "must"
          /\ SetTopicSteps(n, m) = Two(u, y)
      BY <3>1, <3>2, <1>2, <1>3
    <3> HIDE DEF y
    <3> QED BY <3>3, <1>2, <1>3, PickTwo
  <2> QED BY <2>1, <2>2
<1>7. PickOK(n, u, Two(u, r))
  BY <1>2, <1>3, PickTwo
<1>8. PickOK(n, c, CreateSteps(n, t) \o Reload(n))
  <2>1. CASE t = ""
    <3>1. CreateSteps(n, t) \o Reload(n) = Two(c, r)
      BY <2>1, <1>4, <1>5, <1>o
    <3> QED BY <3>1, <1>2, <1>3, PickTwo
  <2>2. CASE t # ""
    <3>1. CreateSteps(n, t) \o Reload(n) = Three(c, v(t), r)
      BY <2>2, <1>4 DEF Three
    <3> DEFINE y == v(t)
    <3>2. /\ y \in TypedSteps /\ y.do = "topic" /\ y.name = n /\ y.mode = "must"
          /\ CreateSteps(n, t) \o Reload(n) = Three(c, y, r)
      BY <2>2, <3>1, <1>2, <1>3
    <3> HIDE DEF y
    <3>3. c \in TypedSteps /\ c.name = n /\ c.mode = "must" /\ c.do = "create"
      BY <1>2, <1>3
    <3>4. r \in TypedSteps /\ r.name = n /\ r.mode = "must" /\ r.do = "reload"
      BY <1>2, <1>3
    <3>5. PickOK(n, c, Three(c, y, r))
      BY <3>2, <3>3, <3>4, PickThree
    <3> QED BY <3>2, <3>5
  <2> QED BY <2>1, <2>2
<1>9. << u >> \o Reload(n) = Two(u, r)
  BY <1>4 DEF Two
<1>10. PickOK(n, u, << u >> \o Reload(n))
  BY <1>7, <1>9
<1> QED BY <1>6, <1>8, <1>10 DEF u, c, e

\* A picker that writes a cached entry back, or a new one.
LEMMA PickOverOK ==
    ASSUME SerialInv, Undisturbed, TypeInv', NEW n \in Names, NEW s, NEW g,
           NEW do \in {"update", "create"}, NEW e \in Meta,
           PickOK(n, Step(do, n, e, "must"), s), Begin("tui", s, g),
           do = "create" <=> cache[n] = NoPlan, do = "create" => e.status = "ready",
           do = "update" => Overrides \/ e.status = cache[n].status,
           cache' = [cache EXCEPT ![n] = e], UNCHANGED <<view, dialog>>, dialog = None,
           g # None => g.name = n /\ g.status = MapLegacyStatus(e.status)
    PROVE  SerialInv'
<1>1. /\ s[1].do = do /\ s[1].name = n /\ s[1].arg = e /\ s \in Seq(TypedSteps)
      /\ Len(s) \in Nat \ {0}
  BY StepFields DEF PickOK
<1>2. cache = rows /\ StatusOf(n) \in Place /\ rows' = rows
  BY BeginsFresh, ClientNames DEF Begin
<1>3. Ahead(s[1])'
  BY <1>1, <1>2 DEF Ahead
<1>4. MapLegacyStatus(e.status) \in Place
  BY Mapped DEF Meta, Place
<1>5. Follows(s[1], StatusOf(n), MapLegacyStatus(e.status))
  <2>1. do = "create" <=> StatusOf(n) = "none"
    <3>1. cache[n] # NoPlan => StatusOf(n) # "none"
      <4>1. cache[n] # NoPlan => /\ rows[n].status \in Status \cup LegacyStatus
                                 /\ StatusOf(n) = MapLegacyStatus(rows[n].status)
        BY <1>2, BeginsFresh, ClientNames
      <4>2. cache[n] # NoPlan => StatusOf(n) \in Status
        BY <4>1, Mapped
      <4> QED BY <4>2 DEF Status
    <3> QED BY <3>1, <1>2 DEF StatusOf
  <2>2. do = "create" => MapLegacyStatus(e.status) = "ready"
    BY Mapped DEF Status
  <2>3. do = "update" => Overrides \/ Edge(StatusOf(n), MapLegacyStatus(e.status))
    BY <2>1, <1>2 DEF StatusOf, Edge
  <2> QED BY <2>1, <2>2, <2>3, <1>1 DEF Follows
<1>6. /\ ShapeOK(s) /\ s # << >>
      /\ \A i \in 1 .. Len(s) : s[i].do # "transition"
      /\ \A i \in 2 .. Len(s) :
            s[i].do \notin {"transition", "update", "create", "content", "rename"}
  BY PickShape
<1>7. Destined(s, g)
  BY <1>1, <1>2, <1>4, <1>5, <1>6, FirstChanges
<1> QED BY <1>1, <1>3, <1>6, <1>7, AheadOK

\* The topic and status pickers, and a new plan.
LEMMA PickersOK ==
    ASSUME SerialInv, Undisturbed, TypeInv', NEW n \in Names,
           \/ \E t \in Topics \cup {""} : ChangeTopic(n, t) \/ CreatePlan(n, t)
           \/ \E s \in Status : SetStatus(n, s)
    PROVE  SerialInv'
<1>h. cache \in [Names -> Meta \cup {NoPlan}]
  BY DEF SerialInv, TypeInv, StateTypeOK
<1>1. ASSUME NEW t \in Topics \cup {""}, ChangeTopic(n, t) PROVE SerialInv'
  <2> DEFINE e == [cache[n] EXCEPT !.topic = t]
             s == SetTopicSteps(n, e)
  <2>1. /\ cache[n] # NoPlan /\ dialog = None /\ Begin("tui", s, None)
        /\ cache' = [cache EXCEPT ![n] = e] /\ UNCHANGED <<view, dialog>>
    BY <1>1 DEF ChangeTopic, UserBegins
  <2>2. e \in Meta /\ e.status = cache[n].status
    <3>1. cache[n] \in Meta
      BY <1>h, <2>1, EntryTyped
    <3> QED BY <3>1, ReplacedTyped DEF Meta
  <2> HIDE DEF e
  <2>3. PickOK(n, Step("update", n, e, "must"), s)
    BY <2>2, PickerSteps
  <2>4. PICK u : u = s
    OBVIOUS
  <2>5. /\ PickOK(n, Step("update", n, e, "must"), u)
        /\ Begin("tui", u, None)
    BY <2>1, <2>3, <2>4
  <2>6. "update" = "create" <=> cache[n] = NoPlan
    BY <2>1
  <2>7. "update" \in {"update", "create"}
    OBVIOUS
  <2> QED BY <2>1, <2>2, <2>5, <2>6, <2>7, PickOverOK
<1>2. ASSUME NEW t \in Topics \cup {""}, CreatePlan(n, t) PROVE SerialInv'
  <2> DEFINE e == NewEntry(t)
             s == CreateSteps(n, t) \o Reload(n)
             g == Announce(n, "ready")
  <2>1. /\ cache[n] = NoPlan /\ dialog = None /\ Begin("tui", s, g)
        /\ cache' = [cache EXCEPT ![n] = e] /\ UNCHANGED <<view, dialog>>
    BY <1>2 DEF CreatePlan, UserBegins
  <2>2. /\ e \in Meta /\ g.name = n /\ g.status = MapLegacyStatus(e.status)
        /\ e.status = "ready"
    BY DEF Meta, Status, NewEntry, Announce, MapLegacyStatus
  <2>3. PickOK(n, Step("create", n, e, "must"), s)
    BY <2>2, PickerSteps
  <2> HIDE DEF e, s, g
  <2>4. PICK u, v : u = s /\ v = g
    OBVIOUS
  <2>5. /\ PickOK(n, Step("create", n, e, "must"), u)
        /\ Begin("tui", u, v)
        /\ v # None => v.name = n /\ v.status = MapLegacyStatus(e.status)
    BY <2>1, <2>2, <2>3, <2>4
  <2>6. "create" = "create" <=> cache[n] = NoPlan
    BY <2>1
  <2>7. "create" \in {"update", "create"}
    OBVIOUS
  <2> QED BY <2>1, <2>2, <2>5, <2>6, <2>7, PickOverOK
<1>3. ASSUME NEW x \in Status, SetStatus(n, x) PROVE SerialInv'
  <2> DEFINE e == [cache[n] EXCEPT !.status = x]
             s == << Step("update", n, e, "must") >> \o Reload(n)
             g == Announce(n, x)
  <2>1. /\ cache[n] # NoPlan /\ dialog = None /\ Begin("tui", s, g) /\ Overrides
        /\ cache' = [cache EXCEPT ![n] = e] /\ UNCHANGED <<view, dialog>>
    BY <1>3 DEF SetStatus, UserBegins
  <2>2. e \in Meta
    BY <1>h, <2>1, EntryTyped, ReplacedTyped
  <2>3. e.status = x /\ g.name = n /\ g.status = x /\ MapLegacyStatus(x) = x
    <3>1. cache[n] \in Meta
      BY <1>h, <2>1, EntryTyped
    <3>2. e.status = x
      BY <3>1 DEF Meta
    <3> QED BY <3>2, Mapped DEF Announce
  <2> HIDE DEF e, g
  <2>4. PickOK(n, Step("update", n, e, "must"), s)
    BY <2>2, PickerSteps
  <2>5. PICK u, v : u = s /\ v = g
    OBVIOUS
  <2>6. /\ PickOK(n, Step("update", n, e, "must"), u)
        /\ Begin("tui", u, v)
        /\ v # None => v.name = n /\ v.status = MapLegacyStatus(e.status)
    BY <2>1, <2>3, <2>4, <2>5
  <2>7. "update" = "create" <=> cache[n] = NoPlan
    BY <2>1
  <2>8. "update" \in {"update", "create"}
    OBVIOUS
  <2> QED BY <2>1, <2>2, <2>6, <2>7, <2>8, PickOverOK
<1> QED BY <1>1, <1>2, <1>3

\* A rename.
LEMMA RenameBeginOK ==
    ASSUME SerialInv, Undisturbed, TypeInv', NEW old \in Names, NEW new \in Names,
           RenamePlan(old, new)
    PROVE  SerialInv'
<1> DEFINE x == Step("rename", old, new, "must")
           s == One(x)
<1>1. /\ cache[old] # NoPlan /\ cache[new] = NoPlan /\ dialog = None
      /\ Begin("tui", s, None)
      /\ cache' = [cache EXCEPT ![new] = cache[old], ![old] = NoPlan]
      /\ UNCHANGED <<view, dialog>>
  BY DEF RenamePlan, UserBegins, One
<1>2. cache = rows /\ rows' = rows /\ StatusOf(old) \in Place
  BY <1>1, BeginsFresh, ClientNames DEF Begin
<1>3. x \in TypedSteps
  BY StepTyped DEF Do, Arg, ArgOK, Step, Mode
<1>4. x.do = "rename" /\ x.name = old /\ x.arg = new /\ x.mode = "must"
  BY DEF Step
<1> HIDE DEF x
<1>5. s \in Seq(TypedSteps) /\ Len(s) = 1 /\ s[1] = x
  BY <1>3 DEF One
<1> HIDE DEF s
<1>6. \A i \in 1 .. Len(s) : i = 1
  BY <1>5
<1>7. ShapeOK(s)
  BY <1>4, <1>5, <1>6 DEF ShapeOK
<1>8. Len(s) \in Nat \ {0} /\ s # << >>
  <2>1. Len(s) \in Nat \ {0}
    BY <1>5
  <2> QED BY <2>1
<1>9. Destined(s, None)
  <2>1. StatusOf(old) # "none"
    <3>1. old \in Names /\ rows[old] # NoPlan
      BY <1>1, <1>2
    <3>2. StatusOf(old) \in Status
      BY <3>1, PlaceTyped DEF SerialInv
    <3> QED BY <3>2 DEF Status
  <2>2. Follows(s[1], StatusOf(old), "none") /\ "none" \in Place
    BY <2>1, <1>4, <1>5 DEF Follows, Place
  <2>3. \A i \in 2 .. Len(s) :
           s[i].do \notin {"transition", "update", "create", "content", "rename"}
    <3>1. 2 .. Len(s) = {}
      BY <1>5
    <3> QED BY <3>1
  <2> QED BY <2>2, <2>3, <1>2, <1>4, <1>5, <1>8, FirstChanges
<1>10. Ahead(s[1])'
  BY <1>1, <1>2, <1>4, <1>5 DEF Ahead, RenameOK
<1>11. PICK u : u = s
  OBVIOUS
<1>12. /\ u \in Seq(TypedSteps) /\ u # << >> /\ ShapeOK(u) /\ Destined(u, None)
       /\ u[1] = x /\ Begin("tui", u, None)
       /\ \A i \in 1 .. Len(u) : u[i].do = "transition" /\ u[i].mode = "soft" => None = None
  BY <1>1, <1>5, <1>7, <1>8, <1>9, <1>11
<1>13. Ahead(u[1])'
  BY <1>10, <1>11
<1> QED BY <1>1, <1>12, <1>13, AheadOK

\* An imported task: its row, its text, its start, the reload and the planner.
Imported(x, y, z, r, sp) == <<x>> \o <<y, z>> \o <<r>> \o <<sp>>

\* The steps of an import, by their places.
LEMMA ImportedSteps ==
    ASSUME NEW x \in TypedSteps, NEW y \in TypedSteps, NEW z \in TypedSteps,
           NEW r \in TypedSteps, NEW sp \in TypedSteps
    PROVE  /\ Imported(x, y, z, r, sp) \in Seq(TypedSteps)
           /\ Len(Imported(x, y, z, r, sp)) = 5
           /\ Imported(x, y, z, r, sp)[1] = x /\ Imported(x, y, z, r, sp)[2] = y
           /\ Imported(x, y, z, r, sp)[3] = z /\ Imported(x, y, z, r, sp)[4] = r
           /\ Imported(x, y, z, r, sp)[5] = sp
<1> DEFINE a == <<x>>
           b == <<y, z>>
           c == <<r>>
           d == <<sp>>
           ab == a \o b
           abc == ab \o c
           s == abc \o d
<1>1. /\ a \in Seq(TypedSteps) /\ Len(a) = 1 /\ a[1] = x
      /\ c \in Seq(TypedSteps) /\ Len(c) = 1 /\ c[1] = r
      /\ d \in Seq(TypedSteps) /\ Len(d) = 1 /\ d[1] = sp
  OBVIOUS
<1>2. b \in Seq(TypedSteps) /\ Len(b) = 2 /\ b[1] = y /\ b[2] = z
  OBVIOUS
<1>3. s = Imported(x, y, z, r, sp)
  BY DEF Imported
<1> HIDE DEF a, b, c, d
<1>4. /\ ab \in Seq(TypedSteps) /\ Len(ab) = 3
      /\ ab[1] = x /\ ab[2] = y /\ ab[3] = z
  <2>1. ab \in Seq(TypedSteps) /\ Len(ab) = Len(a) + Len(b)
    BY <1>1, <1>2, CatFacts
  <2>2. \A i \in 1 .. Len(a) : ab[i] = a[i]
    BY <1>1, <1>2, CatFacts
  <2>3. \A i \in Len(a) + 1 .. Len(a) + Len(b) : ab[i] = b[i - Len(a)]
    BY <1>1, <1>2, CatFacts, ZenonT(30)
  <2> HIDE DEF ab
  <2>4. /\ 1 \in 1 .. Len(a) /\ 2 \in Len(a) + 1 .. Len(a) + Len(b)
        /\ 3 \in Len(a) + 1 .. Len(a) + Len(b) /\ 2 - Len(a) = 1 /\ 3 - Len(a) = 2
        /\ Len(a) + Len(b) = 3
    BY <1>1, <1>2
  <2>5. ab[1] = x
    BY <2>2, <2>4, <1>1
  <2>6. ab[2] = y /\ ab[3] = z
    BY <2>3, <2>4, <1>2
  <2> QED BY <2>1, <2>4, <2>5, <2>6
<1> HIDE DEF ab
<1>5. /\ abc \in Seq(TypedSteps) /\ Len(abc) = 4
      /\ abc[1] = x /\ abc[2] = y /\ abc[3] = z /\ abc[4] = r
  <2>1. abc \in Seq(TypedSteps) /\ Len(abc) = Len(ab) + Len(c)
    BY <1>1, <1>4, CatFacts, ZenonT(30)
  <2>2. \A i \in 1 .. Len(ab) : abc[i] = ab[i]
    BY <1>1, <1>4, CatFacts, ZenonT(30)
  <2>3. \A i \in Len(ab) + 1 .. Len(ab) + Len(c) : abc[i] = c[i - Len(ab)]
    BY <1>1, <1>4, CatFacts, ZenonT(30)
  <2> HIDE DEF abc
  <2>4. /\ 1 \in 1 .. Len(ab) /\ 2 \in 1 .. Len(ab) /\ 3 \in 1 .. Len(ab)
        /\ 4 \in Len(ab) + 1 .. Len(ab) + Len(c) /\ 4 - Len(ab) = 1
        /\ Len(ab) + Len(c) = 4
    BY <1>1, <1>4
  <2>5. abc[1] = x /\ abc[2] = y /\ abc[3] = z
    BY <2>2, <2>4, <1>4
  <2>6. abc[4] = r
    BY <2>3, <2>4, <1>1
  <2> QED BY <2>1, <2>4, <2>5, <2>6
<1> HIDE DEF abc
<1>6. /\ s \in Seq(TypedSteps) /\ Len(s) = 5
      /\ s[1] = x /\ s[2] = y /\ s[3] = z /\ s[4] = r /\ s[5] = sp
  <2>1. s \in Seq(TypedSteps) /\ Len(s) = Len(abc) + Len(d)
    BY <1>1, <1>5, CatFacts, ZenonT(30)
  <2>2. \A i \in 1 .. Len(abc) : s[i] = abc[i]
    BY <1>1, <1>5, CatFacts, SMTT(30)
  <2>3. \A i \in Len(abc) + 1 .. Len(abc) + Len(d) : s[i] = d[i - Len(abc)]
    BY <1>1, <1>5, CatFacts, ZenonT(30)
  <2> HIDE DEF s
  <2>4. /\ 1 \in 1 .. Len(abc) /\ 2 \in 1 .. Len(abc) /\ 3 \in 1 .. Len(abc)
        /\ 4 \in 1 .. Len(abc)
        /\ 5 \in Len(abc) + 1 .. Len(abc) + Len(d) /\ 5 - Len(abc) = 1
        /\ Len(abc) + Len(d) = 5
    BY <1>1, <1>5
  <2>5. s[1] = x /\ s[2] = y /\ s[3] = z /\ s[4] = r
    BY <2>2, <2>4, <1>5
  <2>6. s[5] = sp
    BY <2>3, <2>4, <1>1
  <2> QED BY <2>1, <2>4, <2>5, <2>6
<1> QED BY <1>3, <1>6

\* Importing a task.
LEMMA ImportOK ==
    ASSUME SerialInv, Undisturbed, TypeInv', NEW n \in Names, ImportClickUpTask(n)
    PROVE  SerialInv'
<1> DEFINE e == NewEntry("")
           x == Step("create", n, e, "must")
           y == Step("content", n, "text", "must")
           z == Step("transition", n, "plan_start", "soft")
           r == Step("reload", n, "", "must")
           sp == Step("spawn", n, "", "must")
           s == Imported(x, y, z, r, sp)
<1>1. /\ cache[n] = NoPlan /\ Begin("tui", s, None)
      /\ cache' = [cache EXCEPT ![n] = e] /\ UNCHANGED <<view, dialog>>
  BY DEF ImportClickUpTask, UnusedFilename, Imported, RegisterSteps, Reload, Spawn
<1>2. cache = rows /\ rows' = rows /\ StatusOf(n) = "none"
  BY <1>1, BeginsFresh, ClientNames DEF Begin, StatusOf
<1>3. e \in Meta /\ MapLegacyStatus(e.status) = "ready"
  BY DEF NewEntry, Meta, Status, MapLegacyStatus
<1> HIDE DEF e
<1>4. /\ x \in TypedSteps /\ y \in TypedSteps /\ z \in TypedSteps
      /\ r \in TypedSteps /\ sp \in TypedSteps
  <2>1. "must" \in Mode /\ "soft" \in Mode
    BY DEF Mode
  <2>2. x \in TypedSteps
    BY <1>3, <2>1, StepTyped DEF Do, Arg, ArgOK, Step
  <2>3. y \in TypedSteps
    BY <2>1, StepTyped DEF Do, Arg, ArgOK, Step, Text
  <2>4. z \in TypedSteps
    BY <2>1, StepTyped DEF Do, Arg, ArgOK, Step, Event
  <2>5. r \in TypedSteps /\ sp \in TypedSteps
    BY <2>1, StepTyped DEF Do, Arg, ArgOK, Step, Text
  <2> QED BY <2>2, <2>3, <2>4, <2>5
<1>5. /\ x.do = "create" /\ x.name = n /\ x.mode = "must" /\ x.arg = e
      /\ y.do = "content" /\ y.name = n /\ y.mode = "must"
      /\ z.do = "transition" /\ z.name = n /\ z.mode = "soft" /\ z.arg = "plan_start"
      /\ r.do = "reload" /\ r.name = n /\ r.mode = "must"
      /\ sp.do = "spawn" /\ sp.name = n /\ sp.mode = "must"
  BY DEF Step
<1> HIDE DEF x, y, z, r, sp
<1>6. /\ s \in Seq(TypedSteps) /\ Len(s) = 5
      /\ s[1] = x /\ s[2] = y /\ s[3] = z /\ s[4] = r /\ s[5] = sp
  BY <1>4, ImportedSteps
<1> HIDE DEF s
<1>7. /\ \A i \in 1 .. Len(s) : i \in {1, 2, 3, 4, 5}
      /\ 4 \in 3 + 1 .. Len(s) /\ \A j \in 3 + 1 .. Len(s) : j \in {4, 5}
      /\ Len(s) + 1 = 6
  BY <1>6
<1>8. ShapeOK(s)
  <2>1. ASSUME NEW i \in 1 .. Len(s)
        PROVE  /\ s[i].name = s[1].name /\ s[i].mode # "always"
               /\ s[i].do \in {"create", "content", "transition", "reload", "spawn"}
               /\ s[i].do = "create" => i = 1
               /\ s[i].do = "transition" => i = 3
               /\ s[i].do = "spawn" => i = Len(s) /\ s[i].mode = "must"
    BY <1>5, <1>6, <1>7
  <2>2. \E j \in 3 + 1 .. Len(s) : s[j].do \in Reloads
    BY <1>5, <1>6, <1>7 DEF Reloads
  <2>3. \A j \in 3 + 1 .. Len(s) : s[j].do \in {"reload", "backfill", "spawn"}
    BY <1>5, <1>6, <1>7
  <2> QED BY <2>1, <2>2, <2>3 DEF ShapeOK
<1>9. Destined(s, None)
  <2> DEFINE f == [i \in 1 .. 6 |-> IF i = 1 THEN "none"
                                    ELSE IF i \in {2, 3} THEN "ready" ELSE "planning"]
  <2>1. /\ f \in [1 .. 6 -> Place] /\ f[1] = "none" /\ f[2] = "ready" /\ f[3] = "ready"
        /\ f[4] = "planning" /\ f[5] = "planning" /\ f[6] = "planning"
    BY DEF Place, Status
  <2> HIDE DEF f
  <2>2. Follows(s[1], f[1], f[2])
    BY <2>1, <1>3, <1>5, <1>6 DEF Follows
  <2>3. Follows(s[2], f[2], f[3])
    BY <2>1, <1>5, <1>6 DEF Follows
  <2>4. Follows(s[3], f[3], f[4])
    <3> DEFINE edge == <<"ready", "plan_start", "planning">>
    <3>1. edge \in TransitionTable
      BY DEF TransitionTable
    <3>2. Allowed(edge[1], edge[2]) /\ ApplyTransition(edge[1], edge[2]) = edge[3]
      BY <3>1, Edges
    <3>3. edge[1] = "ready" /\ edge[2] = "plan_start" /\ edge[3] = "planning"
      OBVIOUS
    <3> HIDE DEF edge
    <3> QED BY <2>1, <3>2, <3>3, <1>5, <1>6 DEF Follows
  <2>5. Follows(s[4], f[4], f[5]) /\ Follows(s[5], f[5], f[6])
    BY <2>1, <1>5, <1>6, StayFollows
  <2>6. \A i \in 1 .. Len(s) : Follows(s[i], f[i], f[i + 1])
    <3> TAKE i \in 1 .. Len(s)
    <3>1. \/ i = 1 /\ i + 1 = 2
          \/ i = 2 /\ i + 1 = 3
          \/ i = 3 /\ i + 1 = 4
          \/ i = 4 /\ i + 1 = 5
          \/ i = 5 /\ i + 1 = 6
      BY <1>7
    <3> QED BY <3>1, <2>2, <2>3, <2>4, <2>5
  <2>7. f \in [1 .. Len(s) + 1 -> Place] /\ f[1] = StatusOf(s[1].name)
    BY <2>1, <1>2, <1>5, <1>6, <1>7
  <2> QED BY <2>6, <2>7 DEF Destined, PathOf
<1>10. Ahead(s[1])'
  BY <1>1, <1>2, <1>5, <1>6 DEF Ahead
<1>11. s # << >>
  <2>1. Len(s) \in Nat \ {0}
    BY <1>6
  <2> QED BY <2>1
<1>12. PICK u : u = s
  OBVIOUS
<1>13. /\ u \in Seq(TypedSteps) /\ u # << >> /\ ShapeOK(u) /\ Destined(u, None)
       /\ Begin("tui", u, None) /\ u[1].name = n
       /\ \A i \in 1 .. Len(u) : u[i].do = "transition" /\ u[i].mode = "soft" => None = None
  BY <1>1, <1>5, <1>6, <1>8, <1>9, <1>11, <1>12
<1>14. Ahead(u[1])'
  BY <1>10, <1>12
<1>15. dialog # None /\ rows[dialog.name] # NoPlan => u[1].name # dialog.name
  BY <1>1, <1>2, <1>13
<1> QED BY <1>1, <1>13, <1>14, <1>15, AheadOK

----------------------------------------------------------------------------
(* The steps of an operation that runs alone. *)

\* What is left after a step is shaped like an operation.
LEMMA TailShape ==
    ASSUME NEW s \in Seq(TypedSteps), s # << >>, ShapeOK(s), NEW t, t = Tail(s), t # << >>
    PROVE  /\ t \in Seq(TypedSteps) /\ Len(t) \in Nat \ {0} /\ Len(s) = Len(t) + 1
           /\ \A i \in 1 .. Len(t) : i + 1 \in 2 .. Len(s) /\ t[i] = s[i + 1]
           /\ ShapeOK(t) /\ t[1].name = s[1].name
           /\ t[1].do \notin {"update", "create", "rename", "fetch", "write"}
<1>1. /\ t \in Seq(TypedSteps) /\ Len(t) = Len(s) - 1 /\ Len(s) \in Nat \ {0}
      /\ \A i \in 1 .. Len(s) - 1 : t[i] = s[i + 1]
  BY TailFacts
<1>2. Len(t) \in Nat \ {0}
  BY <1>1
<1> DEFINE k == Len(t)
           m == Len(s)
<1>3. /\ k \in Nat \ {0} /\ m \in Nat \ {0} /\ m = k + 1 /\ 1 \in 1 .. k /\ 1 \in 1 .. m
      /\ \A i \in 1 .. k : i + 1 \in 2 .. m /\ i + 1 \in 1 .. m /\ t[i] = s[i + 1]
  BY <1>1, <1>2
<1> HIDE DEF k, m
<1>4. ASSUME NEW i \in 1 .. m
      PROVE  /\ s[i].name = s[1].name
             /\ s[i].do \notin {"force", "register", "implement"}
             /\ s[i].do \in {"update", "create", "rename", "fetch", "write"} => i = 1
             /\ s[i].do = "transition" => \E j \in i + 1 .. m : s[j].do \in Reloads
             /\ s[i].do = "backfill" /\ i > 1 => s[i - 1].do \in Reloads
             /\ s[i].do = "backfill" /\ s[i].mode = "soft" => i = m
             /\ s[i].do = "spawn" => i = m /\ s[i].mode = "must"
             /\ s[i].mode = "always" => i = m /\ s[i].do = "reload"
             /\ s[i].do = "transition" /\ s[i].mode = "soft" =>
                   \A j \in i + 1 .. m : s[j].do \in {"reload", "backfill", "spawn"}
  BY DEF ShapeOK, m
<1>5. ASSUME NEW i \in 1 .. k
      PROVE  /\ t[i].name = s[1].name
             /\ t[i].do \notin {"force", "register", "implement"}
             /\ t[i].do \notin {"update", "create", "rename", "fetch", "write"}
             /\ t[i].do = "transition" => \E j \in i + 1 .. k : t[j].do \in Reloads
             /\ t[i].do = "backfill" /\ i > 1 => t[i - 1].do \in Reloads
             /\ t[i].do = "backfill" /\ t[i].mode = "soft" => i = k
             /\ t[i].do = "spawn" => i = k /\ t[i].mode = "must"
             /\ t[i].mode = "always" => i = k /\ t[i].do = "reload"
             /\ t[i].do = "transition" /\ t[i].mode = "soft" =>
                   \A j \in i + 1 .. k : t[j].do \in {"reload", "backfill", "spawn"}
  <2>1. i + 1 \in 1 .. m /\ i + 1 # 1 /\ i + 1 > 1 /\ t[i] = s[i + 1]
        /\ (i + 1 = m <=> i = k)
    <3>1. i \in Nat \ {0}
      OBVIOUS
    <3>2. i + 1 # 1 /\ i + 1 > 1 /\ (i + 1 = m <=> i = k)
      BY <3>1, <1>3
    <3> QED BY <3>2, <1>3
  <2>2. /\ t[i].name = s[1].name
        /\ t[i].do \notin {"force", "register", "implement"}
        /\ t[i].do \notin {"update", "create", "rename", "fetch", "write"}
        /\ t[i].do = "backfill" /\ t[i].mode = "soft" => i = k
        /\ t[i].do = "spawn" => i = k /\ t[i].mode = "must"
        /\ t[i].mode = "always" => i = k /\ t[i].do = "reload"
    BY <2>1, <1>4, ZenonT(30)
  <2>3. ASSUME t[i].do = "transition" PROVE \E j \in i + 1 .. k : t[j].do \in Reloads
    <3>1. PICK j \in (i + 1) + 1 .. m : s[j].do \in Reloads
      BY <2>1, <2>3, <1>4
    <3>2. j - 1 \in i + 1 .. k /\ j - 1 \in 1 .. k /\ (j - 1) + 1 = j
      BY <1>3
    <3>3. t[j - 1] = s[j]
      BY <3>2, <1>3
    <3> QED BY <3>1, <3>2, <3>3
  <2>4. ASSUME t[i].do = "backfill", i > 1 PROVE t[i - 1].do \in Reloads
    <3>1. s[(i + 1) - 1].do \in Reloads
      BY <2>1, <2>4, <1>4
    <3>2. i - 1 \in 1 .. k /\ (i - 1) + 1 = (i + 1) - 1
      BY <2>4, <1>3
    <3>3. t[i - 1] = s[(i + 1) - 1]
      BY <3>2, <1>3
    <3> QED BY <3>1, <3>3
  <2>5. ASSUME t[i].do = "transition", t[i].mode = "soft", NEW j \in i + 1 .. k
        PROVE  t[j].do \in {"reload", "backfill", "spawn"}
    <3>1. j \in 1 .. k /\ j + 1 \in (i + 1) + 1 .. m
      BY <1>3
    <3>2. s[j + 1].do \in {"reload", "backfill", "spawn"}
      BY <2>1, <2>5, <3>1, <1>4
    <3> QED BY <3>1, <3>2, <1>3
  <2> QED BY <2>2, <2>3, <2>4, <2>5
<1>6. \A i \in 1 .. k : t[i].name = t[1].name
  BY <1>3, <1>5
<1>7. ShapeOK(t)
  BY <1>5, <1>6, Zenon DEF ShapeOK, k
<1>8. t[1].name = s[1].name /\ t[1].do \notin {"update", "create", "rename", "fetch", "write"}
  BY <1>3, <1>5
<1> QED BY <1>1, <1>2, <1>3, <1>7, <1>8 DEF k, m

\* A dialog and the rest of the operation under way.
LEMMA DialogStep ==
    ASSUME SerialInv, NEW c \in Clients, ~Idle(c), NEW s, todo' = [todo EXCEPT ![c] = s],
           dialog' = dialog,
           MergedDone => /\ rows'[dialog.name] # NoPlan
                         /\ rows'[dialog.name].status = "done",
           MergedDone /\ s # << >> /\ s[1].name = dialog.name =>
              /\ \A i \in 1 .. Len(s) : s[i].do = "transition" => s[i].arg \in SentinelEvent
              /\ s[1].do = "update" => s[1].arg.status = "done"
              /\ s[1].do # "rename"
    PROVE  DialogOK'
<1>1. todo'[c] = s /\ \A d \in Clients \ {c} : todo'[d] = << >>
  <2>1. DOMAIN todo = Clients
    BY DEF SerialInv, TypeInv, ClientTypeOK
  <2> QED BY <2>1, OpReady
<1>2. MergedDone' <=> MergedDone
  BY DEF MergedDone
<1>3. \A d \in Clients : todo'[d] # << >> => d = c
  BY <1>1
<1> QED BY <1>1, <1>2, <1>3 DEF DialogOK, Idle

\* What a dialog knows of the operation under way.
LEMMA DialogFacts ==
    ASSUME SerialInv, NEW c \in Clients, ~Idle(c), NEW s, s = todo[c], MergedDone
    PROVE  /\ rows[dialog.name] # NoPlan /\ rows[dialog.name].status = "done"
           /\ s[1].name = dialog.name =>
                 /\ \A i \in 1 .. Len(s) :
                       s[i].do = "transition" => s[i].arg \in SentinelEvent
                 /\ s[1].do = "update" => s[1].arg.status = "done"
                 /\ s[1].do # "rename"
BY DEF SerialInv, DialogOK

\* A path is shortened by its first step.
LEMMA TailDestined ==
    ASSUME NEW s \in Seq(TypedSteps), s # << >>, ShapeOK(s), NEW t, t = Tail(s), t # << >>,
           NEW g, NEW f, PathOf(s, f),
           g # None => g.name = s[1].name /\ g.status = f[Len(s) + 1],
           StatusOf(s[1].name)' = f[2]
    PROVE  Destined(t, g)'
<1> DEFINE k == Len(t)
           h == [i \in 1 .. k + 1 |-> f[i + 1]]
<1>1. /\ k \in Nat \ {0} /\ Len(s) = k + 1
      /\ \A i \in 1 .. k : i + 1 \in 1 .. Len(s) /\ t[i] = s[i + 1]
      /\ t[1].name = s[1].name
  BY TailShape
<1>2. f \in [1 .. Len(s) + 1 -> Place]
      /\ \A i \in 1 .. Len(s) : Follows(s[i], f[i], f[i + 1])
  BY DEF PathOf
<1> HIDE DEF k
<1>3. /\ \A i \in 1 .. k + 1 : i + 1 \in 1 .. Len(s) + 1 /\ h[i] = f[i + 1]
      /\ 1 \in 1 .. k + 1 /\ k + 1 \in 1 .. k + 1 /\ 1 + 1 = 2
      /\ \A i \in 1 .. k : i \in 1 .. k + 1 /\ i + 1 \in 1 .. k + 1
      /\ (k + 1) + 1 = Len(s) + 1
  BY <1>1
<1>4. h \in [1 .. k + 1 -> Place]
  BY <1>2, <1>3
<1> HIDE DEF h
<1>5. \A i \in 1 .. k : Follows(t[i], h[i], h[i + 1])
  <2> TAKE i \in 1 .. k
  <2>1. t[i] = s[i + 1] /\ h[i] = f[i + 1] /\ h[i + 1] = f[(i + 1) + 1]
    BY <1>1, <1>3
  <2> QED BY <2>1, <1>1, <1>2
<1>6. h[1] = f[2] /\ h[k + 1] = f[Len(s) + 1]
  BY <1>3
<1>7. PathOf(t, h)'
  BY <1>1, <1>4, <1>5, <1>6 DEF PathOf, k
<1>8. g # None => g.name = t[1].name /\ g.status = h[Len(t) + 1]
  BY <1>1, <1>6 DEF k
<1> QED BY <1>7, <1>8 DEF Destined

\* The first step is done and the rest goes on.
LEMMA TailOK ==
    ASSUME SerialInv, TypeInv', NEW c \in Clients, ~Idle(c),
           NEW s, s = todo[c], NEW g, g = goal[c],
           todo' = [todo EXCEPT ![c] = Tail(s)], goal'[c] = g, UNCHANGED <<view, dialog>>,
           \/ cache' = rows'
           \/ /\ \E j \in 2 .. Len(s) : s[j].do \in Reloads
              /\ s[1].do \in {"update", "topic", "content"},
           \A f : PathOf(s, f) => StatusOf(s[1].name)' = f[2],
           Doomed(s) => /\ s[1].do # "transition"
                        /\ s[1].do \notin Reloads => UNCHANGED StatusOf(s[1].name)
                        /\ cache' = rows',
           MergedDone => /\ rows'[dialog.name] # NoPlan
                         /\ rows'[dialog.name].status = "done"
    PROVE  SerialInv'
<1>1. /\ s \in Seq(TypedSteps) /\ s # << >> /\ ShapeOK(s)
      /\ Doomed(s) \/ Destined(s, g)
      /\ \A i \in 1 .. Len(s) : s[i].do = "transition" /\ s[i].mode = "soft" => g = None
  BY OpReady DEF Idle, Ready
<1>2. PICK t : t = Tail(s)
  OBVIOUS
<1>3. ASSUME t # << >>
      PROVE  /\ t \in Seq(TypedSteps) /\ Len(t) \in Nat \ {0} /\ Len(s) = Len(t) + 1
             /\ \A i \in 1 .. Len(t) : i + 1 \in 2 .. Len(s) /\ t[i] = s[i + 1]
             /\ ShapeOK(t) /\ t[1].name = s[1].name
             /\ t[1].do \notin {"update", "create", "rename", "fetch", "write"}
  <2>1. /\ Len(t) \in Nat \ {0} /\ Len(s) = Len(t) + 1
        /\ \A i \in 1 .. Len(t) : i + 1 \in 2 .. Len(s) /\ t[i] = s[i + 1]
    BY <1>1, <1>2, <1>3, TailShape
  <2>2. ShapeOK(t)
    BY <1>1, <1>2, <1>3, TailShape
  <2>3. t \in Seq(TypedSteps)
    BY <1>1, <1>2, TailFacts
  <2>4. /\ t[1].name = s[1].name
        /\ t[1].do \notin {"update", "create", "rename", "fetch", "write"}
    BY <1>1, <1>2, <1>3, TailShape
  <2> QED BY <2>1, <2>2, <2>3, <2>4
<1>4. t = << >> => cache' = rows'
  <2>1. Len(t) = Len(s) - 1 /\ Len(s) \in Nat \ {0}
    BY <1>1, <1>2, TailFacts
  <2>2. ASSUME t = << >> PROVE 2 .. Len(s) = {}
    <3>1. Len(t) = 0
      BY <2>2
    <3>2. Len(s) = 1
      BY <2>1, <3>1
    <3> QED BY <3>2
  <2> QED BY <2>2
<1>5. ASSUME t # << >> PROVE CacheOK(t)'
  <2>1. CASE cache' = rows'
    BY <2>1, <1>3, <1>5 DEF CacheOK
  <2>2. CASE /\ \E j \in 2 .. Len(s) : s[j].do \in Reloads
             /\ s[1].do \in {"update", "topic", "content"}
    <3>1. PICK j \in 2 .. Len(s) : s[j].do \in Reloads
      BY <2>2
    <3>2. j - 1 \in 1 .. Len(t) /\ (j - 1) + 1 = j
      BY <1>3, <1>5
    <3>3. t[j - 1].do \in Reloads
      BY <3>1, <3>2, <1>3, <1>5
    <3>4. t[1].do # "backfill"
      <4>1. 1 \in 1 .. Len(t) /\ t[1] = s[1 + 1] /\ 1 + 1 \in 1 .. Len(s)
            /\ 1 + 1 > 1 /\ (1 + 1) - 1 = 1
        BY <1>3, <1>5
      <4>2. s[1 + 1].do = "backfill" => s[1].do \in Reloads
        BY <1>1, <4>1 DEF ShapeOK
      <4> QED BY <4>1, <4>2, <2>2 DEF Reloads
    <3> QED BY <3>2, <3>3, <3>4, <1>3, <1>5 DEF CacheOK
  <2> QED BY <2>1, <2>2
<1>6. ASSUME t # << >> PROVE Doomed(t)' \/ Destined(t, g)'
  <2>1. CASE Destined(s, g)
    <3>1. PICK f : /\ PathOf(s, f)
                   /\ g # None => g.name = s[1].name /\ g.status = f[Len(s) + 1]
      BY <2>1 DEF Destined
    <3>2. StatusOf(s[1].name)' = f[2]
      BY <3>1
    <3> QED BY <3>1, <3>2, <1>1, <1>2, <1>6, TailDestined
  <2>2. CASE Doomed(s)
    <3>1. PICK i \in 1 .. Len(s) :
             /\ s[i].do = "transition" /\ ~Allowed(StatusOf(s[i].name), s[i].arg)
             /\ s[i].mode = "must" \/ i = 1
             /\ \A j \in 1 .. i - 1 : s[j].do \in {"backfill", "update"}
      BY <2>2 DEF Doomed
    <3>2. i # 1
      BY <2>2, <3>1
    <3> DEFINE k == Len(t)
               m == Len(s)
    <3>k. k \in Nat \ {0} /\ m = k + 1 /\ i \in 1 .. m
      BY <1>3, <1>6
    <3>3. i - 1 \in 1 .. Len(t) /\ (i - 1) + 1 = i /\ 1 \in 1 .. i - 1
      <4> HIDE DEF k, m
      <4>1. i - 1 \in 1 .. k /\ (i - 1) + 1 = i /\ 1 \in 1 .. i - 1
        BY <3>2, <3>k
      <4> QED BY <4>1 DEF k
    <3>4. t[i - 1] = s[i] /\ s[i].name = s[1].name /\ s[i].mode = "must"
      BY <3>1, <3>2, <3>3, <1>1, <1>3, <1>6 DEF ShapeOK
    <3>5. UNCHANGED StatusOf(s[1].name)
      BY <2>2, <3>1, <3>3 DEF Reloads
    <3>6. ~Allowed(StatusOf(t[i - 1].name)', t[i - 1].arg)
      BY <3>1, <3>4, <3>5
    <3>7. \A j \in 1 .. (i - 1) - 1 : t[j].do \in {"backfill", "update"}
      <4> TAKE j \in 1 .. (i - 1) - 1
      <4>1. j \in 1 .. Len(t) /\ j + 1 \in 1 .. i - 1
        <5> HIDE DEF k, m
        <5>1. i \in Nat /\ j \in Nat /\ 1 <= j /\ j <= (i - 1) - 1 /\ i <= k + 1
          BY <3>k
        <5>2. j \in 1 .. k /\ j + 1 \in 1 .. i - 1
          BY <5>1, <3>k
        <5> QED BY <5>2 DEF k
      <4> QED BY <4>1, <3>1, <1>3, <1>6
    <3>8. cache' = rows' /\ t[1].do # "update"
      BY <2>2, <1>3, <1>6
    <3> QED BY <3>1, <3>3, <3>4, <3>6, <3>7, <3>8 DEF Doomed
  <2> QED BY <1>1, <2>1, <2>2
<1>7. ASSUME t # << >>
      PROVE  \A i \in 1 .. Len(t) : t[i].do = "transition" /\ t[i].mode = "soft" => g = None
  <2> TAKE i \in 1 .. Len(t)
  <2>1. i + 1 \in 1 .. Len(s) /\ t[i] = s[i + 1]
    BY <1>3, <1>7
  <2> QED BY <2>1, <1>1
<1>8. t # << >> => Ready(t, g)'
  BY <1>3, <1>5, <1>6, <1>7 DEF Ready
<1>9. DialogOK'
  <2>1. ASSUME MergedDone, t # << >>, t[1].name = dialog.name
        PROVE  /\ \A i \in 1 .. Len(t) :
                     t[i].do = "transition" => t[i].arg \in SentinelEvent
               /\ t[1].do \notin {"update", "rename"}
    <3>1. \A i \in 1 .. Len(s) : s[i].do = "transition" => s[i].arg \in SentinelEvent
      BY <2>1, <1>3, DialogFacts
    <3>2. ASSUME NEW i \in 1 .. Len(t), t[i].do = "transition"
          PROVE  t[i].arg \in SentinelEvent
      <4>1. i + 1 \in 1 .. Len(s) /\ t[i] = s[i + 1]
        BY <1>3, <2>1
      <4> QED BY <4>1, <3>1, <3>2
    <3> QED BY <3>2, <2>1, <1>3
  <2>2. todo' = [todo EXCEPT ![c] = t]
    BY <1>2
  <2> QED BY <2>1, <2>2, DialogStep
<1>10. todo' = [todo EXCEPT ![c] = t]
  BY <1>2
<1> QED BY <1>4, <1>8, <1>9, <1>10, StepOK

\* The operation at its first step.
LEMMA StepFacts ==
    ASSUME SerialInv, NEW c \in Clients, ~Idle(c), NEW s, s = todo[c], NEW g, g = goal[c]
    PROVE  /\ s \in Seq(TypedSteps) /\ s # << >> /\ Len(s) \in Nat \ {0} /\ 1 \in 1 .. Len(s)
           /\ Next1(c) = s[1] /\ s[1] \in TypedSteps /\ s[1].name \in Names
           /\ ShapeOK(s) /\ CacheOK(s) /\ (Doomed(s) \/ Destined(s, g))
           /\ s[1].do \notin {"force", "register", "implement"}
           /\ Proceed(c, << >>) => todo' = [todo EXCEPT ![c] = Tail(s)]
           /\ \A x : Proceed(c, <<x>>) => todo' = [todo EXCEPT ![c] = <<x>> \o Tail(s)]
<1>1. /\ s \in Seq(TypedSteps) /\ s # << >> /\ ShapeOK(s) /\ CacheOK(s)
      /\ Doomed(s) \/ Destined(s, g)
  BY OpReady DEF Ready
<1>2. /\ Head(s) = s[1] /\ s[1] \in TypedSteps /\ Len(s) \in Nat \ {0}
      /\ << >> \o Tail(s) = Tail(s)
  BY <1>1, TailFacts
<1>3. 1 \in 1 .. Len(s)
  BY <1>2
<1>4. s[1].do \notin {"force", "register", "implement"}
  BY <1>1, <1>3 DEF ShapeOK
<1>5. Next1(c) = s[1] /\ s[1].name \in Names
  BY <1>2 DEF Next1, TypedSteps, Steps
<1>6. Proceed(c, << >>) => todo' = [todo EXCEPT ![c] = Tail(s)]
  BY <1>2 DEF Proceed
<1>7. \A x : Proceed(c, <<x>>) => todo' = [todo EXCEPT ![c] = <<x>> \o Tail(s)]
  BY DEF Proceed
<1> QED BY <1>1, <1>2, <1>3, <1>4, <1>5, <1>6, <1>7

\* No store call fails.
LEMMA NoFault == ASSUME SerialInv, Undisturbed PROVE ~Fault
BY DEF SerialInv, TypeInv, ClientTypeOK, Undisturbed, Fault

\* The first step of a path.
LEMMA FirstFollows ==
    ASSUME NEW s, Len(s) \in Nat \ {0}, NEW f, PathOf(s, f)
    PROVE  /\ Follows(s[1], f[1], f[2]) /\ f[1] = StatusOf(s[1].name)
           /\ f[1] \in Place /\ f[2] \in Place
<1>1. 1 \in 1 .. Len(s) /\ 1 + 1 = 2 /\ 1 \in 1 .. Len(s) + 1 /\ 2 \in 1 .. Len(s) + 1
  OBVIOUS
<1> QED BY <1>1 DEF PathOf

\* A reload.
LEMMA ReloadOK ==
    ASSUME SerialInv, Undisturbed, TypeInv', NEW c \in Clients, ReloadCache(c)
    PROVE  SerialInv'
<1>1. PICK s, g : s = todo[c] /\ g = goal[c]
  OBVIOUS
<1>2. /\ ~Idle(c) /\ Next1(c).do \in {"reload", "refresh"} /\ Proceed(c, << >>)
      /\ cache' = rows
      /\ UNCHANGED <<rows, topics, content, file, view, dialog, goal, ops>>
  BY NoFault DEF ReloadCache, Load, List
<1>3. /\ s \in Seq(TypedSteps) /\ Len(s) \in Nat \ {0} /\ Next1(c) = s[1]
      /\ todo' = [todo EXCEPT ![c] = Tail(s)]
  BY <1>1, <1>2, StepFacts
<1>4. StatusOf(s[1].name)' = StatusOf(s[1].name)
  BY <1>2 DEF StatusOf
<1>5. \A f : PathOf(s, f) => StatusOf(s[1].name)' = f[2]
  <2> TAKE f
  <2> HAVE PathOf(s, f)
  <2>1. Follows(s[1], f[1], f[2]) /\ f[1] = StatusOf(s[1].name)
    BY <1>3, FirstFollows
  <2> QED BY <2>1, <1>2, <1>3, <1>4 DEF Follows
<1>6. MergedDone => rows'[dialog.name] # NoPlan /\ rows'[dialog.name].status = "done"
  BY <1>1, <1>2, DialogFacts
<1>7. s[1].do # "transition" /\ goal'[c] = g /\ cache' = rows'
  BY <1>1, <1>2, <1>3
<1> QED BY <1>1, <1>2, <1>3, <1>4, <1>5, <1>6, <1>7, TailOK

\* The file is written.
LEMMA WriteFileOK ==
    ASSUME SerialInv, Undisturbed, TypeInv', NEW c \in Goroutines, WriteFile(c)
    PROVE  SerialInv'
<1>1. PICK s, g : s = todo[c] /\ g = goal[c] /\ c \in Clients
  BY ClientNames
<1>2. /\ ~Idle(c) /\ Next1(c).do = "write" /\ Proceed(c, << >>)
      /\ UNCHANGED <<rows, topics, content, cache, view, dialog, goal, ops, faults>>
  BY DEF WriteFile
<1>3. /\ s \in Seq(TypedSteps) /\ Len(s) \in Nat \ {0} /\ Next1(c) = s[1] /\ 1 \in 1 .. Len(s)
      /\ todo' = [todo EXCEPT ![c] = Tail(s)]
      /\ ShapeOK(s) /\ CacheOK(s)
  BY <1>1, <1>2, StepFacts
<1>4. Len(s) = 1
  BY <1>2, <1>3 DEF ShapeOK
<1>5. cache = rows
  <2>1. \A i \in 1 .. Len(s) : i = 1
    BY <1>4
  <2>2. \A i \in 1 .. Len(s) : s[i].do \notin Reloads
    BY <2>1, <1>2, <1>3 DEF Reloads
  <2> QED BY <2>2, <1>2, <1>3 DEF CacheOK, Ahead
<1>6. StatusOf(s[1].name)' = StatusOf(s[1].name)
  BY <1>2 DEF StatusOf
<1>7. \A f : PathOf(s, f) => StatusOf(s[1].name)' = f[2]
  <2> TAKE f
  <2> HAVE PathOf(s, f)
  <2>1. Follows(s[1], f[1], f[2]) /\ f[1] = StatusOf(s[1].name)
    BY <1>3, FirstFollows
  <2> QED BY <2>1, <1>2, <1>3, <1>6 DEF Follows
<1>8. MergedDone => rows'[dialog.name] # NoPlan /\ rows'[dialog.name].status = "done"
  BY <1>1, <1>2, DialogFacts
<1>9. s[1].do # "transition" /\ goal'[c] = g /\ cache' = rows'
  BY <1>1, <1>2, <1>3, <1>5
<1> QED BY <1>1, <1>2, <1>3, <1>6, <1>7, <1>8, <1>9, TailOK

\* A doomed operation has not written yet.
LEMMA DoomedHead ==
    ASSUME NEW s, Doomed(s)
    PROVE  s[1].do \in {"transition", "backfill", "update"}
<1>1. PICK i \in 1 .. Len(s) : /\ s[i].do = "transition"
                               /\ \A j \in 1 .. i - 1 : s[j].do \in {"backfill", "update"}
  BY DEF Doomed
<1>2. i = 1 \/ 1 \in 1 .. i - 1
  BY <1>1
<1> QED BY <1>1, <1>2

\* What a statement needs, and the status it leaves.
LEMMA StatementFollows ==
    ASSUME NEW step, NEW a, NEW b, Follows(step, a, b)
    PROVE  /\ step.do \in {"update", "content", "rename"} => a # "none"
           /\ step.do = "create" => a = "none"
           /\ step.do \in {"update", "create"} => b = MapLegacyStatus(step.arg.status)
           /\ step.do \in {"topic", "content"} => b = a
           /\ step.do = "rename" => b = "none"
<1>1. step.do = "update" => a # "none" /\ b = MapLegacyStatus(step.arg.status)
  BY DEF Follows
<1>2. step.do = "create" => a = "none" /\ b = MapLegacyStatus(step.arg.status)
  BY DEF Follows
<1>3. step.do = "content" => a # "none" /\ b = a
  BY DEF Follows
<1>4. step.do = "rename" => a # "none" /\ b = "none"
  BY DEF Follows
<1>5. step.do = "topic" => b = a
  BY DEF Follows
<1> QED BY <1>1, <1>2, <1>3, <1>4, <1>5

\* No statement of an operation that runs alone is refused.
LEMMA NeverRefused ==
    ASSUME SerialInv, NEW c \in Clients, ~Idle(c), Next1(c).do \in Writes
    PROVE  Accepted(Next1(c))
<1>1. PICK s, g : s = todo[c] /\ g = goal[c]
  OBVIOUS
<1>2. /\ Len(s) \in Nat \ {0} /\ Next1(c) = s[1]
      /\ CacheOK(s) /\ (Doomed(s) \/ Destined(s, g))
  BY <1>1, StepFacts
<1>3. CASE s[1].do = "rename"
  <2>1. RenameOK(s[1].name, s[1].arg)
    BY <1>2, <1>3 DEF CacheOK, Ahead
  <2> QED BY <2>1, <1>2, <1>3 DEF Accepted
<1>4. CASE s[1].do = "topic"
  BY <1>2, <1>4 DEF Accepted
<1>5. CASE Doomed(s)
  <2>1. s[1].do = "update"
    BY <1>2, <1>5, DoomedHead DEF Writes
  <2> QED BY <2>1, <1>2, <1>5 DEF Doomed, Accepted, UpdateOK
<1>6. CASE Destined(s, g) /\ s[1].do \in {"update", "create", "content"}
  <2>1. PICK f : PathOf(s, f)
    BY <1>6 DEF Destined
  <2>2. Follows(s[1], f[1], f[2]) /\ f[1] = StatusOf(s[1].name)
    BY <1>2, <2>1, FirstFollows
  <2>3. CASE s[1].do \in {"update", "content"}
    <3>1. StatusOf(s[1].name) # "none"
      BY <2>2, <2>3, StatementFollows
    <3>2. rows[s[1].name] # NoPlan
      BY <3>1 DEF StatusOf
    <3> QED BY <2>3, <3>2, <1>2 DEF Accepted, UpdateOK, SetContentOK
  <2>4. CASE s[1].do = "create"
    <3>1. StatusOf(s[1].name) = "none"
      BY <2>2, <2>4, StatementFollows
    <3>2. s[1].name \in Names /\ rows \in [Names -> Meta \cup {NoPlan}]
      BY <1>1, StepFacts DEF SerialInv, TypeInv, StateTypeOK, StoreTypeOK
    <3>3. rows[s[1].name] = NoPlan
      <4>1. SUFFICES ASSUME rows[s[1].name] # NoPlan PROVE FALSE
        OBVIOUS
      <4>2. rows[s[1].name].status \in Status \cup LegacyStatus
        BY <3>2, <4>1, EntryTyped
      <4>3. StatusOf(s[1].name) \in Status
        BY <4>1, <4>2, Mapped DEF StatusOf
      <4> QED BY <3>1, <4>3 DEF Status
    <3> QED BY <2>4, <3>3, <1>2 DEF Accepted, CreateOK
  <2> QED BY <1>6, <2>3, <2>4
<1> QED BY <1>2, <1>3, <1>4, <1>5, <1>6 DEF Writes

\* Nothing is left after the last step.
LEMMA TailEmpty ==
    ASSUME NEW S, NEW s \in Seq(S), Len(s) = 1
    PROVE  Tail(s) = << >>
<1>1. PICK t : t = Tail(s)
  OBVIOUS
<1>2. t \in Seq(S) /\ Len(t) = Len(s) - 1
  <2>1. s # << >>
    OBVIOUS
  <2> QED BY <1>1, <2>1, TailFacts
<1>3. Len(t) = 0
  BY <1>2
<1>4. t = << >>
  BY <1>2, <1>3
<1> QED BY <1>1, <1>4

\* A statement.
LEMMA WriteOK ==
    ASSUME SerialInv, Undisturbed, TypeInv', NEW c \in Clients, Write(c)
    PROVE  SerialInv'
<1>1. PICK s, g : s = todo[c] /\ g = goal[c]
  OBVIOUS
<1>2. /\ ~Idle(c) /\ Next1(c).do \in Writes
      /\ Accepted(Next1(c)) /\ Execute(Next1(c)) /\ Proceed(c, << >>)
      /\ UNCHANGED <<goal, faults, cache, file, view, dialog, ops>>
  <2>1. ~Idle(c) /\ Next1(c).do \in Writes
    BY DEF Write
  <2> QED BY <2>1, NeverRefused, NoFault DEF Write
<1> DEFINE x == s[1]
           n == x.name
<1>3. /\ s \in Seq(TypedSteps) /\ Len(s) \in Nat \ {0} /\ Next1(c) = x /\ n \in Names
      /\ todo' = [todo EXCEPT ![c] = Tail(s)] /\ x \in TypedSteps /\ 1 \in 1 .. Len(s)
      /\ ShapeOK(s) /\ CacheOK(s)
  BY <1>1, <1>2, StepFacts
<1>4. /\ rows \in [Names -> Meta \cup {NoPlan}] /\ ArgOK(x)
  BY <1>3 DEF SerialInv, TypeInv, StateTypeOK, StoreTypeOK, TypedSteps
<1>5. goal'[c] = g /\ UNCHANGED <<view, dialog>> /\ cache' = cache
  BY <1>1, <1>2
<1>6. MergedDone => /\ dialog.name \in Names
                    /\ rows[dialog.name] # NoPlan /\ rows[dialog.name].status = "done"
                    /\ n = dialog.name => /\ x.do = "update" => x.arg.status = "done"
                                          /\ x.do # "rename"
  <2>1. MergedDone => dialog.name \in Names
    BY DEF MergedDone, SerialInv, TypeInv, StateTypeOK
  <2> QED BY <2>1, <1>1, <1>2, DialogFacts
<1>7. CASE x.do \in {"update", "create"}
  <2>1. rows' = [rows EXCEPT ![n] = x.arg] /\ x.arg \in Meta /\ x.arg # NoPlan
    <3>1. x.arg \in Meta
      BY <1>4, <1>7 DEF ArgOK
    <3>2. rows' = [rows EXCEPT ![n] = x.arg]
      BY <1>2, <1>3, <1>7 DEF Execute, Update, Create
    <3> QED BY <3>1, <3>2, EntryIsThere
  <2>2. rows'[n] = x.arg /\ \A m \in Names \ {n} : rows'[m] = rows[m]
    BY <2>1, <1>3, <1>4
  <2>3. StatusOf(n)' = MapLegacyStatus(x.arg.status)
    BY <2>1, <2>2 DEF StatusOf
  <2>4. \A f : PathOf(s, f) => StatusOf(s[1].name)' = f[2]
    <3> TAKE f
    <3> HAVE PathOf(s, f)
    <3>1. Follows(s[1], f[1], f[2])
      BY <1>3, FirstFollows
    <3> QED BY <3>1, <2>3, <1>7, StatementFollows
  <2>5. Doomed(s) => /\ s[1].do # "transition"
                     /\ s[1].do \notin Reloads => UNCHANGED StatusOf(s[1].name)
                     /\ cache' = rows'
    <3> HAVE Doomed(s)
    <3>1. x.do = "update"
      BY <1>7, DoomedHead
    <3>2. Ahead(x) /\ MapLegacyStatus(x.arg.status) = StatusOf(n)
      BY <3>1 DEF Doomed
    <3>3. cache = [rows EXCEPT ![n] = x.arg]
      BY <3>1, <3>2 DEF Ahead
    <3> QED BY <3>1, <3>2, <3>3, <2>1, <2>3, <1>5
  <2>6. \/ cache' = rows'
        \/ /\ \E j \in 2 .. Len(s) : s[j].do \in Reloads
           /\ s[1].do \in {"update", "topic", "content"}
    <3>1. CASE Ahead(x)
      BY <3>1, <2>1, <1>5, <1>7 DEF Ahead
    <3>2. CASE \E i \in 1 .. Len(s) : s[i].do \in Reloads /\ x.do # "create"
      <4>1. PICK i \in 1 .. Len(s) : s[i].do \in Reloads
        BY <3>2
      <4>2. i # 1
        BY <4>1, <1>7 DEF Reloads
      <4>3. i \in 2 .. Len(s)
        BY <4>2
      <4> QED BY <4>1, <4>3, <3>2, <1>7
    <3> QED BY <3>1, <3>2, <1>3, <1>7 DEF CacheOK
  <2>7. MergedDone => rows'[dialog.name] # NoPlan /\ rows'[dialog.name].status = "done"
    <3> HAVE MergedDone
    <3>1. CASE n # dialog.name
      BY <3>1, <2>2, <1>6
    <3>2. CASE n = dialog.name
      <4>1. x.do # "create"
        BY <3>2, <1>2, <1>3, <1>6 DEF Accepted, CreateOK
      <4> QED BY <4>1, <3>2, <2>1, <2>2, <1>6, <1>7
    <3> QED BY <3>1, <3>2
  <2> QED BY <2>4, <2>5, <2>6, <2>7, <1>1, <1>2, <1>3, <1>5, TailOK
<1>8. CASE x.do \in {"topic", "content"}
  <2>1. rows' = rows
    BY <1>2, <1>3, <1>8 DEF Execute, SetContent, CreateTopic
  <2>2. StatusOf(s[1].name)' = StatusOf(s[1].name)
    BY <2>1 DEF StatusOf
  <2>3. \A f : PathOf(s, f) => StatusOf(s[1].name)' = f[2]
    <3> TAKE f
    <3> HAVE PathOf(s, f)
    <3>1. Follows(s[1], f[1], f[2]) /\ f[1] = StatusOf(s[1].name)
      BY <1>3, FirstFollows
    <3> QED BY <3>1, <2>2, <1>8, StatementFollows
  <2>4. ~Doomed(s)
    BY <1>8, DoomedHead
  <2>5. \/ cache' = rows'
        \/ /\ \E j \in 2 .. Len(s) : s[j].do \in Reloads
           /\ s[1].do \in {"update", "topic", "content"}
    <3>1. CASE cache = rows
      BY <3>1, <2>1, <1>5
    <3>2. CASE \E i \in 1 .. Len(s) : s[i].do \in Reloads
      <4>1. PICK i \in 1 .. Len(s) : s[i].do \in Reloads
        BY <3>2
      <4>2. i # 1
        BY <4>1, <1>8 DEF Reloads
      <4>3. i \in 2 .. Len(s)
        BY <4>2
      <4> QED BY <4>1, <4>3, <1>8
    <3> QED BY <3>1, <3>2, <1>3, <1>8 DEF CacheOK, Ahead
  <2>6. MergedDone => rows'[dialog.name] # NoPlan /\ rows'[dialog.name].status = "done"
    BY <2>1, <1>6
  <2> QED BY <2>3, <2>4, <2>5, <2>6, <1>1, <1>2, <1>3, <1>5, TailOK
<1>9. CASE x.do = "rename"
  <2> DEFINE new == x.arg
  <2>1. Len(s) = 1
    BY <1>3, <1>9 DEF ShapeOK
  <2>2. Tail(s) = << >>
    BY <2>1, <1>3, TailEmpty
  <2>3. /\ rows' = [rows EXCEPT ![new] = rows[n], ![n] = NoPlan]
        /\ rows[n] # NoPlan /\ rows[new] = NoPlan /\ new \in Names
    BY <1>2, <1>3, <1>4, <1>9 DEF Execute, Rename, Accepted, RenameOK, ArgOK
  <2>4. cache = [rows EXCEPT ![new] = rows[n], ![n] = NoPlan]
    BY <1>3, <1>9 DEF CacheOK, Ahead
  <2>5. MergedDone => rows'[dialog.name] # NoPlan /\ rows'[dialog.name].status = "done"
    <3> HAVE MergedDone
    <3>1. dialog.name # n /\ dialog.name # new /\ dialog.name \in Names
      BY <2>3, <1>6, <1>9
    <3>2. rows'[dialog.name] = rows[dialog.name]
      BY <3>1, <2>3, <1>4
    <3> QED BY <3>2, <1>6
  <2>6. todo' = [todo EXCEPT ![c] = << >>]
    BY <2>2, <1>3
  <2>7. DialogOK'
    BY <2>5, <2>6, <1>2, DialogStep
  <2>8. cache' = rows'
    BY <2>3, <2>4, <1>5
  <2> QED BY <2>6, <2>7, <2>8, <1>1, <1>2, <1>5, StepOK
<1> QED BY <1>2, <1>3, <1>7, <1>8, <1>9 DEF Writes

\* One step that has to leave the statuses alone is an operation.
LEMMA SingleReady ==
    ASSUME TypeInv, NEW x \in TypedSteps, cache = rows,
           \/ x.do = "reload"
           \/ x.do \in {"fetch", "write"} /\ x.mode = "must",
           NEW g, g # None => g.name = x.name /\ g.status = StatusOf(x.name)
    PROVE  Ready(One(x), g)
<1>1. PICK u : u = One(x)
  OBVIOUS
<1>2. u \in Seq(TypedSteps) /\ Len(u) = 1 /\ u[1] = x
  BY <1>1 DEF One
<1>3. \A i \in 1 .. Len(u) : i = 1
  BY <1>2
<1>4. x.mode \in Mode /\ x.name \in Names
  BY DEF TypedSteps, Steps
<1>5. ShapeOK(u)
  BY <1>2, <1>3 DEF ShapeOK
<1>6. CacheOK(u)
  BY <1>2 DEF CacheOK
<1>7. StatusOf(u[1].name) \in Place
  BY <1>2, <1>4, PlaceTyped
<1>8. \A i \in 1 .. Len(u) : u[i].do \notin {"transition", "update", "create", "content", "rename"}
  BY <1>2, <1>3
<1>9. Destined(u, g)
  <2>1. Len(u) \in Nat \ {0}
    BY <1>2
  <2>2. g # None => g.name = u[1].name /\ g.status = StatusOf(u[1].name)
    BY <1>2
  <2> QED BY <2>1, <2>2, <1>7, <1>8, StillDestined
<1>10. u # << >>
  BY <1>2
<1> QED BY <1>1, <1>2, <1>5, <1>6, <1>8, <1>9, <1>10 DEF Ready

\* What an error leaves of an operation: nothing, or its reload.
LEMMA LeftOver ==
    ASSUME NEW s \in Seq(TypedSteps), s # << >>, ShapeOK(s)
    PROVE  \/ Unskippable(Tail(s)) = << >>
           \/ \E x \in TypedSteps : /\ Unskippable(Tail(s)) = One(x)
                                    /\ x.do = "reload" /\ x.name = s[1].name
<1>1. PICK t : t = Tail(s)
  OBVIOUS
<1>2. SUFFICES ASSUME t # << >>, t[Len(t)].mode = "always"
               PROVE  \E x \in TypedSteps : /\ Unskippable(t) = One(x)
                                            /\ x.do = "reload" /\ x.name = s[1].name
  BY <1>1 DEF Unskippable
<1>3. t \in Seq(TypedSteps) /\ Len(t) \in Nat \ {0}
  BY <1>1, <1>2, TailShape
<1>4. ShapeOK(t) /\ t[1].name = s[1].name
  BY <1>1, <1>2, TailShape
<1>5. Len(t) \in 1 .. Len(t)
  BY <1>3
<1>6. t[Len(t)] \in TypedSteps
  BY <1>3, <1>5
<1>7. t[Len(t)].do = "reload" /\ t[Len(t)].name = t[1].name
  BY <1>2, <1>4, <1>5 DEF ShapeOK
<1>8. Unskippable(t) = One(t[Len(t)])
  BY <1>2 DEF Unskippable, One
<1> QED BY <1>4, <1>6, <1>7, <1>8

\* An error ends an operation whose changes the cache shows.
LEMMA GiveUpOK ==
    ASSUME SerialInv, TypeInv', NEW c \in Clients, ~Idle(c), Next1(c).mode = "must",
           GiveUp(c), cache = rows, UNCHANGED <<rows, cache, view, dialog>>
    PROVE  SerialInv'
<1>1. PICK s, g : s = todo[c] /\ g = goal[c]
  OBVIOUS
<1>2. /\ s \in Seq(TypedSteps) /\ s # << >> /\ ShapeOK(s)
  BY <1>1, StepFacts
<1>3. PICK u : u = Unskippable(Tail(s))
  OBVIOUS
<1>4. todo' = [todo EXCEPT ![c] = u] /\ goal' = [goal EXCEPT ![c] = None]
  BY <1>1, <1>3 DEF GiveUp
<1>5. goal'[c] = None
  BY <1>4 DEF SerialInv, TypeInv, ClientTypeOK
<1>6. MergedDone => rows'[dialog.name] # NoPlan /\ rows'[dialog.name].status = "done"
  BY <1>1, DialogFacts
<1>7. CASE u = << >>
  <2>1. DialogOK'
    BY <1>4, <1>6, <1>7, DialogStep
  <2> QED BY <2>1, <1>4, <1>5, <1>7, StepOK
<1>8. ASSUME NEW x \in TypedSteps, u = One(x), x.do = "reload" PROVE SerialInv'
  <2>1. Ready(One(x), None)
    BY <1>8, SingleReady DEF SerialInv
  <2>2. Ready(u, None)
    BY <2>1, <1>8
  <2>3. Ready(u, None)'
    BY <2>2, ReadyStays
  <2>4. /\ \A i \in 1 .. Len(u) : u[i].do = "transition" => u[i].arg \in SentinelEvent
        /\ u[1].do \notin {"update", "rename"}
    <3>1. Len(u) = 1 /\ u[1] = x
      BY <1>8 DEF One
    <3>2. \A i \in 1 .. Len(u) : i = 1
      BY <3>1
    <3> QED BY <3>1, <3>2, <1>8
  <2>5. DialogOK'
    BY <1>4, <1>6, <2>4, DialogStep
  <2> QED BY <2>3, <2>5, <1>4, <1>5, StepOK, Zenon DEF Ready
<1> QED BY <1>2, <1>3, <1>7, <1>8, LeftOver

\* A read or a backfill that goes on with a statement.
LEMMA HeadShape ==
    ASSUME NEW s \in Seq(TypedSteps), s # << >>, ShapeOK(s), NEW x \in TypedSteps,
           x.name = s[1].name, x.do = "update", x.mode = s[1].mode,
           s[1].do \in {"transition", "backfill"}, NEW u, u = <<x>> \o Tail(s)
    PROVE  /\ u \in Seq(TypedSteps) /\ u # << >> /\ Len(u) = Len(s) /\ Len(s) \in Nat \ {0}
           /\ u[1] = x /\ \A i \in 2 .. Len(s) : u[i] = s[i]
           /\ ShapeOK(u)
<1>1. u \in Seq(TypedSteps) /\ Len(u) = Len(s) /\ u[1] = x
  BY HeadReplaced
<1>2. \A i \in 2 .. Len(s) : u[i] = s[i]
  BY HeadReplaced
<1>3. Len(s) \in Nat \ {0}
  BY TailFacts
<1> DEFINE m == Len(s)
<1>4. /\ m \in Nat \ {0} /\ Len(u) = m /\ \A i \in 2 .. m : u[i] = s[i]
      /\ \A i \in 1 .. m : i = 1 \/ i \in 2 .. m
      /\ 1 \in 1 .. m /\ \A i \in 2 .. m : i \in 1 .. m
  BY <1>1, <1>2, <1>3
<1> HIDE DEF m
<1>5. ASSUME NEW i \in 1 .. m
      PROVE  /\ s[i].name = s[1].name
             /\ s[i].do \notin {"force", "register", "implement"}
             /\ s[i].do \in {"update", "create", "rename", "fetch", "write"} => i = 1
             /\ s[i].do = "transition" => \E j \in i + 1 .. m : s[j].do \in Reloads
             /\ s[i].do = "backfill" /\ i > 1 => s[i - 1].do \in Reloads
             /\ s[i].do = "backfill" /\ s[i].mode = "soft" => i = m
             /\ s[i].do = "spawn" => i = m /\ s[i].mode = "must"
             /\ s[i].mode = "always" => i = m /\ s[i].do = "reload"
             /\ s[i].do = "transition" /\ s[i].mode = "soft" =>
                   \A j \in i + 1 .. m : s[j].do \in {"reload", "backfill", "spawn"}
  BY DEF ShapeOK, m
<1>6. ASSUME NEW i \in 2 .. m
      PROVE  /\ u[i].name = u[1].name
             /\ u[i].do \notin {"force", "register", "implement"}
             /\ u[i].do \notin {"update", "create", "rename", "fetch", "write"}
             /\ u[i].do = "transition" => \E j \in i + 1 .. m : u[j].do \in Reloads
             /\ u[i].do = "backfill" => u[i - 1].do \in Reloads
             /\ u[i].do = "backfill" /\ u[i].mode = "soft" => i = m
             /\ u[i].do = "spawn" => i = m /\ u[i].mode = "must"
             /\ u[i].mode = "always" => i = m /\ u[i].do = "reload"
             /\ u[i].do = "transition" /\ u[i].mode = "soft" =>
                   \A j \in i + 1 .. m : u[j].do \in {"reload", "backfill", "spawn"}
  <2>1. i \in 1 .. m /\ u[i] = s[i] /\ i # 1 /\ i > 1
    BY <1>4
  <2>2. \A j \in i + 1 .. m : u[j] = s[j]
    <3> TAKE j \in i + 1 .. m
    <3>1. j \in 2 .. m
      OBVIOUS
    <3> QED BY <3>1, <1>4
  <2>3. /\ u[i].name = u[1].name
        /\ u[i].do \notin {"force", "register", "implement"}
        /\ u[i].do \notin {"update", "create", "rename", "fetch", "write"}
        /\ u[i].do = "backfill" /\ u[i].mode = "soft" => i = m
        /\ u[i].do = "spawn" => i = m /\ u[i].mode = "must"
        /\ u[i].mode = "always" => i = m /\ u[i].do = "reload"
    <3>1. /\ s[i].name = s[1].name
          /\ s[i].do \notin {"force", "register", "implement"}
          /\ i > 1 => s[i].do \notin {"update", "create", "rename", "fetch", "write"}
          /\ s[i].do = "backfill" /\ s[i].mode = "soft" => i = m
          /\ s[i].do = "spawn" => i = m /\ s[i].mode = "must"
          /\ s[i].mode = "always" => i = m /\ s[i].do = "reload"
      BY ONLY <2>1, <1>5
    <3> QED BY <3>1, <2>1, <1>1
  <2>4. /\ u[i].do = "transition" => \E j \in i + 1 .. m : u[j].do \in Reloads
        /\ u[i].do = "transition" /\ u[i].mode = "soft" =>
                   \A j \in i + 1 .. m : u[j].do \in {"reload", "backfill", "spawn"}
    <3>1. /\ s[i].do = "transition" => \E j \in i + 1 .. m : s[j].do \in Reloads
          /\ s[i].do = "transition" /\ s[i].mode = "soft" =>
                   \A j \in i + 1 .. m : s[j].do \in {"reload", "backfill", "spawn"}
      BY ONLY <2>1, <1>5
    <3>2. u[i].do = "transition" => \E j \in i + 1 .. m : u[j].do \in Reloads
      BY ONLY <3>1, <2>1, <2>2
    <3>3. u[i].do = "transition" /\ u[i].mode = "soft" =>
                   \A j \in i + 1 .. m : u[j].do \in {"reload", "backfill", "spawn"}
      BY ONLY <3>1, <2>1, <2>2
    <3> QED BY <3>2, <3>3
  <2>5. ASSUME u[i].do = "backfill" PROVE u[i - 1].do \in Reloads
    <3>1. s[i - 1].do \in Reloads
      BY <2>1, <2>5, <1>5
    <3>2. i - 1 # 1
      BY <3>1 DEF Reloads
    <3>3. i - 1 \in 2 .. m
      BY <3>2, <1>4
    <3> QED BY <3>1, <3>3, <1>4
  <2> QED BY <2>3, <2>4, <2>5
<1>7. s[1].mode # "always"
  BY <1>4, <1>5
<1>8. \A i \in 1 .. m : i # 1 => i \in 2 .. m /\ i > 1
  BY <1>4
<1>9. ShapeOK(u)
  BY <1>1, <1>4, <1>6, <1>7, <1>8 DEF ShapeOK
<1>10. u # << >>
  BY <1>1, <1>3
<1> QED BY <1>1, <1>2, <1>3, <1>9, <1>10

\* Its path.
LEMMA HeadDestined ==
    ASSUME NEW s, Len(s) \in Nat \ {0}, NEW u, Len(u) = Len(s), u[1].name = s[1].name,
           \A i \in 2 .. Len(s) : u[i] = s[i],
           NEW g, NEW f, PathOf(s, f), Follows(u[1], f[1], f[2]),
           g # None => g.name = s[1].name /\ g.status = f[Len(s) + 1]
    PROVE  Destined(u, g)
<1>1. /\ f \in [1 .. Len(u) + 1 -> Place] /\ f[1] = StatusOf(u[1].name)
      /\ \A i \in 1 .. Len(s) : Follows(s[i], f[i], f[i + 1])
  BY DEF PathOf
<1>2. \A i \in 1 .. Len(u) : Follows(u[i], f[i], f[i + 1])
  <2> TAKE i \in 1 .. Len(u)
  <2>1. CASE i = 1
    <3>1. f[i + 1] = f[2]
      BY <2>1
    <3> QED BY <2>1, <3>1
  <2>2. CASE i # 1
    <3>1. i \in 2 .. Len(s) /\ i \in 1 .. Len(s)
      BY <2>2
    <3> QED BY <3>1, <1>1
  <2> QED BY <2>1, <2>2
<1>3. PathOf(u, f)
  BY <1>1, <1>2 DEF PathOf
<1> QED BY <1>3 DEF Destined

\* A backfill, which finds the cache fresh.
LEMMA BackfillOK ==
    ASSUME SerialInv, Undisturbed, TypeInv', NEW c \in Clients, BackfillBranch(c)
    PROVE  SerialInv'
<1>1. PICK s, g : s = todo[c] /\ g = goal[c]
  OBVIOUS
<1> DEFINE n == s[1].name
<1>2. /\ ~Idle(c) /\ Next1(c).do = "backfill"
      /\ UNCHANGED <<rows, topics, content, file, view, dialog, ops, faults>>
  BY DEF BackfillBranch
<1>3. /\ s \in Seq(TypedSteps) /\ s # << >> /\ Len(s) \in Nat \ {0} /\ Next1(c) = s[1]
      /\ 1 \in 1 .. Len(s) /\ s[1] \in TypedSteps /\ n \in Names
      /\ ShapeOK(s) /\ CacheOK(s) /\ (Doomed(s) \/ Destined(s, g))
  BY <1>1, <1>2, StepFacts
<1>4. s[1].do = "backfill" /\ s[1].mode \in Mode
  BY <1>2, <1>3 DEF TypedSteps, Steps
<1>5. cache = rows
  BY <1>3, <1>4 DEF CacheOK, Ahead
<1>6. MergedDone => rows'[dialog.name] # NoPlan /\ rows'[dialog.name].status = "done"
  BY <1>1, <1>2, DialogFacts
<1>7. StatusOf(n)' = StatusOf(n)
  BY <1>2 DEF StatusOf
<1>8. \A f : PathOf(s, f) => f[1] = StatusOf(n) /\ f[2] = f[1]
  <2> TAKE f
  <2> HAVE PathOf(s, f)
  <2>1. Follows(s[1], f[1], f[2]) /\ f[1] = StatusOf(s[1].name)
    BY <1>3, FirstFollows
  <2> QED BY <2>1, <1>4 DEF Follows
<1>9. CASE cache[n] = NoPlan /\ GiveUp(c) /\ UNCHANGED cache
  <2>1. CASE s[1].mode = "must"
    BY <2>1, <1>2, <1>3, <1>5, <1>9, GiveUpOK
  <2>2. CASE s[1].mode = "soft"
    <3>1. Len(s) = 1
      BY <2>2, <1>3, <1>4 DEF ShapeOK
    <3>2. Tail(s) = << >>
      BY <3>1, <1>3, TailEmpty
    <3>3. todo' = [todo EXCEPT ![c] = << >>] /\ goal'[c] = g
      BY <2>2, <3>2, <1>1, <1>3, <1>9 DEF GiveUp
    <3>4. DialogOK'
      BY <3>3, <1>2, <1>6, DialogStep
    <3> QED BY <3>3, <3>4, <1>1, <1>2, <1>5, <1>9, StepOK
  <2>3. s[1].mode # "always"
    BY <1>3, <1>4 DEF ShapeOK
  <2> QED BY <2>1, <2>2, <2>3, <1>4 DEF Mode
<1>10. CASE Proceed(c, << >>) /\ UNCHANGED <<cache, goal>>
  <2>1. todo' = [todo EXCEPT ![c] = Tail(s)] /\ goal'[c] = g /\ cache' = rows'
    BY <1>1, <1>2, <1>5, <1>10, StepFacts
  <2>2. Doomed(s) => /\ s[1].do # "transition"
                     /\ s[1].do \notin Reloads => UNCHANGED StatusOf(s[1].name)
                     /\ cache' = rows'
    BY <2>1, <1>4, <1>7
  <2>3. \A f : PathOf(s, f) => StatusOf(s[1].name)' = f[2]
    BY <1>7, <1>8
  <2> QED BY <2>1, <2>2, <2>3, <1>1, <1>2, <1>6, TailOK
<1>11. CASE /\ cache[n] # NoPlan
            /\ cache' = [cache EXCEPT ![n] = [cache[n] EXCEPT !.branch = "plan"]]
            /\ Proceed(c, << Step("update", n, [cache[n] EXCEPT !.branch = "plan"],
                                  Next1(c).mode) >>)
            /\ UNCHANGED goal
  <2>1. PICK entry : entry = [cache[n] EXCEPT !.branch = "plan"]
    OBVIOUS
  <2>2. rows[n] # NoPlan /\ rows[n] \in Meta /\ StatusOf(n) \in Status
    BY <1>3, <1>5, <1>11, PlaceTyped DEF SerialInv
  <2>3. entry \in Meta /\ entry.status = rows[n].status
    BY <2>1, <2>2, <1>5, ReplacedTyped DEF Meta
  <2>4. PICK x : x = Step("update", n, entry, s[1].mode)
    OBVIOUS
  <2>5. x.name = n /\ x.do = "update" /\ x.arg = entry /\ x.mode = s[1].mode
    BY <2>4 DEF Step
  <2>6. x \in TypedSteps
    <3>1. << Step("update", n, entry, s[1].mode) >> \in Seq(TypedSteps)
      BY <2>3, <1>3, <1>4, WritesTyped
    <3> QED BY <3>1, <2>4
  <2>7. PICK u : u = <<x>> \o Tail(s)
    OBVIOUS
  <2>8. /\ u \in Seq(TypedSteps) /\ u # << >> /\ Len(u) = Len(s)
        /\ u[1] = x /\ \A i \in 2 .. Len(s) : u[i] = s[i]
    BY <2>5, <2>6, <2>7, <1>3, <1>4, HeadShape
  <2>9. ShapeOK(u)
    BY <2>5, <2>6, <2>7, <1>3, <1>4, HeadShape
  <2>10. todo' = [todo EXCEPT ![c] = u] /\ goal'[c] = g
    <3>1. x = Step("update", n, [cache[n] EXCEPT !.branch = "plan"], Next1(c).mode)
      BY ONLY <2>1, <2>4, <1>3
    <3>2. Proceed(c, <<x>>) /\ UNCHANGED goal
      BY ONLY <3>1, <1>11
    <3>3. todo' = [todo EXCEPT ![c] = u]
      BY ONLY <3>2, <2>7, <1>1, <1>2 DEF Proceed
    <3> QED BY ONLY <3>2, <3>3, <1>1
  <2>11. Ahead(u[1])'
    BY <2>1, <2>5, <2>8, <1>2, <1>5, <1>11 DEF Ahead
  <2>12. CacheOK(u)'
    BY <2>11 DEF CacheOK
  <2>13. MapLegacyStatus(entry.status) = StatusOf(n)
    BY <2>2, <2>3 DEF StatusOf
  <2>14. ASSUME Destined(s, g) PROVE Destined(u, g)'
    <3>1. PICK f : /\ PathOf(s, f)
                   /\ g # None => g.name = s[1].name /\ g.status = f[Len(s) + 1]
      BY <2>14 DEF Destined
    <3>2. f[1] = StatusOf(n) /\ f[2] = f[1]
      BY <3>1, <1>8
    <3>3. Follows(u[1], f[1], f[2])
      BY <3>2, <2>2, <2>5, <2>8, <2>13 DEF Follows, Status, Edge
    <3>4. Destined(u, g)
      BY <3>1, <3>3, <2>5, <2>8, <1>3, HeadDestined
    <3>5. Destined(u, g)'
      <4>1. \A m : StatusOf(m)' = StatusOf(m)
        BY <1>2 DEF StatusOf
      <4>2. \A h : PathOf(u, h)' <=> PathOf(u, h)
        BY <4>1 DEF PathOf
      <4> QED BY <3>4, <4>2 DEF Destined
    <3> QED BY <3>5
  <2>15. ASSUME Doomed(s) PROVE Doomed(u)'
    <3>1. PICK i \in 1 .. Len(s) :
             /\ s[i].do = "transition" /\ ~Allowed(StatusOf(s[i].name), s[i].arg)
             /\ s[i].mode = "must" \/ i = 1
             /\ \A j \in 1 .. i - 1 : s[j].do \in {"backfill", "update"}
      BY <2>15 DEF Doomed
    <3>2. i # 1
      BY <3>1, <1>4
    <3>3. i \in 2 .. Len(s)
      BY <3>2
    <3>4. u[i] = s[i] /\ i \in 1 .. Len(u)
      BY <3>3, <2>8
    <3>5. s[i].mode = "must"
      BY <3>1, <3>2
    <3>6. \A j \in 1 .. i - 1 : u[j].do \in {"backfill", "update"}
      <4> TAKE j \in 1 .. i - 1
      <4>1. CASE j = 1
        BY <4>1, <2>5, <2>8
      <4>2. CASE j # 1
        <5>1. j \in 2 .. Len(s)
          BY <4>2, <3>3, <1>3
        <5> QED BY <5>1, <3>1, <2>8
      <4> QED BY <4>1, <4>2
    <3>7. StatusOf(u[i].name)' = StatusOf(s[i].name)
      BY <3>4, <1>2 DEF StatusOf
    <3>8. rows'[u[1].name] # NoPlan /\ MapLegacyStatus(u[1].arg.status) = StatusOf(u[1].name)'
      BY <2>2, <2>5, <2>8, <2>13, <1>2, <1>7
    <3> QED BY <3>1, <3>4, <3>5, <3>6, <3>7, <3>8, <2>5, <2>8, <2>11 DEF Doomed
  <2>16. \A i \in 1 .. Len(u) : u[i].do = "transition" =>
            /\ u[i].mode = "soft" => g = None
            /\ MergedDone /\ n = dialog.name => u[i].arg \in SentinelEvent
    <3> TAKE i \in 1 .. Len(u)
    <3> HAVE u[i].do = "transition"
    <3>1. i # 1
      BY <2>5, <2>8
    <3>2. i \in 2 .. Len(s) /\ i \in 1 .. Len(s)
      BY <3>1, <2>8
    <3>3. u[i] = s[i]
      BY <3>2, <2>8
    <3>4. u[i].mode = "soft" => g = None
      BY <3>2, <3>3, <1>1, <1>2, OpReady DEF Ready
    <3>5. MergedDone /\ n = dialog.name => u[i].arg \in SentinelEvent
      BY <3>2, <3>3, <1>1, <1>2, DialogFacts
    <3> QED BY <3>4, <3>5
  <2>17. Ready(u, g)'
    BY <2>8, <2>9, <2>12, <2>14, <2>15, <2>16, <1>3 DEF Ready
  <2>18. MergedDone /\ n = dialog.name => x.arg.status = "done"
    BY <2>3, <2>5, <1>1, <1>2, DialogFacts
  <2>19. DialogOK'
    BY <2>5, <2>8, <2>10, <2>16, <2>18, <1>2, <1>6, DialogStep
  <2> QED BY <2>8, <2>10, <2>17, <2>19, <1>2, StepOK
<1> QED BY <1>3, <1>9, <1>10, <1>11 DEF BackfillBranch

\* A load that refuses the transition.
LEMMA RefusedOK ==
    ASSUME SerialInv, Undisturbed, TypeInv', NEW c \in Clients, ~Idle(c),
           Next1(c).do = "transition", ~Permits(Next1(c)), GiveUp(c),
           UNCHANGED <<rows, cache, view, dialog>>
    PROVE  SerialInv'
<1>1. PICK s, g : s = todo[c] /\ g = goal[c]
  OBVIOUS
<1>2. /\ s \in Seq(TypedSteps) /\ s # << >> /\ Len(s) \in Nat \ {0} /\ Next1(c) = s[1]
      /\ 1 \in 1 .. Len(s) /\ s[1] \in TypedSteps /\ s[1].name \in Names
      /\ ShapeOK(s) /\ (Doomed(s) \/ Destined(s, g))
  BY <1>1, StepFacts
<1>3. s[1].do = "transition" /\ s[1].mode \in Mode
  BY <1>2 DEF TypedSteps, Steps
<1>4. StatusOf(s[1].name) \in Place
  BY <1>2, PlaceTyped DEF SerialInv
<1>5. ~Destined(s, g)
  <2> SUFFICES ASSUME Destined(s, g) PROVE FALSE
    OBVIOUS
  <2>1. PICK f : PathOf(s, f)
    BY DEF Destined
  <2>2. Allowed(StatusOf(s[1].name), s[1].arg)
    BY <2>1, <1>2, <1>3, FirstFollows DEF Follows
  <2>3. StatusOf(s[1].name) # "none"
    BY <2>2, NothingAllowed
  <2>4. rows[s[1].name] # NoPlan
    BY <2>3 DEF StatusOf
  <2> QED BY <2>2, <2>4, <1>2, <1>3 DEF Permits, StatusOf
<1>6. cache = rows
  BY <1>2, <1>3, <1>5 DEF Doomed
<1>7. CASE s[1].mode = "must"
  BY <1>2, <1>6, <1>7, GiveUpOK
<1>8. CASE s[1].mode = "soft"
  <2>1. PICK t : t = Tail(s)
    OBVIOUS
  <2>2. todo' = [todo EXCEPT ![c] = t] /\ goal'[c] = g
    BY <2>1, <1>1, <1>2, <1>8 DEF GiveUp
  <2>3. g = None
    BY <1>1, <1>2, <1>3, <1>8, OpReady DEF Ready
  <2>4. MergedDone => rows'[dialog.name] # NoPlan /\ rows'[dialog.name].status = "done"
    BY <1>1, DialogFacts
  <2>5. CASE t = << >>
    <3>1. DialogOK'
      BY <2>2, <2>4, <2>5, DialogStep
    <3> QED BY <3>1, <2>2, <2>5, <1>6, StepOK
  <2>6. CASE t # << >>
    <3>1. /\ t \in Seq(TypedSteps) /\ Len(t) \in Nat \ {0} /\ Len(s) = Len(t) + 1
          /\ t[1].name = s[1].name
      BY <2>1, <2>6, <1>2, TailShape
    <3>2. ShapeOK(t)
      BY <2>1, <2>6, <1>2, TailShape
    <3>3. \A i \in 1 .. Len(t) : i + 1 \in 2 .. Len(s) /\ t[i] = s[i + 1]
      BY <2>1, <2>6, <1>2, TailShape
    <3>4. \A i \in 2 .. Len(s) : s[i].do \in {"reload", "backfill", "spawn"}
      <4>1. \A j \in 1 + 1 .. Len(s) : s[j].do \in {"reload", "backfill", "spawn"}
        BY <1>2, <1>3, <1>8 DEF ShapeOK
      <4> QED BY <4>1
    <3>5. \A i \in 1 .. Len(t) : t[i].do \in {"reload", "backfill", "spawn"}
      BY <3>3, <3>4
    <3>6. 1 \in 1 .. Len(t)
      BY <3>1
    <3>7. CacheOK(t)
      BY <3>5, <3>6, <1>6 DEF CacheOK
    <3>8. Destined(t, g)
      BY <3>1, <3>5, <2>3, <1>4, StillDestined
    <3>9. Ready(t, g)
      BY <3>1, <3>2, <3>5, <3>7, <3>8, <2>6 DEF Ready
    <3>10. Ready(t, g)'
      BY <3>9, ReadyStays
    <3>11. /\ \A i \in 1 .. Len(t) : t[i].do = "transition" => t[i].arg \in SentinelEvent
           /\ t[1].do \notin {"update", "rename"}
      BY <3>5, <3>6
    <3>12. DialogOK'
      BY <3>11, <2>2, <2>4, DialogStep
    <3> QED BY <3>10, <3>12, <2>2, <2>6, StepOK
  <2> QED BY <2>5, <2>6
<1>9. s[1].mode # "always"
  BY <1>2, <1>3 DEF ShapeOK
<1> QED BY <1>3, <1>7, <1>8, <1>9 DEF Mode

\* A load that permits it.
LEMMA PermittedOK ==
    ASSUME SerialInv, Undisturbed, TypeInv', NEW c \in Clients, ~Idle(c),
           Next1(c).do = "transition", Permits(Next1(c)),
           Proceed(c, Continuation(Next1(c))), UNCHANGED <<rows, cache, view, dialog, goal>>
    PROVE  SerialInv'
<1>1. PICK s, g : s = todo[c] /\ g = goal[c]
  OBVIOUS
<1> DEFINE n == s[1].name
           a == StatusOf(n)
           e == s[1].arg
           b == ApplyTransition(a, e)
<1>2. /\ s \in Seq(TypedSteps) /\ s # << >> /\ Len(s) \in Nat \ {0} /\ Next1(c) = s[1]
      /\ 1 \in 1 .. Len(s) /\ s[1] \in TypedSteps /\ n \in Names
      /\ ShapeOK(s) /\ (Doomed(s) \/ Destined(s, g))
  BY <1>1, StepFacts
<1>3. s[1].do = "transition" /\ s[1].mode \in Mode
  BY <1>2 DEF TypedSteps, Steps
<1>4. /\ rows[n] # NoPlan /\ a = MapLegacyStatus(rows[n].status)
      /\ Allowed(a, e)
  <2>1. rows[n] # NoPlan /\ Allowed(MapLegacyStatus(rows[n].status), e)
    BY <1>2, <1>3 DEF Permits
  <2> QED BY <2>1 DEF StatusOf
<1>5. rows[n] \in Meta /\ b \in Status /\ a \in Status
  BY <1>2, <1>4, PlaceTyped, AllowedTarget DEF SerialInv
<1> HIDE DEF b
<1>6. ~Doomed(s)
  <2> SUFFICES ASSUME Doomed(s) PROVE FALSE
    OBVIOUS
  <2>1. PICK i \in 1 .. Len(s) :
           /\ s[i].do = "transition" /\ ~Allowed(StatusOf(s[i].name), s[i].arg)
           /\ \A j \in 1 .. i - 1 : s[j].do \in {"backfill", "update"}
    BY DEF Doomed
  <2>2. i = 1 \/ 1 \in 1 .. i - 1
    BY <2>1
  <2>3. i = 1
    BY <2>1, <2>2, <1>3
  <2> QED BY <2>1, <2>3, <1>4
<1>7. PICK f : /\ PathOf(s, f)
               /\ g # None => g.name = s[1].name /\ g.status = f[Len(s) + 1]
  BY <1>2, <1>6 DEF Destined
<1>8. f[1] = a /\ f[2] = b
  BY <1>2, <1>3, <1>7, FirstFollows DEF Follows, b
<1>9. PICK x : x = Step("update", n, WithStatus(n, b), s[1].mode)
  OBVIOUS
<1>10. WithStatus(n, b) \in Meta /\ WithStatus(n, b).status = b
  <2>1. WithStatus(n, b) \in Meta
    BY <1>5, ReplacedTyped DEF WithStatus
  <2>2. WithStatus(n, b).status = b
    BY <1>5 DEF WithStatus, Meta
  <2> QED BY <2>1, <2>2
<1>11. x.name = n /\ x.do = "update" /\ x.arg.status = b /\ x.mode = s[1].mode
  BY <1>9, <1>10 DEF Step
<1>12. x \in TypedSteps
  <2>1. << Step("update", n, WithStatus(n, b), s[1].mode) >> \in Seq(TypedSteps)
    BY <1>2, <1>3, <1>10, WritesTyped
  <2> QED BY <2>1, <1>9
<1>13. PICK u : u = <<x>> \o Tail(s)
  OBVIOUS
<1>14. /\ u \in Seq(TypedSteps) /\ u # << >> /\ Len(u) = Len(s)
       /\ u[1] = x /\ \A i \in 2 .. Len(s) : u[i] = s[i]
  BY <1>2, <1>3, <1>11, <1>12, <1>13, HeadShape
<1>15. ShapeOK(u)
  BY <1>2, <1>3, <1>11, <1>12, <1>13, HeadShape
<1>16. todo' = [todo EXCEPT ![c] = u] /\ goal'[c] = g
  <2>1. Continuation(s[1]) = << Step("update", n, WithStatus(n, b), s[1].mode) >>
    BY <1>3, <1>4, Zenon DEF Continuation, b
  <2>2. Proceed(c, <<x>>)
    BY <2>1, <1>2, <1>9
  <2> QED BY <2>2, <1>1, <1>13, StepFacts
<1>17. CacheOK(u)
  <2>1. PICK j \in 1 + 1 .. Len(s) : s[j].do \in Reloads
    BY <1>2, <1>3 DEF ShapeOK
  <2>2. j \in 2 .. Len(s) /\ j \in 1 .. Len(u)
    BY <2>1, <1>14
  <2>3. u[j].do \in Reloads
    BY <2>1, <2>2, <1>14
  <2> QED BY <2>2, <2>3, <1>11, <1>14 DEF CacheOK
<1>18. Destined(u, g)
  <2>1. Follows(u[1], f[1], f[2])
    <3>1. MapLegacyStatus(b) = b /\ a # "none"
      BY <1>5, Mapped DEF Status
    <3>2. Edge(a, b)
      BY <1>2, <1>4, AllowedTarget DEF Edge, b
    <3> QED BY <3>1, <3>2, <1>8, <1>11, <1>14 DEF Follows
  <2> QED BY <2>1, <1>2, <1>7, <1>11, <1>14, HeadDestined
<1>19. \A i \in 1 .. Len(u) : u[i].do = "transition" /\ u[i].mode = "soft" => g = None
  <2> TAKE i \in 1 .. Len(u)
  <2> HAVE u[i].do = "transition" /\ u[i].mode = "soft"
  <2>1. i # 1
    BY <1>11, <1>14
  <2>2. i \in 2 .. Len(s) /\ i \in 1 .. Len(s)
    BY <2>1, <1>14
  <2>3. u[i] = s[i]
    BY <2>2, <1>14
  <2> QED BY <2>2, <2>3, <1>1, OpReady DEF Ready
<1>20. Ready(u, g)
  BY <1>14, <1>15, <1>17, <1>18, <1>19 DEF Ready
<1>21. Ready(u, g)'
  BY <1>20, ReadyStays
<1>22. MergedDone => /\ rows'[dialog.name] # NoPlan /\ rows'[dialog.name].status = "done"
                     /\ n # dialog.name
  <2> HAVE MergedDone
  <2>1. rows[dialog.name] # NoPlan /\ rows[dialog.name].status = "done"
    BY <1>1, DialogFacts
  <2>2. n # dialog.name
    <3> SUFFICES ASSUME n = dialog.name PROVE FALSE
      OBVIOUS
    <3>1. e \in SentinelEvent
      BY <1>1, <1>2, <1>3, DialogFacts
    <3>2. a = "done"
      <4>1. MapLegacyStatus("done") = "done"
        BY Mapped DEF Status
      <4> QED BY <4>1, <2>1, <1>4
    <3>3. \A edge \in TransitionTable : edge[1] = "done" => edge[2] \notin SentinelEvent
      BY DEF TransitionTable, SentinelEvent
    <3> QED BY <3>1, <3>2, <3>3, <1>4 DEF Allowed
  <2> QED BY <2>1, <2>2
<1>23. DialogOK'
  BY <1>11, <1>14, <1>16, <1>22, DialogStep
<1> QED BY <1>14, <1>16, <1>21, <1>23, StepOK

\* A load.
LEMMA ReadOK ==
    ASSUME SerialInv, Undisturbed, TypeInv', NEW c \in Clients, Read(c)
    PROVE  SerialInv'
<1>1. PICK s, g : s = todo[c] /\ g = goal[c]
  OBVIOUS
<1>2. /\ ~Idle(c) /\ Next1(c).do \in Reads /\ UNCHANGED <<rows, cache, view, dialog>>
      /\ \/ /\ Permits(Next1(c)) /\ Proceed(c, Continuation(Next1(c))) /\ UNCHANGED goal
         \/ ~Permits(Next1(c)) /\ GiveUp(c)
  BY NoFault DEF Read
<1>3. /\ s \in Seq(TypedSteps) /\ s # << >> /\ Len(s) \in Nat \ {0} /\ Next1(c) = s[1]
      /\ 1 \in 1 .. Len(s) /\ s[1] \in TypedSteps /\ s[1].name \in Names
      /\ ShapeOK(s) /\ CacheOK(s) /\ (Doomed(s) \/ Destined(s, g))
      /\ s[1].do \notin {"force", "register", "implement"}
  BY <1>1, <1>2, StepFacts
<1>4. CASE s[1].do = "transition"
  BY <1>2, <1>3, <1>4, RefusedOK, PermittedOK
<1>5. CASE s[1].do = "fetch"
  <2> DEFINE n == s[1].name
  <2>1. Len(s) = 1 /\ s[1].mode = "must"
    BY <1>3, <1>5 DEF ShapeOK
  <2>2. cache = rows
    <3>1. \A i \in 1 .. Len(s) : s[i].do \notin Reloads
      <4>1. \A i \in 1 .. Len(s) : i = 1
        BY <2>1
      <4> QED BY <4>1, <1>5 DEF Reloads
    <3> QED BY <3>1, <1>3, <1>5 DEF CacheOK, Ahead
  <2>3. CASE ~Permits(Next1(c)) /\ GiveUp(c)
    BY <2>1, <2>2, <2>3, <1>2, <1>3, GiveUpOK
  <2>4. CASE Proceed(c, Continuation(Next1(c))) /\ UNCHANGED goal
    <3>1. PICK x : x = Step("write", n, content[n], "must")
      OBVIOUS
    <3>2. x.name = n /\ x.do = "write" /\ x.mode = "must"
      BY <3>1 DEF Step
    <3>3. x \in TypedSteps
      <4>1. content[n] \in Text
        BY <1>3 DEF SerialInv, TypeInv, StateTypeOK, StoreTypeOK
      <4>2. "must" \in Mode
        BY DEF Mode
      <4>3. << Step("write", n, content[n], "must") >> \in Seq(TypedSteps)
        BY <4>1, <4>2, <1>3, WritesTyped
      <4> QED BY <4>3, <3>1
    <3>4. Continuation(s[1]) = One(x)
      BY <3>1, <1>5 DEF Continuation, One
    <3>5. One(x) \o Tail(s) = One(x)
      <4>1. Tail(s) = << >>
        BY <2>1, <1>3, TailEmpty
      <4>2. One(x) \o << >> = One(x)
        <5>1. One(x) \in Seq(TypedSteps)
          BY <3>3 DEF One
        <5> QED BY <5>1
      <4> QED BY <4>1, <4>2
    <3>6. PICK u : u = One(x)
      OBVIOUS
    <3>7. todo' = [todo EXCEPT ![c] = u] /\ goal'[c] = g
      BY <3>4, <3>5, <3>6, <2>4, <1>1, <1>3 DEF Proceed
    <3>8. g # None => g.name = x.name /\ g.status = StatusOf(x.name)
      <4> SUFFICES ASSUME g # None PROVE g.name = x.name /\ g.status = StatusOf(x.name)
        OBVIOUS
      <4>1. ~Doomed(s)
        BY <1>5, DoomedHead
      <4>2. PICK f : PathOf(s, f) /\ g.name = s[1].name /\ g.status = f[Len(s) + 1]
        BY <4>1, <1>3 DEF Destined
      <4>3. Follows(s[1], f[1], f[2]) /\ f[1] = StatusOf(n)
        BY <4>2, <1>3, FirstFollows
      <4>4. f[2] = f[1] /\ f[Len(s) + 1] = f[2]
        BY <4>3, <2>1, <1>5 DEF Follows
      <4> QED BY <4>2, <4>3, <4>4, <3>2
    <3>9. Ready(u, g)
      BY <3>2, <3>3, <3>6, <3>8, <2>2, SingleReady DEF SerialInv
    <3>10. Ready(u, g)'
      BY <3>9, <1>2, ReadyStays
    <3>11. /\ \A i \in 1 .. Len(u) : u[i].do = "transition" => u[i].arg \in SentinelEvent
           /\ u[1].do \notin {"update", "rename"} /\ u # << >>
      <4>1. Len(u) = 1 /\ u[1] = x
        BY <3>6 DEF One
      <4>2. \A i \in 1 .. Len(u) : i = 1
        BY <4>1
      <4>3. u # << >>
        BY <4>1
      <4> QED BY <4>1, <4>2, <4>3, <3>2
    <3>12. MergedDone => rows'[dialog.name] # NoPlan /\ rows'[dialog.name].status = "done"
      BY <1>1, <1>2, DialogFacts
    <3>13. DialogOK'
      BY <3>7, <3>11, <3>12, <1>2, DialogStep
    <3> QED BY <3>7, <3>10, <3>11, <3>13, <1>2, StepOK
  <2> QED BY <2>3, <2>4, <1>2
<1> QED BY <1>2, <1>3, <1>4, <1>5 DEF Reads

\* The spawn of a planner or a solo agent.
LEMMA SpawnOK ==
    ASSUME SerialInv, Undisturbed, TypeInv', NEW d \in Goroutines, SpawnAgent(d)
    PROVE  SerialInv'
<1>1. PICK s, g : s = todo["tui"] /\ g = goal["tui"] /\ "tui" \in Clients /\ d \in Clients
  BY ClientNames
<1> DEFINE n == s[1].name
<1>2. /\ ~Idle("tui") /\ Next1("tui").do = "spawn"
      /\ UNCHANGED <<rows, topics, content, cache, file, view, dialog, ops, faults>>
  BY DEF SpawnAgent
<1>3. /\ s \in Seq(TypedSteps) /\ s # << >> /\ Len(s) \in Nat \ {0} /\ Next1("tui") = s[1]
      /\ 1 \in 1 .. Len(s) /\ s[1] \in TypedSteps /\ n \in Names
      /\ ShapeOK(s) /\ CacheOK(s)
  BY <1>1, <1>2, StepFacts
<1>4. Len(s) = 1 /\ s[1].mode = "must"
  BY <1>2, <1>3 DEF ShapeOK
<1>5. cache = rows
  <2>1. \A i \in 1 .. Len(s) : s[i].do \notin Reloads
    <3>1. \A i \in 1 .. Len(s) : i = 1
      BY <1>4
    <3> QED BY <3>1, <1>2, <1>3 DEF Reloads
  <2> QED BY <2>1, <1>2, <1>3 DEF CacheOK, Ahead
<1>6. CASE GiveUp("tui")
  BY <1>1, <1>2, <1>3, <1>4, <1>5, <1>6, GiveUpOK
<1>7. CASE /\ Idle(d)
           /\ todo' = [todo EXCEPT !["tui"] = Tail(todo["tui"]),
                                   ![d] = << Step("fetch", n, "", "must") >>]
           /\ goal' = [goal EXCEPT ![d] = None]
  <2>1. PICK x : x = Step("fetch", n, "", "must")
    OBVIOUS
  <2>2. x.name = n /\ x.do = "fetch" /\ x.mode = "must"
    BY <2>1 DEF Step
  <2>3. x \in TypedSteps
    <3>1. "fetch" \in Do /\ "" \in Arg /\ "must" \in Mode
      BY DEF Do, Arg, Mode, Text
    <3>2. ArgOK(Step("fetch", n, "", "must"))
      BY DEF ArgOK, Step
    <3> QED BY <3>1, <3>2, <2>1, <1>3, StepTyped
  <2>4. PICK u : u = One(x)
    OBVIOUS
  <2>5. Tail(s) = << >> /\ d # "tui"
    <3>1. d # "tui"
      BY ClientsAssumption
    <3> QED BY <3>1, <1>3, <1>4, TailEmpty
  <2>6. /\ DOMAIN todo = Clients /\ DOMAIN goal = Clients
        /\ \A c \in Clients \ {"tui"} : todo[c] = << >>
    BY <1>1, <1>2, OpReady DEF SerialInv, TypeInv, ClientTypeOK
  <2>7. /\ todo'[d] = u /\ goal'[d] = None
        /\ \A c \in Clients \ {d} : todo'[c] = << >>
    BY <2>1, <2>4, <2>5, <2>6, <1>1, <1>7 DEF One
  <2>8. Len(u) = 1 /\ u[1] = x
    BY <2>4 DEF One
  <2>9. u # << >>
    BY <2>8
  <2>10. Ready(u, None)
    BY <2>2, <2>3, <2>4, <1>5, SingleReady DEF SerialInv
  <2>11. Ready(u, None)'
    BY <2>10, <1>2, ReadyStays
  <2>12. Alone'
    <3>1. ~Quiet'
      BY <2>7, <2>9, <1>1 DEF Quiet, Idle
    <3>2. view' = NoView
      BY <1>1, <1>2, OpReady
    <3>3. \A c, e \in Clients : todo'[c] = << >> \/ todo'[e] = << >> \/ c = e
      BY <2>7
    <3> QED BY <3>1, <3>2, <3>3 DEF Alone, Idle
  <2>13. ASSUME NEW c \in Clients PROVE OpOK(c)'
    <3>1. CASE c = d
      <4>1. OpOK(d)'
        BY <2>7, <2>11 DEF OpOK, Ready
      <4> QED BY <4>1, <3>1
    <3>2. CASE c # d
      BY <3>2, <2>7 DEF OpOK, Idle
    <3> QED BY <3>1, <3>2
  <2>14. DialogOK'
    <3>1. MergedDone' => rows'[dialog'.name] # NoPlan /\ rows'[dialog'.name].status = "done"
      BY <1>1, <1>2, DialogFacts DEF MergedDone
    <3>2. \A c \in Clients : todo'[c] # << >> => c = d
      BY <2>7
    <3>3. \A i \in 1 .. Len(u) : u[i].do # "transition"
      <4>1. \A i \in 1 .. Len(u) : i = 1
        BY <2>8
      <4> QED BY <4>1, <2>2, <2>8
    <3> QED BY <3>1, <3>2, <3>3, <2>2, <2>7, <2>8 DEF DialogOK, Idle
  <2> QED BY <2>12, <2>13, <2>14 DEF SerialInv
<1> QED BY <1>3, <1>6, <1>7 DEF SpawnAgent

\* Every step.
LEMMA SerialStep ==
    ASSUME SerialInv, Undisturbed, [Next]_vars PROVE SerialInv'
<1>1. TypeInv'
  BY StepTypeInv DEF SerialInv
<1>2. ASSUME NEW c \in Clients, Progress(c) PROVE SerialInv'
  BY <1>1, <1>2, ReadOK, WriteOK, ReloadOK, BackfillOK DEF Progress
<1>3. ASSUME NEW g \in Goroutines, GoroutineStep(g) PROVE SerialInv'
  BY <1>1, <1>3, SpawnOK, WriteFileOK DEF GoroutineStep
<1>4. ASSUME NEW n \in Names, NEW e \in SentinelEvent, Signal(n, e) PROVE SerialInv'
  BY <1>1, <1>4, SignalOK
<1>5. ASSUME NEW c \in Commands PROVE FALSE
  BY DEF Undisturbed
<1>6. ASSUME UserStep PROVE SerialInv'
  <2>1. ASSUME NEW n \in Names,
               \/ StagePlan(n) \/ StageSolo(n) \/ StageImplement(n) \/ StageReview(n)
               \/ StageFinished(n) \/ StageRefused(n) \/ MarkPlanDone(n)
               \/ RequestReview(n) \/ ResumeImplement(n) \/ ModifyPlan(n)
        PROVE  SerialInv'
    BY <2>1, <1>1, StageOK
  <2>2. ASSUME NEW n \in Names, ImportClickUpTask(n) PROVE SerialInv'
    BY <2>2, <1>1, ImportOK
  <2>3. ASSUME NEW n \in Names, ImplementationComplete(n) PROVE SerialInv'
    BY <2>3, <1>1, CompleteOK
  <2>4. ASSUME NEW n \in Names, NEW t \in Topics \cup {""},
               ChangeTopic(n, t) \/ CreatePlan(n, t)
        PROVE  SerialInv'
    BY <2>4, <1>1, PickersOK
  <2>5. ASSUME NEW n \in Names, NEW st \in Status, SetStatus(n, st) PROVE SerialInv'
    BY <2>5, <1>1, PickersOK
  <2>6. ASSUME NEW old \in Names, NEW new \in Names, RenamePlan(old, new) PROVE SerialInv'
    BY <2>6, <1>1, RenameBeginOK
  <2>7. ASSUME NEW n \in Names, NEW op \in {"cancel", "merge", "start_over"},
               OpenDialog(op, n)
        PROVE  SerialInv'
    BY <2>7, <1>1, PassiveOK
  <2>8. ASSUME NEW g \in Goroutines, ConfirmDialog(g) PROVE SerialInv'
    BY <2>8, <1>1, ConfirmOK
  <2>9. ASSUME DismissDialog PROVE SerialInv'
    BY <2>9, <1>1, PassiveOK
  <2> QED BY <1>6, <2>1, <2>2, <2>3, <2>4, <2>5, <2>6, <2>7, <2>8, <2>9 DEF UserStep
<1>7. ASSUME TickLoad \/ TickApply \/ (\E n \in Names : AgentWritesPlan(n)) PROVE SerialInv'
  BY <1>7, <1>1, PassiveOK
<1>8. ASSUME UNCHANGED vars PROVE SerialInv'
  <2>1. UNCHANGED <<rows, topics, content, cache, view, dialog, todo, goal>>
    BY <1>8 DEF vars
  <2>2. \A c \in Clients : Idle(c)' = Idle(c)
    BY <2>1 DEF Idle
  <2>3. Alone'
    BY <2>1 DEF SerialInv, Alone, Quiet, Idle
  <2>4. DialogOK'
    BY <2>1 DEF SerialInv, DialogOK, MergedDone, Idle
  <2>5. ASSUME NEW c \in Clients PROVE OpOK(c)'
    <3>1. SUFFICES ASSUME todo[c] # << >> PROVE OpOK(c)'
      BY <2>1 DEF OpOK, Idle
    <3>2. PICK s, g : s = todo[c] /\ g = goal[c]
      OBVIOUS
    <3>3. Ready(s, g)
      BY <3>1, <3>2, OpReady DEF Idle
    <3>4. Ready(s, g)'
      BY <3>3, <2>1, ReadyStays
    <3>5. todo'[c] = s /\ goal'[c] = g
      BY <2>1, <3>2
    <3> QED BY <3>4, <3>5 DEF OpOK, Ready
  <2> QED BY <1>1, <2>3, <2>4, <2>5 DEF SerialInv
<1> QED BY <1>2, <1>3, <1>4, <1>5, <1>6, <1>7, <1>8 DEF Next

\* The invariant of operations that run one at a time.
LEMMA SerialInvariant == Undisturbed => (Spec => []SerialInv)
<1>1. ASSUME Init PROVE SerialInv
  <2>1. TypeInv
    BY <1>1, InitTyped
  <2>2. \A c \in Clients : Idle(c)
    BY <1>1 DEF Init, Idle
  <2> QED BY <1>1, <2>1, <2>2
          DEF Init, SerialInv, Alone, DialogOK, MergedDone, OpOK, Load, List
<1>2. ASSUME SerialInv, Undisturbed, [Next]_vars PROVE SerialInv'
  BY <1>2, SerialStep
<1>3. ASSUME Undisturbed PROVE Spec => []SerialInv
  <2>1. SerialInv /\ [Next]_vars => SerialInv'
    BY <1>2, <1>3
  <2> QED BY <1>1, <2>1, PTL DEF Spec
<1> QED BY <1>3

\* Between operations the TUI shows what the store holds: every operation reloads the
\* cache after its last change, or made the change to both.
THEOREM CacheFreshTheorem == Undisturbed => (Spec => []CacheFresh)
<1>1. SerialInv => CacheFresh
  BY DEF SerialInv, Alone, CacheFresh
<1>2. SUFFICES ASSUME Undisturbed PROVE Spec => []CacheFresh
  OBVIOUS
<1>3. Spec => []SerialInv
  BY <1>2, SerialInvariant
<1> QED BY <1>1, <1>3, PTL

----------------------------------------------------------------------------
(* The announced status. *)

\* The step after which nothing is left keeps to the path.
LEMMA LastStep ==
    ASSUME SerialInv, TypeInv', NEW c \in Clients, ~Idle(c),
           NEW s, s = todo[c], NEW g, g = goal[c], g # None, Tail(s) = << >>,
           s[1].do # "transition", \A f : PathOf(s, f) => StatusOf(s[1].name)' = f[2]
    PROVE  /\ rows'[g.name] # NoPlan
           /\ MapLegacyStatus(rows'[g.name].status) = g.status
<1>1. /\ s \in Seq(TypedSteps) /\ s # << >> /\ Len(s) \in Nat \ {0}
      /\ Doomed(s) \/ Destined(s, g)
  BY StepFacts
<1>2. Len(s) = 1
  <2>1. PICK t : t = Tail(s)
    OBVIOUS
  <2>2. Len(t) = Len(s) - 1
    BY <2>1, <1>1, TailFacts
  <2>3. Len(t) = 0
    BY <2>1
  <2> QED BY <2>2, <2>3, <1>1
<1>3. ~Doomed(s)
  <2>1. \A i \in 1 .. Len(s) : i = 1
    BY <1>2
  <2> QED BY <2>1 DEF Doomed
<1>4. PICK f : PathOf(s, f) /\ g.name = s[1].name /\ g.status = f[Len(s) + 1]
  BY <1>1, <1>3 DEF Destined
<1>5. StatusOf(g.name)' = g.status
  <2>1. f[Len(s) + 1] = f[2]
    BY <1>2
  <2> QED BY <2>1, <1>4
<1>6. g.status \in Status
  <2>1. g \in [name : Names, status : Status]
    BY DEF SerialInv, TypeInv, ClientTypeOK
  <2> QED BY <2>1
<1> QED BY <1>5, <1>6 DEF StatusOf, Status

\* The steps an operation can end with.
LEMMA Endings ==
    ASSUME SerialInv, Undisturbed, [Next]_vars, NEW c \in Clients, ~Idle(c),
           todo'[c] = << >>, goal'[c] # None,
           NEW s, s = todo[c]
    PROVE  /\ goal'[c] = goal[c] /\ Tail(s) = << >> /\ s[1].do # "transition"
           /\ \/ UNCHANGED rows /\ s[1].do \notin Writes
              \/ s[1].do \in Writes /\ Execute(s[1])
<1>1. /\ s \in Seq(TypedSteps) /\ s # << >> /\ Next1(c) = s[1] /\ Head(s) = s[1]
      /\ ShapeOK(s) /\ s[1].do \notin {"force", "register", "implement"}
      /\ 1 \in 1 .. Len(s) /\ s[1] \in TypedSteps
      /\ \A x : <<x>> \o Tail(s) # << >>
  <2>1. /\ s \in Seq(TypedSteps) /\ s # << >> /\ Next1(c) = s[1]
        /\ ShapeOK(s) /\ s[1].do \notin {"force", "register", "implement"}
        /\ 1 \in 1 .. Len(s) /\ s[1] \in TypedSteps
    BY StepFacts
  <2>2. Head(s) = s[1] /\ Tail(s) \in Seq(TypedSteps)
    BY <2>1, TailFacts
  <2>3. \A x : <<x>> \o Tail(s) # << >>
    <3> TAKE x
    <3> DEFINE S == TypedSteps \cup {x}
    <3>1. PICK t : t = Tail(s)
      OBVIOUS
    <3>2. t \in Seq(S) /\ <<x>> \in Seq(S) /\ Len(<<x>>) = 1
      BY <3>1, <2>2
    <3> HIDE DEF S
    <3>3. Len(<<x>> \o t) = 1 + Len(t) /\ Len(t) \in Nat
      BY <3>2, ConsFacts
    <3>4. Len(<<x>> \o t) # 0
      BY <3>3
    <3>5. <<x>> \o t # << >>
      BY <3>4
    <3> QED BY <3>1, <3>5
  <2> QED BY <2>1, <2>2, <2>3
<1>2. ~Quiet /\ view = NoView /\ \A d \in Clients \ {c} : todo[d] = << >>
  BY OpReady
<1>3. DOMAIN todo = Clients /\ DOMAIN goal = Clients
  BY DEF SerialInv, TypeInv, ClientTypeOK
<1>4. \A d, u, g : ~Begin(d, u, g)
  BY <1>2 DEF Begin, Undisturbed
<1>5. \A u, then : todo' = [todo EXCEPT ![c] = u] => u = << >>
  BY <1>3
<1>6. ASSUME NEW step, step.do \in {"transition", "fetch"}, Permits(step)
      PROVE  \E x : Continuation(step) = <<x>>
  BY <1>6 DEF Continuation
<1>7. ASSUME GiveUp(c)
      PROVE  goal'[c] = goal[c] /\ Tail(s) = << >> /\ s[1].mode # "must"
  <2>1. s[1].mode # "must"
    BY <1>1, <1>3, <1>7 DEF GiveUp
  <2> QED BY <2>1, <1>1, <1>3, <1>7 DEF GiveUp
<1>8. ASSUME NEW d \in Clients, Progress(d)
      PROVE  /\ goal'[c] = goal[c] /\ Tail(s) = << >> /\ s[1].do # "transition"
             /\ \/ UNCHANGED rows /\ s[1].do \notin Writes
                \/ s[1].do \in Writes /\ Execute(s[1])
  <2>1. d = c
    BY <1>2, <1>8 DEF Progress, Read, Write, ReloadCache, BackfillBranch, Idle
  <2>2. CASE Read(c)
    <3>1. /\ UNCHANGED rows /\ s[1].do \in {"transition", "fetch"}
          /\ \/ Permits(s[1]) /\ Proceed(c, Continuation(s[1]))
             \/ GiveUp(c)
      BY <1>1, <2>2 DEF Read, Reads
    <3>2. ~(Permits(s[1]) /\ Proceed(c, Continuation(s[1])))
      <4> SUFFICES ASSUME Permits(s[1]), Proceed(c, Continuation(s[1])) PROVE FALSE
        OBVIOUS
      <4>1. PICK x : Continuation(s[1]) = <<x>>
        BY <3>1, <1>6
      <4>2. todo' = [todo EXCEPT ![c] = <<x>> \o Tail(s)]
        BY <4>1 DEF Proceed
      <4> QED BY <4>2, <1>1, <1>3
    <3>3. goal'[c] = goal[c] /\ Tail(s) = << >> /\ s[1].mode # "must"
      BY <3>1, <3>2, <1>7
    <3>4. s[1].mode = "always" => s[1].do = "reload"
      BY <1>1 DEF ShapeOK
    <3>5. s[1].mode \in Mode
      BY <1>1 DEF TypedSteps, Steps
    <3>6. s[1].mode = "soft"
      BY <3>1, <3>3, <3>4, <3>5 DEF Mode
    <3>7. s[1].do = "transition" => goal[c] = None
      BY <3>6, <1>1, OpReady DEF Ready
    <3> QED BY <3>1, <3>3, <3>7 DEF Writes
  <2>3. CASE Write(c)
    <3>1. /\ s[1].do \in Writes /\ Execute(s[1])
          /\ Proceed(c, << >>) /\ UNCHANGED goal
      <4>1. ~Idle(c) /\ Next1(c).do \in Writes
        BY <2>3 DEF Write
      <4> QED BY <4>1, <1>1, <2>3, NeverRefused, NoFault DEF Write
    <3>2. todo' = [todo EXCEPT ![c] = Tail(s)]
      BY <3>1, <1>1, StepFacts
    <3> QED BY <3>1, <3>2, <1>3 DEF Writes
  <2>4. CASE ReloadCache(c)
    <3>1. /\ UNCHANGED <<rows, goal>> /\ s[1].do \in {"reload", "refresh"}
          /\ Proceed(c, << >>)
      BY <1>1, <2>4 DEF ReloadCache
    <3>2. todo' = [todo EXCEPT ![c] = Tail(s)]
      BY <3>1, StepFacts
    <3> QED BY <3>1, <3>2, <1>3 DEF Writes
  <2>5. CASE BackfillBranch(c)
    <3>1. /\ UNCHANGED rows /\ s[1].do = "backfill"
          /\ \/ GiveUp(c)
             \/ Proceed(c, << >>) /\ UNCHANGED goal
             \/ \E x : Proceed(c, <<x>>)
      BY <1>1, <2>5 DEF BackfillBranch
    <3>2. \A x : ~Proceed(c, <<x>>)
      <4> SUFFICES ASSUME NEW x, Proceed(c, <<x>>) PROVE FALSE
        OBVIOUS
      <4>1. todo' = [todo EXCEPT ![c] = <<x>> \o Tail(s)]
        BY DEF Proceed
      <4> QED BY <4>1, <1>1, <1>3
    <3>3. Proceed(c, << >>) => Tail(s) = << >>
      <4> HAVE Proceed(c, << >>)
      <4>1. todo' = [todo EXCEPT ![c] = Tail(s)]
        BY StepFacts
      <4> QED BY <4>1, <1>3
    <3> QED BY <3>1, <3>2, <3>3, <1>7 DEF Writes
  <2> QED BY <2>1, <2>2, <2>3, <2>4, <2>5, <1>8 DEF Progress
<1>9. ASSUME NEW d \in Goroutines, GoroutineStep(d)
      PROVE  /\ goal'[c] = goal[c] /\ Tail(s) = << >> /\ s[1].do # "transition"
             /\ UNCHANGED rows /\ s[1].do \notin Writes
  <2>1. d \in Clients /\ "tui" \in Clients /\ d # "tui"
    BY ClientNames, ClientsAssumption
  <2>2. CASE SpawnAgent(d)
    <3>1. c = "tui"
      BY <2>1, <2>2, <1>2 DEF SpawnAgent, Idle
    <3>2. s[1].do = "spawn" /\ UNCHANGED rows
      BY <3>1, <2>2, <1>1 DEF SpawnAgent
    <3>3. CASE GiveUp("tui")
      BY <3>1, <3>2, <3>3, <1>7 DEF Writes
    <3>4. CASE /\ todo' = [todo EXCEPT !["tui"] = Tail(todo["tui"]),
                                       ![d] = << Step("fetch", s[1].name, "", "must") >>]
               /\ goal' = [goal EXCEPT ![d] = None]
      <4>1. todo'["tui"] = Tail(s) /\ goal'["tui"] = goal["tui"]
        BY <3>1, <3>4, <2>1, <1>3
      <4> QED BY <4>1, <3>1, <3>2 DEF Writes
    <3> QED BY <3>1, <3>3, <3>4, <2>2, <1>1 DEF SpawnAgent
  <2>3. CASE WriteFile(d)
    <3>1. d = c
      BY <2>1, <2>3, <1>2 DEF WriteFile, Idle
    <3>2. s[1].do = "write" /\ UNCHANGED <<rows, goal>> /\ Proceed(c, << >>)
      BY <3>1, <2>3, <1>1 DEF WriteFile
    <3>3. todo' = [todo EXCEPT ![c] = Tail(s)]
      BY <3>2, StepFacts
    <3> QED BY <3>2, <3>3, <1>3 DEF Writes
  <2> QED BY <2>2, <2>3, <1>9 DEF GoroutineStep
<1>10. ASSUME UNCHANGED todo PROVE FALSE
  BY <1>10 DEF Idle
<1>11. ASSUME UserStep PROVE FALSE
  <2>1. ASSUME NEW n \in Names,
               \/ StagePlan(n) \/ StageSolo(n) \/ StageImplement(n) \/ StageReview(n)
               \/ StageFinished(n) \/ StageRefused(n) \/ MarkPlanDone(n)
               \/ RequestReview(n) \/ ResumeImplement(n) \/ ModifyPlan(n)
               \/ ImportClickUpTask(n) \/ ImplementationComplete(n)
        PROVE  FALSE
    BY <2>1, <1>4
       DEF StagePlan, StageSolo, StageImplement, StageReview, StageFinished, StageRefused,
           MarkPlanDone, RequestReview, ResumeImplement, ModifyPlan, ImportClickUpTask,
           ImplementationComplete, UserBegins
  <2>2. ASSUME NEW n \in Names, NEW t \in Topics \cup {""},
               ChangeTopic(n, t) \/ CreatePlan(n, t)
        PROVE  FALSE
    BY <2>2, <1>4 DEF ChangeTopic, CreatePlan, UserBegins
  <2>3. ASSUME NEW n \in Names, NEW st \in Status, SetStatus(n, st) PROVE FALSE
    BY <2>3, <1>4 DEF SetStatus, UserBegins
  <2>4. ASSUME NEW old \in Names, NEW new \in Names, RenamePlan(old, new) PROVE FALSE
    BY <2>4, <1>4 DEF RenamePlan, UserBegins
  <2>5. ASSUME NEW n \in Names, NEW op \in {"cancel", "merge", "start_over"},
               OpenDialog(op, n)
        PROVE  FALSE
    BY <2>5, <1>10 DEF OpenDialog
  <2>6. ASSUME NEW g \in Goroutines, ConfirmDialog(g) PROVE FALSE
    BY <2>6, <1>4 DEF ConfirmDialog
  <2>7. ASSUME DismissDialog PROVE FALSE
    BY <2>7, <1>10 DEF DismissDialog
  <2> QED BY <1>11, <2>1, <2>2, <2>3, <2>4, <2>5, <2>6, <2>7 DEF UserStep
<1>12. ASSUME NEW n \in Names, NEW e \in SentinelEvent, Signal(n, e) PROVE FALSE
  BY <1>12, <1>4 DEF Signal
<1>13. ASSUME NEW d \in Commands, Command(d) PROVE FALSE
  BY DEF Undisturbed
<1>14. ASSUME TickLoad \/ TickApply \/ (\E n \in Names : AgentWritesPlan(n)) PROVE FALSE
  BY <1>14, <1>10 DEF TickLoad, TickApply, AgentWritesPlan
<1>15. ASSUME UNCHANGED vars PROVE FALSE
  BY <1>15, <1>10 DEF vars
<1> QED BY <1>8, <1>9, <1>11, <1>12, <1>13, <1>14, <1>15 DEF Next

\* A statement leaves the status its step leads to.
LEMMA ExecuteFollows ==
    ASSUME TypeInv, NEW x \in TypedSteps, Execute(x), x.do = "rename" => x.name # x.arg,
           NEW b, Follows(x, StatusOf(x.name), b)
    PROVE  StatusOf(x.name)' = b
<1>1. /\ rows \in [Names -> Meta \cup {NoPlan}] /\ x.name \in Names /\ ArgOK(x)
  BY DEF TypeInv, StateTypeOK, StoreTypeOK, TypedSteps, Steps
<1>2. CASE x.do \in {"update", "create"}
  <2>1. rows' = [rows EXCEPT ![x.name] = x.arg]
    BY <1>2 DEF Execute, Update, Create
  <2>2. x.arg # NoPlan
    <3>1. x.arg \in Meta
      BY <1>1, <1>2 DEF ArgOK
    <3> QED BY <3>1, EntryIsThere
  <2>3. StatusOf(x.name)' = MapLegacyStatus(x.arg.status)
    BY <2>1, <2>2, <1>1 DEF StatusOf
  <2> QED BY <2>3, <1>2, StatementFollows
<1>3. CASE x.do \in {"topic", "content"}
  <2>1. rows' = rows
    BY <1>3 DEF Execute, SetContent, CreateTopic
  <2>2. StatusOf(x.name)' = StatusOf(x.name)
    BY <2>1 DEF StatusOf
  <2> QED BY <2>2, <1>3, StatementFollows
<1>4. CASE x.do = "rename"
  <2>1. rows'[x.name] = NoPlan
    <3>1. rows' = [rows EXCEPT ![x.arg] = rows[x.name], ![x.name] = NoPlan]
      BY <1>4 DEF Execute, Rename
    <3> QED BY <3>1, <1>1
  <2>2. StatusOf(x.name)' = "none"
    BY <2>1 DEF StatusOf
  <2> QED BY <2>2, <1>4, StatementFollows
<1> QED BY <1>2, <1>3, <1>4 DEF Execute

\* Who reports "status -> done" has brought it about: an operation that was refused on
\* its way has no announcement left, and the others end at the end of their path.
THEOREM AnnouncedStatusStoredTheorem == Undisturbed => (Spec => AnnouncedStatusStored)
<1> SUFFICES ASSUME Undisturbed PROVE Spec => AnnouncedStatusStored
  OBVIOUS
<1>1. ASSUME SerialInv, SerialInv', [Next]_vars, NEW c \in Clients,
             todo[c] # << >>, todo'[c] = << >>, goal'[c] # None
      PROVE  /\ rows'[goal[c].name] # NoPlan
             /\ MapLegacyStatus(rows'[goal[c].name].status) = goal[c].status
  <2>1. PICK s, g : s = todo[c] /\ g = goal[c]
    OBVIOUS
  <2>2. ~Idle(c)
    BY <1>1 DEF Idle
  <2>3. /\ goal'[c] = goal[c] /\ Tail(s) = << >> /\ s[1].do # "transition"
        /\ \/ UNCHANGED rows /\ s[1].do \notin Writes
           \/ s[1].do \in Writes /\ Execute(s[1])
    BY <1>1, <2>1, <2>2, Endings
  <2>4. /\ Len(s) \in Nat \ {0} /\ s[1] \in TypedSteps
        /\ s[1].do \notin {"force", "register", "implement"} /\ CacheOK(s)
    BY <1>1, <2>1, <2>2, StepFacts
  <2>5. s[1].do = "rename" => s[1].name # s[1].arg
    <3>1. s[1].do = "rename" => RenameOK(s[1].name, s[1].arg)
      BY <2>4 DEF CacheOK, Ahead
    <3> QED BY <3>1 DEF RenameOK
  <2>6. \A f : PathOf(s, f) => StatusOf(s[1].name)' = f[2]
    <3> TAKE f
    <3> HAVE PathOf(s, f)
    <3>1. Follows(s[1], StatusOf(s[1].name), f[2])
      BY <2>4, FirstFollows
    <3>2. CASE UNCHANGED rows /\ s[1].do \notin Writes
      <4>1. StatusOf(s[1].name)' = StatusOf(s[1].name)
        BY <3>2 DEF StatusOf
      <4>2. s[1].do \notin {"transition", "update", "create", "rename"}
        BY <2>3, <3>2 DEF Writes
      <4> QED BY <3>1, <4>1, <4>2 DEF Follows
    <3>3. CASE s[1].do \in Writes /\ Execute(s[1])
      BY <1>1, <2>4, <2>5, <3>1, <3>3, ExecuteFollows DEF SerialInv
    <3> QED BY <2>3, <3>2, <3>3
  <2>7. g # None
    BY <1>1, <2>1, <2>3
  <2>8. TypeInv'
    BY <1>1 DEF SerialInv
  <2> QED BY <1>1, <2>1, <2>2, <2>3, <2>6, <2>7, <2>8, LastStep
<1>2. ASSUME SerialInv, SerialInv', [Next]_vars
      PROVE  [\A c \in Clients :
                 todo[c] # << >> /\ todo'[c] = << >> /\ goal'[c] # None =>
                    /\ rows'[goal[c].name] # NoPlan
                    /\ MapLegacyStatus(rows'[goal[c].name].status) = goal[c].status]_vars
  BY <1>1, <1>2
<1>3. Spec => []SerialInv
  BY SerialInvariant
<1> QED BY <1>2, <1>3, PTL DEF Spec, AnnouncedStatusStored

----------------------------------------------------------------------------
(* The lifecycle: every operation together implements PlanLifecycle. *)

\* The instance speaks of the same table.
LEMMA SameTable ==
    /\ Lifecycle!Status = Status /\ Lifecycle!Event = Event
    /\ \A a, e : Lifecycle!Allowed(a, e) <=> Allowed(a, e)
    /\ \A a, e : Lifecycle!ApplyTransition(a, e) = ApplyTransition(a, e)
<1>1. Lifecycle!Status = Status /\ Lifecycle!Event = Event
  BY DEF Lifecycle!Status, Status, Lifecycle!Event, Event
<1>2. \A a, e : Lifecycle!Allowed(a, e) <=> Allowed(a, e)
  BY Zenon DEF Lifecycle!Allowed, Allowed, Lifecycle!TransitionTable, TransitionTable
<1>3. \A a, e : Lifecycle!ApplyTransition(a, e) = ApplyTransition(a, e)
  BY Zenon DEF Lifecycle!ApplyTransition, ApplyTransition,
               Lifecycle!TransitionTable, TransitionTable
<1> QED BY <1>1, <1>2, <1>3

\* The statuses of the plans, as PlanLifecycle sees them.
Statuses == [n \in Names |-> IF rows[n] = NoPlan THEN "none"
                             ELSE MapLegacyStatus(rows[n].status)]

\* What a statement does to the statuses.
LEMMA StatementImplements ==
    ASSUME SerialInv, ~Overrides, NEW c \in Clients, ~Idle(c), NEW x, x = Next1(c),
           Accepted(x), Execute(x)
    PROVE  [Lifecycle!Next]_Statuses
<1>1. PICK s, g : s = todo[c] /\ g = goal[c]
  OBVIOUS
<1> DEFINE n == x.name
<1>2. /\ Len(s) \in Nat \ {0} /\ x = s[1] /\ x \in TypedSteps /\ n \in Names /\ ArgOK(x)
      /\ Doomed(s) \/ Destined(s, g)
  BY <1>1, StepFacts DEF TypedSteps
<1>3. /\ rows \in [Names -> Meta \cup {NoPlan}] /\ TypeInv
      /\ \A m \in Names : StatusOf(m) \in Place
      /\ \A m \in Names : rows[m] # NoPlan => StatusOf(m) \in Status
  BY PlaceTyped DEF SerialInv, TypeInv, StateTypeOK, StoreTypeOK
<1>4. /\ Statuses = [m \in Names |-> StatusOf(m)]
      /\ Statuses' = [m \in Names |-> StatusOf(m)']
  BY DEF Statuses, StatusOf
<1>5. CASE x.do \in {"update", "create"}
  <2>1. rows' = [rows EXCEPT ![n] = x.arg]
    BY <1>5 DEF Execute, Update, Create
  <2>2. \A m \in Names \ {n} : StatusOf(m)' = StatusOf(m)
    BY <2>1, <1>2, <1>3 DEF StatusOf
  <2>3. Statuses' = [Statuses EXCEPT ![n] = StatusOf(n)']
    BY <2>2, <1>2, <1>4
  <2>4. StatusOf(n)' = StatusOf(n) => Statuses' = Statuses
    BY <2>3, <1>2, <1>4
  <2>5. CASE Doomed(s)
    <3>1. x.do = "update"
      BY <2>5, <1>2, <1>5, DoomedHead
    <3>2. MapLegacyStatus(x.arg.status) = StatusOf(n)
      BY <2>5, <3>1, <1>2 DEF Doomed
    <3>3. x.arg # NoPlan
      <4>1. x.arg \in Meta
        BY <1>2, <1>5 DEF ArgOK
      <4> QED BY <4>1, EntryIsThere
    <3>4. StatusOf(n)' = MapLegacyStatus(x.arg.status)
      BY <2>1, <3>3, <1>2, <1>3 DEF StatusOf
    <3> QED BY <2>4, <3>2, <3>4
  <2>6. CASE Destined(s, g)
    <3>1. PICK f : PathOf(s, f)
      BY <2>6 DEF Destined
    <3> DEFINE a == StatusOf(n)
               b == f[2]
    <3>2. Follows(x, a, b)
      BY <3>1, <1>2, FirstFollows
    <3>3. StatusOf(n)' = b
      BY <3>2, <1>2, <1>3, <1>5, ExecuteFollows
    <3>4. CASE x.do = "create"
      <4>1. a = "none" /\ b = "ready"
        BY <3>2, <3>4 DEF Follows
      <4>2. Lifecycle!Register(n)
        BY <4>1, <3>3, <2>3, <1>2, <1>4 DEF Lifecycle!Register, Statuses, StatusOf
      <4> QED BY <4>2, <1>2 DEF Lifecycle!Next
    <3>5. CASE x.do = "update"
      <4>1. Edge(a, b)
        BY <3>2, <3>5 DEF Follows
      <4>2. CASE b = a
        BY <4>2, <3>3, <2>4
      <4>3. CASE \E e \in Event : Allowed(a, e) /\ b = ApplyTransition(a, e)
        <5>1. PICK e \in Event : Allowed(a, e) /\ b = ApplyTransition(a, e)
          BY <4>3
        <5>2. Statuses[n] = a
          BY <1>2, <1>4
        <5>3. Lifecycle!Allowed(Statuses[n], e)
          BY <5>1, <5>2, SameTable
        <5>4. Statuses' = [Statuses EXCEPT ![n] = Lifecycle!ApplyTransition(Statuses[n], e)]
          BY <5>1, <5>2, <3>3, <2>3, SameTable
        <5>5. Lifecycle!Advance(n, e)
          BY <5>3, <5>4 DEF Lifecycle!Advance, Statuses
        <5> QED BY <5>5, <1>2, SameTable DEF Lifecycle!Next
      <4> QED BY <4>1, <4>2, <4>3 DEF Edge
    <3> QED BY <3>4, <3>5, <1>5
  <2> QED BY <2>5, <2>6, <1>2
<1>6. CASE x.do \in {"topic", "content"}
  <2>1. rows' = rows
    BY <1>6 DEF Execute, SetContent, CreateTopic
  <2> QED BY <2>1 DEF Statuses
<1>7. CASE x.do = "rename"
  <2> DEFINE new == x.arg
  <2>1. rows[n] # NoPlan /\ rows[new] = NoPlan /\ new \in Names /\ new # n
    BY <1>2, <1>7 DEF Accepted, RenameOK, ArgOK
  <2>2. rows' = [rows EXCEPT ![new] = rows[n], ![n] = NoPlan]
    BY <1>7 DEF Execute, Rename
  <2>3. /\ StatusOf(n) # "none" /\ StatusOf(new) = "none"
        /\ StatusOf(n)' = "none" /\ StatusOf(new)' = StatusOf(n)
        /\ \A m \in Names \ {n, new} : StatusOf(m)' = StatusOf(m)
    <3>1. StatusOf(n) # "none"
      BY <2>1, <1>2, <1>3 DEF Status
    <3>2. rows'[n] = NoPlan /\ rows'[new] = rows[n]
      BY <2>1, <2>2, <1>2, <1>3
    <3>3. \A m \in Names \ {n, new} : rows'[m] = rows[m]
      BY <2>1, <2>2, <1>2, <1>3
    <3> QED BY <3>1, <3>2, <3>3, <2>1 DEF StatusOf
  <2>4. Statuses' = [Statuses EXCEPT ![new] = Statuses[n], ![n] = "none"]
    BY <2>1, <2>3, <1>2, <1>4
  <2>5. Statuses[n] # "none" /\ Statuses[new] = "none"
    BY <2>1, <2>3, <1>2, <1>4
  <2>6. Lifecycle!Move(n, new)
    BY <2>4, <2>5 DEF Lifecycle!Move, Statuses
  <2> QED BY <2>1, <2>6, <1>2 DEF Lifecycle!Next
<1> QED BY <1>5, <1>6, <1>7 DEF Execute

\* Statuses change along the transition table alone: operations one at a time and
\* without overrides implement PlanLifecycle.
THEOREM ImplementsLifecycleTheorem ==
    Undisturbed /\ ~Overrides => (Spec => ImplementsLifecycle)
<1> SUFFICES ASSUME Undisturbed, ~Overrides PROVE Spec => ImplementsLifecycle
  OBVIOUS
<1>1. ASSUME Init PROVE Lifecycle!Init
  <2>1. TypeInv
    BY <1>1, InitTyped
  <2>2. \A n \in Names : StatusOf(n) \in Status \cup {"none"}
    BY <2>1, PlaceTyped DEF Place
  <2>3. Statuses \in [Names -> Status \cup {"none"}]
    BY <2>2 DEF Statuses, StatusOf
  <2> QED BY <2>3, SameTable DEF Lifecycle!Init, Statuses
<1>2. ASSUME SerialInv, [Next]_vars PROVE [Lifecycle!Next]_Statuses
  <2>1. CASE rows' = rows
    BY <2>1 DEF Statuses
  <2>2. CASE rows' # rows
    <3>1. PICK c \in Clients : ~Idle(c) /\ Accepted(Next1(c)) /\ Execute(Next1(c))
      BY <1>2, <2>2, RowsChange DEF SerialInv
    <3> QED BY <1>2, <3>1, StatementImplements
  <2> QED BY <2>1, <2>2
<1>3. Spec => []SerialInv
  BY SerialInvariant
<1> QED BY <1>1, <1>2, <1>3, PTL DEF Spec, ImplementsLifecycle, Lifecycle!Spec, Statuses

----------------------------------------------------------------------------
(* Files, topics and texts.  Beside the statuses, the operations owe the   *)
(* plans their files, topics and texts: a rename has moved the file before *)
(* it moves the row, a row is written with a topic that is listed or that  *)
(* the next step creates, and the text of a planner goes to the store      *)
(* between the transition and the reload.                                  *)

\* A topic that is listed.
Listed(t) == t \in topics \cup {""}

\* A topic that the steps will create.
Owed(t, s) == \E i \in 1 .. Len(s) : s[i].do = "topic" /\ s[i].arg = t

\* A file without a row is that of a plan whose row is about to follow.
FilesKept ==
    \A m \in Names : file[m] # NoFile =>
       \/ rows[m] # NoPlan
       \/ \E c \in Clients : ~Idle(c) /\ todo[c][1].do = "rename" /\ todo[c][1].arg = m

\* The topic of a plan is listed or about to be.
TopicsKept ==
    \A m \in Names : rows[m] # NoPlan =>
       Listed(rows[m].topic) \/ \E c \in Clients : Owed(rows[m].topic, todo[c])

\* Topics are created right after the row.
TopicsNext(s) ==
    \A i \in 1 .. Len(s) : s[i].do = "topic" =>
       \A j \in 1 .. i - 1 : s[j].do \in {"update", "create"}

\* A finished planner's text is stored just before the reload.
TextOK(s, g) ==
    LET n == s[1].name IN
    /\ s[Len(s)].mode = "always"
    /\ g # None /\ g.status = "ready"
    /\ file[n] # NoFile
    => IF Len(s) = 1 THEN content[n] = file[n]
       ELSE s[Len(s) - 1] = Step("content", n, file[n], "soft")

\* What an operation owes the files, topics and texts.
Tidy(s, g) ==
    /\ s[1].do = "rename" => file[s[1].name] = NoFile
    /\ s[1].do = "write" => rows[s[1].name] # NoPlan
    /\ s[1].do \in {"update", "create"} =>
          Listed(s[1].arg.topic) \/ Owed(s[1].arg.topic, s)
    /\ TopicsNext(s)
    /\ TextOK(s, g)

\* The invariant of files, topics and texts.
CareInv == FilesKept /\ TopicsKept /\ \A c \in Clients : ~Idle(c) => Tidy(todo[c], goal[c])

\* Between operations, files have rows and topics are listed.
LEMMA QuietCare ==
    ASSUME CareInv, Quiet
    PROVE  /\ \A m \in Names : file[m] # NoFile => rows[m] # NoPlan
           /\ \A m \in Names : rows[m] # NoPlan => Listed(rows[m].topic)
<1>1. \A m \in Names : file[m] # NoFile => rows[m] # NoPlan
  BY DEF CareInv, FilesKept, Quiet
<1>2. \A c \in Clients : \A t : ~Owed(t, todo[c])
  <2> TAKE c \in Clients
  <2>1. todo[c] = << >>
    BY DEF Quiet, Idle
  <2>2. Len(todo[c]) = 0
    BY <2>1
  <2>3. \A i : i \notin 1 .. Len(todo[c])
    BY <2>2
  <2> QED BY <2>3 DEF Owed
<1>3. \A m \in Names : rows[m] # NoPlan => Listed(rows[m].topic)
  BY <1>2 DEF CareInv, TopicsKept
<1> QED BY <1>1, <1>3

\* While an operation runs, the topics it has not created are those of its steps.
LEMMA BusyCare ==
    ASSUME SerialInv, CareInv, NEW c \in Clients, ~Idle(c), NEW s, s = todo[c]
    PROVE  /\ Tidy(s, goal[c])
           /\ \A m \in Names : file[m] # NoFile =>
                 rows[m] # NoPlan \/ (s[1].do = "rename" /\ s[1].arg = m)
           /\ \A m \in Names : rows[m] # NoPlan =>
                 Listed(rows[m].topic) \/ Owed(rows[m].topic, s)
           /\ s[1].do \notin {"update", "create", "topic"} =>
                 /\ \A i \in 1 .. Len(s) : s[i].do # "topic"
                 /\ \A m \in Names : rows[m] # NoPlan => Listed(rows[m].topic)
<1>1. Tidy(s, goal[c])
  BY DEF CareInv
<1>2. \A d \in Clients \ {c} : todo[d] = << >>
  BY OpReady
<1>3. \A m \in Names : file[m] # NoFile =>
         rows[m] # NoPlan \/ (s[1].do = "rename" /\ s[1].arg = m)
  BY <1>2 DEF CareInv, FilesKept, Idle
<1>4. \A d \in Clients \ {c} : \A t : ~Owed(t, todo[d])
  <2> TAKE d \in Clients \ {c}
  <2>1. Len(todo[d]) = 0
    BY <1>2
  <2>2. \A i : i \notin 1 .. Len(todo[d])
    BY <2>1
  <2> QED BY <2>2 DEF Owed
<1>5. \A m \in Names : rows[m] # NoPlan => Listed(rows[m].topic) \/ Owed(rows[m].topic, s)
  BY <1>4 DEF CareInv, TopicsKept
<1>6. s[1].do \notin {"update", "create", "topic"} => \A i \in 1 .. Len(s) : s[i].do # "topic"
  <2> SUFFICES ASSUME s[1].do \notin {"update", "create", "topic"}, NEW i \in 1 .. Len(s),
                      s[i].do = "topic"
               PROVE  FALSE
    OBVIOUS
  <2>1. \A j \in 1 .. i - 1 : s[j].do \in {"update", "create"}
    BY <1>1 DEF Tidy, TopicsNext
  <2>2. Len(s) \in Nat
    BY StepFacts
  <2>3. i = 1 \/ 1 \in 1 .. i - 1
    BY <2>2
  <2> QED BY <2>1, <2>3
<1>7. s[1].do \notin {"update", "create", "topic"} =>
         \A m \in Names : rows[m] # NoPlan => Listed(rows[m].topic)
  BY <1>5, <1>6 DEF Owed
<1> QED BY <1>1, <1>3, <1>5, <1>6, <1>7

\* An operation that begins tidily.
LEMMA BeginCare ==
    ASSUME SerialInv, Undisturbed, CareInv, NEW c \in Clients, NEW s, NEW g, Begin(c, s, g),
           s # << >> => Tidy(s, g)',
           \A m \in Names : file'[m] # NoFile =>
              file[m] # NoFile \/ (s # << >> /\ s[1].do = "rename" /\ s[1].arg = m)
    PROVE  CareInv'
<1>1. /\ Quiet /\ UNCHANGED <<rows, topics>>
      /\ todo' = [todo EXCEPT ![c] = s] /\ goal' = [goal EXCEPT ![c] = g]
  BY BeginsFresh DEF Begin
<1>2. /\ todo'[c] = s /\ goal'[c] = g
      /\ \A d \in Clients \ {c} : todo'[d] = << >>
  BY <1>1 DEF Quiet, Idle, SerialInv, TypeInv, ClientTypeOK
<1>3. FilesKept'
  BY <1>1, <1>2, QuietCare DEF FilesKept, Idle
<1>4. TopicsKept'
  BY <1>1, QuietCare DEF TopicsKept, Listed
<1>5. ASSUME NEW d \in Clients, ~Idle(d)' PROVE Tidy(todo[d], goal[d])'
  <2>1. d = c /\ s # << >>
    BY <1>2, <1>5 DEF Idle
  <2>2. Tidy(s, g)'
    BY <2>1
  <2> QED BY <2>1, <2>2, <1>2 DEF Tidy, TopicsNext, TextOK, Listed, Owed
<1> QED BY <1>3, <1>4, <1>5 DEF CareInv

\* A step of the operation under way.
LEMMA StepCare ==
    ASSUME SerialInv, NEW c \in Clients, ~Idle(c), NEW s, NEW g,
           todo' = [todo EXCEPT ![c] = s], goal'[c] = g,
           s # << >> => Tidy(s, g)',
           \A m \in Names : file'[m] # NoFile => rows'[m] # NoPlan,
           \A m \in Names : rows'[m] # NoPlan =>
              Listed(rows[m].topic)' \/ (s # << >> /\ Owed(rows'[m].topic, s))
    PROVE  CareInv'
<1>1. todo'[c] = s /\ \A d \in Clients \ {c} : todo'[d] = << >>
  <2>1. DOMAIN todo = Clients
    BY DEF SerialInv, TypeInv, ClientTypeOK
  <2> QED BY <2>1, OpReady
<1>2. FilesKept'
  BY DEF FilesKept
<1>3. TopicsKept'
  BY <1>1 DEF TopicsKept
<1>4. ASSUME NEW d \in Clients, ~Idle(d)' PROVE Tidy(todo[d], goal[d])'
  <2>1. d = c /\ s # << >>
    BY <1>1, <1>4 DEF Idle
  <2>2. Tidy(s, g)'
    BY <2>1
  <2>3. todo'[d] = s /\ goal'[d] = g
    BY <2>1, <1>1
  <2> QED BY <2>2, <2>3
<1> QED BY <1>2, <1>3, <1>4 DEF CareInv

\* What is left after a step stays tidy.
LEMMA TailTidy ==
    ASSUME NEW s \in Seq(TypedSteps), s # << >>, ShapeOK(s), NEW g, Tidy(s, g),
           s[1].name \in Names, DOMAIN content = Names,
           NEW t, t = Tail(s), t # << >>, NEW h, h = g \/ h = None,
           file' = file,
           s[1].do = "content" => content' = [content EXCEPT ![s[1].name] = s[1].arg]
    PROVE  Tidy(t, h)'
<1>1. /\ t \in Seq(TypedSteps) /\ Len(t) \in Nat \ {0} /\ Len(s) = Len(t) + 1
      /\ \A i \in 1 .. Len(t) : i + 1 \in 2 .. Len(s) /\ t[i] = s[i + 1]
      /\ t[1].name = s[1].name
      /\ t[1].do \notin {"update", "create", "rename", "fetch", "write"}
  BY TailShape
<1> DEFINE l == Len(t)
<1>2. /\ l \in Nat \ {0} /\ Len(s) = l + 1
      /\ \A i \in 1 .. l : t[i] = s[i + 1]
  BY <1>1
<1> HIDE DEF l
<1>3. TopicsNext(t)
  <2> SUFFICES ASSUME NEW i \in 1 .. l, t[i].do = "topic", NEW j \in 1 .. i - 1
               PROVE  t[j].do \in {"update", "create"}
    BY DEF TopicsNext, l
  <2>1. /\ i + 1 \in 1 .. Len(s) /\ j + 1 \in 1 .. (i + 1) - 1 /\ j \in 1 .. l
    BY <1>2
  <2>2. s[i + 1].do = "topic"
    BY <1>2
  <2>3. s[j + 1].do \in {"update", "create"}
    BY <2>1, <2>2 DEF Tidy, TopicsNext
  <2> QED BY <2>1, <2>3, <1>2
<1>4. TextOK(t, h)'
  <2> DEFINE n == s[1].name
  <2> SUFFICES ASSUME t[l].mode = "always", h # None, h.status = "ready", file[n] # NoFile
               PROVE  IF l = 1 THEN content'[n] = file[n]
                      ELSE t[l - 1] = Step("content", n, file[n], "soft")
    BY <1>1 DEF TextOK, l
  <2>1. t[l] = s[Len(s)] /\ Len(s) # 1
    BY <1>2
  <2>2. s[Len(s) - 1] = Step("content", n, file[n], "soft")
    BY <2>1 DEF Tidy, TextOK
  <2>3. CASE l = 1
    <3>1. s[1] = Step("content", n, file[n], "soft")
      BY <2>2, <2>3, <1>2
    <3>2. s[1].do = "content" /\ s[1].arg = file[n]
      BY <3>1 DEF Step
    <3> QED BY <3>2, <2>3
  <2>4. CASE l # 1
    <3>1. l - 1 \in 1 .. l /\ (l - 1) + 1 = Len(s) - 1
      BY <2>4, <1>2
    <3>2. t[l - 1] = s[Len(s) - 1]
      BY <3>1, <1>2
    <3> QED BY <3>2, <2>2, <2>4
  <2> QED BY <2>3, <2>4
<1> QED BY <1>1, <1>3, <1>4 DEF Tidy, TopicsNext

\* A read or a backfill that goes on with a statement stays tidy.
LEMMA HeadTidy ==
    ASSUME NEW s \in Seq(TypedSteps), s # << >>, ShapeOK(s), NEW g, Tidy(s, g),
           NEW x \in TypedSteps, x.name = s[1].name, x.do = "update", x.mode = s[1].mode,
           s[1].do \in {"transition", "backfill"}, Listed(x.arg.topic),
           \A i \in 1 .. Len(s) : s[i].do # "topic",
           NEW u, u = <<x>> \o Tail(s), UNCHANGED <<file, topics>>
    PROVE  Tidy(u, g)'
<1>1. /\ u \in Seq(TypedSteps) /\ Len(u) = Len(s) /\ u[1] = x
      /\ \A i \in 2 .. Len(s) : u[i] = s[i]
  BY HeadReplaced
<1> DEFINE l == Len(s)
<1>2. l \in Nat \ {0} /\ Len(u) = l
  BY <1>1
<1> HIDE DEF l
<1>3. \A i \in 1 .. l : i = 1 \/ i \in 2 .. l
  BY <1>2
<1>4. \A i \in 1 .. l : u[i].do # "topic"
  BY <1>1, <1>3 DEF l
<1>5. TopicsNext(u)
  BY <1>2, <1>4 DEF TopicsNext
<1>6. TextOK(u, g)'
  <2> DEFINE n == s[1].name
  <2> SUFFICES ASSUME u[l].mode = "always", g # None, g.status = "ready", file[n] # NoFile
               PROVE  /\ l # 1
                      /\ u[l - 1] = Step("content", n, file[n], "soft")
    BY <1>1, <1>2 DEF TextOK
  <2>1. l # 1
    <3>1. s[1].mode # "always"
      <4>1. 1 \in 1 .. Len(s)
        BY <1>2 DEF l
      <4> QED BY <4>1 DEF ShapeOK
    <3> QED BY <3>1, <1>1
  <2>2. u[l] = s[l]
    BY <2>1, <1>1, <1>2 DEF l
  <2>3. s[l - 1] = Step("content", n, file[n], "soft")
    BY <2>1, <2>2 DEF Tidy, TextOK, l
  <2>4. l # 2
    <3> SUFFICES ASSUME l = 2 PROVE FALSE
      OBVIOUS
    <3>1. s[1] = Step("content", n, file[n], "soft")
      BY <2>3
    <3>2. s[1].do = "content"
      BY <3>1 DEF Step
    <3> QED BY <3>2
  <2>5. l - 1 \in 2 .. l
    BY <2>1, <2>4, <1>2
  <2> QED BY <2>1, <2>3, <2>5, <1>1 DEF l
<1>7. Listed(x.arg.topic)'
  BY DEF Listed
<1> QED BY <1>1, <1>5, <1>6, <1>7 DEF Tidy, TopicsNext

\* What an error leaves is tidy.
LEMMA LeftTidy ==
    ASSUME NEW s \in Seq(TypedSteps), s # << >>, ShapeOK(s), NEW u, u = Unskippable(Tail(s)),
           u # << >>
    PROVE  Tidy(u, None)'
<1>1. PICK x \in TypedSteps : u = One(x) /\ x.do = "reload"
  BY LeftOver
<1>2. Len(u) = 1 /\ u[1] = x
  BY <1>1 DEF One
<1>3. TopicsNext(u)
  <2>1. Len(u) = 1
    BY <1>2
  <2>2. \A i \in 1 .. Len(u) : i = 1
    BY ONLY <2>1
  <2> QED BY <2>2, <1>1, <1>2 DEF TopicsNext
<1>4. TextOK(u, None)'
  BY DEF TextOK
<1> QED BY <1>1, <1>2, <1>3, <1>4 DEF Tidy, TopicsNext

\* The steps of an operation without statements of its own.
PlainSteps ==
    {step \in TypedSteps :
        /\ step.do \in {"transition", "backfill", "reload", "refresh", "spawn"}
        /\ step.mode # "always"}

\* Such an operation is tidy.
LEMMA PlainTidy ==
    ASSUME NEW s \in Seq(PlainSteps), s # << >>, NEW g PROVE Tidy(s, g)'
<1>1. Len(s) \in Nat \ {0} /\ \A i \in 1 .. Len(s) : s[i] \in PlainSteps
  OBVIOUS
<1>2. 1 \in 1 .. Len(s) /\ Len(s) \in 1 .. Len(s)
  BY <1>1
<1>3. \A i \in 1 .. Len(s) : s[i].do \notin {"topic", "rename", "write", "update", "create"}
  BY <1>1 DEF PlainSteps
<1>4. s[Len(s)].mode # "always"
  BY <1>1, <1>2 DEF PlainSteps
<1>5. TextOK(s, g)'
  BY <1>4 DEF TextOK
<1> QED BY <1>2, <1>3, <1>5 DEF Tidy, TopicsNext

\* What plain operations are put together from.
LEMMA PlainParts ==
    ASSUME NEW n \in Names
    PROVE  /\ Backfill(n) \in Seq(PlainSteps) /\ Reload(n) \in Seq(PlainSteps)
           /\ Spawn(n) \in Seq(PlainSteps)
           /\ << Step("backfill", n, "", "soft") >> \in Seq(PlainSteps)
           /\ << Step("refresh", n, "", "must") >> \in Seq(PlainSteps)
           /\ << Step("transition", n, "implement_finished", "soft") >> \in Seq(PlainSteps)
           /\ \A w \in Seq(Event) : Transitions(n, w) \in Seq(PlainSteps)
<1>1. \A do \in {"backfill", "reload", "spawn", "refresh"}, mode \in {"must", "soft"} :
         Step(do, n, "", mode) \in PlainSteps
  <2> TAKE do \in {"backfill", "reload", "spawn", "refresh"}, mode \in {"must", "soft"}
  <2>1. Step(do, n, "", mode) \in TypedSteps
    BY StepTyped DEF Do, Arg, ArgOK, Step, Text, Mode
  <2> QED BY <2>1 DEF PlainSteps, Step
<1>2. \A e \in Event, mode \in {"must", "soft"} :
         Step("transition", n, e, mode) \in PlainSteps
  <2> TAKE e \in Event, mode \in {"must", "soft"}
  <2>1. Step("transition", n, e, mode) \in TypedSteps
    BY StepTyped DEF Do, Arg, ArgOK, Step, Mode
  <2> QED BY <2>1 DEF PlainSteps, Step
<1>3. \A step \in PlainSteps : <<step>> \in Seq(PlainSteps)
  OBVIOUS
<1>4. /\ Step("backfill", n, "", "must") \in PlainSteps
      /\ Step("reload", n, "", "must") \in PlainSteps
      /\ Step("spawn", n, "", "must") \in PlainSteps
      /\ Step("backfill", n, "", "soft") \in PlainSteps
      /\ Step("refresh", n, "", "must") \in PlainSteps
  BY <1>1
<1>5. Step("transition", n, "implement_finished", "soft") \in PlainSteps
  BY <1>2 DEF Event
<1>6. \A w \in Seq(Event) : Transitions(n, w) \in Seq(PlainSteps)
  <2> TAKE w \in Seq(Event)
  <2>1. Len(w) \in Nat /\ \A i \in 1 .. Len(w) : w[i] \in Event
    OBVIOUS
  <2>2. \A i \in 1 .. Len(w) : Step("transition", n, w[i], "must") \in PlainSteps
    BY <2>1, <1>2
  <2> QED BY <2>1, <2>2 DEF Transitions
<1> QED BY <1>3, <1>4, <1>5, <1>6, Zenon DEF Backfill, Reload, Spawn

\* The stages, the context menu and the end of an implementation are plain.
LEMMA StagePlain ==
    ASSUME NEW n \in Names,
           \/ StagePlan(n) \/ StageSolo(n) \/ StageImplement(n) \/ StageReview(n)
           \/ StageFinished(n) \/ StageRefused(n) \/ MarkPlanDone(n) \/ RequestReview(n)
           \/ ResumeImplement(n) \/ ModifyPlan(n) \/ ImplementationComplete(n)
    PROVE  /\ file' = file
           /\ \E s \in Seq(PlainSteps) : \E g : Begin("tui", s, g)
<1> DEFINE Seqs == Seq(PlainSteps)
           Plain(s, g) == s \in Seqs /\ Begin("tui", s, g)
<1>c. \A x \in Seqs, y \in Seqs : x \o y \in Seqs
  OBVIOUS
<1>a. /\ Backfill(n) \in Seqs /\ Reload(n) \in Seqs /\ Spawn(n) \in Seqs
      /\ << Step("backfill", n, "", "soft") >> \in Seqs
      /\ << Step("transition", n, "implement_finished", "soft") >> \in Seqs
      /\ \A w \in Seq(Event) : Transitions(n, w) \in Seqs
  BY PlainParts
<1>f. /\ <<"plan_start">> \in Seq(Event) /\ <<"review_approved">> \in Seq(Event)
      /\ <<"request_review">> \in Seq(Event) /\ <<"reimplement">> \in Seq(Event)
  BY OneEvent DEF Event
<1>p. \A s \in Seqs : \A g : Begin("tui", s, g) => \E u \in Seqs : \E v : Begin("tui", u, v)
  OBVIOUS
<1>u. \A s, g : UserBegins(n, s, g) => Begin("tui", s, g)
  BY DEF UserBegins
<1>0. file' = file
  BY DEF StagePlan, StageSolo, StageImplement, StageReview, StageFinished, StageRefused,
         MarkPlanDone, RequestReview, ResumeImplement, ModifyPlan, ImplementationComplete
<1> HIDE DEF Seqs
<1> SUFFICES \E s \in Seqs : \E g : Begin("tui", s, g)
  BY <1>0 DEF Seqs
<1>1. CASE StagePlan(n)
  <2>1. Backfill(n) \o Transitions(n, <<"plan_start">>) \o Reload(n) \o Spawn(n) \in Seqs
    BY <1>c, <1>a, <1>f
  <2> QED BY <1>1, <2>1, <1>u, <1>p DEF StagePlan
<1>2. CASE StageSolo(n)
  <2>1. Backfill(n) \o Transitions(n, SetImplementingWalk(cache[n].status))
          \o Reload(n) \o Spawn(n) \in Seqs
    BY <1>c, <1>a, WalksTyped
  <2> QED BY <1>2, <2>1, <1>u, <1>p DEF StageSolo
<1>3. CASE StageImplement(n)
  <2>1. Backfill(n) \o Transitions(n, RevertToPlanningWalk(cache[n].status))
          \o Reload(n) \o Spawn(n) \in Seqs
    BY <1>c, <1>a, WalksTyped
  <2>2. Backfill(n) \o Transitions(n, SetImplementingWalk(cache[n].status))
          \o Reload(n) \in Seqs
    BY <1>c, <1>a, WalksTyped
  <2> QED BY <1>3, <2>1, <2>2, <1>u, <1>p DEF StageImplement
<1>4. CASE StageReview(n)
  <2>1. Backfill(n) \o Transitions(n, SetReviewingWalk(cache[n].status))
          \o Reload(n) \in Seqs
    BY <1>c, <1>a, WalksTyped
  <2> QED BY <1>4, <2>1, <1>u, <1>p DEF StageReview
<1>5. CASE StageFinished(n)
  <2>1. Backfill(n) \o Transitions(n, <<"review_approved">>) \o Reload(n) \in Seqs
    BY <1>c, <1>a, <1>f
  <2> QED BY <1>5, <2>1, <1>u, <1>p DEF StageFinished
<1>6. CASE StageRefused(n)
  BY <1>6, <1>a, <1>u, <1>p DEF StageRefused
<1>7. CASE MarkPlanDone(n)
  <2>1. Transitions(n, MarkDoneWalk(cache[n].status, cache[n].status))
          \o Reload(n) \in Seqs
    BY <1>c, <1>a, WalksTyped
  <2> QED BY <1>7, <2>1, <1>u, <1>p DEF MarkPlanDone
<1>8. CASE RequestReview(n)
  <2>1. Transitions(n, <<"request_review">>) \o Reload(n)
          \o << Step("backfill", n, "", "soft") >> \in Seqs
    BY <1>c, <1>a, <1>f
  <2> QED BY <1>8, <2>1, <1>u, <1>p DEF RequestReview
<1>9. CASE ResumeImplement(n)
  <2>1. Transitions(n, <<"reimplement">>) \o Reload(n) \in Seqs
    BY <1>c, <1>a, <1>f
  <2> QED BY <1>9, <2>1, <1>u, <1>p DEF ResumeImplement
<1>10. CASE ModifyPlan(n)
  <2>1. Transitions(n, <<"plan_start">>) \o Reload(n) \o Spawn(n) \in Seqs
    BY <1>c, <1>a, <1>f
  <2> QED BY <1>10, <2>1, <1>u, <1>p DEF ModifyPlan
<1>11. CASE ImplementationComplete(n)
  <2>1. << Step("transition", n, "implement_finished", "soft") >> \o Reload(n)
          \o << Step("backfill", n, "", "soft") >> \in Seqs
    BY <1>c, <1>a
  <2> QED BY <1>11, <2>1, <1>p DEF ImplementationComplete
<1> QED BY <1>1, <1>2, <1>3, <1>4, <1>5, <1>6, <1>7, <1>8, <1>9, <1>10, <1>11

\* The confirmed actions are plain.
LEMMA ConfirmPlain ==
    ASSUME SerialInv, NEW c \in Goroutines, ConfirmDialog(c)
    PROVE  /\ file' = file
           /\ \E s \in Seq(PlainSteps) : \E g : Begin(c, s, g)
<1> DEFINE n == dialog.name
           Seqs == Seq(PlainSteps)
           cached == cache[n].status
           refresh == << Step("refresh", n, "", "must") >>
           after == Reload(n) \o refresh
<1>1. n \in Names
  BY DEF ConfirmDialog, SerialInv, TypeInv, StateTypeOK
<1>c. \A x \in Seqs, y \in Seqs : x \o y \in Seqs
  OBVIOUS
<1>p. \A s \in Seqs : \A g : Begin(c, s, g) => \E u \in Seqs : \E v : Begin(c, u, v)
  OBVIOUS
<1>2. /\ Reload(n) \in Seqs /\ refresh \in Seqs
      /\ \A w \in Seq(Event) : Transitions(n, w) \in Seqs
  BY <1>1, PlainParts
<1>3. /\ <<"cancel">> \in Seq(Event) /\ MarkDoneWalk(dialog.meta.status, cached) \in Seq(Event)
      /\ ForceToPlanningWalk(cached) \in Seq(Event)
  BY WalksTyped, WalkEvents
<1>4. file' = file
  BY DEF ConfirmDialog
<1> HIDE DEF Seqs
<1>5. /\ Transitions(n, <<"cancel">>) \o refresh \in Seqs
      /\ Transitions(n, MarkDoneWalk(dialog.meta.status, cached)) \o after \in Seqs
      /\ Transitions(n, ForceToPlanningWalk(cached)) \o after \in Seqs
  BY <1>2, <1>3, <1>c
<1>6. \/ Begin(c, Transitions(n, <<"cancel">>) \o refresh, Announce(n, "cancelled"))
      \/ Begin(c, Transitions(n, MarkDoneWalk(dialog.meta.status, cached)) \o after,
               Announce(n, "done"))
      \/ Begin(c, Transitions(n, ForceToPlanningWalk(cached)) \o after,
               Announce(n, "planning"))
  BY DEF ConfirmDialog
<1>7. \E s \in Seqs : \E g : Begin(c, s, g)
  BY <1>5, <1>6, <1>p
<1> QED BY <1>4, <1>7 DEF Seqs

\* Plain operations begin tidily.
LEMMA PlainCare ==
    ASSUME SerialInv, Undisturbed, CareInv,
           \/ \E n \in Names :
                 \/ StagePlan(n) \/ StageSolo(n) \/ StageImplement(n) \/ StageReview(n)
                 \/ StageFinished(n) \/ StageRefused(n) \/ MarkPlanDone(n) \/ RequestReview(n)
                 \/ ResumeImplement(n) \/ ModifyPlan(n) \/ ImplementationComplete(n)
           \/ \E c \in Goroutines : ConfirmDialog(c)
    PROVE  CareInv'
<1>1. file' = file /\ \E c \in Clients : \E s \in Seq(PlainSteps) : \E g : Begin(c, s, g)
  <2>1. \A c \in Goroutines : c \in Clients
    BY ClientNames
  <2>2. "tui" \in Clients
    BY ClientNames
  <2> QED BY <2>1, <2>2, StagePlain, ConfirmPlain
<1>2. PICK c \in Clients : \E s \in Seq(PlainSteps) : \E g : Begin(c, s, g)
  BY <1>1
<1>3. PICK s \in Seq(PlainSteps) : \E g : Begin(c, s, g)
  BY <1>2
<1>4. PICK g : Begin(c, s, g)
  BY <1>3
<1>5. s # << >> => Tidy(s, g)'
  BY PlainTidy
<1> QED BY <1>1, <1>4, <1>5, BeginCare

\* A picker's steps are tidy if its topic is listed or follows.
LEMMA PickTidy ==
    ASSUME NEW n, NEW x, NEW s, NEW g, PickOK(n, x, s),
           Listed(x.arg.topic)' \/ Owed(x.arg.topic, s),
           \A i \in 1 .. Len(s) : s[i].do = "topic" => i = 2
    PROVE  Tidy(s, g)'
<1>1. Len(s) \in Nat \ {0} /\ s[1] = x /\ s[1].do \in {"update", "create"}
  BY DEF PickOK
<1>2. TopicsNext(s)
  <2> SUFFICES ASSUME NEW i \in 1 .. Len(s), s[i].do = "topic", NEW j \in 1 .. i - 1
               PROVE  s[j].do \in {"update", "create"}
    BY DEF TopicsNext
  <2>1. i = 2
    OBVIOUS
  <2>2. j = 1
    BY <2>1
  <2> QED BY <2>2, <1>1
<1>3. s[Len(s)].mode # "always"
  <2>1. Len(s) \in 1 .. Len(s)
    BY <1>1
  <2> QED BY <2>1 DEF PickOK
<1>4. TextOK(s, g)'
  BY <1>3 DEF TextOK
<1> QED BY <1>1, <1>2, <1>4 DEF Tidy, TopicsNext, Owed

\* One step and two, by their places.
LEMMA FewFacts ==
    ASSUME NEW x \in TypedSteps, NEW y \in TypedSteps
    PROVE  /\ One(x) \in Seq(TypedSteps) /\ Len(One(x)) = 1 /\ One(x)[1] = x
           /\ One(x) \o << >> = One(x)
           /\ Len(Two(x, y)) = 2 /\ Two(x, y)[1] = x /\ Two(x, y)[2] = y
<1> DEFINE a == One(x)
           b == One(y)
           c == Two(x, y)
<1>1. a \in Seq(TypedSteps) /\ Len(a) = 1 /\ a[1] = x
  BY DEF One
<1>2. Len(c) = 2 /\ c[1] = x /\ c[2] = y
  BY DEF Two
<1> HIDE DEF a, b, c
<1>3. a \o << >> = a
  BY <1>1
<1> QED BY <1>1, <1>2, <1>3 DEF a, c

\* The places of a short sequence.
LEMMA FewPlaces ==
    ASSUME NEW s
    PROVE  /\ Len(s) = 1 => \A i \in 1 .. Len(s) : i = 1
           /\ Len(s) = 2 => \A i \in 1 .. Len(s) : i = 1 \/ i = 2
           /\ Len(s) = 3 => \A i \in 1 .. Len(s) : i = 1 \/ i = 2 \/ i = 3
           /\ Len(s) = 2 \/ Len(s) = 3 => 2 \in 1 .. Len(s)
<1> DEFINE l == Len(s)
<1> HIDE DEF l
<1>1. /\ l = 1 => \A i \in 1 .. l : i = 1
      /\ l = 2 => \A i \in 1 .. l : i = 1 \/ i = 2
      /\ l = 3 => \A i \in 1 .. l : i = 1 \/ i = 2 \/ i = 3
      /\ l = 2 \/ l = 3 => 2 \in 1 .. l
  OBVIOUS
<1> QED BY <1>1 DEF l

\* Three steps, by their places.
LEMMA ThreePlaces ==
    ASSUME NEW x, NEW y, NEW z, x \in TypedSteps, y \in TypedSteps, z \in TypedSteps,
           NEW s, s = Three(x, y, z)
    PROVE  Len(s) = 3 /\ s[1] = x /\ s[2] = y /\ s[3] = z
BY ThreeInARow

\* A picker creates its topic in its second step.
LEMMA PickTopics ==
    ASSUME NEW x \in TypedSteps, x.do # "topic", NEW r \in TypedSteps, r.do # "topic",
           NEW n \in Names, NEW t, t \in Topics \cup {""},
           NEW s, \/ s = <<x>> \o TopicStep(n, t)
                  \/ s = <<x>> \o TopicStep(n, t) \o <<r>>
    PROVE  /\ \A i \in 1 .. Len(s) : s[i].do = "topic" => i = 2
           /\ t = "" \/ Owed(t, s)
<1> DEFINE y == Step("topic", n, t, "must")
<1>1. y.do = "topic" /\ y.arg = t
  BY DEF Step
<1>2. t # "" => y \in TypedSteps
  BY StepTyped DEF Do, Arg, ArgOK, Step, Mode
<1>3. TopicStep(n, t) = IF t = "" THEN << >> ELSE << y >>
  BY DEF TopicStep
<1> HIDE DEF y
<1>4. CASE t = ""
  <2>1. One(x) \o << >> = One(x)
    BY FewFacts
  <2>2. s = One(x) \/ s = Two(x, r)
    BY <2>1, <1>3, <1>4 DEF One, Two
  <2>3. ASSUME s = One(x) PROVE Len(s) = 1 /\ s[1] = x
    BY <2>3, FewFacts
  <2>4. ASSUME s = Two(x, r) PROVE Len(s) = 2 /\ s[1] = x /\ s[2] = r
    BY <2>4, FewFacts
  <2>5. ASSUME NEW i \in 1 .. Len(s) PROVE s[i].do # "topic"
    <3>1. CASE s = One(x)
      <4>1. i = 1
        BY <3>1, <2>3, FewPlaces
      <4> QED BY <4>1, <3>1, <2>3
    <3>2. CASE s = Two(x, r)
      <4>1. i = 1 \/ i = 2
        BY <3>2, <2>4, FewPlaces
      <4> QED BY <4>1, <3>2, <2>4
    <3> QED BY <3>1, <3>2, <2>2
  <2> QED BY <2>5, <1>4
<1>5. CASE t # ""
  <2>1. s = Two(x, y) \/ s = Three(x, y, r)
    BY <1>3, <1>5 DEF Two, Three
  <2>2. ASSUME s = Two(x, y) PROVE Len(s) = 2 /\ s[1] = x /\ s[2] = y
    <3>1. x \in TypedSteps /\ y \in TypedSteps
      BY <1>2, <1>5
    <3> QED BY ONLY <3>1, <2>2, FewFacts
  <2>3. ASSUME s = Three(x, y, r)
        PROVE  Len(s) = 3 /\ s[1] = x /\ s[2] = y /\ s[3] = r
    <3>1. x \in TypedSteps /\ y \in TypedSteps /\ r \in TypedSteps
      BY <1>2, <1>5
    <3> QED BY ONLY <3>1, <2>3, ThreePlaces
  <2>4. ASSUME NEW i \in 1 .. Len(s), s[i].do = "topic" PROVE i = 2
    <3>1. CASE s = Two(x, y)
      <4>1. i = 1 \/ i = 2
        BY <3>1, <2>2, FewPlaces
      <4> QED BY <4>1, <3>1, <2>2, <2>4
    <3>2. CASE s = Three(x, y, r)
      <4>1. i = 1 \/ i = 2 \/ i = 3
        BY <3>2, <2>3, FewPlaces
      <4> QED BY <4>1, <3>2, <2>3, <2>4
    <3> QED BY <3>1, <3>2, <2>1
  <2>5. 2 \in 1 .. Len(s) /\ s[2] = y
    <3>1. (Len(s) = 2 \/ Len(s) = 3) /\ s[2] = y
      BY <2>1, <2>2, <2>3
    <3> QED BY <3>1, FewPlaces
  <2>6. Owed(t, s)
    BY <2>5, <1>1 DEF Owed
  <2> QED BY <2>4, <2>6
<1> QED BY <1>4, <1>5

\* The topic and status pickers, and a new plan, begin tidily.
LEMMA PickersCare ==
    ASSUME SerialInv, Undisturbed, CareInv, NEW n \in Names,
           \/ \E t \in Topics \cup {""} : ChangeTopic(n, t) \/ CreatePlan(n, t)
           \/ \E s \in Status : SetStatus(n, s)
    PROVE  CareInv'
<1>h. cache \in [Names -> Meta \cup {NoPlan}]
  BY DEF SerialInv, TypeInv, StateTypeOK
<1>m. "must" \in Mode
  BY DEF Mode
<1>r. Step("reload", n, "", "must") \in TypedSteps /\ Step("reload", n, "", "must").do = "reload"
  BY <1>m, StepTyped DEF Do, Arg, ArgOK, Step, Text
<1>w. \A e \in Meta :
         /\ Step("update", n, e, "must") \in TypedSteps
         /\ Step("create", n, e, "must") \in TypedSteps
         /\ Step("update", n, e, "must").arg = e /\ Step("create", n, e, "must").arg = e
         /\ Step("update", n, e, "must").do = "update"
         /\ Step("create", n, e, "must").do = "create"
  BY <1>m, StepTyped DEF Do, Arg, ArgOK, Step
<1>1. ASSUME NEW s, NEW g, NEW x, Begin("tui", s, g), PickOK(n, x, s), file' = file,
             x.arg.topic = "" \/ Owed(x.arg.topic, s)
                \/ (rows[n] # NoPlan /\ x.arg.topic = rows[n].topic),
             \A i \in 1 .. Len(s) : s[i].do = "topic" => i = 2
      PROVE  CareInv'
  <2>1. Quiet /\ "tui" \in Clients /\ topics' = topics
    BY <1>1, BeginsFresh, ClientNames DEF Begin
  <2>2. Listed(x.arg.topic)' \/ Owed(x.arg.topic, s)
    BY <2>1, <1>1, QuietCare DEF Listed
  <2>3. Tidy(s, g)'
    BY <2>2, <1>1, PickTidy
  <2> QED BY <2>1, <2>3, <1>1, BeginCare
<1>2. ASSUME NEW t \in Topics \cup {""}, ChangeTopic(n, t) PROVE CareInv'
  <2> DEFINE e == [cache[n] EXCEPT !.topic = t]
             x == Step("update", n, e, "must")
  <2>1. cache[n] # NoPlan /\ Begin("tui", SetTopicSteps(n, e), None) /\ file' = file
    BY <1>2 DEF ChangeTopic, UserBegins
  <2>2. e \in Meta /\ e.topic = t
    <3>1. cache[n] \in Meta
      BY <1>h, <2>1, EntryTyped
    <3> QED BY <3>1, ReplacedTyped DEF Meta
  <2>3. PickOK(n, x, SetTopicSteps(n, e))
    BY <2>2, PickerSteps
  <2>4. SetTopicSteps(n, e) = <<x>> \o TopicStep(n, t)
    BY <2>2 DEF SetTopicSteps
  <2>5. x \in TypedSteps /\ x.do # "topic" /\ x.arg.topic = t
    BY <2>2, <1>w
  <2> HIDE DEF e, x
  <2>6. PICK s : s = SetTopicSteps(n, e)
    OBVIOUS
  <2>7. /\ \A i \in 1 .. Len(s) : s[i].do = "topic" => i = 2
        /\ t = "" \/ Owed(t, s)
    BY <2>4, <2>5, <2>6, <1>r, PickTopics
  <2> QED BY <2>1, <2>3, <2>5, <2>6, <2>7, <1>1
<1>3. ASSUME NEW t \in Topics \cup {""}, CreatePlan(n, t) PROVE CareInv'
  <2> DEFINE e == NewEntry(t)
             x == Step("create", n, e, "must")
             r == Step("reload", n, "", "must")
  <2>1. Begin("tui", CreateSteps(n, t) \o Reload(n), Announce(n, "ready")) /\ file' = file
    BY <1>3 DEF CreatePlan, UserBegins
  <2>2. e \in Meta /\ e.topic = t
    BY DEF Meta, Status, NewEntry
  <2>3. PickOK(n, x, CreateSteps(n, t) \o Reload(n))
    BY <2>2, PickerSteps
  <2>4. CreateSteps(n, t) \o Reload(n) = <<x>> \o TopicStep(n, t) \o <<r>>
    BY DEF CreateSteps, Reload
  <2>5. /\ x \in TypedSteps /\ x.do # "topic" /\ x.arg.topic = t
        /\ r \in TypedSteps /\ r.do # "topic"
    BY <2>2, <1>w, <1>r
  <2> HIDE DEF e, x, r
  <2>6. PICK s : s = CreateSteps(n, t) \o Reload(n)
    OBVIOUS
  <2>7. /\ \A i \in 1 .. Len(s) : s[i].do = "topic" => i = 2
        /\ t = "" \/ Owed(t, s)
    BY <2>4, <2>5, <2>6, PickTopics
  <2> QED BY <2>1, <2>3, <2>5, <2>6, <2>7, <1>1
<1>4. ASSUME NEW st \in Status, SetStatus(n, st) PROVE CareInv'
  <2> DEFINE e == [cache[n] EXCEPT !.status = st]
             x == Step("update", n, e, "must")
             r == Step("reload", n, "", "must")
  <2>1. /\ cache[n] # NoPlan /\ file' = file
        /\ Begin("tui", << x >> \o Reload(n), Announce(n, st))
    BY <1>4 DEF SetStatus, UserBegins
  <2>2. cache = rows
    BY <2>1, BeginsFresh, ClientNames
  <2>3. e \in Meta /\ e.topic = cache[n].topic
    <3>1. cache[n] \in Meta
      BY <1>h, <2>1, EntryTyped
    <3> QED BY <3>1, ReplacedTyped DEF Meta
  <2>4. PickOK(n, x, << x >> \o Reload(n))
    BY <2>3, PickerSteps
  <2>5. x \in TypedSteps /\ x.do # "topic" /\ x.arg.topic = rows[n].topic /\ rows[n] # NoPlan
    BY <2>1, <2>2, <2>3, <1>w
  <2>6. << x >> \o Reload(n) = Two(x, r) /\ r \in TypedSteps /\ r.do # "topic"
    BY <1>r DEF Reload, Two
  <2> HIDE DEF e, x, r
  <2>7. PICK s : s = << x >> \o Reload(n)
    OBVIOUS
  <2>8. Len(s) = 2 /\ s[1] = x /\ s[2] = r
    <3>1. Len(Two(x, r)) = 2 /\ Two(x, r)[1] = x /\ Two(x, r)[2] = r
      BY <2>5, <2>6, FewFacts, Zenon
    <3> QED BY <3>1, <2>6, <2>7
  <2>9. \A i \in 1 .. Len(s) : s[i].do = "topic" => i = 2
    <3>1. \A i \in 1 .. Len(s) : i = 1 \/ i = 2
      BY <2>8, FewPlaces
    <3> QED BY <3>1, <2>5, <2>8
  <2> QED BY <2>1, <2>4, <2>5, <2>7, <2>9, <1>1
<1> QED BY <1>2, <1>3, <1>4

\* An import begins tidily.
LEMMA ImportCare ==
    ASSUME SerialInv, Undisturbed, CareInv, NEW n \in Names, ImportClickUpTask(n)
    PROVE  CareInv'
<1> DEFINE e == NewEntry("")
           x == Step("create", n, e, "must")
           y == Step("content", n, "text", "must")
           z == Step("transition", n, "plan_start", "soft")
           r == Step("reload", n, "", "must")
           sp == Step("spawn", n, "", "must")
<1>1. Begin("tui", Imported(x, y, z, r, sp), None) /\ file' = file
  BY DEF ImportClickUpTask, Imported, RegisterSteps, Reload, Spawn
<1>2. e \in Meta /\ e.topic = ""
  BY DEF NewEntry, Meta, Status
<1> HIDE DEF e
<1>3. /\ x \in TypedSteps /\ y \in TypedSteps /\ z \in TypedSteps
      /\ r \in TypedSteps /\ sp \in TypedSteps
  <2>1. "must" \in Mode /\ "soft" \in Mode
    BY DEF Mode
  <2>2. x \in TypedSteps
    BY <1>2, <2>1, StepTyped DEF Do, Arg, ArgOK, Step
  <2>3. y \in TypedSteps
    BY <2>1, StepTyped DEF Do, Arg, ArgOK, Step, Text
  <2>4. z \in TypedSteps
    BY <2>1, StepTyped DEF Do, Arg, ArgOK, Step, Event
  <2>5. r \in TypedSteps /\ sp \in TypedSteps
    BY <2>1, StepTyped DEF Do, Arg, ArgOK, Step, Text
  <2> QED BY <2>2, <2>3, <2>4, <2>5
<1>4. /\ x.do = "create" /\ x.arg = e /\ y.do = "content" /\ z.do = "transition"
      /\ r.do = "reload" /\ sp.do = "spawn" /\ sp.mode = "must"
  BY DEF Step
<1>5. PICK s : s = Imported(x, y, z, r, sp)
  OBVIOUS
<1> HIDE DEF x, y, z, r, sp
<1>6. /\ Len(s) = 5
      /\ s[1] = x /\ s[2] = y /\ s[3] = z /\ s[4] = r /\ s[5] = sp
  <2>1. /\ Len(Imported(x, y, z, r, sp)) = 5
        /\ Imported(x, y, z, r, sp)[1] = x /\ Imported(x, y, z, r, sp)[2] = y
        /\ Imported(x, y, z, r, sp)[3] = z /\ Imported(x, y, z, r, sp)[4] = r
        /\ Imported(x, y, z, r, sp)[5] = sp
    BY <1>3, ImportedSteps
  <2> QED BY <2>1, <1>5
<1>7. \A i \in 1 .. Len(s) : i \in {1, 2, 3, 4, 5}
  BY <1>6
<1>8. \A i \in 1 .. Len(s) : s[i].do # "topic"
  BY <1>4, <1>6, <1>7
<1>9. TextOK(s, None)'
  BY DEF TextOK
<1>10. Listed(s[1].arg.topic)'
  BY <1>2, <1>4, <1>6 DEF Listed
<1>11. Tidy(s, None)'
  BY <1>4, <1>6, <1>8, <1>9, <1>10 DEF Tidy, TopicsNext
<1> QED BY <1>1, <1>5, <1>11, BeginCare, ClientNames

\* A rename begins tidily: the file has gone with it.
LEMMA RenameCare ==
    ASSUME SerialInv, Undisturbed, CareInv, NEW old \in Names, NEW new \in Names,
           RenamePlan(old, new)
    PROVE  CareInv'
<1> DEFINE x == Step("rename", old, new, "must")
<1>1. /\ Begin("tui", One(x), None) /\ old # new
      /\ file' = IF file[old] = NoFile
                 THEN file
                 ELSE [file EXCEPT ![new] = file[old], ![old] = NoFile]
  BY DEF RenamePlan, UserBegins, One
<1>2. file \in [Names -> Text \cup {NoFile}]
  BY DEF SerialInv, TypeInv, StateTypeOK
<1>3. file'[old] = NoFile /\ \A m \in Names \ {new} : file'[m] # NoFile => file[m] # NoFile
  BY <1>1, <1>2
<1>4. x.do = "rename" /\ x.name = old /\ x.arg = new /\ x.mode = "must"
  BY DEF Step
<1> HIDE DEF x
<1>5. PICK s : s = One(x)
  OBVIOUS
<1>6. Len(s) = 1 /\ s[1] = x
  BY <1>5 DEF One
<1>7. s # << >>
  BY <1>6
<1>8. \A i \in 1 .. Len(s) : i = 1
  BY <1>6
<1>9. TextOK(s, None)'
  BY DEF TextOK
<1>10. Tidy(s, None)'
  BY <1>3, <1>4, <1>6, <1>8, <1>9 DEF Tidy, TopicsNext
<1>11. \A m \in Names : file'[m] # NoFile =>
          file[m] # NoFile \/ (s # << >> /\ s[1].do = "rename" /\ s[1].arg = m)
  BY <1>3, <1>4, <1>6, <1>7
<1> QED BY <1>1, <1>5, <1>10, <1>11, BeginCare, ClientNames

\* A signal begins tidily: the text of a planner is stored after its transition.
LEMMA SignalCare ==
    ASSUME SerialInv, Undisturbed, CareInv, NEW n \in Names, NEW event \in SentinelEvent,
           Signal(n, event)
    PROVE  CareInv'
<1> DEFINE x == Step("transition", n, event, "must")
           y == Step("content", n, file[n], "soft")
           z == Step("reload", n, "", "always")
           g == Announce(n, SentinelTarget(event))
           text == IF event = "planner_finished" /\ file[n] # NoFile
                   THEN << y >> ELSE << >>
           first == Transitions(n, <<event>>)
           s == first \o text \o << z >>
<1>1. Begin("tui", s, g) /\ file' = file
  BY DEF Signal
<1>2. event \in Event /\ g.name = n /\ (g.status = "ready" => event = "planner_finished")
  BY DEF SentinelEvent, Event, Announce, SentinelTarget
<1>3. x \in TypedSteps /\ z \in TypedSteps /\ (file[n] # NoFile => y \in TypedSteps)
  <2>1. "must" \in Mode /\ "soft" \in Mode /\ "always" \in Mode
    BY DEF Mode
  <2>2. x \in TypedSteps
    BY <1>2, <2>1, StepTyped DEF Do, Arg, ArgOK, Step
  <2>3. z \in TypedSteps
    BY <2>1, StepTyped DEF Do, Arg, ArgOK, Step, Text
  <2>4. file[n] # NoFile => y \in TypedSteps
    <3>1. file[n] # NoFile => file[n] \in Text
      BY DEF SerialInv, TypeInv, StateTypeOK
    <3> QED BY <2>1, <3>1, StepTyped DEF Do, Arg, ArgOK, Step
  <2> QED BY <2>2, <2>3, <2>4
<1>4. /\ x.do = "transition" /\ x.name = n /\ y.do = "content" /\ z.do = "reload"
  BY DEF Step
<1>5. first = One(x)
  <2>1. Len(<<event>>) = 1 /\ <<event>>[1] = event
    OBVIOUS
  <2>2. first = [i \in 1 .. 1 |-> x]
    BY <2>1 DEF Transitions
  <2> QED BY <2>2 DEF One
<1>6. One(x) \o << >> = One(x)
  BY <1>3, FewFacts
<1>7. \/ s = Three(x, y, z) /\ file[n] # NoFile
      \/ s = Two(x, z) /\ ~(event = "planner_finished" /\ file[n] # NoFile)
  BY <1>5, <1>6 DEF One, Two, Three
<1>e. y = Step("content", n, file[n], "soft")
  OBVIOUS
<1> HIDE DEF x, y, z, g, text, first, s
<1>8. PICK u : u = s
  OBVIOUS
<1>9. ASSUME s = Three(x, y, z), file[n] # NoFile
      PROVE  Len(u) = 3 /\ u[1] = x /\ u[2] = y /\ u[3] = z
  BY <1>9, <1>3, <1>8, ThreeInARow
<1>10. ASSUME s = Two(x, z) PROVE Len(u) = 2 /\ u[1] = x /\ u[2] = z
  BY <1>10, <1>3, <1>8, FewFacts
<1>11. /\ u[1] = x /\ \A i \in 1 .. Len(u) : u[i].do # "topic"
  <2>1. CASE s = Three(x, y, z) /\ file[n] # NoFile
    <3>1. \A i \in 1 .. Len(u) : i = 1 \/ i = 2 \/ i = 3
      BY <2>1, <1>9, FewPlaces
    <3> QED BY <3>1, <2>1, <1>4, <1>9
  <2>2. CASE s = Two(x, z)
    <3>1. \A i \in 1 .. Len(u) : i = 1 \/ i = 2
      BY <2>2, <1>10, FewPlaces
    <3> QED BY <3>1, <2>2, <1>4, <1>10
  <2> QED BY <2>1, <2>2, <1>7
<1>12. TextOK(u, g)'
  <2> SUFFICES ASSUME g # None, g.status = "ready", file[n] # NoFile
               PROVE  Len(u) # 1 /\ u[Len(u) - 1] = y
    BY <1>1, <1>4, <1>11, <1>e DEF TextOK
  <2>1. s = Three(x, y, z)
    BY <1>2, <1>7
  <2>2. Len(u) = 3 /\ u[2] = y
    BY <2>1, <1>9
  <2> QED BY <2>2
<1>13. Tidy(u, g)'
  BY <1>4, <1>11, <1>12 DEF Tidy, TopicsNext
<1>14. Begin("tui", u, g)
  BY <1>1, <1>8
<1> QED BY <1>1, <1>13, <1>14, BeginCare, ClientNames

\* The operation at its first step, with what it owes.
LEMMA CareFacts ==
    ASSUME SerialInv, CareInv, NEW c \in Clients, ~Idle(c), NEW s, s = todo[c], NEW g, g = goal[c]
    PROVE  /\ s \in Seq(TypedSteps) /\ s # << >> /\ Next1(c) = s[1] /\ s[1] \in TypedSteps
           /\ s[1].name \in Names /\ ShapeOK(s) /\ CacheOK(s) /\ Tidy(s, g)
           /\ DOMAIN content = Names /\ rows \in [Names -> Meta \cup {NoPlan}]
           /\ file \in [Names -> Text \cup {NoFile}]
           /\ Proceed(c, << >>) => todo' = [todo EXCEPT ![c] = Tail(s)]
           /\ \A x : Proceed(c, <<x>>) => todo' = [todo EXCEPT ![c] = <<x>> \o Tail(s)]
<1>1. /\ s \in Seq(TypedSteps) /\ s # << >> /\ Next1(c) = s[1] /\ s[1] \in TypedSteps
      /\ s[1].name \in Names /\ ShapeOK(s) /\ CacheOK(s)
      /\ Proceed(c, << >>) => todo' = [todo EXCEPT ![c] = Tail(s)]
      /\ \A x : Proceed(c, <<x>>) => todo' = [todo EXCEPT ![c] = <<x>> \o Tail(s)]
  BY StepFacts
<1>2. Tidy(s, g)
  BY DEF CareInv
<1>3. /\ DOMAIN content = Names /\ rows \in [Names -> Meta \cup {NoPlan}]
      /\ file \in [Names -> Text \cup {NoFile}]
  BY DEF SerialInv, TypeInv, StateTypeOK, StoreTypeOK
<1> QED BY <1>1, <1>2, <1>3

\* A step that stores nothing leaves the files and topics as they are.
LEMMA CalmCare ==
    ASSUME SerialInv, CareInv, NEW c \in Clients, ~Idle(c),
           Next1(c).do \notin {"update", "create", "topic", "rename"},
           UNCHANGED <<rows, topics, file>>,
           NEW u, NEW g, todo' = [todo EXCEPT ![c] = u], goal'[c] = g, u # << >> => Tidy(u, g)'
    PROVE  CareInv'
<1>1. PICK s : s = todo[c]
  OBVIOUS
<1>2. s[1].do \notin {"update", "create", "topic", "rename"}
  BY <1>1, StepFacts
<1>3. /\ \A m \in Names : file[m] # NoFile => rows[m] # NoPlan
      /\ \A m \in Names : rows[m] # NoPlan => Listed(rows[m].topic)
  BY <1>1, <1>2, BusyCare
<1>4. \A m \in Names : rows'[m] # NoPlan => Listed(rows[m].topic)'
  BY <1>3 DEF Listed
<1> QED BY <1>3, <1>4, StepCare

\* An error.
LEMMA GiveUpCare ==
    ASSUME SerialInv, CareInv, NEW c \in Clients, ~Idle(c),
           Next1(c).do \notin {"update", "create", "topic", "rename", "content"}, GiveUp(c),
           UNCHANGED <<rows, topics, content, file>>
    PROVE  CareInv'
<1>1. PICK s, g : s = todo[c] /\ g = goal[c]
  OBVIOUS
<1>2. /\ s \in Seq(TypedSteps) /\ s # << >> /\ ShapeOK(s) /\ Tidy(s, g) /\ Next1(c) = s[1]
      /\ s[1].name \in Names /\ DOMAIN content = Names
  BY <1>1, CareFacts
<1>3. DOMAIN goal = Clients
  BY DEF SerialInv, TypeInv, ClientTypeOK
<1>4. CASE Next1(c).mode = "must"
  <2>1. PICK u : u = Unskippable(Tail(s))
    OBVIOUS
  <2>2. todo' = [todo EXCEPT ![c] = u] /\ goal'[c] = None
    BY <2>1, <1>1, <1>3, <1>4 DEF GiveUp
  <2>3. u # << >> => Tidy(u, None)'
    BY <2>1, <1>2, LeftTidy
  <2> QED BY <2>2, <2>3, CalmCare
<1>5. CASE Next1(c).mode # "must"
  <2>1. PICK u : u = Tail(s)
    OBVIOUS
  <2>2. todo' = [todo EXCEPT ![c] = u] /\ goal'[c] = g
    BY <2>1, <1>1, <1>5 DEF GiveUp
  <2>3. u # << >> => Tidy(u, g)'
    BY <2>1, <1>2, TailTidy
  <2> QED BY <2>2, <2>3, CalmCare
<1> QED BY <1>4, <1>5

\* A step that is over.
LEMMA OverCare ==
    ASSUME SerialInv, CareInv, NEW c \in Clients, ~Idle(c),
           Next1(c).do \notin {"update", "create", "topic", "rename"}, Proceed(c, << >>),
           UNCHANGED <<rows, topics, file, goal>>,
           Next1(c).do = "content" =>
              content' = [content EXCEPT ![Next1(c).name] = Next1(c).arg]
    PROVE  CareInv'
<1>1. PICK s, g : s = todo[c] /\ g = goal[c]
  OBVIOUS
<1>2. /\ s \in Seq(TypedSteps) /\ s # << >> /\ ShapeOK(s) /\ Tidy(s, g) /\ Next1(c) = s[1]
      /\ s[1].name \in Names /\ DOMAIN content = Names
      /\ todo' = [todo EXCEPT ![c] = Tail(s)]
  BY <1>1, CareFacts
<1>3. PICK u : u = Tail(s)
  OBVIOUS
<1>4. u # << >> => Tidy(u, g)'
  BY <1>2, <1>3, TailTidy
<1> QED BY <1>1, <1>2, <1>3, <1>4, CalmCare

\* A transition or a backfill that goes on with its statement.
LEMMA StatementCare ==
    ASSUME SerialInv, CareInv, NEW c \in Clients, ~Idle(c),
           Next1(c).do \in {"transition", "backfill"}, NEW x \in TypedSteps,
           x.name = Next1(c).name, x.do = "update", x.mode = Next1(c).mode,
           rows[x.name] # NoPlan, x.arg.topic = rows[x.name].topic,
           Proceed(c, <<x>>), UNCHANGED <<rows, topics, file, goal>>
    PROVE  CareInv'
<1>1. PICK s, g : s = todo[c] /\ g = goal[c]
  OBVIOUS
<1>2. /\ s \in Seq(TypedSteps) /\ s # << >> /\ ShapeOK(s) /\ Tidy(s, g) /\ Next1(c) = s[1]
      /\ s[1].name \in Names
      /\ todo' = [todo EXCEPT ![c] = <<x>> \o Tail(s)]
  BY <1>1, CareFacts
<1>3. /\ \A i \in 1 .. Len(s) : s[i].do # "topic"
      /\ \A m \in Names : rows[m] # NoPlan => Listed(rows[m].topic)
  BY <1>1, <1>2, BusyCare
<1>4. Listed(x.arg.topic)
  BY <1>2, <1>3
<1>5. PICK u : u = <<x>> \o Tail(s)
  OBVIOUS
<1>6. Tidy(u, g)'
  BY <1>2, <1>3, <1>4, <1>5, HeadTidy
<1> QED BY <1>1, <1>2, <1>5, <1>6, CalmCare

\* A load.
LEMMA ReadCare ==
    ASSUME SerialInv, Undisturbed, CareInv, NEW c \in Clients, Read(c)
    PROVE  CareInv'
<1>1. PICK s, g : s = todo[c] /\ g = goal[c]
  OBVIOUS
<1>2. /\ ~Idle(c) /\ Next1(c).do \in Reads
      /\ UNCHANGED <<rows, topics, content, cache, file, view, dialog>>
      /\ \/ /\ Permits(Next1(c)) /\ Proceed(c, Continuation(Next1(c))) /\ UNCHANGED goal
         \/ ~Permits(Next1(c)) /\ GiveUp(c)
  BY NoFault DEF Read
<1> DEFINE n == s[1].name
<1>3. /\ s \in Seq(TypedSteps) /\ s # << >> /\ Next1(c) = s[1] /\ s[1] \in TypedSteps
      /\ n \in Names /\ ShapeOK(s) /\ rows \in [Names -> Meta \cup {NoPlan}]
      /\ \A x : Proceed(c, <<x>>) => todo' = [todo EXCEPT ![c] = <<x>> \o Tail(s)]
  BY <1>1, <1>2, CareFacts
<1>4. s[1].do \in {"transition", "fetch"}
  <2>1. s[1].do \notin {"force", "register", "implement"}
    BY <1>1, <1>2, StepFacts
  <2> QED BY <2>1, <1>2, <1>3 DEF Reads
<1>5. CASE GiveUp(c)
  BY <1>2, <1>3, <1>4, <1>5, GiveUpCare
<1>6. CASE /\ Permits(Next1(c)) /\ Proceed(c, Continuation(Next1(c))) /\ UNCHANGED goal
           /\ s[1].do = "transition"
  <2> DEFINE e == WithStatus(n, ApplyTransition(MapLegacyStatus(rows[n].status), s[1].arg))
  <2>1. /\ rows[n] # NoPlan /\ Allowed(MapLegacyStatus(rows[n].status), s[1].arg)
        /\ Continuation(s[1]) = << Step("update", n, e, s[1].mode) >>
    BY <1>3, <1>6 DEF Permits, Continuation
  <2>2. e \in Meta /\ e.topic = rows[n].topic
    <3>1. rows[n] \in Meta
      BY <2>1, <1>3, EntryTyped
    <3>2. ApplyTransition(MapLegacyStatus(rows[n].status), s[1].arg) \in Status
      BY <2>1, AllowedTarget
    <3> QED BY <3>1, <3>2, ReplacedTyped DEF WithStatus, Meta
  <2> HIDE DEF e
  <2>3. PICK x : x = Step("update", n, e, s[1].mode)
    OBVIOUS
  <2>4. /\ x.name = n /\ x.do = "update" /\ x.mode = s[1].mode /\ x.arg = e
    BY <2>3 DEF Step
  <2>5. x \in TypedSteps
    <3>1. s[1].mode \in Mode
      BY <1>3 DEF TypedSteps, Steps
    <3> QED BY <2>2, <2>3, <3>1, <1>3, StepTyped DEF Do, Arg, ArgOK, Step
  <2>6. Proceed(c, <<x>>)
    BY <2>1, <2>3, <1>3, <1>6
  <2> QED BY <2>1, <2>2, <2>4, <2>5, <2>6, <1>2, <1>3, <1>6, StatementCare
<1>7. CASE /\ Permits(Next1(c)) /\ Proceed(c, Continuation(Next1(c))) /\ UNCHANGED goal
           /\ s[1].do = "fetch"
  <2>1. Len(s) = 1 /\ s[1].mode = "must"
    <3>1. 1 \in 1 .. Len(s)
      BY <1>1, <1>2, StepFacts
    <3> QED BY <3>1, <1>3, <1>7 DEF ShapeOK
  <2>2. PICK x : x = Step("write", n, content[n], "must")
    OBVIOUS
  <2>3. x.name = n /\ x.do = "write" /\ x.mode = "must"
    BY <2>2 DEF Step
  <2>4. rows[n] # NoPlan /\ Continuation(s[1]) = <<x>>
    BY <2>2, <1>3, <1>7 DEF Permits, Continuation
  <2>5. Tail(s) = << >>
    BY <2>1, <1>3, TailEmpty
  <2>6. x \in TypedSteps
    <3>1. content[n] \in Text
      BY <1>3 DEF SerialInv, TypeInv, StateTypeOK, StoreTypeOK
    <3>2. "must" \in Mode
      BY DEF Mode
    <3> QED BY <2>2, <3>1, <3>2, <1>3, StepTyped DEF Do, Arg, ArgOK, Step
  <2>7. One(x) \o << >> = One(x) /\ Len(One(x)) = 1 /\ One(x)[1] = x
    BY <2>6, FewFacts
  <2>8. PICK u : u = One(x)
    OBVIOUS
  <2>9. todo' = [todo EXCEPT ![c] = u]
    BY <2>4, <2>5, <2>7, <2>8, <1>3, <1>7 DEF One
  <2>10. \A i \in 1 .. Len(u) : i = 1
    BY <2>7, <2>8, FewPlaces
  <2>11. TopicsNext(u) /\ TextOK(u, g)'
    BY <2>3, <2>7, <2>8, <2>10 DEF TopicsNext, TextOK
  <2>12. Tidy(u, g)'
    BY <2>3, <2>4, <2>7, <2>8, <2>11, <1>2 DEF Tidy, TopicsNext
  <2> QED BY <2>9, <2>12, <1>1, <1>2, <1>3, <1>7, CalmCare
<1> QED BY <1>2, <1>4, <1>5, <1>6, <1>7

\* A backfill.
LEMMA BackfillCare ==
    ASSUME SerialInv, Undisturbed, CareInv, NEW c \in Clients, BackfillBranch(c)
    PROVE  CareInv'
<1>1. PICK s, g : s = todo[c] /\ g = goal[c]
  OBVIOUS
<1> DEFINE n == s[1].name
           e == [cache[n] EXCEPT !.branch = "plan"]
<1>2. ~Idle(c) /\ Next1(c).do = "backfill" /\ UNCHANGED <<rows, topics, content, file>>
  BY DEF BackfillBranch
<1>3. /\ s \in Seq(TypedSteps) /\ s # << >> /\ Next1(c) = s[1] /\ s[1] \in TypedSteps
      /\ n \in Names /\ CacheOK(s) /\ rows \in [Names -> Meta \cup {NoPlan}]
  BY <1>1, <1>2, CareFacts
<1>4. cache = rows
  BY <1>2, <1>3 DEF CacheOK, Ahead
<1>5. \/ GiveUp(c)
      \/ Proceed(c, << >>) /\ UNCHANGED goal
      \/ /\ cache[n] # NoPlan /\ Proceed(c, << Step("update", n, e, s[1].mode) >>)
         /\ UNCHANGED goal
  BY <1>3 DEF BackfillBranch
<1>6. CASE GiveUp(c)
  BY <1>2, <1>6, GiveUpCare
<1>7. CASE Proceed(c, << >>) /\ UNCHANGED goal
  BY <1>2, <1>7, OverCare
<1>8. CASE /\ cache[n] # NoPlan /\ Proceed(c, << Step("update", n, e, s[1].mode) >>)
           /\ UNCHANGED goal
  <2>1. e \in Meta /\ e.topic = rows[n].topic
    <3>1. cache[n] \in Meta
      BY <1>3, <1>4, <1>8, EntryTyped
    <3> QED BY <3>1, <1>4, ReplacedTyped DEF Meta
  <2> HIDE DEF e
  <2>2. PICK x : x = Step("update", n, e, s[1].mode)
    OBVIOUS
  <2>3. x.name = n /\ x.do = "update" /\ x.mode = s[1].mode /\ x.arg = e
    BY <2>2 DEF Step
  <2>4. x \in TypedSteps
    <3>1. s[1].mode \in Mode
      BY <1>3 DEF TypedSteps, Steps
    <3> QED BY <2>1, <2>2, <3>1, <1>3, StepTyped DEF Do, Arg, ArgOK, Step
  <2> QED BY <2>1, <2>2, <2>3, <2>4, <1>2, <1>3, <1>4, <1>8, StatementCare
<1> QED BY <1>5, <1>6, <1>7, <1>8

\* A statement.
LEMMA WriteCare ==
    ASSUME SerialInv, Undisturbed, CareInv, NEW c \in Clients, Write(c)
    PROVE  CareInv'
<1>1. PICK s, g : s = todo[c] /\ g = goal[c]
  OBVIOUS
<1>2. /\ ~Idle(c) /\ Next1(c).do \in Writes
      /\ Execute(Next1(c)) /\ Proceed(c, << >>)
      /\ UNCHANGED <<goal, cache, file, view, dialog>>
  <2>1. ~Idle(c) /\ Next1(c).do \in Writes
    BY DEF Write
  <2> QED BY <2>1, NeverRefused, NoFault DEF Write
<1> DEFINE x == s[1]
           n == x.name
<1>3. /\ s \in Seq(TypedSteps) /\ s # << >> /\ Next1(c) = x /\ x \in TypedSteps
      /\ n \in Names /\ ShapeOK(s) /\ Tidy(s, g)
      /\ DOMAIN content = Names /\ rows \in [Names -> Meta \cup {NoPlan}]
      /\ todo' = [todo EXCEPT ![c] = Tail(s)]
  BY <1>1, <1>2, CareFacts
<1>4. CASE x.do = "content"
  <2>1. content' = [content EXCEPT ![n] = x.arg] /\ UNCHANGED <<rows, topics>>
    BY <1>2, <1>3, <1>4 DEF Execute, SetContent
  <2> QED BY <2>1, <1>2, <1>3, <1>4, OverCare
<1>5. PICK u : u = Tail(s)
  OBVIOUS
<1>6. ASSUME x.do # "content" PROVE u # << >> => Tidy(u, g)'
  BY <1>2, <1>3, <1>5, <1>6, TailTidy
<1>7. /\ \A m \in Names : file[m] # NoFile =>
            rows[m] # NoPlan \/ (x.do = "rename" /\ x.arg = m)
      /\ \A m \in Names : rows[m] # NoPlan => Listed(rows[m].topic) \/ Owed(rows[m].topic, s)
  BY <1>1, <1>2, BusyCare
<1>8. \A t : Owed(t, s) => (x.do = "topic" /\ x.arg = t) \/ (u # << >> /\ Owed(t, u))
  <2> TAKE t
  <2> SUFFICES ASSUME NEW i \in 1 .. Len(s), s[i].do = "topic", s[i].arg = t, i # 1
               PROVE  u # << >> /\ Owed(t, u)
    BY DEF Owed
  <2>1. /\ u \in Seq(TypedSteps) /\ Len(u) = Len(s) - 1 /\ Len(s) \in Nat \ {0}
        /\ \A j \in 1 .. Len(s) - 1 : u[j] = s[j + 1]
    BY <1>3, <1>5, TailFacts
  <2>2. i - 1 \in 1 .. Len(s) - 1 /\ (i - 1) + 1 = i
    BY <2>1
  <2>3. i - 1 \in 1 .. Len(u) /\ u[i - 1] = s[i]
    BY <2>1, <2>2
  <2>4. u # << >>
    BY <2>3
  <2> QED BY <2>3, <2>4 DEF Owed
<1>9. CASE x.do \in {"update", "create"}
  <2>1. rows' = [rows EXCEPT ![n] = x.arg] /\ x.arg \in Meta /\ x.arg # NoPlan /\ topics' = topics
    <3>1. x.arg \in Meta
      BY <1>3, <1>9 DEF TypedSteps, ArgOK
    <3>2. x.arg # NoPlan
      BY <3>1, EntryIsThere
    <3> QED BY <3>1, <3>2, <1>2, <1>3, <1>9 DEF Execute, Update, Create
  <2>2. \A m \in Names : file'[m] # NoFile => rows'[m] # NoPlan
    BY <2>1, <1>2, <1>3, <1>7, <1>9
  <2>3. Listed(x.arg.topic) \/ Owed(x.arg.topic, s)
    BY <1>3, <1>9 DEF Tidy
  <2>4. \A m \in Names : rows'[m] # NoPlan =>
           Listed(rows'[m].topic) \/ Owed(rows'[m].topic, s)
    BY <2>1, <2>3, <1>3, <1>7
  <2>5. \A m \in Names : rows'[m] # NoPlan =>
           Listed(rows[m].topic)' \/ (u # << >> /\ Owed(rows'[m].topic, u))
    BY <2>1, <2>4, <1>8, <1>9 DEF Listed
  <2>6. u # << >> => Tidy(u, g)'
    BY <1>6, <1>9
  <2> QED BY <2>2, <2>5, <2>6, <1>1, <1>2, <1>3, <1>5, StepCare
<1>10. CASE x.do = "topic"
  <2>1. topics' = topics \cup {x.arg} /\ rows' = rows
    BY <1>2, <1>3, <1>10 DEF Execute, CreateTopic
  <2>2. \A m \in Names : file'[m] # NoFile => rows'[m] # NoPlan
    BY <2>1, <1>2, <1>7, <1>10
  <2>3. \A m \in Names : rows'[m] # NoPlan =>
           Listed(rows[m].topic)' \/ (u # << >> /\ Owed(rows'[m].topic, u))
    BY <2>1, <1>7, <1>8 DEF Listed
  <2>4. u # << >> => Tidy(u, g)'
    BY <1>6, <1>10
  <2> QED BY <2>2, <2>3, <2>4, <1>1, <1>2, <1>3, <1>5, StepCare
<1>11. CASE x.do = "rename"
  <2>1. /\ rows' = [rows EXCEPT ![x.arg] = rows[n], ![n] = NoPlan] /\ topics' = topics
        /\ x.arg \in Names
    BY <1>2, <1>3, <1>11 DEF Execute, Rename, TypedSteps, ArgOK
  <2>2. rows[n] # NoPlan /\ rows[x.arg] = NoPlan
    BY <1>2, <1>3, <1>11, NeverRefused DEF Accepted, RenameOK
  <2>3. file[n] = NoFile
    BY <1>3, <1>11 DEF Tidy
  <2>4. /\ rows'[n] = NoPlan /\ rows'[x.arg] = rows[n]
        /\ \A m \in Names \ {n, x.arg} : rows'[m] = rows[m]
    BY <2>1, <2>2, <1>3
  <2>5. \A m \in Names : file'[m] # NoFile => rows'[m] # NoPlan
    BY <2>2, <2>3, <2>4, <1>2, <1>7
  <2>6. \A m \in Names : rows'[m] # NoPlan =>
           Listed(rows'[m].topic) \/ Owed(rows'[m].topic, s)
    BY <2>1, <2>2, <2>4, <1>3, <1>7
  <2>7. \A m \in Names : rows'[m] # NoPlan =>
           Listed(rows[m].topic)' \/ (u # << >> /\ Owed(rows'[m].topic, u))
    BY <2>1, <2>6, <1>8, <1>11 DEF Listed
  <2>8. u # << >> => Tidy(u, g)'
    BY <1>6, <1>11
  <2> QED BY <2>5, <2>7, <2>8, <1>1, <1>2, <1>3, <1>5, StepCare
<1> QED BY <1>2, <1>3, <1>4, <1>9, <1>10, <1>11 DEF Writes

\* The spawn of an agent, whose goroutine fetches the text.
LEMMA SpawnCare ==
    ASSUME SerialInv, Undisturbed, CareInv, NEW d \in Goroutines, SpawnAgent(d)
    PROVE  CareInv'
<1>1. PICK s, g : s = todo["tui"] /\ g = goal["tui"] /\ "tui" \in Clients /\ d \in Clients
  BY ClientNames
<1> DEFINE n == s[1].name
<1>2. /\ ~Idle("tui") /\ Next1("tui").do = "spawn"
      /\ UNCHANGED <<rows, topics, content, cache, file, view, dialog, ops, faults>>
  BY DEF SpawnAgent
<1>3. /\ s \in Seq(TypedSteps) /\ s # << >> /\ Next1("tui") = s[1] /\ ShapeOK(s)
  BY <1>1, <1>2, CareFacts
<1>4. CASE GiveUp("tui")
  BY <1>1, <1>2, <1>4, GiveUpCare
<1>5. CASE todo' = [todo EXCEPT !["tui"] = Tail(todo["tui"]),
                                ![d] = << Step("fetch", n, "", "must") >>]
  <2>1. PICK x : x = Step("fetch", n, "", "must")
    OBVIOUS
  <2>2. x.do = "fetch" /\ x.mode = "must"
    BY <2>1 DEF Step
  <2>3. PICK u : u = One(x)
    OBVIOUS
  <2>4. Len(u) = 1 /\ u[1] = x
    BY <2>3 DEF One
  <2>5. \A i \in 1 .. Len(u) : i = 1
    BY <2>4, FewPlaces
  <2>6. Tail(s) = << >> /\ d # "tui"
    <3>1. d # "tui"
      BY ClientsAssumption
    <3>2. Len(s) = 1
      <4>1. 1 \in 1 .. Len(s)
        BY <1>1, <1>2, StepFacts
      <4> QED BY <4>1, <1>2, <1>3 DEF ShapeOK
    <3> QED BY <3>1, <3>2, <1>3, TailEmpty
  <2>7. todo'[d] = u /\ \A c \in Clients \ {d} : todo'[c] = << >>
    <3>1. DOMAIN todo = Clients /\ \A c \in Clients \ {"tui"} : todo[c] = << >>
      BY <1>1, <1>2, OpReady DEF SerialInv, TypeInv, ClientTypeOK
    <3> QED BY <3>1, <2>1, <2>3, <2>6, <1>1, <1>5 DEF One
  <2>8. /\ \A m \in Names : file[m] # NoFile => rows[m] # NoPlan
        /\ \A m \in Names : rows[m] # NoPlan => Listed(rows[m].topic)
    BY <1>1, <1>2, <1>3, BusyCare
  <2>9. FilesKept' /\ TopicsKept'
    BY <2>8, <1>2 DEF FilesKept, TopicsKept, Listed
  <2>10. PICK h : h = goal'[d]
    OBVIOUS
  <2>11. TopicsNext(u) /\ TextOK(u, h)'
    BY <2>2, <2>4, <2>5 DEF TopicsNext, TextOK
  <2>12. Tidy(u, h)'
    BY <2>2, <2>4, <2>11 DEF Tidy, TopicsNext
  <2>13. ASSUME NEW c \in Clients, ~Idle(c)' PROVE Tidy(todo[c], goal[c])'
    <3>1. c = d
      BY <2>7, <2>13 DEF Idle
    <3> QED BY <3>1, <2>7, <2>10, <2>12 DEF Tidy, TopicsNext, TextOK, Listed, Owed
  <2> QED BY <2>9, <2>13 DEF CareInv
<1> QED BY <1>1, <1>3, <1>4, <1>5 DEF SpawnAgent

\* The file of a plan is written.
LEMMA WriteFileCare ==
    ASSUME SerialInv, Undisturbed, CareInv, NEW c \in Goroutines, WriteFile(c)
    PROVE  CareInv'
<1>1. PICK s, g : s = todo[c] /\ g = goal[c] /\ c \in Clients
  BY ClientNames
<1>2. /\ ~Idle(c) /\ Next1(c).do = "write" /\ Proceed(c, << >>)
      /\ file' = [file EXCEPT ![Next1(c).name] = Next1(c).arg]
      /\ UNCHANGED <<rows, topics, content, cache, view, dialog, goal, ops, faults>>
  BY DEF WriteFile
<1>3. /\ s \in Seq(TypedSteps) /\ s # << >> /\ Next1(c) = s[1] /\ ShapeOK(s) /\ Tidy(s, g)
      /\ file \in [Names -> Text \cup {NoFile}]
      /\ todo' = [todo EXCEPT ![c] = Tail(s)]
  BY <1>1, <1>2, CareFacts
<1>4. Tail(s) = << >>
  <2>1. 1 \in 1 .. Len(s)
    BY <1>1, <1>2, StepFacts
  <2>2. Len(s) = 1
    BY <2>1, <1>2, <1>3 DEF ShapeOK
  <2> QED BY <2>2, <1>3, TailEmpty
<1>5. /\ \A m \in Names : file[m] # NoFile => rows[m] # NoPlan
      /\ \A m \in Names : rows[m] # NoPlan => Listed(rows[m].topic)
  BY <1>1, <1>2, <1>3, BusyCare
<1>6. rows[s[1].name] # NoPlan
  BY <1>2, <1>3 DEF Tidy
<1>7. \A m \in Names : file'[m] # NoFile => rows'[m] # NoPlan
  BY <1>2, <1>3, <1>5, <1>6
<1>8. \A m \in Names : rows'[m] # NoPlan => Listed(rows[m].topic)'
  BY <1>2, <1>5 DEF Listed
<1> QED BY <1>1, <1>2, <1>3, <1>4, <1>7, <1>8, StepCare

\* What begins and continues no operation.
LEMMA PassiveCare ==
    ASSUME SerialInv, Undisturbed, CareInv,
           \/ DismissDialog \/ TickLoad \/ TickApply
           \/ \E n \in Names : AgentWritesPlan(n)
           \/ \E n \in Names, op \in {"cancel", "merge", "start_over"} : OpenDialog(op, n)
           \/ UNCHANGED vars
    PROVE  CareInv'
<1>1. UNCHANGED <<rows, topics, content, todo, goal>>
  BY DEF DismissDialog, TickLoad, TickApply, AgentWritesPlan, OpenDialog, vars
<1>2. CASE file' = file
  <2>1. FilesKept'
    <3>1. FilesKept
      BY DEF CareInv
    <3> QED BY <3>1, <1>1, <1>2 DEF FilesKept, Idle
  <2>2. TopicsKept'
    <3>1. TopicsKept
      BY DEF CareInv
    <3> QED BY <3>1, <1>1 DEF TopicsKept, Listed, Owed
  <2>3. ASSUME NEW c \in Clients, ~Idle(c)' PROVE Tidy(todo[c], goal[c])'
    <3>1. Tidy(todo[c], goal[c])
      BY <2>3, <1>1 DEF CareInv, Idle
    <3>2. PICK s, g : s = todo[c] /\ g = goal[c]
      OBVIOUS
    <3>3. Tidy(s, g)
      BY <3>1, <3>2
    <3>4. todo'[c] = s /\ goal'[c] = g
      BY <3>2, <1>1
    <3>5. TopicsNext(s)'
      BY <3>3, <1>1 DEF Tidy, TopicsNext, Listed
    <3>6. TextOK(s, g)'
      BY <3>3, <1>1, <1>2 DEF Tidy, TextOK
    <3>7. Tidy(s, g)'
      BY <3>3, <3>5, <3>6, <1>1, <1>2 DEF Tidy, Listed
    <3> QED BY <3>4, <3>7
  <2> QED BY <2>1, <2>2, <2>3 DEF CareInv
<1>3. CASE \E n \in Names : AgentWritesPlan(n)
  <2>1. PICK n \in Names : /\ Quiet /\ rows[n] # NoPlan
                           /\ file' = [file EXCEPT ![n] = "text"]
    BY <1>3 DEF AgentWritesPlan, Undisturbed
  <2>2. file \in [Names -> Text \cup {NoFile}]
    BY DEF SerialInv, TypeInv, StateTypeOK
  <2>3. \A m \in Names : file'[m] # NoFile => rows'[m] # NoPlan
    BY <2>1, <2>2, <1>1, QuietCare
  <2>4. FilesKept' /\ TopicsKept'
    BY <2>3, <1>1 DEF CareInv, FilesKept, TopicsKept, Listed
  <2>5. \A c \in Clients : Idle(c)'
    BY <2>1, <1>1 DEF Quiet, Idle
  <2> QED BY <2>4, <2>5 DEF CareInv
<1>4. file' = file \/ \E n \in Names : AgentWritesPlan(n)
  BY DEF DismissDialog, TickLoad, TickApply, OpenDialog, vars
<1> QED BY <1>2, <1>3, <1>4

\* Every step.
LEMMA CareStep ==
    ASSUME SerialInv, Undisturbed, CareInv, [Next]_vars PROVE CareInv'
<1>1. ASSUME NEW c \in Clients, Progress(c) PROVE CareInv'
  <2>1. CASE Read(c)
    BY <2>1, ReadCare
  <2>2. CASE Write(c)
    BY <2>2, WriteCare
  <2>3. CASE ReloadCache(c)
    <3>1. /\ ~Idle(c) /\ Next1(c).do \in {"reload", "refresh"} /\ Proceed(c, << >>)
          /\ UNCHANGED <<rows, topics, content, file, goal>>
      BY <2>3 DEF ReloadCache
    <3> QED BY <3>1, OverCare
  <2>4. CASE BackfillBranch(c)
    BY <2>4, BackfillCare
  <2> QED BY <1>1, <2>1, <2>2, <2>3, <2>4 DEF Progress
<1>2. ASSUME NEW g \in Goroutines, GoroutineStep(g) PROVE CareInv'
  BY <1>2, SpawnCare, WriteFileCare DEF GoroutineStep
<1>3. ASSUME NEW n \in Names, NEW e \in SentinelEvent, Signal(n, e) PROVE CareInv'
  BY <1>3, SignalCare
<1>4. ASSUME NEW c \in Commands PROVE FALSE
  BY DEF Undisturbed
<1>5. ASSUME UserStep PROVE CareInv'
  <2>1. ASSUME NEW n \in Names,
               \/ StagePlan(n) \/ StageSolo(n) \/ StageImplement(n) \/ StageReview(n)
               \/ StageFinished(n) \/ StageRefused(n) \/ MarkPlanDone(n) \/ RequestReview(n)
               \/ ResumeImplement(n) \/ ModifyPlan(n) \/ ImplementationComplete(n)
        PROVE  CareInv'
    BY <2>1, PlainCare
  <2>2. ASSUME NEW n \in Names, ImportClickUpTask(n) PROVE CareInv'
    BY <2>2, ImportCare
  <2>3. ASSUME NEW n \in Names, NEW t \in Topics \cup {""},
               ChangeTopic(n, t) \/ CreatePlan(n, t)
        PROVE  CareInv'
    BY <2>3, PickersCare
  <2>4. ASSUME NEW n \in Names, NEW st \in Status, SetStatus(n, st) PROVE CareInv'
    BY <2>4, PickersCare
  <2>5. ASSUME NEW old \in Names, NEW new \in Names, RenamePlan(old, new) PROVE CareInv'
    BY <2>5, RenameCare
  <2>6. ASSUME NEW n \in Names, NEW op \in {"cancel", "merge", "start_over"},
               OpenDialog(op, n)
        PROVE  CareInv'
    BY <2>6, PassiveCare
  <2>7. ASSUME NEW g \in Goroutines, ConfirmDialog(g) PROVE CareInv'
    BY <2>7, PlainCare
  <2>8. ASSUME DismissDialog PROVE CareInv'
    BY <2>8, PassiveCare
  <2> QED BY <1>5, <2>1, <2>2, <2>3, <2>4, <2>5, <2>6, <2>7, <2>8 DEF UserStep
<1>6. ASSUME TickLoad \/ TickApply \/ (\E n \in Names : AgentWritesPlan(n)) \/ UNCHANGED vars
      PROVE  CareInv'
  BY <1>6, PassiveCare
<1> QED BY <1>1, <1>2, <1>3, <1>4, <1>5, <1>6 DEF Next

\* The invariant of files, topics and texts.
LEMMA CareInvariant == Undisturbed => (Spec => []CareInv)
<1>1. ASSUME Init PROVE CareInv
  <2>1. \A c \in Clients : Idle(c)
    BY <1>1 DEF Init, Idle
  <2>2. FilesKept
    BY <1>1 DEF Init, FilesKept
  <2>3. TopicsKept
    <3>1. SUFFICES ASSUME NEW m \in Names, rows[m] # NoPlan PROVE Listed(rows[m].topic)
      BY DEF TopicsKept
    <3>2. topics = {rows[n].topic : n \in {k \in Names : rows[k] # NoPlan}} \ {""}
      BY <1>1 DEF Init
    <3> QED BY <3>1, <3>2 DEF Listed
  <2> QED BY <2>1, <2>2, <2>3 DEF CareInv
<1>2. SUFFICES ASSUME Undisturbed PROVE Spec => []CareInv
  OBVIOUS
<1>3. Spec => []SerialInv
  BY <1>2, SerialInvariant
<1>4. SerialInv /\ CareInv /\ [Next]_vars => CareInv'
  BY <1>2, CareStep
<1> QED BY <1>1, <1>3, <1>4, PTL DEF Spec

\* Between operations, every plan file on disk is the file of a plan: a rename moves the
\* file, then the row, and nothing else writes a file whose plan has gone.
THEOREM FileFollowsRowTheorem == Undisturbed => (Spec => []FileFollowsRow)
<1>1. CareInv => FileFollowsRow
  BY QuietCare DEF FileFollowsRow
<1>2. SUFFICES ASSUME Undisturbed PROVE Spec => []FileFollowsRow
  OBVIOUS
<1>3. Spec => []CareInv
  BY <1>2, CareInvariant
<1> QED BY <1>1, <1>3, PTL

\* Between operations, the topic of every plan is listed: whoever writes a row with a new
\* topic creates it in the next step, and no error comes between the two.
THEOREM TopicsListedTheorem == Undisturbed => (Spec => []TopicsListed)
<1>1. CareInv => TopicsListed
  BY QuietCare DEF TopicsListed, Listed
<1>2. SUFFICES ASSUME Undisturbed PROVE Spec => []TopicsListed
  OBVIOUS
<1>3. Spec => []CareInv
  BY <1>2, CareInvariant
<1> QED BY <1>1, <1>3, PTL

\* One step is some step.
LEMMA OneNotEmpty == ASSUME NEW x PROVE One(x) # << >>
<1>1. Len(One(x)) = 1 /\ Len(<< >>) = 0
  BY DEF One
<1> QED BY <1>1

\* When the handling of planner-finished reaches its reload, the store holds the
\* planner's text: it is stored after the update that erases the column.
THEOREM PlannerTextIngestedTheorem == Undisturbed => (Spec => []PlannerTextIngested)
<1>1. ASSUME SerialInv, CareInv PROVE PlannerTextIngested
  <2> SUFFICES ASSUME NEW n \in Names,
                      todo["tui"] = << Step("reload", n, "", "always") >>,
                      goal["tui"] = Announce(n, "ready"), file[n] # NoFile
               PROVE  content[n] = file[n]
    BY DEF PlannerTextIngested
  <2>1. PICK x : x = Step("reload", n, "", "always")
    OBVIOUS
  <2>2. x.name = n /\ x.mode = "always"
    BY <2>1 DEF Step
  <2>3. PICK s, g : s = One(x) /\ g = Announce(n, "ready")
    OBVIOUS
  <2>4. todo["tui"] = s /\ goal["tui"] = g
    BY <2>1, <2>3 DEF One
  <2>5. Len(s) = 1 /\ s[1] = x
    BY <2>3 DEF One
  <2>6. s # << >> /\ "tui" \in Clients
    <3>1. s # << >>
      BY <2>3, OneNotEmpty
    <3> QED BY <3>1, ClientNames
  <2>7. Tidy(s, g)
    BY <2>4, <2>6, <1>1 DEF CareInv, Idle
  <2>8. g # None /\ g.status = "ready"
    <3>1. "ready" \in Status
      BY DEF Status
    <3>2. Announce(n, "ready") \in [name : Names, status : Status]
      BY <3>1 DEF Announce
    <3>3. g \in [name : Names, status : Status] /\ g.status = "ready"
      BY <3>2, <2>3 DEF Announce
    <3> QED BY <3>3, ClientsAssumption
  <2> QED BY <2>2, <2>5, <2>7, <2>8 DEF Tidy, TextOK
<1>2. SUFFICES ASSUME Undisturbed PROVE Spec => []PlannerTextIngested
  OBVIOUS
<1>3. Spec => []SerialInv
  BY <1>2, SerialInvariant
<1>4. Spec => []CareInv
  BY <1>2, CareInvariant
<1> QED BY <1>1, <1>3, <1>4, PTL
=============================================================================
