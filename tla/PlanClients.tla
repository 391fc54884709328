----------------------------- MODULE PlanClients -----------------------------
(***************************************************************************)
(* The clients of the plan store: the TUI's Update loop ("tui") with its   *)
(* cached PlanState, the goroutines its commands run in, the metadata tick *)
(* and kas plan commands in other processes.                               *)
(*                                                                         *)
(* An operation is a sequence of steps.  A step is one call to the store   *)
(* or one local effect, and any other client may act between two steps:    *)
(* Transition, for one, is a load and then an update.  The TUI handles one *)
(* message at a time, so "tui" has at most one operation under way.        *)
(*                                                                         *)
(* A step that fails ends its operation (mode "must"), is logged and       *)
(* skipped ("soft"), or is skipped and survives an earlier failure         *)
(* ("always": the reload after a batch of signals).                        *)
(***************************************************************************)
EXTENDS PlanStore, Naturals

CONSTANTS
    Goroutines,    \* identities of the TUI's background goroutines
    Commands,      \* identities of kas plan processes
    NoFile,        \* no docs/plans/<name> in the repository
    NoView,        \* no metadata tick in flight with a loaded plan state
    None,          \* no dialog, no announced goal
    InitialPlans,  \* the contents the store may have at boot
    Serial,        \* whether operations and ticks run one at a time
    Overrides,     \* whether statuses are also overridden by force
    MaxOps,        \* bound on the operations started
    MaxFaults      \* bound on the store calls that fail

ASSUME ClientsAssumption ==
    /\ InitialPlans \subseteq [Names -> Meta \cup {NoPlan}]
    /\ "tui" \notin Goroutines \cup Commands /\ Goroutines \cap Commands = {}
    /\ None \notin [name : Names, status : Status]
    /\ Serial \in BOOLEAN /\ Overrides \in BOOLEAN
    /\ MaxOps \in Nat /\ MaxFaults \in Nat

VARIABLES
    cache,    \* m.planState.Plans of the TUI
    file,     \* docs/plans/<name> in the repository
    view,     \* the plan state a tick in flight has loaded
    dialog,   \* the confirmation dialog of a goroutine operation
    todo,     \* per client, the steps left of the operation under way
    goal,     \* per client, the status its operation announces on success
    ops, faults

clientVars == <<cache, file, view, dialog, todo, goal, ops, faults>>
vars == <<rows, topics, content, cache, file, view, dialog, todo, goal, ops, faults>>

Clients == {"tui"} \cup Goroutines \cup Commands

Do == {"transition", "force", "register", "implement", "fetch", "update", "create",
       "topic", "content", "rename", "reload", "refresh", "backfill", "spawn", "write"}
Step(do, n, arg, mode) == [do |-> do, name |-> n, arg |-> arg, mode |-> mode]

\* What the step is about beside its plan: an event, a status, an entry, a topic, a
\* text or the new name.
ArgOK(step) ==
    /\ step.do = "transition" => step.arg \in Event
    /\ step.do = "force" => step.arg \in Status
    /\ step.do \in {"update", "create"} => step.arg \in Meta
    /\ step.do = "topic" => step.arg \in Topics
    /\ step.do \in {"content", "write"} => step.arg \in Text
    /\ step.do = "rename" => step.arg \in Names

TypeOK ==
    /\ StoreTypeOK
    /\ cache \in [Names -> Meta \cup {NoPlan}]
    /\ file \in [Names -> Text \cup {NoFile}]
    /\ view = NoView \/ view \in [Names -> Meta \cup {NoPlan}]
    /\ dialog = None \/
         dialog \in [op : {"cancel", "merge", "start_over"}, name : Names, meta : Meta]
    /\ \A c \in Clients : \A i \in DOMAIN todo[c] :
          /\ todo[c][i].do \in Do /\ todo[c][i].name \in Names
          /\ ArgOK(todo[c][i])
    /\ \A c \in Clients : goal[c] = None \/ goal[c] \in [name : Names, status : Status]
    /\ ops \in 0 .. MaxOps /\ faults \in 0 .. MaxFaults

\* planstate.Load: a cache anew from the rows.
Load == List

\* At boot loadPlanState fills the cache.  A plan made before the branch field
\* has none; a plan with its text has it in the store and on disk.
Init ==
    /\ rows \in InitialPlans
    /\ topics = {rows[n].topic : n \in {m \in Names : rows[m] # NoPlan}} \ {""}
    /\ content = [n \in Names |-> IF rows[n] = NoPlan THEN "" ELSE "text"]
    /\ file = [n \in Names |-> IF rows[n] = NoPlan THEN NoFile ELSE "text"]
    /\ cache = Load
    /\ view = NoView /\ dialog = None
    /\ todo = [c \in Clients |-> << >>]
    /\ goal = [c \in Clients |-> None]
    /\ ops = 0 /\ faults = 0

----------------------------------------------------------------------------
(* Operations *)

Idle(c) == todo[c] = << >>
Quiet   == \A c \in Clients : Idle(c)
FreeGoroutine == \E g \in Goroutines : Idle(g)

Begin(c, steps, announced) ==
    /\ Idle(c)
    /\ Serial => Quiet /\ view = NoView
    /\ ops < MaxOps
    /\ ops' = ops + 1
    /\ todo' = [todo EXCEPT ![c] = steps]
    /\ goal' = [goal EXCEPT ![c] = announced]
    /\ UNCHANGED <<rows, topics, content, faults>>

\* A planfsm.Transition for each event of a walk.
Transitions(n, events) ==
    [i \in 1 .. Len(events) |-> Step("transition", n, events[i], "must")]
Announce(n, status) == [name |-> n, status |-> status]

Backfill(n) == << Step("backfill", n, "", "must") >>
Reload(n)   == << Step("reload", n, "", "must") >>
Spawn(n)    == << Step("spawn", n, "", "must") >>

\* What the user starts from the sidebar.  A dialog holds the keyboard.
UserBegins(n, steps, announced) ==
    /\ dialog = None
    /\ Begin("tui", steps, announced)

\* triggerPlanStage and executePlanStage, by stage.
StagePlan(n) ==
    /\ cache[n] # NoPlan /\ FreeGoroutine
    /\ UserBegins(n, Backfill(n) \o Transitions(n, <<"plan_start">>)
                       \o Reload(n) \o Spawn(n),
                  Announce(n, "planning"))
    /\ UNCHANGED <<cache, file, view, dialog>>

StageSolo(n) ==
    /\ cache[n] # NoPlan /\ FreeGoroutine
    /\ UserBegins(n, Backfill(n) \o Transitions(n, SetImplementingWalk(cache[n].status))
                       \o Reload(n) \o Spawn(n),
                  Announce(n, "implementing"))
    /\ UNCHANGED <<cache, file, view, dialog>>

\* planparser.Parse: a text without wave headers, the empty one here, is an error.
HasWaves(text) == text # ""

\* The plan is read from disk.  A text without waves sends the plan back to planning
\* and respawns the planner.
StageImplement(n) ==
    /\ cache[n] # NoPlan
    /\ file[n] # NoFile
    /\ IF ~HasWaves(file[n])
       THEN /\ FreeGoroutine
            /\ UserBegins(n, Backfill(n)
                               \o Transitions(n, RevertToPlanningWalk(cache[n].status))
                               \o Reload(n) \o Spawn(n),
                          Announce(n, "planning"))
       ELSE UserBegins(n, Backfill(n)
                            \o Transitions(n, SetImplementingWalk(cache[n].status))
                            \o Reload(n),
                       Announce(n, "implementing"))
    /\ UNCHANGED <<cache, file, view, dialog>>

StageReview(n) ==
    /\ cache[n] # NoPlan
    /\ UserBegins(n, Backfill(n) \o Transitions(n, SetReviewingWalk(cache[n].status))
                       \o Reload(n),
                  Announce(n, "reviewing"))
    /\ UNCHANGED <<cache, file, view, dialog>>

\* Mutant: the handler forgets to reload the cache.
UnloadedStageFinished(n) ==
    /\ cache[n] # NoPlan /\ cache[n].status = "reviewing"
    /\ UserBegins(n, Backfill(n) \o Transitions(n, <<"review_approved">>),
                  Announce(n, "done"))
    /\ UNCHANGED <<cache, file, view, dialog>>

\* The stage "finished" is locked unless the plan is reviewing.
StageFinished(n) ==
    /\ cache[n] # NoPlan /\ cache[n].status = "reviewing"
    /\ UserBegins(n, Backfill(n) \o Transitions(n, <<"review_approved">>) \o Reload(n),
                  Announce(n, "done"))
    /\ UNCHANGED <<cache, file, view, dialog>>

\* The topic gate looks for another plan of the topic that is implementing.
HasRunningCoderInTopic(n) ==
    /\ cache[n].topic # ""
    /\ \E m \in Names \ {n} : /\ cache[m] # NoPlan
                             /\ cache[m].topic = cache[n].topic
                             /\ cache[m].status = "implementing"

\* A locked stage, a plan without a file, and a declined warning that another
\* plan of the topic is implementing: nothing but the backfill.
StageRefused(n) ==
    /\ cache[n] # NoPlan
    /\ \/ cache[n].status # "reviewing"
       \/ file[n] = NoFile
       \/ HasRunningCoderInTopic(n)
    /\ UserBegins(n, Backfill(n), None)
    /\ UNCHANGED <<cache, file, view, dialog>>

\* Context menu: mark_plan_done, request_review, resume_implement, modify_plan.
MarkPlanDone(n) ==
    /\ cache[n] # NoPlan
    /\ UserBegins(n, Transitions(n, MarkDoneWalk(cache[n].status, cache[n].status))
                       \o Reload(n),
                  Announce(n, "done"))
    /\ UNCHANGED <<cache, file, view, dialog>>

RequestReview(n) ==
    /\ UserBegins(n, Transitions(n, <<"request_review">>) \o Reload(n)
                       \o << Step("backfill", n, "", "soft") >>,
                  Announce(n, "reviewing"))
    /\ UNCHANGED <<cache, file, view, dialog>>

ResumeImplement(n) ==
    /\ UserBegins(n, Transitions(n, <<"reimplement">>) \o Reload(n),
                  Announce(n, "implementing"))
    /\ UNCHANGED <<cache, file, view, dialog>>

ModifyPlan(n) ==
    /\ FreeGoroutine
    /\ UserBegins(n, Transitions(n, <<"plan_start">>) \o Reload(n) \o Spawn(n),
                  Announce(n, "planning"))
    /\ UNCHANGED <<cache, file, view, dialog>>

\* Mutant: an entry with Go's zero status.
UnsetNewEntry(t) == [status |-> "", topic |-> t, branch |-> "plan"]

NewEntry(t) == [status |-> "ready", topic |-> t, branch |-> "plan"]

\* planstate.Register, Create and SetTopic, whose topic is created by a second call
\* unless it is there.
RegisterSteps(n) == << Step("create", n, NewEntry(""), "must") >>
TopicStep(n, t)  == IF t = "" THEN << >> ELSE << Step("topic", n, t, "must") >>
CreateSteps(n, t) == << Step("create", n, NewEntry(t), "must") >> \o TopicStep(n, t)
SetTopicSteps(n, entry) == << Step("update", n, entry, "must") >> \o TopicStep(n, entry.topic)

\* Mutants: the picker writes a fresh entry; the topic is never created.
FreshEntryChangeTopic(n, t) ==
    LET entry == [status |-> "ready", topic |-> t, branch |-> "plan"] IN
    /\ cache[n] # NoPlan
    /\ UserBegins(n, SetTopicSteps(n, entry), None)
    /\ cache' = [cache EXCEPT ![n] = entry]
    /\ UNCHANGED <<file, view, dialog>>

UnlistedChangeTopic(n, t) ==
    LET entry == [cache[n] EXCEPT !.topic = t] IN
    /\ cache[n] # NoPlan
    /\ UserBegins(n, << Step("update", n, entry, "must") >>, None)
    /\ cache' = [cache EXCEPT ![n] = entry]
    /\ UNCHANGED <<file, view, dialog>>

\* The pickers write the cached entry back: SetTopic and ForceSetStatus change
\* the cache first and the store after it.
ChangeTopic(n, t) ==
    LET entry == [cache[n] EXCEPT !.topic = t] IN
    /\ cache[n] # NoPlan
    /\ UserBegins(n, SetTopicSteps(n, entry), None)
    /\ cache' = [cache EXCEPT ![n] = entry]
    /\ UNCHANGED <<file, view, dialog>>

SetStatus(n, s) ==
    LET entry == [cache[n] EXCEPT !.status = s] IN
    /\ Overrides
    /\ cache[n] # NoPlan
    /\ UserBegins(n, << Step("update", n, entry, "must") >> \o Reload(n), Announce(n, s))
    /\ cache' = [cache EXCEPT ![n] = entry]
    /\ UNCHANGED <<file, view, dialog>>

\* createPlanEntry and the topic picker: Create changes the cache first.
CreatePlan(n, t) ==
    /\ cache[n] = NoPlan
    /\ UserBegins(n, CreateSteps(n, t) \o Reload(n),
                  Announce(n, "ready"))
    /\ cache' = [cache EXCEPT ![n] = NewEntry(t)]
    /\ UNCHANGED <<file, view, dialog>>

\* dedupePlanFilenameInState: a filename no plan of the cache has.
UnusedFilename(n) == cache[n] = NoPlan

\* importClickUpTask.  It arrives as a message, dialog or not, and a refused PlanStart
\* is only logged.
ImportClickUpTask(n) ==
    /\ UnusedFilename(n) /\ FreeGoroutine
    /\ Begin("tui", RegisterSteps(n)
                    \o << Step("content", n, "text", "must"),
                          Step("transition", n, "plan_start", "soft") >>
                    \o Reload(n) \o Spawn(n),
             None)
    /\ cache' = [cache EXCEPT ![n] = NewEntry("")]
    /\ UNCHANGED <<file, view, dialog>>

\* Mutant: the store is not told.
DiskOnlyRenamePlan(old, new) ==
    /\ old # new
    /\ cache[old] # NoPlan /\ cache[new] = NoPlan
    /\ UserBegins(old, << Step("reload", old, "", "must") >>, None)
    /\ file' = IF file[old] = NoFile
               THEN file
               ELSE [file EXCEPT ![new] = file[old], ![old] = NoFile]
    /\ cache' = [cache EXCEPT ![new] = cache[old], ![old] = NoPlan]
    /\ UNCHANGED <<view, dialog>>

\* PlanState.Rename: the file moves first (over any file already there), then
\* the cache is rekeyed, then the store is told.
RenamePlan(old, new) ==
    /\ old # new
    /\ cache[old] # NoPlan /\ cache[new] = NoPlan
    /\ UserBegins(old, << Step("rename", old, new, "must") >>, None)
    /\ file' = IF file[old] = NoFile
               THEN file
               ELSE [file EXCEPT ![new] = file[old], ![old] = NoFile]
    /\ cache' = [cache EXCEPT ![new] = cache[old], ![old] = NoPlan]
    /\ UNCHANGED <<view, dialog>>

SentinelTarget(event) ==
    CASE event = "planner_finished"         -> "ready"
      [] event = "implement_finished"       -> "reviewing"
      [] event = "review_approved"          -> "done"
      [] event = "review_changes_requested" -> "implementing"

\* Mutant: the planner's text is stored before the transition.
EarlyTextSignal(n, event) ==
    /\ Begin("tui", (IF event = "planner_finished" /\ file[n] # NoFile
                     THEN << Step("content", n, file[n], "soft") >> ELSE << >>)
                    \o Transitions(n, <<event>>)
                    \o << Step("reload", n, "", "always") >>,
             Announce(n, SentinelTarget(event)))
    /\ view' = NoView
    /\ UNCHANGED <<cache, file, dialog>>

\* A sentinel file found by the tick.  The tick's own plan state is dropped and
\* the cache reloaded, whatever happened to the transition.  A finished planner's
\* text is stored after the transition.
Signal(n, event) ==
    /\ Begin("tui", Transitions(n, <<event>>)
                    \o (IF event = "planner_finished" /\ file[n] # NoFile
                        THEN << Step("content", n, file[n], "soft") >> ELSE << >>)
                    \o << Step("reload", n, "", "always") >>,
             Announce(n, SentinelTarget(event)))
    /\ view' = NoView
    /\ UNCHANGED <<cache, file, dialog>>

\* waveAllCompleteMsg and coderCompleteMsg: the transition's error is logged, and
\* spawnReviewer backfills the branch.
ImplementationComplete(n) ==
    /\ Begin("tui", << Step("transition", n, "implement_finished", "soft") >> \o Reload(n)
                    \o << Step("backfill", n, "", "soft") >>,
             None)
    /\ UNCHANGED <<cache, file, view, dialog>>

\* cancel_plan, merge_plan and start_over_plan ask first; the entry is captured
\* when the dialog opens, and the confirmed action runs in a goroutine.
OpenDialog(op, n) ==
    /\ Idle("tui")
    /\ dialog = None
    /\ Serial => Quiet
    /\ cache[n] # NoPlan
    /\ op = "merge" => cache[n].branch # ""
    /\ dialog' = [op |-> op, name |-> n, meta |-> cache[n]]
    /\ UNCHANGED <<rows, topics, content, cache, file, view, todo, goal, ops, faults>>

\* Answering no, or a merge or reset that git refuses.
DismissDialog ==
    /\ dialog # None
    /\ dialog' = None
    /\ UNCHANGED <<rows, topics, content, cache, file, view, todo, goal, ops, faults>>

\* Cancelling works with what the dialog kept; merging keeps the entry too and looks
\* the plan up only to walk it to reviewing.
ConfirmDialog(g) ==
    /\ Idle("tui")
    /\ dialog # None
    /\ LET n      == dialog.name
           cached == cache[n].status
           known  == cache[n] # NoPlan
           after  == Reload(n) \o << Step("refresh", n, "", "must") >>
       IN \/ /\ dialog.op = "cancel"
             /\ Begin(g, Transitions(n, <<"cancel">>)
                           \o << Step("refresh", n, "", "must") >>,
                      Announce(n, "cancelled"))
          \/ /\ dialog.op = "merge"
             /\ known \/ dialog.meta.status \in {"done", "reviewing"}
             /\ Begin(g, Transitions(n, MarkDoneWalk(dialog.meta.status, cached)) \o after,
                      Announce(n, "done"))
          \/ /\ dialog.op = "start_over" /\ known
             /\ Begin(g, Transitions(n, ForceToPlanningWalk(cached)) \o after,
                      Announce(n, "planning"))
    /\ dialog' = None
    /\ UNCHANGED <<cache, file, view>>

\* kas plan transition, set-status --force, register and implement: each process
\* loads the store afresh.
Command(c) ==
    /\ \E n \in Names :
          \/ \E e \in Event : Begin(c, Transitions(n, <<e>>), None)
          \/ /\ Overrides
             /\ \E s \in Status :
                   Begin(c, << Step("force", n, s, "must") >>, Announce(n, s))
          \/ /\ file[n] # NoFile
             /\ Begin(c, << Step("register", n, "", "must") >>, Announce(n, "ready"))
          \/ Begin(c, << Step("implement", n, "", "must") >>, Announce(n, "implementing"))
    /\ UNCHANGED <<cache, file, view, dialog>>

----------------------------------------------------------------------------
(* Steps *)

Reads  == {"transition", "force", "register", "implement", "fetch"}
Writes == {"update", "create", "topic", "content", "rename"}

Next1(c)   == Head(todo[c])
Proceed(c, then) == todo' = [todo EXCEPT ![c] = then \o Tail(todo[c])]

\* What an error leaves of the steps after the failed one: only the last step of an
\* operation is ever an "always" one.
Unskippable(steps) ==
    IF steps # << >> /\ steps[Len(steps)].mode = "always"
    THEN << steps[Len(steps)] >> ELSE << >>

\* How a client goes on after its current step returned an error.
GiveUp(c) ==
    LET step == Next1(c) IN
    IF step.mode = "must"
    THEN /\ todo' = [todo EXCEPT ![c] = Unskippable(Tail(todo[c]))]
         /\ goal' = [goal EXCEPT ![c] = None]
    ELSE todo' = [todo EXCEPT ![c] = Tail(todo[c])] /\ UNCHANGED goal

Fault == faults < MaxFaults /\ faults' = faults + 1

\* Whether a client that loaded the store goes on, and with which steps.
Permits(step) ==
    CASE step.do = "transition" ->
            /\ rows[step.name] # NoPlan
            /\ Allowed(MapLegacyStatus(rows[step.name].status), step.arg)
      [] step.do = "register" -> rows[step.name] = NoPlan
      [] OTHER                -> rows[step.name] # NoPlan

WithStatus(n, s) == [rows[n] EXCEPT !.status = s]

Continuation(step) ==
    LET n == step.name IN
    CASE step.do = "transition" ->
            LET current == MapLegacyStatus(rows[n].status) IN
            << Step("update", n, WithStatus(n, ApplyTransition(current, step.arg)),
                    step.mode) >>
      [] step.do = "force"     -> << Step("update", n, WithStatus(n, step.arg), "must") >>
      [] step.do = "register"  -> RegisterSteps(n)
      [] step.do = "implement" -> Transitions(n, SetImplementingWalk(rows[n].status))
      [] step.do = "fetch"     -> << Step("write", n, content[n], "must") >>

Read(c) ==
    /\ ~Idle(c)
    /\ Next1(c).do \in Reads
    /\ \/ /\ Permits(Next1(c))
          /\ Proceed(c, Continuation(Next1(c)))
          /\ UNCHANGED <<goal, faults>>
       \/ ~Permits(Next1(c)) /\ GiveUp(c) /\ UNCHANGED faults
       \/ Fault /\ GiveUp(c)
    /\ UNCHANGED <<rows, topics, content, cache, file, view, dialog, ops>>

Accepted(step) ==
    CASE step.do = "update"  -> UpdateOK(step.name)
      [] step.do = "create"  -> CreateOK(step.name)
      [] step.do = "content" -> SetContentOK(step.name)
      [] step.do = "rename"  -> RenameOK(step.name, step.arg)
      [] step.do = "topic"   -> TRUE

Execute(step) ==
    \/ step.do = "update"  /\ Update(step.name, step.arg)
    \/ step.do = "create"  /\ Create(step.name, step.arg)
    \/ step.do = "content" /\ SetContent(step.name, step.arg)
    \/ step.do = "rename"  /\ Rename(step.name, step.arg)
    \/ step.do = "topic"   /\ CreateTopic(step.arg)

\* A call is executed, refused, lost on its way, or executed with the answer lost.
Write(c) ==
    /\ ~Idle(c)
    /\ Next1(c).do \in Writes
    /\ \/ /\ Accepted(Next1(c)) /\ Execute(Next1(c))
          /\ Proceed(c, << >>)
          /\ UNCHANGED <<goal, faults>>
       \/ /\ ~Accepted(Next1(c))
          /\ GiveUp(c)
          /\ UNCHANGED <<rows, topics, content, faults>>
       \/ Fault /\ GiveUp(c) /\ UNCHANGED <<rows, topics, content>>
       \/ Accepted(Next1(c)) /\ Execute(Next1(c)) /\ Fault /\ GiveUp(c)
    /\ UNCHANGED <<cache, file, view, dialog, ops>>

\* loadPlanState keeps the old cache when the load fails, and never fails itself.
\* planRefreshMsg is handled when the Update loop is free.
ReloadCache(c) ==
    /\ ~Idle(c)
    /\ Next1(c).do \in {"reload", "refresh"}
    /\ Next1(c).do = "refresh" => Idle("tui")
    /\ \/ cache' = Load /\ UNCHANGED faults
       \/ Fault /\ UNCHANGED cache
    /\ Proceed(c, << >>)
    /\ UNCHANGED <<rows, topics, content, file, view, dialog, goal, ops>>

\* A plan without a branch gets one, through SetBranch on the cached entry.
BackfillBranch(c) ==
    /\ ~Idle(c)
    /\ Next1(c).do = "backfill"
    /\ LET n     == Next1(c).name
           entry == [cache[n] EXCEPT !.branch = "plan"]
       IN \/ cache[n] = NoPlan /\ GiveUp(c) /\ UNCHANGED cache
          \/ /\ cache[n] # NoPlan /\ cache[n].branch # ""
             /\ Proceed(c, << >>)
             /\ UNCHANGED <<cache, goal>>
          \/ /\ cache[n] # NoPlan /\ cache[n].branch = ""
             /\ cache' = [cache EXCEPT ![n] = entry]
             /\ Proceed(c, << Step("update", n, entry, Next1(c).mode) >>)
             /\ UNCHANGED goal
    /\ UNCHANGED <<rows, topics, content, file, view, dialog, ops, faults>>

\* spawnPlanAgent for a planner or a solo agent: a goroutine writes the stored
\* text to docs/plans before the agent starts (materializePlanFile).
SpawnAgent(g) ==
    /\ ~Idle("tui") /\ Next1("tui").do = "spawn"
    /\ LET n == Next1("tui").name IN
       \/ /\ cache[n] = NoPlan
          /\ GiveUp("tui")
       \/ /\ cache[n] # NoPlan
          /\ Idle(g)
          /\ todo' = [todo EXCEPT !["tui"] = Tail(todo["tui"]),
                                  ![g] = << Step("fetch", n, "", "must") >>]
          /\ goal' = [goal EXCEPT ![g] = None]
    /\ UNCHANGED <<rows, topics, content, cache, file, view, dialog, ops, faults>>

WriteFile(g) ==
    /\ ~Idle(g)
    /\ Next1(g).do = "write"
    /\ file' = [file EXCEPT ![Next1(g).name] = Next1(g).arg]
    /\ Proceed(g, << >>)
    /\ UNCHANGED <<rows, topics, content, cache, view, dialog, goal, ops, faults>>

----------------------------------------------------------------------------
(* The metadata tick and the agents *)

TickLoad ==
    /\ view = NoView
    /\ Serial => Quiet
    /\ view' = Load
    /\ UNCHANGED <<rows, topics, content, cache, file, dialog, todo, goal, ops, faults>>

\* Mutant: the loaded plan state is thrown away.
DroppedTickApply ==
    /\ view # NoView
    /\ Idle("tui")
    /\ view' = NoView
    /\ UNCHANGED <<rows, topics, content, cache, file, dialog, todo, goal, ops, faults>>

TickApply ==
    /\ view # NoView
    /\ Idle("tui")
    /\ cache' = view
    /\ view' = NoView
    /\ UNCHANGED <<rows, topics, content, file, dialog, todo, goal, ops, faults>>

\* A planner writes its plan.
AgentWritesPlan(n) ==
    /\ Serial => Quiet
    /\ rows[n] # NoPlan /\ rows[n].status = "planning"
    /\ file[n] # "text"
    /\ file' = [file EXCEPT ![n] = "text"]
    /\ UNCHANGED <<rows, topics, content, cache, view, dialog, todo, goal, ops, faults>>

----------------------------------------------------------------------------

UserStep ==
    \/ \E n \in Names :
          \/ StagePlan(n) \/ StageSolo(n) \/ StageImplement(n) \/ StageReview(n)
          \/ StageFinished(n) \/ StageRefused(n) \/ MarkPlanDone(n) \/ RequestReview(n)
          \/ ResumeImplement(n) \/ ModifyPlan(n) \/ ImportClickUpTask(n)
          \/ ImplementationComplete(n)
    \/ \E n \in Names, t \in Topics \cup {""} : ChangeTopic(n, t) \/ CreatePlan(n, t)
    \/ \E n \in Names, s \in Status : SetStatus(n, s)
    \/ \E old, new \in Names : RenamePlan(old, new)
    \/ \E n \in Names, op \in {"cancel", "merge", "start_over"} : OpenDialog(op, n)
    \/ \E g \in Goroutines : ConfirmDialog(g)
    \/ DismissDialog

\* The steps of operations under way: the code that is running already.
Progress(c) == Read(c) \/ Write(c) \/ ReloadCache(c) \/ BackfillBranch(c)
GoroutineStep(g) == SpawnAgent(g) \/ WriteFile(g)

Next ==
    \/ UserStep
    \/ \E n \in Names, e \in SentinelEvent : Signal(n, e)
    \/ \E n \in Names : AgentWritesPlan(n)
    \/ \E c \in Commands : Command(c)
    \/ \E c \in Clients : Progress(c)
    \/ \E g \in Goroutines : GoroutineStep(g)
    \/ TickLoad
    \/ TickApply

Spec == Init /\ [][Next]_vars

\* Code that has begun runs on, and the tick is rescheduled by its own message.
\* Users, agents and other processes owe nothing.
Fairness ==
    /\ \A c \in Clients : WF_vars(Progress(c))
    /\ \A g \in Goroutines : WF_vars(GoroutineStep(g))
    /\ WF_vars(TickLoad)
    /\ WF_vars(TickApply)

FairSpec == Spec /\ Fairness

----------------------------------------------------------------------------
(* Properties.  Those of the first group hold while operations and ticks   *)
(* run one at a time and no store call fails; the second group holds in    *)
(* every environment.                                                      *)

Lifecycle == INSTANCE PlanLifecycle WITH
    status <- [n \in Names |-> IF rows[n] = NoPlan THEN "none"
                               ELSE MapLegacyStatus(rows[n].status)]

\* Statuses change only along the transition table, whichever handler, walk or
\* picker wrote them: every operation together implements PlanLifecycle.
ImplementsLifecycle == Lifecycle!Spec

\* Between operations the TUI shows what the store holds, the entries its pickers
\* will write back included: no handler forgets its reload.
CacheFresh == Quiet /\ dialog = None /\ view = NoView => cache = rows

\* An operation that ends without an error has brought its plan to the status the
\* handler reports ("planning -> ready", "status -> done"): no walk stops short.
AnnouncedStatusStored ==
    [][\A c \in Clients :
          todo[c] # << >> /\ todo'[c] = << >> /\ goal'[c] # None =>
             /\ rows'[goal[c].name] # NoPlan
             /\ MapLegacyStatus(rows'[goal[c].name].status) = goal[c].status]_vars

\* When the handling of planner-finished reaches its reload, the store holds the
\* planner's text: it is ingested after the transition, whose update erases it.
PlannerTextIngested ==
    \A n \in Names :
        /\ todo["tui"] = << Step("reload", n, "", "always") >>
        /\ goal["tui"] = Announce(n, "ready")
        /\ file[n] # NoFile
        => content[n] = file[n]

\* A plan file on disk is the file of a plan: Rename moves the two together.
FileFollowsRow == Quiet => \A n \in Names : file[n] # NoFile => rows[n] # NoPlan

\* Between operations the topic of every plan is listed: no handler forgets the second
\* call, and no picker writes back an entry whose topic was never created.
TopicsListed ==
    Quiet => \A n \in Names : rows[n] # NoPlan => rows[n].topic \in topics \cup {""}

\* Whatever failed, the sidebar comes to show the store, by itself.
CacheConverges == <>[](cache = rows)
=============================================================================
