------------------------------ MODULE PlanFlow ------------------------------
(***************************************************************************)
(* One plan's way through its agents: the planner, the solo agent, the     *)
(* task of a wave, the reviewer, and the coder that gets the reviewer's    *)
(* feedback.  The agents report in sentinel files, which the metadata tick *)
(* scans in a goroutine and applies in the Update loop (app/app.go), where *)
(* it also notices exited coders and finished waves and asks the user;     *)
(* the answers and the context menu start the next agent (app/app_state.go,*)
(* app/app_actions.go, app/app_input.go).                                  *)
(*                                                                         *)
(* A handler is an operator from the state of the home model to the next   *)
(* one, and the tick is their composition in the order of the code.        *)
(*                                                                         *)
(* Abstracted: the plan has one wave of one task (WaveControl has waves,   *)
(* retries and implement-wave files); agents start at once and their       *)
(* worktree can always be set up (AgentSessions); nobody else writes the   *)
(* status, which needs no walk from a legacy one (PlanClients, with topics *)
(* and the set status menu).                                               *)
(***************************************************************************)
EXTENDS PlanFSM, Lists, SequencesExt

CONSTANTS
    NoView,   \* no tick in flight
    MaxActs,  \* bound on what the user does on the plan, its agents and its menu
    MaxWork   \* bound on the sentinel files the agents write

ASSUME FlowAssumption == {MaxActs, MaxWork} \subseteq Nat

VARIABLES
    home,   \* the home model with the stored status, the sessions and the files it changes
    view,   \* what the tick in flight collected
    msgs,   \* per kind, the commands of answered dialogs under way
    used    \* per bound, what was used of it

vars == <<home, view, msgs, used>>

\* A kind has one title, so its agents share a tmux session.
Kind       == {"planner", "solo", "task", "coder", "reviewer"}
CoderKinds == {"solo", "task", "coder"}     \* AgentTypeCoder
TreeKinds  == {"task", "coder", "reviewer"} \* in the plan's shared worktree

\* complete is ImplementationComplete.
Agent == [kind : Kind, paused : BOOLEAN, complete : BOOLEAN]

\* A sentinel file in .kasmos/signals of the main checkout or of the worktree.
File == [dir : {"main", "tree"}, event : SentinelEvent]

Message == {"plannerDone", "coderExit", "allComplete", "cancel", "merge", "startOver"}

\* docs/plans/<plan>, as executePlanStage finds it: with or without wave headers, if at all.
Text == {"waves", "plain", "unreadable"}

Home == [status   : Status,        \* in the store
         cached   : Status,        \* in m.planState
         agents   : Seq(Agent),    \* in the sidebar
         sessions : SUBSET Kind,   \* the kinds with a live session
         idle     : BOOLEAN,       \* the task's agent shows that it is done
         files    : SUBSET File,
         dialog   : {"none", "menu"} \cup Message,
         menu     : Status,        \* cached when the menu opened
         captured : Status,        \* cached when merge_plan's dialog opened
         planner  : BOOLEAN,       \* pendingPlannerPlanFile is set
         prompted : BOOLEAN,       \* plannerPrompted
         deferred : Nat,           \* how often deferredPlannerDialogs has the plan
         owed     : Nat,           \* how often pendingAllComplete has it
         planned  : BOOLEAN,       \* a planner's text was ingested
         orch     : {"none", "idle", "running"}]

\* seen: the kinds of the unpaused agents; dead: those without a session; idle: the
\* task's agent is done; woken: those whose captured screen sets a new status.
View == [seen : SUBSET Kind, dead : SUBSET Kind, idle : BOOLEAN, woken : SUBSET Kind,
         status : Status, files : SUBSET File]

Limit == [acts |-> MaxActs, work |-> MaxWork]

Init ==
    /\ \E s \in Status :
          home = [status |-> s, cached |-> s, agents |-> << >>, sessions |-> {},
                  idle |-> FALSE, files |-> {}, dialog |-> "none", menu |-> s,
                  captured |-> s, planner |-> FALSE, prompted |-> FALSE, deferred |-> 0,
                  owed |-> 0, planned |-> FALSE, orch |-> "none"]
    /\ view = NoView
    /\ msgs = [m \in Message |-> 0]
    /\ used = [b \in DOMAIN Limit |-> 0]

----------------------------------------------------------------------------
(* Agents *)

Listed(h) == {h.agents[i].kind : i \in DOMAIN h.agents}
Spend(b)  == used[b] < Limit[b] /\ used' = [used EXCEPT ![b] = @ + 1]

InOverlay(h) == h.dialog # "none"
Reloaded(h)  == [h EXCEPT !.cached = h.status]

\* killExistingPlanAgent: off the lists, and their sessions closed.
Killed(h, kinds) ==
    [h EXCEPT !.agents   = Only(@, {a \in Agent : a.kind \notin kinds}),
              !.sessions = @ \ (kinds \cap Listed(h))]

\* A new instance, which attaches to a session of its title that is still there.  Setting
\* the shared worktree up removes it first, with the files the agents left in it.
Started(h, kind) ==
    [h EXCEPT !.agents   = Append(@, [kind |-> kind, paused |-> FALSE, complete |-> FALSE]),
              !.sessions = @ \cup {kind},
              !.idle     = @ /\ (kind # "task" \/ "task" \in h.sessions),
              !.files    = IF kind \in TreeKinds THEN {f \in @ : f.dir = "main"} ELSE @]

\* The first agent of these kinds in the list is paused; its session lives on.
PausedFirst(h, kinds, complete) ==
    LET S == {i \in DOMAIN h.agents : h.agents[i].kind \in kinds}
        first == CHOOSE i \in S : \A j \in S : i <= j
    IN IF S = {} THEN h
       ELSE [h EXCEPT !.agents[first].paused = TRUE, !.agents[first].complete = @ \/ complete]

\* Mutant of SpawnedReviewer: the previous reviewer is left alone.
SecondSpawnedReviewer(h) ==
    IF "solo" \in Listed(h) THEN h ELSE Started(h, "reviewer")

SpawnedReviewer(h) ==
    IF "solo" \in Listed(h) THEN h ELSE Started(Killed(h, {"reviewer"}), "reviewer")

SpawnedCoder(h) == Started(Killed(h, CoderKinds), "coder")

\* spawnPlanAgent: it replaces planners and reviewers only.
SpawnedAgent(h, kind) == Started(Killed(h, {kind} \ {"solo"}), kind)

----------------------------------------------------------------------------
(* Walks through the lifecycle *)

\* fsm.Transition, unless an earlier one was refused.
Sent(w, e) ==
    IF w.ok /\ Allowed(w.home.status, e)
    THEN [w EXCEPT !.home.status = ApplyTransition(@, e)]
    ELSE [w EXCEPT !.ok = FALSE]

Walked(h, events) ==
    LET w[k \in 0 .. Len(events)] ==
            IF k = 0 THEN [home |-> h, ok |-> TRUE] ELSE Sent(w[k - 1], events[k])
    IN w[Len(events)]

\* A handler whose first refused event ends it.
After(h, events, Then(_)) ==
    LET w == Walked(h, events) IN IF w.ok THEN Then(Reloaded(w.home)) ELSE w.home

\* fsm.Transition with its error only logged.
Tried(h, event) == Walked(h, <<event>>).home

Planning(h, walk) == After(h, walk, LAMBDA x : SpawnedAgent(x, "planner"))

\* executePlanStage, "implement".  The orchestrator is there before the transition is
\* tried; startNextWave sets it going.
Implemented(h, text) ==
    CASE text = "waves" ->
            After([h EXCEPT !.orch = "idle"], SetImplementingWalk(h.cached),
                  LAMBDA x : Started([x EXCEPT !.orch = "running"], "task"))
      [] text = "plain"      -> Planning(h, RevertToPlanningWalk(h.cached))
      [] text = "unreadable" -> h

----------------------------------------------------------------------------
(* Dialogs *)

Asked(h, d) == [h EXCEPT !.dialog = d]

AskedPlanner(h) == [Asked(h, "plannerDone") EXCEPT !.planner = TRUE]

\* The end of plannerCompleteMsg and of every "no" while pendingPlannerPlanFile is set.
PlannerSettled(h) ==
    [Killed(h, {"planner"}) EXCEPT !.prompted = TRUE, !.planner = FALSE]

\* "no" and Esc are the same here.
Declined(h) == LET x == Asked(h, "none") IN IF h.planner THEN PlannerSettled(x) ELSE x

\* Mutant of PlannerFinished: the dialog is dropped while another overlay is open.
ForgetfulPlannerFinished(h) ==
    LET x == [h EXCEPT !.planned = TRUE] IN
    IF h.prompted \/ InOverlay(h) THEN x ELSE AskedPlanner(x)

PlannerFinished(h) ==
    LET x == [h EXCEPT !.planned = TRUE] IN
    CASE h.prompted   -> x
      [] ~h.prompted /\ InOverlay(h)  -> [x EXCEPT !.deferred = @ + 1]
      [] ~h.prompted /\ ~InOverlay(h) -> AskedPlanner(x)

----------------------------------------------------------------------------
(* The tick *)

\* ConsumeSignal deletes the file that was scanned, whatever became of the signal.
Consumed(h, f) == [h EXCEPT !.files = @ \ {f}]

SignalApplied(h, f) ==
    LET x == Tried(Consumed(h, f), f.event) IN
    CASE \/ f.event = "implement_finished" /\ h.orch # "none"
         \/ ~Allowed(h.status, f.event)       -> Consumed(h, f)
      [] OTHER ->
         CASE f.event = "implement_finished"  ->
                 SpawnedReviewer(PausedFirst(x, CoderKinds, TRUE))
           [] f.event = "review_approved"     ->
                 [x EXCEPT !.sessions = IF "reviewer" \in Listed(x) THEN @ \ {"reviewer"}
                                                                    ELSE @]
           [] f.event = "review_changes_requested" ->
                 SpawnedCoder(PausedFirst(x, {"reviewer"}, FALSE))
           [] f.event = "planner_finished"    -> PlannerFinished(x)

\* The directory is read by name, and every event is taken once, from the main checkout
\* if it is there.
SignalOrder == <<"implement_finished", "planner_finished", "review_approved",
                 "review_changes_requested">>
InDir(files, dir) ==
    Only([i \in 1 .. 4 |-> [dir |-> dir, event |-> SignalOrder[i]]], files)
Scanned(files) ==
    InDir(files, "main")
        \o Only(InDir(files, "tree"), {f \in File : [f EXCEPT !.dir = "main"] \notin files})

\* The signals one after the other.
InTurn(h, signals) ==
    LET x[k \in 0 .. Len(signals)] ==
            IF k = 0 THEN h ELSE SignalApplied(x[k - 1], signals[k])
    IN x[Len(signals)]

SignalsApplied(h, files) ==
    IF files = {} THEN h ELSE Reloaded(InTurn(h, Scanned(files)))

DeferredShown(h) ==
    IF h.deferred = 0 \/ InOverlay(h) THEN h
    ELSE LET x == [h EXCEPT !.deferred = @ - 1]
         IN IF h.prompted THEN x ELSE AskedPlanner(x)

\* A result goes to the last instance of its title.  SetStatus, to running or to ready,
\* also ends the pause of one that a signal of the same tick has paused.
ResultsApplied(h, v) ==
    LET last(k) == CHOOSE i \in DOMAIN h.agents :
                      /\ h.agents[i].kind = k
                      /\ \A j \in DOMAIN h.agents : h.agents[j].kind = k => j <= i
        woken   == {last(k) : k \in v.woken \cap Listed(h)}
        resumed(i) == [h.agents[i] EXCEPT !.paused = @ /\ i \notin woken]
    IN [h EXCEPT !.agents = [i \in DOMAIN @ |-> resumed(i)],
                 !.cached = IF v.files = {} THEN v.status ELSE @]

\* The coder-exit prompt, for coders that are no task's and no solo agent.
CoderExitAsked(h, v) ==
    IF /\ ~InOverlay(h) /\ "coder" \in Listed(h) \cap v.dead
       /\ h.cached = "implementing"
    THEN Asked(h, "coderExit") ELSE h

AllCompleteShown(h) ==
    IF InOverlay(h) \/ h.owed = 0 THEN h
    ELSE [Asked(h, "allComplete") EXCEPT !.owed = @ - 1]

\* The wave is over when its task's agent is idle, paused, dead or gone.
TaskEnded(h, v) ==
    LET S == {i \in DOMAIN h.agents : h.agents[i].kind = "task"} IN
    \/ S = {}
    \/ \E i \in S : (\A j \in S : j <= i) /\ h.agents[i].paused
    \/ "task" \in v.seen /\ (v.idle \/ "task" \in v.dead)

WaveMonitored(h, v) ==
    IF h.orch # "running" \/ ~TaskEnded(h, v) THEN h
    ELSE LET x == [h EXCEPT
                     !.orch = "none",
                     !.agents = [i \in DOMAIN @ |->
                         IF @[i].kind = "task"
                         THEN [@[i] EXCEPT !.paused = TRUE, !.complete = TRUE] ELSE @[i]]]
         IN IF InOverlay(h) THEN [x EXCEPT !.owed = @ + 1] ELSE Asked(x, "allComplete")

\* checkPlanCompletion and transitionToReview: for the first agent of a done plan that is
\* not complete, be it a coder or not.
CompletionChecked(h) ==
    LET S == {i \in DOMAIN h.agents : ~h.agents[i].complete}
        first == CHOOSE i \in S : \A j \in S : i <= j
        x == [h EXCEPT !.agents[first].complete = TRUE]
    IN CASE h.cached # "done" \/ "reviewer" \in Listed(h) \/ S = {} -> h
         [] OTHER -> IF Allowed(h.status, "implement_finished")
                     THEN SpawnedReviewer([Tried(x, "implement_finished")
                                              EXCEPT !.agents[first].paused = TRUE])
                     ELSE x

\* The goroutine reads the sessions, the store and the files.  The worktree is known
\* from the agents that work in it.
Collect ==
    /\ view = NoView
    /\ LET seen  == {home.agents[i].kind : i \in {j \in DOMAIN home.agents :
                                                     ~home.agents[j].paused}}
           alive == seen \cap home.sessions
       IN \E woken \in SUBSET alive :
             view' = [seen |-> seen, dead |-> seen \ alive,
                      idle |-> home.idle /\ "task" \in alive, woken |-> woken,
                      status |-> home.status,
                      files |-> {f \in home.files :
                                    f.dir = "main" \/ Listed(home) \cap TreeKinds # {}}]
    /\ UNCHANGED <<home, msgs, used>>

Apply ==
    /\ view # NoView
    /\ \E signalled \in {SignalsApplied(home, view.files)} :
       \E observed \in {ResultsApplied(DeferredShown(signalled), view)} :
       \E asked \in {AllCompleteShown(CoderExitAsked(observed, view))} :
          home' = CompletionChecked(WaveMonitored(asked, view))
    /\ view' = NoView
    /\ UNCHANGED <<msgs, used>>

----------------------------------------------------------------------------
(* Answers *)

\* "yes" runs the action as a command, whose message comes later.
Confirm ==
    /\ home.dialog \in Message
    /\ msgs[home.dialog] < 2
    /\ msgs' = [msgs EXCEPT ![home.dialog] = @ + 1]
    /\ home' = Asked(home, "none")
    /\ UNCHANGED <<view, used>>

Decline ==
    /\ home.dialog \in Message
    /\ home' = Declined(home)
    /\ UNCHANGED <<view, msgs, used>>

Handled(m, next) ==
    /\ msgs[m] > 0
    /\ msgs' = [msgs EXCEPT ![m] = @ - 1]
    /\ home' = next
    /\ UNCHANGED <<view, used>>

\* plannerCompleteMsg
PlannerComplete ==
    \E text \in Text : Handled("plannerDone", Implemented(PlannerSettled(home), text))

\* waveAllCompleteMsg and coderCompleteMsg: the review starts also after a refusal.
AllComplete ==
    Handled("allComplete", SpawnedReviewer(Reloaded(Tried(home, "implement_finished"))))
CoderComplete ==
    Handled("coderExit",
        SpawnedReviewer(Reloaded(PausedFirst(Tried(home, "implement_finished"),
                                             CoderKinds, TRUE))))

CancelDone == Handled("cancel", After(home, <<"cancel">>, LAMBDA x : x))

\* The agents are killed but stay in the sidebar.  Git may refuse the merge or the reset.
SessionsKilled == [home EXCEPT !.sessions = @ \ Listed(home)]
Merged ==
    \/ Handled("merge", SessionsKilled)
    \/ Handled("merge",
           After(SessionsKilled, MarkDoneWalk(home.captured, home.cached), LAMBDA x : x))
StartedOver ==
    \/ Handled("startOver", SessionsKilled)
    \/ Handled("startOver",
           After(SessionsKilled, ForceToPlanningWalk(home.cached), LAMBDA x : x))

----------------------------------------------------------------------------
(* The context menu *)

OpenMenu ==
    /\ ~InOverlay(home) /\ Spend("acts")
    /\ home' = [Asked(home, "menu") EXCEPT !.menu = home.cached]
    /\ UNCHANGED <<view, msgs>>

CloseMenu ==
    /\ home.dialog = "menu"
    /\ home' = Asked(home, "none")
    /\ UNCHANGED <<view, msgs, used>>

\* The entries depend on the status when the menu opened, the handlers on the newest.
Chosen(offered, next) ==
    /\ home.dialog = "menu" /\ home.menu \in offered
    /\ home' = next
    /\ UNCHANGED <<view, msgs, used>>

Closed == Asked(home, "none")

StartPlan == Chosen({"ready", "planning"}, Planning(Closed, <<"plan_start">>))
StartImplement ==
    \E text \in Text :
       Chosen({"ready", "planning", "implementing"}, Implemented(Closed, text))
StartSolo ==
    Chosen({"ready", "planning", "implementing"},
           After(Closed, SetImplementingWalk(home.cached),
                 LAMBDA x : SpawnedAgent(x, "solo")))
StartReview ==
    Chosen({"ready", "planning", "implementing", "reviewing"},
           After(Closed, SetReviewingWalk(home.cached),
                 LAMBDA x : SpawnedAgent(x, "reviewer")))
RequestReview ==
    Chosen({"done"}, After(Closed, <<"request_review">>, SpawnedReviewer))
ResumeImplement ==
    Chosen({"done"}, After(Closed, <<"reimplement">>, LAMBDA x : x))
MarkPlanDone ==
    Chosen(Status, After(Closed, MarkDoneWalk(home.cached, home.cached), LAMBDA x : x))
AskAboutPlan ==
    \E d \in {"cancel", "merge", "startOver"} :
       Chosen(Status, [Asked(home, d) EXCEPT !.captured = home.cached])

----------------------------------------------------------------------------
(* Agents and the user's acts on them *)

\* The planner works in the main checkout, the others in the plan's worktree.  A wave's
\* task may report the end of the whole implementation.
Report(kind, dir, event) ==
    /\ kind \in home.sessions
    /\ Spend("work")
    /\ home' = [home EXCEPT !.files = @ \cup {[dir |-> dir, event |-> event]}]
    /\ UNCHANGED <<view, msgs>>

AgentReports ==
    \/ Report("planner", "main", "planner_finished")
    \/ Report("solo", "main", "implement_finished")
    \/ \E k \in {"task", "coder"} : Report(k, "tree", "implement_finished")
    \/ \E e \in {"review_approved", "review_changes_requested"} : Report("reviewer", "tree", e)

TaskIdle ==
    /\ "task" \in home.sessions /\ ~home.idle
    /\ home' = [home EXCEPT !.idle = TRUE]
    /\ UNCHANGED <<view, msgs, used>>

\* An agent exits, or the user ends its session.
AgentExits ==
    /\ \E k \in home.sessions : home' = [home EXCEPT !.sessions = @ \ {k}]
    /\ UNCHANGED <<view, msgs, used>>

\* The user removes an agent from the sidebar.
KillAgent ==
    /\ ~InOverlay(home) /\ Spend("acts")
    /\ \E i \in DOMAIN home.agents :
          home' = [home EXCEPT !.agents = RemoveAt(@, i),
                               !.sessions = @ \ {home.agents[i].kind}]
    /\ UNCHANGED <<view, msgs>>

----------------------------------------------------------------------------

Arrival == PlannerComplete \/ AllComplete \/ CoderComplete \/ CancelDone \/ Merged
           \/ StartedOver

Menu == OpenMenu \/ CloseMenu \/ StartPlan \/ StartImplement \/ StartSolo \/ StartReview
        \/ RequestReview \/ ResumeImplement \/ MarkPlanDone \/ AskAboutPlan

Next == Collect \/ Apply \/ Confirm \/ Decline \/ Arrival \/ Menu
        \/ AgentReports \/ TaskIdle \/ AgentExits \/ KillAgent

Spec == Init /\ [][Next]_vars

\* The tick is rescheduled by its own message, commands that run end, and the user
\* answers dialogs and leaves menus.  A message is handled when it is taken, and a tick
\* applied when its view is gone.
Taken(m) == msgs[m] > 0 /\ msgs' = [msgs EXCEPT ![m] = @ - 1]
ViewGone == view # NoView /\ view' = NoView
FairSpec ==
    /\ Spec
    /\ WF_vars(Collect) /\ WF_view(ViewGone)
    /\ \A m \in Message : WF_msgs(Taken(m))
    /\ WF_vars(Decline) /\ WF_vars(CloseMenu)

----------------------------------------------------------------------------
(* Properties *)

\* The state has its shape: each agent in the list, at most one planner, coder and
\* reviewer among them, whatever handlers, ticks and stale answers spawn them.
TypeOK ==
    /\ home \in Home
    /\ view = NoView \/ view \in View
    /\ msgs \in [Message -> 0 .. 2]
    /\ used \in [DOMAIN Limit -> Nat] /\ \A b \in DOMAIN Limit : used[b] <= Limit[b]
    /\ \A i, j \in DOMAIN home.agents :
          /\ home.agents[i].kind = home.agents[j].kind
          /\ home.agents[i].kind \in {"planner", "coder", "reviewer"}
          => i = j

\* m is the number of answers under way to the planner's dialog.
Owing(h, m) ==
    /\ h.planned /\ ~h.prompted => h.deferred > 0 \/ h.dialog = "plannerDone" \/ m > 0
    /\ h.dialog = "plannerDone" /\ ~h.prompted => h.planner

\* The planner's signal is deleted when it is applied, and the dialog about its plan may
\* not open then.  The end is not lost: while the user has not answered it, it is counted
\* among the deferred ones, asked, or answered with the answer under way, and an open
\* question remembers its plan, so that answering it settles that plan.
FinishedIsOwed == Owing(home, msgs["plannerDone"])

CoderExited ==
    /\ home.status = "implementing" /\ "coder" \notin home.sessions
    /\ \E i \in DOMAIN home.agents : home.agents[i].kind = "coder" /\ ~home.agents[i].paused

\* An end that needs the user is put to the user, although its signal is consumed by
\* then and other dialogs may be open: the first plan a planner finishes, and the exit of
\* a coder while the plan is implementing.
EndsAreAsked ==
    /\ (home.planned /\ ~home.prompted) ~> (home.dialog = "plannerDone" \/ home.prompted)
    /\ CoderExited ~> (home.dialog = "coderExit" \/ ~CoderExited)
=============================================================================
