----------------------------- MODULE WaveControl -----------------------------
(***************************************************************************)
(* The TUI around one plan's wave orchestrator (app/app.go): it starts the *)
(* agents of a wave in tmux sessions, polls them with the metadata tick,   *)
(* asks the user what to do when a wave is over, and hands the plan to a   *)
(* reviewer after the last one.                                            *)
(*                                                                         *)
(* One Update loop handles messages, keys and tick results one at a time,  *)
(* each handler being one action.  What runs beside it are the tick's      *)
(* goroutine (a result may be applied long after it was collected), the    *)
(* goroutines that start agents, the messages of answered dialogs, the     *)
(* agents themselves, and the user.                                        *)
(*                                                                         *)
(* Abstracted: the agents are programs that take their prompt on the       *)
(* command line and show when they are idle (opencode), so QueuedPrompt    *)
(* and AwaitingWork are not used for tasks; the git worktree is only there *)
(* as a reason for a start or a resume to fail; the plan store is the      *)
(* status of this plan (PlanClients has the store's own races).            *)
(***************************************************************************)
EXTENDS WaveOrchestratorOps, PlanFSM, FiniteSets

CONSTANTS
    Plan,          \* the waves of the plan
    NoOrch,        \* m.waveOrchestrators has no entry for the plan
    NoView,        \* no tick in flight
    AutoAdvance,   \* the values appConfig.AutoAdvanceWaves is toggled to
    StaleTicks,    \* whether anything happens while a tick is in flight
    Manual,        \* whether the user also acts on single agents and the plan
    Interruptions, \* whether the tmux browser may arrive over a dialog
    MaxStarts,     \* bound on implementations started
    MaxRetries,    \* bound on retries
    MaxFaults,     \* bound on agents that die and on starts that fail
    MaxActs,       \* bound on the user's acts on agents and the plan
    MaxRestarts    \* bound on restarts of kasmos

ASSUME ControlAssumption ==
    /\ Plan \in Seq(Wave) /\ Plan # << >>
    /\ NoOrch \notin Orchestrator
    /\ AutoAdvance \subseteq BOOLEAN /\ AutoAdvance # {}
    /\ {StaleTicks, Manual, Interruptions} \subseteq BOOLEAN
    /\ {MaxStarts, MaxRetries, MaxFaults, MaxActs, MaxRestarts} \subseteq Nat
    \* Two things Restart leaves out: instances removed from the sidebar while they
    \* start (they stay in the state file), and the loop of
    \* rebuildOrphanedOrchestrators, which does not end for a wave without tasks or
    \* a wave number the plan does not have.
    /\ MaxRestarts > 0 => /\ ~Manual /\ ~StaleTicks
                          /\ \A k \in DOMAIN Plan : Plan[k].tasks # {}

VARIABLES
    status,   \* the plan's stored status
    orch,     \* the plan's orchestrator
    nav,      \* per title, the instances of the sidebar, oldest first
    strays,   \* titles whose start goes on although the instance was removed
    sess,     \* per title, the tmux session and what its agent does
    view,     \* what the tick in flight collected
    ui,       \* the state and the pending actions of the home model
    msgs,     \* per kind, the messages on their way to the Update loop
    deferred, \* m.pendingAllComplete has the plan
    cooldown, \* less than 30 s since a wave dialog was dismissed
    saved,    \* per title, the instances in the state file
    reviewer, \* a reviewer was spawned
    signal,   \* the wave an implement-wave-N file asks for, 0 without a file
    used      \* per bound, what was used of it

vars == <<status, orch, nav, strays, sess, view, ui, msgs, deferred, cooldown,
          saved, reviewer, signal, used>>

\* A task's instances, tmux session and tick results share the title <plan>-W<n>-T<n>.
Titles == UNION {{<<Plan[k].number, t>> : t \in Plan[k].tasks} : k \in DOMAIN Plan}
CurrentTitles(o) == {<<CurrentWaveNumber(o), t>> : t \in CurrentWaveTasks(o)}

\* loading: in the sidebar, its start still going on; failed: its start failed.
\* prompt is PromptDetected.
Instance == [phase : {"loading", "failed", "live", "paused"}, prompt : BOOLEAN]

\* busy: the agent works; settling: it is idle but its screen changed since the
\* monitor last looked; idle: the monitor reports the idle screen.
Session == {"none", "busy", "settling", "idle"}

\* A title the tick skipped, or what CollectMetadata returned for it; and the wave
\* an implement-wave-N signal file asks for (0: there is none).
Observation == {"skipped", "dead", "updated", "prompt"}
View == [seen : [Titles -> Observation], wave : 0 .. Len(Plan)]

Message == {"advance", "retry", "abort", "allComplete"}

\* screen is m.state; confirm is m.pendingConfirmAction, by the message it sends
\* ("other" for a dialog that is not about the wave); next, abort and wave tell
\* whether pendingWaveNextAction, pendingWaveAbortAction and
\* pendingWaveConfirmPlanFile are set; browsing: a list of tmux sessions is on its way.
UI == [screen   : {"default", "confirm", "overlay"},
       confirm  : Message \cup {"none", "other"},
       next     : BOOLEAN, abort : BOOLEAN, wave : BOOLEAN,
       browsing : BOOLEAN]

Limit == [starts |-> MaxStarts, retries |-> MaxRetries, faults |-> MaxFaults,
          acts |-> MaxActs, restarts |-> MaxRestarts]

TypeOK ==
    /\ status \in Status
    /\ orch = NoOrch \/ orch \in Orchestrator
    /\ nav \in [Titles -> Seq(Instance)]
    /\ strays \subseteq Titles
    /\ sess \in [Titles -> Session]
    /\ view = NoView \/ view \in View
    /\ ui \in UI
    /\ msgs \in [Message -> Nat]
    /\ {deferred, cooldown, reviewer} \subseteq BOOLEAN
    /\ saved \in [Titles -> Seq({"live", "paused"})]
    /\ signal \in 0 .. Len(Plan)
    /\ \A b \in DOMAIN Limit : used[b] \in 0 .. Limit[b]

NoPending == [screen |-> "default", confirm |-> "none",
              next |-> FALSE, abort |-> FALSE, wave |-> FALSE, browsing |-> FALSE]

\* A plan whose planner is done.
Init ==
    /\ status = "ready"
    /\ orch = NoOrch
    /\ nav = [t \in Titles |-> << >>]
    /\ strays = {}
    /\ sess = [t \in Titles |-> "none"]
    /\ view = NoView
    /\ ui = NoPending
    /\ msgs = [m \in Message |-> 0]
    /\ deferred = FALSE /\ cooldown = FALSE /\ reviewer = FALSE
    /\ saved = [t \in Titles |-> << >>]
    /\ signal = 0
    /\ used = [b \in DOMAIN Limit |-> 0]

----------------------------------------------------------------------------
(* Helpers *)

Affordable(b) == used[b] < Limit[b]
Spend(b)      == [used EXCEPT ![b] = @ + 1]

\* With StaleTicks FALSE a tick is applied before anything else happens.
BetweenTicks == StaleTicks \/ view = NoView

Missing(n, t) == n[t] = << >>
LastOf(n, t)  == n[t][Len(n[t])]   \* the one instanceMap keeps

\* Mutant of Cleared: a retry keeps the failed instances.
KeptStale(n, S) == n

\* retryFailedWaveTasks removes all instances of the tasks.
Cleared(n, S) == [t \in Titles |-> IF t \in S THEN << >> ELSE n[t]]

\* RemoveByTitle takes the oldest instance of a title.  The start of an instance
\* that is removed goes on.
Removed(n, S)  == [t \in Titles |-> IF t \in S /\ n[t] # << >> THEN Tail(n[t]) ELSE n[t]]
Loading(n, t)  == \E k \in DOMAIN n[t] : n[t][k].phase = "loading"

PauseIf(i, condition) ==
    IF i.phase = "live" /\ condition THEN [i EXCEPT !.phase = "paused"] ELSE i

Started(i) == i.phase \in {"live", "paused"}

\* Mutant: instances that are not started are saved, too.
UnfilteredSave(n) == [t \in Titles |-> [k \in DOMAIN n[t] |-> n[t][k].phase]]

\* The loop that appends those instances of a list whose positions are in K.
Selected(s, K) ==
    LET list[k \in 0 .. Len(s)] ==
            IF k = 0 THEN << >>
            ELSE IF k \in K THEN Append(list[k - 1], s[k]) ELSE list[k - 1]
    IN list[Len(s)]

\* saveAllInstances: what has been started, in the state file.
StartedPositions(s) == {k \in DOMAIN s : Started(s[k])}
Save(n) == [t \in Titles |-> LET started == Selected(n[t], StartedPositions(n[t]))
                             IN [k \in DOMAIN started |-> started[k].phase]]

\* TmuxSession.Start attaches to a surviving session, and then the prompt is not sent.
Attached(s) == IF s = "busy" THEN "busy" ELSE "settling"
Opened(s)   == IF s = "none" THEN "busy" ELSE Attached(s)

\* spawnWaveTasks: one instance per task, or none when the shared worktree cannot
\* be set up.  The start of each goes on in a goroutine.
Added(n, S) ==
    [t \in Titles |->
        IF t \in S THEN Append(n[t], [phase |-> "loading", prompt |-> FALSE]) ELSE n[t]]
SpawnWaveTasks(n, S, spent) ==
    \/ nav' = Added(n, S) /\ used' = spent
    \/ spent.faults < MaxFaults /\ nav' = n /\ used' = [spent EXCEPT !.faults = @ + 1]

StartNextWaveOf(o, n, spent) ==
    /\ orch' = StartNextWave(o)
    /\ IF StartedTasks(o) = {}
       THEN nav' = n /\ used' = spent
       ELSE SpawnWaveTasks(n, CurrentTitles(StartNextWave(o)), spent)

\* A series of MarkTaskComplete and MarkTaskFailed calls.
Resolve(o, done, lost) ==
    LET running == TasksWith(o, "running") IN
    IF running \cap (done \cup lost) = {}
    THEN o
    ELSE CheckWaveComplete(SetTasks(SetTasks(o, running \cap done, "complete"),
                                    running \cap (lost \ done), "failed"))

\* A new orchestrator with k waves started and completed (wave signals and
\* rebuildOrphanedOrchestrators).
Forwarded[k \in 0 .. Len(Plan)] ==
    IF k = 0 THEN NewWaveOrchestrator(Plan)
    ELSE LET o == StartNextWave(Forwarded[k - 1]) IN Resolve(o, CurrentWaveTasks(o), {})

Send(m)    == msgs' = [msgs EXCEPT ![m] = @ + 1]
Receive(m) == msgs[m] > 0 /\ msgs' = [msgs EXCEPT ![m] = @ - 1]

\* confirmAction and its wave variants.  Opening a dialog clears no pending field.
Confirming(u, action) == [u EXCEPT !.screen = "confirm", !.confirm = action]
WaveStandard(u) == [Confirming(u, "advance") EXCEPT !.wave = TRUE]
WaveFailed(u)   ==
    [Confirming(u, "retry") EXCEPT !.wave = TRUE, !.next = TRUE, !.abort = TRUE]

\* Mutant: an answer leaves the next action of the dialog pending.
StaleNextAnswered(u) == [NoPending EXCEPT !.browsing = u.browsing, !.next = u.next]

\* Every answer but esc clears all of them.
Answered(u) == [NoPending EXCEPT !.browsing = u.browsing]

----------------------------------------------------------------------------
(* Starting an implementation *)

\* fsmSetImplementing accepts these; from planning it goes by way of ready.
Implementable == {"implementing", "planning"} \cup
                 {s \in Status : Allowed(s, "implement_start")}

\* executePlanStage, "implement": the orchestrator is registered before the status
\* is changed, and stays registered when that is refused.
Implement ==
    /\ BetweenTicks /\ ui.screen = "default" /\ Affordable("starts")
    /\ IF status \in Implementable
       THEN /\ status' = "implementing"
            /\ StartNextWaveOf(NewWaveOrchestrator(Plan), nav, Spend("starts"))
       ELSE /\ orch' = NewWaveOrchestrator(Plan)
            /\ used' = Spend("starts") /\ UNCHANGED <<status, nav>>
    /\ UNCHANGED <<strays, sess, view, ui, msgs, deferred, cooldown, saved, reviewer,
                   signal>>

\* kas plan implement --wave N, in another process: a signal for the tick.
PlanImplementCommand(wave) ==
    /\ BetweenTicks /\ Affordable("starts") /\ signal = 0
    /\ status \in Implementable
    /\ status' = "implementing"
    /\ signal' = wave
    /\ used' = Spend("starts")
    /\ UNCHANGED <<orch, nav, strays, sess, view, ui, msgs, deferred, cooldown, saved,
                   reviewer>>

\* The goroutine of an instance's start, and instanceStartedMsg.
StartDone(t, k) ==
    /\ BetweenTicks
    /\ nav[t][k].phase = "loading"
    /\ nav' = [nav EXCEPT ![t][k] = [phase |-> "live", prompt |-> FALSE]]
    /\ sess' = [sess EXCEPT ![t] = Opened(@)]
    /\ saved' = Save(nav')
    /\ UNCHANGED <<status, orch, strays, view, ui, msgs, deferred, cooldown, reviewer,
                   signal, used>>

StartFailed(t, k) ==
    /\ BetweenTicks /\ Affordable("faults")
    /\ nav[t][k].phase = "loading"
    /\ nav' = Removed([nav EXCEPT ![t][k].phase = "failed"], {t})
    /\ used' = Spend("faults")
    /\ UNCHANGED <<status, orch, strays, sess, view, ui, msgs, deferred, cooldown,
                   saved, reviewer, signal>>

\* The start of an instance that was removed meanwhile.
StrayStarted(t) ==
    /\ BetweenTicks
    /\ t \in strays
    /\ strays' = strays \ {t}
    /\ sess' = [sess EXCEPT ![t] = Opened(@)]
    /\ UNCHANGED <<status, orch, nav, view, ui, msgs, deferred, cooldown, saved,
                   reviewer, signal, used>>

----------------------------------------------------------------------------
(* The metadata tick *)

Collected(t) ==
    IF \A k \in DOMAIN nav[t] : nav[t][k].phase # "live" THEN "skipped"
    ELSE CASE sess[t] = "none"                  -> "dead"
           [] sess[t] \in {"busy", "settling"}  -> "updated"
           [] sess[t] = "idle"                  -> "prompt"

\* The implement-wave files in the signals directory, of which there is one at most,
\* and what is left of them when they were handled.
ScanWaveSignals   == signal
ConsumeWaveSignal == IF view.wave > 0 THEN 0 ELSE signal

\* The tick's goroutine.  A screen that did not change since the last look is
\* reported as idle (after 15 looks in the code).
TickCollect ==
    /\ view = NoView
    /\ view' = [seen |-> [t \in Titles |-> Collected(t)], wave |-> ScanWaveSignals]
    /\ sess' = [t \in Titles |-> IF Collected(t) # "skipped" /\ sess[t] = "settling"
                                 THEN "idle" ELSE sess[t]]
    /\ UNCHANGED <<status, orch, nav, strays, ui, msgs, deferred, cooldown, saved,
                   reviewer, signal, used>>

\* SetStatus(Running) also wakes an instance that was paused after the collection.
Observed(i, seen) ==
    CASE seen = "updated" -> [phase |-> IF i.phase = "paused" THEN "live" ELSE i.phase,
                              prompt |-> FALSE]
      [] seen = "prompt"  -> [i EXCEPT !.prompt = TRUE]
      [] OTHER            -> i

Observe(n) ==
    [t \in Titles |-> IF Missing(n, t) THEN n[t]
                      ELSE [n[t] EXCEPT ![Len(n[t])] = Observed(@, view.seen[t])]]

\* The monitor's verdicts on the tasks of a running wave.
Finished(o, n) ==
    {t \in CurrentWaveTasks(o) :
        LET title == <<CurrentWaveNumber(o), t>> IN
        /\ ~Missing(n, title) /\ LastOf(n, title).phase # "paused"
        /\ view.seen[title] # "skipped"
        /\ LastOf(n, title).prompt}
\* Mutants: a title the tick skipped counts as dead; a task without an instance is
\* skipped.
HastyLost(o, n) ==
    {t \in CurrentWaveTasks(o) :
        LET title == <<CurrentWaveNumber(o), t>> IN
        \/ Missing(n, title)
        \/ LastOf(n, title).phase = "paused"
        \/ view.seen[title] \in {"dead", "skipped"} /\ ~LastOf(n, title).prompt}

PatientLost(o, n) ==
    {t \in CurrentWaveTasks(o) :
        LET title == <<CurrentWaveNumber(o), t>> IN
        /\ ~Missing(n, title)
        /\ \/ LastOf(n, title).phase = "paused"
           \/ view.seen[title] = "dead" /\ ~LastOf(n, title).prompt}

Lost(o, n) ==
    {t \in CurrentWaveTasks(o) :
        LET title == <<CurrentWaveNumber(o), t>> IN
        \/ Missing(n, title)
        \/ LastOf(n, title).phase = "paused"
        \/ view.seen[title] = "dead" /\ ~LastOf(n, title).prompt}
Monitored(o, n) ==
    IF o.state = "running" THEN Resolve(o, Finished(o, n), Lost(o, n)) ELSE o

\* Mutant: the orchestrator is kept.
KeptFinishImplementation(n, u, postponed) ==
    /\ orch' = IF orch = NoOrch THEN NoOrch ELSE [orch EXCEPT !.state = "allComplete"]
    /\ nav' = [t \in Titles |-> [k \in DOMAIN n[t] |-> PauseIf(n[t][k], TRUE)]]
    /\ ui' = IF u.screen = "default" THEN Confirming(u, "allComplete") ELSE u
    /\ deferred' = (postponed \/ u.screen # "default")
    /\ UNCHANGED msgs

\* All waves are over: the instances are paused, the orchestrator is forgotten, and
\* the user is asked, now or when the overlay on screen is gone.
FinishImplementation(n, u, postponed) ==
    /\ orch' = NoOrch
    /\ nav' = [t \in Titles |-> [k \in DOMAIN n[t] |-> PauseIf(n[t][k], TRUE)]]
    /\ ui' = IF u.screen = "default" THEN Confirming(u, "allComplete") ELSE u
    /\ deferred' = (postponed \/ u.screen # "default")
    /\ UNCHANGED msgs

\* A wave is over: the user is asked once, or the next wave is started by itself, as
\* the setting, which the user may toggle at any time, has it.
DecideWave(o, n, u, postponed) ==
    LET ask == /\ o # NoOrch /\ o.state = "waveComplete"
               /\ u.screen = "default" /\ ~cooldown /\ NeedsConfirm(o)
    IN
    /\ orch' = IF ask THEN TakeConfirm(o) ELSE o
    /\ nav' = n
    /\ deferred' = postponed
    /\ \/ ~ask /\ ui' = u /\ UNCHANGED msgs
       \/ /\ ask /\ TasksWith(o, "failed") # {}
          /\ ui' = WaveFailed(u) /\ UNCHANGED msgs
       \/ /\ ask /\ TasksWith(o, "failed") = {} /\ TRUE \in AutoAdvance
          /\ ui' = u /\ Send("advance")
       \/ /\ ask /\ TasksWith(o, "failed") = {} /\ FALSE \in AutoAdvance
          /\ ui' = WaveStandard(u) /\ UNCHANGED msgs

\* The outcomes of a wave signal, which is ignored when there is an orchestrator: the
\* orchestrator, the instances, and whether their start failed.
Signalled ==
    IF view.wave = 0 \/ orch # NoOrch
    THEN {[orch |-> orch, nav |-> nav, faults |-> 0]}
    ELSE LET new == StartNextWave(Forwarded[view.wave - 1]) IN
         { r \in {[orch |-> new, nav |-> Added(nav, CurrentTitles(new)), faults |-> 0],
                  [orch |-> new, nav |-> nav, faults |-> 1]} :
              used.faults + r.faults <= MaxFaults }

\* Mutant: a postponed prompt is taken off the list and not shown.
LostDrained(u) == u

\* The prompt that was postponed.
Drained(u) ==
    IF deferred /\ u.screen = "default" THEN Confirming(u, "allComplete") ELSE u

\* metadataResultMsg: a wave signal first, then the metadata, a postponed prompt, and
\* the wave monitor.
TickApply ==
    /\ view # NoView
    /\ view' = NoView
    /\ \E r \in Signalled : \E n \in {Observe(r.nav)} :
       \E o \in {IF r.orch = NoOrch THEN NoOrch ELSE Monitored(r.orch, n)} :
          LET postponed == deferred /\ ui.screen # "default" IN
          /\ used' = [used EXCEPT !.faults = @ + r.faults]
          /\ IF o # NoOrch /\ r.orch.state = "running" /\ o.state = "allComplete"
             THEN FinishImplementation(n, Drained(ui), postponed)
             ELSE DecideWave(o, n, Drained(ui), postponed)
    /\ signal' = ConsumeWaveSignal
    /\ UNCHANGED <<status, strays, sess, cooldown, saved, reviewer>>

----------------------------------------------------------------------------
(* The user's answers *)

\* The confirm key and enter.
ConfirmKey ==
    /\ BetweenTicks /\ ui.screen = "confirm"
    /\ ui.confirm = "retry" => Affordable("retries")
    /\ used' = IF ui.confirm = "retry" THEN Spend("retries") ELSE used
    /\ ui' = Answered(ui)
    /\ IF ui.confirm \in Message THEN Send(ui.confirm) ELSE UNCHANGED msgs
    /\ UNCHANGED <<status, orch, nav, strays, sess, view, deferred, cooldown, saved,
                   reviewer, signal>>

\* 'a'
AbortKey ==
    /\ BetweenTicks /\ ui.screen = "confirm" /\ ui.abort
    /\ ui' = Answered(ui)
    /\ Send("abort")
    /\ UNCHANGED <<status, orch, nav, strays, sess, view, deferred, cooldown, saved,
                   reviewer, signal, used>>

\* Mutant: a dismissed wave dialog leaves the latch set.
StillLatched == orch

Unlatched == IF ui.wave /\ orch # NoOrch THEN ResetConfirm(orch) ELSE orch

\* 'n': the next wave when a next action is pending, else no.
CancelKey ==
    /\ BetweenTicks /\ ui.screen = "confirm"
    /\ ui' = Answered(ui)
    /\ IF ui.next THEN Send("advance") /\ UNCHANGED orch
       ELSE orch' = Unlatched /\ UNCHANGED msgs
    /\ UNCHANGED <<status, nav, strays, sess, view, deferred, cooldown, saved, reviewer,
                   signal, used>>

EscapeKey ==
    /\ BetweenTicks /\ ui.screen = "confirm"
    /\ ui' = Answered(ui)
    /\ orch' = Unlatched
    /\ cooldown' = (cooldown \/ ui.wave)
    /\ UNCHANGED <<status, nav, strays, sess, view, msgs, deferred, saved, reviewer,
                   signal, used>>

CooldownOver ==
    /\ BetweenTicks /\ cooldown
    /\ cooldown' = FALSE
    /\ UNCHANGED <<status, orch, nav, strays, sess, view, ui, msgs, deferred, saved,
                   reviewer, signal, used>>

----------------------------------------------------------------------------
(* The messages of answered dialogs *)

\* waveAdvanceMsg: the finished instances of the wave are paused first.
HandleAdvance ==
    /\ BetweenTicks /\ Receive("advance")
    /\ IF orch = NoOrch THEN UNCHANGED <<orch, nav, used>>
       ELSE StartNextWaveOf(orch,
                [t \in Titles |-> [k \in DOMAIN nav[t] |->
                    PauseIf(nav[t][k], t \in CurrentTitles(orch) /\ nav[t][k].prompt)]],
                used)
    /\ UNCHANGED <<status, strays, sess, view, ui, deferred, cooldown, saved, reviewer,
                   signal>>

\* waveRetryMsg: the old instances of the failed tasks are removed, not killed.
HandleRetry ==
    /\ BetweenTicks /\ Receive("retry")
    /\ LET failed == IF orch = NoOrch THEN {} ELSE TasksWith(orch, "failed")
           stale  == {t \in Titles : t[2] \in failed}
       IN IF failed = {} THEN UNCHANGED <<orch, nav, strays, used>>
          ELSE /\ orch' = RetryFailedTasks(orch)
               /\ strays' = strays \cup {t \in stale : Loading(nav, t)}
               /\ SpawnWaveTasks(Cleared(nav, stale),
                                 {t \in CurrentTitles(orch) : t[2] \in failed}, used)
    /\ UNCHANGED <<status, sess, view, ui, deferred, cooldown, saved, reviewer, signal>>

\* waveAbortMsg: what is in the list of started instances is killed and removed.
HandleAbort ==
    /\ BetweenTicks /\ Receive("abort")
    /\ orch' = NoOrch
    /\ nav' = [t \in Titles |-> Selected(nav[t], DOMAIN nav[t] \ StartedPositions(nav[t]))]
    /\ sess' = [t \in Titles |-> IF StartedPositions(nav[t]) # {} THEN "none" ELSE sess[t]]
    /\ saved' = Save(nav')
    /\ UNCHANGED <<status, strays, view, ui, deferred, cooldown, reviewer, signal,
                   used>>

\* Mutant: the status is left to the implement-finished signals.
SilentHandleAllComplete ==
    /\ BetweenTicks /\ Receive("allComplete")
    /\ reviewer' = TRUE
    /\ UNCHANGED <<status, orch, nav, strays, sess, view, ui, deferred, cooldown, saved,
                   signal, used>>

\* waveAllCompleteMsg: a refused transition is logged, the reviewer spawned anyway.
HandleAllComplete ==
    /\ BetweenTicks /\ Receive("allComplete")
    /\ status' = IF Allowed(status, "implement_finished")
                 THEN ApplyTransition(status, "implement_finished") ELSE status
    /\ reviewer' = TRUE
    /\ UNCHANGED <<orch, nav, strays, sess, view, ui, deferred, cooldown, saved, signal,
                   used>>

----------------------------------------------------------------------------
(* The agents *)

AgentFinishes(t) ==
    /\ BetweenTicks /\ sess[t] = "busy"
    /\ sess' = [sess EXCEPT ![t] = "settling"]
    /\ UNCHANGED <<status, orch, nav, strays, view, ui, msgs, deferred, cooldown, saved,
                   reviewer, signal, used>>

AgentDies(t) ==
    /\ BetweenTicks /\ sess[t] # "none" /\ Affordable("faults")
    /\ sess' = [sess EXCEPT ![t] = "none"]
    /\ used' = Spend("faults")
    /\ UNCHANGED <<status, orch, nav, strays, view, ui, msgs, deferred, cooldown, saved,
                   reviewer, signal>>

----------------------------------------------------------------------------
(* The user's acts on single agents and on the plan *)

Acts ==
    /\ BetweenTicks /\ Manual /\ ui.screen = "default" /\ Affordable("acts")
    /\ used' = Spend("acts")

\* mark_task_complete, offered for a running task.
MarkComplete(t, k) ==
    /\ Acts
    /\ orch # NoOrch /\ IsTaskRunning(orch, t[2])
    /\ orch' = MarkTaskComplete(orch, t[2])
    /\ nav' = [nav EXCEPT ![t][k].phase = IF @ = "paused" THEN "live" ELSE @]
    /\ UNCHANGED <<status, strays, sess, view, ui, msgs, deferred, cooldown, saved,
                   reviewer, signal>>

\* Pausing detaches from the tmux session, whose agent goes on.
PauseInstance(t, k) ==
    /\ Acts
    /\ nav[t][k].phase = "live"
    /\ nav' = [nav EXCEPT ![t][k].phase = "paused"]
    /\ saved' = Save(nav')
    /\ UNCHANGED <<status, orch, strays, sess, view, ui, msgs, deferred, cooldown,
                   reviewer, signal>>

ResumeInstance(t, k) ==
    /\ Acts
    /\ nav[t][k].phase = "paused"
    /\ nav' = [nav EXCEPT ![t][k] = [phase |-> "live", prompt |-> FALSE]]
    /\ \E s \in IF sess[t] = "none" THEN {"busy", "settling"} ELSE {Attached(sess[t])} :
          sess' = [sess EXCEPT ![t] = s]
    /\ saved' = Save(nav')
    /\ UNCHANGED <<status, orch, strays, view, ui, msgs, deferred, cooldown, reviewer,
                   signal>>

KillInstance(t, k) ==
    /\ Acts
    /\ nav' = Removed(nav, {t})
    /\ strays' = IF nav[t][1].phase = "loading" THEN strays \cup {t} ELSE strays
    /\ sess' = IF Started(nav[t][k]) THEN [sess EXCEPT ![t] = "none"] ELSE sess
    /\ saved' = Save(nav')
    /\ UNCHANGED <<status, orch, view, ui, msgs, deferred, cooldown, reviewer, signal>>

\* cancel_plan leaves the orchestrator and the agents alone.
CancelPlan ==
    /\ Acts
    /\ Allowed(status, "cancel")
    /\ status' = ApplyTransition(status, "cancel")
    /\ UNCHANGED <<orch, nav, strays, sess, view, ui, msgs, deferred, cooldown, saved,
                   reviewer, signal>>

----------------------------------------------------------------------------
(* Other dialogs and overlays *)

Shows(u) ==
    /\ BetweenTicks
    /\ ui' = u
    /\ UNCHANGED <<status, orch, nav, strays, sess, view, msgs, deferred, cooldown,
                   saved, reviewer, signal, used>>

AskOther     == ui.screen = "default" /\ Shows(Confirming(ui, "other"))
OpenOverlay  == ui.screen = "default" /\ Shows([ui EXCEPT !.screen = "overlay"])
CloseOverlay == ui.screen = "overlay" /\ Shows([ui EXCEPT !.screen = "default"])

\* The tmux browser is opened by the message that brings its list.
BrowseSessions ==
    /\ Interruptions
    /\ ui.screen = "default" /\ ~ui.browsing
    /\ Shows([ui EXCEPT !.browsing = TRUE])
SessionsArrive ==
    /\ ui.browsing
    /\ Shows([ui EXCEPT !.browsing = FALSE, !.screen = "overlay"])

----------------------------------------------------------------------------
(* Restart *)

\* rebuildOrphanedOrchestrators: the wave is the highest one with an instance, the
\* waves before it count as complete, and so do its paused instances.
Rebuilt(n) ==
    LET known  == {t \in Titles : ~Missing(n, t)}
        target == CHOOSE w \in {t[1] : t \in known} : \A t \in known : t[1] <= w
        index  == CHOOSE k \in DOMAIN Plan :
                      /\ Plan[k].number = target
                      /\ \A j \in 1 .. k - 1 : Plan[j].number # target
        IsPaused(t) == \E k \in DOMAIN n[t] : n[t][k].phase = "paused"
        paused == {t[2] : t \in {u \in known : u[1] = target /\ IsPaused(u)}}
    IN IF known = {} \/ status # "implementing" THEN NoOrch
       ELSE Resolve(StartNextWave(Forwarded[index - 1]), paused, {})

\* Quitting saves the instances, a crash does not.  Sessions survive, also those a
\* start had got to when kasmos went away.
Restart(graceful) ==
    /\ BetweenTicks /\ Affordable("restarts")
    /\ graceful => ui.screen = "default"
    /\ saved' = IF graceful THEN Save(nav) ELSE saved
    /\ nav' = [t \in Titles |-> [k \in DOMAIN saved'[t] |->
                  [phase |-> saved'[t][k], prompt |-> FALSE]]]
    /\ orch' = Rebuilt(nav')
    /\ \E opened \in SUBSET {t \in Titles : Loading(nav, t)} :
          sess' = [t \in Titles |-> CASE t \in opened       -> Opened(sess[t])
                                      [] sess[t] = "idle"   -> "settling"
                                      [] OTHER              -> sess[t]]
    /\ strays' = {}
    /\ view' = NoView
    /\ ui' = NoPending
    /\ msgs' = [m \in Message |-> 0]
    /\ deferred' = FALSE /\ cooldown' = FALSE
    /\ used' = Spend("restarts")
    /\ UNCHANGED <<status, reviewer, signal>>

----------------------------------------------------------------------------

Handle == HandleAdvance \/ HandleRetry \/ HandleAbort \/ HandleAllComplete
Answer == ConfirmKey \/ AbortKey \/ CancelKey \/ EscapeKey

Act(t, k) == \/ MarkComplete(t, k) \/ PauseInstance(t, k)
             \/ ResumeInstance(t, k) \/ KillInstance(t, k)
ShowOther == AskOther \/ OpenOverlay \/ CloseOverlay \/ BrowseSessions \/ SessionsArrive

Next ==
    \/ Implement
    \/ \E k \in DOMAIN Plan : PlanImplementCommand(k)
    \/ \E t \in Titles : \E k \in DOMAIN nav[t] : StartDone(t, k) \/ StartFailed(t, k)
    \/ \E t \in Titles : StrayStarted(t) \/ AgentFinishes(t) \/ AgentDies(t)
    \/ TickCollect
    \/ TickApply
    \/ Answer
    \/ CooldownOver
    \/ Handle
    \/ \E t \in Titles : \E k \in DOMAIN nav[t] : Act(t, k)
    \/ CancelPlan
    \/ ShowOther
    \/ \E graceful \in BOOLEAN : Restart(graceful)

Spec == Init /\ [][Next]_vars

\* The Update loop handles what it is sent, the tick is rescheduled by its own result,
\* starts end, and time passes.  Assumed of the agents and the user: an agent finishes
\* or dies, an overlay is closed, and a user who is asked again and again gives each
\* answer some day.
Fairness ==
    /\ []<><<TickApply /\ ui.screen = "default" /\ ~cooldown>>_vars
    /\ WF_vars(HandleAdvance) /\ WF_vars(HandleRetry)
    /\ WF_vars(HandleAbort) /\ WF_vars(HandleAllComplete)
    /\ \A t \in Titles :
          /\ WF_vars(\E k \in DOMAIN nav[t] : StartDone(t, k))
          /\ WF_vars(AgentFinishes(t))
    /\ WF_vars(CooldownOver)
    /\ WF_vars(CloseOverlay) /\ WF_vars(SessionsArrive)
    /\ SF_vars(ConfirmKey /\ ui.confirm = "advance")
    /\ SF_vars(ConfirmKey /\ ui.confirm = "allComplete")
    /\ SF_vars(AbortKey)

FairSpec == Spec /\ Fairness

----------------------------------------------------------------------------
(* Properties.  A restart rebuilds the orchestrator from what was saved, so *)
(* the properties that speak of agents and their tasks do so until then.    *)

NotRestarted == used.restarts = 0

\* No agent works on a task that counts as resolved or was never started: a task is
\* complete or failed only when its agent is idle or gone, so that the next wave, a
\* retry or the reviewer meets no agent of an earlier decision in the worktree.
NoAgentBehindItsTask ==
    NotRestarted /\ orch # NoOrch =>
        \A t \in Titles : sess[t] = "busy" =>
            t \in CurrentTitles(orch) /\ IsTaskRunning(orch, t[2])

\* Whenever the one-shot latch of NeedsConfirm is set, the user has the dialog on
\* screen or its answer is on its way: nothing else would ever unlatch the wave.
LatchIsAnswerable ==
    orch # NoOrch /\ orch.waitingForConfirm =>
        \/ ui.screen = "confirm" /\ ui.wave
        \/ \E m \in {"advance", "retry", "abort"} : msgs[m] > 0

\* A finished orchestrator is not kept: while it exists, implement-finished signals
\* and wave signals of the plan are ignored, and only the tick that finishes it
\* asks for the review.
FinishedIsForgotten ==
    NotRestarted /\ orch # NoOrch => orch.state # "allComplete"

\* Whatever is signalled, answered late, retried or rebuilt after a restart or a crash,
\* the orchestrator has no unresolved task in a wave it is past and none that ran in a
\* wave it has not reached.
WavesInOrder ==
    orch # NoOrch =>
        orch.plan = Plan /\ InWaveOrder(orch)

\* spawnWaveTasks and instanceMap identify a task's instance by its title: no task has
\* two, of which the tick would see one and the removals take the other.
OneInstancePerTask == \A t \in Titles : Len(nav[t]) <= 1

\* The reviewer is spawned for a plan that is reviewing, when no coder works any more.
ReviewerFollowsCoders ==
    [][NotRestarted /\ reviewer' # reviewer =>
          status' = "reviewing" /\ \A t \in Titles : sess[t] # "busy"]_vars

\* The cancel key starts the next wave only from the dialog of a failed wave, where it
\* is labelled so ("[n] next wave"); anywhere else it declines.
DeclineSendsNothing ==
    [][CancelKey /\ ui.confirm # "retry" => msgs' = msgs]_vars

\* An abandoned or finished implementation leaves no coder behind.
NoOrphanAgents ==
    NotRestarted /\ orch = NoOrch => \A t \in Titles : sess[t] # "busy"

\* Every implementation comes to an end.
ImplementationEnds == orch # NoOrch ~> orch = NoOrch

\* A prompt that was postponed because of an overlay is shown.
PostponedIsShown == deferred ~> ui.confirm = "allComplete"

\* A task whose agent is gone does not stay running.
IsLost(t) ==
    /\ orch # NoOrch /\ orch.state = "running"
    /\ t \in CurrentTitles(orch) /\ IsTaskRunning(orch, t[2])
    /\ sess[t] = "none" /\ \A k \in DOMAIN nav[t] : nav[t][k].phase # "loading"
LostTaskIsNoticed == \A t \in Titles : IsLost(t) ~> ~IsLost(t)
=============================================================================
