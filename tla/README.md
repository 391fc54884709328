# A verification model of kasmos

kasmos (`kas`) is a terminal program that runs coding agents in tmux sessions. A plan goes
through planning, implementation, review and merge; an implementation is split into waves of
tasks, and each task has an agent. This directory holds TLA+ modules translated from the
Go code, TLC configurations that check them on small instances, and TLAPS proofs about them.

Paths and line numbers are those of the repository beside this directory. `PROJECT.json`
maps every definition to the lines it stands for and lists the runs, the mutants that
show each property can fail, the hazards, the findings and the theorems.

    tlc -workers 4 -config WaveControl_calm.cfg MCWaveControl
    tlapm PlanClientsProofs.tla

Each module whose name ends in `Proofs` is one `tlapm` call.

## 1. The system

| component | state | operations | used by |
|---|---|---|---|
| wave orchestrator (`app/wave_orchestrator.go`) | wave index, a status per task number, one-shot dialog latch | start, mark complete/failed, confirm, reset, retry | wave control, one per plan, in memory only |
| plan state machine (`config/planfsm/fsm.go`) | none of its own | a table of 16 transitions; `Transition` = load, validate, update | every handler, `kas plan` |
| signals (`config/planfsm/signals.go`, `wave_signal.go`) | files in `.kasmos/signals` | scan, parse, consume | agents and `kas plan implement` write, the tick reads |
| plan store (`config/planstore`) | SQLite tables `plans`, `topics`; a text column | one statement per call; an HTTP server and client in front | all clients |
| plan state (`config/planstate`) | a cached copy of the store | load, create, set, rename: cache first, store second | TUI, commands |
| TUI plan actions (`app/app_actions.go`, `app_input.go`, `app_state.go`) | the cache, dialogs, `docs/plans/*.md` | stages, context menu, pickers, confirmed goroutines | the user |
| wave control (`app/app.go`) | orchestrators, dialogs and their pending actions, cooldown, postponed prompts | the metadata tick and its monitor, answers, messages | the user, agents |
| instances (`session/`) | status, tmux session, worktree, the saved state file | start, pause, resume, kill, adopt, observe, save, restore | wave control, the user |
| tmux (`session/tmux`) | a session per title, the pane monitor's hash | start or attach, capture, send keys, close, discover | instances |
| worktrees (`session/git`) | worktrees, branches and the main checkout on disk | setup, sync, commit, push, cleanup, merge, reset | instances, plan actions |
| navigation panel (`ui/navigation_panel.go`) | plans, instances, rows, folding, search, the selection | set, add, remove, rebuild, select, toggle, search | every handler |
| screens (`app/app_input.go`, `app_actions.go`, `ui/overlay`) | the open screen and the fields that say what it is about | open, answer, close, replace | the user, ticks, late messages |
| plan flow (`app/app.go`, `app_state.go`, `app_actions.go`) | a plan's agents, deferred dialogs, who was prompted | spawn the next agent, ask, pause, merge, start over | signals, the tick, the user |
| permission prompts (`session/permission_prompt.go`, `config/permission_store.go`) | remembered decisions, the guard of those in flight | detect, show, answer, remember | the tick |
| daemon (`daemon/`) | the instances it loaded | press enter on prompts | runs while the TUI does not |
| commands (`cmd/plan.go`) | none | register, list, set-status, transition, implement | other processes |

How they interact: bubbletea hands one message at a time to `home.Update`. Everything
slow runs in a command, a goroutine whose result is a later message. The metadata tick
snapshots the instances, collects tmux output, plan state and signal files in a goroutine,
and its result (`metadataResultMsg`) is handled seconds later against whatever the
model has become. Other processes reach the same SQLite file, over HTTP or directly.

Hard, because of that: results applied to a newer state; read-validate-write without a
version; the cached entry written back; failures between two calls; dialogs replacing
each other; and restarts that rebuild an orchestrator from what happens to be saved.

What makes each part correct:

- *orchestrator*: waves run one after the other, a wave ends when its tasks have, the
  user is asked exactly once per question;
- *plans*: statuses follow the table whoever writes them, a planner's text gets into the
  store, the sidebar shows the store;
- *wave control*: task states agree with the agents, every implementation ends, dialogs
  can be answered and mean what they say, a restart goes on where it was;
- *instances, worktrees*: one agent per task, unmerged work is lost only when the user ends
  it, and a restart finds the agents again;
- *navigation panel*: the agents of listed plans can be reached, and the selection, which the
  next key acts on, stays;
- *screens*: what a screen does is done to what it was opened for;
- *plan flow*: the end of an agent that needs the user is put to the user; a plan has one
  planner, one coder and one reviewer;
- *permission prompts*: an answer reaches the dialog it was given to, and no other.

## 2. Modules

| module | models |
|---|---|
| `WaveOrchestratorOps` | the methods of `WaveOrchestrator` as operators on a record |
| `WaveOrchestrator` | one orchestrator under any sequence of calls; its properties |
| `WaveBarrier` | what an orchestrator promises: waves in order, each task ends or is retried |
| `WaveOrchestratorProofs` | the theorems about one orchestrator |
| `PlanFSM` | the transition table and the multi-event walks of the TUI helpers |
| `PlanStore` | the store's tables and statements |
| `PlanLifecycle` | what the plan operations promise together: one status per plan, moved along the table |
| `PlanClients` | the TUI, its goroutines, the tick and `kas plan` processes over one store |
| `PlanClientsProofs` | the theorems about it |
| `WaveControl` | one plan's implementation in the TUI: agents, tick, monitor, dialogs, restart |
| `WaveControlProofs` | the theorems about it |
| `GitWorktrees` | what kasmos does with git, as operators from a repository to those it may lead to |
| `AgentSessions` | instances of every kind over that repository: start, pause, resume, kill, adopt, save, restart |
| `AgentSessionsProofs` | the theorems about it |
| `NavPanel` | the sidebar: its rows, its partition of finished plans, its selection |
| `NavPanelProofs` | the theorems about it |
| `Permissions` | an agent's permission dialog, the tick that sees it, the screen, the keys |
| `Screens` | the screens of the TUI, composed with `Permissions` |
| `ScreensProofs` | the theorems about both |
| `PlanFlow` | one plan's planner, solo agent, task, coder and reviewer, and the dialogs between them |
| `PlanFlowProofs` | the theorems about it |
| `Lists` | what is left of a list that a loop filters, which several models have |
| `SharedProofs` | lemmas that more than one proof needs: recursion, lists, an orchestrator's methods |
| `MC...` | plans, initial stores, agents and instances for TLC |

`WaveControl` extends `WaveOrchestratorOps` and `PlanFSM`; `PlanClients` extends
`PlanStore`, which extends `PlanFSM`; `PlanFlow` extends `PlanFSM`; `AgentSessions` extends
`GitWorktrees`; `NavPanel` and `PlanFlow` extend `Lists`; and `Screens` extends `Permissions`,
whose steps of the tick it takes into its own.

### Orchestrator

An orchestrator is a record with the fields of the Go struct; `taskStates` is total, with
"pending" for what the Go map does not hold. `currentWave` counts from 0 as in the code. The
actions call the methods in any order, as the handlers, the tick and the context menu
can. Plans are arbitrary sequences of waves: the parser checks neither that task numbers are
distinct nor that a wave has tasks. A number that occurs in two waves has one status in both
(`taskStates` is keyed by it), so the order of the waves is promised for the tasks a wave
shares with no other (`OwnTasks`).

### Plan clients

An operation is a sequence of steps (`todo`), each one call to the store or one local effect,
and other clients act between two steps. `Transition` is a read (which computes the update) and
a write. A write is executed, refused, lost, or executed with its answer lost (`MaxFaults`).
A failing step ends its operation or is only logged, as the handler has it (`mode`). The
TUI's own operation holds the Update loop: `tui` has one at a time. `goal` is the status
the handler reports when it succeeds and serves one property.

Kept: status, topic, branch, whether a plan has text. Dropped: description, timestamps, the
`implemented` string. Agents write only the plan file, as planners do.

### Wave control

Sidebar instances are a sequence per title, because titles are what `spawnWaveTasks`,
`instanceMap`, tmux and the removals identify them by. An instance is starting, failed, live or
paused; its session is absent, at work, idle but not yet seen to be idle, or idle.
`TickCollect` is the goroutine's snapshot, `TickApply` the whole of `metadataResultMsg`: wave
signal, metadata, postponed prompt, monitor, decision. `ui` has the home state and the four
pending fields of its dialogs. Answers send messages that are handled later. `Restart`
is a quit or a crash followed by a boot: the state file, then `rebuildOrphanedOrchestrators`.

The constants turn parts of the environment on: `StaleTicks` lets anything happen between
collection and application (otherwise a tick is one moment), `Manual` the user's acts on
single agents, `Interruptions` the tmux browser over a dialog; `AutoAdvance` has the values the
user toggles the setting to (both in the passing runs). `MaxStarts`,
`MaxRetries`, `MaxFaults`, `MaxActs` and `MaxRestarts` bound what is unbounded.

### Agents and worktrees

A repository is a record of worktrees, uncommitted work, the main checkout's branch, and per
branch whether it exists, holds unmerged work, was pushed, and differs from origin. Each function
of `session/git` is an operator that yields the repositories it may lead to, with success where
the callers look at it; git's own refusals (a branch that is checked out, a dirty checkout) are
in the operators. Files are abstracted to whether there is work only one place holds.

`AgentSessions` has four kinds of titles: coders of a wave, whose shared worktree is set up when
they are added; reviewers, fixing coders and chats, whose goroutine sets it up; planners and solo
agents in the main checkout; and ad-hoc agents with a branch of their own, whose worktree gets a
fresh path (`SetupFresh`). An instance is queued (its goroutine has not set up the worktree yet),
loading, live or paused. tmux starts in the goroutine (`TmuxStarts`) and the instance is put into
`m.allInstances` and saved when its message is handled (`StartDone`); between the two it is `due`,
and a kill, a pause or a crash may come first. `tree` tells apart no worktree, a worktree with a path, and the empty one that `FromInstanceData` makes of none. The
state file is a variable, written where the code saves, and restarts read it. `adrift` is
a session whose directory is gone. tmux, agents, another clone and the user's own git are
actions beside kasmos'.

### Navigation panel

`Rebuild` is `rebuildRows` with the sort keys, the folding and the identity by which the selection
is found again; `Split` is `splitDeadFromHistory`; the setters and the keys of the panel are
one operator each, and the actions call them as the handlers of the Update loop do.

### Screens and permissions

`ui` has the state of the home model that decides what a key does: the open screen, the
selection, and the pending fields, each with the plan or instance it is for. `did` are the acts of
the last step, each with what it was done to and what was on the screen; `inbox` has the commands
whose messages are under way, and `orphans` the acts whose screen a message replaced. `Permissions`
types an answer as the tmux code does, tap by tap, while ticks capture the pane, and it has the
other Enters that kasmos types into that pane: for an idle agent with AutoYes, and at the end of a
queued or a typed prompt (`StrayEnter`).

### Plan flow

A handler is an operator from the state of the home model to the next, and a tick is their
composition in the code's order: signals, exited coders, deferred dialogs, finished waves. The
answers and menu entries spawn, pause and kill the agents of one plan. The plan file has wave headers
or not, or cannot be read, and git may refuse to merge or to reset.

## 3. Runs

Passing:

| run | checks | environment and bounds |
|---|---|---|
| `WaveOrchestrator` | the wave barrier and its refinement, the method-level invariants, `AdvanceOnlyWhenResolved` | plans of up to 3 waves and 4 task numbers; also empty waves and repeated numbers |
| `PlanClients_serial` | lifecycle refinement, announced status, fresh cache, ingested text, files follow plans, topics are listed | operations one at a time, 3 of them, from any status, topic and branch of one plan and a second plan |
| `PlanClients_races` | the cache becomes the store | a goroutine, a command, overrides, 2 operations, 1 failing call, fairness |
| `WaveControl_calm` | agents agree with tasks, the reviewer follows the coders, a finished orchestrator is forgotten, the waves keep their order | 2 waves, 3 tasks, 2 deaths or failed starts, 1 retry, auto-advance, wave signals, overlays, the tmux browser, a crash or quit |
| `WaveControl_busy` | an implementation ends, a postponed prompt is shown, a lost task is noticed | the same plan with stale ticks, 2 retries, without the browser and restarts, and fairness |
| `WaveControl_manual` | wave dialogs stay answerable, declining sends nothing, one instance per task | stale ticks, 2 acts of the user on single agents |
| `AgentSessions` | unmerged work is lost in three unintended ways and no others; a crash forgets no live agent | one title of every kind, 2 spawns, 2 acts, 2 edits or pushes, a tmux failure, a quit, crash or reset |
| `NavPanel` | agents of listed plans can be reached; the selection stays | 2 plans, one in a topic, a coder, a reviewer, a lone agent and one being named, 3 acts, 2 changes |
| `Screens` | every screen that keeps what it is about acts on that | 2 plans with agents, a third instance, 3 events of users, agents and ticks besides the answers |
| `Permissions` | an answer reaches the dialog it was given to, and no other | one agent with AutoYes, 2 dialogs of it, every other screen around them, 3 events |
| `PlanFlow` | what ends and needs the user is put to the user; a finished planner stays owed its question; one planner, coder and reviewer | every status to start from, 2 acts of the user, 1 report by an agent besides exits, fairness |

Why these bounds are enough to be interesting: two waves have a first, a middle transition and a
last; a wave of two tasks can be half resolved; two faults let a retried task fail again or
two tasks fail in one wave; two plan names are what a rename, a topic conflict or two
clients need; two operations interleave pairwise, and the serial run needs three to reach a
handler from a state that two others made. Work is lost by at least two agents of one plan and
an edit, or by one agent, an edit, a restart and a kill; two dialogs of one agent are what a
late key can confuse; and a dialog that replaces a dialog takes three events. The actions that a
run's constants turn off are fired by another one.

`AgentSessions` may stop when its bounds are used up, and only there is deadlock not checked:
elsewhere a tick, a no-op call or a key is always possible.

One run fails, for a claim of the repository the code does not keep:

| run | claim | what happens |
|---|---|---|
| `AgentSessions_shared_branch` | an instance in a shared worktree "should not clean it up" (`instance.go:84`) | `sharedWorktree` is not saved, so killing a coder after a restart removes the plan's worktree and deletes its branch with the work on it |

What a passing run does not say: `WaveControl_calm` leaves out stale ticks and marks by hand,
`WaveControl_manual` the tmux browser, because each breaks its properties (next section). The
properties about agents and their tasks speak of the time until kasmos is restarted.
`PlanClients_races` does not check the lifecycle, which concurrent writers do break, nor that
topics are listed, which a refused create breaks.
`WorkIsKept`, `SelectionStays`, `ActsOnWhatWasShown` and `AnsweredAsAsked` name their exceptions in
their own text: each is something the code does.

### What the code does otherwise

Met while modelling, and in the models as the code has them. Plans and their store:

- every `Update` of a row erases the stored text, since `toPlanstoreEntry` leaves `Content`
  empty (`planstate.go:564`), although `app_state.go:966` calls the store the source of truth;
  an implement-wave signal and `materializePlanFile` then meet the empty text, and the latter
  writes it over the file the planner is told to modify (`app_state.go:1321`);
- `SetTopic` and `SetBranch` write the cached, possibly stale status back, although statuses
  "must flow through Transition()" (`fsm.go:96`);
- `Transition` validates a status it loaded before; another client's write in between is
  overwritten by a move illegal for it (`fsm.go:109` leaves concurrency to SQLite's locking);
- a signal file is consumed when its transition fails, also for a store that is away;
- a create that the store refuses stays in the cache with its topic (`planstate.go`), and a write
  of that entry puts a topic into the store that no list has;
- a rename moves the file, then changes the cache, then the store (`planstate.go:483`): when the
  store refuses, the file and the cache have the new name and the store the old one.

Waves:

- a tick collected before a retry fails the new agent of the task (`app.go:1201`);
- the tmux list replaces a wave dialog, whose latch stays set, and the wave is never
  offered again (`app.go:1510`); `pendingWaveNextAction` answers the next declined dialog;
- a key bound for the failed-wave dialog, declining another dialog that follows, runs before the
  case for planners (`app_input.go:603`), whose field then stays set (`app_input.go:617`);
- marking the last running task complete by hand finishes an orchestrator the monitor then
  skips; so does a rebuild whose last wave is all paused (`app_state.go:1510`);
- a wave whose agents were all still starting at a restart is not rebuilt (`storage.go:69`);
- a wave section without tasks, started, runs for ever (`wave_orchestrator.go:122`), and a
  last wave with a failed task goes to the review without the decision `app.go:1264` mentions;
- a refused implement leaves an idle orchestrator, because of which implement-finished is
  ignored from then on.

Agents and worktrees:

- setting a pushed branch up again rebases it where git runs, which switches the main checkout
  to it (`worktree_ops.go`, `syncBranchWithRemote`);
- a tmux session that does not start makes `Resume` and `StartOnBranch` delete the branch with
  the work on it; every setup of the shared worktree removes it first, with the edits in it;
- a restored instance of the main checkout commits that checkout when it is paused, and
  `Resume` of one that never had a worktree dereferences nil;
- pausing and resuming by key is not saved, so after a crash an agent paused since is
  missing, and `Resume` removes the worktree of one resumed since;
- an instance killed while it is starting goes on unseen, and one killed or dismissed after its
  tmux session started, but before its message (`app.go:1576`), comes back: the message puts it
  into `allInstances` and the state file, without a session if it was killed;
- a crash between that start and that message leaves the session, but the state file does not have
  the instance: the session has to be adopted;
- the goroutine of merging and starting over changes `allInstances` but not the sidebar.

Sidebar and screens:

- `killInstanceMsg` kills what is selected when the checks are done, not the instance it
  names (`app.go:1344`); Esc while naming does too, and a spawned agent takes the selection; a
  row whose instance was given a title after it was built loses the selection;
- the tmux list, ClickUp results and `plannerCompleteMsg` replace or clear an open screen, whose
  pending fields then serve the next dialog; `statePrompt` never closes when nothing is
  selected (`app_input.go:273`); an AI title is put on whatever plan is being created;
- an agent that waits in an opencode permission dialog is idle, and idle counts as a prompt
  (`tmux_io.go:186`), so with AutoYes every such tick types Enter into its pane (`app.go:1004`), also
  while the dialog is on screen or its answer is being typed: the Enter selects "allow once", or
  confirms what is selected, and the user's "reject" that follows then confirms "allow once";
- the Enter of a queued prompt (`app.go:1066`, the yes key at `app_input.go:1236`) or of a typed one
  (`app_input.go:269`) does the same to a dialog that is open when it arrives;
- a permission dialog that follows another without a capture between them is never shown, and
  a capture that fails makes the earlier answer be given again (`app.go:327`);
- a topic picker without a match clears the topic, and cancelling the one of a new plan still
  creates the plan;
- `RemoveByTitle` removes the first of two instances of one title; agents of cancelled plans have
  no row; a promoted plan that is reopened is gone for one refresh.

Plan flow:

- `plannerPrompted` is never reset, so a planner started again never asks (`app.go:873`), and it
  is set on Esc although `app.go:293` says it is not;
- a stale all-complete or coder-exit answer starts a reviewer although its transition was
  refused; the coder-exit dialog comes again while the push of the first answer is under way;
- a result collected before may undo the pause that its own signal just made, or start a
  review of a plan that was resumed;
- setting the shared worktree up again removes signal files in it that no tick has read.

## 4. Fairness

`PlanClients`: steps of an operation under way go on, because they are running code, and the
tick is rescheduled by its own message. Nobody has to start an operation.

`WaveControl`: the Update loop handles each kind of message; starts end; the cooldown is 30
seconds; and the tick, which repeats for ever, meets infinitely often a moment without dialog,
overlay and cooldown. The last is an assumption about the user (who does not keep an overlay
open for ever, or reopen one just before every tick), and so is strong fairness of three
answers: someone who is asked again and again some day says yes to the next wave or to the
review, or aborts. Agents finish or die. No fairness is assumed of retry, of failures, or of
anything the user may simply not do.

`PlanFlow`: the tick is collected again and again and its result is applied, a message that was
sent is handled, and the user leaves menus and answers dialogs, of which declining is enough.
Applying a tick and handling a message are stated as fairness of the part of the step that takes
the view or the message away: that part is enabled whenever the whole step is.

`AgentSessions`, `NavPanel`, `Screens` and `Permissions` have safety and action properties only.

## 5. Proofs

`WaveOrchestratorProofs` proves, for every set of task numbers and every set of plans:

| theorem | says |
|---|---|
| `WellFormedInvariant` | `Spec => []WellFormed(orch)`, the inductive invariant |
| `TypeCorrect` | `Spec => []TypeOK` |
| `OverMeansResolvedTheorem`, `RunningOnlyInCurrentWaveTheorem`, `RunningWaveHasWorkTheorem`, `LatchBelongsToWaveTheorem` | the four invariants of these names |
| `AdvanceOnlyWhenResolvedTheorem` | the action property of that name |
| `BarrierTheorem` | `Spec => []Barrier` |
| `Refinement` | `Spec => ImplementsBarrier`: the orchestrator implements `WaveBarrier` |

The only assumption is the one the module makes of its constants: task numbers are
natural numbers, and plans are sequences of waves over them. None of the invariants is
inductive alone: that a wave is over says nothing about a retry unless tasks run only in the
current wave, and an advance is safe only because "waveComplete" means resolved. `WellFormed`
(in `WaveOrchestratorOps`, since it is about any orchestrator) joins them with what an
idle and a running orchestrator look like. Per method there is one lemma that it preserves
`WellFormed`, and one that its step is one of the abstract kinds (`Follows`); the
theorems cite those. These lemmas are in `SharedProofs`, because wave control needs them too. `Barrier` is not in `WellFormed`: it speaks of all waves, the methods
only of the current one; it is proved on top of it from `Follows`, with the one fact that a
task no other wave shares changes its status only while its wave is current. `Refinement`
needs `Barrier` before and after a step: before, because `Begin` asks that earlier waves have
ended, and after, because the wave that begins is the one the step made current.

`AgentSessionsProofs` proves, for every set of agents of each kind and every bound:

| theorem | says |
|---|---|
| `IInvInvariant` | `Spec => []IInv`, the inductive invariant |
| `TypeCorrect` | `Spec => []TypeOK` |
| `WorkIsKeptTheorem` | `Spec => WorkIsKept` |
| `CrashForgetsNoLiveAgentTheorem` | `Spec => CrashForgetsNoLiveAgent` |

The assumptions are those of the modules: titles of different kinds differ, the plan's branch is
no ad-hoc agent's, the main branch is no agent's, and absent values are told apart. Each git
operator has one lemma, which says that it leaves a repository (`GoodRepo`: the type, and that a
branch with unmerged work exists) and whose work it can lose: none (`Keeps`), the edits in one
worktree (`KeepsCommits`), or one branch (`KeepsOthers`). `WorkIsKept` needs two facts that no
single step shows: a branch with work exists, or setting its worktree up would create it
afresh; and planners never have a worktree, or killing one would remove the plan's. The crash
property needs that the state file has what was started and agrees about its worktree
(`AllSaved`), although some paths do not save: those that do not change neither. An instance
counts as started when its message is handled, and one that is not is in no list (`m.allInstances`).
`IInv` joins them with the types; `InstStep`, `RepoStep`, `SessStep` and `UsedStep` prove its parts,
action by action, and the second uses the first's invariant.

`WaveControlProofs` proves, for every plan, every bound and every agent:

| theorem | hypothesis | says |
|---|---|---|
| `TypeCorrect` | | `Spec => []TypeOK` |
| `WavesInOrderTheorem` | | the waves keep their order, whatever users, ticks, agents and restarts do |
| `FinishedIsForgottenTheorem` | `~Manual` | the step that finishes an orchestrator forgets it |
| `DeclineSendsNothingTheorem` | `~Interruptions` | declining sends nothing (an action property) |
| `LatchIsAnswerableTheorem` | `~Interruptions` | a wave that waits for the user has its dialog or an answer on its way |
| `OneInstancePerTaskTheorem` | `MaxStarts <= 1`, `NumbersOrdered` | a task has one instance at most |
| `NoAgentBehindItsTaskTheorem` | `Calm` | an agent at work has a running task |
| `NoOrphanAgentsTheorem` | `Calm` | an implementation that is over has no agent at work |
| `ReviewerFollowsCodersTheorem` | `Calm` | the reviewer comes when the coders are done (an action property) |

`NumbersOrdered` asks that no task number occurs twice and, if there are restarts, that the numbers
ascend from wave to wave. `Calm` adds `~StaleTicks`, `~Manual` and `MaxStarts <= 1`, as in the run
`WaveControl_calm`. Each hypothesis excludes behaviour of the code that breaks the property, listed
in section 3: marking a task by hand, the tmux list over a dialog, ticks applied late, implementing
a plan again over its agents, and task numbers that repeat. Without a hypothesis hold the order
of the waves and the types.

The invariant is built in layers, each proved on top of those before:

1. `SignalInv` (a signalled wave is one of the plan), `OrchInv` (the orchestrator is well formed and
   in order, from the lemmas about the methods) and `UsedInv` (the bounds);
2. `UIInv` (the pending actions belong to the dialog on screen), `MsgsInv`, and `LatchInv` (a set
   latch has a dialog or an answer): a dialog that is replaced would leave the latch set;
3. `ListsInv` (the sidebar's and the state file's types), `StartInv` (nothing is there before the
   implementation starts, and the tick that read its signal is the one to consume it) and
   `ProtocolInv` (a wave dialog and its answer are about the latched wave, and there is one of
   them), which rule out that one answer starts a wave twice;
4. `InstancesInv` (one instance per title, none of later waves), `AgentsInv` (every instance, with
   its session and what the monitor knows of it, agrees with its task) and `ReviewInv` (who asks for
   the review is asking about an implementation that has ended).

A tick is a composition of four operators, and `Restart` rebuilds the orchestrator from the state
file, so the lemmas of the upper layers go through the composition operator by operator. What the
recursive functions compute for the whole loop is proved by induction over a set of
naturals (`SharedProofs`): the library's induction theorem takes an operator, one about a set
does not. For that, the model's loops are recursive functions and not folds.

`PlanClientsProofs` proves, for every set of names, topics, goroutines and commands:

| theorem | hypothesis | says |
|---|---|---|
| `TypeCorrect` | | `Spec => []TypeOK` |
| `CacheFreshTheorem` | `Undisturbed` | between operations the cache is the store |
| `AnnouncedStatusStoredTheorem` | `Undisturbed` | the status that is announced is stored (an action property) |
| `ImplementsLifecycleTheorem` | `Undisturbed`, `~Overrides` | the clients implement `PlanLifecycle` |
| `FileFollowsRowTheorem` | `Undisturbed` | between operations a plan file has its plan |
| `TopicsListedTheorem` | `Undisturbed` | between operations the topics of plans are listed |
| `PlannerTextIngestedTheorem` | `Undisturbed` | a finished planner's text is in the store |

`Undisturbed` is the serial environment: one operation at a time, no command of another process, no
failing call. It is what the code counts on: concurrent writers and failures break these properties
(section 3, "What the code does otherwise"), and the overrides write any status by design.

An operation is several steps, so its invariant speaks of the steps that are left. `SerialInv` says
that the cache is the store, or already shows what the next step will write (`Ahead`), or will be
reloaded (`CacheOK`); and that the operation is `Destined`, which is that a path of statuses leads
from the stored one through all its steps to the one it announces (`Follows`, step by step), or
`Doomed`, which is that the next event is refused and nothing after it is announced. A merge dialog
opened on a finished plan announces "done" later (`DialogOK`), and nothing else runs beside an
operation (`Alone`). `PathOf` is how several transitions in one handler implement
single moves along the table. `CareInv` adds what an operation owes the files (`FilesKept`), the
topics (`TopicsKept`) and the texts (`Tidy`): a rename has moved the file before the row, a row with a
new topic is followed by the topic, and the text of a planner is stored just before the reload.

`ScreensProofs` proves, for every set of plans, instances and events, and without a hypothesis:

| theorem | says |
|---|---|
| `ScreensInvariant` | the inductive invariant (a lemma) |
| `TypeCorrect` | `Spec => []TypeOK` |
| `ActsOnWhatWasShownTheorem` | what a screen does is done to what it was opened for |
| `AnsweredAsAskedTheorem` | an answer for one permission dialog answers that one, and as it was given |

`ScreenOK` says that every pending field is about the screen that shows it, or belongs to one
that a message replaced (`orphans`), or has its command under way; `Loose` is the state between two
screens, and each handler is shown to go from a state that is `ScreenOK` to another (`Went`).
The permission dialogs need the order of keys and captures: an answer under way is for the dialog
in the pane (`RepliesOK`), what is selected was meant (`ChosenOK`), what a tick captured is not an
answered dialog without its guard (`SeenOK`), and all of that is about agents into whose dialog no
other Enter, of the user or of kasmos, was typed (`GuardInv`). `Frame` is what a handler leaves alone of the other part, so each part is proved
for the steps of the other at once.

`NavPanelProofs` proves, for every number of plans, every set of agents and every bound:

| theorem | hypothesis | says |
|---|---|---|
| `TypeCorrect` | | `Spec => []TypeOK`: what is selected is a row there is |
| `AgentsReachableTheorem` | | every agent of a listed plan has a row, or gets one by unfolding |
| `SelectionStaysTheorem` | `UniqueTitles` | what is selected stays selected while it has a row (an action property) |

The rows are built by filters and concatenations. The properties need only which rows there are,
so `AllRows` is first shown to have the set `RowSet`, whatever the order. An operation ends in
a rebuild, and a panel that was rebuilt is `Good`: its agents have rows or folded headers to have
them under (`Reaches`), and no plan with agents is in the history (`Unpast`). The second is an
agreement of two pieces of state that different operations write: the partition is made anew only
by some (`Split`), while agents come by others, so an operation that adds an agent has to
partition before it rebuilds. `NavInv` joins `Good` with the types.

The selection survives a rebuild when the selected row's identity names one row (`RebuildKeeps`).
Where a step rebuilds twice, the row must not be away between the two: notifications and statuses
are counted at the first, and `Covered` says that what the panel has counted covers what there is, so
the second takes no row that the first left (`CalmerRows`). `UniqueTitles` says that no two agents
have one title. The panel finds a selected instance again by its title, and without the
hypothesis TLC finds a counterexample of four states. Titles are made of a plan's display
name and the role; the display name drops the date (`planstate.go:470`), so two plans of one
slug and different dates do share titles.

`PlanFlowProofs` proves, for every bound on the user's acts and the agents' reports:

| theorem | says |
|---|---|
| `TypeCorrect` | `Spec => []TypeOK`, which has it that a plan has one planner, coder and reviewer at most |
| `FinishedIsOwedTheorem` | `Spec => []FinishedIsOwed`: a planner's end is counted, asked or answered, in every state |

`TypeOK` is inductive. Most of its proof is that a handler keeps ranges (`HomeOK`, one lemma per
handler, one per action); what could be wrong is that two paths start one agent. An agent that has
to be alone is added only where none of its kind is listed (`StartedOK`): either the handler
killed it first (`KilledOK`) or its guard looked. `FinishedIsOwed` is the safety half of what
`EndsAreAsked` says of planners. The signal is deleted when it is applied, and the dialog cannot
always open then; `Owing` says that a finished plan that the user was not asked about has a
deferred dialog, an open one, or an answer under way, and that an open one still knows its plan
(otherwise its answer would be about none). Handlers that keep the five fields it reads are
dismissed by one lemma (`KeptOwing`).

Assumptions. Each module names those it makes of its constants: the plan is not empty and
`NoOrch` is no orchestrator; the TUI, goroutines and commands are different clients, and `None` is
no announcement; absent values are told apart. They say
that model values differ, and nothing of the code, with one exception: `ControlAssumption` allows
restarts only without `Manual` and `StaleTicks` and for waves that have tasks, because the model
leaves out two things there (its comment says which).

With these, every invariant and every action property of the passing runs is proved, and so are both
refinements. Only model-checked: liveness (`CacheConverges`, `ImplementationEnds`, `PostponedIsShown`,
`LostTaskIsNoticed`, `EndsAreAsked`), which is out of the prover's reach; and the run that expects
a violation. Where a theorem has a hypothesis, the section above says which behaviour of the code
breaks the property without it.

## 6. Not modelled

Rendering, key maps, the audit log, logging, configuration files, the setup wizard, the MCP
and ClickUp protocols and the web site have no state that the properties depend on. With a
state of their own, and left out: the daemon, which presses enter on prompts while the TUI does
not run; the migrations of `plan-state.json` and of the permission cache, which run once before
anything else; the choice between a local and a remote store; the git commands of pull requests;
and several plans that implement in one home model. Abstracted inside what is modelled: how
idle is detected (15 equal screens), prompts and plan texts, programs other than the ones that take
their prompt on the command line, diffs, and the parsing of wave sections and file names, which are
pure text. Data races between the goroutines of confirmed dialogs and the Update loop
are taken as one of the two orders.

## 7. Plan

Done: the orchestrator; the store and its clients; wave control; worktrees and instances; the
sidebar; screens and permissions; the flow of one plan; and the proofs of all of them. Left, in
this order:

1. Two plans in one home model: deferred dialogs of both, the topic gate, wave dialogs that
   wait for each other.
2. The migration of `plan-state.json` with crashes between its steps.
3. The daemon beside the TUI on one state file.
4. The wave scanner of the plan parser as a pure operator against a reference definition.
