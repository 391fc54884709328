---------------------------- MODULE AgentSessions ----------------------------
(***************************************************************************)
(* The instances of agents (session/instance*.go): their start in the      *)
(* plan's shared worktree, in a worktree of their own or in the main       *)
(* checkout, pausing, resuming, killing and adopting them, the state file  *)
(* they are saved to, and what a restart makes of it.                      *)
(*                                                                         *)
(* The Update loop's handlers and the goroutines that start instances are  *)
(* one action each; agents work, commit and push beside them, others push  *)
(* to origin, and the user works in the main checkout.                     *)
(*                                                                         *)
(* Abstracted: one plan; one instance per title at a time, also while one  *)
(* is starting (WaveControl has the duplicates of retried tasks); ad-hoc   *)
(* agents without a branch; tmux attaches when asked to; writing the       *)
(* plan's file into a worktree.                                            *)
(***************************************************************************)
EXTENDS GitWorktrees, Naturals

CONSTANTS
    Tasks,       \* titles of coders, whose shared worktree is set up when they are added
    Reviewers,   \* titles of agents whose start sets it up: reviewer, fixing coder, chat
    Planners,    \* titles of the plan's agents in the main checkout: planner, solo
    Adhoc,       \* titles of agents with a branch of their own
    Plan,        \* the plan's branch and shared worktree
    NoInst,      \* no instance of the title in memory
    Nothing,     \* no instance of the title in the state file
    MaxSpawns,   \* bound on agents spawned
    MaxActs,     \* bound on the user's acts on instances and the plan
    MaxWork,     \* bound on edits and pushes by agents, the user and others
    MaxFaults,   \* bound on tmux sessions that do not start
    MaxRestarts  \* bound on restarts of kasmos

Shared == Tasks \cup Reviewers
Titles == Shared \cup Planners \cup Adhoc

ASSUME SessionsAssumption ==
    /\ Branches = Adhoc \cup {Plan} /\ Plan \notin Adhoc
    /\ Tasks \cap Reviewers = {} /\ Shared \cap (Planners \cup Adhoc) = {}
    /\ Planners \cap Adhoc = {}
    /\ Main \notin Titles
    /\ {MaxSpawns, MaxActs, MaxWork, MaxFaults, MaxRestarts} \subseteq Nat

VARIABLES
    repo,    \* the git repository
    inst,    \* per title, the instance in memory
    stored,  \* per title, the instance in the state file
    sess,    \* per title, its tmux session
    used     \* per bound, what was used of it

vars == <<repo, inst, stored, sess, used>>

\* queued: its goroutine has yet to set the worktree up; loading: to start the tmux
\* session; due: it did, and its message is yet to be handled.  tree is gitWorktree: none
\* for nil, path, or blank for the one without paths that a restart gives an instance that
\* had none.  shared is sharedWorktree.  nav, all: whether it is in the sidebar and in
\* m.allInstances.
Instance == [phase : {"queued", "loading", "live", "paused"}, due : BOOLEAN,
             tree : {"none", "blank", "path"}, shared : BOOLEAN,
             nav : BOOLEAN, all : BOOLEAN]

Saved == [paused : BOOLEAN, tree : {"blank", "path"}]

ASSUME AbsentAssumption == NoInst \notin Instance /\ Nothing \notin Saved

\* adrift: its directory was removed under it, or was gone when it started.
Session == {"none", "working", "adrift"}

Limit == [spawns |-> MaxSpawns, acts |-> MaxActs, work |-> MaxWork,
          faults |-> MaxFaults, restarts |-> MaxRestarts]

TypeOK ==
    /\ repo \in Repo
    /\ inst \in [Titles -> Instance \cup {NoInst}]
    /\ stored \in [Titles -> Saved \cup {Nothing}]
    /\ sess \in [Titles -> Session]
    /\ used \in [DOMAIN Limit -> Nat]
    /\ \A b \in DOMAIN Limit : used[b] <= Limit[b]

\* The plan has its branch; an ad-hoc agent's may be one the user has work on.
Init ==
    /\ \E there \in SUBSET Adhoc :
          repo = [trees |-> {}, dirty |-> {}, head |-> Main,
                  branch |-> [b \in Branches |->
                      [exists |-> b = Plan \/ b \in there, work |-> b \in there,
                       pushed |-> FALSE, ahead |-> FALSE, behind |-> FALSE]]]
    /\ inst = [t \in Titles |-> NoInst]
    /\ stored = [t \in Titles |-> Nothing]
    /\ sess = [t \in Titles |-> "none"]
    /\ used = [b \in DOMAIN Limit |-> 0]

----------------------------------------------------------------------------
(* Helpers *)

Affordable(b) == used[b] < Limit[b]
Spend(b)      == [used EXCEPT ![b] = @ + 1]

\* The worktree of an agent that has one, and the directory an agent works in.
Tree(t) == IF t \in Adhoc THEN t ELSE Plan
Dir(t)  == IF t \in Planners THEN Main ELSE Tree(t)

Started(t) == inst[t] # NoInst /\ inst[t].phase \in {"live", "paused"}
Shown(t)   == inst[t] # NoInst /\ inst[t].nav
Due(t)     == inst[t] # NoInst /\ inst[t].due

\* It carries the plan's name, as an adopted session does not.
OfPlan(t) == t \in Planners \/ (t \in Shared /\ inst[t].tree = "path")

\* TmuxSession.Close of the sessions of S.
Closed(S) == [t \in Titles |-> IF t \in S THEN "none" ELSE sess[t]]

\* The sessions when the worktree b is removed.
Disturbed(s, b) ==
    [t \in Titles |-> IF b \in repo.trees /\ Dir(t) = b /\ s[t] = "working"
                      THEN "adrift" ELSE s[t]]

\* Mutant of Save: a worktree that is not there is told apart from one without paths.
NilSave(i) ==
    [t \in Titles |-> IF i[t] # NoInst /\ i[t].all /\ i[t].phase \in {"live", "paused"}
                      THEN [paused |-> i[t].phase = "paused", tree |-> i[t].tree]
                      ELSE Nothing]

\* saveAllInstances: the started ones of m.allInstances; neither sharedWorktree nor
\* whether there was a worktree at all is written.
Save(i) ==
    [t \in Titles |->
        IF i[t] # NoInst /\ i[t].all /\ i[t].phase \in {"live", "paused"}
        THEN [paused |-> i[t].phase = "paused",
              tree |-> IF i[t].tree = "path" THEN "path" ELSE "blank"]
        ELSE Nothing]

Loading(t, phase) ==
    [phase |-> phase, due |-> FALSE, tree |-> IF t \in Planners THEN "none" ELSE "path",
     shared |-> t \in Shared, nav |-> TRUE, all |-> FALSE]

\* Mutant of Cleans: every instance with a worktree cleans it up.
GreedyCleans(i) == i.tree = "path"

\* Whether Instance.Kill removes worktree and branch.  It does nothing to an instance
\* that is not started, and nothing comes of a worktree without paths.
Cleans(i) == i.tree = "path" /\ ~i.shared /\ i.phase \in {"live", "paused"}

\* The repository and the sessions when the instances of S were killed.
KillRepo(S) ==
    LET cleaned == {Tree(t) : t \in {u \in S : Cleans(inst[u])}}
    IN IF \A b \in Branches : b \notin cleaned THEN repo
       ELSE Cleanup(repo, CHOOSE b \in cleaned : TRUE)
KillSess(S) ==
    LET closed  == Closed({t \in S : Started(t)})
        cleaned == {Tree(t) : t \in {u \in S : Cleans(inst[u])}}
    IN [t \in Titles |->
           IF Dir(t) \in cleaned THEN Disturbed(closed, Dir(t))[t] ELSE closed[t]]

----------------------------------------------------------------------------
(* Spawning *)

Spawns == Affordable("spawns") /\ used' = Spend("spawns")

\* spawnWaveTasks and spawnPlanAgent ("implement", "review") set the shared worktree up
\* before the instance is added.  An older instance of a retried task is dropped and
\* its session left alone.
SpawnTask(t) ==
    /\ t \in Tasks /\ Spawns
    /\ inst[t] = NoInst \/ (Started(t) /\ OfPlan(t) /\ ~Due(t))
    /\ \E o \in Setup(repo, Plan) :
          /\ repo' = o.repo
          /\ inst' = [inst EXCEPT ![t] = IF o.ok THEN Loading(t, "loading") ELSE NoInst]
    /\ sess' = Disturbed(sess, Plan)
    /\ UNCHANGED stored

\* spawnReviewer, spawnCoderWithFeedback and planners: killExistingPlanAgent first, and
\* the rest is left to the goroutine.
SpawnAgent(t) ==
    /\ t \in Reviewers \cup Planners /\ Spawns
    /\ inst[t] = NoInst \/ (Shown(t) /\ Started(t) /\ OfPlan(t) /\ ~Due(t))
    /\ LET killed == {u \in {t} : Started(u)} IN
          repo' = KillRepo(killed) /\ sess' = KillSess(killed)
    /\ inst' = [inst EXCEPT ![t] =
                   Loading(t, IF t \in Planners THEN "loading" ELSE "queued")]
    /\ UNCHANGED stored

\* spawnAdHocAgent, with a branch.
SpawnAdHoc(t) ==
    /\ t \in Adhoc /\ Spawns
    /\ inst[t] = NoInst
    /\ inst' = [inst EXCEPT ![t] = Loading(t, "queued")]
    /\ UNCHANGED <<repo, stored, sess>>

\* The goroutine: shared.Setup at the plan's path, or StartOnBranch at a new one.  When
\* it fails the instance is removed; it was not started, so Kill cleans nothing up.
SetUp(t) ==
    /\ inst[t] # NoInst /\ inst[t].phase = "queued"
    /\ \E o \in IF t \in Adhoc THEN SetupFresh(repo, t) ELSE Setup(repo, Plan) :
          /\ repo' = o.repo
          /\ inst' = [inst EXCEPT ![t] = IF o.ok THEN [@ EXCEPT !.phase = "loading"]
                                                  ELSE NoInst]
    /\ sess' = IF t \in Adhoc THEN sess ELSE Disturbed(sess, Plan)
    /\ UNCHANGED <<stored, used>>

\* The session after TmuxSession.Start: attached to when it survived, or a new one; tmux
\* does not mind a directory that is not there.
TmuxStart(t) ==
    [sess EXCEPT ![t] = IF @ # "none" THEN @
                        ELSE IF Dir(t) \in Branches \ repo.trees THEN "adrift"
                        ELSE "working"]

\* The goroutine goes on (StartInSharedWorktree, StartOnMainBranch, StartOnBranch): the
\* instance is started.
TmuxStarts(t) ==
    /\ inst[t] # NoInst /\ inst[t].phase = "loading"
    /\ inst' = [inst EXCEPT ![t] = [@ EXCEPT !.phase = "live", !.due = TRUE]]
    /\ sess' = TmuxStart(t)
    /\ UNCHANGED <<repo, stored, used>>

\* Mutant of StartDone: the instance is not saved.
UnsavedStartDone(t) ==
    /\ Due(t)
    /\ inst' = [inst EXCEPT ![t] = [@ EXCEPT !.due = FALSE, !.all = TRUE]]
    /\ UNCHANGED <<repo, stored, sess, used>>

\* instanceStartedMsg.  The instance may have been paused, killed or dismissed meanwhile.
StartDone(t) ==
    /\ Due(t)
    /\ inst' = [inst EXCEPT ![t] = [@ EXCEPT !.due = FALSE, !.all = TRUE]]
    /\ stored' = Save(inst')
    /\ UNCHANGED <<repo, sess, used>>

\* tmux does not start.  An own worktree is cleaned up, and its branch with it.
StartFailed(t) ==
    /\ inst[t] # NoInst /\ inst[t].phase = "loading"
    /\ sess[t] = "none"
    /\ Affordable("faults") /\ used' = Spend("faults")
    /\ repo' = IF t \in Adhoc THEN Cleanup(repo, t) ELSE repo
    /\ inst' = [inst EXCEPT ![t] = NoInst]
    /\ UNCHANGED <<stored, sess>>

----------------------------------------------------------------------------
(* Agents, other people and the user's git *)

Works == Affordable("work") /\ used' = Spend("work")

\* An agent edits files, or commits what it edited, where it works.
AgentEdits(t) ==
    /\ sess[t] = "working" /\ Works
    /\ repo' = Edited(repo, Dir(t))
    /\ UNCHANGED <<inst, stored, sess>>
AgentCommits(t) ==
    /\ sess[t] = "working" /\ Dir(t) \in repo.dirty
    /\ repo' = CommitChanges(repo, Dir(t))
    /\ UNCHANGED <<inst, stored, sess, used>>

\* It pushes, or the user with KeySubmit, which commits first and does not force.
AgentPushes(t) ==
    /\ Dir(t) \in Branches /\ CanPush(repo, Dir(t)) /\ Works
    /\ \/ sess[t] = "working" /\ repo' = Pushed(repo, Dir(t))
       \/ /\ Shown(t) /\ Started(t) /\ inst[t].tree = "path"
          /\ repo' = Pushed(CommitChanges(repo, Dir(t)), Dir(t))
    /\ UNCHANGED <<inst, stored, sess>>

\* Another clone pushes to the branch.
OthersPush(b) ==
    /\ repo.branch[b].pushed /\ Works
    /\ repo' = [repo EXCEPT !.branch[b].behind = TRUE]
    /\ UNCHANGED <<inst, stored, sess>>

\* The user edits the main checkout, commits there, or goes back to the main branch.
UserWorks ==
    /\ \/ Works /\ repo' = Edited(repo, Main)
       \/ /\ Main \in repo.dirty
          /\ repo' = CommitChanges(repo, Main) /\ UNCHANGED used
       \/ repo.head # Main /\ repo' = [repo EXCEPT !.head = Main] /\ UNCHANGED used
    /\ UNCHANGED <<inst, stored, sess>>

\* The agent exits, or its session is killed: KeyKill, the session browser.
SessionEnds(t) ==
    /\ sess[t] # "none"
    /\ sess' = Closed({t})
    /\ UNCHANGED <<repo, inst, stored, used>>

----------------------------------------------------------------------------
(* The user's acts on instances *)

Acts == Affordable("acts") /\ used' = Spend("acts")

\* The context menu saves what it did; the keys, and the Update loop that pauses
\* agents, do not.
MaySave == stored' \in {stored, Save(inst')}

\* Pause.  An own worktree is committed and removed; where the path is empty, git runs
\* where kasmos does, in the main checkout.  Nothing is done when the worktree is gone.
Pause(t) ==
    /\ Shown(t) /\ inst[t].phase = "live" /\ Acts
    /\ LET own == inst[t].tree = "path" /\ ~inst[t].shared IN
       /\ own => Tree(t) \in repo.trees
       /\ repo' = IF own THEN RemoveTree(CommitChanges(repo, Tree(t)), Tree(t))
                  ELSE IF inst[t].tree = "blank" THEN CommitChanges(repo, Main)
                  ELSE repo
       /\ sess' = IF own THEN Disturbed(sess, Tree(t)) ELSE sess
    /\ inst' = [inst EXCEPT ![t].phase = "paused"]
    /\ MaySave

\* Resume.  The worktree is set up again, one that is there included; a session that
\* survived is restored as it is.  When tmux does not start, worktree and branch are
\* cleaned up, and the instance stays paused.
Resume(t) ==
    /\ Shown(t) /\ inst[t].phase = "paused" /\ inst[t].tree = "path" /\ Acts
    /\ repo.head # Tree(t)
    /\ \E o \in Setup(repo, Tree(t)) :
          /\ repo' = o.repo /\ sess' = Disturbed(sess, Tree(t))
          /\ IF ~o.ok THEN UNCHANGED <<inst, stored>>
             ELSE /\ sess[t] # "none"
                  /\ inst' = [inst EXCEPT ![t].phase = "live"]
                  /\ MaySave
ResumeStarts(t) ==
    /\ Shown(t) /\ inst[t].phase = "paused" /\ inst[t].tree = "path" /\ Acts
    /\ repo.head # Tree(t) /\ sess[t] = "none"
    /\ \E o \in Setup(repo, Tree(t)) :
          /\ o.ok /\ repo' = o.repo
          /\ sess' = [Disturbed(sess, Tree(t)) EXCEPT ![t] = "working"]
    /\ inst' = [inst EXCEPT ![t].phase = "live"]
    /\ MaySave
ResumeFails(t) ==
    /\ Shown(t) /\ inst[t].phase = "paused" /\ inst[t].tree = "path"
    /\ repo.head # Tree(t) /\ sess[t] = "none"
    /\ Affordable("faults") /\ used' = Spend("faults")
    /\ \E o \in Setup(repo, Tree(t)) : o.ok /\ repo' = Cleanup(o.repo, Tree(t))
    /\ sess' = Disturbed(sess, Tree(t))
    /\ UNCHANGED <<inst, stored>>

\* Out of both lists.
Unlisted(i) == [i EXCEPT !.nav = FALSE, !.all = FALSE]

\* nav.Kill, removeFromAllInstances and the save: "kill_instance", and KeyAbort, which
\* refuses when the main checkout is on the branch.  One that is still starting is not
\* killed: its goroutine goes on unseen, and so does the message of one that has started.
KillInstance(t) ==
    /\ Shown(t) /\ Acts
    /\ repo' = KillRepo({t}) /\ sess' = KillSess({t})
    /\ inst' = [inst EXCEPT ![t] = IF Started(t) /\ ~Due(t) THEN NoInst ELSE Unlisted(@)]
    /\ stored' = Save(inst')

\* The delete key: out of the lists, and nothing else.
Dismiss(t) ==
    /\ Shown(t) /\ inst[t].phase \in {"live", "paused"} /\ Acts
    /\ inst' = [inst EXCEPT ![t] = IF Due(t) THEN Unlisted(@) ELSE NoInst]
    /\ stored' = Save(inst')
    /\ UNCHANGED <<repo, sess>>

\* DiscoverAll: the sessions that are listed as not managed.  (Also those of instances
\* that are out of m.allInstances; left out, the adopted one would be a duplicate.)
Unmanaged == {t \in Titles : sess[t] # "none" /\ inst[t] = NoInst}

\* adoptOrphanSession: a session without an instance gets one, without a worktree or a
\* plan.  (A planner's, too; left out, its other fields tell them apart.)
Adopt(t) ==
    /\ t \in Unmanaged \ Planners /\ Acts
    /\ inst' = [inst EXCEPT ![t] = [phase |-> "live", due |-> FALSE, tree |-> "none",
                                    shared |-> FALSE, nav |-> TRUE, all |-> TRUE]]
    /\ stored' = Save(inst')
    /\ UNCHANGED <<repo, sess>>

\* The plan's instances that merging and starting over kill, and what is left of them:
\* they stay in the sidebar.
PlanAgents == {t \in Titles : inst[t] # NoInst /\ inst[t].all /\ OfPlan(t)}
Killed(S)  == [t \in Titles |-> IF t \in S THEN [inst[t] EXCEPT !.all = FALSE] ELSE inst[t]]

\* "merge_plan" and "start_over_plan".  The save is the last thing they do, and not
\* done when git or the transition of the plan fails.
Concludes(Outcomes(_, _)) ==
    /\ Acts
    /\ inst' = Killed(PlanAgents)
    /\ \E o \in Outcomes(KillRepo(PlanAgents), Plan) :
          /\ repo' = o.repo
          /\ stored' \in IF o.ok THEN {stored, Save(inst')} ELSE {stored}
    /\ LET s == KillSess(PlanAgents) IN
       sess' = [t \in Titles |-> IF t \in Shared THEN Disturbed(s, Plan)[t] ELSE s[t]]

MergePlan == Concludes(MergePlanBranch)
StartOver == Concludes(ResetPlanBranch)

----------------------------------------------------------------------------
(* Restarts *)

\* FromInstanceData: a paused instance, or one that is live whether its session survived
\* or not, to be attached or marked as exited.  What it shared is not known any more.
FromInstanceData(d) ==
    [phase |-> IF d.paused THEN "paused" ELSE "live", due |-> FALSE, tree |-> d.tree,
     shared |-> FALSE, nav |-> TRUE, all |-> TRUE]

\* LoadInstances skips instances that run and whose worktree is gone.
LoadInstances(s) ==
    [t \in Titles |->
        IF s[t] = Nothing THEN NoInst
        ELSE IF ~s[t].paused /\ s[t].tree = "path" /\ Tree(t) \notin repo.trees THEN NoInst
        ELSE FromInstanceData(s[t])]

Restarts == Affordable("restarts") /\ used' = Spend("restarts")

\* The user quits, which saves, or kasmos dies; then it is started again.
Quit ==
    /\ Restarts /\ stored' = Save(inst) /\ inst' = LoadInstances(stored')
    /\ UNCHANGED <<repo, sess>>
Crash ==
    /\ Restarts /\ inst' = LoadInstances(stored)
    /\ UNCHANGED <<repo, stored, sess>>

\* CleanupSessions: every session with the prefix of kasmos.
CleanupSessions == [t \in Titles |-> "none"]

\* kas reset, with kasmos closed: state file, sessions and worktrees.
Reset ==
    /\ Restarts /\ repo' = CleanupWorktrees(repo)
    /\ inst' = [t \in Titles |-> NoInst] /\ stored' = [t \in Titles |-> Nothing]
    /\ sess' = CleanupSessions

----------------------------------------------------------------------------

Next ==
    \/ \E t \in Titles :
          \/ SpawnTask(t) \/ SpawnAgent(t) \/ SpawnAdHoc(t) \/ SetUp(t)
          \/ TmuxStarts(t) \/ StartDone(t) \/ StartFailed(t)
          \/ AgentEdits(t) \/ AgentCommits(t) \/ AgentPushes(t) \/ SessionEnds(t)
          \/ Pause(t) \/ Resume(t) \/ ResumeStarts(t) \/ ResumeFails(t)
          \/ KillInstance(t) \/ Dismiss(t) \/ Adopt(t)
    \/ \E b \in Branches : OthersPush(b)
    \/ UserWorks \/ MergePlan \/ StartOver \/ Quit \/ Crash \/ Reset

Spec == Init /\ [][Next]_vars

----------------------------------------------------------------------------
(* Properties *)

WorkAt(r, b) == b \in r.dirty \/ r.branch[b].work
SetsUp(b) == \E t \in Titles :
                Dir(t) = b /\ (SpawnTask(t) \/ SetUp(t) \/ Resume(t) \/ ResumeStarts(t))

\* An instance a restart made forget that its worktree is shared.
Disowned(t) == inst[t] # NoInst /\ t \in Shared /\ ~inst[t].shared

\* What an agent did and nobody merged is there, as edits or as commits, until the plan
\* is merged or started over, kasmos is reset, or the ad-hoc agent on the branch is
\* killed.  The code has three ways around that, and no others: setting a worktree up
\* drops the edits in it, a tmux session that does not start takes the branch along,
\* and so does the end of an agent that a restart made forget the worktree is shared.
WorkIsKept ==
    [][\A b \in Branches :
          WorkAt(repo, b) /\ ~WorkAt(repo', b) =>
             \/ MergePlan \/ StartOver \/ Reset
             \/ b \in Adhoc /\ KillInstance(b)
             \/ ~repo.branch[b].work /\ SetsUp(b)
             \/ used'.faults # used.faults
             \/ \E t \in Shared : Disowned(t) /\ (KillInstance(t) \/ SpawnAgent(t))]_vars

\* kasmos finds every agent of its list again that was live when it died, in whatever order
\* agents were started, paused, resumed and killed before, unless its worktree is gone.
\* The list is saved with the message of the start: an agent whose message is still under
\* way is not in it, and a crash leaves its session to be adopted.
CrashForgetsNoLiveAgent ==
    [][Crash =>
         \A t \in Titles :
            inst[t] # NoInst /\ inst[t].phase = "live" /\ inst[t].all
            /\ (inst[t].tree = "path" => Tree(t) \in repo.trees)
            => inst'[t] # NoInst]_vars

\* "sharedWorktree is true if this instance uses a topic's shared worktree (should not
\* clean it up)" (instance.go): killing such an agent leaves the plan's branch alone.
SharedBranchSurvivesKill ==
    [][\A t \in Shared : KillInstance(t) => repo'.branch[Plan] = repo.branch[Plan]]_vars
=============================================================================
