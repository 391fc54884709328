-------------------------- MODULE AgentSessionsProofs --------------------------
(***************************************************************************)
(* For every set of agents and every bound: what an agent did is kept, and *)
(* a crash forgets no agent that was live.                                 *)
(***************************************************************************)
EXTENDS AgentSessions, TLAPS

----------------------------------------------------------------------------
(* The operations on the repository *)

\* A repository with work only on branches that exist.
GoodRepo(r) ==
    r \in Repo /\ \A b \in Branches : r.branch[b].work => r.branch[b].exists

\* Nothing that is not merged is lost between r and s.
Keeps(r, s) == \A b \in Branches : WorkAt(r, b) => WorkAt(s, b)

\* Setting up, removing: only edits in the worktree b, or only the worktree b and
\* its branch, are lost.
KeepsCommits(r, s, b) ==
    \A x \in Branches : WorkAt(r, x) => WorkAt(s, x) \/ (x = b /\ ~r.branch[b].work)
KeepsOthers(r, s, b) ==
    \A x \in Branches : x # b /\ WorkAt(r, x) => WorkAt(s, x)

\* Removing a worktree drops the edits in it and keeps every commit.
LEMMA RemoveTreeFacts ==
    ASSUME NEW r, GoodRepo(r), NEW b \in Branches
    PROVE  /\ GoodRepo(RemoveTree(r, b))
           /\ RemoveTree(r, b).branch = r.branch
           /\ RemoveTree(r, b).dirty = r.dirty \ {b}
           /\ RemoveTree(r, b).head = r.head
  BY DEF GoodRepo, Repo, RemoveTree

\* Edits lose nothing.
LEMMA EditedFacts ==
    ASSUME NEW r, GoodRepo(r), NEW c \in Branches \cup {Main}
    PROVE  GoodRepo(Edited(r, c)) /\ Keeps(r, Edited(r, c))
  BY DEF GoodRepo, Repo, Edited, Keeps, WorkAt

\* A commit loses nothing and puts what was edited on the branch of the checkout.
LEMMA CommitFacts ==
    ASSUME NEW r, GoodRepo(r), NEW c \in Branches \cup {Main}
    PROVE  /\ GoodRepo(CommitChanges(r, c))
           /\ Keeps(r, CommitChanges(r, c))
           /\ c \in Branches /\ WorkAt(r, c) => CommitChanges(r, c).branch[c].work
  <1> DEFINE b == IF c = Main THEN r.head ELSE c
             s == CommitChanges(r, c)
  <1>1. CASE c \notin r.dirty
    BY <1>1 DEF CommitChanges, Keeps, WorkAt
  <1>2. CASE c \in r.dirty /\ b = Main
    <2>1. s = [r EXCEPT !.dirty = @ \ {c}] /\ c = Main
      BY <1>2, GitAssumption DEF CommitChanges
    <2>2. QED
      BY <2>1, GitAssumption DEF GoodRepo, Repo, Keeps, WorkAt
  <1>3. CASE c \in r.dirty /\ b # Main
    <2>1. b \in Branches
      BY <1>3 DEF GoodRepo, Repo
    <2> DEFINE old == r.branch[b]
               new == [old EXCEPT !.exists = TRUE, !.work = TRUE, !.ahead = old.pushed]
    <2>2. old \in Branch
      BY <2>1 DEF GoodRepo, Repo
    <2>3. new \in Branch /\ new.work /\ new.exists
      BY <2>2 DEF Branch
    <2>4. s = [r EXCEPT !.dirty = r.dirty \ {c},
                         !.branch = [r.branch EXCEPT ![b] = new]]
      BY <1>3 DEF CommitChanges
    <2> HIDE DEF new, old, s
    <2>5. s.dirty = r.dirty \ {c} /\ s.branch = [r.branch EXCEPT ![b] = new]
          /\ s \in Repo
      BY <2>1, <2>3, <2>4 DEF GoodRepo, Repo
    <2>6. \A x \in Branches : s.branch[x] = IF x = b THEN new ELSE r.branch[x]
      BY <2>5 DEF GoodRepo, Repo
    <2>7. GoodRepo(s)
      BY <2>3, <2>5, <2>6 DEF GoodRepo
    <2>8. Keeps(r, s)
      BY <2>1, <2>3, <2>5, <2>6, GitAssumption DEF Keeps, WorkAt
    <2>9. QED
      BY <2>1, <2>3, <2>6, <2>7, <2>8, GitAssumption DEF s
  <1>4. QED
    BY <1>1, <1>2, <1>3

\* Replacing what is recorded of one branch.
LEMMA OneBranchFacts ==
    ASSUME NEW r, GoodRepo(r), NEW b \in Branches,
           NEW v \in Branch, v.work => v.exists,
           NEW s, s = [r EXCEPT !.branch = [r.branch EXCEPT ![b] = v]]
    PROVE  /\ GoodRepo(s)
           /\ s.trees = r.trees /\ s.dirty = r.dirty /\ s.head = r.head
           /\ s.branch[b] = v
           /\ \A x \in Branches : x # b => s.branch[x] = r.branch[x]
  <1>1. /\ s \in Repo
        /\ s.trees = r.trees /\ s.dirty = r.dirty /\ s.head = r.head
        /\ s.branch = [r.branch EXCEPT ![b] = v]
    BY DEF GoodRepo, Repo
  <1>2. /\ s.branch[b] = v
        /\ \A x \in Branches : x # b => s.branch[x] = r.branch[x]
    BY <1>1 DEF GoodRepo, Repo
  <1>3. QED
    BY <1>1, <1>2 DEF GoodRepo

\* A push, the user's and the agent's, and a push of somebody else.
LEMMA PushFacts ==
    ASSUME NEW r, GoodRepo(r), NEW b \in Branches
    PROVE  /\ GoodRepo(Pushed(r, b)) /\ Keeps(r, Pushed(r, b))
           /\ GoodRepo([r EXCEPT !.branch[b].behind = TRUE])
           /\ Keeps(r, [r EXCEPT !.branch[b].behind = TRUE])
  <1>1. r.branch[b] \in Branch /\ (r.branch[b].work => r.branch[b].exists)
    BY DEF GoodRepo, Repo
  <1> DEFINE v == [r.branch[b] EXCEPT !.pushed = TRUE, !.ahead = FALSE]
             w == [r.branch[b] EXCEPT !.behind = TRUE]
             s == Pushed(r, b)
             q == [r EXCEPT !.branch[b].behind = TRUE]
  <1>2. /\ v \in Branch /\ v.work = r.branch[b].work /\ (v.work => v.exists)
        /\ w \in Branch /\ w.work = r.branch[b].work /\ (w.work => w.exists)
    BY <1>1 DEF Branch
  <1>3. q = [r EXCEPT !.branch = [r.branch EXCEPT ![b] = w]]
    OBVIOUS
  <1>4. s = [r EXCEPT !.branch = [r.branch EXCEPT ![b] = v]]
    BY <1>1 DEF Pushed, GoodRepo, Repo, Branch
  <1> HIDE DEF v, w, s, q
  <1>5. GoodRepo(s) /\ Keeps(r, s)
    BY <1>2, <1>4, OneBranchFacts DEF Keeps, WorkAt
  <1>6. GoodRepo(q) /\ Keeps(r, q)
    BY <1>2, <1>3, OneBranchFacts DEF Keeps, WorkAt
  <1>7. QED
    BY <1>5, <1>6 DEF s, q

\* Syncing a branch with origin loses no work and leaves the other branches alone.
LEMMA SyncFacts ==
    ASSUME NEW r, GoodRepo(r), NEW b \in Branches, NEW s \in SyncBranch(r, b),
           r.branch[b].exists
    PROVE  GoodRepo(s) /\ Keeps(r, s)
  <1> DEFINE c == r.branch[b]
             moved == [c EXCEPT !.behind = FALSE, !.work = TRUE]
             rebased(still) == [c EXCEPT !.behind = still]
  <1>1. c \in Branch /\ c.exists /\ c.behind \in BOOLEAN
    BY DEF GoodRepo, Repo, Branch
  <1>2. CASE s = r
    BY <1>2 DEF Keeps
  <1>3. CASE s = [r EXCEPT !.branch[b].behind = FALSE, !.branch[b].work = TRUE]
    <2>1. s = [r EXCEPT !.branch = [r.branch EXCEPT ![b] = moved]]
      BY <1>1, <1>3 DEF GoodRepo, Repo, Branch
    <2>2. moved \in Branch /\ moved.work /\ moved.exists
      BY <1>1 DEF Branch
    <2> HIDE DEF moved
    <2>3. QED
      BY <2>1, <2>2, OneBranchFacts DEF Keeps, WorkAt
  <1>4. ASSUME NEW still \in BOOLEAN,
               s = [r EXCEPT !.head = b, !.branch[b].behind = still]
        PROVE  GoodRepo(s) /\ Keeps(r, s)
    <2> DEFINE q == [r EXCEPT !.head = b]
               v == rebased(still)
    <2>1. GoodRepo(q) /\ q.branch = r.branch /\ q.dirty = r.dirty
      BY DEF GoodRepo, Repo
    <2>2. s = [q EXCEPT !.branch = [q.branch EXCEPT ![b] = v]]
      BY <1>4 DEF GoodRepo, Repo
    <2>3. v \in Branch /\ v.work = c.work /\ v.exists
      BY <1>1 DEF Branch
    <2> HIDE DEF q, v
    <2>4. QED
      BY <2>1, <2>2, <2>3, OneBranchFacts DEF Keeps, WorkAt
  <1>5. QED
    BY <1>1, <1>2, <1>3, <1>4 DEF SyncBranch

\* Setting a worktree up at a free path loses nothing.
LEMMA FreshFacts ==
    ASSUME NEW r, GoodRepo(r), NEW b \in Branches, NEW o \in SetupFresh(r, b)
    PROVE  o.ok \in BOOLEAN /\ GoodRepo(o.repo) /\ Keeps(r, o.repo)
  <1>1. Keeps(r, r)
    BY DEF Keeps
  <1>3. CASE r.branch[b].exists
    <2>1. PICK q \in SyncBranch(r, b) :
             o = IF CheckedOut(q, b) THEN [ok |-> FALSE, repo |-> q]
                 ELSE [ok |-> TRUE, repo |-> [q EXCEPT !.trees = @ \cup {b}]]
      BY <1>3 DEF SetupFresh, SetupFromExistingBranch
    <2>2. GoodRepo(q) /\ Keeps(r, q)
      BY <1>3, SyncFacts
    <2> DEFINE u == [q EXCEPT !.trees = @ \cup {b}]
    <2>4. GoodRepo(u) /\ u.dirty = q.dirty /\ u.branch = q.branch
      BY <2>2 DEF GoodRepo, Repo
    <2>5. o.ok \in BOOLEAN /\ o.repo \in {q, u}
      BY <2>1
    <2> HIDE DEF u
    <2>6. QED
      BY <2>2, <2>4, <2>5 DEF Keeps, WorkAt
  <1>4. CASE ~r.branch[b].exists /\ (HeadGone(r) \/ CheckedOut(r, b))
    <2>1. o.ok = FALSE /\ o.repo = r
      BY <1>4 DEF SetupFresh, SetupNewWorktree
    <2>2. QED
      BY <1>1, <2>1
  <1>5. CASE ~r.branch[b].exists /\ ~(HeadGone(r) \/ CheckedOut(r, b))
    <2> DEFINE v == [r.branch[b] EXCEPT !.exists = TRUE, !.work = FALSE,
                                        !.ahead = FALSE, !.behind = r.branch[b].pushed]
               q == [r EXCEPT !.trees = @ \cup {b}]
    <2>1. GoodRepo(q) /\ q.branch = r.branch /\ q.dirty = r.dirty
      BY DEF GoodRepo, Repo
    <2>2. r.branch[b] \in Branch
      BY DEF GoodRepo, Repo
    <2>3. v \in Branch /\ (v.work => v.exists)
      BY <2>2 DEF Branch
    <2>4. o = [ok |-> TRUE,
               repo |-> [r EXCEPT !.trees = r.trees \cup {b},
                                  !.branch = [r.branch EXCEPT ![b] = v]]]
      BY <1>5 DEF SetupFresh, SetupNewWorktree
    <2>5. o.ok = TRUE /\ o.repo = [q EXCEPT !.branch = [q.branch EXCEPT ![b] = v]]
      BY <2>4 DEF GoodRepo, Repo
    <2> HIDE DEF v, q
    <2>6. /\ GoodRepo(o.repo) /\ o.repo.dirty = q.dirty
          /\ \A x \in Branches : x # b => o.repo.branch[x] = q.branch[x]
      BY <2>1, <2>3, <2>5, OneBranchFacts
    <2>7. ~r.branch[b].work
      BY <1>5 DEF GoodRepo
    <2>8. QED
      BY <2>1, <2>5, <2>6, <2>7 DEF Keeps, WorkAt
  <1>6. QED
    BY <1>3, <1>4, <1>5

\* At a path where an older worktree may be, it loses at most the edits in that one.
LEMMA SetupFacts ==
    ASSUME NEW r, GoodRepo(r), NEW b \in Branches, NEW o \in Setup(r, b)
    PROVE  /\ o.ok \in BOOLEAN /\ GoodRepo(o.repo)
           /\ KeepsCommits(r, o.repo, b)
  <1> DEFINE s == RemoveTree(r, b)
  <1>1. /\ GoodRepo(s) /\ s.branch = r.branch /\ s.dirty = r.dirty \ {b}
    BY RemoveTreeFacts
  <1>2. KeepsCommits(r, s, b)
    BY <1>1 DEF KeepsCommits, WorkAt
  <1>3. o \in SetupFresh(s, b)
    BY DEF Setup
  <1> HIDE DEF s
  <1>4. o.ok \in BOOLEAN /\ GoodRepo(o.repo) /\ Keeps(s, o.repo)
    BY <1>1, <1>3, FreshFacts
  <1> QED BY <1>2, <1>4 DEF KeepsCommits, Keeps

\* Removing a worktree together with its branch leaves the others alone.
LEMMA CleanupFacts ==
    ASSUME NEW r, GoodRepo(r), NEW b \in Branches
    PROVE  /\ GoodRepo(Deleted(r, b))
           /\ GoodRepo(Cleanup(r, b)) /\ KeepsOthers(r, Cleanup(r, b), b)
  <1>1. ASSUME NEW q, GoodRepo(q)
        PROVE  /\ GoodRepo(Deleted(q, b)) /\ Deleted(q, b).dirty = q.dirty
               /\ \A x \in Branches : x # b => Deleted(q, b).branch[x] = q.branch[x]
    <2> DEFINE v == [q.branch[b] EXCEPT !.exists = FALSE, !.work = FALSE,
                                        !.ahead = FALSE, !.behind = FALSE]
               s == Deleted(q, b)
    <2>1. q.branch[b] \in Branch
      BY <1>1 DEF GoodRepo, Repo
    <2>2. v \in Branch /\ (v.work => v.exists)
      BY <2>1 DEF Branch
    <2>3. s = [q EXCEPT !.branch = [q.branch EXCEPT ![b] = v]]
      BY DEF Deleted
    <2> HIDE DEF v, s
    <2>4. GoodRepo(s) /\ s.dirty = q.dirty
          /\ \A x \in Branches : x # b => s.branch[x] = q.branch[x]
      BY <1>1, <2>2, <2>3, OneBranchFacts
    <2>5. QED
      BY <2>4 DEF s
  <1>2. QED
    BY <1>1, RemoveTreeFacts DEF Cleanup, KeepsOthers, WorkAt

\* git merge leaves a repository.
LEMMA MergedFacts ==
    ASSUME NEW r, GoodRepo(r), NEW b \in Branches, ~HeadGone(r)
    PROVE  GoodRepo(Merged(r, b))
  <1> DEFINE mine(x)  == [r.branch[x] EXCEPT !.work = FALSE]
             heads(x) == [r.branch[x] EXCEPT !.work = r.branch[x].work \/ r.branch[b].work]
             new(x) == IF x = b /\ x # r.head THEN mine(x)
                       ELSE IF x = r.head THEN heads(x) ELSE r.branch[x]
             s == Merged(r, b)
  <1>1. \A x \in Branches : r.branch[x] \in Branch /\ (r.branch[x].work => r.branch[x].exists)
    BY DEF GoodRepo, Repo
  <1>2. ASSUME NEW x \in Branches
        PROVE  new(x) \in Branch /\ (new(x).work => new(x).exists)
    <2>1. mine(x) \in Branch /\ (mine(x).work => mine(x).exists)
      BY <1>1 DEF Branch
    <2>2. heads(x) \in Branch /\ (x = r.head => heads(x).exists)
      BY <1>1, GitAssumption DEF Branch, HeadGone
    <2> HIDE DEF mine, heads
    <2>3. QED
      BY <1>1, <2>1, <2>2
  <1>3. s = [r EXCEPT !.branch = [x \in Branches |-> new(x)]]
    BY DEF Merged
  <1> HIDE DEF new, s
  <1>4. s \in Repo /\ \A x \in Branches : s.branch[x] = new(x)
    BY <1>2, <1>3 DEF GoodRepo, Repo
  <1>5. GoodRepo(s)
    BY <1>2, <1>4 DEF GoodRepo
  <1>6. QED
    BY <1>5 DEF s

\* Merging the plan and starting over leave a repository.
LEMMA ConcludeFacts ==
    ASSUME NEW r, GoodRepo(r), NEW b \in Branches,
           NEW o \in MergePlanBranch(r, b) \cup ResetPlanBranch(r, b)
    PROVE  o.ok \in BOOLEAN /\ GoodRepo(o.repo)
  <1> DEFINE s == RemoveTree(r, b)
             c == s.branch[b]
             fetched == [s EXCEPT !.branch[b].exists = TRUE, !.branch[b].work = TRUE]
             local == IF c.exists THEN s ELSE fetched
             v == [c EXCEPT !.exists = TRUE, !.work = TRUE]
             w == [c EXCEPT !.exists = TRUE, !.work = FALSE,
                            !.ahead = FALSE, !.behind = r.branch[b].pushed]
             new == [s EXCEPT !.branch[b] = w]
  <1>1. GoodRepo(s) /\ c \in Branch /\ r.branch[b] \in Branch
    BY RemoveTreeFacts DEF GoodRepo, Repo
  <1>2. /\ v \in Branch /\ (v.work => v.exists)
        /\ w \in Branch /\ (w.work => w.exists)
    BY <1>1 DEF Branch
  <1>3. fetched = [s EXCEPT !.branch = [s.branch EXCEPT ![b] = v]]
    BY <1>1 DEF GoodRepo, Repo, Branch
  <1>4. new = [s EXCEPT !.branch = [s.branch EXCEPT ![b] = w]]
    OBVIOUS
  <1> DEFINE merged == Merged(local, b)
             kept == local.head = b \/ (local.branch[b].pushed /\ local.branch[b].ahead)
  <1>5. /\ MergePlanBranch(r, b) =
              IF ~c.exists /\ ~c.pushed THEN {[ok |-> FALSE, repo |-> s]}
              ELSE IF HeadGone(local) THEN {[ok |-> FALSE, repo |-> local]}
              ELSE {[ok |-> FALSE, repo |-> Edited(local, Main)],
                    [ok |-> TRUE, repo |-> IF kept THEN merged ELSE Deleted(merged, b)]}
        /\ ResetPlanBranch(r, b) =
              IF s.head = b THEN {[ok |-> FALSE, repo |-> s]}
              ELSE IF HeadGone(s) THEN {[ok |-> FALSE, repo |-> Deleted(s, b)]}
              ELSE {[ok |-> TRUE, repo |-> new]}
    BY DEF MergePlanBranch, ResetPlanBranch
  <1> HIDE DEF s, v, w, fetched, new
  <1>6. GoodRepo(fetched) /\ GoodRepo(new)
    BY <1>1, <1>2, <1>3, <1>4, OneBranchFacts
  <1>7. GoodRepo(local)
    BY <1>1, <1>6
  <1> HIDE DEF local
  <1>8. GoodRepo(Edited(local, Main)) /\ (~HeadGone(local) => GoodRepo(merged))
    BY <1>7, EditedFacts, MergedFacts
  <1> HIDE DEF merged, kept
  <1>9. GoodRepo(Deleted(s, b)) /\ (~HeadGone(local) => GoodRepo(Deleted(merged, b)))
    BY <1>1, <1>8, CleanupFacts
  <1>10. \/ o \in {[ok |-> FALSE, repo |-> s], [ok |-> FALSE, repo |-> local],
                   [ok |-> FALSE, repo |-> Edited(local, Main)],
                   [ok |-> FALSE, repo |-> Deleted(s, b)], [ok |-> TRUE, repo |-> new]}
         \/ /\ ~HeadGone(local)
            /\ o \in {[ok |-> TRUE, repo |-> merged], [ok |-> TRUE, repo |-> Deleted(merged, b)]}
    <2>1. CASE o \in MergePlanBranch(r, b)
      BY <1>5, <2>1
    <2>2. CASE o \in ResetPlanBranch(r, b)
      BY <1>5, <2>2
    <2>3. QED
      BY <2>1, <2>2
  <1>11. ASSUME NEW ok \in BOOLEAN, NEW q, GoodRepo(q), o = [ok |-> ok, repo |-> q]
         PROVE  o.ok \in BOOLEAN /\ GoodRepo(o.repo)
    BY <1>11
  <1>12. QED
    BY <1>1, <1>6, <1>7, <1>8, <1>9, <1>10, <1>11

\* So does kas reset.
LEMMA CleanupWorktreesFacts ==
    ASSUME NEW r, GoodRepo(r)
    PROVE  GoodRepo(CleanupWorktrees(r))
  <1> DEFINE new(b) == IF b \in r.trees /\ b # r.head THEN Deleted(r, b).branch[b]
                       ELSE r.branch[b]
             s == CleanupWorktrees(r)
  <1>1. ASSUME NEW b \in Branches
        PROVE  new(b) \in Branch /\ (new(b).work => new(b).exists)
    <2>1. GoodRepo(Deleted(r, b))
      BY CleanupFacts
    <2>2. QED
      BY <2>1 DEF GoodRepo, Repo
  <1>2. s = [r EXCEPT !.trees = {}, !.dirty = @ \ Branches,
                      !.branch = [b \in Branches |-> new(b)]]
    BY DEF CleanupWorktrees, GoodRepo, Repo
  <1> HIDE DEF new, s
  <1>3. s \in Repo /\ \A b \in Branches : s.branch[b] = new(b)
    BY <1>1, <1>2 DEF GoodRepo, Repo
  <1>4. GoodRepo(s)
    BY <1>1, <1>3 DEF GoodRepo
  <1>5. QED
    BY <1>4 DEF s

----------------------------------------------------------------------------
(* The instances and the state file *)

\* A planner is never queued and has no worktree, in memory or in the state file, and what
\* is not started is not in m.allInstances, and no message says that it did.
Unstarted(v) == v # NoInst /\ v.phase \in {"queued", "loading"}
GoodInst(i) ==
    /\ i \in [Titles -> Instance \cup {NoInst}]
    /\ \A t \in Planners : i[t] # NoInst => i[t].tree # "path" /\ i[t].phase # "queued"
    /\ \A t \in Titles : Unstarted(i[t]) => ~i[t].all /\ ~i[t].due
GoodStored(s) ==
    /\ s \in [Titles -> Saved \cup {Nothing}]
    /\ \A t \in Planners : s[t] # Nothing => s[t].tree # "path"

\* What was started is in the state file, with its worktree if it has one.
IsSaved(v, w) ==
    v # NoInst /\ v.phase \in {"live", "paused"} /\ v.all
    => w # Nothing /\ (w.tree = "path" <=> v.tree = "path")
AllSaved(i, s) == \A t \in Titles : IsSaved(i[t], s[t])

\* The inductive invariant.
InstInv == GoodInst(inst) /\ GoodStored(stored) /\ AllSaved(inst, stored)

\* Where the agents of each kind work.
LEMMA TitleFacts ==
    ASSUME NEW t \in Titles
    PROVE  /\ Tree(t) \in Branches /\ Dir(t) \in Branches \cup {Main}
           /\ (t \notin Planners => Dir(t) = Tree(t))
           /\ (t \in Shared => Tree(t) = Plan)
           /\ (t \in Adhoc => Tree(t) = t)
  BY SessionsAssumption DEF Tree, Dir, Titles

\* What is saved agrees with what is in memory.
LEMMA SaveFacts ==
    ASSUME NEW i, GoodInst(i)
    PROVE  GoodStored(Save(i)) /\ AllSaved(i, Save(i))
  <1> DEFINE v(t) == [paused |-> i[t].phase = "paused",
                      tree |-> IF i[t].tree = "path" THEN "path" ELSE "blank"]
             on(t) == i[t] # NoInst /\ i[t].all /\ i[t].phase \in {"live", "paused"}
  <1>1. Save(i) = [t \in Titles |-> IF on(t) THEN v(t) ELSE Nothing]
    BY DEF Save
  <1>2. ASSUME NEW t \in Titles
        PROVE  v(t) \in Saved /\ (v(t).tree = "path" <=> i[t].tree = "path")
    BY DEF Saved
  <1> HIDE DEF v
  <1>3. Save(i) \in [Titles -> Saved \cup {Nothing}]
    BY <1>1, <1>2
  <1>4. ASSUME NEW t \in Planners, Save(i)[t] # Nothing
        PROVE  Save(i)[t].tree # "path"
    BY <1>1, <1>2, <1>4 DEF GoodInst, Titles
  <1>5. ASSUME NEW t \in Titles
        PROVE  IsSaved(i[t], Save(i)[t])
    BY <1>1, <1>2, AbsentAssumption DEF IsSaved
  <1>6. QED
    BY <1>3, <1>4, <1>5 DEF GoodStored, AllSaved

\* What is restored agrees with what was saved.
LEMMA LoadFacts ==
    ASSUME NEW s, GoodStored(s)
    PROVE  GoodInst(LoadInstances(s)) /\ AllSaved(LoadInstances(s), s)
  <1> DEFINE v(t) == [phase |-> IF s[t].paused THEN "paused" ELSE "live", due |-> FALSE,
                      tree |-> s[t].tree, shared |-> FALSE, nav |-> TRUE, all |-> TRUE]
             i == LoadInstances(s)
  <1>1. ASSUME NEW t \in Titles
        PROVE  i[t] = NoInst \/ (s[t] # Nothing /\ i[t] = v(t))
    BY DEF LoadInstances, FromInstanceData
  <1>2. ASSUME NEW t \in Titles, s[t] # Nothing
        PROVE  /\ v(t) \in Instance
               /\ v(t).tree = s[t].tree /\ v(t).phase \notin {"queued", "loading"}
    BY <1>2 DEF GoodStored, Saved, Instance
  <1>3. i = [t \in Titles |-> i[t]]
    BY DEF LoadInstances, FromInstanceData
  <1> HIDE DEF v, i
  <1>4. i \in [Titles -> Instance \cup {NoInst}]
    BY <1>1, <1>2, <1>3
  <1>5. GoodInst(i)
    BY <1>1, <1>2, <1>4 DEF GoodInst, GoodStored, Titles, Unstarted
  <1>6. AllSaved(i, s)
    BY <1>1, <1>2 DEF AllSaved, IsSaved
  <1>7. QED
    BY <1>5, <1>6 DEF i

\* An instance that changes alone.
LEMMA OneInstFacts ==
    ASSUME NEW i, GoodInst(i), NEW t \in Titles,
           NEW v \in Instance \cup {NoInst},
           t \in Planners /\ v # NoInst => v.tree # "path" /\ v.phase # "queued",
           Unstarted(v) => ~v.all /\ ~v.due
    PROVE  /\ GoodInst([i EXCEPT ![t] = v])
           /\ \A s : AllSaved(i, s) /\ IsSaved(v, s[t]) => AllSaved([i EXCEPT ![t] = v], s)
  <1> DEFINE j == [i EXCEPT ![t] = v]
  <1>1. /\ j \in [Titles -> Instance \cup {NoInst}] /\ j[t] = v
        /\ \A u \in Titles : u # t => j[u] = i[u]
    BY DEF GoodInst
  <1> HIDE DEF j
  <1>2. GoodInst(j)
    BY <1>1 DEF GoodInst, Titles
  <1>3. ASSUME NEW s, AllSaved(i, s), IsSaved(v, s[t])
        PROVE  AllSaved(j, s)
    BY <1>1, <1>3 DEF AllSaved
  <1>4. QED
    BY <1>2, <1>3 DEF j

\* A step that changes one instance, and saves all or leaves the state file as it is
\* when that agrees.
LEMMA OneInstStep ==
    ASSUME InstInv, NEW t \in Titles, NEW v \in Instance \cup {NoInst},
           t \in Planners /\ v # NoInst => v.tree # "path" /\ v.phase # "queued",
           Unstarted(v) => ~v.all /\ ~v.due,
           inst' = [inst EXCEPT ![t] = v],
           \/ stored' = Save(inst')
           \/ stored' = stored /\ IsSaved(v, stored[t])
    PROVE  InstInv'
  <1>1. GoodInst(inst')
    BY OneInstFacts DEF InstInv
  <1>2. CASE stored' = Save(inst')
    BY <1>1, <1>2, SaveFacts DEF InstInv
  <1>3. CASE stored' = stored /\ IsSaved(v, stored[t])
    BY <1>1, <1>3, OneInstFacts DEF InstInv
  <1>4. QED
    BY <1>2, <1>3

\* An instance that is added is not started.
LEMMA LoadingFacts ==
    ASSUME NEW t \in Titles, NEW phase \in {"loading", "queued"},
           t \in Planners => phase = "loading"
    PROVE  /\ Loading(t, phase) \in Instance
           /\ ~Loading(t, phase).all /\ ~Loading(t, phase).due
           /\ t \in Planners => Loading(t, phase).tree # "path"
                                /\ Loading(t, phase).phase # "queued"
           /\ \A w : IsSaved(Loading(t, phase), w)
  BY DEF Loading, Instance, IsSaved

\* Every step keeps what the state file says in agreement with memory.
LEMMA InstStep ==
    ASSUME InstInv, [Next]_vars
    PROVE  InstInv'
  <1> USE AbsentAssumption
  <1>0. /\ inst \in [Titles -> Instance \cup {NoInst}]
        /\ \A w : IsSaved(NoInst, w)
    BY DEF InstInv, GoodInst, IsSaved
  <1>n. ~Unstarted(NoInst)
    BY DEF Unstarted
  <1>1. CASE UNCHANGED <<inst, stored>>
    BY <1>1 DEF InstInv
  <1>2. ASSUME NEW t \in Titles, SpawnTask(t)
        PROVE  InstInv'
    <2>1. PICK o \in Setup(repo, Plan) :
             inst' = [inst EXCEPT ![t] = IF o.ok THEN Loading(t, "loading") ELSE NoInst]
      BY <1>2 DEF SpawnTask
    <2>2. t \notin Planners /\ stored' = stored
      BY <1>2, SessionsAssumption DEF SpawnTask, Shared
    <2>3. CASE o.ok
      BY <2>1, <2>2, <2>3, LoadingFacts, OneInstStep
    <2>4. CASE ~o.ok
      BY <1>0, <1>n, <2>1, <2>2, <2>4, OneInstStep
    <2>5. QED
      BY <2>3, <2>4
  <1>3. ASSUME NEW t \in Titles, SpawnAgent(t)
        PROVE  InstInv'
    <2> DEFINE phase == IF t \in Planners THEN "loading" ELSE "queued"
    <2>1. inst' = [inst EXCEPT ![t] = Loading(t, phase)] /\ stored' = stored
      BY <1>3 DEF SpawnAgent
    <2>2. QED
      BY <2>1, LoadingFacts, OneInstStep
  <1>4. ASSUME NEW t \in Titles, SpawnAdHoc(t)
        PROVE  InstInv'
    <2>1. inst' = [inst EXCEPT ![t] = Loading(t, "queued")] /\ stored' = stored
          /\ t \notin Planners
      BY <1>4, SessionsAssumption DEF SpawnAdHoc
    <2>2. QED
      BY <2>1, LoadingFacts, OneInstStep
  <1>5. ASSUME NEW t \in Titles, SetUp(t)
        PROVE  InstInv'
    <2>1. PICK o \in IF t \in Adhoc THEN SetupFresh(repo, t) ELSE Setup(repo, Plan) :
             inst' = [inst EXCEPT ![t] = IF o.ok THEN [inst[t] EXCEPT !.phase = "loading"]
                                         ELSE NoInst]
      BY <1>5 DEF SetUp
    <2>2. inst[t] # NoInst /\ inst[t].phase = "queued" /\ stored' = stored
      BY <1>5 DEF SetUp
    <2>3. t \notin Planners
      BY <2>2 DEF InstInv, GoodInst
    <2> DEFINE v == [inst[t] EXCEPT !.phase = "loading"]
    <2>4. /\ v \in Instance /\ v.phase = "loading"
          /\ v.all = inst[t].all /\ v.due = inst[t].due
      BY <1>0, <2>2 DEF Instance
    <2>9. ~inst[t].all /\ ~inst[t].due
      BY <2>2 DEF InstInv, GoodInst, Unstarted
    <2> HIDE DEF v
    <2>5. \A w : IsSaved(v, w)
      BY <2>4 DEF IsSaved
    <2>6. CASE o.ok
      BY <2>1, <2>2, <2>3, <2>4, <2>5, <2>6, <2>9, OneInstStep DEF v
    <2>7. CASE ~o.ok
      BY <1>0, <1>n, <2>1, <2>2, <2>7, OneInstStep
    <2>8. QED
      BY <2>6, <2>7
  <1>6. ASSUME NEW t \in Titles, StartDone(t)
        PROVE  InstInv'
    <2> DEFINE v == [inst[t] EXCEPT !.due = FALSE, !.all = TRUE]
    <2>1. /\ inst[t] # NoInst /\ inst[t].phase \notin {"queued", "loading"}
          /\ inst' = [inst EXCEPT ![t] = v] /\ stored' = Save(inst')
      BY <1>6 DEF StartDone, Due, InstInv, GoodInst, Unstarted
    <2>2. v \in Instance /\ v.phase = inst[t].phase /\ v.tree = inst[t].tree
      BY <1>0, <2>1 DEF Instance
    <2> HIDE DEF v
    <2>3. QED
      BY <2>1, <2>2, OneInstStep DEF InstInv, GoodInst, Unstarted
  <1>s. ASSUME NEW t \in Titles, TmuxStarts(t)
        PROVE  InstInv'
    <2> DEFINE v == [inst[t] EXCEPT !.phase = "live", !.due = TRUE]
    <2>1. /\ inst[t] # NoInst /\ inst[t].phase = "loading"
          /\ inst' = [inst EXCEPT ![t] = v] /\ stored' = stored
      BY <1>s DEF TmuxStarts
    <2>2. /\ v \in Instance /\ v.phase = "live"
          /\ v.tree = inst[t].tree /\ v.all = inst[t].all
      BY <1>0, <2>1 DEF Instance
    <2> HIDE DEF v
    <2>3. ~inst[t].all
      BY <2>1 DEF InstInv, GoodInst, Unstarted
    <2>4. IsSaved(v, stored[t])
      BY <2>2, <2>3 DEF IsSaved
    <2>5. QED
      BY <2>1, <2>2, <2>4, OneInstStep DEF InstInv, GoodInst, Unstarted
  <1>7. ASSUME NEW t \in Titles, StartFailed(t)
        PROVE  InstInv'
    <2>1. inst' = [inst EXCEPT ![t] = NoInst] /\ stored' = stored
      BY <1>7 DEF StartFailed
    <2>2. QED
      BY <1>0, <1>n, <2>1, OneInstStep
  <1>8. ASSUME NEW t \in Titles, Pause(t)
        PROVE  InstInv'
    <2> DEFINE v == [inst[t] EXCEPT !.phase = "paused"]
    <2>1. /\ inst[t] # NoInst /\ inst[t].phase = "live"
          /\ inst' = [inst EXCEPT ![t] = v] /\ stored' \in {stored, Save(inst')}
      BY <1>8 DEF Pause, MaySave, Shown
    <2>2. /\ v \in Instance /\ v.phase = "paused"
          /\ v.tree = inst[t].tree /\ v.all = inst[t].all
      BY <1>0, <2>1 DEF Instance
    <2> HIDE DEF v
    <2>3. IsSaved(v, stored[t])
      BY <2>1, <2>2 DEF InstInv, AllSaved, IsSaved
    <2>4. QED
      BY <2>1, <2>2, <2>3, OneInstStep DEF InstInv, GoodInst, Unstarted
  <1>9. ASSUME NEW t \in Titles, Resume(t) \/ ResumeStarts(t)
        PROVE  InstInv'
    <2> DEFINE v == [inst[t] EXCEPT !.phase = "live"]
    <2>1. inst[t] # NoInst /\ inst[t].phase = "paused"
      BY <1>9 DEF Resume, ResumeStarts, Shown
    <2>2. \/ UNCHANGED <<inst, stored>>
          \/ inst' = [inst EXCEPT ![t] = v] /\ stored' \in {stored, Save(inst')}
      BY <1>9 DEF Resume, ResumeStarts, MaySave
    <2>3. /\ v \in Instance /\ v.phase = "live"
          /\ v.tree = inst[t].tree /\ v.all = inst[t].all
      BY <1>0, <2>1 DEF Instance
    <2> HIDE DEF v
    <2>4. IsSaved(v, stored[t])
      BY <2>1, <2>3 DEF InstInv, AllSaved, IsSaved
    <2>5. QED
      BY <1>1, <2>1, <2>2, <2>3, <2>4, OneInstStep DEF InstInv, GoodInst, Unstarted
  <1>10. ASSUME NEW t \in Titles, KillInstance(t) \/ Dismiss(t)
         PROVE  InstInv'
    <2> DEFINE v == Unlisted(inst[t])
    <2>1. /\ inst[t] # NoInst /\ stored' = Save(inst')
          /\ inst' = [inst EXCEPT ![t] = NoInst] \/ inst' = [inst EXCEPT ![t] = v]
      BY <1>10 DEF KillInstance, Dismiss, Shown
    <2>2. /\ v \in Instance /\ ~v.all
          /\ v.tree = inst[t].tree /\ v.phase = inst[t].phase /\ v.due = inst[t].due
      BY <1>0, <2>1 DEF Instance, Unlisted
    <2> HIDE DEF v
    <2>3. CASE inst' = [inst EXCEPT ![t] = NoInst]
      BY <1>n, <2>1, <2>3, OneInstStep
    <2>4. CASE inst' = [inst EXCEPT ![t] = v]
      BY <2>1, <2>2, <2>4, OneInstStep DEF InstInv, GoodInst, Unstarted
    <2>5. QED
      BY <2>1, <2>3, <2>4
  <1>12. ASSUME NEW t \in Titles, Adopt(t)
         PROVE  InstInv'
    <2> DEFINE v == [phase |-> "live", due |-> FALSE, tree |-> "none", shared |-> FALSE,
                     nav |-> TRUE, all |-> TRUE]
    <2>1. /\ t \notin Planners /\ stored' = Save(inst')
          /\ inst' = [inst EXCEPT ![t] = v]
      BY <1>12 DEF Adopt
    <2>2. v \in Instance /\ ~Unstarted(v)
      BY DEF Instance, Unstarted
    <2> HIDE DEF v
    <2>3. QED
      BY <2>1, <2>2, OneInstStep
  <1>13. ASSUME MergePlan \/ StartOver
         PROVE  InstInv'
    <2>1. inst' = Killed(PlanAgents) /\ stored' \in {stored, Save(inst')}
      BY <1>13 DEF MergePlan, StartOver, Concludes
    <2> DEFINE v(t) == [inst[t] EXCEPT !.all = FALSE]
    <2>2. \A t \in PlanAgents : t \in Titles /\ inst[t] # NoInst
      BY DEF PlanAgents
    <2>3. \A t \in PlanAgents : /\ v(t) \in Instance /\ ~v(t).all
                                /\ v(t).tree = inst[t].tree /\ v(t).phase = inst[t].phase
                                /\ v(t).due = inst[t].due
      BY <1>0, <2>2 DEF Instance
    <2>4. inst' = [t \in Titles |-> IF t \in PlanAgents THEN v(t) ELSE inst[t]]
      BY <2>1 DEF Killed
    <2> HIDE DEF v
    <2>5. inst' \in [Titles -> Instance \cup {NoInst}]
      BY <1>0, <2>3, <2>4
    <2>6. GoodInst(inst')
      BY <2>2, <2>3, <2>4, <2>5 DEF InstInv, GoodInst, Titles, Unstarted
    <2>7. AllSaved(inst', stored)
      BY <2>3, <2>4 DEF InstInv, AllSaved, IsSaved
    <2>8. QED
      BY <2>1, <2>6, <2>7, SaveFacts DEF InstInv
  <1>14. ASSUME Quit \/ Crash
         PROVE  InstInv'
    <2>1. stored' \in {stored, Save(inst)} /\ inst' = LoadInstances(stored')
      BY <1>14 DEF Quit, Crash
    <2>2. GoodStored(stored')
      BY <2>1, SaveFacts DEF InstInv
    <2>3. QED
      BY <2>1, <2>2, LoadFacts DEF InstInv
  <1>15. ASSUME Reset
         PROVE  InstInv'
    <2>1. /\ inst' = [t \in Titles |-> NoInst]
          /\ stored' = [t \in Titles |-> Nothing]
      BY <1>15 DEF Reset
    <2>2. QED
      BY <2>1 DEF InstInv, GoodInst, GoodStored, AllSaved, IsSaved, Titles, Unstarted
  <1>16. ASSUME NEW t \in Titles,
                \/ AgentEdits(t) \/ AgentCommits(t) \/ AgentPushes(t)
                \/ SessionEnds(t) \/ ResumeFails(t)
         PROVE  InstInv'
    BY <1>1, <1>16 DEF AgentEdits, AgentCommits, AgentPushes, SessionEnds, ResumeFails
  <1>17. ASSUME UserWorks \/ \E b \in Branches : OthersPush(b)
         PROVE  InstInv'
    BY <1>1, <1>17 DEF UserWorks, OthersPush
  <1>18. CASE UNCHANGED vars
    BY <1>1, <1>18 DEF vars
  <1>19. QED
    BY <1>2, <1>3, <1>4, <1>5, <1>6, <1>s, <1>7, <1>8, <1>9, <1>10, <1>12,
       <1>13, <1>14, <1>15, <1>16, <1>17, <1>18 DEF Next

----------------------------------------------------------------------------
(* The repository *)

RepoInv == GoodRepo(repo)

\* Killing instances loses no work but that of the branches they clean up.
LEMMA KillFacts ==
    ASSUME RepoInv, NEW S \in SUBSET Titles
    PROVE  /\ GoodRepo(KillRepo(S))
           /\ \A b \in Branches :
                 WorkAt(repo, b) /\ ~WorkAt(KillRepo(S), b)
                 => \E t \in S : Cleans(inst[t]) /\ Tree(t) = b
  <1> DEFINE cleaned == {Tree(t) : t \in {u \in S : Cleans(inst[u])}}
  <1>1. cleaned \subseteq Branches
    BY TitleFacts
  <1>2. CASE \A b \in Branches : b \notin cleaned
    <2>1. KillRepo(S) = repo
      BY <1>2 DEF KillRepo
    <2>2. QED
      BY <2>1 DEF RepoInv
  <1>3. CASE \E b \in Branches : b \in cleaned
    <2> DEFINE b == CHOOSE x \in cleaned : TRUE
    <2>1. KillRepo(S) = Cleanup(repo, b)
      BY <1>3 DEF KillRepo
    <2>2. b \in cleaned /\ b \in Branches
      BY <1>1, <1>3
    <2>3. PICK t \in S : Cleans(inst[t]) /\ Tree(t) = b
      BY <2>2
    <2> HIDE DEF b, cleaned
    <2>4. GoodRepo(Cleanup(repo, b)) /\ KeepsOthers(repo, Cleanup(repo, b), b)
      BY <2>2, CleanupFacts DEF RepoInv
    <2>5. QED
      BY <2>1, <2>3, <2>4 DEF KeepsOthers
  <1>4. QED
    BY <1>2, <1>3

\* A step of t that sets its worktree up.
LEMMA SetupStep ==
    ASSUME RepoInv, NEW t \in Titles, t \notin Planners,
           NEW o \in Setup(repo, Tree(t)), repo' = o.repo
    PROVE  /\ RepoInv'
           /\ \A b \in Branches : WorkAt(repo, b) /\ ~WorkAt(repo', b)
                                  => b = Dir(t) /\ ~repo.branch[b].work
  BY SetupFacts, TitleFacts DEF RepoInv, KeepsCommits

\* What was used of the bounds.
UsedInv ==
    /\ used \in [DOMAIN Limit -> Nat]
    /\ \A b \in DOMAIN Limit : used[b] <= Limit[b]

\* The bounds are natural numbers.
LEMMA LimitFacts ==
    /\ DOMAIN Limit = {"spawns", "acts", "work", "faults", "restarts"}
    /\ \A b \in DOMAIN Limit : Limit[b] \in Nat
  BY SessionsAssumption DEF Limit

\* What is affordable stays within its bound.
LEMMA SpendFacts ==
    ASSUME UsedInv, NEW b \in DOMAIN Limit, Affordable(b), used' = Spend(b)
    PROVE  UsedInv' /\ used'[b] # used[b]
  <1>1. Limit[b] \in Nat /\ used[b] \in Nat /\ used[b] < Limit[b]
    BY LimitFacts DEF UsedInv, Affordable
  <1>2. used' = [used EXCEPT ![b] = used[b] + 1]
    BY DEF Spend
  <1> HIDE DEF Limit
  <1>3. QED
    BY <1>1, <1>2 DEF UsedInv

\* What the property says of a step.
Excused(b) ==
    \/ MergePlan \/ StartOver \/ Reset
    \/ b \in Adhoc /\ KillInstance(b)
    \/ ~repo.branch[b].work /\ SetsUp(b)
    \/ used'.faults # used.faults
    \/ \E t \in Shared : Disowned(t) /\ (KillInstance(t) \/ SpawnAgent(t))
WorkKept ==
    \A b \in Branches : WorkAt(repo, b) /\ ~WorkAt(repo', b) => Excused(b)

\* A step that keeps everything needs no excuse.
LEMMA KeepsStep ==
    ASSUME RepoInv, GoodRepo(repo'), Keeps(repo, repo')
    PROVE  RepoInv' /\ WorkKept
  BY DEF RepoInv, Keeps, WorkKept

\* Every step leaves a repository and loses work in the listed ways only.
LEMMA RepoStep ==
    ASSUME RepoInv, InstInv, UsedInv, [Next]_vars
    PROVE  RepoInv' /\ WorkKept
  <1>1. CASE UNCHANGED repo
    BY <1>1 DEF RepoInv, WorkKept
  <1>2. ASSUME NEW t \in Titles, SpawnTask(t)
        PROVE  RepoInv' /\ WorkKept
    <2>1. t \notin Planners /\ Tree(t) = Plan
      BY <1>2, SessionsAssumption, TitleFacts DEF SpawnTask, Shared
    <2>2. PICK o \in Setup(repo, Tree(t)) : repo' = o.repo
      BY <1>2, <2>1 DEF SpawnTask
    <2>3. QED
      BY <1>2, <2>1, <2>2, SetupStep DEF WorkKept, Excused, SetsUp
  <1>3. ASSUME NEW t \in Titles, SpawnAgent(t)
        PROVE  RepoInv' /\ WorkKept
    <2> DEFINE K == {u \in {t} : Started(u)}
    <2>1. repo' = KillRepo(K) /\ t \in Reviewers \cup Planners
      BY <1>3 DEF SpawnAgent
    <2>2. /\ GoodRepo(repo')
          /\ \A b \in Branches : WorkAt(repo, b) /\ ~WorkAt(repo', b)
                                 => t \in K /\ Cleans(inst[t])
      BY <2>1, KillFacts
    <2>3. t \in K /\ Cleans(inst[t]) => t \in Shared /\ Disowned(t)
      BY <2>1 DEF InstInv, GoodInst, Cleans, Started, Disowned, Shared
    <2>4. QED
      BY <1>3, <2>2, <2>3 DEF RepoInv, WorkKept, Excused
  <1>4. ASSUME NEW t \in Titles, SetUp(t)
        PROVE  RepoInv' /\ WorkKept
    <2>1. t \notin Planners
      BY <1>4 DEF SetUp, InstInv, GoodInst
    <2>2. PICK o \in IF t \in Adhoc THEN SetupFresh(repo, t) ELSE Setup(repo, Plan) :
             repo' = o.repo
      BY <1>4 DEF SetUp
    <2>3. CASE t \in Adhoc
      <3>1. t \in Branches
        BY <2>3, SessionsAssumption
      <3>2. GoodRepo(repo') /\ Keeps(repo, repo')
        BY <2>2, <2>3, <3>1, FreshFacts DEF RepoInv
      <3> QED BY <3>2, KeepsStep
    <2>4. CASE t \notin Adhoc
      <3>1. Tree(t) = Plan
        BY <2>4 DEF Tree
      <3> QED BY <1>4, <2>1, <2>2, <2>4, <3>1, SetupStep DEF WorkKept, Excused, SetsUp
    <2>5. QED
      BY <2>3, <2>4
  <1>5. ASSUME NEW t \in Titles, Resume(t) \/ ResumeStarts(t)
        PROVE  RepoInv' /\ WorkKept
    <2>1. t \notin Planners
      BY <1>5 DEF Resume, ResumeStarts, Shown, InstInv, GoodInst
    <2>2. PICK o \in Setup(repo, Tree(t)) : repo' = o.repo
      BY <1>5 DEF Resume, ResumeStarts
    <2>3. QED
      BY <1>5, <2>1, <2>2, SetupStep DEF WorkKept, Excused, SetsUp
  <1>6. ASSUME NEW t \in Titles, StartFailed(t)
        PROVE  RepoInv' /\ WorkKept
    <2>1. used'["faults"] # used["faults"]
      BY <1>6, LimitFacts, SpendFacts DEF StartFailed
    <2>2. repo' = repo \/ (t \in Branches /\ repo' = Cleanup(repo, t))
      BY <1>6, SessionsAssumption DEF StartFailed
    <2>3. QED
      BY <2>1, <2>2, CleanupFacts DEF RepoInv, WorkKept, Excused
  <1>7. ASSUME NEW t \in Titles, ResumeFails(t)
        PROVE  RepoInv' /\ WorkKept
    <2>1. used'["faults"] # used["faults"]
      BY <1>7, LimitFacts, SpendFacts DEF ResumeFails
    <2>2. PICK o \in Setup(repo, Tree(t)) : repo' = Cleanup(o.repo, Tree(t))
      BY <1>7 DEF ResumeFails
    <2>3. GoodRepo(repo')
      BY <2>2, TitleFacts, SetupFacts, CleanupFacts DEF RepoInv
    <2>4. QED
      BY <2>1, <2>3 DEF RepoInv, WorkKept, Excused
  <1>8. ASSUME NEW t \in Titles, AgentEdits(t) \/ AgentCommits(t) \/ AgentPushes(t)
        PROVE  RepoInv' /\ WorkKept
    <2>1. CASE AgentEdits(t)
      BY <2>1, TitleFacts, EditedFacts, KeepsStep DEF AgentEdits, RepoInv
    <2>2. CASE AgentCommits(t)
      BY <2>2, TitleFacts, CommitFacts, KeepsStep DEF AgentCommits, RepoInv
    <2>3. CASE AgentPushes(t)
      <3> DEFINE q == CommitChanges(repo, Dir(t))
      <3>1. Dir(t) \in Branches
            /\ (repo' = Pushed(repo, Dir(t)) \/ repo' = Pushed(q, Dir(t)))
        BY <2>3 DEF AgentPushes
      <3>2. GoodRepo(q) /\ Keeps(repo, q)
        BY <3>1, CommitFacts DEF RepoInv
      <3> HIDE DEF q
      <3>3. GoodRepo(Pushed(q, Dir(t))) /\ Keeps(q, Pushed(q, Dir(t)))
        BY <3>1, <3>2, PushFacts
      <3>4. Keeps(repo, Pushed(q, Dir(t)))
        BY <3>2, <3>3 DEF Keeps
      <3>5. QED
        BY <3>1, <3>3, <3>4, PushFacts, KeepsStep DEF RepoInv
    <2>4. QED
      BY <1>8, <2>1, <2>2, <2>3
  <1>9. ASSUME NEW b \in Branches, OthersPush(b)
        PROVE  RepoInv' /\ WorkKept
    BY <1>9, PushFacts, KeepsStep DEF OthersPush, RepoInv
  <1>10. ASSUME UserWorks
         PROVE  RepoInv' /\ WorkKept
    <2>1. CASE repo' = Edited(repo, Main)
      BY <2>1, EditedFacts, KeepsStep DEF RepoInv
    <2>2. CASE repo' = CommitChanges(repo, Main)
      BY <2>2, CommitFacts, KeepsStep DEF RepoInv
    <2>3. CASE repo' = [repo EXCEPT !.head = Main]
      <3>1. GoodRepo(repo') /\ Keeps(repo, repo')
        BY <2>3 DEF RepoInv, GoodRepo, Repo, Keeps, WorkAt
      <3>2. QED
        BY <3>1, KeepsStep
    <2>4. QED
      BY <1>10, <2>1, <2>2, <2>3 DEF UserWorks
  <1>11. ASSUME NEW t \in Titles, Pause(t)
         PROVE  RepoInv' /\ WorkKept
    <2> DEFINE q == CommitChanges(repo, Tree(t))
               m == CommitChanges(repo, Main)
    <2>1. repo' = RemoveTree(q, Tree(t)) \/ repo' = m \/ repo' = repo
      BY <1>11 DEF Pause
    <2>2. /\ GoodRepo(q) /\ Keeps(repo, q) /\ GoodRepo(m) /\ Keeps(repo, m)
          /\ WorkAt(repo, Tree(t)) => q.branch[Tree(t)].work
      BY TitleFacts, CommitFacts DEF RepoInv
    <2> HIDE DEF q, m
    <2>3. /\ GoodRepo(RemoveTree(q, Tree(t)))
          /\ Keeps(repo, RemoveTree(q, Tree(t)))
      BY <2>2, TitleFacts, RemoveTreeFacts DEF Keeps, WorkAt
    <2>4. QED
      BY <1>1, <2>1, <2>2, <2>3, KeepsStep
  <1>12. ASSUME NEW t \in Titles, KillInstance(t)
         PROVE  RepoInv' /\ WorkKept
    <2>1. repo' = KillRepo({t})
      BY <1>12 DEF KillInstance
    <2>2. /\ GoodRepo(repo')
          /\ \A b \in Branches : WorkAt(repo, b) /\ ~WorkAt(repo', b)
                                 => Cleans(inst[t]) /\ Tree(t) = b
      BY <2>1, KillFacts
    <2>3. Cleans(inst[t]) => t \in Adhoc \/ (t \in Shared /\ Disowned(t))
      BY <1>12 DEF KillInstance, Shown, InstInv, GoodInst, Cleans, Disowned, Titles
    <2>4. t \in Adhoc => Tree(t) = t
      BY TitleFacts
    <2>5. QED
      BY <1>12, <2>2, <2>3, <2>4 DEF RepoInv, WorkKept, Excused
  <1>13. ASSUME MergePlan \/ StartOver
         PROVE  RepoInv' /\ WorkKept
    <2>1. PICK o \in MergePlanBranch(KillRepo(PlanAgents), Plan)
                     \cup ResetPlanBranch(KillRepo(PlanAgents), Plan) : repo' = o.repo
      BY <1>13 DEF MergePlan, StartOver, Concludes
    <2>2. GoodRepo(KillRepo(PlanAgents)) /\ Plan \in Branches
      BY KillFacts, SessionsAssumption DEF PlanAgents
    <2>3. GoodRepo(repo')
      BY <2>1, <2>2, ConcludeFacts
    <2>4. QED
      BY <1>13, <2>3 DEF RepoInv, WorkKept, Excused
  <1>14. ASSUME Reset
         PROVE  RepoInv' /\ WorkKept
    <2>1. GoodRepo(repo')
      BY <1>14, CleanupWorktreesFacts DEF Reset, RepoInv
    <2>2. QED
      BY <1>14, <2>1 DEF RepoInv, WorkKept, Excused
  <1>15. ASSUME NEW t \in Titles,
                \/ SpawnAdHoc(t) \/ TmuxStarts(t) \/ StartDone(t)
                \/ SessionEnds(t) \/ Dismiss(t) \/ Adopt(t)
         PROVE  RepoInv' /\ WorkKept
    BY <1>1, <1>15 DEF SpawnAdHoc, TmuxStarts, StartDone, SessionEnds, Dismiss, Adopt
  <1>16. ASSUME Quit \/ Crash \/ UNCHANGED vars
         PROVE  RepoInv' /\ WorkKept
    BY <1>1, <1>16 DEF Quit, Crash, vars
  <1>17. QED
    BY <1>2, <1>3, <1>4, <1>5, <1>6, <1>7, <1>8, <1>9, <1>10, <1>11, <1>12,
       <1>13, <1>14, <1>15, <1>16 DEF Next

----------------------------------------------------------------------------
(* The sessions and the bounds *)

\* Every step stays within the bounds.
LEMMA UsedStep ==
    ASSUME UsedInv, [Next]_vars
    PROVE  UsedInv'
  <1>1. CASE UNCHANGED used
    BY <1>1 DEF UsedInv
  <1>2. ASSUME NEW b \in DOMAIN Limit, Affordable(b), used' = Spend(b)
        PROVE  UsedInv'
    BY <1>2, SpendFacts
  <1>3. ASSUME NEW t \in Titles,
               SpawnTask(t) \/ SpawnAgent(t) \/ SpawnAdHoc(t)
        PROVE  UsedInv'
    BY <1>2, <1>3, LimitFacts DEF SpawnTask, SpawnAgent, SpawnAdHoc, Spawns
  <1>4. ASSUME NEW t \in Titles, StartFailed(t) \/ ResumeFails(t)
        PROVE  UsedInv'
    BY <1>2, <1>4, LimitFacts DEF StartFailed, ResumeFails
  <1>5. ASSUME NEW t \in Titles, AgentEdits(t) \/ AgentPushes(t)
        PROVE  UsedInv'
    BY <1>2, <1>5, LimitFacts DEF AgentEdits, AgentPushes, Works
  <1>6. ASSUME UserWorks \/ \E b \in Branches : OthersPush(b)
        PROVE  UsedInv'
    BY <1>1, <1>2, <1>6, LimitFacts DEF UserWorks, OthersPush, Works
  <1>7. ASSUME NEW t \in Titles,
               \/ Pause(t) \/ Resume(t) \/ ResumeStarts(t)
               \/ KillInstance(t) \/ Dismiss(t) \/ Adopt(t)
        PROVE  UsedInv'
    BY <1>2, <1>7, LimitFacts
       DEF Pause, Resume, ResumeStarts, KillInstance, Dismiss, Adopt, Acts
  <1>8. ASSUME MergePlan \/ StartOver
        PROVE  UsedInv'
    BY <1>2, <1>8, LimitFacts DEF MergePlan, StartOver, Concludes, Acts
  <1>9. ASSUME Quit \/ Crash \/ Reset
        PROVE  UsedInv'
    BY <1>2, <1>9, LimitFacts DEF Quit, Crash, Reset, Restarts
  <1>10. ASSUME NEW t \in Titles,
                \/ SetUp(t) \/ TmuxStarts(t) \/ StartDone(t)
                \/ AgentCommits(t) \/ SessionEnds(t)
         PROVE  UsedInv'
    BY <1>1, <1>10 DEF SetUp, TmuxStarts, StartDone, AgentCommits, SessionEnds
  <1>11. CASE UNCHANGED vars
    BY <1>1, <1>11 DEF vars
  <1>12. QED
    BY <1>3, <1>4, <1>5, <1>6, <1>7, <1>8, <1>9, <1>10, <1>11 DEF Next

SessInv == sess \in [Titles -> Session]

\* Closing, disturbing and starting sessions yield sessions.
LEMMA SessFacts ==
    ASSUME SessInv
    PROVE  /\ \A S : Closed(S) \in [Titles -> Session] /\ KillSess(S) \in [Titles -> Session]
           /\ \A s, b : s \in [Titles -> Session] => Disturbed(s, b) \in [Titles -> Session]
           /\ \A t \in Titles : TmuxStart(t) \in [Titles -> Session]
  <1>1. \A S : Closed(S) \in [Titles -> Session]
    BY DEF Closed, SessInv, Session
  <1>2. \A s, b : s \in [Titles -> Session] => Disturbed(s, b) \in [Titles -> Session]
    BY DEF Disturbed, Session
  <1>3. \A t \in Titles : TmuxStart(t) \in [Titles -> Session]
    BY DEF TmuxStart, SessInv, Session
  <1>4. ASSUME NEW S
        PROVE  KillSess(S) \in [Titles -> Session]
    <2> DEFINE c == Closed({t \in S : Started(t)})
    <2>1. /\ c \in [Titles -> Session]
          /\ \A t \in Titles : Disturbed(c, Dir(t)) \in [Titles -> Session]
      BY <1>1, <1>2
    <2>2. KillSess(S) = [t \in Titles |->
             IF Dir(t) \in {Tree(u) : u \in {v \in S : Cleans(inst[v])}}
             THEN Disturbed(c, Dir(t))[t] ELSE c[t]]
      BY DEF KillSess
    <2> HIDE DEF c
    <2>3. QED
      BY <2>1, <2>2
  <1>5. QED
    BY <1>1, <1>2, <1>3, <1>4

\* Every step keeps the type of the sessions.
LEMMA SessStep ==
    ASSUME SessInv, [Next]_vars
    PROVE  SessInv'
  <1>1. CASE UNCHANGED sess
    BY <1>1 DEF SessInv
  <1>2. ASSUME NEW t \in Titles,
               \/ SpawnTask(t) \/ SetUp(t) \/ Resume(t) \/ ResumeFails(t)
               \/ Pause(t) \/ TmuxStarts(t)
        PROVE  SessInv'
    BY <1>2, SessFacts DEF SpawnTask, SetUp, Resume, ResumeFails, Pause, TmuxStarts, SessInv
  <1>3. ASSUME NEW t \in Titles, SpawnAgent(t) \/ SessionEnds(t) \/ KillInstance(t)
        PROVE  SessInv'
    BY <1>3, SessFacts DEF SpawnAgent, SessionEnds, KillInstance, SessInv
  <1>4. ASSUME NEW t \in Titles, ResumeStarts(t)
        PROVE  SessInv'
    <2>1. sess' = [Disturbed(sess, Tree(t)) EXCEPT ![t] = "working"]
      BY <1>4 DEF ResumeStarts
    <2>2. Disturbed(sess, Tree(t)) \in [Titles -> Session] /\ "working" \in Session
      BY SessFacts DEF SessInv, Session
    <2>3. QED
      BY <2>1, <2>2 DEF SessInv
  <1>5. ASSUME MergePlan \/ StartOver
        PROVE  SessInv'
    <2> DEFINE s == KillSess(PlanAgents)
    <2>1. sess' = [t \in Titles |-> IF t \in Shared THEN Disturbed(s, Plan)[t] ELSE s[t]]
      BY <1>5 DEF MergePlan, StartOver, Concludes
    <2>2. s \in [Titles -> Session] /\ Disturbed(s, Plan) \in [Titles -> Session]
      BY SessFacts
    <2> HIDE DEF s
    <2>3. QED
      BY <2>1, <2>2 DEF SessInv
  <1>6. ASSUME Reset
        PROVE  SessInv'
    BY <1>6 DEF Reset, CleanupSessions, SessInv, Session
  <1>7. ASSUME NEW t \in Titles,
               \/ SpawnAdHoc(t) \/ StartFailed(t) \/ AgentEdits(t) \/ AgentCommits(t)
               \/ AgentPushes(t) \/ StartDone(t) \/ Dismiss(t) \/ Adopt(t)
        PROVE  SessInv'
    BY <1>1, <1>7 DEF SpawnAdHoc, StartFailed, AgentEdits, AgentCommits, AgentPushes,
                      StartDone, Dismiss, Adopt
  <1>8. ASSUME UserWorks \/ Quit \/ Crash \/ \E b \in Branches : OthersPush(b)
        PROVE  SessInv'
    BY <1>1, <1>8 DEF UserWorks, Quit, Crash, OthersPush
  <1>9. CASE UNCHANGED vars
    BY <1>1, <1>9 DEF vars
  <1>10. QED
    BY <1>2, <1>3, <1>4, <1>5, <1>6, <1>7, <1>8, <1>9 DEF Next

----------------------------------------------------------------------------
(* The theorems *)

IInv == RepoInv /\ InstInv /\ UsedInv /\ SessInv

\* The initial states satisfy the invariant.
LEMMA InitIInv == Init => IInv
  <1> SUFFICES ASSUME Init PROVE IInv
    OBVIOUS
  <1>1. GoodRepo(repo)
    <2>1. PICK there \in SUBSET Adhoc :
             repo = [trees |-> {}, dirty |-> {}, head |-> Main,
                     branch |-> [b \in Branches |->
                         [exists |-> b = Plan \/ b \in there, work |-> b \in there,
                          pushed |-> FALSE, ahead |-> FALSE, behind |-> FALSE]]]
      BY DEF Init
    <2> DEFINE v(b) == [exists |-> b = Plan \/ b \in there, work |-> b \in there,
                        pushed |-> FALSE, ahead |-> FALSE, behind |-> FALSE]
    <2>2. \A b \in Branches : v(b) \in Branch
      BY DEF Branch
    <2>3. \A b \in Branches : v(b).work => v(b).exists
      OBVIOUS
    <2>4. repo = [trees |-> {}, dirty |-> {}, head |-> Main,
                  branch |-> [b \in Branches |-> v(b)]]
      BY <2>1
    <2> HIDE DEF v
    <2>5. QED
      BY <2>2, <2>3, <2>4 DEF GoodRepo, Repo
  <1>2. InstInv
    BY DEF Init, InstInv, GoodInst, GoodStored, AllSaved, IsSaved, Titles, Unstarted
  <1>3. UsedInv
    BY LimitFacts DEF Init, UsedInv
  <1>4. SessInv
    BY DEF Init, SessInv, Session
  <1>5. QED
    BY <1>1, <1>2, <1>3, <1>4 DEF IInv, RepoInv

\* The inductive invariant: a branch with work exists, no planner has a worktree, the
\* state file has the instances that were started and agrees on their worktrees.
THEOREM IInvInvariant == Spec => []IInv
  <1>1. IInv /\ [Next]_vars => IInv'
    BY RepoStep, InstStep, UsedStep, SessStep DEF IInv
  <1>2. QED
    BY InitIInv, <1>1, PTL DEF Spec

\* Repository, instances, state file and sessions keep their types.
THEOREM TypeCorrect == Spec => []TypeOK
  <1>1. IInv => TypeOK
    BY DEF IInv, RepoInv, InstInv, UsedInv, SessInv, GoodRepo, GoodInst, GoodStored, TypeOK
  <1>2. QED
    BY IInvInvariant, <1>1, PTL

\* No step of kasmos, its agents or its user loses unmerged work but in the ways that
\* WorkIsKept lists.
THEOREM WorkIsKeptTheorem == Spec => WorkIsKept
  <1>1. IInv /\ [Next]_vars => WorkKept
    BY RepoStep DEF IInv
  <1>2. WorkIsKept <=> [][WorkKept]_vars
    BY DEF WorkIsKept, WorkKept, Excused
  <1>3. QED
    BY IInvInvariant, <1>1, <1>2, PTL DEF Spec

\* A crash makes kasmos forget no live agent whose worktree is there.
THEOREM CrashForgetsNoLiveAgentTheorem == Spec => CrashForgetsNoLiveAgent
  <1> DEFINE Remembered ==
        Crash => \A t \in Titles :
                    inst[t] # NoInst /\ inst[t].phase = "live" /\ inst[t].all
                    /\ (inst[t].tree = "path" => Tree(t) \in repo.trees)
                    => inst'[t] # NoInst
  <1>1. ASSUME IInv, Crash, NEW t \in Titles,
               inst[t] # NoInst, inst[t].phase = "live", inst[t].all,
               inst[t].tree = "path" => Tree(t) \in repo.trees
        PROVE  inst'[t] # NoInst
    <2> DEFINE s == stored[t]
               v == [phase |-> IF s.paused THEN "paused" ELSE "live", due |-> FALSE,
                     tree |-> s.tree, shared |-> FALSE, nav |-> TRUE, all |-> TRUE]
    <2>1. s # Nothing /\ (s.tree = "path" <=> inst[t].tree = "path")
      BY <1>1 DEF IInv, InstInv, AllSaved, IsSaved
    <2>2. inst'[t] = v
      BY <1>1, <2>1 DEF Crash, LoadInstances, FromInstanceData
    <2>3. s \in Saved
      BY <1>1, <2>1 DEF IInv, InstInv, GoodStored
    <2>4. v \in Instance
      BY <2>3 DEF Saved, Instance
    <2>5. QED
      BY <2>2, <2>4, AbsentAssumption
  <1>2. IInv => Remembered
    BY <1>1
  <1>3. QED
    BY IInvInvariant, <1>2, PTL DEF Spec, CrashForgetsNoLiveAgent, Remembered
=============================================================================
