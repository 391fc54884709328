----------------------------- MODULE GitWorktrees -----------------------------
(***************************************************************************)
(* What kasmos does with git: the worktrees of the agents, their branches,  *)
(* and the main checkout (session/git).  A repository is a record, an      *)
(* operation yields the repositories it may lead to.                       *)
(*                                                                         *)
(* A worktree and its branch share a name, the instance's for an ad-hoc    *)
(* agent and the plan's for the worktree its agents share.  git itself is  *)
(* modelled from its documented behaviour; files are not, only whether     *)
(* there is work that only one place holds.                                *)
(***************************************************************************)
EXTENDS FiniteSets

CONSTANTS Branches,  \* the agents' branches, which also name their worktrees
          Main       \* the main checkout's own branch, and the checkout itself

ASSUME GitAssumption == Main \notin Branches

\* work: it has commits of an agent that are not merged; pushed: origin has the
\* branch; ahead, behind: it has commits that origin lacks, origin has others.
Branch == [exists : BOOLEAN, work : BOOLEAN, pushed : BOOLEAN,
           ahead : BOOLEAN, behind : BOOLEAN]

\* trees: the worktrees there are; dirty: those with uncommitted work, and Main when
\* the main checkout has changes of tracked files; head: what the main checkout is on.
Repo == [trees  : SUBSET Branches,
         dirty  : SUBSET (Branches \cup {Main}),
         head   : Branches \cup {Main},
         branch : [Branches -> Branch]]

CheckedOut(r, b) == r.head = b \/ b \in r.trees

\* The branch that the main checkout is on was deleted under it: HEAD names no commit.
HeadGone(r) == r.head # Main /\ ~r.branch[r.head].exists

\* git worktree remove -f, whatever the worktree holds.
RemoveTree(r, b) == [r EXCEPT !.trees = @ \ {b}, !.dirty = @ \ {b}]

\* An agent's edits in a checkout, and its or kasmos' commit of them, which makes a
\* branch that was deleted under the checkout exist again.
Edited(r, c) == [r EXCEPT !.dirty = @ \cup {c}]
CommitChanges(r, c) ==
    LET b == IF c = Main THEN r.head ELSE c IN
    IF c \notin r.dirty THEN r
    ELSE IF b = Main THEN [r EXCEPT !.dirty = @ \ {c}]
    ELSE [r EXCEPT !.dirty = @ \ {c},
                   !.branch[b] = [@ EXCEPT !.exists = TRUE, !.work = TRUE,
                                           !.ahead = r.branch[b].pushed]]

\* A push is refused when origin has commits that the branch lacks.
CanPush(r, b) == b \in r.trees /\ ~r.branch[b].behind
Pushed(r, b)  == [r EXCEPT !.branch[b].pushed = TRUE, !.branch[b].ahead = FALSE]

\* syncBranchWithRemote.  A branch that origin is ahead of is moved, unless the fetch
\* failed.  Any other that differs is rebased where git runs, in the main checkout:
\* git rebase switches it to the branch first and stays there, also when the rebase is
\* aborted; it refuses when that checkout is not clean, as it is not without a HEAD.
SyncBranch(r, b) ==
    LET c == r.branch[b] IN
    CASE ~c.pushed \/ ~(c.ahead \/ c.behind) -> {r}
      [] c.pushed /\ c.behind /\ ~c.ahead ->
             IF CheckedOut(r, b) THEN {r}
             ELSE {r, [r EXCEPT !.branch[b].behind = FALSE, !.branch[b].work = TRUE]}
      [] OTHER ->
             IF Main \in r.dirty \/ HeadGone(r) \/ b \in r.trees THEN {r}
             ELSE {[r EXCEPT !.head = b, !.branch[b].behind = still] :
                      still \in {FALSE, c.behind}}

\* GitWorktree.Setup once its path is free: adding the worktree fails when the branch is
\* checked out, and a new branch when there is no HEAD to take it from.
SetupFromExistingBranch(r, b) ==
    {IF CheckedOut(s, b) THEN [ok |-> FALSE, repo |-> s]
     ELSE [ok |-> TRUE, repo |-> [s EXCEPT !.trees = @ \cup {b}]] : s \in SyncBranch(r, b)}
SetupNewWorktree(r, b) ==
    {IF HeadGone(r) \/ CheckedOut(r, b) THEN [ok |-> FALSE, repo |-> r]
     ELSE
     [ok |-> TRUE,
      repo |-> [r EXCEPT !.trees = @ \cup {b},
                         !.branch[b] = [@ EXCEPT !.exists = TRUE, !.work = FALSE,
                                           !.ahead = FALSE, !.behind = r.branch[b].pushed]]]}

\* At a path of its own that nothing is at, and at one where an older worktree may be,
\* which is removed first, also when adding the new one then fails.
SetupFresh(r, b) == IF r.branch[b].exists THEN SetupFromExistingBranch(r, b)
                                          ELSE SetupNewWorktree(r, b)
Setup(r, b) == SetupFresh(RemoveTree(r, b), b)

\* The reference goes, even of a branch that is checked out.
Deleted(r, b) == [r EXCEPT !.branch[b] =
                     [@ EXCEPT !.exists = FALSE, !.work = FALSE,
                               !.ahead = FALSE, !.behind = FALSE]]

\* GitWorktree.Cleanup
Cleanup(r, b) == Deleted(RemoveTree(r, b), b)

\* git merge b in the main checkout: the work goes to the branch that is checked out.
Merged(r, b) ==
    [r EXCEPT !.branch = [x \in Branches |->
        IF x = b /\ x # r.head THEN [r.branch[x] EXCEPT !.work = FALSE]
        ELSE IF x = r.head
        THEN [r.branch[x] EXCEPT !.work = @ \/ r.branch[b].work]
        ELSE r.branch[x]]]

\* MergePlanBranch.  A branch that is gone is taken from origin again; a merge that
\* conflicts leaves its conflicts in the main checkout, and one without fast-forward
\* needs a HEAD; git branch -d refuses a branch that is checked out, or that its upstream
\* lacks commits of.
MergePlanBranch(r, b) ==
    LET s == RemoveTree(r, b)
        c == s.branch[b]
        local == IF c.exists THEN s
                 ELSE [s EXCEPT !.branch[b].exists = TRUE, !.branch[b].work = TRUE]
        merged == Merged(local, b)
        kept == local.head = b \/ (local.branch[b].pushed /\ local.branch[b].ahead)
    IN IF ~c.exists /\ ~c.pushed THEN {[ok |-> FALSE, repo |-> s]}
       ELSE IF HeadGone(local) THEN {[ok |-> FALSE, repo |-> local]}
       ELSE {[ok |-> FALSE, repo |-> Edited(local, Main)],
             [ok |-> TRUE,  repo |-> IF kept THEN merged ELSE Deleted(merged, b)]}

\* ResetPlanBranch: git branch -D refuses a branch that is checked out, and then it
\* cannot be created again; neither can one that was deleted when there is no HEAD.
ResetPlanBranch(r, b) ==
    LET s == RemoveTree(r, b) IN
    IF s.head = b THEN {[ok |-> FALSE, repo |-> s]}
    ELSE IF HeadGone(s) THEN {[ok |-> FALSE, repo |-> Deleted(s, b)]}
    ELSE {[ok |-> TRUE,
           repo |-> [s EXCEPT !.branch[b] =
                        [@ EXCEPT !.exists = TRUE, !.work = FALSE,
                                  !.ahead = FALSE, !.behind = r.branch[b].pushed]]]}

\* CleanupWorktrees: all worktrees, and the branches checked out in them.
CleanupWorktrees(r) ==
    [r EXCEPT !.trees = {}, !.dirty = @ \ Branches,
              !.branch = [b \in Branches |-> IF b \in r.trees /\ b # r.head
                                             THEN Deleted(r, b).branch[b]
                                             ELSE r.branch[b]]]
=============================================================================
