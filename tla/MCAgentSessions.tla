---------------------------- MODULE MCAgentSessions ----------------------------
(***************************************************************************)
(* One title of every kind: a coder, a reviewer, a planner and an ad-hoc   *)
(* agent, whose branch has its name.                                       *)
(***************************************************************************)
EXTENDS AgentSessions

CONSTANTS t1, r1, m1, o1

MCTasks     == {t1}
MCReviewers == {r1}
MCPlanners  == {m1}
MCAdhoc     == {o1}
MCBranches  == {o1, Plan}
=============================================================================
