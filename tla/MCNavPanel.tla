------------------------------ MODULE MCNavPanel ------------------------------
(***************************************************************************)
(* Two plans, one in the topic, a coder and a reviewer of the first, and   *)
(* an agent without a plan.                                                *)
(***************************************************************************)
EXTENDS NavPanel

CONSTANTS a1, r1, s1

MCAgents    == {a1, r1, s1}
MCPlanOf    == [x \in MCAgents |-> IF x = s1 THEN 0 ELSE 1]
MCTitleOf   == [x \in MCAgents |-> IF x = a1 THEN 1 ELSE IF x = r1 THEN 2 ELSE 3]
MCReviewers == {r1}
MCInTopic   == {2}
=============================================================================
