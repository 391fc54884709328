--------------------------- MODULE MCPlanClients ---------------------------
(* Small stores for PlanClients: two filenames, one topic. *)
EXTENDS PlanClients

CONSTANTS p, q

Plan(status, topic, branch) == [status |-> status, topic |-> topic, branch |-> branch]

Only(plan)       == [n \in Names |-> IF n = p THEN plan ELSE NoPlan]
Both(one, other) == [n \in Names |-> IF n = p THEN one ELSE other]

\* One ready plan.
MCReady == { Only(Plan("ready", "", "plan")) }

\* A plan in any status, old spellings and missing branch included, and a second
\* one in its topic.
MCAnyPlan ==
    { Only(Plan(s, "", "plan")) : s \in Status \cup LegacyStatus }
      \cup { Only(Plan("ready", "t", "")),
             Both(Plan("ready", "t", "plan"), Plan("implementing", "t", "plan")) }
=============================================================================
