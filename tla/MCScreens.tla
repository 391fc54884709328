------------------------------ MODULE MCScreens ------------------------------
(***************************************************************************)
(* Two plans with an agent each, and a third instance that the user names  *)
(* or a signal spawns; or one plan with an agent that asks.                *)
(***************************************************************************)
EXTENDS Screens

CONSTANTS i1, i2, i3, p1, p2

MCInstSeq == <<i1, i2, i3>>
MCPlans   == {p1, p2}
MCPlanOf  == [i \in {i1, i2, i3} |-> IF i = i1 THEN p1 ELSE IF i = i2 THEN p2 ELSE None]
MCRunning == {i1, i2}

MCFewInsts == <<i1>>
MCFewPlans == {p1}
MCFewOf    == [i \in {i1} |-> p1]
MCFewRun   == {i1}
=============================================================================
