---------------------------- MODULE PlanLifecycle ----------------------------
(***************************************************************************)
(* What the plan state machine promises of a project's plans: a plan is    *)
(* registered as ready, may be renamed, and otherwise its status only      *)
(* follows the transition table ("All plan status mutations must flow      *)
(* through Transition()", config/planfsm/fsm.go).  No branch, topic, text, *)
(* cache, client or store call appears here.                               *)
(***************************************************************************)
EXTENDS PlanFSM

CONSTANT Names

VARIABLE status   \* the status of each plan, "none" where there is no plan

Init == status \in [Names -> Status \cup {"none"}]

Register(n) == /\ status[n] = "none"
               /\ status' = [status EXCEPT ![n] = "ready"]

Advance(n, event) ==
    /\ Allowed(status[n], event)
    /\ status' = [status EXCEPT ![n] = ApplyTransition(status[n], event)]

Move(old, new) ==
    /\ status[old] # "none"
    /\ status[new] = "none"
    /\ status' = [status EXCEPT ![new] = status[old], ![old] = "none"]

Next == \/ \E n \in Names : Register(n)
        \/ \E n \in Names, event \in Event : Advance(n, event)
        \/ \E old, new \in Names : Move(old, new)

Spec == Init /\ [][Next]_status
=============================================================================
