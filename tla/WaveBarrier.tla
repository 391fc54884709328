----------------------------- MODULE WaveBarrier -----------------------------
(***************************************************************************)
(* What wave orchestration promises of a plan, without the orchestrator's  *)
(* state, current wave or confirmation latch: the tasks of a wave run in   *)
(* parallel and in any order, they may be run again, and none of them      *)
(* begins before every task of every earlier wave has ended or after a     *)
(* task of a later wave has begun (README: "kasmos automatically runs      *)
(* parallel agents per wave").                                             *)
(***************************************************************************)
EXTENDS Integers, Sequences

CONSTANT TaskNumbers

VARIABLES plan, outcome

vars == <<plan, outcome>>

Ended == {"complete", "failed"}

Tasks(k) == plan[k].tasks

\* A number used in two waves belongs to neither.
Own(k) == {t \in Tasks(k) : \A j \in DOMAIN plan \ {k} : t \notin Tasks(j)}

Init == outcome = [t \in TaskNumbers |-> "pending"]

\* Some tasks of wave k are put to work.
Begin(k, S) ==
    /\ S \subseteq Tasks(k)
    /\ \A j \in 1 .. k - 1 : \A t \in Own(j) : outcome[t] \in Ended
    /\ \A j \in k + 1 .. Len(plan) : \A t \in Own(j) : outcome[t] = "pending"
    /\ outcome' = [t \in TaskNumbers |-> IF t \in S THEN "running" ELSE outcome[t]]
    /\ UNCHANGED plan

\* A running task ends.
End(t, result) ==
    /\ outcome[t] = "running"
    /\ outcome' = [outcome EXCEPT ![t] = result]
    /\ UNCHANGED plan

Next == \/ \E k \in DOMAIN plan : \E S \in SUBSET Tasks(k) : Begin(k, S)
        \/ \E t \in TaskNumbers, result \in Ended : End(t, result)

Spec == Init /\ [][Next]_vars
=============================================================================
