------------------------------- MODULE PlanFSM -------------------------------
(***************************************************************************)
(* The plan lifecycle of config/planfsm/fsm.go as a transition table, and  *)
(* the helpers of app/app_actions.go that walk it.  A walk is the sequence *)
(* of the events a helper sends one after the other; it is chosen from the *)
(* status the TUI has cached, each of its events is applied to the status  *)
(* the store holds at that moment, and the first refused one ends it.      *)
(***************************************************************************)
EXTENDS Sequences

Status == {"ready", "planning", "implementing", "reviewing", "done", "cancelled"}

\* Spellings of older plan-state.json files; migration stores them as they are.
LegacyStatus == {"in_progress", "completed", "finished"}

Event == {"plan_start", "planner_finished", "implement_start", "implement_finished",
          "review_approved", "review_changes_requested", "request_review",
          "start_over", "reimplement", "cancel", "reopen"}

\* The events an agent's sentinel file can carry (signals.go, the prefixes); the
\* other ones are for the user and the program.
SentinelEvent == {"planner_finished", "implement_finished", "review_approved",
                  "review_changes_requested"}

TransitionTable ==
    { <<"ready",        "plan_start",               "planning">>,
      <<"ready",        "implement_start",          "implementing">>,
      <<"ready",        "cancel",                   "cancelled">>,
      <<"planning",     "plan_start",               "planning">>,
      <<"planning",     "planner_finished",         "ready">>,
      <<"planning",     "cancel",                   "cancelled">>,
      <<"implementing", "implement_finished",       "reviewing">>,
      <<"implementing", "cancel",                   "cancelled">>,
      <<"reviewing",    "review_approved",          "done">>,
      <<"reviewing",    "review_changes_requested", "implementing">>,
      <<"reviewing",    "cancel",                   "cancelled">>,
      <<"done",         "start_over",               "planning">>,
      <<"done",         "reimplement",              "implementing">>,
      <<"done",         "request_review",           "reviewing">>,
      <<"done",         "cancel",                   "cancelled">>,
      <<"cancelled",    "reopen",                   "planning">> }

\* The error returns of ApplyTransition are the pairs for which it is not Allowed.
Allowed(current, event) == \E edge \in TransitionTable :
                              edge[1] = current /\ edge[2] = event
ApplyTransition(current, event) ==
    (CHOOSE edge \in TransitionTable : edge[1] = current /\ edge[2] = event)[3]

MapLegacyStatus(s) ==
    CASE s = "in_progress"               -> "implementing"
      [] s \in {"completed", "finished"} -> "done"
      [] OTHER                           -> s

----------------------------------------------------------------------------
(* Walks.  The helpers compare the cached status without mapLegacyStatus.  *)

SetImplementingWalk(cached) ==
    CASE cached = "implementing" -> << >>
      [] cached = "planning"     -> <<"planner_finished", "implement_start">>
      [] OTHER                   -> <<"implement_start">>

\* Mutant: a plan that is not implementing yet is left there.
ShortSetReviewingWalk(cached) ==
    CASE cached = "reviewing"    -> << >>
      [] cached = "implementing" -> <<"implement_finished">>
      [] OTHER -> SetImplementingWalk(cached)

SetReviewingWalk(cached) ==
    CASE cached = "reviewing"    -> << >>
      [] cached = "implementing" -> <<"implement_finished">>
      [] OTHER -> SetImplementingWalk(cached) \o <<"implement_finished">>

\* merge_plan and mark_plan_done.  merge_plan decides with the status captured
\* when its dialog opened and lets fsmSetReviewing read the cache again.
MarkDoneWalk(captured, cached) ==
    CASE captured = "done"      -> << >>
      [] captured = "reviewing" -> <<"review_approved">>
      [] OTHER -> SetReviewingWalk(cached) \o <<"review_approved">>

RevertToPlanningWalk(cached) ==
    IF cached = "planning" THEN << >> ELSE <<"cancel", "reopen">>

ForceToPlanningWalk(cached) ==
    CASE cached = "planning"  -> << >>
      [] cached = "cancelled" -> <<"reopen">>
      [] cached = "done"      -> <<"start_over">>
      [] OTHER                -> <<"cancel", "reopen">>
=============================================================================
