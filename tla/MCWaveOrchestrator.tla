------------------------- MODULE MCWaveOrchestrator -------------------------
(* Small plans for WaveOrchestrator. *)
EXTENDS WaveOrchestrator

W(n, tasks) == [number |-> n, tasks |-> tasks]

\* Distinct task numbers: one to three waves, of one to three tasks.
MCDistinctPlans ==
    { << W(1, {1}) >>,
      << W(1, {1, 2}), W(2, {3}) >>,
      << W(1, {1}), W(2, {2, 3}), W(3, {4}) >>,
      << W(1, {1}), W(3, {2}), W(4, {3, 4}) >> }

\* Plans the parser also accepts: a number used in two waves, a wave without
\* tasks, a plan of empty waves only.
MCOddPlans ==
    { << W(1, {1, 2}), W(2, {1, 3}) >>,
      << W(1, {1}), W(2, {}), W(3, {2}) >>,
      << W(1, {}) >>,
      << W(2, {1, 2, 3}), W(2, {2}) >> }

MCAllPlans == MCDistinctPlans \cup MCOddPlans
=============================================================================
