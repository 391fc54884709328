---------------------------- MODULE MCWaveControl ----------------------------
(* Small plans for WaveControl. *)
EXTENDS WaveControl

W(n, tasks) == [number |-> n, tasks |-> tasks]

MCTwoWaves == << W(1, {1}), W(2, {2}) >>
MCWideWave == << W(1, {1, 2}), W(2, {3}) >>
=============================================================================
