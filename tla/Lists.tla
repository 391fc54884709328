-------------------------------- MODULE Lists --------------------------------
(***************************************************************************)
(* A loop over a list that several models have, as a recursive function,   *)
(* which the proofs unfold step by step.                                   *)
(***************************************************************************)
EXTENDS Naturals, Sequences

\* The loop that appends those of a list that are in S.
Only(list, S) ==
    LET some[k \in 0 .. Len(list)] ==
            IF k = 0 THEN << >>
            ELSE IF list[k] \in S THEN Append(some[k - 1], list[k]) ELSE some[k - 1]
    IN some[Len(list)]
=============================================================================
