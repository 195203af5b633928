------------------------- MODULE MCHighloadQueryId -------------------------
(***************************************************************************)
(* HighloadQueryId with all 1023 bit numbers and few shifts.               *)
(***************************************************************************)
EXTENDS HighloadQueryId

\* Bound: the walk goes on only from states whose written-down number is the
\* first one or next to the end of a shift.
SavedNearBoundary ==
    \/ stored.num = 0
    \/ Decode(stored).bit_number \in {0, MAX_BIT_NUMBER - 1, MAX_BIT_NUMBER}
============================================================================
