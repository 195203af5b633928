----------------------------- MODULE MCBagOfCells -----------------------------
(***************************************************************************)
(* The initial states of BagOfCells, enumerated graph by graph.            *)
(***************************************************************************)
EXTENDS BagOfCells

\* The references of cells 1 to k, each to cells with larger numbers.
Graphs[k \in 0 .. N] ==
    IF k = 0 THEN {<< >>}
    ELSE {Append(g, t) : g \in Graphs[k - 1], t \in Tuples(k + 1 .. N, MaxRefs)}

\* All cells of whole bytes, and one kind after the other.
BitPatterns ==
    {[c \in Cells |-> 8], [c \in Cells |-> IF c % 2 = 0 THEN 8 ELSE 5]}

ASSUME PatternsAssumption == BitPatterns \subseteq [Cells -> BitLengths]

MCInit == (\E g \in Graphs[N] : refs = g) /\ bits \in BitPatterns /\ BocInit

MCSpec == MCInit /\ [][BocNext]_vars /\ WF_vars(BocNext)
===============================================================================
