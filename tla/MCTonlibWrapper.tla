--------------------------- MODULE MCTonlibWrapper ---------------------------
EXTENDS TonlibWrapper, TLC

Symmetry == Permutations(Requests)

AllFaults == FaultKinds
NoFaults == {}
=============================================================================
