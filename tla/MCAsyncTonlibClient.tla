------------------------- MODULE MCAsyncTonlibClient -------------------------
EXTENDS AsyncTonlibClient, TLC

CONSTANTS t1, t2, a1, a2, i1, i2

TwoTasks == {t1, t2}
SomeBudgets == {NoLimit, 1}
FewBudgets == {NoLimit, 0}

\* Bounds: the third wrapper is explored for calls that await all their requests,
\* what follows a second init of the application for two wrappers and one kind of
\* call.
ExploredPart ==
    /\ created <= 2 \/ \A t \in Tasks : op[t] # "send"
    /\ inits <= 1 \/ (created <= 2 /\ \A t \in Tasks : op[t] = "fees")

\* Tasks, addresses and ids are interchangeable.
Symmetry == Permutations({t1, t2}) \cup Permutations({a1, a2})
              \cup Permutations({i1, i2})
=============================================================================
