--------------------------- MODULE MCFanOwnership ---------------------------
EXTENDS FanOwnership, TLC

ThreadSymmetry == Permutations(Clients) \cup Permutations(Cycles)

\* Bound: the way out is explored while at most one cycle has begun.
LeavesEarly == exiting => Cardinality({k \in Cycles : pc[k] # "unarmed"}) <= 1
=============================================================================
