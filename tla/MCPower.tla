------------------------------ MODULE MCPower ------------------------------
EXTENDS Power

\* Bound: two lives have one change of mode each; two changes happen in one life.
ChangesShared == restarts > 0 => generation <= 1 /\ changes - generation <= 1
=============================================================================
