---------------------------- MODULE MCOverclock ----------------------------
(***************************************************************************)
(* Instances of Overclock: one client, the watchdog and the main thread.    *)
(* Cards stand for each other, and so do targets other than stock.          *)
(***************************************************************************)
EXTENDS Overclock, TLC

Symmetry == Permutations(GPUs) \cup Permutations(Offsets)
=============================================================================
