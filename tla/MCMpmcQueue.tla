---------------------------- MODULE MCMpmcQueue ------------------------------
(* MpmcQueue on small instances.  Threads and Items are sets of model       *)
(* values that Init, Next and the properties treat alike.                   *)
EXTENDS MpmcQueue, TLC

Symmetry == Permutations(Threads) \cup Permutations(Items)
=============================================================================
