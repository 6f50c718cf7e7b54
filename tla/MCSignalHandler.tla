--------------------------- MODULE MCSignalHandler ---------------------------
(* SignalHandler on small instances.                                        *)
EXTENDS SignalHandler, TLC

Symmetry == Permutations(Handlers) \cup Permutations(Signals)
=============================================================================
