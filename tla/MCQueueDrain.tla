---------------------------- MODULE MCQueueDrain -----------------------------
(* QueueDrain on a small instance: AllEnd is checked, hence no symmetry. *)
EXTENDS QueueDrain
=============================================================================
