--------------------------- MODULE MCSupervision ---------------------------
(* Supervision with one instance. *)
EXTENDS Supervision, TLC

Symmetry == Permutations(Pids) \cup Permutations(Callers)
=============================================================================
