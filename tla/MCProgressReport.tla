-------------------------- MODULE MCProgressReport --------------------------
(* A small instance of ProgressReport for TLC: the constants are in the .cfg file. *)
EXTENDS ProgressReport, TLC

Alike == Permutations(Workers)
=============================================================================
