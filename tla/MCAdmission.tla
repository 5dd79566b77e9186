---------------------------- MODULE MCAdmission ----------------------------
(* Small instances of Admission for TLC. *)
EXTENDS Admission, TLC

\* The threads run the same code and no property tells them apart.
MCSymmetry == Permutations(Threads)
=============================================================================
