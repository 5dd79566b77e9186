---------------------------- MODULE MCNetWorker ----------------------------
(* Small instances of NetWorker for TLC: the constants are in the .cfg files. *)
EXTENDS NetWorker
=============================================================================
