---------------------------- MODULE MCHttpsSlots ----------------------------
(* Small instances of HttpsSlots for TLC: the constants are in the .cfg files. *)
EXTENDS HttpsSlots
=============================================================================
