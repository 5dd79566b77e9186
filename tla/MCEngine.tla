------------------------------ MODULE MCEngine ------------------------------
(* A small instance of Engine for TLC: the other constants are in the .cfg file. *)
EXTENDS Engine

MCConfigs  == [protocol : {"kHttp", "kTcp"}, has_requests : BOOLEAN]
MCMaxStray == [n \in BOOLEAN |-> IF n THEN 1 ELSE 0]
=============================================================================
