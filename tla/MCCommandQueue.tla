--------------------------- MODULE MCCommandQueue ---------------------------
(* Small instances of CommandQueue for TLC. *)
EXTENDS CommandQueue, TLC

\* One caller beside the polling thread, with more submissions than nodes.
MCFourSubmissions == <<4>>

\* Two callers: enough submissions for a node to come back to the head of the free list
\* between one caller's load and its exchange.
MCTwoCallers == <<2, 3>>

\* The nodes are alike.
MCSymmetry == Permutations(Nodes)
=============================================================================
