---------------------------- MODULE CommandFifo ----------------------------
(***************************************************************************)
(* What NetWorker's submission interface promises (net/network.h): the     *)
(* commands submitted are executed once each, in the order of submission,  *)
(* batch by batch, by the one thread that polls; Stop discards what has    *)
(* not been taken.  CommandQueue implements this without locks.            *)
(***************************************************************************)
EXTENDS Sequences

CONSTANT Commands

VARIABLES
  pending,   \* submitted, not yet taken
  batch,     \* taken by ProcessCommands, not yet executed
  handled,   \* executed, in order
  open       \* Stop has not run

vars == <<pending, batch, handled, open>>

Init ==
  /\ pending = <<>>
  /\ batch = <<>>
  /\ handled = <<>>
  /\ open = TRUE

Submit(c) ==
  /\ open
  /\ pending' = Append(pending, c)
  /\ UNCHANGED <<batch, handled, open>>

TakeAll ==
  /\ open
  /\ batch = <<>>
  /\ batch' = pending
  /\ pending' = <<>>
  /\ UNCHANGED <<handled, open>>

Execute ==
  /\ batch # <<>>
  /\ handled' = Append(handled, Head(batch))
  /\ batch' = Tail(batch)
  /\ UNCHANGED <<pending, open>>

Stop ==
  /\ open
  /\ batch = <<>>
  /\ open' = FALSE
  /\ pending' = <<>>
  /\ UNCHANGED <<batch, handled>>

Next == (\E c \in Commands : Submit(c)) \/ TakeAll \/ Execute \/ Stop

Spec == Init /\ [][Next]_vars
=============================================================================
