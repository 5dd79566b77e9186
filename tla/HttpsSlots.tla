----------------------------- MODULE HttpsSlots -----------------------------
(***************************************************************************)
(* WorkerLoopHttps (core/engine.cpp) over SslClient (net/ssl.cpp): every   *)
(* session is a thread of its own, a slot, that connects, sends a request, *)
(* waits for the answer, retries, and counts how each request ended.  The  *)
(* threads of the workers only start the slots and join them.  The run is  *)
(* one of -n requests; in duration mode only ReachedEnd differs, as in     *)
(* Engine.                                                                 *)
(*                                                                         *)
(* A connection outlives a request: the client keeps it open (keep-alive). *)
(* pipe holds the answers a connection still owes, in the order they come: *)
(* "mine" to the request the slot is waiting for, "stale" to one it has    *)
(* given up, "rest" what is left of an answer that was read in part.       *)
(* As in Engine, a slot pays what it owes to the shared counters one by    *)
(* one.                                                                    *)
(***************************************************************************)
EXTENDS Integers, Sequences, FiniteSets, FiniteSetsExt, Functions

CONSTANTS
  Slots,                \* the sessions: config.concurrency of them
  Requests,             \* config.requests
  kMaxRetryPerSession

ASSUME SlotsAssumption ==
  /\ IsFiniteSet(Slots) /\ Slots # {}
  /\ Requests \in Nat \ {0} /\ kMaxRetryPerSession \in Nat

Counter == {"started", "completed", "succeeded", "failed", "retried", "sample"}

VARIABLES
  count,   \* the atomic counters of SharedState; "sample" counts the calls of Record
  stop,    \* SharedState::stop
  mpc,     \* where the main thread is
  slot,    \* the slots: see NewSlot
  sockets, \* how many descriptors each slot has open
  \* history
  gaveUp,  \* the slots that raised stop for want of a connection
  kept     \* the slots that kept a connection after their last retry had failed

shared == <<count, stop, mpc>>
vars == <<shared, slot, sockets, gaveUp, kept>>

\* link is the client's connection: "none", "socket" when fd_ is set but there is no TLS
\* connection over it, "open", or "dead" when the peer has closed or reset it.
NewSlot == [pc |-> "init", retry |-> 0, link |-> "none", pipe |-> <<>>, owed |-> <<>>]

Connected(s) == slot[s].link \in {"open", "dead"}

Init ==
  /\ count = [c \in Counter |-> 0]
  /\ stop = FALSE
  /\ mpc = "loop"
  /\ slot = [s \in Slots |-> NewSlot]
  /\ sockets = [s \in Slots |-> 0]
  /\ gaveUp = {} /\ kept = {}

-----------------------------------------------------------------------------
(* The slots.  A step replaces the slot's record: Becomes(s, [x EXCEPT ...]). *)

At(s, pc) == slot[s].pc = pc /\ slot[s].owed = <<>>
Becomes(s, new) == slot' = [slot EXCEPT ![s] = new]
Goes(s, pc) == Becomes(s, [slot[s] EXCEPT !.pc = pc])

\* Mutant: a socket that was never connected is not closed.
CloseConnectedOnly(s, x) ==
  /\ sockets' = [sockets EXCEPT ![s] = IF x.link \in {"open", "dead"} THEN @ - 1 ELSE @]
  /\ Becomes(s, [x EXCEPT !.link = "none", !.pipe = <<>>])
  /\ kept' = kept \ {s}

\* SslClient::Close in a step that makes the slot x: nothing of the connection is read any
\* more.
Close(s, x) ==
  /\ sockets' = [sockets EXCEPT ![s] = IF x.link = "none" THEN @ ELSE @ - 1]
  /\ Becomes(s, [x EXCEPT !.link = "none", !.pipe = <<>>])
  /\ kept' = kept \ {s}

\* One fetch_add, store or Record.
Pay(s) ==
  /\ slot[s].owed # <<>>
  /\ LET due == Head(slot[s].owed)
     IN  /\ count' = IF due \in Counter THEN [count EXCEPT ![due] = @ + 1] ELSE count
         /\ stop' = (stop \/ due = "stop")
  /\ Becomes(s, [slot[s] EXCEPT !.owed = Tail(@)])
  /\ UNCHANGED <<mpc, sockets, gaveUp, kept>>

\* client.Init: wolfSSL_Init and wolfSSL_CTX_new.  A slot that fails stops the run, and its
\* function returns with nothing to close.
InitTls(s) ==
  /\ At(s, "init")
  /\ \/ Goes(s, "top")
     \/ Becomes(s, [slot[s] EXCEPT !.pc = "failed", !.owed = <<"stop">>])
  /\ UNCHANGED <<shared, sockets, gaveUp, kept>>

LoopTop(s) ==
  /\ At(s, "top")
  /\ Goes(s, IF stop THEN "leave" ELSE IF Connected(s) THEN "quota" ELSE "connect")
  /\ UNCHANGED <<shared, sockets, gaveUp, kept>>

\* Connect closes what an attempt before it may have left open.
Connect(s) ==
  /\ At(s, "connect")
  /\ Close(s, [slot[s] EXCEPT !.pc = "tcp"])
  /\ UNCHANGED <<shared, gaveUp>>

\* The socket exists from here on, whether or not it connects in time: after a failure fd_
\* stays set.
ConnectTcp(s) ==
  /\ At(s, "tcp")
  /\ sockets' = [sockets EXCEPT ![s] = @ + 1]
  /\ \E pc \in {"tls", "unconnected"} : Becomes(s, [slot[s] EXCEPT !.pc = pc, !.link = "socket"])
  /\ UNCHANGED <<shared, gaveUp, kept>>

\* The name cannot be resolved or socket() fails.
ConnectTcpWithoutSocket(s) ==
  /\ At(s, "tcp")
  /\ Goes(s, "unconnected")
  /\ UNCHANGED <<shared, sockets, gaveUp, kept>>

\* DoHandshake succeeds before its deadline.
Handshake(s) ==
  /\ At(s, "tls")
  /\ Becomes(s, [slot[s] EXCEPT !.pc = "quota", !.link = "open"])
  /\ UNCHANGED <<shared, sockets, gaveUp, kept>>

\* wolfSSL_new, wolfSSL_set_fd or the handshake fails, or its deadline passes.
HandshakeFails(s) ==
  /\ At(s, "tls")
  /\ Close(s, [slot[s] EXCEPT !.pc = "unconnected"])
  /\ UNCHANGED <<shared, gaveUp>>

\* Mutant: the limit is off by one.
MayRetryOneMore(s) == slot[s].retry <= kMaxRetryPerSession

MayRetry(s) == slot[s].retry < kMaxRetryPerSession

\* Connect has failed.  The last attempt is counted as a request that failed, although none
\* was started, and ends the run.
Unconnected(s) ==
  /\ At(s, "unconnected")
  /\ IF MayRetry(s)
     THEN /\ Becomes(s, [slot[s] EXCEPT !.pc = "top", !.retry = @ + 1, !.owed = <<"retried">>])
          /\ UNCHANGED gaveUp
     ELSE /\ Becomes(s, [slot[s] EXCEPT !.pc = "leave",
                                        !.owed = <<"failed", "completed", "sample", "stop">>])
          /\ gaveUp' = gaveUp \cup {s}
  /\ UNCHANGED <<shared, sockets, kept>>

\* AcquireRequestQuota and WaitRateToken; Admission models their loops.
AcquireRequestQuota(s) ==
  /\ At(s, "quota")
  /\ IF count["started"] >= Requests
     THEN Goes(s, "leave") /\ UNCHANGED count
     ELSE Goes(s, "send") /\ count' = [count EXCEPT !["started"] = @ + 1]
  /\ UNCHANGED <<stop, mpc, sockets, gaveUp, kept>>

\* Mutant: a request that failed is not counted as completed.
ResultUncounted(outcome) == <<outcome, "sample">>

\* How a request is counted: as completed, then its outcome, then its sample.
Result(outcome) == <<"completed", outcome, "sample">>

\* The slot once PerformHttpGet has returned, with these answers outstanding.
Ended(s, outcome, pipe) ==
  [slot[s] EXCEPT !.pc    = IF outcome = "succeeded" THEN "top" ELSE "after",
                  !.retry = IF outcome = "succeeded" THEN 0 ELSE @,
                  !.owed  = Result(outcome),
                  !.pipe  = [i \in DOMAIN pipe |-> IF pipe[i] = "mine" THEN "stale" ELSE pipe[i]]]

SendOk(s) ==
  /\ At(s, "send")
  /\ Becomes(s, [slot[s] EXCEPT !.pc = "receive",
                                !.pipe = IF slot[s].link = "open" THEN Append(@, "mine") ELSE @])
  /\ UNCHANGED <<shared, sockets, gaveUp, kept>>

\* wolfSSL_write fails or the socket stays full; the client does not close the connection.
SendFails(s) ==
  /\ At(s, "send")
  /\ Becomes(s, Ended(s, "failed", slot[s].pipe))
  /\ UNCHANGED <<shared, sockets, gaveUp, kept>>

\* What can remain of answers when the parser that read into them is dropped: the last read
\* may have taken whole answers, and a part of the next.
Leftovers(answers) ==
  {SubSeq(answers, i, Len(answers)) : i \in 1..(Len(answers) + 1)}
    \cup {<<"rest">> \o SubSeq(answers, i + 1, Len(answers)) : i \in 1..Len(answers)}

\* A whole answer is read, the one that was asked for or an earlier one.  The connection is
\* closed unless it is to be kept alive.
Receive(s) ==
  /\ At(s, "receive")
  /\ slot[s].pipe # <<>> /\ Head(slot[s].pipe) # "rest"
  /\ \E outcome \in {"succeeded", "failed"} :
       \/ Close(s, Ended(s, outcome, <<>>))
       \/ /\ \E left \in Leftovers(Tail(slot[s].pipe)) : Becomes(s, Ended(s, outcome, left))
          /\ UNCHANGED <<sockets, kept>>
  /\ UNCHANGED <<shared, gaveUp>>

\* Nothing comes for a second, or what comes is malformed; the connection is as it was.
ReceiveFails(s) ==
  /\ At(s, "receive")
  /\ \E left \in Leftovers(slot[s].pipe) : Becomes(s, Ended(s, "failed", left))
  /\ UNCHANGED <<shared, sockets, gaveUp, kept>>

\* The peer has closed.  A response without a length is complete with that, whichever request
\* it answers; if it does not keep the connection alive the client closes too.
ReceiveEof(s) ==
  /\ At(s, "receive")
  /\ slot[s].link = "dead"
  /\ \/ Becomes(s, Ended(s, "failed", <<>>)) /\ UNCHANGED <<sockets, kept>>
     \/ /\ slot[s].pipe # <<>> /\ Head(slot[s].pipe) # "rest"
        /\ \E outcome \in {"succeeded", "failed"} :
             \/ Becomes(s, Ended(s, outcome, <<>>)) /\ UNCHANGED <<sockets, kept>>
             \/ Close(s, Ended(s, outcome, <<>>))
  /\ UNCHANGED <<shared, gaveUp>>

\* Mutant: a retry keeps the connection.
AgainOnSameConnection(s, x) == Becomes(s, x) /\ UNCHANGED <<sockets, kept>>

\* Another request is tried, on a new connection.
Again(s, x) == Close(s, x)

\* A request has failed.  Once the retries are used up the connection stays as it is.
Retry(s) ==
  /\ At(s, "after")
  /\ IF MayRetry(s)
     THEN Again(s, [slot[s] EXCEPT !.pc = "top", !.retry = @ + 1, !.owed = <<"retried">>])
     ELSE Goes(s, "top") /\ kept' = kept \cup {s} /\ UNCHANGED sockets
  /\ UNCHANGED <<shared, gaveUp>>

\* The thread's function returns, and with it the client goes.
Leave(s) ==
  /\ At(s, "leave")
  /\ Close(s, [slot[s] EXCEPT !.pc = "exited"])
  /\ UNCHANGED <<shared, gaveUp>>

-----------------------------------------------------------------------------
(* The network and the main thread *)

\* The peer closes or resets the connection; what it had sent before may still be read.
Breaks(s) ==
  /\ slot[s].link = "open"
  /\ \E n \in 0..Len(slot[s].pipe) :
       Becomes(s, [slot[s] EXCEPT !.link = "dead", !.pipe = SubSeq(@, 1, n)])
  /\ UNCHANGED <<shared, sockets, gaveUp, kept>>

\* Mutant: one request more is waited for.
ReachedEndOneMore == count["completed"] > Requests

ReachedEnd == count["completed"] >= Requests

MainStop ==
  /\ mpc = "loop"
  /\ stop \/ ReachedEnd
  /\ stop' = TRUE
  /\ mpc' = "join"
  /\ UNCHANGED <<count, slot, sockets, gaveUp, kept>>

\* Neither: a progress report or a drain of the rings, 20 ms of sleep, and once more.
MainWaits ==
  /\ mpc = "loop"
  /\ ~stop /\ ~ReachedEnd
  /\ UNCHANGED vars

Over(s) == At(s, "exited") \/ At(s, "failed")

\* Mutant: the report is built while the slots may still be at work.
JoinAtOnce ==
  /\ mpc = "join"
  /\ mpc' = "done"
  /\ UNCHANGED <<count, stop, slot, sockets, gaveUp, kept>>

\* The threads are joined and the final report is built: from here on nothing changes it.
Join ==
  /\ mpc = "join"
  /\ \A s \in Slots : Over(s)
  /\ mpc' = "done"
  /\ UNCHANGED <<count, stop, slot, sockets, gaveUp, kept>>

Terminated == mpc = "done" /\ UNCHANGED vars

-----------------------------------------------------------------------------
SlotNext(s) ==
  \/ Pay(s) \/ InitTls(s) \/ LoopTop(s)
  \/ Connect(s) \/ ConnectTcp(s) \/ ConnectTcpWithoutSocket(s)
  \/ Handshake(s) \/ HandshakeFails(s) \/ Unconnected(s)
  \/ AcquireRequestQuota(s) \/ SendOk(s) \/ SendFails(s)
  \/ Receive(s) \/ ReceiveFails(s) \/ ReceiveEof(s) \/ Retry(s) \/ Leave(s)

Next ==
  \/ \E s \in Slots : SlotNext(s) \/ Breaks(s)
  \/ MainStop \/ MainWaits \/ Join
  \/ Terminated

Spec == Init /\ [][Next]_vars

\* No slot waits for another, and a wait for the network is over after its timeout.
FairSpec == Spec /\ (\A s \in Slots : WF_vars(SlotNext(s))) /\ WF_vars(MainStop \/ Join)

-----------------------------------------------------------------------------
(* Properties *)

Unfinished(s) ==
  (IF slot[s].pc \in {"send", "receive"} THEN 1 ELSE 0)
    + (IF \E i \in DOMAIN slot[s].owed : slot[s].owed[i] = "completed" THEN 1 ELSE 0)

\* No request is lost and none counted twice: one that was started is completed, or a slot is
\* at it; a slot that gives up for want of a connection counts one request that was never
\* started (engine.cpp:393-413, 417-440).
EveryRequestAccounted ==
  count["started"] + Cardinality(gaveUp) =
    count["completed"] + SumFunction([s \in Slots |-> Unfinished(s)])

\* The retries stay within kMaxRetryPerSession for each slot and each request that succeeded,
\* whether it is the connection or the request that fails.
RetryBudget ==
  count["retried"] <= kMaxRetryPerSession * (Cardinality(Slots) + count["succeeded"])

\* A slot waits for one answer on its connection, its own, as long as it has not failed with
\* its retries used up: every earlier failure was followed by a new connection
\* (engine.cpp:441-447, ssl.cpp:305-307).
AnswersMatch ==
  \A s \in Slots \ kept : slot[s].pc = "receive" => slot[s].pipe \in {<<>>, <<"mine">>}

\* A slot has a descriptor open exactly while its client knows of it, through every way a
\* connect can fail half way, and none when its thread is over: nothing leaks and nothing is
\* closed twice (ssl.cpp:126-169, 311-323, 341-386).
NoDescriptorLeaks ==
  \A s \in Slots :
    /\ sockets[s] = IF slot[s].link = "none" THEN 0 ELSE 1
    /\ slot[s].pc \in {"exited", "failed"} => sockets[s] = 0

Aborted == gaveUp # {} \/ \E s \in Slots : slot[s].pc = "failed"

Run == INSTANCE BenchmarkRun WITH
  requests <- Requests,
  timeUp <- FALSE,
  MaxCompleted <- Requests + Cardinality(Slots),
  phase <- IF mpc # "done" THEN "running" ELSE IF Aborted THEN "aborted" ELSE "finished",
  report <- [completed |-> IF mpc = "done" THEN count["completed"] ELSE 0,
             succeeded |-> IF mpc = "done" THEN count["succeeded"] ELSE 0,
             failed    |-> IF mpc = "done" THEN count["failed"] ELSE 0,
             samples   |-> IF mpc = "done" THEN count["sample"] ELSE 0]

\* Over HTTPS, too, Run keeps what BenchmarkRun promises, although slots count a request that
\* failed and one that was never started in different orders: the counters the final report
\* is built from add up, and unless a slot gave the run up it has completed the requests
\* (engine.cpp:358-450, 526-567).
ImplementsRun == Run!Spec

\* Run returns: no failure of the network can keep the slots from using up their requests or
\* their retries (engine.cpp:392-448), as long as no peer sends a byte now and then for ever.
RunEnds == <>(mpc = "done")
=============================================================================
