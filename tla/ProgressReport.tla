--------------------------- MODULE ProgressReport ---------------------------
(***************************************************************************)
(* BuildProgressReport (core/engine.cpp) while the workers run.  The       *)
(* counters are atomics that the workers change and the main thread loads  *)
(* with memory_order_relaxed, so a load may return an old value, and a     *)
(* later load of another counter an older one.  What orders them is the    *)
(* ring: Record publishes a sample with a release store of write_index,    *)
(* which Drain reads with an acquire load (core/stats.cpp).                *)
(*                                                                         *)
(* A view is how far a thread has come in the history of each counter, and *)
(* the oldest value it may still read of it.  fetch_add reads the newest.  *)
(* A sample carries the view of the worker that published it, and a drain  *)
(* that takes it, like a join, adds that to the main thread's view.        *)
(*                                                                         *)
(* Engine says when the workers count what; here they only do.             *)
(***************************************************************************)
EXTENDS Integers, Sequences, SequencesExt, FiniteSetsExt

CONSTANTS
  Workers,     \* the threads that count requests
  Capacity,    \* the entries of a ring
  MaxResults   \* bound: results a worker counts

ASSUME ProgressAssumption ==
  Workers # {} /\ Capacity \in Nat \ {0} /\ MaxResults \in Nat

\* Those that are compared; started and retried requests and the bytes are loaded likewise.
Counter == {"completed", "succeeded", "failed"}

VARIABLES
  count,    \* the counters of SharedState
  worker,   \* owed: what it has still to do about its last result, in order; view; how many
            \* results it has counted and how many samples it got into its ring; whether it
            \* has returned
  ring,     \* the samples published and not drained, each with its writer's view
  main,     \* where the main thread is, the counters it has still to load, its view
  report,   \* what it loaded last of each counter
  counted   \* the samples in the collector's totals, by RequestSample::success

vars == <<count, worker, ring, main, report, counted>>

Nothing     == [c \in Counter |-> 0]
Later(v, u) == [c \in Counter |-> Max({v[c], u[c]})]

Init ==
  /\ count = Nothing
  /\ worker = [w \in Workers |->
                 [owed |-> <<>>, view |-> Nothing, results |-> 0, puts |-> 0, gone |-> FALSE]]
  /\ ring = [w \in Workers |-> <<>>]
  /\ main = [pc |-> "loop", loads |-> <<>>, view |-> Nothing]
  /\ report = Nothing
  /\ counted = [success |-> 0, failure |-> 0]

-----------------------------------------------------------------------------
(* The workers *)

\* Mutant: a request that is over as soon as it is sent is recorded before it is counted.
ResultsRecordedFirst ==
  { <<"failed", "completed", "failure">>, <<"success", "succeeded", "completed">>,
    <<"completed", "succeeded", "success">>, <<"completed", "failed", "failure">> }

\* What a worker does about a result: a send or connection that fails and a malformed answer,
\* a raw TCP or UDP request that is sent, an answer that is complete.  The last of each is
\* RecordSample, with the sample's success.
Results ==
  { <<"failed", "completed", "failure">>, <<"succeeded", "completed", "success">>,
    <<"completed", "succeeded", "success">>, <<"completed", "failed", "failure">> }

Result(w) ==
  /\ ~worker[w].gone /\ worker[w].owed = <<>>
  /\ worker[w].results < MaxResults
  /\ \E result \in Results :
       worker' = [worker EXCEPT ![w].owed = result, ![w].results = @ + 1]
  /\ UNCHANGED <<count, ring, main, report, counted>>

Owes(w) == worker[w].owed # <<>>
Due(w)  == Head(worker[w].owed)

\* fetch_add.
Add(w) ==
  /\ Owes(w) /\ Due(w) \in Counter
  /\ count' = [count EXCEPT ![Due(w)] = @ + 1]
  /\ worker' = [worker EXCEPT ![w].owed = Tail(@), ![w].view[Due(w)] = count'[Due(w)]]
  /\ UNCHANGED <<ring, main, report, counted>>

\* Record, if the ring has room: the sample is published with everything done before it.
Publish(w) ==
  /\ Owes(w) /\ Due(w) \notin Counter
  /\ Len(ring[w]) < Capacity
  /\ ring' = [ring EXCEPT ![w] = Append(@, [class |-> Due(w), view |-> worker[w].view])]
  /\ worker' = [worker EXCEPT ![w].owed = Tail(@), ![w].puts = @ + 1]
  /\ UNCHANGED <<count, main, report, counted>>

\* Record drops a sample when the ring looks full, which a stale read_index may make it
\* (SampleLedger's Lose).  The drop counter is relaxed and carries nothing with it.
Drop(w) ==
  /\ Owes(w) /\ Due(w) \notin Counter
  /\ worker[w].puts >= Capacity
  /\ worker' = [worker EXCEPT ![w].owed = Tail(@)]
  /\ UNCHANGED <<count, ring, main, report, counted>>

\* stop is raised, by whomever, and the worker sees it.
Return(w) ==
  /\ ~worker[w].gone /\ worker[w].owed = <<>>
  /\ worker' = [worker EXCEPT ![w].gone = TRUE]
  /\ UNCHANGED <<count, ring, main, report, counted>>

-----------------------------------------------------------------------------
(* The main thread *)

ReportOrder == <<"completed", "succeeded", "failed">>

\* A drain sees some of each ring's samples, after the joins all of them.
Drain(pc) ==
  \E taken \in [Workers -> 0..Capacity] :
    /\ \A w \in Workers : taken[w] <= Len(ring[w])
    /\ main.pc = "final" => \A w \in Workers : taken[w] = Len(ring[w])
    /\ LET batch == FlattenSeq([i \in DOMAIN SetToSeq(Workers) |->
                       LET w == SetToSeq(Workers)[i] IN SubSeq(ring[w], 1, taken[w])])
       IN  /\ counted' = [class \in DOMAIN counted |->
                            counted[class] + Len(SelectSeq(batch, LAMBDA s : s.class = class))]
           /\ main' = [main EXCEPT !.pc = pc,
                         !.view = FoldSeq(LAMBDA s, v : Later(v, s.view), @, batch)]
    /\ ring' = [w \in Workers |-> SubSeq(ring[w], taken[w] + 1, Len(ring[w]))]
    /\ UNCHANGED <<count, worker, report>>

PollDrains == main.pc = "loop" /\ Drain("loop")

BeginReport ==
  /\ main.pc = "loop"
  /\ main' = [main EXCEPT !.pc = "report", !.loads = ReportOrder]
  /\ UNCHANGED <<count, worker, ring, report, counted>>

\* A relaxed load, which the thread's view bounds and advances.
Load ==
  /\ main.loads # <<>>
  /\ LET c == Head(main.loads)
     IN  \E value \in main.view[c]..count[c] :
           /\ report' = [report EXCEPT ![c] = value]
           /\ main' = [main EXCEPT !.loads = Tail(@), !.view[c] = value]
  /\ UNCHANGED <<count, worker, ring, counted>>

\* Snapshot(true) drains and closes the report, and progress_callback prints it.
Snapshot ==
  /\ main.pc \in {"report", "final"} /\ main.loads = <<>>
  /\ Drain(IF main.pc = "report" THEN "loop" ELSE "done")

\* Run has joined every worker and begins its last report.
Join ==
  /\ main.pc = "loop"
  /\ \A w \in Workers : worker[w].gone
  /\ main' = [pc |-> "final", loads |-> ReportOrder, view |-> count]
  /\ UNCHANGED <<count, worker, ring, report, counted>>

Terminated == main.pc = "done" /\ UNCHANGED vars

Next ==
  \/ \E w \in Workers : Result(w) \/ Add(w) \/ Publish(w) \/ Drop(w) \/ Return(w)
  \/ PollDrains \/ BeginReport \/ Load \/ Snapshot \/ Join
  \/ Terminated

Spec == Init /\ [][Next]_vars

-----------------------------------------------------------------------------
(* Properties *)

\* A report's counts cover the samples that earlier drains have put into its statistics,
\* class by class, although its loads are relaxed and done need not be ok and fail together:
\* a worker counts before it records, and the ring carries the order over to the main thread
\* (engine.cpp:230-337, 463-479; stats.cpp:145, 313).
ReportCoversSamples ==
  main.pc \in {"report", "final"} /\ main.loads = <<>> =>
    /\ counted.success <= report["succeeded"]
    /\ counted.failure <= report["failed"]
    /\ counted.success + counted.failure <= report["completed"]
=============================================================================
