--------------------------- MODULE SampleLedger ---------------------------
(***************************************************************************)
(* What the statistics path promises the engine (core/stats.h): a sample a *)
(* worker records either waits, in order, until the main thread counts it  *)
(* under its class, or is counted as dropped, which happens only after     *)
(* Capacity samples went in; the report that closes the books leaves       *)
(* nothing behind.  StatsRing implements this with rings and stale indices.*)
(***************************************************************************)
EXTENDS Integers, Sequences

CONSTANTS Writers, Samples, Capacity, ErrorClass, ClassOf(_)

VARIABLES
  waiting,         \* the samples of each writer that are recorded and not yet counted
  puts,            \* the number of samples each writer got in
  lost,            \* the drops of each writer the collector does not know of yet
  error_counts,    \* the counted samples by class
  dropped_samples, \* the drops the collector knows of
  closed           \* the final report is built

vars == <<waiting, puts, lost, error_counts, dropped_samples, closed>>

Init ==
  /\ waiting = [w \in Writers |-> <<>>]
  /\ puts = [w \in Writers |-> 0]
  /\ lost = [w \in Writers |-> 0]
  /\ error_counts = [e \in ErrorClass |-> 0]
  /\ dropped_samples = 0
  /\ closed = FALSE

Put(w, s) ==
  /\ Len(waiting[w]) < Capacity
  /\ waiting' = [waiting EXCEPT ![w] = Append(@, s)]
  /\ puts' = [puts EXCEPT ![w] = @ + 1]
  /\ UNCHANGED <<lost, error_counts, dropped_samples, closed>>

\* A sample may be dropped although the queue has room: the writer's view of the
\* main thread's progress lags.  It never lags behind the beginning.
Lose(w) ==
  /\ puts[w] >= Capacity
  /\ lost' = [lost EXCEPT ![w] = @ + 1]
  /\ UNCHANGED <<waiting, puts, error_counts, dropped_samples, closed>>

Count(w) ==
  /\ waiting[w] # <<>>
  /\ error_counts' = [error_counts EXCEPT ![ClassOf(Head(waiting[w]))] = @ + 1]
  /\ waiting' = [waiting EXCEPT ![w] = Tail(@)]
  /\ UNCHANGED <<puts, lost, dropped_samples, closed>>

CountLost(w) ==
  /\ lost[w] > 0
  /\ dropped_samples' = dropped_samples + lost[w]
  /\ lost' = [lost EXCEPT ![w] = 0]
  /\ UNCHANGED <<waiting, puts, error_counts, closed>>

Close ==
  /\ \A w \in Writers : waiting[w] = <<>> /\ lost[w] = 0
  /\ closed' = TRUE
  /\ UNCHANGED <<waiting, puts, lost, error_counts, dropped_samples>>

\* Nothing moves once the books are closed.
Next ==
  /\ ~closed
  /\ \/ \E w \in Writers, s \in Samples : Put(w, s)
     \/ \E w \in Writers : Lose(w) \/ Count(w) \/ CountLost(w)
     \/ Close

Spec == Init /\ [][Next]_vars
=============================================================================
