---------------------------- MODULE BenchmarkRun ----------------------------
(***************************************************************************)
(* What BenchmarkEngine::Run (core/engine.cpp) promises its caller: it     *)
(* ends with one report, whose numbers agree with one another, and unless  *)
(* a worker aborts it has by then completed the requests of -n, or run     *)
(* for the duration of -t.                                                 *)
(***************************************************************************)
EXTENDS Naturals

CONSTANT MaxCompleted  \* bound: the requests of either outcome in a report

VARIABLES
  requests,  \* config.requests, 0 in duration mode
  timeUp,    \* end_time has passed
  phase,     \* "running", "finished", or "aborted" by a worker
  report     \* report_, once Run has ended

vars == <<requests, timeUp, phase, report>>

EmptyReport == [completed |-> 0, succeeded |-> 0, failed |-> 0, samples |-> 0]

\* Every completed request succeeded or failed, and left one sample.
Balanced ==
  {[completed |-> ok + bad, succeeded |-> ok, failed |-> bad, samples |-> ok + bad] :
     ok, bad \in 0..MaxCompleted}

\* Run returns true unless no request was completed.
Returned == report.completed > 0

Init == timeUp = FALSE /\ phase = "running" /\ report = EmptyReport

EndTime == ~timeUp /\ timeUp' = TRUE /\ UNCHANGED <<phase, report>>

End ==
  /\ phase = "running"
  /\ report' \in Balanced
  /\ phase' \in {"finished", "aborted"}
  /\ phase' = "finished" => IF requests > 0 THEN report'.completed >= requests ELSE timeUp

Next == requests' = requests /\ (EndTime \/ (End /\ timeUp' = timeUp))

Spec == Init /\ [][Next]_vars
=============================================================================
