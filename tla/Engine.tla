------------------------------- MODULE Engine -------------------------------
(***************************************************************************)
(* BenchmarkEngine::Run and WorkerLoopEventDriven (core/engine.cpp): the   *)
(* worker threads send requests over their sessions and count how each one *)
(* ends; the main thread watches the shared counters, raises stop, joins   *)
(* the workers and builds the report.                                      *)
(*                                                                         *)
(* A step makes at most one access to a shared counter.  A worker that has *)
(* several counters to change keeps them in owed and pays them one by one, *)
(* in program order, so the main thread may stop the run in between.  The  *)
(* counters of the final report are loaded after the joins, which make     *)
(* them all visible; those of a progress report are loaded while the       *)
(* workers run and relaxed, which ProgressReport models: here it drains.   *)
(* NetWorker::PollOnce is taken by its contract: events come only for the  *)
(* connections it knew when it was called, and nothing follows an error    *)
(* but further errors for the same connection.  Recorded samples are       *)
(* counted as SampleLedger allows: Drain takes a prefix of what a worker   *)
(* recorded, and all of it once the worker is joined.                      *)
(***************************************************************************)
EXTENDS Integers, Sequences, FiniteSets, FiniteSetsExt

CONSTANTS
  Concurrency,          \* config.concurrency
  Threads,              \* config.threads
  Requests,             \* config.requests, with -n
  Configs,              \* the runs asked for: the protocol (kUdp is like "kTcp"), and whether
                        \* with -n requests or for the duration of -t
  kMaxRetryPerSession,
  MaxStray,             \* bound, by has_requests: chunks counted with no request in flight
  MaxSends              \* bound: requests sent with -t

ASSUME EngineAssumption ==
  /\ Concurrency \in Nat \ {0} /\ Threads \in Nat \ {0} /\ Requests \in Nat \ {0}
  /\ kMaxRetryPerSession \in Nat /\ MaxSends \in Nat
ASSUME StrayAssumption   == MaxStray \in [BOOLEAN -> Nat]
ASSUME ConfigsAssumption ==
  Configs \subseteq [protocol : {"kHttp", "kTcp"}, has_requests : BOOLEAN]

MostStray    == MaxStray[TRUE] + MaxStray[FALSE]
WorkerCount  == IF Threads < Concurrency THEN Threads ELSE Concurrency
Workers      == 0..(WorkerCount - 1)

\* worker_concurrency: the sessions are dealt to the workers in turn.
worker_concurrency ==
  [w \in Workers |-> Cardinality({i \in 0..(Concurrency - 1) : i % WorkerCount = w})]

Counter    == {"started", "completed", "succeeded", "failed", "retried"}
NewSession == [in_flight |-> FALSE, retries |-> 0, parse_error |-> FALSE, backoff |-> FALSE]

VARIABLES
  config,    \* the part of the Config that the run depends on
  count,     \* the atomic counters of SharedState
  stop,      \* SharedState::stop
  worker,    \* the locals of each worker, see NewWorker
  unfolded,  \* the samples a worker recorded that Drain has not taken
  main,      \* the locals of the main thread, see NewMain
  timeUp,    \* end_time has passed
  \* history
  aborted,   \* a worker raised stop
  stray      \* chunks counted so far although no request was in flight

vars == <<config, count, stop, worker, unfolded, main, timeUp, aborted, stray>>

\* BuildProgressReport loads the counters in this order.  (It loads retried_requests and the
\* byte counts too, which nothing in the report is compared with.)
ReportOrder == <<"started", "completed", "succeeded", "failed">>
EmptyReport == [c \in {"started", "completed", "succeeded", "failed"} |-> 0]

NewWorker ==
  [pc       |-> "start",
   sessions |-> [c \in {} |-> NewSession],  \* by connection id
   next_id  |-> 1,     \* NetWorker::next_conn_id
   todo     |-> {},    \* the sessions the send pass has still to visit
   conn     |-> 0,     \* the connection the send pass is at
   old      |-> NewSession,  \* the session an error event was for, erased from the map
   polled   |-> {},    \* the connections PollOnce may still report on
   gone     |-> {},    \* those it reported an error for
   owed     |-> <<>>]  \* what the worker has still to do to the shared state, in order

NewMain ==
  [pc     |-> "loop",
   rep    |-> EmptyReport,  \* the final report
   loads  |-> <<>>,    \* the counters it has still to load, in order
   folded |-> 0]       \* the samples in the collector's totals, dropped ones included

Http         == config.protocol = "kHttp"
has_requests == config.has_requests

Init ==
  /\ config \in Configs
  /\ count = [c \in Counter |-> 0]
  /\ stop = FALSE
  /\ worker = [w \in Workers |-> NewWorker]
  /\ unfolded = [w \in Workers |-> 0]
  /\ main = NewMain
  /\ timeUp = FALSE /\ aborted = FALSE /\ stray = 0

-----------------------------------------------------------------------------
(* The worker threads *)

At(w, pc)       == worker[w].pc = pc /\ worker[w].owed = <<>>
Becomes(w, new) == worker' = [worker EXCEPT ![w] = new]
OnlyWorker == UNCHANGED <<config, count, stop, unfolded, main, timeUp, aborted, stray>>
Without(f, c) == [d \in DOMAIN f \ {c} |-> f[d]]
With(f, c, s) == [d \in DOMAIN f \cup {c} |-> IF d = c THEN s ELSE f[d]]

\* One fetch_add, store or Record; "sample" is RecordSample, "stop" the store of stop.
Pay(w) ==
  /\ worker[w].owed # <<>>
  /\ LET due == Head(worker[w].owed)
     IN  /\ count' = IF due \in Counter THEN [count EXCEPT ![due] = @ + 1] ELSE count
         /\ unfolded' = IF due = "sample" THEN [unfolded EXCEPT ![w] = @ + 1] ELSE unfolded
         /\ stop' = (stop \/ due = "stop")
         /\ aborted' = (aborted \/ due = "stop")
  /\ Becomes(w, [worker[w] EXCEPT !.owed = Tail(@)])
  /\ UNCHANGED <<config, main, timeUp, stray>>

\* worker.Start() fails: raise stop and return.
StartFails(w) ==
  /\ At(w, "start")
  /\ Becomes(w, [worker[w] EXCEPT !.pc = "exited", !.owed = <<"stop">>])
  /\ OnlyWorker

\* The first sessions; a create_connection that fails raises stop and ends the loop.
CreateSessions(w) ==
  /\ At(w, "start")
  /\ \E n \in 0..worker_concurrency[w] :
       Becomes(w, [worker[w] EXCEPT
                     !.pc = "loop", !.sessions = [c \in 1..n |-> NewSession], !.next_id = n + 1,
                     !.owed = IF n < worker_concurrency[w] THEN <<"stop">> ELSE <<>>])
  /\ OnlyWorker

\* The send pass skips a session in flight or waiting to retry; `now` is read once.
Sendable(sessions) == {c \in DOMAIN sessions : ~sessions[c].in_flight /\ ~sessions[c].backoff}

\* Mutant: a worker that sees stop first waits for its sessions.
LeavesIdle(w) == stop /\ DOMAIN worker[w].sessions = {}

Leaves(w) == stop

LoopTop(w) ==
  /\ At(w, "loop")
  /\ IF Leaves(w)
     THEN Becomes(w, [worker[w] EXCEPT !.pc = "exited"])
     ELSE Becomes(w, [worker[w] EXCEPT !.pc = "send", !.todo = Sendable(worker[w].sessions)])
  /\ OnlyWorker

\* Mutant: the check for the last request is off by one.
QuotaLeftOneMore == ~has_requests \/ count["started"] <= Requests

QuotaLeft == ~has_requests \/ count["started"] < Requests

Bounded == ~has_requests /\ count["completed"] >= MaxSends

\* AcquireRequestQuota; Admission models its compare-and-swap loop.
AcquireRequestQuota(w) ==
  /\ At(w, "send")
  /\ ~Bounded
  /\ \E c \in worker[w].todo :
       IF QuotaLeft
       THEN /\ Becomes(w, [worker[w] EXCEPT !.todo = @ \ {c}, !.conn = c, !.pc = "token"])
            /\ count' = IF has_requests THEN [count EXCEPT !["started"] = @ + 1] ELSE count
       ELSE /\ Becomes(w, [worker[w] EXCEPT !.todo = @ \ {c}])
            /\ UNCHANGED count
  /\ UNCHANGED <<config, stop, unfolded, main, timeUp, aborted, stray>>

\* The rate token is there and worker.Send is called.  A raw TCP or UDP request is over
\* as soon as it is queued.
Send(w) ==
  /\ At(w, "token")
  /\ LET sent == [worker[w] EXCEPT !.pc = "send", !.conn = 0]
     IN  \/ Becomes(w, [sent EXCEPT !.owed = <<"failed", "completed", "sample">>])
         \/ Http /\ Becomes(w, [sent EXCEPT !.sessions[worker[w].conn].in_flight = TRUE])
         \/ ~Http /\ Becomes(w, [sent EXCEPT !.owed = <<"succeeded", "completed", "sample">>])
  /\ OnlyWorker

PollOnce(w) ==
  /\ At(w, "send")
  /\ worker[w].todo = {} \/ Bounded
  /\ Becomes(w, [worker[w] EXCEPT !.pc = "events", !.todo = {}, !.gone = {},
                                  !.polled = DOMAIN worker[w].sessions])
  /\ OnlyWorker

PollFails(w) ==
  /\ At(w, "send")
  /\ worker[w].todo = {}
  /\ Becomes(w, [worker[w] EXCEPT !.pc = "exited", !.owed = <<"stop">>])
  /\ OnlyWorker

\* An event of a connection the map does not hold: the second error of one connection,
\* when a Send was queued behind a create that failed.
UnknownConnection(w, c) ==
  /\ At(w, "events")
  /\ c \in worker[w].gone
  /\ c \notin DOMAIN worker[w].sessions
  /\ Becomes(w, [worker[w] EXCEPT !.gone = @ \ {c}])
  /\ OnlyWorker

\* Mutant: the request of an idle session is counted as failed too.
LostIdleToo(session) == <<"failed", "completed", "sample">>

\* What an error event counts.
Lost(session) == IF session.in_flight THEN <<"failed", "completed", "sample">> ELSE <<>>

ErrorEvent(w, c) ==
  /\ At(w, "events")
  /\ c \in worker[w].polled
  /\ LET s == worker[w].sessions[c]
     IN  Becomes(w, [worker[w] EXCEPT !.pc = "retry", !.old = s, !.owed = Lost(s),
                       !.polled = @ \ {c}, !.sessions = Without(@, c),
                       !.gone = IF s.in_flight \/ ~Http THEN @ \cup {c} ELSE @])
  /\ OnlyWorker

\* Mutant: the limit of the retries is off by one.
MayRetryOneLess(session) == session.retries + 1 < kMaxRetryPerSession

MayRetry(session) == session.retries < kMaxRetryPerSession

\* Replace the connection, unless its retries are used up or stop is raised; a
\* create_connection that fails raises stop and ends the loop over the events.
Retry(w) ==
  /\ At(w, "retry")
  /\ LET old  == worker[w].old
         next == [worker[w] EXCEPT !.old = NewSession]
         new  == [NewSession EXCEPT !.retries = old.retries + 1, !.backoff = TRUE]
     IN  IF MayRetry(old) /\ ~stop
         THEN \/ Becomes(w, [next EXCEPT !.pc = "events", !.owed = <<"retried">>,
                               !.sessions = With(@, next.next_id, new), !.next_id = @ + 1])
              \/ Becomes(w, [next EXCEPT !.pc = "loop", !.owed = <<"retried", "stop">>])
         ELSE Becomes(w, [next EXCEPT !.pc = "events"])
  /\ OnlyWorker

\* The server may send a chunk that answers no request, but no more of them than MaxStray.
Stray(s) == IF s.in_flight THEN UNCHANGED stray ELSE stray < MaxStray[has_requests] /\ stray' = stray + 1

\* A chunk that completes a response, or one that Feed rejects: it is malformed, or the
\* parser is still in its error state, which nothing but a new connection resets.  (A chunk
\* that leaves the response incomplete, and any over raw TCP or UDP, changes nothing here.)
Chunk(w, c) ==
  /\ At(w, "events")
  /\ Http
  /\ c \in worker[w].polled
  /\ LET s == worker[w].sessions[c]
     IN  /\ Stray(s)
         /\ \/ /\ ~s.parse_error
               /\ \E outcome \in {"succeeded", "failed"} :
                    Becomes(w, [worker[w] EXCEPT
                                  !.owed = <<"completed", outcome, "sample">>,
                                  !.sessions[c] = [s EXCEPT !.in_flight = FALSE, !.retries = 0]])
            \/ Becomes(w, [worker[w] EXCEPT
                             !.owed = <<"failed", "completed", "sample">>,
                             !.sessions[c] = [s EXCEPT !.in_flight = FALSE, !.parse_error = TRUE]])
  /\ UNCHANGED <<config, count, stop, unfolded, main, timeUp, aborted>>

EventsDone(w) ==
  /\ At(w, "events")
  /\ Becomes(w, [worker[w] EXCEPT !.pc = "loop", !.polled = {}, !.gone = {}])
  /\ OnlyWorker

-----------------------------------------------------------------------------
(* The clock *)

BackoffOver(w, c) ==
  /\ worker[w].sessions[c].backoff
  /\ Becomes(w, [worker[w] EXCEPT !.sessions[c].backoff = FALSE])
  /\ OnlyWorker

\* It matters only while Run still polls.
EndTime ==
  /\ ~has_requests /\ ~timeUp
  /\ main.pc = "loop"
  /\ timeUp' = TRUE
  /\ UNCHANGED <<config, count, stop, worker, unfolded, main, aborted, stray>>

-----------------------------------------------------------------------------
(* The main thread *)

OnlyMain == UNCHANGED <<config, count, stop, worker, unfolded, timeUp, aborted, stray>>

\* Mutant: the duration is not looked at.
ReachedEndOfRequests == has_requests /\ count["completed"] >= Requests

ReachedEnd == IF has_requests THEN count["completed"] >= Requests ELSE timeUp

MainStop ==
  /\ main.pc = "loop"
  /\ stop \/ ReachedEnd
  /\ stop' = TRUE
  /\ main' = [main EXCEPT !.pc = "join"]
  /\ UNCHANGED <<config, count, worker, unfolded, timeUp, aborted, stray>>

\* Mutant: the final report is begun without the joins.
JoinedAtOnce == TRUE

Joined == \A w \in Workers : At(w, "exited")

Join ==
  /\ main.pc = "join"
  /\ Joined
  /\ main' = [main EXCEPT !.pc = "final", !.loads = ReportOrder]
  /\ OnlyMain

LoadCounter ==
  /\ main.pc = "final"
  /\ main.loads # <<>>
  /\ main' = [main EXCEPT !.rep[Head(main.loads)] = count[Head(main.loads)], !.loads = Tail(@)]
  /\ OnlyMain

\* Drain takes a prefix of every worker's samples, all of them after the joins.
Drain(pc) ==
  \E left \in [Workers -> 0..Max({unfolded[w] : w \in Workers})] :
    /\ \A w \in Workers : left[w] <= unfolded[w]
    /\ main.pc = "final" => \A w \in Workers : At(w, "exited") => left[w] = 0
    /\ unfolded' = left
    /\ main' = [main EXCEPT !.pc = pc,
                  !.folded = @ + SumFunction([w \in Workers |-> unfolded[w] - left[w]])]
    /\ UNCHANGED <<config, count, stop, worker, timeUp, aborted, stray>>

\* Every round drains, the one each second that makes a progress report as well; by then
\* what the loop found of stop and of the end may be out of date.
MainDrain == main.pc = "loop" /\ Drain("loop")

\* Snapshot(true) closes the report.
Snapshot ==
  /\ main.pc = "final"
  /\ main.loads = <<>>
  /\ Drain("done")

Terminated == main.pc = "done" /\ UNCHANGED vars

-----------------------------------------------------------------------------
WorkerNext(w) ==
  \/ Pay(w) \/ StartFails(w) \/ CreateSessions(w) \/ LoopTop(w)
  \/ AcquireRequestQuota(w) \/ Send(w) \/ PollOnce(w) \/ PollFails(w)
  \/ \E c \in worker[w].gone : UnknownConnection(w, c)
  \/ \E c \in worker[w].polled : ErrorEvent(w, c) \/ Chunk(w, c)
  \/ Retry(w) \/ EventsDone(w)

MainNext ==
  \/ MainStop \/ MainDrain \/ Join \/ LoadCounter \/ Snapshot

Next ==
  \/ \E w \in Workers : WorkerNext(w)
  \/ \E w \in Workers : \E c \in DOMAIN worker[w].sessions : BackoffOver(w, c)
  \/ EndTime
  \/ MainNext
  \/ Terminated

Spec == Init /\ [][Next]_vars

\* No thread waits for another except Run in its joins, the clock runs, and PollOnce and
\* the sleeps return after their timeout.
Fairness ==
  /\ \A w \in Workers : WF_vars(WorkerNext(w))
  /\ WF_vars(MainNext)
  /\ WF_vars(EndTime)

FairSpec == Spec /\ Fairness

-----------------------------------------------------------------------------
(* Properties *)

Owes(w, due)  == Cardinality({i \in DOMAIN worker[w].owed : worker[w].owed[i] = due})
Unfinished(w) ==
  Cardinality({c \in DOMAIN worker[w].sessions : worker[w].sessions[c].in_flight})
    + (IF worker[w].pc = "token" THEN 1 ELSE 0) + Owes(w, "completed")

\* No request is lost and none counted twice: one that was started is completed, in flight
\* on a session, on its way into Send, or about to be counted, through every retry, drop
\* and stop; only chunks that answer no request are counted beside them (engine.cpp:213-357).
EveryRequestAccounted ==
  has_requests =>
    count["started"] + stray =
      count["completed"] + SumFunction([w \in Workers |-> Unfinished(w)])

\* What the caller of Run sees of it.
FinalReport ==
  IF main.pc # "done" THEN [completed |-> 0, succeeded |-> 0, failed |-> 0, samples |-> 0]
  ELSE [completed |-> main.rep["completed"], succeeded |-> main.rep["succeeded"],
        failed |-> main.rep["failed"], samples |-> main.folded]

Run == INSTANCE BenchmarkRun WITH
  requests <- IF has_requests THEN Requests ELSE 0,
  MaxCompleted <- Requests + MostStray + MaxSends + 2 * Concurrency,
  phase <- IF main.pc # "done" THEN "running" ELSE IF aborted THEN "aborted" ELSE "finished",
  report <- FinalReport

\* Run keeps what BenchmarkRun promises: it ends with one report that adds up although the
\* counters are separate atomics changed in different orders, every completed request left
\* its sample, and unless a worker aborts it has completed the requests or used up the time it
\* was given (engine.cpp:230-337, 526-567).
ImplementsRun == Run!Spec

\* With -n, a run that no worker aborted performs exactly the requests asked for, as long
\* as the server answers only what it was asked (engine.cpp:72-86, 533-538).
FinalReportExact ==
  main.pc = "done" /\ has_requests /\ ~aborted /\ stray = 0 =>
    main.rep["completed"] = Requests /\ main.rep["started"] = Requests

\* The sessions a worker has dropped.
Dropped(w) ==
  IF worker[w].pc \in {"start", "exited"} THEN 0
  ELSE worker_concurrency[w] - Cardinality(DOMAIN worker[w].sessions)
         - (IF worker[w].pc = "retry" THEN 1 ELSE 0)

\* The reconnections stay within kMaxRetryPerSession for each connection asked for and each
\* response received, so a server that only ever refuses cannot keep a worker dialling; and
\* while nobody stops the run, no session is dropped before it has had all of its own
\* (engine.cpp:295-307, 330).
RetryBudget ==
  /\ count["retried"] <= kMaxRetryPerSession * (Concurrency + count["completed"])
  /\ ~stop /\ (\A w \in Workers : Owes(w, "stop") = 0) =>
       kMaxRetryPerSession * SumFunction([w \in Workers |-> Dropped(w)]) <= count["retried"]

\* Whoever raises stop, every worker notices and returns, so the joins of Run succeed.
StopReachesWorkers == stop ~> \A w \in Workers : worker[w].pc = "exited"

\* Run with -t returns.
RunEnds == ~has_requests ~> main.pc = "done"
=============================================================================
