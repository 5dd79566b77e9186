# TitanBench in TLA+

TitanBench is a load generator for HTTP, HTTPS, TCP and UDP. This directory models the
parts of it where threads, the network and the clock interleave, checks them with TLC on
small instances, and proves the most important invariants for every instance with TLAPS.
Paths like `core/engine.cpp` are relative to `src/` of the repository.

## 1. The system

| component | state | operations | talks to |
|---|---|---|---|
| **Engine**, `core/engine.cpp` | `SharedState`: atomic counters, `stop`, rate token; per worker a map of sessions | `Run` (main thread): start workers, poll counters, raise `stop`, join, report. `WorkerLoopEventDriven`: send pass, `PollOnce`, event handling, retry with backoff | NetWorker (calls, events returned), ResponseParser, StatsWriter, shared atomics |
| **Admission**, `core/engine.cpp` | `started_requests`, `next_token_ns` | `AcquireRequestQuota`, `WaitRateToken` | all sending threads through two atomics |
| **HTTPS slots**, `core/engine.cpp`, `net/ssl.cpp` | per thread: a retry count, an `SslClient` with its connection | `WorkerLoopHttps`, `SslClient::{Init,Connect,Send,Recv,PerformHttpGet,Close}` | wolfSSL, ResponseParser, the shared atomics |
| **Command queue**, `net/network.cpp` | `command_head`, `command_free_head`, `wake_fd` | `AcquireCommand`, `EnqueueCommand`, `DrainCommands`, `ReleaseCommand`, `Stop` | callers of NetWorker on one side, `PollOnce` on the other |
| **NetWorker**, `net/network.cpp` | `connections`, `fd_to_conn`, epoll registrations | create, send, close, `CheckConnectTimeouts`, `FlushWrite`, `DrainRead`, `CompleteTcpConnect`, `RemoveConnection` | the kernel; reports `RecvEvent`s to the engine |
| **Statistics rings**, `core/stats.cpp` | per writer a single-producer ring; the collector's totals | `CreateWriter`, `Record` (worker), `Drain` (main thread) | workers write, the main thread drains |
| **Collector**, `core/stats.cpp` | latency histogram, extremes, sum, a table of per-second counts | `RecordFastPath`, `UpdateQps`, `Snapshot`, `GetPercentileNs` (main thread) | fed by `Drain`; its snapshots go into the engine's reports |
| **HTTP parser**, `protocol/http.cpp` | parsing state, pending bytes, body | `Feed`, `MarkEof`, `Reset` | the two worker loops |
| **Request builder, timer**, `protocol/http.cpp`, `http.h` | none; two clock readings | `BuildGetRequest`, `TransactionTimer` | the two worker loops |
| **Process**, `app/main.cpp` | `engine_finished`, the guard thread | `main`: read the command line, start the guard, `Run`, join, print. The guard: sleep, then `_Exit` | calls `Run`; the guard runs beside it |
| **Arguments**, `cli/args.cpp` | `Config` | `ParseArgs`, `ValidateConfig` | `main` |
| **Report**, `cli/report.cpp` | a terminal line | print | `main`, the progress callback |

What is hard here:

* *Memory and interleaving.* The ring, the quota, the rate token, the counters and the
  command stacks are lock-free. Indices are read stale, lists are changed by
  compare-and-swap, and the counters a report is made of are loaded one by one, relaxed, in
  whatever order the memory has them.
* *The kernel.* epoll is edge-triggered, descriptors are reused at once, a connection can
  break between any two system calls, and a create can fail half way.
* *Time.* Connect timeouts race completed connects, retries are counted and backed off,
  `stop` can be raised by the main thread or by any worker. Samples are stamped in one second
  and counted in another. The guard races the end of `Run`.
* *Boundaries.* The histogram changes its step three times; a slot of the window is used
  again every sixteenth second; options come in any order, repeated or out of range.
* *Streams.* A response arrives cut anywhere, and may be late, unasked for or malformed.

What makes each component correct:

* Statistics rings: no data race on a ring slot; every sample recorded is counted once, in its
  class, or counted as dropped; nothing is left behind in the final report.
* Collector: a percentile is the lower end of the bucket of the exact order statistic; the
  count of the current second is that of the samples stamped in it, but for what a sample
  drained a whole window late takes off again.
* Admission: never more than `-n` grants; tokens an interval apart.
* Engine: every started request ends exactly once; the final report balances, and a progress
  report counts at least the samples in its statistics; the retries are bounded; whoever
  raises `stop`, the run ends.
* Command queue: FIFO, no lost wake-up, no command in two hands, none leaked or deleted twice.
* NetWorker: maps and kernel agree; every end is reported and nothing follows it; nothing
  readable or writable is forgotten; every connect settles.
* Parser: the outcome does not depend on where the stream is cut.
* HTTPS slots: as Engine, an answer belongs to the request it is taken for, and no
  descriptor is leaked however a connect fails.
* Process: a run is started exactly for the command lines the help text describes; the guard
  ends late runs only; the process ends even if `Run` hangs.

## 2. The modules

| module | models | state and actions against the code |
|---|---|---|
| `SampleLedger` | abstract | what the statistics path promises: samples wait in order, are counted by class or counted as lost; closing the books leaves nothing |
| `StatsRing` | `core/stats.cpp` | one action per access to a shared location of `Record` (`RecordLoad`, `RecordDrop`, `RecordStore`, `RecordPublish`) and `Drain` (`DrainBegin` … `DrainEnd`). Index loads return any value between the last one seen and the current one; a join synchronises |
| `SumProofs` | | lemmas about `SumFunction`, the sum of a function over a finite set |
| `StatsRingProofs` | | theorems about `StatsRing`, with the refinement of `SampleLedger` |
| `Collector` | the rest of `core/stats.cpp` | `RecordFastPath` with `LatencyToBucket` and `UpdateQps` is one step, since only the main thread takes it; `Snapshot` and `GetPercentileNs` are functions of the state. The samples wait in rings taken by their contract |
| `CollectorProofs` | | theorems about `LatencyToBucket`, `BucketToLatencyUpperNs`, the percentiles and extremes of `Snapshot`, and the table of per-second counts |
| `Admission` | `AcquireRequestQuota`, `WaitRateToken` | one action per atomic access; both exchanges may fail spuriously; `Tick` is the clock |
| `AdmissionProofs` | | theorems about `Admission` |
| `BenchmarkRun` | abstract | what `Run` promises its caller: it ends with one report that adds up and, unless a worker aborts, has completed the requests of `-n` or lasted the duration of `-t` |
| `Engine` | `Run`, `WorkerLoopEventDriven` | the locals of each thread are a record, `worker[w]` and `main`. A worker that must change several counters keeps them in `owed` and pays them one per step, in program order, so the main thread acts between them. It reads `completed` in its loop, and the other counters after the joins. `PollOnce` follows its contract |
| `EngineProofs` | | theorems about `Engine`, with the refinement of `BenchmarkRun` |
| `ProgressReport` | `BuildProgressReport` beside running workers | relaxed atomics by views: how far a thread has come in the history of each counter. A load returns any value from the view to the newest; a sample takes its writer's view through the ring, and the drain that takes the sample adds it to the main thread's |
| `HttpsSlots` | `WorkerLoopHttps`, `SslClient` | as `Engine`, one thread per slot. `Connect`, `ConnectTcp` and the handshake are steps of their own; `sockets` counts the descriptors a slot has open, and a slot's `pipe` holds the answers a keep-alive connection still owes |
| `HttpsSlotsProofs` | | theorems about `HttpsSlots`, with the refinement of `BenchmarkRun` |
| `CommandFifo` | abstract | commands are put in and taken out in order |
| `CommandQueue` | the two stacks of `NetWorker::Impl` | one action per access to a shared location, with a record for each submitting thread and one for the polling thread; pointers are followed as the code follows them, ghost sequences say what the lists should hold |
| `CommandQueueProofs` | | theorems about `CommandQueue`, with the refinement of `CommandFifo` |
| `NetWorker` | `Start`, connections, the epoll loop, `Stop` | one action per system call between which the kernel may act; `sock` is the kernel's side, with an edge per socket |
| `NetWorkerProofs` | | theorems about `NetWorker` |
| `Program` | `app/main.cpp`, `cli/args.cpp` | `ParseArgs` folds the options `getopt_long` delivers; then one action per step of the main thread and of the guard thread, the clock, and a fatal signal at any time |
| `HttpParser` | `ResponseParser` | `Feed` and `MarkEof` as operators on a record; a token is a run of bytes the code treats alike, CR and LF apart |
| `MC…` | | instances for TLC |

How they fit together. `StatsRing` implements `SampleLedger`; `Engine` and `Collector` rely
on the ledger (`Drain` takes a prefix of each worker's samples, all of them after the joins).
`Engine` and `HttpsSlots` both implement `BenchmarkRun`, so `Run` keeps its promise over every
protocol; `Program` relies on it, and on nothing else of the engine: in `Program` a `Run` may
also hang.
`CommandQueue` implements `CommandFifo`; `NetWorker` relies on that (its `commands` is a
sequence). `NetWorker` checks `NothingAfterError` and `NoSilentEnd`; `Engine` relies on
them (no data after an error, an error for every connection that goes). `Admission`
checks that the two loops act as one atomic step; `Engine` and `HttpsSlots` take that step
whole. `HttpParser` checks that a response is told complete once; `Engine` and
`HttpsSlots` have one step for it.

In every module the code's names are kept. A variable listed under "history" is read by
properties only. A definition marked *Mutant* is a plausible bug: it is used by no
specification, and stands in for the definition next to it to show that the property it
is listed with in `PROJECT.json` notices.

## 3. The runs

| run | instance | what it shows |
|---|---|---|
| `stats_ring` | 2 writers, ring of 2; one records 4 times, the other once; two sample classes | No slot race, the counters are those of the published samples, at the end those of every call of `Record`, `SampleLedger` is implemented, rings keep being drained. Four records wrap the ring twice and can be dropped; the second writer makes the drain loop and the join order matter |
| `collector` | 2 rings, 3 samples of 6 latencies on and around the ends of the histogram's ranges, 4 seconds, a window of 2 slots | Percentiles, extremes and average are those of the samples up to a bucket. The count of the current second is that of its samples while slots are used again and samples wait for any time, also so long that they claim a slot back from a later second |
| `admission` | 3 threads, 3 requests or no quota, interval 2, clock to 5 | Quota and spacing under all races; with no slack between threads and requests, the last grant is contended |
| `engine` | HTTP and TCP, with `-n` 1 and one unasked chunk, or with `-t` and sending until a request is completed; 2 sessions, 2 workers, 1 retry; fair | Accounting, the final report, the retry budget and that `BenchmarkRun` is implemented, while two workers race for one request, fail, retry and raise `stop`; that `stop` reaches all the workers whoever raises it, and that a run with `-t` ends. With fewer requests than workers the last one is contended, and the unasked chunk is counted as one more |
| `progress_report` | 2 workers with 2 results each, rings of 1 | The counts of every report cover the samples that earlier drains put into its statistics, whatever the relaxed loads return. With a ring of 1 a worker's samples are drained one by one, or dropped |
| `command_queue` | 1 producer, 4 commands, 3 nodes | Lists, ownership, wake-ups, deletion, FIFO. Three nodes and four commands make one node go round |
| `command_queue_two` | 2 producers, 2 nodes | *violated*: see finding 1 |
| `net_worker` | 2 connections, TCP or UDP, 2 descriptors, a chunk each way, one socket of another thread, fair | Maps, reports, attribution, edges, settling, who closes what, with every descriptor reused, an erased node read as its id or as anything else, and `Start` failing anywhere |
| `program` | about 2000 command lines: two good ones, with at most one option left out and one of any kind put in, or two that settle a line; fair | What is accepted and with which values, whom the guard ends, that the process ends, and by whose hand |
| `guard` | the good command lines | *violated*: see finding 2 |
| `http_parser` | status line, up to 2 of 8 headers, 5 bodies, every cut | The parser says what a reading of the whole stream (`Reference`) says |
| `https_slots` | 2 slots, 3 requests, 1 retry, fair | Accounting, retry budget, matching answers, no leaked descriptor, that `BenchmarkRun` is implemented, and that `Run` ends. Two slots fail, give up and raise `stop` in every order beside each other |

**Bounds.** `MaxRecords`, `MaxTime`, `MaxSubmit`, `MaxConns`, `MaxSends`, `MaxArrivals`,
`MaxOther`, `MaxStray`, `MaxSamples`, `MaxNow` and `MaxResults` cap what would grow without
end, each in the guard of the action that uses it up; `MaxCompleted` is how many requests a
report of `BenchmarkRun` may count. `Admission`'s clock stops at `MaxTime`; `Horizon` says so,
since threads may be asleep then. With `-t` `Engine` stops sending once `MaxSends` requests
are completed and goes on polling; `MaxStray` is given apart for `-n` and `-t`.
`kMaxRetryPerSession` is 3 in the code, 1 in the runs.

TLC computes in 32 bits. `Collector` therefore takes its units as constants: in the run a
microsecond has two nanoseconds, which leaves every boundary of the histogram, stated in
microseconds, where the code has it, and a second has two, with the clock apart from the
latencies as in the code. `Program` takes `MaxInt`, `MaxPort` and the guard's seconds as
constants, with the order they have in the code.

**Fairness.** `StatsRing`: a call of `Record` in progress never blocks, a worker returns,
the main thread goes on, and a store becomes visible in time (the strong fairness on
`DrainLoad`). `Engine`: every thread goes on, since `PollOnce` and the sleeps have
timeouts, and the clock runs. The server may answer or not; but `PollOnce` returns only if
the peer lets the buffer `DrainRead` empties (`net/network.cpp:575`) run empty some time, and
if `getaddrinfo`, which a create calls, returns. `NetWorker`: the loop goes on, on the same
two conditions, and timeouts expire; nothing else is assumed of the kernel or the peer: a
connect need not be answered, nor a chunk be taken. `HttpsSlots`: every
slot goes on, because each wait of `SslClient` lasts a second at most. That takes a read
of a response to end; a peer that sends a byte now and then for ever is excluded, for
`PerformHttpGet` has no total timeout. `Program`: the two threads and the clock go on while
the process lives; nothing is assumed of `Run`.

## 4. What is proved

| theorem | says |
|---|---|
| `StatsRingProofs!TypeCorrect` | `Spec => []TypeOK` |
| `StatsRingProofs!RingInvariant` | `Spec => []RingInv` |
| `StatsRingProofs!StatsInvariant` | `Spec => []StatsInv` |
| `StatsRingProofs!NoRace` | `Spec => []NoSlotRace` |
| `StatsRingProofs!UnreadStaysIntact` | `Spec => []UnreadIntact` |
| `StatsRingProofs!NeverOverfullRing` | `Spec => []NeverOverfull` |
| `StatsRingProofs!ReportIsExact` | `Spec => []CountersMatchSamples` |
| `StatsRingProofs!RingsImplementLedger` | `Spec => ImplementsLedger` |
| `AdmissionProofs!TypeCorrect` | `Spec => []TypeOK` |
| `AdmissionProofs!AdmissionInvariant` | `Spec => []AdmissionInv` |
| `AdmissionProofs!QuotaNeverExceeded` | `Spec => []GrantsWithinQuota` |
| `AdmissionProofs!TokensSpaced` | `Spec => []SlotsSpaced` |
| `AdmissionProofs!RateNeverExceeded` | `Spec => []RateBounded` |
| `CollectorProofs!BucketExists` | the bucket of a latency is an index of the histogram |
| `CollectorProofs!BucketReported` | the value given for the bucket of a latency lies in that bucket, and not above the latency |
| `CollectorProofs!BucketsInOrder` | a longer latency has no lower bucket |
| `CollectorProofs!SnapshotIsBracketed` | `Spec => []SnapshotBracketed` |
| `CollectorProofs!WindowIsExact` | `Spec => []WindowExact` |
| `EngineProofs!EngineInvariant` | `Spec => []EngineInv` |
| `EngineProofs!RequestsAccounted` | `Spec => []EveryRequestAccounted` |
| `EngineProofs!FinalReportIsExact` | `Spec => []FinalReportExact` |
| `EngineProofs!RetriesWithinBudget` | `Spec => []RetryBudget` |
| `EngineProofs!EngineImplementsRun` | `Spec => ImplementsRun` |
| `CommandQueueProofs!QueueInvariant` | one caller: `Spec => []QueueInv` |
| `CommandQueueProofs!PointersIntact` | one caller: `Spec => []ListsIntact` |
| `CommandQueueProofs!OneOwner` | one caller: `Spec => []OwnedOnce` |
| `CommandQueueProofs!StopDeletesOnce` | one caller: `Spec => []DeletedOnce` |
| `CommandQueueProofs!WakeupsKept` | `Spec => []NoLostWakeup` |
| `CommandQueueProofs!QueueImplementsFifo` | one caller: `Spec => ImplementsFifo` |
| `NetWorkerProofs!NetInvariant` | `Spec => []NetInv` |
| `NetWorkerProofs!MapsStayAgreed` | `Spec => []MapsAgree` |
| `NetWorkerProofs!EndsAreTold` | `Spec => []NoSilentEnd` |
| `NetWorkerProofs!ChunksReportedOnce` | `Spec => []ChunksAttributed` |
| `NetWorkerProofs!EdgesNotForgotten` | `Spec => []NothingForgotten` |
| `NetWorkerProofs!NoDataAfterError` | `Spec => NothingAfterError` |
| `NetWorkerProofs!OthersKeepTheirs` | `Spec => ClosesItsOwn` |
| `HttpsSlotsProofs!HttpsInvariant` | `Spec => []HttpsInv` |
| `HttpsSlotsProofs!RequestsAccounted` | `Spec => []EveryRequestAccounted` |
| `HttpsSlotsProofs!RetriesWithinBudget` | `Spec => []RetryBudget` |
| `HttpsSlotsProofs!AnswersAreOwn` | `Spec => []AnswersMatch` |
| `HttpsSlotsProofs!NothingLeaks` | `Spec => []NoDescriptorLeaks` |
| `HttpsSlotsProofs!HttpsImplementsRun` | `Spec => ImplementsRun` |

They hold for any finite set of writers, threads, slots or workers, any number of sessions,
any set of commands' nodes, any number of submissions, any finite set of descriptors, any
number of connections, sends and arrivals, any ring capacity above zero, any samples, quota,
interval, latency, number of requests and limit of retries, any number of nanoseconds in a
microsecond or a second, and any number of slots in the window. The assumptions are those
the modules state: `CapacityAssumption`, `SamplesAssumption`, `BoundAssumption`,
`WritersAssumption` and `SlotsAssumption` (finitely many threads), `AdmissionAssumption`,
`UnitsAssumption`, `WindowAssumption`, `NullAssumption` (`nullptr` is no node),
`NetAssumption`, `EngineAssumption`, `StrayAssumption` and `ConfigsAssumption`.

*Sums.* Several invariants add something up over the threads. The library's induction
theorems are out of the prover's reach, but its theorems that the strict subsets of a finite
set, and the natural numbers, are well founded are not: `SumProofs` argues by a minimal
counterexample, first that the function behind `SumFunction` exists, then what the proofs
need of it. When one summand changes the sum changes by as much (`SumChange`), a sum is
linear in its summands and monotone, the sizes of the parts of a set add up to its own, and
summing a function up over a set is summing its restriction to the set (`SumOnSet`).

*The ring.* `NoSlotRace` alone is not inductive: it says nothing of the stale copies the
next check will use. `RingInv` orders, for each writer, `readSeen <= read_index <=
Position <= writeSeen <= write_index` with `write_index - readSeen <= Capacity`, strictly
so between the check and the publication, and says that unread slots hold what was
published. Each side's stale copy errs on the safe side, so the check is never too
generous. The key lemma, `SlotsApart`, is that two indices less than `Capacity` apart have
different slots; `NoRace`, `UnreadStaysIntact` and `NeverOverfullRing` follow from `RingInv`.
`StatsInv` adds what the whole path needs: a drain begun after the joins leaves nothing in
the writers it has passed, and each writer's calls of `Record` are its published samples and
its drops.

*The ledger.* Under the mapping a writer's waiting samples are those it published at or above
the read position. `RecordPublish` is a `Put`, `RecordDrop` a `Lose`, `DrainOne` a `Count` of
the sample that was published first among those waiting, because its slot is unchanged
(`UnreadIntact`), `DrainDropped` a `CountLost`, and the end of the last drain closes the books
with nothing left, because `StatsInv` says so; every other step is a stutter. That the
counters are those of the samples (`ReportIsExact`) is proved on the ring itself, since it
counts the published samples below each read position.

*Admission.* `GrantsWithinQuota` needs to know that a thread between its load and its
exchange holds a value below the quota, which the exchange confirms to be current;
`SlotsSpaced` needs to know that the next token lies an interval beyond all reserved ones.
`RateBounded` needs more: no slot lets two requests through, a slot is used only once its time
has come, and the i-th reserved one lies at least i - 1 intervals after the start. So of the
slots used by a time there are no more than intervals since the start, and one.
`AdmissionInv` says all of it.

*The histogram.* Division is first reduced to what multiplication says of it
(`QuotientBounds`, `QuotientOfProduct`); then each range of the histogram is a case. That
gives three theorems about the buckets: each latency has one, the value reported for it lies
in it, and the buckets are in the order of the latencies.

*The percentiles.* `TotalsInv` says what the collector's totals are: the histogram has, in
each bucket, the number of the samples counted that fall into it, and the extremes and the sum
are those of the samples. A step of `RecordFastPath` changes one bucket by one. The code then
adds buckets up from the lowest until it reaches the rank; those counts add up to the number
of samples up to a bucket, because the buckets are parts of that set (`CumulativeCounts`). A
latency of the rank exists by the well-foundedness of the natural numbers (`RankedExists`).
Since the buckets are in the order of the latencies, fewer samples than the rank lie in the
buckets below its own, and at least as many up to it: its bucket is the first that reaches
the rank (`FirstReached`), and what is reported for it is a lower end of that bucket.
Percentiles are in order because the ranks are, and the average lies between the extremes
because the sum lies between as many of the one and of the other.

*The window.* `WindowExact` speaks of the current second only. `WindowInv` says it of every
second up to now, whose slot may be claimed by it or by another: a slot's count is that of
the samples of the second it is claimed by that are still counted there (`SlotsExact`). These
are the ones drained after the last sample of any other second with that slot (`Kept`). One
more sample is kept in its own second, ends what was kept of the others with its slot and
leaves the rest alone (`OneMoreKept`). For the current second the others are earlier ones, and
since seconds of one window have different slots (`SecondsApart`), a whole window earlier at
least: the stragglers `WindowExact` speaks of. Nothing bounds how long a sample may wait.

*The engine.* `EngineInv` has three parts. Of each worker it says what its locals have to do
with one another: what it may owe (`Dues`), that the sessions of its send pass and of its poll
are in its map, that it has no more sessions than it was given, and that no session has more
retries than the limit. Of the workers together it says, by sums, what separates the counters:
requests started from those completed (`UnfinishedOf`), completed from succeeded and failed
(`ResultsDue`), completed from recorded and folded samples (`SamplesDue`), and the retries
counted from what allows them (`Budget`: those the worker's sessions have had, and the limit
once more for each session it has lost and each response not counted yet) and from what must
have led to them (`Spent`, the same without the responses). Of the main thread it says who
raised `stop`, that once the workers are joined they owe nothing, and that the final report
has the counters as they are: `Seen` is the value loaded of a counter, or the present one if
its turn has yet to come. A step of one worker changes one summand of each sum, so it is
enough that the worker's own amounts and the counters move alike (`WorkerStep`); the main
thread's steps leave the sums alone, or move samples from one side to the other
(`DrainKeeps`). `EngineImplementsRun` follows: closing the final report is `End`, `EndTime` is
`EndTime`, and everything else a stutter, for nobody is left to raise `stop`.

*The HTTPS slots.* `HttpsInv` says of each slot what its descriptor, its TLS session and its
connection have to do with where the slot is, which answers its connection still owes, and what
the slot owes the counters, and it has the same two kinds of sums as the engine's. The
refinement needs `ReportInv` besides: the counters agree but for the outcomes and samples the
slots still owe (`CountersAgree`), although a slot counts a request that failed as completed
first and one that was never started as failed first; and who has `stop` to raise has given the
run up, so that a run stopped for no such reason has its requests (`StopKnown`). A step of a
slot is a payment, which moves from what is due to a counter, or makes the slot owe something
that evens out (`OwesAnew`). When the threads are joined nothing is owed, the sums are zero,
and the report is one of `End`'s; every other step is a stutter, because once the slots are
over none of them can move.

*The command queue.* The theorems about the lists assume one submitting thread, which is
what the engine has; with two, `OwnedOnce` is false (section 5), so there is nothing more
general to prove. `WakeupsKept` has no such hypothesis. `ListsIntact` says nothing of the
lists in the threads' hands; `Chains` adds the list being reversed, the one turned round and
the one being deleted, each linked from the local the code follows. `Owned` says that all
nodes ever allocated are in exactly one place, or deleted, so writing the `next` of a node one
holds changes no list (`LinkedElsewhere`). `Hands` is where the hypothesis enters: the node a
caller has loaded as the head of the free list is still in that list when it tries to pop it,
with the `next` it has read, because nobody else pops; then a head that compares equal is the
top of an unchanged list. The push
needs no such argument: it only matters that the head is the value the node points to. The
refinement maps the pending commands to the stack read from the bottom and the batch to what
is collected, then what is not yet turned round, read from the end, then what is: an order
that turning round and collecting leave alone.

*The connections.* `NetInv` is the conjunction of what each property needs. `Maps` is
`MapsAgree` without its gap: while a create is being given up, that connection alone has a
descriptor the map does not lead from, so the second close can hit nobody else of the
worker's. `Queued` says that a connection yet to be created is `Unborn`, and that no command
for it is queued before its create: so a new connection starts its account at zero, and a
close or send never meets one that does not exist yet. `Accounts` also says that a connection
in the map was never reported to have ended; since only a connection in the map is read from,
`NothingAfterError` follows. `NothingForgotten` speaks of the moment the worker goes to wait.
`Edges` says it of every moment: a socket with something to do (`Watched`) has its edge set,
or an event of the batch names it, or the worker is at its connection; what an event does not
name, and what the worker is past or will not read for want of EPOLLIN, is done already or has
its edge set. For that EPOLLOUT must be asked for while anything is pending. Most steps are
of five kinds, with one lemma each: the worker moves (`OnlyMoves`), a connection is removed
(`RemovalKeeps`), a command is queued (`Queues`), a connection and its socket change
(`SocketChanges`), the kernel acts (`KernelKeeps`).

Only model-checked: liveness (`EveryRingIsDrained`, `StopReachesWorkers`, `RunEnds`,
`ConnectSettles`, `ProcessEnds`) and everything in `HttpParser`, `Program` and
`ProgressReport`. Liveness is out of the prover's reach. So is induction over data, on which
`ParsesResponse` rests (the stream is read by recursion) and `AcceptsExactly` (the command
line is folded option by option). So does `GuardOnlyEndsLateRuns`, through the one value it
takes from the command line; beyond that it says that the guard's sleep and what is left of it
add up to the time allowed, and `program` goes through every order of the two threads, the
clock and the signals.

## 5. Where the code and its documentation differ

1. `command_queue_two`: with two submitting threads the pop of the free list
   (`net/network.cpp:183`) can succeed on a node that was used and released meanwhile and
   make a command the list's head that is in use. `net/network.h:86` calls the interface
   thread-safe for several producers. The engine uses one.
2. `guard`: `main` joins the guard thread before it prints the final report
   (`app/main.cpp:116`), and the guard sleeps its whole time: a run that ended in time lasts
   a minute longer, or an hour with `-n`. `app/main.cpp:96` calls the guard's time an upper
   bound.

What else the models made plain, each within a property or a definition that holds:

* With `-n`, sessions whose retries are used up are dropped for good (`core/engine.cpp:295`),
  and once all are, `Run` waits for requests nobody can send until the guard ends the process.
  `README.md:95` and `:104` of the repository promise a run of that many requests.
  `ImplementsRun` says nothing of a run that does not end; `RetryBudget` says when a session
  may be dropped.
* A create that fails after `socket` closes its descriptor twice (`net/network.cpp:416`,
  `476`, `483` and `358`). `ClosesItsOwn` names exactly that step as the only one to close a
  number it may no longer own.
* A request over HTTPS that fails with the retries used up leaves the connection open
  (`core/engine.cpp:441`), and the next one takes the late answer for its own. `AnswersMatch`
  excepts exactly the slots in `kept`.
* `BucketToLatencyUpperNs` returns the lower end of its bucket, so a percentile may be below
  every sample. `Reports` says so.
* `duration_seconds + 60` is computed in `int` (`app/main.cpp:97`), and `ParseArgs` takes any
  duration an `int` holds. Near the maximum the sum is undefined; where it wraps around, the
  guard sleeps a negative time, which is none, and ends the run at once. `GuardOnlyEndsLateRuns`
  and `ProcessEnds` speak of the durations to which the minute can be added.
* `Run` does not drain while it joins its threads (`core/engine.cpp:552`), and a join may last
  longer than the window. What is drained then may be a straggler, which takes off what the
  current second had: the `current qps` of the final report (`cli/report.cpp:116`) may be too
  low. It is never too high. `WindowExact` says exactly when.
* A progress report loads its counters relaxed, one by one (`core/engine.cpp:466`): what it
  shows as completed may be more or less than what it shows as succeeded and failed together,
  and by how much is not bounded. What the ring orders, `ReportCoversSamples` states.
* `PollOnce` asks an iterator whose node it has erased for the connection's id
  (`net/network.cpp:695`, `700`), which is undefined. `MapsAgree` shows that nothing follows
  from it as long as what is read there is not the id of another connection.
* `README.md:103` documents `--duration`; the option is `--time` (`cli/args.cpp`).
* A response without a single header line never leaves the parser's header state, and chunked
  bodies are not understood: they are taken to last until the end of the connection.
* `~SslClient` frees no `WOLFSSL_CTX`; the handler of fatal signals locks a mutex, so a second
  signal of another kind on the same thread would wait for itself. Neither is modelled.

## 6. Abstractions, and what is not modelled

* Counters are mathematical integers: 64-bit ones do not overflow in a run. `bytes_sent`
  and `bytes_received`, and the rates that are a total by the elapsed time, are left out
  everywhere.
* Relaxed loads. `StatsRing` has the stale values of the ring's indices, and `ProgressReport`
  those of the counters, where the order of two loads matters. In `Engine` and `Admission` a
  thread that has not been joined loads single locations only: `completed`, `stop`,
  `started_requests`, `next_token_ns`. There a stale value is that of an earlier load, which
  the interleaving has. `Engine` and `HttpsSlots` load several counters only after the joins,
  which make every value current.
* `PollOnce` iterates over the events of one batch. With the engine's use (one thread submits
  and polls) `ProcessCommands` has emptied `wake_fd` before `epoll_wait`, so no event names it
  and no command runs in the middle of a batch (`net/network.cpp:671-674` is left out), and
  an event's socket is always still its own.
* After a failed connect or send `PollOnce` reads an erased map node. `ErasedId` takes what the
  build can give: the id, which a freed node keeps, or bytes that are no connection's id. That
  it is another's would take a node of the same size allocated and filled in between; the
  events that are reported in between are larger.
* `AcquireCommand` clears the `next` of the node it hands out (`net/network.cpp:185`);
  `EnqueueCommand` writes it again before anybody reads it, so the first store is left out.
* `getopt_long`, `std::stoll` and wolfSSL are external: `Program` takes the options as
  `getopt_long` splits them, `HttpsSlots` each call of wolfSSL with its outcomes.
* Not modelled: the report printer (formatting of numbers `Engine` and `Collector` have),
  `BuildGetRequest` (string concatenation) and `TransactionTimer` (a difference of two clock
  readings), `NetWorker::GetStats` (nothing reads it), thread affinity and socket options (no
  effect on state), the build files.

## 7. The plan

First part (done): `StatsRing` and its ledger, `Admission`, `Engine`, `CommandQueue` and
its FIFO, `NetWorker`, `HttpParser`, `HttpsSlots`; the proofs of the ring and of admission.

Second part (done): `Collector`, `Program`, `BenchmarkRun` and that `Engine` implements it,
`Start` of `NetWorker`, the steps of a TLS connect with its descriptors; the proofs of the
histogram.

Third part (done): the proofs that `StatsRing` implements `SampleLedger` and its report is
exact, that the rate is bounded, that the window is exact, and of the invariants of `Engine`
and `HttpsSlots`; that `Engine` implements `BenchmarkRun`; that `CommandQueue` keeps its
lists, loses no wakeup and implements `CommandFifo`; the safety properties of `NetWorker`.

Fourth part (done): the proofs that the percentiles are those of the samples counted and that
`HttpsSlots` implements `BenchmarkRun`.

Fifth part (done): `ProgressReport` with the memory order of the code, which `Engine` had
taken for sequential consistency; `WindowExact` for samples that wait for any time; the
erased node in `NetWorker`; the durations to which the guard's minute cannot be added.

What is left: a typed invariant of the folded command line, and with it
`GuardOnlyEndsLateRuns` for every time allowed.
