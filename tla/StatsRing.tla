----------------------------- MODULE StatsRing -----------------------------
(***************************************************************************)
(* The statistics path of core/stats.cpp: every worker thread owns a       *)
(* StatsWriter, a lock-free single-producer single-consumer ring, and the  *)
(* main thread drains all the rings into the collector's counters.         *)
(*                                                                         *)
(* Each step is one access to a shared location, so the threads interleave *)
(* exactly where the C++ code lets them.  The index loads follow the C++   *)
(* memory model rather than sequential consistency: a load of the other    *)
(* side's index may return any value between the last one this thread saw  *)
(* and the current one (coherence); an acquire load that returns v makes   *)
(* every ring entry below v visible, because v was stored with release.    *)
(* A thread join makes everything the joined thread did visible.           *)
(***************************************************************************)
EXTENDS Integers, Sequences, FiniteSets, Functions

CONSTANTS
  Writers,     \* the worker threads that call StatsCollector::CreateWriter
  Samples,     \* the RequestSample values they record
  Capacity,    \* ring_capacity, a power of two after NormalizePowerOfTwo
  MaxRecords   \* bound: how many times each writer calls Record

ErrorClass == {"kNone", "kConnectFailed", "kTimeout", "kHttp4xx", "kHttp5xx",
               "kNetworkIo", "kTlsHandshake", "kParseError", "kOther"}

Sample == [http_status : Nat, success : BOOLEAN, error : ErrorClass]

ASSUME WritersAssumption  == IsFiniteSet(Writers)
ASSUME CapacityAssumption == Capacity \in Nat \ {0}
ASSUME SamplesAssumption  == Samples \subseteq Sample
ASSUME BoundAssumption    == MaxRecords \in [Writers -> Nat]

VARIABLES
  \* shared between a writer and the main thread
  ring,          \* WriterState::ring
  write_index,   \* WriterState::write_index, stored by the writer only
  read_index,    \* WriterState::read_index, stored by the main thread only
  dropped,       \* WriterState::dropped
  writers,       \* Impl::writers, guarded by writers_mu
  \* local to a writer
  wpc,           \* where the writer thread is
  sample,        \* the argument of the Record call in progress
  readSeen,      \* the value its last load of read_index returned
  \* local to the main thread
  dpc,           \* where the main thread is
  local_writers, \* the writers Drain still has to visit
  dw,            \* the writer Drain is visiting
  r,             \* Drain's local copy of its read index
  writeSeen,     \* the value its last load of write_index returned
  joined,        \* the threads already joined
  final,         \* is this Drain the one of the report built after the joins
  \* the collector's counters
  total_requests, success_requests, failed_requests, error_counts, dropped_samples,
  \* history
  accepted,      \* the samples each writer published, in order
  offered        \* the finished calls of Record of each writer

writerVars == <<wpc, sample, readSeen>>
drainVars  == <<dpc, local_writers, dw, r, writeSeen, joined, final>>
counters   == <<total_requests, success_requests, failed_requests, error_counts,
                dropped_samples>>
history    == <<accepted, offered>>
vars == <<ring, write_index, read_index, dropped, writers, writerVars, drainVars,
          counters, history>>

\* ring_mask is Capacity - 1 and Capacity a power of two: `& ring_mask` is `% Capacity`.
SlotOf(i) == i % Capacity

\* The entry a slot holds before the first Record: a default-constructed RequestSample.
EmptySample == [http_status |-> 0, success |-> FALSE, error |-> "kNone"]

ErrorIndexFromSample(s) ==
  IF s.http_status \in 500..599 THEN "kHttp5xx"
  ELSE IF s.http_status \in 400..499 THEN "kHttp4xx"
  ELSE s.error

\* The entry of error_counts a counted sample goes to.
ClassOf(s) == IF s.success THEN "kNone" ELSE ErrorIndexFromSample(s)

\* The index of the first sample of w that Drain has not counted yet.
Position(w) == IF dpc = "consume" /\ dw = w THEN r ELSE read_index[w]

Init ==
  /\ ring = [w \in Writers |-> [k \in 0..(Capacity - 1) |-> EmptySample]]
  /\ write_index = [w \in Writers |-> 0]
  /\ read_index = [w \in Writers |-> 0]
  /\ dropped = [w \in Writers |-> 0]
  /\ writers = {}
  /\ wpc = [w \in Writers |-> "new"]
  /\ sample = [w \in Writers |-> EmptySample]
  /\ readSeen = [w \in Writers |-> 0]
  /\ dpc = "idle"
  /\ local_writers = {}
  /\ dw \in Writers
  /\ r = 0
  /\ writeSeen = [w \in Writers |-> 0]
  /\ joined = {}
  /\ final = FALSE
  /\ total_requests = 0
  /\ success_requests = 0
  /\ failed_requests = 0
  /\ error_counts = [e \in ErrorClass |-> 0]
  /\ dropped_samples = 0
  /\ accepted = [w \in Writers |-> <<>>]
  /\ offered = [w \in Writers |-> 0]

-----------------------------------------------------------------------------
(* The writer threads *)

CreateWriter(w) ==
  /\ wpc[w] = "new"
  /\ wpc' = [wpc EXCEPT ![w] = "idle"]
  /\ writers' = writers \cup {w}
  /\ UNCHANGED <<ring, write_index, read_index, dropped, sample, readSeen,
                 drainVars, counters, history>>

\* Record(s): the load of write_index returns the writer's own last store.
RecordLoad(w, s) ==
  /\ wpc[w] = "idle"
  /\ offered[w] < MaxRecords[w]
  /\ \E v \in readSeen[w]..read_index[w] : readSeen' = [readSeen EXCEPT ![w] = v]
  /\ sample' = [sample EXCEPT ![w] = s]
  /\ wpc' = [wpc EXCEPT ![w] = "check"]
  /\ UNCHANGED <<ring, write_index, read_index, dropped, writers, drainVars,
                 counters, history>>

\* Mutant: the drop counter counts down.
RecordDropDown(w) ==
  /\ wpc[w] = "check"
  /\ write_index[w] - readSeen[w] >= Capacity
  /\ dropped' = [dropped EXCEPT ![w] = @ - 1]
  /\ offered' = [offered EXCEPT ![w] = @ + 1]
  /\ wpc' = [wpc EXCEPT ![w] = "idle"]
  /\ UNCHANGED <<ring, write_index, read_index, writers, sample, readSeen, drainVars,
                 counters, accepted>>

RecordDrop(w) ==
  /\ wpc[w] = "check"
  /\ write_index[w] - readSeen[w] >= Capacity
  /\ dropped' = [dropped EXCEPT ![w] = @ + 1]
  /\ offered' = [offered EXCEPT ![w] = @ + 1]
  /\ wpc' = [wpc EXCEPT ![w] = "idle"]
  /\ UNCHANGED <<ring, write_index, read_index, writers, sample, readSeen, drainVars,
                 counters, accepted>>

\* Mutant: the check for a full ring is off by one.
RecordStoreOneMore(w) ==
  /\ wpc[w] = "check"
  /\ write_index[w] - readSeen[w] <= Capacity
  /\ ring' = [ring EXCEPT ![w][SlotOf(write_index[w])] = sample[w]]
  /\ wpc' = [wpc EXCEPT ![w] = "publish"]
  /\ UNCHANGED <<write_index, read_index, dropped, writers, sample, readSeen,
                 drainVars, counters, history>>

RecordStore(w) ==
  /\ wpc[w] = "check"
  /\ write_index[w] - readSeen[w] < Capacity
  /\ ring' = [ring EXCEPT ![w][SlotOf(write_index[w])] = sample[w]]
  /\ wpc' = [wpc EXCEPT ![w] = "publish"]
  /\ UNCHANGED <<write_index, read_index, dropped, writers, sample, readSeen,
                 drainVars, counters, history>>

RecordPublish(w) ==
  /\ wpc[w] = "publish"
  /\ write_index' = [write_index EXCEPT ![w] = @ + 1]
  /\ accepted' = [accepted EXCEPT ![w] = Append(@, sample[w])]
  /\ offered' = [offered EXCEPT ![w] = @ + 1]
  /\ wpc' = [wpc EXCEPT ![w] = "idle"]
  /\ UNCHANGED <<ring, read_index, dropped, writers, sample, readSeen, drainVars,
                 counters>>

\* The worker function returns; one whose NetWorker failed to start never created a writer.
WriterExit(w) ==
  /\ wpc[w] \in {"new", "idle"}
  /\ wpc' = [wpc EXCEPT ![w] = "exited"]
  /\ UNCHANGED <<ring, write_index, read_index, dropped, writers, sample, readSeen,
                 drainVars, counters, history>>

-----------------------------------------------------------------------------
(* The main thread *)

\* Mutant: the thread is waited for without synchronising with what it did.
JoinUnsynchronised(w) ==
  /\ dpc = "idle"
  /\ wpc[w] = "exited"
  /\ w \notin joined
  /\ joined' = joined \cup {w}
  /\ UNCHANGED <<ring, write_index, read_index, dropped, writers, writerVars, dpc,
                 local_writers, dw, r, writeSeen, final, counters, history>>

\* std::thread::join: everything the writer did happens before its return.
Join(w) ==
  /\ dpc = "idle"
  /\ wpc[w] = "exited"
  /\ w \notin joined
  /\ joined' = joined \cup {w}
  /\ writeSeen' = [writeSeen EXCEPT ![w] = write_index[w]]
  /\ UNCHANGED <<ring, write_index, read_index, dropped, writers, writerVars, dpc,
                 local_writers, dw, r, final, counters, history>>

\* The copy of the writer list, made under writers_mu.  Run stops polling once it joins.
DrainBegin ==
  /\ dpc = "idle"
  /\ joined \in {{}, Writers}
  /\ local_writers' = writers
  /\ final' = (joined = Writers)
  /\ dpc' = "next"
  /\ UNCHANGED <<ring, write_index, read_index, dropped, writers, writerVars, dw, r,
                 writeSeen, joined, counters, history>>

\* Mutant: the load of write_index is not atomic and the compiler hoists it.
DrainLoadHoisted(w) ==
  /\ dpc = "next"
  /\ w \in local_writers
  /\ dw' = w
  /\ r' = read_index[w]
  /\ dpc' = "consume"
  /\ UNCHANGED <<ring, write_index, read_index, dropped, writers, writerVars, writeSeen,
                 local_writers, joined, final, counters, history>>

DrainLoad(w) ==
  /\ dpc = "next"
  /\ w \in local_writers
  /\ dw' = w
  /\ r' = read_index[w]
  /\ \E v \in writeSeen[w]..write_index[w] : writeSeen' = [writeSeen EXCEPT ![w] = v]
  /\ dpc' = "consume"
  /\ UNCHANGED <<ring, write_index, read_index, dropped, writers, writerVars,
                 local_writers, joined, final, counters, history>>

\* Mutant: the HTTP status does not override the error class.
RecordFastPathUnclassified(s) ==
  /\ total_requests' = total_requests + 1
  /\ success_requests' = success_requests + (IF s.success THEN 1 ELSE 0)
  /\ failed_requests' = failed_requests + (IF s.success THEN 0 ELSE 1)
  /\ error_counts' = [error_counts EXCEPT ![s.error] = @ + 1]

RecordFastPath(s) ==
  /\ total_requests' = total_requests + 1
  /\ success_requests' = success_requests + (IF s.success THEN 1 ELSE 0)
  /\ failed_requests' = failed_requests + (IF s.success THEN 0 ELSE 1)
  /\ error_counts' = [error_counts EXCEPT ![ClassOf(s)] = @ + 1]

DrainOne ==
  /\ dpc = "consume"
  /\ r < writeSeen[dw]
  /\ RecordFastPath(ring[dw][SlotOf(r)])
  /\ r' = r + 1
  /\ UNCHANGED <<ring, write_index, read_index, dropped, writers, writerVars, dpc,
                 local_writers, dw, writeSeen, joined, final, dropped_samples, history>>

\* Mutant: read_index is stored one too far.
DrainPublishBeyond ==
  /\ dpc = "consume"
  /\ r >= writeSeen[dw]
  /\ read_index' = [read_index EXCEPT ![dw] = r + 1]
  /\ dpc' = "dropped"
  /\ UNCHANGED <<ring, write_index, dropped, writers, writerVars, local_writers, dw, r,
                 writeSeen, joined, final, counters, history>>

DrainPublish ==
  /\ dpc = "consume"
  /\ r >= writeSeen[dw]
  /\ read_index' = [read_index EXCEPT ![dw] = r]
  /\ dpc' = "dropped"
  /\ UNCHANGED <<ring, write_index, dropped, writers, writerVars, local_writers, dw, r,
                 writeSeen, joined, final, counters, history>>

\* dropped.exchange(0): a read-modify-write, so it returns the latest value.
DrainDropped ==
  /\ dpc = "dropped"
  /\ dropped_samples' = dropped_samples + dropped[dw]
  /\ dropped' = [dropped EXCEPT ![dw] = 0]
  /\ local_writers' = local_writers \ {dw}
  /\ dpc' = "next"
  /\ UNCHANGED <<ring, write_index, read_index, writers, writerVars, dw, r, writeSeen,
                 joined, final, total_requests, success_requests, failed_requests,
                 error_counts, history>>

\* The end of Drain; after the drain of the final report the main thread is done.
DrainEnd ==
  /\ dpc = "next"
  /\ local_writers = {}
  /\ dpc' = IF final THEN "done" ELSE "idle"
  /\ UNCHANGED <<ring, write_index, read_index, dropped, writers, writerVars,
                 local_writers, dw, r, writeSeen, joined, final, counters, history>>

-----------------------------------------------------------------------------
WriterNext(w) ==
  \/ CreateWriter(w)
  \/ \E s \in Samples : RecordLoad(w, s)
  \/ RecordDrop(w)
  \/ RecordStore(w)
  \/ RecordPublish(w)
  \/ WriterExit(w)

DrainNext ==
  \/ \E w \in Writers : Join(w)
  \/ DrainBegin
  \/ \E w \in Writers : DrainLoad(w)
  \/ DrainOne
  \/ DrainPublish
  \/ DrainDropped
  \/ DrainEnd

\* The report is out and every thread joined: the program stops here.
Terminated == dpc = "done" /\ UNCHANGED vars

Next ==
  \/ \E w \in Writers : WriterNext(w)
  \/ DrainNext
  \/ Terminated

Spec == Init /\ [][Next]_vars

\* A Record call in progress never blocks; a worker returns once stop is raised, which
\* Run does before it joins; the main thread blocks only in a join.  A store becomes
\* visible in finite time (C++ [intro.progress]): the loads of write_index do not return
\* an old value for ever.
Fairness ==
  /\ \A w \in Writers : WF_vars(RecordDrop(w) \/ RecordStore(w) \/ RecordPublish(w))
  /\ \A w \in Writers : WF_vars(WriterExit(w))
  /\ WF_vars(DrainNext)
  /\ \A w \in Writers : SF_vars(DrainLoad(w) /\ writeSeen'[w] = write_index[w])

FairSpec == Spec /\ Fairness

-----------------------------------------------------------------------------
(* Properties *)

\* Every variable has its type.
TypeOK ==
  /\ ring \in [Writers -> [0..(Capacity - 1) -> Sample]]
  /\ write_index \in [Writers -> Nat]
  /\ read_index \in [Writers -> Nat]
  /\ dropped \in [Writers -> Nat]
  /\ writers \subseteq Writers
  /\ wpc \in [Writers -> {"new", "idle", "check", "publish", "exited"}]
  /\ sample \in [Writers -> Sample]
  /\ readSeen \in [Writers -> Nat]
  /\ dpc \in {"idle", "next", "consume", "dropped", "done"}
  /\ local_writers \subseteq Writers
  /\ dw \in Writers
  /\ r \in Nat
  /\ writeSeen \in [Writers -> Nat]
  /\ joined \subseteq Writers
  /\ final \in BOOLEAN
  /\ total_requests \in Nat
  /\ success_requests \in Nat
  /\ failed_requests \in Nat
  /\ error_counts \in [ErrorClass -> Nat]
  /\ dropped_samples \in Nat
  /\ accepted \in [Writers -> Seq(Sample)]
  /\ offered \in [Writers -> Nat]

\* The writer is about to overwrite, or has just overwritten, the slot of its write index.
WritesSlot(w) == wpc[w] = "publish" \/ (wpc[w] = "check" /\ write_index[w] - readSeen[w] < Capacity)

\* A writer and the main thread never touch the same ring entry at the same time: the
\* entries are plain memory, and only the two indices keep Record (stats.cpp:306-313) and
\* Drain (stats.cpp:145-153) apart, although each side may act on a stale index.
NoSlotRace ==
  \A w \in Writers :
    WritesSlot(w) /\ dpc = "consume" /\ dw = w /\ r < writeSeen[w]
      => SlotOf(write_index[w]) # SlotOf(r)

\* Until Drain has counted it, a published sample is in its slot, unchanged: no later
\* Record of the writer that wrapped around the ring has overwritten it.
UnreadIntact ==
  \A w \in Writers : \A i \in Position(w)..(write_index[w] - 1) :
    ring[w][SlotOf(i)] = accepted[w][i + 1]

\* The ring never holds more than Capacity samples, whatever stale index Record used.
NeverOverfull == \A w \in Writers : write_index[w] - read_index[w] <= Capacity

\* How the indices of one ring, and the copies each side holds of them, are ordered.
IndicesOrdered(w) ==
  /\ readSeen[w] <= read_index[w]
  /\ read_index[w] <= Position(w)
  /\ Position(w) <= writeSeen[w]
  /\ writeSeen[w] <= write_index[w]
  /\ write_index[w] - readSeen[w] <= Capacity
  /\ wpc[w] = "publish" => write_index[w] - readSeen[w] < Capacity
  /\ write_index[w] = Len(accepted[w])

\* The samples counted so far, each with its writer and its place among that writer's.
CountedSamples == UNION {{<<w, i>> : i \in 1..Position(w)} : w \in Writers}

SampleAt(p) == accepted[p[1]][p[2]]

\* The collector's counters are exactly those of the samples the writers published below
\* each read position: nothing is lost, counted twice or torn on the way through the ring;
\* and in the report built after the joins (engine.cpp:558) every Record call of every
\* writer is accounted for, as a counted or as a dropped sample.
CountersMatchSamples ==
  /\ total_requests = Cardinality(CountedSamples)
  /\ success_requests = Cardinality({p \in CountedSamples : SampleAt(p).success})
  /\ failed_requests = Cardinality({p \in CountedSamples : ~SampleAt(p).success})
  /\ \A e \in ErrorClass :
       error_counts[e] = Cardinality({p \in CountedSamples : ClassOf(SampleAt(p)) = e})
  /\ dpc = "done" => total_requests + dropped_samples = SumFunction(offered)

\* Each side's stale copy of the other's index errs on the safe side, a stored entry waits
\* for its publication, and no unread entry is overwritten.
RingInvAt(w) ==
  /\ IndicesOrdered(w)
  /\ wpc[w] = "publish" => ring[w][SlotOf(write_index[w])] = sample[w]
  /\ \A i \in Position(w)..(write_index[w] - 1) : ring[w][SlotOf(i)] = accepted[w][i + 1]

RingInv == \A w \in Writers : RingInvAt(w)

\* All that w recorded is counted and all that it dropped is known.
Settled(w) == read_index[w] = write_index[w] /\ dropped[w] = 0

\* What makes the last Drain final: it starts when every thread is joined, so what it
\* loads is current and nothing is recorded behind its back, and it visits every writer
\* that may hold something.
DrainInv ==
  /\ \A w \in Writers : wpc[w] \in {"check", "publish"} => sample[w] \in Samples
  /\ \A w \in joined : wpc[w] = "exited" /\ writeSeen[w] = write_index[w]
  /\ \A w \in Writers \ writers :
       wpc[w] \in {"new", "exited"} /\ write_index[w] = 0 /\ dropped[w] = 0
  /\ dpc \in {"consume", "dropped"} => dw \in local_writers
  /\ dpc = "idle" => ~final
  /\ dpc = "done" => final /\ local_writers = {}
  /\ final => joined = Writers /\ \A w \in Writers \ local_writers : Settled(w)
  /\ final /\ dpc = "dropped" => read_index[dw] = write_index[dw]

\* Every finished call of Record is one published sample, or one drop that is still in the
\* writer's counter or known to the collector; and each read position is the number of
\* samples counted from its ring.
RecordsAddUp ==
  /\ SumFunction(offered) = SumFunction(write_index) + SumFunction(dropped) + dropped_samples
  /\ total_requests = SumFunction([w \in Writers |-> Position(w)])

\* The inductive invariant behind the properties above and the refinement below
\* (stats.cpp:129-158, 299-316; engine.cpp:548-558).
StatsInv == RingInv /\ DrainInv /\ RecordsAddUp

\* The rings implement the ledger: the samples that wait are those published at or above
\* the read position (stats.cpp:145-155, 306-313).
Ledger == INSTANCE SampleLedger WITH
  waiting <- [w \in Writers |-> SubSeq(accepted[w], Position(w) + 1, write_index[w])],
  puts    <- write_index,
  lost    <- dropped,
  closed  <- dpc = "done"

ImplementsLedger == Ledger!Spec

\* Drain catches up with every writer again and again, however stale its loads are: what
\* was published does not stay in a ring for ever.
EveryRingIsDrained == \A w \in Writers : []<>(read_index[w] = write_index[w])
=============================================================================
