----------------------------- MODULE Collector -----------------------------
(***************************************************************************)
(* What StatsCollector (core/stats.cpp) makes of a counted sample beyond   *)
(* the totals of StatsRing: the latency histogram with its percentiles,    *)
(* the extremes and the sum, and the table of per-second counts.  The      *)
(* rings are taken by their contract, SampleLedger: each hands its samples *)
(* over in order, some time after they were stamped.                       *)
(*                                                                         *)
(* Only the main thread drains and takes snapshots, so each RecordFastPath *)
(* is one step.  Snapshot changes nothing: it is a function of the state,  *)
(* and the properties hold of it in every state, in the middle of a drain  *)
(* as well.                                                                *)
(***************************************************************************)
EXTENDS Integers, Sequences, Bags, Functions, FiniteSets

CONSTANTS
  Writers,      \* the rings
  Latencies,    \* RequestSample::latency_ns of the samples recorded
  kNsPerUs,     \* nanoseconds in a microsecond
  NsPerSecond,  \* nanoseconds in a second, for the timestamps
  qps_slot_count,
  MaxSamples,   \* bound: how many samples are recorded
  MaxNow        \* bound: when the clock stops

ASSUME UnitsAssumption  == kNsPerUs \in Nat \ {0} /\ NsPerSecond \in Nat \ {0}
ASSUME SamplesAssumption == Latencies \subseteq Nat /\ MaxSamples \in Nat
ASSUME WindowAssumption == qps_slot_count \in Nat \ {0} /\ MaxNow \in Nat

kLatencyBucketCount == 11891

VARIABLES
  now,              \* the steady clock
  waiting,          \* the samples published in each ring and not yet drained
  total_requests, latency_sum_ns, latency_histogram,
  min_latency_ns,   \* Unset until the first sample
  max_latency_ns,
  qps_slots,
  counted           \* history: the samples counted

rings == <<now, waiting>>
vars == <<rings, total_requests, latency_sum_ns, latency_histogram, min_latency_ns,
          max_latency_ns, qps_slots, counted>>

\* std::numeric_limits<std::uint64_t>::max(): above every latency.
Unset == -1

Second(ns) == ns \div NsPerSecond

Init ==
  /\ now \in {0, NsPerSecond}
  /\ waiting = [w \in Writers |-> <<>>]
  /\ total_requests = 0
  /\ latency_sum_ns = 0
  /\ latency_histogram = EmptyBag
  /\ min_latency_ns = Unset
  /\ max_latency_ns = 0
  /\ qps_slots = [i \in 0..(qps_slot_count - 1) |-> [second |-> 0, count |-> 0]]
  /\ counted = <<>>

-----------------------------------------------------------------------------
(* Histogram: buckets of 1 us up to 1 ms, of 100 us up to 100 ms, of 1 ms up to 10 s. *)

\* Mutant: the last range starts one bucket late.
LatencyToBucketShifted(latency_ns) ==
  LET us == latency_ns \div kNsPerUs
  IN  IF us <= 1000 THEN us
      ELSE IF us <= 100000 THEN 1000 + (us - 1000) \div 100
      ELSE IF us <= 10000000 THEN 1991 + (us - 100000) \div 1000
      ELSE kLatencyBucketCount - 1

LatencyToBucket(latency_ns) ==
  LET us == latency_ns \div kNsPerUs
  IN  IF us <= 1000 THEN us
      ELSE IF us <= 100000 THEN 1000 + (us - 1000) \div 100
      ELSE IF us <= 10000000 THEN 1990 + (us - 100000) \div 1000
      ELSE kLatencyBucketCount - 1

\* The name notwithstanding, the lower end of the bucket.
BucketToLatencyUpperNs(bucket) ==
  kNsPerUs * (IF bucket <= 1000 THEN bucket
              ELSE IF bucket <= 1990 THEN 1000 + (bucket - 1000) * 100
              ELSE 100000 + (bucket - 1990) * 1000)

\* The rank of a percentile: `pct * total` cut off, and at least 1.
Target(percent) ==
  LET rank == (percent * total_requests) \div 100 IN IF rank = 0 THEN 1 ELSE rank

Cumulative(bucket) ==
  SumFunctionOnSet(latency_histogram, {b \in DOMAIN latency_histogram : b <= bucket})

GetPercentileNs(percent) ==
  LET reached == {b \in DOMAIN latency_histogram : Cumulative(b) >= Target(percent)}
  IN  BucketToLatencyUpperNs(CHOOSE b \in reached : \A c \in reached : b <= c)

-----------------------------------------------------------------------------
(* The window of seconds *)

\* Mutant: a slot claimed for another second keeps its count.
UpdateQpsKeepsCount(sec) ==
  LET i == sec % qps_slot_count
  IN  qps_slots' = [qps_slots EXCEPT ![i] = [second |-> sec, count |-> @.count + 1]]

UpdateQps(sec) ==
  LET i     == sec % qps_slot_count
      count == IF qps_slots[i].second = sec THEN qps_slots[i].count ELSE 0
  IN  qps_slots' = [qps_slots EXCEPT ![i] = [second |-> sec, count |-> count + 1]]

QpsCurrentSecond ==
  LET slot == qps_slots[Second(now) % qps_slot_count]
  IN  IF slot.second = Second(now) THEN slot.count ELSE 0

-----------------------------------------------------------------------------
Recorded == Len(counted) + SumFunction([w \in Writers |-> Len(waiting[w])])

\* RecordSample: every caller stamps its sample with NowNs().
Record(w, latency) ==
  /\ Recorded < MaxSamples
  /\ waiting' = [waiting EXCEPT ![w] = Append(@, [timestamp_ns |-> now, latency_ns |-> latency])]
  /\ UNCHANGED <<now, total_requests, latency_sum_ns, latency_histogram, min_latency_ns,
                 max_latency_ns, qps_slots, counted>>

\* Drain takes the next sample of a ring: RecordFastPath.
RecordFastPath(w) ==
  /\ waiting[w] # <<>>
  /\ LET sample  == Head(waiting[w])
         latency == sample.latency_ns
         \* A timestamp of zero stands for none: the time of the drain is taken instead.
         stamp   == IF sample.timestamp_ns = 0 THEN now ELSE sample.timestamp_ns
     IN  /\ total_requests' = total_requests + 1
         /\ latency_sum_ns' = latency_sum_ns + latency
         /\ latency_histogram' =
              latency_histogram (+) SetToBag({LatencyToBucket(latency)})
         /\ min_latency_ns' = IF min_latency_ns = Unset \/ latency < min_latency_ns
                              THEN latency ELSE min_latency_ns
         /\ max_latency_ns' = IF latency > max_latency_ns THEN latency ELSE max_latency_ns
         /\ UpdateQps(Second(stamp))
         /\ counted' = Append(counted, [timestamp_ns |-> stamp, latency_ns |-> latency])
  /\ waiting' = [waiting EXCEPT ![w] = Tail(@)]
  /\ UNCHANGED now

\* Nothing bounds how long a sample waits: Run drains every 20 ms while it polls, but not at
\* all from the moment stop is raised until the slowest thread is joined.
Tick ==
  /\ now < MaxNow
  /\ now' = now + 1
  /\ UNCHANGED <<waiting, total_requests, latency_sum_ns, latency_histogram,
                 min_latency_ns, max_latency_ns, qps_slots, counted>>

\* The bounds are reached and the rings drained.
Terminated ==
  /\ now = MaxNow /\ Len(counted) = MaxSamples
  /\ UNCHANGED vars

Next ==
  \/ \E w \in Writers : \E latency \in Latencies : Record(w, latency)
  \/ \E w \in Writers : RecordFastPath(w)
  \/ Tick \/ Terminated

Spec == Init /\ [][Next]_vars

-----------------------------------------------------------------------------
(* Snapshot and its properties *)

Snapshot ==
  [ avg |-> latency_sum_ns \div total_requests,
    min |-> min_latency_ns, max |-> max_latency_ns,
    p50 |-> GetPercentileNs(50), p95 |-> GetPercentileNs(95), p99 |-> GetPercentileNs(99) ]

\* l is a latency that at least rank of the counted samples do not exceed, the smallest one.
IsOrderStatistic(l, rank) ==
  LET AtMost(x) == Cardinality({i \in DOMAIN counted : counted[i].latency_ns <= x})
  IN  /\ AtMost(l) >= rank
      /\ \A i \in DOMAIN counted :
           counted[i].latency_ns < l => AtMost(counted[i].latency_ns) < rank

\* p reports the latency l: it is the lower end of l's bucket.
Reports(p, l) == p <= l /\ LatencyToBucket(p) = LatencyToBucket(l)

\* A percentile of a snapshot is the lower end of the bucket of the exact order statistic,
\* never that of a neighbour, at every boundary of the histogram's three ranges and beyond
\* its end; so the percentiles are in order and at most the maximum, and the average lies
\* between the extremes (stats.cpp:35-57, 179-191, 235-251).
SnapshotBracketed ==
  total_requests > 0 =>
    LET out == Snapshot
        Exact(p, percent) == \E i \in DOMAIN counted :
          /\ IsOrderStatistic(counted[i].latency_ns, Target(percent))
          /\ Reports(p, counted[i].latency_ns)
    IN  /\ Exact(out.p50, 50) /\ Exact(out.p95, 95) /\ Exact(out.p99, 99)
        /\ out.p50 <= out.p95 /\ out.p95 <= out.p99 /\ out.p99 <= out.max
        /\ out.min <= out.avg /\ out.avg <= out.max

\* The count shown for the current second s is that of the samples stamped in it and drained
\* since the last straggler: one that shares the slot of s and is qps_slot_count seconds older
\* or more, whose draining claims the slot back and takes off what was counted there.  Nothing
\* else disturbs the count: neither the slot's earlier second nor a late sample of any other
\* second; and it is never too high (stats.cpp:197-201, 222-233).
WindowExact ==
  LET s == Second(now)
      Straggler(j) ==
        LET t == Second(counted[j].timestamp_ns)
        IN  t % qps_slot_count = s % qps_slot_count /\ t + qps_slot_count <= s
  IN  QpsCurrentSecond =
        Cardinality({i \in DOMAIN counted :
          /\ Second(counted[i].timestamp_ns) = s
          /\ \A j \in DOMAIN counted : j > i => ~Straggler(j)})
=============================================================================
