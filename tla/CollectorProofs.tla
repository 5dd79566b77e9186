--------------------------- MODULE CollectorProofs ---------------------------
(***************************************************************************)
(* The histogram of Collector for every latency and every unit: each       *)
(* latency has a bucket, the value reported for a bucket is the smallest   *)
(* latency in it, and buckets are in the order of the latencies.  With     *)
(* that, for any samples: the percentiles of a snapshot are those of the   *)
(* samples counted, and so are the extremes.  And the window of seconds:   *)
(* the count shown for the current second is exact, but for stragglers.    *)
(***************************************************************************)
EXTENDS Collector, SumProofs, FiniteSetTheorems, SequenceTheorems, TLAPS

USE UnitsAssumption, WindowAssumption, SamplesAssumption

\* (Zenon counts in successors, and gives up on the numbers of this module.)

\* Microseconds: the quotient of a latency, and that of a whole number of them.
LEMMA QuotientBounds ==
  ASSUME NEW l \in Nat
  PROVE  /\ l \div kNsPerUs \in Nat
         /\ kNsPerUs * (l \div kNsPerUs) <= l
         /\ l < kNsPerUs * (l \div kNsPerUs + 1)
  BY SMTT(30)

\* A multiple is its own quotient.
LEMMA QuotientOfProduct ==
  ASSUME NEW b \in Nat
  PROVE  kNsPerUs * b \in Nat /\ (kNsPerUs * b) \div kNsPerUs = b
  BY SMTT(30)

-----------------------------------------------------------------------------
\* The bucket of a number of whole microseconds.
BucketOf(us) ==
  IF us <= 1000 THEN us
  ELSE IF us <= 100000 THEN 1000 + (us - 1000) \div 100
  ELSE IF us <= 10000000 THEN 1990 + (us - 100000) \div 1000
  ELSE 11890

\* The buckets of each range of the histogram.
LEMMA BucketOfRanges ==
  ASSUME NEW us \in Nat
  PROVE  /\ BucketOf(us) \in Nat
         /\ us <= 1000 => BucketOf(us) <= 1000
         /\ us > 1000 /\ us <= 100000 => BucketOf(us) >= 1000 /\ BucketOf(us) <= 1990
         /\ us > 100000 /\ us <= 10000000 => BucketOf(us) >= 1990 /\ BucketOf(us) <= 11890
         /\ us > 10000000 => BucketOf(us) = 11890
<1>. DEFINE q == (us - 1000) \div 100
            p == (us - 100000) \div 1000
<1>1. us > 1000 /\ us <= 100000 => q \in Nat /\ q <= 990
  BY SMTT(30)
<1>2. us > 100000 /\ us <= 10000000 => p \in Nat /\ p <= 9900
  BY SMTT(30)
<1>3. BucketOf(us) = IF us <= 1000 THEN us
                     ELSE IF us <= 100000 THEN 1000 + q
                     ELSE IF us <= 10000000 THEN 1990 + p
                     ELSE 11890
  BY SMTT(30) DEF BucketOf
<1>. HIDE DEF q, p
<1>4. CASE us <= 1000
  BY SMTT(30), <1>3, <1>4
<1>5. CASE us > 1000 /\ us <= 100000
  BY SMTT(30), <1>1, <1>3, <1>5
<1>6. CASE us > 100000 /\ us <= 10000000
  BY SMTT(30), <1>2, <1>3, <1>6
<1>7. CASE us > 10000000
  BY SMTT(30), <1>3, <1>7
<1>. QED BY SMTT(30), <1>4, <1>5, <1>6, <1>7

\* More microseconds are never in an earlier bucket.
LEMMA BucketOfGrows ==
  ASSUME NEW u \in Nat, NEW v \in Nat, u <= v
  PROVE  BucketOf(u) <= BucketOf(v)
<1>1. CASE v <= 1000
  BY SMTT(30), <1>1 DEF BucketOf
<1>2. CASE u > 1000 /\ v <= 100000
  BY SMTT(30), <1>2 DEF BucketOf
<1>3. CASE u > 100000 /\ v <= 10000000
  BY SMTT(30), <1>3 DEF BucketOf
<1>4. CASE u <= 1000 /\ v > 1000
  BY SMTT(30), <1>4, BucketOfRanges
<1>5. CASE u <= 100000 /\ v > 100000
  BY SMTT(30), <1>5, BucketOfRanges
<1>6. CASE v > 10000000
  BY SMTT(30), <1>6, BucketOfRanges
<1>. QED BY SMTT(30), <1>1, <1>2, <1>3, <1>4, <1>5, <1>6

\* The bucket depends on the whole microseconds only.
LEMMA IsBucketOf ==
  ASSUME NEW latency_ns \in Nat
  PROVE  LatencyToBucket(latency_ns) = BucketOf(latency_ns \div kNsPerUs)
  BY SMTT(30) DEF LatencyToBucket, BucketOf, kLatencyBucketCount

\* The whole microseconds reported for a bucket.
ReportedUs(b) ==
  IF b <= 1000 THEN b
  ELSE IF b <= 1990 THEN 1000 + (b - 1000) * 100
  ELSE 100000 + (b - 1990) * 1000

\* They are in the bucket, and no more than any others in it.
LEMMA ReportedInBucket ==
  ASSUME NEW us \in Nat
  PROVE  /\ ReportedUs(BucketOf(us)) \in Nat
         /\ ReportedUs(BucketOf(us)) <= us
         /\ BucketOf(ReportedUs(BucketOf(us))) = BucketOf(us)
<1>1. CASE us <= 1000
  BY SMTT(30), <1>1 DEF BucketOf, ReportedUs
<1>2. CASE us > 1000 /\ us <= 100000
  <2>. DEFINE q == (us - 1000) \div 100
  <2>1. q \in Nat /\ q <= 990 /\ 100 * q <= us - 1000 /\ us < 1000 + 100 * q + 100
    BY SMTT(30), <1>2
  <2>2. BucketOf(us) = 1000 + q
    BY SMTT(30), <1>2 DEF BucketOf
  <2>. HIDE DEF q
  <2>3. ReportedUs(1000 + q) = 1000 + q * 100
    BY SMTT(30), <2>1 DEF ReportedUs
  <2>4. BucketOf(1000 + q * 100) = 1000 + q
    BY SMTT(30), <2>1 DEF BucketOf
  <2>. QED BY SMTT(30), <2>1, <2>2, <2>3, <2>4
<1>3. CASE us > 100000 /\ us <= 10000000
  <2>. DEFINE q == (us - 100000) \div 1000
  <2>1. q \in Nat /\ q <= 9900 /\ 1000 * q <= us - 100000
    BY SMTT(30), <1>3
  <2>2. BucketOf(us) = 1990 + q
    BY SMTT(30), <1>3 DEF BucketOf
  <2>. HIDE DEF q
  <2>3. ReportedUs(1990 + q) = 100000 + q * 1000
    BY SMTT(30), <2>1 DEF ReportedUs
  <2>4. BucketOf(100000 + q * 1000) = 1990 + q
    BY SMTT(30), <2>1 DEF BucketOf
  <2>. QED BY SMTT(30), <2>1, <2>2, <2>3, <2>4
<1>4. CASE us > 10000000
  <2>1. BucketOf(us) = 11890
    BY SMTT(30), <1>4 DEF BucketOf
  <2>2. ReportedUs(11890) = 10000000
    BY SMTT(30) DEF ReportedUs
  <2>3. BucketOf(10000000) = 11890
    BY SMTT(30) DEF BucketOf
  <2>. QED BY SMTT(30), <1>4, <2>1, <2>2, <2>3
<1>. QED BY SMTT(30), <1>1, <1>2, <1>3, <1>4

-----------------------------------------------------------------------------
\* Every latency falls into a bucket of the histogram, also one beyond 10 s: the index
\* never leaves the array (stats.cpp:35-47, 126-127).
THEOREM BucketExists ==
  ASSUME NEW latency_ns \in Nat
  PROVE  LatencyToBucket(latency_ns) \in 0..(kLatencyBucketCount - 1)
<1>. DEFINE us == latency_ns \div kNsPerUs
<1>1. us \in Nat
  BY SMTT(30), QuotientBounds
<1>2. LatencyToBucket(latency_ns) = BucketOf(us)
  BY SMTT(30), IsBucketOf
<1>. HIDE DEF us
<1>3. BucketOf(us) \in Nat /\ BucketOf(us) <= 11890
  BY SMTT(30), <1>1, BucketOfRanges
<1>4. \A b \in Nat : b <= 11890 => b \in 0..(kLatencyBucketCount - 1)
  BY SMTT(30) DEF kLatencyBucketCount
<1>5. BucketOf(us) \in 0..(kLatencyBucketCount - 1)
  BY SMTT(30), <1>3, <1>4
<1>. QED BY SMTT(30), <1>2, <1>5

\* The value BucketToLatencyUpperNs gives for the bucket of a latency is at most the latency
\* and falls into the same bucket: a percentile never reports a neighbouring bucket, whatever
\* was measured (stats.cpp:35-57, 235-251).
THEOREM BucketReported ==
  ASSUME NEW latency_ns \in Nat
  PROVE  Reports(BucketToLatencyUpperNs(LatencyToBucket(latency_ns)), latency_ns)
<1>. DEFINE us  == latency_ns \div kNsPerUs
<1>1. us \in Nat /\ kNsPerUs * us <= latency_ns
  BY SMTT(30), QuotientBounds
<1>2. LatencyToBucket(latency_ns) = BucketOf(us)
  BY SMTT(30), IsBucketOf
<1>. HIDE DEF us
<1>3. PICK low \in Nat : /\ low = ReportedUs(BucketOf(us)) /\ low <= us
                         /\ BucketOf(low) = BucketOf(us)
  BY SMTT(30), <1>1, ReportedInBucket
<1>4. BucketToLatencyUpperNs(BucketOf(us)) = kNsPerUs * low
  BY SMTT(30), <1>3 DEF BucketToLatencyUpperNs, ReportedUs
<1>5. kNsPerUs * low \in Nat /\ (kNsPerUs * low) \div kNsPerUs = low
  BY SMTT(30), <1>3, QuotientOfProduct
<1>6. LatencyToBucket(kNsPerUs * low) = BucketOf(low)
  BY SMTT(30), <1>5, IsBucketOf
<1>7. kNsPerUs * low <= latency_ns
  BY SMTT(30), <1>1, <1>3
<1>. QED BY SMTT(30), <1>2, <1>3, <1>4, <1>6, <1>7 DEF Reports

\* A longer latency is never in an earlier bucket, so the ranks the histogram counts are
\* those of the latencies.
THEOREM BucketsInOrder ==
  ASSUME NEW l \in Nat, NEW m \in Nat, l <= m
  PROVE  LatencyToBucket(l) <= LatencyToBucket(m)
<1>. DEFINE u == l \div kNsPerUs
            v == m \div kNsPerUs
<1>1. /\ u \in Nat /\ kNsPerUs * u <= l
      /\ v \in Nat /\ m < kNsPerUs * (v + 1)
  BY SMTT(30), QuotientBounds
<1>2. LatencyToBucket(l) = BucketOf(u) /\ LatencyToBucket(m) = BucketOf(v)
  BY SMTT(30), IsBucketOf
<1>. HIDE DEF u, v
<1>3. u <= v
  <2>. SUFFICES ASSUME u >= v + 1 PROVE FALSE
    BY SMTT(30), <1>1
  <2>1. kNsPerUs * (v + 1) <= kNsPerUs * u
    BY SMTT(30), <1>1
  <2>2. kNsPerUs * (v + 1) \in Nat /\ kNsPerUs * u \in Nat
    BY SMTT(30), <1>1
  <2>. QED BY SMTT(30), <1>1, <2>1, <2>2
<1>. QED BY SMTT(30), <1>1, <1>2, <1>3, BucketOfGrows

-----------------------------------------------------------------------------
(* The window of seconds *)

\* What is waiting or counted, as far as the window of seconds goes.
Stamped == [timestamp_ns : Nat, latency_ns : Nat]
Slots   == 0..(qps_slot_count - 1)
Sec(e)  == Second(e.timestamp_ns)
Slot(t) == t % qps_slot_count

WindowTypes ==
  /\ now \in Nat
  /\ waiting \in [Writers -> Seq(Stamped)]
  /\ counted \in Seq(Stamped)
  /\ qps_slots \in [Slots -> [second : Nat, count : Nat]]

\* Those of the samples s that are stamped in the second t and not followed by one of another
\* second with the same slot.
Kept(s, t) ==
  {i \in DOMAIN s : /\ Sec(s[i]) = t
                    /\ \A j \in DOMAIN s : j > i /\ Slot(Sec(s[j])) = Slot(t) => Sec(s[j]) = t}

\* The slot of t counts them, or belongs to another second and there are none.
SlotExact(t) ==
  LET slot == qps_slots[Slot(t)]
  IN  IF slot.second = t THEN slot.count = Cardinality(Kept(counted, t))
      ELSE Kept(counted, t) = {}

\* Nothing is ahead of the clock, and every second's slot is exact in this sense.
CountedInPast == \A i \in DOMAIN counted : Sec(counted[i]) <= Second(now)
WaitingInPast == \A w \in Writers : \A i \in DOMAIN waiting[w] : Sec(waiting[w][i]) <= Second(now)
SlotsExact    == \A t \in Nat : SlotExact(t)

WindowInv == WindowTypes /\ CountedInPast /\ WaitingInPast /\ SlotsExact

\* Seconds do not fall behind or skip.
LEMMA SecondSteps ==
  ASSUME NEW n \in Nat
  PROVE  /\ Second(n) \in Nat
         /\ Second(n + 1) \in {Second(n), Second(n) + 1}
<1>. DEFINE a == n \div NsPerSecond
            b == (n + 1) \div NsPerSecond
<1>1. /\ a \in Nat /\ NsPerSecond * a <= n /\ n < NsPerSecond * a + NsPerSecond
      /\ b \in Nat /\ NsPerSecond * b <= n + 1 /\ n + 1 < NsPerSecond * b + NsPerSecond
  BY SMTT(30)
<1>2. Second(n) = a /\ Second(n + 1) = b
  BY DEF Second
<1>. HIDE DEF a, b
<1>3. CASE b <= a - 1
  <2>1. NsPerSecond * (b + 1) <= NsPerSecond * a
    BY SMTT(30), <1>1, <1>3
  <2>. QED BY SMTT(30), <1>1, <2>1
<1>4. CASE b >= a + 2
  <2>1. NsPerSecond * (a + 2) <= NsPerSecond * b
    BY SMTT(30), <1>1, <1>4
  <2>. QED BY SMTT(30), <1>1, <2>1
<1>. QED BY SMTT(30), <1>1, <1>2, <1>3, <1>4

\* The second of a stamp.
LEMMA StampSeconds ==
  ASSUME NEW q \in Seq(Stamped)
  PROVE  \A i \in DOMAIN q : Sec(q[i]) \in Nat
<1>. TAKE i \in DOMAIN q
<1>1. q[i] \in Stamped
  OBVIOUS
<1>. QED BY <1>1, SecondSteps DEF Stamped, Sec

\* Two seconds of one window have different slots.
LEMMA SecondsApart ==
  ASSUME NEW t \in Nat, NEW u \in Nat, t < u, u < t + qps_slot_count
  PROVE  t % qps_slot_count # u % qps_slot_count
<1>. DEFINE a == t \div qps_slot_count
            b == u \div qps_slot_count
<1>1. /\ t = qps_slot_count * a + (t % qps_slot_count) /\ a \in Nat
      /\ u = qps_slot_count * b + (u % qps_slot_count) /\ b \in Nat
  BY SMTT(30)
<1>. SUFFICES ASSUME t % qps_slot_count = u % qps_slot_count PROVE FALSE
  OBVIOUS
<1>2. u - t = qps_slot_count * (b - a) /\ b - a \in Int
  BY SMTT(30), <1>1
<1>3. CASE b - a <= 0
  BY SMTT(30), <1>2, <1>3
<1>4. CASE b - a >= 1
  BY SMTT(30), <1>2, <1>4
<1>. QED BY SMTT(30), <1>2, <1>3, <1>4

\* A second has a slot in the table.
LEMMA SlotOfSecond == \A t \in Nat : Slot(t) \in Slots
  BY SMTT(30) DEF Slots, Slot

\* One more sample is kept in its own second, puts an end to what was kept of the others with
\* its slot, and leaves the rest alone.
LEMMA OneMoreKept ==
  ASSUME NEW s \in Seq(Stamped), NEW e \in Stamped, NEW t
  PROVE  LET after == Kept(Append(s, e), t) IN
         /\ Sec(e) = t => Cardinality(after) = Cardinality(Kept(s, t)) + 1
         /\ Sec(e) # t /\ Slot(Sec(e)) = Slot(t) => after = {}
         /\ Slot(Sec(e)) # Slot(t) => after = Kept(s, t)
<1>. DEFINE n == Len(s)
            a == Append(s, e)
            A == Kept(s, t)
            B == Kept(a, t)
            Ends(i) == Slot(Sec(a[i])) = Slot(t) /\ Sec(a[i]) # t
<1>1. /\ n \in Nat /\ DOMAIN s = 1..n /\ DOMAIN a = 1..(n + 1)
      /\ \A i \in 1..n : a[i] = s[i]
      /\ a[n + 1] = e
  OBVIOUS
<1>2. \A i : i \in 1..(n + 1) <=> i \in 1..n \/ i = n + 1
  BY <1>1
<1>3. n + 1 \notin 1..n /\ \A i \in 1..n : n + 1 > i /\ ~(i > n + 1)
  BY <1>1
<1>4. ~(n + 1 > n + 1)
  BY <1>1
<1>5. \A i : i \in A <=> /\ i \in 1..n /\ Sec(a[i]) = t
                         /\ \A j \in 1..n : j > i => ~Ends(j)
  BY <1>1 DEF Kept
<1>6. \A i : i \in B <=> /\ i \in 1..(n + 1) /\ Sec(a[i]) = t
                         /\ \A j \in 1..(n + 1) : j > i => ~Ends(j)
  BY <1>1 DEF Kept
<1>7. Ends(n + 1) <=> Slot(Sec(e)) = Slot(t) /\ Sec(e) # t
  BY <1>1
<1>8. IsFiniteSet(A)
  <2>1. IsFiniteSet(1..n)
    BY <1>1, FS_Interval
  <2>2. A \subseteq 1..n
    BY <1>5
  <2>. QED BY <2>1, <2>2, FS_Subset
<1>9. Sec(a[n + 1]) = Sec(e)
  BY <1>1
<1>. HIDE DEF n, a, A, B, Ends
<1>10. \A i \in 1..n : i \in B <=> i \in A /\ ~Ends(n + 1)
  <2>. TAKE i \in 1..n
  <2>1. i \in 1..(n + 1) /\ n + 1 > i
    BY <1>2, <1>3
  <2>2. (\A j \in 1..(n + 1) : j > i => ~Ends(j))
          <=> (\A j \in 1..n : j > i => ~Ends(j)) /\ ~Ends(n + 1)
    BY <1>2, <2>1, Zenon
  <2>. QED BY <1>5, <1>6, <2>1, <2>2, Zenon
<1>11. n + 1 \in B <=> Sec(e) = t
  <2>1. \A j \in 1..(n + 1) : ~(j > n + 1)
    BY <1>2, <1>3, <1>4, Zenon
  <2>. QED BY <1>2, <1>6, <1>9, <2>1, Zenon
<1>12. \A i : i \in B => i \in 1..n \/ i = n + 1
  BY <1>2, <1>6, Zenon
<1>13. \A i : i \in A => i \in 1..n
  BY <1>5, Zenon
<1>14. ASSUME Sec(e) = t PROVE Cardinality(B) = Cardinality(A) + 1
  <2>1. B = A \cup {n + 1}
    BY <1>7, <1>10, <1>11, <1>12, <1>13, <1>14
  <2>2. n + 1 \notin A
    BY <1>3, <1>13
  <2>. QED BY <1>8, <2>1, <2>2, FS_AddElement
<1>15. ASSUME Sec(e) # t, Slot(Sec(e)) = Slot(t) PROVE B = {}
  BY <1>7, <1>10, <1>11, <1>12, <1>15
<1>16. ASSUME Slot(Sec(e)) # Slot(t) PROVE B = A
  BY <1>7, <1>10, <1>11, <1>12, <1>13, <1>16
<1>. QED BY <1>14, <1>15, <1>16 DEF A, B, a

\* At first nothing is counted, in whichever second the clock starts.
LEMMA WindowInit == Init => WindowInv
<1>. SUFFICES ASSUME Init PROVE WindowInv
  OBVIOUS
<1>1. now \in Nat /\ Second(now) \in Nat
  BY SecondSteps DEF Init
<1>2. counted = <<>> /\ DOMAIN counted = {}
  BY DEF Init
<1>3. /\ qps_slots \in [Slots -> [second : Nat, count : Nat]]
      /\ \A k \in Slots : qps_slots[k].second = 0 /\ qps_slots[k].count = 0
  BY DEF Init, Slots
<1>4. waiting \in [Writers -> Seq(Stamped)] /\ \A w \in Writers : DOMAIN waiting[w] = {}
  BY DEF Init
<1>5. \A t \in Nat : SlotExact(t)
  <2>. TAKE t \in Nat
  <2>1. Kept(counted, t) = {}
    BY <1>2 DEF Kept
  <2>2. Cardinality({}) = 0
    BY FS_EmptySet
  <2>3. qps_slots[Slot(t)].count = 0
    BY <1>3, SlotOfSecond
  <2>. QED BY <2>1, <2>2, <2>3 DEF SlotExact
<1>6. WindowTypes
  BY <1>1, <1>2, <1>3, <1>4 DEF WindowTypes
<1>7. CountedInPast /\ WaitingInPast
  BY <1>2, <1>4 DEF CountedInPast, WaitingInPast
<1>. QED BY <1>5, <1>6, <1>7 DEF WindowInv, SlotsExact

\* A recorded sample is stamped with the clock.
LEMMA RecordKeepsWindow ==
  ASSUME WindowInv, NEW w \in Writers, NEW latency \in Latencies, Record(w, latency)
  PROVE  WindowInv'
<1>. DEFINE e == [timestamp_ns |-> now, latency_ns |-> latency]
<1>1. WindowTypes /\ WaitingInPast
  BY DEF WindowInv
<1>2. now \in Nat /\ Second(now) \in Nat /\ e \in Stamped
  BY <1>1, SecondSteps DEF WindowTypes, Stamped
<1>3. UNCHANGED <<now, counted, qps_slots>>
  BY DEF Record
<1>4. /\ waiting[w] \in Seq(Stamped)
      /\ waiting' = [waiting EXCEPT ![w] = Append(waiting[w], e)]
      /\ waiting \in [Writers -> Seq(Stamped)]
  BY <1>1 DEF Record, WindowTypes
<1>5. Sec(e) = Second(now)
  BY DEF Sec
<1>. HIDE DEF e
<1>6. waiting' \in [Writers -> Seq(Stamped)]
  BY <1>2, <1>4
<1>7. WindowTypes'
  BY <1>1, <1>3, <1>6 DEF WindowTypes
<1>8. CountedInPast' /\ SlotsExact'
  BY <1>3 DEF WindowInv, CountedInPast, SlotsExact, SlotExact
<1>9. WaitingInPast'
  <2>. SUFFICES ASSUME NEW v \in Writers, NEW i \in DOMAIN waiting'[v]
                PROVE  Sec(waiting'[v][i]) <= Second(now)
    BY <1>3 DEF WaitingInPast
  <2>1. CASE v = w /\ i = Len(waiting[w]) + 1
    <3>1. waiting'[v][i] = e
      BY <1>2, <1>4, <2>1
    <3>. QED BY <3>1, <1>2, <1>5
  <2>2. CASE ~(v = w /\ i = Len(waiting[w]) + 1)
    <3>1. i \in DOMAIN waiting[v] /\ waiting'[v][i] = waiting[v][i]
      BY <1>2, <1>4, <2>2
    <3>. QED BY <3>1, <1>1 DEF WaitingInPast
  <2>. QED BY <2>1, <2>2
<1>. QED BY <1>7, <1>8, <1>9 DEF WindowInv

\* The clock changes no slot.
LEMMA TickKeepsWindow ==
  ASSUME WindowInv, Tick
  PROVE  WindowInv'
<1>1. /\ WindowTypes /\ CountedInPast /\ WaitingInPast /\ SlotsExact
      /\ now \in Nat
  BY DEF WindowInv, WindowTypes
<1>2. UNCHANGED <<waiting, counted, qps_slots>> /\ now' = now + 1
  BY DEF Tick
<1>. DEFINE s == Second(now)
            z == Second(now')
<1>3. s \in Nat /\ z \in {s, s + 1}
  BY <1>1, <1>2, SecondSteps
<1>4. \A i \in DOMAIN counted : Sec(counted[i]) <= s /\ Sec(counted[i]) \in Nat
  BY <1>1, StampSeconds DEF CountedInPast, WindowTypes
<1>5. \A v \in Writers : \A i \in DOMAIN waiting[v] :
        Sec(waiting[v][i]) <= s /\ Sec(waiting[v][i]) \in Nat
  <2>. TAKE v \in Writers
  <2>1. waiting[v] \in Seq(Stamped)
    BY <1>1 DEF WindowTypes
  <2>. QED BY <1>1, <2>1, StampSeconds DEF WaitingInPast
<1>. HIDE DEF s, z
<1>6. CountedInPast'
  <2>1. \A i \in DOMAIN counted : Sec(counted[i]) <= z
    BY <1>3, <1>4
  <2>. QED BY <1>2, <2>1 DEF CountedInPast, z
<1>7. WaitingInPast'
  <2>1. \A v \in Writers : \A i \in DOMAIN waiting[v] : Sec(waiting[v][i]) <= z
    BY <1>3, <1>5
  <2>. QED BY <1>2, <2>1 DEF WaitingInPast, z
<1>8. WindowTypes' /\ SlotsExact'
  BY <1>1, <1>2 DEF WindowTypes, SlotsExact, SlotExact
<1>. QED BY <1>6, <1>7, <1>8 DEF WindowInv

\* A drained sample is counted in the slot of its second, which it may take from another.
LEMMA CountKeepsWindow ==
  ASSUME WindowInv, NEW w \in Writers, RecordFastPath(w)
  PROVE  WindowInv'
<1>. DEFINE sample == Head(waiting[w])
            stamp  == IF sample.timestamp_ns = 0 THEN now ELSE sample.timestamp_ns
            e      == [timestamp_ns |-> stamp, latency_ns |-> sample.latency_ns]
            u      == Second(stamp)
            s      == Second(now)
            k      == u % qps_slot_count
            count  == IF qps_slots[k].second = u THEN qps_slots[k].count ELSE 0
<1>1. /\ WindowTypes /\ CountedInPast /\ WaitingInPast /\ SlotsExact
      /\ now \in Nat
      /\ waiting \in [Writers -> Seq(Stamped)] /\ counted \in Seq(Stamped)
      /\ qps_slots \in [Slots -> [second : Nat, count : Nat]]
  BY DEF WindowInv, WindowTypes
<1>2. waiting[w] \in Seq(Stamped) /\ waiting[w] # <<>>
  BY <1>1 DEF RecordFastPath
<1>3. sample \in Stamped /\ sample = waiting[w][1] /\ 1 \in DOMAIN waiting[w]
  BY <1>2
<1>4. stamp \in Nat /\ e \in Stamped /\ s \in Nat /\ u \in Nat
  BY <1>1, <1>3, SecondSteps DEF Stamped
<1>5. u <= s
  BY <1>1, <1>3, <1>4 DEF WaitingInPast, Sec
<1>6. /\ now' = now
      /\ counted' = Append(counted, e)
      /\ waiting' = [waiting EXCEPT ![w] = Tail(waiting[w])]
  BY <1>1 DEF RecordFastPath
<1>7. qps_slots' = [qps_slots EXCEPT ![k] = [second |-> u, count |-> count + 1]]
  BY DEF RecordFastPath, UpdateQps
<1>8. k = Slot(u) /\ k \in Slots /\ count \in Nat
  BY <1>1, <1>4, SlotOfSecond DEF Slot
<1>9. Sec(e) = u
  BY DEF Sec
<1>. HIDE DEF sample, stamp, e, u, s, k, count
<1>10. WindowTypes'
  <2>1. counted' \in Seq(Stamped)
    BY <1>1, <1>4, <1>6
  <2>2. waiting' \in [Writers -> Seq(Stamped)]
    <3>1. Tail(waiting[w]) \in Seq(Stamped)
      BY <1>2
    <3>. QED BY <1>1, <1>6, <3>1
  <2>3. qps_slots' \in [Slots -> [second : Nat, count : Nat]]
    BY <1>1, <1>4, <1>7, <1>8
  <2>. QED BY <1>1, <1>6, <2>1, <2>2, <2>3 DEF WindowTypes
<1>11. CountedInPast'
  <2>. SUFFICES ASSUME NEW i \in DOMAIN counted'
                PROVE  Sec(counted'[i]) <= s
    BY <1>6 DEF CountedInPast, s
  <2>1. CASE i = Len(counted) + 1
    <3>1. counted'[i] = e
      BY <1>1, <1>4, <1>6, <2>1
    <3>. QED BY <1>5, <1>9, <3>1
  <2>2. CASE i # Len(counted) + 1
    <3>1. i \in DOMAIN counted /\ counted'[i] = counted[i]
      BY <1>1, <1>4, <1>6, <2>2
    <3>. QED BY <1>1, <3>1 DEF CountedInPast, s
  <2>. QED BY <2>1, <2>2
<1>12. WaitingInPast'
  <2>. SUFFICES ASSUME NEW v \in Writers, NEW i \in DOMAIN waiting'[v]
                PROVE  Sec(waiting'[v][i]) <= s
    BY <1>6 DEF WaitingInPast, s
  <2>1. PICK j \in DOMAIN waiting[v] : waiting'[v][i] = waiting[v][j]
    <3>1. CASE v = w
      <4>1. waiting'[v] = Tail(waiting[v]) /\ waiting[v] \in Seq(Stamped) /\ waiting[v] # <<>>
        BY <1>1, <1>2, <1>6, <3>1
      <4>2. i + 1 \in DOMAIN waiting[v] /\ waiting'[v][i] = waiting[v][i + 1]
        BY <4>1
      <4>. QED BY <4>2
    <3>2. CASE v # w
      <4>1. waiting'[v] = waiting[v]
        BY <1>1, <1>6, <3>2
      <4>. QED BY <4>1
    <3>. QED BY <3>1, <3>2
  <2>. QED BY <1>1, <2>1 DEF WaitingInPast, s
<1>13. ASSUME NEW t \in Nat PROVE SlotExact(t)'
  <2>1. SlotExact(t) /\ Slot(t) \in Slots
    BY <1>1, SlotOfSecond DEF SlotsExact
  <2>2. CASE t = u
    <3>1. count = Cardinality(Kept(counted, u))
      BY <1>8, <2>1, <2>2, FS_EmptySet DEF SlotExact, count
    <3>2. Cardinality(Kept(counted', u)) = Cardinality(Kept(counted, u)) + 1
      BY <1>1, <1>4, <1>6, <1>9, OneMoreKept
    <3>3. qps_slots'[Slot(u)] = [second |-> u, count |-> count + 1]
      BY <1>1, <1>7, <1>8
    <3>. QED BY <2>2, <3>1, <3>2, <3>3 DEF SlotExact
  <2>3. CASE t # u /\ Slot(t) = k
    <3>1. Kept(counted', t) = {}
      BY <1>1, <1>4, <1>6, <1>8, <1>9, <2>3, OneMoreKept
    <3>2. qps_slots'[Slot(t)].second # t
      BY <1>1, <1>7, <1>8, <2>3
    <3>. QED BY <3>1, <3>2 DEF SlotExact
  <2>4. CASE Slot(t) # k
    <3>1. Kept(counted', t) = Kept(counted, t)
      BY <1>1, <1>4, <1>6, <1>8, <1>9, <2>4, OneMoreKept
    <3>2. qps_slots'[Slot(t)] = qps_slots[Slot(t)]
      BY <1>1, <1>7, <1>8, <2>1, <2>4
    <3>. QED BY <2>1, <3>1, <3>2 DEF SlotExact
  <2>. QED BY <2>2, <2>3, <2>4
<1>14. SlotsExact'
  BY <1>13 DEF SlotsExact
<1>. QED BY <1>10, <1>11, <1>12, <1>14 DEF WindowInv

\* The window of seconds in every reachable state.
LEMMA WindowInvariant == Spec => []WindowInv
<1>1. Init => WindowInv
  BY WindowInit
<1>2. WindowInv /\ [Next]_vars => WindowInv'
  <2>. SUFFICES ASSUME WindowInv, [Next]_vars PROVE WindowInv'
    OBVIOUS
  <2>1. CASE \E w \in Writers : \E latency \in Latencies : Record(w, latency)
    BY <2>1, RecordKeepsWindow
  <2>2. CASE \E w \in Writers : RecordFastPath(w)
    BY <2>2, CountKeepsWindow
  <2>3. CASE Tick
    BY <2>3, TickKeepsWindow
  <2>4. CASE UNCHANGED vars
    BY <2>4 DEF vars, rings, WindowInv, WindowTypes, CountedInPast, WaitingInPast, SlotsExact,
                SlotExact
  <2>. QED BY <2>1, <2>2, <2>3, <2>4 DEF Next, Terminated
<1>. QED BY <1>1, <1>2, PTL DEF Spec

\* The count shown for the current second is exact since the last straggler, for every number
\* of slots, clock and latency, however long a sample waits (stats.cpp:197-201, 222-233).
THEOREM WindowIsExact == Spec => []WindowExact
<1>1. WindowInv => WindowExact
  <2>. SUFFICES ASSUME WindowInv PROVE WindowExact
    OBVIOUS
  <2>. DEFINE s == Second(now)
              Straggler(j) ==
                LET t == Second(counted[j].timestamp_ns)
                IN  t % qps_slot_count = s % qps_slot_count /\ t + qps_slot_count <= s
              Current == {i \in DOMAIN counted :
                            /\ Second(counted[i].timestamp_ns) = s
                            /\ \A j \in DOMAIN counted : j > i => ~Straggler(j)}
  <2>1. s \in Nat /\ counted \in Seq(Stamped) /\ CountedInPast /\ SlotExact(s)
    BY SecondSteps DEF WindowInv, WindowTypes, SlotsExact
  <2>2. \A j \in DOMAIN counted : Sec(counted[j]) \in Nat /\ Sec(counted[j]) <= s
    BY <2>1, StampSeconds DEF CountedInPast
  <2>3. ASSUME NEW j \in DOMAIN counted
        PROVE  Straggler(j) <=> Slot(Sec(counted[j])) = Slot(s) /\ Sec(counted[j]) # s
    <3>1. PICK t \in Nat : t = Sec(counted[j]) /\ t <= s
      BY <2>2
    <3>2. t < s /\ s < t + qps_slot_count => Slot(t) # Slot(s)
      BY <2>1, SecondsApart DEF Slot
    <3>3. Slot(t) = Slot(s) /\ t + qps_slot_count <= s <=> Slot(t) = Slot(s) /\ t # s
      <4>. HIDE DEF s
      <4>. QED BY <2>1, <3>1, <3>2
    <3>4. Straggler(j) <=> Slot(t) = Slot(s) /\ t + qps_slot_count <= s
      BY <3>1 DEF Slot, Sec
    <3>. QED BY <3>1, <3>3, <3>4
  <2>4. Current = Kept(counted, s)
    <3>. HIDE DEF s, Straggler
    <3>. QED BY <2>3 DEF Kept, Sec
  <2>5. QpsCurrentSecond = Cardinality(Kept(counted, s))
    BY <2>1, FS_EmptySet DEF SlotExact, QpsCurrentSecond, Slot
  <2>. QED BY <2>4, <2>5 DEF WindowExact
<1>. QED BY <1>1, WindowInvariant, PTL
-----------------------------------------------------------------------------
(* The histogram and the extremes *)

\* The bucket of a sample, the buckets of the samples s, those of s in the bucket b, in a
\* bucket up to b, and with a latency of at most x.
Bucket(e)        == LatencyToBucket(e.latency_ns)
BucketsOf(s)     == {Bucket(s[i]) : i \in DOMAIN s}
InBucket(s, b)   == {i \in DOMAIN s : Bucket(s[i]) = b}
UpToBucket(s, b) == {i \in DOMAIN s : Bucket(s[i]) <= b}
AtMost(s, x)     == {i \in DOMAIN s : s[i].latency_ns <= x}

\* The histogram of the samples s.
HistogramOf(s) == [b \in BucketsOf(s) |-> Cardinality(InBucket(s, b))]

\* low and high are the extremes of the samples s, which add up to sum; or there are none.
Extremes(s, low, high, sum) ==
  IF s = <<>> THEN low = Unset /\ high = 0 /\ sum = 0
  ELSE /\ {low, high, sum} \subseteq Nat
       /\ \A i \in DOMAIN s : low <= s[i].latency_ns /\ s[i].latency_ns <= high
       /\ \E i \in DOMAIN s : s[i].latency_ns = low
       /\ \E i \in DOMAIN s : s[i].latency_ns = high
       /\ low * Len(s) <= sum /\ sum <= high * Len(s)

\* The totals are those of the samples counted.
TotalsInv ==
  /\ total_requests = Len(counted)
  /\ latency_histogram = HistogramOf(counted)
  /\ Extremes(counted, min_latency_ns, max_latency_ns, latency_sum_ns)

\* The places of a sequence of samples, and those of one more.
LEMMA Places ==
  ASSUME NEW s \in Seq(Stamped), NEW e \in Stamped
  PROVE  /\ IsFiniteSet(DOMAIN s) /\ Cardinality(DOMAIN s) = Len(s) /\ Len(s) \in Nat
         /\ Append(s, e) \in Seq(Stamped) /\ Append(s, e) # <<>>
         /\ Len(Append(s, e)) = Len(s) + 1
         /\ DOMAIN Append(s, e) = DOMAIN s \cup {Len(s) + 1} /\ Len(s) + 1 \notin DOMAIN s
         /\ \A i \in DOMAIN s : Append(s, e)[i] = s[i]
         /\ Append(s, e)[Len(s) + 1] = e
<1>. DEFINE n == Len(s)
<1>1. n \in Nat /\ DOMAIN s = 1..n
  OBVIOUS
<1>2. IsFiniteSet(1..n) /\ Cardinality(1..n) = n
  <2>1. \A m \in Nat : IsFiniteSet(1..m) /\ Cardinality(1..m) = m
    BY FS_Interval
  <2>. QED BY <1>1, <2>1
<1>3. 1..(n + 1) = 1..n \cup {n + 1} /\ n + 1 \notin 1..n
  BY <1>1
<1>. QED BY <1>1, <1>2, <1>3

\* A sample has a latency and a bucket.
LEMMA SampleBuckets ==
  ASSUME NEW s \in Seq(Stamped)
  PROVE  \A i \in DOMAIN s : s[i].latency_ns \in Nat /\ Bucket(s[i]) \in Nat
<1>. TAKE i \in DOMAIN s
<1>1. s[i] \in Stamped
  OBVIOUS
<1>2. s[i].latency_ns \in Nat
  BY <1>1 DEF Stamped
<1>. QED BY SMTT(30), <1>2, BucketExists DEF Bucket

\* Some of the samples are finitely many, and not more than those they are some of.
LEMMA SomeSamples ==
  ASSUME NEW s \in Seq(Stamped), NEW B \in SUBSET DOMAIN s, NEW A \in SUBSET B
  PROVE  /\ IsFiniteSet(A) /\ Cardinality(A) \in Nat
         /\ IsFiniteSet(B) /\ Cardinality(B) \in Nat
         /\ Cardinality(A) <= Cardinality(B)
<1>1. IsFiniteSet(DOMAIN s)
  <2>1. Len(s) \in Nat /\ DOMAIN s = 1..Len(s)
    OBVIOUS
  <2>. QED BY <2>1, FS_Interval
<1>. QED BY <1>1, FS_Subset, FS_CardinalityType

\* Counting one more sample adds one occurrence of its bucket to the histogram.
LEMMA OneMoreInHistogram ==
  ASSUME NEW s \in Seq(Stamped), NEW e \in Stamped
  PROVE  HistogramOf(Append(s, e)) = HistogramOf(s) (+) SetToBag({Bucket(e)})
<1>. DEFINE n == Len(s) + 1
            a == Append(s, e)
            x == Bucket(e)
            D == DOMAIN s
<1>1. /\ DOMAIN a = D \cup {n} /\ n \notin D /\ a[n] = e
      /\ \A i \in D : a[i] = s[i]
  BY Places
<1>2. \A b : IsFiniteSet(InBucket(s, b)) /\ Cardinality(InBucket(s, b)) \in Nat
  <2>. TAKE b
  <2>1. InBucket(s, b) \subseteq D
    BY DEF InBucket
  <2>. QED BY <2>1, SomeSamples
<1>3. \A b : b \notin BucketsOf(s) => InBucket(s, b) = {}
  BY DEF BucketsOf, InBucket
<1>4. BucketsOf(a) = BucketsOf(s) \cup {x}
  BY <1>1 DEF BucketsOf
<1>5. \A b : b # x => InBucket(a, b) = InBucket(s, b)
  BY <1>1 DEF InBucket
<1>6. InBucket(a, x) = InBucket(s, x) \cup {n} /\ n \notin InBucket(s, x)
  BY <1>1 DEF InBucket
<1>. HIDE DEF n, a, x, D
<1>7. Cardinality(InBucket(a, x)) = Cardinality(InBucket(s, x)) + 1
  BY <1>2, <1>6, FS_AddElement
<1>. DEFINE old(b) == IF b \in BucketsOf(s) THEN HistogramOf(s)[b] ELSE 0
            one(b) == IF b \in {x} THEN 1 ELSE 0
<1>8. \A b : old(b) = Cardinality(InBucket(s, b))
  BY <1>3, FS_EmptySet DEF HistogramOf
<1>9. \A b \in BucketsOf(a) : Cardinality(InBucket(a, b)) = old(b) + one(b)
  BY <1>2, <1>5, <1>7, <1>8
<1>10. HistogramOf(a) = [b \in BucketsOf(s) \cup {x} |-> old(b) + one(b)]
  BY <1>4, <1>9 DEF HistogramOf
<1>11. DOMAIN HistogramOf(s) = BucketsOf(s) /\ DOMAIN SetToBag({x}) = {x}
       /\ \A b \in {x} : SetToBag({x})[b] = 1
  BY DEF HistogramOf, SetToBag
<1>12. HistogramOf(s) (+) SetToBag({x}) = [b \in BucketsOf(s) \cup {x} |-> old(b) + one(b)]
  BY <1>11 DEF (+)
<1>. QED BY <1>10, <1>12 DEF a, x

\* Summed up to a bucket, the histogram counts the samples up to that bucket.
LEMMA CumulativeCounts ==
  ASSUME NEW s \in Seq(Stamped), NEW bucket
  PROVE  SumFunctionOnSet(HistogramOf(s), {b \in BucketsOf(s) : b <= bucket}) =
           Cardinality(UpToBucket(s, bucket))
<1>. DEFINE D   == {b \in BucketsOf(s) : b <= bucket}
            T   == UpToBucket(s, bucket)
            key == [i \in T |-> Bucket(s[i])]
            K(b) == {i \in T : key[i] = b}
            g    == [b \in D |-> Cardinality(K(b))]
<1>1. T \subseteq DOMAIN s
  BY DEF UpToBucket
<1>2. IsFiniteSet(T)
  BY <1>1, SomeSamples
<1>3. IsFiniteSet(D)
  <2>2. \A i \in DOMAIN s : Bucket(s[i]) \in 0..(kLatencyBucketCount - 1)
    BY SampleBuckets, BucketExists DEF Bucket
  <2>3. D \subseteq 0..(kLatencyBucketCount - 1)
    BY <2>2, Zenon DEF BucketsOf
  <2>4. IsFiniteSet(0..(kLatencyBucketCount - 1))
    <3>1. kLatencyBucketCount - 1 \in Int
      BY SMTT(30) DEF kLatencyBucketCount
    <3>. QED BY <3>1, FS_Interval
  <2>. QED BY <2>3, <2>4, FS_Subset
<1>4. key \in [T -> D]
  BY <1>1 DEF UpToBucket, BucketsOf
<1>5. \A b \in D : K(b) = InBucket(s, b)
  BY DEF UpToBucket, InBucket
<1>6. \A b \in D : HistogramOf(s)[b] = g[b]
  BY <1>5 DEF HistogramOf
<1>7. g \in [D -> Int]
  <2>1. \A b : Cardinality(InBucket(s, b)) \in Nat
    <3>. TAKE b
    <3>1. InBucket(s, b) \subseteq DOMAIN s
      BY DEF InBucket
    <3>. QED BY <3>1, SomeSamples
  <2>. HIDE DEF K
  <2>2. \A b \in D : Cardinality(K(b)) \in Int
    BY <1>5, <2>1
  <2>. QED BY <2>2
<1>. HIDE DEF D, T, key
<1>8. SumFunction(g) = Cardinality(T)
  BY <1>2, <1>3, <1>4, SumOfParts
<1>. HIDE DEF g
<1>9. SumFunctionOnSet(HistogramOf(s), D) = SumFunction(g)
  BY <1>3, <1>6, <1>7, SumOnSet
<1>. QED BY <1>8, <1>9 DEF D, T

\* The samples with a latency below x.
Below(s, x) == {i \in DOMAIN s : s[i].latency_ns < x}

\* The samples below x, if there are any, are those up to the latency of one of them.
LEMMA LargestBelow ==
  ASSUME NEW s \in Seq(Stamped), NEW x \in Nat, Below(s, x) # {}
  PROVE  \E i \in Below(s, x) : Below(s, x) = AtMost(s, s[i].latency_ns)
<1>. DEFINE Gap(i) == x - s[i].latency_ns
            G      == {Gap(i) : i \in Below(s, x)}
<1>1. \A i \in DOMAIN s : s[i].latency_ns \in Nat
  BY SampleBuckets
<1>2. G \in SUBSET Nat /\ G # {}
  BY <1>1 DEF Below
<1>3. PICK m \in G : \A n \in G : m <= n
  BY <1>2, SmallestNat
<1>4. PICK i \in Below(s, x) : m = Gap(i)
  OBVIOUS
<1>5. \A j \in Below(s, x) : s[j].latency_ns <= s[i].latency_ns
  <2>. TAKE j \in Below(s, x)
  <2>1. Gap(i) <= Gap(j)
    BY <1>3, <1>4
  <2>. QED BY <1>1, <2>1 DEF Below
<1>. HIDE DEF Gap, G
<1>6. s[i].latency_ns < x /\ s[i].latency_ns \in Nat
  BY <1>1 DEF Below
<1>7. Below(s, x) = AtMost(s, s[i].latency_ns)
  BY <1>1, <1>5, <1>6 DEF Below, AtMost
<1>. QED BY <1>7

\* i has the smallest latency that at least rank samples do not exceed.
IsRanked(s, rank, i) ==
  /\ Cardinality(AtMost(s, s[i].latency_ns)) >= rank
  /\ \A j \in Below(s, s[i].latency_ns) : Cardinality(AtMost(s, s[j].latency_ns)) < rank

\* There is one for each rank up to the number of the samples.
LEMMA RankedExists ==
  ASSUME NEW s \in Seq(Stamped), NEW rank \in Nat, rank <= Len(s),
         NEW last \in DOMAIN s, \A j \in DOMAIN s : s[j].latency_ns <= s[last].latency_ns
  PROVE  \E i \in DOMAIN s : IsRanked(s, rank, i)
<1>. DEFINE C == {i \in DOMAIN s : Cardinality(AtMost(s, s[i].latency_ns)) >= rank}
            L == {s[i].latency_ns : i \in C}
<1>1. \A i \in DOMAIN s : s[i].latency_ns \in Nat
  BY SampleBuckets
<1>2. \A x : Cardinality(AtMost(s, x)) \in Nat
  <2>. TAKE x
  <2>1. AtMost(s, x) \subseteq DOMAIN s
    BY DEF AtMost
  <2>. QED BY <2>1, SomeSamples
<1>3. last \in C
  <2>1. AtMost(s, s[last].latency_ns) = DOMAIN s
    BY DEF AtMost
  <2>2. Cardinality(DOMAIN s) = Len(s)
    <3>1. s[last] \in Stamped
      OBVIOUS
    <3>. QED BY <3>1, Places
  <2>. QED BY <2>1, <2>2
<1>5. L \in SUBSET Nat /\ L # {}
  BY <1>1, <1>3
<1>6. PICK m \in L : \A n \in L : m <= n
  BY <1>5, SmallestNat
<1>7. PICK i \in C : s[i].latency_ns = m
  OBVIOUS
<1>8. ASSUME NEW j \in Below(s, s[i].latency_ns)
      PROVE  Cardinality(AtMost(s, s[j].latency_ns)) < rank
  <2>1. j \in DOMAIN s /\ s[j].latency_ns < m /\ s[j].latency_ns \in Nat
    BY <1>1, <1>7 DEF Below
  <2>2. s[j].latency_ns \notin L
    <3>. HIDE DEF L
    <3>1. m \in Nat /\ \A n \in L : m <= n
      BY <1>5, <1>6
    <3>. QED BY <2>1, <3>1
  <2>3. j \notin C
    BY <2>2
  <2>. QED BY <1>2, <2>1, <2>3
<1>9. i \in DOMAIN s /\ IsRanked(s, rank, i)
  BY <1>8 DEF IsRanked
<1>. QED BY <1>9

\* The buckets by whose end rank samples have been counted.
Reached(s, rank) == {b \in BucketsOf(s) : Cardinality(UpToBucket(s, b)) >= rank}

\* The first bucket that is reached is that of the latency with the rank.
LEMMA FirstReached ==
  ASSUME NEW s \in Seq(Stamped), NEW rank \in Nat \ {0}, NEW i \in DOMAIN s,
         IsRanked(s, rank, i)
  PROVE  Bucket(s[i]) \in Reached(s, rank) /\ \A c \in Reached(s, rank) : Bucket(s[i]) <= c
<1>. DEFINE x == s[i].latency_ns
<1>1. \A j \in DOMAIN s : s[j].latency_ns \in Nat /\ Bucket(s[j]) \in Nat
  BY SampleBuckets
<1>2. \A j, k \in DOMAIN s : s[j].latency_ns <= s[k].latency_ns => Bucket(s[j]) <= Bucket(s[k])
  BY <1>1, BucketsInOrder DEF Bucket
<1>3. /\ Cardinality(AtMost(s, x)) >= rank
      /\ \A j \in Below(s, x) : Cardinality(AtMost(s, s[j].latency_ns)) < rank
  BY DEF IsRanked
<1>4. Bucket(s[i]) \in Reached(s, rank)
  <2>1. AtMost(s, x) \subseteq UpToBucket(s, Bucket(s[i]))
    BY <1>2 DEF AtMost, UpToBucket
  <2>2. UpToBucket(s, Bucket(s[i])) \subseteq DOMAIN s
    BY DEF UpToBucket
  <2>3. /\ Cardinality(AtMost(s, x)) \in Nat
        /\ Cardinality(UpToBucket(s, Bucket(s[i]))) \in Nat
        /\ Cardinality(AtMost(s, x)) <= Cardinality(UpToBucket(s, Bucket(s[i])))
    BY <2>1, <2>2, SomeSamples
  <2>4. Bucket(s[i]) \in BucketsOf(s)
    BY DEF BucketsOf
  <2>. QED BY <1>3, <2>3, <2>4 DEF Reached
<1>5. Cardinality(Below(s, x)) < rank
  <2>1. CASE Below(s, x) = {}
    BY <2>1, FS_EmptySet
  <2>2. CASE Below(s, x) # {}
    <3>1. PICK j \in Below(s, x) : Below(s, x) = AtMost(s, s[j].latency_ns)
      BY <1>1, <2>2, LargestBelow
    <3>. QED BY <1>3, <3>1
  <2>. QED BY <2>1, <2>2
<1>6. ASSUME NEW c \in Reached(s, rank) PROVE Bucket(s[i]) <= c
  <2>. SUFFICES ASSUME c < Bucket(s[i]) PROVE FALSE
    BY <1>1, <1>6 DEF Reached, BucketsOf
  <2>1. c \in Nat /\ Bucket(s[i]) \in Nat
    BY <1>1, <1>6 DEF Reached, BucketsOf
  <2>2. UpToBucket(s, c) \subseteq Below(s, x)
    BY <1>1, <1>2, <2>1 DEF UpToBucket, Below
  <2>3. Below(s, x) \subseteq DOMAIN s
    BY DEF Below
  <2>4. /\ Cardinality(UpToBucket(s, c)) \in Nat /\ Cardinality(Below(s, x)) \in Nat
        /\ Cardinality(UpToBucket(s, c)) <= Cardinality(Below(s, x))
    BY <2>2, <2>3, SomeSamples
  <2>5. Cardinality(UpToBucket(s, c)) >= rank
    BY <1>6 DEF Reached
  <2>. QED BY <1>5, <2>4, <2>5
<1>. QED BY <1>4, <1>6

\* The value reported grows with the bucket.
LEMMA ReportedInOrder ==
  ASSUME NEW b \in Nat, NEW c \in Nat, b <= c
  PROVE  /\ BucketToLatencyUpperNs(b) \in Nat /\ BucketToLatencyUpperNs(c) \in Nat
         /\ BucketToLatencyUpperNs(b) <= BucketToLatencyUpperNs(c)
<1>1. /\ BucketToLatencyUpperNs(b) = kNsPerUs * ReportedUs(b)
      /\ BucketToLatencyUpperNs(c) = kNsPerUs * ReportedUs(c)
  BY SMTT(30) DEF BucketToLatencyUpperNs, ReportedUs
<1>2. ReportedUs(b) \in Nat /\ ReportedUs(c) \in Nat /\ ReportedUs(b) <= ReportedUs(c)
  BY SMTT(30) DEF ReportedUs
<1>3. \A u, v \in Nat : u <= v => /\ kNsPerUs * u \in Nat /\ kNsPerUs * v \in Nat
                                  /\ kNsPerUs * u <= kNsPerUs * v
  BY SMTT(30)
<1>. QED BY SMTT(30), <1>1, <1>2, <1>3

-----------------------------------------------------------------------------
\* The rank of a percentile lies between 1 and the number of the samples, and grows with it.
LEMMA TargetBounds ==
  ASSUME total_requests \in Nat \ {0}, NEW p \in 0..100, NEW q \in p..100
  PROVE  /\ Target(p) \in 1..total_requests /\ Target(q) \in 1..total_requests
         /\ Target(p) <= Target(q)
<1>. DEFINE n == total_requests
            r == (p * n) \div 100
            t == (q * n) \div 100
<1>1. n \in Nat /\ n >= 1 /\ p \in Nat /\ q \in Nat /\ p <= q /\ q <= 100
  OBVIOUS
<1>2. p * n \in Nat /\ q * n \in Nat /\ p * n <= q * n /\ q * n <= 100 * n
  <2>. HIDE DEF n
  <2>. QED BY SMTT(30), <1>1
<1>3. r \in Nat /\ t \in Nat /\ r <= t /\ t <= n
  <2>. HIDE DEF n
  <2>1. \A a, b \in Nat : a <= b /\ b <= 100 * n =>
          /\ a \div 100 \in Nat /\ b \div 100 \in Nat
          /\ a \div 100 <= b \div 100 /\ b \div 100 <= n
    BY SMTT(30), <1>1
  <2>. QED BY <1>2, <2>1
<1>4. Target(p) = (IF r = 0 THEN 1 ELSE r) /\ Target(q) = (IF t = 0 THEN 1 ELSE t)
  BY DEF Target
<1>. HIDE DEF r, t
<1>. QED BY <1>1, <1>3, <1>4

\* A percentile is what is reported for the bucket of the latency with its rank.
LEMMA PercentileRanked ==
  ASSUME TotalsInv, counted \in Seq(Stamped), counted # <<>>, NEW percent \in 0..100
  PROVE  \E i \in DOMAIN counted :
           /\ IsRanked(counted, Target(percent), i)
           /\ GetPercentileNs(percent) = BucketToLatencyUpperNs(Bucket(counted[i]))
<1>. DEFINE rank == Target(percent)
            b(i) == Bucket(counted[i])
<1>1. total_requests = Len(counted) /\ Len(counted) \in Nat \ {0}
  BY DEF TotalsInv
<1>2. rank \in Nat \ {0} /\ rank <= Len(counted)
  <2>1. percent \in percent..100
    OBVIOUS
  <2>2. Target(percent) \in 1..total_requests
    BY <1>1, <2>1, TargetBounds
  <2>. QED BY <1>1, <2>2
<1>3. PICK last \in DOMAIN counted :
        \A j \in DOMAIN counted : counted[j].latency_ns <= counted[last].latency_ns
  BY DEF TotalsInv, Extremes
<1>. HIDE DEF rank
<1>4. PICK i \in DOMAIN counted : IsRanked(counted, rank, i)
  BY <1>2, <1>3, RankedExists
<1>5. b(i) \in Reached(counted, rank) /\ \A c \in Reached(counted, rank) : b(i) <= c
  BY <1>2, <1>4, FirstReached
<1>6. Reached(counted, rank) \subseteq Nat
  BY SampleBuckets DEF Reached, BucketsOf
<1>. DEFINE first == CHOOSE d \in Reached(counted, rank) :
                       \A c \in Reached(counted, rank) : d <= c
<1>7. first = b(i)
  BY <1>5, <1>6
<1>8. latency_histogram = HistogramOf(counted) /\ DOMAIN latency_histogram = BucketsOf(counted)
  BY DEF TotalsInv, HistogramOf
<1>9. {d \in DOMAIN latency_histogram : Cumulative(d) >= rank} = Reached(counted, rank)
  <2>1. \A d : Cumulative(d) = Cardinality(UpToBucket(counted, d))
    BY <1>8, CumulativeCounts DEF Cumulative
  <2>. QED BY <1>8, <2>1 DEF Reached
<1>10. GetPercentileNs(percent) = BucketToLatencyUpperNs(first)
  BY <1>9 DEF GetPercentileNs, rank
<1>. QED BY <1>4, <1>7, <1>10 DEF rank

\* Which is the exact order statistic, and its bucket.
LEMMA PercentileExact ==
  ASSUME TotalsInv, counted \in Seq(Stamped), counted # <<>>, NEW percent \in 0..100
  PROVE  \E i \in DOMAIN counted :
           /\ IsOrderStatistic(counted[i].latency_ns, Target(percent))
           /\ Reports(GetPercentileNs(percent), counted[i].latency_ns)
<1>1. PICK i \in DOMAIN counted :
        /\ IsRanked(counted, Target(percent), i)
        /\ GetPercentileNs(percent) = BucketToLatencyUpperNs(Bucket(counted[i]))
  BY PercentileRanked
<1>2. counted[i].latency_ns \in Nat
  BY SampleBuckets
<1>3. Reports(GetPercentileNs(percent), counted[i].latency_ns)
  BY <1>1, <1>2, BucketReported DEF Bucket
<1>4. IsOrderStatistic(counted[i].latency_ns, Target(percent))
  BY <1>1 DEF IsRanked, IsOrderStatistic, AtMost, Below
<1>. QED BY <1>3, <1>4

\* Percentiles are in order, since their buckets are.
LEMMA PercentilesInOrder ==
  ASSUME TotalsInv, counted \in Seq(Stamped), counted # <<>>, NEW p \in 0..100, NEW q \in p..100
  PROVE  GetPercentileNs(p) <= GetPercentileNs(q)
<1>1. q \in 0..100
  OBVIOUS
<1>2. PICK i \in DOMAIN counted :
        /\ IsRanked(counted, Target(p), i)
        /\ GetPercentileNs(p) = BucketToLatencyUpperNs(Bucket(counted[i]))
  BY PercentileRanked
<1>3. PICK j \in DOMAIN counted :
        /\ IsRanked(counted, Target(q), j)
        /\ GetPercentileNs(q) = BucketToLatencyUpperNs(Bucket(counted[j]))
  BY <1>1, PercentileRanked
<1>4. total_requests \in Nat \ {0}
  BY DEF TotalsInv
<1>5. Target(p) \in Nat \ {0} /\ Target(q) \in Nat \ {0} /\ Target(p) <= Target(q)
  <2>1. /\ Target(p) \in 1..total_requests /\ Target(q) \in 1..total_requests
        /\ Target(p) <= Target(q)
    BY <1>4, TargetBounds
  <2>. QED BY <1>4, <2>1
<1>6. Bucket(counted[j]) \in Reached(counted, Target(p))
  <2>1. Bucket(counted[j]) \in Reached(counted, Target(q))
    BY <1>3, <1>5, FirstReached
  <2>2. UpToBucket(counted, Bucket(counted[j])) \subseteq DOMAIN counted
    BY DEF UpToBucket
  <2>3. Cardinality(UpToBucket(counted, Bucket(counted[j]))) \in Nat
    BY <2>2, SomeSamples
  <2>. QED BY <1>5, <2>1, <2>3 DEF Reached
<1>7. Bucket(counted[i]) <= Bucket(counted[j])
  BY <1>2, <1>5, <1>6, FirstReached
<1>8. Bucket(counted[i]) \in Nat /\ Bucket(counted[j]) \in Nat
  BY SampleBuckets
<1>. QED BY <1>2, <1>3, <1>7, <1>8, ReportedInOrder

\* The average lies between the bounds of what is averaged.
LEMMA AverageBounds ==
  ASSUME NEW n \in Nat \ {0}, NEW low \in Nat, NEW high \in Nat, NEW sum \in Nat,
         low * n <= sum, sum <= high * n
  PROVE  low <= sum \div n /\ sum \div n <= high
<1>. DEFINE q == sum \div n
<1>1. q \in Nat /\ n * q <= sum /\ sum < n * q + n
  BY SMTT(30)
<1>. HIDE DEF q
<1>2. low <= q
  <2>. SUFFICES ASSUME q + 1 <= low PROVE FALSE
    BY <1>1
  <2>1. n * (q + 1) <= n * low /\ n * (q + 1) = n * q + n /\ n * low = low * n
    BY SMTT(30), <1>1
  <2>2. n * q \in Nat /\ low * n \in Nat
    BY SMTT(30), <1>1
  <2>. QED BY <1>1, <2>1, <2>2
<1>3. q <= high
  <2>. SUFFICES ASSUME high + 1 <= q PROVE FALSE
    BY <1>1
  <2>1. n * (high + 1) <= n * q /\ n * (high + 1) = high * n + n
    BY SMTT(30), <1>1
  <2>2. n * q \in Nat /\ high * n \in Nat
    BY SMTT(30), <1>1
  <2>. QED BY <1>1, <2>1, <2>2
<1>. QED BY <1>2, <1>3 DEF q

\* Counting one more sample widens the extremes at most to its latency.
LEMMA OneMoreInExtremes ==
  ASSUME NEW s \in Seq(Stamped), NEW e \in Stamped, NEW low, NEW high, NEW sum,
         Extremes(s, low, high, sum)
  PROVE  Extremes(Append(s, e),
                  IF low = Unset \/ e.latency_ns < low THEN e.latency_ns ELSE low,
                  IF e.latency_ns > high THEN e.latency_ns ELSE high,
                  sum + e.latency_ns)
<1>. DEFINE a == Append(s, e)
            n == Len(s)
            l == e.latency_ns
            lo == IF low = Unset \/ l < low THEN l ELSE low
            hi == IF l > high THEN l ELSE high
<1>1. l \in Nat
  BY DEF Stamped
<1>2. /\ n \in Nat /\ a # <<>> /\ Len(a) = n + 1
      /\ DOMAIN a = DOMAIN s \cup {n + 1} /\ a[n + 1] = e
      /\ \A i \in DOMAIN s : a[i] = s[i]
  BY Places
<1>. HIDE DEF a
<1>3. CASE s = <<>>
  <2>1. lo = l /\ hi = l /\ sum + l = l
    BY <1>1, <1>3 DEF Extremes, Unset
  <2>2. DOMAIN s = {} /\ n = 0
    BY <1>3
  <2>. HIDE DEF n, l, lo, hi
  <2>3. Extremes(a, l, l, l)
    BY <1>1, <1>2, <2>2 DEF Extremes, l
  <2>. QED BY <2>1, <2>3 DEF a, lo, hi, l
<1>4. CASE s # <<>>
  <2>1. /\ low \in Nat /\ high \in Nat /\ sum \in Nat
        /\ \A i \in DOMAIN s : low <= s[i].latency_ns /\ s[i].latency_ns <= high
        /\ \E i \in DOMAIN s : s[i].latency_ns = low
        /\ \E i \in DOMAIN s : s[i].latency_ns = high
        /\ low * n <= sum /\ sum <= high * n
    BY <1>4 DEF Extremes
  <2>2. lo \in Nat /\ hi \in Nat /\ lo <= low /\ lo <= l /\ high <= hi /\ l <= hi
    BY <1>1, <2>1 DEF Unset
  <2>3. lo \in {low, l} /\ hi \in {high, l}
    OBVIOUS
  <2>4. \A i \in DOMAIN s : s[i].latency_ns \in Nat
    BY SampleBuckets
  <2>5. \A i \in DOMAIN a : lo <= a[i].latency_ns /\ a[i].latency_ns <= hi
    <3>. TAKE i \in DOMAIN a
    <3>1. CASE i \in DOMAIN s
      <4>1. a[i] = s[i] /\ low <= s[i].latency_ns /\ s[i].latency_ns <= high
        BY <1>2, <2>1, <3>1
      <4>2. s[i].latency_ns \in Nat
        BY <2>4, <3>1
      <4>. HIDE DEF lo, hi
      <4>. QED BY <2>1, <2>2, <4>1, <4>2
    <3>2. CASE i = n + 1
      <4>1. a[i].latency_ns = l
        BY <1>2, <3>2
      <4>. QED BY <2>2, <4>1
    <3>. QED BY <1>2, <3>1, <3>2
  <2>6. \E i \in DOMAIN a : a[i].latency_ns = lo
    BY <1>2, <2>1, <2>3
  <2>7. \E i \in DOMAIN a : a[i].latency_ns = hi
    BY <1>2, <2>1, <2>3
  <2>. HIDE DEF n, l, lo, hi
  <2>8. lo * (n + 1) <= sum + l
    <3>1. lo * n <= low * n /\ lo * (n + 1) = lo * n + lo
      BY SMTT(30), <1>2, <2>1, <2>2
    <3>2. lo * n \in Nat /\ low * n \in Nat
      BY SMTT(30), <1>2, <2>1, <2>2
    <3>. QED BY <1>1, <2>1, <2>2, <3>1, <3>2
  <2>9. sum + l <= hi * (n + 1)
    <3>1. high * n <= hi * n /\ hi * (n + 1) = hi * n + hi
      BY SMTT(30), <1>2, <2>1, <2>2
    <3>2. hi * n \in Nat /\ high * n \in Nat
      BY SMTT(30), <1>2, <2>1, <2>2
    <3>. QED BY <1>1, <2>1, <2>2, <3>1, <3>2
  <2>10. Extremes(a, lo, hi, sum + l)
    <3>1. {lo, hi, sum + l} \subseteq Nat
      BY <1>1, <2>1, <2>2
    <3>2. lo * Len(a) <= sum + l /\ sum + l <= hi * Len(a)
      BY <1>2, <2>8, <2>9
    <3>. QED BY <1>2, <2>5, <2>6, <2>7, <3>1, <3>2 DEF Extremes
  <2>. QED BY <2>10 DEF a, lo, hi, l
<1>. QED BY <1>3, <1>4

\* At first there is nothing in any of the totals.
LEMMA TotalsInit == Init => TotalsInv
<1>. SUFFICES ASSUME Init PROVE TotalsInv
  OBVIOUS
<1>1. counted = <<>> /\ DOMAIN counted = {} /\ Len(counted) = 0
  BY DEF Init
<1>2. latency_histogram = HistogramOf(counted)
  <2>1. BucketsOf(counted) = {}
    BY <1>1 DEF BucketsOf
  <2>. QED BY <2>1 DEF Init, HistogramOf, EmptyBag, SetToBag
<1>3. Extremes(counted, min_latency_ns, max_latency_ns, latency_sum_ns)
  BY <1>1 DEF Init, Extremes
<1>. QED BY <1>1, <1>2, <1>3 DEF Init, TotalsInv

\* RecordFastPath counts the sample in each of the totals.
LEMMA CountKeepsTotals ==
  ASSUME WindowInv, TotalsInv, NEW w \in Writers, RecordFastPath(w)
  PROVE  TotalsInv'
<1>. DEFINE sample == Head(waiting[w])
            stamp  == IF sample.timestamp_ns = 0 THEN now ELSE sample.timestamp_ns
            e      == [timestamp_ns |-> stamp, latency_ns |-> sample.latency_ns]
<1>1. counted \in Seq(Stamped) /\ now \in Nat /\ waiting \in [Writers -> Seq(Stamped)]
  BY DEF WindowInv, WindowTypes
<1>2. sample \in Stamped
  <2>1. waiting[w] \in Seq(Stamped) /\ waiting[w] # <<>>
    BY <1>1 DEF RecordFastPath
  <2>. QED BY <2>1
<1>3. e \in Stamped /\ e.latency_ns = sample.latency_ns
  BY <1>1, <1>2 DEF Stamped
<1>4. /\ counted' = Append(counted, e)
      /\ total_requests' = total_requests + 1
      /\ latency_sum_ns' = latency_sum_ns + sample.latency_ns
      /\ latency_histogram' =
           latency_histogram (+) SetToBag({LatencyToBucket(sample.latency_ns)})
      /\ min_latency_ns' = IF min_latency_ns = Unset \/ sample.latency_ns < min_latency_ns
                           THEN sample.latency_ns ELSE min_latency_ns
      /\ max_latency_ns' = IF sample.latency_ns > max_latency_ns
                           THEN sample.latency_ns ELSE max_latency_ns
  BY DEF RecordFastPath
<1>5. LatencyToBucket(sample.latency_ns) = Bucket(e)
  BY <1>3 DEF Bucket
<1>. HIDE DEF sample, stamp, e
<1>6. /\ total_requests = Len(counted)
      /\ latency_histogram = HistogramOf(counted)
      /\ Extremes(counted, min_latency_ns, max_latency_ns, latency_sum_ns)
  BY DEF TotalsInv
<1>7. total_requests' = Len(counted')
  BY <1>1, <1>3, <1>4, <1>6, Places
<1>8. latency_histogram' = HistogramOf(counted')
  BY <1>1, <1>3, <1>4, <1>5, <1>6, OneMoreInHistogram
<1>9. Extremes(counted', min_latency_ns', max_latency_ns', latency_sum_ns')
  BY <1>1, <1>3, <1>4, <1>6, OneMoreInExtremes
<1>. QED BY <1>7, <1>8, <1>9 DEF TotalsInv

\* The totals in every reachable state.
LEMMA TotalsInvariant == Spec => []TotalsInv
<1>1. Init => TotalsInv
  BY TotalsInit
<1>2. WindowInv /\ TotalsInv /\ [Next]_vars => TotalsInv'
  <2>. SUFFICES ASSUME WindowInv, TotalsInv, [Next]_vars PROVE TotalsInv'
    OBVIOUS
  <2>1. CASE \E w \in Writers : RecordFastPath(w)
    BY <2>1, CountKeepsTotals
  <2>2. CASE UNCHANGED <<total_requests, latency_sum_ns, latency_histogram, min_latency_ns,
                         max_latency_ns, counted>>
    BY <2>2 DEF TotalsInv
  <2>3. CASE \E w \in Writers : \E latency \in Latencies : Record(w, latency)
    BY <2>2, <2>3 DEF Record
  <2>4. CASE Tick
    BY <2>2, <2>4 DEF Tick
  <2>5. CASE UNCHANGED vars
    BY <2>2, <2>5 DEF vars
  <2>. QED BY <2>1, <2>3, <2>4, <2>5 DEF Next, Terminated
<1>. QED BY <1>1, <1>2, WindowInvariant, PTL DEF Spec

\* The percentiles of a snapshot are the lower ends of the buckets of the exact order
\* statistics and in order, the last is at most the maximum, and the average lies between
\* the extremes, for every latency and every number of samples (stats.cpp:35-57, 179-191,
\* 235-251).
THEOREM SnapshotIsBracketed == Spec => []SnapshotBracketed
<1>1. WindowInv /\ TotalsInv => SnapshotBracketed
  <2>. SUFFICES ASSUME WindowInv, TotalsInv, total_requests > 0 PROVE SnapshotBracketed
    BY DEF SnapshotBracketed
  <2>1. /\ counted \in Seq(Stamped) /\ total_requests = Len(counted)
        /\ Len(counted) \in Nat \ {0} /\ counted # <<>>
    BY DEF WindowInv, WindowTypes, TotalsInv
  <2>2. /\ min_latency_ns \in Nat /\ max_latency_ns \in Nat /\ latency_sum_ns \in Nat
        /\ \A i \in DOMAIN counted : counted[i].latency_ns <= max_latency_ns
        /\ min_latency_ns * Len(counted) <= latency_sum_ns
        /\ latency_sum_ns <= max_latency_ns * Len(counted)
    BY <2>1 DEF TotalsInv, Extremes
  <2>. DEFINE Exact(p, percent) == \E i \in DOMAIN counted :
                /\ IsOrderStatistic(counted[i].latency_ns, Target(percent))
                /\ Reports(p, counted[i].latency_ns)
              P(percent) == GetPercentileNs(percent)
  <2>3. \A percent \in 0..100 : Exact(P(percent), percent)
    BY <2>1, PercentileExact
  <2>4. P(50) <= P(95) /\ P(95) <= P(99)
    BY <2>1, PercentilesInOrder
  <2>5. P(99) <= max_latency_ns
    <3>1. PICK i \in DOMAIN counted :
            /\ IsRanked(counted, Target(99), i)
            /\ P(99) = BucketToLatencyUpperNs(Bucket(counted[i]))
      BY <2>1, PercentileRanked
    <3>2. counted[i].latency_ns \in Nat /\ Bucket(counted[i]) \in Nat
      BY <2>1, SampleBuckets
    <3>3. P(99) <= counted[i].latency_ns /\ counted[i].latency_ns <= max_latency_ns
      BY <2>2, <3>1, <3>2, BucketReported DEF Reports, Bucket
    <3>4. P(99) \in Nat
      BY <3>1, <3>2, ReportedInOrder
    <3>. QED BY <2>2, <3>2, <3>3, <3>4
  <2>6. /\ min_latency_ns <= latency_sum_ns \div total_requests
        /\ latency_sum_ns \div total_requests <= max_latency_ns
    BY <2>1, <2>2, AverageBounds
  <2>7. Exact(P(50), 50) /\ Exact(P(95), 95) /\ Exact(P(99), 99)
    BY <2>3
  <2>. HIDE DEF P
  <2>. QED BY <2>4, <2>5, <2>6, <2>7 DEF SnapshotBracketed, Snapshot, P
<1>. QED BY <1>1, WindowInvariant, TotalsInvariant, PTL
=============================================================================
