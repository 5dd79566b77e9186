-------------------------- MODULE StatsRingProofs --------------------------
(***************************************************************************)
(* StatsRing for any number of writers, any capacity and any number of     *)
(* records: the types, that the ring is never overfull, that no entry is   *)
(* read while it is written, that unread samples stay intact, that the     *)
(* rings implement SampleLedger, and that the counters are exact.          *)
(***************************************************************************)
EXTENDS StatsRing, SumProofs, SequenceTheorems

USE WritersAssumption, CapacityAssumption, SamplesAssumption, BoundAssumption

\* Two indices less than Capacity apart never share a slot.
LEMMA SlotsApart ==
  ASSUME NEW i \in Nat, NEW j \in Nat, i < j, j - i < Capacity
  PROVE  SlotOf(i) # SlotOf(j)
<1> DEFINE a == i \div Capacity
           b == j \div Capacity
<1>1. /\ i = Capacity * a + (i % Capacity) /\ a \in Nat
      /\ j = Capacity * b + (j % Capacity) /\ b \in Nat
  OBVIOUS
<1>2. SUFFICES ASSUME i % Capacity = j % Capacity PROVE FALSE
  BY DEF SlotOf
<1>3. j - i = Capacity * (b - a)
  BY <1>1, <1>2
<1>4. b - a \in Int
  BY <1>1
<1>5. CASE b - a <= 0
  BY <1>3, <1>4, <1>5
<1>6. CASE b - a >= 1
  BY <1>3, <1>4, <1>6
<1>. QED BY <1>4, <1>5, <1>6

\* A slot is an index of the ring.
LEMMA SlotInRing == \A i \in Nat : SlotOf(i) \in 0..(Capacity - 1)
  BY DEF SlotOf

\* The initial entry and the recorded samples are samples, and each has an error class.
LEMMA SampleTypes ==
  /\ EmptySample \in Sample
  /\ \A s \in Samples : s \in Sample
  /\ \A s \in Sample : ErrorIndexFromSample(s) \in ErrorClass /\ s.success \in BOOLEAN
  BY DEF EmptySample, Sample, ErrorClass, ErrorIndexFromSample

-----------------------------------------------------------------------------
\* Every variable of the statistics path keeps its type.
THEOREM TypeCorrect == Spec => []TypeOK
<1>1. Init => TypeOK
  <2> SUFFICES ASSUME Init PROVE TypeOK
    OBVIOUS
  <2>1. [w \in Writers |-> <<>>] \in [Writers -> Seq(Sample)]
    OBVIOUS
  <2>. QED BY <2>1, SampleTypes DEF Init, TypeOK
<1>2. TypeOK /\ [Next]_vars => TypeOK'
  <2> SUFFICES ASSUME TypeOK, [Next]_vars PROVE TypeOK'
    OBVIOUS
  <2> USE DEF TypeOK, writerVars, drainVars, counters, history
  <2>1. ASSUME NEW w \in Writers, CreateWriter(w) PROVE TypeOK'
    BY <2>1 DEF CreateWriter
  <2>2. ASSUME NEW w \in Writers, NEW s \in Samples, RecordLoad(w, s) PROVE TypeOK'
    <3>1. PICK v \in readSeen[w]..read_index[w] : readSeen' = [readSeen EXCEPT ![w] = v]
      BY <2>2 DEF RecordLoad
    <3>2. v \in Nat
      <4>1. readSeen[w] \in Nat /\ read_index[w] \in Nat
        OBVIOUS
      <4>. QED BY <4>1
    <3>3. readSeen' \in [Writers -> Nat]
      BY <3>1, <3>2
    <3>4. sample' \in [Writers -> Sample]
      BY <2>2, SampleTypes DEF RecordLoad
    <3>. QED BY <2>2, <3>3, <3>4 DEF RecordLoad
  <2>3. ASSUME NEW w \in Writers, RecordDrop(w) PROVE TypeOK'
    <3>1. dropped' \in [Writers -> Nat] /\ offered' \in [Writers -> Nat]
      <4>1. dropped[w] \in Nat /\ offered[w] \in Nat
        BY Zenon
      <4>2. dropped[w] + 1 \in Nat /\ offered[w] + 1 \in Nat
        BY ONLY <4>1
      <4>. QED BY <2>3, <4>2 DEF RecordDrop
    <3>. QED BY <2>3, <3>1 DEF RecordDrop
  <2>4. ASSUME NEW w \in Writers, RecordStore(w) PROVE TypeOK'
    <3>1. ring' \in [Writers -> [0..(Capacity - 1) -> Sample]]
      BY <2>4, SlotInRing DEF RecordStore
    <3>2. wpc' \in [Writers -> {"new", "idle", "check", "publish", "exited"}]
      BY <2>4 DEF RecordStore
    <3>. QED BY <2>4, <3>1, <3>2 DEF RecordStore
  <2>5. ASSUME NEW w \in Writers, RecordPublish(w) PROVE TypeOK'
    <3>1. write_index' \in [Writers -> Nat] /\ offered' \in [Writers -> Nat]
      <4>1. write_index[w] \in Nat /\ offered[w] \in Nat
        BY Zenon
      <4>2. write_index[w] + 1 \in Nat /\ offered[w] + 1 \in Nat
        BY ONLY <4>1
      <4>. QED BY <2>5, <4>2 DEF RecordPublish
    <3>2. accepted' \in [Writers -> Seq(Sample)]
      <4>1. Append(accepted[w], sample[w]) \in Seq(Sample)
        OBVIOUS
      <4>. QED BY <2>5, <4>1 DEF RecordPublish
    <3>. QED BY <2>5, <3>1, <3>2 DEF RecordPublish
  <2>6. ASSUME NEW w \in Writers, WriterExit(w) PROVE TypeOK'
    BY <2>6 DEF WriterExit
  <2>7. ASSUME NEW w \in Writers, Join(w) PROVE TypeOK'
    BY <2>7 DEF Join
  <2>8. CASE DrainBegin
    BY <2>8 DEF DrainBegin
  <2>9. ASSUME NEW w \in Writers, DrainLoad(w) PROVE TypeOK'
    <3>1. PICK v \in writeSeen[w]..write_index[w] : writeSeen' = [writeSeen EXCEPT ![w] = v]
      BY <2>9 DEF DrainLoad
    <3>2. v \in Nat
      <4>1. writeSeen[w] \in Nat /\ write_index[w] \in Nat
        OBVIOUS
      <4>. QED BY <4>1
    <3>3. writeSeen' \in [Writers -> Nat] /\ read_index[w] \in Nat
      BY <3>1, <3>2
    <3>. QED BY <2>9, <3>3 DEF DrainLoad
  <2>10. CASE DrainOne
    <3> DEFINE s == ring[dw][SlotOf(r)]
    <3>1. s \in Sample
      <4>1. SlotOf(r) \in 0..(Capacity - 1) /\ ring[dw] \in [0..(Capacity - 1) -> Sample]
        BY SlotInRing
      <4>. QED BY <4>1
    <3>2. ErrorIndexFromSample(s) \in ErrorClass /\ s.success \in BOOLEAN
      BY <3>1, SampleTypes
    <3>3. "kNone" \in ErrorClass
      BY DEF ErrorClass
    <3>4. /\ total_requests' \in Nat /\ success_requests' \in Nat
          /\ failed_requests' \in Nat /\ error_counts' \in [ErrorClass -> Nat]
      BY <2>10, <3>2, <3>3 DEF DrainOne, RecordFastPath, ClassOf
    <3>5. r' \in Nat
      BY <2>10 DEF DrainOne
    <3>. QED BY <2>10, <3>4, <3>5 DEF DrainOne
  <2>11. CASE DrainPublish
    BY <2>11 DEF DrainPublish
  <2>12. CASE DrainDropped
    <3>1. dropped_samples + dropped[dw] \in Nat
      <4>1. dropped_samples \in Nat /\ dropped[dw] \in Nat
        BY Zenon
      <4>. QED BY ONLY <4>1
    <3>2. dropped_samples' \in Nat /\ dropped' \in [Writers -> Nat]
      BY <2>12, <3>1 DEF DrainDropped
    <3>3. local_writers' \subseteq Writers /\ dpc' = "next"
      BY <2>12 DEF DrainDropped
    <3>. QED BY <2>12, <3>2, <3>3 DEF DrainDropped
  <2>13. CASE DrainEnd
    BY <2>13 DEF DrainEnd
  <2>14. CASE UNCHANGED vars
    BY <2>14 DEF vars
  <2>. QED
    BY <2>1, <2>2, <2>3, <2>4, <2>5, <2>6, <2>7, <2>8, <2>9, <2>10, <2>11, <2>12,
       <2>13, <2>14 DEF Next, WriterNext, DrainNext, Terminated
<1>. QED BY <1>1, <1>2, PTL DEF Spec

-----------------------------------------------------------------------------
\* What the types say of one writer, in the form the steps below need.
LEMMA TypesAt ==
  ASSUME TypeOK, NEW w \in Writers
  PROVE  /\ write_index[w] \in Nat /\ read_index[w] \in Nat
         /\ readSeen[w] \in Nat /\ writeSeen[w] \in Nat
         /\ r \in Nat /\ Position(w) \in Nat
         /\ accepted[w] \in Seq(Sample) /\ sample[w] \in Sample
         /\ ring[w] \in [0..(Capacity - 1) -> Sample]
  BY DEF TypeOK, Position

\* The part of it about indices.
LEMMA IndicesAt ==
  ASSUME TypeOK, NEW w \in Writers
  PROVE  /\ write_index[w] \in Nat /\ read_index[w] \in Nat
         /\ readSeen[w] \in Nat /\ writeSeen[w] \in Nat /\ Position(w) \in Nat
  BY TypesAt

\* A step that leaves the ring of a writer alone keeps the invariant of that ring.
LEMMA RingUntouched ==
  ASSUME TypeOK, NEW w \in Writers, RingInvAt(w),
         UNCHANGED <<ring[w], write_index[w], read_index[w], readSeen[w], writeSeen[w],
                     accepted[w], sample[w], Position(w)>>,
         wpc'[w] # "publish" \/ wpc'[w] = wpc[w]
  PROVE  RingInvAt(w)'
  BY DEF RingInvAt, IndicesOrdered, SlotOf

\* A writer's load of read_index only moves its copy forward.
LEMMA LoadKeeps ==
  ASSUME TypeOK, NEW w \in Writers, NEW s \in Samples, RecordLoad(w, s), RingInvAt(w)
  PROVE  RingInvAt(w)'
<1>1. PICK v \in readSeen[w]..read_index[w] : readSeen' = [readSeen EXCEPT ![w] = v]
  BY DEF RecordLoad
<1>2. readSeen'[w] = v /\ wpc'[w] = "check"
  BY <1>1 DEF RecordLoad, TypeOK
<1>3. UNCHANGED <<ring, write_index, read_index, writeSeen, accepted, dpc, dw, r>>
  BY DEF RecordLoad, drainVars, history
<1>4. Position(w)' = Position(w)
  BY <1>3 DEF Position
<1>5. readSeen[w] <= v /\ v <= read_index[w] /\ v \in Nat
  BY <1>1, TypesAt
<1>6. IndicesOrdered(w)'
  <2>1. IndicesOrdered(w)
    BY DEF RingInvAt
  <2>. QED BY <1>2, <1>3, <1>4, <1>5, <2>1, IndicesAt DEF IndicesOrdered
<1>. QED BY <1>2, <1>3, <1>4, <1>6 DEF RingInvAt, SlotOf

\* Record overwrites no unread entry: its slot lies less than Capacity above them all.
LEMMA StoreKeeps ==
  ASSUME TypeOK, NEW w \in Writers, RecordStore(w), RingInvAt(w)
  PROVE  RingInvAt(w)'
<1>1. UNCHANGED <<write_index, read_index, readSeen, writeSeen, accepted, sample, dpc, dw, r>>
  BY DEF RecordStore, drainVars, history
<1>2. Position(w)' = Position(w)
  BY <1>1 DEF Position
<1>3. SlotOf(write_index[w]) \in 0..(Capacity - 1)
  BY SlotInRing, TypesAt
<1>4. ring'[w] = [ring[w] EXCEPT ![SlotOf(write_index[w])] = sample[w]]
  BY DEF RecordStore, TypeOK
<1>5. ring'[w][SlotOf(write_index[w])] = sample[w]
  BY <1>3, <1>4, TypesAt
<1>6. ASSUME NEW i \in Position(w)..(write_index[w] - 1)
      PROVE  ring'[w][SlotOf(i)] = accepted[w][i + 1]
  <2>1. i \in Nat /\ i < write_index[w] /\ write_index[w] - i < Capacity
    <3>1. write_index[w] - readSeen[w] < Capacity
      BY DEF RecordStore
    <3>2. readSeen[w] <= Position(w)
      BY TypesAt DEF RingInvAt, IndicesOrdered
    <3>. QED BY <1>6, <3>1, <3>2, TypesAt
  <2>2. SlotOf(i) # SlotOf(write_index[w]) /\ SlotOf(i) \in 0..(Capacity - 1)
    BY <2>1, SlotsApart, SlotInRing, TypesAt
  <2>3. ring'[w][SlotOf(i)] = ring[w][SlotOf(i)]
    BY <1>4, <2>2, TypesAt
  <2>. QED BY <2>3, <1>6 DEF RingInvAt
<1>7. IndicesOrdered(w)'
  <2>1. write_index[w] - readSeen[w] < Capacity
    BY DEF RecordStore
  <2>2. IndicesOrdered(w)
    BY DEF RingInvAt
  <2>. QED BY <1>1, <1>2, <2>1, <2>2, IndicesAt DEF IndicesOrdered
<1>8. SlotOf(write_index[w])' = SlotOf(write_index[w])
  BY <1>1 DEF SlotOf
<1>9. \A i : SlotOf(i)' = SlotOf(i)
  BY DEF SlotOf
<1>. QED BY <1>1, <1>2, <1>5, <1>6, <1>7, <1>8, <1>9 DEF RingInvAt

\* Publishing appends the stored entry to the samples that wait to be counted.
LEMMA PublishKeeps ==
  ASSUME TypeOK, NEW w \in Writers, RecordPublish(w), RingInvAt(w)
  PROVE  RingInvAt(w)'
<1>1. UNCHANGED <<ring, read_index, readSeen, writeSeen, sample, dpc, dw, r>>
  BY DEF RecordPublish, drainVars, counters
<1>2. Position(w)' = Position(w) /\ \A i : SlotOf(i)' = SlotOf(i)
  BY <1>1 DEF Position, SlotOf
<1>3. /\ write_index'[w] = write_index[w] + 1
      /\ accepted'[w] = Append(accepted[w], sample[w])
      /\ wpc'[w] = "idle"
  <2>1. /\ write_index' = [write_index EXCEPT ![w] = @ + 1]
        /\ accepted' = [accepted EXCEPT ![w] = Append(@, sample[w])]
        /\ wpc' = [wpc EXCEPT ![w] = "idle"]
    BY DEF RecordPublish
  <2>2. DOMAIN write_index = Writers /\ DOMAIN accepted = Writers /\ DOMAIN wpc = Writers
    BY DEF TypeOK
  <2>. QED BY <2>1, <2>2
<1>4. IndicesOrdered(w)'
  <2>1. write_index[w] - readSeen[w] < Capacity /\ write_index[w] = Len(accepted[w])
    BY DEF RingInvAt, IndicesOrdered, RecordPublish
  <2>2. Len(accepted'[w]) = Len(accepted[w]) + 1
    BY <1>3, TypesAt
  <2>3. IndicesOrdered(w)
    BY DEF RingInvAt
  <2>. QED BY <1>1, <1>2, <1>3, <2>1, <2>2, <2>3, IndicesAt DEF IndicesOrdered
<1>5. ASSUME NEW i \in Position(w)..write_index[w]
      PROVE  ring[w][SlotOf(i)] = accepted'[w][i + 1]
  <2>1. CASE i = write_index[w]
    <3>1. wpc[w] = "publish" /\ write_index[w] = Len(accepted[w])
      BY DEF RingInvAt, IndicesOrdered, RecordPublish
    <3>2. ring[w][SlotOf(write_index[w])] = sample[w]
      BY <3>1 DEF RingInvAt
    <3>3. accepted'[w][Len(accepted[w]) + 1] = sample[w]
      BY <1>3, TypesAt
    <3>. QED BY <2>1, <3>1, <3>2, <3>3
  <2>2. CASE i < write_index[w]
    <3>1. i + 1 \in 1..Len(accepted[w])
      BY <1>5, <2>2, TypesAt DEF RingInvAt, IndicesOrdered
    <3>2. accepted'[w][i + 1] = accepted[w][i + 1]
      BY <1>3, <3>1, TypesAt
    <3>3. i \in Position(w)..(write_index[w] - 1)
      BY <1>5, <2>2, TypesAt
    <3>. QED BY <3>2, <3>3 DEF RingInvAt
  <2>. QED BY <1>5, <2>1, <2>2, TypesAt
<1>6. (write_index[w] - 1)' = write_index[w]
  BY <1>3, TypesAt
<1>. QED BY <1>1, <1>2, <1>3, <1>4, <1>5, <1>6 DEF RingInvAt

\* Joining a finished writer shows the main thread its last write index.
LEMMA JoinKeeps ==
  ASSUME TypeOK, NEW w \in Writers, Join(w), RingInvAt(w)
  PROVE  RingInvAt(w)'
<1>1. UNCHANGED <<ring, write_index, read_index, readSeen, accepted, sample, wpc, dpc, dw, r>>
  BY DEF Join, history, writerVars
<1>2. Position(w)' = Position(w) /\ \A i : SlotOf(i)' = SlotOf(i)
  BY <1>1 DEF Position, SlotOf
<1>3. writeSeen'[w] = write_index[w]
  BY DEF Join, TypeOK
<1>. QED BY <1>1, <1>2, <1>3, TypesAt DEF RingInvAt, IndicesOrdered

\* Drain starts at the read index, with a write index at least as new as its last one.
LEMMA DrainLoadKeeps ==
  ASSUME TypeOK, NEW w \in Writers, DrainLoad(w), RingInvAt(w)
  PROVE  RingInvAt(w)'
<1>1. UNCHANGED <<ring, write_index, read_index, readSeen, accepted, sample, wpc>>
  BY DEF DrainLoad, history, writerVars
<1>2. PICK v \in writeSeen[w]..write_index[w] : writeSeen' = [writeSeen EXCEPT ![w] = v]
  BY DEF DrainLoad
<1>3. Position(w) = read_index[w] /\ Position(w)' = read_index[w]
  BY <1>1 DEF DrainLoad, Position
<1>4. writeSeen'[w] = v /\ \A i : SlotOf(i)' = SlotOf(i)
  BY <1>2 DEF TypeOK, SlotOf
<1>5. writeSeen[w] <= v /\ v <= write_index[w] /\ v \in Nat
  BY <1>2, TypesAt
<1>6. IndicesOrdered(w)'
  <2>1. IndicesOrdered(w)
    BY DEF RingInvAt
  <2>. QED BY <1>1, <1>3, <1>4, <1>5, <2>1, IndicesAt DEF IndicesOrdered
<1>. QED BY <1>1, <1>3, <1>4, <1>6 DEF RingInvAt

\* Counting a sample moves the position past it.
LEMMA DrainOneKeeps ==
  ASSUME TypeOK, NEW w \in Writers, DrainOne, dw = w, RingInvAt(w)
  PROVE  RingInvAt(w)'
<1>1. UNCHANGED <<ring, write_index, read_index, readSeen, writeSeen, accepted, sample, wpc,
                  dpc, dw>>
  BY DEF DrainOne, history, writerVars
<1>2. Position(w) = r /\ Position(w)' = r + 1 /\ r < writeSeen[w]
  BY <1>1 DEF DrainOne, Position
<1>3. \A i : SlotOf(i)' = SlotOf(i)
  BY DEF SlotOf
<1>4. (r + 1)..(write_index[w] - 1) \subseteq r..(write_index[w] - 1)
  BY TypesAt
<1>5. IndicesOrdered(w)'
  <2>1. IndicesOrdered(w)
    BY DEF RingInvAt
  <2>. QED BY <1>1, <1>2, <2>1, IndicesAt DEF IndicesOrdered
<1>. QED BY <1>1, <1>2, <1>3, <1>4, <1>5 DEF RingInvAt

\* Storing the read index hands the counted entries back to the writer.
LEMMA DrainPublishKeeps ==
  ASSUME TypeOK, NEW w \in Writers, DrainPublish, dw = w, RingInvAt(w)
  PROVE  RingInvAt(w)'
<1>1. UNCHANGED <<ring, write_index, readSeen, writeSeen, accepted, sample, wpc, dw, r>>
  BY DEF DrainPublish, history, writerVars
<1>2. read_index'[w] = r /\ Position(w) = r /\ Position(w)' = r
  BY <1>1 DEF DrainPublish, Position, TypeOK
<1>3. \A i : SlotOf(i)' = SlotOf(i)
  BY DEF SlotOf
<1>4. IndicesOrdered(w)'
  <2>1. IndicesOrdered(w)
    BY DEF RingInvAt
  <2>. QED BY <1>1, <1>2, <2>1, IndicesAt DEF IndicesOrdered
<1>. QED BY <1>1, <1>2, <1>3, <1>4 DEF RingInvAt

\* Every step keeps the invariant of every ring.
LEMMA StepKeepsRing ==
  ASSUME TypeOK, NEW w \in Writers, RingInvAt(w), [Next]_vars
  PROVE  RingInvAt(w)'
<1> USE DEF writerVars, drainVars, counters, history
<1>1. ASSUME NEW x \in Writers, CreateWriter(x) PROVE RingInvAt(w)'
  BY <1>1, RingUntouched DEF CreateWriter, TypeOK, Position
<1>2. ASSUME NEW x \in Writers, NEW s \in Samples, RecordLoad(x, s) PROVE RingInvAt(w)'
  <2>1. CASE x = w
    BY <1>2, <2>1, LoadKeeps
  <2>2. CASE x # w
    BY <1>2, <2>2, RingUntouched DEF RecordLoad, TypeOK, Position
  <2>. QED BY <2>1, <2>2
<1>3. ASSUME NEW x \in Writers, RecordDrop(x) PROVE RingInvAt(w)'
  BY <1>3, RingUntouched DEF RecordDrop, TypeOK, Position
<1>4. ASSUME NEW x \in Writers, RecordStore(x) PROVE RingInvAt(w)'
  <2>1. CASE x = w
    BY <1>4, <2>1, StoreKeeps
  <2>2. CASE x # w
    BY <1>4, <2>2, RingUntouched DEF RecordStore, TypeOK, Position
  <2>. QED BY <2>1, <2>2
<1>5. ASSUME NEW x \in Writers, RecordPublish(x) PROVE RingInvAt(w)'
  <2>1. CASE x = w
    BY <1>5, <2>1, PublishKeeps
  <2>2. CASE x # w
    BY <1>5, <2>2, RingUntouched DEF RecordPublish, TypeOK, Position
  <2>. QED BY <2>1, <2>2
<1>6. ASSUME NEW x \in Writers, WriterExit(x) PROVE RingInvAt(w)'
  BY <1>6, RingUntouched DEF WriterExit, TypeOK, Position
<1>7. ASSUME NEW x \in Writers, Join(x) PROVE RingInvAt(w)'
  <2>1. CASE x = w
    BY <1>7, <2>1, JoinKeeps
  <2>2. CASE x # w
    BY <1>7, <2>2, RingUntouched DEF Join, TypeOK, Position
  <2>. QED BY <2>1, <2>2
<1>8. CASE DrainBegin
  BY <1>8, RingUntouched DEF DrainBegin, TypeOK, Position
<1>9. ASSUME NEW x \in Writers, DrainLoad(x) PROVE RingInvAt(w)'
  <2>1. CASE x = w
    BY <1>9, <2>1, DrainLoadKeeps
  <2>2. CASE x # w
    BY <1>9, <2>2, RingUntouched DEF DrainLoad, TypeOK, Position
  <2>. QED BY <2>1, <2>2
<1>10. CASE DrainOne
  <2>1. CASE dw = w
    BY <1>10, <2>1, DrainOneKeeps
  <2>2. CASE dw # w
    BY <1>10, <2>2, RingUntouched DEF DrainOne, TypeOK, Position
  <2>. QED BY <2>1, <2>2
<1>11. CASE DrainPublish
  <2>1. CASE dw = w
    BY <1>11, <2>1, DrainPublishKeeps
  <2>2. CASE dw # w
    BY <1>11, <2>2, RingUntouched DEF DrainPublish, TypeOK, Position
  <2>. QED BY <2>1, <2>2
<1>12. CASE DrainDropped
  BY <1>12, RingUntouched DEF DrainDropped, TypeOK, Position
<1>13. CASE DrainEnd
  BY <1>13, RingUntouched DEF DrainEnd, TypeOK, Position
<1>14. CASE UNCHANGED vars
  BY <1>14, RingUntouched DEF vars, TypeOK, Position
<1>. QED
  BY <1>1, <1>2, <1>3, <1>4, <1>5, <1>6, <1>7, <1>8, <1>9, <1>10, <1>11, <1>12, <1>13,
     <1>14 DEF Next, WriterNext, DrainNext, Terminated

-----------------------------------------------------------------------------
\* The indices of every ring stay ordered and every unread sample stays in its slot
\* (stats.cpp:129-158, 299-316), for any number of writers and any capacity.
THEOREM RingInvariant == Spec => []RingInv
<1>1. Init => RingInv
  <2> SUFFICES ASSUME Init, NEW w \in Writers PROVE RingInvAt(w)
    BY DEF RingInv
  <2>1. Position(w) = 0 /\ write_index[w] = 0 /\ read_index[w] = 0 /\ readSeen[w] = 0
    BY DEF Init, Position
  <2>2. writeSeen[w] = 0 /\ accepted[w] = <<>> /\ wpc[w] = "new"
    BY DEF Init
  <2>. QED BY <2>1, <2>2 DEF RingInvAt, IndicesOrdered
<1>2. TypeOK /\ RingInv /\ [Next]_vars => RingInv'
  BY StepKeepsRing DEF RingInv
<1>. QED BY <1>1, <1>2, TypeCorrect, PTL DEF Spec

\* No entry of a ring is read by Drain while Record writes it (stats.cpp:147-150, 312).
THEOREM NoRace == Spec => []NoSlotRace
<1>1. TypeOK /\ RingInv => NoSlotRace
  <2> SUFFICES ASSUME TypeOK, RingInv, NEW w \in Writers, WritesSlot(w),
                      dpc = "consume", dw = w, r < writeSeen[w]
               PROVE  SlotOf(r) # SlotOf(write_index[w])
    BY DEF NoSlotRace
  <2>1. RingInvAt(w)
    BY DEF RingInv
  <2>2. Position(w) = r /\ write_index[w] - readSeen[w] < Capacity
    BY <2>1 DEF Position, WritesSlot, RingInvAt, IndicesOrdered
  <2>3. r < write_index[w] /\ write_index[w] - r < Capacity
    BY <2>1, <2>2, TypesAt DEF RingInvAt, IndicesOrdered
  <2>. QED BY <2>3, SlotsApart, TypesAt
<1>. QED BY <1>1, TypeCorrect, RingInvariant, PTL

\* Every sample published and not yet counted is still in its slot, as it was recorded.
THEOREM UnreadStaysIntact == Spec => []UnreadIntact
<1>1. RingInv => UnreadIntact
  BY DEF RingInv, RingInvAt, UnreadIntact
<1>. QED BY <1>1, RingInvariant, PTL

\* A ring never holds more samples than it has entries.
THEOREM NeverOverfullRing == Spec => []NeverOverfull
<1>1. TypeOK /\ RingInv => NeverOverfull
  <2> SUFFICES ASSUME TypeOK, RingInv, NEW w \in Writers
               PROVE  write_index[w] - read_index[w] <= Capacity
    BY DEF NeverOverfull
  <2>1. IndicesOrdered(w)
    BY DEF RingInv, RingInvAt
  <2>2. /\ write_index[w] - readSeen[w] <= Capacity
        /\ readSeen[w] <= read_index[w]
    BY <2>1 DEF IndicesOrdered
  <2>3. write_index[w] \in Nat /\ read_index[w] \in Nat /\ readSeen[w] \in Nat
    BY TypesAt
  <2>. QED BY <2>2, <2>3
<1>. QED BY <1>1, TypeCorrect, RingInvariant, PTL

-----------------------------------------------------------------------------
\* The steps of the main thread that begin and end a Drain keep what makes it final.
LEMMA StepKeepsDrain ==
  ASSUME TypeOK, TypeOK', RingInv, DrainInv, [Next]_vars
  PROVE  DrainInv'
<1>. USE DEF writerVars, drainVars, counters, history
<1>1. ASSUME NEW x \in Writers, CreateWriter(x) PROVE DrainInv'
  <2>1. /\ writers' = writers \cup {x} /\ wpc[x] = "new" /\ wpc' = [wpc EXCEPT ![x] = "idle"]
        /\ UNCHANGED <<write_index, read_index, dropped, sample, drainVars>>
    BY <1>1 DEF CreateWriter
  <2>. QED BY <2>1 DEF DrainInv, Settled, TypeOK
<1>2. ASSUME NEW x \in Writers, NEW s \in Samples, RecordLoad(x, s) PROVE DrainInv'
  <2>1. /\ wpc[x] = "idle" /\ wpc' = [wpc EXCEPT ![x] = "check"]
        /\ sample' = [sample EXCEPT ![x] = s]
        /\ UNCHANGED <<write_index, read_index, dropped, writers, drainVars>>
    BY <1>2 DEF RecordLoad
  <2>. QED BY <2>1 DEF DrainInv, Settled, TypeOK
<1>3. ASSUME NEW x \in Writers, RecordDrop(x) PROVE DrainInv'
  <2>1. /\ wpc[x] = "check" /\ wpc' = [wpc EXCEPT ![x] = "idle"]
        /\ \A w \in Writers : w # x => dropped'[w] = dropped[w]
        /\ UNCHANGED <<write_index, read_index, sample, writers, drainVars>>
    BY <1>3 DEF RecordDrop, TypeOK
  <2>2. x \in writers /\ x \notin joined
    BY <2>1 DEF DrainInv
  <2>. QED BY <2>1, <2>2 DEF DrainInv, Settled, TypeOK
<1>4. ASSUME NEW x \in Writers, RecordStore(x) PROVE DrainInv'
  <2>1. /\ wpc[x] = "check" /\ wpc' = [wpc EXCEPT ![x] = "publish"]
        /\ UNCHANGED <<write_index, read_index, dropped, sample, writers, drainVars>>
    BY <1>4 DEF RecordStore
  <2>. QED BY <2>1 DEF DrainInv, Settled, TypeOK
<1>5. ASSUME NEW x \in Writers, RecordPublish(x) PROVE DrainInv'
  <2>1. /\ wpc[x] = "publish" /\ wpc' = [wpc EXCEPT ![x] = "idle"]
        /\ \A w \in Writers : w # x => write_index'[w] = write_index[w]
        /\ UNCHANGED <<read_index, dropped, sample, writers, drainVars>>
    BY <1>5 DEF RecordPublish, TypeOK
  <2>2. x \in writers /\ x \notin joined
    BY <2>1 DEF DrainInv
  <2>. QED BY <2>1, <2>2 DEF DrainInv, Settled, TypeOK
<1>6. ASSUME NEW x \in Writers, WriterExit(x) PROVE DrainInv'
  <2>1. /\ wpc' = [wpc EXCEPT ![x] = "exited"]
        /\ UNCHANGED <<write_index, read_index, dropped, sample, writers, drainVars>>
    BY <1>6 DEF WriterExit
  <2>. QED BY <2>1 DEF DrainInv, Settled, TypeOK
<1>7. ASSUME NEW x \in Writers, Join(x) PROVE DrainInv'
  <2>1. /\ dpc = "idle" /\ wpc[x] = "exited" /\ joined' = joined \cup {x}
        /\ writeSeen' = [writeSeen EXCEPT ![x] = write_index[x]]
        /\ UNCHANGED <<write_index, read_index, dropped, sample, writers, wpc, dpc,
                       local_writers, dw, final>>
    BY <1>7 DEF Join
  <2>. QED BY <2>1 DEF DrainInv, Settled, TypeOK
<1>8. CASE DrainBegin
  <2>1. /\ dpc' = "next" /\ local_writers' = writers /\ (final' => joined = Writers)
        /\ UNCHANGED <<write_index, read_index, dropped, sample, writers, wpc, dw, writeSeen,
                       joined>>
    BY <1>8 DEF DrainBegin
  <2>2. \A w \in Writers \ writers : Settled(w)
    <3>. SUFFICES ASSUME NEW w \in Writers \ writers PROVE Settled(w)
      OBVIOUS
    <3>1. write_index[w] = 0 /\ dropped[w] = 0
      BY DEF DrainInv
    <3>2. /\ read_index[w] <= Position(w) /\ Position(w) <= writeSeen[w]
          /\ writeSeen[w] <= write_index[w]
      BY DEF RingInv, RingInvAt, IndicesOrdered
    <3>3. read_index[w] = 0
      BY <3>1, <3>2, TypesAt
    <3>. QED BY <3>1, <3>3 DEF Settled
  <2>. QED BY <2>1, <2>2 DEF DrainInv, Settled
<1>9. ASSUME NEW x \in Writers, DrainLoad(x) PROVE DrainInv'
  <2>1. PICK v \in writeSeen[x]..write_index[x] : writeSeen' = [writeSeen EXCEPT ![x] = v]
    BY <1>9 DEF DrainLoad
  <2>2. /\ dpc = "next" /\ dpc' = "consume" /\ x \in local_writers /\ dw' = x
        /\ UNCHANGED <<write_index, read_index, dropped, sample, writers, wpc, local_writers,
                       joined, final>>
    BY <1>9 DEF DrainLoad
  <2>3. x \in joined => v = write_index[x]
    BY <2>1, TypesAt DEF DrainInv
  <2>4. \A w \in joined : writeSeen'[w] = write_index[w]
    BY <2>1, <2>3 DEF DrainInv, TypeOK
  <2>. QED BY <2>2, <2>4 DEF DrainInv, Settled
<1>10. CASE DrainOne
  <2>1. /\ dpc = "consume"
        /\ UNCHANGED <<write_index, read_index, dropped, sample, writers, wpc, dpc,
                       local_writers, dw, writeSeen, joined, final>>
    BY <1>10 DEF DrainOne
  <2>. QED BY <2>1 DEF DrainInv, Settled
<1>11. CASE DrainPublish
  <2>1. /\ dpc = "consume" /\ r >= writeSeen[dw] /\ dpc' = "dropped"
        /\ read_index' = [read_index EXCEPT ![dw] = r]
        /\ UNCHANGED <<write_index, dropped, sample, writers, wpc, local_writers, dw, writeSeen,
                       joined, final>>
    BY <1>11 DEF DrainPublish
  <2>2. dw \in local_writers /\ dw \in Writers
    BY <2>1 DEF DrainInv, TypeOK
  <2>3. /\ r = writeSeen[dw] /\ read_index'[dw] = r
        /\ \A w \in Writers : w # dw => read_index'[w] = read_index[w]
    <3>1. Position(dw) = r /\ Position(dw) <= writeSeen[dw]
      BY <2>1, <2>2 DEF Position, RingInv, RingInvAt, IndicesOrdered
    <3>2. r \in Nat /\ writeSeen[dw] \in Nat /\ DOMAIN read_index = Writers
      BY DEF TypeOK
    <3>. QED BY <2>1, <2>2, <3>1, <3>2
  <2>. QED BY <2>1, <2>2, <2>3 DEF DrainInv, Settled
<1>12. CASE DrainDropped
  <2>1. /\ dpc = "dropped" /\ dpc' = "next" /\ local_writers' = local_writers \ {dw}
        /\ dropped' = [dropped EXCEPT ![dw] = 0]
        /\ UNCHANGED <<write_index, read_index, sample, writers, wpc, dw, writeSeen, joined, final>>
    BY <1>12 DEF DrainDropped
  <2>2. dw \in Writers /\ \A w \in Writers : dropped'[w] = IF w = dw THEN 0 ELSE dropped[w]
    BY <2>1 DEF TypeOK
  <2>. QED BY <2>1, <2>2 DEF DrainInv, Settled
<1>13. CASE DrainEnd
  <2>1. /\ dpc = "next" /\ local_writers = {} /\ dpc' = IF final THEN "done" ELSE "idle"
        /\ UNCHANGED <<write_index, read_index, dropped, sample, writers, wpc, local_writers,
                       dw, writeSeen, joined, final>>
    BY <1>13 DEF DrainEnd
  <2>. QED BY <2>1 DEF DrainInv, Settled
<1>14. CASE UNCHANGED vars
  BY <1>14 DEF vars, DrainInv, Settled
<1>. QED
  BY <1>1, <1>2, <1>3, <1>4, <1>5, <1>6, <1>7, <1>8, <1>9, <1>10, <1>11, <1>12, <1>13,
     <1>14 DEF Next, WriterNext, DrainNext, Terminated

\* The sums of the indices and of the counters of the writers are integers.
LEMMA SumTypes ==
  ASSUME TypeOK
  PROVE  /\ offered \in [Writers -> Int] /\ write_index \in [Writers -> Int]
         /\ dropped \in [Writers -> Int]
         /\ [w \in Writers |-> Position(w)] \in [Writers -> Int]
         /\ SumFunction(offered) \in Int /\ SumFunction(write_index) \in Int
         /\ SumFunction(dropped) \in Int
<1>1. /\ offered \in [Writers -> Int] /\ write_index \in [Writers -> Int]
      /\ dropped \in [Writers -> Int]
  BY DEF TypeOK
<1>2. [w \in Writers |-> Position(w)] \in [Writers -> Int]
  BY TypesAt
<1>. QED BY <1>1, <1>2, SumOrder

\* Every step keeps the sums.
LEMMA StepKeepsSums ==
  ASSUME TypeOK, TypeOK', RecordsAddUp, [Next]_vars
  PROVE  RecordsAddUp'
<1>. DEFINE P == [w \in Writers |-> Position(w)]
<1>. USE DEF writerVars, drainVars, counters, history
<1>1. ASSUME UNCHANGED <<offered, write_index, dropped, dropped_samples, total_requests>>,
             \A w \in Writers : Position(w)' = Position(w)
      PROVE  RecordsAddUp'
  <2>1. P' = P
    BY <1>1
  <2>. QED BY <1>1, <2>1 DEF RecordsAddUp
<1>. HIDE DEF P
<1>0. \A f \in [Writers -> Nat] : f \in [Writers -> Int] /\ \A x \in Writers : f[x] \in Int
  OBVIOUS
<1>. USE DEF P
<1>2. ASSUME NEW x \in Writers, RecordDrop(x) PROVE RecordsAddUp'
  <2>1. /\ offered' = [offered EXCEPT ![x] = @ + 1] /\ dropped' = [dropped EXCEPT ![x] = @ + 1]
        /\ UNCHANGED <<write_index, dropped_samples, total_requests, read_index, dpc, dw, r>>
    BY <1>2 DEF RecordDrop
  <2>2. /\ offered[x] \in Int /\ dropped[x] \in Int
        /\ offered' \in [Writers -> Int] /\ dropped' \in [Writers -> Int]
    <3>1. /\ offered \in [Writers -> Nat] /\ dropped \in [Writers -> Nat]
          /\ offered' \in [Writers -> Nat] /\ dropped' \in [Writers -> Nat]
      BY DEF TypeOK
    <3>. QED BY <1>0, <3>1, Zenon
  <2>3. /\ offered'[x] = offered[x] + 1 /\ dropped'[x] = dropped[x] + 1
        /\ \A y \in Writers \ {x} : offered'[y] = offered[y] /\ dropped'[y] = dropped[y]
    BY <2>1 DEF TypeOK
  <2>4. /\ SumFunction(offered') = SumFunction(offered) + (offered'[x] - offered[x])
        /\ SumFunction(dropped') = SumFunction(dropped) + (dropped'[x] - dropped[x])
    BY <2>2, <2>3, SumTypes, SumChange
  <2>5. /\ SumFunction(offered') = SumFunction(offered) + 1
        /\ SumFunction(dropped') = SumFunction(dropped) + 1
    BY <2>2, <2>3, <2>4, SumTypes
  <2>6. \A w \in Writers : Position(w)' = Position(w)
    BY <2>1 DEF Position
  <2>7. P' = P /\ UNCHANGED <<write_index, dropped_samples, total_requests>>
    BY <2>1, <2>6
  <2>8. /\ SumFunction(offered) = SumFunction(write_index) + SumFunction(dropped) + dropped_samples
        /\ total_requests = SumFunction(P) /\ dropped_samples \in Int
    BY DEF RecordsAddUp, TypeOK
  <2>. HIDE DEF P
  <2>9. SumFunction(offered') = SumFunction(write_index') + SumFunction(dropped') + dropped_samples'
    BY <2>5, <2>7, <2>8, SumTypes
  <2>. QED BY <2>7, <2>8, <2>9 DEF RecordsAddUp, P
<1>3. ASSUME NEW x \in Writers, RecordPublish(x) PROVE RecordsAddUp'
  <2>1. /\ offered' = [offered EXCEPT ![x] = @ + 1]
        /\ write_index' = [write_index EXCEPT ![x] = @ + 1]
        /\ UNCHANGED <<dropped, dropped_samples, total_requests, read_index, dpc, dw, r>>
    BY <1>3 DEF RecordPublish
  <2>2. /\ offered[x] \in Int /\ write_index[x] \in Int
        /\ offered' \in [Writers -> Int] /\ write_index' \in [Writers -> Int]
    <3>1. /\ offered \in [Writers -> Nat] /\ write_index \in [Writers -> Nat]
          /\ offered' \in [Writers -> Nat] /\ write_index' \in [Writers -> Nat]
      BY DEF TypeOK
    <3>. QED BY <1>0, <3>1, Zenon
  <2>3. /\ offered'[x] = offered[x] + 1 /\ write_index'[x] = write_index[x] + 1
        /\ \A y \in Writers \ {x} : offered'[y] = offered[y] /\ write_index'[y] = write_index[y]
    BY <2>1 DEF TypeOK
  <2>4. /\ SumFunction(offered') = SumFunction(offered) + (offered'[x] - offered[x])
        /\ SumFunction(write_index') = SumFunction(write_index) + (write_index'[x] - write_index[x])
    BY <2>2, <2>3, SumTypes, SumChange
  <2>5. /\ SumFunction(offered') = SumFunction(offered) + 1
        /\ SumFunction(write_index') = SumFunction(write_index) + 1
    BY <2>2, <2>3, <2>4, SumTypes
  <2>6. \A w \in Writers : Position(w)' = Position(w)
    BY <2>1 DEF Position
  <2>7. P' = P /\ UNCHANGED <<dropped, dropped_samples, total_requests>>
    BY <2>1, <2>6
  <2>8. /\ SumFunction(offered) = SumFunction(write_index) + SumFunction(dropped) + dropped_samples
        /\ total_requests = SumFunction(P) /\ dropped_samples \in Int
    BY DEF RecordsAddUp, TypeOK
  <2>. HIDE DEF P
  <2>9. SumFunction(offered') = SumFunction(write_index') + SumFunction(dropped') + dropped_samples'
    BY <2>5, <2>7, <2>8, SumTypes
  <2>. QED BY <2>7, <2>8, <2>9 DEF RecordsAddUp, P
<1>4. CASE DrainOne
  <2>1. /\ dpc = "consume" /\ r' = r + 1 /\ total_requests' = total_requests + 1
        /\ UNCHANGED <<offered, write_index, dropped, dropped_samples, read_index, dpc, dw>>
    BY <1>4 DEF DrainOne, RecordFastPath
  <2>2. dw \in Writers /\ r \in Int
    BY DEF TypeOK
  <2>3. /\ P \in [Writers -> Int] /\ P' \in [Writers -> Int]
        /\ P'[dw] = P[dw] + 1 /\ P[dw] \in Int /\ \A y \in Writers \ {dw} : P'[y] = P[y]
    <3>1. \A y \in Writers : Position(y)' = IF y = dw THEN Position(y) + 1 ELSE Position(y)
      BY <2>1, <2>2 DEF Position
    <3>2. \A y \in Writers : Position(y) \in Int /\ Position(y)' \in Int
      BY <2>1, <2>2 DEF Position, TypeOK
    <3>3. \A y \in Writers : P[y] = Position(y) /\ P'[y] = Position(y)'
      OBVIOUS
    <3>4. P \in [Writers -> Int] /\ P' \in [Writers -> Int]
      BY <3>2
    <3>. HIDE DEF P
    <3>. QED BY <2>2, <3>1, <3>2, <3>3, <3>4
  <2>. HIDE DEF P
  <2>4. SumFunction(P) \in Int /\ SumFunction(P') = SumFunction(P) + (P'[dw] - P[dw])
    BY <2>2, <2>3, SumChange
  <2>5. SumFunction(P') = SumFunction(P) + 1
    BY <2>3, <2>4
  <2>. QED BY <2>1, <2>5 DEF RecordsAddUp, P
<1>5. CASE DrainDropped
  <2>1. /\ dpc = "dropped" /\ dpc' = "next" /\ dropped_samples' = dropped_samples + dropped[dw]
        /\ dropped' = [dropped EXCEPT ![dw] = 0]
        /\ UNCHANGED <<offered, write_index, total_requests, read_index, dw, r>>
    BY <1>5 DEF DrainDropped
  <2>2. /\ dw \in Writers /\ dropped[dw] \in Int
        /\ dropped' \in [Writers -> Int] /\ dropped_samples \in Int
    BY DEF TypeOK
  <2>3. dropped'[dw] = 0 /\ \A y \in Writers \ {dw} : dropped'[y] = dropped[y]
    BY <2>1 DEF TypeOK
  <2>4. SumFunction(dropped') = SumFunction(dropped) + (dropped'[dw] - dropped[dw])
    BY <2>2, <2>3, SumTypes, SumChange
  <2>5. SumFunction(dropped') + dropped_samples' = SumFunction(dropped) + dropped_samples
    BY <2>1, <2>2, <2>3, <2>4, SumTypes
  <2>6. P' = P
    <3>1. \A w \in Writers : Position(w)' = Position(w)
      BY <2>1 DEF Position
    <3>. QED BY <3>1
  <2>7. SumFunction(dropped') \in Int
    BY <2>2, <2>3, <2>4, SumTypes
  <2>. QED BY <2>1, <2>2, <2>5, <2>6, <2>7, SumTypes DEF RecordsAddUp
<1>6. ASSUME NEW x \in Writers, CreateWriter(x) \/ (\E s \in Samples : RecordLoad(x, s))
                                \/ RecordStore(x) \/ WriterExit(x) \/ Join(x)
      PROVE  RecordsAddUp'
  <2>1. UNCHANGED <<offered, write_index, dropped, dropped_samples, total_requests, read_index,
                    dpc, dw, r>>
    BY <1>6 DEF CreateWriter, RecordLoad, RecordStore, WriterExit, Join
  <2>. QED BY <1>1, <2>1 DEF Position
<1>7. ASSUME NEW x \in Writers, DrainLoad(x) PROVE RecordsAddUp'
  BY <1>1, <1>7 DEF DrainLoad, Position
<1>8. CASE DrainBegin \/ DrainEnd
  BY <1>1, <1>8 DEF DrainBegin, DrainEnd, Position
<1>9. CASE DrainPublish
  <2>1. \A w \in Writers : Position(w)' = Position(w)
    BY <1>9 DEF DrainPublish, Position, TypeOK
  <2>. QED BY <1>1, <1>9, <2>1 DEF DrainPublish
<1>10. CASE UNCHANGED vars
  BY <1>1, <1>10 DEF vars, Position
<1>. QED
  BY <1>2, <1>3, <1>4, <1>5, <1>6, <1>7, <1>8, <1>9, <1>10
     DEF Next, WriterNext, DrainNext, Terminated

\* The rings stay intact, the drain after the joins is final, and every Record call is
\* accounted for (stats.cpp:129-158, 299-316; engine.cpp:548-558), for any number of writers
\* and any capacity.
THEOREM StatsInvariant == Spec => []StatsInv
<1>1. Init => DrainInv
  BY DEF Init, DrainInv, Settled
<1>2. Init => RecordsAddUp
  <2>. SUFFICES ASSUME Init PROVE RecordsAddUp
    OBVIOUS
  <2>. DEFINE P == [w \in Writers |-> Position(w)]
  <2>1. \A w \in Writers : Position(w) = 0
    BY DEF Init, Position
  <2>2. /\ offered \in [Writers -> Int] /\ \A w \in Writers : offered[w] = 0
        /\ write_index \in [Writers -> Int] /\ \A w \in Writers : write_index[w] = 0
        /\ dropped \in [Writers -> Int] /\ \A w \in Writers : dropped[w] = 0
        /\ P \in [Writers -> Int] /\ \A w \in Writers : P[w] = 0
    BY <2>1 DEF Init
  <2>. HIDE DEF P
  <2>3. /\ SumFunction(offered) = 0 /\ SumFunction(write_index) = 0
        /\ SumFunction(dropped) = 0 /\ SumFunction(P) = 0
    BY <2>2, SumZero
  <2>. QED BY <2>3 DEF Init, RecordsAddUp, P
<1>3. TypeOK /\ TypeOK' /\ RingInv /\ DrainInv /\ RecordsAddUp /\ [Next]_vars
        => DrainInv' /\ RecordsAddUp'
  BY StepKeepsDrain, StepKeepsSums
<1>. QED BY <1>1, <1>2, <1>3, TypeCorrect, RingInvariant, PTL DEF Spec, StatsInv

-----------------------------------------------------------------------------
\* The samples of w that are published and not yet counted.
Waiting(w) == SubSeq(accepted[w], Position(w) + 1, write_index[w])

\* The samples that wait are at the end of those published.
LEMMA WaitingBounds ==
  ASSUME TypeOK, RingInv, NEW w \in Writers
  PROVE  /\ Position(w) \in 0..Len(accepted[w])
         /\ Len(accepted[w]) = write_index[w]
         /\ write_index[w] - Position(w) <= Capacity
         /\ Waiting(w) \in Seq(Sample)
         /\ Len(Waiting(w)) = write_index[w] - Position(w)
<1>1. /\ readSeen[w] <= Position(w) /\ Position(w) <= write_index[w]
      /\ Len(accepted[w]) = write_index[w] /\ write_index[w] - readSeen[w] <= Capacity
  <2>1. IndicesOrdered(w)
    BY DEF RingInv, RingInvAt
  <2>. QED BY <2>1, IndicesAt DEF IndicesOrdered
<1>2. Position(w) \in 0..Len(accepted[w]) /\ write_index[w] - Position(w) <= Capacity
  BY <1>1, TypesAt
<1>3. \A i \in (Position(w) + 1)..write_index[w] : accepted[w][i] \in Sample
  BY <1>1, TypesAt
<1>4. /\ Waiting(w) \in Seq(Sample)
      /\ Len(Waiting(w)) = IF Position(w) + 1 <= write_index[w]
                           THEN write_index[w] - (Position(w) + 1) + 1 ELSE 0
  <2>1. Position(w) + 1 \in Int /\ write_index[w] \in Int
    BY TypesAt
  <2>. QED BY <1>3, <2>1, SubSeqProperties DEF Waiting
<1>5. Len(Waiting(w)) = write_index[w] - Position(w)
  BY <1>1, <1>4, TypesAt
<1>. QED BY <1>1, <1>2, <1>4, <1>5

\* A sequence that grows at its end grows at the end of what is left of it.
LEMMA RestOfAppend ==
  ASSUME NEW S, NEW s \in Seq(S), NEW e \in S, NEW p \in 0..Len(s)
  PROVE  SubSeq(Append(s, e), p + 1, Len(s) + 1) = Append(SubSeq(s, p + 1, Len(s)), e)
<1>. DEFINE n == Len(s)
            a == Append(s, e)
            new == SubSeq(a, p + 1, n + 1)
            old == SubSeq(s, p + 1, n)
<1>1. n \in Nat /\ p \in Nat /\ p <= n
  OBVIOUS
<1>2. a \in Seq(S) /\ Len(a) = n + 1 /\ a[n + 1] = e /\ \A i \in 1..n : a[i] = s[i]
  BY AppendProperties
<1>. HIDE DEF a, n
<1>3. /\ new \in Seq(S) /\ Len(new) = n + 1 - p
      /\ \A i \in 1..(n + 1 - p) : new[i] = a[p + i]
  <2>1. \A i \in (p + 1)..(n + 1) : a[i] \in S
    BY <1>1, <1>2
  <2>2. /\ new \in Seq(S)
        /\ Len(new) = IF p + 1 <= n + 1 THEN (n + 1) - (p + 1) + 1 ELSE 0
        /\ \A i \in 1..((n + 1) - (p + 1) + 1) : new[i] = a[(p + 1) + i - 1]
    BY <1>1, <2>1, SubSeqProperties
  <2>. HIDE DEF new
  <2>. QED BY <1>1, <2>2
<1>4. /\ old \in Seq(S) /\ Len(old) = n - p
      /\ \A i \in 1..(n - p) : old[i] = s[p + i]
  <2>1. \A i \in (p + 1)..n : s[i] \in S
    BY <1>1 DEF n
  <2>2. /\ old \in Seq(S)
        /\ Len(old) = IF p + 1 <= n THEN n - (p + 1) + 1 ELSE 0
        /\ \A i \in 1..(n - (p + 1) + 1) : old[i] = s[(p + 1) + i - 1]
    BY <1>1, <2>1, SubSeqProperties
  <2>. HIDE DEF old
  <2>. QED BY <1>1, <2>2
<1>. HIDE DEF new, old
<1>5. /\ Append(old, e) \in Seq(S) /\ Len(Append(old, e)) = n - p + 1
      /\ Append(old, e)[n - p + 1] = e
      /\ \A i \in 1..(n - p) : Append(old, e)[i] = old[i]
  BY <1>4, AppendProperties
<1>6. \A i \in 1..Len(new) : new[i] = Append(old, e)[i]
  <2>. SUFFICES ASSUME NEW i \in 1..(n + 1 - p) PROVE new[i] = Append(old, e)[i]
    BY <1>3
  <2>1. CASE i = n - p + 1
    <3>1. p + i = n + 1
      BY <1>1, <2>1
    <3>. QED BY <1>2, <1>3, <1>5, <2>1, <3>1
  <2>2. CASE i # n - p + 1
    <3>1. i \in 1..(n - p) /\ p + i \in 1..n
      BY <1>1, <2>2
    <3>. QED BY <1>2, <1>3, <1>4, <1>5, <3>1
  <2>. QED BY <2>1, <2>2
<1>7. new = Append(old, e)
  <2>1. Len(new) = Len(Append(old, e))
    BY <1>1, <1>3, <1>5
  <2>. QED BY <1>3, <1>5, <1>6, <2>1, SeqEqual
<1>. QED BY <1>7 DEF new, old, a, n

\* A step that moves no sample into or out of a ring's queue leaves what waits there.
LEMMA WaitingUnchanged ==
  ASSUME UNCHANGED <<accepted, write_index>>, \A w \in Writers : Position(w)' = Position(w)
  PROVE  UNCHANGED [w \in Writers |-> SubSeq(accepted[w], Position(w) + 1, write_index[w])]
  OBVIOUS

\* Publishing a stored entry puts it into the ledger, where there is room for it.
LEMMA PublishIsPut ==
  ASSUME TypeOK, StatsInv, NEW w \in Writers, RecordPublish(w), NEW s, s = sample[w]
  PROVE  Ledger!Put(w, s)
<1>1. /\ wpc[w] = "publish" /\ write_index' = [write_index EXCEPT ![w] = @ + 1]
      /\ accepted' = [accepted EXCEPT ![w] = Append(@, sample[w])]
      /\ UNCHANGED <<dropped, error_counts, dropped_samples, dpc, dw, r, read_index>>
  BY DEF RecordPublish, drainVars, counters
<1>2. /\ write_index'[w] = write_index[w] + 1
      /\ accepted'[w] = Append(accepted[w], sample[w])
      /\ \A x \in Writers : x # w => write_index'[x] = write_index[x] /\ accepted'[x] = accepted[x]
  BY <1>1 DEF TypeOK
<1>3. \A x \in Writers : Position(x)' = Position(x)
  BY <1>1 DEF Position
<1>4. Waiting(w)' = Append(Waiting(w), sample[w])
  <2>1. Position(w) \in 0..Len(accepted[w]) /\ Len(accepted[w]) = write_index[w]
    BY WaitingBounds DEF StatsInv
  <2>2. accepted[w] \in Seq(Sample) /\ sample[w] \in Sample
    BY TypesAt
  <2>3. SubSeq(Append(accepted[w], sample[w]), Position(w) + 1, Len(accepted[w]) + 1)
          = Append(SubSeq(accepted[w], Position(w) + 1, Len(accepted[w])), sample[w])
    BY <2>1, <2>2, RestOfAppend
  <2>. QED BY <1>2, <1>3, <2>1, <2>3 DEF Waiting
<1>5. \A x \in Writers : x # w => Waiting(x)' = Waiting(x)
  BY <1>2, <1>3 DEF Waiting
<1>6. Len(Waiting(w)) < Capacity
  <2>1. IndicesOrdered(w) /\ write_index[w] - readSeen[w] < Capacity
    BY <1>1 DEF StatsInv, RingInv, RingInvAt, IndicesOrdered
  <2>2. write_index[w] - Position(w) < Capacity
    BY <2>1, IndicesAt DEF IndicesOrdered
  <2>. QED BY <2>2, WaitingBounds DEF StatsInv
<1>. QED BY <1>1, <1>4, <1>5, <1>6 DEF Ledger!Put, Waiting

\* Record drops a sample only when Capacity of them went in before.
LEMMA DropIsLose ==
  ASSUME TypeOK, StatsInv, NEW w \in Writers, RecordDrop(w)
  PROVE  Ledger!Lose(w)
<1>1. /\ write_index[w] - readSeen[w] >= Capacity /\ dropped' = [dropped EXCEPT ![w] = @ + 1]
      /\ UNCHANGED <<accepted, write_index, error_counts, dropped_samples, dpc, dw, r, read_index>>
  BY DEF RecordDrop, drainVars, counters
<1>2. write_index[w] >= Capacity
  BY <1>1, TypesAt
<1>3. \A x \in Writers : Position(x)' = Position(x)
  BY <1>1 DEF Position
<1>. QED BY <1>1, <1>2, <1>3, WaitingUnchanged DEF Ledger!Lose

\* What Drain reads from a ring is the first sample that waits there.
LEMMA DrainOneIsCount ==
  ASSUME TypeOK, StatsInv, DrainOne, NEW w, w = dw
  PROVE  Ledger!Count(w)
<1>1. /\ dpc = "consume" /\ r < writeSeen[dw] /\ r' = r + 1
      /\ error_counts' = [error_counts EXCEPT ![ClassOf(ring[dw][SlotOf(r)])] = @ + 1]
      /\ UNCHANGED <<accepted, write_index, dropped, dropped_samples, dpc, dw, read_index>>
  BY DEF DrainOne, RecordFastPath, history
<1>2. dw \in Writers /\ Position(dw) = r /\ Position(dw)' = r + 1
  BY <1>1 DEF TypeOK, Position
<1>3. \A x \in Writers : x # dw => Waiting(x)' = Waiting(x)
  BY <1>1 DEF Position, Waiting
<1>4. RingInvAt(dw)
  BY <1>2 DEF StatsInv, RingInv
<1>5. /\ r < write_index[dw] /\ r \in Nat /\ write_index[dw] \in Nat
      /\ Len(accepted[dw]) = write_index[dw]
  BY <1>1, <1>2, <1>4, TypesAt DEF RingInvAt, IndicesOrdered
<1>6. ring[dw][SlotOf(r)] = accepted[dw][r + 1]
  BY <1>2, <1>4, <1>5 DEF RingInvAt
<1>7. /\ Head(Waiting(dw)) = accepted[dw][r + 1]
      /\ Tail(Waiting(dw)) = SubSeq(accepted[dw], r + 2, write_index[dw])
  <2>1. accepted[dw] \in Seq(Sample)
    BY <1>2, TypesAt
  <2>2. r + 1 \in 1..Len(accepted[dw]) /\ write_index[dw] \in (r + 1)..Len(accepted[dw])
    BY <1>5
  <2>3. (r + 1) + 1 = r + 2
    BY <1>5
  <2>4. /\ Head(SubSeq(accepted[dw], r + 1, write_index[dw])) = accepted[dw][r + 1]
        /\ Tail(SubSeq(accepted[dw], r + 1, write_index[dw]))
             = SubSeq(accepted[dw], (r + 1) + 1, write_index[dw])
    BY <2>1, <2>2, HeadTailOfSubSeq
  <2>. QED BY <1>2, <2>3, <2>4 DEF Waiting
<1>8. Waiting(dw)' = Tail(Waiting(dw))
  <2>1. (r + 1) + 1 = r + 2
    BY <1>5
  <2>. QED BY <1>1, <1>2, <1>7, <2>1 DEF Waiting
<1>9. Waiting(dw) # <<>>
  BY <1>2, <1>5, WaitingBounds DEF StatsInv
<1>. QED BY <1>1, <1>2, <1>3, <1>6, <1>7, <1>8, <1>9 DEF Ledger!Count, Waiting

\* Fetching the drop counter tells the collector of the drops, if there are any.
LEMMA DroppedIsCountLost ==
  ASSUME TypeOK, StatsInv, DrainDropped, NEW w, w = dw
  PROVE  Ledger!CountLost(w) \/ UNCHANGED Ledger!vars
<1>1. /\ dpc = "dropped" /\ dpc' = "next" /\ dropped_samples' = dropped_samples + dropped[dw]
      /\ dropped' = [dropped EXCEPT ![dw] = 0]
      /\ UNCHANGED <<accepted, write_index, error_counts, dw, r, read_index>>
  BY DEF DrainDropped, history
<1>2. \A x \in Writers : Position(x)' = Position(x)
  BY <1>1 DEF Position
<1>3. dw \in Writers /\ dropped[dw] \in Nat /\ dropped_samples \in Nat
  BY DEF TypeOK
<1>4. CASE dropped[dw] > 0
  BY <1>1, <1>2, <1>4, WaitingUnchanged DEF Ledger!CountLost
<1>5. CASE dropped[dw] = 0
  <2>1. dropped' = dropped /\ dropped_samples' = dropped_samples
    BY <1>1, <1>3, <1>5 DEF TypeOK
  <2>. QED BY <1>1, <1>2, <2>1, WaitingUnchanged DEF Ledger!vars
<1>. QED BY <1>3, <1>4, <1>5

\* The end of the drain after the joins closes the ledger, with nothing left in it.
LEMMA EndIsClose ==
  ASSUME TypeOK, StatsInv, DrainEnd
  PROVE  Ledger!Close \/ UNCHANGED Ledger!vars
<1>1. /\ dpc = "next" /\ local_writers = {} /\ dpc' = IF final THEN "done" ELSE "idle"
      /\ UNCHANGED <<accepted, write_index, error_counts, dropped, dropped_samples, dw, r,
                     read_index>>
  BY DEF DrainEnd, counters, history
<1>2. \A x \in Writers : Position(x)' = Position(x) /\ Position(x) = read_index[x]
  BY <1>1 DEF Position
<1>3. CASE final
  <2>1. ASSUME NEW w \in Writers PROVE dropped[w] = 0 /\ Waiting(w) = <<>>
    <3>1. read_index[w] = write_index[w] /\ dropped[w] = 0
      BY <1>1, <1>3 DEF StatsInv, DrainInv, Settled
    <3>2. write_index[w] \in Nat
      BY TypesAt
    <3>3. Waiting(w) = <<>>
      BY <1>2, <3>1, <3>2, SubSeqEmpty DEF Waiting
    <3>. QED BY <3>1, <3>3
  <2>. QED BY <1>1, <1>2, <1>3, <2>1, WaitingUnchanged DEF Ledger!Close, Waiting
<1>4. CASE ~final
  BY <1>1, <1>2, <1>4, WaitingUnchanged DEF Ledger!vars
<1>. QED BY <1>3, <1>4

\* Every other step leaves the ledger as it is.
LEMMA OtherStepsStutter ==
  ASSUME TypeOK, StatsInv,
         \/ \E w \in Writers : \/ CreateWriter(w) \/ \E s \in Samples : RecordLoad(w, s)
                             \/ RecordStore(w) \/ WriterExit(w) \/ Join(w) \/ DrainLoad(w)
         \/ DrainBegin \/ DrainPublish \/ UNCHANGED vars
  PROVE  UNCHANGED Ledger!vars
<1>. USE DEF writerVars, drainVars, counters, history
<1>1. UNCHANGED <<accepted, write_index, dropped, error_counts, dropped_samples>>
  BY DEF CreateWriter, RecordLoad, RecordStore, WriterExit, Join, DrainLoad, DrainBegin,
         DrainPublish, vars
<1>2. (dpc = "done") <=> (dpc = "done")'
  BY DEF CreateWriter, RecordLoad, RecordStore, WriterExit, Join, DrainLoad, DrainBegin,
         DrainPublish, vars
<1>3. \A x \in Writers : Position(x)' = Position(x)
  <2>1. CASE DrainPublish
    BY <2>1 DEF DrainPublish, Position, TypeOK
  <2>2. ASSUME NEW w \in Writers, DrainLoad(w) PROVE \A x \in Writers : Position(x)' = Position(x)
    BY <2>2 DEF DrainLoad, Position
  <2>3. CASE UNCHANGED <<read_index, dw, r, dpc>> \/ DrainBegin
    BY <2>3 DEF DrainBegin, Position
  <2>. QED BY <2>1, <2>2, <2>3 DEF CreateWriter, RecordLoad, RecordStore, WriterExit, Join, vars
<1>. QED BY <1>1, <1>2, <1>3, WaitingUnchanged DEF Ledger!vars

\* The rings implement the ledger (stats.cpp:129-158, 299-316), for any number of writers,
\* any capacity and any samples: every sample recorded waits, in order, until the main
\* thread counts it under its class, or is a drop the collector learns of, and nothing is
\* left behind by the report built after the joins.
THEOREM RingsImplementLedger == Spec => ImplementsLedger
<1>1. Init => Ledger!Init
  <2>. SUFFICES ASSUME Init PROVE Ledger!Init
    OBVIOUS
  <2>1. \A w \in Writers : SubSeq(accepted[w], Position(w) + 1, write_index[w]) = <<>>
    <3>. SUFFICES ASSUME NEW w \in Writers
                  PROVE  SubSeq(accepted[w], Position(w) + 1, write_index[w]) = <<>>
      OBVIOUS
    <3>1. Position(w) = 0 /\ write_index[w] = 0
      BY DEF Init, Position
    <3>. QED BY <3>1, SubSeqEmpty
  <2>. QED BY <2>1 DEF Init, Ledger!Init
<1>2. TypeOK /\ StatsInv /\ [Next]_vars => [Ledger!Next]_Ledger!vars
  <2>. SUFFICES ASSUME TypeOK, StatsInv, Next PROVE Ledger!Next \/ UNCHANGED Ledger!vars
    BY OtherStepsStutter
  <2>1. ASSUME NEW w \in Writers, RecordPublish(w) PROVE Ledger!Next
    <3>1. sample[w] \in Samples /\ dpc # "done"
      BY <2>1 DEF RecordPublish, StatsInv, DrainInv
    <3>2. \E s \in Samples : Ledger!Put(w, s)
      BY <2>1, <3>1, PublishIsPut
    <3>. QED BY <3>1, <3>2 DEF Ledger!Next
  <2>2. ASSUME NEW w \in Writers, RecordDrop(w) PROVE Ledger!Next
    <3>1. dpc # "done"
      BY <2>2 DEF RecordDrop, StatsInv, DrainInv
    <3>. QED BY <2>2, <3>1, DropIsLose DEF Ledger!Next
  <2>3. CASE DrainOne
    <3>1. dpc # "done"
      BY <2>3 DEF DrainOne
    <3>2. \E w \in Writers : w = dw
      BY DEF TypeOK
    <3>3. \E w \in Writers : Ledger!Count(w)
      BY <2>3, <3>2, DrainOneIsCount
    <3>. QED BY <3>1, <3>3 DEF Ledger!Next
  <2>4. CASE DrainDropped
    <3>1. dpc # "done"
      BY <2>4 DEF DrainDropped
    <3>2. \E w \in Writers : w = dw
      BY DEF TypeOK
    <3>. QED BY <2>4, <3>1, <3>2, DroppedIsCountLost DEF Ledger!Next
  <2>5. CASE DrainEnd
    <3>1. dpc # "done"
      BY <2>5 DEF DrainEnd
    <3>. QED BY <2>5, <3>1, EndIsClose DEF Ledger!Next
  <2>. QED BY <2>1, <2>2, <2>3, <2>4, <2>5, OtherStepsStutter
       DEF Next, WriterNext, DrainNext, Terminated
<1>. QED BY <1>1, <1>2, TypeCorrect, StatsInvariant, PTL DEF Spec, ImplementsLedger, Ledger!Spec

-----------------------------------------------------------------------------
\* The counters are those of the samples counted so far.
CountersExact ==
  /\ IsFiniteSet(CountedSamples)
  /\ total_requests = Cardinality(CountedSamples)
  /\ success_requests = Cardinality({p \in CountedSamples : SampleAt(p).success})
  /\ failed_requests = Cardinality({p \in CountedSamples : ~SampleAt(p).success})
  /\ \A e \in ErrorClass :
       error_counts[e] = Cardinality({p \in CountedSamples : ClassOf(SampleAt(p)) = e})

\* What is in CountedSamples.
LEMMA CountedMembers ==
  /\ \A p \in CountedSamples :
       /\ p = <<p[1], p[2]>> /\ p[1] \in Writers /\ p[2] \in 1..Position(p[1])
  /\ \A w \in Writers : \A i \in 1..Position(w) : <<w, i>> \in CountedSamples
  BY DEF CountedSamples

\* A counted sample stays what it was when its writer publishes another one.
LEMMA CountedStays ==
  ASSUME TypeOK, RingInv, [Next]_vars
  PROVE  \A p \in CountedSamples : SampleAt(p)' = SampleAt(p)
<1>. USE DEF writerVars, drainVars, counters, history
<1>1. CASE UNCHANGED accepted
  BY <1>1 DEF SampleAt
<1>2. ASSUME NEW w \in Writers, RecordPublish(w)
      PROVE  \A p \in CountedSamples : SampleAt(p)' = SampleAt(p)
  <2>. SUFFICES ASSUME NEW p \in CountedSamples PROVE accepted'[p[1]][p[2]] = accepted[p[1]][p[2]]
    BY DEF SampleAt
  <2>1. p[1] \in Writers /\ p[2] \in 1..Position(p[1])
    BY CountedMembers
  <2>2. accepted' = [accepted EXCEPT ![w] = Append(@, sample[w])]
    BY <1>2 DEF RecordPublish
  <2>3. CASE p[1] = w
    <3>1. p[2] \in 1..Len(accepted[w])
      <4>1. Position(w) \in 0..Len(accepted[w])
        BY WaitingBounds
      <4>2. Position(p[1]) = Position(w)
        BY <2>3
      <4>. QED BY <2>1, <4>1, <4>2
    <3>2. accepted'[w] = Append(accepted[w], sample[w])
      BY <2>2 DEF TypeOK
    <3>. QED BY <2>3, <3>1, <3>2, TypesAt, AppendProperties
  <2>4. CASE p[1] # w
    BY <2>1, <2>2, <2>4 DEF TypeOK
  <2>. QED BY <2>3, <2>4
<1>. QED
  BY <1>1, <1>2 DEF Next, WriterNext, DrainNext, Terminated, CreateWriter, RecordLoad,
     RecordDrop, RecordStore, WriterExit, Join, DrainBegin, DrainLoad, DrainOne, DrainPublish,
     DrainDropped, DrainEnd, vars

\* Pairs, when one of the sets of second components gets one more member.
LEMMA PairsGrow ==
  ASSUME NEW W, NEW f, NEW g, NEW w \in W, NEW k,
         g[w] = f[w] \cup {k}, \A x \in W : x # w => g[x] = f[x]
  PROVE  UNION {{<<x, i>> : i \in g[x]} : x \in W}
           = (UNION {{<<x, i>> : i \in f[x]} : x \in W}) \cup {<<w, k>>}
  OBVIOUS

\* A sample that Drain reads is counted where it belongs.
LEMMA DrainOneCounts ==
  ASSUME TypeOK, RingInv, CountersExact, DrainOne,
         \A p \in CountedSamples : SampleAt(p)' = SampleAt(p),
         NEW w \in Writers, w = dw, NEW n \in Nat, n = r, NEW s, s = ring[w][SlotOf(n)],
         NEW p0, p0 = <<w, n + 1>>
  PROVE  CountersExact'
<1>. DEFINE C == CountedSamples
<1>1. /\ dpc = "consume" /\ n < writeSeen[w] /\ r' = n + 1
      /\ total_requests' = total_requests + 1
      /\ success_requests' = success_requests + (IF s.success THEN 1 ELSE 0)
      /\ failed_requests' = failed_requests + (IF s.success THEN 0 ELSE 1)
      /\ error_counts' = [error_counts EXCEPT ![ClassOf(s)] = @ + 1]
      /\ UNCHANGED <<accepted, write_index, dpc, dw, read_index>>
  BY DEF DrainOne, RecordFastPath, history
<1>2. /\ Position(w) = n /\ Position(w)' = n + 1
      /\ \A x \in Writers : x # w => Position(x)' = Position(x)
  BY <1>1 DEF Position
<1>3. SampleAt(p0)' = s
  <2>1. RingInvAt(w)
    BY DEF RingInv
  <2>2. n < write_index[w] /\ write_index[w] \in Nat
    BY <1>1, <1>2, <2>1, TypesAt DEF RingInvAt, IndicesOrdered
  <2>3. ring[w][SlotOf(n)] = accepted[w][n + 1]
    BY <1>2, <2>1, <2>2 DEF RingInvAt
  <2>. QED BY <1>1, <2>3 DEF SampleAt
<1>4. p0 \notin C
  BY <1>2, CountedMembers
<1>5. CountedSamples' = C \cup {p0}
  <2>1. 1..Position(w)' = (1..Position(w)) \cup {n + 1}
    <3>1. 1..(n + 1) = (1..n) \cup {n + 1}
      OBVIOUS
    <3>. QED BY <1>2, <3>1
  <2>2. \A x \in Writers : x # w => 1..Position(x)' = 1..Position(x)
    BY <1>2
  <2>. DEFINE f == [x \in Writers |-> 1..Position(x)]
              g == [x \in Writers |-> 1..Position(x)']
  <2>3. \A x \in Writers : f[x] = 1..Position(x) /\ g[x] = 1..Position(x)'
    OBVIOUS
  <2>. HIDE DEF f, g
  <2>. DEFINE Pairs(h) == UNION {{<<x, i>> : i \in h[x]} : x \in Writers}
  <2>4. CountedSamples = Pairs(f) /\ CountedSamples' = Pairs(g)
    <3>1. \A h, p : p \in Pairs(h) <=> \E x \in Writers : \E i \in h[x] : p = <<x, i>>
      OBVIOUS
    <3>2. \A p : p \in CountedSamples <=> \E x \in Writers : \E i \in 1..Position(x) : p = <<x, i>>
      BY DEF CountedSamples
    <3>3. \A p : p \in CountedSamples' <=>
            \E x \in Writers : \E i \in 1..Position(x)' : p = <<x, i>>
      BY DEF CountedSamples
    <3>. HIDE DEF Pairs
    <3>4. \A p : p \in CountedSamples <=> p \in Pairs(f)
      <4>1. \A p : p \in CountedSamples <=> \E x \in Writers : \E i \in f[x] : p = <<x, i>>
        BY <2>3, <3>2, ZenonT(30)
      <4>. QED BY <3>1, <4>1, ZenonT(30)
    <3>5. \A p : p \in CountedSamples' <=> p \in Pairs(g)
      <4>1. \A p : p \in CountedSamples' <=> \E x \in Writers : \E i \in g[x] : p = <<x, i>>
        BY <2>3, <3>3, ZenonT(30)
      <4>. QED BY <3>1, <4>1, ZenonT(30)
    <3>6. CountedSamples = Pairs(f)
      BY <3>4 DEF Pairs, CountedSamples
    <3>7. CountedSamples' = Pairs(g)
      BY <3>5 DEF Pairs, CountedSamples
    <3>. QED BY <3>6, <3>7
  <2>5. g[w] = f[w] \cup {n + 1} /\ \A x \in Writers : x # w => g[x] = f[x]
    BY <2>1, <2>2, <2>3
  <2>. QED BY <2>4, <2>5, PairsGrow
<1>6. \A p \in C : SampleAt(p)' = SampleAt(p)
  OBVIOUS
<1>7. IsFiniteSet(C) /\ \A T \in SUBSET C : IsFiniteSet(T)
  BY FS_Subset DEF CountersExact
<1>. HIDE DEF C
<1>8. \A T \in SUBSET C : /\ IsFiniteSet(T \cup {p0})
                          /\ Cardinality(T \cup {p0}) = Cardinality(T) + 1
  <2>. SUFFICES ASSUME NEW T \in SUBSET C
                PROVE  IsFiniteSet(T \cup {p0}) /\ Cardinality(T \cup {p0}) = Cardinality(T) + 1
    OBVIOUS
  <2>1. p0 \notin T /\ IsFiniteSet(T)
    BY <1>4, <1>7
  <2>. QED BY <2>1, FS_AddElement
<1>9. IsFiniteSet(CountedSamples') /\ total_requests' = Cardinality(CountedSamples')
  BY <1>1, <1>5, <1>8 DEF CountersExact, C
<1>10. success_requests' = Cardinality({p \in CountedSamples' : SampleAt(p)'.success})
  <2>. DEFINE T == {p \in C : SampleAt(p).success}
              U == {p \in CountedSamples' : SampleAt(p)'.success}
  <2>1. U = IF s.success THEN T \cup {p0} ELSE T
    BY <1>3, <1>5, <1>6
  <2>2. success_requests = Cardinality(T) /\ success_requests \in Nat /\ T \in SUBSET C
    BY DEF CountersExact, TypeOK, C
  <2>. HIDE DEF T, U
  <2>3. Cardinality(U) = IF s.success THEN Cardinality(T) + 1 ELSE Cardinality(T)
    BY <1>8, <2>1, <2>2
  <2>. QED BY <1>1, <2>2, <2>3 DEF U
<1>11. failed_requests' = Cardinality({p \in CountedSamples' : ~SampleAt(p)'.success})
  <2>. DEFINE T == {p \in C : ~SampleAt(p).success}
              U == {p \in CountedSamples' : ~SampleAt(p)'.success}
  <2>1. U = IF s.success THEN T ELSE T \cup {p0}
    BY <1>3, <1>5, <1>6
  <2>2. failed_requests = Cardinality(T) /\ failed_requests \in Nat /\ T \in SUBSET C
    BY DEF CountersExact, TypeOK, C
  <2>. HIDE DEF T, U
  <2>3. Cardinality(U) = IF s.success THEN Cardinality(T) ELSE Cardinality(T) + 1
    BY <1>8, <2>1, <2>2
  <2>. QED BY <1>1, <2>2, <2>3 DEF U
<1>12. ASSUME NEW e \in ErrorClass
       PROVE  error_counts'[e] = Cardinality({p \in CountedSamples' : ClassOf(SampleAt(p)') = e})
  <2>. DEFINE T == {p \in C : ClassOf(SampleAt(p)) = e}
  <2>1. {p \in CountedSamples' : ClassOf(SampleAt(p)') = e}
          = IF ClassOf(s) = e THEN T \cup {p0} ELSE T
    BY <1>3, <1>5, <1>6
  <2>2. error_counts[e] = Cardinality(T) /\ T \in SUBSET C
    BY DEF CountersExact, C
  <2>3. error_counts'[e] = IF ClassOf(s) = e THEN error_counts[e] + 1 ELSE error_counts[e]
    BY <1>1 DEF TypeOK
  <2>. HIDE DEF T
  <2>. QED BY <1>8, <2>1, <2>2, <2>3
<1>13. \A e \in ErrorClass :
         error_counts'[e] = Cardinality({p \in CountedSamples' : ClassOf(SampleAt(p))' = e})
  BY <1>12 DEF ClassOf, ErrorIndexFromSample
<1>. QED BY <1>9, <1>10, <1>11, <1>13 DEF CountersExact

\* Every step keeps the counters exact.
LEMMA StepKeepsCounters ==
  ASSUME TypeOK, RingInv, CountersExact, [Next]_vars
  PROVE  CountersExact'
<1>. USE DEF writerVars, drainVars, counters, history
<1>1. \A p \in CountedSamples : SampleAt(p)' = SampleAt(p)
  BY CountedStays
<1>2. ASSUME UNCHANGED <<total_requests, success_requests, failed_requests, error_counts>>,
             \A w \in Writers : Position(w)' = Position(w)
      PROVE  CountersExact'
  <2>1. CountedSamples' = CountedSamples
    BY <1>2 DEF CountedSamples
  <2>2. \A p \in CountedSamples : ClassOf(SampleAt(p))' = ClassOf(SampleAt(p))
    BY <1>1 DEF ClassOf, ErrorIndexFromSample
  <2>3. /\ {p \in CountedSamples : SampleAt(p)'.success}
             = {p \in CountedSamples : SampleAt(p).success}
        /\ {p \in CountedSamples : ~SampleAt(p)'.success}
             = {p \in CountedSamples : ~SampleAt(p).success}
    BY <1>1
  <2>4. ASSUME NEW e
        PROVE  {p \in CountedSamples : ClassOf(SampleAt(p))' = e}
                 = {p \in CountedSamples : ClassOf(SampleAt(p)) = e}
    BY <2>2
  <2>. QED BY <1>2, <2>1, <2>3, <2>4 DEF CountersExact
<1>3. CASE DrainOne
  <2>1. dw \in Writers /\ r \in Nat
    BY DEF TypeOK
  <2>. QED BY <1>1, <1>3, <2>1, DrainOneCounts
<1>4. ASSUME NEW x \in Writers,
             \/ CreateWriter(x) \/ (\E s \in Samples : RecordLoad(x, s)) \/ RecordDrop(x)
             \/ RecordStore(x) \/ RecordPublish(x) \/ WriterExit(x) \/ Join(x)
      PROVE  CountersExact'
  <2>1. UNCHANGED <<total_requests, success_requests, failed_requests, error_counts, read_index,
                    dpc, dw, r>>
    BY <1>4 DEF CreateWriter, RecordLoad, RecordDrop, RecordStore, RecordPublish, WriterExit, Join
  <2>. QED BY <1>2, <2>1 DEF Position
<1>5. ASSUME NEW x \in Writers, DrainLoad(x) PROVE CountersExact'
  BY <1>2, <1>5 DEF DrainLoad, Position
<1>6. CASE DrainBegin \/ DrainEnd \/ DrainDropped
  BY <1>2, <1>6 DEF DrainBegin, DrainEnd, DrainDropped, Position
<1>7. CASE DrainPublish
  <2>1. \A w \in Writers : Position(w)' = Position(w)
    BY <1>7 DEF DrainPublish, Position, TypeOK
  <2>. QED BY <1>2, <1>7, <2>1 DEF DrainPublish
<1>8. CASE UNCHANGED vars
  BY <1>2, <1>8 DEF vars, Position
<1>. QED
  BY <1>3, <1>4, <1>5, <1>6, <1>7, <1>8 DEF Next, WriterNext, DrainNext, Terminated

\* The report is exact (stats.cpp:110-158, 299-316; engine.cpp:558), for any number of writers
\* and any samples: what the collector has counted is what the writers published below its
\* read positions, class by class, and in the end every Record call is counted or a drop.
THEOREM ReportIsExact == Spec => []CountersMatchSamples
<1>1. Init => CountersExact
  <2>. SUFFICES ASSUME Init PROVE CountersExact
    OBVIOUS
  <2>1. \A w \in Writers : 1..Position(w) = {}
    BY DEF Init, Position
  <2>2. CountedSamples = {}
    BY <2>1 DEF CountedSamples
  <2>. QED BY <2>2, FS_EmptySet DEF Init, CountersExact
<1>2. TypeOK /\ RingInv /\ CountersExact /\ [Next]_vars => CountersExact'
  BY StepKeepsCounters
<1>3. TypeOK /\ RingInv /\ DrainInv /\ RecordsAddUp /\ CountersExact => CountersMatchSamples
  <2>. SUFFICES ASSUME TypeOK, RingInv, DrainInv, RecordsAddUp, dpc = "done"
                PROVE  total_requests + dropped_samples = SumFunction(offered)
    BY DEF CountersExact, CountersMatchSamples
  <2>1. \A w \in Writers : Settled(w) /\ Position(w) = write_index[w]
    BY DEF DrainInv, Settled, Position
  <2>2. [w \in Writers |-> Position(w)] = write_index
    BY <2>1 DEF TypeOK
  <2>3. dropped \in [Writers -> Int] /\ \A w \in Writers : dropped[w] = 0
    BY <2>1, SumTypes DEF Settled
  <2>4. SumFunction(dropped) = 0
    BY <2>3, SumZero
  <2>5. total_requests = SumFunction(write_index)
    BY <2>2 DEF RecordsAddUp
  <2>6. SumFunction(offered) = SumFunction(write_index) + SumFunction(dropped) + dropped_samples
    BY DEF RecordsAddUp
  <2>. QED BY <2>4, <2>5, <2>6, SumTypes DEF TypeOK
<1>. QED BY <1>1, <1>2, <1>3, TypeCorrect, StatsInvariant, PTL DEF Spec, StatsInv
=============================================================================
