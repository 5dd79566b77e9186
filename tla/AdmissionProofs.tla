-------------------------- MODULE AdmissionProofs --------------------------
(***************************************************************************)
(* Admission for any number of threads, any quota and any rate: no more    *)
(* requests are granted than -n asks for, no two share a rate token, and   *)
(* the limiter lets through no more requests than the time allows.         *)
(***************************************************************************)
EXTENDS Admission, FiniteSetTheorems, TLAPS

USE AdmissionAssumption

-----------------------------------------------------------------------------
(* The invariant *)

\* What a thread loaded is never ahead of the shared value, a thread holds a quota check
\* that is still good when its exchange succeeds, and the next token lies an interval
\* beyond every slot reserved.
ReservationInv ==
  /\ granted = started
  /\ has_requests => started <= Requests
  /\ \A t \in Threads : pc[t] = "quota" => has_requests /\ old_value[t] < Requests
  /\ SlotsSpaced
  /\ \A i \in 1..Len(reserved) : reserved[i] + rate_interval_ns <= next_token_ns

\* The slots nobody sleeps for any more.
Used == {i \in 1..Len(reserved) : \A t \in Threads : pc[t] = "sleep" => slot_ns[t] # reserved[i]}

\* Every thread asleep waits for a slot of its own that is reserved.
SleepersApart ==
  \A t \in Threads : pc[t] = "sleep" =>
    /\ \E i \in 1..Len(reserved) : reserved[i] = slot_ns[t]
    /\ \A u \in Threads : pc[u] = "sleep" /\ slot_ns[u] = slot_ns[t] => u = t

\* What RateBounded rests on: a slot is used only once it has come, each used slot let one
\* request through, and the i-th slot lies no earlier than i - 1 intervals after the start.
RateInv ==
  /\ SleepersApart
  /\ \A i \in Used : reserved[i] <= clock
  /\ Cardinality(Used) = passes
  /\ \A i \in 1..Len(reserved) : reserved[i] >= (i - 1) * rate_interval_ns
  /\ next_token_ns >= Len(reserved) * rate_interval_ns

\* The inductive invariant behind the three properties (engine.cpp:74-106): no
\* exchange succeeds on a stale value, and no slot lets two requests through.
AdmissionInv == ReservationInv /\ RateInv

-----------------------------------------------------------------------------
(* Types *)

\* Every variable of the admission path keeps its type.
THEOREM TypeCorrect == Spec => []TypeOK
<1>1. Init => TypeOK
  <2> SUFFICES ASSUME Init PROVE TypeOK
    OBVIOUS
  <2>1. reserved \in Seq(Nat)
    BY DEF Init
  <2>. QED BY <2>1 DEF Init, TypeOK
<1>2. TypeOK /\ [Next]_vars => TypeOK'
  <2> SUFFICES ASSUME TypeOK, [Next]_vars PROVE TypeOK'
    OBVIOUS
  <2> USE DEF TypeOK, quotaVars, tokenVars, Go
  <2>1. CASE Tick
    BY <2>1 DEF Tick
  <2>2. ASSUME NEW t \in Threads, QuotaFree(t) PROVE TypeOK'
    BY <2>2 DEF QuotaFree
  <2>3. ASSUME NEW t \in Threads, QuotaLoad(t) PROVE TypeOK'
    BY <2>3 DEF QuotaLoad
  <2>4. ASSUME NEW t \in Threads, QuotaSwap(t) PROVE TypeOK'
    BY <2>4 DEF QuotaSwap
  <2>5. ASSUME NEW t \in Threads, QuotaRetry(t) PROVE TypeOK'
    BY <2>5 DEF QuotaRetry
  <2>6. ASSUME NEW t \in Threads, Refused(t) PROVE TypeOK'
    BY <2>6 DEF Refused
  <2>7. ASSUME NEW t \in Threads, TokenClock(t) PROVE TypeOK'
    BY <2>7 DEF TokenClock
  <2>8. ASSUME NEW t \in Threads, TokenLoad(t) PROVE TypeOK'
    BY <2>8 DEF TokenLoad
  <2>9. ASSUME NEW t \in Threads, TokenSwap(t) PROVE TypeOK'
    <3> DEFINE slot == Later(old_ns[t], now_ns[t])
    <3>1. slot \in Nat
      BY DEF Later
    <3>2. next_token_ns' \in Nat /\ slot_ns' \in [Threads -> Nat]
      BY <2>9, <3>1 DEF TokenSwap
    <3>3. reserved' \in Seq(Nat)
      BY <2>9, <3>1 DEF TokenSwap
    <3>. QED BY <2>9, <3>2, <3>3 DEF TokenSwap
  <2>10. ASSUME NEW t \in Threads, TokenRetry(t) PROVE TypeOK'
    BY <2>10 DEF TokenRetry
  <2>11. ASSUME NEW t \in Threads, TokenPass(t) PROVE TypeOK'
    BY <2>11 DEF TokenPass
  <2>12. ASSUME NEW t \in Threads, Sent(t) PROVE TypeOK'
    BY <2>12 DEF Sent
  <2>13. CASE UNCHANGED vars
    BY <2>13 DEF vars
  <2>. QED
    BY <2>1, <2>2, <2>3, <2>4, <2>5, <2>6, <2>7, <2>8, <2>9, <2>10, <2>11, <2>12, <2>13
    DEF Next, ThreadNext, Horizon
<1>. QED BY <1>1, <1>2, PTL DEF Spec

-----------------------------------------------------------------------------
\* A reservation lies an interval beyond all the earlier ones.
LEMMA SwapKeepsSpacing ==
  ASSUME TypeOK, ReservationInv, NEW t \in Threads, TokenSwap(t)
  PROVE  ReservationInv'
<1> DEFINE slot == Later(old_ns[t], now_ns[t])
<1>1. slot \in Nat /\ slot >= next_token_ns
  BY DEF Later, TypeOK, TokenSwap
<1>2. /\ next_token_ns' = slot + rate_interval_ns
      /\ reserved' = Append(reserved, slot)
      /\ pc'[t] = "sleep" /\ \A u \in Threads \ {t} : pc'[u] = pc[u]
      /\ UNCHANGED <<has_requests, started, old_value, granted>>
  BY DEF TokenSwap, Go, TypeOK, quotaVars
<1>3. /\ Len(reserved') = Len(reserved) + 1
      /\ reserved'[Len(reserved) + 1] = slot
      /\ \A i \in 1..Len(reserved) : reserved'[i] = reserved[i]
  BY <1>1, <1>2 DEF TypeOK
<1>4. Len(reserved) \in Nat /\ \A i \in 1..Len(reserved) : reserved[i] \in Nat
  BY DEF TypeOK
<1>5. SlotsSpaced'
  <2> SUFFICES ASSUME NEW i \in 1..Len(reserved'), NEW j \in 1..Len(reserved'), i < j
               PROVE  reserved'[j] >= reserved'[i] + rate_interval_ns
    BY DEF SlotsSpaced
  <2>1. CASE j = Len(reserved) + 1
    <3>1. i \in 1..Len(reserved) /\ reserved'[i] = reserved[i]
      BY <1>3, <1>4, <2>1
    <3>2. reserved[i] + rate_interval_ns <= next_token_ns
      BY <3>1 DEF ReservationInv
    <3>. QED BY <1>1, <1>3, <1>4, <2>1, <3>1, <3>2 DEF TypeOK
  <2>2. CASE j # Len(reserved) + 1
    <3>1. i \in 1..Len(reserved) /\ j \in 1..Len(reserved)
      BY <1>3, <1>4, <2>2
    <3>. QED BY <1>3, <3>1 DEF ReservationInv, SlotsSpaced
  <2>. QED BY <2>1, <2>2
<1>6. ASSUME NEW i \in 1..Len(reserved')
      PROVE  reserved'[i] + rate_interval_ns <= next_token_ns'
  <2>1. CASE i = Len(reserved) + 1
    BY <1>1, <1>2, <1>3, <2>1
  <2>2. CASE i # Len(reserved) + 1
    <3>1. i \in 1..Len(reserved) /\ reserved'[i] = reserved[i] /\ reserved[i] \in Nat
      BY <1>3, <1>4, <2>2
    <3>2. reserved[i] + rate_interval_ns <= next_token_ns
      BY <3>1 DEF ReservationInv
    <3>. QED BY <1>1, <1>2, <3>1, <3>2 DEF TypeOK
  <2>. QED BY <2>1, <2>2
<1>. QED BY <1>2, <1>5, <1>6 DEF ReservationInv

\* The quota, the spacing and what they rest on hold in every reachable state.
LEMMA ReservationInvariant == Spec => []ReservationInv
<1>1. Init => ReservationInv
  BY DEF Init, ReservationInv, SlotsSpaced
<1>2. TypeOK /\ ReservationInv /\ [Next]_vars => ReservationInv'
  <2> SUFFICES ASSUME TypeOK, ReservationInv, [Next]_vars PROVE ReservationInv'
    OBVIOUS
  <2> USE DEF ReservationInv, SlotsSpaced, TypeOK, quotaVars, tokenVars, Go
  <2>1. CASE Tick
    BY <2>1 DEF Tick
  <2>2. ASSUME NEW t \in Threads, QuotaFree(t) PROVE ReservationInv'
    BY <2>2 DEF QuotaFree
  <2>3. ASSUME NEW t \in Threads, QuotaLoad(t) PROVE ReservationInv'
    BY <2>3 DEF QuotaLoad
  <2>4. ASSUME NEW t \in Threads, QuotaSwap(t) PROVE ReservationInv'
    BY <2>4 DEF QuotaSwap
  <2>5. ASSUME NEW t \in Threads, QuotaRetry(t) PROVE ReservationInv'
    BY <2>5 DEF QuotaRetry
  <2>6. ASSUME NEW t \in Threads, Refused(t) PROVE ReservationInv'
    BY <2>6 DEF Refused
  <2>7. ASSUME NEW t \in Threads, TokenClock(t) PROVE ReservationInv'
    BY <2>7 DEF TokenClock
  <2>8. ASSUME NEW t \in Threads, TokenLoad(t) PROVE ReservationInv'
    BY <2>8 DEF TokenLoad
  <2>9. ASSUME NEW t \in Threads, TokenSwap(t) PROVE ReservationInv'
    BY <2>9, SwapKeepsSpacing
  <2>10. ASSUME NEW t \in Threads, TokenRetry(t) PROVE ReservationInv'
    BY <2>10 DEF TokenRetry
  <2>11. ASSUME NEW t \in Threads, TokenPass(t) PROVE ReservationInv'
    BY <2>11 DEF TokenPass
  <2>12. ASSUME NEW t \in Threads, Sent(t) PROVE ReservationInv'
    BY <2>12 DEF Sent
  <2>13. CASE UNCHANGED vars
    BY <2>13 DEF vars
  <2>. QED
    BY <2>1, <2>2, <2>3, <2>4, <2>5, <2>6, <2>7, <2>8, <2>9, <2>10, <2>11, <2>12, <2>13
    DEF Next, ThreadNext, Horizon
<1>. QED BY <1>1, <1>2, TypeCorrect, PTL DEF Spec

\* No race of the compare-and-swap loop ever grants more than -n requests, and the counter
\* the report prints is the number granted (engine.cpp:72-86).
THEOREM QuotaNeverExceeded == Spec => []GrantsWithinQuota
<1>1. ReservationInv => GrantsWithinQuota
  BY DEF ReservationInv, GrantsWithinQuota
<1>. QED BY <1>1, ReservationInvariant, PTL

\* No two threads share a rate token, and tokens are an interval apart (engine.cpp:88-104).
THEOREM TokensSpaced == Spec => []SlotsSpaced
<1>1. ReservationInv => SlotsSpaced
  BY DEF ReservationInv
<1>. QED BY <1>1, ReservationInvariant, PTL

-----------------------------------------------------------------------------
\* Used is a finite set.
LEMMA UsedFinite ==
  ASSUME TypeOK
  PROVE  IsFiniteSet(1..Len(reserved)) /\ IsFiniteSet(Used)
<1>1. Len(reserved) \in Nat
  BY DEF TypeOK
<1>2. IsFiniteSet(1..Len(reserved))
  BY <1>1, FS_Interval
<1>3. Used \in SUBSET (1..Len(reserved))
  BY DEF Used
<1>. QED BY <1>2, <1>3, FS_Subset

\* A step that moves no thread to sleep or out of it keeps the invariant.
LEMMA SleepersUntouched ==
  ASSUME TypeOK, RateInv,
         UNCHANGED <<reserved, slot_ns, passes, next_token_ns>>, clock' \in Nat, clock <= clock',
         \A t \in Threads : pc'[t] = "sleep" <=> pc[t] = "sleep"
  PROVE  RateInv'
<1>1. Used' = Used
  BY DEF Used
<1>2. SleepersApart'
  BY DEF RateInv, SleepersApart
<1>3. \A i \in Used : reserved[i] <= clock'
  <2>. SUFFICES ASSUME NEW i \in Used PROVE reserved[i] <= clock'
    OBVIOUS
  <2>1. reserved[i] \in Nat /\ clock \in Nat
    BY DEF TypeOK, Used
  <2>2. reserved[i] <= clock
    BY DEF RateInv
  <2>. QED BY <2>1, <2>2
<1>. QED BY <1>1, <1>2, <1>3 DEF RateInv

\* A new reservation is one nobody has used, later than all the others.
LEMMA SwapKeepsRate ==
  ASSUME TypeOK, ReservationInv, RateInv, NEW t \in Threads, TokenSwap(t)
  PROVE  RateInv'
<1>. DEFINE slot == Later(old_ns[t], now_ns[t])
            n == Len(reserved)
<1>1. slot \in Nat /\ slot >= next_token_ns
  BY DEF Later, TypeOK, TokenSwap
<1>2. /\ next_token_ns' = slot + rate_interval_ns
      /\ reserved' = Append(reserved, slot)
      /\ slot_ns' = [slot_ns EXCEPT ![t] = slot]
      /\ pc' = [pc EXCEPT ![t] = "sleep"] /\ pc[t] = "swap"
      /\ UNCHANGED <<passes, clock>>
  BY DEF TokenSwap, Go
<1>3. n \in Nat /\ \A i \in 1..n : reserved[i] \in Nat
  BY DEF TypeOK
<1>. HIDE DEF slot
<1>4. /\ Len(reserved') = n + 1 /\ reserved'[n + 1] = slot
      /\ \A i \in 1..n : reserved'[i] = reserved[i]
  BY <1>1, <1>2 DEF TypeOK
<1>5. /\ pc'[t] = "sleep" /\ slot_ns'[t] = slot
      /\ \A u \in Threads \ {t} : pc'[u] = pc[u] /\ slot_ns'[u] = slot_ns[u]
  BY <1>2 DEF TypeOK
<1>6. \A i \in 1..n : reserved[i] < slot
  <2>. SUFFICES ASSUME NEW i \in 1..n PROVE reserved[i] < slot
    OBVIOUS
  <2>1. reserved[i] + rate_interval_ns <= next_token_ns
    BY DEF ReservationInv
  <2>. QED BY <1>1, <1>3, <2>1 DEF TypeOK
<1>7. \A u \in Threads \ {t} : pc[u] = "sleep" =>
        \E i \in 1..n : reserved[i] = slot_ns[u] /\ slot_ns[u] < slot
  BY <1>6 DEF RateInv, SleepersApart
<1>8. Used' = Used
  <2>1. n + 1 \notin Used'
    BY <1>4, <1>5 DEF Used
  <2>2. \A i \in 1..n : i \in Used' <=> i \in Used
    <3>. SUFFICES ASSUME NEW i \in 1..n PROVE i \in Used' <=> i \in Used
      OBVIOUS
    <3>1. i \in 1..Len(reserved') /\ reserved'[i] = reserved[i] /\ reserved[i] # slot
      BY <1>3, <1>4, <1>6
    <3>. QED BY <1>2, <1>5, <3>1 DEF Used
  <2>3. 1..Len(reserved') = (1..n) \cup {n + 1}
    BY <1>3, <1>4
  <2>. QED BY <2>1, <2>2, <2>3 DEF Used
<1>9. SleepersApart'
  <2>. SUFFICES ASSUME NEW u \in Threads, pc'[u] = "sleep"
                PROVE  /\ \E i \in 1..Len(reserved') : reserved'[i] = slot_ns'[u]
                       /\ \A v \in Threads : pc'[v] = "sleep" /\ slot_ns'[v] = slot_ns'[u] => v = u
    BY DEF SleepersApart
  <2>1. 1..Len(reserved') = (1..n) \cup {n + 1}
    BY <1>3, <1>4
  <2>2. slot_ns \in [Threads -> Nat]
    BY DEF TypeOK
  <2>3. CASE u = t
    BY <1>1, <1>4, <1>5, <1>7, <2>1, <2>2, <2>3
  <2>4. CASE u # t
    <3>1. PICK i \in 1..n : reserved[i] = slot_ns[u] /\ slot_ns[u] < slot
      BY <1>5, <1>7, <2>4
    <3>2. ASSUME NEW v \in Threads, pc'[v] = "sleep", slot_ns'[v] = slot_ns'[u] PROVE v = u
      <4>1. slot_ns'[u] = slot_ns[u] /\ slot_ns[u] \in Nat /\ pc[u] = "sleep"
        BY <1>5, <2>2, <2>4
      <4>2. v # t
        BY <1>1, <1>5, <3>1, <3>2, <4>1
      <4>3. pc[v] = "sleep" /\ slot_ns[v] = slot_ns[u]
        BY <1>5, <3>2, <4>1, <4>2
      <4>. QED BY <4>1, <4>3 DEF RateInv, SleepersApart
    <3>. QED BY <1>4, <1>5, <2>1, <2>4, <3>1, <3>2
  <2>. QED BY <2>3, <2>4
<1>10. \A i \in 1..Len(reserved') : reserved'[i] >= (i - 1) * rate_interval_ns
  <2>1. slot >= n * rate_interval_ns
    <3>1. next_token_ns >= n * rate_interval_ns
      BY DEF RateInv
    <3>. QED BY <1>1, <1>3, <3>1 DEF TypeOK
  <2>2. \A i \in 1..n : reserved'[i] >= (i - 1) * rate_interval_ns
    <3>1. \A i \in 1..n : reserved[i] >= (i - 1) * rate_interval_ns
      BY DEF RateInv
    <3>. QED BY <1>4, <3>1
  <2>3. reserved'[n + 1] >= ((n + 1) - 1) * rate_interval_ns
    <3>1. (n + 1) - 1 = n
      BY <1>3
    <3>. QED BY <1>4, <2>1, <3>1
  <2>4. 1..Len(reserved') = (1..n) \cup {n + 1}
    BY <1>3, <1>4
  <2>. QED BY <2>2, <2>3, <2>4
<1>11. next_token_ns' >= Len(reserved') * rate_interval_ns
  <2>. DEFINE before == n * rate_interval_ns
              after  == (n + 1) * rate_interval_ns
  <2>1. next_token_ns >= before /\ next_token_ns \in Nat
    BY DEF RateInv, TypeOK
  <2>2. after = before + rate_interval_ns /\ before \in Nat
    BY <1>3
  <2>3. Len(reserved') * rate_interval_ns = after
    BY <1>4
  <2>. HIDE DEF before, after
  <2>4. slot + rate_interval_ns >= after
    BY <1>1, <2>1, <2>2
  <2>. QED BY <1>2, <2>3, <2>4
<1>12. \A i \in Used : reserved'[i] = reserved[i]
  BY <1>4 DEF Used
<1>. QED BY <1>2, <1>8, <1>9, <1>10, <1>11, <1>12 DEF RateInv

\* A thread that wakes up uses its slot, which has come.
LEMMA PassKeepsRate ==
  ASSUME TypeOK, ReservationInv, RateInv, NEW t \in Threads, TokenPass(t)
  PROVE  RateInv'
<1>1. /\ pc[t] = "sleep" /\ clock >= slot_ns[t] /\ passes' = passes + 1
      /\ pc' = [pc EXCEPT ![t] = "send"]
      /\ UNCHANGED <<reserved, slot_ns, next_token_ns, clock>>
  BY DEF TokenPass, Go
<1>2. pc'[t] = "send" /\ \A u \in Threads \ {t} : pc'[u] = pc[u]
  BY <1>1 DEF TypeOK
<1>3. PICK k \in 1..Len(reserved) : reserved[k] = slot_ns[t]
  BY <1>1 DEF RateInv, SleepersApart
<1>4. \A i \in 1..Len(reserved) : reserved[i] = reserved[k] => i = k
  <2>. SUFFICES ASSUME NEW i \in 1..Len(reserved), reserved[i] = reserved[k] PROVE i = k
    OBVIOUS
  <2>1. i < k => reserved[k] >= reserved[i] + rate_interval_ns
    BY DEF ReservationInv, SlotsSpaced
  <2>2. k < i => reserved[i] >= reserved[k] + rate_interval_ns
    BY DEF ReservationInv, SlotsSpaced
  <2>3. reserved[i] \in Nat /\ reserved[k] \in Nat /\ i \in Int /\ k \in Int
    BY DEF TypeOK
  <2>. QED BY <2>1, <2>2, <2>3
<1>5. k \notin Used
  BY <1>1, <1>3 DEF Used
<1>6. Used' = Used \cup {k}
  <2>1. k \in Used'
    BY <1>1, <1>2, <1>3 DEF Used, RateInv, SleepersApart
  <2>2. ASSUME NEW i \in 1..Len(reserved), i # k PROVE i \in Used' <=> i \in Used
    <3>1. reserved[i] # slot_ns[t]
      BY <1>3, <1>4, <2>2
    <3>. QED BY <1>1, <1>2, <3>1 DEF Used
  <2>. QED BY <1>1, <2>1, <2>2 DEF Used
<1>7. Cardinality(Used') = passes'
  BY <1>1, <1>5, <1>6, UsedFinite, FS_AddElement DEF RateInv
<1>8. SleepersApart'
  BY <1>1, <1>2 DEF RateInv, SleepersApart
<1>9. \A i \in Used' : reserved'[i] <= clock'
  BY <1>1, <1>3, <1>6 DEF RateInv, TypeOK
<1>. QED BY <1>1, <1>7, <1>8, <1>9 DEF RateInv

\* Every step keeps the invariant behind the rate.
LEMMA StepKeepsRate == TypeOK /\ TypeOK' /\ ReservationInv /\ RateInv /\ [Next]_vars => RateInv'
<1>. SUFFICES ASSUME TypeOK, TypeOK', ReservationInv, RateInv, [Next]_vars PROVE RateInv'
  OBVIOUS
<1>. USE DEF quotaVars, tokenVars, Go
<1>1. CASE Tick
  BY <1>1, SleepersUntouched DEF Tick, TypeOK
<1>2. ASSUME NEW t \in Threads,
             QuotaFree(t) \/ QuotaLoad(t) \/ QuotaSwap(t) \/ QuotaRetry(t) \/ Refused(t)
      PROVE  RateInv'
  <2>1. /\ UNCHANGED <<reserved, slot_ns, passes, next_token_ns, clock>>
        /\ pc[t] # "sleep" /\ \E where \in {"idle", "refused", "quota", "token"} : Go(t, where)
    BY <1>2 DEF QuotaFree, QuotaLoad, QuotaSwap, QuotaRetry, Refused
  <2>. QED BY <2>1, SleepersUntouched DEF TypeOK
<1>3. ASSUME NEW t \in Threads, TokenClock(t) \/ TokenLoad(t) \/ TokenRetry(t) \/ Sent(t)
      PROVE  RateInv'
  <2>1. /\ UNCHANGED <<reserved, slot_ns, passes, next_token_ns, clock>>
        /\ pc[t] # "sleep" /\ \E where \in {"idle", "token", "load", "swap"} : Go(t, where)
    BY <1>3 DEF TokenClock, TokenLoad, TokenRetry, Sent
  <2>. QED BY <2>1, SleepersUntouched DEF TypeOK
<1>4. ASSUME NEW t \in Threads, TokenSwap(t) PROVE RateInv'
  BY <1>4, SwapKeepsRate
<1>5. ASSUME NEW t \in Threads, TokenPass(t) PROVE RateInv'
  BY <1>5, PassKeepsRate
<1>6. CASE UNCHANGED vars
  BY <1>6, SleepersUntouched DEF vars, TypeOK
<1>. QED BY <1>1, <1>2, <1>3, <1>4, <1>5, <1>6 DEF Next, ThreadNext, Horizon

\* No exchange on the two shared words succeeds on a stale value, and no slot lets two
\* requests through: the inductive invariant of the admission path (engine.cpp:71-106).
THEOREM AdmissionInvariant == Spec => []AdmissionInv
<1>1. Init => RateInv
  <2>. SUFFICES ASSUME Init PROVE RateInv
    OBVIOUS
  <2>1. reserved = <<>> /\ Len(reserved) = 0 /\ 1..Len(reserved) = {}
    BY DEF Init
  <2>2. Used = {} /\ Cardinality(Used) = 0
    BY <2>1, FS_EmptySet DEF Used
  <2>. QED BY <2>1, <2>2 DEF Init, RateInv, SleepersApart
<1>2. TypeOK /\ TypeOK' /\ ReservationInv /\ RateInv /\ [Next]_vars => RateInv'
  BY StepKeepsRate
<1>. QED BY <1>1, <1>2, TypeCorrect, ReservationInvariant, PTL DEF Spec, AdmissionInv

\* The rate holds from the start on: however late threads wake up, by any time the limiter
\* has let through at most one request per interval, and the first one (engine.cpp:88-104).
THEOREM RateNeverExceeded == Spec => []RateBounded
<1>1. TypeOK /\ AdmissionInv => RateBounded
  <2>. SUFFICES ASSUME TypeOK, RateInv PROVE RateBounded
    BY DEF AdmissionInv
  <2>. DEFINE q == clock \div rate_interval_ns
  <2>1. q \in Nat /\ clock < (q + 1) * rate_interval_ns
    <3>1. clock \in Nat
      BY DEF TypeOK
    <3>. HIDE DEF q
    <3>2. \A d \in Nat \ {0} : clock \div d \in Nat /\ clock < (clock \div d + 1) * d
      BY <3>1
    <3>. QED BY <3>2 DEF q
  <2>2. Used \subseteq 1..(q + 1)
    <3>. SUFFICES ASSUME NEW i \in Used PROVE i \in 1..(q + 1)
      OBVIOUS
    <3>1. i \in Nat /\ i >= 1 /\ reserved[i] \in Nat
      BY DEF Used, TypeOK
    <3>2. (i - 1) * rate_interval_ns <= clock
      BY <3>1 DEF RateInv, Used, TypeOK
    <3>. HIDE DEF q
    <3>3. SUFFICES ASSUME i >= q + 2 PROVE FALSE
      BY <2>1, <3>1
    <3>. DEFINE low == (i - 1) * rate_interval_ns
                top == (q + 1) * rate_interval_ns
    <3>4. low >= top /\ low \in Nat /\ top \in Nat
      <4>1. \A a, b \in Nat : a >= b => a * rate_interval_ns >= b * rate_interval_ns
        OBVIOUS
      <4>2. \A a \in Nat : a * rate_interval_ns \in Nat
        OBVIOUS
      <4>3. i - 1 \in Nat /\ q + 1 \in Nat /\ i - 1 >= q + 1
        BY <2>1, <3>1, <3>3
      <4>. QED BY <4>1, <4>2, <4>3
    <3>5. low <= clock /\ clock < top /\ clock \in Nat
      BY <2>1, <3>2 DEF TypeOK
    <3>. HIDE DEF low, top
    <3>. QED BY <3>4, <3>5
  <2>. HIDE DEF q
  <2>3. IsFiniteSet(1..(q + 1)) /\ Cardinality(1..(q + 1)) = q + 1
    BY <2>1, FS_Interval
  <2>4. Cardinality(Used) <= q + 1
    BY <2>2, <2>3, FS_Subset
  <2>. QED BY <2>4 DEF RateInv, RateBounded, q
<1>. QED BY <1>1, TypeCorrect, AdmissionInvariant, PTL
=============================================================================
