----------------------------- MODULE Admission -----------------------------
(***************************************************************************)
(* How the threads of core/engine.cpp are let through to a request:        *)
(* AcquireRequestQuota hands out the -n requests and WaitRateToken spaces  *)
(* the sends.  Both are compare-and-swap loops on an atomic shared by all  *)
(* threads; a step is one access to it, and the clock runs in between.     *)
(* A relaxed load that returns an old value is a load made earlier.        *)
(***************************************************************************)
EXTENDS Integers, Sequences

CONSTANTS
  Threads,           \* the threads that send: event-driven workers and HTTPS slots
  Requests,          \* config.requests
  rate_interval_ns,  \* SharedState::rate_interval_ns, in ticks of the clock
  MaxTime            \* bound on the clock

ASSUME AdmissionAssumption ==
  /\ Requests \in Nat
  /\ rate_interval_ns \in Nat \ {0}
  /\ MaxTime \in Nat

VARIABLES
  has_requests,   \* config.has_requests: is there a quota
  started,        \* SharedState::started_requests
  next_token_ns,  \* SharedState::next_token_ns
  clock,          \* NowNs(), from the construction of SharedState on
  pc,             \* where each thread is
  old_value,      \* what it loaded from started
  now_ns,         \* what it read from the clock
  old_ns,         \* what it loaded from next_token_ns
  slot_ns,        \* the slot it reserved
  \* history
  granted,        \* how many times AcquireRequestQuota returned true
  reserved,       \* the slots reserved, in order
  passes          \* how many times WaitRateToken returned

quotaVars == <<has_requests, started, old_value, granted>>
tokenVars == <<next_token_ns, now_ns, old_ns, slot_ns, reserved, passes>>
vars == <<quotaVars, tokenVars, clock, pc>>

Init ==
  /\ has_requests \in BOOLEAN
  /\ started = 0
  /\ next_token_ns = 0
  /\ clock = 0
  /\ pc = [t \in Threads |-> "idle"]
  /\ old_value = [t \in Threads |-> 0]
  /\ now_ns = [t \in Threads |-> 0]
  /\ old_ns = [t \in Threads |-> 0]
  /\ slot_ns = [t \in Threads |-> 0]
  /\ granted = 0
  /\ reserved = <<>>
  /\ passes = 0

Go(t, where) == pc' = [pc EXCEPT ![t] = where]

-----------------------------------------------------------------------------
(* AcquireRequestQuota *)

\* Without -n there is no quota.
QuotaFree(t) ==
  /\ pc[t] = "idle"
  /\ ~has_requests
  /\ Go(t, "token")
  /\ UNCHANGED <<quotaVars, tokenVars, clock>>

QuotaLoad(t) ==
  /\ pc[t] = "idle"
  /\ has_requests
  /\ old_value' = [old_value EXCEPT ![t] = started]
  /\ Go(t, IF started >= Requests THEN "refused" ELSE "quota")
  /\ UNCHANGED <<has_requests, started, granted, tokenVars, clock>>

\* Mutant: a store in place of the compare-and-swap.
QuotaStore(t) ==
  /\ pc[t] = "quota"
  /\ started' = old_value[t] + 1
  /\ granted' = granted + 1
  /\ Go(t, "token")
  /\ UNCHANGED <<has_requests, old_value, tokenVars, clock>>

QuotaSwap(t) ==
  /\ pc[t] = "quota"
  /\ started = old_value[t]
  /\ started' = old_value[t] + 1
  /\ granted' = granted + 1
  /\ Go(t, "token")
  /\ UNCHANGED <<has_requests, old_value, tokenVars, clock>>

\* The exchange fails, another thread being faster or spuriously, and the loop starts over.
QuotaRetry(t) ==
  /\ pc[t] = "quota"
  /\ Go(t, "idle")
  /\ UNCHANGED <<quotaVars, tokenVars, clock>>

\* The caller skips the session, and asks again in its next pass.
Refused(t) ==
  /\ pc[t] = "refused"
  /\ Go(t, "idle")
  /\ UNCHANGED <<quotaVars, tokenVars, clock>>

-----------------------------------------------------------------------------
(* WaitRateToken *)

TokenClock(t) ==
  /\ pc[t] = "token"
  /\ now_ns' = [now_ns EXCEPT ![t] = clock]
  /\ Go(t, "load")
  /\ UNCHANGED <<quotaVars, next_token_ns, old_ns, slot_ns, reserved, passes, clock>>

TokenLoad(t) ==
  /\ pc[t] = "load"
  /\ old_ns' = [old_ns EXCEPT ![t] = next_token_ns]
  /\ Go(t, "swap")
  /\ UNCHANGED <<quotaVars, next_token_ns, now_ns, slot_ns, reserved, passes, clock>>

Later(a, b) == IF a < b THEN b ELSE a

\* Mutant: a store in place of the compare-and-swap.
TokenStore(t) ==
  /\ pc[t] = "swap"
  /\ LET slot == Later(old_ns[t], now_ns[t])
     IN  /\ next_token_ns' = slot + rate_interval_ns
         /\ slot_ns' = [slot_ns EXCEPT ![t] = slot]
         /\ reserved' = Append(reserved, slot)
  /\ Go(t, "sleep")
  /\ UNCHANGED <<quotaVars, now_ns, old_ns, passes, clock>>

TokenSwap(t) ==
  /\ pc[t] = "swap"
  /\ next_token_ns = old_ns[t]
  /\ LET slot == Later(old_ns[t], now_ns[t])
     IN  /\ next_token_ns' = slot + rate_interval_ns
         /\ slot_ns' = [slot_ns EXCEPT ![t] = slot]
         /\ reserved' = Append(reserved, slot)
  /\ Go(t, "sleep")
  /\ UNCHANGED <<quotaVars, now_ns, old_ns, passes, clock>>

TokenRetry(t) ==
  /\ pc[t] = "swap"
  /\ Go(t, "token")
  /\ UNCHANGED <<quotaVars, tokenVars, clock>>

\* Mutant: the thread does not sleep until its slot.
TokenPassAtOnce(t) ==
  /\ pc[t] = "sleep"
  /\ passes' = passes + 1
  /\ Go(t, "send")
  /\ UNCHANGED <<quotaVars, next_token_ns, now_ns, old_ns, slot_ns, reserved, clock>>

\* sleep_for returns no earlier than slot_ns - now_ns after the clock was read.
TokenPass(t) ==
  /\ pc[t] = "sleep"
  /\ clock >= slot_ns[t]
  /\ passes' = passes + 1
  /\ Go(t, "send")
  /\ UNCHANGED <<quotaVars, next_token_ns, now_ns, old_ns, slot_ns, reserved, clock>>

\* The request is sent; the thread comes back for another one.
Sent(t) ==
  /\ pc[t] = "send"
  /\ Go(t, "idle")
  /\ UNCHANGED <<quotaVars, tokenVars, clock>>

Tick ==
  /\ clock < MaxTime
  /\ clock' = clock + 1
  /\ UNCHANGED <<quotaVars, tokenVars, pc>>

-----------------------------------------------------------------------------
ThreadNext(t) ==
  \/ QuotaFree(t) \/ QuotaLoad(t) \/ QuotaSwap(t) \/ QuotaRetry(t) \/ Refused(t)
  \/ TokenClock(t) \/ TokenLoad(t) \/ TokenSwap(t) \/ TokenRetry(t) \/ TokenPass(t)
  \/ Sent(t)

\* The clock has come to its bound; threads may still be asleep.
Horizon == clock = MaxTime /\ UNCHANGED vars

Next == Tick \/ Horizon \/ \E t \in Threads : ThreadNext(t)

Spec == Init /\ [][Next]_vars

-----------------------------------------------------------------------------
(* Properties *)

\* Every variable has its type.
TypeOK ==
  /\ has_requests \in BOOLEAN
  /\ started \in Nat /\ next_token_ns \in Nat /\ clock \in Nat
  /\ pc \in [Threads -> {"idle", "refused", "quota", "token", "load", "swap", "sleep", "send"}]
  /\ old_value \in [Threads -> Nat]
  /\ now_ns \in [Threads -> Nat]
  /\ old_ns \in [Threads -> Nat]
  /\ slot_ns \in [Threads -> Nat]
  /\ granted \in Nat /\ reserved \in Seq(Nat) /\ passes \in Nat

\* However the threads race for the last request, no more than -n are ever granted, and
\* started_requests is exactly the number granted (engine.cpp:76-85).
GrantsWithinQuota ==
  has_requests => granted <= Requests /\ granted = started

\* Two reservations are at least an interval apart, in the order they were made: no two
\* threads ever share a rate token (engine.cpp:92-102).
SlotsSpaced ==
  \A i, j \in 1..Len(reserved) : i < j => reserved[j] >= reserved[i] + rate_interval_ns

\* By any time the limiter has let through at most one request per interval since the
\* start, and the first one, however late threads wake up (engine.cpp:95-101, 136-140).
RateBounded == passes <= clock \div rate_interval_ns + 1
=============================================================================
