-------------------------- MODULE HttpsSlotsProofs --------------------------
(***************************************************************************)
(* HttpsSlots for every number of slots, requests and retries.  Slots run  *)
(* in threads of their own, so the invariant speaks of each slot by itself *)
(* (its connection, its descriptor, what it owes) and ties the slots to    *)
(* the shared counters by two sums over them: the requests that are not    *)
(* finished, and the retries that are not used up or not yet counted.  Two *)
(* sums more, of the outcomes and samples the slots owe, show that the     *)
(* slots implement BenchmarkRun.                                           *)
(***************************************************************************)
EXTENDS HttpsSlots, SumProofs, SequenceTheorems

USE SlotsAssumption

-----------------------------------------------------------------------------
(* The invariant *)

PCs == {"init", "top", "connect", "tcp", "tls", "unconnected", "quota", "send", "receive",
        "after", "leave", "exited", "failed"}
\* Where a slot has no connection, whatever happened before.
Unlinked == {"init", "tcp", "exited", "failed"}
USE DEF Unlinked
Links == {"none", "socket", "open", "dead"}
Answers == {"mine", "stale", "rest"}

\* What a slot may owe: what is left of the payments for a request that has ended, a retry, or
\* the run given up.
Dues == {<<>>, <<"stop">>, <<"retried">>, <<"sample">>, <<"sample", "stop">>,
         <<"completed", "sample", "stop">>, <<"failed", "completed", "sample", "stop">>,
         <<"succeeded", "sample">>, <<"failed", "sample">>,
         <<"completed", "succeeded", "sample">>, <<"completed", "failed", "sample">>}

Retries == 0..kMaxRetryPerSession

SlotRecord == [pc : PCs, retry : Retries, link : Links,
               pipe : Seq(Answers), owed : Dues]

TypeOK ==
  /\ count \in [Counter -> Nat]
  /\ stop \in BOOLEAN
  /\ mpc \in {"loop", "join", "done"}
  /\ slot \in [Slots -> SlotRecord]
  /\ sockets \in [Slots -> Int]
  /\ gaveUp \subseteq Slots /\ kept \subseteq Slots

Owes(owed, c) == \E i \in DOMAIN owed : owed[i] = c

\* A descriptor is open exactly with a link, and which link there is follows from where the
\* connect stands.
LinkKnown(s) ==
  /\ sockets[s] = IF slot[s].link = "none" THEN 0 ELSE 1
  /\ slot[s].pc \in Unlinked => slot[s].link = "none"
  /\ slot[s].pc = "tls" => slot[s].link = "socket"
  /\ ~ Connected(s) => slot[s].pipe = <<>>

\* Unless the last retry has failed on this connection, it owes answers to a failed request
\* only until the retry replaces it.
PipeClean(s) ==
  s \notin kept =>
    \/ slot[s].pc = "after"
    \/ slot[s].pipe = <<>>
    \/ slot[s].pc = "receive" /\ slot[s].pipe = <<"mine">>

\* Owing a success, the slot has its retries back; a slot that gave up is on its way out.
DuesKnown(s) ==
  /\ Owes(slot[s].owed, "succeeded") => slot[s].retry = 0
  /\ s \in gaveUp => slot[s].pc \in {"leave", "exited"}

SlotInv == \A s \in Slots : LinkKnown(s) /\ PipeClean(s) /\ DuesKnown(s)

\* The retries in the slots' own counters and in what they owe.
Budget(s) ==
  slot[s].retry + (IF Owes(slot[s].owed, "succeeded") THEN kMaxRetryPerSession ELSE 0)
                - (IF Owes(slot[s].owed, "retried") THEN 1 ELSE 0)

\* Every retry counted belongs to a request that succeeded or is in the budget of a slot.
RetriesPaid ==
  count["retried"] <= kMaxRetryPerSession * count["succeeded"]
                        + SumFunction([s \in Slots |-> Budget(s)])

HttpsInv == TypeOK /\ SlotInv /\ EveryRequestAccounted /\ RetriesPaid
-----------------------------------------------------------------------------
(* Payments *)

\* Unfinished and Budget of a slot's record.
UnfinishedOf(x) ==
  (IF x.pc \in {"send", "receive"} THEN 1 ELSE 0) + (IF Owes(x.owed, "completed") THEN 1 ELSE 0)
BudgetOf(x) ==
  x.retry + (IF Owes(x.owed, "succeeded") THEN kMaxRetryPerSession ELSE 0)
          - (IF Owes(x.owed, "retried") THEN 1 ELSE 0)

\* The two amounts of a slot, before and after a step.
LEMMA SlotAmounts ==
  /\ \A s : Unfinished(s) = UnfinishedOf(slot[s]) /\ Unfinished(s)' = UnfinishedOf(slot'[s])
  /\ \A s : Budget(s) = BudgetOf(slot[s]) /\ Budget(s)' = BudgetOf(slot'[s])
  BY DEF Unfinished, UnfinishedOf, Budget, BudgetOf, Owes

\* They are integers.
LEMMA AmountTypes ==
  ASSUME NEW x \in SlotRecord
  PROVE  UnfinishedOf(x) \in Int /\ BudgetOf(x) \in Int
  BY DEF SlotRecord, Retries, UnfinishedOf, BudgetOf

\* The members of short lists, and what is left without the first.
LEMMA ShortLists ==
  /\ \A c : ~ Owes(<<>>, c)
  /\ \A a : /\ Head(<<a>>) = a /\ Tail(<<a>>) = <<>>
            /\ \A c : Owes(<<a>>, c) <=> c = a
  /\ \A a, b : /\ Head(<<a, b>>) = a /\ Tail(<<a, b>>) = <<b>>
               /\ \A c : Owes(<<a, b>>, c) <=> c = a \/ c = b
  /\ \A a, b, d : /\ Head(<<a, b, d>>) = a /\ Tail(<<a, b, d>>) = <<b, d>>
                  /\ \A c : Owes(<<a, b, d>>, c) <=> c = a \/ c = b \/ c = d
  /\ \A a, b, d, e : /\ Head(<<a, b, d, e>>) = a /\ Tail(<<a, b, d, e>>) = <<b, d, e>>
                     /\ \A c : Owes(<<a, b, d, e>>, c) <=> c = a \/ c = b \/ c = d \/ c = e
<1>1. \A c : ~ Owes(<<>>, c)
  BY DEF Owes
<1>2. \A a : /\ Head(<<a>>) = a /\ Tail(<<a>>) = <<>>
             /\ \A c : Owes(<<a>>, c) <=> c = a
  BY DEF Owes
<1>3. \A a, b : /\ Head(<<a, b>>) = a /\ Tail(<<a, b>>) = <<b>>
                /\ \A c : Owes(<<a, b>>, c) <=> c = a \/ c = b
  BY DEF Owes
<1>4. \A a, b, d : /\ Head(<<a, b, d>>) = a /\ Tail(<<a, b, d>>) = <<b, d>>
                   /\ \A c : Owes(<<a, b, d>>, c) <=> c = a \/ c = b \/ c = d
  BY DEF Owes
<1>5. \A a, b, d, e : /\ Head(<<a, b, d, e>>) = a /\ Tail(<<a, b, d, e>>) = <<b, d, e>>
                      /\ \A c : Owes(<<a, b, d, e>>, c) <=> c = a \/ c = b \/ c = d \/ c = e
  BY DEF Owes
<1>. QED BY <1>1, <1>2, <1>3, <1>4, <1>5

\* Each payment is made once, and what is left after it is again something a slot may owe.
LEMMA PaymentsOnce ==
  ASSUME NEW o \in Dues, o # <<>>
  PROVE  /\ Tail(o) \in Dues
         /\ Head(o) \in (Counter \ {"started"}) \cup {"stop"}
         /\ \A c \in {"completed", "succeeded", "retried"} :
              /\ Owes(o, c) <=> Head(o) = c \/ Owes(Tail(o), c)
              /\ ~ (Head(o) = c /\ Owes(Tail(o), c))
<1>. DEFINE Amounts == {"completed", "succeeded", "retried"}
            Once(l, h, t) == /\ Tail(l) = t /\ Head(l) = h
                             /\ \A c \in Amounts : /\ Owes(l, c) <=> h = c \/ Owes(t, c)
                                                  /\ ~ (h = c /\ Owes(t, c))
<1>1. Once(<<"stop">>, "stop", <<>>)
  BY ShortLists
<1>2. Once(<<"retried">>, "retried", <<>>)
  BY ShortLists
<1>3. Once(<<"sample">>, "sample", <<>>)
  BY ShortLists
<1>4. Once(<<"sample", "stop">>, "sample", <<"stop">>)
  BY ShortLists
<1>5. Once(<<"completed", "sample", "stop">>, "completed", <<"sample", "stop">>)
  BY ShortLists
<1>6. Once(<<"failed", "completed", "sample", "stop">>, "failed",
         <<"completed", "sample", "stop">>)
  BY ShortLists
<1>7. Once(<<"succeeded", "sample">>, "succeeded", <<"sample">>)
  BY ShortLists
<1>8. Once(<<"failed", "sample">>, "failed", <<"sample">>)
  BY ShortLists
<1>9. Once(<<"completed", "succeeded", "sample">>, "completed",
         <<"succeeded", "sample">>)
  BY ShortLists
<1>10. Once(<<"completed", "failed", "sample">>, "completed",
         <<"failed", "sample">>)
  BY ShortLists
<1>11. PICK h, t : Once(o, h, t) /\ t \in Dues /\ h \in (Counter \ {"started"}) \cup {"stop"}
  <2>. HIDE DEF Once
  <2>. QED BY <1>1, <1>2, <1>3, <1>4, <1>5, <1>6, <1>7, <1>8, <1>9, <1>10 DEF Dues, Counter
<1>. QED BY <1>11

-----------------------------------------------------------------------------
(* A step of one slot *)

\* What SlotInv says of each slot, for a slot the step does not touch.
LEMMA OthersKeep ==
  ASSUME SlotInv, NEW t \in Slots, slot'[t] = slot[t], sockets'[t] = sockets[t],
         t \in kept' <=> t \in kept, t \in gaveUp' <=> t \in gaveUp
  PROVE  LinkKnown(t)' /\ PipeClean(t)' /\ DuesKnown(t)'
  BY DEF SlotInv, LinkKnown, PipeClean, DuesKnown, Connected

\* One slot changes, and with it the sum of what is unfinished.
LEMMA AccountStep ==
  ASSUME TypeOK, TypeOK', EveryRequestAccounted,
         NEW s \in Slots, \A t \in Slots \ {s} : slot'[t] = slot[t],
         count'["started"] + Cardinality(gaveUp') - count'["completed"] - UnfinishedOf(slot'[s])
           = count["started"] + Cardinality(gaveUp) - count["completed"] - UnfinishedOf(slot[s])
  PROVE  EveryRequestAccounted'
<1>. DEFINE f == [t \in Slots |-> UnfinishedOf(slot[t])]
            g == [t \in Slots |-> UnfinishedOf(slot'[t])]
            n == Cardinality(gaveUp)
            m == Cardinality(gaveUp')
<1>1. f \in [Slots -> Int] /\ g \in [Slots -> Int]
  BY AmountTypes DEF TypeOK
<1>2. (\A t \in Slots \ {s} : g[t] = f[t])
      /\ f[s] = UnfinishedOf(slot[s]) /\ g[s] = UnfinishedOf(slot'[s])
  OBVIOUS
<1>3. f = [t \in Slots |-> Unfinished(t)] /\ g = [t \in Slots |-> Unfinished(t)']
  BY SlotAmounts
<1>4. n \in Int /\ m \in Int
  BY FS_Subset, FS_CardinalityType DEF TypeOK
<1>. HIDE DEF f, g, n, m
<1>5. SumFunction(f) \in Int /\ SumFunction(g) = SumFunction(f) + (g[s] - f[s])
  BY <1>1, <1>2, SumChange
<1>6. count["started"] + n = count["completed"] + SumFunction(f)
  BY <1>3 DEF EveryRequestAccounted, n
<1>7. count'["started"] + m - count'["completed"] - g[s]
        = count["started"] + n - count["completed"] - f[s]
  BY <1>2 DEF n, m
<1>8. /\ count["started"] \in Int /\ count'["started"] \in Int
      /\ count["completed"] \in Int /\ count'["completed"] \in Int
      /\ g[s] \in Int /\ f[s] \in Int
  BY <1>1 DEF TypeOK, Counter
<1>. DEFINE a == count["started"]
            aa == count'["started"]
            c == count["completed"]
            cc == count'["completed"]
            x == f[s]
            y == g[s]
            S == SumFunction(f)
            T == SumFunction(g)
<1>9. /\ a \in Int /\ aa \in Int /\ c \in Int /\ cc \in Int /\ x \in Int /\ y \in Int
      /\ S \in Int /\ T = S + (y - x)
      /\ a + n = c + S
      /\ aa + m - cc - y = a + n - c - x
  BY <1>5, <1>6, <1>7, <1>8
<1>. HIDE DEF a, aa, c, cc, x, y, S, T
<1>10. aa + m = cc + T
  BY <1>4, <1>9
<1>. QED BY <1>3, <1>10 DEF EveryRequestAccounted, m, aa, cc, T

\* One slot changes, and with it the sum of the budgets.
LEMMA RetryStep ==
  ASSUME TypeOK, TypeOK', RetriesPaid,
         NEW s \in Slots, \A t \in Slots \ {s} : slot'[t] = slot[t],
         count'["retried"] - kMaxRetryPerSession * count'["succeeded"] - BudgetOf(slot'[s])
           <= count["retried"] - kMaxRetryPerSession * count["succeeded"] - BudgetOf(slot[s])
  PROVE  RetriesPaid'
<1>. DEFINE f == [t \in Slots |-> BudgetOf(slot[t])]
            g == [t \in Slots |-> BudgetOf(slot'[t])]
            p == kMaxRetryPerSession * count["succeeded"]
            q == kMaxRetryPerSession * count'["succeeded"]
<1>1. f \in [Slots -> Int] /\ g \in [Slots -> Int]
  BY AmountTypes DEF TypeOK
<1>2. (\A t \in Slots \ {s} : g[t] = f[t])
      /\ f[s] = BudgetOf(slot[s]) /\ g[s] = BudgetOf(slot'[s])
  OBVIOUS
<1>3. f = [t \in Slots |-> Budget(t)] /\ g = [t \in Slots |-> Budget(t)']
  BY SlotAmounts
<1>4. p \in Int /\ q \in Int
  BY DEF TypeOK, Counter
<1>. HIDE DEF f, g, p, q
<1>5. SumFunction(f) \in Int /\ SumFunction(g) = SumFunction(f) + (g[s] - f[s])
  BY <1>1, <1>2, SumChange
<1>6. count["retried"] <= p + SumFunction(f)
  BY <1>3 DEF RetriesPaid, p
<1>7. count'["retried"] - q - g[s] <= count["retried"] - p - f[s]
  BY <1>2 DEF p, q
<1>8. count["retried"] \in Int /\ count'["retried"] \in Int /\ g[s] \in Int /\ f[s] \in Int
  BY <1>1 DEF TypeOK, Counter
<1>9. count'["retried"] <= q + SumFunction(g)
  BY <1>4, <1>5, <1>6, <1>7, <1>8
<1>. QED BY <1>3, <1>9 DEF RetriesPaid, q

\* A slot becomes x: the sums change by what x differs from it.
LEMMA SlotStep ==
  ASSUME HttpsInv, NEW s \in Slots, NEW x \in SlotRecord, Becomes(s, x),
         count' \in [Counter -> Nat], stop' \in BOOLEAN, UNCHANGED mpc,
         sockets' \in [Slots -> Int], \A t \in Slots \ {s} : sockets'[t] = sockets[t],
         gaveUp' \subseteq Slots, \A t \in Slots \ {s} : t \in gaveUp' <=> t \in gaveUp,
         kept' \subseteq Slots, \A t \in Slots \ {s} : t \in kept' <=> t \in kept,
         LinkKnown(s)', PipeClean(s)', DuesKnown(s)',
         count'["started"] + Cardinality(gaveUp') - count'["completed"] - UnfinishedOf(x)
           = count["started"] + Cardinality(gaveUp) - count["completed"] - UnfinishedOf(slot[s]),
         count'["retried"] - kMaxRetryPerSession * count'["succeeded"] - BudgetOf(x)
           <= count["retried"] - kMaxRetryPerSession * count["succeeded"] - BudgetOf(slot[s])
  PROVE  HttpsInv'
<1>1. /\ slot \in [Slots -> SlotRecord]
      /\ slot' = [slot EXCEPT ![s] = x]
      /\ slot' \in [Slots -> SlotRecord]
      /\ slot'[s] = x /\ \A t \in Slots \ {s} : slot'[t] = slot[t]
  BY DEF HttpsInv, TypeOK, Becomes
<1>2. TypeOK'
  BY <1>1 DEF HttpsInv, TypeOK
<1>3. SlotInv'
  <2>. SUFFICES ASSUME NEW t \in Slots PROVE LinkKnown(t)' /\ PipeClean(t)' /\ DuesKnown(t)'
    BY DEF SlotInv
  <2>1. CASE t = s
    BY <2>1
  <2>2. CASE t # s
    BY <1>1, <2>2, OthersKeep DEF HttpsInv
  <2>. QED BY <2>1, <2>2
<1>4. EveryRequestAccounted'
  BY <1>1, <1>2, AccountStep DEF HttpsInv
<1>5. RetriesPaid'
  BY <1>1, <1>2, RetryStep DEF HttpsInv
<1>. QED BY <1>2, <1>3, <1>4, <1>5 DEF HttpsInv

\* A step that touches no counter: its slot has as much to finish as before, and at least the
\* same budget.
LEMMA QuietStep ==
  ASSUME HttpsInv, NEW s \in Slots, NEW x \in SlotRecord, Becomes(s, x),
         UNCHANGED <<shared, gaveUp>>,
         sockets' \in [Slots -> Int], \A t \in Slots \ {s} : sockets'[t] = sockets[t],
         kept' \subseteq Slots, \A t \in Slots \ {s} : t \in kept' <=> t \in kept,
         LinkKnown(s)', PipeClean(s)', DuesKnown(s)',
         UnfinishedOf(x) = UnfinishedOf(slot[s]), BudgetOf(x) >= BudgetOf(slot[s])
  PROVE  HttpsInv'
<1>1. /\ count' = count /\ stop' = stop /\ mpc' = mpc /\ gaveUp' = gaveUp
      /\ count \in [Counter -> Nat] /\ stop \in BOOLEAN /\ gaveUp \subseteq Slots
      /\ slot[s] \in SlotRecord
  BY DEF shared, HttpsInv, TypeOK
<1>. DEFINE p == kMaxRetryPerSession * count["succeeded"]
<1>2. p \in Int /\ count["retried"] \in Int
  BY <1>1 DEF Counter
<1>3. BudgetOf(x) \in Int /\ BudgetOf(slot[s]) \in Int
  BY <1>1, AmountTypes
<1>. HIDE DEF p
<1>4. count["retried"] - p - BudgetOf(x) <= count["retried"] - p - BudgetOf(slot[s])
  BY <1>2, <1>3
<1>5. count'["retried"] - kMaxRetryPerSession * count'["succeeded"] - BudgetOf(x)
        <= count["retried"] - kMaxRetryPerSession * count["succeeded"] - BudgetOf(slot[s])
  BY <1>1, <1>4 DEF p
<1>6. count'["started"] + Cardinality(gaveUp') - count'["completed"] - UnfinishedOf(x)
        = count["started"] + Cardinality(gaveUp) - count["completed"] - UnfinishedOf(slot[s])
  BY <1>1
<1>. QED BY <1>1, <1>5, <1>6, SlotStep

\* Close leaves no connection and no descriptor, and nothing is kept.
LEMMA CloseStep ==
  ASSUME HttpsInv, NEW s \in Slots, NEW x \in SlotRecord, Close(s, x), x.link = slot[s].link,
         UNCHANGED <<shared, gaveUp>>, x.pc # "tls",
         x.owed # <<>> => (Owes(x.owed, "succeeded") => x.retry = 0),
         s \in gaveUp => x.pc \in {"leave", "exited"},
         UnfinishedOf(x) = UnfinishedOf(slot[s]), BudgetOf(x) >= BudgetOf(slot[s])
  PROVE  HttpsInv'
<1>. DEFINE y == [x EXCEPT !.link = "none", !.pipe = <<>>]
<1>0. Becomes(s, y)
  BY DEF Close
<1>1. /\ y \in SlotRecord
      /\ y.pc = x.pc /\ y.retry = x.retry /\ y.owed = x.owed /\ y.link = "none" /\ y.pipe = <<>>
  <2>1. x = [pc |-> x.pc, retry |-> x.retry, link |-> x.link, pipe |-> x.pipe, owed |-> x.owed]
    BY DEF SlotRecord
  <2>2. <<>> \in Seq(Answers) /\ "none" \in Links
    BY DEF Links
  <2>. QED BY <2>2 DEF SlotRecord
<1>2. /\ slot \in [Slots -> SlotRecord] /\ sockets \in [Slots -> Int] /\ kept \subseteq Slots
      /\ LinkKnown(s)
  BY DEF HttpsInv, TypeOK, SlotInv
<1>3. slot'[s] = y
  BY <1>0, <1>2 DEF Becomes
<1>4. /\ sockets' \in [Slots -> Int] /\ sockets'[s] = 0
      /\ \A t \in Slots \ {s} : sockets'[t] = sockets[t]
      /\ kept' = kept \ {s}
  BY <1>2 DEF Close, LinkKnown
<1>5. UnfinishedOf(y) = UnfinishedOf(x) /\ BudgetOf(y) = BudgetOf(x)
  BY <1>1 DEF UnfinishedOf, BudgetOf
<1>6. ~ Owes(<<>>, "succeeded")
  BY ShortLists
<1>7. gaveUp' = gaveUp
  OBVIOUS
<1>. HIDE DEF y
<1>8. LinkKnown(s)' /\ PipeClean(s)' /\ DuesKnown(s)'
  BY <1>1, <1>3, <1>4, <1>6, <1>7 DEF LinkKnown, PipeClean, DuesKnown, Connected
<1>. QED BY <1>0, <1>1, <1>2, <1>4, <1>5, <1>8, QuietStep

-----------------------------------------------------------------------------
(* The steps of a slot that leave the descriptors alone *)

Rec(pc, retry, link, pipe, owed) ==
  [pc |-> pc, retry |-> retry, link |-> link, pipe |-> pipe, owed |-> owed]

\* A record of typed fields.
LEMMA RecTypes ==
  ASSUME NEW p \in PCs, NEW r \in Retries, NEW l \in Links,
         NEW q \in Seq(Answers), NEW o \in Dues
  PROVE  Rec(p, r, l, q, o) \in SlotRecord
  BY DEF Rec, SlotRecord

\* A slot's record is its fields.
LEMMA RecordIs ==
  ASSUME NEW y \in SlotRecord
  PROVE  y = Rec(y.pc, y.retry, y.link, y.pipe, y.owed)
  BY DEF Rec, SlotRecord

\* The updates the steps make, field by field.
LEMMA Updated ==
  ASSUME NEW x \in SlotRecord
  PROVE  /\ \A p \in PCs : [x EXCEPT !.pc = p] = Rec(p, x.retry, x.link, x.pipe, x.owed)
         /\ \A o \in Dues : [x EXCEPT !.owed = o] = Rec(x.pc, x.retry, x.link, x.pipe, o)
<1>1. \A p \in PCs : [x EXCEPT !.pc = p] = Rec(p, x.retry, x.link, x.pipe, x.owed)
  <2>. TAKE p \in PCs
  <2>. DEFINE y == [x EXCEPT !.pc = p]
  <2>1. /\ y \in SlotRecord
        /\ y.pc = p /\ y.retry = x.retry /\ y.link = x.link /\ y.pipe = x.pipe /\ y.owed = x.owed
    BY DEF SlotRecord
  <2>. HIDE DEF y
  <2>. QED BY <2>1, RecordIs DEF y
<1>2. \A o \in Dues : [x EXCEPT !.owed = o] = Rec(x.pc, x.retry, x.link, x.pipe, o)
  <2>. TAKE o \in Dues
  <2>. DEFINE y == [x EXCEPT !.owed = o]
  <2>1. /\ y \in SlotRecord
        /\ y.pc = x.pc /\ y.retry = x.retry /\ y.link = x.link /\ y.pipe = x.pipe /\ y.owed = o
    BY DEF SlotRecord
  <2>. HIDE DEF y
  <2>. QED BY <2>1, RecordIs DEF y
<1>. QED BY <1>1, <1>2

\* What is known of a slot before its step.
LEMMA SlotFacts ==
  ASSUME HttpsInv, NEW s \in Slots
  PROVE  /\ slot[s] \in SlotRecord
         /\ slot[s].pc \in PCs /\ slot[s].retry \in Retries
         /\ slot[s].link \in Links /\ slot[s].pipe \in Seq(Answers) /\ slot[s].owed \in Dues
         /\ LinkKnown(s) /\ PipeClean(s) /\ DuesKnown(s)
<1>1. slot[s] \in SlotRecord
  BY DEF HttpsInv, TypeOK
<1>2. LinkKnown(s) /\ PipeClean(s) /\ DuesKnown(s)
  BY DEF HttpsInv, SlotInv
<1>. QED BY <1>1, <1>2 DEF SlotRecord

\* A step within the slot: no counter, no descriptor.
LEMMA LocalStep ==
  ASSUME HttpsInv, NEW s \in Slots,
         NEW p \in PCs, NEW r \in Retries, NEW l \in Links,
         NEW q \in Seq(Answers), NEW o \in Dues,
         Becomes(s, Rec(p, r, l, q, o)), UNCHANGED <<shared, sockets, gaveUp, kept>>,
         l = "none" <=> slot[s].link = "none",
         p \in Unlinked => l = "none",
         p = "tls" => l = "socket",
         l \in {"none", "socket"} => q = <<>>,
         s \notin kept => p = "after" \/ q = <<>> \/ (p = "receive" /\ q = <<"mine">>),
         Owes(o, "succeeded") => r = 0,
         s \in gaveUp => p \in {"leave", "exited"},
         UnfinishedOf(Rec(p, r, l, q, o)) = UnfinishedOf(slot[s]),
         BudgetOf(Rec(p, r, l, q, o)) >= BudgetOf(slot[s])
  PROVE  HttpsInv'
<1>. DEFINE x == Rec(p, r, l, q, o)
<1>1. x \in SlotRecord
  BY RecTypes
<1>2. x.pc = p /\ x.retry = r /\ x.link = l /\ x.pipe = q /\ x.owed = o
  BY DEF Rec
<1>3. /\ slot \in [Slots -> SlotRecord] /\ sockets \in [Slots -> Int] /\ kept \subseteq Slots
      /\ LinkKnown(s)
  BY DEF HttpsInv, TypeOK, SlotInv
<1>4. slot'[s] = x
  BY <1>3 DEF Becomes
<1>5. sockets' = sockets /\ kept' = kept /\ gaveUp' = gaveUp
  OBVIOUS
<1>. HIDE DEF x
<1>6. LinkKnown(s)'
  BY <1>2, <1>3, <1>4, <1>5 DEF LinkKnown, Connected, Links
<1>7. PipeClean(s)' /\ DuesKnown(s)'
  BY <1>2, <1>4, <1>5 DEF PipeClean, DuesKnown
<1>. QED BY <1>1, <1>3, <1>5, <1>6, <1>7, QuietStep DEF x

\* The amounts of a record, by its fields.
LEMMA RecAmounts ==
  ASSUME NEW p, NEW r \in Int, NEW l, NEW q, NEW o
  PROVE  /\ UnfinishedOf(Rec(p, r, l, q, o)) =
              (IF p \in {"send", "receive"} THEN 1 ELSE 0) + (IF Owes(o, "completed") THEN 1 ELSE 0)
         /\ BudgetOf(Rec(p, r, l, q, o)) =
              r + (IF Owes(o, "succeeded") THEN kMaxRetryPerSession ELSE 0)
                - (IF Owes(o, "retried") THEN 1 ELSE 0)
  BY DEF UnfinishedOf, BudgetOf, Rec

\* At a place in its code the slot owes nothing.
LEMMA AtAmounts ==
  ASSUME HttpsInv, NEW s \in Slots, NEW pc, At(s, pc)
  PROVE  /\ slot[s].pc = pc /\ slot[s].owed = <<>>
         /\ UnfinishedOf(slot[s]) = IF pc \in {"send", "receive"} THEN 1 ELSE 0
         /\ BudgetOf(slot[s]) = slot[s].retry
         /\ s \in gaveUp => pc \in {"leave", "exited"}
         /\ slot[s].retry \in Int
  BY SlotFacts, ShortLists DEF Retries, At, UnfinishedOf, BudgetOf, DuesKnown

\* What a step may make the slot owe.
LEMMA OwedAmounts ==
  /\ \A c \in {"completed", "succeeded", "retried"} : ~ Owes(<<>>, c) /\ ~ Owes(<<"stop">>, c)
  /\ Owes(<<"retried">>, "retried")
  /\ ~ Owes(<<"retried">>, "completed") /\ ~ Owes(<<"retried">>, "succeeded")
  /\ \A r \in {"succeeded", "failed"} :
       /\ Owes(Result(r), "completed") /\ ~ Owes(Result(r), "retried")
       /\ Owes(Result(r), "succeeded") <=> r = "succeeded"
  /\ Owes(<<"failed", "completed", "sample", "stop">>, "completed")
  /\ ~ Owes(<<"failed", "completed", "sample", "stop">>, "succeeded")
  /\ ~ Owes(<<"failed", "completed", "sample", "stop">>, "retried")
  BY ShortLists DEF Result

\* Going elsewhere, with nothing owed.
LEMMA GoesStep ==
  ASSUME HttpsInv, NEW s \in Slots, NEW pc, At(s, pc), NEW p \in PCs, Goes(s, p),
         UNCHANGED <<shared, sockets, gaveUp, kept>>,
         pc \notin {"send", "receive", "after", "exited"},
         p \notin {"send", "receive", "tls"} \cup Unlinked,
         pc = "leave" => p = "leave"
  PROVE  HttpsInv'
<1>. DEFINE x == slot[s]
<1>1. Becomes(s, Rec(p, x.retry, x.link, x.pipe, <<>>))
  <2>1. [slot[s] EXCEPT !.pc = p] = Rec(p, slot[s].retry, slot[s].link, slot[s].pipe, slot[s].owed)
    BY SlotFacts, Updated
  <2>2. slot[s].owed = <<>>
    BY AtAmounts
  <2>. QED BY <2>1, <2>2 DEF Goes
<1>2. /\ x.retry \in Retries /\ x.link \in Links /\ x.pipe \in Seq(Answers)
      /\ LinkKnown(s) /\ PipeClean(s) /\ x.pc = pc
      /\ s \in gaveUp => pc \in {"leave", "exited"}
  BY SlotFacts, AtAmounts
<1>3. x.link \in {"none", "socket"} => x.pipe = <<>>
  BY <1>2 DEF LinkKnown, Connected
<1>4. s \notin kept => x.pipe = <<>>
  BY <1>2 DEF PipeClean
<1>5. <<>> \in Dues /\ ~ Owes(<<>>, "succeeded")
  BY OwedAmounts DEF Dues
<1>6. /\ UnfinishedOf(Rec(p, x.retry, x.link, x.pipe, <<>>)) = UnfinishedOf(x)
      /\ BudgetOf(Rec(p, x.retry, x.link, x.pipe, <<>>)) >= BudgetOf(x)
  BY <1>2, AtAmounts, RecAmounts, OwedAmounts
<1>. HIDE DEF x
<1>. QED BY <1>1, <1>2, <1>3, <1>4, <1>5, <1>6, LocalStep DEF x

-----------------------------------------------------------------------------
(* The steps, one lemma for each *)

\* The record of a request that has ended: as much to finish as before, and no less budget.
EndedAs(s, outcome, pipe, p, r, q) ==
  /\ Ended(s, outcome, pipe) = Rec(p, r, slot[s].link, q, Result(outcome))
  /\ Result(outcome) \in Dues
  /\ outcome = "failed" => p = "after"
  /\ pipe = <<>> => q = <<>>
  /\ Owes(Result(outcome), "succeeded") => r = 0
  /\ s \notin gaveUp
  /\ UnfinishedOf(Rec(p, r, slot[s].link, q, Result(outcome))) = UnfinishedOf(slot[s])
  /\ BudgetOf(Rec(p, r, slot[s].link, q, Result(outcome))) >= BudgetOf(slot[s])

\* There is one.
LEMMA EndedFacts ==
  ASSUME HttpsInv, NEW s \in Slots, NEW pc \in {"send", "receive"}, At(s, pc),
         NEW outcome \in {"succeeded", "failed"}, NEW pipe \in Seq(Answers)
  PROVE  \E p \in {"top", "after"}, r \in Retries, q \in Seq(Answers) :
           EndedAs(s, outcome, pipe, p, r, q)
<1>. DEFINE x == slot[s]
            p == IF outcome = "succeeded" THEN "top" ELSE "after"
            r == IF outcome = "succeeded" THEN 0 ELSE x.retry
            q == [i \in DOMAIN pipe |-> IF pipe[i] = "mine" THEN "stale" ELSE pipe[i]]
            o == Result(outcome)
<1>1. x \in SlotRecord /\ x.retry \in Retries
  BY SlotFacts
<1>2. p \in PCs /\ p \in {"top", "after"} /\ r \in Retries /\ o \in Dues
  BY <1>1 DEF PCs, Retries, Dues, Result
<1>3. q \in Seq(Answers)
  <2>1. \A i \in DOMAIN pipe : pipe[i] \in Answers /\ q[i] \in Answers
    BY DEF Answers
  <2>2. q \in [1..Len(pipe) -> Answers] /\ Len(pipe) \in Nat
    BY <2>1
  <2>. QED BY <2>2
<1>4. pipe = <<>> => q = <<>>
  BY <1>3
<1>5. Ended(s, outcome, pipe) = Rec(p, r, x.link, q, o)
  <2>. DEFINE y == [x EXCEPT !.pc = p, !.retry = r, !.owed = o, !.pipe = q]
  <2>1. y = Ended(s, outcome, pipe)
    BY DEF Ended
  <2>2. /\ y \in SlotRecord
        /\ y.pc = p /\ y.retry = r /\ y.link = x.link /\ y.pipe = q /\ y.owed = o
    <3>. HIDE DEF p, r, q, o, x
    <3>. QED BY <1>1, <1>2, <1>3 DEF SlotRecord
  <2>. HIDE DEF y
  <2>. QED BY <2>1, <2>2, RecordIs
<1>6. x.pc = pc /\ UnfinishedOf(x) = 1 /\ BudgetOf(x) = x.retry /\ s \notin gaveUp
  BY AtAmounts
<1>7. /\ Owes(o, "completed") /\ ~ Owes(o, "retried")
      /\ Owes(o, "succeeded") <=> outcome = "succeeded"
  BY OwedAmounts
<1>8. /\ UnfinishedOf(Rec(p, r, x.link, q, o)) = 1
      /\ BudgetOf(Rec(p, r, x.link, q, o)) =
           r + (IF outcome = "succeeded" THEN kMaxRetryPerSession ELSE 0)
  <2>. HIDE DEF q, o, x
  <2>1. r \in Int
    BY <1>2 DEF Retries
  <2>. QED BY <1>2, <1>7, <2>1, RecAmounts
<1>9. r + (IF outcome = "succeeded" THEN kMaxRetryPerSession ELSE 0) >= x.retry
  BY <1>1 DEF Retries
<1>10. outcome = "failed" => p = "after"
  OBVIOUS
<1>11. Owes(o, "succeeded") => r = 0
  BY <1>7
<1>. HIDE DEF p, r, q, o, x
<1>12. EndedAs(s, outcome, pipe, p, r, q)
  BY <1>2, <1>4, <1>5, <1>6, <1>8, <1>9, <1>10, <1>11 DEF EndedAs, o, x
<1>. QED BY <1>2, <1>3, <1>12

\* A request ends and the connection stays as it is.
LEMMA EndedStep ==
  ASSUME HttpsInv, NEW s \in Slots, NEW pc \in {"send", "receive"}, At(s, pc),
         NEW outcome \in {"succeeded", "failed"}, NEW pipe \in Seq(Answers),
         Becomes(s, Ended(s, outcome, pipe)), UNCHANGED <<shared, sockets, gaveUp, kept>>,
         ~ Connected(s) => pipe = <<>>,
         s \notin kept => outcome = "failed" \/ pipe = <<>>
  PROVE  HttpsInv'
<1>1. PICK p \in {"top", "after"}, r \in Retries, q \in Seq(Answers) :
           EndedAs(s, outcome, pipe, p, r, q)
  BY EndedFacts
<1>2. slot[s].link \in Links /\ p \in PCs
  BY SlotFacts DEF PCs
<1>3. Becomes(s, Rec(p, r, slot[s].link, q, Result(outcome)))
  BY <1>1 DEF EndedAs, Becomes
<1>4. slot[s].link \in {"none", "socket"} => q = <<>>
  BY <1>1 DEF EndedAs, Connected
<1>5. s \notin kept => p = "after" \/ q = <<>>
  BY <1>1 DEF EndedAs
<1>6. p \notin {"tls"} \cup Unlinked
  OBVIOUS
<1>. QED BY <1>1, <1>2, <1>3, <1>4, <1>5, <1>6, LocalStep DEF EndedAs

\* A request ends and the connection is closed.
LEMMA EndedClosing ==
  ASSUME HttpsInv, NEW s \in Slots, NEW pc \in {"send", "receive"}, At(s, pc),
         NEW outcome \in {"succeeded", "failed"},
         Close(s, Ended(s, outcome, <<>>)), UNCHANGED <<shared, gaveUp>>
  PROVE  HttpsInv'
<1>0. <<>> \in Seq(Answers)
  OBVIOUS
<1>1. PICK p \in {"top", "after"}, r \in Retries, q \in Seq(Answers) :
           EndedAs(s, outcome, <<>>, p, r, q)
  BY <1>0, EndedFacts
<1>. DEFINE x == Ended(s, outcome, <<>>)
<1>2. slot[s].link \in Links /\ p \in PCs
  BY SlotFacts DEF PCs
<1>3. x \in SlotRecord
  <2>1. Result(outcome) \in Dues /\ x = Rec(p, r, slot[s].link, q, Result(outcome))
    BY <1>1 DEF EndedAs
  <2>. HIDE DEF x
  <2>2. Rec(p, r, slot[s].link, q, Result(outcome)) \in SlotRecord
    BY <1>2, <2>1, RecTypes
  <2>. QED BY <2>1, <2>2
<1>4. x.link = slot[s].link /\ x.pc = p /\ x.owed = Result(outcome) /\ x.retry = r
  BY <1>1 DEF EndedAs, Rec
<1>5. UnfinishedOf(x) = UnfinishedOf(slot[s]) /\ BudgetOf(x) >= BudgetOf(slot[s])
  BY <1>1 DEF EndedAs
<1>6. Close(s, x)
  OBVIOUS
<1>. HIDE DEF x
<1>. QED BY <1>1, <1>3, <1>4, <1>5, <1>6, CloseStep DEF EndedAs

\* Closing in a step that only goes elsewhere.
LEMMA CloseGoes ==
  ASSUME HttpsInv, NEW s \in Slots, NEW pc, At(s, pc), NEW p \in PCs,
         NEW x, x = [slot[s] EXCEPT !.pc = p], Close(s, x), UNCHANGED <<shared, gaveUp>>,
         pc \notin {"send", "receive"}, p \notin {"send", "receive", "tls"},
         pc \in {"leave", "exited"} => p \in {"leave", "exited"}
  PROVE  HttpsInv'
<1>1. x = Rec(p, slot[s].retry, slot[s].link, slot[s].pipe, slot[s].owed) /\ slot[s].owed = <<>>
  BY SlotFacts, Updated, AtAmounts
<1>2. x \in SlotRecord
  BY <1>1, SlotFacts, RecTypes
<1>3. x.link = slot[s].link /\ x.pc = p /\ x.owed = <<>>
  BY <1>1 DEF Rec
<1>4. UnfinishedOf(x) = UnfinishedOf(slot[s]) /\ BudgetOf(x) >= BudgetOf(slot[s])
  BY <1>1, AtAmounts, RecAmounts, OwedAmounts
<1>5. s \in gaveUp => p \in {"leave", "exited"}
  BY AtAmounts
<1>. QED BY <1>2, <1>3, <1>4, <1>5, CloseStep

\* A payment moves from what the slot owes to the counter.
LEMMA PayKeeps ==
  ASSUME HttpsInv, NEW s \in Slots, Pay(s)
  PROVE  HttpsInv'
<1>. DEFINE x   == slot[s]
            due == Head(x.owed)
            o   == Tail(x.owed)
            y   == Rec(x.pc, x.retry, x.link, x.pipe, o)
            Paid(c) == IF due = c THEN 1 ELSE 0
<1>1. /\ x \in SlotRecord /\ x.owed \in Dues /\ x.owed # <<>>
      /\ x.pc \in PCs /\ x.retry \in Retries /\ x.link \in Links /\ x.pipe \in Seq(Answers)
      /\ LinkKnown(s) /\ PipeClean(s) /\ DuesKnown(s)
  BY SlotFacts DEF Pay
<1>2. /\ o \in Dues /\ due \in (Counter \ {"started"}) \cup {"stop"}
      /\ \A c \in {"completed", "succeeded", "retried"} :
           (Owes(x.owed, c) <=> due = c \/ Owes(o, c)) /\ ~ (due = c /\ Owes(o, c))
  <2>. HIDE DEF x
  <2>. QED BY <1>1, PaymentsOnce
<1>3. Becomes(s, y)
  <2>1. [x EXCEPT !.owed = o] = y
    <3>. HIDE DEF o, x
    <3>. QED BY <1>1, <1>2, Updated
  <2>. QED BY <2>1 DEF Pay
<1>4. y \in SlotRecord
  <2>. HIDE DEF o, x
  <2>. QED BY <1>1, <1>2, RecTypes
<1>5. /\ count \in [Counter -> Nat] /\ stop \in BOOLEAN /\ slot \in [Slots -> SlotRecord]
      /\ sockets \in [Slots -> Int] /\ gaveUp \subseteq Slots /\ kept \subseteq Slots
  BY DEF HttpsInv, TypeOK
<1>6. /\ count' = IF due \in Counter THEN [count EXCEPT ![due] = @ + 1] ELSE count
      /\ stop' = (stop \/ due = "stop")
      /\ mpc' = mpc /\ sockets' = sockets /\ gaveUp' = gaveUp /\ kept' = kept
  BY DEF Pay
<1>7. UnfinishedOf(y) = UnfinishedOf(x) - Paid("completed")
  <2>1. x = Rec(x.pc, x.retry, x.link, x.pipe, x.owed)
    BY <1>1, RecordIs
  <2>. HIDE DEF due, o
  <2>2. Owes(x.owed, "completed") <=> due = "completed" \/ Owes(o, "completed")
    BY <1>2
  <2>3. ~ (due = "completed" /\ Owes(o, "completed"))
    BY <1>2
  <2>4. UnfinishedOf(y) = (IF x.pc \in {"send", "receive"} THEN 1 ELSE 0)
                            + (IF Owes(o, "completed") THEN 1 ELSE 0)
    BY DEF UnfinishedOf, Rec
  <2>. HIDE DEF y
  <2>. QED BY <2>2, <2>3, <2>4 DEF UnfinishedOf
<1>8. BudgetOf(y) = BudgetOf(x) - kMaxRetryPerSession * Paid("succeeded") + Paid("retried")
  <2>1. BudgetOf(y) = x.retry + (IF Owes(o, "succeeded") THEN kMaxRetryPerSession ELSE 0)
                              - (IF Owes(o, "retried") THEN 1 ELSE 0)
    BY DEF BudgetOf, Rec
  <2>. HIDE DEF due, o, y
  <2>2. /\ Owes(x.owed, "succeeded") <=> due = "succeeded" \/ Owes(o, "succeeded")
        /\ ~ (due = "succeeded" /\ Owes(o, "succeeded"))
        /\ Owes(x.owed, "retried") <=> due = "retried" \/ Owes(o, "retried")
        /\ ~ (due = "retried" /\ Owes(o, "retried"))
    BY <1>2
  <2>3. x.retry \in Int
    BY <1>1 DEF Retries
  <2>. QED BY <2>1, <2>2, <2>3 DEF BudgetOf
<1>. HIDE DEF o, y
<1>9. /\ count' \in [Counter -> Nat] /\ stop' \in BOOLEAN
      /\ count'["started"] = count["started"]
      /\ \A c \in {"completed", "succeeded", "retried"} : count'[c] = count[c] + Paid(c)
  <2>. HIDE DEF due
  <2>. QED BY <1>2, <1>5, <1>6 DEF Counter
<1>10. slot'[s] = y
  BY <1>3, <1>5 DEF Becomes
<1>11. /\ y.pc = x.pc /\ y.retry = x.retry /\ y.link = x.link /\ y.pipe = x.pipe /\ y.owed = o
  BY DEF y, Rec
<1>12. LinkKnown(s)' /\ PipeClean(s)'
  BY <1>1, <1>6, <1>10, <1>11 DEF LinkKnown, Connected, PipeClean
<1>13. DuesKnown(s)'
  BY <1>1, <1>2, <1>6, <1>10, <1>11 DEF DuesKnown
<1>14. count'["started"] + Cardinality(gaveUp') - count'["completed"] - UnfinishedOf(y)
        = count["started"] + Cardinality(gaveUp) - count["completed"] - UnfinishedOf(slot[s])
  <2>. DEFINE n == Cardinality(gaveUp)
              a == count["started"]
              c == count["completed"]
              d == Paid("completed")
              u == UnfinishedOf(x)
  <2>1. Cardinality(gaveUp') = n /\ n \in Int
    BY <1>5, <1>6, FS_Subset, FS_CardinalityType
  <2>2. a \in Int /\ c \in Int /\ u \in Int /\ d \in Int
    BY <1>1, <1>5, AmountTypes DEF Counter
  <2>3. count'["started"] = a /\ count'["completed"] = c + d /\ UnfinishedOf(y) = u - d
    BY <1>7, <1>9
  <2>. HIDE DEF n, a, c, d, u
  <2>4. a + n - (c + d) - (u - d) = a + n - c - u
    BY <2>1, <2>2
  <2>. QED BY <2>1, <2>3, <2>4 DEF n, a, c, u
<1>15. count'["retried"] - kMaxRetryPerSession * count'["succeeded"] - BudgetOf(y)
        <= count["retried"] - kMaxRetryPerSession * count["succeeded"] - BudgetOf(slot[s])
  <2>1. /\ count["retried"] \in Int /\ count["succeeded"] \in Int /\ BudgetOf(x) \in Int
        /\ count'["succeeded"] = count["succeeded"] + Paid("succeeded")
        /\ count'["retried"] = count["retried"] + Paid("retried")
        /\ Paid("succeeded") \in Int /\ Paid("retried") \in Int
    BY <1>1, <1>5, <1>9, AmountTypes DEF Counter
  <2>. DEFINE m == kMaxRetryPerSession * count["succeeded"]
              k == kMaxRetryPerSession * Paid("succeeded")
              l == Paid("retried")
              b == BudgetOf(x)
  <2>2. kMaxRetryPerSession * count'["succeeded"] = m + k /\ m \in Int /\ k \in Int
    BY <2>1
  <2>3. BudgetOf(y) = b - k + l /\ l \in Int /\ b \in Int
        /\ count'["retried"] = count["retried"] + l /\ count["retried"] \in Int
    BY <1>8, <2>1
  <2>. HIDE DEF m, k, l, b
  <2>4. count'["retried"] - (m + k) - BudgetOf(y) <= count["retried"] - m - b
    BY <2>2, <2>3
  <2>. QED BY <2>2, <2>4 DEF m, b
<1>. QED BY <1>3, <1>4, <1>5, <1>6, <1>9, <1>12, <1>13, <1>14, <1>15, SlotStep

\* Without TLS the slot raises stop and goes.
LEMMA InitTlsKeeps ==
  ASSUME HttpsInv, NEW s \in Slots, InitTls(s)
  PROVE  HttpsInv'
<1>. DEFINE x == slot[s]
<1>1. /\ At(s, "init") /\ UNCHANGED <<shared, sockets, gaveUp, kept>>
      /\ x \in SlotRecord /\ x.retry \in Retries /\ x.link \in Links /\ x.pipe \in Seq(Answers)
      /\ LinkKnown(s) /\ PipeClean(s) /\ x.pc = "init" /\ s \notin gaveUp
  BY SlotFacts, AtAmounts DEF InitTls
<1>2. CASE Goes(s, "top")
  <2>1. "top" \in PCs
    BY DEF PCs
  <2>. QED BY <1>1, <1>2, <2>1, GoesStep
<1>3. CASE Becomes(s, [slot[s] EXCEPT !.pc = "failed", !.owed = <<"stop">>])
  <2>. DEFINE y == Rec("failed", x.retry, x.link, x.pipe, <<"stop">>)
  <2>1. "failed" \in PCs /\ <<"stop">> \in Dues
    BY DEF PCs, Dues
  <2>2. [x EXCEPT !.pc = "failed", !.owed = <<"stop">>] = y
    <3>. HIDE DEF x
    <3>. DEFINE z == [x EXCEPT !.pc = "failed", !.owed = <<"stop">>]
    <3>1. /\ z \in SlotRecord
           /\ z.pc = "failed" /\ z.retry = x.retry /\ z.link = x.link
           /\ z.pipe = x.pipe /\ z.owed = <<"stop">>
      BY <1>1, <2>1 DEF SlotRecord
    <3>. HIDE DEF z
    <3>. QED BY <3>1, RecordIs DEF z
  <2>3. Becomes(s, y)
    BY <1>3, <2>2
  <2>4. x.link \in {"none", "socket"} => x.pipe = <<>>
    BY <1>1 DEF LinkKnown, Connected
  <2>5. s \notin kept => x.pipe = <<>>
    BY <1>1 DEF PipeClean
  <2>6. UnfinishedOf(y) = UnfinishedOf(x) /\ BudgetOf(y) >= BudgetOf(x)
    BY <1>1, AtAmounts, RecAmounts, OwedAmounts
  <2>7. ~ Owes(<<"stop">>, "succeeded")
    BY OwedAmounts
  <2>8. x.link = "none"
    BY <1>1 DEF LinkKnown
  <2>. HIDE DEF x
  <2>. QED BY <1>1, <2>1, <2>3, <2>4, <2>5, <2>6, <2>7, <2>8, LocalStep DEF x
<1>. QED BY <1>2, <1>3 DEF InitTls

\* The top of the loop only looks where to go.
LEMMA LoopTopKeeps ==
  ASSUME HttpsInv, NEW s \in Slots, LoopTop(s)
  PROVE  HttpsInv'
<1>1. PICK p \in {"leave", "quota", "connect"} : Goes(s, p)
  BY DEF LoopTop
<1>2. At(s, "top") /\ UNCHANGED <<shared, sockets, gaveUp, kept>> /\ p \in PCs
  BY DEF LoopTop, PCs
<1>. QED BY <1>1, <1>2, GoesStep

\* Connecting begins with closing.
LEMMA ConnectKeeps ==
  ASSUME HttpsInv, NEW s \in Slots, Connect(s)
  PROVE  HttpsInv'
<1>. DEFINE x == [slot[s] EXCEPT !.pc = "tcp"]
<1>1. At(s, "connect") /\ Close(s, x) /\ UNCHANGED <<shared, gaveUp>> /\ "tcp" \in PCs
  BY DEF Connect, PCs
<1>2. \E y : y = [slot[s] EXCEPT !.pc = "tcp"] /\ Close(s, y)
  BY <1>1
<1>. QED BY <1>1, <1>2, CloseGoes

\* Without a socket there is no descriptor.
LEMMA ConnectTcpWithoutSocketKeeps ==
  ASSUME HttpsInv, NEW s \in Slots, ConnectTcpWithoutSocket(s)
  PROVE  HttpsInv'
<1>1. At(s, "tcp") /\ Goes(s, "unconnected") /\ UNCHANGED <<shared, sockets, gaveUp, kept>>
      /\ "unconnected" \in PCs
  BY DEF ConnectTcpWithoutSocket, PCs
<1>. QED BY <1>1, GoesStep

\* A failed handshake closes the socket.
LEMMA HandshakeFailsKeeps ==
  ASSUME HttpsInv, NEW s \in Slots, HandshakeFails(s)
  PROVE  HttpsInv'
<1>1. /\ At(s, "tls") /\ UNCHANGED <<shared, gaveUp>> /\ "unconnected" \in PCs
      /\ \E y : y = [slot[s] EXCEPT !.pc = "unconnected"] /\ Close(s, y)
  BY DEF HandshakeFails, PCs
<1>. QED BY <1>1, CloseGoes

\* The client goes with its thread.
LEMMA LeaveKeeps ==
  ASSUME HttpsInv, NEW s \in Slots, Leave(s)
  PROVE  HttpsInv'
<1>1. /\ At(s, "leave") /\ UNCHANGED <<shared, gaveUp>> /\ "exited" \in PCs
      /\ \E y : y = [slot[s] EXCEPT !.pc = "exited"] /\ Close(s, y)
  BY DEF Leave, PCs
<1>. QED BY <1>1, CloseGoes

\* The socket is there whether or not it connects.
LEMMA ConnectTcpKeeps ==
  ASSUME HttpsInv, NEW s \in Slots, ConnectTcp(s)
  PROVE  HttpsInv'
<1>. DEFINE x == slot[s]
<1>1. /\ At(s, "tcp") /\ UNCHANGED <<shared, gaveUp, kept>>
      /\ x \in SlotRecord /\ x.retry \in Retries /\ x.pipe \in Seq(Answers)
      /\ LinkKnown(s) /\ PipeClean(s) /\ x.pc = "tcp" /\ x.owed = <<>> /\ s \notin gaveUp
  BY SlotFacts, AtAmounts DEF ConnectTcp
<1>2. PICK p \in {"tls", "unconnected"} : Becomes(s, [x EXCEPT !.pc = p, !.link = "socket"])
  BY DEF ConnectTcp
<1>3. x.link = "none" /\ sockets[s] = 0 /\ x.pipe = <<>>
  BY <1>1 DEF LinkKnown, Connected
<1>. DEFINE y == Rec(p, x.retry, "socket", <<>>, <<>>)
<1>4. p \in PCs /\ "socket" \in Links /\ <<>> \in Dues /\ <<>> \in Seq(Answers)
  BY DEF PCs, Links, Dues
<1>5. Becomes(s, y) /\ y \in SlotRecord
  <2>1. [x EXCEPT !.pc = p, !.link = "socket"] = y
    <3>. HIDE DEF x
    <3>. DEFINE z == [x EXCEPT !.pc = p, !.link = "socket"]
    <3>1. /\ z \in SlotRecord
           /\ z.pc = p /\ z.retry = x.retry /\ z.link = "socket" /\ z.pipe = <<>> /\ z.owed = <<>>
      BY <1>1, <1>3, <1>4 DEF SlotRecord
    <3>. HIDE DEF z
    <3>. QED BY <3>1, RecordIs DEF z
  <2>2. y \in SlotRecord
    BY <1>1, <1>4, RecTypes
  <2>. QED BY <1>2, <2>1, <2>2
<1>6. /\ sockets \in [Slots -> Int] /\ kept \subseteq Slots /\ slot \in [Slots -> SlotRecord]
      /\ sockets' = [sockets EXCEPT ![s] = @ + 1]
  BY DEF HttpsInv, TypeOK, ConnectTcp
<1>7. /\ sockets' \in [Slots -> Int] /\ sockets'[s] = 1
      /\ \A t \in Slots \ {s} : sockets'[t] = sockets[t]
  BY <1>3, <1>6
<1>8. slot'[s] = y /\ gaveUp' = gaveUp /\ kept' = kept
  BY <1>1, <1>5, <1>6 DEF Becomes
<1>9. y.pc = p /\ y.link = "socket" /\ y.pipe = <<>> /\ y.owed = <<>>
  BY DEF Rec
<1>10. UnfinishedOf(y) = UnfinishedOf(x) /\ BudgetOf(y) >= BudgetOf(x)
  BY <1>1, AtAmounts, RecAmounts, OwedAmounts
<1>11. ~ Owes(<<>>, "succeeded")
  BY OwedAmounts
<1>. HIDE DEF y, x
<1>12. LinkKnown(s)' /\ PipeClean(s)' /\ DuesKnown(s)'
  BY <1>1, <1>7, <1>8, <1>9, <1>11 DEF LinkKnown, Connected, PipeClean, DuesKnown
<1>. QED BY <1>1, <1>5, <1>6, <1>7, <1>8, <1>10, <1>12, QuietStep DEF x

\* A handshake makes the socket a connection.
LEMMA HandshakeKeeps ==
  ASSUME HttpsInv, NEW s \in Slots, Handshake(s)
  PROVE  HttpsInv'
<1>. DEFINE x == slot[s]
            y == Rec("quota", x.retry, "open", <<>>, <<>>)
<1>1. /\ At(s, "tls") /\ UNCHANGED <<shared, sockets, gaveUp, kept>>
      /\ x \in SlotRecord /\ x.retry \in Retries
      /\ LinkKnown(s) /\ x.pc = "tls" /\ x.owed = <<>> /\ s \notin gaveUp
  BY SlotFacts, AtAmounts DEF Handshake
<1>2. x.link = "socket" /\ x.pipe = <<>>
  BY <1>1 DEF LinkKnown, Connected
<1>3. "quota" \in PCs /\ "open" \in Links /\ <<>> \in Dues /\ <<>> \in Seq(Answers)
  BY DEF PCs, Links, Dues
<1>4. Becomes(s, y)
  <2>1. [x EXCEPT !.pc = "quota", !.link = "open"] = y
    <3>. HIDE DEF x
    <3>. DEFINE z == [x EXCEPT !.pc = "quota", !.link = "open"]
    <3>1. /\ z \in SlotRecord
           /\ z.pc = "quota" /\ z.retry = x.retry /\ z.link = "open"
           /\ z.pipe = <<>> /\ z.owed = <<>>
      BY <1>1, <1>2, <1>3 DEF SlotRecord
    <3>. HIDE DEF z
    <3>. QED BY <3>1, RecordIs DEF z
  <2>. QED BY <2>1 DEF Handshake
<1>5. UnfinishedOf(y) = UnfinishedOf(x) /\ BudgetOf(y) >= BudgetOf(x)
  BY <1>1, AtAmounts, RecAmounts, OwedAmounts
<1>6. ~ Owes(<<>>, "succeeded")
  BY OwedAmounts
<1>. HIDE DEF x
<1>. QED BY <1>1, <1>2, <1>3, <1>4, <1>5, <1>6, LocalStep DEF x

\* A retry owes its count; a slot that gives up owes a request that was never started.
LEMMA UnconnectedKeeps ==
  ASSUME HttpsInv, NEW s \in Slots, Unconnected(s)
  PROVE  HttpsInv'
<1>. DEFINE x == slot[s]
<1>1. /\ At(s, "unconnected") /\ UNCHANGED <<shared, sockets, kept>>
      /\ x \in SlotRecord /\ x.retry \in Retries /\ x.link \in Links /\ x.pipe \in Seq(Answers)
      /\ LinkKnown(s) /\ PipeClean(s) /\ x.pc = "unconnected" /\ x.owed = <<>> /\ s \notin gaveUp
      /\ UnfinishedOf(x) = 0 /\ BudgetOf(x) = x.retry
  BY SlotFacts, AtAmounts DEF Unconnected
<1>2. x.link \in {"none", "socket"} => x.pipe = <<>>
  BY <1>1 DEF LinkKnown, Connected
<1>3. s \notin kept => x.pipe = <<>>
  BY <1>1 DEF PipeClean
<1>4. CASE MayRetry(s)
  <2>. DEFINE r == x.retry + 1
              y == Rec("top", r, x.link, x.pipe, <<"retried">>)
  <2>1. r \in Retries /\ r \in Int
    BY <1>1, <1>4 DEF MayRetry, Retries
  <2>2. "top" \in PCs /\ <<"retried">> \in Dues
    BY DEF PCs, Dues
  <2>3. [x EXCEPT !.pc = "top", !.retry = r, !.owed = <<"retried">>] = y
    <3>. HIDE DEF x, r
    <3>. DEFINE z == [x EXCEPT !.pc = "top", !.retry = r, !.owed = <<"retried">>]
    <3>1. /\ z \in SlotRecord
           /\ z.pc = "top" /\ z.retry = r /\ z.link = x.link
           /\ z.pipe = x.pipe /\ z.owed = <<"retried">>
      BY <1>1, <2>1, <2>2 DEF SlotRecord
    <3>. HIDE DEF z
    <3>. QED BY <3>1, RecordIs DEF z
  <2>4. Becomes(s, y) /\ UNCHANGED gaveUp
    BY <1>4, <2>3 DEF Unconnected
  <2>5. UnfinishedOf(y) = 0 /\ BudgetOf(y) = r - 1
    <3>. HIDE DEF r, x
    <3>. QED BY <2>1, RecAmounts, OwedAmounts
  <2>6. r - 1 = x.retry
    BY <1>1 DEF Retries
  <2>7. x.retry >= x.retry /\ ~ Owes(<<"retried">>, "succeeded")
    BY <1>1, OwedAmounts DEF Retries
  <2>. HIDE DEF x, r
  <2>. QED BY <1>1, <1>2, <1>3, <2>1, <2>2, <2>4, <2>5, <2>6, <2>7, LocalStep DEF x
<1>5. CASE ~ MayRetry(s)
  <2>. DEFINE o == <<"failed", "completed", "sample", "stop">>
              y == Rec("leave", x.retry, x.link, x.pipe, o)
  <2>1. "leave" \in PCs /\ o \in Dues
    BY DEF PCs, Dues
  <2>2. [x EXCEPT !.pc = "leave", !.owed = o] = y
    <3>. HIDE DEF x, o
    <3>. DEFINE z == [x EXCEPT !.pc = "leave", !.owed = o]
    <3>1. /\ z \in SlotRecord
           /\ z.pc = "leave" /\ z.retry = x.retry /\ z.link = x.link
           /\ z.pipe = x.pipe /\ z.owed = o
      BY <1>1, <2>1 DEF SlotRecord
    <3>. HIDE DEF z
    <3>. QED BY <3>1, RecordIs DEF z
  <2>3. Becomes(s, y) /\ gaveUp' = gaveUp \cup {s}
    BY <1>5, <2>2 DEF Unconnected
  <2>4. UnfinishedOf(y) = 1 /\ BudgetOf(y) = x.retry
    <3>1. x.retry \in Int
      BY <1>1 DEF Retries
    <3>. HIDE DEF x
    <3>. QED BY <3>1, RecAmounts, OwedAmounts
  <2>5. /\ count \in [Counter -> Nat] /\ stop \in BOOLEAN /\ slot \in [Slots -> SlotRecord]
        /\ sockets \in [Slots -> Int] /\ gaveUp \subseteq Slots /\ kept \subseteq Slots
        /\ count' = count /\ stop' = stop /\ mpc' = mpc /\ sockets' = sockets /\ kept' = kept
    BY <1>1 DEF HttpsInv, TypeOK, shared
  <2>6. /\ gaveUp' \subseteq Slots /\ \A t \in Slots \ {s} : t \in gaveUp' <=> t \in gaveUp
        /\ Cardinality(gaveUp) \in Int /\ Cardinality(gaveUp') = Cardinality(gaveUp) + 1
    BY <1>1, <2>3, <2>5, FS_AddElement, FS_Subset, FS_CardinalityType
  <2>7. y \in SlotRecord
    BY <1>1, <2>1, RecTypes
  <2>8. slot'[s] = y
    BY <2>3, <2>5 DEF Becomes
  <2>9. y.pc = "leave" /\ y.link = x.link /\ y.pipe = x.pipe /\ y.owed = o
    BY DEF Rec
  <2>10. ~ Owes(o, "succeeded")
    BY OwedAmounts
  <2>. HIDE DEF y, o
  <2>11. LinkKnown(s)' /\ PipeClean(s)' /\ DuesKnown(s)'
    BY <1>1, <1>2, <1>3, <2>5, <2>8, <2>9, <2>10
    DEF LinkKnown, Connected, PipeClean, DuesKnown, Links
  <2>. DEFINE n == Cardinality(gaveUp)
              a == count["started"]
              c == count["completed"]
  <2>12. a \in Int /\ c \in Int /\ n \in Int
    BY <2>5, <2>6 DEF Counter
  <2>. HIDE DEF n, a, c
  <2>13. a + (n + 1) - c - 1 = a + n - c - 0
    BY <2>12
  <2>14. count'["started"] + Cardinality(gaveUp') - count'["completed"] - UnfinishedOf(y)
         = count["started"] + Cardinality(gaveUp) - count["completed"] - UnfinishedOf(slot[s])
    BY <1>1, <2>4, <2>5, <2>6, <2>13 DEF a, c, n
  <2>15. count'["retried"] - kMaxRetryPerSession * count'["succeeded"] - BudgetOf(y)
         <= count["retried"] - kMaxRetryPerSession * count["succeeded"] - BudgetOf(slot[s])
    <3>. DEFINE z == count["retried"] - kMaxRetryPerSession * count["succeeded"] - x.retry
    <3>1. z \in Int
      BY <1>1, <2>5 DEF Counter, Retries
    <3>2. z <= z
      <4>. HIDE DEF z
      <4>. QED BY <3>1
    <3>. QED BY <1>1, <2>4, <2>5, <3>2
  <2>. QED BY <1>1, <2>3, <2>5, <2>6, <2>7, <2>11, <2>14, <2>15, SlotStep
<1>. QED BY <1>4, <1>5

\* A request that is started is one more to finish.
LEMMA AcquireKeeps ==
  ASSUME HttpsInv, NEW s \in Slots, AcquireRequestQuota(s)
  PROVE  HttpsInv'
<1>. DEFINE x == slot[s]
<1>1. /\ At(s, "quota") /\ UNCHANGED <<stop, mpc, sockets, gaveUp, kept>>
      /\ x \in SlotRecord /\ x.retry \in Retries /\ x.link \in Links /\ x.pipe \in Seq(Answers)
      /\ LinkKnown(s) /\ PipeClean(s) /\ x.pc = "quota" /\ x.owed = <<>> /\ s \notin gaveUp
      /\ UnfinishedOf(x) = 0 /\ BudgetOf(x) = x.retry
  BY SlotFacts, AtAmounts DEF AcquireRequestQuota
<1>2. CASE Goes(s, "leave") /\ UNCHANGED count
  <2>1. "leave" \in PCs /\ UNCHANGED <<shared, sockets, gaveUp, kept>>
    BY <1>1, <1>2 DEF PCs, shared
  <2>. QED BY <1>1, <1>2, <2>1, GoesStep
<1>3. CASE Goes(s, "send") /\ count' = [count EXCEPT !["started"] = @ + 1]
  <2>. DEFINE y == Rec("send", x.retry, x.link, x.pipe, <<>>)
  <2>1. "send" \in PCs /\ <<>> \in Dues
    BY DEF PCs, Dues
  <2>2. Becomes(s, y)
    <3>1. [x EXCEPT !.pc = "send"] = y
      <4>. HIDE DEF x
      <4>. QED BY <1>1, <2>1, Updated
    <3>. QED BY <1>3, <3>1 DEF Goes
  <2>3. y \in SlotRecord
    BY <1>1, <2>1, RecTypes
  <2>4. UnfinishedOf(y) = 1 /\ BudgetOf(y) = x.retry
    <3>1. x.retry \in Int
      BY <1>1 DEF Retries
    <3>. HIDE DEF x
    <3>. QED BY <3>1, RecAmounts, OwedAmounts
  <2>5. /\ count \in [Counter -> Nat] /\ stop \in BOOLEAN /\ slot \in [Slots -> SlotRecord]
        /\ sockets \in [Slots -> Int] /\ gaveUp \subseteq Slots /\ kept \subseteq Slots
        /\ stop' = stop /\ mpc' = mpc /\ sockets' = sockets /\ kept' = kept /\ gaveUp' = gaveUp
    BY <1>1 DEF HttpsInv, TypeOK
  <2>6. /\ count' \in [Counter -> Nat]
        /\ count'["started"] = count["started"] + 1
        /\ \A c \in {"completed", "succeeded", "retried"} : count'[c] = count[c]
    BY <1>3, <2>5 DEF Counter
  <2>7. slot'[s] = y
    BY <2>2, <2>5 DEF Becomes
  <2>8. y.pc = "send" /\ y.link = x.link /\ y.pipe = x.pipe /\ y.owed = <<>>
    BY DEF Rec
  <2>9. ~ Owes(<<>>, "succeeded")
    BY OwedAmounts
  <2>. HIDE DEF y
  <2>10. LinkKnown(s)' /\ PipeClean(s)' /\ DuesKnown(s)'
    BY <1>1, <2>5, <2>7, <2>8, <2>9 DEF LinkKnown, Connected, PipeClean, DuesKnown
  <2>. DEFINE n == Cardinality(gaveUp)
              a == count["started"]
              c == count["completed"]
  <2>11. a \in Int /\ c \in Int /\ n \in Int
    BY <2>5, FS_Subset, FS_CardinalityType DEF Counter
  <2>. HIDE DEF n, a, c
  <2>12. (a + 1) + n - c - 1 = a + n - c - 0
    BY <2>11
  <2>13. count'["started"] + Cardinality(gaveUp') - count'["completed"] - UnfinishedOf(y)
         = count["started"] + Cardinality(gaveUp) - count["completed"] - UnfinishedOf(slot[s])
    BY <1>1, <2>4, <2>5, <2>6, <2>12 DEF a, c, n
  <2>14. count'["retried"] - kMaxRetryPerSession * count'["succeeded"] - BudgetOf(y)
         <= count["retried"] - kMaxRetryPerSession * count["succeeded"] - BudgetOf(slot[s])
    <3>. DEFINE z == count["retried"] - kMaxRetryPerSession * count["succeeded"] - x.retry
    <3>1. z \in Int
      BY <1>1, <2>5 DEF Counter, Retries
    <3>2. z <= z
      <4>. HIDE DEF z
      <4>. QED BY <3>1
    <3>. QED BY <1>1, <2>4, <2>6, <3>2
  <2>. QED BY <2>2, <2>3, <2>5, <2>6, <2>10, <2>13, <2>14, SlotStep
<1>. QED BY <1>2, <1>3 DEF AcquireRequestQuota

\* The answer is awaited behind what the connection still owes, which is nothing unless kept.
LEMMA SendOkKeeps ==
  ASSUME HttpsInv, NEW s \in Slots, SendOk(s)
  PROVE  HttpsInv'
<1>. DEFINE x == slot[s]
            q == IF x.link = "open" THEN Append(x.pipe, "mine") ELSE x.pipe
            y == Rec("receive", x.retry, x.link, q, <<>>)
<1>1. /\ At(s, "send") /\ UNCHANGED <<shared, sockets, gaveUp, kept>>
      /\ x \in SlotRecord /\ x.retry \in Retries /\ x.link \in Links /\ x.pipe \in Seq(Answers)
      /\ LinkKnown(s) /\ PipeClean(s) /\ x.pc = "send" /\ x.owed = <<>> /\ s \notin gaveUp
      /\ UnfinishedOf(x) = 1 /\ BudgetOf(x) = x.retry
  BY SlotFacts, AtAmounts DEF SendOk
<1>2. "receive" \in PCs /\ <<>> \in Dues
  BY DEF PCs, Dues
<1>3. q \in Seq(Answers)
  <2>1. "mine" \in Answers
    BY DEF Answers
  <2>. HIDE DEF x
  <2>. QED BY <1>1, <2>1
<1>4. x.link \in {"none", "socket"} => q = <<>>
  BY <1>1 DEF LinkKnown, Connected
<1>5. s \notin kept => q = <<>> \/ q = <<"mine">>
  <2>1. s \notin kept => x.pipe = <<>>
    BY <1>1 DEF PipeClean
  <2>2. Append(<<>>, "mine") = <<"mine">>
    OBVIOUS
  <2>. QED BY <2>1, <2>2
<1>6. Becomes(s, y)
  <2>1. [x EXCEPT !.pc = "receive", !.pipe = q] = y
    <3>. HIDE DEF x, q
    <3>. DEFINE z == [x EXCEPT !.pc = "receive", !.pipe = q]
    <3>1. /\ z \in SlotRecord
           /\ z.pc = "receive" /\ z.retry = x.retry /\ z.link = x.link
           /\ z.pipe = q /\ z.owed = <<>>
      BY <1>1, <1>2, <1>3 DEF SlotRecord
    <3>. HIDE DEF z
    <3>. QED BY <3>1, RecordIs DEF z
  <2>. QED BY <2>1 DEF SendOk
<1>7. UnfinishedOf(y) = 1 /\ BudgetOf(y) = x.retry /\ x.retry >= x.retry
  <2>1. x.retry \in Int
    BY <1>1 DEF Retries
  <2>. HIDE DEF x, q
  <2>. QED BY <2>1, RecAmounts, OwedAmounts
<1>8. ~ Owes(<<>>, "succeeded")
  BY OwedAmounts
<1>. HIDE DEF x, q
<1>. QED BY <1>1, <1>2, <1>3, <1>4, <1>5, <1>6, <1>7, <1>8, LocalStep DEF x

\* A request fails where it is sent.
LEMMA SendFailsKeeps ==
  ASSUME HttpsInv, NEW s \in Slots, SendFails(s)
  PROVE  HttpsInv'
<1>1. /\ At(s, "send") /\ Becomes(s, Ended(s, "failed", slot[s].pipe))
      /\ UNCHANGED <<shared, sockets, gaveUp, kept>>
  BY DEF SendFails
<1>2. slot[s].pipe \in Seq(Answers) /\ (~ Connected(s) => slot[s].pipe = <<>>)
  BY SlotFacts DEF LinkKnown
<1>. QED BY <1>1, <1>2, EndedStep

\* What remains of answers is answers, and of nothing there remains nothing.
LEMMA LeftoverTypes ==
  ASSUME NEW a \in Seq(Answers), NEW left \in Leftovers(a)
  PROVE  left \in Seq(Answers) /\ (a = <<>> => left = <<>>)
<1>1. CASE left \in {SubSeq(a, i, Len(a)) : i \in 1..(Len(a) + 1)}
  <2>1. PICK i \in 1..(Len(a) + 1) : left = SubSeq(a, i, Len(a))
    BY <1>1
  <2>2. left \in Seq(Answers) /\ Len(left) = Len(a) - i + 1
    BY <2>1, SubSeqProperties
  <2>3. a = <<>> => Len(left) = 0
    BY <2>1, <2>2
  <2>. QED BY <2>2, <2>3
<1>2. CASE left \in {<<"rest">> \o SubSeq(a, i + 1, Len(a)) : i \in 1..Len(a)}
  <2>1. PICK i \in 1..Len(a) : left = <<"rest">> \o SubSeq(a, i + 1, Len(a))
    BY <1>2
  <2>2. SubSeq(a, i + 1, Len(a)) \in Seq(Answers)
    BY <2>1, SubSeqProperties
  <2>3. <<"rest">> \in Seq(Answers)
    BY DEF Answers
  <2>4. left \in Seq(Answers)
    BY <2>1, <2>2, <2>3
  <2>5. a # <<>>
    BY <2>1
  <2>. QED BY <2>4, <2>5
<1>. QED BY <1>1, <1>2 DEF Leftovers

\* Unless the connection is kept after a failure, the answer is the one asked for and the last.
LEMMA ReceiveKeeps ==
  ASSUME HttpsInv, NEW s \in Slots, Receive(s)
  PROVE  HttpsInv'
<1>. DEFINE pipe == slot[s].pipe
<1>1. /\ At(s, "receive") /\ UNCHANGED <<shared, gaveUp>> /\ pipe # <<>>
      /\ pipe \in Seq(Answers) /\ LinkKnown(s) /\ PipeClean(s) /\ slot[s].pc = "receive"
  BY SlotFacts, AtAmounts DEF Receive
<1>2. PICK outcome \in {"succeeded", "failed"} :
        \/ Close(s, Ended(s, outcome, <<>>))
        \/ /\ \E left \in Leftovers(Tail(pipe)) : Becomes(s, Ended(s, outcome, left))
           /\ UNCHANGED <<sockets, kept>>
  BY DEF Receive
<1>3. CASE Close(s, Ended(s, outcome, <<>>))
  BY <1>1, <1>3, EndedClosing
<1>4. CASE /\ \E left \in Leftovers(Tail(pipe)) : Becomes(s, Ended(s, outcome, left))
           /\ UNCHANGED <<sockets, kept>>
  <2>1. PICK left \in Leftovers(Tail(pipe)) : Becomes(s, Ended(s, outcome, left))
    BY <1>4
  <2>2. Tail(pipe) \in Seq(Answers)
    <3>. HIDE DEF pipe
    <3>. QED BY <1>1
  <2>3. left \in Seq(Answers) /\ (Tail(pipe) = <<>> => left = <<>>)
    BY <2>1, <2>2, LeftoverTypes
  <2>4. s \notin kept => Tail(pipe) = <<>>
    <3>1. s \notin kept => pipe = <<"mine">>
      BY <1>1 DEF PipeClean
    <3>2. Tail(<<"mine">>) = <<>>
      BY ShortLists
    <3>. QED BY <3>1, <3>2
  <2>5. Connected(s)
    BY <1>1 DEF LinkKnown
  <2>6. UNCHANGED <<shared, sockets, gaveUp, kept>>
    BY <1>1, <1>4
  <2>. QED BY <1>1, <2>1, <2>3, <2>4, <2>5, <2>6, EndedStep
<1>. QED BY <1>2, <1>3, <1>4

\* What the parser has read of an answer that never ends is lost.
LEMMA ReceiveFailsKeeps ==
  ASSUME HttpsInv, NEW s \in Slots, ReceiveFails(s)
  PROVE  HttpsInv'
<1>1. /\ At(s, "receive") /\ UNCHANGED <<shared, sockets, gaveUp, kept>>
      /\ slot[s].pipe \in Seq(Answers) /\ LinkKnown(s)
  BY SlotFacts DEF ReceiveFails
<1>2. PICK left \in Leftovers(slot[s].pipe) : Becomes(s, Ended(s, "failed", left))
  BY DEF ReceiveFails
<1>3. left \in Seq(Answers) /\ (slot[s].pipe = <<>> => left = <<>>)
  BY <1>1, LeftoverTypes
<1>4. ~ Connected(s) => left = <<>>
  BY <1>1, <1>3 DEF LinkKnown
<1>. QED BY <1>1, <1>2, <1>3, <1>4, EndedStep

\* A closed connection owes nothing more.
LEMMA ReceiveEofKeeps ==
  ASSUME HttpsInv, NEW s \in Slots, ReceiveEof(s)
  PROVE  HttpsInv'
<1>1. At(s, "receive") /\ UNCHANGED <<shared, gaveUp>> /\ <<>> \in Seq(Answers)
  BY DEF ReceiveEof
<1>2. PICK outcome \in {"succeeded", "failed"} :
        \/ Becomes(s, Ended(s, outcome, <<>>)) /\ UNCHANGED <<sockets, kept>>
        \/ Close(s, Ended(s, outcome, <<>>))
  BY DEF ReceiveEof
<1>3. CASE Becomes(s, Ended(s, outcome, <<>>)) /\ UNCHANGED <<sockets, kept>>
  <2>1. UNCHANGED <<shared, sockets, gaveUp, kept>>
    BY <1>1, <1>3
  <2>. QED BY <1>1, <1>3, <2>1, EndedStep
<1>4. CASE Close(s, Ended(s, outcome, <<>>))
  BY <1>1, <1>4, EndedClosing
<1>. QED BY <1>2, <1>3, <1>4

\* A retry closes the connection; after the last one it is kept.
LEMMA RetryKeeps ==
  ASSUME HttpsInv, NEW s \in Slots, Retry(s)
  PROVE  HttpsInv'
<1>. DEFINE x == slot[s]
<1>1. /\ At(s, "after") /\ UNCHANGED <<shared, gaveUp>>
      /\ x \in SlotRecord /\ x.retry \in Retries /\ x.link \in Links /\ x.pipe \in Seq(Answers)
      /\ LinkKnown(s) /\ x.pc = "after" /\ x.owed = <<>> /\ s \notin gaveUp
      /\ UnfinishedOf(x) = 0 /\ BudgetOf(x) = x.retry
  BY SlotFacts, AtAmounts DEF Retry
<1>2. "top" \in PCs /\ <<>> \in Dues /\ <<"retried">> \in Dues
  BY DEF PCs, Dues
<1>3. CASE MayRetry(s)
  <2>. DEFINE r == x.retry + 1
              y == Rec("top", r, x.link, x.pipe, <<"retried">>)
  <2>1. r \in Retries /\ r \in Int /\ r - 1 = x.retry /\ x.retry >= x.retry
    BY <1>1, <1>3 DEF MayRetry, Retries
  <2>2. [x EXCEPT !.pc = "top", !.retry = r, !.owed = <<"retried">>] = y
    <3>. HIDE DEF x, r
    <3>. DEFINE z == [x EXCEPT !.pc = "top", !.retry = r, !.owed = <<"retried">>]
    <3>1. /\ z \in SlotRecord
           /\ z.pc = "top" /\ z.retry = r /\ z.link = x.link
           /\ z.pipe = x.pipe /\ z.owed = <<"retried">>
      BY <1>1, <1>2, <2>1 DEF SlotRecord
    <3>. HIDE DEF z
    <3>. QED BY <3>1, RecordIs DEF z
  <2>3. Close(s, [x EXCEPT !.pc = "top", !.retry = r, !.owed = <<"retried">>])
    BY <1>3 DEF Retry, Again
  <2>4. \E z : z = y /\ Close(s, z)
    BY <2>2, <2>3
  <2>5. UnfinishedOf(y) = 0 /\ BudgetOf(y) = r - 1
    <3>. HIDE DEF r, x
    <3>. QED BY <2>1, RecAmounts, OwedAmounts
  <2>6. y \in SlotRecord
    BY <1>1, <1>2, <2>1, RecTypes
  <2>7. y.pc = "top" /\ y.link = x.link /\ y.owed = <<"retried">>
    BY DEF Rec
  <2>8. ~ Owes(<<"retried">>, "succeeded")
    BY OwedAmounts
  <2>. HIDE DEF y, r
  <2>. QED BY <1>1, <2>1, <2>4, <2>5, <2>6, <2>7, <2>8, CloseStep
<1>4. CASE ~ MayRetry(s)
  <2>. DEFINE y == Rec("top", x.retry, x.link, x.pipe, <<>>)
  <2>1. Becomes(s, y) /\ kept' = kept \cup {s} /\ sockets' = sockets
    <3>1. [x EXCEPT !.pc = "top"] = y
      <4>. HIDE DEF x
      <4>. QED BY <1>1, <1>2, Updated
    <3>. QED BY <1>4, <3>1 DEF Retry, Goes
  <2>2. /\ slot \in [Slots -> SlotRecord] /\ sockets \in [Slots -> Int] /\ kept \subseteq Slots
        /\ gaveUp' = gaveUp
    BY <1>1 DEF HttpsInv, TypeOK
  <2>3. y \in SlotRecord
    BY <1>1, <1>2, RecTypes
  <2>4. slot'[s] = y
    BY <2>1, <2>2 DEF Becomes
  <2>5. y.pc = "top" /\ y.link = x.link /\ y.pipe = x.pipe /\ y.owed = <<>>
    BY DEF Rec
  <2>6. UnfinishedOf(y) = 0 /\ BudgetOf(y) = x.retry /\ x.retry >= x.retry
    <3>1. x.retry \in Int
      BY <1>1 DEF Retries
    <3>. HIDE DEF x
    <3>. QED BY <3>1, RecAmounts, OwedAmounts
  <2>7. ~ Owes(<<>>, "succeeded")
    BY OwedAmounts
  <2>. HIDE DEF y
  <2>8. LinkKnown(s)' /\ PipeClean(s)' /\ DuesKnown(s)'
    BY <1>1, <2>1, <2>2, <2>4, <2>5, <2>7 DEF LinkKnown, Connected, PipeClean, DuesKnown
  <2>. QED BY <1>1, <2>1, <2>2, <2>3, <2>6, <2>8, QuietStep
<1>. QED BY <1>3, <1>4

\* The peer closes: some of what it owes is lost.
LEMMA BreaksKeeps ==
  ASSUME HttpsInv, NEW s \in Slots, Breaks(s)
  PROVE  HttpsInv'
<1>. DEFINE x == slot[s]
<1>1. /\ x.link = "open" /\ UNCHANGED <<shared, sockets, gaveUp, kept>>
      /\ x \in SlotRecord /\ x.retry \in Retries /\ x.pipe \in Seq(Answers)
      /\ x.pc \in PCs /\ x.owed \in Dues
      /\ LinkKnown(s) /\ PipeClean(s) /\ DuesKnown(s)
  BY SlotFacts DEF Breaks
<1>2. PICK n \in 0..Len(x.pipe) :
        Becomes(s, [x EXCEPT !.link = "dead", !.pipe = SubSeq(x.pipe, 1, n)])
  BY DEF Breaks
<1>. DEFINE q == SubSeq(x.pipe, 1, n)
            y == Rec(x.pc, x.retry, "dead", q, x.owed)
<1>3. q \in Seq(Answers) /\ Len(q) = n /\ \A i \in 1..n : q[i] = x.pipe[i]
  <2>. HIDE DEF x
  <2>. QED BY <1>1, SubSeqProperties
<1>4. (x.pipe = <<>> => q = <<>>) /\ (x.pipe = <<"mine">> => q = <<>> \/ q = <<"mine">>)
  <2>1. CASE x.pipe = <<>>
    <3>1. Len(q) = 0
      BY <1>3, <2>1
    <3>. QED BY <1>3, <2>1, <3>1
  <2>2. CASE x.pipe = <<"mine">>
    <3>1. n \in {0, 1}
      BY <2>2
    <3>2. CASE n = 0
      <4>. HIDE DEF q
      <4>. QED BY <1>3, <2>2, <3>2
    <3>3. CASE n = 1
      <4>1. q = <<q[1]>> /\ q[1] = "mine"
        <5>. HIDE DEF q
        <5>. QED BY <1>3, <2>2, <3>3
      <4>. HIDE DEF q
      <4>. QED BY <2>2, <4>1
    <3>. QED BY <3>1, <3>2, <3>3
  <2>. QED BY <2>1, <2>2
<1>5. "dead" \in Links
  BY DEF Links
<1>6. Becomes(s, y)
  <2>1. [x EXCEPT !.link = "dead", !.pipe = q] = y
    <3>. HIDE DEF x, q
    <3>. DEFINE z == [x EXCEPT !.link = "dead", !.pipe = q]
    <3>1. /\ z \in SlotRecord
           /\ z.pc = x.pc /\ z.retry = x.retry /\ z.link = "dead" /\ z.pipe = q /\ z.owed = x.owed
      BY <1>1, <1>3, <1>5 DEF SlotRecord
    <3>. HIDE DEF z
    <3>. QED BY <3>1, RecordIs DEF z
  <2>. QED BY <1>2, <2>1
<1>7. s \notin kept => x.pc = "after" \/ q = <<>> \/ (x.pc = "receive" /\ q = <<"mine">>)
  BY <1>1, <1>4 DEF PipeClean
<1>8. x.pc \notin {"tls"} \cup Unlinked
  BY <1>1 DEF LinkKnown
<1>9. (Owes(x.owed, "succeeded") => x.retry = 0) /\ (s \in gaveUp => x.pc \in {"leave", "exited"})
  BY <1>1 DEF DuesKnown
<1>10. UnfinishedOf(y) = UnfinishedOf(x) /\ BudgetOf(y) = BudgetOf(x) /\ BudgetOf(x) \in Int
  <2>1. UnfinishedOf(y) = UnfinishedOf(x) /\ BudgetOf(y) = BudgetOf(x)
    BY DEF UnfinishedOf, BudgetOf, Rec
  <2>. QED BY <1>1, <2>1, AmountTypes
<1>11. BudgetOf(y) >= BudgetOf(x)
  BY <1>10
<1>12. /\ "dead" = "none" <=> x.link = "none"
       /\ x.pc \in Unlinked => "dead" = "none"
       /\ x.pc = "tls" => "dead" = "socket"
       /\ "dead" \in {"none", "socket"} => q = <<>>
  BY <1>1, <1>8
<1>13. x.pc \in PCs /\ x.retry \in Retries /\ x.owed \in Dues
       /\ UNCHANGED <<shared, sockets, gaveUp, kept>>
  BY <1>1
<1>14. slot[s] = x
  OBVIOUS
<1>. HIDE DEF x, q
<1>. QED BY <1>3, <1>5, <1>6, <1>7, <1>9, <1>10, <1>11, <1>12, <1>13, <1>14, LocalStep

-----------------------------------------------------------------------------
(* The theorems *)

\* Steps of the main thread touch no slot and no counter.
LEMMA MainKeeps ==
  ASSUME HttpsInv, UNCHANGED <<count, slot, sockets, gaveUp, kept>>,
         stop' \in BOOLEAN, mpc' \in {"loop", "join", "done"}
  PROVE  HttpsInv'
<1>1. TypeOK'
  BY DEF HttpsInv, TypeOK
<1>2. SlotInv'
  BY OthersKeep DEF HttpsInv, SlotInv
<1>3. EveryRequestAccounted' /\ RetriesPaid'
  BY DEF HttpsInv, EveryRequestAccounted, RetriesPaid, Unfinished, Budget
<1>. QED BY <1>1, <1>2, <1>3 DEF HttpsInv

\* Initially no slot has begun.
LEMMA HttpsInit == Init => HttpsInv
<1>. SUFFICES ASSUME Init PROVE HttpsInv
  OBVIOUS
<1>. DEFINE x == NewSlot
<1>1. /\ x \in SlotRecord /\ x.pc = "init" /\ x.link = "none" /\ x.pipe = <<>> /\ x.owed = <<>>
      /\ x.retry = 0
  BY DEF NewSlot, SlotRecord, PCs, Retries, Links, Dues
<1>. HIDE DEF x
<1>2. /\ slot \in [Slots -> SlotRecord] /\ \A s \in Slots : slot[s] = x
      /\ sockets \in [Slots -> Int] /\ \A s \in Slots : sockets[s] = 0
      /\ gaveUp = {} /\ kept = {}
  BY <1>1 DEF Init, x
<1>3. /\ count \in [Counter -> Nat]
      /\ count["started"] = 0 /\ count["completed"] = 0
      /\ count["retried"] = 0 /\ count["succeeded"] = 0
  BY DEF Init, Counter
<1>4. TypeOK
  BY <1>2, <1>3 DEF Init, TypeOK
<1>5. ~ Owes(<<>>, "succeeded")
  BY OwedAmounts
<1>6. SlotInv
  BY <1>1, <1>2, <1>5 DEF SlotInv, LinkKnown, PipeClean, DuesKnown, Connected
<1>7. UnfinishedOf(x) = 0 /\ BudgetOf(x) = 0
  BY <1>1, OwedAmounts DEF UnfinishedOf, BudgetOf
<1>8. EveryRequestAccounted
  <2>. DEFINE f == [s \in Slots |-> Unfinished(s)]
  <2>1. f \in [Slots -> Int] /\ \A s \in Slots : f[s] = 0
    BY <1>2, <1>7, SlotAmounts
  <2>. HIDE DEF f
  <2>2. SumFunction(f) = 0
    BY <2>1, SumZero
  <2>. QED BY <1>2, <1>3, <2>2, FS_EmptySet DEF EveryRequestAccounted, f
<1>9. RetriesPaid
  <2>. DEFINE f == [s \in Slots |-> Budget(s)]
  <2>1. f \in [Slots -> Int] /\ \A s \in Slots : f[s] = 0
    BY <1>2, <1>7, SlotAmounts
  <2>. HIDE DEF f
  <2>2. SumFunction(f) = 0
    BY <2>1, SumZero
  <2>. QED BY <1>3, <2>2 DEF RetriesPaid, f
<1>. QED BY <1>4, <1>6, <1>8, <1>9 DEF HttpsInv

\* The invariant holds in every reachable state, whatever the slots, the network and the main
\* thread do in which order (engine.cpp:369-455, ssl.cpp:126-386).
THEOREM HttpsInvariant == Spec => []HttpsInv
<1>1. Init => HttpsInv
  BY HttpsInit
<1>2. HttpsInv /\ [Next]_vars => HttpsInv'
  <2>. SUFFICES ASSUME HttpsInv, [Next]_vars PROVE HttpsInv'
    OBVIOUS
  <2>1. ASSUME NEW s \in Slots, SlotNext(s) PROVE HttpsInv'
    <3>1. CASE Pay(s)
      BY <3>1, PayKeeps
    <3>2. CASE InitTls(s)
      BY <3>2, InitTlsKeeps
    <3>3. CASE LoopTop(s)
      BY <3>3, LoopTopKeeps
    <3>4. CASE Connect(s)
      BY <3>4, ConnectKeeps
    <3>5. CASE ConnectTcp(s)
      BY <3>5, ConnectTcpKeeps
    <3>6. CASE ConnectTcpWithoutSocket(s)
      BY <3>6, ConnectTcpWithoutSocketKeeps
    <3>7. CASE Handshake(s)
      BY <3>7, HandshakeKeeps
    <3>8. CASE HandshakeFails(s)
      BY <3>8, HandshakeFailsKeeps
    <3>9. CASE Unconnected(s)
      BY <3>9, UnconnectedKeeps
    <3>10. CASE AcquireRequestQuota(s)
      BY <3>10, AcquireKeeps
    <3>11. CASE SendOk(s)
      BY <3>11, SendOkKeeps
    <3>12. CASE SendFails(s)
      BY <3>12, SendFailsKeeps
    <3>13. CASE Receive(s)
      BY <3>13, ReceiveKeeps
    <3>14. CASE ReceiveFails(s)
      BY <3>14, ReceiveFailsKeeps
    <3>15. CASE ReceiveEof(s)
      BY <3>15, ReceiveEofKeeps
    <3>16. CASE Retry(s)
      BY <3>16, RetryKeeps
    <3>17. CASE Leave(s)
      BY <3>17, LeaveKeeps
    <3>. QED BY <2>1, <3>1, <3>2, <3>3, <3>4, <3>5, <3>6, <3>7, <3>8, <3>9, <3>10, <3>11, <3>12,
                <3>13, <3>14, <3>15, <3>16, <3>17 DEF SlotNext
  <2>2. ASSUME NEW s \in Slots, Breaks(s) PROVE HttpsInv'
    BY <2>2, BreaksKeeps
  <2>3. CASE MainStop
    BY <2>3, MainKeeps DEF MainStop
  <2>4. CASE Join
    BY <2>4, MainKeeps DEF Join, HttpsInv, TypeOK
  <2>5. CASE UNCHANGED vars
    BY <2>5, MainKeeps DEF vars, shared, HttpsInv, TypeOK
  <2>. QED BY <2>1, <2>2, <2>3, <2>4, <2>5 DEF Next, MainWaits, Terminated
<1>. QED BY <1>1, <1>2, PTL DEF Spec

\* No request is lost and none is counted twice, for any number of slots
\* (engine.cpp:393-413, 417-440).
THEOREM RequestsAccounted == Spec => []EveryRequestAccounted
<1>1. HttpsInv => EveryRequestAccounted
  BY DEF HttpsInv
<1>. QED BY <1>1, HttpsInvariant, PTL

\* The retries stay within the budget: each slot has kMaxRetryPerSession of them, and as many
\* again for each of its requests that succeeded (engine.cpp:399-413, 431-447).
THEOREM RetriesWithinBudget == Spec => []RetryBudget
<1>1. HttpsInv => RetryBudget
  <2>. SUFFICES ASSUME HttpsInv PROVE RetryBudget
    OBVIOUS
  <2>. DEFINE f == [s \in Slots |-> Budget(s)]
              g == [s \in Slots |-> kMaxRetryPerSession]
  <2>1. ASSUME NEW s \in Slots PROVE Budget(s) \in Int /\ Budget(s) <= kMaxRetryPerSession
    <3>1. slot[s].retry \in Retries /\ DuesKnown(s)
      BY SlotFacts
    <3>. QED BY <3>1 DEF Budget, DuesKnown, Retries
  <2>2. /\ f \in [Slots -> Int] /\ g \in [Slots -> Int]
        /\ \A s \in Slots : f[s] <= g[s] /\ g[s] = kMaxRetryPerSession
    BY <2>1
  <2>3. count["retried"] <= kMaxRetryPerSession * count["succeeded"] + SumFunction(f)
    BY DEF HttpsInv, RetriesPaid
  <2>. HIDE DEF f, g
  <2>4. /\ SumFunction(f) \in Int /\ SumFunction(g) \in Int
        /\ SumFunction(f) <= SumFunction(g)
    BY <2>2, SumOrder
  <2>5. SumFunction(g) = kMaxRetryPerSession * Cardinality(Slots)
    BY <2>2, SumConstant
  <2>6. count["retried"] \in Int /\ count["succeeded"] \in Int /\ Cardinality(Slots) \in Int
    BY FS_CardinalityType DEF HttpsInv, TypeOK, Counter
  <2>. DEFINE k == kMaxRetryPerSession * Cardinality(Slots)
              m == kMaxRetryPerSession * count["succeeded"]
  <2>7. kMaxRetryPerSession * (Cardinality(Slots) + count["succeeded"]) = k + m
    BY <2>6
  <2>8. k \in Int /\ m \in Int
    BY <2>6
  <2>9. SumFunction(g) = k /\ count["retried"] <= m + SumFunction(f)
    BY <2>3, <2>5
  <2>. HIDE DEF k, m
  <2>10. count["retried"] <= k + m
    BY <2>4, <2>6, <2>8, <2>9
  <2>. QED BY <2>7, <2>10 DEF RetryBudget
<1>. QED BY <1>1, HttpsInvariant, PTL

\* A slot reads only the answer to its own request, unless it goes on with a connection its last
\* retry has failed on (engine.cpp:441-447, ssl.cpp:305-307).
THEOREM AnswersAreOwn == Spec => []AnswersMatch
<1>1. HttpsInv => AnswersMatch
  BY DEF HttpsInv, SlotInv, PipeClean, AnswersMatch
<1>. QED BY <1>1, HttpsInvariant, PTL

\* No descriptor leaks and none is closed twice (ssl.cpp:126-169, 311-323, 341-386).
THEOREM NothingLeaks == Spec => []NoDescriptorLeaks
<1>1. HttpsInv => NoDescriptorLeaks
  BY DEF HttpsInv, SlotInv, LinkKnown, NoDescriptorLeaks
<1>. QED BY <1>1, HttpsInvariant, PTL

-----------------------------------------------------------------------------
(* The report *)

One(b) == IF b THEN 1 ELSE 0

\* By how much what a slot owes will bring the outcomes, and the samples, closer to the requests
\* completed.
ResultsDue(o) == One(Owes(o, "succeeded") \/ Owes(o, "failed")) - One(Owes(o, "completed"))
SamplesDue(o) == One(Owes(o, "sample")) - One(Owes(o, "completed"))

\* The counters agree but for what the slots still owe.
CountersAgree ==
  /\ count["completed"] = count["succeeded"] + count["failed"]
                            + SumFunction([s \in Slots |-> ResultsDue(slot[s].owed)])
  /\ count["completed"] = count["sample"]
                            + SumFunction([s \in Slots |-> SamplesDue(slot[s].owed)])

\* A slot that is to raise stop has given the run up, and stop is raised for nothing else but
\* that the requests are completed; the main thread is done only after the slots.
StopKnown ==
  /\ count["started"] <= Requests
  /\ \A s \in Slots : Owes(slot[s].owed, "stop") => s \in gaveUp \/ slot[s].pc = "failed"
  /\ stop \/ mpc # "loop" => Aborted \/ ReachedEnd
  /\ mpc = "done" => \A s \in Slots : Over(s)

ReportInv == CountersAgree /\ StopKnown

\* Their types, and that a slot that owes nothing, or what a step makes it owe, changes neither.
LEMMA DuesTypes ==
  /\ \A o : ResultsDue(o) \in Int /\ SamplesDue(o) \in Int
  /\ ResultsDue(<<>>) = 0 /\ SamplesDue(<<>>) = 0
  BY ShortLists DEF ResultsDue, SamplesDue, One

\* What a step other than a payment may make a slot owe.
Fresh == {<<>>, <<"stop">>, <<"retried">>, <<"failed", "completed", "sample", "stop">>,
          Result("succeeded"), Result("failed")}

\* It owes an outcome and a sample for each request it is to complete, and stop only giving up.
LEMMA FreshDues ==
  ASSUME NEW o \in Fresh
  PROVE  /\ ResultsDue(o) = 0 /\ SamplesDue(o) = 0
         /\ Owes(o, "stop") => o \in {<<"stop">>, <<"failed", "completed", "sample", "stop">>}
<1>. DEFINE Even(l) == ResultsDue(l) = 0 /\ SamplesDue(l) = 0
<1>1. Even(<<>>) /\ ~ Owes(<<>>, "stop")
  BY ShortLists DEF ResultsDue, SamplesDue, One
<1>2. Even(<<"stop">>)
  BY ShortLists DEF ResultsDue, SamplesDue, One
<1>3. Even(<<"retried">>) /\ ~ Owes(<<"retried">>, "stop")
  BY ShortLists DEF ResultsDue, SamplesDue, One
<1>4. Even(<<"failed", "completed", "sample", "stop">>)
  BY ShortLists DEF ResultsDue, SamplesDue, One
<1>5. Even(Result("succeeded")) /\ ~ Owes(Result("succeeded"), "stop")
  BY ShortLists DEF Result, ResultsDue, SamplesDue, One
<1>6. Even(Result("failed")) /\ ~ Owes(Result("failed"), "stop")
  BY ShortLists DEF Result, ResultsDue, SamplesDue, One
<1>. HIDE DEF Even
<1>7. /\ Even(o)
      /\ Owes(o, "stop") => o \in {<<"stop">>, <<"failed", "completed", "sample", "stop">>}
  BY <1>1, <1>2, <1>3, <1>4, <1>5, <1>6 DEF Fresh
<1>. QED BY <1>7 DEF Even

\* What a payment brings the counters, it takes from what is due.
LEMMA DuesPaid ==
  ASSUME NEW o \in Dues, o # <<>>
  PROVE  /\ ResultsDue(o) = ResultsDue(Tail(o)) + One(Head(o) \in {"succeeded", "failed"})
                              - One(Head(o) = "completed")
         /\ SamplesDue(o) = SamplesDue(Tail(o)) + One(Head(o) = "sample")
                              - One(Head(o) = "completed")
         /\ Head(o) = "stop" => Owes(o, "stop")
         /\ Owes(Tail(o), "stop") => Owes(o, "stop")
<1>. DEFINE Paid(l, h, t) ==
       /\ Tail(l) = t /\ Head(l) = h
       /\ ResultsDue(l) = ResultsDue(t) + One(h \in {"succeeded", "failed"}) - One(h = "completed")
       /\ SamplesDue(l) = SamplesDue(t) + One(h = "sample") - One(h = "completed")
       /\ (h = "stop" => Owes(l, "stop")) /\ (Owes(t, "stop") => Owes(l, "stop"))
<1>1. Paid(<<"stop">>, "stop", <<>>)
  BY ShortLists DEF ResultsDue, SamplesDue, One
<1>2. Paid(<<"retried">>, "retried", <<>>)
  BY ShortLists DEF ResultsDue, SamplesDue, One
<1>3. Paid(<<"sample">>, "sample", <<>>)
  BY ShortLists DEF ResultsDue, SamplesDue, One
<1>4. Paid(<<"sample", "stop">>, "sample", <<"stop">>)
  BY ShortLists DEF ResultsDue, SamplesDue, One
<1>5. Paid(<<"completed", "sample", "stop">>, "completed", <<"sample", "stop">>)
  BY ShortLists DEF ResultsDue, SamplesDue, One
<1>6. Paid(<<"failed", "completed", "sample", "stop">>, "failed", <<"completed", "sample", "stop">>)
  BY ShortLists DEF ResultsDue, SamplesDue, One
<1>7. Paid(<<"succeeded", "sample">>, "succeeded", <<"sample">>)
  BY ShortLists DEF ResultsDue, SamplesDue, One
<1>8. Paid(<<"failed", "sample">>, "failed", <<"sample">>)
  BY ShortLists DEF ResultsDue, SamplesDue, One
<1>9. Paid(<<"completed", "succeeded", "sample">>, "completed", <<"succeeded", "sample">>)
  BY ShortLists DEF ResultsDue, SamplesDue, One
<1>10. Paid(<<"completed", "failed", "sample">>, "completed", <<"failed", "sample">>)
  BY ShortLists DEF ResultsDue, SamplesDue, One
<1>11. PICK h, t : Paid(o, h, t)
  <2>. HIDE DEF Paid
  <2>. QED BY <1>1, <1>2, <1>3, <1>4, <1>5, <1>6, <1>7, <1>8, <1>9, <1>10 DEF Dues
<1>. QED BY <1>11

\* One slot changes, and with it what is due.
LEMMA CountersStep ==
  ASSUME TypeOK, TypeOK', CountersAgree, NEW s \in Slots,
         \A t \in Slots \ {s} : slot'[t] = slot[t],
         count'["completed"] - count'["succeeded"] - count'["failed"] - ResultsDue(slot'[s].owed)
           = count["completed"] - count["succeeded"] - count["failed"] - ResultsDue(slot[s].owed),
         count'["completed"] - count'["sample"] - SamplesDue(slot'[s].owed)
           = count["completed"] - count["sample"] - SamplesDue(slot[s].owed)
  PROVE  CountersAgree'
<1>. DEFINE f == [t \in Slots |-> ResultsDue(slot[t].owed)]
            g == [t \in Slots |-> ResultsDue(slot'[t].owed)]
            h == [t \in Slots |-> SamplesDue(slot[t].owed)]
            k == [t \in Slots |-> SamplesDue(slot'[t].owed)]
<1>1. f \in [Slots -> Int] /\ g \in [Slots -> Int] /\ h \in [Slots -> Int] /\ k \in [Slots -> Int]
  BY DuesTypes
<1>2. /\ \A t \in Slots \ {s} : g[t] = f[t] /\ k[t] = h[t]
      /\ f[s] = ResultsDue(slot[s].owed) /\ g[s] = ResultsDue(slot'[s].owed)
      /\ h[s] = SamplesDue(slot[s].owed) /\ k[s] = SamplesDue(slot'[s].owed)
  OBVIOUS
<1>3. /\ count["completed"] = count["succeeded"] + count["failed"] + SumFunction(f)
      /\ count["completed"] = count["sample"] + SumFunction(h)
  BY DEF CountersAgree
<1>5. /\ count'["completed"] = count'["succeeded"] + count'["failed"] + SumFunction(g)
      /\ count'["completed"] = count'["sample"] + SumFunction(k)
     => CountersAgree'
  BY DEF CountersAgree
<1>. HIDE DEF f, g, h, k
<1>6. /\ SumFunction(f) \in Int /\ SumFunction(g) = SumFunction(f) + (g[s] - f[s])
      /\ SumFunction(h) \in Int /\ SumFunction(k) = SumFunction(h) + (k[s] - h[s])
  BY <1>1, <1>2, SumChange
<1>7. \A c \in {"completed", "succeeded", "failed", "sample"} :
        count[c] \in Int /\ count'[c] \in Int
  BY DEF TypeOK, Counter
<1>8. f[s] \in Int /\ g[s] \in Int /\ h[s] \in Int /\ k[s] \in Int
  BY <1>1
<1>9. PICK a, b, c, d : /\ a = count["completed"] /\ b = count["succeeded"]
                        /\ c = count["failed"] /\ d = count["sample"]
  OBVIOUS
<1>10. PICK aa, bb, cc, dd : /\ aa = count'["completed"] /\ bb = count'["succeeded"]
                            /\ cc = count'["failed"] /\ dd = count'["sample"]
  OBVIOUS
<1>11. /\ a \in Int /\ b \in Int /\ c \in Int /\ d \in Int
       /\ aa \in Int /\ bb \in Int /\ cc \in Int /\ dd \in Int
  BY <1>7, <1>9, <1>10
<1>12. /\ a = b + c + SumFunction(f) /\ a = d + SumFunction(h)
       /\ aa - bb - cc - g[s] = a - b - c - f[s]
       /\ aa - dd - k[s] = a - d - h[s]
  BY <1>2, <1>3, <1>9, <1>10
<1>13. aa = bb + cc + SumFunction(g) /\ aa = dd + SumFunction(k)
  <2>1. PICK F, G, H, K : F = f[s] /\ G = g[s] /\ H = h[s] /\ K = k[s]
    OBVIOUS
  <2>2. PICK S, T, U, V : /\ S = SumFunction(f) /\ T = SumFunction(g)
                          /\ U = SumFunction(h) /\ V = SumFunction(k)
    OBVIOUS
  <2>3. /\ F \in Int /\ G \in Int /\ H \in Int /\ K \in Int /\ S \in Int /\ U \in Int
        /\ T = S + (G - F) /\ V = U + (K - H)
        /\ a = b + c + S /\ a = d + U
        /\ aa - bb - cc - G = a - b - c - F
        /\ aa - dd - K = a - d - H
    BY <1>6, <1>8, <1>12, <2>1, <2>2
  <2>4. aa = bb + cc + T
    BY <1>11, <2>3
  <2>5. aa = dd + V
    BY <1>11, <2>3
  <2>. QED BY <2>2, <2>4, <2>5
<1>. QED BY <1>5, <1>9, <1>10, <1>13

\* A step of one slot keeps the report's invariant, if what it owes changes as the counters do,
\* and it gives the run up where it raises stop or is to raise it.
LEMMA ReportStep ==
  ASSUME HttpsInv, HttpsInv', ReportInv, NEW s \in Slots, ~ Over(s), UNCHANGED mpc,
         \A t \in Slots \ {s} : slot'[t] = slot[t],
         count'["completed"] - count'["succeeded"] - count'["failed"] - ResultsDue(slot'[s].owed)
           = count["completed"] - count["succeeded"] - count["failed"] - ResultsDue(slot[s].owed),
         count'["completed"] - count'["sample"] - SamplesDue(slot'[s].owed)
           = count["completed"] - count["sample"] - SamplesDue(slot[s].owed),
         count'["started"] <= Requests, count["completed"] <= count'["completed"],
         gaveUp \subseteq gaveUp', slot[s].pc = "failed" => slot'[s].pc = "failed",
         Owes(slot'[s].owed, "stop") => s \in gaveUp' \/ slot'[s].pc = "failed",
         stop' => stop \/ s \in gaveUp' \/ slot'[s].pc = "failed"
  PROVE  ReportInv'
<1>1. CountersAgree'
  BY CountersStep DEF HttpsInv, ReportInv
<1>2. Aborted => Aborted'
  BY DEF Aborted
<1>3. s \in gaveUp' \/ slot'[s].pc = "failed" => Aborted'
  BY DEF Aborted
<1>4. ReachedEnd => ReachedEnd'
  <2>1. count["completed"] \in Int /\ count'["completed"] \in Int
    BY DEF HttpsInv, TypeOK, Counter
  <2>. QED BY <2>1 DEF ReachedEnd
<1>5. \A t \in Slots : Owes(slot'[t].owed, "stop") => t \in gaveUp' \/ slot'[t].pc = "failed"
  BY DEF ReportInv, StopKnown
<1>6. stop' \/ mpc' # "loop" => Aborted' \/ ReachedEnd'
  BY <1>2, <1>3, <1>4 DEF ReportInv, StopKnown
<1>7. mpc' # "done"
  BY DEF ReportInv, StopKnown
<1>. QED BY <1>1, <1>5, <1>6, <1>7 DEF ReportInv, StopKnown

\* A step of a slot other than a payment: it has paid what it owed before.
OwesAnew(s) ==
  /\ At(s, slot[s].pc) /\ ~ Over(s) /\ UNCHANGED <<stop, mpc>>
  /\ \A t \in Slots \ {s} : slot'[t] = slot[t]
  /\ slot'[s].owed \in Fresh
  /\ Owes(slot'[s].owed, "stop") => s \in gaveUp' \/ slot'[s].pc = "failed"
  /\ gaveUp \subseteq gaveUp'
  /\ count'["started"] <= Requests
  /\ \A c \in Counter \ {"started"} : count'[c] = count[c]

\* The counters stay as they are, and what the slot owes evens out.
LEMMA AnewKeeps ==
  ASSUME HttpsInv, HttpsInv', ReportInv, NEW s \in Slots, OwesAnew(s)
  PROVE  ReportInv'
<1>1. /\ slot[s].owed = <<>> /\ ~ Over(s) /\ slot[s].pc # "failed"
      /\ UNCHANGED mpc /\ stop' = stop
  BY DEF OwesAnew, At, Over
<1>2. /\ ResultsDue(slot[s].owed) = 0 /\ ResultsDue(slot'[s].owed) = 0
      /\ SamplesDue(slot[s].owed) = 0 /\ SamplesDue(slot'[s].owed) = 0
  BY <1>1, DuesTypes, FreshDues DEF OwesAnew
<1>3. \A c \in {"completed", "succeeded", "failed", "sample"} : count'[c] = count[c]
  BY DEF OwesAnew, Counter
<1>4. count["completed"] \in Int
  BY DEF HttpsInv, TypeOK, Counter
<1>5. /\ count'["completed"] - count'["succeeded"] - count'["failed"] - ResultsDue(slot'[s].owed)
           = count["completed"] - count["succeeded"] - count["failed"] - ResultsDue(slot[s].owed)
      /\ count'["completed"] - count'["sample"] - SamplesDue(slot'[s].owed)
           = count["completed"] - count["sample"] - SamplesDue(slot[s].owed)
      /\ count["completed"] <= count'["completed"]
  BY <1>2, <1>3, <1>4
<1>. QED BY <1>1, <1>5, ReportStep DEF OwesAnew

\* Where a slot's record x comes from the one before, and the connection may be closed as well.
LEMMA Became ==
  ASSUME HttpsInv, NEW s \in Slots, NEW x, DOMAIN x = DOMAIN slot[s],
         Becomes(s, x) \/ Close(s, x)
  PROVE  /\ slot'[s].pc = x.pc /\ slot'[s].owed = x.owed
         /\ \A t \in Slots \ {s} : slot'[t] = slot[t]
<1>1. slot \in [Slots -> SlotRecord]
  BY DEF HttpsInv, TypeOK
<1>2. DOMAIN slot[s] = {"pc", "retry", "link", "pipe", "owed"}
  BY <1>1 DEF SlotRecord
<1>. DEFINE y == [x EXCEPT !.link = "none", !.pipe = <<>>]
<1>3. y.pc = x.pc /\ y.owed = x.owed
  BY <1>2
<1>4. Becomes(s, x) \/ Becomes(s, y)
  BY DEF Close
<1>. HIDE DEF y
<1>. QED BY <1>1, <1>3, <1>4 DEF Becomes

\* The records the steps make have the fields of a slot's record.
LEMMA SlotFields ==
  ASSUME NEW x \in SlotRecord
  PROVE  DOMAIN x = {"pc", "retry", "link", "pipe", "owed"}
  BY DEF SlotRecord

\* The step is one of those, if the slot becomes a record that owes something fresh.
LEMMA AnewBy ==
  ASSUME HttpsInv, ReportInv, NEW s \in Slots, NEW pc, At(s, pc), pc \notin {"exited", "failed"},
         UNCHANGED shared, gaveUp \subseteq gaveUp',
         NEW x, DOMAIN x = DOMAIN slot[s], Becomes(s, x) \/ Close(s, x), x.owed \in Fresh,
         Owes(x.owed, "stop") => s \in gaveUp' \/ x.pc = "failed"
  PROVE  OwesAnew(s)
<1>1. /\ slot'[s].pc = x.pc /\ slot'[s].owed = x.owed
      /\ \A t \in Slots \ {s} : slot'[t] = slot[t]
  BY Became
<1>2. At(s, slot[s].pc) /\ ~ Over(s)
  BY DEF At, Over
<1>3. count' = count /\ stop' = stop /\ mpc' = mpc
  BY DEF shared
<1>4. count["started"] <= Requests
  BY DEF ReportInv, StopKnown
<1>. QED BY <1>1, <1>2, <1>3, <1>4 DEF OwesAnew

\* Going elsewhere, it owes nothing.
LEMMA AnewGoing ==
  ASSUME HttpsInv, ReportInv, NEW s \in Slots, NEW pc, At(s, pc), pc \notin {"exited", "failed"},
         UNCHANGED <<shared, gaveUp>>,
         NEW p, NEW x, x = [slot[s] EXCEPT !.pc = p], Becomes(s, x) \/ Close(s, x)
  PROVE  OwesAnew(s)
<1>1. DOMAIN slot[s] = {"pc", "retry", "link", "pipe", "owed"}
  BY SlotFacts, SlotFields
<1>2. DOMAIN x = DOMAIN slot[s] /\ x.owed = slot[s].owed
  BY <1>1
<1>3. x.owed = <<>> /\ x.owed \in Fresh /\ ~ Owes(x.owed, "stop")
  BY <1>2, ShortLists DEF At, Fresh
<1>4. gaveUp \subseteq gaveUp'
  OBVIOUS
<1>. QED BY <1>2, <1>3, <1>4, AnewBy

\* A request that ends leaves its result.
LEMMA AnewEnded ==
  ASSUME HttpsInv, ReportInv, NEW s \in Slots, NEW pc \in {"send", "receive"}, At(s, pc),
         UNCHANGED <<shared, gaveUp>>, NEW outcome \in {"succeeded", "failed"}, NEW pipe,
         \/ Becomes(s, Ended(s, outcome, pipe))
         \/ Close(s, Ended(s, outcome, pipe))
  PROVE  OwesAnew(s)
<1>. DEFINE x == Ended(s, outcome, pipe)
<1>1. DOMAIN slot[s] = {"pc", "retry", "link", "pipe", "owed"}
  BY SlotFacts, SlotFields
<1>2. DOMAIN x = DOMAIN slot[s] /\ x.owed = Result(outcome)
  BY <1>1 DEF Ended
<1>3. Becomes(s, x) \/ Close(s, x)
  OBVIOUS
<1>. HIDE DEF x
<1>4. x.owed \in Fresh
  BY <1>2 DEF Fresh
<1>5. ~ Owes(x.owed, "stop")
  BY <1>2, <1>4, ShortLists DEF Result
<1>6. gaveUp \subseteq gaveUp' /\ pc \notin {"exited", "failed"} /\ UNCHANGED shared
  OBVIOUS
<1>. QED BY <1>2, <1>3, <1>4, <1>5, <1>6, AnewBy

\* The steps that go from one place to another.
LEMMA GoingAnew ==
  ASSUME HttpsInv, ReportInv, NEW s \in Slots,
         \/ LoopTop(s) \/ Connect(s) \/ ConnectTcpWithoutSocket(s) \/ HandshakeFails(s) \/ Leave(s)
  PROVE  OwesAnew(s)
<1>1. CASE LoopTop(s)
  BY <1>1, AnewGoing DEF LoopTop, Goes
<1>2. CASE Connect(s)
  BY <1>2, AnewGoing DEF Connect
<1>3. CASE ConnectTcpWithoutSocket(s)
  BY <1>3, AnewGoing DEF ConnectTcpWithoutSocket, Goes
<1>4. CASE HandshakeFails(s)
  BY <1>4, AnewGoing DEF HandshakeFails
<1>5. CASE Leave(s)
  BY <1>5, AnewGoing DEF Leave
<1>. QED BY <1>1, <1>2, <1>3, <1>4, <1>5

\* The steps that end a request.
LEMMA EndingAnew ==
  ASSUME HttpsInv, ReportInv, NEW s \in Slots,
         SendFails(s) \/ Receive(s) \/ ReceiveFails(s) \/ ReceiveEof(s)
  PROVE  OwesAnew(s)
<1>1. CASE SendFails(s)
  BY <1>1, AnewEnded DEF SendFails
<1>2. CASE Receive(s)
  BY <1>2, AnewEnded DEF Receive
<1>3. CASE ReceiveFails(s)
  BY <1>3, AnewEnded DEF ReceiveFails
<1>4. CASE ReceiveEof(s)
  BY <1>4, AnewEnded DEF ReceiveEof
<1>. QED BY <1>1, <1>2, <1>3, <1>4

\* The other steps: the TLS library, the socket, the handshake, the quota, the request, the retry.
LEMMA OthersAnew ==
  ASSUME HttpsInv, ReportInv, NEW s \in Slots,
         \/ InitTls(s) \/ ConnectTcp(s) \/ Handshake(s) \/ Unconnected(s)
         \/ AcquireRequestQuota(s) \/ SendOk(s) \/ Retry(s)
  PROVE  OwesAnew(s)
<1>0. /\ slot[s] \in SlotRecord /\ slot \in [Slots -> SlotRecord]
      /\ DOMAIN slot[s] = {"pc", "retry", "link", "pipe", "owed"}
      /\ <<>> \in Fresh /\ <<"stop">> \in Fresh /\ <<"retried">> \in Fresh
      /\ <<"failed", "completed", "sample", "stop">> \in Fresh
      /\ ~ Owes(<<>>, "stop") /\ ~ Owes(<<"retried">>, "stop")
  BY SlotFacts, SlotFields, ShortLists DEF Fresh, HttpsInv, TypeOK
<1>1. CASE InitTls(s)
  <2>1. CASE Goes(s, "top")
    BY <1>1, <2>1, AnewGoing DEF InitTls, Goes
  <2>2. CASE Becomes(s, [slot[s] EXCEPT !.pc = "failed", !.owed = <<"stop">>])
    <3>1. PICK x : x = [slot[s] EXCEPT !.pc = "failed", !.owed = <<"stop">>]
      OBVIOUS
    <3>2. DOMAIN x = DOMAIN slot[s] /\ x.owed = <<"stop">> /\ x.pc = "failed"
      BY <1>0, <3>1
    <3>. QED BY <1>0, <1>1, <2>2, <3>1, <3>2, AnewBy DEF InitTls
  <2>. QED BY <1>1, <2>1, <2>2 DEF InitTls
<1>2. CASE ConnectTcp(s)
  <2>1. PICK x, p : x = [slot[s] EXCEPT !.pc = p, !.link = "socket"] /\ Becomes(s, x)
    BY <1>2 DEF ConnectTcp
  <2>2. DOMAIN x = DOMAIN slot[s] /\ x.owed = <<>>
    BY <1>0, <1>2, <2>1 DEF ConnectTcp, At
  <2>. QED BY <1>0, <1>2, <2>1, <2>2, AnewBy DEF ConnectTcp
<1>3. CASE Handshake(s)
  <2>1. PICK x : x = [slot[s] EXCEPT !.pc = "quota", !.link = "open"] /\ Becomes(s, x)
    BY <1>3 DEF Handshake
  <2>2. DOMAIN x = DOMAIN slot[s] /\ x.owed = <<>>
    BY <1>0, <1>3, <2>1 DEF Handshake, At
  <2>. QED BY <1>0, <1>3, <2>1, <2>2, AnewBy DEF Handshake
<1>4. CASE Unconnected(s)
  <2>1. CASE MayRetry(s)
    <3>1. PICK x, r : /\ x = [slot[s] EXCEPT !.pc = "top", !.retry = r, !.owed = <<"retried">>]
                      /\ Becomes(s, x)
      BY <1>4, <2>1 DEF Unconnected
    <3>2. DOMAIN x = DOMAIN slot[s] /\ x.owed = <<"retried">>
      BY <1>0, <3>1
    <3>. QED BY <1>0, <1>4, <2>1, <3>1, <3>2, AnewBy DEF Unconnected
  <2>2. CASE ~ MayRetry(s)
    <3>1. PICK x : /\ x = [slot[s] EXCEPT !.pc = "leave",
                                          !.owed = <<"failed", "completed", "sample", "stop">>]
                   /\ Becomes(s, x)
      BY <1>4, <2>2 DEF Unconnected
    <3>2. DOMAIN x = DOMAIN slot[s] /\ x.owed = <<"failed", "completed", "sample", "stop">>
      BY <1>0, <3>1
    <3>3. s \in gaveUp' /\ gaveUp \subseteq gaveUp'
      BY <1>4, <2>2 DEF Unconnected
    <3>. QED BY <1>0, <1>4, <3>1, <3>2, <3>3, AnewBy DEF Unconnected
  <2>. QED BY <2>1, <2>2
<1>5. CASE AcquireRequestQuota(s)
  <2>1. PICK x, p : x = [slot[s] EXCEPT !.pc = p] /\ Becomes(s, x)
    BY <1>5 DEF AcquireRequestQuota, Goes
  <2>2. DOMAIN x = DOMAIN slot[s] /\ x.owed = <<>>
    BY <1>0, <1>5, <2>1 DEF AcquireRequestQuota, At
  <2>3. slot'[s].owed = <<>> /\ \A t \in Slots \ {s} : slot'[t] = slot[t]
    BY <2>1, <2>2, Became
  <2>4. /\ count'["started"] <= Requests
        /\ \A c \in Counter \ {"started"} : count'[c] = count[c]
    <3>1. count \in [Counter -> Nat] /\ count["started"] <= Requests /\ "started" \in Counter
      BY DEF HttpsInv, TypeOK, ReportInv, StopKnown, Counter
    <3>2. CASE count["started"] >= Requests
      BY <1>5, <3>1, <3>2 DEF AcquireRequestQuota
    <3>3. CASE ~ count["started"] >= Requests
      <4>1. count' = [count EXCEPT !["started"] = count["started"] + 1]
        BY <1>5, <3>3 DEF AcquireRequestQuota
      <4>2. count'["started"] = count["started"] + 1
        BY <3>1, <4>1
      <4>. QED BY <3>1, <3>3, <4>1, <4>2
    <3>. QED BY <3>2, <3>3
  <2>. QED BY <1>0, <1>5, <2>3, <2>4 DEF AcquireRequestQuota, OwesAnew, At, Over
<1>6. CASE SendOk(s)
  <2>1. PICK x, q : x = [slot[s] EXCEPT !.pc = "receive", !.pipe = q] /\ Becomes(s, x)
    BY <1>6 DEF SendOk
  <2>2. DOMAIN x = DOMAIN slot[s] /\ x.owed = <<>>
    BY <1>0, <1>6, <2>1 DEF SendOk, At
  <2>. QED BY <1>0, <1>6, <2>1, <2>2, AnewBy DEF SendOk
<1>7. CASE Retry(s)
  <2>1. CASE MayRetry(s)
    <3>1. PICK x, r : /\ x = [slot[s] EXCEPT !.pc = "top", !.retry = r, !.owed = <<"retried">>]
                      /\ Close(s, x)
      BY <1>7, <2>1 DEF Retry, Again
    <3>2. DOMAIN x = DOMAIN slot[s] /\ x.owed = <<"retried">>
      BY <1>0, <3>1
    <3>. QED BY <1>0, <1>7, <3>1, <3>2, AnewBy DEF Retry
  <2>2. CASE ~ MayRetry(s)
    BY <1>7, <2>2, AnewGoing DEF Retry, Goes
  <2>. QED BY <2>1, <2>2
<1>. QED BY <1>1, <1>2, <1>3, <1>4, <1>5, <1>6, <1>7

\* A payment brings a counter what it takes from what the slot owes.
LEMMA PayAgrees ==
  ASSUME HttpsInv, HttpsInv', ReportInv, NEW s \in Slots, Pay(s)
  PROVE  ReportInv'
<1>1. /\ slot[s] \in SlotRecord /\ slot \in [Slots -> SlotRecord] /\ slot[s].owed \in Dues
      /\ DOMAIN slot[s] = {"pc", "retry", "link", "pipe", "owed"}
      /\ count \in [Counter -> Nat]
  BY SlotFacts, SlotFields DEF HttpsInv, TypeOK
<1>2. PICK o, h : o = slot[s].owed /\ h = Head(o)
  OBVIOUS
<1>3. /\ o # <<>> /\ o \in Dues /\ UNCHANGED <<mpc, gaveUp>> /\ stop' = (stop \/ h = "stop")
      /\ count' = IF h \in Counter THEN [count EXCEPT ![h] = @ + 1] ELSE count
  BY <1>1, <1>2 DEF Pay
<1>4. /\ slot'[s].pc = slot[s].pc /\ slot'[s].owed = Tail(o)
      /\ \A t \in Slots \ {s} : slot'[t] = slot[t]
  BY <1>1, <1>2 DEF Pay, Becomes
<1>5. h \in (Counter \ {"started"}) \cup {"stop"}
  BY <1>2, <1>3, PaymentsOnce
<1>6. /\ ResultsDue(o) = ResultsDue(Tail(o)) + One(h \in {"succeeded", "failed"})
                           - One(h = "completed")
      /\ SamplesDue(o) = SamplesDue(Tail(o)) + One(h = "sample") - One(h = "completed")
      /\ h = "stop" => Owes(o, "stop")
      /\ Owes(Tail(o), "stop") => Owes(o, "stop")
  BY <1>2, <1>3, DuesPaid
<1>7. /\ \A c \in Counter : count'[c] = count[c] + One(h = c) /\ count[c] \in Nat
      /\ One(h \in {"succeeded", "failed"}) = One(h = "succeeded") + One(h = "failed")
      /\ \A c : One(h = c) \in Nat
  BY <1>1, <1>3 DEF One, Counter
<1>8. /\ count'["completed"] - count'["succeeded"] - count'["failed"] - ResultsDue(slot'[s].owed)
           = count["completed"] - count["succeeded"] - count["failed"] - ResultsDue(slot[s].owed)
      /\ count'["completed"] - count'["sample"] - SamplesDue(slot'[s].owed)
           = count["completed"] - count["sample"] - SamplesDue(slot[s].owed)
  <2>1. PICK a, b, c, d : /\ a = count["completed"] /\ b = count["succeeded"]
                          /\ c = count["failed"] /\ d = count["sample"]
    OBVIOUS
  <2>2. PICK p, q, r, v : /\ p = One(h = "completed") /\ q = One(h = "succeeded")
                          /\ r = One(h = "failed") /\ v = One(h = "sample")
    OBVIOUS
  <2>3. PICK x, y : x = ResultsDue(Tail(o)) /\ y = SamplesDue(Tail(o))
    OBVIOUS
  <2>4. /\ a \in Int /\ b \in Int /\ c \in Int /\ d \in Int /\ x \in Int /\ y \in Int
        /\ p \in Int /\ q \in Int /\ r \in Int /\ v \in Int
    <3>1. a \in Int /\ b \in Int /\ c \in Int /\ d \in Int
      BY <1>7, <2>1 DEF Counter
    <3>2. p \in Int /\ q \in Int /\ r \in Int /\ v \in Int
      BY <2>2 DEF One
    <3>. QED BY <2>3, <3>1, <3>2, DuesTypes
  <2>5. /\ count'["completed"] = a + p /\ count'["succeeded"] = b + q
        /\ count'["failed"] = c + r /\ count'["sample"] = d + v
    BY <1>7, <2>1, <2>2 DEF Counter
  <2>6. ResultsDue(o) = x + (q + r) - p /\ SamplesDue(o) = y + v - p
    BY <1>6, <1>7, <2>2, <2>3
  <2>7. /\ (a + p) - (b + q) - (c + r) - x = a - b - c - (x + (q + r) - p)
        /\ (a + p) - (d + v) - y = a - d - (y + v - p)
    BY <2>4
  <2>. QED BY <1>2, <1>4, <2>1, <2>3, <2>5, <2>6, <2>7
<1>9. count'["started"] <= Requests /\ count["completed"] <= count'["completed"]
  <2>1. count'["started"] = count["started"]
    BY <1>1, <1>3, <1>5 DEF Counter
  <2>2. /\ count'["completed"] = count["completed"] + One(h = "completed")
        /\ count["completed"] \in Nat /\ One(h = "completed") \in {0, 1}
    BY <1>7 DEF Counter, One
  <2>3. count["completed"] <= count'["completed"]
    BY <2>2
  <2>. QED BY <2>1, <2>3 DEF ReportInv, StopKnown
<1>10. Owes(o, "stop") => s \in gaveUp' \/ slot'[s].pc = "failed"
  BY <1>2, <1>3, <1>4 DEF ReportInv, StopKnown
<1>11. ~ Over(s)
  BY <1>2, <1>3 DEF Over, At
<1>12. /\ Owes(slot'[s].owed, "stop") => s \in gaveUp' \/ slot'[s].pc = "failed"
       /\ stop' => stop \/ s \in gaveUp' \/ slot'[s].pc = "failed"
       /\ slot[s].pc = "failed" => slot'[s].pc = "failed"
       /\ gaveUp \subseteq gaveUp' /\ mpc' = mpc
  BY <1>3, <1>4, <1>6, <1>10
<1>. QED BY <1>4, <1>8, <1>9, <1>11, <1>12, ReportStep

\* The peer closing changes nothing the report is built from; a slot that is over has no
\* connection.
LEMMA BreaksAgrees ==
  ASSUME HttpsInv, HttpsInv', ReportInv, NEW s \in Slots, Breaks(s)
  PROVE  ReportInv'
<1>1. /\ slot[s] \in SlotRecord /\ DOMAIN slot[s] = {"pc", "retry", "link", "pipe", "owed"}
      /\ LinkKnown(s) /\ slot[s].link = "open"
  BY SlotFacts, SlotFields DEF Breaks
<1>2. PICK x, q : x = [slot[s] EXCEPT !.link = "dead", !.pipe = q] /\ Becomes(s, x)
  BY DEF Breaks
<1>3. DOMAIN x = DOMAIN slot[s] /\ x.pc = slot[s].pc /\ x.owed = slot[s].owed
  BY <1>1, <1>2
<1>4. /\ slot'[s].pc = slot[s].pc /\ slot'[s].owed = slot[s].owed
      /\ \A t \in Slots \ {s} : slot'[t] = slot[t]
  BY <1>2, <1>3, Became
<1>5. ~ Over(s)
  BY <1>1 DEF LinkKnown, Over, At
<1>6. count' = count /\ stop' = stop /\ mpc' = mpc /\ gaveUp' = gaveUp
  BY DEF Breaks, shared
<1>7. /\ Owes(slot'[s].owed, "stop") => s \in gaveUp' \/ slot'[s].pc = "failed"
      /\ count'["started"] <= Requests
  BY <1>4, <1>6 DEF ReportInv, StopKnown
<1>8. count["completed"] <= count'["completed"]
  BY <1>6 DEF HttpsInv, TypeOK, Counter
<1>. QED BY <1>4, <1>5, <1>6, <1>7, <1>8, ReportStep

\* While a slot takes a step or its peer closes, the main thread is not done.
LEMMA SlotAtWork ==
  ASSUME HttpsInv, ReportInv, NEW s \in Slots, SlotNext(s) \/ Breaks(s)
  PROVE  mpc # "done" /\ mpc' = mpc
<1>1. CASE Pay(s)
  <2>1. ~ Over(s)
    BY <1>1 DEF Pay, Over, At
  <2>. QED BY <1>1, <2>1 DEF Pay, ReportInv, StopKnown
<1>2. CASE Breaks(s)
  <2>1. slot[s].link = "open" /\ LinkKnown(s)
    BY <1>2, SlotFacts DEF Breaks
  <2>2. ~ Over(s)
    BY <2>1 DEF LinkKnown, Over, At
  <2>. QED BY <1>2, <2>2 DEF Breaks, shared, ReportInv, StopKnown
<1>3. CASE SlotNext(s) /\ ~ Pay(s)
  <2>1. OwesAnew(s)
    BY <1>3, GoingAnew, EndingAnew, OthersAnew DEF SlotNext
  <2>. QED BY <2>1 DEF OwesAnew, ReportInv, StopKnown
<1>. QED BY <1>1, <1>2, <1>3

\* Initially nothing is counted and nothing owed.
LEMMA ReportInit == Init => ReportInv
<1>. SUFFICES ASSUME Init PROVE ReportInv
  OBVIOUS
<1>1. \A s \in Slots : slot[s].owed = <<>>
  BY DEF Init, NewSlot
<1>. DEFINE f == [s \in Slots |-> ResultsDue(slot[s].owed)]
            g == [s \in Slots |-> SamplesDue(slot[s].owed)]
<1>2. /\ f \in [Slots -> Int] /\ \A s \in Slots : f[s] = 0
      /\ g \in [Slots -> Int] /\ \A s \in Slots : g[s] = 0
  BY <1>1, DuesTypes
<1>3. count["completed"] = count["succeeded"] + count["failed"] + SumFunction(f)
      /\ count["completed"] = count["sample"] + SumFunction(g)
  <2>. HIDE DEF f, g
  <2>1. SumFunction(f) = 0 /\ SumFunction(g) = 0
    BY <1>2, SumZero
  <2>. QED BY <2>1 DEF Init, Counter
<1>4. CountersAgree
  BY <1>3 DEF CountersAgree
<1>5. StopKnown
  BY <1>1, ShortLists DEF StopKnown, Init, Counter
<1>. QED BY <1>4, <1>5 DEF ReportInv

\* The invariant of the report, through every step.
LEMMA ReportInvariant == Spec => [](HttpsInv /\ ReportInv)
<1>1. Init => ReportInv
  BY ReportInit
<1>2. HttpsInv /\ HttpsInv' /\ ReportInv /\ [Next]_vars => ReportInv'
  <2>. SUFFICES ASSUME HttpsInv, HttpsInv', ReportInv, [Next]_vars PROVE ReportInv'
    OBVIOUS
  <2>1. ASSUME NEW s \in Slots, SlotNext(s) PROVE ReportInv'
    <3>1. CASE Pay(s)
      BY <3>1, PayAgrees
    <3>2. CASE ~ Pay(s)
      <4>1. OwesAnew(s)
        BY <2>1, <3>2, GoingAnew, EndingAnew, OthersAnew DEF SlotNext
      <4>. QED BY <4>1, AnewKeeps
    <3>. QED BY <3>1, <3>2
  <2>2. ASSUME NEW s \in Slots, Breaks(s) PROVE ReportInv'
    BY <2>2, BreaksAgrees
  <2>3. CASE MainStop
    BY <2>3 DEF MainStop, ReportInv, CountersAgree, StopKnown, Aborted, ReachedEnd, Over, At
  <2>4. CASE Join
    BY <2>4 DEF Join, ReportInv, CountersAgree, StopKnown, Aborted, ReachedEnd, Over, At
  <2>5. CASE UNCHANGED vars
    BY <2>5 DEF vars, shared, ReportInv, CountersAgree, StopKnown, Aborted, ReachedEnd, Over, At
  <2>. QED BY <2>1, <2>2, <2>3, <2>4, <2>5 DEF Next, MainWaits, Terminated
<1>3. Spec => []HttpsInv
  BY HttpsInvariant
<1>. QED BY <1>1, <1>2, <1>3, PTL DEF Spec

\* When the slots are over, the counters are a report Run may end with.
LEMMA SlotsOverAddUp ==
  ASSUME HttpsInv, ReportInv, \A s \in Slots : Over(s)
  PROVE  [completed |-> count["completed"], succeeded |-> count["succeeded"],
          failed |-> count["failed"], samples |-> count["sample"]] \in Run!Balanced
<1>. DEFINE f == [s \in Slots |-> ResultsDue(slot[s].owed)]
            g == [s \in Slots |-> SamplesDue(slot[s].owed)]
            h == [s \in Slots |-> UnfinishedOf(slot[s])]
            z == [s \in Slots |-> 0]
            n == Cardinality(gaveUp)
            most == Requests + Cardinality(Slots)
<1>1. \A s \in Slots : slot[s].owed = <<>>
  BY DEF Over, At
<1>2. /\ f \in [Slots -> Int] /\ \A s \in Slots : f[s] = 0
      /\ g \in [Slots -> Int] /\ \A s \in Slots : g[s] = 0
      /\ z \in [Slots -> Int] /\ \A s \in Slots : z[s] = 0
  BY <1>1, DuesTypes
<1>3. h \in [Slots -> Int] /\ \A s \in Slots : z[s] <= h[s]
  <2>1. \A s \in Slots : UnfinishedOf(slot[s]) \in Int /\ 0 <= UnfinishedOf(slot[s])
    BY DEF UnfinishedOf
  <2>. QED BY <2>1
<1>4. /\ count["completed"] = count["succeeded"] + count["failed"] + SumFunction(f)
      /\ count["completed"] = count["sample"] + SumFunction(g)
  BY DEF ReportInv, CountersAgree
<1>5. count["started"] + n = count["completed"] + SumFunction(h)
  <2>1. h = [s \in Slots |-> Unfinished(s)]
    BY SlotAmounts
  <2>. QED BY <2>1 DEF HttpsInv, EveryRequestAccounted
<1>6. n \in Nat /\ Cardinality(Slots) \in Nat /\ n <= Cardinality(Slots)
  BY FS_Subset, FS_CardinalityType DEF HttpsInv, TypeOK
<1>. HIDE DEF f, g, h, z, n
<1>7. SumFunction(f) = 0 /\ SumFunction(g) = 0 /\ SumFunction(z) = 0
  BY <1>2, SumZero
<1>8. SumFunction(h) \in Int /\ SumFunction(z) <= SumFunction(h)
  BY <1>2, <1>3, SumOrder
<1>9. PICK a, b, c, d, e : /\ a = count["completed"] /\ b = count["succeeded"]
                           /\ c = count["failed"] /\ d = count["sample"] /\ e = count["started"]
  OBVIOUS
<1>10. /\ a \in Nat /\ b \in Nat /\ c \in Nat /\ d \in Nat /\ e \in Nat /\ e <= Requests
  BY <1>9 DEF HttpsInv, TypeOK, Counter, ReportInv, StopKnown
<1>11. a = b + c /\ d = b + c
  BY <1>4, <1>7, <1>9, <1>10
<1>12. most \in Nat /\ a <= most
  BY <1>5, <1>6, <1>7, <1>8, <1>9, <1>10
<1>13. b \in 0..most /\ c \in 0..most
  BY <1>10, <1>11, <1>12
<1>. HIDE DEF most
<1>. QED BY <1>9, <1>11, <1>13 DEF Run!Balanced, most

\* Over HTTPS, too, Run keeps what BenchmarkRun promises, for any number of slots, requests and
\* retries, although slots count a request that failed and one that was never started in
\* different orders: it ends with one report that adds up, and unless a slot gave the run up it
\* has completed the requests (engine.cpp:358-450, 526-567).
THEOREM HttpsImplementsRun == Spec => ImplementsRun
<1>1. Init => Run!Init
  BY DEF Init, Run!Init, Run!EmptyReport
<1>2. HttpsInv /\ ReportInv /\ [Next]_vars => [Run!Next]_Run!vars
  <2>. SUFFICES ASSUME HttpsInv, ReportInv, [Next]_vars
                PROVE  Run!Next \/ UNCHANGED Run!vars
    OBVIOUS
  <2>1. mpc # "done" /\ mpc' # "done" => UNCHANGED Run!vars
    BY DEF Run!vars
  <2>2. ASSUME NEW s \in Slots, SlotNext(s) \/ Breaks(s) PROVE UNCHANGED Run!vars
    BY <2>1, <2>2, SlotAtWork
  <2>3. CASE MainStop
    BY <2>1, <2>3 DEF MainStop
  <2>4. CASE Join
    <3>1. /\ mpc = "join" /\ mpc' = "done" /\ UNCHANGED <<count, stop, slot, gaveUp>>
          /\ \A s \in Slots : Over(s)
      BY <2>4 DEF Join
    <3>2. [completed |-> count["completed"], succeeded |-> count["succeeded"],
           failed |-> count["failed"], samples |-> count["sample"]] \in Run!Balanced
      BY <3>1, SlotsOverAddUp
    <3>3. Aborted' = Aborted /\ (Aborted \/ ReachedEnd)
      BY <3>1 DEF Aborted, ReportInv, StopKnown
    <3>4. Run!End
      BY <3>1, <3>2, <3>3 DEF Run!End, ReachedEnd
    <3>. QED BY <3>4 DEF Run!Next
  <2>5. CASE UNCHANGED vars
    BY <2>5 DEF vars, shared, Run!vars, Aborted
  <2>. QED BY <2>2, <2>3, <2>4, <2>5 DEF Next, MainWaits, Terminated
<1>3. Spec => [](HttpsInv /\ ReportInv)
  BY ReportInvariant
<1>. QED BY <1>1, <1>2, <1>3, PTL DEF Spec, ImplementsRun, Run!Spec
=============================================================================
