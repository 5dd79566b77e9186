---------------------------- MODULE EngineProofs ----------------------------
(***************************************************************************)
(* Engine for every number of sessions, threads, requests and retries.     *)
(* Each worker is a thread with locals of its own, so the invariant says   *)
(* of each one what its locals have to do with one another, and ties the   *)
(* workers to the shared counters, one after the other changed, by sums    *)
(* over the workers of what each one has still to finish, to count or to   *)
(* retry.                                                                  *)
(***************************************************************************)
EXTENDS Engine, SumProofs, SequenceTheorems

USE EngineAssumption

-----------------------------------------------------------------------------
(* The invariant: what the locals of one worker have to do with one another *)

PCs == {"start", "loop", "send", "token", "events", "retry", "exited"}

\* What a worker may owe: what is left of the payments for a request that has ended, a retry,
\* or the run given up.
Dues == {<<>>, <<"stop">>, <<"retried">>, <<"retried", "stop">>, <<"sample">>,
         <<"completed", "sample">>, <<"succeeded", "sample">>, <<"failed", "sample">>,
         <<"failed", "completed", "sample">>, <<"succeeded", "completed", "sample">>,
         <<"completed", "succeeded", "sample">>, <<"completed", "failed", "sample">>}

SessionRecord == [in_flight : BOOLEAN, retries : 0..kMaxRetryPerSession,
                  parse_error : BOOLEAN, backoff : BOOLEAN]

\* A map of sessions by connection id.
SessionMap(f, next_id) ==
  /\ f = [c \in DOMAIN f |-> f[c]]
  /\ DOMAIN f \subseteq 1..(next_id - 1)
  /\ \A c \in DOMAIN f : f[c] \in SessionRecord

Has(list, c) == \E i \in DOMAIN list : list[i] = c
One(b)       == IF b THEN 1 ELSE 0

InFlight(f)  == Cardinality({c \in DOMAIN f : f[c].in_flight})
RetriesOf(f) == SumFunction([c \in DOMAIN f |-> f[c].retries])

\* A response was received and is not counted yet.
Responded(owed) ==
  One(owed # <<>> /\ Head(owed) = "completed" /\ (Has(owed, "succeeded") \/ Has(owed, "failed")))

Fields == {"pc", "sessions", "next_id", "todo", "conn", "old", "polled", "gone", "owed"}

WorkerTypes(x) ==
  /\ DOMAIN x = Fields
  /\ x.pc \in PCs /\ x.next_id \in Nat \ {0} /\ x.old \in SessionRecord /\ x.owed \in Dues
  /\ SessionMap(x.sessions, x.next_id)

\* The sessions a worker's pass over them and the events of its poll are about are in its map.
PassKnown(x) ==
  /\ x.pc = "start" => DOMAIN x.sessions = {} /\ x.owed = <<>>
  /\ x.pc # "retry" => x.old.retries = 0
  /\ x.pc \in {"send", "token"} =>
       \A c \in x.todo : c \in DOMAIN x.sessions /\ ~ x.sessions[c].in_flight
  /\ x.pc = "token" =>
       x.conn \in DOMAIN x.sessions \ x.todo /\ ~ x.sessions[x.conn].in_flight
  /\ x.pc \in {"events", "retry"} => x.polled \subseteq DOMAIN x.sessions

\* A worker has no more sessions than were asked for; of a session that has just received its
\* response the retries are counted no longer, while a retry not yet counted is a session's.
SizeKnown(w, x) ==
  /\ Cardinality(DOMAIN x.sessions) + One(x.pc = "retry") <= worker_concurrency[w]
  /\ RetriesOf(x.sessions) + kMaxRetryPerSession * Responded(x.owed)
       <= kMaxRetryPerSession * Cardinality(DOMAIN x.sessions)
  /\ Has(x.owed, "retried") /\ ~ Has(x.owed, "stop") => RetriesOf(x.sessions) >= 1

WorkerOK(w, x) == WorkerTypes(x) /\ PassKnown(x) /\ SizeKnown(w, x)

-----------------------------------------------------------------------------
(* The invariant: what the workers have to do with the shared counters *)

\* The amounts of a worker: what it has to finish; the results and samples it is behind with,
\* compared with the completions; the retries it may still count; those it has had.
UnfinishedOf(x) ==
  InFlight(x.sessions) + One(x.pc = "token") + One(Has(x.owed, "completed"))
ResultsDue(x) ==
  One(Has(x.owed, "succeeded") \/ Has(x.owed, "failed")) - One(Has(x.owed, "completed"))
SamplesDue(x) == One(Has(x.owed, "sample")) - One(Has(x.owed, "completed"))
Missing(w, x) ==
  IF x.pc = "start" THEN 0
  ELSE worker_concurrency[w] - Cardinality(DOMAIN x.sessions) - One(x.pc = "retry")
Tried(x)      == RetriesOf(x.sessions) + x.old.retries - One(Has(x.owed, "retried"))
Budget(w, x)  == kMaxRetryPerSession * (Missing(w, x) + Responded(x.owed)) + Tried(x)
Spent(w, x)   ==
  kMaxRetryPerSession * (IF x.pc = "exited" THEN 0 ELSE Missing(w, x)) + Tried(x)

\* Every request started is unfinished or completed; in duration mode, no worker starts one
\* once MaxSends are completed.
RequestsInv ==
  LET unfinished == SumFunction([w \in Workers |-> UnfinishedOf(worker[w])])
  IN  /\ has_requests => /\ count["started"] <= Requests
                         /\ count["started"] + stray = count["completed"] + unfinished
      /\ ~ has_requests => count["completed"] + unfinished <= stray + MaxSends + 2 * Concurrency

\* The counters differ by what the workers are behind with.
CountersInv ==
  /\ count["completed"] = count["succeeded"] + count["failed"]
                            + SumFunction([w \in Workers |-> ResultsDue(worker[w])])
  /\ count["completed"] = main.folded
                            + SumFunction([w \in Workers |-> unfolded[w] + SamplesDue(worker[w])])

NobodyStops == ~ stop /\ \A w \in Workers : ~ Has(worker[w].owed, "stop")

RetriesInv ==
  /\ count["retried"] <= kMaxRetryPerSession * count["completed"]
                           + SumFunction([w \in Workers |-> Budget(w, worker[w])])
  /\ NobodyStops => SumFunction([w \in Workers |-> Spent(w, worker[w])]) <= count["retried"]

\* What the final report has or will have of a counter.
Seen(c) == IF Has(main.loads, c) THEN count[c] ELSE main.rep[c]

Reported == {"started", "completed", "succeeded", "failed"}

Loads == {ReportOrder, <<"completed", "succeeded", "failed">>, <<"succeeded", "failed">>,
          <<"failed">>, <<>>}

TypeOK ==
  /\ config \in Configs
  /\ count \in [Counter -> Nat]
  /\ stop \in BOOLEAN /\ timeUp \in BOOLEAN /\ aborted \in BOOLEAN
  /\ stray \in 0..MostStray
  /\ unfolded \in [Workers -> Nat]
  /\ worker = [w \in Workers |-> worker[w]]
  /\ DOMAIN main = {"pc", "rep", "loads", "folded"}
  /\ main.pc \in {"loop", "join", "final", "done"}
  /\ main.rep \in [Reported -> Nat]
  /\ main.loads \in Loads
  /\ main.folded \in Nat

\* Who raises stop, and what the main thread knows of the end.
StopInv ==
  /\ stop => aborted \/ main.pc \in {"join", "final", "done"}
  /\ main.pc \in {"join", "final", "done"} => stop /\ (aborted \/ ReachedEnd)
  /\ main.pc \in {"final", "done"} =>
       \A w \in Workers : worker[w].pc = "exited" /\ worker[w].owed = <<>>

ReportInv ==
  /\ main.pc # "final" => main.loads = <<>>
  /\ main.pc \in {"final", "done"} => \A c \in Reported : Seen(c) = count[c]
  /\ main.pc = "done" => \A w \in Workers : unfolded[w] = 0

EngineInv ==
  /\ TypeOK
  /\ \A w \in Workers : WorkerOK(w, worker[w])
  /\ RequestsInv /\ CountersInv /\ RetriesInv
  /\ StopInv /\ ReportInv

\* The bounds on what the server sends unasked, with -n and without, do not exceed their sum.
LEMMA StrayBounds ==
  /\ MostStray \in Nat
  /\ config \in Configs => MaxStray[has_requests] \in Nat /\ MaxStray[has_requests] <= MostStray
<1>1. MaxStray[TRUE] \in Nat /\ MaxStray[FALSE] \in Nat
  BY StrayAssumption
<1>2. \A h \in BOOLEAN : MaxStray[h] = MaxStray[TRUE] \/ MaxStray[h] = MaxStray[FALSE]
  BY Zenon
<1>3. config \in Configs => has_requests \in BOOLEAN
  BY ConfigsAssumption DEF has_requests
<1>. DEFINE m == MaxStray[has_requests]
            t == MaxStray[TRUE]
            f == MaxStray[FALSE]
<1>4. config \in Configs => m = t \/ m = f
  BY <1>2, <1>3
<1>5. t \in Nat /\ f \in Nat /\ MostStray = t + f
  BY <1>1 DEF MostStray
<1>. HIDE DEF m, t, f
<1>6. MostStray \in Nat /\ (config \in Configs => m \in Nat /\ m <= MostStray)
  BY <1>4, <1>5
<1>. QED BY <1>6 DEF m
-----------------------------------------------------------------------------
(* Lists *)

\* The members of short lists, and what is left without the first.
LEMMA ShortLists ==
  /\ \A c : ~ Has(<<>>, c)
  /\ \A a : /\ Head(<<a>>) = a /\ Tail(<<a>>) = <<>> /\ <<a>> # <<>>
            /\ \A c : Has(<<a>>, c) <=> c = a
  /\ \A a, b : /\ Head(<<a, b>>) = a /\ Tail(<<a, b>>) = <<b>> /\ <<a, b>> # <<>>
               /\ \A c : Has(<<a, b>>, c) <=> c = a \/ c = b
  /\ \A a, b, d : /\ Head(<<a, b, d>>) = a /\ Tail(<<a, b, d>>) = <<b, d>> /\ <<a, b, d>> # <<>>
                  /\ \A c : Has(<<a, b, d>>, c) <=> c = a \/ c = b \/ c = d
  /\ \A a, b, d, e : /\ Head(<<a, b, d, e>>) = a /\ Tail(<<a, b, d, e>>) = <<b, d, e>>
                     /\ <<a, b, d, e>> # <<>>
                     /\ \A c : Has(<<a, b, d, e>>, c) <=> c = a \/ c = b \/ c = d \/ c = e
<1>1. \A c : ~ Has(<<>>, c)
  BY DEF Has
<1>2. \A a : /\ Head(<<a>>) = a /\ Tail(<<a>>) = <<>> /\ <<a>> # <<>>
             /\ \A c : Has(<<a>>, c) <=> c = a
  BY DEF Has
<1>3. \A a, b : /\ Head(<<a, b>>) = a /\ Tail(<<a, b>>) = <<b>> /\ <<a, b>> # <<>>
                /\ \A c : Has(<<a, b>>, c) <=> c = a \/ c = b
  BY DEF Has
<1>4. \A a, b, d : /\ Head(<<a, b, d>>) = a /\ Tail(<<a, b, d>>) = <<b, d>> /\ <<a, b, d>> # <<>>
                   /\ \A c : Has(<<a, b, d>>, c) <=> c = a \/ c = b \/ c = d
  BY DEF Has
<1>5. \A a, b, d, e : /\ Head(<<a, b, d, e>>) = a /\ Tail(<<a, b, d, e>>) = <<b, d, e>>
                      /\ <<a, b, d, e>> # <<>>
                      /\ \A c : Has(<<a, b, d, e>>, c) <=> c = a \/ c = b \/ c = d \/ c = e
  BY DEF Has
<1>. QED BY <1>1, <1>2, <1>3, <1>4, <1>5

\* Each payment is made once, and what is left after it is again something a worker may owe;
\* after a result comes no response.
LEMMA PaymentsOnce ==
  ASSUME NEW o \in Dues, o # <<>>
  PROVE  /\ Tail(o) \in Dues
         /\ Head(o) \in (Counter \ {"started"}) \cup {"stop", "sample"}
         /\ \A c \in Counter \cup {"stop", "sample"} :
              /\ Has(o, c) <=> Head(o) = c \/ Has(Tail(o), c)
              /\ ~ (Head(o) = c /\ Has(Tail(o), c))
         /\ ~ (Has(o, "succeeded") /\ Has(o, "failed"))
         /\ Responded(Tail(o)) = 0 /\ ~ Has(Tail(o), "retried")
<1>. DEFINE Due == Counter \cup {"stop", "sample"}
            Once(l, h, t) ==
              /\ Tail(l) = t /\ Head(l) = h /\ l # <<>>
              /\ \A c \in Due : (Has(l, c) <=> h = c \/ Has(t, c)) /\ ~ (h = c /\ Has(t, c))
              /\ ~ (Has(l, "succeeded") /\ Has(l, "failed")) /\ ~ Has(t, "retried")
              /\ t # <<>> /\ Head(t) = "completed" => ~ Has(t, "succeeded") /\ ~ Has(t, "failed")
<1>1. Once(<<"stop">>, "stop", <<>>)
  BY ShortLists
<1>2. Once(<<"retried">>, "retried", <<>>)
  BY ShortLists
<1>3. Once(<<"retried", "stop">>, "retried", <<"stop">>)
  BY ShortLists
<1>4. Once(<<"sample">>, "sample", <<>>)
  BY ShortLists
<1>5. Once(<<"completed", "sample">>, "completed", <<"sample">>)
  BY ShortLists
<1>6. Once(<<"succeeded", "sample">>, "succeeded", <<"sample">>)
  BY ShortLists
<1>7. Once(<<"failed", "sample">>, "failed", <<"sample">>)
  BY ShortLists
<1>8. Once(<<"failed", "completed", "sample">>, "failed", <<"completed", "sample">>)
  BY ShortLists
<1>9. Once(<<"succeeded", "completed", "sample">>, "succeeded", <<"completed", "sample">>)
  BY ShortLists
<1>10. Once(<<"completed", "succeeded", "sample">>, "completed", <<"succeeded", "sample">>)
  BY ShortLists
<1>11. Once(<<"completed", "failed", "sample">>, "completed", <<"failed", "sample">>)
  BY ShortLists
<1>12. PICK h, t : Once(o, h, t) /\ t \in Dues
                   /\ h \in (Counter \ {"started"}) \cup {"stop", "sample"}
  <2>. HIDE DEF Once
  <2>. QED BY <1>1, <1>2, <1>3, <1>4, <1>5, <1>6, <1>7, <1>8, <1>9, <1>10, <1>11
           DEF Dues, Counter
<1>. QED BY <1>12 DEF Responded, One

-----------------------------------------------------------------------------
(* Maps of sessions *)

\* The workers are a finite set, and the sessions are dealt to them.
LEMMA WorkersAre ==
  /\ WorkerCount \in Nat \ {0} /\ WorkerCount <= Concurrency
  /\ IsFiniteSet(Workers) /\ Cardinality(Workers) = WorkerCount
  /\ worker_concurrency \in [Workers -> Nat]
  /\ SumFunction(worker_concurrency) = Concurrency
<1>1. WorkerCount \in Nat \ {0} /\ WorkerCount <= Concurrency
  BY DEF WorkerCount
<1>2. IsFiniteSet(Workers) /\ Cardinality(Workers) = WorkerCount
  BY <1>1, FS_Interval DEF Workers
<1>. DEFINE All == 0..(Concurrency - 1)
            h   == [i \in All |-> i % WorkerCount]
<1>3. IsFiniteSet(All) /\ Cardinality(All) = Concurrency
  BY FS_Interval
<1>4. h \in [All -> Workers]
  BY <1>1 DEF Workers
<1>5. worker_concurrency = [w \in Workers |-> Cardinality({i \in All : h[i] = w})]
  <2>1. \A w \in Workers : {i \in All : h[i] = w} = {i \in All : i % WorkerCount = w}
    OBVIOUS
  <2>. QED BY <2>1 DEF worker_concurrency
<1>6. \A w \in Workers : worker_concurrency[w] \in Nat
  <2>. TAKE w \in Workers
  <2>. DEFINE P == {i \in All : h[i] = w}
  <2>1. P \subseteq All
    OBVIOUS
  <2>. HIDE DEF P, All
  <2>2. Cardinality(P) \in Nat
    BY <1>3, <2>1, FS_Subset, FS_CardinalityType
  <2>. QED BY <1>5, <2>2 DEF P
<1>7. worker_concurrency \in [Workers -> Nat]
  BY <1>5, <1>6
<1>8. SumFunction(worker_concurrency) = Concurrency
  <2>. HIDE DEF All, h
  <2>. QED BY <1>2, <1>3, <1>4, <1>5, SumOfParts
<1>. QED BY <1>1, <1>2, <1>7, <1>8

\* The size of a map of sessions, and what is counted over it.
LEMMA MapFacts ==
  ASSUME NEW f, NEW n \in Nat, SessionMap(f, n)
  PROVE  /\ IsFiniteSet(DOMAIN f) /\ Cardinality(DOMAIN f) \in Nat
         /\ InFlight(f) \in Nat /\ InFlight(f) <= Cardinality(DOMAIN f)
         /\ RetriesOf(f) \in Int
         /\ 0 <= RetriesOf(f)
         /\ RetriesOf(f) <= kMaxRetryPerSession * Cardinality(DOMAIN f)
<1>. DEFINE D == DOMAIN f
            B == {c \in DOMAIN f : f[c].in_flight}
            r == [c \in D |-> f[c].retries]
            z == [c \in D |-> 0]
            m == [c \in D |-> kMaxRetryPerSession]
<1>1. IsFiniteSet(D)
  <2>1. D \subseteq 1..(n - 1)
    BY DEF SessionMap
  <2>2. IsFiniteSet(1..(n - 1))
    <3>. HIDE DEF D, B, r, z, m
    <3>. QED BY FS_Interval
  <2>. QED BY <2>1, <2>2, FS_Subset
<1>2. B \subseteq D
  OBVIOUS
<1>3. InFlight(f) = Cardinality(B) /\ RetriesOf(f) = SumFunction(r)
  BY DEF InFlight, RetriesOf
<1>4. \A c \in D : r[c] \in Int /\ 0 <= r[c] /\ r[c] <= kMaxRetryPerSession
  BY DEF SessionMap, SessionRecord
<1>5. r \in [D -> Int] /\ z \in [D -> Int] /\ m \in [D -> Int]
  BY <1>4
<1>6. (\A c \in D : z[c] = 0 /\ m[c] = kMaxRetryPerSession)
  OBVIOUS
<1>. HIDE DEF D, B, r, z, m
<1>7. /\ Cardinality(D) \in Nat /\ Cardinality(B) \in Nat /\ Cardinality(B) <= Cardinality(D)
  BY <1>1, <1>2, FS_Subset, FS_CardinalityType
<1>8. SumFunction(z) = 0 /\ SumFunction(m) = kMaxRetryPerSession * Cardinality(D)
  BY <1>1, <1>5, <1>6, SumZero, SumConstant
<1>9. SumFunction(z) <= SumFunction(r) /\ SumFunction(r) \in Int
  BY <1>1, <1>4, <1>5, <1>6, SumOrder
<1>10. SumFunction(r) <= SumFunction(m)
  BY <1>1, <1>4, <1>5, <1>6, SumOrder
<1>. QED BY <1>1, <1>3, <1>7, <1>8, <1>9, <1>10 DEF D

\* One session more.
LEMMA MapExtended ==
  ASSUME NEW f, NEW n \in Nat, SessionMap(f, n), NEW g, NEW m \in Nat, SessionMap(g, m),
         NEW c, c \notin DOMAIN f, DOMAIN g = DOMAIN f \cup {c},
         \A d \in DOMAIN f : g[d] = f[d]
  PROVE  /\ Cardinality(DOMAIN g) = Cardinality(DOMAIN f) + 1
         /\ InFlight(g) = InFlight(f) + One(g[c].in_flight)
         /\ RetriesOf(g) = RetriesOf(f) + g[c].retries
<1>1. IsFiniteSet(DOMAIN f)
  BY MapFacts
<1>2. Cardinality(DOMAIN g) = Cardinality(DOMAIN f) + 1
  BY <1>1, FS_AddElement
<1>3. InFlight(g) = InFlight(f) + One(g[c].in_flight)
  <2>. DEFINE A == {d \in DOMAIN f : f[d].in_flight}
              B == {d \in DOMAIN g : g[d].in_flight}
  <2>1. A \subseteq DOMAIN f /\ c \notin A
    OBVIOUS
  <2>2. B = IF g[c].in_flight THEN A \cup {c} ELSE A
    OBVIOUS
  <2>3. InFlight(f) = Cardinality(A) /\ InFlight(g) = Cardinality(B)
    BY DEF InFlight
  <2>. HIDE DEF A, B
  <2>4. IsFiniteSet(A) /\ Cardinality(A) \in Nat
    BY <1>1, <2>1, FS_Subset, FS_CardinalityType
  <2>5. CASE g[c].in_flight
    BY <2>1, <2>2, <2>3, <2>4, <2>5, FS_AddElement DEF One
  <2>6. CASE ~ g[c].in_flight
    BY <2>2, <2>3, <2>4, <2>6 DEF One
  <2>. QED BY <2>5, <2>6
<1>4. RetriesOf(g) = RetriesOf(f) + g[c].retries
  <2>. DEFINE S == DOMAIN f
              r == [d \in DOMAIN f |-> f[d].retries]
              q == [d \in DOMAIN g |-> g[d].retries]
  <2>1. RetriesOf(f) = SumFunction(r) /\ RetriesOf(g) = SumFunction(q)
    BY DEF RetriesOf
  <2>2. r \in [S -> Int] /\ q \in [S \cup {c} -> Int]
    BY DEF SessionMap, SessionRecord
  <2>3. (\A d \in S : q[d] = r[d]) /\ q[c] = g[c].retries
    OBVIOUS
  <2>4. IsFiniteSet(S) /\ c \notin S
    BY <1>1
  <2>. HIDE DEF S, r, q
  <2>5. SumFunction(q) = SumFunction(r) + q[c]
    BY <2>2, <2>3, <2>4, SumExtended
  <2>. QED BY <2>1, <2>3, <2>5
<1>. QED BY <1>2, <1>3, <1>4

\* One session less.
Removed(f, n, c, g) ==
  /\ SessionMap(g, n) /\ DOMAIN g = DOMAIN f \ {c} /\ \A d \in DOMAIN f \ {c} : g[d] = f[d]
  /\ Cardinality(DOMAIN f) = Cardinality(DOMAIN g) + 1
  /\ InFlight(f) = InFlight(g) + One(f[c].in_flight)
  /\ RetriesOf(f) = RetriesOf(g) + f[c].retries

\* A session is erased.
LEMMA MapWithout ==
  ASSUME NEW f, NEW n \in Nat, SessionMap(f, n), NEW c \in DOMAIN f
  PROVE  Removed(f, n, c, Without(f, c))
<1>. DEFINE g == Without(f, c)
<1>1. DOMAIN g = DOMAIN f \ {c} /\ \A d \in DOMAIN g : g[d] = f[d]
  BY DEF Without
<1>2. SessionMap(g, n)
  BY DEF Without, SessionMap
<1>3. /\ DOMAIN f = DOMAIN g \cup {c} /\ c \notin DOMAIN g
      /\ \A d \in DOMAIN g : f[d] = g[d]
  BY <1>1
<1>. HIDE DEF g
<1>4. /\ Cardinality(DOMAIN f) = Cardinality(DOMAIN g) + 1
      /\ InFlight(f) = InFlight(g) + One(f[c].in_flight)
      /\ RetriesOf(f) = RetriesOf(g) + f[c].retries
  BY <1>2, <1>3, MapExtended
<1>. QED BY <1>1, <1>2, <1>4 DEF g, Removed

\* A new session.
Added(f, n, s, g) ==
  /\ SessionMap(g, n + 1) /\ DOMAIN g = DOMAIN f \cup {n}
  /\ g[n] = s /\ \A d \in DOMAIN f : g[d] = f[d]
  /\ Cardinality(DOMAIN g) = Cardinality(DOMAIN f) + 1
  /\ InFlight(g) = InFlight(f) + One(s.in_flight)
  /\ RetriesOf(g) = RetriesOf(f) + s.retries

\* A session is added under the next id.
LEMMA MapWith ==
  ASSUME NEW f, NEW n \in Nat, n # 0, SessionMap(f, n), NEW s \in SessionRecord
  PROVE  Added(f, n, s, With(f, n, s))
<1>. DEFINE g == With(f, n, s)
<1>1. n \notin DOMAIN f /\ DOMAIN f \subseteq 1..(n - 1)
  BY DEF SessionMap
<1>2. DOMAIN g = DOMAIN f \cup {n} /\ g[n] = s /\ \A d \in DOMAIN f : g[d] = f[d]
  BY <1>1 DEF With
<1>3. SessionMap(g, n + 1)
  <2>1. DOMAIN g \subseteq 1..((n + 1) - 1)
    BY <1>1, <1>2
  <2>2. \A d \in DOMAIN g : g[d] \in SessionRecord
    BY <1>2 DEF SessionMap
  <2>3. g = [d \in DOMAIN g |-> g[d]]
    BY <1>2 DEF With
  <2>. QED BY <2>1, <2>2, <2>3 DEF SessionMap
<1>. HIDE DEF g
<1>4. /\ Cardinality(DOMAIN g) = Cardinality(DOMAIN f) + 1
      /\ InFlight(g) = InFlight(f) + One(g[n].in_flight)
      /\ RetriesOf(g) = RetriesOf(f) + g[n].retries
  BY <1>1, <1>2, <1>3, MapExtended
<1>. QED BY <1>2, <1>3, <1>4 DEF g, Added

\* A session changed.
LEMMA MapChanged ==
  ASSUME NEW f, NEW n \in Nat, SessionMap(f, n), NEW g, SessionMap(g, n), DOMAIN g = DOMAIN f,
         NEW c \in DOMAIN f, \A d \in DOMAIN f \ {c} : g[d] = f[d]
  PROVE  /\ InFlight(g) = InFlight(f) - One(f[c].in_flight) + One(g[c].in_flight)
         /\ RetriesOf(g) = RetriesOf(f) - f[c].retries + g[c].retries
<1>. DEFINE h == Without(f, c)
<1>1. /\ SessionMap(h, n) /\ DOMAIN h = DOMAIN f \ {c}
      /\ \A d \in DOMAIN f \ {c} : h[d] = f[d]
      /\ Cardinality(DOMAIN f) = Cardinality(DOMAIN h) + 1
      /\ InFlight(f) = InFlight(h) + One(f[c].in_flight)
      /\ RetriesOf(f) = RetriesOf(h) + f[c].retries
  BY MapWithout DEF Removed
<1>. HIDE DEF h
<1>2. /\ DOMAIN g = DOMAIN h \cup {c} /\ c \notin DOMAIN h
      /\ \A d \in DOMAIN h : g[d] = h[d]
  BY <1>1
<1>3. SessionMap(h, n)
  BY <1>1
<1>4. /\ Cardinality(DOMAIN g) = Cardinality(DOMAIN h) + 1
      /\ InFlight(g) = InFlight(h) + One(g[c].in_flight)
      /\ RetriesOf(g) = RetriesOf(h) + g[c].retries
  BY <1>2, <1>3, MapExtended
<1>5. InFlight(h) \in Int /\ RetriesOf(h) \in Int
  BY <1>1, MapFacts
<1>6. f[c].retries \in Int /\ g[c].retries \in Int
  BY DEF SessionMap, SessionRecord
<1>. DEFINE i == InFlight(h)
            j == RetriesOf(h)
            a == One(f[c].in_flight)
            b == One(g[c].in_flight)
            p == f[c].retries
            q == g[c].retries
<1>7. i \in Int /\ j \in Int /\ a \in Int /\ b \in Int /\ p \in Int /\ q \in Int
  BY <1>5, <1>6 DEF One
<1>8. InFlight(f) = i + a /\ InFlight(g) = i + b /\ RetriesOf(f) = j + p /\ RetriesOf(g) = j + q
  BY <1>1, <1>4
<1>. HIDE DEF i, j, a, b, p, q
<1>9. InFlight(g) = InFlight(f) - a + b /\ RetriesOf(g) = RetriesOf(f) - p + q
  BY <1>7, <1>8
<1>. QED BY <1>9 DEF a, b, p, q

\* g is f with the one session set.
Changed(f, c, s, g) == g = [f EXCEPT ![c] = s]

\* One session of a map is set.
LEMMA MapUpdated ==
  ASSUME NEW f, NEW n \in Nat, SessionMap(f, n), NEW c \in DOMAIN f, NEW s \in SessionRecord,
         NEW g, Changed(f, c, s, g)
  PROVE  /\ SessionMap(g, n) /\ DOMAIN g = DOMAIN f
         /\ g[c] = s /\ \A d \in DOMAIN f \ {c} : g[d] = f[d]
         /\ InFlight(g) = InFlight(f) - One(f[c].in_flight) + One(s.in_flight)
         /\ RetriesOf(g) = RetriesOf(f) - f[c].retries + s.retries
<1>1. SessionMap(g, n) /\ DOMAIN g = DOMAIN f /\ g[c] = s
      /\ \A d \in DOMAIN f \ {c} : g[d] = f[d]
  BY DEF SessionMap, Changed
<1>. QED BY <1>1, MapChanged

\* No session.
LEMMA MapEmpty ==
  ASSUME NEW f, NEW n \in Nat, SessionMap(f, n), DOMAIN f = {}
  PROVE  Cardinality(DOMAIN f) = 0 /\ InFlight(f) = 0 /\ RetriesOf(f) = 0
<1>1. Cardinality(DOMAIN f) = 0
  BY FS_EmptySet
<1>. QED BY <1>1, MapFacts
-----------------------------------------------------------------------------
(* A step of one worker *)

\* What is said of a worker after a step is said of its locals after the step.
LEMMA Primed ==
  /\ RequestsInv' <=>
       /\ has_requests' =>
            /\ count'["started"] <= Requests
            /\ count'["started"] + stray' =
                 count'["completed"] + SumFunction([w \in Workers |-> UnfinishedOf(worker'[w])])
       /\ ~ has_requests' =>
            count'["completed"] + SumFunction([w \in Workers |-> UnfinishedOf(worker'[w])])
              <= stray' + MaxSends + 2 * Concurrency
  /\ CountersInv' <=>
       /\ count'["completed"] = count'["succeeded"] + count'["failed"]
            + SumFunction([w \in Workers |-> ResultsDue(worker'[w])])
       /\ count'["completed"] = main'.folded
            + SumFunction([w \in Workers |-> unfolded'[w] + SamplesDue(worker'[w])])
  /\ RetriesInv' <=>
       /\ count'["retried"] <= kMaxRetryPerSession * count'["completed"]
            + SumFunction([w \in Workers |-> Budget(w, worker'[w])])
       /\ NobodyStops' =>
            SumFunction([w \in Workers |-> Spent(w, worker'[w])]) <= count'["retried"]
  /\ NobodyStops' <=> ~ stop' /\ \A w \in Workers : ~ Has(worker'[w].owed, "stop")
  /\ (\A w \in Workers : WorkerOK(w, worker[w]))' <=> \A w \in Workers : WorkerOK(w, worker'[w])
  BY DEF RequestsInv, CountersInv, RetriesInv, NobodyStops

\* The amounts of a worker are integers, and what bounds them.
LEMMA AmountTypes ==
  ASSUME NEW w \in Workers, NEW x, WorkerOK(w, x)
  PROVE  /\ UnfinishedOf(x) \in Nat /\ UnfinishedOf(x) <= worker_concurrency[w] + 1
         /\ ResultsDue(x) \in Int /\ ResultsDue(x) <= 1 /\ SamplesDue(x) \in Int
         /\ Missing(w, x) \in Nat /\ Tried(x) \in Int
         /\ Budget(w, x) \in Int /\ Budget(w, x) <= kMaxRetryPerSession * worker_concurrency[w]
         /\ Spent(w, x) \in Int
         /\ ~ Has(x.owed, "stop") => Spent(w, x) >= kMaxRetryPerSession
              * (IF x.pc = "exited" THEN 0 ELSE Missing(w, x))
<1>. DEFINE f == x.sessions
            n == Cardinality(DOMAIN f)
            i == InFlight(f)
            j == RetriesOf(f)
            c == worker_concurrency[w]
            o == x.old.retries
            t == One(x.pc = "retry")
            r == Responded(x.owed)
            d == One(Has(x.owed, "retried"))
            k == kMaxRetryPerSession
<1>1. WorkerTypes(x) /\ PassKnown(x) /\ SizeKnown(w, x)
  BY DEF WorkerOK
<1>2. /\ x.next_id \in Nat /\ SessionMap(f, x.next_id) /\ x.old \in SessionRecord
  BY <1>1 DEF WorkerTypes
<1>3. n \in Nat /\ i \in Nat /\ i <= n /\ j \in Int /\ 0 <= j
  BY <1>2, MapFacts
<1>4. o \in Int /\ 0 <= o /\ o <= k
  BY <1>2 DEF SessionRecord
<1>5. t \in {0, 1} /\ r \in {0, 1} /\ d \in {0, 1} /\ c \in Nat
  BY WorkersAre DEF One, Responded
<1>6. n + t <= c /\ j + k * r <= k * n
  BY <1>1 DEF SizeKnown
<1>7. o <= k * t
  BY <1>1, <1>4 DEF PassKnown, One
<1>8. i + One(x.pc = "token") <= n
  <2>1. CASE x.pc = "token"
    <3>1. x.conn \in DOMAIN f /\ ~ f[x.conn].in_flight
      BY <1>1, <2>1 DEF PassKnown
    <3>. DEFINE h == Without(f, x.conn)
    <3>2. SessionMap(h, x.next_id) /\ n = Cardinality(DOMAIN h) + 1
          /\ i = InFlight(h) + One(f[x.conn].in_flight)
      BY <1>2, <3>1, MapWithout DEF Removed
    <3>. HIDE DEF h, n, i
    <3>3. /\ Cardinality(DOMAIN h) \in Nat /\ InFlight(h) \in Nat
          /\ InFlight(h) <= Cardinality(DOMAIN h)
      BY <1>2, <3>2, MapFacts
    <3>4. One(f[x.conn].in_flight) = 0 /\ One(x.pc = "token") = 1
      BY <2>1, <3>1 DEF One
    <3>. QED BY <3>2, <3>3, <3>4
  <2>2. CASE x.pc # "token"
    <3>1. One(x.pc = "token") = 0
      BY <2>2 DEF One
    <3>. HIDE DEF n, i
    <3>. QED BY <1>3, <3>1
  <2>. QED BY <2>1, <2>2
<1>9. UnfinishedOf(x) \in Nat /\ UnfinishedOf(x) <= c + 1
  <2>1. UnfinishedOf(x) = i + One(x.pc = "token") + One(Has(x.owed, "completed"))
    BY DEF UnfinishedOf
  <2>2. One(x.pc = "token") \in {0, 1} /\ One(Has(x.owed, "completed")) \in {0, 1}
    BY DEF One
  <2>. HIDE DEF i, n, c, t
  <2>. QED BY <1>3, <1>5, <1>6, <1>8, <2>1, <2>2
<1>10. ResultsDue(x) \in Int /\ ResultsDue(x) <= 1 /\ SamplesDue(x) \in Int
  BY DEF ResultsDue, SamplesDue, One
<1>11. Missing(w, x) = (IF x.pc = "start" THEN 0 ELSE c - n - t) /\ Tried(x) = j + o - d
  BY DEF Missing, Tried
<1>12. Budget(w, x) = k * (Missing(w, x) + r) + Tried(x)
  BY DEF Budget
<1>13. Spent(w, x) = k * (IF x.pc = "exited" THEN 0 ELSE Missing(w, x)) + Tried(x)
  BY DEF Spent
<1>17. x.pc = "start" => n = 0 /\ r = 0
  <2>1. x.pc = "start" => DOMAIN f = {} /\ x.owed = <<>>
    BY <1>1 DEF PassKnown
  <2>2. DOMAIN f = {} => n = 0
    BY FS_EmptySet
  <2>. QED BY <2>1, <2>2 DEF Responded, One
<1>18. ~ Has(x.owed, "stop") => d <= j
  <2>1. Has(x.owed, "retried") /\ ~ Has(x.owed, "stop") => j >= 1
    BY <1>1 DEF SizeKnown
  <2>2. d = IF Has(x.owed, "retried") THEN 1 ELSE 0
    BY DEF One
  <2>. HIDE DEF j, d
  <2>. QED BY <1>3, <2>1, <2>2
<1>. HIDE DEF f, n, i, j, c, o, t, r, d
<1>14. Missing(w, x) \in Nat /\ Tried(x) \in Int
  BY <1>3, <1>4, <1>5, <1>6, <1>11
<1>15. Budget(w, x) \in Int /\ Budget(w, x) <= k * c
  <2>1. \/ k * (Missing(w, x) + r) = k * c - k * n - k * t + k * r
        \/ k * (Missing(w, x) + r) = 0 /\ k * n = 0 /\ k * r = 0
    <3>1. CASE x.pc = "start"
      BY <1>11, <1>17, <3>1
    <3>2. CASE x.pc # "start"
      BY <1>3, <1>5, <1>11, <3>2
    <3>. QED BY <3>1, <3>2
  <2>2. k * c \in Int /\ k * n \in Int /\ k * t \in Int /\ k * r \in Int
    BY <1>3, <1>5
  <2>. DEFINE kc == k * c
              kn == k * n
              kt == k * t
              kr == k * r
  <2>3. /\ \/ Budget(w, x) = kc - kn - kt + kr + (j + o - d)
           \/ Budget(w, x) = j + o - d /\ kn = 0 /\ kr = 0
        /\ j + kr <= kn /\ o <= kt /\ kt <= kc
        /\ kc \in Int /\ kn \in Int /\ kt \in Int /\ kr \in Int
    <3>1. kt <= kc
      <4>1. t <= c
        BY <1>3, <1>5, <1>6
      <4>. QED BY <1>5, <4>1
    <3>2. j + kr <= kn /\ o <= kt
      BY <1>6, <1>7
    <3>3. \/ Budget(w, x) = kc - kn - kt + kr + (j + o - d)
          \/ Budget(w, x) = 0 + (j + o - d) /\ kn = 0 /\ kr = 0
      BY <1>11, <1>12, <2>1
    <3>4. 0 + (j + o - d) = j + o - d
      BY <1>3, <1>4, <1>5
    <3>. QED BY <2>2, <3>1, <3>2, <3>3, <3>4
  <2>. HIDE DEF kc, kn, kt, kr
  <2>4. Budget(w, x) \in Int /\ Budget(w, x) <= kc
    BY <1>3, <1>4, <1>5, <2>3
  <2>. QED BY <2>4 DEF kc
<1>16. /\ Spent(w, x) \in Int
       /\ ~ Has(x.owed, "stop") =>
            Spent(w, x) >= k * (IF x.pc = "exited" THEN 0 ELSE Missing(w, x))
  <2>. DEFINE m == IF x.pc = "exited" THEN 0 ELSE Missing(w, x)
              km == k * m
  <2>1. m \in Int
    BY <1>14
  <2>. HIDE DEF m
  <2>2. km \in Int
    BY <2>1
  <2>3. Spent(w, x) = km + (j + o - d)
    BY <1>11, <1>13 DEF m
  <2>. HIDE DEF km
  <2>4. Spent(w, x) \in Int /\ (~ Has(x.owed, "stop") => Spent(w, x) >= km)
    BY <1>3, <1>4, <1>5, <1>18, <2>2, <2>3
  <2>. QED BY <2>4 DEF m, km
<1>. QED BY <1>9, <1>10, <1>14, <1>15, <1>16 DEF c, k

\* One summand of a sum over the workers changes.
LEMMA OneChanges ==
  ASSUME NEW f \in [Workers -> Int], NEW g \in [Workers -> Int], NEW w \in Workers,
         \A v \in Workers \ {w} : g[v] = f[v]
  PROVE  /\ SumFunction(f) \in Int /\ SumFunction(g) \in Int /\ f[w] \in Int /\ g[w] \in Int
         /\ SumFunction(g) = SumFunction(f) + (g[w] - f[w])
<1>1. SumFunction(f) \in Int /\ SumFunction(g) = SumFunction(f) + (g[w] - f[w])
  BY SumChange, WorkersAre
<1>2. f[w] \in Int /\ g[w] \in Int
  OBVIOUS
<1>. QED BY <1>1, <1>2

\* What is compared with a sum over the workers keeps up with it, when it changes as the one
\* summand does.
LEMMA KeepsUp ==
  ASSUME NEW f \in [Workers -> Int], NEW g \in [Workers -> Int], NEW w \in Workers,
         \A v \in Workers \ {w} : g[v] = f[v], NEW x \in Int, NEW y \in Int
  PROVE  /\ x = SumFunction(f) /\ y - g[w] = x - f[w] => y = SumFunction(g)
         /\ x <= SumFunction(f) /\ y - g[w] <= x - f[w] => y <= SumFunction(g)
         /\ SumFunction(f) <= x /\ y - g[w] >= x - f[w] => SumFunction(g) <= y
<1>. DEFINE F == SumFunction(f)
            G == SumFunction(g)
            u == f[w]
            v == g[w]
<1>1. F \in Int /\ G \in Int /\ u \in Int /\ v \in Int /\ G = F + (v - u)
  BY OneChanges
<1>. HIDE DEF F, G, u, v
<1>2. /\ x = F /\ y - v = x - u => y = G
      /\ x <= F /\ y - v <= x - u => y <= G
      /\ F <= x /\ y - v >= x - u => G <= y
  BY <1>1
<1>. QED BY <1>2 DEF F, G, u, v

\* The workers have no more to finish than this.
LEMMA UnfinishedBound ==
  ASSUME NEW f, \A v \in Workers : WorkerOK(v, f[v]),
         NEW g, g = [v \in Workers |-> UnfinishedOf(f[v])]
  PROVE  SumFunction(g) \in Int /\ SumFunction(g) <= 2 * Concurrency
<1>. DEFINE h == [v \in Workers |-> 1 * worker_concurrency[v] + 1]
            l == [v \in Workers |-> 1]
<1>1. worker_concurrency \in [Workers -> Int]
  BY WorkersAre
<1>2. /\ h \in [Workers -> Int] /\ l \in [Workers -> Int]
      /\ \A v \in Workers : h[v] = 1 * worker_concurrency[v] + l[v]
  BY <1>1
<1>3. \A v \in Workers : g[v] \in Int /\ g[v] <= h[v]
  <2>. TAKE v \in Workers
  <2>1. UnfinishedOf(f[v]) \in Nat /\ UnfinishedOf(f[v]) <= worker_concurrency[v] + 1
    BY AmountTypes
  <2>2. h[v] = worker_concurrency[v] + 1
    BY <1>1
  <2>. QED BY <2>1, <2>2
<1>4. g \in [Workers -> Int]
  BY <1>3
<1>5. \A v \in Workers : l[v] = 1
  OBVIOUS
<1>. HIDE DEF h, l
<1>6. SumFunction(l) = 1 * Cardinality(Workers)
  BY <1>2, <1>5, WorkersAre, SumConstant
<1>7. SumFunction(h) = 1 * SumFunction(worker_concurrency) + SumFunction(l)
  <2>1. IsFiniteSet(Workers) /\ 1 \in Int
    BY WorkersAre
  <2>2. Linear(h, 1, worker_concurrency, l, Workers)
    BY <1>2 DEF Linear
  <2>. QED BY <1>1, <1>2, <2>1, <2>2, SumLinear
<1>8. SumFunction(g) \in Int /\ SumFunction(g) <= SumFunction(h)
  BY <1>2, <1>3, <1>4, WorkersAre, SumOrder
<1>9. WorkerCount \in Int /\ WorkerCount <= Concurrency
  BY WorkersAre
<1>10. SumFunction(h) = 1 * Concurrency + 1 * WorkerCount
  BY <1>6, <1>7, WorkersAre
<1>. QED BY <1>8, <1>9, <1>10

\* What a step of one worker does to the counters and to its own amounts: a request started
\* is unfinished, and one no longer unfinished is completed; in duration mode, one is started
\* only while few are completed.
RequestsMove(w) ==
  /\ has_requests =>
       /\ count'["started"] <= Requests
       /\ count'["started"] + stray' - count'["completed"] - UnfinishedOf(worker'[w])
            = count["started"] + stray - count["completed"] - UnfinishedOf(worker[w])
  /\ ~ has_requests =>
       \/ stray' - count'["completed"] - UnfinishedOf(worker'[w])
            = stray - count["completed"] - UnfinishedOf(worker[w])
       \/ count'["completed"] < MaxSends

\* What is counted is no longer due.
CountersMove(w) ==
  /\ count'["completed"] - count'["succeeded"] - count'["failed"] - ResultsDue(worker'[w])
       = count["completed"] - count["succeeded"] - count["failed"] - ResultsDue(worker[w])
  /\ count'["completed"] - unfolded'[w] - SamplesDue(worker'[w])
       = count["completed"] - unfolded[w] - SamplesDue(worker[w])

\* A retry is counted from the budget, to which a response adds; and it counts what was spent.
RetriesMove(w) ==
  /\ count'["retried"] - kMaxRetryPerSession * count'["completed"] - Budget(w, worker'[w])
       <= count["retried"] - kMaxRetryPerSession * count["completed"] - Budget(w, worker[w])
  /\ ~ stop' /\ ~ Has(worker'[w].owed, "stop") =>
       /\ ~ stop /\ ~ Has(worker[w].owed, "stop")
       /\ Spent(w, worker'[w]) - count'["retried"] <= Spent(w, worker[w]) - count["retried"]

\* A step of one worker, of which the others notice nothing but what it counts.
OneMoves(w) ==
  /\ TypeOK /\ TypeOK' /\ main' = main /\ config' = config
  /\ \A v \in Workers : WorkerOK(v, worker[v]) /\ WorkerOK(v, worker'[v])
  /\ \A v \in Workers \ {w} : worker'[v] = worker[v] /\ unfolded'[v] = unfolded[v]

\* The sum of what is unfinished keeps up.
LEMMA RequestsStep ==
  ASSUME NEW w \in Workers, OneMoves(w), RequestsInv, RequestsMove(w)
  PROVE  RequestsInv'
<1>. DEFINE f == [v \in Workers |-> UnfinishedOf(worker[v])]
            g == [v \in Workers |-> UnfinishedOf(worker'[v])]
            k == MaxSends + 2 * Concurrency
            a == count["started"]
            b == count'["started"]
            c == count["completed"]
            d == count'["completed"]
            s == stray
            t == stray'
            F == SumFunction(f)
            G == SumFunction(g)
            u == f[w]
            v == g[w]
<1>1. /\ f \in [Workers -> Int] /\ g \in [Workers -> Int]
      /\ \A y \in Workers \ {w} : g[y] = f[y]
      /\ u = UnfinishedOf(worker[w]) /\ v = UnfinishedOf(worker'[w])
  BY AmountTypes DEF OneMoves
<1>2. G \in Int /\ G <= 2 * Concurrency
  BY UnfinishedBound DEF OneMoves
<1>3. a \in Int /\ b \in Int /\ c \in Int /\ d \in Int /\ s \in Int /\ t \in Int /\ t >= 0
      /\ k \in Int
  BY DEF OneMoves, TypeOK, Counter
<1>4. /\ has_requests => a + s = c + F
      /\ ~ has_requests => c + F <= s + MaxSends + 2 * Concurrency
  BY DEF RequestsInv
<1>5. /\ has_requests => b <= Requests /\ b + t - d - v = a + s - c - u
      /\ ~ has_requests => t - d - v = s - c - u \/ d < MaxSends
  BY <1>1 DEF RequestsMove
<1>6. F \in Int /\ u \in Int /\ v \in Int
  BY <1>1, OneChanges
<1>. HIDE DEF f, g, k, a, b, c, d, s, t
<1>7. has_requests => b + t = d + G
  <2>. DEFINE x == a + s - c
              y == b + t - d
  <2>1. x \in Int /\ y \in Int
    BY <1>3
  <2>2. has_requests => x = F /\ y - v = x - u
    <3>. HIDE DEF F, G, u, v
    <3>. QED BY <1>3, <1>4, <1>5, <1>6
  <2>. HIDE DEF x, y
  <2>3. has_requests => y = G
    BY <1>1, <2>1, <2>2, KeepsUp
  <2>. HIDE DEF F, G, u, v
  <2>. QED BY <1>2, <1>3, <2>3 DEF y
<1>8. ~ has_requests => d + G <= t + MaxSends + 2 * Concurrency
  <2>. DEFINE x == s - c + k
              y == t - d + k
  <2>1. x \in Int /\ y \in Int
    BY <1>3
  <2>2. ~ has_requests => F <= x /\ (y - v >= x - u \/ d < MaxSends)
    <3>. HIDE DEF F, G, u, v
    <3>1. ~ has_requests => F <= x
      BY <1>3, <1>4, <1>6 DEF k
    <3>2. ~ has_requests => y - v >= x - u \/ d < MaxSends
      BY <1>3, <1>5, <1>6
    <3>. QED BY <3>1, <3>2
  <2>3. d < MaxSends => G <= y
    <3>. HIDE DEF F, G, u, v
    <3>. QED BY <1>2, <1>3 DEF k
  <2>. HIDE DEF x, y
  <2>4. ~ has_requests => G <= y
    BY <1>1, <2>1, <2>2, <2>3, KeepsUp
  <2>. HIDE DEF F, G, u, v
  <2>. QED BY <1>2, <1>3, <2>4 DEF y, k
<1>9. has_requests' = has_requests
  BY DEF OneMoves, has_requests
<1>. QED BY <1>5, <1>7, <1>8, <1>9, Primed DEF b, d, t, G, g

\* What the workers are behind with keeps up.
LEMMA CountersStep ==
  ASSUME NEW w \in Workers, OneMoves(w), CountersInv, CountersMove(w)
  PROVE  CountersInv'
<1>. DEFINE f == [v \in Workers |-> ResultsDue(worker[v])]
            g == [v \in Workers |-> ResultsDue(worker'[v])]
            p == [v \in Workers |-> unfolded[v] + SamplesDue(worker[v])]
            q == [v \in Workers |-> unfolded'[v] + SamplesDue(worker'[v])]
            x == count["completed"] - count["succeeded"] - count["failed"]
            y == count'["completed"] - count'["succeeded"] - count'["failed"]
            m == count["completed"] - main.folded
            n == count'["completed"] - main'.folded
<1>1. /\ f \in [Workers -> Int] /\ g \in [Workers -> Int]
      /\ \A v \in Workers \ {w} : g[v] = f[v]
  BY AmountTypes DEF OneMoves
<1>2. \A v \in Workers : unfolded[v] \in Int /\ unfolded'[v] \in Int
  BY DEF OneMoves, TypeOK
<1>3. /\ p \in [Workers -> Int] /\ q \in [Workers -> Int]
      /\ \A v \in Workers \ {w} : q[v] = p[v]
  BY <1>2, AmountTypes DEF OneMoves
<1>4. x \in Int /\ y \in Int /\ m \in Int /\ n \in Int
      /\ \A c \in Counter : count[c] \in Int /\ count'[c] \in Int
      /\ main.folded \in Int /\ main'.folded = main.folded
  BY DEF OneMoves, TypeOK, Counter
<1>5. SumFunction(f) \in Int /\ SumFunction(p) \in Int /\ SumFunction(g) \in Int
      /\ SumFunction(q) \in Int
  <2>. HIDE DEF f, g, p, q
  <2>. QED BY <1>1, <1>3, OneChanges
<1>6. x = SumFunction(f) /\ m = SumFunction(p)
  <2>1. count["completed"] = count["succeeded"] + count["failed"] + SumFunction(f)
        /\ count["completed"] = main.folded + SumFunction(p)
    BY DEF CountersInv
  <2>. HIDE DEF f, p
  <2>. QED BY <1>4, <1>5, <2>1 DEF Counter
<1>7. y - g[w] = x - f[w]
  BY DEF CountersMove
<1>8. n - q[w] = m - p[w]
  <2>. DEFINE a == count["completed"]
              b == count'["completed"]
              d == main.folded
              u == unfolded[w]
              v == unfolded'[w]
              i == SamplesDue(worker[w])
              j == SamplesDue(worker'[w])
  <2>1. a \in Int /\ b \in Int /\ d \in Int /\ u \in Int /\ v \in Int /\ i \in Int /\ j \in Int
    BY <1>2, <1>4, AmountTypes DEF OneMoves, Counter
  <2>2. b - v - j = a - u - i
    BY DEF CountersMove
  <2>3. q[w] = v + j /\ p[w] = u + i
    OBVIOUS
  <2>4. n = b - d /\ m = a - d
    <3>1. main' = main
      BY DEF OneMoves
    <3>. HIDE DEF p, q
    <3>. QED BY <3>1
  <2>. HIDE DEF a, b, d, u, v, i, j, n, m, q, p
  <2>. QED BY <2>1, <2>2, <2>3, <2>4
<1>. HIDE DEF f, g, p, q, x, y, m, n
<1>9. y = SumFunction(g)
  <2>1. x \in Int /\ y \in Int /\ x = SumFunction(f)
    BY <1>4, <1>6
  <2>. QED BY <1>1, <1>7, <2>1, KeepsUp
<1>10. n = SumFunction(q)
  <2>1. m \in Int /\ n \in Int /\ m = SumFunction(p)
    BY <1>4, <1>6
  <2>. QED BY <1>3, <1>8, <2>1, KeepsUp
<1>11. count'["completed"] = count'["succeeded"] + count'["failed"] + SumFunction(g)
  BY <1>4, <1>5, <1>9 DEF y, Counter
<1>12. count'["completed"] = main'.folded + SumFunction(q)
  BY <1>4, <1>5, <1>10 DEF n, Counter
<1>. QED BY <1>11, <1>12, Primed DEF g, q

\* The retries the workers may still count, and those they have had, keep up.
LEMMA RetriesStep ==
  ASSUME NEW w \in Workers, OneMoves(w), RetriesInv, RetriesMove(w)
  PROVE  RetriesInv'
<1>. DEFINE f == [v \in Workers |-> Budget(v, worker[v])]
            g == [v \in Workers |-> Budget(v, worker'[v])]
            p == [v \in Workers |-> Spent(v, worker[v])]
            q == [v \in Workers |-> Spent(v, worker'[v])]
            c == kMaxRetryPerSession * count["completed"]
            d == kMaxRetryPerSession * count'["completed"]
            r == count["retried"]
            s == count'["retried"]
            x == r - c
            y == s - d
<1>1. /\ f \in [Workers -> Int] /\ g \in [Workers -> Int]
      /\ \A v \in Workers \ {w} : g[v] = f[v]
  BY AmountTypes DEF OneMoves
<1>2. /\ p \in [Workers -> Int] /\ q \in [Workers -> Int]
      /\ \A v \in Workers \ {w} : q[v] = p[v]
  BY AmountTypes DEF OneMoves
<1>3. /\ c \in Int /\ d \in Int /\ r \in Int /\ s \in Int
  BY DEF OneMoves, TypeOK, Counter
<1>4. SumFunction(f) \in Int /\ SumFunction(p) \in Int /\ SumFunction(g) \in Int
      /\ SumFunction(q) \in Int /\ p[w] \in Int /\ q[w] \in Int
  <2>. HIDE DEF f, g, p, q
  <2>. QED BY <1>1, <1>2, OneChanges
<1>5. r <= c + SumFunction(f) /\ (NobodyStops => SumFunction(p) <= r)
  BY DEF RetriesInv
<1>6. y - g[w] <= x - f[w]
  BY DEF RetriesMove
<1>7. NobodyStops' => NobodyStops /\ q[w] - s <= p[w] - r
  <2>1. SUFFICES ASSUME NobodyStops' PROVE NobodyStops /\ q[w] - s <= p[w] - r
    OBVIOUS
  <2>2. ~ stop' /\ \A v \in Workers : ~ Has(worker'[v].owed, "stop")
    BY <2>1, Primed
  <2>3. ~ stop /\ ~ Has(worker[w].owed, "stop") /\ q[w] - s <= p[w] - r
    BY <2>2 DEF RetriesMove
  <2>4. \A v \in Workers : ~ Has(worker[v].owed, "stop")
    BY <2>2, <2>3 DEF OneMoves
  <2>. QED BY <2>3, <2>4 DEF NobodyStops
<1>. HIDE DEF f, g, p, q, c, d, r, s
<1>8. x \in Int /\ y \in Int /\ x <= SumFunction(f)
  BY <1>3, <1>4, <1>5
<1>9. q[w] - s <= p[w] - r => s - q[w] >= r - p[w]
  BY <1>3, <1>4
<1>10. y <= SumFunction(g)
  <2>. HIDE DEF x, y
  <2>. QED BY <1>1, <1>6, <1>8, KeepsUp
<1>11. s <= d + SumFunction(g)
  BY <1>3, <1>4, <1>10
<1>12. NobodyStops' => SumFunction(q) <= s
  BY <1>2, <1>3, <1>5, <1>7, <1>9, KeepsUp
<1>. QED BY <1>11, <1>12, Primed DEF d, s, g, q

\* What a step of worker w does to the rest of the state: only it counts, and it counts upward;
\* when it raises stop, that is remembered; and once the workers are joined, it counts nothing.
SharedMove(w) ==
  /\ config' = config /\ main' = main /\ timeUp' = timeUp
  /\ count' \in [Counter -> Nat] /\ \A c \in Counter : count[c] <= count'[c]
  /\ stop' \in BOOLEAN /\ aborted' \in BOOLEAN
  /\ (stop => stop') /\ (aborted => aborted') /\ (stop' => stop \/ aborted')
  /\ stray' \in 0..MostStray
  /\ unfolded' \in [Workers -> Nat] /\ \A v \in Workers \ {w} : unfolded'[v] = unfolded[v]
  /\ main.pc \in {"final", "done"} =>
       count' = count /\ unfolded' = unfolded /\ worker'[w].pc = "exited" /\ worker'[w].owed = <<>>

\* The locals of one worker change.
LEMMA OneBecomes ==
  ASSUME TypeOK, NEW w \in Workers, NEW y, Becomes(w, y)
  PROVE  /\ worker'[w] = y /\ \A v \in Workers \ {w} : worker'[v] = worker[v]
         /\ worker' = [v \in Workers |-> worker'[v]]
<1>1. worker = [v \in Workers |-> worker[v]]
  BY DEF TypeOK
<1>. QED BY <1>1 DEF Becomes

\* A worker that changes its locals and counts for it what it should keeps the invariant.
LEMMA WorkerStep ==
  ASSUME EngineInv, NEW w \in Workers, NEW y, WorkerOK(w, y), Becomes(w, y),
         SharedMove(w), RequestsMove(w), CountersMove(w), RetriesMove(w)
  PROVE  EngineInv'
<1>1. /\ worker'[w] = y /\ \A v \in Workers \ {w} : worker'[v] = worker[v]
      /\ worker' = [v \in Workers |-> worker'[v]]
  BY OneBecomes DEF EngineInv
<1>2. \A v \in Workers : WorkerOK(v, worker[v]) /\ WorkerOK(v, worker'[v])
  BY <1>1 DEF EngineInv
<1>3. TypeOK'
  BY <1>1 DEF EngineInv, TypeOK, SharedMove
<1>4. OneMoves(w)
  BY <1>1, <1>2, <1>3 DEF EngineInv, OneMoves, SharedMove
<1>5. RequestsInv' /\ CountersInv' /\ RetriesInv'
  BY <1>4, RequestsStep, CountersStep, RetriesStep DEF EngineInv
<1>6. StopInv'
  <2>1. main' = main /\ timeUp' = timeUp /\ (stop => stop') /\ (aborted => aborted')
        /\ (stop' => stop \/ aborted')
    BY DEF SharedMove
  <2>2. ReachedEnd => ReachedEnd'
    <3>1. count["completed"] \in Nat /\ count'["completed"] \in Nat
          /\ count["completed"] <= count'["completed"]
      BY DEF EngineInv, TypeOK, SharedMove, Counter
    <3>2. ReachedEnd' <=> IF has_requests THEN count'["completed"] >= Requests ELSE timeUp'
      BY DEF ReachedEnd, has_requests, SharedMove
    <3>. QED BY <2>1, <3>1, <3>2 DEF ReachedEnd
  <2>3. main.pc \in {"final", "done"} =>
          \A v \in Workers : worker'[v].pc = "exited" /\ worker'[v].owed = <<>>
    BY <1>1 DEF EngineInv, StopInv, SharedMove
  <2>4. StopInv
    BY DEF EngineInv
  <2>. QED BY <2>1, <2>2, <2>3, <2>4 DEF StopInv
<1>7. ReportInv'
  <2>1. main' = main
    BY DEF SharedMove
  <2>4. main.pc \in {"final", "done"} => count' = count /\ unfolded' = unfolded
    BY DEF SharedMove
  <2>5. ReportInv
    BY DEF EngineInv
  <2>7. main.pc \in {"final", "done"} => \A c \in Reported : Seen(c)' = count'[c]
    <3>1. main.pc \in {"final", "done"} => \A c \in Reported : Seen(c) = count[c]
      BY <2>5 DEF ReportInv
    <3>. QED BY <2>1, <2>4, <3>1 DEF Seen
  <2>. QED BY <2>1, <2>4, <2>5, <2>7 DEF ReportInv
<1>. QED BY <1>2, <1>3, <1>5, <1>6, <1>7, Primed DEF EngineInv

\* Once the workers are joined, they have nothing more to do.
LEMMA Running ==
  ASSUME EngineInv, NEW w \in Workers, worker[w].pc # "exited" \/ worker[w].owed # <<>>
  PROVE  main.pc \notin {"final", "done"}
  BY DEF EngineInv, StopInv

\* The amounts of a worker stay as they are, but for retries it may do no longer.
Keeps(w, x, y) ==
  /\ UnfinishedOf(y) = UnfinishedOf(x)
  /\ ResultsDue(y) = ResultsDue(x) /\ SamplesDue(y) = SamplesDue(x)
  /\ Budget(w, y) >= Budget(w, x)
  /\ Has(x.owed, "stop") => Has(y.owed, "stop")
  /\ ~ stop /\ ~ Has(y.owed, "stop") => Spent(w, y) <= Spent(w, x)

\* A worker that changes only its own locals.
LEMMA LocalStep ==
  ASSUME EngineInv, NEW w \in Workers, NEW x, x = worker[w], NEW y, WorkerOK(w, y),
         Becomes(w, y), OnlyWorker, Keeps(w, x, y),
         \/ x.pc # "exited" \/ x.owed # <<>>
         \/ y.pc = x.pc /\ y.owed = x.owed
  PROVE  EngineInv'
<1>1. worker'[w] = y
  BY OneBecomes DEF EngineInv
<1>2. count' = count /\ stray' = stray /\ unfolded' = unfolded /\ stop' = stop
      /\ aborted' = aborted /\ main' = main /\ config' = config /\ timeUp' = timeUp
  BY DEF OnlyWorker
<1>3. TypeOK /\ StopInv
  BY DEF EngineInv
<1>4. WorkerOK(w, x)
  BY DEF EngineInv
<1>5. SharedMove(w)
  <2>1. \A c \in Counter : count[c] <= count[c]
    BY <1>3 DEF TypeOK
  <2>2. main.pc \in {"final", "done"} => y.pc = "exited" /\ y.owed = <<>>
    BY <1>3, Running DEF StopInv
  <2>. QED BY <1>1, <1>2, <1>3, <2>1, <2>2 DEF SharedMove, TypeOK
<1>6. RequestsMove(w)
  <2>1. has_requests => count["started"] <= Requests
    BY DEF EngineInv, RequestsInv
  <2>. QED BY <1>1, <1>2, <2>1 DEF RequestsMove, Keeps
<1>7. CountersMove(w)
  BY <1>1, <1>2 DEF CountersMove, Keeps
<1>8. RetriesMove(w)
  <2>1. Budget(w, x) \in Int /\ Budget(w, y) \in Int /\ Spent(w, x) \in Int /\ Spent(w, y) \in Int
    BY <1>4, AmountTypes
  <2>2. count["retried"] \in Int /\ kMaxRetryPerSession * count["completed"] \in Int
    BY <1>3 DEF TypeOK, Counter
  <2>3. \A r, c, b, d \in Int : b <= d => r - c - d <= r - c - b
    OBVIOUS
  <2>4. \A r, b, d \in Int : b <= d => b - r <= d - r
    OBVIOUS
  <2>5. Budget(w, x) <= Budget(w, y) /\ (Has(x.owed, "stop") => Has(y.owed, "stop"))
        /\ (~ stop /\ ~ Has(y.owed, "stop") => Spent(w, y) <= Spent(w, x))
    BY <2>1 DEF Keeps
  <2>6. count["retried"] - kMaxRetryPerSession * count["completed"] - Budget(w, y)
          <= count["retried"] - kMaxRetryPerSession * count["completed"] - Budget(w, x)
    BY <2>1, <2>2, <2>3, <2>5
  <2>7. ~ stop /\ ~ Has(y.owed, "stop") =>
          Spent(w, y) - count["retried"] <= Spent(w, x) - count["retried"]
    BY <2>1, <2>2, <2>4, <2>5
  <2>. QED BY <1>1, <1>2, <2>5, <2>6, <2>7 DEF RetriesMove
<1>. QED BY <1>5, <1>6, <1>7, <1>8, WorkerStep

-----------------------------------------------------------------------------
(* The actions of a worker *)

\* What is due from a list of payments.
DueIs(o, completed, results, samples, retried, stops, responded) ==
  /\ One(Has(o, "completed")) = completed
  /\ One(Has(o, "succeeded") \/ Has(o, "failed")) = results
  /\ One(Has(o, "sample")) = samples /\ One(Has(o, "retried")) = retried
  /\ (Has(o, "stop") <=> stops) /\ Responded(o) = responded

\* What is due from the lists a worker comes to owe.
LEMMA DuesAre ==
  /\ DueIs(<<>>, 0, 0, 0, 0, FALSE, 0)
  /\ DueIs(<<"stop">>, 0, 0, 0, 0, TRUE, 0)
  /\ DueIs(<<"retried">>, 0, 0, 0, 1, FALSE, 0)
  /\ DueIs(<<"retried", "stop">>, 0, 0, 0, 1, TRUE, 0)
  /\ DueIs(<<"failed", "completed", "sample">>, 1, 1, 1, 0, FALSE, 0)
  /\ DueIs(<<"succeeded", "completed", "sample">>, 1, 1, 1, 0, FALSE, 0)
  /\ DueIs(<<"completed", "failed", "sample">>, 1, 1, 1, 0, FALSE, 1)
  /\ DueIs(<<"completed", "succeeded", "sample">>, 1, 1, 1, 0, FALSE, 1)
<1>1. DueIs(<<>>, 0, 0, 0, 0, FALSE, 0)
  BY ShortLists DEF DueIs, One, Responded
<1>2. DueIs(<<"stop">>, 0, 0, 0, 0, TRUE, 0)
  BY ShortLists DEF DueIs, One, Responded
<1>3. DueIs(<<"retried">>, 0, 0, 0, 1, FALSE, 0)
  BY ShortLists DEF DueIs, One, Responded
<1>4. DueIs(<<"retried", "stop">>, 0, 0, 0, 1, TRUE, 0)
  BY ShortLists DEF DueIs, One, Responded
<1>5. DueIs(<<"failed", "completed", "sample">>, 1, 1, 1, 0, FALSE, 0)
  BY ShortLists DEF DueIs, One, Responded
<1>6. DueIs(<<"succeeded", "completed", "sample">>, 1, 1, 1, 0, FALSE, 0)
  BY ShortLists DEF DueIs, One, Responded
<1>7. DueIs(<<"completed", "failed", "sample">>, 1, 1, 1, 0, FALSE, 1)
  BY ShortLists DEF DueIs, One, Responded
<1>8. DueIs(<<"completed", "succeeded", "sample">>, 1, 1, 1, 0, FALSE, 1)
  BY ShortLists DEF DueIs, One, Responded
<1>. QED BY <1>1, <1>2, <1>3, <1>4, <1>5, <1>6, <1>7, <1>8

\* The invariant of a worker, its parts.
LEMMA WorkerFacts ==
  ASSUME EngineInv, NEW w \in Workers, NEW x, x = worker[w]
  PROVE  /\ WorkerOK(w, x) /\ WorkerTypes(x) /\ PassKnown(x) /\ SizeKnown(w, x)
         /\ SessionMap(x.sessions, x.next_id) /\ x.next_id \in Nat \ {0}
         /\ x.old \in SessionRecord /\ DOMAIN x = Fields /\ x.pc \in PCs /\ x.owed \in Dues
         /\ Missing(w, x) \in Nat /\ Tried(x) \in Int
  BY AmountTypes DEF EngineInv, WorkerOK, WorkerTypes

\* The socket layer of a worker does not start.
LEMMA StartFailsKeeps ==
  ASSUME EngineInv, NEW w \in Workers, StartFails(w)
  PROVE  EngineInv'
<1>. DEFINE x == worker[w]
            y == [x EXCEPT !.pc = "exited", !.owed = <<"stop">>]
<1>1. Becomes(w, y) /\ OnlyWorker /\ x.pc = "start" /\ x.owed = <<>>
  BY DEF StartFails, At
<1>2. /\ WorkerOK(w, x) /\ WorkerTypes(x) /\ PassKnown(x) /\ SizeKnown(w, x)
      /\ DOMAIN x = Fields /\ Missing(w, x) \in Nat /\ Tried(x) \in Int
  BY WorkerFacts
<1>3. /\ DOMAIN y = Fields /\ y.pc = "exited" /\ y.owed = <<"stop">>
      /\ y.sessions = x.sessions /\ y.next_id = x.next_id /\ y.old = x.old
  BY <1>2 DEF Fields
<1>. HIDE DEF x, y
<1>4. DueIs(x.owed, 0, 0, 0, 0, FALSE, 0) /\ DueIs(y.owed, 0, 0, 0, 0, TRUE, 0)
  BY <1>1, <1>3, DuesAre
<1>5. WorkerOK(w, y)
  <2>1. WorkerTypes(y)
    BY <1>2, <1>3 DEF WorkerTypes, PCs, Dues
  <2>2. PassKnown(y)
    BY <1>1, <1>2, <1>3 DEF PassKnown
  <2>3. SizeKnown(w, y)
    BY <1>1, <1>2, <1>3, <1>4 DEF SizeKnown, DueIs, One
  <2>. QED BY <2>1, <2>2, <2>3 DEF WorkerOK
<1>6. Keeps(w, x, y)
  <2>1. Missing(w, y) \in Nat /\ Missing(w, x) = 0
    BY <1>1, <1>5, AmountTypes DEF Missing
  <2>2. Tried(y) = Tried(x)
    BY <1>3, <1>4 DEF Tried, DueIs
  <2>3. Budget(w, x) <= Budget(w, y)
    BY <1>2, <1>4, <2>1, <2>2 DEF Budget, DueIs
  <2>. QED BY <1>1, <1>3, <1>4, <2>3 DEF Keeps, UnfinishedOf, ResultsDue, SamplesDue, DueIs, One
<1>. QED BY <1>1, <1>5, <1>6, LocalStep DEF x

\* A worker goes on with the same sessions, or gives up.
LEMMA SameSessions ==
  ASSUME EngineInv, NEW w \in Workers, NEW x, x = worker[w], NEW y, Becomes(w, y), OnlyWorker,
         x.pc \in {"loop", "send", "events"}, x.owed = <<>>,
         DOMAIN y = Fields, y.pc \in {"loop", "send", "events", "exited"},
         y.sessions = x.sessions, y.next_id = x.next_id, y.old = x.old,
         y.owed \in {<<>>, <<"stop">>}, PassKnown(y)
  PROVE  EngineInv'
<1>1. /\ WorkerTypes(x) /\ SizeKnown(w, x) /\ Missing(w, x) \in Nat /\ Tried(x) \in Int
  BY WorkerFacts
<1>2. DueIs(x.owed, 0, 0, 0, 0, FALSE, 0)
  BY DuesAre
<1>3. DueIs(y.owed, 0, 0, 0, 0, Has(y.owed, "stop"), 0)
  BY DuesAre DEF DueIs
<1>4. WorkerOK(w, y)
  <2>1. WorkerTypes(y)
    BY <1>1 DEF WorkerTypes, PCs, Dues
  <2>2. SizeKnown(w, y)
    BY <1>1, <1>2, <1>3 DEF SizeKnown, DueIs, One
  <2>. QED BY <2>1, <2>2 DEF WorkerOK
<1>5. Keeps(w, x, y)
  <2>1. Missing(w, y) = Missing(w, x)
    BY DEF Missing, One
  <2>2. Tried(y) = Tried(x)
    BY <1>2, <1>3 DEF Tried, DueIs
  <2>3. Budget(w, x) = Budget(w, y) /\ Budget(w, x) \in Int
    BY <1>2, <1>3, <2>1, <2>2, WorkerFacts, AmountTypes DEF Budget, DueIs
  <2>4. Spent(w, y) <= Spent(w, x)
    <3>. DEFINE k == kMaxRetryPerSession
    <3>1. Spent(w, x) = k * Missing(w, x) + Tried(x)
      BY DEF Spent
    <3>2. Spent(w, y) = k * Missing(w, x) + Tried(x) \/ Spent(w, y) = k * 0 + Tried(x)
      BY <2>1, <2>2 DEF Spent
    <3>3. k * Missing(w, x) \in Nat /\ k * 0 = 0
      BY <1>1
    <3>. QED BY <1>1, <3>1, <3>2, <3>3
  <2>. QED BY <1>2, <1>3, <2>3, <2>4 DEF Keeps, UnfinishedOf, ResultsDue, SamplesDue, DueIs, One
<1>. QED BY <1>4, <1>5, LocalStep

\* A round of the loop begins, or stop is seen.
LEMMA LoopTopKeeps ==
  ASSUME EngineInv, NEW w \in Workers, LoopTop(w)
  PROVE  EngineInv'
<1>. DEFINE x == worker[w]
            a == [x EXCEPT !.pc = "exited"]
            b == [x EXCEPT !.pc = "send", !.todo = Sendable(x.sessions)]
<1>1. (Becomes(w, a) \/ Becomes(w, b)) /\ OnlyWorker /\ x.pc = "loop" /\ x.owed = <<>>
  BY DEF LoopTop, At
<1>2. DOMAIN x = Fields /\ PassKnown(x)
  BY WorkerFacts
<1>3. /\ DOMAIN a = Fields /\ a.pc = "exited" /\ a.owed = x.owed
      /\ a.sessions = x.sessions /\ a.next_id = x.next_id /\ a.old = x.old
  BY <1>2 DEF Fields
<1>4. /\ DOMAIN b = Fields /\ b.pc = "send" /\ b.owed = x.owed /\ b.todo = Sendable(x.sessions)
      /\ b.sessions = x.sessions /\ b.next_id = x.next_id /\ b.old = x.old
  BY <1>2 DEF Fields
<1>5. PassKnown(a)
  BY <1>1, <1>2, <1>3 DEF PassKnown
<1>6. PassKnown(b)
  BY <1>1, <1>2, <1>4 DEF PassKnown, Sendable
<1>. HIDE DEF a, b
<1>. QED BY <1>1, <1>3, <1>4, <1>5, <1>6, SameSessions

\* The send pass is over.
LEMMA PollOnceKeeps ==
  ASSUME EngineInv, NEW w \in Workers, PollOnce(w)
  PROVE  EngineInv'
<1>. DEFINE x == worker[w]
            y == [x EXCEPT !.pc = "events", !.todo = {}, !.gone = {},
                           !.polled = DOMAIN x.sessions]
<1>1. Becomes(w, y) /\ OnlyWorker /\ x.pc = "send" /\ x.owed = <<>>
  BY DEF PollOnce, At
<1>2. DOMAIN x = Fields /\ PassKnown(x)
  BY WorkerFacts
<1>3. /\ DOMAIN y = Fields /\ y.pc = "events" /\ y.owed = x.owed /\ y.polled = DOMAIN x.sessions
      /\ y.sessions = x.sessions /\ y.next_id = x.next_id /\ y.old = x.old
  BY <1>2 DEF Fields
<1>4. PassKnown(y)
  BY <1>1, <1>2, <1>3 DEF PassKnown
<1>. HIDE DEF y
<1>. QED BY <1>1, <1>3, <1>4, SameSessions

\* Polling fails.
LEMMA PollFailsKeeps ==
  ASSUME EngineInv, NEW w \in Workers, PollFails(w)
  PROVE  EngineInv'
<1>. DEFINE x == worker[w]
            y == [x EXCEPT !.pc = "exited", !.owed = <<"stop">>]
<1>1. Becomes(w, y) /\ OnlyWorker /\ x.pc = "send" /\ x.owed = <<>>
  BY DEF PollFails, At
<1>2. DOMAIN x = Fields /\ PassKnown(x)
  BY WorkerFacts
<1>3. /\ DOMAIN y = Fields /\ y.pc = "exited" /\ y.owed = <<"stop">>
      /\ y.sessions = x.sessions /\ y.next_id = x.next_id /\ y.old = x.old
  BY <1>2 DEF Fields
<1>4. PassKnown(y)
  BY <1>1, <1>2, <1>3 DEF PassKnown
<1>. HIDE DEF y
<1>. QED BY <1>1, <1>3, <1>4, SameSessions

\* An event of a connection that is gone is passed over.
LEMMA UnknownConnectionKeeps ==
  ASSUME EngineInv, NEW w \in Workers, NEW c, UnknownConnection(w, c)
  PROVE  EngineInv'
<1>. DEFINE x == worker[w]
            y == [x EXCEPT !.gone = @ \ {c}]
<1>1. Becomes(w, y) /\ OnlyWorker /\ x.pc = "events" /\ x.owed = <<>>
  BY DEF UnknownConnection, At
<1>2. DOMAIN x = Fields /\ PassKnown(x)
  BY WorkerFacts
<1>3. /\ DOMAIN y = Fields /\ y.pc = x.pc /\ y.owed = x.owed /\ y.polled = x.polled
      /\ y.sessions = x.sessions /\ y.next_id = x.next_id /\ y.old = x.old
  BY <1>2 DEF Fields
<1>4. PassKnown(y)
  BY <1>1, <1>2, <1>3 DEF PassKnown
<1>. HIDE DEF y
<1>. QED BY <1>1, <1>3, <1>4, SameSessions

\* The events are dealt with.
LEMMA EventsDoneKeeps ==
  ASSUME EngineInv, NEW w \in Workers, EventsDone(w)
  PROVE  EngineInv'
<1>. DEFINE x == worker[w]
            y == [x EXCEPT !.pc = "loop", !.polled = {}, !.gone = {}]
<1>1. Becomes(w, y) /\ OnlyWorker /\ x.pc = "events" /\ x.owed = <<>>
  BY DEF EventsDone, At
<1>2. DOMAIN x = Fields /\ PassKnown(x)
  BY WorkerFacts
<1>3. /\ DOMAIN y = Fields /\ y.pc = "loop" /\ y.owed = x.owed
      /\ y.sessions = x.sessions /\ y.next_id = x.next_id /\ y.old = x.old
  BY <1>2 DEF Fields
<1>4. PassKnown(y)
  BY <1>1, <1>2, <1>3 DEF PassKnown
<1>. HIDE DEF y
<1>. QED BY <1>1, <1>3, <1>4, SameSessions

\* A session has waited long enough.
LEMMA BackoffOverKeeps ==
  ASSUME EngineInv, NEW w \in Workers, NEW c \in DOMAIN worker[w].sessions, BackoffOver(w, c)
  PROVE  EngineInv'
<1>. DEFINE x == worker[w]
            y == [x EXCEPT !.sessions[c].backoff = FALSE]
            s == [x.sessions[c] EXCEPT !.backoff = FALSE]
            f == x.sessions
            g == y.sessions
<1>1. Becomes(w, y) /\ OnlyWorker
  BY DEF BackoffOver
<1>2. /\ WorkerTypes(x) /\ PassKnown(x) /\ SizeKnown(w, x)
      /\ DOMAIN x = Fields /\ SessionMap(f, x.next_id) /\ x.next_id \in Nat \ {0}
  BY WorkerFacts
<1>3. /\ DOMAIN y = Fields /\ y.pc = x.pc /\ y.owed = x.owed /\ y.todo = x.todo
      /\ y.conn = x.conn /\ y.polled = x.polled /\ y.next_id = x.next_id /\ y.old = x.old
      /\ Changed(f, c, s, g)
  BY <1>2 DEF Fields, Changed
<1>4. f[c] \in SessionRecord
  BY <1>2 DEF SessionMap
<1>5. s \in SessionRecord /\ s.in_flight = f[c].in_flight /\ s.retries = f[c].retries
  BY <1>4 DEF SessionRecord
<1>6. c \in DOMAIN f
  OBVIOUS
<1>. HIDE DEF x, y, f, g, s
<1>7. /\ SessionMap(g, x.next_id) /\ DOMAIN g = DOMAIN f
      /\ g[c] = s /\ \A d \in DOMAIN f \ {c} : g[d] = f[d]
      /\ InFlight(g) = InFlight(f) - One(f[c].in_flight) + One(s.in_flight)
      /\ RetriesOf(g) = RetriesOf(f) - f[c].retries + s.retries
  BY <1>2, <1>3, <1>5, <1>6, MapUpdated
<1>8. InFlight(g) = InFlight(f) /\ RetriesOf(g) = RetriesOf(f)
  <2>1. InFlight(f) \in Nat /\ RetriesOf(f) \in Int
    BY <1>2, MapFacts
  <2>2. f[c].retries \in Int /\ One(f[c].in_flight) \in Int
    BY <1>4 DEF SessionRecord, One
  <2>. QED BY <1>5, <1>7, <2>1, <2>2
<1>9. \A d \in DOMAIN f : g[d].in_flight = f[d].in_flight
  BY <1>5, <1>6, <1>7
<1>10. WorkerOK(w, y)
  <2>1. WorkerTypes(y)
    BY <1>2, <1>3, <1>7 DEF WorkerTypes, g
  <2>2. PassKnown(y)
    BY <1>2, <1>3, <1>7, <1>9 DEF PassKnown, f, g
  <2>3. SizeKnown(w, y)
    BY <1>2, <1>3, <1>7, <1>8 DEF SizeKnown, f, g
  <2>. QED BY <2>1, <2>2, <2>3 DEF WorkerOK
<1>11. Keeps(w, x, y)
  <2>1. Missing(w, y) = Missing(w, x) /\ Tried(y) = Tried(x)
    BY <1>3, <1>7, <1>8 DEF Missing, Tried, f, g
  <2>2. Budget(w, y) = Budget(w, x) /\ Spent(w, y) = Spent(w, x)
    BY <1>3, <2>1 DEF Budget, Spent
  <2>3. Budget(w, y) \in Int /\ Spent(w, y) \in Int
    BY <1>10, AmountTypes
  <2>. QED BY <1>3, <1>8, <2>2, <2>3 DEF Keeps, UnfinishedOf, ResultsDue, SamplesDue, f, g
<1>. QED BY <1>1, <1>3, <1>10, <1>11, LocalStep DEF x

\* The first sessions of a worker.
LEMMA NewMap ==
  ASSUME NEW n \in Nat, NEW f, f = [c \in 1..n |-> NewSession]
  PROVE  /\ SessionMap(f, n + 1) /\ Cardinality(DOMAIN f) = n
         /\ InFlight(f) = 0 /\ RetriesOf(f) = 0
<1>1. NewSession \in SessionRecord /\ ~ NewSession.in_flight /\ NewSession.retries = 0
  BY DEF NewSession, SessionRecord
<1>2. SessionMap(f, n + 1)
  BY <1>1 DEF SessionMap
<1>. DEFINE D == 1..n
            B == {c \in DOMAIN f : f[c].in_flight}
            r == [c \in DOMAIN f |-> f[c].retries]
<1>3. IsFiniteSet(D) /\ Cardinality(D) = n
  BY FS_Interval
<1>4. DOMAIN f = D /\ B = {}
  BY <1>1
<1>5. r \in [D -> Int] /\ \A c \in D : r[c] = 0
  BY <1>1
<1>6. InFlight(f) = Cardinality(B) /\ RetriesOf(f) = SumFunction(r)
  BY DEF InFlight, RetriesOf
<1>. HIDE DEF D, B, r
<1>7. Cardinality(B) = 0
  BY <1>4, FS_EmptySet
<1>8. SumFunction(r) = 0
  BY <1>3, <1>5, SumZero
<1>. QED BY <1>2, <1>3, <1>4, <1>6, <1>7, <1>8

\* The first sessions are created, all of them or fewer.
LEMMA CreateSessionsKeeps ==
  ASSUME EngineInv, NEW w \in Workers, CreateSessions(w)
  PROVE  EngineInv'
<1>. DEFINE x == worker[w]
            z(n) == [x EXCEPT
                       !.pc = "loop", !.sessions = [c \in 1..n |-> NewSession], !.next_id = n + 1,
                       !.owed = IF n < worker_concurrency[w] THEN <<"stop">> ELSE <<>>]
<1>1. PICK n \in 0..worker_concurrency[w] : Becomes(w, z(n))
  BY DEF CreateSessions
<1>2. OnlyWorker /\ x.pc = "start" /\ x.owed = <<>>
  BY DEF CreateSessions, At
<1>. DEFINE y == z(n)
            f == x.sessions
            g == y.sessions
            m == worker_concurrency[w]
            k == kMaxRetryPerSession
<1>3. /\ WorkerTypes(x) /\ PassKnown(x) /\ DOMAIN x = Fields
      /\ SessionMap(f, x.next_id) /\ x.next_id \in Nat \ {0}
  BY WorkerFacts
<1>4. /\ DOMAIN y = Fields /\ y.pc = "loop" /\ y.old = x.old /\ y.next_id = n + 1
      /\ y.sessions = [c \in 1..n |-> NewSession]
      /\ y.owed = IF n < m THEN <<"stop">> ELSE <<>>
  BY <1>3 DEF Fields
<1>5. m \in Nat /\ n \in Nat /\ n <= m
  BY WorkersAre
<1>6. Becomes(w, y)
  BY <1>1
<1>. HIDE DEF x, z
<1>7. SessionMap(g, n + 1) /\ Cardinality(DOMAIN g) = n /\ InFlight(g) = 0 /\ RetriesOf(g) = 0
  BY <1>4, <1>5, NewMap
<1>8. DOMAIN f = {} /\ x.old.retries = 0
  BY <1>2, <1>3 DEF PassKnown
<1>9. Cardinality(DOMAIN f) = 0 /\ InFlight(f) = 0 /\ RetriesOf(f) = 0
  BY <1>3, <1>8, MapEmpty
<1>10. DueIs(x.owed, 0, 0, 0, 0, FALSE, 0)
  BY <1>2, DuesAre
<1>11. DueIs(y.owed, 0, 0, 0, 0, n < m, 0)
  <2>. HIDE DEF y, m
  <2>1. CASE n < m
    BY <1>4, <2>1, DuesAre DEF DueIs
  <2>2. CASE ~ (n < m)
    BY <1>4, <2>2, DuesAre DEF DueIs
  <2>. QED BY <2>1, <2>2
<1>. HIDE DEF y
<1>12. WorkerOK(w, y)
  <2>1. WorkerTypes(y)
    BY <1>3, <1>4, <1>5, <1>7 DEF WorkerTypes, PCs, Dues
  <2>2. PassKnown(y)
    BY <1>4, <1>8 DEF PassKnown
  <2>3. SizeKnown(w, y)
    <3>1. One(y.pc = "retry") = 0 /\ ~ Has(y.owed, "retried") /\ Responded(y.owed) = 0
      BY <1>4, <1>11 DEF One, DueIs
    <3>2. k * n \in Nat /\ k * 0 = 0
      BY <1>5
    <3>. QED BY <1>5, <1>7, <3>1, <3>2 DEF SizeKnown
  <2>. QED BY <2>1, <2>2, <2>3 DEF WorkerOK
<1>13. Keeps(w, x, y)
  <2>1. Missing(w, x) = 0 /\ Missing(w, y) = m - n
    <3>1. One(y.pc = "retry") = 0
      BY <1>4 DEF One
    <3>. QED BY <1>2, <1>4, <1>5, <1>7, <3>1 DEF Missing
  <2>2. Tried(x) = 0 /\ Tried(y) = 0
    BY <1>4, <1>7, <1>8, <1>9, <1>10, <1>11 DEF Tried, DueIs
  <2>3. k * (m - n) \in Nat /\ k * 0 = 0
    <3>1. m - n \in Nat
      BY <1>5
    <3>. QED BY <3>1
  <2>4. Budget(w, x) = 0 /\ Budget(w, y) = k * (m - n)
    <3>1. Responded(x.owed) = 0 /\ Responded(y.owed) = 0
      BY <1>10, <1>11 DEF DueIs
    <3>2. Budget(w, x) = k * (0 + 0) + 0 /\ Budget(w, y) = k * (m - n + 0) + 0
      BY <2>1, <2>2, <3>1 DEF Budget
    <3>. QED BY <1>5, <2>3, <3>2
  <2>5. ~ Has(y.owed, "stop") => Spent(w, y) = 0 /\ Spent(w, x) = 0
    <3>1. ~ Has(y.owed, "stop") => m - n = 0
      <4>1. Has(y.owed, "stop") <=> n < m
        BY <1>11 DEF DueIs
      <4>. HIDE DEF m
      <4>. QED BY <1>5, <4>1
    <3>. QED BY <1>2, <1>4, <2>1, <2>2, <2>3, <3>1 DEF Spent
  <2>6. UnfinishedOf(x) = 0 /\ UnfinishedOf(y) = 0 /\ ResultsDue(x) = 0 /\ ResultsDue(y) = 0
        /\ SamplesDue(x) = 0 /\ SamplesDue(y) = 0 /\ ~ Has(x.owed, "stop")
    BY <1>2, <1>4, <1>7, <1>9, <1>10, <1>11 DEF UnfinishedOf, ResultsDue, SamplesDue, DueIs, One
  <2>. QED BY <2>3, <2>4, <2>5, <2>6 DEF Keeps
<1>. QED BY <1>2, <1>6, <1>12, <1>13, LocalStep DEF x

\* A request is over as soon as it is queued, or it could not be.
LEMMA SentAndOver ==
  ASSUME EngineInv, NEW w \in Workers, NEW x, x = worker[w], NEW y, Becomes(w, y), OnlyWorker,
         x.pc = "token", x.owed = <<>>, DOMAIN y = Fields, y.pc = "send",
         y.sessions = x.sessions, y.next_id = x.next_id, y.old = x.old, y.todo = x.todo,
         y.owed \in {<<"failed", "completed", "sample">>, <<"succeeded", "completed", "sample">>}
  PROVE  EngineInv'
<1>1. /\ WorkerOK(w, x) /\ WorkerTypes(x) /\ PassKnown(x) /\ SizeKnown(w, x)
      /\ SessionMap(x.sessions, x.next_id) /\ x.next_id \in Nat \ {0}
  BY WorkerFacts
<1>2. DueIs(x.owed, 0, 0, 0, 0, FALSE, 0) /\ DueIs(y.owed, 1, 1, 1, 0, FALSE, 0)
  BY DuesAre
<1>3. WorkerOK(w, y)
  <2>1. WorkerTypes(y)
    BY <1>1 DEF WorkerTypes, PCs, Dues
  <2>2. PassKnown(y)
    BY <1>1 DEF PassKnown
  <2>3. SizeKnown(w, y)
    BY <1>1, <1>2 DEF SizeKnown, DueIs, One
  <2>. QED BY <2>1, <2>2, <2>3 DEF WorkerOK
<1>4. Keeps(w, x, y)
  <2>1. Missing(w, y) = Missing(w, x) /\ Tried(y) = Tried(x)
    BY <1>2 DEF Missing, Tried, One, DueIs
  <2>2. Budget(w, y) = Budget(w, x) /\ Spent(w, y) = Spent(w, x)
    BY <1>2, <2>1 DEF Budget, Spent, DueIs
  <2>3. Budget(w, y) \in Int /\ Spent(w, y) \in Int
    BY <1>3, AmountTypes
  <2>4. InFlight(x.sessions) \in Int
    BY <1>1, MapFacts
  <2>5. UnfinishedOf(y) = UnfinishedOf(x)
    BY <1>2, <2>4 DEF UnfinishedOf, One, DueIs
  <2>. QED BY <1>2, <2>2, <2>3, <2>5 DEF Keeps, ResultsDue, SamplesDue, DueIs
<1>. QED BY <1>3, <1>4, LocalStep

\* A request is sent, or fails, or is over as soon as it is queued.
LEMMA SendKeeps ==
  ASSUME EngineInv, NEW w \in Workers, Send(w)
  PROVE  EngineInv'
<1>. DEFINE x == worker[w]
            sent == [x EXCEPT !.pc = "send", !.conn = 0]
            a == [sent EXCEPT !.owed = <<"failed", "completed", "sample">>]
            b == [sent EXCEPT !.owed = <<"succeeded", "completed", "sample">>]
            y == [sent EXCEPT !.sessions[x.conn].in_flight = TRUE]
            s == [x.sessions[x.conn] EXCEPT !.in_flight = TRUE]
            f == x.sessions
            g == y.sessions
            c == x.conn
<1>1. (Becomes(w, a) \/ Becomes(w, b) \/ Becomes(w, y)) /\ OnlyWorker
      /\ x.pc = "token" /\ x.owed = <<>>
  BY DEF Send, At
<1>2. /\ WorkerTypes(x) /\ PassKnown(x) /\ SizeKnown(w, x)
      /\ DOMAIN x = Fields /\ SessionMap(f, x.next_id) /\ x.next_id \in Nat \ {0}
  BY WorkerFacts
<1>3. CASE Becomes(w, a)
  <2>1. /\ DOMAIN a = Fields /\ a.pc = "send" /\ a.owed = <<"failed", "completed", "sample">>
        /\ a.sessions = x.sessions /\ a.next_id = x.next_id /\ a.old = x.old /\ a.todo = x.todo
    BY <1>2 DEF Fields
  <2>. HIDE DEF a
  <2>. QED BY <1>1, <1>3, <2>1, SentAndOver
<1>4. CASE Becomes(w, b)
  <2>1. /\ DOMAIN b = Fields /\ b.pc = "send" /\ b.owed = <<"succeeded", "completed", "sample">>
        /\ b.sessions = x.sessions /\ b.next_id = x.next_id /\ b.old = x.old /\ b.todo = x.todo
    BY <1>2 DEF Fields
  <2>. HIDE DEF b
  <2>. QED BY <1>1, <1>4, <2>1, SentAndOver
<1>5. CASE Becomes(w, y)
  <2>1. /\ DOMAIN y = Fields /\ y.pc = "send" /\ y.owed = x.owed /\ y.todo = x.todo
        /\ y.next_id = x.next_id /\ y.old = x.old /\ Changed(f, c, s, g)
    BY <1>2 DEF Fields, Changed
  <2>2. c \in DOMAIN f /\ c \notin x.todo /\ ~ f[c].in_flight
    BY <1>1, <1>2 DEF PassKnown
  <2>3. f[c] \in SessionRecord
    BY <1>2, <2>2 DEF SessionMap
  <2>4. s \in SessionRecord /\ s.in_flight = TRUE /\ s.retries = f[c].retries
    BY <2>3 DEF SessionRecord
  <2>. HIDE DEF x, y, f, g, s, c
  <2>5. /\ SessionMap(g, x.next_id) /\ DOMAIN g = DOMAIN f
        /\ g[c] = s /\ \A d \in DOMAIN f \ {c} : g[d] = f[d]
        /\ InFlight(g) = InFlight(f) - One(f[c].in_flight) + One(s.in_flight)
        /\ RetriesOf(g) = RetriesOf(f) - f[c].retries + s.retries
    BY <1>2, <2>1, <2>2, <2>4, MapUpdated
  <2>6. InFlight(f) \in Int /\ InFlight(g) = InFlight(f) + 1 /\ RetriesOf(g) = RetriesOf(f)
    <3>1. InFlight(f) \in Nat /\ RetriesOf(f) \in Int
      BY <1>2, MapFacts
    <3>2. f[c].retries \in Int /\ One(f[c].in_flight) = 0 /\ One(s.in_flight) = 1
      BY <2>2, <2>3, <2>4 DEF SessionRecord, One
    <3>. QED BY <2>4, <2>5, <3>1, <3>2
  <2>7. \A d \in x.todo : d \in DOMAIN g /\ ~ g[d].in_flight
    <3>1. \A d \in x.todo : d \in DOMAIN f /\ ~ f[d].in_flight
      BY <1>1, <1>2 DEF PassKnown, f
    <3>. QED BY <2>2, <2>5, <3>1
  <2>8. WorkerOK(w, y)
    <3>1. WorkerTypes(y)
      BY <1>2, <2>1, <2>5 DEF WorkerTypes, g, PCs
    <3>2. PassKnown(y)
      BY <1>1, <1>2, <2>1, <2>7 DEF PassKnown, g
    <3>3. SizeKnown(w, y)
      BY <1>1, <1>2, <2>1, <2>5, <2>6 DEF SizeKnown, f, g, One
    <3>. QED BY <3>1, <3>2, <3>3 DEF WorkerOK
  <2>9. Keeps(w, x, y)
    <3>1. Missing(w, y) = Missing(w, x) /\ Tried(y) = Tried(x)
      BY <1>1, <2>1, <2>5, <2>6 DEF Missing, Tried, f, g, One
    <3>2. Budget(w, y) = Budget(w, x) /\ Spent(w, y) = Spent(w, x)
      BY <1>1, <2>1, <3>1 DEF Budget, Spent
    <3>3. Budget(w, y) \in Int /\ Spent(w, y) \in Int
      BY <2>8, AmountTypes
    <3>4. UnfinishedOf(y) = UnfinishedOf(x)
      <4>1. One(Has(x.owed, "completed")) = 0 /\ y.owed = x.owed
        BY <1>1, <2>1, DuesAre DEF DueIs
      <4>2. One(x.pc = "token") = 1 /\ One(y.pc = "token") = 0
        BY <1>1, <2>1 DEF One
      <4>3. UnfinishedOf(x) = InFlight(f) + 1 + 0 /\ UnfinishedOf(y) = InFlight(f) + 1 + 0 + 0
        BY <2>6, <4>1, <4>2 DEF UnfinishedOf, f, g
      <4>. QED BY <2>6, <4>3
    <3>. QED BY <2>1, <3>2, <3>3, <3>4 DEF Keeps, ResultsDue, SamplesDue
  <2>. QED BY <1>1, <1>5, <2>8, <2>9, LocalStep DEF x
<1>. QED BY <1>1, <1>3, <1>4, <1>5

\* A connection has an error: its session is erased and its request has failed.
LEMMA ErrorEventKeeps ==
  ASSUME EngineInv, NEW w \in Workers, NEW c, ErrorEvent(w, c)
  PROVE  EngineInv'
<1>. DEFINE x == worker[w]
            s == x.sessions[c]
            y == [x EXCEPT !.pc = "retry", !.old = s, !.owed = Lost(s),
                    !.polled = @ \ {c}, !.sessions = Without(@, c),
                    !.gone = IF s.in_flight \/ ~Http THEN @ \cup {c} ELSE @]
            f == x.sessions
            g == y.sessions
            k == kMaxRetryPerSession
            l == One(s.in_flight)
<1>1. Becomes(w, y) /\ OnlyWorker /\ x.pc = "events" /\ x.owed = <<>> /\ c \in x.polled
  BY DEF ErrorEvent, At
<1>2. /\ WorkerTypes(x) /\ PassKnown(x) /\ SizeKnown(w, x)
      /\ DOMAIN x = Fields /\ SessionMap(f, x.next_id) /\ x.next_id \in Nat \ {0}
  BY WorkerFacts
<1>3. /\ DOMAIN y = Fields /\ y.pc = "retry" /\ y.owed = Lost(s) /\ y.polled = x.polled \ {c}
      /\ y.next_id = x.next_id /\ y.old = s /\ y.sessions = Without(f, c)
  BY <1>2 DEF Fields
<1>4. c \in DOMAIN f /\ x.polled \subseteq DOMAIN f /\ x.old.retries = 0
  BY <1>1, <1>2 DEF PassKnown
<1>5. s \in SessionRecord /\ f[c] = s
  BY <1>2, <1>4 DEF SessionMap
<1>. HIDE DEF x, y, f, s
<1>6. Removed(f, x.next_id, c, Without(f, c))
  BY <1>2, <1>4, MapWithout
<1>7. Removed(f, x.next_id, c, g)
  BY <1>3, <1>6
<1>8. /\ SessionMap(g, x.next_id) /\ DOMAIN g = DOMAIN f \ {c}
      /\ Cardinality(DOMAIN f) = Cardinality(DOMAIN g) + 1
      /\ InFlight(f) = InFlight(g) + l /\ RetriesOf(f) = RetriesOf(g) + s.retries
  BY <1>5, <1>7 DEF Removed
<1>9. /\ Cardinality(DOMAIN g) \in Int /\ InFlight(g) \in Int /\ RetriesOf(g) \in Int
      /\ RetriesOf(g) <= k * Cardinality(DOMAIN g) /\ s.retries \in Int /\ l \in {0, 1}
  <2>1. SessionMap(g, x.next_id) /\ x.next_id \in Nat
    BY <1>2, <1>8
  <2>2. s.retries \in Int /\ l \in {0, 1}
    BY <1>5 DEF SessionRecord, One
  <2>. HIDE DEF g, l
  <2>3. /\ Cardinality(DOMAIN g) \in Nat /\ InFlight(g) \in Nat /\ RetriesOf(g) \in Int
        /\ RetriesOf(g) <= kMaxRetryPerSession * Cardinality(DOMAIN g)
    BY <2>1, MapFacts
  <2>. QED BY <2>2, <2>3
<1>10. DueIs(x.owed, 0, 0, 0, 0, FALSE, 0)
  BY <1>1, DuesAre
<1>11. y.owed \in Dues /\ DueIs(y.owed, l, l, l, 0, FALSE, 0)
  BY <1>3, DuesAre DEF Lost, Dues, One
<1>. HIDE DEF g, l
<1>12. WorkerOK(w, y)
  <2>1. WorkerTypes(y)
    BY <1>2, <1>3, <1>5, <1>8, <1>11 DEF WorkerTypes, g, PCs
  <2>2. PassKnown(y)
    BY <1>3, <1>4, <1>8 DEF PassKnown, g
  <2>3. SizeKnown(w, y)
    <3>1. Cardinality(DOMAIN f) + 0 <= worker_concurrency[w]
      BY <1>1, <1>2 DEF SizeKnown, f, One
    <3>2. Cardinality(DOMAIN g) + 1 <= worker_concurrency[w]
      BY <1>8, <1>9, <3>1
    <3>3. Responded(y.owed) = 0 /\ ~ Has(y.owed, "retried") /\ One(y.pc = "retry") = 1
      BY <1>3, <1>11 DEF DueIs, One
    <3>4. RetriesOf(g) + k * 0 <= k * Cardinality(DOMAIN g)
      BY <1>9
    <3>. QED BY <3>2, <3>3, <3>4 DEF SizeKnown, g
  <2>. QED BY <2>1, <2>2, <2>3 DEF WorkerOK
<1>13. Keeps(w, x, y)
  <2>1. Missing(w, x) = worker_concurrency[w] - Cardinality(DOMAIN f) - 0
        /\ Missing(w, y) = worker_concurrency[w] - Cardinality(DOMAIN g) - 1
    BY <1>1, <1>3 DEF Missing, f, g, One
  <2>2. Missing(w, y) = Missing(w, x)
    <3>. DEFINE m == worker_concurrency[w]
                a == Cardinality(DOMAIN f)
                b == Cardinality(DOMAIN g)
    <3>1. m \in Int /\ b \in Int /\ a = b + 1
      BY <1>8, <1>9, WorkersAre
    <3>. HIDE DEF m, a, b
    <3>2. m - a - 0 = m - b - 1
      BY <3>1
    <3>. QED BY <2>1, <3>2 DEF m, a, b
  <2>3. Tried(x) = RetriesOf(f) + 0 - 0 /\ Tried(y) = RetriesOf(g) + s.retries - 0
    BY <1>3, <1>4, <1>10, <1>11 DEF Tried, DueIs, f, g
  <2>4. Tried(y) = Tried(x)
    BY <1>8, <1>9, <2>3
  <2>5. Budget(w, y) = Budget(w, x) /\ Spent(w, y) = Spent(w, x)
    BY <1>1, <1>3, <1>10, <1>11, <2>2, <2>4 DEF Budget, Spent, DueIs
  <2>6. Budget(w, y) \in Int /\ Spent(w, y) \in Int
    BY <1>12, AmountTypes
  <2>7. UnfinishedOf(x) = InFlight(f) + 0 + 0 /\ UnfinishedOf(y) = InFlight(g) + 0 + l
    BY <1>1, <1>3, <1>10, <1>11 DEF UnfinishedOf, DueIs, One, f, g
  <2>8. UnfinishedOf(y) = UnfinishedOf(x)
    BY <1>8, <1>9, <2>7
  <2>9. /\ ResultsDue(y) = ResultsDue(x) /\ SamplesDue(y) = SamplesDue(x)
        /\ ~ Has(x.owed, "stop")
    BY <1>9, <1>10, <1>11 DEF ResultsDue, SamplesDue, DueIs
  <2>. QED BY <2>5, <2>6, <2>8, <2>9 DEF Keeps
<1>. QED BY <1>1, <1>12, <1>13, LocalStep DEF x

\* The session an error event was for is dropped.
LEMMA SessionDropped ==
  ASSUME EngineInv, NEW w \in Workers, NEW x, x = worker[w], NEW y, Becomes(w, y), OnlyWorker,
         x.pc = "retry", x.owed = <<>>, DOMAIN y = Fields,
         y.sessions = x.sessions, y.next_id = x.next_id, y.old = NewSession,
         \/ /\ y.pc = "events" /\ y.owed = <<>> /\ y.polled = x.polled
            /\ stop \/ x.old.retries >= kMaxRetryPerSession
         \/ /\ y.pc = "loop" /\ y.owed = <<"retried", "stop">>
            /\ x.old.retries < kMaxRetryPerSession
  PROVE  EngineInv'
<1>. DEFINE k == kMaxRetryPerSession
            p == x.old.retries
            i == Missing(w, x)
            r == RetriesOf(x.sessions)
            d == One(Has(y.owed, "retried"))
<1>1. /\ WorkerOK(w, x) /\ WorkerTypes(x) /\ PassKnown(x) /\ SizeKnown(w, x)
      /\ SessionMap(x.sessions, x.next_id) /\ x.next_id \in Nat \ {0}
      /\ i \in Nat /\ x.old \in SessionRecord
  BY WorkerFacts
<1>2. NewSession \in SessionRecord /\ NewSession.retries = 0
  BY DEF NewSession, SessionRecord
<1>3. DueIs(x.owed, 0, 0, 0, 0, FALSE, 0)
  BY DuesAre
<1>4. DueIs(y.owed, 0, 0, 0, d, Has(y.owed, "stop"), 0) /\ y.owed \in Dues
  BY DuesAre DEF DueIs, Dues
<1>5. /\ p \in Int /\ p >= 0 /\ p <= k /\ d \in {0, 1} /\ (d = 1 => p < k)
      /\ (Has(y.owed, "stop") \/ stop \/ (p = k /\ d = 0))
  <2>1. p \in Int /\ p >= 0 /\ p <= k
    BY <1>1 DEF SessionRecord
  <2>2. CASE y.owed = <<>>
    BY <2>1, <2>2, DuesAre DEF DueIs
  <2>3. CASE y.owed = <<"retried", "stop">>
    BY <2>1, <2>3, DuesAre DEF DueIs
  <2>. QED BY <2>1, <2>2, <2>3
<1>6. y.pc \in {"loop", "events"}
  OBVIOUS
<1>7. WorkerOK(w, y)
  <2>1. WorkerTypes(y)
    BY <1>1, <1>2, <1>4 DEF WorkerTypes, PCs
  <2>2. PassKnown(y)
    BY <1>1, <1>2 DEF PassKnown
  <2>3. SizeKnown(w, y)
    <3>. DEFINE c == Cardinality(DOMAIN x.sessions)
                m == worker_concurrency[w]
    <3>1. c \in Nat /\ m \in Nat
      BY <1>1, MapFacts, WorkersAre
    <3>2. c + 1 <= m /\ r + k * 0 <= k * c
      BY <1>1, <1>3 DEF SizeKnown, One, DueIs
    <3>3. One(y.pc = "retry") = 0 /\ Responded(y.owed) = 0
          /\ ~ (Has(y.owed, "retried") /\ ~ Has(y.owed, "stop"))
      BY <1>4, <1>6, DuesAre DEF One, DueIs
    <3>4. c + 0 <= m
      BY <3>1, <3>2
    <3>. QED BY <3>2, <3>3, <3>4 DEF SizeKnown
  <2>. QED BY <2>1, <2>2, <2>3 DEF WorkerOK
<1>8. r \in Int
  BY <1>1, MapFacts
<1>9. Missing(w, y) = i + 1
  <2>. DEFINE c == Cardinality(DOMAIN x.sessions)
              m == worker_concurrency[w]
  <2>1. c \in Int /\ m \in Int
    BY <1>1, MapFacts, WorkersAre
  <2>2. i = m - c - 1 /\ Missing(w, y) = m - c - 0
    BY <1>6 DEF Missing, One
  <2>. HIDE DEF c, m, i
  <2>. QED BY <2>1, <2>2
<1>10. Tried(x) = r + p - 0 /\ Tried(y) = r + 0 - d
  BY <1>2, <1>3 DEF Tried, DueIs
<1>11. /\ Budget(w, x) = k * (i + 0) + (r + p - 0) /\ Budget(w, y) = k * (i + 1 + 0) + (r + 0 - d)
       /\ Spent(w, x) = k * i + (r + p - 0) /\ Spent(w, y) = k * (i + 1) + (r + 0 - d)
  <2>1. Responded(x.owed) = 0 /\ Responded(y.owed) = 0
    BY <1>3, <1>4 DEF DueIs
  <2>. HIDE DEF i, r, p, d
  <2>. QED BY <1>6, <1>9, <1>10, <2>1 DEF Budget, Spent, i
<1>12. /\ Budget(w, y) >= Budget(w, x)
       /\ ~ stop /\ ~ Has(y.owed, "stop") => Spent(w, y) <= Spent(w, x)
  <2>. DEFINE j == k * i
  <2>. HIDE DEF i, r, p, d
  <2>1. k * (i + 0) = j /\ k * (i + 1 + 0) = j + k /\ k * (i + 1) = j + k /\ k * i = j
        /\ j \in Int
    BY <1>1
  <2>. HIDE DEF j
  <2>2. j + k + (r + 0 - d) >= j + (r + p - 0)
    BY <1>5, <1>8, <2>1
  <2>3. p = k /\ d = 0 => j + k + (r + 0 - d) <= j + (r + p - 0)
    BY <1>5, <1>8, <2>1
  <2>4. /\ Budget(w, x) = j + (r + p - 0) /\ Budget(w, y) = j + k + (r + 0 - d)
        /\ Spent(w, x) = j + (r + p - 0) /\ Spent(w, y) = j + k + (r + 0 - d)
    BY <1>11, <2>1
  <2>. QED BY <1>5, <2>2, <2>3, <2>4
<1>13. Keeps(w, x, y)
  BY <1>3, <1>4, <1>6, <1>12 DEF Keeps, UnfinishedOf, ResultsDue, SamplesDue, DueIs, One
<1>. QED BY <1>7, <1>13, LocalStep

\* The record of a session that replaces another.
LEMMA AnotherSession ==
  ASSUME NEW r \in 0..kMaxRetryPerSession
  PROVE  LET s == [NewSession EXCEPT !.retries = r, !.backoff = TRUE]
         IN  s \in SessionRecord /\ ~ s.in_flight /\ s.retries = r
  BY DEF NewSession, SessionRecord

\* The session an error event was for is replaced.
LEMMA SessionReplaced ==
  ASSUME EngineInv, NEW w \in Workers, NEW x, x = worker[w], NEW y, Becomes(w, y), OnlyWorker,
         x.pc = "retry", x.owed = <<>>, x.old.retries < kMaxRetryPerSession,
         NEW new \in SessionRecord, ~ new.in_flight, new.retries = x.old.retries + 1,
         DOMAIN y = Fields, y.pc = "events", y.owed = <<"retried">>, y.old = NewSession,
         y.sessions = With(x.sessions, x.next_id, new), y.next_id = x.next_id + 1,
         y.polled = x.polled
  PROVE  EngineInv'
<1>. DEFINE k == kMaxRetryPerSession
            p == x.old.retries
            f == x.sessions
            g == y.sessions
            n == x.next_id
            h == With(f, n, new)
            m == worker_concurrency[w]
<1>1. /\ WorkerOK(w, x) /\ WorkerTypes(x) /\ PassKnown(x) /\ SizeKnown(w, x)
      /\ SessionMap(f, n) /\ n \in Nat \ {0} /\ x.old \in SessionRecord
  BY WorkerFacts
<1>2. p \in Int /\ p >= 0 /\ m \in Int
  BY <1>1, WorkersAre DEF SessionRecord
<1>3. NewSession \in SessionRecord /\ NewSession.retries = 0
  BY DEF NewSession, SessionRecord
<1>4. new \in SessionRecord /\ ~ new.in_flight /\ new.retries = p + 1
  OBVIOUS
<1>. HIDE DEF f, g, n, m, p
<1>5. n \in Nat /\ n # 0 /\ SessionMap(f, n)
  BY <1>1
<1>6. Added(f, n, new, With(f, n, new))
  BY <1>5, MapWith
<1>7. Added(f, n, new, g)
  <2>1. g = With(f, n, new)
    BY DEF f, g, n
  <2>. QED BY <1>6, <2>1
<1>8. /\ SessionMap(g, n + 1) /\ DOMAIN g = DOMAIN f \cup {n}
      /\ Cardinality(DOMAIN g) = Cardinality(DOMAIN f) + 1
      /\ InFlight(g) = InFlight(f) + 0 /\ RetriesOf(g) = RetriesOf(f) + (p + 1)
  BY <1>4, <1>7 DEF Added, One
<1>9. /\ Cardinality(DOMAIN f) \in Nat /\ InFlight(f) \in Nat
      /\ RetriesOf(f) \in Int /\ 0 <= RetriesOf(f)
  BY <1>1, <1>5, MapFacts
<1>10. DueIs(x.owed, 0, 0, 0, 0, FALSE, 0) /\ DueIs(y.owed, 0, 0, 0, 1, FALSE, 0)
  BY DuesAre
<1>. DEFINE c == Cardinality(DOMAIN f)
            r == RetriesOf(f)
            i == InFlight(f)
<1>11. /\ Cardinality(DOMAIN g) = c + 1 /\ InFlight(g) = i + 0 /\ RetriesOf(g) = r + (p + 1)
       /\ c \in Nat /\ i \in Nat /\ r \in Int /\ 0 <= r
  BY <1>8, <1>9
<1>. HIDE DEF c, r, i, h
<1>12. c + 1 <= m /\ r + k * 0 <= k * c
  BY <1>1, <1>10 DEF SizeKnown, One, DueIs, f, m, c, r
<1>13. WorkerOK(w, y)
  <2>1. WorkerTypes(y)
    BY <1>1, <1>3, <1>5, <1>8 DEF WorkerTypes, PCs, Dues, g, n
  <2>2. PassKnown(y)
    BY <1>1, <1>3, <1>8 DEF PassKnown, f, g
  <2>3. SizeKnown(w, y)
    <3>1. One(y.pc = "retry") = 0 /\ Responded(y.owed) = 0
      BY <1>10 DEF One, DueIs
    <3>2. k * c \in Int /\ k * (c + 1) = k * c + k /\ k * 0 = 0
      BY <1>11
    <3>3. r + (p + 1) + k * 0 <= k * (c + 1) /\ r + (p + 1) >= 1 /\ c + 1 + 0 <= m
      <4>. DEFINE j == k * c
      <4>1. j \in Int /\ r + 0 <= j /\ p + 1 <= k
        BY <1>2, <1>12, <3>2 DEF p
      <4>. HIDE DEF j
      <4>2. r + (p + 1) + 0 <= j + k
        BY <1>2, <1>11, <4>1
      <4>3. r + (p + 1) >= 1 /\ c + 1 + 0 <= m
        BY <1>2, <1>11, <1>12
      <4>. QED BY <3>2, <4>2, <4>3 DEF j
    <3>4. /\ Cardinality(DOMAIN g) + One(y.pc = "retry") <= m
          /\ RetriesOf(g) + k * Responded(y.owed) <= k * Cardinality(DOMAIN g)
          /\ RetriesOf(g) >= 1
      BY <1>11, <3>1, <3>3
    <3>. QED BY <3>4 DEF SizeKnown, g, m
  <2>. QED BY <2>1, <2>2, <2>3 DEF WorkerOK
<1>14. Keeps(w, x, y)
  <2>1. Missing(w, x) = m - c - 1 /\ Missing(w, y) = m - (c + 1) - 0
    BY <1>11 DEF Missing, One, f, g, m, c
  <2>2. Missing(w, y) = Missing(w, x)
    BY <1>2, <1>11, <2>1
  <2>3. Tried(x) = r + p - 0 /\ Tried(y) = r + (p + 1) + 0 - 1
    BY <1>3, <1>10, <1>11 DEF Tried, DueIs, f, g, r, p
  <2>4. Tried(y) = Tried(x)
    BY <1>2, <1>11, <2>3
  <2>5. Budget(w, y) = Budget(w, x) /\ Spent(w, y) = Spent(w, x)
    BY <1>10, <2>2, <2>4 DEF Budget, Spent, DueIs
  <2>6. Budget(w, y) \in Int /\ Spent(w, y) \in Int
    BY <1>13, AmountTypes
  <2>7. UnfinishedOf(x) = i + 0 + 0 /\ UnfinishedOf(y) = i + 0 + 0 + 0
    BY <1>10, <1>11 DEF UnfinishedOf, DueIs, One, f, g, i
  <2>8. UnfinishedOf(y) = UnfinishedOf(x)
    BY <1>11, <2>7
  <2>9. /\ ResultsDue(y) = ResultsDue(x) /\ SamplesDue(y) = SamplesDue(x)
        /\ ~ Has(x.owed, "stop")
    BY <1>10 DEF ResultsDue, SamplesDue, DueIs
  <2>. QED BY <2>5, <2>6, <2>8, <2>9 DEF Keeps
<1>. QED BY <1>13, <1>14, LocalStep

\* The session is connected anew, or dropped, or the run is given up.
LEMMA RetryKeeps ==
  ASSUME EngineInv, NEW w \in Workers, Retry(w)
  PROVE  EngineInv'
<1>. DEFINE x == worker[w]
            next == [x EXCEPT !.old = NewSession]
            new == [NewSession EXCEPT !.retries = x.old.retries + 1, !.backoff = TRUE]
            a == [next EXCEPT !.pc = "events", !.owed = <<"retried">>,
                    !.sessions = With(@, next.next_id, new), !.next_id = @ + 1]
            b == [next EXCEPT !.pc = "loop", !.owed = <<"retried", "stop">>]
            e == [next EXCEPT !.pc = "events"]
<1>1. OnlyWorker /\ x.pc = "retry" /\ x.owed = <<>>
  BY DEF Retry, At
<1>2. DOMAIN x = Fields /\ x.old \in SessionRecord
  BY WorkerFacts
<1>3. \/ /\ Becomes(w, a) \/ Becomes(w, b)
         /\ x.old.retries < kMaxRetryPerSession
      \/ Becomes(w, e) /\ (stop \/ ~ (x.old.retries < kMaxRetryPerSession))
  BY DEF Retry, MayRetry
<1>4. CASE Becomes(w, a) /\ x.old.retries < kMaxRetryPerSession
  <2>1. /\ DOMAIN a = Fields /\ a.pc = "events" /\ a.owed = <<"retried">> /\ a.old = NewSession
        /\ a.sessions = With(x.sessions, x.next_id, new) /\ a.next_id = x.next_id + 1
        /\ a.polled = x.polled
    BY <1>2 DEF Fields
  <2>2. new \in SessionRecord /\ ~ new.in_flight /\ new.retries = x.old.retries + 1
    <3>1. x.old.retries + 1 \in 0..kMaxRetryPerSession
      BY <1>2, <1>4 DEF SessionRecord
    <3>. HIDE DEF x
    <3>. QED BY <3>1, AnotherSession
  <2>. HIDE DEF a, new
  <2>. QED BY <1>1, <1>4, <2>1, <2>2, SessionReplaced
<1>5. CASE Becomes(w, b) /\ x.old.retries < kMaxRetryPerSession
  <2>1. /\ DOMAIN b = Fields /\ b.pc = "loop" /\ b.owed = <<"retried", "stop">>
        /\ b.sessions = x.sessions /\ b.next_id = x.next_id /\ b.old = NewSession
    BY <1>2 DEF Fields
  <2>. HIDE DEF b
  <2>. QED BY <1>1, <1>5, <2>1, SessionDropped
<1>6. CASE Becomes(w, e) /\ (stop \/ ~ (x.old.retries < kMaxRetryPerSession))
  <2>1. /\ DOMAIN e = Fields /\ e.pc = "events" /\ e.owed = x.owed /\ e.polled = x.polled
        /\ e.sessions = x.sessions /\ e.next_id = x.next_id /\ e.old = NewSession
    BY <1>2 DEF Fields
  <2>2. stop \/ x.old.retries >= kMaxRetryPerSession
    BY <1>2, <1>6 DEF SessionRecord
  <2>. HIDE DEF e
  <2>. QED BY <1>1, <1>6, <2>1, <2>2, SessionDropped
<1>. QED BY <1>3, <1>4, <1>5, <1>6

\* A request is granted to a session, or there are none left.
LEMMA AcquireRequestQuotaKeeps ==
  ASSUME EngineInv, NEW w \in Workers, AcquireRequestQuota(w)
  PROVE  EngineInv'
<1>. DEFINE x == worker[w]
            y(c) == [x EXCEPT !.todo = @ \ {c}, !.conn = c, !.pc = "token"]
            z(c) == [x EXCEPT !.todo = @ \ {c}]
<1>1. /\ x.pc = "send" /\ x.owed = <<>> /\ ~ Bounded
      /\ UNCHANGED <<config, stop, unfolded, main, timeUp, aborted, stray>>
  BY DEF AcquireRequestQuota, At
<1>2. PICK c \in x.todo :
        \/ /\ QuotaLeft /\ Becomes(w, y(c))
           /\ count' = IF has_requests THEN [count EXCEPT !["started"] = @ + 1] ELSE count
        \/ Becomes(w, z(c)) /\ count' = count
  BY DEF AcquireRequestQuota
<1>3. /\ WorkerOK(w, x) /\ WorkerTypes(x) /\ PassKnown(x) /\ SizeKnown(w, x)
      /\ DOMAIN x = Fields /\ SessionMap(x.sessions, x.next_id) /\ x.next_id \in Nat \ {0}
  BY WorkerFacts
<1>4. CASE Becomes(w, z(c)) /\ count' = count
  <2>. DEFINE b == z(c)
  <2>1. /\ DOMAIN b = Fields /\ b.pc = "send" /\ b.owed = x.owed /\ b.todo = x.todo \ {c}
        /\ b.sessions = x.sessions /\ b.next_id = x.next_id /\ b.old = x.old
    BY <1>1, <1>3 DEF Fields
  <2>2. PassKnown(b)
    BY <1>1, <1>3, <2>1 DEF PassKnown
  <2>3. Becomes(w, b) /\ OnlyWorker
    BY <1>1, <1>4 DEF OnlyWorker
  <2>. HIDE DEF b, y, z
  <2>. QED BY <1>1, <2>1, <2>2, <2>3, SameSessions
<1>5. CASE /\ QuotaLeft /\ Becomes(w, y(c))
           /\ count' = IF has_requests THEN [count EXCEPT !["started"] = @ + 1] ELSE count
  <2>. DEFINE b == y(c)
  <2>1. /\ DOMAIN b = Fields /\ b.pc = "token" /\ b.owed = x.owed /\ b.todo = x.todo \ {c}
        /\ b.conn = c /\ b.sessions = x.sessions /\ b.next_id = x.next_id /\ b.old = x.old
    BY <1>3 DEF Fields
  <2>2. Becomes(w, b)
    BY <1>5
  <2>3. c \in DOMAIN x.sessions /\ ~ x.sessions[c].in_flight
    BY <1>1, <1>2, <1>3 DEF PassKnown
  <2>. HIDE DEF b, x, y, z
  <2>4. WorkerOK(w, b)
    <3>1. WorkerTypes(b)
      BY <1>3, <2>1 DEF WorkerTypes, PCs
    <3>2. PassKnown(b)
      BY <1>1, <1>3, <2>1, <2>3 DEF PassKnown
    <3>3. SizeKnown(w, b)
      BY <1>1, <1>3, <2>1 DEF SizeKnown, One
    <3>. QED BY <3>1, <3>2, <3>3 DEF WorkerOK
  <2>5. worker'[w] = b
    BY <2>2, OneBecomes DEF EngineInv
  <2>. DEFINE s == count["started"]
              e == count["completed"]
              u == UnfinishedOf(x)
  <2>6. /\ count \in [Counter -> Nat] /\ s \in Nat /\ e \in Nat /\ u \in Nat
        /\ stray \in 0..MostStray /\ unfolded \in [Workers -> Nat]
        /\ stop \in BOOLEAN /\ aborted \in BOOLEAN
    BY <1>3, AmountTypes DEF EngineInv, TypeOK, Counter
  <2>7. /\ count' \in [Counter -> Nat] /\ count'["started"] = s + (IF has_requests THEN 1 ELSE 0)
        /\ \A a \in Counter \ {"started"} : count'[a] = count[a]
    BY <1>5, <2>6 DEF Counter
  <2>8. SharedMove(w)
    <3>1. \A a \in Counter : count[a] <= count'[a]
      <4>1. count["started"] <= count'["started"]
        BY <2>6, <2>7
      <4>2. \A a \in Counter \ {"started"} : count[a] <= count'[a]
        BY <2>6, <2>7
      <4>. QED BY <4>1, <4>2
    <3>2. main.pc \notin {"final", "done"}
      BY <1>1, Running DEF x
    <3>. QED BY <1>1, <2>6, <2>7, <3>1, <3>2 DEF SharedMove
  <2>9. UnfinishedOf(b) = u + 1
    <3>1. u = InFlight(x.sessions) + 0 + One(Has(x.owed, "completed"))
      BY <1>1 DEF UnfinishedOf, One
    <3>2. UnfinishedOf(b) = InFlight(x.sessions) + 1 + One(Has(x.owed, "completed"))
      BY <2>1 DEF UnfinishedOf, One
    <3>3. InFlight(x.sessions) \in Int /\ One(Has(x.owed, "completed")) \in Int
      BY <1>3, MapFacts DEF One
    <3>. QED BY <3>1, <3>2, <3>3
  <2>10. RequestsMove(w)
    <3>1. has_requests => s + 1 <= Requests
      BY <1>5, <2>6 DEF QuotaLeft
    <3>2. ~ has_requests => e < MaxSends
      BY <1>1, <2>6 DEF Bounded
    <3>3. count'["completed"] = e
      BY <2>7 DEF Counter
    <3>4. s + 1 + stray - e - (u + 1) = s + stray - e - u
      BY <2>6
    <3>. QED BY <1>1, <2>5, <2>7, <2>9, <3>1, <3>2, <3>3, <3>4 DEF RequestsMove, x
  <2>11. CountersMove(w)
    <3>1. ResultsDue(b) = ResultsDue(x) /\ SamplesDue(b) = SamplesDue(x)
      BY <2>1 DEF ResultsDue, SamplesDue
    <3>. QED BY <1>1, <2>5, <2>7, <3>1 DEF CountersMove, Counter, x
  <2>12. RetriesMove(w)
    <3>1. Missing(w, b) = Missing(w, x) /\ Tried(b) = Tried(x)
      BY <1>1, <2>1 DEF Missing, Tried, One
    <3>2. Budget(w, b) = Budget(w, x) /\ Spent(w, b) = Spent(w, x)
      BY <1>1, <2>1, <3>1 DEF Budget, Spent
    <3>3. Budget(w, x) \in Int /\ Spent(w, x) \in Int
      BY <1>3, AmountTypes
    <3>4. count'["retried"] = count["retried"] /\ count'["completed"] = count["completed"]
          /\ count["retried"] \in Nat
      BY <2>6, <2>7 DEF Counter
    <3>. DEFINE m == kMaxRetryPerSession * count["completed"]
    <3>5. m \in Int
      BY <2>6
    <3>. HIDE DEF m
    <3>6. count["retried"] - m - Budget(w, x) <= count["retried"] - m - Budget(w, x)
          /\ Spent(w, x) - count["retried"] <= Spent(w, x) - count["retried"]
      BY <3>3, <3>4, <3>5
    <3>. QED BY <1>1, <2>1, <2>5, <3>2, <3>4, <3>6 DEF RetriesMove, x, m
  <2>. QED BY <2>2, <2>4, <2>8, <2>10, <2>11, <2>12, WorkerStep
<1>. QED BY <1>2, <1>4, <1>5

\* A counter is raised, a sample recorded, or stop raised.
LEMMA PayKeeps ==
  ASSUME EngineInv, NEW w \in Workers, Pay(w)
  PROVE  EngineInv'
<1>. DEFINE x == worker[w]
            o == x.owed
            due == Head(o)
            t == Tail(o)
            y == [x EXCEPT !.owed = t]
            d(c) == One(due = c)
            f == x.sessions
            k == kMaxRetryPerSession
<1>1. /\ o # <<>> /\ Becomes(w, y)
      /\ count' = IF due \in Counter THEN [count EXCEPT ![due] = @ + 1] ELSE count
      /\ unfolded' = IF due = "sample" THEN [unfolded EXCEPT ![w] = @ + 1] ELSE unfolded
      /\ stop' = (stop \/ due = "stop") /\ aborted' = (aborted \/ due = "stop")
      /\ UNCHANGED <<config, main, timeUp, stray>>
  BY DEF Pay
<1>2. /\ WorkerOK(w, x) /\ WorkerTypes(x) /\ PassKnown(x) /\ SizeKnown(w, x)
      /\ DOMAIN x = Fields /\ SessionMap(f, x.next_id) /\ x.next_id \in Nat \ {0} /\ o \in Dues
      /\ x.old \in SessionRecord
  BY WorkerFacts
<1>3. /\ DOMAIN y = Fields /\ y.pc = x.pc /\ y.owed = t /\ y.sessions = f /\ y.next_id = x.next_id
      /\ y.old = x.old /\ y.todo = x.todo /\ y.conn = x.conn /\ y.polled = x.polled
  BY <1>2 DEF Fields
<1>4. /\ TypeOK /\ count \in [Counter -> Nat] /\ unfolded \in [Workers -> Nat]
      /\ stray \in 0..MostStray /\ stop \in BOOLEAN /\ aborted \in BOOLEAN
  BY DEF EngineInv, TypeOK
<1>. HIDE DEF x, y, o
<1>5. /\ t \in Dues /\ due \in (Counter \ {"started"}) \cup {"stop", "sample"}
      /\ \A c \in Counter \cup {"stop", "sample"} :
           /\ Has(o, c) <=> due = c \/ Has(t, c)
           /\ ~ (due = c /\ Has(t, c))
      /\ ~ (Has(o, "succeeded") /\ Has(o, "failed"))
      /\ Responded(t) = 0 /\ ~ Has(t, "retried")
  BY <1>1, <1>2, PaymentsOnce
<1>. HIDE DEF due, t
<1>6. worker'[w] = y
  BY <1>1, <1>4, OneBecomes
<1>7. WorkerOK(w, y)
  <2>1. WorkerTypes(y)
    BY <1>2, <1>3, <1>5 DEF WorkerTypes, f
  <2>2. PassKnown(y)
    BY <1>1, <1>2, <1>3 DEF PassKnown, f, o
  <2>3. SizeKnown(w, y)
    <3>. DEFINE r == RetriesOf(f)
                n == Cardinality(DOMAIN f)
    <3>1. r \in Int /\ r <= k * n /\ k * 0 = 0 /\ r + 0 = r
      BY <1>2, MapFacts
    <3>2. RetriesOf(y.sessions) + k * Responded(y.owed) <= k * Cardinality(DOMAIN y.sessions)
      BY <1>3, <1>5, <3>1
    <3>. QED BY <1>2, <1>3, <1>5, <3>2 DEF SizeKnown, f
  <2>. QED BY <2>1, <2>2, <2>3 DEF WorkerOK
\* What is paid is counted.
<1>8. /\ \A c \in Counter : count'[c] = count[c] + d(c) /\ count'[c] \in Nat
      /\ count' \in [Counter -> Nat]
  BY <1>1, <1>4 DEF One
<1>9. /\ unfolded' \in [Workers -> Nat] /\ unfolded'[w] = unfolded[w] + d("sample")
      /\ \A v \in Workers \ {w} : unfolded'[v] = unfolded[v]
  BY <1>1, <1>4 DEF One
\* It is due no longer.
<1>10. /\ One(Has(o, "completed")) = d("completed") + One(Has(t, "completed"))
       /\ One(Has(o, "sample")) = d("sample") + One(Has(t, "sample"))
       /\ One(Has(o, "retried")) = d("retried") + One(Has(t, "retried"))
       /\ One(Has(o, "succeeded") \/ Has(o, "failed"))
            = d("succeeded") + d("failed") + One(Has(t, "succeeded") \/ Has(t, "failed"))
       /\ d("started") = 0
  <2>1. \A c \in {"completed", "sample", "retried"} : One(Has(o, c)) = d(c) + One(Has(t, c))
    BY <1>5 DEF One, Counter
  <2>2. One(Has(o, "succeeded") \/ Has(o, "failed"))
          = d("succeeded") + d("failed") + One(Has(t, "succeeded") \/ Has(t, "failed"))
    <3>1. /\ Has(o, "succeeded") <=> due = "succeeded" \/ Has(t, "succeeded")
          /\ Has(o, "failed") <=> due = "failed" \/ Has(t, "failed")
          /\ ~ (due = "succeeded" /\ Has(t, "succeeded"))
          /\ ~ (due = "failed" /\ Has(t, "failed"))
          /\ ~ (Has(o, "succeeded") /\ Has(o, "failed"))
      BY <1>5 DEF Counter
    <3>. QED BY <3>1 DEF One
  <2>3. d("started") = 0
    BY <1>5 DEF One, Counter
  <2>. QED BY <2>1, <2>2, <2>3
<1>11. \A b : One(b) \in {0, 1}
  BY DEF One
<1>12. SharedMove(w)
  <2>1. \A c \in Counter : count[c] <= count'[c]
    BY <1>4, <1>8, <1>11
  <2>2. main.pc \notin {"final", "done"}
    BY <1>1, Running DEF x, o
  <2>. QED BY <1>1, <1>4, <1>8, <1>9, <2>1, <2>2 DEF SharedMove
<1>13. RequestsMove(w)
  <2>. DEFINE a == count["started"]
              c == count["completed"]
              i == InFlight(f) + One(x.pc = "token")
              p == d("completed")
              q == One(Has(t, "completed"))
  <2>1. /\ a \in Nat /\ c \in Nat /\ i \in Nat /\ p \in Nat /\ q \in Nat /\ stray \in Nat
    BY <1>2, <1>4, <1>11, MapFacts DEF Counter
  <2>2. UnfinishedOf(x) = i + (p + q) /\ UnfinishedOf(y) = i + q
    BY <1>3, <1>10 DEF UnfinishedOf, f, o
  <2>3. count'["started"] = a + 0 /\ count'["completed"] = c + p
    BY <1>8, <1>10 DEF Counter
  <2>4. has_requests => a <= Requests
    BY DEF EngineInv, RequestsInv
  <2>. HIDE DEF a, c, i, p, q
  <2>5. /\ a + 0 + stray - (c + p) - (i + q) = a + stray - c - (i + (p + q))
        /\ stray - (c + p) - (i + q) = stray - c - (i + (p + q)) /\ a + 0 = a
    BY <2>1
  <2>6. stray' = stray
    BY <1>1
  <2>. QED BY <1>6, <2>2, <2>3, <2>4, <2>5, <2>6 DEF RequestsMove, a, c, x
<1>14. CountersMove(w)
  <2>. DEFINE c == count["completed"]
              s == count["succeeded"]
              e == count["failed"]
              u == unfolded[w]
              p == d("completed")
              q == One(Has(t, "completed"))
              i == d("sample")
              j == One(Has(t, "sample"))
              m == d("succeeded")
              n == d("failed")
              l == One(Has(t, "succeeded") \/ Has(t, "failed"))
  <2>1. /\ c \in Int /\ s \in Int /\ e \in Int /\ u \in Int /\ p \in Int /\ q \in Int
        /\ i \in Int /\ j \in Int /\ m \in Int /\ n \in Int /\ l \in Int
    BY <1>4, <1>11 DEF Counter
  <2>2. /\ ResultsDue(x) = m + n + l - (p + q) /\ ResultsDue(y) = l - q
        /\ SamplesDue(x) = i + j - (p + q) /\ SamplesDue(y) = j - q
    <3>1. /\ One(Has(o, "completed")) = p + q /\ One(Has(o, "sample")) = i + j
          /\ One(Has(o, "succeeded") \/ Has(o, "failed")) = m + n + l
      BY <1>10
    <3>2. x.owed = o /\ y.owed = t
      BY <1>3 DEF o
    <3>. HIDE DEF p, i, m, n
    <3>3. ResultsDue(x) = m + n + l - (p + q) /\ SamplesDue(x) = i + j - (p + q)
      BY <2>1, <3>1, <3>2 DEF ResultsDue, SamplesDue
    <3>4. ResultsDue(y) = l - q /\ SamplesDue(y) = j - q
      BY <3>2 DEF ResultsDue, SamplesDue
    <3>. QED BY <3>3, <3>4
  <2>3. /\ count'["completed"] = c + p /\ count'["succeeded"] = s + m /\ count'["failed"] = e + n
        /\ unfolded'[w] = u + i
    BY <1>8, <1>9 DEF Counter
  <2>. HIDE DEF c, s, e, u, p, q, i, j, m, n, l
  <2>4. /\ c + p - (s + m) - (e + n) - (l - q) = c - s - e - (m + n + l - (p + q))
        /\ c + p - (u + i) - (j - q) = c - u - (i + j - (p + q))
    BY <2>1
  <2>5. /\ count'["completed"] - count'["succeeded"] - count'["failed"] - ResultsDue(y)
             = c - s - e - ResultsDue(x)
        /\ count'["completed"] - unfolded'[w] - SamplesDue(y) = c - u - SamplesDue(x)
    BY <2>1, <2>2, <2>3, <2>4
  <2>. QED BY <1>6, <2>5 DEF CountersMove, c, s, e, u, x
<1>15. RetriesMove(w)
  <2>. DEFINE i == Missing(w, x)
              h == IF x.pc = "exited" THEN 0 ELSE i
              r == RetriesOf(f)
              b == x.old.retries
              p == d("completed")
              q == d("retried")
              c == count["completed"]
              e == count["retried"]
              g == Responded(o)
  <2>1. /\ i \in Nat /\ h \in Nat /\ r \in Int /\ b \in Int /\ p \in {0, 1} /\ q \in Int
        /\ c \in Int /\ e \in Int
    BY <1>2, <1>4, <1>11, WorkerFacts, MapFacts DEF x, Counter, SessionRecord
  <2>2. g \in {0, 1} /\ g <= p
    BY <1>5 DEF Responded, One, due
  <2>3. One(Has(t, "retried")) = 0
    BY <1>5 DEF One
  <2>4. Missing(w, y) = i /\ Tried(x) = r + b - (q + 0) /\ Tried(y) = r + b - 0
    BY <1>3, <1>10, <2>3 DEF Missing, Tried, f, o
  <2>5. /\ Budget(w, x) = k * (i + g) + (r + b - (q + 0))
        /\ Budget(w, y) = k * (i + 0) + (r + b - 0)
        /\ Spent(w, x) = k * h + (r + b - (q + 0)) /\ Spent(w, y) = k * h + (r + b - 0)
    BY <1>3, <1>5, <2>4 DEF Budget, Spent, o
  <2>6. count'["completed"] = c + p /\ count'["retried"] = e + q
    BY <1>8 DEF Counter
  <2>. HIDE DEF i, h, r, b, p, q, c, e, g
  <2>7. e + q - k * (c + p) - (k * (i + 0) + (r + b - 0))
          <= e - k * c - (k * (i + g) + (r + b - (q + 0)))
    <3>. DEFINE ki == k * i
                kc == k * c
                kp == k * p
                kg == k * g
    <3>1. /\ k * (c + p) = kc + kp /\ k * (i + 0) = ki /\ k * (i + g) = ki + kg /\ k * c = kc
          /\ ki \in Int /\ kc \in Int /\ kp \in Int /\ kg \in Int
      BY <2>1, <2>2
    <3>2. kg <= kp
      BY <2>1, <2>2
    <3>. HIDE DEF ki, kc, kp, kg
    <3>3. e + q - (kc + kp) - (ki + (r + b - 0)) <= e - kc - (ki + kg + (r + b - (q + 0)))
      BY <2>1, <3>1, <3>2
    <3>. QED BY <3>1, <3>3
  <2>8. k * h + (r + b - 0) - (e + q) <= k * h + (r + b - (q + 0)) - e
    <3>. DEFINE j == k * h
    <3>1. j \in Int
      BY <2>1
    <3>. HIDE DEF j
    <3>2. j + (r + b - 0) - (e + q) <= j + (r + b - (q + 0)) - e
      BY <2>1, <3>1
    <3>. QED BY <3>2 DEF j
  <2>9. ~ stop' /\ ~ Has(t, "stop") => ~ stop /\ ~ Has(o, "stop")
    BY <1>1, <1>5
  <2>10. /\ count'["retried"] - k * count'["completed"] - Budget(w, y) <= e - k * c - Budget(w, x)
         /\ Spent(w, y) - count'["retried"] <= Spent(w, x) - e
    BY <2>1, <2>5, <2>6, <2>7, <2>8
  <2>11. y.owed = t /\ x.owed = o
    BY <1>3 DEF o
  <2>. QED BY <1>6, <2>9, <2>10, <2>11 DEF RetriesMove, c, e, x
<1>. QED BY <1>1, <1>7, <1>12, <1>13, <1>14, <1>15, WorkerStep

\* A response has the retries of its session counted anew.
RetriesReset(responded, before, after) ==
  (responded = 1 /\ after = 0) \/ (responded = 0 /\ after = before)

\* A chunk ends the request of a session, if one is in flight: a response is received, and the
\* retries of the session are counted anew, or the chunk is rejected.
LEMMA ChunkCounts ==
  ASSUME EngineInv, NEW w \in Workers, NEW x, x = worker[w], NEW y, Becomes(w, y),
         UNCHANGED <<config, count, stop, unfolded, main, timeUp, aborted>>,
         x.pc = "events", x.owed = <<>>, NEW c \in x.polled, Stray(x.sessions[c]),
         NEW s \in SessionRecord, ~ s.in_flight, Changed(x.sessions, c, s, y.sessions),
         DOMAIN y = Fields, y.pc = "events", y.next_id = x.next_id, y.old = x.old,
         y.polled = x.polled, y.owed \in Dues, DueIs(y.owed, 1, 1, 1, 0, FALSE, Responded(y.owed)),
         RetriesReset(Responded(y.owed), x.sessions[c].retries, s.retries)
  PROVE  EngineInv'
<1>. DEFINE k == kMaxRetryPerSession
            f == x.sessions
            g == y.sessions
            p == f[c].retries
            q == s.retries
            l == One(f[c].in_flight)
            e == Responded(y.owed)
            n == Cardinality(DOMAIN f)
            m == worker_concurrency[w]
            i == InFlight(f)
            r == RetriesOf(f)
            h == Without(f, c)
<1>1. /\ WorkerOK(w, x) /\ WorkerTypes(x) /\ PassKnown(x) /\ SizeKnown(w, x)
      /\ SessionMap(f, x.next_id) /\ x.next_id \in Nat
  BY WorkerFacts
<1>2. c \in DOMAIN f
  BY <1>1 DEF PassKnown
<1>3. f[c] \in SessionRecord
  BY <1>1, <1>2 DEF SessionMap
<1>4. p \in Int /\ p >= 0 /\ p <= k /\ q \in Int /\ q >= 0 /\ l \in {0, 1} /\ e \in {0, 1}
      /\ \/ e = 1 /\ q = 0
         \/ e = 0 /\ q = p
  <2>1. p \in 0..k /\ q \in 0..k
    BY <1>3 DEF SessionRecord
  <2>2. l \in {0, 1} /\ e \in {0, 1}
    BY DEF One, Responded
  <2>3. RetriesReset(e, p, q)
    OBVIOUS
  <2>. HIDE DEF p, q, l, e, k
  <2>4. k \in Nat
    BY DEF k
  <2>. QED BY <2>1, <2>2, <2>3, <2>4 DEF RetriesReset
<1>5. DueIs(x.owed, 0, 0, 0, 0, FALSE, 0)
  BY DuesAre
<1>6. worker'[w] = y
  BY OneBecomes DEF EngineInv
<1>7. /\ SessionMap(g, x.next_id) /\ DOMAIN g = DOMAIN f
      /\ g[c] = s /\ \A d \in DOMAIN f \ {c} : g[d] = f[d]
      /\ InFlight(g) = InFlight(f) - One(f[c].in_flight) + One(s.in_flight)
      /\ RetriesOf(g) = RetriesOf(f) - f[c].retries + s.retries
  <2>. HIDE DEF f, g
  <2>. QED BY <1>1, <1>2, MapUpdated DEF f, g
<1>8. /\ n \in Nat /\ i \in Nat /\ r \in Int /\ r <= k * n /\ m \in Int
  BY <1>1, MapFacts, WorkersAre
<1>9. r - p <= k * (n - 1)
  <2>1. Removed(f, x.next_id, c, h)
    <3>. HIDE DEF f
    <3>. QED BY <1>1, <1>2, MapWithout
  <2>. DEFINE j == Cardinality(DOMAIN h)
              b == RetriesOf(h)
  <2>. HIDE DEF h, n, r, p
  <2>2. j \in Nat /\ b \in Int /\ b <= k * j
    BY <1>1, <2>1, MapFacts DEF Removed
  <2>3. n = j + 1 /\ r = b + p
    BY <2>1 DEF Removed, n, r, p
  <2>. HIDE DEF j, b
  <2>4. n - 1 = j /\ r - p = b
    BY <1>4, <2>2, <2>3
  <2>. QED BY <2>2, <2>4
<1>10. InFlight(g) = i - l /\ RetriesOf(g) = r - p + q
  <2>1. One(s.in_flight) = 0
    BY DEF One
  <2>. QED BY <1>4, <1>7, <1>8, <2>1
<1>. HIDE DEF f, g, p, q, l, e, n, m, i, r, h
<1>11. WorkerOK(w, y)
  <2>1. WorkerTypes(y)
    BY <1>1, <1>7 DEF WorkerTypes, PCs, g
  <2>2. PassKnown(y)
    BY <1>1, <1>7 DEF PassKnown, f, g
  <2>3. SizeKnown(w, y)
    <3>1. One(y.pc = "retry") = 0 /\ One(x.pc = "retry") = 0 /\ ~ Has(y.owed, "retried")
      BY DEF One, DueIs
    <3>2. n + 0 <= m
      BY <1>1, <3>1 DEF SizeKnown, n, m, f
    <3>3. (r - p + q) + k * e <= k * n
      <4>. DEFINE a == k * n
                  b == k * (n - 1)
      <4>1. k * 1 = k /\ k * 0 = 0 /\ a = b + k /\ a \in Int /\ b \in Int
        BY <1>8
      <4>2. r <= a /\ r - p <= b
        BY <1>8, <1>9
      <4>. HIDE DEF a, b
      <4>3. CASE e = 1 /\ q = 0
        <5>1. (r - p + 0) + k <= a
          BY <1>4, <1>8, <4>1, <4>2
        <5>. QED BY <4>1, <4>3, <5>1 DEF a
      <4>4. CASE e = 0 /\ q = p
        <5>1. (r - p + p) + 0 <= a
          BY <1>4, <1>8, <4>1, <4>2
        <5>. QED BY <4>1, <4>4, <5>1 DEF a
      <4>. QED BY <1>4, <4>3, <4>4
    <3>4. Cardinality(DOMAIN y.sessions) = n /\ RetriesOf(y.sessions) = r - p + q
      BY <1>7, <1>10 DEF n, g
    <3>. QED BY <3>1, <3>2, <3>3, <3>4 DEF SizeKnown, e, m
  <2>. QED BY <2>1, <2>2, <2>3 DEF WorkerOK
<1>12. count' = count /\ unfolded' = unfolded /\ stop' = stop /\ aborted' = aborted /\ main' = main
  OBVIOUS
<1>13. /\ TypeOK /\ count \in [Counter -> Nat] /\ unfolded \in [Workers -> Nat]
       /\ stray \in 0..MostStray /\ stop \in BOOLEAN /\ aborted \in BOOLEAN
  BY DEF EngineInv, TypeOK
<1>14. stray' \in 0..MostStray /\ stray' = stray + (1 - l)
  <2>1. MaxStray[has_requests] \in Nat /\ MaxStray[has_requests] <= MostStray
    BY StrayBounds DEF EngineInv, TypeOK
  <2>. DEFINE most == MaxStray[has_requests]
  <2>2. most \in Nat /\ most <= MostStray /\ MostStray \in Nat
    BY <2>1, StrayBounds
  <2>3. IF f[c].in_flight THEN stray' = stray ELSE stray < most /\ stray' = stray + 1
    BY Zenon DEF Stray, f
  <2>. HIDE DEF most, f
  <2>. QED BY <1>13, <2>2, <2>3 DEF One, l
<1>15. SharedMove(w)
  <2>1. \A a \in Counter : count[a] <= count[a]
    BY <1>13
  <2>2. main.pc \notin {"final", "done"}
    BY Running
  <2>. QED BY <1>12, <1>13, <1>14, <2>1, <2>2 DEF SharedMove
<1>16. RequestsMove(w)
  <2>1. UnfinishedOf(x) = i + 0 + 0 /\ UnfinishedOf(y) = i - l + 0 + 1
    BY <1>5, <1>10 DEF UnfinishedOf, DueIs, One, f, g, i
  <2>. DEFINE a == count["started"]
              b == count["completed"]
  <2>2. a \in Int /\ b \in Int /\ stray \in Int
    BY <1>13 DEF Counter
  <2>3. has_requests => a <= Requests
    BY DEF EngineInv, RequestsInv
  <2>. HIDE DEF a, b
  <2>4. /\ a + stray' - b - UnfinishedOf(y) = a + stray - b - UnfinishedOf(x)
        /\ stray' - b - UnfinishedOf(y) = stray - b - UnfinishedOf(x)
    BY <1>4, <1>8, <1>14, <2>1, <2>2
  <2>. QED BY <1>6, <1>12, <2>3, <2>4 DEF RequestsMove, a, b
<1>17. CountersMove(w)
  <2>1. ResultsDue(y) = ResultsDue(x) /\ SamplesDue(y) = SamplesDue(x)
    BY <1>5 DEF ResultsDue, SamplesDue, DueIs
  <2>. QED BY <1>6, <1>12, <2>1 DEF CountersMove
<1>18. RetriesMove(w)
  <2>. DEFINE j == Missing(w, x)
              o == x.old.retries
              a == count["retried"]
              b == k * count["completed"]
              u == k * j
  <2>1. j \in Int /\ o \in Int /\ a \in Int /\ b \in Int
    BY <1>1, <1>13, WorkerFacts DEF Counter, WorkerTypes, SessionRecord
  <2>2. Missing(w, y) = j
    BY <1>7 DEF Missing, One, f, g
  <2>3. Tried(x) = r + o - 0 /\ Tried(y) = r - p + q + o - 0
    BY <1>5, <1>10 DEF Tried, DueIs, f, g, r
  <2>4. /\ Budget(w, x) = k * (j + 0) + (r + o - 0)
        /\ Budget(w, y) = k * (j + e) + (r - p + q + o - 0)
        /\ Spent(w, x) = k * j + (r + o - 0) /\ Spent(w, y) = k * j + (r - p + q + o - 0)
    BY <1>5, <2>2, <2>3 DEF Budget, Spent, DueIs, e
  <2>. HIDE DEF j, o, a, b
  <2>5. /\ k * (j + 0) = u /\ k * (j + e) = u + k * e /\ k * j = u /\ u \in Int
        /\ k * 1 = k /\ k * 0 = 0
    BY <1>4, <2>1
  <2>. HIDE DEF u
  <2>6. k * e = (IF e = 1 THEN k ELSE 0)
    BY <1>4, <2>5
  <2>7. /\ Budget(w, x) = u + (r + o - 0) /\ Spent(w, x) = u + (r + o - 0)
        /\ Budget(w, y) = u + (IF e = 1 THEN k ELSE 0) + (r - p + q + o - 0)
        /\ Spent(w, y) = u + (r - p + q + o - 0)
    BY <2>4, <2>5, <2>6
  <2>8. /\ a - b - Budget(w, y) <= a - b - Budget(w, x)
        /\ Spent(w, y) - a <= Spent(w, x) - a
    <3>1. CASE e = 1 /\ q = 0
      <4>1. Budget(w, y) = u + k + (r - p + 0 + o - 0) /\ Spent(w, y) = u + (r - p + 0 + o - 0)
        BY <2>7, <3>1
      <4>. QED BY SMTT(30), <1>4, <1>8, <2>1, <2>5, <2>7, <4>1
    <3>2. CASE e = 0 /\ q = p
      <4>1. Budget(w, y) = u + 0 + (r - p + p + o - 0) /\ Spent(w, y) = u + (r - p + p + o - 0)
        BY <2>7, <3>2
      <4>. QED BY <1>4, <1>8, <2>1, <2>5, <2>7, <4>1
    <3>. QED BY <1>4, <3>1, <3>2
  <2>9. ~ Has(x.owed, "stop")
    BY <1>5 DEF DueIs
  <2>10. /\ count'["retried"] - kMaxRetryPerSession * count'["completed"] - Budget(w, worker'[w])
              <= a - b - Budget(w, worker[w])
         /\ Spent(w, worker'[w]) - count'["retried"] <= Spent(w, worker[w]) - a
    BY <1>6, <1>12, <2>8 DEF a, b
  <2>. QED BY <1>12, <2>9, <2>10 DEF RetriesMove, a, b
<1>. QED BY <1>11, <1>15, <1>16, <1>17, <1>18, WorkerStep

\* The record of a session whose response was received, or rejected.
LEMMA SessionsAfter ==
  ASSUME NEW s \in SessionRecord
  PROVE  LET good == [s EXCEPT !.in_flight = FALSE, !.retries = 0]
             bad == [s EXCEPT !.in_flight = FALSE, !.parse_error = TRUE]
         IN  /\ good \in SessionRecord /\ ~ good.in_flight /\ good.retries = 0
             /\ bad \in SessionRecord /\ ~ bad.in_flight /\ bad.retries = s.retries
<1>. DEFINE good == [s EXCEPT !.in_flight = FALSE, !.retries = 0]
            bad == [s EXCEPT !.in_flight = FALSE, !.parse_error = TRUE]
<1>1. good \in SessionRecord
  <2>1. 0 \in 0..kMaxRetryPerSession
    OBVIOUS
  <2>. QED BY <2>1 DEF SessionRecord
<1>2. ~ good.in_flight /\ good.retries = 0
  BY DEF SessionRecord
<1>3. bad \in SessionRecord
  BY DEF SessionRecord
<1>4. ~ bad.in_flight /\ bad.retries = s.retries
  BY DEF SessionRecord
<1>. QED BY <1>1, <1>2, <1>3, <1>4

\* A chunk completes a response or is rejected.
LEMMA ChunkKeeps ==
  ASSUME EngineInv, NEW w \in Workers, NEW c, Chunk(w, c)
  PROVE  EngineInv'
<1>. DEFINE x == worker[w]
            s == x.sessions[c]
            good == [s EXCEPT !.in_flight = FALSE, !.retries = 0]
            bad == [s EXCEPT !.in_flight = FALSE, !.parse_error = TRUE]
            a(outcome) ==
              [x EXCEPT !.owed = <<"completed", outcome, "sample">>, !.sessions[c] = good]
            b == [x EXCEPT !.owed = <<"failed", "completed", "sample">>, !.sessions[c] = bad]
<1>1. /\ UNCHANGED <<config, count, stop, unfolded, main, timeUp, aborted>>
      /\ x.pc = "events" /\ x.owed = <<>> /\ c \in x.polled /\ Stray(x.sessions[c])
  BY DEF Chunk, At
<1>2. \/ \E outcome \in {"succeeded", "failed"} : Becomes(w, a(outcome))
      \/ Becomes(w, b)
  BY DEF Chunk
<1>3. DOMAIN x = Fields /\ PassKnown(x) /\ SessionMap(x.sessions, x.next_id)
  BY WorkerFacts
<1>4. c \in DOMAIN x.sessions
  BY <1>1, <1>3 DEF PassKnown
<1>5. s \in SessionRecord
  BY <1>3, <1>4 DEF SessionMap
<1>6. good \in SessionRecord /\ ~ good.in_flight /\ good.retries = 0
  BY <1>5, SessionsAfter
<1>7. bad \in SessionRecord /\ ~ bad.in_flight /\ bad.retries = s.retries
  BY <1>5, SessionsAfter
<1>8. ASSUME NEW outcome \in {"succeeded", "failed"}, Becomes(w, a(outcome))
      PROVE  EngineInv'
  <2>. DEFINE y == a(outcome)
  <2>1. /\ DOMAIN y = Fields /\ y.pc = "events" /\ y.next_id = x.next_id /\ y.old = x.old
        /\ y.polled = x.polled /\ y.owed = <<"completed", outcome, "sample">>
        /\ Changed(x.sessions, c, good, y.sessions)
    BY <1>1, <1>3 DEF Fields, Changed
  <2>2. y.owed \in Dues /\ DueIs(y.owed, 1, 1, 1, 0, FALSE, 1)
    BY <2>1, DuesAre DEF Dues
  <2>3. /\ DueIs(y.owed, 1, 1, 1, 0, FALSE, Responded(y.owed))
        /\ RetriesReset(Responded(y.owed), x.sessions[c].retries, good.retries)
    <3>. HIDE DEF y, good
    <3>1. Responded(y.owed) = 1
      BY <2>2 DEF DueIs
    <3>2. good.retries = 0
      BY <1>6
    <3>3. RetriesReset(Responded(y.owed), x.sessions[c].retries, good.retries)
      <4>. HIDE DEF x
      <4>. QED BY <3>1, <3>2 DEF RetriesReset
    <3>. QED BY <2>2, <3>1, <3>3
  <2>4. Becomes(w, y)
    BY <1>8
  <2>. HIDE DEF y, good, a
  <2>. QED BY <1>1, <1>6, <2>1, <2>2, <2>3, <2>4, ChunkCounts
<1>9. ASSUME Becomes(w, b) PROVE EngineInv'
  <2>1. /\ DOMAIN b = Fields /\ b.pc = "events" /\ b.next_id = x.next_id /\ b.old = x.old
        /\ b.polled = x.polled /\ b.owed = <<"failed", "completed", "sample">>
        /\ Changed(x.sessions, c, bad, b.sessions)
    BY <1>1, <1>3 DEF Fields, Changed
  <2>2. b.owed \in Dues /\ DueIs(b.owed, 1, 1, 1, 0, FALSE, 0)
    BY <2>1, DuesAre DEF Dues
  <2>3. /\ DueIs(b.owed, 1, 1, 1, 0, FALSE, Responded(b.owed))
        /\ RetriesReset(Responded(b.owed), x.sessions[c].retries, bad.retries)
    <3>. HIDE DEF b, bad
    <3>1. Responded(b.owed) = 0
      BY <2>2 DEF DueIs
    <3>2. RetriesReset(Responded(b.owed), x.sessions[c].retries, bad.retries)
      BY <1>7, <3>1 DEF RetriesReset
    <3>. QED BY <2>2, <3>1, <3>2
  <2>. HIDE DEF b, bad, a
  <2>. QED BY <1>1, <1>7, <1>9, <2>1, <2>2, <2>3, ChunkCounts
<1>. QED BY <1>2, <1>8, <1>9

-----------------------------------------------------------------------------
(* The main thread *)

\* The workers notice nothing of what the main thread and the clock do, but that it raises stop.
MainMoves == UNCHANGED <<config, count, worker, aborted, stray>> /\ (stop => stop')

\* What is said of the workers, and of what they have to do with the counters they change.
LEMMA WorkersRest ==
  ASSUME EngineInv, MainMoves
  PROVE  (\A w \in Workers : WorkerOK(w, worker'[w])) /\ RequestsInv' /\ RetriesInv'
<1>1. count' = count /\ worker' = worker /\ stray' = stray /\ (stop => stop')
      /\ has_requests' = has_requests
  BY DEF MainMoves, has_requests
<1>2. \A w \in Workers : WorkerOK(w, worker'[w])
  BY <1>1 DEF EngineInv
<1>3. RequestsInv'
  <2>1. RequestsInv
    BY DEF EngineInv
  <2>. QED BY <1>1, <2>1 DEF RequestsInv, UnfinishedOf
<1>4. RetriesInv'
  <2>1. RetriesInv
    BY DEF EngineInv
  <2>2. NobodyStops' => NobodyStops
    BY <1>1 DEF NobodyStops
  <2>. HIDE DEF NobodyStops
  <2>. QED BY <1>1, <2>1, <2>2 DEF RetriesInv, Budget, Spent, Missing
<1>. QED BY <1>2, <1>3, <1>4

\* What is left to show of a step of the main thread.
LEMMA MainStep ==
  ASSUME EngineInv, MainMoves, TypeOK', CountersInv', StopInv', ReportInv'
  PROVE  EngineInv'
  BY WorkersRest, Primed DEF EngineInv

\* A step that leaves the samples alone.
LEMMA SamplesRest ==
  ASSUME EngineInv, MainMoves, unfolded' = unfolded, main'.folded = main.folded
  PROVE  CountersInv'
<1>1. CountersInv /\ count' = count /\ worker' = worker
  BY DEF EngineInv, MainMoves
<1>. QED BY <1>1 DEF CountersInv, ResultsDue, SamplesDue

\* end_time passes.
LEMMA EndTimeKeeps ==
  ASSUME EngineInv, EndTime
  PROVE  EngineInv'
<1>1. /\ UNCHANGED <<config, count, stop, worker, unfolded, main, aborted, stray>>
      /\ timeUp' = TRUE /\ main.pc = "loop"
  BY DEF EndTime
<1>2. TypeOK /\ StopInv /\ ReportInv
  BY DEF EngineInv
<1>3. MainMoves
  BY <1>1 DEF MainMoves
<1>4. TypeOK'
  BY <1>1, <1>2 DEF TypeOK
<1>5. CountersInv'
  BY <1>1, <1>3, SamplesRest
<1>6. StopInv'
  BY <1>1, <1>2 DEF StopInv
<1>7. ReportInv'
  BY <1>1, <1>2 DEF ReportInv, Seen
<1>. QED BY <1>3, <1>4, <1>5, <1>6, <1>7, MainStep

\* The main thread raises stop: somebody did, or the run has reached its end.
LEMMA MainStopKeeps ==
  ASSUME EngineInv, MainStop
  PROVE  EngineInv'
<1>1. /\ UNCHANGED <<config, count, worker, unfolded, timeUp, aborted, stray>>
      /\ stop' = TRUE /\ main' = [main EXCEPT !.pc = "join"]
      /\ main.pc = "loop" /\ (stop \/ ReachedEnd)
  BY DEF MainStop
<1>2. TypeOK /\ StopInv /\ ReportInv
  BY DEF EngineInv
<1>3. /\ DOMAIN main' = {"pc", "rep", "loads", "folded"} /\ main'.pc = "join"
      /\ main'.rep = main.rep /\ main'.loads = main.loads /\ main'.folded = main.folded
  BY <1>1, <1>2 DEF TypeOK
<1>4. MainMoves
  BY <1>1 DEF MainMoves
<1>5. TypeOK'
  BY <1>1, <1>2, <1>3 DEF TypeOK
<1>6. CountersInv'
  BY <1>1, <1>3, <1>4, SamplesRest
<1>7. StopInv'
  <2>1. aborted \/ ReachedEnd
    BY <1>1, <1>2 DEF StopInv
  <2>2. ReachedEnd' <=> ReachedEnd
    BY <1>1 DEF ReachedEnd, has_requests
  <2>. QED BY <1>1, <1>3, <2>1, <2>2 DEF StopInv
<1>8. ReportInv'
  BY <1>1, <1>2, <1>3 DEF ReportInv
<1>. QED BY <1>4, <1>5, <1>6, <1>7, <1>8, MainStep

\* The final report is begun, after the joins.
LEMMA JoinKeeps ==
  ASSUME EngineInv, Join
  PROVE  EngineInv'
<1>1. /\ UNCHANGED <<config, count, stop, worker, unfolded, timeUp, aborted, stray>>
      /\ main.pc = "join" /\ Joined
      /\ main' = [main EXCEPT !.pc = "final", !.loads = ReportOrder]
  BY DEF Join, OnlyMain
<1>2. TypeOK /\ StopInv /\ ReportInv
  BY DEF EngineInv
<1>3. /\ DOMAIN main' = {"pc", "rep", "loads", "folded"} /\ main'.pc = "final"
      /\ main'.rep = main.rep /\ main'.loads = ReportOrder /\ main'.folded = main.folded
  BY <1>1, <1>2 DEF TypeOK
<1>4. MainMoves
  BY <1>1 DEF MainMoves
<1>5. TypeOK'
  BY <1>1, <1>2, <1>3 DEF TypeOK, Loads
<1>6. CountersInv'
  BY <1>1, <1>3, <1>4, SamplesRest
<1>7. StopInv'
  <2>1. ReachedEnd' <=> ReachedEnd
    BY <1>1 DEF ReachedEnd, has_requests
  <2>2. \A w \in Workers : worker[w].pc = "exited" /\ worker[w].owed = <<>>
    BY <1>1 DEF Joined, At
  <2>. QED BY <1>1, <1>2, <1>3, <2>1, <2>2 DEF StopInv
<1>8. ReportInv'
  <2>1. \A c \in Reported : Has(main'.loads, c)
    BY <1>3, ShortLists DEF Reported, ReportOrder
  <2>2. \A c \in Reported : Seen(c)' = count'[c]
    BY <2>1 DEF Seen
  <2>. QED BY <1>3, <2>2 DEF ReportInv
<1>. QED BY <1>4, <1>5, <1>6, <1>7, <1>8, MainStep

\* What is still to load, once a counter is loaded.
LEMMA LoadsShrink ==
  ASSUME NEW l \in Loads, l # <<>>
  PROVE  /\ Tail(l) \in Loads /\ Head(l) \in Reported
         /\ \A c \in Reported : /\ Has(l, c) <=> Head(l) = c \/ Has(Tail(l), c)
                                /\ ~ (Head(l) = c /\ Has(Tail(l), c))
<1>. DEFINE Once(o, h, t) ==
              /\ Tail(o) = t /\ Head(o) = h /\ o # <<>>
              /\ \A c \in Reported : (Has(o, c) <=> h = c \/ Has(t, c)) /\ ~ (h = c /\ Has(t, c))
<1>1. Once(<<"failed">>, "failed", <<>>)
  BY ShortLists
<1>2. Once(<<"succeeded", "failed">>, "succeeded", <<"failed">>)
  BY ShortLists
<1>3. Once(<<"completed", "succeeded", "failed">>, "completed", <<"succeeded", "failed">>)
  BY ShortLists
<1>4. Once(<<"started", "completed", "succeeded", "failed">>, "started",
           <<"completed", "succeeded", "failed">>)
  BY ShortLists
<1>5. PICK h, t : Once(l, h, t) /\ t \in Loads /\ h \in Reported
  <2>. HIDE DEF Once
  <2>. QED BY <1>1, <1>2, <1>3, <1>4 DEF Loads, ReportOrder, Reported
<1>. QED BY <1>5

\* A counter is loaded; nothing tells that from its being loaded later, if nothing is counted.
LEMMA LoadCounterKeeps ==
  ASSUME EngineInv, LoadCounter
  PROVE  EngineInv'
<1>. DEFINE l == main.loads
            h == Head(l)
<1>1. /\ UNCHANGED <<config, count, stop, worker, unfolded, timeUp, aborted, stray>>
      /\ main.pc = "final" /\ l # <<>>
      /\ main' = [main EXCEPT !.rep[h] = count[h], !.loads = Tail(l)]
  BY DEF LoadCounter, OnlyMain
<1>2. TypeOK /\ StopInv /\ ReportInv
  BY DEF EngineInv
<1>3. /\ Tail(l) \in Loads /\ h \in Reported
      /\ \A c \in Reported : /\ Has(l, c) <=> h = c \/ Has(Tail(l), c)
                             /\ ~ (h = c /\ Has(Tail(l), c))
  <2>1. l \in Loads
    BY <1>2 DEF TypeOK
  <2>. HIDE DEF l
  <2>. QED BY <1>1, <2>1, LoadsShrink
<1>4. /\ DOMAIN main' = {"pc", "rep", "loads", "folded"} /\ main'.pc = main.pc
      /\ main'.loads = Tail(l) /\ main'.folded = main.folded
      /\ main'.rep = [main.rep EXCEPT ![h] = count[h]]
  BY <1>1, <1>2 DEF TypeOK
<1>. HIDE DEF l, h
<1>5. count[h] \in Nat /\ main.rep \in [Reported -> Nat]
  BY <1>2, <1>3 DEF TypeOK, Reported, Counter
<1>6. MainMoves
  BY <1>1 DEF MainMoves
<1>7. TypeOK'
  BY <1>1, <1>2, <1>3, <1>4, <1>5 DEF TypeOK
<1>8. CountersInv'
  BY <1>1, <1>4, <1>6, SamplesRest
<1>9. StopInv'
  <2>1. ReachedEnd' <=> ReachedEnd
    BY <1>1 DEF ReachedEnd, has_requests
  <2>. QED BY <1>1, <1>2, <1>4, <2>1 DEF StopInv
<1>10. \A c \in Reported : Seen(c)' = Seen(c)
  <2>. TAKE c \in Reported
  <2>1. CASE c = h
    BY <1>1, <1>3, <1>4, <1>5, <2>1 DEF Seen, l
  <2>2. CASE c # h
    BY <1>1, <1>3, <1>4, <1>5, <2>2 DEF Seen, l
  <2>. QED BY <2>1, <2>2
<1>11. ReportInv'
  <2>2. main'.pc \in {"final", "done"} => \A c \in Reported : Seen(c)' = count'[c]
    BY <1>1, <1>2, <1>4, <1>10 DEF ReportInv
  <2>. QED BY <1>1, <1>4, <2>2 DEF ReportInv
<1>. QED BY <1>6, <1>7, <1>8, <1>9, <1>11, MainStep

\* What Drain takes from the workers is added to what is folded.
LEMMA DrainKeeps ==
  ASSUME EngineInv, NEW pc, Drain(pc)
  PROVE  /\ MainMoves /\ UNCHANGED <<stop, timeUp>>
         /\ DOMAIN main' = {"pc", "rep", "loads", "folded"} /\ main'.pc = pc
         /\ main'.rep = main.rep /\ main'.loads = main.loads /\ main'.folded \in Nat
         /\ unfolded' \in [Workers -> Nat]
         /\ main.pc = "final" => \A w \in Workers : unfolded'[w] = 0
         /\ CountersInv'
<1>. DEFINE most == Max({unfolded[w] : w \in Workers})
            taken(left) == SumFunction([w \in Workers |-> unfolded[w] - left[w]])
<1>1. PICK left \in [Workers -> 0..most] :
        /\ \A w \in Workers : left[w] <= unfolded[w]
        /\ main.pc = "final" => \A w \in Workers : At(w, "exited") => left[w] = 0
        /\ unfolded' = left
        /\ main' = [main EXCEPT !.pc = pc, !.folded = @ + taken(left)]
        /\ UNCHANGED <<config, count, stop, worker, timeUp, aborted, stray>>
  BY Zenon DEF Drain
<1>. HIDE DEF most, taken
<1>. DEFINE p == [w \in Workers |-> unfolded[w] + SamplesDue(worker[w])]
            q == [w \in Workers |-> left[w] + SamplesDue(worker[w])]
            d == [w \in Workers |-> unfolded[w] - left[w]]
            z == [w \in Workers |-> 0]
            c == count["completed"]
            m == main.folded
<1>2. TypeOK /\ StopInv /\ CountersInv
  BY DEF EngineInv
<1>3. left \in [Workers -> Nat]
  <2>1. \A w \in Workers : left[w] \in Nat
    BY <1>1
  <2>. QED BY <1>1, <2>1
<1>4. \A w \in Workers : /\ unfolded[w] \in Int /\ left[w] \in Int /\ left[w] <= unfolded[w]
                         /\ SamplesDue(worker[w]) \in Int
  BY <1>1, <1>2, <1>3, AmountTypes DEF TypeOK, EngineInv
<1>5. /\ p \in [Workers -> Int] /\ q \in [Workers -> Int] /\ d \in [Workers -> Int]
      /\ z \in [Workers -> Int]
      /\ \A w \in Workers : p[w] = 1 * d[w] + q[w] /\ z[w] <= d[w] /\ z[w] = 0
  BY <1>4
<1>6. c \in Int /\ m \in Nat /\ c = m + SumFunction(p)
  BY <1>2 DEF TypeOK, Counter, CountersInv
<1>7. /\ DOMAIN main' = {"pc", "rep", "loads", "folded"} /\ main'.pc = pc
      /\ main'.rep = main.rep /\ main'.loads = main.loads /\ main'.folded = m + SumFunction(d)
  <2>1. taken(left) = SumFunction(d)
    BY DEF taken
  <2>. HIDE DEF d
  <2>. QED BY <1>1, <1>2, <2>1 DEF TypeOK
<1>8. /\ SumFunction(d) \in Int /\ SumFunction(q) \in Int
      /\ SumFunction(p) = 1 * SumFunction(d) + SumFunction(q)
  <2>1. IsFiniteSet(Workers) /\ 1 \in Int
    BY WorkersAre
  <2>. HIDE DEF p, q, d, z
  <2>2. p \in [Workers -> Int] /\ q \in [Workers -> Int] /\ d \in [Workers -> Int]
        /\ Linear(p, 1, d, q, Workers)
    BY <1>5 DEF Linear
  <2>3. SumFunction(p) = 1 * SumFunction(d) + SumFunction(q)
    BY <2>1, <2>2, SumLinear
  <2>4. \A f \in [Workers -> Int] : SumFunction(f) \in Int
    BY <2>1, SumOrder
  <2>. QED BY <2>2, <2>3, <2>4
<1>9. SumFunction(z) = 0 /\ SumFunction(z) <= SumFunction(d)
  <2>. HIDE DEF p, q, d, z
  <2>. QED BY <1>5, WorkersAre, SumZero, SumOrder
<1>10. main'.folded \in Nat /\ c = main'.folded + SumFunction(q)
  <2>. HIDE DEF p, q, d, z, c, m
  <2>. QED BY <1>6, <1>7, <1>8, <1>9
<1>11. main.pc = "final" => \A w \in Workers : unfolded'[w] = 0
  BY <1>1, <1>2 DEF StopInv, At
<1>12. CountersInv'
  <2>1. /\ count' = count /\ worker' = worker
        /\ count["completed"] = count["succeeded"] + count["failed"]
             + SumFunction([w \in Workers |-> ResultsDue(worker[w])])
    BY <1>1, <1>2 DEF CountersInv
  <2>2. c = main'.folded + SumFunction([w \in Workers |-> unfolded'[w] + SamplesDue(worker[w])])
    BY <1>1, <1>10
  <2>. QED BY <2>1, <2>2, Primed
<1>13. MainMoves /\ UNCHANGED <<stop, timeUp>>
  BY <1>1 DEF MainMoves
<1>. QED BY <1>1, <1>3, <1>7, <1>10, <1>11, <1>12, <1>13

\* Between the progress reports only the samples are drained.
LEMMA MainDrainKeeps ==
  ASSUME EngineInv, MainDrain
  PROVE  EngineInv'
<1>1. main.pc = "loop" /\ Drain("loop")
  BY DEF MainDrain
<1>2. /\ MainMoves /\ UNCHANGED <<stop, timeUp>> /\ main'.pc = "loop"
      /\ DOMAIN main' = {"pc", "rep", "loads", "folded"}
      /\ main'.rep = main.rep /\ main'.loads = main.loads /\ main'.folded \in Nat
      /\ unfolded' \in [Workers -> Nat] /\ CountersInv'
  BY <1>1, DrainKeeps
<1>3. TypeOK /\ StopInv /\ ReportInv
  BY DEF EngineInv
<1>4. TypeOK'
  BY <1>2, <1>3 DEF TypeOK, MainMoves
<1>5. StopInv'
  BY <1>1, <1>2, <1>3 DEF StopInv, MainMoves
<1>6. ReportInv'
  BY <1>1, <1>2, <1>3 DEF ReportInv
<1>. QED BY <1>2, <1>4, <1>5, <1>6, MainStep

\* The report is closed.
LEMMA SnapshotKeeps ==
  ASSUME EngineInv, Snapshot
  PROVE  EngineInv'
<1>1. main.pc = "final" /\ main.loads = <<>> /\ Drain("done")
  BY DEF Snapshot
<1>2. /\ MainMoves /\ UNCHANGED <<stop, timeUp>> /\ main'.pc = "done"
      /\ DOMAIN main' = {"pc", "rep", "loads", "folded"}
      /\ main'.rep = main.rep /\ main'.loads = main.loads /\ main'.folded \in Nat
      /\ unfolded' \in [Workers -> Nat] /\ CountersInv'
      /\ \A w \in Workers : unfolded'[w] = 0
  BY <1>1, DrainKeeps
<1>3. TypeOK /\ StopInv /\ ReportInv
  BY DEF EngineInv
<1>4. TypeOK'
  BY <1>1, <1>2, <1>3 DEF TypeOK, MainMoves
<1>5. StopInv'
  <2>1. ReachedEnd' <=> ReachedEnd
    BY <1>2 DEF ReachedEnd, MainMoves, has_requests
  <2>. QED BY <1>1, <1>2, <1>3, <2>1 DEF StopInv, MainMoves
<1>6. ReportInv'
  <2>2. \A c \in Reported : Seen(c)' = Seen(c) /\ count'[c] = count[c]
    BY <1>2 DEF Seen, MainMoves
  <2>. QED BY <1>1, <1>2, <1>3, <2>2 DEF ReportInv
<1>. QED BY <1>2, <1>4, <1>5, <1>6, MainStep

\* Nothing happens.
LEMMA NothingKeeps ==
  ASSUME EngineInv, UNCHANGED vars
  PROVE  EngineInv'
<1>1. UNCHANGED <<config, count, stop, worker, unfolded, main, timeUp, aborted, stray>>
  BY DEF vars
<1>2. TypeOK /\ StopInv /\ ReportInv
  BY DEF EngineInv
<1>3. MainMoves
  BY <1>1 DEF MainMoves
<1>4. TypeOK'
  BY <1>1, <1>2 DEF TypeOK
<1>5. CountersInv'
  BY <1>1, <1>3, SamplesRest
<1>6. StopInv'
  <2>1. ReachedEnd' <=> ReachedEnd
    BY <1>1 DEF ReachedEnd, has_requests
  <2>. QED BY <1>1, <1>2, <2>1 DEF StopInv
<1>7. ReportInv'
  BY <1>1, <1>2 DEF ReportInv, Seen
<1>. QED BY <1>3, <1>4, <1>5, <1>6, <1>7, MainStep

-----------------------------------------------------------------------------
(* The theorems *)

\* A worker that has not begun has nothing to do with the counters.
LEMMA FirstWorker ==
  ASSUME NEW w \in Workers
  PROVE  /\ WorkerOK(w, NewWorker)
         /\ UnfinishedOf(NewWorker) = 0 /\ ResultsDue(NewWorker) = 0 /\ SamplesDue(NewWorker) = 0
         /\ Budget(w, NewWorker) = 0 /\ Spent(w, NewWorker) = 0
<1>. DEFINE x == NewWorker
<1>1. /\ DOMAIN x = Fields /\ x.pc = "start" /\ x.next_id = 1 /\ x.old = NewSession
      /\ x.owed = <<>> /\ DOMAIN x.sessions = {}
      /\ x.sessions = [c \in DOMAIN x.sessions |-> x.sessions[c]]
  BY DEF NewWorker, Fields
<1>. HIDE DEF x
<1>2. NewSession \in SessionRecord /\ NewSession.retries = 0
  BY DEF NewSession, SessionRecord
<1>3. SessionMap(x.sessions, 1)
  BY <1>1 DEF SessionMap
<1>4. Cardinality(DOMAIN x.sessions) = 0 /\ InFlight(x.sessions) = 0 /\ RetriesOf(x.sessions) = 0
  BY <1>1, <1>3, MapEmpty
<1>5. DueIs(x.owed, 0, 0, 0, 0, FALSE, 0)
  BY <1>1, DuesAre
<1>6. WorkerTypes(x)
  BY <1>1, <1>2, <1>3 DEF WorkerTypes, PCs, Dues
<1>7. PassKnown(x)
  BY <1>1, <1>2 DEF PassKnown
<1>8. SizeKnown(w, x)
  <2>1. worker_concurrency[w] \in Nat
    BY WorkersAre
  <2>2. ~ Has(x.owed, "retried")
    BY <1>1, ShortLists
  <2>. QED BY <1>1, <1>4, <1>5, <2>1, <2>2 DEF SizeKnown, One, DueIs
<1>9. UnfinishedOf(x) = 0 /\ ResultsDue(x) = 0 /\ SamplesDue(x) = 0
  BY <1>1, <1>4, <1>5 DEF UnfinishedOf, ResultsDue, SamplesDue, DueIs, One
<1>10. Tried(x) = 0 /\ Missing(w, x) = 0
  BY <1>1, <1>2, <1>4, <1>5 DEF Tried, Missing, DueIs
<1>11. Budget(w, x) = 0 /\ Spent(w, x) = 0
  BY <1>1, <1>5, <1>10 DEF Budget, Spent, DueIs
<1>. QED BY <1>6, <1>7, <1>8, <1>9, <1>11 DEF x, WorkerOK

\* Nothing is counted or due at first.
LEMMA EngineInit ==
  ASSUME Init
  PROVE  EngineInv
<1>. DEFINE z == [w \in Workers |-> 0]
<1>1. /\ \A c \in Counter : count[c] = 0
      /\ count \in [Counter -> Nat] /\ unfolded \in [Workers -> Nat]
      /\ \A w \in Workers : worker[w] = NewWorker /\ unfolded[w] = 0
      /\ worker = [w \in Workers |-> worker[w]]
  BY DEF Init
<1>2. /\ config \in Configs /\ stop = FALSE /\ main = NewMain
      /\ timeUp = FALSE /\ aborted = FALSE /\ stray = 0
  BY DEF Init
<1>3. /\ DOMAIN main = {"pc", "rep", "loads", "folded"} /\ main.pc = "loop"
      /\ main.rep \in [Reported -> Nat] /\ main.loads = <<>> /\ main.folded = 0
  BY <1>2 DEF NewMain, EmptyReport, Reported
<1>4. TypeOK
  <2>1. /\ config \in Configs
        /\ stop \in BOOLEAN /\ timeUp \in BOOLEAN /\ aborted \in BOOLEAN
    BY <1>2
  <2>2. stray \in 0..MostStray
    BY <1>2, StrayBounds
  <2>3. /\ main.pc \in {"loop", "join", "final", "done"}
        /\ main.folded \in Nat
    BY <1>3
  <2>4. main.loads \in Loads
    <3>1. <<>> \in Loads
      BY DEF Loads
    <3>. QED BY <1>3, <3>1
  <2>. QED BY <1>1, <1>3, <2>1, <2>2, <2>3, <2>4 DEF TypeOK
<1>5. \A w \in Workers : WorkerOK(w, worker[w])
  BY <1>1, FirstWorker
<1>6. SumFunction(z) = 0
  <2>1. z \in [Workers -> Int] /\ \A w \in Workers : z[w] = 0
    OBVIOUS
  <2>. HIDE DEF z
  <2>. QED BY <2>1, WorkersAre, SumZero
<1>7. /\ [w \in Workers |-> UnfinishedOf(worker[w])] = z
      /\ [w \in Workers |-> ResultsDue(worker[w])] = z
  BY <1>1, FirstWorker
<1>8. [w \in Workers |-> unfolded[w] + SamplesDue(worker[w])] = z
  BY <1>1, FirstWorker
<1>9. /\ [w \in Workers |-> Budget(w, worker[w])] = z
      /\ [w \in Workers |-> Spent(w, worker[w])] = z
  BY <1>1, FirstWorker
<1>10. /\ count["started"] = 0 /\ count["completed"] = 0 /\ count["succeeded"] = 0
       /\ count["failed"] = 0 /\ count["retried"] = 0
  BY <1>1 DEF Counter
<1>. HIDE DEF z
<1>11. RequestsInv
  BY <1>2, <1>6, <1>7, <1>10 DEF RequestsInv
<1>12. CountersInv
  BY <1>3, <1>6, <1>7, <1>8, <1>10 DEF CountersInv
<1>13. RetriesInv
  BY <1>6, <1>9, <1>10 DEF RetriesInv
<1>14. StopInv /\ ReportInv
  BY <1>2, <1>3 DEF StopInv, ReportInv
<1>. QED BY <1>4, <1>5, <1>11, <1>12, <1>13, <1>14 DEF EngineInv

\* The invariant holds in every state (all of engine.cpp).
THEOREM EngineInvariant == Spec => []EngineInv
<1>1. Init => EngineInv
  BY EngineInit
<1>2. EngineInv /\ [Next]_vars => EngineInv'
  <2>. SUFFICES ASSUME EngineInv, [Next]_vars PROVE EngineInv'
    OBVIOUS
  <2>1. ASSUME NEW w \in Workers, WorkerNext(w) PROVE EngineInv'
    <3>1. CASE Pay(w)
      BY <3>1, PayKeeps
    <3>2. CASE StartFails(w)
      BY <3>2, StartFailsKeeps
    <3>3. CASE CreateSessions(w)
      BY <3>3, CreateSessionsKeeps
    <3>4. CASE LoopTop(w)
      BY <3>4, LoopTopKeeps
    <3>5. CASE AcquireRequestQuota(w)
      BY <3>5, AcquireRequestQuotaKeeps
    <3>6. CASE Send(w)
      BY <3>6, SendKeeps
    <3>7. CASE PollOnce(w)
      BY <3>7, PollOnceKeeps
    <3>8. CASE PollFails(w)
      BY <3>8, PollFailsKeeps
    <3>9. ASSUME NEW c, UnknownConnection(w, c) PROVE EngineInv'
      BY <3>9, UnknownConnectionKeeps
    <3>10. ASSUME NEW c, ErrorEvent(w, c) PROVE EngineInv'
      BY <3>10, ErrorEventKeeps
    <3>11. ASSUME NEW c, Chunk(w, c) PROVE EngineInv'
      BY <3>11, ChunkKeeps
    <3>12. CASE Retry(w)
      BY <3>12, RetryKeeps
    <3>13. CASE EventsDone(w)
      BY <3>13, EventsDoneKeeps
    <3>. QED BY <2>1, <3>1, <3>2, <3>3, <3>4, <3>5, <3>6, <3>7, <3>8, <3>9, <3>10, <3>11, <3>12,
                <3>13 DEF WorkerNext
  <2>2. ASSUME NEW w \in Workers, NEW c \in DOMAIN worker[w].sessions, BackoffOver(w, c)
        PROVE  EngineInv'
    BY <2>2, BackoffOverKeeps
  <2>3. CASE EndTime
    BY <2>3, EndTimeKeeps
  <2>4. CASE MainNext
    BY <2>4, MainStopKeeps, MainDrainKeeps, JoinKeeps, LoadCounterKeeps, SnapshotKeeps
       DEF MainNext
  <2>5. CASE Terminated \/ UNCHANGED vars
    BY <2>5, NothingKeeps DEF Terminated
  <2>. QED BY <2>1, <2>2, <2>3, <2>4, <2>5 DEF Next
<1>. QED BY <1>1, <1>2, PTL DEF Spec

\* A worker owes a payment once or not at all, so that what the properties count is what the
\* invariant counts.
LEMMA OwesOnce ==
  ASSUME NEW l \in Dues, NEW due
  PROVE  Cardinality({i \in DOMAIN l : l[i] = due}) = One(Has(l, due))
<1>1. \A i, j \in DOMAIN l : l[i] = l[j] => i = j
  <2>1. l \in {<<>>, <<"stop">>, <<"retried">>, <<"sample">>} =>
          \A i, j \in DOMAIN l : l[i] = l[j] => i = j
    OBVIOUS
  <2>2. l \in {<<"retried", "stop">>, <<"completed", "sample">>, <<"succeeded", "sample">>,
               <<"failed", "sample">>} =>
          \A i, j \in DOMAIN l : l[i] = l[j] => i = j
    OBVIOUS
  <2>3. l \in {<<"failed", "completed", "sample">>, <<"succeeded", "completed", "sample">>} =>
          \A i, j \in DOMAIN l : l[i] = l[j] => i = j
    OBVIOUS
  <2>4. l \in {<<"completed", "succeeded", "sample">>, <<"completed", "failed", "sample">>} =>
          \A i, j \in DOMAIN l : l[i] = l[j] => i = j
    OBVIOUS
  <2>. QED BY <2>1, <2>2, <2>3, <2>4 DEF Dues
<1>. DEFINE places == {i \in DOMAIN l : l[i] = due}
<1>2. CASE Has(l, due)
  <2>1. PICK i \in DOMAIN l : l[i] = due
    BY <1>2 DEF Has
  <2>2. places = {i}
    BY <1>1, <2>1
  <2>. HIDE DEF places
  <2>3. Cardinality(places) = 1
    BY <2>2, FS_Singleton
  <2>. QED BY <1>2, <2>3 DEF places, One
<1>3. CASE ~ Has(l, due)
  <2>1. places = {}
    BY <1>3 DEF Has
  <2>. HIDE DEF places
  <2>2. Cardinality(places) = 0
    BY <2>1, FS_EmptySet
  <2>. QED BY <1>3, <2>2 DEF places, One
<1>. QED BY <1>2, <1>3

\* No request is lost and none counted twice, through every retry, drop and stop
\* (engine.cpp:213-357), for any number of workers, sessions, requests and retries.
THEOREM RequestsAccounted == Spec => []EveryRequestAccounted
<1>1. EngineInv => EveryRequestAccounted
  <2>. SUFFICES ASSUME EngineInv, has_requests
                PROVE  count["started"] + stray =
                         count["completed"] + SumFunction([w \in Workers |-> Unfinished(w)])
    BY DEF EveryRequestAccounted
  <2>1. ASSUME NEW w \in Workers PROVE Unfinished(w) = UnfinishedOf(worker[w])
    <3>1. worker[w].owed \in Dues
      BY WorkerFacts
    <3>2. Owes(w, "completed") = One(Has(worker[w].owed, "completed"))
      BY <3>1, OwesOnce DEF Owes
    <3>. QED BY <3>2 DEF Unfinished, UnfinishedOf, InFlight, One
  <2>2. [w \in Workers |-> Unfinished(w)] = [w \in Workers |-> UnfinishedOf(worker[w])]
    BY <2>1
  <2>. QED BY <2>2 DEF EngineInv, RequestsInv
<1>. QED BY <1>1, EngineInvariant, PTL

\* With -n, a run that nobody aborted performs exactly the requests asked for, as long as the
\* server answers only what it was asked (engine.cpp:72-86, 533-538).
THEOREM FinalReportIsExact == Spec => []FinalReportExact
<1>1. EngineInv => FinalReportExact
  <2>. SUFFICES ASSUME EngineInv, main.pc = "done", has_requests, ~ aborted, stray = 0
                PROVE  main.rep["completed"] = Requests /\ main.rep["started"] = Requests
    BY DEF FinalReportExact
  <2>. DEFINE f == [w \in Workers |-> UnfinishedOf(worker[w])]
              z == [w \in Workers |-> 0]
              a == count["started"]
              b == count["completed"]
  <2>1. a <= Requests /\ a + stray = b + SumFunction(f)
    BY DEF EngineInv, RequestsInv
  <2>2. b >= Requests
    BY DEF EngineInv, StopInv, ReachedEnd
  <2>3. \A w \in Workers : f[w] \in Int /\ z[w] <= f[w] /\ z[w] = 0
    BY AmountTypes DEF EngineInv
  <2>4. f \in [Workers -> Int] /\ z \in [Workers -> Int]
    BY <2>3
  <2>5. a \in Int /\ b \in Int
    BY DEF EngineInv, TypeOK, Counter
  <2>6. main.rep["completed"] = b /\ main.rep["started"] = a
    <3>1. main.loads = <<>> /\ Seen("completed") = b /\ Seen("started") = a
      BY DEF EngineInv, ReportInv, Reported
    <3>. QED BY <3>1, ShortLists DEF Seen
  <2>. HIDE DEF f, z, a, b
  <2>7. SumFunction(f) \in Int /\ SumFunction(z) <= SumFunction(f) /\ SumFunction(z) = 0
    BY <2>3, <2>4, WorkersAre, SumOrder, SumZero
  <2>8. a = Requests /\ b = Requests
    BY <2>1, <2>2, <2>5, <2>7
  <2>. QED BY <2>6, <2>8
<1>. QED BY <1>1, EngineInvariant, PTL

\* What the workers may still retry: no more than they have sessions for.
LEMMA BudgetBound ==
  ASSUME EngineInv
  PROVE  /\ SumFunction([w \in Workers |-> Budget(w, worker[w])]) \in Int
         /\ SumFunction([w \in Workers |-> Budget(w, worker[w])])
              <= kMaxRetryPerSession * Concurrency
<1>. DEFINE k == kMaxRetryPerSession
            f == [w \in Workers |-> Budget(w, worker[w])]
            c == worker_concurrency
            h == [w \in Workers |-> k * c[w] + 0]
            z == [w \in Workers |-> 0]
<1>1. k \in Int /\ c \in [Workers -> Int] /\ z \in [Workers -> Int]
      /\ IsFiniteSet(Workers) /\ SumFunction(c) = Concurrency
  BY WorkersAre
<1>2. \A w \in Workers : k * c[w] \in Int
  BY WorkersAre
<1>3. /\ h \in [Workers -> Int]
      /\ \A w \in Workers : h[w] = k * c[w] + z[w] /\ h[w] = k * c[w]
  BY <1>2
<1>4. \A w \in Workers : f[w] \in Int /\ f[w] <= h[w]
  <2>. TAKE w \in Workers
  <2>1. Budget(w, worker[w]) \in Int /\ Budget(w, worker[w]) <= k * c[w]
    BY AmountTypes DEF EngineInv
  <2>. HIDE DEF h
  <2>. QED BY <1>3, <2>1
<1>5. f \in [Workers -> Int] /\ \A w \in Workers : z[w] = 0
  BY <1>4
<1>. HIDE DEF k, f, c, h, z
<1>6. SumFunction(h) = k * SumFunction(c) + SumFunction(z)
  <2>1. Linear(h, k, c, z, Workers)
    BY <1>3 DEF Linear
  <2>. QED BY <1>1, <1>3, <2>1, SumLinear
<1>7. SumFunction(z) = 0
  BY <1>1, <1>5, SumZero
<1>8. SumFunction(f) \in Int /\ SumFunction(f) <= SumFunction(h)
  BY <1>1, <1>3, <1>4, <1>5, SumOrder
<1>9. k * Concurrency \in Int
  BY DEF k
<1>10. SumFunction(f) <= k * Concurrency
  BY <1>1, <1>6, <1>7, <1>8, <1>9
<1>. QED BY <1>8, <1>10 DEF f, k

\* While nobody stops, each session dropped has had all of its retries.
LEMMA DroppedBound ==
  ASSUME EngineInv, NobodyStops
  PROVE  kMaxRetryPerSession * SumFunction([w \in Workers |-> Dropped(w)]) <= count["retried"]
<1>. DEFINE k == kMaxRetryPerSession
            f == [w \in Workers |-> Spent(w, worker[w])]
            d == [w \in Workers |-> Dropped(w)]
            h == [w \in Workers |-> k * d[w] + 0]
            z == [w \in Workers |-> 0]
<1>1. ASSUME NEW w \in Workers
      PROVE  Dropped(w) \in Int /\ Spent(w, worker[w]) \in Int
             /\ k * Dropped(w) <= Spent(w, worker[w])
  <2>. DEFINE x == worker[w]
              m == IF x.pc = "exited" THEN 0 ELSE Missing(w, x)
  <2>1. ~ Has(x.owed, "stop")
    BY DEF NobodyStops
  <2>2. Missing(w, x) \in Nat /\ Spent(w, x) \in Int
        /\ (~ Has(x.owed, "stop") => Spent(w, x) >= k * m)
    BY AmountTypes DEF EngineInv
  <2>3. Dropped(w) = m
    BY DEF Dropped, Missing, One
  <2>4. m \in Nat
    BY <2>2
  <2>. HIDE DEF m, x
  <2>5. Dropped(w) \in Int
    BY <2>3, <2>4
  <2>6. k * m <= Spent(w, x)
    <3>1. k * m \in Int /\ Spent(w, x) >= k * m
      BY <2>1, <2>2, <2>4
    <3>. HIDE DEF k
    <3>. QED BY <2>2, <3>1
  <2>. QED BY <2>2, <2>3, <2>5, <2>6 DEF x
<1>2. k \in Int /\ z \in [Workers -> Int] /\ IsFiniteSet(Workers)
      /\ d \in [Workers -> Int] /\ f \in [Workers -> Int] /\ \A w \in Workers : z[w] = 0
  BY <1>1, WorkersAre
<1>3. \A w \in Workers : k * d[w] \in Int
  BY <1>2
<1>4. /\ h \in [Workers -> Int]
      /\ \A w \in Workers : h[w] = k * d[w] + z[w] /\ h[w] = k * d[w]
  BY <1>3
<1>5. \A w \in Workers : h[w] <= f[w]
  BY <1>1, <1>4
<1>6. SumFunction(f) <= count["retried"] /\ count["retried"] \in Int
  BY DEF EngineInv, RetriesInv, TypeOK, Counter
<1>. HIDE DEF k, f, d, h, z
<1>7. SumFunction(h) = k * SumFunction(d) + SumFunction(z)
  <2>1. Linear(h, k, d, z, Workers)
    BY <1>4 DEF Linear
  <2>2. /\ k \in Int /\ z \in [Workers -> Int] /\ IsFiniteSet(Workers)
        /\ d \in [Workers -> Int] /\ h \in [Workers -> Int]
    BY <1>2, <1>4
  <2>. QED BY <2>1, <2>2, SumLinear
<1>8. SumFunction(z) = 0
  BY <1>2, SumZero
<1>9. SumFunction(f) \in Int /\ SumFunction(h) \in Int /\ SumFunction(h) <= SumFunction(f)
  BY <1>2, <1>4, <1>5, SumOrder
<1>10. SumFunction(d) \in Int
  BY <1>2, SumOrder
<1>11. k * SumFunction(d) \in Int
  BY <1>2, <1>10
<1>12. k * SumFunction(d) <= count["retried"]
  BY <1>6, <1>7, <1>8, <1>9, <1>11
<1>. QED BY <1>12 DEF d, k

\* The reconnections stay within kMaxRetryPerSession for each connection asked for and each
\* response received; and while nobody stops the run, no session is dropped before it has had
\* all of its own (engine.cpp:295-307, 330).
THEOREM RetriesWithinBudget == Spec => []RetryBudget
<1>1. EngineInv => RetryBudget
  <2>. SUFFICES ASSUME EngineInv PROVE RetryBudget
    OBVIOUS
  <2>. DEFINE k == kMaxRetryPerSession
              b == SumFunction([w \in Workers |-> Budget(w, worker[w])])
              c == count["completed"]
              r == count["retried"]
  <2>1. r <= k * (Concurrency + c)
    <3>1. b \in Int /\ b <= k * Concurrency
      BY BudgetBound
    <3>2. r <= k * c + b
      BY DEF EngineInv, RetriesInv
    <3>3. r \in Int /\ c \in Int /\ k \in Int
      BY DEF EngineInv, TypeOK, Counter
    <3>. HIDE DEF b, c, r, k
    <3>. QED BY <3>1, <3>2, <3>3
  <2>2. ~ stop /\ (\A w \in Workers : Owes(w, "stop") = 0) =>
          kMaxRetryPerSession * SumFunction([w \in Workers |-> Dropped(w)]) <= count["retried"]
    <3>. SUFFICES ASSUME ~ stop, \A w \in Workers : Owes(w, "stop") = 0
                  PROVE  NobodyStops
      BY DroppedBound
    <3>1. ASSUME NEW w \in Workers PROVE ~ Has(worker[w].owed, "stop")
      <4>1. worker[w].owed \in Dues
        BY WorkerFacts
      <4>2. Owes(w, "stop") = One(Has(worker[w].owed, "stop"))
        BY <4>1, OwesOnce DEF Owes
      <4>. QED BY <4>2 DEF One
    <3>. QED BY <3>1 DEF NobodyStops
  <2>. QED BY <2>1, <2>2 DEF RetryBudget
<1>. QED BY <1>1, EngineInvariant, PTL

\* The report is one Run may end with: its numbers add up.
LEMMA ReportAddsUp == EngineInv /\ main.pc = "done" => FinalReport \in Run!Balanced
<1>. SUFFICES ASSUME EngineInv, main.pc = "done" PROVE FinalReport \in Run!Balanced
  OBVIOUS
<1>. DEFINE a == count["completed"]
            b == count["succeeded"]
            c == count["failed"]
            m == main.folded
            f == [w \in Workers |-> UnfinishedOf(worker[w])]
            g == [w \in Workers |-> ResultsDue(worker[w])]
            h == [w \in Workers |-> unfolded[w] + SamplesDue(worker[w])]
            z == [w \in Workers |-> 0]
            most == Requests + MostStray + MaxSends + 2 * Concurrency
<1>1. \A w \in Workers : worker[w].owed = <<>> /\ unfolded[w] = 0
  BY DEF EngineInv, StopInv, ReportInv
<1>2. \A w \in Workers : ResultsDue(worker[w]) = 0 /\ SamplesDue(worker[w]) = 0
  BY <1>1, ShortLists DEF ResultsDue, SamplesDue, One
<1>3. g = z /\ h = z
  BY <1>1, <1>2
<1>4. \A w \in Workers : f[w] \in Int /\ z[w] <= f[w] /\ z[w] = 0
  BY AmountTypes DEF EngineInv
<1>5. f \in [Workers -> Int] /\ z \in [Workers -> Int]
  BY <1>4
<1>6. a = b + c + SumFunction(g) /\ a = m + SumFunction(h)
  BY DEF EngineInv, CountersInv
<1>7. /\ has_requests => /\ count["started"] <= Requests
                         /\ count["started"] + stray = a + SumFunction(f)
      /\ ~ has_requests => a + SumFunction(f) <= stray + MaxSends + 2 * Concurrency
  BY DEF EngineInv, RequestsInv
<1>8. /\ a \in Nat /\ b \in Nat /\ c \in Nat /\ m \in Nat /\ count["started"] \in Nat
      /\ stray \in Nat /\ stray <= MostStray
  BY DEF EngineInv, TypeOK, Counter
<1>9. /\ main.rep["completed"] = a /\ main.rep["succeeded"] = b /\ main.rep["failed"] = c
  <2>1. main.loads = <<>> /\ Seen("completed") = a /\ Seen("succeeded") = b /\ Seen("failed") = c
    BY DEF EngineInv, ReportInv, Reported
  <2>. QED BY <2>1, ShortLists DEF Seen
<1>. HIDE DEF a, b, c, m, f, g, h, z
<1>10. SumFunction(f) \in Int /\ SumFunction(z) <= SumFunction(f) /\ SumFunction(z) = 0
  BY <1>4, <1>5, WorkersAre, SumOrder, SumZero
<1>11. a = b + c /\ m = b + c
  BY <1>3, <1>6, <1>8, <1>10
<1>12. most \in Nat /\ a <= most
  BY <1>7, <1>8, <1>10, StrayBounds
<1>. HIDE DEF most
<1>13. b \in 0..most /\ c \in 0..most
  BY <1>8, <1>11, <1>12
<1>14. FinalReport = [completed |-> b + c, succeeded |-> b, failed |-> c, samples |-> b + c]
  BY <1>9, <1>11 DEF FinalReport, m
<1>. QED BY <1>13, <1>14 DEF Run!Balanced, most

\* No step of a worker is seen by the caller of Run: once the report is closed, no worker is
\* left to raise stop.
LEMMA WorkerStepsStutter ==
  ASSUME EngineInv, NEW w \in Workers,
         WorkerNext(w) \/ \E c \in DOMAIN worker[w].sessions : BackoffOver(w, c)
  PROVE  /\ config' = config /\ main' = main /\ timeUp' = timeUp
         /\ main.pc = "done" => aborted' = aborted
<1>1. CASE Pay(w)
  <2>1. main.pc \notin {"final", "done"}
    BY <1>1, Running DEF Pay
  <2>. QED BY <1>1, <2>1 DEF Pay
<1>2. CASE \/ StartFails(w) \/ CreateSessions(w) \/ LoopTop(w) \/ Send(w) \/ PollOnce(w)
           \/ PollFails(w) \/ Retry(w) \/ EventsDone(w)
           \/ \E c : UnknownConnection(w, c) \/ ErrorEvent(w, c) \/ BackoffOver(w, c)
  <2>1. StartFails(w) \/ CreateSessions(w) \/ LoopTop(w) \/ PollOnce(w) => OnlyWorker
    BY Zenon DEF StartFails, CreateSessions, LoopTop, PollOnce
  <2>2. Send(w) \/ PollFails(w) \/ Retry(w) \/ EventsDone(w) => OnlyWorker
    BY Zenon DEF Send, PollFails, Retry, EventsDone
  <2>3. (\E c : UnknownConnection(w, c) \/ ErrorEvent(w, c) \/ BackoffOver(w, c)) => OnlyWorker
    BY Zenon DEF UnknownConnection, ErrorEvent, BackoffOver
  <2>4. OnlyWorker
    BY <1>2, <2>1, <2>2, <2>3
  <2>. QED BY <2>4 DEF OnlyWorker
<1>3. CASE AcquireRequestQuota(w)
  BY <1>3 DEF AcquireRequestQuota
<1>4. CASE \E c : Chunk(w, c)
  BY <1>4 DEF Chunk
<1>. QED BY <1>1, <1>2, <1>3, <1>4 DEF WorkerNext

\* What the caller of Run sees stays as it is.
LEMMA RunStutters ==
  ASSUME timeUp' = timeUp, config' = config,
         \/ main.pc # "done" /\ main'.pc # "done"
         \/ main' = main /\ aborted' = aborted
  PROVE  UNCHANGED Run!vars
  BY DEF Run!vars, FinalReport, has_requests

\* Run keeps what BenchmarkRun promises, for any number of workers, sessions, requests and
\* retries: it ends with one report that adds up although the counters are separate atomics
\* changed in different orders, every completed request left its sample, and unless a worker
\* aborts it has completed the requests or used up the time it was given
\* (engine.cpp:230-337, 526-567).
THEOREM EngineImplementsRun == Spec => ImplementsRun
<1>1. Init => Run!Init
  BY DEF Init, NewMain, Run!Init, Run!EmptyReport, FinalReport
<1>2. (EngineInv /\ main.pc = "done" => FinalReport \in Run!Balanced)'
  BY ReportAddsUp, PTL
<1>3. EngineInv /\ EngineInv' /\ [Next]_vars => [Run!Next]_Run!vars
  <2>. SUFFICES ASSUME EngineInv, EngineInv', [Next]_vars
                PROVE  Run!Next \/ UNCHANGED Run!vars
    OBVIOUS
  <2>1. ASSUME NEW w \in Workers,
               WorkerNext(w) \/ \E c \in DOMAIN worker[w].sessions : BackoffOver(w, c)
        PROVE  UNCHANGED Run!vars
    <3>1. /\ config' = config /\ main' = main /\ timeUp' = timeUp
          /\ main.pc = "done" => aborted' = aborted
      BY <2>1, WorkerStepsStutter
    <3>. QED BY <3>1, RunStutters
  <2>2. CASE EndTime
    <3>1. Run!EndTime
      BY <2>2 DEF EndTime, Run!EndTime, FinalReport
    <3>2. has_requests' = has_requests
      BY <2>2 DEF EndTime, has_requests
    <3>. QED BY <3>1, <3>2 DEF Run!Next
  <2>3. CASE Snapshot
    <3>1. Drain("done") /\ main.pc = "final"
      BY <2>3 DEF Snapshot
    <3>2. UNCHANGED <<stop, timeUp>> /\ main'.pc = "done" /\ MainMoves
      BY <3>1, DrainKeeps
    <3>3. FinalReport' \in Run!Balanced
      BY <1>2, <3>2
    <3>4. aborted' = aborted /\ (aborted \/ ReachedEnd) /\ count' = count
      BY <3>1, <3>2 DEF EngineInv, StopInv, MainMoves
    <3>5. ~ aborted => IF has_requests THEN FinalReport'.completed >= Requests ELSE timeUp
      <4>1. main'.loads = <<>> /\ Seen("completed")' = count["completed"]
        BY <3>2, <3>4 DEF EngineInv, ReportInv, Reported
      <4>2. main'.rep["completed"] = count["completed"]
        BY <4>1, ShortLists DEF Seen
      <4>3. FinalReport'.completed = count["completed"]
        BY <3>2, <4>2 DEF FinalReport
      <4>. QED BY <3>4, <4>3 DEF ReachedEnd
    <3>6. (IF has_requests THEN Requests ELSE 0) > 0 <=> has_requests
      OBVIOUS
    <3>7. Run!End
      BY <3>1, <3>2, <3>3, <3>4, <3>5, <3>6 DEF Run!End
    <3>8. has_requests' = has_requests
      BY <3>2 DEF MainMoves, has_requests
    <3>. QED BY <3>2, <3>7, <3>8 DEF Run!Next
  <2>4. CASE MainNext /\ ~ Snapshot
    <3>1. CASE MainDrain
      <4>1. timeUp' = timeUp /\ config' = config /\ main'.pc = "loop" /\ main.pc = "loop"
        BY <3>1, DrainKeeps DEF MainDrain, MainMoves
      <4>. QED BY <4>1, RunStutters
    <3>2. CASE MainStop \/ Join \/ LoadCounter
      <4>1. DOMAIN main = {"pc", "rep", "loads", "folded"}
        BY DEF EngineInv, TypeOK
      <4>2. timeUp' = timeUp /\ config' = config /\ main.pc # "done" /\ main'.pc # "done"
        BY <3>2, <4>1 DEF MainStop, Join, LoadCounter, OnlyMain
      <4>. QED BY <4>2, RunStutters
    <3>. QED BY <2>4, <3>1, <3>2 DEF MainNext
  <2>5. CASE Terminated \/ UNCHANGED vars
    <3>1. timeUp' = timeUp /\ config' = config /\ main' = main /\ aborted' = aborted
      BY <2>5 DEF Terminated, vars
    <3>. QED BY <3>1, RunStutters
  <2>. QED BY <2>1, <2>2, <2>3, <2>4, <2>5 DEF Next
<1>4. Spec => []EngineInv
  BY EngineInvariant
<1>. QED BY <1>1, <1>3, <1>4, PTL DEF Spec, ImplementsRun, Run!Spec
=============================================================================
