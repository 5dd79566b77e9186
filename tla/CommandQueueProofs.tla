------------------------- MODULE CommandQueueProofs -------------------------
(***************************************************************************)
(* The command queue beside one caller, for any number of nodes and of     *)
(* submissions.                                                            *)
(***************************************************************************)
EXTENDS CommandQueue, SequenceTheorems, TLAPS

USE NullAssumption, BoundAssumption

-----------------------------------------------------------------------------
(* Sequences *)

\* The elements of the rest of a list.
LEMMA RestElements ==
  ASSUME NEW S, NEW s \in Seq(S), s # <<>>
  PROVE  /\ Len(s) \in Nat \ {0} /\ DOMAIN s = 1..Len(s)
         /\ Rest(s) \in Seq(S) /\ Len(Rest(s)) = Len(s) - 1
         /\ DOMAIN Rest(s) = 1..Len(s) - 1
         /\ \A i \in 1..Len(s) - 1 : Rest(s)[i] = s[i + 1]
<1>1. Len(s) \in Nat \ {0} /\ DOMAIN s = 1..Len(s)
  OBVIOUS
<1>2. Rest(s) \in Seq(S) /\ Len(Rest(s)) = Len(s) - 1
  BY <1>1 DEF Rest
<1>3. \A i \in 1..Len(s) - 1 : Rest(s)[i] = s[i + 1]
  BY <1>1 DEF Rest
<1>4. DOMAIN Rest(s) = 1..Len(s) - 1
  BY <1>1, <1>2
<1>. QED BY <1>1, <1>2, <1>3, <1>4

\* Taking the first element off a list, as the pointers do.
LEMMA TopRemoved ==
  ASSUME NEW S, NEW s \in Seq(S), s # <<>>
  PROVE  /\ s[1] \in S /\ s[1] \in ToSet(s)
         /\ Rest(s) \in Seq(S) /\ ToSet(Rest(s)) \subseteq ToSet(s)
         /\ IsInjective(s) => IsInjective(Rest(s)) /\ ToSet(Rest(s)) = ToSet(s) \ {s[1]}
<1>1. Len(s) \in Nat \ {0} /\ DOMAIN s = 1..Len(s)
  BY RestElements
<1>2. Rest(s) \in Seq(S)
  BY RestElements
<1>3. \A i \in 1..Len(s) - 1 : Rest(s)[i] = s[i + 1]
  BY RestElements
<1>4. DOMAIN Rest(s) = 1..Len(s) - 1
  BY RestElements
<1>5. s[1] \in S /\ s[1] \in ToSet(s)
  BY <1>1 DEF ToSet
<1> DEFINE r == Rest(s)
<1> HIDE DEF r
<1>6. /\ DOMAIN r = 1..Len(s) - 1
      /\ \A i \in DOMAIN r : r[i] = s[i + 1] /\ i + 1 \in DOMAIN s /\ i + 1 # 1
  BY <1>1, <1>3, <1>4 DEF r
<1>7. ToSet(r) \subseteq ToSet(s)
  BY <1>6 DEF ToSet
<1>8. ASSUME IsInjective(s) PROVE IsInjective(r) /\ s[1] \notin ToSet(r)
  <2>1. 1 \in DOMAIN s
    BY <1>1
  <2>2. \A i \in DOMAIN r : r[i] # s[1]
    BY <1>6, <1>8, <2>1 DEF IsInjective
  <2>3. ASSUME NEW i \in DOMAIN r, NEW j \in DOMAIN r, r[i] = r[j] PROVE i = j
    <3>1. i + 1 = j + 1
      BY <1>6, <1>8, <2>3 DEF IsInjective
    <3>. QED BY <1>1, <1>6, <3>1
  <2>. QED BY <2>2, <2>3 DEF IsInjective, ToSet
<1>9. ASSUME NEW n \in ToSet(s), n # s[1] PROVE n \in ToSet(Rest(s))
  <2>1. PICK i \in 1..Len(s) : s[i] = n
    BY <1>1 DEF ToSet
  <2>2. i - 1 \in 1..Len(s) - 1 /\ Rest(s)[i - 1] = n
    BY <1>1, <1>3, <1>9, <2>1
  <2>. QED BY <1>4, <2>2 DEF ToSet
<1>. QED BY <1>2, <1>5, <1>7, <1>8, <1>9 DEF r

\* Putting an element in front of a list.
LEMMA TopAdded ==
  ASSUME NEW S, NEW s \in Seq(S), NEW n \in S
  PROVE  /\ <<n>> \o s \in Seq(S) /\ ToSet(<<n>> \o s) = {n} \cup ToSet(s)
         /\ IsInjective(s) /\ n \notin ToSet(s) => IsInjective(<<n>> \o s)
<1> DEFINE t == <<n>> \o s
<1>1. Len(s) \in Nat /\ DOMAIN s = 1..Len(s)
  OBVIOUS
<1>2. t \in Seq(S) /\ Len(t) = Len(s) + 1 /\ DOMAIN t = 1..Len(s) + 1
  OBVIOUS
<1>3. t[1] = n /\ \A i \in 1..Len(s) : t[i + 1] = s[i]
  OBVIOUS
<1>4. \A i \in 2..Len(s) + 1 : i - 1 \in 1..Len(s) /\ t[i] = s[i - 1]
  OBVIOUS
<1> HIDE DEF t
<1>5. ToSet(t) \subseteq {n} \cup ToSet(s)
  <2>1. ASSUME NEW i \in 1..Len(s) + 1 PROVE t[i] \in {n} \cup ToSet(s)
    <3>1. CASE i = 1
      BY <1>3, <3>1
    <3>2. CASE i # 1
      <4>1. i - 1 \in DOMAIN s /\ t[i] = s[i - 1]
        BY <1>1, <1>4, <3>2
      <4>. QED BY <4>1 DEF ToSet
    <3>. QED BY <3>1, <3>2
  <2>. QED BY <1>2, <2>1 DEF ToSet
<1>6. {n} \cup ToSet(s) \subseteq ToSet(t)
  BY <1>1, <1>2, <1>3 DEF ToSet
<1>7. ASSUME IsInjective(s), n \notin ToSet(s) PROVE IsInjective(t)
  <2> SUFFICES ASSUME NEW i \in 1..Len(s) + 1, NEW j \in 1..Len(s) + 1, t[i] = t[j], i # j
               PROVE  FALSE
    BY <1>2 DEF IsInjective
  <2>1. \A k \in 2..Len(s) + 1 : t[k] # n
    BY <1>1, <1>4, <1>7 DEF ToSet
  <2>2. i \in 2..Len(s) + 1 /\ j \in 2..Len(s) + 1
    BY <1>1, <1>3, <2>1
  <2>3. s[i - 1] = s[j - 1] /\ i - 1 \in DOMAIN s /\ j - 1 \in DOMAIN s
    BY <1>1, <1>4, <2>2
  <2>. QED BY <1>7, <2>3, <2>2 DEF IsInjective
<1>. QED BY <1>2, <1>5, <1>6, <1>7 DEF t

\* Two lists with nothing in common are one list without repetition.
LEMMA Joined ==
  ASSUME NEW S, NEW s \in Seq(S), NEW t \in Seq(S)
  PROVE  /\ s \o t \in Seq(S) /\ ToSet(s \o t) = ToSet(s) \cup ToSet(t)
         /\ IsInjective(s) /\ IsInjective(t) /\ ToSet(s) \cap ToSet(t) = {} => IsInjective(s \o t)
<1> DEFINE u == s \o t
<1>1. /\ Len(s) \in Nat /\ DOMAIN s = 1..Len(s)
      /\ Len(t) \in Nat /\ DOMAIN t = 1..Len(t)
  OBVIOUS
<1>2. u \in Seq(S) /\ DOMAIN u = 1..Len(s) + Len(t)
  OBVIOUS
<1>3. /\ \A i \in 1..Len(s) : u[i] = s[i]
      /\ \A i \in 1..Len(t) : u[Len(s) + i] = t[i]
      /\ \A i \in Len(s) + 1..Len(s) + Len(t) : i - Len(s) \in 1..Len(t) /\ u[i] = t[i - Len(s)]
  OBVIOUS
<1> HIDE DEF u
<1>4. ToSet(s) \cup ToSet(t) \subseteq ToSet(u)
  <2>1. \A i \in DOMAIN s : i \in DOMAIN u /\ s[i] = u[i]
    BY <1>1, <1>2, <1>3
  <2>2. \A i \in DOMAIN t : Len(s) + i \in DOMAIN u /\ t[i] = u[Len(s) + i]
    BY <1>1, <1>2, <1>3
  <2>. QED BY <2>1, <2>2 DEF ToSet
<1>5. ASSUME NEW i \in DOMAIN u
      PROVE  \/ i \in DOMAIN s /\ u[i] = s[i]
             \/ i - Len(s) \in DOMAIN t /\ u[i] = t[i - Len(s)]
  BY <1>1, <1>2, <1>3
<1>6. ToSet(u) \subseteq ToSet(s) \cup ToSet(t)
  BY <1>5 DEF ToSet
<1>7. ASSUME IsInjective(s), IsInjective(t), ToSet(s) \cap ToSet(t) = {} PROVE IsInjective(u)
  <2> SUFFICES ASSUME NEW i \in DOMAIN u, NEW j \in DOMAIN u, u[i] = u[j]
               PROVE  i = j
    BY DEF IsInjective
  <2>1. \A a \in DOMAIN s, b \in DOMAIN t : s[a] # t[b]
    BY <1>7 DEF ToSet
  <2>2. i \in Int /\ j \in Int /\ Len(s) \in Int
    BY <1>1, <1>2
  <2>. QED BY <1>5, <1>7, <2>1, <2>2 DEF IsInjective
<1>. QED BY <1>2, <1>4, <1>6, <1>7 DEF u

\* Putting an element at the end of a list.
LEMMA EndAdded ==
  ASSUME NEW S, NEW s \in Seq(S), NEW n \in S
  PROVE  /\ Append(s, n) \in Seq(S) /\ ToSet(Append(s, n)) = ToSet(s) \cup {n}
         /\ IsInjective(s) /\ n \notin ToSet(s) => IsInjective(Append(s, n))
<1>1. <<n>> \in Seq(S) /\ Append(s, n) = s \o <<n>>
  OBVIOUS
<1>2. IsInjective(<<n>>) /\ ToSet(<<n>>) = {n}
  BY DEF IsInjective, ToSet
<1> DEFINE e == <<n>>
<1> HIDE DEF e
<1>3. /\ s \o e \in Seq(S) /\ ToSet(s \o e) = ToSet(s) \cup ToSet(e)
      /\ IsInjective(s) /\ IsInjective(e) /\ ToSet(s) \cap ToSet(e) = {} => IsInjective(s \o e)
  <2>1. e \in Seq(S)
    BY <1>1 DEF e
  <2>. QED BY <2>1, Joined
<1>4. Append(s, n) = s \o e /\ IsInjective(e) /\ ToSet(e) = {n}
  BY <1>1, <1>2 DEF e
<1>. QED BY <1>3, <1>4

-----------------------------------------------------------------------------
(* Lists in memory *)

Pointer == Nodes \cup {Null}

\* ListIs for any contents of Command::next.
Linked(nx, h, s) ==
  /\ h = IF s = <<>> THEN Null ELSE s[1]
  /\ \A i \in 1..Len(s) : nx[s[i]] = IF i < Len(s) THEN s[i + 1] ELSE Null

\* A list ends at nullptr and nowhere else.
LEMMA LinkedEnd ==
  ASSUME NEW nx, NEW h, NEW s \in Seq(Nodes), Linked(nx, h, s)
  PROVE  /\ h = Null <=> s = <<>>
         /\ h # Null => h = s[1] /\ h \in Nodes /\ h \in ToSet(s)
<1>1. s # <<>> => s[1] \in Nodes /\ s[1] \in ToSet(s)
  BY TopRemoved
<1>. QED BY <1>1 DEF Linked

\* The first node's next is the head of the rest.
LEMMA LinkedRest ==
  ASSUME NEW nx, NEW h, NEW s \in Seq(Nodes), Linked(nx, h, s), h # Null
  PROVE  Linked(nx, nx[h], Rest(s))
<1>1. s # <<>> /\ h = s[1] /\ Len(s) \in Nat \ {0}
  BY LinkedEnd
<1>2. nx[h] = IF 1 < Len(s) THEN s[2] ELSE Null
  BY <1>1 DEF Linked
<1>3. Len(Rest(s)) = Len(s) - 1 /\ \A i \in 1..Len(s) - 1 : Rest(s)[i] = s[i + 1]
  BY <1>1, RestElements
<1>4. Rest(s) \in Seq(Nodes)
  BY <1>1, RestElements
<1>5. nx[h] = IF Rest(s) = <<>> THEN Null ELSE Rest(s)[1]
  <2>1. CASE Len(s) = 1
    BY <1>2, <1>3, <1>4, <2>1
  <2>2. CASE Len(s) > 1
    <3>1. Rest(s) # <<>> /\ Rest(s)[1] = s[2]
      BY <1>1, <1>3, <1>4, <2>2
    <3>. QED BY <1>2, <2>2, <3>1
  <2>3. Len(s) = 1 \/ Len(s) > 1
    <3>1. \A k \in Nat \ {0} : k = 1 \/ k > 1
      OBVIOUS
    <3>. QED BY <1>1, <3>1, Zenon
  <2>. QED BY <2>1, <2>2, <2>3
<1>6. ASSUME NEW i \in 1..Len(Rest(s))
      PROVE  nx[Rest(s)[i]] = IF i < Len(Rest(s)) THEN Rest(s)[i + 1] ELSE Null
  <2>1. i + 1 \in 1..Len(s) /\ i \in 1..Len(s) - 1 /\ (i + 1) + 1 = i + 2
    BY <1>1, <1>3
  <2>2. nx[s[i + 1]] = IF i + 1 < Len(s) THEN s[i + 2] ELSE Null
    BY <1>1, <2>1 DEF Linked
  <2>3. Rest(s)[i] = s[i + 1]
    BY <1>3, <2>1
  <2>4. CASE i + 1 < Len(s)
    <3>1. i < Len(Rest(s)) /\ i + 1 \in 1..Len(s) - 1
      BY <1>1, <1>3, <2>1, <2>4
    <3>2. Rest(s)[i + 1] = s[i + 2]
      BY <1>3, <2>1, <3>1
    <3>. QED BY <2>2, <2>3, <2>4, <3>1, <3>2
  <2>5. CASE ~(i + 1 < Len(s))
    <3>1. ~(i < Len(Rest(s)))
      BY <1>1, <1>3, <2>1, <2>5
    <3>. QED BY <2>2, <2>3, <2>5, <3>1
  <2>. QED BY <2>4, <2>5
<1>. QED BY <1>5, <1>6 DEF Linked

\* A node whose next is the head makes a longer list.
LEMMA LinkedTop ==
  ASSUME NEW nx, NEW h, NEW s \in Seq(Nodes), Linked(nx, h, s), NEW n \in Nodes, nx[n] = h
  PROVE  Linked(nx, n, <<n>> \o s)
<1> DEFINE t == <<n>> \o s
<1>1. Len(s) \in Nat /\ Len(t) = Len(s) + 1 /\ t[1] = n /\ t # <<>>
  OBVIOUS
<1>2. \A i \in 1..Len(s) : t[i + 1] = s[i]
  OBVIOUS
<1>3. Len(s) = 0 <=> s = <<>>
  OBVIOUS
<1> HIDE DEF t
<1>4. nx[t[1]] = IF 1 < Len(t) THEN t[2] ELSE Null
  <2>1. CASE Len(s) = 0
    BY <1>1, <1>3, <2>1 DEF Linked
  <2>2. CASE Len(s) > 0
    <3>1. t[2] = s[1]
      BY <1>1, <1>2, <2>2
    <3>. QED BY <1>1, <1>3, <2>2, <3>1 DEF Linked
  <2>. QED BY <1>1, <2>1, <2>2
<1>5. ASSUME NEW i \in 1..Len(t), i # 1
      PROVE  nx[t[i]] = IF i < Len(t) THEN t[i + 1] ELSE Null
  <2>1. i - 1 \in 1..Len(s) /\ t[i] = s[i - 1]
    BY <1>1, <1>2, <1>5
  <2>2. nx[s[i - 1]] = IF i - 1 < Len(s) THEN s[i] ELSE Null
    BY <1>1, <2>1 DEF Linked
  <2>3. i - 1 < Len(s) => t[i + 1] = s[i]
    BY <1>1, <1>2, <1>5
  <2>. QED BY <1>1, <2>1, <2>2, <2>3
<1>6. Linked(nx, n, t)
  BY <1>1, <1>4, <1>5 DEF Linked
<1>. QED BY <1>6 DEF t

\* A store into the next of a node that is not in the list leaves the list alone.
LEMMA LinkedElsewhere ==
  ASSUME NEW nx \in [Nodes -> Pointer], NEW h, NEW s \in Seq(Nodes), Linked(nx, h, s),
         NEW n, n \notin ToSet(s), NEW x
  PROVE  Linked([nx EXCEPT ![n] = x], h, s)
<1>1. \A i \in 1..Len(s) : s[i] \in Nodes /\ s[i] # n
  BY DEF ToSet
<1>. QED BY <1>1 DEF Linked

\* Nothing is linked from nullptr.
LEMMA LinkedNothing == \A nx : Linked(nx, Null, <<>>)
BY DEF Linked
-----------------------------------------------------------------------------
(* The invariant *)

\* The locals of a caller and of the polling thread.
CallerType ==
  [pc : {"idle", "acquire", "pop", "fill", "push", "wake"}, head : Pointer, next : Pointer,
   node : Pointer, old_head : Pointer, submitted : Nat]

PollerType ==
  [pc : {"idle", "wakefd", "drain", "reverse", "collect", "handle", "reset", "release", "wait",
         "delete", "delete_free", "stopped"},
   cursor : Pointer, prev : Pointer, cmds : Seq(Nodes), old_head : Pointer, woken : BOOLEAN,
   taken : Seq(Nodes), turned : Seq(Nodes)]

\* Every variable the proofs are about keeps its type.
TypeOK ==
  /\ next \in [Nodes -> Pointer] /\ item \in [Nodes -> Commands \cup {NoCommand}]
  /\ command_head \in Pointer /\ queued \in Seq(Nodes)
  /\ command_free_head \in Pointer /\ spare \in Seq(Nodes)
  /\ wake \in BOOLEAN /\ edge \in BOOLEAN
  /\ allocated \subseteq Nodes /\ freed \subseteq Nodes
  /\ producer \in [Producers -> CallerType] /\ poller \in PollerType

\* The polling thread holds lists only where its code is between taking and giving them back;
\* nobody submits once Stop runs, which leaves the stack empty, then the free list.
Phases ==
  /\ poller.taken # <<>> => poller.pc \in {"reverse", "delete", "delete_free"}
  /\ poller.turned # <<>> => poller.pc \in {"reverse", "collect"}
  /\ poller.cmds # <<>> => poller.pc \in {"collect", "handle", "reset", "release"}
  /\ Deleting => queued = <<>> /\ \A p \in Producers : At(p, "idle")
  /\ poller.pc \in {"delete_free", "stopped"} => spare = <<>>

\* The pointers of every list lead through exactly its nodes, the lists in the polling
\* thread's hands included.
Chains ==
  /\ Linked(next, command_head, queued)
  /\ Linked(next, command_free_head, spare)
  /\ Is("reverse") => /\ Linked(next, poller.cursor, poller.taken)
                      /\ Linked(next, poller.prev, poller.turned)
  /\ Is("collect") => Linked(next, poller.cursor, poller.turned)
  /\ Is("delete") \/ Is("delete_free") => Linked(next, poller.cursor, poller.taken)

\* What a thread has read still holds when it acts on it: the node a caller means to pop is
\* still in the free list with the same next, the next of a node about to be pushed is the
\* head it was read from.
Fresh(c) ==
  /\ c.pc \in {"acquire", "pop"} => c.head = Null \/ c.head \in ToSet(spare)
  /\ c.pc = "pop" => c.head # Null /\ c.next = next[c.head]
  /\ c.pc \in {"fill", "push"} => c.node \in Nodes
  /\ c.pc = "push" => next[c.node] = c.old_head

\* A caller submits no more than its share, and pushes the command it filled in.
Labelled(p) ==
  /\ producer[p].pc \in {"acquire", "pop", "fill", "push"} => producer[p].submitted < MaxSubmit[p]
  /\ producer[p].pc = "push" => item[producer[p].node] = <<p, producer[p].submitted>>

Hands ==
  /\ \A p \in Producers : Fresh(producer[p]) /\ Labelled(p)
  /\ poller.pc \in {"reset", "release"} => poller.cursor \in Nodes
  /\ Is("release") => next[poller.cursor] = poller.old_head

\* The lists q, s, t, u and c and the sets w and h share no node and repeat none; with f,
\* which they do not meet, they are all of a.
Apart(q, s, t, u, c, w, h, a, f) ==
  /\ IsInjective(q) /\ IsInjective(s) /\ IsInjective(t) /\ IsInjective(u) /\ IsInjective(c)
  /\ ToSet(q) \cap (ToSet(s) \cup ToSet(t) \cup ToSet(u) \cup ToSet(c) \cup w \cup h) = {}
  /\ ToSet(s) \cap (ToSet(t) \cup ToSet(u) \cup ToSet(c) \cup w \cup h) = {}
  /\ ToSet(t) \cap (ToSet(u) \cup ToSet(c) \cup w \cup h) = {}
  /\ ToSet(u) \cap (ToSet(c) \cup w \cup h) = {}
  /\ ToSet(c) \cap (w \cup h) = {}
  /\ w \cap h = {}
  /\ a = ToSet(q) \cup ToSet(s) \cup ToSet(t) \cup ToSet(u) \cup ToSet(c) \cup w \cup h \cup f
  /\ f \cap (ToSet(q) \cup ToSet(s) \cup ToSet(t) \cup ToSet(u) \cup ToSet(c) \cup w \cup h) = {}

\* Every node the heap handed out is in one place of one list, in one pair of hands or back
\* in the heap; nodes go back only in Stop.
Owned ==
  /\ Apart(queued, spare, poller.taken, poller.turned, poller.cmds, ToSet(Working), Held,
           allocated, freed)
  /\ freed # {} => Deleting

\* The inductive invariant, where one thread submits.
QueueInv == TypeOK /\ Phases /\ Chains /\ Hands /\ Owned

-----------------------------------------------------------------------------
(* Nodes change hands: one lemma for each way they do *)

\* new hands out a node.
LEMMA Allocated ==
  ASSUME NEW q, NEW s, NEW t, NEW u, NEW c, NEW w, NEW a, NEW f, NEW n,
         Apart(q, s, t, u, c, w, {}, a, f), n \notin a
  PROVE  Apart(q, s, t, u, c, w, {n}, a \cup {n}, f)
BY DEF Apart

\* A caller pops the free list.
LEMMA Popped ==
  ASSUME NEW q, NEW s \in Seq(Nodes), NEW t, NEW u, NEW c, NEW w, NEW a, NEW f,
         Apart(q, s, t, u, c, w, {}, a, f), s # <<>>
  PROVE  Apart(q, Rest(s), t, u, c, w, {s[1]}, a, f)
<1>1. IsInjective(Rest(s)) /\ ToSet(Rest(s)) = ToSet(s) \ {s[1]} /\ s[1] \in ToSet(s)
  BY TopRemoved DEF Apart
<1>. QED BY <1>1 DEF Apart

\* A caller pushes its node on the stack.
LEMMA Queued ==
  ASSUME NEW q \in Seq(Nodes), NEW s, NEW t, NEW u, NEW c, NEW w, NEW a, NEW f,
         NEW n \in Nodes, Apart(q, s, t, u, c, w, {n}, a, f)
  PROVE  Apart(<<n>> \o q, s, t, u, c, w, {}, a, f)
<1>1. ToSet(<<n>> \o q) = {n} \cup ToSet(q) /\ IsInjective(<<n>> \o q)
  BY TopAdded DEF Apart
<1>. QED BY <1>1 DEF Apart

\* The empty list has no elements.
LEMMA NoElements == IsInjective(<<>>) /\ ToSet(<<>>) = {}
BY DEF IsInjective, ToSet

\* The polling thread takes the stack, to execute it or in Stop.
LEMMA Taken ==
  ASSUME NEW q, NEW s, NEW u, NEW c, NEW w, NEW h, NEW a, NEW f,
         Apart(q, s, <<>>, u, c, w, h, a, f)
  PROVE  Apart(<<>>, s, q, u, c, w, h, a, f)
BY NoElements DEF Apart

\* Stop takes the free list.
LEMMA TakenFree ==
  ASSUME NEW q, NEW s, NEW u, NEW c, NEW w, NEW h, NEW a, NEW f,
         Apart(q, s, <<>>, u, c, w, h, a, f)
  PROVE  Apart(q, <<>>, s, u, c, w, h, a, f)
BY NoElements DEF Apart

\* A node taken is turned round.
LEMMA Turned ==
  ASSUME NEW q, NEW s, NEW t \in Seq(Nodes), NEW u \in Seq(Nodes), NEW c, NEW w, NEW h, NEW a,
         NEW f, Apart(q, s, t, u, c, w, h, a, f), t # <<>>
  PROVE  Apart(q, s, Rest(t), <<t[1]>> \o u, c, w, h, a, f)
<1>1. /\ IsInjective(Rest(t)) /\ ToSet(Rest(t)) = ToSet(t) \ {t[1]}
      /\ t[1] \in ToSet(t) /\ t[1] \in Nodes
  BY TopRemoved DEF Apart
<1>2. t[1] \notin ToSet(u)
  BY <1>1 DEF Apart
<1>3. ToSet(<<t[1]>> \o u) = {t[1]} \cup ToSet(u) /\ IsInjective(<<t[1]>> \o u)
  BY <1>1, <1>2, TopAdded DEF Apart
<1>. QED BY <1>1, <1>3 DEF Apart

\* A node turned round is collected.
LEMMA CollectedOne ==
  ASSUME NEW q, NEW s, NEW t, NEW u \in Seq(Nodes), NEW c \in Seq(Nodes), NEW w, NEW h, NEW a,
         NEW f, Apart(q, s, t, u, c, w, h, a, f), u # <<>>
  PROVE  Apart(q, s, t, Rest(u), Append(c, u[1]), w, h, a, f)
<1>1. /\ IsInjective(Rest(u)) /\ ToSet(Rest(u)) = ToSet(u) \ {u[1]}
      /\ u[1] \in ToSet(u) /\ u[1] \in Nodes
  BY TopRemoved DEF Apart
<1>2. u[1] \notin ToSet(c)
  BY <1>1 DEF Apart
<1>3. ToSet(Append(c, u[1])) = ToSet(c) \cup {u[1]} /\ IsInjective(Append(c, u[1]))
  BY <1>1, <1>2, EndAdded DEF Apart
<1>. QED BY <1>1, <1>3 DEF Apart

\* The rest of a list is its tail.
LEMMA RestIsTail ==
  ASSUME NEW S, NEW s \in Seq(S), s # <<>>
  PROVE  Rest(s) = Tail(s)
BY DEF Rest

\* A command collected is executed.
LEMMA Executed ==
  ASSUME NEW q, NEW s, NEW t, NEW u, NEW c \in Seq(Nodes), NEW h, NEW a, NEW f,
         Apart(q, s, t, u, c, {}, h, a, f), c # <<>>
  PROVE  Apart(q, s, t, u, Tail(c), {c[1]}, h, a, f)
<1>1. IsInjective(Rest(c)) /\ ToSet(Rest(c)) = ToSet(c) \ {c[1]} /\ c[1] \in ToSet(c)
  BY TopRemoved DEF Apart
<1>2. Rest(c) = Tail(c)
  BY RestIsTail
<1>. QED BY <1>1, <1>2 DEF Apart

\* A node executed goes to the free list.
LEMMA Released ==
  ASSUME NEW q, NEW s \in Seq(Nodes), NEW t, NEW u, NEW c, NEW h, NEW a, NEW f,
         NEW n \in Nodes, Apart(q, s, t, u, c, {n}, h, a, f)
  PROVE  Apart(q, <<n>> \o s, t, u, c, {}, h, a, f)
<1>1. ToSet(<<n>> \o s) = {n} \cup ToSet(s) /\ IsInjective(<<n>> \o s)
  BY TopAdded DEF Apart
<1>. QED BY <1>1 DEF Apart

\* Stop deletes a node.
LEMMA Deleted ==
  ASSUME NEW q, NEW s, NEW t \in Seq(Nodes), NEW u, NEW c, NEW w, NEW h, NEW a, NEW f,
         Apart(q, s, t, u, c, w, h, a, f), t # <<>>
  PROVE  Apart(q, s, Rest(t), u, c, w, h, a, f \cup {t[1]})
<1>1. /\ IsInjective(Rest(t)) /\ ToSet(Rest(t)) = ToSet(t) \ {t[1]}
      /\ t[1] \in ToSet(t)
  BY TopRemoved DEF Apart
<1>. QED BY <1>1 DEF Apart

-----------------------------------------------------------------------------
(* The steps of the caller *)

\* What the caller has in its hands.
LEMMA HeldByCaller ==
  \A p : Producers = {p} =>
    Held = IF producer[p].pc \in {"fill", "push"} THEN {producer[p].node} ELSE {}
BY DEF Held, InHands

\* A step of the caller changes its locals to what the code says.
LEMMA CallerBecomes ==
  ASSUME NEW p \in Producers, producer \in [Producers -> CallerType],
         NEW new \in CallerType, Becomes(p, new)
  PROVE  producer' \in [Producers -> CallerType] /\ producer'[p] = new
BY DEF Becomes

\* A step of the caller that changes its locals and no list keeps the invariant.
LEMMA CallerKeeps ==
  ASSUME NEW p, Producers = {p}, QueueInv, TypeOK', Held' = Held,
         UNCHANGED <<next, stack, free, heap, poller>>,
         Fresh(producer[p])', Labelled(p)', Deleting => At(p, "idle")'
  PROVE  QueueInv'
<1> USE DEF stack, free, heap
<1>1. Phases'
  BY DEF QueueInv, Phases, Deleting, At, Is
<1>2. Chains'
  BY DEF QueueInv, Chains, Is
<1>3. Hands'
  BY DEF QueueInv, Hands, Is
<1>4. Owned'
  BY DEF QueueInv, Owned, Working, Deleting
<1>. QED BY <1>1, <1>2, <1>3, <1>4 DEF QueueInv

\* Nobody submits while Stop deletes.
LEMMA NotDeleting ==
  ASSUME NEW p \in Producers, QueueInv, ~At(p, "idle")
  PROVE  ~Deleting
BY DEF QueueInv, Phases

\* A submission begins: the head of the free list it loads is in the free list.
LEMMA SubmitStep ==
  ASSUME NEW p, Producers = {p}, QueueInv, Submit(p)
  PROVE  QueueInv'
<1> DEFINE new == [producer[p] EXCEPT !.pc = "acquire", !.head = command_free_head]
<1>1. p \in Producers /\ producer[p] \in CallerType /\ producer \in [Producers -> CallerType]
  BY DEF QueueInv, TypeOK
<1>2. new \in CallerType
  BY <1>1 DEF QueueInv, TypeOK, CallerType, Pointer
<1>3. producer' \in [Producers -> CallerType] /\ producer'[p] = new
  BY <1>1, <1>2, CallerBecomes DEF Submit
<1>4. TypeOK'
  BY <1>3 DEF QueueInv, TypeOK, Submit, memory, stack, free, wakefd, heap
<1>5. Held' = Held
  BY <1>3, <1>1, HeldByCaller DEF QueueInv, TypeOK, CallerType, Submit, At, Held, InHands
<1>6. Fresh(producer[p])'
  <2>1. command_free_head = Null \/ command_free_head \in ToSet(spare)
    BY LinkedEnd DEF QueueInv, TypeOK, CallerType, Chains
  <2>. QED BY <1>3, <1>1, <2>1 DEF QueueInv, TypeOK, CallerType, Submit, Fresh, free
<1>7. Labelled(p)'
  BY <1>3, <1>1 DEF Submit, At, CallerType, Labelled
<1>8. ~Deleting
  BY DEF Submit, Deleting
<1>. QED BY <1>4, <1>5, <1>6, <1>7, <1>8, CallerKeeps DEF Submit, memory

\* There is no memory for a node.
LEMMA AcquireFailsStep ==
  ASSUME NEW p, Producers = {p}, QueueInv, AcquireFails(p)
  PROVE  QueueInv'
<1> DEFINE new == [producer[p] EXCEPT !.pc = "idle"]
<1>1. p \in Producers /\ producer[p] \in CallerType /\ producer \in [Producers -> CallerType]
  BY DEF QueueInv, TypeOK
<1>2. new \in CallerType
  BY <1>1 DEF QueueInv, TypeOK, CallerType, Pointer
<1>3. producer' \in [Producers -> CallerType] /\ producer'[p] = new
  BY <1>1, <1>2, CallerBecomes DEF AcquireFails
<1>4. TypeOK'
  BY <1>3 DEF QueueInv, TypeOK, AcquireFails, memory, stack, free, wakefd, heap
<1>5. Held' = Held
  BY <1>3, <1>1 DEF QueueInv, TypeOK, CallerType, AcquireFails, At, Held, InHands
<1>6. Fresh(producer[p])'
  BY <1>3, <1>1 DEF QueueInv, TypeOK, CallerType, Fresh
<1>7. Labelled(p)'
  BY <1>3, <1>1 DEF CallerType, Labelled
<1>8. ~Deleting
  BY NotDeleting DEF AcquireFails, At
<1>. QED BY <1>4, <1>5, <1>6, <1>7, <1>8, CallerKeeps DEF AcquireFails, memory

\* The next of the node the caller looks at is read while the node is in the free list.
LEMMA AcquireNextStep ==
  ASSUME NEW p, Producers = {p}, QueueInv, AcquireNext(p)
  PROVE  QueueInv'
<1> DEFINE new == [producer[p] EXCEPT !.pc = "pop", !.next = next[producer[p].head]]
<1>1. p \in Producers /\ producer[p] \in CallerType /\ producer \in [Producers -> CallerType]
  BY DEF QueueInv, TypeOK
<1>2. new \in CallerType
  BY <1>1 DEF QueueInv, TypeOK, CallerType, Pointer, AcquireNext, Hands, Fresh, At
<1>3. producer' \in [Producers -> CallerType] /\ producer'[p] = new
  BY <1>1, <1>2, CallerBecomes DEF AcquireNext
<1>4. TypeOK'
  BY <1>3 DEF QueueInv, TypeOK, AcquireNext, memory, stack, free, wakefd, heap
<1>5. Held' = Held
  BY <1>3, <1>1 DEF QueueInv, TypeOK, CallerType, AcquireNext, At, Held, InHands
<1>6. Fresh(producer[p])'
  BY <1>3, <1>1 DEF QueueInv, TypeOK, CallerType, Hands, Fresh, AcquireNext, At, memory, free
<1>7. Labelled(p)'
  BY <1>3, <1>1 DEF QueueInv, Hands, AcquireNext, At, CallerType, Labelled
<1>8. ~Deleting
  BY NotDeleting DEF AcquireNext, At
<1>. QED BY <1>4, <1>5, <1>6, <1>7, <1>8, CallerKeeps DEF AcquireNext, memory

\* An exchange failed and the head is loaded again.
LEMMA AcquireRetryStep ==
  ASSUME NEW p, Producers = {p}, QueueInv, AcquireRetry(p)
  PROVE  QueueInv'
<1> DEFINE new == [producer[p] EXCEPT !.pc = "acquire", !.head = command_free_head]
<1>1. p \in Producers /\ producer[p] \in CallerType /\ producer \in [Producers -> CallerType]
  BY DEF QueueInv, TypeOK
<1>2. new \in CallerType
  BY <1>1 DEF QueueInv, TypeOK, CallerType, Pointer
<1>3. producer' \in [Producers -> CallerType] /\ producer'[p] = new
  BY <1>1, <1>2, CallerBecomes DEF AcquireRetry
<1>4. TypeOK'
  BY <1>3 DEF QueueInv, TypeOK, AcquireRetry, memory, stack, free, wakefd, heap
<1>5. Held' = Held
  BY <1>3, <1>1 DEF QueueInv, TypeOK, CallerType, AcquireRetry, At, Held, InHands
<1>6. Fresh(producer[p])'
  <2>1. command_free_head = Null \/ command_free_head \in ToSet(spare)
    BY LinkedEnd DEF QueueInv, TypeOK, CallerType, Chains
  <2>. QED BY <1>3, <1>1, <2>1 DEF QueueInv, TypeOK, CallerType, AcquireRetry, Fresh, free
<1>7. Labelled(p)'
  BY <1>3, <1>1 DEF QueueInv, Hands, AcquireRetry, At, CallerType, Labelled
<1>8. ~Deleting
  BY NotDeleting DEF AcquireRetry, At
<1>. QED BY <1>4, <1>5, <1>6, <1>7, <1>8, CallerKeeps DEF AcquireRetry, memory

\* The node is out of the caller's hands before the eventfd is written to.
LEMMA EnqueueWakeStep ==
  ASSUME NEW p, Producers = {p}, QueueInv, EnqueueWake(p)
  PROVE  QueueInv'
<1> DEFINE new == [producer[p] EXCEPT !.pc = "idle", !.node = Null]
<1>1. p \in Producers /\ producer[p] \in CallerType /\ producer \in [Producers -> CallerType]
  BY DEF QueueInv, TypeOK
<1>2. new \in CallerType
  BY <1>1 DEF QueueInv, TypeOK, CallerType, Pointer
<1>3. producer' \in [Producers -> CallerType] /\ producer'[p] = new
  BY <1>1, <1>2, CallerBecomes DEF EnqueueWake
<1>4. TypeOK'
  BY <1>3 DEF QueueInv, TypeOK, EnqueueWake, memory, stack, free, heap
<1>5. Held' = Held
  BY <1>3, <1>1 DEF QueueInv, TypeOK, CallerType, EnqueueWake, At, Held, InHands
<1>6. Fresh(producer[p])'
  BY <1>3, <1>1 DEF QueueInv, TypeOK, CallerType, Fresh
<1>7. Labelled(p)'
  BY <1>3, <1>1 DEF CallerType, Labelled
<1>8. ~Deleting
  BY NotDeleting DEF EnqueueWake, At
<1>. QED BY <1>4, <1>5, <1>6, <1>7, <1>8, CallerKeeps DEF EnqueueWake, memory

\* new hands out a node nobody has.
LEMMA AcquireNewStep ==
  ASSUME NEW p, Producers = {p}, QueueInv, AcquireNew(p)
  PROVE  QueueInv'
<1>1. p \in Producers /\ producer[p] \in CallerType /\ producer \in [Producers -> CallerType]
  BY DEF QueueInv, TypeOK
<1>2. PICK n \in Nodes \ allocated :
        /\ allocated' = allocated \cup {n}
        /\ Becomes(p, [producer[p] EXCEPT !.pc = "fill", !.node = n])
  BY DEF AcquireNew
<1>3. [producer[p] EXCEPT !.pc = "fill", !.node = n] \in CallerType
  BY <1>1 DEF CallerType, Pointer
<1>4. /\ producer' \in [Producers -> CallerType]
      /\ producer'[p] = [producer[p] EXCEPT !.pc = "fill", !.node = n]
  BY <1>1, <1>2, <1>3, CallerBecomes
<1>5. TypeOK'
  BY <1>2, <1>4 DEF QueueInv, TypeOK, AcquireNew, memory, stack, free, wakefd
<1>6. ~Deleting
  BY <1>1, NotDeleting DEF AcquireNew, At
<1>7. Phases'
  BY <1>6 DEF QueueInv, Phases, Deleting, AcquireNew, stack, free
<1>8. Chains'
  BY DEF QueueInv, Chains, Is, AcquireNew, memory, stack, free
<1>9. Hands'
  <2>1. Fresh(producer[p])'
    BY <1>1, <1>4 DEF CallerType, Fresh
  <2>2. Labelled(p)'
    BY <1>1, <1>4 DEF QueueInv, Hands, AcquireNew, At, CallerType, Labelled
  <2>. QED BY <2>1, <2>2 DEF QueueInv, Hands, Is, AcquireNew, memory
<1>10. Owned'
  <2>1. Held = {}
    BY HeldByCaller DEF AcquireNew, At
  <2>2. producer'[p].pc = "fill" /\ producer'[p].node = n
    BY <1>1, <1>4 DEF CallerType
  <2>3. Held = {} /\ Held' = {n}
    BY <2>1, <2>2 DEF Held, InHands
  <2>4. Apart(queued, spare, poller.taken, poller.turned, poller.cmds, ToSet(Working), {n},
              allocated \cup {n}, freed)
    BY <1>2, <2>3, Allocated DEF QueueInv, Owned
  <2>. QED BY <1>2, <2>3, <2>4 DEF QueueInv, Owned, Working, Deleting, AcquireNew, stack, free
<1>. QED BY <1>5, <1>7, <1>8, <1>9, <1>10 DEF QueueInv

\* The node at the head of the free list is the one the caller looked at, and its next is
\* still the one the caller read: with one thread that pops, the exchange is safe.
LEMMA AcquirePopStep ==
  ASSUME NEW p, Producers = {p}, QueueInv, AcquirePop(p)
  PROVE  QueueInv'
<1> DEFINE n   == producer[p].head
           new == [producer[p] EXCEPT !.pc = "fill", !.node = n]
<1>1. p \in Producers /\ producer[p] \in CallerType /\ producer \in [Producers -> CallerType]
  BY DEF QueueInv, TypeOK
<1>2. n # Null /\ command_free_head = n /\ producer[p].next = next[n]
  BY <1>1 DEF QueueInv, Hands, Fresh, AcquirePop, At, FreeHeadIs
<1>3. spare # <<>> /\ n = spare[1] /\ n \in Nodes /\ spare \in Seq(Nodes)
  BY <1>2, LinkedEnd DEF QueueInv, TypeOK, Chains
<1>4. new \in CallerType
  BY <1>1, <1>3 DEF CallerType, Pointer
<1>5. producer' \in [Producers -> CallerType] /\ producer'[p] = new
  BY <1>1, <1>4, CallerBecomes DEF AcquirePop
<1>6. TypeOK'
  <2>1. Rest(spare) \in Seq(Nodes)
    BY <1>3, TopRemoved
  <2>2. producer[p].next \in Pointer
    BY <1>1 DEF CallerType
  <2>. QED
    BY <1>5, <2>1, <2>2 DEF QueueInv, TypeOK, AcquirePop, memory, stack, wakefd, heap
<1>7. ~Deleting
  BY <1>1, NotDeleting DEF AcquirePop, At
<1>8. Phases'
  BY <1>7 DEF QueueInv, Phases, Deleting, AcquirePop, stack
<1>9. Chains'
  <2>1. Linked(next, next[n], Rest(spare))
    BY <1>2, <1>3, LinkedRest DEF QueueInv, Chains
  <2>. QED BY <1>2, <2>1 DEF QueueInv, Chains, Is, AcquirePop, memory, stack
<1>10. Hands'
  <2>1. Fresh(producer[p])'
    BY <1>1, <1>3, <1>5 DEF CallerType, Fresh
  <2>2. Labelled(p)'
    BY <1>1, <1>5 DEF QueueInv, Hands, AcquirePop, At, CallerType, Labelled
  <2>. QED BY <2>1, <2>2 DEF QueueInv, Hands, Is, AcquirePop, memory
<1>11. Owned'
  <2>1. Held = {}
    BY HeldByCaller DEF AcquirePop, At
  <2>2. producer'[p].pc = "fill" /\ producer'[p].node = n
    BY <1>1, <1>5 DEF CallerType
  <2>3. Held = {} /\ Held' = {n}
    BY <2>1, <2>2 DEF Held, InHands
  <2>4. Apart(queued, Rest(spare), poller.taken, poller.turned, poller.cmds, ToSet(Working),
              {n}, allocated, freed)
    BY <1>3, <2>3, Popped DEF QueueInv, Owned
  <2>. QED BY <2>3, <2>4 DEF QueueInv, Owned, Working, Deleting, AcquirePop, stack, heap
<1>. QED BY <1>6, <1>8, <1>9, <1>10, <1>11 DEF QueueInv

\* The node in the caller's hands is in no list.
LEMMA NodeApart ==
  ASSUME NEW p, Producers = {p}, QueueInv, producer[p].pc \in {"fill", "push"}
  PROVE  LET n == producer[p].node IN
         /\ Held = {n} /\ n \in Nodes
         /\ n \notin ToSet(queued) /\ n \notin ToSet(spare)
         /\ n \notin ToSet(poller.taken) /\ n \notin ToSet(poller.turned)
         /\ poller.pc \in {"reset", "release"} => n # poller.cursor
<1> DEFINE n == producer[p].node
<1>1. Held = {n} /\ n \in Nodes
  BY HeldByCaller DEF QueueInv, Hands, Fresh
<1>2. poller.pc \in {"reset", "release"} => poller.cursor \in ToSet(Working)
  BY DEF Working, ToSet
<1>. QED BY <1>1, <1>2 DEF QueueInv, Owned, Apart

\* Writing the next of the node in its hands, the caller leaves every list alone.
LEMMA NodeLinked ==
  ASSUME NEW p, Producers = {p}, QueueInv, TypeOK', producer[p].pc \in {"fill", "push"},
         next' = [next EXCEPT ![producer[p].node] = command_head],
         UNCHANGED <<stack, free, heap, poller>>,
         Becomes(p, producer'[p]), producer'[p].pc = "push",
         producer'[p].node = producer[p].node, producer'[p].old_head = command_head, Labelled(p)'
  PROVE  QueueInv'
<1> DEFINE n == producer[p].node
<1>1. /\ Held = {n} /\ n \in Nodes
      /\ n \notin ToSet(queued) /\ n \notin ToSet(spare)
      /\ n \notin ToSet(poller.taken) /\ n \notin ToSet(poller.turned)
      /\ poller.pc \in {"reset", "release"} => n # poller.cursor
  BY NodeApart
<1>2. next \in [Nodes -> Pointer] /\ poller.taken \in Seq(Nodes) /\ poller.turned \in Seq(Nodes)
      /\ queued \in Seq(Nodes) /\ spare \in Seq(Nodes)
  BY DEF QueueInv, TypeOK, PollerType
<1>3. ~Deleting
  BY NotDeleting DEF At
<1>4. Phases'
  BY <1>3 DEF QueueInv, Phases, Deleting, stack, free
<1>5. Chains'
  <2>1. \A h, s : s \in Seq(Nodes) /\ n \notin ToSet(s) /\ Linked(next, h, s) => Linked(next', h, s)
    BY <1>2, LinkedElsewhere
  <2>. QED BY <1>1, <1>2, <2>1 DEF QueueInv, Chains, Is, stack, free
<1>6. Hands'
  <2>1. Fresh(producer[p])'
    BY <1>1, <1>2 DEF Fresh
  <2>2. Is("release") => next'[poller.cursor] = next[poller.cursor]
    BY <1>1, <1>2 DEF Is
  <2>. QED BY <2>1, <2>2 DEF QueueInv, Hands, Is
<1>7. Owned'
  <2>1. Held' = {n}
    BY DEF Held, InHands
  <2>. QED BY <1>1, <2>1 DEF QueueInv, Owned, Working, Deleting, stack, free, heap
<1>. QED BY <1>4, <1>5, <1>6, <1>7 DEF QueueInv

\* An exchange failed and the next of the node is written again.
LEMMA EnqueueRetryStep ==
  ASSUME NEW p, Producers = {p}, QueueInv, EnqueueRetry(p)
  PROVE  QueueInv'
<1> DEFINE new == [producer[p] EXCEPT !.old_head = command_head]
<1>1. p \in Producers /\ producer[p] \in CallerType /\ producer \in [Producers -> CallerType]
  BY DEF QueueInv, TypeOK
<1>2. new \in CallerType
  BY <1>1 DEF QueueInv, TypeOK, CallerType, Pointer
<1>3. producer' \in [Producers -> CallerType] /\ producer'[p] = new
  BY <1>1, <1>2, CallerBecomes DEF EnqueueRetry
<1>4. TypeOK'
  BY <1>3 DEF QueueInv, TypeOK, EnqueueRetry, stack, free, wakefd, heap
<1>5. Labelled(p)'
  BY <1>1, <1>3 DEF QueueInv, Hands, EnqueueRetry, At, CallerType, Labelled
<1>. QED BY <1>1, <1>3, <1>4, <1>5, NodeLinked DEF EnqueueRetry, At, CallerType

\* What a caller with submissions left submits is a command.
LEMMA CommandLabel ==
  ASSUME NEW p, Producers = {p}, NEW k \in Nat, k < MaxSubmit[p]
  PROVE  <<p, k>> \in Commands
<1> DEFINE bounds == {MaxSubmit[q] : q \in Producers}
<1>1. bounds = {MaxSubmit[p]} /\ MaxSubmit[p] \in Nat
  OBVIOUS
<1>2. Max(bounds) = MaxSubmit[p]
  BY <1>1 DEF Max
<1> HIDE DEF bounds
<1>3. k \in 0..Max(bounds)
  BY <1>1, <1>2
<1>. QED BY <1>3 DEF Commands, bounds

\* The command is written into a node nobody else can reach.
LEMMA EnqueueLoadStep ==
  ASSUME NEW p, Producers = {p}, QueueInv, EnqueueLoad(p)
  PROVE  QueueInv'
<1> DEFINE new == [producer[p] EXCEPT !.pc = "push", !.old_head = command_head]
<1>1. p \in Producers /\ producer[p] \in CallerType /\ producer \in [Producers -> CallerType]
  BY DEF QueueInv, TypeOK
<1>2. new \in CallerType
  BY <1>1 DEF QueueInv, TypeOK, CallerType, Pointer
<1>3. producer' \in [Producers -> CallerType] /\ producer'[p] = new
  BY <1>1, <1>2, CallerBecomes DEF EnqueueLoad
<1>4. <<p, producer[p].submitted>> \in Commands
  BY <1>1, CommandLabel DEF QueueInv, Hands, Labelled, EnqueueLoad, At, CallerType
<1>5. TypeOK'
  BY <1>3, <1>4 DEF QueueInv, TypeOK, EnqueueLoad, stack, free, wakefd, heap
<1>6. Labelled(p)'
  <2>1. /\ producer'[p].node = producer[p].node
        /\ producer'[p].submitted = producer[p].submitted
    BY <1>1, <1>3 DEF CallerType
  <2>2. item'[producer[p].node] = <<p, producer[p].submitted>>
    BY DEF QueueInv, TypeOK, Hands, Fresh, EnqueueLoad, At
  <2>3. producer[p].submitted < MaxSubmit[p]
    BY DEF QueueInv, Hands, Labelled, EnqueueLoad, At
  <2>. QED BY <2>1, <2>2, <2>3 DEF Labelled
<1>. QED BY <1>1, <1>3, <1>5, <1>6, NodeLinked DEF EnqueueLoad, At, CallerType

\* The exchange succeeds only while the head is the one the node points to.
LEMMA EnqueuePushStep ==
  ASSUME NEW p, Producers = {p}, QueueInv, EnqueuePush(p)
  PROVE  QueueInv'
<1> DEFINE n   == producer[p].node
           new == [producer[p] EXCEPT !.pc = "wake", !.submitted = @ + 1]
<1>1. p \in Producers /\ producer[p] \in CallerType /\ producer \in [Producers -> CallerType]
  BY DEF QueueInv, TypeOK
<1>2. new \in CallerType
  <2>1. producer[p].submitted + 1 \in Nat
    BY <1>1 DEF CallerType
  <2>. QED BY <1>1, <2>1 DEF CallerType
<1>3. producer' \in [Producers -> CallerType] /\ producer'[p] = new
  BY <1>1, <1>2, CallerBecomes DEF EnqueuePush
<1>4. n \in Nodes /\ queued \in Seq(Nodes) /\ Held = {n} /\ next[n] = command_head
  BY <1>1, NodeApart DEF QueueInv, TypeOK, Hands, Fresh, EnqueuePush, At, HeadIs
<1>5. TypeOK'
  <2>1. <<n>> \o queued \in Seq(Nodes)
    BY <1>4, TopAdded
  <2>. QED
    BY <1>3, <1>4, <2>1 DEF QueueInv, TypeOK, EnqueuePush, Pushed, Pointer, memory, free, wakefd,
       heap
<1>6. ~Deleting
  BY <1>1, NotDeleting DEF EnqueuePush, At
<1>7. Phases'
  BY <1>6 DEF QueueInv, Phases, Deleting, EnqueuePush, free
<1>8. Chains'
  <2>1. Linked(next, n, <<n>> \o queued)
    BY <1>4, LinkedTop DEF QueueInv, Chains
  <2>. QED BY <2>1 DEF QueueInv, Chains, Is, EnqueuePush, Pushed, memory, free
<1>9. Hands'
  <2>1. Fresh(producer[p])'
    BY <1>1, <1>3 DEF CallerType, Fresh
  <2>2. Labelled(p)'
    BY <1>1, <1>3 DEF CallerType, Labelled
  <2>. QED BY <2>1, <2>2 DEF QueueInv, Hands, Is, EnqueuePush, memory
<1>10. Owned'
  <2>1. Held' = {}
    BY <1>1, <1>3 DEF Held, InHands, CallerType
  <2>2. Apart(<<n>> \o queued, spare, poller.taken, poller.turned, poller.cmds, ToSet(Working),
              {}, allocated, freed)
    BY <1>4, Queued DEF QueueInv, Owned
  <2>. QED BY <2>1, <2>2 DEF QueueInv, Owned, Working, Deleting, EnqueuePush, Pushed, free, heap
<1>. QED BY <1>5, <1>7, <1>8, <1>9, <1>10 DEF QueueInv

-----------------------------------------------------------------------------
(* The steps of the polling thread *)

\* A step that leaves the lists and what the callers rely on alone keeps their part of the
\* invariant.
LEMMA PollerKeeps ==
  ASSUME QueueInv, TypeOK', Phases', Chains',
         UNCHANGED <<memory, stack, free, heap, producer>>,
         poller'.taken = poller.taken, poller'.turned = poller.turned,
         poller'.cmds = poller.cmds,
         poller.pc \notin {"reset", "release"}, poller'.pc \notin {"reset", "release"},
         Deleting => Deleting'
  PROVE  QueueInv'
<1> USE DEF memory, stack, free, heap
<1>1. Hands'
  BY DEF QueueInv, Hands, Fresh, Labelled, Is
<1>2. Owned'
  BY DEF QueueInv, Owned, Working, Held, InHands
<1>. QED BY <1>1, <1>2 DEF QueueInv

\* A round of polling begins.
LEMMA PollOnceStep ==
  ASSUME QueueInv, PollOnce
  PROVE  QueueInv'
<1>1. poller \in PollerType
  BY DEF QueueInv, TypeOK
<1>2. poller' \in PollerType
  BY <1>1 DEF PollerType, PollOnce
<1>3. TypeOK'
  BY <1>2 DEF QueueInv, TypeOK, PollOnce, memory, stack, free, wakefd, heap
<1>5. Phases'
  BY <1>1 DEF QueueInv, Phases, PollerType, Deleting, At, PollOnce, Is, stack, free
<1>6. Chains'
  BY <1>1 DEF QueueInv, Chains, PollerType, PollOnce, Is, memory, stack, free
<1>. QED BY <1>1, <1>3, <1>5, <1>6, PollerKeeps DEF PollerType, Deleting, PollOnce, Is

\* The eventfd is read.
LEMMA DrainWakeFdStep ==
  ASSUME QueueInv, DrainWakeFd
  PROVE  QueueInv'
<1>1. poller \in PollerType
  BY DEF QueueInv, TypeOK
<1>2. poller' \in PollerType
  BY <1>1 DEF PollerType, DrainWakeFd
<1>3. TypeOK'
  BY <1>2 DEF QueueInv, TypeOK, DrainWakeFd, memory, stack, free, heap
<1>5. Phases'
  BY <1>1 DEF QueueInv, Phases, PollerType, Deleting, At, DrainWakeFd, Is, stack, free
<1>6. Chains'
  BY <1>1 DEF QueueInv, Chains, PollerType, DrainWakeFd, Is, memory, stack, free
<1>. QED BY <1>1, <1>3, <1>5, <1>6, PollerKeeps DEF PollerType, Deleting, DrainWakeFd, Is

\* epoll_wait reports the eventfd.
LEMMA WaitWakesStep ==
  ASSUME QueueInv, WaitWakes
  PROVE  QueueInv'
<1>1. poller \in PollerType
  BY DEF QueueInv, TypeOK
<1>2. poller' \in PollerType
  BY <1>1 DEF PollerType, WaitWakes
<1>3. TypeOK'
  BY <1>2 DEF QueueInv, TypeOK, WaitWakes, memory, stack, free, heap
<1>5. Phases'
  BY <1>1 DEF QueueInv, Phases, PollerType, Deleting, At, WaitWakes, Is, stack, free
<1>6. Chains'
  BY <1>1 DEF QueueInv, Chains, PollerType, WaitWakes, Is, memory, stack, free
<1>. QED BY <1>1, <1>3, <1>5, <1>6, PollerKeeps DEF PollerType, Deleting, WaitWakes, Is

\* epoll_wait returns without it.
LEMMA WaitEndsStep ==
  ASSUME QueueInv, WaitEnds
  PROVE  QueueInv'
<1>1. poller \in PollerType
  BY DEF QueueInv, TypeOK
<1>2. poller' \in PollerType
  BY <1>1 DEF PollerType, WaitEnds
<1>3. TypeOK'
  BY <1>2 DEF QueueInv, TypeOK, WaitEnds, memory, stack, free, heap
<1>5. Phases'
  BY <1>1 DEF QueueInv, Phases, PollerType, Deleting, At, WaitEnds, Is, stack, free
<1>6. Chains'
  BY <1>1 DEF QueueInv, Chains, PollerType, WaitEnds, Is, memory, stack, free
<1>. QED BY <1>1, <1>3, <1>5, <1>6, PollerKeeps DEF PollerType, Deleting, WaitEnds, Is

\* At the end of the pointers every node turned round has been collected.
LEMMA CollectedStep ==
  ASSUME QueueInv, Collected
  PROVE  QueueInv'
<1>1. poller \in PollerType
  BY DEF QueueInv, TypeOK
<1>2. poller' \in PollerType
  BY <1>1 DEF PollerType, Collected
<1>3. TypeOK'
  BY <1>2 DEF QueueInv, TypeOK, Collected, memory, stack, free, wakefd, heap
<1>4. poller.turned = <<>>
  BY <1>1, LinkedEnd DEF QueueInv, Chains, PollerType, Collected, Is
<1>5. Phases'
  BY <1>1, <1>4 DEF QueueInv, Phases, PollerType, Deleting, At, Collected, Is, stack, free
<1>6. Chains'
  BY <1>1 DEF QueueInv, Chains, PollerType, Collected, Is, memory, stack, free
<1>. QED BY <1>1, <1>3, <1>5, <1>6, PollerKeeps DEF PollerType, Deleting, Collected, Is

\* The commands have been executed.
LEMMA ProcessedStep ==
  ASSUME QueueInv, Processed
  PROVE  QueueInv'
<1>1. poller \in PollerType
  BY DEF QueueInv, TypeOK
<1>2. poller' \in PollerType
  BY <1>1 DEF PollerType, Processed
<1>3. TypeOK'
  BY <1>2 DEF QueueInv, TypeOK, Processed, memory, stack, free, wakefd, heap
<1>5. Phases'
  BY <1>1 DEF QueueInv, Phases, PollerType, Deleting, At, Processed, Is, stack, free
<1>6. Chains'
  BY <1>1 DEF QueueInv, Chains, PollerType, Processed, Is, memory, stack, free
<1>. QED BY <1>1, <1>3, <1>5, <1>6, PollerKeeps DEF PollerType, Deleting, Processed, Is

\* At the end of the pointers every node of the free list has been deleted.
LEMMA StoppedStep ==
  ASSUME QueueInv, Stopped
  PROVE  QueueInv'
<1>1. poller \in PollerType
  BY DEF QueueInv, TypeOK
<1>2. poller' \in PollerType
  BY <1>1 DEF PollerType, Stopped
<1>3. TypeOK'
  BY <1>2 DEF QueueInv, TypeOK, Stopped, memory, stack, free, wakefd, heap
<1>4. poller.taken = <<>>
  BY <1>1, LinkedEnd DEF QueueInv, Chains, PollerType, Stopped, Is
<1>5. Phases'
  BY <1>1, <1>4 DEF QueueInv, Phases, PollerType, Deleting, At, Stopped, Is, stack, free
<1>6. Chains'
  BY <1>1 DEF QueueInv, Chains, PollerType, Stopped, Is, memory, stack, free
<1>. QED BY <1>1, <1>3, <1>5, <1>6, PollerKeeps DEF PollerType, Deleting, Stopped, Is

\* The stack is reversed: its last node is the first to be executed.
LEMMA ReversedStep ==
  ASSUME QueueInv, Reversed
  PROVE  QueueInv'
<1>1. poller \in PollerType
  BY DEF QueueInv, TypeOK
<1>2. poller' \in PollerType
  BY <1>1 DEF PollerType, Reversed, Pointer
<1>3. TypeOK'
  BY <1>2 DEF QueueInv, TypeOK, Reversed, memory, stack, free, wakefd, heap
<1>4. poller.taken = <<>>
  BY <1>1, LinkedEnd DEF QueueInv, Chains, PollerType, Reversed, Is
<1>5. Phases'
  BY <1>1, <1>4 DEF QueueInv, Phases, PollerType, Deleting, At, Reversed, Is, stack, free
<1>6. Chains'
  BY <1>1 DEF QueueInv, Chains, PollerType, Reversed, Is, memory, stack, free
<1>. QED BY <1>1, <1>3, <1>5, <1>6, PollerKeeps DEF PollerType, Deleting, Reversed, Is

\* The polling thread takes the stack: the list at command_head is now in its hands.
LEMMA DrainCommandsStep ==
  ASSUME QueueInv, DrainCommands
  PROVE  QueueInv'
<1>1. poller \in PollerType /\ Is("drain")
  BY DEF QueueInv, TypeOK, DrainCommands
<1>2. poller' = [poller EXCEPT !.pc = "reverse", !.cursor = command_head, !.prev = Null,
                               !.taken = queued]
  BY DEF DrainCommands
<1>3. poller' \in PollerType
  BY <1>1, <1>2 DEF QueueInv, TypeOK, PollerType, Pointer
<1>4. TypeOK'
  BY <1>3 DEF QueueInv, TypeOK, DrainCommands, Pointer, memory, free, wakefd, heap
<1>5. poller.taken = <<>> /\ poller.turned = <<>> /\ poller.cmds = <<>>
  BY <1>1 DEF QueueInv, Phases, Is
<1>6. /\ poller'.pc = "reverse" /\ poller'.cursor = command_head /\ poller'.prev = Null
      /\ poller'.taken = queued /\ poller'.turned = <<>> /\ poller'.cmds = <<>>
  BY <1>1, <1>2, <1>5 DEF PollerType
<1>7. Phases'
  BY <1>6 DEF Phases, Deleting
<1>8. Chains'
  BY <1>6, LinkedNothing DEF QueueInv, Chains, Is, DrainCommands, memory, free
<1>9. Hands'
  BY <1>6 DEF QueueInv, Hands, Fresh, Labelled, Is, DrainCommands, memory, free
<1>10. Owned'
  <2>1. /\ Working = <<>> /\ Working' = <<>> /\ Held' = Held /\ ~Deleting
    BY <1>1, <1>6 DEF Working, Held, InHands, Deleting, Is, DrainCommands
  <2>2. Apart(<<>>, spare, queued, <<>>, <<>>, ToSet(<<>>), Held, allocated, freed)
    BY <1>5, <2>1, Taken DEF QueueInv, Owned
  <2>. QED BY <1>6, <2>1, <2>2 DEF QueueInv, Owned, DrainCommands, free, heap
<1>. QED BY <1>4, <1>7, <1>8, <1>9, <1>10 DEF QueueInv

\* One node of the list taken is put in front of the list turned round.
LEMMA ReverseOneStep ==
  ASSUME QueueInv, ReverseOne
  PROVE  QueueInv'
<1> DEFINE n == poller.cursor
<1>1. poller \in PollerType /\ Is("reverse") /\ n # Null /\ next \in [Nodes -> Pointer]
  BY DEF QueueInv, TypeOK, ReverseOne
<1>2. poller.taken \in Seq(Nodes) /\ poller.turned \in Seq(Nodes) /\ queued \in Seq(Nodes)
      /\ spare \in Seq(Nodes)
  BY <1>1 DEF QueueInv, TypeOK, PollerType
<1>3. /\ Linked(next, n, poller.taken) /\ Linked(next, poller.prev, poller.turned)
      /\ Linked(next, command_head, queued) /\ Linked(next, command_free_head, spare)
  BY <1>1 DEF QueueInv, Chains
<1>4. poller.taken # <<>> /\ n = poller.taken[1] /\ n \in Nodes /\ n \in ToSet(poller.taken)
  BY <1>1, <1>2, <1>3, LinkedEnd
<1>5. /\ poller'.pc = "reverse" /\ poller'.prev = n /\ poller'.cursor = next[n]
      /\ poller'.turned = <<n>> \o poller.turned /\ poller'.taken = Rest(poller.taken)
      /\ poller'.cmds = poller.cmds /\ poller'.woken = poller.woken
      /\ poller'.old_head = poller.old_head
  BY <1>1 DEF PollerType, ReverseOne, Is
<1>6. Rest(poller.taken) \in Seq(Nodes) /\ <<n>> \o poller.turned \in Seq(Nodes)
  BY <1>2, <1>4, TopRemoved, TopAdded
<1>7. poller' \in PollerType
  <2>1. next[n] \in Pointer /\ n \in Pointer
    BY <1>1, <1>4 DEF Pointer
  <2>2. poller' = [poller EXCEPT !.prev = n, !.cursor = next[n],
                                 !.turned = <<n>> \o poller.turned, !.taken = Rest(poller.taken)]
    BY <1>1 DEF ReverseOne, PollerType
  <2>. QED BY <1>1, <1>6, <2>1, <2>2 DEF PollerType
<1>8. TypeOK'
  <2>1. next' \in [Nodes -> Pointer]
    BY <1>1 DEF ReverseOne, PollerType
  <2>. QED BY <1>7, <2>1 DEF QueueInv, TypeOK, ReverseOne, stack, free, wakefd, heap
<1>9. Apart(queued, spare, poller.taken, poller.turned, poller.cmds, ToSet(Working), Held,
            allocated, freed)
  BY DEF QueueInv, Owned
<1>10. /\ n \notin ToSet(queued) /\ n \notin ToSet(spare) /\ n \notin ToSet(poller.turned)
       /\ n \notin Held /\ n \notin ToSet(Rest(poller.taken))
  <2>1. IsInjective(poller.taken)
    BY <1>9 DEF Apart
  <2>2. n \notin ToSet(Rest(poller.taken))
    BY <1>2, <1>4, <2>1, TopRemoved
  <2>. QED BY <1>4, <1>9, <2>2 DEF Apart
<1>11. Phases'
  BY <1>1, <1>5 DEF QueueInv, Phases, Deleting, Is
<1>12. Chains'
  <2>1. next' = [next EXCEPT ![n] = poller.prev]
    BY DEF ReverseOne
  <2>2. \A h, s : s \in Seq(Nodes) /\ n \notin ToSet(s) /\ Linked(next, h, s) => Linked(next', h, s)
    BY <1>1, <2>1, LinkedElsewhere
  <2>3. Linked(next', next[n], Rest(poller.taken))
    BY <1>1, <1>2, <1>3, <1>6, <1>10, <2>2, LinkedRest
  <2>4. Linked(next', n, <<n>> \o poller.turned)
    <3>1. next'[n] = poller.prev
      BY <1>1, <1>4, <2>1
    <3>2. Linked(next', poller.prev, poller.turned)
      BY <1>2, <1>3, <1>10, <2>2
    <3>. QED BY <1>2, <1>4, <3>1, <3>2, LinkedTop
  <2>5. Linked(next', command_head, queued) /\ Linked(next', command_free_head, spare)
    BY <1>2, <1>3, <1>10, <2>2
  <2>. QED BY <1>5, <2>3, <2>4, <2>5 DEF Chains, Is, ReverseOne, stack, free
<1>13. Hands'
  <2>1. ASSUME NEW p \in Producers PROVE Fresh(producer[p])' /\ Labelled(p)'
    <3>1. Fresh(producer[p]) /\ Labelled(p)
      BY DEF QueueInv, Hands
    <3>2. producer[p].pc = "pop" => next'[producer[p].head] = next[producer[p].head]
      BY <1>1, <1>10, <3>1 DEF ReverseOne, Fresh
    <3>3. producer[p].pc = "push" => next'[producer[p].node] = next[producer[p].node]
      <4>1. producer[p].pc = "push" => producer[p].node \in Held
        BY DEF Held, InHands
      <4>. QED BY <1>1, <1>10, <4>1 DEF ReverseOne
    <3>. QED BY <3>1, <3>2, <3>3 DEF ReverseOne, Fresh, Labelled, free
  <2>. QED BY <1>5, <2>1 DEF Hands, Is, ReverseOne
<1>14. Owned'
  <2>1. Working' = Working /\ Held' = Held
    BY <1>1, <1>5 DEF Working, Held, InHands, Is, ReverseOne
  <2>2. Apart(queued, spare, Rest(poller.taken), <<n>> \o poller.turned, poller.cmds,
              ToSet(Working), Held, allocated, freed)
    BY <1>2, <1>4, <1>9, Turned
  <2>3. freed = {}
    BY <1>1 DEF QueueInv, Owned, Deleting, Is
  <2>. QED BY <1>5, <2>1, <2>2, <2>3 DEF Owned, ReverseOne, stack, free, heap
<1>. QED BY <1>8, <1>11, <1>12, <1>13, <1>14 DEF QueueInv

\* One node of the list turned round is appended to the commands to execute.
LEMMA CollectOneStep ==
  ASSUME QueueInv, CollectOne
  PROVE  QueueInv'
<1> DEFINE n == poller.cursor
<1>1. poller \in PollerType /\ Is("collect") /\ n # Null /\ next \in [Nodes -> Pointer]
  BY DEF QueueInv, TypeOK, CollectOne
<1>2. poller.turned \in Seq(Nodes) /\ poller.cmds \in Seq(Nodes)
  BY <1>1 DEF PollerType
<1>3. Linked(next, n, poller.turned)
  BY <1>1 DEF QueueInv, Chains
<1>4. poller.turned # <<>> /\ n = poller.turned[1] /\ n \in Nodes
  BY <1>1, <1>2, <1>3, LinkedEnd
<1>5. poller' = [poller EXCEPT !.cmds = Append(poller.cmds, n), !.cursor = next[n],
                               !.turned = Rest(poller.turned)]
  BY <1>1 DEF CollectOne, PollerType
<1>6. Rest(poller.turned) \in Seq(Nodes) /\ Append(poller.cmds, n) \in Seq(Nodes)
  BY <1>2, <1>4, TopRemoved
<1>7. poller' \in PollerType /\ TypeOK'
  <2>1. next[n] \in Pointer
    BY <1>1, <1>4
  <2>2. poller' \in PollerType
    BY <1>1, <1>5, <1>6, <2>1 DEF PollerType
  <2>. QED BY <2>2 DEF QueueInv, TypeOK, CollectOne, memory, stack, free, wakefd, heap
<1>8. /\ poller'.pc = "collect" /\ poller'.cursor = next[n] /\ poller'.taken = poller.taken
      /\ poller'.turned = Rest(poller.turned) /\ poller'.cmds = Append(poller.cmds, n)
  BY <1>1, <1>5 DEF PollerType, Is
<1>9. poller.taken = <<>>
  BY <1>1 DEF QueueInv, Phases, Is
<1>10. Phases'
  BY <1>8, <1>9 DEF Phases, Deleting
<1>11. Chains'
  <2>1. Linked(next, next[n], Rest(poller.turned))
    BY <1>1, <1>2, <1>3, LinkedRest
  <2>. QED BY <1>8, <2>1 DEF QueueInv, Chains, Is, CollectOne, memory, stack, free
<1>12. Hands'
  BY <1>8 DEF QueueInv, Hands, Fresh, Labelled, Is, CollectOne, memory, free
<1>13. Owned'
  <2>1. Working' = Working /\ Held' = Held /\ ~Deleting
    BY <1>1, <1>8 DEF Working, Held, InHands, Deleting, Is, CollectOne
  <2>2. Apart(queued, spare, poller.taken, Rest(poller.turned), Append(poller.cmds, n),
              ToSet(Working), Held, allocated, freed)
    BY <1>2, <1>4, CollectedOne DEF QueueInv, Owned
  <2>. QED BY <1>8, <2>1, <2>2 DEF QueueInv, Owned, CollectOne, stack, free, heap
<1>. QED BY <1>7, <1>10, <1>11, <1>12, <1>13 DEF QueueInv

\* A command is executed; its node is in the polling thread's hands alone.
LEMMA HandleOneStep ==
  ASSUME QueueInv, HandleOne
  PROVE  QueueInv'
<1> DEFINE n == poller.cmds[1]
<1>1. poller \in PollerType /\ Is("handle") /\ poller.cmds # <<>>
  BY DEF QueueInv, TypeOK, HandleOne
<1>2. poller.cmds \in Seq(Nodes) /\ Head(poller.cmds) = n /\ n \in Nodes
      /\ Tail(poller.cmds) \in Seq(Nodes)
  BY <1>1 DEF PollerType
<1>3. poller' = [poller EXCEPT !.pc = "reset", !.cursor = n, !.cmds = Tail(poller.cmds)]
  BY <1>1, <1>2 DEF HandleOne, PollerType
<1>4. poller' \in PollerType
  BY <1>1, <1>2, <1>3 DEF PollerType, Pointer
<1>5. TypeOK'
  BY <1>4 DEF QueueInv, TypeOK, HandleOne, memory, stack, free, wakefd, heap
<1>6. /\ poller'.pc = "reset" /\ poller'.cursor = n /\ poller'.taken = poller.taken
      /\ poller'.turned = poller.turned /\ poller'.cmds = Tail(poller.cmds)
  BY <1>1, <1>3 DEF PollerType
<1>7. poller.taken = <<>> /\ poller.turned = <<>> /\ ~Deleting
  BY <1>1 DEF QueueInv, Phases, Deleting, Is
<1>8. Phases'
  BY <1>6, <1>7 DEF Phases, Deleting
<1>9. Chains'
  BY <1>6 DEF QueueInv, Chains, Is, HandleOne, memory, stack, free
<1>10. Hands'
  BY <1>2, <1>6 DEF QueueInv, Hands, Fresh, Labelled, Is, HandleOne, memory, free
<1>11. Owned'
  <2>1. Working = <<>> /\ ToSet(Working') = {n} /\ Held' = Held
    BY <1>1, <1>6 DEF Working, Held, InHands, Is, HandleOne, ToSet
  <2>2. Apart(queued, spare, poller.taken, poller.turned, Tail(poller.cmds), {n}, Held,
              allocated, freed)
    BY <1>1, <1>2, <2>1, NoElements, Executed DEF QueueInv, Owned
  <2>. QED BY <1>6, <1>7, <2>1, <2>2 DEF QueueInv, Owned, HandleOne, stack, free, heap
<1>. QED BY <1>5, <1>8, <1>9, <1>10, <1>11 DEF QueueInv

\* Writing the next of the node it has executed, the polling thread leaves every list alone.
LEMMA WorkLinked ==
  ASSUME QueueInv, TypeOK', poller.pc \in {"reset", "release"},
         next' = [next EXCEPT ![poller.cursor] = command_free_head],
         \A m : m # poller.cursor => item'[m] = item[m],
         UNCHANGED <<stack, free, heap, producer>>,
         poller'.pc = "release", poller'.old_head = command_free_head,
         poller'.cursor = poller.cursor, poller'.taken = poller.taken,
         poller'.turned = poller.turned, poller'.cmds = poller.cmds
  PROVE  QueueInv'
<1> DEFINE n == poller.cursor
<1>1. next \in [Nodes -> Pointer] /\ queued \in Seq(Nodes) /\ spare \in Seq(Nodes) /\ n \in Nodes
  BY DEF QueueInv, TypeOK, Hands
<1>2. Apart(queued, spare, poller.taken, poller.turned, poller.cmds, {n}, Held, allocated, freed)
      /\ Working = <<n>> /\ Working' = <<n>>
  BY DEF QueueInv, Owned, Working, ToSet
<1>3. n \notin ToSet(queued) /\ n \notin ToSet(spare) /\ n \notin Held
  BY <1>2 DEF Apart
<1>4. Phases'
  BY DEF QueueInv, Phases, Deleting, stack, free
<1>5. Chains'
  <2>1. Linked(next', command_head, queued) /\ Linked(next', command_free_head, spare)
    BY <1>1, <1>3, LinkedElsewhere DEF QueueInv, Chains
  <2>. QED BY <2>1 DEF Chains, Is, stack, free
<1>6. Hands'
  <2>1. ASSUME NEW p \in Producers PROVE Fresh(producer[p])' /\ Labelled(p)'
    <3>1. Fresh(producer[p]) /\ Labelled(p)
      BY DEF QueueInv, Hands
    <3>2. producer[p].pc = "pop" => next'[producer[p].head] = next[producer[p].head]
      BY <1>1, <1>3, <3>1 DEF Fresh
    <3>3. producer[p].pc = "push" => producer[p].node # n
      BY <1>3 DEF Held, InHands
    <3>4. producer[p].pc = "push" => next'[producer[p].node] = next[producer[p].node]
      BY <1>1, <3>3
    <3>. QED BY <3>1, <3>2, <3>3, <3>4 DEF Fresh, Labelled, free
  <2>2. next'[n] = command_free_head
    BY <1>1
  <2>. QED BY <1>1, <2>1, <2>2 DEF Hands, Is
<1>7. Owned'
  <2>1. Held' = Held
    BY DEF Held, InHands
  <2>2. freed = {}
    BY DEF QueueInv, Owned, Deleting
  <2>. QED BY <1>2, <2>1, <2>2 DEF QueueInv, Owned, stack, free, heap
<1>. QED BY <1>4, <1>5, <1>6, <1>7 DEF QueueInv

\* The node executed is cleared and linked to the head of the free list.
LEMMA ReleaseLoadStep ==
  ASSUME QueueInv, ReleaseLoad
  PROVE  QueueInv'
<1>1. poller \in PollerType /\ Is("reset")
  BY DEF QueueInv, TypeOK, ReleaseLoad
<1>2. poller' \in PollerType
  BY <1>1 DEF QueueInv, TypeOK, PollerType, ReleaseLoad
<1>3. TypeOK'
  BY <1>2 DEF QueueInv, TypeOK, ReleaseLoad, stack, free, wakefd, heap
<1>4. \A m : m # poller.cursor => item'[m] = item[m]
  BY DEF QueueInv, TypeOK, ReleaseLoad
<1>. QED BY <1>1, <1>3, <1>4, WorkLinked DEF ReleaseLoad, PollerType, Is

\* An exchange failed and the next of the node is written again.
LEMMA ReleaseRetryStep ==
  ASSUME QueueInv, ReleaseRetry
  PROVE  QueueInv'
<1>1. poller \in PollerType /\ Is("release")
  BY DEF QueueInv, TypeOK, ReleaseRetry
<1>2. poller' \in PollerType
  BY <1>1 DEF QueueInv, TypeOK, PollerType, ReleaseRetry
<1>3. TypeOK'
  BY <1>2 DEF QueueInv, TypeOK, ReleaseRetry, stack, free, wakefd, heap
<1>. QED BY <1>1, <1>3, WorkLinked DEF ReleaseRetry, PollerType, Is

\* The node executed becomes the head of the free list, whatever callers popped meanwhile.
LEMMA ReleasePushStep ==
  ASSUME QueueInv, ReleasePush
  PROVE  QueueInv'
<1> DEFINE n == poller.cursor
<1>1. poller \in PollerType /\ Is("release") /\ n \in Nodes /\ spare \in Seq(Nodes)
  BY DEF QueueInv, TypeOK, Hands, ReleasePush, Is
<1>2. poller' \in PollerType /\ <<n>> \o spare \in Seq(Nodes)
      /\ ToSet(<<n>> \o spare) = {n} \cup ToSet(spare)
  <2>1. poller' \in PollerType
    BY <1>1 DEF PollerType, ReleasePush, Pointer
  <2>. QED BY <1>1, <2>1, TopAdded
<1>3. TypeOK'
  BY <1>1, <1>2 DEF QueueInv, TypeOK, ReleasePush, Pointer, memory, stack, wakefd, heap
<1>4. /\ poller'.pc = "handle" /\ poller'.taken = poller.taken
      /\ poller'.turned = poller.turned /\ poller'.cmds = poller.cmds
  BY <1>1 DEF PollerType, ReleasePush
<1>5. Phases'
  BY <1>1, <1>4 DEF QueueInv, Phases, Deleting, Is, ReleasePush, stack
<1>6. Chains'
  <2>1. next[n] = command_free_head
    BY <1>1 DEF QueueInv, Hands, ReleasePush, FreeHeadIs
  <2>2. Linked(next, n, <<n>> \o spare)
    BY <1>1, <2>1, LinkedTop DEF QueueInv, Chains
  <2>. QED BY <1>4, <2>2 DEF QueueInv, Chains, Is, ReleasePush, memory, stack
<1>7. Hands'
  BY <1>2, <1>4 DEF QueueInv, Hands, Fresh, Labelled, Is, ReleasePush, memory
<1>8. Owned'
  <2>1. ToSet(Working) = {n} /\ Working' = <<>> /\ Held' = Held /\ ~Deleting
    BY <1>1, <1>4 DEF Working, Held, InHands, Is, ReleasePush, ToSet, Deleting
  <2>2. Apart(queued, <<n>> \o spare, poller.taken, poller.turned, poller.cmds, {}, Held,
              allocated, freed)
    BY <1>1, <2>1, Released DEF QueueInv, Owned
  <2>. QED BY <1>4, <2>1, <2>2, NoElements DEF QueueInv, Owned, ReleasePush, stack, heap
<1>. QED BY <1>3, <1>5, <1>6, <1>7, <1>8 DEF QueueInv

-----------------------------------------------------------------------------
(* Stop *)

\* Stop takes the stack; nobody submits.
LEMMA StopStep ==
  ASSUME QueueInv, Stop
  PROVE  QueueInv'
<1>1. poller \in PollerType /\ Is("idle") /\ queued \in Seq(Nodes)
  BY DEF QueueInv, TypeOK, Stop
<1>2. poller' = [poller EXCEPT !.pc = "delete", !.cursor = command_head, !.taken = queued]
  BY DEF Stop
<1>3. poller' \in PollerType
  BY <1>1, <1>2 DEF QueueInv, TypeOK, PollerType
<1>4. TypeOK'
  BY <1>3 DEF QueueInv, TypeOK, Stop, Pointer, memory, free, wakefd, heap
<1>5. poller.taken = <<>> /\ poller.turned = <<>> /\ poller.cmds = <<>>
  BY <1>1 DEF QueueInv, Phases, Is
<1>6. /\ poller'.pc = "delete" /\ poller'.cursor = command_head
      /\ poller'.taken = queued /\ poller'.turned = <<>> /\ poller'.cmds = <<>>
  BY <1>1, <1>2, <1>5 DEF PollerType
<1>7. Phases'
  BY <1>6 DEF Phases, Deleting, Stop, At
<1>8. Chains'
  BY <1>6, LinkedNothing DEF QueueInv, Chains, Is, Stop, memory, free
<1>9. Hands'
  BY <1>6 DEF QueueInv, Hands, Fresh, Labelled, Is, Stop, memory, free
<1>10. Owned'
  <2>1. /\ Working = <<>> /\ Working' = <<>> /\ Held' = Held /\ ~Deleting
    BY <1>1, <1>6 DEF Working, Held, InHands, Deleting, Is, Stop
  <2>2. Apart(<<>>, spare, queued, <<>>, <<>>, ToSet(<<>>), Held, allocated, freed)
    BY <1>5, <2>1, Taken DEF QueueInv, Owned
  <2>. QED BY <1>6, <2>1, <2>2 DEF QueueInv, Owned, Stop, free, heap
<1>. QED BY <1>4, <1>7, <1>8, <1>9, <1>10 DEF QueueInv

\* The next of a node is read before the node is deleted.
LEMMA DeleteOneStep ==
  ASSUME QueueInv, DeleteOne
  PROVE  QueueInv'
<1> DEFINE n == poller.cursor
<1>1. poller \in PollerType /\ poller.pc \in {"delete", "delete_free"} /\ n # Null
      /\ next \in [Nodes -> Pointer]
  BY DEF QueueInv, TypeOK, DeleteOne, Is
<1>2. poller.taken \in Seq(Nodes) /\ Linked(next, n, poller.taken)
  BY <1>1 DEF QueueInv, Chains, Is, PollerType
<1>3. poller.taken # <<>> /\ n = poller.taken[1] /\ n \in Nodes
  BY <1>1, <1>2, LinkedEnd
<1>4. poller' = [poller EXCEPT !.cursor = next[n], !.taken = Rest(poller.taken)]
  BY <1>1 DEF DeleteOne, PollerType
<1>5. poller' \in PollerType
  BY <1>1, <1>2, <1>3, <1>4, TopRemoved DEF PollerType
<1>6. TypeOK'
  BY <1>3, <1>5 DEF QueueInv, TypeOK, DeleteOne, memory, stack, free, wakefd
<1>7. /\ poller'.pc = poller.pc /\ poller'.cursor = next[n]
      /\ poller'.taken = Rest(poller.taken)
      /\ poller'.turned = poller.turned /\ poller'.cmds = poller.cmds
  BY <1>1, <1>4 DEF PollerType
<1>8. Phases'
  BY <1>1, <1>7 DEF QueueInv, Phases, Deleting, DeleteOne, At, stack, free
<1>9. Chains'
  <2>1. Linked(next, next[n], Rest(poller.taken))
    BY <1>1, <1>2, LinkedRest
  <2>. QED BY <1>1, <1>7, <2>1 DEF QueueInv, Chains, Is, DeleteOne, memory, stack, free
<1>10. Hands'
  BY <1>1, <1>7 DEF QueueInv, Hands, Fresh, Labelled, Is, DeleteOne, memory, free
<1>11. Owned'
  <2>1. Working' = Working /\ Held' = Held
    BY <1>1, <1>7 DEF Working, Held, InHands, DeleteOne
  <2>2. Apart(queued, spare, Rest(poller.taken), poller.turned, poller.cmds, ToSet(Working),
              Held, allocated, freed \cup {n})
    BY <1>2, <1>3, Deleted DEF QueueInv, Owned
  <2>. QED BY <1>1, <1>7, <2>1, <2>2 DEF Owned, Deleting, DeleteOne, stack, free
<1>. QED BY <1>6, <1>8, <1>9, <1>10, <1>11 DEF QueueInv

\* When the stack is gone, Stop takes the free list.
LEMMA DeleteFreeListStep ==
  ASSUME QueueInv, DeleteFreeList
  PROVE  QueueInv'
<1>1. poller \in PollerType /\ Is("delete") /\ poller.cursor = Null /\ spare \in Seq(Nodes)
  BY DEF QueueInv, TypeOK, DeleteFreeList
<1>2. poller' = [poller EXCEPT !.pc = "delete_free", !.cursor = command_free_head,
                               !.taken = spare]
  BY DEF DeleteFreeList, FreeList
<1>3. poller' \in PollerType
  BY <1>1, <1>2 DEF QueueInv, TypeOK, PollerType
<1>4. TypeOK'
  BY <1>3 DEF QueueInv, TypeOK, DeleteFreeList, Pointer, memory, stack, wakefd, heap
<1>5. poller.taken = <<>> /\ poller.turned = <<>> /\ poller.cmds = <<>>
  BY <1>1, LinkedEnd DEF QueueInv, Phases, Chains, Is, PollerType
<1>6. /\ poller'.pc = "delete_free" /\ poller'.cursor = command_free_head
      /\ poller'.taken = spare /\ poller'.turned = <<>> /\ poller'.cmds = <<>>
  BY <1>1, <1>2, <1>5 DEF PollerType
<1>7. Phases'
  BY <1>1, <1>6 DEF QueueInv, Phases, Deleting, DeleteFreeList, At, Is, stack
<1>8. Chains'
  BY <1>6, LinkedNothing DEF QueueInv, Chains, Is, DeleteFreeList, memory, stack
<1>9. Hands'
  BY <1>1, <1>6 DEF QueueInv, Phases, Deleting, At, Hands, Fresh, Labelled, Is, DeleteFreeList,
     memory
<1>10. Owned'
  <2>1. /\ Working = <<>> /\ Working' = <<>> /\ Held' = Held
    BY <1>1, <1>6 DEF Working, Held, InHands, Is, DeleteFreeList
  <2>2. Apart(queued, <<>>, spare, <<>>, <<>>, ToSet(<<>>), Held, allocated, freed)
    BY <1>5, <2>1, TakenFree DEF QueueInv, Owned
  <2>. QED BY <1>6, <2>1, <2>2 DEF QueueInv, Owned, Deleting, DeleteFreeList, stack, heap
<1>. QED BY <1>4, <1>7, <1>8, <1>9, <1>10 DEF QueueInv

-----------------------------------------------------------------------------
(* One caller: the invariant and what follows from it *)

\* Before anything is submitted the lists are empty.
LEMMA InitInvariant == Init => QueueInv
<1> SUFFICES ASSUME Init PROVE QueueInv
  OBVIOUS
<1>1. /\ poller = NewPoller /\ queued = <<>> /\ spare = <<>> /\ command_head = Null
      /\ command_free_head = Null /\ allocated = {} /\ freed = {}
      /\ producer = [p \in Producers |-> NewProducer]
  BY DEF Init
<1>2. TypeOK
  <2>1. NewProducer \in CallerType
    BY DEF NewProducer, CallerType, Pointer
  <2>2. NewPoller \in PollerType
    BY DEF NewPoller, PollerType, Pointer
  <2>3. producer \in [Producers -> CallerType] /\ poller \in PollerType
    BY <1>1, <2>1, <2>2
  <2>4. next \in [Nodes -> Pointer] /\ item \in [Nodes -> Commands \cup {NoCommand}]
    BY DEF Init, Pointer
  <2>5. queued \in Seq(Nodes) /\ spare \in Seq(Nodes)
    BY <1>1
  <2>6. wake \in BOOLEAN /\ edge \in BOOLEAN
    BY DEF Init
  <2>. QED BY <1>1, <2>3, <2>4, <2>5, <2>6 DEF TypeOK, Pointer
<1>3. Phases
  BY <1>1 DEF NewPoller, Phases, Deleting
<1>4. Chains
  BY <1>1, LinkedNothing DEF NewPoller, Chains, Is
<1>5. Hands
  BY <1>1 DEF NewPoller, NewProducer, Hands, Fresh, Labelled, Is
<1>6. Owned
  <2>1. Held = {} /\ Working = <<>>
    BY <1>1 DEF Held, InHands, NewProducer, Working, NewPoller
  <2>. QED BY <1>1, <2>1, NoElements DEF NewPoller, Owned, Apart
<1>. QED BY <1>2, <1>3, <1>4, <1>5, <1>6 DEF QueueInv

\* Every step keeps the invariant.
LEMMA NextInvariant ==
  ASSUME NEW p, Producers = {p}
  PROVE  QueueInv /\ [Next]_vars => QueueInv'
<1> SUFFICES ASSUME QueueInv, [Next]_vars PROVE QueueInv'
  OBVIOUS
<1>1. CASE ProducerNext(p)
  BY <1>1, SubmitStep, AcquireNewStep, AcquireFailsStep, AcquireNextStep, AcquirePopStep,
     AcquireRetryStep, EnqueueLoadStep, EnqueuePushStep, EnqueueRetryStep, EnqueueWakeStep
  DEF ProducerNext
<1>2. CASE ConsumerNext
  BY <1>2, PollOnceStep, DrainWakeFdStep, DrainCommandsStep, ReverseOneStep, ReversedStep,
     CollectOneStep, CollectedStep, HandleOneStep, ReleaseLoadStep, ReleasePushStep,
     ReleaseRetryStep, ProcessedStep, WaitWakesStep, WaitEndsStep, StopStep, DeleteOneStep,
     DeleteFreeListStep, StoppedStep
  DEF ConsumerNext
<1>3. CASE UNCHANGED vars
  <2> USE <1>3 DEF vars, memory, stack, free, wakefd, heap
  <2>1. TypeOK' /\ Phases'
    BY DEF QueueInv, TypeOK, Phases, Deleting, At
  <2>2. Chains' /\ Hands'
    BY DEF QueueInv, Chains, Hands, Fresh, Labelled, Is
  <2>3. Owned'
    BY DEF QueueInv, Owned, Working, Held, InHands, Deleting
  <2>. QED BY <2>1, <2>2, <2>3 DEF QueueInv
<1>. QED BY <1>1, <1>2, <1>3 DEF Next, Terminated

\* The invariant holds of every queue with one caller beside the polling thread.
THEOREM QueueInvariant ==
  ASSUME NEW p, Producers = {p}
  PROVE  Spec => []QueueInv
<1>1. QueueInv /\ [Next]_vars => QueueInv'
  BY NextInvariant
<1>. QED BY <1>1, InitInvariant, PTL DEF Spec

\* ListIs is Linked of the present pointers.
LEMMA ListIsLinked ==
  ASSUME NEW h, NEW s \in Seq(Nodes)
  PROVE  ListIs(h, s) <=> Linked(next, h, s)
<1>1. DOMAIN s = 1..Len(s)
  OBVIOUS
<1>. QED BY <1>1 DEF ListIs, Linked

\* However the two threads interleave, the pointers from either head reach exactly the nodes
\* pushed and not yet popped: no store into Command::next and no exchange of a head loses a
\* node or joins the lists (network.cpp:179-206, 282-286).
THEOREM PointersIntact ==
  ASSUME NEW p, Producers = {p}
  PROVE  Spec => []ListsIntact
<1>1. QueueInv => ListsIntact
  BY ListIsLinked DEF QueueInv, TypeOK, Chains, ListsIntact
<1>. QED BY <1>1, QueueInvariant, PTL

\* With one thread that submits, which is how the engine uses the queue, every Command has
\* one owner (network.cpp:179-206, 298-318, 516-536).
THEOREM OneOwner ==
  ASSUME NEW p, Producers = {p}
  PROVE  Spec => []OwnedOnce
<1>1. ASSUME QueueInv PROVE OwnedOnce
  <2> DEFINE l2 == queued \o spare
             l3 == l2 \o poller.taken
             l4 == l3 \o poller.turned
             l5 == l4 \o poller.cmds
  <2>1. /\ queued \in Seq(Nodes) /\ spare \in Seq(Nodes) /\ poller.taken \in Seq(Nodes)
        /\ poller.turned \in Seq(Nodes) /\ poller.cmds \in Seq(Nodes)
    BY <1>1 DEF QueueInv, TypeOK, PollerType
  <2>2. Working \in Seq(Nodes) /\ IsInjective(Working)
    BY <1>1 DEF QueueInv, Hands, Working, IsInjective
  <2>3. Apart(queued, spare, poller.taken, poller.turned, poller.cmds, ToSet(Working), Held,
              allocated, freed)
    BY <1>1 DEF QueueInv, Owned
  <2>4. l2 \in Seq(Nodes) /\ IsInjective(l2) /\ ToSet(l2) = ToSet(queued) \cup ToSet(spare)
    BY <2>1, <2>3, Joined DEF Apart
  <2> HIDE DEF l2
  <2>5. /\ l3 \in Seq(Nodes) /\ IsInjective(l3) /\ ToSet(l3) = ToSet(l2) \cup ToSet(poller.taken)
    BY <2>1, <2>3, <2>4, Joined DEF Apart
  <2> HIDE DEF l3
  <2>6. /\ l4 \in Seq(Nodes) /\ IsInjective(l4) /\ ToSet(l4) = ToSet(l3) \cup ToSet(poller.turned)
    BY <2>1, <2>3, <2>4, <2>5, Joined DEF Apart
  <2> HIDE DEF l4
  <2>7. /\ l5 \in Seq(Nodes) /\ IsInjective(l5) /\ ToSet(l5) = ToSet(l4) \cup ToSet(poller.cmds)
    BY <2>1, <2>3, <2>4, <2>5, <2>6, Joined DEF Apart
  <2> HIDE DEF l5
  <2>8. /\ IsInjective(l5 \o Working) /\ ToSet(l5 \o Working) = ToSet(l5) \cup ToSet(Working)
    BY <2>2, <2>3, <2>4, <2>5, <2>6, <2>7, Joined DEF Apart
  <2>9. Lists = l5 \o Working
    BY DEF Lists, l5, l4, l3, l2
  <2>10. \A n \in Held : n \notin ToSet(Lists)
    BY <2>3, <2>4, <2>5, <2>6, <2>7, <2>8, <2>9 DEF Apart
  <2>11. \A q, r \in InHands : producer[q].node = producer[r].node => q = r
    BY DEF InHands
  <2>. QED BY <2>8, <2>9, <2>10, <2>11 DEF OwnedOnce
<1>. QED BY <1>1, QueueInvariant, PTL

\* Stop gives back every Command, and none twice (network.cpp:264-275).
THEOREM StopDeletesOnce ==
  ASSUME NEW p, Producers = {p}
  PROVE  Spec => []DeletedOnce
<1>1. ASSUME QueueInv PROVE DeletedOnce
  <2>1. Apart(queued, spare, poller.taken, poller.turned, poller.cmds, ToSet(Working), Held,
              allocated, freed)
    BY <1>1 DEF QueueInv, Owned
  <2>2. poller \in PollerType /\ freed \subseteq Nodes
    BY <1>1 DEF QueueInv, TypeOK
  <2>3. ASSUME Is("delete") \/ Is("delete_free") PROVE poller.cursor \notin freed
    <3>1. CASE poller.cursor = Null
      BY <2>2, <3>1
    <3>2. CASE poller.cursor # Null
      <4>1. poller.taken \in Seq(Nodes) /\ Linked(next, poller.cursor, poller.taken)
        BY <1>1, <2>2, <2>3 DEF QueueInv, Chains, PollerType
      <4>2. poller.cursor \in ToSet(poller.taken)
        BY <3>2, <4>1, LinkedEnd
      <4>. QED BY <2>1, <4>2 DEF Apart
    <3>. QED BY <3>1, <3>2
  <2>4. ASSUME Is("stopped") PROVE freed = allocated
    <3>1. queued = <<>> /\ spare = <<>> /\ poller.taken = <<>> /\ poller.turned = <<>>
          /\ poller.cmds = <<>> /\ Working = <<>>
      BY <1>1, <2>4 DEF QueueInv, Phases, Deleting, Is, Working
    <3>2. Held = {}
      BY <1>1, <2>4 DEF QueueInv, Phases, Deleting, Is, At, Held, InHands
    <3>. QED BY <2>1, <3>1, <3>2, NoElements DEF Apart
  <2>. QED BY <2>3, <2>4 DEF DeletedOnce
<1>. QED BY <1>1, QueueInvariant, PTL

-----------------------------------------------------------------------------
(* Any number of callers: no wakeup is lost *)

\* A caller that has pushed and not yet written to the eventfd.
Announcing == \E p \in Producers : At(p, "wake")

\* From taking the stack to the end of the wait, a command in the queue comes with a write to
\* the eventfd that epoll_wait has not reported, made or about to be made.
Awaited ==
  /\ DOMAIN producer = Producers /\ \A p \in Producers : "pc" \in DOMAIN producer[p]
  /\ "pc" \in DOMAIN poller
  /\ poller.pc \in {"reverse", "collect", "handle", "reset", "release", "wait"} =>
       command_head = Null \/ (edge /\ wake) \/ Announcing

\* No wakeup is lost, however many callers there are (network.cpp:517-518).
THEOREM WakeupsKept == Spec => []NoLostWakeup
<1>1. Init => Awaited
  BY DEF Init, Awaited, NewPoller, NewProducer
<1>2. ASSUME Awaited, [Next]_vars PROVE Awaited'
  <2>1. ASSUME NEW p \in Producers, ProducerNext(p) PROVE Awaited'
    <3>1. poller' = poller
      BY <2>1 DEF ProducerNext, Submit, AcquireNew, AcquireFails, AcquireNext, AcquirePop,
                  AcquireRetry, EnqueueLoad, EnqueuePush, EnqueueRetry, EnqueueWake
    <3>2. PICK new : Becomes(p, new) /\ "pc" \in DOMAIN new /\ (EnqueuePush(p) => new.pc = "wake")
      <4>1. "pc" \in DOMAIN producer[p]
        BY <1>2 DEF Awaited
      <4>2. CASE Submit(p)
        BY <4>1, <4>2 DEF Submit, EnqueuePush, At
      <4>3. CASE AcquireNew(p)
        <5>1. PICK n \in Nodes : Becomes(p, [producer[p] EXCEPT !.pc = "fill", !.node = n])
          BY <4>3 DEF AcquireNew
        <5>2. ~EnqueuePush(p)
          BY <4>3 DEF AcquireNew, EnqueuePush, At
        <5>. QED BY <4>1, <5>1, <5>2
      <4>4. CASE AcquireFails(p)
        BY <4>1, <4>4 DEF AcquireFails, EnqueuePush, At
      <4>5. CASE AcquireNext(p)
        BY <4>1, <4>5 DEF AcquireNext, EnqueuePush, At
      <4>6. CASE AcquirePop(p)
        BY <4>1, <4>6 DEF AcquirePop, EnqueuePush, At
      <4>7. CASE AcquireRetry(p)
        BY <4>1, <4>7 DEF AcquireRetry, EnqueuePush, At
      <4>8. CASE EnqueueLoad(p)
        BY <4>1, <4>8 DEF EnqueueLoad, EnqueuePush, At
      <4>9. CASE EnqueuePush(p)
        <5> DEFINE new == [producer[p] EXCEPT !.pc = "wake", !.submitted = @ + 1]
        <5>1. new.pc = "wake" /\ "pc" \in DOMAIN new
          BY <4>1
        <5>2. Becomes(p, new)
          BY <4>9 DEF EnqueuePush
        <5>. HIDE DEF new
        <5>. QED BY <5>1, <5>2
      <4>10. CASE EnqueueRetry(p) /\ ~EnqueuePush(p)
        BY <4>1, <4>10 DEF EnqueueRetry
      <4>11. CASE EnqueueWake(p)
        BY <4>1, <4>11 DEF EnqueueWake, EnqueuePush, At
      <4>. QED
        BY <2>1, <4>2, <4>3, <4>4, <4>5, <4>6, <4>7, <4>8, <4>9, <4>10, <4>11 DEF ProducerNext
    <3>3. /\ DOMAIN producer' = Producers /\ producer'[p] = new
          /\ \A q \in Producers : q # p => producer'[q] = producer[q]
      BY <1>2, <3>2 DEF Awaited, Becomes
    <3>4. \A q \in Producers : "pc" \in DOMAIN producer'[q]
      BY <1>2, <3>2, <3>3 DEF Awaited
    <3>5. CASE EnqueueWake(p)
      BY <1>2, <3>1, <3>3, <3>4, <3>5 DEF Awaited, EnqueueWake
    <3>6. CASE EnqueuePush(p)
      <4>1. Announcing'
        BY <3>2, <3>3, <3>6 DEF Announcing, At
      <4>. QED BY <1>2, <3>1, <3>3, <3>4, <4>1 DEF Awaited
    <3>7. CASE ~EnqueueWake(p) /\ ~EnqueuePush(p)
      <4>1. UNCHANGED <<command_head, wake, edge>> /\ ~At(p, "wake")
        BY <2>1, <3>7
        DEF ProducerNext, Submit, AcquireNew, AcquireFails, AcquireNext, AcquirePop, AcquireRetry,
            EnqueueLoad, EnqueueRetry, At, stack, wakefd
      <4>2. Announcing => Announcing'
        BY <3>3, <4>1 DEF Announcing, At
      <4>. QED BY <1>2, <3>1, <3>3, <3>4, <4>1, <4>2 DEF Awaited
    <3>. QED BY <3>5, <3>6, <3>7
  <2>2. CASE ConsumerNext
    <3>1. producer' = producer /\ "pc" \in DOMAIN poller' /\ (Announcing' <=> Announcing)
      BY <1>2, <2>2
      DEF ConsumerNext, PollOnce, DrainWakeFd, DrainCommands, ReverseOne, Reversed, CollectOne,
          Collected, HandleOne, ReleaseLoad, ReleasePush, ReleaseRetry, Processed, WaitWakes,
          WaitEnds, Stop, DeleteOne, DeleteFreeList, Stopped, Awaited, Announcing, At
    <3>2. \/ poller'.pc \in {"idle", "wakefd", "drain", "delete", "delete_free", "stopped"}
          \/ command_head' = Null
          \/ /\ UNCHANGED <<command_head, wake, edge>>
             /\ poller.pc \in {"reverse", "collect", "handle", "reset", "release"}
      BY <1>2, <2>2
      DEF ConsumerNext, PollOnce, DrainWakeFd, DrainCommands, ReverseOne, Reversed, CollectOne,
          Collected, HandleOne, ReleaseLoad, ReleasePush, ReleaseRetry, Processed, WaitWakes,
          WaitEnds, Stop, DeleteOne, DeleteFreeList, Stopped, Awaited, Is, stack, wakefd
    <3>. QED BY <1>2, <3>1, <3>2 DEF Awaited
  <2>3. CASE UNCHANGED vars
    BY <1>2, <2>3 DEF Awaited, Announcing, At, vars, stack, wakefd
  <2>. QED BY <1>2, <2>1, <2>2, <2>3 DEF Next, Terminated
<1>3. Awaited => NoLostWakeup
  BY DEF Awaited, NoLostWakeup, Announcing, Is
<1>. QED BY <1>1, <1>2, <1>3, PTL DEF Spec

-----------------------------------------------------------------------------
(* One caller: the queue is first in, first out *)

\* Items for any contents of the commands.
Labels(it, s) == [i \in 1..Len(s) |-> it[s[i]]]

\* The commands of a list.
LEMMA LabelsTyped ==
  ASSUME NEW it, NEW s \in Seq(Nodes)
  PROVE  Len(Labels(it, s)) = Len(s) /\ DOMAIN Labels(it, s) = 1..Len(s)
BY DEF Labels

\* The commands of a list are those of its nodes, whatever the others hold.
LEMMA LabelsElsewhere ==
  ASSUME NEW it, NEW new, NEW s \in Seq(Nodes), NEW n, n \notin ToSet(s),
         \A m \in Nodes : m # n => new[m] = it[m]
  PROVE  Labels(new, s) = Labels(it, s)
<1>1. \A i \in 1..Len(s) : s[i] \in Nodes /\ s[i] # n
  BY DEF ToSet
<1>. QED BY <1>1 DEF Labels

\* One more node at the end is one more command at the end.
LEMMA LabelsAppend ==
  ASSUME NEW it, NEW s \in Seq(Nodes), NEW n \in Nodes
  PROVE  Labels(it, Append(s, n)) = Append(Labels(it, s), it[n])
BY DEF Labels

\* The first command is that of the first node.
LEMMA LabelsTail ==
  ASSUME NEW it, NEW s \in Seq(Nodes), s # <<>>
  PROVE  /\ Labels(it, s) # <<>> /\ Head(Labels(it, s)) = it[Head(s)]
         /\ Labels(it, Tail(s)) = Tail(Labels(it, s))
BY DEF Labels

\* No nodes, no commands.
LEMMA NoLabels == \A it : Labels(it, <<>>) = <<>>
BY DEF Labels

\* The reverse has the same elements.
LEMMA ReverseKeeps ==
  ASSUME NEW S, NEW s \in Seq(S)
  PROVE  Reverse(s) \in Seq(S) /\ Len(Reverse(s)) = Len(s) /\ ToSet(Reverse(s)) = ToSet(s)
<1>1. Len(s) \in Nat /\ Reverse(s) \in Seq(S) /\ Len(Reverse(s)) = Len(s)
  BY DEF Reverse
<1>2. ToSet(Reverse(s)) = ToSet(s)
  <2>1. \A i \in 1..Len(s) : Len(s) - i + 1 \in 1..Len(s) /\ Reverse(s)[i] = s[Len(s) - i + 1]
    BY <1>1 DEF Reverse
  <2>2. ASSUME NEW i \in 1..Len(s) PROVE Reverse(s)[Len(s) - i + 1] = s[i]
    <3> DEFINE k == Len(s) - i + 1
    <3>1. k \in 1..Len(s) /\ Len(s) - k + 1 = i
      BY <1>1
    <3> HIDE DEF k
    <3>2. Reverse(s)[k] = s[i]
      BY <2>1, <3>1
    <3>. QED BY <3>2 DEF k
  <2>3. DOMAIN s = 1..Len(s) /\ DOMAIN Reverse(s) = 1..Len(s)
    BY <1>1
  <2> DEFINE r == Reverse(s)
  <2>4. \A i \in DOMAIN r : \E j \in DOMAIN s : r[i] = s[j]
    BY <2>1, <2>3
  <2>5. \A i \in DOMAIN s : \E j \in DOMAIN r : s[i] = r[j]
    BY <2>1, <2>2, <2>3
  <2> HIDE DEF r
  <2>6. ToSet(r) = ToSet(s)
    BY <2>4, <2>5 DEF ToSet
  <2>. QED BY <2>6 DEF r
<1>. QED BY <1>1, <1>2

\* What is in front comes last in the reverse.
LEMMA ReverseTop ==
  ASSUME NEW S, NEW s \in Seq(S), NEW n \in S
  PROVE  Reverse(<<n>> \o s) = Append(Reverse(s), n)
<1>1. Len(s) \in Nat /\ Reverse(s) \in Seq(S) /\ Len(Reverse(s)) = Len(s)
  BY ReverseKeeps
<1>3. Reverse(<<n>> \o s) = Append(Reverse(s), n)
  <2> DEFINE a == Reverse(<<n>> \o s)
             b == Append(Reverse(s), n)
  <2>1. /\ a \in Seq(S) /\ Len(a) = Len(s) + 1 /\ b \in Seq(S) /\ Len(b) = Len(s) + 1
    BY <1>1 DEF Reverse
  <2>2. \A i \in 1..Len(s) + 1 : a[i] = (<<n>> \o s)[Len(s) + 1 - i + 1]
    BY <1>1 DEF Reverse
  <2>3. \A i \in 1..Len(s) : b[i] = s[Len(s) - i + 1]
    BY <1>1 DEF Reverse
  <2>4. b[Len(s) + 1] = n
    BY <1>1
  <2>5. \A i \in 1..Len(s) : (<<n>> \o s)[Len(s) + 1 - i + 1] = s[Len(s) - i + 1]
    BY <1>1
  <2>6. (<<n>> \o s)[1] = n
    OBVIOUS
  <2> HIDE DEF a, b
  <2>7. ASSUME NEW i \in 1..Len(s) + 1 PROVE a[i] = b[i]
    <3>1. CASE i = Len(s) + 1
      BY <1>1, <2>2, <2>4, <2>6, <3>1
    <3>2. CASE i \in 1..Len(s)
      BY <1>1, <2>2, <2>3, <2>5, <3>2
    <3>. QED BY <1>1, <3>1, <3>2
  <2>8. a = b
    BY <2>1, <2>7
  <2>. QED BY <2>8 DEF a, b
<1>. QED BY <1>3

\* The nodes the polling thread has taken and not yet executed, in order of execution.
Ahead == poller.cmds \o Reverse(poller.taken) \o poller.turned

\* The nodes of the lists are nodes, and none of them is in the caller's hands or being put
\* back.
LEMMA AheadApart ==
  ASSUME QueueInv
  PROVE  /\ Ahead \in Seq(Nodes) /\ Reverse(queued) \in Seq(Nodes)
         /\ \A n \in Held \cup ToSet(Working) :
              n \notin ToSet(Ahead) /\ n \notin ToSet(Reverse(queued))
<1>1. /\ queued \in Seq(Nodes) /\ poller.taken \in Seq(Nodes) /\ poller.turned \in Seq(Nodes)
      /\ poller.cmds \in Seq(Nodes)
  BY DEF QueueInv, TypeOK, PollerType
<1> DEFINE r  == Reverse(poller.taken)
           cr == poller.cmds \o r
<1>2. r \in Seq(Nodes) /\ ToSet(r) = ToSet(poller.taken)
  BY <1>1, ReverseKeeps
<1>3. Reverse(queued) \in Seq(Nodes) /\ ToSet(Reverse(queued)) = ToSet(queued)
  BY <1>1, ReverseKeeps
<1> HIDE DEF r
<1>4. cr \in Seq(Nodes) /\ ToSet(cr) = ToSet(poller.cmds) \cup ToSet(poller.taken)
  BY <1>1, <1>2, Joined
<1> HIDE DEF cr
<1>5. /\ cr \o poller.turned \in Seq(Nodes)
      /\ ToSet(cr \o poller.turned) = ToSet(cr) \cup ToSet(poller.turned)
  BY <1>1, <1>4, Joined
<1>6. Ahead = cr \o poller.turned
  BY DEF Ahead, cr, r
<1>7. Apart(queued, spare, poller.taken, poller.turned, poller.cmds, ToSet(Working), Held,
            allocated, freed)
  BY DEF QueueInv, Owned
<1>8. \A n \in Held \cup ToSet(Working) :
        /\ n \notin ToSet(queued) /\ n \notin ToSet(poller.taken)
        /\ n \notin ToSet(poller.turned) /\ n \notin ToSet(poller.cmds)
  BY <1>7 DEF Apart
<1>. QED BY <1>3, <1>4, <1>5, <1>6, <1>8

\* A list is its first element and the rest.
LEMMA TopAndRest ==
  ASSUME NEW S, NEW s \in Seq(S), s # <<>>
  PROVE  s = <<s[1]>> \o Rest(s)
<1> DEFINE t == <<s[1]>> \o Rest(s)
<1>1. /\ Len(s) \in Nat \ {0} /\ Rest(s) \in Seq(S) /\ Len(Rest(s)) = Len(s) - 1 /\ s[1] \in S
      /\ \A i \in 1..Len(s) - 1 : Rest(s)[i] = s[i + 1]
  BY RestElements
<1>2. t \in Seq(S) /\ Len(t) = Len(s) /\ t[1] = s[1]
  BY <1>1
<1>3. \A i \in 2..Len(s) : t[i] = Rest(s)[i - 1] /\ i - 1 \in 1..Len(s) - 1
  BY <1>1
<1> HIDE DEF t
<1>4. ASSUME NEW i \in 1..Len(s) PROVE t[i] = s[i]
  <2>1. CASE i = 1
    BY <1>2, <2>1
  <2>2. CASE i # 1
    <3>1. i \in 2..Len(s) /\ (i - 1) + 1 = i
      BY <1>1, <2>2
    <3>. QED BY <1>1, <1>3, <3>1
  <2>. QED BY <2>1, <2>2
<1>5. t = s
  BY <1>2, <1>4, SeqEqual
<1>. QED BY <1>5 DEF t

\* Turning a node round leaves the order of execution as it is.
LEMMA TurnedAhead ==
  ASSUME NEW t \in Seq(Nodes), NEW u \in Seq(Nodes), t # <<>>
  PROVE  Reverse(Rest(t)) \o (<<t[1]>> \o u) = Reverse(t) \o u
<1>1. t = <<t[1]>> \o Rest(t) /\ Rest(t) \in Seq(Nodes) /\ t[1] \in Nodes
  BY TopAndRest, TopRemoved
<1> DEFINE n == t[1]
           r == Rest(t)
<1> HIDE DEF n, r
<1>2. Reverse(<<n>> \o r) = Append(Reverse(r), n) /\ Reverse(r) \in Seq(Nodes)
  BY <1>1, ReverseTop, ReverseKeeps DEF n, r
<1>3. Reverse(t) = Append(Reverse(r), n)
  BY <1>1, <1>2 DEF n, r
<1> DEFINE v == Reverse(r)
<1> HIDE DEF v
<1>4. v \in Seq(Nodes) /\ n \in Nodes
  BY <1>1, <1>2 DEF n, v
<1>5. v \o (<<n>> \o u) = Append(v, n) \o u
  <2>1. Append(v, n) = v \o <<n>> /\ <<n>> \in Seq(Nodes)
    BY <1>4
  <2>. QED BY <1>4, <2>1, ConcatAssociative
<1>. QED BY <1>3, <1>5 DEF v, n, r

\* So does collecting it.
LEMMA CollectedAhead ==
  ASSUME NEW c \in Seq(Nodes), NEW u \in Seq(Nodes), u # <<>>
  PROVE  Append(c, u[1]) \o Rest(u) = c \o u
<1>1. u = <<u[1]>> \o Rest(u) /\ Rest(u) \in Seq(Nodes) /\ u[1] \in Nodes
  BY TopAndRest, TopRemoved
<1> DEFINE n == u[1]
           r == Rest(u)
<1> HIDE DEF n, r
<1>2. n \in Nodes /\ r \in Seq(Nodes) /\ u = <<n>> \o r
  BY <1>1 DEF n, r
<1>3. Append(c, n) \o r = c \o (<<n>> \o r)
  <2>1. Append(c, n) = c \o <<n>> /\ <<n>> \in Seq(Nodes)
    BY <1>2
  <2>. QED BY <1>2, <2>1, ConcatAssociative
<1>. QED BY <1>2, <1>3 DEF n, r

\* What the variables of CommandFifo stand for.
Pending == Labels(item, Reverse(queued))
Batch   == IF Deleting THEN <<>> ELSE Labels(item, Ahead)

\* The operators above are what CommandQueue substitutes.
LEMMA FifoMapping ==
  QueueInv => /\ Items(Reverse(queued)) = Pending
          /\ (IF Deleting THEN <<>>
              ELSE Items(poller.cmds \o Reverse(poller.taken) \o poller.turned)) = Batch
<1> SUFFICES ASSUME QueueInv
             PROVE  Items(Reverse(queued)) = Pending /\ Items(Ahead) = Labels(item, Ahead)
  BY DEF Batch, Ahead
<1>1. \A s \in Seq(Nodes) : DOMAIN s = 1..Len(s)
  OBVIOUS
<1>2. \A s \in Seq(Nodes) : Items(s) = Labels(item, s)
  BY <1>1 DEF Items, Labels
<1>. QED BY <1>2, AheadApart DEF Pending

\* Every variable of CommandFifo keeps its value.
Unmoved == Pending' = Pending /\ Batch' = Batch /\ handled' = handled /\ Deleting' = Deleting

\* A step that moves none of them is a stutter of CommandFifo.
LEMMA Stutters ==
  ASSUME QueueInv, QueueInv', Unmoved
  PROVE  UNCHANGED Fifo!vars
<1>1. (Items(Reverse(queued)) = Pending)' /\ Items(Reverse(queued)) = Pending
  BY FifoMapping, PTL
<1>2. /\ ((IF Deleting THEN <<>>
           ELSE Items(poller.cmds \o Reverse(poller.taken) \o poller.turned)) = Batch)'
      /\ (IF Deleting THEN <<>>
          ELSE Items(poller.cmds \o Reverse(poller.taken) \o poller.turned)) = Batch
  BY FifoMapping, PTL
<1>. QED BY <1>1, <1>2 DEF Unmoved, Fifo!vars

\* The steps of the caller.
LEMMA CallerImplements ==
  ASSUME NEW p, Producers = {p}, QueueInv, QueueInv', ProducerNext(p)
  PROVE  Fifo!Next \/ UNCHANGED Fifo!vars
<1>1. CASE EnqueuePush(p)
  <2> DEFINE n == producer[p].node
  <2>1. /\ n \in Nodes /\ queued \in Seq(Nodes) /\ queued' = <<n>> \o queued
        /\ item' = item /\ poller' = poller /\ handled' = handled
    BY <1>1, NodeApart DEF QueueInv, TypeOK, EnqueuePush, At, Pushed, memory
  <2>2. item[n] \in Commands
    <3>1. p \in Producers /\ producer[p] \in CallerType
      BY DEF QueueInv, TypeOK
    <3>2. item[n] = <<p, producer[p].submitted>> /\ producer[p].submitted < MaxSubmit[p]
      BY <1>1, <3>1 DEF QueueInv, Hands, Labelled, EnqueuePush, At
    <3>. QED BY <3>1, <3>2, CommandLabel DEF CallerType
  <2>3. Reverse(queued) \in Seq(Nodes) /\ Reverse(queued') = Append(Reverse(queued), n)
    BY <2>1, ReverseTop, ReverseKeeps
  <2>4. Pending' = Append(Pending, item[n])
    BY <2>1, <2>3, LabelsAppend DEF Pending
  <2>5. Batch' = Batch /\ Deleting' = Deleting
    BY <2>1 DEF Batch, Ahead, Deleting
  <2>6. ~Deleting
    BY <1>1, NotDeleting DEF EnqueuePush, At
  <2>7. (Items(Reverse(queued)) = Pending)' /\ Items(Reverse(queued)) = Pending
    BY FifoMapping, PTL
  <2>8. /\ ((IF Deleting THEN <<>>
             ELSE Items(poller.cmds \o Reverse(poller.taken) \o poller.turned)) = Batch)'
        /\ (IF Deleting THEN <<>>
            ELSE Items(poller.cmds \o Reverse(poller.taken) \o poller.turned)) = Batch
    BY FifoMapping, PTL
  <2>9. Fifo!Submit(item[n])
    BY <2>1, <2>4, <2>5, <2>6, <2>7, <2>8 DEF Fifo!Submit
  <2>. QED BY <2>2, <2>9 DEF Fifo!Next
<1>2. CASE EnqueueLoad(p)
  <2> DEFINE n == producer[p].node
  <2>1. n \in Held
    BY <1>2, NodeApart DEF EnqueueLoad, At
  <2>2. /\ Ahead \in Seq(Nodes) /\ Reverse(queued) \in Seq(Nodes)
        /\ n \notin ToSet(Ahead) /\ n \notin ToSet(Reverse(queued))
    BY <2>1, AheadApart
  <2>3. \A m \in Nodes : m # n => item'[m] = item[m]
    BY <1>2 DEF QueueInv, TypeOK, EnqueueLoad
  <2>4. /\ Labels(item', Ahead) = Labels(item, Ahead)
        /\ Labels(item', Reverse(queued)) = Labels(item, Reverse(queued))
    BY <2>2, <2>3, LabelsElsewhere
  <2>5. queued' = queued /\ poller' = poller /\ handled' = handled
    BY <1>2 DEF EnqueueLoad, stack
  <2>. QED BY <2>4, <2>5, Stutters DEF Unmoved, Pending, Batch, Ahead, Deleting
<1>3. CASE ~EnqueuePush(p) /\ ~EnqueueLoad(p)
  <2>1. queued' = queued /\ item' = item /\ poller' = poller /\ handled' = handled
    BY <1>3 DEF ProducerNext, Submit, AcquireNew, AcquireFails, AcquireNext, AcquirePop,
                AcquireRetry, EnqueueRetry, EnqueueWake, memory, stack
  <2>. QED BY <2>1, Stutters DEF Unmoved, Pending, Batch, Ahead, Deleting
<1>. QED BY <1>1, <1>2, <1>3

\* Taking the stack takes all that is pending, oldest first.
LEMMA DrainImplements ==
  ASSUME QueueInv, QueueInv', DrainCommands
  PROVE  Fifo!Next
<1>1. poller \in PollerType /\ Is("drain") /\ queued \in Seq(Nodes)
  BY DEF QueueInv, TypeOK, DrainCommands
<1>2. poller.taken = <<>> /\ poller.turned = <<>> /\ poller.cmds = <<>> /\ ~Deleting
  BY <1>1 DEF QueueInv, Phases, Is, Deleting
<1>3. /\ poller'.taken = queued /\ poller'.turned = <<>> /\ poller'.cmds = <<>>
      /\ ~Deleting' /\ queued' = <<>> /\ item' = item /\ handled' = handled
  BY <1>1, <1>2 DEF PollerType, DrainCommands, memory, Deleting
<1>4. Reverse(queued) \in Seq(Nodes) /\ Reverse(<<>>) = <<>>
  BY <1>1, ReverseKeeps DEF Reverse
<1>5. Ahead = <<>> /\ Ahead' = Reverse(queued)
  BY <1>2, <1>3, <1>4 DEF Ahead
<1>6. Pending' = <<>> /\ Batch = <<>> /\ Batch' = Pending
  BY <1>2, <1>3, <1>4, <1>5, NoLabels DEF Pending, Batch
<1>7. (Items(Reverse(queued)) = Pending)' /\ Items(Reverse(queued)) = Pending
  BY FifoMapping, PTL
<1>8. /\ ((IF Deleting THEN <<>>
           ELSE Items(poller.cmds \o Reverse(poller.taken) \o poller.turned)) = Batch)'
      /\ (IF Deleting THEN <<>>
          ELSE Items(poller.cmds \o Reverse(poller.taken) \o poller.turned)) = Batch
  BY FifoMapping, PTL
<1>9. Fifo!TakeAll
  BY <1>2, <1>3, <1>6, <1>7, <1>8 DEF Fifo!TakeAll
<1>. QED BY <1>9 DEF Fifo!Next

\* Stop discards what is pending.
LEMMA StopImplements ==
  ASSUME QueueInv, QueueInv', Stop
  PROVE  Fifo!Next
<1>1. poller \in PollerType /\ Is("idle")
  BY DEF QueueInv, TypeOK, Stop
<1>2. poller.taken = <<>> /\ poller.turned = <<>> /\ poller.cmds = <<>> /\ ~Deleting
  BY <1>1 DEF QueueInv, Phases, Is, Deleting
<1>3. Deleting' /\ queued' = <<>> /\ handled' = handled
  BY <1>1 DEF PollerType, Stop, Deleting
<1>4. Reverse(<<>>) = <<>>
  BY DEF Reverse
<1>5. Ahead = <<>>
  BY <1>2, <1>4 DEF Ahead
<1>6. Pending' = <<>> /\ Batch = <<>> /\ Batch' = <<>>
  BY <1>2, <1>3, <1>4, <1>5, NoLabels DEF Pending, Batch
<1>7. (Items(Reverse(queued)) = Pending)'
  BY FifoMapping, PTL
<1>8. /\ ((IF Deleting THEN <<>>
           ELSE Items(poller.cmds \o Reverse(poller.taken) \o poller.turned)) = Batch)'
      /\ (IF Deleting THEN <<>>
          ELSE Items(poller.cmds \o Reverse(poller.taken) \o poller.turned)) = Batch
  BY FifoMapping, PTL
<1>9. Fifo!Stop
  BY <1>2, <1>3, <1>6, <1>7, <1>8 DEF Fifo!Stop
<1>. QED BY <1>9 DEF Fifo!Next

\* A command executed is the first of the batch.
LEMMA HandleImplements ==
  ASSUME QueueInv, QueueInv', HandleOne
  PROVE  Fifo!Next
<1>1. poller \in PollerType /\ Is("handle") /\ poller.cmds # <<>> /\ poller.cmds \in Seq(Nodes)
  BY DEF QueueInv, TypeOK, HandleOne, PollerType
<1>2. poller.taken = <<>> /\ poller.turned = <<>> /\ ~Deleting
  BY <1>1 DEF QueueInv, Phases, Is, Deleting
<1>3. /\ poller'.taken = <<>> /\ poller'.turned = <<>> /\ poller'.cmds = Tail(poller.cmds)
      /\ ~Deleting' /\ queued' = queued /\ item' = item
      /\ handled' = Append(handled, item[Head(poller.cmds)])
  BY <1>1, <1>2 DEF PollerType, HandleOne, memory, stack, Deleting
<1>4. Reverse(<<>>) = <<>> /\ Tail(poller.cmds) \in Seq(Nodes)
  BY <1>1 DEF Reverse
<1>5. Ahead = poller.cmds /\ Ahead' = Tail(poller.cmds)
  BY <1>1, <1>2, <1>3, <1>4 DEF Ahead
<1>6. /\ Pending' = Pending
      /\ Batch # <<>> /\ Head(Batch) = item[Head(poller.cmds)] /\ Batch' = Tail(Batch)
  BY <1>1, <1>2, <1>3, <1>5, LabelsTail DEF Pending, Batch
<1>7. (Items(Reverse(queued)) = Pending)' /\ Items(Reverse(queued)) = Pending
  BY FifoMapping, PTL
<1>8. /\ ((IF Deleting THEN <<>>
           ELSE Items(poller.cmds \o Reverse(poller.taken) \o poller.turned)) = Batch)'
      /\ (IF Deleting THEN <<>>
          ELSE Items(poller.cmds \o Reverse(poller.taken) \o poller.turned)) = Batch
  BY FifoMapping, PTL
<1>9. Fifo!Execute
  BY <1>2, <1>3, <1>6, <1>7, <1>8 DEF Fifo!Execute
<1>. QED BY <1>9 DEF Fifo!Next

\* Turning a node round changes nothing of the order.
LEMMA ReverseImplements ==
  ASSUME QueueInv, QueueInv', ReverseOne
  PROVE  UNCHANGED Fifo!vars
<1> DEFINE n == poller.cursor
<1>1. poller \in PollerType /\ Is("reverse") /\ n # Null
  BY DEF QueueInv, TypeOK, ReverseOne
<1>2. poller.taken \in Seq(Nodes) /\ poller.turned \in Seq(Nodes) /\ poller.cmds = <<>>
  BY <1>1 DEF QueueInv, Phases, PollerType, Is
<1>3. poller.taken # <<>> /\ n = poller.taken[1]
  BY <1>1, <1>2, LinkedEnd DEF QueueInv, Chains
<1>4. /\ poller'.taken = Rest(poller.taken) /\ poller'.turned = <<n>> \o poller.turned
      /\ poller'.cmds = poller.cmds /\ poller'.pc = poller.pc
      /\ queued' = queued /\ item' = item /\ handled' = handled
  BY <1>1 DEF PollerType, ReverseOne, stack, Is
<1>5. Reverse(Rest(poller.taken)) \o (<<n>> \o poller.turned)
        = Reverse(poller.taken) \o poller.turned
  BY <1>2, <1>3, TurnedAhead
<1>6. Rest(poller.taken) \in Seq(Nodes)
  BY <1>2, <1>3, TopRemoved
<1>7. Reverse(Rest(poller.taken)) \in Seq(Nodes) /\ Reverse(poller.taken) \in Seq(Nodes)
  BY <1>2, <1>6, ReverseKeeps
<1>8. <<>> \o Reverse(Rest(poller.taken)) = Reverse(Rest(poller.taken))
      /\ <<>> \o Reverse(poller.taken) = Reverse(poller.taken)
  BY <1>7
<1>9. Ahead' = Ahead
  BY <1>2, <1>4, <1>5, <1>8 DEF Ahead
<1>. QED BY <1>4, <1>9, Stutters DEF Unmoved, Pending, Batch, Deleting

\* Collecting a node changes nothing of the order.
LEMMA CollectImplements ==
  ASSUME QueueInv, QueueInv', CollectOne
  PROVE  UNCHANGED Fifo!vars
<1> DEFINE n == poller.cursor
<1>1. poller \in PollerType /\ Is("collect") /\ n # Null
  BY DEF QueueInv, TypeOK, CollectOne
<1>2. poller.cmds \in Seq(Nodes) /\ poller.turned \in Seq(Nodes) /\ poller.taken = <<>>
  BY <1>1 DEF QueueInv, Phases, PollerType, Is
<1>3. poller.turned # <<>> /\ n = poller.turned[1] /\ n \in Nodes
  BY <1>1, <1>2, LinkedEnd DEF QueueInv, Chains
<1>4. /\ poller'.cmds = Append(poller.cmds, n) /\ poller'.turned = Rest(poller.turned)
      /\ poller'.taken = poller.taken /\ poller'.pc = poller.pc
      /\ queued' = queued /\ item' = item /\ handled' = handled
  BY <1>1 DEF PollerType, CollectOne, memory, stack, Is
<1>5. Append(poller.cmds, n) \o Rest(poller.turned) = poller.cmds \o poller.turned
  BY <1>2, <1>3, CollectedAhead
<1>6. Reverse(<<>>) = <<>>
  BY DEF Reverse
<1>7. poller.cmds \o <<>> = poller.cmds /\ Append(poller.cmds, n) \o <<>> = Append(poller.cmds, n)
  BY <1>2, <1>3
<1>8. Ahead' = Ahead
  BY <1>2, <1>4, <1>5, <1>6, <1>7 DEF Ahead
<1>. QED BY <1>4, <1>8, Stutters DEF Unmoved, Pending, Batch, Deleting

\* Clearing a command executed changes none of the others.
LEMMA ReleaseImplements ==
  ASSUME QueueInv, QueueInv', ReleaseLoad
  PROVE  UNCHANGED Fifo!vars
<1> DEFINE n == poller.cursor
<1>1. poller \in PollerType /\ Is("reset")
  BY DEF QueueInv, TypeOK, ReleaseLoad
<1>2. n \in ToSet(Working)
  BY <1>1 DEF Is, Working, ToSet
<1>3. /\ Ahead \in Seq(Nodes) /\ Reverse(queued) \in Seq(Nodes)
      /\ n \notin ToSet(Ahead) /\ n \notin ToSet(Reverse(queued))
  BY <1>2, AheadApart
<1>4. \A m \in Nodes : m # n => item'[m] = item[m]
  BY DEF QueueInv, TypeOK, ReleaseLoad
<1>5. /\ Labels(item', Ahead) = Labels(item, Ahead)
      /\ Labels(item', Reverse(queued)) = Labels(item, Reverse(queued))
  BY <1>3, <1>4, LabelsElsewhere
<1>6. /\ poller'.cmds = poller.cmds /\ poller'.taken = poller.taken
      /\ poller'.turned = poller.turned /\ queued' = queued /\ handled' = handled
      /\ ~Deleting /\ ~Deleting'
  BY <1>1 DEF PollerType, ReleaseLoad, stack, Is, Deleting
<1>7. Ahead' = Ahead
  BY <1>6 DEF Ahead
<1>8. Pending' = Pending /\ Batch' = Batch
  BY <1>5, <1>6, <1>7 DEF Pending, Batch
<1>9. Deleting' = Deleting
  BY <1>1, <1>6 DEF PollerType, ReleaseLoad, Is, Deleting
<1>. QED BY <1>6, <1>8, <1>9, Stutters DEF Unmoved

\* Once Stop runs nothing is pending, and the deletions are not the interface's concern.
LEMMA DeletionStutters ==
  ASSUME QueueInv, QueueInv', Deleting, Deleting', handled' = handled
  PROVE  UNCHANGED Fifo!vars
<1>1. queued = <<>> /\ queued' = <<>>
  BY DEF QueueInv, Phases
<1>2. Reverse(<<>>) = <<>>
  BY DEF Reverse
<1>. QED BY <1>1, <1>2, NoLabels, Stutters DEF Unmoved, Pending, Batch

\* The steps of the polling thread.
LEMMA PollerImplements ==
  ASSUME QueueInv, QueueInv', ConsumerNext
  PROVE  Fifo!Next \/ UNCHANGED Fifo!vars
<1>1. poller \in PollerType
  BY DEF QueueInv, TypeOK
<1>2. CASE DeleteOne \/ DeleteFreeList \/ Stopped
  <2>1. Deleting /\ Deleting' /\ handled' = handled
    BY <1>1, <1>2 DEF PollerType, DeleteOne, DeleteFreeList, Stopped, Is, Deleting
  <2>. QED BY <2>1, DeletionStutters
<1>3. CASE \/ PollOnce \/ DrainWakeFd \/ Reversed \/ Collected \/ ReleasePush \/ ReleaseRetry
           \/ Processed \/ WaitWakes \/ WaitEnds
  <2>1. /\ poller'.cmds = poller.cmds /\ poller'.taken = poller.taken
        /\ poller'.turned = poller.turned /\ ~Deleting /\ ~Deleting'
    <3>1. CASE PollOnce
      BY <1>1, <3>1 DEF PollerType, PollOnce, Is, Deleting
    <3>2. CASE DrainWakeFd
      BY <1>1, <3>2 DEF PollerType, DrainWakeFd, Is, Deleting
    <3>3. CASE Reversed
      BY <1>1, <3>3 DEF PollerType, Reversed, Is, Deleting
    <3>4. CASE Collected
      BY <1>1, <3>4 DEF PollerType, Collected, Is, Deleting
    <3>5. CASE ReleasePush
      BY <1>1, <3>5 DEF PollerType, ReleasePush, Is, Deleting
    <3>6. CASE ReleaseRetry
      BY <1>1, <3>6 DEF PollerType, ReleaseRetry, Is, Deleting
    <3>7. CASE Processed
      BY <1>1, <3>7 DEF PollerType, Processed, Is, Deleting
    <3>8. CASE WaitWakes
      BY <1>1, <3>8 DEF PollerType, WaitWakes, Is, Deleting
    <3>9. CASE WaitEnds
      BY <1>1, <3>9 DEF PollerType, WaitEnds, Is, Deleting
    <3>. QED BY <1>3, <3>1, <3>2, <3>3, <3>4, <3>5, <3>6, <3>7, <3>8, <3>9
  <2>2. queued' = queued /\ item' = item /\ handled' = handled
    BY <1>3 DEF PollOnce, DrainWakeFd, Reversed, Collected, ReleasePush, ReleaseRetry,
                Processed, WaitWakes, WaitEnds, memory, stack
  <2>3. Ahead' = Ahead
    BY <2>1 DEF Ahead
  <2>4. Pending' = Pending /\ Batch' = Batch
    BY <2>1, <2>2, <2>3 DEF Pending, Batch
  <2>5. Deleting' = Deleting
    <3>1. Deleting = FALSE /\ Deleting' = FALSE
      BY <2>1 DEF Deleting
    <3>. QED BY <3>1
  <2>. QED BY <2>2, <2>4, <2>5, Stutters DEF Unmoved
<1>. QED
  BY <1>2, <1>3, DrainImplements, StopImplements, HandleImplements, ReverseImplements,
     CollectImplements, ReleaseImplements
  DEF ConsumerNext

\* With one thread that submits, the lock-free lists are a queue: the commands submitted are
\* executed once each, in the order of submission, batch by batch (network.cpp:298-318,
\* 516-561).
THEOREM QueueImplementsFifo ==
  ASSUME NEW p, Producers = {p}
  PROVE  Spec => ImplementsFifo
<1>1. Init => Fifo!Init
  <2> SUFFICES ASSUME Init PROVE Fifo!Init
    OBVIOUS
  <2>1. Reverse(<<>>) = <<>> /\ Items(<<>>) = <<>>
    BY DEF Reverse, Items
  <2>. QED BY <2>1 DEF Init, Fifo!Init, NewPoller, Deleting
<1>2. QueueInv /\ QueueInv' /\ [Next]_vars => [Fifo!Next]_(Fifo!vars)
  <2> SUFFICES ASSUME QueueInv, QueueInv', [Next]_vars PROVE Fifo!Next \/ UNCHANGED Fifo!vars
    OBVIOUS
  <2>1. CASE ProducerNext(p)
    BY <2>1, CallerImplements
  <2>2. CASE ConsumerNext
    BY <2>2, PollerImplements
  <2>3. CASE UNCHANGED vars
    BY <2>3, Stutters
    DEF Unmoved, Pending, Batch, Ahead, Deleting, vars, memory, stack
  <2>. QED BY <2>1, <2>2, <2>3 DEF Next, Terminated
<1>. QED BY <1>1, <1>2, QueueInvariant, PTL DEF Spec, ImplementsFifo, Fifo!Spec
=============================================================================
