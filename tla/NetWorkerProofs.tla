-------------------------- MODULE NetWorkerProofs ---------------------------
(***************************************************************************)
(* NetWorker for any number of descriptors, connections, sends and         *)
(* arrivals: its two maps agree with the kernel, no connection ends        *)
(* silently, every chunk is reported once and for its own connection, and  *)
(* the edge-triggered loop forgets nothing.                                *)
(***************************************************************************)
EXTENDS NetWorker, FiniteSetTheorems, TLAPS

USE NetAssumption

-----------------------------------------------------------------------------
(* The invariant *)

ConnType ==
  [fd : Fds, type : {"kTcp", "kUdp"}, state : {"kConnecting", "kConnected"}, pending : Nat,
   late : BOOLEAN]

SockType ==
  [owner : {"nobody", "worker", "other"}, link : {"none", "connecting", "up", "broken"},
   unread : Nat, eof : BOOLEAN, room : BOOLEAN, out : BOOLEAN, edge : BOOLEAN]

EventType == [fd : Fds, found : SUBSET {"hup", "in", "out"}]

LoopType ==
  [pc : {"off", "epoll", "eventfd", "owner", "commands", "create_failed", "timeouts", "wait",
         "events", "connect", "flush", "read", "timeouts_again", "stopped"},
   events : Seq(EventType), at : Ids \cup {0}, input : BOOLEAN]

CommandType == [type : {"kTcp", "kUdp", "kSend", "kClose"}, id : Ids]

\* Every variable the proofs are about keeps its type.
TypeOK ==
  /\ commands \in Seq(CommandType) /\ next_conn_id \in 1..(MaxConns + 1)
  /\ DOMAIN connections \subseteq Ids /\ \A id \in DOMAIN connections : connections[id] \in ConnType
  /\ DOMAIN fd_to_conn \subseteq Fds
  /\ sock \in [Fds -> SockType]
  /\ loop \in LoopType
  /\ errors \in [Ids -> Nat] /\ data \in [Ids -> Nat] /\ arrived \in [Ids -> Nat]
  /\ closed \subseteq Ids

\* The connection the worker is at exists, and events wait to be looked at only while it goes
\* through them.
AtConnection ==
  /\ loop.pc \in {"create_failed", "connect", "flush", "read"} => loop.at \in DOMAIN connections
  /\ loop.pc \notin {"events", "connect", "flush", "read"} => loop.events = <<>>

\* A connection that HandleCreate is about to give up has no socket.
GivenUp(id) == Is("create_failed") /\ id = loop.at

\* The descriptors of the map are the worker's, and lead to the connections that have them; a
\* socket that is not the worker's is not connected.
Maps ==
  /\ \A fd \in DOMAIN fd_to_conn :
       fd_to_conn[fd] \in DOMAIN connections /\ connections[fd_to_conn[fd]].fd = fd
  /\ \A id \in DOMAIN connections :
       IF GivenUp(id) THEN connections[id].fd \notin DOMAIN fd_to_conn
       ELSE connections[id].fd \in DOMAIN fd_to_conn /\ fd_to_conn[connections[id].fd] = id
  /\ \A fd \in Fds : sock[fd].owner = "worker" <=> fd \in DOMAIN fd_to_conn
  /\ \A fd \in Fds : sock[fd].owner # "worker" => sock[fd].link = "none"
  /\ Is("stopped") => own = {} /\ connections = Nothing

\* Nothing has become of a connection that was not created yet.
Unborn(id) == id \notin DOMAIN connections /\ errors[id] = 0 /\ data[id] = 0 /\ arrived[id] = 0

Creates(c) == c.type \in {"kTcp", "kUdp"}

\* No command for a connection is queued before the one that creates it.
Ordered(q) ==
  \A i \in 1..Len(q) : Creates(q[i]) => \A j \in 1..(i - 1) : q[j].id # q[i].id

\* The commands queued: what is yet to be created is unborn, what is to be closed was closed
\* by the owner.
Queued ==
  /\ Ordered(commands)
  /\ \A c \in ToSet(commands) :
       /\ c.id < next_conn_id
       /\ Creates(c) => Unborn(c.id)
       /\ c.type = "kClose" => c.id \in closed
  /\ \A id \in Ids : id >= next_conn_id => Unborn(id)

\* What a connection reported is what its socket has received and no longer holds.
Accounts ==
  \A id \in DOMAIN connections :
    /\ errors[id] = 0
    /\ ~GivenUp(id) => data[id] + sock[connections[id].fd].unread = arrived[id]

\* A connection asked for exists, is yet to be created, or its end is known to the owner.
Told ==
  \A id \in Ids : id < next_conn_id =>
    \/ id \in DOMAIN connections \/ errors[id] > 0 \/ id \in closed \/ Is("stopped")
    \/ \E c \in ToSet(commands) : c.id = id /\ Creates(c)

\* There is nothing to read from the socket, nothing that can be written to it.
InQuiet(s)     == s.unread = 0 /\ ~s.eof /\ s.link # "broken"
OutQuiet(s, n) == s.link = "up" /\ s.room => n = 0

\* A socket s with n chunks to send: if its edge is not set it is quiet, or the worker is at
\* its connection (at) or has events to look at (evs); what these events do not name, or the
\* worker that is about to read will not look at, is quiet.
Watched(s, n, evs, at, reading, input) ==
  /\ n > 0 => s.out
  /\ (s.edge \/ (InQuiet(s) /\ OutQuiet(s, n)) \/ evs # {} \/ at)
  /\ \A e \in evs : /\ ("in" \in e.found \/ s.edge \/ InQuiet(s))
                   /\ ("out" \in e.found \/ s.edge \/ OutQuiet(s, n))
  /\ (reading => (s.edge \/ OutQuiet(s, n)) /\ (input \/ s.edge \/ InQuiet(s)))

IsAt(id)     == loop.pc \in {"connect", "flush", "read"} /\ loop.at = id
EventsOf(fd) == {e \in ToSet(loop.events) : e.fd = fd}

WatchedConn(id) ==
  Watched(sock[connections[id].fd], connections[id].pending, EventsOf(connections[id].fd),
          IsAt(id), IsAt(id) /\ Is("read"), loop.input)

Edges == \A id \in DOMAIN connections : ~GivenUp(id) => WatchedConn(id)

\* The inductive invariant.
NetInv == TypeOK /\ AtConnection /\ Maps /\ Queued /\ Accounts /\ Told /\ Edges

-----------------------------------------------------------------------------
(* What keeps each part of the invariant *)

\* The map of descriptors is kept by a step that leaves it, the descriptors of the connections
\* and the ownership of sockets alone.
LEMMA MapsKept ==
  ASSUME Maps, fd_to_conn' = fd_to_conn,
         DOMAIN connections' = DOMAIN connections,
         \A id \in DOMAIN connections : connections'[id].fd = connections[id].fd,
         \A id : GivenUp(id)' <=> GivenUp(id),
         \A fd \in Fds : (sock'[fd].owner = "worker") <=> (sock[fd].owner = "worker"),
         \A fd \in Fds : sock'[fd].owner # "worker" => sock'[fd].link = "none",
         ~Is("stopped")' \/ (own' = own /\ connections' = connections /\ Is("stopped"))
  PROVE  Maps'
<1>1. \A fd \in DOMAIN fd_to_conn' :
        fd_to_conn'[fd] \in DOMAIN connections' /\ connections'[fd_to_conn'[fd]].fd = fd
  BY DEF Maps
<1>2. \A id \in DOMAIN connections' :
        IF GivenUp(id)' THEN connections'[id].fd \notin DOMAIN fd_to_conn'
        ELSE connections'[id].fd \in DOMAIN fd_to_conn' /\ fd_to_conn'[connections'[id].fd] = id
  BY DEF Maps
<1>3. \A fd \in Fds : sock'[fd].owner = "worker" <=> fd \in DOMAIN fd_to_conn'
  BY DEF Maps
<1>. QED BY <1>1, <1>2, <1>3 DEF Maps

\* The commands queued are commands.
LEMMA CommandsTyped ==
  ASSUME TypeOK
  PROVE  \A c \in ToSet(commands) : c \in CommandType /\ c.id \in Ids
<1>1. \A c \in ToSet(commands) : c \in CommandType
  BY DEF TypeOK, ToSet
<1>. QED BY <1>1 DEF CommandType

\* The queue is kept by a step that leaves it alone and touches no unborn connection.
LEMMA QueuedKept ==
  ASSUME TypeOK, Queued, UNCHANGED queue, closed \subseteq closed',
         \A id \in Ids : Unborn(id) => Unborn(id)'
  PROVE  Queued'
BY CommandsTyped DEF Queued, queue, Creates

\* A sequence is its head and its tail.
LEMMA HeadAndTail ==
  ASSUME NEW S, NEW q \in Seq(S), q # <<>>
  PROVE  /\ Head(q) \in S /\ Tail(q) \in Seq(S)
         /\ ToSet(q) = {Head(q)} \cup ToSet(Tail(q))
<1> DEFINE t == Tail(q)
<1>1. /\ Len(q) \in Nat \ {0} /\ DOMAIN q = 1..Len(q) /\ Head(q) = q[1] /\ Head(q) \in S
      /\ t \in Seq(S) /\ DOMAIN t = 1..(Len(q) - 1)
  OBVIOUS
<1>2. \A i \in 1..(Len(q) - 1) : t[i] = q[i + 1] /\ i + 1 \in 1..Len(q)
  OBVIOUS
<1> HIDE DEF t
<1>3. ToSet(t) \subseteq ToSet(q) /\ Head(q) \in ToSet(q)
  BY <1>1, <1>2 DEF ToSet
<1>4. ASSUME NEW i \in 1..Len(q) PROVE q[i] = Head(q) \/ q[i] \in ToSet(t)
  <2>1. CASE i = 1
    BY <1>1, <2>1
  <2>2. CASE i # 1
    <3>1. i - 1 \in 1..(Len(q) - 1) /\ (i - 1) + 1 = i
      BY <1>1, <2>2
    <3>. QED BY <1>1, <1>2, <3>1 DEF ToSet
  <2>. QED BY <2>1, <2>2
<1>5. ToSet(q) \subseteq {Head(q)} \cup ToSet(t)
  BY <1>1, <1>4 DEF ToSet
<1>. QED BY <1>1, <1>3, <1>5 DEF t

\* A command taken off the queue was the only one for what it creates.
LEMMA OrderedTail ==
  ASSUME NEW S, NEW q \in Seq(S), q # <<>>, Ordered(q)
  PROVE  /\ Ordered(Tail(q)) /\ ToSet(q) = {Head(q)} \cup ToSet(Tail(q))
         /\ \A c \in ToSet(Tail(q)) : Creates(c) => c.id # Head(q).id
<1> DEFINE t == Tail(q)
<1>1. /\ Len(q) \in Nat \ {0} /\ DOMAIN q = 1..Len(q) /\ Head(q) = q[1]
      /\ DOMAIN t = 1..(Len(q) - 1) /\ Len(t) = Len(q) - 1
  OBVIOUS
<1>2. \A i \in 1..(Len(q) - 1) : t[i] = q[i + 1] /\ i + 1 \in 1..Len(q)
  OBVIOUS
<1> HIDE DEF t
<1>3. ASSUME NEW i \in 1..Len(t), Creates(t[i])
      PROVE  t[i].id # Head(q).id /\ \A j \in 1..(i - 1) : t[j].id # t[i].id
  <2>1. t[i] = q[i + 1] /\ i + 1 \in 1..Len(q)
    BY <1>1, <1>2
  <2>2. \A k \in 1..i : q[k].id # t[i].id
    BY <1>3, <2>1 DEF Ordered
  <2>3. \A j \in 1..(i - 1) : t[j] = q[j + 1] /\ j + 1 \in 1..i
    BY <1>1, <1>2
  <2>. QED BY <1>1, <2>2, <2>3
<1>4. Ordered(t)
  BY <1>3 DEF Ordered
<1>5. \A c \in ToSet(t) : Creates(c) => c.id # Head(q).id
  BY <1>1, <1>3 DEF ToSet
<1>. QED BY <1>4, <1>5, HeadAndTail DEF t

\* A command queued last may create only what no other command is for.
LEMMA OrderedAppend ==
  ASSUME NEW S, NEW q \in Seq(S), NEW n \in S, Ordered(q),
         Creates(n) => \A c \in ToSet(q) : c.id # n.id
  PROVE  Ordered(Append(q, n)) /\ ToSet(Append(q, n)) = ToSet(q) \cup {n}
<1> DEFINE t == Append(q, n)
<1>1. /\ Len(q) \in Nat /\ DOMAIN q = 1..Len(q)
      /\ DOMAIN t = 1..(Len(q) + 1) /\ Len(t) = Len(q) + 1
  OBVIOUS
<1>2. t[Len(q) + 1] = n /\ \A i \in 1..Len(q) : t[i] = q[i]
  OBVIOUS
<1> HIDE DEF t
<1>3. Ordered(t)
  <2> SUFFICES ASSUME NEW i \in 1..(Len(q) + 1), Creates(t[i]), NEW j \in 1..(i - 1)
               PROVE  t[j].id # t[i].id
    BY <1>1 DEF Ordered
  <2>1. j \in 1..Len(q) /\ t[j] = q[j] /\ q[j] \in ToSet(q)
    BY <1>1, <1>2 DEF ToSet
  <2>2. CASE i = Len(q) + 1
    BY <1>2, <2>1, <2>2
  <2>3. CASE i \in 1..Len(q)
    BY <1>2, <2>1, <2>3 DEF Ordered
  <2>. QED BY <1>1, <2>2, <2>3
<1>4. ToSet(t) = ToSet(q) \cup {n}
  <2>1. \A i \in DOMAIN t : t[i] = n \/ t[i] \in ToSet(q)
    BY <1>1, <1>2 DEF ToSet
  <2>2. n \in ToSet(t) /\ \A i \in DOMAIN q : q[i] \in ToSet(t)
    BY <1>1, <1>2 DEF ToSet
  <2>. QED BY <2>1, <2>2 DEF ToSet
<1>. QED BY <1>3, <1>4 DEF t

\* The queue is kept by a step that takes a command and touches no other unborn connection.
LEMMA QueuedTail ==
  ASSUME TypeOK, Queued, commands # <<>>, commands' = Tail(commands),
         next_conn_id' = next_conn_id, closed \subseteq closed',
         \A id \in Ids : id # Head(commands).id /\ Unborn(id) => Unborn(id)'
  PROVE  Queued'
<1>1. /\ Ordered(Tail(commands)) /\ ToSet(commands) = {Head(commands)} \cup ToSet(Tail(commands))
      /\ \A c \in ToSet(Tail(commands)) : Creates(c) => c.id # Head(commands).id
  BY OrderedTail DEF TypeOK, Queued
<1>2. Head(commands).id < next_conn_id /\ Head(commands) \in CommandType
  BY <1>1 DEF TypeOK, Queued
<1>3. ASSUME NEW id \in Ids, id >= next_conn_id PROVE id # Head(commands).id
  <2>1. next_conn_id \in Int /\ id \in Int
    BY DEF TypeOK, Ids
  <2>. QED BY <1>2, <1>3, <2>1
<1>. QED BY <1>1, <1>2, <1>3, CommandsTyped DEF Queued, Creates

\* No connection ends silently in a step that keeps it, or reports its end.
LEMMA ToldKept ==
  ASSUME Told, next_conn_id' = next_conn_id, Is("stopped") => Is("stopped")',
         closed \subseteq closed',
         \A id \in Ids : errors[id] > 0 => errors'[id] > 0,
         \A id \in DOMAIN connections :
           id \in DOMAIN connections' \/ errors'[id] > 0 \/ id \in closed',
         \A c \in ToSet(commands) : Creates(c) =>
           c \in ToSet(commands') \/ c.id \in DOMAIN connections' \/ errors'[c.id] > 0
  PROVE  Told'
BY DEF Told, Creates

\* Two connections have not the same descriptor.
LEMMA OwnDescriptor ==
  ASSUME Maps, NEW id \in DOMAIN connections, ~GivenUp(id),
         NEW other \in DOMAIN connections, ~GivenUp(other), other # id
  PROVE  connections[other].fd # connections[id].fd
BY DEF Maps

\* A connection's socket is the worker's, and what has a connection is the worker's.
LEMMA OwnSocket ==
  ASSUME TypeOK, Maps
  PROVE  /\ \A id \in DOMAIN connections :
              /\ connections[id] \in ConnType /\ connections[id].fd \in Fds /\ id \in Ids
              /\ ~GivenUp(id) => sock[connections[id].fd].owner = "worker"
         /\ \A fd \in Fds : sock[fd].link # "none" =>
              /\ fd_to_conn[fd] \in DOMAIN connections /\ connections[fd_to_conn[fd]].fd = fd
              /\ ~GivenUp(fd_to_conn[fd])
<1>1. \A id \in DOMAIN connections : connections[id] \in ConnType /\ id \in Ids
  BY DEF TypeOK
<1>2. \A id \in DOMAIN connections : connections[id].fd \in Fds
  BY <1>1 DEF ConnType
<1>3. \A id \in DOMAIN connections : ~GivenUp(id) => sock[connections[id].fd].owner = "worker"
  BY <1>2 DEF Maps
<1>4. ASSUME NEW fd \in Fds, sock[fd].link # "none"
      PROVE  /\ fd_to_conn[fd] \in DOMAIN connections /\ connections[fd_to_conn[fd]].fd = fd
             /\ ~GivenUp(fd_to_conn[fd])
  <2>1. fd \in DOMAIN fd_to_conn
    BY <1>4 DEF Maps
  <2>. QED BY <2>1 DEF Maps
<1>. QED BY <1>1, <1>2, <1>3, <1>4

-----------------------------------------------------------------------------
(* The steps that only move the worker *)

\* The worker moves: its place keeps its type.
LEMMA LoopMoves ==
  ASSUME loop \in LoopType, NEW pc, GoTo(pc),
         pc \in {"off", "epoll", "eventfd", "owner", "commands", "create_failed", "timeouts",
                 "wait", "events", "connect", "flush", "read", "timeouts_again", "stopped"}
  PROVE  /\ loop' \in LoopType
         /\ loop'.pc = pc /\ loop'.events = loop.events /\ loop'.at = loop.at
         /\ loop'.input = loop.input
BY DEF LoopType, GoTo

\* The next event: the worker is at no connection.
LEMMA EventMoves ==
  ASSUME loop \in LoopType, NextEvent
  PROVE  /\ loop' \in LoopType
         /\ loop'.pc = "events" /\ loop'.events = loop.events /\ loop'.at = 0
BY DEF LoopType, NextEvent

\* The connections and their sockets are as they were, and still watched.
LEMMA OnlyMoves ==
  ASSUME NetInv, UNCHANGED <<queue, maps, sock, told, history>>, loop' \in LoopType,
         AtConnection', ~Is("create_failed"), ~Is("create_failed")', ~Is("stopped"),
         ~Is("stopped")', \A id \in DOMAIN connections : WatchedConn(id) => WatchedConn(id)'
  PROVE  NetInv'
<1> USE DEF queue, maps, told, history
<1>1. TypeOK'
  BY DEF NetInv, TypeOK
<1>2. Maps'
  BY DEF NetInv, Maps, GivenUp
<1>3. Queued'
  BY DEF NetInv, Queued, Unborn
<1>4. Accounts'
  BY DEF NetInv, Accounts, GivenUp
<1>5. Told'
  BY DEF NetInv, Told
<1>6. Edges'
  BY DEF NetInv, Edges, GivenUp
<1>. QED BY <1>1, <1>2, <1>3, <1>4, <1>5, <1>6 DEF NetInv

\* Between the events the worker is at no connection and has no events to look at.
LEMMA Elsewhere ==
  ASSUME NetInv, loop.pc \notin {"events", "connect", "flush", "read"},
         loop'.pc \notin {"events", "connect", "flush", "read"},
         loop'.events = loop.events, UNCHANGED <<connections, sock>>
  PROVE  \A id \in DOMAIN connections : WatchedConn(id) => WatchedConn(id)'
<1>1. \A id : ~IsAt(id) /\ ~IsAt(id)'
  BY DEF IsAt
<1>2. \A fd : EventsOf(fd)' = EventsOf(fd)
  BY DEF EventsOf
<1>. QED BY <1>1, <1>2 DEF WatchedConn, Watched

\* The steps of Start, and those of PollOnce between the events.
LEMMA MovesKeep ==
  NetInv /\ (CreateEpoll \/ CreateEventFd \/ RegisterWakeFd \/ PollOnce \/ CommandsDone
             \/ TimeoutsDone \/ EpollWaitFails) => NetInv'
<1> SUFFICES ASSUME NetInv, CreateEpoll \/ CreateEventFd \/ RegisterWakeFd \/ PollOnce
                            \/ CommandsDone \/ TimeoutsDone \/ EpollWaitFails
             PROVE  NetInv'
  OBVIOUS
<1>1. PICK pc \in {"epoll", "eventfd", "owner", "commands", "timeouts", "wait"} : GoTo(pc)
  BY DEF CreateEpoll, CreateEventFd, RegisterWakeFd, PollOnce, CommandsDone, TimeoutsDone,
         EpollWaitFails
<1>2. /\ UNCHANGED <<queue, maps, sock, told, history>>
      /\ loop.pc \in {"off", "epoll", "eventfd", "owner", "commands", "timeouts", "wait",
                      "timeouts_again"}
  BY DEF CreateEpoll, CreateEventFd, RegisterWakeFd, PollOnce, CommandsDone, TimeoutsDone,
         EpollWaitFails, Is
<1>3. loop \in LoopType /\ AtConnection
  BY DEF NetInv, TypeOK
<1>4. loop' \in LoopType /\ loop'.pc = pc /\ loop'.events = loop.events
  BY <1>1, <1>3, LoopMoves
<1>5. AtConnection'
  BY <1>2, <1>3, <1>4 DEF AtConnection
<1>6. \A id \in DOMAIN connections : WatchedConn(id) => WatchedConn(id)'
  BY <1>2, <1>4, Elsewhere DEF maps
<1>. QED BY <1>2, <1>4, <1>5, <1>6, OnlyMoves DEF Is

\* No event is left: no socket is waited for that an event was to wake.
LEMMA EventsDoneStep == NetInv /\ EventsDone => NetInv'
<1> SUFFICES ASSUME NetInv, EventsDone PROVE NetInv'
  OBVIOUS
<1>1. /\ UNCHANGED <<queue, maps, sock, told, history>> /\ GoTo("timeouts_again")
      /\ loop.pc = "events" /\ loop.events = <<>>
  BY DEF EventsDone, Is
<1>2. loop \in LoopType /\ AtConnection
  BY DEF NetInv, TypeOK
<1>3. loop' \in LoopType /\ loop'.pc = "timeouts_again" /\ loop'.events = loop.events
  BY <1>1, <1>2, LoopMoves
<1>4. AtConnection'
  BY <1>1, <1>3 DEF AtConnection
<1>5. \A id : ~IsAt(id) /\ ~IsAt(id)'
  BY <1>1, <1>3 DEF IsAt
<1>6. \A fd : EventsOf(fd)' = EventsOf(fd)
  BY <1>3 DEF EventsOf
<1>7. \A id \in DOMAIN connections : WatchedConn(id) => WatchedConn(id)'
  BY <1>1, <1>5, <1>6 DEF WatchedConn, Watched, maps
<1>. QED BY <1>1, <1>3, <1>4, <1>7, OnlyMoves DEF Is

\* The worker that does not read leaves no input behind: there is none, or its edge is set.
LEMMA NoInputStep == NetInv /\ NoInput => NetInv'
<1> SUFFICES ASSUME NetInv, NoInput PROVE NetInv'
  OBVIOUS
<1>1. /\ UNCHANGED <<queue, maps, sock, told, history>> /\ NextEvent
      /\ loop.pc = "read" /\ ~loop.input
  BY DEF NoInput, Is
<1>2. loop \in LoopType /\ AtConnection
  BY DEF NetInv, TypeOK
<1>3. loop' \in LoopType /\ loop'.pc = "events" /\ loop'.events = loop.events
  BY <1>1, <1>2, EventMoves
<1>4. AtConnection'
  BY <1>3 DEF AtConnection
<1>5. \A id : ~IsAt(id)'
  BY <1>3 DEF IsAt
<1>6. \A fd : EventsOf(fd)' = EventsOf(fd)
  BY <1>3 DEF EventsOf
<1>7. \A id \in DOMAIN connections : WatchedConn(id) => WatchedConn(id)'
  BY <1>1, <1>5, <1>6 DEF WatchedConn, Watched, maps, Is
<1>. QED BY <1>1, <1>3, <1>4, <1>7, OnlyMoves DEF Is

-----------------------------------------------------------------------------
(* The events *)

\* The event looked at: its connection, and the events left.
LEMMA EventLooked ==
  ASSUME NetInv, Looking
  PROVE  /\ Event \in EventType /\ Tail(loop.events) \in Seq(EventType)
         /\ ToSet(loop.events) = {Event} \cup ToSet(Tail(loop.events))
         /\ EvId \in DOMAIN connections /\ connections[EvId].fd = Event.fd /\ EvId # 0
         /\ loop.pc = "events" /\ loop \in LoopType
<1>1. loop \in LoopType /\ loop.events \in Seq(EventType) /\ loop.events # <<>>
      /\ loop.pc = "events"
  BY DEF NetInv, TypeOK, LoopType, Looking, Is
<1>2. /\ Event \in EventType /\ Tail(loop.events) \in Seq(EventType)
      /\ ToSet(loop.events) = {Event} \cup ToSet(Tail(loop.events))
  BY <1>1, HeadAndTail DEF Event
<1>3. EvId \in DOMAIN connections /\ connections[EvId].fd = Event.fd
  BY DEF NetInv, Maps, EvId, Looking
<1>4. EvId # 0
  BY <1>3 DEF NetInv, TypeOK, Ids
<1>. QED BY <1>1, <1>2, <1>3, <1>4

\* The worker at a connection looks at the rest of its event, and what the event does not name
\* is quiet.
LEMMA DispatchStep == NetInv /\ Dispatch => NetInv'
<1> SUFFICES ASSUME NetInv, Dispatch PROVE NetInv'
  OBVIOUS
<1> DEFINE pc == IF "out" \notin Event.found THEN "read"
                 ELSE IF connections[EvId].state = "kConnecting" THEN "connect" ELSE "flush"
<1>1. /\ Looking /\ UNCHANGED <<queue, maps, sock, told, history>> /\ LookAt(EvId, pc)
      /\ pc \in {"connect", "flush", "read"} /\ (pc = "read" <=> "out" \notin Event.found)
  BY DEF Dispatch
<1> HIDE DEF pc
<1>2. /\ Event \in EventType /\ Tail(loop.events) \in Seq(EventType)
      /\ ToSet(loop.events) = {Event} \cup ToSet(Tail(loop.events))
      /\ EvId \in DOMAIN connections /\ connections[EvId].fd = Event.fd /\ EvId # 0
      /\ loop.pc = "events" /\ loop \in LoopType
  BY <1>1, EventLooked
<1>3. EvId \in Ids
  BY <1>2 DEF NetInv, TypeOK
<1>4. /\ loop'.pc = pc /\ loop'.events = Tail(loop.events) /\ loop'.at = EvId
      /\ loop'.input = ("in" \in Event.found)
  BY <1>1 DEF LookAt
<1>5. loop' \in LoopType
  BY <1>1, <1>2, <1>3 DEF LoopType, LookAt
<1>6. AtConnection'
  BY <1>1, <1>2, <1>4 DEF AtConnection, maps
<1>7. ASSUME NEW id \in DOMAIN connections, WatchedConn(id) PROVE WatchedConn(id)'
  <2>1. ~IsAt(id)
    BY <1>2 DEF IsAt
  <2>2. ~Is("create_failed") /\ Maps /\ ~GivenUp(id) /\ ~GivenUp(EvId)
    BY <1>2 DEF NetInv, Is, GivenUp
  <2>3. UNCHANGED <<connections, sock>>
    BY <1>1 DEF maps
  <2>4. CASE id = EvId
    <3>1. IsAt(id)' /\ (Is("read")' <=> "out" \notin Event.found)
      BY <1>1, <1>4, <2>4 DEF IsAt, Is
    <3>2. \A fd : EventsOf(fd)' \subseteq EventsOf(fd)
      BY <1>2, <1>4 DEF EventsOf
    <3>3. Event \in EventsOf(connections[id].fd)
      BY <1>2, <2>4 DEF EventsOf
    <3>4. connections'[id] = connections[id] /\ sock' = sock
      BY <2>3
    <3>. QED BY <1>4, <1>7, <3>1, <3>2, <3>3, <3>4 DEF WatchedConn, Watched
  <2>5. CASE id # EvId
    <3>1. connections[id].fd # Event.fd
      BY <1>2, <2>2, <2>5, OwnDescriptor
    <3>2. EventsOf(connections[id].fd)' = EventsOf(connections[id].fd)
      BY <1>2, <1>4, <2>3, <3>1 DEF EventsOf
    <3>3. ~IsAt(id)'
      BY <1>4, <2>5 DEF IsAt
    <3>. QED BY <1>7, <2>1, <2>3, <3>2, <3>3 DEF WatchedConn, Watched
  <2>. QED BY <2>4, <2>5
<1>. QED BY <1>1, <1>2, <1>4, <1>5, <1>6, <1>7, OnlyMoves DEF Is

\* Every element is somewhere in an ordering of its set.
LEMMA AllOrdered ==
  ASSUME NEW S, IsFiniteSet(S), NEW order \in SetToSeqs(S)
  PROVE  /\ order \in Seq(S) /\ \A x \in S : \E i \in DOMAIN order : order[i] = x
         /\ \A i \in DOMAIN order : order[i] \in S
<1> DEFINE D == 1..Cardinality(S)
<1>1. Cardinality(S) \in Nat /\ IsFiniteSet(D) /\ Cardinality(D) = Cardinality(S)
  BY FS_CardinalityType, FS_Interval
<1>2. order \in [D -> S] /\ \A i, j \in D : i # j => order[i] # order[j]
  BY DEF SetToSeqs
<1>3. order \in Injection(D, S)
  BY <1>2 DEF Injection, IsInjective
<1>4. order \in Surjection(D, S)
  BY <1>1, <1>3, FS_Injection
<1>. QED BY <1>1, <1>2, <1>4 DEF Surjection

Cleared(s) == [s EXCEPT !.edge = FALSE]

\* A socket whose edge was reported is otherwise as it was.
LEMMA EdgeCleared ==
  ASSUME NEW s \in SockType
  PROVE  LET c == Cleared(s) IN
         /\ c \in SockType /\ c.owner = s.owner /\ c.link = s.link /\ c.unread = s.unread
         /\ c.out = s.out /\ ~c.edge /\ s.unread \in Nat /\ (InQuiet(c) <=> InQuiet(s))
         /\ \A n : OutQuiet(c, n) <=> OutQuiet(s, n)
BY DEF Cleared, SockType, InQuiet, OutQuiet

\* epoll_wait reports every socket whose edge is set, with all it finds: what it does not
\* report is quiet.
LEMMA EpollWaitStep == NetInv /\ EpollWait => NetInv'
<1> SUFFICES ASSUME NetInv, EpollWait PROVE NetInv'
  OBVIOUS
<1>1. PICK order \in SetToSeqs(Ready) :
        loop' = [loop EXCEPT !.pc = "events",
                             !.events = [i \in DOMAIN order |->
                                           [fd |-> order[i], found |-> Found(order[i])]]]
  BY DEF EpollWait
<1>2. /\ loop.pc = "wait" /\ UNCHANGED <<own, queue, maps, told, history>>
      /\ sock' = [fd \in Fds |-> [sock[fd] EXCEPT !.edge = FALSE]]
  BY DEF EpollWait, Is
<1>3. loop \in LoopType /\ TypeOK /\ Maps /\ Ready \subseteq Fds
  BY DEF NetInv, TypeOK, Ready
<1>4. /\ order \in Seq(Fds) /\ \A fd \in Ready : \E i \in DOMAIN order : order[i] = fd
      /\ \A i \in DOMAIN order : order[i] \in Ready
  <2>1. IsFiniteSet(Ready)
    BY <1>3, FS_Subset
  <2>. QED BY <1>3, <2>1, AllOrdered
<1> DEFINE evs == [i \in DOMAIN order |-> [fd |-> order[i], found |-> Found(order[i])]]
<1>5. evs \in Seq(EventType)
  <2>1. \A fd \in Fds : [fd |-> fd, found |-> Found(fd)] \in EventType
    BY DEF EventType, Found
  <2>2. /\ Len(order) \in Nat /\ DOMAIN order = 1..Len(order)
        /\ \A i \in 1..Len(order) : order[i] \in Fds
    BY <1>4
  <2>. QED BY <2>1, <2>2
<1>6. ToSet(evs) = {[fd |-> fd, found |-> Found(fd)] : fd \in Ready}
  BY <1>4 DEF ToSet
<1> HIDE DEF evs
<1>7. loop' \in LoopType /\ loop'.pc = "events" /\ loop'.events = evs
  BY <1>1, <1>3, <1>5 DEF LoopType, evs
<1>8. \A fd \in Fds : /\ sock[fd] \in SockType /\ sock'[fd] \in SockType
                      /\ sock'[fd] = Cleared(sock[fd])
  <2>. QED BY <1>2, <1>3, EdgeCleared DEF TypeOK, Cleared
<1>9. TypeOK'
  BY <1>2, <1>7, <1>8 DEF NetInv, TypeOK, queue, maps, told, history
<1>10. AtConnection'
  BY <1>7 DEF AtConnection
<1>11. ~Is("create_failed") /\ ~Is("create_failed")' /\ ~Is("stopped") /\ ~Is("stopped")'
  BY <1>2, <1>7 DEF Is
<1>12. \A fd \in Fds : sock'[fd].owner = sock[fd].owner /\ sock'[fd].link = sock[fd].link
                       /\ sock'[fd].unread = sock[fd].unread
  BY <1>8, EdgeCleared
<1>13. Maps'
  BY <1>2, <1>3, <1>9, <1>11, <1>12, MapsKept DEF maps, Maps, GivenUp
<1>14. Queued'
  BY <1>2 DEF NetInv, Queued, Unborn, queue, maps, told, history
<1>15. Accounts'
  BY <1>2, <1>3, <1>11, <1>12, OwnSocket DEF NetInv, Accounts, GivenUp, maps, told, history
<1>16. Told'
  BY <1>2, <1>11 DEF NetInv, Told, queue, maps, told, history
<1>17. ASSUME NEW id \in DOMAIN connections PROVE WatchedConn(id)'
  <2>0. PICK fd : fd = connections[id].fd
    OBVIOUS
  <2>1. /\ fd \in Fds /\ sock[fd].owner = "worker" /\ connections[id].pending \in Nat
        /\ fd_to_conn[fd] = id /\ WatchedConn(id)
    BY <1>3, <1>11, <2>0, OwnSocket DEF NetInv, Edges, GivenUp, Maps, ConnType
  <2>2. ~IsAt(id) /\ EventsOf(fd) = {} /\ ~IsAt(id)'
    BY <1>2, <1>7 DEF NetInv, AtConnection, IsAt, EventsOf, ToSet
  <2>3. /\ connections[id].pending > 0 => sock[fd].out
        /\ (sock[fd].edge \/ (InQuiet(sock[fd]) /\ OutQuiet(sock[fd], connections[id].pending)))
    BY <2>0, <2>1, <2>2 DEF WatchedConn, Watched
  <2>4. /\ EventsOf(fd)' \subseteq {[fd |-> fd, found |-> Found(fd)]}
        /\ sock[fd].edge /\ Found(fd) # {} => [fd |-> fd, found |-> Found(fd)] \in EventsOf(fd)'
    <3>1. fd \in Ready <=> sock[fd].edge /\ Found(fd) # {}
      BY <2>1 DEF Ready
    <3>. QED BY <1>6, <1>7, <3>1 DEF EventsOf
  <2>5. /\ sock[fd].unread > 0 \/ sock[fd].eof \/ sock[fd].link = "broken" => "in" \in Found(fd)
        /\ sock[fd].out /\ sock[fd].link = "up" /\ sock[fd].room => "out" \in Found(fd)
    BY DEF Found
  <2>6. /\ sock[fd].unread \in Nat
        /\ InQuiet(sock'[fd]) <=> InQuiet(sock[fd])
        /\ \A n : OutQuiet(sock'[fd], n) <=> OutQuiet(sock[fd], n)
        /\ sock'[fd].out = sock[fd].out
    <3>1. sock[fd] \in SockType /\ sock'[fd] = Cleared(sock[fd])
      BY <1>8, <2>1
    <3>. QED BY <3>1, EdgeCleared
  <2>7. /\ InQuiet(sock[fd]) \/ "in" \in Found(fd)
        /\ OutQuiet(sock[fd], connections[id].pending) \/ "out" \in Found(fd)
    BY <2>1, <2>3, <2>5, <2>6 DEF InQuiet, OutQuiet
  <2>8. connections'[id] = connections[id]
    BY <1>2 DEF maps
  <2>9. Watched(sock'[fd], connections[id].pending, EventsOf(fd)', FALSE, FALSE, loop'.input)
    BY <2>3, <2>4, <2>6, <2>7 DEF Watched
  <2>. QED BY <2>0, <2>2, <2>8, <2>9 DEF WatchedConn, Watched
<1>18. Edges'
  BY <1>2, <1>17 DEF Edges, maps
<1>. QED BY <1>9, <1>10, <1>13, <1>14, <1>15, <1>16, <1>18 DEF NetInv

-----------------------------------------------------------------------------
(* The steps that remove a connection *)

\* RemoveConnection takes the connection from both maps and closes its socket; every other
\* connection keeps its own.
LEMMA Removal ==
  ASSUME TypeOK, Maps, NEW id \in DOMAIN connections, NEW reported \in BOOLEAN,
         RemoveConnection(id, reported), Is("create_failed") => loop.at = id,
         ~Is("create_failed")', ~Is("stopped")'
  PROVE  /\ DOMAIN connections' = DOMAIN connections \ {id}
         /\ \A x \in DOMAIN connections' :
              /\ connections'[x] = connections[x]
              /\ connections[x].fd # connections[id].fd
              /\ sock'[connections[x].fd] = sock[connections[x].fd]
         /\ DOMAIN fd_to_conn' \subseteq Fds
         /\ sock' \in [Fds -> SockType]
         /\ errors' \in [Ids -> Nat] /\ \A x \in Ids : x # id => errors'[x] = errors[x]
         /\ \A x \in Ids : errors[x] > 0 => errors'[x] > 0
         /\ reported => errors'[id] > 0
         /\ Maps'
<1> DEFINE fd == connections[id].fd
<1>1. /\ connections' = Without(connections, id) /\ fd_to_conn' = Without(fd_to_conn, fd)
      /\ sock' = [sock EXCEPT ![fd] = Closed]
      /\ errors' = IF reported THEN [errors EXCEPT ![id] = @ + 1] ELSE errors
  BY DEF RemoveConnection, Forgotten, Unmapped, Reported
<1>2. id \in Ids /\ fd \in Fds
  BY OwnSocket
<1>3. /\ DOMAIN connections' = DOMAIN connections \ {id}
      /\ \A x \in DOMAIN connections' : connections'[x] = connections[x]
      /\ DOMAIN fd_to_conn' = DOMAIN fd_to_conn \ {fd}
      /\ \A g \in DOMAIN fd_to_conn' : fd_to_conn'[g] = fd_to_conn[g]
  BY <1>1 DEF Without
<1>4. \A x \in DOMAIN connections' :
        /\ x # id /\ connections[x].fd # fd /\ connections[x].fd \in DOMAIN fd_to_conn
        /\ fd_to_conn[connections[x].fd] = x
  BY <1>3 DEF Maps, GivenUp
<1>5. \A g \in DOMAIN fd_to_conn' :
        g # fd /\ fd_to_conn[g] \in DOMAIN connections' /\ connections[fd_to_conn[g]].fd = g
  BY <1>3 DEF Maps
<1>6. Closed \in SockType /\ Closed.owner = "nobody" /\ Closed.link = "none"
  BY DEF Closed, SockType
<1>7. sock' \in [Fds -> SockType] /\ \A g \in Fds : sock'[g] = IF g = fd THEN Closed ELSE sock[g]
  BY <1>1, <1>6 DEF TypeOK
<1> HIDE DEF fd
<1>8. Maps'
  <2>1. \A x \in DOMAIN connections' : ~GivenUp(x)'
    BY DEF GivenUp
  <2>2. \A g \in DOMAIN fd_to_conn' :
          fd_to_conn'[g] \in DOMAIN connections' /\ connections'[fd_to_conn'[g]].fd = g
    BY <1>3, <1>5
  <2>3. \A x \in DOMAIN connections' :
          connections'[x].fd \in DOMAIN fd_to_conn' /\ fd_to_conn'[connections'[x].fd] = x
    BY <1>3, <1>4
  <2>4. \A g \in Fds : sock'[g].owner = "worker" <=> g \in DOMAIN fd_to_conn'
    BY <1>3, <1>6, <1>7 DEF Maps
  <2>5. \A g \in Fds : sock'[g].owner # "worker" => sock'[g].link = "none"
    BY <1>6, <1>7 DEF Maps
  <2>. QED BY <2>1, <2>2, <2>3, <2>4, <2>5 DEF Maps
<1>9. /\ errors' \in [Ids -> Nat] /\ \A x \in Ids : x # id => errors'[x] = errors[x]
      /\ \A x \in Ids : errors[x] > 0 => errors'[x] > 0
      /\ reported => errors'[id] > 0
  BY <1>1, <1>2 DEF TypeOK
<1>10. \A x \in DOMAIN connections' : sock'[connections[x].fd] = sock[connections[x].fd]
  BY <1>3, <1>4, <1>7, OwnSocket
<1>. QED BY <1>3, <1>4, <1>7, <1>8, <1>9, <1>10 DEF TypeOK, fd

\* A removal that the owner asked for or is told of keeps the invariant, if the worker is at
\* none of the other connections and loses none of their events.
LEMMA RemovalKeeps ==
  ASSUME NetInv, NEW id \in DOMAIN connections, NEW reported \in BOOLEAN,
         RemoveConnection(id, reported), reported \/ id \in closed,
         Is("create_failed") => loop.at = id, ~Is("create_failed")', ~Is("stopped"),
         ~Is("stopped")', loop' \in LoopType, AtConnection',
         UNCHANGED <<next_conn_id, history>>,
         \/ commands' = commands
         \/ commands # <<>> /\ commands' = Tail(commands) /\ ~Creates(Head(commands)),
         data' \in [Ids -> Nat], \A x \in Ids : x # id => data'[x] = data[x],
         \A x : x # id => ~IsAt(x) /\ ~IsAt(x)',
         \A fd : fd # connections[id].fd => EventsOf(fd)' = EventsOf(fd)
  PROVE  NetInv'
<1>1. /\ DOMAIN connections' = DOMAIN connections \ {id}
      /\ \A x \in DOMAIN connections' :
           /\ connections'[x] = connections[x]
           /\ connections[x].fd # connections[id].fd
           /\ sock'[connections[x].fd] = sock[connections[x].fd]
      /\ DOMAIN fd_to_conn' \subseteq Fds
      /\ sock' \in [Fds -> SockType]
      /\ errors' \in [Ids -> Nat] /\ \A x \in Ids : x # id => errors'[x] = errors[x]
      /\ \A x \in Ids : errors[x] > 0 => errors'[x] > 0
      /\ reported => errors'[id] > 0
      /\ Maps'
  BY Removal DEF NetInv
<1>2. /\ TypeOK /\ Queued /\ DOMAIN connections \subseteq Ids /\ id \in Ids
      /\ commands \in Seq(CommandType)
      /\ arrived' = arrived /\ closed' = closed
  BY DEF NetInv, TypeOK, history
<1>3. \A x \in DOMAIN connections' : x # id /\ ~GivenUp(x) /\ ~GivenUp(x)' /\ x \in Ids
  BY <1>1, <1>2 DEF GivenUp
<1>4. commands' \in Seq(CommandType) /\ ToSet(commands') \subseteq ToSet(commands)
      /\ \A c \in ToSet(commands) : Creates(c) => c \in ToSet(commands')
  BY <1>2, HeadAndTail
<1>5. TypeOK'
  BY <1>1, <1>2, <1>4 DEF TypeOK, history
<1>6. Queued'
  <2>1. \A x \in Ids : Unborn(x) => Unborn(x)'
    BY <1>1, <1>2 DEF Unborn
  <2>. QED BY <1>2, <2>1, QueuedKept, QueuedTail DEF queue
<1>7. Accounts'
  <2>1. \A x \in DOMAIN connections' :
          errors[x] = 0 /\ data[x] + sock[connections[x].fd].unread = arrived[x]
    BY <1>1, <1>3 DEF NetInv, Accounts
  <2>. QED BY <1>1, <1>2, <1>3, <2>1 DEF Accounts
<1>8. Told'
  BY <1>1, <1>2, <1>4, ToldKept DEF NetInv
<1>9. ASSUME NEW x \in DOMAIN connections' PROVE WatchedConn(x)'
  <2>1. WatchedConn(x) /\ ~IsAt(x) /\ ~IsAt(x)'
    BY <1>1, <1>3 DEF NetInv, Edges
  <2>2. PICK fd : fd = connections[x].fd /\ fd # connections[id].fd
    BY <1>1
  <2>3. EventsOf(fd)' = EventsOf(fd)
    BY <2>2
  <2>4. connections'[x] = connections[x] /\ sock'[fd] = sock[fd]
    BY <1>1, <2>2
  <2>. QED BY <2>1, <2>2, <2>3, <2>4 DEF WatchedConn, Watched
<1>10. Edges'
  BY <1>9 DEF Edges
<1>. QED BY <1>1, <1>5, <1>6, <1>7, <1>8, <1>10 DEF NetInv

\* A create that failed is reported, and its connection forgotten.
LEMMA CreateRemovesStep == NetInv /\ CreateRemoves => NetInv'
<1> SUFFICES ASSUME NetInv, CreateRemoves PROVE NetInv'
  OBVIOUS
<1> DEFINE id == loop.at
<1>1. /\ RemoveConnection(loop.at, TRUE) /\ loop.pc = "create_failed"
      /\ loop' = [loop EXCEPT !.pc = "commands", !.at = 0]
      /\ UNCHANGED <<own, queue, data, history>>
  BY DEF CreateRemoves, Is
<1>2. loop \in LoopType /\ AtConnection /\ data \in [Ids -> Nat]
  BY DEF NetInv, TypeOK
<1>3. loop.at \in DOMAIN connections /\ loop.events = <<>>
  BY <1>1, <1>2 DEF AtConnection
<1>4. loop' \in LoopType /\ loop'.pc = "commands" /\ loop'.events = loop.events
  BY <1>1, <1>2 DEF LoopType
<1>5. AtConnection'
  BY <1>3, <1>4 DEF AtConnection
<1>6. \A x : ~IsAt(x) /\ ~IsAt(x)'
  BY <1>1, <1>4 DEF IsAt
<1>7. \A fd : EventsOf(fd)' = EventsOf(fd)
  BY <1>4 DEF EventsOf
<1>. QED BY <1>1, <1>2, <1>3, <1>4, <1>5, <1>6, <1>7, RemovalKeeps DEF Is, queue

\* A close of a connection that still exists removes it; of another, nothing happens.
LEMMA HandleCloseStep == NetInv /\ HandleClose => NetInv'
<1> SUFFICES ASSUME NetInv, HandleClose PROVE NetInv'
  OBVIOUS
<1>1. /\ loop.pc = "commands" /\ loop' = loop /\ commands # <<>> /\ commands' = Tail(commands)
      /\ Head(commands).type = "kClose" /\ UNCHANGED <<own, next_conn_id, data, history>>
  BY DEF HandleClose, Taking, Cmd, Is
<1>2. /\ loop \in LoopType /\ AtConnection /\ data \in [Ids -> Nat] /\ TypeOK /\ Queued
      /\ commands \in Seq(CommandType)
  BY DEF NetInv, TypeOK
<1>3. /\ ~Creates(Head(commands)) /\ Head(commands).id \in closed
      /\ Tail(commands) \in Seq(CommandType)
      /\ ToSet(commands) = {Head(commands)} \cup ToSet(Tail(commands))
  BY <1>1, <1>2, HeadAndTail DEF Queued, Creates
<1>4. loop' \in LoopType /\ AtConnection'
  BY <1>1, <1>2 DEF AtConnection, maps
<1>5. CASE Head(commands).id \in DOMAIN connections
  <2>1. RemoveConnection(Head(commands).id, FALSE)
    BY <1>5 DEF HandleClose, Cmd
  <2>2. AtConnection'
    BY <1>1, <1>2 DEF AtConnection
  <2>3. \A x : ~IsAt(x) /\ ~IsAt(x)'
    BY <1>1 DEF IsAt
  <2>4. \A fd : EventsOf(fd)' = EventsOf(fd)
    BY <1>1 DEF EventsOf
  <2>. QED BY <1>1, <1>2, <1>3, <1>4, <1>5, <2>1, <2>2, <2>3, <2>4, RemovalKeeps DEF Is
<1>6. CASE Head(commands).id \notin DOMAIN connections
  <2>1. UNCHANGED <<maps, sock, errors>>
    BY <1>6 DEF HandleClose, Cmd
  <2>2. UNCHANGED <<connections, fd_to_conn, sock, errors, data, arrived, closed, loop,
                    next_conn_id, own>>
    BY <1>1, <2>1 DEF maps, history
  <2>3. TypeOK'
    BY <1>1, <1>2, <1>3, <2>2 DEF TypeOK
  <2>4. Maps'
    BY <2>2 DEF NetInv, Maps, GivenUp, Is
  <2>5. Queued'
    BY <1>1, <1>2, <2>2, QueuedTail DEF Unborn
  <2>6. Accounts'
    BY <2>2 DEF NetInv, Accounts, GivenUp, Is
  <2>7. Told'
    BY <1>1, <1>3, <2>2, ToldKept DEF NetInv, Is
  <2>8. Edges'
    BY <2>2 DEF NetInv, Edges, GivenUp, Is, WatchedConn, IsAt, EventsOf
  <2>9. AtConnection'
    BY <1>2, <2>2 DEF AtConnection
  <2>. QED BY <2>3, <2>4, <2>5, <2>6, <2>7, <2>8, <2>9 DEF NetInv
<1>. QED BY <1>5, <1>6

\* A connect that took too long is reported.
LEMMA TimeOutStep == ASSUME NEW id \in Ids PROVE NetInv /\ TimeOut(id) => NetInv'
<1> SUFFICES ASSUME NetInv, TimeOut(id) PROVE NetInv'
  OBVIOUS
<1>1. /\ RemoveConnection(id, TRUE) /\ loop.pc \in {"timeouts", "timeouts_again"}
      /\ id \in DOMAIN connections /\ UNCHANGED <<own, queue, loop, data, history>>
  BY DEF TimeOut
<1>2. loop \in LoopType /\ AtConnection /\ data \in [Ids -> Nat]
  BY DEF NetInv, TypeOK
<1>3. AtConnection'
  BY <1>1, <1>2 DEF AtConnection
<1>4. \A x : ~IsAt(x) /\ ~IsAt(x)'
  BY <1>1 DEF IsAt
<1>5. \A fd : EventsOf(fd)' = EventsOf(fd)
  BY <1>1 DEF EventsOf
<1>. QED BY <1>1, <1>2, <1>3, <1>4, <1>5, RemovalKeeps DEF Is, queue

\* An event with an error removes its connection, and only its own event is gone.
LEMMA HangUpStep == NetInv /\ HangUp => NetInv'
<1> SUFFICES ASSUME NetInv, HangUp PROVE NetInv'
  OBVIOUS
<1>1. /\ Looking /\ RemoveConnection(EvId, TRUE) /\ loop' = [loop EXCEPT !.events = Tail(@)]
      /\ UNCHANGED <<own, queue, data, history>>
  BY DEF HangUp
<1>2. /\ Event \in EventType /\ Tail(loop.events) \in Seq(EventType)
      /\ ToSet(loop.events) = {Event} \cup ToSet(Tail(loop.events))
      /\ EvId \in DOMAIN connections /\ connections[EvId].fd = Event.fd /\ EvId # 0
      /\ loop.pc = "events" /\ loop \in LoopType
  BY <1>1, EventLooked
<1>3. loop' \in LoopType /\ loop'.pc = "events" /\ loop'.events = Tail(loop.events)
  BY <1>1, <1>2 DEF LoopType
<1>4. AtConnection' /\ data \in [Ids -> Nat]
  BY <1>3 DEF AtConnection, NetInv, TypeOK
<1>5. \A x : ~IsAt(x) /\ ~IsAt(x)'
  BY <1>2, <1>3 DEF IsAt
<1>6. \A fd : fd # connections[EvId].fd => EventsOf(fd)' = EventsOf(fd)
  BY <1>2, <1>3 DEF EventsOf
<1>. QED BY <1>1, <1>2, <1>3, <1>4, <1>5, <1>6, RemovalKeeps DEF Is, queue

\* The connection the worker is at ends.
LEMMA EndsHere ==
  NetInv /\ (ConnectRefused \/ FlushFails \/ DrainReadEnds) => NetInv'
<1> SUFFICES ASSUME NetInv, ConnectRefused \/ FlushFails \/ DrainReadEnds PROVE NetInv'
  OBVIOUS
<1>1. /\ RemoveConnection(loop.at, TRUE) /\ NextEvent /\ UNCHANGED <<own, queue, history>>
      /\ loop.pc \in {"connect", "flush", "read"}
  <2>1. CASE ConnectRefused \/ FlushFails
    <3>1. /\ RemoveConnection(loop.at, TRUE) /\ UNCHANGED <<own, queue, history>>
          /\ loop.pc \in {"connect", "flush", "read"}
      BY <2>1 DEF ConnectRefused, FlushFails, RemoveAndGoOn, Is
    <3>2. \A id \in ErasedId(loop.at) : id \notin DOMAIN connections'
      BY <3>1 DEF ErasedId, RemoveConnection, Forgotten, Without, NetInv, TypeOK, Ids
    <3>3. NextEvent
      BY <2>1, <3>2 DEF ConnectRefused, FlushFails, RemoveAndGoOn
    <3>. QED BY <3>1, <3>3
  <2>2. CASE DrainReadEnds
    BY <2>2 DEF DrainReadEnds, Is
  <2>. QED BY <2>1, <2>2
<1>2. /\ loop \in LoopType /\ AtConnection /\ data \in [Ids -> Nat] /\ TypeOK
      /\ loop.at \in DOMAIN connections
  BY <1>1 DEF NetInv, TypeOK, AtConnection
<1>3. loop' \in LoopType /\ loop'.pc = "events" /\ loop'.events = loop.events
  BY <1>1, <1>2, EventMoves
<1>4. AtConnection'
  BY <1>3 DEF AtConnection
<1>5. data' \in [Ids -> Nat] /\ \A x \in Ids : x # loop.at => data'[x] = data[x]
  <2>1. Sock.unread \in Nat /\ loop.at \in Ids
    <3>1. sock[Conn.fd] \in SockType /\ loop.at \in Ids
      BY <1>2 DEF Conn, ConnType, TypeOK
    <3>. QED BY <3>1 DEF Sock, SockType
  <2>2. \/ data' = data
        \/ \E n \in Nat : data' = [data EXCEPT ![loop.at] = @ + n]
    BY <2>1 DEF ConnectRefused, FlushFails, DrainReadEnds, Read
  <2>. QED BY <1>2, <2>1, <2>2
<1>6. \A x : x # loop.at => ~IsAt(x) /\ ~IsAt(x)'
  BY <1>3 DEF IsAt
<1>7. \A fd : EventsOf(fd)' = EventsOf(fd)
  BY <1>3 DEF EventsOf
<1>. QED BY <1>1, <1>2, <1>3, <1>4, <1>5, <1>6, <1>7, RemovalKeeps DEF Is, queue

-----------------------------------------------------------------------------
(* The owner's steps, and Stop *)

\* A command queued for a connection the owner has been given, or to create the next one.
LEMMA Queues ==
  ASSUME NetInv, NEW c \in CommandType, commands' = Append(commands, c),
         UNCHANGED <<own, maps, sock, loop, told, arrived>>,
         next_conn_id' \in 1..(MaxConns + 1), closed \subseteq closed', closed' \subseteq Ids,
         IF Creates(c) THEN c.id = next_conn_id /\ next_conn_id' = next_conn_id + 1
         ELSE c.id < next_conn_id /\ next_conn_id' = next_conn_id,
         c.type = "kClose" => c.id \in closed', ~Is("stopped")
  PROVE  NetInv'
<1>1. /\ UNCHANGED <<own, connections, fd_to_conn, sock, loop, errors, data, arrived>>
      /\ TypeOK /\ Queued /\ commands \in Seq(CommandType) /\ next_conn_id \in 1..(MaxConns + 1)
  BY DEF maps, told, NetInv, TypeOK
<1>0. next_conn_id \in Int /\ next_conn_id <= next_conn_id' /\ c.id \in Ids /\ Ids \subseteq Int
  BY <1>1 DEF CommandType, Ids
<1>2. /\ Ordered(commands') /\ ToSet(commands') = ToSet(commands) \cup {c}
  <2>1. Creates(c) => \A b \in ToSet(commands) : b.id # c.id
    BY <1>1, CommandsTyped DEF Queued
  <2>. QED BY <1>1, <2>1, OrderedAppend DEF Queued
<1>3. TypeOK'
  <2>1. commands' \in Seq(CommandType)
    BY <1>1
  <2>. QED BY <1>1, <2>1 DEF TypeOK
<1>4. AtConnection'
  BY <1>1 DEF NetInv, AtConnection
<1>5. Maps'
  BY <1>1 DEF NetInv, Maps, GivenUp, Is
<1>6. \A id \in Ids : Unborn(id)' <=> Unborn(id)
  BY <1>1 DEF Unborn
<1>7. Queued'
  <2>1. \A b \in ToSet(commands) :
          /\ b.id < next_conn_id'
          /\ Creates(b) => Unborn(b.id)'
          /\ b.type = "kClose" => b.id \in closed'
    <3> SUFFICES ASSUME NEW b \in ToSet(commands)
                 PROVE  /\ b.id < next_conn_id'
                        /\ Creates(b) => Unborn(b.id)'
                        /\ b.type = "kClose" => b.id \in closed'
      OBVIOUS
    <3>1. b.id \in Int /\ b.id < next_conn_id
      BY <1>1, <1>0, CommandsTyped DEF Queued
    <3>2. (Creates(b) => Unborn(b.id)) /\ (b.type = "kClose" => b.id \in closed)
      BY <1>1 DEF Queued
    <3>. QED BY <1>1, <1>0, <3>1, <3>2 DEF Unborn
  <2>2. c.id < next_conn_id' /\ (Creates(c) => Unborn(c.id)')
    BY <1>1, <1>0 DEF Queued, Unborn
  <2>3. \A id \in Ids : id >= next_conn_id' => Unborn(id)'
    BY <1>1, <1>0, <1>6 DEF Queued
  <2>. QED BY <1>2, <2>1, <2>2, <2>3 DEF Queued, Creates
<1>8. Accounts'
  BY <1>1 DEF NetInv, Accounts, GivenUp, Is
<1>9. Told'
  <2>1. \A id \in Ids : id < next_conn_id' => id < next_conn_id \/ (c.id = id /\ Creates(c))
    BY <1>1, <1>0
  <2>2. \A id \in Ids : id < next_conn_id =>
          \/ id \in DOMAIN connections' \/ errors'[id] > 0 \/ id \in closed' \/ Is("stopped")'
          \/ \E b \in ToSet(commands') : b.id = id /\ Creates(b)
    BY <1>1, <1>2 DEF NetInv, Told, Is
  <2>. QED BY <1>2, <2>1, <2>2 DEF Told, Creates
<1>10. Edges'
  BY <1>1 DEF NetInv, Edges, GivenUp, Is, WatchedConn, IsAt, EventsOf
<1>. QED BY <1>3, <1>4, <1>5, <1>7, <1>8, <1>9, <1>10 DEF NetInv

\* The owner asks for a connection with an id never given before.
LEMMA CreateConnectionStep ==
  ASSUME NEW type \in Types PROVE NetInv /\ CreateConnection(type) => NetInv'
<1> SUFFICES ASSUME NetInv, CreateConnection(type) PROVE NetInv'
  OBVIOUS
<1> DEFINE c == [type |-> type, id |-> next_conn_id]
<1>1. /\ next_conn_id' = next_conn_id + 1 /\ next_conn_id <= MaxConns
      /\ commands' = Append(commands, c)
      /\ UNCHANGED <<own, maps, sock, loop, told, arrived, closed>> /\ ~Is("stopped")
  BY DEF CreateConnection, Enqueue, Is, history
<1>2. next_conn_id \in 1..(MaxConns + 1) /\ closed \subseteq Ids
  BY DEF NetInv, TypeOK
<1>3. c \in CommandType /\ Creates(c) /\ c.id = next_conn_id /\ c.type # "kClose"
  BY <1>1, <1>2 DEF CommandType, Creates, Ids
<1>4. next_conn_id' \in 1..(MaxConns + 1)
  BY <1>1, <1>2
<1> HIDE DEF c
<1>. QED BY <1>1, <1>2, <1>3, <1>4, Queues

\* The owner sends on a connection it was given.
LEMMA SendStep == ASSUME NEW id \in Ids PROVE NetInv /\ Send(id) => NetInv'
<1> SUFFICES ASSUME NetInv, Send(id) PROVE NetInv'
  OBVIOUS
<1> DEFINE c == [type |-> "kSend", id |-> id]
<1>1. /\ id < next_conn_id /\ commands' = Append(commands, c)
      /\ UNCHANGED <<own, next_conn_id, maps, sock, loop, told, arrived, closed>> /\ ~Is("stopped")
  BY DEF Send, Known, Enqueue, Is
<1>2. next_conn_id \in 1..(MaxConns + 1) /\ closed \subseteq Ids
  BY DEF NetInv, TypeOK
<1>3. c \in CommandType /\ ~Creates(c) /\ c.id = id /\ c.type # "kClose"
  BY DEF CommandType, Creates
<1> HIDE DEF c
<1>. QED BY <1>1, <1>2, <1>3, Queues

\* The owner closes a connection it was given.
LEMMA CloseStep == ASSUME NEW id \in Ids PROVE NetInv /\ Close(id) => NetInv'
<1> SUFFICES ASSUME NetInv, Close(id) PROVE NetInv'
  OBVIOUS
<1> DEFINE c == [type |-> "kClose", id |-> id]
<1>1. /\ id < next_conn_id /\ commands' = Append(commands, c) /\ closed' = closed \cup {id}
      /\ UNCHANGED <<own, next_conn_id, maps, sock, loop, told, arrived>> /\ ~Is("stopped")
  BY DEF Close, Known, Enqueue, Is
<1>2. next_conn_id \in 1..(MaxConns + 1) /\ closed \subseteq Ids
  BY DEF NetInv, TypeOK
<1>3. c \in CommandType /\ ~Creates(c) /\ c.id = id
  BY DEF CommandType, Creates
<1> HIDE DEF c
<1>. QED BY <1>1, <1>2, <1>3, Queues

\* Stop leaves no connection, no command and no socket of the worker's.
LEMMA StopStep == NetInv /\ Stop => NetInv'
<1> SUFFICES ASSUME NetInv, Stop PROVE NetInv'
  OBVIOUS
<1>1. /\ loop.pc \in {"off", "epoll", "eventfd", "owner"} /\ GoTo("stopped")
      /\ connections' = Nothing /\ fd_to_conn' = Nothing /\ own' = {} /\ commands' = <<>>
      /\ UNCHANGED <<next_conn_id, errors, data, arrived, closed>>
      /\ sock' = [fd \in Fds |-> IF fd \in {connections[id].fd : id \in DOMAIN connections}
                                 THEN Closed ELSE sock[fd]]
  BY DEF Stop, ShutdownAll, told, history
<1>2. loop \in LoopType /\ AtConnection /\ TypeOK /\ Maps /\ Queued
  BY DEF NetInv, TypeOK
<1>3. loop' \in LoopType /\ loop'.pc = "stopped" /\ loop'.events = <<>>
  BY <1>1, <1>2, LoopMoves DEF AtConnection
<1>4. Closed \in SockType /\ Closed.owner = "nobody" /\ Closed.link = "none"
  BY DEF Closed, SockType
<1>5. /\ DOMAIN connections' = {} /\ DOMAIN fd_to_conn' = {} /\ ToSet(commands') = {}
      /\ Len(commands') = 0
  BY <1>1 DEF Nothing, ToSet
<1>6. sock' \in [Fds -> SockType]
  BY <1>1, <1>2, <1>4 DEF TypeOK
<1>7. TypeOK'
  BY <1>1, <1>2, <1>3, <1>5, <1>6 DEF TypeOK
<1>8. AtConnection'
  BY <1>3 DEF AtConnection
<1>9. ASSUME NEW fd \in Fds PROVE sock'[fd].owner # "worker" /\ sock'[fd].link = "none"
  <2>1. CASE fd \in {connections[id].fd : id \in DOMAIN connections}
    BY <1>1, <1>4, <2>1
  <2>2. CASE fd \notin {connections[id].fd : id \in DOMAIN connections}
    BY <1>1, <1>2, <2>2 DEF Maps
  <2>. QED BY <2>1, <2>2
<1>10. Maps'
  BY <1>1, <1>5, <1>9 DEF Maps
<1>11. Queued'
  BY <1>1, <1>2, <1>5 DEF Queued, Ordered, Unborn
<1>12. Accounts' /\ Edges'
  BY <1>5 DEF Accounts, Edges
<1>13. Told'
  BY <1>3 DEF Told, Is
<1>. QED BY <1>7, <1>8, <1>10, <1>11, <1>12, <1>13 DEF NetInv

-----------------------------------------------------------------------------
(* ProcessCommands *)

\* The command taken, and the queue it leaves.
LEMMA CommandTaken ==
  ASSUME NetInv, NEW types, Taking(types)
  PROVE  /\ loop.pc = "commands" /\ commands # <<>> /\ commands' = Tail(commands)
         /\ Cmd \in CommandType /\ Cmd.id \in Ids /\ Cmd.type \in types
         /\ commands' \in Seq(CommandType)
         /\ ToSet(commands) = {Cmd} \cup ToSet(commands')
         /\ Creates(Cmd) => Unborn(Cmd.id)
         /\ \A id : ~GivenUp(id) /\ ~IsAt(id)
         /\ \A fd : EventsOf(fd) = {}
         /\ TypeOK /\ AtConnection /\ Maps /\ Queued /\ loop \in LoopType
<1>1. /\ loop.pc = "commands" /\ commands # <<>> /\ commands' = Tail(commands)
      /\ Cmd.type \in types /\ TypeOK /\ AtConnection /\ Maps /\ Queued /\ loop \in LoopType
      /\ commands \in Seq(CommandType)
  BY DEF Taking, Is, NetInv, TypeOK
<1>2. /\ Cmd \in CommandType /\ commands' \in Seq(CommandType)
      /\ ToSet(commands) = {Cmd} \cup ToSet(commands')
  BY <1>1, HeadAndTail DEF Cmd
<1>3. Cmd.id \in Ids
  BY <1>2 DEF CommandType
<1>4. Creates(Cmd) => Unborn(Cmd.id)
  BY <1>1, <1>2 DEF Queued
<1>5. \A id : ~GivenUp(id) /\ ~IsAt(id)
  BY <1>1 DEF GivenUp, IsAt, Is
<1>6. \A fd : EventsOf(fd) = {}
  BY <1>1 DEF AtConnection, EventsOf, ToSet
<1>. QED BY <1>1, <1>2, <1>3, <1>4, <1>5, <1>6

\* A create that fails before there is a connection is reported.
LEMMA CreateFailsStep == NetInv /\ CreateFails => NetInv'
<1> SUFFICES ASSUME NetInv, CreateFails PROVE NetInv'
  OBVIOUS
<1>1. /\ Taking({"kTcp", "kUdp"}) /\ errors' = [errors EXCEPT ![Cmd.id] = @ + 1]
      /\ UNCHANGED <<own, next_conn_id, connections, fd_to_conn, sock, loop, data, arrived, closed>>
  BY DEF CreateFails, Reported, maps, history
<1>2. /\ commands # <<>> /\ commands' = Tail(commands) /\ Cmd.id \in Ids
      /\ commands' \in Seq(CommandType) /\ ToSet(commands) = {Cmd} \cup ToSet(commands')
      /\ Creates(Cmd) /\ Unborn(Cmd.id) /\ \A id : ~GivenUp(id) /\ ~IsAt(id)
      /\ TypeOK /\ Queued
  BY <1>1, CommandTaken DEF Creates
<1>3. /\ errors' \in [Ids -> Nat] /\ errors'[Cmd.id] > 0
      /\ \A id \in Ids : id # Cmd.id => errors'[id] = errors[id]
      /\ \A id \in Ids : errors[id] > 0 => errors'[id] > 0
  BY <1>1, <1>2 DEF TypeOK
<1>4. TypeOK'
  BY <1>1, <1>2, <1>3 DEF TypeOK
<1>5. AtConnection' /\ Maps'
  BY <1>1 DEF NetInv, AtConnection, Maps, GivenUp, Is
<1>6. Queued'
  BY <1>1, <1>2, <1>3, QueuedTail DEF Unborn, Cmd
<1>7. Accounts'
  <2>1. \A id \in DOMAIN connections : id # Cmd.id /\ id \in Ids
    BY <1>2 DEF Unborn, TypeOK
  <2>. QED BY <1>1, <1>3, <2>1 DEF NetInv, Accounts, GivenUp, Is
<1>8. Told'
  BY <1>1, <1>2, <1>3, ToldKept DEF NetInv, Is
<1>9. Edges'
  BY <1>1 DEF NetInv, Edges, GivenUp, Is, WatchedConn, IsAt, EventsOf
<1>. QED BY <1>4, <1>5, <1>6, <1>7, <1>8, <1>9 DEF NetInv

\* A connection is new, and everything else as it was.
LEMMA NewConnections ==
  ASSUME NetInv, NEW fd \in Fds, NEW state \in {"kConnecting", "kConnected"},
         Taking({"kTcp", "kUdp"}), sock[fd].owner = "nobody",
         connections' = With(connections, Cmd.id, NewConnection(fd, Cmd.type, state))
  PROVE  /\ DOMAIN connections' = DOMAIN connections \cup {Cmd.id}
         /\ Cmd.id \notin DOMAIN connections
         /\ \A id \in DOMAIN connections :
              connections'[id] = connections[id] /\ connections[id].fd # fd
         /\ connections'[Cmd.id] \in ConnType /\ connections'[Cmd.id].fd = fd
         /\ connections'[Cmd.id].pending = 0 /\ fd \notin DOMAIN fd_to_conn
<1>1. /\ Creates(Cmd) => Unborn(Cmd.id)
      /\ \A id : ~GivenUp(id)
      /\ TypeOK /\ Maps /\ Cmd.type \in {"kTcp", "kUdp"}
  BY CommandTaken
<1>2. Cmd.id \notin DOMAIN connections
  BY <1>1 DEF Creates, Unborn, Taking
<1>3. /\ DOMAIN connections' = DOMAIN connections \cup {Cmd.id}
      /\ \A id \in DOMAIN connections : connections'[id] = connections[id]
      /\ connections'[Cmd.id] = NewConnection(fd, Cmd.type, state)
  BY <1>2 DEF With
<1>4. fd \notin DOMAIN fd_to_conn
  BY <1>1 DEF Maps
<1>5. \A id \in DOMAIN connections : connections[id].fd # fd
  BY <1>1, <1>4 DEF Maps
<1>6. /\ NewConnection(fd, Cmd.type, state) \in ConnType
      /\ NewConnection(fd, Cmd.type, state).fd = fd
      /\ NewConnection(fd, Cmd.type, state).pending = 0
  BY <1>1 DEF NewConnection, ConnType
<1>. QED BY <1>2, <1>3, <1>4, <1>5, <1>6

\* The handler gave the descriptor back: the connection it leaves to RemoveConnection has none.
LEMMA CreateClosesSocketStep ==
  ASSUME NEW fd \in Fds PROVE NetInv /\ CreateClosesSocket(fd) => NetInv'
<1> SUFFICES ASSUME NetInv, CreateClosesSocket(fd) PROVE NetInv'
  OBVIOUS
<1>1. /\ Taking({"kTcp", "kUdp"}) /\ sock[fd].owner = "nobody"
      /\ loop' = [loop EXCEPT !.pc = "create_failed", !.at = Cmd.id]
      /\ UNCHANGED <<own, next_conn_id, fd_to_conn, sock, errors, data, arrived, closed>>
  BY DEF CreateClosesSocket, told, history
<1>2. PICK state \in {"kConnecting", "kConnected"} :
        connections' = With(connections, Cmd.id, NewConnection(fd, Cmd.type, state))
  BY DEF CreateClosesSocket
<1>3. /\ DOMAIN connections' = DOMAIN connections \cup {Cmd.id}
      /\ Cmd.id \notin DOMAIN connections
      /\ \A id \in DOMAIN connections :
           connections'[id] = connections[id] /\ connections[id].fd # fd
      /\ connections'[Cmd.id] \in ConnType /\ connections'[Cmd.id].fd = fd
      /\ fd \notin DOMAIN fd_to_conn
  BY <1>1, <1>2, NewConnections
<1>4. /\ loop.pc = "commands" /\ commands # <<>> /\ commands' = Tail(commands)
      /\ Cmd.id \in Ids /\ commands' \in Seq(CommandType)
      /\ ToSet(commands) = {Cmd} \cup ToSet(commands') /\ Creates(Cmd) /\ Unborn(Cmd.id)
      /\ \A id : ~GivenUp(id) /\ ~IsAt(id)
      /\ \A g : EventsOf(g) = {}
      /\ TypeOK /\ AtConnection /\ Maps /\ Queued /\ loop \in LoopType
  BY <1>1, CommandTaken DEF Creates
<1>5. /\ loop' \in LoopType /\ loop'.pc = "create_failed" /\ loop'.events = loop.events
      /\ loop'.at = Cmd.id
  BY <1>1, <1>4 DEF LoopType
<1>6. TypeOK'
  BY <1>1, <1>3, <1>4, <1>5 DEF TypeOK
<1>7. AtConnection'
  BY <1>3, <1>4, <1>5 DEF AtConnection
<1>8. \A id \in DOMAIN connections' : GivenUp(id)' <=> id = Cmd.id
  BY <1>5 DEF GivenUp, Is
<1>9. Maps'
  <2>1. \A g \in DOMAIN fd_to_conn' :
          fd_to_conn'[g] \in DOMAIN connections' /\ connections'[fd_to_conn'[g]].fd = g
    BY <1>1, <1>3, <1>4 DEF Maps
  <2>2. \A id \in DOMAIN connections' :
          IF id = Cmd.id THEN connections'[id].fd \notin DOMAIN fd_to_conn'
          ELSE connections'[id].fd \in DOMAIN fd_to_conn' /\ fd_to_conn'[connections'[id].fd] = id
    BY <1>1, <1>3, <1>4 DEF Maps
  <2>. QED BY <1>1, <1>4, <1>5, <1>8, <2>1, <2>2 DEF Maps, Is
<1>10. Queued'
  BY <1>1, <1>3, <1>4, QueuedTail DEF Unborn, Cmd
<1>11. Accounts'
  BY <1>1, <1>3, <1>4, <1>8 DEF NetInv, Accounts, Unborn
<1>12. Told'
  BY <1>1, <1>3, <1>4, <1>5, ToldKept DEF NetInv, Is
<1>13. \A g : EventsOf(g)' = {}
  BY <1>4, <1>5 DEF EventsOf
<1>14. Edges'
  <2>1. \A id : ~IsAt(id)'
    BY <1>5 DEF IsAt
  <2> SUFFICES ASSUME NEW id \in DOMAIN connections', ~GivenUp(id)' PROVE WatchedConn(id)'
    BY DEF Edges
  <2>2. id \in DOMAIN connections /\ connections'[id] = connections[id] /\ sock' = sock
    BY <1>1, <1>3, <1>8
  <2>3. WatchedConn(id)
    BY <1>4, <2>2 DEF NetInv, Edges
  <2>. QED BY <1>4, <1>13, <2>1, <2>2, <2>3 DEF WatchedConn, Watched
<1>. QED BY <1>6, <1>7, <1>9, <1>10, <1>11, <1>12, <1>14 DEF NetInv

\* A new connection has a socket of its own, empty and with its edge set.
LEMMA HandleCreateStep ==
  ASSUME NEW fd \in Fds PROVE NetInv /\ HandleCreate(fd) => NetInv'
<1> SUFFICES ASSUME NetInv, HandleCreate(fd) PROVE NetInv'
  OBVIOUS
<1>1. /\ Taking({"kTcp", "kUdp"}) /\ sock[fd].owner = "nobody"
      /\ fd_to_conn' = With(fd_to_conn, fd, Cmd.id)
      /\ UNCHANGED <<own, next_conn_id, loop, errors, data, arrived, closed>>
  BY DEF HandleCreate, told, history
<1>2. PICK link \in {"connecting", "up"} :
        /\ connections' = With(connections, Cmd.id, NewConnection(fd, Cmd.type,
                            IF link = "up" THEN "kConnected" ELSE "kConnecting"))
        /\ sock' = [sock EXCEPT ![fd] = [ModFdInEpoll(Closed, link = "connecting")
                                           EXCEPT !.owner = "worker", !.link = link]]
  BY DEF HandleCreate
<1> DEFINE s == [ModFdInEpoll(Closed, link = "connecting") EXCEPT !.owner = "worker", !.link = link]
<1>3. s \in SockType /\ s.owner = "worker" /\ s.unread = 0 /\ s.edge
  BY DEF ModFdInEpoll, Closed, SockType
<1>4. /\ DOMAIN connections' = DOMAIN connections \cup {Cmd.id}
      /\ Cmd.id \notin DOMAIN connections
      /\ \A id \in DOMAIN connections :
           connections'[id] = connections[id] /\ connections[id].fd # fd
      /\ connections'[Cmd.id] \in ConnType /\ connections'[Cmd.id].fd = fd
      /\ connections'[Cmd.id].pending = 0 /\ fd \notin DOMAIN fd_to_conn
  <2>1. (IF link = "up" THEN "kConnected" ELSE "kConnecting") \in {"kConnecting", "kConnected"}
    OBVIOUS
  <2>. QED BY <1>1, <1>2, <2>1, NewConnections
<1>5. /\ loop.pc = "commands" /\ commands # <<>> /\ commands' = Tail(commands)
      /\ Cmd.id \in Ids /\ commands' \in Seq(CommandType)
      /\ ToSet(commands) = {Cmd} \cup ToSet(commands') /\ Creates(Cmd) /\ Unborn(Cmd.id)
      /\ \A id : ~GivenUp(id) /\ ~IsAt(id)
      /\ TypeOK /\ AtConnection /\ Maps /\ Queued /\ loop \in LoopType
  BY <1>1, CommandTaken DEF Creates
<1>6. /\ DOMAIN fd_to_conn' = DOMAIN fd_to_conn \cup {fd} /\ fd_to_conn'[fd] = Cmd.id
      /\ \A g \in DOMAIN fd_to_conn : g # fd /\ fd_to_conn'[g] = fd_to_conn[g]
  BY <1>1, <1>4 DEF With
<1>7. /\ sock' \in [Fds -> SockType] /\ sock'[fd] = s
      /\ \A g \in Fds : g # fd => sock'[g] = sock[g]
  BY <1>2, <1>3, <1>5 DEF TypeOK
<1> HIDE DEF s
<1>8. TypeOK'
  BY <1>1, <1>4, <1>5, <1>6, <1>7 DEF TypeOK
<1>9. AtConnection'
  BY <1>1, <1>5 DEF AtConnection
<1>10. \A id : ~GivenUp(id)' /\ ~IsAt(id)'
  BY <1>1, <1>5 DEF GivenUp, IsAt, Is
<1>11. Maps'
  <2>1. \A g \in DOMAIN fd_to_conn' :
          fd_to_conn'[g] \in DOMAIN connections' /\ connections'[fd_to_conn'[g]].fd = g
    BY <1>4, <1>5, <1>6 DEF Maps
  <2>2. \A id \in DOMAIN connections' :
          connections'[id].fd \in DOMAIN fd_to_conn' /\ fd_to_conn'[connections'[id].fd] = id
    BY <1>4, <1>5, <1>6 DEF Maps
  <2>3. \A g \in Fds : sock'[g].owner = "worker" <=> g \in DOMAIN fd_to_conn'
    BY <1>3, <1>5, <1>6, <1>7 DEF Maps
  <2>4. \A g \in Fds : sock'[g].owner # "worker" => sock'[g].link = "none"
    BY <1>3, <1>5, <1>7 DEF Maps
  <2>. QED BY <1>1, <1>5, <1>10, <2>1, <2>2, <2>3, <2>4 DEF Maps, Is
<1>12. Queued'
  BY <1>1, <1>4, <1>5, QueuedTail DEF Unborn, Cmd
<1>13. Accounts'
  <2>1. \A id \in DOMAIN connections : sock'[connections[id].fd] = sock[connections[id].fd]
    BY <1>4, <1>5, <1>7, OwnSocket
  <2>. QED BY <1>1, <1>3, <1>4, <1>5, <1>7, <2>1 DEF NetInv, Accounts, Unborn
<1>14. Told'
  BY <1>1, <1>4, <1>5, ToldKept DEF NetInv, Is
<1>15. ASSUME NEW id \in DOMAIN connections' PROVE WatchedConn(id)'
  <2>1. CASE id = Cmd.id
    <3>1. sock'[connections'[id].fd] = s /\ connections'[id].pending = 0
      BY <1>4, <1>7, <2>1
    <3>. QED BY <1>3, <3>1 DEF WatchedConn, Watched
  <2>2. CASE id # Cmd.id
    <3>1. /\ id \in DOMAIN connections /\ connections'[id] = connections[id]
          /\ sock'[connections[id].fd] = sock[connections[id].fd]
      BY <1>4, <1>5, <1>7, <2>2, OwnSocket
    <3>2. WatchedConn(id)
      BY <1>5, <3>1 DEF NetInv, Edges
    <3>. QED BY <1>1, <3>1, <3>2 DEF WatchedConn, IsAt, Is, EventsOf
  <2>. QED BY <2>1, <2>2
<1>16. Edges'
  BY <1>15 DEF Edges
<1>. QED BY <1>8, <1>9, <1>11, <1>12, <1>13, <1>14, <1>16 DEF NetInv

-----------------------------------------------------------------------------
(* The steps that change a connection and its socket *)

\* Connection id becomes c and its socket s; nothing else changes.
Becomes(id, c, s) ==
  /\ DOMAIN connections' = DOMAIN connections /\ connections'[id] = c
  /\ \A x \in DOMAIN connections : x # id => connections'[x] = connections[x]
  /\ sock' = [sock EXCEPT ![connections[id].fd] = s]
  /\ c.fd = connections[id].fd /\ s.owner = "worker"
  /\ UNCHANGED <<own, fd_to_conn, errors, next_conn_id, closed>>

\* The worker moves at connection id, or does not move.
MovesAt(id) ==
  /\ loop' \in LoopType /\ AtConnection' /\ loop'.events = loop.events
  /\ ~GivenUp(id) /\ \A x : GivenUp(x)' <=> GivenUp(x)
  /\ ~Is("stopped")'
  /\ \A x : x # id => (IsAt(x)' <=> IsAt(x)) /\ (IsAt(x) => loop' = loop)

\* The chunks of connection id are accounted for.
Balances(id, s) ==
  /\ data' \in [Ids -> Nat] /\ arrived' \in [Ids -> Nat]
  /\ \A x \in Ids : x # id => data'[x] = data[x] /\ arrived'[x] = arrived[x]
  /\ data'[id] + s.unread = arrived'[id]

\* No command is taken, or one that creates nothing.
TakesNoCreate ==
  \/ commands' = commands
  \/ commands # <<>> /\ commands' = Tail(commands) /\ ~Creates(Head(commands))

WatchedNext(id, c, s) ==
  Watched(s, c.pending, EventsOf(c.fd), IsAt(id)', IsAt(id)' /\ Is("read")', loop'.input)

\* A step at one connection keeps the invariant if its account balances and its socket is
\* watched afterwards.
LEMMA SocketChanges ==
  ASSUME NetInv, NEW id \in DOMAIN connections, NEW c \in ConnType, NEW s \in SockType,
         Becomes(id, c, s), MovesAt(id), Balances(id, s), TakesNoCreate, WatchedNext(id, c, s)
  PROVE  NetInv'
<1> USE DEF Becomes, MovesAt, Balances, TakesNoCreate
<1>1. /\ TypeOK /\ Maps /\ Queued /\ commands \in Seq(CommandType)
      /\ DOMAIN connections \subseteq Ids /\ sock \in [Fds -> SockType]
      /\ connections[id].fd \in Fds /\ sock[connections[id].fd].owner = "worker"
  BY OwnSocket DEF NetInv, TypeOK
<1>2. /\ DOMAIN connections' = DOMAIN connections /\ connections'[id] = c
      /\ \A x \in DOMAIN connections : x # id => connections'[x] = connections[x]
      /\ \A x \in DOMAIN connections : connections'[x].fd = connections[x].fd
  OBVIOUS
<1>3. /\ sock' \in [Fds -> SockType] /\ sock'[c.fd] = s
      /\ \A fd \in Fds : fd # c.fd => sock'[fd] = sock[fd]
  BY <1>1
<1>4. /\ commands' \in Seq(CommandType) /\ ToSet(commands') \subseteq ToSet(commands)
      /\ \A b \in ToSet(commands) : Creates(b) => b \in ToSet(commands')
  <2>1. CASE commands' = commands
    BY <1>1, <2>1
  <2>2. CASE commands # <<>> /\ commands' = Tail(commands) /\ ~Creates(Head(commands))
    <3>1. /\ Tail(commands) \in Seq(CommandType)
          /\ ToSet(commands) = {Head(commands)} \cup ToSet(Tail(commands))
      BY <1>1, <2>2, HeadAndTail
    <3>. QED BY <2>2, <3>1
  <2>. QED BY <2>1, <2>2
<1>5. TypeOK'
  BY <1>1, <1>2, <1>3, <1>4 DEF TypeOK
<1>6. ASSUME NEW x \in DOMAIN connections, x # id
      PROVE  /\ sock'[connections[x].fd] = sock[connections[x].fd] \/ GivenUp(x)
             /\ connections'[x] = connections[x]
  BY <1>1, <1>2, <1>3, <1>6, OwnSocket, OwnDescriptor
<1>7. Maps'
  <2>1. \A fd \in Fds : sock'[fd].owner = "worker" <=> sock[fd].owner = "worker"
    BY <1>1, <1>3
  <2>2. \A fd \in Fds : sock'[fd].owner # "worker" => sock'[fd].link = "none"
    BY <1>1, <1>3 DEF Maps
  <2>. QED BY <1>1, <1>2, <1>5, <2>1, <2>2, MapsKept
<1>8. Queued'
  <2>1. \A x \in Ids : Unborn(x) => Unborn(x)'
    BY <1>2 DEF Unborn
  <2>. QED BY <1>1, <2>1, QueuedKept, QueuedTail DEF queue
<1>9. Accounts'
  <2> SUFFICES ASSUME NEW x \in DOMAIN connections
               PROVE  /\ errors'[x] = 0
                      /\ ~GivenUp(x) => data'[x] + sock'[connections'[x].fd].unread = arrived'[x]
    BY <1>2 DEF Accounts
  <2>1. errors'[x] = 0
    BY DEF NetInv, Accounts
  <2>2. CASE x = id
    BY <1>2, <1>3, <2>1, <2>2
  <2>3. CASE x # id
    <3>1. data'[x] = data[x] /\ arrived'[x] = arrived[x]
      BY <1>1, <2>3
    <3>2. ~GivenUp(x) => sock'[connections'[x].fd] = sock[connections[x].fd]
      BY <1>6, <2>3
    <3>3. ~GivenUp(x) => data[x] + sock[connections[x].fd].unread = arrived[x]
      BY DEF NetInv, Accounts
    <3>. QED BY <2>1, <3>1, <3>2, <3>3
  <2>. QED BY <2>2, <2>3
<1>10. Told'
  <2>1. ~Is("stopped")
    BY <1>1 DEF Maps, Nothing
  <2>. QED BY <1>2, <1>4, <2>1, ToldKept DEF NetInv
<1>11. \A fd : EventsOf(fd)' = EventsOf(fd)
  BY DEF EventsOf
<1>12. ASSUME NEW x \in DOMAIN connections', ~GivenUp(x)' PROVE WatchedConn(x)'
  <2>1. CASE x = id
    <3>1. sock'[connections'[x].fd] = s /\ connections'[x] = c
      BY <1>2, <1>3, <2>1
    <3>. QED BY <1>11, <2>1, <3>1 DEF WatchedConn, WatchedNext
  <2>2. CASE x # id
    <3>1. /\ x \in DOMAIN connections /\ connections'[x] = connections[x]
          /\ sock'[connections[x].fd] = sock[connections[x].fd] /\ WatchedConn(x)
      BY <1>2, <1>6, <1>12, <2>2 DEF NetInv, Edges
    <3>2. (IsAt(x)' <=> IsAt(x)) /\ (IsAt(x) => loop' = loop)
      BY <2>2
    <3>. QED BY <1>11, <3>1, <3>2 DEF WatchedConn, Watched, Is
  <2>. QED BY <2>1, <2>2
<1>13. Edges'
  BY <1>12 DEF Edges
<1>. QED BY <1>5, <1>7, <1>8, <1>9, <1>10, <1>13 DEF NetInv

\* The connection the worker is at, and its socket.
LEMMA ConnTyped ==
  ASSUME NetInv, loop.pc \in {"connect", "flush", "read"}
  PROVE  /\ loop.at \in DOMAIN connections /\ loop.at \in Ids /\ loop \in LoopType
         /\ Conn \in ConnType /\ Conn.fd \in Fds /\ Sock \in SockType /\ Sock.owner = "worker"
         /\ ~GivenUp(loop.at) /\ IsAt(loop.at) /\ WatchedConn(loop.at)
         /\ data[loop.at] + Sock.unread = arrived[loop.at]
         /\ data \in [Ids -> Nat] /\ arrived \in [Ids -> Nat]
<1>1. /\ loop.at \in DOMAIN connections /\ ~GivenUp(loop.at) /\ IsAt(loop.at) /\ TypeOK /\ Maps
      /\ sock \in [Fds -> SockType] /\ data \in [Ids -> Nat] /\ arrived \in [Ids -> Nat]
      /\ loop \in LoopType
  BY DEF NetInv, TypeOK, AtConnection, GivenUp, IsAt, Is
<1>2. /\ Conn \in ConnType /\ Conn.fd \in Fds /\ loop.at \in Ids /\ Sock.owner = "worker"
  BY <1>1, OwnSocket DEF Conn, Sock
<1>. QED BY <1>1, <1>2 DEF NetInv, Accounts, Edges, Conn, Sock

\* The handler goes on to the next part of the event, or is done with it.
LEMMA GoesOn ==
  ASSUME NetInv, loop.pc \in {"connect", "flush", "read"},
         (\E pc \in {"flush", "read"} : GoTo(pc)) \/ NextEvent,
         DOMAIN connections' = DOMAIN connections
  PROVE  MovesAt(loop.at)
<1>1. loop \in LoopType /\ loop.at \in DOMAIN connections
  BY ConnTyped
<1>2. /\ loop' \in LoopType /\ loop'.events = loop.events
      /\ \/ loop'.pc \in {"flush", "read"} /\ loop'.at = loop.at /\ ~NextEvent
         \/ loop'.pc = "events"
  <2>1. CASE NextEvent
    BY <1>1, <2>1, EventMoves
  <2>2. CASE ~NextEvent
    <3>1. PICK pc \in {"flush", "read"} : GoTo(pc)
      BY <2>2
    <3>. QED BY <1>1, <2>2, <3>1, LoopMoves
  <2>. QED BY <2>1, <2>2
<1>3. AtConnection'
  BY <1>1, <1>2 DEF AtConnection
<1>4. /\ \A x : ~GivenUp(x) /\ ~GivenUp(x)' /\ ~Is("stopped")'
      /\ \A x : x # loop.at => ~IsAt(x) /\ ~IsAt(x)'
  BY <1>2 DEF GivenUp, IsAt, Is, NextEvent
<1>. QED BY <1>2, <1>3, <1>4 DEF MovesAt

\* A socket whose registration is changed: its edge is set.
LEMMA Registered ==
  ASSUME NEW s \in SockType, NEW out \in BOOLEAN
  PROVE  LET r == ModFdInEpoll(s, out) IN
         /\ r \in SockType /\ r.owner = s.owner /\ r.unread = s.unread /\ r.out = out /\ r.edge
BY DEF ModFdInEpoll, SockType

\* EPOLLOUT is asked for if there is something to send.
LEMMA RegisteredFor ==
  ASSUME NEW s \in SockType, NEW n \in Nat
  PROVE  LET r == ModFdInEpoll(s, WantsOut(n)) IN
         /\ r \in SockType /\ r.owner = s.owner /\ r.unread = s.unread /\ r.edge
         /\ n > 0 => r.out
<1>1. CASE n > 0
  <2>1. WantsOut(n) = TRUE
    BY <1>1 DEF WantsOut
  <2>. QED BY <2>1, Registered
<1>2. CASE ~(n > 0)
  <2>1. WantsOut(n) = FALSE
    BY <1>2 DEF WantsOut
  <2>. QED BY <1>2, <2>1, Registered
<1>. QED BY <1>1, <1>2

\* A socket whose edge is set is watched after the step.
LEMMA EdgeWatchesNext ==
  ASSUME NEW id, NEW c, NEW s, s.edge, c.pending > 0 => s.out
  PROVE  WatchedNext(id, c, s)
BY DEF WatchedNext, Watched

\* A chunk to send is pending, and EPOLLOUT asked for.  A send to a connection that is gone is
\* reported.
LEMMA HandleSendStep == NetInv /\ HandleSend => NetInv'
<1> SUFFICES ASSUME NetInv, HandleSend PROVE NetInv'
  OBVIOUS
<1>1. /\ Taking({"kSend"})
      /\ UNCHANGED <<own, next_conn_id, fd_to_conn, loop, data, arrived, closed>>
  BY DEF HandleSend, history
<1>2. /\ loop.pc = "commands" /\ commands # <<>> /\ commands' = Tail(commands)
      /\ Cmd.id \in Ids /\ Cmd.type = "kSend" /\ commands' \in Seq(CommandType)
      /\ ToSet(commands) = {Cmd} \cup ToSet(commands')
      /\ \A id : ~GivenUp(id) /\ ~IsAt(id)
      /\ TypeOK /\ AtConnection /\ Maps /\ Queued /\ loop \in LoopType
  BY <1>1, CommandTaken
<1>3. ~Creates(Cmd) /\ ~Creates(Head(commands))
  BY <1>2 DEF Creates, Cmd
<1>4. ASSUME NEW id \in DOMAIN connections, id = Cmd.id PROVE NetInv'
  <2> DEFINE c == [connections[id] EXCEPT !.pending = @ + 1]
             s == ModFdInEpoll(sock[connections[id].fd], TRUE)
  <2>1. /\ connections' = [connections EXCEPT ![id] = c] /\ errors' = errors
        /\ sock' = [sock EXCEPT ![connections[id].fd] = s]
    BY <1>4 DEF HandleSend
  <2>2. /\ connections[id] \in ConnType /\ connections[id].fd \in Fds
        /\ sock[connections[id].fd] \in SockType /\ sock[connections[id].fd].owner = "worker"
        /\ data[id] + sock[connections[id].fd].unread = arrived[id]
        /\ data \in [Ids -> Nat] /\ arrived \in [Ids -> Nat]
    BY <1>2, OwnSocket DEF TypeOK, NetInv, Accounts
  <2>3. c \in ConnType /\ c.fd = connections[id].fd
    BY <2>2 DEF ConnType
  <2>4. /\ s \in SockType /\ s.owner = "worker" /\ s.edge /\ s.out
        /\ s.unread = sock[connections[id].fd].unread
    BY <2>2, Registered
  <2> HIDE DEF s, c
  <2>5. Becomes(id, c, s)
    BY <1>1, <2>1, <2>3, <2>4 DEF Becomes
  <2>6. MovesAt(id)
    <3>1. AtConnection' /\ loop' = loop
      BY <1>1, <1>2, <2>1 DEF AtConnection
    <3>. QED BY <1>2, <3>1 DEF MovesAt, GivenUp, IsAt, Is
  <2>7. Balances(id, s)
    BY <1>1, <2>2, <2>4 DEF Balances
  <2>8. TakesNoCreate
    BY <1>2, <1>3 DEF TakesNoCreate
  <2>. QED BY <2>3, <2>4, <2>5, <2>6, <2>7, <2>8, EdgeWatchesNext, SocketChanges
<1>5. CASE Cmd.id \notin DOMAIN connections
  <2>1. errors' = [errors EXCEPT ![Cmd.id] = @ + 1] /\ UNCHANGED <<connections, sock>>
    BY <1>5 DEF HandleSend, Reported
  <2>2. /\ errors' \in [Ids -> Nat] /\ errors'[Cmd.id] > 0
        /\ \A id \in Ids : id # Cmd.id => errors'[id] = errors[id]
        /\ \A id \in Ids : errors[id] > 0 => errors'[id] > 0
    BY <1>2, <2>1 DEF TypeOK
  <2>3. TypeOK'
    BY <1>1, <1>2, <2>1, <2>2 DEF TypeOK
  <2>4. AtConnection' /\ Maps'
    BY <1>1, <2>1 DEF NetInv, AtConnection, Maps, GivenUp, Is
  <2>5. Queued'
    BY <1>1, <1>2, <2>1, <2>2, QueuedTail DEF Unborn, Cmd
  <2>6. Accounts'
    <3>1. \A id \in DOMAIN connections : id # Cmd.id /\ id \in Ids
      BY <1>2, <1>5 DEF TypeOK
    <3>. QED BY <1>1, <2>1, <2>2, <3>1 DEF NetInv, Accounts, GivenUp, Is
  <2>7. Told'
    BY <1>1, <1>2, <1>3, <2>1, <2>2, ToldKept DEF NetInv, Is
  <2>8. Edges'
    BY <1>1, <2>1 DEF NetInv, Edges, GivenUp, Is, WatchedConn, IsAt, EventsOf
  <2>. QED BY <2>3, <2>4, <2>5, <2>6, <2>7, <2>8 DEF NetInv
<1>. QED BY <1>4, <1>5

\* The connect is done; what was queued meanwhile is asked to be written.
LEMMA CompleteTcpConnectStep == NetInv /\ CompleteTcpConnect => NetInv'
<1> SUFFICES ASSUME NetInv, CompleteTcpConnect PROVE NetInv'
  OBVIOUS
<1> DEFINE c == [Conn EXCEPT !.state = "kConnected"]
           s == ModFdInEpoll(Sock, WantsOut(Conn.pending))
<1>1. /\ loop.pc = "connect" /\ GoTo("flush")
      /\ connections' = [connections EXCEPT ![loop.at] = c]
      /\ sock' = [sock EXCEPT ![connections[loop.at].fd] = s]
      /\ UNCHANGED <<own, commands, next_conn_id, fd_to_conn, errors, data, arrived, closed>>
  BY DEF CompleteTcpConnect, Is, queue, told, history, Conn, Sock, WantsOut
<1>2. /\ loop.at \in DOMAIN connections /\ Conn \in ConnType /\ Sock \in SockType
      /\ Sock.owner = "worker" /\ data[loop.at] + Sock.unread = arrived[loop.at]
      /\ data \in [Ids -> Nat] /\ arrived \in [Ids -> Nat]
  BY <1>1, ConnTyped
<1>3. /\ c \in ConnType /\ c.fd = connections[loop.at].fd /\ c.pending = Conn.pending
      /\ Conn.pending \in Nat
  BY <1>2 DEF ConnType, Conn
<1>4. /\ s \in SockType /\ s.owner = "worker" /\ s.unread = Sock.unread /\ s.edge
      /\ c.pending > 0 => s.out
  BY <1>2, <1>3, RegisteredFor
<1> HIDE DEF c, s
<1>5. Becomes(loop.at, c, s)
  BY <1>1, <1>2, <1>3, <1>4 DEF Becomes
<1>6. MovesAt(loop.at)
  BY <1>1, <1>5, GoesOn DEF Becomes
<1>7. Balances(loop.at, s)
  BY <1>1, <1>2, <1>4 DEF Balances
<1>8. TakesNoCreate
  BY <1>1 DEF TakesNoCreate
<1>9. PICK id \in DOMAIN connections : id = loop.at
  BY <1>2
<1>. QED BY <1>3, <1>4, <1>5, <1>6, <1>7, <1>8, <1>9, EdgeWatchesNext, SocketChanges

\* What could be sent is sent; EPOLLOUT stays asked for while something is left.
LEMMA FlushWriteStep == NetInv /\ FlushWrite => NetInv'
<1> SUFFICES ASSUME NetInv, FlushWrite PROVE NetInv'
  OBVIOUS
<1>1. PICK left \in 0..Conn.pending :
        /\ connections' = [connections EXCEPT ![loop.at].pending = left]
        /\ sock' = [sock EXCEPT ![Conn.fd] =
             [ModFdInEpoll(Sock, WantsOut(left)) EXCEPT !.room = Sock.room /\ left = 0]]
  BY DEF FlushWrite
<1> DEFINE c == [Conn EXCEPT !.pending = left]
           r == ModFdInEpoll(Sock, WantsOut(left))
           s == [r EXCEPT !.room = Sock.room /\ left = 0]
<1>2. /\ loop.pc = "flush" /\ GoTo("read")
      /\ UNCHANGED <<own, commands, next_conn_id, fd_to_conn, errors, data, arrived, closed>>
  BY DEF FlushWrite, Is, queue, told, history
<1>3. /\ connections' = [connections EXCEPT ![loop.at] = c]
      /\ sock' = [sock EXCEPT ![connections[loop.at].fd] = s]
  <2>1. connections' = [connections EXCEPT ![loop.at] = c]
    BY <1>1 DEF Conn
  <2>2. sock' = [sock EXCEPT ![connections[loop.at].fd] = s]
    BY <1>1 DEF Conn, Sock
  <2>. QED BY <2>1, <2>2
<1>4. /\ loop.at \in DOMAIN connections /\ Conn \in ConnType /\ Sock \in SockType
      /\ Sock.owner = "worker" /\ data[loop.at] + Sock.unread = arrived[loop.at]
      /\ data \in [Ids -> Nat] /\ arrived \in [Ids -> Nat]
  BY <1>2, ConnTyped
<1>5. /\ c \in ConnType /\ c.fd = connections[loop.at].fd /\ c.pending = left /\ left \in Nat
  BY <1>4 DEF ConnType, Conn
<1>6. /\ r \in SockType /\ r.owner = "worker" /\ r.unread = Sock.unread /\ r.edge
      /\ left > 0 => r.out
  BY <1>4, <1>5, RegisteredFor
<1> HIDE DEF r
<1>7. /\ s \in SockType /\ s.owner = "worker" /\ s.unread = Sock.unread /\ s.edge
      /\ c.pending > 0 => s.out
  BY <1>5, <1>6 DEF SockType
<1> HIDE DEF c, s
<1>8. Becomes(loop.at, c, s)
  BY <1>2, <1>3, <1>4, <1>5, <1>7 DEF Becomes
<1>9. MovesAt(loop.at)
  BY <1>2, <1>8, GoesOn DEF Becomes
<1>10. Balances(loop.at, s)
  BY <1>2, <1>4, <1>7 DEF Balances
<1>11. TakesNoCreate
  BY <1>2 DEF TakesNoCreate
<1>12. PICK id \in DOMAIN connections : id = loop.at
  BY <1>4
<1>. QED BY <1>5, <1>7, <1>8, <1>9, <1>10, <1>11, <1>12, EdgeWatchesNext, SocketChanges

\* Nothing is left to send on a broken socket.
LEMMA NothingToFlushStep == NetInv /\ NothingToFlush => NetInv'
<1> SUFFICES ASSUME NetInv, NothingToFlush PROVE NetInv'
  OBVIOUS
<1> DEFINE s == ModFdInEpoll(Sock, FALSE)
<1>1. /\ loop.pc = "flush" /\ GoTo("read") /\ connections' = connections /\ Conn.pending = 0
      /\ sock' = [sock EXCEPT ![connections[loop.at].fd] = s]
      /\ UNCHANGED <<own, commands, next_conn_id, fd_to_conn, errors, data, arrived, closed>>
  BY DEF NothingToFlush, Is, queue, maps, told, history, Conn, Sock
<1>2. /\ loop.at \in DOMAIN connections /\ Conn \in ConnType /\ Sock \in SockType
      /\ Sock.owner = "worker" /\ data[loop.at] + Sock.unread = arrived[loop.at]
      /\ data \in [Ids -> Nat] /\ arrived \in [Ids -> Nat]
  BY <1>1, ConnTyped
<1>3. s \in SockType /\ s.owner = "worker" /\ s.unread = Sock.unread /\ s.edge
  BY <1>2, Registered
<1> HIDE DEF s
<1>4. PICK id \in DOMAIN connections : id = loop.at
  BY <1>2
<1>5. PICK c \in ConnType : c = Conn
  BY <1>2
<1>6. Becomes(id, c, s)
  BY <1>1, <1>3, <1>4, <1>5 DEF Becomes, Conn
<1>7. MovesAt(id)
  BY <1>1, <1>4, GoesOn
<1>8. Balances(id, s)
  BY <1>1, <1>2, <1>3, <1>4 DEF Balances
<1>9. TakesNoCreate
  BY <1>1 DEF TakesNoCreate
<1>10. WatchedNext(id, c, s)
  BY <1>1, <1>3, <1>5, EdgeWatchesNext
<1>. QED BY <1>3, <1>6, <1>7, <1>8, <1>9, <1>10, SocketChanges

\* recv reads all there is: the socket is empty, and its chunks are reported.
LEMMA DrainReadStep == NetInv /\ DrainRead => NetInv'
<1> SUFFICES ASSUME NetInv, DrainRead PROVE NetInv'
  OBVIOUS
<1> DEFINE s == [Sock EXCEPT !.unread = 0]
<1>1. /\ loop.pc = "read" /\ NextEvent /\ connections' = connections
      /\ Sock.link # "broken" /\ ~Sock.eof
      /\ sock' = [sock EXCEPT ![connections[loop.at].fd] = s]
      /\ data' = [data EXCEPT ![loop.at] = @ + Sock.unread]
      /\ UNCHANGED <<own, commands, next_conn_id, fd_to_conn, errors, arrived, closed>>
  BY DEF DrainRead, Is, queue, maps, history, Conn, Sock, Read
<1>2. /\ loop.at \in DOMAIN connections /\ loop.at \in Ids /\ Conn \in ConnType
      /\ Sock \in SockType /\ Sock.owner = "worker"
      /\ IsAt(loop.at) /\ WatchedConn(loop.at)
      /\ data[loop.at] + Sock.unread = arrived[loop.at]
      /\ data \in [Ids -> Nat] /\ arrived \in [Ids -> Nat]
  BY <1>1, ConnTyped
<1>3. /\ s \in SockType /\ s.owner = "worker" /\ s.unread = 0 /\ Sock.unread \in Nat
      /\ InQuiet(s) /\ s.edge = Sock.edge /\ s.out = Sock.out
      /\ \A n : OutQuiet(s, n) <=> OutQuiet(Sock, n)
  BY <1>1, <1>2 DEF SockType, InQuiet, OutQuiet
<1> HIDE DEF s
<1>4. PICK id \in DOMAIN connections : id = loop.at
  BY <1>2
<1>5. PICK c \in ConnType : c = Conn
  BY <1>2
<1>6. Becomes(id, c, s)
  BY <1>1, <1>3, <1>4, <1>5 DEF Becomes, Conn
<1>7. MovesAt(id) /\ ~IsAt(id)'
  <2>1. MovesAt(loop.at)
    BY <1>1, GoesOn
  <2>2. ~IsAt(id)'
    BY <1>1, <1>2 DEF IsAt, NextEvent, LoopType, NetInv, TypeOK
  <2>. QED BY <1>4, <2>1, <2>2
<1>8. Balances(id, s)
  BY <1>1, <1>2, <1>3, <1>4 DEF Balances
<1>9. TakesNoCreate
  BY <1>1 DEF TakesNoCreate
<1>10. WatchedNext(id, c, s)
  <2>1. /\ c.pending > 0 => Sock.out
        /\ Sock.edge \/ OutQuiet(Sock, c.pending)
        /\ \A e \in EventsOf(c.fd) : "out" \in e.found \/ Sock.edge \/ OutQuiet(Sock, c.pending)
    BY <1>1, <1>2, <1>5 DEF WatchedConn, Watched, Conn, Sock, Is
  <2>. QED BY <1>3, <1>7, <2>1 DEF WatchedNext, Watched
<1>. QED BY <1>3, <1>6, <1>7, <1>8, <1>9, <1>10, SocketChanges

-----------------------------------------------------------------------------
(* The kernel *)

\* Whatever happens to a socket sets its edge; a chunk that arrives is unread.
LEMMA KernelKeeps ==
  ASSUME NetInv, NEW fd \in Fds, sock[fd].link # "none", NEW s \in SockType,
         Happens(fd, s), s.owner = sock[fd].owner, s.out = sock[fd].out,
         \/ arrived' = arrived /\ s.unread = sock[fd].unread
         \/ /\ arrived' = [arrived EXCEPT ![fd_to_conn[fd]] = @ + 1]
            /\ s.unread = sock[fd].unread + 1
  PROVE  NetInv'
<1> DEFINE r == [s EXCEPT !.edge = TRUE]
<1>1. PICK id : id = fd_to_conn[fd]
  OBVIOUS
<1>2. TypeOK /\ Maps
  BY DEF NetInv
<1>3. /\ id \in DOMAIN connections /\ connections[id].fd = fd /\ ~GivenUp(id) /\ id \in Ids
      /\ connections[id] \in ConnType /\ sock[fd].owner = "worker" /\ sock[fd] \in SockType
      /\ data \in [Ids -> Nat] /\ arrived \in [Ids -> Nat]
  BY <1>1, <1>2, OwnSocket DEF TypeOK
<1>4. /\ sock' = [sock EXCEPT ![fd] = r]
      /\ UNCHANGED <<own, commands, next_conn_id, connections, fd_to_conn, loop, errors, data,
                     closed>>
  BY DEF Happens, queue, maps, told
<1>5. r \in SockType /\ r.owner = "worker" /\ r.edge /\ r.out = sock[fd].out /\ r.unread = s.unread
  BY <1>3 DEF SockType
<1> HIDE DEF r
<1>6. PICK c \in ConnType : c = connections[id]
  BY <1>3
<1>7. Becomes(id, c, r)
  BY <1>3, <1>4, <1>5, <1>6 DEF Becomes
<1>8. MovesAt(id)
  <2>1. AtConnection' /\ loop \in LoopType
    BY <1>4 DEF NetInv, AtConnection, TypeOK
  <2>2. ~Is("stopped")
    BY <1>2, <1>3 DEF Maps, Nothing
  <2>. QED BY <1>3, <1>4, <2>1, <2>2 DEF MovesAt, GivenUp, IsAt, Is
<1>9. Balances(id, r)
  <2>1. data[id] + sock[fd].unread = arrived[id]
    BY <1>3 DEF NetInv, Accounts
  <2>2. sock[fd].unread \in Nat
    BY <1>3 DEF SockType
  <2>3. CASE arrived' = arrived /\ s.unread = sock[fd].unread
    BY <1>3, <1>4, <1>5, <2>1, <2>3 DEF Balances
  <2>4. CASE arrived' = [arrived EXCEPT ![id] = @ + 1] /\ s.unread = sock[fd].unread + 1
    BY <1>3, <1>4, <1>5, <2>1, <2>2, <2>4 DEF Balances
  <2>. QED BY <1>1, <2>3, <2>4
<1>10. TakesNoCreate
  BY <1>4 DEF TakesNoCreate
<1>11. c.pending > 0 => r.out
  BY <1>3, <1>5, <1>6 DEF NetInv, Edges, WatchedConn, Watched
<1>. QED BY <1>3, <1>5, <1>7, <1>8, <1>9, <1>10, <1>11, EdgeWatchesNext, SocketChanges

\* What the kernel does to a connected socket.
LEMMA KernelStep ==
  ASSUME NEW fd \in Fds
  PROVE  NetInv /\ (Connects(fd) \/ Breaks(fd) \/ Arrives(fd) \/ Fin(fd) \/ Drains(fd)) => NetInv'
<1> SUFFICES ASSUME NetInv, Connects(fd) \/ Breaks(fd) \/ Arrives(fd) \/ Fin(fd) \/ Drains(fd)
             PROVE  NetInv'
  OBVIOUS
<1>1. sock[fd] \in SockType
  BY DEF NetInv, TypeOK
<1>2. CASE Connects(fd)
  <2>1. [sock[fd] EXCEPT !.link = "up"] \in SockType
    BY <1>1 DEF SockType
  <2>. QED BY <1>1, <1>2, <2>1, KernelKeeps DEF Connects, SockType
<1>3. CASE Breaks(fd)
  <2>1. [sock[fd] EXCEPT !.link = "broken"] \in SockType
    BY <1>1 DEF SockType
  <2>. QED BY <1>1, <1>3, <2>1, KernelKeeps DEF Breaks, SockType
<1>4. CASE Arrives(fd)
  <2>1. [sock[fd] EXCEPT !.unread = @ + 1] \in SockType
    BY <1>1 DEF SockType
  <2>. QED BY <1>1, <1>4, <2>1, KernelKeeps DEF Arrives, SockType
<1>5. CASE Fin(fd)
  <2>1. [sock[fd] EXCEPT !.eof = TRUE] \in SockType
    BY <1>1 DEF SockType
  <2>. QED BY <1>1, <1>5, <2>1, KernelKeeps DEF Fin, SockType
<1>6. CASE Drains(fd)
  <2>1. [sock[fd] EXCEPT !.room = TRUE] \in SockType
    BY <1>1 DEF SockType
  <2>. QED BY <1>1, <1>6, <2>1, KernelKeeps DEF Drains, SockType
<1>. QED BY <1>2, <1>3, <1>4, <1>5, <1>6

\* Another thread gets a descriptor that no connection has.
LEMMA OtherOpensStep == ASSUME NEW fd \in Fds PROVE NetInv /\ OtherOpens(fd) => NetInv'
<1> SUFFICES ASSUME NetInv, OtherOpens(fd) PROVE NetInv'
  OBVIOUS
<1> DEFINE s == [Closed EXCEPT !.owner = "other"]
<1>1. /\ sock[fd].owner = "nobody" /\ sock' = [sock EXCEPT ![fd] = s]
      /\ UNCHANGED <<own, commands, next_conn_id, connections, fd_to_conn, loop, errors, data,
                     arrived, closed>>
  BY DEF OtherOpens, queue, maps, told
<1>2. s \in SockType /\ s.owner = "other" /\ s.link = "none"
  BY DEF SockType, Closed
<1> HIDE DEF s
<1>3. TypeOK /\ Maps /\ sock \in [Fds -> SockType]
  BY DEF NetInv, TypeOK
<1>4. /\ sock' \in [Fds -> SockType] /\ sock'[fd] = s
      /\ \A g \in Fds : g # fd => sock'[g] = sock[g]
  BY <1>1, <1>2, <1>3
<1>5. TypeOK'
  BY <1>1, <1>3, <1>4 DEF TypeOK
<1>6. AtConnection'
  BY <1>1 DEF NetInv, AtConnection
<1>7. \A id : GivenUp(id)' <=> GivenUp(id)
  BY <1>1 DEF GivenUp, Is
<1>8. Maps'
  <2>1. \A g \in Fds : sock'[g].owner = "worker" <=> sock[g].owner = "worker"
    BY <1>1, <1>2, <1>4
  <2>2. \A g \in Fds : sock'[g].owner # "worker" => sock'[g].link = "none"
    BY <1>2, <1>3, <1>4 DEF Maps
  <2>. QED BY <1>1, <1>3, <1>7, <2>1, <2>2, MapsKept DEF Is
<1>9. Queued'
  BY <1>1 DEF NetInv, Queued, Unborn
<1>10. \A id \in DOMAIN connections : ~GivenUp(id) =>
         sock'[connections[id].fd] = sock[connections[id].fd]
  BY <1>1, <1>3, <1>4, OwnSocket
<1>11. Accounts'
  BY <1>1, <1>7, <1>10 DEF NetInv, Accounts
<1>12. Told'
  BY <1>1 DEF NetInv, Told, Is
<1>13. Edges'
  BY <1>1, <1>7, <1>10 DEF NetInv, Edges, WatchedConn, IsAt, Is, EventsOf
<1>. QED BY <1>5, <1>6, <1>8, <1>9, <1>11, <1>12, <1>13 DEF NetInv

\* Time passes for a connect.
LEMMA LateStep == ASSUME NEW id \in Ids PROVE NetInv /\ Late(id) => NetInv'
<1> SUFFICES ASSUME NetInv, Late(id) PROVE NetInv'
  OBVIOUS
<1>1. /\ id \in DOMAIN connections
      /\ connections' = [connections EXCEPT ![id] = [connections[id] EXCEPT !.late = TRUE]]
      /\ UNCHANGED <<own, commands, next_conn_id, fd_to_conn, sock, loop, errors, data, arrived,
                     closed>>
  BY DEF Late, queue, told, history
<1>2. TypeOK /\ Maps /\ \A x \in DOMAIN connections : connections[x] \in ConnType
  BY DEF NetInv, TypeOK
<1>3. /\ DOMAIN connections' = DOMAIN connections
      /\ \A x \in DOMAIN connections :
           /\ connections'[x] \in ConnType /\ connections'[x].fd = connections[x].fd
           /\ connections'[x].pending = connections[x].pending
  BY <1>1, <1>2 DEF ConnType
<1>4. TypeOK'
  BY <1>1, <1>2, <1>3 DEF TypeOK
<1>5. AtConnection'
  BY <1>1, <1>3 DEF NetInv, AtConnection
<1>6. \A x : GivenUp(x)' <=> GivenUp(x)
  BY <1>1 DEF GivenUp, Is
<1>7. ~Is("stopped") /\ ~Is("stopped")'
  BY <1>1, <1>2 DEF Maps, Nothing, Is
<1>8. Maps'
  <2>1. \A fd \in Fds : sock'[fd].owner # "worker" => sock'[fd].link = "none"
    BY <1>1, <1>2 DEF Maps
  <2>. QED BY <1>1, <1>2, <1>3, <1>6, <1>7, <2>1, MapsKept
<1>9. Queued'
  <2>1. \A x \in Ids : Unborn(x) => Unborn(x)'
    BY <1>1, <1>3 DEF Unborn
  <2>. QED BY <1>1, <1>2, <2>1, QueuedKept DEF NetInv, queue
<1>10. Accounts'
  BY <1>1, <1>3, <1>6 DEF NetInv, Accounts
<1>11. Told'
  BY <1>1, <1>3 DEF NetInv, Told, Is
<1>12. Edges'
  <2>1. \A fd : EventsOf(fd)' = EventsOf(fd)
    BY <1>1 DEF EventsOf
  <2>. QED BY <1>1, <1>3, <1>6, <2>1 DEF NetInv, Edges, WatchedConn, IsAt, Is
<1>. QED BY <1>4, <1>5, <1>8, <1>9, <1>10, <1>11, <1>12 DEF NetInv

-----------------------------------------------------------------------------
(* The theorems *)

\* The invariant holds at first ...
LEMMA NetInit == Init => NetInv
<1> SUFFICES ASSUME Init PROVE NetInv
  OBVIOUS
<1> USE DEF Init, Nothing
<1>1. Closed \in SockType /\ Closed.owner = "nobody" /\ Closed.link = "none"
  BY DEF Closed, SockType
<1>2. TypeOK
  <2>1. commands \in Seq(CommandType) /\ next_conn_id \in 1..(MaxConns + 1)
    OBVIOUS
  <2>2. loop \in LoopType
    BY DEF LoopType
  <2>. QED BY <1>1, <2>1, <2>2 DEF TypeOK
<1>3. AtConnection /\ Maps
  BY <1>1 DEF AtConnection, Maps, Is
<1>4. Queued
  BY DEF Queued, Ordered, ToSet, Unborn, Ids
<1>5. Accounts /\ Edges
  BY DEF Accounts, Edges
<1>6. Told
  BY DEF Told, Ids
<1>. QED BY <1>2, <1>3, <1>4, <1>5, <1>6 DEF NetInv

\* ... when nothing changes ...
LEMMA NetStutters == NetInv /\ UNCHANGED vars => NetInv'
<1> SUFFICES ASSUME NetInv, UNCHANGED vars PROVE NetInv'
  OBVIOUS
<1> USE DEF vars, queue, maps, told, history
<1>1. TypeOK' /\ AtConnection'
  BY DEF NetInv, TypeOK, AtConnection
<1>2. Maps' /\ Accounts' /\ Told'
  BY DEF NetInv, Maps, Accounts, Told, GivenUp, Is
<1>3. Queued'
  BY DEF NetInv, Queued, Unborn
<1>4. Edges'
  BY DEF NetInv, Edges, GivenUp, Is, WatchedConn, IsAt, EventsOf
<1>. QED BY <1>1, <1>2, <1>3, <1>4 DEF NetInv

\* ... and after every step.
LEMMA NetStep == NetInv /\ [Next]_vars => NetInv'
<1> SUFFICES ASSUME NetInv, [Next]_vars PROVE NetInv'
  OBVIOUS
<1>1. CASE OwnerNext
  BY <1>1, MovesKeep, StopStep, CreateConnectionStep, SendStep, CloseStep DEF OwnerNext
<1>2. CASE LoopNext
  BY <1>2, MovesKeep, EventsDoneStep, NoInputStep, DispatchStep, EpollWaitStep, CreateFailsStep,
     CreateClosesSocketStep, CreateRemovesStep, HandleCreateStep, HandleSendStep,
     HandleCloseStep, TimeOutStep, HangUpStep, EndsHere, CompleteTcpConnectStep,
     FlushWriteStep, NothingToFlushStep, DrainReadStep DEF LoopNext
<1>3. CASE KernelNext
  BY <1>3, KernelStep, OtherOpensStep, LateStep DEF KernelNext
<1>4. CASE Terminated \/ UNCHANGED vars
  BY <1>4, NetStutters DEF Terminated
<1>. QED BY <1>1, <1>2, <1>3, <1>4 DEF Next

\* The invariant holds, for any number of descriptors, connections, sends and arrivals
\* (network.cpp:208-708).
THEOREM NetInvariant == Spec => []NetInv
BY NetInit, NetStep, PTL DEF Spec

\* The two maps and the kernel agree through every failure half way, whatever descriptors are
\* reused and whatever other threads open, and PollOnce works on no connection that has been
\* removed (network.cpp:208-276, 349-488, 690-706).
THEOREM MapsStayAgreed == Spec => []MapsAgree
<1>1. NetInv => MapsAgree
  <2> SUFFICES ASSUME NetInv PROVE MapsAgree
    OBVIOUS
  <2>1. ~Is("create_failed") => \A id : ~GivenUp(id)
    BY DEF GivenUp
  <2>2. {fd \in Fds : sock[fd].owner = "worker"} = DOMAIN fd_to_conn
    BY DEF NetInv, TypeOK, Maps
  <2>. QED BY <2>1, <2>2 DEF NetInv, AtConnection, Maps, MapsAgree
<1>. QED BY <1>1, NetInvariant, PTL

\* No connection that was asked for disappears without the owner knowing
\* (network.cpp:349-370, 490-499; engine.cpp:272-308).
THEOREM EndsAreTold == Spec => []NoSilentEnd
<1>1. NetInv => NoSilentEnd
  <2> SUFFICES ASSUME NetInv, NEW id \in 1..(next_conn_id - 1)
               PROVE  \/ id \in DOMAIN connections \/ errors[id] > 0 \/ id \in closed
                      \/ Is("stopped")
                      \/ \E i \in DOMAIN commands :
                           commands[i].id = id /\ commands[i].type \in {"kTcp", "kUdp"}
    BY DEF NoSilentEnd
  <2>1. id \in Ids /\ id < next_conn_id
    BY DEF NetInv, TypeOK, Ids
  <2>2. CASE \E c \in ToSet(commands) : c.id = id /\ Creates(c)
    BY <2>2 DEF ToSet, Creates
  <2>. QED BY <2>1, <2>2 DEF NetInv, Told
<1>. QED BY <1>1, NetInvariant, PTL

\* What a connection reports is what arrived on its own socket, each chunk once
\* (network.cpp:668-707).
THEOREM ChunksReportedOnce == Spec => []ChunksAttributed
<1>1. NetInv => ChunksAttributed
  <2>1. Maps => \A id \in DOMAIN connections :
          connections[id].fd \in DOMAIN fd_to_conn => ~GivenUp(id)
    BY DEF Maps
  <2>. QED BY <2>1 DEF NetInv, Accounts, ChunksAttributed
<1>. QED BY <1>1, NetInvariant, PTL

\* The edge-triggered loop goes to wait only when every socket that is not quiet has its edge
\* set (network.cpp:329-347, 505-509, 538-597).
THEOREM EdgesNotForgotten == Spec => []NothingForgotten
<1>1. NetInv => NothingForgotten
  <2> SUFFICES ASSUME NetInv, Is("wait"), NEW id \in DOMAIN connections
               PROVE  LET s == sock[connections[id].fd] IN
                      \/ s.edge
                      \/ /\ s.unread = 0 /\ ~s.eof /\ s.link # "broken"
                         /\ s.link = "up" /\ s.room => connections[id].pending = 0
    BY DEF NothingForgotten
  <2>1. ~GivenUp(id) /\ ~IsAt(id)
    BY DEF GivenUp, IsAt, Is
  <2>2. \A fd : EventsOf(fd) = {}
    BY DEF NetInv, AtConnection, EventsOf, ToSet, Is
  <2>. QED BY <2>1, <2>2 DEF NetInv, Edges, WatchedConn, Watched, InQuiet, OutQuiet
<1>. QED BY <1>1, NetInvariant, PTL

\* Only reading from the connection the worker is at reports data.
LEMMA DataFromReads ==
  [Next]_vars => \/ data' = data
                 \/ Is("read") /\ \E n : data' = [data EXCEPT ![loop.at] = n]
<1> SUFFICES ASSUME [Next]_vars
             PROVE  data' = data \/ (Is("read") /\ \E n : data' = [data EXCEPT ![loop.at] = n])
  OBVIOUS
<1>1. CASE OwnerNext
  BY <1>1 DEF OwnerNext, CreateEpoll, CreateEventFd, RegisterWakeFd, Stop, CreateConnection,
     Send, Close, told
<1>2. CASE LoopNext
  <2>1. CASE DrainRead \/ DrainReadEnds
    BY <2>1 DEF DrainRead, DrainReadEnds
  <2>2. CASE PollOnce \/ CreateFails \/ CreateRemoves \/ HandleSend \/ HandleClose \/ CommandsDone
             \/ (\E fd \in Fds : CreateClosesSocket(fd) \/ HandleCreate(fd))
             \/ (\E id \in Ids : TimeOut(id)) \/ TimeoutsDone
    BY <2>2 DEF PollOnce, CreateFails, CreateRemoves, HandleSend, HandleClose, CommandsDone,
       CreateClosesSocket, HandleCreate, TimeOut, TimeoutsDone, told
  <2>3. CASE EpollWait \/ EpollWaitFails \/ EventsDone \/ HangUp \/ Dispatch \/ CompleteTcpConnect
             \/ ConnectRefused \/ FlushWrite \/ FlushFails \/ NothingToFlush \/ NoInput
    BY <2>3 DEF EpollWait, EpollWaitFails, EventsDone, HangUp, Dispatch, CompleteTcpConnect,
       ConnectRefused, FlushWrite, FlushFails, NothingToFlush, NoInput, told
  <2>. QED BY <1>2, <2>1, <2>2, <2>3 DEF LoopNext
<1>3. CASE KernelNext
  BY <1>3 DEF KernelNext, Connects, Breaks, Arrives, Fin, Drains, OtherOpens, Late, Happens, told
<1>4. CASE Terminated \/ UNCHANGED vars
  BY <1>4 DEF Terminated, vars, told
<1>. QED BY <1>1, <1>2, <1>3, <1>4 DEF Next

\* Once a connection is reported to have ended, no data is reported for it
\* (network.cpp:574-597, 668-708).
THEOREM NoDataAfterError == Spec => NothingAfterError
<1>1. NetInv /\ [Next]_vars => [\A id \in Ids : errors[id] > 0 => data'[id] = data[id]]_vars
  <2> SUFFICES ASSUME NetInv, [Next]_vars, NEW id \in Ids, errors[id] > 0
               PROVE  data'[id] = data[id]
    OBVIOUS
  <2>1. CASE Is("read") /\ \E n : data' = [data EXCEPT ![loop.at] = n]
    <3>1. loop.at \in DOMAIN connections
      BY <2>1 DEF NetInv, AtConnection, Is
    <3>2. errors[loop.at] = 0
      BY <3>1 DEF NetInv, Accounts
    <3>. QED BY <2>1, <3>2 DEF NetInv, TypeOK
  <2>. QED BY <2>1, DataFromReads
<1>. QED BY <1>1, NetInvariant, PTL DEF Spec, NothingAfterError

\* RemoveConnection closes another thread's socket only for a connection that HandleCreate has
\* given up.
LEMMA RemovesItsOwn ==
  ASSUME NetInv, NEW id \in DOMAIN connections, NEW reported, RemoveConnection(id, reported),
         NEW fd \in Fds, sock[fd].owner = "other", sock'[fd].owner # "other"
  PROVE  GivenUp(id) /\ connections[id].fd = fd
<1>1. sock' = [sock EXCEPT ![connections[id].fd] = Closed] /\ sock \in [Fds -> SockType]
  BY DEF RemoveConnection, NetInv, TypeOK
<1>2. connections[id].fd = fd
  BY <1>1
<1>. QED BY <1>2, OwnSocket DEF NetInv

\* The worker closes a socket that another thread has opened only where a failed create closes
\* its own for the second time (network.cpp:238-254, 349-370, 414-419, 471-486).
THEOREM OthersKeepTheirs == Spec => ClosesItsOwn
<1>1. NetInv /\ [Next]_vars =>
        [\A fd \in Fds : sock[fd].owner = "other" /\ sock'[fd].owner # "other"
           => Is("create_failed") /\ Conn.fd = fd]_vars
  <2> SUFFICES ASSUME NetInv, [Next]_vars, NEW fd \in Fds, sock[fd].owner = "other",
                      sock'[fd].owner # "other"
               PROVE  Is("create_failed") /\ Conn.fd = fd
    OBVIOUS
  <2>1. /\ sock \in [Fds -> SockType] /\ TypeOK /\ Maps /\ sock'[fd] # sock[fd]
        /\ sock[fd].link = "none"
    BY DEF NetInv, TypeOK, Maps
  <2>2. ASSUME NEW id \in DOMAIN connections, NEW reported, RemoveConnection(id, reported)
        PROVE  Is("create_failed") /\ Conn.fd = fd
    BY <2>2, RemovesItsOwn DEF GivenUp, Conn
  <2>3. ASSUME NEW g \in Fds, NEW s, sock' = [sock EXCEPT ![g] = s] PROVE g = fd
    BY <2>1, <2>3
  <2>4. ASSUME NEW id \in DOMAIN connections, ~GivenUp(id), NEW s,
               sock' = [sock EXCEPT ![connections[id].fd] = s]
        PROVE  FALSE
    BY <2>1, <2>4, OwnSocket
  <2>5. CASE OwnerNext
    <3>1. CASE Stop
      <4>1. fd \in {connections[id].fd : id \in DOMAIN connections}
        BY <2>1, <3>1 DEF Stop, ShutdownAll
      <4>2. \A id : ~GivenUp(id)
        BY <3>1 DEF Stop, GivenUp, Is
      <4>. QED BY <2>1, <4>1, <4>2, OwnSocket
    <3>2. CASE ~Stop
      BY <2>1, <2>5, <3>2 DEF OwnerNext, CreateEpoll, CreateEventFd, RegisterWakeFd,
         CreateConnection, Send, Close
    <3>. QED BY <3>1, <3>2
  <2>6. CASE LoopNext
    <3>1. CASE CreateRemoves \/ ConnectRefused \/ FlushFails \/ DrainReadEnds
      <4>1. RemoveConnection(loop.at, TRUE)
        BY <3>1 DEF CreateRemoves, ConnectRefused, FlushFails, DrainReadEnds, RemoveAndGoOn
      <4>2. loop.at \in DOMAIN connections
        BY <3>1 DEF CreateRemoves, ConnectRefused, FlushFails, DrainReadEnds, NetInv,
           AtConnection, Is
      <4>. QED BY <2>2, <4>1, <4>2
    <3>2. CASE HangUp
      BY <2>2, <3>2, EventLooked DEF HangUp
    <3>3. CASE HandleClose
      BY <2>1, <2>2, <3>3 DEF HandleClose
    <3>4. CASE \E id \in Ids : TimeOut(id)
      BY <2>2, <3>4 DEF TimeOut
    <3>5. CASE HandleSend
      <4>1. Cmd.id \in DOMAIN connections /\ ~GivenUp(Cmd.id)
        BY <2>1, <3>5, CommandTaken DEF HandleSend
      <4>. QED BY <2>4, <3>5, <4>1 DEF HandleSend
    <3>6. CASE \E g \in Fds : HandleCreate(g)
      BY <2>3, <3>6 DEF HandleCreate
    <3>7. CASE CompleteTcpConnect \/ FlushWrite \/ NothingToFlush \/ DrainRead
      <4>1. loop.at \in DOMAIN connections /\ ~GivenUp(loop.at)
        BY <3>7, ConnTyped DEF CompleteTcpConnect, FlushWrite, NothingToFlush, DrainRead, Is
      <4>2. \E s : sock' = [sock EXCEPT ![connections[loop.at].fd] = s]
        BY <3>7 DEF CompleteTcpConnect, FlushWrite, NothingToFlush, DrainRead, Conn
      <4>. QED BY <2>4, <4>1, <4>2
    <3>8. CASE EpollWait
      BY <2>1, <3>8 DEF EpollWait, SockType
    <3>9. CASE PollOnce \/ CreateFails \/ CommandsDone \/ (\E g \in Fds : CreateClosesSocket(g))
               \/ TimeoutsDone \/ EpollWaitFails \/ EventsDone \/ Dispatch \/ NoInput
      BY <2>1, <3>9 DEF PollOnce, CreateFails, CommandsDone, CreateClosesSocket, TimeoutsDone,
         EpollWaitFails, EventsDone, Dispatch, NoInput
    <3>. QED BY <2>6, <3>1, <3>2, <3>3, <3>4, <3>5, <3>6, <3>7, <3>8, <3>9 DEF LoopNext
  <2>7. CASE KernelNext
    <3>1. CASE \E id \in Ids : Late(id)
      BY <2>1, <3>1 DEF Late
    <3>2. CASE \E g \in Fds : OtherOpens(g)
      BY <2>3, <3>2 DEF OtherOpens
    <3>3. ASSUME NEW g \in Fds, Connects(g) \/ Breaks(g) \/ Arrives(g) \/ Fin(g) \/ Drains(g)
          PROVE  FALSE
      <4>1. sock[g].link # "none" /\ \E s : sock' = [sock EXCEPT ![g] = s]
        BY <3>3 DEF Connects, Breaks, Arrives, Fin, Drains, Happens
      <4>. QED BY <2>1, <2>3, <4>1
    <3>. QED BY <2>7, <3>1, <3>2, <3>3 DEF KernelNext
  <2>8. CASE Terminated \/ UNCHANGED vars
    BY <2>1, <2>8 DEF Terminated, vars
  <2>. QED BY <2>5, <2>6, <2>7, <2>8 DEF Next
<1>. QED BY <1>1, NetInvariant, PTL DEF Spec, ClosesItsOwn
=============================================================================
