------------------------------ MODULE NetWorker ------------------------------
(***************************************************************************)
(* NetWorker (net/network.cpp): the connections of one worker thread, the  *)
(* sockets they stand on and the edge-triggered epoll loop PollOnce.       *)
(*                                                                         *)
(* The owner queues commands between two calls of PollOnce, as the engine  *)
(* does; CommandQueue models the queue, here it is a sequence.  The kernel *)
(* acts between any two system calls: connects complete or fail, data, FIN *)
(* and RST arrive, send buffers drain, and other threads of the process    *)
(* open sockets of their own.  epoll keeps an edge per socket: it is set   *)
(* when something happens or a registration finds something ready, and     *)
(* epoll_wait reports the socket if it is still ready then.                *)
(***************************************************************************)
EXTENDS Integers, Sequences, SequencesExt, FiniteSets

CONSTANTS
  Types,        \* the protocols in use, of {"kTcp", "kUdp"}
  Fds,          \* the file descriptors the process may get
  MaxConns,     \* bound: connections asked for
  MaxSends,     \* bound: chunks sent
  MaxArrivals,  \* bound: chunks received
  MaxOther      \* bound: sockets opened by other threads

ASSUME NetAssumption ==
  /\ Types \subseteq {"kTcp", "kUdp"} /\ IsFiniteSet(Fds)
  /\ MaxConns \in Nat /\ MaxSends \in Nat /\ MaxArrivals \in Nat /\ MaxOther \in Nat

Ids  == 1..MaxConns

VARIABLES
  own,          \* which of "epoll_fd" and "wake_fd" are open
  commands,     \* queued by the owner: [type, id]
  next_conn_id, \* Impl::next_conn_id
  connections,  \* Impl::connections: see NewConnection
  fd_to_conn,   \* Impl::fd_to_conn
  sock,         \* the kernel's sockets: see Closed
  loop,         \* where the worker is; the events epoll_wait returned and still to be looked
                \* at; the connection of the one looked at, and whether it has EPOLLIN
  errors,       \* error events reported for each connection
  data,         \* data events reported for each connection
  \* history
  arrived,      \* chunks that arrived for each connection
  closed,       \* connections the owner closed
  sends, others \* what the bounds count

queue   == <<commands, next_conn_id>>
maps    == <<connections, fd_to_conn>>
told    == <<errors, data>>
history == <<arrived, closed, sends, others>>
vars == <<own, queue, maps, sock, loop, told, history>>

\* late: connect_timeout_ms has passed.  (A connection's fd is -1 only inside HandleCreate.)
NewConnection(fd, type, state) ==
  [fd |-> fd, type |-> type, state |-> state, pending |-> 0, late |-> FALSE]

\* A socket: who owns it ("nobody", "worker", "other"), how far its connection is, what it
\* holds unread, whether its send buffer has room, whether EPOLLOUT is asked for and whether
\* its edge is set.
Closed == [owner |-> "nobody", link |-> "none", unread |-> 0, eof |-> FALSE, room |-> TRUE,
           out |-> FALSE, edge |-> FALSE]

Without(f, x) == [y \in DOMAIN f \ {x} |-> f[y]]
With(f, x, v) == [y \in DOMAIN f \cup {x} |-> IF y = x THEN v ELSE f[y]]
Nothing       == [x \in {} |-> 0]

Init ==
  /\ own = {}
  /\ commands = <<>> /\ next_conn_id = 1
  /\ connections = Nothing /\ fd_to_conn = Nothing
  /\ sock = [fd \in Fds |-> Closed]
  /\ loop = [pc |-> "off", events |-> <<>>, at |-> 0, input |-> FALSE]
  /\ errors = [id \in Ids |-> 0] /\ data = [id \in Ids |-> 0]
  /\ arrived = [id \in Ids |-> 0] /\ closed = {} /\ sends = 0 /\ others = 0

Is(pc)   == loop.pc = pc
GoTo(pc) == loop' = [loop EXCEPT !.pc = pc]

-----------------------------------------------------------------------------
(* Start and Stop *)

CreateEpoll ==
  /\ Is("off")
  /\ own' = {"epoll_fd"}
  /\ GoTo("epoll")
  /\ UNCHANGED <<queue, maps, sock, told, history>>

CreateEventFd ==
  /\ Is("epoll")
  /\ own' = own \cup {"wake_fd"}
  /\ GoTo("eventfd")
  /\ UNCHANGED <<queue, maps, sock, told, history>>

RegisterWakeFd ==
  /\ Is("eventfd")
  /\ GoTo("owner")
  /\ UNCHANGED <<own, queue, maps, sock, told, history>>

\* Every descriptor is closed, every queued command deleted.
ShutdownAll ==
  /\ sock' = [fd \in Fds |-> IF fd \in {connections[id].fd : id \in DOMAIN connections}
                             THEN Closed ELSE sock[fd]]
  /\ connections' = Nothing /\ fd_to_conn' = Nothing
  /\ own' = {}
  /\ commands' = <<>>

\* A call of Start fails, or the owner calls Stop between two calls of PollOnce.
Stop ==
  /\ loop.pc \in {"off", "epoll", "eventfd", "owner"}
  /\ ShutdownAll
  /\ GoTo("stopped")
  /\ UNCHANGED <<next_conn_id, told, history>>

-----------------------------------------------------------------------------
(* The owner: CreateTcpConnection, CreateUdpConnection, Send, Close *)

\* The owner knows a connection until it closes it or is told of its end.
Known(id) == id < next_conn_id /\ id \notin closed /\ errors[id] = 0

Enqueue(type, id) == commands' = Append(commands, [type |-> type, id |-> id])

CreateConnection(type) ==
  /\ Is("owner")
  /\ next_conn_id <= MaxConns
  /\ next_conn_id' = next_conn_id + 1
  /\ Enqueue(type, next_conn_id)
  /\ UNCHANGED <<own, maps, sock, loop, told, history>>

Send(id) ==
  /\ Is("owner")
  /\ Known(id) /\ sends < MaxSends
  /\ sends' = sends + 1
  /\ Enqueue("kSend", id)
  /\ UNCHANGED <<own, next_conn_id, maps, sock, loop, told, arrived, closed, others>>

Close(id) ==
  /\ Is("owner")
  /\ Known(id)
  /\ closed' = closed \cup {id}
  /\ Enqueue("kClose", id)
  /\ UNCHANGED <<own, next_conn_id, maps, sock, loop, told, arrived, sends, others>>

PollOnce ==
  /\ Is("owner")
  /\ GoTo("commands")
  /\ UNCHANGED <<own, queue, maps, sock, told, history>>

-----------------------------------------------------------------------------
(* epoll and RemoveConnection *)

\* What epoll finds: "hup" is EPOLLERR, EPOLLHUP or EPOLLRDHUP; a datagram socket has no FIN,
\* its eof is an empty datagram.
Found(fd) ==
  LET s == sock[fd] IN
  {e \in {"hup", "in", "out"} :
     CASE e = "hup" -> s.link = "broken" \/ (s.eof /\ connections[fd_to_conn[fd]].type = "kTcp")
       [] e = "in"  -> s.unread > 0 \/ s.eof \/ s.link = "broken"
       [] e = "out" -> s.out /\ (s.link = "broken" \/ (s.link = "up" /\ s.room))}

\* The edge is set anew if the socket is ready for what is asked; it may be set for nothing,
\* epoll_wait looks again.
ModFdInEpoll(s, out) == [s EXCEPT !.out = out, !.edge = TRUE]

\* Mutants: a connection that ends stays in one of the maps, or is not reported.
ForgottenNot(id) == connections
UnmappedNot(fd)  == fd_to_conn
ReportedNot(id)  == errors

Forgotten(id) == Without(connections, id)
Unmapped(fd)  == Without(fd_to_conn, fd)
Reported(id)  == [errors EXCEPT ![id] = @ + 1]

\* close(conn.fd) closes whatever has that number.
RemoveConnection(id, reported) ==
  /\ connections' = Forgotten(id)
  /\ fd_to_conn' = Unmapped(connections[id].fd)
  /\ sock' = [sock EXCEPT ![connections[id].fd] = Closed]
  /\ errors' = IF reported THEN Reported(id) ELSE errors

-----------------------------------------------------------------------------
(* ProcessCommands.  (A create for a known id, and a send to a closed connection, do not    *)
(* happen: ids are never given twice and a closed connection leaves the map.)               *)

Cmd == Head(commands)
Taking(types) ==
  /\ Is("commands")
  /\ commands # <<>> /\ Cmd.type \in types
  /\ commands' = Tail(commands)

\* BuildSockAddr, socket or SetNonBlocking fails, or a TCP connect at once: what was opened is
\* closed again.
CreateFails ==
  /\ Taking({"kTcp", "kUdp"})
  /\ errors' = Reported(Cmd.id)
  /\ UNCHANGED <<own, next_conn_id, maps, sock, loop, data, history>>

\* AddFdToEpoll fails, or connect for UDP: the handler closes the new socket ...
CreateClosesSocket(fd) ==
  /\ Taking({"kTcp", "kUdp"})
  /\ sock[fd].owner = "nobody"
  /\ connections' = With(connections, Cmd.id, NewConnection(fd, Cmd.type,
                      IF Cmd.type = "kTcp" THEN "kConnecting" ELSE "kConnected"))
  /\ loop' = [loop EXCEPT !.pc = "create_failed", !.at = Cmd.id]
  /\ UNCHANGED <<own, next_conn_id, fd_to_conn, sock, told, history>>

\* ... and RemoveConnection closes the same number once more.
CreateRemoves ==
  /\ Is("create_failed")
  /\ RemoveConnection(loop.at, TRUE)
  /\ loop' = [loop EXCEPT !.pc = "commands", !.at = 0]
  /\ UNCHANGED <<own, queue, data, history>>

\* HandleCreateTcp and HandleCreateUdp: a TCP connect is under way, or done at once.
HandleCreate(fd) ==
  /\ Taking({"kTcp", "kUdp"})
  /\ sock[fd].owner = "nobody"
  /\ \E link \in IF Cmd.type = "kTcp" THEN {"connecting", "up"} ELSE {"up"} :
       /\ connections' = With(connections, Cmd.id, NewConnection(fd, Cmd.type,
                           IF link = "up" THEN "kConnected" ELSE "kConnecting"))
       /\ sock' = [sock EXCEPT ![fd] = [ModFdInEpoll(Closed, link = "connecting")
                                          EXCEPT !.owner = "worker", !.link = link]]
  /\ fd_to_conn' = With(fd_to_conn, fd, Cmd.id)
  /\ UNCHANGED <<own, next_conn_id, loop, told, history>>

HandleSend ==
  /\ Taking({"kSend"})
  /\ IF Cmd.id \in DOMAIN connections
     THEN /\ connections' = [connections EXCEPT ![Cmd.id].pending = @ + 1]
          /\ sock' = [sock EXCEPT ![connections[Cmd.id].fd] = ModFdInEpoll(@, TRUE)]
          /\ UNCHANGED errors
     ELSE errors' = Reported(Cmd.id) /\ UNCHANGED <<connections, sock>>
  /\ UNCHANGED <<own, next_conn_id, fd_to_conn, loop, data, history>>

HandleClose ==
  /\ Taking({"kClose"})
  /\ IF Cmd.id \in DOMAIN connections THEN RemoveConnection(Cmd.id, FALSE)
     ELSE UNCHANGED <<maps, sock, errors>>
  /\ UNCHANGED <<own, next_conn_id, loop, data, history>>

CommandsDone ==
  /\ Is("commands")
  /\ commands = <<>>
  /\ GoTo("timeouts")
  /\ UNCHANGED <<own, queue, maps, sock, told, history>>

-----------------------------------------------------------------------------
(* CheckConnectTimeouts, before and after the events *)

\* Mutant: the state is tested the wrong way round.
ExpiredConnected(id) == connections[id].state # "kConnecting" /\ connections[id].late

Expired(id) == connections[id].state = "kConnecting" /\ connections[id].late

TimeOut(id) ==
  /\ loop.pc \in {"timeouts", "timeouts_again"}
  /\ id \in DOMAIN connections
  /\ Expired(id)
  /\ RemoveConnection(id, TRUE)
  /\ UNCHANGED <<own, queue, loop, data, history>>

TimeoutsDone ==
  /\ loop.pc \in {"timeouts", "timeouts_again"}
  /\ \A id \in DOMAIN connections : ~Expired(id)
  /\ GoTo(IF Is("timeouts") THEN "wait" ELSE "owner")
  /\ UNCHANGED <<own, queue, maps, sock, told, history>>

-----------------------------------------------------------------------------
(* epoll_wait and the events *)

Ready == {fd \in Fds : sock[fd].owner = "worker" /\ sock[fd].edge /\ Found(fd) # {}}

\* Fewer than kMaxEvents sockets are ready, or the rest is reported the next time.
EpollWait ==
  /\ Is("wait")
  /\ \E order \in SetToSeqs(Ready) :
       loop' = [loop EXCEPT !.pc = "events",
                            !.events = [i \in DOMAIN order |->
                                          [fd |-> order[i], found |-> Found(order[i])]]]
  /\ sock' = [fd \in Fds |-> [sock[fd] EXCEPT !.edge = FALSE]]
  /\ UNCHANGED <<own, queue, maps, told, history>>

\* epoll_wait is interrupted or fails: PollOnce returns at once.
EpollWaitFails ==
  /\ Is("wait")
  /\ GoTo("owner")
  /\ UNCHANGED <<own, queue, maps, sock, told, history>>

EventsDone ==
  /\ Is("events")
  /\ loop.events = <<>>
  /\ GoTo("timeouts_again")
  /\ UNCHANGED <<own, queue, maps, sock, told, history>>

\* The wake descriptor is never among the events: only the owner queues commands, between two
\* calls of PollOnce, and ProcessCommands has read the eventfd before epoll_wait.  So no step
\* between epoll_wait and here closes a socket other than the event's own, and the socket of
\* an event is always in the map.
Event   == Head(loop.events)
EvId    == fd_to_conn[Event.fd]
Looking == Is("events") /\ loop.events # <<>> /\ Event.fd \in DOMAIN fd_to_conn

LookAt(id, pc) ==
  loop' = [pc |-> pc, events |-> Tail(loop.events), at |-> id, input |-> "in" \in Event.found]

\* Mutant: the end is reported at once and the rest is read later.
HangUpReadsOn ==
  /\ Looking
  /\ "hup" \in Event.found
  /\ errors' = Reported(EvId)
  /\ LookAt(EvId, "read")
  /\ UNCHANGED <<own, queue, maps, sock, data, history>>

\* EPOLLERR, EPOLLHUP or EPOLLRDHUP: the connection is removed, what it has not read with it.
HangUp ==
  /\ Looking
  /\ "hup" \in Event.found
  /\ RemoveConnection(EvId, TRUE)
  /\ loop' = [loop EXCEPT !.events = Tail(@)]
  /\ UNCHANGED <<own, queue, data, history>>

Dispatch ==
  /\ Looking
  /\ "hup" \notin Event.found
  /\ LookAt(EvId, IF "out" \notin Event.found THEN "read"
                  ELSE IF connections[EvId].state = "kConnecting" THEN "connect" ELSE "flush")
  /\ UNCHANGED <<own, queue, maps, sock, told, history>>

Conn == connections[loop.at]
Sock == sock[Conn.fd]
NextEvent == loop' = [loop EXCEPT !.pc = "events", !.at = 0, !.input = FALSE]

\* What PollOnce reads for the connection's id through id_it, whose node RemoveConnection has
\* erased from fd_to_conn: the id, which free() leaves in the node, or bytes that are no id.
ErasedId(id) == {id, 0}

\* The connection is gone; if what is read is the id of another, PollOnce goes on with conn,
\* which is gone as well.
RemoveAndGoOn(pc) ==
  /\ RemoveConnection(loop.at, TRUE)
  /\ \E id \in ErasedId(loop.at) : IF id \in DOMAIN connections' THEN GoTo(pc) ELSE NextEvent
  /\ UNCHANGED <<own, queue, history>>

CompleteTcpConnect ==
  /\ Is("connect")
  /\ Sock.link = "up"
  /\ connections' = [connections EXCEPT ![loop.at].state = "kConnected"]
  /\ sock' = [sock EXCEPT ![Conn.fd] = ModFdInEpoll(@, Conn.pending > 0)]
  /\ GoTo("flush")
  /\ UNCHANGED <<own, queue, fd_to_conn, told, history>>

ConnectRefused ==
  /\ Is("connect")
  /\ Sock.link = "broken"
  /\ RemoveAndGoOn("flush")
  /\ UNCHANGED data

\* Mutant: EPOLLIN alone is asked for, whatever is left to send.
WantsOutNever(left) == FALSE

WantsOut(left) == left > 0

\* send until nothing is pending or the buffer is full.
FlushWrite ==
  /\ Is("flush")
  /\ Sock.link = "up"
  /\ \E left \in 0..Conn.pending :
       /\ left < Conn.pending => Sock.room
       /\ connections' = [connections EXCEPT ![loop.at].pending = left]
       /\ sock' = [sock EXCEPT ![Conn.fd] =
            [ModFdInEpoll(Sock, WantsOut(left)) EXCEPT !.room = Sock.room /\ left = 0]]
  /\ GoTo("read")
  /\ UNCHANGED <<own, queue, fd_to_conn, told, history>>

\* The socket is broken: send fails, if there is anything to send.
FlushFails ==
  /\ Is("flush")
  /\ Sock.link = "broken"
  /\ Conn.pending > 0
  /\ RemoveAndGoOn("read")
  /\ UNCHANGED data

NothingToFlush ==
  /\ Is("flush")
  /\ Sock.link = "broken"
  /\ Conn.pending = 0
  /\ sock' = [sock EXCEPT ![Conn.fd] = ModFdInEpoll(@, FALSE)]
  /\ GoTo("read")
  /\ UNCHANGED <<own, queue, maps, told, history>>

NoInput ==
  /\ Is("read")
  /\ ~loop.input
  /\ NextEvent
  /\ UNCHANGED <<own, queue, maps, sock, told, history>>

\* Mutant: the buffer is reported once more when recv would block.
ReadOnceMore(s) == s.unread + 1

Read(s) == s.unread

\* recv until it would block: a data event for each chunk.
DrainRead ==
  /\ Is("read")
  /\ loop.input /\ Sock.link # "broken" /\ ~Sock.eof
  /\ data' = [data EXCEPT ![loop.at] = @ + Read(Sock)]
  /\ sock' = [sock EXCEPT ![Conn.fd].unread = 0]
  /\ NextEvent
  /\ UNCHANGED <<own, queue, maps, errors, history>>

\* recv returns 0 after the last chunk, or fails at once.
DrainReadEnds ==
  /\ Is("read")
  /\ loop.input /\ (Sock.link = "broken" \/ Sock.eof)
  /\ data' = [data EXCEPT ![loop.at] = @ + IF Sock.link = "broken" THEN 0 ELSE Read(Sock)]
  /\ RemoveConnection(loop.at, TRUE)
  /\ NextEvent
  /\ UNCHANGED <<own, queue, history>>

-----------------------------------------------------------------------------
(* The kernel *)

Happens(fd, s) ==
  /\ sock' = [sock EXCEPT ![fd] = [s EXCEPT !.edge = TRUE]]
  /\ UNCHANGED <<own, queue, maps, loop, told, closed, sends, others>>

Connects(fd) ==
  /\ sock[fd].link = "connecting"
  /\ Happens(fd, [sock[fd] EXCEPT !.link = "up"])
  /\ UNCHANGED arrived

\* A refused connect, an RST or an ICMP error.
Breaks(fd) ==
  /\ sock[fd].link \in {"connecting", "up"}
  /\ Happens(fd, [sock[fd] EXCEPT !.link = "broken"])
  /\ UNCHANGED arrived

Arrives(fd) ==
  /\ sock[fd].link = "up" /\ ~sock[fd].eof
  /\ SumFunction(arrived) < MaxArrivals
  /\ Happens(fd, [sock[fd] EXCEPT !.unread = @ + 1])
  /\ arrived' = [arrived EXCEPT ![fd_to_conn[fd]] = @ + 1]

\* A FIN, or an empty datagram.
Fin(fd) ==
  /\ sock[fd].link = "up" /\ ~sock[fd].eof
  /\ Happens(fd, [sock[fd] EXCEPT !.eof = TRUE])
  /\ UNCHANGED arrived

Drains(fd) ==
  /\ sock[fd].link = "up" /\ ~sock[fd].room
  /\ Happens(fd, [sock[fd] EXCEPT !.room = TRUE])
  /\ UNCHANGED arrived

OtherOpens(fd) ==
  /\ sock[fd].owner = "nobody"
  /\ others < MaxOther
  /\ others' = others + 1
  /\ sock' = [sock EXCEPT ![fd] = [Closed EXCEPT !.owner = "other"]]
  /\ UNCHANGED <<own, queue, maps, loop, told, arrived, closed, sends>>

\* connect_timeout_ms passes.
Late(id) ==
  /\ id \in DOMAIN connections
  /\ connections[id].state = "kConnecting" /\ ~connections[id].late
  /\ connections' = [connections EXCEPT ![id].late = TRUE]
  /\ UNCHANGED <<own, queue, fd_to_conn, sock, loop, told, history>>

-----------------------------------------------------------------------------
OwnerNext ==
  \/ CreateEpoll \/ CreateEventFd \/ RegisterWakeFd \/ Stop
  \/ \E type \in Types : CreateConnection(type)
  \/ \E id \in Ids : Send(id) \/ Close(id)

LoopNext ==
  \/ PollOnce
  \/ CreateFails \/ CreateRemoves \/ HandleSend \/ HandleClose \/ CommandsDone
  \/ \E fd \in Fds : CreateClosesSocket(fd) \/ HandleCreate(fd)
  \/ (\E id \in Ids : TimeOut(id)) \/ TimeoutsDone
  \/ EpollWait \/ EpollWaitFails \/ EventsDone \/ HangUp \/ Dispatch
  \/ CompleteTcpConnect \/ ConnectRefused \/ FlushWrite \/ FlushFails \/ NothingToFlush
  \/ NoInput \/ DrainRead \/ DrainReadEnds

KernelNext ==
  \/ \E fd \in Fds : \/ Connects(fd) \/ Breaks(fd) \/ Arrives(fd) \/ Fin(fd) \/ Drains(fd)
                    \/ OtherOpens(fd)
  \/ \E id \in Ids : Late(id)

Terminated == Is("stopped") /\ UNCHANGED vars

Next == OwnerNext \/ LoopNext \/ KernelNext \/ Terminated

Spec == Init /\ [][Next]_vars

\* The engine's loop polls again and again, and time passes.  Of the calls in PollOnce only
\* epoll_wait has a timeout: getaddrinfo is taken to return, and DrainRead to find the buffer
\* empty some time, although a peer that never stops sending keeps it at its connection.
FairSpec == Spec /\ WF_vars(LoopNext) /\ WF_vars(\E id \in Ids : Late(id))

-----------------------------------------------------------------------------
(* Properties *)

\* The two maps and the kernel agree: a descriptor leads to the connection that has it, every
\* connection can be found by its descriptor, and the worker has no socket that no connection
\* owns, through every failure half way; PollOnce works on no connection that has been removed,
\* although it asks an erased node for its id; and once it has stopped, or could not start,
\* neither its epoll nor its wake descriptor is open (network.cpp:208-276, 349-488, 690-706).
MapsAgree ==
  /\ \A fd \in DOMAIN fd_to_conn :
       fd_to_conn[fd] \in DOMAIN connections /\ connections[fd_to_conn[fd]].fd = fd
  /\ ~Is("create_failed") =>
       \A id \in DOMAIN connections :
         connections[id].fd \in DOMAIN fd_to_conn /\ fd_to_conn[connections[id].fd] = id
  /\ {fd \in Fds : sock[fd].owner = "worker"} = DOMAIN fd_to_conn
  /\ loop.pc \in {"create_failed", "connect", "flush", "read"} => loop.at \in DOMAIN connections
  /\ Is("stopped") => own = {} /\ connections = Nothing

\* A connection that was asked for and is gone was closed by the owner or reported to it with
\* an error: a session never waits for a connection that silently disappeared
\* (network.cpp:349-370, 490-499; engine.cpp:272-308).
NoSilentEnd ==
  \A id \in 1..(next_conn_id - 1) :
    \/ id \in DOMAIN connections \/ errors[id] > 0 \/ id \in closed
    \/ Is("stopped")
    \/ \E i \in DOMAIN commands : commands[i].id = id /\ commands[i].type \in {"kTcp", "kUdp"}

\* Once a connection is reported to have ended, no data is reported for it any more
\* (network.cpp:574-597, 668-708): Engine relies on it.
NothingAfterError == [][\A id \in Ids : errors[id] > 0 => data'[id] = data[id]]_vars

\* What a connection reports is what arrived on its own socket, each chunk once, although
\* descriptors are reused and events name descriptors (network.cpp:668-707).
ChunksAttributed ==
  \A id \in DOMAIN connections :
    connections[id].fd \in DOMAIN fd_to_conn =>
      data[id] + sock[connections[id].fd].unread = arrived[id]

\* The edge-triggered loop forgets nothing: when it goes to wait, a socket with something
\* unread, closed or broken, or with room for what is pending, has its edge set
\* (network.cpp:329-347, 505-509, 538-597).
NothingForgotten ==
  Is("wait") =>
    \A id \in DOMAIN connections :
      LET s == sock[connections[id].fd] IN
      \/ s.edge
      \/ /\ s.unread = 0 /\ ~s.eof /\ s.link # "broken"
         /\ s.link = "up" /\ s.room => connections[id].pending = 0

\* The worker closes a socket that another thread of the process has opened in one step only:
\* the second close of a create that failed after its socket was closed.  Every other close is
\* of a descriptor the worker still has (network.cpp:238-254, 349-370, 414-419, 471-486).
ClosesItsOwn ==
  [][\A fd \in Fds : sock[fd].owner = "other" /\ sock'[fd].owner # "other"
       => Is("create_failed") /\ Conn.fd = fd]_vars

Connecting(id) == id \in DOMAIN connections /\ connections[id].state = "kConnecting"

\* A connect is over some time: it succeeds, fails or times out; and once PollOnce has seen it
\* succeed its timeout does not end the connection any more (network.cpp:599-646).
ConnectSettles ==
  /\ \A id \in Ids : Connecting(id) ~> ~Connecting(id)
  /\ [][loop.pc \in {"timeouts", "timeouts_again"} =>
           \A id \in DOMAIN connections : id \in DOMAIN connections' \/ Connecting(id)]_vars
=============================================================================
