---------------------------- MODULE CommandQueue ----------------------------
(***************************************************************************)
(* The command queue of NetWorker::Impl (net/network.cpp): callers take a  *)
(* Command from a free list or the heap, fill it and push it on a shared   *)
(* stack; the polling thread takes the whole stack in one exchange,        *)
(* reverses it, executes the commands and pushes them on the free list.    *)
(* Both lists are linked through Command::next and changed by              *)
(* compare-and-swap only.  A step is one access to a shared location.      *)
(*                                                                         *)
(* In the engine the thread that submits is the thread that polls; here    *)
(* the two are separate, as network.h offers them to be.  queued, spare,   *)
(* taken and turned record what the lists should hold: no step of the code *)
(* reads them, it follows the pointers.                                    *)
(***************************************************************************)
EXTENDS Integers, Sequences, SequencesExt, FiniteSetsExt

CONSTANTS
  Producers,   \* the threads that submit commands
  Nodes,       \* the Command objects the heap can hand out
  Null,        \* nullptr
  MaxSubmit    \* bound: how many commands each producer submits

ASSUME NullAssumption  == Null \notin Nodes
ASSUME BoundAssumption == MaxSubmit \in [Producers -> Nat]

\* A command is known by who submitted it and how many that caller submitted before.
Commands  == {c \in Producers \X (0..Max({MaxSubmit[p] : p \in Producers})) : c[2] < MaxSubmit[c[1]]}
NoCommand == <<>>

VARIABLES
  \* shared
  next,               \* Command::next of every node
  item,               \* the rest of the Command: which one it is
  command_head,       \* Impl::command_head
  command_free_head,  \* Impl::command_free_head
  wake,               \* the eventfd's counter is not zero
  edge,               \* epoll has seen a write to it since it last looked
  allocated, freed,   \* the nodes new handed out and delete took back
  \* local to the threads
  producer,           \* of each caller: see NewProducer
  poller,             \* of the polling thread: see NewPoller
  \* history
  queued, spare,      \* the nodes of the stack and of the free list, top first
  handled             \* the commands executed

memory == <<next, item>>
stack  == <<command_head, queued>>
free   == <<command_free_head, spare>>
wakefd == <<wake, edge>>
heap   == <<allocated, freed>>
vars == <<memory, stack, free, wakefd, heap, producer, poller, handled>>

\* The locals of AcquireCommand and EnqueueCommand.
NewProducer ==
  [pc |-> "idle", head |-> Null, next |-> Null, node |-> Null, old_head |-> Null, submitted |-> 0]

\* The locals of DrainCommands (stack, later cursor, and prev; cmds, in order) and of
\* ReleaseCommand (old_head); is it in the ProcessCommands of the wake event.  History: the
\* nodes taken, not yet and already reversed.
NewPoller ==
  [pc |-> "idle", cursor |-> Null, prev |-> Null, cmds |-> <<>>, old_head |-> Null,
   woken |-> FALSE, taken |-> <<>>, turned |-> <<>>]

Init ==
  /\ next = [n \in Nodes |-> Null] /\ item = [n \in Nodes |-> NoCommand]
  /\ command_head = Null /\ queued = <<>>
  /\ command_free_head = Null /\ spare = <<>>
  /\ wake = FALSE /\ edge = FALSE
  /\ allocated = {} /\ freed = {}
  /\ producer = [p \in Producers |-> NewProducer]
  /\ poller = NewPoller
  /\ handled = <<>>

\* The history of a list whose first node is passed: it may run out before the pointers do.
Rest(s) == SubSeq(s, 2, Len(s))

\* Mutants: a store in place of the compare-and-swap.
HeadIsAny(seen)     == TRUE
FreeHeadIsAny(seen) == TRUE

\* What an exchange compares.
HeadIs(seen)     == command_head = seen
FreeHeadIs(seen) == command_free_head = seen

Pushed(n) == command_head' = n /\ queued' = <<n>> \o queued

-----------------------------------------------------------------------------
(* The producers: AcquireCommand *)

At(p, pc)       == producer[p].pc = pc
Becomes(p, new) == producer' = [producer EXCEPT ![p] = new]

\* Create..., Send or Close is called while the worker is started.
Submit(p) ==
  /\ At(p, "idle")
  /\ producer[p].submitted < MaxSubmit[p]
  /\ poller.pc \notin {"delete", "delete_free", "stopped"}
  /\ Becomes(p, [producer[p] EXCEPT !.pc = "acquire", !.head = command_free_head])
  /\ UNCHANGED <<memory, stack, free, wakefd, heap, poller, handled>>

AcquireNew(p) ==
  /\ At(p, "acquire")
  /\ producer[p].head = Null
  /\ \E n \in Nodes \ allocated :
       /\ allocated' = allocated \cup {n}
       /\ Becomes(p, [producer[p] EXCEPT !.pc = "fill", !.node = n])
  /\ UNCHANGED <<memory, stack, free, wakefd, freed, poller, handled>>

\* new (std::nothrow) fails: kQueueFull.
AcquireFails(p) ==
  /\ At(p, "acquire")
  /\ producer[p].head = Null
  /\ Becomes(p, [producer[p] EXCEPT !.pc = "idle"])
  /\ UNCHANGED <<memory, stack, free, wakefd, heap, poller, handled>>

AcquireNext(p) ==
  /\ At(p, "acquire")
  /\ producer[p].head # Null
  /\ Becomes(p, [producer[p] EXCEPT !.pc = "pop", !.next = next[producer[p].head]])
  /\ UNCHANGED <<memory, stack, free, wakefd, heap, poller, handled>>

\* (The null next of the node popped is left out: EnqueueLoad overwrites it unread.)
AcquirePop(p) ==
  /\ At(p, "pop")
  /\ FreeHeadIs(producer[p].head)
  /\ command_free_head' = producer[p].next
  /\ spare' = Rest(spare)
  /\ Becomes(p, [producer[p] EXCEPT !.pc = "fill", !.node = producer[p].head])
  /\ UNCHANGED <<memory, stack, wakefd, heap, poller, handled>>

\* A weak exchange that fails loads the head again.
AcquireRetry(p) ==
  /\ At(p, "pop")
  /\ Becomes(p, [producer[p] EXCEPT !.pc = "acquire", !.head = command_free_head])
  /\ UNCHANGED <<memory, stack, free, wakefd, heap, poller, handled>>

-----------------------------------------------------------------------------
(* The producers: the fields are filled in, then EnqueueCommand *)

EnqueueLoad(p) ==
  /\ At(p, "fill")
  /\ item' = [item EXCEPT ![producer[p].node] = <<p, producer[p].submitted>>]
  /\ next' = [next EXCEPT ![producer[p].node] = command_head]
  /\ Becomes(p, [producer[p] EXCEPT !.pc = "push", !.old_head = command_head])
  /\ UNCHANGED <<stack, free, wakefd, heap, poller, handled>>

EnqueuePush(p) ==
  /\ At(p, "push")
  /\ HeadIs(producer[p].old_head)
  /\ Pushed(producer[p].node)
  /\ Becomes(p, [producer[p] EXCEPT !.pc = "wake", !.submitted = @ + 1])
  /\ UNCHANGED <<memory, free, wakefd, heap, poller, handled>>

EnqueueRetry(p) ==
  /\ At(p, "push")
  /\ next' = [next EXCEPT ![producer[p].node] = command_head]
  /\ Becomes(p, [producer[p] EXCEPT !.old_head = command_head])
  /\ UNCHANGED <<item, stack, free, wakefd, heap, poller, handled>>

\* The write to the eventfd; when its counter is full, which the code ignores, it is not zero.
EnqueueWake(p) ==
  /\ At(p, "wake")
  /\ wake' = TRUE /\ edge' = TRUE
  /\ Becomes(p, [producer[p] EXCEPT !.pc = "idle", !.node = Null])
  /\ UNCHANGED <<memory, stack, free, heap, poller, handled>>

-----------------------------------------------------------------------------
(* The polling thread: PollOnce, and ProcessCommands which it calls first and again when *)
(* the wake event is among those epoll_wait returns                                      *)

Is(pc) == poller.pc = pc

PollOnce ==
  /\ Is("idle")
  /\ poller' = [poller EXCEPT !.pc = "wakefd", !.woken = FALSE]
  /\ UNCHANGED <<memory, stack, free, wakefd, heap, producer, handled>>

DrainWakeFd ==
  /\ Is("wakefd")
  /\ wake' = FALSE
  /\ poller' = [poller EXCEPT !.pc = "drain"]
  /\ UNCHANGED <<memory, stack, free, edge, heap, producer, handled>>

\* Mutant: the stack is not reversed.
DrainCommandsUnreversed ==
  /\ Is("drain")
  /\ poller' = [poller EXCEPT !.pc = "collect", !.cursor = command_head, !.turned = queued]
  /\ command_head' = Null /\ queued' = <<>>
  /\ UNCHANGED <<memory, free, wakefd, heap, producer, handled>>

DrainCommands ==
  /\ Is("drain")
  /\ poller' = [poller EXCEPT !.pc = "reverse", !.cursor = command_head, !.prev = Null,
                              !.taken = queued]
  /\ command_head' = Null /\ queued' = <<>>
  /\ UNCHANGED <<memory, free, wakefd, heap, producer, handled>>

ReverseOne ==
  /\ Is("reverse")
  /\ poller.cursor # Null
  /\ next' = [next EXCEPT ![poller.cursor] = poller.prev]
  /\ poller' = [poller EXCEPT !.prev = poller.cursor, !.cursor = next[@],
                              !.turned = <<poller.cursor>> \o @, !.taken = Rest(@)]
  /\ UNCHANGED <<item, stack, free, wakefd, heap, producer, handled>>

Reversed ==
  /\ Is("reverse")
  /\ poller.cursor = Null
  /\ poller' = [poller EXCEPT !.pc = "collect", !.cursor = poller.prev, !.prev = Null]
  /\ UNCHANGED <<memory, stack, free, wakefd, heap, producer, handled>>

CollectOne ==
  /\ Is("collect")
  /\ poller.cursor # Null
  /\ poller' = [poller EXCEPT !.cmds = Append(@, poller.cursor), !.cursor = next[@],
                              !.turned = Rest(@)]
  /\ UNCHANGED <<memory, stack, free, wakefd, heap, producer, handled>>

Collected ==
  /\ Is("collect")
  /\ poller.cursor = Null
  /\ poller' = [poller EXCEPT !.pc = "handle"]
  /\ UNCHANGED <<memory, stack, free, wakefd, heap, producer, handled>>

\* The command is executed (NetWorker models what that does) ...
HandleOne ==
  /\ Is("handle")
  /\ poller.cmds # <<>>
  /\ handled' = Append(handled, item[Head(poller.cmds)])
  /\ poller' = [poller EXCEPT !.pc = "reset", !.cursor = Head(poller.cmds), !.cmds = Tail(@)]
  /\ UNCHANGED <<memory, stack, free, wakefd, heap, producer>>

\* ... and ReleaseCommand resets it and puts it on the free list.
ReleaseLoad ==
  /\ Is("reset")
  /\ item' = [item EXCEPT ![poller.cursor] = NoCommand]
  /\ next' = [next EXCEPT ![poller.cursor] = command_free_head]
  /\ poller' = [poller EXCEPT !.pc = "release", !.old_head = command_free_head]
  /\ UNCHANGED <<stack, free, wakefd, heap, producer, handled>>

ReleasePush ==
  /\ Is("release")
  /\ FreeHeadIs(poller.old_head)
  /\ command_free_head' = poller.cursor
  /\ spare' = <<poller.cursor>> \o spare
  /\ poller' = [poller EXCEPT !.pc = "handle", !.cursor = Null]
  /\ UNCHANGED <<memory, stack, wakefd, heap, producer, handled>>

ReleaseRetry ==
  /\ Is("release")
  /\ next' = [next EXCEPT ![poller.cursor] = command_free_head]
  /\ poller' = [poller EXCEPT !.old_head = command_free_head]
  /\ UNCHANGED <<item, stack, free, wakefd, heap, producer, handled>>

\* Mutant: the eventfd is read once more after the commands.
ProcessedDrainsAgain ==
  /\ Is("handle")
  /\ poller.cmds = <<>>
  /\ wake' = FALSE
  /\ poller' = [poller EXCEPT !.pc = IF poller.woken THEN "idle" ELSE "wait"]
  /\ UNCHANGED <<memory, stack, free, edge, heap, producer, handled>>

Processed ==
  /\ Is("handle")
  /\ poller.cmds = <<>>
  /\ poller' = [poller EXCEPT !.pc = IF poller.woken THEN "idle" ELSE "wait"]
  /\ UNCHANGED <<memory, stack, free, wakefd, heap, producer, handled>>

\* epoll_wait reports the eventfd (edge-triggered) if it was written to since it was last
\* reported and still reads as not zero; it waits if there is nothing else to report.
WaitWakes ==
  /\ Is("wait")
  /\ edge /\ wake
  /\ edge' = FALSE
  /\ poller' = [poller EXCEPT !.pc = "wakefd", !.woken = TRUE]
  /\ UNCHANGED <<memory, stack, free, wake, heap, producer, handled>>

WaitEnds ==
  /\ Is("wait")
  /\ ~(edge /\ wake)
  /\ edge' = FALSE
  /\ poller' = [poller EXCEPT !.pc = "idle"]
  /\ UNCHANGED <<memory, stack, free, wake, heap, producer, handled>>

-----------------------------------------------------------------------------
(* Stop: the owner calls it when no submission is under way *)

Stop ==
  /\ Is("idle")
  /\ \A p \in Producers : At(p, "idle")
  /\ poller' = [poller EXCEPT !.pc = "delete", !.cursor = command_head, !.taken = queued]
  /\ command_head' = Null /\ queued' = <<>>
  /\ UNCHANGED <<memory, free, wakefd, heap, producer, handled>>

DeleteOne ==
  /\ Is("delete") \/ Is("delete_free")
  /\ poller.cursor # Null
  /\ freed' = freed \cup {poller.cursor}
  /\ poller' = [poller EXCEPT !.cursor = next[@], !.taken = Rest(@)]
  /\ UNCHANGED <<memory, stack, free, wakefd, allocated, producer, handled>>

\* Mutant: the free list is forgotten.
FreeListForgotten == Null

FreeList == command_free_head

DeleteFreeList ==
  /\ Is("delete")
  /\ poller.cursor = Null
  /\ poller' = [poller EXCEPT !.pc = "delete_free", !.cursor = FreeList, !.taken = spare]
  /\ command_free_head' = Null /\ spare' = <<>>
  /\ UNCHANGED <<memory, stack, wakefd, heap, producer, handled>>

Stopped ==
  /\ Is("delete_free")
  /\ poller.cursor = Null
  /\ poller' = [poller EXCEPT !.pc = "stopped"]
  /\ UNCHANGED <<memory, stack, free, wakefd, heap, producer, handled>>

Terminated == Is("stopped") /\ UNCHANGED vars

-----------------------------------------------------------------------------
ProducerNext(p) ==
  \/ Submit(p) \/ AcquireNew(p) \/ AcquireFails(p) \/ AcquireNext(p) \/ AcquirePop(p)
  \/ AcquireRetry(p) \/ EnqueueLoad(p) \/ EnqueuePush(p) \/ EnqueueRetry(p) \/ EnqueueWake(p)

ConsumerNext ==
  \/ PollOnce \/ DrainWakeFd \/ DrainCommands \/ ReverseOne \/ Reversed \/ CollectOne
  \/ Collected \/ HandleOne \/ ReleaseLoad \/ ReleasePush \/ ReleaseRetry \/ Processed
  \/ WaitWakes \/ WaitEnds \/ Stop \/ DeleteOne \/ DeleteFreeList \/ Stopped

Next == (\E p \in Producers : ProducerNext(p)) \/ ConsumerNext \/ Terminated

Spec == Init /\ [][Next]_vars

-----------------------------------------------------------------------------
(* Properties *)

\* h is the head of a list that holds exactly the nodes of s.
ListIs(h, s) ==
  /\ h = IF s = <<>> THEN Null ELSE s[1]
  /\ \A i \in DOMAIN s : next[s[i]] = IF i < Len(s) THEN s[i + 1] ELSE Null

\* Following the pointers from either head reaches exactly the nodes pushed and not yet
\* popped, in stack order: no node is cut off and no list runs into the other, whatever
\* became of the heads between a load and its exchange (network.cpp:179-206, 282-286).
ListsIntact ==
  /\ ListIs(command_head, queued)
  /\ ListIs(command_free_head, spare)

\* The nodes a caller has in its hands, from new or the free list until the push.
InHands == {p \in Producers : producer[p].pc \in {"fill", "push"}}
Held    == {producer[p].node : p \in InHands}
Working == IF poller.pc \in {"reset", "release"} THEN <<poller.cursor>> ELSE <<>>
Lists   == queued \o spare \o poller.taken \o poller.turned \o poller.cmds \o Working

\* Every Command has one owner: it is in one place of one list, or in the hands of one
\* caller or of the polling thread; nobody fills in a command that another one executes
\* or links elsewhere (network.cpp:179-206, 298-318, 516-536).
OwnedOnce ==
  /\ IsInjective(Lists)
  /\ \A n \in Held : n \notin ToSet(Lists)
  /\ \A p, q \in InHands : producer[p].node = producer[q].node => p = q

\* No wakeup is lost: while the polling thread sleeps in epoll_wait with commands in the
\* queue, the eventfd will wake it or a caller is about to write to it; reading the eventfd
\* before taking the stack (network.cpp:517-518) is what makes it so.
NoLostWakeup ==
  Is("wait") /\ command_head # Null =>
    (edge /\ wake) \/ \E p \in Producers : At(p, "wake")

\* Stop leaks no Command and deletes none twice (network.cpp:264-275).
DeletedOnce ==
  /\ Is("delete") \/ Is("delete_free") => poller.cursor \notin freed
  /\ Is("stopped") => freed = allocated

\* Commands are executed once each, in the order of submission.
Items(s) == [i \in DOMAIN s |-> item[s[i]]]
Deleting == poller.pc \in {"delete", "delete_free", "stopped"}

Fifo == INSTANCE CommandFifo WITH
  pending <- Items(Reverse(queued)),
  batch   <- IF Deleting THEN <<>>
             ELSE Items(poller.cmds \o Reverse(poller.taken) \o poller.turned),
  open    <- ~Deleting

ImplementsFifo == Fifo!Spec
=============================================================================
