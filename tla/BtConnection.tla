---------------------------- MODULE BtConnection ----------------------------
(***************************************************************************)
(* bt::BtConnection (btconn/BtConnection.h): one RFCOMM connection, used   *)
(* by the threads of the application and by its own thread iothread_,      *)
(* which runs the handlers of the boost::asio io_service io_.              *)
(*                                                                         *)
(* A message is the number of its send() call, a chunk of received bytes   *)
(* the number of its arrival.  Chunks in NoMarker hold no 0xff byte.       *)
(* Definitions named Bug_... are not part of the model: each is a mistake  *)
(* one could make in the definition that follows it.                       *)
(***************************************************************************)
EXTENDS Naturals, Sequences, FiniteSets

CONSTANTS
  Threads,    \* the application's threads
  Owner,      \* the one that constructs, connects and destroys the object
  Readers,    \* the ones that call read()
  NoMarker,   \* arrivals without a start-of-message byte
  MaxSends,   \* bound: number of send() calls
  MaxChunks,  \* bound: number of chunks the device sends
  MaxCloses   \* bound: close handlers in io_ when close() is called

ASSUME ThreadsAssumption ==
  /\ Owner \in Threads
  /\ Readers \subseteq Threads
  /\ {"io", "free"} \cap Threads = {}

ASSUME BoundsAssumption ==
  MaxSends \in Nat /\ MaxChunks \in Nat /\ MaxCloses \in Nat

VARIABLES
  connected,       \* connected_
  shutdown,        \* shutdown_
  socketOpen,      \* socket_.is_open()
  messageQueue,    \* messageQueue_
  readQueue,       \* readQueue_
  readQueueMutex,  \* its holder
  iothread,        \* iothread_ and its call of io_.run()
  object,          \* the BtConnection itself; "undefined": C++ gives no meaning,
                   \* "terminated": the process was ended by std::terminate
  pc,              \* where each application thread is
  ioq,             \* io_: handlers that are ready to run
  reads, writes,   \* io_: operations started and not completed
  handling,        \* the read handler while it is in readHandler()
  link,            \* the RFCOMM link
  arrived, consumed, \* chunks received by the host, chunks read from the socket
  reopened,        \* connect() opened the socket again after it was closed
  cancelled,       \* the write that was under way then: it can only fail
  accepted,        \* number of messages taken by send()
  wire,            \* messages completely written to the link
  taken            \* records returned by read()

flags  == <<connected, shutdown>>
life   == <<object, iothread, socketOpen>>
io     == <<ioq, reads, writes>>
outbox == <<accepted, messageQueue, wire>>
inbox  == <<readQueue, readQueueMutex, taken>>
sockets == <<reopened, cancelled>>
os     == <<link, arrived, consumed, sockets>>
vars   == <<flags, life, pc, io, handling, outbox, inbox, os>>

Blank == 0   \* a record of zeros

Handlers == [kind : {"send", "close", "read", "write"}, arg : Nat, err : BOOLEAN]
Handler(kind, arg, err) == [kind |-> kind, arg |-> arg, err |-> err]

Init ==
  /\ connected = FALSE /\ shutdown = FALSE /\ socketOpen = TRUE
  /\ messageQueue = <<>> /\ readQueue = <<>> /\ readQueueMutex = "free"
  /\ iothread = "none" /\ object = "alive"
  /\ pc = [t \in Threads |-> "idle"]
  /\ ioq = <<>> /\ reads = 0 /\ writes = <<>>
  /\ handling = [step |-> "none", chunk |-> Blank]
  /\ link = "down" /\ arrived = 0 /\ consumed = 0
  /\ reopened = FALSE /\ cancelled = FALSE
  /\ accepted = 0 /\ wire = <<>> /\ taken = <<>>

Calls(t) == object = "alive" /\ pc[t] = "idle"
Goto(t, label) == pc' = [pc EXCEPT ![t] = label]

-----------------------------------------------------------------------------
(* connect().  The socket connects when it is open and not connected       *)
(* (link = "down"); a connected socket refuses, which changes nothing.  A  *)
(* socket that the io thread closed is opened again by socket_.connect:    *)
(* what was pending on it stays cancelled, and shutdown_ stays set, so     *)
(* nothing is ever read from the new one.                                  *)

Bug_ReadAsyncUnchecked == reads' = reads + 1
Bug_ReadAsyncInverted == reads' = IF shutdown THEN reads + 1 ELSE reads

ReadAsync == reads' = IF shutdown THEN reads ELSE reads + 1

ConnectOpens ==
  /\ Calls(Owner)
  /\ ~socketOpen
  /\ socketOpen' = TRUE
  /\ link' = "down"
  /\ reopened' = TRUE
  /\ cancelled' = (writes # <<>>)
  /\ Goto(Owner, "connect")
  /\ UNCHANGED <<flags, object, iothread, io, handling, outbox, inbox, arrived, consumed>>

ConnectSocket ==
  /\ Calls(Owner) \/ pc[Owner] = "connect"
  /\ socketOpen /\ link = "down"
  /\ link' = "up"
  /\ connected' = TRUE
  /\ Goto(Owner, "arm")
  /\ UNCHANGED <<shutdown, life, io, handling, outbox, inbox, arrived, consumed, sockets>>

(* No answer, or the close handler has closed the socket again: an         *)
(* exception.  On an open socket such a call changes nothing.              *)
ConnectFails ==
  /\ pc[Owner] = "connect"
  /\ Goto(Owner, "idle")
  /\ UNCHANGED <<flags, life, io, handling, outbox, inbox, os>>

ConnectReads ==
  /\ pc[Owner] = "arm"
  /\ ReadAsync
  /\ Goto(Owner, "spawn")
  /\ UNCHANGED <<flags, life, ioq, writes, handling, outbox, inbox, os>>

Joinable == iothread \in {"running", "finished"}

(* std::thread may fail to start one, an exception with the rest done.     *)
ConnectSpawns ==
  /\ pc[Owner] = "spawn"
  /\ iothread' \in IF Joinable THEN {iothread} ELSE {"running", "failed"}
  /\ Goto(Owner, "idle")
  /\ UNCHANGED <<flags, object, socketOpen, io, handling, outbox, inbox, os>>

(* The new thread is assigned to an iothread_ that nobody has joined.      *)
ConnectTerminates ==
  /\ pc[Owner] = "spawn"
  /\ Joinable
  /\ object' = "terminated"
  /\ UNCHANGED <<flags, iothread, socketOpen, pc, io, handling, outbox, inbox, os>>

-----------------------------------------------------------------------------
(* send(), read(), close(), shutdown() and the destructor.  Without        *)
(* connected_, send() and read() throw and change nothing.                 *)

Send(t) ==
  /\ Calls(t)
  /\ connected
  /\ accepted < MaxSends
  /\ accepted' = accepted + 1
  /\ ioq' = Append(ioq, Handler("send", accepted', FALSE))
  /\ UNCHANGED <<flags, life, pc, reads, writes, handling, messageQueue, wire,
                 inbox, os>>

ReadBegin(t) ==
  /\ t \in Readers
  /\ Calls(t)
  /\ connected
  /\ Goto(t, "wait")
  /\ UNCHANGED <<flags, life, io, handling, outbox, inbox, os>>

Bug_ReadSees(t) ==
  /\ pc[t] = "wait"
  /\ Goto(t, "lock")
  /\ UNCHANGED <<flags, life, io, handling, outbox, inbox, os>>

(* The loop around sleep_for leaves once it sees data: it holds no lock.   *)
ReadSees(t) ==
  /\ pc[t] = "wait"
  /\ readQueue # <<>>
  /\ Goto(t, "lock")
  /\ UNCHANGED <<flags, life, io, handling, outbox, inbox, os>>

Bug_Lock(by) == readQueueMutex' = by

Lock(by) ==
  /\ readQueueMutex = "free"
  /\ readQueueMutex' = by

Unlock == readQueueMutex' = "free"

ReadLock(t) ==
  /\ pc[t] = "lock"
  /\ Lock(t)
  /\ Goto(t, "pop")
  /\ UNCHANGED <<flags, life, io, handling, outbox, readQueue, taken, os>>

(* back() and pop_back() of an empty deque are undefined.                  *)
ReadPop(t) ==
  /\ pc[t] = "pop"
  /\ \/ /\ readQueue # <<>>
        /\ taken' = Append(taken, readQueue[Len(readQueue)])
        /\ readQueue' = SubSeq(readQueue, 1, Len(readQueue) - 1)
        /\ Unlock
        /\ Goto(t, "idle")
        /\ UNCHANGED object
     \/ /\ readQueue = <<>>
        /\ object' = "undefined"
        /\ UNCHANGED <<pc, inbox>>
  /\ UNCHANGED <<flags, iothread, socketOpen, io, handling, outbox, os>>

Shutdown(t) ==
  /\ Calls(t)
  /\ shutdown' = TRUE
  /\ UNCHANGED <<connected, life, pc, io, handling, outbox, inbox, os>>

Bug_PostClose(q) == q

PostClose(q) == IF socketOpen THEN Append(q, Handler("close", 0, FALSE)) ELSE q

Ready(kind) == {i \in DOMAIN ioq : ioq[i].kind = kind}

Close(t) ==
  /\ Calls(t)
  /\ Cardinality(Ready("close")) < MaxCloses
  /\ shutdown' = TRUE
  /\ Goto(t, "close")
  /\ UNCHANGED <<connected, life, io, handling, outbox, inbox, os>>

Bug_ClosePosts(t) ==
  /\ pc[t] = "close"
  /\ ioq' = PostClose(ioq)
  /\ Goto(t, "join")
  /\ UNCHANGED <<flags, life, reads, writes, handling, outbox, inbox, os>>

Bug_ClosesSocket(t) ==
  /\ pc[t] = "close"
  /\ socketOpen' = FALSE
  /\ Goto(t, IF object = "dying" THEN "join" ELSE "idle")
  /\ UNCHANGED <<flags, object, iothread, io, handling, outbox, inbox, os>>

ClosePosts(t) ==
  /\ pc[t] = "close"
  /\ ioq' = PostClose(ioq)
  /\ Goto(t, IF object = "dying" THEN "join" ELSE "idle")
  /\ UNCHANGED <<flags, life, reads, writes, handling, outbox, inbox, os>>

(* The destructor is called when no thread is inside a call: it calls      *)
(* close(), joins the thread and destroys the members.                     *)
Destroy ==
  /\ object = "alive"
  /\ \A t \in Threads : pc[t] = "idle"
  /\ object' = "dying"
  /\ shutdown' = TRUE
  /\ Goto(Owner, "close")
  /\ UNCHANGED <<connected, iothread, socketOpen, io, handling, outbox, inbox, os>>

Bug_Joined == TRUE

Joined == iothread # "running"

Join ==
  /\ pc[Owner] = "join"
  /\ Joined
  /\ object' = "destroyed"
  /\ socketOpen' = FALSE
  /\ UNCHANGED <<flags, iothread, pc, io, handling, outbox, inbox, os>>

-----------------------------------------------------------------------------
(* The thread iothread_: io_.run() takes the ready handlers one by one.    *)

Runs(kind) ==
  /\ iothread = "running"
  /\ handling.step = "none"
  /\ ioq # <<>>
  /\ Head(ioq).kind = kind

DoSend(queue) == writes' = Append(writes, Head(queue))

Bug_QEmpty == TRUE

QEmpty == messageQueue = <<>>

RunSend ==
  /\ Runs("send")
  /\ messageQueue' = Append(messageQueue, Head(ioq).arg)
  /\ IF QEmpty THEN DoSend(messageQueue') ELSE UNCHANGED writes
  /\ ioq' = Tail(ioq)
  /\ UNCHANGED <<flags, life, pc, reads, handling, accepted, wire, inbox, os>>

Bug_PopFront(queue) == SubSeq(queue, 1, Len(queue) - 1)

PopFront(queue) == Tail(queue)

Bug_SendsNext(queue) == Len(queue) > 1 /\ ~shutdown

SendsNext(queue) == queue # <<>> /\ ~shutdown

RunWritten ==
  /\ Runs("write")
  /\ ~Head(ioq).err
  /\ messageQueue' = PopFront(messageQueue)
  /\ IF SendsNext(messageQueue') THEN DoSend(messageQueue') ELSE UNCHANGED writes
  /\ ioq' = Tail(ioq)
  /\ UNCHANGED <<flags, life, pc, reads, handling, accepted, wire, inbox, os>>

(* On an error the handler calls close(); nobody else closes the socket,   *)
(* and one that is opened again is already shut down, so its two steps are *)
(* one here.                                                               *)
RunWriteFailed ==
  /\ Runs("write")
  /\ Head(ioq).err
  /\ shutdown' = TRUE
  /\ ioq' = PostClose(Tail(ioq))
  /\ UNCHANGED <<connected, life, pc, reads, writes, handling, outbox, inbox, os>>

Bug_RunClose ==
  /\ Runs("close")
  /\ ioq' = Tail(ioq)
  /\ UNCHANGED <<flags, life, pc, reads, writes, handling, outbox, inbox, os>>

RunClose ==
  /\ Runs("close")
  /\ socketOpen' = FALSE
  /\ ioq' = Tail(ioq)
  /\ UNCHANGED <<flags, object, iothread, pc, reads, writes, handling, outbox,
                 inbox, os>>

RunReadFailed ==
  /\ Runs("read")
  /\ Head(ioq).err
  /\ ReadAsync
  /\ ioq' = Tail(ioq)
  /\ UNCHANGED <<flags, life, pc, writes, handling, outbox, inbox, os>>

Bug_RunRead ==
  /\ Runs("read")
  /\ ~Head(ioq).err
  /\ handling' = [step |-> "lock", chunk |-> Head(ioq).arg]
  /\ ReadAsync
  /\ ioq' = Tail(ioq)
  /\ UNCHANGED <<flags, life, pc, writes, outbox, inbox, os>>

RunRead ==
  /\ Runs("read")
  /\ ~Head(ioq).err
  /\ handling' = IF shutdown THEN handling
                 ELSE [step |-> "lock", chunk |-> Head(ioq).arg]
  /\ ioq' = Tail(ioq)
  /\ UNCHANGED <<flags, life, pc, reads, writes, outbox, inbox, os>>

(* readHandler(): the new record is in the queue, visible to the unlocked  *)
(* empty() of read(), before it is filled.                                 *)
HandlerPush ==
  /\ handling.step = "lock"
  /\ Lock("io")
  /\ readQueue' = Append(readQueue, Blank)
  /\ handling' = [handling EXCEPT !.step = "copy"]
  /\ UNCHANGED <<flags, life, pc, io, outbox, taken, os>>

Bug_Fill(queue, record) == [queue EXCEPT ![1] = record]

Fill(queue, record) == [queue EXCEPT ![Len(queue)] = record]

(* Without a marker the search leaves the buffer and std::copy gets an end *)
(* before its beginning.                                                   *)
HandlerCopy ==
  /\ handling.step = "copy"
  /\ \/ /\ handling.chunk \notin NoMarker
        /\ readQueue' = Fill(readQueue, handling.chunk)
        /\ ReadAsync
        /\ Unlock
        /\ handling' = [step |-> "none", chunk |-> Blank]
        /\ UNCHANGED object
     \/ /\ handling.chunk \in NoMarker
        /\ object' = "undefined"
        /\ UNCHANGED <<reads, handling, readQueue, readQueueMutex>>
  /\ UNCHANGED <<flags, iothread, socketOpen, pc, ioq, writes, outbox, taken, os>>

(* run() returns when no handler is ready and no operation is pending; a   *)
(* handler posted later is never run.                                      *)
RunReturns ==
  /\ iothread = "running"
  /\ handling.step = "none"
  /\ ioq = <<>> /\ reads = 0 /\ writes = <<>>
  /\ iothread' = "finished"
  /\ UNCHANGED <<flags, object, socketOpen, pc, io, handling, outbox, inbox, os>>

-----------------------------------------------------------------------------
(* The operating system completes the operations; the device and the link. *)

Connection == socketOpen /\ link = "up"

ReadCompletes ==
  /\ reads > 0
  /\ socketOpen /\ ~reopened
  /\ consumed < arrived
  /\ consumed' = consumed + 1
  /\ reads' = reads - 1
  /\ ioq' = Append(ioq, Handler("read", consumed', FALSE))
  /\ UNCHANGED <<flags, life, pc, writes, handling, outbox, inbox, link, arrived, sockets>>

ReadFails ==
  /\ reads > 0
  /\ ~Connection \/ reopened
  /\ reads' = reads - 1
  /\ ioq' = Append(ioq, Handler("read", 0, TRUE))
  /\ UNCHANGED <<flags, life, pc, writes, handling, outbox, inbox, os>>

WriteCompletes ==
  /\ writes # <<>>
  /\ Connection /\ ~cancelled
  /\ wire' = Append(wire, Head(writes))
  /\ writes' = Tail(writes)
  /\ ioq' = Append(ioq, Handler("write", Head(writes), FALSE))
  /\ UNCHANGED <<flags, life, pc, reads, handling, accepted, messageQueue, inbox, os>>

WriteFails ==
  /\ writes # <<>>
  /\ ~Connection \/ cancelled
  /\ writes' = Tail(writes)
  /\ ioq' = Append(ioq, Handler("write", Head(writes), TRUE))
  /\ cancelled' = FALSE
  /\ UNCHANGED <<flags, life, pc, reads, handling, outbox, inbox, link, arrived, consumed,
                 reopened>>

DeviceSends ==
  /\ link = "up"
  /\ arrived < MaxChunks
  /\ arrived' = arrived + 1
  /\ UNCHANGED <<flags, life, pc, io, handling, outbox, inbox, link, consumed, sockets>>

LinkLost ==
  /\ link = "up"
  /\ link' = "lost"
  /\ UNCHANGED <<flags, life, pc, io, handling, outbox, inbox, arrived, consumed, sockets>>

-----------------------------------------------------------------------------
Call(t) == Send(t) \/ ReadBegin(t) \/ Shutdown(t) \/ Close(t)

Continue(t) == ReadSees(t) \/ ReadLock(t) \/ ReadPop(t) \/ ClosePosts(t)

Construction ==
  ConnectFails \/ ConnectReads \/ ConnectSpawns \/ ConnectTerminates \/ Join

Io ==
  \/ RunSend \/ RunWritten \/ RunWriteFailed \/ RunClose
  \/ RunReadFailed \/ RunRead \/ HandlerPush \/ HandlerCopy \/ RunReturns

Os == ReadCompletes \/ ReadFails \/ WriteCompletes \/ WriteFails

Next ==
  /\ object \in {"alive", "dying"}
  /\ \/ ConnectOpens \/ ConnectSocket \/ Destroy \/ Construction
     \/ \E t \in Threads : Call(t) \/ Continue(t)
     \/ Io \/ Os \/ DeviceSends \/ LinkLost

Spec == Init /\ [][Next]_vars

(* The scheduler runs a thread that can run, and the operating system ends *)
(* an operation that can end.  No call, and no event of the link, is fair. *)
Fairness ==
  /\ WF_vars(object \in {"alive", "dying"} /\ Io)
  /\ WF_vars(object \in {"alive", "dying"} /\ Construction)
  /\ \A t \in Threads : WF_vars(object \in {"alive", "dying"} /\ Continue(t))
  /\ WF_vars(object \in {"alive", "dying"} /\ (ReadCompletes \/ ReadFails))
  /\ WF_vars(object \in {"alive", "dying"} /\ (WriteCompletes \/ WriteFails))

FairSpec == Spec /\ Fairness

-----------------------------------------------------------------------------
(* Every variable has its type; only the owner connects and joins, only    *)
(* readers wait for data (the calls of connect, read and the destructor).  *)
Labels == {"idle", "connect", "arm", "spawn", "wait", "lock", "pop", "close", "join"}

TypeOK ==
  /\ connected \in BOOLEAN /\ shutdown \in BOOLEAN /\ socketOpen \in BOOLEAN
  /\ messageQueue \in Seq(Nat)
  /\ readQueue \in Seq(Nat)
  /\ readQueueMutex \in Threads \cup {"io", "free"}
  /\ iothread \in {"none", "failed", "running", "finished"}
  /\ object \in {"alive", "dying", "destroyed", "undefined", "terminated"}
  /\ pc \in [Threads -> Labels]
  /\ \A t \in Threads : pc[t] \in {"connect", "arm", "spawn", "join"} => t = Owner
  /\ \A t \in Threads : pc[t] \in {"wait", "lock", "pop"} => t \in Readers
  /\ ioq \in Seq(Handlers) /\ reads \in Nat /\ writes \in Seq(Nat)
  /\ handling \in [step : {"none", "lock", "copy"}, chunk : Nat]
  /\ link \in {"down", "up", "lost"}
  /\ arrived \in Nat /\ consumed \in Nat /\ reopened \in BOOLEAN /\ cancelled \in BOOLEAN
  /\ accepted \in Nat /\ wire \in Seq(Nat) /\ taken \in Seq(Nat)

(* At most one async_write is under way, counted until its handler runs,   *)
(* and its buffer belongs to the front of messageQueue_, which keeps the   *)
(* message alive (doSend).                                                 *)
OneWrite ==
  /\ Len(writes) <= 1
  /\ \A i, j \in Ready("write") : i = j
  /\ writes # <<>> =>
       /\ Ready("write") = {}
       /\ messageQueue # <<>> /\ Head(writes) = Head(messageQueue)
  /\ \A i \in Ready("write") :
       messageQueue # <<>> /\ ioq[i].arg = Head(messageQueue)

(* recv_buffer_ has one user: a pending read, its completion, or the read  *)
(* handler that copies it (readAsync, readHandler).                        *)
OneRead ==
  /\ reads <= 1
  /\ \A i, j \in Ready("read") : i = j
  /\ reads > 0 \/ handling.step # "none" => Ready("read") = {}
  /\ reads > 0 => handling.step = "none"

(* Until shutdown the front of messageQueue_ is being written: no message  *)
(* waits behind a writer that went to sleep (send, doSend).                *)
QueueMoves ==
  ~shutdown /\ messageQueue # <<>> =>
    writes # <<>> \/ Ready("write") # {}

Occurrences(n, s) == Cardinality({i \in DOMAIN s : s[i] = n})

Places(n) ==
  Cardinality({i \in Ready("read") : ~ioq[i].err /\ ioq[i].arg = n})
    + (IF handling.chunk = n THEN 1 ELSE 0)
    + Occurrences(n, readQueue) + Occurrences(n, taken)

(* A chunk read from the socket is in one place on its way to one caller   *)
(* of read(): never twice, and never lost before shutdown.                 *)
ChunksAccounted ==
  \A n \in 1 .. consumed : Places(n) <= 1 /\ (~shutdown => Places(n) = 1)

(* read() never returns the blank record readHandler() pushes before it    *)
(* copies the bytes, although it looks at the queue without the lock.      *)
RecordsFilled == \A i \in DOMAIN taken : taken[i] # Blank

(* A reader that holds the lock finds what it waited for.                  *)
ReadFindsData == \A t \in Threads : pc[t] = "pop" => readQueue # <<>>

(* Once the destructor is through, no operation and no handler uses the    *)
(* members any more, unless the thread never started.                      *)
NoUseAfterDestroy ==
  object = "destroyed" /\ iothread # "failed" =>
    /\ iothread # "running" /\ handling.step = "none"
    /\ reads = 0 /\ writes = <<>>

(* Only the thread closes the socket, and connect() ends the process only  *)
(* when it has opened it again: not the first time, nor when it is tried   *)
(* again after a failure, before or after it was connected (connect,       *)
(* close).                                                                 *)
ClosedByThread ==
  /\ ~socketOpen \/ reopened => Joinable \/ object = "destroyed"
  /\ object = "terminated" => reopened

(* The destructor ends: close() wakes the thread it joins.                 *)
DestructorTerminates == object = "dying" ~> object \in {"destroyed", "undefined"}

Closing == \E t \in Threads : pc[t] = "close"

(* close() stops the thread for good, even when it races run() returning   *)
(* or comes before connect(), unless the application keeps connecting and  *)
(* closing for ever.                                                       *)
CloseStopsIo ==
  Closing ~>
    [](iothread # "running" \/ object \in {"undefined", "terminated"}) \/ []<>Closing

(* What send() takes once the close handler is posted is never written on  *)
(* the connection that is being closed: it can only get out after the      *)
(* application has opened the socket again, while that connect() has not   *)
(* ended the process yet (send and its note on active connections, close,  *)
(* connect).                                                               *)
LateSendsLost ==
  \A n \in 1 .. MaxSends :
    [](accepted < n /\ (Ready("close") # {} \/ ~socketOpen) =>
         []((\E i \in DOMAIN wire : wire[i] = n) => reopened))

(* On a connection that stays up, what arrives reaches the input queue.    *)
ArrivalsReachQueue ==
  \A n \in 1 .. MaxChunks :
    arrived >= n ~>
      \/ Occurrences(n, readQueue) + Occurrences(n, taken) > 0
      \/ shutdown \/ link = "lost" \/ object # "alive" \/ iothread = "failed"

(* send() keeps the promise of Outbox.                                     *)
Broken ==
  shutdown \/ link = "lost" \/ object \in {"destroyed", "undefined"} \/ iothread = "failed"

Promise == INSTANCE Outbox WITH broken <- Broken
SendsInOrder == Promise!Spec
SendsDelivered == Promise!FairSpec

(* readHandler() and read() keep the promise of Inbox, whose records are   *)
(* all but the one readHandler() is filling.                               *)
Records ==
  IF handling.step = "copy" THEN SubSeq(readQueue, 1, Len(readQueue) - 1) ELSE readQueue

Gift == INSTANCE Inbox WITH records <- Records
ReadsNewest == Gift!Spec

-----------------------------------------------------------------------------
(* What the comments of BtConnection.h say and the code does not do.       *)

(* "This method expects that the current state of this object has an       *)
(* active connection, otherwise an exception is thrown": send and read.    *)
CallsNeedConnection ==
  [][\A t \in Threads : Send(t) \/ ReadBegin(t) => socketOpen]_vars
=============================================================================
