------------------------- MODULE BtConnectionProofs -------------------------
(***************************************************************************)
(* Proofs about BtConnection, for every set of threads and every bound:    *)
(* the variables keep their types, at most one write is under way, and its *)
(* life cycle: connect() starts the io thread once, only that thread closes*)
(* the socket, and after the destructor nothing uses the members.          *)
(***************************************************************************)
EXTENDS BtConnection, SequenceTheorems, TLAPS

-----------------------------------------------------------------------------
(* Queues of handlers.                                                     *)

(* At most one handler of kind k in q, none, and all with argument a.      *)
AtMostOne(q, k)  == \A i, j \in DOMAIN q : q[i].kind = k /\ q[j].kind = k => i = j
NoneOf(q, k)     == \A i \in DOMAIN q : q[i].kind # k
AllArgs(q, k, a) == \A i \in DOMAIN q : q[i].kind = k => q[i].arg = a

LEMMA HandlerType ==
  ASSUME NEW k \in {"send", "close", "read", "write"}, NEW a \in Nat, NEW e \in BOOLEAN
  PROVE  /\ Handler(k, a, e) \in Handlers
         /\ Handler(k, a, e).kind = k /\ Handler(k, a, e).arg = a
         /\ Handler(k, a, e).err = e
BY DEF Handler, Handlers

LEMMA CloseHandler ==
  Handler("close", 0, FALSE) \in Handlers /\ Handler("close", 0, FALSE).kind = "close"
BY DEF Handler, Handlers

LEMMA HeadHandler ==
  ASSUME NEW q \in Seq(Handlers), q # <<>>
  PROVE  /\ Head(q) \in Handlers /\ Tail(q) \in Seq(Handlers)
         /\ Head(q).arg \in Nat /\ Head(q).err \in BOOLEAN
         /\ 1 \in DOMAIN q /\ q[1] = Head(q)
<1>1. Head(q) \in Handlers /\ Tail(q) \in Seq(Handlers)
  OBVIOUS
<1>2. 1 \in DOMAIN q /\ q[1] = Head(q)
  OBVIOUS
<1> QED
  BY <1>1, <1>2 DEF Handlers

LEMMA AppendShape ==
  ASSUME NEW S, NEW q \in Seq(S), NEW h \in S
  PROVE  /\ Append(q, h) \in Seq(S)
         /\ DOMAIN Append(q, h) = DOMAIN q \cup {Len(q) + 1}
         /\ Len(q) + 1 \notin DOMAIN q
         /\ Append(q, h)[Len(q) + 1] = h
         /\ \A i \in DOMAIN q : Append(q, h)[i] = q[i]
OBVIOUS

LEMMA TailShape ==
  ASSUME NEW S, NEW q \in Seq(S), q # <<>>
  PROVE  /\ Tail(q) \in Seq(S)
         /\ \A i \in DOMAIN Tail(q) : i \in Nat /\ i + 1 \in DOMAIN q /\ Tail(q)[i] = q[i + 1]
         /\ \A i \in DOMAIN Tail(q) : i + 1 # 1
<1>1. DOMAIN Tail(q) = 1 .. Len(q) - 1 /\ Len(q) \in Nat /\ DOMAIN q = 1 .. Len(q)
  BY HeadTailProperties, LenProperties
<1> QED
  BY <1>1, HeadTailProperties

LEMMA AppendHandler ==
  ASSUME NEW q \in Seq(Handlers), NEW h \in Handlers, NEW k, NEW a
  PROVE  /\ h.kind # k /\ AtMostOne(q, k) => AtMostOne(Append(q, h), k)
         /\ h.kind # k /\ NoneOf(q, k) => NoneOf(Append(q, h), k)
         /\ h.kind # k /\ AllArgs(q, k, a) => AllArgs(Append(q, h), k, a)
         /\ NoneOf(q, k) => AtMostOne(Append(q, h), k) /\ AllArgs(Append(q, h), k, h.arg)
BY AppendShape DEF AtMostOne, NoneOf, AllArgs

LEMMA TailHandler ==
  ASSUME NEW q \in Seq(Handlers), q # <<>>, NEW k, NEW a
  PROVE  /\ AtMostOne(q, k) => AtMostOne(Tail(q), k)
         /\ NoneOf(q, k) => NoneOf(Tail(q), k)
         /\ AllArgs(q, k, a) => AllArgs(Tail(q), k, a)
         /\ AtMostOne(q, k) /\ Head(q).kind = k => NoneOf(Tail(q), k)
<1>1. AtMostOne(q, k) => AtMostOne(Tail(q), k)
  BY TailShape DEF AtMostOne
<1>2. NoneOf(q, k) => NoneOf(Tail(q), k)
  BY TailShape DEF NoneOf
<1>3. AllArgs(q, k, a) => AllArgs(Tail(q), k, a)
  BY TailShape DEF AllArgs
<1>4. AtMostOne(q, k) /\ Head(q).kind = k => NoneOf(Tail(q), k)
  BY TailShape, HeadHandler DEF AtMostOne, NoneOf
<1> QED
  BY <1>1, <1>2, <1>3, <1>4

LEMMA AppendHead ==
  ASSUME NEW w \in Seq(Nat), NEW q \in Seq(Nat), q # <<>>
  PROVE  Append(w, Head(q)) \in Seq(Nat)
OBVIOUS

LEMMA PostCloseType ==
  ASSUME NEW q \in Seq(Handlers), socketOpen \in BOOLEAN
  PROVE  /\ PostClose(q) \in Seq(Handlers)
         /\ \A k, a : k # "close" =>
              /\ AtMostOne(q, k) => AtMostOne(PostClose(q), k)
              /\ NoneOf(q, k) => NoneOf(PostClose(q), k)
              /\ AllArgs(q, k, a) => AllArgs(PostClose(q), k, a)
<1> DEFINE h == Handler("close", 0, FALSE)
<1>1. h \in Handlers /\ h.kind = "close"
  BY DEF Handler, Handlers
<1> HIDE DEF h
<1>2. CASE socketOpen
  <2>1. PostClose(q) = Append(q, h)
    BY <1>2 DEF PostClose, h
  <2> QED
    BY <1>1, <2>1, AppendHandler, AppendShape
<1>3. CASE ~socketOpen
  BY <1>3 DEF PostClose
<1> QED
  BY <1>2, <1>3

(* The handlers of kind k in q are in S.                                   *)
KindIn(q, k, S) == \A i \in DOMAIN q : q[i].kind = k => q[i] \in S

LEMMA KindInQueue ==
  ASSUME NEW q \in Seq(Handlers), NEW k, NEW S
  PROVE  /\ \A h \in Handlers :
              KindIn(Append(q, h), k, S) <=> KindIn(q, k, S) /\ (h.kind = k => h \in S)
         /\ q # <<>> =>
              (KindIn(q, k, S) <=> KindIn(Tail(q), k, S) /\ (Head(q).kind = k => Head(q) \in S))
         /\ NoneOf(q, k) => KindIn(q, k, S)
<1>1. ASSUME NEW h \in Handlers
      PROVE  KindIn(Append(q, h), k, S) <=> KindIn(q, k, S) /\ (h.kind = k => h \in S)
  BY AppendShape DEF KindIn
<1>2. ASSUME q # <<>>
      PROVE  KindIn(q, k, S) <=> KindIn(Tail(q), k, S) /\ (Head(q).kind = k => Head(q) \in S)
  <2>1. KindIn(q, k, S) => KindIn(Tail(q), k, S) /\ (Head(q).kind = k => Head(q) \in S)
    BY <1>2, TailShape, HeadHandler DEF KindIn
  <2>2. ASSUME KindIn(Tail(q), k, S), Head(q).kind = k => Head(q) \in S, NEW i \in DOMAIN q
        PROVE  q[i].kind = k => q[i] \in S
    <3>1. CASE i = 1
      BY <1>2, <2>2, <3>1, HeadHandler
    <3>2. CASE i # 1
      <4>1. i - 1 \in DOMAIN Tail(q) /\ Tail(q)[i - 1] = q[i]
        BY <1>2, <3>2, LenProperties, HeadTailProperties
      <4> QED
        BY <2>2, <4>1 DEF KindIn
    <3> QED
      BY <3>1, <3>2
  <2> QED
    BY <2>1, <2>2 DEF KindIn
<1>3. NoneOf(q, k) => KindIn(q, k, S)
  BY DEF NoneOf, KindIn
<1> QED
  BY <1>1, <1>2, <1>3

LEMMA KindInPostClose ==
  ASSUME NEW q \in Seq(Handlers), NEW k, k # "close", NEW S
  PROVE  KindIn(PostClose(q), k, S) <=> KindIn(q, k, S)
<1>1. CASE socketOpen
  <2>1. /\ Handler("close", 0, FALSE) \in Handlers
        /\ Handler("close", 0, FALSE).kind = "close"
    BY CloseHandler
  <2> QED
    BY <1>1, <2>1, KindInQueue DEF PostClose
<1>2. CASE ~socketOpen
  BY <1>2 DEF PostClose
<1> QED
  BY <1>1, <1>2

Failed == {h \in Handlers : h.err}

LEMMA PopBack ==
  ASSUME NEW q \in Seq(Nat), q # <<>>
  PROVE  q[Len(q)] \in Nat /\ SubSeq(q, 1, Len(q) - 1) \in Seq(Nat)
<1>1. Len(q) \in Nat /\ Len(q) > 0
  OBVIOUS
<1> QED
  BY <1>1

LEMMA FillType ==
  ASSUME NEW q \in Seq(Nat), NEW n \in Nat
  PROVE  [q EXCEPT ![Len(q)] = n] \in Seq(Nat)
<1>1. Len(q) \in Nat /\ q \in [1 .. Len(q) -> Nat]
  OBVIOUS
<1>2. [q EXCEPT ![Len(q)] = n] \in [1 .. Len(q) -> Nat]
  BY <1>1
<1> QED
  BY <1>1, <1>2

-----------------------------------------------------------------------------
(* Types, in three parts.  RunWritten takes the front of messageQueue, so  *)
(* the type of the queue is kept only together with OneWrite: it is not    *)
(* empty then.                                                             *)

(* The threads: once the destructor runs, only its own is in the object.   *)
CallsOK ==
  /\ iothread \in {"none", "failed", "running", "finished"}
  /\ object \in {"alive", "dying", "destroyed", "undefined", "terminated"}
  /\ pc \in [Threads -> Labels]
  /\ \A t \in Threads : pc[t] \in {"connect", "arm", "spawn", "join"} => t = Owner
  /\ \A t \in Threads : pc[t] \in {"wait", "lock", "pop"} => t \in Readers
  /\ object = "dying" => \A t \in Threads : pc[t] # "idle" => t = Owner

FlagsOK ==
  /\ connected \in BOOLEAN /\ shutdown \in BOOLEAN /\ socketOpen \in BOOLEAN
  /\ readQueueMutex \in Threads \cup {"io", "free"}
  /\ link \in {"down", "up", "lost"} /\ reopened \in BOOLEAN /\ cancelled \in BOOLEAN

DataOK ==
  /\ messageQueue \in Seq(Nat) /\ writes \in Seq(Nat) /\ wire \in Seq(Nat)
  /\ readQueue \in Seq(Nat) /\ taken \in Seq(Nat)
  /\ ioq \in Seq(Handlers)
  /\ reads \in Nat /\ accepted \in Nat /\ arrived \in Nat /\ consumed \in Nat
  /\ handling \in [step : {"none", "lock", "copy"}, chunk : Nat]

TypeInv == CallsOK /\ FlagsOK /\ DataOK

LEMMA TypeInit == Init => TypeInv
<1> SUFFICES ASSUME Init PROVE TypeInv
  OBVIOUS
<1>1. CallsOK
  <2>1. pc \in [Threads -> Labels] /\ \A t \in Threads : pc[t] = "idle"
    BY DEF Init, Labels
  <2> QED
    BY <2>1 DEF Init, CallsOK
<1>2. FlagsOK
  BY DEF Init, FlagsOK
<1>3. DataOK
  BY DEF Init, DataOK, Blank
<1> QED
  BY <1>1, <1>2, <1>3 DEF TypeInv

LEMMA CallsNext ==
  ASSUME CallsOK, [Next]_vars PROVE CallsOK'
<1> USE DEF CallsOK, Calls, Goto, Labels
<1>u. CASE UNCHANGED <<object, iothread, pc>>
  BY <1>u
<1>1. CASE ConnectOpens \/ ConnectSocket \/ ConnectFails
  BY <1>1, ThreadsAssumption DEF ConnectOpens, ConnectSocket, ConnectFails, life
<1>2. CASE ConnectReads
  BY <1>2, ThreadsAssumption DEF ConnectReads, life
<1>3. CASE ConnectSpawns
  BY <1>3, ThreadsAssumption DEF ConnectSpawns, Joinable
<1>4. ASSUME NEW t \in Threads, ReadBegin(t) PROVE CallsOK'
  BY <1>4 DEF ReadBegin, life
<1>5. ASSUME NEW t \in Threads, ReadSees(t) PROVE CallsOK'
  BY <1>5 DEF ReadSees, life
<1>6. ASSUME NEW t \in Threads, ReadLock(t) PROVE CallsOK'
  BY <1>6 DEF ReadLock, life
<1>7. ASSUME NEW t \in Threads, ReadPop(t) PROVE CallsOK'
  BY <1>7 DEF ReadPop
<1>8. ASSUME NEW t \in Threads, Close(t) PROVE CallsOK'
  BY <1>8 DEF Close, life
<1>9. ASSUME NEW t \in Threads, ClosePosts(t) PROVE CallsOK'
  BY <1>9 DEF ClosePosts, life
<1>10. CASE Destroy
  BY <1>10, ThreadsAssumption DEF Destroy
<1>11. CASE Join \/ ConnectTerminates
  BY <1>11 DEF Join, ConnectTerminates
<1>12. CASE HandlerCopy
  BY <1>12 DEF HandlerCopy
<1>13. CASE RunReturns
  BY <1>13 DEF RunReturns
<1>14. ASSUME NEW t \in Threads, Send(t) \/ Shutdown(t)
       PROVE  UNCHANGED <<object, iothread, pc>>
  BY <1>14 DEF Send, Shutdown, life
<1>15. CASE RunSend \/ RunWritten \/ RunWriteFailed \/ RunClose \/ RunReadFailed
              \/ RunRead \/ HandlerPush
  BY <1>u, <1>15
  DEF RunSend, RunWritten, RunWriteFailed, RunClose, RunReadFailed, RunRead,
      HandlerPush, life
<1>16. CASE Os \/ DeviceSends \/ LinkLost \/ UNCHANGED vars
  BY <1>u, <1>16
  DEF Os, ReadCompletes, ReadFails, WriteCompletes, WriteFails, DeviceSends, LinkLost,
      vars, life
<1> QED
  BY <1>u, <1>1, <1>2, <1>3, <1>4, <1>5, <1>6, <1>7, <1>8, <1>9, <1>10, <1>11, <1>12,
     <1>13, <1>14, <1>15, <1>16
  DEF Next, Construction, Call, Continue, Io

LEMMA FlagsNext ==
  ASSUME FlagsOK, [Next]_vars PROVE FlagsOK'
<1> USE DEF FlagsOK, flags, life, inbox, os, sockets
<1>1. CASE ConnectOpens \/ ConnectSocket \/ ConnectFails \/ ConnectTerminates
        \/ ConnectReads \/ ConnectSpawns \/ Destroy \/ Join
  BY <1>1 DEF ConnectOpens, ConnectSocket, ConnectFails, ConnectTerminates, ConnectReads,
      ConnectSpawns, Destroy, Join
<1>2. ASSUME NEW t \in Threads, Call(t) PROVE FlagsOK'
  BY <1>2 DEF Call, Send, ReadBegin, Shutdown, Close
<1>3. ASSUME NEW t \in Threads, Continue(t) PROVE FlagsOK'
  BY <1>3 DEF Continue, ReadSees, ReadLock, ReadPop, ClosePosts, Lock, Unlock
<1>4. CASE RunSend \/ RunWritten \/ RunWriteFailed \/ RunClose
  BY <1>4 DEF RunSend, RunWritten, RunWriteFailed, RunClose
<1>5. CASE RunReadFailed \/ RunRead \/ RunReturns
  BY <1>5 DEF RunReadFailed, RunRead, RunReturns
<1>6. CASE HandlerPush \/ HandlerCopy
  BY <1>6 DEF HandlerPush, HandlerCopy, Lock, Unlock
<1>7. CASE Os \/ DeviceSends \/ LinkLost \/ UNCHANGED vars
  BY <1>7 DEF Os, ReadCompletes, ReadFails, WriteCompletes, WriteFails, DeviceSends,
              LinkLost, vars
<1> QED
  BY <1>1, <1>2, <1>3, <1>4, <1>5, <1>6, <1>7 DEF Next, Construction, Io

LEMMA DataNext ==
  ASSUME TypeInv, OneWrite, [Next]_vars PROVE DataOK'
<1>t. /\ ioq \in Seq(Handlers) /\ writes \in Seq(Nat) /\ messageQueue \in Seq(Nat)
      /\ readQueue \in Seq(Nat) /\ taken \in Seq(Nat) /\ reads \in Nat
      /\ socketOpen \in BOOLEAN /\ wire \in Seq(Nat) /\ accepted \in Nat
      /\ consumed \in Nat /\ arrived \in Nat
      /\ handling \in [step : {"none", "lock", "copy"}, chunk : Nat]
  BY DEF TypeInv, FlagsOK, DataOK
<1>h. ASSUME ioq # <<>>
      PROVE  /\ Head(ioq) \in Handlers /\ Tail(ioq) \in Seq(Handlers)
             /\ Head(ioq).arg \in Nat /\ Head(ioq).err \in BOOLEAN
             /\ 1 \in DOMAIN ioq /\ ioq[1] = Head(ioq)
  BY <1>h, <1>t, HeadHandler
<1>w. ASSUME writes # <<>>
      PROVE  /\ Head(writes) \in Nat /\ Tail(writes) \in Seq(Nat)
             /\ Append(wire, Head(writes)) \in Seq(Nat)
  BY <1>w, <1>t, AppendHead, HeadTailProperties
<1> USE DEF io, outbox, inbox, os
<1>1. CASE UNCHANGED <<io, handling, outbox, readQueue, taken, arrived, consumed>>
  BY <1>1, <1>t DEF DataOK
<1>2. CASE ConnectReads
  <2>1. reads' \in Nat
    BY <1>2, <1>t DEF ConnectReads, ReadAsync
  <2> QED
    BY <1>2, <1>t, <2>1 DEF ConnectReads, DataOK
<1>3. ASSUME NEW t \in Threads, Send(t) PROVE DataOK'
  <2>1. accepted' \in Nat
    BY <1>3, <1>t DEF Send
  <2>2. ioq' \in Seq(Handlers)
    BY <1>3, <1>t, <2>1, AppendShape DEF Send, Handler, Handlers
  <2> QED
    BY <1>3, <1>t, <2>1, <2>2 DEF Send, DataOK
<1>4. ASSUME NEW t \in Threads, ReadPop(t) PROVE DataOK'
  <2>1. CASE readQueue # <<>>
    <3>1. /\ readQueue' = SubSeq(readQueue, 1, Len(readQueue) - 1)
          /\ taken' = Append(taken, readQueue[Len(readQueue)])
      BY <1>4, <2>1 DEF ReadPop
    <3>2. taken' \in Seq(Nat) /\ readQueue' \in Seq(Nat)
      BY <2>1, <3>1, <1>t, PopBack, AppendShape
    <3> QED
      BY <1>4, <3>2, <1>t DEF ReadPop, DataOK
  <2>2. CASE readQueue = <<>>
    BY <1>4, <1>t, <2>2 DEF ReadPop, DataOK
  <2> QED
    BY <2>1, <2>2
<1>5. ASSUME NEW t \in Threads, ClosePosts(t) PROVE DataOK'
  <2>1. ioq' \in Seq(Handlers)
    BY <1>5, <1>t, PostCloseType DEF ClosePosts
  <2> QED
    BY <1>5, <1>t, <2>1 DEF ClosePosts, DataOK
<1>6. CASE RunSend
  <2>1. ioq' \in Seq(Handlers) /\ Head(ioq).arg \in Nat
    BY <1>6, <1>h DEF RunSend, Runs
  <2>2. messageQueue' = Append(messageQueue, Head(ioq).arg)
    BY <1>6 DEF RunSend
  <2>3. messageQueue' \in Seq(Nat) /\ messageQueue' # <<>>
    BY <2>1, <2>2, <1>t, AppendShape
  <2>4. writes' = writes \/ writes' = Append(writes, Head(messageQueue'))
    BY <1>6 DEF RunSend, DoSend
  <2>5. writes' \in Seq(Nat)
    BY <2>3, <2>4, <1>t, AppendHead
  <2>6. UNCHANGED <<reads, handling, accepted, wire, inbox, os>>
    BY <1>6 DEF RunSend
  <2> QED
    BY <1>t, <2>1, <2>3, <2>5, <2>6 DEF DataOK
<1>7. CASE RunWritten
  <2>1. ioq' \in Seq(Handlers)
    BY <1>7, <1>h DEF RunWritten, Runs
  <2>2. messageQueue # <<>>
    BY <1>7, <1>h DEF RunWritten, Runs, OneWrite, Ready
  <2>3. messageQueue' \in Seq(Nat)
    BY <1>7, <2>2, <1>t DEF RunWritten, PopFront
  <2>4. \/ writes' = writes
        \/ messageQueue' # <<>> /\ writes' = Append(writes, Head(messageQueue'))
    BY <1>7 DEF RunWritten, DoSend, SendsNext
  <2>5. writes' \in Seq(Nat)
    BY <2>3, <2>4, <1>t, AppendHead
  <2>6. UNCHANGED <<reads, handling, accepted, wire, inbox, os>>
    BY <1>7 DEF RunWritten
  <2> QED
    BY <1>t, <2>1, <2>3, <2>5, <2>6 DEF DataOK
<1>8. CASE RunWriteFailed
  <2>1. ioq' \in Seq(Handlers)
    BY <1>8, <1>h, <1>t, PostCloseType DEF RunWriteFailed, Runs
  <2> QED
    BY <1>8, <1>t, <2>1 DEF RunWriteFailed, DataOK
<1>9. CASE RunClose
  <2>1. ioq' \in Seq(Handlers)
    BY <1>9, <1>h DEF RunClose, Runs
  <2> QED
    BY <1>9, <1>t, <2>1 DEF RunClose, DataOK
<1>10. CASE RunReadFailed
  <2>1. ioq' \in Seq(Handlers)
    BY <1>10, <1>h DEF RunReadFailed, Runs
  <2>2. reads' \in Nat
    BY <1>10, <1>t DEF RunReadFailed, ReadAsync
  <2> QED
    BY <1>10, <1>t, <2>1, <2>2 DEF RunReadFailed, DataOK
<1>11. CASE RunRead
  <2>1. ioq' \in Seq(Handlers) /\ Head(ioq).arg \in Nat
    BY <1>11, <1>h DEF RunRead, Runs
  <2>2. handling' \in [step : {"none", "lock", "copy"}, chunk : Nat]
    BY <1>11, <2>1, <1>t DEF RunRead
  <2> QED
    BY <1>11, <1>t, <2>1, <2>2 DEF RunRead, DataOK
<1>12. CASE HandlerPush
  <2>1. readQueue' \in Seq(Nat)
    BY <1>12, <1>t DEF HandlerPush, Blank
  <2>2. handling' \in [step : {"none", "lock", "copy"}, chunk : Nat]
    BY <1>12, <1>t DEF HandlerPush
  <2> QED
    BY <1>12, <1>t, <2>1, <2>2 DEF HandlerPush, DataOK
<1>13. CASE HandlerCopy
  <2>1. CASE handling.chunk \notin NoMarker
    <3>1. readQueue' = [readQueue EXCEPT ![Len(readQueue)] = handling.chunk]
      BY <1>13, <2>1 DEF HandlerCopy, Fill
    <3>2. handling.chunk \in Nat
      BY <1>t
    <3>3. readQueue' \in Seq(Nat)
      BY <3>1, <3>2, <1>t, FillType
    <3>4. reads' \in Nat
      BY <1>13, <2>1, <1>t DEF HandlerCopy, ReadAsync
    <3>5. /\ handling' \in [step : {"none", "lock", "copy"}, chunk : Nat]
          /\ UNCHANGED <<ioq, writes, outbox, taken, os>>
      BY <1>13, <2>1 DEF HandlerCopy, Blank
    <3> QED
      BY <1>t, <3>3, <3>4, <3>5 DEF DataOK
  <2>2. CASE handling.chunk \in NoMarker
    BY <1>13, <1>t, <2>2 DEF HandlerCopy, DataOK
  <2> QED
    BY <2>1, <2>2
<1>14. CASE ReadCompletes
  <2>1. consumed' \in Nat /\ reads' \in Nat
    BY <1>14, <1>t DEF ReadCompletes
  <2>2. ioq' \in Seq(Handlers)
    BY <1>14, <1>t, <2>1, AppendShape DEF ReadCompletes, Handler, Handlers
  <2> QED
    BY <1>14, <1>t, <2>1, <2>2 DEF ReadCompletes, DataOK
<1>15. CASE ReadFails
  <2>1. reads' \in Nat
    BY <1>15, <1>t DEF ReadFails
  <2>2. ioq' \in Seq(Handlers)
    BY <1>15, <1>t, AppendShape DEF ReadFails, Handler, Handlers
  <2> QED
    BY <1>15, <1>t, <2>1, <2>2 DEF ReadFails, DataOK
<1>16. CASE WriteCompletes
  <2>1. writes' \in Seq(Nat) /\ wire' \in Seq(Nat) /\ Head(writes) \in Nat
    BY <1>16, <1>w DEF WriteCompletes
  <2>2. ioq' \in Seq(Handlers)
    BY <1>16, <1>t, <2>1, AppendShape DEF WriteCompletes, Handler, Handlers
  <2> QED
    BY <1>16, <1>t, <2>1, <2>2 DEF WriteCompletes, DataOK
<1>17. CASE WriteFails
  <2>1. writes' \in Seq(Nat) /\ Head(writes) \in Nat
    BY <1>17, <1>w DEF WriteFails
  <2>2. ioq' \in Seq(Handlers)
    BY <1>17, <1>t, <2>1, AppendShape DEF WriteFails, Handler, Handlers
  <2> QED
    BY <1>17, <1>t, <2>1, <2>2 DEF WriteFails, DataOK
<1>18. CASE DeviceSends
  BY <1>18, <1>t DEF DeviceSends, DataOK
<1>19. ASSUME NEW t \in Threads,
              \/ ReadBegin(t) \/ ReadSees(t) \/ ReadLock(t)
              \/ Shutdown(t) \/ Close(t)
       PROVE  DataOK'
  BY <1>1, <1>19 DEF ReadBegin, ReadSees, ReadLock, Shutdown, Close
<1>20. CASE ConnectOpens \/ ConnectSocket \/ ConnectFails \/ ConnectTerminates
         \/ ConnectSpawns \/ Destroy \/ Join
  BY <1>1, <1>20 DEF ConnectOpens, ConnectSocket, ConnectFails, ConnectTerminates,
                     ConnectSpawns,
      Destroy, Join
<1>21. CASE RunReturns \/ LinkLost \/ UNCHANGED vars
  BY <1>1, <1>21 DEF RunReturns, LinkLost, vars
<1> QED
  BY <1>1, <1>2, <1>3, <1>4, <1>5, <1>6, <1>7, <1>8, <1>9, <1>10, <1>11, <1>12, <1>13,
     <1>14, <1>15, <1>16, <1>17, <1>18, <1>19, <1>20, <1>21
  DEF Next, Construction, Call, Continue, Io, Os

LEMMA TypeNext ==
  ASSUME TypeInv, OneWrite, [Next]_vars PROVE TypeInv'
BY CallsNext, FlagsNext, DataNext DEF TypeInv

-----------------------------------------------------------------------------
(* One write at a time.                                                    *)

(* OneWrite of writes w, ready handlers q and message queue m.             *)
WriteOf(w, q, m) ==
  /\ Len(w) <= 1
  /\ AtMostOne(q, "write")
  /\ w # <<>> => NoneOf(q, "write") /\ m # <<>> /\ Head(w) = Head(m)
  /\ NoneOf(q, "write") \/ (m # <<>> /\ AllArgs(q, "write", Head(m)))

LEMMA WriteOfAppend ==
  ASSUME NEW w, NEW q \in Seq(Handlers), NEW m, NEW h \in Handlers, h.kind # "write",
         WriteOf(w, q, m)
  PROVE  WriteOf(w, Append(q, h), m)
BY AppendHandler DEF WriteOf

LEMMA WriteOfTail ==
  ASSUME NEW w, NEW q \in Seq(Handlers), NEW m, q # <<>>, WriteOf(w, q, m)
  PROVE  /\ WriteOf(w, Tail(q), m)
         /\ Head(q).kind = "write" => w = <<>> /\ NoneOf(Tail(q), "write")
<1>1. Head(q).kind = "write" => w = <<>> /\ NoneOf(Tail(q), "write")
  BY TailHandler, HeadHandler DEF WriteOf, NoneOf
<1> QED
  BY <1>1, TailHandler DEF WriteOf

LEMMA WriteOfClose ==
  ASSUME NEW w, NEW q \in Seq(Handlers), NEW m, socketOpen \in BOOLEAN, WriteOf(w, q, m)
  PROVE  WriteOf(w, PostClose(q), m)
BY PostCloseType DEF WriteOf

LEMMA WriteOfStart ==
  ASSUME NEW q, NEW m, NoneOf(q, "write")
  PROVE  /\ WriteOf(<<>>, q, m)
         /\ m # <<>> => WriteOf(Append(<<>>, Head(m)), q, m)
<1>1. AtMostOne(q, "write")
  BY DEF AtMostOne, NoneOf
<1>2. /\ Len(<<>>) <= 1
      /\ Len(Append(<<>>, Head(m))) <= 1
      /\ Head(Append(<<>>, Head(m))) = Head(m)
  OBVIOUS
<1>3. WriteOf(<<>>, q, m)
  BY <1>1, <1>2 DEF WriteOf
<1>4. m # <<>> => WriteOf(Append(<<>>, Head(m)), q, m)
  BY <1>1, <1>2 DEF WriteOf
<1> QED
  BY <1>3, <1>4

LEMMA OneWriteNext ==
  ASSUME TypeInv, OneWrite, [Next]_vars PROVE OneWrite'
<1>t. /\ ioq \in Seq(Handlers) /\ writes \in Seq(Nat) /\ messageQueue \in Seq(Nat)
      /\ socketOpen \in BOOLEAN /\ accepted \in Nat /\ consumed \in Nat
  BY DEF TypeInv, FlagsOK, DataOK
<1>i. WriteOf(writes, ioq, messageQueue)
  BY DEF OneWrite, Ready, WriteOf, AtMostOne, NoneOf, AllArgs
<1> SUFFICES WriteOf(writes, ioq, messageQueue)'
  BY DEF OneWrite, Ready, WriteOf, AtMostOne, NoneOf, AllArgs
<1>1. CASE UNCHANGED <<writes, ioq, messageQueue>>
  BY <1>1, <1>i
<1>2. ASSUME NEW t \in Threads, Send(t) PROVE WriteOf(writes, ioq, messageQueue)'
  <2>1. accepted' \in Nat
    BY <1>2, <1>t DEF Send
  <2>2. UNCHANGED <<writes, messageQueue>>
    BY <1>2 DEF Send
  <2>3. ioq' = Append(ioq, Handler("send", accepted', FALSE))
    BY <1>2 DEF Send
  <2>4. Handler("send", accepted', FALSE) \in Handlers /\ Handler("send", accepted', FALSE).kind = "send"
    BY <2>1 DEF Handler, Handlers
  <2> QED
    BY <1>i, <1>t, <2>2, <2>3, <2>4, WriteOfAppend
<1>3. ASSUME NEW t \in Threads, ClosePosts(t) PROVE WriteOf(writes, ioq, messageQueue)'
  BY <1>3, <1>i, <1>t, WriteOfClose DEF ClosePosts, outbox
<1>h. ASSUME ioq # <<>>, Head(ioq).kind # "write", ioq' = Tail(ioq),
             UNCHANGED <<writes, messageQueue>>
      PROVE  WriteOf(writes, ioq, messageQueue)'
  BY <1>h, <1>i, <1>t, WriteOfTail
<1>4. CASE RunSend
  <2>1. /\ ioq # <<>> /\ ioq' = Tail(ioq)
        /\ messageQueue' = Append(messageQueue, Head(ioq).arg)
        /\ IF messageQueue = <<>> THEN writes' = Append(writes, Head(messageQueue'))
                                  ELSE writes' = writes
    BY <1>4 DEF RunSend, Runs, DoSend, QEmpty
  <2>2. WriteOf(writes, ioq', messageQueue)
    BY <1>i, <1>t, <2>1, WriteOfTail
  <2>3. Head(ioq).arg \in Nat
    BY <1>t, <2>1, HeadHandler
  <2>4. messageQueue' # <<>>
    BY <2>1, <2>3, <1>t
  <2>5. CASE messageQueue = <<>>
    <3>1. writes = <<>> /\ NoneOf(ioq', "write")
      BY <2>2, <2>5 DEF WriteOf
    <3> QED
      BY <2>1, <2>4, <2>5, <3>1, WriteOfStart
  <2>6. CASE messageQueue # <<>>
    <3>1. Head(messageQueue') = Head(messageQueue)
      BY <2>1, <2>3, <2>6, <1>t
    <3> QED
      BY <2>1, <2>2, <2>4, <2>6, <3>1 DEF WriteOf
  <2> QED
    BY <2>5, <2>6
<1>5. CASE RunWritten
  <2>1. /\ ioq # <<>> /\ Head(ioq).kind = "write" /\ ioq' = Tail(ioq)
        /\ \/ writes' = writes
           \/ messageQueue' # <<>> /\ writes' = Append(writes, Head(messageQueue'))
    BY <1>5 DEF RunWritten, Runs, DoSend, SendsNext
  <2>2. writes = <<>> /\ NoneOf(ioq', "write")
    BY <1>i, <1>t, <2>1, WriteOfTail
  <2> QED
    BY <2>1, <2>2, WriteOfStart
<1>6. CASE RunWriteFailed
  <2>1. /\ ioq # <<>> /\ ioq' = PostClose(Tail(ioq))
        /\ UNCHANGED <<writes, messageQueue>>
    BY <1>6 DEF RunWriteFailed, Runs, outbox
  <2>2. WriteOf(writes, Tail(ioq), messageQueue) /\ Tail(ioq) \in Seq(Handlers)
    BY <1>i, <1>t, <2>1, WriteOfTail, HeadHandler
  <2> DEFINE q == Tail(ioq)
  <2>3. WriteOf(writes, q, messageQueue) /\ q \in Seq(Handlers) /\ socketOpen \in BOOLEAN
    BY <1>t, <2>2
  <2> HIDE DEF q
  <2>4. WriteOf(writes, PostClose(q), messageQueue)
    BY ONLY <2>3, WriteOfClose
  <2> QED
    BY <2>1, <2>4 DEF q
<1>7. CASE RunClose \/ RunReadFailed \/ RunRead
  <2>1. /\ ioq # <<>> /\ ioq' = Tail(ioq) /\ Head(ioq).kind \in {"close", "read"}
        /\ UNCHANGED <<writes, messageQueue>>
    BY <1>7 DEF RunClose, RunReadFailed, RunRead, Runs, outbox
  <2> QED
    BY <2>1, <1>h
<1>8. CASE ReadCompletes \/ ReadFails
  <2>1. PICK n \in Nat, e \in BOOLEAN : ioq' = Append(ioq, Handler("read", n, e))
    <3>1. CASE ReadCompletes
      <4>1. consumed' \in Nat /\ ioq' = Append(ioq, Handler("read", consumed', FALSE))
        BY <3>1, <1>t DEF ReadCompletes
      <4> QED
        BY <4>1
    <3>2. CASE ReadFails
      BY <3>2 DEF ReadFails
    <3> QED
      BY <1>8, <3>1, <3>2
  <2>2. Handler("read", n, e) \in Handlers /\ Handler("read", n, e).kind = "read"
    BY DEF Handler, Handlers
  <2>3. UNCHANGED <<writes, messageQueue>>
    BY <1>8 DEF ReadCompletes, ReadFails, outbox
  <2> QED
    BY <1>i, <1>t, <2>1, <2>2, <2>3, WriteOfAppend
<1>9. CASE WriteCompletes \/ WriteFails
  <2>1. PICK e \in BOOLEAN : ioq' = Append(ioq, Handler("write", Head(writes), e))
    BY <1>9 DEF WriteCompletes, WriteFails
  <2>2. writes # <<>> /\ writes' = Tail(writes) /\ messageQueue' = messageQueue
    BY <1>9 DEF WriteCompletes, WriteFails, outbox
  <2>3. Head(writes) \in Nat
    BY <1>t, <2>2
  <2> DEFINE h == Handler("write", Head(writes), e)
  <2>4. h \in Handlers /\ h.arg = Head(writes)
    BY <2>3 DEF Handler, Handlers
  <2>5. /\ NoneOf(ioq, "write") /\ messageQueue # <<>>
        /\ Head(writes) = Head(messageQueue)
    BY <1>i, <2>2 DEF WriteOf
  <2>6. AtMostOne(ioq', "write") /\ AllArgs(ioq', "write", Head(messageQueue))
    BY <1>t, <2>1, <2>4, <2>5, AppendHandler
  <2>7. writes' = <<>> /\ Len(writes') = 0
    <3>1. Len(writes) \in Nat \ {0} /\ Len(writes) <= 1
      BY <1>i, <1>t, <2>2, EmptySeq DEF WriteOf
    <3>2. Tail(writes) \in Seq(Nat) /\ Len(Tail(writes)) = Len(writes) - 1
      BY <1>t, <2>2, HeadTailProperties
    <3>3. Len(writes') = 0 /\ writes' \in Seq(Nat)
      BY <2>2, <3>1, <3>2
    <3> QED
      BY <3>3, EmptySeq
  <2> QED
    BY <2>2, <2>5, <2>6, <2>7 DEF WriteOf
<1>10. ASSUME NEW t \in Threads,
              ReadBegin(t) \/ ReadSees(t) \/ ReadLock(t) \/ ReadPop(t) \/ Shutdown(t) \/ Close(t)
       PROVE  UNCHANGED <<writes, ioq, messageQueue>>
  BY <1>10 DEF ReadBegin, ReadSees, ReadLock, ReadPop, Shutdown, Close, io, outbox
<1>11. CASE ConnectOpens \/ ConnectSocket \/ ConnectFails \/ ConnectTerminates
         \/ ConnectReads \/ ConnectSpawns \/ Destroy \/ Join
  BY <1>1, <1>11
  DEF ConnectOpens, ConnectSocket, ConnectFails, ConnectTerminates, ConnectReads,
      ConnectSpawns, Destroy, Join, io, outbox
<1>12. CASE HandlerPush \/ HandlerCopy \/ RunReturns \/ DeviceSends \/ LinkLost \/ UNCHANGED vars
  BY <1>1, <1>12
  DEF HandlerPush, HandlerCopy, RunReturns, DeviceSends, LinkLost, vars, io, outbox
<1> QED
  BY <1>1, <1>2, <1>3, <1>4, <1>5, <1>6, <1>7, <1>8, <1>9, <1>10, <1>11, <1>12
  DEF Next, Construction, Call, Continue, Io, Os

-----------------------------------------------------------------------------
WriteInv == TypeInv /\ OneWrite

LEMMA WriteInvHolds == Spec => []WriteInv
<1>1. Init => WriteInv
  BY TypeInit DEF Init, WriteInv, OneWrite, Ready
<1>2. WriteInv /\ [Next]_vars => WriteInv'
  BY TypeNext, OneWriteNext DEF WriteInv
<1> QED
  BY <1>1, <1>2, PTL DEF Spec

(* Every variable of the connection keeps its type, whatever the threads,  *)
(* the io thread, the operating system and the device do.                  *)
THEOREM TypeCorrect == Spec => []TypeOK
<1>1. WriteInv => TypeOK
  BY DEF WriteInv, TypeInv, CallsOK, FlagsOK, DataOK, TypeOK
<1> QED
  BY <1>1, WriteInvHolds, PTL

(* send() and doSend() never have two async_writes under way, and the one  *)
(* under way always reads the message at the front of messageQueue_.       *)
THEOREM OneWriteCorrect == Spec => []OneWrite
<1>1. WriteInv => OneWrite
  BY DEF WriteInv
<1> QED
  BY <1>1, WriteInvHolds, PTL

-----------------------------------------------------------------------------
(* What a step may do to shutdown_, to the link and to connect().          *)

(* shutdown_ is never reset.                                               *)
LEMMA ShutdownStays ==
  ASSUME [Next]_vars, ~shutdown' PROVE ~shutdown
<1> USE DEF flags
<1>1. ASSUME NEW t \in Threads, Call(t) \/ Continue(t) PROVE ~shutdown
  BY <1>1 DEF Call, Continue, Send, ReadBegin, Shutdown, Close, ReadSees, ReadLock,
              ReadPop, ClosePosts
<1>2. CASE ConnectOpens \/ ConnectSocket \/ Destroy \/ Construction
  BY <1>2 DEF ConnectOpens, ConnectSocket, ConnectFails, ConnectTerminates, Destroy,
              Construction, ConnectReads, ConnectSpawns, Join
<1>3. CASE Io
  BY <1>3 DEF Io, RunSend, RunWritten, RunWriteFailed, RunClose, RunReadFailed, RunRead,
              HandlerPush, HandlerCopy, RunReturns
<1>4. CASE Os \/ DeviceSends \/ LinkLost \/ UNCHANGED vars
  BY <1>4 DEF Os, ReadCompletes, ReadFails, WriteCompletes, WriteFails, DeviceSends,
              LinkLost, vars
<1> QED
  BY <1>1, <1>2, <1>3, <1>4 DEF Next

-----------------------------------------------------------------------------
(* The socket is closed, and opened again, only after shutdown.            *)

ShutInv ==
  /\ \A t \in Threads : pc[t] \in {"close", "join"} => shutdown
  /\ shutdown \/ NoneOf(ioq, "close")
  /\ ~socketOpen \/ reopened => shutdown

LEMMA ShutNext ==
  ASSUME TypeInv, ShutInv, [Next]_vars PROVE ShutInv'
<1>t. /\ ioq \in Seq(Handlers) /\ writes \in Seq(Nat) /\ Owner \in Threads
      /\ accepted \in Nat /\ consumed \in Nat /\ pc \in [Threads -> Labels]
  BY ThreadsAssumption DEF TypeInv, CallsOK, DataOK
<1> SUFFICES ASSUME ~shutdown'
             PROVE  /\ \A t \in Threads : pc'[t] \notin {"close", "join"}
                    /\ NoneOf(ioq', "close")
                    /\ socketOpen' /\ ~reopened'
  BY DEF ShutInv
<1>i. /\ \A t \in Threads : pc[t] \notin {"close", "join"}
      /\ NoneOf(ioq, "close")
      /\ socketOpen /\ ~reopened
  BY ShutdownStays DEF ShutInv
<1> USE DEF life, io, os, sockets
<1>1. CASE UNCHANGED <<pc, ioq, socketOpen, reopened>>
  BY <1>1, <1>i
<1>a. ASSUME NEW h \in Handlers, h.kind # "close", ioq' = Append(ioq, h),
             UNCHANGED <<pc, socketOpen, reopened>>
      PROVE  /\ \A t \in Threads : pc'[t] \notin {"close", "join"}
             /\ NoneOf(ioq', "close")
             /\ socketOpen' /\ ~reopened'
  BY <1>a, <1>i, <1>t, AppendHandler
<1>h. ASSUME ioq # <<>>, Head(ioq).kind # "close" => UNCHANGED <<pc, socketOpen, reopened>>,
             ioq' = Tail(ioq)
      PROVE  /\ \A t \in Threads : pc'[t] \notin {"close", "join"}
             /\ NoneOf(ioq', "close")
             /\ socketOpen' /\ ~reopened'
  <2>1. Head(ioq).kind # "close"
    BY <1>h, <1>i, <1>t, HeadHandler DEF NoneOf
  <2>2. NoneOf(ioq', "close")
    BY <1>h, <1>i, <1>t, TailHandler
  <2>3. UNCHANGED <<pc, socketOpen, reopened>>
    BY <1>h, <2>1
  <2> QED
    BY <1>i, <2>2, <2>3
<1>g. ASSUME NEW t \in Threads, NEW a \in Labels \ {"close", "join"}, Goto(t, a),
             UNCHANGED <<ioq, socketOpen, reopened>>
      PROVE  /\ \A u \in Threads : pc'[u] \notin {"close", "join"}
             /\ NoneOf(ioq', "close")
             /\ socketOpen' /\ ~reopened'
  BY <1>g, <1>i, <1>t DEF Goto
<1>2. ~ConnectOpens /\ ~Join /\ ~Destroy
  BY <1>i, <1>t DEF ConnectOpens, Join, Destroy
<1>3. CASE ConnectSocket \/ ConnectFails \/ ConnectReads \/ ConnectSpawns
  BY <1>3, <1>g, <1>t DEF ConnectSocket, ConnectFails, ConnectReads, ConnectSpawns, Labels
<1>4. ASSUME NEW t \in Threads, Send(t)
      PROVE  NoneOf(ioq', "close") /\ UNCHANGED <<pc, socketOpen, reopened>>
  <2>1. accepted' \in Nat /\ ioq' = Append(ioq, Handler("send", accepted', FALSE))
    BY <1>4, <1>t DEF Send
  <2>2. /\ Handler("send", accepted', FALSE) \in Handlers
        /\ Handler("send", accepted', FALSE).kind = "send"
    BY <2>1 DEF Handler, Handlers
  <2>3. NoneOf(ioq', "close")
    BY <1>i, <1>t, <2>1, <2>2, AppendHandler
  <2> QED
    BY <1>4, <2>3 DEF Send
<1>5. ASSUME NEW t \in Threads PROVE ~Shutdown(t) /\ ~Close(t) /\ ~ClosePosts(t)
  BY <1>i DEF Shutdown, Close, ClosePosts
<1>6. ASSUME NEW t \in Threads, ReadBegin(t) \/ ReadSees(t) \/ ReadLock(t) \/ ReadPop(t)
      PROVE  /\ \A u \in Threads : pc'[u] \notin {"close", "join"}
             /\ NoneOf(ioq', "close")
             /\ socketOpen' /\ ~reopened'
  <2>1. CASE UNCHANGED <<pc, ioq, socketOpen, reopened>>
    BY <1>i, <2>1
  <2> QED
    BY <1>6, <1>g, <2>1 DEF ReadBegin, ReadSees, ReadLock, ReadPop, Labels
<1>7. CASE RunSend \/ RunWritten \/ RunClose \/ RunReadFailed \/ RunRead
  BY <1>7, <1>h DEF RunSend, RunWritten, RunClose, RunReadFailed, RunRead, Runs
<1>8. ~RunWriteFailed
  BY DEF RunWriteFailed
<1>9. CASE ReadCompletes \/ ReadFails
  <2>1. PICK n \in Nat, e \in BOOLEAN : ioq' = Append(ioq, Handler("read", n, e))
    <3>1. CASE ReadCompletes
      <4>1. consumed' \in Nat /\ ioq' = Append(ioq, Handler("read", consumed', FALSE))
        BY <3>1, <1>t DEF ReadCompletes
      <4> QED
        BY <4>1
    <3>2. CASE ReadFails
      BY <3>2 DEF ReadFails
    <3> QED
      BY <1>9, <3>1, <3>2
  <2> QED
    BY <1>9, <1>a, <2>1, HandlerType DEF ReadCompletes, ReadFails
<1>10. CASE WriteCompletes \/ WriteFails
  <2>1. PICK e \in BOOLEAN : ioq' = Append(ioq, Handler("write", Head(writes), e))
    BY <1>10 DEF WriteCompletes, WriteFails
  <2>2. Head(writes) \in Nat
    <3>1. writes # <<>>
      BY <1>10 DEF WriteCompletes, WriteFails
    <3> QED
      BY <1>t, <3>1
  <2> QED
    BY <1>10, <1>a, <2>1, <2>2, HandlerType DEF WriteCompletes, WriteFails
<1>11. CASE ConnectTerminates \/ HandlerPush \/ HandlerCopy \/ RunReturns \/ DeviceSends
              \/ LinkLost \/ UNCHANGED vars
  BY <1>1, <1>11
  DEF ConnectTerminates, HandlerPush, HandlerCopy, RunReturns, DeviceSends, LinkLost, vars
<1> QED
  BY <1>i, <1>2, <1>3, <1>4, <1>5, <1>6, <1>7, <1>8, <1>9, <1>10, <1>11
  DEF Next, Construction, Call, Continue, Io, Os

LEMMA ShutInvHolds == Spec => [](WriteInv /\ ShutInv)
<1>1. Init => ShutInv
  BY DEF Init, ShutInv, NoneOf
<1>2. WriteInv /\ ShutInv /\ [Next]_vars => ShutInv'
  BY ShutNext DEF WriteInv
<1> QED
  BY <1>1, <1>2, WriteInvHolds, PTL DEF Spec

-----------------------------------------------------------------------------
(* The thread iothread_.                                                   *)

(* The first connect() has not come to the std::thread yet.                *)
Unstarted == ~reopened /\ (link = "down" \/ pc[Owner] \in {"arm", "spawn"})

(* There is no thread just until connect() starts it, so that it is        *)
(* started once; only it closes the socket, runs handlers and writes; when *)
(* it returns it leaves nothing pending; the destructor waits for it.      *)
LifeInv ==
  /\ iothread = "none" <=> Unstarted
  /\ pc[Owner] \in {"arm", "spawn"} => link # "down"
  /\ pc[Owner] = "connect" => reopened
  /\ reopened => Joinable
  /\ ClosedByThread
  /\ handling.step # "none" \/ writes # <<>> => iothread = "running"
  /\ reads > 0 => iothread \in {"running", "failed"} \/ (pc[Owner] = "spawn" /\ ~reopened)
  /\ object = "destroyed" => iothread # "running" /\ pc[Owner] = "join"

LEMMA LifeInit == Init => LifeInv
<1> SUFFICES ASSUME Init PROVE LifeInv
  OBVIOUS
<1> QED
  BY ThreadsAssumption DEF Init, LifeInv, Unstarted, ClosedByThread

LEMMA LifeNext ==
  ASSUME TypeInv, ShutInv, LifeInv, [Next]_vars PROVE LifeInv'
<1>t. /\ Owner \in Threads /\ pc \in [Threads -> Labels] /\ reads \in Nat
      /\ handling \in [step : {"none", "lock", "copy"}, chunk : Nat]
  BY ThreadsAssumption DEF TypeInv, CallsOK, DataOK
<1> USE DEF LifeInv, Unstarted, ClosedByThread, Joinable, life, io, os, sockets
<1>u. CASE UNCHANGED <<life, pc, link, reopened, handling, reads, writes>>
  BY <1>u
<1>c. ASSUME object \in {"alive", "dying"},
             UNCHANGED <<life, link, reopened, handling, reads, writes>>,
             NEW t \in Threads, NEW a \in Labels \ {"connect", "arm", "spawn"},
             pc[t] \notin {"arm", "spawn"}, Goto(t, a)
      PROVE  LifeInv'
  BY <1>c, <1>t DEF Goto
<1>1. CASE Next /\ (ConnectOpens \/ ConnectSocket)
  BY <1>1, <1>t DEF Next, ConnectOpens, ConnectSocket, Goto, Calls
<1>2. CASE Next /\ (ConnectFails \/ ConnectTerminates)
  BY <1>2, <1>t DEF Next, ConnectFails, ConnectTerminates, Goto
<1>3. CASE Next /\ ConnectReads
  BY <1>3, <1>t DEF Next, ConnectReads, ReadAsync, Goto, ShutInv
<1>4. CASE Next /\ ConnectSpawns
  BY <1>4, <1>t DEF Next, ConnectSpawns, Goto
<1>5. CASE Next /\ Destroy
  BY <1>5, <1>t DEF Next, Destroy, Goto
<1>6. CASE Next /\ Join
  BY <1>6, <1>t DEF Next, Join, Joined
<1>7. ASSUME Next, NEW t \in Threads, Call(t) PROVE LifeInv'
  <2>1. CASE Send(t) \/ Shutdown(t)
    BY <1>u, <2>1 DEF Send, Shutdown
  <2>2. CASE ReadBegin(t) \/ Close(t)
    BY <1>7, <1>c, <2>2 DEF Next, ReadBegin, Close, Calls, Labels
  <2> QED
    BY <1>7, <2>1, <2>2 DEF Call
<1>8. ASSUME Next, NEW t \in Threads, Continue(t) PROVE LifeInv'
  <2>1. CASE ReadSees(t) \/ ReadLock(t) \/ ClosePosts(t)
    BY <1>8, <1>c, <2>1 DEF Next, ReadSees, ReadLock, ClosePosts, Labels
  <2>2. CASE ReadPop(t)
    BY <1>8, <1>t, <2>2 DEF Next, ReadPop, Goto
  <2> QED
    BY <1>8, <2>1, <2>2 DEF Continue
<1>9. CASE Next /\ (RunSend \/ RunWritten)
  BY <1>9, <1>t DEF Next, RunSend, RunWritten, Runs
<1>10. CASE Next /\ (RunWriteFailed \/ RunClose)
  BY <1>10, <1>t DEF Next, RunWriteFailed, RunClose, Runs
<1>11. CASE Next /\ (RunReadFailed \/ RunRead)
  BY <1>11, <1>t DEF Next, RunReadFailed, RunRead, Runs, ReadAsync
<1>12. CASE Next /\ HandlerPush
  BY <1>12, <1>t DEF Next, HandlerPush
<1>13. CASE Next /\ HandlerCopy
  BY <1>13, <1>t DEF Next, HandlerCopy, ReadAsync
<1>14. CASE Next /\ RunReturns
  BY <1>14, <1>t DEF Next, RunReturns
<1>15. CASE Next /\ Os
  <2>1. CASE ReadCompletes \/ ReadFails
    <3>1. /\ reads > 0 /\ reads' = reads - 1
          /\ UNCHANGED <<life, pc, writes, handling, link, reopened>>
      BY <2>1 DEF ReadCompletes, ReadFails
    <3> QED
      BY <1>15, <1>t, <3>1 DEF Next
  <2>2. CASE WriteCompletes \/ WriteFails
    <3>1. writes # <<>> /\ UNCHANGED <<life, pc, reads, handling, link, reopened>>
      BY <2>2 DEF WriteCompletes, WriteFails
    <3> QED
      BY <1>15, <1>t, <3>1 DEF Next
  <2> QED
    BY <1>15, <2>1, <2>2 DEF Os
<1>16. CASE Next /\ (DeviceSends \/ LinkLost)
  BY <1>16, <1>t DEF Next, DeviceSends, LinkLost
<1>17. CASE UNCHANGED vars
  BY <1>u, <1>17 DEF vars
<1> QED
  BY <1>1, <1>2, <1>3, <1>4, <1>5, <1>6, <1>7, <1>8, <1>9, <1>10, <1>11, <1>12, <1>13,
     <1>14, <1>15, <1>16, <1>17
  DEF Next, Construction, Io

LEMMA LifeInvHolds == Spec => [](WriteInv /\ ShutInv /\ LifeInv)
<1>1. WriteInv /\ ShutInv /\ LifeInv /\ [Next]_vars => LifeInv'
  BY LifeNext DEF WriteInv
<1> QED
  BY LifeInit, <1>1, ShutInvHolds, PTL DEF Spec

(* A connect() that opens the socket again has a joinable iothread_, which *)
(* the new thread can not replace; no other comes to replace one (connect, *)
(* close).                                                                 *)
THEOREM ClosedByThreadCorrect == Spec => []ClosedByThread
<1>1. LifeInv => ClosedByThread
  BY DEF LifeInv
<1> QED
  BY <1>1, LifeInvHolds, PTL

(* The destructor leaves no thread, no handler and no operation that uses  *)
(* the members, unless the thread never started (the destructor, close).   *)
THEOREM NoUseAfterDestroyCorrect == Spec => []NoUseAfterDestroy
<1>1. WriteInv /\ LifeInv => NoUseAfterDestroy
  <2> SUFFICES ASSUME TypeInv, LifeInv, object = "destroyed", iothread # "failed"
               PROVE  /\ iothread # "running" /\ handling.step = "none"
                      /\ reads = 0 /\ writes = <<>>
    BY DEF WriteInv, NoUseAfterDestroy
  <2> QED
    BY DEF LifeInv, TypeInv, DataOK
<1> QED
  BY <1>1, LifeInvHolds, PTL
=============================================================================
