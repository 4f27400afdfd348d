------------------------ MODULE BtConnectionIoProofs ------------------------
(***************************************************************************)
(* What BtConnection does with its queues, for every set of threads and    *)
(* every bound.  send(): no message waits behind a writer that went to     *)
(* sleep, and messages go out as Outbox promises.  read(): recv_buffer_ has*)
(* one user, no record is seen half-filled, and chunks become records as   *)
(* Inbox promises.                                                         *)
(***************************************************************************)
EXTENDS BtConnectionProofs, FiniteSetTheorems

-----------------------------------------------------------------------------
(* send() and the handlers that write.                                     *)

LEMMA SomeAppend ==
  ASSUME NEW q \in Seq(Handlers), NEW h \in Handlers, NEW k
  PROVE  ~NoneOf(q, k) \/ h.kind = k => ~NoneOf(Append(q, h), k)
BY AppendShape DEF NoneOf

LEMMA SomeTail ==
  ASSUME NEW q \in Seq(Handlers), NEW k, q # <<>>, Head(q).kind # k, ~NoneOf(q, k)
  PROVE  ~NoneOf(Tail(q), k)
<1>1. PICK i \in DOMAIN q : q[i].kind = k
  BY DEF NoneOf
<1>2. DOMAIN q = 1 .. Len(q) /\ Len(q) \in Nat /\ i # 1
  BY <1>1, LenProperties, HeadHandler
<1>3. i - 1 \in DOMAIN Tail(q) /\ Tail(q)[i - 1] = q[i]
  BY <1>2, HeadTailProperties
<1> QED
  BY <1>1, <1>3 DEF NoneOf

LEMMA SomePostClose ==
  ASSUME NEW q \in Seq(Handlers), NEW k, ~NoneOf(q, k)
  PROVE  ~NoneOf(PostClose(q), k)
<1> DEFINE h == Handler("close", 0, FALSE)
<1>1. h \in Handlers
  BY DEF Handler, Handlers
<1> HIDE DEF h
<1>2. PostClose(q) = Append(q, h) \/ PostClose(q) = q
  BY DEF PostClose, h
<1> QED
  BY <1>1, <1>2, SomeAppend

-----------------------------------------------------------------------------
(* The writer does not go to sleep.  shutdown is never reset, so only      *)
(* steps that find and leave it FALSE matter.                              *)

Busy(w, q) == w # <<>> \/ ~NoneOf(q, "write")

LEMMA QueueMovesNext ==
  ASSUME TypeInv, QueueMoves, [Next]_vars PROVE QueueMoves'
<1>t. /\ ioq \in Seq(Handlers) /\ writes \in Seq(Nat) /\ messageQueue \in Seq(Nat)
      /\ accepted \in Nat /\ consumed \in Nat
  BY DEF TypeInv, DataOK
<1> SUFFICES ASSUME ~shutdown', messageQueue' # <<>> PROVE Busy(writes', ioq')
  BY DEF QueueMoves, Ready, Busy, NoneOf
<1>s. ~shutdown
  BY ShutdownStays
<1>i. messageQueue # <<>> => Busy(writes, ioq)
  BY <1>s DEF QueueMoves, Ready, Busy, NoneOf
<1>1. CASE UNCHANGED <<writes, ioq, messageQueue>>
  BY <1>1, <1>i
<1>a. ASSUME NEW h \in Handlers, ioq' = Append(ioq, h), UNCHANGED <<writes, messageQueue>>
      PROVE  Busy(writes', ioq')
  BY <1>a, <1>i, <1>t, SomeAppend DEF Busy
<1>2. ASSUME NEW t \in Threads, Send(t) PROVE Busy(writes', ioq')
  <2>1. accepted' \in Nat
    BY <1>2, <1>t DEF Send
  <2>2. Handler("send", accepted', FALSE) \in Handlers
    BY <2>1 DEF Handler, Handlers
  <2> QED
    BY <1>2, <1>a, <2>2 DEF Send
<1>3. ASSUME NEW t \in Threads, ClosePosts(t) PROVE Busy(writes', ioq')
  <2>1. ioq' = PostClose(ioq) /\ UNCHANGED <<writes, messageQueue>>
    BY <1>3 DEF ClosePosts, outbox
  <2> QED
    BY <1>i, <1>t, <2>1, SomePostClose DEF Busy
<1>4. CASE RunSend
  <2>1. /\ ioq # <<>> /\ ioq' = Tail(ioq) /\ Head(ioq).kind = "send"
        /\ IF messageQueue = <<>> THEN writes' = Append(writes, Head(messageQueue'))
                                  ELSE writes' = writes
    BY <1>4 DEF RunSend, Runs, DoSend, QEmpty
  <2>2. CASE messageQueue = <<>>
    <3>1. writes' = Append(writes, Head(messageQueue'))
      BY <2>1, <2>2
    <3>2. Len(writes') = Len(writes) + 1 /\ Len(writes) \in Nat
      BY <3>1, <1>t
    <3>3. writes' # <<>>
      BY <3>2
    <3> QED
      BY <3>3 DEF Busy
  <2>3. CASE messageQueue # <<>>
    BY <1>i, <1>t, <2>1, <2>3, SomeTail DEF Busy
  <2> QED
    BY <2>2, <2>3
<1>5. CASE RunWritten
  <2>1. writes' = Append(writes, Head(messageQueue'))
    BY <1>5 DEF RunWritten, DoSend, SendsNext, flags
  <2>2. Len(writes') = Len(writes) + 1 /\ Len(writes) \in Nat
    BY <2>1, <1>t
  <2>3. writes' # <<>>
    BY <2>2
  <2> QED
    BY <2>3 DEF Busy
<1>6. CASE RunWriteFailed
  BY <1>6 DEF RunWriteFailed
<1>7. CASE RunClose \/ RunReadFailed \/ RunRead
  <2>1. /\ ioq # <<>> /\ ioq' = Tail(ioq) /\ Head(ioq).kind \in {"close", "read"}
        /\ UNCHANGED <<writes, messageQueue>>
    BY <1>7 DEF RunClose, RunReadFailed, RunRead, Runs, outbox
  <2> QED
    BY <1>i, <1>t, <2>1, SomeTail DEF Busy
<1>8. CASE ReadCompletes \/ ReadFails
  <2>1. PICK h \in Handlers : ioq' = Append(ioq, h)
    <3>1. CASE ReadCompletes
      <4>1. consumed' \in Nat /\ ioq' = Append(ioq, Handler("read", consumed', FALSE))
        BY <3>1, <1>t DEF ReadCompletes
      <4> QED
        BY <4>1, HandlerType
    <3>2. CASE ReadFails
      BY <3>2, HandlerType DEF ReadFails
    <3> QED
      BY <1>8, <3>1, <3>2
  <2> QED
    BY <1>8, <1>a, <2>1 DEF ReadCompletes, ReadFails, outbox
<1>9. CASE WriteCompletes \/ WriteFails
  <2>1. PICK e \in BOOLEAN : ioq' = Append(ioq, Handler("write", Head(writes), e))
    BY <1>9 DEF WriteCompletes, WriteFails
  <2>2. Head(writes) \in Nat
    <3>1. writes # <<>>
      BY <1>9 DEF WriteCompletes, WriteFails
    <3> QED
      BY <1>t, <3>1
  <2>3. /\ Handler("write", Head(writes), e) \in Handlers
        /\ Handler("write", Head(writes), e).kind = "write"
    BY <2>2, HandlerType
  <2>4. ~NoneOf(ioq', "write")
    BY <1>t, <2>1, <2>3, SomeAppend
  <2> QED
    BY <2>4 DEF Busy
<1>10. ASSUME NEW t \in Threads,
              ReadBegin(t) \/ ReadSees(t) \/ ReadLock(t) \/ ReadPop(t) \/ Shutdown(t) \/ Close(t)
       PROVE  UNCHANGED <<writes, ioq, messageQueue>>
  BY <1>10 DEF ReadBegin, ReadSees, ReadLock, ReadPop, Shutdown, Close, io, outbox
<1>11. CASE ConnectOpens \/ ConnectSocket \/ ConnectFails \/ ConnectReads \/ ConnectSpawns
             \/ ConnectTerminates \/ Destroy \/ Join
  BY <1>1, <1>11
  DEF ConnectOpens, ConnectSocket, ConnectFails, ConnectTerminates, ConnectReads,
      ConnectSpawns, Destroy, Join, io, outbox
<1>12. CASE HandlerPush \/ HandlerCopy \/ RunReturns \/ DeviceSends \/ LinkLost \/ UNCHANGED vars
  BY <1>1, <1>12
  DEF HandlerPush, HandlerCopy, RunReturns, DeviceSends, LinkLost, vars, io, outbox
<1> QED
  BY <1>1, <1>2, <1>3, <1>4, <1>5, <1>6, <1>7, <1>8, <1>9, <1>10, <1>11, <1>12
  DEF Next, Construction, Call, Continue, Io, Os

(* Until shutdown no message waits in messageQueue_ without a write that   *)
(* is under way or whose handler will start the next (send, doSend).       *)
THEOREM QueueMovesCorrect == Spec => []QueueMoves
<1>1. Init => QueueMoves
  BY DEF Init, QueueMoves
<1>2. WriteInv /\ QueueMoves /\ [Next]_vars => QueueMoves'
  BY QueueMovesNext DEF WriteInv
<1> QED
  BY <1>1, <1>2, WriteInvHolds, PTL DEF Spec

-----------------------------------------------------------------------------
(* The order of the messages.                                              *)

(* The handlers of send() in q carry a + 1 .. b, in that order.            *)
Waiting(q, a, b) ==
  /\ \A i \in DOMAIN q : q[i].kind = "send" => q[i].arg \in a + 1 .. b
  /\ \A i, j \in DOMAIN q :
       q[i].kind = "send" /\ q[j].kind = "send" /\ i < j => q[i].arg < q[j].arg
  /\ \A n \in a + 1 .. b : \E i \in DOMAIN q : q[i].kind = "send" /\ q[i].arg = n

(* How many messages left messageQueue_: those written, but for one whose  *)
(* handler has not run yet.                                                *)
Popped(q, w) == IF KindIn(q, "write", Failed) THEN Len(w) ELSE Len(w) - 1

(* Every message is in one place: popped, in messageQueue_ or waiting in   *)
(* io_, in the order of the calls.                                         *)
Ordered(q, m, w, n) ==
  /\ ~KindIn(q, "write", Failed) => w # <<>>
  /\ \A i \in DOMAIN m : m[i] = Popped(q, w) + i
  /\ Popped(q, w) + Len(m) <= n
  /\ Waiting(q, Popped(q, w) + Len(m), n)

OrderInv == Ordered(ioq, messageQueue, wire, accepted)

LEMMA WaitingAppend ==
  ASSUME NEW q \in Seq(Handlers), NEW h \in Handlers, NEW a \in Nat, NEW b \in Nat,
         a <= b, Waiting(q, a, b)
  PROVE  /\ h.kind # "send" => Waiting(Append(q, h), a, b)
         /\ h.kind = "send" /\ h.arg = b + 1 => Waiting(Append(q, h), a, b + 1)
<1> DEFINE r == Append(q, h)
           m == Len(q)
<1>1. /\ m \in Nat /\ DOMAIN q = 1 .. m /\ DOMAIN r = 1 .. m + 1
      /\ r[m + 1] = h /\ \A i \in 1 .. m : r[i] = q[i]
  BY AppendShape
<1> HIDE DEF r, m
<1>2. \A i \in 1 .. m + 1 : i \in 1 .. m \/ i = m + 1
  BY <1>1
<1>3. \A i \in 1 .. m : i \in 1 .. m + 1 /\ i < m + 1 /\ ~(m + 1 < i)
  BY <1>1
<1>4. ASSUME h.kind # "send" PROVE Waiting(r, a, b)
  BY <1>1, <1>2, <1>3, <1>4 DEF Waiting
<1>5. ASSUME h.kind = "send", h.arg = b + 1 PROVE Waiting(r, a, b + 1)
  <2>1. \A i \in 1 .. m : q[i].kind = "send" => q[i].arg \in a + 1 .. b
    BY <1>1 DEF Waiting
  <2>2. \A n \in a + 1 .. b : n \in a + 1 .. b + 1 /\ n < b + 1
    OBVIOUS
  <2>3. \A n \in a + 1 .. b + 1 : n \in a + 1 .. b \/ n = b + 1
    OBVIOUS
  <2>4. \A i \in 1 .. m + 1 : r[i].kind = "send" => r[i].arg \in a + 1 .. b + 1
    <3>1. b + 1 \in a + 1 .. b + 1
      OBVIOUS
    <3> QED
      BY <1>1, <1>2, <1>5, <2>1, <2>2, <3>1
  <2>5. ASSUME NEW i \in 1 .. m + 1, NEW j \in 1 .. m + 1,
               r[i].kind = "send", r[j].kind = "send", i < j
        PROVE  r[i].arg < r[j].arg
    <3>1. CASE j \in 1 .. m
      <4>1. i \in 1 .. m
        BY <1>1, <2>5, <3>1
      <4> QED
        BY <1>1, <2>5, <3>1, <4>1 DEF Waiting
    <3>2. CASE j = m + 1
      <4>1. i \in 1 .. m
        BY <1>1, <2>5, <3>2
      <4> QED
        BY <1>1, <1>5, <2>1, <2>2, <2>5, <3>2, <4>1
    <3> QED
      BY <1>2, <3>1, <3>2
  <2>6. ASSUME NEW n \in a + 1 .. b + 1
        PROVE  \E i \in 1 .. m + 1 : r[i].kind = "send" /\ r[i].arg = n
    <3>1. CASE n \in a + 1 .. b
      <4>1. PICK i \in 1 .. m : q[i].kind = "send" /\ q[i].arg = n
        BY <1>1, <3>1 DEF Waiting
      <4> QED
        BY <1>1, <1>3, <4>1
    <3>2. CASE n = b + 1
      <4>1. m + 1 \in 1 .. m + 1
        BY <1>1
      <4> QED
        BY <1>1, <1>5, <3>2, <4>1
    <3> QED
      BY <2>3, <3>1, <3>2
  <2> QED
    BY <1>1, <2>4, <2>5, <2>6 DEF Waiting
<1> QED
  BY <1>4, <1>5 DEF r

LEMMA WaitingTail ==
  ASSUME NEW q \in Seq(Handlers), q # <<>>, NEW a \in Nat, NEW b \in Nat, Waiting(q, a, b)
  PROVE  /\ Head(q).kind # "send" => Waiting(Tail(q), a, b)
         /\ Head(q).kind = "send" => Head(q).arg = a + 1 /\ Waiting(Tail(q), a + 1, b)
<1> DEFINE r == Tail(q)
           m == Len(q)
           g == Head(q)
<1>1. /\ m \in Nat \ {0} /\ DOMAIN q = 1 .. m /\ DOMAIN r = 1 .. m - 1
      /\ q[1] = g /\ g.arg \in Nat /\ \A i \in 1 .. m - 1 : r[i] = q[i + 1]
  BY HeadHandler, HeadTailProperties, LenProperties
<1> HIDE DEF r, m, g
<1>2. \A i \in 1 .. m - 1 : i + 1 \in 1 .. m /\ 1 < i + 1
  BY <1>1
<1>3. \A i \in 1 .. m : i = 1 \/ (i - 1 \in 1 .. m - 1 /\ q[i] = r[i - 1])
  BY <1>1
<1>w. /\ \A i \in 1 .. m : q[i].kind = "send" => q[i].arg \in a + 1 .. b
      /\ \A i, j \in 1 .. m :
           q[i].kind = "send" /\ q[j].kind = "send" /\ i < j => q[i].arg < q[j].arg
  BY <1>1 DEF Waiting
<1>4. \A i, j \in 1 .. m - 1 :
        r[i].kind = "send" /\ r[j].kind = "send" /\ i < j => r[i].arg < r[j].arg
  <2>1. \A i, j \in 1 .. m - 1 : i < j => i + 1 < j + 1
    BY <1>1
  <2> QED
    BY <1>1, <1>2, <1>w, <2>1
<1>5. \A i \in 1 .. m - 1 : r[i].kind = "send" => r[i].arg \in a + 1 .. b
  BY <1>1, <1>2, <1>w
<1>6. ASSUME g.kind # "send" PROVE Waiting(r, a, b)
  <2>1. ASSUME NEW n \in a + 1 .. b PROVE \E i \in 1 .. m - 1 : r[i].kind = "send" /\ r[i].arg = n
    <3>1. PICK i \in 1 .. m : q[i].kind = "send" /\ q[i].arg = n
      BY <1>1 DEF Waiting
    <3> QED
      BY <1>1, <1>3, <1>6, <3>1
  <2> QED
    BY <1>1, <1>4, <1>5, <2>1 DEF Waiting
<1>7. ASSUME g.kind = "send" PROVE g.arg = a + 1 /\ Waiting(r, a + 1, b)
  <2>1. g.arg \in a + 1 .. b /\ 1 \in 1 .. m
    BY <1>1, <1>7 DEF Waiting
  <2>2. \A i \in 1 .. m - 1 : r[i].kind = "send" => g.arg < r[i].arg
    BY <1>1, <1>2, <1>7, <1>w, <2>1
  <2>3. g.arg = a + 1
    <3>1. a + 1 \in a + 1 .. b
      BY <2>1
    <3>2. PICK i \in 1 .. m : q[i].kind = "send" /\ q[i].arg = a + 1
      BY <1>1, <3>1 DEF Waiting
    <3>3. CASE i = 1
      BY <1>1, <3>2, <3>3
    <3>4. CASE i # 1
      <4>1. g.arg < a + 1
        BY <1>3, <2>2, <3>2, <3>4
      <4> QED
        BY <2>1, <4>1
    <3> QED
      BY <3>3, <3>4
  <2>4. \A i \in 1 .. m - 1 : r[i].kind = "send" => r[i].arg \in (a + 1) + 1 .. b
    BY <1>5, <2>2, <2>3
  <2>5. ASSUME NEW n \in (a + 1) + 1 .. b
        PROVE  \E i \in 1 .. m - 1 : r[i].kind = "send" /\ r[i].arg = n
    <3>1. n \in a + 1 .. b /\ n # a + 1
      OBVIOUS
    <3>2. PICK i \in 1 .. m : q[i].kind = "send" /\ q[i].arg = n
      BY <1>1, <3>1 DEF Waiting
    <3> QED
      BY <1>1, <1>3, <2>3, <3>1, <3>2
  <2> QED
    BY <1>1, <1>4, <2>3, <2>4, <2>5 DEF Waiting
<1> QED
  BY <1>6, <1>7 DEF r, g

LEMMA PoppedType ==
  ASSUME NEW q \in Seq(Handlers), NEW m \in Seq(Nat), NEW w \in Seq(Nat), NEW n \in Nat,
         Ordered(q, m, w, n)
  PROVE  /\ Popped(q, w) \in Nat /\ Len(m) \in Nat
         /\ Popped(q, w) + Len(m) \in Nat /\ Popped(q, w) + Len(m) <= n
<1>1. KindIn(q, "write", Failed) \/ Len(w) \in Nat \ {0}
  BY DEF Ordered
<1>2. Popped(q, w) \in Nat
  BY <1>1 DEF Popped
<1> QED
  BY <1>2 DEF Ordered

(* Handlers that neither send nor complete a write leave the order alone.  *)
LEMMA OrderedQueue ==
  ASSUME NEW q \in Seq(Handlers), NEW m \in Seq(Nat), NEW w \in Seq(Nat), NEW n \in Nat,
         Ordered(q, m, w, n)
  PROVE  /\ \A h \in Handlers : h.kind # "send" /\ (h.kind = "write" => h.err) =>
              Ordered(Append(q, h), m, w, n)
         /\ Ordered(PostClose(q), m, w, n)
         /\ q # <<>> /\ Head(q).kind # "send" /\ (Head(q).kind = "write" => Head(q).err) =>
              Ordered(Tail(q), m, w, n)
<1>t. /\ Popped(q, w) \in Nat /\ Popped(q, w) + Len(m) \in Nat
      /\ Popped(q, w) + Len(m) <= n
  BY PoppedType
<1>s. ASSUME NEW r, KindIn(r, "write", Failed) <=> KindIn(q, "write", Failed),
             Waiting(r, Popped(q, w) + Len(m), n)
      PROVE  Ordered(r, m, w, n)
  <2>1. Popped(r, w) = Popped(q, w)
    BY <1>s DEF Popped
  <2> QED
    BY <1>s, <2>1 DEF Ordered
<1>w. Waiting(q, Popped(q, w) + Len(m), n)
  BY DEF Ordered
<1>1. ASSUME NEW h \in Handlers, h.kind # "send", h.kind = "write" => h.err
      PROVE  Ordered(Append(q, h), m, w, n)
  <2>1. KindIn(Append(q, h), "write", Failed) <=> KindIn(q, "write", Failed)
    BY <1>1, KindInQueue DEF Failed
  <2>2. Waiting(Append(q, h), Popped(q, w) + Len(m), n)
    BY <1>t, <1>w, <1>1, WaitingAppend
  <2> QED
    BY <1>s, <2>1, <2>2
<1>2. Ordered(PostClose(q), m, w, n)
  <2>1. /\ Handler("close", 0, FALSE) \in Handlers
        /\ Handler("close", 0, FALSE).kind = "close"
    BY CloseHandler
  <2> QED
    BY <1>1, <2>1 DEF PostClose
<1>3. ASSUME q # <<>>, Head(q).kind # "send", Head(q).kind = "write" => Head(q).err
      PROVE  Ordered(Tail(q), m, w, n)
  <2>1. KindIn(q, "write", Failed) <=> KindIn(Tail(q), "write", Failed)
    BY <1>3, KindInQueue, HeadHandler DEF Failed
  <2>2. Waiting(Tail(q), Popped(q, w) + Len(m), n)
    BY <1>t, <1>w, <1>3, WaitingTail
  <2> QED
    BY <1>s, <2>1, <2>2
<1> QED
  BY <1>1, <1>2, <1>3

LEMMA OrderNext ==
  ASSUME TypeInv, OneWrite, OrderInv, [Next]_vars PROVE OrderInv'
<1>t. /\ ioq \in Seq(Handlers) /\ writes \in Seq(Nat) /\ messageQueue \in Seq(Nat)
      /\ wire \in Seq(Nat) /\ accepted \in Nat /\ consumed \in Nat
  BY DEF TypeInv, DataOK
<1> DEFINE p == Popped(ioq, wire)
           m == Len(messageQueue)
<1>i. Ordered(ioq, messageQueue, wire, accepted)
  BY DEF OrderInv
<1>p. p \in Nat /\ m \in Nat /\ p + m \in Nat /\ p + m <= accepted
  BY <1>t, <1>i, PoppedType
<1>q. /\ \A i \in 1 .. m : messageQueue[i] = p + i
      /\ Waiting(ioq, p + m, accepted)
      /\ ~KindIn(ioq, "write", Failed) => wire # <<>>
  BY <1>t, <1>i DEF Ordered
<1>r. \A i \in DOMAIN messageQueue : messageQueue[i] = p + i
  BY <1>i DEF Ordered
<1> SUFFICES Ordered(ioq', messageQueue', wire', accepted')
  BY DEF OrderInv
<1> HIDE DEF p, m
<1> USE DEF outbox
<1>1. CASE UNCHANGED <<ioq, messageQueue, wire, accepted>>
  BY <1>1, <1>i
<1>a. ASSUME NEW h \in Handlers, h.kind # "send", h.kind = "write" => h.err,
             ioq' = Append(ioq, h), UNCHANGED <<messageQueue, wire, accepted>>
      PROVE  Ordered(ioq', messageQueue', wire', accepted')
  BY <1>a, <1>t, <1>i, OrderedQueue
<1>2. ASSUME NEW t \in Threads, Send(t) PROVE Ordered(ioq', messageQueue', wire', accepted')
  <2>1. /\ accepted' = accepted + 1 /\ accepted' \in Nat
        /\ ioq' = Append(ioq, Handler("send", accepted', FALSE))
        /\ UNCHANGED <<messageQueue, wire>>
    BY <1>2, <1>t DEF Send
  <2>t. accepted' \in Nat
    BY <2>1
  <2> DEFINE h == Handler("send", accepted', FALSE)
  <2>2. h \in Handlers /\ h.kind = "send" /\ h.arg = accepted + 1 /\ ioq' = Append(ioq, h)
    <3>1. h \in Handlers /\ h.kind = "send" /\ h.arg = accepted'
      BY <2>t DEF Handler, Handlers
    <3>2. ioq' = Append(ioq, h)
      BY <2>1
    <3> HIDE DEF h
    <3> QED
      BY <2>1, <3>1, <3>2
  <2> HIDE DEF h
  <2>3. Waiting(ioq', p + m, accepted')
    BY <1>t, <1>p, <1>q, <2>1, <2>2, WaitingAppend
  <2>4. KindIn(ioq', "write", Failed) <=> KindIn(ioq, "write", Failed)
    BY <1>t, <2>2, KindInQueue
  <2>5. Popped(ioq', wire') = p
    BY <2>1, <2>4 DEF Popped, p
  <2>6. p + Len(messageQueue') <= accepted' /\ Len(messageQueue') = m
    BY <1>p, <1>t, <2>1 DEF m
  <2>7. \A i \in DOMAIN messageQueue' : messageQueue'[i] = p + i
    BY <1>r, <2>1
  <2> QED
    BY <1>q, <2>1, <2>3, <2>4, <2>5, <2>6, <2>7 DEF Ordered
<1>3. ASSUME NEW t \in Threads, ClosePosts(t) PROVE Ordered(ioq', messageQueue', wire', accepted')
  BY <1>3, <1>t, <1>i, OrderedQueue DEF ClosePosts
<1>4. CASE RunSend
  <2>1. /\ ioq # <<>> /\ ioq' = Tail(ioq) /\ Head(ioq).kind = "send"
        /\ messageQueue' = Append(messageQueue, Head(ioq).arg)
        /\ UNCHANGED <<wire, accepted>>
    BY <1>4 DEF RunSend, Runs
  <2>2. Head(ioq).arg = p + m + 1 /\ Waiting(ioq', p + m + 1, accepted)
    BY <1>t, <1>p, <1>q, <2>1, WaitingTail
  <2>3. KindIn(ioq', "write", Failed) <=> KindIn(ioq, "write", Failed)
    BY <1>t, <2>1, KindInQueue
  <2>4. Popped(ioq', wire') = p
    BY <2>1, <2>3 DEF Popped, p
  <2>5. Len(messageQueue') = m + 1 /\ DOMAIN messageQueue' = 1 .. m + 1
    BY <1>t, <1>p, <2>1, <2>2 DEF m
  <2>6. \A i \in 1 .. m + 1 : messageQueue'[i] = p + i
    <3>1. (\A i \in 1 .. m : messageQueue'[i] = messageQueue[i]) /\ messageQueue'[m + 1] = p + m + 1
      BY <1>t, <1>p, <2>1, <2>2 DEF m
    <3>2. \A i \in 1 .. m + 1 : i \in 1 .. m \/ i = m + 1
      BY <1>p
    <3>3. p + m + 1 = p + (m + 1)
      BY <1>p
    <3> QED
      BY <1>q, <3>1, <3>2, <3>3
  <2>7. p + (m + 1) <= accepted /\ p + m + 1 = p + (m + 1)
    <3>1. Head(ioq).arg \in p + m + 1 .. accepted
      BY <1>t, <1>q, <2>1, HeadHandler DEF Waiting
    <3> QED
      BY <1>p, <1>t, <2>2, <3>1
  <2> QED
    BY <1>q, <2>1, <2>2, <2>3, <2>4, <2>5, <2>6, <2>7 DEF Ordered
<1>5. CASE RunWritten
  <2>1. /\ ioq # <<>> /\ ioq' = Tail(ioq) /\ Head(ioq).kind = "write" /\ ~Head(ioq).err
        /\ messageQueue' = Tail(messageQueue) /\ UNCHANGED <<wire, accepted>>
    BY <1>5 DEF RunWritten, Runs, PopFront
  <2>2. messageQueue # <<>> /\ AtMostOne(ioq, "write")
    <3>1. 1 \in Ready("write")
      BY <1>t, <2>1, HeadHandler DEF Ready
    <3> QED
      BY <3>1 DEF OneWrite, Ready, AtMostOne
  <2>3. NoneOf(ioq', "write")
    BY <1>t, <2>1, <2>2, TailHandler
  <2>4. KindIn(ioq', "write", Failed)
    BY <2>3 DEF NoneOf, KindIn
  <2>5. ~KindIn(ioq, "write", Failed)
    BY <1>t, <2>1, HeadHandler, KindInQueue DEF Failed
  <2>6. Popped(ioq', wire') = p + 1
    BY <1>t, <2>1, <2>4, <2>5 DEF Popped, p
  <2>7. /\ m \in Nat \ {0} /\ Len(messageQueue') = m - 1 /\ DOMAIN messageQueue' = 1 .. m - 1
        /\ \A i \in 1 .. m - 1 : messageQueue'[i] = messageQueue[i + 1]
    BY <1>t, <2>1, <2>2, HeadTailProperties, LenProperties DEF m
  <2>8. \A i \in 1 .. m - 1 : messageQueue'[i] = (p + 1) + i
    <3>1. \A i \in 1 .. m - 1 : i + 1 \in 1 .. m /\ p + (i + 1) = (p + 1) + i
      BY <1>p, <2>7
    <3> QED
      BY <1>q, <2>7, <3>1
  <2>9. (p + 1) + (m - 1) = p + m
    BY <1>p, <2>7
  <2>10. Waiting(ioq', p + m, accepted)
    BY <1>t, <1>p, <1>q, <2>1, WaitingTail
  <2> QED
    BY <1>p, <2>1, <2>4, <2>6, <2>7, <2>8, <2>9, <2>10 DEF Ordered
<1>6. CASE RunWriteFailed
  <2>1. /\ ioq # <<>> /\ ioq' = PostClose(Tail(ioq)) /\ Head(ioq).kind = "write" /\ Head(ioq).err
        /\ UNCHANGED <<messageQueue, wire, accepted>>
    BY <1>6 DEF RunWriteFailed, Runs
  <2>2. Tail(ioq) \in Seq(Handlers) /\ Ordered(Tail(ioq), messageQueue, wire, accepted)
    BY <1>t, <1>i, <2>1, OrderedQueue, HeadHandler
  <2> QED
    BY <1>t, <2>1, <2>2, OrderedQueue
<1>7. CASE RunClose \/ RunReadFailed \/ RunRead
  <2>1. /\ ioq # <<>> /\ ioq' = Tail(ioq) /\ Head(ioq).kind \in {"close", "read"}
        /\ UNCHANGED <<messageQueue, wire, accepted>>
    BY <1>7 DEF RunClose, RunReadFailed, RunRead, Runs
  <2> QED
    BY <1>t, <1>i, <2>1, OrderedQueue
<1>8. CASE ReadCompletes \/ ReadFails
  <2>1. PICK h \in Handlers : ioq' = Append(ioq, h) /\ h.kind = "read"
    <3>1. CASE ReadCompletes
      <4>1. consumed' \in Nat /\ ioq' = Append(ioq, Handler("read", consumed', FALSE))
        BY <3>1, <1>t DEF ReadCompletes
      <4>2. /\ Handler("read", consumed', FALSE) \in Handlers
            /\ Handler("read", consumed', FALSE).kind = "read"
        BY <4>1, HandlerType
      <4> QED
        BY <4>1, <4>2
    <3>2. CASE ReadFails
      <4>1. Handler("read", 0, TRUE) \in Handlers /\ Handler("read", 0, TRUE).kind = "read"
        BY HandlerType
      <4>2. ioq' = Append(ioq, Handler("read", 0, TRUE))
        BY <3>2 DEF ReadFails
      <4> QED
        BY <4>1, <4>2
    <3> QED
      BY <1>8, <3>1, <3>2
  <2> QED
    BY <1>8, <1>a, <2>1 DEF ReadCompletes, ReadFails
<1>9. CASE WriteCompletes
  <2>1. /\ writes # <<>> /\ wire' = Append(wire, Head(writes))
        /\ ioq' = Append(ioq, Handler("write", Head(writes), FALSE))
        /\ UNCHANGED <<messageQueue, accepted>>
    BY <1>9 DEF WriteCompletes
  <2>2. Head(writes) \in Nat
    BY <1>t, <2>1
  <2>3. PICK h \in Handlers : /\ h = Handler("write", Head(writes), FALSE)
                              /\ h.kind = "write" /\ ~h.err
    BY <2>2, HandlerType
  <2>4. KindIn(ioq, "write", Failed)
    BY <2>1 DEF OneWrite, Ready, KindIn
  <2>5. ~KindIn(ioq', "write", Failed)
    <3>1. KindIn(Append(ioq, h), "write", Failed) <=>
            KindIn(ioq, "write", Failed) /\ (h.kind = "write" => h \in Failed)
      BY <1>t, KindInQueue
    <3> QED
      BY <2>1, <2>3, <3>1 DEF Failed
  <2>6. Len(wire') = Len(wire) + 1 /\ Len(wire) \in Nat
    BY <1>t, <2>1, <2>2
  <2>w. wire' # <<>>
    BY <2>6
  <2>7. Popped(ioq', wire') = p
    BY <2>4, <2>5, <2>6 DEF Popped, p
  <2>8. Waiting(ioq', p + m, accepted)
    BY <1>t, <1>p, <1>q, <2>1, <2>3, WaitingAppend
  <2>9. /\ Len(messageQueue') = m /\ \A i \in DOMAIN messageQueue' : messageQueue'[i] = p + i
        /\ p + m <= accepted'
    <3>1. \A i \in DOMAIN messageQueue' : messageQueue'[i] = p + i
      BY <1>r, <2>1
    <3> QED
      BY <1>p, <2>1, <3>1 DEF m
  <2>10. Waiting(ioq', p + m, accepted')
    BY <2>1, <2>8
  <2> QED
    BY <2>7, <2>9, <2>10, <2>w DEF Ordered
<1>10. CASE WriteFails
  <2>1. Head(writes) \in Nat /\ ioq' = Append(ioq, Handler("write", Head(writes), TRUE))
    BY <1>10, <1>t DEF WriteFails
  <2> DEFINE h == Handler("write", Head(writes), TRUE)
  <2>2. h \in Handlers /\ h.kind = "write" /\ h.err /\ ioq' = Append(ioq, h)
    BY <2>1, HandlerType
  <2> HIDE DEF h
  <2> QED
    BY <1>10, <1>a, <2>1, <2>2 DEF WriteFails
<1>11. ASSUME NEW t \in Threads,
              ReadBegin(t) \/ ReadSees(t) \/ ReadLock(t) \/ ReadPop(t) \/ Shutdown(t) \/ Close(t)
       PROVE  UNCHANGED <<ioq, messageQueue, wire, accepted>>
  BY <1>11 DEF ReadBegin, ReadSees, ReadLock, ReadPop, Shutdown, Close, io
<1>12. CASE ConnectOpens \/ ConnectSocket \/ ConnectFails \/ ConnectReads \/ ConnectSpawns
             \/ ConnectTerminates \/ Destroy \/ Join
  BY <1>1, <1>12
  DEF ConnectOpens, ConnectSocket, ConnectFails, ConnectTerminates, ConnectReads,
      ConnectSpawns, Destroy, Join, io
<1>13. CASE HandlerPush \/ HandlerCopy \/ RunReturns \/ DeviceSends \/ LinkLost \/ UNCHANGED vars
  BY <1>1, <1>13 DEF HandlerPush, HandlerCopy, RunReturns, DeviceSends, LinkLost, vars, io
<1> QED
  BY <1>1, <1>2, <1>3, <1>4, <1>5, <1>6, <1>7, <1>8, <1>9, <1>10, <1>11, <1>12, <1>13
  DEF Next, Construction, Call, Continue, Io, Os

LEMMA OrderInvHolds == Spec => [](WriteInv /\ OrderInv)
<1>1. Init => OrderInv
  BY DEF Init, OrderInv, Ordered, Popped, KindIn, Waiting
<1>2. WriteInv /\ OrderInv /\ [Next]_vars => OrderInv'
  BY OrderNext DEF WriteInv
<1> QED
  BY <1>1, <1>2, WriteInvHolds, PTL DEF Spec

-----------------------------------------------------------------------------
(* The sending side implements Outbox.                                     *)

LEMMA LostStays ==
  ASSUME ShutInv, [Next]_vars, link = "lost" PROVE link' = "lost" \/ shutdown
<1> USE DEF os
<1>1. ASSUME NEW t \in Threads, Call(t) \/ Continue(t) PROVE link' = link
  BY <1>1 DEF Call, Continue, Send, ReadBegin, Shutdown, Close, ReadSees, ReadLock, ReadPop,
              ClosePosts
<1>2. CASE ConnectOpens
  BY <1>2 DEF ConnectOpens, ShutInv
<1>3. CASE ConnectSocket \/ Destroy \/ Construction
  BY <1>3 DEF ConnectSocket, Destroy, Construction, ConnectFails, ConnectReads, ConnectSpawns,
              ConnectTerminates, Join
<1>4. CASE Io
  BY <1>4 DEF Io, RunSend, RunWritten, RunWriteFailed, RunClose, RunReadFailed, RunRead,
              HandlerPush, HandlerCopy, RunReturns
<1>5. CASE Os \/ DeviceSends \/ LinkLost \/ UNCHANGED vars
  BY <1>5 DEF Os, ReadCompletes, ReadFails, WriteCompletes, WriteFails, DeviceSends,
              LinkLost, vars
<1> QED
  BY <1>1, <1>2, <1>3, <1>4, <1>5 DEF Next

(* What breaks the connection stays so: the thread that could not be       *)
(* started is not started by a later connect(), as the first left the      *)
(* socket connected.                                                       *)
LEMMA BrokenStays ==
  ASSUME ShutInv, LifeInv, [Next]_vars, Broken PROVE Broken'
<1>1. CASE shutdown
  BY <1>1, ShutdownStays DEF Broken
<1>2. CASE object \in {"destroyed", "undefined"}
  BY <1>2 DEF Next, Broken, vars, life
<1>3. CASE link = "lost"
  BY <1>1, <1>3, LostStays DEF Broken
<1>4. CASE iothread = "failed"
  <2>1. iothread' = "failed"
    <3> USE DEF life
    <3>1. ASSUME NEW t \in Threads, Call(t) \/ Continue(t) PROVE iothread' = iothread
      BY <3>1 DEF Call, Continue, Send, ReadBegin, Shutdown, Close, ReadSees, ReadLock, ReadPop,
                  ClosePosts
    <3>2. CASE ConnectOpens \/ ConnectSocket \/ ConnectFails \/ ConnectReads
                 \/ ConnectTerminates \/ Destroy \/ Join
      BY <1>4, <3>2 DEF ConnectOpens, ConnectSocket, ConnectFails, ConnectReads,
                        ConnectTerminates, Destroy, Join
    <3>3. ~ConnectSpawns
      BY <1>4 DEF ConnectSpawns, LifeInv, Unstarted, Joinable
    <3>4. CASE Io
      BY <1>4, <3>4 DEF Io, RunSend, RunWritten, RunWriteFailed, RunClose, RunReadFailed, RunRead,
                        HandlerPush, HandlerCopy, RunReturns
    <3>5. CASE Os \/ DeviceSends \/ LinkLost \/ UNCHANGED vars
      BY <1>4, <3>5 DEF Os, ReadCompletes, ReadFails, WriteCompletes, WriteFails, DeviceSends,
                        LinkLost, vars
    <3> QED
      BY <1>4, <3>1, <3>2, <3>3, <3>4, <3>5 DEF Next, Construction
  <2> QED
    BY <2>1 DEF Broken
<1> QED
  BY <1>1, <1>2, <1>3, <1>4 DEF Broken

(* What is being written is the first message that is not on the link yet. *)
LEMMA NextOnWire ==
  ASSUME TypeInv, OneWrite, OrderInv, writes # <<>>
  PROVE  /\ messageQueue # <<>> /\ Head(writes) = messageQueue[1]
         /\ Head(writes) = Len(wire) + 1 /\ Len(wire) < accepted
<1>t. /\ ioq \in Seq(Handlers) /\ messageQueue \in Seq(Nat)
      /\ wire \in Seq(Nat) /\ accepted \in Nat
  BY DEF TypeInv, DataOK
<1>1. messageQueue # <<>> /\ Head(writes) = Head(messageQueue) /\ Ready("write") = {}
  BY DEF OneWrite
<1>2. Popped(ioq, wire) = Len(wire) /\ Len(wire) \in Nat
  BY <1>t, <1>1 DEF Popped, KindIn, Ready
<1>3. /\ 1 \in DOMAIN messageQueue /\ Head(messageQueue) = messageQueue[1]
      /\ Len(messageQueue) \in Nat \ {0}
  BY <1>t, <1>1
<1>4. messageQueue[1] = Len(wire) + 1 /\ Len(wire) + Len(messageQueue) <= accepted
  BY <1>2, <1>3 DEF OrderInv, Ordered
<1>5. Len(wire) < accepted
  BY <1>t, <1>2, <1>3, <1>4
<1> QED
  BY <1>1, <1>3, <1>4, <1>5

(* Only send() takes a message, only a completed write puts one on the     *)
(* link, and neither breaks the connection.                                *)
LEMMA OutboxSteps ==
  ASSUME [Next]_vars
  PROVE  \/ UNCHANGED <<accepted, wire>>
         \/ (\E t \in Threads : Send(t)) /\ UNCHANGED <<shutdown, link, object, iothread, wire>>
         \/ WriteCompletes /\ UNCHANGED <<shutdown, link, object, iothread, accepted>>
<1> USE DEF outbox, flags, life, os
<1>1. ASSUME NEW t \in Threads, Call(t) \/ Continue(t)
      PROVE  UNCHANGED <<accepted, wire>> \/ Send(t)
  BY <1>1 DEF Call, Continue, ReadBegin, Shutdown, Close, ReadSees, ReadLock, ReadPop, ClosePosts
<1>2. ASSUME NEW t \in Threads, Send(t)
      PROVE  UNCHANGED <<shutdown, link, object, iothread, wire>>
  BY <1>2 DEF Send
<1>3. CASE ConnectOpens \/ ConnectSocket \/ Destroy \/ Construction
  BY <1>3 DEF ConnectOpens, ConnectSocket, ConnectFails, ConnectTerminates, Destroy,
              Construction, ConnectReads, ConnectSpawns, Join
<1>4. CASE Io
  BY <1>4 DEF Io, RunSend, RunWritten, RunWriteFailed, RunClose, RunReadFailed, RunRead,
              HandlerPush, HandlerCopy, RunReturns
<1>5. CASE WriteCompletes
  BY <1>5 DEF WriteCompletes
<1>6. CASE ReadCompletes \/ ReadFails \/ WriteFails \/ DeviceSends \/ LinkLost \/ UNCHANGED vars
  BY <1>6 DEF ReadCompletes, ReadFails, WriteFails, DeviceSends, LinkLost, vars
<1> QED
  BY <1>1, <1>2, <1>3, <1>4, <1>5, <1>6 DEF Next, Os

(* send() and the handlers that write together do what Outbox promises:    *)
(* messages go out in the order of the calls, none twice and none left     *)
(* out, and the connection breaks once and for all (send, doSend).         *)
THEOREM SendsInOrderCorrect == Spec => SendsInOrder
<1>3. Init => Promise!Init
  BY DEF Init, Promise!Init, Broken
<1>4. ASSUME WriteInv, ShutInv, LifeInv, OrderInv, [Next]_vars
      PROVE  [Promise!Next]_(Promise!vars)
  <2>t. /\ ioq \in Seq(Handlers) /\ messageQueue \in Seq(Nat)
        /\ wire \in Seq(Nat) /\ accepted \in Nat
    BY <1>4 DEF WriteInv, TypeInv, DataOK
  <2>1. CASE UNCHANGED <<accepted, wire>>
    <3>1. CASE Broken
      <4>1. Broken'
        BY <1>4, <3>1, BrokenStays
      <4> QED
        BY <2>1, <3>1, <4>1 DEF Promise!vars
    <3>2. CASE ~Broken /\ ~Broken'
      <4>1. Broken' = Broken
        BY <3>2 DEF Broken
      <4> QED
        BY <2>1, <4>1 DEF Promise!vars
    <3>3. CASE ~Broken /\ Broken'
      BY <2>1, <3>3 DEF Promise!Next, Promise!Break
    <3> QED
      BY <3>1, <3>2, <3>3
  <2>2. CASE (\E t \in Threads : Send(t)) /\ UNCHANGED <<shutdown, link, object, iothread, wire>>
    <3>1. accepted < MaxSends /\ accepted' = accepted + 1
      BY <2>2 DEF Send
    <3>2. Broken' = Broken
      BY <2>2 DEF Broken
    <3> QED
      BY <2>2, <3>1, <3>2 DEF Promise!Next, Promise!Accept
  <2>3. CASE WriteCompletes /\ UNCHANGED <<shutdown, link, object, iothread, accepted>>
    <3>1. writes # <<>> /\ wire' = Append(wire, Head(writes))
      BY <2>3 DEF WriteCompletes
    <3>4. Head(writes) = Len(wire) + 1 /\ Len(wire) < accepted
      BY <1>4, <3>1, NextOnWire DEF WriteInv
    <3>5. Broken' = Broken
      BY <2>3 DEF Broken
    <3> QED
      BY <2>3, <3>1, <3>4, <3>5 DEF Promise!Next, Promise!Transmit
  <2> QED
    BY <1>4, <2>1, <2>2, <2>3, OutboxSteps
<1> QED
  BY <1>3, <1>4, OrderInvHolds, LifeInvHolds, PTL DEF Spec, SendsInOrder, Promise!Spec

-----------------------------------------------------------------------------
(* What is sent behind the close handler.                                  *)

WireInv == \A i \in DOMAIN wire : wire[i] = i

(* A close handler in q runs before message n and all later ones.          *)
Behind(q, n) ==
  \E c \in DOMAIN q :
    /\ q[c].kind = "close"
    /\ \A i \in DOMAIN q : q[i].kind = "send" /\ q[i].arg >= n => c < i

(* Message n is not on the link, and nothing puts it there as long as the  *)
(* socket is not opened again.                                             *)
Doomed(n) ==
  reopened \/
    /\ Len(wire) < n
    /\ \/ ~socketOpen
       \/ (\A i \in DOMAIN messageQueue : messageQueue[i] < n) /\ Behind(ioq, n)

LEMMA BehindQueue ==
  ASSUME NEW q \in Seq(Handlers), NEW n \in Nat, Behind(q, n)
  PROVE  /\ \A h \in Handlers : Behind(Append(q, h), n)
         /\ Behind(PostClose(q), n)
         /\ q # <<>> /\ Head(q).kind # "close" =>
              /\ Behind(Tail(q), n)
              /\ Head(q).kind = "send" => Head(q).arg < n
<1> DEFINE m == Len(q)
<1>1. m \in Nat /\ DOMAIN q = 1 .. m
  OBVIOUS
<1>2. PICK c \in 1 .. m :
        /\ q[c].kind = "close"
        /\ \A i \in 1 .. m : q[i].kind = "send" /\ q[i].arg >= n => c < i
  BY <1>1 DEF Behind
<1> HIDE DEF m
<1>3. ASSUME NEW h \in Handlers PROVE Behind(Append(q, h), n)
  <2> DEFINE r == Append(q, h)
  <2>1. DOMAIN r = 1 .. m + 1 /\ \A i \in 1 .. m : r[i] = q[i]
    BY AppendShape DEF m
  <2> HIDE DEF r
  <2>2. c \in 1 .. m + 1 /\ \A i \in 1 .. m + 1 : i \in 1 .. m \/ c < i
    BY <1>1
  <2> QED
    BY <1>2, <2>1, <2>2 DEF Behind, r
<1>4. Behind(PostClose(q), n)
  <2>1. Handler("close", 0, FALSE) \in Handlers
    BY HandlerType
  <2> QED
    BY <1>3, <2>1 DEF PostClose
<1>5. ASSUME q # <<>>, Head(q).kind # "close"
      PROVE  /\ Behind(Tail(q), n)
             /\ Head(q).kind = "send" => Head(q).arg < n
  <2> DEFINE r == Tail(q)
  <2>1. /\ DOMAIN r = 1 .. m - 1 /\ (\A i \in 1 .. m - 1 : r[i] = q[i + 1])
        /\ q[1] = Head(q) /\ Head(q).arg \in Nat /\ 1 \in 1 .. m
    BY <1>1, <1>5, HeadHandler, HeadTailProperties, LenProperties DEF m
  <2> HIDE DEF r
  <2>2. c # 1
    BY <1>2, <1>5, <2>1
  <2>3. c - 1 \in 1 .. m - 1 /\ (c - 1) + 1 = c
    BY <1>1, <2>2
  <2>4. r[c - 1].kind = "close"
    BY <1>2, <2>1, <2>3
  <2>5. \A i \in 1 .. m - 1 : r[i].kind = "send" /\ r[i].arg >= n => c - 1 < i
    <3>1. \A i \in 1 .. m - 1 : i + 1 \in 1 .. m /\ (c < i + 1 => c - 1 < i)
      BY <1>1
    <3> QED
      BY <1>2, <2>1, <3>1
  <2>6. Behind(r, n)
    BY <2>1, <2>3, <2>4, <2>5 DEF Behind
  <2>7. Head(q).kind = "send" => Head(q).arg < n
    <3>1. ~(c < 1)
      BY <1>1
    <3> QED
      BY <1>2, <2>1, <3>1
  <2> QED
    BY <2>6, <2>7 DEF r
<1> QED
  BY <1>3, <1>4, <1>5

LEMMA ClosedStays ==
  ASSUME [Next]_vars
  PROVE  /\ reopened => reopened'
         /\ ~socketOpen => ~socketOpen' \/ reopened'
<1> USE DEF life, os, sockets
<1>1. ASSUME NEW t \in Threads, Call(t) \/ Continue(t) PROVE UNCHANGED <<socketOpen, reopened>>
  BY <1>1 DEF Call, Continue, Send, ReadBegin, Shutdown, Close, ReadSees, ReadLock, ReadPop,
              ClosePosts
<1>2. CASE ConnectOpens \/ ConnectSocket \/ Destroy \/ Construction
  BY <1>2 DEF ConnectOpens, ConnectSocket, Destroy, Construction, ConnectFails,
              ConnectReads,
              ConnectSpawns, ConnectTerminates, Join
<1>3. CASE Io
  BY <1>3 DEF Io, RunSend, RunWritten, RunWriteFailed, RunClose, RunReadFailed, RunRead,
              HandlerPush, HandlerCopy, RunReturns
<1>4. CASE Os \/ DeviceSends
  <2>1. UNCHANGED <<socketOpen, reopened>>
    BY <1>4 DEF Os, ReadCompletes, ReadFails, WriteCompletes, WriteFails, DeviceSends
  <2> QED
    BY <2>1
<1>5. CASE LinkLost \/ UNCHANGED vars
  BY <1>5 DEF LinkLost, vars
<1> QED
  BY <1>1, <1>2, <1>3, <1>4, <1>5 DEF Next

(* The queues on a socket that is still open.                              *)
LEMMA BehindNext ==
  ASSUME TypeInv, OneWrite, [Next]_vars, NEW n \in Nat,
         \A i \in DOMAIN messageQueue : messageQueue[i] < n, Behind(ioq, n)
  PROVE  \/ ~socketOpen'
         \/ (\A i \in DOMAIN messageQueue' : messageQueue'[i] < n) /\ Behind(ioq', n)
<1>t. /\ ioq \in Seq(Handlers) /\ writes \in Seq(Nat) /\ messageQueue \in Seq(Nat)
      /\ accepted \in Nat /\ consumed \in Nat
  BY DEF TypeInv, DataOK
<1> USE DEF outbox
<1>1. CASE UNCHANGED <<ioq, messageQueue>>
  BY <1>1
<1>a. ASSUME NEW h \in Handlers, ioq' = Append(ioq, h), UNCHANGED messageQueue
      PROVE  (\A i \in DOMAIN messageQueue' : messageQueue'[i] < n) /\ Behind(ioq', n)
  BY <1>a, <1>t, BehindQueue
<1>2. ASSUME NEW t \in Threads, Send(t)
      PROVE  (\A i \in DOMAIN messageQueue' : messageQueue'[i] < n) /\ Behind(ioq', n)
  <2>1. accepted' \in Nat /\ UNCHANGED messageQueue
        /\ ioq' = Append(ioq, Handler("send", accepted', FALSE))
    BY <1>2, <1>t DEF Send
  <2>2. Handler("send", accepted', FALSE) \in Handlers
    BY <2>1 DEF Handler, Handlers
  <2> QED
    BY <1>a, <2>1, <2>2
<1>3. ASSUME NEW t \in Threads, ClosePosts(t)
      PROVE  (\A i \in DOMAIN messageQueue' : messageQueue'[i] < n) /\ Behind(ioq', n)
  BY <1>3, <1>t, BehindQueue DEF ClosePosts
<1>4. CASE RunSend
  <2>1. /\ ioq # <<>> /\ ioq' = Tail(ioq) /\ Head(ioq).kind = "send"
        /\ messageQueue' = Append(messageQueue, Head(ioq).arg)
    BY <1>4 DEF RunSend, Runs
  <2>2. Behind(ioq', n) /\ Head(ioq).arg < n /\ Head(ioq).arg \in Nat
    BY <1>t, <2>1, BehindQueue, HeadHandler
  <2>3. /\ DOMAIN messageQueue' = DOMAIN messageQueue \cup {Len(messageQueue) + 1}
        /\ messageQueue'[Len(messageQueue) + 1] = Head(ioq).arg
        /\ \A i \in DOMAIN messageQueue : messageQueue'[i] = messageQueue[i]
    <3>1. messageQueue \in Seq(Nat)
      BY <1>t
    <3> QED
      BY <2>1, <2>2, <3>1, AppendShape
  <2> QED
    BY <2>2, <2>3
<1>5. CASE RunWritten
  <2>1. /\ ioq # <<>> /\ ioq' = Tail(ioq) /\ Head(ioq).kind = "write"
        /\ messageQueue' = Tail(messageQueue)
    BY <1>5 DEF RunWritten, Runs, PopFront
  <2>2. messageQueue # <<>>
    <3>1. 1 \in Ready("write")
      BY <1>t, <2>1, HeadHandler DEF Ready
    <3> QED
      BY <3>1 DEF OneWrite
  <2>3. \A i \in DOMAIN messageQueue' : messageQueue'[i] < n
    BY <1>t, <2>1, <2>2, TailShape
  <2> QED
    BY <1>t, <2>1, <2>3, BehindQueue
<1>6. CASE RunWriteFailed
  <2>1. /\ ioq # <<>> /\ ioq' = PostClose(Tail(ioq)) /\ Head(ioq).kind = "write"
        /\ UNCHANGED messageQueue
    BY <1>6 DEF RunWriteFailed, Runs
  <2>2. Tail(ioq) \in Seq(Handlers) /\ Behind(Tail(ioq), n)
    BY <1>t, <2>1, BehindQueue, HeadHandler
  <2> QED
    BY <2>1, <2>2, BehindQueue
<1>7. CASE RunClose
  BY <1>7 DEF RunClose
<1>8. CASE RunReadFailed \/ RunRead
  <2>1. /\ ioq # <<>> /\ ioq' = Tail(ioq) /\ Head(ioq).kind = "read" /\ UNCHANGED messageQueue
    BY <1>8 DEF RunReadFailed, RunRead, Runs
  <2> QED
    BY <1>t, <2>1, BehindQueue
<1>9. CASE ReadCompletes \/ ReadFails
  <2>1. CASE ReadCompletes
    <3>1. consumed' \in Nat /\ ioq' = Append(ioq, Handler("read", consumed', FALSE))
      BY <2>1, <1>t DEF ReadCompletes
    <3>2. Handler("read", consumed', FALSE) \in Handlers
      BY <3>1 DEF Handler, Handlers
    <3> QED
      BY <1>a, <2>1, <3>1, <3>2 DEF ReadCompletes
  <2>2. CASE ReadFails
    <3>1. Handler("read", 0, TRUE) \in Handlers
      BY DEF Handler, Handlers
    <3> QED
      BY <1>a, <2>2, <3>1 DEF ReadFails
  <2> QED
    BY <1>9, <2>1, <2>2
<1>10. CASE WriteCompletes \/ WriteFails
  <2>1. PICK e \in BOOLEAN : ioq' = Append(ioq, Handler("write", Head(writes), e))
    BY <1>10 DEF WriteCompletes, WriteFails
  <2>2. writes # <<>> /\ UNCHANGED messageQueue
    BY <1>10 DEF WriteCompletes, WriteFails
  <2>3. Head(writes) \in Nat
    BY <1>t, <2>2
  <2>4. Handler("write", Head(writes), e) \in Handlers
    BY <2>3 DEF Handler, Handlers
  <2> QED
    BY <1>a, <2>1, <2>2, <2>4
<1>11. ASSUME NEW t \in Threads,
              ReadBegin(t) \/ ReadSees(t) \/ ReadLock(t) \/ ReadPop(t) \/ Shutdown(t) \/ Close(t)
       PROVE  UNCHANGED <<ioq, messageQueue>>
  BY <1>11 DEF ReadBegin, ReadSees, ReadLock, ReadPop, Shutdown, Close, io
<1>12. CASE ConnectOpens \/ ConnectSocket \/ ConnectFails \/ ConnectReads \/ ConnectSpawns
             \/ ConnectTerminates \/ Destroy \/ Join
  BY <1>1, <1>12
  DEF ConnectOpens, ConnectSocket, ConnectFails, ConnectTerminates, ConnectReads,
      ConnectSpawns, Destroy, Join, io
<1>13. CASE HandlerPush \/ HandlerCopy \/ RunReturns \/ DeviceSends \/ LinkLost \/ UNCHANGED vars
  BY <1>1, <1>13 DEF HandlerPush, HandlerCopy, RunReturns, DeviceSends, LinkLost, vars, io
<1> QED
  BY <1>1, <1>2, <1>3, <1>4, <1>5, <1>6, <1>7, <1>8, <1>9, <1>10, <1>11, <1>12, <1>13
  DEF Next, Construction, Call, Continue, Io, Os

LEMMA WireSteps ==
  ASSUME TypeInv, OneWrite, OrderInv, [Next]_vars
  PROVE  \/ wire' = wire
         \/ /\ socketOpen
            /\ wire' = Append(wire, Len(wire) + 1)
            /\ Len(wire) < accepted /\ 1 \in DOMAIN messageQueue /\ messageQueue[1] = Len(wire) + 1
<1>1. CASE WriteCompletes
  <2>1. writes # <<>> /\ socketOpen /\ wire' = Append(wire, Head(writes))
    BY <1>1 DEF WriteCompletes, Connection
  <2>2. messageQueue \in Seq(Nat)
    BY DEF TypeInv, DataOK
  <2>3. /\ messageQueue # <<>> /\ Head(writes) = messageQueue[1]
        /\ Head(writes) = Len(wire) + 1 /\ Len(wire) < accepted
    BY <2>1, NextOnWire
  <2> QED
    BY <2>1, <2>2, <2>3
<1> QED
  BY <1>1, OutboxSteps

LEMMA DoomedNext ==
  ASSUME TypeInv, OneWrite, OrderInv, [Next]_vars, NEW n \in Nat, Doomed(n)
  PROVE  Doomed(n)'
<1>t. wire \in Seq(Nat)
  BY DEF TypeInv, DataOK
<1>1. CASE reopened
  BY <1>1, ClosedStays DEF Doomed
<1>2. CASE ~reopened /\ ~socketOpen
  <2>1. ~socketOpen' \/ reopened'
    BY <1>2, ClosedStays
  <2>2. wire' = wire
    BY <1>2, WireSteps
  <2> QED
    BY <1>2, <2>1, <2>2 DEF Doomed
<1>3. CASE ~reopened /\ (\A i \in DOMAIN messageQueue : messageQueue[i] < n) /\ Behind(ioq, n)
  <2>1. \/ ~socketOpen'
        \/ (\A i \in DOMAIN messageQueue' : messageQueue'[i] < n) /\ Behind(ioq', n)
    BY <1>3, BehindNext
  <2>2. Len(wire') < n
    <3>1. CASE wire' = wire
      BY <1>3, <3>1 DEF Doomed
    <3>2. CASE /\ wire' = Append(wire, Len(wire) + 1)
               /\ 1 \in DOMAIN messageQueue /\ messageQueue[1] = Len(wire) + 1
      BY <1>3, <1>t, <3>2
    <3> QED
      BY <3>1, <3>2, WireSteps
  <2> QED
    BY <2>1, <2>2 DEF Doomed
<1> QED
  BY <1>1, <1>2, <1>3 DEF Doomed

LEMMA DoomedStarts ==
  ASSUME TypeInv, OneWrite, OrderInv, NEW n \in Nat, accepted < n,
         Ready("close") # {} \/ ~socketOpen
  PROVE  Doomed(n)
<1> DEFINE p == Popped(ioq, wire)
           m == Len(messageQueue)
<1>t. /\ ioq \in Seq(Handlers) /\ messageQueue \in Seq(Nat)
      /\ wire \in Seq(Nat) /\ accepted \in Nat
  BY DEF TypeInv, DataOK
<1>p. p \in Nat /\ m \in Nat /\ p + m <= accepted
  BY <1>t, PoppedType DEF OrderInv
<1>1. Len(wire) < n
  <2>1. CASE KindIn(ioq, "write", Failed)
    <3>1. Len(wire) = p
      BY <2>1 DEF Popped
    <3> QED
      BY <1>t, <1>p, <3>1
  <2>2. CASE ~KindIn(ioq, "write", Failed)
    <3>1. Len(wire) = p + 1
      BY <1>t, <2>2 DEF Popped
    <3>2. messageQueue # <<>>
      BY <2>2 DEF KindIn, OneWrite, Ready
    <3>3. m > 0
      BY <1>t, <3>2
    <3> QED
      BY <1>t, <1>p, <3>1, <3>3
  <2> QED
    BY <2>1, <2>2
<1>2. ASSUME NEW i \in DOMAIN messageQueue PROVE messageQueue[i] < n
  <2>1. messageQueue[i] = p + i
    BY DEF OrderInv, Ordered
  <2>2. i \in 1 .. m
    BY <1>t
  <2> HIDE DEF p, m
  <2> QED
    BY <1>t, <1>p, <2>1, <2>2
<1>3. ASSUME Ready("close") # {} PROVE Behind(ioq, n)
  <2>1. \A i \in DOMAIN ioq : ioq[i].kind = "send" => ioq[i].arg \in p + m + 1 .. accepted
    BY DEF OrderInv, Ordered, Waiting
  <2> HIDE DEF p, m
  <2>2. \A i \in DOMAIN ioq : ioq[i].kind = "send" => ~(ioq[i].arg >= n)
    BY <1>t, <1>p, <2>1
  <2> QED
    BY <1>3, <2>2 DEF Behind, Ready
<1> QED
  BY <1>1, <1>2, <1>3 DEF Doomed

LEMMA WireInvHolds == Spec => []WireInv
<1>1. Init => WireInv
  BY DEF Init, WireInv
<1>2. WriteInv /\ OrderInv /\ WireInv /\ [Next]_vars => WireInv'
  <2> SUFFICES ASSUME TypeInv, OneWrite, OrderInv, WireInv, [Next]_vars PROVE WireInv'
    BY DEF WriteInv
  <2>t. wire \in Seq(Nat)
    BY DEF TypeInv, DataOK
  <2>1. CASE wire' = wire
    BY <2>1 DEF WireInv
  <2>2. CASE wire' = Append(wire, Len(wire) + 1)
    <3>1. /\ DOMAIN wire' = DOMAIN wire \cup {Len(wire) + 1}
          /\ wire'[Len(wire) + 1] = Len(wire) + 1
          /\ \A i \in DOMAIN wire : wire'[i] = wire[i]
      BY <2>t, <2>2, AppendShape
    <3> QED
      BY <3>1 DEF WireInv
  <2> QED
    BY <2>1, <2>2, WireSteps
<1> QED
  BY <1>1, <1>2, OrderInvHolds, PTL DEF Spec

(* What send() takes once the close handler is posted is never written on  *)
(* the connection that is being closed, only after a connect() has opened  *)
(* the socket again (send, close, connect).                                *)
THEOREM LateSendsLostCorrect == Spec => LateSendsLost
<1> SUFFICES ASSUME NEW n \in 1 .. MaxSends
             PROVE  Spec => [](accepted < n /\ (Ready("close") # {} \/ ~socketOpen) =>
                                 []((\E i \in DOMAIN wire : wire[i] = n) => reopened))
  BY DEF LateSendsLost
<1>1. WriteInv /\ OrderInv => (accepted < n /\ (Ready("close") # {} \/ ~socketOpen) => Doomed(n))
  BY DoomedStarts DEF WriteInv
<1>2. WriteInv /\ OrderInv /\ Doomed(n) /\ [Next]_vars => Doomed(n)'
  BY DoomedNext DEF WriteInv
<1>3. WriteInv /\ WireInv /\ Doomed(n) => ((\E i \in DOMAIN wire : wire[i] = n) => reopened)
  <2> SUFFICES ASSUME WriteInv, WireInv, Doomed(n), ~reopened, NEW i \in DOMAIN wire
               PROVE  wire[i] # n
    OBVIOUS
  <2>1. wire \in Seq(Nat)
    BY DEF WriteInv, TypeInv, DataOK
  <2>2. i \in 1 .. Len(wire) /\ Len(wire) \in Nat /\ wire[i] = i /\ Len(wire) < n
    BY <2>1 DEF WireInv, Doomed
  <2> QED
    BY <2>2
<1> QED
  BY <1>1, <1>2, <1>3, OrderInvHolds, WireInvHolds, PTL DEF Spec

-----------------------------------------------------------------------------
(* The reader.  A read starts in connect(), when nothing else is there, or *)
(* in the last step of the handler of the one before.                      *)

(* OneRead of r reads, ready handlers q and a handler in step s.           *)
ReadOf(r, q, s) ==
  /\ r <= 1
  /\ AtMostOne(q, "read")
  /\ r > 0 \/ s # "none" => NoneOf(q, "read")
  /\ r > 0 => s = "none"

Quiet(r, q, s) == r = 0 /\ s = "none" /\ NoneOf(q, "read")

(* The first connect() has not armed a read yet.                           *)
Unread == ~reopened /\ (link = "down" \/ pc[Owner] = "arm")

(* Until then there is none.                                               *)
Unarmed ==
  /\ Unread => Quiet(reads, ioq, handling.step)
  /\ pc[Owner] = "arm" => link # "down"

ReadInv == OneRead /\ Unarmed

LEMMA ReadStart ==
  ASSUME NEW r \in Nat, NEW q, NEW s, Quiet(r, q, s)
  PROVE  ReadOf(r, q, s) /\ ReadOf(r + 1, q, s)
BY DEF Quiet, ReadOf, AtMostOne, NoneOf

LEMMA ReadAppend ==
  ASSUME NEW r \in Nat, NEW q \in Seq(Handlers), NEW s, NEW h \in Handlers, h.kind # "read"
  PROVE  /\ ReadOf(r, q, s) => ReadOf(r, Append(q, h), s)
         /\ Quiet(r, q, s) => Quiet(r, Append(q, h), s)
BY AppendHandler DEF ReadOf, Quiet

LEMMA ReadTail ==
  ASSUME NEW r \in Nat, NEW q \in Seq(Handlers), NEW s, q # <<>>
  PROVE  /\ ReadOf(r, q, s) => ReadOf(r, Tail(q), s)
         /\ Quiet(r, q, s) => Quiet(r, Tail(q), s)
         /\ ReadOf(r, q, s) /\ Head(q).kind = "read" => Quiet(r, Tail(q), s)
         /\ Quiet(r, q, s) => Head(q).kind # "read"
<1>1. ReadOf(r, q, s) => ReadOf(r, Tail(q), s)
  BY TailHandler DEF ReadOf
<1>2. Quiet(r, q, s) => Quiet(r, Tail(q), s) /\ Head(q).kind # "read"
  BY TailHandler, HeadHandler DEF Quiet, NoneOf
<1>3. ASSUME ReadOf(r, q, s), Head(q).kind = "read" PROVE Quiet(r, Tail(q), s)
  <2>1. NoneOf(Tail(q), "read") /\ ~NoneOf(q, "read")
    BY <1>3, TailHandler, HeadHandler DEF ReadOf, NoneOf
  <2> QED
    BY <1>3, <2>1 DEF ReadOf, Quiet
<1> QED
  BY <1>1, <1>2, <1>3

LEMMA ReadPostClose ==
  ASSUME NEW r \in Nat, NEW q \in Seq(Handlers), NEW s, socketOpen \in BOOLEAN
  PROVE  /\ ReadOf(r, q, s) => ReadOf(r, PostClose(q), s)
         /\ Quiet(r, q, s) => Quiet(r, PostClose(q), s)
BY PostCloseType DEF ReadOf, Quiet

(* A read that ends becomes the one handler.                               *)
LEMMA ReadEnds ==
  ASSUME NEW r \in Nat, NEW q \in Seq(Handlers), NEW s, NEW h \in Handlers,
         ReadOf(r, q, s), r > 0, h.kind = "read"
  PROVE  ReadOf(r - 1, Append(q, h), s)
<1>1. r = 1 /\ s = "none" /\ NoneOf(q, "read")
  BY DEF ReadOf
<1>2. AtMostOne(Append(q, h), "read")
  BY <1>1, AppendHandler
<1> QED
  BY <1>1, <1>2 DEF ReadOf

(* The first read is armed once: only the first connect() finds the link   *)
(* "down" on a socket that was never closed.                               *)
LEMMA ArmsOnce ==
  ASSUME TypeInv, pc[Owner] = "arm" => link # "down", [Next]_vars
  PROVE  /\ Unread' => Unread
         /\ pc'[Owner] = "arm" => link' # "down"
<1> Owner \in Threads /\ pc \in [Threads -> Labels]
  BY ThreadsAssumption DEF TypeInv, CallsOK
<1> USE DEF Unread, os, sockets, Goto
<1>1. CASE ConnectOpens \/ ConnectSocket \/ ConnectFails
  BY <1>1 DEF ConnectOpens, ConnectSocket, ConnectFails
<1>2. CASE ConnectReads \/ ConnectSpawns
  BY <1>2 DEF ConnectReads, ConnectSpawns
<1>3. CASE Destroy \/ Join \/ ConnectTerminates
  BY <1>3 DEF Destroy, Join, ConnectTerminates
<1>4. ASSUME NEW t \in Threads, Call(t)
      PROVE  UNCHANGED <<link, reopened>> /\ (pc'[Owner] = "arm" => pc[Owner] = "arm")
  BY <1>4 DEF Call, Send, ReadBegin, Shutdown, Close
<1>5. ASSUME NEW t \in Threads, Continue(t)
      PROVE  UNCHANGED <<link, reopened>> /\ (pc'[Owner] = "arm" => pc[Owner] = "arm")
  BY <1>5 DEF Continue, ReadSees, ReadLock, ReadPop, ClosePosts
<1>6. CASE Io
  <2>1. UNCHANGED <<link, reopened, pc>>
    BY <1>6 DEF Io, RunSend, RunWritten, RunWriteFailed, RunClose, RunReadFailed, RunRead,
                HandlerPush, HandlerCopy, RunReturns
  <2> QED
    BY <2>1
<1>7. CASE Os \/ DeviceSends \/ UNCHANGED vars
  <2>1. UNCHANGED <<link, reopened, pc>>
    BY <1>7 DEF Os, ReadCompletes, ReadFails, WriteCompletes, WriteFails, DeviceSends, vars
  <2> QED
    BY <2>1
<1>8. CASE LinkLost
  BY <1>8 DEF LinkLost
<1> QED
  BY <1>1, <1>2, <1>3, <1>4, <1>5, <1>6, <1>7, <1>8 DEF Next, Construction

(* Every step but ConnectReads keeps OneRead, and keeps a quiet reader     *)
(* quiet.                                                                  *)
LEMMA ReadSteps ==
  ASSUME TypeInv, OneRead, [Next]_vars, ~ConnectReads
  PROVE  /\ ReadOf(reads', ioq', handling'.step)
         /\ Quiet(reads, ioq, handling.step) => Quiet(reads', ioq', handling'.step)
<1> DEFINE Goal == /\ ReadOf(reads', ioq', handling'.step)
                   /\ Quiet(reads, ioq, handling.step) => Quiet(reads', ioq', handling'.step)
<1>t. /\ ioq \in Seq(Handlers) /\ writes \in Seq(Nat) /\ reads \in Nat
      /\ socketOpen \in BOOLEAN /\ accepted \in Nat /\ consumed \in Nat
      /\ handling \in [step : {"none", "lock", "copy"}, chunk : Nat]
  BY DEF TypeInv, FlagsOK, DataOK
<1>i. ReadOf(reads, ioq, handling.step)
  BY DEF OneRead, Ready, ReadOf, AtMostOne, NoneOf
<1> SUFFICES Goal
  OBVIOUS
<1>1. CASE UNCHANGED <<reads, ioq, handling>>
  BY <1>1, <1>i
<1>a. ASSUME NEW h \in Handlers, h.kind # "read", ioq' = Append(ioq, h),
             UNCHANGED <<reads, handling>>
      PROVE  Goal
  BY <1>a, <1>i, <1>t, ReadAppend
<1>b. ASSUME ioq # <<>>, ioq' = Tail(ioq), UNCHANGED <<reads, handling>> PROVE Goal
  BY <1>b, <1>i, <1>t, ReadTail
<1>2. ASSUME NEW t \in Threads, Send(t) PROVE Goal
  <2>1. accepted' \in Nat
    BY <1>2, <1>t DEF Send
  <2>2. /\ Handler("send", accepted', FALSE) \in Handlers
        /\ Handler("send", accepted', FALSE).kind # "read"
    BY <2>1 DEF Handler, Handlers
  <2>3. ioq' = Append(ioq, Handler("send", accepted', FALSE)) /\ UNCHANGED <<reads, handling>>
    BY <1>2 DEF Send
  <2> QED
    BY <1>a, <2>2, <2>3
<1>3. ASSUME NEW t \in Threads, ClosePosts(t) PROVE Goal
  <2>1. ioq' = PostClose(ioq) /\ UNCHANGED <<reads, handling>>
    BY <1>3 DEF ClosePosts
  <2> QED
    BY <1>i, <1>t, <2>1, ReadPostClose
<1>4. CASE RunSend \/ RunWritten \/ RunClose
  <2>1. ioq # <<>> /\ ioq' = Tail(ioq) /\ UNCHANGED <<reads, handling>>
    BY <1>4 DEF RunSend, RunWritten, RunClose, Runs
  <2> QED
    BY <1>b, <2>1
<1>5. CASE RunWriteFailed
  <2>1. ioq # <<>> /\ ioq' = PostClose(Tail(ioq)) /\ UNCHANGED <<reads, handling>>
    BY <1>5 DEF RunWriteFailed, Runs
  <2> DEFINE q == Tail(ioq)
  <2>2. /\ q \in Seq(Handlers) /\ ReadOf(reads, q, handling.step)
        /\ Quiet(reads, ioq, handling.step) => Quiet(reads, q, handling.step)
    BY <1>i, <1>t, <2>1, ReadTail, HeadHandler
  <2> HIDE DEF q
  <2>3. /\ ReadOf(reads, PostClose(q), handling.step)
        /\ Quiet(reads, q, handling.step) => Quiet(reads, PostClose(q), handling.step)
    BY ONLY <1>t, <2>2, ReadPostClose
  <2> QED
    BY <2>1, <2>2, <2>3 DEF q
<1>6. CASE RunReadFailed \/ RunRead
  <2>1. ioq # <<>> /\ ioq' = Tail(ioq) /\ Head(ioq).kind = "read"
    BY <1>6 DEF RunReadFailed, RunRead, Runs
  <2>2. Quiet(reads, ioq', handling.step) /\ ~Quiet(reads, ioq, handling.step)
    BY <1>i, <1>t, <2>1, ReadTail
  <2>3. CASE RunReadFailed
    <3>1. reads' \in {reads, reads + 1} /\ handling' = handling
      BY <1>t, <2>3 DEF RunReadFailed, ReadAsync
    <3> QED
      BY <1>t, <2>2, <3>1, ReadStart
  <2>4. CASE RunRead
    <3>1. reads' = reads /\ reads = 0 /\ NoneOf(ioq', "read")
      BY <2>2, <2>4 DEF RunRead, Quiet
    <3>2. AtMostOne(ioq', "read")
      BY <3>1 DEF AtMostOne, NoneOf
    <3> QED
      BY <2>2, <3>1, <3>2 DEF ReadOf
  <2> QED
    BY <1>6, <2>3, <2>4
<1>7. CASE HandlerPush
  <2>1. /\ handling.step = "lock" /\ handling'.step = "copy"
        /\ UNCHANGED <<reads, ioq>>
    BY <1>7, <1>t DEF HandlerPush, io
  <2> QED
    BY <1>i, <2>1 DEF ReadOf, Quiet
<1>8. CASE HandlerCopy
  <2>1. handling.step = "copy" /\ ioq' = ioq
    BY <1>8 DEF HandlerCopy
  <2>2. reads = 0 /\ NoneOf(ioq, "read") /\ ~Quiet(reads, ioq, handling.step)
    BY <1>i, <1>t, <2>1 DEF ReadOf, Quiet
  <2>3. CASE UNCHANGED <<reads, handling>>
    BY <1>1, <2>1, <2>3
  <2>4. CASE reads' \in {reads, reads + 1} /\ handling'.step = "none"
    <3>1. Quiet(reads, ioq', handling'.step)
      BY <2>1, <2>2, <2>4 DEF Quiet
    <3> QED
      BY <1>t, <2>2, <2>4, <3>1, ReadStart
  <2> QED
    BY <1>8, <2>3, <2>4 DEF HandlerCopy, ReadAsync
<1>9. CASE ReadCompletes \/ ReadFails
  <2>1. PICK h \in Handlers : h.kind = "read" /\ ioq' = Append(ioq, h)
    <3>1. CASE ReadCompletes
      <4>1. consumed' \in Nat /\ ioq' = Append(ioq, Handler("read", consumed', FALSE))
        BY <3>1, <1>t DEF ReadCompletes
      <4>2. /\ Handler("read", consumed', FALSE) \in Handlers
            /\ Handler("read", consumed', FALSE).kind = "read"
        BY <4>1, HandlerType
      <4> QED
        BY <4>1, <4>2
    <3>2. CASE ReadFails
      <4>1. ioq' = Append(ioq, Handler("read", 0, TRUE))
        BY <3>2 DEF ReadFails
      <4>2. Handler("read", 0, TRUE) \in Handlers /\ Handler("read", 0, TRUE).kind = "read"
        BY HandlerType
      <4> QED
        BY <4>1, <4>2
    <3> QED
      BY <1>9, <3>1, <3>2
  <2>2. reads > 0 /\ reads' = reads - 1 /\ handling' = handling
    BY <1>9 DEF ReadCompletes, ReadFails
  <2>3. ~Quiet(reads, ioq, handling.step)
    BY <1>t, <2>2 DEF Quiet
  <2> QED
    BY <1>i, <1>t, <2>1, <2>2, <2>3, ReadEnds
<1>10. CASE WriteCompletes \/ WriteFails
  <2>1. PICK e \in BOOLEAN : ioq' = Append(ioq, Handler("write", Head(writes), e))
    BY <1>10 DEF WriteCompletes, WriteFails
  <2>2. Head(writes) \in Nat
    <3>1. writes # <<>>
      BY <1>10 DEF WriteCompletes, WriteFails
    <3> QED
      BY <1>t, <3>1
  <2>3. UNCHANGED <<reads, handling>>
    BY <1>10 DEF WriteCompletes, WriteFails
  <2>4. /\ Handler("write", Head(writes), e) \in Handlers
        /\ Handler("write", Head(writes), e).kind # "read"
    BY <2>2, HandlerType
  <2> QED
    BY <1>a, <2>1, <2>3, <2>4
<1>11. ASSUME NEW t \in Threads,
              ReadBegin(t) \/ ReadSees(t) \/ ReadLock(t) \/ ReadPop(t) \/ Shutdown(t) \/ Close(t)
       PROVE  UNCHANGED <<reads, ioq, handling>>
  BY <1>11 DEF ReadBegin, ReadSees, ReadLock, ReadPop, Shutdown, Close, io
<1>12. CASE ConnectOpens \/ ConnectSocket \/ ConnectFails \/ ConnectTerminates
         \/ ConnectSpawns \/ Destroy \/ Join
  BY <1>1, <1>12 DEF ConnectOpens, ConnectSocket, ConnectFails, ConnectTerminates,
                     ConnectSpawns,
      Destroy, Join, io
<1>13. CASE RunReturns \/ DeviceSends \/ LinkLost \/ UNCHANGED vars
  BY <1>1, <1>13 DEF RunReturns, DeviceSends, LinkLost, vars, io
<1> QED
  BY <1>1, <1>2, <1>3, <1>4, <1>5, <1>6, <1>7, <1>8, <1>9, <1>10, <1>11, <1>12, <1>13
  DEF Next, Construction, Call, Continue, Io, Os

LEMMA ReadNext ==
  ASSUME TypeInv, ShutInv, ReadInv, [Next]_vars PROVE ReadInv'
<1> USE DEF ReadInv
<1>a. /\ Unread' => Unread
      /\ pc'[Owner] = "arm" => link' # "down"
  BY ArmsOnce DEF Unarmed
<1>1. CASE ConnectReads
  <2>1. /\ pc[Owner] = "arm" /\ pc'[Owner] = "spawn" /\ UNCHANGED <<link, reopened>>
        /\ reads' \in {reads, reads + 1} /\ (shutdown => reads' = reads)
        /\ UNCHANGED <<ioq, handling>>
    BY <1>1, ThreadsAssumption
    DEF ConnectReads, ReadAsync, Goto, os, sockets, TypeInv, CallsOK, DataOK
  <2>2. link # "down" /\ (~reopened => Quiet(reads, ioq, handling.step))
    BY <2>1 DEF Unarmed, Unread
  <2>3. ReadOf(reads', ioq', handling'.step)
    <3>1. CASE reopened
      <4>1. reads' = reads
        BY <2>1, <3>1 DEF ShutInv
      <4> QED
        BY <2>1, <4>1 DEF OneRead, Ready, ReadOf, AtMostOne, NoneOf
    <3>2. CASE ~reopened
      BY <2>1, <2>2, <3>2, ReadStart DEF TypeInv, DataOK
    <3> QED
      BY <3>1, <3>2
  <2>4. OneRead'
    BY <2>3 DEF OneRead, Ready, ReadOf, AtMostOne, NoneOf
  <2> QED
    BY <2>1, <2>2, <2>4 DEF Unarmed, Unread
<1>2. CASE ~ConnectReads
  <2>1. /\ ReadOf(reads', ioq', handling'.step)
        /\ Quiet(reads, ioq, handling.step) => Quiet(reads', ioq', handling'.step)
    BY <1>2, ReadSteps
  <2>2. OneRead'
    BY <2>1 DEF OneRead, Ready, ReadOf, AtMostOne, NoneOf
  <2>3. Unarmed'
    BY <1>a, <2>1 DEF Unarmed
  <2> QED
    BY <2>2, <2>3
<1> QED
  BY <1>1, <1>2

(* recv_buffer_ has one user at any time: the pending read, its handler    *)
(* that waits in io_, or readHandler() (readAsync, readHandler).           *)
THEOREM OneReadCorrect == Spec => []OneRead
<1>1. Init => ReadInv
  <2> SUFFICES ASSUME Init PROVE ReadInv
    OBVIOUS
  <2>1. /\ reads = 0 /\ ioq = <<>> /\ handling.step = "none" /\ link = "down"
        /\ pc[Owner] = "idle"
    BY ThreadsAssumption DEF Init
  <2>2. NoneOf(ioq, "read")
    BY <2>1 DEF NoneOf
  <2> QED
    BY <2>1, <2>2 DEF ReadInv, OneRead, Ready, Unarmed, Quiet
<1>2. WriteInv /\ ShutInv /\ ReadInv /\ [Next]_vars => ReadInv'
  BY ReadNext DEF WriteInv
<1>3. ReadInv => OneRead
  BY DEF ReadInv
<1> QED
  BY <1>1, <1>2, <1>3, ShutInvHolds, PTL DEF Spec

-----------------------------------------------------------------------------
(* The queue of records and its mutex.                                     *)

(* Who pops or copies holds the mutex, and only the record that is being   *)
(* copied is in the queue without being a record yet.                      *)
LockInv ==
  /\ \A t \in Threads : pc[t] = "pop" => readQueueMutex = t
  /\ handling.step = "copy" =>
       readQueueMutex = "io" /\ readQueue # <<>> /\ readQueue[Len(readQueue)] = Blank
  /\ handling.step = "none" => handling.chunk = Blank

(* How the last chunk that was read from the socket stands to the records: *)
(* it is the latest of them, or the next on its way to become one.         *)
Delivered == Len(Records) + Len(taken)

Newest(n) == n = consumed /\ n = Delivered + 1

Expected == {h \in Handlers : IF h.err THEN consumed = Delivered ELSE Newest(h.arg)}

FlowInv ==
  /\ \A i \in Ready("read") : ioq[i] \in Expected
  /\ handling.step # "none" => Newest(handling.chunk)
  /\ reads > 0 \/ Unread => consumed = Delivered
  /\ consumed \in {Delivered, Delivered + 1}
  /\ ~shutdown /\ consumed # Delivered =>
       handling.step # "none" \/ \E i \in Ready("read") : ~ioq[i].err
  /\ consumed <= arrived /\ arrived <= MaxChunks

(* Every chunk that became a record is in one place: d of them, in the     *)
(* queue q or with the callers of read(), who got t.                       *)
Placed(q, t, d) ==
  /\ \A i \in DOMAIN q : q[i] \in 1 .. d
  /\ \A i \in DOMAIN t : t[i] \in 1 .. d
  /\ \A i, j \in DOMAIN q : q[i] = q[j] => i = j
  /\ \A i, j \in DOMAIN t : t[i] = t[j] => i = j
  /\ \A i \in DOMAIN q, j \in DOMAIN t : q[i] # t[j]
  /\ \A n \in 1 .. d : (\E i \in DOMAIN q : q[i] = n) \/ (\E i \in DOMAIN t : t[i] = n)

PlaceInv == Placed(Records, taken, Delivered)

LEMMA LockNext ==
  ASSUME TypeInv, LockInv, [Next]_vars PROVE LockInv'
<1>t. /\ pc \in [Threads -> Labels] /\ readQueue \in Seq(Nat)
      /\ readQueueMutex \in Threads \cup {"io", "free"}
      /\ handling \in [step : {"none", "lock", "copy"}, chunk : Nat]
  BY DEF TypeInv, CallsOK, FlagsOK, DataOK
<1> USE DEF LockInv, inbox
<1>u. CASE UNCHANGED <<pc, handling, readQueue, readQueueMutex>>
  BY <1>u
<1>c. ASSUME NEW t \in Threads, NEW a, a # "pop", Goto(t, a),
             UNCHANGED <<handling, readQueue, readQueueMutex>>
      PROVE  LockInv'
  BY <1>c, <1>t DEF Goto
<1>1. CASE ConnectOpens \/ ConnectSocket \/ ConnectFails \/ ConnectReads \/ ConnectSpawns
             \/ Destroy
  BY <1>1, <1>c, ThreadsAssumption
  DEF ConnectOpens, ConnectSocket, ConnectFails, ConnectReads, ConnectSpawns, Destroy
<1>2. CASE ConnectTerminates \/ Join
  BY <1>2, <1>u DEF ConnectTerminates, Join
<1>3. ASSUME NEW t \in Threads, Call(t) PROVE LockInv'
  <2>1. CASE Send(t) \/ Shutdown(t)
    BY <2>1, <1>u DEF Send, Shutdown
  <2>2. CASE ReadBegin(t) \/ Close(t)
    BY <2>2, <1>c DEF ReadBegin, Close
  <2> QED
    BY <1>3, <2>1, <2>2 DEF Call
<1>4. ASSUME NEW t \in Threads, ReadSees(t) \/ ClosePosts(t) PROVE LockInv'
  BY <1>4, <1>c DEF ReadSees, ClosePosts
<1>5. ASSUME NEW t \in Threads, ReadLock(t) PROVE LockInv'
  BY <1>5, <1>t, ThreadsAssumption DEF ReadLock, Lock, Goto
<1>6. ASSUME NEW t \in Threads, ReadPop(t) PROVE LockInv'
  <2>1. readQueueMutex = t /\ t # "io" /\ handling' = handling /\ handling.step # "copy"
    BY <1>6, ThreadsAssumption DEF ReadPop
  <2>2. CASE Goto(t, "idle")
    <3>1. \A u \in Threads : pc'[u] # "pop"
      BY <1>t, <2>1, <2>2 DEF Goto
    <3> QED
      BY <2>1, <3>1
  <2>3. CASE UNCHANGED <<pc, readQueue, readQueueMutex>>
    BY <2>1, <2>3
  <2> QED
    BY <1>6, <2>2, <2>3 DEF ReadPop
<1>7. CASE HandlerPush
  <2>1. /\ readQueueMutex = "free" /\ readQueueMutex' = "io" /\ pc' = pc
        /\ readQueue' = Append(readQueue, Blank)
        /\ handling'.step = "copy"
    BY <1>7, <1>t DEF HandlerPush, Lock
  <2>2. \A t \in Threads : pc'[t] # "pop"
    BY <2>1, ThreadsAssumption
  <2>3. Len(readQueue') = Len(readQueue) + 1 /\ readQueue'[Len(readQueue) + 1] = Blank
    BY <1>t, <2>1 DEF Blank
  <2>4. readQueue' # <<>>
    BY <1>t, <2>3
  <2> QED
    BY <2>1, <2>2, <2>3, <2>4
<1>8. CASE HandlerCopy
  <2>1. \A t \in Threads : pc'[t] # "pop"
    BY <1>8, ThreadsAssumption DEF HandlerCopy
  <2>2. CASE handling' = [step |-> "none", chunk |-> Blank]
    BY <2>1, <2>2
  <2>3. CASE UNCHANGED <<handling, readQueue, readQueueMutex>>
    BY <2>1, <2>3
  <2> QED
    BY <1>8, <2>2, <2>3 DEF HandlerCopy
<1>9. CASE RunRead
  BY <1>9, <1>t DEF RunRead, Runs
<1>10. CASE RunSend \/ RunWritten \/ RunWriteFailed \/ RunClose \/ RunReadFailed \/ RunReturns
  BY <1>10, <1>u DEF RunSend, RunWritten, RunWriteFailed, RunClose, RunReadFailed, RunReturns
<1>11. CASE Os \/ DeviceSends \/ LinkLost \/ UNCHANGED vars
  BY <1>11, <1>u DEF Os, ReadCompletes, ReadFails, WriteCompletes, WriteFails, DeviceSends,
                     LinkLost, vars
<1> QED
  BY <1>1, <1>2, <1>3, <1>4, <1>5, <1>6, <1>7, <1>8, <1>9, <1>10, <1>11
  DEF Next, Construction, Continue, Io

(* The front of a queue that grew at its end, or whose end was filled.     *)
LEMMA FrontOfAppend ==
  ASSUME NEW q \in Seq(Nat), NEW n \in Nat
  PROVE  SubSeq(Append(q, n), 1, Len(Append(q, n)) - 1) = q
<1>1. Len(Append(q, n)) - 1 = Len(q)
  OBVIOUS
<1> QED
  BY <1>1

LEMMA FrontShape ==
  ASSUME NEW q \in Seq(Nat), q # <<>>
  PROVE  LET f == SubSeq(q, 1, Len(q) - 1)
         IN  /\ f \in Seq(Nat) /\ Len(f) = Len(q) - 1 /\ Len(f) \in Nat
             /\ \A i \in 1 .. Len(q) - 1 : f[i] = q[i]
<1> DEFINE m == Len(q) - 1
<1>1. m \in Nat /\ Len(q) = m + 1 /\ q \in [1 .. m + 1 -> Nat]
  OBVIOUS
<1> QED
  BY <1>1

LEMMA FillIsAppend ==
  ASSUME NEW q \in Seq(Nat), q # <<>>, NEW n \in Nat
  PROVE  Fill(q, n) = Append(SubSeq(q, 1, Len(q) - 1), n)
<1> DEFINE m == Len(q) - 1
           f == SubSeq(q, 1, m)
<1>1. m \in Nat /\ Len(q) = m + 1 /\ q \in [1 .. m + 1 -> Nat]
  OBVIOUS
<1>2. f \in Seq(Nat) /\ Len(f) = m /\ \A i \in 1 .. m : f[i] = q[i]
  BY <1>1, FrontShape
<1>3. Fill(q, n) \in Seq(Nat) /\ Len(Fill(q, n)) = m + 1
      /\ \A i \in 1 .. m + 1 : Fill(q, n)[i] = IF i = m + 1 THEN n ELSE q[i]
  BY <1>1 DEF Fill
<1> HIDE DEF m, f
<1>4. Append(f, n) \in Seq(Nat) /\ Len(Append(f, n)) = m + 1
  BY <1>2
<1>5. \A i \in 1 .. m + 1 : Append(f, n)[i] = IF i = m + 1 THEN n ELSE q[i]
  <2>1. (\A i \in 1 .. m : Append(f, n)[i] = f[i]) /\ Append(f, n)[m + 1] = n
    BY <1>2
  <2> QED
    BY <1>1, <1>2, <2>1
<1>6. Fill(q, n) = Append(f, n)
  <2>1. Len(Fill(q, n)) = Len(Append(f, n))
    BY <1>3, <1>4
  <2>2. \A i \in 1 .. Len(Fill(q, n)) : Fill(q, n)[i] = Append(f, n)[i]
    BY <1>3, <1>5
  <2> QED
    BY <1>3, <1>4, <2>1, <2>2, SeqEqual
<1> QED
  BY <1>6 DEF f, m

(* A step leaves the records alone, takes the last, or adds the chunk that *)
(* was copied: pushing the blank record changes nothing yet.               *)
Takes ==
  /\ Records # <<>>
  /\ taken' = Append(taken, Records[Len(Records)])
  /\ Records' = SubSeq(Records, 1, Len(Records) - 1)
  /\ UNCHANGED <<ioq, reads, handling, consumed, arrived, shutdown>>

Delivers ==
  /\ handling.step = "copy" /\ handling'.step = "none"
  /\ Records' = Append(Records, handling.chunk)
  /\ UNCHANGED <<taken, ioq, consumed, arrived, shutdown>>

LEMMA RecordSteps ==
  ASSUME TypeInv, LockInv, [Next]_vars
  PROVE  \/ UNCHANGED <<Records, taken>> /\ (HandlerCopy => handling' = handling)
         \/ Takes
         \/ HandlerCopy /\ Delivers
<1>t. /\ readQueue \in Seq(Nat) /\ handling.chunk \in Nat
      /\ handling \in [step : {"none", "lock", "copy"}, chunk : Nat]
  BY DEF TypeInv, DataOK
<1> USE DEF inbox
<1>u. CASE UNCHANGED <<handling, readQueue, taken>>
  BY <1>u DEF Records
<1>1. CASE ConnectOpens \/ ConnectSocket \/ ConnectFails \/ ConnectReads \/ ConnectSpawns
             \/ ConnectTerminates \/ Destroy \/ Join
  BY <1>1, <1>u DEF ConnectOpens, ConnectSocket, ConnectFails, ConnectReads, ConnectSpawns,
      ConnectTerminates, Destroy, Join
<1>2. ASSUME NEW t \in Threads,
             Call(t) \/ ReadSees(t) \/ ReadLock(t) \/ ClosePosts(t)
      PROVE  UNCHANGED <<handling, readQueue, taken>>
  BY <1>2 DEF Call, Send, ReadBegin, Shutdown, Close, ReadSees, ReadLock, ClosePosts
<1>3. ASSUME NEW t \in Threads, ReadPop(t) PROVE UNCHANGED <<Records, taken>> \/ Takes
  <2>1. handling' = handling /\ handling.step # "copy"
    BY <1>3, ThreadsAssumption DEF ReadPop, LockInv
  <2>2. Records = readQueue /\ Records' = readQueue'
    BY <2>1 DEF Records
  <2>3. UNCHANGED <<ioq, reads, consumed, arrived, shutdown>>
    BY <1>3 DEF ReadPop, io, os, flags
  <2> QED
    BY <1>3, <2>1, <2>2, <2>3 DEF ReadPop, Takes
<1>4. CASE HandlerPush
  <2>1. /\ handling.step = "lock" /\ handling'.step = "copy"
        /\ readQueue' = Append(readQueue, Blank) /\ taken' = taken
    BY <1>4, <1>t DEF HandlerPush
  <2>2. Records = readQueue /\ Records' = SubSeq(readQueue', 1, Len(readQueue') - 1)
    BY <2>1 DEF Records
  <2>3. Records' = Records
    BY <1>t, <2>1, <2>2, FrontOfAppend DEF Blank
  <2>4. ~HandlerCopy
    BY <2>1 DEF HandlerCopy
  <2> QED
    BY <2>1, <2>3, <2>4
<1>5. CASE HandlerCopy
  <2>1. handling.step = "copy" /\ taken' = taken /\ readQueue # <<>>
    BY <1>5 DEF HandlerCopy, LockInv
  <2>2. CASE UNCHANGED <<handling, readQueue>>
    BY <1>u, <2>1, <2>2
  <2>3. CASE /\ readQueue' = Fill(readQueue, handling.chunk)
             /\ handling' = [step |-> "none", chunk |-> Blank]
    <3>1. Records' = readQueue' /\ Records = SubSeq(readQueue, 1, Len(readQueue) - 1)
      BY <2>1, <2>3 DEF Records
    <3>2. Records' = Append(Records, handling.chunk)
      BY <1>t, <2>1, <2>3, <3>1, FillIsAppend
    <3>3. UNCHANGED <<ioq, consumed, arrived, shutdown>>
      BY <1>5 DEF HandlerCopy, os, flags
    <3> QED
      BY <1>5, <2>1, <2>3, <3>2, <3>3 DEF Delivers
  <2> QED
    BY <1>5, <2>2, <2>3 DEF HandlerCopy
<1>6. CASE RunRead
  <2>1. handling.step = "none" /\ handling'.step # "copy" /\ UNCHANGED <<readQueue, taken>>
    BY <1>6 DEF RunRead, Runs
  <2>2. ~HandlerCopy
    BY <2>1 DEF HandlerCopy
  <2> QED
    BY <2>1, <2>2 DEF Records
<1>7. CASE RunSend \/ RunWritten \/ RunWriteFailed \/ RunClose \/ RunReadFailed \/ RunReturns
  BY <1>7, <1>u DEF RunSend, RunWritten, RunWriteFailed, RunClose, RunReadFailed, RunReturns
<1>8. CASE Os \/ DeviceSends \/ LinkLost \/ UNCHANGED vars
  BY <1>8, <1>u DEF Os, ReadCompletes, ReadFails, WriteCompletes, WriteFails, DeviceSends,
                    LinkLost, vars
<1> QED
  BY <1>u, <1>1, <1>2, <1>3, <1>4, <1>5, <1>6, <1>7, <1>8
  DEF Next, Construction, Continue, Io

LEMMA RecordsType ==
  ASSUME TypeInv
  PROVE  Records \in Seq(Nat) /\ taken \in Seq(Nat) /\ Delivered \in Nat
<1>1. readQueue \in Seq(Nat) /\ taken \in Seq(Nat)
  BY DEF TypeInv, DataOK
<1>2. SubSeq(readQueue, 1, Len(readQueue) - 1) \in Seq(Nat)
  BY <1>1
<1>3. Records \in Seq(Nat)
  BY <1>1, <1>2 DEF Records
<1> QED
  BY <1>1, <1>3 DEF Delivered

LEMMA DeliveredSteps ==
  ASSUME TypeInv
  PROVE  /\ UNCHANGED <<Records, taken>> => Delivered' = Delivered
         /\ Takes => Delivered' = Delivered
         /\ handling.chunk \in Nat /\ Delivers => Delivered' = Delivered + 1
<1>t. Records \in Seq(Nat) /\ taken \in Seq(Nat)
  BY RecordsType
<1>1. UNCHANGED <<Records, taken>> => Delivered' = Delivered
  BY DEF Delivered
<1>2. ASSUME Takes PROVE Delivered' = Delivered
  <2>1. Records[Len(Records)] \in Nat /\ Len(Records) \in Nat
    BY <1>2, <1>t, PopBack DEF Takes
  <2>2. Len(taken') = Len(taken) + 1 /\ Len(taken) \in Nat
    BY <1>2, <1>t, <2>1 DEF Takes
  <2>3. Len(SubSeq(Records, 1, Len(Records) - 1)) = Len(Records) - 1
    BY <1>2, <1>t, FrontShape DEF Takes
  <2>4. Len(Records') = Len(Records) - 1
    BY <1>2, <2>3 DEF Takes
  <2> QED
    BY <2>1, <2>2, <2>4 DEF Delivered
<1>3. ASSUME handling.chunk \in Nat, Delivers PROVE Delivered' = Delivered + 1
  <2>1. /\ Len(taken') = Len(taken) /\ Len(Records') = Len(Records) + 1
        /\ Len(Records) \in Nat /\ Len(taken) \in Nat
    BY <1>3, <1>t DEF Delivers
  <2> QED
    BY <2>1 DEF Delivered
<1> QED
  BY <1>1, <1>2, <1>3

-----------------------------------------------------------------------------
(* The chunks on their way to become records.                              *)

(* The ready handlers of reads are as they were.                           *)
SameReads == \A S : KindIn(ioq', "read", S) <=> KindIn(ioq, "read", S)

LEMMA FlowForm ==
  ASSUME TypeInv
  PROVE  FlowInv <=>
           /\ KindIn(ioq, "read", Expected)
           /\ handling.step # "none" => Newest(handling.chunk)
           /\ reads > 0 \/ Unread => consumed = Delivered
           /\ consumed \in {Delivered, Delivered + 1}
           /\ ~shutdown /\ consumed # Delivered =>
                handling.step # "none" \/ ~KindIn(ioq, "read", Failed)
           /\ consumed <= arrived /\ arrived <= MaxChunks
<1>1. ioq \in Seq(Handlers) /\ \A i \in DOMAIN ioq : ioq[i] \in Handlers
  BY DEF TypeInv, DataOK
<1> QED
  BY <1>1 DEF FlowInv, Ready, KindIn, Failed

LEMMA FlowFormNext ==
  ASSUME TypeInv',
         KindIn(ioq', "read", Expected'),
         handling'.step # "none" => Newest(handling.chunk)',
         reads' > 0 \/ Unread' => consumed' = Delivered',
         consumed' \in {Delivered', Delivered' + 1},
         ~shutdown' /\ consumed' # Delivered' =>
           handling'.step # "none" \/ ~KindIn(ioq', "read", Failed),
         consumed' <= arrived' /\ arrived' <= MaxChunks
  PROVE  FlowInv'
<1>1. ioq' \in Seq(Handlers) /\ \A i \in DOMAIN ioq' : ioq'[i] \in Handlers
  BY DEF TypeInv, DataOK
<1> QED
  BY <1>1 DEF FlowInv, Ready, KindIn, Failed

(* The steps that leave the ready handlers of reads as they are.           *)
LEMMA SameReadsSteps ==
  ASSUME TypeInv, [Next]_vars
  PROVE  SameReads \/ RunReadFailed \/ RunRead \/ ReadCompletes \/ ReadFails
<1>t. /\ ioq \in Seq(Handlers) /\ writes \in Seq(Nat) /\ accepted \in Nat
  BY DEF TypeInv, DataOK
<1>1. CASE UNCHANGED ioq
  BY <1>1 DEF SameReads
<1>2. ASSUME NEW t \in Threads, Send(t) PROVE SameReads
  <2>1. accepted' \in Nat /\ ioq' = Append(ioq, Handler("send", accepted', FALSE))
    BY <1>2, <1>t DEF Send
  <2> QED
    BY <1>t, <2>1, HandlerType, KindInQueue DEF SameReads
<1>3. ASSUME NEW t \in Threads, ClosePosts(t) PROVE SameReads
  BY <1>3, <1>t, KindInPostClose DEF ClosePosts, SameReads
<1>4. CASE RunSend \/ RunWritten \/ RunClose
  <2>1. ioq # <<>> /\ ioq' = Tail(ioq) /\ Head(ioq).kind # "read"
    BY <1>4 DEF RunSend, RunWritten, RunClose, Runs
  <2> QED
    BY <1>t, <2>1, KindInQueue DEF SameReads
<1>5. CASE RunWriteFailed
  <2>1. ioq # <<>> /\ ioq' = PostClose(Tail(ioq)) /\ Head(ioq).kind # "read"
    BY <1>5 DEF RunWriteFailed, Runs
  <2>2. PICK q \in Seq(Handlers) : q = Tail(ioq)
    BY <1>t, <2>1, HeadHandler
  <2>3. \A S : KindIn(ioq, "read", S) <=> KindIn(q, "read", S)
    BY <1>t, <2>1, <2>2, KindInQueue
  <2>4. \A S : KindIn(PostClose(q), "read", S) <=> KindIn(q, "read", S)
    BY KindInPostClose
  <2> QED
    BY <2>1, <2>2, <2>3, <2>4 DEF SameReads
<1>6. CASE WriteCompletes \/ WriteFails
  <2>1. PICK e \in BOOLEAN : ioq' = Append(ioq, Handler("write", Head(writes), e))
    BY <1>6 DEF WriteCompletes, WriteFails
  <2>2. writes # <<>>
    BY <1>6 DEF WriteCompletes, WriteFails
  <2>3. Head(writes) \in Nat
    BY <1>t, <2>2
  <2> QED
    BY <1>t, <2>1, <2>3, HandlerType, KindInQueue DEF SameReads
<1>7. ASSUME NEW t \in Threads,
             ReadBegin(t) \/ ReadSees(t) \/ ReadLock(t) \/ ReadPop(t) \/ Shutdown(t) \/ Close(t)
      PROVE  UNCHANGED ioq
  BY <1>7 DEF ReadBegin, ReadSees, ReadLock, ReadPop, Shutdown, Close, io
<1>8. CASE ConnectOpens \/ ConnectSocket \/ ConnectFails \/ ConnectReads \/ ConnectSpawns
             \/ ConnectTerminates \/ Destroy \/ Join
  BY <1>1, <1>8 DEF ConnectOpens, ConnectSocket, ConnectFails, ConnectTerminates,
                    ConnectReads, ConnectSpawns, Destroy, Join, io
<1>9. CASE HandlerPush \/ HandlerCopy \/ RunReturns \/ DeviceSends \/ LinkLost \/ UNCHANGED vars
  BY <1>1, <1>9 DEF HandlerPush, HandlerCopy, RunReturns, DeviceSends, LinkLost, vars, io
<1> QED
  BY <1>1, <1>2, <1>3, <1>4, <1>5, <1>6, <1>7, <1>8, <1>9
  DEF Next, Construction, Call, Continue, Io, Os

(* The steps that leave the reads, the handler and the socket alone.       *)
LEMMA StillSteps ==
  ASSUME [Next]_vars
  PROVE  \/ UNCHANGED <<reads, handling, consumed, arrived>>
         \/ ConnectReads \/ RunReadFailed \/ RunRead \/ HandlerPush \/ HandlerCopy
         \/ ReadCompletes \/ ReadFails \/ DeviceSends
<1> USE DEF io, os
<1>1. ASSUME NEW t \in Threads, Call(t) \/ Continue(t)
      PROVE  UNCHANGED <<reads, handling, consumed, arrived>>
  BY <1>1 DEF Call, Continue, Send, ReadBegin, Shutdown, Close, ReadSees, ReadLock, ReadPop,
              ClosePosts
<1>2. CASE ConnectOpens \/ ConnectSocket \/ ConnectFails \/ ConnectTerminates \/ Destroy
        \/ ConnectSpawns \/ Join
  BY <1>2 DEF ConnectOpens, ConnectSocket, ConnectFails, ConnectTerminates, Destroy,
              ConnectSpawns, Join
<1>3. CASE RunSend \/ RunWritten \/ RunWriteFailed \/ RunClose \/ RunReturns
  BY <1>3 DEF RunSend, RunWritten, RunWriteFailed, RunClose, RunReturns
<1>4. CASE WriteCompletes \/ WriteFails \/ LinkLost \/ UNCHANGED vars
  BY <1>4 DEF WriteCompletes, WriteFails, LinkLost, vars
<1> QED
  BY <1>1, <1>2, <1>3, <1>4 DEF Next, Construction, Io, Os

(* A step that takes no chunk a stage further.                             *)
LEMMA FlowKept ==
  ASSUME TypeInv, TypeInv', Unarmed, FlowInv, [Next]_vars, SameReads, Delivered' = Delivered,
         UNCHANGED <<reads, consumed>>, handling'.chunk = handling.chunk,
         handling'.step = "none" <=> handling.step = "none",
         arrived' = arrived \/ DeviceSends
  PROVE  FlowInv'
<1>1. Expected' = Expected /\ Failed' = Failed
  BY DEF Expected, Newest, Failed
<1>2. KindIn(ioq', "read", Expected) <=> KindIn(ioq, "read", Expected)
  BY DEF SameReads
<1>3. KindIn(ioq', "read", Failed) <=> KindIn(ioq, "read", Failed)
  BY DEF SameReads
<1>4. ~shutdown' => ~shutdown
  BY ShutdownStays
<1>5. Unread' => Unread
  BY ArmsOnce DEF Unarmed
<1>6. /\ KindIn(ioq, "read", Expected)
      /\ handling.step # "none" => Newest(handling.chunk)
      /\ reads > 0 \/ Unread => consumed = Delivered
      /\ consumed \in {Delivered, Delivered + 1}
      /\ ~shutdown /\ consumed # Delivered =>
           handling.step # "none" \/ ~KindIn(ioq, "read", Failed)
      /\ consumed <= arrived /\ arrived <= MaxChunks
  BY FlowForm
<1>7. consumed' <= arrived' /\ arrived' <= MaxChunks
  <2>1. arrived \in Nat /\ consumed \in Nat
    BY DEF TypeInv, DataOK
  <2> QED
    BY <1>6, <2>1, BoundsAssumption DEF DeviceSends
<1>8. handling'.step # "none" => Newest(handling.chunk)'
  BY <1>6 DEF Newest
<1>9. /\ KindIn(ioq', "read", Expected')
      /\ reads' > 0 \/ Unread' => consumed' = Delivered'
      /\ consumed' \in {Delivered', Delivered' + 1}
      /\ ~shutdown' /\ consumed' # Delivered' =>
           handling'.step # "none" \/ ~KindIn(ioq', "read", Failed)
  BY <1>1, <1>2, <1>3, <1>4, <1>5, <1>6
<1> QED
  BY <1>7, <1>8, <1>9, FlowFormNext

LEMMA FlowNext ==
  ASSUME TypeInv, TypeInv', ShutInv, ReadInv, LockInv, FlowInv, [Next]_vars
  PROVE  FlowInv'
<1>t. /\ ioq \in Seq(Handlers) /\ reads \in Nat /\ consumed \in Nat /\ arrived \in Nat
      /\ handling \in [step : {"none", "lock", "copy"}, chunk : Nat] /\ shutdown \in BOOLEAN
      /\ Delivered \in Nat
  BY RecordsType DEF TypeInv, FlagsOK, DataOK
<1>f. /\ KindIn(ioq, "read", Expected)
      /\ handling.step # "none" => Newest(handling.chunk)
      /\ reads > 0 \/ Unread => consumed = Delivered
      /\ consumed \in {Delivered, Delivered + 1}
      /\ ~shutdown /\ consumed # Delivered =>
           handling.step # "none" \/ ~KindIn(ioq, "read", Failed)
      /\ consumed <= arrived /\ arrived <= MaxChunks
  BY FlowForm
<1>o. /\ reads <= 1 /\ (reads > 0 => handling.step = "none")
      /\ reads > 0 \/ handling.step # "none" => NoneOf(ioq, "read")
      /\ AtMostOne(ioq, "read")
  BY DEF ReadInv, OneRead, Ready, NoneOf, AtMostOne
<1>n. Failed' = Failed
  BY DEF Failed
<1>s. ~shutdown' => ~shutdown
  BY ShutdownStays
<1>a. Unarmed /\ (Unread' => Unread)
  BY ArmsOnce DEF ReadInv, Unarmed
<1>d. ASSUME ~(HandlerCopy /\ Delivers) PROVE Delivered' = Delivered
  BY <1>d, RecordSteps, DeliveredSteps
<1>1. CASE UNCHANGED <<reads, handling, consumed, arrived>> /\ SameReads
  <2>1. ~Delivers
    BY <1>1 DEF Delivers
  <2> QED
    BY <1>1, <1>a, <1>d, <2>1, FlowKept
<1>2. CASE ConnectReads
  <2>1. UNCHANGED <<handling, consumed, arrived, ioq>> /\ pc[Owner] = "arm"
    BY <1>2 DEF ConnectReads, os
  <2>2. CASE reopened
    <3>1. reads' = reads
      BY <1>2, <2>2 DEF ConnectReads, ReadAsync, ShutInv
    <3> QED
      BY <1>1, <2>1, <3>1 DEF SameReads
  <2>3. CASE ~reopened
    <3>1. Delivered' = Delivered /\ consumed = Delivered
      BY <1>d, <1>f, <2>1, <2>3 DEF Delivers, Unread
    <3>2. Expected' = Expected /\ (Newest(handling.chunk)' <=> Newest(handling.chunk))
      BY <2>1, <3>1 DEF Expected, Newest
    <3> QED
      BY <1>f, <1>n, <2>1, <3>1, <3>2, FlowFormNext
  <2> QED
    BY <2>2, <2>3
<1>3. CASE RunReadFailed
  <2>1. /\ ioq # <<>> /\ ioq' = Tail(ioq) /\ Head(ioq).kind = "read" /\ Head(ioq).err
        /\ UNCHANGED <<handling, consumed, arrived>>
    BY <1>3 DEF RunReadFailed, Runs, os
  <2>2. Delivered' = Delivered /\ consumed = Delivered
    BY <1>t, <1>d, <1>f, <2>1, KindInQueue DEF Delivers, Expected
  <2>3. KindIn(ioq', "read", Expected')
    BY <1>t, <1>o, <2>1, <2>2, TailHandler, KindInQueue, HeadHandler
  <2>4. handling'.step = "none"
    BY <1>3, <2>1 DEF RunReadFailed, Runs
  <2> QED
    BY <1>f, <2>1, <2>2, <2>3, <2>4, FlowFormNext
<1>4. CASE RunRead
  <2>1. /\ ioq # <<>> /\ ioq' = Tail(ioq) /\ Head(ioq).kind = "read" /\ ~Head(ioq).err
        /\ handling.step = "none" /\ handling' = (IF shutdown THEN handling
                     ELSE [step |-> "lock", chunk |-> Head(ioq).arg])
        /\ UNCHANGED <<consumed, arrived, reads, shutdown, link, pc>>
    BY <1>4 DEF RunRead, Runs, os, flags
  <2>2. Delivered' = Delivered
    BY <1>t, <1>d, <2>1 DEF Delivers
  <2>3. Newest(Head(ioq).arg)
    BY <1>t, <1>f, <2>1, KindInQueue DEF Expected
  <2>4. KindIn(ioq', "read", Expected')
    BY <1>t, <1>o, <2>1, TailHandler, KindInQueue, HeadHandler
  <2>5. handling'.step # "none" => Newest(handling.chunk)'
    BY <2>1, <2>2, <2>3 DEF Newest
  <2>6. ~shutdown' => handling'.step # "none"
    BY <2>1
  <2> QED
    BY <1>a, <1>f, <2>1, <2>2, <2>4, <2>5, <2>6, FlowFormNext
<1>5. CASE HandlerPush
  <2>1. /\ UNCHANGED <<reads, ioq, consumed, arrived>> /\ handling'.chunk = handling.chunk
        /\ handling'.step = "copy" /\ handling.step = "lock"
    BY <1>5, <1>t DEF HandlerPush, io, os
  <2>2. SameReads /\ ~Delivers
    BY <2>1 DEF SameReads, Delivers
  <2> QED
    BY <1>a, <1>d, <2>1, <2>2, FlowKept
<1>6. CASE HandlerCopy
  <2>1. /\ handling.step = "copy" /\ UNCHANGED <<ioq, consumed, arrived, link, pc>>
        /\ NoneOf(ioq, "read") /\ Newest(handling.chunk)
    BY <1>6, <1>o, <1>f DEF HandlerCopy, os
  <2>2. CASE UNCHANGED <<reads, handling>>
    BY <1>1, <2>1, <2>2 DEF SameReads
  <2>3. CASE handling'.step = "none"
    <3>1. Delivers
      BY <1>6, <2>1, <2>3, RecordSteps DEF Takes
    <3>2. Delivered' = Delivered + 1
      BY <1>t, <3>1, DeliveredSteps
    <3>3. consumed' = Delivered'
      BY <2>1, <3>2 DEF Newest
    <3>4. KindIn(ioq', "read", Expected')
      BY <1>t, <2>1, KindInQueue
    <3> QED
      BY <1>f, <2>1, <2>3, <3>3, <3>4, FlowFormNext
  <2> QED
    BY <1>6, <2>2, <2>3 DEF HandlerCopy
<1>7. CASE ReadCompletes
  <2>1. /\ reads > 0 /\ reads' = reads - 1 /\ consumed < arrived /\ consumed' = consumed + 1
        /\ ioq' = Append(ioq, Handler("read", consumed', FALSE))
        /\ UNCHANGED <<handling, arrived, link, pc>>
    BY <1>7 DEF ReadCompletes
  <2>2. /\ Delivered' = Delivered /\ consumed = Delivered /\ handling.step = "none"
        /\ NoneOf(ioq, "read") /\ reads' = 0 /\ consumed' \in Nat
    <3>1. handling.step = "none" /\ consumed = Delivered /\ NoneOf(ioq, "read")
      BY <1>f, <1>o, <2>1
    <3>2. Delivered' = Delivered
      BY <1>d, <3>1 DEF Delivers
    <3>3. reads' = 0 /\ consumed' \in Nat
      BY <1>t, <1>o, <2>1
    <3> QED
      BY <3>1, <3>2, <3>3
  <2>3. PICK h \in Handlers : /\ h = Handler("read", consumed', FALSE)
                              /\ h.kind = "read" /\ h.arg = consumed' /\ ~h.err
    BY <2>2, HandlerType
  <2>4. consumed' = Delivered' + 1
    BY <2>1, <2>2
  <2>5. h \in Expected' /\ h \notin Failed
    BY <2>3, <2>4 DEF Expected, Newest, Failed
  <2>6. KindIn(ioq', "read", Expected') /\ ~KindIn(ioq', "read", Failed)
    <3>1. KindIn(ioq, "read", Expected')
      BY <1>t, <2>2, KindInQueue
    <3>2. \A S : KindIn(Append(ioq, h), "read", S) <=>
                  KindIn(ioq, "read", S) /\ (h.kind = "read" => h \in S)
      BY <1>t, KindInQueue
    <3>3. ioq' = Append(ioq, h)
      BY <2>1, <2>3
    <3> QED
      BY <2>3, <2>5, <3>1, <3>2, <3>3
  <2>7. ~Unread'
    BY <1>a, <2>1 DEF Unarmed, Quiet
  <2>8. consumed' <= arrived' /\ arrived' <= MaxChunks
    BY <1>t, <1>f, <2>1
  <2>9. handling'.step = "none" /\ ~(reads' > 0) /\ consumed' \in {Delivered', Delivered' + 1}
    BY <2>1, <2>2, <2>4
  <2> QED
    BY <2>6, <2>7, <2>8, <2>9, FlowFormNext
<1>8. CASE ReadFails
  <2>1. /\ reads > 0 /\ reads' = reads - 1
        /\ ioq' = Append(ioq, Handler("read", 0, TRUE))
        /\ UNCHANGED <<handling, arrived, consumed>>
    BY <1>8 DEF ReadFails, os
  <2>2. /\ Delivered' = Delivered /\ consumed = Delivered /\ handling.step = "none"
        /\ NoneOf(ioq, "read")
    <3>1. handling.step = "none" /\ consumed = Delivered /\ NoneOf(ioq, "read")
      BY <1>f, <1>o, <2>1
    <3> QED
      BY <1>d, <3>1 DEF Delivers
  <2>3. PICK h \in Handlers : h = Handler("read", 0, TRUE) /\ h.kind = "read" /\ h.err
    BY HandlerType
  <2>4. h \in Expected'
    BY <2>1, <2>2, <2>3 DEF Expected
  <2>5. KindIn(ioq', "read", Expected')
    BY <1>t, <2>1, <2>2, <2>3, <2>4, KindInQueue
  <2> QED
    BY <1>f, <2>1, <2>2, <2>5, FlowFormNext
<1>9. CASE DeviceSends
  <2>1. UNCHANGED <<reads, ioq, consumed, handling>>
    BY <1>9 DEF DeviceSends, io
  <2>2. SameReads /\ ~Delivers
    BY <2>1 DEF SameReads, Delivers
  <2> QED
    BY <1>9, <1>a, <1>d, <2>1, <2>2, FlowKept
<1> QED
  BY <1>1, <1>2, <1>3, <1>4, <1>5, <1>6, <1>7, <1>8, <1>9, SameReadsSteps, StillSteps

-----------------------------------------------------------------------------
(* Where the chunks are that became records.                               *)

LEMMA PlacedTakes ==
  ASSUME NEW q \in Seq(Nat), NEW t \in Seq(Nat), NEW d \in Nat, q # <<>>, Placed(q, t, d)
  PROVE  Placed(SubSeq(q, 1, Len(q) - 1), Append(t, q[Len(q)]), d)
<1> DEFINE m == Len(q)
           k == Len(t)
           f == SubSeq(q, 1, m - 1)
           u == Append(t, q[m])
<1>1. m \in Nat \ {0} /\ k \in Nat /\ DOMAIN q = 1 .. m /\ DOMAIN t = 1 .. k
  OBVIOUS
<1>2. q[m] \in Nat
  BY <1>1
<1>3. DOMAIN f = 1 .. m - 1 /\ \A i \in 1 .. m - 1 : f[i] = q[i]
  BY FrontShape
<1>4. DOMAIN u = 1 .. k + 1 /\ (\A i \in 1 .. k : u[i] = t[i]) /\ u[k + 1] = q[m]
  BY <1>2
<1> SUFFICES Placed(f, u, d)
  OBVIOUS
<1> HIDE DEF m, k, f, u
<1>p. Placed(q, t, d)
  BY DEF m, k, f, u
<1>d. m \in DOMAIN q /\ \A i \in 1 .. m - 1 : i \in DOMAIN q /\ i # m
  BY <1>1
<1>q. /\ \A i, j \in DOMAIN q : q[i] = q[j] => i = j
      /\ \A i \in DOMAIN q, j \in DOMAIN t : q[i] # t[j]
  BY <1>p DEF Placed
<1>5. \A i \in DOMAIN f : f[i] \in 1 .. d
  BY <1>1, <1>3, <1>p DEF Placed
<1>6. \A i \in DOMAIN u : u[i] \in 1 .. d
  BY <1>1, <1>4, <1>p DEF Placed
<1>7. \A i, j \in DOMAIN f : f[i] = f[j] => i = j
  BY <1>3, <1>d, <1>q
<1>8. \A i, j \in DOMAIN u : u[i] = u[j] => i = j
  <2>1. \A i \in 1 .. k : u[i] # u[k + 1]
    BY <1>1, <1>4, <1>d, <1>q
  <2>2. \A i, j \in 1 .. k : u[i] = u[j] => i = j
    BY <1>1, <1>4, <1>p DEF Placed
  <2>3. \A i \in 1 .. k + 1 : i \in 1 .. k \/ i = k + 1
    BY <1>1
  <2> QED
    BY <1>4, <2>1, <2>2, <2>3
<1>9. \A i \in DOMAIN f, j \in DOMAIN u : f[i] # u[j]
  <2>1. \A i \in 1 .. m - 1, j \in 1 .. k : f[i] # u[j]
    BY <1>1, <1>3, <1>4, <1>d, <1>q
  <2>2. \A i \in 1 .. m - 1 : f[i] # u[k + 1]
    BY <1>3, <1>4, <1>d, <1>q
  <2>3. \A i \in 1 .. k + 1 : i \in 1 .. k \/ i = k + 1
    BY <1>1
  <2> QED
    BY <1>3, <1>4, <2>1, <2>2, <2>3
<1>10. ASSUME NEW n \in 1 .. d
       PROVE  (\E i \in DOMAIN f : f[i] = n) \/ (\E i \in DOMAIN u : u[i] = n)
  <2>1. CASE \E i \in DOMAIN q : q[i] = n
    <3>1. PICK i \in 1 .. m : q[i] = n
      BY <1>1, <2>1
    <3>2. CASE i = m
      <4>1. k + 1 \in DOMAIN u /\ u[k + 1] = n
        BY <1>1, <1>4, <3>1, <3>2
      <4> QED
        BY <4>1
    <3>3. CASE i # m
      <4>1. i \in DOMAIN f /\ f[i] = n
        BY <1>1, <1>3, <3>1, <3>3
      <4> QED
        BY <4>1
    <3> QED
      BY <3>2, <3>3
  <2>2. CASE \E i \in DOMAIN t : t[i] = n
    <3>1. PICK i \in 1 .. k : t[i] = n
      BY <1>1, <2>2
    <3>2. i \in DOMAIN u /\ u[i] = n
      BY <1>1, <1>4, <3>1
    <3> QED
      BY <3>2
  <2> QED
    BY <1>p, <2>1, <2>2 DEF Placed
<1> QED
  BY <1>5, <1>6, <1>7, <1>8, <1>9, <1>10 DEF Placed

LEMMA PlacedDelivers ==
  ASSUME NEW q \in Seq(Nat), NEW t \in Seq(Nat), NEW d \in Nat, Placed(q, t, d)
  PROVE  Placed(Append(q, d + 1), t, d + 1)
<1> DEFINE m == Len(q)
           r == Append(q, d + 1)
<1>1. m \in Nat /\ DOMAIN q = 1 .. m
  OBVIOUS
<1>2. DOMAIN r = 1 .. m + 1 /\ (\A i \in 1 .. m : r[i] = q[i]) /\ r[m + 1] = d + 1
  OBVIOUS
<1> SUFFICES Placed(r, t, d + 1)
  OBVIOUS
<1> HIDE DEF m, r
<1>3. \A i \in 1 .. m + 1 : i \in 1 .. m \/ i = m + 1
  BY <1>1
<1>4. \A i \in 1 .. m : r[i] \in 1 .. d
  BY <1>1, <1>2 DEF Placed
<1>5. \A n \in 1 .. d : n \in 1 .. d + 1 /\ n # d + 1
  OBVIOUS
<1>6. \A i \in DOMAIN r : r[i] \in 1 .. d + 1
  BY <1>2, <1>3, <1>4, <1>5
<1>7. \A i \in DOMAIN t : t[i] \in 1 .. d + 1
  BY <1>5 DEF Placed
<1>8. \A i, j \in DOMAIN r : r[i] = r[j] => i = j
  <2>1. \A i, j \in 1 .. m : r[i] = r[j] => i = j
    BY <1>1, <1>2 DEF Placed
  <2> QED
    BY <1>2, <1>3, <1>4, <1>5, <2>1
<1>9. \A i \in DOMAIN r, j \in DOMAIN t : r[i] # t[j]
  <2>1. \A i \in 1 .. m, j \in DOMAIN t : r[i] # t[j]
    <3>1. \A i \in DOMAIN q, j \in DOMAIN t : q[i] # t[j]
      BY DEF Placed
    <3> QED
      BY <1>1, <1>2, <3>1, Zenon
  <2>2. \A j \in DOMAIN t : t[j] # d + 1
    BY <1>5 DEF Placed
  <2> QED
    BY <1>2, <1>3, <2>1, <2>2
<1>10. ASSUME NEW n \in 1 .. d + 1
       PROVE  (\E i \in DOMAIN r : r[i] = n) \/ (\E i \in DOMAIN t : t[i] = n)
  <2>1. CASE n = d + 1
    BY <1>1, <1>2, <2>1
  <2>2. CASE n # d + 1
    <3>1. n \in 1 .. d
      BY <2>2
    <3>2. (\E i \in 1 .. m : q[i] = n) \/ (\E i \in DOMAIN t : t[i] = n)
      BY <1>1, <3>1 DEF Placed
    <3>3. \A i \in 1 .. m : i \in DOMAIN r /\ r[i] = q[i]
      BY <1>1, <1>2
    <3> QED
      BY <3>2, <3>3
  <2> QED
    BY <2>1, <2>2
<1> QED
  BY <1>6, <1>7, <1>8, <1>9, <1>10 DEF Placed

LEMMA PlaceNext ==
  ASSUME TypeInv, LockInv, FlowInv, PlaceInv, [Next]_vars PROVE PlaceInv'
<1>t. Records \in Seq(Nat) /\ taken \in Seq(Nat) /\ Delivered \in Nat /\ handling.chunk \in Nat
  BY RecordsType DEF TypeInv, DataOK
<1>1. CASE UNCHANGED <<Records, taken>>
  <2>1. Delivered' = Delivered
    BY <1>1, DeliveredSteps
  <2> QED
    BY <1>1, <2>1 DEF PlaceInv
<1>2. CASE Takes
  <2>1. Delivered' = Delivered
    BY <1>2, DeliveredSteps
  <2>2. Placed(Records', taken', Delivered)
    BY <1>t, <1>2, PlacedTakes DEF PlaceInv, Takes
  <2> QED
    BY <2>1, <2>2 DEF PlaceInv
<1>3. CASE Delivers
  <2>1. Delivered' = Delivered + 1
    BY <1>t, <1>3, DeliveredSteps
  <2>2. Records' = Append(Records, Delivered + 1) /\ taken' = taken
    BY <1>3 DEF Delivers, FlowInv, Newest
  <2> QED
    BY <1>t, <2>1, <2>2, PlacedDelivers DEF PlaceInv
<1> QED
  BY <1>1, <1>2, <1>3, RecordSteps

-----------------------------------------------------------------------------
(* The inductive invariant of the reading side, and what it implies.       *)

ChunkInv == ReadInv /\ LockInv /\ FlowInv /\ PlaceInv

LEMMA ChunkInit ==
  ASSUME Init PROVE ChunkInv
<1>1. /\ reads = 0 /\ ioq = <<>> /\ handling = [step |-> "none", chunk |-> Blank] /\ link = "down"
      /\ pc = [t \in Threads |-> "idle"] /\ readQueue = <<>> /\ taken = <<>>
      /\ consumed = 0 /\ arrived = 0
  BY DEF Init
<1>2. NoneOf(ioq, "read") /\ Ready("read") = {}
  BY <1>1 DEF NoneOf, Ready
<1>3. Records = <<>> /\ Delivered = 0
  BY <1>1 DEF Records, Delivered
<1>4. ReadInv
  <2>1. OneRead
    <3>1. reads = 0 /\ handling.step = "none"
      BY <1>1
    <3> QED
      BY <1>2, <3>1 DEF OneRead
  <2>2. Quiet(reads, ioq, handling.step)
    BY <1>1, <1>2 DEF Quiet
  <2>3. pc[Owner] # "arm"
    BY <1>1, ThreadsAssumption
  <2> QED
    BY <2>1, <2>2, <2>3 DEF ReadInv, Unarmed, Unread
<1>5. LockInv
  BY <1>1 DEF LockInv
<1>6. FlowInv
  BY <1>1, <1>2, <1>3, BoundsAssumption DEF FlowInv
<1>7. PlaceInv
  BY <1>1, <1>3 DEF PlaceInv, Placed
<1> QED
  BY <1>4, <1>5, <1>6, <1>7 DEF ChunkInv

LEMMA ChunkInvHolds == Spec => [](WriteInv /\ ChunkInv)
<1>1. Init => ChunkInv
  BY ChunkInit
<1>2. WriteInv /\ WriteInv' /\ ShutInv /\ ChunkInv /\ [Next]_vars => ChunkInv'
  BY ReadNext, LockNext, FlowNext, PlaceNext DEF WriteInv, ChunkInv
<1> QED
  BY <1>1, <1>2, ShutInvHolds, PTL DEF Spec

(* read() returns no record before readHandler() has filled it, although   *)
(* the record is in readQueue_ from the push on (readHandler, read).       *)
THEOREM RecordsFilledCorrect == Spec => []RecordsFilled
<1>1. WriteInv /\ ChunkInv => RecordsFilled
  BY RecordsType DEF WriteInv, ChunkInv, PlaceInv, Placed, RecordsFilled, Blank
<1> QED
  BY <1>1, ChunkInvHolds, PTL

(* The set of places of a chunk in one of the queues has no two members.   *)
LEMMA CountOne ==
  ASSUME NEW S, \A i, j \in S : i = j
  PROVE  Cardinality(S) = IF S = {} THEN 0 ELSE 1
<1>1. CASE S = {}
  BY <1>1, FS_EmptySet
<1>2. CASE S # {}
  <2>1. PICK x : S = {x}
    BY <1>2
  <2> QED
    BY <1>2, <2>1, FS_Singleton
<1> QED
  BY <1>1, <1>2

(* While it is being filled, the new record is one that names no chunk.    *)
LEMMA RecordPlaces ==
  ASSUME TypeInv, LockInv, NEW n \in Nat, n # Blank
  PROVE  {i \in DOMAIN readQueue : readQueue[i] = n} = {i \in DOMAIN Records : Records[i] = n}
<1>t. readQueue \in Seq(Nat)
  BY DEF TypeInv, DataOK
<1>1. CASE handling.step = "copy"
  <2> DEFINE m == Len(readQueue)
             f == SubSeq(readQueue, 1, m - 1)
  <2>1. readQueue # <<>> /\ readQueue[m] = Blank /\ Records = f
    BY <1>1 DEF LockInv, Records
  <2>2. m \in Nat \ {0} /\ DOMAIN readQueue = 1 .. m
    BY <1>t, <2>1
  <2>3. DOMAIN f = 1 .. m - 1 /\ \A i \in 1 .. m - 1 : f[i] = readQueue[i]
    BY <1>t, <2>1, FrontShape
  <2> HIDE DEF m, f
  <2> QED
    BY <2>1, <2>2, <2>3
<1>2. CASE handling.step # "copy"
  BY <1>2 DEF Records
<1> QED
  BY <1>1, <1>2

(* A chunk that was read from the socket is in one place: on its way to    *)
(* the handler, with it, in readQueue_ or with the caller of read(); and   *)
(* none is dropped before shutdown (readAsync, readHandler, read).         *)
THEOREM ChunksAccountedCorrect == Spec => []ChunksAccounted
<1>1. ASSUME WriteInv, ChunkInv, NEW n \in 1 .. consumed
      PROVE  Places(n) <= 1 /\ (~shutdown => Places(n) = 1)
  <2> DEFINE Arrived == {i \in Ready("read") : ~ioq[i].err /\ ioq[i].arg = n}
             Handled == IF handling.chunk = n THEN 1 ELSE 0
             Queued == {i \in DOMAIN Records : Records[i] = n}
             Read == {i \in DOMAIN taken : taken[i] = n}
             Count(S) == IF S = {} THEN 0 ELSE 1
  <2>t. /\ TypeInv /\ consumed \in Nat /\ handling.chunk \in Nat /\ Delivered \in Nat
        /\ ioq \in Seq(Handlers) /\ shutdown \in BOOLEAN /\ n # Blank /\ n \in Nat
    BY <1>1, RecordsType DEF WriteInv, TypeInv, DataOK, FlagsOK, Blank
  <2>1. \A i, j \in Arrived : i = j
    BY <1>1 DEF ChunkInv, ReadInv, OneRead
  <2>2. (\A i, j \in Queued : i = j) /\ (\A i, j \in Read : i = j)
    BY <1>1 DEF ChunkInv, PlaceInv, Placed
  <2>3. {i \in DOMAIN readQueue : readQueue[i] = n} = Queued
    BY <1>1, <2>t, RecordPlaces DEF ChunkInv
  <2>4. Places(n) = Count(Arrived) + Handled + Count(Queued) + Count(Read)
    BY <2>1, <2>2, <2>3, CountOne DEF Places, Occurrences
  <2>5. \A i \in Ready("read") : ioq[i] \in Expected
    BY <1>1 DEF ChunkInv, FlowInv
  <2>6. Arrived # {} => n = Delivered + 1
    BY <2>5 DEF Expected, Newest
  <2>7. handling.chunk = n => n = Delivered + 1 /\ handling.step # "none"
    BY <1>1, <2>t DEF ChunkInv, FlowInv, LockInv, Newest
  <2>8. Queued # {} \/ Read # {} => n \in 1 .. Delivered
    BY <1>1 DEF ChunkInv, PlaceInv, Placed
  <2>9. n \in 1 .. Delivered \/ (n = Delivered + 1 /\ n = consumed)
    BY <1>1, <2>t DEF ChunkInv, FlowInv
  <2>10. CASE n \in 1 .. Delivered
    <3>1. n # Delivered + 1
      BY <2>t, <2>10
    <3>2. Arrived = {} /\ Handled = 0
      BY <2>6, <2>7, <3>1
    <3>3. (Queued # {} \/ Read # {}) /\ ~(Queued # {} /\ Read # {})
      BY <1>1, <2>10 DEF ChunkInv, PlaceInv, Placed
    <3> HIDE DEF Arrived, Handled, Queued, Read
    <3> QED
      BY <2>4, <3>2, <3>3
  <2>11. CASE n = Delivered + 1 /\ n = consumed
    <3>1. Queued = {} /\ Read = {}
      BY <2>t, <2>8, <2>11
    <3>2. ~(Arrived # {} /\ handling.chunk = n)
      BY <1>1, <2>7 DEF ChunkInv, ReadInv, OneRead
    <3>3. ~shutdown => Arrived # {} \/ handling.chunk = n
      <4> SUFFICES ASSUME ~shutdown PROVE Arrived # {} \/ handling.chunk = n
        OBVIOUS
      <4>1. handling.step # "none" \/ \E i \in Ready("read") : ~ioq[i].err
        BY <1>1, <2>t, <2>11 DEF ChunkInv, FlowInv
      <4>2. handling.step # "none" => handling.chunk = n
        BY <1>1, <2>11 DEF ChunkInv, FlowInv, Newest
      <4>3. ASSUME NEW i \in Ready("read"), ~ioq[i].err PROVE i \in Arrived
        BY <2>5, <2>11, <4>3 DEF Expected, Newest
      <4> QED
        BY <4>1, <4>2, <4>3
    <3> HIDE DEF Arrived, Queued, Read
    <3> QED
      BY <2>4, <3>1, <3>2, <3>3
  <2> QED
    BY <2>9, <2>10, <2>11
<1>2. WriteInv /\ ChunkInv => ChunksAccounted
  BY <1>1 DEF ChunksAccounted
<1> QED
  BY <1>2, ChunkInvHolds, PTL

-----------------------------------------------------------------------------
(* One thread that reads finds what it waited for.                         *)

Found == \A t \in Threads : pc[t] \in {"lock", "pop"} => readQueue # <<>>

LEMMA FoundNext ==
  ASSUME \A t, u \in Readers : t = u, TypeInv, TypeInv', LockInv, Found, [Next]_vars
  PROVE  Found'
<1>t. /\ pc \in [Threads -> Labels] /\ readQueue \in Seq(Nat)
      /\ \A t \in Threads : pc[t] \in {"wait", "lock", "pop"} => t \in Readers
  BY DEF TypeInv, CallsOK, DataOK
<1> USE DEF Found, inbox
<1>u. CASE UNCHANGED <<pc, readQueue>>
  BY <1>u
<1>c. ASSUME NEW t \in Threads, NEW a, a \notin {"lock", "pop"}, Goto(t, a), readQueue' = readQueue
      PROVE  Found'
  BY <1>c, <1>t DEF Goto
<1>1. CASE ConnectOpens \/ ConnectSocket \/ ConnectFails \/ ConnectReads \/ ConnectSpawns
             \/ Destroy
  BY <1>1, <1>c, ThreadsAssumption
  DEF ConnectOpens, ConnectSocket, ConnectFails, ConnectReads, ConnectSpawns, Destroy
<1>2. ASSUME NEW t \in Threads, Call(t) \/ ClosePosts(t) PROVE Found'
  <2>1. CASE Send(t) \/ Shutdown(t)
    BY <2>1, <1>u DEF Send, Shutdown
  <2>2. CASE ReadBegin(t) \/ Close(t) \/ ClosePosts(t)
    BY <2>2, <1>c DEF ReadBegin, Close, ClosePosts
  <2> QED
    BY <1>2, <2>1, <2>2 DEF Call
<1>3. ASSUME NEW t \in Threads, ReadSees(t) \/ ReadLock(t) PROVE Found'
  <2>1. readQueue # <<>> /\ readQueue' = readQueue
    BY <1>3 DEF ReadSees, ReadLock
  <2> QED
    BY <2>1
<1>4. ASSUME NEW t \in Threads, ReadPop(t) PROVE Found'
  <2>1. pc[t] = "pop" /\ readQueue # <<>> /\ Goto(t, "idle")
    BY <1>4 DEF ReadPop
  <2>2. \A u \in Threads : pc[u] \in {"lock", "pop"} => u = t
    BY <1>t, <2>1
  <2>3. \A u \in Threads : pc'[u] \notin {"lock", "pop"}
    BY <1>t, <2>1, <2>2 DEF Goto
  <2> QED
    BY <2>3
<1>5. CASE HandlerPush \/ HandlerCopy
  <2>1. pc' = pc
    BY <1>5 DEF HandlerPush, HandlerCopy
  <2>2. readQueue # <<>> => readQueue' # <<>>
    BY <1>5, <1>t DEF HandlerPush, HandlerCopy, Fill
  <2> QED
    BY <2>1, <2>2
<1>6. CASE ConnectTerminates \/ Join \/ DeviceSends \/ LinkLost \/ Os \/ UNCHANGED vars
  BY <1>6, <1>u DEF ConnectTerminates, Join, DeviceSends, LinkLost, Os, ReadCompletes, ReadFails,
                    WriteCompletes, WriteFails, vars
<1>7. CASE \/ RunSend \/ RunWritten \/ RunWriteFailed \/ RunClose \/ RunReadFailed
           \/ RunRead \/ RunReturns
  BY <1>7, <1>u DEF RunSend, RunWritten, RunWriteFailed, RunClose, RunReadFailed, RunRead,
                    RunReturns
<1> QED
  BY <1>1, <1>2, <1>3, <1>4, <1>5, <1>6, <1>7 DEF Next, Construction, Continue, Io

(* A single reader that takes the mutex after its loop saw a record finds  *)
(* one: back() and pop_back() are never called on an empty readQueue_.     *)
(* With two readers this is false (read).                                  *)
THEOREM ReadFindsDataCorrect ==
  ASSUME \A t, u \in Readers : t = u
  PROVE  Spec => []ReadFindsData
<1>1. Init => Found
  BY DEF Init, Found
<1>2. WriteInv /\ WriteInv' /\ ChunkInv /\ Found /\ [Next]_vars => Found'
  BY FoundNext DEF WriteInv, ChunkInv
<1>3. Found => ReadFindsData
  BY DEF Found, ReadFindsData
<1> QED
  BY <1>1, <1>2, <1>3, ChunkInvHolds, PTL DEF Spec

-----------------------------------------------------------------------------
(* The reading side implements Inbox.                                      *)

(* readHandler() and read() together do what Inbox promises: chunks become *)
(* records in the order they arrived, and read() takes the newest.         *)
THEOREM ReadsNewestCorrect == Spec => ReadsNewest
<1>1. Init => Gift!Init
  BY DEF Init, Gift!Init, Records
<1>2. ASSUME WriteInv, ChunkInv, [Next]_vars PROVE [Gift!Next]_(Gift!vars)
  <2>t. TypeInv /\ LockInv /\ Delivered = Gift!Delivered /\ Delivered \in Nat
    BY <1>2, RecordsType DEF WriteInv, ChunkInv, Delivered, Gift!Delivered
  <2>1. CASE UNCHANGED <<Records, taken>>
    BY <2>1 DEF Gift!vars
  <2>2. CASE Takes
    BY <2>2 DEF Takes, Gift!Next, Gift!Take
  <2>3. CASE Delivers
    <3>1. /\ handling.chunk = consumed /\ handling.chunk = Delivered + 1
          /\ consumed <= arrived /\ arrived <= MaxChunks
      BY <1>2, <2>3 DEF Delivers, ChunkInv, FlowInv, Newest
    <3>2. Delivered < MaxChunks
      <4>1. consumed \in Nat /\ arrived \in Nat
        BY <2>t DEF TypeInv, DataOK
      <4> QED
        BY <2>t, <3>1, <4>1, BoundsAssumption
    <3>3. Records' = Append(Records, Delivered + 1) /\ taken' = taken
      BY <2>3, <3>1 DEF Delivers
    <3> QED
      BY <2>t, <3>2, <3>3 DEF Gift!Next, Gift!Deliver
  <2> QED
    BY <1>2, <2>t, <2>1, <2>2, <2>3, RecordSteps
<1> QED
  BY <1>1, <1>2, ChunkInvHolds, PTL DEF Spec, ReadsNewest, Gift!Spec
=============================================================================
