------------------------ MODULE SpheroHandlerProofs ------------------------
(***************************************************************************)
(* What SpheroHandler keeps to for any number of callers, attempts,        *)
(* sequence numbers and commands: types, a handler that is handed out is   *)
(* usable, the unlocked seqNum never runs ahead, the numbers of            *)
(* neighbouring commands differ as long as calls do not overlap, and with  *)
(* one caller a response is the answer to the latest command.              *)
(***************************************************************************)
EXTENDS SpheroHandler, FiniteSetTheorems, SequenceTheorems, TLAPS

(***************************************************************************)
(* The constructor.  Only its last step sets "ready", and only with the    *)
(* thread running; the loop cannot fall through, since the last attempt    *)
(* throws.                                                                 *)
(***************************************************************************)
StageInv ==
  /\ attempt \in 0 .. RETRY
  /\ stage \in {"trying", "asleep", "ready", "refused"}
  /\ connected \in BOOLEAN /\ iothread \in BOOLEAN
  /\ stage \in {"trying", "asleep"} => ~iothread
  /\ stage = "trying" => attempt <= RETRY
  /\ stage = "asleep" => attempt < RETRY
  /\ HandlerReady

LEMMA StageInit == Init => StageInv
<1>. SUFFICES ASSUME Init PROVE StageInv
  OBVIOUS
<1>1. /\ attempt = 0 /\ stage \in {"trying", "ready"}
      /\ connected = FALSE /\ iothread = FALSE
  BY DEF Init
<1>2. attempt \in 0 .. RETRY /\ attempt <= RETRY /\ ~(attempt > 0)
  BY <1>1, HandlerAssumption
<1>. QED  BY <1>1, <1>2, Zenon DEF StageInv, HandlerReady

LEMMA StageNext == StageInv /\ [Next]_vars => StageInv'
<1>. SUFFICES ASSUME StageInv, [Next]_vars PROVE StageInv'
  OBVIOUS
<1>. USE HandlerAssumption DEF StageInv, HandlerReady
<1>1. CASE ConnectFails
  BY <1>1 DEF ConnectFails, AttemptFails, LastAttempt
<1>2. CASE ThreadFails
  BY <1>2 DEF ThreadFails, AttemptFails, LastAttempt
<1>3. CASE Connect
  BY <1>3 DEF Connect
<1>4. CASE Retry
  BY <1>4 DEF Retry
<1>5. CASE UNCHANGED handler
  BY <1>5 DEF handler
<1>6. ASSUME NEW t \in Callers, Generate(t) \/ ReadResponse(t) \/ Continue(t)
      PROVE  UNCHANGED handler
  BY <1>6 DEF Generate, ReadResponse, Continue, Send, Load, Store, TakeResponse
<1>7. CASE Transmit \/ Break \/ Deliver \/ Answer \/ Speak \/ Join
  BY <1>5, <1>7 DEF Transmit, Break, Deliver, Answer, Speak, Join
<1>8. CASE UNCHANGED vars
  BY <1>5, <1>8 DEF vars
<1>. QED  BY <1>1, <1>2, <1>3, <1>4, <1>5, <1>6, <1>7, <1>8 DEF Next, Constructor

(* A handler the constructor returns has a running thread if it looks      *)
(* connected, and looks connected if it ever tried twice: a connection     *)
(* that was set up half-way is never handed out.                           *)
THEOREM ReadyCorrect == Spec => []HandlerReady
<1>1. StageInv => HandlerReady
  BY DEF StageInv
<1>. QED  BY <1>1, StageInit, StageNext, PTL DEF Spec

(***************************************************************************)
(* The counters.  Commands whose seqNum has not been written back hold     *)
(* seqNum, and every value on its way back to it, below their number.      *)
(***************************************************************************)
Labels == {"idle", "send", "load", "store", "read"}

Counters ==
  /\ seqNum \in Nat /\ accepted \in Nat
  /\ register \in [Callers -> Nat]
  /\ pc \in [Callers -> Labels]
  /\ numbers \in Seq(0 .. Base - 1) /\ Len(numbers) = accepted

Pending == {t \in Callers : pc[t] \in {"load", "store"}}

Due ==
  /\ IsFiniteSet(Pending)
  /\ seqNum + Cardinality(Pending) <= accepted
  /\ \A t \in Callers : pc[t] = "store" => register[t] + Cardinality(Pending) <= accepted
  /\ \A t \in Callers : pc[t] = "send" => register[t] <= accepted

CountInv == Counters /\ Due /\ (\A t \in Callers : pc[t] = "send" => register[t] < Base) /\ NumbersNotAhead

counters == <<seqNum, accepted, register, pc, numbers>>

(* The steps of callers, and the steps that leave the counters alone.      *)
LEMMA CountSteps ==
  ASSUME [Next]_vars
  PROVE  \/ \E t \in Callers : Generate(t) \/ Send(t) \/ Load(t) \/ Store(t)
                                 \/ ReadResponse(t) \/ TakeResponse(t)
         \/ UNCHANGED counters
<1>. USE DEF counters, calls, outbox, vars
<1>1. CASE Constructor
  BY <1>1 DEF Constructor, ConnectFails, ThreadFails, AttemptFails, Connect, Retry
<1>2. CASE Transmit \/ Break
  BY <1>2 DEF Transmit, Break, Out!Transmit, Out!Break
<1>3. CASE Deliver \/ Answer \/ Speak \/ Join
  BY <1>3 DEF Deliver, Answer, Speak, Join
<1>4. CASE UNCHANGED vars
  BY <1>4
<1>. QED  BY <1>1, <1>2, <1>3, <1>4 DEF Next, Continue

LEMMA SeqByteBound == ASSUME NEW n \in Nat PROVE SeqByte(n) \in 0 .. Base - 1 /\ SeqByte(n) <= n
  BY HandlerAssumption DEF SeqByte

LEMMA CountInit == Init => CountInv
<1>. SUFFICES ASSUME Init PROVE CountInv
  OBVIOUS
<1>1. Pending = {}
  BY DEF Init, Pending
<1>2. IsFiniteSet(Pending) /\ Cardinality(Pending) = 0
  BY <1>1, FS_EmptySet
<1>3. Counters
  BY DEF Init, Counters, Labels, FirstNumber, Out!Init
<1>. QED  BY <1>2, <1>3 DEF Init, CountInv, Counters, Due, NumbersNotAhead, FirstNumber, Out!Init

LEMMA CountNext == CountInv /\ [Next]_vars => CountInv'
<1>. SUFFICES ASSUME CountInv, [Next]_vars PROVE CountInv'
  OBVIOUS
<1>. USE DEF CountInv
<1>0. Cardinality(Pending) \in Nat
  BY FS_CardinalityType DEF Due
<1>1. ASSUME NEW t \in Callers, Generate(t) PROVE CountInv'
  <2>1. /\ accepted' = accepted /\ seqNum' = seqNum /\ numbers' = numbers
        /\ register' = [register EXCEPT ![t] = SeqByte(seqNum)]
        /\ pc' = [pc EXCEPT ![t] = "send"] /\ pc[t] = "idle"
    BY <1>1 DEF Generate, Calls, Goto, outbox
  <2>2. Pending' = Pending
    BY <2>1 DEF Pending, Counters
  <2>3. SeqByte(seqNum) \in Nat /\ SeqByte(seqNum) < Base /\ SeqByte(seqNum) <= seqNum
    <3>1. seqNum \in Nat
      BY DEF Counters
    <3>2. SeqByte(seqNum) \in 0 .. Base - 1 /\ SeqByte(seqNum) <= seqNum
      BY <3>1, SeqByteBound
    <3>. QED  BY <3>2, HandlerAssumption
  <2>4. Counters'
    BY <2>1, <2>3 DEF Counters, Labels
  <2>5. Due'
    BY <1>0, <2>1, <2>2, <2>3 DEF Counters, Due
  <2>. QED  BY <2>1, <2>3, <2>4, <2>5 DEF Counters, NumbersNotAhead
<1>2. ASSUME NEW t \in Callers, Send(t) PROVE CountInv'
  <2>1. /\ accepted' = accepted + 1 /\ seqNum' = seqNum /\ register' = register
        /\ numbers' = Append(numbers, register[t])
        /\ pc' = [pc EXCEPT ![t] = "load"] /\ pc[t] = "send"
    BY <1>2 DEF Send, Goto, Out!Accept
  <2>2. Pending' = Pending \cup {t} /\ t \notin Pending
    BY <2>1 DEF Pending, Counters
  <2>3. IsFiniteSet(Pending') /\ Cardinality(Pending') = Cardinality(Pending) + 1
    BY <2>2, FS_AddElement DEF Due
  <2>4. register[t] \in 0 .. Base - 1 /\ register[t] <= accepted
    <3>1. register[t] \in Nat /\ register[t] < Base /\ register[t] <= accepted
      BY <2>1 DEF Counters, Due
    <3>. QED  BY <3>1, HandlerAssumption
  <2>5. Counters'
    BY <2>1, <2>4 DEF Counters, Labels
  <2>6. Due'
    BY <1>0, <2>1, <2>3 DEF Counters, Due
  <2>7. NumbersNotAhead'
    BY <2>1, <2>4 DEF Counters, NumbersNotAhead
  <2>. QED  BY <2>1, <2>5, <2>6, <2>7 DEF Counters
<1>3. ASSUME NEW t \in Callers, Load(t) PROVE CountInv'
  <2>1. /\ accepted' = accepted /\ seqNum' = seqNum /\ numbers' = numbers
        /\ register' = [register EXCEPT ![t] = seqNum]
        /\ pc' = [pc EXCEPT ![t] = "store"] /\ pc[t] = "load"
    BY <1>3 DEF Load, Goto, outbox
  <2>2. Pending' = Pending
    BY <2>1 DEF Pending, Counters
  <2>3. Counters'
    BY <2>1 DEF Counters, Labels
  <2>4. Due'
    BY <1>0, <2>1, <2>2 DEF Counters, Due
  <2>. QED  BY <2>1, <2>3, <2>4 DEF Counters, NumbersNotAhead
<1>4. ASSUME NEW t \in Callers, Store(t) PROVE CountInv'
  <2>1. /\ accepted' = accepted /\ seqNum' = register[t] + 1 /\ numbers' = numbers
        /\ register' = register
        /\ pc' = [pc EXCEPT ![t] = "idle"] /\ pc[t] = "store"
    BY <1>4 DEF Store, Goto, outbox
  <2>2. Pending' = Pending \ {t} /\ t \in Pending
    BY <2>1 DEF Pending, Counters
  <2>3. IsFiniteSet(Pending') /\ Cardinality(Pending') = Cardinality(Pending) - 1
    BY <2>2, FS_RemoveElement DEF Due
  <2>4. Counters'
    BY <2>1 DEF Counters, Labels
  <2>5. Due'
    BY <1>0, <2>1, <2>3 DEF Counters, Due
  <2>. QED  BY <2>1, <2>4, <2>5 DEF Counters, NumbersNotAhead
<1>5. ASSUME NEW t \in Callers, ReadResponse(t) \/ TakeResponse(t) PROVE CountInv'
  <2>1. /\ accepted' = accepted /\ seqNum' = seqNum /\ numbers' = numbers
        /\ register' = register
        /\ \E label \in {"read", "idle"} : pc' = [pc EXCEPT ![t] = label]
        /\ pc[t] \in {"read", "idle"}
    BY <1>5 DEF ReadResponse, TakeResponse, Calls, Goto, outbox
  <2>2. Pending' = Pending
    BY <2>1 DEF Pending, Counters
  <2>3. Counters'
    BY <2>1 DEF Counters, Labels
  <2>4. Due'
    BY <1>0, <2>1, <2>2 DEF Counters, Due
  <2>. QED  BY <2>1, <2>3, <2>4 DEF Counters, NumbersNotAhead
<1>6. CASE UNCHANGED counters
  BY <1>6 DEF counters, Counters, Due, Pending, NumbersNotAhead
<1>. QED  BY <1>1, <1>2, <1>3, <1>4, <1>5, <1>6, CountSteps

(* Whatever the callers do to the unlocked seqNum, no command carries a    *)
(* number before its turn (sendCommand).                                   *)
THEOREM NotAheadCorrect == Spec => []NumbersNotAhead
<1>1. CountInv => NumbersNotAhead
  BY DEF CountInv
<1>. QED  BY <1>1, CountInit, CountNext, PTL DEF Spec

(***************************************************************************)
(* Calls that do not overlap.  The command sent as number i carries i - 1, *)
(* cut to a byte, and seqNum is the number of commands, up to the one      *)
(* being counted.                                                          *)
(***************************************************************************)
Counted ==
  /\ \A i \in 1 .. accepted : numbers[i] = SeqByte(i - 1)
  /\ Sending = {} => seqNum = accepted
  /\ \A t \in Callers :
       /\ pc[t] = "send" => seqNum = accepted /\ register[t] = SeqByte(accepted)
       /\ pc[t] = "load" => seqNum + 1 = accepted
       /\ pc[t] = "store" => register[t] + 1 = accepted

LEMMA CountedInit == Init => Counted
  BY DEF Init, Counted, FirstNumber, Out!Init

(* A caller that sends, and no other.                                      *)
LEMMA OneSending ==
  ASSUME OneSends, NEW t \in Callers, pc[t] \in {"send", "load", "store"}
  PROVE  \A u \in Callers \ {t} : pc[u] \notin {"send", "load", "store"}
  BY DEF OneSends, Sending

LEMMA CountedNext == CountInv /\ Counted /\ OneSends /\ OneSends' /\ [Next]_vars => Counted'
<1>. SUFFICES ASSUME CountInv, Counted, OneSends, OneSends', [Next]_vars PROVE Counted'
  OBVIOUS
<1>0. Counters
  BY DEF CountInv
<1>1. ASSUME NEW t \in Callers, Generate(t) PROVE Counted'
  <2>1. /\ accepted' = accepted /\ seqNum' = seqNum /\ numbers' = numbers
        /\ register' = [register EXCEPT ![t] = SeqByte(seqNum)]
        /\ pc' = [pc EXCEPT ![t] = "send"] /\ pc[t] = "idle"
    BY <1>1 DEF Generate, Calls, Goto, outbox
  <2>2. pc'[t] = "send" /\ register'[t] = SeqByte(seqNum)
    BY <1>0, <2>1 DEF Counters
  <2>3. \A u \in Callers \ {t} : pc'[u] \notin {"send", "load", "store"} /\ pc'[u] = pc[u]
    BY <1>0, <2>1, <2>2 DEF OneSends, Sending, Counters
  <2>4. Sending = {} /\ Sending' # {}
    BY <2>1, <2>2, <2>3 DEF Sending
  <2>. QED  BY <2>1, <2>2, <2>3, <2>4 DEF Counted
<1>2. ASSUME NEW t \in Callers, Send(t) PROVE Counted'
  <2>1. /\ accepted' = accepted + 1 /\ seqNum' = seqNum /\ register' = register
        /\ numbers' = Append(numbers, register[t])
        /\ pc' = [pc EXCEPT ![t] = "load"] /\ pc[t] = "send"
    BY <1>2 DEF Send, Goto, Out!Accept
  <2>2. seqNum = accepted /\ register[t] = SeqByte(accepted)
    BY <2>1 DEF Counted
  <2>3. ASSUME NEW i \in 1 .. accepted' PROVE numbers'[i] = SeqByte(i - 1)
    <3>1. CASE i = accepted + 1
      <4>1. i - 1 = accepted /\ numbers'[i] = register[t]
        BY <1>0, <2>1, <3>1 DEF Counters
      <4>. QED  BY <2>2, <4>1
    <3>2. CASE i \in 1 .. accepted
      <4>1. numbers'[i] = numbers[i]
        BY <1>0, <2>1, <3>2 DEF Counters
      <4>. QED  BY <3>2, <4>1 DEF Counted
    <3>. QED  BY <1>0, <2>1, <3>1, <3>2 DEF Counters
  <2>4. pc'[t] = "load"
    BY <1>0, <2>1 DEF Counters
  <2>5. \A u \in Callers \ {t} : pc'[u] \notin {"send", "load", "store"}
    BY <1>0, <2>1, OneSending DEF Counters
  <2>6. Sending' # {}
    BY <2>4 DEF Sending
  <2>. QED  BY <2>1, <2>2, <2>3, <2>4, <2>5, <2>6 DEF Counted
<1>3. ASSUME NEW t \in Callers, Load(t) PROVE Counted'
  <2>1. /\ accepted' = accepted /\ seqNum' = seqNum /\ numbers' = numbers
        /\ register' = [register EXCEPT ![t] = seqNum]
        /\ pc' = [pc EXCEPT ![t] = "store"] /\ pc[t] = "load"
    BY <1>3 DEF Load, Goto, outbox
  <2>2. pc'[t] = "store" /\ register'[t] = seqNum
    BY <1>0, <2>1 DEF Counters
  <2>3. \A u \in Callers \ {t} : pc'[u] \notin {"send", "load", "store"}
    BY <1>0, <2>1, OneSending DEF Counters
  <2>4. Sending' # {} /\ seqNum + 1 = accepted
    BY <2>1, <2>2 DEF Sending, Counted
  <2>. QED  BY <2>1, <2>2, <2>3, <2>4 DEF Counted
<1>4. ASSUME NEW t \in Callers, Store(t) PROVE Counted'
  <2>1. /\ accepted' = accepted /\ seqNum' = register[t] + 1 /\ numbers' = numbers
        /\ register' = register
        /\ pc' = [pc EXCEPT ![t] = "idle"] /\ pc[t] = "store"
    BY <1>4 DEF Store, Goto, outbox
  <2>2. pc'[t] = "idle" /\ seqNum' = accepted
    BY <1>0, <2>1 DEF Counters, Counted
  <2>3. \A u \in Callers \ {t} : pc'[u] \notin {"send", "load", "store"}
    BY <1>0, <2>1, OneSending DEF Counters
  <2>. QED  BY <2>1, <2>2, <2>3 DEF Counted
<1>5. ASSUME NEW t \in Callers, ReadResponse(t) \/ TakeResponse(t) PROVE Counted'
  <2>1. /\ accepted' = accepted /\ seqNum' = seqNum /\ numbers' = numbers
        /\ register' = register
        /\ \E label \in {"read", "idle"} : pc' = [pc EXCEPT ![t] = label]
        /\ pc[t] \in {"read", "idle"}
    BY <1>5 DEF ReadResponse, TakeResponse, Calls, Goto, outbox
  <2>2. \A u \in Callers : pc'[u] = pc[u] \/ (u = t /\ pc'[u] \in {"read", "idle"})
    BY <1>0, <2>1 DEF Counters
  <2>3. Sending' = Sending
    BY <2>1, <2>2 DEF Sending
  <2>. QED  BY <2>1, <2>2, <2>3 DEF Counted
<1>6. CASE UNCHANGED counters
  BY <1>6 DEF counters, Counted, Sending
<1>. QED  BY <1>1, <1>2, <1>3, <1>4, <1>5, <1>6, CountSteps

LEMMA RemaindersDiffer ==
  ASSUME NEW b \in Nat \ {0}, NEW i \in Nat, NEW j \in Nat, i < j, j - i < b
  PROVE  i % b # j % b
<1>1. /\ i = b * (i \div b) + (i % b) /\ i \div b \in Int
      /\ j = b * (j \div b) + (j % b) /\ j \div b \in Int
  OBVIOUS
<1>2. SUFFICES ASSUME i % b = j % b PROVE FALSE
  OBVIOUS
<1>3. j - i = b * ((j \div b) - (i \div b))
  BY <1>1, <1>2
<1>4. PICK k \in Int : j - i = b * k
  <2>1. (j \div b) - (i \div b) \in Int
    BY <1>1
  <2>. QED  BY <2>1, <1>3
<1>5. CASE k <= 0
  <2>1. b * k <= 0
    BY <1>5
  <2>. QED  BY <2>1, <1>4
<1>6. CASE k >= 1
  <2>1. b * k >= b
    BY <1>6
  <2>. QED  BY <2>1, <1>4
<1>. QED  BY <1>5, <1>6

LEMMA CountedDistinct ==
  ASSUME CountInv, Counted
  PROVE  NumbersDistinct
<1>. SUFFICES ASSUME NEW i \in 1 .. accepted, NEW j \in 1 .. accepted, i < j, j - i < Base
              PROVE  numbers[i] # numbers[j]
  BY DEF NumbersDistinct
<1>1. accepted \in Nat
  BY DEF CountInv, Counters
<1>2. /\ i - 1 \in Nat /\ j - 1 \in Nat /\ i - 1 < j - 1
      /\ (j - 1) - (i - 1) < Base /\ Base \in Nat \ {0}
  BY <1>1, HandlerAssumption
<1>3. (i - 1) % Base # (j - 1) % Base
  BY <1>2, RemaindersDiffer
<1>. QED  BY <1>3 DEF Counted, SeqByte

(* As long as no two calls of sendCommand() overlap, whichever threads     *)
(* make them, commands less than Base apart carry different numbers.       *)
THEOREM DistinctInTurn == Spec => NumbersDistinctInTurn
<1>1. Init => CountInv /\ Counted
  BY CountInit, CountedInit
<1>2. CountInv /\ [Next]_vars => CountInv'
  BY CountNext
<1>3. CountInv /\ Counted /\ OneSends /\ OneSends' /\ [Next]_vars => Counted'
  BY CountedNext
<1>4. CountInv /\ Counted => NumbersDistinct
  BY CountedDistinct
<1>. QED  BY <1>1, <1>2, <1>3, <1>4, PTL DEF Spec, NumbersDistinctInTurn

(* The calls of one caller do not overlap: its commands less than Base     *)
(* apart carry different numbers (sendCommand).                            *)
THEOREM DistinctCorrect ==
  ASSUME NEW c, Callers = {c}
  PROVE  Spec => []NumbersDistinct
<1>1. OneSends
  BY DEF OneSends, Sending
<1>2. []OneSends
  BY <1>1, PTL
<1>. QED  BY <1>2, DistinctInTurn, PTL DEF NumbersDistinctInTurn

(***************************************************************************)
(* What the connection and the robot hold, whoever calls.                  *)
(***************************************************************************)
Data ==
  /\ ahead \in 1 .. MaxAhead
  /\ wire \in Seq(Nat) /\ broken \in BOOLEAN
  /\ records \in Seq(Nat) /\ taken \in Seq(Nat)
  /\ answered \in Nat /\ chunks \in Seq(Seq(Nat))

data == <<ahead, outbox, inbox, robot>>

(* Of a sequence q, the i-th element and the next replaced by e.           *)
Merged(q, i, e) == SubSeq(q, 1, i - 1) \o <<e>> \o SubSeq(q, i + 2, Len(q))

LEMMA PartShape ==
  ASSUME NEW S, NEW q, NEW lo \in Int, NEW hi \in Int, lo <= hi + 1,
         \A k \in lo .. hi : q[k] \in S
  PROVE  /\ SubSeq(q, lo, hi) \in Seq(S) /\ Len(SubSeq(q, lo, hi)) = hi - lo + 1
         /\ \A k \in 1 .. hi - lo + 1 : SubSeq(q, lo, hi)[k] = q[lo + k - 1]
<1>1. SubSeq(q, lo, hi) \in Seq(S)
  BY SubSeqProperties
<1>2. Len(SubSeq(q, lo, hi)) = hi - lo + 1
  BY SubSeqProperties
<1>3. \A k \in 1 .. hi - lo + 1 : SubSeq(q, lo, hi)[k] = q[lo + k - 1]
  BY SubSeqProperties
<1>. QED  BY <1>1, <1>2, <1>3

IsMerged(r, S, q, i, e) ==
  /\ r \in Seq(S) /\ Len(r) = Len(q) - 1
  /\ \A k \in 1 .. Len(q) - 1 : r[k] = IF k < i THEN q[k] ELSE IF k = i THEN e ELSE q[k + 1]

LEMMA MergedShape ==
  ASSUME NEW S, NEW q \in Seq(S), NEW i \in Nat, 1 <= i, i < Len(q), NEW e \in S
  PROVE  IsMerged(Merged(q, i, e), S, q, i, e)
<1>. DEFINE m     == Len(q)
            left  == SubSeq(q, 1, i - 1)
            both  == <<e>>
            right == SubSeq(q, i + 2, m)
<1>0. m \in Nat /\ i < m /\ \A k \in 1 .. m : q[k] \in S
  OBVIOUS
<1>1. Merged(q, i, e) = (left \o both) \o right
  BY DEF Merged
<1>2. /\ left \in Seq(S) /\ Len(left) = i - 1
      /\ \A k \in 1 .. i - 1 : left[k] = q[k]
  <2>1. i - 1 \in Int /\ 1 <= (i - 1) + 1 /\ \A k \in 1 .. i - 1 : q[k] \in S
    BY <1>0
  <2>2. /\ left \in Seq(S) /\ Len(left) = (i - 1) - 1 + 1
        /\ \A k \in 1 .. (i - 1) - 1 + 1 : left[k] = q[1 + k - 1]
    BY <2>1, PartShape
  <2>3. \A k \in 1 .. i - 1 : k \in 1 .. (i - 1) - 1 + 1 /\ 1 + k - 1 = k
    OBVIOUS
  <2>. QED  BY <2>2, <2>3
<1>3. /\ right \in Seq(S) /\ Len(right) = m - i - 1
      /\ \A k \in 1 .. m - i - 1 : right[k] = q[k + i + 1]
  <2>1. i + 2 \in Int /\ m \in Int /\ i + 2 <= m + 1 /\ \A k \in i + 2 .. m : q[k] \in S
    BY <1>0
  <2>2. /\ right \in Seq(S) /\ Len(right) = m - (i + 2) + 1
        /\ \A k \in 1 .. m - (i + 2) + 1 : right[k] = q[i + 2 + k - 1]
    <3>. HIDE DEF m
    <3>. QED  BY <2>1, PartShape DEF right
  <2>3. \A k \in 1 .. m - i - 1 : k \in 1 .. m - (i + 2) + 1 /\ i + 2 + k - 1 = k + i + 1
    BY <1>0
  <2>. QED  BY <1>0, <2>2, <2>3
<1>4. both \in Seq(S) /\ Len(both) = 1 /\ both[1] = e
  OBVIOUS
<1>. HIDE DEF m, left, right, both
<1>5. /\ left \o both \in Seq(S) /\ Len(left \o both) = i
      /\ \A k \in 1 .. i : (left \o both)[k] = IF k < i THEN q[k] ELSE e
  <2>1. /\ left \o both \in Seq(S) /\ Len(left \o both) = Len(left) + Len(both)
        /\ \A k \in 1 .. Len(left) + Len(both) :
             (left \o both)[k] = IF k <= Len(left) THEN left[k] ELSE both[k - Len(left)]
    BY <1>2, <1>4, ConcatProperties, Zenon
  <2>2. ASSUME NEW k \in 1 .. i
        PROVE  (left \o both)[k] = IF k < i THEN q[k] ELSE e
    <3>1. k \in 1 .. Len(left) + Len(both)
      BY <1>2, <1>4
    <3>2. CASE k < i
      <4>1. k <= Len(left) /\ k \in 1 .. i - 1
        BY <1>2, <3>2
      <4>. QED  BY <1>2, <2>1, <3>1, <3>2, <4>1
    <3>3. CASE k = i
      <4>1. ~(k <= Len(left)) /\ k - Len(left) = 1
        BY <1>2, <3>3
      <4>. QED  BY <1>4, <2>1, <3>1, <3>3, <4>1
    <3>4. k < i \/ k = i
      OBVIOUS
    <3>. QED  BY <3>2, <3>3, <3>4
  <2>. QED  BY <1>2, <1>4, <2>1, <2>2
<1>7. /\ Merged(q, i, e) \in Seq(S)
      /\ Len(Merged(q, i, e)) = Len(left \o both) + Len(right)
      /\ \A k \in 1 .. Len(left \o both) + Len(right) :
           Merged(q, i, e)[k] = IF k <= Len(left \o both) THEN (left \o both)[k]
                                ELSE right[k - Len(left \o both)]
  <2>1. /\ (left \o both) \o right \in Seq(S)
        /\ Len((left \o both) \o right) = Len(left \o both) + Len(right)
        /\ \A k \in 1 .. Len(left \o both) + Len(right) :
             ((left \o both) \o right)[k] = IF k <= Len(left \o both) THEN (left \o both)[k]
                                           ELSE right[k - Len(left \o both)]
    BY <1>3, <1>5, ConcatProperties, Zenon
  <2>. QED  BY <1>1, <2>1, Zenon
<1>8. ASSUME NEW k \in 1 .. m - 1
      PROVE  Merged(q, i, e)[k] = IF k < i THEN q[k] ELSE IF k = i THEN e ELSE q[k + 1]
  <2>1. k \in 1 .. Len(left \o both) + Len(right)
    BY <1>0, <1>3, <1>5
  <2>2. CASE k <= i
    <3>1. k \in 1 .. i /\ k <= Len(left \o both)
      BY <1>5, <2>2
    <3>2. Merged(q, i, e)[k] = (left \o both)[k]
      BY <1>7, <2>1, <3>1
    <3>. QED  BY <1>5, <2>2, <3>1, <3>2
  <2>3. CASE k > i
    <3>1. k - i \in 1 .. m - i - 1 /\ (k - i) + i + 1 = k + 1 /\ ~(k <= i) /\ ~(k < i) /\ k # i
      BY <1>0, <2>3
    <3>2. Merged(q, i, e)[k] = right[k - i]
      BY <1>5, <1>7, <2>1, <3>1
    <3>. QED  BY <1>3, <3>1, <3>2
  <2>4. k <= i \/ k > i
    BY <1>0
  <2>. QED  BY <2>2, <2>3, <2>4
<1>9. Len(left \o both) + Len(right) = m - 1
  BY <1>0, <1>3, <1>5
<1>. QED  BY <1>7, <1>8, <1>9, Zenon DEF m, IsMerged

(* The steps that touch the data, each named with what it needs of it.     *)
LEMMA DataSteps ==
  ASSUME [Next]_vars
  PROVE  \/ \E t \in Callers : Send(t) \/ TakeResponse(t)
         \/ Transmit \/ Break \/ Deliver \/ Answer \/ Speak \/ Join
         \/ UNCHANGED data
<1>. USE DEF data
<1>1. CASE Constructor
  BY <1>1 DEF Constructor, ConnectFails, ThreadFails, AttemptFails, Connect, Retry, calls
<1>2. ASSUME NEW t \in Callers, Generate(t) \/ Load(t) \/ Store(t) \/ ReadResponse(t)
      PROVE  UNCHANGED data
  BY <1>2 DEF Generate, Load, Store, ReadResponse
<1>3. CASE UNCHANGED vars
  BY <1>3 DEF vars, calls
<1>. QED  BY <1>1, <1>2, <1>3 DEF Next, Continue

LEMMA JoinSteps ==
  ASSUME Data, Join
  PROVE  \E i \in Nat : /\ 1 <= i /\ i < Len(chunks) /\ i > In!Delivered
                         /\ chunks[i] \in Seq(Nat) /\ chunks[i + 1] \in Seq(Nat)
                         /\ chunks[i] \o chunks[i + 1] \in Seq(Nat)
                         /\ chunks' = Merged(chunks, i, chunks[i] \o chunks[i + 1])
<1>1. PICK i \in DOMAIN chunks :
        /\ i > In!Delivered /\ i + 1 \in DOMAIN chunks
        /\ chunks' = Merged(chunks, i, chunks[i] \o chunks[i + 1])
  BY DEF Join, Merged
<1>2. chunks \in Seq(Seq(Nat)) /\ DOMAIN chunks = 1 .. Len(chunks) /\ Len(chunks) \in Nat
  BY DEF Data
<1>3. i \in Nat /\ 1 <= i /\ i < Len(chunks)
  BY <1>1, <1>2
<1>4. chunks[i] \in Seq(Nat) /\ chunks[i + 1] \in Seq(Nat)
  BY <1>1, <1>2, ElementOfSeq
<1>5. chunks[i] \o chunks[i + 1] \in Seq(Nat)
  BY <1>4, ConcatProperties
<1>. QED  BY <1>1, <1>3, <1>4, <1>5

LEMMA DataInit == Init => Data
<1>. SUFFICES ASSUME Init PROVE Data
  OBVIOUS
<1>1. wire = <<>> /\ records = <<>> /\ taken = <<>> /\ chunks = <<>>
  BY DEF Init, Out!Init, In!Init
<1>2. <<>> \in Seq(Nat) /\ <<>> \in Seq(Seq(Nat))
  BY EmptySeq
<1>. QED  BY <1>1, <1>2 DEF Init, Data, Out!Init

LEMMA DataNext == CountInv /\ Data /\ [Next]_vars => Data'
<1>. SUFFICES ASSUME CountInv, Data, [Next]_vars PROVE Data'
  OBVIOUS
<1>. USE DEF Data
<1>1. ASSUME NEW t \in Callers, Send(t) PROVE Data'
  BY <1>1 DEF Send, Out!Accept, inbox, robot
<1>2. ASSUME NEW t \in Callers, TakeResponse(t) PROVE Data'
  <2>1. /\ records # <<>> /\ taken' = Append(taken, records[Len(records)])
        /\ records' = SubSeq(records, 1, Len(records) - 1)
        /\ UNCHANGED <<ahead, outbox, robot>>
    BY <1>2 DEF TakeResponse, In!Take
  <2>2. Len(records) \in Nat /\ Len(records) # 0
    BY <2>1
  <2>3. Len(records) \in 1 .. Len(records)
    BY <2>2
  <2>4. records[Len(records)] \in Nat
    BY <2>3
  <2>5. records' \in Seq(Nat)
    <3>1. \A k \in 1 .. Len(records) - 1 : records[k] \in Nat
      BY <2>2
    <3>. QED  BY <2>1, <2>2, <3>1, SubSeqProperties
  <2>6. taken' \in Seq(Nat)
    BY <2>1, <2>4
  <2>. QED  BY <2>1, <2>5, <2>6 DEF outbox, robot
<1>3. CASE Transmit
  BY <1>3 DEF Transmit, Out!Transmit, calls, inbox, robot
<1>4. CASE Break
  BY <1>4 DEF Break, Out!Break, calls, inbox, robot
<1>5. CASE Deliver
  <2>1. /\ records' = Append(records, Len(records) + Len(taken) + 1)
        /\ UNCHANGED <<ahead, wire, broken, taken, answered, chunks>>
    BY <1>5 DEF Deliver, In!Deliver, In!Delivered, calls, outbox, robot
  <2>2. Len(records) + Len(taken) + 1 \in Nat
    OBVIOUS
  <2>. QED  BY <2>1, <2>2
<1>6. CASE Answer
  BY <1>6 DEF Answer, calls, outbox, inbox
<1>7. CASE Speak
  BY <1>7 DEF Speak, calls, outbox, inbox, Unasked
<1>8. CASE Join
  <2>1. UNCHANGED <<ahead, wire, broken, records, taken, answered>>
    BY <1>8 DEF Join, calls, outbox, inbox
  <2>2. PICK i \in Nat : /\ 1 <= i /\ i < Len(chunks)
                         /\ chunks[i] \o chunks[i + 1] \in Seq(Nat)
                         /\ chunks' = Merged(chunks, i, chunks[i] \o chunks[i + 1])
    BY <1>8, JoinSteps
  <2>4. chunks' \in Seq(Seq(Nat))
    BY <2>2, MergedShape, Zenon DEF IsMerged
  <2>. QED  BY <2>1, <2>4
<1>9. CASE UNCHANGED data
  BY <1>9 DEF data, outbox, inbox, robot
<1>. QED  BY <1>1, <1>2, <1>3, <1>4, <1>5, <1>6, <1>7, <1>8, <1>9, DataSteps

(* Every variable keeps its type: the constructor stops at its last        *)
(* attempt, a number of a command is a byte, and there are as many of them *)
(* as commands (SpheroHandler, sendCommand).                               *)
THEOREM TypeCorrect == Spec => []TypeOK
<1>1. Init => StageInv /\ CountInv /\ Data
  BY StageInit, CountInit, DataInit
<1>2. StageInv /\ CountInv /\ Data /\ [Next]_vars => StageInv' /\ CountInv' /\ Data'
  BY StageNext, CountNext, DataNext
<1>3. StageInv /\ CountInv /\ Data => TypeOK
  BY DEF StageInv, CountInv, Counters, Labels, Data, TypeOK
<1>. QED  BY <1>1, <1>2, <1>3, PTL DEF Spec

(***************************************************************************)
(* An application that alternates with a robot that says nothing unasked.  *)
(* It has sent at most one command more than it has read responses, so     *)
(* every chunk is the one answer to a command, at most one record waits,   *)
(* and that is the answer to the command sent last.                        *)
(***************************************************************************)
Answered ==
  /\ Len(chunks) = answered
  /\ \A i \in DOMAIN chunks : chunks[i] = <<i>>
  /\ answered <= Len(wire) /\ Len(wire) <= accepted

Alternates(c) ==
  /\ accepted <= Len(taken) + 1
  /\ pc[c] = "send" => accepted <= Len(taken)
  /\ Len(records) + Len(taken) <= Len(chunks)
  /\ \A k \in DOMAIN records : records[k] = Len(taken) + 1

InStep(c) == ahead = 1 /\ Quiet => Answered /\ Alternates(c)

LEMMA InStepInit == ASSUME NEW c \in Callers PROVE Init => InStep(c)
<1>. SUFFICES ASSUME Init PROVE Answered /\ Alternates(c)
  BY DEF InStep
<1>1. /\ accepted = 0 /\ answered = 0 /\ pc[c] = "idle"
      /\ wire = <<>> /\ records = <<>> /\ taken = <<>> /\ chunks = <<>>
  BY DEF Init, Out!Init, In!Init
<1>. QED  BY <1>1 DEF Answered, Alternates

LEMMA ConcatLeft ==
  ASSUME NEW S, NEW a \in Seq(S), NEW b \in Seq(S)
  PROVE  \A j \in DOMAIN a : \E k \in DOMAIN (a \o b) : (a \o b)[k] = a[j]
<1>. DEFINE m == Len(a)
            n == Len(b)
<1>1. /\ m \in Nat /\ n \in Nat /\ DOMAIN a = 1 .. m /\ DOMAIN (a \o b) = 1 .. m + n
      /\ \A j \in 1 .. m + n : (a \o b)[j] = IF j <= m THEN a[j] ELSE b[j - m]
  OBVIOUS
<1>. HIDE DEF m, n
<1>2. ASSUME NEW j \in 1 .. m PROVE j \in 1 .. m + n /\ (a \o b)[j] = a[j]
  BY <1>1
<1>. QED  BY <1>1, <1>2

LEMMA ConcatRight ==
  ASSUME NEW S, NEW a \in Seq(S), NEW b \in Seq(S)
  PROVE  \A j \in DOMAIN b : \E k \in DOMAIN (a \o b) : (a \o b)[k] = b[j]
<1>. DEFINE m == Len(a)
            n == Len(b)
            c == a \o b
<1>1. /\ m \in Nat /\ n \in Nat /\ DOMAIN b = 1 .. n /\ DOMAIN c = 1 .. m + n
      /\ \A j \in 1 .. m + n : c[j] = IF j <= m THEN a[j] ELSE b[j - m]
  OBVIOUS
<1>. HIDE DEF m, n, c
<1>2. ASSUME NEW j \in 1 .. n PROVE j + m \in 1 .. m + n /\ c[j + m] = b[j]
  <2>1. j + m \in 1 .. m + n /\ ~(j + m <= m) /\ (j + m) - m = j
    BY <1>1
  <2>. QED  BY <1>1, <2>1
<1>3. \A j \in DOMAIN b : \E k \in DOMAIN c : c[k] = b[j]
  BY <1>1, <1>2
<1>. QED  BY <1>3 DEF c

LEMMA MergedKeeps ==
  ASSUME NEW S, NEW q \in Seq(S), NEW i \in Nat, 1 <= i, i < Len(q), NEW e \in S,
         NEW k \in DOMAIN q
  PROVE  /\ i \in DOMAIN Merged(q, i, e) /\ Merged(q, i, e)[i] = e
         /\ k \in {i, i + 1} \/ \E l \in DOMAIN Merged(q, i, e) : Merged(q, i, e)[l] = q[k]
<1>. DEFINE m == Len(q)
            r == Merged(q, i, e)
<1>1. r \in Seq(S) /\ Len(r) = m - 1
      /\ \A l \in 1 .. m - 1 : r[l] = IF l < i THEN q[l] ELSE IF l = i THEN e ELSE q[l + 1]
  <2>1. IsMerged(r, S, q, i, e)
    BY MergedShape, Zenon
  <2>. HIDE DEF r
  <2>. QED  BY <2>1, Zenon DEF IsMerged
<1>2. m \in Nat /\ i < m /\ k \in 1 .. m
  OBVIOUS
<1>. HIDE DEF m, r
<1>3. DOMAIN r = 1 .. m - 1
  BY <1>1
<1>4. i \in DOMAIN r /\ r[i] = e
  BY <1>1, <1>2, <1>3
<1>5. CASE k < i
  <2>1. k \in 1 .. m - 1
    BY <1>2, <1>5
  <2>. QED  BY <1>1, <1>3, <1>4, <1>5, <2>1 DEF r
<1>6. CASE k > i + 1
  <2>1. k - 1 \in 1 .. m - 1 /\ ~(k - 1 < i) /\ k - 1 # i /\ (k - 1) + 1 = k
    BY <1>2, <1>6
  <2>2. r[k - 1] = q[k]
    BY <1>1, <2>1
  <2>. QED  BY <1>3, <1>4, <2>1, <2>2 DEF r
<1>7. k < i \/ k > i + 1 \/ k \in {i, i + 1}
  BY <1>2
<1>. QED  BY <1>4, <1>5, <1>6, <1>7 DEF r

(* What the robot has said stays said, also when it is merged.             *)
LEMMA QuietBefore ==
  ASSUME Data, Data', [Next]_vars, Quiet'
  PROVE  Quiet
<1>1. CASE Answer \/ Speak
  <2>1. PICK e \in Seq(Nat) : chunks' = Append(chunks, e)
    <3>1. answered + 1 \in Nat /\ Unasked \in Nat
      BY DEF Data, Unasked
    <3>2. ASSUME NEW n \in Nat PROVE <<n>> \in Seq(Nat)
      OBVIOUS
    <3>3. <<answered + 1>> \in Seq(Nat) /\ <<Unasked>> \in Seq(Nat)
      BY <3>1, <3>2, Zenon
    <3>. QED  BY <1>1, <3>3 DEF Answer, Speak
  <2>2. ASSUME NEW i \in DOMAIN chunks PROVE i \in DOMAIN chunks' /\ chunks'[i] = chunks[i]
    BY <2>1, AppendProperties DEF Data
  <2>. QED  BY <2>2 DEF Quiet
<1>2. CASE Join
  <2>1. PICK i \in Nat : /\ 1 <= i /\ i < Len(chunks)
                         /\ chunks[i] \in Seq(Nat) /\ chunks[i + 1] \in Seq(Nat)
                         /\ chunks[i] \o chunks[i + 1] \in Seq(Nat)
                         /\ chunks' = Merged(chunks, i, chunks[i] \o chunks[i + 1])
    BY <1>2, JoinSteps
  <2>. DEFINE e == chunks[i] \o chunks[i + 1]
  <2>2. ASSUME NEW k \in DOMAIN chunks
        PROVE  /\ i \in DOMAIN chunks' /\ chunks'[i] = e
               /\ k \in {i, i + 1} \/ \E l \in DOMAIN chunks' : chunks'[l] = chunks[k]
    <3>. DEFINE M == Seq(Nat)
                r == Merged(chunks, i, e)
    <3>1. chunks \in Seq(M) /\ e \in M /\ i < Len(chunks) /\ 1 <= i
      BY <2>1 DEF Data
    <3>. HIDE DEF M, e
    <3>2. /\ i \in DOMAIN r /\ r[i] = e
          /\ k \in {i, i + 1} \/ \E l \in DOMAIN r : r[l] = chunks[k]
      BY <3>1, MergedKeeps
    <3>. QED  BY <2>1, <3>2 DEF e
  <2>3. 1 \in DOMAIN chunks
    BY <2>1 DEF Data
  <2>4. \A j \in DOMAIN e : e[j] # Unasked
    <3>1. i \in DOMAIN chunks' /\ chunks'[i] = e
      BY <2>2, <2>3
    <3>. QED  BY <3>1, Zenon DEF Quiet
  <2>5. /\ \A j \in DOMAIN chunks[i] : chunks[i][j] # Unasked
        /\ \A j \in DOMAIN chunks[i + 1] : chunks[i + 1][j] # Unasked
    <3>1. PICK a \in Seq(Nat), b \in Seq(Nat) : a = chunks[i] /\ b = chunks[i + 1]
      BY <2>1
    <3>2. \A j \in DOMAIN a : \E k \in DOMAIN (a \o b) : (a \o b)[k] = a[j]
      BY ConcatLeft
    <3>3. \A j \in DOMAIN b : \E k \in DOMAIN (a \o b) : (a \o b)[k] = b[j]
      BY ConcatRight
    <3>4. \A j \in DOMAIN (a \o b) : (a \o b)[j] # Unasked
      <4>1. e = a \o b
        BY <3>1, Zenon
      <4>. QED  BY <2>4, <4>1, Zenon
    <3>5. (\A j \in DOMAIN a : a[j] # Unasked) /\ (\A j \in DOMAIN b : b[j] # Unasked)
      BY <3>2, <3>3, <3>4, Zenon
    <3>. QED  BY <3>1, <3>5, Zenon
  <2>6. ASSUME NEW k \in DOMAIN chunks PROVE \A j \in DOMAIN chunks[k] : chunks[k][j] # Unasked
    <3>1. CASE k \in {i, i + 1}
      BY <2>5, <3>1
    <3>2. CASE k \notin {i, i + 1}
      BY <2>2, <3>2, Zenon DEF Quiet
    <3>. QED  BY <3>1, <3>2
  <2>. QED  BY <2>6, Zenon DEF Quiet
<1>3. CASE UNCHANGED chunks
  BY <1>3 DEF Quiet
<1>4. ASSUME NEW t \in Callers, Send(t) \/ TakeResponse(t) PROVE UNCHANGED chunks
  BY <1>4 DEF Send, TakeResponse, robot
<1>5. CASE Transmit \/ Break \/ Deliver
  BY <1>3, <1>5 DEF Transmit, Break, Deliver, robot
<1>6. CASE UNCHANGED data
  BY <1>3, <1>6 DEF data, robot
<1>. QED  BY <1>1, <1>2, <1>3, <1>4, <1>5, <1>6, DataSteps

LEMMA InStepNext ==
  ASSUME NEW c, Callers = {c}
  PROVE  CountInv /\ Data /\ Data' /\ InStep(c) /\ [Next]_vars => InStep(c)'
<1>. SUFFICES ASSUME CountInv, Data, Data', InStep(c), [Next]_vars, (ahead = 1)', Quiet'
              PROVE  Answered' /\ Alternates(c)'
  BY DEF InStep
<1>0. Counters
  BY DEF CountInv
<1>1. ahead' = ahead
  <2>1. CASE UNCHANGED vars
    BY <2>1 DEF vars, calls
  <2>2. CASE Constructor
    BY <2>2 DEF Constructor, ConnectFails, ThreadFails, AttemptFails, Connect, Retry, calls
  <2>3. ASSUME NEW t \in Callers, Generate(t) \/ ReadResponse(t) \/ Continue(t) PROVE ahead' = ahead
    BY <2>3 DEF Generate, ReadResponse, Continue, Send, Load, Store, TakeResponse
  <2>4. CASE Transmit \/ Break \/ Deliver \/ Answer \/ Speak \/ Join
    BY <2>4 DEF Transmit, Break, Deliver, Answer, Speak, Join, calls
  <2>. QED  BY <2>1, <2>2, <2>3, <2>4 DEF Next
<1>2. Answered /\ Alternates(c) /\ ahead = 1
  BY <1>1, QuietBefore DEF InStep
<1>3. /\ Len(chunks) \in Nat /\ Len(wire) \in Nat /\ Len(records) \in Nat /\ Len(taken) \in Nat
      /\ answered \in Nat /\ accepted \in Nat
  BY <1>0 DEF Counters, Data
(* At most one record waits, and nothing more is on its way.               *)
<1>4. /\ Len(chunks) <= Len(taken) + 1 /\ Len(records) <= 1
      /\ DOMAIN records = 1 .. Len(records)
  BY <1>2, <1>3 DEF Answered, Alternates, Data
<1>5. CASE UNCHANGED <<answered, chunks, wire, accepted, taken, records, pc>>
  BY <1>2, <1>5 DEF Answered, Alternates
<1>6. CASE Constructor
  BY <1>5, <1>6 DEF Constructor, ConnectFails, ThreadFails, AttemptFails, Connect, Retry,
                   calls, outbox, inbox, robot
<1>7. CASE Generate(c)
  <2>1. /\ UNCHANGED <<answered, chunks, wire, accepted, taken, records>>
        /\ accepted - Len(taken) < ahead
    BY <1>7 DEF Generate, Owed, outbox, inbox, robot
  <2>2. accepted <= Len(taken)
    BY <1>2, <1>3, <2>1
  <2>. QED  BY <1>2, <2>1, <2>2 DEF Answered, Alternates
<1>8. CASE Send(c)
  <2>1. /\ accepted' = accepted + 1 /\ pc' = [pc EXCEPT ![c] = "load"] /\ pc[c] = "send"
        /\ UNCHANGED <<answered, chunks, wire, taken, records>>
    BY <1>8 DEF Send, Goto, Out!Accept, inbox, robot
  <2>2. pc'[c] = "load"
    BY <1>0, <2>1 DEF Counters
  <2>3. accepted' <= Len(taken') + 1 /\ Len(wire') <= accepted'
    BY <1>2, <1>3, <2>1 DEF Answered, Alternates
  <2>4. Answered'
    BY <1>2, <2>1, <2>3 DEF Answered
  <2>. QED  BY <1>2, <2>1, <2>2, <2>3, <2>4 DEF Alternates
<1>9. CASE Load(c) \/ Store(c) \/ ReadResponse(c)
  <2>1. /\ UNCHANGED <<answered, chunks, wire, accepted, taken, records>>
        /\ \E label \in Labels \ {"send"} : pc' = [pc EXCEPT ![c] = label]
    BY <1>9 DEF Load, Store, ReadResponse, Goto, Labels, outbox, inbox, robot
  <2>2. pc'[c] # "send"
    BY <1>0, <2>1 DEF Counters
  <2>. QED  BY <1>2, <2>1, <2>2 DEF Answered, Alternates
<1>10. CASE TakeResponse(c)
  <2>1. /\ records # <<>> /\ taken' = Append(taken, records[Len(records)])
        /\ records' = SubSeq(records, 1, Len(records) - 1)
        /\ pc' = [pc EXCEPT ![c] = "idle"]
        /\ UNCHANGED <<answered, chunks, wire, accepted>>
    BY <1>10 DEF TakeResponse, In!Take, Goto, outbox, robot
  <2>2. Len(records) = 1
    <3>1. Len(records) # 0
      BY <2>1 DEF Data
    <3>. QED  BY <1>3, <1>4, <3>1
  <2>3. records' = <<>> /\ Len(records') = 0
    BY <2>1, <2>2
  <2>4. Len(taken') = Len(taken) + 1
    <3>1. Len(records) \in 1 .. Len(records) /\ records \in Seq(Nat) /\ taken \in Seq(Nat)
      BY <2>2 DEF Data
    <3>2. records[Len(records)] \in Nat
      BY <3>1, ElementOfSeq
    <3>. QED  BY <2>1, <3>1, <3>2, AppendProperties
  <2>5. pc'[c] = "idle"
    BY <1>0, <2>1 DEF Counters
  <2>6. accepted' <= Len(taken') + 1 /\ Len(records') + Len(taken') <= Len(chunks')
    BY <1>2, <1>3, <2>1, <2>2, <2>3, <2>4 DEF Alternates
  <2>7. Answered'
    BY <1>2, <2>1 DEF Answered
  <2>. QED  BY <2>3, <2>5, <2>6, <2>7 DEF Alternates
<1>11. CASE Transmit
  <2>1. /\ Len(wire) < accepted /\ wire' = Append(wire, Len(wire) + 1)
        /\ UNCHANGED <<answered, chunks, accepted, taken, records, pc>>
    BY <1>11 DEF Transmit, Out!Transmit, calls, inbox, robot
  <2>2. Len(wire') = Len(wire) + 1
    BY <1>3, <2>1 DEF Data
  <2>3. answered' <= Len(wire') /\ Len(wire') <= accepted'
    BY <1>2, <1>3, <2>1, <2>2 DEF Answered
  <2>. QED  BY <1>2, <2>1, <2>3 DEF Answered, Alternates
<1>12. CASE Break
  BY <1>5, <1>12 DEF Break, Out!Break, calls, inbox, robot
<1>13. CASE Deliver
  <2>1. /\ Len(records) + Len(taken) < Len(chunks)
        /\ records' = Append(records, Len(records) + Len(taken) + 1)
        /\ UNCHANGED <<answered, chunks, wire, accepted, taken, pc>>
    BY <1>13 DEF Deliver, In!Deliver, In!Delivered, calls, outbox, robot
  <2>2. Len(records) = 0 /\ Len(records) + Len(taken) + 1 = Len(taken) + 1
    BY <1>3, <1>4, <2>1
  <2>3. records = <<>>
    BY <2>2 DEF Data
  <2>4. records' = <<Len(taken) + 1>>
    BY <2>1, <2>2, <2>3
  <2>5. Len(records') + Len(taken') <= Len(chunks') /\ \A k \in DOMAIN records' : records'[k] = Len(taken') + 1
    <3>1. Len(records') = 1 /\ \A k \in DOMAIN records' : records'[k] = Len(taken) + 1
      BY <2>4
    <3>. QED  BY <1>3, <2>1, <2>2, <3>1
  <2>. QED  BY <1>2, <2>1, <2>5 DEF Answered, Alternates
<1>14. CASE Answer
  <2>1. /\ answered < Len(wire) /\ answered' = answered + 1
        /\ chunks' = Append(chunks, <<answered + 1>>)
        /\ UNCHANGED <<wire, accepted, taken, records, pc>>
    BY <1>14 DEF Answer, calls, outbox, inbox
  <2>. DEFINE M == Seq(Nat)
              e == <<answered + 1>>
  <2>2. chunks \in Seq(M) /\ e \in M
    BY <1>3 DEF Data
  <2>. HIDE DEF M, e
  <2>3. /\ Len(chunks') = Len(chunks) + 1
        /\ \A k \in 1 .. Len(chunks) : chunks'[k] = chunks[k]
        /\ chunks'[Len(chunks) + 1] = e
        /\ DOMAIN chunks = 1 .. Len(chunks) /\ DOMAIN chunks' = 1 .. Len(chunks) + 1
    <3>1. chunks' = Append(chunks, e)
      BY <2>1 DEF e
    <3>2. chunks' \in Seq(M)
      BY <2>2, <3>1
    <3>. QED  BY <2>2, <3>1, <3>2, AppendProperties
  <2>4. ASSUME NEW k \in DOMAIN chunks' PROVE chunks'[k] = <<k>>
    <3>1. CASE k = Len(chunks) + 1
      <4>1. k = answered + 1
        BY <1>2, <3>1 DEF Answered
      <4>. QED  BY <2>3, <3>1, <4>1 DEF e
    <3>2. CASE k # Len(chunks) + 1
      <4>1. k \in 1 .. Len(chunks)
        BY <1>3, <2>3, <3>2
      <4>. QED  BY <1>2, <2>3, <4>1 DEF Answered
    <3>. QED  BY <3>1, <3>2
  <2>5. /\ Len(chunks') = answered' /\ answered' <= Len(wire') /\ Len(wire') <= accepted'
        /\ Len(records') + Len(taken') <= Len(chunks')
    BY <1>2, <1>3, <2>1, <2>3 DEF Answered, Alternates
  <2>. QED  BY <1>2, <2>1, <2>4, <2>5 DEF Answered, Alternates
(* What is said unasked is not quiet, and there is nothing to merge.       *)
<1>15. CASE Speak
  <2>1. chunks' = Append(chunks, <<Unasked>>)
    BY <1>15 DEF Speak
  <2>. DEFINE M == Seq(Nat)
              e == <<Unasked>>
  <2>2. chunks \in Seq(M) /\ e \in M /\ e[1] = Unasked /\ DOMAIN e = {1}
    BY <1>3 DEF Data, Unasked
  <2>. HIDE DEF M, e
  <2>3. Len(chunks) + 1 \in DOMAIN chunks' /\ chunks'[Len(chunks) + 1] = e
    <3>1. chunks' = Append(chunks, e)
      BY <2>1 DEF e
    <3>. QED  BY <2>2, <3>1
  <2>. QED  BY <2>2, <2>3 DEF Quiet
<1>16. CASE Join
  <2>1. PICK i \in Nat : i < Len(chunks) /\ i > Len(records) + Len(taken)
    BY <1>16, JoinSteps DEF In!Delivered
  <2>. QED  BY <1>3, <1>4, <2>1
<1>17. CASE UNCHANGED vars
  BY <1>5, <1>17 DEF vars, calls, outbox, inbox, robot
<1>. QED  BY <1>6, <1>7, <1>8, <1>9, <1>10, <1>11, <1>12, <1>13, <1>14, <1>15, <1>16, <1>17
          DEF Next, Continue

(* What a reader in step takes is the answer to the latest command.        *)
LEMMA InStepMatches ==
  ASSUME NEW c, Callers = {c}, CountInv, Data, InStep(c)
  PROVE  ahead = 1 /\ Quiet => AnswersLast
<1>. SUFFICES ASSUME ahead = 1, Quiet, TakeResponse(c)
              PROVE  Head(chunks[records[Len(records)]]) = accepted
  BY DEF AnswersLast
<1>1. Answered /\ Alternates(c) /\ records # <<>>
  BY DEF InStep, TakeResponse, In!Take
<1>2. /\ Len(chunks) \in Nat /\ Len(records) \in Nat /\ Len(taken) \in Nat /\ Len(wire) \in Nat
      /\ accepted \in Nat /\ answered \in Nat
      /\ DOMAIN chunks = 1 .. Len(chunks) /\ DOMAIN records = 1 .. Len(records) /\ Len(records) # 0
  BY <1>1 DEF CountInv, Counters, Data
<1>3. Len(records) \in DOMAIN records
  BY <1>2
<1>4. records[Len(records)] = Len(taken) + 1
  BY <1>1, <1>3 DEF Alternates
<1>5. Len(taken) + 1 = accepted /\ accepted \in 1 .. Len(chunks)
  BY <1>1, <1>2 DEF Answered, Alternates
<1>6. chunks[accepted] = <<accepted>>
  BY <1>1, <1>2, <1>5 DEF Answered
<1>. QED  BY <1>4, <1>5, <1>6

(* An application that alternates in one thread reads from readResponse()  *)
(* the answer to its latest command, as long as the robot says nothing     *)
(* unasked, through every delay, retry and loss of the connection.         *)
THEOREM ResponseCorrect ==
  ASSUME NEW c, Callers = {c}
  PROVE  Spec => ResponseMatches
<1>1. Init => CountInv /\ Data /\ InStep(c)
  BY CountInit, DataInit, InStepInit
<1>2. CountInv /\ Data /\ InStep(c) /\ [Next]_vars => CountInv' /\ Data' /\ InStep(c)'
  BY CountNext, DataNext, InStepNext
<1>3. CountInv /\ Data /\ InStep(c) => [ahead = 1 /\ Quiet => AnswersLast]_vars
  BY InStepMatches
<1>. QED  BY <1>1, <1>2, <1>3, PTL DEF Spec, ResponseMatches
=============================================================================
