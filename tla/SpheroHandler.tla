---------------------------- MODULE SpheroHandler ----------------------------
(***************************************************************************)
(* SpheroHandler (btconn/SpheroHandler.h, src/SpheroHandler.cpp): a robot  *)
(* behind a BtConnection, of which this module uses the promises: Outbox   *)
(* for send(), Inbox for read().  A command is the number of its send()    *)
(* call, an answer the command it answers, Unasked for a message of the    *)
(* robot's own.                                                            *)
(***************************************************************************)
EXTENDS Naturals, FiniteSets, SequencesExt

CONSTANTS
  Callers,     \* threads that use the handler
  Base,        \* number of sequence numbers, 256 in the code
  RETRY,       \* CONNECTION_RETRY
  MaxAhead,    \* bound: commands an application sends ahead of its reads
  MaxSends,    \* bound: number of commands
  MaxUnasked   \* bound: number of messages the robot sends unasked

ASSUME HandlerAssumption ==
  /\ Base \in Nat \ {0} /\ RETRY \in Nat
  /\ MaxAhead \in Nat /\ MaxSends \in Nat /\ MaxUnasked \in Nat

VARIABLES
  stage,     \* of the constructor: trying, asleep, ready or refused
  attempt,   \* its loop variable
  connected, \* connected_ of the connection
  iothread,  \* whether its thread runs
  ahead,     \* commands this application sends ahead of its reads
  seqNum,
  pc,        \* where each caller is
  register,  \* the sequence number each caller has read
  numbers,   \* the sequence number of each command
  accepted, wire, broken,  \* the connection's Outbox
  records, taken,          \* the connection's Inbox
  answered,  \* number of commands the robot has answered
  chunks     \* what reaches the host: the answers in each chunk

handler == <<stage, attempt, connected, iothread>>
calls   == <<ahead, seqNum, pc, register, numbers>>
outbox  == <<accepted, wire, broken>>
inbox   == <<records, taken>>
robot   == <<answered, chunks>>
vars    == <<handler, calls, outbox, inbox, robot>>

Unasked == 0
MaxChunks == MaxSends + MaxUnasked

Out == INSTANCE Outbox
In  == INSTANCE Inbox

Bug_FirstNumber == 1

FirstNumber == 0

(* Without an address the constructor returns at once, unconnected.        *)
Init ==
  /\ stage \in {"trying", "ready"} /\ attempt = 0
  /\ connected = FALSE /\ iothread = FALSE
  /\ ahead \in 1 .. MaxAhead
  /\ seqNum = FirstNumber /\ numbers = <<>>
  /\ pc = [t \in Callers |-> "idle"] /\ register = [t \in Callers |-> 0]
  /\ Out!Init /\ In!Init
  /\ answered = 0 /\ chunks = <<>>

Goto(t, label) == pc' = [pc EXCEPT ![t] = label]

-----------------------------------------------------------------------------
(* The constructor.                                                        *)

Bug_LastAttempt == attempt > RETRY

LastAttempt == attempt = RETRY

(* Either catch block, of which the last throws NotConnectedException.     *)
AttemptFails ==
  /\ stage' = IF LastAttempt THEN "refused" ELSE "asleep"
  /\ UNCHANGED <<attempt, iothread, calls, outbox, inbox, robot>>

(* A socket that is connected refuses to connect again.                    *)
ConnectFails ==
  /\ stage = "trying"
  /\ UNCHANGED connected
  /\ AttemptFails

ThreadFails ==
  /\ stage = "trying" /\ ~connected
  /\ connected' = TRUE
  /\ AttemptFails

Bug_Connect ==
  /\ stage = "trying" /\ ~connected
  /\ connected' = TRUE
  /\ stage' = "ready"
  /\ UNCHANGED <<attempt, iothread, calls, outbox, inbox, robot>>

Connect ==
  /\ stage = "trying" /\ ~connected
  /\ connected' = TRUE
  /\ iothread' = TRUE
  /\ stage' = "ready"
  /\ UNCHANGED <<attempt, calls, outbox, inbox, robot>>

Bug_Retry ==
  /\ stage = "asleep"
  /\ stage' = "trying"
  /\ UNCHANGED <<attempt, connected, iothread, calls, outbox, inbox, robot>>

Retry ==
  /\ stage = "asleep"
  /\ attempt' = attempt + 1
  /\ stage' = IF attempt' <= RETRY THEN "trying" ELSE "ready"
  /\ UNCHANGED <<connected, iothread, calls, outbox, inbox, robot>>

-----------------------------------------------------------------------------
(* sendCommand() and readResponse(): without connected_ they throw.        *)

Owed == accepted - Len(taken)

Bug_SeqByte(n) == n % (Base - 1)

SeqByte(n) == n % Base

Calls(t) == stage = "ready" /\ connected /\ pc[t] = "idle"

Generate(t) ==
  /\ Calls(t)
  /\ Owed < ahead
  /\ register' = [register EXCEPT ![t] = SeqByte(seqNum)]
  /\ Goto(t, "send")
  /\ UNCHANGED <<handler, ahead, seqNum, numbers, outbox, inbox, robot>>

Send(t) ==
  /\ pc[t] = "send"
  /\ Out!Accept
  /\ numbers' = Append(numbers, register[t])
  /\ Goto(t, "load")
  /\ UNCHANGED <<handler, ahead, seqNum, register, inbox, robot>>

Load(t) ==
  /\ pc[t] = "load"
  /\ register' = [register EXCEPT ![t] = seqNum]
  /\ Goto(t, "store")
  /\ UNCHANGED <<handler, ahead, seqNum, numbers, outbox, inbox, robot>>

Store(t) ==
  /\ pc[t] = "store"
  /\ seqNum' = register[t] + 1
  /\ Goto(t, "idle")
  /\ UNCHANGED <<handler, ahead, register, numbers, outbox, inbox, robot>>

(* The application reads once for every command.                           *)
ReadResponse(t) ==
  /\ Calls(t)
  /\ Cardinality({u \in Callers : pc[u] = "read"}) < Owed
  /\ Goto(t, "read")
  /\ UNCHANGED <<handler, ahead, seqNum, register, numbers, outbox, inbox, robot>>

Bug_TakeResponse(t) ==
  /\ pc[t] = "read"
  /\ records # <<>>
  /\ taken' = Append(taken, records[Len(records)])
  /\ Goto(t, "idle")
  /\ UNCHANGED <<handler, ahead, seqNum, register, numbers, outbox, records, robot>>

(* parseFromInternalData() reads the first packet of the record.           *)
TakeResponse(t) ==
  /\ pc[t] = "read"
  /\ In!Take
  /\ Goto(t, "idle")
  /\ UNCHANGED <<handler, ahead, seqNum, register, numbers, outbox, robot>>

-----------------------------------------------------------------------------
(* The connection and the robot, which answers command by command.         *)

Transmit == iothread /\ Out!Transmit /\ UNCHANGED <<handler, calls, inbox, robot>>

(* The link breaks, or somebody calls shutdown() or close().               *)
Break == connected /\ Out!Break /\ UNCHANGED <<handler, calls, inbox, robot>>

Deliver ==
  /\ iothread
  /\ In!Delivered < Len(chunks)
  /\ In!Deliver
  /\ UNCHANGED <<handler, calls, outbox, robot>>

Answer ==
  /\ ~broken
  /\ answered < Len(wire)
  /\ answered' = answered + 1
  /\ chunks' = Append(chunks, <<answered'>>)
  /\ UNCHANGED <<handler, calls, outbox, inbox>>

Speak ==
  /\ iothread /\ ~broken
  /\ Len(FlattenSeq(chunks)) - answered < MaxUnasked
  /\ chunks' = Append(chunks, <<Unasked>>)
  /\ UNCHANGED <<handler, calls, outbox, inbox, answered>>

Join ==
  /\ \E i \in DOMAIN chunks :
       /\ i > In!Delivered
       /\ i + 1 \in DOMAIN chunks
       /\ chunks' = SubSeq(chunks, 1, i - 1) \o <<chunks[i] \o chunks[i + 1]>>
                      \o SubSeq(chunks, i + 2, Len(chunks))
  /\ UNCHANGED <<handler, calls, outbox, inbox, answered>>

-----------------------------------------------------------------------------
Constructor == ConnectFails \/ ThreadFails \/ Connect \/ Retry

Continue(t) == Send(t) \/ Load(t) \/ Store(t) \/ TakeResponse(t)

Next ==
  \/ Constructor
  \/ \E t \in Callers : Generate(t) \/ ReadResponse(t) \/ Continue(t)
  \/ Transmit \/ Break \/ Deliver \/ Answer \/ Speak \/ Join

Spec == Init /\ [][Next]_vars

(* Threads that can run do run, the link delivers, the robot answers; no   *)
(* call, and no message the robot sends unasked, is fair.                  *)
Fairness ==
  /\ WF_vars(Constructor)
  /\ \A t \in Callers : WF_vars(Continue(t))
  /\ WF_vars(~broken /\ Transmit) /\ WF_vars(Answer) /\ WF_vars(Deliver)

FairSpec == Spec /\ Fairness

-----------------------------------------------------------------------------
TypeOK ==
  /\ stage \in {"trying", "asleep", "ready", "refused"} /\ attempt \in 0 .. RETRY
  /\ connected \in BOOLEAN /\ iothread \in BOOLEAN
  /\ ahead \in 1 .. MaxAhead /\ seqNum \in Nat /\ register \in [Callers -> Nat]
  /\ pc \in [Callers -> {"idle", "send", "load", "store", "read"}]
  /\ numbers \in Seq(0 .. Base - 1) /\ Len(numbers) = accepted
  /\ accepted \in Nat /\ wire \in Seq(Nat) /\ broken \in BOOLEAN
  /\ records \in Seq(Nat) /\ taken \in Seq(Nat)
  /\ answered \in Nat /\ chunks \in Seq(Seq(Nat))

(* A handler the constructor returns has a running thread if it looks      *)
(* connected, also when an earlier attempt failed half-way, and it looks   *)
(* connected unless it was constructed without an address.                 *)
HandlerReady ==
  stage = "ready" => connected = iothread /\ (attempt > 0 => connected)

(* The constructor returns or throws (its retry loop).                     *)
ConstructorEnds == <>(stage \in {"ready", "refused"})

(* With one caller, commands less than Base apart carry different numbers, *)
(* so that answers to them can be told apart (sendCommand).                *)
NumbersDistinct ==
  \A i, j \in 1 .. accepted : i < j /\ j - i < Base => numbers[i] # numbers[j]

(* The callers in sendCommand().                                           *)
Sending == {t \in Callers : pc[t] \in {"send", "load", "store"}}

OneSends == \A t, u \in Sending : t = u

(* The same for several callers, in any order, as long as the calls of     *)
(* sendCommand() do not overlap: seqNum is read and incremented without a  *)
(* lock, so that overlapping calls can send one number twice.              *)
NumbersDistinctInTurn == []OneSends => []NumbersDistinct

(* When several callers overlap, seqNum falls behind and numbers are used  *)
(* again, but none is used before its turn.                                *)
NumbersNotAhead == \A i \in 1 .. accepted : numbers[i] < i

AnswersLast ==
  \A t \in Callers : TakeResponse(t) => Head(chunks[records[Len(records)]]) = accepted

(* Nothing the robot has said was unasked.                                 *)
Quiet == \A i \in DOMAIN chunks : \A j \in DOMAIN chunks[i] : chunks[i][j] # Unasked

(* An application that alternates, as in the Readme, reads the answer to   *)
(* the command it sent last, if the robot says nothing else (sendCommand,  *)
(* readResponse).                                                          *)
ResponseMatches == [][ahead = 1 /\ Quiet => AnswersLast]_vars

(* A caller of readResponse() gets a response while the connection lasts,  *)
(* answers to other commands overtaking its own or not, unless one was     *)
(* lost in a chunk with another.                                           *)
ResponseArrives ==
  \A t \in Callers :
    pc[t] = "read" ~>
      pc[t] # "read" \/ broken \/ \E i \in DOMAIN chunks : Len(chunks[i]) > 1
=============================================================================
