---------------------------- MODULE SpheroSession ----------------------------
(***************************************************************************)
(* An application as BTUT/SpheroCommandTest.cpp is one: it looks for a     *)
(* robot (Inquiry), connects to it (SpheroHandler), sends commands and     *)
(* checks the responses, here from several threads.  What SpheroHandler    *)
(* counts are packets here, byte by byte (SpheroPacket, SpheroCommands).   *)
(* The robot says nothing unasked, and the link stays up and joins nothing *)
(* (SpheroHandler is about what happens when they do).                     *)
(***************************************************************************)
EXTENDS SpheroCommands

CONSTANTS
  Devices, Nothing, Sphero, INQ_MAX_RETRIES, MaxReported,    \* of Inquiry
  Callers, RETRY, MaxAhead, MaxSends, MaxUnasked,            \* of SpheroHandler
  Tests,       \* the tests that are run
  RobotCodes   \* codes with which the robot may answer a command it knows

VARIABLES
  step, tries, vOut, querySet, handle, reported, found,      \* of Inquiry
  stage, attempt, connected, iothread, ahead, seqNum, pc, register, numbers,
  accepted, wire, broken, records, taken, answered, chunks,  \* of SpheroHandler
  endpoint,    \* endpoint_ of the connection: what setEndpoint() was given
  constructed, \* whether the constructor of the handler was called
  thrown,      \* sendCommand() or readResponse() threw NotConnectedException
  asked,       \* for each command its caller and its test
  replies,     \* for each answer of the robot its bytes
  response,    \* each caller's latest response, and the number of its command
  reading,     \* where each caller is in messageResponseToString()
  overlapped,  \* whether another call of it overlapped with this one
  resp         \* its static string

inquiry == <<step, tries, vOut, querySet, handle, reported, found>>
handler == <<stage, attempt, connected, iothread, ahead, seqNum, pc, register, numbers,
             accepted, wire, broken, records, taken, answered, chunks>>
talk    == <<asked, replies>>
text    == <<reading, overlapped, resp>>
vars    == <<inquiry, handler, endpoint, constructed, thrown, talk, response, text>>

I == INSTANCE Inquiry
H == INSTANCE SpheroHandler

-----------------------------------------------------------------------------
(* The tests: what each asks, how long it expects the data to be, and the  *)
(* numbers it reads from them, by their start and type.                    *)

PingTest == [command |-> PingCommand, length |-> 1, reads |-> {}]

VersioningTest ==
  [command |-> VersionCommand, length |-> 9, reads |-> (0 .. 7) \X {Unsigned(1)}]

BluetoothInfoTest ==
  [command |-> GetBTNameCommand, length |-> 33, reads |-> (0 .. 15 \cup 17 .. 28 \cup 30 .. 32) \X {Unsigned(1)}]

PowerStateTest ==
  [command |-> GetPowerStateCommand, length |-> 9,
   reads |-> {0, 1} \X {Unsigned(1)} \cup {2, 4, 6} \X {Unsigned(2)}]

LocatorTest ==
  [command |-> ReadLocatorCommand, length |-> 11, reads |-> {0, 2, 4, 6, 8} \X {Signed(2)}]

AllTests == {PingTest, VersioningTest, BluetoothInfoTest, PowerStateTest, LocatorTest}

-----------------------------------------------------------------------------
(* A string is the code whose text it is, or one of these two.             *)
Empty   == Base
Torn    == Base + 1
NoReply == [to |-> 0]

(* A byte has room for every command, every code and every length the      *)
(* tests expect.                                                           *)
ASSUME SessionAssumption ==
  /\ Base > 100
  /\ Nothing # Sphero
  /\ Devices \subseteq [name : {Nothing, Sphero} \cup STRING, address : {Nothing} \cup STRING]
  /\ INQ_MAX_RETRIES \in Nat \ {0} /\ MaxReported \in Nat
  /\ RETRY \in Nat /\ MaxAhead \in Nat /\ MaxSends \in Nat /\ MaxUnasked \in Nat
  /\ RobotCodes \subseteq Byte
  /\ Tests \subseteq AllTests

Init ==
  /\ I!Init
  /\ H!Init /\ stage = "trying"
  /\ endpoint = Nothing /\ constructed = FALSE /\ thrown = FALSE
  /\ asked = <<>> /\ replies = <<>>
  /\ response = [t \in Callers |-> NoReply]
  /\ reading = [t \in Callers |-> "no"] /\ overlapped = [t \in Callers |-> FALSE]
  /\ resp = Empty

-----------------------------------------------------------------------------
(* getSpheroBtAddr(), then the constructor of the handler, which returns   *)
(* at once without an address.  The variables of the search are gone then. *)

Search ==
  /\ I!Next
  /\ UNCHANGED <<handler, endpoint, constructed, thrown, talk, response, text>>

Construct ==
  /\ I!Over /\ ~constructed
  /\ constructed' = TRUE
  /\ stage' = IF found = 0 THEN "ready" ELSE "trying"
  /\ tries' = 0 /\ reported' = <<>>
  /\ UNCHANGED <<step, vOut, querySet, handle, found, attempt, connected, iothread, ahead, seqNum, pc, register, numbers,
                 accepted, wire, broken, records, taken, answered, chunks, endpoint, thrown,
                 talk, response, text>>

(* Every attempt copies the address the pointer leads to.                  *)
SetEndpoint ==
  endpoint' = IF stage = "trying" THEN vOut[found].address ELSE endpoint

Connecting ==
  /\ constructed
  /\ H!Constructor
  /\ SetEndpoint
  /\ UNCHANGED <<inquiry, constructed, thrown, talk, response, text>>

-----------------------------------------------------------------------------
(* sendCommand() and readResponse().                                       *)

Unchanged == UNCHANGED <<inquiry, endpoint, constructed, thrown>>

Throw ==
  /\ constructed /\ stage = "ready" /\ ~connected
  /\ thrown' = TRUE
  /\ UNCHANGED <<inquiry, handler, endpoint, constructed, talk, response, text>>

(* A caller asks for the text before it sends or reads again.              *)
Generate(t) ==
  /\ constructed /\ reading[t] = "no"
  /\ H!Generate(t)
  /\ Unchanged /\ UNCHANGED <<talk, response, text>>

Send(t) ==
  /\ H!Send(t)
  /\ \E test \in Tests : asked' = Append(asked, [by |-> t, test |-> test])
  /\ Unchanged /\ UNCHANGED <<replies, response, text>>

Count(t) ==
  /\ H!Load(t) \/ H!Store(t)
  /\ Unchanged /\ UNCHANGED <<talk, response, text>>

ReadResponse(t) ==
  /\ reading[t] = "no"
  /\ H!ReadResponse(t)
  /\ Unchanged /\ UNCHANGED <<talk, response, text>>

(* The latest command a caller has sent.                                   *)
LatestOf(t) == Max({0} \cup {i \in DOMAIN asked : asked[i].by = t})

TakeResponse(t) ==
  /\ H!TakeResponse(t)
  /\ response' = [response EXCEPT ![t] =
       [to |-> LatestOf(t), got |-> ParseFromInternalData(replies[Head(chunks[Last(taken')])])]]
  /\ reading' = [reading EXCEPT ![t] = "begin"]
  /\ Unchanged /\ UNCHANGED <<talk, overlapped, resp>>

-----------------------------------------------------------------------------
(* messageResponseToString(): a switch assigns a text to the static resp,  *)
(* and a copy of resp is returned.  Of two calls at a time either may find *)
(* or leave a string that is neither text.                                 *)

Inside(t) == {u \in Callers \ {t} : reading[u] \in {"assign", "copy"}}

TextBegin(t) ==
  /\ reading[t] = "begin"
  /\ reading' = [reading EXCEPT ![t] = IF HasText(response[t].got.mrsp) THEN "assign" ELSE "copy"]
  /\ overlapped' = [u \in Callers |->
       IF u = t THEN Inside(t) # {} ELSE overlapped[u] \/ u \in Inside(t)]
  /\ Unchanged /\ UNCHANGED <<handler, talk, response, resp>>

MayTear(t, string) == IF overlapped[t] THEN {string, Torn} ELSE {string}

TextAssign(t) ==
  /\ reading[t] = "assign"
  /\ resp' \in MayTear(t, response[t].got.mrsp)
  /\ reading' = [reading EXCEPT ![t] = "copy"]
  /\ Unchanged /\ UNCHANGED <<handler, talk, response, overlapped>>

(* The strings the call may return.                                        *)
Returned(t) == MayTear(t, resp)

TextCopy(t) ==
  /\ reading[t] = "copy"
  /\ reading' = [reading EXCEPT ![t] = "no"]
  /\ overlapped' = [overlapped EXCEPT ![t] = FALSE]
  /\ Unchanged /\ UNCHANGED <<handler, talk, response, resp>>

-----------------------------------------------------------------------------
(* The connection, which takes the bytes of doSend() to the robot.         *)

Packet(i) == Assembled(GenerateCommandMessage(asked[i].test.command, numbers[i]))

Connection ==
  /\ H!Transmit \/ H!Deliver
  /\ Unchanged /\ UNCHANGED <<talk, response, text>>

(* What the robot has to say: as many bytes as its data sheet, which the   *)
(* tests repeat, and no data when it does not do what it is asked.         *)
Said(command) ==
  LET test == CHOOSE test \in AllTests : test.command = command
  IN  [i \in 1 .. test.length - 1 |-> (77 * i) % Base]

Knows(packet) ==
  IsCommand(packet)
    /\ \E test \in AllTests :
         test.command = [did |-> Decoded(packet).did, cid |-> Decoded(packet).cid]

Executed(packet) == [did |-> Decoded(packet).did, cid |-> Decoded(packet).cid]

Replies(packet) ==
  IF Knows(packet)
  THEN {[mrsp |-> code, seq |-> Decoded(packet).seq,
         data |-> IF code = OK THEN Said(Executed(packet)) ELSE <<>>] : code \in RobotCodes}
  ELSE {[mrsp |-> EBAD_CMD, seq |-> Decoded(packet).seq, data |-> <<>>]}

Answer ==
  /\ H!Answer
  /\ \E reply \in Replies(Packet(answered')) : replies' = Append(replies, ResponsePacket(reply))
  /\ Unchanged /\ UNCHANGED <<asked, response, text>>

-----------------------------------------------------------------------------
Call(t) ==
  \/ Generate(t) \/ Send(t) \/ Count(t) \/ ReadResponse(t) \/ TakeResponse(t)
  \/ TextBegin(t) \/ TextAssign(t) \/ TextCopy(t)

Next ==
  \/ Search \/ Construct \/ Connecting
  \/ Throw \/ (\E t \in Callers : Call(t))
  \/ Connection \/ Answer

(* Lookups, attempts and the constructor come to an end.                   *)
FairSpec ==
  Init /\ [][Next]_vars
    /\ WF_vars(Search) /\ WF_vars(Construct) /\ WF_vars(Connecting)

-----------------------------------------------------------------------------
TypeOK ==
  /\ I!TypeOK /\ H!TypeOK
  /\ endpoint \in {Nothing} \cup {d.address : d \in Devices}
  /\ constructed \in BOOLEAN /\ thrown \in BOOLEAN
  /\ asked \in Seq([by : Callers, test : Tests]) /\ Len(asked) = accepted
  /\ replies \in Seq(Seq(Byte)) /\ Len(replies) = answered
  /\ \A t \in Callers : response[t].to \in 0 .. accepted
  /\ reading \in [Callers -> {"no", "begin", "assign", "copy"}]
  /\ overlapped \in [Callers -> BOOLEAN]
  /\ resp \in 0 .. Torn

(* The search returns the address of the first robot the last inquiry      *)
(* reported, and what the handler is connected to is the address of a      *)
(* robot: the query set it was reported in, and the inquiry, are gone by   *)
(* then (bluetoothInquire, getSpheroBtAddr, setEndpoint).                  *)
AddressOfSphero ==
  /\ ~constructed => I!AddressOfSphero
  /\ connected => [name |-> Sphero, address |-> endpoint] \in Devices

(* The search and the constructor's retries come to an end: the handler    *)
(* is constructed or refused.                                              *)
Starts == <>(constructed /\ stage \in {"ready", "refused"})

(* A command throws NotConnectedException only when no robot was found: a  *)
(* handler with an address never gets out of its constructor unconnected   *)
(* (the test testPingCommandNotConnected, SpheroHandler's constructor).    *)
ThrowsWithoutAddress == thrown => found = 0

(* One thread that alternates gets from readResponse() the answer to its   *)
(* own command, with its number, and the robot knew the command            *)
(* (generateCommandMessage, assemble); if it did what was asked the data   *)
(* are as long as the test expects, and every number the test reads in     *)
(* them is the robot's (the int_test... methods).  The last byte is the    *)
(* checksum.                                                               *)
TestsPass ==
  \A t \in Callers :
    response[t].to # 0 /\ ahead = 1 /\ (\A i \in DOMAIN asked : asked[i].by = t) =>
      LET got  == response[t].got
          test == asked[response[t].to].test
          said == Said(test.command)
      IN  /\ got.seq = numbers[response[t].to]
          /\ got.mrsp \in RobotCodes
          /\ got.mrsp = OK =>
               /\ Len(got.data) = test.length
               /\ \A read \in test.reads :
                    read[1] + read[2].width < test.length =>
                      IsNumber(DataToNumerical(got.data, read[1], read[2]), said, read[1], read[2])

(* A call of messageResponseToString() that no other overlaps returns the  *)
(* text of its own code, whatever other threads left in the static string  *)
(* before.                                                                 *)
TextOwn ==
  \A t \in Callers :
    reading[t] = "copy" /\ ~overlapped[t] /\ response[t].got.mrsp \in MessageResponseCodes =>
      Returned(t) = {response[t].got.mrsp}
=============================================================================
