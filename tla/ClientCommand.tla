--------------------------- MODULE ClientCommand ---------------------------
(***************************************************************************)
(* A SpheroClientCommand from its constructor to the write of doSend(),    *)
(* which takes length() bytes from data().  The setters change the fields, *)
(* assemble() appends to the bytes, and nothing ties the two together.     *)
(***************************************************************************)
EXTENDS SpheroPacket

CONSTANTS
  Ids,          \* device ids, command ids and sequence numbers in use
  Payloads,     \* arguments of setData
  MaxAssembles  \* bound: number of assemble() calls

ASSUME InputsAssumption ==
  Ids \subseteq Byte /\ Payloads \subseteq Seq(Byte) /\ MaxAssembles \in Nat

VARIABLES
  command,    \* the fields
  bytes,      \* the vector
  assembles,  \* number of assemble() calls
  first       \* the fields at the first of them

vars == <<command, bytes, assembles, first>>

Init ==
  /\ command \in {Fresh(r, a) : r, a \in BOOLEAN} \cup {FreshAsync(r) : r \in BOOLEAN}
                 \cup {DefaultCommand}
  /\ bytes = <<>> /\ assembles = 0 /\ first = command

SetField(field, value) ==
  /\ command' = [command EXCEPT ![field] = value]
  /\ UNCHANGED <<bytes, assembles, first>>

SetIds == \E field \in {"did", "cid", "seq"}, value \in Ids : SetField(field, value)

(* setData() throws without a change when the data is longer.              *)
FitsData(data) == Len(data) <= MaxByte

SetData == \E data \in Payloads : FitsData(data) /\ SetField("data", data)

Assemble ==
  /\ assembles < MaxAssembles
  /\ assembles' = assembles + 1
  /\ bytes' = bytes \o Assembled(command)
  /\ first' = IF assembles = 0 THEN command ELSE first
  /\ UNCHANGED command

Next == SetIds \/ SetData \/ Assemble

Spec == Init /\ [][Next]_vars

(* The bytes doSend() writes if it runs now, if there are so many.         *)
Wire == SubSeq(bytes, 1, CommandLength(command))

-----------------------------------------------------------------------------
TypeOK ==
  /\ command \in Commands /\ first \in Commands
  /\ bytes \in Seq(Byte) /\ assembles \in 0 .. MaxAssembles

(* Whatever is set or assembled afterwards, as long as the length of the   *)
(* data is the same doSend() writes the packet of the first assemble(),    *)
(* and the robot reads from it the fields of that moment (assemble(),      *)
(* calculateChecksum(), length()).                                         *)
WireIsFirstAssembly ==
  assembles > 0 /\ Len(command.data) = Len(first.data) /\ Len(first.data) <= MaxData =>
    IsCommand(Wire) /\ Decoded(Wire) = first

(* doSend() reads beyond the bytes only if data grew after assemble().     *)
NoOverrun ==
  assembles > 0 /\ Len(command.data) <= Len(first.data) =>
    CommandLength(command) <= Len(bytes)

(* What setData() says it accepts, "Length of data must be < 256 bytes",   *)
(* can be sent.                                                            *)
AcceptedDataIsSent ==
  assembles > 0 /\ command = first => IsCommand(Wire) /\ Decoded(Wire) = command
=============================================================================
