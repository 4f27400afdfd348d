------------------------ MODULE ClientCommandProofs ------------------------
(***************************************************************************)
(* Proofs about ClientCommand, for every number of values a byte can have, *)
(* every payload and any number of assemble() calls: types, the packet     *)
(* doSend() writes, and when it reads beyond the bytes.                    *)
(***************************************************************************)
EXTENDS ClientCommand, SpheroPacketProofs

-----------------------------------------------------------------------------
(* What a constructor leaves is a command.                                 *)
LEMMA FreshIsCommand ==
  ASSUME NEW r \in BOOLEAN, NEW a \in BOOLEAN
  PROVE  Fresh(r, a) \in Commands
<1>1. Flags(r, a) \in Byte /\ 0 \in Byte
  BY BaseAssumption DEF Flags, MaxByte, Byte
<1>2. <<>> \in Seq(Byte)
  OBVIOUS
<1> QED
  BY <1>1, <1>2 DEF Fresh, Commands

LEMMA DefaultIsCommand ==
  DefaultCommand \in Commands
<1>1. MaxByte - 1 \in Byte /\ 0 \in Byte
  BY BaseAssumption DEF MaxByte, Byte
<1>2. <<0>> \in Seq(Byte)
  BY <1>1
<1> QED
  BY <1>1, <1>2 DEF DefaultCommand, Commands

(* ... and a setter leaves one.                                            *)
LEMMA SetFieldKeepsTypes ==
  ASSUME TypeOK, SetIds \/ SetData
  PROVE  command' \in Commands
<1>1. CASE SetIds
  <2>1. PICK field \in {"did", "cid", "seq"}, value \in Ids :
          command' = [command EXCEPT ![field] = value]
    BY <1>1 DEF SetIds, SetField
  <2>2. value \in Byte /\ command \in Commands
    BY InputsAssumption DEF TypeOK
  <2>3. CASE field = "did"
    BY <2>1, <2>2, <2>3 DEF Commands
  <2>4. CASE field = "cid"
    BY <2>1, <2>2, <2>4 DEF Commands
  <2>5. CASE field = "seq"
    BY <2>1, <2>2, <2>5 DEF Commands
  <2> QED
    BY <2>3, <2>4, <2>5
<1>2. CASE SetData
  <2>1. PICK data \in Payloads : command' = [command EXCEPT !["data"] = data]
    BY <1>2 DEF SetData, SetField
  <2>2. data \in Seq(Byte) /\ command \in Commands
    BY InputsAssumption DEF TypeOK
  <2> QED
    BY <2>1, <2>2 DEF Commands
<1> QED
  BY <1>1, <1>2

(* Every variable stays of its type: a checksum is a byte, and only bytes  *)
(* are assembled (the setters, assemble()).                                *)
THEOREM TypeCorrect ==
  Spec => []TypeOK
<1>1. Init => TypeOK
  <2> SUFFICES ASSUME Init PROVE TypeOK
    OBVIOUS
  <2>1. command \in Commands
    <3>1. \A r, a \in BOOLEAN : Fresh(r, a) \in Commands
      BY FreshIsCommand
    <3>2. \A r \in BOOLEAN : FreshAsync(r) \in Commands
      BY <3>1 DEF FreshAsync
    <3>3. \/ \E r, a \in BOOLEAN : command = Fresh(r, a)
          \/ \E r \in BOOLEAN : command = FreshAsync(r)
          \/ command = DefaultCommand
      BY DEF Init
    <3> QED
      BY <3>1, <3>2, <3>3, DefaultIsCommand
  <2>2. <<>> \in Seq(Byte) /\ 0 \in 0 .. MaxAssembles
    BY InputsAssumption
  <2> QED
    BY <2>1, <2>2 DEF Init, TypeOK
<1>2. TypeOK /\ [Next]_vars => TypeOK'
  <2> SUFFICES ASSUME TypeOK, [Next]_vars PROVE TypeOK'
    OBVIOUS
  <2>1. CASE SetIds \/ SetData
    <3>1. UNCHANGED <<bytes, assembles, first>>
      BY <2>1 DEF SetIds, SetData, SetField
    <3> QED
      BY <2>1, <3>1, SetFieldKeepsTypes DEF TypeOK
  <2>2. CASE Assemble
    <3>1. Assembled(command) \in Seq(Byte)
      BY AssembledBytes DEF TypeOK
    <3>2. bytes' \in Seq(Byte)
      BY <2>2, <3>1 DEF Assemble, TypeOK
    <3>3. first' \in Commands /\ command' \in Commands
      BY <2>2 DEF Assemble, TypeOK
    <3>4. assembles' \in 0 .. MaxAssembles
      BY <2>2, InputsAssumption DEF Assemble, TypeOK
    <3> QED
      BY <3>2, <3>3, <3>4 DEF TypeOK
  <2>3. CASE UNCHANGED vars
    BY <2>3 DEF vars, TypeOK
  <2> QED
    BY <2>1, <2>2, <2>3 DEF Next
<1> QED
  BY <1>1, <1>2, PTL DEF Spec

-----------------------------------------------------------------------------
(* The inductive invariant: the bytes start with the packet of the first   *)
(* assemble(), and without one there are none.                             *)
Starting ==
  IF assembles = 0 THEN bytes = <<>>
  ELSE /\ CommandLength(first) <= Len(bytes)
       /\ \A i \in 1 .. CommandLength(first) : bytes[i] = Assembled(first)[i]

(* What is appended changes nothing of what is there.                      *)
LEMMA AppendedBehind ==
  ASSUME NEW S, NEW s \in Seq(S), NEW t \in Seq(S)
  PROVE  Len(s) <= Len(s \o t) /\ \A i \in 1 .. Len(s) : (s \o t)[i] = s[i]
<1>1. Len(s) \in Nat /\ Len(t) \in Nat
  OBVIOUS
<1> QED
  BY <1>1, ConcatProperties

LEMMA StartingInductive ==
  Spec => []Starting
<1>1. Init => Starting
  BY DEF Init, Starting
<1>2. TypeOK /\ Starting /\ [Next]_vars => Starting'
  <2> SUFFICES ASSUME TypeOK, Starting, [Next]_vars PROVE Starting'
    OBVIOUS
  <2>1. CASE SetIds \/ SetData
    <3>1. UNCHANGED <<bytes, assembles, first>>
      BY <2>1 DEF SetIds, SetData, SetField
    <3> QED
      BY <3>1 DEF Starting
  <2>2. CASE Assemble
    <3> DEFINE a == Assembled(command)
               n == CommandLength(first)
    <3>1. a \in Seq(Byte) /\ Len(a) = CommandLength(command)
      BY AssembledBytes DEF TypeOK
    <3>2. assembles \in Nat /\ assembles' = assembles + 1 /\ assembles' # 0
      BY <2>2 DEF Assemble, TypeOK
    <3>3. bytes' = bytes \o a /\ bytes \in Seq(Byte)
      BY <2>2 DEF Assemble, TypeOK
    <3>4. CASE assembles = 0
      <4>1. first' = command /\ bytes = <<>>
        BY <2>2, <3>4 DEF Assemble, Starting
      <4>2. bytes' = a
        BY <3>1, <3>3, <4>1
      <4>3. CommandLength(first') = Len(a) /\ Assembled(first') = a
        BY <3>1, <4>1
      <4> HIDE DEF a
      <4>4. Len(a) <= Len(a)
        BY <3>1
      <4> QED
        BY <3>2, <4>2, <4>3, <4>4 DEF Starting
    <3>5. CASE assembles # 0
      <4>1. first' = first
        BY <2>2, <3>5 DEF Assemble
      <4>2. n <= Len(bytes) /\ \A i \in 1 .. n : bytes[i] = Assembled(first)[i]
        BY <3>5 DEF Starting
      <4>3. n \in Nat
        BY DEF TypeOK, CommandLength, Commands
      <4> HIDE DEF a, n
      <4>4. Len(bytes) <= Len(bytes') /\ \A i \in 1 .. Len(bytes) : bytes'[i] = bytes[i]
        BY <3>1, <3>3, AppendedBehind
      <4>5. Len(bytes) \in Nat /\ Len(bytes') \in Nat
        BY <3>1, <3>3
      <4>6. n <= Len(bytes') /\ \A i \in 1 .. n : bytes'[i] = Assembled(first)[i]
        BY <4>2, <4>3, <4>4, <4>5
      <4> QED
        BY <3>2, <4>1, <4>6 DEF Starting, n
    <3> QED
      BY <3>4, <3>5
  <2>3. CASE UNCHANGED vars
    BY <2>3 DEF vars, Starting
  <2> QED
    BY <2>1, <2>2, <2>3 DEF Next
<1> QED
  BY <1>1, <1>2, TypeCorrect, PTL DEF Spec

(* doSend() reads beyond the bytes only if the data grew after assemble()  *)
(* (length(), assemble()).                                                 *)
THEOREM NoOverrunCorrect ==
  Spec => []NoOverrun
<1>1. TypeOK /\ Starting => NoOverrun
  <2> SUFFICES ASSUME TypeOK, Starting, assembles > 0, Len(command.data) <= Len(first.data)
               PROVE  CommandLength(command) <= Len(bytes)
    BY DEF NoOverrun
  <2>1. Len(command.data) \in Nat /\ Len(first.data) \in Nat /\ Len(bytes) \in Nat
        /\ assembles \in Nat
    BY DEF TypeOK, Commands
  <2>2. CommandLength(first) <= Len(bytes)
    BY <2>1 DEF Starting
  <2> QED
    BY <2>1, <2>2 DEF CommandLength
<1> QED
  BY <1>1, TypeCorrect, StartingInductive, PTL

(* Whatever is set or assembled after the first assemble(), doSend()       *)
(* writes the packet of that moment while the data keep their length, and  *)
(* the robot reads from it the fields of that moment (assemble(),          *)
(* calculateChecksum(), length()).                                         *)
THEOREM WireCorrect ==
  Spec => []WireIsFirstAssembly
<1>1. TypeOK /\ Starting => WireIsFirstAssembly
  <2> SUFFICES ASSUME TypeOK, Starting, assembles > 0,
                      Len(command.data) = Len(first.data), Len(first.data) <= MaxData
               PROVE  IsCommand(Wire) /\ Decoded(Wire) = first
    BY DEF WireIsFirstAssembly
  <2> DEFINE a == Assembled(first)
             n == CommandLength(first)
  <2>1. first \in Commands /\ bytes \in Seq(Byte) /\ assembles \in Nat
    BY DEF TypeOK
  <2>2. a \in Seq(Byte) /\ Len(a) = n /\ n = 7 + Len(first.data)
    BY <2>1, AssembledBytes DEF CommandLength
  <2>3. n <= Len(bytes) /\ \A i \in 1 .. n : bytes[i] = a[i]
    BY <2>1 DEF Starting
  <2>4. n \in Nat /\ 1 <= n
    BY <2>1, <2>2 DEF Commands
  <2>5. CommandLength(command) = n
    BY DEF CommandLength
  <2> HIDE DEF a, n
  <2>6. Len(a) = (IF 1 <= n THEN n - 1 + 1 ELSE 0) /\ 1 \in Nat \ {0}
    BY <2>2, <2>4
  <2>7. \A i \in 1 .. Len(a) : a[i] = bytes[1 + i - 1]
    BY <2>2, <2>3, <2>4
  <2>8. SubSeq(bytes, 1, n) = a
    BY <2>1, <2>2, <2>3, <2>4, <2>6, <2>7, PartAt
  <2>9. Wire = Assembled(first)
    BY <2>5, <2>8 DEF Wire, a
  <2> QED
    BY <2>1, <2>9, AssembledIsCommand
<1> QED
  BY <1>1, TypeCorrect, StartingInductive, PTL
=============================================================================
