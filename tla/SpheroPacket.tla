---------------------------- MODULE SpheroPacket ----------------------------
(***************************************************************************)
(* The byte layout of SpheroPacketTypes.h: what a command assembles to and *)
(* what a response is parsed into.  A byte has Base values, 256 in the     *)
(* code; the limits that hang on the width of a byte are written with it.  *)
(***************************************************************************)
EXTENDS Integers, Sequences, SequencesExt, FiniteSetsExt

CONSTANT Base

ASSUME BaseAssumption == Base \in Nat /\ Base >= 8

Byte == 0 .. Base - 1
MaxByte == Base - 1

(* What the loop of a checksum adds up.                                    *)
Sum(s) ==
  LET upTo[n \in 0 .. Len(s)] == IF n = 0 THEN 0 ELSE upTo[n - 1] + s[n]
  IN  upTo[Len(s)]

(* The lengths a byte that counts the data and the checksum can express.   *)
MaxData == MaxByte - 1

-----------------------------------------------------------------------------
(* SpheroClientCommand.  DLEN is the length of the data.                   *)

Commands ==
  [sop2 : Byte, did : Byte, cid : Byte, seq : Byte, data : Seq(Byte)]

Flags(resetTimeout, answer) ==
  MaxByte - 3 + (IF resetTimeout THEN 2 ELSE 0) + (IF answer THEN 1 ELSE 0)

DefaultCommand ==
  [sop2 |-> MaxByte - 1, did |-> 0, cid |-> 0, seq |-> 0, data |-> <<0>>]

Fresh(resetTimeout, answer) ==
  [sop2 |-> Flags(resetTimeout, answer), did |-> 0, cid |-> 0, seq |-> 0, data |-> <<>>]

(* SpheroAsyncClientCommand: no answer is asked for.                       *)
FreshAsync(resetTimeout) == Fresh(resetTimeout, FALSE)

Inverted(sum) == MaxByte - (sum % Base)

Bug_Checksum(c) == Inverted(c.did + c.cid + c.seq + Len(c.data) + Sum(c.data))

CalculateChecksum(c) ==
  Inverted(c.did + c.cid + c.seq + Len(c.data) + 1 + Sum(c.data))

Bug_LengthByte(n) == n + 1

LengthByte(n) == (n + 1) % Base

Assembled(c) ==
  <<MaxByte, c.sop2, c.did, c.cid, c.seq, LengthByte(Len(c.data))>>
    \o c.data \o <<CalculateChecksum(c)>>

Bug_CommandLength(c) == 8 + Len(c.data)

CommandLength(c) == 7 + Len(c.data)

(* What the robot reads: the packet described in calculateChecksum().      *)
IsCommand(p) ==
  /\ Len(p) >= 7
  /\ p[1] = MaxByte
  /\ p[6] = Len(p) - 6
  /\ p[Len(p)] = Inverted(Sum(SubSeq(p, 3, Len(p) - 1)))

Decoded(p) ==
  [sop2 |-> p[2], did |-> p[3], cid |-> p[4], seq |-> p[5],
   data |-> SubSeq(p, 7, Len(p) - 1)]

-----------------------------------------------------------------------------
(* SpheroServerResponse.  What the robot writes: DLEN counts the data and  *)
(* the checksum.                                                           *)

ResponsePacket(r) ==
  LET body == <<r.mrsp, r.seq, Len(r.data) + 1>> \o r.data
  IN  <<MaxByte, MaxByte>> \o body \o <<Inverted(Sum(body))>>

Responses == [sop2 : Byte, mrsp : Byte, seq : Byte, data : Seq(Byte)]

(* Byte i, counted from 0, of the vector a response was constructed from.  *)
Bug_ByteAt(vector, i) == IF 2 * vector[i + 1] < Base THEN vector[i + 1] ELSE vector[i + 1] - Base

ByteAt(vector, i) == vector[i + 1]

Bug_Parse(vector) ==
  [sop2 |-> ByteAt(vector, 1), mrsp |-> ByteAt(vector, 2), seq |-> ByteAt(vector, 3),
   data |-> [i \in 1 .. ByteAt(vector, 4) |-> ByteAt(vector, i + 3)]]

ParseFromInternalData(vector) ==
  [sop2 |-> ByteAt(vector, 1), mrsp |-> ByteAt(vector, 2), seq |-> ByteAt(vector, 3),
   data |-> [i \in 1 .. ByteAt(vector, 4) |-> ByteAt(vector, i + 4)]]

(* assemble() of a response: DATA ends with the checksum it came with.     *)
AssembledResponse(r) == <<MaxByte, r.sop2, r.mrsp, r.seq, Len(r.data)>> \o r.data

-----------------------------------------------------------------------------
(* The value of a byte with n bytes behind it.                             *)
Place(n) ==
  LET power[i \in 0 .. n] == IF i = 0 THEN 1 ELSE Base * power[i - 1]
  IN  power[n]

(* The types T of dataToNumerical<T>(startIndex).                          *)
Unsigned(width) == [width |-> width, signed |-> FALSE]
Signed(width)   == [width |-> width, signed |-> TRUE]

(* The first bit of a signed T is its sign.                                *)
As(T, bits) == IF T.signed /\ 2 * bits >= Place(T.width) THEN bits - Place(T.width) ELSE bits

(* All bytes but the last one of the T are followed by a shift, also at    *)
(* the end of data.                                                        *)
Shifted(value, byte) == (value + byte) * Base

Bug_HasLast(data, start, width) == start + width < Len(data)

HasLast(data, start, width) == start + width <= Len(data)

(* How often the loop runs.                                                *)
Passes(data, start, width) ==
  IF start + width - 1 < Len(data) THEN width - 1
  ELSE IF start < Len(data) THEN Len(data) - start ELSE 0

Bits(data, start, width) ==
  LET n == Passes(data, start, width)
      ret[i \in 0 .. n] == IF i = 0 THEN 0 ELSE Shifted(ret[i - 1], data[start + i])
  IN  ret[n] + (IF HasLast(data, start, width) THEN data[start + width] ELSE 0)

DataToNumerical(data, start, T) == As(T, Bits(data, start, T.width))

(* What it should read of a number that is in the data: its bytes each at  *)
(* their place, the most significant first, modulo the range of T.         *)
Number(data, start, width) == Sum([i \in 1 .. width |-> data[start + i] * Place(width - i)])

InRange(n, T) ==
  IF T.signed THEN -Place(T.width) <= 2 * n /\ 2 * n < Place(T.width)
  ELSE 0 <= n /\ n < Place(T.width)

IsNumber(n, data, start, T) ==
  /\ n \in {Number(data, start, T.width), Number(data, start, T.width) - Place(T.width)}
  /\ InRange(n, T)
=============================================================================
