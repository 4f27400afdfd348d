----------------------------- MODULE PacketTest -----------------------------
(***************************************************************************)
(* BTUT/SpheroPacketTest.cpp: the unit tests of the packets, run on the    *)
(* model of them, with the bytes and the assertions of the tests.          *)
(***************************************************************************)
EXTENDS Integers, Sequences

LOCAL C == INSTANCE SpheroCommands WITH Base <- 256

LOCAL UShort(packet, start) ==
  C!DataToNumerical(C!ParseFromInternalData(packet).data, start, C!Unsigned(2))

testResponsePacket ==
  C!ParseFromInternalData(<<255, 255, 0, 1, 1, 255>>)
    = [sop2 |-> 255, mrsp |-> 0, seq |-> 1, data |-> <<255>>]

testErrorResponse ==
  LET packet == C!ParseFromInternalData(<<255, 255, 9, 1, 1, 255>>)
  IN  C!HasText(packet.mrsp) /\ packet.mrsp = C!EBAD_DID

(* The data of packet5 are empty: its bytes after the header are never     *)
(* looked at.                                                              *)
testNumericalDataUShort ==
  LET packet1 == <<255, 255, 0, 1, 2, 39, 16>>
      packet2 == <<255, 255, 0, 1, 9, 1, 2, 3, 4, 5, 6, 7, 195, 80>>
      packet3 == <<255, 255, 0, 1, 4, 1, 127, 255, 4>>
      packet4 == <<255, 255, 0, 1, 2, 255, 255>>
      packet5 == <<255, 255, 0, 100>> \o [i \in 1 .. 100 |-> IF i = 54 THEN 1 ELSE 0]
      packet6 == <<255, 255, 0, 1, 1, 240>>
  IN  /\ UShort(packet1, 0) = 10000
      /\ UShort(packet2, 7) = 50000
      /\ UShort(packet3, 1) = 32767
      /\ UShort(packet4, 0) = 65535
      /\ UShort(packet5, 0) = 0
      /\ UShort(packet6, 0) = 61440

ASSUME UnitTestsPass == testResponsePacket /\ testErrorResponse /\ testNumericalDataUShort
=============================================================================
