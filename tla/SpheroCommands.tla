--------------------------- MODULE SpheroCommands ---------------------------
(***************************************************************************)
(* SpheroCommands.h: the commands, what generateCommandMessage() makes of  *)
(* one, and the codes messageResponseToString() has a text for.  A command *)
(* is the pair of its template arguments.  All numbers are the code's.     *)
(***************************************************************************)
EXTENDS SpheroPacket

DID_CORE   == 0
DID_SPHERO == 2

DeviceId == {DID_CORE, DID_SPHERO}

CoreCommandId == {1, 2} \cup 16 .. 19 \cup 32 .. 34 \cup {37, 48, 64, 65}

SpheroCommandId ==
  {1, 2, 3, 6, 9} \cup 17 .. 21 \cup 32 .. 34 \cup 48 .. 56 \cup 80 .. 82 \cup 84 .. 88
    \cup 96 .. 100

SpheroCommand ==
  {[did |-> DID_CORE, cid |-> c] : c \in CoreCommandId}
    \cup {[did |-> DID_SPHERO, cid |-> c] : c \in SpheroCommandId}

PingCommand          == [did |-> DID_CORE, cid |-> 1]
VersionCommand       == [did |-> DID_CORE, cid |-> 2]
GetBTNameCommand     == [did |-> DID_CORE, cid |-> 17]
GetPowerStateCommand == [did |-> DID_CORE, cid |-> 32]
ReadLocatorCommand   == [did |-> DID_SPHERO, cid |-> 21]

Bug_GenerateCommandMessage(cmd, seq) ==
  [Fresh(TRUE, TRUE) EXCEPT !.did = cmd.cid, !.cid = cmd.did, !.seq = seq]

GenerateCommandMessage(cmd, seq) ==
  [Fresh(TRUE, TRUE) EXCEPT !.did = cmd.did, !.cid = cmd.cid, !.seq = seq]

-----------------------------------------------------------------------------
OK       == 0
EBAD_CMD == 4
EBAD_DID == 9

MessageResponseCodes == 0 .. 11 \cup 49 .. 53

Bug_HasText(code) == code \in MessageResponseCodes \ {OK}

(* The texts are all different, and each stands here as its code.          *)
HasText(code) == code \in MessageResponseCodes
=============================================================================
