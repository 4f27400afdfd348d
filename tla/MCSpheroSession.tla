-------------------------- MODULE MCSpheroSession --------------------------
(* SpheroSession with a robot, another device and one without an address,  *)
(* and the unit tests of the packets.                                      *)
EXTENDS SpheroSession, PacketTest

TwoCallers  == {"app", "aux"}
SomeDevices ==
  {[name |-> "Sphero-RGB", address |-> "robot"], [name |-> "phone", address |-> "phone"],
   [name |-> "Sphero-RGB", address |-> "none"]}
SomeCodes == {OK, 12}
=============================================================================
