-------------------------- MODULE MCSpheroHandler --------------------------
(* SpheroHandler with one caller, and with two callers of sendCommand().   *)
EXTENDS SpheroHandler

OneCaller == {"app"}
TwoCallers == {"app", "aux"}
=============================================================================
