-------------------------- MODULE MCClientCommand --------------------------
(* ClientCommand with bytes of three bits: no data, short data, the longest *)
(* that can be sent, the longest that is accepted, and a longer one.       *)
EXTENDS ClientCommand

SomeIds == {0, MaxByte}
Filled(n, b) == [i \in 1 .. n |-> b]
SomeData ==
  {<<>>, <<5>>, <<MaxByte, 1>>, Filled(MaxData, MaxByte), Filled(MaxByte, 1), Filled(Base, 1)}
=============================================================================
