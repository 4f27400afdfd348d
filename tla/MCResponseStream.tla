-------------------------- MODULE MCResponseStream --------------------------
(* ResponseStream with bytes of three bits: answers without data, with the *)
(* marker byte in the data, and of the greatest length.                    *)
EXTENDS ResponseStream

SomeReplies ==
  {[mrsp |-> 0, seq |-> 1, data |-> <<>>],
   [mrsp |-> 1, seq |-> MaxByte, data |-> <<MaxByte, 2>>],
   [mrsp |-> 0, seq |-> 2, data |-> <<1, 0, 3, MaxByte>>],
   [mrsp |-> MaxByte, seq |-> 0, data |-> [i \in 1 .. MaxData |-> i]]}
SomeNoise == {<<>>, <<0, 3>>}
=============================================================================
