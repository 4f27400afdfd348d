-------------------------------- MODULE Inbox --------------------------------
(***************************************************************************)
(* What BtConnection::read() gives its callers: the chunks of the device   *)
(* become records in the order of their arrival, none is left out, and     *)
(* every call takes the newest record.  A chunk is the number of its       *)
(* arrival.                                                                *)
(***************************************************************************)
EXTENDS Naturals, Sequences

CONSTANT MaxChunks

VARIABLES records,  \* complete records nobody has read
          taken     \* records returned by read()

vars == <<records, taken>>

Init == records = <<>> /\ taken = <<>>

Delivered == Len(records) + Len(taken)

Deliver ==
  /\ Delivered < MaxChunks
  /\ records' = Append(records, Delivered + 1)
  /\ UNCHANGED taken

Take ==
  /\ records # <<>>
  /\ taken' = Append(taken, records[Len(records)])
  /\ records' = SubSeq(records, 1, Len(records) - 1)

Next == Deliver \/ Take

Spec == Init /\ [][Next]_vars
=============================================================================
