------------------------------- MODULE Outbox -------------------------------
(***************************************************************************)
(* What BtConnection::send() promises: messages reach the link in the      *)
(* order of the calls, each at most once, and every one of them as long as *)
(* nothing breaks the connection.  A message is the number of its call.    *)
(***************************************************************************)
EXTENDS Naturals, Sequences

CONSTANT MaxSends

VARIABLES accepted,  \* number of messages taken so far
          wire,      \* messages that reached the link
          broken     \* the connection was lost or shut down

vars == <<accepted, wire, broken>>

Init == accepted = 0 /\ wire = <<>> /\ broken = FALSE

Accept ==
  /\ accepted < MaxSends
  /\ accepted' = accepted + 1
  /\ UNCHANGED <<wire, broken>>

Transmit ==
  /\ Len(wire) < accepted
  /\ wire' = Append(wire, Len(wire) + 1)
  /\ UNCHANGED <<accepted, broken>>

Break ==
  /\ ~broken
  /\ broken' = TRUE
  /\ UNCHANGED <<accepted, wire>>

Next == Accept \/ Transmit \/ Break

Spec == Init /\ [][Next]_vars

(* Messages may still go out after a break, but none has to.               *)
FairSpec == Spec /\ WF_vars(~broken /\ Transmit)
=============================================================================
