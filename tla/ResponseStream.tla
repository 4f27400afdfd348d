--------------------------- MODULE ResponseStream ---------------------------
(***************************************************************************)
(* From the bytes of the link to a parsed response: recv_buffer_,          *)
(* BtConnection::readHandler() and                                         *)
(* SpheroServerResponse::parseFromInternalData().  The robot writes        *)
(* replies, the link may join two of them into one chunk or split one over *)
(* two, and every chunk is one completion of async_read_some.  (Queue and threads are the       *)
(* subject of BtConnection; here every record is parsed when it is made.)  *)
(***************************************************************************)
EXTENDS SpheroPacket

CONSTANTS
  Replies,     \* what the robot answers
  Noise,       \* bytes that may precede an answer
  BufferSize,  \* size of RawData, 1024 in the code
  MaxReplies   \* bound: number of answers

(* The byte that counts the data and the checksum can count them, and an   *)
(* answer with what precedes it fits into the buffer.                      *)
ASSUME StreamAssumption ==
  /\ Replies \subseteq [mrsp : Byte, seq : Byte, data : Seq(Byte)]
  /\ \A r \in Replies : Len(r.data) <= MaxData
  /\ Noise \subseteq Seq(Byte \ {MaxByte})
  /\ BufferSize \in Nat /\ BufferSize >= Base + 5
  /\ \A noise \in Noise : Len(noise) + Base + 4 <= BufferSize
  /\ MaxReplies \in Nat

VARIABLES
  mode,    \* what this link does to answers: whole, joins or splits
  sent,    \* the replies of the robot
  link,    \* the chunks on their way
  starts,  \* for each chunk so far the answer it starts with, 0 for a fragment
  buffer,  \* recv_buffer_
  len,     \* bytes of the chunk in it, 0 while a read is pending
  parsed   \* the parsed responses

vars == <<mode, sent, link, starts, buffer, len, parsed>>

Zeros == [i \in 1 .. BufferSize |-> 0]

Init ==
  /\ mode \in {"whole", "joins", "splits"}
  /\ sent = <<>> /\ link = <<>> /\ starts = <<>> /\ buffer = Zeros /\ len = 0 /\ parsed = <<>>

Reply(r, noise) ==
  /\ Len(sent) < MaxReplies
  /\ sent' = Append(sent, r)
  /\ link' = Append(link, noise \o ResponsePacket(r))
  /\ starts' = Append(starts, Len(sent'))
  /\ UNCHANGED <<mode, buffer, len, parsed>>

(* The chunks that have left the link.                                     *)
Gone == Len(starts) - Len(link)

Join ==
  /\ mode = "joins"
  /\ Len(link) > 1
  /\ Len(link[1]) + Len(link[2]) <= BufferSize
  /\ link' = <<link[1] \o link[2]>> \o SubSeq(link, 3, Len(link))
  /\ starts' = RemoveAt(starts, Gone + 2)
  /\ UNCHANGED <<mode, sent, buffer, len, parsed>>

Split(at) ==
  /\ mode = "splits"
  /\ link # <<>> /\ starts[Gone + 1] # 0
  /\ at < Len(link[1])
  /\ link' = <<SubSeq(link[1], 1, at), SubSeq(link[1], at + 1, Len(link[1]))>> \o Tail(link)
  /\ starts' = SubSeq(starts, 1, Gone) \o <<0, 0>> \o SubSeq(starts, Gone + 2, Len(starts))
  /\ UNCHANGED <<mode, sent, buffer, len, parsed>>

ReadSome ==
  /\ len = 0
  /\ link # <<>>
  /\ buffer' = [i \in 1 .. BufferSize |-> IF i <= Len(Head(link)) THEN Head(link)[i] ELSE buffer[i]]
  /\ len' = Len(Head(link))
  /\ link' = Tail(link)
  /\ UNCHANGED <<mode, sent, starts, parsed>>

Markers == {i \in 1 .. BufferSize : buffer[i] = MaxByte}

Bug_Offset == 0

(* The first marker is looked for in all of the buffer.                    *)
Offset == (CHOOSE i \in Markers : \A j \in Markers : i <= j) - 1

Record == [i \in 1 .. BufferSize |-> IF i <= len - Offset THEN buffer[i + Offset] ELSE 0]

(* A chunk without a marker has no meaning in C++: the model stops.        *)
ReadHandler ==
  /\ len > 0
  /\ Markers # {}
  /\ parsed' = Append(parsed, ParseFromInternalData(Record))
  /\ buffer' = Zeros
  /\ len' = 0
  /\ UNCHANGED <<mode, sent, link, starts>>

Next ==
  \/ \E r \in Replies, noise \in Noise : Reply(r, noise)
  \/ \E at \in 1 .. Base + 8 : Split(at)
  \/ Join \/ ReadSome \/ ReadHandler

Spec == Init /\ [][Next]_vars

-----------------------------------------------------------------------------
(* The data of a parsed response includes the checksum DLEN counts.        *)
Received(r) ==
  [sop2 |-> MaxByte, mrsp |-> r.mrsp, seq |-> r.seq,
   data |-> SubSeq(ResponsePacket(r), 6, Len(ResponsePacket(r)))]

TypeOK ==
  /\ mode \in {"whole", "joins", "splits"} /\ starts \in Seq(0 .. MaxReplies)
  /\ sent \in Seq(Replies) /\ link \in Seq(Seq(Byte))
  /\ buffer \in [1 .. BufferSize -> Byte] /\ len \in 0 .. BufferSize
  /\ parsed \in Seq(Responses)

(* Over a link that keeps answers whole, the responses parsed are the      *)
(* answers sent, in order, whatever noise precedes them and whatever their *)
(* data holds, the marker byte included (readHandler,                      *)
(* parseFromInternalData).                                                 *)
AllParsed ==
  mode = "whole" =>
    /\ Len(parsed) + (IF len > 0 THEN 1 ELSE 0) + Len(link) = Len(sent)
    /\ \A i \in DOMAIN parsed : parsed[i] = Received(sent[i])

(* A chunk that starts with a whole answer is parsed as that answer,       *)
(* whatever came before: fragments of a split answer, which may look like  *)
(* answers, leave nothing in recv_buffer_, and of joined answers the first *)
(* is the one that is read (readHandler); assembled again it is the packet *)
(* that was sent.                                                          *)
WholeChunksParsed ==
  /\ Len(parsed) + (IF len > 0 THEN 1 ELSE 0) = Gone
  /\ \A i \in DOMAIN parsed :
       starts[i] # 0 =>
         /\ parsed[i] = Received(sent[starts[i]])
         /\ AssembledResponse(parsed[i]) = ResponsePacket(sent[starts[i]])

(* dataToNumerical reads every number that is whole in the data, at any    *)
(* place, of any width, signed or not, and as its type can hold it.       *)
NumbersRead ==
  \A i \in DOMAIN parsed, width \in {1, 2, 4} :
    \A T \in {Unsigned(width), Signed(width)}, start \in 0 .. Len(parsed[i].data) - width :
      IsNumber(DataToNumerical(parsed[i].data, start, T), parsed[i].data, start, T)
=============================================================================
