------------------------ MODULE ResponseStreamProofs ------------------------
(***************************************************************************)
(* Proofs about ResponseStream, for every number of values a byte can      *)
(* have, all answers, and links that join and split them: types, that      *)
(* whole answers are parsed as what the robot sent, and that the numbers   *)
(* read in them are exact.                                                 *)
(***************************************************************************)
EXTENDS ResponseStream, SpheroPacketProofs

-----------------------------------------------------------------------------
(* The parser.                                                             *)

Buffers == [1 .. BufferSize -> Byte]

(* Whatever a record holds, it is parsed into a response: the length byte  *)
(* leads nowhere beyond the buffer.                                        *)
LEMMA ParsedIsResponse ==
  ASSUME NEW v \in Buffers
  PROVE  ParseFromInternalData(v) \in Responses
<1> DEFINE n == v[5]
           d == [i \in 1 .. n |-> v[i + 5]]
<1>1. BufferSize \in Nat /\ BufferSize >= Base + 5 /\ Base \in Nat /\ Base >= 8
  BY StreamAssumption, BaseAssumption
<1>2. v[2] \in Byte /\ v[3] \in Byte /\ v[4] \in Byte /\ n \in 0 .. Base - 1
  BY <1>1 DEF Buffers, Byte
<1>3. \A i \in 1 .. n : v[i + 5] \in Byte
  <2> SUFFICES ASSUME NEW i \in 1 .. n PROVE v[i + 5] \in Byte
    OBVIOUS
  <2>1. i + 5 \in 1 .. BufferSize
    BY <1>1, <1>2
  <2> QED
    BY <2>1 DEF Buffers
<1>4. d \in Seq(Byte)
  BY <1>2, <1>3
<1>5. ParseFromInternalData(v) = [sop2 |-> v[2], mrsp |-> v[3], seq |-> v[4], data |-> d]
  <2>1. ByteAt(v, 1) = v[2] /\ ByteAt(v, 2) = v[3] /\ ByteAt(v, 3) = v[4] /\ ByteAt(v, 4) = n
    BY DEF ByteAt
  <2>2. [i \in 1 .. n |-> ByteAt(v, i + 4)] = d
    <3> SUFFICES ASSUME NEW i \in 1 .. n PROVE ByteAt(v, i + 4) = v[i + 5]
      OBVIOUS
    <3>1. i + 4 + 1 = i + 5
      BY <1>2
    <3> QED
      BY <3>1 DEF ByteAt
  <2> QED
    BY <2>1, <2>2 DEF ParseFromInternalData
<1> HIDE DEF d, n
<1> QED
  BY <1>2, <1>4, <1>5 DEF Responses

(* The data of a response: what follows the fifth byte of its packet.      *)
LEMMA ReceivedData ==
  ASSUME NEW r \in Answers, Len(r.data) <= MaxData, NEW p, p = ResponsePacket(r)
  PROVE  SubSeq(p, 6, Len(p)) = [i \in 1 .. Len(r.data) + 1 |-> p[i + 5]]
<1> DEFINE m == Len(r.data)
           q == [i \in 1 .. m + 1 |-> p[i + 5]]
           to == Len(p)
<1>1. p \in Seq(Byte) /\ to = 6 + m /\ m \in Nat
  BY ResponseBytes DEF Answers
<1>2. \A i \in 1 .. m + 1 : p[i + 5] \in Byte
  BY <1>1
<1>3. q \in Seq(Byte) /\ Len(q) = m + 1 /\ \A i \in 1 .. m + 1 : q[i] = p[i + 5]
  BY <1>1, <1>2
<1> HIDE DEF q, m
<1>4. to \in Nat /\ 6 \in Nat \ {0} /\ to <= Len(p)
      /\ Len(q) = IF 6 <= to THEN to - 6 + 1 ELSE 0
  BY <1>1, <1>3
<1>5. \A i \in 1 .. Len(q) : q[i] = p[6 + i - 1]
  <2> SUFFICES ASSUME NEW i \in 1 .. m + 1 PROVE q[i] = p[6 + i - 1]
    BY <1>1, <1>3
  <2>1. 6 + i - 1 = i + 5
    BY <1>1
  <2> QED
    BY <1>3, <2>1
<1> HIDE DEF to
<1>6. SubSeq(p, 6, to) = q
  BY <1>1, <1>3, <1>4, <1>5, PartAt
<1> QED
  BY <1>6 DEF q, to, m

(* A record that starts with a packet is parsed as its response ...        *)
LEMMA ParsedIsReceived ==
  ASSUME NEW r \in Answers, Len(r.data) <= MaxData, NEW v,
         \A i \in 1 .. Len(ResponsePacket(r)) : v[i] = ResponsePacket(r)[i]
  PROVE  ParseFromInternalData(v) = Received(r)
<1> DEFINE p == ResponsePacket(r)
           m == Len(r.data)
<1>1. /\ Len(p) = 6 + m /\ m \in Nat
      /\ p[2] = MaxByte /\ p[3] = r.mrsp /\ p[4] = r.seq /\ p[5] = m + 1
  BY ResponseBytes DEF Answers
<1>2. SubSeq(p, 6, Len(p)) = [i \in 1 .. m + 1 |-> p[i + 5]]
  BY ReceivedData
<1>3. \A i \in 1 .. Len(p) : v[i] = p[i]
  OBVIOUS
<1>4. Received(r) = [sop2 |-> MaxByte, mrsp |-> r.mrsp, seq |-> r.seq,
                     data |-> SubSeq(p, 6, Len(p))]
  BY DEF Received
<1> HIDE DEF p, m
<1>5. v[2] = p[2] /\ v[3] = p[3] /\ v[4] = p[4] /\ v[5] = p[5]
  BY <1>1, <1>3
<1>6. ByteAt(v, 1) = MaxByte /\ ByteAt(v, 2) = r.mrsp /\ ByteAt(v, 3) = r.seq
      /\ ByteAt(v, 4) = m + 1
  BY <1>1, <1>5 DEF ByteAt
<1>7. \A i \in 1 .. m + 1 : ByteAt(v, i + 4) = p[i + 5]
  <2> SUFFICES ASSUME NEW i \in 1 .. m + 1 PROVE ByteAt(v, i + 4) = p[i + 5]
    OBVIOUS
  <2>1. i + 4 + 1 = i + 5 /\ i + 5 \in 1 .. Len(p)
    BY <1>1
  <2> QED
    BY <1>3, <2>1 DEF ByteAt
<1>8. [i \in 1 .. ByteAt(v, 4) |-> ByteAt(v, i + 4)] = [i \in 1 .. m + 1 |-> p[i + 5]]
  BY <1>6, <1>7
<1> QED
  BY <1>2, <1>4, <1>6, <1>8 DEF ParseFromInternalData

(* ... which assembled again is the packet.                                *)
LEMMA AssembledIsPacket ==
  ASSUME NEW r \in Answers, Len(r.data) <= MaxData
  PROVE  AssembledResponse(Received(r)) = ResponsePacket(r)
<1> DEFINE p == ResponsePacket(r)
           m == Len(r.data)
           q == SubSeq(p, 6, Len(p))
           five == <<MaxByte, MaxByte, r.mrsp, r.seq, m + 1>>
<1>1. p \in Seq(Byte) /\ Len(p) = 6 + m /\ m \in Nat
  BY ResponseBytes DEF Answers
<1>2. p[1] = MaxByte /\ p[2] = MaxByte /\ p[3] = r.mrsp /\ p[4] = r.seq /\ p[5] = m + 1
  BY ResponseBytes
<1>3. q = [i \in 1 .. m + 1 |-> p[i + 5]]
  BY ReceivedData
<1>4. Received(r) = [sop2 |-> MaxByte, mrsp |-> r.mrsp, seq |-> r.seq, data |-> q]
  BY DEF Received
<1>5. \A i \in 1 .. 5 : five[i] = p[i] /\ p[i] \in Byte
  BY <1>1, <1>2
<1>6. five \in Seq(Byte) /\ Len(five) = 5
  BY <1>1, <1>2, <1>5
<1> HIDE DEF p, m, q, five
<1>7. \A i \in 1 .. m + 1 : p[i + 5] \in Byte
  BY <1>1
<1>8. q \in Seq(Byte) /\ Len(q) = m + 1
  BY <1>1, <1>3, <1>7
<1>9. AssembledResponse(Received(r)) = five \o q
  BY <1>4, <1>8 DEF AssembledResponse, five
<1> DEFINE w == five \o q
           f == Len(five)
<1>10. w \in Seq(Byte) /\ Len(w) = f + Len(q)
       /\ \A i \in 1 .. f + Len(q) : w[i] = IF i <= f THEN five[i] ELSE q[i - f]
  <2>1. five \in Seq(Byte) /\ q \in Seq(Byte)
    BY <1>6, <1>8
  <2> QED
    BY <2>1, ConcatProperties
<1>11. f = 5
  BY <1>6
<1> HIDE DEF w, f
<1>12. Len(w) = Len(p)
  BY <1>1, <1>8, <1>10, <1>11
<1>13. ASSUME NEW i \in 1 .. Len(p) PROVE w[i] = p[i]
  <2>1. w[i] = IF i <= 5 THEN five[i] ELSE q[i - 5]
    BY <1>1, <1>8, <1>10, <1>11
  <2>2. CASE i <= 5
    BY <1>1, <1>5, <2>1, <2>2
  <2>3. CASE i > 5
    <3>1. i - 5 \in 1 .. m + 1 /\ i - 5 + 5 = i
      BY <1>1, <2>3
    <3>2. q[i - 5] = p[i - 5 + 5]
      BY <1>3, <3>1
    <3> QED
      BY <1>1, <2>1, <2>3, <3>1, <3>2
  <2> QED
    BY <1>1, <2>2, <2>3
<1>14. w = p
  BY <1>1, <1>10, <1>12, <1>13, SeqEqual
<1> QED
  BY <1>9, <1>14 DEF w, p

-----------------------------------------------------------------------------
(* The inductive invariant.                                                *)

(* The first m bytes of f: no marker, and then all of packet p.            *)
Begins(f, m, p) ==
  \E n \in 0 .. m :
    /\ n + Len(p) <= m
    /\ \A i \in 1 .. n : f[i] # MaxByte
    /\ \A i \in 1 .. Len(p) : f[n + i] = p[i]

(* Bytes of a chunk that starts with answer a: if it does they hold it.    *)
Holds(f, m, a, answers) ==
  a # 0 => a \in 1 .. Len(answers) /\ Begins(f, m, ResponsePacket(answers[a]))

OnLink ==
  \A k \in 1 .. Len(link) :
    Len(link[k]) \in 1 .. BufferSize /\ Holds(link[k], Len(link[k]), starts[Gone + k], sent)

(* Between two chunks nothing is left in the buffer, and behind one are    *)
(* only zeros.                                                             *)
InBuffer ==
  IF len = 0 THEN buffer = Zeros
  ELSE Gone > 0 /\ Holds(buffer, len, starts[Gone], sent)

Pending == IF len > 0 THEN 1 ELSE 0

ParsedAs(response, a, answers) ==
  a # 0 => a \in 1 .. Len(answers) /\ response = Received(answers[a])

IsParsed ==
  /\ Len(parsed) + Pending = Gone
  /\ \A i \in 1 .. Len(parsed) : ParsedAs(parsed[i], starts[i], sent)

OneToOne ==
  mode = "whole" =>
    Len(starts) = Len(sent) /\ \A i \in 1 .. Len(starts) : starts[i] = i

StreamInv ==
  TypeOK /\ Len(sent) <= MaxReplies /\ OnLink /\ InBuffer /\ IsParsed /\ OneToOne

-----------------------------------------------------------------------------
(* The record of a buffer.                                                 *)

(* The offset is that of the first marker.                                 *)
LEMMA OffsetIsFirst ==
  ASSUME buffer \in Buffers, Markers # {}
  PROVE  Offset \in Nat /\ Offset + 1 \in Markers /\ \A j \in Markers : Offset + 1 <= j
<1> DEFINE first == CHOOSE i \in Markers : \A j \in Markers : i <= j
<1>1. Markers \in SUBSET Nat
  BY DEF Markers
<1>2. \E i \in Markers : \A j \in Markers : i <= j
  <2>1. PICK k \in Markers : TRUE
    OBVIOUS
  <2> QED
    BY <1>1, <2>1, Least
<1>3. first \in Markers /\ \A j \in Markers : first <= j
  BY <1>2
<1>4. Offset = first - 1
  BY DEF Offset
<1> HIDE DEF first
<1>5. first \in Nat \ {0}
  BY <1>3 DEF Markers
<1>6. Offset \in Nat /\ Offset + 1 = first
  BY <1>4, <1>5
<1> QED
  BY <1>3, <1>6

(* A record is as long as the buffer and made of bytes.                    *)
LEMMA RecordIsBuffer ==
  ASSUME buffer \in Buffers, len \in 0 .. BufferSize, Markers # {}
  PROVE  Record \in Buffers
<1>1. BufferSize \in Nat
  BY StreamAssumption
<1>2. Offset \in Nat
  BY OffsetIsFirst
<1>3. 0 \in Byte
  BY BaseAssumption DEF Byte
<1>4. ASSUME NEW i \in 1 .. BufferSize
      PROVE  (IF i <= len - Offset THEN buffer[i + Offset] ELSE 0) \in Byte
  <2>1. CASE i <= len - Offset
    <3>1. i + Offset \in 1 .. BufferSize
      BY <1>1, <1>2, <2>1
    <3> QED
      BY <2>1, <3>1 DEF Buffers
  <2>2. CASE ~ (i <= len - Offset)
    BY <1>3, <2>2
  <2> QED
    BY <2>1, <2>2
<1> QED
  BY <1>4 DEF Record, Buffers

(* The record of a buffer that begins with a packet starts with it.        *)
LEMMA RecordStarts ==
  ASSUME buffer \in Buffers, len \in 0 .. BufferSize, NEW p, Len(p) \in Nat \ {0},
         p[1] = MaxByte, Begins(buffer, len, p)
  PROVE  Markers # {} /\ \A i \in 1 .. Len(p) : Record[i] = p[i]
<1>1. BufferSize \in Nat /\ len \in Nat
  BY StreamAssumption
<1> DEFINE l == Len(p)
<1>2. PICK n \in 0 .. len : /\ n + l <= len
                            /\ \A i \in 1 .. n : buffer[i] # MaxByte
                            /\ \A i \in 1 .. l : buffer[n + i] = p[i]
  BY DEF Begins
<1> HIDE DEF l
<1>3. n + 1 \in Markers
  <2>1. l \in Nat \ {0}
    BY DEF l
  <2>2. n + 1 \in 1 .. BufferSize /\ buffer[n + 1] = p[1]
    BY <1>1, <1>2, <2>1
  <2> QED
    BY <2>2 DEF Markers
<1>4. Markers # {}
  BY <1>3
<1>5. Offset + 1 \in Markers /\ Offset + 1 <= n + 1
  BY <1>3, <1>4, OffsetIsFirst
<1>6. Offset + 1 \in 1 .. BufferSize /\ buffer[Offset + 1] = MaxByte
  BY <1>5 DEF Markers
<1>7. Offset + 1 = n + 1
  <2>1. ~ (Offset + 1 \in 1 .. n)
    BY <1>2, <1>6
  <2> QED
    BY <1>1, <1>2, <1>5, <1>6, <2>1
<1>8. Record = [i \in 1 .. BufferSize |-> IF i <= len - n THEN buffer[i + n] ELSE 0]
  <2>1. Offset = n
    BY <1>1, <1>4, <1>7, OffsetIsFirst
  <2> QED
    BY <2>1 DEF Record
<1>9. ASSUME NEW i \in 1 .. l PROVE Record[i] = p[i]
  <2>1. l \in Nat
    BY DEF l
  <2>2. i \in 1 .. BufferSize /\ i <= len - n /\ i + n = n + i
    BY <1>1, <1>2, <2>1
  <2> QED
    BY <1>2, <1>8, <2>2
<1> QED
  BY <1>4, <1>9 DEF l

-----------------------------------------------------------------------------
(* What Join and Split do to the link and to the answers its chunks start  *)
(* with.                                                                   *)

(* A part of a sequence: its length and its elements.                      *)
LEMMA PartOf ==
  ASSUME NEW S, NEW s \in Seq(S), NEW from \in Nat \ {0}, NEW to \in Nat, to <= Len(s)
  PROVE  /\ SubSeq(s, from, to) \in Seq(S)
         /\ Len(SubSeq(s, from, to)) = IF from <= to THEN to - from + 1 ELSE 0
         /\ \A i \in 1 .. to - from + 1 : SubSeq(s, from, to)[i] = s[from + i - 1]
<1>1. \A i \in from .. to : s[i] \in S
  OBVIOUS
<1> QED
  BY <1>1, SubSeqProperties

(* The first two elements are replaced by one.                             *)
IsJoined(S, l, x, n) ==
  /\ n \in Seq(S) /\ Len(n) = Len(l) - 1 /\ n[1] = x
  /\ \A k \in 2 .. Len(l) - 1 : n[k] = l[k + 1]

LEMMA Joined ==
  ASSUME NEW S, NEW l \in Seq(S), Len(l) > 1, NEW x \in S
  PROVE  IsJoined(S, l, x, <<x>> \o SubSeq(l, 3, Len(l)))
<1> DEFINE n == <<x>> \o SubSeq(l, 3, Len(l))
           h == <<x>>
           to == Len(l)
           t == SubSeq(l, 3, to)
           c == Len(h)
<1>1. to \in Nat /\ to > 1 /\ 3 \in Nat \ {0} /\ to <= Len(l)
  OBVIOUS
<1>2. h \in Seq(S) /\ c = 1 /\ h[1] = x
  OBVIOUS
<1>3. n = h \o t
  OBVIOUS
<1> HIDE DEF to, n
<1>4. t \in Seq(S) /\ Len(t) = to - 2 /\ \A i \in 1 .. to - 2 : t[i] = l[3 + i - 1]
  <2>1. t \in Seq(S)
    BY <1>1, PartOf
  <2>2. Len(t) = IF 3 <= to THEN to - 3 + 1 ELSE 0
    BY <1>1, PartOf
  <2>3. \A i \in 1 .. to - 3 + 1 : t[i] = l[3 + i - 1]
    BY <1>1, PartOf
  <2> HIDE DEF t
  <2>4. to - 3 + 1 = to - 2
    BY <1>1
  <2> QED
    BY <1>1, <2>1, <2>2, <2>3, <2>4
<1> HIDE DEF h, t
<1>5. n \in Seq(S) /\ Len(n) = c + Len(t)
      /\ \A i \in 1 .. c + Len(t) : n[i] = IF i <= c THEN h[i] ELSE t[i - c]
  <2>1. h \in Seq(S) /\ t \in Seq(S)
    BY <1>2, <1>4
  <2> QED
    BY <1>3, <2>1, ConcatProperties
<1> HIDE DEF c
<1>6. Len(n) = to - 1 /\ n[1] = x
  <2>1. c = 1 /\ h[1] = x /\ Len(t) = to - 2
    BY <1>2, <1>4
  <2>2. Len(n) = 1 + (to - 2) /\ n[1] = h[1]
    BY <1>1, <1>5, <2>1
  <2> QED
    BY <1>1, <2>1, <2>2
<1>7. ASSUME NEW k \in 2 .. to - 1 PROVE n[k] = l[k + 1]
  <2>1. n[k] = t[k - 1]
    BY <1>1, <1>2, <1>4, <1>5
  <2>2. k - 1 \in 1 .. to - 2 /\ 3 + (k - 1) - 1 = k + 1
    BY <1>1
  <2>3. t[k - 1] = l[3 + (k - 1) - 1]
    BY <1>4, <2>2
  <2> QED
    BY <2>1, <2>2, <2>3
<1> QED
  BY <1>5, <1>6, <1>7 DEF to, n, IsJoined

(* The start and the end of a sequence.                                    *)
LEMMA StartPart ==
  ASSUME NEW S, NEW s \in Seq(S), NEW to \in Nat, to <= Len(s), NEW u, u = SubSeq(s, 1, to)
  PROVE  u \in Seq(S) /\ Len(u) = to /\ \A i \in 1 .. to : u[i] = s[i]
<1>1. 1 \in Nat \ {0}
  OBVIOUS
<1>2. u \in Seq(S)
  BY <1>1, PartOf
<1>3. Len(u) = IF 1 <= to THEN to - 1 + 1 ELSE 0
  BY <1>1, PartOf
<1>4. \A i \in 1 .. to - 1 + 1 : u[i] = s[1 + i - 1]
  BY <1>1, PartOf
<1>5. ASSUME NEW i \in 1 .. to PROVE u[i] = s[i]
  <2>1. i \in 1 .. to - 1 + 1 /\ 1 + i - 1 = i
    OBVIOUS
  <2>2. u[i] = s[1 + i - 1]
    BY <1>4, <2>1
  <2> QED
    BY <2>1, <2>2
<1> QED
  BY <1>2, <1>3, <1>5

LEMMA EndPart ==
  ASSUME NEW S, NEW s \in Seq(S), NEW from \in Nat \ {0}, from - 1 <= Len(s),
         NEW m, m = Len(s), NEW v, v = SubSeq(s, from, m)
  PROVE  v \in Seq(S) /\ Len(v) = m + 1 - from
         /\ \A i \in 1 .. m + 1 - from : v[i] = s[from + i - 1]
<1>1. m \in Nat /\ m <= Len(s)
  OBVIOUS
<1>2. v \in Seq(S)
  BY <1>1, PartOf
<1>3. Len(v) = IF from <= m THEN m - from + 1 ELSE 0
  BY <1>1, PartOf
<1>4. \A i \in 1 .. m - from + 1 : v[i] = s[from + i - 1]
  BY <1>1, PartOf
<1>5. m - from + 1 = m + 1 - from
  BY <1>1
<1> QED
  BY <1>1, <1>2, <1>3, <1>4, <1>5

(* One element is removed.                                                 *)
IsWithout(S, s, j, n) ==
  /\ n \in Seq(S) /\ Len(n) = Len(s) - 1
  /\ \A i \in 1 .. j - 1 : n[i] = s[i]
  /\ \A i \in j .. Len(s) - 1 : n[i] = s[i + 1]

LEMMA Removed ==
  ASSUME NEW S, NEW s \in Seq(S), NEW j \in 1 .. Len(s)
  PROVE  IsWithout(S, s, j, RemoveAt(s, j))
<1> DEFINE n == RemoveAt(s, j)
           m == Len(s)
           to == j - 1
           from == j + 1
           u == SubSeq(s, 1, to)
           v == SubSeq(s, from, m)
<1>1. m \in Nat /\ j \in Nat /\ 1 <= j /\ j <= m /\ to \in Nat /\ to <= Len(s)
      /\ from \in Nat \ {0} /\ from - 1 <= Len(s) /\ m + 1 - from = m - j
  OBVIOUS
<1>2. n = u \o v
  BY DEF RemoveAt
<1> HIDE DEF to, from, m, n
<1>3. u \in Seq(S) /\ Len(u) = to /\ \A i \in 1 .. to : u[i] = s[i]
  BY <1>1, StartPart
<1>4. v \in Seq(S) /\ Len(v) = m + 1 - from
      /\ \A i \in 1 .. m + 1 - from : v[i] = s[from + i - 1]
  BY <1>1, EndPart DEF m
<1> HIDE DEF u, v
<1>5. n \in Seq(S) /\ Len(n) = Len(u) + Len(v)
      /\ \A i \in 1 .. Len(u) + Len(v) : n[i] = IF i <= Len(u) THEN u[i] ELSE v[i - Len(u)]
  <2>1. u \in Seq(S) /\ v \in Seq(S)
    BY <1>3, <1>4
  <2> QED
    BY <1>2, <2>1, ConcatProperties
<1>6. Len(u) = j - 1 /\ Len(v) = m - j
  BY <1>1, <1>3, <1>4 DEF to
<1>7. Len(n) = m - 1
  BY <1>1, <1>5, <1>6
<1>8. ASSUME NEW i \in 1 .. j - 1 PROVE n[i] = s[i]
  BY <1>1, <1>3, <1>5, <1>6 DEF to
<1>9. ASSUME NEW i \in j .. m - 1 PROVE n[i] = s[i + 1]
  <2>1. i \in 1 .. Len(u) + Len(v) /\ ~ (i <= Len(u))
    BY <1>1, <1>6
  <2>2. n[i] = v[i - (j - 1)]
    BY <1>5, <1>6, <2>1
  <2>3. i - (j - 1) \in 1 .. m + 1 - from /\ from + (i - (j - 1)) - 1 = i + 1
    BY <1>1 DEF from
  <2>4. v[i - (j - 1)] = s[from + (i - (j - 1)) - 1]
    BY <1>4, <2>3
  <2> QED
    BY <2>2, <2>3, <2>4
<1> QED
  BY <1>5, <1>7, <1>8, <1>9 DEF m, n, IsWithout

(* The first element is replaced by two.                                   *)
IsSplitOff(S, l, x, y, n) ==
  /\ n \in Seq(S) /\ Len(n) = Len(l) + 1 /\ n[1] = x /\ n[2] = y
  /\ \A k \in 3 .. Len(l) + 1 : n[k] = l[k - 1]

LEMMA SplitOff ==
  ASSUME NEW S, NEW l \in Seq(S), l # <<>>, NEW x \in S, NEW y \in S
  PROVE  IsSplitOff(S, l, x, y, <<x, y>> \o Tail(l))
<1> DEFINE n == <<x, y>> \o Tail(l)
           h == <<x, y>>
           m == Len(l)
           t == Tail(l)
           c == Len(h)
<1>1. h \in Seq(S) /\ c = 2 /\ h[1] = x /\ h[2] = y
  OBVIOUS
<1>2. t \in Seq(S) /\ m \in Nat \ {0} /\ Len(t) = m - 1 /\ \A i \in 1 .. m - 1 : t[i] = l[i + 1]
  OBVIOUS
<1>3. n = h \o t
  OBVIOUS
<1> HIDE DEF h, m, t, n
<1>4. n \in Seq(S) /\ Len(n) = c + Len(t)
      /\ \A i \in 1 .. c + Len(t) : n[i] = IF i <= c THEN h[i] ELSE t[i - c]
  <2>1. h \in Seq(S) /\ t \in Seq(S)
    BY <1>1, <1>2
  <2> QED
    BY <1>3, <2>1, ConcatProperties
<1> HIDE DEF c
<1>5. Len(n) = m + 1 /\ n[1] = x /\ n[2] = y
  BY <1>1, <1>2, <1>4
<1>6. ASSUME NEW k \in 3 .. m + 1 PROVE n[k] = l[k - 1]
  <2>1. n[k] = t[k - 2]
    BY <1>1, <1>2, <1>4
  <2>2. k - 2 \in 1 .. m - 1 /\ k - 2 + 1 = k - 1
    BY <1>2
  <2>3. t[k - 2] = l[k - 2 + 1]
    BY <1>2, <2>2
  <2> QED
    BY <2>1, <2>2, <2>3
<1> QED
  BY <1>4, <1>5, <1>6 DEF m, n, IsSplitOff

(* A sequence of three parts.                                              *)
IsInRow(S, u, v, w, n) ==
  /\ n \in Seq(S) /\ Len(n) = Len(u) + Len(v) + Len(w)
  /\ \A i \in 1 .. Len(u) : n[i] = u[i]
  /\ \A i \in 1 .. Len(v) : n[Len(u) + i] = v[i]
  /\ \A i \in 1 .. Len(w) : n[Len(u) + Len(v) + i] = w[i]

LEMMA ThreeParts ==
  ASSUME NEW S, NEW u \in Seq(S), NEW v \in Seq(S), NEW w \in Seq(S)
  PROVE  IsInRow(S, u, v, w, u \o v \o w)
<1> DEFINE n == u \o v \o w
           a == Len(u)
           b == Len(v)
           c == Len(w)
<1>1. n \in Seq(S)
  BY ConcatThree, Zenon
<1>2. Len(n) = a + b + c
  BY ConcatThreeLen
<1>3. ASSUME NEW i \in 1 .. a + b + c
      PROVE  n[i] = IF i <= a THEN u[i] ELSE IF i <= a + b THEN v[i - a] ELSE w[i - a - b]
  <2>1. i \in 1 .. Len(u) + Len(v) + Len(w)
    OBVIOUS
  <2>2. (u \o v \o w)[i] = IF i <= Len(u) THEN u[i]
                           ELSE IF i <= Len(u) + Len(v) THEN v[i - Len(u)]
                           ELSE w[i - Len(u) - Len(v)]
    BY <2>1, ConcatThreeAt, ZenonT(60)
  <2> QED
    BY <2>2, Zenon
<1>4. a \in Nat /\ b \in Nat /\ c \in Nat
  OBVIOUS
<1> HIDE DEF a, b, c, n
<1>5. ASSUME NEW i \in 1 .. a PROVE n[i] = u[i]
  BY <1>3, <1>4
<1>6. ASSUME NEW i \in 1 .. b PROVE n[a + i] = v[i]
  <2> DEFINE k == a + i
  <2>1. k \in 1 .. a + b + c /\ ~ (k <= a) /\ k <= a + b /\ k - a = i
    BY <1>4
  <2> HIDE DEF k
  <2>2. n[k] = v[k - a]
    BY <1>3, <2>1
  <2> QED
    BY <1>4, <2>1, <2>2 DEF k
<1>7. ASSUME NEW i \in 1 .. c PROVE n[a + b + i] = w[i]
  <2> DEFINE k == a + b + i
  <2>1. k \in 1 .. a + b + c /\ ~ (k <= a) /\ ~ (k <= a + b) /\ k - a - b = i
    BY <1>4
  <2> HIDE DEF k
  <2>2. n[k] = w[k - a - b]
    BY <1>3, <2>1
  <2> QED
    BY <2>1, <2>2 DEF k
<1> QED
  BY <1>1, <1>2, <1>5, <1>6, <1>7 DEF a, b, c, n, IsInRow

(* An element within is replaced by z twice.                               *)
IsSplitWithin(S, s, z, g, n) ==
  /\ n \in Seq(S) /\ Len(n) = Len(s) + 1
  /\ \A i \in 1 .. g : n[i] = s[i]
  /\ n[g + 1] = z /\ n[g + 2] = z
  /\ \A i \in g + 3 .. Len(s) + 1 : n[i] = s[i - 1]

LEMMA SplitWithin ==
  ASSUME NEW S, NEW s \in Seq(S), NEW z \in S, NEW g \in Nat, g + 1 <= Len(s)
  PROVE  IsSplitWithin(S, s, z, g, SubSeq(s, 1, g) \o <<z, z>> \o SubSeq(s, g + 2, Len(s)))
<1> DEFINE n == SubSeq(s, 1, g) \o <<z, z>> \o SubSeq(s, g + 2, Len(s))
           m == Len(s)
           from == g + 2
           u == SubSeq(s, 1, g)
           v == SubSeq(s, from, m)
           zz == <<z, z>>
<1>1. m \in Nat /\ g <= Len(s) /\ from \in Nat \ {0} /\ from - 1 <= Len(s)
      /\ m + 1 - from = m - g - 1 /\ g + 1 <= m
  OBVIOUS
<1>2. zz \in Seq(S) /\ Len(zz) = 2 /\ zz[1] = z /\ zz[2] = z
  OBVIOUS
<1>3. n = u \o zz \o v
  OBVIOUS
<1> HIDE DEF m, from, zz, n
<1>4. u \in Seq(S) /\ Len(u) = g /\ \A i \in 1 .. g : u[i] = s[i]
  BY <1>1, StartPart
<1>5. v \in Seq(S) /\ Len(v) = m + 1 - from
      /\ \A i \in 1 .. m + 1 - from : v[i] = s[from + i - 1]
  BY <1>1, EndPart DEF m
<1> HIDE DEF u, v
<1> DEFINE q == u \o zz \o v
           e == Len(zz)
           f == Len(u)
<1>6. e = 2 /\ f = g /\ e \in Nat
  BY <1>2, <1>4
<1>7. zz \in Seq(S) /\ \A i \in 1 .. e : zz[i] = z
  BY <1>2
<1> HIDE DEF e, f
<1>8. /\ q \in Seq(S) /\ Len(q) = f + e + Len(v)
      /\ \A i \in 1 .. f : q[i] = u[i]
      /\ \A i \in 1 .. e : q[f + i] = zz[i]
      /\ \A i \in 1 .. Len(v) : q[f + e + i] = v[i]
  <2>1. u \in Seq(S) /\ v \in Seq(S) /\ zz \in Seq(S)
    BY <1>4, <1>5, <1>7
  <2>2. IsInRow(S, u, zz, v, q)
    BY <2>1, ThreeParts
  <2> HIDE DEF q
  <2> QED
    BY <2>2 DEF IsInRow, e, f
<1> HIDE DEF q
<1>9. /\ q \in Seq(S) /\ Len(q) = g + 2 + Len(v)
      /\ \A i \in 1 .. g : q[i] = u[i]
      /\ q[g + 1] = z /\ q[g + 2] = z
      /\ \A i \in 1 .. Len(v) : q[g + 2 + i] = v[i]
  BY <1>2, <1>6, <1>8
<1>10. n = q
  BY <1>3 DEF q
<1>11. Len(q) = m + 1
  BY <1>1, <1>5, <1>9
<1>12. ASSUME NEW i \in 1 .. g PROVE q[i] = s[i]
  BY <1>4, <1>9
<1>13. ASSUME NEW i \in g + 3 .. m + 1 PROVE q[i] = s[i - 1]
  <2>1. i - g - 2 \in 1 .. m + 1 - from /\ from + (i - g - 2) - 1 = i - 1
        /\ g + 2 + (i - g - 2) = i
    BY <1>1 DEF from
  <2>2. v[i - g - 2] = s[from + (i - g - 2) - 1]
    BY <1>5, <2>1
  <2>3. q[g + 2 + (i - g - 2)] = v[i - g - 2]
    BY <1>5, <1>9, <2>1
  <2> QED
    BY <2>1, <2>2, <2>3
<1> QED
  BY <1>9, <1>10, <1>11, <1>12, <1>13 DEF m, n, IsSplitWithin

-----------------------------------------------------------------------------
(* The steps.                                                              *)

(* More bytes behind a packet, and more answers, change nothing.           *)
LEMMA BeginsMore ==
  ASSUME NEW f, NEW g, NEW m \in Nat, NEW w \in Nat, m <= w, NEW p,
         \A i \in 1 .. m : g[i] = f[i], Len(p) \in Nat, Begins(f, m, p)
  PROVE  Begins(g, w, p)
<1> DEFINE l == Len(p)
<1>1. PICK n \in 0 .. m : /\ n + l <= m
                          /\ \A i \in 1 .. n : f[i] # MaxByte
                          /\ \A i \in 1 .. l : f[n + i] = p[i]
  BY DEF Begins
<1>2. l \in Nat
  OBVIOUS
<1> HIDE DEF l
<1>3. n \in 0 .. w /\ n + l <= w
  BY <1>1, <1>2
<1>4. \A i \in 1 .. n : g[i] # MaxByte
  BY <1>1
<1>5. \A i \in 1 .. l : g[n + i] = p[i]
  <2> SUFFICES ASSUME NEW i \in 1 .. l PROVE g[n + i] = p[i]
    OBVIOUS
  <2>1. n + i \in 1 .. m
    BY <1>1, <1>2
  <2> QED
    BY <1>1, <2>1
<1> QED
  BY <1>3, <1>4, <1>5 DEF Begins, l

LEMMA AnswersAreReplies ==
  ASSUME NEW s \in Seq(Replies), NEW a \in 1 .. Len(s)
  PROVE  s[a] \in Answers /\ Len(s[a].data) <= MaxData
<1>1. s[a] \in Replies
  OBVIOUS
<1> QED
  BY <1>1, StreamAssumption DEF Answers

LEMMA HoldsMore ==
  ASSUME NEW f, NEW g, NEW m \in Nat, NEW w \in Nat, m <= w, NEW a, NEW s \in Seq(Replies),
         \A i \in 1 .. m : g[i] = f[i], Holds(f, m, a, s)
  PROVE  Holds(g, w, a, s)
<1> SUFFICES ASSUME a # 0 PROVE a \in 1 .. Len(s) /\ Begins(g, w, ResponsePacket(s[a]))
  BY DEF Holds
<1>1. a \in 1 .. Len(s) /\ Begins(f, m, ResponsePacket(s[a]))
  BY DEF Holds
<1>2. s[a] \in Answers /\ Len(s[a].data) <= MaxData
  BY <1>1, AnswersAreReplies
<1>3. Len(ResponsePacket(s[a])) \in Nat
  <2>1. ResponsePacket(s[a]) \in Seq(Byte)
    BY <1>2, ResponseBytes
  <2> QED
    BY <2>1
<1> QED
  BY <1>1, <1>3, BeginsMore

LEMMA HoldsStill ==
  ASSUME NEW f, NEW m, NEW a, NEW s \in Seq(Replies), NEW r, Holds(f, m, a, s)
  PROVE  Holds(f, m, a, Append(s, r))
<1> SUFFICES ASSUME a # 0
             PROVE  a \in 1 .. Len(Append(s, r))
                    /\ Begins(f, m, ResponsePacket(Append(s, r)[a]))
  BY DEF Holds
<1>1. a \in 1 .. Len(s) /\ Begins(f, m, ResponsePacket(s[a]))
  BY DEF Holds
<1>2. Append(s, r)[a] = s[a] /\ a \in 1 .. Len(Append(s, r))
  BY <1>1
<1> QED
  BY <1>1, <1>2

LEMMA ParsedAsStill ==
  ASSUME NEW v, NEW a, NEW s \in Seq(Replies), NEW r, ParsedAs(v, a, s)
  PROVE  ParsedAs(v, a, Append(s, r))
<1> SUFFICES ASSUME a # 0
             PROVE  a \in 1 .. Len(Append(s, r)) /\ v = Received(Append(s, r)[a])
  BY DEF ParsedAs
<1>1. a \in 1 .. Len(s) /\ v = Received(s[a])
  BY DEF ParsedAs
<1>2. Append(s, r)[a] = s[a] /\ a \in 1 .. Len(Append(s, r))
  BY <1>1
<1> QED
  BY <1>1, <1>2

(* A chunk the robot writes holds the answer behind the noise.             *)
LEMMA WrittenBegins ==
  ASSUME NEW r \in Replies, NEW noise \in Noise, NEW c, c = noise \o ResponsePacket(r)
  PROVE  c \in Seq(Byte) /\ Len(c) \in 1 .. BufferSize /\ Begins(c, Len(c), ResponsePacket(r))
<1> DEFINE p == ResponsePacket(r)
           n == Len(noise)
           l == Len(p)
<1>1. r \in Answers /\ Len(r.data) <= MaxData
  BY StreamAssumption DEF Answers
<1>2. p \in Seq(Byte) /\ l = 6 + Len(r.data) /\ Len(r.data) \in Nat
  BY <1>1, ResponseBytes DEF Answers
<1>3. noise \in Seq(Byte \ {MaxByte}) /\ n + Base + 4 <= BufferSize /\ BufferSize \in Nat
  BY StreamAssumption
<1>4. noise \in Seq(Byte) /\ n \in Nat /\ \A i \in 1 .. n : noise[i] # MaxByte
  BY <1>3
<1> DEFINE w == noise \o p
<1>5. w \in Seq(Byte) /\ Len(w) = n + l
  BY <1>2, <1>4, ConcatProperties
<1>6. \A i \in 1 .. n : w[i] = noise[i]
  BY <1>2, <1>4, InHeader
<1>7. \A i \in 1 .. l : w[n + i] = p[i]
  BY <1>2, <1>4, BehindHeader
<1>8. c = w
  OBVIOUS
<1> HIDE DEF p, w, n, l
<1>9. l \in Nat /\ n + l \in 1 .. BufferSize
  BY <1>1, <1>2, <1>3, <1>4, BaseAssumption DEF MaxData, MaxByte
<1>10. n \in 0 .. Len(c) /\ n + l <= Len(c)
  BY <1>4, <1>5, <1>8, <1>9
<1>11. Begins(c, Len(c), p)
  BY <1>4, <1>6, <1>7, <1>8, <1>10 DEF Begins, l
<1> QED
  BY <1>5, <1>8, <1>9, <1>11 DEF p

(* What the invariant says of the shapes of things.                        *)
LEMMA Shapes ==
  ASSUME StreamInv
  PROVE  /\ link \in Seq(Seq(Byte)) /\ Len(link) \in Nat
         /\ starts \in Seq(0 .. MaxReplies) /\ Len(starts) \in Nat
         /\ sent \in Seq(Replies) /\ Len(sent) \in Nat
         /\ parsed \in Seq(Responses) /\ Len(parsed) \in Nat
         /\ buffer \in Buffers /\ len \in 0 .. BufferSize /\ BufferSize \in Nat
         /\ MaxReplies \in Nat
         /\ Pending \in 0 .. 1 /\ Gone \in Nat /\ Gone = Len(parsed) + Pending
         /\ Len(starts) = Gone + Len(link)
<1>1. /\ link \in Seq(Seq(Byte)) /\ Len(link) \in Nat
      /\ starts \in Seq(0 .. MaxReplies) /\ Len(starts) \in Nat
      /\ sent \in Seq(Replies) /\ Len(sent) \in Nat
      /\ parsed \in Seq(Responses) /\ Len(parsed) \in Nat
      /\ buffer \in Buffers /\ len \in 0 .. BufferSize
  BY DEF StreamInv, TypeOK, Buffers
<1>2. BufferSize \in Nat /\ MaxReplies \in Nat
  BY StreamAssumption
<1>3. Pending \in 0 .. 1
  BY DEF Pending
<1>4. Gone = Len(parsed) + Pending
  BY DEF StreamInv, IsParsed
<1>5. Gone \in Nat
  BY <1>1, <1>3, <1>4
<1>6. Len(starts) = Gone + Len(link)
  BY <1>1 DEF Gone
<1> QED
  BY <1>1, <1>2, <1>3, <1>4, <1>5, <1>6

LEMMA ReplyStep ==
  ASSUME StreamInv, NEW r \in Replies, NEW noise \in Noise, Reply(r, noise)
  PROVE  StreamInv'
<1> DEFINE c == noise \o ResponsePacket(r)
           l == Len(link)
           n == Len(starts)
           a == Len(sent) + 1
<1>1. c \in Seq(Byte) /\ Len(c) \in 1 .. BufferSize /\ Begins(c, Len(c), ResponsePacket(r))
  BY WrittenBegins
<1>2. /\ link' = Append(link, c) /\ starts' = Append(starts, a) /\ sent' = Append(sent, r)
      /\ UNCHANGED <<mode, buffer, len, parsed>> /\ a <= MaxReplies
  <2>1. sent' = Append(sent, r) /\ Len(sent') = a /\ a <= MaxReplies
    BY Shapes, StreamAssumption DEF Reply
  <2> QED
    BY <2>1 DEF Reply
<1> HIDE DEF c
<1>3. /\ l \in Nat /\ Len(link') = l + 1 /\ link'[l + 1] = c /\ link' \in Seq(Seq(Byte))
      /\ \A k \in 1 .. l : link'[k] = link[k]
  BY <1>1, <1>2, Shapes
<1>4. /\ n \in Nat /\ Len(starts') = n + 1 /\ starts'[n + 1] = a
      /\ starts' \in Seq(0 .. MaxReplies)
      /\ \A k \in 1 .. n : starts'[k] = starts[k]
  BY <1>2, Shapes
<1>5. /\ a \in Nat \ {0} /\ Len(sent') = a /\ sent'[a] = r /\ sent' \in Seq(Replies)
  BY <1>2, Shapes
<1> HIDE DEF l, n, a
<1>6. Gone \in Nat /\ n = Gone + l /\ Gone' = Gone
  <2>1. Gone \in Nat /\ n = Gone + l
    BY Shapes DEF n, l
  <2>2. Gone' = Len(starts') - Len(link')
    BY DEF Gone
  <2> QED
    BY <1>3, <1>4, <2>1, <2>2
<1> DEFINE g == Gone
<1>7. TypeOK'
  BY <1>2, <1>3, <1>4, <1>5 DEF StreamInv, TypeOK
<1>8. (Len(sent) <= MaxReplies)'
  BY <1>2, <1>5
<1>9. OnLink'
  <2> SUFFICES ASSUME NEW k \in 1 .. Len(link')
               PROVE  Len(link'[k]) \in 1 .. BufferSize
                      /\ Holds(link'[k], Len(link'[k]), starts'[g + k], sent')
    BY <1>6 DEF OnLink
  <2> HIDE DEF g
  <2>1. CASE k \in 1 .. l
    <3>1. Len(link[k]) \in 1 .. BufferSize /\ Holds(link[k], Len(link[k]), starts[g + k], sent)
      BY <2>1 DEF StreamInv, OnLink, l, g
    <3>2. Holds(link[k], Len(link[k]), starts[g + k], sent')
      BY <1>2, <3>1, Shapes, HoldsStill
    <3>3. g + k \in 1 .. n
      BY <1>3, <1>6, <2>1 DEF g
    <3>4. starts'[g + k] = starts[g + k] /\ link'[k] = link[k]
      BY <1>3, <1>4, <2>1, <3>3
    <3> QED
      BY <3>1, <3>2, <3>4
  <2>2. CASE k = l + 1
    <3>1. g + k = n + 1
      BY <1>3, <1>6, <2>2 DEF g
    <3>2. starts'[g + k] = a /\ link'[k] = c
      BY <1>3, <1>4, <2>2, <3>1
    <3>3. Holds(c, Len(c), a, sent')
      BY <1>1, <1>5 DEF Holds
    <3> QED
      BY <1>1, <3>2, <3>3
  <2> QED
    BY <1>3, <2>1, <2>2
<1>10. InBuffer'
  <2>1. CASE len = 0
    BY <1>2, <2>1 DEF StreamInv, InBuffer, Zeros
  <2>2. CASE len # 0
    <3>1. g > 0 /\ Holds(buffer, len, starts[g], sent)
      BY <2>2 DEF StreamInv, InBuffer
    <3>2. Holds(buffer, len, starts[g], sent')
      BY <1>2, <3>1, Shapes, HoldsStill
    <3>3. g \in 1 .. n
      BY <1>3, <1>6, <3>1
    <3>4. starts'[g] = starts[g]
      BY <1>4, <3>3
    <3> QED
      BY <1>2, <1>6, <2>2, <3>1, <3>2, <3>4 DEF InBuffer
  <2> QED
    BY <2>1, <2>2
<1>11. IsParsed'
  <2>1. Pending' = Pending /\ parsed' = parsed
    BY <1>2 DEF Pending
  <2>4. Len(parsed) \in Nat /\ Pending \in 0 .. 1 /\ Gone = Len(parsed) + Pending
    BY Shapes
  <2>5. n \in Nat /\ l \in Nat /\ n = Gone + l
    BY <1>3, <1>4, <1>6
  <2>6. Len(parsed) <= n
    BY <2>4, <2>5
  <2>2. ASSUME NEW i \in 1 .. Len(parsed) PROVE ParsedAs(parsed[i], starts'[i], sent')
    <3>1. ParsedAs(parsed[i], starts[i], sent)
      BY DEF StreamInv, IsParsed
    <3>2. ParsedAs(parsed[i], starts[i], sent')
      BY <1>2, <3>1, Shapes, ParsedAsStill
    <3>3. i \in 1 .. n
      BY <2>4, <2>5, <2>6
    <3> QED
      BY <1>4, <3>2, <3>3
  <2>3. Len(parsed) + Pending = Gone
    BY DEF StreamInv, IsParsed
  <2> QED
    BY <1>6, <2>1, <2>2, <2>3 DEF IsParsed
<1>12. OneToOne'
  <2> SUFFICES ASSUME mode = "whole"
               PROVE  Len(starts') = Len(sent') /\ \A i \in 1 .. Len(starts') : starts'[i] = i
    BY <1>2 DEF OneToOne
  <2>1. n + 1 = a /\ \A i \in 1 .. n : starts[i] = i
    BY DEF StreamInv, OneToOne, n, a
  <2> QED
    BY <1>4, <1>5, <2>1
<1> QED
  BY <1>7, <1>8, <1>9, <1>10, <1>11, <1>12 DEF StreamInv

LEMMA JoinStep ==
  ASSUME StreamInv, Join
  PROVE  StreamInv'
<1> DEFINE l == Len(link)
           n == Len(starts)
           g == Gone
           x == link[1] \o link[2]
           h == Len(link[1])
<1>1. mode = "joins" /\ UNCHANGED <<mode, sent, buffer, len, parsed>>
  BY DEF Join
<1>2. l > 1 /\ h + Len(link[2]) <= BufferSize
  BY DEF Join
<1>3. link' = <<x>> \o SubSeq(link, 3, Len(link)) /\ starts' = RemoveAt(starts, g + 2)
  BY DEF Join
<1>4. link[1] \in Seq(Byte) /\ link[2] \in Seq(Byte) /\ h \in 1 .. BufferSize
  <2>1. 1 \in 1 .. Len(link) /\ 2 \in 1 .. Len(link)
    <3>1. l \in Nat
      BY Shapes
    <3> QED
      BY <1>2, <3>1
  <2>2. Len(link[1]) \in 1 .. BufferSize
    BY <2>1 DEF StreamInv, OnLink
  <2>3. link \in Seq(Seq(Byte))
    BY Shapes
  <2>4. link[1] \in Seq(Byte) /\ link[2] \in Seq(Byte)
    BY <2>1, <2>3
  <2> QED
    BY <2>2, <2>4
<1> DEFINE first == link[1]
           second == link[2]
<1>5. /\ x \in Seq(Byte) /\ Len(x) = h + Len(second) /\ \A i \in 1 .. h : x[i] = first[i]
  <2>1. x \in Seq(Byte) /\ Len(x) = h + Len(second)
    BY <1>4, ConcatProperties
  <2>2. ASSUME NEW i \in 1 .. h PROVE x[i] = first[i]
    BY <1>4, <2>2, InHeader
  <2> QED
    BY <2>1, <2>2
<1> HIDE DEF x
<1>6. Len(x) \in 1 .. BufferSize /\ h <= Len(x)
  <2>1. Len(second) \in Nat
    BY <1>4
  <2>2. Len(x) = h + Len(second)
    BY <1>5
  <2>3. h + Len(second) <= BufferSize /\ h \in 1 .. BufferSize /\ BufferSize \in Nat
    BY <1>2, <1>4, StreamAssumption
  <2> HIDE DEF h, second
  <2> QED
    BY <2>1, <2>2, <2>3
<1>7. /\ link' \in Seq(Seq(Byte)) /\ Len(link') = l - 1 /\ link'[1] = x
      /\ \A k \in 2 .. l - 1 : link'[k] = link[k + 1]
  <2>1. link \in Seq(Seq(Byte)) /\ x \in Seq(Byte)
    BY <1>5, Shapes
  <2>2. Len(link) > 1
    BY <1>2
  <2>3. IsJoined(Seq(Byte), link, x, <<x>> \o SubSeq(link, 3, Len(link)))
    BY <2>1, <2>2, Joined
  <2>4. IsJoined(Seq(Byte), link, x, link')
    BY <1>3, <2>3, Zenon
  <2> QED
    BY <2>4 DEF IsJoined
<1>8. l \in Nat /\ n \in Nat /\ g \in Nat /\ n = g + l /\ g + 2 \in 1 .. n
  <2>1. l \in Nat /\ n \in Nat /\ g \in Nat /\ n = g + l
    BY Shapes
  <2> HIDE DEF l, n, g
  <2> QED
    BY <1>2, <2>1
<1> DEFINE j == g + 2
<1>9. /\ starts' \in Seq(0 .. MaxReplies) /\ Len(starts') = n - 1
      /\ \A i \in 1 .. j - 1 : starts'[i] = starts[i]
      /\ \A i \in j .. n - 1 : starts'[i] = starts[i + 1]
  <2>1. starts \in Seq(0 .. MaxReplies)
    BY Shapes
  <2>2. j \in 1 .. Len(starts)
    BY <1>8
  <2>3. starts' = RemoveAt(starts, j)
    BY <1>3
  <2> HIDE DEF j
  <2>4. IsWithout(0 .. MaxReplies, starts, j, RemoveAt(starts, j))
    BY <2>1, <2>2, Removed
  <2>5. IsWithout(0 .. MaxReplies, starts, j, starts')
    BY <2>3, <2>4, Zenon
  <2> QED
    BY <2>5 DEF IsWithout
<1>10. g' = g
  <2>1. g' = Len(starts') - Len(link')
    BY DEF Gone
  <2> HIDE DEF l, n, g
  <2> QED
    BY <1>7, <1>8, <1>9, <2>1
<1> HIDE DEF l, n, h
<1>11. \A i \in 1 .. g + 1 : starts'[i] = starts[i]
  <2> HIDE DEF g
  <2>1. j - 1 = g + 1
    BY <1>8
  <2> QED
    BY <1>9, <2>1
<1>12. TypeOK'
  BY <1>1, <1>7, <1>9 DEF StreamInv, TypeOK
<1>13. (Len(sent) <= MaxReplies)'
  BY <1>1 DEF StreamInv
<1>14. OnLink'
  <2> SUFFICES ASSUME NEW k \in 1 .. Len(link')
               PROVE  Len(link'[k]) \in 1 .. BufferSize
                      /\ Holds(link'[k], Len(link'[k]), starts'[g + k], sent)
    BY <1>1, <1>10 DEF OnLink
  <2>1. CASE k = 1
    <3>1. 1 \in 1 .. Len(link)
      BY <1>2, <1>8 DEF l
    <3>2. Holds(first, h, starts[g + 1], sent)
      BY <3>1 DEF StreamInv, OnLink, h
    <3>3. starts'[g + 1] = starts[g + 1]
      <4> HIDE DEF g
      <4>1. g + 1 \in 1 .. g + 1
        BY <1>8
      <4> QED
        BY <1>11, <4>1
    <3>4. h \in Nat /\ Len(x) \in Nat /\ sent \in Seq(Replies)
      BY <1>4, <1>6, Shapes
    <3>5. Holds(x, Len(x), starts[g + 1], sent)
      <4> DEFINE m == Len(x)
                 answer == starts[g + 1]
      <4>1. m \in Nat /\ h <= m
        BY <1>6, <3>4
      <4>2. \A i \in 1 .. h : x[i] = first[i]
        BY <1>5
      <4>3. Holds(first, h, answer, sent)
        BY <3>2
      <4> HIDE DEF m, answer, first
      <4>4. Holds(x, m, answer, sent)
        BY <3>4, <4>1, <4>2, <4>3, HoldsMore
      <4> QED
        BY <4>4 DEF m, answer
    <3> QED
      BY <1>6, <1>7, <2>1, <3>3, <3>5
  <2>2. CASE k # 1
    <3> DEFINE b == k + 1
    <3>1. k \in 2 .. l - 1 /\ b \in 1 .. l
      BY <1>7, <1>8, <2>2
    <3>2. link'[k] = link[b]
      BY <1>7, <3>1
    <3>3. Len(link[b]) \in 1 .. BufferSize /\ Holds(link[b], Len(link[b]), starts[g + b], sent)
      <4> HIDE DEF b
      <4> QED
        BY <3>1 DEF StreamInv, OnLink, l
    <3>4. starts'[g + k] = starts[g + b]
      <4> HIDE DEF g
      <4>1. g + k \in j .. n - 1 /\ g + k + 1 = g + b
        BY <1>7, <1>8, <1>9, <3>1
      <4> QED
        BY <1>9, <4>1
    <3> QED
      BY <3>2, <3>3, <3>4
  <2> QED
    BY <2>1, <2>2
<1>15. InBuffer'
  <2>1. CASE len = 0
    BY <1>1, <2>1 DEF StreamInv, InBuffer, Zeros
  <2>2. CASE len # 0
    <3>1. g > 0 /\ Holds(buffer, len, starts[g], sent)
      BY <2>2 DEF StreamInv, InBuffer
    <3>2. starts'[g] = starts[g]
      <4> HIDE DEF g
      <4>1. g \in 1 .. g + 1
        BY <1>8, <3>1
      <4> QED
        BY <1>11, <4>1
    <3> QED
      BY <1>1, <1>10, <2>2, <3>1, <3>2 DEF InBuffer
  <2> QED
    BY <2>1, <2>2
<1>16. IsParsed'
  <2>1. Pending' = Pending /\ parsed' = parsed /\ sent' = sent
    BY <1>1 DEF Pending
  <2>2. ASSUME NEW i \in 1 .. Len(parsed) PROVE ParsedAs(parsed[i], starts'[i], sent)
    <3>1. ParsedAs(parsed[i], starts[i], sent)
      BY DEF StreamInv, IsParsed
    <3>2. i \in 1 .. g + 1
      <4>1. Len(parsed) \in Nat /\ g \in Nat /\ Len(parsed) <= g
        BY Shapes
      <4> HIDE DEF g
      <4> QED
        BY <4>1
    <3> QED
      BY <1>11, <3>1, <3>2
  <2>3. Len(parsed) + Pending = g
    BY DEF StreamInv, IsParsed
  <2> QED
    BY <1>10, <2>1, <2>2, <2>3 DEF IsParsed
<1>17. OneToOne'
  BY <1>1 DEF OneToOne
<1> QED
  BY <1>12, <1>13, <1>14, <1>15, <1>16, <1>17 DEF StreamInv

LEMMA SplitStep ==
  ASSUME StreamInv, NEW at \in Nat \ {0}, Split(at)
  PROVE  StreamInv'
<1> DEFINE l == Len(link)
           n == Len(starts)
           g == Gone
           first == link[1]
           h == Len(first)
           x == SubSeq(first, 1, at)
           y == SubSeq(first, at + 1, h)
<1>1. mode = "splits" /\ link # <<>> /\ UNCHANGED <<mode, sent, buffer, len, parsed>>
  BY DEF Split
<1>2. at < h
  BY DEF Split
<1>3. link' = <<x, y>> \o Tail(link)
  BY DEF Split
<1>4. starts' = SubSeq(starts, 1, g) \o <<0, 0>> \o SubSeq(starts, g + 2, Len(starts))
  BY DEF Split
<1>5. l \in Nat \ {0} /\ n \in Nat /\ g \in Nat /\ n = g + l /\ g + 1 <= n
  <2>1. l \in Nat \ {0} /\ n \in Nat /\ g \in Nat /\ n = g + l
    BY <1>1, Shapes
  <2> HIDE DEF l, n, g
  <2> QED
    BY <2>1
<1>6. first \in Seq(Byte) /\ h \in 1 .. BufferSize
  <2>1. 1 \in 1 .. Len(link)
    BY <1>5
  <2>2. h \in 1 .. BufferSize
    BY <2>1 DEF StreamInv, OnLink
  <2>3. link \in Seq(Seq(Byte))
    BY Shapes
  <2> QED
    BY <2>1, <2>2, <2>3
<1> HIDE DEF first
<1>7. x \in Seq(Byte) /\ Len(x) \in 1 .. BufferSize
  <2>1. at \in Nat /\ at <= Len(first)
    BY <1>2, <1>6
  <2>2. x \in Seq(Byte) /\ Len(x) = at
    BY <1>6, <2>1, StartPart
  <2> HIDE DEF x, h
  <2> QED
    BY <1>2, <1>6, <2>2, StreamAssumption
<1>8. y \in Seq(Byte) /\ Len(y) \in 1 .. BufferSize
  <2> DEFINE from == at + 1
  <2>1. from \in Nat \ {0} /\ from - 1 <= Len(first) /\ h + 1 - from = h - at
    BY <1>2, <1>6
  <2> HIDE DEF from
  <2>2. SubSeq(first, from, h) \in Seq(Byte) /\ Len(SubSeq(first, from, h)) = h + 1 - from
    BY <1>6, <2>1, EndPart
  <2>3. y \in Seq(Byte) /\ Len(y) = h - at
    BY <2>1, <2>2 DEF from
  <2> HIDE DEF y, h
  <2> QED
    BY <1>2, <1>6, <2>3, StreamAssumption
<1> HIDE DEF x, y
<1>9. /\ link' \in Seq(Seq(Byte)) /\ Len(link') = l + 1 /\ link'[1] = x /\ link'[2] = y
      /\ \A k \in 3 .. l + 1 : link'[k] = link[k - 1]
  <2>1. link \in Seq(Seq(Byte)) /\ link # <<>>
    BY <1>1, Shapes
  <2>2. x \in Seq(Byte) /\ y \in Seq(Byte)
    BY <1>7, <1>8
  <2>3. IsSplitOff(Seq(Byte), link, x, y, <<x, y>> \o Tail(link))
    BY <2>1, <2>2, SplitOff
  <2>4. IsSplitOff(Seq(Byte), link, x, y, link')
    BY <1>3, <2>3, Zenon
  <2> QED
    BY <2>4 DEF IsSplitOff
<1>10. /\ starts' \in Seq(0 .. MaxReplies) /\ Len(starts') = n + 1
       /\ \A i \in 1 .. g : starts'[i] = starts[i]
       /\ starts'[g + 1] = 0 /\ starts'[g + 2] = 0
       /\ \A i \in g + 3 .. n + 1 : starts'[i] = starts[i - 1]
  <2>1. starts \in Seq(0 .. MaxReplies) /\ 0 \in 0 .. MaxReplies
    BY Shapes
  <2>2. g \in Nat /\ g + 1 <= Len(starts)
    BY <1>5
  <2> HIDE DEF g
  <2>3. IsSplitWithin(0 .. MaxReplies, starts, 0, g,
          SubSeq(starts, 1, g) \o <<0, 0>> \o SubSeq(starts, g + 2, Len(starts)))
    BY <2>1, <2>2, SplitWithin
  <2>4. IsSplitWithin(0 .. MaxReplies, starts, 0, g, starts')
    BY <1>4, <2>3, Zenon
  <2> QED
    BY <2>4 DEF IsSplitWithin
<1>11. g' = g
  <2>1. g' = Len(starts') - Len(link')
    BY DEF Gone
  <2> HIDE DEF l, n, g
  <2> QED
    BY <1>5, <1>9, <1>10, <2>1
<1> HIDE DEF l, n, h
<1>12. TypeOK'
  BY <1>1, <1>9, <1>10 DEF StreamInv, TypeOK
<1>13. (Len(sent) <= MaxReplies)'
  BY <1>1 DEF StreamInv
<1>14. OnLink'
  <2> SUFFICES ASSUME NEW k \in 1 .. Len(link')
               PROVE  Len(link'[k]) \in 1 .. BufferSize
                      /\ Holds(link'[k], Len(link'[k]), starts'[g + k], sent)
    BY <1>1, <1>11 DEF OnLink
  <2>1. CASE k = 1
    BY <1>7, <1>9, <1>10, <2>1 DEF Holds
  <2>2. CASE k = 2
    BY <1>8, <1>9, <1>10, <2>2 DEF Holds
  <2>3. CASE k # 1 /\ k # 2
    <3> DEFINE b == k - 1
    <3>1. k \in 3 .. l + 1 /\ b \in 1 .. l
      BY <1>5, <1>9, <2>3
    <3>2. link'[k] = link[b]
      BY <1>9, <3>1
    <3>3. Len(link[b]) \in 1 .. BufferSize /\ Holds(link[b], Len(link[b]), starts[g + b], sent)
      <4> HIDE DEF b
      <4> QED
        BY <3>1 DEF StreamInv, OnLink, l
    <3>4. starts'[g + k] = starts[g + b]
      <4> HIDE DEF g
      <4> DEFINE i == g + k
      <4>1. i \in g + 3 .. n + 1 /\ i - 1 = g + b
        BY <1>5, <3>1
      <4> HIDE DEF i, b
      <4>2. starts'[i] = starts[i - 1]
        BY <1>10, <4>1
      <4>3. starts'[i] = starts[g + b]
        BY <4>1, <4>2
      <4> QED
        BY <4>3 DEF i
    <3> QED
      BY <3>2, <3>3, <3>4
  <2> QED
    BY <2>1, <2>2, <2>3
<1>15. InBuffer'
  <2>1. CASE len = 0
    BY <1>1, <2>1 DEF StreamInv, InBuffer, Zeros
  <2>2. CASE len # 0
    <3>1. g > 0 /\ Holds(buffer, len, starts[g], sent)
      BY <2>2 DEF StreamInv, InBuffer
    <3>2. starts'[g] = starts[g]
      <4> HIDE DEF g
      <4>1. g \in 1 .. g
        BY <1>5, <3>1
      <4> QED
        BY <1>10, <4>1
    <3> QED
      BY <1>1, <1>11, <2>2, <3>1, <3>2 DEF InBuffer
  <2> QED
    BY <2>1, <2>2
<1>16. IsParsed'
  <2>1. Pending' = Pending /\ parsed' = parsed /\ sent' = sent
    BY <1>1 DEF Pending
  <2>2. ASSUME NEW i \in 1 .. Len(parsed) PROVE ParsedAs(parsed[i], starts'[i], sent)
    <3>1. ParsedAs(parsed[i], starts[i], sent)
      BY DEF StreamInv, IsParsed
    <3>2. i \in 1 .. g
      BY <1>5, Shapes
    <3> QED
      BY <1>10, <3>1, <3>2
  <2>3. Len(parsed) + Pending = g
    BY DEF StreamInv, IsParsed
  <2> QED
    BY <1>11, <2>1, <2>2, <2>3 DEF IsParsed
<1>17. OneToOne'
  BY <1>1 DEF OneToOne
<1> QED
  BY <1>12, <1>13, <1>14, <1>15, <1>16, <1>17 DEF StreamInv

LEMMA ReadSomeStep ==
  ASSUME StreamInv, ReadSome
  PROVE  StreamInv'
<1> DEFINE l == Len(link)
           n == Len(starts)
           g == Gone
           c == link[1]
           m == Len(c)
<1>1. /\ len = 0 /\ link # <<>> /\ len' = m /\ link' = Tail(link)
      /\ buffer' = [i \in 1 .. BufferSize |-> IF i <= m THEN c[i] ELSE buffer[i]]
      /\ UNCHANGED <<mode, sent, starts, parsed>>
  BY DEF ReadSome
<1>2. l \in Nat \ {0} /\ n \in Nat /\ g \in Nat /\ n = g + l
  BY <1>1, Shapes
<1>3. /\ link' \in Seq(Seq(Byte)) /\ Len(link') = l - 1
      /\ \A k \in 1 .. l - 1 : link'[k] = link[k + 1]
  BY <1>1, Shapes
<1>4. c \in Seq(Byte) /\ m \in 1 .. BufferSize /\ Holds(c, m, starts[g + 1], sent)
  <2>1. 1 \in 1 .. Len(link)
    BY <1>2
  <2>2. m \in 1 .. BufferSize /\ Holds(c, m, starts[g + 1], sent)
    BY <2>1 DEF StreamInv, OnLink
  <2>3. link \in Seq(Seq(Byte))
    BY Shapes
  <2>4. c \in Seq(Byte)
    BY <2>1, <2>3
  <2> QED
    BY <2>2, <2>4
<1>5. \A i \in 1 .. m : c[i] \in Byte
  BY <1>4
<1> HIDE DEF l, n, c, m
<1>6. g' = g + 1
  <2>1. g' = Len(starts') - Len(link')
    BY DEF Gone
  <2>2. Len(starts') = n /\ Len(link') = l - 1
    BY <1>1, <1>3 DEF n
  <2>3. g' = n - (l - 1)
    BY <2>1, <2>2
  <2>4. n - (l - 1) = g + 1
    <3> HIDE DEF g
    <3> QED
      BY <1>2
  <2> QED
    BY <2>3, <2>4
<1>7. /\ buffer' \in Buffers /\ \A i \in 1 .. m : buffer'[i] = c[i]
  <2>1. buffer \in Buffers /\ BufferSize \in Nat
    BY Shapes
  <2>2. ASSUME NEW i \in 1 .. BufferSize
        PROVE  (IF i <= m THEN c[i] ELSE buffer[i]) \in Byte
    <3>1. CASE i <= m
      BY <1>4, <1>5, <2>1, <3>1
    <3>2. CASE ~ (i <= m)
      BY <2>1, <3>2 DEF Buffers
    <3> QED
      BY <3>1, <3>2
  <2> QED
    BY <1>1, <1>4, <2>1, <2>2 DEF Buffers
<1>8. TypeOK'
  BY <1>1, <1>3, <1>4, <1>7, Shapes DEF StreamInv, TypeOK, Buffers
<1>9. (Len(sent) <= MaxReplies)'
  BY <1>1 DEF StreamInv
<1>10. OnLink'
  <2> SUFFICES ASSUME NEW k \in 1 .. Len(link')
               PROVE  Len(link'[k]) \in 1 .. BufferSize
                      /\ Holds(link'[k], Len(link'[k]), starts[g + 1 + k], sent)
    BY <1>1, <1>6 DEF OnLink
  <2> DEFINE j == k + 1
  <2>1. j \in 1 .. l /\ k \in 1 .. l - 1
    BY <1>2, <1>3
  <2>2. g + 1 + k = g + j
    <3> HIDE DEF g
    <3> QED
      BY <1>2, <2>1
  <2>3. link'[k] = link[j]
    BY <1>3, <2>1
  <2> HIDE DEF j
  <2>4. Len(link[j]) \in 1 .. BufferSize /\ Holds(link[j], Len(link[j]), starts[g + j], sent)
    BY <2>1 DEF StreamInv, OnLink, l
  <2> QED
    BY <2>2, <2>3, <2>4
<1>11. InBuffer'
  <2>1. m \in Nat /\ m # 0 /\ sent \in Seq(Replies)
    BY <1>4, Shapes
  <2>2. Holds(buffer', m, starts[g + 1], sent)
    BY <1>4, <1>7, <2>1, HoldsMore
  <2>3. g + 1 > 0
    <3> HIDE DEF g
    <3> QED
      BY <1>2
  <2> QED
    BY <1>1, <1>6, <2>1, <2>2, <2>3 DEF InBuffer
<1>12. IsParsed'
  <2>1. Pending = 0 /\ Pending' = 1
    BY <1>1, <1>4 DEF Pending
  <2>2. Len(parsed) + Pending = g /\ \A i \in 1 .. Len(parsed) : ParsedAs(parsed[i], starts[i], sent)
    BY DEF StreamInv, IsParsed
  <2>3. Len(parsed) + 1 = g + 1
    <3> HIDE DEF g
    <3> QED
      BY <2>1, <2>2, Shapes
  <2> QED
    BY <1>1, <1>6, <2>1, <2>2, <2>3 DEF IsParsed
<1>13. OneToOne'
  BY <1>1 DEF StreamInv, OneToOne
<1> QED
  BY <1>8, <1>9, <1>10, <1>11, <1>12, <1>13 DEF StreamInv

(* Only a response read from the start of a packet is known.               *)
LEMMA ReadHandlerStep ==
  ASSUME StreamInv, ReadHandler
  PROVE  StreamInv'
<1> DEFINE g == Gone
           v == ParseFromInternalData(Record)
           n == Len(parsed)
<1>1. /\ len > 0 /\ Markers # {} /\ parsed' = Append(parsed, v) /\ buffer' = Zeros /\ len' = 0
      /\ UNCHANGED <<mode, sent, link, starts>>
  BY DEF ReadHandler
<1>2. v \in Responses
  <2>1. Record \in Buffers
    BY <1>1, Shapes, RecordIsBuffer
  <2> QED
    BY <2>1, ParsedIsResponse
<1>3. ParsedAs(v, starts[g], sent)
  <2> SUFFICES ASSUME starts[g] # 0
               PROVE  starts[g] \in 1 .. Len(sent) /\ v = Received(sent[starts[g]])
    BY DEF ParsedAs
  <2> DEFINE r == sent[starts[g]]
             p == ResponsePacket(r)
  <2>1. starts[g] \in 1 .. Len(sent) /\ Begins(buffer, len, p)
    BY <1>1 DEF StreamInv, InBuffer, Holds
  <2>2. r \in Answers /\ Len(r.data) <= MaxData
    BY <2>1, Shapes, AnswersAreReplies
  <2>3. p \in Seq(Byte) /\ Len(p) = 6 + Len(r.data) /\ p[1] = MaxByte
    BY <2>2, ResponseBytes
  <2>4. Len(p) \in Nat \ {0}
    BY <2>2, <2>3 DEF Answers
  <2> HIDE DEF p
  <2>5. \A i \in 1 .. Len(p) : Record[i] = p[i]
    BY <2>1, <2>3, <2>4, Shapes, RecordStarts
  <2> QED
    BY <2>1, <2>2, <2>5, ParsedIsReceived DEF p
<1> HIDE DEF v
<1>4. /\ n \in Nat /\ parsed' \in Seq(Responses) /\ Len(parsed') = n + 1 /\ parsed'[n + 1] = v
      /\ \A i \in 1 .. n : parsed'[i] = parsed[i]
  BY <1>1, <1>2, Shapes
<1>5. g' = g /\ g = n + 1
  <2>1. Pending = 1
    BY <1>1 DEF Pending
  <2> QED
    BY <1>1, <2>1, Shapes DEF Gone
<1>6. TypeOK'
  <2>1. 0 \in Byte
    BY BaseAssumption DEF Byte
  <2> QED
    BY <1>1, <1>4, <2>1, Shapes DEF StreamInv, TypeOK, Zeros
<1>7. (Len(sent) <= MaxReplies)'
  BY <1>1 DEF StreamInv
<1>8. OnLink'
  BY <1>1, <1>5 DEF StreamInv, OnLink
<1>9. InBuffer'
  BY <1>1 DEF InBuffer, Zeros
<1>10. IsParsed'
  <2>1. Pending' = 0
    BY <1>1 DEF Pending
  <2>2. ASSUME NEW i \in 1 .. n + 1 PROVE ParsedAs(parsed'[i], starts[i], sent)
    <3>1. CASE i \in 1 .. n
      BY <1>4, <3>1 DEF StreamInv, IsParsed
    <3>2. CASE i = n + 1
      BY <1>3, <1>4, <1>5, <3>2
    <3> QED
      BY <1>4, <3>1, <3>2
  <2> QED
    BY <1>1, <1>4, <1>5, <2>1, <2>2 DEF IsParsed
<1>11. OneToOne'
  BY <1>1 DEF StreamInv, OneToOne
<1> QED
  BY <1>6, <1>7, <1>8, <1>9, <1>10, <1>11 DEF StreamInv

-----------------------------------------------------------------------------
(* The theorems.                                                           *)

LEMMA StreamInvInductive ==
  Spec => []StreamInv
<1>1. Init => StreamInv
  <2> SUFFICES ASSUME Init PROVE StreamInv
    OBVIOUS
  <2>1. BufferSize \in Nat /\ MaxReplies \in Nat /\ 0 \in Byte
    BY StreamAssumption, BaseAssumption DEF Byte
  <2>2. TypeOK
    BY <2>1 DEF Init, TypeOK, Zeros
  <2>3. Len(sent) <= MaxReplies /\ OnLink /\ InBuffer /\ OneToOne
    BY <2>1 DEF Init, OnLink, InBuffer, OneToOne
  <2>4. IsParsed
    BY DEF Init, IsParsed, Pending, Gone
  <2> QED
    BY <2>2, <2>3, <2>4 DEF StreamInv
<1>2. StreamInv /\ [Next]_vars => StreamInv'
  <2> SUFFICES ASSUME StreamInv, [Next]_vars PROVE StreamInv'
    OBVIOUS
  <2>1. CASE \E r \in Replies, noise \in Noise : Reply(r, noise)
    BY <2>1, ReplyStep
  <2>2. CASE \E at \in 1 .. Base + 8 : Split(at)
    <3>1. \A at \in 1 .. Base + 8 : at \in Nat \ {0}
      BY BaseAssumption
    <3> QED
      BY <2>2, <3>1, SplitStep
  <2>3. CASE Join
    BY <2>3, JoinStep
  <2>4. CASE ReadSome
    BY <2>4, ReadSomeStep
  <2>5. CASE ReadHandler
    BY <2>5, ReadHandlerStep
  <2>6. CASE UNCHANGED vars
    BY <2>6 DEF vars, StreamInv, TypeOK, OnLink, Gone, InBuffer, Zeros, IsParsed, Pending, OneToOne
  <2> QED
    BY <2>1, <2>2, <2>3, <2>4, <2>5, <2>6 DEF Next
<1> QED
  BY <1>1, <1>2, PTL DEF Spec

(* The buffer and the parsed responses hold bytes, whatever the link does  *)
(* to the answers: a length byte leads parseFromInternalData() nowhere     *)
(* beyond the record.                                                      *)
THEOREM TypeCorrect == Spec => []TypeOK
<1>1. StreamInv => TypeOK
  BY DEF StreamInv
<1> QED
  BY <1>1, StreamInvInductive, PTL

(* Over a link that keeps answers whole, the responses parsed are the      *)
(* answers sent, in order, whatever noise precedes them and whatever their *)
(* data holds (readHandler, parseFromInternalData).                        *)
THEOREM AllParsedCorrect == Spec => []AllParsed
<1>1. StreamInv => AllParsed
  <2> SUFFICES ASSUME StreamInv, mode = "whole"
               PROVE  /\ Len(parsed) + (IF len > 0 THEN 1 ELSE 0) + Len(link) = Len(sent)
                      /\ \A i \in DOMAIN parsed : parsed[i] = Received(sent[i])
    BY DEF AllParsed
  <2>1. Len(starts) = Len(sent) /\ \A i \in 1 .. Len(starts) : starts[i] = i
    BY DEF StreamInv, OneToOne
  <2>2. Len(parsed) + Pending + Len(link) = Len(sent)
    BY <2>1, Shapes
  <2>3. ASSUME NEW i \in 1 .. Len(parsed) PROVE parsed[i] = Received(sent[i])
    <3>1. i \in 1 .. Len(starts) /\ i # 0
      BY Shapes
    <3>2. starts[i] = i
      BY <2>1, <3>1
    <3>3. ParsedAs(parsed[i], i, sent)
      BY <3>2 DEF StreamInv, IsParsed
    <3> QED
      BY <3>1, <3>3 DEF ParsedAs
  <2>4. DOMAIN parsed = 1 .. Len(parsed)
    BY Shapes
  <2> QED
    BY <2>2, <2>3, <2>4 DEF Pending
<1> QED
  BY <1>1, StreamInvInductive, PTL

(* A chunk that starts with a whole answer is parsed as that answer,       *)
(* whatever came before it and whatever is joined to it, and assembled     *)
(* again it is the packet that was sent (readHandler,                      *)
(* parseFromInternalData, SpheroPacket::assemble).                         *)
THEOREM WholeChunksCorrect == Spec => []WholeChunksParsed
<1>1. StreamInv => WholeChunksParsed
  <2> SUFFICES ASSUME StreamInv PROVE WholeChunksParsed
    OBVIOUS
  <2>1. Len(parsed) + Pending = Gone /\ DOMAIN parsed = 1 .. Len(parsed)
    BY Shapes
  <2>2. ASSUME NEW i \in 1 .. Len(parsed), starts[i] # 0
        PROVE  /\ parsed[i] = Received(sent[starts[i]])
               /\ AssembledResponse(parsed[i]) = ResponsePacket(sent[starts[i]])
    <3>1. ParsedAs(parsed[i], starts[i], sent)
      BY DEF StreamInv, IsParsed
    <3>2. starts[i] \in 1 .. Len(sent) /\ parsed[i] = Received(sent[starts[i]])
      BY <2>2, <3>1 DEF ParsedAs
    <3> DEFINE r == sent[starts[i]]
    <3>3. r \in Answers /\ Len(r.data) <= MaxData
      BY <3>2, Shapes, AnswersAreReplies
    <3> HIDE DEF r
    <3>4. AssembledResponse(Received(r)) = ResponsePacket(r)
      BY <3>3, AssembledIsPacket
    <3> QED
      BY <3>2, <3>4 DEF r
  <2> QED
    BY <2>1, <2>2 DEF WholeChunksParsed, Pending
<1> QED
  BY <1>1, StreamInvInductive, PTL

-----------------------------------------------------------------------------
(* dataToNumerical() reads every number that is whole in the data of every *)
(* parsed response, at any place and of every type, signed ones included;  *)
(* the invariant that is needed is the types: all data are bytes.          *)
THEOREM NumbersCorrect == Spec => []NumbersRead
<1>1. StreamInv => NumbersRead
  <2> SUFFICES ASSUME StreamInv, NEW i \in DOMAIN parsed, NEW width \in {1, 2, 4},
                      NEW T \in {Unsigned(width), Signed(width)},
                      NEW start \in 0 .. Len(parsed[i].data) - width
               PROVE  IsNumber(DataToNumerical(parsed[i].data, start, T), parsed[i].data, start, T)
    BY DEF NumbersRead
  <2>1. parsed \in Seq(Responses)
    BY DEF StreamInv, TypeOK
  <2>2. parsed[i] \in Responses
    BY <2>1
  <2>3. parsed[i].data \in Seq(Byte)
    BY <2>2 DEF Responses
  <2>4. T \in Types /\ T.width = width
    BY DEF Types, Unsigned, Signed
  <2>5. start \in Nat /\ start + T.width <= Len(parsed[i].data)
    <3> DEFINE size == Len(parsed[i].data)
    <3>1. size \in Nat
      BY <2>3
    <3> HIDE DEF size
    <3> QED
      BY <2>4, <3>1 DEF size
  <2> QED
    BY <2>3, <2>4, <2>5, NumberIsRead
<1> QED
  BY <1>1, StreamInvInductive, PTL

=============================================================================
