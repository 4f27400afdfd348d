------------------------- MODULE SpheroPacketProofs -------------------------
(***************************************************************************)
(* Facts about SpheroPacket, for every number of values a byte can have    *)
(* and every length of data: induction over the naturals, the sum of a     *)
(* sequence, what the robot reads from an assembled command, the bytes of  *)
(* an answer, and what dataToNumerical() reads.                            *)
(***************************************************************************)
EXTENDS SpheroPacket, FiniteSetTheorems, SequenceTheorems, TLAPS

-----------------------------------------------------------------------------
(* Induction for a set of naturals, from the fact that strict inclusion of *)
(* finite sets is well founded.                                            *)

(* Of the naturals in a set one is the least.                              *)
LEMMA Least ==
  ASSUME NEW T \in SUBSET Nat, NEW k \in T
  PROVE  \E m \in T : \A n \in T : m <= n
<1> DEFINE Below == {0 .. n : n \in T}
           R == StrictSubsetOrdering(Nat)
           F == FiniteSubsetsOf(Nat)
<1>1. IsWellFoundedOn(R, F)
  BY FS_StrictSubsetOrderingWellFounded
<1>2. Below \subseteq F
  <2> SUFFICES ASSUME NEW n \in T PROVE 0 .. n \in F
    OBVIOUS
  <2>1. IsFiniteSet(0 .. n)
    BY FS_Interval
  <2>2. 0 .. n \subseteq Nat
    OBVIOUS
  <2> QED
    BY <2>1, <2>2 DEF FiniteSubsetsOf
<1>3. Below # {}
  OBVIOUS
<1>4. PICK M \in Below : \A U \in Below : ~ (<<U, M>> \in R)
  <2> HIDE DEF Below, R, F
  <2> QED
    BY <1>1, <1>2, <1>3, WFMin
<1>5. PICK m \in T : M = 0 .. m
  OBVIOUS
<1>6. ASSUME NEW n \in T, n < m PROVE FALSE
  <2>1. 0 .. n \in SUBSET Nat /\ 0 .. m \in SUBSET Nat
    OBVIOUS
  <2>2. 0 .. n \subseteq 0 .. m /\ m \in 0 .. m /\ m \notin 0 .. n
    BY <1>6
  <2>3. <<0 .. n, 0 .. m>> \in R
    BY <2>1, <2>2 DEF StrictSubsetOrdering
  <2> QED
    BY <1>4, <1>5, <2>3
<1> QED
  BY <1>6

(* A set that has 0, and n + 1 with every n, has every natural.            *)
LEMMA Induction ==
  ASSUME NEW T \in SUBSET Nat, 0 \in T, \A n \in T : n + 1 \in T
  PROVE  \A n \in Nat : n \in T
<1> SUFFICES ASSUME NEW n \in Nat, n \notin T PROVE FALSE
  OBVIOUS
<1> DEFINE R == {i \in Nat : i \notin T}
<1>1. R \in SUBSET Nat /\ n \in R
  OBVIOUS
<1>2. PICK m \in R : \A i \in R : m <= i
  <2> HIDE DEF R
  <2> QED
    BY <1>1, Least
<1>3. m # 0 /\ m \in Nat
  OBVIOUS
<1>4. m - 1 \in Nat
  BY <1>3
<1>5. m - 1 \notin R
  BY <1>2, <1>4
<1>6. m - 1 \in T
  BY <1>4, <1>5
<1> QED
  BY <1>3, <1>6

-----------------------------------------------------------------------------
(* The sum of a sequence.                                                  *)

(* What Sum adds up: for every n the sum of the first n.                   *)
IsSums(s, n, g) == g = [i \in 0 .. n |-> IF i = 0 THEN 0 ELSE g[i - 1] + s[i]]

Sums(s) == CHOOSE g : IsSums(s, Len(s), g)

(* There is such a function ...                                            *)
LEMMA SumsExist ==
  ASSUME NEW s
  PROVE  \A n \in Nat : \E g : IsSums(s, n, g)
<1> DEFINE T == {n \in Nat : \E g : IsSums(s, n, g)}
<1>1. 0 \in T
  <2> DEFINE g == [i \in 0 .. 0 |-> 0]
  <2>1. g = [i \in 0 .. 0 |-> IF i = 0 THEN 0 ELSE g[i - 1] + s[i]]
    OBVIOUS
  <2> QED
    BY <2>1 DEF IsSums
<1>2. ASSUME NEW n \in T PROVE n + 1 \in T
  <2>1. PICK g : IsSums(s, n, g)
    OBVIOUS
  <2> DEFINE h == [i \in 0 .. n + 1 |-> IF i = n + 1 THEN g[n] + s[n + 1] ELSE g[i]]
  <2>2. ASSUME NEW i \in 0 .. n + 1
        PROVE  h[i] = IF i = 0 THEN 0 ELSE h[i - 1] + s[i]
    BY <2>1 DEF IsSums
  <2>3. IsSums(s, n + 1, h)
    BY <2>2 DEF IsSums
  <2> QED
    BY <2>3
<1>3. T \in SUBSET Nat
  OBVIOUS
<1>4. \A n \in Nat : n \in T
  <2> HIDE DEF T
  <2> QED
    BY <1>1, <1>2, <1>3, Induction
<1> QED
  BY <1>4

(* ... so that the sum is the last value of one.                           *)
LEMMA SumIsLast ==
  ASSUME NEW s \in Seq(Nat)
  PROVE  IsSums(s, Len(s), Sums(s)) /\ Sum(s) = Sums(s)[Len(s)]
<1>1. \E g : IsSums(s, Len(s), g)
  BY SumsExist, LenProperties
<1>2. IsSums(s, Len(s), Sums(s))
  BY <1>1 DEF Sums
<1>3. Sum(s) = Sums(s)[Len(s)]
  BY DEF Sum, Sums, IsSums
<1> QED
  BY <1>2, <1>3

(* The sum of no bytes, and of bytes and one more.                         *)
LEMMA SumOfEmpty ==
  Sum(<<>>) = 0
<1> DEFINE e == <<>>
<1>1. e \in Seq(Nat) /\ Len(e) = 0
  OBVIOUS
<1>2. IsSums(e, 0, Sums(e)) /\ Sum(e) = Sums(e)[0]
  BY <1>1, SumIsLast
<1> QED
  BY <1>2 DEF IsSums

LEMMA SumOfAppend ==
  ASSUME NEW s \in Seq(Nat), NEW x \in Nat
  PROVE  Sum(Append(s, x)) = Sum(s) + x
<1> DEFINE t == Append(s, x)
           m == Len(s)
<1>1. t \in Seq(Nat) /\ Len(t) = m + 1 /\ m \in Nat /\ t[m + 1] = x
      /\ \A i \in 1 .. m : t[i] = s[i]
  OBVIOUS
<1>2. IsSums(s, m, Sums(s)) /\ Sum(s) = Sums(s)[m]
  BY SumIsLast
<1>3. IsSums(t, m + 1, Sums(t)) /\ Sum(t) = Sums(t)[m + 1]
  BY <1>1, SumIsLast
<1> HIDE DEF t, m
<1> DEFINE T == {n \in Nat : n <= m => Sums(t)[n] = Sums(s)[n]}
<1>4. 0 \in T
  BY <1>1, <1>2, <1>3 DEF IsSums
<1>5. ASSUME NEW n \in T PROVE n + 1 \in T
  <2> SUFFICES ASSUME n + 1 <= m PROVE Sums(t)[n + 1] = Sums(s)[n + 1]
    OBVIOUS
  <2>3. /\ n + 1 \in 0 .. m + 1 /\ n + 1 \in 1 .. m /\ n + 1 # 0
        /\ (n + 1) - 1 = n /\ n <= m
    BY <1>1
  <2>1. Sums(t)[n + 1] = Sums(t)[n] + t[n + 1]
    <3>1. Sums(t)[n + 1] = Sums(t)[(n + 1) - 1] + t[n + 1]
      BY <1>3, <2>3, Zenon DEF IsSums
    <3> QED
      BY <2>3, <3>1
  <2>2. Sums(s)[n + 1] = Sums(s)[n] + s[n + 1]
    <3>1. n + 1 \in 0 .. m
      BY <1>1, <2>3
    <3>2. Sums(s)[n + 1] = Sums(s)[(n + 1) - 1] + s[n + 1]
      BY <1>2, <2>3, <3>1, Zenon DEF IsSums
    <3> QED
      BY <2>3, <3>2
  <2> QED
    BY <1>1, <2>1, <2>2, <2>3
<1>6. T \in SUBSET Nat
  OBVIOUS
<1>7. \A n \in Nat : n \in T
  <2> HIDE DEF T
  <2> QED
    BY <1>4, <1>5, <1>6, Induction
<1>8. Sums(t)[m] = Sum(s)
  BY <1>1, <1>2, <1>7
<1>9. Sums(t)[m + 1] = Sums(t)[m] + t[m + 1]
  BY <1>1, <1>3 DEF IsSums
<1> QED
  BY <1>1, <1>3, <1>8, <1>9 DEF t

(* The sum of naturals is one.                                             *)
LEMMA SumInNat ==
  ASSUME NEW s \in Seq(Nat)
  PROVE  Sum(s) \in Nat
<1> DEFINE m == Len(s)
<1>1. IsSums(s, m, Sums(s)) /\ Sum(s) = Sums(s)[m] /\ m \in Nat
  BY SumIsLast
<1>2. \A i \in 1 .. m : s[i] \in Nat
  OBVIOUS
<1> HIDE DEF m
<1> DEFINE T == {n \in Nat : n <= m => Sums(s)[n] \in Nat}
<1>3. 0 \in T
  BY <1>1 DEF IsSums
<1>4. ASSUME NEW n \in T PROVE n + 1 \in T
  <2> SUFFICES ASSUME n + 1 <= m PROVE Sums(s)[n + 1] \in Nat
    OBVIOUS
  <2>1. Sums(s)[n + 1] = Sums(s)[n] + s[n + 1]
    BY <1>1 DEF IsSums
  <2>2. Sums(s)[n] \in Nat /\ s[n + 1] \in Nat
    BY <1>1, <1>2
  <2> QED
    BY <2>1, <2>2
<1>5. T \in SUBSET Nat
  OBVIOUS
<1>6. \A n \in Nat : n \in T
  <2> HIDE DEF T
  <2> QED
    BY <1>3, <1>4, <1>5, Induction
<1> QED
  BY <1>1, <1>6

(* A sequence that is not empty is one with an element appended.           *)
LEMMA LastAppended ==
  ASSUME NEW S, NEW t \in Seq(S), NEW n \in Nat, Len(t) = n + 1
  PROVE  \E u \in Seq(S), x \in S : t = Append(u, x) /\ Len(u) = n
<1> DEFINE u == [i \in 1 .. n |-> t[i]]
<1>1. u \in Seq(S) /\ Len(u) = n /\ t[n + 1] \in S
  OBVIOUS
<1>2. t = Append(u, t[n + 1])
  OBVIOUS
<1> QED
  BY <1>1, <1>2

LEMMA ConcatAppend ==
  ASSUME NEW S, NEW s \in Seq(S), NEW v \in Seq(S), NEW x \in S
  PROVE  s \o Append(v, x) = Append(s \o v, x)
<1>1. <<x>> \in Seq(S)
  OBVIOUS
<1>2. s \o v \in Seq(S)
  BY ConcatProperties
<1>3. Append(v, x) = v \o <<x>>
  BY AppendIsConcat
<1>4. Append(s \o v, x) = (s \o v) \o <<x>>
  BY <1>2, AppendIsConcat
<1>5. (s \o v) \o <<x>> = s \o (v \o <<x>>)
  BY <1>1, ConcatAssociative
<1> QED
  BY <1>3, <1>4, <1>5

(* The sum of two sequences in a row.                                      *)
LEMMA SumOfConcat ==
  ASSUME NEW s \in Seq(Nat), NEW t \in Seq(Nat)
  PROVE  Sum(s \o t) = Sum(s) + Sum(t)
<1> DEFINE Adds(u) == Sum(s \o u) = Sum(s) + Sum(u)
           T == {n \in Nat : \A u \in Seq(Nat) : Len(u) = n => Adds(u)}
<1>0. Sum(s) \in Nat
  BY SumInNat
<1>1. 0 \in T
  <2> SUFFICES ASSUME NEW u \in Seq(Nat), Len(u) = 0 PROVE Adds(u)
    OBVIOUS
  <2>1. u = <<>>
    OBVIOUS
  <2>2. s \o u = s
    BY <2>1
  <2> QED
    BY <1>0, <2>1, <2>2, SumOfEmpty
<1>2. ASSUME NEW n \in T PROVE n + 1 \in T
  <2> SUFFICES ASSUME NEW u \in Seq(Nat), Len(u) = n + 1
               PROVE  Sum(s \o u) = Sum(s) + Sum(u)
    OBVIOUS
  <2>n. n \in Nat /\ \A v \in Seq(Nat) : Len(v) = n => Sum(s \o v) = Sum(s) + Sum(v)
    OBVIOUS
  <2> HIDE DEF T
  <2>1. PICK v \in Seq(Nat), x \in Nat : u = Append(v, x) /\ Len(v) = n
    <3>1. \E v \in Seq(Nat), x \in Nat : u = Append(v, x) /\ Len(v) = n
      BY <2>n, LastAppended, ZenonT(60)
    <3> QED
      BY <3>1, Zenon
  <2>2. s \o u = Append(s \o v, x)
    <3>1. s \o Append(v, x) = Append(s \o v, x)
      BY <2>1, ConcatAppend
    <3> QED
      BY <2>1, <3>1, Zenon
  <2>3. Sum(s \o v) = Sum(s) + Sum(v)
    BY <2>n, <2>1
  <2>4. Sum(u) = Sum(v) + x /\ Sum(v) \in Nat
    BY <2>1, SumOfAppend, SumInNat
  <2>5. s \o v \in Seq(Nat)
    BY ConcatProperties
  <2>6. Sum(s \o u) = Sum(s \o v) + x
    BY <2>2, <2>5, SumOfAppend
  <2> QED
    BY <1>0, <2>3, <2>4, <2>6
<1>3. T \in SUBSET Nat
  OBVIOUS
<1>4. \A n \in Nat : n \in T
  <2> HIDE DEF T
  <2> QED
    BY <1>1, <1>2, <1>3, Induction
<1>5. Len(t) \in Nat
  OBVIOUS
<1> QED
  BY <1>4, <1>5

(* The sums of one byte and of four.                                       *)
LEMMA SumOfOne ==
  ASSUME NEW x \in Nat
  PROVE  Sum(<<x>>) = x
<1> DEFINE e == <<>>
           one == <<x>>
<1>1. e \in Seq(Nat) /\ one = Append(e, x) /\ Sum(e) = 0
  BY SumOfEmpty
<1> HIDE DEF e, one
<1>2. Sum(one) = x
  BY <1>1, SumOfAppend
<1> QED
  BY <1>2 DEF one

LEMMA SumOfFour ==
  ASSUME NEW w \in Nat, NEW x \in Nat, NEW y \in Nat, NEW z \in Nat
  PROVE  Sum(<<w, x, y, z>>) = w + x + y + z
<1> DEFINE one == <<w>>
           two == <<w, x>>
           three == <<w, x, y>>
<1>1. one \in Seq(Nat) /\ two \in Seq(Nat) /\ three \in Seq(Nat)
  OBVIOUS
<1>2. two = Append(one, x) /\ three = Append(two, y) /\ <<w, x, y, z>> = Append(three, z)
  OBVIOUS
<1>3. Sum(one) = w
  BY SumOfOne
<1> HIDE DEF one, two, three
<1>4. Sum(two) = w + x
  BY <1>1, <1>2, <1>3, SumOfAppend
<1>5. Sum(three) = w + x + y
  BY <1>1, <1>2, <1>4, SumOfAppend
<1>6. Sum(Append(three, z)) = w + x + y + z
  BY <1>1, <1>5, SumOfAppend
<1> QED
  BY <1>2, <1>6

(* Three sequences in a row: the whole, its length and its elements.       *)
LEMMA ConcatThree ==
  ASSUME NEW S, NEW a \in Seq(S), NEW b \in Seq(S), NEW c \in Seq(S)
  PROVE  a \o b \o c \in Seq(S)
BY ConcatProperties

LEMMA ConcatThreeLen ==
  ASSUME NEW S, NEW a \in Seq(S), NEW b \in Seq(S), NEW c \in Seq(S)
  PROVE  Len(a \o b \o c) = Len(a) + Len(b) + Len(c)
<1> DEFINE ab == a \o b
<1>1. ab \in Seq(S) /\ Len(ab) = Len(a) + Len(b)
  OBVIOUS
<1> HIDE DEF ab
<1>2. Len(ab \o c) = Len(ab) + Len(c)
  BY <1>1, ConcatProperties
<1> QED
  BY <1>1, <1>2 DEF ab

LEMMA ConcatThreeAt ==
  ASSUME NEW S, NEW a \in Seq(S), NEW b \in Seq(S), NEW c \in Seq(S),
         NEW i \in 1 .. Len(a) + Len(b) + Len(c)
  PROVE  (a \o b \o c)[i] = IF i <= Len(a) THEN a[i]
                            ELSE IF i <= Len(a) + Len(b) THEN b[i - Len(a)]
                            ELSE c[i - Len(a) - Len(b)]
<1> DEFINE ab == a \o b
<1>1. ab \in Seq(S) /\ Len(ab) = Len(a) + Len(b)
      /\ \A k \in 1 .. Len(ab) : ab[k] = IF k <= Len(a) THEN a[k] ELSE b[k - Len(a)]
  OBVIOUS
<1> HIDE DEF ab
<1>2. (ab \o c)[i] = IF i <= Len(ab) THEN ab[i] ELSE c[i - Len(ab)]
  BY <1>1, ConcatProperties
<1>3. Len(a) \in Nat /\ Len(b) \in Nat /\ Len(c) \in Nat
  OBVIOUS
<1> QED
  BY <1>1, <1>2, <1>3 DEF ab

-----------------------------------------------------------------------------
(* The bytes of a command.                                                 *)

(* Bytes are naturals.                                                     *)
LEMMA BytesAreNaturals ==
  Byte \subseteq Nat /\ Seq(Byte) \subseteq Seq(Nat) /\ MaxByte \in Byte
BY BaseAssumption DEF Byte, MaxByte

(* What is left of a number by a division is a byte, and a byte is left as *)
(* it is.                                                                  *)
LEMMA Remainder ==
  ASSUME NEW n \in Nat
  PROVE  n % Base \in Byte /\ (n \in Byte => n % Base = n)
BY BaseAssumption DEF Byte

(* So every checksum is a byte.                                            *)
LEMMA InvertedIsByte ==
  ASSUME NEW n \in Nat
  PROVE  Inverted(n) \in Byte
<1>1. n % Base \in 0 .. Base - 1
  BY Remainder DEF Byte
<1> QED
  BY <1>1, BaseAssumption DEF Inverted, Byte, MaxByte

LEMMA ChecksumIsByte ==
  ASSUME NEW c \in Commands
  PROVE  CalculateChecksum(c) \in Byte
<1>1. c.did \in Nat /\ c.cid \in Nat /\ c.seq \in Nat /\ c.data \in Seq(Nat)
  BY BytesAreNaturals DEF Commands
<1>2. Sum(c.data) \in Nat /\ Len(c.data) \in Nat
  BY <1>1, SumInNat
<1> QED
  BY <1>1, <1>2, InvertedIsByte DEF CalculateChecksum

(* What assemble() appends, byte by byte.                                  *)
LEMMA AssembledBytes ==
  ASSUME NEW c \in Commands
  PROVE  /\ Assembled(c) \in Seq(Byte)
         /\ Len(Assembled(c)) = CommandLength(c)
         /\ \A i \in 1 .. 6 : Assembled(c)[i]
              = <<MaxByte, c.sop2, c.did, c.cid, c.seq, LengthByte(Len(c.data))>>[i]
         /\ \A i \in 1 .. Len(c.data) : Assembled(c)[6 + i] = c.data[i]
         /\ Assembled(c)[7 + Len(c.data)] = CalculateChecksum(c)
<1> DEFINE m == Len(c.data)
           header == <<MaxByte, c.sop2, c.did, c.cid, c.seq, LengthByte(m)>>
           chk == CalculateChecksum(c)
           d == c.data
<1>1. d \in Seq(Byte) /\ m = Len(d) /\ m \in Nat /\ chk \in Byte
  BY ChecksumIsByte DEF Commands
<1>2. c.sop2 \in Byte /\ c.did \in Byte /\ c.cid \in Byte /\ c.seq \in Byte
  BY DEF Commands
<1>3. LengthByte(m) \in Byte
  <2>1. m + 1 \in Nat
    BY <1>1
  <2> QED
    BY <2>1, Remainder DEF LengthByte
<1>4. header \in Seq(Byte) /\ Len(header) = 6
  BY <1>2, <1>3, BytesAreNaturals
<1>5. Assembled(c) = header \o d \o <<chk>> /\ CommandLength(c) = 7 + m
  BY DEF Assembled, CommandLength
<1> HIDE DEF header, chk, d, m
<1>6. <<chk>> \in Seq(Byte) /\ Len(<<chk>>) = 1 /\ <<chk>>[1] = chk
  BY <1>1
<1> DEFINE tail == <<chk>>
<1>7. tail \in Seq(Byte) /\ Len(tail) = 1 /\ tail[1] = chk
  BY <1>6
<1> HIDE DEF tail
<1>8. header \o d \o tail \in Seq(Byte) /\ Len(header \o d \o tail) = 7 + m
  <2>1. Len(header) + Len(d) + Len(tail) = 7 + m
    BY <1>1, <1>4, <1>7
  <2>2. header \o d \o tail \in Seq(Byte)
        /\ Len(header \o d \o tail) = Len(header) + Len(d) + Len(tail)
    <3>1. header \in Seq(Byte) /\ d \in Seq(Byte) /\ tail \in Seq(Byte)
      BY <1>1, <1>4, <1>7
    <3>2. header \o d \o tail \in Seq(Byte)
      BY <3>1, ConcatThree, Zenon
    <3>3. Len(header \o d \o tail) = Len(header) + Len(d) + Len(tail)
      BY <3>1, ConcatThreeLen
    <3> QED
      BY <3>2, <3>3
  <2> QED
    BY <2>1, <2>2
<1>9. ASSUME NEW i \in 1 .. 7 + m
      PROVE  (header \o d \o tail)[i]
               = IF i <= 6 THEN header[i] ELSE IF i <= 6 + m THEN d[i - 6] ELSE tail[i - 6 - m]
  <2>1. i \in 1 .. Len(header) + Len(d) + Len(tail)
    BY <1>1, <1>4, <1>7
  <2>2. (header \o d \o tail)[i]
          = IF i <= Len(header) THEN header[i]
            ELSE IF i <= Len(header) + Len(d) THEN d[i - Len(header)]
            ELSE tail[i - Len(header) - Len(d)]
    <3>1. header \in Seq(Byte) /\ d \in Seq(Byte) /\ tail \in Seq(Byte)
      BY <1>1, <1>4, <1>7
    <3> QED
      BY <2>1, <3>1, ConcatThreeAt, ZenonT(60)
  <2> QED
    BY <1>1, <1>4, <1>7, <2>2
<1> DEFINE p == header \o d \o tail
<1> HIDE DEF p
<1>10. \A i \in 1 .. 6 : p[i] = header[i]
  <2> SUFFICES ASSUME NEW i \in 1 .. 6 PROVE p[i] = header[i]
    OBVIOUS
  <2>1. i \in 1 .. 7 + m /\ i <= 6
    BY <1>1
  <2> QED
    BY <1>9, <2>1 DEF p
<1>11. \A i \in 1 .. m : p[6 + i] = d[i]
  <2> SUFFICES ASSUME NEW i \in 1 .. m PROVE p[6 + i] = d[i]
    OBVIOUS
  <2> DEFINE k == 6 + i
  <2>1. k \in 1 .. 7 + m /\ k <= 6 + m /\ ~ (k <= 6) /\ k - 6 = i
    BY <1>1
  <2> HIDE DEF k
  <2>2. p[k] = d[k - 6]
    BY <1>9, <2>1 DEF p
  <2> QED
    BY <2>1, <2>2 DEF k
<1>12. p[7 + m] = chk
  <2> DEFINE k == 7 + m
  <2>1. k \in 1 .. 7 + m /\ ~ (k <= 6 + m) /\ ~ (k <= 6) /\ k - 6 - m = 1
    BY <1>1
  <2> HIDE DEF k
  <2>2. p[k] = tail[k - 6 - m]
    BY <1>9, <2>1 DEF p
  <2> QED
    BY <1>7, <2>1, <2>2 DEF k
<1>13. Assembled(c) = p
  BY <1>5 DEF p, tail
<1> QED
  BY <1>5, <1>8, <1>10, <1>11, <1>12, <1>13 DEF header, chk, d, m, p

(* A part of a sequence, element by element.                               *)
LEMMA PartAt ==
  ASSUME NEW S, NEW p \in Seq(S), NEW from \in Nat \ {0}, NEW to \in Nat, to <= Len(p),
         NEW q \in Seq(S), Len(q) = IF from <= to THEN to - from + 1 ELSE 0,
         \A i \in 1 .. Len(q) : q[i] = p[from + i - 1]
  PROVE  SubSeq(p, from, to) = q
<1>1. SubSeq(p, from, to) \in Seq(S) /\ Len(SubSeq(p, from, to)) = Len(q)
  BY SubSeqProperties
<1>2. \A i \in 1 .. Len(q) : SubSeq(p, from, to)[i] = q[i]
  BY SubSeqProperties
<1> QED
  BY <1>1, <1>2, SeqEqual

(* The robot reads from an assembled command, if its length byte can count *)
(* its data, the fields of the command (assemble, calculateChecksum).      *)
THEOREM AssembledIsCommand ==
  ASSUME NEW c \in Commands, Len(c.data) <= MaxData
  PROVE  IsCommand(Assembled(c)) /\ Decoded(Assembled(c)) = c
<1> DEFINE p == Assembled(c)
           m == Len(c.data)
           d == c.data
           four == <<c.did, c.cid, c.seq, m + 1>>
<1>1. /\ c = [sop2 |-> c.sop2, did |-> c.did, cid |-> c.cid, seq |-> c.seq, data |-> d]
      /\ c.sop2 \in Byte /\ c.did \in Byte /\ c.cid \in Byte /\ c.seq \in Byte
  BY DEF Commands
<1>2. c.did \in Nat /\ c.cid \in Nat /\ c.seq \in Nat
  BY <1>1, BytesAreNaturals
<1>3. d \in Seq(Byte) /\ m = Len(d) /\ m \in Nat
  BY DEF Commands
<1>4. LengthByte(m) = m + 1
  <2>1. m + 1 \in Byte
    BY <1>3, BaseAssumption DEF MaxData, MaxByte, Byte
  <2> QED
    BY <2>1, Remainder, BytesAreNaturals DEF LengthByte
<1>5. p \in Seq(Byte) /\ Len(p) = 7 + m
  BY AssembledBytes DEF CommandLength
<1>6. /\ p[1] = MaxByte /\ p[2] = c.sop2 /\ p[3] = c.did /\ p[4] = c.cid /\ p[5] = c.seq
      /\ p[6] = m + 1
  <2>1. \A i \in 1 .. 6 :
          p[i] = <<MaxByte, c.sop2, c.did, c.cid, c.seq, LengthByte(Len(c.data))>>[i]
    BY <1>3, AssembledBytes DEF CommandLength
  <2> QED
    BY <1>4, <2>1
<1>7. \A i \in 1 .. m : p[6 + i] = d[i]
  BY AssembledBytes
<1>8. p[7 + m] = CalculateChecksum(c)
  BY AssembledBytes
<1>9. m + 1 \in Nat
  BY <1>3
<1>10. four \in Seq(Nat) /\ Len(four) = 4
  BY <1>2, <1>9
<1>11. four \in Seq(Nat)
  BY <1>10
<1>12. Sum(four) = c.did + c.cid + c.seq + (m + 1)
  BY <1>2, <1>9, SumOfFour, SMTT(30)
<1> HIDE DEF p, m, d
<1>13. four[1] = p[3] /\ four[2] = p[4] /\ four[3] = p[5] /\ four[4] = p[6]
  BY <1>6
<1> HIDE DEF four
<1>14. p \in Seq(Nat) /\ d \in Seq(Nat)
  BY <1>3, <1>5, BytesAreNaturals
<1>15. SubSeq(p, 7, 6 + m) = d
  <2>1. 6 + m <= Len(p) /\ Len(d) = IF 7 <= 6 + m THEN 6 + m - 7 + 1 ELSE 0
    BY <1>3, <1>5
  <2>2. \A i \in 1 .. Len(d) : d[i] = p[7 + i - 1]
    BY <1>3, <1>7
  <2> QED
    BY <1>3, <1>14, <2>1, <2>2, PartAt
<1>16. SubSeq(p, 3, 6 + m) = four \o d
  <2>1. d \in Seq(Nat)
    BY <1>14
  <2> DEFINE q == four \o d
             f == Len(four)
             e == Len(d)
  <2>2. q \in Seq(Nat) /\ Len(q) = f + e
    BY <1>11, <2>1, ConcatProperties
  <2>3. \A i \in 1 .. f + e : q[i] = IF i <= f THEN four[i] ELSE d[i - f]
    BY <1>11, <2>1, ConcatProperties
  <2>4. f = 4 /\ e = m
    BY <1>3, <1>10
  <2> HIDE DEF q, f, e
  <2>5. q \in Seq(Nat) /\ Len(q) = 4 + m
    BY <2>2, <2>4
  <2>6. \A i \in 1 .. 4 + m : q[i] = IF i <= 4 THEN four[i] ELSE d[i - 4]
    BY <2>3, <2>4
  <2>7. \A i \in 1 .. Len(q) : q[i] = p[3 + i - 1]
    <3> SUFFICES ASSUME NEW i \in 1 .. 4 + m PROVE q[i] = p[3 + i - 1]
      BY <2>5
    <3>1. CASE i <= 4
      BY <1>13, <2>6, <3>1
    <3>2. CASE i > 4
      <4>1. i - 4 \in 1 .. m /\ q[i] = d[i - 4]
        BY <1>3, <2>6, <3>2
      <4>2. p[6 + (i - 4)] = d[i - 4]
        BY <1>7, <4>1
      <4>3. 6 + (i - 4) = 3 + i - 1
        OBVIOUS
      <4> QED
        BY <4>1, <4>2, <4>3
    <3> QED
      BY <3>1, <3>2
  <2>8. 6 + m <= Len(p) /\ Len(q) = IF 3 <= 6 + m THEN 6 + m - 3 + 1 ELSE 0
    BY <1>3, <1>5, <2>5
  <2> DEFINE to == 6 + m
  <2>9. to \in Nat /\ 3 \in Nat \ {0} /\ to <= Len(p) /\ p \in Seq(Nat) /\ q \in Seq(Nat)
        /\ Len(q) = IF 3 <= to THEN to - 3 + 1 ELSE 0
    BY <1>3, <1>14, <2>5, <2>8
  <2> HIDE DEF to
  <2>10. SubSeq(p, 3, to) = q
    BY <2>7, <2>9, PartAt
  <2> QED
    BY <2>10 DEF q, to
<1>17. Sum(four \o d) = c.did + c.cid + c.seq + (m + 1) + Sum(d)
  BY <1>10, <1>12, <1>14, SumOfConcat
<1>18. CalculateChecksum(c) = Inverted(Sum(four \o d))
  <2>1. CalculateChecksum(c) = Inverted(c.did + c.cid + c.seq + m + 1 + Sum(d))
    BY DEF CalculateChecksum, m, d
  <2>2. c.did + c.cid + c.seq + m + 1 + Sum(d) = c.did + c.cid + c.seq + (m + 1) + Sum(d)
    <3>1. Sum(d) \in Nat
      BY <1>14, SumInNat
    <3>2. /\ c.did \in Nat /\ c.cid \in Nat /\ c.seq \in Nat
          /\ m \in Nat /\ Sum(d) \in Nat
      BY <1>2, <1>3, <3>1
    <3> DEFINE did == c.did
               cid == c.cid
               seq == c.seq
               sum == Sum(d)
    <3>3. did \in Nat /\ cid \in Nat /\ seq \in Nat /\ m \in Nat /\ sum \in Nat
      BY <3>2
    <3> HIDE DEF did, cid, seq, sum
    <3>4. did + cid + seq + m + 1 + sum = did + cid + seq + (m + 1) + sum
      BY <3>3
    <3> QED
      BY <3>4 DEF did, cid, seq, sum
  <2> QED
    BY <1>17, <2>1, <2>2
<1>19. Len(p) - 1 = 6 + m
  BY <1>3, <1>5
<1>20. IsCommand(p)
  <2>1. Len(p) >= 7 /\ p[6] = Len(p) - 6
    BY <1>3, <1>5, <1>6
  <2>2. p[Len(p)] = Inverted(Sum(SubSeq(p, 3, Len(p) - 1)))
    BY <1>5, <1>8, <1>16, <1>18, <1>19
  <2> QED
    BY <1>6, <2>1, <2>2 DEF IsCommand
<1>21. Decoded(p) = c
  BY <1>1, <1>6, <1>15, <1>19 DEF Decoded
<1> QED
  BY <1>20, <1>21 DEF p

-----------------------------------------------------------------------------
(* The bytes of an answer.                                                 *)

(* Bytes behind a header of n.                                             *)
LEMMA BehindHeader ==
  ASSUME NEW S, NEW h \in Seq(S), NEW t \in Seq(S), NEW n, n = Len(h), NEW i \in 1 .. Len(t)
  PROVE  (h \o t)[n + i] = t[i]
<1>1. n \in Nat /\ Len(t) \in Nat /\ n + i \in 1 .. n + Len(t) /\ ~ (n + i <= n)
      /\ n + i - n = i
  OBVIOUS
<1> DEFINE k == n + i
<1>2. k \in 1 .. Len(h) + Len(t) /\ ~ (k <= Len(h)) /\ k - Len(h) = i
  BY <1>1
<1> HIDE DEF k
<1>3. (h \o t)[k] = t[k - Len(h)]
  BY <1>2, ConcatProperties
<1> QED
  BY <1>2, <1>3 DEF k

LEMMA InHeader ==
  ASSUME NEW S, NEW h \in Seq(S), NEW t \in Seq(S), NEW i \in 1 .. Len(h)
  PROVE  (h \o t)[i] = h[i]
<1>1. i \in 1 .. Len(h) + Len(t) /\ i <= Len(h)
  OBVIOUS
<1> QED
  BY <1>1, ConcatProperties

Answers == [mrsp : Byte, seq : Byte, data : Seq(Byte)]

(* What the robot writes, byte by byte, when the data fit.                 *)
LEMMA ResponseBytes ==
  ASSUME NEW r \in Answers, Len(r.data) <= MaxData
  PROVE  /\ ResponsePacket(r) \in Seq(Byte)
         /\ Len(ResponsePacket(r)) = 6 + Len(r.data)
         /\ ResponsePacket(r)[1] = MaxByte /\ ResponsePacket(r)[2] = MaxByte
         /\ ResponsePacket(r)[3] = r.mrsp /\ ResponsePacket(r)[4] = r.seq
         /\ ResponsePacket(r)[5] = Len(r.data) + 1
         /\ \A i \in 1 .. Len(r.data) : ResponsePacket(r)[5 + i] = r.data[i]
<1> DEFINE d == r.data
           m == Len(r.data)
           three == <<r.mrsp, r.seq, m + 1>>
           body == three \o d
           two == <<MaxByte, MaxByte>>
           chk == <<Inverted(Sum(body))>>
           front == two \o body
           f == Len(front)
           p == ResponsePacket(r)
<1>1. d \in Seq(Byte) /\ m = Len(d) /\ m \in Nat /\ r.mrsp \in Byte /\ r.seq \in Byte
  BY DEF Answers
<1>2. m + 1 \in Byte /\ MaxByte \in Byte
  BY <1>1, BaseAssumption DEF MaxData, MaxByte, Byte
<1>3. three \in Seq(Byte) /\ Len(three) = 3 /\ three[1] = r.mrsp /\ three[2] = r.seq
      /\ three[3] = m + 1
  BY <1>1, <1>2
<1>4. two \in Seq(Byte) /\ Len(two) = 2 /\ two[1] = MaxByte /\ two[2] = MaxByte
  BY <1>2
<1>5. p = two \o body \o chk
  BY DEF ResponsePacket
<1> HIDE DEF d, m, three, two, p
<1>6. body \in Seq(Byte)
  BY <1>1, <1>3
<1>7. Len(body) = 3 + m
  <2>1. d \in Seq(Byte) /\ three \in Seq(Byte)
    BY <1>1, <1>3
  <2>2. Len(body) = Len(three) + Len(d)
    BY <2>1, ConcatProperties
  <2> HIDE DEF body
  <2> QED
    BY <1>1, <1>3, <2>2
<1>8. \A i \in 1 .. 3 : body[i] = three[i]
  <2>1. d \in Seq(Byte) /\ three \in Seq(Byte)
    BY <1>1, <1>3
  <2>2. \A i \in 1 .. Len(three) : body[i] = three[i]
    BY <2>1, InHeader
  <2> HIDE DEF body
  <2> QED
    BY <1>3, <2>2
<1>9. \A i \in 1 .. m : body[3 + i] = d[i]
  <2>1. d \in Seq(Byte) /\ three \in Seq(Byte)
    BY <1>1, <1>3
  <2> DEFINE n == Len(three)
  <2>2. \A i \in 1 .. Len(d) : body[n + i] = d[i]
    BY <2>1, BehindHeader
  <2> HIDE DEF body
  <2> QED
    BY <1>1, <1>3, <2>2
<1> HIDE DEF body
<1>10. chk \in Seq(Byte) /\ Len(chk) = 1
  <2>1. body \in Seq(Nat)
    BY <1>6, BytesAreNaturals
  <2>2. Inverted(Sum(body)) \in Byte
    BY <2>1, SumInNat, InvertedIsByte
  <2> QED
    BY <2>2
<1> HIDE DEF chk
<1>11. front \in Seq(Byte)
  BY <1>4, <1>6
<1>12. f = 5 + m
  <2>1. two \in Seq(Byte)
    BY <1>4
  <2>2. f = Len(two) + Len(body)
    BY <1>6, <2>1, ConcatProperties
  <2> HIDE DEF f
  <2> QED
    BY <1>1, <1>4, <1>7, <2>2
<1>13. \A i \in 1 .. 2 : front[i] = two[i]
  <2>1. two \in Seq(Byte)
    BY <1>4
  <2>2. \A i \in 1 .. Len(two) : front[i] = two[i]
    BY <1>6, <2>1, InHeader
  <2> HIDE DEF front
  <2> QED
    BY <1>4, <2>2
<1>14. \A i \in 1 .. 3 + m : front[2 + i] = body[i]
  <2>1. two \in Seq(Byte)
    BY <1>4
  <2> DEFINE n == Len(two)
  <2>2. \A i \in 1 .. Len(body) : front[n + i] = body[i]
    BY <1>6, <2>1, BehindHeader
  <2> HIDE DEF front
  <2> QED
    BY <1>4, <1>7, <2>2
<1>15. p \in Seq(Byte) /\ Len(p) = f + Len(chk)
  <2>1. chk \in Seq(Byte)
    BY <1>10
  <2> QED
    BY <1>5, <1>11, <2>1, ConcatProperties
<1>16. \A i \in 1 .. f : p[i] = front[i]
  BY <1>5, <1>10, <1>11, InHeader
<1> HIDE DEF front, f
<1>17. Len(p) = 6 + m
  BY <1>1, <1>10, <1>12, <1>15
<1>18. p[1] = MaxByte /\ p[2] = MaxByte
  BY <1>1, <1>4, <1>12, <1>13, <1>16
<1>19. \A i \in 1 .. 3 + m : p[2 + i] = body[i]
  <2> SUFFICES ASSUME NEW i \in 1 .. 3 + m PROVE p[2 + i] = body[i]
    OBVIOUS
  <2>1. 2 + i \in 1 .. f
    BY <1>1, <1>12
  <2> QED
    BY <1>14, <1>16, <2>1
<1>20. p[3] = r.mrsp /\ p[4] = r.seq /\ p[5] = m + 1
  <2>1. p[2 + 1] = three[1] /\ p[2 + 2] = three[2] /\ p[2 + 3] = three[3]
    BY <1>1, <1>8, <1>19
  <2> QED
    BY <1>3, <2>1
<1>21. \A i \in 1 .. m : p[5 + i] = d[i]
  <2> SUFFICES ASSUME NEW i \in 1 .. m PROVE p[5 + i] = d[i]
    OBVIOUS
  <2>1. 3 + i \in 1 .. 3 + m /\ 2 + (3 + i) = 5 + i
    BY <1>1
  <2>2. p[2 + (3 + i)] = body[3 + i]
    BY <1>19, <2>1
  <2> QED
    BY <1>9, <2>1, <2>2
<1> QED
  BY <1>15, <1>17, <1>18, <1>20, <1>21 DEF p, m, d

-----------------------------------------------------------------------------
(* The numbers of the data.                                                *)

(* What n passes of the loop of dataToNumerical() make of the bytes behind *)
(* start, for the widths there are.                                        *)
Led(data, start, n) ==
  IF n = 0 THEN 0
  ELSE IF n = 1 THEN data[start + 1] * Base
  ELSE IF n = 2 THEN (data[start + 1] * Base + data[start + 2]) * Base
  ELSE ((data[start + 1] * Base + data[start + 2]) * Base + data[start + 3]) * Base

IsRead(data, start, n, ret) ==
  ret = [i \in 0 .. n |-> IF i = 0 THEN 0 ELSE Shifted(ret[i - 1], data[start + i])]

LEMMA ReadIsLed ==
  ASSUME NEW data \in Seq(Byte), NEW start \in Nat, NEW width \in Nat,
         NEW n \in 0 .. 3, n = Passes(data, start, width), start + n <= Len(data) \/ n = 0
  PROVE  Bits(data, start, width)
           = Led(data, start, n) + (IF HasLast(data, start, width) THEN data[start + width] ELSE 0)
<1> DEFINE ret == CHOOSE ret : IsRead(data, start, n, ret)
           led == [i \in 0 .. n |-> Led(data, start, i)]
<1>1. \A i \in 1 .. n : data[start + i] \in Nat
  <2> SUFFICES ASSUME NEW i \in 1 .. n PROVE data[start + i] \in Nat
    OBVIOUS
  <2>1. start + i \in 1 .. Len(data)
    OBVIOUS
  <2>2. data[start + i] \in Byte
    BY <2>1
  <2> QED
    BY <2>2, BytesAreNaturals
<1>2. ASSUME NEW i \in 0 .. n
      PROVE  Led(data, start, i)
               = IF i = 0 THEN 0 ELSE Shifted(Led(data, start, i - 1), data[start + i])
  <2>1. Base \in Nat
    BY BaseAssumption
  <2>2. CASE i = 0
    BY <2>2 DEF Led
  <2>3. CASE i = 1
    BY <1>1, <2>1, <2>3 DEF Led, Shifted
  <2>4. CASE i = 2
    BY <1>1, <2>1, <2>4 DEF Led, Shifted
  <2>5. CASE i = 3
    BY <1>1, <2>1, <2>5 DEF Led, Shifted
  <2>6. i \in {0, 1, 2, 3}
    OBVIOUS
  <2> QED
    BY <2>2, <2>3, <2>4, <2>5, <2>6
<1>3. \A i \in 0 .. n : led[i] = IF i = 0 THEN 0 ELSE Shifted(led[i - 1], data[start + i])
  <2> SUFFICES ASSUME NEW i \in 0 .. n
               PROVE  led[i] = IF i = 0 THEN 0 ELSE Shifted(led[i - 1], data[start + i])
    OBVIOUS
  <2>1. i # 0 => i - 1 \in 0 .. n
    OBVIOUS
  <2> QED
    BY <1>2, <2>1
<1>4. IsRead(data, start, n, led)
  BY <1>3 DEF IsRead
<1>5. IsRead(data, start, n, ret)
  BY <1>4
<1>6. Bits(data, start, width)
        = ret[n] + (IF HasLast(data, start, width) THEN data[start + width] ELSE 0)
  BY DEF Bits, IsRead
<1>7. \A i \in 0 .. n : ret[i] = IF i = 0 THEN 0 ELSE Shifted(ret[i - 1], data[start + i])
  <2> HIDE DEF ret
  <2> QED
    BY <1>5 DEF IsRead
<1> HIDE DEF ret, led
<1>8. ret[0] = Led(data, start, 0)
  BY <1>7 DEF Led
<1>9. \A i \in 1 .. n : ret[i - 1] = Led(data, start, i - 1) => ret[i] = Led(data, start, i)
  BY <1>2, <1>7
<1>10. n >= 1 => ret[1] = Led(data, start, 1)
  BY <1>8, <1>9
<1>11. n >= 2 => ret[2] = Led(data, start, 2)
  BY <1>9, <1>10
<1>12. n >= 3 => ret[3] = Led(data, start, 3)
  BY <1>9, <1>11
<1>13. ret[n] = Led(data, start, n)
  BY <1>8, <1>10, <1>11, <1>12
<1> QED
  BY <1>6, <1>13

-----------------------------------------------------------------------------
(* The numbers read from the data.                                         *)

LEMMA Places ==
  /\ Place(0) = 1
  /\ Place(1) = Base * 1
  /\ Place(2) = Base * (Base * 1)
  /\ Place(3) = Base * (Base * (Base * 1))
  /\ Place(4) = Base * (Base * (Base * (Base * 1)))
<1> DEFINE value == [i \in 0 .. 4 |->
             IF i = 0 THEN 1 ELSE IF i = 1 THEN Base * 1 ELSE IF i = 2 THEN Base * (Base * 1)
             ELSE IF i = 3 THEN Base * (Base * (Base * 1))
             ELSE Base * (Base * (Base * (Base * 1)))]
<1> DEFINE IsPower(n, power) ==
             power = [i \in 0 .. n |-> IF i = 0 THEN 1 ELSE Base * power[i - 1]]
<1>1. ASSUME NEW n \in 0 .. 4 PROVE Place(n) = value[n]
  <2> DEFINE power == CHOOSE power : IsPower(n, power)
             part == [i \in 0 .. n |-> value[i]]
  <2>1. \A i \in 0 .. n : part[i] = IF i = 0 THEN 1 ELSE Base * part[i - 1]
    OBVIOUS
  <2>2. IsPower(n, part)
    BY <2>1
  <2>3. IsPower(n, power)
    <3> HIDE DEF IsPower, part
    <3> QED
      BY <2>2
  <2>4. Place(n) = power[n]
    BY DEF Place
  <2> HIDE DEF power
  <2>5. \A i \in 0 .. n : power[i] = IF i = 0 THEN 1 ELSE Base * power[i - 1]
    BY <2>3
  <2>6. power[0] = value[0]
    BY <2>5
  <2>7. n >= 1 => power[1] = value[1]
    BY <2>5, <2>6
  <2>8. n >= 2 => power[2] = value[2]
    BY <2>5, <2>7
  <2>9. n >= 3 => power[3] = value[3]
    BY <2>5, <2>8
  <2>10. n >= 4 => power[4] = value[4]
    BY <2>5, <2>9
  <2> HIDE DEF value
  <2> QED
    BY <2>4, <2>6, <2>7, <2>8, <2>9, <2>10
<1> QED
  BY <1>1

(* The sum of at most four numbers.                                        *)
FewAdded(s, n) ==
  IF n = 0 THEN 0
  ELSE IF n = 1 THEN s[1]
  ELSE IF n = 2 THEN s[1] + s[2]
  ELSE IF n = 3 THEN s[1] + s[2] + s[3]
  ELSE s[1] + s[2] + s[3] + s[4]

LEMMA SumOfFew ==
  ASSUME NEW s \in Seq(Nat), NEW n \in 0 .. 4, n = Len(s)
  PROVE  Sum(s) = FewAdded(s, n)
<1> DEFINE g == Sums(s)
<1>1. IsSums(s, n, g) /\ Sum(s) = g[n]
  BY SumIsLast
<1> HIDE DEF g
<1>2. \A i \in 0 .. n : g[i] = IF i = 0 THEN 0 ELSE g[i - 1] + s[i]
  BY <1>1 DEF IsSums
<1>3. \A i \in 1 .. n : s[i] \in Nat
  OBVIOUS
<1>4. g[0] = 0
  BY <1>2
<1>5. n >= 1 => g[1] = s[1]
  BY <1>2, <1>3, <1>4
<1>6. n >= 2 => g[2] = s[1] + s[2]
  BY <1>2, <1>5
<1>7. n >= 3 => g[3] = s[1] + s[2] + s[3]
  BY <1>2, <1>6
<1>8. n >= 4 => g[4] = s[1] + s[2] + s[3] + s[4]
  BY <1>2, <1>7
<1>9. CASE n = 0
  BY <1>1, <1>4, <1>9 DEF FewAdded
<1>10. CASE n = 1
  BY <1>1, <1>5, <1>10 DEF FewAdded
<1>11. CASE n = 2
  BY <1>1, <1>6, <1>11 DEF FewAdded
<1>12. CASE n = 3
  BY <1>1, <1>7, <1>12 DEF FewAdded
<1>13. CASE n = 4
  BY <1>1, <1>8, <1>13 DEF FewAdded
<1> QED
  BY <1>9, <1>10, <1>11, <1>12, <1>13

(* One byte more behind a number below p.                                  *)
LEMMA OneByteMore ==
  ASSUME NEW x \in Nat, NEW p \in Nat, x < p, NEW d \in Byte
  PROVE  x * Base + d \in Nat /\ x * Base + d < Base * p
<1>1. Base \in Nat \ {0} /\ d \in Nat /\ d < Base
  BY BaseAssumption DEF Byte
<1>2. p - (x + 1) \in Nat
  OBVIOUS
<1>3. (p - (x + 1)) * Base \in Nat /\ x * Base \in Nat
  BY <1>1, <1>2
<1>4. Base * p = (p - (x + 1)) * Base + x * Base + Base
  BY <1>1
<1> QED
  BY <1>1, <1>3, <1>4

LEMMA BytesBehind ==
  ASSUME NEW data \in Seq(Byte), NEW start \in Nat, NEW i \in Nat \ {0}, start + i <= Len(data)
  PROVE  data[start + i] \in Byte
<1> DEFINE k == start + i
<1>1. k \in 1 .. Len(data)
  OBVIOUS
<1> HIDE DEF k
<1>2. data[k] \in Byte
  BY <1>1
<1> QED
  BY <1>2 DEF k

LEMMA PlacesAreNaturals == \A n \in 0 .. 4 : Place(n) \in Nat
<1>1. Place(0) \in Nat /\ Place(1) \in Nat /\ Place(2) \in Nat /\ Place(3) \in Nat
      /\ Place(4) \in Nat
  BY Places, BaseAssumption
<1> QED
  BY <1>1

(* The reference, for at most four bytes.                                  *)
LEMMA WeightedSum ==
  ASSUME NEW data \in Seq(Byte), NEW start \in Nat, NEW m \in {1, 2, 4}, start + m <= Len(data)
  PROVE  Number(data, start, m)
           = IF m = 1 THEN data[start + 1] * Place(0)
             ELSE IF m = 2 THEN data[start + 1] * Place(1) + data[start + 2] * Place(0)
             ELSE data[start + 1] * Place(3) + data[start + 2] * Place(2)
                    + data[start + 3] * Place(1) + data[start + 4] * Place(0)
<1> DEFINE s == [i \in 1 .. m |-> data[start + i] * Place(m - i)]
<1>1. ASSUME NEW i \in 1 .. m PROVE data[start + i] * Place(m - i) \in Nat
  <2>1. data[start + i] \in Byte
    BY BytesBehind
  <2>2. data[start + i] \in Nat
    BY <2>1, BytesAreNaturals
  <2>3. m - i \in 0 .. 4
    OBVIOUS
  <2>4. \A j \in 0 .. 4 : Place(j) \in Nat
    BY PlacesAreNaturals
  <2> DEFINE x == data[start + i]
             y == Place(m - i)
  <2>5. x \in Nat /\ y \in Nat
    BY <2>2, <2>3, <2>4
  <2> HIDE DEF x, y
  <2>6. x * y \in Nat
    BY <2>5
  <2> QED
    BY <2>6 DEF x, y
<1>2. s \in Seq(Nat) /\ Len(s) = m
  BY <1>1
<1>3. \A i \in 1 .. m : s[i] = data[start + i] * Place(m - i)
  OBVIOUS
<1>4. Number(data, start, m) = Sum(s)
  BY DEF Number
<1> HIDE DEF s
<1>5. Sum(s) = FewAdded(s, m)
  <2>1. m \in 0 .. 4
    OBVIOUS
  <2> QED
    BY <1>2, <2>1, SumOfFew
<1>6. CASE m = 1
  <2>1. s[1] = data[start + 1] * Place(1 - 1)
    BY <1>3, <1>6
  <2>2. 1 - 1 = 0
    OBVIOUS
  <2> QED
    BY <1>4, <1>5, <1>6, <2>1, <2>2 DEF FewAdded
<1>7. CASE m = 2
  <2>1. s[1] = data[start + 1] * Place(2 - 1) /\ s[2] = data[start + 2] * Place(2 - 2)
    BY <1>3, <1>7
  <2>2. 2 - 1 = 1 /\ 2 - 2 = 0
    OBVIOUS
  <2> QED
    BY <1>4, <1>5, <1>7, <2>1, <2>2 DEF FewAdded
<1>8. CASE m = 4
  <2>1. s[1] = data[start + 1] * Place(4 - 1) /\ s[2] = data[start + 2] * Place(4 - 2)
        /\ s[3] = data[start + 3] * Place(4 - 3) /\ s[4] = data[start + 4] * Place(4 - 4)
    BY <1>3, <1>8
  <2>2. 4 - 1 = 3 /\ 4 - 2 = 2 /\ 4 - 3 = 1 /\ 4 - 4 = 0
    OBVIOUS
  <2> QED
    BY <1>4, <1>5, <1>8, <2>1, <2>2 DEF FewAdded
<1> QED
  BY <1>6, <1>7, <1>8

(* Up to four bytes, one after the other and each at its place.            *)
LEMMA AtTheirPlaces ==
  ASSUME NEW a \in Byte, NEW b \in Byte, NEW c \in Byte, NEW d \in Byte
  PROVE  LET two   == a * Base + b
             three == two * Base + c
             four  == three * Base + d
         IN  /\ a \in Nat /\ a = a * Place(0) /\ a < Place(1)
             /\ two \in Nat /\ two = a * Place(1) + b * Place(0) /\ two < Place(2)
             /\ three \in Nat /\ three < Place(3)
             /\ three = a * Place(2) + b * Place(1) + c * Place(0)
             /\ four \in Nat /\ four < Place(4)
             /\ four = a * Place(3) + b * Place(2) + c * Place(1) + d * Place(0)
<1> DEFINE two   == a * Base + b
           three == two * Base + c
           four  == three * Base + d
<1>1. a \in Nat /\ b \in Nat /\ c \in Nat /\ d \in Nat /\ Base \in Nat /\ a < Base
  BY BaseAssumption DEF Byte
<1>2. Place(0) = 1 /\ Place(1) = Base
  BY <1>1, Places
<1>3. Place(1) \in Nat /\ Place(2) \in Nat /\ Place(3) \in Nat
  BY <1>1, Places
<1>4. Place(2) = Base * Place(1) /\ Place(3) = Base * Place(2) /\ Place(4) = Base * Place(3)
  BY Places
<1>5. two = a * Place(1) + b * Place(0)
  BY <1>1, <1>2
<1>6. three = a * Place(2) + b * Place(1) + c * Place(0)
  BY <1>1, Places
<1>7. four = a * Place(3) + b * Place(2) + c * Place(1) + d * Place(0)
  BY <1>1, Places
<1>8. a < Place(1)
  BY <1>1, <1>2
<1>9. two \in Nat /\ two < Place(2)
  BY <1>1, <1>3, <1>4, <1>8, OneByteMore
<1> HIDE DEF two
<1>10. three \in Nat /\ three < Place(3)
  BY <1>3, <1>4, <1>9, OneByteMore
<1> HIDE DEF three
<1>11. four \in Nat /\ four < Place(4)
  BY <1>3, <1>4, <1>10, OneByteMore
<1>12. a = a * Place(0)
  BY <1>1, <1>2
<1> QED
  BY <1>1, <1>5, <1>6, <1>7, <1>8, <1>9, <1>10, <1>11, <1>12 DEF two, three

(* The bits that are read are the number, for every width there is.        *)
LEMMA BitsAreNumber ==
  ASSUME NEW data \in Seq(Byte), NEW start \in Nat, NEW width \in {1, 2, 4},
         start + width <= Len(data)
  PROVE  /\ Bits(data, start, width) = Number(data, start, width)
         /\ Bits(data, start, width) \in Nat /\ Bits(data, start, width) < Place(width)
<1> DEFINE size == Len(data)
           b1 == data[start + 1]
           b2 == data[start + 2]
           b3 == data[start + 3]
           b4 == data[start + 4]
           n == Passes(data, start, width)
           read == Bits(data, start, width)
           number == Number(data, start, width)
<1>1. size \in Nat
  OBVIOUS
<1>2. /\ b1 \in Byte
      /\ start + 2 <= size => b2 \in Byte
      /\ start + 3 <= size => b3 \in Byte
      /\ start + 4 <= size => b4 \in Byte
  BY BytesBehind
<1>3. 0 \in Byte
  BY BaseAssumption DEF Byte
<1>4. n = width - 1 /\ n \in 0 .. 3 /\ start + n <= size
  BY <1>1 DEF Passes
<1>5. HasLast(data, start, width)
  BY DEF HasLast
<1>6. read = Led(data, start, n) + data[start + width]
  <2> HIDE DEF n, b1, b2, b3, b4
  <2>1. n = Passes(data, start, width)
    BY DEF n
  <2> QED
    BY <1>4, <1>5, <2>1, ReadIsLed
<1>7. number = IF width = 1 THEN b1 * Place(0)
               ELSE IF width = 2 THEN b1 * Place(1) + b2 * Place(0)
               ELSE b1 * Place(3) + b2 * Place(2) + b3 * Place(1) + b4 * Place(0)
  BY WeightedSum, ZenonT(60)
<1> HIDE DEF number, read, n
<1>8. CASE width = 1
  <2>1. number = b1 * Place(0)
    BY <1>7, <1>8
  <2>2. Led(data, start, n) = 0 /\ read = 0 + b1
    BY <1>4, <1>6, <1>8 DEF Led
  <2>3. b1 \in Byte
    BY <1>2
  <2> HIDE DEF b1
  <2>4. b1 = b1 * Place(0) /\ b1 < Place(1) /\ b1 \in Nat
    BY <1>3, <2>3, AtTheirPlaces
  <2> QED
    BY <1>8, <2>1, <2>2, <2>4 DEF read, number
<1>9. CASE width = 2
  <2>1. b1 \in Byte /\ b2 \in Byte
    BY <1>1, <1>2, <1>9
  <2>2. number = b1 * Place(1) + b2 * Place(0)
    BY <1>7, <1>9
  <2>3. read = b1 * Base + b2
    BY <1>4, <1>6, <1>9 DEF Led
  <2> HIDE DEF b1, b2
  <2> DEFINE x == b1 * Base + b2
  <2>4. x = b1 * Place(1) + b2 * Place(0) /\ x < Place(2) /\ x \in Nat
    BY <1>3, <2>1, AtTheirPlaces
  <2> QED
    BY <1>9, <2>2, <2>3, <2>4 DEF read, number
<1>10. CASE width = 4
  <2>1. b1 \in Byte /\ b2 \in Byte /\ b3 \in Byte /\ b4 \in Byte
    BY <1>1, <1>2, <1>10
  <2>2. number = b1 * Place(3) + b2 * Place(2) + b3 * Place(1) + b4 * Place(0)
    BY <1>7, <1>10
  <2>3. read = ((b1 * Base + b2) * Base + b3) * Base + b4
    BY <1>4, <1>6, <1>10 DEF Led
  <2> DEFINE x == ((b1 * Base + b2) * Base + b3) * Base + b4
  <2> HIDE DEF b1, b2, b3, b4
  <2>4. x = b1 * Place(3) + b2 * Place(2) + b3 * Place(1) + b4 * Place(0) /\ x < Place(4)
        /\ x \in Nat
    BY <2>1, AtTheirPlaces
  <2> QED
    BY <1>10, <2>2, <2>3, <2>4 DEF read, number
<1> QED
  BY <1>8, <1>9, <1>10

Types == {Unsigned(1), Unsigned(2), Unsigned(4), Signed(1), Signed(2), Signed(4)}

(* dataToNumerical() reads the number, for every type there is: the bits   *)
(* of a number from the sign bit on stand for one that is Place(width)     *)
(* less, which is in the range of the type.                                *)
LEMMA NumberIsRead ==
  ASSUME NEW data \in Seq(Byte), NEW start \in Nat, NEW T \in Types,
         start + T.width <= Len(data)
  PROVE  IsNumber(DataToNumerical(data, start, T), data, start, T)
<1> DEFINE width == T.width
           bits == Bits(data, start, width)
           place == Place(width)
           n == DataToNumerical(data, start, T)
<1>1. width \in {1, 2, 4}
  BY DEF Types, Unsigned, Signed
<1>2. bits = Number(data, start, width) /\ bits \in Nat /\ bits < place
  <2>1. start + width <= Len(data)
    OBVIOUS
  <2> HIDE DEF width
  <2> QED
    BY <1>1, <2>1, BitsAreNumber
<1>3. place \in Nat
  <2>1. width \in 0 .. 4
    BY <1>1
  <2> HIDE DEF width
  <2> QED
    BY <2>1, PlacesAreNaturals
<1>4. n = IF T.signed /\ 2 * bits >= place THEN bits - place ELSE bits
  BY DEF DataToNumerical, As
<1> HIDE DEF width, bits, place, n
<1>5. n \in {bits, bits - place}
  BY <1>4
<1>6. CASE T.signed
  <2>1. -place <= 2 * n /\ 2 * n < place
    BY <1>2, <1>3, <1>4, <1>6
  <2>2. InRange(n, T)
    BY <1>6, <2>1 DEF InRange, place, width
  <2> QED
    BY <1>2, <1>5, <2>2 DEF IsNumber, n, place, width
<1>7. CASE ~ T.signed
  <2>1. 0 <= n /\ n < place
    BY <1>2, <1>3, <1>4, <1>7
  <2>2. InRange(n, T)
    BY <1>7, <2>1 DEF InRange, place, width
  <2> QED
    BY <1>2, <1>5, <2>2 DEF IsNumber, n, place, width
<1> QED
  BY <1>6, <1>7

=============================================================================
