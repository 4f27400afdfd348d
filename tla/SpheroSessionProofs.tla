------------------------- MODULE SpheroSessionProofs -------------------------
(***************************************************************************)
(* Proofs about SpheroSession, for any number of devices, threads, retries *)
(* and commands: types, that the address is that of a robot, that only a   *)
(* handler without an address throws, that a text nobody overlaps is the   *)
(* caller's own, and that the tests of one thread pass.  What is proved of *)
(* SpheroHandler is used here.                                             *)
(***************************************************************************)
EXTENDS SpheroSession, SpheroPacketProofs

HP == INSTANCE SpheroHandlerProofs

-----------------------------------------------------------------------------
(* The inductive invariant.                                                *)

(* Of btItems and of what the lookup reported, the first robots agree.     *)
FirstsAgree ==
  \/ I!Named = {} /\ I!Robots = {}
  \/ \E k \in I!Named, i \in I!Robots :
       /\ \A j \in I!Named : k <= j
       /\ \A j \in I!Robots : i <= j
       /\ vOut[k] = reported[i]

(* The two halves of the types of Inquiry.                                 *)
Ranges ==
  /\ step \in {"inquire", "next", "search", "found", "given up"}
  /\ tries \in 0 .. INQ_MAX_RETRIES
  /\ vOut \in Seq(Devices) /\ reported \in Seq(Devices)
  /\ found \in 0 .. Len(vOut)

HeldForLookup == querySet = (step = "next") /\ handle = (step = "next")

SearchInv ==
  /\ Ranges /\ HeldForLookup
  /\ step \in {"inquire", "next", "search"} => tries < INQ_MAX_RETRIES
  /\ step # "found" => found = 0
  /\ step = "found" => found \in I!Named /\ \A j \in I!Named : found <= j
  /\ step = "given up" => I!Named = {}
  /\ constructed \in BOOLEAN
  /\ constructed => I!Over
  /\ ~constructed => FirstsAgree

(* The invariants of SpheroHandler, which hold though its constructor is   *)
(* called late.                                                            *)
HandlerPart == HP!StageInv /\ HP!CountInv /\ HP!Data

InOrder == answered <= Len(wire) /\ Len(wire) <= accepted

(* What the constructor leaves: with an address no unconnected handler.    *)
Begun ==
  /\ ~constructed => stage = "trying" /\ attempt = 0 /\ ~connected /\ ~iothread
  /\ constructed /\ found = 0 => stage = "ready" /\ ~connected
  /\ constructed /\ found # 0 /\ stage = "ready" => connected
  /\ endpoint \in {Nothing} \cup {d.address : d \in Devices}
  /\ connected => endpoint = vOut[found].address
  /\ thrown \in BOOLEAN
  /\ thrown => constructed /\ found = 0

HandlerInv == HandlerPart /\ InOrder /\ Begun

TalkInv ==
  /\ asked \in Seq([by : Callers, test : Tests]) /\ Len(asked) = accepted
  /\ replies \in Seq(Seq(Byte)) /\ Len(replies) = answered
  /\ DOMAIN response = Callers
  /\ \A t \in Callers : response[t].to \in 0 .. accepted

IsInside(t) == reading[t] \in {"assign", "copy"}

Code(t) == response[t].got.mrsp

TextInv ==
  /\ reading \in [Callers -> {"no", "begin", "assign", "copy"}]
  /\ overlapped \in [Callers -> BOOLEAN]
  /\ resp \in 0 .. Torn
  /\ \A t, u \in Callers : t # u /\ IsInside(t) /\ IsInside(u) => overlapped[t]
  /\ \A t \in Callers : reading[t] = "assign" => HasText(Code(t))
  /\ \A t \in Callers :
       reading[t] = "copy" /\ ~overlapped[t] /\ HasText(Code(t)) => resp = Code(t)

SessionInv == SearchInv /\ HandlerInv /\ TalkInv /\ TextInv

-----------------------------------------------------------------------------
(* The search.                                                             *)

LEMMA InquiryTypes == SearchInv => I!TypeOK
BY Zenon DEF SearchInv, Ranges, HeldForLookup, I!TypeOK

LEMMA SearchShapes ==
  ASSUME SearchInv
  PROVE  /\ vOut \in Seq(Devices) /\ Len(vOut) \in Nat /\ DOMAIN vOut = 1 .. Len(vOut)
         /\ reported \in Seq(Devices) /\ Len(reported) \in Nat
         /\ DOMAIN reported = 1 .. Len(reported)
         /\ found \in 0 .. Len(vOut) /\ tries \in 0 .. INQ_MAX_RETRIES
<1>1. vOut \in Seq(Devices)
  BY DEF SearchInv, Ranges
<1>2. reported \in Seq(Devices)
  BY DEF SearchInv, Ranges
<1>3. found \in 0 .. Len(vOut)
  BY DEF SearchInv, Ranges
<1>4. tries \in 0 .. INQ_MAX_RETRIES
  BY DEF SearchInv, Ranges
<1>5. Len(vOut) \in Nat /\ DOMAIN vOut = 1 .. Len(vOut)
  BY <1>1
<1>6. Len(reported) \in Nat /\ DOMAIN reported = 1 .. Len(reported)
  BY <1>2
<1> QED
  BY <1>1, <1>2, <1>3, <1>4, <1>5, <1>6

(* What a lookup reports is added behind what it reported before.          *)
LEMMA ReportStep ==
  ASSUME SearchInv, NEW device \in Devices, I!Report(device), ~constructed
  PROVE  FirstsAgree'
<1> DEFINE n == Len(vOut)
           m == Len(reported)
<1>1. vOut \in Seq(Devices) /\ reported \in Seq(Devices) /\ n \in Nat /\ m \in Nat
  BY SearchShapes
<1>2. /\ reported' = Append(reported, device) /\ Len(reported') = m + 1
      /\ reported'[m + 1] = device /\ \A i \in 1 .. m : reported'[i] = reported[i]
  BY <1>1 DEF I!Report
<1>3. CASE ~ I!Complete(device)
  <2>1. vOut' = vOut
    BY <1>3 DEF I!Report
  <2>2. I!Robots' = I!Robots
    BY <1>1, <1>2, <1>3 DEF I!Robots, I!Complete
  <2>3. I!Named' = I!Named
    BY <2>1 DEF I!Named
  <2>4. \A i \in I!Robots : reported'[i] = reported[i]
    BY <1>1, <1>2 DEF I!Robots
  <2> QED
    BY <2>1, <2>2, <2>3, <2>4 DEF SearchInv, FirstsAgree
<1>4. CASE I!Complete(device)
  <2>1. /\ vOut' = Append(vOut, device) /\ Len(vOut') = n + 1
        /\ vOut'[n + 1] = device /\ \A i \in 1 .. n : vOut'[i] = vOut[i]
    BY <1>1, <1>4 DEF I!Report, I!Add
  <2>2. /\ DOMAIN vOut = 1 .. n /\ DOMAIN vOut' = 1 .. n + 1
        /\ DOMAIN reported = 1 .. m /\ DOMAIN reported' = 1 .. m + 1
    BY <1>1, <1>2, <2>1
  <2>3. /\ I!Named' = I!Named \cup (IF device.name = Sphero THEN {n + 1} ELSE {})
        /\ I!Robots' = I!Robots \cup (IF device.name = Sphero THEN {m + 1} ELSE {})
    <3>1. I!Named' = {i \in 1 .. n + 1 : vOut'[i].name = Sphero}
      BY <2>2 DEF I!Named
    <3>2. I!Named = {i \in 1 .. n : vOut[i].name = Sphero}
      BY <2>2 DEF I!Named
    <3>3. I!Robots' = {i \in 1 .. m + 1 : I!Complete(reported'[i]) /\ reported'[i].name = Sphero}
      BY <2>2 DEF I!Robots
    <3>4. I!Robots = {i \in 1 .. m : I!Complete(reported[i]) /\ reported[i].name = Sphero}
      BY <2>2 DEF I!Robots
    <3> HIDE DEF n, m
    <3>5. 1 .. n + 1 = 1 .. n \cup {n + 1} /\ 1 .. m + 1 = 1 .. m \cup {m + 1}
      BY <1>1
    <3>6. I!Named' = I!Named \cup (IF device.name = Sphero THEN {n + 1} ELSE {})
      BY <2>1, <3>1, <3>2, <3>5
    <3>7. I!Robots' = I!Robots \cup (IF device.name = Sphero THEN {m + 1} ELSE {})
      BY <1>2, <1>4, <3>3, <3>4, <3>5
    <3> QED
      BY <3>6, <3>7
  <2>4. CASE I!Named = {} /\ I!Robots = {} /\ device.name # Sphero
    BY <2>3, <2>4 DEF FirstsAgree
  <2>5. CASE I!Named = {} /\ I!Robots = {} /\ device.name = Sphero
    <3>1. I!Named' = {n + 1} /\ I!Robots' = {m + 1}
      BY <2>3, <2>5
    <3>2. vOut'[n + 1] = reported'[m + 1]
      BY <1>2, <2>1
    <3> HIDE DEF n, m
    <3> QED
      BY <1>1, <3>1, <3>2 DEF FirstsAgree
  <2>6. CASE ~ (I!Named = {} /\ I!Robots = {})
    <3>1. PICK k \in I!Named, i \in I!Robots :
            /\ \A j \in I!Named : k <= j
            /\ \A j \in I!Robots : i <= j
            /\ vOut[k] = reported[i]
      BY <2>6 DEF SearchInv, FirstsAgree
    <3>2. k \in 1 .. n /\ i \in 1 .. m
      BY <2>2 DEF I!Named, I!Robots
    <3>3. k \in I!Named' /\ i \in I!Robots'
      BY <2>3
    <3>4. (\A j \in I!Named' : k <= j) /\ (\A j \in I!Robots' : i <= j)
      <4> HIDE DEF n, m
      <4> QED
        BY <1>1, <2>3, <3>1, <3>2
    <3>5. vOut'[k] = reported'[i]
      BY <1>2, <2>1, <3>1, <3>2
    <3> QED
      BY <3>3, <3>4, <3>5 DEF FirstsAgree
  <2> QED
    BY <2>4, <2>5, <2>6
<1> QED
  BY <1>3, <1>4

(* The search goes on only before the handler is constructed.              *)
LEMMA SearchFirst ==
  ASSUME SearchInv, Search
  PROVE  ~ constructed
<1>1. ~ I!Over
  BY DEF Search, I!Next, I!Over, I!Begin, I!BeginFails, I!End, I!Find, I!Again, I!Report
<1> QED
  BY <1>1 DEF SearchInv

LEMMA SearchStep ==
  ASSUME SearchInv, Search
  PROVE  SearchInv'
<1>1. I!Next /\ constructed' = constructed
  BY DEF Search
<1>2. ~ constructed
  BY SearchFirst
<1>3. INQ_MAX_RETRIES \in Nat \ {0}
  BY SessionAssumption
<1>4. CASE I!Begin \/ I!BeginFails
  <2>1. /\ vOut' = <<>> /\ reported' = <<>> /\ tries' = tries /\ found' = found
        /\ step = "inquire" /\ step' \in {"next", "search"}
    BY <1>4 DEF I!Begin, I!BeginFails
  <2>2. I!Named' = {} /\ I!Robots' = {}
    BY <2>1 DEF I!Named, I!Robots
  <2>3. found = 0 /\ tries < INQ_MAX_RETRIES /\ tries \in 0 .. INQ_MAX_RETRIES
    BY <2>1 DEF SearchInv, Ranges
  <2>4. Ranges'
    <3>1. vOut' \in Seq(Devices) /\ reported' \in Seq(Devices) /\ Len(vOut') = 0
      BY <2>1
    <3>2. step' \in {"next", "search"} /\ tries' \in 0 .. INQ_MAX_RETRIES /\ found' = 0
      BY <2>1, <2>3
    <3>3. found' \in 0 .. Len(vOut')
      BY <3>1, <3>2
    <3> QED
      BY <3>1, <3>2, <3>3 DEF Ranges
  <2>5. HeldForLookup'
    BY <1>4, Zenon DEF I!Begin, I!BeginFails, SearchInv, HeldForLookup
  <2> QED
    BY <1>1, <1>2, <2>1, <2>2, <2>3, <2>4, <2>5 DEF SearchInv, FirstsAgree
<1>5. ASSUME NEW device \in Devices, I!Report(device) PROVE SearchInv'
  <2>1. /\ step = "next" /\ reported' = Append(reported, device)
        /\ vOut' \in {vOut, Append(vOut, device)}
        /\ UNCHANGED <<step, tries, querySet, handle, found>>
    BY <1>5 DEF I!Report, I!Add
  <2>2. found = 0 /\ Ranges'
    BY <2>1 DEF SearchInv, Ranges
  <2>3. HeldForLookup'
    BY <2>1, Zenon DEF SearchInv, HeldForLookup
  <2>4. FirstsAgree'
    BY <1>2, <1>5, ReportStep
  <2> QED
    BY <1>1, <1>2, <2>1, <2>2, <2>3, <2>4 DEF SearchInv
<1>6. CASE I!End
  <2>1. step = "next" /\ step' = "search" /\ UNCHANGED <<tries, vOut, reported, found>>
    BY <1>6 DEF I!End
  <2>2. Ranges' /\ found = 0 /\ tries < INQ_MAX_RETRIES
    BY <2>1 DEF SearchInv, Ranges
  <2>3. HeldForLookup'
    BY <1>6, Zenon DEF I!End, HeldForLookup
  <2>4. FirstsAgree'
    BY <1>2, <2>1 DEF SearchInv, FirstsAgree, I!Named, I!Robots
  <2> QED
    BY <1>1, <1>2, <2>1, <2>2, <2>3, <2>4 DEF SearchInv
<1>7. CASE I!Find
  <2>1. step = "search" /\ step' = "found" /\ I!Named # {}
        /\ UNCHANGED <<tries, vOut, querySet, handle, reported>>
        /\ found' = CHOOSE i \in I!Named : \A j \in I!Named : i <= j
    BY <1>7 DEF I!Find
  <2>2. I!Named \in SUBSET Nat /\ I!Named \subseteq 1 .. Len(vOut)
    <3>1. DOMAIN vOut = 1 .. Len(vOut) /\ Len(vOut) \in Nat
      BY SearchShapes
    <3> QED
      BY <3>1 DEF I!Named
  <2>3. \E i \in I!Named : \A j \in I!Named : i <= j
    <3>1. PICK k \in I!Named : TRUE
      BY <2>1
    <3> QED
      BY <2>2, <3>1, Least
  <2>4. found' \in I!Named /\ \A j \in I!Named : found' <= j
    BY <2>1, <2>3
  <2>5. I!Named' = I!Named
    BY <2>1 DEF I!Named
  <2>6. Ranges'
    <3>1. found' \in 0 .. Len(vOut)
      <4>1. found' \in 1 .. Len(vOut) /\ Len(vOut) \in Nat
        BY <2>2, <2>4, SearchShapes
      <4> QED
        BY <4>1
    <3>2. vOut' = vOut
      BY <2>1
    <3>3. found' \in 0 .. Len(vOut')
      BY <3>1, <3>2
    <3> QED
      BY <2>1, <3>3, SearchShapes DEF Ranges
  <2>7. HeldForLookup'
    BY <2>1, Zenon DEF SearchInv, HeldForLookup
  <2>8. FirstsAgree'
    BY <1>2, <2>1 DEF SearchInv, FirstsAgree, I!Named, I!Robots
  <2> QED
    BY <1>1, <1>2, <2>1, <2>4, <2>5, <2>6, <2>7, <2>8 DEF SearchInv
<1>8. CASE I!Again
  <2>1. /\ step = "search" /\ I!Named = {} /\ tries' = tries + 1
        /\ step' = IF tries' < INQ_MAX_RETRIES THEN "inquire" ELSE "given up"
        /\ UNCHANGED <<vOut, querySet, handle, reported, found>>
    BY <1>8 DEF I!Again
  <2>2. found = 0 /\ tries < INQ_MAX_RETRIES /\ tries \in 0 .. INQ_MAX_RETRIES
    BY <2>1 DEF SearchInv, Ranges
  <2>3. tries' \in 0 .. INQ_MAX_RETRIES
    <3>1. tries' = tries + 1
      BY <2>1
    <3> QED
      BY <1>3, <2>2, <3>1
  <2>4. /\ step' \in {"inquire", "given up"}
        /\ (step' = "inquire" => tries' < INQ_MAX_RETRIES)
    <3> DEFINE more == tries' < INQ_MAX_RETRIES
    <3>1. step' = IF more THEN "inquire" ELSE "given up"
      BY <2>1
    <3> HIDE DEF more
    <3>2. step' \in {"inquire", "given up"} /\ (step' = "inquire" => more)
      BY <3>1
    <3> QED
      BY <3>2 DEF more
  <2>5. Ranges'
    BY <2>1, <2>2, <2>3, <2>4 DEF SearchInv, Ranges
  <2>6. HeldForLookup'
    BY <2>1, <2>4, Zenon DEF SearchInv, HeldForLookup
  <2>7. FirstsAgree' /\ I!Named' = {}
    BY <1>2, <2>1 DEF SearchInv, FirstsAgree, I!Named, I!Robots
  <2> QED
    BY <1>1, <1>2, <2>1, <2>2, <2>4, <2>5, <2>6, <2>7 DEF SearchInv
<1> QED
  BY <1>1, <1>4, <1>5, <1>6, <1>7, <1>8 DEF I!Next

(* Without the search its result stays.                                    *)
LEMMA SearchStays ==
  ASSUME SearchInv, UNCHANGED <<inquiry, constructed>>
  PROVE  SearchInv'
BY DEF SearchInv, inquiry, Ranges, HeldForLookup, I!Named, I!Robots, I!Over, FirstsAgree

LEMMA SearchEnds ==
  ASSUME SearchInv, Construct
  PROVE  SearchInv'
<1>1. /\ I!Over /\ constructed' /\ tries' = 0 /\ reported' = <<>>
      /\ UNCHANGED <<step, vOut, querySet, handle, found>> /\ constructed' \in BOOLEAN
  BY DEF Construct
<1>2. INQ_MAX_RETRIES \in Nat \ {0}
  BY SessionAssumption
<1>3. Ranges'
  <2>1. step' \in {"inquire", "next", "search", "found", "given up"}
        /\ reported' \in Seq(Devices)
    <3>1. reported' \in Seq(Devices)
      BY <1>1
    <3>2. step \in {"inquire", "next", "search", "found", "given up"} /\ step' = step
      BY <1>1 DEF SearchInv, Ranges
    <3> QED
      BY <3>1, <3>2
  <2>2. tries' \in 0 .. INQ_MAX_RETRIES
    BY <1>1, <1>2
  <2>3. vOut' \in Seq(Devices) /\ found' \in 0 .. Len(vOut')
    BY <1>1, <2>1, SearchShapes
  <2> QED
    BY <2>1, <2>2, <2>3, Zenon DEF Ranges
<1>4. HeldForLookup'
  BY <1>1, Zenon DEF SearchInv, HeldForLookup, Construct
<1> QED
  BY <1>1, <1>2, <1>3, <1>4 DEF SearchInv, I!Over, I!Named

-----------------------------------------------------------------------------
(* The handler.  Its steps are those SpheroHandlerProofs is about.         *)

LEMMA HandlerBounds ==
  /\ Base \in Nat \ {0} /\ RETRY \in Nat
  /\ MaxAhead \in Nat /\ MaxSends \in Nat /\ MaxUnasked \in Nat
BY SessionAssumption, BaseAssumption

LEMMA HandlerInit == H!Init => HP!Init
BY DEF H!Init, HP!Init, H!FirstNumber, HP!FirstNumber, H!Out!Init, HP!Out!Init,
       H!In!Init, HP!In!Init

LEMMA HandlerSteps ==
  /\ H!Constructor => HP!Next
  /\ \A t \in Callers :
       H!Generate(t) \/ H!Send(t) \/ H!Load(t) \/ H!Store(t) \/ H!ReadResponse(t)
         \/ H!TakeResponse(t) => HP!Next
  /\ H!Transmit \/ H!Deliver \/ H!Answer => HP!Next
<1> USE DEF H!handler, HP!handler, H!calls, HP!calls, H!outbox, HP!outbox, H!inbox, HP!inbox,
            H!robot, HP!robot, H!Goto, HP!Goto
<1>1. ASSUME H!ConnectFails \/ H!ThreadFails \/ H!Connect \/ H!Retry PROVE HP!Constructor
  BY <1>1 DEF H!ConnectFails, HP!ConnectFails, H!ThreadFails, HP!ThreadFails, H!Connect,
              HP!Connect, H!Retry, HP!Retry, H!AttemptFails, HP!AttemptFails,
              H!LastAttempt, HP!LastAttempt, HP!Constructor
<1>2. ASSUME NEW t \in Callers, H!Generate(t) PROVE HP!Generate(t)
  BY <1>2 DEF H!Generate, HP!Generate, H!Calls, HP!Calls, H!Owed, HP!Owed, H!SeqByte, HP!SeqByte
<1>3. ASSUME NEW t \in Callers, H!Send(t) PROVE HP!Send(t)
  BY <1>3 DEF H!Send, HP!Send, H!Out!Accept, HP!Out!Accept
<1>4. ASSUME NEW t \in Callers, H!Load(t) \/ H!Store(t) PROVE HP!Load(t) \/ HP!Store(t)
  BY <1>4 DEF H!Load, HP!Load, H!Store, HP!Store
<1>5. ASSUME NEW t \in Callers, H!ReadResponse(t) PROVE HP!ReadResponse(t)
  <2>1. H!Cardinality({u \in Callers : pc[u] = "read"})
          = HP!Cardinality({u \in Callers : pc[u] = "read"})
    BY DEF H!Cardinality, HP!Cardinality
  <2> QED
    BY <1>5, <2>1 DEF H!ReadResponse, HP!ReadResponse, H!Calls, HP!Calls, H!Owed, HP!Owed
<1>6. ASSUME NEW t \in Callers, H!TakeResponse(t) PROVE HP!TakeResponse(t)
  BY <1>6 DEF H!TakeResponse, HP!TakeResponse, H!In!Take, HP!In!Take
<1>7. ASSUME H!Transmit PROVE HP!Transmit
  BY <1>7 DEF H!Transmit, HP!Transmit, H!Out!Transmit, HP!Out!Transmit
<1>8. ASSUME H!Deliver PROVE HP!Deliver
  BY <1>8 DEF H!Deliver, HP!Deliver, H!In!Deliver, HP!In!Deliver, H!In!Delivered,
              HP!In!Delivered, H!MaxChunks, HP!MaxChunks
<1>9. ASSUME H!Answer PROVE HP!Answer
  BY <1>9 DEF H!Answer, HP!Answer
<1> QED
  BY <1>1, <1>2, <1>3, <1>4, <1>5, <1>6, <1>7, <1>8, <1>9, Zenon
     DEF H!Constructor, HP!Next, HP!Continue

(* Apart from the call of the constructor every step is one of the handler *)
(* or leaves it alone.                                                     *)
LEMMA SessionSteps ==
  ASSUME [Next]_vars
  PROVE  HP!Next \/ UNCHANGED HP!vars \/ Construct
<1> USE DEF handler, HP!vars, HP!handler, HP!calls, HP!outbox, HP!inbox, HP!robot
<1>1. CASE Search \/ Throw \/ UNCHANGED vars
  BY <1>1 DEF Search, Throw, vars
<1>2. CASE Connecting
  BY <1>2, HandlerSteps DEF Connecting
<1>3. ASSUME NEW t \in Callers, Call(t) PROVE HP!Next \/ UNCHANGED HP!vars
  <2>1. CASE Generate(t) \/ Send(t) \/ Count(t) \/ ReadResponse(t) \/ TakeResponse(t)
    BY <2>1, HandlerSteps DEF Generate, Send, Count, ReadResponse, TakeResponse
  <2>2. CASE TextBegin(t) \/ TextAssign(t) \/ TextCopy(t)
    BY <2>2 DEF TextBegin, TextAssign, TextCopy
  <2> QED
    BY <1>3, <2>1, <2>2 DEF Call
<1>4. CASE Connection \/ Answer
  BY <1>4, HandlerSteps DEF Connection, Answer
<1> QED
  BY <1>1, <1>2, <1>3, <1>4 DEF Next

LEMMA HandlerPartKept ==
  ASSUME HandlerPart, [HP!Next]_(HP!vars)
  PROVE  HandlerPart'
BY HandlerBounds, HP!StageNext, HP!CountNext, HP!DataNext DEF HandlerPart

LEMMA HandlerPartStep ==
  ASSUME HandlerInv, [Next]_vars
  PROVE  HandlerPart'
<1>1. CASE Construct
  <2>1. attempt = 0 /\ ~connected /\ ~iothread
    BY <1>1 DEF HandlerInv, Begun, Construct
  <2>2. /\ stage' \in {"trying", "ready"}
        /\ UNCHANGED <<attempt, connected, iothread, ahead, seqNum, pc, register, numbers,
                       accepted, wire, broken, records, taken, answered, chunks>>
    BY <1>1 DEF Construct
  <2>3. HP!StageInv'
    BY <2>1, <2>2, HandlerBounds DEF HandlerInv, HandlerPart, HP!StageInv, HP!HandlerReady
  <2>4. HP!CountInv'
    BY <2>2 DEF HandlerInv, HandlerPart, HP!CountInv, HP!Counters, HP!Due, HP!Pending,
                HP!NumbersNotAhead
  <2>5. HP!Data'
    BY <2>2 DEF HandlerInv, HandlerPart, HP!Data
  <2> QED
    BY <2>3, <2>4, <2>5 DEF HandlerPart
<1>2. CASE HP!Next \/ UNCHANGED HP!vars
  BY <1>2, HandlerPartKept DEF HandlerInv
<1> QED
  BY <1>1, <1>2, SessionSteps

(* The robot answers what reached it, and that was sent.                   *)
LEMMA InOrderStep ==
  ASSUME HandlerInv, [Next]_vars
  PROVE  InOrder'
<1>1. accepted \in Nat /\ wire \in Seq(Nat) /\ answered \in Nat /\ Len(wire) \in Nat
      /\ InOrder
  BY DEF HandlerInv, HandlerPart, HP!CountInv, HP!Counters, HP!Data
<1>2. CASE UNCHANGED <<accepted, wire, answered>>
  BY <1>1, <1>2 DEF InOrder
<1>3. CASE accepted' = accepted + 1 /\ UNCHANGED <<wire, answered>>
  BY <1>1, <1>3 DEF InOrder
<1>4. CASE Len(wire) < accepted /\ wire' = Append(wire, Len(wire) + 1)
           /\ UNCHANGED <<accepted, answered>>
  BY <1>1, <1>4 DEF InOrder
<1>5. CASE answered < Len(wire) /\ answered' = answered + 1 /\ UNCHANGED <<accepted, wire>>
  BY <1>1, <1>5 DEF InOrder
<1> USE DEF HP!vars, HP!handler, HP!calls, HP!outbox, HP!inbox, HP!robot
<1>6. CASE HP!Constructor
  BY <1>2, <1>6 DEF HP!Constructor, HP!ConnectFails, HP!ThreadFails, HP!Connect, HP!Retry,
                    HP!AttemptFails
<1>7. ASSUME NEW t \in Callers,
             HP!Generate(t) \/ HP!ReadResponse(t) \/ HP!Load(t) \/ HP!Store(t) \/ HP!TakeResponse(t)
      PROVE  InOrder'
  BY <1>2, <1>7 DEF HP!Generate, HP!ReadResponse, HP!Load, HP!Store, HP!TakeResponse
<1>8. ASSUME NEW t \in Callers, HP!Send(t) PROVE InOrder'
  BY <1>3, <1>8 DEF HP!Send, HP!Out!Accept
<1>9. CASE HP!Transmit
  BY <1>4, <1>9 DEF HP!Transmit, HP!Out!Transmit
<1>10. CASE HP!Break \/ HP!Deliver \/ HP!Speak \/ HP!Join
  BY <1>2, <1>10 DEF HP!Break, HP!Out!Break, HP!Deliver, HP!Speak, HP!Join
<1>11. CASE HP!Answer
  BY <1>5, <1>11 DEF HP!Answer
<1>12. CASE Construct
  BY <1>2, <1>12 DEF Construct
<1>13. CASE UNCHANGED HP!vars
  BY <1>2, <1>13
<1> QED
  BY <1>6, <1>7, <1>8, <1>9, <1>10, <1>11, <1>12, <1>13, SessionSteps DEF HP!Next, HP!Continue

(* Calls and the connection leave alone what the constructor made.         *)
LEMMA BeginningSteps ==
  ASSUME [Next]_vars
  PROVE  \/ Search \/ Construct \/ Connecting \/ Throw
         \/ UNCHANGED <<stage, attempt, connected, iothread, constructed, found, vOut, endpoint,
                        thrown>>
<1> USE DEF Unchanged, inquiry, handler, H!handler
<1>1. CASE UNCHANGED vars
  BY <1>1 DEF vars
<1>2. ASSUME NEW t \in Callers, Call(t)
      PROVE  UNCHANGED <<stage, attempt, connected, iothread, constructed, found, vOut, endpoint,
                         thrown>>
  <2>1. CASE Generate(t) \/ Send(t) \/ Count(t)
    BY <2>1 DEF Generate, H!Generate, Send, H!Send, Count, H!Load, H!Store
  <2>2. CASE ReadResponse(t) \/ TakeResponse(t)
    BY <2>2 DEF ReadResponse, H!ReadResponse, TakeResponse, H!TakeResponse
  <2>3. CASE TextBegin(t) \/ TextAssign(t) \/ TextCopy(t)
    BY <2>3 DEF TextBegin, TextAssign, TextCopy
  <2> QED
    BY <1>2, <2>1, <2>2, <2>3 DEF Call
<1>3. CASE Connection \/ Answer
  BY <1>3 DEF Connection, H!Transmit, H!Deliver, Answer, H!Answer
<1> QED
  BY <1>1, <1>2, <1>3 DEF Next

LEMMA BegunStep ==
  ASSUME SearchInv, HandlerInv, [Next]_vars
  PROVE  Begun'
<1>1. constructed \in BOOLEAN /\ connected \in BOOLEAN /\ thrown \in BOOLEAN
  BY DEF SearchInv, HandlerInv, HandlerPart, HP!StageInv, Begun
<1>2. CASE Search
  BY <1>2, SearchFirst DEF Search, handler, HandlerInv, Begun
<1>3. CASE Construct
  BY <1>3 DEF Construct, HandlerInv, Begun
<1>4. CASE Connecting
  <2>1. constructed /\ constructed' /\ found' = found /\ vOut' = vOut /\ thrown' = thrown
    BY <1>4 DEF Connecting, inquiry
  <2>2. H!Constructor /\ SetEndpoint
    BY <1>4 DEF Connecting
  <2>3. stage \in {"trying", "asleep"}
    BY <2>2 DEF H!Constructor, H!ConnectFails, H!ThreadFails, H!Connect, H!Retry
  <2>4. found # 0
    BY <2>1, <2>3 DEF HandlerInv, Begun
  <2>5. ~thrown
    BY <1>1, <2>4 DEF HandlerInv, Begun
  <2>6. vOut[found] \in Devices
    <3>1. found \in 1 .. Len(vOut)
      BY <2>4, SearchShapes
    <3> QED
      BY <3>1, SearchShapes
  <2>7. CASE stage = "trying"
    <3>1. endpoint' = vOut[found].address
      BY <2>2, <2>7 DEF SetEndpoint
    <3>2. stage' = "ready" => connected'
      BY <2>2, <2>7 DEF H!Constructor, H!ConnectFails, H!ThreadFails, H!Connect, H!Retry,
                        H!AttemptFails
    <3>3. endpoint' \in {Nothing} \cup {d.address : d \in Devices}
      BY <2>6, <3>1
    <3>4. thrown' \in BOOLEAN /\ ~thrown' /\ found' # 0
      BY <1>1, <2>1, <2>4, <2>5
    <3>5. endpoint' = vOut'[found'].address
      BY <2>1, <3>1
    <3> QED
      BY <2>1, <3>2, <3>3, <3>4, <3>5, Zenon DEF Begun
  <2>8. CASE stage = "asleep"
    <3>1. endpoint' = endpoint
      BY <2>2, <2>8 DEF SetEndpoint
    <3>2. H!Retry
      BY <2>2, <2>8 DEF H!Constructor, H!ConnectFails, H!ThreadFails, H!Connect
    <3>3. attempt < RETRY /\ attempt \in 0 .. RETRY
      BY <2>8 DEF HandlerInv, HandlerPart, HP!StageInv
    <3>4. attempt' <= RETRY
      BY <3>2, <3>3, HandlerBounds DEF H!Retry
    <3>5. stage' = "trying" /\ connected' = connected
      BY <3>2, <3>4 DEF H!Retry
    <3> QED
      BY <2>1, <2>4, <2>5, <3>1, <3>5 DEF HandlerInv, Begun
  <2> QED
    BY <2>3, <2>7, <2>8
<1>5. CASE Throw
  BY <1>5 DEF Throw, inquiry, handler, HandlerInv, Begun
<1>6. CASE UNCHANGED <<stage, attempt, connected, iothread, constructed, found, vOut, endpoint,
                       thrown>>
  BY <1>6 DEF HandlerInv, Begun
<1> QED
  BY <1>2, <1>3, <1>4, <1>5, <1>6, BeginningSteps

-----------------------------------------------------------------------------
(* What is said.                                                           *)

(* What the tests ask is a command, and no two of them ask the same.       *)
LEMMA TestsAskCommands ==
  \A test \in AllTests :
    /\ test.command \in SpheroCommand
    /\ test.length \in 1 .. 33
    /\ \A other \in AllTests : other.command = test.command => other = test
<1>1. /\ PingCommand \in SpheroCommand /\ VersionCommand \in SpheroCommand
      /\ GetBTNameCommand \in SpheroCommand /\ GetPowerStateCommand \in SpheroCommand
      /\ ReadLocatorCommand \in SpheroCommand
  BY DEF PingCommand, VersionCommand, GetBTNameCommand, GetPowerStateCommand, ReadLocatorCommand,
         SpheroCommand, CoreCommandId, SpheroCommandId, DID_CORE, DID_SPHERO
<1>2. \A test \in AllTests : test.command \in SpheroCommand /\ test.length \in 1 .. 33
  BY <1>1 DEF AllTests, PingTest, VersioningTest, BluetoothInfoTest, PowerStateTest, LocatorTest
<1>3. /\ PingCommand # VersionCommand /\ PingCommand # GetBTNameCommand
      /\ PingCommand # GetPowerStateCommand /\ PingCommand # ReadLocatorCommand
      /\ VersionCommand # GetBTNameCommand /\ VersionCommand # GetPowerStateCommand
      /\ VersionCommand # ReadLocatorCommand /\ GetBTNameCommand # GetPowerStateCommand
      /\ GetBTNameCommand # ReadLocatorCommand /\ GetPowerStateCommand # ReadLocatorCommand
  BY DEF PingCommand, VersionCommand, GetBTNameCommand, GetPowerStateCommand, ReadLocatorCommand,
         DID_CORE, DID_SPHERO
<1>4. /\ PingTest.command = PingCommand /\ VersioningTest.command = VersionCommand
      /\ BluetoothInfoTest.command = GetBTNameCommand
      /\ PowerStateTest.command = GetPowerStateCommand
      /\ LocatorTest.command = ReadLocatorCommand
  BY DEF PingTest, VersioningTest, BluetoothInfoTest, PowerStateTest, LocatorTest
<1>5. \A test, other \in AllTests : other.command = test.command => other = test
  BY <1>3, <1>4 DEF AllTests
<1> QED
  BY <1>2, <1>5

(* The latest command of a caller is one of those sent, or none.           *)
LEMMA LatestIsSent ==
  ASSUME NEW n \in Nat, DOMAIN asked = 1 .. n, NEW t
  PROVE  LatestOf(t) \in 0 .. n
<1> DEFINE S == {0} \cup {i \in DOMAIN asked : asked[i].by = t}
           U == {n - i : i \in S}
<1>1. S \subseteq 0 .. n /\ 0 \in S
  OBVIOUS
<1> HIDE DEF S
<1>2. U \in SUBSET Nat /\ n - 0 \in U
  <2>1. \A i \in S : n - i \in Nat
    BY <1>1
  <2> QED
    BY <1>1, <2>1
<1>3. PICK m \in U : \A k \in U : m <= k
  <2> HIDE DEF U
  <2> QED
    BY <1>2, Least
<1>4. PICK i \in S : m = n - i
  OBVIOUS
<1>5. \A j \in S : i >= j
  <2> SUFFICES ASSUME NEW j \in S PROVE i >= j
    OBVIOUS
  <2>1. m <= n - j
    BY <1>3
  <2> QED
    BY <1>1, <1>4, <2>1
<1>6. Max(S) \in S
  BY <1>5 DEF Max
<1>7. LatestOf(t) = Max(S)
  BY DEF LatestOf, S
<1> QED
  BY <1>1, <1>6, <1>7

(* What goes over the wire is a command, and the robot reads it as sent.   *)
LEMMA MessageIsCommand ==
  ASSUME NEW cmd \in SpheroCommand, NEW seq \in Byte
  PROVE  LET message == GenerateCommandMessage(cmd, seq)
         IN  /\ message \in Commands /\ message.seq = seq /\ message.data = <<>>
             /\ message.did = cmd.did /\ message.cid = cmd.cid
<1> DEFINE message == GenerateCommandMessage(cmd, seq)
<1>1. cmd.did \in 0 .. 100 /\ cmd.cid \in 0 .. 100
  BY DEF SpheroCommand, CoreCommandId, SpheroCommandId, DID_CORE, DID_SPHERO
<1>2. cmd.did \in Byte /\ cmd.cid \in Byte
  BY <1>1, SessionAssumption, BaseAssumption DEF Byte
<1>3. Flags(TRUE, TRUE) = MaxByte /\ MaxByte \in Byte
  BY BaseAssumption DEF Flags, MaxByte, Byte
<1>4. message = [sop2 |-> MaxByte, did |-> cmd.did, cid |-> cmd.cid, seq |-> seq, data |-> <<>>]
  <2> DEFINE fresh == Fresh(TRUE, TRUE)
  <2>1. fresh = [sop2 |-> MaxByte, did |-> 0, cid |-> 0, seq |-> 0, data |-> <<>>]
    BY <1>3 DEF Fresh
  <2>2. message = [fresh EXCEPT !.did = cmd.did, !.cid = cmd.cid, !.seq = seq]
    BY DEF GenerateCommandMessage
  <2> HIDE DEF fresh, message
  <2> QED
    BY <2>1, <2>2
<1>5. <<>> \in Seq(Byte)
  OBVIOUS
<1> HIDE DEF message
<1>6. message \in Commands
  BY <1>2, <1>3, <1>4, <1>5 DEF Commands
<1> QED
  BY <1>4, <1>6 DEF message

(* What the robot says is as long as its data sheet has it, and fits.      *)
LEMMA SaidIsData ==
  ASSUME NEW test \in AllTests
  PROVE  /\ Said(test.command) \in Seq(Byte) /\ Len(Said(test.command)) = test.length - 1
         /\ Len(Said(test.command)) <= MaxData
<1> DEFINE theTest == CHOOSE other \in AllTests : other.command = test.command
           n == test.length - 1
<1>1. theTest = test
  <2>1. theTest \in AllTests /\ theTest.command = test.command
    OBVIOUS
  <2> QED
    BY <2>1, TestsAskCommands
<1>2. Said(test.command) = [i \in 1 .. theTest.length - 1 |-> (77 * i) % Base]
  BY DEF Said
<1>3. Said(test.command) = [i \in 1 .. n |-> (77 * i) % Base] /\ n \in 0 .. 32
  BY <1>1, <1>2, TestsAskCommands
<1> HIDE DEF n
<1>4. \A i \in 1 .. n : (77 * i) % Base \in Byte
  <2> SUFFICES ASSUME NEW i \in 1 .. n PROVE (77 * i) % Base \in Byte
    OBVIOUS
  <2>1. 77 * i \in Nat
    BY <1>3
  <2> QED
    BY <2>1, Remainder
<1>5. Said(test.command) \in Seq(Byte) /\ Len(Said(test.command)) = n
  BY <1>3, <1>4
<1>6. n <= MaxData
  BY <1>3, SessionAssumption, BaseAssumption DEF MaxData, MaxByte
<1> QED
  BY <1>5, <1>6 DEF n

(* Every answer of the robot to a command is a sequence of bytes.          *)
LEMMA RepliesAreBytes ==
  ASSUME NEW cmd \in SpheroCommand, NEW seq \in Byte,
         NEW reply \in Replies(Assembled(GenerateCommandMessage(cmd, seq)))
  PROVE  reply \in Answers /\ Len(reply.data) <= MaxData /\ ResponsePacket(reply) \in Seq(Byte)
<1> DEFINE message == GenerateCommandMessage(cmd, seq)
           packet == Assembled(message)
<1>1. message \in Commands /\ message.seq = seq /\ message.data = <<>>
  BY MessageIsCommand
<1>2. Len(message.data) <= MaxData
  <2>1. Len(message.data) = 0
    BY <1>1
  <2> QED
    BY <2>1, SessionAssumption, BaseAssumption DEF MaxData, MaxByte
<1> HIDE DEF message
<1>3. Decoded(packet) = message
  BY <1>1, <1>2, AssembledIsCommand
<1>4. Decoded(packet).seq \in Byte
  BY <1>1, <1>3
<1>5. reply \in Replies(packet)
  BY DEF message
<1> HIDE DEF packet
<1>6. <<>> \in Seq(Byte) /\ Len(<<>>) <= MaxData
  BY SessionAssumption, BaseAssumption DEF MaxData, MaxByte
<1>7. EBAD_CMD \in Byte /\ RobotCodes \subseteq Byte
  BY SessionAssumption, BaseAssumption DEF EBAD_CMD, Byte
<1>8. CASE Knows(packet)
  <2>1. PICK code \in RobotCodes :
          reply = [mrsp |-> code, seq |-> Decoded(packet).seq,
                   data |-> IF code = OK THEN Said(Executed(packet)) ELSE <<>>]
    BY <1>5, <1>8 DEF Replies
  <2>2. Said(Executed(packet)) \in Seq(Byte) /\ Len(Said(Executed(packet))) <= MaxData
    BY <1>8, SaidIsData DEF Knows, Executed
  <2>3. reply.data \in Seq(Byte) /\ Len(reply.data) <= MaxData
    BY <1>6, <2>1, <2>2
  <2>4. reply = [mrsp |-> code, seq |-> Decoded(packet).seq, data |-> reply.data]
    BY <2>1
  <2> QED
    BY <1>4, <1>7, <2>3, <2>4, ResponseBytes DEF Answers
<1>9. CASE ~ Knows(packet)
  <2>1. reply = [mrsp |-> EBAD_CMD, seq |-> Decoded(packet).seq, data |-> <<>>]
    BY <1>5, <1>9 DEF Replies
  <2>2. reply \in Answers /\ Len(reply.data) <= MaxData
    BY <1>4, <1>6, <1>7, <2>1 DEF Answers
  <2> QED
    BY <2>2, ResponseBytes
<1> QED
  BY <1>8, <1>9

(* Only a call of send() or of readResponse(), and an answer, change what  *)
(* was said.                                                               *)
LEMMA TalkSteps ==
  ASSUME [Next]_vars
  PROVE  \/ UNCHANGED <<accepted, answered, asked, replies, response>>
         \/ \E t \in Callers : Send(t) \/ TakeResponse(t)
         \/ Answer
<1> USE DEF Unchanged, inquiry, handler, talk, text, H!handler, H!calls, H!outbox, H!inbox, H!robot
<1>1. CASE UNCHANGED vars
  BY <1>1 DEF vars
<1>2. CASE Search \/ Throw
  BY <1>2 DEF Search, Throw
<1>3. CASE Construct
  BY <1>3 DEF Construct
<1>4. CASE Connecting
  BY <1>4 DEF Connecting, H!Constructor, H!ConnectFails, H!ThreadFails, H!Connect, H!Retry,
              H!AttemptFails
<1>5. CASE Connection
  BY <1>5 DEF Connection, H!Transmit, H!Out!Transmit, H!Deliver
<1>6. ASSUME NEW t \in Callers, Generate(t) \/ Count(t) \/ ReadResponse(t)
      PROVE  UNCHANGED <<accepted, answered, asked, replies, response>>
  BY <1>6 DEF Generate, H!Generate, Count, H!Load, H!Store, ReadResponse, H!ReadResponse
<1>7. ASSUME NEW t \in Callers, TextBegin(t) \/ TextAssign(t) \/ TextCopy(t)
      PROVE  UNCHANGED <<accepted, answered, asked, replies, response>>
  BY <1>7 DEF TextBegin, TextAssign, TextCopy
<1> QED
  BY <1>1, <1>2, <1>3, <1>4, <1>5, <1>6, <1>7 DEF Next, Call

LEMMA TalkStep ==
  ASSUME HandlerInv, HandlerPart', TalkInv, [Next]_vars
  PROVE  TalkInv'
<1>1. /\ asked \in Seq([by : Callers, test : Tests]) /\ Len(asked) = accepted
      /\ replies \in Seq(Seq(Byte)) /\ Len(replies) = answered
      /\ DOMAIN response = Callers
      /\ \A t \in Callers : response[t].to \in 0 .. accepted
  BY DEF TalkInv
<1>2. accepted \in Nat /\ answered \in Nat /\ answered <= Len(wire) /\ Len(wire) <= accepted
      /\ Len(wire) \in Nat
  BY DEF HandlerInv, HandlerPart, HP!CountInv, HP!Counters, HP!Data, InOrder
<1>3. CASE UNCHANGED <<accepted, answered, asked, replies, response>>
  BY <1>1, <1>3 DEF TalkInv
<1>4. ASSUME NEW t \in Callers, Send(t) PROVE TalkInv'
  <2>1. accepted' = accepted + 1 /\ answered' = answered
    BY <1>4 DEF Send, H!Send, H!Out!Accept, H!robot
  <2>2. replies' = replies /\ response' = response
    BY <1>4 DEF Send
  <2>3. PICK test \in Tests : asked' = Append(asked, [by |-> t, test |-> test])
    BY <1>4 DEF Send
  <2>4. asked' \in Seq([by : Callers, test : Tests]) /\ Len(asked') = accepted + 1
    BY <1>1, <2>3
  <2>5. \A u \in Callers : response'[u].to \in 0 .. accepted'
    BY <1>1, <1>2, <2>1, <2>2
  <2> QED
    BY <1>1, <2>1, <2>2, <2>4, <2>5 DEF TalkInv
<1>5. ASSUME NEW t \in Callers, TakeResponse(t) PROVE TalkInv'
  <2>1. UNCHANGED <<accepted, answered, asked, replies>>
    BY <1>5 DEF TakeResponse, H!TakeResponse, H!outbox, H!robot, talk
  <2>2. LatestOf(t) \in 0 .. accepted
    BY <1>1, <1>2, LatestIsSent
  <2> DEFINE got == ParseFromInternalData(replies[Head(chunks[Last(taken')])])
  <2>3. response' = [response EXCEPT ![t] = [to |-> LatestOf(t), got |-> got]]
    BY <1>5 DEF TakeResponse
  <2> HIDE DEF got
  <2>4. DOMAIN response' = Callers /\ \A u \in Callers : response'[u].to \in 0 .. accepted
    BY <1>1, <2>2, <2>3
  <2> QED
    BY <1>1, <2>1, <2>4 DEF TalkInv
<1>6. CASE Answer
  <2>1. answered' = answered + 1 /\ answered < Len(wire) /\ accepted' = accepted
    BY <1>6 DEF Answer, H!Answer, H!outbox
  <2>2. asked' = asked /\ response' = response
    BY <1>6 DEF Answer
  <2>3. PICK reply \in Replies(Packet(answered')) :
          replies' = Append(replies, ResponsePacket(reply))
    BY <1>6 DEF Answer
  <2> DEFINE n == answered'
  <2>4. n \in 1 .. accepted
    BY <1>2, <2>1
  <2> HIDE DEF n
  <2>5. asked[n].test.command \in SpheroCommand
    <3> DEFINE Calling == [by : Callers, test : Tests]
    <3>1. asked \in Seq(Calling)
      BY <1>1
    <3>2. n \in 1 .. Len(asked)
      BY <1>1, <2>4
    <3> HIDE DEF Calling
    <3>3. asked[n] \in Calling
      BY <3>1, <3>2
    <3>4. asked[n] \in [by : Callers, test : Tests]
      BY <3>3 DEF Calling
    <3>5. asked[n].test \in Tests
      BY <3>4
    <3> QED
      BY <3>5, SessionAssumption, TestsAskCommands
  <2>6. numbers[n] \in Byte
    <3>1. numbers \in Seq(Byte) /\ Len(numbers) = accepted
      BY DEF HandlerInv, HandlerPart, HP!CountInv, HP!Counters, Byte
    <3>2. n \in 1 .. Len(numbers)
      BY <2>4, <3>1
    <3> QED
      BY <3>1, <3>2
  <2>7. numbers[n] = numbers[answered']
    BY DEF n
  <2>8. reply \in Replies(Assembled(GenerateCommandMessage(asked[n].test.command, numbers[n])))
    BY <2>3 DEF Packet, n
  <2>9. ResponsePacket(reply) \in Seq(Byte)
    BY <2>5, <2>6, <2>8, RepliesAreBytes
  <2>10. replies' \in Seq(Seq(Byte)) /\ Len(replies') = answered + 1
    BY <1>1, <2>3, <2>9
  <2> QED
    BY <1>1, <2>1, <2>2, <2>10 DEF TalkInv
<1> QED
  BY <1>3, <1>4, <1>5, <1>6, TalkSteps

-----------------------------------------------------------------------------
(* The text.                                                               *)

LEMMA TextSteps ==
  ASSUME [Next]_vars
  PROVE  \/ UNCHANGED <<response, reading, overlapped, resp>>
         \/ \E t \in Callers : TakeResponse(t) \/ TextBegin(t) \/ TextAssign(t) \/ TextCopy(t)
<1> USE DEF Unchanged, text
<1>1. CASE UNCHANGED vars
  BY <1>1 DEF vars
<1>2. CASE Search \/ Throw \/ Construct \/ Connecting
  BY <1>2 DEF Search, Throw, Construct, Connecting
<1>3. CASE Connection \/ Answer
  BY <1>3 DEF Connection, Answer
<1>4. ASSUME NEW t \in Callers, Generate(t) \/ Send(t) \/ Count(t) \/ ReadResponse(t)
      PROVE  UNCHANGED <<response, reading, overlapped, resp>>
  BY <1>4 DEF Generate, Send, Count, ReadResponse
<1> QED
  BY <1>1, <1>2, <1>3, <1>4 DEF Next, Call

LEMMA TextStep ==
  ASSUME TextInv, TalkInv, [Next]_vars
  PROVE  TextInv'
<1>1. /\ reading \in [Callers -> {"no", "begin", "assign", "copy"}]
      /\ overlapped \in [Callers -> BOOLEAN]
      /\ resp \in 0 .. Torn
  BY DEF TextInv
<1>2. \A t, u \in Callers : t # u /\ IsInside(t) /\ IsInside(u) => overlapped[t]
  BY DEF TextInv
<1>3. \A t \in Callers : reading[t] = "assign" => HasText(Code(t))
  BY DEF TextInv
<1>4. \A t \in Callers :
        reading[t] = "copy" /\ ~overlapped[t] /\ HasText(Code(t)) => resp = Code(t)
  BY DEF TextInv
<1>5. DOMAIN response = Callers
  BY DEF TalkInv
<1>6. CASE UNCHANGED <<response, reading, overlapped, resp>>
  BY <1>6 DEF TextInv, IsInside, Code
<1>7. ASSUME NEW t \in Callers, TakeResponse(t) PROVE TextInv'
  <2>1. reading' = [reading EXCEPT ![t] = "begin"] /\ overlapped' = overlapped /\ resp' = resp
    BY <1>7 DEF TakeResponse
  <2>2. \A u \in Callers \ {t} : response'[u] = response[u]
    BY <1>5, <1>7 DEF TakeResponse
  <2>3. reading' \in [Callers -> {"no", "begin", "assign", "copy"}] /\ reading'[t] = "begin"
        /\ \A u \in Callers \ {t} : reading'[u] = reading[u]
    BY <1>1, <2>1
  <2>4. \A u \in Callers : IsInside(u)' => u # t /\ IsInside(u)
    BY <2>3 DEF IsInside
  <2>5. \A u, v \in Callers : u # v /\ IsInside(u)' /\ IsInside(v)' => overlapped'[u]
    BY <1>2, <2>1, <2>4
  <2>6. \A u \in Callers : reading'[u] = "assign" => HasText(Code(u)')
    BY <1>3, <2>2, <2>3 DEF Code
  <2>7. \A u \in Callers :
          reading'[u] = "copy" /\ ~overlapped'[u] /\ HasText(Code(u)') => resp' = Code(u)'
    BY <1>4, <2>1, <2>2, <2>3 DEF Code
  <2> QED
    BY <1>1, <2>1, <2>3, <2>5, <2>6, <2>7 DEF TextInv, HasText
<1>8. ASSUME NEW t \in Callers, TextBegin(t) PROVE TextInv'
  <2>1. /\ reading[t] = "begin" /\ response' = response /\ resp' = resp
        /\ reading' = [reading EXCEPT ![t] = IF HasText(Code(t)) THEN "assign" ELSE "copy"]
    BY <1>8 DEF TextBegin, Code
  <2>2. /\ reading'[t] \in {"assign", "copy"}
        /\ reading'[t] = "assign" => HasText(Code(t))
        /\ reading'[t] = "copy" => ~ HasText(Code(t))
    BY <1>1, <2>1
  <2>3. reading' \in [Callers -> {"no", "begin", "assign", "copy"}]
        /\ \A u \in Callers \ {t} : reading'[u] = reading[u]
    BY <1>1, <2>1
  <2>4. overlapped' = [u \in Callers |->
          IF u = t THEN Inside(t) # {} ELSE overlapped[u] \/ u \in Inside(t)]
    BY <1>8 DEF TextBegin
  <2>5. overlapped' \in [Callers -> BOOLEAN]
    BY <1>1, <2>4
  <2>6. overlapped'[t] = (Inside(t) # {})
    BY <2>4, Zenon
  <2>7. \A u \in Callers \ {t} : overlapped'[u] = (overlapped[u] \/ u \in Inside(t))
    BY <2>4, Zenon
  <2>8. ASSUME NEW u \in Callers, NEW v \in Callers, u # v, IsInside(u)', IsInside(v)'
        PROVE  overlapped'[u]
    <3>1. CASE u = t
      <4>1. v \in Inside(t)
        BY <2>3, <2>8, <3>1 DEF Inside, IsInside
      <4> QED
        BY <2>6, <3>1, <4>1, Zenon
    <3>2. CASE u # t /\ v = t
      <4>1. u \in Inside(t)
        BY <2>3, <3>2, <2>8 DEF Inside, IsInside
      <4> QED
        BY <2>7, <3>2, <4>1, Zenon
    <3>3. CASE u # t /\ v # t
      <4>1. IsInside(u) /\ IsInside(v)
        BY <2>3, <2>8, <3>3 DEF IsInside
      <4>2. overlapped[u]
        BY <1>2, <2>8, <4>1
      <4> QED
        BY <2>7, <3>3, <4>2, Zenon
    <3> QED
      BY <3>1, <3>2, <3>3
  <2>9. \A u \in Callers : Code(u)' = Code(u)
    BY <2>1 DEF Code
  <2>10. \A u \in Callers : reading'[u] = "assign" => HasText(Code(u)')
    BY <1>3, <2>2, <2>3, <2>9
  <2>11. ASSUME NEW u \in Callers, reading'[u] = "copy", ~ overlapped'[u], HasText(Code(u)')
         PROVE  resp' = Code(u)'
    <3>1. u # t
      BY <2>2, <2>9, <2>11
    <3>2. reading[u] = "copy"
      BY <2>3, <2>11, <3>1
    <3>3. ~ overlapped[u]
      BY <2>7, <2>11, <3>1, Zenon
    <3> QED
      BY <1>4, <2>1, <2>9, <2>11, <3>2, <3>3
  <2> QED
    BY <1>1, <2>1, <2>3, <2>5, <2>8, <2>10, <2>11, Zenon DEF TextInv, HasText
<1>9. ASSUME NEW t \in Callers, TextAssign(t) PROVE TextInv'
  <2>1. /\ reading[t] = "assign" /\ reading' = [reading EXCEPT ![t] = "copy"]
        /\ response' = response /\ overlapped' = overlapped
        /\ resp' \in MayTear(t, Code(t))
    BY <1>9 DEF TextAssign, Code
  <2>2. reading' \in [Callers -> {"no", "begin", "assign", "copy"}] /\ reading'[t] = "copy"
        /\ \A u \in Callers \ {t} : reading'[u] = reading[u]
    BY <1>1, <2>1
  <2>3. \A u \in Callers : Code(u)' = Code(u)
    BY <2>1 DEF Code
  <2>4. \A u \in Callers : IsInside(u)' => IsInside(u)
    BY <2>1, <2>2 DEF IsInside
  <2>5. \A u, v \in Callers : u # v /\ IsInside(u)' /\ IsInside(v)' => overlapped'[u]
    BY <1>2, <2>1, <2>4
  <2>6. \A u \in Callers : reading'[u] = "assign" => HasText(Code(u)')
    BY <1>3, <2>2, <2>3
  <2>7. ASSUME NEW u \in Callers, reading'[u] = "copy", ~ overlapped'[u], HasText(Code(u)')
        PROVE  resp' = Code(u)'
    <3>1. ~ overlapped[u]
      BY <2>1, <2>7
    <3>2. CASE u = t
      BY <2>1, <2>3, <3>1, <3>2 DEF MayTear
    <3>3. CASE u # t
      <4>1. IsInside(u) /\ IsInside(t)
        BY <2>1, <2>2, <2>7, <3>3 DEF IsInside
      <4> QED
        BY <1>2, <3>1, <3>3, <4>1
    <3> QED
      BY <3>2, <3>3
  <2>8. resp' \in 0 .. Torn
    <3>1. Code(t) \in 0 .. 53
      BY <1>3, <2>1 DEF HasText, MessageResponseCodes
    <3>2. resp' \in {Code(t), Torn}
      BY <2>1 DEF MayTear
    <3> QED
      BY <3>1, <3>2, SessionAssumption, BaseAssumption DEF Torn
  <2> QED
    BY <1>1, <2>1, <2>2, <2>5, <2>6, <2>7, <2>8 DEF TextInv, HasText
<1>10. ASSUME NEW t \in Callers, TextCopy(t) PROVE TextInv'
  <2>1. /\ reading[t] = "copy" /\ reading' = [reading EXCEPT ![t] = "no"]
        /\ overlapped' = [overlapped EXCEPT ![t] = FALSE]
        /\ response' = response /\ resp' = resp
    BY <1>10 DEF TextCopy
  <2>2. reading' \in [Callers -> {"no", "begin", "assign", "copy"}] /\ reading'[t] = "no"
        /\ \A u \in Callers \ {t} : reading'[u] = reading[u]
    BY <1>1, <2>1
  <2>3. overlapped' \in [Callers -> BOOLEAN]
    BY <1>1, <2>1
  <2>4. \A u \in Callers \ {t} : overlapped'[u] = overlapped[u]
    BY <1>1, <2>1, Zenon
  <2>5. \A u \in Callers : Code(u)' = Code(u)
    BY <2>1 DEF Code
  <2>6. \A u \in Callers : IsInside(u)' => u # t /\ IsInside(u)
    BY <2>2 DEF IsInside
  <2>7. \A u, v \in Callers : u # v /\ IsInside(u)' /\ IsInside(v)' => overlapped'[u]
    BY <1>2, <2>4, <2>6, Zenon
  <2>8. \A u \in Callers : reading'[u] = "assign" => HasText(Code(u)')
    BY <1>3, <2>2, <2>5
  <2>9. ASSUME NEW u \in Callers, reading'[u] = "copy", ~ overlapped'[u], HasText(Code(u)')
        PROVE  resp' = Code(u)'
    <3>1. u # t /\ reading[u] = "copy"
      BY <2>2, <2>9
    <3>2. ~ overlapped[u]
      BY <2>4, <2>9, <3>1
    <3> QED
      BY <1>4, <2>1, <2>5, <2>9, <3>1, <3>2
  <2> QED
    BY <1>1, <2>1, <2>2, <2>3, <2>7, <2>8, <2>9, Zenon DEF TextInv, HasText
<1> QED
  BY <1>6, <1>7, <1>8, <1>9, <1>10, TextSteps

-----------------------------------------------------------------------------
(* The invariant.                                                          *)

LEMMA SearchInit == Init => SearchInv
<1> SUFFICES ASSUME Init PROVE SearchInv
  OBVIOUS
<1>1. /\ step = "inquire" /\ tries = 0 /\ vOut = <<>> /\ reported = <<>> /\ found = 0
      /\ constructed = FALSE
  BY DEF Init, I!Init
<1>2. HeldForLookup
  BY Zenon DEF Init, I!Init, HeldForLookup
<1>3. Ranges /\ tries < INQ_MAX_RETRIES
  BY <1>1, SessionAssumption DEF Ranges
<1>4. I!Named = {} /\ I!Robots = {}
  BY <1>1 DEF I!Named, I!Robots
<1> QED
  BY <1>1, <1>2, <1>3, <1>4 DEF SearchInv, FirstsAgree

LEMMA HandlerPartInit == Init => HandlerInv
<1> SUFFICES ASSUME Init PROVE HandlerInv
  OBVIOUS
<1>1. HP!Init
  BY HandlerInit DEF Init
<1>2. HandlerPart
  BY <1>1, HandlerBounds, HP!StageInit, HP!CountInit, HP!DataInit DEF HandlerPart
<1>3. InOrder
  BY <1>1 DEF HP!Init, HP!Out!Init, HP!In!Init, InOrder
<1>4. Begun
  BY DEF Init, H!Init, I!Init, Begun
<1> QED
  BY <1>2, <1>3, <1>4 DEF HandlerInv

LEMMA TalkInit == Init => TalkInv
<1> SUFFICES ASSUME Init PROVE TalkInv
  OBVIOUS
<1>1. /\ asked = <<>> /\ replies = <<>> /\ response = [t \in Callers |-> NoReply]
      /\ accepted = 0 /\ answered = 0
  BY DEF Init, H!Init, H!Out!Init
<1>2. \A t \in Callers : response[t].to = 0
  BY <1>1 DEF NoReply
<1> QED
  BY <1>1, <1>2 DEF TalkInv

LEMMA TextInit == Init => TextInv
<1> SUFFICES ASSUME Init PROVE TextInv
  OBVIOUS
<1>1. /\ reading = [t \in Callers |-> "no"] /\ overlapped = [t \in Callers |-> FALSE]
      /\ resp = Base
  BY DEF Init, Empty
<1>2. resp \in 0 .. Torn
  BY <1>1, BaseAssumption DEF Torn
<1> QED
  BY <1>1, <1>2 DEF TextInv, IsInside

LEMMA InvInit == Init => SessionInv
BY SearchInit, HandlerPartInit, TalkInit, TextInit DEF SessionInv

LEMMA InvNext == SessionInv /\ [Next]_vars => SessionInv'
<1> SUFFICES ASSUME SessionInv, [Next]_vars PROVE SessionInv'
  OBVIOUS
<1>1. SearchInv /\ HandlerInv /\ TalkInv /\ TextInv
  BY DEF SessionInv
<1>2. Search \/ Construct \/ UNCHANGED <<inquiry, constructed>>
  <2> USE DEF Unchanged
  <2>1. CASE UNCHANGED vars
    BY <2>1 DEF vars
  <2>2. CASE Connecting \/ Throw \/ Connection \/ Answer
    BY <2>2 DEF Connecting, Throw, Connection, Answer
  <2>3. ASSUME NEW t \in Callers, Call(t) PROVE UNCHANGED <<inquiry, constructed>>
    BY <2>3 DEF Call, Generate, Send, Count, ReadResponse, TakeResponse, TextBegin, TextAssign,
                TextCopy
  <2> QED
    BY <2>1, <2>2, <2>3 DEF Next
<1>3. SearchInv'
  BY <1>1, <1>2, SearchStep, SearchEnds, SearchStays
<1>4. HandlerPart' /\ InOrder' /\ Begun'
  BY <1>1, HandlerPartStep, InOrderStep, BegunStep
<1>5. TalkInv' /\ TextInv'
  BY <1>1, <1>4, TalkStep, TextStep
<1> QED
  BY <1>3, <1>4, <1>5 DEF SessionInv, HandlerInv

LEMMA InvHolds == FairSpec => []SessionInv
BY InvInit, InvNext, PTL DEF FairSpec

-----------------------------------------------------------------------------
(* Every variable has its type: in particular all the answers of the robot *)
(* are bytes, a response is to a command that was sent, and the static     *)
(* string is a text, empty or torn.                                        *)
THEOREM TypeCorrect == FairSpec => []TypeOK
<1>1. SessionInv => TypeOK
  <2> SUFFICES ASSUME SessionInv PROVE TypeOK
    OBVIOUS
  <2>1. I!TypeOK
    BY InquiryTypes DEF SessionInv
  <2>2. H!TypeOK
    BY DEF SessionInv, HandlerInv, HandlerPart, HP!StageInv, HP!CountInv, HP!Counters,
           HP!Labels, HP!Data, H!TypeOK
  <2>3. endpoint \in {Nothing} \cup {d.address : d \in Devices}
        /\ constructed \in BOOLEAN /\ thrown \in BOOLEAN
    BY DEF SessionInv, SearchInv, HandlerInv, Begun
  <2>4. /\ asked \in Seq([by : Callers, test : Tests]) /\ Len(asked) = accepted
        /\ replies \in Seq(Seq(Byte)) /\ Len(replies) = answered
        /\ \A t \in Callers : response[t].to \in 0 .. accepted
    BY Zenon DEF SessionInv, TalkInv
  <2>5. /\ reading \in [Callers -> {"no", "begin", "assign", "copy"}]
        /\ overlapped \in [Callers -> BOOLEAN] /\ resp \in 0 .. Torn
    BY Zenon DEF SessionInv, TextInv
  <2> QED
    BY <2>1, <2>2, <2>3, <2>4, <2>5, Zenon DEF TypeOK
<1> QED
  BY <1>1, InvHolds, PTL

(* The address the search returns is that of the first robot the last      *)
(* inquiry reported, and the handler is connected to a robot               *)
(* (bluetoothInquire, getSpheroBtAddr, setEndpoint).                       *)
THEOREM AddressCorrect == FairSpec => []AddressOfSphero
<1>1. SessionInv => AddressOfSphero
  <2> SUFFICES ASSUME SessionInv PROVE AddressOfSphero
    OBVIOUS
  <2>1. SearchInv /\ Begun
    BY DEF SessionInv, HandlerInv
  <2>2. ASSUME ~constructed, I!Over
        PROVE  IF step = "found"
               THEN \E i \in I!Robots : (\A j \in I!Robots : i <= j) /\ vOut[found] = reported[i]
               ELSE I!Robots = {} /\ found = 0
    <3>1. FirstsAgree
      BY <2>1, <2>2 DEF SearchInv
    <3>2. CASE step = "found"
      <4>1. found \in I!Named /\ \A j \in I!Named : found <= j
        BY <2>1, <3>2 DEF SearchInv
      <4>2. PICK k \in I!Named, i \in I!Robots :
              /\ \A j \in I!Named : k <= j
              /\ \A j \in I!Robots : i <= j
              /\ vOut[k] = reported[i]
        BY <3>1, <4>1 DEF FirstsAgree
      <4>3. k = found
        <5>1. I!Named \subseteq Nat
          BY <2>1, SearchShapes DEF I!Named
        <5> QED
          BY <4>1, <4>2, <5>1
      <4> QED
        BY <3>2, <4>2, <4>3
    <3>3. CASE step = "given up"
      BY <2>1, <3>1, <3>3 DEF SearchInv, FirstsAgree
    <3> QED
      BY <2>2, <3>2, <3>3 DEF I!Over
  <2>3. ASSUME connected PROVE [name |-> Sphero, address |-> endpoint] \in Devices
    <3>1. constructed /\ found # 0 /\ endpoint = vOut[found].address
      BY <2>1, <2>3 DEF Begun, SearchInv
    <3>2. step = "found"
      BY <2>1, <3>1 DEF SearchInv
    <3>3. found \in I!Named
      BY <2>1, <3>2 DEF SearchInv
    <3>4. found \in DOMAIN vOut /\ vOut[found].name = Sphero
      BY <3>3 DEF I!Named
    <3>5. vOut[found] \in Devices
      <4>1. vOut \in Seq(Devices)
        BY <2>1 DEF SearchInv, Ranges
      <4> QED
        BY <3>4, <4>1
    <3>6. vOut[found] = [name |-> vOut[found].name, address |-> vOut[found].address]
      BY <3>5, SessionAssumption, TestsAskCommands
    <3> QED
      BY <3>1, <3>4, <3>5, <3>6
  <2> QED
    BY <2>2, <2>3 DEF AddressOfSphero, I!AddressOfSphero
<1> QED
  BY <1>1, InvHolds, PTL

(* NotConnectedException is thrown only when no robot was found: a handler *)
(* that has an address does not get out of its constructor unconnected.    *)
THEOREM ThrowsCorrect == FairSpec => []ThrowsWithoutAddress
<1>1. SessionInv => ThrowsWithoutAddress
  BY DEF SessionInv, HandlerInv, Begun, ThrowsWithoutAddress
<1> QED
  BY <1>1, InvHolds, PTL

(* A call of messageResponseToString() that no other overlaps returns the  *)
(* text of its own code.                                                   *)
THEOREM TextCorrect == FairSpec => []TextOwn
<1>1. SessionInv => TextOwn
  BY DEF SessionInv, TextInv, TextOwn, Returned, MayTear, Code, HasText
<1> QED
  BY <1>1, InvHolds, PTL

-----------------------------------------------------------------------------
(* The responses.                                                          *)

(* The link of a session neither joins answers nor carries anything else,  *)
(* and every answer is one the robot may give to its command.              *)
AnswersInv ==
  /\ Len(chunks) = answered
  /\ \A i \in 1 .. answered : chunks[i] = <<i>>
  /\ Len(records) + Len(taken) <= answered
  /\ \A i \in 1 .. answered : \E r \in Replies(Packet(i)) : replies[i] = ResponsePacket(r)

Sole(t) == ahead = 1 /\ \A i \in 1 .. accepted : asked[i].by = t

(* A thread that is the only one to send alternates: at most one command   *)
(* waits for a response, and what waits to be read is the answer to it.    *)
InTurn(t) ==
  Sole(t) =>
    /\ accepted <= Len(taken) + 1
    /\ pc[t] = "send" => accepted <= Len(taken)
    /\ \A k \in 1 .. Len(records) : records[k] = Len(taken) + 1

(* The response it has is an answer to the command it takes it for.        *)
IsAnswered(t) ==
  Sole(t) /\ response[t].to # 0 =>
    \E r \in Replies(Packet(response[t].to)) :
      response[t].got = ParseFromInternalData(ResponsePacket(r))

ResponseInv == AnswersInv /\ \A t \in Callers : InTurn(t) /\ IsAnswered(t)

dialogue == <<accepted, asked, numbers, answered, chunks, replies, records, taken, response>>

(* No step but these is about a command, an answer or a response.          *)
LEMMA DialogueSteps ==
  ASSUME SessionInv, [Next]_vars
  PROVE  /\ ahead' = ahead
         /\ \/ \E t \in Callers : Generate(t) \/ Send(t) \/ TakeResponse(t)
            \/ UNCHANGED dialogue /\ \A t \in Callers : pc'[t] = "send" => pc[t] = "send"
            \/ (Connection /\ H!Deliver) \/ Answer
<1> USE DEF Unchanged, inquiry, handler, talk, text, dialogue,
            H!handler, H!calls, H!outbox, H!inbox, H!robot
<1>0. pc \in [Callers -> {"idle", "send", "load", "store", "read"}]
  BY DEF SessionInv, HandlerInv, HandlerPart, HP!CountInv, HP!Counters, HP!Labels
<1>1. CASE UNCHANGED vars
  BY <1>1 DEF vars
<1>2. CASE Search \/ Throw \/ Construct
  BY <1>2 DEF Search, Throw, Construct
<1>3. CASE Connecting
  BY <1>3 DEF Connecting, H!Constructor, H!ConnectFails, H!ThreadFails, H!Connect, H!Retry,
              H!AttemptFails
<1>4. CASE Connection /\ H!Transmit
  BY <1>4 DEF Connection, H!Transmit, H!Out!Transmit
<1>5. CASE Connection /\ H!Deliver
  BY <1>5 DEF H!Deliver
<1>6. ASSUME NEW t \in Callers, Count(t) \/ ReadResponse(t)
      PROVE  /\ ahead' = ahead /\ UNCHANGED dialogue
             /\ \A u \in Callers : pc'[u] = "send" => pc[u] = "send"
  <2>1. /\ ahead' = ahead /\ UNCHANGED dialogue
        /\ \E label \in {"idle", "store", "read"} : pc' = [pc EXCEPT ![t] = label]
    BY <1>6 DEF Count, H!Load, H!Store, ReadResponse, H!ReadResponse, H!Goto
  <2> QED
    BY <1>0, <2>1
<1>7. ASSUME NEW t \in Callers, TextBegin(t) \/ TextAssign(t) \/ TextCopy(t)
      PROVE  ahead' = ahead /\ UNCHANGED <<dialogue, pc>>
  BY <1>7 DEF TextBegin, TextAssign, TextCopy
<1>8. ASSUME NEW t \in Callers, Generate(t) \/ Send(t) \/ TakeResponse(t) PROVE ahead' = ahead
  BY <1>8 DEF Generate, H!Generate, Send, H!Send, TakeResponse, H!TakeResponse
<1>9. CASE Answer
  BY <1>9 DEF Answer, H!Answer
<1> QED
  BY <1>1, <1>2, <1>3, <1>4, <1>5, <1>6, <1>7, <1>8, <1>9 DEF Next, Call, Connection

LEMMA DialogueShapes ==
  ASSUME SessionInv
  PROVE  /\ accepted \in Nat /\ answered \in Nat /\ answered <= accepted
         /\ Len(records) \in Nat /\ Len(taken) \in Nat
         /\ records \in Seq(Nat) /\ taken \in Seq(Nat) /\ chunks \in Seq(Seq(Nat))
         /\ numbers \in Seq(Byte) /\ Len(numbers) = accepted
         /\ asked \in Seq([by : Callers, test : Tests]) /\ Len(asked) = accepted
         /\ replies \in Seq(Seq(Byte)) /\ Len(replies) = answered
         /\ DOMAIN response = Callers
         /\ \A t \in Callers : response[t].to \in 0 .. accepted
         /\ pc \in [Callers -> {"idle", "send", "load", "store", "read"}]
<1>1. /\ accepted \in Nat /\ answered \in Nat /\ wire \in Seq(Nat)
      /\ answered <= Len(wire) /\ Len(wire) <= accepted
      /\ records \in Seq(Nat) /\ taken \in Seq(Nat) /\ chunks \in Seq(Seq(Nat))
      /\ numbers \in Seq(Byte) /\ Len(numbers) = accepted
      /\ pc \in [Callers -> {"idle", "send", "load", "store", "read"}]
  BY DEF SessionInv, HandlerInv, HandlerPart, HP!CountInv, HP!Counters, HP!Labels, HP!Data,
         InOrder, Byte
<1>2. Len(wire) \in Nat /\ Len(records) \in Nat /\ Len(taken) \in Nat
  BY <1>1
<1>3. answered <= accepted
  BY <1>1, <1>2
<1> QED
  BY <1>1, <1>2, <1>3, Zenon DEF SessionInv, TalkInv

(* A call of send() is added behind the others.                            *)
LEMMA SendAppends ==
  ASSUME SessionInv, NEW t \in Callers, Send(t)
  PROVE  /\ accepted' = accepted + 1
         /\ UNCHANGED <<answered, chunks, replies, records, taken, response>>
         /\ pc' = [pc EXCEPT ![t] = "load"] /\ pc[t] = "send"
         /\ \A i \in 1 .. accepted : asked'[i] = asked[i] /\ numbers'[i] = numbers[i]
         /\ asked'[accepted + 1].by = t
<1>1. /\ accepted' = accepted + 1 /\ numbers' = Append(numbers, register[t])
      /\ UNCHANGED <<answered, chunks, replies, records, taken, response>>
      /\ pc' = [pc EXCEPT ![t] = "load"] /\ pc[t] = "send"
  BY DEF Send, H!Send, H!Out!Accept, H!Goto, H!inbox, H!robot
<1>2. PICK test \in Tests : asked' = Append(asked, [by |-> t, test |-> test])
  BY DEF Send
<1> DEFINE Calling == [by : Callers, test : Tests]
           call == [by |-> t, test |-> test]
<1>3. call \in Calling /\ call.by = t
  OBVIOUS
<1>4. asked \in Seq(Calling) /\ Len(asked) = accepted /\ asked' = Append(asked, call)
  BY <1>2, DialogueShapes
<1> HIDE DEF Calling, call
<1>5. /\ \A i \in 1 .. accepted : asked'[i] = asked[i]
      /\ asked'[accepted + 1] = call
  BY <1>3, <1>4
<1>6. \A i \in 1 .. accepted : numbers'[i] = numbers[i]
  BY <1>1, DialogueShapes
<1> QED
  BY <1>1, <1>3, <1>5, <1>6

LEMMA PacketStays ==
  ASSUME NEW i, asked'[i] = asked[i], numbers'[i] = numbers[i]
  PROVE  Packet(i)' = Packet(i)
BY DEF Packet

LEMMA SoleBefore ==
  ASSUME SessionInv, ahead' = ahead, NEW t \in Callers, Sole(t)',
         \/ UNCHANGED <<accepted, asked>>
         \/ accepted' = accepted + 1 /\ \A i \in 1 .. accepted : asked'[i] = asked[i]
  PROVE  Sole(t)
<1>1. accepted \in Nat
  BY DialogueShapes
<1> QED
  BY <1>1 DEF Sole

(* The latest command of the only thread that sends.                       *)
LEMMA SoleLatest ==
  ASSUME SessionInv, NEW t \in Callers, Sole(t), accepted # 0
  PROVE  LatestOf(t) = accepted
<1> DEFINE S == {0} \cup {i \in DOMAIN asked : asked[i].by = t}
           n == accepted
<1>1. n \in Nat /\ DOMAIN asked = 1 .. n
  BY DialogueShapes
<1>2. S \subseteq 0 .. n /\ n \in S
  BY <1>1 DEF Sole
<1>3. LatestOf(t) = Max(S)
  BY DEF LatestOf
<1> HIDE DEF S, n
<1>4. \A i \in S : n >= i
  BY <1>1, <1>2
<1>5. Max(S) \in S /\ \A i \in S : Max(S) >= i
  BY <1>2, <1>4 DEF Max
<1> DEFINE m == Max(S)
<1>6. m \in 0 .. n /\ m >= n
  BY <1>2, <1>5
<1> HIDE DEF m
<1>7. m = n
  BY <1>1, <1>6
<1> QED
  BY <1>3, <1>7 DEF n, m

LEMMA AnswersStep ==
  ASSUME SessionInv, ResponseInv, [Next]_vars
  PROVE  AnswersInv'
<1>1. /\ Len(chunks) = answered
      /\ \A i \in 1 .. answered : chunks[i] = <<i>>
      /\ Len(records) + Len(taken) <= answered
      /\ \A i \in 1 .. answered : \E r \in Replies(Packet(i)) : replies[i] = ResponsePacket(r)
  BY DEF ResponseInv, AnswersInv
<1>2. /\ accepted \in Nat /\ answered \in Nat /\ answered <= accepted
      /\ Len(records) \in Nat /\ Len(taken) \in Nat
      /\ records \in Seq(Nat) /\ taken \in Seq(Nat) /\ chunks \in Seq(Seq(Nat))
      /\ replies \in Seq(Seq(Byte)) /\ Len(replies) = answered
  BY DialogueShapes
<1>3. CASE UNCHANGED dialogue
  BY <1>1, <1>3 DEF AnswersInv, dialogue, Packet
<1>4. ASSUME NEW t \in Callers, Generate(t) PROVE AnswersInv'
  <2>1. UNCHANGED dialogue
    BY <1>4 DEF Generate, H!Generate, H!outbox, H!inbox, H!robot, talk, text, dialogue
  <2> QED
    BY <1>3, <2>1
<1>5. ASSUME NEW t \in Callers, Send(t) PROVE AnswersInv'
  <2>1. /\ UNCHANGED <<answered, chunks, replies, records, taken>>
        /\ \A i \in 1 .. accepted : asked'[i] = asked[i] /\ numbers'[i] = numbers[i]
    BY <1>5, SendAppends
  <2>2. \A i \in 1 .. answered : Packet(i)' = Packet(i)
    BY <1>2, <2>1, PacketStays
  <2> QED
    BY <1>1, <2>1, <2>2 DEF AnswersInv
<1>6. ASSUME NEW t \in Callers, TakeResponse(t) PROVE AnswersInv'
  <2>1. /\ records # <<>> /\ taken' = Append(taken, records[Len(records)])
        /\ records' = SubSeq(records, 1, Len(records) - 1)
        /\ UNCHANGED <<accepted, asked, numbers, answered, chunks, replies>>
    BY <1>6 DEF TakeResponse, H!TakeResponse, H!In!Take, H!outbox, H!robot, talk
  <2>2. Len(records) # 0
    BY <1>2, <2>1
  <2>3. records[Len(records)] \in Nat
    BY <1>2, <2>2
  <2>4. Len(taken') = Len(taken) + 1
    BY <1>2, <2>1, <2>3
  <2>5. Len(records') = Len(records) - 1
    <3> DEFINE n == Len(records)
    <3>1. records' = SubSeq(records, 1, n - 1)
      BY <2>1
    <3>2. n \in Nat /\ n # 0 /\ n = Len(records) /\ records \in Seq(Nat)
      BY <1>2, <2>2
    <3> HIDE DEF n
    <3>3. Len(SubSeq(records, 1, n - 1)) = n - 1
      BY <3>2
    <3> QED
      BY <3>1, <3>2, <3>3
  <2>6. \A i \in 1 .. answered : Packet(i)' = Packet(i)
    BY <2>1 DEF Packet
  <2>7. Len(records') + Len(taken') <= answered' /\ Len(chunks') = answered'
    <3>1. answered' = answered /\ Len(chunks') = Len(chunks)
      BY <2>1
    <3>2. Len(records) + Len(taken) <= answered /\ Len(chunks) = answered
      BY <1>1
    <3> QED
      BY <1>2, <2>4, <2>5, <3>1, <3>2
  <2>8. \A i \in 1 .. answered' : chunks'[i] = <<i>>
    BY <1>1, <2>1
  <2>9. \A i \in 1 .. answered' : \E r \in Replies(Packet(i)') : replies'[i] = ResponsePacket(r)
    BY <1>1, <2>1, <2>6
  <2> QED
    BY <2>7, <2>8, <2>9 DEF AnswersInv
<1>7. CASE Connection /\ H!Deliver
  <2>1. /\ Len(records) + Len(taken) < Len(chunks)
        /\ records' = Append(records, Len(records) + Len(taken) + 1)
        /\ UNCHANGED <<accepted, asked, numbers, answered, chunks, replies, taken>>
    BY <1>7 DEF Connection, H!Deliver, H!In!Deliver, H!In!Delivered, H!calls, H!outbox, H!robot,
                talk
  <2>2. Len(records') = Len(records) + 1
    BY <1>2, <2>1
  <2>3. \A i \in 1 .. answered : Packet(i)' = Packet(i)
    BY <2>1 DEF Packet
  <2>4. Len(records') + Len(taken') <= answered' /\ Len(chunks') = answered'
    <3>1. answered' = answered /\ chunks' = chunks /\ taken' = taken /\ Len(chunks) = answered
      BY <1>1, <2>1
    <3>2. Len(records) + Len(taken) < answered
      BY <2>1, <3>1
    <3> QED
      BY <1>2, <2>2, <3>1, <3>2
  <2>5. \A i \in 1 .. answered' : chunks'[i] = <<i>>
    BY <1>1, <2>1
  <2>6. \A i \in 1 .. answered' : \E r \in Replies(Packet(i)') : replies'[i] = ResponsePacket(r)
    BY <1>1, <2>1, <2>3
  <2> QED
    BY <2>4, <2>5, <2>6 DEF AnswersInv
<1>8. CASE Answer
  <2>1. /\ answered' = answered + 1 /\ chunks' = Append(chunks, <<answered + 1>>)
        /\ UNCHANGED <<accepted, asked, numbers, records, taken>>
    BY <1>8 DEF Answer, H!Answer, H!handler, H!calls, H!outbox, H!inbox
  <2>2. PICK reply \in Replies(Packet(answered')) : replies' = Append(replies, ResponsePacket(reply))
    BY <1>8 DEF Answer
  <2> DEFINE e == <<answered + 1>>
             s == ResponsePacket(reply)
             p == Packet(answered')
  <2>3. /\ Len(chunks') = answered + 1 /\ chunks'[answered + 1] = e
        /\ \A i \in 1 .. answered : chunks'[i] = chunks[i]
    <3> DEFINE M == Seq(Nat)
    <3>1. e \in M
      BY <1>2
    <3>2. chunks \in Seq(M) /\ chunks' = Append(chunks, e)
      BY <1>2, <2>1
    <3>3. Len(chunks) = answered
      BY <1>1
    <3> HIDE DEF M, e
    <3> QED
      BY <3>1, <3>2, <3>3
  <2> HIDE DEF s
  <2>4. replies'[answered + 1] = s /\ \A i \in 1 .. answered : replies'[i] = replies[i]
    <3>1. replies' = Append(replies, s)
      BY <2>2 DEF s
    <3> QED
      BY <1>2, <3>1
  <2>5. \A i \in 1 .. answered + 1 : chunks'[i] = <<i>>
    <3> HIDE DEF e
    <3>1. \A i \in 1 .. answered : chunks'[i] = <<i>>
      BY <1>1, <2>3
    <3>2. chunks'[answered + 1] = <<answered + 1>>
      BY <2>3 DEF e
    <3>3. \A i \in 1 .. answered + 1 : i \in 1 .. answered \/ i = answered + 1
      BY <1>2
    <3> QED
      BY <3>1, <3>2, <3>3
  <2>6. \A i : Packet(i)' = Packet(i)
    BY <2>1 DEF Packet
  <2>7. ASSUME NEW i \in 1 .. answered + 1
        PROVE  \E r \in Replies(Packet(i)') : replies'[i] = ResponsePacket(r)
    <3>1. CASE i = answered + 1
      <4>1. reply \in Replies(Packet(i)')
        BY <2>1, <2>2, <2>6, <3>1
      <4> QED
        BY <2>4, <3>1, <4>1 DEF s
    <3>2. CASE i # answered + 1
      <4>1. i \in 1 .. answered
        BY <1>2, <3>2
      <4> QED
        BY <1>1, <2>4, <2>6, <4>1
    <3> QED
      BY <3>1, <3>2
  <2>8. Len(records') + Len(taken') <= answered'
    BY <1>1, <1>2, <2>1
  <2> QED
    BY <2>1, <2>3, <2>5, <2>7, <2>8 DEF AnswersInv
<1> QED
  BY <1>3, <1>4, <1>5, <1>6, <1>7, <1>8, DialogueSteps

LEMMA InTurnStep ==
  ASSUME SessionInv, ResponseInv, [Next]_vars, NEW t \in Callers
  PROVE  InTurn(t)'
<1> SUFFICES ASSUME Sole(t)'
    PROVE  (/\ accepted <= Len(taken) + 1
            /\ pc[t] = "send" => accepted <= Len(taken)
            /\ \A k \in 1 .. Len(records) : records[k] = Len(taken) + 1)'
  BY DEF InTurn
<1>1. /\ accepted \in Nat /\ answered \in Nat /\ answered <= accepted
      /\ Len(records) \in Nat /\ Len(taken) \in Nat
      /\ records \in Seq(Nat) /\ taken \in Seq(Nat)
      /\ pc \in [Callers -> {"idle", "send", "load", "store", "read"}]
  BY DialogueShapes
<1>2. Len(chunks) = answered /\ Len(records) + Len(taken) <= answered
  BY DEF ResponseInv, AnswersInv
<1>3. ahead' = ahead
  BY DialogueSteps
<1>4. ASSUME Sole(t)
      PROVE  /\ accepted <= Len(taken) + 1
             /\ pc[t] = "send" => accepted <= Len(taken)
             /\ \A k \in 1 .. Len(records) : records[k] = Len(taken) + 1
  BY <1>4 DEF ResponseInv, InTurn
<1>5. CASE UNCHANGED dialogue /\ \A u \in Callers : pc'[u] = "send" => pc[u] = "send"
  <2>1. Sole(t)
    BY <1>3, <1>5, SoleBefore DEF dialogue
  <2> QED
    BY <1>4, <1>5, <2>1 DEF dialogue
<1>6. ASSUME NEW u \in Callers, Generate(u)
      PROVE  (/\ accepted <= Len(taken) + 1
              /\ pc[t] = "send" => accepted <= Len(taken)
              /\ \A k \in 1 .. Len(records) : records[k] = Len(taken) + 1)'
  <2>1. UNCHANGED <<accepted, asked, records, taken>> /\ accepted - Len(taken) < ahead
    BY <1>6 DEF Generate, H!Generate, H!Owed, H!outbox, H!inbox, talk
  <2>2. Sole(t)
    BY <1>3, <2>1, SoleBefore
  <2>3. accepted <= Len(taken)
    BY <1>1, <2>1, <2>2 DEF Sole
  <2> QED
    BY <1>4, <2>1, <2>2, <2>3
<1>7. ASSUME NEW u \in Callers, Send(u)
      PROVE  (/\ accepted <= Len(taken) + 1
              /\ pc[t] = "send" => accepted <= Len(taken)
              /\ \A k \in 1 .. Len(records) : records[k] = Len(taken) + 1)'
  <2>1. /\ accepted' = accepted + 1
        /\ UNCHANGED <<records, taken>>
        /\ pc' = [pc EXCEPT ![u] = "load"] /\ pc[u] = "send"
        /\ \A i \in 1 .. accepted : asked'[i] = asked[i]
        /\ asked'[accepted + 1].by = u
    BY <1>7, SendAppends
  <2>2. Sole(t) /\ u = t
    <3>1. Sole(t)
      BY <1>3, <2>1, SoleBefore
    <3>2. asked'[accepted + 1].by = t
      BY <1>1, <2>1 DEF Sole
    <3> QED
      BY <2>1, <3>1, <3>2
  <2>3. pc'[t] = "load"
    BY <1>1, <2>1, <2>2
  <2>4. accepted' <= Len(taken') + 1
    BY <1>1, <1>4, <2>1, <2>2
  <2> QED
    BY <1>4, <2>1, <2>2, <2>3, <2>4
<1>8. ASSUME NEW u \in Callers, TakeResponse(u)
      PROVE  (/\ accepted <= Len(taken) + 1
              /\ pc[t] = "send" => accepted <= Len(taken)
              /\ \A k \in 1 .. Len(records) : records[k] = Len(taken) + 1)'
  <2> DEFINE n == Len(records)
  <2>1. /\ records # <<>> /\ taken' = Append(taken, records[n])
        /\ UNCHANGED <<accepted, asked>>
        /\ pc' = [pc EXCEPT ![u] = "idle"]
    BY <1>8 DEF TakeResponse, H!TakeResponse, H!In!Take, H!Goto, H!outbox, talk
  <2>2. records' = SubSeq(records, 1, n - 1)
    BY <1>8 DEF TakeResponse, H!TakeResponse, H!In!Take
  <2>3. Sole(t)
    BY <1>3, <2>1, SoleBefore
  <2>4. n = 1
    <3>1. n # 0
      BY <1>1, <2>1
    <3>2. n + Len(taken) <= accepted /\ accepted <= Len(taken) + 1
      BY <1>1, <1>2, <1>4, <2>3
    <3>3. n \in Nat /\ Len(taken) \in Nat /\ accepted \in Nat
      BY <1>1
    <3> HIDE DEF n
    <3> QED
      BY <3>1, <3>2, <3>3
  <2>5. Len(taken') = Len(taken) + 1
    <3>1. records[n] \in Nat
      <4>1. n \in 1 .. n /\ n = Len(records)
        BY <2>4
      <4> HIDE DEF n
      <4> QED
        BY <1>1, <4>1
    <3> HIDE DEF n
    <3> QED
      BY <1>1, <2>1, <3>1
  <2>6. Len(records') = 0
    <3> HIDE DEF n
    <3> QED
      BY <1>1, <2>2, <2>4
  <2>7. pc'[t] = "send" => pc[t] = "send"
    BY <1>1, <2>1
  <2> QED
    BY <1>1, <1>4, <2>1, <2>3, <2>5, <2>6, <2>7
<1>9. CASE Connection /\ H!Deliver
  <2> DEFINE n == Len(records) + Len(taken) + 1
  <2>1. /\ Len(records) + Len(taken) < Len(chunks) /\ records' = Append(records, n)
        /\ UNCHANGED <<accepted, asked, taken, pc>>
    BY <1>9 DEF Connection, H!Deliver, H!In!Deliver, H!In!Delivered, H!calls, H!outbox, talk
  <2>2. Sole(t)
    BY <1>3, <2>1, SoleBefore
  <2>3. Len(records) = 0 /\ n = Len(taken) + 1
    <3>1. Len(records) + Len(taken) < accepted /\ accepted <= Len(taken) + 1
      BY <1>1, <1>2, <1>4, <2>1, <2>2
    <3> QED
      BY <1>1, <3>1
  <2>4. Len(records') = 1 /\ records'[1] = n
    <3>1. n \in Nat
      BY <1>1
    <3> HIDE DEF n
    <3> QED
      BY <1>1, <2>1, <2>3, <3>1
  <2> QED
    BY <1>4, <2>1, <2>2, <2>3, <2>4
<1>10. CASE Answer
  <2>1. UNCHANGED <<accepted, asked, records, taken, pc>>
    BY <1>10 DEF Answer, H!Answer, H!handler, H!calls, H!outbox, H!inbox
  <2>2. Sole(t)
    BY <1>3, <2>1, SoleBefore
  <2> QED
    BY <1>4, <2>1, <2>2
<1> QED
  BY <1>5, <1>6, <1>7, <1>8, <1>9, <1>10, DialogueSteps

(* What the only thread takes is the answer to its latest command.         *)
LEMMA SoleTakes ==
  ASSUME SessionInv, ResponseInv, NEW t \in Callers, Sole(t), TakeResponse(t)
  PROVE  /\ response'[t].to = accepted /\ accepted \in 1 .. answered
         /\ response'[t].got = ParseFromInternalData(replies[accepted])
<1> DEFINE n == Len(records)
           x == records[n]
<1>1. /\ accepted \in Nat /\ answered \in Nat /\ answered <= accepted
      /\ n \in Nat /\ Len(taken) \in Nat
      /\ records \in Seq(Nat) /\ taken \in Seq(Nat)
      /\ DOMAIN response = Callers
  BY DialogueShapes
<1>2. /\ n + Len(taken) <= answered
      /\ \A i \in 1 .. answered : chunks[i] = <<i>>
  BY DEF ResponseInv, AnswersInv
<1>3. /\ accepted <= Len(taken) + 1
      /\ \A k \in 1 .. n : records[k] = Len(taken) + 1
  BY DEF ResponseInv, InTurn
<1>4. records # <<>> /\ taken' = Append(taken, x)
  BY DEF TakeResponse, H!TakeResponse, H!In!Take
<1>5. n \in 1 .. n
  BY <1>1, <1>4
<1>6. x = Len(taken) + 1 /\ x = accepted /\ x = answered /\ x \in Nat
  <2>1. x = Len(taken) + 1
    BY <1>3, <1>5
  <2> HIDE DEF n, x
  <2> QED
    BY <1>1, <1>2, <1>3, <1>5, <2>1
<1> HIDE DEF x
<1>7. Last(taken') = x
  <2>1. Len(taken') = Len(taken) + 1 /\ taken'[Len(taken) + 1] = x
    BY <1>1, <1>4, <1>6
  <2> QED
    BY <2>1 DEF Last
<1>8. Head(chunks[x]) = x
  <2> DEFINE e == chunks[x]
  <2>1. e = <<x>>
    BY <1>1, <1>2, <1>6
  <2>2. Head(<<x>>) = x
    OBVIOUS
  <2> QED
    BY <2>1, <2>2
<1>9. LatestOf(t) = accepted
  BY <1>1, <1>6, SoleLatest
<1> DEFINE got == ParseFromInternalData(replies[Head(chunks[Last(taken')])])
<1>10. response' = [response EXCEPT ![t] = [to |-> LatestOf(t), got |-> got]]
  BY DEF TakeResponse
<1>11. got = ParseFromInternalData(replies[accepted])
  BY <1>6, <1>7, <1>8
<1> DEFINE answer == [to |-> LatestOf(t), got |-> got]
<1>12. response'[t] = answer
  <2>1. response' = [response EXCEPT ![t] = answer]
    BY <1>10
  <2> HIDE DEF answer
  <2> QED
    BY <1>1, <2>1
<1> HIDE DEF got
<1>13. response'[t].to = LatestOf(t) /\ response'[t].got = got
  BY <1>12
<1>14. accepted \in 1 .. answered
  BY <1>1, <1>2, <1>5, <1>6
<1> QED
  BY <1>9, <1>11, <1>13, <1>14

LEMMA IsAnsweredStep ==
  ASSUME SessionInv, ResponseInv, [Next]_vars, NEW t \in Callers
  PROVE  IsAnswered(t)'
<1> SUFFICES ASSUME Sole(t)', response'[t].to # 0
    PROVE  (\E r \in Replies(Packet(response[t].to)) :
              response[t].got = ParseFromInternalData(ResponsePacket(r)))'
  BY DEF IsAnswered
<1> DEFINE Fits == \E r \in Replies(Packet(response[t].to)) :
                     response[t].got = ParseFromInternalData(ResponsePacket(r))
<1>1. ahead' = ahead
  BY DialogueSteps
<1>2. response[t].to \in 0 .. accepted
  BY DialogueShapes
<1>3. ASSUME UNCHANGED <<accepted, asked, numbers>>, response'[t] = response[t]
      PROVE  Fits'
  <2>1. Sole(t)
    BY <1>1, <1>3, SoleBefore
  <2>2. Fits
    BY <1>3, <2>1 DEF ResponseInv, IsAnswered
  <2> QED
    BY <1>3, <2>2 DEF Packet
<1>4. CASE UNCHANGED dialogue
  BY <1>3, <1>4 DEF dialogue
<1>5. ASSUME NEW u \in Callers, Generate(u) PROVE Fits'
  <2>1. UNCHANGED <<accepted, asked, numbers, response>>
    BY <1>5 DEF Generate, H!Generate, H!outbox, talk
  <2> QED
    BY <1>3, <2>1
<1>6. ASSUME NEW u \in Callers, Send(u) PROVE Fits'
  <2>1. /\ accepted' = accepted + 1 /\ response' = response
        /\ \A i \in 1 .. accepted : asked'[i] = asked[i] /\ numbers'[i] = numbers[i]
    BY <1>6, SendAppends
  <2>2. Sole(t)
    BY <1>1, <2>1, SoleBefore
  <2>3. Fits
    BY <2>1, <2>2 DEF ResponseInv, IsAnswered
  <2> DEFINE i == response[t].to
  <2>4. i \in 1 .. accepted /\ accepted \in Nat
    BY <1>2, <2>1, DialogueShapes
  <2>5. Packet(i)' = Packet(i)
    BY <2>1, <2>4 DEF Packet
  <2> QED
    BY <2>1, <2>3, <2>5
<1>7. ASSUME NEW u \in Callers, TakeResponse(u) PROVE Fits'
  <2>1. UNCHANGED <<accepted, asked, numbers>>
    BY <1>7 DEF TakeResponse, H!TakeResponse, H!outbox, talk
  <2>2. CASE u # t
    <3>1. response'[t] = response[t]
      <4> DEFINE taking == [to |-> LatestOf(u),
                            got |-> ParseFromInternalData(replies[Head(chunks[Last(taken')])])]
      <4>1. response' = [response EXCEPT ![u] = taking]
        BY <1>7 DEF TakeResponse
      <4> HIDE DEF taking
      <4> QED
        BY <2>2, <4>1, DialogueShapes
    <3> QED
      BY <1>3, <2>1, <3>1
  <2>3. CASE u = t
    <3>1. Sole(t)
      BY <1>1, <2>1, SoleBefore
    <3>2. /\ response'[t].to = accepted /\ accepted \in 1 .. answered
          /\ response'[t].got = ParseFromInternalData(replies[accepted])
      BY <1>7, <2>3, <3>1, SoleTakes
    <3>3. PICK r \in Replies(Packet(accepted)) : replies[accepted] = ResponsePacket(r)
      BY <3>2 DEF ResponseInv, AnswersInv
    <3>4. Packet(response[t].to)' = Packet(accepted)
      BY <2>1, <3>2 DEF Packet
    <3> QED
      BY <3>2, <3>3, <3>4
  <2> QED
    BY <2>2, <2>3
<1>8. CASE Connection /\ H!Deliver
  <2>1. UNCHANGED <<accepted, asked, numbers, response>>
    BY <1>8 DEF Connection, H!Deliver, H!calls, H!outbox, talk
  <2> QED
    BY <1>3, <2>1
<1>9. CASE Answer
  <2>1. UNCHANGED <<accepted, asked, numbers, response>>
    BY <1>9 DEF Answer, H!Answer, H!calls, H!outbox
  <2> QED
    BY <1>3, <2>1
<1> QED
  BY <1>4, <1>5, <1>6, <1>7, <1>8, <1>9, DialogueSteps

LEMMA ResponseInit == Init => ResponseInv
<1> SUFFICES ASSUME Init PROVE ResponseInv
  OBVIOUS
<1>1. /\ accepted = 0 /\ answered = 0 /\ chunks = <<>> /\ records = <<>> /\ taken = <<>>
      /\ \A t \in Callers : pc[t] = "idle" /\ response[t].to = 0
  BY DEF Init, H!Init, H!Out!Init, H!In!Init, NoReply
<1>2. AnswersInv
  BY <1>1 DEF AnswersInv
<1>3. \A t \in Callers : InTurn(t) /\ IsAnswered(t)
  BY <1>1 DEF InTurn, IsAnswered
<1> QED
  BY <1>2, <1>3 DEF ResponseInv

LEMMA ResponseHolds == FairSpec => [](SessionInv /\ ResponseInv)
<1>1. SessionInv /\ ResponseInv /\ [Next]_vars => ResponseInv'
  BY AnswersStep, InTurnStep, IsAnsweredStep DEF ResponseInv
<1> QED
  BY <1>1, InvInit, InvNext, ResponseInit, PTL DEF FairSpec

(* What readHandler() and the parser leave of an answer: its code, its     *)
(* number, its data, and the checksum behind them.                         *)
LEMMA ParsedAnswer ==
  ASSUME NEW r \in Answers, Len(r.data) <= MaxData
  PROVE  LET got == ParseFromInternalData(ResponsePacket(r))
         IN  /\ got.mrsp = r.mrsp /\ got.seq = r.seq
             /\ got.data \in Seq(Byte) /\ Len(got.data) = Len(r.data) + 1
             /\ \A i \in 1 .. Len(r.data) : got.data[i] = r.data[i]
<1> DEFINE p == ResponsePacket(r)
           m == Len(r.data)
           got == ParseFromInternalData(p)
<1>1. /\ p \in Seq(Byte) /\ Len(p) = 6 + m
      /\ p[3] = r.mrsp /\ p[4] = r.seq /\ p[5] = m + 1
      /\ \A i \in 1 .. m : p[5 + i] = r.data[i]
  BY ResponseBytes
<1>2. m \in Nat
  BY DEF Answers
<1> HIDE DEF p, m
<1>3. got = [sop2 |-> p[2], mrsp |-> p[3], seq |-> p[4], data |-> [i \in 1 .. p[5] |-> p[i + 5]]]
  <2>1. \A i \in 1 .. p[5] : (i + 4) + 1 = i + 5
    BY <1>1, <1>2
  <2> QED
    BY <2>1 DEF ParseFromInternalData, ByteAt
<1> HIDE DEF got
<1> DEFINE d == got.data
<1>4. d = [i \in 1 .. m + 1 |-> p[i + 5]] /\ got.mrsp = p[3] /\ got.seq = p[4]
  BY <1>1, <1>3
<1> HIDE DEF d
<1>5. \A i \in 1 .. m + 1 : p[i + 5] \in Byte
  <2> SUFFICES ASSUME NEW i \in 1 .. m + 1 PROVE p[i + 5] \in Byte
    OBVIOUS
  <2> DEFINE k == i + 5
  <2>1. k \in 1 .. Len(p)
    BY <1>1, <1>2
  <2> HIDE DEF k
  <2>2. p[k] \in Byte
    BY <1>1, <2>1
  <2> QED
    BY <2>2 DEF k
<1>6. d \in Seq(Byte) /\ Len(d) = m + 1
  BY <1>2, <1>4, <1>5
<1>7. \A i \in 1 .. m : d[i] = r.data[i]
  <2> SUFFICES ASSUME NEW i \in 1 .. m PROVE d[i] = r.data[i]
    OBVIOUS
  <2>1. d[i] = p[i + 5] /\ i + 5 = 5 + i
    BY <1>2, <1>4
  <2> QED
    BY <1>1, <2>1
<1> QED
  BY <1>1, <1>4, <1>6, <1>7 DEF d, got, p, m

(* The robot knows what the tests ask, and what it answers.                *)
LEMMA RobotKnows ==
  ASSUME NEW test \in AllTests, NEW seq \in Byte,
         NEW r \in Replies(Assembled(GenerateCommandMessage(test.command, seq)))
  PROVE  /\ r.seq = seq /\ r.mrsp \in RobotCodes
         /\ r.mrsp = OK => r.data = Said(test.command)
<1> DEFINE cmd == test.command
           message == GenerateCommandMessage(cmd, seq)
           packet == Assembled(message)
<1>1. cmd \in SpheroCommand
  BY TestsAskCommands
<1>2. cmd = [did |-> cmd.did, cid |-> cmd.cid]
  BY <1>1 DEF SpheroCommand
<1>3. /\ message \in Commands /\ message.seq = seq /\ message.data = <<>>
      /\ message.did = cmd.did /\ message.cid = cmd.cid
  BY <1>1, MessageIsCommand
<1>4. Len(message.data) <= MaxData
  <2>1. Len(message.data) = 0
    BY <1>3
  <2> QED
    BY <2>1, SessionAssumption, BaseAssumption DEF MaxData, MaxByte
<1> HIDE DEF message
<1>5. IsCommand(packet) /\ Decoded(packet) = message
  BY <1>3, <1>4, AssembledIsCommand
<1>6. r \in Replies(packet)
  BY DEF message
<1> HIDE DEF packet
<1>7. Executed(packet) = cmd /\ Decoded(packet).seq = seq
  BY <1>2, <1>3, <1>5 DEF Executed
<1>8. Knows(packet)
  BY <1>5, <1>7 DEF Knows, Executed
<1>9. PICK code \in RobotCodes :
        r = [mrsp |-> code, seq |-> Decoded(packet).seq,
             data |-> IF code = OK THEN Said(Executed(packet)) ELSE <<>>]
  BY <1>6, <1>8 DEF Replies
<1> QED
  BY <1>7, <1>9

(* The types of the numbers the tests read.                                *)
LEMMA TestsReadTypes ==
  \A test \in AllTests : \A read \in test.reads : read[1] \in Nat /\ read[2] \in Types
BY DEF AllTests, PingTest, VersioningTest, BluetoothInfoTest, PowerStateTest, LocatorTest, Types

(* What is a number of some data is one of what they begin with.           *)
LEMMA SameNumber ==
  ASSUME NEW data, NEW said, NEW start \in Nat, NEW T \in Types, NEW n,
         \A i \in 1 .. start + T.width : data[i] = said[i],
         IsNumber(n, data, start, T)
  PROVE  IsNumber(n, said, start, T)
<1>1. T.width \in Nat
  BY DEF Types, Unsigned, Signed
<1>2. \A i \in 1 .. T.width : data[start + i] = said[start + i]
  BY <1>1
<1>3. Number(data, start, T.width) = Number(said, start, T.width)
  BY <1>2 DEF Number
<1> QED
  BY <1>3 DEF IsNumber

(* Every test one thread runs passes: the response it gets carries the     *)
(* number of its command, has as many data as the test expects, and every  *)
(* number the test reads in them is the robot's.                           *)
THEOREM TestsCorrect == FairSpec => []TestsPass
<1>1. SessionInv /\ ResponseInv => TestsPass
  <2> SUFFICES ASSUME SessionInv, ResponseInv, NEW t \in Callers, response[t].to # 0, ahead = 1,
                      \A i \in DOMAIN asked : asked[i].by = t
               PROVE  LET got  == response[t].got
                          test == asked[response[t].to].test
                          said == Said(test.command)
                      IN  /\ got.seq = numbers[response[t].to]
                          /\ got.mrsp \in RobotCodes
                          /\ got.mrsp = OK =>
                               /\ Len(got.data) = test.length
                               /\ \A read \in test.reads :
                                    read[1] + read[2].width < test.length =>
                                      IsNumber(DataToNumerical(got.data, read[1], read[2]),
                                               said, read[1], read[2])
    BY DEF TestsPass
  <2> DEFINE n == response[t].to
             got == response[t].got
             test == asked[n].test
             said == Said(test.command)
  <2>1. /\ accepted \in Nat /\ n \in 1 .. accepted
        /\ asked \in Seq([by : Callers, test : Tests]) /\ Len(asked) = accepted
        /\ numbers \in Seq(Byte) /\ Len(numbers) = accepted
    BY DialogueShapes
  <2>2. Sole(t)
    BY <2>1 DEF Sole
  <2>3. PICK r \in Replies(Packet(n)) : got = ParseFromInternalData(ResponsePacket(r))
    BY <2>2 DEF ResponseInv, IsAnswered
  <2> HIDE DEF n, got
  <2>4. test \in AllTests
    <3> DEFINE Calling == [by : Callers, test : Tests]
    <3>1. asked \in Seq(Calling) /\ n \in 1 .. Len(asked)
      BY <2>1
    <3> HIDE DEF Calling
    <3>2. asked[n] \in Calling
      BY <3>1
    <3>3. asked[n].test \in Tests
      BY <3>2 DEF Calling
    <3> QED
      BY <3>3, SessionAssumption
  <2>5. numbers[n] \in Byte
    BY <2>1
  <2>6. Packet(n) = Assembled(GenerateCommandMessage(test.command, numbers[n]))
    BY DEF Packet
  <2>7. /\ r.seq = numbers[n] /\ r.mrsp \in RobotCodes
        /\ r.mrsp = OK => r.data = said
    BY <2>4, <2>5, <2>6, RobotKnows
  <2>8. r \in Answers /\ Len(r.data) <= MaxData
    BY <2>4, <2>5, <2>6, RepliesAreBytes, TestsAskCommands
  <2>9. /\ got.mrsp = r.mrsp /\ got.seq = r.seq
        /\ got.data \in Seq(Byte) /\ Len(got.data) = Len(r.data) + 1
        /\ \A i \in 1 .. Len(r.data) : got.data[i] = r.data[i]
    BY <2>3, <2>8, ParsedAnswer
  <2>10. said \in Seq(Byte) /\ Len(said) = test.length - 1 /\ test.length \in 1 .. 33
    BY <2>4, SaidIsData, TestsAskCommands
  <2>11. ASSUME got.mrsp = OK
         PROVE  /\ Len(got.data) = test.length
                /\ \A read \in test.reads :
                     read[1] + read[2].width < test.length =>
                       IsNumber(DataToNumerical(got.data, read[1], read[2]),
                                said, read[1], read[2])
    <3> DEFINE data == got.data
               size == test.length
    <3>1. size \in Nat
      BY <2>4, TestsAskCommands
    <3>2. r.data = said
      BY <2>7, <2>9, <2>11
    <3>3. data \in Seq(Byte) /\ Len(data) = size /\ \A i \in 1 .. size - 1 : data[i] = said[i]
      BY <2>9, <2>10, <3>1, <3>2
    <3> HIDE DEF data, said, size
    <3>4. ASSUME NEW read \in test.reads, read[1] + read[2].width < size
          PROVE  IsNumber(DataToNumerical(data, read[1], read[2]), said, read[1], read[2])
      <4> DEFINE start == read[1]
                 T == read[2]
      <4>1. start \in Nat /\ T \in Types
        BY <2>4, TestsReadTypes
      <4>2. start + T.width < size
        BY <3>4
      <4> HIDE DEF start, T
      <4>3. T.width \in Nat
        BY <4>1 DEF Types, Unsigned, Signed
      <4>4. IsNumber(DataToNumerical(data, start, T), data, start, T)
        BY <3>1, <3>3, <4>1, <4>2, <4>3, NumberIsRead
      <4>5. \A i \in 1 .. start + T.width : data[i] = said[i]
        BY <3>1, <3>3, <4>1, <4>2, <4>3
      <4>6. IsNumber(DataToNumerical(data, start, T), said, start, T)
        BY <4>1, <4>4, <4>5, SameNumber
      <4> QED
        BY <4>6 DEF start, T
    <3> QED
      BY <3>3, <3>4 DEF data, said, size
  <2> QED
    BY <2>7, <2>9, <2>11 DEF n, got
<1> QED
  BY <1>1, ResponseHolds, PTL

=============================================================================
