--------------------------- MODULE BtLoggerProofs ---------------------------
(***************************************************************************)
(* That a static SpheroHandler never logs to a closed stream and loses no  *)
(* line, for any number of threads, lines and insertions.  The argument is *)
(* the order in which the static objects are made: the handler's           *)
(* constructor logs before it is complete, so the logger is older than the *)
(* handler, and exit() joins the handler's thread before it destroys the   *)
(* logger.                                                                 *)
(***************************************************************************)
EXTENDS BtLogger, FiniteSetTheorems, SequenceTheorems, TLAPS

(* The phases of the process, each with the static objects there are.      *)
Phase(main, log, out, thread, objects) ==
  /\ program = main /\ instance = log /\ stream = out
  /\ io = thread /\ statics = objects

Handler == kind = "handler"

Early == IF Handler THEN <<>> ELSE <<"object">>

Logs == IF Handler THEN <<"stream", "logger">> ELSE <<"object", "stream", "logger">>

All == IF Handler THEN <<"stream", "logger", "object">> ELSE <<"object", "stream", "logger">>

Starting ==
  \/ Phase("begin", "none", "none", "none", <<>>)
  \/ Phase("connecting", "none", "none", "none", Early)
  \/ Phase("connecting", "making", "none", "none", Early)
  \/ Phase("connecting", "making", "open", "none", Append(Early, "stream"))
  \/ \E thread \in {"none", "running"} : Phase("connecting", "made", "open", thread, Logs)

Ending ==
  \/ Handler /\ Phase("exit", "made", "open", "stopping", All)
  \/ Handler /\ Phase("exit", "made", "open", "joined", <<"stream", "logger">>)
  \/ Handler /\ Phase("exit", "gone", "closed", "joined", <<"stream">>)
  \/ ~Handler /\ Phase("exit", "gone", "closed", "running", <<"object", "stream">>)
  \/ \E thread \in {"running", "stopping"} :
       ~Handler /\ Phase("exit", "gone", "gone", thread, <<"object">>)
  \/ \E main \in {"exit", "ended"} : Phase(main, "gone", "gone", "joined", <<>>)

Phases ==
  \/ Starting
  \/ \E main \in {"running", "exit"} : Phase(main, "made", "open", "running", All)
  \/ Ending

(* Where the threads are in each of them.  Only main is there to make the  *)
(* instance, and it has when it starts the thread.                         *)
Places ==
  /\ \A t \in Threads : pc[t] \in {"make", "made"} => t = "main"
  /\ pc["main"] = "make" => instance = "making" /\ stream = "none"
  /\ pc["main"] = "made" => instance = "making" /\ stream = "open"
  /\ instance = "making" => pc["main"] \in {"make", "made"}
  /\ instance = "none" /\ lines["main"] > 0 => pc["main"] = "log"
  /\ program = "begin" => lines["main"] = 0
  /\ \A t \in Threads : t # "main" /\ io = "none" => Idle(t)
  /\ \A t \in Threads : t # "io" /\ program \in {"begin", "exit", "ended"} => Idle(t)
  /\ io = "joined" => Idle("io")
  /\ \A t \in Threads : ~Idle(t) => lines[t] > 0
  /\ \A t \in Threads : pc[t] = "write" => instance \in {"made", "gone"}

LogInv == TypeOK /\ Phases /\ Places /\ HandlerLogsToOpenFile

LEMMA LogInit == Init => LogInv
<1>. SUFFICES ASSUME Init PROVE LogInv
  OBVIOUS
<1>. USE LoggerAssumption
<1>1. "main" \in Threads /\ "io" \in Threads
  BY DEF Threads
<1>2. TypeOK
  <2>1. statics \in Seq({"object", "stream", "logger"}) /\ file \in Seq([by : Threads, line : 1 .. MaxLines])
    BY DEF Init
  <2>2. 0 \in 0 .. Pieces - 1 /\ 0 \in 0 .. MaxLines
    OBVIOUS
  <2>. QED  BY <2>1, <2>2 DEF Init, TypeOK
<1>3. Phases
  BY DEF Init, Phases, Starting, Phase
<1>4. Places
  BY <1>1 DEF Init, Places, Idle
<1>. QED  BY <1>2, <1>3, <1>4 DEF Init, LogInv, HandlerLogsToOpenFile

(* The last of up to three static objects, and those before it.            *)
LEMMA FrontOfTwo == ASSUME NEW a, NEW b PROVE Front(<<a, b>>) = <<a>>
<1>1. Front(<<a, b>>) = SubSeq(<<a, b>>, 1, 1)
  BY DEF Front
<1>2. <<a, b>>[1] = a
  OBVIOUS
<1>3. /\ SubSeq(<<a, b>>, 1, 1) \in Seq({a}) /\ Len(SubSeq(<<a, b>>, 1, 1)) = 1
      /\ SubSeq(<<a, b>>, 1, 1)[1] = a
  BY <1>2, SubSeqProperties
<1>. QED  BY <1>1, <1>3

LEMMA FrontOfThree == ASSUME NEW a, NEW b, NEW c PROVE Front(<<a, b, c>>) = <<a, b>>
<1>1. Front(<<a, b, c>>) = SubSeq(<<a, b, c>>, 1, 2)
  BY DEF Front
<1>2. \A i \in 1 .. 2 : <<a, b, c>>[i] \in {a, b}
  OBVIOUS
<1>3. /\ SubSeq(<<a, b, c>>, 1, 2) \in Seq({a, b}) /\ Len(SubSeq(<<a, b, c>>, 1, 2)) = 2
      /\ SubSeq(<<a, b, c>>, 1, 2)[1] = a /\ SubSeq(<<a, b, c>>, 1, 2)[2] = b
  BY <1>2, SubSeqProperties
<1>. QED  BY <1>1, <1>3

LEMMA AppendToOne == ASSUME NEW a, NEW b PROVE Append(<<a>>, b) = <<a, b>>
<1>. DEFINE q == Append(<<a>>, b)
<1>1. <<a>> \in Seq({a, b}) /\ b \in {a, b} /\ Len(<<a>>) = 1
  OBVIOUS
<1>2. q \in Seq({a, b}) /\ Len(q) = 2 /\ q[1] = a /\ q[2] = b
  BY <1>1, AppendProperties
<1>. HIDE DEF q
<1>3. q = <<a, b>>
  BY <1>2
<1>. QED  BY <1>3 DEF q

LEMMA AppendToTwo == ASSUME NEW a, NEW b, NEW c PROVE Append(<<a, b>>, c) = <<a, b, c>>
<1>. DEFINE q == Append(<<a, b>>, c)
<1>1. <<a, b>> \in Seq({a, b, c}) /\ c \in {a, b, c} /\ Len(<<a, b>>) = 2
  OBVIOUS
<1>2. q \in Seq({a, b, c}) /\ Len(q) = 3 /\ q[1] = a /\ q[2] = b /\ q[3] = c
  BY <1>1, AppendProperties
<1>. HIDE DEF q
<1>3. q = <<a, b, c>>
  BY <1>2
<1>. QED  BY <1>3 DEF q

(* The static objects as they are made ...                                 *)
LEMMA StaticsMade ==
  /\ Append(Append(Early, "stream"), "logger") = Logs
  /\ Handler => Append(Logs, "object") = All
  /\ ~Handler => Logs = All
<1>1. CASE Handler
  <2>1. Append(<<>>, "stream") = <<"stream">>
    OBVIOUS
  <2>2. Append(<<"stream">>, "logger") = <<"stream", "logger">>
    BY AppendToOne
  <2>3. Append(<<"stream", "logger">>, "object") = <<"stream", "logger", "object">>
    BY AppendToTwo
  <2>4. Early = <<>> /\ Logs = <<"stream", "logger">> /\ All = <<"stream", "logger", "object">>
    BY <1>1 DEF Early, Logs, All
  <2>. QED  BY <1>1, <2>1, <2>2, <2>3, <2>4, Zenon
<1>2. CASE ~Handler
  <2>1. Append(<<"object">>, "stream") = <<"object", "stream">>
    BY AppendToOne
  <2>2. Append(<<"object", "stream">>, "logger") = <<"object", "stream", "logger">>
    BY AppendToTwo
  <2>3. Early = <<"object">> /\ Logs = <<"object", "stream", "logger">> /\ All = Logs
    BY <1>2 DEF Early, Logs, All
  <2>. QED  BY <1>2, <2>1, <2>2, <2>3, Zenon
<1>. QED  BY <1>1, <1>2

(* ... and as they are destroyed.                                          *)
LEMMA StaticsLast ==
  /\ Last(<<"stream", "logger", "object">>) = "object"
  /\ Last(<<"object", "stream", "logger">>) = "logger"
  /\ Last(<<"stream", "logger">>) = "logger"
  /\ Last(<<"object", "stream">>) = "stream"
  /\ Last(<<"stream">>) = "stream"
  /\ Last(<<"object">>) = "object"
BY DEF Last

LEMMA StaticsFront ==
  /\ Front(<<"stream", "logger", "object">>) = <<"stream", "logger">>
  /\ Front(<<"object", "stream", "logger">>) = <<"object", "stream">>
  /\ Front(<<"stream", "logger">>) = <<"stream">>
  /\ Front(<<"object", "stream">>) = <<"object">>
  /\ Front(<<"stream">>) = <<>>
  /\ Front(<<"object">>) = <<>>
<1>1. /\ Front(<<"stream", "logger", "object">>) = <<"stream", "logger">>
      /\ Front(<<"object", "stream", "logger">>) = <<"object", "stream">>
  BY FrontOfThree, Zenon
<1>2. /\ Front(<<"stream", "logger">>) = <<"stream">>
      /\ Front(<<"object", "stream">>) = <<"object">>
  BY FrontOfTwo, Zenon
<1>3. Front(<<"stream">>) = <<>> /\ Front(<<"object">>) = <<>>
  BY DEF Front
<1>. QED  BY <1>1, <1>2, <1>3, Zenon

(* The phases that exit() finds with a static object to destroy.           *)
LEMMA WhatIsLast ==
  ASSUME Phases, program = "exit", statics # <<>>
  PROVE  /\ Last(statics) = "object" =>
              \/ Handler /\ io \in {"running", "stopping"} /\ Phase("exit", "made", "open", io, All)
              \/ ~Handler /\ io \in {"running", "stopping"} /\ Phase("exit", "gone", "gone", io, <<"object">>)
         /\ Last(statics) = "logger" =>
              \/ Handler /\ Phase("exit", "made", "open", "joined", <<"stream", "logger">>)
              \/ ~Handler /\ Phase("exit", "made", "open", "running", All)
         /\ Last(statics) = "stream" =>
              \/ Handler /\ Phase("exit", "gone", "closed", "joined", <<"stream">>)
              \/ ~Handler /\ Phase("exit", "gone", "closed", "running", <<"object", "stream">>)
<1>. USE DEF Phase
<1>1. CASE Phase("exit", "made", "open", "running", All)
  <2>1. CASE Handler
    BY <1>1, <2>1, StaticsLast DEF All
  <2>2. CASE ~Handler
    BY <1>1, <2>2, StaticsLast DEF All
  <2>. QED  BY <2>1, <2>2
<1>2. CASE Handler /\ Phase("exit", "made", "open", "stopping", All)
  BY <1>2, StaticsLast DEF All
<1>3. CASE Handler /\ Phase("exit", "made", "open", "joined", <<"stream", "logger">>)
  BY <1>3, StaticsLast
<1>4. CASE Handler /\ Phase("exit", "gone", "closed", "joined", <<"stream">>)
  BY <1>4, StaticsLast
<1>5. CASE ~Handler /\ Phase("exit", "gone", "closed", "running", <<"object", "stream">>)
  BY <1>5, StaticsLast
<1>6. CASE ~Handler /\ \E thread \in {"running", "stopping"} :
             Phase("exit", "gone", "gone", thread, <<"object">>)
  BY <1>6, StaticsLast
<1>. QED  BY <1>1, <1>2, <1>3, <1>4, <1>5, <1>6 DEF Phases, Starting, Ending

(* No thread but main reaches the making of the instance.                  *)
LEMMA MainMakes ==
  ASSUME Phases, Places, NEW t \in Threads, pc[t] = "log", instance = "none"
  PROVE  t = "main" /\ Phase("connecting", "none", "none", "none", Early)
<1>1. io = "none" /\ stream = "none" /\ program \in {"begin", "connecting"}
  BY DEF Phases, Starting, Ending, Phase
<1>2. t = "main"
  BY <1>1 DEF Places, Idle
<1>3. program = "connecting"
  BY <1>1, <1>2 DEF Places, Idle
<1>. QED  BY <1>2, <1>3 DEF Phases, Starting, Ending, Phase

LEMMA PhasesNext ==
  ASSUME TypeOK, Phases, Places, [Next]_vars
  PROVE  Phases'
<1>0. "main" \in Threads /\ "io" \in Threads
  BY DEF Threads
<1>1. CASE UNCHANGED <<object, instance, stream>>
  <2>1. UNCHANGED <<kind, program, statics, io, instance, stream>>
    BY <1>1 DEF object
  <2>2. Handler' = Handler /\ Early' = Early /\ Logs' = Logs /\ All' = All
    BY <2>1 DEF Handler, Early, Logs, All
  <2>. QED  BY <2>1, <2>2 DEF Phases, Starting, Ending, Phase
<1>2. ASSUME NEW t \in Threads, Make(t) PROVE Phases'
  <2>1. Phase("connecting", "none", "none", "none", Early) /\ instance' = "making"
        /\ UNCHANGED <<kind, program, statics, io, stream>>
    BY <1>2, MainMakes DEF Make, object
  <2>. QED  BY <2>1 DEF Phases, Starting, Phase, Early, Handler
<1>3. ASSUME NEW t \in Threads, LogStream(t) PROVE Phases'
  <2>1. instance = "making" /\ stream = "none"
    BY <1>3 DEF LogStream, Places
  <2>2. Phase("connecting", "making", "none", "none", Early)
    BY <2>1 DEF Phases, Starting, Ending, Phase
  <2>3. statics' = Append(statics, "stream") /\ stream' = "open"
        /\ UNCHANGED <<kind, program, io, instance>>
    BY <1>3 DEF LogStream
  <2>4. Phase("connecting", "making", "open", "none", Append(Early, "stream"))'
    BY <2>2, <2>3 DEF Phase, Early, Handler
  <2>. QED  BY <2>4 DEF Phases, Starting
<1>4. ASSUME NEW t \in Threads, Made(t) PROVE Phases'
  <2>1. instance = "making" /\ stream = "open"
    BY <1>4 DEF Made, Places
  <2>2. Phase("connecting", "making", "open", "none", Append(Early, "stream"))
    BY <2>1 DEF Phases, Starting, Ending, Phase
  <2>3. statics' = Append(statics, "logger") /\ instance' = "made"
        /\ UNCHANGED <<kind, program, io, stream>>
    BY <1>4 DEF Made
  <2>4. Phase("connecting", "made", "open", "none", Logs)'
    <3>1. statics' = Logs
      BY <2>2, <2>3, StaticsMade DEF Phase
    <3>. QED  BY <2>2, <2>3, <3>1 DEF Phase, Logs, Handler
  <2>. QED  BY <2>4 DEF Phases, Starting
<1>5. CASE Construct
  <2>1. /\ program = "begin" /\ program' = "connecting"
        /\ statics' = (IF kind = "connection" THEN <<"object">> ELSE <<>>)
        /\ UNCHANGED <<kind, io, instance, stream>>
    BY <1>5 DEF Construct, logger
  <2>2. Phase("begin", "none", "none", "none", <<>>)
    BY <2>1 DEF Phases, Starting, Ending, Phase
  <2>3. Phase("connecting", "none", "none", "none", Early)'
    BY <2>1, <2>2 DEF Phase, Early, Handler, TypeOK
  <2>. QED  BY <2>3 DEF Phases, Starting
<1>6. CASE Spawn
  <2>1. program = "connecting" /\ io = "none" /\ pc["main"] = "idle" /\ lines["main"] > 0
        /\ io' = "running" /\ UNCHANGED <<kind, program, statics, instance, stream>>
    BY <1>6 DEF Spawn, Idle, logger
  <2>2. instance # "none" /\ instance # "making"
    BY <2>1 DEF Places
  <2>3. Phase("connecting", "made", "open", "none", Logs)
    BY <2>1, <2>2 DEF Phases, Starting, Ending, Phase
  <2>4. Phase("connecting", "made", "open", "running", Logs)'
    BY <2>1, <2>3 DEF Phase, Logs, Handler
  <2>. QED  BY <2>4 DEF Phases, Starting
<1>7. CASE Constructed
  <2>1. program = "connecting" /\ io = "running" /\ program' = "running"
        /\ statics' = (IF kind = "handler" THEN Append(statics, "object") ELSE statics)
        /\ UNCHANGED <<kind, io, instance, stream>>
    BY <1>7 DEF Constructed, logger
  <2>2. Phase("connecting", "made", "open", "running", Logs)
    BY <2>1 DEF Phases, Starting, Ending, Phase
  <2>3. (IF kind = "handler" THEN Append(Logs, "object") ELSE Logs) = All
    BY StaticsMade DEF Handler
  <2>4. Phase("running", "made", "open", "running", All)'
    BY <2>1, <2>2, <2>3 DEF Phase, All, Handler
  <2>. QED  BY <2>4 DEF Phases
<1>8. CASE Exit
  <2>1. program = "running" /\ program' = "exit" /\ UNCHANGED <<kind, statics, io, instance, stream>>
    BY <1>8 DEF Exit, logger
  <2>2. Phase("running", "made", "open", "running", All)
    BY <2>1 DEF Phases, Starting, Ending, Phase
  <2>3. Phase("exit", "made", "open", "running", All)'
    BY <2>1, <2>2 DEF Phase, All, Handler
  <2>. QED  BY <2>3 DEF Phases
<1>9. CASE Destruction
  <2>. USE DEF Destroys
  <2>1. CASE Close
    <3>1. /\ program = "exit" /\ statics # <<>> /\ Last(statics) = "object"
          /\ io = "running" /\ io' = "stopping"
          /\ UNCHANGED <<kind, program, statics, instance, stream>>
      BY <2>1 DEF Close, logger
    <3>2. \/ Handler /\ Phase("exit", "made", "open", "running", All)
          \/ ~Handler /\ Phase("exit", "gone", "gone", "running", <<"object">>)
      BY <3>1, WhatIsLast
    <3>3. \/ Handler' /\ Phase("exit", "made", "open", "stopping", All)'
          \/ ~Handler' /\ Phase("exit", "gone", "gone", "stopping", <<"object">>)'
      BY <3>1, <3>2 DEF Phase, All, Handler
    <3>. QED  BY <3>3 DEF Phases, Ending
  <2>2. CASE Join
    <3>1. /\ program = "exit" /\ statics # <<>> /\ Last(statics) = "object"
          /\ io = "stopping" /\ io' = "joined" /\ statics' = Front(statics)
          /\ UNCHANGED <<kind, program, instance, stream>>
      BY <2>2 DEF Join, logger
    <3>2. CASE Handler /\ Phase("exit", "made", "open", "stopping", All)
      <4>1. statics' = <<"stream", "logger">>
        BY <3>1, <3>2, StaticsFront DEF Phase, All
      <4>2. Handler' /\ Phase("exit", "made", "open", "joined", <<"stream", "logger">>)'
        BY <3>1, <3>2, <4>1 DEF Phase, Handler
      <4>. QED  BY <4>2 DEF Phases, Ending
    <3>3. CASE ~Handler /\ Phase("exit", "gone", "gone", "stopping", <<"object">>)
      <4>1. statics' = <<>>
        BY <3>1, <3>3, StaticsFront DEF Phase
      <4>2. Phase("exit", "gone", "gone", "joined", <<>>)'
        BY <3>1, <3>3, <4>1 DEF Phase
      <4>. QED  BY <4>2 DEF Phases, Ending
    <3>. QED  BY <3>1, <3>2, <3>3, WhatIsLast
  <2>3. CASE ReleaseStream
    <3>1. /\ program = "exit" /\ statics # <<>> /\ Last(statics) = "logger"
          /\ statics' = Front(statics) /\ instance' = "gone"
          /\ counter' = counter - 1 /\ stream' = (IF counter' = 0 THEN "closed" ELSE stream)
          /\ UNCHANGED <<kind, program, io>>
      BY <2>3 DEF ReleaseStream
    <3>2. stream' = "closed"
      <4>1. stream = "open"
        BY <3>1, WhatIsLast DEF Phase
      <4>. QED  BY <3>1, <4>1 DEF TypeOK
    <3>3. CASE Handler /\ Phase("exit", "made", "open", "joined", <<"stream", "logger">>)
      <4>1. statics' = <<"stream">>
        BY <3>1, <3>3, StaticsFront DEF Phase
      <4>2. Handler' /\ Phase("exit", "gone", "closed", "joined", <<"stream">>)'
        BY <3>1, <3>2, <3>3, <4>1 DEF Phase, Handler
      <4>. QED  BY <4>2 DEF Phases, Ending
    <3>4. CASE ~Handler /\ Phase("exit", "made", "open", "running", All)
      <4>1. statics' = <<"object", "stream">>
        BY <3>1, <3>4, StaticsFront DEF Phase, All
      <4>2. ~Handler' /\ Phase("exit", "gone", "closed", "running", <<"object", "stream">>)'
        BY <3>1, <3>2, <3>4, <4>1 DEF Phase, Handler
      <4>. QED  BY <4>2 DEF Phases, Ending
    <3>. QED  BY <3>1, <3>3, <3>4, WhatIsLast
  <2>4. CASE StreamGone
    <3>1. /\ program = "exit" /\ statics # <<>> /\ Last(statics) = "stream"
          /\ statics' = Front(statics) /\ stream' = "gone"
          /\ UNCHANGED <<kind, program, io, instance>>
      BY <2>4 DEF StreamGone
    <3>2. CASE Handler /\ Phase("exit", "gone", "closed", "joined", <<"stream">>)
      <4>1. statics' = <<>>
        BY <3>1, <3>2, StaticsFront DEF Phase
      <4>2. Phase("exit", "gone", "gone", "joined", <<>>)'
        BY <3>1, <3>2, <4>1 DEF Phase
      <4>. QED  BY <4>2 DEF Phases, Ending
    <3>3. CASE ~Handler /\ Phase("exit", "gone", "closed", "running", <<"object", "stream">>)
      <4>1. statics' = <<"object">>
        BY <3>1, <3>3, StaticsFront DEF Phase
      <4>2. ~Handler' /\ Phase("exit", "gone", "gone", "running", <<"object">>)'
        BY <3>1, <3>3, <4>1 DEF Phase, Handler
      <4>. QED  BY <4>2 DEF Phases, Ending
    <3>. QED  BY <3>1, <3>2, <3>3, WhatIsLast
  <2>5. CASE Ends
    <3>1. program = "exit" /\ statics = <<>> /\ program' = "ended"
          /\ UNCHANGED <<kind, statics, io, instance, stream>>
      BY <2>5 DEF Ends, logger
    <3>2. Phase("exit", "gone", "gone", "joined", <<>>)
      BY <3>1 DEF Phases, Starting, Ending, Phase, All
    <3>3. Phase("ended", "gone", "gone", "joined", <<>>)'
      BY <3>1, <3>2 DEF Phase
    <3>. QED  BY <3>3 DEF Phases, Ending
  <2>. QED  BY <1>9, <2>1, <2>2, <2>3, <2>4, <2>5 DEF Destruction
<1>10. ASSUME NEW t \in Threads, Call(t) \/ Reuse(t) \/ Insert(t) PROVE Phases'
  BY <1>1, <1>10 DEF Call, Reuse, Insert, logger
<1>11. CASE UNCHANGED vars
  BY <1>1, <1>11 DEF vars, logger
<1>. QED  BY <1>2, <1>3, <1>4, <1>5, <1>6, <1>7, <1>8, <1>9, <1>10, <1>11 DEF Next, Log

LEMMA TypeNext ==
  ASSUME TypeOK, Places, Phases, [Next]_vars
  PROVE  TypeOK'
<1>. DEFINE Static == {"object", "stream", "logger"}
            Entry  == [by : Threads, line : 1 .. MaxLines]
<1>. USE DEF TypeOK
<1>0. /\ "main" \in Threads /\ "io" \in Threads
      /\ MaxLines \in Nat /\ Pieces \in Nat \ {0}
  BY LoggerAssumption DEF Threads
<1>1. ASSUME NEW t \in Threads, Call(t) PROVE TypeOK'
  <2>1. lines[t] + 1 \in 0 .. MaxLines
    BY <1>0, <1>1 DEF Call
  <2>. QED  BY <1>1, <2>1 DEF Call, Goto, object, logger, text
<1>2. ASSUME NEW t \in Threads, Make(t) \/ Reuse(t) PROVE TypeOK'
  <2>1. CASE Make(t)
    BY <2>1 DEF Make, Goto, object, logger, text
  <2>2. CASE Reuse(t)
    BY <2>2 DEF Reuse, Goto, object, logger, text
  <2>. QED  BY <1>2, <2>1, <2>2
<1>3. ASSUME NEW t \in Threads, LogStream(t) PROVE TypeOK'
  <2>1. stream = "none" /\ counter' = 1 /\ statics' \in Seq(Static)
    <3>1. stream = "none"
      BY <1>3 DEF LogStream, Places
    <3>2. statics' = Append(statics, "stream") /\ counter' = counter + 1
      BY <1>3 DEF LogStream
    <3>. QED  BY <3>1, <3>2
  <2>. QED  BY <1>3, <2>1 DEF LogStream, Goto, text
<1>4. ASSUME NEW t \in Threads, Made(t) PROVE TypeOK'
  BY <1>4 DEF Made, Goto, text
<1>5. ASSUME NEW t \in Threads, Insert(t) PROVE TypeOK'
  <2>1. lines[t] \in 1 .. MaxLines
    <3>1. lines[t] > 0 /\ lines[t] \in 0 .. MaxLines
      BY <1>5 DEF Insert, Places, Idle
    <3>. QED  BY <1>0, <3>1
  <2>2. file' \in Seq(Entry) /\ stray' \in BOOLEAN
    <3>1. [by |-> t, line |-> lines[t]] \in Entry
      BY <2>1
    <3>2. \/ file' = Append(file, [by |-> t, line |-> lines[t]]) /\ stray' = stray
          \/ file' = file /\ stray' = TRUE
      BY <1>5 DEF Insert
    <3>3. file \in Seq(Entry) /\ stray \in BOOLEAN
      OBVIOUS
    <3>. HIDE DEF TypeOK, Entry
    <3>4. ASSUME NEW e \in Entry PROVE Append(file, e) \in Seq(Entry)
      BY <3>3, AppendProperties
    <3>. QED  BY <3>1, <3>2, <3>3, <3>4
  <2>3. (piece[t] + 1) % Pieces \in 0 .. Pieces - 1
    <3>1. piece[t] + 1 \in Nat
      BY <1>0
    <3>. QED  BY <1>0, <3>1
  <2>4. piece' \in [Threads -> 0 .. Pieces - 1]
    BY <1>5, <2>3 DEF Insert
  <2>5. pc' \in [Threads -> {"idle", "log", "make", "made", "write"}]
    BY <1>5 DEF Insert, Goto
  <2>. QED  BY <1>5, <2>2, <2>4, <2>5 DEF Insert, object, logger
<1>6. CASE Construct
  <2>1. statics' \in Seq(Static)
    <3>1. <<"object">> \in Seq(Static) /\ <<>> \in Seq(Static)
      OBVIOUS
    <3>. QED  BY <1>6, <3>1 DEF Construct
  <2>. QED  BY <1>6, <2>1 DEF Construct, logger, text
<1>7. CASE Spawn \/ Exit \/ Close \/ Ends
  BY <1>7 DEF Spawn, Exit, Close, Ends, logger, text
<1>8. CASE Constructed
  <2>1. statics' \in Seq(Static)
    BY <1>8 DEF Constructed
  <2>. QED  BY <1>8, <2>1 DEF Constructed, logger, text
<1>9. CASE Join \/ ReleaseStream \/ StreamGone
  <2>1. statics' = Front(statics) /\ statics # <<>> /\ statics \in Seq(Static)
    BY <1>9 DEF Join, ReleaseStream, StreamGone, Destroys
  <2>2. statics' \in Seq(Static)
    <3>. HIDE DEF Static
    <3>1. \A i \in 1 .. Len(statics) - 1 : statics[i] \in Static
      BY <2>1
    <3>2. Len(statics) - 1 \in Int
      BY <2>1
    <3>. QED  BY <2>1, <3>1, <3>2, SubSeqProperties DEF Front
  <2>3. CASE Join
    BY <2>2, <2>3 DEF Join, logger, text
  <2>4. CASE ReleaseStream
    <3>1. stream = "open"
      BY <2>4, WhatIsLast DEF ReleaseStream, Destroys, Phase
    <3>2. counter' = 0 /\ stream' = "closed"
      BY <2>4, <3>1 DEF ReleaseStream
    <3>. QED  BY <2>2, <2>4, <3>2 DEF ReleaseStream, text
  <2>5. CASE StreamGone
    <3>1. stream # "open"
      BY <2>5, WhatIsLast DEF StreamGone, Destroys, Phase
    <3>. QED  BY <2>2, <2>5, <3>1 DEF StreamGone, text
  <2>. QED  BY <1>9, <2>3, <2>4, <2>5
<1>10. CASE UNCHANGED vars
  BY <1>10 DEF vars, object, logger, text
<1>. QED  BY <1>1, <1>2, <1>3, <1>4, <1>5, <1>6, <1>7, <1>8, <1>9, <1>10
          DEF Next, Log, Destruction

(* A stream that is not open is written to when the logger is gone, and by *)
(* the connection's thread, which a handler has joined by then.            *)
LEMMA StrayNext ==
  ASSUME TypeOK, Phases, Places, HandlerLogsToOpenFile, [Next]_vars
  PROVE  HandlerLogsToOpenFile'
<1>. USE DEF HandlerLogsToOpenFile
<1>1. kind' = kind
  BY DEF Next, Log, Call, Make, LogStream, Made, Reuse, Insert, Construct, Spawn, Constructed, Exit,
         Destruction, Close, Join, ReleaseStream, StreamGone, Ends, vars, object
<1>2. ASSUME NEW t \in Threads, Insert(t) PROVE HandlerLogsToOpenFile'
  <2>1. SUFFICES ASSUME stream # "open" PROVE kind = "connection"
    BY <1>1, <1>2 DEF Insert
  <2>2. pc[t] = "write" /\ instance \in {"made", "gone"}
    BY <1>2 DEF Insert, Places
  <2>3. instance = "gone" /\ program \in {"exit", "ended"}
    BY <2>1, <2>2 DEF Phases, Starting, Ending, Phase
  <2>4. t = "io" /\ io # "joined"
    BY <2>2, <2>3 DEF Places, Idle
  <2>5. ~Handler
    BY <2>3, <2>4 DEF Phases, Starting, Ending, Phase
  <2>. QED  BY <2>5 DEF Handler, TypeOK
<1>3. CASE UNCHANGED stray
  BY <1>1, <1>3
<1>4. ASSUME NEW t \in Threads, Call(t) \/ Make(t) \/ LogStream(t) \/ Made(t) \/ Reuse(t)
      PROVE  UNCHANGED stray
  BY <1>4 DEF Call, Make, LogStream, Made, Reuse, text
<1>5. CASE Construct \/ Spawn \/ Constructed \/ Exit \/ Destruction
  BY <1>3, <1>5 DEF Construct, Spawn, Constructed, Exit, Destruction, Close, Join, ReleaseStream,
                    StreamGone, Ends, text
<1>6. CASE UNCHANGED vars
  BY <1>3, <1>6 DEF vars, text
<1>. QED  BY <1>2, <1>3, <1>4, <1>5, <1>6 DEF Next, Log

LEMMA PlacesNext ==
  ASSUME TypeOK, Phases, Places, [Next]_vars
  PROVE  Places'
<1>0. "main" \in Threads /\ "io" \in Threads /\ lines \in [Threads -> 0 .. MaxLines]
      /\ pc \in [Threads -> {"idle", "log", "make", "made", "write"}] /\ MaxLines \in Nat
  BY LoggerAssumption DEF Threads, TypeOK
<1>. USE DEF Idle
<1>1. ASSUME NEW t \in Threads, Call(t) PROVE Places'
  <2>1. /\ Runs(t) /\ pc[t] = "idle"
        /\ lines' = [lines EXCEPT ![t] = lines[t] + 1] /\ pc' = [pc EXCEPT ![t] = "log"]
        /\ UNCHANGED <<program, io, instance, stream>>
    BY <1>1 DEF Call, Goto, object, logger
  <2>2. /\ t = "main" => program \in {"connecting", "running"}
        /\ t = "io"   => io \in {"running", "stopping"}
        /\ t # "main" /\ t # "io" => program = "running"
    BY <2>1 DEF Runs
  <2>3. /\ t # "main" => io # "none"
        /\ t # "io" => program \notin {"begin", "exit", "ended"}
        /\ t = "io" => io # "joined"
    BY <2>2 DEF Phases, Starting, Ending, Phase
  <2>4. \A u \in Threads : lines'[u] >= lines[u] /\ (u # t => lines'[u] = lines[u]) /\ lines'[t] > 0
    BY <1>0, <2>1
  <2>5. \A u \in Threads : pc'[u] = IF u = t THEN "log" ELSE pc[u]
    BY <1>0, <2>1
  <2>6. /\ \A u \in Threads : pc'[u] \in {"make", "made"} => u = "main"
        /\ \A u \in Threads : pc'[u] = "write" => instance' \in {"made", "gone"}
        /\ \A u \in Threads : pc'[u] # "idle" => lines'[u] > 0
    BY <1>0, <2>1, <2>4, <2>5 DEF Places
  <2>7. /\ \A u \in Threads : u # "main" /\ io' = "none" => pc'[u] = "idle"
        /\ \A u \in Threads : u # "io" /\ program' \in {"begin", "exit", "ended"} => pc'[u] = "idle"
        /\ io' = "joined" => pc'["io"] = "idle"
    BY <1>0, <2>1, <2>3, <2>5 DEF Places
  <2>8. /\ pc'["main"] = "make" => instance' = "making" /\ stream' = "none"
        /\ pc'["main"] = "made" => instance' = "making" /\ stream' = "open"
        /\ instance' = "making" => pc'["main"] \in {"make", "made"}
    BY <1>0, <2>1, <2>5 DEF Places
  <2>9. /\ instance' = "none" /\ lines'["main"] > 0 => pc'["main"] = "log"
        /\ program' = "begin" => lines'["main"] = 0
    BY <1>0, <2>1, <2>3, <2>4, <2>5 DEF Places
  <2>. QED  BY <2>6, <2>7, <2>8, <2>9 DEF Places
<1>2. ASSUME NEW t \in Threads, Make(t) PROVE Places'
  <2>1. /\ pc[t] = "log" /\ instance = "none" /\ instance' = "making"
        /\ pc' = [pc EXCEPT ![t] = "make"] /\ UNCHANGED <<program, io, stream, lines>>
    BY <1>2 DEF Make, Goto, object
  <2>2. t = "main" /\ program = "connecting" /\ io = "none" /\ stream = "none"
    BY <2>1, MainMakes DEF Phase
  <2>3. pc'["main"] = "make" /\ \A u \in Threads : u # "main" => pc'[u] = pc[u]
    BY <1>0, <2>1, <2>2
  <2>. QED  BY <1>0, <2>1, <2>2, <2>3 DEF Places
<1>3. ASSUME NEW t \in Threads, LogStream(t) PROVE Places'
  <2>1. /\ pc[t] = "make" /\ stream' = "open"
        /\ pc' = [pc EXCEPT ![t] = "made"] /\ UNCHANGED <<program, io, instance, lines>>
    BY <1>3 DEF LogStream, Goto
  <2>2. t = "main" /\ instance = "making"
    BY <2>1 DEF Places
  <2>3. pc'["main"] = "made" /\ \A u \in Threads : u # "main" => pc'[u] = pc[u]
    BY <1>0, <2>1, <2>2
  <2>. QED  BY <1>0, <2>1, <2>2, <2>3 DEF Places
<1>4. ASSUME NEW t \in Threads, Made(t) PROVE Places'
  <2>1. /\ pc[t] = "made" /\ instance' = "made"
        /\ pc' = [pc EXCEPT ![t] = "write"] /\ UNCHANGED <<program, io, stream, lines>>
    BY <1>4 DEF Made, Goto
  <2>2. t = "main" /\ instance = "making"
    BY <2>1 DEF Places
  <2>3. pc'["main"] = "write" /\ \A u \in Threads : u # "main" => pc'[u] = pc[u]
    BY <1>0, <2>1, <2>2
  <2>. QED  BY <1>0, <2>1, <2>2, <2>3 DEF Places
<1>5. ASSUME NEW t \in Threads, Reuse(t) \/ Insert(t) PROVE Places'
  <2>1. /\ pc[t] \in {"log", "write"} /\ instance \in {"made", "gone"}
        /\ \E label \in {"write", "idle"} : pc' = [pc EXCEPT ![t] = label]
        /\ UNCHANGED <<program, io, instance, stream, lines>>
    <3>1. CASE Reuse(t)
      BY <3>1 DEF Reuse, Goto, object, logger
    <3>2. CASE Insert(t)
      BY <3>2 DEF Insert, Goto, object, logger, Places
    <3>. QED  BY <1>5, <3>1, <3>2
  <2>2. pc'[t] \in {"write", "idle"} /\ \A u \in Threads : u # t => pc'[u] = pc[u]
    BY <1>0, <2>1
  <2>. QED  BY <1>0, <2>1, <2>2 DEF Places
<1>6. CASE Construct
  <2>1. program = "begin" /\ program' = "connecting" /\ UNCHANGED <<io, instance, stream, pc, lines>>
    BY <1>6 DEF Construct, logger
  <2>. QED  BY <2>1 DEF Places
<1>7. CASE Spawn
  <2>1. program = "connecting" /\ io' = "running" /\ UNCHANGED <<program, instance, stream, pc, lines>>
    BY <1>7 DEF Spawn, logger
  <2>. QED  BY <2>1 DEF Places
<1>8. CASE Constructed
  <2>1. program' = "running" /\ UNCHANGED <<io, instance, stream, pc, lines>>
    BY <1>8 DEF Constructed, logger
  <2>. QED  BY <2>1 DEF Places
<1>9. CASE Exit
  <2>1. /\ \A t \in Threads \ {"io"} : pc[t] = "idle"
        /\ UNCHANGED <<io, instance, stream, pc, lines>> /\ program = "running" /\ program' = "exit"
    BY <1>9 DEF Exit, logger
  <2>. QED  BY <2>1 DEF Places
<1>10. CASE Destruction
  <2>1. program = "exit" /\ program' \in {"exit", "ended"} /\ UNCHANGED <<pc, lines>>
    BY <1>10 DEF Destruction, Close, Join, ReleaseStream, StreamGone, Ends, Destroys, text
  <2>2. instance \in {"made", "gone"} /\ instance' \in {"made", "gone"} /\ io # "none" /\ io' # "none"
    <3>1. instance \in {"made", "gone"} /\ io # "none"
      BY <2>1 DEF Phases, Starting, Ending, Phase
    <3>. QED  BY <1>10, <3>1 DEF Destruction, Close, Join, ReleaseStream, StreamGone, Ends, logger
  <2>3. io' = "joined" => pc["io"] = "idle"
    BY <1>10 DEF Destruction, Close, Join, ReleaseStream, StreamGone, Ends, Places
  <2>. QED  BY <1>0, <2>1, <2>2, <2>3 DEF Places
<1>11. CASE UNCHANGED vars
  BY <1>11 DEF vars, object, logger, Places
<1>. QED  BY <1>1, <1>2, <1>3, <1>4, <1>5, <1>6, <1>7, <1>8, <1>9, <1>10, <1>11 DEF Next, Log

LEMMA LogInvHolds == Spec => []LogInv
<1>1. LogInv /\ [Next]_vars => LogInv'
  BY TypeNext, PhasesNext, PlacesNext, StrayNext DEF LogInv
<1>. QED  BY <1>1, LogInit, PTL DEF Spec

(* Every variable keeps its type, and the counter of the logger is the     *)
(* number of loggers: releaseStream() closes the stream when it should     *)
(* (LogStream, releaseStream).                                             *)
THEOREM TypeCorrect == Spec => []TypeOK
<1>1. LogInv => TypeOK
  BY DEF LogInv
<1>. QED  BY <1>1, LogInvHolds, PTL

(* A static SpheroHandler never logs to a stream that is closed or not yet *)
(* open, for any number of threads and lines.                              *)
THEOREM HandlerLogsCorrect == Spec => []HandlerLogsToOpenFile
<1>1. LogInv => HandlerLogsToOpenFile
  BY DEF LogInv
<1>. QED  BY <1>1, LogInvHolds, PTL

(***************************************************************************)
(* The insertions of each thread.  As long as none went astray, those in   *)
(* the file and those its line still owes make the lines it has begun.     *)
(***************************************************************************)
Mine(t) == {i \in DOMAIN file : file[i].by = t}

Owing(t) == IF pc[t] = "idle" THEN 0 ELSE IF pc[t] = "write" THEN Pieces - piece[t] ELSE Pieces

LinesInv ==
  \A t \in Threads :
    /\ IsFiniteSet(Mine(t))
    /\ pc[t] # "write" => piece[t] = 0
    /\ ~stray => Cardinality(Mine(t)) + Owing(t) = Pieces * lines[t]

LEMMA LinesInit == Init => LinesInv
<1>. SUFFICES ASSUME Init, NEW t \in Threads
              PROVE  /\ IsFiniteSet(Mine(t)) /\ piece[t] = 0
                     /\ Cardinality(Mine(t)) + Owing(t) = Pieces * lines[t]
  BY DEF LinesInv
<1>1. pc[t] = "idle" /\ piece[t] = 0 /\ lines[t] = 0 /\ file = <<>>
  BY DEF Init
<1>2. Mine(t) = {}
  BY <1>1 DEF Mine
<1>3. IsFiniteSet(Mine(t)) /\ Cardinality(Mine(t)) = 0
  BY <1>2, FS_EmptySet
<1>4. Pieces * 0 = 0
  BY LoggerAssumption
<1>. QED  BY <1>1, <1>3, <1>4 DEF Owing

(* What an insertion adds to the file.                                     *)
LEMMA MineGrows ==
  ASSUME TypeOK, NEW t, NEW u, NEW n, IsFiniteSet(Mine(u)),
         file' = Append(file, [by |-> t, line |-> n])
  PROVE  /\ IsFiniteSet(Mine(u)')
         /\ Cardinality(Mine(u)') = Cardinality(Mine(u)) + (IF u = t THEN 1 ELSE 0)
<1>. DEFINE k == Len(file) + 1
<1>1. Len(file) \in Nat /\ DOMAIN file = 1 .. Len(file) /\ DOMAIN file' = 1 .. k
  BY DEF TypeOK
<1>2. file'[k].by = t /\ \A i \in 1 .. Len(file) : file'[i] = file[i]
  BY DEF TypeOK
<1>3. k \notin Mine(u)
  BY <1>1 DEF Mine
<1>4. Mine(u)' = Mine(u) \cup (IF u = t THEN {k} ELSE {})
  BY <1>1, <1>2 DEF Mine
<1>5. CASE u = t
  <2>1. Mine(u)' = Mine(u) \cup {k}
    BY <1>4, <1>5
  <2>. HIDE DEF k
  <2>. QED  BY <1>3, <1>5, <2>1, FS_AddElement
<1>6. CASE u # t
  <2>1. Mine(u)' = Mine(u)
    BY <1>4, <1>6
  <2>2. Cardinality(Mine(u)) \in Nat
    BY FS_CardinalityType
  <2>. QED  BY <1>6, <2>1, <2>2
<1>. QED  BY <1>5, <1>6

LEMMA LinesNext == TypeOK /\ LinesInv /\ [Next]_vars => LinesInv'
<1>. SUFFICES ASSUME TypeOK, LinesInv, [Next]_vars PROVE LinesInv'
  OBVIOUS
<1>0. /\ Pieces \in Nat \ {0}
      /\ pc \in [Threads -> {"idle", "log", "make", "made", "write"}]
      /\ piece \in [Threads -> 0 .. Pieces - 1] /\ lines \in [Threads -> 0 .. MaxLines]
      /\ MaxLines \in Nat
  BY LoggerAssumption DEF TypeOK
<1>1. \A u \in Threads : Cardinality(Mine(u)) \in Nat
  BY FS_CardinalityType DEF LinesInv
<1>2. ASSUME UNCHANGED <<file, stray, piece>>,
             \A u \in Threads : lines'[u] \in Nat,
             \A u \in Threads :
               /\ pc'[u] # "write" => pc[u] # "write" \/ piece[u] = 0
               /\ Owing(u)' - Owing(u) = Pieces * lines'[u] - Pieces * lines[u]
      PROVE  LinesInv'
  <2>1. ASSUME NEW u \in Threads
        PROVE  /\ IsFiniteSet(Mine(u)') /\ (pc'[u] # "write" => piece'[u] = 0)
               /\ ~stray' => Cardinality(Mine(u)') + Owing(u)' = Pieces * lines'[u]
    <3>1. Mine(u)' = Mine(u)
      BY <1>2 DEF Mine
    <3>2. Owing(u) \in Int
      BY <1>0 DEF Owing
    <3>3. Owing(u)' \in Int
      <4>1. piece'[u] \in Int
        BY <1>0, <1>2
      <4>. QED  BY <1>0, <4>1 DEF Owing
    <3>4. Pieces * lines[u] \in Int
      <4>1. lines[u] \in Nat
        BY <1>0
      <4>. QED  BY <1>0, <4>1
    <3>5. stray' = stray => (~stray => Cardinality(Mine(u)) + Owing(u) = Pieces * lines[u])
      BY DEF LinesInv
    <3>6. IsFiniteSet(Mine(u)') /\ Cardinality(Mine(u)') = Cardinality(Mine(u))
      BY <3>1 DEF LinesInv
    <3>7. pc'[u] # "write" => piece'[u] = 0
      BY <1>2 DEF LinesInv
    <3>8. Owing(u)' - Owing(u) = Pieces * lines'[u] - Pieces * lines[u]
      BY <1>2
    <3>9. Pieces * lines'[u] \in Int
      BY <1>0, <1>2
    <3>. QED  BY <1>1, <1>2, <3>2, <3>3, <3>4, <3>5, <3>6, <3>7, <3>8, <3>9
  <2>. QED  BY <2>1 DEF LinesInv
<1>3. ASSUME NEW t \in Threads, Call(t) PROVE LinesInv'
  <2>1. /\ pc[t] = "idle" /\ pc' = [pc EXCEPT ![t] = "log"]
        /\ lines' = [lines EXCEPT ![t] = @ + 1] /\ UNCHANGED <<file, stray, piece>>
    BY <1>3 DEF Call, Goto, text
  <2>2. ASSUME NEW u \in Threads
        PROVE  /\ pc'[u] # "write" => pc[u] # "write" \/ piece[u] = 0
               /\ Owing(u)' - Owing(u) = Pieces * lines'[u] - Pieces * lines[u]
    <3>1. CASE u = t
      <4>1. pc'[u] = "log" /\ lines'[u] = lines[u] + 1 /\ lines[u] \in Nat
        BY <1>0, <2>1, <3>1
      <4>2. Pieces * (lines[u] + 1) = Pieces * lines[u] + Pieces /\ Pieces * lines[u] \in Int
        BY <1>0, <4>1
      <4>3. Owing(u)' = Pieces /\ Owing(u) = 0
        BY <2>1, <3>1, <4>1 DEF Owing
      <4>4. Owing(u)' - Owing(u) = Pieces * (lines[u] + 1) - Pieces * lines[u]
        BY <1>0, <4>2, <4>3
      <4>5. pc[u] # "write"
        BY <2>1, <3>1
      <4>. QED  BY <4>1, <4>4, <4>5
    <3>2. CASE u # t
      <4>1. pc'[u] = pc[u] /\ lines'[u] = lines[u] /\ piece'[u] = piece[u]
        BY <1>0, <2>1, <3>2
      <4>2. Owing(u)' = Owing(u)
        BY <4>1 DEF Owing
      <4>3. Owing(u) \in Int
        BY <1>0 DEF Owing
      <4>4. Pieces * lines[u] \in Int
        <5>1. lines[u] \in Nat
          BY <1>0
        <5>. QED  BY <1>0, <5>1
      <4>5. pc'[u] # "write" => pc[u] # "write"
        BY <4>1
      <4>. QED  BY <4>1, <4>2, <4>3, <4>4, <4>5
    <3>. QED  BY <3>1, <3>2
  <2>3. \A u \in Threads : lines'[u] \in Nat
    BY <1>0, <2>1
  <2>. QED  BY <1>2, <2>1, <2>2, <2>3
<1>4. ASSUME NEW t \in Threads, Make(t) \/ LogStream(t) \/ Made(t) \/ Reuse(t) PROVE LinesInv'
  <2>1. /\ pc[t] \in {"log", "make", "made"}
        /\ \E label \in {"make", "made", "write"} : pc' = [pc EXCEPT ![t] = label]
        /\ UNCHANGED <<file, stray, piece, lines>>
    BY <1>4 DEF Make, LogStream, Made, Reuse, Goto, text
  <2>2. piece[t] = 0
    BY <2>1 DEF LinesInv
  <2>3. ASSUME NEW u \in Threads
        PROVE  /\ pc'[u] # "write" => pc[u] # "write" \/ piece[u] = 0
               /\ Owing(u)' - Owing(u) = Pieces * lines'[u] - Pieces * lines[u]
    <3>1. Owing(u)' = Owing(u) /\ Owing(u) \in Int
      BY <1>0, <2>1, <2>2 DEF Owing
    <3>2. Pieces * lines[u] \in Int /\ lines'[u] = lines[u]
      <4>1. lines[u] \in Nat
        BY <1>0
      <4>. QED  BY <1>0, <2>1, <4>1
    <3>3. u = t \/ pc'[u] = pc[u]
      BY <1>0, <2>1
    <3>. QED  BY <2>2, <3>1, <3>2, <3>3
  <2>4. \A u \in Threads : lines'[u] \in Nat
    BY <1>0, <2>1
  <2>. QED  BY <1>2, <2>1, <2>3, <2>4
<1>5. ASSUME NEW t \in Threads, Insert(t) PROVE LinesInv'
  <2>1. /\ pc[t] = "write" /\ lines' = lines
        /\ piece' = [piece EXCEPT ![t] = (@ + 1) % Pieces]
        /\ pc' = [pc EXCEPT ![t] = IF piece'[t] = 0 THEN "idle" ELSE "write"]
        /\ stream = "open" =>
             file' = Append(file, [by |-> t, line |-> lines[t]]) /\ stray' = stray
        /\ stream # "open" => stray' /\ file' = file
    BY <1>5 DEF Insert, Goto, logger
  <2>2. /\ piece[t] \in Nat /\ piece[t] < Pieces
        /\ piece'[t] = IF piece[t] + 1 = Pieces THEN 0 ELSE piece[t] + 1
    <3>1. piece[t] \in Nat /\ piece[t] < Pieces /\ piece'[t] = (piece[t] + 1) % Pieces
      BY <1>0, <2>1
    <3>2. CASE piece[t] + 1 = Pieces
      <4>1. Pieces % Pieces = 0
        BY <1>0
      <4>. QED  BY <3>1, <3>2, <4>1
    <3>3. CASE piece[t] + 1 < Pieces
      BY <1>0, <3>1, <3>3
    <3>. QED  BY <1>0, <3>1, <3>2, <3>3
  <2>3. pc'[t] = (IF piece'[t] = 0 THEN "idle" ELSE "write")
    BY <1>0, <2>1
  <2>4. Owing(t) = Pieces - piece[t] /\ Owing(t)' = Pieces - piece[t] - 1
    BY <1>0, <2>1, <2>2, <2>3 DEF Owing
  <2>5. ASSUME NEW u \in Threads
        PROVE  /\ IsFiniteSet(Mine(u)') /\ (pc'[u] # "write" => piece'[u] = 0)
               /\ ~stray' => Cardinality(Mine(u)') + Owing(u)' = Pieces * lines'[u]
    <3>1. IsFiniteSet(Mine(u))
      BY DEF LinesInv
    <3>2. pc'[u] # "write" => piece'[u] = 0
      <4>1. CASE u = t
        BY <2>3, <4>1
      <4>2. CASE u # t
        <5>1. pc'[u] = pc[u] /\ piece'[u] = piece[u]
          BY <1>0, <2>1, <4>2
        <5>. QED  BY <5>1 DEF LinesInv
      <4>. QED  BY <4>1, <4>2
    <3>3. CASE stream # "open"
      <4>1. Mine(u)' = Mine(u) /\ stray'
        BY <2>1, <3>3 DEF Mine
      <4>. QED  BY <3>1, <3>2, <4>1
    <3>4. CASE stream = "open"
      <4>1. /\ IsFiniteSet(Mine(u)')
            /\ Cardinality(Mine(u)') = Cardinality(Mine(u)) + (IF u = t THEN 1 ELSE 0)
        BY <2>1, <3>1, <3>4, MineGrows
      <4>2. Owing(u)' = Owing(u) - (IF u = t THEN 1 ELSE 0) /\ Owing(u) \in Int
        <5>1. CASE u = t
          BY <1>0, <2>2, <2>4, <5>1
        <5>2. CASE u # t
          <6>1. pc'[u] = pc[u] /\ piece'[u] = piece[u]
            BY <1>0, <2>1, <5>2
          <6>2. Owing(u) \in Int
            BY <1>0 DEF Owing
          <6>3. Owing(u)' = Owing(u)
            BY <6>1 DEF Owing
          <6>. QED  BY <5>2, <6>2, <6>3
        <5>. QED  BY <5>1, <5>2
      <4>3. ~stray' => Cardinality(Mine(u)) + Owing(u) = Pieces * lines[u]
        BY <2>1, <3>4 DEF LinesInv
      <4>4. ~stray' => Cardinality(Mine(u)') + Owing(u)' = Cardinality(Mine(u)) + Owing(u)
        BY <1>1, <4>1, <4>2
      <4>. QED  BY <2>1, <3>2, <4>1, <4>3, <4>4
    <3>. QED  BY <3>3, <3>4
  <2>. QED  BY <2>5 DEF LinesInv
<1>6. CASE UNCHANGED <<file, stray, piece, pc, lines>>
  BY <1>6 DEF LinesInv, Mine, Owing
<1>7. CASE Construct \/ Spawn \/ Constructed \/ Exit \/ Destruction
  BY <1>6, <1>7 DEF Construct, Spawn, Constructed, Exit, Destruction, Close, Join, ReleaseStream,
                    StreamGone, Ends, text
<1>8. CASE UNCHANGED vars
  BY <1>6, <1>8 DEF vars, text
<1>. QED  BY <1>3, <1>4, <1>5, <1>7, <1>8 DEF Next, Log

(* With a static SpheroHandler every line any thread begins is complete in *)
(* the file when the process ends: no insertion goes astray, and the       *)
(* process does not end while a thread, the joined one included, is in a   *)
(* line.                                                                   *)
THEOREM LinesCorrect == Spec => []LinesComplete
<1>1. LogInv /\ LinesInv => LinesComplete
  <2>. SUFFICES ASSUME LogInv, LinesInv, program = "ended", kind = "handler", NEW t \in Threads
                PROVE  Cardinality({i \in DOMAIN file : file[i].by = t}) = Pieces * lines[t]
    BY DEF LinesComplete
  <2>1. ~stray
    BY DEF LogInv, HandlerLogsToOpenFile
  <2>2. io = "joined"
    BY DEF LogInv, Phases, Starting, Ending, Phase
  <2>3. pc[t] = "idle"
    BY <2>2 DEF LogInv, Places, Idle
  <2>4. Cardinality(Mine(t)) \in Nat
    BY FS_CardinalityType DEF LinesInv
  <2>5. Cardinality(Mine(t)) + 0 = Pieces * lines[t]
    BY <2>1, <2>3 DEF LinesInv, Owing
  <2>. QED  BY <2>4, <2>5 DEF Mine
<1>2. LogInv /\ LinesInv /\ [Next]_vars => LinesInv'
  BY LinesNext DEF LogInv
<1>. QED  BY <1>1, <1>2, LinesInit, LogInvHolds, PTL DEF Spec
=============================================================================
