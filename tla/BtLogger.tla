------------------------------ MODULE BtLogger ------------------------------
(***************************************************************************)
(* BtLogger (btconn/BtLogger.h, src/BtLogger.cpp): the log file all        *)
(* threads share, from the first line to the end of the process.  The      *)
(* logger and its stream are static objects, made when log() is first      *)
(* called and destroyed at exit, the last made first.  So may be the       *)
(* object that logs most: a SpheroHandler, which connects in its           *)
(* constructor, or a BtConnection, which is connected afterwards.          *)
(***************************************************************************)
EXTENDS Naturals, FiniteSets, SequencesExt

CONSTANTS
  Workers,   \* threads the application joins before it exits
  MaxLines,  \* bound: lines each thread logs
  Pieces     \* insertions that make one line

ASSUME LoggerAssumption ==
  /\ {"main", "io"} \cap Workers = {}
  /\ MaxLines \in Nat /\ Pieces \in Nat \ {0}

Threads == Workers \cup {"main", "io"}

VARIABLES
  kind,      \* what the static object is: handler or connection
  program,   \* where main() is
  statics,   \* the static objects that are made, in that order
  io,        \* the thread of the connection: none, running, stopping, joined
  instance,  \* _logger_instance: none, making, made, gone
  stream,    \* log_stream_: none, open, closed, gone
  counter,   \* counter_
  pc,        \* where each thread is in logging a line
  piece,     \* insertions of its line that are done
  lines,     \* lines it has begun
  file,      \* the insertions that reached the file
  stray      \* the stream was used when it was not open

object == <<kind, program, statics, io>>
logger == <<instance, stream, counter>>
text   == <<piece, file, stray>>
vars   == <<object, logger, pc, lines, text>>

Init ==
  /\ kind \in {"handler", "connection"}
  /\ program = "begin" /\ statics = <<>> /\ io = "none"
  /\ instance = "none" /\ stream = "none" /\ counter = 0
  /\ pc = [t \in Threads |-> "idle"] /\ piece = [t \in Threads |-> 0]
  /\ lines = [t \in Threads |-> 0] /\ file = <<>> /\ stray = FALSE

Goto(t, label) == pc' = [pc EXCEPT ![t] = label]

-----------------------------------------------------------------------------
(* log(): the first caller makes the instance, the others wait for it; a   *)
(* call after its end gets the reference all the same.                     *)

Runs(t) ==
  CASE t = "main" -> program \in {"connecting", "running"}
    [] t = "io"   -> io \in {"running", "stopping"}
    [] OTHER      -> program = "running"

Call(t) ==
  /\ Runs(t)
  /\ pc[t] = "idle" /\ lines[t] < MaxLines
  /\ lines' = [lines EXCEPT ![t] = @ + 1]
  /\ Goto(t, "log")
  /\ UNCHANGED <<object, logger, text>>

Make(t) ==
  /\ pc[t] = "log" /\ instance = "none"
  /\ instance' = "making"
  /\ Goto(t, "make")
  /\ UNCHANGED <<object, stream, counter, lines, text>>

LogStream(t) ==
  /\ pc[t] = "make"
  /\ stream' = "open"
  /\ counter' = counter + 1
  /\ statics' = Append(statics, "stream")
  /\ Goto(t, "made")
  /\ UNCHANGED <<kind, program, io, instance, lines, text>>

Made(t) ==
  /\ pc[t] = "made"
  /\ instance' = "made"
  /\ statics' = Append(statics, "logger")
  /\ Goto(t, "write")
  /\ UNCHANGED <<kind, program, io, stream, counter, lines, text>>

Reuse(t) ==
  /\ pc[t] = "log" /\ instance \in {"made", "gone"}
  /\ Goto(t, "write")
  /\ UNCHANGED <<object, logger, lines, text>>

(* log() << piece << ... << std::endl: an insertion locks the buffer of    *)
(* the stream, the line does not.                                          *)
Insert(t) ==
  /\ pc[t] = "write"
  /\ IF stream = "open"
     THEN /\ file' = Append(file, [by |-> t, line |-> lines[t]])
          /\ UNCHANGED stray
     ELSE /\ stray' = TRUE
          /\ UNCHANGED file
  /\ piece' = [piece EXCEPT ![t] = (@ + 1) % Pieces]
  /\ Goto(t, IF piece'[t] = 0 THEN "idle" ELSE "write")
  /\ UNCHANGED <<object, logger, lines>>

Log(t) == Make(t) \/ LogStream(t) \/ Made(t) \/ Reuse(t) \/ Insert(t)

-----------------------------------------------------------------------------
(* main(): it makes the object and runs until it exits.                    *)

Idle(t) == pc[t] = "idle"

(* The constructor of BtConnection logs nothing.                           *)
Construct ==
  /\ program = "begin"
  /\ statics' = IF kind = "connection" THEN <<"object">> ELSE <<>>
  /\ program' = "connecting"
  /\ UNCHANGED <<kind, io, logger, pc, lines, text>>

(* connect() has logged when it starts the thread (readAsync).             *)
Spawn ==
  /\ program = "connecting" /\ io = "none"
  /\ Idle("main") /\ lines["main"] > 0
  /\ io' = "running"
  /\ UNCHANGED <<kind, program, statics, logger, pc, lines, text>>

Bug_Constructed ==
  /\ program = "connecting" /\ io = "running" /\ Idle("main")
  /\ program' = "running"
  /\ statics' = IF kind = "handler" THEN <<"object">> \o statics ELSE statics
  /\ UNCHANGED <<kind, io, logger, pc, lines, text>>

(* A handler is complete when its constructor has connected.               *)
Constructed ==
  /\ program = "connecting" /\ io = "running" /\ Idle("main")
  /\ program' = "running"
  /\ statics' = IF kind = "handler" THEN Append(statics, "object") ELSE statics
  /\ UNCHANGED <<kind, io, logger, pc, lines, text>>

Exit ==
  /\ program = "running"
  /\ \A t \in Threads \ {"io"} : Idle(t)
  /\ program' = "exit"
  /\ UNCHANGED <<kind, statics, io, logger, pc, lines, text>>

-----------------------------------------------------------------------------
(* exit(): the static objects are destroyed, the last made first.          *)

Destroys(static) == program = "exit" /\ statics # <<>> /\ Last(statics) = static

Bug_Close ==
  /\ Destroys("object") /\ io = "running"
  /\ UNCHANGED vars

(* ~BtConnection: close() wakes the thread and join() waits for its end.   *)
Close ==
  /\ Destroys("object") /\ io = "running"
  /\ io' = "stopping"
  /\ UNCHANGED <<kind, program, statics, logger, pc, lines, text>>

(* As if the thread were detached.                                         *)
Bug_Join ==
  /\ Destroys("object") /\ io = "stopping"
  /\ io' = "joined"
  /\ statics' = Front(statics)
  /\ UNCHANGED <<kind, program, logger, pc, lines, text>>

Join ==
  /\ Destroys("object") /\ io = "stopping" /\ Idle("io")
  /\ io' = "joined"
  /\ statics' = Front(statics)
  /\ UNCHANGED <<kind, program, logger, pc, lines, text>>

Bug_ReleaseStream ==
  /\ Destroys("logger")
  /\ counter' = counter - 1
  /\ instance' = "gone"
  /\ stream' = IF counter' = 0 THEN "closed" ELSE stream
  /\ UNCHANGED <<object, pc, lines, text>>

ReleaseStream ==
  /\ Destroys("logger")
  /\ counter' = counter - 1
  /\ instance' = "gone"
  /\ stream' = IF counter' = 0 THEN "closed" ELSE stream
  /\ statics' = Front(statics)
  /\ UNCHANGED <<kind, program, io, pc, lines, text>>

StreamGone ==
  /\ Destroys("stream")
  /\ stream' = "gone"
  /\ statics' = Front(statics)
  /\ UNCHANGED <<kind, program, io, instance, counter, pc, lines, text>>

Ends ==
  /\ program = "exit" /\ statics = <<>>
  /\ program' = "ended"
  /\ UNCHANGED <<kind, statics, io, logger, pc, lines, text>>

Destruction == Close \/ Join \/ ReleaseStream \/ StreamGone \/ Ends

Next ==
  /\ program # "ended"
  /\ \/ \E t \in Threads : Call(t) \/ Log(t)
     \/ Construct \/ Spawn \/ Constructed \/ Exit \/ Destruction

Spec == Init /\ [][Next]_vars

(* Threads run; no call of log() and no exit is fair.                      *)
Fairness ==
  /\ \A t \in Threads : WF_vars(program # "ended" /\ Log(t))
  /\ WF_vars(Destruction)

FairSpec == Spec /\ Fairness

-----------------------------------------------------------------------------
(* Every variable has its type, and the counter counts one logger while    *)
(* there is one.                                                           *)
TypeOK ==
  /\ kind \in {"handler", "connection"}
  /\ program \in {"begin", "connecting", "running", "exit", "ended"}
  /\ statics \in Seq({"object", "stream", "logger"})
  /\ io \in {"none", "running", "stopping", "joined"}
  /\ instance \in {"none", "making", "made", "gone"}
  /\ stream \in {"none", "open", "closed", "gone"}
  /\ counter = (IF stream = "open" THEN 1 ELSE 0)
  /\ pc \in [Threads -> {"idle", "log", "make", "made", "write"}]
  /\ piece \in [Threads -> 0 .. Pieces - 1] /\ lines \in [Threads -> 0 .. MaxLines]
  /\ file \in Seq([by : Threads, line : 1 .. MaxLines]) /\ stray \in BOOLEAN

(* No thread logs to a stream that was not opened yet or is closed: the    *)
(* static SpheroHandler has joined its thread before the logger it made    *)
(* goes (SpheroHandler's constructor, ~BtConnection, BtLogger::log).  A    *)
(* static BtConnection outlives the logger.                                *)
HandlerLogsToOpenFile == stray => kind = "connection"

(* With a static SpheroHandler no line is lost or torn at the exit: every  *)
(* line a thread began, also one of the io thread that the exit overtakes, *)
(* has all its insertions in the file (~BtConnection's join,               *)
(* BtLogger::releaseStream).                                               *)
LinesComplete ==
  program = "ended" /\ kind = "handler" =>
    \A t \in Threads :
      Cardinality({i \in DOMAIN file : file[i].by = t}) = Pieces * lines[t]

(* The process ends: releaseStream() and the join come to an end, whatever *)
(* the threads log meanwhile.                                              *)
ExitEnds == program = "exit" ~> program = "ended"

-----------------------------------------------------------------------------
(* "This class provides a thread-safe logging interface": a line another   *)
(* thread broke into could not be told from two.                           *)
LinesWhole ==
  \A i, j, k \in DOMAIN file : i < j /\ j < k /\ file[i] = file[k] => file[j] = file[i]
=============================================================================
