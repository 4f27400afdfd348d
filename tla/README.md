# sphero-btconn in TLA+

A model of the Sphero C++ Bluetooth library: an RFCOMM connection with a thread
of its own, the packets of the robot, and the handler an application uses. The
modules are translated from `src/bluetoothconn`; TLC checks them on small
instances, and TLAPS proves some of the results for every instance.

## The system

| component | state | operations | modules |
|---|---|---|---|
| `BtConnection<MSGTYPE>` (`BtConnection.h`) | `connected_`, `shutdown_`, `socket_`, `messageQueue_`, `readQueue_` under `readQueueMutex`, `recv_buffer_`, `iothread_` | `connect`, `send`, `read`, `close`, `shutdown`, the destructor; the handlers `doSend`, `readAsync` and `readHandler` leave in `io_` | `BtConnection`, `Outbox`, `Inbox` |
| boost::asio and the RFCOMM socket | ready handlers, pending operations | `post`, `async_write`, `async_read_some`, `run` | external, inside `BtConnection` |
| commands (`SpheroPacketTypes.h`) | the fields and the vector of bytes of `SpheroClientCommand` | constructors, setters, `assemble`, `length`, `calculateChecksum` | `SpheroPacket`, `ClientCommand` |
| responses (`SpheroPacketTypes.h`) and framing (`readHandler`) | `recv_buffer_`, a record, the fields of `SpheroServerResponse` | `readHandler`, `parseFromInternalData`, `dataToNumerical` | `SpheroPacket`, `ResponseStream` |
| `SpheroHandler` | the loop of the constructor, `seqNum`, a `BtConnection` | constructor, `sendCommand`, `readResponse` | `SpheroHandler` over `Outbox`, `Inbox` |
| `SpheroCommand` and the ids (`SpheroCommands.h`) | two ids | `generateCommandMessage` | `SpheroCommands`, `SpheroSession` |
| inquiry (`BluetoothProto.h`) and search for a robot (`SpheroCommandTest.cpp`) | the list of items, a query set, a lookup handle | `bluetoothInquire`, `getSpheroBtAddr` | `Inquiry`, `SpheroSession` |
| `BtLogger` | a static instance, a static `fstream`, a counter of instances | `log`, `logStream`, `releaseStream` | `BtLogger` |
| unit tests (`src/BTUT`) | an application | the test methods | `PacketTest`, `SpheroSession` |

How they interact. The application's threads call `SpheroHandler`, which calls
`BtConnection`. `send()` posts a handler to `io_`; everything else about writing
(`messageQueue_`, `async_write`, its completion) happens on `iothread_`. Reading
goes the other way: `async_read_some` fills `recv_buffer_`, its handler copies
the buffer into a new record of `readQueue_` on `iothread_`, and `read()` polls
that queue from the application's thread. Before all this an application asks
Windows for devices and hands the handler a pointer to the address of one; every
thread logs to the one stream of `BtLogger`. `connected_` and `shutdown_` are plain
flags both sides read; the mutex covers the queue of records, but not the
`empty()` that `read()` polls.

What is hard. Two kinds of threads share flags and a queue, and one look at the
queue is unlocked; the buffers of pending operations belong to members that
handlers change; `close()` and the destructor race the handlers, `run()`
returning, and each other; the link may break at any moment, with reads and
writes pending; a thread may fail to start after the object says it is
connected; sequence numbers wrap, and `seqNum` has no lock; the length byte
wraps; the conversions of the data segment have ends; the link may split an
answer or join two; a static string and a static stream are shared by all
threads, and static objects are destroyed while the io thread runs. `PROJECT.json` lists each
hazard at its line, with the properties that watch it.

What makes each part correct:

* connection, writing: one `async_write` at a time, its buffer alive and at the
  front of the queue; messages go out in the order of `send()`, each at most
  once, and all of them while nothing breaks.
* connection, reading: one user of `recv_buffer_`; every chunk in one place, no
  record seen half-filled; what arrives reaches the queue.
* connection, life cycle: `close()` stops the thread, the destructor ends,
  nothing uses the members after it, and what is sent late is not sent, unless
  the socket is opened again.
* packets: the robot reads from a command the fields that were set; a response
  that is parsed is one that was sent; numbers that are whole in the data are read
  exactly.
* handler: a handler that is handed out is usable; numbers tell commands apart;
  a response answers the command; `readResponse()` returns.
* inquiry: the address that is connected to is that of a robot that was reported.
* logger: nobody writes to the stream when it is not open; no line is lost or torn
  at the exit of the process, and the exit does not hang.
* session: the robot reads the command that was asked, and the response to it has
  the data the application expects.

## Modules and how they follow the code

**`BtConnection`.** `pc[t]` is where an application thread stands inside a call;
every point where another thread can interfere is a step of its own:
`connect()` is `ConnectOpens` if the socket was closed, `ConnectSocket`,
`ConnectReads`, `ConnectSpawns`; `read()` is
`ReadBegin`, `ReadSees` (the unlocked look), `ReadLock`, `ReadPop`; `close()` is
`Close`, `ClosePosts`; the destructor is `Destroy`, `ClosePosts`, `Join`.
`ioq` holds the ready handlers of `io_` in order, `reads` and `writes` the
operations that were started and not completed, and `handling` the read handler
between its steps (`HandlerPush` locks and appends the blank record,
`HandlerCopy` fills it, arms the next read and unlocks). A completed operation
becomes a handler in `ioq`; `Run...` is one handler from its start to its end.
A `connect()` on a socket the io thread has closed opens it again (`reopened`) and
fails (`ConnectFails`), or connects it and goes on. `iothread_` is joinable then, and
the assignment in the last step ends the process (`ConnectTerminates`,
"terminated"). Between these steps the io thread runs: it may close the socket again,
or run a late handler of `send()`, which then writes on the new socket. What was
pending on the old socket can only fail (`cancelled`). If the new thread does not
start, `connect()` throws and `iothread_` stays what it was (`ConnectSpawns`). What a
second thread does in the moment before the assignment ends the process is left out.
`RunReturns` is `run()` returning for lack of work; a handler posted later is
never run. A message is the number of its `send()`, a chunk the number of its
arrival.

Where C++ gives no meaning (`back()` of an empty deque, `std::copy` with an end
before its beginning, for a chunk without `0xff`) `object` becomes "undefined"
and the model stops. Properties are about the states before that.

**`Outbox`, `Inbox`.** What the connection promises: `Outbox` says that messages
reach the link in the order of the calls, each at most once, and all of them
while nothing is broken; `Inbox` says that chunks become records in the order of
arrival, none left out, and that a read takes the newest. `BtConnection` is
shown to implement both (`SendsInOrder`, `SendsDelivered`, `ReadsNewest`), with
the record that is being filled left out of the mapping. They are also what
`SpheroHandler` is built on.

**`SpheroPacket`.** The layout of packets as operators, without state: what
`assemble()` appends, `length()`, the checksum, `parseFromInternalData()`, the
conversions. `dataToNumerical<T>` takes a type of one, two or four bytes, signed or
not. A byte has `Base` values. `IsCommand`, `Decoded` and
`ResponsePacket` are the robot's side, as the comment in `calculateChecksum()`
and the fields of a response describe it.

**`ClientCommand`.** One command object: setters change the fields, `assemble()`
appends to the bytes, and `Wire` is what `doSend()` would write now.

**`ResponseStream`.** From the robot's bytes through `recv_buffer_` and
`readHandler()` to a parsed response. `Noise` may precede an answer; a link keeps
answers whole, joins several into one chunk, or splits one over two chunks, of
which each becomes a record and is parsed (the TODO of `readHandler()`).

**`SpheroHandler`.** The constructor's loop (an attempt fails in
`socket_.connect`, or in `std::thread` after `connected_` is set; a socket that is
connected refuses a second connect), `sendCommand()` with the read, the load and
the store of `seqNum` as steps, and `readResponse()`. The application it is used
by sends `ahead` commands ahead of its reads, one if it alternates as in the
Readme, and reads once for each.

**`SpheroCommands`.** The ids, the commands that are pairs of them, the codes of
responses, and `generateCommandMessage()`. A text of `messageResponseToString()` is
represented by its code, since the seventeen texts are all different.

**`Inquiry`.** `Begin`, `Report`, `End` are the three calls of the lookup with what
the code does around them; any of them may fail (`BeginFails`, an early `End`).
The search runs an inquiry, looks for a name with "Sphero", and tries again. The
pointer it returns is an index into the list.

**`SpheroSession`.** The composition: `Inquiry`, then the constructor of
`SpheroHandler`, then its calls, with the bytes of `SpheroPacket` and
`SpheroCommands` in place of numbers. The application is that of
`SpheroCommandTest.cpp`, run by several threads: a test sends its command, reads a
response and asks for its text. `TextBegin`, `TextAssign`, `TextCopy` are
`messageResponseToString()` with its static string; calls that overlap may leave
or return a torn one. The robot (external) answers a command it can read, with as
many bytes as the tests expect or with an error.

**`PacketTest`.** The three tests of `SpheroPacketTest.cpp` as an assumption TLC
evaluates in the run `session`.

**`BtLogger`.** `log()` with the construction of its static instance (`Make`,
`LogStream`, `Made`; others wait in "log"), a line as several insertions, and
`exit()`, which destroys the static objects, the last made first. One of them
may be a `SpheroHandler`, complete after it has connected and logged, or a
`BtConnection`, complete before. Its destructor waits for the io thread.

Definitions called `Bug_...` are not part of any specification. Each is a
plausible mistake in the definition that follows it, kept to show that a
property notices it.

## The runs

| run | bounds | what it shows |
|---|---|---|
| `conn_safety` | 2 threads, 1 reader, 2 messages, 3 chunks of which the last has no marker, 1 pending close | the safety properties of the connection, that only its thread closes the socket, and that it implements `Outbox` and `Inbox` |
| `conn_live` | 2 threads, 2 messages, 1 chunk | the destructor ends, close stops the thread, also when `connect()` is called again, arrivals reach the queue, messages are delivered; what is sent once the connection is being closed is not, unless `connect()` opens the socket again |
| `command_wire` | bytes of 3 bits, 6 payloads, 2 `assemble()` | what is written is the packet of the first `assemble()` |
| `stream` | bytes of 3 bits, 4 answers, 3 of them sent, over a link that keeps them whole, joins them, or splits them at any byte | every whole answer is parsed, whatever came before it, and assembles to what was sent; every number that is whole in it is read, signed or not |
| `handler` | 1 caller, 6 attempts, 3 sequence numbers, 4 commands, up to 2 ahead, 1 unasked message | a returned handler is usable, the Readme's application gets its answer, every call ends |
| `handler_callers` | 2 callers, 1 attempt, 3 sequence numbers, 4 commands, up to 2 ahead | racing callers use no number before its turn; callers that do not overlap use no number twice within the range |
| `session` | 2 callers, 3 devices of which a lookup reports up to 2, 2 inquiries, 1 attempt, 2 commands out of the 5 of the tests, 2 codes | from the search to the text of a response: the address is a robot's, commands throw only without one, the tests pass, a text that no other call overlaps is the right one, the start ends |
| `logger` | main, the io thread and one more, 2 lines of 2 insertions each | a static handler never logs to a closed stream and its lines are complete, the exit ends |
| `claim_...` | | one disagreement of a comment and the code each, see below |

Why the bounds are enough. Two messages let one wait behind a write, or come late; three
chunks let one be read, one be copied and one be pending. Two threads give every
pair of calls, one of them the owner, in every order. A second close handler in
`ioq` would find the socket closed like the first. Three bits keep the byte
arithmetic (a marker that may be data, a sum that wraps, a length byte that wraps
at the longest data) and `recv_buffer_` is scaled with them. Four commands on
three sequence numbers wrap once. The attempts of the constructor in `handler` are
those of the code; `session`, which is about what passes through the handler, makes
one. It uses real bytes, and two commands are enough for the answer of one to be
taken for that of the other. Two reported devices let the second overwrite the
query set the first was reported in; two inquiries let the search repeat.

`CHECK_DEADLOCK FALSE` is in every cfg because every model may stop: the object
is destroyed or undefined, the constructor has thrown, the bounds are used up, the process ended, or
a reader waits on a connection that is gone.

Fairness. `FairSpec` of `BtConnection` is weakly fair to each thread that is
inside a call, to the io thread, and to the completion of operations that can
complete; the operating system schedules threads and finishes operations.
`lock_guard` needs no strong fairness here: whoever holds the mutex leaves it, and
the io thread needs it only for a bounded number of chunks. No call, and no event
of the link or device, is fair. `FairSpec` of `SpheroHandler` also assumes that
the link delivers and the robot answers, without which `readResponse()` has
nothing to return. `SpheroSession` assumes only that the lookup, the attempts and
the constructor take their steps. `BtLogger` is fair to threads inside `log()` and to
the destructors at exit, not to calls of `log()`.

Assumptions on the use of the library, all of them limits of the models:

* A call of `connect()` that fails in `socket_.connect` on an open socket changes
  nothing and is not an action of `BtConnection`; nor is one while the socket is
  connected, which fails in the same way.
* The destructor is called when no thread is inside a call; members are never
  used afterwards by the application.
* A message is not changed once it was given to `send()`, and its `length()`
  agrees with its bytes (`ClientCommand` shows when it does).
* Reads and writes of the `volatile bool` flags are atomic and seen by every
  thread, as on the platform the library is built for.
* A lookup reports a device once. At exit only the io thread still runs: the
  application has joined its own threads.
* An insertion into the stream is atomic; nothing is assumed of a line.

## Where comments and code disagree

| run | what the comment says | what the code does |
|---|---|---|
| `claim_active_connection` | `send`, `read` throw without an active connection | `connected_` is never reset, so they accept calls after the socket was closed |
| `claim_read_blocks` | `read()` blocks until data is available | of two readers one can pop an empty deque |
| `claim_accepted_data` | data shorter than 256 bytes is accepted | 255 bytes make a packet whose length byte is 0 |
| `claim_thread_safe` | `BtLogger` is thread-safe | every thread gets the same unlocked stream, and lines mix |

More that no run of its own shows:

* the "input queue" of `read()` is a stack (`ReadsNewest` says so exactly);
* `connected_` is set before the thread starts: when it does not start, `connect()`
  throws, a second one is refused by the connected socket, and `send()` takes messages
  nobody sends. `SpheroHandler` never hands out such a connection (`HandlerReady`);
* `connect()` after `close()` connects the socket and ends the process, since
  `iothread_` is joinable (`ClosedByThread` says that it does so only then);
* the Readme takes the response after a command for its answer, and
  `readResponse()` compares no number: with a message the robot sends unasked the
  application reads that instead (the condition of `ResponseMatches`);
* the notes of `dataToNumerical()` promise 0 at the last byte, and the last byte
  shifted at the one before; the code returns that byte shifted, as its test
  `packet6` expects, and both bytes. `NumbersRead` is about whole numbers only;
* `dataToString()` writes beyond its string for every `startIndex` above 0, where the
  comment speaks of the remaining contents. Nothing calls it;
* `length()` of a command follows its fields, not the "raw data size" `BtConnection`
  asks for, which is why `NoOverrun` needs its condition; that of a response
  counts the checksum twice (`6 + DLEN`, and `DLEN` has it already);
* a code `messageResponseToString()` does not know gets the text of the call before,
  and calls that overlap any text, which no comment excludes (the conditions of
  `TextOwn`);
* two threads in `sendCommand()` can send one number twice, and a late store to
  `seqNum` brings back numbers of earlier commands, which no comment excludes either
  (the condition of `NumbersDistinctInTurn`);
* `int_testGetBluetoothInfoCommand` prints index 32 of 33 bytes as a colour: that
  byte is the checksum (the condition in `TestsPass`);
* the data of `packet5` in `testNumericalDataUShort` are empty, so its "Waldo 1" is
  never looked at (`PacketTest`);
* a `SpheroClientCommand` constructed from an array has no `DLEN`, and `length()` is
  any number.

## What is proved

Every invariant and every property of steps that a passing run checks is also a
theorem of its specification, for every value of the constants. TLC had the
inductive invariants first, on the instances of the runs. What stays with TLC is
listed at the end.

The proofs use the assumptions the modules name. They say that the threads with
names of their own are told apart (`ThreadsAssumption`, `LoggerAssumption`), that
bounds are numbers (`BoundsAssumption`, `HandlerAssumption`), that a byte has at least
8 values (`BaseAssumption`) and inputs are bytes (`InputsAssumption`), and two things
more:

* `StreamAssumption`: the robot's answers fit their length byte, noise holds no
  marker, and `recv_buffer_` has room for the longest answer behind the longest
  noise. In the code it has 1024 bytes, and an answer at most 260.
* `SessionAssumption`: a byte has more than 100 values, so that ids, codes and the
  lengths the tests expect are bytes; the tests are among the five of
  `SpheroCommandTest.cpp`.

### The connection

`BtConnectionProofs`:

* `TypeCorrect`. `TypeInv` has three parts that different actions disturb (`CallsOK`,
  `FlagsOK`, `DataOK`). Beside the types it says that only the owner is ever inside
  `connect()` or the join, and only readers inside `read()`.
* `OneWriteCorrect`, from `WriteInv == TypeInv /\ OneWrite`. `OneWrite` is inductive
  only together with the types: the handler of a write pops the front, and that
  the rest is still a queue of messages comes from `TypeInv`. A write starts only
  in `RunSend` with the queue empty, when `OneWrite` rules out another write, or in
  `RunWritten`, whose handler was the only one and has just left `ioq`.
* `ClosedByThreadCorrect`, `NoUseAfterDestroyCorrect`, from `LifeInv`: there is no
  thread just until `connect()` comes to start it, so it is started once; only
  while it runs is a write pending or a record filled; a read is pending without
  it only before it starts or when it failed to start; and the object is destroyed
  only when the thread no longer runs. `ShutInv` says that the socket is closed, and
  opened again, only after shutdown, so that a second `connect()` arms no read.

The lemmas on handlers (`AppendHandler`, `TailHandler`, ...) say how `Ready(kind)`
changes when `ioq` grows at its end or loses its head.

`BtConnectionIoProofs` goes on from these:

* `QueueMovesCorrect`. `shutdown` is never reset (`ShutdownStays`), so only steps that
  find it FALSE matter; each of them that empties `writes` leaves a handler in
  `ioq`, and each that runs a "send" or "write" handler starts the next write.
* `SendsInOrderCorrect`: every step is a step of `Outbox` or none. `OrderInv` says
  that the messages popped, those in `messageQueue_` and those of the handlers
  waiting in `ioq` follow one another without a gap. The message on the link whose
  handler has not run yet counts as not popped.
* `LateSendsLostCorrect`. For a message `n` that is taken while a close handler is
  ready or the socket closed, `Doomed(n)` is inductive until the socket is opened
  again: `n` is not on the link, and the socket is closed, the link is lost, or a
  close handler stands before `n` in `ioq`. Once it was opened, `reopened` stays, and
  nothing more is claimed.
* `OneReadCorrect`. A read is armed by `connect()` and then only by the handler of
  the read before it. `OneRead` alone would not survive the step that arms the first
  one; `Unarmed` adds that until then nothing of a read is pending.
* `RecordsFilledCorrect`, `ChunksAccountedCorrect`, from `ChunkInv`. Who pops or copies
  holds the mutex, and the last record of the queue is blank only while it is
  copied (`LockInv`); the chunk that was last taken from the socket is the newest
  record or on its way to become it (`FlowInv`); every record that was delivered
  is in the queue or with one caller (`PlaceInv`).
* `ReadFindsDataCorrect`, for at most one reader, as in the run: it alone removes
  records, so what it saw without the lock is there when it has the lock. With two
  readers it is false (`claim_read_blocks`).
* `ReadsNewestCorrect`: every step is a step of `Inbox` or none. The blank record
  that is being filled is not one of the records (`Records`), so `HandlerPush`
  maps to a stutter and `HandlerCopy` to `Deliver`.

### The handler

`SpheroHandlerProofs`, for every number of callers, attempts, sequence numbers and
commands:

* `TypeCorrect`, and `ReadyCorrect` from `StageInv`: the thread does not run before
  "ready", and the constructor sleeps only after an attempt that was not the
  last, so the loop cannot fall through.
* `NotAheadCorrect`. A store may set `seqNum` back to an old value, so
  `seqNum <= accepted` alone is not inductive. `CountInv` says that `seqNum`, and every
  register on its way back to it, stays below `accepted` by the number of callers
  whose increment is pending. The run `handler_callers` has two callers.
* `DistinctInTurn`, for every number of callers. `Counted` says that command `i` carries
  `i - 1` cut to a byte, and where `seqNum` stands while one caller is in
  `sendCommand()`; it is inductive over steps before and after which at most one is
  (`OneSends`). `RemaindersDiffer` does the arithmetic. `DistinctCorrect`, for one
  caller, follows.
* `ResponseCorrect`, for one caller, as in the run. `InStep` says that while nothing
  was unasked each chunk is one answer, in order, and at most one command is ahead
  of the responses taken, so the only record there can be is the answer to the
  latest command.

### Packets

`SpheroPacketProofs` has the facts about the layout. The library's induction
theorem cannot be used here, but the well-foundedness of inclusion between finite
sets can: `Least` derives from it that every set of naturals has a least element,
and `Induction` that a set with 0 and all successors is all of them. With these the
sum of a checksum can be split (`SumOfAppend`, `SumOfConcat`), and
`AssembledIsCommand` follows: the robot reads from an assembled command the fields
that were set. `ResponseBytes` is the layout of an answer, `ReadIsLed` what
`dataToNumerical()` adds up.

* `ClientCommandProofs`: `TypeCorrect`; `NoOverrunCorrect` and `WireCorrect` from
  `Starting`, that the bytes begin with the packet of the first `assemble()`, whatever
  was appended.
* `ResponseStreamProofs`: `TypeCorrect`, `AllParsedCorrect`, `WholeChunksCorrect`, from
  `StreamInv`. A chunk that is marked as starting with an answer holds, behind bytes
  without a marker, the whole packet of that answer, on the link (`OnLink`) and in
  `recv_buffer_` (`InBuffer`), which is all zeros between two chunks; so the first
  marker is the answer's, and what was parsed is what was sent (`IsParsed`).
  `NumbersCorrect` compares the loop of `dataToNumerical()` with the sum of the bytes
  at their places, for the widths 1, 2 and 4 and both signs (`NumberIsRead`).

### The session and the logger

`SpheroSessionProofs`. Every step of a session is one of `SpheroHandler` or leaves it
alone (`SessionSteps`), so the invariants of `SpheroHandlerProofs` are used as they
are, through an instance of that module.

* `TypeCorrect`, `AddressCorrect`, `ThrowsCorrect`, `TextCorrect`, from `SessionInv`. The
  first robot in the list is the first one the lookup reported (`FirstsAgree`), and
  what the search found does not move once the handler is constructed; a handler
  with an address that is ready is connected (`Begun`); the robot's answers are
  bytes (`TalkInv`); of two calls inside `messageResponseToString()` both know that
  they overlap (`TextInv`).
* `TestsCorrect`, from `ResponseInv` on top of it: in a session a chunk is one
  answer, and a thread that is the only one to send is never more than one command
  ahead, so what it takes is the answer to its latest command (`InTurn`,
  `IsAnswered`); the robot knew that command (`RobotKnows`), and parsing gives back
  what it said (`ParsedAnswer`, `SameNumber`).

`BtLoggerProofs`: `TypeCorrect`, `HandlerLogsCorrect` and `LinesCorrect`. `Phases` lists the points the
process passes, each with the static objects there are in the order they were
made, and `Places` where the threads are in each. A static `SpheroHandler` is
complete after the logger, so the exit joins its thread before the stream goes.
`LinesInv` counts the insertions of each thread in the file: all of those of its
finished lines, and the ones done of the line it is writing.

### Only model-checked

* Liveness, which is beyond the prover: `DestructorTerminates`, `CloseStopsIo`,
  `ArrivalsReachQueue`, `SendsDelivered` (its safety part is `SendsInOrder`),
  `ConstructorEnds`, `ResponseArrives`, `ExitEnds`, `Starts`.
* `PacketTest`, which is a computation.
* The four `claim_...` runs, which are counterexamples.

## What is not modelled

* The bytes of a chunk without a marker: undefined in C++.
* `length()` and `dataToString()` of a response, commands constructed from an array:
  nothing in the library calls them.
* Exceptions thrown by `io_.run()` itself, by allocation, or by `socket_.close()`.
* `BluetoothProtoTest.cpp` (one call of the inquiry, and a mock without behaviour),
  build files, precompiled headers, the installed copies of the headers.

## Plan

1. Done: `BtConnection` with its abstract specifications, packets, commands, the
   stream of responses, the handler, the inquiry, the logger, and the session that
   composes them.
2. Done: proofs of all invariants and of the properties of steps, and of the safety
   parts of the refinements.
3. Next: what holds for more callers than the theorems with a condition speak of,
   such as which responses several callers can get; a proof that the connection
   `SpheroHandler` is built on may be the detailed `BtConnection`.
