# libiqrf: TLA+ models, model checking and proofs

libiqrf connects an application to an IQRF transceiver module (TR) over a
serial line or TCP. This directory models the parts of it that hold state
between calls: access control and the listening loop shared by all connectors,
the UART framing and transport, the TR's power and bus lines, the reconnecting
TCP client, the GPIO lines themselves, and the example programs that use all
this from start to end. Paths below are relative to the repository root; the
public headers are in `include/iqrf`, the implementation in `src`.

## 1. Inventory

| Component | State | Operations | What is hard |
|---|---|---|---|
| **Access control and loop** `connector/IConnector.h` | three handlers, a recursive mutex `guard`, the atomic `listening`, the `std::thread` | `registerResponseHandler`, `unregisterResponseHandler`, `send(data, token)`, `listen`, `stopListen`, `isListening`, `hasExclusiveAccess`, `listeningLoop` | clients, the loop and handlers interleave; handlers run with the guard held and call back; exceptions end the loop; `listen`/`stopListen` take no lock |
| **HDLC codec** `connector/uart/HdlcFrame` | the decoder: data, `decoding`, `escape`, `crc` | `encode`, `decode`, `decodeByte`, `getData` | escapes, CRC values that need one, exceptions that leave a half-decoded frame |
| **UART transport** `connector/uart/UartConnector` | the port | `send`, `receive` | message borders are inferred from 100 ms of silence; partial writes |
| **UART life cycle**, **bus switch** `UartConnector`, `BusSwitcher.h` | GPIO levels | constructor, `resetTr`, destructor; `init`, `toggle*` | any GPIO operation may throw, in constructors and destructors too; resets interleave |
| **TCP connector** `connector/tcp/TcpConnector` | socket, timer, `io_context`, the flag `connecting`, the data under way | `receive`, `send`, `connect`, `disconnect`, `reconnect` | a timer races the operation it limits; outages; two threads share the `io_context`; data read when a deadline expires |
| **GPIO facade and drivers** `gpio/Gpio*`, `Gpiod*` | a shared driver object, its line request, direction, value | construction, copies, destruction, `initInput/Output`, `setDirection`, `setValue`, the mock's `setInputValue` | copies share one request; other processes compete for the line; initialisation in several steps; four platforms |
| **GPIO map and resolver** `gpio/GpioMap`, `GpioResolver` | the map of pin numbers, built once | `GetResolver`, `resolveGpioPin` | chips that fail, come and go; the order of the directory |
| **GPIO configuration** `gpio/Config` | a line by offset, by name or by pin | construction, formatting | each driver reads another part of it |
| **Logging** `log/Logging` | `Logger::log`, an object of static storage duration, and the message of each `Logger` | construction, `stream`, the destructor that writes | threads log while the program ends |
| **Examples** `examples/` | static connector or `Gpio` objects | `main`, signal handlers, `gpioCleanup` | a signal meets the program anywhere; `exit()` destroys objects that threads use |
| **Utilities** `connector/ConnectorUtils.h` | none | formatting | none |

*Interaction.* `UartConnector` and `TcpConnector` derive from `IConnector`,
which calls their `send(data)` with the guard held and their `receive()`
without it. The loop calls the application's handlers with the guard held;
these call the connector again on the same thread, hence the recursive mutex.
The application's threads and the loop share the connector's transport: the
serial port or the TCP socket. `UartConnector` owns a `BusSwitcher` and the
GPIO lines of its configuration. Everybody writes on the one `Logger::log`. The
examples keep their connector in a static object, which the signal handler or
`exit()` destroys.

*What makes each part correct.* Access control: transmissions and handlers exclude
each other, an exclusive client shuts out the others, a handler is never called
after it was unregistered, nothing waits for ever. Codec: what is decoded is what
was encoded, or an exception. Transport: messages arrive whole, in order, at most
once, if the sender leaves the receiver's loop time for each. Life cycle: the bus
is enabled only with power and switched off at the end whatever throws. TCP: a
connection is regained after every outage that shows, and data arrive in order,
once. GPIO: a line is held as long as a copy of its `Gpio` exists and no longer; a
pin number means the same line on every start. Programs: the connector outlives
its loop, the log all who write on it, an LED that can be turned off is, and a
program told to end ends.

## 2. Modules and how they correspond to the code

| Module | Models |
|---|---|
| `IConnector` | `IConnector.h`: threads with program counters; a step is atomic if the code holds the guard, split where another thread can look between |
| `ConnectorMonitor` | abstract: a monitor of transmissions and handlers, no threads and no locks |
| `IConnector_proofs` | theorems about the two |
| `MCIConnector` | instances: which client registers for what |
| `HdlcFrame` | the codec as operators, over real bytes and the real CRC |
| `MCHdlcFrame` | every message over a small alphabet |
| `HdlcFrame_proofs`, `MCHdlcFrame_proofs` | theorems about the operators, and about the run's specification for any alphabet and length |
| `UartLink` | `send()` and `receive()` joined by a serial line, over `HdlcFrame` |
| `MessageChannel` | abstract: a FIFO channel of messages that may lose the unreliable ones |
| `UartTiming` | the clock on top of `UartLink`: the sender's pauses, the receiver's time out, the loop's sleep and handlers |
| `MCUartLink`, `UartLink_proofs` | payloads, and the line with or without the clock; theorems about both |
| `BusSwitcher` | the switch's calls as sequences of GPIO operations |
| `UartConnector`, `MCUartConnector`, `UartConnector_proofs` | constructor, `resetTr`, destructor, one GPIO operation at a time, on top of `BusSwitcher` |
| `TcpConnector`, `MCTcpConnector`, `TcpConnector_proofs` | the asynchronous operations, their handlers and timers, as steps of one or two threads, and the data received |
| `ByteStream` | abstract: a stream that delivers in order, once, and may lose portions |
| `GpioResolver` | `getGpioMap()` over the chips of the host, and the resolver singleton |
| `Gpio` | `Gpio` and its four drivers, on top of `GpioResolver` |
| `Leds`, `MCGpio`, `Leds_proofs` | the LED example as a user of `Gpio`; on other hosts the objects are used in any way |
| `Application`, `MCApplication`, `Application_proofs` | the TCP and the UART example, their signal handlers, the connectors' destructors and the log, on top of `IConnector` |

**IConnector.** `handler` is the three `ResponseHandler` members (the client whose
handler is registered); `tokens` the access types of the tokens a client has been
given; `owner`/`depth` the recursive mutex; `listening` and `listeningThread` the
members of these names (`None`: not joinable). `pc` says where a thread is:
`register`, `unregister`, `send` wait for the guard; `xmit` transmits under it;
`direct` is in the public `send(data)`; `flag`, `spawn`, `assign` are inside
`listen()`; `join`, `joining` inside `stopListen()`; `head`, `receive`,
`dispatch`, `callback`, `hold`, `catch`, `exited` are the loop's. A handler's
calls are the same actions performed by the loop's thread (`Home`, `Self`).
`stopped` is a history variable: whether the application called `stopListen()`
since its last `listen()`. A token remains usable after it was passed to
`unregisterResponseHandler`: `AccessToken` has a default move, which leaves the
access type behind. `hasExclusiveAccess()` and `isListening()` change no state and
appear as expressions. `stopListen()` joins whatever `listeningThread` holds
(`StopJoins`, with the loop in `arg` until `Joined`); only in that loop's own
thread does `join()` throw. While another thread is joining, a further joiner may
wait too or get an exception, both of which undefined behaviour allows.
`receive()` (`Receive`) may take for ever: no fairness is assumed of it.

**UartLink.** A frame is written unit by unit (a data byte with its escape is
one) and a unit is read before the next: the decoder sees the same bytes
however far it lags, so this loses no behaviour. A *window* is a call of
`receive()`; it ends at any time between two frames. `ReadTimesOutEarly` is a pause
inside a frame, `WriteCutShort` a write that times out with fewer bytes written,
which `send()` takes for a success. `FramesMeet` is the opening flag of a frame that
arrives while the `HdlcFrame` still holds the frame before: the receiver's window has
not ended. The far end uses the same framing.

**UartTiming** says when windows end. Ticks are 50 ms. The sender leaves `pause`
ticks between two transmissions; what it sends waits in the port's buffer
(`queue`). `quiet` is how long `sp_blocking_read` has waited: it starts anew with
each byte, noise included, and returns after 2 ticks (`MessageEnds`,
`NothingCame`). Then the loop is `away` from `receive()`: it runs handlers for up
to `Handling` ticks if there was a message, and sleeps one tick. What the buffer
holds when it comes back is read at once, into one `HdlcFrame`. Bytes and frames
take no time, and no fault happens.

**UartConnector.** A call is the sequence `todo` of its GPIO operations;
executing one may throw (`OperationFails`, and `OperationRefused` for a line
that was never initialised). In the constructor that destroys `busSwitcher`
and nothing else, because `~UartConnector` does not run; in a destructor it is
`std::terminate`. The same machine runs a `BusSwitcher` used alone, as in
`BusSwitcherTest`.

**TcpConnector.** A timer that expired and an operation that completed have queued
their handlers; queued handlers run in either order, and cancelling does not
recall them. `run()` returns when the `io_context` has no work left, whichever
thread's it was. `restart()` while another thread is inside `run()` violates
Asio's contract; the model lets such a `run()` go on until no work is left.
Handlers orphaned by an exception that leaves `run()` do nothing here; in the code
they hold references to dead locals. A connection that is lost is `broken`, and
the next read or write reports it, or `silent` (no FIN, no RST, and no keep-alive
is set): then a read ends at its deadline, and only something sent reveals the
loss (`SendUnanswered`). `shared`, chosen in `Init`, says whether a thread beside
the listening loop sends; the properties that need a connector of one's own name
it. The server writes numbered segments: `inFlight` until a read takes some of
them into the `buffer`, `returned` when `receive()` returns them. A write that
succeeds changes no state here, so `send()` is the step that fails or goes
unanswered.

**Gpio.** `object[o]` is a driver object, `copies` the `Gpio`s that share it
(the use count of `impl`; a move changes nothing, an assignment is a copy and an
end). `holder` is the kernel's record of who has requested a line, `todo` what an
initialisation has left to do: with libgpiod 1 it releases, requests and sets
the value; on FreeBSD it sets the direction, then the value; with libgpiod 2
and in the mock it is one step. There is one operator per driver and operation
(`GpiodV1Opens`, `FreeBsdSetValue`, ...), and the platform is chosen in `Init`. A
configuration names its line by chip and offset, by chip and name, or by a pin
number that the resolver looks up in its map of that moment.

**Leds.** `led` is `greenLed` and `redLed`, `current` the one at which `main()` or
`gpioCleanup()` is, `Usable` a line on which the driver's calls may succeed. An
exception anywhere in `main()` leads to its catch clause (`Caught`, `cleanup`), a
signal to the handler (`SignalHandler`, `handler`) once that is `installed`, also
amid a cleanup, which then does not go on; before that a signal kills the program
wherever it is, amid an initialisation too (`Killed`). A cleanup throws on a line
that was never requested and whenever a driver fails (`CleanupThrows`), and leaves
the next LED as it is. An exception that leaves a signal handler is undefined: it
ends the program or meets the catch clause of the interrupted `main()`. When the
process ends without `exit()` the kernel takes its lines back (`Vanishes`), but a
FreeBSD line stays as it is.

**Application.** `kind` is the program and `build` how it is linked with the
library, both chosen in `Init`. `program` is where `main()` is: in the connector
its steps are those of `IConnector`'s thread `main`, then come the destructor
(`stopListen()`, then the members, of which a joinable `std::thread` ends the
program) and `exit()`. `signal` records which thread took the signal and where
`main()` was. `writing` holds the threads that have a `Logger` whose message is
not yet written; such a thread does nothing else meanwhile. `held` says that a
`receive()` under way does not return: the TCP server does not answer, and whoever
finds that out stays in `connect()`, or bytes keep coming to the UART. That is all of
the transports that this module needs.

## 3. Runs

`tlc -config <cfg> <module>`; every passing run explores its instance
completely.

| Run | Instance | Shows |
|---|---|---|
| `guard` | 2 clients both wanting exclusive access, 2 loops, one controller that stops before it listens again, handlers that send and stop, all faults, empty handlers | handlers stay registered while they run; the normal handler never runs during exclusive access; one loop at most, joined by one thread at a time, handlers included; no `std::terminate`; the connector implements `ConnectorMonitor` |
| `races` | both clients control the loop in any order, send directly, and handlers make every call | the guard is consistent, mutual exclusion, no normal send during exclusive access, even so |
| `liveness` | fair; handlers make every call but `listen` | `isListening()` is true to its word, no call waits for the guard for ever, and if `receive()` returns each time the loop stops and so does the call that joins it; the monitor with its fairness is implemented |
| `listen_again` | as `guard`, without the discipline | **violation**: the program is terminated (section 6) |
| `codec` | all messages of up to 3 bytes over 5 | a one-byte error changes the CRC; frames decode to their message or are rejected |
| `codec_round_trip` | the same | **violation**: not every frame decodes |
| `link` | 3 messages; without a clock (`clocked` false, chosen in `Init`) windows that end at any time between frames, up to 2 faults; with it pauses of 0, 150 or 200 ms, handlers of up to 50 ms, any noise, and fairness | without faults a FIFO channel that loses a message only when the next one meets it in the same window, and the receiver never throws; with faults losses only: nothing invented, repeated or reordered; with pauses of 200 ms (time out, sleep and handling) every message arrives, with 150 ms, more than the time out, not every one; `receive()` returns again and again if every pause is over 100 ms; the vectors of `HdlcFrameTest.cpp` (`TestVectors` in `MCUartLink`) |
| `tcp` | the loop alone with 2 segments of data, or beside a sender with 1; 2 outages, fair | alone: the connection is there between calls and comes back, unless the last one was lost in silence; with both: `connecting` is never left set, no deadlock, and the data implement `ByteStream`, lost only with a connection or to a deadline |
| `tcp_lost` | the same, 1 outage, no data | **violation**: a closed socket that no thread reconnects |
| `uart` | all 64 sets of configured lines and both flags, a stand-alone switch over all its 16, 2 threads, up to 2 failures | buses off at the end, bus only with power, power between calls, one bus at a time |
| `gpio` | 3 lines of 2 chips named 2 and 10, any of them absent or failing, 2 objects, 2 copies of each, another process, 4 platforms, with and without the LED program | with libgpiod 2 the map is in numerical order (in `TypeOK`); a line is taken only for an object that drives it, and kept until its last copy ends; no LED is driven when its program was ended by an exception or a handled signal, nor one that a failed cleanup had reached |
| `application` | both programs, both builds, 2 times that `receive()` stops returning, a signal in either thread, receive errors, a thread that cannot start, fair | the connector is destroyed after its loop; the log is there for whoever writes on it; the program ends, if `receive()` returns at last each time |

*Bounds and why they are enough.* `Clients` = 2: each rule relates two clients,
the holder and the contender. `Loops` = 2: the second is the one that must not
exist. `MaxLen` = 3 over the flag, the escape, their toggled images and 0: every
branch of encoder and decoder, and messages whose CRC is a flag. `MaxMessages` =
3: a lost message between two that arrive. `MaxFaults` = 2: a damaged frame whose
repair is damaged. The payloads of `MCUartLink` have CRCs that need no escape (the
codec's bug is a run of its own), and no part of them that a cut write can leave
ends in its own CRC (`MCUartLinkAssumption`): an 8-bit CRC cannot exclude such a
coincidence, and no protocol on it could. The pauses are none, the longest that is
not enough, and the shortest that is; a longer `Handling` only moves the border,
which the theorem gives for all values. `MaxOutages` = 2 (`tcp`): an outage during
the recovery from an outage; in `tcp_lost` one is enough. `MaxSegments` = 2: read
together or one by one; with a sender 1, which shows what that thread does to a
read. `Latency` = 8 s: the first two time limits of `connect()` are too short.
`MaxFailures` = 2: one that starts an unwinding, one in it. `Chips` 2 and 10 sort
differently by name and by number; the first has two lines, so that a chip can be
split. `MaxCopies` = 2: one ends while one stays. `application`: one client, as in
the programs, and `MaxOutages` = 2: `receive()` hangs before and after the program
is told to end. One signal: a second one during the shutdown is not modelled.

*Deadlock.* `races` may stop (the program was terminated, or `Loops` are used
up), as may the bounded sequences of `codec`, `link` and the end of life in
`uart` and of the programs in `application`; there it is not checked. It is
checked in `guard`, `liveness`, `tcp` and `gpio`.

*Fairness.* `IConnector`: the operating system runs every thread and handlers
return (weak fairness of `Sending`, `Control` and `Running`, but not of a loop in
`receive()`, which on the UART goes on while bytes come less than 100 ms apart,
and on TCP while the server is away; what needs it to return says so,
`ReceiveReturns`); a thread that waits for the mutex gets it at some time although
it is taken again and again (strong fairness of `Waiting` and `Handing`; the loop
sleeps 50 ms *with* the guard held, so the guard is free only briefly, and a mutex
without this property may starve clients). `Handling` is strongly fair: a handler
that makes calls of its own comes to an end. No fairness is assumed of the
application's calls.
`UartTiming`: time passes, and the loop does what is due before the next tick.
`TcpConnector`: timers expire or what they limit completes, every outage ends
(`ServerReturns`), and a `run()` that repeatedly has no work left returns.
`Application`: `main()` and the loop run (strong fairness, because a message that
a thread begins disables its other steps for a while, again and again) and
messages end; a signal, an outage or a message need not come, and a `receive()`
that hangs need not return (`Ends` is about behaviours in which it is not held for
ever).

## 4. Proofs

`tlapm <module>_proofs.tla` checks them. Each theorem holds for every value of
the constants that satisfies the named `ASSUME`s, which TLC evaluates on every
run; what a theorem needs beyond them stands in its own `ASSUME`. The
assumptions say that identifiers are distinct and parameters have their types;
`ApplicationAssumption` says that the programs have one client, which uses normal
access and controls the one loop.

Every safety invariant and action property of section 3 is a theorem, and so is
every refinement without its fairness. Almost none is inductive by itself. The
proofs of one component share an inductive invariant (`Consistent` or the like),
checked by TLC on the run's instance before it was proved; one lemma per group of
actions shows that it is kept, `StepConsistent` puts them together, and the
theorems follow.

**IConnector** (any clients, loops, `Uses`, faults and handler calls).
* `TypeCorrectness`, `GuardCorrectness` (`TypeOK`, `GuardIsConsistent`). That a
  loop's unlock leaves the guard free needs to know how often the thread locked it, and
  that follows from its program counter only if callbacks and labels agree
  (`CallbackTypes`); so they are inductive only together (`Consistent`).
* `MutualExclusionHolds`: two threads that hold the guard would both be its owner.
* `NormalSendCorrectness` (`NormalSendExcludesExclusive`): while a normal send
  is on its way its thread owns the guard, so no other thread registers; its own
  thread is not at a registration.
* `HandlerCorrectness` and `NormalHandlerCorrectness`, assuming `QuietHandlers`
  (handlers neither register nor unregister): the handler that runs is
  registered, and no normal handler runs during exclusive access.
* `SerialControlCorrectness`, assuming `Orderly` (the application stops the loop
  before it listens again; handlers do not listen): in a behaviour in which one
  client at a time is in `listen()` or `stopListen()` (`OneInControl`; a lock of
  the application would see to it), there is at most one loop, it is
  joined by one thread at a time and stays in the member meanwhile (`OneJoiner`), and
  `std::terminate` is never called. Handlers may call `stopListen()` all the same: the
  loop that runs them is the only one, so they throw. `LoopCorrectness`,
  `JoinCorrectness` and `TerminationCorrectness` are the case of a
  single such client, where `OneInControl` need not be assumed (`OneController`).
  `listen_again` shows that `Orderly` is needed.
* `ListeningCorrectness` (`ListeningIsTrue`), assuming that the system never
  refuses a thread (section 6 says what happens otherwise): whatever controllers
  there are, a set flag means a loop that runs.
* `ConnectorImplementsMonitor`, assuming `AllGuarded` (nobody calls the public
  `send(data)`): `Spec => MonitorSpec`. The refinement maps program counters at
  `xmit` to the transmission under way and callbacks to the handler that runs;
  each action maps to one of the monitor or to a stutter.

**TcpConnector** (any threads, latency, outages and segments).
* `TypeCorrectness` needs `OnlyListenerReads`: the buffer has segments only while
  the loop's read is under way.
* `FlagCorrectness` (`FlagHasOwner`): every way out of `connect()` clears the
  flag or leaves it to a thread that is still in there.
* `ConnectionCorrectness` (`ReadyBetweenCalls`) follows from `Alone`, the
  invariant of a connector that one thread has to itself: what socket, operation
  and timer are at each label, in particular that an attempt to connect which
  succeeded has left a connection unless its timer came first. It needs
  `FlagHasOwner`: a thread that finds `connecting` set would have set it itself.
* `ConnectorImplementsStream`: `Spec => StreamSpec`. What was `returned`, then
  the `buffer`, then `inFlight` is in order and without repetition; each step
  delivers a portion, loses one, or maps to a stutter.

**UartConnector** with **BusSwitcher** (any threads and failures, every
configuration). The
invariant relates `todo` to the levels: a call is a sequence of operations, and
what matters of the rest of one is which classes of operations still occur and in
which order (`Some`, `Only`, `Apart`, `Followed`, `Preceded`, each kept by `Tail`
and distributed over `\o`). Its parts, each for one theorem: `BusesGoOff` (in a
destructor or an unwinding every enabled bus has its switching off ahead) for
`ShutdownCorrectness`; `PowerComesFirst` for `PowerUpCorrectness`; `PowerComes`
(if power is off, some call has it ahead, and no call cuts it without a return of
it) for `ResetCorrectness`; `LinesAreInitialised` and `FailuresAreCounted` for
`TerminationCorrectness`; `OneBus` for `SwitchCorrectness`. `WorkIsConfined`
(threads other than the owner touch the power line alone) serves them all.

**Gpio and Leds** (any chips, lines, objects, copies, platforms).
* `ResolverNumbersLines`: `getGpioMap()` gives each line of each chip that can be
  opened one pin, gives none to another line, and with libgpiod 2 counts in the
  order of the chips' numbers. The invariant of its loop over the directory
  (`MapOfFirst`) says this of the chips read so far; `OrderOfChips`, that sorting
  the directory names each chip once, needs that there are finitely many.
  `TypeCorrectness` (`TypeOK`) follows.
* `HolderCorrectness` (`HeldLinesAreDriven`), `LineCorrectness`
  (`LinesAreKept`), from `LinesConsistent`. `OwnLineOnly` says once what a step
  of one object may change; each call is an instance of it. `PendingTypes`, what
  an initialisation may have left to do on which platform, is the strengthening:
  without it libgpiod 1 might set a line that it does not hold.
* `ProgramUsesLines` (`LedsSpec => Spec`): the program does nothing with the lines
  that a program may not do, so the theorems above hold in it.
* `CleanupCorrectness` (`LedsAreSafe`) from `LedsConsistent`: the LEDs are the
  only objects, the green one comes first, and what has been cleaned up is dark.
  It holds however exceptions, handled signals and failing drivers interrupt each other;
  a killed program is exempt (section 6).

**HdlcFrame** (messages of bytes of any length).
* `OneByteErrorsChangeCrc`: two messages that differ in one byte have different
  CRCs. Each step of the computation is injective: exclusive or is, bit by bit,
  and a shift that drops a one sets the top bit, which a shift that drops a zero
  leaves clear.
* `FramesDecodeOrAreRejected`: `decode()` of `encode()` is the message if its CRC is
  neither flag nor escape, and throws if it is. The invariant of the decoder's
  loop: after the units of the first bytes it holds these bytes and their CRC.
* `AlteredFramesAreRejected`: a frame with one byte that is not the one its CRC was
  computed from is rejected.
* `OneByteErrorsDetectedAlways`, `DecodesOrRejectsAlways`: so the run's two invariants
  hold for every alphabet and length.

These are inductions over data. The library's induction theorems take an operator
as parameter, which the provers cannot instantiate; the proofs use sets instead
(`NatSetInduction`: a set that has 0 and with n also n + 1 has every number, from
`WFMin`), and `LoopExists` and `LoopUnique`, which say what a recursive function
over 0..n is.

**UartLink** over **HdlcFrame** (any payloads, messages, faults). The invariant
names nine *situations* that sender and receiver can be in together (`Opening`,
`Unit`, `EscapedByte`, ...); each says what the wire holds and how much of the
message a receiver inside the frame has. `AreOfFirst` says that what was received
are some of the first messages, each once and in order.
* `DeliveryCorrectness` (`NothingInvented`) and `TypeCorrectness` assume
  `PlainCrcs` (no payload's CRC needs an escape; `FramesDecodeOrAreRejected` says
  that the others are always rejected) and `PartsAreNoFrames` (no cut-off part of
  a message ends in its own CRC). The second is necessary: such a part is received
  as a message, whatever the protocol does.
* `SurvivalCorrectness` (`ReceiverSurvives`) and `LinkImplementsChannel` (`Spec
  => ChannelSpec`) need `PlainCrcs` alone: they speak of the time until the first
  fault, when nothing is cut short (`UntilFault`). The second says that a message is
  lost only where frames meet, whenever windows end.
* `TimedLinkImplementsChannel` (`TimedSpec => TimedChannelSpec`) and
  `TimedTypeCorrectness`: that frames do not meet if the pauses cover the time
  out, the sleep and the longest handling, for any such times. The invariant
  (`InTime`) follows one message through the clock: it waits for a loop that will
  be back before the next is sent, is read, or is in a window that ends before
  that.

**Application** (both programs and builds, any faults and number of outages).
`AppConsistent` says which call `main()` is in at each place of the program, and
that the member `listeningThread` holds the loop from its start to its join, but
for the moment between start and store (`LoopIsHeld`); everything about the loop
is claimed only if no signal hit that moment (`ListenInterrupted`).
* `ConnectorCorrectness` (`ConnectorOutlivesItsLoop`): a destructor that ends has
  found the member empty (`LoopIsJoined`), so there is no loop.
* `LogCorrectness` (`LogOutlivesItsUsers`): where the log goes last
  (`LogGoesLast`), it goes when nobody is left who writes (`NobodyLogs`).
* `AbortCorrectness`: outside that moment only a signal taken by the loop's own
  thread aborts the program.

*Model-checked only.* Liveness (`CallsReturn`, `LoopStops`, `Recovers`,
`MessagesArrive`, `ReceiveEnds`, `Ends`) and the refinement
of the monitor's fairness (`MonitorFairSpec`): out of the prover's reach.

## 5. Not modelled

* *GPIO*: the mock's callbacks, which may call back into the object; the level of
  a line that nobody holds; a mock beside real lines; `GetResolver(map)`, a second
  singleton for tests; `dump()`; errors that change nothing.
* *Connectors*: programming mode and `readTrInfo`, which throw "Not implemented".
  Two sends on the wire at once through the public `send(data)`; the serial port's
  handle, which leaks if the constructor throws after finding it. Delays matter
  only through what they order.
* *Programs*: in the connector examples, a second signal while the first is
  handled and one before the handlers are installed, which kills the process; in
  the LED example, a signal while `exit()` destroys the objects; what a handler
  does that POSIX does not allow in one (locks, output); the button and dump
  examples, whose only state is a counter; the adapter to Boost.Log.
* *Logging and utilities*: levels, formatting, output. Each is a pure function of
  its arguments, and unit tests reach it.

## 6. Disagreements with documentation and tests

1. `IConnector.h:245`: after an exception has ended the loop `listening` is
   false but `listeningThread` is joinable. The next `listen()`, documented as
   "Start the listening loop in a separate thread", assigns to it:
   `std::terminate`. Calling `stopListen()` first avoids it
   (`LoopCorrectness`).
2. `HdlcFrame.cpp:96`: a CRC equal to 0x7D or 0x7E is toggled without an escape
   byte before it, so the receiver rejects the frame (every such frame:
   `FramesDecodeOrAreRejected`); `HdlcFrameTest.cpp:64-68`
   expects encoded frames to decode.
3. `TcpConnector.cpp:107` (`tcp_lost`): `reconnect()`, which "will attempt to
   reconnect if the connection is lost" (`TcpConnector.h:150`), does nothing if
   another thread's `connect()` has its connection already and only has to clear
   `connecting`. The socket that this `reconnect()` has just closed stays closed;
   the loop's next `receive()` throws "Socket is not open", and a `send()` reports
   an error each time.

Observations without a property:

* TCP. `connect()`, documented to throw "if connection fails"
  (`TcpConnector.h:139`), retries instead: the constructor, a `send()` and, through
  `stopListen()`, the destructor wait as long as the server is away. After
  `receive()` in one thread, a failed `send()` in another closes the socket and the
  loop ends with "Socket is not open" (`ReceiveThrows`).
  A connection that is lost in silence is never noticed by `receive()`, which returns
  nothing every second (`TcpConnector.cpp:71-73`); a connector that only listens
  does not recover (`Recovers` exempts it).
* Loop. `stopListen()` and the destructor wait for a `receive()` that is under
  way; the UART's goes on while bytes come less than 100 ms apart
  (`UartConnector.cpp:133`) and does not look at `listening`. If the `std::thread`
  constructor throws, `listening` stays set; a message without a normal or
  exclusive handler ends the loop, sniffer or not.
* UART. The destructor cuts the power before it disables the bus; an
  initialisation that fails before `busSwitcher.init()` makes `~BusSwitcher`
  throw, hence `std::terminate` (`TerminationCorrectness` of `UartConnector_proofs` confines it to this);
  two frames within one window lose the first, and a sender's pause of 100 ms, or
  of 150, does not keep them apart: the loop reads them together if it was asleep
  or in a handler when the first came (`link` with the clock).
* GPIO. A second `initOutput()` works with libgpiod 1, which releases the line first
  and may lose it to another process (`LinesAreKept` exempts this step), and throws
  with libgpiod 2, whose old request still holds the line (`GpiodV2Init`);
  `initOutput(true)` drives the line low for a moment except with libgpiod 2; with
  libgpiod 2 `setValue()` before an initialisation dereferences a null pointer; the
  FreeBSD driver never reads `line_name`, so a named line is line 0
  (`GpioFreeBsd.cpp:24`, `FreeBsdOpens`).
* Programs. A signal in the loop's own thread makes the handler join that thread:
  `std::terminate`; one within `listen()` before the thread is stored leaves a
  loop that nobody joins, with the connector gone (`ListenInterrupted`).
  `Logger::log` (`Logging.cpp:21`) and the program's connector are static objects
  of two translation units: linked statically, their order of destruction is
  unspecified, and a loop or a destructor may log on a log that is gone
  (`LogOutlivesItsUsers` says when it may not). `gpioCleanup()` after a failed
  initialisation throws out of the catch clause (`examples/gpio/leds/main.cpp:40`,
  `:144`): the line is released, but by `std::terminate` (`CleanupThrows`); an
  error of the green LED's driver there leaves the red one driven until the
  process is gone, and on FreeBSD after it. A signal after an `initOutput()` and
  before the handlers are installed (l.130) kills the program without
  `gpioCleanup()`, which is "called on exit to ensure that the GPIO pins are set
  to a safe state" (l.36): on FreeBSD the line stays an output (`Killed`;
  `LedsAreSafe` exempts it).

## 7. Plan

Order of work, the most important behaviour first: (1) `IConnector` with its
monitor, checked and proved: done. (2) Codec and UART link against
`MessageChannel`: checked and proved. (3) TCP and the GPIO life cycle:
checked and proved. (4) GPIO lines and the resolver: checked and proved.
(5) TCP data against `ByteStream`, the programs on top of `IConnector` and `Gpio`:
checked and proved. Next:

* *Prove*: what of `ReadyBetweenCalls` remains with two threads.
* *Model*: `UartConnector` on the lines of `Gpio` instead of its `level`; the
  mock's callbacks; `resetTr` during a transmission.
