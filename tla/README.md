# CameraController: a TLA+ model

CameraController is a daemon for a Raspberry Pi that drives one DSLR for time
lapses and astrophotography. A remote client connects over TCP, configures a
*function* (a sequencer or an intervalometer), starts and stops it, and reads the
log, which is what the daemon sends back. This directory holds TLA+ models of the
program in `src/src`, the TLC runs that check them on small instances, and TLAPS
proofs of what matters most. Paths below are relative to `src/src`.

## 1. Inventory

### Threads

| thread | code | what it does |
|---|---|---|
| main | `main.cpp:210-240` | sets things up, then logs "Heartbeat" for ever |
| receiving (command) thread | `TCPServer::fn_server` | accepts one client at a time, reads, decodes, **executes the command** |
| sending thread | `TCPServer::fn_sender` | takes chunks from the send buffer and writes them to the client |
| run thread | `start()` of a function, detached | executes `run()` |
| test task | `std::async` in `testCapture()` | executes `doTestCapture()`; its future is thrown away, so the command thread waits for it |

Two mutexes guard the logger (`mtx_streams`, `mtx_log`), one the send buffer
(`mtx_sender`). The camera and the function object have none: what keeps threads
apart there are atomic flags.

### Components

| component | state | operations | talks to | what makes it correct |
|---|---|---|---|---|
| command handling, `main.cpp` | `activeFunction`, `camera` | `onCommandReceived`, `connectCamera` | called by the decoder in the command thread; calls functions and camera | never deletes a function at work; every handler returns |
| camera functions, `functions/` | `num_shots`, `started`, `finished`, `testing`, `abort_cond`, `i`, statistics | `start`, `abort`, `run`, `testCapture`, `isOperating` | own thread; `camera.capture()`; `cv_run` | one capture at a time; a stop ends a run after at most one exposure; runs end for a reason; shots start at their interval |
| camera driver, `camera/CameraWrapper` | `camera`, `connected`, `serial` | `connect`, `disconnect`, `isResponsive`, `capture` (wired or BULB), `waitForCapture`, `downloadFile`, reading and setting of the camera's settings | libgphoto2, `RemoteTrigger`; called from two threads | no call on a freed camera; shutter closed between captures; success means a picture; exposures as long as asked for; nothing leaked |
| remote trigger, `utils/RemoteTrigger` | a pin | `trigger` | wiringPi | toggles the shutter |
| `TCPServer` | `send_buf`, `sck_client`, `client_connected` | `fn_server`, `fn_sender`, `sendData`, `receive` | sockets, decoder, loggers | lines in order, none twice; nobody blocked by a slow client; departures noticed |
| `CircularBuffer` | `buffer`, `head`, `tail`, `empty` | `put`, `get`, `currentSize` | `TCPServer` | a queue that drops its oldest bytes |
| `Logger`, `NetStream` | stream list | `log` | `MessageEncoder`, `TCPServer::sendData` | a line is handed on whole; `log` returns |
| `MessageEncoder`, `Message` | – | `sendLog` | `TCPServer` | sizes fit two bytes, the text is whole |
| `MessageDecoder` | `state`, `message`, `received_data` | `decode` | `MessageHandler` | messages complete, once, in order, however the stream is cut |
| `MessageHandler`, `JsonCommandDecoder` | the table of decoders | `handleMessage`, `decode` | `onCommandReceived` | the right command, or an error, for each message |

Hard behaviour: a detached thread that outlives its object; flags checked in one
thread and set in another; a condition variable notified without its mutex (in
`abort()` and in `fn_server()`); a socket read again after the mutex is given back;
RECONNECT freeing the camera under a run; calls of the camera that fail at any
point, or events of one exposure read by the next; a process that ends at any
moment (reboot, halt, SIGPIPE) while the camera stays as it is; a full send buffer; messages cut
anywhere; numbers of a JSON text cut to the width of a field; deadlines on a clock that is
set while one waits. `PROJECT.json` lists each hazard at its line.

## 2. Modules

| module | models | rests on |
|---|---|---|
| `Session` | *abstract*: what the remote user is promised: one job, one exposure at a time, a budget of exposures | |
| `FunctionControl` | command handling, function life cycle, run threads, test task, power | implements `Session` |
| `FunctionControlProofs` | the inductive invariant and the theorems about it | `FunctionControl` |
| `DropOldest` | *abstract*: a bounded queue that drops its oldest elements | |
| `CircularBuffer` | the array, its two indices and its flag | implements `DropOldest` |
| `CircularBufferProofs` | types and refinement | `CircularBuffer` |
| `TCPServer` | receiving thread, sending thread, logging threads, clients | instantiates `DropOldest` for the send buffer |
| `TCPServerProofs` | the order and loss of lines, missed wakeups and stray chunks, proved | `TCPServer` |
| `MessageEncoder` | framing, as operators | |
| `MessageDecoder` | the decoder's automaton, fed in chunks | `MessageEncoder` |
| `MessageDecoderProofs` | the inductive invariant of the automaton, what it delivers, and that texts are whole | `MessageDecoder` |
| `Commands` | JSON documents, what `get<>()` makes of their values, the table of decoders, as operators | |
| `MessageHandler` | from a message to what it sets: decoding, dispatch, the settings of the active function | `Commands`, instantiates `Session` for the functions |
| `MessageHandlerProofs` | its safety properties, proved | `MessageHandler` |
| `Timing` | deadlines of `Intervalometer::run()` and `remoteCapture()` in real time, on a clock that is set | |
| `TimingProofs` | the inductive invariant of the clock arithmetic | `Timing` |
| `CameraWrapper` | camera driver under a command thread and a run, with the camera behind it | |
| `CameraWrapperProofs` | the inductive invariant of the camera and the theorems about it | `CameraWrapper` |
| `CameraCalls` | reading and setting the camera, fetching a picture, call by call with every failure | |
| `CameraCallsProofs` | what is held at each call, how a list is read | `CameraCalls` |
| `MC...` | values of the constants for TLC | the module named after `MC` |

`PROJECT.json` maps every definition to its lines. Definitions with a comment that
begins with *Fault:* are not used by the models: each is a plausible mistake in the
definition that follows it, with which some property must fail.

### FunctionControl

`active` is `activeFunction`; the flags of a function object are functions of its
identity, `run[f]` is the program counter of its thread. `cmd` is the program
counter of the command thread, `purpose` remembers which command waits for
`connectCamera()`. `Setup` is `delete` and `new`; a freed identity can be used again
only when no thread refers to it. A run's step ends where another thread can
interfere: `RunContinues` evaluates the loop condition and increments `i`,
`CaptureBegins`/`CaptureSucceeds`/`CaptureFails` bracket `camera.capture()`,
`Recheck`, `FallAsleep`, `Timeout`, `SpuriousWakeup` are the wait of the
intervalometer with a window between its check of `abort_cond` and `wait_until()`, into
which `Abort` and `Notify` may fall. `Stop` reads the flags, `Abort` sets
`abort_cond`, `Notify` wakes only who sleeps. `late` counts exposures begun after
`abort_cond` was set, `exposures` those registered, `threw` whether a test capture has thrown;
all are history. `Killed` ends the process at any moment: the power, a signal, SIGPIPE or an
exception in a run. An exception in a test capture does not end it: it is kept in a future
nobody reads, and `testing` stays set (`TestCaptureThrows`).

### CircularBuffer and DropOldest

`Written` is the one or two `memcpy` of `put()`, `PushedTail` the case in which the
write passes the tail, `Read` the copies of `get()`. The refinement mapping reads
what is held from `tail` on. `put()` and `get()` are atomic, as `TCPServer` calls both
under `mtx_sender`. `lastop`, read by `print()` only, is left out.

### TCPServer

An element of the queue is a log line, numbered when it is put; a chunk is what
`fn_sender()` gets at once. `logger[t]` is where a thread is in `log()`: *holding* has
both of the logger's locks, *notifying* has put its line under `mtx_sender` and given
that back. `server` follows `fn_server()`, one step for each assignment of the flag
and each notification; its log lines go through the same `log()`. `sender` follows
`fn_sender()`: *sleepy* and *taking* hold `mtx_sender`. The socket is read in `Write`,
after `Take`. `BrokenPipe` is SIGPIPE, which ends the process.
`unread[c]` is what client `c` has sent and `read()` has not returned yet. It can still be read, and
its commands executed, after the client has closed the connection, unless a reset has thrown it away
(`Disconnect`); only then does `read()` report the end. `Receive` takes some of it, and the thread is
*executing* until `decode()` comes back: its commands log any number of times (`CommandLogs`), then it
returns (`DecodeReturns`), throws, which ends the process (`DecodeThrows`), or does neither.
`raised`, `mark`, `takenFor`, `stray` and `sent` are history.

### MessageEncoder and MessageDecoder

A step of the decoder is one iteration of its loop. The peer sends messages
(`Send`: what `Sendable` cuts from a text, or one without data) and any bytes outside of
messages (`SendNoise`); `Receive` hands over
any prefix of what is on the wire, up to the size of the receive buffer; `Leave` ends a
connection with bytes unread, and the decoder keeps its state, as it belongs to
the server. `MessagesFrom` is the reference: what a stream holds when it is read as one,
frame by frame and without a state, whoever sent which part of it. That a doubled `MAGIC_WORD_1` hides
a message, and that the rest of one client's message is taken from the next client's bytes, is part of this
reference: `StreamRead` pins both down, and would not report either as a mistake.

### Commands and MessageHandler

A document is looked at through five keys. `AsByte`, `AsInt` and `AsBool` give the set of
values `get<>()` may return: none if it throws, any if the conversion is undefined (a fraction
that does not fit). `decode` is the set of commands a document may become. In
`MessageHandler` a step handles a whole message. The functions behind the handler are
`Session`, which `FunctionControl` implements, so threads and flags are not repeated; `function`
holds what `new Sequencer` and `new Intervalometer` were given, in the order of their
arguments. `ParseThrows` is `json::parse()`, which is outside the decoder's try block.
A REBOOT or SHUTDOWN sleeps and calls `system()` in its handler: `power` is *ordered* until `system()`
returns, and no message is handled meanwhile; it is *called* from then on, messages are handled again, and the
system may end the process at any moment, or never, if `sudo` refuses (`OrderHalt`, `SystemReturns`, `SystemEnds`).
`culprit` is history: the message for which the process ends.

### Timing

`time` is real time in ticks, `offset` what `system_clock` is ahead of it, which `Leap`
changes. The run is a program counter through `run()`, `capture()` and `remoteCapture()`; `sleep_for()` and
`sleep_until()` last a span of real time, `wait_until()` lasts until the clock says so. A thread
that can go on does so within `Latency`, the camera answers within `Answer`. An iteration of the
checkpoint loop is `Check` (now is read and `remaining` computed), `StartSleep` a log line later, and
`Sleep`; some versions of `sleep_until()` look at the clock again and go on sleeping (`SleepAgain`).

### CameraWrapper

`handle` is the `Camera*` (null, live, or freed and not reset), `cmd` and `capturer`
are the program counters of the two threads that use it. `capture()` asks the mode,
and goes `wiredCapture()` or `remoteCapture()`; the latter opens and closes the shutter
by two pulses and waits for the event that reports the picture. Every libgphoto2
call may fail. The camera itself (`bulb`, `shutter`, `pictures`, `events`) survives
`Restart`. `interrupted` says whether the process was stopped between two triggers an odd number of
times, which turns open and closed round for all captures that follow; `left` counts the pictures and events
left over when a capture begins. Both are history. A test capture runs here like a run of one capture; that the command
thread waits for it takes interleavings away only, and is modelled in
FunctionControl.

### CameraCalls

`task` is the operation, `doing` the helper it is in, `pc` the call it makes next; each call has
an action for its success and one for its failure. `widget`, `stream` and `file` say what is held.
`copy` is the widget's copy of the camera's setting and choices, which the camera's user may
change meanwhile (`CameraChanges`). A text is the number `stoi()` finds in it, or none.

## 3. Runs

| run | instance | checks and shows |
|---|---|---|
| `control` | 2 functions, shots -1, 0, 2, fair | `SingleCapturer`, `DeletedOnlyAfterRun`, `OneLateExposure`, `RunAccounted`, `NoTestLeftOver`; `StopEndsRun`, `BoundedRunEnds`, `CommandsReturn`; `ImplementsSession` |
| `control_closing` | 2 functions | **violated**: `ClosingLineReadsLiveObject` |
| `control_finished` | 2 functions | **violated**: `FinishedMeansAllShotsTaken` |
| `buffer` | 3 bytes, puts and gets up to 4 | `ImplementsDropOldest` |
| `server` | main and the server's own logging; 2 clients, each with one unread part; buffer of 2 lines, fair | `WireOrder`, `LossOnlyWhenFull`, `AsleepOverOldLines`, `OneStrayChunk`; `LogReturns`, `DataMoves`, `DepartureNoticed` |
| `framing` | bytes of two values, receive buffer of 7, two messages, two stray bytes of any value | `Delivered`, `StreamRead`, `TextsWhole` |
| `commands` | documents for every command, an int of 3 bits | `CastsMatch`, `WellFormedObeyed`, `IllFormedRefused`, `HaltOnRequest`, `ConfiguredAtRest` |
| `timing` | two shots, checkpoint of 2, exposures -1 and 5, intervals -1, 3 and 6, one leap of -2 or 3, delays of 1 | `ExposureHeld`, `ExposureEnds`, `StartsApart`, `StartsPunctual` |
| `calls` | three menus, texts with BULB, a number, none, and empty | `NoneLeaked`, `ListKept` |
| `camera` | 3 unread pictures | `CallsOnLiveCamera`, `ShutterClosedBetween`, `SuccessMeansPicture` |
| `camera_wait` | 2 unread pictures, fair | **violated**: `WaitTimesOut` |
| `camera_responsive` | 2 unread pictures | **violated**: `ResponsiveMeansAnswered` |

### Bounds, and why they are enough

* *Functions*: an active function and one whose closing log line lingers. The proofs hold
  for any set of them. When all
  identities have a lingering line, `Setup` waits: a bound of the model.
* *Shots*: endless, none, and two, the least with an exposure that is neither the
  first nor the last. Counters saturate at `ShotCap`, the largest of them; only an
  endless run gets beyond, and no property compares its counters.
* *Size 3* makes buffers that wrap in each copy, are full, empty, overwritten in part
  and whole; inputs of 4 are truncated. The proof is for any size.
* *Two clients in turn* are what a stray chunk needs. Line numbers saturate at
  `LastSerial`: from there on lines are not told apart and the order properties say
  nothing of them, so the buffer can overflow within the lines that are.
* *One unread part for each client* (`MaxUnread`): read and executed while the client is there, after it has gone, or
  thrown away. More of them only repeat `Receive`. The proofs hold for any number.
* *Base 2*: every byte value is also a magic word, a type and a size, so data can
  imitate headers. `maxlen` is 3 and the text of 5 bytes is cut in two. Two stray bytes are an
  odd `MAGIC_WORD_1`, a doubled one, or half a header.
* *An int of three bits* makes numbers that fit, that are cut to a fitting one, and that are
  negative; a byte has its eight, so that ids are the program's. The proof is for any width.
* *Timing*: an exposure of two checkpoints and a rest, one below zero, an interval
  shorter than the exposure, one longer, one below zero; one leap each way. The proof is for any
  numbers and any number of leaps.
* *Calls*: a menu with its BULB first, one with a text that is no number in it, an empty one, and indexes
  on both sides of each.
* *Three pictures*: one the current capture waits for and two left over, one of which ends its wait. The
  proofs hold for any number.
* *The dial* (`TurnDial`) is left alone from the check for BULB to the second trigger and while the shutter is
  open. A user may turn it then as well; what the camera makes of a pulse on another setting is not in this code.

### Fairness

Threads of the program are scheduled (weak fairness on their steps).
`camera.capture()` is assumed to return in FunctionControl: the code does not ensure it (see
`camera_wait`), so `StopEndsRun`, `BoundedRunEnds` and `CommandsReturn` are about cameras
that report their pictures or an error. In TCPServer no command is assumed to return: a test capture may wait for
ever, and REBOOT, SHUTDOWN and RECONNECT sleep for seconds. `LogReturns` and `DataMoves` hold
regardless; `DepartureNoticed` says what is true: if the receiving thread always comes out of its commands (`CommandsEnd`),
it notices a departure, and without it a client that hangs in a test capture keeps every later one out. `wait_until()` has an absolute deadline, so it
times out however often it is woken early: strong fairness of `Timeout`. A mutex
that is free again and again is obtained in the end: strong fairness of `LockLog` and
`SendData`. `main()` logs for ever, which is what makes up for a missed wakeup. A libgphoto2
call returns. Clients, commands, the end of the process and `accept()` of a client
that does not come are never assumed to do anything.

## 4. Findings

1. `control_closing`: `run()` sets `finished` and then logs `num_shots` and `abort_cond` of
   its object (`functions/sequencer.cpp:115-117`, `functions/intervalometer.cpp:124-126`). In
   between a setup command may delete it, under the comment "If finished, delete
   old sequencer". TLC's trace: set up, start, run to its end, set `finished`, set up
   again, log. `DeletedOnlyAfterRun` is the part that does hold: nothing but that line is
   left.
2. `control_finished`: `isFinished()` is documented as "Checks if the camera has taken
   all the requested exposures" and is also true after an abort or a failed capture.
3. `camera_wait`: `waitForCapture()` has a timeout parameter, and goes on waiting after it.
   A picture that never comes keeps the run, and with it every later stop, waiting.
4. `camera_responsive`: `connect()` keeps an empty serial number, and `isResponsive()` then
   takes a camera that does not answer for the one it knows.

Some behaviours are modelled and narrow a property rather than break one. RECONNECT frees the camera
under a run: `pulled` excuses `CallsOnLiveCamera`, which therefore does not catch it. A test capture that
throws leaves `testing` set: `threw` excuses `NoTestLeftOver`. An event left by a failed wait is taken for the
next picture, and a process stopped in the middle of an exposure turns the shutter's parity round: `SuccessMeansPicture`
and `ShutterClosedBetween` say exactly how, which describes both and prevents neither. `HaltOnRequest` leaves out what
the deleted object of finding 1 may do.

Smaller disagreements, too small for a run: `communication/Message.h:13` allows a message of 2^16 bytes, whose size the two
bytes of the header cannot hold (65535 is the most; `sendLog()` is called with at most 2048);
`CameraWrapper::setExposureTime()` has no caller in the program and is modelled in `CameraCalls` for what it
promises.

## 5. Proofs

**`FunctionControlProofs`**, for every set of functions and every set of exposure
counts, from `FunctionAssumption` and `ShotAssumption`: `TypeCorrect`; `OneCapturer`,
`DeleteWaitsForRun`, `AbortIsPrompt`, `ExposuresAccounted`, `TestsEnd`, and
`SessionImplemented`. None of these is inductive. That two runs are never in
`capture()` follows because only the active function has a working thread
(`WorkingIsActive`); that this is kept by a setup command needs that a working thread
is visible as `started` and not `finished`; that it is kept by a start needs that what the
handler checked before `connectCamera()` still holds after it (`PurposeHolds`, which is
where one command thread matters); that a test excludes a run needs that its command is
blocked (`TestExcludesRun`). `LateOnce` adds that the loop condition is not passed again
after a late exposure, `Counted` how `i` and the statistics move together through the
loop, `Justified` the reason for which a loop was left. `IInv` is their conjunction:
`InvInit`, `InvStep` with a lemma for each group of actions, then `Invariance`. The
refinement uses `IInv` on both sides of a step: each action is a step of `Session` or leaves
its variables alone.

**`CircularBufferProofs`**, for every size and byte set: `TypeCorrect`, and
`QueueImplemented`: `put()` keeps the last `Size` bytes of what was held followed by the input
(`PutIndices` for where the indices end up, `PutBytes` for the slots, `PutHeld` for the
sequence), dropping the front of a long input is invisible (`TruncationInvisible`), `get()`
takes from the front.

**`CameraWrapperProofs`**, for any number of unread pictures: `TypeCorrect`, `CameraIsLive`,
`ShutterIsClosed`, `SuccessIsAPicture`. The invariant is the types with `Agreement`: what the
command thread knows of the handle at each of its points (`CommandKnows`); that beside a run
it is idle or asking for the serial number unless a RECONNECT has come (`RunHasCamera`); that
the shutter is open exactly while the run is between its triggers, or exactly while it is not once the parity
was turned (`ShutterFollows`, since each trigger only toggles); and how many pictures and events can be under way at
each point of a capture, against those `left` when it began (`PicturesFollow`).

**`TCPServerProofs`**, for any loggers, clients and sizes: `TypeCorrect`, `LinesInOrder`,
`LossNeedsFullBuffer`, `NoLineSleeps`, `StrayOnce`. The invariant orders what was written, what is in the
sender's hand and what is queued; says which of sender, server and loggers has `mtx_sender`; and says what
the sender may have missed while it was not asleep yet.

**`MessageHandlerProofs`**, for any documents and any width of an int: `TypeCorrect`, `CastsSafe`, `Obeyed`,
`IllFormed`, `HaltsOnRequest`, `SettingsSafe`. They rest on what each decoder may return (`Decoded` and the
lemmas before it) and on what the conversions do inside and outside of the width.

**`TimingProofs`**, for any intervals, exposures, delays, leaps and number of them: `ExposuresHold`,
`ExposuresEnd`, `ShotsApart`, `ShotsPunctual`. `FarEnough` says that a deadline is, in real time, as far as it should be but for
what the clock was set forth since the shot began; a clock set back only takes it further. `ExposureOnTime`
and `ShotOnTime` say how late each point of the run is reached on a clock nobody sets, point by point:
the number of checkpoints does not enter, as a sleep never goes beyond the end of the exposure by more than
the delay between the check of the clock and its start.

**`CameraCallsProofs`**, for any menus and indexes: `ReleasedOnce`, `ChoiceKept`, by `HeldHere` (the widget is held
exactly at the calls that use it), `Doing` (which helper makes which call) and `Listed` (what was listed begins
the list offered).

**`MessageDecoderProofs`**, for any number of byte values, any chunks, streams and texts:

* `TypeCorrect`, in which is that `received_data` never exceeds the size announced, by the arithmetic of two bytes
  (`SizeFits`, `SizeRead`).
* `ReadAsOne` and `AllDelivered`. Neither is inductive: in the midst of a chunk, or of a frame, they say nothing of
  what the automaton holds. `IInv` adds that its variables agree with the bytes received from `Begin` on, where its
  frame begins (`Framed`); that for *every* continuation of the bytes received, `MessagesFrom` is what was dispatched
  followed by what is found from `Begin` on (`SoFar`); and that the frames of the messages sent can be placed
  in the stream one after the other, those dispatched before `Begin`, the others not, with every
  `MAGIC_WORD_1` inside of one (`OnTheWay`). The last one fails after an odd `MAGIC_WORD_1`, which is why `Delivered` excludes it:
  the automaton drops the byte that follows without asking whether a frame begins with it. A step in a header either keeps `Begin` or leaves
  one or two bytes behind that begin no frame (`HeaderFramed`), which moves no message (`HeaderSoFar`, `HeaderPlaces`); the last byte of
  the data completes exactly the message that `MessagesFrom` finds, and the next one that was sent (`DataSoFar`, `DataPlaces`).
  At the end of a chunk the frame begun is one `MessagesFrom` does not count either (`ReadToEnd`); at the end of the stream it can
  only be one without data (`EndOfStream`).
* `TextsJoined`: the cuts of `sendLog()` are at growing positions (`PiecesEnough`), and pieces cut at growing positions are
  joined again (`PiecesJoined`).

They need induction over the length of a stream or of a text. The theorems of the library that state it take a predicate as
their parameter, which the provers cannot instantiate; `InductiveSet` takes a *set* instead, and follows
from the well-foundedness of the strict subsets of finite sets. With it, `ReadingReads` shows that the recursive function `Reading` satisfies
its equation at every position, and `FlattenJoins` the same of the fold in `FlattenSeq`.

TLC checked the parts of `IInv` on the instance of `framing` with one stray byte before they were proved, `SoFar` with continuations of up
to two bytes.

**Only model-checked**: the liveness properties (`StopEndsRun`, `BoundedRunEnds`,
`CommandsReturn`, `LogReturns`, `DataMoves`, `DepartureNoticed`): TLAPS does not reach fairness, which speaks of
`ENABLED`. Every invariant and every action property of a passing run is proved.

## 6. Not modelled

* libgphoto2, wiringPi and nlohmann json are third-party. Their effects are external actions of the module
  that uses them; of json only the conversions `get<>()` are modelled. `nlohmann/json.hpp` and the vendored headers of
  libgphoto2 and wiringPi are most of the lines in `src/`, declarations and a parser that say nothing of this program: the
  share of all lines the models cover stays small though nearly all of the program's own logic is in them.
* What `gp_file_free()` does to the descriptor that `fclose()` has closed before it, and who frees the data of
  an event of `waitForCapture()`, are decided in libgphoto2.
* The statistics of the intervalometer, which are written and never read; formatting, time stamps, the
  log file and the list of streams of the logger; failures in `TCPServer::start()` before there are threads;
  `print()` and `print_buffer()`.
* The pulses of `trigger()`: a call of it toggles the shutter.
* An overflow of `int` in `exposureTimeFromString()`: no exposure of a camera comes near.
* The execution of a run's thread on a camera a RECONNECT has freed: undefined in libgphoto2.

## 7. Plan

The life cycle of functions came first, as it is where a camera is damaged or a night is lost; then the
buffer and the server, the camera, the decoder, commands, timing and the calls. What is left:

* `FunctionControl` with `CameraWrapper` in place of its interval of `capture()`: what the wait without an end does
  to a stop, and RECONNECT to a run.
* The list of streams of `Logger` and the cutting of long lines by `NetStreamBuf`.

Run a model with `tlc -config MCTCPServer.cfg MCTCPServer`, check a proof with
`tlapm CircularBufferProofs.tla`.
