# A TLA+ model of CarPi

CarPi is a daemon for a Raspberry Pi in a car. It asks a GPS module over a
serial port where it is and logs the answers. This directory holds TLA+ modules
that model the daemon, the asynchronous serial port underneath it (in both of
its builds), and the two libraries kept beside it, one for OBD adapters and one
for the pins and buses of the board; the TLC configurations that check them on
small instances; and theorems about them with proofs for TLAPS. Paths below are
those of the repository.

## The system

| Part | Source | State it keeps | Operations |
| --- | --- | --- | --- |
| `AsyncSerial`, `CallbackAsyncSerial` | `src/serial/AsyncSerial.{h,cpp}` | open and error flags, callback, `writeQueue`, `writeBuffer`, the port, the `io_service`, the background thread | `open`, `close`, `write`, `writeString`, the destructor, `setCallback`, `clearCallback`; on the background thread `doRead`, `readEnd`, `doWrite`, `writeEnd`, `doClose` |
| `GPSLogger` | `src/gps_logger.{h,cpp}` | the text not yet logged, the device, the log source | `recievedDataCallback` (on the background thread), `startPolling` (on the main thread), `setDevice` |
| `CarPi` and `main` | `src/carpi.{h,cpp}`, `src/main.cpp` | `doRun`, the sinks, the signal handlers | daemonizing, `CarPi()`, `run`, `signalHandler` |
| log sinks | `src/carpi.cpp`, `src/log.h` | three file sinks | `init_logging`, `stop_logging` (called by nobody) |
| `libObd2` | `src/obd2/` | the port handle, the last error | `openPort`, `initPort`, the requests, `monitorModeReadLine`, a C interface; not linked into `carpid` |
| `AsyncSerial` on Mac OS X | `src/serial/AsyncSerial.cpp:279-523` | the same flags, a descriptor | the same interface over a thread that reads in a loop |
| `arduPi` | `src/serial/arduPi.{h,cpp}` | the registers of the bus controllers, `i2c_bytes_to_read`, a thread id for each pin | I2C (`write`, `read`, `read_rs`, `requestFrom`, `analogRead`), interrupts (`attachInterrupt`, `detachInterrupt`, `threadFunction`), SPI, serial and GPIO access; third-party, used by nobody here |
| `ODB2Logger` | `src/odb2_logger.{h,cpp}` | - | empty |

`main()` constructs `CarPi` and calls `run()`, which opens the port, sets
`GPSLogger::recievedDataCallback` (bound to a copy of the logger) as its
callback, writes five queries with a sleep after each, and clears the callback.
The main thread calls `write` and posts handlers; the background thread of the
port runs them in `io_service::run`, reads, writes and calls the callback.
Signals are handled by setting `doRun`. The flags `open` and `callback` are
shared by the two threads without a lock, `error` and `writeQueue` with one.

What is hard here: the hand-over of data between writers and the background
thread; errors that are found by one thread while the other opens, closes or
destroys the object; handlers that outlive the session they were posted in; a
callback that is replaced while it is called; answers that reads cut anywhere;
replies that come after a request has given up; a bus controller that works on
while the caller polls it; threads that are cancelled and not joined.
`PROJECT.json` lists each of these hazards at its line with the properties that
would catch it going wrong.

## The modules

| Module | What it is |
| --- | --- |
| `SerialChannel` | the abstract specification: what class `AsyncSerial` promises to a user who writes |
| `AsyncSerial` | the class, its thread and the reactor, as actions |
| `MCAsyncSerial` | two writers and two payloads, for TLC |
| `AsyncSerial_proofs` | theorems about `AsyncSerial` |
| `Filter` | taking characters out of a string; one operator, used by `GPSLogger` and `ObdReplies` |
| `Filter_proofs` | induction, recursive functions and what `Filter` computes |
| `GPSLogger` | `recievedDataCallback` over a stream of bytes |
| `GPSLogger_proofs` | theorems about `GPSLogger` |
| `CarPi` | `main()`, `run()`, `startPolling` and the signals, extending `AsyncSerial` |
| `MCCarPi` | one writer and one query, for TLC |
| `CarPi_proofs` | theorems about `CarPi` |
| `LibObd2` | requests to an ELM327, `initPort` and the reading of lines |
| `ObdDecode` | what is made of the bytes of a reply: "NO DATA", pairs of digits, the caller's buffer; operators, no state |
| `ObdReplies` | a request from the bytes that the device writes to those that the caller gets, with the reads, the prompt and `m_lastError` |
| `LibObd2_proofs` | theorems about `LibObd2` and `ObdReplies` |
| `MCAnswers` | `GPSLogger` and `ObdReplies` for TLC, in one run because TLC need not be started twice for two small decoders that share no variable; each runs while the other stands still |
| `AppleSerial` | `AsyncSerial` as it is built on Mac OS X |
| `AppleSerial_proofs` | theorems about `AppleSerial` |
| `BusPi` | the I2C transfers of `arduPi` and the controller they drive |
| `BusPi_proofs` | theorems about `BusPi` |
| `InterruptPi` | the interrupt threads of `arduPi` |
| `InterruptPi_proofs` | theorems about `InterruptPi` |

### AsyncSerial

Each member of `AsyncSerialImpl` is a variable; `ioq` is the queue of handlers
posted to the `io_service`, `readPending` and `writePending` are the operations
the reactor waits for. `bg`, `own` and `wpc` say where the background thread, the
owner and the writers are. The owner is the thread that opens, closes and
destroys the object and sets its callback; the class does not protect these
calls from each other, so there is one.

A call that shares state with another thread is split where the other thread
can come in: `open()` into `CallOpen`, `OpenDevice` (up to the start of the
thread), `OpenClearError` and `OpenPublish`; `close()` into the clearing of the
flag, `ClosePost` and `CloseJoin`; `write()` into the insertion under the mutex
and the posting after it; `readEnd` into the test of the callback or of
`isOpen()` and what it does after it. What runs under one lock, or
touches only what one thread uses, is one step. An open object that is opened
again, and one that is destroyed, go through the same actions of `close()`, with
what becomes of its exception told apart by `call`. So is the constructor that
opens (`CallNew`): an exception out of it unwinds and destroys `pimpl`
(`Destroy`), so that the port closes, while one out of `open()` leaves the object
and, when it comes from `set_option` or the thread's constructor, an open port.

The data race on `callback` is undefined in C++. It is modelled by what a build
of `boost::function` can do: while it is assigned (`"torn"`) a reader may find it
empty or not, calling an empty one throws out of `io_service::run` and ends the
process, and a functor that is replaced or cleared while it runs is destroyed
under the call, which may or may not survive that. `open` is a `bool` that is
read and written whole.

boost::asio is not in the repository and is modelled from how the code uses it
(marked external in the map): `run()` takes the handlers in order, returns when it is stopped or
has neither handlers nor operations left, and is then stopped until `reset()`;
`cancel` completes the pending operations with an error and fails on a closed
port; an operation on a closed port completes at once with an error; a write of
nothing completes at once. A write is given to the device piece by piece.
Bytes are abstracted: an element of `Data` is what one `write()` hands over, and
what is read has no value here (`GPSLogger` has it).

### GPSLogger

A byte is one of `O`, `K`, `CR`, `LF` and any other; the device sends whatever
it likes and one read hands over any piece of it. The arithmetic of `size_t`
matters and is kept: `find` returns `npos` when there is no "OK", and `npos + 2`
is 1 modulo `SizeMod`. `stream` is a history variable.

### CarPi

`CarPi` extends `AsyncSerial`: the main thread is the owner and the one writer of
the shield, and each of its actions either is a call of `AsyncSerial` or leaves
the object alone. `Killed` is a signal that no handler catches, `Sigterm` one
that `signalHandler` does: it clears `doRun`, which nothing reads, in the model as
in the code. When the constructor of the shield throws, the shield and its port
are gone (`RunCatches`). What ends the process at any point (`exit`, a failed
fork, an exception out of the constructor) ends the system.

### LibObd2

One caller at a time uses the object; `pc` says where it is, so that what the
device sends and the time that passes come in between `write`, `usleep` and each
`read`. A reply is a text and a prompt, and the device numbers what it sends: 2n
is the prompt of the n-th command. `emitted` and `taken` are then all there is to
know of the input buffer, and a read takes any piece of it. `handle`
says whether a read of an empty line returns. With the settings of `openPort`
(`VMIN` 0, `VTIME` 100) it returns 0 after ten seconds (`"timing"`): a step
without data, after which the time is looked at as after any other. With a
descriptor from `setPortHandle`, or when `tcsetattr` has failed, which `openPort`
does not check, it may wait for ever (`"waiting"`), and no timeout is looked at:
`TimedReturns` is stated of the others. A timeout is a flag, `late`, that a request finds
set or not. A request that fails to write goes on, as in the code.
`strspn("NODATA", reply)` is 6 when the reply holds each letter of that word
somewhere, in any order, which is why any reply with a text may be taken for "no
data". `skipped` is a history variable. The reply's bytes are the subject of
`ObdDecode` and `ObdReplies`.

### ObdDecode and ObdReplies

A character is its code. In `ObdDecode`, `NoData` is the test for a refusal,
`Decode` the loop of `sendObdRequest` and `byteArrayToByte` the arithmetic of two
characters, with its reduction to eight bits. The functions of the C interface
return what they write into the caller's array.

`ObdReplies` follows one request after the other: the call (`Ask`) through any of
the three interfaces, each read (`ReadChunk`), which may bring any piece of what
is left and in which the prompt is found, the errors (`ReadFails`), and what
the call returns (`Return`). `m_lastError` stays from request to request.
What the device writes is the other direction (`Reply`): bytes as pairs of
figures in either case, a figure that stands alone with a blank behind it, one
that nothing follows at all, blanks in between, or "NO DATA". What it can say,
between which blanks, and the sizes of the caller's buffers are constants. That
each request finds its own reply and no other on the line is assumed here and is
the subject of `LibObd2` (`OwnReply`). The names of the two modules are different
because their proofs are in one module that extends both.

### AppleSerial

No `io_service`: a thread reads the descriptor in a loop (`bg`), `write()` runs in the
caller's thread, and what the threads share is the descriptor's number and the flags.
`fd` is what the number stands for: nothing, the device, a descriptor that was
closed, or `other`, a file that another part of the process has opened and that
got the number. `write()` and `read()` go to whatever the number stands for when
they are called, a `read()` that waits stays with its file (`reads`). The
owner's calls are split as in `AsyncSerial`. `open` is set before the thread is
started here, so its constructor may throw and leave an open object without
one. The race on `callback` is modelled as in `AsyncSerial`. `lost` and `fault`
are history variables.

### BusPi

The caller's steps are its accesses to the registers, one each, since the
controller works between any two of them; emptying or filling the FIFO goes byte by byte.
The controller is external and modelled from how the code drives it: one FIFO
for both directions, a data length that a start takes over, a start during a
transfer that becomes a repeated start, status bits that stay until they are
cleared, and failures at any time. Bytes are known by the call and the
position they belong to, so that a byte of an old call can be told from one of the new.
`analogRead` is a `write` and two `read`s whose results it does not look at.
Three byte times (`Delay`) are taken to be enough for the two bytes of the write
phase of `read_rs`; a device that stretches the clock within it is left out.

### InterruptPi

One pin, since the threads of two pins share nothing but the process. The main
thread attaches and detaches (`mpc`, `id`); `tpc` says where each interrupt
thread is. `gen` numbers the times the pin's directory was made: a file opened in
a directory that is gone is no longer valid and reads fail on it. Cancellation is deferred: a
thread that is cancelled ends in `open`, `poll`, `read` or a cancellation point
of the user's function, or goes on to one. A thread whose `open`, `read` or
`poll` fails (`ThreadFails`, `PollFails`) is on its way to `exit(1)`
(`"failing"`, `ThreadExits`) and gets there also when it is cancelled meanwhile,
unless `perror` or `close` is the point where it ends. `pend` is what `poll` reports;
`owed`, `credit` and `late` are history variables that say which edges the calls
of the function answer.

## What TLC checks

| Run | Bounds | States | Shows |
| --- | --- | --- | --- |
| `serial` | 2 writers, 2 payloads, 2 writes, 2 sessions | 318 thousand | the type invariant, `StreamInOrder`, `NoLostWakeup`, `OneReader`, `OneWriter`, `ThreadJoined`, that `AsyncSerial` implements `SerialChannel`, `CloseReturns`, `FaultReported`, `Delivered` |
| `answers` | streams of 6 bytes in reads of 1 to 3; replies of up to 2 items (2 bytes, a lone figure) in 2 cases and 3 spacings, with and without a last figure, cut by the reads in every way, buffers of 0 to 3 bytes | 408 thousand | `NoTextLost`, `OneAnswerPerRecord`; `RepliesDecoded` |
| `obd_requests` | 7 commands, kinds of requests in any order | 2.7 million | `LagBounded`, `OwnReply`, `TimedReturns` |
| `apple_serial` | 2 writers, 3 calls of `open` | 18 thousand | `NoFalseAlarm`, `LossReported`, `ThreadJoined`, `CloseReturns`, `FaultNoticed` |
| `bus_transfers` | a FIFO of 2, calls of up to 3 bytes, 3 calls (and 2 more in an `analogRead`) | 367 thousand | `OkIsOwn`, `NoOverrun`, `OnlyMissLeavesBusy`, `CallReturns` |
| `interrupts` | 2 attachments, 2 uncounted edges | 12 thousand | `LiveIsAttached`, `CallsAreDue`, `FailureIsDetach`, `EdgeServed` |
| `daemon` | the 5 rounds of the code, its one session | 158 thousand | `OneQueryPerRound`, `PortKept`, `QuietAfterClear`, `PollingReturns` |

The bounds are enough for the interesting cases. Two writers with a write each
let one append, and post or not yet post, while the other's data is in the
buffer; two sessions let everything that the first leaves behind
(a stale handler, the buffer of a failed write, an open port) meet the second.
Six bytes hold an incomplete answer, two answers in one read, an "OK" and a line end that are cut by
a read, and the three-byte read that brings more than one call takes. Seven
commands are the six of `initPort` and a request after them. The daemon
has the bounds of the code. Replies of two items have a digit pair beside another,
beside a lone figure and beside each blank, and a cut inside each. A third `open()` finds what a reopened
object leaves. A call longer than the FIFO has to refill or empty it while the
controller works, and three calls let one that fails, or is left busy, meet a
next and a next but one. Two attachments have a replaced thread beside a new
one; `MaxEdges` is at least 2 because one edge may wait while another is being
answered, and more than that changes nothing but the count.

Deadlock is checked except in the runs of `GPSLogger`, where the device may fall
silent for ever; in the one of `ObdReplies`, which is the same, a request can
always be asked. `BusPi` can always be asked how much to read. In the other modules the system
stops only when the object has been destroyed or the process has ended, which
are actions of their own.

Fairness. Every thread that can run does, and a callback returns
(`WF` of the owner's steps, of the background thread's and of each posting of `doWrite`);
nobody has to call anything, and a device may stay silent. `SF` of `WriteSome`:
the reactor looks at the descriptors only between two handlers, so that a writable port
is not continuously but again and again open to it, and `epoll` reports every
ready descriptor. The daemon adds that its `sleep` ends.
In `LibObd2` the caller's thread runs and time passes; the device may stay silent,
a read of a port whose reads time out returns, and one need not fail unless
nothing is open.
In `AppleSerial` a read of a device that has failed returns. One of a descriptor
that `::close()` has closed under it need not, although the code counts on it
("The thread waiting on I/O should return", `AsyncSerial.cpp:428`), nor one of
another file. `CloseReturns` is therefore stated of behaviours in which no read
stays blocked, and excepts the other file: it says that the lowered flag, the
closed descriptor and the join get the thread out wherever they meet it, and does
not exclude the hang of a read that is not woken. `::close()` itself is taken not to block. In `BusPi`
the caller polls and a transfer that has room or data for a byte moves it; no
transfer has to fail. In `InterruptPi` the user's function returns; no signal has to come.

Five more runs check a property that a comment or message of the repository
states and that the code does not keep; TLC finds the behaviour that breaks it:

| Run | What it shows |
| --- | --- |
| `serial_reopen` | a `doClose` left over from one session closes the port of the next |
| `serial_busy` | a failed write leaves `writeBuffer` behind, and nothing is written any more |
| `serial_clearing` | a callback cleared between `readEnd`'s test and its call ends the process |
| `serial_early` | a read that fails before `open()` has set the flag leaves an object that is open, without thread and without error |
| `gps_untilok` | an incomplete answer is logged byte by byte |

Reading the code for the model showed more that no run states, and that the
models contain:

- When `set_option` or the thread's constructor throws in `open()`, the port stays
  open under an object that says it is closed; `close()` then does nothing, and every
  later `open()` throws. So it does after `serial_early`, where `close()` posts a
  `doClose` that nobody runs.
- `SIGTERM` sets `doRun`, which nothing reads ("Exiting main loop", says the log):
  the rounds go on, and the daemon ends when they are over, with or without it,
  although `doRun` is documented to decide that.
- `clearCallback` destroys the functor, and the `GPSLogger` bound into it, while
  the background thread may be in it (`dangling`); `run()` goes on regardless.
- On Mac OS X an `open()` whose thread cannot be created leaves the object open.
  Once `close()` has closed the descriptor its number may be another file's
  before the thread has noticed; the thread then reads that file, and `close()`
  waits for it.
- `read_rs` takes the DONE of its write phase for that of its read when the
  phase is over, or has failed, before it asks for the read. The controller is
  then left at work, and the next call may return OK with bytes of the one before, store
  more than it was asked for, or not return. `OkIsOwn`, `NoOverrun` and
  `CallReturns` are stated of calls that find the controller at rest,
  `OnlyMissLeavesBusy` says that this is the only way it is not.
- The transfers end with a write of DONE to the control register, where it
  has no effect; `read()` sets `i2c_bytes_to_read` to 1 for the reads
  after it; `analogRead` computes with what a failed read has left.
- `detachInterrupt` unexports the pin before it cancels its thread, which ends
  the process when it finds the file gone. `FailureIsDetach` says that failures of
  `poll` apart only then a thread begins to fail; the `exit(1)` may come after
  `detachInterrupt` has returned.
- `obdLibSendObdRequest` writes a '.' behind the bytes, for which its check of
  the length leaves no room when they fill the buffer: one byte is written behind
  it. `RepliesDecoded` says nothing of that byte. `obdLibSendObdRequestString` writes its codes
  without a look at the length.

`Delivered` is therefore stated of an object whose `writeBuffer` means what it
says (`Healthy`), `NoLostWakeup` of data that is not behind the rest of a failed
write (`Stranded`), and `FaultReported` of errors found while `isOpen()` holds.

## What is proved

All of it holds for any number of writers, payloads, writes, sessions, rounds,
calls and threads and any size of the FIFO, from the assumptions that the bounds are natural
numbers (the FIFO and a call hold at least one byte, `MaxEdges` is at least 2),
that what a reply says is a sequence of bytes and figures, what is around it blanks and the size of
the caller's buffer a natural number, that a `size_t` holds the length of the stream and two more,
and, for the daemon, that its main thread is a writer and its query a payload.

`AsyncSerial_proofs` proves that `AsyncSerial` keeps its types, `StreamInOrder`,
`NoLostWakeup`, `OneReader`, `OneWriter` and `ThreadJoined`, and that it
implements `SerialChannel`. They rest on one inductive invariant, `IInv`, which
adds three conjuncts to the properties:

- `ThreadInv`: outside `open()` and `close()`, an object that is not open has no
  thread and an `io_service` that was reset; a stopped thread left no operation
  in the reactor; and with the thread stopped and the port closed no read is
  queued. Without the last part nothing excludes that `open()` posts a `doRead`
  beside a read of the last session, and `OneReader` is not inductive.
- `BufferInv`: a buffer that is free, or whose write has completed, is empty, and
  only an open port has a write pending. Without it a `StartWrite` could drop what
  is in flight, and `StreamInOrder` is not inductive; the last part is what
  `SerialChannel` asks of a transmission.
- `WakeupInv`: data waits in the queue only behind a buffer that is in use, a
  `doWrite` or a writer. `NoLostWakeup` is stronger, since the buffer of a failed
  write stays in use for ever; it follows with the part of `BufferInv` that a
  buffer in use with nothing left to write has a write out.

A step preserves the types (`TypeNext`), the two reader conjuncts
(`ReaderNext`), the two writer conjuncts (`WriterNext`), the stream (`StreamNext`,
by way of `DataMoves`: every step leaves the data alone, appends to the queue,
moves the queue into the empty buffer or the first of the buffer to the device)
and the wake-up (`WakeupNext`). The lemmas about handler queues (`AppendHandler`,
`TailHandler`, `ConcatHandlers`) say what posting and taking do to the absence
and uniqueness of handlers. `ImplementsChannel` maps the four kinds of data movement and
the opening and closing of the port to the steps of `SerialChannel`.

`CarPi_proofs` proves that every step of the daemon is a step of `AsyncSerial`
or leaves it alone (`ShieldStep`), so that all the theorems above hold of the
shield (`ShieldCorrect`), and `OneQueryPerRound`, from the invariant that the
number of rounds is the number of accepted queries and from `StreamInOrder`.
`PortKept` and `QuietAfterClear` follow from a second invariant: `Places` (in which
call of the shield each place of the main thread can be), `NeverClosed` (the
daemon neither closes nor destroys the shield) and `ErrorsCount`, that for this
reason no `doClose` is ever queued, and that a handler with an error waits behind
an open port only if the device has failed. What destroys the shield is only its
own constructor when it throws, before `open()` has returned. `Places` also says that the callback is
empty when `run()` is done, which is why the thread it leaves running has
nothing to call.

`LibObd2_proofs` proves the types, `LagBounded` and `OwnReply`. The inductive
invariant `Inv` says of a caller between calls that what is outstanding was
skipped, and of one that waits that this was so before its command, that its
command is the last one, and that no prompt has come. The last part is why a
read that brings a prompt takes at least one more answer (`PromptTaken`), and the
second why, with nothing outstanding before it, that prompt is its own
(`LastPrompt`).

Of the replies it proves `RepliesTypeOK` and `RepliesDecoded` of `ObdReplies`, for
any set of values, each of any length, any blanks, any size of the buffer and any
number of reads that cut the reply anywhere. The argument goes from the character
to the request. `byteArrayToByte` turns the two digits of every byte, in either
case, into that byte (`DigitsDecoded`), and no digit is a blank or the prompt
(`DigitsKept`), so that what is left out is never data. `Decode` reads from behind
a blank what it would read without it (`DecodeBlank`), and from two characters one
byte and what it would read from the rest (`DecodePair`); both say what the
decoding of a text is when something is put in front of it, and rest on
`DecodeSuffix`: what is read from a place on depends on the characters from there
on and on nothing before. A lone figure takes the blank behind it with it, so
that the pairs after it stay where they were (`ItemDecoded`). By induction over
the items, what the device writes is decoded to what it stands for
(`WrittenDecoded`), and a last character alone adds nothing (`DecodeShort`).
"NO DATA" is found because each letter of "NODATA" is among what was written
(`NoDataFound`), and nothing else is (`FiguresAreData`); all this is said of what
a device answers in `AnswerRead`. The inductive invariant `ReadInv` says of a
request that reads that what it has, and what is left on the line without the
prompt, are together the reply, and that the line's only prompt is its end; a
read moves a part of the one to the other, since taking characters out commutes
with concatenation (`OnlyConcat`).

`GPSLogger_proofs` proves `TypeOK`, `NoTextLost` and `OneAnswerPerRecord` for
streams and reads of any length. `Normalise` goes character by character
(`NormaliseAppend`), so that it keeps the text, leaves no "\r", and the text of what
one read brings is added to the text of the buffer. `CutProperties` says of the place
where the buffer is cut that it lies within it and never behind the first "OK"
and its two characters, also when there is no "OK" and `npos + 2` has wrapped to 1;
with that a record and the rest of the buffer are the buffer (`RecordProperties`), which
keeps `NoTextLost`, and no record holds an "OK" but at its end, which keeps
`OneAnswerPerRecord`.

`Filter_proofs` is what both rest on. The library's theorems about induction
take an operator, which none of the provers can instantiate; here a property is a set of numbers or
sequences and induction says that the set is everything (`SetInduction`,
`SeqInduction`), which follows from the well-foundedness of the finite sets, a
theorem of the library without an operator. From it follows that a function
defined by recursion satisfies its recursion (`Recursion`), hence what `Only` and
the community modules' `FlattenSeq` compute (`OnlyRecursion`, `FlattenRecursion`).
`Only` is a recursive function and not `SelectSeq`, which is defined with an
operator as its parameter.

`AppleSerial_proofs` proves `TypeOK`, `NoFalseAlarm`, `LossReported` and
`ThreadJoined`. The inductive invariant adds: `Stages`, what each stretch of
`open()` and `close()` finds of flag and descriptor; `ThreadInSession`, that a thread
exists only in an open or closing object and that, while it is open, what the thread reads is
the device; `FaultsCount`, that in a session whatever can raise the error (a
broken device, a writer about to report, a thread that has seen its read fail while
the object is open) has counted as a fault; and `LossKept`, that `open()` starts
with nothing lost. Without the last part of `FaultsCount` a thread in state
`failed` could raise an error nobody has had; that `close()` lowers the flag
before it closes the descriptor is what keeps it.

`BusPi_proofs` proves `TypeOK`, `NoOverrun` and `OnlyMissLeavesBusy`. The
invariant adds `Places`, which call each place of the caller belongs to;
`Rests`, that until a `read_rs` misses its write phase the controller is at rest
before a start and once DONE is set; and `Room`, that in a `read` what was
taken, what is in the FIFO and what is still to come are no more than was asked
for. `Room` is the reason why `read()` need not look at `remaining`, and it holds
only of a controller that was found at rest.

The same module proves `OkIsOwn` on top of it. `OwnInv` says where each byte of
the call is: `Prepared`, that a controller found at rest holds, until the start,
nothing but what this call has put there; `WriteOwn`, that what the device has
and then what waits in the FIFO are the bytes written so far, in order; `ReadOwn`,
that what was taken, what waits in the FIFO and what is to come are the bytes of
this call, in order; `RsOwn`, that the address goes first and the read follows;
and `Settled`, that what a call has moved stays as it was once it has returned OK.

`InterruptPi_proofs` proves `TypeOK`, `LiveIsAttached`, `CallsAreDue` and
`FailureIsDetach`. The invariant adds `Stages`; `Cancelled` (every thread but the
last is cancelled, and the last one too when the pin is detached); `FilesOfToday` (a thread that is
not cancelled has its file from the directory of today); `EdgesCounted` (a thread
about to call has an edge for it, and one more if its `poll` would return again);
and `LateOnce` (a thread that was late has only a cancelled `poll` before it). Without the first read of
the file, which clears what `poll` reports of a file just opened, `EdgesCounted`
would fail.

Every invariant and every safety property of the passing runs is proved. Only
model-checked is the liveness, since fairness and `ENABLED` are out of the
prover's reach: `CloseReturns`, `FaultReported` and `Delivered` of `AsyncSerial`,
`CloseReturns` and `FaultNoticed` of `AppleSerial`, `TimedReturns`, `CallReturns`,
`EdgeServed` and `PollingReturns`.

## Not modelled

- The log sinks beyond `init_logging`'s exceptions, and the options of the serial
  port: calls of boost, with no state here.
- `setupDevice`, `stopPolling`, `test_callback`, `stop_logging` and
  `ODB2Logger`, which nobody calls or defines.
- What the descriptors 0 to 2 become after the daemon has closed them.
- In `libObd2` the 1024 bytes of the reply buffer and the debug callbacks.
- In `arduPi`: SPI, whose transfers are two flags of a controller that is used
  alone; modes and levels of the pins, register by register; the printing and
  scanning of `SerialPi`; `shiftIn`, `shiftOut`, `millis` and the delays; the
  mapping of the registers. They are sequences of register accesses without a
  second party.

## Plan

Done, in this order: `SerialChannel`, `AsyncSerial` with its runs, its
invariant and proofs, `GPSLogger`, `CarPi` with its composition and proofs,
`LibObd2` with its proofs, `AppleSerial`, `BusPi` and `InterruptPi` with theirs,
`ObdDecode`; then induction (`Filter_proofs`), and with it the proofs about
`GPSLogger` and about the replies (`ObdReplies`).

Next:

1. The FIFO of SPI's `transfernb`, and the scan functions of `SerialPi`.
2. The descriptor table of the daemon.
