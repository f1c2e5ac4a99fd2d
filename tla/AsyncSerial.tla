---------------------------- MODULE AsyncSerial ----------------------------
(***************************************************************************)
(* CallbackAsyncSerial / AsyncSerial over boost::asio (the branch of       *)
(* serial/AsyncSerial.cpp that is built when __APPLE__ is not defined).    *)
(*                                                                         *)
(* Three kinds of actors share one AsyncSerialImpl:                        *)
(*   - the owner, the thread that opens, closes and destroys the object    *)
(*     and sets its callback (`own` is where it is inside a call);         *)
(*   - the Writers, threads inside write() (`wpc`);                        *)
(*   - the background thread inside io_service::run (`bg`), which runs the *)
(*     handlers queued in `ioq` one by one and, between two handlers, the  *)
(*     reactor that completes the pending read and write.                  *)
(* Bytes are abstracted: one element of Data stands for what one call of   *)
(* write() hands over; what is read carries no value.                      *)
(***************************************************************************)
EXTENDS Naturals, Sequences

CONSTANTS
    Data,           \* what one call of write() hands over
    Writers,        \* threads that call write()
    MaxWrites,      \* bound: calls of write()
    MaxOpens        \* bound: calls of open()

ASSUME BoundsAssumption == MaxWrites \in Nat /\ MaxOpens \in Nat

VARIABLES
    open,           \* pimpl->open, what isOpen() returns
    error,          \* pimpl->error, what errorStatus() returns
    callback,       \* pimpl->callback; "torn" while an assignment is under way
    writeQueue,     \* pimpl->writeQueue
    writeBuffer,    \* pimpl->writeBuffer != 0
    inFlight,       \* the part of writeBuffer not yet given to the device
    portOpen,       \* pimpl->port.is_open()
    readPending,    \* an async_read_some waits in the reactor
    writePending,   \* an async_write waits in the reactor
    ioq,            \* handlers queued in pimpl->io
    ioStopped,      \* pimpl->io.stopped()
    bg,             \* the background thread
    own,            \* where the owner is
    call,           \* the call the owner is in
    result,         \* how the owner's last call ended
    wpc,            \* where each writer is
    opens,          \* calls of open() so far
    fault,          \* history: the last open() whose device failed, 0 for none
    accepted,       \* history: everything put in writeQueue
    sent            \* history: everything the device was given

portVars  == <<portOpen, readPending, writePending>>
queueVars == <<writeQueue, writeBuffer, inFlight, sent>>
ownVars   == <<own, call, result, opens>>
writeVars == <<wpc, accepted>>
vars == <<open, error, callback, portVars, queueVars, ioq, ioStopped, bg,
          ownVars, writeVars, fault>>

Handlers == {"doRead", "doWrite", "doClose",
             "readOk", "readErr", "writeOk", "writeErr"}

\* "invoke": readEnd has seen a callback and is about to call it; "dangling":
\* the callback that runs has been destroyed under it; "failing": readEnd has
\* seen isOpen() and is about to close; "terminated": the process has died of
\* an exception out of io_service::run, or of a destroyed callback.
BgStates  == {"stopped", "idle", "invoke", "callback", "dangling", "failing",
              "terminated"}
OwnStates == {"idle", "opening", "started", "cleared", "post", "join",
              "setting", "clearing", "destroyed"}
Calls     == {"none", "new", "open", "close", "set", "clear", "dtor"}

Alive == bg # "terminated"

Absent(H, q)    == \A i \in 1..Len(q) : q[i] \notin H
AtMostOne(H, q) == \A i, j \in 1..Len(q) : q[i] \in H /\ q[j] \in H => i = j

Queued(h) == ~Absent({h}, ioq)

Init ==
    /\ open = FALSE /\ error = FALSE /\ callback = "empty"
    /\ writeQueue = <<>> /\ writeBuffer = FALSE /\ inFlight = <<>>
    /\ portOpen = FALSE /\ readPending = FALSE /\ writePending = FALSE
    /\ ioq = <<>> /\ ioStopped = FALSE /\ bg = "stopped"
    /\ own = "idle" /\ call = "none" /\ result = "ok" /\ opens = 0
    /\ wpc = [w \in Writers |-> "idle"]
    /\ fault = 0 /\ accepted = <<>> /\ sent = <<>>

-----------------------------------------------------------------------------
(* The owner: the constructor that opens, and open(), which closes an open *)
(* object first.                                                           *)

Return(r) == own' = "idle" /\ call' = "none" /\ result' = r

\* pimpl is destroyed: its port closes and its io_service drops the handlers.
Destroy == own' = "destroyed" /\ portOpen' = FALSE /\ ioq' = <<>>

\* setErrorStatus(true) at the head of open().
EnterOpen == own' = "opening" /\ error' = TRUE

\* The head of close(): the flag goes down before doClose is posted.
EnterClose == own' = "post" /\ open' = FALSE

\* Until the constructor returns nobody else has the object.
CallNew ==
    /\ own = "idle" /\ ~open /\ opens = 0 /\ accepted = <<>> /\ callback = "empty"
    /\ opens < MaxOpens /\ opens' = 1 /\ call' = "new" /\ EnterOpen
    /\ UNCHANGED <<open, callback, portVars, queueVars, ioq, ioStopped, bg, result,
                   writeVars, fault>>

CallOpen ==
    /\ Alive /\ own = "idle" /\ opens < MaxOpens
    /\ opens' = opens + 1 /\ call' = "open"
    /\ \/ open /\ EnterClose /\ UNCHANGED error
       \/ ~open /\ EnterOpen /\ UNCHANGED open
    /\ UNCHANGED <<callback, portVars, queueVars, ioq, ioStopped, bg, result,
                   writeVars, fault>>

\* The port opens, doRead is posted and the thread is started ...
OpenDevice ==
    /\ own = "opening" /\ ~portOpen
    /\ portOpen' = TRUE /\ ioq' = Append(ioq, "doRead") /\ bg' = "idle"
    /\ own' = "started"
    /\ UNCHANGED <<open, error, callback, readPending, writePending, queueVars,
                   ioStopped, call, result, opens, writeVars, fault>>

\* ... or port.open throws (it always does when the port is still open), or
\* set_option or the thread's constructor throws and leaves the port open: all
\* the same to the constructor, whose unwinding destroys pimpl.
OpenThrows ==
    /\ own = "opening" /\ result' = "threw"
    /\ \/ call = "new" /\ Destroy /\ UNCHANGED call
       \/ /\ call # "new" /\ Return("threw")
          /\ \/ UNCHANGED <<portOpen, ioq>>
             \/ /\ ~portOpen /\ portOpen' = TRUE
                /\ ioq' \in {ioq, Append(ioq, "doRead")}
    /\ UNCHANGED <<open, error, callback, readPending, writePending, queueVars,
                   ioStopped, bg, opens, writeVars, fault>>

OpenClearError ==
    /\ Alive /\ own = "started" /\ own' = "cleared" /\ error' = FALSE
    /\ UNCHANGED <<open, callback, portVars, queueVars, ioq, ioStopped, bg, call,
                   result, opens, writeVars, fault>>

OpenPublish ==
    /\ Alive /\ own = "cleared" /\ open' = TRUE /\ Return("ok")
    /\ UNCHANGED <<error, callback, portVars, queueVars, ioq, ioStopped, bg,
                   opens, writeVars, fault>>

-----------------------------------------------------------------------------
(* The owner: close().                                                     *)

CallClose ==
    /\ Alive /\ own = "idle" /\ open
    /\ call' = "close" /\ EnterClose
    /\ UNCHANGED <<error, callback, portVars, queueVars, ioq, ioStopped, bg,
                   result, opens, writeVars, fault>>

ClosePostForgotten ==
    /\ Alive /\ own = "post" /\ own' = "join"
    /\ UNCHANGED <<open, error, callback, portVars, queueVars, ioq, ioStopped, bg,
                   call, result, opens, writeVars, fault>>
ClosePost ==
    /\ Alive /\ own = "post" /\ own' = "join"
    /\ ioq' = Append(ioq, "doClose")
    /\ UNCHANGED <<open, error, callback, portVars, queueVars, ioStopped, bg, call,
                   result, opens, writeVars, fault>>

ResetIoBug == UNCHANGED ioStopped
ResetIo == ioStopped' = FALSE

CloseNoJoin ==
    /\ own = "join" /\ ResetIo /\ Return(IF error THEN "threw" ELSE "ok")
    /\ UNCHANGED <<open, error, callback, portVars, queueVars, ioq, bg, opens,
                   writeVars, fault>>

\* join() returns once run() has; then io.reset(), and a throw if error is set.
\* The destructor swallows the exception, open() passes it on.
CloseJoin ==
    /\ own = "join" /\ bg = "stopped" /\ ResetIo
    /\ \/ call = "dtor" /\ Destroy /\ UNCHANGED <<call, result, error>>
       \/ /\ call # "dtor" /\ UNCHANGED <<portOpen, ioq>>
          /\ \/ error /\ Return("threw") /\ UNCHANGED error
             \/ call = "close" /\ ~error /\ Return("ok") /\ UNCHANGED error
             \/ call = "open" /\ ~error /\ EnterOpen /\ UNCHANGED <<call, result>>
    /\ UNCHANGED <<open, callback, readPending, writePending, queueVars, bg, opens,
                   writeVars, fault>>

-----------------------------------------------------------------------------
(* The owner: setCallback(), clearCallback() and the destructor.  No lock  *)
(* protects `callback`: the assignment takes two steps, unless an empty    *)
(* callback is cleared.                                                    *)

SwapCallback(c, at) ==
    /\ Alive /\ own = "idle"
    /\ call' = c /\ own' = at
    /\ callback' = IF at = "clearing" /\ callback = "empty" THEN "empty" ELSE "torn"
    /\ UNCHANGED <<open, error, portVars, queueVars, ioq, ioStopped, bg, result,
                   opens, writeVars, fault>>

CallSetCallback   == SwapCallback("set", "setting")
CallClearCallback == SwapCallback("clear", "clearing")

\* A callback that runs while it is replaced or cleared is destroyed.
DestroyFunctor == bg' = IF bg = "callback" THEN "dangling" ELSE bg

SetCallbackDone ==
    /\ Alive /\ own = "setting" /\ callback' = "set" /\ Return("ok")
    /\ DestroyFunctor
    /\ UNCHANGED <<open, error, portVars, queueVars, ioq, ioStopped, opens,
                   writeVars, fault>>

\* ~CallbackAsyncSerial clears the callback, then ~AsyncSerial closes.
\* Whoever destroys the object has no write() under way.
CallDestroy ==
    /\ \A w \in Writers : wpc[w] = "idle"
    /\ SwapCallback("dtor", "clearing")

ClearCallbackDone ==
    /\ Alive /\ own = "clearing" /\ callback' = "empty"
    /\ DestroyFunctor
    /\ \/ /\ call = "dtor" /\ ~open /\ Destroy
          /\ UNCHANGED <<open, call, result>>
       \/ /\ UNCHANGED <<portOpen, ioq>>
          /\ \/ call = "clear" /\ Return("ok") /\ UNCHANGED open
             \/ call = "dtor" /\ open /\ EnterClose /\ UNCHANGED <<call, result>>
    /\ UNCHANGED <<error, readPending, writePending, queueVars, ioStopped, opens,
                   writeVars, fault>>

-----------------------------------------------------------------------------
(* The writers: the data is queued under writeQueueMutex, doWrite is       *)
(* posted after the mutex is released.                                     *)

Write(w, d) ==
    /\ Alive /\ call \notin {"new", "dtor"} /\ wpc[w] = "idle" /\ Len(accepted) < MaxWrites
    /\ writeQueue' = Append(writeQueue, d)
    /\ accepted' = Append(accepted, d)
    /\ wpc' = [wpc EXCEPT ![w] = "post"]
    /\ UNCHANGED <<open, error, callback, portVars, writeBuffer, inFlight, sent,
                   ioq, ioStopped, bg, ownVars, fault>>

WritePost(w) ==
    /\ Alive /\ wpc[w] = "post"
    /\ wpc' = [wpc EXCEPT ![w] = "idle"]
    /\ ioq' = Append(ioq, "doWrite")
    /\ UNCHANGED <<open, error, callback, portVars, queueVars, ioStopped, bg,
                   ownVars, accepted, fault>>

-----------------------------------------------------------------------------
(* The background thread.                                                  *)

\* run() takes the first handler; `rest` is what it leaves queued.
Runs(h) == bg = "idle" /\ ~ioStopped /\ ioq # <<>> /\ Head(ioq) = h
rest == Tail(ioq)

\* async_read_some: on a closed port it completes at once with an error.
StartRead(q) ==
    /\ readPending' = portOpen
    /\ ioq' = IF portOpen THEN q ELSE Append(q, "readErr")

RunDoRead ==
    /\ Runs("doRead") /\ StartRead(rest)
    /\ UNCHANGED <<open, error, callback, portOpen, writePending, queueVars,
                   ioStopped, bg, ownVars, writeVars, fault>>

\* The queue becomes the buffer and async_write starts; nothing to write
\* completes at once, and so does, with an error, a write to a closed port.
StartWriteKeepingQueue ==
    /\ writeBuffer' = TRUE /\ inFlight' = writeQueue /\ UNCHANGED writeQueue
    /\ writePending' = (portOpen /\ writeQueue # <<>>)
    /\ ioq' = IF writeQueue = <<>> THEN Append(rest, "writeOk")
              ELSE IF portOpen THEN rest ELSE Append(rest, "writeErr")
StartWrite ==
    /\ writeBuffer' = TRUE /\ inFlight' = writeQueue /\ writeQueue' = <<>>
    /\ writePending' = (portOpen /\ writeQueue # <<>>)
    /\ ioq' = IF writeQueue = <<>> THEN Append(rest, "writeOk")
              ELSE IF portOpen THEN rest ELSE Append(rest, "writeErr")

RunDoWriteAlways ==
    /\ Runs("doWrite") /\ StartWrite
    /\ UNCHANGED <<open, error, callback, portOpen, readPending, sent, ioStopped,
                   bg, ownVars, writeVars, fault>>
RunDoWrite ==
    /\ Runs("doWrite")
    /\ \/ ~writeBuffer /\ StartWrite
       \/ writeBuffer /\ ioq' = rest
          /\ UNCHANGED <<writeBuffer, inFlight, writeQueue, writePending>>
    /\ UNCHANGED <<open, error, callback, portOpen, readPending, sent, ioStopped,
                   bg, ownVars, writeVars, fault>>

\* writeEnd without error: start over if more has been queued.
WriteEndDropsQueue ==
    /\ writeBuffer' = FALSE /\ ioq' = rest
    /\ UNCHANGED <<writeQueue, inFlight, writePending>>
WriteEndContinue ==
    \/ writeQueue # <<>> /\ StartWrite
    \/ /\ writeQueue = <<>> /\ writeBuffer' = FALSE /\ ioq' = rest
       /\ UNCHANGED <<writeQueue, inFlight, writePending>>

\* port.cancel: the pending operations complete with operation_aborted.
Aborted == (IF readPending THEN <<"readErr">> ELSE <<>>)
             \o (IF writePending THEN <<"writeErr">> ELSE <<>>)

\* doClose(): cancel fails on a port that is closed already, close may fail on
\* one that is open.  `e` is what the handler makes of the error flag.
DoClose(q, e) ==
    /\ portOpen' = FALSE /\ readPending' = FALSE /\ writePending' = FALSE
    /\ ioq' = q \o Aborted
    /\ \/ error' = (e \/ ~portOpen) /\ UNCHANGED fault
       \/ portOpen /\ error' = TRUE /\ fault' = opens

WriteOkCloses ==
    /\ Runs("writeOk") /\ DoClose(rest, TRUE)
    /\ UNCHANGED <<open, callback, queueVars, ioStopped, bg, ownVars, writeVars>>
RunWriteOk ==
    /\ Runs("writeOk") /\ WriteEndContinue
    /\ UNCHANGED <<open, error, callback, portOpen, readPending, sent, ioStopped,
                   bg, ownVars, writeVars, fault>>

RunDoClose ==
    /\ Runs("doClose") /\ DoClose(rest, error)
    /\ UNCHANGED <<open, callback, queueVars, ioStopped, bg, ownVars, writeVars>>

\* writeEnd with an error: setErrorStatus(true), doClose(); the buffer stays.
RunWriteErr ==
    /\ Runs("writeErr") /\ DoClose(rest, TRUE)
    /\ UNCHANGED <<open, callback, queueVars, ioStopped, bg, ownVars, writeVars>>

\* readEnd with an error is ignored unless isOpen() ...
IgnoreReadErr ==
    /\ Runs("readErr") /\ ioq' = rest
    /\ UNCHANGED <<open, error, callback, portVars, queueVars, ioStopped, bg,
                   ownVars, writeVars, fault>>
RunReadErr ==
    /\ Runs("readErr") /\ ioq' = rest
    /\ bg' = IF open THEN "failing" ELSE bg
    /\ UNCHANGED <<open, error, callback, portVars, queueVars, ioStopped, ownVars,
                   writeVars, fault>>

\* ... and else closes the port and sets the error.
FailRead ==
    /\ bg = "failing" /\ bg' = "idle" /\ DoClose(ioq, TRUE)
    /\ UNCHANGED <<open, callback, queueVars, ioStopped, ownVars, writeVars>>

\* readEnd without error: test the callback, then call it, then read on.  A
\* callback being assigned may look empty or not.
ReadOnFirst ==
    /\ Runs("readOk") /\ StartRead(rest)
    /\ bg' = IF callback # "empty" THEN "invoke" ELSE bg
    /\ UNCHANGED <<open, error, callback, portOpen, writePending, queueVars,
                   ioStopped, ownVars, writeVars, fault>>
RunReadOk ==
    /\ Runs("readOk")
    /\ \/ /\ callback # "empty" /\ bg' = "invoke" /\ ioq' = rest
          /\ UNCHANGED readPending
       \/ callback # "set" /\ StartRead(rest) /\ UNCHANGED bg
    /\ UNCHANGED <<open, error, callback, portOpen, writePending, queueVars,
                   ioStopped, ownVars, writeVars, fault>>

\* Calling an empty boost::function throws out of run().
InvokeCallback ==
    /\ bg = "invoke"
    /\ \/ callback # "empty" /\ bg' = "callback"
       \/ callback # "set" /\ bg' = "terminated"
    /\ UNCHANGED <<open, error, callback, portVars, queueVars, ioq, ioStopped,
                   ownVars, writeVars, fault>>

CallbackReturn ==
    /\ bg \in {"callback", "dangling"}
    /\ \/ bg' = "idle" /\ StartRead(ioq)
       \/ bg = "dangling" /\ bg' = "terminated" /\ UNCHANGED <<readPending, ioq>>
    /\ UNCHANGED <<open, error, callback, portOpen, writePending, queueVars,
                   ioStopped, ownVars, writeVars, fault>>

\* run() returns when the io_service was stopped or has no work left.
RunReturns ==
    /\ bg = "idle" /\ bg' = "stopped" /\ ioStopped' = TRUE
    /\ ioStopped \/ (ioq = <<>> /\ ~readPending /\ ~writePending)
    /\ UNCHANGED <<open, error, callback, portVars, queueVars, ioq, ownVars,
                   writeVars, fault>>

-----------------------------------------------------------------------------
(* The reactor, run by the background thread between two handlers.         *)

Completes(h) == bg = "idle" /\ ~ioStopped /\ ioq' = Append(ioq, h)

ReadReady ==
    /\ readPending /\ readPending' = FALSE /\ Completes("readOk")
    /\ UNCHANGED <<open, error, callback, portOpen, writePending, queueVars,
                   ioStopped, bg, ownVars, writeVars, fault>>

ReadFault ==
    /\ readPending /\ readPending' = FALSE /\ Completes("readErr") /\ fault' = opens
    /\ UNCHANGED <<open, error, callback, portOpen, writePending, queueVars,
                   ioStopped, bg, ownVars, writeVars>>

\* The device takes a part of the buffer; the last part completes the write.
WriteSomeOnce ==
    /\ writePending /\ writePending' = FALSE /\ Completes("writeOk")
    /\ sent' = Append(sent, Head(inFlight)) /\ inFlight' = Tail(inFlight)
    /\ UNCHANGED <<open, error, callback, portOpen, readPending, writeQueue,
                   writeBuffer, ioStopped, bg, ownVars, writeVars, fault>>
WriteSome ==
    /\ writePending
    /\ sent' = Append(sent, Head(inFlight)) /\ inFlight' = Tail(inFlight)
    /\ \/ /\ Tail(inFlight) = <<>> /\ writePending' = FALSE /\ Completes("writeOk")
       \/ /\ Tail(inFlight) # <<>> /\ bg = "idle" /\ ~ioStopped
          /\ UNCHANGED <<writePending, ioq>>
    /\ UNCHANGED <<open, error, callback, portOpen, readPending, writeQueue,
                   writeBuffer, ioStopped, bg, ownVars, writeVars, fault>>

WriteFault ==
    /\ writePending /\ writePending' = FALSE /\ Completes("writeErr")
    /\ fault' = opens
    /\ UNCHANGED <<open, error, callback, portOpen, readPending, queueVars,
                   ioStopped, bg, ownVars, writeVars>>

-----------------------------------------------------------------------------
OwnerProceeds ==
    \/ OpenDevice \/ OpenThrows \/ OpenClearError \/ OpenPublish
    \/ ClosePost \/ CloseJoin \/ SetCallbackDone \/ ClearCallbackDone

OwnerCalls ==
    \/ CallNew \/ CallOpen \/ CallClose \/ CallSetCallback
    \/ CallClearCallback \/ CallDestroy

BgProceeds ==
    \/ RunDoRead \/ RunDoWrite \/ RunDoClose \/ RunReadOk \/ RunReadErr
    \/ RunWriteOk \/ RunWriteErr
    \/ FailRead \/ InvokeCallback \/ CallbackReturn \/ RunReturns

Reactor == ReadReady \/ ReadFault \/ WriteSome \/ WriteFault

\* The object is gone, or the process is: the only ways the system stops.
Done == (own = "destroyed" \/ ~Alive) /\ UNCHANGED vars

Next ==
    \/ OwnerProceeds
    \/ OwnerCalls
    \/ \E w \in Writers : WritePost(w) \/ \E d \in Data : Write(w, d)
    \/ BgProceeds
    \/ Reactor
    \/ Done

\* Every thread that can run does, callbacks return, and a port that is ready
\* each time the reactor looks is written to in the end (the reactor collects
\* every ready descriptor, but only between two handlers: strong fairness).
\* Nobody has to call anything, and a device may stay silent for ever.
Fairness ==
    /\ WF_vars(OwnerProceeds)
    /\ WF_vars(BgProceeds)
    /\ \A w \in Writers : WF_vars(WritePost(w))
    /\ SF_vars(WriteSome)

Spec == Init /\ [][Next]_vars
FairSpec == Spec /\ Fairness

-----------------------------------------------------------------------------
(* Properties.                                                             *)

\* Every variable stays in its range, and a writeBuffer that writeEnd has freed
\* has nothing left to write.
TypeOK ==
    /\ open \in BOOLEAN /\ error \in BOOLEAN
    /\ callback \in {"empty", "torn", "set"}
    /\ writeQueue \in Seq(Data) /\ inFlight \in Seq(Data)
    /\ accepted \in Seq(Data) /\ sent \in Seq(Data)
    /\ writeBuffer \in BOOLEAN /\ portOpen \in BOOLEAN
    /\ ~writeBuffer => inFlight = <<>>
    /\ readPending \in BOOLEAN /\ writePending \in BOOLEAN
    /\ ioq \in Seq(Handlers) /\ ioStopped \in BOOLEAN
    /\ bg \in BgStates /\ own \in OwnStates /\ call \in Calls
    /\ result \in {"ok", "threw"}
    /\ wpc \in [Writers -> {"idle", "post"}]
    /\ opens \in 0..MaxOpens /\ fault \in 0..MaxOpens

\* write(): what the devices got, what is being written and what is queued
\* add up to what was accepted, in the order in which it was accepted, through
\* every error, close and reopening: nothing lost, doubled or reordered.
StreamInOrder == sent \o (inFlight \o writeQueue) = accepted

ReadHandlers  == {"doRead", "readOk", "readErr"}
WriteHandlers == {"writeOk", "writeErr"}

\* A write is out: in the reactor, or completed and waiting for writeEnd.
Writing == writePending \/ ~Absent(WriteHandlers, ioq)

\* writeBuffer holds what is left of a write that has failed, and stays.
Stranded == ~Writing /\ inFlight # <<>>

\* write(), doWrite(), writeEnd(): data does not wait in the queue without
\* somebody who will look at the queue: a writer about to post doWrite, a
\* doWrite in the io_service, or a write that is out, whose writeEnd looks at
\* it. The one exception is behind the rest of a failed write: nobody comes for
\* that data (see BusyMeansWriting).
NoLostWakeup ==
    writeQueue # <<>> /\ own # "destroyed" /\ ~Stranded =>
        Writing \/ Queued("doWrite") \/ \E w \in Writers : wpc[w] = "post"

InCallback == bg \in {"invoke", "callback", "dangling"}

\* doRead(), readEnd(): readBuffer has one user at a time. At most one read is
\* posted, pending, completed or in its callback, over any number of sessions.
OneReader ==
    /\ AtMostOne(ReadHandlers, ioq)
    /\ readPending \/ InCallback => Absent(ReadHandlers, ioq)
    /\ ~(readPending /\ InCallback)

\* doWrite(), writeEnd(): at most one async_write is out, and writeBuffer is
\* neither freed nor replaced while it is.
OneWriter ==
    /\ AtMostOne(WriteHandlers, ioq)
    /\ writePending => Absent(WriteHandlers, ioq) /\ inFlight # <<>>
    /\ writePending \/ ~Absent(WriteHandlers, ioq) => writeBuffer

\* close(), ~AsyncSerial(): whoever finds the object closed, opens it again or
\* destroys it has no background thread and no operation under way.
ThreadJoined ==
    (own \in {"opening", "destroyed"} \/ (own = "idle" /\ ~open)) =>
        bg = "stopped" /\ ~readPending /\ ~writePending

\* AsyncSerial implements the write channel its interface promises.
Channel == INSTANCE SerialChannel WITH attached <- portOpen
ChannelSpec == Channel!Spec

\* close(): the call returns, whatever the device, the reader, the writers and
\* the callback do meanwhile: doClose always gets the thread out of run().
CloseReturns == (own = "join") ~> (own # "join" \/ ~Alive)

\* readEnd(), writeEnd(): an operation that fails while isOpen() holds is
\* reported by errorStatus(), unless the object is closed first.
FaultReported ==
    (open /\ (Queued("readErr") \/ Queued("writeErr"))) ~>
        (error \/ ~open \/ ~Alive)

\* write(): on an open object everything accepted reaches the device, in the
\* first session and in later ones, unless a device has failed, the object is
\* closed, or an aborted write has left writeBuffer behind (see below).
Healthy ==
    /\ open /\ fault = 0 /\ Alive
    /\ writeBuffer => Writing
Delivered ==
    \A n \in 1..MaxWrites :
        (Healthy /\ Len(accepted) >= n) ~> (Len(sent) >= n \/ ~Healthy)

-----------------------------------------------------------------------------
(* What the header and the comments say and the code does not keep: each   *)
(* of these is checked on its own and has a counterexample.                *)

\* "Fixed a bug that did not allow to reopen a closed serial port": an object
\* that is open again on a device that does not fail reports no error.
ReopenedIsSound == open /\ fault # opens => ~error

\* doWrite: "If a write operation is already in progress, do nothing". What
\* doWrite takes for a write in progress on an open port is one.
BusyMeansWriting ==
    portOpen /\ Runs("doWrite") /\ writeBuffer => Writing

\* clearCallback: "Any data received after this function call will be lost"
\* - data, not the process: readEnd survives a callback that has been cleared.
ClearingIsHarmless == [][Alive /\ callback = "empty" => Alive']_vars

\* errorStatus: "true if error were found": an object that is open and whose
\* background thread has given up says so.
FoundIsShown == own = "idle" /\ open /\ bg = "stopped" => error
=============================================================================
