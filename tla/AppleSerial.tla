---------------------------- MODULE AppleSerial ----------------------------
(***************************************************************************)
(* CallbackAsyncSerial / AsyncSerial as serial/AsyncSerial.cpp builds them *)
(* when __APPLE__ is defined: no io_service, a thread that reads the       *)
(* descriptor in a loop, and writes in the caller's thread.                *)
(*                                                                         *)
(* The owner opens, closes and destroys the object and swaps its callback  *)
(* (`own`), Writers call write(), `bg` is the reading thread.  Other parts *)
(* of the process open files too and may get a number that close() freed.  *)
(***************************************************************************)
EXTENDS Naturals

CONSTANTS
    Writers,        \* threads that call write()
    MaxOpens        \* bound: calls of open()

ASSUME OpensAssumption == MaxOpens \in Nat

VARIABLES
    open,           \* pimpl->open
    error,          \* pimpl->error
    callback,       \* pimpl->callback; "torn" while it is assigned
    fd,             \* what the number in pimpl->fd stands for
    broken,         \* the device fails from now on
    bg,             \* the background thread
    reads,          \* the file a read() waits for
    own,            \* where the owner is
    call,           \* the call the owner is in
    result,         \* how the owner's last call ended
    wpc,            \* where each writer is
    opens,          \* calls of open() so far
    lost,           \* history: a write to the open object has failed
    fault           \* history: an operation of this session has failed

threadVars == <<bg, reads>>
ownVars    == <<own, call, result, opens>>
vars == <<open, error, callback, fd, broken, threadVars, ownVars, wpc, lost,
          fault>>

\* "loop": about to call read(); "failed": read() returned -1 and isOpen() is
\* to be asked; "got": it returned something; "ended": left doRead, not joined.
BgStates  == {"none", "loop", "reading", "failed", "got", "invoke", "callback",
              "ended", "terminated"}
OwnStates == {"idle", "opening", "opened", "cleared", "published", "closing",
              "join", "setting", "clearing", "destroyed"}
Calls     == {"none", "open", "close", "set", "clear", "dtor"}
Files     == {"invalid", "closed", "port", "other"}

Alive == bg # "terminated"

\* The number in fd is not set by the constructor.
Init ==
    /\ open = FALSE /\ error = FALSE /\ callback = "empty"
    /\ fd \in Files \ {"port"} /\ broken = FALSE
    /\ bg = "none" /\ reads = "none"
    /\ own = "idle" /\ call = "none" /\ result = "ok" /\ opens = 0
    /\ wpc = [w \in Writers |-> "idle"]
    /\ lost = FALSE /\ fault = FALSE

-----------------------------------------------------------------------------
(* The owner: open().                                                      *)

Return(r) == own' = "idle" /\ call' = "none" /\ result' = r

EnterOpen  == own' = "opening" /\ error' = TRUE /\ lost' = FALSE

\* The flag is not lowered before the descriptor is closed.
EnterCloseLate == own' = "closing" /\ UNCHANGED open

EnterClose == own' = "closing" /\ open' = FALSE

CallOpen ==
    /\ Alive /\ own = "idle" /\ opens < MaxOpens
    /\ opens' = opens + 1 /\ call' = "open"
    /\ \/ open /\ EnterClose /\ UNCHANGED <<error, lost>>
       \/ ~open /\ EnterOpen /\ UNCHANGED open
    /\ UNCHANGED <<callback, fd, broken, threadVars, result, wpc, fault>>

\* What a device that is no tty, an unknown baud rate or a failing tcsetattr
\* would do if the object went on with the descriptor it has closed.
OpenGoesOn ==
    /\ own = "opening" /\ fd' \in {"port", "closed"} /\ own' = "opened"
    /\ broken' \in BOOLEAN
    /\ UNCHANGED <<open, error, callback, threadVars, call, result, opens, wpc,
                   lost, fault>>

OpenDevice ==
    /\ own = "opening" /\ fd' = "port" /\ own' = "opened"
    /\ broken' \in BOOLEAN
    /\ UNCHANGED <<open, error, callback, threadVars, call, result, opens, wpc,
                   lost, fault>>

\* open(2) fails, or what follows does and the descriptor is closed again.
OpenThrows ==
    /\ own = "opening" /\ fd' \in {"invalid", "closed"} /\ Return("threw")
    /\ UNCHANGED <<open, error, callback, broken, threadVars, opens, wpc, lost,
                   fault>>

\* What a write that failed before has still to report counts for this session.
OpenClearError ==
    /\ Alive /\ own = "opened" /\ own' = "cleared" /\ error' = FALSE
    /\ fault' = (broken \/ \E w \in Writers : wpc[w] = "failed")
    /\ UNCHANGED <<open, callback, fd, broken, threadVars, call, result, opens,
                   wpc, lost>>

OpenPublish ==
    /\ Alive /\ own = "cleared" /\ own' = "published" /\ open' = TRUE
    /\ UNCHANGED <<error, callback, fd, broken, threadVars, call, result, opens,
                   wpc, lost, fault>>

\* The thread's constructor may throw, with the object open.
StartThread ==
    /\ Alive /\ own = "published"
    /\ \/ bg' = "loop" /\ Return("ok")
       \/ UNCHANGED bg /\ Return("threw")
    /\ UNCHANGED <<open, error, callback, fd, broken, reads, opens, wpc, lost,
                   fault>>

-----------------------------------------------------------------------------
(* The owner: close().                                                     *)

CallClose ==
    /\ Alive /\ own = "idle" /\ open /\ call' = "close" /\ EnterClose
    /\ UNCHANGED <<error, callback, fd, broken, threadVars, result, opens, wpc,
                   lost, fault>>

CloseForgotten ==
    /\ Alive /\ own = "closing" /\ own' = "join" /\ UNCHANGED fd
    /\ UNCHANGED <<open, error, callback, broken, threadVars, call, result,
                   opens, wpc, lost, fault>>

CloseFd ==
    /\ Alive /\ own = "closing" /\ own' = "join" /\ fd' = "closed"
    /\ UNCHANGED <<open, error, callback, broken, threadVars, call, result,
                   opens, wpc, lost, fault>>

\* The end of close() for each of its callers; `e`: it throws.
CloseEnds(e) ==
    CASE call = "close" ->
           /\ Return(IF e THEN "threw" ELSE "ok") /\ UNCHANGED <<error, lost>>
      [] call = "dtor" ->
           /\ own' = "destroyed" /\ UNCHANGED <<call, result, error, lost>>
      [] call = "open" ->
           \/ e /\ Return("threw") /\ UNCHANGED <<error, lost>>
           \/ ~e /\ EnterOpen /\ UNCHANGED <<call, result>>

CloseNoJoin ==
    /\ Alive /\ own = "join" /\ UNCHANGED threadVars
    /\ CloseEnds(error)
    /\ UNCHANGED <<open, callback, fd, broken, opens, wpc, fault>>

\* join() of no thread may throw as well.
CloseJoin ==
    /\ own = "join" /\ bg \in {"ended", "none"} /\ bg' = "none"
    /\ \/ CloseEnds(error)
       \/ bg = "none" /\ CloseEnds(TRUE)
    /\ UNCHANGED <<open, callback, fd, broken, reads, opens, wpc, fault>>

-----------------------------------------------------------------------------
(* The owner: the callback and the destructor, which clears it first.      *)

\* The functor that is replaced may be the one that runs; the call may not
\* survive that.
SwapCallback ==
    /\ callback' = "torn"
    /\ \/ UNCHANGED bg
       \/ bg = "callback" /\ bg' = "terminated"

CallSwap ==
    /\ Alive /\ own = "idle" /\ SwapCallback
    /\ \/ own' = "setting" /\ call' = "set"
       \/ own' = "clearing" /\ call' \in {"clear", "dtor"}
    /\ UNCHANGED <<open, error, fd, broken, reads, result, opens, wpc, lost,
                   fault>>

SwapDone ==
    /\ Alive
    /\ \/ own = "setting" /\ callback' = "set" /\ Return("ok") /\ UNCHANGED open
       \/ /\ own = "clearing" /\ callback' = "empty"
          /\ \/ call = "clear" /\ Return("ok") /\ UNCHANGED open
             \/ call = "dtor" /\ open /\ EnterClose /\ UNCHANGED <<call, result>>
             \/ /\ call = "dtor" /\ ~open /\ own' = "destroyed"
                /\ UNCHANGED <<call, result, open>>
    /\ UNCHANGED <<error, fd, broken, threadVars, opens, wpc, lost, fault>>

-----------------------------------------------------------------------------
(* write(): in the caller's thread, whatever isOpen() says.                *)

\* All of it is taken, by the device or by a file that got the number.
WriteOk(w) ==
    /\ Alive /\ own # "destroyed" /\ wpc[w] = "idle" /\ fd \in {"port", "other"}
    /\ UNCHANGED vars

WriteShort(w) ==
    /\ Alive /\ own # "destroyed" /\ wpc[w] = "idle"
    /\ wpc' = [wpc EXCEPT ![w] = "failed"]
    /\ lost' = (lost \/ open) /\ fault' = TRUE
    /\ UNCHANGED <<open, error, callback, fd, broken, threadVars, ownVars>>

WriteFlags(w) ==
    /\ Alive /\ own # "destroyed" /\ wpc[w] = "failed"
    /\ wpc' = [wpc EXCEPT ![w] = "idle"] /\ error' = TRUE
    /\ UNCHANGED <<open, callback, fd, broken, threadVars, ownVars, lost, fault>>

-----------------------------------------------------------------------------
(* doRead(), in the background thread.                                     *)

ReadCall ==
    /\ bg = "loop"
    /\ IF fd \in {"port", "other"} THEN bg' = "reading" /\ reads' = fd
                                   ELSE bg' = "failed" /\ UNCHANGED reads
    /\ UNCHANGED <<open, error, callback, fd, broken, ownVars, wpc, lost, fault>>

ReadReturns(b) ==
    /\ bg = "reading" /\ bg' = b /\ reads' = "none"
    /\ UNCHANGED <<open, callback, fd, broken, ownVars, wpc, lost, fault>>

\* A read that succeeds takes the error back.
ReadDataClears ==
    /\ reads = "other" \/ ~broken
    /\ ReadReturns("got") /\ error' = FALSE

\* Also without data, when the line hangs up.
ReadData ==
    /\ reads = "other" \/ ~broken
    /\ ReadReturns("got") /\ UNCHANGED error

\* The device fails, or close() has taken the descriptor away: that this wakes
\* a read under way is what the code hopes for and no system promises.
ReadFails ==
    /\ reads = "port" => broken \/ fd # "port"
    /\ ReadReturns("failed") /\ UNCHANGED error

\* A failed read ends the loop in silence.
ReadGivesUp ==
    /\ bg = "failed" /\ bg' = "ended" /\ UNCHANGED error
    /\ UNCHANGED <<open, callback, fd, broken, reads, ownVars, wpc, lost, fault>>

ReadFailed ==
    /\ bg = "failed"
    /\ \/ ~open /\ bg' = "ended" /\ UNCHANGED error
       \/ open /\ bg' = "loop" /\ error' = TRUE
    /\ UNCHANGED <<open, callback, fd, broken, reads, ownVars, wpc, lost, fault>>

\* if(pimpl->callback) pimpl->callback(...): two looks at a shared functor.
Looks(b, seen, unseen) ==
    /\ bg = b
    /\ \/ callback \in {"set", "torn"} /\ bg' = seen
       \/ callback \in {"empty", "torn"} /\ bg' = unseen
    /\ UNCHANGED <<open, error, callback, fd, broken, reads, ownVars, wpc, lost,
                   fault>>

TestCallback   == Looks("got", "invoke", "loop")
InvokeCallback == Looks("invoke", "callback", "terminated")

CallbackReturn ==
    /\ bg = "callback" /\ bg' = "loop"
    /\ UNCHANGED <<open, error, callback, fd, broken, reads, ownVars, wpc, lost,
                   fault>>

-----------------------------------------------------------------------------
(* The device, and the rest of the process.                                *)

Breaks ==
    /\ Alive /\ fd = "port" /\ ~broken /\ broken' = TRUE
    /\ fault' = TRUE
    /\ UNCHANGED <<open, error, callback, fd, threadVars, ownVars, wpc, lost>>

OtherOpens ==
    /\ Alive /\ fd = "closed" /\ own # "destroyed" /\ fd' = "other"
    /\ UNCHANGED <<open, error, callback, broken, threadVars, ownVars, wpc, lost,
                   fault>>

Ended == (own = "destroyed" \/ ~Alive) /\ UNCHANGED vars

OwnerProceeds ==
    \/ OpenDevice \/ OpenThrows \/ OpenClearError \/ OpenPublish \/ StartThread
    \/ CloseFd \/ CloseJoin \/ SwapDone

\* Steps that the thread takes without waiting for a device or a file.
Reader ==
    \/ ReadCall \/ ReadFailed \/ (reads = "port" /\ broken /\ ReadFails)
    \/ TestCallback \/ InvokeCallback \/ CallbackReturn

Next ==
    \/ CallOpen \/ CallClose \/ CallSwap
    \/ OwnerProceeds
    \/ \E w \in Writers : WriteOk(w) \/ WriteShort(w) \/ WriteFlags(w)
    \/ Reader
    \/ ReadFails \/ ReadData
    \/ Breaks
    \/ OtherOpens
    \/ Ended

Spec == Init /\ [][Next]_vars

\* Every thread that can run does, a callback returns, ::close() does not block,
\* and a read of a device that has failed comes back.  A read of a descriptor
\* that close() has closed under it need not.
Fairness ==
    /\ WF_vars(OwnerProceeds) /\ WF_vars(Reader)
    /\ \A w \in Writers : WF_vars(WriteFlags(w))
FairSpec == Spec /\ Fairness

-----------------------------------------------------------------------------
(* Properties.                                                             *)

\* The variables stay in range; an open object has its device, a read waits for
\* a file, and an owner in a call is where that call takes it.
TypeOK ==
    /\ open \in BOOLEAN /\ error \in BOOLEAN /\ broken \in BOOLEAN
    /\ lost \in BOOLEAN /\ fault \in BOOLEAN
    /\ callback \in {"set", "empty", "torn"}
    /\ fd \in Files /\ bg \in BgStates /\ reads \in {"none", "port", "other"}
    /\ own \in OwnStates /\ call \in Calls /\ result \in {"ok", "threw"}
    /\ wpc \in [Writers -> {"idle", "failed"}] /\ opens \in 0..MaxOpens
    /\ open => fd = "port"
    /\ own = "join" => call \in {"open", "close", "dtor"}

\* close() lowers the flag, closes the descriptor and joins in this order, so
\* that the thread cannot take the closing for an error: while the object is
\* open or being closed, an error is one that an operation has had.
NoFalseAlarm == (open \/ own \in {"closing", "join"}) /\ error => fault

\* write(): a write to the open object that failed shows in errorStatus() until
\* the next open(), from its writer's setErrorStatus() on; no success hides it.
LossReported == lost => error \/ \E w \in Writers : wpc[w] = "failed"

\* close() and open(): outside of these calls a closed object has no thread.
ThreadJoined ==
    own \in {"idle", "opening", "opened", "cleared", "published", "destroyed"}
    /\ ~open => bg \in {"none", "terminated"}

\* close(): unless a read stays blocked for ever, close() returns -- wherever the
\* lowered flag, the closed descriptor and the join meet the thread -- or
\* another file has got the descriptor's number before the thread has noticed.
CloseReturns ==
    []<>(reads = "none")
      => (own = "join" ~> (own # "join" \/ fd = "other" \/ ~Alive))

\* doRead(): a device that fails under an object with a thread is noticed.
FaultNoticed ==
    (open /\ broken /\ bg # "none") ~> (error \/ ~open \/ ~Alive)
=============================================================================
