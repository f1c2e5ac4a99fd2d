------------------------------- MODULE BusPi -------------------------------
(***************************************************************************)
(* The I2C transfers of WirePi (serial/arduPi.cpp): a caller that polls    *)
(* the registers of the BSC controller while the controller moves bytes    *)
(* between its FIFO and the bus.                                           *)
(*                                                                         *)
(* The controller is hardware, modelled from how the code drives it: one   *)
(* FIFO for both directions, a data length that a start takes over, a      *)
(* start during a transfer that becomes a repeated start, and DONE, ERR    *)
(* and CLKT, which stay set until the status is cleared.                   *)
(***************************************************************************)
EXTENDS Integers, Sequences

CONSTANTS
    FifoSize,       \* BCM2835_BSC_FIFO_SIZE
    MaxLen,         \* bound: bytes of a call
    MaxCalls        \* bound: calls, two more in an analogRead

ASSUME BusAssumption ==
    /\ FifoSize \in Nat \ {0} /\ MaxLen \in Nat \ {0} /\ MaxCalls \in Nat

VARIABLES
    act,            \* the controller's transfer, "idle" when TA is not set
    next,           \* the repeated start that waits for its end
    left,           \* bytes the transfer has still to move
    from,           \* history: the call that has started it
    fifo,           \* the FIFO
    status,         \* the sticky bits of BSC_S
    dlen,           \* BSC_DLEN
    pc,             \* where the caller is
    op,             \* the call it is in, or was in last
    len,            \* bytes that call is to move
    i,              \* bytes it has put into or taken from the FIFO
    buf,            \* what it has taken
    reason,         \* what it returns
    toRead,         \* i2c_bytes_to_read
    todo,           \* calls analogRead has still to make
    calls,          \* number of the call
    wire,           \* history: the bytes the device has got from this call
    dirty,          \* history: the call has found the controller at work
    missed          \* history: a read_rs has missed its write phase

hardware == <<act, next, left, from, fifo, status, wire>>
locals   == <<op, len, reason, toRead, todo, calls, dirty>>
vars == <<hardware, dlen, pc, locals, i, buf, missed>>

Ops == {"write", "read", "rs"}
Pcs == {"idle", "clearFifo", "clearStatus", "length", "fill", "start", "started",
        "relength", "restart", "delay", "poll", "move", "grab", "check"}
Reasons == {"OK", "NACK", "CLKT", "DATA"}

\* Bytes are known by the call they belong to: the n-th that the caller sends,
\* 0 for the register's address, or the one with n to come that a device sends.
Byte(n) == <<calls, n>>
Bytes   == (0..calls) \X (0..MaxLen)

Init ==
    /\ act = "idle" /\ next = "none" /\ left = 0 /\ from = 0
    /\ fifo = <<>> /\ status = {} /\ dlen = 0 /\ wire = <<>>
    /\ pc = "idle" /\ op = "write" /\ len = 0 /\ i = 0 /\ buf = <<>>
    /\ reason = "OK" /\ toRead = 0 /\ todo = <<>> /\ calls = 0
    /\ dirty = FALSE /\ missed = FALSE

Quiet == act = "idle" /\ next = "none"

-----------------------------------------------------------------------------
(* The calls.                                                              *)

Begin(o, n) ==
    /\ pc = "idle"
    /\ pc' = "clearFifo" /\ op' = o /\ len' = n
    /\ i' = 0 /\ buf' = <<>> /\ reason' = "OK" /\ wire' = <<>>
    /\ calls' = calls + 1 /\ dirty' = ~Quiet
    /\ UNCHANGED <<act, next, left, from, fifo, status, dlen, missed>>

Free == todo = <<>> /\ calls < MaxCalls

CallWrite ==
    /\ Free /\ \E n \in 1..MaxLen : Begin("write", n)
    /\ UNCHANGED <<toRead, todo>>

\* read() asks for one byte, and so does every read(buf) after it.
CallRead ==
    /\ Free
    /\ \E n \in {1, toRead} : Begin("read", n) /\ toRead' = n
    /\ UNCHANGED todo

CallReadRs ==
    /\ Free /\ \E n \in 1..MaxLen : Begin("rs", n)
    /\ UNCHANGED <<toRead, todo>>

requestFrom ==
    /\ pc = "idle" /\ todo = <<>> /\ toRead' \in 1..MaxLen
    /\ UNCHANGED <<hardware, dlen, pc, op, len, reason, todo, calls, dirty, i,
                   buf, missed>>

\* analogRead() writes the channel and reads two bytes, whatever these return.
CallAnalogRead ==
    /\ Free /\ Begin("write", 1) /\ todo' = <<"read", "read">>
    /\ UNCHANGED toRead

AnalogReads ==
    /\ todo # <<>> /\ Begin(Head(todo), 1)
    /\ todo' = Tail(todo) /\ toRead' = 1

-----------------------------------------------------------------------------
(* What the caller does with the registers.                                *)

GoOn(p) ==
    /\ pc' = p /\ UNCHANGED <<hardware, dlen, locals, i, buf, missed>>

ClearFifo ==
    /\ pc = "clearFifo" /\ pc' = "clearStatus" /\ fifo' = <<>>
    /\ UNCHANGED <<act, next, left, from, status, wire, dlen, locals, i, buf,
                   missed>>

\* The status of the call before is left as it is.
SkipStatus == pc = "clearStatus" /\ GoOn("length")

ClearStatus ==
    /\ pc = "clearStatus" /\ pc' = "length" /\ status' = {}
    /\ UNCHANGED <<act, next, left, from, fifo, wire, dlen, locals, i, buf,
                   missed>>

\* The length of the call before is left as it is.
SkipLength ==
    pc = "length" /\ GoOn(IF op = "read" THEN "start" ELSE "fill")

SetLength ==
    /\ pc = "length" /\ pc' = (IF op = "read" THEN "start" ELSE "fill")
    /\ dlen' = (IF op = "rs" THEN 1 ELSE len)
    /\ UNCHANGED <<hardware, locals, i, buf, missed>>

\* A FIFO that is full takes nothing.
Push(b) == fifo' = IF Len(fifo) < FifoSize THEN Append(fifo, b) ELSE fifo

Fill ==
    /\ pc = "fill"
    /\ \/ op = "write" /\ i < len /\ i < FifoSize /\ Push(Byte(i + 1))
          /\ i' = i + 1 /\ UNCHANGED pc
       \/ op = "write" /\ ~(i < len /\ i < FifoSize)
          /\ pc' = "start" /\ UNCHANGED <<fifo, i>>
       \/ op = "rs" /\ Push(Byte(0)) /\ pc' = "start" /\ UNCHANGED i
    /\ UNCHANGED <<act, next, left, from, status, wire, dlen, locals, buf,
                   missed>>

\* ST: the controller starts, or notes a repeated start.
Start(t) ==
    /\ IF act = "idle"
          THEN act' = t /\ left' = dlen /\ from' = calls /\ UNCHANGED next
          ELSE next' = t /\ UNCHANGED <<act, left, from>>
    /\ UNCHANGED <<fifo, status, wire, dlen, locals, i, buf>>

StartTransfer ==
    /\ pc = "start" /\ pc' = (IF op = "rs" THEN "started" ELSE "poll")
    /\ Start(IF op = "read" THEN "read" ELSE "write") /\ UNCHANGED missed

\* read_rs waits for TA, or for DONE if the write is over already.
Started ==
    /\ pc = "started" /\ (act # "idle" \/ "DONE" \in status)
    /\ GoOn("relength")

Relength ==
    /\ pc = "relength" /\ pc' = "restart" /\ dlen' = len
    /\ UNCHANGED <<hardware, locals, i, buf, missed>>

Restart ==
    /\ pc = "restart" /\ pc' = "delay" /\ Start("read")
    /\ missed' = (missed \/ act = "idle")

\* The caller polls at once and finds the register's address in the FIFO.
NoDelay == pc = "delay" /\ GoOn("poll")

\* delayMicroseconds(i2c_byte_wait_us * 3): the time of three bytes is enough
\* for the two of the write phase; a device that stretches the clock in it is
\* left out.
Delay == pc = "delay" /\ act # "write" /\ GoOn("poll")

\* One round of the loop, and no look at DONE after it.
PollOnce == pc = "poll" /\ (GoOn("move") \/ GoOn("check"))

Poll ==
    /\ pc = "poll"
    /\ GoOn(IF "DONE" \notin status THEN "move"
            ELSE IF op = "write" THEN "check" ELSE "grab")

\* `remaining` is not asked for.
FeedOn ==
    /\ pc = "move" /\ op = "write"
    /\ IF Len(fifo) < FifoSize
          THEN Push(Byte(i + 1)) /\ i' = i + 1 /\ UNCHANGED pc
          ELSE pc' = "poll" /\ UNCHANGED <<fifo, i>>
    /\ UNCHANGED <<act, next, left, from, status, wire, dlen, locals, buf,
                   missed>>

Feed ==
    /\ pc = "move" /\ op = "write"
    /\ IF i # len /\ Len(fifo) < FifoSize
          THEN Push(Byte(i + 1)) /\ i' = i + 1 /\ UNCHANGED pc
          ELSE pc' = "poll" /\ UNCHANGED <<fifo, i>>
    /\ UNCHANGED <<act, next, left, from, status, wire, dlen, locals, buf,
                   missed>>

Take ==
    /\ buf' = Append(buf, Head(fifo)) /\ fifo' = Tail(fifo) /\ i' = i + 1
    /\ UNCHANGED <<pc, act, next, left, from, status, wire, dlen, locals, missed>>

\* read() looks at the FIFO only, read_rs() at what it has still to take too.
Drain ==
    /\ pc = "move" /\ op # "write"
    /\ IF fifo # <<>> /\ (op = "rs" => i # len) THEN Take ELSE GoOn("poll")

Grab ==
    /\ pc = "grab"
    /\ IF fifo # <<>> /\ i # len THEN Take ELSE GoOn("check")

\* DONE is then written to the control register, where it does nothing.
Check ==
    /\ pc = "check" /\ pc' = "idle"
    /\ reason' = CASE "ERR" \in status  -> "NACK"
                   [] "ERR" \notin status /\ "CLKT" \in status -> "CLKT"
                   [] status \cap {"ERR", "CLKT"} = {} /\ i # len -> "DATA"
                   [] OTHER -> "OK"
    /\ UNCHANGED <<hardware, dlen, op, len, toRead, todo, calls, dirty, i, buf,
                   missed>>

-----------------------------------------------------------------------------
(* The controller and the device.                                          *)

caller == <<dlen, pc, locals, i, buf, missed>>

Shift ==
    /\ act # "idle" /\ left > 0 /\ left' = left - 1
    /\ \/ /\ act = "write" /\ fifo # <<>>
          /\ wire' = Append(wire, Head(fifo)) /\ fifo' = Tail(fifo)
       \/ /\ act = "read" /\ Len(fifo) < FifoSize
          /\ fifo' = Append(fifo, <<from, left>>) /\ UNCHANGED wire
    /\ UNCHANGED <<act, next, from, status, caller>>

Finish ==
    /\ act # "idle" /\ left = 0 /\ act' = (IF next = "none" THEN "idle" ELSE next)
    /\ IF next = "none"
          THEN status' = status \cup {"DONE"} /\ UNCHANGED <<next, left, from>>
          ELSE next' = "none" /\ left' = dlen /\ from' = calls /\ UNCHANGED status
    /\ UNCHANGED <<fifo, wire, caller>>

\* No acknowledgement, or a clock held for too long, ends what was asked for.
Fails ==
    /\ act # "idle" /\ act' = "idle" /\ next' = "none" /\ left' = 0
    /\ \E e \in {"ERR", "CLKT"} : status' = status \cup {"DONE", e}
    /\ UNCHANGED <<from, fifo, wire, caller>>

Proceed ==
    \/ AnalogReads
    \/ ClearFifo \/ ClearStatus \/ SetLength \/ Fill \/ StartTransfer
    \/ Started \/ Relength \/ Restart \/ Delay
    \/ Poll \/ Feed \/ Drain \/ Grab \/ Check

Next ==
    \/ CallWrite \/ CallRead \/ CallReadRs \/ requestFrom \/ CallAnalogRead
    \/ Proceed
    \/ Shift \/ Finish \/ Fails

Spec == Init /\ [][Next]_vars

\* The caller polls without end; a transfer that has room or data for a byte
\* moves it, or fails.
Fairness == WF_vars(Proceed) /\ WF_vars(Shift \/ Finish)
FairSpec == Spec /\ Fairness

-----------------------------------------------------------------------------
(* Properties.                                                             *)

ControllerOK ==
    /\ act \in {"idle", "write", "read"} /\ next \in {"none", "write", "read"}
    /\ left \in 0..MaxLen /\ from \in 0..calls /\ dlen \in 0..MaxLen
    /\ {fifo, wire} \subseteq Seq(Bytes) /\ Len(fifo) <= FifoSize
    /\ status \subseteq {"DONE", "ERR", "CLKT"}

CallerOK ==
    /\ pc \in Pcs /\ op \in Ops /\ len \in 0..MaxLen /\ i \in Nat
    /\ buf \in Seq(Bytes) /\ reason \in Reasons /\ toRead \in 0..MaxLen
    /\ todo \in Seq({"read"}) /\ calls \in 0..(MaxCalls + 2)
    /\ dirty \in BOOLEAN /\ missed \in BOOLEAN
    /\ IF op = "write" THEN i <= len ELSE Len(buf) = i

\* The variables stay in range, the FIFO within its size; a call sends no more
\* than it was given and has stored what it has taken.
TypeOK == ControllerOK /\ CallerOK

Sent     == [k \in 1..len |-> Byte(k)]
Received == [k \in 1..len |-> Byte(len + 1 - k)]

\* write, read, read_rs: a call on a controller at rest that returns OK has
\* moved each of its bytes once, in order, and none of another call.
OkIsOwn ==
    pc = "idle" /\ calls > 0 /\ ~dirty /\ reason = "OK" =>
      CASE op = "write" -> wire = Sent
        [] op = "read"  -> buf = Received
        [] op = "rs"    -> buf = Received /\ wire = <<Byte(0)>>

\* read() does not look at `remaining`: on a controller at rest it stores no
\* more than it was asked for all the same.
NoOverrun == ~dirty => i <= len

\* Every call leaves the controller at rest, but a read_rs whose write phase is
\* over, or has failed, before it asks for the read: the DONE of the one is
\* taken for that of the other.
OnlyMissLeavesBusy == dirty \/ (pc = "idle" /\ ~Quiet) => missed

\* A call on a controller at rest returns.
CallReturns == (pc # "idle" /\ ~dirty) ~> pc = "idle"
=============================================================================
