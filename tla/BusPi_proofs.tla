---------------------------- MODULE BusPi_proofs ----------------------------
(***************************************************************************)
(* Theorems about BusPi for any size of the FIFO, length and number of     *)
(* calls: first what the controller and the caller do to each other, then  *)
(* whose bytes a call has moved.                                           *)
(***************************************************************************)
EXTENDS BusPi, SequenceTheorems, TLAPS

\* Each place of the caller belongs to some of the calls.
Places ==
    /\ calls + Len(todo) <= MaxCalls + 2
    /\ pc = "fill" => op # "read"
    /\ pc \in {"started", "relength", "restart", "delay"} => op = "rs"
    /\ pc = "grab" => op # "write"
    /\ i <= len \/ op = "read"

\* Until a read_rs misses its write phase, the controller rests before a start
\* and once DONE is set.
Rests ==
    ~missed =>
      /\ ~dirty
      /\ pc \in {"idle", "clearFifo", "clearStatus", "length", "fill", "start",
                "grab", "check"} => Quiet
      /\ pc \in {"length", "fill", "start"} => status = {}
      /\ pc \in {"started", "relength", "restart", "delay", "poll", "move"} =>
            ("DONE" \in status => Quiet)
      /\ pc \in {"started", "relength", "restart"} => next = "none"

\* read(): what it has taken, what the FIFO holds and what is still to come are
\* no more than it has asked for.
Room ==
    ~dirty /\ op = "read" =>
      IF pc \in {"clearFifo", "clearStatus", "length", "start"}
      THEN /\ Quiet /\ i = 0
           /\ pc # "clearFifo" => fifo = <<>>
           /\ pc = "start" => dlen = len
      ELSE /\ next = "none" /\ act \in {"idle", "read"}
           /\ i + Len(fifo) + left <= len

IInv == TypeOK /\ Places /\ Rests /\ Room

\* What adding a byte and taking one do to a sequence of bytes.
LEMMA QueueFacts ==
    ASSUME NEW S, NEW q \in Seq(S)
    PROVE  /\ Len(q) \in Nat /\ <<>> \in Seq(S) /\ Len(<<>>) = 0
           /\ \A b \in S :
                 Append(q, b) \in Seq(S) /\ Len(Append(q, b)) = Len(q) + 1
           /\ q # <<>> => /\ Head(q) \in S /\ Tail(q) \in Seq(S)
                         /\ Len(Tail(q)) = Len(q) - 1
  BY HeadTailProperties, LenProperties, EmptySeq

\* The same of the sequences of the model.
QueueOps ==
    /\ Len(fifo) \in Nat /\ <<>> \in Seq(Bytes) /\ Len(<<>>) = 0
    /\ Len(todo) \in Nat
    /\ todo # <<>> => /\ Head(todo) = "read" /\ Tail(todo) \in Seq({"read"})
                     /\ Len(Tail(todo)) = Len(todo) - 1
    /\ \A b \in Bytes : /\ Append(fifo, b) \in Seq(Bytes)
                       /\ Len(Append(fifo, b)) = Len(fifo) + 1
                       /\ Append(wire, b) \in Seq(Bytes)
                       /\ Append(buf, b) \in Seq(Bytes)
                       /\ Len(Append(buf, b)) = Len(buf) + 1
    /\ fifo # <<>> => /\ Head(fifo) \in Bytes /\ Tail(fifo) \in Seq(Bytes)
                     /\ Len(Tail(fifo)) = Len(fifo) - 1

LEMMA Queues == TypeOK => QueueOps
<1> SUFFICES ASSUME TypeOK PROVE QueueOps
  OBVIOUS
<1>1. /\ fifo \in Seq(Bytes) /\ wire \in Seq(Bytes) /\ buf \in Seq(Bytes)
      /\ todo \in Seq({"read"})
  BY DEF TypeOK, ControllerOK, CallerOK
<1> QED  BY <1>1, QueueFacts DEF QueueOps

\* The controller at rest, the caller between calls: the invariant holds.
LEMMA InitIInv == Init => IInv
<1> SUFFICES ASSUME Init PROVE IInv
  OBVIOUS
<1>1. ControllerOK
  BY BusAssumption, EmptySeq DEF Init, ControllerOK
<1>2. CallerOK
  <2>1. buf \in Seq(Bytes) /\ todo \in Seq({"read"})
         /\ calls \in 0..(MaxCalls + 2)
    BY BusAssumption, EmptySeq DEF Init
  <2>2. len \in 0..MaxLen /\ toRead \in 0..MaxLen /\ i \in Nat /\ i <= len
    BY BusAssumption DEF Init
  <2> QED  BY <2>1, <2>2 DEF Init, CallerOK, Pcs, Ops, Reasons
<1>3. Places /\ Rests /\ Room
  BY BusAssumption, EmptySeq DEF Init, Places, Rests, Room, Quiet
<1> QED  BY <1>1, <1>2, <1>3 DEF IInv, TypeOK

\* The caller takes the first byte of the FIFO.
Taken ==
    /\ fifo' \in Seq(Bytes) /\ Len(fifo') = Len(fifo) - 1
    /\ buf' \in Seq(Bytes) /\ Len(buf') = Len(buf) + 1 /\ i' = i + 1
    /\ UNCHANGED <<pc, act, next, left, from, status, wire, dlen, op, len, reason,
                   toRead, todo, calls, dirty, missed>>

LEMMA Takes == ASSUME TypeOK, Take, fifo # <<>> PROVE Taken
<1>1. /\ Head(fifo) \in Bytes /\ Tail(fifo) \in Seq(Bytes)
      /\ Len(Tail(fifo)) = Len(fifo) - 1
      /\ Append(buf, Head(fifo)) \in Seq(Bytes)
      /\ Len(Append(buf, Head(fifo))) = Len(buf) + 1
  BY Queues DEF QueueOps
<1>2. buf' = Append(buf, Head(fifo)) /\ fifo' = Tail(fifo) /\ i' = i + 1
  BY DEF Take
<1>3. UNCHANGED <<pc, act, next, left, from, status, wire, dlen, op, len, reason,
                  toRead, todo, calls, dirty, missed>>
  BY DEF Take, locals
<1> QED  BY <1>1, <1>2, <1>3 DEF Taken

\* The FIFO takes a byte if there is room.
LEMMA Pushes ==
    ASSUME TypeOK, NEW b \in Bytes, Push(b)
    PROVE  fifo' \in Seq(Bytes) /\ Len(fifo') <= FifoSize
  BY Queues, BusAssumption DEF QueueOps, Push, TypeOK, ControllerOK

\* A new call keeps the controller as it is; there is one more call to know its
\* bytes by.
LEMMA Begins ==
    ASSUME TypeOK, NEW o, NEW n, Begin(o, n)
    PROVE  ControllerOK'
<1>1. /\ calls \in Nat /\ calls' = calls + 1 /\ wire' = <<>>
      /\ UNCHANGED <<act, next, left, from, fifo, status, dlen>>
  BY BusAssumption DEF Begin, TypeOK, CallerOK
<1>2. Bytes \subseteq Bytes' /\ 0..calls \subseteq 0..calls'
  BY <1>1 DEF Bytes
<1>3. fifo' \in Seq(Bytes') /\ wire' \in Seq(Bytes')
  BY <1>1, <1>2, SeqMonotonic, EmptySeq DEF TypeOK, ControllerOK
<1> QED  BY <1>1, <1>2, <1>3 DEF TypeOK, ControllerOK

\* Taking a byte keeps the controller's types.
LEMMA TakeKeeps == ASSUME TypeOK, Take, fifo # <<>> PROVE ControllerOK'
<1>1. Taken /\ Len(fifo) \in Nat
  BY Takes, Queues DEF QueueOps
<1>2. Bytes' = Bytes
  BY <1>1 DEF Taken, Bytes
<1>3. fifo' \in Seq(Bytes) /\ Len(fifo') <= FifoSize
  BY <1>1, BusAssumption DEF Taken, TypeOK, ControllerOK
<1> QED  BY <1>1, <1>2, <1>3 DEF Taken, TypeOK, ControllerOK

\* A byte goes over the bus.
LEMMA ShiftKeeps == ASSUME TypeOK, Shift PROVE ControllerOK'
<1>1. left' \in 0..MaxLen /\ left > 0
  BY BusAssumption DEF Shift, TypeOK, ControllerOK
<1>2. UNCHANGED <<act, next, from, status, dlen, calls>>
  BY DEF Shift, caller, locals
<1>3. Bytes' = Bytes
  BY <1>2 DEF Bytes
<1>4. fifo' \in Seq(Bytes) /\ Len(fifo') <= FifoSize /\ wire' \in Seq(Bytes)
  <2>1. CASE act = "write" /\ fifo # <<>> /\ wire' = Append(wire, Head(fifo))
             /\ fifo' = Tail(fifo)
    BY <2>1, Queues, BusAssumption DEF QueueOps, TypeOK, ControllerOK
  <2>2. CASE /\ act = "read" /\ Len(fifo) < FifoSize
             /\ fifo' = Append(fifo, <<from, left>>) /\ UNCHANGED wire
    <3>1. <<from, left>> \in Bytes
      BY <1>1, BusAssumption DEF TypeOK, ControllerOK, CallerOK, Bytes
    <3> QED  BY <2>2, <3>1, Queues, BusAssumption DEF QueueOps, TypeOK,
     ControllerOK
  <2> QED  BY <2>1, <2>2 DEF Shift
<1> QED  BY <1>1, <1>2, <1>3, <1>4 DEF TypeOK, ControllerOK

\* A transfer ends, or becomes the repeated start that waits.
LEMMA FinishKeeps == ASSUME TypeOK, Finish PROVE ControllerOK'
<1>1. UNCHANGED <<fifo, wire, calls, dlen>>
  BY DEF Finish, caller, locals
<1>2. Bytes' = Bytes
  BY <1>1 DEF Bytes
<1>3. left' \in 0..MaxLen /\ from' \in 0..calls
  BY DEF Finish, TypeOK, ControllerOK, CallerOK
<1>4. act' \in {"idle", "write", "read"} /\ next' \in {"none", "write", "read"}
      /\ status' \subseteq {"DONE", "ERR", "CLKT"}
  BY DEF Finish, TypeOK, ControllerOK
<1> QED  BY <1>1, <1>2, <1>3, <1>4 DEF TypeOK, ControllerOK

\* A step keeps the types of the controller.
LEMMA ControllerStep == IInv /\ [Next]_vars => ControllerOK'
<1> SUFFICES ASSUME IInv, [Next]_vars PROVE ControllerOK'
  OBVIOUS
<1>k. Shift \/ Finish => ControllerOK'
  BY ShiftKeeps, FinishKeeps DEF IInv
<1>r. fifo # <<>> /\ Take => ControllerOK'
  BY TakeKeeps DEF IInv
<1>p. \A b \in Bytes : Push(b) => fifo' \in Seq(Bytes) /\ Len(fifo') <= FifoSize
  BY Pushes DEF IInv
<1>q. QueueOps /\ (calls' = calls => Bytes' = Bytes)
  BY Queues DEF IInv, Bytes
<1>y. /\ Byte(0) \in Bytes /\ (i < len => Byte(i + 1) \in Bytes)
      /\ left > 0 => <<from, left>> \in Bytes
  BY BusAssumption DEF IInv, TypeOK, ControllerOK, CallerOK, Byte, Bytes
<1> USE <1>q, BusAssumption DEF QueueOps, IInv, TypeOK, ControllerOK, CallerOK,
     Places, hardware, locals, caller, Ops
<1>1. CASE CallWrite
  BY <1>1, Begins DEF CallWrite
<1>2. CASE CallRead
  BY <1>2, Begins DEF CallRead
<1>3. CASE CallReadRs
  BY <1>3, Begins DEF CallReadRs
<1>4. CASE requestFrom
  BY <1>4 DEF requestFrom
<1>5. CASE CallAnalogRead
  BY <1>5, Begins DEF CallAnalogRead
<1>6. CASE AnalogReads
  BY <1>6, Begins DEF AnalogReads
<1>7. CASE ClearFifo
  BY <1>7 DEF ClearFifo
<1>8. CASE ClearStatus
  BY <1>8 DEF ClearStatus
<1>9. CASE SetLength
  BY <1>9 DEF SetLength, GoOn
<1>10. CASE Fill
  <2>1. CASE op = "write" /\ i < len /\ i < FifoSize
    <3>1. Push(Byte(i + 1))
      BY <1>10, <2>1 DEF Fill
    <3> QED  BY <1>10, <1>p, <1>y, <2>1, <3>1 DEF Fill
  <2>2. CASE op = "rs"
    <3>1. Push(Byte(0))
      BY <1>10, <2>2 DEF Fill
    <3> QED  BY <1>10, <1>p, <1>y, <3>1 DEF Fill
  <2>3. CASE op = "write" /\ ~(i < len /\ i < FifoSize)
    BY <1>10, <2>3 DEF Fill
  <2> QED  BY <1>10, <2>1, <2>2, <2>3 DEF Fill
<1>11. CASE StartTransfer
  BY <1>11 DEF StartTransfer, Start
<1>12. CASE Started
  BY <1>12 DEF Started, GoOn
<1>13. CASE Relength
  BY <1>13 DEF Relength
<1>14. CASE Restart
  <2>1. CASE act = "idle"
    BY <1>14, <2>1 DEF Restart, Start
  <2>2. CASE act # "idle"
    BY <1>14, <2>2 DEF Restart, Start
  <2> QED  BY <2>1, <2>2
<1>15. CASE Delay
  BY <1>15 DEF Delay, GoOn
<1>16. CASE Poll
  BY <1>16 DEF Poll, GoOn
<1>17. CASE Feed
  <2>1. CASE i # len /\ Len(fifo) < FifoSize
    <3>1. Push(Byte(i + 1)) /\ i < len
      BY <1>17, <2>1 DEF Feed
    <3> QED  BY <1>17, <1>p, <1>y, <3>1 DEF Feed
  <2>2. CASE ~(i # len /\ Len(fifo) < FifoSize)
    BY <1>17, <2>2 DEF Feed
  <2> QED  BY <2>1, <2>2
<1>18. CASE Drain
  <2>1. CASE fifo # <<>> /\ (op = "rs" => i # len)
    <3>1. Take
      BY <1>18, <2>1 DEF Drain
    <3> QED  BY <2>1, <3>1, <1>r
  <2>2. CASE ~(fifo # <<>> /\ (op = "rs" => i # len))
    BY <1>18, <2>2 DEF Drain, GoOn
  <2> QED  BY <2>1, <2>2
<1>19. CASE Grab
  <2>1. CASE fifo # <<>> /\ i # len
    <3>1. Take
      BY <1>19, <2>1 DEF Grab
    <3> QED  BY <2>1, <3>1, <1>r
  <2>2. CASE ~(fifo # <<>> /\ i # len)
    BY <1>19, <2>2 DEF Grab, GoOn
  <2> QED  BY <2>1, <2>2
<1>20. CASE Check
  BY <1>20 DEF Check
<1>21. CASE Shift
  BY <1>21, <1>k
<1>22. CASE Finish
  BY <1>22, <1>k
<1>23. CASE Fails
  BY <1>23 DEF Fails
<1>24. CASE UNCHANGED vars
  BY <1>24 DEF vars
<1> QED
  BY <1>1, <1>2, <1>3, <1>4, <1>5, <1>6, <1>7, <1>8, <1>9, <1>10, <1>11, <1>12,
     <1>13, <1>14, <1>15, <1>16, <1>17, <1>18, <1>19, <1>20, <1>21, <1>22,
     <1>23, <1>24
     DEF Next, Proceed

\* A step keeps the types of the caller.
LEMMA CallerStep == IInv /\ [Next]_vars => CallerOK'
<1> SUFFICES ASSUME IInv, [Next]_vars PROVE CallerOK'
  OBVIOUS
<1>t. fifo # <<>> /\ Take => Taken
  BY Takes DEF IInv
<1>q. QueueOps /\ (calls' = calls => Bytes' = Bytes)
  BY Queues DEF IInv, Bytes
<1>y. /\ Byte(0) \in Bytes /\ (i < len => Byte(i + 1) \in Bytes)
      /\ left > 0 => <<from, left>> \in Bytes
  BY BusAssumption DEF IInv, TypeOK, ControllerOK, CallerOK, Byte, Bytes
<1> USE <1>q, BusAssumption DEF QueueOps, IInv, TypeOK, ControllerOK, CallerOK,
     Places, hardware, locals, caller,
     Pcs, Ops, Reasons
<1>1. CASE CallWrite
  BY <1>1 DEF CallWrite, Begin, Free
<1>2. CASE CallRead
  BY <1>2 DEF CallRead, Begin, Free
<1>3. CASE CallReadRs
  BY <1>3 DEF CallReadRs, Begin, Free
<1>4. CASE requestFrom
  BY <1>4 DEF requestFrom
<1>5. CASE CallAnalogRead
  BY <1>5 DEF CallAnalogRead, Begin, Free
<1>6. CASE AnalogReads
  BY <1>6 DEF AnalogReads, Begin
<1>7. CASE ClearFifo
  BY <1>7 DEF ClearFifo
<1>8. CASE ClearStatus
  BY <1>8 DEF ClearStatus
<1>9. CASE SetLength
  BY <1>9 DEF SetLength, GoOn
<1>10. CASE Fill
  <2>1. CASE op = "write" /\ i < len /\ i < FifoSize
    BY <1>10, <2>1 DEF Fill, Push, Byte
  <2>2. CASE op = "rs"
    BY <1>10, <2>2 DEF Fill, Push, Byte
  <2>3. CASE op = "write" /\ ~(i < len /\ i < FifoSize)
    BY <1>10, <2>3 DEF Fill
  <2> QED  BY <1>10, <2>1, <2>2, <2>3 DEF Fill
<1>11. CASE StartTransfer
  BY <1>11 DEF StartTransfer, Start
<1>12. CASE Started
  BY <1>12 DEF Started, GoOn
<1>13. CASE Relength
  BY <1>13 DEF Relength
<1>14. CASE Restart
  BY <1>14 DEF Restart, Start
<1>15. CASE Delay
  BY <1>15 DEF Delay, GoOn
<1>16. CASE Poll
  BY <1>16 DEF Poll, GoOn
<1>17. CASE Feed
  <2>1. CASE i # len /\ Len(fifo) < FifoSize
    BY <1>17, <2>1 DEF Feed, Push, Byte
  <2>2. CASE ~(i # len /\ Len(fifo) < FifoSize)
    BY <1>17, <2>2 DEF Feed
  <2> QED  BY <2>1, <2>2
<1>18. CASE Drain
  <2>1. CASE fifo # <<>> /\ (op = "rs" => i # len)
    <3>1. Take
      BY <1>18, <2>1 DEF Drain
    <3> QED  BY <1>18, <2>1, <3>1, <1>t DEF Drain, Taken
  <2>2. CASE ~(fifo # <<>> /\ (op = "rs" => i # len))
    BY <1>18, <2>2 DEF Drain, GoOn
  <2> QED  BY <2>1, <2>2
<1>19. CASE Grab
  <2>1. CASE fifo # <<>> /\ i # len
    <3>1. Take
      BY <1>19, <2>1 DEF Grab
    <3> QED  BY <1>19, <2>1, <3>1, <1>t DEF Grab, Taken
  <2>2. CASE ~(fifo # <<>> /\ i # len)
    BY <1>19, <2>2 DEF Grab, GoOn
  <2> QED  BY <2>1, <2>2
<1>20. CASE Check
  BY <1>20 DEF Check
<1>21. CASE Shift
  BY <1>21 DEF Shift
<1>22. CASE Finish
  BY <1>22 DEF Finish
<1>23. CASE Fails
  BY <1>23 DEF Fails
<1>24. CASE UNCHANGED vars
  BY <1>24 DEF vars
<1> QED
  BY <1>1, <1>2, <1>3, <1>4, <1>5, <1>6, <1>7, <1>8, <1>9, <1>10, <1>11, <1>12,
     <1>13, <1>14, <1>15, <1>16, <1>17, <1>18, <1>19, <1>20, <1>21, <1>22,
     <1>23, <1>24
     DEF Next, Proceed

\* A step keeps what belongs to a place of the caller.
LEMMA PlacesStep == IInv /\ [Next]_vars => Places'
<1> SUFFICES ASSUME IInv, [Next]_vars PROVE Places'
  OBVIOUS
<1>t. fifo # <<>> /\ Take => Taken
  BY Takes DEF IInv
<1>q. QueueOps /\ (calls' = calls => Bytes' = Bytes)
  BY Queues DEF IInv, Bytes
<1>y. /\ Byte(0) \in Bytes /\ (i < len => Byte(i + 1) \in Bytes)
      /\ left > 0 => <<from, left>> \in Bytes
  BY BusAssumption DEF IInv, TypeOK, ControllerOK, CallerOK, Byte, Bytes
<1> USE <1>q, BusAssumption DEF QueueOps, IInv, TypeOK, ControllerOK, CallerOK,
     Places, hardware, locals, caller,
     Ops, Pcs
<1>1. CASE CallWrite
  BY <1>1 DEF CallWrite, Begin, Free
<1>2. CASE CallRead
  BY <1>2 DEF CallRead, Begin, Free
<1>3. CASE CallReadRs
  BY <1>3 DEF CallReadRs, Begin, Free
<1>4. CASE requestFrom
  BY <1>4 DEF requestFrom
<1>5. CASE CallAnalogRead
  BY <1>5 DEF CallAnalogRead, Begin, Free
<1>6. CASE AnalogReads
  BY <1>6 DEF AnalogReads, Begin
<1>7. CASE ClearFifo
  BY <1>7 DEF ClearFifo
<1>8. CASE ClearStatus
  BY <1>8 DEF ClearStatus
<1>9. CASE SetLength
  BY <1>9 DEF SetLength, GoOn
<1>10. CASE Fill
  <2>1. CASE op = "write" /\ i < len /\ i < FifoSize
    BY <1>10, <2>1 DEF Fill, Push, Byte
  <2>2. CASE op = "rs"
    BY <1>10, <2>2 DEF Fill, Push, Byte
  <2>3. CASE op = "write" /\ ~(i < len /\ i < FifoSize)
    BY <1>10, <2>3 DEF Fill
  <2> QED  BY <1>10, <2>1, <2>2, <2>3 DEF Fill
<1>11. CASE StartTransfer
  BY <1>11 DEF StartTransfer, Start
<1>12. CASE Started
  BY <1>12 DEF Started, GoOn
<1>13. CASE Relength
  BY <1>13 DEF Relength
<1>14. CASE Restart
  BY <1>14 DEF Restart, Start
<1>15. CASE Delay
  BY <1>15 DEF Delay, GoOn
<1>16. CASE Poll
  BY <1>16 DEF Poll, GoOn
<1>17. CASE Feed
  <2>1. CASE i # len /\ Len(fifo) < FifoSize
    BY <1>17, <2>1 DEF Feed, Push, Byte
  <2>2. CASE ~(i # len /\ Len(fifo) < FifoSize)
    BY <1>17, <2>2 DEF Feed
  <2> QED  BY <2>1, <2>2
<1>18. CASE Drain
  <2>1. CASE fifo # <<>> /\ (op = "rs" => i # len)
    <3>1. Take
      BY <1>18, <2>1 DEF Drain
    <3> QED  BY <1>18, <2>1, <3>1, <1>t DEF Drain, Taken
  <2>2. CASE ~(fifo # <<>> /\ (op = "rs" => i # len))
    BY <1>18, <2>2 DEF Drain, GoOn
  <2> QED  BY <2>1, <2>2
<1>19. CASE Grab
  <2>1. CASE fifo # <<>> /\ i # len
    <3>1. Take
      BY <1>19, <2>1 DEF Grab
    <3> QED  BY <1>19, <2>1, <3>1, <1>t DEF Grab, Taken
  <2>2. CASE ~(fifo # <<>> /\ i # len)
    BY <1>19, <2>2 DEF Grab, GoOn
  <2> QED  BY <2>1, <2>2
<1>20. CASE Check
  BY <1>20 DEF Check
<1>21. CASE Shift
  BY <1>21 DEF Shift
<1>22. CASE Finish
  BY <1>22 DEF Finish
<1>23. CASE Fails
  BY <1>23 DEF Fails
<1>24. CASE UNCHANGED vars
  BY <1>24 DEF vars
<1> QED
  BY <1>1, <1>2, <1>3, <1>4, <1>5, <1>6, <1>7, <1>8, <1>9, <1>10, <1>11, <1>12,
     <1>13, <1>14, <1>15, <1>16, <1>17, <1>18, <1>19, <1>20, <1>21, <1>22,
     <1>23, <1>24
     DEF Next, Proceed

\* Without a missed write phase a step leaves the controller at rest where it was.
LEMMA RestsStep == IInv /\ [Next]_vars => Rests'
<1> SUFFICES ASSUME IInv, [Next]_vars PROVE Rests'
  OBVIOUS
<1>t. fifo # <<>> /\ Take => Taken
  BY Takes DEF IInv
<1>q. QueueOps /\ (calls' = calls => Bytes' = Bytes)
  BY Queues DEF IInv, Bytes
<1>y. /\ Byte(0) \in Bytes /\ (i < len => Byte(i + 1) \in Bytes)
      /\ left > 0 => <<from, left>> \in Bytes
  BY BusAssumption DEF IInv, TypeOK, ControllerOK, CallerOK, Byte, Bytes
<1> USE <1>q, BusAssumption DEF QueueOps, IInv, TypeOK, ControllerOK, CallerOK,
     Places, hardware, locals, caller,
     Rests, Quiet
<1>1. CASE CallWrite
  BY <1>1 DEF CallWrite, Begin, Free
<1>2. CASE CallRead
  BY <1>2 DEF CallRead, Begin, Free
<1>3. CASE CallReadRs
  BY <1>3 DEF CallReadRs, Begin, Free
<1>4. CASE requestFrom
  BY <1>4 DEF requestFrom
<1>5. CASE CallAnalogRead
  BY <1>5 DEF CallAnalogRead, Begin, Free
<1>6. CASE AnalogReads
  BY <1>6 DEF AnalogReads, Begin
<1>7. CASE ClearFifo
  BY <1>7 DEF ClearFifo
<1>8. CASE ClearStatus
  BY <1>8 DEF ClearStatus
<1>9. CASE SetLength
  BY <1>9 DEF SetLength, GoOn
<1>10. CASE Fill
  <2>1. CASE op = "write" /\ i < len /\ i < FifoSize
    BY <1>10, <2>1 DEF Fill, Push, Byte
  <2>2. CASE op = "rs"
    BY <1>10, <2>2 DEF Fill, Push, Byte
  <2>3. CASE op = "write" /\ ~(i < len /\ i < FifoSize)
    BY <1>10, <2>3 DEF Fill
  <2> QED  BY <1>10, <2>1, <2>2, <2>3 DEF Fill
<1>11. CASE StartTransfer
  BY <1>11 DEF StartTransfer, Start
<1>12. CASE Started
  BY <1>12 DEF Started, GoOn
<1>13. CASE Relength
  BY <1>13 DEF Relength
<1>14. CASE Restart
  BY <1>14 DEF Restart, Start
<1>15. CASE Delay
  BY <1>15 DEF Delay, GoOn
<1>16. CASE Poll
  BY <1>16 DEF Poll, GoOn
<1>17. CASE Feed
  <2>1. CASE i # len /\ Len(fifo) < FifoSize
    BY <1>17, <2>1 DEF Feed, Push, Byte
  <2>2. CASE ~(i # len /\ Len(fifo) < FifoSize)
    BY <1>17, <2>2 DEF Feed
  <2> QED  BY <2>1, <2>2
<1>18. CASE Drain
  <2>1. CASE fifo # <<>> /\ (op = "rs" => i # len)
    <3>1. Take
      BY <1>18, <2>1 DEF Drain
    <3> QED  BY <1>18, <2>1, <3>1, <1>t DEF Drain, Taken
  <2>2. CASE ~(fifo # <<>> /\ (op = "rs" => i # len))
    BY <1>18, <2>2 DEF Drain, GoOn
  <2> QED  BY <2>1, <2>2
<1>19. CASE Grab
  <2>1. CASE fifo # <<>> /\ i # len
    <3>1. Take
      BY <1>19, <2>1 DEF Grab
    <3> QED  BY <1>19, <2>1, <3>1, <1>t DEF Grab, Taken
  <2>2. CASE ~(fifo # <<>> /\ i # len)
    BY <1>19, <2>2 DEF Grab, GoOn
  <2> QED  BY <2>1, <2>2
<1>20. CASE Check
  BY <1>20 DEF Check
<1>21. CASE Shift
  BY <1>21 DEF Shift
<1>22. CASE Finish
  BY <1>22 DEF Finish
<1>23. CASE Fails
  BY <1>23 DEF Fails
<1>24. CASE UNCHANGED vars
  BY <1>24 DEF vars
<1> QED
  BY <1>1, <1>2, <1>3, <1>4, <1>5, <1>6, <1>7, <1>8, <1>9, <1>10, <1>11, <1>12,
     <1>13, <1>14, <1>15, <1>16, <1>17, <1>18, <1>19, <1>20, <1>21, <1>22,
     <1>23, <1>24
     DEF Next, Proceed

\* A step keeps read() within its buffer.
LEMMA RoomStep == IInv /\ [Next]_vars => Room'
<1> SUFFICES ASSUME IInv, [Next]_vars PROVE Room'
  OBVIOUS
<1>t. fifo # <<>> /\ Take => Taken
  BY Takes DEF IInv
<1>q. QueueOps /\ (calls' = calls => Bytes' = Bytes)
  BY Queues DEF IInv, Bytes
<1>y. /\ Byte(0) \in Bytes /\ (i < len => Byte(i + 1) \in Bytes)
      /\ left > 0 => <<from, left>> \in Bytes
  BY BusAssumption DEF IInv, TypeOK, ControllerOK, CallerOK, Byte, Bytes
<1> USE <1>q, BusAssumption DEF QueueOps, IInv, TypeOK, ControllerOK, CallerOK,
     Places, hardware, locals, caller,
     Room, Quiet
<1>1. CASE CallWrite
  BY <1>1 DEF CallWrite, Begin, Free
<1>2. CASE CallRead
  BY <1>2 DEF CallRead, Begin, Free
<1>3. CASE CallReadRs
  BY <1>3 DEF CallReadRs, Begin, Free
<1>4. CASE requestFrom
  BY <1>4 DEF requestFrom
<1>5. CASE CallAnalogRead
  BY <1>5 DEF CallAnalogRead, Begin, Free
<1>6. CASE AnalogReads
  BY <1>6 DEF AnalogReads, Begin
<1>7. CASE ClearFifo
  BY <1>7 DEF ClearFifo
<1>8. CASE ClearStatus
  BY <1>8 DEF ClearStatus
<1>9. CASE SetLength
  BY <1>9 DEF SetLength, GoOn
<1>10. CASE Fill
  <2>1. CASE op = "write" /\ i < len /\ i < FifoSize
    BY <1>10, <2>1 DEF Fill, Push, Byte
  <2>2. CASE op = "rs"
    BY <1>10, <2>2 DEF Fill, Push, Byte
  <2>3. CASE op = "write" /\ ~(i < len /\ i < FifoSize)
    BY <1>10, <2>3 DEF Fill
  <2> QED  BY <1>10, <2>1, <2>2, <2>3 DEF Fill
<1>11. CASE StartTransfer
  BY <1>11 DEF StartTransfer, Start
<1>12. CASE Started
  BY <1>12 DEF Started, GoOn
<1>13. CASE Relength
  BY <1>13 DEF Relength
<1>14. CASE Restart
  BY <1>14 DEF Restart, Start
<1>15. CASE Delay
  BY <1>15 DEF Delay, GoOn
<1>16. CASE Poll
  BY <1>16 DEF Poll, GoOn
<1>17. CASE Feed
  <2>1. CASE i # len /\ Len(fifo) < FifoSize
    BY <1>17, <2>1 DEF Feed, Push, Byte
  <2>2. CASE ~(i # len /\ Len(fifo) < FifoSize)
    BY <1>17, <2>2 DEF Feed
  <2> QED  BY <2>1, <2>2
<1>18. CASE Drain
  <2>1. CASE fifo # <<>> /\ (op = "rs" => i # len)
    <3>1. Take
      BY <1>18, <2>1 DEF Drain
    <3> QED  BY <1>18, <2>1, <3>1, <1>t DEF Drain, Taken
  <2>2. CASE ~(fifo # <<>> /\ (op = "rs" => i # len))
    BY <1>18, <2>2 DEF Drain, GoOn
  <2> QED  BY <2>1, <2>2
<1>19. CASE Grab
  <2>1. CASE fifo # <<>> /\ i # len
    <3>1. Take
      BY <1>19, <2>1 DEF Grab
    <3> QED  BY <1>19, <2>1, <3>1, <1>t DEF Grab, Taken
  <2>2. CASE ~(fifo # <<>> /\ i # len)
    BY <1>19, <2>2 DEF Grab, GoOn
  <2> QED  BY <2>1, <2>2
<1>20. CASE Check
  BY <1>20 DEF Check
<1>21. CASE Shift
  BY <1>21 DEF Shift
<1>22. CASE Finish
  BY <1>22 DEF Finish
<1>23. CASE Fails
  BY <1>23 DEF Fails
<1>24. CASE UNCHANGED vars
  BY <1>24 DEF vars
<1> QED
  BY <1>1, <1>2, <1>3, <1>4, <1>5, <1>6, <1>7, <1>8, <1>9, <1>10, <1>11, <1>12,
     <1>13, <1>14, <1>15, <1>16, <1>17, <1>18, <1>19, <1>20, <1>21, <1>22,
     <1>23, <1>24
     DEF Next, Proceed

-----------------------------------------------------------------------------
\* The inductive invariant: every step keeps it.
LEMMA StepIInv == IInv /\ [Next]_vars => IInv'
  BY ControllerStep, CallerStep, PlacesStep, RestsStep, RoomStep DEF IInv, TypeOK

\* The inductive invariant holds of every reachable state.
THEOREM Invariance == Spec => []IInv
  BY InitIInv, StepIInv, PTL DEF Spec

\* The variables stay in range, the FIFO within its size; a call sends no more
\* than it was given and has stored what it has taken.
THEOREM TypeCorrect == Spec => []TypeOK
<1>1. IInv => TypeOK
  BY DEF IInv
<1> QED  BY <1>1, Invariance, PTL

\* read(), which does not look at `remaining`, stores no more than it was asked
\* for on a controller at rest; nor do write and read_rs go past their length.
THEOREM NoOverrunCorrect == Spec => []NoOverrun
<1>1. IInv => NoOverrun
  <2>1. SUFFICES ASSUME IInv, ~dirty PROVE i <= len
    BY DEF NoOverrun
  <2>2. /\ i \in Nat /\ len \in 0..MaxLen /\ left \in 0..MaxLen
        /\ Len(fifo) \in Nat
    BY <2>1, Queues DEF IInv, TypeOK, ControllerOK, CallerOK, QueueOps
  <2>3. CASE op # "read"
    BY <2>1, <2>3 DEF IInv, Places
  <2>4. CASE op = "read"
    BY <2>1, <2>2, <2>4, BusAssumption DEF IInv, Room
  <2> QED  BY <2>3, <2>4
<1> QED  BY <1>1, Invariance, PTL

\* Every call leaves the controller at rest, but a read_rs that misses its write
\* phase.
THEOREM OnlyMissLeavesBusyCorrect == Spec => []OnlyMissLeavesBusy
<1>1. IInv => OnlyMissLeavesBusy
  BY DEF IInv, TypeOK, CallerOK, Rests, OnlyMissLeavesBusy
<1> QED  BY <1>1, Invariance, PTL

-----------------------------------------------------------------------------
(* Whose bytes a call moves: OkIsOwn, from an invariant that says where    *)
(* each byte is while the caller is at each of its places.                 *)

Before == {"clearFifo", "clearStatus", "length", "fill", "start"}
Within == {"started", "relength", "restart", "delay", "poll", "move", "grab",
           "check"}

\* Nothing of the call has failed yet.
Clean == ~dirty /\ pc \in Within /\ status \cap {"ERR", "CLKT"} = {}

\* What the device has and what waits in the FIFO are what was put into it.
Outgoing ==
    /\ Len(wire) + Len(fifo) = i
    /\ \A k \in 1..Len(wire) : wire[k] = Byte(k)
    /\ \A k \in 1..Len(fifo) : fifo[k] = Byte(Len(wire) + k)

\* What is taken, what waits in the FIFO and what is to come are the bytes of
\* this call, in this order.
Incoming ==
    /\ act = "read" => from = calls /\ i + Len(fifo) + left = len
    /\ i + Len(fifo) + left <= len
    /\ \A k \in 1..Len(buf) : buf[k] = Byte(len + 1 - k)
    /\ \A k \in 1..Len(fifo) : fifo[k] = Byte(len + 1 - i - k)

Addressed == Len(wire) = 1 /\ wire[1] = Byte(0)

\* Before the start a controller found at rest stays so, and holds nothing but
\* what the call has put there.
Prepared ==
    ~dirty /\ pc \in Before =>
      /\ Quiet /\ Len(wire) = 0
      /\ op # "write" \/ pc \in {"clearFifo", "clearStatus", "length"} => i = 0
      /\ pc \in {"clearStatus", "length"} => Len(fifo) = 0
      /\ pc \in {"length", "fill", "start"} => status = {}
      /\ pc \in {"fill", "start"} =>
           /\ dlen = IF op = "rs" THEN 1 ELSE len
           /\ op = "write" => Outgoing
           /\ op = "read" \/ (op = "rs" /\ pc = "fill") => Len(fifo) = 0
           /\ op = "rs" /\ pc = "start" => Len(fifo) = 1 /\ fifo[1] = Byte(0)

WriteOwn ==
    Clean /\ op = "write" =>
      /\ Outgoing /\ next = "none" /\ act # "read" /\ Len(wire) + left = len
      /\ act = "idle" => left = 0
      /\ "DONE" \in status \/ pc = "check" => act = "idle"

ReadOwn ==
    Clean /\ op = "read" => Incoming /\ next = "none" /\ act # "write"

\* read_rs: the write phase has the address to send or has sent it; what follows
\* is a read.
RsOwn ==
    Clean /\ op = "rs" =>
      /\ pc \in {"started", "relength", "restart"} => act # "read" /\ i = 0
      /\ next = IF act = "write" /\ pc = "delay" THEN "read" ELSE "none"
      /\ pc = "restart" \/ next = "read" => dlen = len
      /\ act = "write" =>
           /\ pc \in {"started", "relength", "restart", "delay"} /\ i = 0
           /\ \/ left = 1 /\ Len(wire) = 0 /\ Len(fifo) = 1 /\ fifo[1] = Byte(0)
              \/ left = 0 /\ Addressed /\ Len(fifo) = 0
      /\ act # "write" =>
           /\ Addressed /\ Incoming
           /\ pc \in {"started", "relength", "restart"} =>
                Len(fifo) = 0 /\ left = 0

\* A call that has returned OK keeps what it has moved.
Settled ==
    /\ OkIsOwn
    /\ pc = "idle" /\ calls > 0 /\ ~dirty /\ reason = "OK" =>
         act # "write" /\ next = "none"

OwnInv == Prepared /\ WriteOwn /\ ReadOwn /\ RsOwn /\ Settled

\* Which elements adding a byte and taking one leave in a sequence.
LEMMA ElementFacts ==
    ASSUME NEW S, NEW q \in Seq(S)
    PROVE  /\ \A b \in S : \A k \in 1..Len(q) : Append(q, b)[k] = q[k]
           /\ \A b \in S : Append(q, b)[Len(q) + 1] = b
           /\ q # <<>> => /\ Head(q) = q[1]
                         /\ \A k \in 1..Len(q) - 1 : Tail(q)[k] = q[k + 1]
  BY HeadTailProperties, LenProperties, AppendProperties

\* The FIFO takes a byte that it has room for.
LEMMA Pushed ==
    ASSUME TypeOK, NEW b \in Bytes, Push(b), Len(fifo) < FifoSize
    PROVE  /\ Len(fifo') = Len(fifo) + 1 /\ fifo'[Len(fifo) + 1] = b
           /\ \A k \in 1..Len(fifo) : fifo'[k] = fifo[k]
<1>1. fifo' = Append(fifo, b) /\ fifo \in Seq(Bytes)
  BY DEF Push, TypeOK, ControllerOK
<1> QED  BY <1>1, ElementFacts, QueueFacts

\* The caller takes the first byte of the FIFO, and knows it.
LEMMA TakenOne ==
    ASSUME TypeOK, Take, fifo # <<>>
    PROVE  /\ Len(fifo') = Len(fifo) - 1 /\ Len(buf') = Len(buf) + 1
           /\ buf'[Len(buf) + 1] = fifo[1]
           /\ \A k \in 1..Len(buf) : buf'[k] = buf[k]
           /\ \A k \in 1..Len(fifo) - 1 : fifo'[k] = fifo[k + 1]
<1>1. /\ fifo \in Seq(Bytes) /\ buf \in Seq(Bytes) /\ Head(fifo) \in Bytes
      /\ buf' = Append(buf, Head(fifo)) /\ fifo' = Tail(fifo)
  BY Queues DEF Take, TypeOK, ControllerOK, CallerOK, QueueOps
<1> QED  BY <1>1, ElementFacts, QueueFacts

\* The device gets the first byte of the FIFO.
LEMMA ShiftedOut ==
    ASSUME TypeOK, Shift, act = "write"
    PROVE  /\ fifo # <<>> /\ Len(fifo) > 0 /\ left > 0 /\ left' = left - 1
           /\ Len(fifo') = Len(fifo) - 1 /\ Len(wire') = Len(wire) + 1
           /\ wire'[Len(wire) + 1] = fifo[1]
           /\ \A k \in 1..Len(wire) : wire'[k] = wire[k]
           /\ \A k \in 1..Len(fifo) - 1 : fifo'[k] = fifo[k + 1]
<1>1. /\ fifo \in Seq(Bytes) /\ wire \in Seq(Bytes) /\ fifo # <<>>
      /\ wire' = Append(wire, Head(fifo)) /\ fifo' = Tail(fifo)
      /\ left > 0 /\ left' = left - 1
  BY DEF Shift, TypeOK, ControllerOK
<1>2. Head(fifo) \in Bytes /\ Len(fifo) > 0
  BY <1>1, Queues, EmptySeq DEF QueueOps
<1> QED  BY <1>1, <1>2, ElementFacts, QueueFacts

\* A byte of the device comes in.
LEMMA ShiftedIn ==
    ASSUME TypeOK, Shift, act # "write"
    PROVE  /\ left > 0 /\ left' = left - 1 /\ act = "read" /\ UNCHANGED wire
           /\ Len(fifo') = Len(fifo) + 1
           /\ fifo'[Len(fifo) + 1] = <<from, left>>
           /\ \A k \in 1..Len(fifo) : fifo'[k] = fifo[k]
<1>1. /\ left > 0 /\ left' = left - 1 /\ act = "read" /\ UNCHANGED wire
      /\ fifo' = Append(fifo, <<from, left>>) /\ fifo \in Seq(Bytes)
  BY DEF Shift, TypeOK, ControllerOK
<1>2. <<from, left>> \in Bytes
  BY <1>1, BusAssumption DEF TypeOK, ControllerOK, CallerOK, Bytes
<1> QED  BY <1>1, <1>2, ElementFacts, QueueFacts

\* Before the first call there is nothing to own.
LEMMA InitOwn == Init => OwnInv
  BY BusAssumption
     DEF Init, OwnInv, Prepared, WriteOwn, ReadOwn, RsOwn, Settled, OkIsOwn,
     Before, Within, Clean

\* What every step lemma needs of the types.
Ranges ==
    /\ {Len(fifo), Len(wire), Len(buf), i, calls} \subseteq Nat
    /\ {len, left, dlen} \subseteq 0..MaxLen
    /\ Byte(0) \in Bytes /\ (i < len => Byte(i + 1) \in Bytes)
    /\ <<>> \in Seq(Bytes) /\ Len(<<>>) = 0 /\ (fifo # <<>> <=> Len(fifo) > 0)
    /\ op # "write" => Len(buf) = i
    /\ op \in Ops /\ pc \in Pcs /\ act \in {"idle", "write", "read"}

LEMMA InRange == IInv => Ranges
<1> SUFFICES ASSUME IInv PROVE Ranges
  OBVIOUS
<1>1. /\ fifo \in Seq(Bytes) /\ wire \in Seq(Bytes) /\ buf \in Seq(Bytes)
      /\ i \in Nat /\ calls \in Nat /\ {len, left, dlen} \subseteq 0..MaxLen
  BY BusAssumption DEF IInv, TypeOK, ControllerOK, CallerOK
<1>2. /\ {Len(fifo), Len(wire), Len(buf)} \subseteq Nat
      /\ fifo # <<>> <=> Len(fifo) > 0
  BY <1>1, LenProperties, EmptySeq
<1>3. Byte(0) \in Bytes /\ (i < len => Byte(i + 1) \in Bytes)
  BY <1>1, BusAssumption DEF Byte, Bytes
<1> QED
  BY <1>1, <1>2, <1>3, EmptySeq
     DEF Ranges, IInv, TypeOK, ControllerOK, CallerOK

\* A step before the start keeps what the call has put into the FIFO.
LEMMA PreparedStep == IInv /\ OwnInv /\ [Next]_vars => Prepared'
<1> SUFFICES ASSUME IInv, OwnInv, [Next]_vars PROVE Prepared'
  OBVIOUS
<1>r. Ranges
  BY InRange
<1> USE <1>r, BusAssumption DEF Ranges, OwnInv, Prepared, Before, Quiet,
     Outgoing, Byte, hardware, locals, caller, Ops, Pcs
<1>1. CASE CallWrite \/ CallRead \/ CallReadRs \/ CallAnalogRead \/ AnalogReads
  BY <1>1 DEF CallWrite, CallRead, CallReadRs, CallAnalogRead, AnalogReads,
     Begin
<1>2. CASE ClearFifo
  BY <1>2 DEF ClearFifo
<1>3. CASE ClearStatus
  BY <1>3 DEF ClearStatus
<1>4. CASE SetLength
  BY <1>4 DEF SetLength
<1>5. CASE Fill
  <2>1. CASE op = "write" /\ i < len /\ i < FifoSize /\ ~dirty
    <3>1. /\ Len(wire) = 0 /\ Len(fifo) = i /\ Push(Byte(i + 1)) /\ i' = i + 1
          /\ UNCHANGED <<pc, act, next, status, wire, dlen, op, len, dirty,
                         calls>>
      BY <1>5, <2>1 DEF Fill
    <3>2. /\ Len(fifo') = Len(fifo) + 1 /\ fifo'[Len(fifo) + 1] = Byte(i + 1)
          /\ \A k \in 1..Len(fifo) : fifo'[k] = fifo[k]
      BY <2>1, <3>1, Pushed DEF IInv
    <3> QED  BY <1>5, <2>1, <3>1, <3>2 DEF Fill
  <2>2. CASE op = "rs" /\ ~dirty
    <3>1. /\ Len(fifo) = 0 /\ Push(Byte(0)) /\ pc' = "start"
          /\ UNCHANGED <<i, act, next, status, wire, dlen, op, len, dirty,
                         calls>>
      BY <1>5, <2>2 DEF Fill
    <3>2. Len(fifo') = Len(fifo) + 1 /\ fifo'[Len(fifo) + 1] = Byte(0)
      BY <2>2, <3>1, Pushed DEF IInv
    <3> QED  BY <1>5, <2>2, <3>1, <3>2 DEF Fill
  <2>3. CASE op = "write" /\ ~(i < len /\ i < FifoSize)
    BY <1>5, <2>3 DEF Fill
  <2>4. CASE dirty
    BY <1>5, <2>4 DEF Fill
  <2> QED  BY <1>5, <2>1, <2>2, <2>3, <2>4 DEF Fill
<1>6. CASE StartTransfer
  BY <1>6 DEF StartTransfer, Start
<1>7. CASE Started \/ Relength \/ Restart \/ Delay \/ Poll \/ Check
  BY <1>7 DEF Started, Relength, Restart, Delay, Poll, Check, GoOn
<1>8. CASE Feed
  BY <1>8 DEF Feed
<1>9. CASE Drain \/ Grab
  BY <1>9 DEF Drain, Grab, Take, GoOn
<1>10. CASE Shift \/ Finish \/ Fails
  BY <1>10 DEF Shift, Finish, Fails
<1>11. CASE requestFrom \/ UNCHANGED vars
  BY <1>11 DEF requestFrom, vars
<1> QED
  BY <1>1, <1>2, <1>3, <1>4, <1>5, <1>6, <1>7, <1>8, <1>9, <1>10, <1>11
     DEF Next, Proceed

\* A write has each of its bytes once, on the wire or in the FIFO.
LEMMA WriteStep == IInv /\ OwnInv /\ [Next]_vars => WriteOwn'
<1> SUFFICES ASSUME IInv, OwnInv, [Next]_vars PROVE WriteOwn'
  OBVIOUS
<1>r. Ranges
  BY InRange
<1> USE <1>r, BusAssumption DEF Ranges, OwnInv, WriteOwn, Clean, Within,
     Outgoing, Byte, hardware, locals, caller, Ops, Pcs
<1>1. CASE CallWrite \/ CallRead \/ CallReadRs \/ CallAnalogRead \/ AnalogReads
  BY <1>1 DEF CallWrite, CallRead, CallReadRs, CallAnalogRead, AnalogReads,
     Begin
<1>2. CASE ClearFifo \/ ClearStatus \/ SetLength
  BY <1>2 DEF ClearFifo, ClearStatus, SetLength
<1>3. CASE Fill
  BY <1>3 DEF Fill
<1>4. CASE StartTransfer
  BY <1>4 DEF StartTransfer, Start, Prepared, Before, Quiet
<1>5. CASE Started \/ Relength \/ Restart \/ Delay
  BY <1>5 DEF Started, Relength, Restart, Delay, Start, GoOn, IInv, Places
<1>6. CASE Poll
  BY <1>6 DEF Poll, GoOn
<1>7. CASE Feed
  <2>1. CASE i # len /\ Len(fifo) < FifoSize
    <3>1. /\ op = "write" /\ i < len /\ Push(Byte(i + 1)) /\ i' = i + 1
          /\ UNCHANGED <<pc, act, next, left, status, wire, op, len, dirty,
                         calls>>
      BY <1>7, <2>1 DEF Feed, IInv, Places
    <3>2. /\ Len(fifo') = Len(fifo) + 1 /\ fifo'[Len(fifo) + 1] = Byte(i + 1)
          /\ \A k \in 1..Len(fifo) : fifo'[k] = fifo[k]
      BY <2>1, <3>1, Pushed DEF IInv
    <3> SUFFICES ASSUME Clean PROVE WriteOwn'
      BY <3>1
    <3>3. Outgoing /\ WriteOwn
      BY <3>1
    <3>4. Outgoing'
      <4>1. Len(wire') + Len(fifo') = i' /\ wire' = wire /\ calls' = calls
        BY <3>1, <3>2, <3>3
      <4>2. ASSUME NEW k \in 1..Len(fifo')
            PROVE  fifo'[k] = <<calls, Len(wire) + k>>
        <5>1. CASE k \in 1..Len(fifo)
          BY <3>2, <3>3, <5>1
        <5>2. CASE k = Len(fifo) + 1
          BY <3>2, <3>3, <5>2
        <5> QED  BY <3>2, <5>1, <5>2
      <4> QED  BY <3>3, <4>1, <4>2
    <3> HIDE DEF Outgoing
    <3> QED  BY <3>1, <3>3, <3>4
  <2>2. CASE ~(i # len /\ Len(fifo) < FifoSize)
    BY <1>7, <2>2 DEF Feed
  <2> QED  BY <2>1, <2>2
<1>8. CASE Drain \/ Grab
  BY <1>8 DEF Drain, Grab, Take, GoOn, IInv, Places
<1>9. CASE Check
  BY <1>9 DEF Check
<1>10. CASE Shift
  <2>1. UNCHANGED <<act, next, status, pc, i, op, len, dirty, calls>>
    BY <1>10 DEF Shift
  <2>2. CASE act = "write"
    <3>1. /\ fifo # <<>> /\ Len(fifo) > 0 /\ left > 0 /\ left' = left - 1
          /\ Len(fifo') = Len(fifo) - 1 /\ Len(wire') = Len(wire) + 1
          /\ wire'[Len(wire) + 1] = fifo[1]
          /\ \A k \in 1..Len(wire) : wire'[k] = wire[k]
          /\ \A k \in 1..Len(fifo) - 1 : fifo'[k] = fifo[k + 1]
      BY <1>10, <2>2, ShiftedOut DEF IInv
    <3> SUFFICES ASSUME Clean, op = "write" PROVE WriteOwn'
      BY <2>1
    <3>2. Outgoing /\ WriteOwn
      OBVIOUS
    <3>3. Outgoing'
      <4>1. Len(wire') + Len(fifo') = i' /\ calls' = calls
        BY <2>1, <3>1, <3>2
      <4>2. ASSUME NEW k \in 1..Len(fifo')
            PROVE  fifo'[k] = <<calls, Len(wire') + k>>
        <5>1. k + 1 \in 1..Len(fifo) /\ fifo'[k] = fifo[k + 1]
          BY <3>1
        <5>2. fifo[k + 1] = <<calls, Len(wire) + (k + 1)>>
          BY <3>2, <5>1
        <5> QED  BY <3>1, <5>1, <5>2
      <4>3. ASSUME NEW k \in 1..Len(wire') PROVE wire'[k] = <<calls, k>>
        <5>1. CASE k \in 1..Len(wire)
          BY <3>1, <3>2, <5>1
        <5>2. CASE k = Len(wire) + 1
          <6>1. 1 \in 1..Len(fifo) /\ fifo[1] = <<calls, Len(wire) + 1>>
            BY <3>1, <3>2
          <6> QED  BY <3>1, <5>2, <6>1
        <5> QED  BY <3>1, <5>1, <5>2
      <4> QED  BY <4>1, <4>2, <4>3
    <3>4. Len(wire') + left' = len
      BY <3>1, <3>2
    <3> HIDE DEF Outgoing
    <3> QED  BY <2>1, <2>2, <3>2, <3>3, <3>4
  <2>3. CASE act # "write"
    BY <1>10, <2>1, <2>3 DEF Shift
  <2> QED  BY <2>2, <2>3
<1>11. CASE Finish
  BY <1>11 DEF Finish
<1>12. CASE Fails
  BY <1>12 DEF Fails
<1>13. CASE requestFrom \/ UNCHANGED vars
  BY <1>13 DEF requestFrom, vars
<1> QED
  BY <1>1, <1>2, <1>3, <1>4, <1>5, <1>6, <1>7, <1>8, <1>9, <1>10, <1>11, <1>12,
     <1>13
     DEF Next, Proceed

\* Taking a byte keeps the order of what comes in.
LEMMA IncomingTake ==
    ASSUME IInv, op # "write", Incoming, Take, fifo # <<>>
    PROVE  Incoming'
<1>1. Ranges
  BY InRange
<1>2. /\ i' = i + 1 /\ Len(buf) = i
      /\ UNCHANGED <<act, from, left, len, calls>>
  BY <1>1 DEF Ranges, Take, locals
<1>3. /\ Len(fifo') = Len(fifo) - 1 /\ Len(buf') = Len(buf) + 1
      /\ buf'[Len(buf) + 1] = fifo[1]
      /\ \A k \in 1..Len(buf) : buf'[k] = buf[k]
      /\ \A k \in 1..Len(fifo) - 1 : fifo'[k] = fifo[k + 1]
  BY TakenOne DEF IInv
<1>4. /\ {Len(fifo), Len(buf), i} \subseteq Nat /\ Len(fifo) > 0
      /\ {len, left} \subseteq Nat
  BY <1>1, BusAssumption DEF Ranges
<1> USE DEF Byte
<1>5. ASSUME NEW k \in 1..Len(buf') PROVE buf'[k] = <<calls, len + 1 - k>>
  <2>1. CASE k \in 1..Len(buf)
    BY <1>3, <2>1 DEF Incoming
  <2>2. CASE k = Len(buf) + 1
    <3>1. 1 \in 1..Len(fifo) /\ fifo[1] = <<calls, len + 1 - i - 1>>
      BY <1>4 DEF Incoming
    <3>2. len + 1 - i - 1 = len + 1 - k
      BY <1>2, <1>4, <2>2
    <3> QED  BY <1>3, <2>2, <3>1, <3>2
  <2> QED  BY <1>3, <1>4, <2>1, <2>2
<1>6. ASSUME NEW k \in 1..Len(fifo')
      PROVE  fifo'[k] = <<calls, len + 1 - i' - k>>
  <2>1. k + 1 \in 1..Len(fifo) /\ fifo'[k] = fifo[k + 1]
    BY <1>3, <1>4
  <2>2. fifo[k + 1] = <<calls, len + 1 - i - (k + 1)>>
    BY <2>1 DEF Incoming
  <2>3. len + 1 - i - (k + 1) = len + 1 - i' - k
    BY <1>2, <1>3, <1>4
  <2> QED  BY <2>1, <2>2, <2>3
<1>7. i' + Len(fifo') + left' = i + Len(fifo) + left
  BY <1>2, <1>3, <1>4
<1> QED  BY <1>2, <1>5, <1>6, <1>7 DEF Incoming

\* So does a byte that the device sends.
LEMMA IncomingShift ==
    ASSUME IInv, act = "read", Incoming, Shift
    PROVE  Incoming'
<1>1. Ranges
  BY InRange
<1>2. UNCHANGED <<act, from, i, buf, len, calls>>
  BY DEF Shift, caller, locals
<1>3. /\ left > 0 /\ left' = left - 1
      /\ Len(fifo') = Len(fifo) + 1 /\ fifo'[Len(fifo) + 1] = <<from, left>>
      /\ \A k \in 1..Len(fifo) : fifo'[k] = fifo[k]
  BY ShiftedIn DEF IInv
<1>4. {Len(fifo), i, len, left} \subseteq Nat
  BY <1>1, BusAssumption DEF Ranges
<1> USE DEF Byte
<1>5. from = calls /\ left = len - i - Len(fifo)
  BY <1>4 DEF Incoming
<1>6. ASSUME NEW k \in 1..Len(fifo') PROVE fifo'[k] = <<calls, len + 1 - i - k>>
  <2>1. CASE k \in 1..Len(fifo)
    BY <1>3, <2>1 DEF Incoming
  <2>2. CASE k = Len(fifo) + 1
    <3>1. left = len + 1 - i - k
      BY <1>4, <1>5, <2>2
    <3> QED  BY <1>3, <1>5, <2>2, <3>1
  <2> QED  BY <1>3, <1>4, <2>1, <2>2
<1>7. i + Len(fifo') + left' = i + Len(fifo) + left
  BY <1>3, <1>4
<1> QED  BY <1>2, <1>5, <1>6, <1>7 DEF Incoming

\* A read has the bytes of its device in their order.
LEMMA ReadStep == IInv /\ OwnInv /\ [Next]_vars => ReadOwn'
<1> SUFFICES ASSUME IInv, OwnInv, [Next]_vars PROVE ReadOwn'
  OBVIOUS
<1>r. Ranges
  BY InRange
<1> USE <1>r, BusAssumption DEF Ranges, OwnInv, ReadOwn, Clean, Within,
     hardware, locals, caller, Ops, Pcs
<1>1. CASE CallWrite \/ CallRead \/ CallReadRs \/ CallAnalogRead \/ AnalogReads
  BY <1>1 DEF CallWrite, CallRead, CallReadRs, CallAnalogRead, AnalogReads,
     Begin
<1>2. CASE ClearFifo \/ ClearStatus \/ SetLength
  BY <1>2 DEF ClearFifo, ClearStatus, SetLength
<1>3. CASE Fill
  BY <1>3 DEF Fill, IInv, Places
<1>4. CASE StartTransfer
  BY <1>4 DEF StartTransfer, Start, Prepared, Before, Quiet, Incoming
<1>5. CASE Started \/ Relength \/ Restart \/ Delay
  BY <1>5 DEF Started, Relength, Restart, Delay, Start, GoOn, IInv, Places
<1>6. CASE Poll
  BY <1>6 DEF Poll, GoOn, Incoming, Byte
<1>7. CASE Feed
  BY <1>7 DEF Feed
<1>8. CASE Drain \/ Grab
  <2>1. CASE Take /\ fifo # <<>>
    <3>1. UNCHANGED <<pc, op, act, next, status, dirty>>
      BY <2>1 DEF Take
    <3> QED  BY <2>1, <3>1, IncomingTake
  <2>2. CASE ~(Take /\ fifo # <<>>)
    BY <1>8, <2>2 DEF Drain, Grab, GoOn, Incoming, Byte
  <2> QED  BY <2>1, <2>2
<1>9. CASE Check
  BY <1>9 DEF Check
<1>10. CASE Shift
  <2>1. UNCHANGED <<pc, op, act, next, status, dirty>> /\ act # "idle"
    BY <1>10 DEF Shift
  <2> QED  BY <1>10, <2>1, IncomingShift
<1>11. CASE Finish
  BY <1>11 DEF Finish, Incoming, Byte
<1>12. CASE Fails
  BY <1>12 DEF Fails
<1>13. CASE requestFrom \/ UNCHANGED vars
  BY <1>13 DEF requestFrom, vars, Incoming, Byte
<1> QED
  BY <1>1, <1>2, <1>3, <1>4, <1>5, <1>6, <1>7, <1>8, <1>9, <1>10, <1>11, <1>12,
     <1>13
     DEF Next, Proceed

\* read_rs sends the address and nothing else, then has the bytes of the read.
LEMMA RsStep == IInv /\ OwnInv /\ [Next]_vars => RsOwn'
<1> SUFFICES ASSUME IInv, OwnInv, [Next]_vars PROVE RsOwn'
  OBVIOUS
<1>r. Ranges
  BY InRange
<1> USE <1>r, BusAssumption DEF Ranges, OwnInv, RsOwn, Clean, Within, Addressed,
     hardware, locals, caller, Ops, Pcs
<1>1. CASE CallWrite \/ CallRead \/ CallReadRs \/ CallAnalogRead \/ AnalogReads
  BY <1>1 DEF CallWrite, CallRead, CallReadRs, CallAnalogRead, AnalogReads,
     Begin
<1>2. CASE ClearFifo \/ ClearStatus \/ SetLength
  BY <1>2 DEF ClearFifo, ClearStatus, SetLength
<1>3. CASE Fill
  BY <1>3 DEF Fill
<1>4. CASE StartTransfer
  BY <1>4 DEF StartTransfer, Start, Prepared, Before, Quiet, Byte
<1>5. CASE Started
  BY <1>5 DEF Started, GoOn, Incoming, Byte
<1>6. CASE Relength
  BY <1>6 DEF Relength, Incoming, Byte
<1>7. CASE Restart
  BY <1>7 DEF Restart, Start, Incoming, Byte
<1>8. CASE Delay
  BY <1>8 DEF Delay, GoOn, Incoming, Byte
<1>9. CASE Poll
  BY <1>9 DEF Poll, GoOn, Incoming, Byte
<1>10. CASE Feed
  BY <1>10 DEF Feed
<1>11. CASE Drain \/ Grab
  <2>1. CASE Take /\ fifo # <<>>
    <3>1. /\ UNCHANGED <<pc, op, act, next, status, dirty, wire, calls, left,
                         len, dlen>>
          /\ pc \in {"move", "grab"}
      BY <1>11, <2>1 DEF Take, Drain, Grab
    <3> QED  BY <2>1, <3>1, IncomingTake DEF Byte
  <2>2. CASE ~(Take /\ fifo # <<>>)
    BY <1>11, <2>2 DEF Drain, Grab, GoOn, Incoming, Byte
  <2> QED  BY <2>1, <2>2
<1>12. CASE Check
  BY <1>12 DEF Check
<1>13. CASE Shift
  <2>1. /\ UNCHANGED <<pc, op, act, next, status, dirty, i, calls, len, dlen>>
        /\ act # "idle"
    BY <1>13 DEF Shift
  <2>2. CASE act = "write"
    <3>1. /\ Len(fifo) > 0 /\ left > 0 /\ left' = left - 1
          /\ Len(fifo') = Len(fifo) - 1 /\ Len(wire') = Len(wire) + 1
          /\ wire'[Len(wire) + 1] = fifo[1]
      BY <1>13, <2>2, ShiftedOut DEF IInv
    <3> SUFFICES ASSUME Clean, op = "rs" PROVE RsOwn'
      BY <2>1
    <3>2. left = 1 /\ Len(wire) = 0 /\ Len(fifo) = 1 /\ fifo[1] = Byte(0)
      BY <2>2, <3>1
    <3>3. left' = 0 /\ Len(wire') = 1 /\ wire'[1] = Byte(0) /\ Len(fifo') = 0
      BY <3>1, <3>2
    <3>4. Byte(0)' = Byte(0)
      BY <2>1 DEF Byte
    <3> QED  BY <2>1, <2>2, <3>3, <3>4
  <2>3. CASE act = "read"
    <3>1. UNCHANGED wire
      BY <1>13, <2>3 DEF Shift
    <3> QED  BY <1>13, <2>1, <2>3, <3>1, IncomingShift DEF Byte
  <2> QED  BY <2>1, <2>2, <2>3
<1>14. CASE Finish
  BY <1>14 DEF Finish, Incoming, Byte
<1>15. CASE Fails
  BY <1>15 DEF Fails
<1>16. CASE requestFrom \/ UNCHANGED vars
  BY <1>16 DEF requestFrom, vars, Incoming, Byte
<1> QED
  BY <1>1, <1>2, <1>3, <1>4, <1>5, <1>6, <1>7, <1>8, <1>9, <1>10, <1>11, <1>12,
     <1>13, <1>14, <1>15, <1>16
     DEF Next, Proceed

\* A call that returns OK has moved what its place says, all of it.
LEMMA CheckedOwn == ASSUME IInv, OwnInv, Check PROVE Settled'
<1>r. Ranges
  BY InRange
<1>1. /\ pc = "check"
      /\ UNCHANGED <<act, next, wire, op, len, calls, dirty, buf>>
      /\ reason' = "OK" => i = len /\ status \cap {"ERR", "CLKT"} = {}
  BY DEF Check, hardware
<1> SUFFICES ASSUME ~dirty, reason' = "OK"
             PROVE  /\ OkIsOwn' /\ act # "write" /\ next = "none"
  BY <1>1 DEF Settled, OkIsOwn
<1>2. Clean /\ i = len /\ len \in Nat /\ left \in Nat
  BY <1>r, <1>1, BusAssumption DEF Clean, Within, Ranges
<1>3. wire \in Seq(Bytes) /\ buf \in Seq(Bytes) /\ Len(wire) \in Nat
  BY <1>r DEF IInv, TypeOK, ControllerOK, CallerOK, Ranges
<1>4. CASE op = "write"
  <2>1. /\ Outgoing /\ next = "none" /\ act = "idle" /\ left = 0
        /\ Len(wire) + left = len
    BY <1>1, <1>2, <1>4, <1>r DEF OwnInv, WriteOwn, Ranges
  <2>2. Len(wire) = len
    BY <1>2, <1>3, <2>1
  <2>3. wire = Sent
    BY <1>3, <2>1, <2>2 DEF Sent, Outgoing
  <2>4. wire' = Sent'
    BY <1>1, <2>3 DEF Sent, Byte
  <2> QED  BY <1>1, <1>4, <2>1, <2>4 DEF OkIsOwn
<1>5. CASE op \in {"read", "rs"}
  <2>1. Len(buf) = len /\ Incoming /\ act # "write" /\ next = "none"
    BY <1>1, <1>2, <1>5, <1>r DEF OwnInv, ReadOwn, RsOwn, Ranges
  <2>2. buf = Received
    BY <1>3, <2>1 DEF Received, Incoming
  <2>3. buf' = Received'
    BY <1>1, <2>2 DEF Received, Byte
  <2>4. op = "rs" => wire' = <<Byte(0)'>>
    <3>1. ASSUME op = "rs" PROVE Addressed
      BY <1>2, <2>1, <3>1 DEF OwnInv, RsOwn
    <3>2. ASSUME Addressed PROVE wire = <<Byte(0)>>
      BY <1>3, <3>2 DEF Addressed
    <3> QED  BY <1>1, <3>1, <3>2 DEF Byte
  <2> QED  BY <1>1, <1>5, <2>1, <2>3, <2>4 DEF OkIsOwn, Byte
<1> QED  BY <1>4, <1>5, <1>r DEF Ranges, Ops

\* Between the calls only a read can still be at work, which changes neither.
LEMMA SettledStep == IInv /\ OwnInv /\ [Next]_vars => Settled'
<1> SUFFICES ASSUME IInv, OwnInv, [Next]_vars PROVE Settled'
  OBVIOUS
<1> USE DEF Settled, OkIsOwn, Sent, Received, Byte, hardware, locals, caller
<1>1. CASE CallWrite \/ CallRead \/ CallReadRs \/ CallAnalogRead \/ AnalogReads
  BY <1>1 DEF CallWrite, CallRead, CallReadRs, CallAnalogRead, AnalogReads,
     Begin
<1>2. CASE ClearFifo \/ ClearStatus \/ SetLength \/ Fill \/ StartTransfer
  <2>1. pc # "idle" /\ pc' # "idle"
    BY <1>2 DEF ClearFifo, ClearStatus, SetLength, Fill, StartTransfer
  <2> QED  BY <2>1
<1>3. CASE Started \/ Relength \/ Restart \/ Delay \/ Poll \/ Feed
  <2>1. pc' # "idle"
    BY <1>3 DEF Started, Relength, Restart, Delay, Poll, Feed, GoOn
  <2> QED  BY <2>1
<1>4. CASE Drain \/ Grab
  <2>1. pc' # "idle"
    BY <1>4 DEF Drain, Grab, Take, GoOn
  <2> QED  BY <2>1
<1>5. CASE Check
  BY <1>5, CheckedOwn
<1>6. CASE Shift \/ Finish \/ Fails
  <2>1. /\ UNCHANGED <<pc, calls, dirty, reason, op, len, buf>>
        /\ act # "write" => UNCHANGED wire
        /\ act # "write" /\ next = "none" => act' # "write" /\ next' = "none"
    BY <1>6 DEF Shift, Finish, Fails
  <2> SUFFICES ASSUME pc = "idle", calls > 0, ~dirty, reason = "OK"
               PROVE  Settled'
    BY <2>1
  <2>2. Settled /\ act # "write" /\ next = "none"
    BY DEF OwnInv
  <2> QED  BY <2>1, <2>2
<1>7. CASE requestFrom \/ UNCHANGED vars
  BY <1>7 DEF requestFrom, vars, OwnInv
<1> QED
  BY <1>1, <1>2, <1>3, <1>4, <1>5, <1>6, <1>7 DEF Next, Proceed

-----------------------------------------------------------------------------
\* write, read, read_rs: a call on a controller at rest that returns OK has
\* moved each of its bytes once, in order, and none of another call.
THEOREM OkIsOwnCorrect == Spec => []OkIsOwn
<1>1. OwnInv /\ IInv /\ IInv' /\ [Next]_vars => OwnInv'
  BY PreparedStep, WriteStep, ReadStep, RsStep, SettledStep DEF OwnInv
<1>2. OwnInv => OkIsOwn
  BY DEF OwnInv, Settled
<1> QED  BY <1>1, <1>2, InitOwn, Invariance, PTL DEF Spec
=============================================================================
