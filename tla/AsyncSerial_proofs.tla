------------------------ MODULE AsyncSerial_proofs ------------------------
(***************************************************************************)
(* Proofs about AsyncSerial for any number of writers, of payloads, of     *)
(* writes and of sessions.                                                 *)
(***************************************************************************)
EXTENDS AsyncSerial, SequenceTheorems, TLAPS

-----------------------------------------------------------------------------
(* The handler queue: what Append and Tail do to Absent and AtMostOne.     *)

\* A handler outside H leaves its absence and uniqueness as they are, one of H
\* is unique after an absence: what io_service::post does to the queue.
LEMMA AppendHandler ==
    ASSUME NEW S, NEW q \in Seq(S), NEW h \in S, NEW H
    PROVE  /\ Append(q, h) \in Seq(S)
           /\ h \notin H /\ Absent(H, q) => Absent(H, Append(q, h))
           /\ h \notin H /\ AtMostOne(H, q) => AtMostOne(H, Append(q, h))
           /\ Absent(H, q) => AtMostOne(H, Append(q, h))
           /\ h \in H \/ ~Absent(H, q) => ~Absent(H, Append(q, h))
  BY DEF Absent, AtMostOne

\* Taking the first handler keeps what is absent absent, and the first of H
\* was the only one: what io_service::run does to the queue.
LEMMA TailHandler ==
    ASSUME NEW S, NEW q \in Seq(S), q # <<>>, NEW H
    PROVE  /\ Tail(q) \in Seq(S)
           /\ Absent(H, q) => Absent(H, Tail(q))
           /\ AtMostOne(H, q) => AtMostOne(H, Tail(q))
           /\ AtMostOne(H, q) /\ Head(q) \in H => Absent(H, Tail(q))
           /\ Head(q) \notin H /\ Absent(H, Tail(q)) => Absent(H, q)
           /\ Head(q) \in H => ~Absent(H, q)
<1>1. /\ Len(q) \in Nat \ {0} /\ Head(q) = q[1]
      /\ Tail(q) \in Seq(S) /\ Len(Tail(q)) = Len(q) - 1
  BY HeadTailProperties, EmptySeq, LenProperties
<1>2. \A i \in 1..Len(Tail(q)) : i + 1 \in 2..Len(q) /\ Tail(q)[i] = q[i + 1]
  BY <1>1, HeadTailProperties
<1>3. \A i \in 1..Len(q) : i = 1 \/ i - 1 \in 1..Len(Tail(q))
  BY <1>1
<1>4. Absent(H, q) => Absent(H, Tail(q))
  BY <1>1, <1>2 DEF Absent
<1>5. AtMostOne(H, q) => AtMostOne(H, Tail(q))
  <2>1. SUFFICES ASSUME AtMostOne(H, q),
                        NEW i \in 1..Len(Tail(q)), NEW j \in 1..Len(Tail(q)),
                        Tail(q)[i] \in H, Tail(q)[j] \in H
                 PROVE  i = j
    BY DEF AtMostOne
  <2>2. i + 1 = j + 1
    BY <1>1, <1>2, <2>1 DEF AtMostOne
  <2> QED  BY <1>1, <2>2
<1>6. AtMostOne(H, q) /\ Head(q) \in H => Absent(H, Tail(q))
  BY <1>1, <1>2 DEF Absent, AtMostOne
<1>7. Head(q) \notin H /\ Absent(H, Tail(q)) => Absent(H, q)
  <2>1. SUFFICES ASSUME Head(q) \notin H, Absent(H, Tail(q)), NEW i \in 1..Len(q)
                 PROVE  q[i] \notin H
    BY DEF Absent
  <2>2. CASE i = 1
    BY <1>1, <2>1, <2>2
  <2>3. CASE i # 1
    <3> DEFINE k == i - 1
    <3>1. k \in 1..Len(Tail(q)) /\ k + 1 = i
      BY <1>1, <1>3, <2>3
    <3>2. Tail(q)[k] = q[i]
      BY <1>2, <3>1
    <3> QED  BY <2>1, <3>1, <3>2 DEF Absent
  <2> QED  BY <2>2, <2>3
<1>8. Head(q) \in H => ~Absent(H, q)
  BY <1>1 DEF Absent
<1> QED  BY <1>1, <1>4, <1>5, <1>6, <1>7, <1>8

\* Appending the aborted operations: what port.cancel does to the queue.
LEMMA ConcatHandlers ==
    ASSUME NEW S, NEW q \in Seq(S), NEW r \in Seq(S), NEW H
    PROVE  /\ q \o r \in Seq(S)
           /\ Absent(H, q) /\ Absent(H, r) => Absent(H, q \o r)
           /\ Absent(H, q) /\ AtMostOne(H, r) => AtMostOne(H, q \o r)
           /\ AtMostOne(H, q) /\ Absent(H, r) => AtMostOne(H, q \o r)
           /\ ~Absent(H, q) \/ ~Absent(H, r) => ~Absent(H, q \o r)
<1>1. /\ q \o r \in Seq(S) /\ Len(q \o r) = Len(q) + Len(r)
      /\ Len(q) \in Nat /\ Len(r) \in Nat
      /\ \A i \in 1..Len(q \o r) :
            \/ i \in 1..Len(q) /\ (q \o r)[i] = q[i]
            \/ i - Len(q) \in 1..Len(r) /\ (q \o r)[i] = r[i - Len(q)]
      /\ \A i \in 1..Len(q) : i \in 1..Len(q \o r) /\ (q \o r)[i] = q[i]
  BY ConcatProperties, LenProperties
<1>2. Absent(H, q) /\ Absent(H, r) => Absent(H, q \o r)
  BY <1>1 DEF Absent
<1>3. Absent(H, q) /\ AtMostOne(H, r) => AtMostOne(H, q \o r)
  BY <1>1 DEF Absent, AtMostOne
<1>4. AtMostOne(H, q) /\ Absent(H, r) => AtMostOne(H, q \o r)
  BY <1>1 DEF Absent, AtMostOne
<1>5. ~Absent(H, q) => ~Absent(H, q \o r)
  BY <1>1 DEF Absent
<1>6. ASSUME ~Absent(H, r) PROVE ~Absent(H, q \o r)
  <2>1. PICK i \in 1..Len(r) : r[i] \in H
    BY <1>6 DEF Absent
  <2> DEFINE k == Len(q) + i
  <2>2. k \in 1..Len(q \o r) /\ ~(k <= Len(q)) /\ k - Len(q) = i
    BY <1>1
  <2>3. (q \o r)[k] = r[i]
    BY <2>2, ConcatProperties
  <2> HIDE DEF k
  <2> QED  BY <2>1, <2>2, <2>3 DEF Absent
<1> QED  BY <1>1, <1>2, <1>3, <1>4, <1>5, <1>6

\* What the empty queue and a queue of one handler hold.
LEMMA FewHandlers ==
    ASSUME NEW H, NEW S, NEW h \in S
    PROVE  /\ <<>> \in Seq(S) /\ Absent(H, <<>>) /\ AtMostOne(H, <<>>)
           /\ <<h>> \in Seq(S) /\ AtMostOne(H, <<h>>)
           /\ h \notin H => Absent(H, <<h>>)
<1>1. <<h>> \in Seq(S) /\ Len(<<h>>) = 1 /\ <<h>>[1] = h
  OBVIOUS
<1>2. <<>> \in Seq(S) /\ Len(<<>>) = 0
  BY EmptySeq
<1>3. Absent(H, <<>>) /\ AtMostOne(H, <<>>)
  BY <1>2 DEF Absent, AtMostOne
<1>4. AtMostOne(H, <<h>>) /\ (h \notin H => Absent(H, <<h>>))
  BY <1>1 DEF Absent, AtMostOne
<1> QED  BY <1>1, <1>2, <1>3, <1>4

-----------------------------------------------------------------------------
(* Type correctness.                                                       *)

\* The operations port.cancel aborts: one handler for each that was pending.
LEMMA AbortedHandlers ==
    /\ Aborted \in Seq(Handlers)
    /\ AtMostOne(ReadHandlers, Aborted) /\ AtMostOne(WriteHandlers, Aborted)
    /\ ~readPending => Absent(ReadHandlers, Aborted)
    /\ ~writePending => /\ Absent(WriteHandlers, Aborted)
                        /\ Absent({"writeErr"}, Aborted)
    /\ writePending => ~Absent(WriteHandlers, Aborted)
    /\ Absent({"writeOk"}, Aborted)
<1> DEFINE r == IF readPending THEN <<"readErr">> ELSE <<>>
           w == IF writePending THEN <<"writeErr">> ELSE <<>>
<1>1. /\ r \in Seq(Handlers) /\ AtMostOne(ReadHandlers, r)
      /\ Absent(WriteHandlers, r)
      /\ Absent({"writeOk"}, r) /\ Absent({"writeErr"}, r)
      /\ ~readPending => Absent(ReadHandlers, r)
  BY FewHandlers DEF Handlers, ReadHandlers, WriteHandlers
<1>2. /\ w \in Seq(Handlers) /\ AtMostOne(WriteHandlers, w)
      /\ Absent(ReadHandlers, w) /\ Absent({"writeOk"}, w)
      /\ ~writePending => Absent(WriteHandlers, w) /\ Absent({"writeErr"}, w)
  BY FewHandlers DEF Handlers, ReadHandlers, WriteHandlers
<1>3. writePending => ~Absent(WriteHandlers, w)
  BY DEF Absent, WriteHandlers
<1>4. Aborted = r \o w
  BY DEF Aborted
<1> HIDE DEF r, w
<1> QED  BY <1>1, <1>2, <1>3, <1>4, ConcatHandlers

LEMMA TypeInit == Init => TypeOK
<1> SUFFICES ASSUME Init PROVE TypeOK
  OBVIOUS
<1>1. /\ wpc \in [Writers -> {"idle", "post"}]
      /\ opens \in 0..MaxOpens /\ fault \in 0..MaxOpens
  BY BoundsAssumption DEF Init
<1>2. /\ ioq \in Seq(Handlers) /\ writeQueue \in Seq(Data) /\ inFlight \in Seq(Data)
      /\ accepted \in Seq(Data) /\ sent \in Seq(Data)
  BY EmptySeq DEF Init
<1> QED  BY <1>1, <1>2 DEF Init, TypeOK, BgStates, OwnStates, Calls

\* A step keeps the types of a state whose pending write has bytes left, if it
\* frees no buffer that holds anything.
LEMMA TypeNext ==
    ASSUME TypeOK, writePending => inFlight # <<>>,
           ~writeBuffer' => inFlight' = <<>>, [Next]_vars
    PROVE  TypeOK'
<1> USE DEF TypeOK, portVars, queueVars, ownVars, writeVars
<1>q. /\ \A h \in Handlers : Append(ioq, h) \in Seq(Handlers)
      /\ ioq # <<>> => Tail(ioq) \in Seq(Handlers)
      /\ \A h \in Handlers :
            ioq # <<>> => Append(Tail(ioq), h) \in Seq(Handlers)
      /\ "doRead" \in Handlers /\ "doWrite" \in Handlers /\ "doClose" \in Handlers
      /\ "readOk" \in Handlers /\ "readErr" \in Handlers
      /\ "writeOk" \in Handlers /\ "writeErr" \in Handlers
  <2>1. \A h \in Handlers : Append(ioq, h) \in Seq(Handlers)
    BY AppendHandler
  <2>2. ioq # <<>> => Tail(ioq) \in Seq(Handlers)
    BY TailHandler
  <2> QED  BY <2>1, <2>2, AppendHandler DEF Handlers
<1>d. /\ <<>> \in Seq(Data)
      /\ \A q \in Seq(Data) : \A d \in Data : Append(q, d) \in Seq(Data)
      /\ inFlight # <<>> => Head(inFlight) \in Data /\ Tail(inFlight) \in Seq(Data)
  BY HeadTailProperties, EmptySeq
<1>a. /\ ioq \o Aborted \in Seq(Handlers)
      /\ ioq # <<>> => Tail(ioq) \o Aborted \in Seq(Handlers)
  BY <1>q, AbortedHandlers, ConcatHandlers
<1>o. ASSUME OwnerProceeds PROVE TypeOK'
  <2> USE DEF Return, EnterOpen, EnterClose, Destroy, OwnStates, Calls
  <2>0. <<>> \in Seq(Handlers)
    BY EmptySeq
  <2>1. CASE OpenDevice
    <3>1. ioq' \in Seq(Handlers)
      BY <2>1, <1>q DEF OpenDevice
    <3>2. bg' \in BgStates /\ own' \in OwnStates
      BY <2>1 DEF OpenDevice, BgStates
    <3> QED  BY <2>1, <3>1, <3>2 DEF OpenDevice
  <2>2. CASE OpenThrows
    BY <2>0, <2>2, <1>q DEF OpenThrows
  <2>3. CASE OpenClearError \/ OpenPublish
    BY <2>3 DEF OpenClearError, OpenPublish
  <2>4. CASE ClosePost
    BY <2>4, <1>q DEF ClosePost
  <2>5. CASE CloseJoin
    BY <2>0, <2>5 DEF CloseJoin, ResetIo
  <2>6. CASE SetCallbackDone
    BY <2>6 DEF SetCallbackDone, DestroyFunctor, BgStates
  <2>7. CASE ClearCallbackDone
    BY <2>0, <2>7 DEF ClearCallbackDone, DestroyFunctor, BgStates
  <2> QED
    BY <1>o, <2>1, <2>2, <2>3, <2>4, <2>5, <2>6, <2>7 DEF OwnerProceeds
<1>c. ASSUME OwnerCalls PROVE TypeOK'
  <2> USE DEF EnterOpen, EnterClose, OwnStates, Calls
  <2>1. CASE CallNew \/ CallOpen
    <3>1. opens' \in 0..MaxOpens
      BY <2>1, BoundsAssumption DEF CallNew, CallOpen
    <3> QED  BY <2>1, <3>1 DEF CallNew, CallOpen
  <2>2. CASE CallClose
    BY <2>2 DEF CallClose
  <2>3. CASE CallSetCallback \/ CallClearCallback \/ CallDestroy
    BY <2>3 DEF CallSetCallback, CallClearCallback, CallDestroy, SwapCallback
  <2> QED
    BY <1>c, <2>1, <2>2, <2>3 DEF OwnerCalls
<1>w. ASSUME NEW w \in Writers, WritePost(w) \/ \E d \in Data : Write(w, d)
      PROVE  TypeOK'
  <2>1. CASE WritePost(w)
    BY <2>1, <1>q DEF WritePost
  <2>2. ASSUME NEW d \in Data, Write(w, d) PROVE TypeOK'
    BY <2>2, <1>d DEF Write
  <2> QED  BY <1>w, <2>1, <2>2
<1>b. ASSUME BgProceeds PROVE TypeOK'
  <2> USE DEF Runs, rest, BgStates
  <2>1. CASE RunDoRead
    BY <2>1, <1>q DEF RunDoRead, StartRead
  <2>2. CASE RunDoWrite
    BY <2>2, <1>q, <1>d DEF RunDoWrite, StartWrite
  <2>3. CASE RunDoClose \/ RunWriteErr \/ FailRead
    BY <2>3, <1>a DEF RunDoClose, RunWriteErr, FailRead, DoClose
  <2>4. CASE RunReadOk
    BY <2>4, <1>q DEF RunReadOk, StartRead
  <2>5. CASE RunReadErr
    BY <2>5, <1>q DEF RunReadErr
  <2>6. CASE RunWriteOk
    BY <2>6, <1>q, <1>d DEF RunWriteOk, WriteEndContinue, StartWrite
  <2>7. CASE InvokeCallback \/ RunReturns
    BY <2>7 DEF InvokeCallback, RunReturns
  <2>8. CASE CallbackReturn
    BY <2>8, <1>q DEF CallbackReturn, StartRead
  <2> QED
    BY <1>b, <2>1, <2>2, <2>3, <2>4, <2>5, <2>6, <2>7, <2>8 DEF BgProceeds
<1>r. ASSUME Reactor PROVE TypeOK'
  <2> USE DEF Completes
  <2>1. CASE ReadReady \/ ReadFault \/ WriteFault
    BY <2>1, <1>q DEF ReadReady, ReadFault, WriteFault
  <2>2. CASE WriteSome
    BY <2>2, <1>q, <1>d DEF WriteSome
  <2> QED
    BY <1>r, <2>1, <2>2 DEF Reactor
<1>s. CASE UNCHANGED vars
  BY <1>s DEF vars
<1> QED
  BY <1>o, <1>c, <1>w, <1>b, <1>r, <1>s DEF Next, Done


-----------------------------------------------------------------------------
(* The inductive invariant.                                                *)

\* Outside open() and close(), with the object not open.
Closed ==
    \/ own \in {"opening", "destroyed"}
    \/ own \in {"idle", "setting", "clearing"} /\ ~open

\* A closed object has no thread and a service that is ready to run again; a
\* thread that has left run() left no operation behind; and whoever finds the
\* port closed and no thread finds no read in the queue of the service.
ThreadInv ==
    /\ Closed => bg = "stopped" /\ ~ioStopped
    /\ ioStopped => bg = "stopped"
    /\ bg = "stopped" => ~readPending /\ ~writePending
    /\ bg = "stopped" /\ ~portOpen => Absent(ReadHandlers, ioq)

\* A buffer that is free, or whose write has completed, is empty; one whose
\* write has failed is not, and neither is one that is kept although no write
\* is out; only an open port has a write pending.
BufferInv ==
    /\ ~writeBuffer => inFlight = <<>>
    /\ ~Absent({"writeOk"}, ioq) => inFlight = <<>>
    /\ ~Absent({"writeErr"}, ioq) => inFlight # <<>>
    /\ writeBuffer /\ ~Writing /\ own # "destroyed" => inFlight # <<>>
    /\ writePending => portOpen

\* Queued data waits for the buffer, or somebody is about to fill it.
WakeupInv ==
    writeQueue # <<>> /\ own # "destroyed" =>
        writeBuffer \/ Queued("doWrite") \/ \E w \in Writers : wpc[w] = "post"

IInv ==
    /\ TypeOK
    /\ ThreadInv /\ OneReader
    /\ BufferInv /\ OneWriter
    /\ StreamInOrder /\ WakeupInv

-----------------------------------------------------------------------------
(* One thread and one reader.                                              *)

\* Starting a read when none is in the queue leaves at most one.
LEMMA StartReadOnce ==
    ASSUME NEW q \in Seq(Handlers), Absent(ReadHandlers, q), StartRead(q)
    PROVE  /\ AtMostOne(ReadHandlers, ioq')
           /\ readPending' => Absent(ReadHandlers, ioq')
<1>1. "readErr" \in Handlers
  BY DEF Handlers
<1>2. AtMostOne(ReadHandlers, Append(q, "readErr"))
  BY <1>1, AppendHandler
<1>3. AtMostOne(ReadHandlers, q)
  BY DEF Absent, AtMostOne
<1> QED  BY <1>2, <1>3 DEF StartRead

\* No step of the owner, the writers, the handlers or the reactor starts a
\* second reader or touches a closed object.
LEMMA ReaderNext ==
    ASSUME TypeOK, ThreadInv, OneReader, [Next]_vars
    PROVE  ThreadInv' /\ OneReader'
<1> USE DEF ThreadInv, OneReader, Closed, InCallback,
            portVars, queueVars, ownVars, writeVars
<1>q. ioq \in Seq(Handlers)
  BY DEF TypeOK
<1>h. /\ "doRead" \in Handlers /\ "doWrite" \in Handlers /\ "doClose" \in Handlers
      /\ "readOk" \in Handlers /\ "readErr" \in Handlers
      /\ "writeOk" \in Handlers /\ "writeErr" \in Handlers
      /\ "doRead" \in ReadHandlers /\ "readOk" \in ReadHandlers
      /\ "readErr" \in ReadHandlers
      /\ "doWrite" \notin ReadHandlers /\ "doClose" \notin ReadHandlers
      /\ "writeOk" \notin ReadHandlers /\ "writeErr" \notin ReadHandlers
  BY DEF Handlers, ReadHandlers
<1>t. ASSUME ioq # <<>>
      PROVE  /\ rest \in Seq(Handlers)
             /\ Absent(ReadHandlers, ioq) => Absent(ReadHandlers, rest)
             /\ AtMostOne(ReadHandlers, rest)
             /\ Head(ioq) \in ReadHandlers =>
                  Absent(ReadHandlers, rest) /\ ~Absent(ReadHandlers, ioq)
  BY <1>t, <1>q, TailHandler DEF rest
<1>p. ASSUME NEW q \in Seq(Handlers), NEW h \in Handlers, h \notin ReadHandlers
      PROVE  /\ Absent(ReadHandlers, q) => Absent(ReadHandlers, Append(q, h))
             /\ AtMostOne(ReadHandlers, q) => AtMostOne(ReadHandlers, Append(q, h))
  BY <1>p, AppendHandler
<1>c. ASSUME NEW q \in Seq(Handlers)
      PROVE  /\ ~readPending /\ Absent(ReadHandlers, q)
                    => Absent(ReadHandlers, q \o Aborted)
             /\ ~readPending /\ AtMostOne(ReadHandlers, q)
                    => AtMostOne(ReadHandlers, q \o Aborted)
             /\ Absent(ReadHandlers, q) => AtMostOne(ReadHandlers, q \o Aborted)
  BY AbortedHandlers, ConcatHandlers
<1>o. ASSUME OwnerProceeds PROVE ThreadInv' /\ OneReader'
  <2> USE DEF Return, EnterOpen, EnterClose, Destroy
  <2>0. Absent(ReadHandlers, <<>>) /\ AtMostOne(ReadHandlers, <<>>)
    BY FewHandlers
  <2>1. CASE OpenDevice
    <3>1. Absent(ReadHandlers, ioq) /\ bg = "stopped" /\ ~ioStopped
      BY <2>1 DEF OpenDevice
    <3>2. AtMostOne(ReadHandlers, Append(ioq, "doRead"))
      BY <3>1, <1>q, <1>h, AppendHandler
    <3> QED  BY <2>1, <3>1, <3>2 DEF OpenDevice
  <2>2. CASE OpenThrows
    <3>1. ~portOpen => AtMostOne(ReadHandlers, Append(ioq, "doRead"))
      BY <2>2, <1>q, <1>h, AppendHandler DEF OpenThrows
    <3> QED  BY <2>0, <2>2, <3>1 DEF OpenThrows
  <2>3. CASE OpenClearError \/ OpenPublish
    BY <2>3 DEF OpenClearError, OpenPublish
  <2>4. CASE ClosePost
    <3>1. /\ AtMostOne(ReadHandlers, ioq')
          /\ Absent(ReadHandlers, ioq) => Absent(ReadHandlers, ioq')
      BY <2>4, <1>q, <1>h, <1>p DEF ClosePost
    <3> QED  BY <2>4, <3>1 DEF ClosePost
  <2>5. CASE CloseJoin
    BY <2>0, <2>5 DEF CloseJoin, ResetIo
  <2>6. CASE SetCallbackDone
    BY <2>6 DEF SetCallbackDone, DestroyFunctor
  <2>7. CASE ClearCallbackDone
    BY <2>0, <2>7 DEF ClearCallbackDone, DestroyFunctor
  <2> QED
    BY <1>o, <2>1, <2>2, <2>3, <2>4, <2>5, <2>6, <2>7 DEF OwnerProceeds
<1>k. ASSUME OwnerCalls PROVE ThreadInv' /\ OneReader'
  BY <1>k DEF OwnerCalls, CallNew, CallOpen, CallClose, CallSetCallback,
              CallClearCallback, CallDestroy, SwapCallback, EnterOpen, EnterClose
<1>w. ASSUME NEW w \in Writers, WritePost(w) \/ \E d \in Data : Write(w, d)
      PROVE  ThreadInv' /\ OneReader'
  <2>1. CASE WritePost(w)
    <3>1. /\ AtMostOne(ReadHandlers, ioq')
          /\ Absent(ReadHandlers, ioq) => Absent(ReadHandlers, ioq')
      BY <2>1, <1>q, <1>h, <1>p DEF WritePost
    <3> QED  BY <2>1, <3>1 DEF WritePost
  <2>2. ASSUME NEW d \in Data, Write(w, d) PROVE ThreadInv' /\ OneReader'
    BY <2>2 DEF Write
  <2> QED  BY <1>w, <2>1, <2>2
<1>b. ASSUME BgProceeds PROVE ThreadInv' /\ OneReader'
  <2> USE DEF Runs
  <2>1. CASE RunDoRead
    <3>1. Absent(ReadHandlers, rest) /\ rest \in Seq(Handlers)
      BY <2>1, <1>h, <1>t DEF RunDoRead
    <3>2. StartRead(rest)
      BY <2>1 DEF RunDoRead
    <3>3. /\ AtMostOne(ReadHandlers, ioq')
          /\ readPending' => Absent(ReadHandlers, ioq')
      BY <3>1, <3>2, StartReadOnce
    <3> QED  BY <2>1, <3>3 DEF RunDoRead
  <2>2. CASE RunDoWrite \/ RunWriteOk
    <3>1. /\ AtMostOne(ReadHandlers, ioq')
          /\ readPending => Absent(ReadHandlers, ioq')
      BY <2>2, <1>h, <1>t, <1>p
         DEF RunDoWrite, RunWriteOk, WriteEndContinue, StartWrite
    <3> QED
      BY <2>2, <3>1 DEF RunDoWrite, RunWriteOk, WriteEndContinue, StartWrite
  <2>3. CASE RunDoClose \/ RunWriteErr
    <3>1. AtMostOne(ReadHandlers, rest \o Aborted)
      BY <2>3, <1>t, <1>c DEF RunDoClose, RunWriteErr
    <3>2. /\ ~readPending' /\ ~writePending' /\ ~portOpen' /\ bg = "idle"
          /\ ioq' = rest \o Aborted /\ UNCHANGED <<open, own, ioStopped, bg>>
      BY <2>3 DEF RunDoClose, RunWriteErr, DoClose
    <3> QED  BY <3>1, <3>2
  <2>4. CASE FailRead
    <3>1. AtMostOne(ReadHandlers, ioq \o Aborted)
      BY <2>4, <1>q, <1>c DEF FailRead
    <3> QED  BY <2>4, <3>1 DEF FailRead, DoClose
  <2>5. CASE RunReadErr
    <3>1. Absent(ReadHandlers, rest) /\ AtMostOne(ReadHandlers, rest)
      BY <2>5, <1>h, <1>t DEF RunReadErr
    <3> QED  BY <2>5, <3>1 DEF RunReadErr
  <2>6. CASE RunReadOk
    <3>1. Absent(ReadHandlers, rest) /\ AtMostOne(ReadHandlers, rest)
          /\ rest \in Seq(Handlers) /\ ~readPending
      BY <2>6, <1>h, <1>t DEF RunReadOk
    <3>2. CASE StartRead(rest) /\ UNCHANGED bg
      <4>1. /\ AtMostOne(ReadHandlers, ioq')
            /\ readPending' => Absent(ReadHandlers, ioq')
        BY <3>1, <3>2, StartReadOnce
      <4> QED  BY <2>6, <3>2, <4>1 DEF RunReadOk
    <3>3. CASE bg' = "invoke" /\ ioq' = rest /\ UNCHANGED readPending
      BY <2>6, <3>1, <3>3 DEF RunReadOk
    <3> QED  BY <2>6, <3>2, <3>3 DEF RunReadOk
  <2>7. CASE InvokeCallback
    BY <2>7 DEF InvokeCallback
  <2>8. CASE CallbackReturn
    <3>1. CASE bg' = "idle" /\ StartRead(ioq)
      <4>1. /\ AtMostOne(ReadHandlers, ioq')
            /\ readPending' => Absent(ReadHandlers, ioq')
        BY <2>8, <3>1, <1>q, StartReadOnce DEF CallbackReturn
      <4> QED  BY <2>8, <3>1, <4>1 DEF CallbackReturn
    <3>2. CASE bg' = "terminated" /\ UNCHANGED <<readPending, ioq>>
      BY <2>8, <3>2 DEF CallbackReturn
    <3> QED  BY <2>8, <3>1, <3>2 DEF CallbackReturn
  <2>9. CASE RunReturns
    <3>1. Absent(ReadHandlers, <<>>)
      BY FewHandlers
    <3> QED  BY <2>9, <3>1 DEF RunReturns
  <2> QED
    BY <1>b, <2>1, <2>2, <2>3, <2>4, <2>5, <2>6, <2>7, <2>8, <2>9 DEF BgProceeds
<1>r. ASSUME Reactor PROVE ThreadInv' /\ OneReader'
  <2> USE DEF Completes
  <2>1. CASE ReadReady \/ ReadFault
    <3>1. AtMostOne(ReadHandlers, ioq')
      <4>1. Absent(ReadHandlers, ioq)
        BY <2>1 DEF ReadReady, ReadFault
      <4>2. \A h \in Handlers : AtMostOne(ReadHandlers, Append(ioq, h))
        BY <4>1, <1>q, AppendHandler
      <4> QED  BY <2>1, <4>2, <1>h DEF ReadReady, ReadFault
    <3> QED  BY <2>1, <3>1 DEF ReadReady, ReadFault
  <2>2. CASE WriteSome \/ WriteFault
    <3>1. /\ AtMostOne(ReadHandlers, ioq')
          /\ readPending => Absent(ReadHandlers, ioq')
      BY <2>2, <1>q, <1>h, <1>p DEF WriteSome, WriteFault
    <3> QED  BY <2>2, <3>1 DEF WriteSome, WriteFault
  <2> QED  BY <1>r, <2>1, <2>2 DEF Reactor
<1>s. CASE UNCHANGED vars
  BY <1>s DEF vars
<1> QED
  BY <1>o, <1>k, <1>w, <1>b, <1>r, <1>s DEF Next, Done

-----------------------------------------------------------------------------
(* One writer, and the buffer it writes from.                              *)

\* Starting a write when none is in the queue leaves at most one, and a buffer
\* whose write has completed is empty.
LEMMA StartWriteOnce ==
    ASSUME TypeOK, ioq # <<>>, Absent(WriteHandlers, rest), StartWrite,
           UNCHANGED portOpen
    PROVE  BufferInv' /\ OneWriter'
<1>1. /\ rest \in Seq(Handlers) /\ "writeOk" \in Handlers /\ "writeErr" \in Handlers
      /\ "writeErr" \notin {"writeOk"} /\ "writeOk" \notin {"writeErr"}
      /\ "writeOk" \in WriteHandlers /\ "writeErr" \in WriteHandlers
  BY TailHandler DEF rest, TypeOK, Handlers, WriteHandlers
<1>2. /\ Absent({"writeOk"}, rest) /\ Absent({"writeErr"}, rest)
      /\ AtMostOne(WriteHandlers, rest)
  BY DEF Absent, AtMostOne, WriteHandlers
<1>3. /\ AtMostOne(WriteHandlers, Append(rest, "writeOk"))
      /\ AtMostOne(WriteHandlers, Append(rest, "writeErr"))
      /\ Absent({"writeOk"}, Append(rest, "writeErr"))
      /\ Absent({"writeErr"}, Append(rest, "writeOk"))
      /\ ~Absent(WriteHandlers, Append(rest, "writeOk"))
  BY <1>1, <1>2, AppendHandler
<1> USE DEF BufferInv, OneWriter, Writing
<1>4. CASE writeQueue = <<>>
  <2>1. /\ writeBuffer' /\ inFlight' = <<>> /\ ~writePending'
        /\ ioq' = Append(rest, "writeOk")
    BY <1>4 DEF StartWrite
  <2> QED  BY <1>3, <2>1
<1>5. CASE writeQueue # <<>> /\ portOpen
  <2>1. /\ writeBuffer' /\ inFlight' # <<>> /\ writePending' /\ portOpen'
        /\ ioq' = rest
    BY <1>5 DEF StartWrite
  <2> QED  BY <1>2, <2>1
<1>6. CASE writeQueue # <<>> /\ ~portOpen
  <2>1. /\ writeBuffer' /\ inFlight' # <<>> /\ ~writePending'
        /\ ioq' = Append(rest, "writeErr")
    BY <1>6 DEF StartWrite
  <2> QED  BY <1>3, <2>1
<1> QED  BY <1>4, <1>5, <1>6

\* No step starts a second write, or frees or replaces a buffer in use.
LEMMA WriterNext ==
    ASSUME TypeOK, ThreadInv, BufferInv, OneWriter, [Next]_vars
    PROVE  BufferInv' /\ OneWriter'
<1> USE DEF BufferInv, OneWriter, Writing, portVars, queueVars, ownVars, writeVars
<1>q. ioq \in Seq(Handlers)
  BY DEF TypeOK
<1>h. /\ "doRead" \in Handlers /\ "doWrite" \in Handlers /\ "doClose" \in Handlers
      /\ "readOk" \in Handlers /\ "readErr" \in Handlers
      /\ "writeOk" \in Handlers /\ "writeErr" \in Handlers
      /\ "writeOk" \in WriteHandlers /\ "writeErr" \in WriteHandlers
      /\ "doRead" \notin WriteHandlers /\ "readOk" \notin WriteHandlers
      /\ "readErr" \notin WriteHandlers /\ "doWrite" \notin WriteHandlers
      /\ "doClose" \notin WriteHandlers
  BY DEF Handlers, WriteHandlers
\* The queue loses its first handler, or gets one that is not of a write; and
\* it keeps the one that is.
<1> DEFINE Quiet(q) ==
      /\ AtMostOne(WriteHandlers, q)
      /\ Absent(WriteHandlers, ioq) => Absent(WriteHandlers, q)
      /\ Absent({"writeOk"}, ioq) => Absent({"writeOk"}, q)
      /\ Absent({"writeErr"}, ioq) => Absent({"writeErr"}, q)
           Keeps(q) == ~Absent(WriteHandlers, ioq) => ~Absent(WriteHandlers, q)
<1>t. ASSUME ioq # <<>>
      PROVE  /\ rest \in Seq(Handlers) /\ Quiet(rest)
             /\ Head(ioq) \in WriteHandlers =>
                  Absent(WriteHandlers, rest) /\ ~Absent(WriteHandlers, ioq)
             /\ Head(ioq) \notin WriteHandlers => Keeps(rest)
             /\ Head(ioq) \in {"writeOk"} => ~Absent({"writeOk"}, ioq)
             /\ Head(ioq) \in {"writeErr"} => ~Absent({"writeErr"}, ioq)
  BY <1>t, <1>q, TailHandler DEF rest
<1>p. ASSUME NEW q \in Seq(Handlers), Quiet(q),
             NEW h \in Handlers, h \notin WriteHandlers
      PROVE  Quiet(Append(q, h)) /\ (Keeps(q) => Keeps(Append(q, h)))
  <2>1. h \notin {"writeOk"} /\ h \notin {"writeErr"}
    BY <1>p DEF WriteHandlers
  <2> QED  BY <1>p, <2>1, AppendHandler
<1>g. Quiet(ioq) /\ Keeps(ioq)
  OBVIOUS
<1>u. ASSUME UNCHANGED <<writeBuffer, inFlight, writePending>>,
             own = "destroyed" => own' = "destroyed",
             Quiet(ioq'), Keeps(ioq'), writePending => portOpen'
      PROVE  BufferInv' /\ OneWriter'
  BY <1>u
<1>c. ASSUME NEW q \in Seq(Handlers), Quiet(q),
             ~Absent(WriteHandlers, ioq) => ~writePending
      PROVE  /\ AtMostOne(WriteHandlers, q \o Aborted)
             /\ Absent({"writeOk"}, ioq) => Absent({"writeOk"}, q \o Aborted)
             /\ Absent({"writeErr"}, ioq) /\ ~writePending =>
                  Absent({"writeErr"}, q \o Aborted)
             /\ Absent(WriteHandlers, ioq) /\ ~writePending =>
                  Absent(WriteHandlers, q \o Aborted)
             /\ writePending \/ ~Absent(WriteHandlers, q)
                  => ~Absent(WriteHandlers, q \o Aborted)
  BY <1>c, AbortedHandlers, ConcatHandlers
<1> HIDE DEF Quiet, Keeps
<1>o. ASSUME OwnerProceeds PROVE BufferInv' /\ OneWriter'
  <2>1. /\ UNCHANGED <<writeBuffer, inFlight, writePending>>
        /\ own # "destroyed"
    BY <1>o DEF OwnerProceeds, OpenDevice, OpenThrows, OpenClearError, OpenPublish,
                ClosePost, CloseJoin, SetCallbackDone, ClearCallbackDone
  <2>2. /\ Destroy => ~writePending
        /\ ~Destroy =>
             /\ portOpen => portOpen'
             /\ \/ ioq' = ioq \/ ioq' = Append(ioq, "doRead")
                \/ ioq' = Append(ioq, "doClose")
    BY <1>o DEF OwnerProceeds, OpenDevice, OpenThrows, OpenClearError, OpenPublish,
                ClosePost, CloseJoin, SetCallbackDone, ClearCallbackDone,
                ThreadInv, Closed, Destroy, Return, EnterOpen, EnterClose
  <2>3. CASE Destroy
    <3>1. /\ Absent(WriteHandlers, <<>>) /\ AtMostOne(WriteHandlers, <<>>)
          /\ Absent({"writeOk"}, <<>>) /\ Absent({"writeErr"}, <<>>)
      BY FewHandlers
    <3> QED  BY <2>1, <2>2, <2>3, <3>1 DEF Destroy
  <2>4. CASE ~Destroy
    <3>1. Quiet(ioq') /\ Keeps(ioq')
      BY <2>2, <2>4, <1>q, <1>h, <1>g, <1>p
    <3> QED  BY <2>1, <2>2, <2>4, <3>1, <1>u
  <2> QED  BY <2>3, <2>4
<1>k. ASSUME OwnerCalls PROVE BufferInv' /\ OneWriter'
  BY <1>k DEF EnterOpen, EnterClose, OwnerCalls, CallNew, CallOpen, CallClose, CallSetCallback,
              CallClearCallback, CallDestroy, SwapCallback
<1>w. ASSUME NEW w \in Writers, WritePost(w) \/ \E d \in Data : Write(w, d)
      PROVE  BufferInv' /\ OneWriter'
  <2>1. UNCHANGED <<writeBuffer, inFlight, writePending, portOpen, own>>
        /\ (ioq' = ioq \/ ioq' = Append(ioq, "doWrite"))
    BY <1>w DEF WritePost, Write
  <2>2. Quiet(ioq') /\ Keeps(ioq')
    BY <2>1, <1>q, <1>h, <1>g, <1>p
  <2> QED  BY <2>1, <2>2, <1>u
<1>b. ASSUME BgProceeds PROVE BufferInv' /\ OneWriter'
  <2> USE DEF Runs
  <2>1. CASE RunDoRead \/ RunReadErr \/ RunReadOk
    <3>1. /\ UNCHANGED <<writeBuffer, inFlight, writePending, portOpen, own>>
          /\ ioq # <<>> /\ Head(ioq) \notin WriteHandlers
          /\ ioq' = rest \/ ioq' = Append(rest, "readErr")
      BY <2>1, <1>h DEF RunDoRead, RunReadErr, RunReadOk, StartRead
    <3>2. Quiet(ioq') /\ Keeps(ioq')
      BY <3>1, <1>h, <1>p, <1>t
    <3> QED  BY <3>1, <3>2, <1>u
  <2>2. CASE RunDoWrite
    <3>1. CASE ~writeBuffer /\ StartWrite
      <4>1. Absent(WriteHandlers, rest) /\ ioq # <<>> /\ UNCHANGED portOpen
        BY <2>2, <3>1, <1>t DEF RunDoWrite, Quiet
      <4> QED  BY <3>1, <4>1, StartWriteOnce
    <3>2. CASE ioq' = rest
               /\ UNCHANGED <<writeBuffer, inFlight, writeQueue, writePending>>
      <4>1. Quiet(ioq') /\ Keeps(ioq') /\ UNCHANGED <<portOpen, own>>
        BY <2>2, <3>2, <1>t, <1>h DEF RunDoWrite
      <4> QED  BY <3>2, <4>1, <1>u
    <3> QED  BY <2>2, <3>1, <3>2 DEF RunDoWrite
  <2>3. CASE RunWriteOk
    <3>1. /\ ioq # <<>> /\ Absent(WriteHandlers, rest)
          /\ ~writePending /\ inFlight = <<>> /\ UNCHANGED portOpen
      BY <2>3, <1>h, <1>t DEF RunWriteOk
    <3>2. CASE StartWrite
      BY <3>1, <3>2, StartWriteOnce
    <3>3. CASE writeBuffer' = FALSE /\ ioq' = rest
               /\ UNCHANGED <<writeQueue, inFlight, writePending>>
      <4>1. /\ AtMostOne(WriteHandlers, rest) /\ Absent({"writeErr"}, rest)
            /\ Absent({"writeOk"}, rest)
        BY <3>1, <1>t DEF Quiet, Absent, WriteHandlers
      <4> QED  BY <2>3, <3>1, <3>3, <4>1 DEF RunWriteOk
    <3> QED  BY <2>3, <3>2, <3>3 DEF RunWriteOk, WriteEndContinue
  <2>4. CASE RunDoClose \/ FailRead
    <3>1. PICK q \in {ioq, rest} : /\ ioq' = q \o Aborted
                                  /\ q \in Seq(Handlers) /\ Quiet(q) /\ Keeps(q)
      BY <2>4, <1>q, <1>g, <1>t, <1>h DEF RunDoClose, FailRead, DoClose
    <3>2. ~writePending' /\ UNCHANGED <<writeBuffer, inFlight, own>>
      BY <2>4 DEF RunDoClose, FailRead, DoClose
    <3>3. /\ AtMostOne(WriteHandlers, ioq')
          /\ Absent({"writeOk"}, ioq) => Absent({"writeOk"}, ioq')
          /\ Absent({"writeErr"}, ioq) /\ ~writePending =>
               Absent({"writeErr"}, ioq')
          /\ Writing <=> ~Absent(WriteHandlers, ioq')
      BY <3>1, <1>c DEF Keeps
    <3> QED  BY <3>2, <3>3
  <2>9. CASE RunWriteErr
    <3>1. /\ ioq # <<>> /\ ioq' = rest \o Aborted /\ ~writePending'
          /\ UNCHANGED <<writeBuffer, inFlight>>
      BY <2>9 DEF RunWriteErr, DoClose
    <3>2. /\ ~writePending /\ inFlight # <<>>
          /\ rest \in Seq(Handlers) /\ Quiet(rest) /\ Absent(WriteHandlers, rest)
      BY <2>9, <1>h, <1>t DEF RunWriteErr
    <3>3. /\ AtMostOne(WriteHandlers, ioq')
          /\ Absent({"writeOk"}, ioq) => Absent({"writeOk"}, ioq')
      BY <3>1, <3>2, <1>c
    <3> QED  BY <3>1, <3>2, <3>3
  <2>5. CASE InvokeCallback \/ RunReturns
    BY <2>5 DEF InvokeCallback, RunReturns
  <2>6. CASE CallbackReturn
    <3>1. /\ UNCHANGED <<writeBuffer, inFlight, writePending, portOpen, own>>
          /\ ioq' = ioq \/ ioq' = Append(ioq, "readErr")
      BY <2>6 DEF CallbackReturn, StartRead
    <3>2. Quiet(ioq') /\ Keeps(ioq')
      BY <3>1, <1>q, <1>g, <1>h, <1>p
    <3> QED  BY <3>1, <3>2, <1>u
  <2> QED
    BY <1>b, <2>1, <2>2, <2>3, <2>4, <2>5, <2>6, <2>9 DEF BgProceeds
<1>r. ASSUME Reactor PROVE BufferInv' /\ OneWriter'
  <2> USE DEF Completes
  <2>1. CASE ReadReady \/ ReadFault
    <3>1. UNCHANGED <<writeBuffer, inFlight, writePending, portOpen, own>>
          /\ (ioq' = Append(ioq, "readOk") \/ ioq' = Append(ioq, "readErr"))
      BY <2>1 DEF ReadReady, ReadFault
    <3>2. Quiet(ioq') /\ Keeps(ioq')
      BY <3>1, <1>q, <1>g, <1>h, <1>p
    <3> QED  BY <3>1, <3>2, <1>u
  <2>2. CASE WriteSome \/ WriteFault
    <3>1. Absent(WriteHandlers, ioq) /\ writeBuffer
      BY <2>2 DEF WriteSome, WriteFault
    <3>2. \A h \in Handlers : AtMostOne(WriteHandlers, Append(ioq, h))
      BY <3>1, <1>q, AppendHandler
    <3>3. /\ Absent({"writeOk"}, ioq) /\ Absent({"writeErr"}, ioq)
          /\ Absent({"writeOk"}, Append(ioq, "writeErr"))
          /\ Absent({"writeErr"}, Append(ioq, "writeOk"))
          /\ ~Absent(WriteHandlers, Append(ioq, "writeOk"))
          /\ ~Absent(WriteHandlers, Append(ioq, "writeErr"))
      <4>1. Absent({"writeOk"}, ioq) /\ Absent({"writeErr"}, ioq)
        BY <3>1 DEF Absent, WriteHandlers
      <4>2. "writeErr" \notin {"writeOk"} /\ "writeOk" \notin {"writeErr"}
        OBVIOUS
      <4> QED  BY <4>1, <4>2, <1>q, <1>h, AppendHandler
    <3>4. CASE WriteFault
      <4>1. /\ ioq' = Append(ioq, "writeErr") /\ ~writePending' /\ inFlight # <<>>
            /\ UNCHANGED <<inFlight, writeBuffer>>
        BY <3>4 DEF WriteFault
      <4> QED  BY <3>1, <3>2, <3>3, <4>1, <1>h
    <3>5. CASE WriteSome
      <4>1. /\ UNCHANGED <<writeBuffer, portOpen>> /\ portOpen
            /\ \/ /\ inFlight' = <<>> /\ ~writePending'
                  /\ ioq' = Append(ioq, "writeOk")
               \/ inFlight' # <<>> /\ writePending' /\ ioq' = ioq
        BY <3>5 DEF WriteSome
      <4> QED  BY <3>1, <3>2, <3>3, <4>1, <1>h
    <3> QED  BY <2>2, <3>4, <3>5
  <2> QED  BY <1>r, <2>1, <2>2 DEF Reactor
<1>s. CASE UNCHANGED vars
  BY <1>s DEF vars
<1> QED
  BY <1>o, <1>k, <1>w, <1>b, <1>r, <1>s DEF Next, Done

-----------------------------------------------------------------------------
(* The stream, and the data nobody would come for.                         *)

\* A step that moves no data.
Still == UNCHANGED <<sent, inFlight, writeQueue, accepted>>

\* A step of the channel: data enters at the back of the queue, leaves at the
\* front of the buffer, or moves from the queue to an empty buffer.
LEMMA DataMoves ==
    ASSUME BufferInv, OneWriter, [Next]_vars
    PROVE  \/ Still
           \/ /\ \E d \in Data : /\ accepted' = Append(accepted, d)
                                 /\ writeQueue' = Append(writeQueue, d)
              /\ UNCHANGED <<sent, inFlight, portOpen>>
           \/ /\ inFlight = <<>> /\ inFlight' = writeQueue /\ writeQueue' = <<>>
              /\ UNCHANGED <<sent, accepted>>
           \/ /\ portOpen /\ inFlight # <<>>
              /\ sent' = Append(sent, Head(inFlight)) /\ inFlight' = Tail(inFlight)
              /\ UNCHANGED <<writeQueue, accepted, portOpen>>
<1> USE DEF Still, portVars, queueVars, ownVars, writeVars
<1>o. ASSUME OwnerProceeds PROVE Still
  BY <1>o DEF OwnerProceeds, OpenDevice, OpenThrows, OpenClearError, OpenPublish,
              ClosePost, CloseJoin, SetCallbackDone, ClearCallbackDone
<1>k. ASSUME OwnerCalls PROVE Still
  BY <1>k DEF OwnerCalls, CallNew, CallOpen, CallClose, CallSetCallback,
              CallClearCallback, CallDestroy, SwapCallback
<1>w. ASSUME NEW w \in Writers, WritePost(w) PROVE Still
  BY <1>w DEF WritePost
<1>a. ASSUME NEW w \in Writers, NEW d \in Data, Write(w, d)
      PROVE  /\ accepted' = Append(accepted, d)
             /\ writeQueue' = Append(writeQueue, d)
             /\ UNCHANGED <<sent, inFlight, portOpen>>
  BY <1>a DEF Write
<1>b. ASSUME BgProceeds
      PROVE  \/ Still
             \/ /\ inFlight = <<>> /\ inFlight' = writeQueue /\ writeQueue' = <<>>
                /\ UNCHANGED <<sent, accepted>>
  <2>1. CASE RunDoWrite
    BY <2>1 DEF RunDoWrite, StartWrite, BufferInv
  <2>2. CASE RunWriteOk
    <3>1. inFlight = <<>>
      <4>1. ~Absent({"writeOk"}, ioq)
        <5>1. ioq # <<>> /\ Head(ioq) = "writeOk"
          BY <2>2 DEF RunWriteOk, Runs
        <5>2. 1 \in 1..Len(ioq) /\ ioq[1] = "writeOk"
          BY <5>1
        <5> QED  BY <5>2 DEF Absent
      <4> QED  BY <4>1 DEF BufferInv
    <3> QED  BY <2>2, <3>1 DEF RunWriteOk, WriteEndContinue, StartWrite
  <2>3. CASE \/ RunDoRead \/ RunDoClose \/ RunReadOk \/ RunReadErr \/ RunWriteErr
             \/ FailRead \/ InvokeCallback \/ CallbackReturn \/ RunReturns
    BY <2>3 DEF RunDoRead, RunDoClose, RunReadOk, RunReadErr, RunWriteErr, FailRead,
                InvokeCallback, CallbackReturn, RunReturns
  <2> QED  BY <1>b, <2>1, <2>2, <2>3 DEF BgProceeds
<1>r. ASSUME Reactor
      PROVE  \/ Still
             \/ /\ portOpen /\ inFlight # <<>>
                /\ sent' = Append(sent, Head(inFlight)) /\ inFlight' = Tail(inFlight)
                /\ UNCHANGED <<writeQueue, accepted, portOpen>>
  BY <1>r DEF Reactor, ReadReady, ReadFault, WriteSome, WriteFault,
              BufferInv, OneWriter
<1>s. ASSUME UNCHANGED vars PROVE Still
  BY <1>s DEF vars
<1> QED
  BY <1>o, <1>k, <1>w, <1>a, <1>b, <1>r, <1>s DEF Next, Done

\* Concatenating streams of data, as one fact for the steps below.
LEMMA DataConcat ==
    /\ \A s, t \in Seq(Data) : s \o t \in Seq(Data)
    /\ \A s, t, u \in Seq(Data) : (s \o t) \o u = s \o (t \o u)
<1>1. \A s, t \in Seq(Data) : s \o t \in Seq(Data)
  BY ConcatProperties
<1>2. \A s, t, u \in Seq(Data) : (s \o t) \o u = s \o (t \o u)
  BY ConcatAssociative
<1> QED  BY <1>1, <1>2

\* Appending one element to the queue appends it to the whole stream.
LEMMA StreamGrows ==
    ASSUME NEW s \in Seq(Data), NEW f \in Seq(Data), NEW q \in Seq(Data),
           NEW one \in Seq(Data)
    PROVE  s \o (f \o (q \o one)) = (s \o (f \o q)) \o one
<1>1. f \o (q \o one) = (f \o q) \o one /\ f \o q \in Seq(Data)
  BY DataConcat
<1>2. s \o ((f \o q) \o one) = (s \o (f \o q)) \o one
  BY <1>1, DataConcat
<1> QED  BY <1>1, <1>2

\* However data moves, the stream stays what was accepted.
LEMMA StreamNext ==
    ASSUME TypeOK, BufferInv, OneWriter, StreamInOrder, [Next]_vars
    PROVE  StreamInOrder'
<1>t. /\ sent \in Seq(Data) /\ inFlight \in Seq(Data) /\ writeQueue \in Seq(Data)
      /\ accepted \in Seq(Data) /\ <<>> \in Seq(Data)
  BY EmptySeq DEF TypeOK
<1>1. CASE Still
  BY <1>1 DEF Still, StreamInOrder
<1>2. ASSUME NEW d \in Data, accepted' = Append(accepted, d),
             writeQueue' = Append(writeQueue, d), UNCHANGED <<sent, inFlight>>
      PROVE  StreamInOrder'
  <2>1. <<d>> \in Seq(Data)
    OBVIOUS
  <2>2. writeQueue' = writeQueue \o <<d>> /\ accepted' = accepted \o <<d>>
    BY <1>2, <1>t, AppendIsConcat
  <2>3. sent \o (inFlight \o (writeQueue \o <<d>>))
          = (sent \o (inFlight \o writeQueue)) \o <<d>>
    BY <1>t, <2>1, StreamGrows
  <2> QED  BY <1>2, <2>2, <2>3 DEF StreamInOrder
<1>3. CASE /\ inFlight = <<>> /\ inFlight' = writeQueue /\ writeQueue' = <<>>
           /\ UNCHANGED <<sent, accepted>>
  <2>1. <<>> \o writeQueue = writeQueue /\ writeQueue \o <<>> = writeQueue
    BY <1>t, ConcatEmptySeq
  <2> QED  BY <1>3, <2>1 DEF StreamInOrder
<1>4. CASE /\ inFlight # <<>>
           /\ sent' = Append(sent, Head(inFlight)) /\ inFlight' = Tail(inFlight)
           /\ UNCHANGED <<writeQueue, accepted>>
  <2> DEFINE one == <<Head(inFlight)>>
             left == Tail(inFlight)
  <2>1. Head(inFlight) \in Data /\ left \in Seq(Data)
    BY <1>t, <1>4, HeadTailProperties
  <2>2. sent' = sent \o one /\ inFlight' = left
    BY <1>t, <1>4, <2>1, AppendIsConcat
  <2>3. inFlight = one \o left
    BY <1>t, <1>4, <2>1
  <2>5. one \in Seq(Data)
    BY <2>1
  <2> HIDE DEF one, left
  <2>4. (sent \o one) \o (left \o writeQueue) = sent \o ((one \o left) \o writeQueue)
    <3>1. \A q \in Seq(Data) : (sent \o one) \o q = sent \o (one \o q)
      BY <1>t, <2>5, DataConcat
    <3>2. left \o writeQueue \in Seq(Data)
      BY <1>t, <2>1, DataConcat
    <3>3. (sent \o one) \o (left \o writeQueue) = sent \o (one \o (left \o writeQueue))
      BY <3>1, <3>2
    <3>4. one \o (left \o writeQueue) = (one \o left) \o writeQueue
      <4>1. \A q \in Seq(Data) : (one \o left) \o q = one \o (left \o q)
        BY <2>1, <2>5, DataConcat
      <4> QED  BY <1>t, <4>1
    <3> QED  BY <3>3, <3>4
  <2> QED  BY <1>4, <2>2, <2>3, <2>4 DEF StreamInOrder
<1> QED  BY <1>1, <1>2, <1>3, <1>4, DataMoves

\* No step leaves data in the queue that neither waits for the buffer nor has
\* somebody on the way to it.
LEMMA WakeupNext ==
    ASSUME TypeOK, WakeupInv, [Next]_vars
    PROVE  WakeupInv'
<1> USE DEF WakeupInv, Queued, portVars, queueVars, ownVars, writeVars
<1>q. /\ ioq \in Seq(Handlers) /\ "doRead" \in Handlers /\ "doWrite" \in Handlers
      /\ "doClose" \in Handlers /\ "readOk" \in Handlers /\ "readErr" \in Handlers
      /\ "writeOk" \in Handlers /\ "writeErr" \in Handlers
  BY DEF TypeOK, Handlers
\* A doWrite that is queued stays queued.
<1> DEFINE Keeps(q) ==
      /\ q \in Seq(Handlers)
      /\ ~Absent({"doWrite"}, ioq) => ~Absent({"doWrite"}, q)
<1>g. Keeps(ioq)
  BY <1>q
<1>t. ASSUME ioq # <<>>, Head(ioq) # "doWrite" PROVE Keeps(rest)
  <2>1. Head(ioq) \notin {"doWrite"}
    BY <1>t
  <2> QED  BY <1>t, <1>q, <2>1, TailHandler DEF rest
<1>p. ASSUME NEW q, Keeps(q), NEW h \in Handlers PROVE Keeps(Append(q, h))
  BY <1>p, AppendHandler
<1>c. ASSUME NEW q, Keeps(q) PROVE Keeps(q \o Aborted)
  BY <1>c, AbortedHandlers, ConcatHandlers
<1>u. ASSUME UNCHANGED <<writeQueue, writeBuffer, wpc>>, Keeps(ioq'),
             own = "destroyed" => own' = "destroyed"
      PROVE  WakeupInv'
  BY <1>u
<1> HIDE DEF Keeps
<1>o. ASSUME OwnerProceeds PROVE WakeupInv'
  <2>1. UNCHANGED <<writeQueue, writeBuffer, wpc>> /\ own # "destroyed"
    BY <1>o DEF OwnerProceeds, OpenDevice, OpenThrows, OpenClearError, OpenPublish,
                ClosePost, CloseJoin, SetCallbackDone, ClearCallbackDone
  <2>2. \/ own' = "destroyed"
        \/ ioq' = ioq \/ ioq' = Append(ioq, "doRead") \/ ioq' = Append(ioq, "doClose")
    BY <1>o DEF OwnerProceeds, OpenDevice, OpenThrows, OpenClearError, OpenPublish,
                ClosePost, CloseJoin, SetCallbackDone, ClearCallbackDone, Destroy
  <2>3. own' = "destroyed" \/ Keeps(ioq')
    BY <2>2, <1>q, <1>g, <1>p
  <2> QED  BY <2>1, <2>3, <1>u
<1>k. ASSUME OwnerCalls PROVE WakeupInv'
  BY <1>k DEF EnterOpen, EnterClose, OwnerCalls, CallNew, CallOpen, CallClose, CallSetCallback,
              CallClearCallback, CallDestroy, SwapCallback
<1>w. ASSUME NEW w \in Writers, WritePost(w) PROVE WakeupInv'
  <2>1. ~Absent({"doWrite"}, Append(ioq, "doWrite"))
    BY <1>q, AppendHandler
  <2> QED  BY <1>w, <2>1 DEF WritePost
<1>a. ASSUME NEW w \in Writers, NEW d \in Data, Write(w, d) PROVE WakeupInv'
  <2>1. wpc'[w] = "post"
    BY <1>a DEF Write, TypeOK
  <2> QED  BY <2>1
<1>b. ASSUME BgProceeds PROVE WakeupInv'
  <2>1. CASE RunDoWrite
    BY <2>1 DEF RunDoWrite, StartWrite
  <2>2. CASE RunWriteOk
    BY <2>2 DEF RunWriteOk, WriteEndContinue, StartWrite
  <2>3. CASE RunDoRead \/ RunReadOk \/ RunReadErr
    <3>1. /\ UNCHANGED <<writeQueue, writeBuffer, wpc, own>>
          /\ ioq # <<>> /\ Head(ioq) # "doWrite"
          /\ ioq' = rest \/ ioq' = Append(rest, "readErr")
      BY <2>3 DEF RunDoRead, RunReadOk, RunReadErr, StartRead, Runs
    <3>2. Keeps(ioq')
      BY <3>1, <1>q, <1>t, <1>p
    <3> QED  BY <3>1, <3>2, <1>u
  <2>4. CASE RunDoClose \/ RunWriteErr
    <3>1. /\ UNCHANGED <<writeQueue, writeBuffer, wpc, own>>
          /\ ioq # <<>> /\ Head(ioq) # "doWrite" /\ ioq' = rest \o Aborted
      BY <2>4 DEF RunDoClose, RunWriteErr, DoClose, Runs
    <3>2. Keeps(ioq')
      BY <3>1, <1>t, <1>c
    <3> QED  BY <3>1, <3>2, <1>u
  <2>5. CASE FailRead
    <3>1. UNCHANGED <<writeQueue, writeBuffer, wpc, own>> /\ ioq' = ioq \o Aborted
      BY <2>5 DEF FailRead, DoClose
    <3>2. Keeps(ioq')
      BY <3>1, <1>g, <1>c
    <3> QED  BY <3>1, <3>2, <1>u
  <2>6. CASE InvokeCallback \/ RunReturns
    BY <2>6 DEF InvokeCallback, RunReturns
  <2>7. CASE CallbackReturn
    <3>1. /\ UNCHANGED <<writeQueue, writeBuffer, wpc, own>>
          /\ ioq' = ioq \/ ioq' = Append(ioq, "readErr")
      BY <2>7 DEF CallbackReturn, StartRead
    <3>2. Keeps(ioq')
      BY <3>1, <1>q, <1>g, <1>p
    <3> QED  BY <3>1, <3>2, <1>u
  <2> QED
    BY <1>b, <2>1, <2>2, <2>3, <2>4, <2>5, <2>6, <2>7 DEF BgProceeds
<1>r. ASSUME Reactor PROVE WakeupInv'
  <2>1. /\ UNCHANGED <<writeQueue, writeBuffer, wpc, own>>
        /\ ioq' = ioq \/ \E h \in Handlers : ioq' = Append(ioq, h)
    BY <1>r, <1>q DEF Reactor, ReadReady, ReadFault, WriteSome, WriteFault, Completes
  <2>2. Keeps(ioq')
    BY <2>1, <1>g, <1>p
  <2> QED  BY <2>1, <2>2, <1>u
<1>s. CASE UNCHANGED vars
  BY <1>s DEF vars
<1> QED
  BY <1>o, <1>k, <1>w, <1>a, <1>b, <1>r, <1>s DEF Next, Done

-----------------------------------------------------------------------------
(* The theorems.                                                           *)

\* The head of a buffer that is not empty is what the device gets next.
LEMMA NextToSend ==
    ASSUME TypeOK, StreamInOrder, inFlight # <<>>
    PROVE  Len(sent) < Len(accepted) /\ accepted[Len(sent) + 1] = Head(inFlight)
<1> DEFINE left == inFlight \o writeQueue
<1>1. /\ sent \in Seq(Data) /\ inFlight \in Seq(Data) /\ writeQueue \in Seq(Data)
      /\ accepted = sent \o left
  BY DEF TypeOK, StreamInOrder
<1>2. /\ Len(sent) \in Nat /\ Len(writeQueue) \in Nat /\ Len(inFlight) \in Nat \ {0}
      /\ Head(inFlight) = inFlight[1]
  BY <1>1, EmptySeq, LenProperties
<1>3. left \in Seq(Data) /\ Len(left) \in Nat \ {0} /\ left[1] = inFlight[1]
  BY <1>1, <1>2, ConcatProperties
<1> HIDE DEF left
<1>4. /\ Len(accepted) = Len(sent) + Len(left)
      /\ \A i \in 1..Len(sent) + Len(left) :
            accepted[i] = IF i <= Len(sent) THEN sent[i] ELSE left[i - Len(sent)]
  BY <1>1, <1>3, ConcatProperties
<1>5. accepted[Len(sent) + 1] = left[1]
  BY <1>2, <1>3, <1>4
<1> QED  BY <1>2, <1>3, <1>4, <1>5

LEMMA InvInit == Init => IInv
<1> SUFFICES ASSUME Init PROVE IInv
  OBVIOUS
<1>1. TypeOK
  BY TypeInit
<1>2. /\ Absent(ReadHandlers, ioq) /\ AtMostOne(ReadHandlers, ioq)
      /\ Absent(WriteHandlers, ioq) /\ AtMostOne(WriteHandlers, ioq)
      /\ Absent({"writeOk"}, ioq) /\ Absent({"writeErr"}, ioq)
  BY FewHandlers DEF Init
<1>3. ThreadInv /\ OneReader /\ BufferInv /\ OneWriter
  BY <1>2 DEF Init, ThreadInv, Closed, OneReader, InCallback, BufferInv, OneWriter
<1>4. <<>> \o (<<>> \o <<>>) = <<>>
  BY EmptySeq, ConcatEmptySeq
<1>5. StreamInOrder /\ WakeupInv
  BY <1>4 DEF Init, StreamInOrder, WakeupInv
<1> QED  BY <1>1, <1>3, <1>5 DEF IInv

LEMMA InvNext == IInv /\ [Next]_vars => IInv'
<1> SUFFICES ASSUME IInv, [Next]_vars PROVE IInv'
  OBVIOUS
<1> USE DEF IInv
<1>3. BufferInv' /\ OneWriter'
  BY WriterNext
<1>1. TypeOK'
  BY <1>3, TypeNext DEF OneWriter, BufferInv
<1>2. ThreadInv' /\ OneReader'
  BY ReaderNext
<1>4. StreamInOrder'
  BY StreamNext
<1>5. WakeupInv'
  BY WakeupNext
<1> QED  BY <1>1, <1>2, <1>3, <1>4, <1>5

LEMMA Invariance == Spec => []IInv
  BY InvInit, InvNext, PTL DEF Spec

\* Every variable of the component stays in its range.
THEOREM TypeCorrect == Spec => []TypeOK
<1>1. IInv => TypeOK
  BY DEF IInv
<1> QED  BY <1>1, Invariance, PTL

\* write(): nothing accepted is lost, doubled or reordered by any interleaving
\* of writers, handlers, device errors, closings and reopenings.
THEOREM StreamCorrect == Spec => []StreamInOrder
<1>1. IInv => StreamInOrder
  BY DEF IInv
<1> QED  BY <1>1, Invariance, PTL

\* Queued data has somebody on the way to it: a writer, a doWrite, or a write
\* that is out. The only buffer that is taken without any of them is the one a
\* failed write has left behind.
THEOREM WakeupCorrect == Spec => []NoLostWakeup
<1>1. IInv => NoLostWakeup
  BY DEF IInv, BufferInv, WakeupInv, NoLostWakeup, Stranded
<1> QED  BY <1>1, Invariance, PTL

\* readBuffer has one user at a time over all sessions.
THEOREM ReaderCorrect == Spec => []OneReader
<1>1. IInv => OneReader
  BY DEF IInv
<1> QED  BY <1>1, Invariance, PTL

\* writeBuffer is neither freed nor replaced while a write uses it.
THEOREM WriterCorrect == Spec => []OneWriter
<1>1. IInv => OneWriter
  BY DEF IInv
<1> QED  BY <1>1, Invariance, PTL

\* close() and the destructor leave no thread and no operation behind.
THEOREM JoinCorrect == Spec => []ThreadJoined
<1>1. IInv => ThreadJoined
  BY DEF IInv, ThreadInv, Closed, ThreadJoined
<1> QED  BY <1>1, Invariance, PTL

\* Every step of AsyncSerial is a step of the channel its header promises.
THEOREM ImplementsChannel == Spec => ChannelSpec
<1>1. Init => Channel!Init
  BY DEF Init, Channel!Init
<1>2. IInv /\ [Next]_vars => [Channel!Next]_(Channel!vars)
  <2> SUFFICES ASSUME IInv, [Next]_vars PROVE [Channel!Next]_(Channel!vars)
    OBVIOUS
  <2> USE DEF Channel!vars
  <2>1. portOpen \in BOOLEAN /\ portOpen' \in BOOLEAN
    BY InvNext DEF IInv, TypeOK
  <2>2. ASSUME NEW d \in Data, accepted' = Append(accepted, d),
               UNCHANGED <<sent, portOpen>>
        PROVE  [Channel!Next]_(Channel!vars)
    BY <2>2 DEF Channel!Next, Channel!Accept
  <2>3. CASE /\ portOpen /\ inFlight # <<>>
             /\ sent' = Append(sent, Head(inFlight))
             /\ UNCHANGED <<accepted, portOpen>>
    BY <2>3, NextToSend DEF Channel!Next, Channel!Transmit, IInv
  <2>4. CASE UNCHANGED <<sent, accepted>>
    BY <2>1, <2>4 DEF Channel!Next, Channel!Attach, Channel!Detach
  <2> QED  BY <2>2, <2>3, <2>4, DataMoves DEF IInv, Still
<1> QED  BY <1>1, <1>2, Invariance, PTL DEF Spec, ChannelSpec, Channel!Spec
=============================================================================
