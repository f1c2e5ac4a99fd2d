---------------------------- MODULE CarPi_proofs ----------------------------
(***************************************************************************)
(* Proofs about the daemon, for any number of rounds: it asks once in each *)
(* of them, keeps its port unless the device fails, and is left alone by   *)
(* the callback it has cleared.                                            *)
(***************************************************************************)
EXTENDS CarPi, AsyncSerial_proofs

\* Whatever the main thread, the signals, the background thread or the device
\* do to the shield is a step of AsyncSerial, or none.
LEMMA ShieldStep == [CarPiNext]_sysVars => [Next]_vars
<1> SUFFICES ASSUME [CarPiNext]_sysVars PROVE [Next]_vars
  OBVIOUS
<1>1. CASE MainProceeds
  <2>1. CASE ParseOptions \/ Daemonize \/ Construct \/ RunCatches
             \/ StartPolling \/ Wake \/ RunReturned \/ Cleanup
    BY <2>1 DEF ParseOptions, Daemonize, Construct, RunCatches, StartPolling,
                Wake, RunReturned, Cleanup
  <2>2. CASE NewShield \/ SetShieldCallback \/ ClearShieldCallback
    BY <2>2 DEF NewShield, SetShieldCallback, ClearShieldCallback,
                OwnerCalls, Next
  <2>3. CASE Poll
    BY <2>3, DaemonAssumption DEF Poll, Next
  <2>4. CASE PollPosted
    BY <2>4, DaemonAssumption DEF PollPosted, Next
  <2> QED  BY <1>1, <2>1, <2>2, <2>3, <2>4 DEF MainProceeds
<1>2. CASE CallProceeds
  BY <1>2 DEF CallProceeds, Next
<1>3. CASE Background
  BY <1>3 DEF Background, Next
<1>4. CASE Device
  BY <1>4 DEF Device, Next
<1>5. CASE Killed \/ Sigterm
  BY <1>5 DEF Killed, Sigterm
<1>6. CASE Ended \/ UNCHANGED sysVars
  BY <1>6 DEF Ended, sysVars
<1> QED  BY <1>1, <1>2, <1>3, <1>4, <1>5, <1>6 DEF CarPiNext

\* The daemon is one of the users that module AsyncSerial allows for, so what
\* holds of every AsyncSerial holds of its shield.
LEMMA ShieldCorrect ==
    CarPiSpec => [](TypeOK /\ StreamInOrder /\ NoLostWakeup
                      /\ OneReader /\ OneWriter /\ ThreadJoined)
<1>1. CarPiInit => Init
  BY DEF CarPiInit
<1>2. CarPiSpec => Spec
  BY <1>1, ShieldStep, PTL DEF CarPiSpec, Spec
<1> QED
  BY <1>2, TypeCorrect, StreamCorrect, WakeupCorrect, ReaderCorrect,
     WriterCorrect, JoinCorrect, PTL

-----------------------------------------------------------------------------
LEMMA DaemonTypeInit == CarPiInit => CarPiTypeOK
<1> SUFFICES ASSUME CarPiInit PROVE CarPiTypeOK
  OBVIOUS
<1>1. polled \in 0..Polls
  BY DaemonAssumption DEF CarPiInit
<1> QED  BY <1>1 DEF CarPiInit, CarPiTypeOK, MainStates

LEMMA DaemonTypeNext == CarPiTypeOK /\ [CarPiNext]_sysVars => CarPiTypeOK'
<1> SUFFICES ASSUME CarPiTypeOK, [CarPiNext]_sysVars PROVE CarPiTypeOK'
  OBVIOUS
<1> USE DEF CarPiTypeOK, MainStates, At, Running
<1>1. CASE MainProceeds
  <2>1. CASE ParseOptions \/ Daemonize \/ Construct
    BY <2>1 DEF ParseOptions, Daemonize, Construct, Goto, Exit
  <2>2. CASE NewShield \/ RunCatches \/ SetShieldCallback \/ StartPolling
    BY <2>2 DEF NewShield, RunCatches, SetShieldCallback, StartPolling, Goto
  <2>3. CASE Poll
    BY <2>3, DaemonAssumption DEF Poll
  <2>4. CASE PollPosted \/ Wake \/ ClearShieldCallback \/ RunReturned
    BY <2>4 DEF PollPosted, Wake, ClearShieldCallback, RunReturned, Goto
  <2>5. CASE Cleanup
    BY <2>5 DEF Cleanup, Exit
  <2> QED  BY <1>1, <2>1, <2>2, <2>3, <2>4, <2>5 DEF MainProceeds
<1>2. CASE CallProceeds \/ Background \/ Device
  BY <1>2 DEF CallProceeds, Background, Device, mainVars
<1>3. CASE Killed
  BY <1>3 DEF Killed, Exit
<1>4. CASE Sigterm
  BY <1>4 DEF Sigterm
<1>5. CASE Ended \/ UNCHANGED sysVars
  BY <1>5 DEF Ended, sysVars, mainVars
<1> QED  BY <1>1, <1>2, <1>3, <1>4, <1>5 DEF CarPiNext

\* The main thread's variables stay in their ranges, the process has ended
\* exactly when its main thread has, and only a daemon with handlers sees doRun
\* cleared.
THEOREM DaemonTypeCorrect == CarPiSpec => []CarPiTypeOK
  BY DaemonTypeInit, DaemonTypeNext, PTL DEF CarPiSpec

-----------------------------------------------------------------------------
\* Only the poll writes to the shield.
LEMMA OnlyPollWrites ==
    ASSUME [CarPiNext]_sysVars, ~Poll
    PROVE  accepted' = accepted /\ polled' = polled
<1> USE DEF Goto, Exit, mainVars, writeVars, vars
<1>1. CASE MainProceeds
  <2>1. CASE ParseOptions \/ Daemonize \/ Construct \/ RunCatches
             \/ StartPolling \/ Wake \/ RunReturned \/ Cleanup
    BY <2>1 DEF ParseOptions, Daemonize, Construct, RunCatches, StartPolling,
                Wake, RunReturned, Cleanup
  <2>2. CASE NewShield
    BY <2>2 DEF NewShield, CallNew
  <2>3. CASE SetShieldCallback \/ ClearShieldCallback
    BY <2>3 DEF SetShieldCallback, ClearShieldCallback, CallSetCallback,
                CallClearCallback, SwapCallback
  <2>4. CASE PollPosted
    BY <2>4 DEF PollPosted, WritePost
  <2> QED  BY <1>1, <2>1, <2>2, <2>3, <2>4 DEF MainProceeds
<1>2. CASE CallProceeds
  <2>1. OwnerProceeds /\ polled' = polled
    BY <1>2 DEF CallProceeds
  <2> QED
    BY <2>1 DEF OwnerProceeds, OpenDevice, OpenThrows, OpenClearError,
         OpenPublish, ClosePost, CloseJoin, SetCallbackDone, ClearCallbackDone
<1>3. CASE Background
  <2>1. BgProceeds /\ polled' = polled
    BY <1>3 DEF Background
  <2> QED
    BY <2>1 DEF BgProceeds, RunDoRead, RunDoWrite, RunDoClose, RunReadOk,
         RunReadErr, RunWriteOk, RunWriteErr, FailRead, InvokeCallback,
         CallbackReturn, RunReturns
<1>4. CASE Device
  <2>1. Reactor /\ polled' = polled
    BY <1>4 DEF Device
  <2> QED
    BY <2>1 DEF Reactor, ReadReady, ReadFault, WriteSome, WriteFault
<1>5. CASE Killed \/ Sigterm \/ Ended \/ UNCHANGED sysVars
  BY <1>5 DEF Killed, Sigterm, Ended, sysVars
<1> QED  BY <1>1, <1>2, <1>3, <1>4, <1>5 DEF CarPiNext

\* Each round adds one query to what was accepted.
LEMMA RoundNext ==
    TypeOK /\ CarPiTypeOK /\ Len(accepted) = polled /\ [CarPiNext]_sysVars
      => (Len(accepted) = polled)'
<1> SUFFICES ASSUME TypeOK, CarPiTypeOK, Len(accepted) = polled,
                    [CarPiNext]_sysVars
             PROVE  (Len(accepted) = polled)'
  OBVIOUS
<1>1. CASE Poll
  <2>1. accepted' = Append(accepted, Query) /\ polled' = polled + 1
    BY <1>1 DEF Poll, Write
  <2> QED  BY <2>1, DaemonAssumption DEF TypeOK
<1>2. CASE ~Poll
  BY <1>2, OnlyPollWrites
<1> QED  BY <1>1, <1>2

\* The device has been given no more than was accepted.
LEMMA SentBounded ==
    ASSUME TypeOK, StreamInOrder
    PROVE  Len(sent) <= Len(accepted)
<1>1. inFlight \o writeQueue \in Seq(Data) /\ sent \in Seq(Data)
  BY ConcatProperties DEF TypeOK
<1>2. Len(accepted) = Len(sent) + Len(inFlight \o writeQueue)
  BY <1>1, ConcatProperties DEF StreamInOrder
<1> QED  BY <1>1, <1>2, LenProperties

\* One query in each round and none beside it, and the device is never given
\* two in one round or one ahead of its round.
THEOREM OneQuery == CarPiSpec => []OneQueryPerRound
<1>1. CarPiInit => Len(accepted) = polled
  BY DEF CarPiInit, Init
<1>2. CarPiSpec => [](Len(accepted) = polled)
  BY <1>1, RoundNext, ShieldCorrect, DaemonTypeCorrect, PTL DEF CarPiSpec
<1>3. TypeOK /\ StreamInOrder /\ Len(accepted) = polled => OneQueryPerRound
  BY SentBounded DEF OneQueryPerRound
<1> QED  BY <1>2, <1>3, ShieldCorrect, PTL

-----------------------------------------------------------------------------
(* What the daemon makes of the shield: it constructs it once, sets and    *)
(* clears its callback once, and never closes it.                          *)

\* main() before run() reaches the shield's constructor.
Before == {"start", "daemonize", "construct", "run"}

Untouched ==
    /\ own = "idle" /\ ~open /\ callback = "empty"
    /\ Len(ioq) = 0 /\ ~portOpen /\ bg = "stopped"

\* Where the main thread is says in which call of the shield it can be.
Places ==
    /\ main \in Before => Untouched
    /\ main = "opening" =>
         /\ own \in {"opening", "started", "cleared", "idle", "destroyed"}
         /\ callback = "empty" /\ opens > 0
         /\ own \in {"opening", "destroyed"} =>
              Len(ioq) = 0 /\ ~portOpen /\ bg = "stopped"
    /\ main = "setting" => own \in {"setting", "idle"}
    /\ main \in {"poll", "posting", "asleep"} => own = "idle"
    /\ main = "clearing" =>
         own = "clearing" \/ (own = "idle" /\ callback = "empty")
    /\ main = "cleanup" => own \in {"idle", "destroyed"} /\ callback = "empty"

\* The daemon never closes the shield, and nothing but a constructor that
\* throws destroys it.
NeverClosed ==
    /\ own \notin {"post", "join"}
    /\ own = "clearing" => call = "clear"

\* So nothing posts doClose, and an error that waits to close the port is one
\* of the device.
ErrorsCount ==
    /\ Absent({"doClose"}, ioq)
    /\ portOpen =>
         /\ opens > 0
         /\ \/ fault # 0
            \/ Absent({"readErr", "writeErr"}, ioq) /\ bg # "failing"

LEMMA PlacesInit == CarPiInit => Places /\ NeverClosed /\ ErrorsCount
<1> SUFFICES ASSUME CarPiInit PROVE Places /\ NeverClosed /\ ErrorsCount
  OBVIOUS
<1>1. Len(ioq) = 0 /\ Absent({"doClose"}, ioq)
  BY FewHandlers, EmptySeq DEF CarPiInit, Init
<1> QED  BY <1>1 DEF CarPiInit, Init, Places, Before, Untouched, NeverClosed,
                     ErrorsCount

\* The main thread makes one call after the other, in the order of run().
LEMMA PlacesNext ==
    ASSUME TypeOK, CarPiTypeOK, Places, NeverClosed, [CarPiNext]_sysVars
    PROVE  Places' /\ NeverClosed'
<1> USE DEF Places, NeverClosed, Before, Untouched
<1>1. CASE MainProceeds
  <2> USE DEF At, Goto, Exit, portVars, queueVars, ownVars, writeVars, vars
  <2>1. CASE ParseOptions \/ Daemonize \/ Construct \/ RunCatches
             \/ StartPolling \/ Wake \/ RunReturned \/ Cleanup
    BY <2>1 DEF ParseOptions, Daemonize, Construct, RunCatches, StartPolling,
                Wake, RunReturned, Cleanup
  <2>2. CASE NewShield
    BY <2>2 DEF NewShield, CallNew, EnterOpen, TypeOK
  <2>3. CASE SetShieldCallback \/ ClearShieldCallback
    BY <2>3 DEF SetShieldCallback, ClearShieldCallback, CallSetCallback,
                CallClearCallback, SwapCallback
  <2>4. CASE Poll \/ PollPosted
    BY <2>4 DEF Poll, Write, PollPosted, WritePost
  <2> QED  BY <1>1, <2>1, <2>2, <2>3, <2>4 DEF MainProceeds
<1> USE DEF mainVars
<1>2. CASE CallProceeds
  <2>1. OwnerProceeds /\ UNCHANGED mainVars /\ main # "ended"
    BY <1>2 DEF CallProceeds, Running, CarPiTypeOK
  <2> USE DEF Return, Destroy, ownVars
  <2>0. Len(<<>>) = 0
    BY EmptySeq
  <2>2. CASE OpenDevice \/ OpenThrows \/ OpenClearError \/ OpenPublish
    BY <2>0, <2>1, <2>2 DEF OpenDevice, OpenThrows, OpenClearError, OpenPublish,
                      portVars, CarPiTypeOK, MainStates
  <2>3. CASE SetCallbackDone
    BY <2>1, <2>3 DEF SetCallbackDone, DestroyFunctor, CarPiTypeOK, MainStates
  <2>4. CASE ClearCallbackDone
    BY <2>1, <2>4 DEF ClearCallbackDone, DestroyFunctor, CarPiTypeOK, MainStates
  <2> QED
    BY <2>1, <2>2, <2>3, <2>4 DEF OwnerProceeds, ClosePost, CloseJoin
<1>3. CASE Background
  <2>1. BgProceeds /\ UNCHANGED mainVars
    BY <1>3 DEF Background
  <2>2. UNCHANGED ownVars /\ callback' = callback /\ bg # "stopped"
    BY <2>1 DEF BgProceeds, RunDoRead, RunDoWrite, RunDoClose, RunReadOk,
         RunReadErr, RunWriteOk, RunWriteErr, FailRead, InvokeCallback,
         CallbackReturn, RunReturns, Runs
  <2> QED  BY <2>1, <2>2 DEF ownVars
<1>4. CASE Device
  <2>1. Reactor /\ UNCHANGED mainVars
    BY <1>4 DEF Device
  <2>2. UNCHANGED ownVars /\ callback' = callback /\ bg # "stopped"
    BY <2>1 DEF Reactor, ReadReady, ReadFault, WriteSome, WriteFault, Completes
  <2> QED  BY <2>1, <2>2 DEF ownVars
<1>5. CASE Killed \/ Sigterm \/ Ended \/ UNCHANGED sysVars
  BY <1>5 DEF Killed, Exit, Sigterm, Ended, sysVars, vars, ownVars, portVars
<1> QED  BY <1>1, <1>2, <1>3, <1>4, <1>5 DEF CarPiNext

\* port.cancel leaves no doClose in the queue.
LEMMA CloseQueue ==
    ASSUME TypeOK, NEW q \in Seq(Handlers), Absent({"doClose"}, q),
           NEW e, DoClose(q, e)
    PROVE  Absent({"doClose"}, ioq') /\ ~portOpen'
<1> DEFINE r == IF readPending THEN <<"readErr">> ELSE <<>>
           w == IF writePending THEN <<"writeErr">> ELSE <<>>
<1>1. /\ r \in Seq(Handlers) /\ Absent({"doClose"}, r)
      /\ w \in Seq(Handlers) /\ Absent({"doClose"}, w)
  BY FewHandlers DEF Handlers
<1>2. ioq' = q \o (r \o w)
  BY DEF DoClose, Aborted
<1> HIDE DEF r, w
<1>3. r \o w \in Seq(Handlers) /\ Absent({"doClose"}, r \o w)
  BY <1>1, ConcatHandlers
<1>4. Absent({"doClose"}, q \o (r \o w))
  BY <1>3, ConcatHandlers
<1> QED  BY <1>2, <1>4 DEF DoClose

\* A handler that is queued does not close the port, and is no error unless
\* the device has failed.
LEMMA ErrorsAppend ==
    ASSUME TypeOK, ErrorsCount, NEW q \in Seq(Handlers), NEW h \in Handlers,
           Absent({"doClose"}, q), h # "doClose",
           Absent({"readErr", "writeErr"}, ioq)
             => Absent({"readErr", "writeErr"}, q)
    PROVE  /\ Absent({"doClose"}, Append(q, h))
           /\ h \notin {"readErr", "writeErr"}
                /\ Absent({"readErr", "writeErr"}, ioq)
                => Absent({"readErr", "writeErr"}, Append(q, h))
  BY AppendHandler

\* Taking a handler leaves the rest as it was.
LEMMA ErrorsTail ==
    ASSUME TypeOK, ErrorsCount, ioq # <<>>
    PROVE  /\ rest \in Seq(Handlers) /\ Absent({"doClose"}, rest)
           /\ Head(ioq) # "doClose"
           /\ Absent({"readErr", "writeErr"}, ioq)
                => /\ Absent({"readErr", "writeErr"}, rest)
                   /\ Head(ioq) \notin {"readErr", "writeErr"}
<1>1. ioq \in Seq(Handlers)
  BY DEF TypeOK
<1> QED  BY <1>1, TailHandler DEF ErrorsCount, rest

\* No step queues doClose, and none an error of an open port unless the device
\* fails: a handler at a time.
LEMMA ErrorsNext ==
    ASSUME TypeOK, CarPiTypeOK, Places, NeverClosed, ErrorsCount,
           [CarPiNext]_sysVars
    PROVE  ErrorsCount'
<1> USE DEF portVars, queueVars, ownVars, writeVars, vars
<1> DEFINE Errors == {"readErr", "writeErr"}
<1>q. /\ ioq \in Seq(Handlers) /\ Handlers = {"doRead", "doWrite", "doClose",
             "readOk", "readErr", "writeOk", "writeErr"}
      /\ opens \in Nat /\ fault \in Nat
  BY DEF TypeOK, Handlers
<1>a. \A h \in Handlers \ {"doClose"} :
        /\ Absent({"doClose"}, Append(ioq, h))
        /\ Absent(Errors, ioq) /\ h \notin Errors
             => Absent(Errors, Append(ioq, h))
  BY <1>q, AppendHandler DEF ErrorsCount
<1>b. ioq # <<>> => \A h \in Handlers \ {"doClose"} :
        /\ Absent({"doClose"}, Append(rest, h))
        /\ Absent(Errors, ioq) /\ h \notin Errors
             => Absent(Errors, Append(rest, h))
  BY ErrorsTail, ErrorsAppend
<1>c. ioq # <<>> =>
        /\ Absent({"doClose"}, rest) /\ Head(ioq) # "doClose"
        /\ Absent(Errors, ioq)
             => Absent(Errors, rest) /\ Head(ioq) \notin Errors
  BY ErrorsTail
<1>d. ASSUME UNCHANGED <<ioq, portOpen, opens, fault, bg>>
      PROVE  ErrorsCount'
  BY <1>d DEF ErrorsCount
<1>1. CASE MainProceeds
  <2>1. CASE NewShield
    BY <1>q, <2>1 DEF NewShield, CallNew, ErrorsCount
  <2>2. CASE PollPosted
    <3>1. ioq' = Append(ioq, "doWrite")
          /\ UNCHANGED <<portOpen, opens, fault, bg>>
      BY <2>2 DEF PollPosted, WritePost
    <3> QED  BY <1>q, <1>a, <3>1 DEF ErrorsCount
  <2>3. CASE ~NewShield /\ ~PollPosted
    BY <1>1, <2>3, <1>d DEF MainProceeds, ParseOptions, Daemonize, Construct,
       RunCatches, StartPolling, Wake, RunReturned, Cleanup, SetShieldCallback,
       ClearShieldCallback, CallSetCallback, CallClearCallback, SwapCallback,
       Poll, Write
  <2> QED  BY <2>1, <2>2, <2>3
<1>2. CASE CallProceeds
  <2>1. OwnerProceeds /\ main # "ended"
    BY <1>2 DEF CallProceeds, Running, CarPiTypeOK
  <2>2. CASE own = "opening"
    <3>1. opens > 0 /\ ioq = <<>> /\ bg = "stopped"
      BY <1>q, <2>1, <2>2, EmptySeq
         DEF Places, Before, Untouched, CarPiTypeOK, MainStates
    <3>2. /\ Absent({"doClose"}, <<>>) /\ Absent(Errors, <<>>)
          /\ Absent({"doClose"}, Append(ioq, "doRead"))
          /\ Absent(Errors, Append(ioq, "doRead"))
      BY <1>q, <1>a, <3>1, FewHandlers
    <3>3. OpenDevice \/ OpenThrows
      BY <2>1, <2>2 DEF OwnerProceeds, OpenClearError, OpenPublish, ClosePost,
                        CloseJoin, SetCallbackDone, ClearCallbackDone
    <3>4. /\ ioq' \in {ioq, Append(ioq, "doRead")}
          /\ bg' # "failing" /\ UNCHANGED <<opens, fault>>
      BY <3>1, <3>3 DEF OpenDevice, OpenThrows, Return, Destroy
    <3> QED  BY <3>1, <3>2, <3>4 DEF ErrorsCount
  <2>3. CASE own # "opening"
    <3>1. UNCHANGED <<ioq, portOpen, opens, fault>>
          /\ (bg' = "failing" => bg = "failing")
      BY <2>1, <2>3 DEF OwnerProceeds, OpenDevice, OpenThrows, OpenClearError,
         OpenPublish, ClosePost, CloseJoin, SetCallbackDone, ClearCallbackDone,
         NeverClosed, Return, DestroyFunctor
    <3> QED  BY <3>1 DEF ErrorsCount
  <2> QED  BY <2>2, <2>3
<1>3. CASE Background
  <2>1. BgProceeds
    BY <1>3 DEF Background
  <2>2. CASE RunDoRead
    BY <1>q, <1>b, <1>c, <2>2 DEF RunDoRead, Runs, StartRead, ErrorsCount
  <2>3. CASE RunDoWrite
    BY <1>q, <1>b, <1>c, <2>3 DEF RunDoWrite, Runs, StartWrite, ErrorsCount
  <2>4. CASE RunReadOk
    BY <1>q, <1>b, <1>c, <2>4 DEF RunReadOk, Runs, StartRead, ErrorsCount
  <2>5. CASE RunWriteOk
    BY <1>q, <1>b, <1>c, <2>5 DEF RunWriteOk, Runs, WriteEndContinue,
                                StartWrite, ErrorsCount
  <2>6. CASE RunReadErr
    BY <1>c, <2>6 DEF RunReadErr, Runs, ErrorsCount
  <2>7. CASE RunWriteErr \/ FailRead
    <3>1. Absent({"doClose"}, ioq') /\ ~portOpen'
      BY <1>q, <1>c, <2>7, ErrorsTail, CloseQueue
         DEF RunWriteErr, FailRead, Runs, ErrorsCount
    <3> QED  BY <3>1 DEF ErrorsCount
  <2>8. CASE RunDoClose
    BY <1>c, <2>8 DEF RunDoClose, Runs
  <2>9. CASE CallbackReturn
    BY <1>q, <1>a, <2>9 DEF CallbackReturn, StartRead, ErrorsCount
  <2>10. CASE InvokeCallback \/ RunReturns
    BY <2>10 DEF InvokeCallback, RunReturns, ErrorsCount
  <2> QED
    BY <2>1, <2>2, <2>3, <2>4, <2>5, <2>6, <2>7, <2>8, <2>9, <2>10
       DEF BgProceeds
<1>4. CASE Device
  <2>1. Reactor
    BY <1>4 DEF Device
  <2>2. CASE ReadReady
    BY <1>q, <1>a, <2>2 DEF ReadReady, Completes, ErrorsCount
  <2>3. CASE ReadFault
    BY <1>q, <1>a, <2>3 DEF ReadFault, Completes, ErrorsCount
  <2>4. CASE WriteSome
    BY <1>q, <1>a, <2>4 DEF WriteSome, Completes, ErrorsCount
  <2>5. CASE WriteFault
    BY <1>q, <1>a, <2>5 DEF WriteFault, Completes, ErrorsCount
  <2> QED  BY <2>1, <2>2, <2>3, <2>4, <2>5 DEF Reactor
<1>5. CASE Killed \/ Sigterm \/ Ended \/ UNCHANGED sysVars
  BY <1>5, <1>d DEF Killed, Sigterm, Ended, sysVars
<1> QED  BY <1>1, <1>2, <1>3, <1>4, <1>5 DEF CarPiNext

LEMMA DaemonCalls == CarPiSpec => [](Places /\ NeverClosed /\ ErrorsCount)
<1>1. TypeOK /\ CarPiTypeOK /\ Places /\ NeverClosed /\ ErrorsCount
      /\ [CarPiNext]_sysVars
     => Places' /\ NeverClosed' /\ ErrorsCount'
  <2> SUFFICES ASSUME TypeOK, CarPiTypeOK, Places, NeverClosed, ErrorsCount,
                      [CarPiNext]_sysVars
               PROVE  Places' /\ NeverClosed' /\ ErrorsCount'
    OBVIOUS
  <2>1. Places' /\ NeverClosed'
    BY PlacesNext
  <2>2. ErrorsCount'
    BY ErrorsNext
  <2> QED  BY <2>1, <2>2
<1> QED
  BY <1>1, PlacesInit, ShieldCorrect, DaemonTypeCorrect, PTL DEF CarPiSpec

\* The port closes only in a handler that an error of the device has queued:
\* nothing the main thread or a signal does takes it from the daemon.
LEMMA KeptStep ==
    ASSUME TypeOK, CarPiTypeOK, Places, NeverClosed, ErrorsCount,
           [CarPiNext]_sysVars, portOpen, ~portOpen'
    PROVE  fault' # 0
<1> USE DEF portVars, queueVars, ownVars, writeVars, vars, mainVars
<1>1. opens \in Nat \ {0}
  BY DEF TypeOK, ErrorsCount
<1>2. RunDoClose \/ RunWriteErr \/ FailRead
  <2>1. CASE MainProceeds
    BY <2>1 DEF MainProceeds, ParseOptions, Daemonize, Construct, NewShield,
       CallNew, RunCatches, StartPolling, Wake, RunReturned, Cleanup,
       SetShieldCallback, ClearShieldCallback, CallSetCallback,
       CallClearCallback, SwapCallback, Poll, Write, PollPosted, WritePost
  <2>2. CASE CallProceeds
    <3>1. OwnerProceeds /\ main # "ended"
      BY <2>2 DEF CallProceeds, Running, CarPiTypeOK
    <3>2. own # "opening"
      BY <3>1 DEF Places, Before, Untouched, CarPiTypeOK, MainStates
    <3> QED
      BY <3>1, <3>2 DEF NeverClosed, OwnerProceeds, OpenDevice, OpenThrows,
         OpenClearError, OpenPublish, ClosePost, CloseJoin, SetCallbackDone,
         ClearCallbackDone
  <2>3. CASE Background
    BY <2>3 DEF Background, BgProceeds, RunDoRead, RunDoWrite, RunReadOk,
       RunReadErr, RunWriteOk, InvokeCallback, CallbackReturn, RunReturns
  <2>4. CASE Device
    BY <2>4 DEF Device, Reactor, ReadReady, ReadFault, WriteSome, WriteFault
  <2>5. CASE Killed \/ Sigterm \/ Ended \/ UNCHANGED sysVars
    BY <2>5 DEF Killed, Sigterm, Ended, sysVars
  <2> QED  BY <2>1, <2>2, <2>3, <2>4, <2>5 DEF CarPiNext
<1>3. ~RunDoClose
  BY ErrorsTail DEF RunDoClose, Runs, ErrorsCount
<1>4. fault # 0
  <2>1. RunWriteErr => ioq # <<>> /\ Head(ioq) = "writeErr"
    BY DEF RunWriteErr, Runs
  <2> QED  BY <1>2, <1>3, <2>1, ErrorsTail DEF ErrorsCount, FailRead
<1>5. fault' \in {fault, opens}
  BY <1>2, <1>3 DEF RunWriteErr, FailRead, DoClose
<1> QED  BY <1>1, <1>4, <1>5

\* The port of a shield that is constructed closes only when a device has
\* failed, for any number of rounds and whatever the signals do.
THEOREM PortKeptCorrect == CarPiSpec => PortKept
<1>1. TypeOK /\ CarPiTypeOK /\ Places /\ NeverClosed /\ ErrorsCount
      /\ [CarPiNext]_sysVars
        => [portOpen /\ ~portOpen' => fault' # 0]_sysVars
  BY KeptStep
<1> QED
  BY <1>1, ShieldCorrect, DaemonTypeCorrect, DaemonCalls, PTL
     DEF CarPiSpec, PortKept

\* A callback is entered only by a completed read that finds one to call.
LEMMA QuietStep ==
    ASSUME Places, [CarPiNext]_sysVars, main = "cleanup", ~InCallback
    PROVE  ~InCallback'
<1> USE DEF portVars, queueVars, ownVars, writeVars, vars, mainVars, InCallback
<1>0. own \in {"idle", "destroyed"} /\ callback = "empty"
  BY DEF Places
<1>1. CASE MainProceeds
  BY <1>1 DEF MainProceeds, At, ParseOptions, Daemonize, Construct, NewShield,
     RunCatches, StartPolling, Wake, RunReturned, Cleanup, SetShieldCallback,
     ClearShieldCallback, Poll, PollPosted
<1>2. CASE CallProceeds
  BY <1>0, <1>2 DEF CallProceeds, OwnerProceeds, OpenDevice, OpenThrows,
     OpenClearError, OpenPublish, ClosePost, CloseJoin, SetCallbackDone,
     ClearCallbackDone
<1>3. CASE Background
  BY <1>0, <1>3 DEF Background, BgProceeds, RunDoRead, RunDoWrite, RunDoClose,
     RunReadOk, RunReadErr, RunWriteOk, RunWriteErr, FailRead, InvokeCallback,
     CallbackReturn, RunReturns
<1>4. CASE Device
  BY <1>4 DEF Device, Reactor, ReadReady, ReadFault, WriteSome, WriteFault
<1>5. CASE Killed \/ Sigterm \/ Ended \/ UNCHANGED sysVars
  BY <1>5 DEF Killed, Sigterm, Ended, sysVars
<1> QED  BY <1>1, <1>2, <1>3, <1>4, <1>5 DEF CarPiNext

\* run() returns with the callback cleared, and the background thread, which
\* the daemon leaves running, does not enter it again.
THEOREM QuietCorrect == CarPiSpec => QuietAfterClear
<1>1. Places /\ [CarPiNext]_sysVars
        => [main = "cleanup" /\ ~InCallback => ~InCallback']_sysVars
  BY QuietStep
<1> QED  BY <1>1, DaemonCalls, PTL DEF CarPiSpec, QuietAfterClear
=============================================================================
