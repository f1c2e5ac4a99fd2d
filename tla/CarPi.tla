------------------------------- MODULE CarPi -------------------------------
(***************************************************************************)
(* The daemon: main() and CarPi::run() with GPSLogger::startPolling, the   *)
(* only owner and the only writer of one CallbackAsyncSerial, and the two  *)
(* signals main() handles.  The object is the one of module AsyncSerial:   *)
(* its background thread and its reactor run beside the main thread.       *)
(***************************************************************************)
EXTENDS AsyncSerial

CONSTANTS
    Main,           \* the main thread, as a writer
    Query,          \* "AT+CGPSINFO" and its line end
    Polls           \* how often startPolling asks (5 in the code)

ASSUME DaemonAssumption == Main \in Writers /\ Query \in Data /\ Polls \in Nat

VARIABLES
    main,           \* where the main thread is
    polled,         \* startPolling's i
    handlers,       \* the signal handlers are registered
    doRun,          \* main.cpp's doRun
    exit            \* how the process ended

mainVars == <<main, polled, handlers, doRun, exit>>
sysVars  == <<vars, mainVars>>

MainStates == {"start", "daemonize", "construct", "run", "opening", "setting",
               "poll", "posting", "asleep", "clearing", "cleanup", "ended"}

Running == exit = "no" /\ Alive

CarPiInit ==
    /\ Init
    /\ main = "start" /\ polled = 0 /\ handlers = FALSE /\ doRun = TRUE
    /\ exit = "no"

-----------------------------------------------------------------------------
(* main() up to run().                                                     *)

At(m)     == Running /\ main = m
Goto(m)   == main' = m /\ UNCHANGED <<polled, handlers, doRun, exit>>
Exit(how) == /\ main' = "ended" /\ exit' = how
             /\ UNCHANGED <<polled, handlers, doRun>>

\* "help" returns at once, "nodaemon" goes straight to CarPi(), and else the
\* process forks: the parent exits, a failed fork is a failure.
ParseOptions ==
    /\ At("start") /\ UNCHANGED vars
    /\ Exit("success") \/ Goto("construct") \/ Goto("daemonize") \/ Exit("failure")

\* setsid() and chdir() may fail; then the signal handlers are registered.
Daemonize ==
    /\ At("daemonize") /\ UNCHANGED vars
    /\ \/ Exit("failure")
       \/ /\ main' = "construct" /\ handlers' = TRUE
          /\ UNCHANGED <<polled, doRun, exit>>

\* CarPi(): init_logging opens the log directory outside of any try block.
Construct ==
    /\ At("construct") /\ UNCHANGED vars
    /\ Goto("run") \/ Exit("abort")

-----------------------------------------------------------------------------
(* CarPi::run() and GPSLogger::startPolling().                             *)

NewShield == At("run") /\ CallNew /\ Goto("opening")

\* The constructor threw, and with it went the shield and its port: run()
\* prints the exception and returns.
RunCatches ==
    /\ At("opening") /\ own = "destroyed"
    /\ Goto("cleanup") /\ UNCHANGED vars

SetShieldCallback ==
    /\ At("opening") /\ CallSetCallback /\ Goto("setting")

StartPolling ==
    /\ At("setting") /\ own = "idle" /\ Goto("poll") /\ UNCHANGED vars

\* A round that is not counted: the query is written again.
RetriedPoll ==
    /\ At("poll") /\ polled < Polls
    /\ Write(Main, Query)
    /\ main' = "posting" /\ UNCHANGED <<polled, handlers, doRun, exit>>

\* A poll that waits for a healthy port, without counting the round.
PollWhenHealthy ==
    /\ At("poll") /\ polled < Polls
    /\ \/ open /\ ~error /\ Write(Main, Query)
          /\ polled' = polled + 1 /\ main' = "posting"
       \/ ~(open /\ ~error) /\ UNCHANGED <<vars, polled>> /\ main' = "asleep"
    /\ UNCHANGED <<handlers, doRun, exit>>

\* One round: a closed or failed port is only reported; the query is written
\* all the same.
Poll ==
    /\ At("poll") /\ polled < Polls
    /\ Write(Main, Query)
    /\ polled' = polled + 1 /\ main' = "posting"
    /\ UNCHANGED <<handlers, doRun, exit>>

PollForgetsPost ==
    /\ At("posting") /\ wpc[Main] = "post" /\ Goto("asleep")
    /\ wpc' = [wpc EXCEPT ![Main] = "idle"]
    /\ UNCHANGED <<open, error, callback, portVars, queueVars, ioq, ioStopped,
                   bg, ownVars, accepted, fault>>

PollPosted == At("posting") /\ WritePost(Main) /\ Goto("asleep")

\* sleep(seconds) ends, in time or with a signal.
Wake == At("asleep") /\ Goto("poll") /\ UNCHANGED vars

ForgetsCallback ==
    /\ At("poll") /\ polled = Polls /\ own = "idle"
    /\ Goto("clearing") /\ UNCHANGED vars

ClearShieldCallback ==
    /\ At("poll") /\ polled = Polls /\ CallClearCallback /\ Goto("clearing")

\* The shield is neither closed nor deleted.
RunReturned ==
    /\ At("clearing") /\ own = "idle" /\ Goto("cleanup") /\ UNCHANGED vars

Cleanup == At("cleanup") /\ Exit("success") /\ UNCHANGED vars

MainProceeds ==
    \/ ParseOptions \/ Daemonize \/ Construct
    \/ NewShield \/ RunCatches \/ SetShieldCallback \/ StartPolling
    \/ Poll \/ PollPosted \/ Wake \/ ClearShieldCallback \/ RunReturned
    \/ Cleanup

-----------------------------------------------------------------------------
(* The calls in progress, the background thread, the device, the signals.  *)

CallProceeds == Running /\ OwnerProceeds /\ UNCHANGED mainVars
Background   == Running /\ BgProceeds /\ UNCHANGED mainVars
Device       == Running /\ Reactor /\ UNCHANGED mainVars

\* Without handlers SIGTERM and SIGHUP end the process.
Killed ==
    /\ Running /\ ~handlers /\ Exit("killed") /\ UNCHANGED vars

SigtermUnhandled ==
    /\ Running /\ doRun
    /\ doRun' = FALSE /\ UNCHANGED <<vars, main, polled, handlers, exit>>

\* signalHandler: SIGTERM clears doRun (SIGHUP is only logged).
Sigterm ==
    /\ Running /\ handlers /\ doRun
    /\ doRun' = FALSE /\ UNCHANGED <<vars, main, polled, handlers, exit>>

Ended == ~Running /\ UNCHANGED sysVars

CarPiNext ==
    \/ MainProceeds \/ CallProceeds \/ Background \/ Device
    \/ Killed \/ Sigterm \/ Ended

\* The main thread and the background thread are scheduled, sleep ends, and
\* the device takes what is written to it.
CarPiFairness ==
    /\ WF_sysVars(MainProceeds) /\ WF_sysVars(CallProceeds)
    /\ WF_sysVars(Background)
    /\ SF_sysVars(Running /\ WriteSome /\ UNCHANGED mainVars)

CarPiSpec     == CarPiInit /\ [][CarPiNext]_sysVars
CarPiFairSpec == CarPiSpec /\ CarPiFairness

-----------------------------------------------------------------------------
(* Properties.                                                             *)

\* The main thread's own variables, and how they go together.
CarPiTypeOK ==
    /\ main \in MainStates /\ polled \in 0..Polls
    /\ handlers \in BOOLEAN /\ doRun \in BOOLEAN
    /\ exit \in {"no", "success", "failure", "abort", "killed"}
    /\ exit # "no" <=> main = "ended"
    /\ ~doRun => handlers

\* CarPi::run(): one query is written in each round and by nobody else, so that
\* the device never sees two queries of one round or one of a round to come.
OneQueryPerRound == Len(sent) <= polled /\ Len(accepted) = polled

\* CarPi::run(): once the shield is constructed, its port closes under the
\* daemon only when the device fails.
PortKept == [][portOpen /\ ~portOpen' => fault' # 0]_sysVars

\* clearCallback(): once it has returned and no call is under way, GPSLogger's
\* callback is never called again.
QuietAfterClear ==
    [][main = "cleanup" /\ ~InCallback => ~InCallback']_sysVars

\* startPolling(): it returns after its rounds, whatever becomes of the port,
\* the background thread and the callback meanwhile.
PollingReturns == (main = "setting") ~> (main = "clearing" \/ ~Running)
=============================================================================
