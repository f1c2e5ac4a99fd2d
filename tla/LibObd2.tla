------------------------------ MODULE LibObd2 ------------------------------
(***************************************************************************)
(* libObd2: requests to an ELM327 over a serial line.  A request is        *)
(* written and, unless it is blind, the line is read until a prompt comes. *)
(*                                                                         *)
(* The device answers the commands it gets in their order, each with a     *)
(* text and a prompt, when it likes or never.  What it sends is numbered:  *)
(* 2n - 1 is the text and 2n the prompt of the n-th command, so that       *)
(* `emitted` and `taken` say what lies in the input buffer of the line.    *)
(***************************************************************************)
EXTENDS Integers

CONSTANT
    MaxRequests     \* bound: commands written

ASSUME RequestsAssumption == MaxRequests \in Nat

VARIABLES
    handle,         \* portHandle: closed, open and timing its reads, or open
                    \* and waiting in them as long as it takes
    pc,             \* where the caller is
    kind,           \* how the request waits
    id,             \* the number of its command, 0 if write() failed
    from,           \* what was taken when it was written
    prompt,         \* a prompt was read: continueLoop is false
    late,           \* more than `timeout` seconds have passed
    step,           \* initPort's place in its sequence
    ret,            \* what the last call returned
    lastError,      \* m_lastError
    sent,           \* commands written to the device
    emitted,        \* what the device has sent
    taken,          \* what has left the input buffer
    skipped         \* history: requests that returned before their prompt

callVars == <<kind, id, from, prompt, late>>
lineVars == <<sent, emitted, taken>>
vars == <<handle, pc, callVars, step, ret, lastError, lineVars, skipped>>

\* sleeptime = -1; timeout = -1; timeout > 0; any other timeout.
Kinds  == {"blind", "peek", "timed", "endless"}
Handles == {"closed", "timing", "waiting"}
Errors == {"NONE", "NODATA", "SERIALREADERROR", "TIMEOUT"}

Prompts(a, b) == {n \in a + 1..b : n % 2 = 0}
Texts(a, b)   == {n \in a + 1..b : n % 2 = 1}

\* The constructor leaves portHandle as it finds it.
Init ==
    /\ handle \in Handles /\ pc = "idle" /\ kind = "blind" /\ id = 0 /\ from = 0
    /\ prompt = FALSE /\ late = FALSE /\ step = 0 /\ ret = "ok"
    /\ lastError = "NONE"
    /\ sent = 0 /\ emitted = 0 /\ taken = 0 /\ skipped = 0

-----------------------------------------------------------------------------
(* openPort(), setPortHandle(), closePort() and flush().                   *)

\* Nothing is flushed: the line may hold what came before it was opened.
\* tcsetattr, which sets the time that a read waits, is not checked.
OpenPort ==
    /\ pc = "idle"
    /\ handle' \in Handles
    /\ taken' \in {taken, emitted}
    /\ ret' = IF handle' # "closed" THEN "ok" ELSE "failed"
    /\ UNCHANGED <<pc, callVars, step, lastError, sent, emitted, skipped>>

\* Any descriptor, set up by the caller or not.
SetPortHandle ==
    /\ pc = "idle" /\ handle' \in Handles
    /\ UNCHANGED <<pc, callVars, step, ret, lastError, lineVars, skipped>>

ClosePort ==
    /\ pc = "idle" /\ handle' = "closed" /\ ret' = "ok"
    /\ UNCHANGED <<pc, callVars, step, lastError, lineVars, skipped>>

Discard == taken' = IF handle = "closed" THEN taken ELSE emitted

Flush ==
    /\ pc = "idle" /\ Discard
    /\ UNCHANGED <<handle, pc, callVars, step, ret, lastError, sent, emitted,
                   skipped>>

-----------------------------------------------------------------------------
(* sendObdRequestString() and its overloads.                               *)

\* write(): an error is printed and else ignored.
WriteCommand ==
    /\ sent < MaxRequests
    /\ \/ handle # "closed" /\ sent' = sent + 1 /\ id' = sent'
       \/ UNCHANGED sent /\ id' = 0
    /\ UNCHANGED <<emitted, taken>>

\* Nobody will wait for the prompt any more: only a command that was written
\* gets one.
Skip == skipped' = IF id' = 0 THEN skipped ELSE skipped + 1

Request(k) ==
    /\ pc = "idle" /\ WriteCommand
    /\ kind' = k /\ from' = taken /\ prompt' = FALSE /\ late' = FALSE
    /\ \/ k = "blind" /\ ret' = "ok" /\ Skip /\ UNCHANGED pc
       \/ k # "blind" /\ pc' = "asleep" /\ UNCHANGED <<ret, skipped>>
    /\ UNCHANGED <<handle, step, lastError>>

Awake ==
    /\ pc = "asleep" /\ pc' = "reading"
    /\ UNCHANGED <<handle, callVars, step, ret, lastError, lineVars, skipped>>

\* The loop goes on, or the request returns.
GoOn == UNCHANGED <<pc, ret, lastError, skipped>>

Fail(e) ==
    /\ pc' = "idle" /\ ret' = "failed" /\ lastError' = e
    /\ IF prompt' THEN UNCHANGED skipped ELSE Skip

Succeed ==
    /\ pc' = "idle" /\ ret' = "ok" /\ UNCHANGED lastError
    /\ IF prompt' THEN UNCHANGED skipped ELSE Skip

\* A line end taken for the prompt.
ReadToText ==
    /\ taken' \in taken..emitted
    /\ taken' = taken => emitted = taken
    /\ prompt' = (prompt \/ taken' # taken)
    /\ UNCHANGED <<sent, emitted>>

\* read() takes what there is, in pieces as it came; without anything it
\* returns 0 after a while, or when the line hangs up.
Read ==
    /\ taken' \in taken..emitted
    /\ taken' = taken => emitted = taken
    /\ prompt' = (prompt \/ Prompts(taken, taken') # {})
    /\ UNCHANGED <<sent, emitted>>

\* The time is looked at only after something was read.
TimeoutNeedsData ==
    /\ pc = "reading" /\ handle # "closed" /\ Read
    /\ UNCHANGED <<handle, kind, id, from, late, step>>
    /\ \/ kind = "timed" /\ late /\ taken' # taken /\ Fail("TIMEOUT")
       \/ kind = "peek" /\ Succeed
       \/ /\ kind = "endless" \/ (kind = "timed" /\ (~late \/ taken' = taken))
          /\ \/ ~prompt' /\ GoOn
             \/ prompt' /\ Succeed
             \/ prompt' /\ Texts(from, taken') # {} /\ Fail("NODATA")

\* After each read: the time is checked first, also when the prompt has come;
\* a peek ends whatever has come; else a prompt ends the loop, and a reply with
\* a text may hold the letters of NODATA.
ReadOn ==
    /\ pc = "reading" /\ handle # "closed" /\ Read
    /\ UNCHANGED <<handle, kind, id, from, late, step>>
    /\ \/ kind = "timed" /\ late /\ Fail("TIMEOUT")
       \/ kind = "peek" /\ Succeed
       \/ /\ kind = "endless" \/ (kind = "timed" /\ ~late)
          /\ \/ ~prompt' /\ GoOn
             \/ prompt' /\ Succeed
             \/ prompt' /\ Texts(from, taken') # {} /\ Fail("NODATA")

ReadError ==
    /\ pc = "reading"
    /\ UNCHANGED <<handle, callVars, step, lineVars>>
    /\ Fail("SERIALREADERROR")

-----------------------------------------------------------------------------
(* initPort(): atz, ati and ate0; three seconds and a flush; atl0, ath0 and *)
(* 010C.  Every request is blind.                                          *)

InitPort ==
    /\ pc = "idle" /\ sent + 6 <= MaxRequests
    /\ pc' = "init" /\ step' = 1
    /\ UNCHANGED <<handle, callVars, ret, lastError, lineVars, skipped>>

\* One request too many.
InitRunsOn ==
    /\ pc = "init" /\ step # 4 /\ WriteCommand /\ Skip
    /\ kind' = "blind" /\ from' = taken /\ prompt' = FALSE /\ late' = FALSE
    /\ IF step <= 7 THEN step' = step + 1 /\ UNCHANGED <<pc, ret>>
                    ELSE step' = 0 /\ pc' = "idle" /\ ret' = "ok"
    /\ UNCHANGED <<handle, lastError>>

InitRequest ==
    /\ pc = "init" /\ step # 4 /\ WriteCommand /\ Skip
    /\ kind' = "blind" /\ from' = taken /\ prompt' = FALSE /\ late' = FALSE
    /\ IF step < 7 THEN step' = step + 1 /\ UNCHANGED <<pc, ret>>
                   ELSE step' = 0 /\ pc' = "idle" /\ ret' = "ok"
    /\ UNCHANGED <<handle, lastError>>

InitFlush ==
    /\ pc = "init" /\ step = 4 /\ step' = 5 /\ Discard
    /\ UNCHANGED <<handle, pc, callVars, ret, lastError, sent, emitted, skipped>>

-----------------------------------------------------------------------------
(* monitorModeReadLine(): reads until a line has ended.                    *)

Monitor ==
    /\ pc = "idle" /\ pc' = "monitor"
    /\ UNCHANGED <<handle, callVars, step, ret, lastError, lineVars, skipped>>

MonitorRead ==
    /\ pc = "monitor" /\ handle # "closed" /\ Read
    /\ pc' = IF Texts(taken, taken') # {} THEN "idle" ELSE pc
    /\ UNCHANGED <<handle, kind, id, from, late, step, ret, lastError, skipped>>

MonitorError ==
    /\ pc = "monitor" /\ pc' = "idle" /\ lastError' = "SERIALREADERROR"
    /\ UNCHANGED <<handle, callVars, step, ret, lineVars, skipped>>

-----------------------------------------------------------------------------
(* The device and the clock.                                               *)

Answer ==
    /\ emitted < 2 * sent /\ emitted' = emitted + 1
    /\ UNCHANGED <<handle, pc, callVars, step, ret, lastError, sent, taken,
                   skipped>>

Tick ==
    /\ pc = "reading" /\ ~late /\ late' = TRUE
    /\ UNCHANGED <<handle, pc, kind, id, from, prompt, step, ret, lastError,
                   lineVars, skipped>>

Calls == OpenPort \/ SetPortHandle \/ ClosePort \/ Flush \/ InitPort \/ Monitor

\* Steps of the caller that it takes by itself; a read may fail, and must
\* where nothing is open.
Steps ==
    \/ Awake \/ ReadOn \/ InitRequest \/ InitFlush \/ MonitorRead
    \/ ReadError \/ MonitorError

\* Those that do not wait for the device: a read that times out does not.
Proceeds ==
    \/ Awake \/ InitRequest \/ InitFlush
    \/ handle = "timing" /\ (ReadOn \/ MonitorRead)
    \/ handle = "closed" /\ (ReadError \/ MonitorError)

Next ==
    \/ Calls
    \/ \E k \in Kinds : Request(k)
    \/ Steps
    \/ Answer
    \/ Tick

Spec == Init /\ [][Next]_vars

\* The caller's thread runs and time passes; the device may stay silent.
Fairness == WF_vars(Proceeds) /\ WF_vars(Tick)
FairSpec == Spec /\ Fairness

-----------------------------------------------------------------------------
(* Properties.                                                             *)

\* Every variable stays in its range, and what was taken was sent before.
TypeOK ==
    /\ handle \in Handles /\ prompt \in BOOLEAN /\ late \in BOOLEAN
    /\ pc \in {"idle", "asleep", "reading", "init", "monitor"}
    /\ kind \in Kinds /\ step \in 0..7
    /\ ret \in {"ok", "failed"} /\ lastError \in Errors
    /\ sent \in 0..MaxRequests /\ id \in 0..sent
    /\ emitted \in 0..2 * sent /\ taken \in 0..emitted /\ from \in 0..taken
    /\ skipped \in 0..sent

\* sendObdRequestString(): a request that was written when no answer was
\* outstanding and that waits for its prompt returns, if it succeeds, the whole
\* of its own reply and nothing else, however the reads cut it.
OwnReply ==
    [][(/\ pc = "reading" /\ pc' = "idle" /\ ret' = "ok" /\ kind # "peek"
        /\ from = 2 * (id - 1)) => taken' = 2 * id]_vars

\* Each request that returns before its prompt (a blind one, a peek, a timeout,
\* a read error) leaves one answer behind at most, and one that succeeds none:
\* between two calls no more answers are outstanding than were skipped.
LagBounded == pc = "idle" => sent <= skipped + taken \div 2

\* sendObdRequestString(): a request with a timeout returns, whether the device
\* answers, falls silent or fails, when the port is one that openPort has set up.
TimedReturns ==
    (pc = "reading" /\ kind = "timed" /\ handle # "waiting") ~> (pc = "idle")
=============================================================================
