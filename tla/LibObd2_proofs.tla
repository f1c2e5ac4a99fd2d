--------------------------- MODULE LibObd2_proofs ---------------------------
(***************************************************************************)
(* What TLAPS proves of libObd2, for any number of commands.  The          *)
(* invariant says, of a caller between two calls, that no more answers are *)
(* outstanding than were skipped, and of one that waits, that this held    *)
(* when it wrote its command and that its prompt has not come yet.         *)
(*                                                                         *)
(* Of ObdReplies it proves, for replies of any length and however the      *)
(* reads cut them, that the caller gets what the device has written.       *)
(***************************************************************************)
EXTENDS LibObd2, ObdReplies, Filter_proofs

Waiting == pc \in {"asleep", "reading"}

\* The answers outstanding at the write were skipped; the command is the last.
WaitInv ==
    Waiting =>
        /\ ~prompt
        /\ id = 0 => sent <= skipped + from \div 2
        /\ id # 0 => /\ id = sent /\ skipped < sent
                     /\ sent <= skipped + 1 + from \div 2

RestInv == ~Waiting => sent <= skipped + taken \div 2

Inv == TypeOK /\ WaitInv /\ RestInv

-----------------------------------------------------------------------------
(* Numbers of prompts.                                                     *)

\* More has been taken, so at least as many prompts have.
LEMMA HalfMonotone ==
    ASSUME NEW a \in Nat, NEW b \in Nat, a <= b
    PROVE  a \div 2 <= b \div 2 /\ a \div 2 \in Nat /\ b \div 2 \in Nat
BY SMT

\* What is outstanding does not grow when more is taken.
LEMMA LagShrinks ==
    ASSUME NEW s \in Nat, NEW k \in Nat, NEW a \in Nat, NEW b \in Nat,
           s <= k + a, a <= b
    PROVE  s <= k + b
BY SMT

\* A prompt among what was read is one more answer taken.
LEMMA PromptTaken ==
    ASSUME NEW a \in Nat, NEW b \in Nat, a <= b, Prompts(a, b) # {}
    PROVE  a \div 2 + 1 <= b \div 2
BY SMT DEF Prompts

\* If the answers of all commands but the last were taken, the prompt of the
\* last is all that can still end a read.
LEMMA LastPrompt ==
    ASSUME NEW n \in Nat, NEW a \in Nat, NEW b \in Nat,
           2 * (n - 1) <= a, a <= b, b <= 2 * n, Prompts(a, b) # {}
    PROVE  b = 2 * n
BY SMT DEF Prompts

-----------------------------------------------------------------------------
(* The invariant holds at the start and in every step.                     *)

LEMMA InvInit == Init => Inv
<1> SUFFICES ASSUME Init PROVE Inv
  OBVIOUS
<1>1. TypeOK
  <2>1. prompt \in BOOLEAN /\ late \in BOOLEAN /\ handle \in Handles
    BY DEF Init
  <2>2. /\ sent \in 0..MaxRequests /\ id \in 0..sent /\ emitted \in 0..2 * sent
        /\ taken \in 0..emitted /\ from \in 0..taken /\ skipped \in 0..sent
    BY RequestsAssumption DEF Init
  <2> QED  BY <2>1, <2>2 DEF Init, TypeOK, Kinds, Errors
<1>2. WaitInv
  BY DEF Init, WaitInv, Waiting
<1>3. RestInv
  <2>1. taken \div 2 \in Nat
    BY HalfMonotone DEF Init
  <2> QED  BY <2>1 DEF Init, RestInv
<1> QED  BY <1>1, <1>2, <1>3 DEF Inv

\* A command that nobody waits for.
LEMMA SkippedWrite ==
    ASSUME Inv, ~Waiting, WriteCommand, Skip, UNCHANGED taken
    PROVE  /\ sent' \in 0..MaxRequests /\ id' \in 0..sent'
           /\ emitted' \in 0..2 * sent' /\ skipped' \in 0..sent'
           /\ sent' <= skipped' + taken' \div 2
<1>1. /\ sent \in Nat /\ taken \in Nat /\ emitted \in Nat /\ skipped \in Nat
      /\ emitted <= 2 * sent /\ taken <= emitted /\ skipped <= sent
      /\ sent <= MaxRequests
  BY RequestsAssumption DEF Inv, TypeOK
<1>2. sent <= skipped + taken \div 2
  BY DEF Inv, RestInv
<1>3. taken \div 2 \in Nat
  BY <1>1, HalfMonotone
<1>4. CASE sent' = sent + 1 /\ id' = sent'
  BY <1>1, <1>2, <1>3, <1>4, RequestsAssumption DEF WriteCommand, Skip
<1>5. CASE sent' = sent /\ id' = 0
  BY <1>1, <1>2, <1>3, <1>5, RequestsAssumption DEF WriteCommand, Skip
<1> QED  BY <1>4, <1>5 DEF WriteCommand

\* A request that reads on: at its end every answer but the skipped ones is in.
LEMMA ReadOnStep == Inv /\ ReadOn => Inv'
<1> SUFFICES ASSUME Inv, ReadOn PROVE Inv'
  OBVIOUS
<1>1. /\ sent \in Nat /\ taken \in Nat /\ emitted \in Nat /\ skipped \in Nat
      /\ from \in Nat /\ id \in Nat /\ from <= taken /\ id <= sent
      /\ emitted <= 2 * sent /\ taken <= emitted /\ skipped <= sent
      /\ sent <= MaxRequests /\ pc = "reading" /\ prompt = FALSE
  BY RequestsAssumption DEF Inv, TypeOK, WaitInv, Waiting, ReadOn
<1>2. /\ taken' \in Nat /\ taken <= taken' /\ taken' <= emitted
      /\ prompt' \in BOOLEAN
      /\ prompt' => Prompts(taken, taken') # {}
      /\ UNCHANGED <<sent, emitted, id, from, kind, handle, late, step>>
  <2>1. taken' \in taken..emitted
    BY DEF ReadOn, Read
  <2>2. prompt' = (prompt \/ Prompts(taken, taken') # {})
    BY Zenon DEF ReadOn, Read
  <2>3. prompt' \in BOOLEAN /\ (prompt' => Prompts(taken, taken') # {})
    BY <1>1, <2>2, Zenon
  <2>4. UNCHANGED <<sent, emitted, id, from, kind, handle, late, step>>
    BY DEF ReadOn, Read
  <2> QED  BY <1>1, <2>1, <2>3, <2>4
<1>3. /\ taken \div 2 \in Nat /\ taken' \div 2 \in Nat /\ from \div 2 \in Nat
      /\ from \div 2 <= taken \div 2 /\ taken \div 2 <= taken' \div 2
  BY <1>1, <1>2, HalfMonotone
<1>4. prompt' => taken \div 2 + 1 <= taken' \div 2
  BY <1>1, <1>2, PromptTaken
<1>5. /\ id = 0 => sent <= skipped + from \div 2
      /\ id # 0 => /\ id = sent /\ skipped < sent
                   /\ sent <= skipped + 1 + from \div 2
  BY <1>1 DEF Inv, WaitInv, Waiting
<1>6. /\ handle' \in Handles /\ late' \in BOOLEAN /\ kind' \in Kinds
      /\ step' \in 0..7 /\ sent' \in 0..MaxRequests /\ id' \in 0..sent'
      /\ emitted' \in 0..2 * sent' /\ taken' \in 0..emitted'
      /\ from' \in 0..taken'
  BY <1>1, <1>2, RequestsAssumption DEF Inv, TypeOK
<1>7. CASE GoOn /\ prompt' = FALSE
  BY <1>1, <1>2, <1>5, <1>6, <1>7
     DEF Inv, TypeOK, WaitInv, RestInv, Waiting, GoOn
<1>8. CASE /\ pc' = "idle" /\ ret' \in {"ok", "failed"} /\ lastError' \in Errors
           /\ IF prompt' THEN UNCHANGED skipped ELSE Skip
  <2>1. skipped' \in 0..sent'
    BY <1>1, <1>2, <1>5, <1>8 DEF Skip
  <2>2. sent' <= skipped' + taken' \div 2
    <3>1. CASE prompt'
      <4>1. skipped' = skipped /\ sent' = sent
        BY <1>2, <1>8, <3>1
      <4>2. taken \div 2 + 1 <= taken' \div 2
        BY <1>4, <3>1
      <4> QED  BY <1>1, <1>3, <1>5, <4>1, <4>2
    <3>2. CASE ~prompt' /\ id = 0
      <4>1. skipped' = skipped /\ sent' = sent
        BY <1>2, <1>8, <3>2 DEF Skip
      <4> QED  BY <1>1, <1>3, <1>5, <3>2, <4>1
    <3>3. CASE ~prompt' /\ id # 0
      <4>1. skipped' = skipped + 1 /\ sent' = sent
        BY <1>2, <1>8, <3>3 DEF Skip
      <4> QED  BY <1>1, <1>3, <1>5, <3>3, <4>1
    <3> QED  BY <3>1, <3>2, <3>3
  <2> QED  BY <1>2, <1>6, <1>8, <2>1, <2>2
              DEF Inv, TypeOK, WaitInv, RestInv, Waiting
<1>9. ret \in {"ok", "failed"} /\ lastError \in Errors
  BY DEF Inv, TypeOK
<1>10. \/ GoOn /\ prompt' = FALSE
       \/ Fail("TIMEOUT") \/ Succeed \/ Fail("NODATA")
  BY <1>2 DEF ReadOn
<1> QED  BY <1>7, <1>8, <1>9, <1>10 DEF Fail, Succeed, Errors

LEMMA ReadErrorStep == Inv /\ ReadError => Inv'
<1> SUFFICES ASSUME Inv, ReadError PROVE Inv'
  OBVIOUS
<1>1. /\ sent \in Nat /\ taken \in Nat /\ skipped \in Nat /\ from \in Nat
      /\ id \in Nat /\ from <= taken /\ skipped <= sent
      /\ pc = "reading" /\ prompt = FALSE
  BY RequestsAssumption DEF Inv, TypeOK, WaitInv, Waiting, ReadError
<1>2. /\ UNCHANGED <<handle, callVars, step, lineVars>>
      /\ pc' = "idle" /\ ret' = "failed" /\ lastError' = "SERIALREADERROR"
      /\ Skip
  BY <1>1 DEF ReadError, Fail, callVars
<1>3. from \div 2 <= taken \div 2 /\ from \div 2 \in Nat /\ taken \div 2 \in Nat
  BY <1>1, HalfMonotone
<1>4. /\ id = 0 => sent <= skipped + from \div 2
      /\ id # 0 => /\ id = sent /\ skipped < sent
                   /\ sent <= skipped + 1 + from \div 2
  BY <1>1 DEF Inv, WaitInv, Waiting
<1>5. skipped' \in 0..sent /\ sent <= skipped' + taken \div 2
  BY <1>1, <1>2, <1>3, <1>4 DEF Skip, callVars
<1> QED  BY <1>2, <1>5 DEF Inv, TypeOK, WaitInv, RestInv, Waiting, Errors,
                          callVars, lineVars

LEMMA RequestStep == ASSUME NEW k \in Kinds PROVE Inv /\ Request(k) => Inv'
<1> SUFFICES ASSUME Inv, Request(k) PROVE Inv'
  OBVIOUS
<1>1. /\ sent \in Nat /\ taken \in Nat /\ emitted \in Nat /\ skipped \in Nat
      /\ emitted <= 2 * sent /\ taken <= emitted /\ skipped <= sent
      /\ sent <= MaxRequests /\ ~Waiting /\ sent <= skipped + taken \div 2
  BY RequestsAssumption DEF Inv, TypeOK, RestInv, Waiting, Request
<1>2. /\ handle' \in Handles /\ step' \in 0..7 /\ lastError' \in Errors
      /\ ret \in {"ok", "failed"} /\ kind' \in Kinds /\ late' \in BOOLEAN
      /\ prompt' = FALSE /\ from' = taken /\ taken' = taken
      /\ emitted' = emitted
  BY DEF Inv, TypeOK, Request, WriteCommand
<1>3. taken \div 2 \in Nat
  BY <1>1, HalfMonotone
<1>4. CASE k = "blind"
  <2>1. ret' = "ok" /\ Skip /\ pc' = pc /\ pc = "idle"
    BY <1>4 DEF Request
  <2>2. /\ sent' \in 0..MaxRequests /\ id' \in 0..sent'
        /\ emitted' \in 0..2 * sent' /\ skipped' \in 0..sent'
        /\ sent' <= skipped' + taken' \div 2
    BY <1>1, <1>2, <2>1, SkippedWrite DEF Request
  <2>3. ~Waiting' /\ TypeOK'
    <3>1. pc' = "idle" /\ ret' \in {"ok", "failed"} /\ prompt' \in BOOLEAN
      BY <1>2, <2>1
    <3>2. taken' \in 0..emitted' /\ from' \in 0..taken'
      BY <1>1, <1>2
    <3> QED  BY <1>2, <2>2, <3>1, <3>2 DEF TypeOK, Waiting
  <2> QED  BY <2>2, <2>3 DEF Inv, WaitInv, RestInv
<1>5. CASE k # "blind"
  <2>1. pc' = "asleep" /\ ret' = ret /\ skipped' = skipped
    BY <1>5 DEF Request
  <2>2. /\ sent' \in 0..MaxRequests /\ id' \in 0..sent'
        /\ emitted' \in 0..2 * sent' /\ skipped' \in 0..sent'
        /\ id' = 0 => sent' <= skipped' + from' \div 2
        /\ id' # 0 => /\ id' = sent' /\ skipped' < sent'
                      /\ sent' <= skipped' + 1 + from' \div 2
    <3>1. CASE sent < MaxRequests /\ sent' = sent + 1 /\ id' = sent'
      BY <1>1, <1>2, <1>3, <2>1, <3>1, RequestsAssumption
    <3>2. CASE sent' = sent /\ id' = 0
      BY <1>1, <1>2, <1>3, <2>1, <3>2, RequestsAssumption
    <3> QED  BY <3>1, <3>2 DEF Request, WriteCommand
  <2>3. Waiting' /\ TypeOK'
    <3>1. pc' = "asleep" /\ ret' \in {"ok", "failed"} /\ prompt' \in BOOLEAN
      BY <1>2, <2>1
    <3>2. taken' \in 0..emitted' /\ from' \in 0..taken'
      BY <1>1, <1>2
    <3> QED  BY <1>2, <2>2, <3>1, <3>2 DEF TypeOK, Waiting
  <2> QED  BY <1>2, <2>2, <2>3 DEF Inv, WaitInv, RestInv
<1> QED  BY <1>4, <1>5

\* A state change that leaves the line and its histories alone.
LEMMA QuietStep ==
    ASSUME Inv, TypeOK', ~Waiting, ~Waiting',
           UNCHANGED <<sent, skipped>>, taken <= taken'
    PROVE  Inv'
<1>1. sent \in Nat /\ skipped \in Nat /\ taken \in Nat /\ taken' \in Nat
  BY RequestsAssumption DEF Inv, TypeOK
<1>2. /\ taken \div 2 <= taken' \div 2
      /\ taken \div 2 \in Nat /\ taken' \div 2 \in Nat
  BY <1>1, HalfMonotone
<1>3. sent <= skipped + taken \div 2
  BY DEF Inv, RestInv
<1>4. sent <= skipped + taken' \div 2
  BY <1>1, <1>2, <1>3, LagShrinks
<1>5. sent' <= skipped' + taken' \div 2
  BY <1>4
<1> QED  BY <1>5 DEF Inv, WaitInv, RestInv

LEMMA CallStep == Inv /\ Calls => Inv'
<1> SUFFICES ASSUME Inv, Calls PROVE Inv'
  OBVIOUS
<1>1. /\ sent \in Nat /\ taken \in Nat /\ emitted \in Nat /\ from \in Nat
      /\ from <= taken /\ taken <= emitted /\ pc = "idle"
  BY RequestsAssumption
     DEF Inv, TypeOK, Calls, OpenPort, SetPortHandle, ClosePort, Flush, InitPort, Monitor
<1>2. /\ taken' \in taken..emitted
      /\ pc' \in {"idle", "init", "monitor"} /\ handle' \in Handles
      /\ step' \in 0..7 /\ ret' \in {"ok", "failed"}
      /\ UNCHANGED <<callVars, lastError, sent, emitted, skipped>>
  <2>1. CASE OpenPort
    BY <1>1, <2>1 DEF OpenPort, Inv, TypeOK
  <2>2. CASE ClosePort
    <3>1. handle' \in Handles
      BY <2>2 DEF ClosePort, Handles
    <3> QED  BY <1>1, <2>2, <3>1 DEF ClosePort, Inv, TypeOK, lineVars
  <2>3. CASE Flush
    BY <1>1, <2>3 DEF Flush, Discard, Inv, TypeOK
  <2>4. CASE InitPort
    BY <1>1, <2>4 DEF InitPort, Inv, TypeOK, lineVars
  <2>5. CASE Monitor
    BY <1>1, <2>5 DEF Monitor, Inv, TypeOK, lineVars
  <2>6. CASE SetPortHandle
    BY <1>1, <2>6 DEF SetPortHandle, Inv, TypeOK, lineVars
  <2> QED  BY <2>1, <2>2, <2>3, <2>4, <2>5, <2>6 DEF Calls
<1>3. taken' \in 0..emitted' /\ from' \in 0..taken' /\ taken <= taken'
  BY <1>1, <1>2 DEF callVars
<1>4. TypeOK'
  BY <1>2, <1>3 DEF Inv, TypeOK, callVars
<1> QED  BY <1>1, <1>2, <1>3, <1>4, QuietStep DEF Waiting

LEMMA InitRequestStep == Inv /\ InitRequest => Inv'
<1> SUFFICES ASSUME Inv, InitRequest PROVE Inv'
  OBVIOUS
<1>1. /\ pc = "init" /\ ~Waiting /\ taken \in Nat /\ emitted \in Nat
      /\ taken <= emitted /\ step \in 0..7 /\ sent \in Nat
  BY RequestsAssumption DEF Inv, TypeOK, InitRequest, Waiting
<1>2. /\ WriteCommand /\ Skip /\ from' = taken /\ taken' = taken
      /\ kind' = "blind" /\ emitted' = emitted /\ handle' = handle
      /\ lastError' = lastError
  BY DEF InitRequest, WriteCommand
<1>3. prompt' \in BOOLEAN /\ late' \in BOOLEAN
  BY DEF InitRequest
<1>4. /\ step' \in 0..7 /\ pc' \in {"init", "idle"} /\ ret' \in {"ok", ret}
  BY <1>1 DEF InitRequest
<1>5. /\ sent' \in 0..MaxRequests /\ id' \in 0..sent'
      /\ emitted' \in 0..2 * sent' /\ skipped' \in 0..sent'
      /\ sent' <= skipped' + taken' \div 2
  BY <1>1, <1>2, SkippedWrite
<1>6. taken' \in 0..emitted' /\ from' \in 0..taken'
  BY <1>1, <1>2
<1>7. TypeOK'
  BY <1>2, <1>3, <1>4, <1>5, <1>6 DEF Inv, TypeOK, Kinds
<1> QED  BY <1>4, <1>5, <1>7 DEF Inv, WaitInv, RestInv, Waiting

LEMMA QuietProceeds ==
    Inv /\ (InitFlush \/ MonitorRead \/ MonitorError) => Inv'
<1> SUFFICES ASSUME Inv, InitFlush \/ MonitorRead \/ MonitorError PROVE Inv'
  OBVIOUS
<1>1. /\ sent \in Nat /\ taken \in Nat /\ emitted \in Nat /\ from \in Nat
      /\ from <= taken /\ taken <= emitted /\ pc \in {"init", "monitor"}
  BY RequestsAssumption
     DEF Inv, TypeOK, InitFlush, MonitorRead, MonitorError
<1>2. /\ taken' \in taken..emitted
      /\ pc' \in {"idle", "init", "monitor"} /\ step' \in 0..7
      /\ lastError' \in Errors
      /\ UNCHANGED <<handle, kind, id, from, late, ret, sent, emitted, skipped>>
  <2>1. CASE InitFlush
    BY <1>1, <2>1 DEF InitFlush, Discard, Inv, TypeOK, callVars
  <2>2. CASE MonitorRead
    BY <1>1, <2>2 DEF MonitorRead, Read, Inv, TypeOK
  <2>3. CASE MonitorError
    BY <1>1, <2>3 DEF MonitorError, Inv, TypeOK, Errors, callVars, lineVars
  <2> QED  BY <2>1, <2>2, <2>3
<1>3. prompt' \in BOOLEAN
  <2>1. CASE MonitorRead
    <3>1. prompt' = (prompt \/ Prompts(taken, taken') # {})
      BY <2>1, Zenon DEF MonitorRead, Read
    <3> QED  BY <3>1, Zenon
  <2>2. CASE InitFlush \/ MonitorError
    BY <2>2 DEF InitFlush, MonitorError, Inv, TypeOK, callVars
  <2> QED  BY <2>1, <2>2
<1>4. taken' \in 0..emitted' /\ from' \in 0..taken' /\ taken <= taken'
  BY <1>1, <1>2
<1>5. TypeOK'
  BY <1>2, <1>3, <1>4 DEF Inv, TypeOK
<1> QED  BY <1>1, <1>2, <1>4, <1>5, QuietStep DEF Waiting

\* The device answers, time passes and the caller wakes up.
LEMMA WorldStep == Inv /\ (Answer \/ Tick \/ Awake) => Inv'
<1>1. ASSUME Inv, Answer PROVE Inv'
  <2>1. emitted' \in 0..2 * sent' /\ taken' \in 0..emitted'
    BY <1>1, RequestsAssumption DEF Answer, Inv, TypeOK
  <2> QED  BY <1>1, <2>1
              DEF Answer, Inv, TypeOK, WaitInv, RestInv, Waiting, callVars
<1>2. ASSUME Inv, Tick PROVE Inv'
  BY <1>2 DEF Tick, Inv, TypeOK, WaitInv, RestInv, Waiting, lineVars
<1>3. ASSUME Inv, Awake PROVE Inv'
  BY <1>3 DEF Awake, Inv, TypeOK, WaitInv, RestInv, Waiting, callVars, lineVars
<1> QED  BY <1>1, <1>2, <1>3

LEMMA InvStep == Inv /\ [Next]_vars => Inv'
<1>1. Inv /\ UNCHANGED vars => Inv'
  BY DEF Inv, TypeOK, WaitInv, RestInv, Waiting, vars, callVars, lineVars
<1> QED  BY <1>1, CallStep, RequestStep, ReadOnStep, ReadErrorStep,
            InitRequestStep, QuietProceeds, WorldStep DEF Next, Steps

-----------------------------------------------------------------------------
(* The theorems.                                                           *)

THEOREM Invariance == Spec => []Inv
<1> QED  BY InvInit, InvStep, PTL DEF Spec

\* Every variable stays in its range, whatever the number of commands.
THEOREM ObdTypeCorrect == Spec => []TypeOK
<1>1. Inv => TypeOK
  BY DEF Inv
<1> QED  BY <1>1, Invariance, PTL

\* Between two calls no more answers are outstanding than requests returned
\* before their prompt: none is lost count of in sendObdRequestString().
THEOREM LagCorrect == Spec => []LagBounded
<1>1. Inv => LagBounded
  BY DEF Inv, RestInv, Waiting, LagBounded
<1> QED  BY <1>1, Invariance, PTL

\* A request that nothing was outstanding for, and that waits for its prompt,
\* succeeds with its own reply, however the reads cut the line.
THEOREM OwnReplyCorrect == Spec => OwnReply
<1> DEFINE Returns == /\ pc = "reading" /\ pc' = "idle" /\ ret' = "ok"
                      /\ kind # "peek" /\ from = 2 * (id - 1)
<1>1. Inv /\ Next /\ Returns => taken' = 2 * id
  <2> SUFFICES ASSUME Inv, Next, Returns PROVE taken' = 2 * id
    OBVIOUS
  <2>1. ReadOn
    BY DEF Next, Calls, OpenPort, SetPortHandle, ClosePort, Flush, InitPort,
           Monitor, Request, Steps, Awake, ReadError, Fail, InitRequest, InitFlush,
           MonitorRead, MonitorError, Answer, Tick
  <2>2. /\ id \in Nat /\ sent \in Nat /\ from \in Nat /\ taken \in Nat
        /\ emitted \in Nat /\ from <= taken /\ emitted <= 2 * sent
    BY RequestsAssumption DEF Inv, TypeOK
  <2>3. id # 0 /\ id = sent /\ ~prompt
    BY <2>2 DEF Inv, WaitInv, Waiting
  <2>4. prompt'
    BY <2>1 DEF ReadOn, Fail, GoOn
  <2>5. taken' \in taken..emitted /\ Prompts(taken, taken') # {}
    BY <2>1, <2>3, <2>4 DEF ReadOn, Read
  <2>6. taken' \in Nat /\ taken <= taken' /\ taken' <= 2 * id
    BY <2>2, <2>3, <2>5
  <2>7. 2 * (id - 1) <= taken
    BY <2>2
  <2> QED  BY <2>2, <2>5, <2>6, <2>7, LastPrompt
<1>2. Inv /\ [Next]_vars =>
        [(/\ pc = "reading" /\ pc' = "idle" /\ ret' = "ok" /\ kind # "peek"
          /\ from = 2 * (id - 1)) => taken' = 2 * id]_vars
  BY <1>1
<1> QED  BY <1>2, Invariance, PTL DEF Spec, OwnReply

-----------------------------------------------------------------------------
(* The digits of a byte.                                                   *)

\* A byte is made of two digits.
LEMMA TwoDigits ==
    ASSUME NEW v \in 0..255
    PROVE  /\ v \div 16 \in 0..15 /\ v % 16 \in 0..15
           /\ (v \div 16) * 16 + (v % 16) = v
  OBVIOUS

\* What a digit stands for, in either case.
LEMMA NibbleOfDigit ==
    ASSUME NEW n \in 0..15, NEW a \in {65, 97}
    PROVE  Nibble(Digit(n, a)) = n
<1>1. CASE n < 10
  <2>1. Digit(n, a) = 48 + n /\ 48 + n \in 48..57
    BY <1>1 DEF Digit
  <2> QED  BY <2>1 DEF Nibble
<1>2. CASE n >= 10 /\ a = 65
  <2>1. Digit(n, a) = n + 55 /\ n + 55 \in 65..90 /\ n + 55 \notin 48..57
    BY <1>2 DEF Digit
  <2> QED  BY <2>1 DEF Nibble
<1>3. CASE n >= 10 /\ a = 97
  <2>1. Digit(n, a) = n + 87 /\ n + 87 \notin 65..90 /\ n + 87 \notin 48..57
    BY <1>3 DEF Digit
  <2> QED  BY <2>1 DEF Nibble
<1> QED  BY <1>1, <1>2, <1>3

\* byteArrayToByte: what a device writes for a byte, in digits of either case,
\* is that byte again.
THEOREM DigitsDecoded ==
    \A v \in 0..255, a \in {65, 97} :
      byteArrayToByte(Digit(v \div 16, a), Digit(v % 16, a)) = v
<1>1. SUFFICES ASSUME NEW v \in 0..255, NEW a \in {65, 97}
               PROVE  byteArrayToByte(Digit(v \div 16, a), Digit(v % 16, a)) = v
  OBVIOUS
<1>2. Nibble(Digit(v \div 16, a)) = v \div 16 /\ Nibble(Digit(v % 16, a)) = v % 16
  BY TwoDigits, NibbleOfDigit
<1>3. byteArrayToByte(Digit(v \div 16, a), Digit(v % 16, a)) = v % 256
  BY <1>2, TwoDigits DEF byteArrayToByte
<1> QED  BY <1>3

\* The decoding takes no digit for a blank, totalReply none for the prompt: what
\* they leave out of a reply is never data.
THEOREM DigitsKept ==
    \A n \in 0..15, a \in {65, 97} : Digit(n, a) \notin Blanks \cup {Prompt}
  BY DEF Digit, Blanks, Prompt

-----------------------------------------------------------------------------
(* What the decoding makes of a reply, from its end to its start.          *)

\* The recursion of Decode.
Decodes(rest, t) ==
    \A i \in 1..Len(t) + 1 :
      rest[i] = IF i >= Len(t) THEN <<>>
                ELSE IF t[i] \in Blanks THEN rest[i + 1]
                ELSE <<byteArrayToByte(t[i], t[i + 1])>> \o rest[i + 2]

LEMMA ByteType ==
    ASSUME NEW b1 \in Bytes, NEW b2 \in Bytes
    PROVE  byteArrayToByte(b1, b2) \in Bytes
<1>1. \A b \in Bytes : Nibble(b) \in Int
  BY DEF Nibble, Bytes
<1>2. Nibble(b1) * 16 + Nibble(b2) \in Int
  BY <1>1
<1> HIDE DEF Nibble
<1> QED  BY <1>2 DEF byteArrayToByte, Bytes

\* The function by which Decode is defined satisfies its recursion.
LEMMA DecodeRecursion ==
    ASSUME NEW t \in Seq(Bytes)
    PROVE  \E rest \in [1..Len(t) + 1 -> Seq(Bytes)] :
             Decodes(rest, t) /\ Decode(t) = rest[1]
<1> DEFINE N == Len(t)
           W == Seq(Bytes) \X Seq(Bytes)
           Value(p, i) ==
             IF i >= Len(t) THEN <<>>
             ELSE IF t[i] \in Blanks THEN p[1]
             ELSE <<byteArrayToByte(t[i], t[i + 1])>> \o p[2]
           back == [q \in W \X (1..N) |-> <<Value(q[1], N + 1 - q[2]), q[1][1]>>]
           Def(f) == [i \in 1..N + 1 |->
             IF i >= Len(t) THEN <<>>
             ELSE IF t[i] \in Blanks THEN f[i + 1]
             ELSE <<byteArrayToByte(t[i], t[i + 1])>> \o f[i + 2]]
           rest == CHOOSE f : f = Def(f)
<1>1. N \in Nat /\ <<>> \in Seq(Bytes) /\ <<<<>>, <<>>>> \in W
  <2>1. N \in Nat /\ <<>> \in Seq(Bytes)
    BY EmptySeq
  <2> QED  BY <2>1
<1>2. ASSUME NEW p \in W, NEW i \in 1..N PROVE Value(p, i) \in Seq(Bytes)
  <2>1. p[1] \in Seq(Bytes) /\ p[2] \in Seq(Bytes)
    OBVIOUS
  <2>2. ASSUME i < N
        PROVE  <<byteArrayToByte(t[i], t[i + 1])>> \in Seq(Bytes)
    <3>1. t[i] \in Bytes /\ t[i + 1] \in Bytes
      BY <1>1, <2>2
    <3> QED  BY <3>1, ByteType
  <2> QED  BY <1>1, <2>1, <2>2
<1>3. back \in [W \X (1..N) -> W]
  <2>1. ASSUME NEW q \in W \X (1..N)
        PROVE  <<Value(q[1], N + 1 - q[2]), q[1][1]>> \in W
    <3>1. /\ q[1] \in W /\ q[2] \in 1..N /\ q[1][1] \in Seq(Bytes)
          /\ N + 1 - q[2] \in 1..N
      BY <1>1
    <3> HIDE DEF Value
    <3>2. Value(q[1], N + 1 - q[2]) \in Seq(Bytes)
      BY <1>2, <3>1
    <3> QED  BY <3>1, <3>2
  <2> HIDE DEF Value, W
  <2> QED  BY <2>1
<1>4. \A p \in W, k \in 1..N : back[<<p, k>>] = <<Value(p, N + 1 - k), p[1]>>
  <2> HIDE DEF Value, W
  <2> QED  OBVIOUS
<1> HIDE DEF back
<1>5. PICK h \in [0..N -> W] : Follows(h, <<<<>>, <<>>>>, back, N)
  <2> HIDE DEF W, N
  <2> QED  BY <1>1, <1>3, Recursion
<1> DEFINE f == [i \in 1..N + 1 |-> h[N + 1 - i][1]]
<1>6. f = Def(f)
  <2>1. ASSUME NEW i \in 1..N + 1 PROVE f[i] = Def(f)[i]
    <3>1. CASE i = N + 1
      <4>1. f[i] = h[0][1] /\ h[0] = <<<<>>, <<>>>>
        BY <1>1, <1>5, <3>1 DEF Follows
      <4>2. Def(f)[i] = <<>>
        BY <1>1, <3>1
      <4> QED  BY <4>1, <4>2
    <3>2. CASE i # N + 1
      <4> DEFINE k == N + 1 - i
      <4>1. i \in 1..N /\ k \in 1..N /\ N + 1 - k = i /\ k - 1 \in 0..N
        BY <1>1, <3>2
      <4>2. h[k] = back[<<h[k - 1], k>>] /\ h[k - 1] \in W
        BY <1>5, <4>1 DEF Follows
      <4>3. h[k] = <<Value(h[k - 1], i), h[k - 1][1]>>
        <5> HIDE DEF Value, W, k
        <5> QED  BY <1>4, <4>1, <4>2
      <4>4. f[i] = Value(h[k - 1], i)
        <5>1. f[i] = h[k][1]
          BY <4>1
        <5> HIDE DEF f, k, Value
        <5> QED  BY <4>3, <5>1
      <4>5. ASSUME i < N
            PROVE  h[k - 1][1] = f[i + 1] /\ h[k - 1][2] = f[i + 2]
        <5>1. f[i + 1] = h[k - 1][1] /\ f[i + 2] = h[k - 2][1]
          BY <1>1, <4>1, <4>5
        <5>2. k - 1 \in 1..N /\ (k - 1) - 1 = k - 2 /\ k - 2 \in 0..N
          BY <1>1, <4>1, <4>5
        <5>3. h[k - 1] = back[<<h[k - 2], k - 1>>] /\ h[k - 2] \in W
          BY <1>5, <5>2 DEF Follows
        <5>4. h[k - 1] = <<Value(h[k - 2], N + 1 - (k - 1)), h[k - 2][1]>>
          <6> HIDE DEF Value, W, k
          <6> QED  BY <1>4, <5>2, <5>3
        <5> HIDE DEF Value, f, k
        <5> QED  BY <5>1, <5>4
      <4>6. Def(f)[i] = IF i >= Len(t) THEN <<>>
                        ELSE IF t[i] \in Blanks THEN f[i + 1]
                        ELSE <<byteArrayToByte(t[i], t[i + 1])>> \o f[i + 2]
        <5> HIDE DEF f
        <5> QED  BY <4>1
      <4> HIDE DEF f, k, Def
      <4>7. i >= Len(t) \/ i < N
        BY <1>1
      <4> QED  BY <4>4, <4>5, <4>6, <4>7
    <3> QED  BY <3>1, <3>2
  <2>2. f = [i \in 1..N + 1 |-> f[i]]
    OBVIOUS
  <2>3. Def(f) = [i \in 1..N + 1 |-> Def(f)[i]]
    OBVIOUS
  <2> HIDE DEF Def, f
  <2> QED  BY <2>1, <2>2, <2>3
<1>7. rest = Def(rest)
  <2> HIDE DEF Def, f
  <2> QED  BY <1>6, Zenon
<1>8. Decode(t) = rest[1]
  BY DEF Decode
<1> HIDE DEF rest
<1>9. ASSUME NEW i \in 1..N + 1
      PROVE  rest[i] = IF i >= Len(t) THEN <<>>
                       ELSE IF t[i] \in Blanks THEN rest[i + 1]
                       ELSE <<byteArrayToByte(t[i], t[i + 1])>> \o rest[i + 2]
  <2>1. Def(rest)[i] = IF i >= Len(t) THEN <<>>
                       ELSE IF t[i] \in Blanks THEN rest[i + 1]
                       ELSE <<byteArrayToByte(t[i], t[i + 1])>> \o rest[i + 2]
    OBVIOUS
  <2> HIDE DEF Def
  <2> QED  BY <1>7, <2>1, Zenon
<1>10. \A i \in 1..N + 1 : rest[i] \in Seq(Bytes)
  <2> DEFINE T == {k \in 0..N : /\ rest[N + 1 - k] \in Seq(Bytes)
                                /\ k > 0 => rest[N + 2 - k] \in Seq(Bytes)}
  <2>1. 0 \in T
    <3>1. N + 1 \in 1..N + 1 /\ N + 1 >= Len(t)
      BY <1>1
    <3>2. rest[N + 1] = <<>>
      BY <1>9, <3>1
    <3> QED  BY <1>1, <3>2
  <2>2. ASSUME NEW k \in 1..N, k - 1 \in T PROVE k \in T
    <3> DEFINE i == N + 1 - k
    <3>1. i \in 1..N /\ i \in 1..N + 1 /\ k \in 0..N
      BY <1>1
    <3>2. rest[i + 1] \in Seq(Bytes) /\ (i < N => rest[i + 2] \in Seq(Bytes))
      <4>1. /\ N + 1 - (k - 1) = i + 1 /\ N + 2 - (k - 1) = i + 2
            /\ i < N => k - 1 > 0
        BY <1>1
      <4> QED  BY <2>2, <4>1
    <3>3. i < N => <<byteArrayToByte(t[i], t[i + 1])>> \in Seq(Bytes)
      <4>1. i < N => t[i] \in Bytes /\ t[i + 1] \in Bytes
        BY <1>1, <3>1
      <4> QED  BY <4>1, ByteType
    <3>4. /\ rest[i] = IF i >= Len(t) THEN <<>>
                       ELSE IF t[i] \in Blanks THEN rest[i + 1]
                       ELSE <<byteArrayToByte(t[i], t[i + 1])>> \o rest[i + 2]
          /\ i >= Len(t) \/ i < N
      <4>1. i >= Len(t) \/ i < N
        BY <1>1, <3>1
      <4> HIDE DEF i
      <4> QED  BY <1>9, <3>1, <4>1
    <3>5. i < N => <<byteArrayToByte(t[i], t[i + 1])>> \o rest[i + 2] \in Seq(Bytes)
      BY <3>2, <3>3
    <3>6. rest[i] \in Seq(Bytes)
      <4> HIDE DEF i, N
      <4> QED  BY <1>1, <3>2, <3>4, <3>5
    <3>7. N + 2 - k = i + 1
      BY <1>1
    <3> QED  BY <3>1, <3>2, <3>6, <3>7
  <2>3. 0..N \subseteq T
    <3> HIDE DEF T, N
    <3> QED  BY <1>1, <2>1, <2>2, UpTo
  <2>4. ASSUME NEW i \in 1..N + 1 PROVE rest[i] \in Seq(Bytes)
    <3>1. N + 1 - i \in 0..N /\ N + 1 - (N + 1 - i) = i
      BY <1>1
    <3>2. N + 1 - i \in T
      <4> HIDE DEF T, N
      <4> QED  BY <2>3, <3>1
    <3> QED  BY <3>1, <3>2
  <2> QED  BY <2>4
<1>11. rest \in [1..Len(t) + 1 -> Seq(Bytes)]
  <2>1. rest = [i \in 1..Len(t) + 1 |-> rest[i]]
    BY <1>7
  <2> QED  BY <1>10, <2>1
<1>12. Decodes(rest, t)
  BY <1>9 DEF Decodes
<1> QED  BY <1>8, <1>11, <1>12

\* What a reply is decoded to from some place on depends on what follows only.
LEMMA DecodeSuffix ==
    ASSUME NEW p \in Seq(Bytes), NEW s \in Seq(Bytes),
           NEW f, Decodes(f, p \o s), NEW g, Decodes(g, s)
    PROVE  f[Len(p) + 1] = g[1]
<1> DEFINE M == Len(p)
           N == Len(s)
           t == p \o s
           T == {k \in 0..N : /\ f[M + N + 1 - k] = g[N + 1 - k]
                              /\ k > 0 => f[M + N + 2 - k] = g[N + 2 - k]}
<1>1. /\ M \in Nat /\ N \in Nat /\ Len(t) = M + N /\ t \in Seq(Bytes)
      /\ \A i \in 1..N : t[M + i] = s[i]
  BY ConcatProperties
<1> HIDE DEF t
<1>2. \A i \in 1..M + N + 1 :
        f[i] = IF i >= M + N THEN <<>>
               ELSE IF t[i] \in Blanks THEN f[i + 1]
               ELSE <<byteArrayToByte(t[i], t[i + 1])>> \o f[i + 2]
  BY <1>1 DEF Decodes, t
<1>3. \A i \in 1..N + 1 :
        g[i] = IF i >= N THEN <<>>
               ELSE IF s[i] \in Blanks THEN g[i + 1]
               ELSE <<byteArrayToByte(s[i], s[i + 1])>> \o g[i + 2]
  BY DEF Decodes
<1> HIDE DEF M, N
<1>4. 0 \in T
  <2>1. /\ M + N + 1 \in 1..M + N + 1 /\ N + 1 \in 1..N + 1
        /\ M + N + 1 >= M + N /\ N + 1 >= N
    BY <1>1
  <2>2. f[M + N + 1] = <<>> /\ g[N + 1] = <<>>
    BY <1>2, <1>3, <2>1, Zenon
  <2> QED  BY <1>1, <2>2
<1>5. ASSUME NEW k \in 1..N, k - 1 \in T PROVE k \in T
  <2> DEFINE i == N + 1 - k
  <2>1. /\ i \in 1..N /\ i \in 1..N + 1 /\ M + i \in 1..M + N + 1
        /\ M + N + 1 - k = M + i /\ M + N + 2 - k = M + i + 1
        /\ N + 2 - k = i + 1 /\ k \in 0..N
        /\ i >= N <=> M + i >= M + N
    BY <1>1
  <2>2. f[M + i + 1] = g[i + 1] /\ (i < N => f[M + i + 2] = g[i + 2])
    <3>1. /\ M + N + 1 - (k - 1) = M + i + 1 /\ N + 1 - (k - 1) = i + 1
          /\ M + N + 2 - (k - 1) = M + i + 2 /\ N + 2 - (k - 1) = i + 2
          /\ i < N => k - 1 > 0
      BY <1>1
    <3> QED  BY <1>5, <3>1
  <2>3. t[M + i] = s[i] /\ (i < N => t[M + i + 1] = s[i + 1])
    <3>1. i < N => i + 1 \in 1..N /\ M + (i + 1) = M + i + 1
      BY <1>1, <2>1
    <3> QED  BY <1>1, <2>1, <3>1
  <2>4. f[M + i] = g[i]
    <3>1. i >= N \/ i < N
      BY <1>1, <2>1
    <3>2. CASE i >= N
      <4>1. f[M + i] = <<>> /\ g[i] = <<>>
        BY <1>2, <1>3, <2>1, <3>2
      <4> QED  BY <4>1
    <3>3. CASE i < N
      <4>1. ~(i >= N) /\ ~(M + i >= M + N)
        BY <1>1, <2>1, <3>3
      <4>2. /\ f[M + i] = IF t[M + i] \in Blanks THEN f[M + i + 1]
               ELSE <<byteArrayToByte(t[M + i], t[M + i + 1])>> \o f[M + i + 2]
            /\ g[i] = IF s[i] \in Blanks THEN g[i + 1]
               ELSE <<byteArrayToByte(s[i], s[i + 1])>> \o g[i + 2]
        BY <1>2, <1>3, <2>1, <4>1
      <4> HIDE DEF i
      <4> QED  BY <2>2, <2>3, <3>3, <4>2
    <3> QED  BY <3>1, <3>2, <3>3
  <2> QED  BY <2>1, <2>2, <2>4
<1>6. 0..N \subseteq T
  <2> HIDE DEF T
  <2> QED  BY <1>1, <1>4, <1>5, UpTo
<1>7. N \in T
  <2> HIDE DEF T
  <2> QED  BY <1>1, <1>6
<1>8. M + N + 1 - N = M + 1 /\ N + 1 - N = 1
  BY <1>1
<1> QED  BY <1>7, <1>8 DEF M

\* A blank is skipped.
LEMMA DecodeBlank ==
    ASSUME NEW b \in Bytes, b \in Blanks, NEW s \in Seq(Bytes)
    PROVE  Decode(<<b>> \o s) = Decode(s)
<1> DEFINE p == <<b>>
           t == p \o s
<1>1. p \in Seq(Bytes) /\ Len(p) = 1 /\ p[1] = b
  OBVIOUS
<1> HIDE DEF p
<1>2. /\ t \in Seq(Bytes) /\ Len(s) \in Nat /\ Len(t) = Len(s) + 1
      /\ t[1] = b
  BY <1>1, ConcatProperties
<1>3. PICK f \in [1..Len(t) + 1 -> Seq(Bytes)] :
        Decodes(f, t) /\ Decode(t) = f[1]
  BY <1>2, DecodeRecursion
<1>4. PICK g \in [1..Len(s) + 1 -> Seq(Bytes)] :
        Decodes(g, s) /\ Decode(s) = g[1]
  BY DecodeRecursion
<1>5. f[2] = g[1]
  <2>1. f[Len(p) + 1] = g[1]
    <3>1. Decodes(f, p \o s) /\ Decodes(g, s)
      BY <1>3, <1>4
    <3> QED  BY <1>1, <3>1, DecodeSuffix
  <2> QED  BY <1>1, <2>1
<1> HIDE DEF t
<1>6. f[1] = f[2]
  <2>1. CASE Len(s) = 0
    <3>1. Len(t) = 1 /\ 1 \in 1..Len(t) + 1 /\ 2 \in 1..Len(t) + 1
      BY <1>2, <2>1
    <3>2. f[1] = <<>> /\ f[2] = <<>>
      BY <1>3, <3>1 DEF Decodes
    <3> QED  BY <3>2
  <2>2. CASE Len(s) > 0
    <3>1. ~(1 >= Len(t)) /\ 1 \in 1..Len(t) + 1 /\ 1 + 1 = 2
      BY <1>2, <2>2
    <3> QED  BY <1>2, <1>3, <3>1 DEF Decodes
  <2> QED  BY <1>2, <2>1, <2>2
<1> QED  BY <1>3, <1>4, <1>5, <1>6 DEF t, p

\* A pair of digits is decoded to its byte.
LEMMA DecodePair ==
    ASSUME NEW b1 \in Bytes, NEW b2 \in Bytes, b1 \notin Blanks,
           NEW s \in Seq(Bytes)
    PROVE  Decode(<<b1, b2>> \o s) = <<byteArrayToByte(b1, b2)>> \o Decode(s)
<1> DEFINE p == <<b1, b2>>
           t == p \o s
<1>1. /\ p \in Seq(Bytes) /\ Len(p) = 2
      /\ p[1] = b1 /\ p[2] = b2
  OBVIOUS
<1> HIDE DEF p
<1>2. /\ t \in Seq(Bytes) /\ Len(s) \in Nat /\ Len(t) = Len(s) + 2
      /\ t[1] = b1 /\ t[2] = b2
  <2>1. Len(s) \in Nat /\ 1 \in 1..2 + Len(s) /\ 2 \in 1..2 + Len(s)
    OBVIOUS
  <2>2. /\ t \in Seq(Bytes) /\ Len(t) = 2 + Len(s)
        /\ \A i \in 1..2 + Len(s) :
             t[i] = IF i <= 2 THEN p[i] ELSE s[i - 2]
    <3>1. /\ t \in Seq(Bytes) /\ Len(t) = Len(p) + Len(s)
          /\ \A i \in 1..Len(p) + Len(s) :
               t[i] = IF i <= Len(p) THEN p[i] ELSE s[i - Len(p)]
      BY <1>1, ConcatProperties, Zenon
    <3> HIDE DEF t
    <3> QED  BY <1>1, <3>1, Zenon
  <2> HIDE DEF t
  <2> QED  BY <1>1, <2>1, <2>2
<1>3. PICK f \in [1..Len(t) + 1 -> Seq(Bytes)] :
        Decodes(f, t) /\ Decode(t) = f[1]
  BY <1>2, DecodeRecursion
<1>4. PICK g \in [1..Len(s) + 1 -> Seq(Bytes)] :
        Decodes(g, s) /\ Decode(s) = g[1]
  BY DecodeRecursion
<1>5. f[3] = g[1]
  <2>1. f[Len(p) + 1] = g[1]
    <3>1. Decodes(f, p \o s) /\ Decodes(g, s)
      BY <1>3, <1>4
    <3> QED  BY <1>1, <3>1, DecodeSuffix
  <2> QED  BY <1>1, <2>1
<1> HIDE DEF t
<1>6. f[1] = <<byteArrayToByte(b1, b2)>> \o f[3]
  <2>1. ~(1 >= Len(t)) /\ 1 \in 1..Len(t) + 1 /\ 1 + 1 = 2 /\ 1 + 2 = 3
    BY <1>2
  <2> QED  BY <1>2, <1>3, <2>1 DEF Decodes
<1> QED  BY <1>3, <1>4, <1>5, <1>6 DEF t, p

\* Blanks before a reply are skipped.
LEMMA DecodeBlanks ==
    ASSUME NEW g \in Seq(Blanks), NEW s \in Seq(Bytes)
    PROVE  Decode(g \o s) = Decode(s)
<1> DEFINE T == {h \in Seq(Blanks) :
                   \A u \in Seq(Bytes) : Decode(h \o u) = Decode(u)}
<1>1. Blanks \subseteq Bytes
  BY DEF Blanks, Bytes
<1>2. <<>> \in T
  <2>1. \A u \in Seq(Bytes) : <<>> \o u = u
    BY ConcatEmptySeq
  <2> QED  BY <2>1, EmptySeq
<1>3. ASSUME NEW h \in Seq(Blanks), NEW b \in Blanks, h \in T
      PROVE  Append(h, b) \in T
  <2>1. ASSUME NEW u \in Seq(Bytes) PROVE Decode(Append(h, b) \o u) = Decode(u)
    <3>1. /\ h \in Seq(Bytes) /\ b \in Bytes /\ <<b>> \in Seq(Bytes)
          /\ <<b>> \o u \in Seq(Bytes)
      BY <1>1
    <3>2. Append(h, b) \o u = h \o (<<b>> \o u)
      <4>1. Append(h, b) = h \o <<b>>
        BY <3>1, AppendIsConcat, Zenon
      <4>2. \A x, y, z \in Seq(Bytes) : (x \o y) \o z = x \o (y \o z)
        BY ConcatAssociative
      <4> QED  BY <3>1, <4>1, <4>2
    <3>3. Decode(h \o (<<b>> \o u)) = Decode(<<b>> \o u)
      BY <1>3, <3>1
    <3> QED  BY <3>1, <3>2, <3>3, DecodeBlank
  <2> QED  BY <2>1
<1>4. Seq(Blanks) \subseteq T
  <2> HIDE DEF T
  <2> QED  BY <1>2, <1>3, SeqInduction
<1> QED  BY <1>4

-----------------------------------------------------------------------------
(* What the device writes.                                                 *)

\* What is written once the item n has followed x.
Followed(x, n, a, g) == x \o Figs(n, a) \o g

\* The recursion of Written.
Writes(text, v, a, g) ==
    /\ text[0] = g
    /\ \A n \in 1..Len(v) : text[n] = Followed(text[n - 1], v[n], a, g)

\* What a reply is written with.
Figures == Blanks \cup {Digit(n, a) : n \in 0..15, a \in Letters}

LEMMA FiguresKept ==
    /\ Figures \subseteq Bytes /\ Blanks \subseteq Figures
    /\ Prompt \notin Figures /\ 78 \notin Figures /\ 0 \notin Figures
    /\ \A n \in 0..15, a \in Letters :
         Digit(n, a) \in Figures /\ Digit(n, a) \notin Blanks
<1>1. \A n \in 0..15, a \in Letters :
        Digit(n, a) \in Bytes \ {0, 62, 78}
  BY DEF Digit, Letters, Bytes
<1>2. Blanks \subseteq Bytes \ {0, 62, 78}
  BY DEF Blanks, Bytes
<1>3. \A n \in 0..15, a \in Letters : Digit(n, a) \notin Blanks
  BY DigitsKept DEF Letters
<1> HIDE DEF Digit
<1> QED  BY <1>1, <1>2, <1>3 DEF Figures, Prompt

LEMMA FigsType ==
    ASSUME NEW n \in Items, NEW a \in Letters
    PROVE  /\ Figs(n, a) \in Seq(Bytes) /\ Figs(n, a) \in Seq(Figures)
           /\ Len(Figs(n, a)) >= 1
<1> HIDE DEF Digit
<1>1. CASE n < 256
  <2>1. n \div 16 \in 0..15 /\ n % 16 \in 0..15
    BY <1>1, TwoDigits DEF Items
  <2>2. Digit(n \div 16, a) \in Figures /\ Digit(n % 16, a) \in Figures
    BY <2>1, FiguresKept
  <2> QED  BY <1>1, <2>2, FiguresKept DEF Figs
<1>2. CASE n >= 256
  <2>1. n - 256 \in 0..15 /\ ~(n < 256)
    BY <1>2 DEF Items
  <2>2. Digit(n - 256, a) \in Figures
    BY <2>1, FiguresKept
  <2> QED  BY <2>1, <2>2, FiguresKept DEF Figs
<1>3. n < 256 \/ n >= 256
  BY DEF Items
<1> QED  BY <1>1, <1>2, <1>3

\* The function by which Written is defined satisfies its recursion.
LEMMA WrittenRecursion ==
    ASSUME NEW v \in Seq(Items), NEW a \in Letters, NEW g \in Seq(Bytes)
    PROVE  \E text \in [0..Len(v) -> Seq(Bytes)] :
             Writes(text, v, a, g) /\ Written(v, a, g) = text[Len(v)]
<1> DEFINE Def(f) == [n \in 0..Len(v) |->
                        IF n = 0 THEN g ELSE Followed(f[n - 1], v[n], a, g)]
           back == [p \in Seq(Bytes) \X (1..Len(v)) |->
                      Followed(p[1], v[p[2]], a, g)]
           text == CHOOSE f : f = Def(f)
<1>1. Len(v) \in Nat
  OBVIOUS
<1>2. ASSUME NEW q \in Seq(Bytes), NEW n \in 1..Len(v)
       PROVE  Followed(q, v[n], a, g) \in Seq(Bytes)
  <2>1. Figs(v[n], a) \in Seq(Bytes)
    BY FigsType
  <2> QED  BY <2>1 DEF Followed
<1>3. back \in [Seq(Bytes) \X (1..Len(v)) -> Seq(Bytes)]
  BY <1>2
<1>4. \A q \in Seq(Bytes), n \in 1..Len(v) :
        back[<<q, n>>] = Followed(q, v[n], a, g)
  OBVIOUS
<1> HIDE DEF back
<1>5. PICK f \in [0..Len(v) -> Seq(Bytes)] : Follows(f, g, back, Len(v))
  BY <1>1, <1>3, Recursion
<1>6. f = Def(f)
  <2>1. ASSUME NEW k \in 1..Len(v)
        PROVE  f[k] = Followed(f[k - 1], v[k], a, g)
    <3>1. f[k] = back[<<f[k - 1], k>>]
      BY <1>5 DEF Follows
    <3>2. f[k - 1] \in Seq(Bytes)
      <4>1. k - 1 \in 0..Len(v)
        BY <1>1
      <4> QED  BY <4>1
    <3> QED  BY <1>4, <3>1, <3>2
  <2>2. f[0] = g
    BY <1>5 DEF Follows
  <2>3. \A k \in 0..Len(v) : f[k] = Def(f)[k]
    <3>1. Def(f)[0] = f[0]
      BY <1>1, <2>2
    <3>2. ASSUME NEW k \in 1..Len(v) PROVE Def(f)[k] = f[k]
      <4>1. Def(f)[k] = Followed(f[k - 1], v[k], a, g)
        BY <1>1
      <4> HIDE DEF Def
      <4> QED  BY <2>1, <4>1, Zenon
    <3> HIDE DEF Def
    <3> QED  BY <1>1, <3>1, <3>2
  <2>4. f = [k \in 0..Len(v) |-> f[k]]
    OBVIOUS
  <2>5. Def(f) = [k \in 0..Len(v) |-> Def(f)[k]]
    OBVIOUS
  <2> HIDE DEF Def
  <2> QED  BY <2>3, <2>4, <2>5
<1>7. text = Def(text)
  <2> HIDE DEF Def
  <2> QED  BY <1>6, Zenon
<1>8. Written(v, a, g) = text[Len(v)]
  BY DEF Written, Followed, Figs
<1> HIDE DEF text
<1>9. text[0] = g
  <2>1. Def(text)[0] = g
    BY <1>1
  <2> HIDE DEF Def
  <2> QED  BY <1>7, <2>1
<1>10. ASSUME NEW n \in 1..Len(v)
      PROVE  text[n] = Followed(text[n - 1], v[n], a, g)
  <2>1. Def(text)[n] = Followed(text[n - 1], v[n], a, g)
    BY <1>1
  <2> HIDE DEF Def
  <2> QED  BY <1>7, <2>1, Zenon
<1>11. \A n \in 0..Len(v) : text[n] \in Seq(Bytes)
  <2> DEFINE T == {n \in 0..Len(v) : text[n] \in Seq(Bytes)}
  <2>1. 0 \in T
    BY <1>9, <1>1
  <2>2. ASSUME NEW n \in 1..Len(v), n - 1 \in T PROVE n \in T
    <3>1. text[n - 1] \in Seq(Bytes)
      BY <2>2
    <3>2. text[n] \in Seq(Bytes)
      BY <1>10, <1>2, <3>1
    <3> QED  BY <3>2
  <2>3. 0..Len(v) \subseteq T
    <3> HIDE DEF T
    <3> QED  BY <2>1, <2>2, <1>1, UpTo
  <2> QED  BY <2>3
<1>12. text = [n \in 0..Len(v) |-> text[n]]
  BY <1>7, <1>1
<1>13. text \in [0..Len(v) -> Seq(Bytes)]
  BY <1>11, <1>12
<1>14. Writes(text, v, a, g)
  BY <1>9, <1>10 DEF Writes
<1> QED  BY <1>8, <1>13, <1>14

LEMMA WrittenEmpty ==
    ASSUME NEW a \in Letters, NEW g \in Seq(Bytes)
    PROVE  Written(<<>>, a, g) = g
<1>1. <<>> \in Seq(Items) /\ Len(<<>>) = 0
  BY EmptySeq
<1>2. PICK text \in [0..Len(<<>>) -> Seq(Bytes)] :
        Writes(text, <<>>, a, g) /\ Written(<<>>, a, g) = text[Len(<<>>)]
  BY <1>1, WrittenRecursion
<1> QED  BY <1>1, <1>2 DEF Writes

LEMMA WrittenType ==
    ASSUME NEW v \in Seq(Items), NEW a \in Letters, NEW g \in Seq(Bytes)
    PROVE  Written(v, a, g) \in Seq(Bytes)
<1>1. Len(v) \in Nat
  OBVIOUS
<1> QED  BY <1>1, WrittenRecursion

LEMMA WrittenAppend ==
    ASSUME NEW v \in Seq(Items), NEW n \in Items, NEW a \in Letters,
           NEW g \in Seq(Bytes)
    PROVE  Written(Append(v, n), a, g) = Followed(Written(v, a, g), n, a, g)
<1> DEFINE u == Append(v, n)
<1>1. /\ u \in Seq(Items) /\ Len(u) = Len(v) + 1 /\ Len(v) \in Nat
      /\ u[Len(u)] = n /\ \A k \in 1..Len(v) : u[k] = v[k]
  OBVIOUS
<1> HIDE DEF u
<1>2. PICK x \in [0..Len(v) -> Seq(Bytes)] :
        Writes(x, v, a, g) /\ Written(v, a, g) = x[Len(v)]
  BY WrittenRecursion
<1>3. PICK y \in [0..Len(u) -> Seq(Bytes)] :
        Writes(y, u, a, g) /\ Written(u, a, g) = y[Len(u)]
  BY <1>1, WrittenRecursion
<1>4. x[Len(v)] = y[Len(v)]
  <2> DEFINE T == {k \in 0..Len(v) : x[k] = y[k]}
  <2>1. 0 \in T
    BY <1>1, <1>2, <1>3 DEF Writes
  <2>2. ASSUME NEW k \in 1..Len(v), k - 1 \in T PROVE k \in T
    <3>1. x[k - 1] = y[k - 1] /\ u[k] = v[k] /\ k \in 1..Len(u)
      BY <1>1, <2>2
    <3>2. /\ x[k] = Followed(x[k - 1], v[k], a, g)
          /\ y[k] = Followed(y[k - 1], u[k], a, g)
      BY <1>2, <1>3, <3>1 DEF Writes
    <3>3. x[k] = y[k]
      BY <3>1, <3>2
    <3> QED  BY <3>3
  <2>3. 0..Len(v) \subseteq T
    <3> HIDE DEF T
    <3> QED  BY <1>1, <2>1, <2>2, UpTo
  <2>4. Len(v) \in T
    <3> HIDE DEF T
    <3> QED  BY <1>1, <2>3
  <2> QED  BY <2>4
<1>5. Written(u, a, g) = Followed(y[Len(v)], n, a, g)
  <2>1. Len(u) \in 1..Len(u) /\ Len(u) - 1 = Len(v)
    BY <1>1
  <2> QED  BY <1>1, <1>3, <2>1 DEF Writes
<1> QED  BY <1>2, <1>4, <1>5 DEF u

LEMMA Regroup ==
    ASSUME NEW x \in Seq(Bytes), NEW y \in Seq(Bytes), NEW z \in Seq(Bytes),
           NEW u \in Seq(Bytes)
    PROVE  ((x \o y) \o z) \o u = x \o (y \o (z \o u))
<1> DEFINE p == x \o y
           q == z \o u
<1>1. p \in Seq(Bytes) /\ q \in Seq(Bytes)
  OBVIOUS
<1> HIDE DEF p, q
<1>2. (p \o z) \o u = p \o (z \o u)
  BY <1>1, ConcatAssociative
<1>3. (x \o y) \o q = x \o (y \o q)
  BY <1>1, ConcatAssociative
<1> QED  BY <1>2, <1>3 DEF p, q

LEMMA WrittenTail ==
    ASSUME NEW v \in Seq(Items), NEW n \in Items, NEW a \in Letters,
           NEW g \in Seq(Bytes), NEW r \in Seq(Bytes)
    PROVE  Written(Append(v, n), a, g) \o r
             = Written(v, a, g) \o (Figs(n, a) \o (g \o r))
<1> DEFINE W == Written(v, a, g)
           P == Figs(n, a)
<1>1. W \in Seq(Bytes) /\ P \in Seq(Bytes)
  BY WrittenType, FigsType
<1>2. Written(Append(v, n), a, g) = (W \o P) \o g
  BY WrittenAppend DEF Followed
<1> HIDE DEF W, P
<1>3. ((W \o P) \o g) \o r = W \o (P \o (g \o r))
  <2>1. \A y, z, u \in Seq(Bytes) : ((W \o y) \o z) \o u = W \o (y \o (z \o u))
    BY <1>1, Regroup
  <2>2. \A z, u \in Seq(Bytes) : ((W \o P) \o z) \o u = W \o (P \o (z \o u))
    BY <1>1, <2>1
  <2> QED  BY <2>2
<1> QED  BY <1>2, <1>3 DEF W, P

-----------------------------------------------------------------------------
(* What the decoding makes of what the device writes.                      *)

LEMMA DecodeType ==
    ASSUME NEW r \in Seq(Bytes)
    PROVE  Decode(r) \in Seq(Bytes)
<1>1. 1 \in 1..Len(r) + 1
  OBVIOUS
<1> QED  BY <1>1, DecodeRecursion

\* A character that nothing follows starts no pair.
LEMMA DecodeShort ==
    ASSUME NEW r \in Seq(Bytes), Len(r) <= 1
    PROVE  Decode(r) = <<>>
<1>1. PICK rest \in [1..Len(r) + 1 -> Seq(Bytes)] :
        Decodes(rest, r) /\ Decode(r) = rest[1]
  BY DecodeRecursion
<1>2. 1 \in 1..Len(r) + 1 /\ 1 >= Len(r)
  OBVIOUS
<1>3. rest[1] = <<>>
  BY <1>1, <1>2, Zenon DEF Decodes
<1> QED  BY <1>1, <1>3

LEMMA BecomesType ==
    ASSUME NEW n \in Items, NEW a \in Letters, NEW g \in Seq(Blanks),
           n < 256 \/ g # <<>>
    PROVE  Becomes(n, a, g) \in Bytes
<1>1. CASE n < 256
  BY <1>1 DEF Becomes, Items, Bytes
<1>2. CASE ~(n < 256)
  <2>1. n - 256 \in 0..15 /\ g[1] \in Blanks
    BY <1>2 DEF Items
  <2>2. Digit(n - 256, a) \in Bytes /\ g[1] \in Bytes
    BY <2>1, FiguresKept
  <2>3. byteArrayToByte(Digit(n - 256, a), g[1]) \in Bytes
    BY <2>2, ByteType
  <2> QED  BY <1>2, <2>3 DEF Becomes
<1> QED  BY <1>1, <1>2

\* An item is decoded to its byte: to the one that a pair of figures stands for,
\* or to what a figure and the blank behind it make.
LEMMA ItemDecoded ==
    ASSUME NEW n \in Items, NEW a \in Letters, NEW g \in Seq(Blanks),
           n < 256 \/ g # <<>>, NEW r \in Seq(Bytes)
    PROVE  Decode(Figs(n, a) \o (g \o r)) = <<Becomes(n, a, g)>> \o Decode(r)
<1>1. g \in Seq(Bytes) /\ g \o r \in Seq(Bytes)
  <2>1. g \in Seq(Bytes)
    BY FiguresKept
  <2> QED  BY <2>1
<1>2. CASE n < 256
  <2> DEFINE b1 == Digit(n \div 16, a)
             b2 == Digit(n % 16, a)
  <2>1. n \in 0..255 /\ n \div 16 \in 0..15 /\ n % 16 \in 0..15
    BY <1>2, TwoDigits DEF Items
  <2>2. b1 \in Bytes /\ b2 \in Bytes /\ b1 \notin Blanks
    BY <2>1, FiguresKept
  <2>3. byteArrayToByte(b1, b2) = n
    BY <2>1, DigitsDecoded DEF Letters
  <2>4. Figs(n, a) = <<b1, b2>> /\ Becomes(n, a, g) = n
    BY <1>2 DEF Figs, Becomes
  <2> HIDE DEF b1, b2
  <2>5. Decode(<<b1, b2>> \o (g \o r)) = <<byteArrayToByte(b1, b2)>> \o Decode(g \o r)
    BY <1>1, <2>2, DecodePair
  <2>6. Decode(g \o r) = Decode(r)
    BY DecodeBlanks
  <2> QED  BY <2>3, <2>4, <2>5, <2>6
<1>3. CASE ~(n < 256)
  <2> DEFINE c == Digit(n - 256, a)
             h == g[1]
             rest == Tail(g)
  <2>1. g # <<>> /\ n - 256 \in 0..15
    BY <1>3 DEF Items
  <2>2. h \in Blanks /\ rest \in Seq(Blanks) /\ g = <<h>> \o rest
    BY <2>1
  <2>3. c \in Bytes /\ h \in Bytes /\ c \notin Blanks /\ rest \in Seq(Bytes)
    <3>1. c \in Figures /\ c \notin Blanks
      BY <2>1, FiguresKept
    <3> HIDE DEF c, h, rest
    <3>2. Blanks \subseteq Bytes /\ Figures \subseteq Bytes
      BY FiguresKept
    <3>3. rest \in Seq(Bytes)
      BY <2>2, <3>2
    <3> QED  BY <2>2, <3>1, <3>2, <3>3
  <2>4. Figs(n, a) = <<c>> /\ Becomes(n, a, g) = byteArrayToByte(c, h)
    BY <1>3 DEF Figs, Becomes
  <2> HIDE DEF c, h, rest
  <2>5. <<c>> \o (g \o r) = <<c, h>> \o (rest \o r)
    <3> DEFINE x == <<c>>
               y == <<h>>
               z == rest \o r
    <3>1. /\ x \in Seq(Bytes) /\ y \in Seq(Bytes) /\ z \in Seq(Bytes)
          /\ x \o y = <<c, h>>
      <4>1. x \in Seq(Bytes) /\ y \in Seq(Bytes) /\ z \in Seq(Bytes)
        BY <2>3
      <4>2. Append(x, h) = <<c, h>>
        BY <2>3, AppendToOne
      <4> HIDE DEF x
      <4>3. Append(x, h) = x \o y
        BY <2>3, <4>1, AppendIsConcat
      <4> QED  BY <4>1, <4>2, <4>3
    <3>2. (y \o rest) \o r = y \o z
      BY <2>3, <3>1, ConcatAssociative
    <3>3. (x \o y) \o z = x \o (y \o z)
      BY <3>1, ConcatAssociative
    <3> HIDE DEF x, y, z
    <3>4. x \o (g \o r) = <<c, h>> \o z
      BY <2>2, <3>1, <3>2, <3>3 DEF y
    <3> QED  BY <3>4 DEF x, z
  <2>6. Decode(<<c, h>> \o (rest \o r)) = <<byteArrayToByte(c, h)>> \o Decode(rest \o r)
    <3>1. rest \o r \in Seq(Bytes)
      BY <2>3
    <3> QED  BY <2>3, <3>1, DecodePair
  <2>7. Decode(rest \o r) = Decode(r)
    BY <2>2, DecodeBlanks
  <2> QED  BY <2>4, <2>5, <2>6, <2>7
<1> QED  BY <1>2, <1>3

\* Figures stand alone only where a blank follows them.
Clear(v, g) == g = <<>> => \A k \in 1..Len(v) : v[k] < 256

LEMMA MeantAppend ==
    ASSUME NEW v \in Seq(Items), NEW n \in Items, NEW a \in Letters,
           NEW g \in Seq(Blanks), Clear(Append(v, n), g)
    PROVE  /\ Clear(v, g) /\ (n < 256 \/ g # <<>>)
           /\ Meant(Append(v, n), a, g) = Append(Meant(v, a, g), Becomes(n, a, g))
<1> DEFINE u == Append(v, n)
<1>1. /\ Len(u) = Len(v) + 1 /\ Len(v) \in Nat
      /\ u[Len(v) + 1] = n /\ \A k \in 1..Len(v) : u[k] = v[k]
  OBVIOUS
<1> HIDE DEF u
<1>2. g = <<>> => \A k \in 1..Len(v) + 1 : u[k] < 256
  BY <1>1 DEF Clear, u
<1>3. Clear(v, g) /\ (n < 256 \/ g # <<>>)
  BY <1>1, <1>2 DEF Clear
<1>4. \A k \in 1..Len(v) : Becomes(v[k], a, g) \in Bytes
  <2>1. ASSUME NEW k \in 1..Len(v) PROVE Becomes(v[k], a, g) \in Bytes
    <3>1. v[k] \in Items /\ (v[k] < 256 \/ g # <<>>)
      BY <1>3 DEF Clear
    <3> QED  BY <3>1, BecomesType
  <2> QED  BY <2>1
<1> DEFINE m == Meant(v, a, g)
<1>5. /\ m \in Seq(Bytes) /\ Len(m) = Len(v)
      /\ \A k \in 1..Len(v) : m[k] = Becomes(v[k], a, g)
  BY <1>1, <1>4 DEF Meant
<1>6. Becomes(n, a, g) \in Bytes
  BY <1>3, BecomesType
<1> HIDE DEF m
<1> DEFINE w == Append(m, Becomes(n, a, g))
<1>7. /\ w \in Seq(Bytes) /\ Len(w) = Len(v) + 1
      /\ w[Len(v) + 1] = Becomes(n, a, g)
      /\ \A k \in 1..Len(v) : w[k] = m[k]
  BY <1>5, <1>6
<1> HIDE DEF w
<1>8. \A k \in 1..Len(v) + 1 : w[k] = Becomes(u[k], a, g)
  BY <1>1, <1>5, <1>7
<1>9. w = [k \in 1..Len(v) + 1 |-> w[k]]
  BY <1>7
<1>10. Meant(u, a, g) = [k \in 1..Len(v) + 1 |-> Becomes(u[k], a, g)]
  BY <1>1 DEF Meant
<1>11. Meant(u, a, g) = w
  BY <1>8, <1>9, <1>10
<1> QED  BY <1>3, <1>11 DEF u, w, m

LEMMA MeantType ==
    ASSUME NEW v \in Seq(Items), NEW a \in Letters, NEW g \in Seq(Blanks),
           Clear(v, g)
    PROVE  Meant(v, a, g) \in Seq(Bytes) /\ Len(Meant(v, a, g)) = Len(v)
<1>1. ASSUME NEW k \in 1..Len(v) PROVE Becomes(v[k], a, g) \in Bytes
  <2>1. v[k] \in Items /\ (v[k] < 256 \/ g # <<>>)
    BY DEF Clear
  <2> QED  BY <2>1, BecomesType
<1>2. Len(v) \in Nat
  OBVIOUS
<1> QED  BY <1>1, <1>2 DEF Meant

\* sendObdRequest(): the items v, written with figures of either case and with
\* blanks g around them, come back as what is meant by them, whatever follows.
THEOREM WrittenDecoded ==
    ASSUME NEW v \in Seq(Items), NEW a \in Letters, NEW g \in Seq(Blanks),
           Clear(v, g), NEW s \in Seq(Bytes)
    PROVE  Decode(Written(v, a, g) \o s) = Meant(v, a, g) \o Decode(s)
<1> DEFINE T == {u \in Seq(Items) : Clear(u, g) =>
                   \A r \in Seq(Bytes) :
                     Decode(Written(u, a, g) \o r) = Meant(u, a, g) \o Decode(r)}
<1>1. g \in Seq(Bytes)
  BY FiguresKept
<1>2. \A r \in Seq(Bytes) : Decode(r) \in Seq(Bytes)
  BY DecodeType
<1>3. \A x, y, z \in Seq(Bytes) : (x \o y) \o z = x \o (y \o z)
  BY ConcatAssociative
<1>4. <<>> \in T
  <2>1. ASSUME NEW r \in Seq(Bytes)
        PROVE  Decode(Written(<<>>, a, g) \o r) = Meant(<<>>, a, g) \o Decode(r)
    <3>1. Meant(<<>>, a, g) = <<>>
      <4>1. <<>> \in Seq(Items) /\ Len(<<>>) = 0 /\ Clear(<<>>, g)
        BY EmptySeq DEF Clear
      <4>2. Meant(<<>>, a, g) \in Seq(Bytes) /\ Len(Meant(<<>>, a, g)) = 0
        BY <4>1, MeantType
      <4> QED  BY <4>2, EmptySeq
    <3>2. <<>> \o Decode(r) = Decode(r)
      BY <1>2, ConcatEmptySeq
    <3> QED  BY <1>1, <3>1, <3>2, WrittenEmpty, DecodeBlanks
  <2> QED  BY <2>1, EmptySeq
<1>5. ASSUME NEW u \in Seq(Items), NEW n \in Items, u \in T
      PROVE  Append(u, n) \in T
  <2>1. ASSUME NEW r \in Seq(Bytes), Clear(Append(u, n), g)
        PROVE  Decode(Written(Append(u, n), a, g) \o r)
                 = Meant(Append(u, n), a, g) \o Decode(r)
    <3> DEFINE W == Written(u, a, g)
               P == Figs(n, a)
               M == Meant(u, a, g)
               b == Becomes(n, a, g)
    <3>1. /\ Clear(u, g) /\ (n < 256 \/ g # <<>>)
          /\ Meant(Append(u, n), a, g) = Append(M, b)
      BY <2>1, MeantAppend
    <3>2. /\ W \in Seq(Bytes) /\ P \in Seq(Bytes) /\ g \o r \in Seq(Bytes)
          /\ M \in Seq(Bytes) /\ b \in Bytes
      BY <1>1, <3>1, WrittenType, FigsType, MeantType, BecomesType
    <3>3. Written(Append(u, n), a, g) \o r = W \o (P \o (g \o r))
      <4>1. \A h, q \in Seq(Bytes) :
              Written(Append(u, n), a, h) \o q
                = Written(u, a, h) \o (Figs(n, a) \o (h \o q))
        BY WrittenTail
      <4> QED  BY <1>1, <4>1
    <3>4. Decode(P \o (g \o r)) = <<b>> \o Decode(r)
      BY <3>1, ItemDecoded
    <3>5. Decode(W \o (P \o (g \o r))) = M \o Decode(P \o (g \o r))
      <4>1. P \o (g \o r) \in Seq(Bytes)
        BY <3>2
      <4>2. \A q \in Seq(Bytes) : Decode(W \o q) = M \o Decode(q)
        BY <1>5, <3>1
      <4> HIDE DEF P, W, M
      <4> QED  BY <4>1, <4>2
    <3> HIDE DEF W, P, M, b
    <3>6. M \o (<<b>> \o Decode(r)) = Append(M, b) \o Decode(r)
      <4>1. Append(M, b) = M \o <<b>> /\ <<b>> \in Seq(Bytes)
        BY <3>2, AppendIsConcat
      <4>2. Decode(r) \in Seq(Bytes)
        BY <1>2
      <4>3. (M \o <<b>>) \o Decode(r) = M \o (<<b>> \o Decode(r))
        <5> DEFINE q == <<b>>
                   d == Decode(r)
        <5>1. M \in Seq(Bytes) /\ q \in Seq(Bytes) /\ d \in Seq(Bytes)
          BY <3>2, <4>1, <4>2
        <5> HIDE DEF q, d
        <5>2. (M \o q) \o d = M \o (q \o d)
          BY <1>3, <5>1, Zenon
        <5> QED  BY <5>2 DEF q, d
      <4> QED  BY <4>1, <4>3
    <3> QED  BY <3>1, <3>3, <3>4, <3>5, <3>6
  <2>2. Append(u, n) \in Seq(Items)
    OBVIOUS
  <2> QED  BY <2>1, <2>2, Zenon
<1>6. Seq(Items) \subseteq T
  <2> HIDE DEF T
  <2> QED  BY <1>4, <1>5, SeqInduction
<1> QED  BY <1>6

-----------------------------------------------------------------------------
(* The text of an answer.                                                  *)

LEMMA WrittenFigures ==
    ASSUME NEW v \in Seq(Items), NEW a \in Letters, NEW g \in Seq(Blanks)
    PROVE  Written(v, a, g) \in Seq(Figures)
<1> DEFINE T == {u \in Seq(Items) : Written(u, a, g) \in Seq(Figures)}
<1>1. g \in Seq(Bytes) /\ g \in Seq(Figures)
  <2>1. Blanks \subseteq Bytes /\ Blanks \subseteq Figures
    BY FiguresKept
  <2> QED  BY <2>1
<1>2. <<>> \in T
  <2>1. Written(<<>>, a, g) = g
    BY <1>1, WrittenEmpty
  <2> QED  BY <1>1, <2>1, EmptySeq
<1>3. ASSUME NEW u \in Seq(Items), NEW n \in Items, u \in T
      PROVE  Append(u, n) \in T
  <2> DEFINE W == Written(u, a, g)
             P == Figs(n, a)
  <2>1. Written(Append(u, n), a, g) = (W \o P) \o g
    <3>1. \A h \in Seq(Bytes) : Written(Append(u, n), a, h)
                                 = (Written(u, a, h) \o Figs(n, a)) \o h
      BY WrittenAppend DEF Followed
    <3> QED  BY <1>1, <3>1
  <2>2. P \in Seq(Figures) /\ W \in Seq(Figures)
    BY <1>3, FigsType
  <2> HIDE DEF W, P
  <2>3. (W \o P) \o g \in Seq(Figures)
    BY <1>1, <2>2, ConcatThree
  <2>4. Append(u, n) \in Seq(Items)
    OBVIOUS
  <2> QED  BY <2>1, <2>3, <2>4, Zenon
<1>4. Seq(Items) \subseteq T
  <2> HIDE DEF T
  <2> QED  BY <1>2, <1>3, SeqInduction
<1> QED  BY <1>4

\* "NO DATA" is found wherever it stands.
LEMMA NoDataFound ==
    ASSUME NEW W \in Seq(Figures), NEW g \in Seq(Blanks)
    PROVE  NoData((W \o <<78, 79, 32, 68, 65, 84, 65>>) \o g)
<1> DEFINE M == <<78, 79, 32, 68, 65, 84, 65>>
           Plain == Bytes \ {0}
           t == (W \o M) \o g
           N == Len(W)
<1>1. W \in Seq(Plain) /\ M \in Seq(Plain) /\ g \in Seq(Plain)
  <2>1. Figures \subseteq Plain /\ Blanks \subseteq Plain
    BY FiguresKept DEF Blanks, Bytes
  <2>2. 32 \in Plain /\ \A n \in 65..84 : n \in Plain
    BY DEF Bytes
  <2> HIDE DEF Plain
  <2> QED  BY <2>1, <2>2
<1>2. M[1] = 78 /\ M[2] = 79 /\ M[4] = 68 /\ M[5] = 65 /\ M[6] = 84
  OBVIOUS
<1>3. Len(M) = 7 /\ N \in Nat /\ Len(g) \in Nat
  OBVIOUS
<1> HIDE DEF M, Plain
<1>4. /\ t \in Seq(Plain) /\ Len(t) = N + Len(M) + Len(g)
      /\ \A i \in 1..N + Len(M) : t[i] = (W \o M)[i]
      /\ \A i \in 1..Len(M) : (W \o M)[N + i] = M[i]
  BY <1>1, ConcatThree
<1> HIDE DEF t
<1>5. ASSUME NEW i \in 1..7
      PROVE  \E k \in DOMAIN t : t[k] = M[i] /\ \A j \in 1..k : t[j] # 0
  <2>1. N + i \in 1..N + Len(M) /\ N + i \in 1..Len(t)
    <3>1. Len(t) = N + Len(M) + Len(g)
      BY <1>4
    <3> QED  BY <1>3, <3>1
  <2>2. t[N + i] = M[i]
    BY <1>3, <1>4, <2>1
  <2>3. \A j \in 1..N + i : t[j] # 0
    <3>1. \A j \in 1..Len(t) : t[j] \in Plain
      BY <1>4
    <3>2. \A j \in 1..N + i : j \in 1..Len(t)
      BY <2>1, <1>4, <1>3
    <3> QED  BY <3>1, <3>2 DEF Plain
  <2>4. N + i \in DOMAIN t
    BY <1>4, <2>1
  <2> QED  BY <2>2, <2>3, <2>4
<1>6. /\ 1 \in 1..7 /\ 2 \in 1..7 /\ 4 \in 1..7 /\ 5 \in 1..7 /\ 6 \in 1..7
  OBVIOUS
<1>7. ASSUME NEW c \in {78, 79, 68, 65, 84}
      PROVE  \E k \in DOMAIN t : t[k] = c /\ \A j \in 1..k : t[j] # 0
  <2>1. PICK i \in 1..7 : M[i] = c
    BY <1>2, <1>6
  <2>2. PICK k \in DOMAIN t : t[k] = M[i] /\ \A j \in 1..k : t[j] # 0
    BY <1>5
  <2> QED  BY <2>1, <2>2
<1>8. NoData(t)
  BY <1>7, Zenon DEF NoData
<1> QED  BY <1>8 DEF t, M

LEMMA FiguresAreData == ASSUME NEW W \in Seq(Figures) PROVE ~NoData(W)
<1>1. \A k \in DOMAIN W : W[k] # 78
  BY FiguresKept
<1> QED  BY <1>1 DEF NoData

\* What a reply may hold: all but the prompt.
Kept == 0..255 \ {Prompt}

LEMMA AnswerParts ==
    ASSUME NEW s \in Answers
    PROVE  /\ s.values \in Seq(Items) /\ s.letter \in Letters
           /\ s.gap \in Seq(Blanks) /\ Clear(s.values, s.gap)
           /\ s.odd \in Seq(Figures) /\ Len(s.odd) <= 1 /\ s.refused \in BOOLEAN
<1>1. /\ s.values \in Values /\ s.letter \in Letters /\ s.gap \in Gaps
      /\ s.odd \in {<<>>} \cup {<<Digit(n, 65)>> : n \in Lasts}
      /\ s.refused \in BOOLEAN
      /\ s.gap = <<>> => \A k \in DOMAIN s.values : s.values[k] < 256
  BY DEF Answers
<1>2. s.values \in Seq(Items) /\ s.gap \in Seq(Blanks)
  BY <1>1, RepliesAssumption
<1>3. Clear(s.values, s.gap)
  BY <1>1, <1>2 DEF Clear
<1>4. s.odd \in Seq(Figures) /\ Len(s.odd) <= 1
  <2>1. CASE s.odd = <<>>
    BY <2>1
  <2>2. ASSUME NEW n \in Lasts, s.odd = <<Digit(n, 65)>>
        PROVE  s.odd \in Seq(Figures) /\ Len(s.odd) <= 1
    <3>1. n \in 0..15 /\ 65 \in Letters
      BY RepliesAssumption DEF Letters
    <3>2. Digit(n, 65) \in Figures
      BY <3>1, FiguresKept
    <3> QED  BY <2>2, <3>2
  <2> QED  BY <1>1, <2>1, <2>2
<1> QED  BY <1>1, <1>2, <1>3, <1>4

\* A refusal is told from data, data are decoded to what they mean, and neither
\* has a prompt in it.
THEOREM AnswerRead ==
    ASSUME NEW s \in Answers
    PROVE  /\ Reply(s) \in Seq(Kept)
           /\ NoData(Reply(s)) <=> s.refused
           /\ ~s.refused => Decode(Reply(s)) = Meant(s.values, s.letter, s.gap)
<1> DEFINE W == Written(s.values, s.letter, s.gap)
           M == <<78, 79, 32, 68, 65, 84, 65>>
<1>1. /\ s.values \in Seq(Items) /\ s.letter \in Letters
      /\ s.gap \in Seq(Blanks) /\ Clear(s.values, s.gap)
      /\ s.odd \in Seq(Figures) /\ Len(s.odd) <= 1 /\ s.refused \in BOOLEAN
  BY AnswerParts
<1>2. W \in Seq(Figures)
  BY <1>1, WrittenFigures
<1>3. Figures \subseteq Kept /\ Blanks \subseteq Figures /\ Kept \subseteq Bytes
  BY FiguresKept DEF Kept, Bytes
<1>4. M \in Seq(Kept)
  <2>1. 32 \in Kept /\ \A n \in 65..84 : n \in Kept
    BY DEF Kept, Prompt
  <2> HIDE DEF Kept
  <2> QED  BY <2>1
<1> HIDE DEF M
<1>5. W \in Seq(Kept) /\ s.gap \in Seq(Kept) /\ s.odd \in Seq(Kept)
  <2>1. W \in Seq(Kept)
    BY <1>2, <1>3
  <2>2. s.gap \in Seq(Kept)
    BY <1>1, <1>3
  <2>3. s.odd \in Seq(Kept)
    BY <1>1, <1>3
  <2> QED  BY <2>1, <2>2, <2>3
<1>6. CASE s.refused
  <2>1. Reply(s) = W \o (M \o s.gap)
    BY <1>6 DEF Reply, M
  <2> DEFINE g == s.gap
  <2>2. g \in Seq(Kept) /\ g \in Seq(Blanks)
    BY <1>1, <1>5
  <2> HIDE DEF W, g
  <2>3. (W \o M) \o g = W \o (M \o g)
    <3>1. W \in Seq(Kept) /\ M \in Seq(Kept) /\ g \in Seq(Kept)
      BY <1>4, <1>5, <2>2
    <3>2. \A x, y, z \in Seq(Kept) : (x \o y) \o z = x \o (y \o z)
      BY ConcatAssociative
    <3> QED  BY <3>1, <3>2, Zenon
  <2>4. (W \o M) \o g \in Seq(Kept)
    BY <1>4, <1>5, <2>2, ConcatThree
  <2>5. NoData((W \o M) \o g)
    BY <1>2, <2>2, NoDataFound DEF M
  <2> QED  BY <1>6, <2>1, <2>3, <2>4, <2>5 DEF g
<1>7. CASE ~s.refused
  <2> DEFINE o == s.odd
  <2>1. Reply(s) = W \o o
    BY <1>7 DEF Reply
  <2>2. o \in Seq(Figures) /\ o \in Seq(Kept) /\ Len(o) <= 1
    BY <1>1, <1>5
  <2>3. o \in Seq(Bytes)
    BY <1>3, <2>2
  <2>4. Decode(o) = <<>>
    BY <2>2, <2>3, DecodeShort
  <2>5. Decode(W \o o) = Meant(s.values, s.letter, s.gap) \o Decode(o)
    BY <1>1, <2>3, WrittenDecoded
  <2>6. Meant(s.values, s.letter, s.gap) \o <<>> = Meant(s.values, s.letter, s.gap)
    BY <1>1, MeantType, ConcatEmptySeq
  <2> HIDE DEF W, o
  <2>7. W \o o \in Seq(Figures) /\ W \o o \in Seq(Kept)
    BY <1>2, <1>5, <2>2
  <2>8. ~NoData(W \o o)
    BY <2>7, FiguresAreData
  <2> QED  BY <1>7, <2>1, <2>4, <2>5, <2>6, <2>7, <2>8
<1> QED  BY <1>1, <1>6, <1>7

-----------------------------------------------------------------------------
(* The request.                                                            *)

\* What is left on the line ends with its only prompt, and completes totalReply.
ReadInv ==
    /\ phase = "reading" =>
         /\ total \o Only(Kept, line) = Reply(said) /\ line # <<>>
         /\ \A k \in 1..Len(line) : line[k] = Prompt <=> k = Len(line)
    /\ phase = "read" => total = Reply(said)

RepliesInv == RepliesTypeOK /\ ReadInv /\ RepliesDecoded

LEMMA RepliesStart == RepliesInit => RepliesInv
<1> SUFFICES ASSUME RepliesInit PROVE RepliesInv
  OBVIOUS
<1>1. <<>> \in Seq(Bytes)
  BY EmptySeq
<1> QED  BY <1>1 DEF RepliesInit, RepliesInv, RepliesTypeOK, ReadInv,
                     RepliesDecoded, Failed

LEMMA AskStep ==
    ASSUME RepliesInv, NEW c \in Functions, NEW s \in Answers, Ask(c, s)
    PROVE  RepliesInv'
<1> DEFINE W == Reply(s)
           P == <<Prompt>>
<1>1. /\ phase' = "reading" /\ call' = c /\ said' = s
      /\ line' = W \o P /\ total' = <<>> /\ UNCHANGED <<m_lastError, result>>
  BY DEF Ask
<1>2. W \in Seq(Kept) /\ W \in Seq(Bytes)
  <2>1. W \in Seq(Kept) /\ Kept \subseteq Bytes
    BY AnswerRead DEF Kept, Bytes
  <2> HIDE DEF W
  <2> QED  BY <2>1
<1>3. Prompt \in Bytes /\ Prompt \notin Kept
  BY DEF Prompt, Bytes, Kept
<1> HIDE DEF W
<1>4. W \o P = Append(W, Prompt)
  BY <1>2, <1>3, AppendIsConcat
<1> HIDE DEF P
<1>5. /\ line' \in Seq(Bytes) /\ line' # <<>> /\ Len(line') = Len(W) + 1
      /\ \A k \in 1..Len(line') : line'[k] = Prompt <=> k = Len(line')
  <2> DEFINE t == Append(W, Prompt)
  <2>1. /\ t \in Seq(Bytes) /\ Len(t) = Len(W) + 1 /\ Len(W) \in Nat
        /\ t[Len(W) + 1] = Prompt /\ \A k \in 1..Len(W) : t[k] = W[k]
    BY <1>2, <1>3
  <2>2. \A k \in 1..Len(W) : W[k] # Prompt
    BY <1>2, <1>3
  <2>3. line' = t
    BY <1>1, <1>4
  <2> HIDE DEF t
  <2>4. \A k \in 1..Len(t) : t[k] = Prompt <=> k = Len(t)
    BY <2>1, <2>2
  <2>5. t # <<>>
    BY <2>1
  <2> QED  BY <2>1, <2>3, <2>4, <2>5
<1>6. Only(Kept, line') = W
  <2>1. Only(Kept, Append(W, Prompt)) = Only(Kept, W)
    BY <1>2, <1>3, OnlyAppend
  <2>2. Only(Kept, W) = W
    BY <1>2, OnlyAll
  <2> QED  BY <1>1, <1>4, <2>1, <2>2
<1>7. <<>> \o W = W /\ <<>> \in Seq(Bytes)
  BY <1>2, ConcatEmptySeq, EmptySeq
<1>8. ReadInv'
  BY <1>1, <1>5, <1>6, <1>7 DEF ReadInv, W
<1>9. RepliesTypeOK'
  BY <1>1, <1>5, <1>7 DEF RepliesInv, RepliesTypeOK
<1> QED  BY <1>1, <1>8, <1>9 DEF RepliesInv, RepliesDecoded

\* The two parts of a sequence that is cut.
LEMMA CutParts ==
    ASSUME NEW S, NEW s \in Seq(S), NEW n \in 1..Len(s)
    PROVE  /\ SubSeq(s, 1, n) \in Seq(S) /\ Len(SubSeq(s, 1, n)) = n
           /\ \A k \in 1..n : SubSeq(s, 1, n)[k] = s[k]
           /\ SubSeq(s, n + 1, Len(s)) \in Seq(S)
           /\ Len(SubSeq(s, n + 1, Len(s))) = Len(s) - n
           /\ \A k \in 1..Len(s) - n : SubSeq(s, n + 1, Len(s))[k] = s[n + k]
<1> DEFINE x == SubSeq(s, 1, n)
           y == SubSeq(s, n + 1, Len(s))
<1>1. Len(s) \in Nat /\ n \in Nat /\ n <= Len(s) /\ \A k \in 1..Len(s) : s[k] \in S
  OBVIOUS
<1>2. /\ x \in Seq(S) /\ Len(x) = IF 1 <= n THEN n - 1 + 1 ELSE 0
      /\ \A k \in 1..n - 1 + 1 : x[k] = s[1 + k - 1]
  BY <1>1, SubSeqProperties
<1>3. /\ y \in Seq(S)
      /\ Len(y) = IF n + 1 <= Len(s) THEN Len(s) - (n + 1) + 1 ELSE 0
      /\ \A k \in 1..Len(s) - (n + 1) + 1 : y[k] = s[n + 1 + k - 1]
  BY <1>1, SubSeqProperties
<1> HIDE DEF x, y
<1>4. Len(x) = n /\ n - 1 + 1 = n /\ \A k \in 1..n : 1 + k - 1 = k
  BY <1>1, <1>2
<1>5. /\ Len(y) = Len(s) - n /\ Len(s) - (n + 1) + 1 = Len(s) - n
      /\ \A k \in 1..Len(s) - n : n + 1 + k - 1 = n + k
  BY <1>1, <1>3
<1>6. \A k \in 1..n : x[k] = s[k]
  BY <1>2, <1>4
<1>7. \A k \in 1..Len(s) - n : y[k] = s[n + k]
  BY <1>3, <1>5
<1> QED  BY <1>2, <1>3, <1>4, <1>5, <1>6, <1>7 DEF x, y

\* Wherever the line is cut, what was read and what is left make the answer.
LEMMA ReadChunkStep ==
    ASSUME RepliesInv, NEW n \in 1..Len(line), ReadChunk(n)
    PROVE  RepliesInv'
<1> DEFINE N == Len(line)
           x == SubSeq(line, 1, n)
           y == SubSeq(line, n + 1, N)
<1>1. /\ phase = "reading"
      /\ total' = total \o Only(Kept, x)
      /\ phase' = IF Has(x) THEN "read" ELSE "reading"
      /\ line' = y /\ UNCHANGED <<call, said, m_lastError, result>>
  BY DEF ReadChunk, Kept
<1>2. /\ line \in Seq(Bytes) /\ total \in Seq(Bytes) /\ N \in Nat
      /\ total \o Only(Kept, line) = Reply(said)
      /\ \A k \in 1..N : line[k] = Prompt <=> k = N
  BY <1>1 DEF RepliesInv, RepliesTypeOK, ReadInv
<1>3. /\ x \in Seq(Bytes) /\ Len(x) = n /\ \A k \in 1..n : x[k] = line[k]
      /\ y \in Seq(Bytes) /\ Len(y) = N - n
      /\ \A k \in 1..N - n : y[k] = line[n + k]
  BY <1>2, CutParts
<1>4. x \o y = line
  <2>1. 1 \in 1..N + 1 /\ n \in 1 - 1..N /\ N \in n..N
    BY <1>2
  <2>2. SubSeq(line, 1, N) = line
    BY <1>2, SubSeqFull
  <2> QED  BY <1>2, <2>1, <2>2, ConcatAdjacentSubSeq, Zenon
<1> HIDE DEF x, y, N
<1> DEFINE p == Only(Kept, x)
           q == Only(Kept, y)
<1>5. p \in Seq(Bytes) /\ q \in Seq(Bytes)
  BY <1>3, OnlyType
<1>6. Only(Kept, line) = p \o q
  BY <1>3, <1>4, OnlyConcat
<1> HIDE DEF p, q
<1>7. (total \o p) \o q = Reply(said)
  <2>1. \A u, v, w \in Seq(Bytes) : (u \o v) \o w = u \o (v \o w)
    BY ConcatAssociative
  <2>2. total \in Seq(Bytes)
    BY <1>2
  <2>3. (total \o p) \o q = total \o (p \o q)
    BY <1>5, <2>1, <2>2, Zenon
  <2> QED  BY <1>2, <1>6, <2>3
<1>8. Has(x) <=> n = N
  <2>1. n \in 1..N
    BY DEF N
  <2>2. Has(x) <=> \E k \in 1..n : x[k] = Prompt
    <3>1. DOMAIN x = 1..n
      BY <1>3
    <3> QED  BY <3>1 DEF Has
  <2>3. ASSUME n = N PROVE \E k \in 1..n : x[k] = Prompt
    <3>1. n \in 1..n /\ x[n] = line[n] /\ line[n] = Prompt
      BY <1>2, <1>3, <2>1, <2>3
    <3> QED  BY <3>1
  <2>4. ASSUME NEW k \in 1..n, x[k] = Prompt PROVE n = N
    <3>1. k \in 1..N /\ line[k] = Prompt
      BY <1>2, <1>3, <2>1, <2>4
    <3>2. k = N
      BY <1>2, <3>1
    <3> QED  BY <1>2, <2>1, <3>2
  <2> QED  BY <2>2, <2>3, <2>4
<1>9. total' \in Seq(Bytes) /\ line' \in Seq(Bytes)
  <2>1. total \in Seq(Bytes) /\ total' = total \o p
    BY <1>1, <1>2 DEF p
  <2>2. total' \in Seq(Bytes)
    BY <1>5, <2>1
  <2> QED  BY <1>1, <1>3, <2>2
<1>10. RepliesTypeOK'
  BY <1>1, <1>9 DEF RepliesInv, RepliesTypeOK
<1>11. CASE n = N
  <2>1. y = <<>>
    BY <1>2, <1>3, <1>11
  <2>2. q = <<>>
    BY <2>1, OnlyEmpty DEF q
  <2>3. total' = Reply(said')
    <3>1. total' \in Seq(Bytes) /\ total' = total \o p
      BY <1>1, <1>9 DEF p
    <3>2. total' \o <<>> = total'
      BY <3>1, ConcatEmptySeq
    <3> QED  BY <1>1, <1>7, <2>2, <3>1, <3>2
  <2>4. phase' = "read"
    BY <1>1, <1>8, <1>11
  <2> QED  BY <1>10, <2>3, <2>4 DEF RepliesInv, ReadInv, RepliesDecoded
<1>12. CASE n # N
  <2>1. phase' = "reading"
    BY <1>1, <1>8, <1>12
  <2>2. /\ n \in 1..N /\ N - n \in Nat /\ N - n > 0
    BY <1>2, <1>12 DEF N
  <2>3. line' # <<>>
    <3>1. Len(y) > 0
      BY <1>3, <2>2
    <3> QED  BY <1>1, <3>1
  <2>4. \A k \in 1..Len(y) : y[k] = Prompt <=> k = Len(y)
    <3>1. ASSUME NEW k \in 1..N - n PROVE y[k] = Prompt <=> k = N - n
      <4>1. n + k \in 1..N /\ (n + k = N <=> k = N - n)
        BY <1>2, <2>2
      <4>2. y[k] = line[n + k] /\ (line[n + k] = Prompt <=> n + k = N)
        BY <1>2, <1>3, <4>1
      <4> QED  BY <4>1, <4>2
    <3> QED  BY <1>3, <3>1
  <2>5. total' \o Only(Kept, line') = Reply(said')
    BY <1>1, <1>7 DEF p, q
  <2> QED  BY <1>1, <1>10, <2>1, <2>3, <2>4, <2>5
             DEF RepliesInv, ReadInv, RepliesDecoded
<1> QED  BY <1>11, <1>12

LEMMA RefusalType ==
    ASSUME NEW e \in {NODATA, SERIALREADERROR, TIMEOUT, NONE}
    PROVE  Refusal(e) \in [ok : BOOLEAN, reply : Seq(Bytes)] /\ ~Refusal(e).ok
<1>1. e \in Bytes /\ 255 \in Bytes /\ 1 \in Bytes
  BY DEF NODATA, SERIALREADERROR, TIMEOUT, NONE, Bytes
<1>2. <<255, 1, e>> \in Seq(Bytes)
  BY <1>1
<1> QED  BY <1>2 DEF Refusal

LEMMA ReadFailsStep ==
    ASSUME RepliesInv, NEW e \in {SERIALREADERROR, TIMEOUT}, ReadFails(e)
    PROVE  RepliesInv'
<1>1. /\ phase' = "failed" /\ m_lastError' = e
      /\ result' \in {Refusal(e), Failed} /\ phase # "idle"
      /\ UNCHANGED <<call, said, line, total>>
  BY DEF ReadFails
<1>2. Failed \in [ok : BOOLEAN, reply : Seq(Bytes)]
  BY EmptySeq DEF Failed
<1>3. Refusal(e) \in [ok : BOOLEAN, reply : Seq(Bytes)]
  BY RefusalType
<1>4. RepliesTypeOK'
  BY <1>1, <1>2, <1>3 DEF RepliesInv, RepliesTypeOK
<1> QED  BY <1>1, <1>4 DEF RepliesInv, ReadInv, RepliesDecoded

LEMMA LeaveStep == ASSUME RepliesInv, Leave PROVE RepliesInv'
<1>1. <<>> \in Seq(Bytes)
  BY EmptySeq
<1> QED  BY <1>1 DEF Leave, RepliesInv, RepliesTypeOK, ReadInv, RepliesDecoded,
                     Failed

\* What the three functions make of the text of an answer.
LEMMA BytesGiven ==
    ASSUME NEW r \in Seq(Bytes)
    PROVE  /\ sendObdRequest(r) \in [ok : BOOLEAN, reply : Seq(Bytes)]
           /\ sendObdRequest(r).ok <=> ~NoData(r) /\ r # <<>>
           /\ sendObdRequest(r).ok => sendObdRequest(r).reply = Decode(r)
           /\ r = <<>> => sendObdRequest(r) = Failed
<1>1. Decode(r) \in Seq(Bytes) /\ <<>> \in Seq(Bytes)
  BY DecodeType, EmptySeq
<1> QED  BY <1>1 DEF sendObdRequest, Failed

LEMMA BytesCopied ==
    ASSUME NEW r \in Seq(Bytes), NEW n \in Nat
    PROVE  LET c == obdLibSendObdRequest(r, n) IN
             /\ c \in [ok : BOOLEAN, reply : Seq(Bytes)]
             /\ c.ok <=> ~NoData(r) /\ r # <<>> /\ Len(Decode(r)) <= n
             /\ c.ok => SubSeq(c.reply, 1, Len(Decode(r))) = Decode(r)
<1> DEFINE s == sendObdRequest(r)
           d == Decode(r)
           c == obdLibSendObdRequest(r, n)
<1>1. /\ s.ok \in BOOLEAN /\ (s.ok <=> ~NoData(r) /\ r # <<>>)
      /\ s.ok => s.reply = d
  BY BytesGiven
<1>2. d \in Seq(Bytes) /\ Len(d) \in Nat
  BY DecodeType
<1>3. c = IF ~s.ok \/ Len(s.reply) > n THEN [ok |-> FALSE, reply |-> <<>>]
          ELSE [ok |-> TRUE, reply |-> s.reply \o <<46>>]
  BY DEF obdLibSendObdRequest
<1> HIDE DEF s, d, c
<1>4. CASE s.ok /\ Len(d) <= n
  <2>1. ~(Len(s.reply) > n) /\ s.reply = d
    BY <1>1, <1>2, <1>4
  <2>2. c = [ok |-> TRUE, reply |-> d \o <<46>>]
    BY <1>3, <1>4, <2>1
  <2>3. d \o <<46>> = Append(d, 46) /\ 46 \in Bytes
    <3>1. 46 \in Bytes
      BY DEF Bytes
    <3> QED  BY <1>2, <3>1, AppendIsConcat
  <2>4. Append(d, 46) \in Seq(Bytes) /\ SubSeq(Append(d, 46), 1, Len(d)) = d
    BY <1>2, <2>3, AppendTaken
  <2> QED  BY <1>1, <1>4, <2>2, <2>3, <2>4 DEF c, d
<1>5. CASE ~(s.ok /\ Len(d) <= n)
  <2>1. ~s.ok \/ Len(s.reply) > n
    BY <1>1, <1>2, <1>5
  <2>2. c = [ok |-> FALSE, reply |-> <<>>]
    BY <1>3, <2>1
  <2>3. <<>> \in Seq(Bytes)
    BY EmptySeq
  <2> QED  BY <1>1, <1>5, <2>2, <2>3 DEF c, d
<1> QED  BY <1>4, <1>5

LEMMA TextCopied ==
    ASSUME NEW r \in Seq(Bytes), NEW n \in Nat,
           NEW e \in {NODATA, SERIALREADERROR, TIMEOUT, NONE}
    PROVE  LET c == obdLibSendObdRequestString(r, n, e) IN
             /\ c \in [ok : BOOLEAN, reply : Seq(Bytes)]
             /\ c.ok <=> ~NoData(r) /\ Len(r) <= n
             /\ c.ok /\ r # <<>> => c.reply = r
<1> DEFINE c == obdLibSendObdRequestString(r, n, e)
<1>1. Len(r) \in Nat /\ (Len(r) > n <=> ~(Len(r) <= n))
  OBVIOUS
<1>2. CASE NoData(r)
  <2>1. c = Refusal(e)
    BY <1>2 DEF obdLibSendObdRequestString
  <2> HIDE DEF c
  <2> QED  BY <1>2, <2>1, RefusalType DEF c
<1>3. CASE ~NoData(r) /\ Len(r) > n
  <2>1. c = [ok |-> FALSE, reply |-> <<255, 2>>]
    BY <1>3 DEF obdLibSendObdRequestString
  <2>2. <<255, 2>> \in Seq(Bytes)
    BY DEF Bytes
  <2> HIDE DEF c
  <2> QED  BY <1>1, <1>3, <2>1, <2>2 DEF c
<1>4. CASE ~NoData(r) /\ Len(r) <= n
  <2>1. c = [ok |-> TRUE, reply |-> IF r = <<>> THEN <<e>> ELSE r]
    BY <1>1, <1>4 DEF obdLibSendObdRequestString
  <2>2. <<e>> \in Seq(Bytes)
    BY DEF NODATA, SERIALREADERROR, TIMEOUT, NONE, Bytes
  <2> HIDE DEF c
  <2> QED  BY <1>4, <2>1, <2>2 DEF c
<1> QED  BY <1>1, <1>2, <1>3, <1>4

LEMMA ReturnStep == ASSUME RepliesInv, Return PROVE RepliesInv'
<1> DEFINE s == said
           v == Meant(s.values, s.letter, s.gap)
           n == call.size
<1>1. /\ phase = "read" /\ phase' = "done"
      /\ m_lastError' = IF NoData(total) THEN NODATA ELSE m_lastError
      /\ UNCHANGED <<call, said, line, total>>
  BY DEF Return
<1>2. /\ call \in Functions /\ s \in Answers /\ total \in Seq(Bytes)
      /\ total = Reply(s)
      /\ m_lastError \in {NODATA, SERIALREADERROR, TIMEOUT, NONE}
      /\ result \in [ok : BOOLEAN, reply : Seq(Bytes)]
  BY <1>1 DEF RepliesInv, RepliesTypeOK, ReadInv
<1>3. n \in Nat /\ call.of \in {"bytes", "C bytes", "C text"}
  BY <1>2, RepliesAssumption DEF Functions
<1>4. /\ NoData(total) <=> s.refused
      /\ ~s.refused => Decode(total) = v
      /\ s.refused \in BOOLEAN /\ v \in Seq(Bytes)
  BY <1>2, AnswerRead, AnswerParts, MeantType
<1>5. m_lastError' \in {NODATA, SERIALREADERROR, TIMEOUT, NONE}
  BY <1>1, <1>2
<1>6. result' = CASE call.of = "bytes"   -> sendObdRequest(total)
                  [] call.of = "C bytes" -> obdLibSendObdRequest(total, n)
                  [] call.of = "C text"  ->
                       obdLibSendObdRequestString(total, n, m_lastError')
  BY DEF Return
<1> DEFINE R == [ok : BOOLEAN, reply : Seq(Bytes)]
           w == result'
<1>7. /\ w \in R
      /\ s.refused => ~w.ok
      /\ ~s.refused =>
           /\ call.of = "bytes" => w = [ok |-> total # <<>>, reply |-> v]
           /\ call.of = "C bytes" =>
                /\ w.ok <=> total # <<>> /\ Len(v) <= n
                /\ w.ok => SubSeq(w.reply, 1, Len(v)) = v
           /\ call.of = "C text" =>
                /\ w.ok <=> Len(total) <= n
                /\ w.ok /\ total # <<>> => w.reply = total
  <2> HIDE DEF v, n, s
  <2>1. CASE call.of = "bytes"
    <3>1. w = sendObdRequest(total)
      BY <1>6, <2>1
    <3> HIDE DEF w
    <3>2. w \in R /\ (w.ok <=> ~NoData(total) /\ total # <<>>)
          /\ (w.ok => w.reply = Decode(total)) /\ (total = <<>> => w = Failed)
      BY <1>2, <3>1, BytesGiven
    <3>3. ~s.refused => w = [ok |-> total # <<>>, reply |-> v]
      <4>1. CASE ~s.refused /\ total # <<>>
        <5>1. w.ok = TRUE /\ w.reply = v
          BY <1>4, <3>2, <4>1
        <5> QED  BY <3>2, <4>1, <5>1
      <4>2. CASE ~s.refused /\ total = <<>>
        <5>1. v = <<>>
          <6>1. <<>> \in Seq(Bytes) /\ Len(<<>>) <= 1
            BY EmptySeq
          <6>2. Decode(<<>>) = <<>>
            BY <6>1, DecodeShort
          <6> QED  BY <1>4, <4>2, <6>2
        <5> QED  BY <3>2, <4>2, <5>1 DEF Failed
      <4> QED  BY <4>1, <4>2
    <3> QED  BY <1>4, <2>1, <3>2, <3>3
  <2>2. CASE call.of = "C bytes"
    <3>1. w = obdLibSendObdRequest(total, n)
      BY <1>6, <2>2
    <3> HIDE DEF w
    <3>2. /\ w \in R
          /\ w.ok <=> ~NoData(total) /\ total # <<>> /\ Len(Decode(total)) <= n
          /\ w.ok => SubSeq(w.reply, 1, Len(Decode(total))) = Decode(total)
      BY <1>2, <1>3, <3>1, BytesCopied
    <3> QED  BY <1>4, <2>2, <3>2
  <2>3. CASE call.of = "C text"
    <3>1. w = obdLibSendObdRequestString(total, n, m_lastError')
      BY <1>6, <2>3
    <3> DEFINE e == m_lastError'
    <3>2. e \in {NODATA, SERIALREADERROR, TIMEOUT, NONE}
      BY <1>5
    <3> HIDE DEF w, e
    <3>3. /\ w \in R
          /\ w.ok <=> ~NoData(total) /\ Len(total) <= n
          /\ w.ok /\ total # <<>> => w.reply = total
      BY <1>2, <1>3, <3>1, <3>2, TextCopied DEF e
    <3> QED  BY <1>4, <2>3, <3>3
  <2> QED  BY <1>3, <2>1, <2>2, <2>3
<1>8. RepliesTypeOK'
  BY <1>1, <1>2, <1>5, <1>7 DEF RepliesInv, RepliesTypeOK
<1>9. RepliesDecoded'
  <2>1. s.refused => m_lastError' = NODATA
    BY <1>1, <1>4
  <2> HIDE DEF v
  <2> QED  BY <1>1, <1>2, <1>7, <2>1 DEF RepliesDecoded, v
<1> QED  BY <1>1, <1>8, <1>9 DEF RepliesInv, ReadInv

LEMMA RepliesStep == RepliesInv /\ [RepliesNext]_repliesVars => RepliesInv'
<1>1. ASSUME RepliesInv, NEW n \in DOMAIN line, ReadChunk(n) PROVE RepliesInv'
  <2>1. n \in 1..Len(line)
    BY <1>1 DEF ReadChunk
  <2> QED  BY <1>1, <2>1, ReadChunkStep
<1>2. ASSUME RepliesInv, UNCHANGED repliesVars PROVE RepliesInv'
  BY <1>2 DEF repliesVars, RepliesInv, RepliesTypeOK, ReadInv, RepliesDecoded
<1> QED  BY <1>1, <1>2, AskStep, ReadFailsStep, ReturnStep, LeaveStep
            DEF RepliesNext

LEMMA RepliesInvariance == RepliesSpec => []RepliesInv
<1> QED  BY RepliesStart, RepliesStep, PTL DEF RepliesSpec

\* The caller of libObd2 gets bytes, whatever the device answers.
THEOREM RepliesTypeCorrect == RepliesSpec => []RepliesTypeOK
<1>1. RepliesInv => RepliesTypeOK
  BY DEF RepliesInv
<1> QED  BY <1>1, RepliesInvariance, PTL

\* sendObdRequest(), byteArrayToByte() and the C interface: whatever is
\* answered, in whatever pieces it is read and whatever the buffer, the caller
\* gets the bytes that were meant, a refusal, or the word that they do not fit.
THEOREM RepliesCorrect == RepliesSpec => []RepliesDecoded
<1>1. RepliesInv => RepliesDecoded
  BY DEF RepliesInv
<1> QED  BY <1>1, RepliesInvariance, PTL
=============================================================================
