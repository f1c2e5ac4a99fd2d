----------------------------- MODULE ObdReplies -----------------------------
(***************************************************************************)
(* A request to libObd2 from its reply's bytes on the line to those that   *)
(* the caller gets: sendObdRequestString reads the text in pieces and      *)
(* takes the prompt out, sendObdRequest decodes it, and the C interface    *)
(* copies bytes or text into the caller's buffer.                          *)
(*                                                                         *)
(* Each request finds its own reply and no other on the line: which        *)
(* answers are outstanding is the matter of LibObd2, beside which this     *)
(* module stands in the proofs: its names are its own.                     *)
(***************************************************************************)
EXTENDS ObdDecode, Filter

CONSTANTS
    Values,         \* what replies say, each a sequence of items
    Gaps,           \* the blanks before, between and after the items
    Lasts,          \* figures that nothing follows
    Sizes           \* replylength, the sizes of the caller's buffers

\* An item is a byte, or 256 + n for a figure n that stands alone.
Items == 0..271

ASSUME RepliesAssumption ==
    /\ Values \subseteq Seq(Items) /\ Gaps \subseteq Seq(Blanks)
    /\ Lasts \subseteq 0..15 /\ Sizes \subseteq Nat

VARIABLES
    phase,          \* where the request is
    call,           \* which function was called, and its replylength
    said,           \* what the device answers, and how it writes it
    line,           \* what has not been read yet
    total,          \* totalReply, its first `loc` bytes
    m_lastError,    \* the error of the last request that had one
    result          \* what the call returned and has written to the caller

repliesVars == <<phase, call, said, line, total, m_lastError, result>>

Letters == {65, 97}
NODATA == 0  SERIALREADERROR == 4  TIMEOUT == 5  NONE == 6

-----------------------------------------------------------------------------
(* What the device writes.                                                 *)

Figs(n, a) ==
    IF n < 256 THEN <<Digit(n \div 16, a), Digit(n % 16, a)>>
               ELSE <<Digit(n - 256, a)>>

\* The items v, the letters in the case of a, with g around each item.
Written(v, a, g) ==
    LET text[n \in 0..Len(v)] ==
          IF n = 0 THEN g ELSE text[n - 1] \o Figs(v[n], a) \o g
    IN text[Len(v)]

\* A refusal, or the items and perhaps a figure that nothing follows.
Reply(s) ==
    Written(s.values, s.letter, s.gap)
      \o IF s.refused THEN <<78, 79, 32, 68, 65, 84, 65>> \o s.gap ELSE s.odd

\* A figure that stands alone has a blank behind it.
Answers ==
    {s \in [values : Values, letter : Letters, gap : Gaps, refused : BOOLEAN,
            odd : {<<>>} \cup {<<Digit(n, 65)>> : n \in Lasts}] :
       s.gap = <<>> => \A k \in DOMAIN s.values : s.values[k] < 256}

-----------------------------------------------------------------------------
(* The request.                                                            *)

Functions == [of : {"bytes", "C bytes", "C text"}, size : Sizes]

NoCall   == [of |-> "none", size |-> 0]
NoAnswer == [values |-> <<>>, letter |-> 65, gap |-> <<>>, refused |-> FALSE,
             odd |-> <<>>]
Failed   == [ok |-> FALSE, reply |-> <<>>]

RepliesInit ==
    /\ phase = "idle" /\ call = NoCall /\ said = NoAnswer
    /\ line = <<>> /\ total = <<>> /\ m_lastError = NONE /\ result = Failed

\* What the device will answer is on the line when it is read.
Ask(c, s) ==
    /\ phase = "idle" /\ phase' = "reading"
    /\ call' = c /\ said' = s
    /\ line' = Reply(s) \o <<Prompt>> /\ total' = <<>>
    /\ UNCHANGED <<m_lastError, result>>

Has(chunk) == \E k \in DOMAIN chunk : chunk[k] = Prompt

\* A prompt anywhere in what read() brings ends the loop.
ReadChunk(n) ==
    /\ phase = "reading" /\ n \in 1..Len(line)
    /\ LET chunk == SubSeq(line, 1, n) IN
         /\ total' = total \o Only(0..255 \ {Prompt}, chunk)
         /\ phase' = IF Has(chunk) THEN "read" ELSE phase
    /\ line' = SubSeq(line, n + 1, Len(line))
    /\ UNCHANGED <<call, said, m_lastError, result>>

\* An error of read(), or the timeout, also when the prompt has come.
ReadFails(e) ==
    /\ phase = "reading" \/ (phase = "read" /\ e = TIMEOUT)
    /\ phase' = "failed" /\ m_lastError' = e
    /\ result' = IF call.of = "C text" THEN Refusal(e) ELSE Failed
    /\ UNCHANGED <<call, said, line, total>>

\* m_lastError is not reset by a request that succeeds.
Return ==
    /\ phase = "read" /\ phase' = "done"
    /\ m_lastError' = IF NoData(total) THEN NODATA ELSE m_lastError
    /\ result' = CASE call.of = "bytes"   -> sendObdRequest(total)
                   [] call.of = "C bytes" -> obdLibSendObdRequest(total, call.size)
                   [] call.of = "C text"  ->
                        obdLibSendObdRequestString(total, call.size, m_lastError')
    /\ UNCHANGED <<call, said, line, total>>

\* The caller is done with its result; the object keeps its error.
Leave ==
    /\ phase \in {"done", "failed"} /\ phase' = "idle"
    /\ call' = NoCall /\ said' = NoAnswer
    /\ line' = <<>> /\ total' = <<>> /\ result' = Failed
    /\ UNCHANGED m_lastError

RepliesNext ==
    \/ \E c \in Functions, s \in Answers : Ask(c, s)
    \/ \E n \in DOMAIN line : ReadChunk(n)
    \/ \E e \in {SERIALREADERROR, TIMEOUT} : ReadFails(e)
    \/ Return
    \/ Leave

RepliesSpec == RepliesInit /\ [][RepliesNext]_repliesVars

-----------------------------------------------------------------------------
(* Properties.                                                             *)

Bytes == 0..255

\* Every variable stays in range: the caller gets bytes.
RepliesTypeOK ==
    /\ phase \in {"idle", "reading", "read", "done", "failed"}
    /\ call \in Functions \cup {NoCall} /\ said \in Answers \cup {NoAnswer}
    /\ phase # "idle" => call \in Functions /\ said \in Answers
    /\ line \in Seq(Bytes) /\ total \in Seq(Bytes)
    /\ m_lastError \in {NODATA, SERIALREADERROR, TIMEOUT, NONE}
    /\ result \in [ok : BOOLEAN, reply : Seq(Bytes)]

\* The bytes of an answer: a figure that stands alone becomes one byte, with the
\* blank behind it taken for its second figure.
Becomes(n, a, g) ==
    IF n < 256 THEN n ELSE byteArrayToByte(Digit(n - 256, a), g[1])

Meant(v, a, g) == [k \in 1..Len(v) |-> Becomes(v[k], a, g)]

\* sendObdRequest(), byteArrayToByte() and the C interface: wherever the reads
\* cut it, "NO DATA" is told from data; each pair of digits, in either case and
\* whatever the blanks, becomes its byte; a figure that stands alone, with a
\* blank inside its pair, spoils only its own byte and the last one, without a
\* second figure, is dropped; the caller is told whether the buffer takes all.
RepliesDecoded ==
    phase = "done" =>
      LET v == Meant(said.values, said.letter, said.gap)
          text == Reply(said) IN
        IF said.refused THEN ~result.ok /\ m_lastError = NODATA
        ELSE /\ call.of = "bytes" =>
                  result = [ok |-> text # <<>>, reply |-> v]
             /\ call.of = "C bytes" =>
                  /\ result.ok <=> text # <<>> /\ Len(v) <= call.size
                  /\ result.ok => SubSeq(result.reply, 1, Len(v)) = v
             /\ call.of = "C text" =>
                  /\ result.ok <=> Len(text) <= call.size
                  /\ result.ok /\ text # <<>> => result.reply = text
=============================================================================
