----------------------------- MODULE GPSLogger -----------------------------
(***************************************************************************)
(* GPSLogger::recievedDataCallback: the answers of the GPS module are cut  *)
(* out of the byte stream and pushed to the log.  A byte is one of Chars:  *)
(* the two letters of "OK", the two line ends, and any other.  The device  *)
(* sends whatever it likes, and one read hands over any piece of it.       *)
(***************************************************************************)
EXTENDS Naturals, SequencesExt, Filter

CONSTANTS
    SizeMod,        \* 2^w, w the width of size_t
    MaxBytes,       \* bound: bytes the device sends
    MaxChunk        \* bound: bytes of one read (the code's buffer holds 512)

ASSUME SizeAssumption ==
    /\ MaxBytes \in Nat /\ MaxChunk \in Nat
    /\ SizeMod \in Nat /\ SizeMod > MaxBytes + 2

Chars == {"O", "K", "CR", "LF", "x"}

VARIABLES
    response,       \* GPSLogger::response, what no record has taken yet
    log,            \* the records pushed, in order
    stream          \* history: everything received

vars == <<response, log, stream>>

Init == response = <<>> /\ log = <<>> /\ stream = <<>>

-----------------------------------------------------------------------------
(* replace_all(response, "\n", ""), then replace_all(response, "\r", "\n").*)

KeepReturns(s) == Only(Chars \ {"LF"}, s)
Normalise(s) ==
    LET t == Only(Chars \ {"LF"}, s)
    IN  [i \in 1..Len(t) |-> IF t[i] = "CR" THEN "LF" ELSE t[i]]

npos == SizeMod - 1

OKs(s) == {i \in 1..Len(s) - 1 : s[i] = "O" /\ s[i + 1] = "K"}

\* response.find("OK"), counting from 0.
FindLast(s) == IF OKs(s) = {} THEN npos ELSE Max(OKs(s)) - 1
Find(s)     == IF OKs(s) = {} THEN npos ELSE Min(OKs(s)) - 1

\* How much substr(0, pos + 2) and erase_head(response, pos + 2) take: pos is
\* unsigned, so that npos + 2 wraps round to 1, and neither goes past the end.
CutLate(s) == Min({(Find(s) + 3) % SizeMod, Len(s)})
Cut(s)     == Min({(Find(s) + 2) % SizeMod, Len(s)})

\* `pos >= 0` holds of every size_t: a record is pushed by every call, and the
\* branch that looks for "ERROR" is never taken.
LateErase(chunk) ==
    LET r == Normalise(response \o chunk)
    IN  /\ log' = Append(log, SubSeq(r, 1, Cut(r)))
        /\ response' = SubSeq(r, CutLate(r) + 1, Len(r))
        /\ stream' = stream \o chunk
recievedDataCallback(chunk) ==
    LET r == Normalise(response \o chunk)
    IN  /\ log' = Append(log, SubSeq(r, 1, Cut(r)))
        /\ response' = SubSeq(r, Cut(r) + 1, Len(r))
        /\ stream' = stream \o chunk

Chunks == UNION {[1..n -> Chars] : n \in 1..MaxChunk}

Next ==
    \E chunk \in Chunks :
        /\ Len(stream) + Len(chunk) <= MaxBytes
        /\ recievedDataCallback(chunk)

Spec == Init /\ [][Next]_vars

-----------------------------------------------------------------------------
(* Properties.                                                             *)

\* The buffer has been normalised: it holds no carriage return.
TypeOK ==
    /\ response \in Seq(Chars \ {"CR"})
    /\ log \in Seq(Seq(Chars \ {"CR"}))
    /\ stream \in Seq(Chars)

Text(s) == Only(Chars \ {"CR", "LF"}, s)

\* However the answers are cut up by the reads, and although a call that finds
\* no "OK" cuts one byte off, no byte of text is lost, doubled or moved.
NoTextLost == Text(FlattenSeq(log) \o response) = Text(stream)

\* A record never runs two answers together: what it holds of "OK" is its end.
OneAnswerPerRecord ==
    \A k \in 1..Len(log) : OKs(log[k]) \subseteq {Len(log[k]) - 1}

-----------------------------------------------------------------------------
(* What the comments say and the code does not keep.                       *)

\* "read Until OK or ERROR": what is pushed to the log is an answer up to OK.
ReadUntilOK == \A k \in 1..Len(log) : OKs(log[k]) # {}
=============================================================================
