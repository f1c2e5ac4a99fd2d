----------------------------- MODULE ObdDecode -----------------------------
(***************************************************************************)
(* What libObd2 makes of the bytes that an ELM327 answers: the prompt is   *)
(* taken out, a refusal is told from data, pairs of hexadecimal digits     *)
(* become bytes, and the C interface copies these into the caller's buffer.*)
(***************************************************************************)
EXTENDS Integers, Sequences

Blanks == {10, 13, 32}          \* '\n', '\r' and ' '
Prompt == 62                    \* '>'

\* The hexadecimal digits of a byte; the letters start at `a`, 65 or 97.
Digit(n, a) == IF n < 10 THEN 48 + n ELSE a + n - 10

-----------------------------------------------------------------------------
(* The reply, without its prompt.                                          *)

\* strspn("NODATA", totalReply) == 6: each of the letters occurs in the string,
\* which a zero ends.
NoData(reply) ==
    \A c \in {78, 79, 68, 65, 84} :
      \E k \in DOMAIN reply : reply[k] = c /\ \A j \in 1..k : reply[j] # 0

-----------------------------------------------------------------------------
(* The bytes.                                                              *)

\* What a character stands for, modulo 256: no digit is refused, and lower case
\* is what is neither a figure nor from 'A' to 'Z'.
Nibble(b) ==
    CASE b \in 48..57 -> b - 48
      [] b \in 65..90 -> b - 55
      [] OTHER        -> b - 87

\* The result is not cut to a byte.
byteArrayToInt(b1, b2) == Nibble(b1) * 16 + Nibble(b2)

byteArrayToByte(b1, b2) == (Nibble(b1) * 16 + Nibble(b2)) % 256

\* A carriage return is taken for a digit.
DecodeKeepsReturns(reply) ==
    LET rest[i \in 1..Len(reply) + 1] ==
          IF i >= Len(reply) THEN <<>>
          ELSE IF reply[i] \in Blanks \ {13} THEN rest[i + 1]
          ELSE <<byteArrayToByte(reply[i], reply[i + 1])>> \o rest[i + 2]
    IN rest[1]

\* The last character starts no pair; what follows a digit is taken with it,
\* whatever it is.
Decode(reply) ==
    LET rest[i \in 1..Len(reply) + 1] ==
          IF i >= Len(reply) THEN <<>>
          ELSE IF reply[i] \in Blanks THEN rest[i + 1]
          ELSE <<byteArrayToByte(reply[i], reply[i + 1])>> \o rest[i + 2]
    IN rest[1]

\* sendObdRequest: what it returns, and the bytes.
sendObdRequest(reply) ==
    IF NoData(reply) \/ reply = <<>> THEN [ok |-> FALSE, reply |-> <<>>]
    ELSE [ok |-> TRUE, reply |-> Decode(reply)]

-----------------------------------------------------------------------------
(* The C interface: what it returns and writes into reply[], from 0 on.    *)

\* The bytes and a '.' after them, for which there need not be room.
obdLibSendObdRequest(reply, replylength) ==
    LET r == sendObdRequest(reply) IN
      IF ~r.ok \/ Len(r.reply) > replylength THEN [ok |-> FALSE, reply |-> <<>>]
      ELSE [ok |-> TRUE, reply |-> r.reply \o <<46>>]

\* The text, or a code however small the buffer is; -1 and the last error, e,
\* are bytes here.
Refusal(e) == [ok |-> FALSE, reply |-> <<255, 1, e>>]

obdLibSendObdRequestString(reply, replylength, e) ==
    IF NoData(reply) THEN Refusal(e)
    ELSE IF Len(reply) > replylength THEN [ok |-> FALSE, reply |-> <<255, 2>>]
    ELSE [ok |-> TRUE, reply |-> IF reply = <<>> THEN <<e>> ELSE reply]

=============================================================================
