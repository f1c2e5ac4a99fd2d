----------------------------- MODULE MCAnswers -----------------------------
(***************************************************************************)
(* The two places where answers of a device, cut up by the reads, become   *)
(* what the program wants of them: GPSLogger and ObdReplies.  They share   *)
(* no variable, so that it is enough to let each run while the other       *)
(* stands still.                                                           *)
(***************************************************************************)
EXTENDS GPSLogger, ObdReplies

\* Two bytes and a figure that stands alone, the 0, which with a blank behind it
\* falls below the range of a byte; a figure at the end.
MCItems  == {26, 160, 256}
MCValues == UNION {[1..n -> MCItems] : n \in 0..2}
MCGaps   == {<<>>, <<32>>, <<13, 10>>}
MCLasts  == {10}
MCSizes  == 0..3

VARIABLE device     \* the one that answers

AnswersInit == device \in {"GPS", "OBD"} /\ Init /\ RepliesInit

AnswersNext ==
    /\ UNCHANGED device
    /\ \/ device = "GPS" /\ Next /\ UNCHANGED repliesVars
       \/ device = "OBD" /\ RepliesNext /\ UNCHANGED vars

AnswersSpec == AnswersInit /\ [][AnswersNext]_<<vars, repliesVars, device>>
=============================================================================
