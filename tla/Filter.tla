------------------------------- MODULE Filter -------------------------------
(***************************************************************************)
(* Taking characters out of a string.                                      *)
(***************************************************************************)
EXTENDS Naturals, Sequences

\* The elements of s that are in K, in their order.  A function and not
\* SelectSeq, about which no prover knows anything.
Only(K, s) ==
    LET kept[n \in 0..Len(s)] ==
          IF n = 0 THEN <<>>
          ELSE IF s[n] \in K THEN Append(kept[n - 1], s[n]) ELSE kept[n - 1]
    IN  kept[Len(s)]
=============================================================================
