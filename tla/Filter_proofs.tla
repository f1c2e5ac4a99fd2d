--------------------------- MODULE Filter_proofs ---------------------------
(***************************************************************************)
(* Induction, and what recursive functions over sequences compute.  The    *)
(* library's induction theorems are about operators; here the property is  *)
(* a set, and its induction comes from the well-foundedness of the finite  *)
(* sets.                                                                   *)
(***************************************************************************)
EXTENDS Filter, SequencesExt, FiniteSetTheorems, SequenceTheorems, TLAPS

-----------------------------------------------------------------------------
(* Induction.                                                              *)

\* Induction over the numbers: the least number outside of T would be neither
\* 0 nor a successor.
LEMMA SetInduction ==
    ASSUME NEW T \in SUBSET Nat, 0 \in T, \A n \in T : n + 1 \in T
    PROVE  T = Nat
<1> SUFFICES ASSUME Nat \ T # {} PROVE FALSE
  OBVIOUS
<1> DEFINE U == {0..n : n \in Nat \ T}
           R == StrictSubsetOrdering(Nat)
<1>1. IsWellFoundedOn(R, FiniteSubsetsOf(Nat))
  BY FS_StrictSubsetOrderingWellFounded
<1>2. U \subseteq FiniteSubsetsOf(Nat)
  <2>1. \A n \in Nat : IsFiniteSet(0..n) /\ 0..n \subseteq Nat
    BY FS_Interval
  <2> QED  BY <2>1 DEF FiniteSubsetsOf
<1>3. U # {}
  OBVIOUS
<1>4. PICK x \in U : \A y \in U : ~(<<y, x>> \in R)
  <2> HIDE DEF U, R
  <2> QED  BY <1>1, <1>2, <1>3, WFMin
<1>5. PICK n \in Nat \ T : x = 0..n
  BY <1>4
<1>6. n # 0 /\ n - 1 \in Nat \ T
  BY <1>5
<1>7. 0..(n - 1) \in U
  BY <1>6
<1>8. <<0..(n - 1), 0..n>> \in R
  <2>1. /\ 0..(n - 1) \subseteq Nat /\ 0..n \subseteq Nat
        /\ 0..(n - 1) \subseteq 0..n /\ n \in 0..n /\ n \notin 0..(n - 1)
    BY <1>6
  <2> QED  BY <2>1 DEF StrictSubsetOrdering
<1> QED  BY <1>4, <1>5, <1>7, <1>8

\* Induction up to n.
LEMMA UpTo ==
    ASSUME NEW T, NEW n \in Nat, 0 \in T,
           \A k \in 1..n : k - 1 \in T => k \in T
    PROVE  0..n \subseteq T
<1> DEFINE U == {k \in Nat : k > n \/ k \in T}
<1>1. 0 \in U
  OBVIOUS
<1>2. ASSUME NEW k \in U PROVE k + 1 \in U
  <2>1. CASE k + 1 > n
    BY <2>1, <1>2
  <2>2. CASE k + 1 <= n
    <3>1. k + 1 \in 1..n /\ (k + 1) - 1 = k /\ k \in T
      BY <2>2, <1>2
    <3> QED  BY <3>1, <1>2
  <2> QED  BY <2>1, <2>2, <1>2
<1>3. U \in SUBSET Nat
  OBVIOUS
<1>4. U = Nat
  <2> HIDE DEF U
  <2> QED  BY <1>1, <1>2, <1>3, SetInduction
<1> QED  BY <1>4

\* A set of numbers that is not empty has a least element.
LEMMA LeastNumber ==
    ASSUME NEW T \in SUBSET Nat, T # {}
    PROVE  \E m \in T : \A k \in T : m <= k
<1> SUFFICES ASSUME \A m \in T : \E k \in T : k < m PROVE FALSE
  OBVIOUS
<1> DEFINE U == {n \in Nat : \A k \in T : k > n}
<1>1. 0 \in U
  OBVIOUS
<1>2. ASSUME NEW n \in U PROVE n + 1 \in U
  <2>1. \A k \in T : k >= n + 1
    OBVIOUS
  <2>2. n + 1 \notin T
    BY <2>1
  <2> QED  BY <2>1, <2>2
<1>3. U = Nat
  <2>1. U \in SUBSET Nat
    OBVIOUS
  <2> HIDE DEF U
  <2> QED  BY <1>1, <1>2, <2>1, SetInduction
<1>4. PICK m \in T : TRUE
  OBVIOUS
<1>5. m \in U
  BY <1>3
<1> QED  BY <1>4, <1>5

\* Induction over sequences, an element at a time.
LEMMA SeqInduction ==
    ASSUME NEW S, NEW T, <<>> \in T,
           \A s \in Seq(S), e \in S : s \in T => Append(s, e) \in T
    PROVE  Seq(S) \subseteq T
<1> DEFINE U == {n \in Nat : \A s \in Seq(S) : Len(s) = n => s \in T}
<1>1. 0 \in U
  BY EmptySeq
<1>2. ASSUME NEW n \in U PROVE n + 1 \in U
  <2>1. SUFFICES ASSUME NEW s \in Seq(S), Len(s) = n + 1 PROVE s \in T
    OBVIOUS
  <2>2. PICK t \in Seq(S), e \in S : s = Append(t, e)
    BY <2>1, SequenceEmptyOrAppend
  <2>3. Len(t) = n
    BY <2>1, <2>2
  <2> QED  BY <1>2, <2>2, <2>3
<1>3. U = Nat
  <2>1. U \in SUBSET Nat
    OBVIOUS
  <2> HIDE DEF U
  <2> QED  BY <1>1, <1>2, <2>1, SetInduction
<1> QED  BY <1>3

-----------------------------------------------------------------------------
(* Recursion.                                                              *)

\* What a recursion over 0..n says of the function it defines.
Follows(f, v0, step, n) ==
    f[0] = v0 /\ \A k \in 1..n : f[k] = step[<<f[k - 1], k>>]

\* A recursion over 0..n has a solution.
LEMMA Recursion ==
    ASSUME NEW V, NEW v0 \in V, NEW n \in Nat, NEW step \in [V \X (1..n) -> V]
    PROVE  \E f \in [0..n -> V] : Follows(f, v0, step, n)
<1> DEFINE P(m) == \E f \in [0..m -> V] : Follows(f, v0, step, m)
           T == {m \in 0..n : P(m)}
<1>1. P(0)
  <2>1. /\ [k \in 0..0 |-> v0] \in [0..0 -> V]
        /\ Follows([k \in 0..0 |-> v0], v0, step, 0)
    BY DEF Follows
  <2> QED  BY <2>1
<1>2. ASSUME NEW m \in 1..n, P(m - 1) PROVE P(m)
  <2>1. PICK f \in [0..m - 1 -> V] : Follows(f, v0, step, m - 1)
    BY <1>2
  <2> DEFINE last == step[<<f[m - 1], m>>]
             g == [k \in 0..m |-> IF k = m THEN last ELSE f[k]]
  <2>2. f[m - 1] \in V /\ last \in V
    BY <2>1
  <2>3. g \in [0..m -> V]
    BY <2>2
  <2>4. g[0] = v0 /\ g[m] = last /\ \A k \in 0..m - 1 : g[k] = f[k]
    BY <2>1 DEF Follows
  <2> HIDE DEF g
  <2>5. ASSUME NEW k \in 1..m PROVE g[k] = step[<<g[k - 1], k>>]
    <3>1. CASE k = m
      <4>1. g[m - 1] = f[m - 1]
        BY <2>4
      <4> QED  BY <3>1, <4>1, <2>4
    <3>2. CASE k # m
      <4>1. g[k] = f[k] /\ g[k - 1] = f[k - 1] /\ k \in 1..m - 1
        BY <2>4, <3>2
      <4> QED  BY <4>1, <2>1 DEF Follows
    <3> QED  BY <3>1, <3>2
  <2>6. Follows(g, v0, step, m)
    BY <2>4, <2>5 DEF Follows
  <2> QED  BY <2>3, <2>6
<1>3. n \in T
  <2> HIDE DEF P
  <2>1. 0 \in T
    BY <1>1
  <2>2. \A m \in 1..n : m - 1 \in T => m \in T
    BY <1>2
  <2> HIDE DEF T
  <2> QED  BY <2>1, <2>2, UpTo
<1> QED  BY <1>3

-----------------------------------------------------------------------------
(* Sequences.                                                              *)

LEMMA ConcatThree ==
    ASSUME NEW S, NEW x \in Seq(S), NEW y \in Seq(S), NEW z \in Seq(S)
    PROVE  /\ (x \o y) \o z \in Seq(S)
           /\ Len((x \o y) \o z) = Len(x) + Len(y) + Len(z)
           /\ \A i \in 1..Len(x) + Len(y) : ((x \o y) \o z)[i] = (x \o y)[i]
           /\ \A i \in 1..Len(y) : (x \o y)[Len(x) + i] = y[i]
<1>1. /\ Len(x) \in Nat /\ Len(y) \in Nat /\ Len(z) \in Nat
      /\ x \o y \in Seq(S) /\ Len(x \o y) = Len(x) + Len(y)
  OBVIOUS
<1>2. \A i \in 1..Len(y) : (x \o y)[Len(x) + i] = y[i]
  BY ConcatProperties
<1> DEFINE u == x \o y
<1>3. u \in Seq(S) /\ Len(u) = Len(x) + Len(y)
  BY <1>1
<1> HIDE DEF u
<1>4. u \in Seq(S)
  BY <1>3
<1>5. /\ u \o z \in Seq(S) /\ Len(u \o z) = Len(u) + Len(z)
      /\ \A i \in 1..Len(u) : (u \o z)[i] = u[i]
  BY <1>4, ConcatProperties
<1> QED  BY <1>2, <1>3, <1>5 DEF u

LEMMA AppendToOne ==
    ASSUME NEW S, NEW x \in S, NEW y \in S
    PROVE  Append(<<x>>, y) = <<x, y>>
<1>1. /\ Append(<<x>>, y) \in Seq(S) /\ Len(Append(<<x>>, y)) = 2
      /\ <<x, y>> \in Seq(S) /\ Len(<<x, y>>) = 2
  OBVIOUS
<1>2. \A i \in 1..2 : Append(<<x>>, y)[i] = <<x, y>>[i]
  OBVIOUS
<1> QED  BY <1>1, <1>2, SeqEqual

LEMMA AppendTaken ==
    ASSUME NEW S, NEW s \in Seq(S), NEW e \in S
    PROVE  SubSeq(Append(s, e), 1, Len(s)) = s
<1> DEFINE t == Append(s, e)
           u == SubSeq(t, 1, Len(s))
<1>1. Len(s) \in Nat /\ \A i \in 1..Len(s) : t[i] = s[i] /\ t[i] \in S
  BY AppendProperties
<1> HIDE DEF t
<1>2. u \in Seq(S) /\ Len(u) = Len(s) /\ \A i \in 1..Len(s) : u[i] = s[i]
  BY <1>1, SubSeqProperties
<1> HIDE DEF u
<1>3. u = s
  BY <1>2, SeqEqual
<1> QED  BY <1>3 DEF t, u

-----------------------------------------------------------------------------
(* What Only keeps.                                                        *)

\* How many of the first n elements `kept` has kept.
Keeps(kept, K, s) ==
    /\ kept[0] = <<>>
    /\ \A n \in 1..Len(s) :
         kept[n] = IF s[n] \in K THEN Append(kept[n - 1], s[n]) ELSE kept[n - 1]

\* The function by which Only is defined satisfies its recursion.
LEMMA OnlyRecursion ==
    ASSUME NEW S, NEW s \in Seq(S), NEW K
    PROVE  \E kept \in [0..Len(s) -> Seq(S)] :
             Keeps(kept, K, s) /\ Only(K, s) = kept[Len(s)]
<1> DEFINE Def(f) == [n \in 0..Len(s) |-> IF n = 0 THEN <<>>
             ELSE IF s[n] \in K THEN Append(f[n - 1], s[n]) ELSE f[n - 1]]
           step == [p \in Seq(S) \X (1..Len(s)) |->
                      IF s[p[2]] \in K THEN Append(p[1], s[p[2]]) ELSE p[1]]
           kept == CHOOSE f : f = Def(f)
<1>1. step \in [Seq(S) \X (1..Len(s)) -> Seq(S)]
  OBVIOUS
<1>2. Len(s) \in Nat /\ <<>> \in Seq(S)
  OBVIOUS
<1>3. \A q \in Seq(S), n \in 1..Len(s) :
        step[<<q, n>>] = IF s[n] \in K THEN Append(q, s[n]) ELSE q
  OBVIOUS
<1> HIDE DEF step
<1>4. PICK f \in [0..Len(s) -> Seq(S)] : Follows(f, <<>>, step, Len(s))
  BY <1>1, <1>2, Recursion
<1>5. f = Def(f)
  <2>1. ASSUME NEW k \in 1..Len(s)
        PROVE  f[k] = IF s[k] \in K THEN Append(f[k - 1], s[k]) ELSE f[k - 1]
    <3>1. f[k] = step[<<f[k - 1], k>>] /\ f[k - 1] \in Seq(S)
      BY <1>2, <1>4 DEF Follows
    <3> QED  BY <1>3, <3>1
  <2>2. f[0] = <<>>
    BY <1>4 DEF Follows
  <2>3. \A k \in 0..Len(s) : f[k] = Def(f)[k]
    <3>1. Def(f)[0] = f[0]
      BY <1>2, <2>2
    <3>2. ASSUME NEW k \in 1..Len(s) PROVE Def(f)[k] = f[k]
      <4>1. Def(f)[k] = IF s[k] \in K THEN Append(f[k - 1], s[k]) ELSE f[k - 1]
        BY <1>2
      <4> HIDE DEF Def
      <4> QED  BY <2>1, <4>1, Zenon
    <3> HIDE DEF Def
    <3> QED  BY <1>2, <3>1, <3>2
  <2>4. DOMAIN Def(f) = 0..Len(s) /\ f \in [0..Len(s) -> Seq(S)]
    OBVIOUS
  <2>5. Def(f) = [k \in 0..Len(s) |-> Def(f)[k]]
    OBVIOUS
  <2> HIDE DEF Def
  <2> QED  BY <2>3, <2>4, <2>5
<1>6. kept = Def(kept)
  <2> HIDE DEF Def
  <2> QED  BY <1>5, Zenon
<1>7. Only(K, s) = kept[Len(s)]
  BY DEF Only
<1> HIDE DEF kept
<1>8. kept[0] = <<>>
  <2>1. Def(kept)[0] = <<>>
    BY <1>2
  <2> HIDE DEF Def
  <2> QED  BY <1>6, <2>1
<1>9. ASSUME NEW n \in 1..Len(s)
      PROVE  kept[n] = IF s[n] \in K THEN Append(kept[n - 1], s[n])
                       ELSE kept[n - 1]
  <2>1. Def(kept)[n] = IF s[n] \in K THEN Append(kept[n - 1], s[n])
                       ELSE kept[n - 1]
    BY <1>2
  <2> HIDE DEF Def
  <2> QED  BY <1>6, <2>1, Zenon
<1>10. \A n \in 0..Len(s) : kept[n] \in Seq(S)
  <2> DEFINE T == {n \in 0..Len(s) : kept[n] \in Seq(S)}
  <2>1. 0 \in T
    BY <1>8, <1>2
  <2>2. ASSUME NEW n \in 1..Len(s), n - 1 \in T PROVE n \in T
    <3>1. s[n] \in S /\ kept[n - 1] \in Seq(S)
      BY <2>2
    <3>2. Append(kept[n - 1], s[n]) \in Seq(S)
      BY <3>1
    <3>3. kept[n] \in Seq(S)
      BY <1>9, <3>1, <3>2, Zenon
    <3> QED  BY <3>3
  <2>3. 0..Len(s) \subseteq T
    <3> HIDE DEF T
    <3> QED  BY <2>1, <2>2, <1>2, UpTo
  <2> QED  BY <2>3
<1>11. kept = [n \in 0..Len(s) |-> kept[n]]
  BY <1>6, <1>2
<1>12. kept \in [0..Len(s) -> Seq(S)]
  BY <1>10, <1>11
<1>13. Keeps(kept, K, s)
  BY <1>8, <1>9 DEF Keeps
<1> QED  BY <1>7, <1>12, <1>13

LEMMA OnlyType ==
    ASSUME NEW S, NEW s \in Seq(S), NEW K
    PROVE  Only(K, s) \in Seq(S)
<1>1. Len(s) \in Nat
  OBVIOUS
<1> QED  BY <1>1, OnlyRecursion

LEMMA OnlyEmpty == ASSUME NEW K PROVE Only(K, <<>>) = <<>>
<1>1. <<>> \in Seq({}) /\ Len(<<>>) = 0
  BY EmptySeq
<1>2. PICK kept \in [0..Len(<<>>) -> Seq({})] :
        Keeps(kept, K, <<>>) /\ Only(K, <<>>) = kept[Len(<<>>)]
  BY <1>1, OnlyRecursion
<1> QED  BY <1>1, <1>2 DEF Keeps

LEMMA OnlyAppend ==
    ASSUME NEW S, NEW s \in Seq(S), NEW e \in S, NEW K
    PROVE  Only(K, Append(s, e)) =
             IF e \in K THEN Append(Only(K, s), e) ELSE Only(K, s)
<1> DEFINE t == Append(s, e)
<1>1. /\ t \in Seq(S) /\ Len(t) = Len(s) + 1 /\ Len(s) \in Nat
      /\ t[Len(t)] = e /\ \A n \in 1..Len(s) : t[n] = s[n]
  OBVIOUS
<1> HIDE DEF t
<1>2. PICK f \in [0..Len(s) -> Seq(S)] :
        Keeps(f, K, s) /\ Only(K, s) = f[Len(s)]
  BY OnlyRecursion
<1>3. PICK g \in [0..Len(t) -> Seq(S)] :
        Keeps(g, K, t) /\ Only(K, t) = g[Len(t)]
  BY <1>1, OnlyRecursion
<1>4. f[Len(s)] = g[Len(s)]
  <2> DEFINE T == {n \in 0..Len(s) : f[n] = g[n]}
  <2>1. 0 \in T
    BY <1>1, <1>2, <1>3 DEF Keeps
  <2>2. ASSUME NEW n \in 1..Len(s), n - 1 \in T PROVE n \in T
    <3>1. f[n - 1] = g[n - 1] /\ t[n] = s[n] /\ n \in 1..Len(t)
      BY <1>1, <2>2
    <3> QED  BY <1>2, <1>3, <3>1 DEF Keeps
  <2>3. 0..Len(s) \subseteq T
    <3> HIDE DEF T
    <3> QED  BY <1>1, <2>1, <2>2, UpTo
  <2> QED  BY <1>1, <2>3
<1>5. Only(K, t) = IF e \in K THEN Append(g[Len(s)], e) ELSE g[Len(s)]
  <2>1. Len(t) \in 1..Len(t) /\ Len(t) - 1 = Len(s)
    BY <1>1
  <2> QED  BY <1>1, <1>3, <2>1 DEF Keeps
<1> QED  BY <1>2, <1>4, <1>5 DEF t

LEMMA AppendConcat ==
    ASSUME NEW S, NEW s \in Seq(S), NEW t \in Seq(S), NEW e \in S
    PROVE  s \o Append(t, e) = Append(s \o t, e)
<1>1. <<e>> \in Seq(S) /\ s \o t \in Seq(S)
  OBVIOUS
<1>2. Append(t, e) = t \o <<e>> /\ Append(s \o t, e) = (s \o t) \o <<e>>
  BY <1>1, AppendIsConcat
<1> QED  BY <1>1, <1>2, ConcatAssociative

\* Only takes a string apart wherever it is cut.
LEMMA OnlyConcat ==
    ASSUME NEW S, NEW s \in Seq(S), NEW t \in Seq(S), NEW K
    PROVE  Only(K, s \o t) = Only(K, s) \o Only(K, t)
<1> DEFINE T == {u \in Seq(S) : Only(K, s \o u) = Only(K, s) \o Only(K, u)}
<1>1. <<>> \in T
  <2>1. <<>> \in Seq(S) /\ s \o <<>> = s
    BY EmptySeq, ConcatEmptySeq
  <2>2. Only(K, s) \o <<>> = Only(K, s)
    BY OnlyType, ConcatEmptySeq
  <2> QED  BY <2>1, <2>2, OnlyEmpty
<1>2. ASSUME NEW u \in Seq(S), NEW e \in S, u \in T PROVE Append(u, e) \in T
  <2>1. /\ s \o u \in Seq(S) /\ Append(u, e) \in Seq(S)
        /\ Only(K, s) \in Seq(S) /\ Only(K, u) \in Seq(S)
    BY OnlyType
  <2>2. s \o Append(u, e) = Append(s \o u, e)
    BY AppendConcat
  <2>3. Only(K, s \o u) = Only(K, s) \o Only(K, u)
    BY <1>2
  <2>4. Only(K, s \o Append(u, e)) = Only(K, s) \o Only(K, Append(u, e))
    <3>1. CASE e \in K
      <4>1. Only(K, s \o Append(u, e)) = Append(Only(K, s \o u), e)
        BY <2>1, <2>2, <3>1, OnlyAppend
      <4>2. Only(K, Append(u, e)) = Append(Only(K, u), e)
        BY <3>1, OnlyAppend
      <4>3. Only(K, s) \o Append(Only(K, u), e)
              = Append(Only(K, s) \o Only(K, u), e)
        BY <2>1, AppendConcat
      <4> QED  BY <2>3, <4>1, <4>2, <4>3
    <3>2. CASE e \notin K
      <4>1. Only(K, s \o Append(u, e)) = Only(K, s \o u)
        BY <2>1, <2>2, <3>2, OnlyAppend
      <4>2. Only(K, Append(u, e)) = Only(K, u)
        BY <3>2, OnlyAppend
      <4> QED  BY <2>3, <4>1, <4>2
    <3> QED  BY <3>1, <3>2
  <2> QED  BY <2>1, <2>4
<1>3. Seq(S) \subseteq T
  <2> HIDE DEF T
  <2> QED  BY <1>1, <1>2, SeqInduction
<1> QED  BY <1>3

\* What is left is in K, and what was all in K is left.
LEMMA OnlyKept ==
    ASSUME NEW S, NEW s \in Seq(S), NEW K
    PROVE  Only(K, s) \in Seq(S \cap K)
<1> DEFINE T == {u \in Seq(S) : Only(K, u) \in Seq(S \cap K)}
<1>1. <<>> \in T
  BY OnlyEmpty, EmptySeq
<1>2. ASSUME NEW u \in Seq(S), NEW e \in S, u \in T PROVE Append(u, e) \in T
  <2>1. Append(u, e) \in Seq(S) /\ Only(K, u) \in Seq(S \cap K)
    BY <1>2
  <2>2. e \in K => Append(Only(K, u), e) \in Seq(S \cap K)
    BY <2>1
  <2> QED  BY <2>1, <2>2, OnlyAppend
<1>3. Seq(S) \subseteq T
  <2> HIDE DEF T
  <2> QED  BY <1>1, <1>2, SeqInduction
<1> QED  BY <1>3

LEMMA OnlyAll ==
    ASSUME NEW S, NEW s \in Seq(S), NEW K, S \subseteq K
    PROVE  Only(K, s) = s
<1> DEFINE T == {u \in Seq(S) : Only(K, u) = u}
<1>1. <<>> \in T
  BY OnlyEmpty, EmptySeq
<1>2. ASSUME NEW u \in Seq(S), NEW e \in S, u \in T PROVE Append(u, e) \in T
  <2>1. Append(u, e) \in Seq(S) /\ Only(K, u) = u /\ e \in K
    BY <1>2
  <2> QED  BY <2>1, OnlyAppend
<1>3. Seq(S) \subseteq T
  <2> HIDE DEF T
  <2> QED  BY <1>1, <1>2, SeqInduction
<1> QED  BY <1>3

-----------------------------------------------------------------------------
(* What FlattenSeq joins.                                                  *)

Joins(joined, seqs) ==
    /\ joined[1] = seqs[1]
    /\ \A n \in 2..Len(seqs) : joined[n] = joined[n - 1] \o seqs[n]

\* The function by which FlattenSeq is defined satisfies its recursion.
LEMMA FlattenRecursion ==
    ASSUME NEW S, NEW seqs \in Seq(Seq(S)), Len(seqs) # 0
    PROVE  \E joined \in [1..Len(seqs) -> Seq(S)] :
             Joins(joined, seqs) /\ FlattenSeq(seqs) = joined[Len(seqs)]
<1> DEFINE V == Seq(S)
           N == Len(seqs)
           Join(q, n) == q \o seqs[n]
           Def(f) == [i \in 1..N |->
                        IF i = 1 THEN seqs[i] ELSE Join(f[i - 1], i)]
           step == [p \in V \X (1..N) |-> Join(p[1], p[2])]
           joined == CHOOSE f : f = Def(f)
<1>1. N \in Nat \ {0} /\ <<>> \in V /\ \A n \in 1..N : seqs[n] \in V
  OBVIOUS
<1>2. \A q \in V, n \in 1..N : Join(q, n) \in V
  BY <1>1
<1>3. Join(<<>>, 1) = seqs[1]
  <2>1. seqs[1] \in Seq(S)
    BY <1>1
  <2> QED  BY <2>1, ConcatEmptySeq
<1>4. FlattenSeq(seqs) = joined[N]
  BY <1>1 DEF FlattenSeq
<1>5. ASSUME NEW f, Joins(f, seqs)
      PROVE  f[1] = seqs[1] /\ \A n \in 2..N : f[n] = Join(f[n - 1], n)
  BY <1>5 DEF Joins
<1>6. ASSUME NEW f, f[1] = seqs[1], \A n \in 2..N : f[n] = Join(f[n - 1], n)
      PROVE  Joins(f, seqs)
  BY <1>6 DEF Joins
<1> HIDE DEF V, N, Join
<1>7. step \in [V \X (1..N) -> V]
  BY <1>2
<1>8. \A q \in V, n \in 1..N : step[<<q, n>>] = Join(q, n)
  OBVIOUS
<1> HIDE DEF step
<1>9. PICK h \in [0..N -> V] : Follows(h, <<>>, step, N)
  BY <1>1, <1>7, Recursion
<1> DEFINE f == [i \in 1..N |-> h[i]]
<1>10. f = Def(f)
  <2>1. f[1] = seqs[1]
    <3>1. h[1] = step[<<h[0], 1>>] /\ h[0] = <<>> /\ f[1] = h[1]
      BY <1>1, <1>9 DEF Follows
    <3> QED  BY <1>1, <1>3, <1>8, <3>1
  <2>2. ASSUME NEW k \in 2..N PROVE f[k] = Join(f[k - 1], k)
    <3>1. k \in 1..N /\ k - 1 \in 1..N /\ k - 1 \in 0..N
      BY <1>1
    <3>2. /\ h[k] = step[<<h[k - 1], k>>] /\ h[k - 1] \in V
          /\ f[k] = h[k] /\ f[k - 1] = h[k - 1]
      BY <1>9, <3>1 DEF Follows
    <3> QED  BY <1>8, <3>1, <3>2
  <2>3. \A k \in 1..N : f[k] = Def(f)[k]
    <3> HIDE DEF f
    <3> QED  BY <1>1, <2>1, <2>2
  <2>4. f = [k \in 1..N |-> f[k]]
    OBVIOUS
  <2>5. Def(f) = [k \in 1..N |-> Def(f)[k]]
    OBVIOUS
  <2> HIDE DEF Def, f
  <2> QED  BY <2>3, <2>4, <2>5
<1>11. joined = Def(joined)
  <2> HIDE DEF Def, f
  <2> QED  BY <1>10, Zenon
<1> HIDE DEF joined
<1>12. joined[1] = seqs[1]
  <2>1. Def(joined)[1] = seqs[1]
    BY <1>1
  <2> HIDE DEF Def
  <2> QED  BY <1>11, <2>1
<1>13. ASSUME NEW n \in 2..N PROVE joined[n] = Join(joined[n - 1], n)
  <2>1. Def(joined)[n] = Join(joined[n - 1], n)
    BY <1>1
  <2> HIDE DEF Def
  <2> QED  BY <1>11, <2>1
<1>14. \A n \in 1..N : joined[n] \in V
  <2> DEFINE T == {n \in 0..N : n > 0 => joined[n] \in V}
  <2>1. 0 \in T
    BY <1>1
  <2>2. ASSUME NEW n \in 1..N, n - 1 \in T PROVE n \in T
    <3>1. CASE n = 1
      BY <1>1, <1>12, <3>1
    <3>2. CASE n # 1
      <4>1. n \in 2..N /\ joined[n - 1] \in V
        BY <1>1, <2>2, <3>2
      <4>2. joined[n] \in V
        BY <1>2, <1>13, <4>1
      <4> QED  BY <4>2
    <3> QED  BY <3>1, <3>2
  <2>3. 0..N \subseteq T
    <3> HIDE DEF T
    <3> QED  BY <2>1, <2>2, <1>1, UpTo
  <2>4. ASSUME NEW n \in 1..N PROVE joined[n] \in V
    <3>1. n \in 0..N /\ n > 0
      BY <1>1
    <3>2. n \in T
      BY <2>3, <3>1
    <3> QED  BY <3>1, <3>2
  <2> QED  BY <2>4
<1>15. joined \in [1..N -> V]
  <2>1. joined = [n \in 1..N |-> joined[n]]
    BY <1>11, <1>1
  <2> QED  BY <1>14, <2>1
<1>16. Joins(joined, seqs)
  BY <1>6, <1>12, <1>13
<1> QED  BY <1>4, <1>15, <1>16 DEF V, N

LEMMA FlattenEmpty == FlattenSeq(<<>>) = <<>>
  BY EmptySeq DEF FlattenSeq

LEMMA FlattenType ==
    ASSUME NEW S, NEW seqs \in Seq(Seq(S))
    PROVE  FlattenSeq(seqs) \in Seq(S)
<1>1. Len(seqs) \in Nat
  OBVIOUS
<1>2. CASE Len(seqs) = 0
  <2>1. seqs = <<>>
    BY <1>2, EmptySeq
  <2> QED  BY <2>1, FlattenEmpty, EmptySeq
<1>3. CASE Len(seqs) # 0
  <2>1. PICK f \in [1..Len(seqs) -> Seq(S)] :
          Joins(f, seqs) /\ FlattenSeq(seqs) = f[Len(seqs)]
    BY <1>3, FlattenRecursion, Zenon
  <2>2. Len(seqs) \in 1..Len(seqs)
    BY <1>1, <1>3
  <2> QED  BY <2>1, <2>2
<1> QED  BY <1>2, <1>3

\* One more string is joined to what the others are joined to.
LEMMA FlattenAppend ==
    ASSUME NEW S, NEW seqs \in Seq(Seq(S)), NEW s \in Seq(S)
    PROVE  FlattenSeq(Append(seqs, s)) = FlattenSeq(seqs) \o s
<1> DEFINE t == Append(seqs, s)
<1>1. /\ t \in Seq(Seq(S)) /\ Len(t) = Len(seqs) + 1 /\ Len(seqs) \in Nat
      /\ t[Len(t)] = s /\ \A n \in 1..Len(seqs) : t[n] = seqs[n]
  BY AppendProperties
<1> HIDE DEF t
<1>2. PICK g \in [1..Len(t) -> Seq(S)] :
        Joins(g, t) /\ FlattenSeq(t) = g[Len(t)]
  <2>1. Len(t) # 0
    BY <1>1
  <2> QED  BY <1>1, <2>1, FlattenRecursion, Zenon
<1>3. CASE Len(seqs) = 0
  <2>1. seqs = <<>> /\ FlattenSeq(seqs) = <<>>
    BY <1>3, EmptySeq, FlattenEmpty
  <2>2. FlattenSeq(t) = s
    BY <1>1, <1>2, <1>3 DEF Joins
  <2>3. <<>> \o s = s
    BY ConcatEmptySeq
  <2> QED  BY <2>1, <2>2, <2>3 DEF t
<1>4. CASE Len(seqs) # 0
  <2>1. PICK f \in [1..Len(seqs) -> Seq(S)] :
          Joins(f, seqs) /\ FlattenSeq(seqs) = f[Len(seqs)]
    BY <1>4, FlattenRecursion, Zenon
  <2>2. f[Len(seqs)] = g[Len(seqs)]
    <3> DEFINE T == {n \in 0..Len(seqs) : n > 0 => f[n] = g[n]}
    <3>1. 0 \in T
      BY <1>1
    <3>2. ASSUME NEW n \in 1..Len(seqs), n - 1 \in T PROVE n \in T
      <4>1. CASE n = 1
        BY <1>1, <1>2, <2>1, <4>1 DEF Joins
      <4>2. CASE n # 1
        <5>1. /\ n \in 2..Len(seqs) /\ n \in 2..Len(t) /\ t[n] = seqs[n]
              /\ f[n - 1] = g[n - 1]
          BY <1>1, <3>2, <4>2
        <5>2. f[n] = f[n - 1] \o seqs[n] /\ g[n] = g[n - 1] \o t[n]
          BY <1>2, <2>1, <5>1 DEF Joins
        <5>3. f[n] = g[n]
          BY <5>1, <5>2
        <5> QED  BY <5>3
      <4> QED  BY <4>1, <4>2
    <3>3. 0..Len(seqs) \subseteq T
      <4> HIDE DEF T
      <4> QED  BY <1>1, <3>1, <3>2, UpTo
    <3>4. Len(seqs) \in 0..Len(seqs) /\ Len(seqs) > 0
      BY <1>1, <1>4
    <3>5. Len(seqs) \in T
      <4> HIDE DEF T
      <4> QED  BY <3>3, <3>4
    <3> QED  BY <3>4, <3>5
  <2>3. FlattenSeq(t) = g[Len(seqs)] \o s
    <3>1. Len(t) \in 2..Len(t) /\ Len(t) - 1 = Len(seqs)
      BY <1>1, <1>4
    <3> QED  BY <1>1, <1>2, <3>1 DEF Joins
  <2> QED  BY <2>1, <2>2, <2>3 DEF t
<1> QED  BY <1>3, <1>4
=============================================================================
