-------------------------- MODULE GPSLogger_proofs --------------------------
(***************************************************************************)
(* Theorems about GPSLogger, for reads and streams of every length.        *)
(***************************************************************************)
EXTENDS GPSLogger, Filter_proofs

Plain == Chars \ {"CR"}         \* what the buffer and the log are made of

-----------------------------------------------------------------------------
(* Normalise.                                                              *)

\* Normalise works character by character.
LEMMA NormaliseAppend ==
    ASSUME NEW s \in Seq(Chars), NEW c \in Chars
    PROVE  Normalise(Append(s, c)) =
             CASE c = "LF" -> Normalise(s)
               [] c = "CR" -> Append(Normalise(s), "LF")
               [] OTHER    -> Append(Normalise(s), c)
<1> DEFINE K == Chars \ {"LF"}
           t == Only(K, s)
<1>1. t \in Seq(Chars) /\ Len(t) \in Nat
  BY OnlyType
<1>2. Only(K, Append(s, c)) = IF c \in K THEN Append(t, c) ELSE t
  BY OnlyAppend
<1>3. CASE c = "LF"
  BY <1>2, <1>3 DEF Normalise
<1>4. CASE c # "LF"
  <2> DEFINE d == IF c = "CR" THEN "LF" ELSE c
             u == Append(t, c)
             L(w) == [i \in 1..Len(w) |-> IF w[i] = "CR" THEN "LF" ELSE w[i]]
  <2>1. Only(K, Append(s, c)) = u
    BY <1>2, <1>4
  <2>2. Normalise(Append(s, c)) = L(u) /\ Normalise(s) = L(t)
    BY <2>1 DEF Normalise
  <2> HIDE DEF t
  <2>3. L(u) = Append(L(t), d)
    <3>1. L(t) \in Seq(Chars) /\ Len(L(t)) = Len(t) /\ d \in Chars
      BY <1>1 DEF Chars
    <3>2. /\ u \in Seq(Chars) /\ Len(u) = Len(t) + 1 /\ u[Len(t) + 1] = c
          /\ \A i \in 1..Len(t) : u[i] = t[i]
      BY <1>1
    <3>3. L(u) \in Seq(Chars) /\ Len(L(u)) = Len(t) + 1
      BY <3>2, <1>1 DEF Chars
    <3>4. /\ Append(L(t), d) \in Seq(Chars)
          /\ Len(Append(L(t), d)) = Len(t) + 1
      BY <3>1
    <3>5. ASSUME NEW i \in 1..Len(t) + 1 PROVE L(u)[i] = Append(L(t), d)[i]
      <4>1. CASE i = Len(t) + 1
        BY <3>1, <3>2, <4>1, <1>1
      <4>2. CASE i # Len(t) + 1
        <5>1. i \in 1..Len(t) /\ u[i] = t[i] /\ i \in 1..Len(u)
          BY <3>2, <4>2, <1>1
        <5>2. L(u)[i] = L(t)[i]
          BY <5>1
        <5>3. Append(L(t), d)[i] = L(t)[i]
          BY <3>1, <5>1, AppendProperties
        <5> QED  BY <5>2, <5>3
      <4> QED  BY <4>1, <4>2
    <3> HIDE DEF L, d, u
    <3> QED  BY <3>3, <3>4, <3>5, SeqEqual
  <2> QED  BY <2>2, <2>3, <1>4
<1> QED  BY <1>3, <1>4

\* Normalising leaves no carriage return, and does not change the text.
LEMMA NormaliseProperties ==
    ASSUME NEW s \in Seq(Chars)
    PROVE  Normalise(s) \in Seq(Plain) /\ Text(Normalise(s)) = Text(s)
<1> DEFINE T == {u \in Seq(Chars) : /\ Normalise(u) \in Seq(Plain)
                                    /\ Text(Normalise(u)) = Text(u)}
<1>1. <<>> \in T
  <2>1. Normalise(<<>>) = <<>>
    <3>1. Only(Chars \ {"LF"}, <<>>) = <<>>
      BY OnlyEmpty
    <3>2. Normalise(<<>>) \in Seq(Chars) /\ Len(Normalise(<<>>)) = 0
      BY <3>1 DEF Normalise
    <3> QED  BY <3>2, EmptySeq
  <2> QED  BY <2>1, EmptySeq
<1>2. ASSUME NEW u \in Seq(Chars), NEW c \in Chars, u \in T
      PROVE  Append(u, c) \in T
  <2> DEFINE n == Normalise(u)
             K == Chars \ {"CR", "LF"}
  <2>1. n \in Seq(Plain) /\ n \in Seq(Chars) /\ Only(K, n) = Only(K, u)
    <3>1. n \in Seq(Plain) /\ Only(K, n) = Only(K, u)
      BY <1>2 DEF Text
    <3>2. Plain \subseteq Chars
      BY DEF Plain
    <3> HIDE DEF n
    <3> QED  BY <3>1, <3>2
  <2>2. Only(K, Append(u, c)) = IF c \in K THEN Append(Only(K, u), c)
                                ELSE Only(K, u)
    BY OnlyAppend
  <2>3. Append(u, c) \in Seq(Chars)
    OBVIOUS
  <2>4. ASSUME NEW d \in Chars
        PROVE  Only(K, Append(n, d)) = IF d \in K THEN Append(Only(K, n), d)
                                       ELSE Only(K, n)
    <3> HIDE DEF n, K
    <3> QED  BY <2>1, OnlyAppend
  <2> HIDE DEF n
  <2>5. CASE c = "LF"
    <3>1. Normalise(Append(u, c)) = n
      BY <2>5, NormaliseAppend DEF n
    <3> QED  BY <2>1, <2>2, <2>3, <2>5, <3>1 DEF Text
  <2>6. CASE c = "CR"
    <3>1. Normalise(Append(u, c)) = Append(n, "LF")
      BY <2>6, NormaliseAppend DEF n
    <3>2. "LF" \in Plain /\ "LF" \in Chars /\ "LF" \notin K /\ c \notin K
      BY <2>6 DEF Plain, Chars
    <3>3. Append(n, "LF") \in Seq(Plain)
      BY <2>1, <3>2
    <3>4. Only(K, Append(n, "LF")) = Only(K, n)
      BY <2>4, <3>2
    <3>5. Only(K, Append(u, c)) = Only(K, u)
      BY <2>2, <3>2
    <3> HIDE DEF K
    <3>6. Text(Append(n, "LF")) = Text(Append(u, c))
      BY <2>1, <3>4, <3>5 DEF Text, K
    <3> QED  BY <2>3, <3>1, <3>3, <3>6
  <2>7. CASE c # "LF" /\ c # "CR"
    <3>1. Normalise(Append(u, c)) = Append(n, c)
      BY <2>7, NormaliseAppend DEF n
    <3>2. c \in Plain /\ c \in K
      BY <2>7 DEF Plain
    <3>3. Append(n, c) \in Seq(Plain)
      BY <2>1, <3>2
    <3>4. /\ Only(K, Append(n, c)) = Append(Only(K, n), c)
          /\ Only(K, Append(u, c)) = Append(Only(K, u), c)
      BY <2>2, <2>4, <3>2
    <3> HIDE DEF K
    <3>5. Text(Append(n, c)) = Text(Append(u, c))
      BY <2>1, <3>4 DEF Text, K
    <3> QED  BY <2>3, <3>1, <3>3, <3>5
  <2> QED  BY <2>5, <2>6, <2>7
<1>3. Seq(Chars) \subseteq T
  <2> HIDE DEF T
  <2> QED  BY <1>1, <1>2, SeqInduction
<1> QED  BY <1>3

-----------------------------------------------------------------------------
(* Where a buffer is cut.                                                  *)

\* "OK" is found where it first stands.
LEMMA FirstOK ==
    ASSUME NEW s \in Seq(Chars), OKs(s) # {}
    PROVE  /\ Min(OKs(s)) \in OKs(s)
           /\ \A i \in OKs(s) : Min(OKs(s)) <= i
<1>1. OKs(s) \in SUBSET Nat
  BY DEF OKs
<1>2. \E m \in OKs(s) : \A k \in OKs(s) : m <= k
  BY <1>1, LeastNumber
<1> HIDE DEF OKs
<1>3. \E m \in OKs(s) : \A k \in OKs(s) : m =< k
  BY <1>2
<1> QED  BY <1>3, Zenon DEF Min

LEMMA MinOfTwo ==
    ASSUME NEW a \in Nat, NEW b \in Nat
    PROVE  Min({a, b}) \in {a, b} /\ Min({a, b}) <= a /\ Min({a, b}) <= b
<1>1. \E m \in {a, b} : \A k \in {a, b} : m =< k
  OBVIOUS
<1>2. Min({a, b}) \in {a, b} /\ \A k \in {a, b} : Min({a, b}) =< k
  BY <1>1, Zenon DEF Min
<1> QED  BY <1>2

\* A cut is within the buffer, and at the latest behind its first "OK": also
\* where pos + 2 wraps round.
LEMMA CutProperties ==
    ASSUME NEW s \in Seq(Chars)
    PROVE  /\ Cut(s) \in 0..Len(s)
           /\ \A i \in OKs(s) : Cut(s) <= i + 1
<1> DEFINE taken == (Find(s) + 2) % SizeMod
<1>1. SizeMod \in Nat /\ SizeMod > 0 /\ Len(s) \in Nat
  BY SizeAssumption
<1>2. CASE OKs(s) = {}
  <2>1. Find(s) \in Nat
    BY <1>1, <1>2 DEF Find, npos
  <2>2. taken \in Nat
    BY <1>1, <2>1
  <2> QED  BY <1>1, <1>2, <2>2, MinOfTwo DEF Cut
<1>3. CASE OKs(s) # {}
  <2> DEFINE m == Min(OKs(s))
  <2>1. m \in Nat /\ m >= 1 /\ \A i \in OKs(s) : i \in Nat /\ m <= i
    <3>1. \A i \in OKs(s) : i \in Nat /\ i >= 1
      BY DEF OKs
    <3> QED  BY <1>3, <3>1, FirstOK
  <2>2. taken = (m + 1) % SizeMod
    BY <1>3, <2>1 DEF Find
  <2> HIDE DEF m
  <2>3. taken \in Nat /\ taken <= m + 1
    BY <1>1, <2>1, <2>2
  <2>4. Cut(s) \in {taken, Len(s)} /\ Cut(s) <= taken /\ Cut(s) <= Len(s)
    BY <1>1, <2>3, MinOfTwo DEF Cut
  <2> HIDE DEF taken
  <2> QED  BY <1>1, <2>1, <2>3, <2>4
<1> QED  BY <1>2, <1>3

\* What is cut off holds no "OK" but one at its end.
LEMMA RecordProperties ==
    ASSUME NEW s \in Seq(Plain)
    PROVE  LET rec == SubSeq(s, 1, Cut(s)) IN
             /\ rec \in Seq(Plain)
             /\ SubSeq(s, Cut(s) + 1, Len(s)) \in Seq(Plain)
             /\ rec \o SubSeq(s, Cut(s) + 1, Len(s)) = s
             /\ OKs(rec) \subseteq {Len(rec) - 1}
<1> DEFINE rec == SubSeq(s, 1, Cut(s))
<1>1. s \in Seq(Chars) /\ Len(s) \in Nat
  <2>1. Plain \subseteq Chars
    BY DEF Plain
  <2> QED  BY <2>1
<1>2. Cut(s) \in 0..Len(s) /\ \A i \in OKs(s) : Cut(s) <= i + 1
  BY <1>1, CutProperties
<1>3. /\ rec \in Seq(Plain) /\ Len(rec) = Cut(s)
      /\ \A i \in 1..Cut(s) : rec[i] = s[i]
  BY <1>1, <1>2, SubSeqProperties
<1>4. SubSeq(s, Cut(s) + 1, Len(s)) \in Seq(Plain)
  BY <1>1, <1>2, SubSeqProperties
<1>5. rec \o SubSeq(s, Cut(s) + 1, Len(s)) = s
  <2>1. SubSeq(s, 1, Len(s)) = s
    BY <1>1, SubSeqFull
  <2>2. /\ 1 \in 1..Len(s) + 1 /\ Cut(s) \in 1 - 1..Len(s)
        /\ Len(s) \in Cut(s)..Len(s)
    BY <1>1, <1>2
  <2> QED  BY <2>1, <2>2, <1>1, ConcatAdjacentSubSeq, Zenon
<1> HIDE DEF rec
<1>6. ASSUME NEW i \in OKs(rec) PROVE i = Len(rec) - 1
  <2>1. i \in 1..Len(rec) - 1 /\ rec[i] = "O" /\ rec[i + 1] = "K"
    BY DEF OKs
  <2>2. i \in 1..Len(s) - 1 /\ s[i] = "O" /\ s[i + 1] = "K"
    BY <1>1, <1>2, <1>3, <2>1
  <2>3. i \in OKs(s)
    BY <2>2 DEF OKs
  <2> QED  BY <1>2, <1>3, <2>1, <2>3
<1> QED  BY <1>3, <1>4, <1>5, <1>6 DEF rec

-----------------------------------------------------------------------------
(* The theorems.                                                           *)

\* A read is a string of the device's characters.
LEMMA ChunkType ==
    ASSUME NEW chunk \in Chunks
    PROVE  chunk \in Seq(Chars)
<1>1. PICK n \in 1..MaxChunk : chunk \in [1..n -> Chars]
  BY DEF Chunks
<1>2. n \in Nat
  BY SizeAssumption
<1> QED  BY <1>1, <1>2

\* What one call does, told of the normalised buffer r.
LEMMA StepProperties ==
    ASSUME TypeOK, NEW chunk \in Chunks, recievedDataCallback(chunk)
    PROVE  \E r \in Seq(Plain) :
             /\ r = Normalise(response \o chunk)
             /\ Text(r) = Text(response \o chunk)
             /\ log' = Append(log, SubSeq(r, 1, Cut(r)))
             /\ response' = SubSeq(r, Cut(r) + 1, Len(r))
             /\ stream' = stream \o chunk
<1>1. response \in Seq(Chars) /\ chunk \in Seq(Chars)
  <2>1. response \in Seq(Plain) /\ Plain \subseteq Chars
    BY DEF TypeOK, Plain
  <2> QED  BY <2>1, ChunkType
<1>2. response \o chunk \in Seq(Chars)
  BY <1>1
<1> QED  BY <1>2, NormaliseProperties DEF recievedDataCallback

\* recievedDataCallback(): whatever the device sends and however it is cut up,
\* the buffer and the records are normalised.
THEOREM TypeCorrect == Spec => []TypeOK
<1>1. Init => TypeOK
  BY DEF Init, TypeOK
<1>2. TypeOK /\ [Next]_vars => TypeOK'
  <2>1. SUFFICES ASSUME TypeOK, [Next]_vars PROVE TypeOK'
    OBVIOUS
  <2>2. CASE UNCHANGED vars
    BY <2>1, <2>2 DEF TypeOK, vars
  <2>3. ASSUME NEW chunk \in Chunks, recievedDataCallback(chunk) PROVE TypeOK'
    <3>1. PICK r \in Seq(Plain) :
            /\ log' = Append(log, SubSeq(r, 1, Cut(r)))
            /\ response' = SubSeq(r, Cut(r) + 1, Len(r))
            /\ stream' = stream \o chunk
      BY <2>1, <2>3, StepProperties
    <3>2. response' \in Seq(Plain) /\ SubSeq(r, 1, Cut(r)) \in Seq(Plain)
      BY <3>1, RecordProperties
    <3>3. log' \in Seq(Seq(Plain))
      BY <2>1, <3>1, <3>2 DEF TypeOK, Plain
    <3>4. stream' \in Seq(Chars)
      BY <2>1, <2>3, <3>1, ChunkType DEF TypeOK
    <3> QED  BY <3>2, <3>3, <3>4 DEF TypeOK, Plain
  <2> QED  BY <2>1, <2>2, <2>3 DEF Next
<1> QED  BY <1>1, <1>2, PTL DEF Spec

\* recievedDataCallback(): no byte of text is lost, doubled or moved between
\* the stream and the log, in streams of any length and reads of any size.
THEOREM NoTextLostCorrect == Spec => []NoTextLost
<1>1. Init => NoTextLost
  <2>1. SUFFICES ASSUME Init PROVE NoTextLost
    OBVIOUS
  <2>2. FlattenSeq(log) \o response = <<>> /\ stream = <<>>
    <3>1. <<>> \o <<>> = <<>>
      BY ConcatEmptySeq, EmptySeq
    <3> QED  BY <2>1, <3>1, FlattenEmpty DEF Init
  <2> QED  BY <2>2 DEF NoTextLost
<1>2. TypeOK /\ NoTextLost /\ [Next]_vars => NoTextLost'
  <2>1. SUFFICES ASSUME TypeOK, NoTextLost, [Next]_vars PROVE NoTextLost'
    OBVIOUS
  <2>2. CASE UNCHANGED vars
    BY <2>1, <2>2 DEF NoTextLost, vars
  <2>3. ASSUME NEW chunk \in Chunks, recievedDataCallback(chunk)
        PROVE  NoTextLost'
    <3> DEFINE flat == FlattenSeq(log)
    <3>1. PICK r \in Seq(Plain) :
            /\ Text(r) = Text(response \o chunk)
            /\ log' = Append(log, SubSeq(r, 1, Cut(r)))
            /\ response' = SubSeq(r, Cut(r) + 1, Len(r))
            /\ stream' = stream \o chunk
      BY <2>1, <2>3, StepProperties
    <3>2. /\ log \in Seq(Seq(Plain)) /\ flat \in Seq(Plain)
          /\ response \in Seq(Plain)
      BY <2>1, FlattenType DEF TypeOK, Plain
    <3>3. \A s \in Seq(Plain) : s \in Seq(Chars)
      <4>1. Plain \subseteq Chars
        BY DEF Plain
      <4> QED  BY <4>1
    <3>4. chunk \in Seq(Chars) /\ stream \in Seq(Chars)
      BY <2>1, ChunkType DEF TypeOK
    <3>5. FlattenSeq(log') \o response' = flat \o r
      <4> DEFINE rec == SubSeq(r, 1, Cut(r))
                 left == SubSeq(r, Cut(r) + 1, Len(r))
      <4>1. rec \in Seq(Plain) /\ left \in Seq(Plain) /\ rec \o left = r
        BY RecordProperties
      <4> HIDE DEF rec, left
      <4>2. FlattenSeq(Append(log, rec)) = flat \o rec
        BY <3>2, <4>1, FlattenAppend, Zenon
      <4> HIDE DEF flat
      <4>3. (flat \o rec) \o left = flat \o (rec \o left)
        <5>1. \A a, b, c \in Seq(Plain) : (a \o b) \o c = a \o (b \o c)
          BY ConcatAssociative
        <5> QED  BY <3>2, <4>1, <5>1
      <4> QED  BY <3>1, <4>1, <4>2, <4>3 DEF rec, left
    <3> HIDE DEF flat
    <3>6. \A s, t \in Seq(Chars) : Text(s \o t) = Text(s) \o Text(t)
      BY OnlyConcat DEF Text
    <3>7. \A s \in Seq(Chars) : Text(s) \in Seq(Chars)
      BY OnlyType DEF Text
    <3>8. Text(flat \o r) = Text(flat) \o (Text(response) \o Text(chunk))
      BY <3>1, <3>2, <3>3, <3>4, <3>6
    <3>9. Text(stream) = Text(flat) \o Text(response)
      BY <2>1, <3>2, <3>3, <3>6 DEF NoTextLost, flat
    <3>10. Text(stream \o chunk) = (Text(flat) \o Text(response)) \o Text(chunk)
      BY <3>4, <3>6, <3>9
    <3>11. Text(flat \o r) = Text(stream \o chunk)
      <4>1. /\ Text(flat) \in Seq(Chars) /\ Text(response) \in Seq(Chars)
            /\ Text(chunk) \in Seq(Chars)
        BY <3>2, <3>3, <3>4, <3>7
      <4>2. \A a, b, c \in Seq(Chars) : (a \o b) \o c = a \o (b \o c)
        BY ConcatAssociative
      <4> QED  BY <3>8, <3>10, <4>1, <4>2
    <3> QED  BY <3>1, <3>5, <3>11 DEF NoTextLost
  <2> QED  BY <2>1, <2>2, <2>3 DEF Next
<1> QED  BY <1>1, <1>2, TypeCorrect, PTL DEF Spec

\* recievedDataCallback(): in a stream of any length a record holds no "OK" but
\* one at its end.
THEOREM OneAnswerCorrect == Spec => []OneAnswerPerRecord
<1>1. Init => OneAnswerPerRecord
  BY DEF Init, OneAnswerPerRecord
<1>2. TypeOK /\ OneAnswerPerRecord /\ [Next]_vars => OneAnswerPerRecord'
  <2>1. SUFFICES ASSUME TypeOK, OneAnswerPerRecord, [Next]_vars
                 PROVE  OneAnswerPerRecord'
    OBVIOUS
  <2>2. CASE UNCHANGED vars
    BY <2>1, <2>2 DEF OneAnswerPerRecord, OKs, vars
  <2>3. ASSUME NEW chunk \in Chunks, recievedDataCallback(chunk)
        PROVE  OneAnswerPerRecord'
    <3>1. PICK r \in Seq(Plain) : log' = Append(log, SubSeq(r, 1, Cut(r)))
      BY <2>1, <2>3, StepProperties
    <3> DEFINE rec == SubSeq(r, 1, Cut(r))
    <3>2. rec \in Seq(Plain) /\ OKs(rec) \subseteq {Len(rec) - 1}
      BY RecordProperties
    <3> HIDE DEF rec
    <3>3. ASSUME NEW k \in 1..Len(log')
          PROVE  OKs(log'[k]) \subseteq {Len(log'[k]) - 1}
      <4>1. /\ log \in Seq(Seq(Plain)) /\ log' = Append(log, rec)
            /\ Len(log) \in Nat
        BY <2>1, <3>1 DEF TypeOK, Plain, rec
      <4>2. Len(log') = Len(log) + 1 /\ log'[Len(log) + 1] = rec
        BY <3>2, <4>1, AppendProperties
      <4>3. \A n \in 1..Len(log) : log'[n] = log[n]
        BY <3>2, <4>1, AppendProperties
      <4>4. CASE k = Len(log) + 1
        BY <3>2, <4>2, <4>4
      <4>5. CASE k # Len(log) + 1
        <5>1. k \in 1..Len(log)
          BY <4>1, <4>2, <4>5
        <5> QED  BY <2>1, <4>3, <5>1 DEF OneAnswerPerRecord
      <4> QED  BY <4>4, <4>5
    <3> QED  BY <3>3 DEF OneAnswerPerRecord, OKs
  <2> QED  BY <2>1, <2>2, <2>3 DEF Next
<1> QED  BY <1>1, <1>2, TypeCorrect, PTL DEF Spec
=============================================================================
