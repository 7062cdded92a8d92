----------------------------- MODULE TsMuxProofs -----------------------------
(* The muxer and its queue, for any streams, any times and any number of   *)
(* frames in libmpegts.                                                    *)
EXTENDS TsMux, QueueLemmas

-----------------------------------------------------------------------------
(* What is chosen of the first i frames of a queue.                        *)
Step(q, S, c, i) ==
  IF i = 0 THEN <<>>
  ELSE IF q[i] \in S THEN Append(c[i - 1], q[i]) ELSE c[i - 1]

(* The function that Chosen is defined by exists.                          *)
LEMMA ChosenExists ==
  ASSUME NEW X, NEW q \in Seq(X), NEW S
  PROVE  \E c : c = [i \in 0..Len(q) |-> Step(q, S, c, i)]
<1> DEFINE Upto(n) == \E c : c = [i \in 0..n |-> Step(q, S, c, i)]
           T == {n \in Nat : Upto(n)}
<1>1. 0 \in T
  <2> DEFINE c == [i \in 0..0 |-> <<>>]
  <2>1. c = [i \in 0..0 |-> Step(q, S, c, i)]
    BY DEF Step
  <2> QED
    BY <2>1
<1>2. ASSUME NEW n \in T PROVE n + 1 \in T
  <2>1. n \in Nat /\ Upto(n)
    OBVIOUS
  <2>2. PICK c : c = [i \in 0..n |-> Step(q, S, c, i)]
    BY <2>1
  <2> DEFINE d == [i \in 0..(n + 1) |->
                     IF i = n + 1 THEN Step(q, S, c, n + 1) ELSE c[i]]
  <2>3. \A i \in 0..(n + 1) : d[i] = Step(q, S, d, i)
    <3> SUFFICES ASSUME NEW i \in 0..(n + 1) PROVE d[i] = Step(q, S, d, i)
      OBVIOUS
    <3>1. CASE i = n + 1
      <4>1. d[i] = Step(q, S, c, n + 1) /\ i # 0 /\ d[i - 1] = c[n]
        BY <2>1, <3>1
      <4> QED
        BY <3>1, <4>1, <2>1 DEF Step
    <3>2. CASE i # n + 1
      <4>1. i \in 0..n /\ d[i] = c[i] /\ (i # 0 => d[i - 1] = c[i - 1])
        BY <2>1, <3>2
      <4>2. c[i] = Step(q, S, c, i)
        BY <2>2, <4>1
      <4> QED
        BY <4>1, <4>2 DEF Step
    <3> QED
      BY <3>1, <3>2
  <2>4. d = [i \in 0..(n + 1) |-> Step(q, S, d, i)]
    BY <2>3
  <2> HIDE DEF d
  <2>5. Upto(n + 1) /\ n + 1 \in Nat
    BY <2>1, <2>4
  <2> QED
    BY <2>5
<1>3. T \in SUBSET Nat
  OBVIOUS
<1> HIDE DEF T
<1>4. T = Nat
  BY <1>1, <1>2, <1>3, SetInduction
<1>5. Len(q) \in T
  BY <1>4, LenProperties
<1> QED
  BY <1>5 DEF T

LEMMA InRange ==
  ASSUME NEW X, NEW s \in Seq(X), NEW x
  PROVE  x \in Range(s) <=> \E k \in 1..Len(s) : s[k] = x
  BY LenProperties DEF Range

LEMMA AppendRange ==
  ASSUME NEW X, NEW s \in Seq(X), NEW e \in X
  PROVE  Range(Append(s, e)) = Range(s) \cup {e}
<1>1. <<e>> \in Seq(X) /\ Range(<<e>>) = {e}
  BY DEF Range
<1>2. Append(s, e) = s \o <<e>>
  BY AppendIsConcat
<1>3. Range(s \o <<e>>) = Range(s) \cup Range(<<e>>)
  BY <1>1, RangeConcatenation
<1> QED
  BY <1>1, <1>2, <1>3

(* A sequence keeps the order of another if it is a part of it.            *)
PartOf(r, q) ==
  \A a, b \in 1..Len(r) : a < b =>
    \E k, l \in 1..Len(q) : k < l /\ r[a] = q[k] /\ r[b] = q[l]

(* What was chosen is the elements of the queue that are in S, in the      *)
(* order of the queue.                                                     *)
LEMMA ChosenInOrder ==
  ASSUME NEW X, NEW q \in Seq(X), NEW S
  PROVE  /\ Chosen(q, S) \in Seq(X)
         /\ Range(Chosen(q, S)) = Range(q) \cap S
         /\ PartOf(Chosen(q, S), q)
<1> DEFINE C == CHOOSE c : c = [i \in 0..Len(q) |-> Step(q, S, c, i)]
           Good(i) ==
             /\ C[i] \in Seq(X)
             /\ \A x : x \in Range(C[i]) <=> x \in S /\ \E k \in 1..i : q[k] = x
             /\ \A a, b \in 1..Len(C[i]) : a < b =>
                  \E k, l \in 1..i : k < l /\ C[i][a] = q[k] /\ C[i][b] = q[l]
           T == {n \in Nat : n <= Len(q) => Good(n)}
<1>1. Chosen(q, S) = C[Len(q)]
  BY DEF Chosen, Step
<1>2. C = [i \in 0..Len(q) |-> Step(q, S, C, i)]
  BY ChosenExists
<1>3. Len(q) \in Nat /\ \A k \in 1..Len(q) : q[k] \in X
  BY LenProperties, ElementOfSeq
<1>4. \A i \in 0..Len(q) : C[i] = Step(q, S, C, i)
  <2> HIDE DEF C
  <2> QED BY <1>2
<1> HIDE DEF C
<1>5. 0 \in T
  <2>1. C[0] = <<>>
    BY <1>3, <1>4 DEF Step
  <2>2. C[0] \in Seq(X) /\ Len(C[0]) = 0
    BY <2>1, EmptySeq
  <2>3. \A x : x \notin Range(C[0])
    BY <2>2, InRange
  <2> QED
    BY <2>2, <2>3
<1>6. ASSUME NEW n \in T PROVE n + 1 \in T
  <2> SUFFICES ASSUME n + 1 <= Len(q) PROVE Good(n + 1)
    OBVIOUS
  <2>1. n \in Nat /\ n + 1 \in 1..Len(q) /\ n + 1 \in 0..Len(q) /\ n <= Len(q)
    BY <1>3
  <2>2. Good(n)
    BY <2>1
  <2>3. C[n + 1] = IF q[n + 1] \in S THEN Append(C[n], q[n + 1]) ELSE C[n]
    BY <1>4, <2>1 DEF Step
  <2>4. CASE q[n + 1] \notin S
    BY <2>1, <2>2, <2>3, <2>4
  <2>5. CASE q[n + 1] \in S
    <3> DEFINE c == C[n]
               e == q[n + 1]
    <3>1. c \in Seq(X) /\ e \in X /\ C[n + 1] = Append(c, e)
      BY <1>3, <2>1, <2>2, <2>3, <2>5
    <3>2. /\ Append(c, e) \in Seq(X) /\ Len(Append(c, e)) = Len(c) + 1
          /\ \A i \in 1..Len(c) : Append(c, e)[i] = c[i]
          /\ Append(c, e)[Len(c) + 1] = e
      BY <3>1, AppendProperties
    <3>3. Len(c) \in Nat
      BY <3>1, LenProperties
    <3>4. Range(Append(c, e)) = Range(c) \cup {e}
      BY <3>1, AppendRange
    <3>5. \A x : x \in Range(c) <=> x \in S /\ \E k \in 1..n : q[k] = x
      BY <2>2
    <3>6. \A a, b \in 1..Len(c) : a < b =>
            \E k, l \in 1..n : k < l /\ c[a] = q[k] /\ c[b] = q[l]
      BY <2>2
    <3>a. \A i \in 1..Len(c) : c[i] \in Range(c)
      BY <3>1, InRange
    <3> HIDE DEF c, Good
    <3>7. \A x : x \in Range(Append(c, e)) <=> x \in S /\ \E k \in 1..(n + 1) : q[k] = x
      <4> TAKE x
      <4>1. (\E k \in 1..(n + 1) : q[k] = x) <=> (x = e \/ \E k \in 1..n : q[k] = x)
        BY <2>1
      <4> QED
        BY <2>5, <3>4, <3>5, <4>1
    <3>8. ASSUME NEW a \in 1..(Len(c) + 1), NEW b \in 1..(Len(c) + 1), a < b
          PROVE  \E k, l \in 1..(n + 1) :
                   k < l /\ Append(c, e)[a] = q[k] /\ Append(c, e)[b] = q[l]
      <4>1. a \in 1..Len(c)
        BY <3>3, <3>8
      <4>2. CASE b \in 1..Len(c)
        <5>1. PICK k \in 1..n, l \in 1..n : k < l /\ c[a] = q[k] /\ c[b] = q[l]
          BY <3>6, <3>8, <4>1, <4>2
        <5>2. k \in 1..(n + 1) /\ l \in 1..(n + 1)
          BY <2>1, <5>1
        <5> QED
          BY <3>2, <4>1, <4>2, <5>1, <5>2
      <4>3. CASE b = Len(c) + 1
        <5>1. PICK k \in 1..n : q[k] = c[a]
          BY <3>5, <3>a, <4>1
        <5>2. k \in 1..(n + 1) /\ n + 1 \in 1..(n + 1) /\ k < n + 1
          BY <2>1, <5>1
        <5> QED
          BY <3>2, <4>1, <4>3, <5>1, <5>2
      <4> QED
        BY <3>3, <4>2, <4>3
    <3> DEFINE d == Append(c, e)
    <3>b. Len(d) = Len(c) + 1
      BY <3>2
    <3>9. d \in Seq(X)
      BY <3>2
    <3>c. \A x : x \in Range(d) <=> x \in S /\ \E k \in 1..(n + 1) : q[k] = x
      BY <3>7
    <3>d. ASSUME NEW a \in 1..Len(d), NEW b \in 1..Len(d), a < b
          PROVE  \E k, l \in 1..(n + 1) : k < l /\ d[a] = q[k] /\ d[b] = q[l]
      <4>1. a \in 1..(Len(c) + 1) /\ b \in 1..(Len(c) + 1)
        BY <3>b
      <4> QED
        BY <3>8, <3>d, <4>1
    <3> HIDE DEF d
    <3>10. C[n + 1] = d
      BY <3>1 DEF d
    <3>11. /\ C[n + 1] \in Seq(X)
           /\ \A x : x \in Range(C[n + 1]) <=> x \in S /\ \E k \in 1..(n + 1) : q[k] = x
      BY <3>9, <3>c, <3>10
    <3>12. \A a, b \in 1..Len(C[n + 1]) : a < b =>
             \E k, l \in 1..(n + 1) :
               k < l /\ C[n + 1][a] = q[k] /\ C[n + 1][b] = q[l]
      <4> HIDE DEF C
      <4> QED
        BY <3>d, <3>10
    <3> QED
      BY <3>11, <3>12 DEF Good
  <2> QED
    BY <2>4, <2>5
<1>7. T \in SUBSET Nat
  OBVIOUS
<1> HIDE DEF T
<1>8. T = Nat
  BY <1>5, <1>6, <1>7, SetInduction
<1>9. Len(q) \in T
  BY <1>3, <1>8
<1>10. Good(Len(q))
  BY <1>3, <1>9 DEF T
<1>11. \A x : x \in Range(C[Len(q)]) <=> x \in S /\ x \in Range(q)
  BY <1>10, InRange
<1> QED
  BY <1>1, <1>10, <1>11 DEF PartOf

(* What remove_item_from_queue leaves of a queue that has the item once.   *)
LEMMA RemovesIt ==
  ASSUME NEW X, NEW q \in Seq(X), NEW k \in 1..Len(q),
         \A i \in 1..Len(q) : q[i] = q[k] => i = k
  PROVE  /\ RemoveFirst(q, q[k]) \in Seq(X)
         /\ Range(RemoveFirst(q, q[k])) = Range(q) \ {q[k]}
         /\ PartOf(RemoveFirst(q, q[k]), q)
<1> DEFINE r == SubSeq(q, 1, k - 1) \o SubSeq(q, k + 1, Len(q))
<1>1. Len(q) \in Nat /\ \A i \in 1..Len(q) : q[i] \in X
  BY LenProperties, ElementOfSeq
<1>2. RemoveFirst(q, q[k]) = r
  <2>1. {i \in 1..Len(q) : q[i] = q[k]} = {k}
    OBVIOUS
  <2>2. Min({k}) = k
    BY <1>1 DEF Min
  <2>3. SelectInSeq(q, LAMBDA v : v = q[k]) = k
    BY <2>1, <2>2 DEF SelectInSeq
  <2> QED
    BY <2>3 DEF RemoveFirst, RemoveAt
<1>3. /\ r \in Seq(X) /\ Len(r) = Len(q) - 1
      /\ \A i \in 1..Len(r) : r[i] = IF i < k THEN q[i] ELSE q[i + 1]
  <2> DEFINE u == SubSeq(q, 1, k - 1)
             v == SubSeq(q, k + 1, Len(q))
  <2>1. /\ u \in Seq(X) /\ Len(u) = k - 1
        /\ \A i \in 1..(k - 1) : u[i] = q[i]
    <3>1. \A i \in 1..(k - 1) : q[i] \in X
      BY <1>1
    <3>2. /\ u \in Seq(X)
          /\ Len(u) = IF 1 <= k - 1 THEN k - 1 - 1 + 1 ELSE 0
          /\ \A i \in 1..k - 1 - 1 + 1 : u[i] = q[1 + i - 1]
      BY <1>1, <3>1, SubSeqProperties
    <3> QED
      BY <1>1, <3>2
  <2>2. /\ v \in Seq(X) /\ Len(v) = Len(q) - k
        /\ \A i \in 1..(Len(q) - k) : v[i] = q[k + i]
    <3>1. \A i \in (k + 1)..Len(q) : q[i] \in X
      BY <1>1
    <3>2. /\ v \in Seq(X)
          /\ Len(v) = IF k + 1 <= Len(q) THEN Len(q) - (k + 1) + 1 ELSE 0
          /\ \A i \in 1..Len(q) - (k + 1) + 1 : v[i] = q[(k + 1) + i - 1]
      BY <1>1, <3>1, SubSeqProperties
    <3> QED
      BY <1>1, <3>2
  <2> HIDE DEF u, v
  <2>3. /\ u \o v \in Seq(X) /\ Len(u \o v) = Len(u) + Len(v)
        /\ \A i \in 1..Len(u) + Len(v) :
             (u \o v)[i] = IF i <= Len(u) THEN u[i] ELSE v[i - Len(u)]
    BY <2>1, <2>2, ConcatProperties
  <2>4. ASSUME NEW i \in 1..(Len(q) - 1)
        PROVE  (u \o v)[i] = IF i < k THEN q[i] ELSE q[i + 1]
    <3>1. CASE i < k
      BY <1>1, <2>1, <2>2, <2>3, <3>1
    <3>2. CASE ~(i < k)
      <4>1. i - (k - 1) \in 1..(Len(q) - k) /\ k + (i - (k - 1)) = i + 1
        BY <1>1, <3>2
      <4>2. i \in 1..Len(u) + Len(v) /\ ~(i <= Len(u))
        BY <1>1, <2>1, <2>2, <3>2
      <4>3. (u \o v)[i] = v[i - (k - 1)]
        BY <2>1, <2>3, <4>2
      <4> QED
        BY <2>2, <3>2, <4>1, <4>3
    <3> QED
      BY <3>1, <3>2
  <2>5. u \o v \in Seq(X) /\ Len(u \o v) = Len(q) - 1
    BY <1>1, <2>1, <2>2, <2>3
  <2> QED
    BY <2>4, <2>5 DEF u, v
<1> HIDE DEF r
<1>4. ASSUME NEW x PROVE x \in Range(r) <=> x \in Range(q) /\ x # q[k]
  <2>1. ASSUME x \in Range(r) PROVE x \in Range(q) /\ x # q[k]
    <3>1. PICK i \in 1..Len(r) : r[i] = x
      BY <1>3, <2>1, InRange
    <3>2. PICK j \in 1..Len(q) : q[j] = x /\ j # k
      BY <1>1, <1>3, <3>1
    <3> QED
      BY <3>2, InRange
  <2>2. ASSUME x \in Range(q), x # q[k] PROVE x \in Range(r)
    <3>1. PICK j \in 1..Len(q) : q[j] = x
      BY <2>2, InRange
    <3>2. PICK i \in 1..Len(r) : r[i] = x
      <4>1. CASE j < k
        BY <1>1, <1>3, <3>1, <4>1
      <4>2. CASE j > k
        <5>1. j - 1 \in 1..Len(r) /\ ~(j - 1 < k) /\ (j - 1) + 1 = j
          BY <1>1, <1>3, <4>2
        <5> QED
          BY <1>3, <3>1, <5>1
      <4> QED
        BY <1>1, <2>2, <3>1, <4>1, <4>2
    <3> QED
      BY <1>3, <3>2, InRange
  <2> QED
    BY <2>1, <2>2
<1>5. ASSUME NEW a \in 1..Len(r), NEW b \in 1..Len(r), a < b
      PROVE  \E i, j \in 1..Len(q) : i < j /\ r[a] = q[i] /\ r[b] = q[j]
  <2> DEFINE Was(i) == IF i < k THEN i ELSE i + 1
  <2>1. Was(a) \in 1..Len(q) /\ Was(b) \in 1..Len(q) /\ Was(a) < Was(b)
    BY <1>1, <1>3, <1>5
  <2>2. r[a] = q[Was(a)] /\ r[b] = q[Was(b)]
    BY <1>3
  <2> QED
    BY <2>1, <2>2
<1>6. Range(r) = Range(q) \ {q[k]}
  BY <1>4
<1>7. PartOf(r, q)
  BY <1>5 DEF PartOf
<1> QED
  BY <1>2, <1>3, <1>6, <1>7
-----------------------------------------------------------------------------
(* What the muxer relies on between its scan and its removals: the queue   *)
(* and the frames taken from it are in the order of each stream, and what  *)
(* is queued and not taken was queued after what was muxed, or has a later *)
(* time.                                                                   *)
Ordered(q) == \A i, j \in DOMAIN q : i < j => InOrder(q[i], q[j])

Ahead == \A f \in Muxed, g \in Range(muxQ.items) \ Range(frames) : InTurn(f, g)

Held ==
  /\ \A s \in Streams : queued[s] <= Count(s)
  /\ Ordered(muxQ.items)
  /\ Ordered(frames)
  /\ Range(frames) \subseteq Muxed
  /\ Ahead
  /\ FramesAccounted
  /\ StreamOrder

MuxInv ==
  /\ TypeOK
  /\ NoLostWakeup
  /\ muxPc = "scan" => frames = <<>>
  /\ Held

(* A part of a sequence in order is in order.                              *)
LEMMA OrderedPart ==
  ASSUME NEW q \in Seq(CodedFrame), NEW r \in Seq(CodedFrame),
         Ordered(q), PartOf(r, q)
  PROVE  Ordered(r)
<1>1. DOMAIN q = 1..Len(q) /\ DOMAIN r = 1..Len(r)
  BY LenProperties
<1>2. ASSUME NEW a \in 1..Len(r), NEW b \in 1..Len(r), a < b
      PROVE  InOrder(r[a], r[b])
  <2>1. PICK k \in 1..Len(q), l \in 1..Len(q) : k < l /\ r[a] = q[k] /\ r[b] = q[l]
    BY <1>2 DEF PartOf
  <2>2. InOrder(q[k], q[l])
    BY <1>1, <2>1 DEF Ordered
  <2> QED
    BY <2>1, <2>2
<1> QED
  BY <1>1, <1>2 DEF Ordered

(* A sequence in order holds a frame once.                                 *)
LEMMA OrderedOnce ==
  ASSUME NEW q \in Seq(CodedFrame), Ordered(q)
  PROVE  /\ IsInjective(q)
         /\ \A i, j \in 1..Len(q) : q[i] = q[j] => i = j
<1>1. Len(q) \in Nat /\ DOMAIN q = 1..Len(q) /\ \A i \in 1..Len(q) : q[i] \in CodedFrame
  BY LenProperties, ElementOfSeq
<1>2. \A f \in CodedFrame : ~InOrder(f, f)
  BY DEF InOrder, CodedFrame
<1>3. ASSUME NEW i \in 1..Len(q), NEW j \in 1..Len(q), q[i] = q[j] PROVE i = j
  BY <1>1, <1>2, <1>3 DEF Ordered
<1> QED
  BY <1>1, <1>3 DEF IsInjective

(* A frame that comes after all of a sequence keeps it in order.           *)
LEMMA OrderedAppend ==
  ASSUME NEW q \in Seq(CodedFrame), NEW e \in CodedFrame, Ordered(q),
         \A f \in Range(q) : InOrder(f, e)
  PROVE  Ordered(Append(q, e))
<1>1. /\ Len(q) \in Nat /\ DOMAIN q = 1..Len(q)
      /\ DOMAIN Append(q, e) = 1..(Len(q) + 1)
      /\ \A i \in 1..Len(q) : Append(q, e)[i] = q[i]
      /\ Append(q, e)[Len(q) + 1] = e
  BY AppendProperties, LenProperties
<1>2. \A i \in 1..Len(q) : InOrder(q[i], e)
  BY <1>1 DEF Range
<1>3. ASSUME NEW i \in 1..(Len(q) + 1), NEW j \in 1..(Len(q) + 1), i < j
      PROVE  InOrder(Append(q, e)[i], Append(q, e)[j])
  <2>1. i \in 1..Len(q)
    BY <1>1, <1>3
  <2>2. CASE j \in 1..Len(q)
    BY <1>1, <1>3, <2>1, <2>2 DEF Ordered
  <2>3. CASE j = Len(q) + 1
    BY <1>1, <1>2, <2>1, <2>3
  <2> QED
    BY <1>1, <2>2, <2>3
<1> QED
  BY <1>1, <1>3 DEF Ordered

(* The frames of each stream up to a number of them.                       *)
LEMMA UpTo ==
  ASSUME NEW Q \in [Streams -> Nat], NEW x
  PROVE  x \in UNION {{Frame(s, n) : n \in 1..Q[s]} : s \in Streams}
           <=> x \in CodedFrame /\ x.n \in 1..Q[x.stream]
<1>1. ASSUME NEW s \in Streams, NEW n \in 1..Q[s], x = Frame(s, n)
      PROVE  x \in CodedFrame /\ x.n \in 1..Q[x.stream]
  <2>1. n \in Nat \ {0}
    BY Q[s] \in Nat
  <2> QED
    BY <1>1, <2>1 DEF Frame, CodedFrame
<1>2. ASSUME x \in CodedFrame, x.n \in 1..Q[x.stream]
      PROVE  x.stream \in Streams /\ x = Frame(x.stream, x.n)
  BY <1>2 DEF Frame, CodedFrame
<1> QED
  BY <1>1, <1>2

(* A stream has some number of frames.                                     *)
LEMMA CountIsNat ==
  ASSUME NEW s \in Streams
  PROVE  Count(s) \in Nat
<1>1. Len(Video) \in Nat
  BY MuxAssumption, LenProperties
<1>2. s # VideoStream => Audio[s] \in Seq(Nat)
  BY MuxAssumption DEF Streams
<1> QED
  BY <1>1, <1>2, LenProperties DEF Count

(* The frames there are have times.                                        *)
LEMMA TimeIsInt ==
  ASSUME NEW f \in CodedFrame, f.n <= Count(f.stream)
  PROVE  /\ Time(f) \in Int
         /\ IsVideo(f) => f.n \in 1..Len(Video)
         /\ ~IsVideo(f) => Pts(f) \in Int
<1>1. f.n \in Nat \ {0} /\ f.stream \in Streams
  BY DEF CodedFrame
<1>2. CASE IsVideo(f)
  <2>1. Len(Video) \in Nat /\ Count(f.stream) = Len(Video)
    BY <1>2, MuxAssumption, LenProperties DEF Count, IsVideo
  <2>2. f.n \in 1..Len(Video)
    BY <1>1, <2>1
  <2>3. Video[f.n] \in [pts : Nat, real_pts : Int, real_dts : Int]
    BY <2>2, MuxAssumption, ElementOfSeq
  <2> QED
    BY <1>2, <2>2, <2>3 DEF Time
<1>3. CASE ~IsVideo(f)
  <2> DEFINE s == f.stream
  <2>1. s \in Others /\ s # VideoStream /\ Count(s) = Len(Audio[s])
    BY <1>1, <1>3 DEF Streams, IsVideo, Count
  <2>2. Audio[s] \in Seq(Nat) /\ Len(Audio[s]) \in Nat
    BY <2>1, MuxAssumption, LenProperties
  <2>3. f.n \in 1..Len(Audio[s])
    BY <1>1, <2>1, <2>2
  <2>4. Audio[s][f.n] \in Nat
    BY <2>2, <2>3, ElementOfSeq
  <2> QED
    BY <1>3, <2>4 DEF Time, Pts
<1> QED
  BY <1>2, <1>3

(* Of two frames of one stream the one that is due is queued first or has  *)
(* the earlier time.                                                       *)
LEMMA DueFirst ==
  ASSUME NEW f \in CodedFrame, NEW g \in CodedFrame,
         f.n <= Count(f.stream), g.n <= Count(g.stream),
         NEW pts \in Int, NEW real \in Int, NEW dts \in Int,
         Due(f, pts, real, dts), ~Due(g, pts, real, dts)
  PROVE  InTurn(f, g)
<1> SUFFICES ASSUME f.stream = g.stream PROVE Time(f) < Time(g)
  BY DEF InTurn
<1>1. Time(f) \in Int /\ Time(g) \in Int /\ (IsVideo(f) <=> IsVideo(g))
  BY TimeIsInt DEF IsVideo
<1>2. CASE IsVideo(f)
  BY <1>1, <1>2 DEF Due, Dts, Time
<1>3. CASE ~IsVideo(f)
  <2>1. Pts(f) \in Int /\ Pts(g) \in Int /\ Time(f) = Pts(f) /\ Time(g) = Pts(g)
    BY <1>1, <1>3, TimeIsInt DEF Time
  <2>2. Pts(f) - pts + real <= dts /\ ~(Pts(g) - pts + real <= dts)
    BY <1>1, <1>3 DEF Due, Dts
  <2> QED
    BY <2>1, <2>2
<1> QED
  BY <1>2, <1>3

(* The order of a queue is the stronger one.                               *)
LEMMA OrderIsTurn ==
  ASSUME NEW f, NEW g, InOrder(f, g)
  PROVE  InTurn(f, g)
  BY DEF InOrder, InTurn
-----------------------------------------------------------------------------
(* The frames that there are come one after the other in their streams.    *)
LEMMA KnownFrames ==
  ASSUME TypeOK, Held
  PROVE  /\ Range(muxQ.items) \subseteq AllQueued
         /\ Muxed \subseteq AllQueued
         /\ \A f : f \in AllQueued <=> f \in CodedFrame /\ f.n \in 1..queued[f.stream]
         /\ \A f \in AllQueued : f.n <= Count(f.stream)
<1>1. Range(muxQ.items) \subseteq AllQueued /\ Muxed \subseteq AllQueued
  BY DEF Held, FramesAccounted
<1>2. queued \in [Streams -> Nat]
  BY DEF TypeOK
<1>3. \A f : f \in AllQueued <=> f \in CodedFrame /\ f.n \in 1..queued[f.stream]
  BY <1>2, UpTo DEF AllQueued
<1>4. ASSUME NEW f \in AllQueued PROVE f.n <= Count(f.stream)
  <2>1. f.stream \in Streams /\ f.n \in 1..queued[f.stream]
    BY <1>3 DEF CodedFrame
  <2>2. queued[f.stream] \in Nat /\ queued[f.stream] <= Count(f.stream)
    BY <1>2, <2>1 DEF Held
  <2>3. Count(f.stream) \in Nat
    BY <2>1, CountIsNat
  <2> QED
    BY <2>1, <2>2, <2>3
<1> QED
  BY <1>1, <1>3, <1>4

(* A step that moves no frame keeps what is held of them.                  *)
LEMMA HeldStill ==
  ASSUME Held, muxQ'.items = muxQ.items, UNCHANGED <<queued, frames, written, early>>
  PROVE  Held'
  BY DEF Held, Ahead, FramesAccounted, StreamOrder, AllQueued, Muxed, Ordered

(* queue.c signals in_cv whenever a frame is added.                        *)
LEMMA OnlyMuxSleeps ==
  ASSUME NEW q \in Queue(CodedFrame, {"mux"}), NEW w \in WakeOne(q.in)
  PROVE  w = {}
<1>1. q.in \subseteq {"mux"}
  BY DEF Queue
<1> QED
  BY <1>1, WakeOneWakes

LEMMA QueueFrameHolds ==
  ASSUME MuxInv, NEW s \in Streams, QueueFrame(s)
  PROVE  MuxInv'
<1> DEFINE f == Frame(s, queued[s] + 1)
<1> USE DEF MuxInv
<1>1. /\ queued \in [Streams -> Nat] /\ muxQ \in Queue(CodedFrame, {"mux"})
      /\ muxQ.items \in Seq(CodedFrame) /\ queuedAt \in [Streams -> Seq(Nat)]
      /\ written \in Seq(Seq(CodedFrame))
  BY DEF TypeOK, Queue
<1>2. f \in CodedFrame /\ f.stream = s /\ f.n = queued[s] + 1
  BY <1>1 DEF Frame, CodedFrame
<1>3. /\ muxQ' \in Queue(CodedFrame, {"mux"})
      /\ muxQ'.items = Append(muxQ.items, f)
      /\ muxQ'.in = {}
  <2>1. muxQ' \in AddToQueue(muxQ, f)
    BY DEF QueueFrame
  <2> HIDE DEF f
  <2>2. /\ muxQ' \in Queue(CodedFrame, {"mux"})
        /\ muxQ'.items = Append(muxQ.items, f)
        /\ muxQ'.in \in WakeOne(muxQ.in)
    BY <1>1, <1>2, <2>1, AddToQueueType
  <2> QED
    BY <1>1, <2>2, OnlyMuxSleeps
<1>4. /\ queued' = [queued EXCEPT ![s] = queued[s] + 1]
      /\ queued[s] < Count(s)
      /\ queuedAt' = [queuedAt EXCEPT ![s] = Append(queuedAt[s], Len(written))]
      /\ UNCHANGED <<muxVars, cancelMux, written, early>>
  BY DEF QueueFrame
<1>5. queued' \in [Streams -> Nat] /\ queued'[s] = queued[s] + 1
      /\ \A t \in Streams : t # s => queued'[t] = queued[t]
  BY <1>1, <1>4
<1>6. TypeOK'
  <2>1. Append(queuedAt[s], Len(written)) \in Seq(Nat)
    <3>1. queuedAt[s] \in Seq(Nat) /\ Len(written) \in Nat
      BY <1>1, LenProperties
    <3> QED
      BY <3>1, AppendProperties
  <2>2. queuedAt' \in [Streams -> Seq(Nat)]
    BY <1>1, <1>4, <2>1
  <2> QED
    BY <1>3, <1>4, <1>5, <2>2 DEF TypeOK, muxVars
<1>7. NoLostWakeup'
  BY <1>3 DEF NoLostWakeup
<1>8. AllQueued' = AllQueued \cup {f} /\ f \notin AllQueued
  <2>1. \A x : x \in AllQueued' <=> x \in CodedFrame /\ x.n \in 1..queued'[x.stream]
    BY <1>5, UpTo DEF AllQueued
  <2>2. \A x : x \in AllQueued <=> x \in CodedFrame /\ x.n \in 1..queued[x.stream]
    BY KnownFrames
  <2>3. f \notin AllQueued /\ f \in AllQueued'
    <3>1. f.n \in 1..queued'[f.stream] /\ f.n \notin 1..queued[f.stream]
      <4>1. queued[s] \in Nat
        BY <1>1
      <4> HIDE DEF f
      <4> QED
        BY <1>2, <1>5, <4>1
    <3> QED
      BY <1>2, <2>1, <2>2, <3>1
  <2>4. ASSUME NEW x \in CodedFrame, x # f
        PROVE  x \in AllQueued' <=> x \in AllQueued
    <3>1. x.stream \in Streams /\ x.n \in Nat
      BY DEF CodedFrame
    <3>2. CASE x.stream # s
      BY <1>5, <2>1, <2>2, <3>1, <3>2
    <3>3. CASE x.stream = s
      <4>1. x.n # queued[s] + 1
        BY <2>4, <3>3 DEF CodedFrame, Frame
      <4>2. x.n \in 1..(queued[s] + 1) <=> x.n \in 1..queued[s]
        BY <1>1, <3>1, <4>1
      <4> QED
        BY <1>5, <2>1, <2>2, <3>3, <4>2
    <3> QED
      BY <3>2, <3>3
  <2> QED
    BY <2>1, <2>2, <2>3, <2>4
<1>9. Range(muxQ'.items) = Range(muxQ.items) \cup {f}
  <2> HIDE DEF f
  <2> QED
    BY <1>1, <1>2, <1>3, AppendRange
<1>10. \A g \in AllQueued : InOrder(g, f)
  BY <1>1, <1>2, KnownFrames DEF InOrder, CodedFrame
<1>11. Muxed' = Muxed /\ frames' = frames /\ early' = early /\ written' = written
  BY <1>4 DEF Muxed, muxVars
<1> HIDE DEF f
<1>12. Ordered(muxQ'.items)
  <2>1. Ordered(muxQ.items) /\ \A g \in Range(muxQ.items) : InOrder(g, f)
    BY <1>10, KnownFrames DEF Held
  <2> QED
    BY <1>1, <1>2, <1>3, <2>1, OrderedAppend
<1>13. Held'
  <2>1. (\A t \in Streams : queued[t] <= Count(t))'
    <3>1. \A t \in Streams : queued'[t] <= Count(t)
      <4>1. ASSUME NEW t \in Streams PROVE queued'[t] <= Count(t)
        <5>1. CASE t = s
          BY <1>1, <1>4, <1>5, <5>1, CountIsNat
        <5>2. CASE t # s
          BY <1>5, <5>2 DEF Held
        <5> QED
          BY <5>1, <5>2
      <4> QED
        BY <4>1
    <3> QED
      BY <3>1 DEF Count
  <2>2. Ordered(muxQ.items)' /\ Ordered(frames)' /\ (Range(frames) \subseteq Muxed)'
    BY <1>11, <1>12 DEF Ordered, Held
  <2>3. Ahead'
    <3>1. \A h \in Muxed, g \in (Range(muxQ.items) \cup {f}) \ Range(frames) : InTurn(h, g)
      BY <1>10, KnownFrames, OrderIsTurn DEF Held, Ahead
    <3> QED
      BY <1>9, <1>11, <3>1 DEF Ahead
  <2>4. FramesAccounted'
    <3>1. IsInjective(muxQ'.items)
      BY <1>3, <1>12, OrderedOnce DEF Queue
    <3>2. f \notin Muxed /\ f \notin early /\ f \notin Range(muxQ.items)
      BY <1>8 DEF Held, FramesAccounted
    <3>3. /\ Range(muxQ.items) \cup ((Muxed \ Range(frames)) \cup early) = AllQueued
          /\ Range(muxQ.items) \cap ((Muxed \ Range(frames)) \cup early) = {}
          /\ Range(frames) \subseteq Range(muxQ.items)
          /\ early \cap Muxed = {}
      BY DEF Held, FramesAccounted
    <3> QED
      BY <1>8, <1>9, <1>11, <3>1, <3>2, <3>3 DEF FramesAccounted
  <2>5. StreamOrder'
    BY <1>11 DEF StreamOrder, Held
  <2> QED
    BY <2>1, <2>2, <2>3, <2>4, <2>5 DEF Held
<1> QED
  BY <1>4, <1>6, <1>7, <1>13 DEF muxVars

(* The frames of a batch come in turn after all that was muxed, and before *)
(* all that stay in the queue.                                             *)
LEMMA MuxTakeHolds ==
  ASSUME MuxInv, MuxTake
  PROVE  MuxInv'
<1> USE DEF MuxInv
<1> DEFINE items == muxQ.items
<1>1. /\ muxPc = "scan" /\ frames = <<>> /\ Range(frames) = {}
      /\ muxQ \in Queue(CodedFrame, {"mux"}) /\ items \in Seq(CodedFrame)
      /\ firstPts \in Int /\ firstReal \in Int /\ early \subseteq CodedFrame
      /\ written \in Seq(Seq(CodedFrame)) /\ frames \in Seq(CodedFrame)
      /\ "mux" \notin muxQ.in
  <2>1. /\ muxPc = "scan" /\ frames = <<>> /\ "mux" \notin muxQ.in
        /\ muxQ \in Queue(CodedFrame, {"mux"})
        /\ firstPts \in Int /\ firstReal \in Int /\ early \subseteq CodedFrame
        /\ written \in Seq(Seq(CodedFrame)) /\ frames \in Seq(CodedFrame)
    BY DEF MuxTake, Scanning, TypeOK
  <2>2. items \in Seq(CodedFrame)
    BY <2>1 DEF Queue
  <2>3. Range(frames) = {}
    <3>1. DOMAIN <<>> = {}
      OBVIOUS
    <3> QED
      BY <2>1, <3>1 DEF Range
  <2> QED
    BY <2>1, <2>2, <2>3
<1>2. PICK v \in DOMAIN items :
        LET video == Video[items[v].n]
            first == firstPts = -1
            pts   == IF first THEN video.pts ELSE firstPts
            real  == IF first THEN video.real_pts ELSE firstReal
            old   == {f \in Range(items) : first /\ TooEarly(f, pts)}
            kept  == Chosen(items, Range(items) \ old)
            due   == Chosen(kept, {f \in Range(kept) :
                                     Due(f, pts, real, video.real_dts)})
        IN  /\ IsVideo(items[v])
            /\ firstPts' = pts
            /\ firstReal' = real
            /\ muxQ' = [muxQ EXCEPT !.items = kept]
            /\ early' = early \cup old
            /\ \/ frames' = due /\ written' = Append(written, due) /\ muxPc' = "write"
               \/ muxPc' = "done" /\ UNCHANGED <<frames, written>>
  BY DEF MuxTake
<1>3. UNCHANGED <<queued, inLib, smoothing, aborted, cancelMux, queuedAt>>
  BY DEF MuxTake
<1> DEFINE video == Video[items[v].n]
           pts   == IF firstPts = -1 THEN video.pts ELSE firstPts
           real  == IF firstPts = -1 THEN video.real_pts ELSE firstReal
           dts   == video.real_dts
           old   == {f \in Range(items) : firstPts = -1 /\ TooEarly(f, pts)}
           kept  == Chosen(items, Range(items) \ old)
           ready == {f \in Range(kept) : Due(f, pts, real, dts)}
           due   == Chosen(kept, ready)
<1>4. /\ firstPts' = pts /\ firstReal' = real
      /\ muxQ' = [muxQ EXCEPT !.items = kept]
      /\ early' = early \cup old
      /\ \/ frames' = due /\ written' = Append(written, due) /\ muxPc' = "write"
         \/ muxPc' = "done" /\ frames' = frames /\ written' = written
  BY <1>2
<1>5. pts \in Int /\ real \in Int /\ dts \in Int
  <2>1. items[v] \in Range(items) /\ items[v].n <= Count(items[v].stream)
        /\ items[v] \in CodedFrame
    BY KnownFrames DEF Range
  <2>2. items[v].n \in 1..Len(Video)
    <3>1. Len(Video) \in Nat
      BY MuxAssumption, LenProperties
    <3> QED
      BY SMTT(20), <1>2, <2>1, <3>1 DEF IsVideo, Count, CodedFrame
  <2>3. video \in [pts : Nat, real_pts : Int, real_dts : Int]
    BY <2>2, MuxAssumption, ElementOfSeq
  <2> QED
    BY <1>1, <2>3
<1>6. /\ kept \in Seq(CodedFrame)
      /\ Range(kept) = Range(items) \ old
      /\ PartOf(kept, items)
  <2> HIDE DEF old
  <2>1. /\ kept \in Seq(CodedFrame)
        /\ Range(kept) = Range(items) \cap (Range(items) \ old)
        /\ PartOf(kept, items)
    BY <1>1, ChosenInOrder
  <2> QED
    BY <2>1
<1>7. /\ due \in Seq(CodedFrame)
      /\ Range(due) = ready
      /\ PartOf(due, kept)
  <2> HIDE DEF kept
  <2>1. /\ due \in Seq(CodedFrame)
        /\ Range(due) = Range(kept) \cap ready
        /\ PartOf(due, kept)
    BY <1>6, ChosenInOrder
  <2> QED
    BY <2>1
<1>8. old \subseteq Range(items) /\ ready \subseteq Range(kept)
  OBVIOUS
<1>9. \A f \in ready, g \in Range(kept) \ ready : InTurn(f, g)
  <2>1. \A f \in Range(kept) : f \in CodedFrame /\ f.n <= Count(f.stream)
    BY <1>6, KnownFrames
  <2>2. \A f \in ready : f \in Range(kept) /\ Due(f, pts, real, dts)
    OBVIOUS
  <2>3. \A g \in Range(kept) \ ready : g \in Range(kept) /\ ~Due(g, pts, real, dts)
    OBVIOUS
  <2> HIDE DEF ready, kept, pts, real, dts
  <2> QED
    BY <1>5, <2>1, <2>2, <2>3, DueFirst
<1> HIDE DEF due, ready, kept, old, pts, real, dts, video
<1>10. Ordered(kept) /\ Ordered(due)
  BY <1>1, <1>6, <1>7, OrderedPart DEF Held
<1>11. muxQ' \in Queue(CodedFrame, {"mux"}) /\ muxQ'.items = kept /\ muxQ'.in = muxQ.in
  BY <1>1, <1>4, <1>6 DEF Queue
<1>12. /\ Range(items) \cup (Muxed \cup early) = AllQueued
       /\ Range(items) \cap (Muxed \cup early) = {}
       /\ early \cap Muxed = {}
  BY <1>1 DEF Held, FramesAccounted
<1>13. AllQueued' = AllQueued
  BY <1>3 DEF AllQueued
<1>14. IsInjective(kept)
  BY <1>6, <1>10, OrderedOnce
<1>15. \A f \in Muxed, g \in Range(items) : InTurn(f, g)
  BY <1>1 DEF Held, Ahead
<1>16. NoLostWakeup'
  BY <1>1, <1>11 DEF NoLostWakeup
<1>17. (\A t \in Streams : queued[t] <= Count(t))'
  BY <1>3 DEF Held, Count
<1>18. old \subseteq CodedFrame
  BY <1>8, KnownFrames
<1>19. CASE frames' = due /\ written' = Append(written, due) /\ muxPc' = "write"
  <2>1. /\ written' \in Seq(Seq(CodedFrame))
        /\ Len(written') = Len(written) + 1
        /\ DOMAIN written' = 1..(Len(written) + 1) /\ DOMAIN written = 1..Len(written)
        /\ \A i \in 1..Len(written) : written'[i] = written[i]
        /\ written'[Len(written) + 1] = due
        /\ Len(written) \in Nat
    BY <1>1, <1>7, <1>19, AppendProperties, LenProperties
  <2>2. Muxed' = Muxed \cup ready
    <3>1. \A x : x \in Muxed' <=> \E i \in 1..(Len(written) + 1) : x \in Range(written'[i])
      BY <2>1 DEF Muxed
    <3>2. \A x : x \in Muxed <=> \E i \in 1..Len(written) : x \in Range(written[i])
      BY <2>1 DEF Muxed
    <3>3. ASSUME NEW x PROVE x \in Muxed' <=> x \in Muxed \/ x \in ready
      <4>1. ASSUME x \in Muxed' PROVE x \in Muxed \/ x \in ready
        <5>1. PICK i \in 1..(Len(written) + 1) : x \in Range(written'[i])
          BY <3>1, <4>1
        <5>2. CASE i = Len(written) + 1
          BY <1>7, <2>1, <5>1, <5>2
        <5>3. CASE i \in 1..Len(written)
          BY <2>1, <3>2, <5>1, <5>3
        <5> QED
          BY <2>1, <5>2, <5>3
      <4>2. ASSUME x \in Muxed PROVE x \in Muxed'
        <5>1. PICK i \in 1..Len(written) : x \in Range(written[i])
          BY <3>2, <4>2
        <5>2. i \in 1..(Len(written) + 1)
          BY <2>1
        <5> QED
          BY <2>1, <3>1, <5>1, <5>2
      <4>3. ASSUME x \in ready PROVE x \in Muxed'
        <5>1. Len(written) + 1 \in 1..(Len(written) + 1)
          BY <2>1
        <5> QED
          BY <1>7, <2>1, <3>1, <4>3, <5>1
      <4> QED
        BY <4>1, <4>2, <4>3
    <3> QED
      BY <3>3
  <2>3. TypeOK'
    BY <1>1, <1>3, <1>4, <1>5, <1>7, <1>11, <1>18, <1>19, <2>1 DEF TypeOK
  <2>4. Ahead'
    <3>1. \A f \in Muxed \cup ready, g \in Range(kept) \ ready : InTurn(f, g)
      BY <1>6, <1>9, <1>15
    <3> QED
      BY <1>7, <1>11, <1>19, <2>2, <3>1 DEF Ahead
  <2>5. FramesAccounted'
    <3>1. Muxed \cap ready = {} /\ ready \cap early = {} /\ ready \cap old = {}
      BY <1>6, <1>8, <1>12
    <3>2. /\ Range(kept) \cup (((Muxed \cup ready) \ ready) \cup (early \cup old)) = AllQueued
          /\ Range(kept) \cap (((Muxed \cup ready) \ ready) \cup (early \cup old)) = {}
          /\ (early \cup old) \cap (Muxed \cup ready) = {}
      BY <1>6, <1>8, <1>12, <3>1
    <3> QED
      BY <1>4, <1>7, <1>8, <1>11, <1>13, <1>14, <1>19, <2>2, <3>2 DEF FramesAccounted
  <2>6. StreamOrder'
    <3>1. ASSUME NEW a \in 1..(Len(written) + 1), NEW b \in 1..(Len(written) + 1),
                 NEW i \in DOMAIN written'[a], NEW j \in DOMAIN written'[b]
          PROVE  /\ a = b /\ i < j => InOrder(written'[a][i], written'[b][j])
                 /\ a < b => InTurn(written'[a][i], written'[b][j])
      <4>1. CASE b \in 1..Len(written) /\ a \in 1..Len(written)
        <5>1. a \in 1..Len(written)
          BY <4>1
        <5>2. written'[a] = written[a] /\ written'[b] = written[b]
          BY <2>1, <4>1, <5>1
        <5> QED
          BY <2>1, <3>1, <4>1, <5>1, <5>2 DEF Held, StreamOrder
      <4>2. CASE b = Len(written) + 1 /\ a \in 1..Len(written)
        <5>1. written'[a][i] \in Muxed
          <6>1. written'[a] = written[a] /\ a \in DOMAIN written
            BY <2>1, <4>2
          <6>2. written[a][i] \in Range(written[a])
            BY <6>1 DEF Range
          <6> QED
            BY <6>1, <6>2 DEF Muxed
        <5>2. written'[b][j] \in Range(items)
          BY <1>6, <1>7, <1>8, <2>1, <4>2 DEF Range
        <5>3. a # b
          BY <2>1, <4>2
        <5> QED
          BY <1>15, <5>1, <5>2, <5>3
      <4>3. CASE b = Len(written) + 1 /\ a = Len(written) + 1
        <5>1. written'[a] = due /\ written'[b] = due /\ ~(a < b)
          BY <2>1, <4>3
        <5> QED
          BY <1>10, <5>1 DEF Ordered
      <4>4. CASE b \in 1..Len(written) /\ a = Len(written) + 1
        BY <2>1, <4>4
      <4> QED
        BY <2>1, <4>1, <4>2, <4>3, <4>4
    <3> QED
      BY <2>1, <3>1 DEF StreamOrder
  <2>7. Ordered(muxQ.items)' /\ Ordered(frames)' /\ (Range(frames) \subseteq Muxed)'
    BY <1>7, <1>10, <1>11, <1>19, <2>2 DEF Ordered
  <2>8. Held'
    BY <1>17, <2>4, <2>5, <2>6, <2>7 DEF Held
  <2> QED
    BY <1>16, <1>19, <2>3, <2>8
<1>20. CASE muxPc' = "done" /\ frames' = frames /\ written' = written
  <2>1. Muxed' = Muxed
    BY <1>20 DEF Muxed
  <2>2. TypeOK'
    BY <1>1, <1>3, <1>4, <1>5, <1>11, <1>18, <1>20 DEF TypeOK
  <2>3. Ahead'
    BY <1>6, <1>11, <1>15, <2>1 DEF Ahead
  <2>4. FramesAccounted'
    <3>1. Range(frames') = {}
      BY <1>1, <1>20
    <3>2. /\ Range(kept) \cup (Muxed \cup (early \cup old)) = AllQueued
          /\ Range(kept) \cap (Muxed \cup (early \cup old)) = {}
          /\ (early \cup old) \cap Muxed = {}
      BY <1>6, <1>8, <1>12
    <3> QED
      BY <1>4, <1>11, <1>13, <1>14, <2>1, <3>1, <3>2 DEF FramesAccounted
  <2>5. StreamOrder'
    BY <1>20 DEF StreamOrder, Held
  <2>6. Ordered(muxQ.items)' /\ Ordered(frames)' /\ (Range(frames) \subseteq Muxed)'
    BY <1>10, <1>11, <1>20, <2>1 DEF Ordered, Held
  <2>7. Held'
    BY <1>17, <2>3, <2>4, <2>5, <2>6 DEF Held
  <2> QED
    BY <1>16, <1>20, <2>2, <2>7
<1> QED
  BY <1>4, <1>19, <1>20

(* The frame to remove is still queued, and once.                          *)
LEMMA MuxRemoveHolds ==
  ASSUME MuxInv, MuxRemove
  PROVE  MuxInv'
<1> USE DEF MuxInv
<1> DEFINE items == muxQ.items
           h == Head(frames)
<1>1. /\ muxPc = "remove" /\ frames # <<>> /\ frames \in Seq(CodedFrame)
      /\ frames' = Tail(frames) /\ muxQ' \in RemoveItem(muxQ, h)
      /\ muxQ \in Queue(CodedFrame, {"mux"})
      /\ UNCHANGED <<queued, muxPc, firstPts, firstReal, inLib, smoothing, aborted,
                     cancelMux, written, early, queuedAt>>
  BY DEF MuxRemove, TypeOK, history
<1>2. items \in Seq(CodedFrame) /\ Ordered(items) /\ Ordered(frames)
  BY <1>1 DEF Queue, Held
<1>3. /\ Tail(frames) \in Seq(CodedFrame) /\ Len(Tail(frames)) = Len(frames) - 1
      /\ \A i \in 1..Len(Tail(frames)) : Tail(frames)[i] = frames[i + 1]
      /\ h = frames[1] /\ Len(frames) \in Nat \ {0}
  BY <1>1, HeadTailProperties, SeqFacts, EmptySeq
<1>4. /\ PartOf(Tail(frames), frames)
      /\ Range(Tail(frames)) = Range(frames) \ {h}
      /\ h \in Range(frames)
  <2>1. PartOf(Tail(frames), frames)
    <3>1. ASSUME NEW a \in 1..Len(Tail(frames)), NEW b \in 1..Len(Tail(frames)), a < b
          PROVE  \E k, l \in 1..Len(frames) :
                   k < l /\ Tail(frames)[a] = frames[k] /\ Tail(frames)[b] = frames[l]
      <4>1. a + 1 \in 1..Len(frames) /\ b + 1 \in 1..Len(frames) /\ a + 1 < b + 1
        BY <1>3, <3>1
      <4> QED
        BY <1>3, <4>1
    <3> QED
      BY <3>1 DEF PartOf
  <2>2. h \in Range(frames)
    <3>1. 1 \in 1..Len(frames)
      BY <1>3
    <3> QED
      BY <1>1, <1>3, <3>1, InRange
  <2>3. ASSUME NEW x PROVE x \in Range(Tail(frames)) <=> x \in Range(frames) /\ x # h
    <3>1. ASSUME x \in Range(Tail(frames)) PROVE x \in Range(frames) /\ x # h
      <4>1. PICK i \in 1..Len(Tail(frames)) : Tail(frames)[i] = x
        BY <1>3, <3>1, InRange
      <4>2. i + 1 \in 1..Len(frames) /\ 1 \in 1..Len(frames) /\ i + 1 # 1 /\ frames[i + 1] = x
        BY <1>3, <4>1
      <4>3. x # h
        BY <1>1, <1>2, <1>3, <4>2, OrderedOnce
      <4> QED
        BY <1>1, <4>2, <4>3, InRange
    <3>2. ASSUME x \in Range(frames), x # h PROVE x \in Range(Tail(frames))
      <4>1. PICK i \in 1..Len(frames) : frames[i] = x
        BY <1>1, <3>2, InRange
      <4>2. i - 1 \in 1..Len(Tail(frames)) /\ (i - 1) + 1 = i
        BY <1>3, <3>2, <4>1
      <4>3. Tail(frames)[i - 1] = x
        BY <1>3, <4>1, <4>2
      <4> QED
        BY <1>3, <4>2, <4>3, InRange
    <3> QED
      BY <3>1, <3>2
  <2> QED
    BY <2>1, <2>2, <2>3
<1>5. PICK k \in 1..Len(items) : items[k] = h
  <2>1. h \in Range(items)
    BY <1>4 DEF Held, FramesAccounted
  <2> QED
    BY <1>2, <2>1, InRange
<1>6. /\ RemoveFirst(items, h) \in Seq(CodedFrame)
      /\ Range(RemoveFirst(items, h)) = Range(items) \ {h}
      /\ PartOf(RemoveFirst(items, h), items)
  <2>1. \A i \in 1..Len(items) : items[i] = items[k] => i = k
    BY <1>2, OrderedOnce
  <2> HIDE DEF items, h
  <2> QED
    BY <1>2, <1>5, <2>1, RemovesIt
<1>7. PICK w \in WakeOne(muxQ.out) :
        muxQ' = [muxQ EXCEPT !.items = RemoveFirst(items, h), !.out = w]
  BY <1>1 DEF RemoveItem
<1>8. w \subseteq muxQ.out
  BY WakeOneWakes
<1> DEFINE rest == RemoveFirst(items, h)
           left == Tail(frames)
<1> HIDE DEF rest, left, h
<1>9. /\ rest \in Seq(CodedFrame) /\ Range(rest) = Range(items) \ {h} /\ Ordered(rest)
      /\ left \in Seq(CodedFrame) /\ Range(left) = Range(frames) \ {h} /\ Ordered(left)
  BY <1>1, <1>2, <1>3, <1>4, <1>6, OrderedPart DEF rest, left
<1>10. muxQ' = [muxQ EXCEPT !.items = rest, !.out = w] /\ frames' = left
  BY <1>1, <1>7 DEF rest, left
<1>11. muxQ' \in Queue(CodedFrame, {"mux"}) /\ muxQ'.items = rest /\ muxQ'.in = muxQ.in
  BY <1>1, <1>8, <1>9, <1>10 DEF Queue
<1>12. Muxed' = Muxed /\ AllQueued' = AllQueued
  BY <1>1 DEF Muxed, AllQueued
<1>13. TypeOK'
  BY <1>1, <1>9, <1>10, <1>11 DEF TypeOK
<1>14. NoLostWakeup'
  BY <1>1, <1>11 DEF NoLostWakeup
<1>15. Ahead'
  <2>1. Range(rest) \ Range(left) \subseteq Range(items) \ Range(frames)
    BY <1>9
  <2>2. \A f \in Muxed, g \in Range(rest) \ Range(left) : InTurn(f, g)
    BY <2>1 DEF Held, Ahead
  <2> QED
    BY <1>10, <1>11, <1>12, <2>2 DEF Ahead
<1>16. FramesAccounted'
  <2>1. h \in Muxed /\ Range(frames) \subseteq Muxed
    BY <1>4 DEF Held
  <2>2. IsInjective(rest)
    BY <1>9, OrderedOnce
  <2>3. /\ Range(items) \cup ((Muxed \ Range(frames)) \cup early) = AllQueued
        /\ Range(items) \cap ((Muxed \ Range(frames)) \cup early) = {}
        /\ Range(frames) \subseteq Range(items)
        /\ early \cap Muxed = {}
    BY DEF Held, FramesAccounted
  <2>4. /\ Range(rest) \cup ((Muxed \ Range(left)) \cup early) = AllQueued
        /\ Range(rest) \cap ((Muxed \ Range(left)) \cup early) = {}
        /\ Range(left) \subseteq Range(rest)
    BY <1>4, <1>9, <2>1, <2>3
  <2> QED
    BY <1>1, <1>10, <1>11, <1>12, <2>2, <2>3, <2>4 DEF FramesAccounted
<1>17. StreamOrder'
  BY <1>1 DEF StreamOrder, Held
<1>18. (\A t \in Streams : queued[t] <= Count(t))'
  BY <1>1 DEF Held, Count
<1>19. Ordered(muxQ.items)' /\ Ordered(frames)' /\ (Range(frames) \subseteq Muxed)'
  BY <1>9, <1>10, <1>11, <1>12 DEF Ordered, Held
<1>20. Held'
  BY <1>15, <1>16, <1>17, <1>18, <1>19 DEF Held
<1> QED
  BY <1>1, <1>13, <1>14, <1>20

(* The steps that move no frame.                                           *)
LEMMA OthersHold ==
  ASSUME MuxInv,
         \/ MuxCancelled \/ MuxSleep \/ MuxWrite \/ MuxOutOfMemory \/ MuxNext
         \/ CancelMux
  PROVE  MuxInv'
<1> USE DEF MuxInv
<1>1. muxQ \in Queue(CodedFrame, {"mux"}) /\ Len(frames) \in Nat /\ inLib \in Nat
  BY LenProperties DEF TypeOK
<1>2. CASE MuxCancelled
  BY <1>2, HeldStill DEF MuxCancelled, Scanning, TypeOK, NoLostWakeup, history
<1>3. CASE MuxSleep
  <2>1. muxQ' \in Queue(CodedFrame, {"mux"}) /\ muxQ'.items = muxQ.items
    BY <1>1, <1>3, SleepType DEF MuxSleep
  <2>2. \A f \in Range(muxQ.items) : ~IsVideo(f)
    BY <1>3 DEF MuxSleep, Range
  <2>3. NoLostWakeup' /\ TypeOK'
    BY <1>3, <2>1, <2>2 DEF MuxSleep, Scanning, NoLostWakeup, TypeOK, muxVars, history
  <2> QED
    BY <1>3, <2>1, <2>3, HeldStill DEF MuxSleep, muxVars, history
<1>4. CASE MuxWrite
  <2>1. inLib' \in Nat /\ smoothing' \in Nat
    BY <1>1, <1>4 DEF MuxWrite, TypeOK
  <2>2. TypeOK' /\ NoLostWakeup' /\ muxPc # "scan"
        /\ (muxPc' = "scan" => muxPc = "scan")
    BY <1>4, <2>1 DEF MuxWrite, TypeOK, NoLostWakeup, history
  <2> QED
    BY <1>4, <2>2, HeldStill DEF MuxWrite, history
<1>5. CASE MuxOutOfMemory
  <2>1. inLib' \in Nat
    BY <1>1, <1>5 DEF MuxOutOfMemory
  <2>2. TypeOK' /\ NoLostWakeup'
    BY <1>5, <2>1 DEF MuxOutOfMemory, TypeOK, NoLostWakeup, history
  <2> QED
    BY <1>5, <2>2, HeldStill DEF MuxOutOfMemory, history
<1>6. CASE MuxNext
  BY <1>6, HeldStill DEF MuxNext, TypeOK, NoLostWakeup, history
<1>7. CASE CancelMux
  <2>1. /\ muxQ' \in Queue(CodedFrame, {"mux"}) /\ muxQ'.items = muxQ.items
        /\ muxQ'.in \in WakeOne(muxQ.in)
    BY <1>1, <1>7, SignalInType DEF CancelMux
  <2>2. muxQ'.in = {}
    BY <1>1, <2>1, OnlyMuxSleeps
  <2>3. TypeOK' /\ NoLostWakeup'
    BY <1>7, <2>1, <2>2 DEF CancelMux, TypeOK, NoLostWakeup, muxVars, history
  <2> QED
    BY <1>7, <2>1, <2>3, HeldStill DEF CancelMux, muxVars, history
<1> QED
  BY <1>2, <1>3, <1>4, <1>5, <1>6, <1>7

(* The inductive invariant.                                                *)
LEMMA MuxInvariant == Spec => []MuxInv
<1>1. Init => MuxInv
  <2> SUFFICES ASSUME Init PROVE MuxInv
    OBVIOUS
  <2>1. /\ muxQ \in Queue(CodedFrame, {"mux"}) /\ muxQ.items = <<>> /\ muxQ.in = {}
        /\ frames = <<>> /\ written = <<>> /\ early = {} /\ muxPc = "scan"
        /\ queued = [s \in Streams |-> 0]
    BY EmptyQueueType DEF Init
  <2>2. DOMAIN <<>> = {} /\ Range(<<>>) = {}
    BY DEF Range
  <2>3. NoLostWakeup
    BY <2>1 DEF NoLostWakeup
  <2>a. TypeOK
    <3>1. queued \in [Streams -> Nat] /\ queuedAt \in [Streams -> Seq(Nat)]
      BY DEF Init
    <3>2. /\ firstPts \in Int /\ firstReal \in Int /\ inLib \in Nat /\ smoothing \in Nat
      BY DEF Init
    <3>4. aborted \in BOOLEAN /\ cancelMux \in BOOLEAN
      BY Zenon DEF Init
    <3>3. written \in Seq(Seq(CodedFrame)) /\ frames \in Seq(CodedFrame)
          /\ early \subseteq CodedFrame
      BY <2>1
    <3> QED
      BY <2>1, <3>1, <3>2, <3>3, <3>4 DEF TypeOK
  <2>4. Muxed = {} /\ AllQueued = {}
    BY <2>1, <2>2 DEF Muxed, AllQueued
  <2>5. FramesAccounted /\ StreamOrder /\ Ahead
    BY <2>1, <2>2, <2>4 DEF FramesAccounted, StreamOrder, Ahead, IsInjective
  <2>6. \A s \in Streams : queued[s] <= Count(s)
    BY <2>1, CountIsNat
  <2> QED
    BY <2>1, <2>2, <2>3, <2>a, <2>4, <2>5, <2>6 DEF MuxInv, Held, Ordered
<1>2. MuxInv /\ [Next]_vars => MuxInv'
  <2> SUFFICES ASSUME MuxInv, [Next]_vars PROVE MuxInv'
    OBVIOUS
  <2>1. CASE \E s \in Streams : QueueFrame(s)
    BY <2>1, QueueFrameHolds
  <2>2. CASE MuxTake
    BY <2>2, MuxTakeHolds
  <2>3. CASE MuxRemove
    BY <2>3, MuxRemoveHolds
  <2>4. CASE \/ MuxCancelled \/ MuxSleep \/ MuxWrite \/ MuxOutOfMemory \/ MuxNext
             \/ CancelMux
    BY <2>4, OthersHold
  <2>5. CASE UNCHANGED vars
    <3>1. muxQ'.items = muxQ.items /\ UNCHANGED <<queued, frames, written, early>>
      BY <2>5 DEF vars, muxVars, history
    <3>2. TypeOK' /\ NoLostWakeup'
      BY <2>5 DEF vars, muxVars, history, MuxInv, TypeOK, NoLostWakeup
    <3> QED
      BY <2>5, <3>1, <3>2, HeldStill DEF MuxInv, vars, muxVars
  <2> QED
    BY <2>1, <2>2, <2>3, <2>4, <2>5 DEF Next, MuxStep
<1> QED
  BY <1>1, <1>2, PTL DEF Spec

(* The muxer is never left asleep on a video frame or its cancel flag, it  *)
(* accounts for every frame an encoder queued while it worked unlocked,    *)
(* and it muxes each stream in order as far as its times are, whatever the *)
(* times are.                                                              *)
THEOREM MuxerKeepsOrder == Spec => []MuxKeepsOrder
<1>1. MuxInv => MuxKeepsOrder
  BY DEF MuxInv, Held, MuxKeepsOrder
<1> QED
  BY <1>1, MuxInvariant, PTL
-----------------------------------------------------------------------------
(* When frames are due.  A frame that was queued and is neither muxed nor  *)
(* removed was not there when a batch was taken that it would have been    *)
(* due with; before the first batch the two times of the first video frame *)
(* need not be known yet.                                                  *)
NotMuxed == AllQueued \ (Muxed \cup early)

DtsOf(batch) == Video[batch[SelectInSeq(batch, IsVideo)].n].real_dts

LateFor(f, a) ==
  Dts(f, firstPts, firstReal) <= DtsOf(written[a]) => queuedAt[f.stream][f.n] >= a

WithVideo(batch) == \E f \in Range(batch) : IsVideo(f)

DueInv ==
  /\ \A s \in Streams : Len(queuedAt[s]) = queued[s]
  /\ firstPts = -1 => written = <<>>
  /\ \A f \in NotMuxed, a \in DOMAIN written : LateFor(f, a)
  /\ \A b \in DOMAIN written :
       /\ WithVideo(written[b])
       /\ \A f \in Range(written[b]) :
            /\ Dts(f, firstPts, firstReal) <= DtsOf(written[b])
            /\ \A a \in 1..(b - 1) : LateFor(f, a)

(* The invariant says what the property does.                              *)
LEMMA DueInvSuffices ==
  ASSUME DueInv
  PROVE  DueWithItsVideo
<1>1. \A b : BatchDts(b) = DtsOf(written[b])
  BY DEF BatchDts, DtsOf
<1> QED
  BY <1>1 DEF DueWithItsVideo, DueInv, LateFor, WithVideo

(* What waits to be muxed is what is queued and was not taken.             *)
LEMMA NotMuxedQueued ==
  ASSUME FramesAccounted, Range(frames) \subseteq Muxed
  PROVE  NotMuxed = Range(muxQ.items) \ Range(frames)
  BY DEF FramesAccounted, NotMuxed

(* The dts of a batch is that of its first video frame.                    *)
LEMMA DtsOfFirst ==
  ASSUME NEW q \in Seq(CodedFrame), NEW k \in 1..Len(q), IsVideo(q[k]),
         \A i \in 1..Len(q) : IsVideo(q[i]) => k <= i
  PROVE  WithVideo(q) /\ DtsOf(q) = Video[q[k].n].real_dts
<1> DEFINE V == {i \in 1..Len(q) : IsVideo(q[i])}
<1>1. Len(q) \in Nat /\ DOMAIN q = 1..Len(q)
  BY LenProperties
<1>2. k \in V /\ \A i \in V : k <= i
  OBVIOUS
<1>3. V \subseteq Nat
  BY <1>1
<1>4. SelectInSeq(q, IsVideo) = Min(V)
  BY <1>2 DEF SelectInSeq
<1>5. WithVideo(q)
  BY <1>1 DEF WithVideo, Range
<1> HIDE DEF V
<1>6. Min(V) = k
  <2>1. Min(V) \in V /\ \A i \in V : Min(V) <= i
    BY <1>2 DEF Min
  <2>2. Min(V) <= k /\ k <= Min(V) /\ Min(V) \in Nat /\ k \in Nat
    BY <1>2, <1>3, <2>1
  <2> QED
    BY <2>2
<1> QED
  BY <1>4, <1>5, <1>6 DEF DtsOf

(* Most steps change nothing of this.                                      *)
LEMMA DueStill ==
  ASSUME DueInv, UNCHANGED <<queued, firstPts, firstReal, history>>
  PROVE  DueInv'
<1>1. UNCHANGED <<queued, firstPts, firstReal, written, early, queuedAt>>
  BY DEF history
<1> QED
  BY <1>1 DEF DueInv, NotMuxed, AllQueued, Muxed, LateFor

(* A frame that is queued now was queued after every batch so far.         *)
LEMMA QueueFrameDue ==
  ASSUME MuxInv, MuxInv', DueInv, NEW s \in Streams, QueueFrame(s)
  PROVE  DueInv'
<1> DEFINE L == Len(written)
<1>1. /\ queued \in [Streams -> Nat] /\ queuedAt \in [Streams -> Seq(Nat)]
      /\ written \in Seq(Seq(CodedFrame)) /\ L \in Nat /\ DOMAIN written = 1..L
  BY LenProperties DEF MuxInv, TypeOK
<1>2. /\ queued' = [queued EXCEPT ![s] = queued[s] + 1]
      /\ queuedAt' = [queuedAt EXCEPT ![s] = Append(queuedAt[s], L)]
      /\ UNCHANGED <<firstPts, firstReal, written, early>>
  BY DEF QueueFrame, muxVars
<1> HIDE DEF L
<1>3. \A t \in Streams : t # s => queued'[t] = queued[t] /\ queuedAt'[t] = queuedAt[t]
  BY <1>1, <1>2
<1>4. /\ queued'[s] = queued[s] + 1 /\ Len(queuedAt[s]) = queued[s]
      /\ Len(queuedAt'[s]) = queued[s] + 1
      /\ queuedAt'[s][queued[s] + 1] = L
      /\ \A n \in 1..queued[s] : queuedAt'[s][n] = queuedAt[s][n]
  <2>1. queuedAt[s] \in Seq(Nat) /\ Len(queuedAt[s]) = queued[s]
    BY <1>1 DEF DueInv
  <2>2. queuedAt'[s] = Append(queuedAt[s], L) /\ queued'[s] = queued[s] + 1
    BY <1>1, <1>2
  <2> QED
    BY <1>1, <2>1, <2>2, AppendProperties
<1>5. Muxed' = Muxed
  BY <1>2 DEF Muxed
<1>6. \A x : x \in AllQueued <=> x \in CodedFrame /\ x.n \in 1..queued[x.stream]
  BY KnownFrames DEF MuxInv
<1>7. \A x : x \in AllQueued' <=> x \in CodedFrame /\ x.n \in 1..queued'[x.stream]
  <2>1. queued' \in [Streams -> Nat]
    BY DEF MuxInv, TypeOK
  <2> QED
    BY <2>1, UpTo DEF AllQueued
<1>8. ASSUME NEW f \in AllQueued, NEW a \in DOMAIN written, LateFor(f, a)
      PROVE  LateFor(f, a)'
  <2>1. f.stream \in Streams /\ f.n \in 1..queued[f.stream]
    BY <1>6 DEF CodedFrame
  <2>2. queuedAt'[f.stream][f.n] = queuedAt[f.stream][f.n]
    <3>1. CASE f.stream = s
      BY <1>4, <2>1, <3>1
    <3>2. CASE f.stream # s
      BY <1>3, <2>1, <3>2
    <3> QED
      BY <3>1, <3>2
  <2> QED
    BY <1>2, <1>8, <2>2 DEF LateFor
<1>9. ASSUME NEW f \in NotMuxed', NEW a \in DOMAIN written PROVE LateFor(f, a)'
  <2>1. f \in AllQueued' /\ f \notin Muxed \cup early
    BY <1>2, <1>5 DEF NotMuxed
  <2>2. CASE f \in AllQueued
    BY <1>8, <2>1, <2>2 DEF DueInv, NotMuxed
  <2>3. CASE f \notin AllQueued
    <3>1. /\ f.stream \in Streams /\ f.n \in Nat
          /\ f.n \in 1..queued'[f.stream] /\ f.n \notin 1..queued[f.stream]
      BY <1>6, <1>7, <2>1, <2>3 DEF CodedFrame
    <3>2. f.stream = s
      BY <1>3, <3>1
    <3>a. f.n = queued[s] + 1
      <4>1. f.n \in 1..(queued[s] + 1) /\ f.n \notin 1..queued[s] /\ queued[s] \in Nat
        BY <1>1, <1>4, <3>1, <3>2
      <4> QED
        BY <4>1
    <3>3. queuedAt'[f.stream][f.n] = L /\ a <= L
      BY <1>1, <1>4, <3>2, <3>a
    <3> QED
      BY <1>1, <3>3 DEF LateFor
  <2> QED
    BY <2>2, <2>3
<1>10. \A b \in DOMAIN written : \A f \in Range(written[b]) :
         \A a \in 1..(b - 1) : LateFor(f, a)'
  <2>1. ASSUME NEW b \in DOMAIN written, NEW f \in Range(written[b]), NEW a \in 1..(b - 1)
        PROVE  LateFor(f, a)'
    <3>1. f \in AllQueued
      BY KnownFrames DEF MuxInv, Muxed
    <3>2. a \in DOMAIN written
      BY <1>1
    <3> QED
      BY <1>8, <2>1, <3>1, <3>2 DEF DueInv
  <2> QED
    BY <2>1
<1>11. \A t \in Streams : Len(queuedAt'[t]) = queued'[t]
  BY <1>3, <1>4 DEF DueInv
<1> QED
  BY <1>2, <1>9, <1>10, <1>11 DEF DueInv

(* A batch has the first video frame of the queue and what is due with it, *)
(* and leaves what is not.                                                 *)
LEMMA MuxTakeDue ==
  ASSUME MuxInv, MuxInv', DueInv, MuxTake
  PROVE  DueInv'
<1> DEFINE items == muxQ.items
           L == Len(written)
<1>1. /\ frames = <<>> /\ Range(frames) = {} /\ items \in Seq(CodedFrame)
      /\ muxQ \in Queue(CodedFrame, {"mux"})
      /\ written \in Seq(Seq(CodedFrame)) /\ L \in Nat /\ DOMAIN written = 1..L
      /\ firstPts \in Int /\ firstReal \in Int
  <2>1. /\ frames = <<>> /\ muxQ \in Queue(CodedFrame, {"mux"})
        /\ written \in Seq(Seq(CodedFrame)) /\ firstPts \in Int /\ firstReal \in Int
    BY DEF MuxInv, MuxTake, Scanning, TypeOK
  <2>2. DOMAIN <<>> = {}
    OBVIOUS
  <2> QED
    BY <2>1, <2>2, LenProperties DEF Queue, Range
<1>2. PICK v \in DOMAIN items :
        LET video == Video[items[v].n]
            first == firstPts = -1
            pts   == IF first THEN video.pts ELSE firstPts
            real  == IF first THEN video.real_pts ELSE firstReal
            old   == {f \in Range(items) : first /\ TooEarly(f, pts)}
            kept  == Chosen(items, Range(items) \ old)
            due   == Chosen(kept, {f \in Range(kept) :
                                     Due(f, pts, real, video.real_dts)})
        IN  /\ IsVideo(items[v])
            /\ \A i \in 1..(v - 1) : ~IsVideo(items[i])
            /\ firstPts' = pts
            /\ firstReal' = real
            /\ muxQ' = [muxQ EXCEPT !.items = kept]
            /\ early' = early \cup old
            /\ \/ frames' = due /\ written' = Append(written, due)
               \/ UNCHANGED <<frames, written>>
  BY DEF MuxTake
<1> DEFINE w     == items[v]
           video == Video[w.n]
           pts   == IF firstPts = -1 THEN video.pts ELSE firstPts
           real  == IF firstPts = -1 THEN video.real_pts ELSE firstReal
           dts   == video.real_dts
           old   == {f \in Range(items) : firstPts = -1 /\ TooEarly(f, pts)}
           kept  == Chosen(items, Range(items) \ old)
           ready == {f \in Range(kept) : Due(f, pts, real, dts)}
           due   == Chosen(kept, ready)
<1>3. /\ firstPts' = pts /\ firstReal' = real
      /\ muxQ' = [muxQ EXCEPT !.items = kept]
      /\ early' = early \cup old
      /\ \/ frames' = due /\ written' = Append(written, due)
         \/ frames' = frames /\ written' = written
      /\ UNCHANGED <<queued, queuedAt>>
  BY <1>2 DEF MuxTake
<1>4. DOMAIN items = 1..Len(items) /\ v \in 1..Len(items) /\ Len(items) \in Nat
      /\ w \in Range(items) /\ IsVideo(w)
  BY <1>1, <1>2, LenProperties DEF Range
<1>5. \A f \in Range(items) : f \in CodedFrame /\ f.n \in Nat \ {0} /\ f.n <= Count(f.stream)
  BY KnownFrames DEF MuxInv, CodedFrame
<1>6. \A f \in Range(items) : IsVideo(f) => f.n \in 1..Len(Video)
  <2>1. Len(Video) \in Nat
    BY MuxAssumption, LenProperties
  <2> QED
    BY <1>5, <2>1 DEF IsVideo, Count
<1>7. pts \in Int /\ pts # -1 /\ real \in Int /\ dts \in Int
      /\ (firstPts # -1 => pts = firstPts /\ real = firstReal)
  <2>1. video \in [pts : Nat, real_pts : Int, real_dts : Int]
    BY <1>4, <1>6, MuxAssumption, ElementOfSeq
  <2> QED
    BY <1>1, <2>1
<1>8. kept \in Seq(CodedFrame) /\ Range(kept) = Range(items) \ old
  <2> HIDE DEF old
  <2>1. /\ kept \in Seq(CodedFrame)
        /\ Range(kept) = Range(items) \cap (Range(items) \ old)
    BY <1>1, ChosenInOrder
  <2> QED
    BY <2>1
<1>9. due \in Seq(CodedFrame) /\ Range(due) = ready
  <2> HIDE DEF kept
  <2>1. due \in Seq(CodedFrame) /\ Range(due) = Range(kept) \cap ready
    BY <1>8, ChosenInOrder
  <2> QED
    BY <2>1
<1>10. ready \subseteq Range(items) /\ w \in ready
       /\ \A f \in ready : Dts(f, pts, real) <= dts
  <2>1. w \in Range(kept)
    BY <1>4, <1>8 DEF TooEarly
  <2>2. Due(w, pts, real, dts)
    BY <1>4, <1>7 DEF Due, Dts
  <2> QED
    BY <1>8, <2>1, <2>2 DEF Due
<1>11. \A f \in Range(kept) \ ready : ~(Dts(f, pts, real) <= dts)
  BY DEF Due
<1>12. \A f \in ready : IsVideo(f) => f = w \/ w.n < f.n
  <2> SUFFICES ASSUME NEW f \in ready, IsVideo(f), f # w PROVE w.n < f.n
    OBVIOUS
  <2>1. PICK i \in 1..Len(items) : items[i] = f
    BY ZenonT(30), <1>1, <1>10, InRange
  <2>2. v < i
    <3>1. i # v
      BY <2>1
    <3>2. \A j \in 1..(v - 1) : ~IsVideo(items[j])
      BY <1>2
    <3>3. i \notin 1..(v - 1) /\ i \in Nat /\ v \in Nat /\ i >= 1
      BY <1>4, <2>1, <3>2
    <3> QED
      BY <3>1, <3>3
  <2> QED
    <3>1. InOrder(items[v], items[i])
      BY <1>4, <2>2 DEF MuxInv, Held, Ordered
    <3> QED
      BY <1>4, <2>1, <3>1 DEF InOrder, IsVideo
<1> HIDE DEF due, ready, kept, old, pts, real, dts, video, w
<1>13. NotMuxed = Range(items)
  BY <1>1, NotMuxedQueued DEF MuxInv, Held
<1>14. muxQ'.items = kept
  BY <1>1, <1>3 DEF Queue
<1>15. NotMuxed' = Range(kept) \ Range(frames')
  <2>1. NotMuxed' = (Range(muxQ.items) \ Range(frames))'
    BY DEF MuxInv, Held, FramesAccounted, NotMuxed
  <2> QED
    BY <1>14, <2>1
<1>16. \A f, a : a \in 1..L /\ LateFor(f, a) /\ written'[a] = written[a] => LateFor(f, a)'
  <2> SUFFICES ASSUME NEW f, NEW a \in 1..L, LateFor(f, a), written'[a] = written[a]
               PROVE  LateFor(f, a)'
    OBVIOUS
  <2>1. firstPts # -1
    <3>1. written # <<>>
      BY <1>1, EmptySeq
    <3> QED
      BY <3>1 DEF DueInv
  <2>2. firstPts' = firstPts /\ firstReal' = firstReal
    BY <1>3, <1>7, <2>1
  <2> QED
    BY <1>3, <2>2 DEF LateFor, history
<1>17. \A b \in 1..L : \A f : Dts(f, firstPts', firstReal') = Dts(f, firstPts, firstReal)
  <2> SUFFICES ASSUME NEW b \in 1..L
               PROVE  firstPts' = firstPts /\ firstReal' = firstReal
    OBVIOUS
  <2>1. firstPts # -1
    BY <1>1, EmptySeq DEF DueInv
  <2> QED
    BY <1>3, <1>7, <2>1
<1>18. \A t \in Streams : Len(queuedAt'[t]) = queued'[t]
  BY <1>3 DEF DueInv
<1>19. firstPts' # -1
  BY <1>3, <1>7
<1>20. CASE frames' = frames /\ written' = written
  <2>1. NotMuxed' \subseteq NotMuxed
    BY <1>8, <1>13, <1>15
  <2>2. \A f \in NotMuxed', a \in DOMAIN written : LateFor(f, a)'
    BY <1>1, <1>16, <1>20, <2>1 DEF DueInv
  <2>3. \A b \in DOMAIN written : \A f \in Range(written[b]) :
          /\ Dts(f, firstPts', firstReal') <= DtsOf(written[b])
          /\ \A a \in 1..(b - 1) : LateFor(f, a)'
    <3> SUFFICES ASSUME NEW b \in DOMAIN written, NEW f \in Range(written[b])
                 PROVE  /\ Dts(f, firstPts', firstReal') <= DtsOf(written[b])
                        /\ \A a \in 1..(b - 1) : LateFor(f, a)'
      OBVIOUS
    <3>1. Dts(f, firstPts', firstReal') <= DtsOf(written[b])
      BY <1>1, <1>17 DEF DueInv
    <3>2. \A a \in 1..(b - 1) : LateFor(f, a) /\ a \in 1..L
      BY <1>1 DEF DueInv
    <3> QED
      BY <1>16, <1>20, <3>1, <3>2
  <2> QED
    BY <1>18, <1>19, <1>20, <2>2, <2>3 DEF DueInv
<1>21. CASE frames' = due /\ written' = Append(written, due)
  <2>1. /\ DOMAIN written' = 1..(L + 1)
        /\ \A b \in 1..L : written'[b] = written[b]
        /\ written'[L + 1] = due
    BY <1>1, <1>9, <1>21, AppendProperties, LenProperties
  <2>2. DOMAIN due = 1..Len(due) /\ Len(due) \in Nat /\ Ordered(due)
    <3>1. Ordered(frames)'
      BY DEF MuxInv, Held
    <3>2. Ordered(due)
      BY <1>21, <3>1 DEF Ordered
    <3> QED
      BY <1>9, <3>2, LenProperties
  <2>3. PICK k \in 1..Len(due) : due[k] = w
    BY <1>9, <1>10, InRange
  <2>4. ASSUME NEW i \in 1..Len(due), IsVideo(due[i]) PROVE k <= i
    <3> SUFFICES ASSUME i < k PROVE FALSE
      BY <2>2
    <3>1. due[i] \in ready
      BY <1>9, <2>2 DEF Range
    <3>2. InOrder(due[i], w)
      BY <2>2, <2>3 DEF Ordered
    <3>3. due[i].n < w.n
      BY <1>4, <2>4, <3>2 DEF InOrder, IsVideo
    <3>4. due[i] = w \/ w.n < due[i].n
      BY <1>12, <2>4, <3>1
    <3>5. w.n \in Nat /\ due[i].n \in Nat
      BY <1>4, <1>5, <1>10, <3>1
    <3> QED
      BY <3>3, <3>4, <3>5
  <2>5. WithVideo(due) /\ DtsOf(due) = dts
    <3>1. IsVideo(due[k])
      BY <1>4, <2>3
    <3> QED
      BY <1>9, <2>3, <2>4, <3>1, DtsOfFirst DEF dts, video
  <2>6. \A f \in NotMuxed', a \in 1..(L + 1) : LateFor(f, a)'
    <3> SUFFICES ASSUME NEW f \in NotMuxed', NEW a \in 1..(L + 1) PROVE LateFor(f, a)'
      OBVIOUS
    <3>1. f \in Range(kept) \ ready /\ f \in NotMuxed
      BY <1>8, <1>9, <1>13, <1>15, <1>21
    <3>2. CASE a \in 1..L
      BY <1>1, <1>16, <2>1, <3>1, <3>2 DEF DueInv
    <3>3. CASE a = L + 1
      <4>1. ~(Dts(f, firstPts', firstReal') <= DtsOf(written'[a]))
        BY <1>3, <1>11, <2>1, <2>5, <3>1, <3>3
      <4> QED
        BY <4>1 DEF LateFor
    <3> QED
      BY <1>1, <3>2, <3>3
  <2>7. \A b \in 1..(L + 1) :
          /\ WithVideo(written'[b])
          /\ \A f \in Range(written'[b]) :
               /\ Dts(f, firstPts', firstReal') <= DtsOf(written'[b])
               /\ \A a \in 1..(b - 1) : LateFor(f, a)'
    <3> SUFFICES ASSUME NEW b \in 1..(L + 1)
                 PROVE  /\ WithVideo(written'[b])
                        /\ \A f \in Range(written'[b]) :
                             /\ Dts(f, firstPts', firstReal') <= DtsOf(written'[b])
                             /\ \A a \in 1..(b - 1) : LateFor(f, a)'
      OBVIOUS
    <3>1. CASE b \in 1..L
      <4>1. WithVideo(written[b]) /\ written'[b] = written[b]
        BY <1>1, <2>1, <3>1 DEF DueInv
      <4>2. ASSUME NEW f \in Range(written[b])
            PROVE  /\ Dts(f, firstPts', firstReal') <= DtsOf(written[b])
                   /\ \A a \in 1..(b - 1) : LateFor(f, a)'
        <5>1. Dts(f, firstPts', firstReal') <= DtsOf(written[b])
          BY <1>1, <1>17, <3>1 DEF DueInv
        <5>2. \A a \in 1..(b - 1) : a \in 1..L
          BY <1>1, <3>1
        <5>3. \A a \in 1..(b - 1) : LateFor(f, a)
          BY <1>1, <3>1 DEF DueInv
        <5> QED
          BY <1>16, <2>1, <5>1, <5>2, <5>3
      <4> QED
        BY <4>1, <4>2
    <3>2. CASE b = L + 1
      <4>1. WithVideo(written'[b]) /\ DtsOf(written'[b]) = dts /\ Range(written'[b]) = ready
        BY <1>9, <2>1, <2>5, <3>2
      <4>2. ASSUME NEW f \in ready
            PROVE  /\ Dts(f, firstPts', firstReal') <= dts
                   /\ \A a \in 1..(b - 1) : LateFor(f, a)'
        <5>1. Dts(f, firstPts', firstReal') <= dts
          BY <1>3, <1>10
        <5>2. f \in NotMuxed
          BY <1>10, <1>13
        <5>3. \A a \in 1..(b - 1) : a \in 1..L
          BY <1>1, <3>2
        <5>4. \A a \in 1..(b - 1) : LateFor(f, a)
          BY <1>1, <5>2, <5>3 DEF DueInv
        <5> QED
          BY <1>16, <2>1, <5>1, <5>3, <5>4
      <4> QED
        BY <4>1, <4>2
    <3> QED
      BY <1>1, <3>1, <3>2
  <2> QED
    BY <1>18, <1>19, <2>1, <2>6, <2>7 DEF DueInv
<1> QED
  BY <1>3, <1>20, <1>21

LEMMA DueInvariant == Spec => [](MuxInv /\ DueInv)
<1>1. Init => DueInv
  <2> SUFFICES ASSUME Init PROVE DueInv
    OBVIOUS
  <2>1. written = <<>> /\ DOMAIN <<>> = {} /\ Len(<<>>) = 0
        /\ queued = [s \in Streams |-> 0] /\ queuedAt = [s \in Streams |-> <<>>]
    BY DEF Init
  <2> QED
    BY <2>1 DEF DueInv
<1>2. MuxInv /\ MuxInv' /\ DueInv /\ [Next]_vars => DueInv'
  <2> SUFFICES ASSUME MuxInv, MuxInv', DueInv, [Next]_vars PROVE DueInv'
    OBVIOUS
  <2>1. CASE \E s \in Streams : QueueFrame(s)
    BY <2>1, QueueFrameDue
  <2>2. CASE MuxTake
    BY <2>2, MuxTakeDue
  <2>3. CASE \/ MuxCancelled \/ MuxSleep \/ MuxWrite \/ MuxOutOfMemory \/ MuxRemove
             \/ MuxNext \/ CancelMux
    BY <2>3, DueStill DEF MuxCancelled, MuxSleep, MuxWrite, MuxOutOfMemory, MuxRemove,
                          MuxNext, CancelMux, muxVars
  <2>4. CASE UNCHANGED vars
    BY <2>4, DueStill DEF vars, muxVars
  <2> QED
    BY <2>1, <2>2, <2>3, <2>4 DEF Next, MuxStep
<1> QED
  BY <1>1, <1>2, MuxInvariant, PTL DEF Spec

(* Every batch carries a video frame and nothing that is due after it, and *)
(* leaves nothing behind that was queued and due, whether or not the times *)
(* of the streams go up: what is late was queued late.                     *)
THEOREM MuxedWhenDue == Spec => []DueWithItsVideo
<1>1. DueInv => DueWithItsVideo
  BY DueInvSuffices
<1> QED
  BY <1>1, DueInvariant, PTL
=============================================================================
