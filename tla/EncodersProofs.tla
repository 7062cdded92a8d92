--------------------------- MODULE EncodersProofs ---------------------------
(***************************************************************************)
(* The video encoders around their codecs, for any times, any gaps and any *)
(* number of pictures, sessions and settings: whatever is coded with       *)
(* reordering, in two fields, or by a codec that was opened again.  Then   *)
(* the encoders that drive the GPU themselves, for any setup of theirs.    *)
(***************************************************************************)
EXTENDS MCEncoders, QueueLemmas

-----------------------------------------------------------------------------
(* The numbers of the codec.                                               *)
TimesTypes ==
  /\ reorder \in {0, 1} /\ generic \in BOOLEAN /\ interlaced \in BOOLEAN
  /\ dur \in Nat /\ dur > 1
  /\ kind # "x265" => ~interlaced
  /\ session \in Nat

KnownKind == kind \in {"x264", "x265", "avcodec"}

(* The captured times are apart by one frame at least.                     *)
PicturesApart ==
  /\ pictures \in Seq(Nat)
  /\ \A i \in 1 .. Len(pictures) - 1 : pictures[i + 1] - pictures[i] >= dur

Fields == [n : Nat, field : {1, 2}, time : Nat, ud : BOOLEAN]
Frames ==
  [session : Nat, n : Nat, field : {1, 2}, pts : Int, dts : Int, arrival : Int,
   avfm : Nat, message : BOOLEAN]

(* The place in taken of a field, or of the frame that was made of it.     *)
Place(f) == IF interlaced THEN 2 * (f.n - 1) + f.field ELSE f.n

(* The codec was given the fields of all pictures, in order.               *)
GivenInOrder(tk) ==
  /\ tk \in Seq(Fields)
  /\ \A i \in 1 .. Len(tk) :
       /\ Place(tk[i]) = i /\ tk[i].n \in 1 .. Len(pictures)
       /\ tk[i].field = 2 => interlaced
       /\ tk[i].time = pictures[tk[i].n] + (IF tk[i].field = 2 THEN dur \div 2 ELSE 0)
       /\ (tk[i].ud <=> tk[i].field = 1)

(* What the threads make the DTS of the k-th coded frame.                  *)
Ahead(k) == (Codec!Shown(k) + reorder - k) * dur
DtsOf(tk, k) ==
  CASE kind = "x264" ->
         tk[reopened + Codec!Shown(k)].time + (IF generic THEN Offset ELSE 0)
           - Ahead(k) + 2 * dur
    [] kind = "x265" -> Codec!CodecDts(tk, k) + 2 * dur
    [] OTHER -> Codec!CodecDts(tk, k)

ArrivesBefore(f) ==
  \/ kind = "x264" \/ f.arrival <= f.dts
  \/ generic /\ (Codec!HasGap \/ Lead < (reorder + 1) * dur)

(* A coded frame is that of a field the codec was given.                   *)
MadeOf(tk, f) ==
  /\ Place(f) \in 1 .. Len(tk)
  /\ f.n = tk[Place(f)].n /\ f.field = tk[Place(f)].field
  /\ (f.message <=> tk[Place(f)].ud /\ kind # "avcodec")
  /\ f.pts = tk[Place(f)].time + Codec!Delay
  /\ f.dts <= f.pts /\ ArrivesBefore(f)

Now(f) == f.session = session

(* The last cd frames are those of the codec of now, in coding order; what *)
(* this session had before is of fields that only an earlier codec knew.   *)
CodedInOrder(tk, st, cd) ==
  /\ st \in Seq(Frames) /\ cd \in 0 .. Len(st)
  /\ reopened \in 1 .. Len(tk) + 1 /\ (kind # "x265" => reopened = 1)
  /\ cd > 0 => cd - 1 + reorder <= Len(tk) - reopened
  /\ \A i \in 1 .. Len(st) : st[i].session <= session
  /\ \A i \in 1 .. Len(st) : kind # "avcodec" => st[i].avfm = Codec!DataOf(st[i])
  /\ \A i \in 1 .. Len(st) : Now(st[i]) => MadeOf(tk, st[i])
  /\ \A i \in 1 .. Len(st) - cd : Now(st[i]) => Place(st[i]) < reopened
  /\ \A i, j \in 1 .. Len(st) - cd :
       Now(st[i]) /\ Now(st[j]) /\ Place(st[i]) = Place(st[j]) => i = j
  /\ \A k \in 0 .. cd - 1 :
       /\ Now(st[Len(st) - cd + 1 + k])
       /\ Place(st[Len(st) - cd + 1 + k]) = reopened + Codec!Shown(k)
       /\ st[Len(st) - cd + 1 + k].dts = DtsOf(tk, k)

(* How much of the pictures the codec has.                                 *)
Seen == IF epc = "wait" THEN Len(pictures) ELSE Len(pictures) - 1
AllGiven ==
  /\ epc # "wait" => pictures # <<>>
  /\ Len(taken) = IF interlaced THEN 2 * Seen ELSE Seen

(* x264 keeps the distance of the last frame in two numbers.               *)
DistanceKept ==
  kind = "x264" =>
    /\ lastDts \in Nat /\ accum \in Int
    /\ coded > 0 => lastDts > 0
    /\ \A i \in 1 .. Len(sent) : Now(sent[i]) =>
         sent[i].dts - sent[i].arrival = lastDts - accum - (coded - 1) * dur

(* Other modes have no codec.                                              *)
Idle ==
  /\ pictures = <<>> /\ taken = <<>> /\ sent = <<>> /\ coded = 0
  /\ reopened = 1 /\ epc = "wait" /\ lastDts = 0 /\ accum = 0

CodecInv ==
  /\ TimesTypes /\ KnownKind /\ PicturesApart /\ GivenInOrder(taken)
  /\ CodedInOrder(taken, sent, coded) /\ AllGiven /\ DistanceKept
  /\ mode \in {"times", "asked"} \/ Idle

-----------------------------------------------------------------------------
(* The order of coding is a permutation that undoes itself, and no picture *)
(* is coded more than one place before its turn.                           *)
LEMMA ShownUndone ==
  ASSUME reorder \in {0, 1}, NEW k \in Nat
  PROVE  /\ Codec!Shown(k) \in Nat /\ Codec!Shown(k) <= k + reorder
         /\ Codec!Shown(k) + reorder >= k /\ Codec!Shown(Codec!Shown(k)) = k
<1>1. CASE reorder = 0
  BY <1>1 DEF Codec!Shown
<1>2. CASE reorder = 1
  <2>1. CASE k = 0
    BY <1>2, <2>1 DEF Codec!Shown
  <2>2. CASE k # 0 /\ k % 2 = 1
    <3>1. Codec!Shown(k) = k + 1 /\ k + 1 \in Nat /\ k + 1 # 0 /\ (k + 1) % 2 = 0
      BY <1>2, <2>2 DEF Codec!Shown
    <3>2. Codec!Shown(k + 1) = k
      BY <1>2, <3>1 DEF Codec!Shown
    <3> QED
      BY <1>2, <3>1, <3>2
  <2>3. CASE k # 0 /\ k % 2 # 1
    <3>1. Codec!Shown(k) = k - 1 /\ k - 1 \in Nat /\ k - 1 # 0 /\ (k - 1) % 2 = 1
      BY <1>2, <2>3 DEF Codec!Shown
    <3>2. Codec!Shown(k - 1) = k
      BY <1>2, <3>1 DEF Codec!Shown
    <3> QED
      BY <1>2, <3>1, <3>2
  <2> QED
    BY <2>1, <2>2, <2>3
<1> QED
  BY <1>1, <1>2

(* Half a frame.                                                           *)
LEMMA Half ==
  ASSUME TimesTypes
  PROVE  /\ dur \div 2 \in Nat \ {0}
         /\ 2 * (dur \div 2) <= dur
BY DEF TimesTypes

LEMMA TwoByTwo ==
  ASSUME NEW x \in Nat, NEW y \in Nat, NEW u \in {1, 2}, NEW v \in {1, 2},
         x # y, 2 * (y - 1) + v = 2 * (x - 1) + u + 1
  PROVE  u = 2 /\ v = 1 /\ y = x + 1
OBVIOUS

(* One field after another: they are apart, by no more than a frame if the *)
(* pictures have no gap.                                                   *)
LEMMA FieldsApart ==
  ASSUME TimesTypes, PicturesApart, NEW tk, GivenInOrder(tk),
         NEW i \in 1 .. Len(tk) - 1
  PROVE  /\ tk[i].time \in Nat /\ tk[i + 1].time \in Nat
         /\ tk[i].time < tk[i + 1].time
         /\ ~Codec!HasGap => tk[i + 1].time - tk[i].time <= dur
         /\ (~Codec!HasGap /\ ~interlaced) => tk[i + 1].time - tk[i].time = dur
<1> DEFINE a == tk[i]
           b == tk[i + 1]
<1>0. Len(tk) \in Nat /\ i \in 1 .. Len(tk) /\ i + 1 \in 1 .. Len(tk) /\ i \in Nat
  BY LenProperties DEF GivenInOrder
<1>1. /\ a \in Fields /\ b \in Fields
      /\ Place(a) = i /\ Place(b) = i + 1
      /\ a.n \in 1 .. Len(pictures) /\ b.n \in 1 .. Len(pictures)
      /\ a.field = 2 => interlaced
      /\ b.field = 2 => interlaced
      /\ a.time = pictures[a.n] + (IF a.field = 2 THEN dur \div 2 ELSE 0)
      /\ b.time = pictures[b.n] + (IF b.field = 2 THEN dur \div 2 ELSE 0)
  BY <1>0, ElementOfSeq DEF GivenInOrder
<1> HIDE DEF a, b
<1>2. /\ a.n \in Nat /\ b.n \in Nat /\ a.field \in {1, 2} /\ b.field \in {1, 2}
      /\ a.time \in Nat /\ b.time \in Nat /\ dur \in Nat
  BY <1>1 DEF Fields, TimesTypes
<1>3. pictures \in Seq(Nat) /\ Len(pictures) \in Nat
  BY LenProperties DEF PicturesApart
<1>4. pictures[a.n] \in Nat /\ pictures[b.n] \in Nat
  BY <1>1, <1>3, ElementOfSeq
<1>5. PICK h \in Nat : h > 0 /\ 2 * h <= dur /\ dur \div 2 = h
  BY Half
<1>6. /\ a.time < b.time
      /\ ~Codec!HasGap => b.time - a.time <= dur
      /\ (~Codec!HasGap /\ ~interlaced) => b.time - a.time = dur
  <2>1. CASE a.n = b.n
    <3>1. interlaced /\ a.field = 1 /\ b.field = 2
      <4>1. interlaced
        BY <1>0, <1>1, <1>2, <2>1 DEF Place
      <4>2. i = 2 * (a.n - 1) + a.field /\ i + 1 = 2 * (a.n - 1) + b.field
        BY <1>1, <2>1, <4>1 DEF Place
      <4> QED
        BY <1>0, <1>2, <4>1, <4>2
    <3>2. a.time = pictures[a.n] /\ b.time = pictures[a.n] + h
      BY <1>1, <1>4, <1>5, <2>1, <3>1
    <3>3. h <= dur
      BY <1>2, <1>5
    <3> DEFINE t == pictures[a.n]
    <3>4. t \in Nat /\ a.time = t /\ b.time = t + h
      BY <1>4, <3>2
    <3> HIDE DEF t
    <3>5. a.time < b.time /\ b.time - a.time <= dur
      BY <1>2, <1>5, <3>3, <3>4
    <3> QED
      BY <3>1, <3>5
  <2>2. CASE a.n # b.n
    <3> DEFINE m == a.n
    <3>1. b.n = m + 1 /\ b.field = 1
          /\ (interlaced => a.field = 2) /\ (~interlaced => a.field = 1)
      <4>1. CASE interlaced
        <5>1. i = 2 * (a.n - 1) + a.field /\ i + 1 = 2 * (b.n - 1) + b.field
          BY <1>1, <4>1 DEF Place
        <5>2. 2 * (b.n - 1) + b.field = 2 * (a.n - 1) + a.field + 1
          BY <5>1
        <5> DEFINE x == a.n
                   y == b.n
                   u == a.field
                   v == b.field
        <5>3. /\ x \in Nat /\ y \in Nat /\ u \in {1, 2} /\ v \in {1, 2} /\ x # y
              /\ 2 * (y - 1) + v = 2 * (x - 1) + u + 1
          BY <1>2, <2>2, <5>2
        <5> HIDE DEF x, y, u, v
        <5>4. u = 2 /\ v = 1 /\ y = x + 1
          BY <5>3, TwoByTwo
        <5> QED
          BY <4>1, <5>4 DEF x, y, u, v
      <4>2. CASE ~interlaced
        <5>1. i = a.n /\ i + 1 = b.n
          BY <1>1, <4>2 DEF Place
        <5>2. a.field # 2 /\ b.field # 2
          BY <1>1, <4>2
        <5> QED
          BY <1>2, <4>2, <5>1, <5>2
      <4> QED
        BY <4>1, <4>2
    <3>2. m \in 1 .. Len(pictures) - 1 /\ pictures[m] \in Nat /\ pictures[m + 1] \in Nat
      BY <1>1, <1>2, <1>3, <1>4, <3>1
    <3>3. a.time = pictures[m] + (IF interlaced THEN h ELSE 0) /\ b.time = pictures[m + 1]
      BY <1>1, <1>4, <1>5, <3>1
    <3> HIDE DEF m
    <3>4. pictures[m + 1] - pictures[m] >= dur
      BY <3>2 DEF PicturesApart
    <3>5. ~Codec!HasGap => ~(pictures[m + 1] - pictures[m] > dur)
      BY <3>2 DEF Codec!HasGap
    <3> DEFINE t == pictures[m]
               u == pictures[m + 1]
               late == IF interlaced THEN h ELSE 0
    <3>6. /\ t \in Nat /\ u \in Nat /\ a.time = t + late /\ b.time = u
          /\ u - t >= dur /\ (~Codec!HasGap => ~(u - t > dur))
      BY <3>2, <3>3, <3>4, <3>5
    <3>7. late \in Nat /\ 2 * late <= dur /\ late < dur /\ (~interlaced => late = 0)
      BY <1>2, <1>5
    <3> HIDE DEF t, u, late
    <3>8. a.time < b.time
      BY <1>2, <3>6, <3>7
    <3>9. ~Codec!HasGap => b.time - a.time <= dur
      BY <1>2, <3>6, <3>7
    <3>10. (~Codec!HasGap /\ ~interlaced) => b.time - a.time = dur
      BY <1>2, <3>6, <3>7
    <3> QED
      BY <3>8, <3>9, <3>10
  <2> QED
    BY <2>1, <2>2
<1> QED
  BY <1>2, <1>6 DEF a, b

(* The cases of the order of coding, and of the time by which x264 is      *)
(* ahead.                                                                  *)
LEMMA ShownCases ==
  ASSUME TimesTypes, NEW k \in Nat
  PROVE  \/ reorder = 0 /\ Codec!Shown(k) = k /\ Ahead(k) = 0
         \/ reorder = 1 /\ k = 0 /\ Codec!Shown(k) = 0 /\ Ahead(k) = dur
         \/ reorder = 1 /\ k > 0 /\ k % 2 = 1 /\ Codec!Shown(k) = k + 1 /\ Ahead(k) = 2 * dur
         \/ reorder = 1 /\ k > 0 /\ k % 2 = 0 /\ Codec!Shown(k) = k - 1 /\ Ahead(k) = 0
<1>0. dur \in Nat /\ reorder \in {0, 1}
  BY DEF TimesTypes
<1>1. CASE reorder = 0
  <2>1. Codec!Shown(k) = k /\ Codec!Shown(k) + reorder - k = 0
    BY <1>1 DEF Codec!Shown
  <2> QED
    BY <1>0, <1>1, <2>1 DEF Ahead
<1>2. CASE reorder = 1 /\ k = 0
  <2>1. Codec!Shown(k) = 0 /\ Codec!Shown(k) + reorder - k = 1
    BY <1>2 DEF Codec!Shown
  <2> QED
    BY <1>0, <1>2, <2>1 DEF Ahead
<1>3. CASE reorder = 1 /\ k > 0 /\ k % 2 = 1
  <2>1. Codec!Shown(k) = k + 1 /\ Codec!Shown(k) + reorder - k = 2
    BY <1>3 DEF Codec!Shown
  <2> QED
    BY <1>0, <1>3, <2>1 DEF Ahead
<1>4. CASE reorder = 1 /\ k > 0 /\ k % 2 = 0
  <2>1. Codec!Shown(k) = k - 1 /\ Codec!Shown(k) + reorder - k = 0
    BY <1>4 DEF Codec!Shown
  <2> QED
    BY <1>0, <1>4, <2>1 DEF Ahead
<1>5. k = 0 \/ (k > 0 /\ k % 2 = 1) \/ (k > 0 /\ k % 2 = 0)
  OBVIOUS
<1> QED
  BY <1>0, <1>1, <1>2, <1>3, <1>4, <1>5

(* What is known of the fields when the codec can give back the k-th.      *)
CanGive(tk, k) ==
  /\ TimesTypes /\ PicturesApart /\ GivenInOrder(tk)
  /\ reopened \in 1 .. Len(tk) + 1 /\ (kind # "x265" => reopened = 1)
  /\ k \in Nat /\ k + reorder <= Len(tk) - reopened

(* The times of the fields around the k-th.                                *)
LEMMA TimesAround ==
  ASSUME NEW tk, NEW k \in Nat, CanGive(tk, k)
  PROVE  LET T(i) == tk[reopened + i].time
         IN  /\ \A i \in Int : (0 <= i /\ i <= k + reorder) => T(i) \in Nat
             /\ \A i \in Int : (0 <= i /\ i < k + reorder) =>
                  /\ T(i) < T(i + 1)
                  /\ ~Codec!HasGap => T(i + 1) - T(i) <= dur
                  /\ (~Codec!HasGap /\ ~interlaced) => T(i + 1) - T(i) = dur
<1>1. /\ tk \in Seq(Fields) /\ Len(tk) \in Nat /\ reopened \in 1 .. Len(tk) + 1
      /\ reorder \in {0, 1} /\ k + reorder <= Len(tk) - reopened
  BY LenProperties DEF CanGive, GivenInOrder, TimesTypes
<1>2. ASSUME NEW i \in Int, 0 <= i, i <= k + reorder
      PROVE  tk[reopened + i].time \in Nat
  <2>1. reopened + i \in 1 .. Len(tk)
    BY <1>1, <1>2
  <2>2. tk[reopened + i] \in Fields
    BY <1>1, <2>1, ElementOfSeq
  <2> QED
    BY <2>2 DEF Fields
<1>3. ASSUME NEW i \in Int, 0 <= i, i < k + reorder
      PROVE  /\ tk[reopened + i].time < tk[reopened + (i + 1)].time
             /\ ~Codec!HasGap => tk[reopened + (i + 1)].time - tk[reopened + i].time <= dur
             /\ (~Codec!HasGap /\ ~interlaced) =>
                  tk[reopened + (i + 1)].time - tk[reopened + i].time = dur
  <2> DEFINE j == reopened + i
  <2>1. j \in 1 .. Len(tk) - 1 /\ reopened + (i + 1) = j + 1
    BY <1>1, <1>3
  <2> HIDE DEF j
  <2>2. /\ tk[j].time < tk[j + 1].time
        /\ ~Codec!HasGap => tk[j + 1].time - tk[j].time <= dur
        /\ (~Codec!HasGap /\ ~interlaced) => tk[j + 1].time - tk[j].time = dur
    BY <2>1, FieldsApart DEF CanGive
  <2> QED
    BY <2>1, <2>2 DEF j
<1> QED
  BY <1>2, <1>3

(* The DTS of a codec: not after the PTS, and nearer than the pictures     *)
(* that are reordered if there is no gap.                                  *)
LEMMA CodecDtsNear ==
  ASSUME NEW tk, NEW k \in Nat, CanGive(tk, k)
  PROVE  LET pts == tk[reopened + Codec!Shown(k)].time
         IN  /\ pts \in Nat /\ Codec!CodecDts(tk, k) \in Int
             /\ Codec!CodecDts(tk, k) <= pts
             /\ ~Codec!HasGap => pts - Codec!CodecDts(tk, k) <= (reorder + 1) * dur
<1> DEFINE T(i) == tk[reopened + i].time
<1>1. /\ \A i \in Int : (0 <= i /\ i <= k + reorder) => T(i) \in Nat
      /\ \A i \in Int : (0 <= i /\ i < k + reorder) =>
           /\ T(i) < T(i + 1)
           /\ ~Codec!HasGap => T(i + 1) - T(i) <= dur
  BY TimesAround
<1>2. Codec!CodecDts(tk, k) = IF k >= reorder THEN T(k - reorder) ELSE T(k) - (T(reorder) - T(0))
  <2>1. reopened \in Nat /\ reorder \in {0, 1}
    BY LenProperties DEF CanGive, TimesTypes, GivenInOrder
  <2>2. reopened + k - reorder = reopened + (k - reorder) /\ reopened + 0 = reopened
    BY <2>1
  <2> QED
    BY <2>2 DEF Codec!CodecDts
<1>3. dur \in Nat /\ TimesTypes /\ reorder \in {0, 1}
  BY DEF CanGive, TimesTypes
<1>6. dur \in Nat /\ tk[reopened + Codec!Shown(k)].time = T(Codec!Shown(k))
  BY <1>3
<1> HIDE DEF T
<1> DEFINE Near(dts, pts) ==
             /\ pts \in Nat /\ dts \in Int /\ dts <= pts
             /\ ~Codec!HasGap => pts - dts <= (reorder + 1) * dur
<1>7. SUFFICES Near(Codec!CodecDts(tk, k), T(Codec!Shown(k)))
  BY <1>6
<1>4. CASE reorder = 0
  <2>1. Codec!Shown(k) = k
    BY <1>3, <1>4, ShownCases
  <2>2. k \in Int /\ 0 <= k /\ k <= k + reorder /\ k - reorder = k /\ k >= reorder
    BY <1>4
  <2>3. Codec!CodecDts(tk, k) = T(k) /\ T(k) \in Nat
    BY <1>1, <1>2, <2>2
  <2>4. (reorder + 1) * dur = dur /\ T(k) - T(k) = 0 /\ T(k) <= T(k)
    BY <1>6, <1>4, <2>3
  <2> QED
    BY <1>6, <2>1, <2>3, <2>4
<1>5. CASE reorder = 1
  <2>0. (reorder + 1) * dur = 2 * dur
    BY <1>5
  <2>1. CASE k = 0
    <3>1. Codec!Shown(k) = 0 /\ T(0) \in Nat /\ T(1) \in Nat /\ T(0) < T(1)
          /\ (~Codec!HasGap => T(1) - T(0) <= dur)
      BY <1>1, <1>3, <1>5, <2>1, ShownCases
    <3>2. Codec!CodecDts(tk, k) = T(0) - (T(1) - T(0))
      BY <1>2, <1>5, <2>1
    <3> QED
      BY <1>6, <2>0, <3>1, <3>2
  <2>2. CASE k > 0 /\ k % 2 = 1
    <3>1. Codec!Shown(k) = k + 1 /\ Codec!CodecDts(tk, k) = T(k - 1)
      BY <1>2, <1>3, <1>5, <2>2, ShownCases
    <3>2. /\ T(k - 1) \in Nat /\ T(k) \in Nat /\ T(k + 1) \in Nat
          /\ T(k - 1) < T(k) /\ T(k) < T(k + 1)
          /\ ~Codec!HasGap => T(k) - T(k - 1) <= dur /\ T(k + 1) - T(k) <= dur
      <4>1. k - 1 \in Int /\ k \in Int /\ k + 1 \in Int /\ k - 1 >= 0 /\ (k - 1) + 1 = k
        BY <2>2
      <4> QED
        BY <1>1, <1>5, <4>1
    <3> QED
      BY <1>6, <2>0, <3>1, <3>2
  <2>3. CASE k > 0 /\ k % 2 = 0
    <3>1. Codec!Shown(k) = k - 1 /\ Codec!CodecDts(tk, k) = T(k - 1)
      BY <1>2, <1>3, <1>5, <2>3, ShownCases
    <3>2. T(k - 1) \in Nat
      BY <1>1, <1>5, <2>3
    <3> QED
      BY <1>6, <2>0, <3>1, <3>2
  <2> QED
    BY <2>1, <2>2, <2>3
<1> QED
  BY <1>3, <1>4, <1>5

LEMMA NumbersOfCodec ==
  Lead \in Nat /\ Offset \in Nat /\ (IF generic THEN Offset ELSE 0) \in Nat
BY EncodersAssumption DEF Codec!ConstantsAreSound

(* No encoder makes a DTS after the PTS.                                   *)
LEMMA DtsBehind ==
  ASSUME NEW tk, NEW k \in Nat, CanGive(tk, k), KnownKind
  PROVE  LET pts == tk[reopened + Codec!Shown(k)].time + Codec!Delay
         IN  /\ pts \in Int /\ DtsOf(tk, k) \in Int /\ DtsOf(tk, k) <= pts
             /\ kind = "x264" => DtsOf(tk, k) > 0
             /\ ~Codec!HasGap => pts - DtsOf(tk, k) <= (reorder + 1) * dur
<1> DEFINE T(i) == tk[reopened + i].time
           add == IF generic THEN Offset ELSE 0
           s == Codec!Shown(k)
           near == (reorder + 1) * dur
           pts == T(s) + Codec!Delay
           Behind ==
             /\ pts \in Int /\ DtsOf(tk, k) \in Int /\ DtsOf(tk, k) <= pts
             /\ kind = "x264" => DtsOf(tk, k) > 0
             /\ ~Codec!HasGap => pts - DtsOf(tk, k) <= near
<1> SUFFICES Behind
  OBVIOUS
<1>1. /\ T(s) \in Nat /\ Codec!CodecDts(tk, k) \in Int
      /\ Codec!CodecDts(tk, k) <= T(s)
      /\ ~Codec!HasGap => T(s) - Codec!CodecDts(tk, k) <= near
  BY CodecDtsNear
<1>2. add \in Nat /\ dur \in Nat /\ dur > 0 /\ reorder \in {0, 1}
  BY NumbersOfCodec DEF CanGive, TimesTypes
<1>3. near \in Nat
  BY <1>2
<1>4. CASE kind = "x264"
  <2>1. DtsOf(tk, k) = T(s) + add - Ahead(k) + 2 * dur /\ Codec!Delay = 2 * dur + add
    BY <1>4 DEF DtsOf, Codec!Delay
  <2>2. /\ Ahead(k) \in Nat /\ Ahead(k) <= near /\ Ahead(k) <= 2 * dur
        /\ T(s) > 0 \/ Ahead(k) <= dur
    <3>1. CASE reorder = 1 /\ k > 0 /\ k % 2 = 1 /\ Codec!Shown(k) = k + 1 /\ Ahead(k) = 2 * dur
      <4>1. T(k) \in Nat /\ T(k) < T(k + 1)
        BY <3>1, TimesAround
      <4>2. near = 2 * dur
        BY <1>2, <3>1
      <4>3. T(s) = T(k + 1)
        BY <3>1
      <4> HIDE DEF T, s, near
      <4> QED
        BY <1>1, <1>2, <3>1, <4>1, <4>2, <4>3
    <3>2. CASE Ahead(k) = 0
      BY <1>2, <1>3, <3>2
    <3>3. CASE reorder = 1 /\ Ahead(k) = dur
      <4>1. near = 2 * dur
        BY <1>2, <3>3
      <4> HIDE DEF T, s, near
      <4> QED
        BY <1>2, <3>3, <4>1
    <3> QED
      BY <3>1, <3>2, <3>3, ShownCases DEF CanGive
  <2> HIDE DEF T, s, near, add
  <2>3. /\ pts \in Int /\ DtsOf(tk, k) \in Int
        /\ DtsOf(tk, k) <= pts /\ DtsOf(tk, k) > 0
        /\ pts - DtsOf(tk, k) <= near
    BY <1>1, <1>2, <1>3, <2>1, <2>2
  <2> QED
    BY <2>3
<1>5. CASE kind \in {"x265", "avcodec"}
  <2>1. PICK d \in Nat : DtsOf(tk, k) = Codec!CodecDts(tk, k) + d /\ Codec!Delay = d
    <3>1. CASE kind = "x265"
      <4>1. DtsOf(tk, k) = Codec!CodecDts(tk, k) + 2 * dur /\ Codec!Delay = 2 * dur
        BY <3>1 DEF DtsOf, Codec!Delay
      <4> QED
        BY <1>2, <4>1
    <3>2. CASE kind = "avcodec"
      <4>1. DtsOf(tk, k) = Codec!CodecDts(tk, k) /\ Codec!Delay = 0
        BY <3>2 DEF DtsOf, Codec!Delay
      <4> QED
        BY <1>1, <4>1
    <3> QED
      BY <1>5, <3>1, <3>2
  <2> HIDE DEF T, s, near
  <2>2. /\ pts \in Int /\ DtsOf(tk, k) \in Int
        /\ DtsOf(tk, k) <= pts
        /\ ~Codec!HasGap => pts - DtsOf(tk, k) <= near
    BY <1>1, <1>3, <2>1
  <2> QED
    BY <1>5, <2>2
<1> QED
  BY <1>4, <1>5 DEF KnownKind

(* What a codec or x264 makes of two fields in the order of coding.        *)
LEMMA CodecDtsUp ==
  ASSUME NEW tk, NEW k \in Nat, CanGive(tk, k + 1)
  PROVE  Codec!CodecDts(tk, k) < Codec!CodecDts(tk, k + 1)
<1> DEFINE T(i) == tk[reopened + i].time
<1>1. /\ \A i \in Int : (0 <= i /\ i <= k + 1 + reorder) => T(i) \in Nat
      /\ \A i \in Int : (0 <= i /\ i < k + 1 + reorder) => T(i) < T(i + 1)
  BY TimesAround
<1>2. reopened \in Nat /\ reorder \in {0, 1}
  BY LenProperties DEF CanGive, TimesTypes, GivenInOrder
<1>3. \A n \in Nat :
        Codec!CodecDts(tk, n) = IF n >= reorder THEN T(n - reorder)
                                ELSE T(n) - (T(reorder) - T(0))
  <2> TAKE n \in Nat
  <2>1. reopened + n - reorder = reopened + (n - reorder) /\ reopened + 0 = reopened
    BY <1>2
  <2> QED
    BY <2>1 DEF Codec!CodecDts
<1> HIDE DEF T
<1>4. CASE reorder = 0
  BY <1>1, <1>3, <1>4
<1>5. CASE reorder = 1 /\ k = 0
  <2>1. T(0) \in Nat /\ T(1) \in Nat /\ T(0) < T(1)
    BY <1>1, <1>5
  <2>2. Codec!CodecDts(tk, k) = T(0) - (T(1) - T(0)) /\ Codec!CodecDts(tk, k + 1) = T(0)
    BY <1>3, <1>5
  <2> QED
    BY <2>1, <2>2
<1>6. CASE reorder = 1 /\ k > 0
  <2>1. k - 1 \in Nat /\ (k - 1) + 1 = k /\ (k + 1) - 1 = k
    BY <1>6
  <2>2. T(k - 1) < T(k)
    BY <1>1, <1>6, <2>1
  <2>3. Codec!CodecDts(tk, k) = T(k - 1) /\ Codec!CodecDts(tk, k + 1) = T(k)
    BY <1>3, <1>6, <2>1
  <2> QED
    BY <2>2, <2>3
<1> QED
  BY <1>2, <1>4, <1>5, <1>6

LEMMA X264DtsUp ==
  ASSUME NEW tk, NEW k \in Nat, CanGive(tk, k + 1), kind = "x264",
         Codec!HasGap => reorder = 0
  PROVE  tk[reopened + Codec!Shown(k)].time - Ahead(k)
           < tk[reopened + Codec!Shown(k + 1)].time - Ahead(k + 1)
<1> DEFINE T(i) == tk[reopened + i].time
<1>1. /\ \A i \in Int : (0 <= i /\ i <= k + 1 + reorder) => T(i) \in Nat
      /\ \A i \in Int : (0 <= i /\ i < k + 1 + reorder) =>
           /\ T(i) < T(i + 1)
           /\ (~Codec!HasGap /\ ~interlaced) => T(i + 1) - T(i) = dur
  BY TimesAround
<1>2. /\ reorder \in {0, 1} /\ dur \in Nat /\ dur > 0 /\ TimesTypes
      /\ ~interlaced
  BY DEF CanGive, TimesTypes
<1>3. T(Codec!Shown(k)) - Ahead(k) < T(Codec!Shown(k + 1)) - Ahead(k + 1)
  <2> HIDE DEF T
  <2>1. CASE reorder = 0
    <3>1. /\ Codec!Shown(k) = k /\ Ahead(k) = 0
          /\ Codec!Shown(k + 1) = k + 1 /\ Ahead(k + 1) = 0
      BY <1>2, <2>1, ShownCases
    <3>2. T(k) \in Nat /\ T(k + 1) \in Nat /\ T(k) < T(k + 1)
      BY <1>1, <2>1
    <3> QED
      BY <3>1, <3>2
  <2>2. CASE reorder = 1 /\ k = 0
    <3>1. /\ Codec!Shown(k) = 0 /\ Ahead(k) = dur
          /\ Codec!Shown(k + 1) = 2 /\ Ahead(k + 1) = 2 * dur
      BY <1>2, <2>2, ShownCases
    <3>2. T(0) \in Nat /\ T(1) \in Nat /\ T(2) \in Nat /\ T(1) - T(0) = dur /\ T(2) - T(1) = dur
      BY <1>1, <1>2, <2>2
    <3> QED
      BY <1>2, <3>1, <3>2
  <2>3. CASE reorder = 1 /\ k > 0 /\ k % 2 = 1
    <3>0. (k + 1) % 2 = 0 /\ (k + 1) - 1 = k
      BY <2>3
    <3>1. /\ Codec!Shown(k) = k + 1 /\ Ahead(k) = 2 * dur
          /\ Codec!Shown(k + 1) = k /\ Ahead(k + 1) = 0
      BY <1>2, <2>3, <3>0, ShownCases
    <3>2. T(k) \in Nat /\ T(k + 1) \in Nat /\ T(k + 1) - T(k) = dur
      BY <1>1, <1>2, <2>3
    <3> QED
      BY <1>2, <3>1, <3>2
  <2>4. CASE reorder = 1 /\ k > 0 /\ k % 2 = 0
    <3>0. (k + 1) % 2 = 1 /\ (k + 1) + 1 = k + 2 /\ (k - 1) + 1 = k
          /\ k - 1 \in Int /\ k - 1 >= 0
      BY <2>4
    <3>1. /\ Codec!Shown(k) = k - 1 /\ Ahead(k) = 0
          /\ Codec!Shown(k + 1) = k + 2 /\ Ahead(k + 1) = 2 * dur
      BY <1>2, <2>4, <3>0, ShownCases
    <3>2. T(k - 1) \in Nat /\ T(k) \in Nat /\ T(k + 1) \in Nat /\ T(k + 2) \in Nat
      BY <1>1, <2>4, <3>0
    <3>3. T(k) - T(k - 1) = dur
      BY <1>1, <1>2, <2>4, <3>0
    <3>4. T(k + 1) - T(k) = dur
      BY <1>1, <1>2, <2>4, <3>0
    <3>5. T(k + 2) - T(k + 1) = dur
      BY <1>1, <1>2, <2>4, <3>0
    <3> QED
      BY <1>2, <3>1, <3>2, <3>3, <3>4, <3>5
  <2>5. k = 0 \/ (k > 0 /\ k % 2 = 1) \/ (k > 0 /\ k % 2 = 0)
    OBVIOUS
  <2> QED
    BY <1>2, <2>1, <2>2, <2>3, <2>4, <2>5
<1> QED
  BY <1>3

(* The DTS go up.                                                          *)
LEMMA DtsUp ==
  ASSUME NEW tk, NEW k \in Nat, CanGive(tk, k + 1), KnownKind,
         (kind = "x264" /\ Codec!HasGap) => reorder = 0
  PROVE  DtsOf(tk, k) < DtsOf(tk, k + 1)
<1> DEFINE T(i) == tk[reopened + i].time
           add == IF generic THEN Offset ELSE 0
<1>0. add \in Nat /\ dur \in Nat /\ dur > 0 /\ reorder \in {0, 1}
  BY NumbersOfCodec DEF CanGive, TimesTypes
<1>1. CanGive(tk, k) /\ k + 1 \in Nat
  BY <1>0 DEF CanGive
<1>2. CASE kind = "x264"
  <2> DEFINE a == T(Codec!Shown(k))
             b == T(Codec!Shown(k + 1))
  <2>1. a - Ahead(k) < b - Ahead(k + 1)
    BY <1>2, X264DtsUp
  <2>2. a \in Nat /\ b \in Nat /\ Ahead(k) \in Nat /\ Ahead(k + 1) \in Nat
    <3>1. a \in Nat
      BY <1>1, CodecDtsNear
    <3>2. b \in Nat
      BY <1>1, CodecDtsNear
    <3> HIDE DEF a, b
    <3>3. Ahead(k) \in Nat
      <4>1. TimesTypes /\ 0 \in Nat /\ 2 * dur \in Nat
        BY <1>0 DEF CanGive
      <4>2. Ahead(k) \in {0, dur, 2 * dur}
        BY <4>1, ShownCases
      <4> QED
        BY <1>0, <4>1, <4>2
    <3>4. Ahead(k + 1) \in Nat
      <4> DEFINE n == k + 1
      <4>1. n \in Nat
        OBVIOUS
      <4> HIDE DEF n
      <4>2. Ahead(n) \in Nat
        BY <1>0, <4>1, ShownCases DEF CanGive
      <4> QED
        BY <4>2 DEF n
    <3> QED
      BY <3>1, <3>2, <3>3, <3>4
  <2>3. /\ DtsOf(tk, k) = a + add - Ahead(k) + 2 * dur
        /\ DtsOf(tk, k + 1) = b + add - Ahead(k + 1) + 2 * dur
    BY <1>2 DEF DtsOf
  <2> HIDE DEF a, b, add
  <2> QED
    BY <1>0, <2>1, <2>2, <2>3
<1>3. CASE kind \in {"x265", "avcodec"}
  <2>1. Codec!CodecDts(tk, k) < Codec!CodecDts(tk, k + 1)
    BY CodecDtsUp
  <2>2. Codec!CodecDts(tk, k) \in Int /\ Codec!CodecDts(tk, k + 1) \in Int
    BY <1>1, CodecDtsNear
  <2> QED
    BY <1>0, <1>3, <2>1, <2>2 DEF DtsOf
<1> QED
  BY <1>2, <1>3 DEF KnownKind

(* One more field changes nothing of what was coded before it.             *)
LEMMA DtsOfSame ==
  ASSUME NEW tk, NEW k \in Nat, CanGive(tk, k), NEW p \in Fields
  PROVE  DtsOf(Append(tk, p), k) = DtsOf(tk, k)
<1> DEFINE tk2 == Append(tk, p)
<1>1. /\ tk \in Seq(Fields) /\ Len(tk) \in Nat /\ reopened \in 1 .. Len(tk) + 1
      /\ reorder \in {0, 1} /\ k + reorder <= Len(tk) - reopened
  BY LenProperties DEF CanGive, GivenInOrder, TimesTypes
<1>2. \A i \in Int : 1 <= i /\ i <= Len(tk) => tk2[i] = tk[i]
  BY <1>1, AppendProperties
<1> HIDE DEF tk2
<1>3. tk2[reopened + Codec!Shown(k)] = tk[reopened + Codec!Shown(k)]
  <2> DEFINE i == reopened + Codec!Shown(k)
  <2>1. i \in Int /\ 1 <= i /\ i <= Len(tk)
    <3>1. Codec!Shown(k) \in Nat /\ Codec!Shown(k) <= k + reorder
      BY <1>1, ShownUndone
    <3> QED
      BY <1>1, <3>1
  <2> HIDE DEF i
  <2>2. tk2[i] = tk[i]
    BY <1>2, <2>1
  <2> QED
    BY <2>2 DEF i
<1>4. tk2[reopened + k] = tk[reopened + k] /\ tk2[reopened] = tk[reopened]
  <2>1. /\ reopened + k \in Int /\ 1 <= reopened + k /\ reopened + k <= Len(tk)
        /\ reopened \in Int /\ 1 <= reopened /\ reopened <= Len(tk)
    BY <1>1
  <2> QED
    BY <1>2, <2>1
<1>5. tk2[reopened + reorder] = tk[reopened + reorder]
  BY <1>1, <1>2
<1>6. k >= reorder => tk2[reopened + k - reorder] = tk[reopened + k - reorder]
  BY <1>1, <1>2
<1>7. Codec!CodecDts(tk2, k) = Codec!CodecDts(tk, k)
  BY <1>4, <1>5, <1>6 DEF Codec!CodecDts
<1>8. DtsOf(tk2, k) = DtsOf(tk, k)
  BY <1>3, <1>4, <1>7 DEF DtsOf
<1> QED
  BY <1>8 DEF tk2

LEMMA FieldAppended ==
  ASSUME NEW tk, NEW st, NEW cd, NEW p \in Fields,
         TimesTypes, PicturesApart, GivenInOrder(tk), CodedInOrder(tk, st, cd)
  PROVE  CodedInOrder(Append(tk, p), st, cd)
<1> DEFINE tk2 == Append(tk, p)
<1>1. /\ tk \in Seq(Fields) /\ Len(tk) \in Nat /\ Len(tk2) = Len(tk) + 1
      /\ \A i \in 1 .. Len(tk) : tk2[i] = tk[i]
  BY LenProperties, AppendProperties DEF GivenInOrder
<1>2. /\ st \in Seq(Frames) /\ Len(st) \in Nat /\ cd \in 0 .. Len(st)
      /\ reopened \in 1 .. Len(tk) + 1 /\ (kind # "x265" => reopened = 1)
      /\ cd > 0 => cd - 1 + reorder <= Len(tk) - reopened
      /\ reorder \in {0, 1}
  BY LenProperties DEF CodedInOrder, TimesTypes
<1>3. \A f : MadeOf(tk, f) => MadeOf(tk2, f)
  <2> SUFFICES ASSUME NEW f, MadeOf(tk, f) PROVE MadeOf(tk2, f)
    OBVIOUS
  <2>1. Place(f) \in 1 .. Len(tk) /\ Place(f) \in 1 .. Len(tk2) /\ tk2[Place(f)] = tk[Place(f)]
    BY <1>1 DEF MadeOf
  <2> HIDE DEF tk2
  <2> QED
    BY <2>1 DEF MadeOf
<1>4. \A k \in 0 .. cd - 1 : DtsOf(tk2, k) = DtsOf(tk, k)
  <2> TAKE k \in 0 .. cd - 1
  <2>1. k \in Nat /\ k + reorder <= Len(tk) - reopened
    BY <1>1, <1>2
  <2>2. CanGive(tk, k)
    BY <1>2, <2>1 DEF CanGive
  <2> QED
    BY <2>1, <2>2, DtsOfSame
<1> HIDE DEF tk2
<1>5. \A i \in 1 .. Len(st) : Now(st[i]) => MadeOf(tk2, st[i])
  BY <1>3 DEF CodedInOrder
<1>6. /\ reopened \in 1 .. Len(tk2) + 1
      /\ cd > 0 => cd - 1 + reorder <= Len(tk2) - reopened
  BY <1>1, <1>2
<1>7. \A k \in 0 .. cd - 1 :
       /\ Now(st[Len(st) - cd + 1 + k])
       /\ Place(st[Len(st) - cd + 1 + k]) = reopened + Codec!Shown(k)
       /\ st[Len(st) - cd + 1 + k].dts = DtsOf(tk2, k)
  BY <1>4 DEF CodedInOrder
<1>8. CodedInOrder(tk2, st, cd)
  BY <1>2, <1>5, <1>6, <1>7 DEF CodedInOrder
<1> QED
  BY <1>8 DEF tk2

(* A frame that is made as all encoders make them.                         *)
MadeNow(tk, k, f) ==
  LET p == tk[reopened + Codec!Shown(k)]
  IN  /\ f.arrival \in Int /\ f.avfm \in Nat
      /\ f = Codec!Frame(p, p.time + Codec!Delay, DtsOf(tk, k), f.arrival, f.avfm)
      /\ kind # "avcodec" => f.avfm = Codec!DataOf(p)
      /\ ArrivesBefore(f)

LEMMA FrameAppended ==
  ASSUME NEW tk, NEW st, NEW cd \in Nat, NEW f, KnownKind,
         CodedInOrder(tk, st, cd), CanGive(tk, cd), MadeNow(tk, cd, f)
  PROVE  CodedInOrder(tk, Append(st, f), cd + 1) /\ f \in Frames
<1> DEFINE at == reopened + Codec!Shown(cd)
           p == tk[at]
           s2 == Append(st, f)
           old == Len(st) - cd
<1>1. /\ tk \in Seq(Fields) /\ Len(tk) \in Nat /\ reorder \in {0, 1} /\ session \in Nat
      /\ reopened \in 1 .. Len(tk) + 1 /\ (kind # "x265" => reopened = 1)
      /\ cd + reorder <= Len(tk) - reopened
  BY LenProperties DEF CanGive, GivenInOrder, TimesTypes
<1>2. at \in 1 .. Len(tk)
  <2>1. Codec!Shown(cd) \in Nat /\ Codec!Shown(cd) <= cd + reorder
    BY <1>1, ShownUndone
  <2> QED
    BY <1>1, <2>1
<1>3. p \in Fields /\ Place(p) = at
  <2> HIDE DEF at
  <2> QED
    BY <1>1, <1>2, ElementOfSeq DEF CanGive, GivenInOrder
<1>4. /\ f = Codec!Frame(p, p.time + Codec!Delay, DtsOf(tk, cd), f.arrival, f.avfm)
      /\ f.arrival \in Int /\ f.avfm \in Nat /\ (kind # "avcodec" => f.avfm = Codec!DataOf(p))
      /\ ArrivesBefore(f)
  BY DEF MadeNow
<1>5. /\ p.time + Codec!Delay \in Int /\ DtsOf(tk, cd) \in Int
      /\ DtsOf(tk, cd) <= p.time + Codec!Delay
  BY DtsBehind
<1> HIDE DEF p
<1>6. /\ f \in Frames /\ f.session = session /\ f.n = p.n /\ f.field = p.field
      /\ f.pts = p.time + Codec!Delay /\ f.dts = DtsOf(tk, cd)
      /\ (f.message <=> p.ud /\ kind # "avcodec") /\ Codec!DataOf(f) = Codec!DataOf(p)
  <2> DEFINE pts == p.time + Codec!Delay
             dts == DtsOf(tk, cd)
             a == f.arrival
             v == f.avfm
  <2>1. /\ p.n \in Nat /\ p.field \in {1, 2} /\ p.ud \in BOOLEAN
        /\ pts \in Int /\ dts \in Int /\ a \in Int /\ v \in Nat
    BY <1>3, <1>4, <1>5 DEF Fields
  <2>2. f = Codec!Frame(p, pts, dts, a, v)
    BY <1>4
  <2> HIDE DEF pts, dts, a, v
  <2>3. f = [session |-> session, n |-> p.n, field |-> p.field, pts |-> pts, dts |-> dts,
             arrival |-> a, avfm |-> v, message |-> p.ud /\ kind # "avcodec"]
    BY <2>2 DEF Codec!Frame
  <2>4. f \in Frames
    BY <1>1, <2>1, <2>3 DEF Frames
  <2>5. /\ f.session = session /\ f.n = p.n /\ f.field = p.field
        /\ f.pts = pts /\ f.dts = dts /\ (f.message <=> p.ud /\ kind # "avcodec")
    BY <2>3
  <2>6. Codec!DataOf(f) = Codec!DataOf(p)
    BY <2>5 DEF Codec!DataOf
  <2> QED
    BY <2>4, <2>5, <2>6 DEF pts, dts
<1>7. Place(f) = at
  BY <1>3, <1>6 DEF Place
<1>8. MadeOf(tk, f)
  <2>1. tk[at] = p
    BY DEF p
  <2> HIDE DEF at
  <2> QED
    BY <1>2, <1>4, <1>5, <1>6, <1>7, <2>1 DEF MadeOf
<1>9. /\ st \in Seq(Frames) /\ Len(st) \in Nat /\ cd \in 0 .. Len(st)
      /\ \A i \in 1 .. Len(st) : st[i].session <= session
      /\ \A i \in 1 .. Len(st) : kind # "avcodec" => st[i].avfm = Codec!DataOf(st[i])
      /\ \A i \in 1 .. Len(st) : Now(st[i]) => MadeOf(tk, st[i])
      /\ \A i \in 1 .. old : Now(st[i]) => Place(st[i]) < reopened
      /\ \A i, j \in 1 .. old :
           Now(st[i]) /\ Now(st[j]) /\ Place(st[i]) = Place(st[j]) => i = j
      /\ \A k \in 0 .. cd - 1 :
           /\ Now(st[old + 1 + k])
           /\ Place(st[old + 1 + k]) = reopened + Codec!Shown(k)
           /\ st[old + 1 + k].dts = DtsOf(tk, k)
  BY LenProperties DEF CodedInOrder
<1>10. /\ s2 \in Seq(Frames) /\ Len(s2) = Len(st) + 1 /\ s2[Len(st) + 1] = f
       /\ \A i \in 1 .. Len(st) : s2[i] = st[i]
  BY <1>6, <1>9, AppendProperties
<1> HIDE DEF at, s2
<1>11. Len(s2) - (cd + 1) = old /\ old \in 0 .. Len(st)
  BY <1>9, <1>10
<1>12. \A i \in 1 .. old : i \in 1 .. Len(st) /\ s2[i] = st[i]
  BY <1>9, <1>10, <1>11
<1>13. \A i \in 1 .. Len(s2) : i \in 1 .. Len(st) \/ s2[i] = f
  BY <1>9, <1>10
<1>14. ASSUME NEW k \in 0 .. (cd + 1) - 1
       PROVE  /\ Now(s2[old + 1 + k])
              /\ Place(s2[old + 1 + k]) = reopened + Codec!Shown(k)
              /\ s2[old + 1 + k].dts = DtsOf(tk, k)
  <2>1. CASE k = cd
    <3>1. old + 1 + k = Len(st) + 1
      BY <1>9, <2>1
    <3> QED
      BY <1>6, <1>7, <1>10, <2>1, <3>1 DEF at, Now
  <2>2. CASE k # cd
    <3>1. k \in 0 .. cd - 1 /\ old + 1 + k \in 1 .. Len(st)
      BY <1>9, <2>2
    <3>2. s2[old + 1 + k] = st[old + 1 + k]
      BY <1>10, <3>1
    <3> QED
      BY <1>9, <3>1, <3>2
  <2> QED
    BY <2>1, <2>2
<1> HIDE DEF old
<1>15. \A i \in 1 .. Len(s2) :
         /\ s2[i].session <= session /\ (kind # "avcodec" => s2[i].avfm = Codec!DataOf(s2[i]))
         /\ Now(s2[i]) => MadeOf(tk, s2[i])
  <2> TAKE i \in 1 .. Len(s2)
  <2>1. CASE i \in 1 .. Len(st)
    <3>1. s2[i] = st[i]
      BY <1>10, <2>1
    <3> QED
      BY <1>9, <2>1, <3>1
  <2>2. CASE s2[i] = f
    BY <1>1, <1>4, <1>6, <1>8, <2>2
  <2> QED
    BY <1>13, <2>1, <2>2
<1>16. /\ \A i \in 1 .. old : Now(s2[i]) => Place(s2[i]) < reopened
       /\ \A i, j \in 1 .. old :
            Now(s2[i]) /\ Now(s2[j]) /\ Place(s2[i]) = Place(s2[j]) => i = j
  BY <1>9, <1>12
<1>17. cd + 1 \in 0 .. Len(s2) /\ (cd + 1) - 1 + reorder <= Len(tk) - reopened
  BY <1>1, <1>9, <1>10
<1>18. CodedInOrder(tk, s2, cd + 1)
  BY <1>1, <1>10, <1>11, <1>14, <1>15, <1>16, <1>17 DEF CodedInOrder
<1> QED
  BY <1>6, <1>18 DEF s2

-----------------------------------------------------------------------------
(* What the invariant says of the frames of this session.                  *)
LEMMA FramesOfSession ==
  ASSUME CodecInv
  PROVE  /\ sent \in Seq(Frames) /\ Len(sent) \in Nat /\ DOMAIN sent = 1 .. Len(sent)
         /\ \A i \in Codec!InSession :
              /\ i \in 1 .. Len(sent) /\ sent[i] \in Frames /\ Now(sent[i])
              /\ MadeOf(taken, sent[i])
<1>1. sent \in Seq(Frames) /\ Len(sent) \in Nat /\ DOMAIN sent = 1 .. Len(sent)
  BY LenProperties DEF CodecInv, CodedInOrder
<1>2. ASSUME NEW i \in Codec!InSession
      PROVE  i \in 1 .. Len(sent) /\ sent[i] \in Frames /\ Now(sent[i]) /\ MadeOf(taken, sent[i])
  <2>1. i \in 1 .. Len(sent) /\ Now(sent[i])
    BY <1>1 DEF Codec!InSession, Now
  <2> QED
    BY <1>1, <2>1, ElementOfSeq DEF CodecInv, CodedInOrder
<1> QED
  BY <1>1, <1>2

LEMMA ClockFollowed ==
  CodecInv => Codec!PtsFollowsClock
<1> SUFFICES ASSUME CodecInv, NEW i \in DOMAIN sent, sent[i].session = session
    PROVE  sent[i].pts = pictures[sent[i].n] + Codec!Delay + (sent[i].field - 1) * (dur \div 2)
  BY DEF Codec!PtsFollowsClock
<1> DEFINE f == sent[i]
           g == taken[Place(f)]
<1>1. f \in Frames /\ MadeOf(taken, f)
  BY FramesOfSession DEF Codec!InSession
<1>2. /\ Place(f) \in 1 .. Len(taken) /\ f.n = g.n /\ f.field = g.field
      /\ f.pts = g.time + Codec!Delay
  BY <1>1 DEF MadeOf
<1>3. /\ g \in Fields /\ g.n \in 1 .. Len(pictures)
      /\ g.time = pictures[g.n] + (IF g.field = 2 THEN dur \div 2 ELSE 0)
  <2> DEFINE at == Place(f)
  <2>1. at \in 1 .. Len(taken) /\ taken \in Seq(Fields)
    BY <1>2 DEF CodecInv, GivenInOrder
  <2> HIDE DEF at
  <2>2. /\ taken[at] \in Fields /\ taken[at].n \in 1 .. Len(pictures)
        /\ taken[at].time = pictures[taken[at].n] + (IF taken[at].field = 2 THEN dur \div 2 ELSE 0)
    BY <2>1, ElementOfSeq DEF CodecInv, GivenInOrder
  <2> QED
    BY <2>2 DEF at
<1>4. pictures[g.n] \in Nat
  BY <1>3, ElementOfSeq DEF CodecInv, PicturesApart
<1>5. g.field \in {1, 2} /\ dur \div 2 \in Nat /\ dur \in Nat /\ Codec!Delay \in Nat
  <2>1. g.field \in {1, 2}
    BY <1>3 DEF Fields
  <2>2. dur \div 2 \in Nat /\ dur \in Nat
    BY Half DEF CodecInv, TimesTypes
  <2>3. Codec!Delay \in Nat
    BY <2>2, NumbersOfCodec DEF Codec!Delay, CodecInv, KnownKind
  <2> QED
    BY <2>1, <2>2, <2>3
<1> HIDE DEF f, g
<1>6. f.pts = pictures[f.n] + Codec!Delay + (f.field - 1) * (dur \div 2)
  <2> DEFINE h == dur \div 2
             t == pictures[g.n]
             d == Codec!Delay
  <2>1. h \in Nat /\ t \in Nat /\ d \in Nat
    BY <1>4, <1>5
  <2>2. f.pts = (IF g.field = 2 THEN t + h ELSE t + 0) + d
    BY <1>2, <1>3
  <2>3. CASE g.field = 1
    <3>1. f.pts = t + 0 + d /\ f.field - 1 = 0
      BY <1>2, <2>2, <2>3
    <3> HIDE DEF h, t, d
    <3>2. f.pts = t + d + (f.field - 1) * h
      BY <2>1, <3>1
    <3> QED
      BY <1>2, <3>2 DEF h, t, d
  <2>4. CASE g.field = 2
    <3>1. f.pts = t + h + d /\ f.field - 1 = 1
      BY <1>2, <2>2, <2>4
    <3> HIDE DEF h, t, d
    <3>2. f.pts = t + d + (f.field - 1) * h
      BY <2>1, <3>1
    <3> QED
      BY <1>2, <3>2 DEF h, t, d
  <2> QED
    BY <1>5, <2>3, <2>4
<1> QED
  BY <1>6 DEF f

LEMMA DtsInOrder ==
  CodecInv => Codec!DtsIncreases
<1> SUFFICES ASSUME CodecInv, NEW i \in Codec!InSession
    PROVE  /\ sent[i].dts <= sent[i].pts
           /\ (i + 1 \in Codec!InSession /\ reopened = 1
                 /\ ~(kind = "x264" /\ Codec!HasGap /\ reorder > 0))
                => sent[i].dts < sent[i + 1].dts
  BY DEF Codec!DtsIncreases
<1>1. sent[i].dts <= sent[i].pts /\ i \in 1 .. Len(sent)
  BY FramesOfSession DEF MadeOf
<1>2. ASSUME i + 1 \in Codec!InSession, reopened = 1,
             ~(kind = "x264" /\ Codec!HasGap /\ reorder > 0)
      PROVE  sent[i].dts < sent[i + 1].dts
  <2> DEFINE old == Len(sent) - coded
             k == i - (old + 1)
  <2>1. /\ sent \in Seq(Frames) /\ Len(sent) \in Nat /\ coded \in 0 .. Len(sent)
        /\ coded > 0 => coded - 1 + reorder <= Len(taken) - reopened
        /\ reorder \in {0, 1}
        /\ \A j \in 1 .. old : Now(sent[j]) => Place(sent[j]) < reopened
        /\ \A n \in 0 .. coded - 1 : sent[old + 1 + n].dts = DtsOf(taken, n)
        /\ reopened \in 1 .. Len(taken) + 1 /\ (kind # "x265" => reopened = 1)
        /\ Len(taken) \in Nat
    BY LenProperties DEF CodecInv, CodedInOrder, TimesTypes, GivenInOrder
  <2>2. ~(i \in 1 .. old)
    <3>1. Now(sent[i]) /\ Place(sent[i]) \in 1 .. Len(taken)
      BY FramesOfSession DEF MadeOf
    <3> QED
      BY <1>2, <2>1, <3>1
  <2>3. i + 1 \in 1 .. Len(sent)
    BY <1>2, FramesOfSession
  <2>4. k \in Nat /\ k + 1 \in Nat /\ k \in 0 .. coded - 1 /\ k + 1 \in 0 .. coded - 1
        /\ old + 1 + k = i /\ old + 1 + (k + 1) = i + 1
    BY <1>1, <2>1, <2>2, <2>3
  <2> HIDE DEF k
  <2>5. sent[old + 1 + k].dts = DtsOf(taken, k) /\ sent[old + 1 + (k + 1)].dts = DtsOf(taken, k + 1)
    BY <2>1, <2>4
  <2>6. CanGive(taken, k + 1)
    <3>1. k + 1 + reorder <= Len(taken) - reopened
      BY <2>1, <2>4
    <3> QED
      BY <2>1, <2>4, <3>1 DEF CanGive, CodecInv
  <2>7. DtsOf(taken, k) < DtsOf(taken, k + 1)
    <3>1. (kind = "x264" /\ Codec!HasGap) => reorder = 0
      BY <1>2, <2>1
    <3> QED
      BY <2>4, <2>6, <3>1, DtsUp DEF CodecInv
  <2> QED
    BY <2>4, <2>5, <2>7
<1> QED
  BY <1>1, <1>2

LEMMA DistanceOfArrival ==
  CodecInv => Codec!ArrivalKeepsDistance
<1> SUFFICES ASSUME CodecInv, NEW i \in Codec!InSession
    PROVE  IF kind = "x264"
           THEN \A j \in Codec!InSession :
                  sent[i].dts - sent[i].arrival = sent[j].dts - sent[j].arrival
           ELSE sent[i].arrival <= sent[i].dts
                  \/ (generic /\ (Codec!HasGap \/ Lead < (reorder + 1) * dur))
  BY DEF Codec!ArrivalKeepsDistance
<1>1. CASE kind = "x264"
  <2>1. \A j \in 1 .. Len(sent) : Now(sent[j]) =>
          sent[j].dts - sent[j].arrival = lastDts - accum - (coded - 1) * dur
    BY <1>1 DEF CodecInv, DistanceKept
  <2> QED
    BY <1>1, <2>1, FramesOfSession
<1>2. CASE kind # "x264"
  BY <1>2, FramesOfSession DEF MadeOf, ArrivesBefore
<1> QED
  BY <1>1, <1>2

LEMMA DataKept ==
  CodecInv => Codec!KeepsItsData
BY FramesOfSession DEF CodecInv, CodedInOrder, Codec!KeepsItsData

(* A field is coded once.                                                  *)
LEMMA FieldsOnce ==
  ASSUME CodecInv, NEW i \in Codec!InSession, NEW j \in Codec!InSession,
         Place(sent[i]) = Place(sent[j])
  PROVE  i = j
<1> DEFINE old == Len(sent) - coded
<1>1. /\ Len(sent) \in Nat /\ coded \in 0 .. Len(sent) /\ reopened \in Nat
      /\ reorder \in {0, 1}
      /\ \A n \in 1 .. old : Now(sent[n]) => Place(sent[n]) < reopened
      /\ \A n, m \in 1 .. old :
           Now(sent[n]) /\ Now(sent[m]) /\ Place(sent[n]) = Place(sent[m]) => n = m
      /\ \A k \in 0 .. coded - 1 : Place(sent[old + 1 + k]) = reopened + Codec!Shown(k)
  BY LenProperties DEF CodecInv, CodedInOrder, TimesTypes
<1>2. /\ i \in 1 .. Len(sent) /\ Now(sent[i]) /\ j \in 1 .. Len(sent) /\ Now(sent[j])
  BY FramesOfSession
<1>3. ASSUME NEW n \in 1 .. Len(sent), n \notin 1 .. old
      PROVE  /\ n - (old + 1) \in 0 .. coded - 1
             /\ Codec!Shown(n - (old + 1)) \in Nat
             /\ Place(sent[n]) = reopened + Codec!Shown(n - (old + 1))
  <2> DEFINE k == n - (old + 1)
  <2>1. k \in 0 .. coded - 1 /\ k \in Nat /\ old + 1 + k = n
    BY <1>1, <1>3
  <2> HIDE DEF k
  <2>2. Codec!Shown(k) \in Nat
    BY <1>1, <2>1, ShownUndone
  <2>3. Place(sent[n]) = reopened + Codec!Shown(k)
    BY <1>1, <2>1
  <2> QED
    BY <2>1, <2>2, <2>3 DEF k
<1>4. CASE i \in 1 .. old /\ j \in 1 .. old
  BY <1>1, <1>2, <1>4
<1>5. CASE i \in 1 .. old /\ j \notin 1 .. old
  <2>1. Place(sent[i]) < reopened
    BY <1>1, <1>2, <1>5
  <2>2. Place(sent[j]) = reopened + Codec!Shown(j - (old + 1)) /\ Codec!Shown(j - (old + 1)) \in Nat
    BY <1>2, <1>3, <1>5
  <2> QED
    BY <1>1, <2>1, <2>2
<1>6. CASE i \notin 1 .. old /\ j \in 1 .. old
  <2>1. Place(sent[j]) < reopened
    BY <1>1, <1>2, <1>6
  <2>2. Place(sent[i]) = reopened + Codec!Shown(i - (old + 1)) /\ Codec!Shown(i - (old + 1)) \in Nat
    BY <1>2, <1>3, <1>6
  <2> QED
    BY <1>1, <2>1, <2>2
<1>7. CASE i \notin 1 .. old /\ j \notin 1 .. old
  <2> DEFINE k == i - (old + 1)
             m == j - (old + 1)
  <2>1. /\ k \in 0 .. coded - 1 /\ Codec!Shown(k) \in Nat
        /\ Place(sent[i]) = reopened + Codec!Shown(k)
    BY <1>2, <1>3, <1>7
  <2>2. /\ m \in 0 .. coded - 1 /\ Codec!Shown(m) \in Nat
        /\ Place(sent[j]) = reopened + Codec!Shown(m)
    BY <1>2, <1>3, <1>7
  <2>3. k \in Nat /\ m \in Nat /\ (k = m => i = j)
    BY <1>1, <1>2, <2>1, <2>2
  <2> HIDE DEF k, m
  <2>4. Codec!Shown(k) = Codec!Shown(m)
    <3> DEFINE a == Codec!Shown(k)
               b == Codec!Shown(m)
    <3>1. reopened + a = reopened + b /\ a \in Nat /\ b \in Nat
      BY <2>1, <2>2
    <3> HIDE DEF a, b
    <3>2. a = b
      BY <1>1, <3>1
    <3> QED
      BY <3>2 DEF a, b
  <2>5. Codec!Shown(Codec!Shown(k)) = k /\ Codec!Shown(Codec!Shown(m)) = m
    BY <1>1, <2>3, ShownUndone
  <2> QED
    BY <2>3, <2>4, <2>5
<1> QED
  BY <1>4, <1>5, <1>6, <1>7

(* A message is coded once, and none is lost.                              *)
LEMMA MessagesKept ==
  CodecInv => Codec!MessagesOnce
<1> DEFINE now == {i \in Codec!InSession : sent[i].message}
<1> SUFFICES ASSUME CodecInv
    PROVE  /\ \A i, j \in now : sent[i].n = sent[j].n => i = j
           /\ \A n \in 1 .. Len(pictures) :
                \/ kind = "avcodec"
                \/ \E i \in now : sent[i].n = n
                \/ epc # "wait" /\ n = Len(pictures)
                \/ \E i \in DOMAIN taken : taken[i].n = n /\ i < reopened
                \/ \E k \in coded .. Len(taken) - reopened + 1 :
                     Codec!Shown(k) <= Len(taken) - reopened /\ Codec!Given(Codec!Shown(k)).n = n
  BY DEF Codec!MessagesOnce
<1>0. /\ taken \in Seq(Fields) /\ Len(taken) \in Nat /\ DOMAIN taken = 1 .. Len(taken)
      /\ reorder \in {0, 1} /\ interlaced \in BOOLEAN
      /\ reopened \in 1 .. Len(taken) + 1
      /\ Len(sent) \in Nat /\ coded \in 0 .. Len(sent)
  BY LenProperties DEF CodecInv, CodedInOrder, TimesTypes, GivenInOrder
<1>1. ASSUME NEW at \in 1 .. Len(taken)
      PROVE  /\ taken[at] \in Fields /\ Place(taken[at]) = at
             /\ taken[at].field = 2 => interlaced
             /\ (taken[at].ud <=> taken[at].field = 1)
  BY <1>0, <1>1, ElementOfSeq DEF CodecInv, GivenInOrder
<1>2. ASSUME NEW i \in now, NEW j \in now, sent[i].n = sent[j].n
      PROVE  i = j
  <2>1. ASSUME NEW x \in now
        PROVE  x \in Codec!InSession /\ sent[x].field = 1
    <3> DEFINE at == Place(sent[x])
    <3>1. x \in Codec!InSession /\ sent[x].message /\ MadeOf(taken, sent[x])
      BY <2>1, FramesOfSession
    <3>2. at \in 1 .. Len(taken) /\ taken[at].ud /\ sent[x].field = taken[at].field
      BY <3>1 DEF MadeOf
    <3> HIDE DEF at
    <3>3. taken[at].field = 1
      BY <1>1, <3>2
    <3> QED
      BY <3>1, <3>2, <3>3
  <2>2. Place(sent[i]) = Place(sent[j])
    BY <1>2, <2>1 DEF Place
  <2> QED
    BY <2>1, <2>2, FieldsOnce
<1>3. ASSUME NEW n \in 1 .. Len(pictures)
      PROVE  \/ kind = "avcodec"
             \/ \E i \in now : sent[i].n = n
             \/ epc # "wait" /\ n = Len(pictures)
             \/ \E i \in DOMAIN taken : taken[i].n = n /\ i < reopened
             \/ \E k \in coded .. Len(taken) - reopened + 1 :
                  Codec!Shown(k) <= Len(taken) - reopened /\ Codec!Given(Codec!Shown(k)).n = n
  <2> DEFINE at == IF interlaced THEN 2 * n - 1 ELSE n
  <2>1. CASE kind = "avcodec" \/ (epc # "wait" /\ n = Len(pictures))
    BY <2>1
  <2>2. CASE kind # "avcodec" /\ ~(epc # "wait" /\ n = Len(pictures))
    <3>1. at \in 1 .. Len(taken)
      <4>1. Len(pictures) \in Nat
        BY LenProperties DEF CodecInv, PicturesApart
      <4>2. Seen \in Nat /\ n <= Seen /\ n \in Nat
        BY <1>3, <2>2, <4>1 DEF Seen
      <4>3. Len(taken) = IF interlaced THEN 2 * Seen ELSE Seen
        BY DEF CodecInv, AllGiven
      <4> HIDE DEF Seen
      <4> QED
        BY <1>0, <1>3, <4>2, <4>3
    <3>2. at = IF interlaced THEN 2 * n - 1 ELSE n
      OBVIOUS
    <3> HIDE DEF at
    <3>3. taken[at].n = n /\ taken[at].ud
      <4> DEFINE m == taken[at].n
                 fld == taken[at].field
      <4>1. m \in Nat /\ fld \in {1, 2}
        BY <1>1, <3>1 DEF Fields
      <4>2. at = (IF interlaced THEN 2 * (m - 1) + fld ELSE m) /\ (fld = 2 => interlaced)
        BY <1>1, <3>1 DEF Place
      <4>3. (taken[at].ud <=> fld = 1)
        BY <1>1, <3>1
      <4> HIDE DEF m, fld
      <4>4. m = n /\ fld = 1
        BY <1>3, <3>2, <4>1, <4>2
      <4> QED
        BY <4>3, <4>4 DEF m
    <3>4. CASE at < reopened
      BY <1>0, <3>1, <3>3, <3>4
    <3>5. CASE ~(at < reopened)
      <4> DEFINE j == at - reopened
                 k == Codec!Shown(j)
      <4>1. j \in Nat /\ j <= Len(taken) - reopened /\ reopened + j = at
        BY <1>0, <3>1, <3>5
      <4> HIDE DEF j
      <4>2. k \in Nat /\ k <= j + reorder /\ Codec!Shown(k) = j
        BY <1>0, <4>1, ShownUndone
      <4> HIDE DEF k
      <4>3. CASE k < coded
        <5> DEFINE i == Len(sent) - coded + 1 + k
        <5>1. k \in 0 .. coded - 1 /\ i \in 1 .. Len(sent)
          BY <1>0, <4>2, <4>3
        <5>2. Now(sent[i]) /\ Place(sent[i]) = at
          BY <4>1, <4>2, <5>1 DEF CodecInv, CodedInOrder
        <5> HIDE DEF i
        <5>3. i \in Codec!InSession
          BY <5>1, <5>2, FramesOfSession DEF Codec!InSession, Now
        <5>4. sent[i].n = taken[at].n /\ (sent[i].message <=> taken[at].ud /\ kind # "avcodec")
          BY <5>2, <5>3, FramesOfSession DEF MadeOf
        <5> QED
          BY <2>2, <3>3, <5>3, <5>4
      <4>4. CASE ~(k < coded)
        <5>1. k \in coded .. Len(taken) - reopened + 1
          BY <1>0, <4>1, <4>2, <4>4
        <5>2. Codec!Given(Codec!Shown(k)).n = n
          BY <3>3, <4>1, <4>2 DEF Codec!Given
        <5> QED
          BY <4>1, <4>2, <5>1, <5>2
      <4> QED
        BY <4>3, <4>4
    <3> QED
      BY <3>4, <3>5
  <2> QED
    BY <2>1, <2>2
<1> QED
  BY <1>2, <1>3

-----------------------------------------------------------------------------
(* The steps.  What the formulas say of a codec changes only with what the *)
(* thread gives it and sends.                                              *)
Modes == <<kind, reorder, generic, interlaced, dur>>

LEMMA SameShown ==
  ASSUME reorder' = reorder
  PROVE  \A k : Codec!Shown(k)' = Codec!Shown(k)
BY DEF Codec!Shown

LEMMA SameDts ==
  ASSUME UNCHANGED <<Modes, reopened>>
  PROVE  \A tk, k : DtsOf(tk, k)' = DtsOf(tk, k)
<1>1. \A k : Codec!Shown(k)' = Codec!Shown(k)
  BY SameShown DEF Modes
<1> USE DEF Modes
<1>2. \A k : Ahead(k)' = Ahead(k)
  BY <1>1 DEF Ahead
<1>3. \A tk, k : Codec!CodecDts(tk, k)' = Codec!CodecDts(tk, k)
  BY DEF Codec!CodecDts
<1> QED
  BY <1>1, <1>2, <1>3 DEF DtsOf

LEMMA SamePlace ==
  ASSUME UNCHANGED Modes
  PROVE  \A f : Place(f)' = Place(f)
BY DEF Modes, Place

(* A gap that the input had stays.                                         *)
LEMMA GapStays ==
  ASSUME PicturesApart, UNCHANGED Modes,
         UNCHANGED pictures \/ \E t \in Nat : pictures' = Append(pictures, t)
  PROVE  Codec!HasGap => Codec!HasGap'
<1>1. CASE UNCHANGED pictures
  BY <1>1 DEF Codec!HasGap, Modes
<1>2. ASSUME NEW t \in Nat, pictures' = Append(pictures, t), Codec!HasGap
      PROVE  Codec!HasGap'
  <2>1. PICK i \in 1 .. Len(pictures) - 1 : pictures[i + 1] - pictures[i] > dur
    BY <1>2 DEF Codec!HasGap
  <2>2. /\ pictures \in Seq(Nat) /\ Len(pictures) \in Nat
        /\ Len(pictures') = Len(pictures) + 1
        /\ \A j \in 1 .. Len(pictures) : pictures'[j] = pictures[j]
    BY <1>2, LenProperties, AppendProperties DEF PicturesApart
  <2>3. i \in 1 .. Len(pictures') - 1 /\ pictures'[i] = pictures[i] /\ pictures'[i + 1] = pictures[i + 1]
    BY <2>2
  <2>4. dur' = dur
    BY DEF Modes
  <2> QED
    BY <2>1, <2>3, <2>4 DEF Codec!HasGap
<1> QED
  BY <1>1, <1>2

LEMMA SameFrames ==
  ASSUME PicturesApart, UNCHANGED Modes,
         UNCHANGED pictures \/ \E t \in Nat : pictures' = Append(pictures, t)
  PROVE  \A tk, f : MadeOf(tk, f) => MadeOf(tk, f)'
<1> SUFFICES ASSUME NEW tk, NEW f, MadeOf(tk, f) PROVE MadeOf(tk, f)'
  OBVIOUS
<1>1. Place(f)' = Place(f)
  BY SamePlace
<1>2. ArrivesBefore(f)'
  BY GapStays DEF MadeOf, ArrivesBefore, Modes
<1>3. Codec!Delay' = Codec!Delay
  BY DEF Codec!Delay, Modes
<1>4. kind' = kind
  BY DEF Modes
<1> QED
  BY <1>1, <1>2, <1>3, <1>4 DEF MadeOf

LEMMA SameCoded ==
  ASSUME PicturesApart, UNCHANGED <<Modes, session, reopened>>,
         UNCHANGED pictures \/ \E t \in Nat : pictures' = Append(pictures, t),
         NEW tk, NEW st, NEW cd, CodedInOrder(tk, st, cd)
  PROVE  CodedInOrder(tk, st, cd)'
<1>1. \A k : Codec!Shown(k)' = Codec!Shown(k)
  BY SameShown DEF Modes
<1>2. \A k : DtsOf(tk, k)' = DtsOf(tk, k)
  BY SameDts
<1>3. \A f : Place(f)' = Place(f)
  BY SamePlace
<1>4. \A f : MadeOf(tk, f) => MadeOf(tk, f)'
  BY SameFrames
<1>5. \A f : Now(f)' <=> Now(f)
  BY DEF Now
<1>6. /\ session' = session /\ reopened' = reopened /\ kind' = kind /\ reorder' = reorder
  BY DEF Modes
<1> QED
  BY <1>1, <1>2, <1>3, <1>4, <1>5, <1>6 DEF CodedInOrder

LEMMA SameGiven ==
  ASSUME PicturesApart, UNCHANGED Modes,
         UNCHANGED pictures \/ \E t \in Nat : pictures' = Append(pictures, t),
         NEW tk, GivenInOrder(tk)
  PROVE  GivenInOrder(tk)'
<1>1. \A f : Place(f)' = Place(f)
  BY SamePlace
<1>2. \A n \in 1 .. Len(pictures) : n \in 1 .. Len(pictures)' /\ pictures'[n] = pictures[n]
  <2>1. CASE UNCHANGED pictures
    BY <2>1
  <2>2. ASSUME NEW t \in Nat, pictures' = Append(pictures, t)
        PROVE  \A n \in 1 .. Len(pictures) :
                 n \in 1 .. Len(pictures)' /\ pictures'[n] = pictures[n]
    <3>1. pictures \in Seq(Nat) /\ Len(pictures) \in Nat
      BY LenProperties DEF PicturesApart
    <3>2. Len(pictures') = Len(pictures) + 1
          /\ \A n \in 1 .. Len(pictures) : pictures'[n] = pictures[n]
      BY <2>2, <3>1, AppendProperties
    <3> QED
      BY <3>1, <3>2
  <2> QED
    BY <2>1, <2>2
<1>3. Fields' = Fields /\ dur' = dur /\ interlaced' = interlaced
  BY DEF Fields, Modes
<1>4. ASSUME NEW i \in 1 .. Len(tk)
      PROVE  /\ Place(tk[i])' = i /\ tk[i].n \in 1 .. Len(pictures)'
             /\ tk[i].field = 2 => interlaced'
             /\ tk[i].time = pictures'[tk[i].n] + (IF tk[i].field = 2 THEN dur' \div 2 ELSE 0)
             /\ (tk[i].ud <=> tk[i].field = 1)
  BY <1>1, <1>2, <1>3, <1>4 DEF GivenInOrder
<1>5. tk \in Seq(Fields)
  BY DEF GivenInOrder
<1> QED
  BY <1>3, <1>4, <1>5 DEF GivenInOrder

(* Before the first picture there is nothing to show.                      *)
LEMMA CodecInitially ==
  Init => CodecInv
<1> SUFFICES ASSUME Init PROVE CodecInv
  OBVIOUS
<1>1. Codec!Init
  BY DEF Init
<1>2. Idle /\ session = 1
  BY <1>1 DEF Codec!Init, Idle
<1>3. TimesTypes /\ KnownKind
  BY <1>1, EncodersAssumption DEF Codec!Init, Codec!ConstantsAreSound, TimesTypes, KnownKind
<1>4. Len(<<>>) = 0 /\ \A S : <<>> \in Seq(S)
  BY EmptySeq
<1>5. PicturesApart
  BY <1>2, <1>4 DEF Idle, PicturesApart
<1>6. GivenInOrder(taken)
  BY <1>2, <1>4 DEF Idle, GivenInOrder
<1>7. CodedInOrder(taken, sent, coded)
  BY <1>2, <1>4 DEF Idle, CodedInOrder
<1>8. AllGiven
  BY <1>2, <1>4 DEF Idle, AllGiven, Seen
<1>9. DistanceKept
  BY <1>2, <1>4 DEF Idle, DistanceKept
<1> QED
  BY <1>2, <1>3, <1>5, <1>6, <1>7, <1>8, <1>9 DEF CodecInv

HasCodec == mode \in {"times", "asked"}

(* The steps that change neither the codec nor the frames.                 *)
LEMMA SettingsStep ==
  ASSUME CodecInv, HasCodec', UNCHANGED <<Modes, Codec!session_>>, epc' = "wait" <=> epc = "wait"
  PROVE  CodecInv'
<1>0. /\ UNCHANGED <<Modes, session, pictures, taken, coded, sent, lastDts, accum, reopened>>
      /\ UNCHANGED <<kind, reorder, generic, interlaced, dur>>
  BY DEF Codec!session_, Modes
<1>1. TimesTypes' /\ KnownKind' /\ PicturesApart'
  BY <1>0 DEF CodecInv, TimesTypes, KnownKind, PicturesApart
<1>2. GivenInOrder(taken)'
  BY <1>0, SameGiven DEF CodecInv
<1>3. CodedInOrder(taken, sent, coded)'
  BY <1>0, SameCoded DEF CodecInv
<1>4. AllGiven'
  BY <1>0 DEF CodecInv, AllGiven, Seen
<1>5. DistanceKept'
  BY <1>0 DEF CodecInv, DistanceKept, Now
<1> QED
  BY <1>1, <1>2, <1>3, <1>4, <1>5 DEF CodecInv, HasCodec

LEMMA WakeStep ==
  ASSUME CodecInv, HasCodec', Codec!Wake
  PROVE  CodecInv'
<1>0. /\ UNCHANGED <<Modes, session, taken, coded, sent, lastDts, accum, reopened>>
      /\ UNCHANGED <<kind, reorder, generic, interlaced, dur>>
      /\ epc = "wait" /\ epc' # "wait"
  BY DEF Codec!Wake, Codec!mode_, Modes
<1>1. pictures \in Seq(Nat) /\ Len(pictures) \in Nat /\ dur \in Nat /\ session \in Nat
  BY LenProperties DEF CodecInv, PicturesApart, TimesTypes
<1>2. PICK t \in Nat : /\ pictures' = Append(pictures, t)
                       /\ pictures # <<>> => t >= pictures[Len(pictures)] + dur
  <2>1. PICK gap \in Losses, first \in Starts :
          pictures' = Append(pictures, IF pictures = <<>> THEN first
                                       ELSE Codec!Last(pictures) + dur + gap)
    BY DEF Codec!Wake
  <2>2. gap \in Nat /\ first \in Nat
    BY EncodersAssumption DEF Codec!ConstantsAreSound
  <2>3. CASE pictures = <<>>
    BY <2>1, <2>2, <2>3
  <2>4. CASE pictures # <<>>
    <3>1. Codec!Last(pictures) = pictures[Len(pictures)] /\ pictures[Len(pictures)] \in Nat
      BY <1>1, <2>4, ElementOfSeq, EmptySeq DEF Codec!Last
    <3> DEFINE t == Codec!Last(pictures) + dur + gap
    <3>2. t \in Nat /\ t >= pictures[Len(pictures)] + dur
      BY <1>1, <2>2, <3>1
    <3> QED
      BY <2>1, <2>4, <3>2
  <2> QED
    BY <2>3, <2>4
<1>3. /\ pictures' \in Seq(Nat) /\ Len(pictures') = Len(pictures) + 1
      /\ pictures'[Len(pictures) + 1] = t
      /\ \A i \in 1 .. Len(pictures) : pictures'[i] = pictures[i]
  BY <1>1, <1>2, AppendProperties
<1>4. PicturesApart'
  <2>1. ASSUME NEW i \in 1 .. Len(pictures') - 1
        PROVE  pictures'[i + 1] - pictures'[i] >= dur
    <3>1. CASE i = Len(pictures)
      <4>1. pictures # <<>> /\ pictures[i] \in Nat
        BY <1>1, <2>1, <3>1, EmptySeq, ElementOfSeq
      <4>2. pictures'[i] = pictures[i] /\ pictures'[i + 1] = t
        BY <1>1, <1>3, <2>1, <3>1
      <4> QED
        BY <1>1, <1>2, <3>1, <4>1, <4>2
    <3>2. CASE i # Len(pictures)
      <4>1. i \in 1 .. Len(pictures) - 1 /\ i \in 1 .. Len(pictures) /\ i + 1 \in 1 .. Len(pictures)
        BY <1>1, <1>3, <2>1, <3>2
      <4>2. pictures[i + 1] - pictures[i] >= dur
        BY <4>1 DEF CodecInv, PicturesApart
      <4> QED
        BY <1>3, <4>1, <4>2
    <3> QED
      BY <3>1, <3>2
  <2> QED
    BY <1>0, <1>3, <2>1 DEF PicturesApart
<1>5. TimesTypes' /\ KnownKind'
  BY <1>0 DEF CodecInv, TimesTypes, KnownKind
<1>6. GivenInOrder(taken)'
  BY <1>0, <1>2, SameGiven DEF CodecInv
<1>7. CodedInOrder(taken, sent, coded)'
  BY <1>0, <1>2, SameCoded DEF CodecInv
<1>8. AllGiven'
  <2>1. Seen' = Seen /\ pictures' # <<>>
    BY <1>0, <1>1, <1>3, EmptySeq DEF Seen
  <2> HIDE DEF Seen
  <2> QED
    BY <1>0, <2>1 DEF CodecInv, AllGiven
<1>9. DistanceKept'
  BY <1>0 DEF CodecInv, DistanceKept, Now
<1> QED
  BY <1>4, <1>5, <1>6, <1>7, <1>8, <1>9 DEF CodecInv, HasCodec

(* Another codec knows nothing of the fields that were given before.       *)
LEMMA UseSettingStep ==
  ASSUME CodecInv, HasCodec', Codec!UseSetting
  PROVE  CodecInv'
<1>0. /\ UNCHANGED <<Modes, session, pictures, taken, sent, lastDts, accum>>
      /\ UNCHANGED <<kind, reorder, generic, interlaced, dur>>
      /\ epc = "use" /\ epc' = "encode"
      /\ UNCHANGED Codec!session_
           \/ (kind = "x265" /\ coded' = 0 /\ reopened' = Len(taken) + 1)
  BY DEF Codec!UseSetting, Codec!mode_, Codec!session_, Modes
<1>1. CASE UNCHANGED Codec!session_
  BY <1>0, <1>1, SettingsStep
<1>2. CASE kind = "x265" /\ coded' = 0 /\ reopened' = Len(taken) + 1
  <2>1. TimesTypes' /\ KnownKind' /\ PicturesApart'
    BY <1>0 DEF CodecInv, TimesTypes, KnownKind, PicturesApart
  <2>2. GivenInOrder(taken)'
    BY <1>0, SameGiven DEF CodecInv
  <2>3. CodedInOrder(taken, sent, coded)'
    <3>1. /\ sent \in Seq(Frames) /\ Len(sent) \in Nat /\ Len(taken) \in Nat
          /\ \A i \in 1 .. Len(sent) : sent[i].session <= session
          /\ \A i \in 1 .. Len(sent) : kind # "avcodec" => sent[i].avfm = Codec!DataOf(sent[i])
          /\ \A i \in 1 .. Len(sent) : Now(sent[i]) => MadeOf(taken, sent[i])
      BY LenProperties DEF CodecInv, CodedInOrder, GivenInOrder
    <3>2. \A i \in 1 .. Len(sent) : Now(sent[i]) => i \in Codec!InSession
      BY <3>1, FramesOfSession DEF Now, Codec!InSession
    <3>3. \A i \in 1 .. Len(sent) : Now(sent[i]) => Place(sent[i]) < Len(taken) + 1
      BY <3>1 DEF MadeOf
    <3>4. \A i, j \in 1 .. Len(sent) :
            Now(sent[i]) /\ Now(sent[j]) /\ Place(sent[i]) = Place(sent[j]) => i = j
      BY <3>2, FieldsOnce
    <3>5. \A f : (Place(f)' = Place(f)) /\ (Now(f)' <=> Now(f)) /\ (MadeOf(taken, f) => MadeOf(taken, f)')
      <4>1. \A f : MadeOf(taken, f) => MadeOf(taken, f)'
        <5>1. PICK tk : tk = taken
          OBVIOUS
        <5>2. \A f : MadeOf(tk, f) => MadeOf(tk, f)'
          BY <1>0, SameFrames DEF CodecInv
        <5> QED
          BY <1>0, <5>1, <5>2
      <4> QED
        BY <1>0, <4>1, SamePlace DEF Now
    <3>6. Len(sent) - 0 = Len(sent) /\ 0 \in 0 .. Len(sent) /\ 0 .. 0 - 1 = {}
          /\ Len(taken) + 1 \in 1 .. Len(taken) + 1
      BY <3>1
    <3>7. sent' = sent /\ taken' = taken /\ coded' = 0 /\ reopened' = Len(taken) + 1
          /\ session' = session /\ kind' = kind /\ kind = "x265" /\ Frames' = Frames
      BY <1>0, <1>2 DEF Frames
    <3> QED
      BY <3>1, <3>3, <3>4, <3>5, <3>6, <3>7 DEF CodedInOrder
  <2>4. AllGiven'
    BY <1>0, <1>2 DEF CodecInv, AllGiven, Seen
  <2>5. DistanceKept'
    BY <1>0, <1>2 DEF DistanceKept
  <2> QED
    BY <2>1, <2>2, <2>3, <2>4, <2>5 DEF CodecInv, HasCodec
<1> QED
  BY <1>0, <1>1, <1>2

LEMMA RestartStep ==
  ASSUME CodecInv, HasCodec', Codec!Restart
  PROVE  CodecInv'
<1>0. /\ UNCHANGED <<kind, reorder, generic, interlaced, dur, sent, lastDts, accum>>
      /\ epc = "wait" /\ epc' = "wait" /\ session' = session + 1
      /\ pictures' = <<>> /\ taken' = <<>> /\ coded' = 0 /\ reopened' = 1
  BY DEF Codec!Restart, Codec!mode_
<1>1. TimesTypes' /\ KnownKind'
  BY <1>0 DEF CodecInv, TimesTypes, KnownKind
<1>2. Len(<<>>) = 0 /\ \A S : <<>> \in Seq(S)
  BY EmptySeq
<1>3. PicturesApart' /\ GivenInOrder(taken)' /\ AllGiven'
  BY <1>0, <1>2 DEF PicturesApart, GivenInOrder, AllGiven, Seen
<1>4. /\ sent \in Seq(Frames) /\ Len(sent) \in Nat /\ session \in Nat
      /\ \A i \in 1 .. Len(sent) : sent[i].session <= session
      /\ \A i \in 1 .. Len(sent) : kind # "avcodec" => sent[i].avfm = Codec!DataOf(sent[i])
  BY LenProperties DEF CodecInv, CodedInOrder, TimesTypes
<1>5. \A i \in 1 .. Len(sent) : sent[i].session <= session' /\ ~Now(sent[i])'
  <2> SUFFICES ASSUME NEW i \in 1 .. Len(sent)
      PROVE  sent[i].session <= session + 1 /\ sent[i].session # session + 1
    BY <1>0 DEF Now
  <2>1. sent[i] \in Frames
    BY <1>4, ElementOfSeq
  <2>2. sent[i].session \in Nat /\ sent[i].session <= session
    BY <1>4, <2>1 DEF Frames
  <2> QED
    BY <1>4, <2>2
<1>6. CodedInOrder(taken, sent, coded)'
  <2>1. Frames' = Frames /\ Len(sent) - 0 = Len(sent) /\ 0 \in 0 .. Len(sent) /\ 0 .. 0 - 1 = {}
    BY <1>4 DEF Frames
  <2> QED
    BY <1>0, <1>2, <1>4, <1>5, <2>1 DEF CodedInOrder
<1>7. DistanceKept'
  BY <1>0, <1>4, <1>5 DEF CodecInv, DistanceKept
<1> QED
  BY <1>1, <1>3, <1>6, <1>7 DEF CodecInv, HasCodec
-----------------------------------------------------------------------------
(* A picture is coded.                                                     *)
LEMMA NextGiven ==
  ASSUME NEW tk, NEW p \in Fields, GivenInOrder(tk),
         Place(p) = Len(tk) + 1, p.n \in 1 .. Len(pictures), p.field = 2 => interlaced,
         p.time = pictures[p.n] + (IF p.field = 2 THEN dur \div 2 ELSE 0),
         (p.ud <=> p.field = 1)
  PROVE  GivenInOrder(Append(tk, p)) /\ Len(Append(tk, p)) = Len(tk) + 1
<1> DEFINE tk2 == Append(tk, p)
<1>1. /\ tk \in Seq(Fields) /\ Len(tk) \in Nat /\ tk2 \in Seq(Fields)
      /\ Len(tk2) = Len(tk) + 1 /\ tk2[Len(tk) + 1] = p
      /\ \A i \in 1 .. Len(tk) : tk2[i] = tk[i]
  BY LenProperties, AppendProperties DEF GivenInOrder
<1> HIDE DEF tk2
<1>2. \A i \in 1 .. Len(tk2) : (i \in 1 .. Len(tk) /\ tk2[i] = tk[i]) \/ (i = Len(tk) + 1 /\ tk2[i] = p)
  BY <1>1
<1>3. ASSUME NEW i \in 1 .. Len(tk2)
      PROVE  /\ Place(tk2[i]) = i /\ tk2[i].n \in 1 .. Len(pictures)
             /\ tk2[i].field = 2 => interlaced
             /\ tk2[i].time = pictures[tk2[i].n] + (IF tk2[i].field = 2 THEN dur \div 2 ELSE 0)
             /\ (tk2[i].ud <=> tk2[i].field = 1)
  <2>1. CASE i \in 1 .. Len(tk) /\ tk2[i] = tk[i]
    BY <2>1 DEF GivenInOrder
  <2>2. CASE i = Len(tk) + 1 /\ tk2[i] = p
    BY <2>2
  <2> QED
    BY <1>2, <2>1, <2>2
<1>4. GivenInOrder(tk2)
  BY <1>1, <1>3 DEF GivenInOrder
<1> QED
  BY <1>1, <1>4 DEF tk2

LEMMA PictureGiven ==
  ASSUME CodecInv, epc = "encode"
  PROVE  LET tk == Append(taken, Codec!Picture)
         IN  /\ Codec!Picture \in Fields /\ Len(pictures) \in Nat \ {0}
             /\ GivenInOrder(tk) /\ Len(tk) = Len(taken) + 1
             /\ CodedInOrder(tk, sent, coded)
             /\ Len(taken) = IF interlaced THEN 2 * (Len(pictures) - 1) ELSE Len(pictures) - 1
<1> DEFINE p == Codec!Picture
           n == Len(pictures)
<1>1. /\ pictures \in Seq(Nat) /\ n \in Nat \ {0} /\ pictures[n] \in Nat
  <2>1. pictures # <<>> /\ pictures \in Seq(Nat)
    BY DEF CodecInv, AllGiven, PicturesApart
  <2>2. n \in Nat \ {0}
    BY <2>1, LenProperties, EmptySeq
  <2> QED
    BY <2>1, <2>2, ElementOfSeq
<1>2. Len(taken) = IF interlaced THEN 2 * (n - 1) ELSE n - 1
  BY DEF CodecInv, AllGiven, Seen
<1>3. /\ p = [n |-> n, field |-> 1, time |-> pictures[n], ud |-> TRUE]
  BY DEF Codec!Picture, Codec!Last
<1> HIDE DEF p, n
<1>4. p \in Fields /\ p.n = n /\ p.field = 1 /\ p.time = pictures[n] /\ p.ud = TRUE
  BY <1>1, <1>3 DEF Fields
<1>5. Place(p) = Len(taken) + 1
  BY <1>1, <1>2, <1>4 DEF Place
<1>6. p.n \in 1 .. Len(pictures) /\ p.time = pictures[p.n] + (IF p.field = 2 THEN dur \div 2 ELSE 0)
  BY <1>1, <1>4 DEF n
<1>7. GivenInOrder(Append(taken, p)) /\ Len(Append(taken, p)) = Len(taken) + 1
  <2>1. (p.ud <=> p.field = 1) /\ p.field # 2
    BY <1>4
  <2> QED
    BY <1>4, <1>5, <1>6, <2>1, NextGiven DEF CodecInv
<1>8. CodedInOrder(Append(taken, p), sent, coded)
  BY <1>4, FieldAppended DEF CodecInv
<1> QED
  BY <1>1, <1>2, <1>4, <1>7, <1>8 DEF p, n

LEMMA SecondGiven ==
  ASSUME CodecInv, epc = "encode", interlaced,
         NEW tk, tk = Append(taken, Codec!Picture)
  PROVE  LET all == Append(tk, Codec!Second)
         IN  /\ Codec!Second \in Fields /\ GivenInOrder(all) /\ Len(all) = Len(taken) + 2
<1> DEFINE p == Codec!Second
           n == Len(pictures)
<1>1. /\ GivenInOrder(tk) /\ Len(tk) = Len(taken) + 1 /\ Len(taken) = 2 * (n - 1)
      /\ n \in Nat \ {0} /\ pictures[n] \in Nat /\ dur \div 2 \in Nat
  <2>1. pictures \in Seq(Nat) /\ TimesTypes
    BY DEF CodecInv, PicturesApart
  <2>2. /\ GivenInOrder(tk) /\ Len(tk) = Len(taken) + 1 /\ n \in Nat \ {0}
        /\ Len(taken) = 2 * (n - 1)
    BY PictureGiven
  <2>3. pictures[n] \in Nat
    BY <2>1, <2>2, ElementOfSeq
  <2>4. dur \div 2 \in Nat
    BY <2>1, Half
  <2> QED
    BY <2>2, <2>3, <2>4
<1>2. p = [n |-> n, field |-> 2, time |-> pictures[n] + dur \div 2, ud |-> FALSE]
  <2> DEFINE h == dur \div 2
             q == [n |-> n, field |-> 1, time |-> pictures[n], ud |-> TRUE]
  <2>1. Codec!Picture = q
    BY DEF Codec!Picture, Codec!Last
  <2>2. p = [q EXCEPT !.field = 2, !.ud = FALSE, !.time = q.time + h]
    BY <2>1 DEF Codec!Second
  <2> HIDE DEF h, p, n
  <2>3. p = [n |-> n, field |-> 2, time |-> pictures[n] + h, ud |-> FALSE]
    BY <2>2
  <2> QED
    BY <2>3 DEF h, n
<1> HIDE DEF p, n
<1>3. /\ p \in Fields /\ p.n = n /\ p.field = 2 /\ p.time = pictures[n] + dur \div 2
      /\ p.ud = FALSE
  BY <1>1, <1>2 DEF Fields
<1>4. Place(p) = Len(tk) + 1
  BY <1>1, <1>3 DEF Place
<1>5. p.n \in 1 .. Len(pictures) /\ p.time = pictures[p.n] + (IF p.field = 2 THEN dur \div 2 ELSE 0)
  BY <1>1, <1>3 DEF n
<1>6. GivenInOrder(Append(tk, p)) /\ Len(Append(tk, p)) = Len(tk) + 1
  <2>1. (p.ud <=> p.field = 1) /\ interlaced
    BY <1>3
  <2> QED
    BY <1>1, <1>3, <1>4, <1>5, <2>1, NextGiven
<1>7. Len(taken) \in Nat
  BY LenProperties DEF CodecInv, GivenInOrder
<1> QED
  BY <1>1, <1>3, <1>6, <1>7 DEF p

(* What a codec is ready to give, it can give.                             *)
LEMMA ReadyIs ==
  ASSUME CodecInv, NEW tk, NEW st, NEW cd, GivenInOrder(tk), CodedInOrder(tk, st, cd),
         Len(tk) - reopened - reorder >= cd
  PROVE  CanGive(tk, cd) /\ cd \in Nat
<1>1. cd \in Nat /\ Len(tk) \in Nat /\ reopened \in Nat /\ reorder \in {0, 1}
  BY LenProperties DEF CodedInOrder, GivenInOrder, CodecInv, TimesTypes
<1>2. cd + reorder <= Len(tk) - reopened
  BY <1>1
<1> QED
  BY <1>1, <1>2 DEF CanGive, CodecInv, CodedInOrder

(* The steps of all kinds end alike.                                       *)
LEMMA EncodeEnds ==
  ASSUME CodecInv, HasCodec', Codec!Encode,
         GivenInOrder(taken'), CodedInOrder(taken', sent', coded'), DistanceKept',
         Len(taken') = IF interlaced THEN Len(taken) + 2 ELSE Len(taken) + 1
  PROVE  CodecInv'
<1>0. /\ UNCHANGED <<kind, reorder, generic, interlaced, dur>> /\ UNCHANGED Modes
      /\ UNCHANGED <<session, pictures, reopened>>
      /\ epc = "encode" /\ epc' = "wait"
  BY DEF Codec!Encode, Codec!mode_, Modes
<1>1. TimesTypes' /\ KnownKind' /\ PicturesApart'
  BY <1>0 DEF CodecInv, TimesTypes, KnownKind, PicturesApart
<1>2. PICK tk, st, cd : tk = taken' /\ st = sent' /\ cd = coded'
  OBVIOUS
<1>3. GivenInOrder(taken)'
  <2>1. GivenInOrder(tk)'
    BY <1>0, <1>2, SameGiven DEF CodecInv
  <2> QED
    BY <1>2, <2>1
<1>4. CodedInOrder(taken, sent, coded)'
  <2>1. CodedInOrder(tk, st, cd)'
    BY <1>0, <1>2, SameCoded DEF CodecInv
  <2> QED
    BY <1>2, <2>1
<1>5. AllGiven'
  <2>1. /\ Len(pictures) \in Nat \ {0}
        /\ Len(taken) = IF interlaced THEN 2 * (Len(pictures) - 1) ELSE Len(pictures) - 1
    BY <1>0, PictureGiven
  <2>3. Seen' = Len(pictures)
    BY <1>0 DEF Seen
  <2>4. Len(taken') = IF interlaced THEN 2 * Len(pictures) ELSE Len(pictures)
    BY <2>1
  <2> HIDE DEF Seen
  <2> QED
    BY <1>0, <2>3, <2>4 DEF AllGiven
<1> QED
  BY <1>1, <1>3, <1>4, <1>5 DEF CodecInv, HasCodec

(* The frames that the threads make.                                       *)
LEMMA MadeFrame ==
  ASSUME KnownKind, NEW tk, NEW k \in Nat, CanGive(tk, k),
         NEW pts, NEW dts, NEW a, NEW v \in Nat,
         pts = tk[reopened + Codec!Shown(k)].time + Codec!Delay, dts = DtsOf(tk, k),
         kind # "avcodec" => v = Codec!DataOf(tk[reopened + Codec!Shown(k)]),
         (kind = "x264" /\ a \in Int) \/ a = Codec!Arrival(pts, dts)
  PROVE  MadeNow(tk, k, Codec!Frame(tk[reopened + Codec!Shown(k)], pts, dts, a, v))
<1> DEFINE p == tk[reopened + Codec!Shown(k)]
           f == Codec!Frame(p, pts, dts, a, v)
<1>1. /\ pts \in Int /\ dts \in Int /\ dts <= pts /\ Lead \in Nat
      /\ ~Codec!HasGap => pts - dts <= (reorder + 1) * dur
  BY DtsBehind, NumbersOfCodec
<1>2. (reorder + 1) * dur \in Nat
  BY DEF CanGive, TimesTypes
<1>3. a \in Int /\ (\/ kind = "x264" \/ a <= dts
                    \/ generic /\ (Codec!HasGap \/ Lead < (reorder + 1) * dur))
  <2> DEFINE near == (reorder + 1) * dur
  <2>1. /\ pts \in Int /\ dts \in Int /\ dts <= pts /\ Lead \in Nat /\ near \in Nat
        /\ ~Codec!HasGap => pts - dts <= near
    BY <1>1, <1>2
  <2> HIDE DEF near
  <2>2. a = Codec!Arrival(pts, dts) =>
          a \in Int /\ (a <= dts \/ (generic /\ (Codec!HasGap \/ Lead < near)))
    <3>1. CASE generic
      BY <2>1, <3>1 DEF Codec!Arrival, Codec!LowLatency
    <3>2. CASE ~generic
      BY <2>1, <3>2 DEF Codec!Arrival, Codec!LowLatency
    <3> QED
      BY <3>1, <3>2
  <2> QED
    BY <2>2 DEF near
<1> HIDE DEF p
<1>4. f = [session |-> session, n |-> p.n, field |-> p.field, pts |-> pts, dts |-> dts,
           arrival |-> a, avfm |-> v, message |-> p.ud /\ kind # "avcodec"]
  BY DEF Codec!Frame
<1> HIDE DEF f
<1>5. f.arrival = a /\ f.avfm = v /\ f.dts = dts
  BY <1>4
<1>6. f = Codec!Frame(p, p.time + Codec!Delay, DtsOf(tk, k), f.arrival, f.avfm)
  BY <1>5 DEF f, p
<1>7. kind # "avcodec" => f.avfm = Codec!DataOf(p)
  BY <1>5 DEF p
<1>8. ArrivesBefore(f)
  BY <1>3, <1>5 DEF ArrivesBefore
<1>9. MadeNow(tk, k, f)
  BY <1>3, <1>5, <1>6, <1>7, <1>8 DEF MadeNow, p
<1> QED
  BY <1>9 DEF f, p

LEMMA AvcodecStep ==
  ASSUME CodecInv, HasCodec', Codec!Encode, kind = "avcodec"
  PROVE  CodecInv'
<1>0. epc = "encode" /\ kind' = kind /\ ~interlaced
  BY DEF Codec!Encode, Codec!mode_, CodecInv, TimesTypes
<1>1. Codec!EncodeAvcodec
  BY DEF Codec!Encode, Codec!EncodeX264, Codec!EncodeX265
<1>2. PICK tk : tk = Append(taken, Codec!Picture)
  OBVIOUS
<1>3. /\ GivenInOrder(tk) /\ Len(tk) = Len(taken) + 1 /\ CodedInOrder(tk, sent, coded)
      /\ Len(pictures) \in Nat
  BY <1>0, <1>2, PictureGiven
<1>4. taken' = tk
  BY <1>1, <1>2 DEF Codec!EncodeAvcodec
<1>5. DistanceKept'
  BY <1>0 DEF DistanceKept
<1>6. CodedInOrder(taken', sent', coded')
  <2>1. CASE Codec!Ready(tk)
    <3> DEFINE f == Codec!AvcodecFrame(tk)
    <3>1. sent' = Append(sent, f) /\ coded' = coded + 1
      BY <1>1, <1>2, <2>1 DEF Codec!EncodeAvcodec
    <3>2. CanGive(tk, coded) /\ coded \in Nat
      BY <1>3, <2>1, ReadyIs DEF Codec!Ready
    <3> DEFINE p == tk[reopened + Codec!Shown(coded)]
    <3>3. DtsOf(tk, coded) = Codec!CodecDts(tk, coded) /\ Codec!Delay = 0
      BY DEF DtsOf, Codec!Delay
    <3>4. /\ p.time \in Nat /\ Codec!CodecDts(tk, coded) \in Int
          /\ ~Codec!HasGap => p.time - Codec!CodecDts(tk, coded) <= (reorder + 1) * dur
      BY <3>2, CodecDtsNear
    <3> DEFINE a == Codec!Arrival(p.time, Codec!CodecDts(tk, coded))
    <3>5. f = Codec!Frame(p, p.time, Codec!CodecDts(tk, coded), a, Len(pictures))
      BY DEF Codec!AvcodecFrame
    <3>6. MadeNow(tk, coded, f)
      <4> DEFINE pts == p.time
                 dts == Codec!CodecDts(tk, coded)
                 v == Len(pictures)
      <4>1. /\ pts = p.time + Codec!Delay /\ dts = DtsOf(tk, coded) /\ v \in Nat
            /\ a = Codec!Arrival(pts, dts) /\ f = Codec!Frame(p, pts, dts, a, v)
        BY <1>3, <3>3, <3>4, <3>5
      <4> HIDE DEF pts, dts, a, v, f
      <4>2. MadeNow(tk, coded, Codec!Frame(p, pts, dts, a, v))
        BY <3>2, <4>1, MadeFrame DEF CodecInv
      <4> QED
        BY <4>1, <4>2
    <3> QED
      BY <1>3, <1>4, <3>1, <3>2, <3>6, FrameAppended DEF CodecInv
  <2>2. CASE ~Codec!Ready(tk)
    BY <1>1, <1>2, <1>3, <1>4, <2>2 DEF Codec!EncodeAvcodec
  <2> QED
    BY <2>1, <2>2
<1> QED
  BY <1>0, <1>3, <1>4, <1>5, <1>6, EncodeEnds

LEMMA X264Step ==
  ASSUME CodecInv, HasCodec', Codec!Encode, kind = "x264"
  PROVE  CodecInv'
<1>0. /\ epc = "encode" /\ UNCHANGED <<kind, reorder, generic, interlaced, dur, session>>
      /\ ~interlaced
  BY DEF Codec!Encode, Codec!mode_, CodecInv, TimesTypes
<1>1. Codec!EncodeX264
  BY DEF Codec!Encode, Codec!EncodeAvcodec, Codec!EncodeX265
<1>2. PICK tk : tk = Append(taken, Codec!Picture)
  OBVIOUS
<1>3. /\ GivenInOrder(tk) /\ Len(tk) = Len(taken) + 1 /\ CodedInOrder(tk, sent, coded)
  BY <1>0, <1>2, PictureGiven
<1>4. taken' = tk
  BY <1>1, <1>2 DEF Codec!EncodeX264
<1>5. /\ lastDts \in Nat /\ accum \in Int /\ (coded > 0 => lastDts > 0)
      /\ coded \in Nat /\ dur \in Nat
      /\ \A i \in 1 .. Len(sent) : Now(sent[i]) =>
           sent[i].dts - sent[i].arrival = lastDts - accum - (coded - 1) * dur
  BY <1>3 DEF CodecInv, DistanceKept, CodedInOrder, TimesTypes
<1>6. CASE Codec!Ready(tk)
  <2> DEFINE p == tk[reopened + Codec!Shown(coded)]
             dts == p.time + (IF generic THEN Offset ELSE 0) - Ahead(coded) + 2 * dur
             skew == IF lastDts > 0 THEN accum + dts - lastDts - dur ELSE accum
             pts == dts + Ahead(coded)
             a == coded * dur + skew
             f == Codec!Frame(p, pts, dts, a, p.n)
  <2>1. /\ sent' = Append(sent, f) /\ coded' = coded + 1 /\ lastDts' = dts /\ accum' = skew
    <3>1. Codec!X264Frame(tk) = [frame |-> f, last |-> dts, accum |-> skew]
      BY DEF Codec!X264Frame, Ahead
    <3>2. /\ sent' = Append(sent, Codec!X264Frame(tk).frame) /\ coded' = coded + 1
          /\ lastDts' = Codec!X264Frame(tk).last /\ accum' = Codec!X264Frame(tk).accum
      BY <1>1, <1>2, <1>6 DEF Codec!EncodeX264
    <3> HIDE DEF f, dts, skew
    <3> QED
      BY <3>1, <3>2
  <2>2. CanGive(tk, coded) /\ coded \in Nat
    BY <1>3, <1>6, ReadyIs DEF Codec!Ready
  <2>3. dts = DtsOf(tk, coded)
    BY DEF DtsOf
  <2>4. dts \in Int /\ dts > 0
    BY <2>2, <2>3, DtsBehind DEF CodecInv
  <2>5. pts = p.time + Codec!Delay
    <3>1. p.time \in Nat
      BY <2>2, CodecDtsNear
    <3>2. Ahead(coded) \in Int
      BY <1>5, <2>2, ShownCases DEF CodecInv
    <3> DEFINE add == IF generic THEN Offset ELSE 0
    <3>3. add \in Nat /\ Codec!Delay = 2 * dur + add
      BY NumbersOfCodec DEF Codec!Delay
    <3>4. dts = p.time + add - Ahead(coded) + 2 * dur
      OBVIOUS
    <3> HIDE DEF p, add, dts
    <3> QED
      BY <1>5, <3>1, <3>2, <3>3, <3>4
  <2>6. p \in Fields /\ p.field # 2
    <3> DEFINE at == reopened + Codec!Shown(coded)
    <3>1. /\ tk \in Seq(Fields) /\ Len(tk) \in Nat /\ reorder \in {0, 1}
          /\ reopened \in 1 .. Len(tk) + 1 /\ coded + reorder <= Len(tk) - reopened
      BY <2>2, LenProperties DEF CanGive, GivenInOrder, TimesTypes
    <3>2. Codec!Shown(coded) \in Nat /\ Codec!Shown(coded) <= coded + reorder
      BY <2>2, <3>1, ShownUndone
    <3>3. at \in 1 .. Len(tk)
      BY <2>2, <3>1, <3>2
    <3> HIDE DEF at
    <3>4. tk[at] \in Fields
      BY <3>1, <3>3, ElementOfSeq
    <3>5. tk[at].field # 2
      BY <1>0, <1>3, <3>3 DEF GivenInOrder
    <3> QED
      BY <3>4, <3>5 DEF at
  <2>7. p.n \in Nat /\ p.n = Codec!DataOf(p)
    <3> HIDE DEF p
    <3> QED
      BY <2>6 DEF Fields, Codec!DataOf
  <2> HIDE DEF dts, pts
  <2>8. skew \in Int /\ a \in Int
    <3>1. coded * dur \in Int
      BY <1>5
    <3> QED
      BY <1>5, <2>4, <3>1
  <2> HIDE DEF a, skew
  <2>9. MadeNow(tk, coded, f)
    BY <2>2, <2>3, <2>5, <2>7, <2>8, MadeFrame DEF CodecInv
  <2>10. f.session = session /\ f.dts = dts /\ f.arrival = a
    <3> HIDE DEF p
    <3> QED
      BY DEF Codec!Frame
  <2> HIDE DEF f, p
  <2>11. CodedInOrder(taken', sent', coded')
    BY <1>3, <1>4, <2>1, <2>2, <2>9, FrameAppended DEF CodecInv
  <2>12. DistanceKept'
    <3>1. /\ sent \in Seq(Frames) /\ Len(sent) \in Nat
      BY LenProperties DEF CodecInv, CodedInOrder
    <3>2. /\ Len(sent') = Len(sent) + 1 /\ sent'[Len(sent) + 1] = f
          /\ \A i \in 1 .. Len(sent) : sent'[i] = sent[i]
      BY <2>1, <3>1, AppendProperties
    <3>3. PICK c \in Int : c = coded * dur
      BY <1>5
    <3>4. (coded - 1) * dur = c - dur /\ (coded' - 1) * dur = c
      <4>1. coded \in Int /\ dur \in Int
        BY <1>5
      <4>2. coded' - 1 = coded
        BY <2>1, <4>1
      <4>3. (coded - 1) * dur = coded * dur - dur
        BY <4>1
      <4> QED
        BY <3>3, <4>2, <4>3
    <3>5. dts - a = dts - skew - c
      BY <1>5, <2>4, <2>8, <3>3 DEF a
    <3>6. coded > 0 => lastDts - accum - (coded - 1) * dur = dts - skew - c
      BY <1>5, <2>4, <3>3, <3>4 DEF skew
    <3>7. ASSUME NEW i \in 1 .. Len(sent), Now(sent[i])
          PROVE  sent[i].dts - sent[i].arrival = dts - skew - c
      <4>1. coded > 0
        <5>1. CASE coded = 0
          <6>1. i \in 1 .. Len(sent) - coded
            BY <3>1, <5>1
          <6>2. Place(sent[i]) < reopened /\ MadeOf(taken, sent[i]) /\ reopened = 1
            BY <3>7, <6>1 DEF CodecInv, CodedInOrder
          <6>3. Place(sent[i]) >= 1
            BY <6>2 DEF MadeOf
          <6>4. Len(taken) \in Nat /\ Place(sent[i]) \in 1 .. Len(taken)
            BY <6>2, LenProperties DEF MadeOf, CodecInv, GivenInOrder
          <6> QED
            BY <6>2, <6>3, <6>4
        <5> QED
          BY <1>5, <5>1
      <4> QED
        BY <1>5, <3>6, <3>7, <4>1
    <3>8. ASSUME NEW i \in 1 .. Len(sent'), Now(sent[i])'
          PROVE  sent'[i].dts - sent'[i].arrival = lastDts' - accum' - (coded' - 1) * dur'
      <4>1. lastDts' - accum' - (coded' - 1) * dur' = dts - skew - c
        BY <1>0, <2>1, <3>4
      <4>2. CASE i \in 1 .. Len(sent)
        <5>1. sent'[i] = sent[i] /\ Now(sent[i])
          BY <1>0, <3>2, <3>8, <4>2 DEF Now
        <5> QED
          BY <3>7, <4>1, <4>2, <5>1
      <4>3. CASE i \notin 1 .. Len(sent)
        <5>1. sent'[i] = f
          BY <3>1, <3>2, <4>3
        <5> QED
          BY <2>10, <3>5, <4>1, <5>1
      <4> QED
        BY <4>2, <4>3
    <3>9. lastDts' \in Nat /\ accum' \in Int /\ lastDts' > 0
      BY <2>1, <2>4, <2>8
    <3> QED
      BY <3>8, <3>9 DEF DistanceKept
  <2> QED
    BY <1>0, <1>3, <1>4, <2>11, <2>12, EncodeEnds
<1>7. CASE ~Codec!Ready(tk)
  <2>1. UNCHANGED <<sent, coded, lastDts, accum>>
    BY <1>1, <1>2, <1>7 DEF Codec!EncodeX264
  <2>2. DistanceKept'
    BY <1>0, <2>1 DEF CodecInv, DistanceKept, Now
  <2> QED
    BY <1>0, <1>3, <1>4, <2>1, <2>2, EncodeEnds
<1> QED
  BY <1>6, <1>7

(* x265: a field goes in, and a frame may come out.                        *)
LEMMA X265Gives ==
  ASSUME CodecInv, kind = "x265", NEW tk, NEW st, NEW cd,
         GivenInOrder(tk), CodedInOrder(tk, st, cd), Len(tk) - reopened - reorder >= cd
  PROVE  CodedInOrder(tk, Append(st, Codec!X265Frame(tk, cd)), cd + 1) /\ Codec!X265Frame(tk, cd) \in Frames
<1>1. CanGive(tk, cd) /\ cd \in Nat
  BY ReadyIs
<1> DEFINE at == reopened + Codec!Shown(cd)
           p == tk[at]
           pts == p.time + 2 * dur
           dts == Codec!CodecDts(tk, cd) + 2 * dur
           a == Codec!Arrival(pts, dts)
           v == IF p.ud THEN p.n ELSE 0
<1>2. v \in Nat /\ v = Codec!DataOf(p)
  <2>1. /\ tk \in Seq(Fields) /\ Len(tk) \in Nat /\ reorder \in {0, 1}
        /\ reopened \in 1 .. Len(tk) + 1 /\ cd + reorder <= Len(tk) - reopened
    BY <1>1, LenProperties DEF CanGive, GivenInOrder, TimesTypes
  <2>2. Codec!Shown(cd) \in Nat /\ Codec!Shown(cd) <= cd + reorder
    BY <1>1, <2>1, ShownUndone
  <2>3. at \in 1 .. Len(tk)
    BY <1>1, <2>1, <2>2
  <2> HIDE DEF at
  <2>4. p \in Fields /\ (p.ud <=> p.field = 1)
    BY <2>1, <2>3, ElementOfSeq DEF GivenInOrder
  <2> HIDE DEF p
  <2> QED
    BY <2>4 DEF Fields, Codec!DataOf
<1>3. pts = p.time + Codec!Delay /\ dts = DtsOf(tk, cd)
  BY DEF Codec!Delay, DtsOf
<1>4. Codec!X265Frame(tk, cd) = Codec!Frame(p, pts, dts, a, v) /\ a = Codec!Arrival(pts, dts)
  BY DEF Codec!X265Frame
<1> HIDE DEF pts, dts, a, v
<1>5. MadeNow(tk, cd, Codec!Frame(p, pts, dts, a, v))
  BY <1>1, <1>2, <1>3, <1>4, MadeFrame DEF CodecInv
<1> QED
  BY <1>1, <1>4, <1>5, FrameAppended DEF CodecInv

LEMMA ConcatOne ==
  ASSUME NEW S, NEW s \in Seq(S), NEW a \in S
  PROVE  s \o <<a>> = Append(s, a)
BY AppendIsConcat

LEMMA ConcatTwo ==
  ASSUME NEW S, NEW s \in Seq(S), NEW a \in S, NEW b \in S
  PROVE  s \o <<a, b>> = Append(Append(s, a), b)
<1> DEFINE x == <<a>>
           y == <<b>>
<1>1. x \in Seq(S) /\ y \in Seq(S) /\ <<a, b>> = Append(x, b)
  OBVIOUS
<1>2. Append(x, b) = x \o y /\ s \o x = Append(s, a)
  BY <1>1, AppendIsConcat
<1>3. s \o x \in Seq(S)
  BY <1>1, ConcatProperties
<1>4. Append(s \o x, b) = (s \o x) \o y
  BY <1>3, AppendIsConcat
<1> HIDE DEF x, y
<1>5. s \o (x \o y) = (s \o x) \o y
  BY <1>1, ConcatAssociative
<1> QED
  BY <1>1, <1>2, <1>4, <1>5

LEMMA X265Out ==
  ASSUME CodecInv, kind = "x265", NEW tk, NEW st, NEW cd, NEW out,
         GivenInOrder(tk), CodedInOrder(tk, st, cd),
         out = IF Len(tk) - reopened - reorder >= cd THEN <<Codec!X265Frame(tk, cd)>> ELSE <<>>
  PROVE  CodedInOrder(tk, st \o out, cd + Len(out))
<1>1. st \in Seq(Frames) /\ cd \in Nat
  BY LenProperties DEF CodedInOrder
<1>2. CASE Len(tk) - reopened - reorder >= cd
  <2>1. PICK f : f = Codec!X265Frame(tk, cd)
    OBVIOUS
  <2>2. CodedInOrder(tk, Append(st, f), cd + 1) /\ f \in Frames
    BY <1>2, <2>1, X265Gives
  <2>3. st \o <<f>> = Append(st, f) /\ Len(<<f>>) = 1 /\ out = <<f>>
    BY <1>1, <1>2, <2>1, <2>2, ConcatOne
  <2> QED
    BY <2>2, <2>3
<1>3. CASE ~(Len(tk) - reopened - reorder >= cd)
  <2>1. out = <<>> /\ Len(<<>>) = 0
    BY <1>3, EmptySeq
  <2>2. st \o <<>> = st
    BY <1>1, ConcatEmptySeq
  <2>3. cd + 0 = cd
    BY <1>1
  <2> QED
    BY <2>1, <2>2, <2>3
<1> QED
  BY <1>2, <1>3

LEMMA X265Step ==
  ASSUME CodecInv, HasCodec', Codec!Encode, kind = "x265"
  PROVE  CodecInv'
<1>0. epc = "encode" /\ kind' = kind /\ taken \in Seq(Fields)
  BY DEF Codec!Encode, Codec!mode_, CodecInv, GivenInOrder
<1>1. Codec!EncodeX265
  BY DEF Codec!Encode, Codec!EncodeX264, Codec!EncodeAvcodec
<1>2. DistanceKept'
  BY <1>0 DEF DistanceKept
<1>3. PICK p, tk : p = Codec!Picture /\ tk = Append(taken, p)
  OBVIOUS
<1>4. /\ GivenInOrder(tk) /\ Len(tk) = Len(taken) + 1 /\ CodedInOrder(tk, sent, coded)
      /\ p \in Fields
  BY <1>0, <1>3, PictureGiven
<1>5. PICK first : first = IF Len(tk) - reopened - reorder >= coded
                           THEN <<Codec!X265Frame(tk, coded)>> ELSE <<>>
  OBVIOUS
<1>6. PICK cd : cd = coded + Len(first)
  OBVIOUS
<1>7. CodedInOrder(tk, sent \o first, cd)
  BY <1>4, <1>5, <1>6, X265Out
<1>8. CASE ~interlaced
  <2>1. Codec!X265Fields = <<p>> /\ <<p>>[1] = p /\ taken \o <<p>> = tk
    BY <1>0, <1>3, <1>4, <1>8, ConcatOne DEF Codec!X265Fields
  <2>2. taken' = tk /\ sent' = sent \o first \o <<>> /\ coded' = cd + Len(<<>>)
    BY <1>1, <1>3, <1>5, <1>6, <1>8, <2>1 DEF Codec!EncodeX265
  <2>3. sent \o first \in Seq(Frames) /\ cd \in Nat
    BY <1>7, LenProperties DEF CodedInOrder
  <2>4. (sent \o first) \o <<>> = sent \o first /\ cd + Len(<<>>) = cd
    <3> DEFINE st == sent \o first
    <3>1. st \in Seq(Frames)
      BY <2>3
    <3> HIDE DEF st
    <3>2. st \o <<>> = st
      BY <3>1, ConcatEmptySeq
    <3> QED
      BY <2>3, <3>2, EmptySeq DEF st
  <2>5. CodedInOrder(taken', sent', coded')
    BY <1>7, <2>2, <2>4
  <2> QED
    BY <1>2, <1>4, <1>8, <2>2, <2>5, EncodeEnds
<1>9. CASE interlaced
  <2>1. PICK q, all : q = Codec!Second /\ all = Append(tk, q)
    OBVIOUS
  <2>2. GivenInOrder(all) /\ Len(all) = Len(taken) + 2 /\ q \in Fields
    BY <1>0, <1>3, <1>9, <2>1, SecondGiven
  <2>3. /\ Codec!X265Fields = <<p, q>> /\ <<p, q>>[1] = p
        /\ taken \o <<p, q>> = all
    BY <1>0, <1>3, <1>4, <1>9, <2>1, <2>2, ConcatTwo DEF Codec!X265Fields
  <2>4. PICK second : second = IF Len(all) - reopened - reorder >= cd
                               THEN <<Codec!X265Frame(all, cd)>> ELSE <<>>
    OBVIOUS
  <2>5. taken' = all /\ sent' = sent \o first \o second /\ coded' = cd + Len(second)
    BY <1>1, <1>3, <1>5, <1>6, <1>9, <2>3, <2>4 DEF Codec!EncodeX265
  <2>6. CodedInOrder(all, sent \o first, cd)
    BY <1>4, <1>7, <2>1, <2>2, FieldAppended DEF CodecInv
  <2>7. CodedInOrder(all, (sent \o first) \o second, cd + Len(second))
    BY <2>2, <2>4, <2>6, X265Out
  <2>8. CodedInOrder(taken', sent', coded')
    BY <2>5, <2>7
  <2> QED
    BY <1>0, <1>2, <1>9, <2>2, <2>5, <2>8, EncodeEnds
<1> QED
  BY <1>8, <1>9

LEMMA EncodeStep ==
  ASSUME CodecInv, HasCodec', Codec!Encode
  PROVE  CodecInv'
<1>1. kind \in {"x264", "x265", "avcodec"}
  BY DEF CodecInv, KnownKind
<1> QED
  BY <1>1, X264Step, X265Step, AvcodecStep
-----------------------------------------------------------------------------
(* All steps.                                                              *)
LEMMA CodecNextKeeps ==
  ASSUME CodecInv, HasCodec', Codec!Next
  PROVE  CodecInv'
<1>1. CASE Codec!Wake
  BY <1>1, WakeStep
<1>2. CASE Codec!TakeSetting
  <2>1. CASE Codec!ClearFlag
    <3>1. UNCHANGED Modes /\ UNCHANGED Codec!session_ /\ (epc' = "wait" <=> epc = "wait")
      BY <2>1 DEF Codec!ClearFlag, Codec!mode_, Modes
    <3> QED
      BY <3>1, SettingsStep
  <2>2. CASE Codec!UseSetting
    BY <2>2, UseSettingStep
  <2> QED
    BY <1>2, <2>1, <2>2 DEF Codec!TakeSetting
<1>3. CASE Codec!Encode
  BY <1>3, EncodeStep
<1>4. CASE Codec!Restart
  BY <1>4, RestartStep
<1>5. ASSUME NEW v \in Settings, Codec!Ask(v) PROVE CodecInv'
  <2>1. UNCHANGED Modes /\ UNCHANGED Codec!session_ /\ (epc' = "wait" <=> epc = "wait")
    BY <1>5 DEF Codec!Ask, Codec!mode_, Modes
  <2> QED
    BY <2>1, SettingsStep
<1>6. CASE Codec!RaiseFlag
  <2>1. UNCHANGED Modes /\ UNCHANGED Codec!session_ /\ (epc' = "wait" <=> epc = "wait")
    BY <1>6 DEF Codec!RaiseFlag, Codec!mode_, Modes
  <2> QED
    BY <2>1, SettingsStep
<1> QED
  BY <1>1, <1>2, <1>3, <1>4, <1>5, <1>6 DEF Codec!Next

(* The sessions of the GPU are counted in the same variable: without a     *)
(* codec nothing is said of it but that it is a number.                    *)
LEMMA WithoutCodec ==
  ASSUME CodecInv, UNCHANGED <<mode, timeVars>>, Idle, session' \in Nat
  PROVE  CodecInv'
<1>0. /\ UNCHANGED <<mode, kind, reorder, generic, interlaced, dur, pictures, taken, coded>>
      /\ UNCHANGED <<sent, lastDts, accum, epc, reopened>>
  BY DEF timeVars
<1>1. Idle'
  BY <1>0 DEF Idle
<1>2. TimesTypes' /\ KnownKind'
  BY <1>0 DEF CodecInv, TimesTypes, KnownKind
<1>3. Len(<<>>) = 0 /\ \A S : <<>> \in Seq(S)
  BY EmptySeq
<1>4. PicturesApart'
  BY <1>1, <1>3 DEF Idle, PicturesApart
<1>5. GivenInOrder(taken)'
  BY <1>1, <1>3 DEF Idle, GivenInOrder
<1>6. CodedInOrder(taken, sent, coded)'
  BY <1>1, <1>3 DEF Idle, CodedInOrder
<1>7. AllGiven'
  BY <1>1, <1>3 DEF Idle, AllGiven, Seen
<1>8. DistanceKept'
  BY <1>1, <1>3 DEF Idle, DistanceKept
<1> QED
  BY <1>1, <1>2, <1>4, <1>5, <1>6, <1>7, <1>8 DEF CodecInv

LEMMA NothingCoded ==
  ASSUME CodecInv, UNCHANGED <<mode, session, timeVars>>
  PROVE  CodecInv'
<1>0. /\ UNCHANGED <<mode, session, kind, reorder, generic, interlaced, dur, pictures>>
      /\ UNCHANGED <<taken, coded, sent, lastDts, accum, epc, reopened>>
  BY DEF timeVars
<1>1. CASE mode \in {"times", "asked"}
  <2>1. /\ HasCodec' /\ UNCHANGED Modes /\ UNCHANGED Codec!session_
        /\ (epc' = "wait" <=> epc = "wait")
    BY <1>0, <1>1 DEF HasCodec, Modes, Codec!session_
  <2> QED
    BY <2>1, SettingsStep
<1>2. CASE mode \notin {"times", "asked"}
  <2>1. Idle /\ session' \in Nat
    BY <1>0, <1>2 DEF CodecInv, TimesTypes
  <2> QED
    BY <2>1, WithoutCodec
<1> QED
  BY <1>1, <1>2

LEMMA CodecInvKept ==
  CodecInv /\ [Next]_vars => CodecInv'
<1> SUFFICES ASSUME CodecInv, [Next]_vars PROVE CodecInv'
  OBVIOUS
<1>1. CASE AudioNext \/ PiecesNext
  <2>1. UNCHANGED <<mode, session, timeVars>>
    BY <1>1 DEF AudioNext, PiecesNext
  <2> QED
    BY <2>1, NothingCoded
<1>2. CASE TimesNext
  <2>1. Codec!Next /\ HasCodec'
    BY <1>2 DEF TimesNext, HasCodec
  <2> QED
    BY <2>1, CodecNextKeeps
<1>3. CASE GopNext
  <2>1. mode \in {"gop", "headers"} /\ UNCHANGED <<mode, timeVars>> /\ session \in Nat
    BY <1>3 DEF GopNext, CodecInv, TimesTypes
  <2>2. Idle
    BY <2>1 DEF CodecInv
  <2>3. session' \in {session, session + 1}
    BY <1>3 DEF GopNext, Gop!Next, Gop!EncodePicture, Gop!CloseEncoder, Gop!OpenEncoder
  <2> QED
    BY <2>1, <2>2, <2>3, WithoutCodec
<1>4. CASE UNCHANGED vars
  <2>1. UNCHANGED <<mode, session, timeVars>>
    BY <1>4 DEF vars
  <2> QED
    BY <2>1, NothingCoded
<1> QED
  BY <1>1, <1>2, <1>3, <1>4 DEF Next

LEMMA CodecInvHolds ==
  Spec => []CodecInv
<1>1. Init => CodecInv
  BY CodecInitially
<1>2. CodecInv /\ [Next]_vars => CodecInv'
  BY CodecInvKept
<1> QED
  BY <1>1, <1>2, PTL DEF Spec

-----------------------------------------------------------------------------
(* Several coded frames of a picture: the parts come in the order of       *)
(* coding, and each frame is made of the part in its place.                *)
PartRecords == [k : Nat \ {0}, part : Nat \ {0}, of : Nat]
PieceRecords ==
  [n : Nat, part : Nat, of : Nat, pts : Nat, dts : Nat, arrival : Int, avfm : Nat]

CapturedInOrder ==
  /\ captured \in Seq(Nat)
  /\ \A i, j \in 1 .. Len(captured) : i <= j => captured[i] <= captured[j]

PartsInOrder ==
  /\ given \in Seq(PartRecords)
  /\ \A i \in 1 .. Len(given) : Pieces!CanGive(given[i])
  /\ \A i \in 1 .. Len(given) : i > 1 /\ given[i].part > 1 =>
       given[i - 1].k = given[i].k /\ given[i - 1].part = given[i].part - 1
  /\ \A i, j \in 1 .. Len(given) : i <= j => given[i].k <= given[j].k

PieceOf(x) == IF card THEN Pieces!CardPiece(x) ELSE Pieces!VaapiPiece(x)

MadeOfParts ==
  /\ pieces \in Seq(PieceRecords)
  /\ Len(pieces) <= Len(given) /\ (~card => Len(pieces) = Len(given))
  /\ \A i \in 1 .. Len(pieces) : pieces[i] = PieceOf(given[i])

PiecesInv ==
  card \in BOOLEAN /\ bPictures \in BOOLEAN
    /\ CapturedInOrder /\ PartsInOrder /\ MadeOfParts

LEMMA NumbersOfParts ==
  /\ Interval \in Nat /\ CardDelay \in Nat /\ Lead \in Nat /\ MaxParts \in Nat
  /\ \A gap \in Losses : gap \in Nat
BY EncodersAssumption DEF Pieces!ConstantsAreSound

LEMMA PiecesInitially ==
  Init => PiecesInv
<1>1. Len(<<>>) = 0 /\ \A S : <<>> \in Seq(S)
  BY EmptySeq
<1> QED
  BY <1>1
    DEF Init, Pieces!Init, PiecesInv, CapturedInOrder, PartsInOrder, MadeOfParts

LEMMA ShownOfPart ==
  ASSUME NEW k \in Nat \ {0}
  PROVE  Pieces!Shown(k) \in Nat \ {0}
<1>1. CASE k % 2 = 0 \/ k = 1 \/ ~bPictures
  BY <1>1 DEF Pieces!Shown
<1>2. CASE ~(k % 2 = 0 \/ k = 1 \/ ~bPictures)
  <2>1. Pieces!Shown(k) = k - 1
    BY <1>2 DEF Pieces!Shown
  <2> QED
    BY <1>2, <2>1
<1> QED
  BY <1>1, <1>2

(* The frame of a part that the codec can give.                            *)
LEMMA PieceIs ==
  ASSUME CapturedInOrder, card \in BOOLEAN, NEW x \in PartRecords, Pieces!CanGive(x)
  PROVE  LET n == Pieces!Shown(x.k)
             p == PieceOf(x)
         IN  /\ n \in 1 .. Len(captured) /\ captured[n] \in Nat
             /\ p \in PieceRecords /\ p.n = n /\ p.part = x.part
             /\ p.pts = captured[n] + Pieces!Delay /\ p.dts = p.pts
             /\ p.arrival <= p.dts /\ p.avfm = IF card THEN 0 ELSE n
<1> DEFINE n == Pieces!Shown(x.k)
           t == captured[n]
<1>1. x.k \in Nat \ {0} /\ x.part \in Nat /\ x.of \in Nat
  BY DEF PartRecords
<1>2. n \in Nat \ {0} /\ n <= Len(captured) /\ Len(captured) \in Nat
  BY <1>1, ShownOfPart, LenProperties DEF Pieces!CanGive, CapturedInOrder
<1>3. n \in 1 .. Len(captured)
  BY <1>2
<1>4. t \in Nat
  <2> HIDE DEF n
  <2> QED
    BY <1>3, ElementOfSeq DEF CapturedInOrder
<1>5. CASE card
  <2> DEFINE u == t + CardDelay
  <2>1. PieceOf(x) = [n |-> n, part |-> x.part, of |-> x.of, pts |-> u, dts |-> u,
                      arrival |-> u - Lead, avfm |-> 0]
    BY <1>5 DEF PieceOf, Pieces!CardPiece
  <2>2. u \in Nat /\ u - Lead \in Int /\ u - Lead <= u /\ Pieces!Delay = CardDelay
    BY <1>4, <1>5, NumbersOfParts DEF Pieces!Delay
  <2> HIDE DEF n
  <2>3. u = t + Pieces!Delay
    BY <2>2
  <2> HIDE DEF u, t
  <2> QED
    BY <1>1, <1>2, <1>3, <1>4, <1>5, <2>1, <2>2, <2>3 DEF PieceRecords, n, t
<1>6. CASE ~card
  <2>1. PieceOf(x) = [n |-> n, part |-> x.part, of |-> x.of, pts |-> t, dts |-> t,
                      arrival |-> t, avfm |-> n]
    BY <1>6 DEF PieceOf, Pieces!VaapiPiece
  <2>2. t = t + Pieces!Delay
    BY <1>4, <1>6 DEF Pieces!Delay
  <2> HIDE DEF n, t
  <2> QED
    BY <1>1, <1>2, <1>3, <1>4, <1>6, <2>1, <2>2 DEF PieceRecords, n, t
<1> QED
  BY <1>5, <1>6

LEMMA CaptureKeeps ==
  ASSUME PiecesInv, NEW gap \in Losses, Pieces!Capture(gap)
  PROVE  PiecesInv'
<1>1. /\ captured \in Seq(Nat) /\ Len(captured) \in Nat /\ given \in Seq(PartRecords)
      /\ \A i, j \in 1 .. Len(captured) : i <= j => captured[i] <= captured[j]
      /\ UNCHANGED <<card, bPictures, given, pieces>>
  BY LenProperties DEF PiecesInv, CapturedInOrder, PartsInOrder, Pieces!Capture
<1>2. PICK t \in Nat : /\ captured' = Append(captured, t)
                       /\ captured # <<>> => captured[Len(captured)] <= t
  <2>1. CASE captured = <<>>
    BY <2>1 DEF Pieces!Capture
  <2>2. CASE captured # <<>>
    <3>1. captured[Len(captured)] \in Nat /\ Pieces!Last(captured) = captured[Len(captured)]
      BY <1>1, <2>2, ElementOfSeq, EmptySeq DEF Pieces!Last
    <3> DEFINE t == Pieces!Last(captured) + Interval + gap
    <3>2. t \in Nat /\ captured[Len(captured)] <= t /\ captured' = Append(captured, t)
      BY <2>2, <3>1, NumbersOfParts DEF Pieces!Capture
    <3> QED
      BY <3>2
  <2> QED
    BY <2>1, <2>2
<1>3. /\ captured' \in Seq(Nat) /\ Len(captured') = Len(captured) + 1
      /\ captured'[Len(captured) + 1] = t
      /\ \A i \in 1 .. Len(captured) : captured'[i] = captured[i]
  BY <1>1, <1>2, AppendProperties
<1>4. \A i \in 1 .. Len(captured) : captured[i] <= t
  <2> SUFFICES ASSUME NEW i \in 1 .. Len(captured) PROVE captured[i] <= t
    OBVIOUS
  <2>1. captured # <<>> /\ Len(captured) \in 1 .. Len(captured)
    BY <1>1, EmptySeq
  <2>2. captured[i] \in Nat /\ captured[Len(captured)] \in Nat
    BY <1>1, <2>1, ElementOfSeq
  <2>3. i <= Len(captured)
    BY <1>1
  <2>4. captured[i] <= captured[Len(captured)]
    BY <1>1, <2>1, <2>3
  <2> QED
    BY <1>2, <2>1, <2>2, <2>4
<1>5. CapturedInOrder'
  <2>1. ASSUME NEW i \in 1 .. Len(captured'), NEW j \in 1 .. Len(captured'), i <= j
        PROVE  captured'[i] <= captured'[j]
    <3>1. CASE j \in 1 .. Len(captured)
      <4>1. i \in 1 .. Len(captured)
        BY <1>1, <1>3, <2>1, <3>1
      <4> QED
        BY <1>1, <1>3, <2>1, <3>1, <4>1
    <3>2. CASE j \notin 1 .. Len(captured)
      <4>1. captured'[j] = t
        BY <1>1, <1>3, <3>2
      <4>2. captured'[i] = t \/ i \in 1 .. Len(captured)
        BY <1>1, <1>3
      <4> QED
        BY <1>2, <1>3, <1>4, <4>1, <4>2
    <3> QED
      BY <3>1, <3>2
  <2> QED
    BY <1>3, <2>1 DEF CapturedInOrder
<1>6. \A k : Pieces!Shown(k)' = Pieces!Shown(k)
  BY <1>1 DEF Pieces!Shown
<1>7. ASSUME NEW x \in PartRecords, Pieces!CanGive(x)
      PROVE  Pieces!CanGive(x)' /\ PieceOf(x)' = PieceOf(x)
  <2>1. Pieces!Shown(x.k) \in 1 .. Len(captured)
    BY <1>7, PieceIs DEF PiecesInv
  <2>2. captured'[Pieces!Shown(x.k)] = captured[Pieces!Shown(x.k)]
    BY <1>3, <2>1
  <2>3. Pieces!CanGive(x)'
    BY <1>1, <1>3, <1>6, <2>1 DEF Pieces!CanGive
  <2>4. PieceOf(x)' = PieceOf(x)
    BY <1>1, <1>6, <2>2 DEF PieceOf, Pieces!CardPiece, Pieces!VaapiPiece
  <2> QED
    BY <2>3, <2>4
<1>8. \A i \in 1 .. Len(given) :
        /\ given[i] \in PartRecords /\ Pieces!CanGive(given[i])' /\ PieceOf(given[i])' = PieceOf(given[i])
  <2> SUFFICES ASSUME NEW i \in 1 .. Len(given)
      PROVE  /\ given[i] \in PartRecords /\ Pieces!CanGive(given[i])'
             /\ PieceOf(given[i])' = PieceOf(given[i])
    OBVIOUS
  <2>1. PICK x : x = given[i]
    OBVIOUS
  <2>2. x \in PartRecords /\ Pieces!CanGive(x)
    BY <1>1, <2>1, ElementOfSeq DEF PiecesInv, PartsInOrder
  <2>3. Pieces!CanGive(x)' /\ PieceOf(x)' = PieceOf(x)
    BY <1>7, <2>2
  <2>4. x = given'[i]
    BY <1>1, <2>1
  <2>5. Pieces!CanGive(given[i])' /\ PieceOf(given[i])' = PieceOf(x)
    BY <2>3, <2>4 DEF Pieces!CanGive, PieceOf, Pieces!CardPiece, Pieces!VaapiPiece
  <2> QED
    BY <2>1, <2>2, <2>5
<1>9. PartsInOrder'
  BY <1>1, <1>8 DEF PiecesInv, PartsInOrder
<1>10. MadeOfParts'
  <2>1. Len(pieces) \in Nat /\ Len(given) \in Nat /\ Len(pieces) <= Len(given)
    BY <1>1, LenProperties DEF PiecesInv, MadeOfParts
  <2>2. \A i \in 1 .. Len(pieces) : i \in 1 .. Len(given)
    BY <2>1
  <2> QED
    BY <1>1, <1>8, <2>2 DEF PiecesInv, MadeOfParts
<1> QED
  BY <1>1, <1>5, <1>9, <1>10 DEF PiecesInv

(* Another part: after it the parts are still in order.                    *)
LEMMA PartGiven ==
  ASSUME PiecesInv, NEW of \in 1 .. MaxParts, NEW x, x = Pieces!NextPart(of), Pieces!CanGive(x),
         given' = Append(given, x), UNCHANGED <<card, bPictures, captured>>
  PROVE  /\ x \in PartRecords /\ PartsInOrder' /\ CapturedInOrder'
         /\ Len(given') = Len(given) + 1 /\ given'[Len(given) + 1] = x
         /\ \A i \in 1 .. Len(given) : given'[i] = given[i]
<1>1. /\ given \in Seq(PartRecords) /\ Len(given) \in Nat
      /\ \A i \in 1 .. Len(given) : Pieces!CanGive(given[i])
      /\ \A i \in 1 .. Len(given) : i > 1 /\ given[i].part > 1 =>
           given[i - 1].k = given[i].k /\ given[i - 1].part = given[i].part - 1
      /\ \A i, j \in 1 .. Len(given) : i <= j => given[i].k <= given[j].k
  BY LenProperties DEF PiecesInv, PartsInOrder
<1>2. /\ x \in PartRecords
      /\ given = <<>> => x.part = 1
      /\ given # <<>> =>
           /\ given[Len(given)].k <= x.k
           /\ x.part > 1 => x.k = given[Len(given)].k /\ x.part = given[Len(given)].part + 1
  <2>0. of \in Nat
    BY NumbersOfParts
  <2>1. CASE given = <<>>
    <3>1. x = [k |-> 1, part |-> 1, of |-> of]
      BY <2>1 DEF Pieces!NextPart
    <3> QED
      BY <2>0, <2>1, <3>1 DEF PartRecords
  <2>2. CASE given # <<>>
    <3>1. PICK last : last = given[Len(given)]
      OBVIOUS
    <3>2. last \in PartRecords /\ Pieces!Last(given) = last
      BY <1>1, <2>2, <3>1, ElementOfSeq, EmptySeq DEF Pieces!Last
    <3>3. last.k \in Nat \ {0} /\ last.part \in Nat \ {0} /\ last.of \in Nat
      BY <3>2 DEF PartRecords
    <3>4. CASE last.part < last.of
      <4>1. x = [last EXCEPT !.part = last.part + 1]
        BY <2>2, <3>2, <3>4 DEF Pieces!NextPart
      <4>2. x \in PartRecords /\ x.k = last.k /\ x.part = last.part + 1
        BY <3>2, <3>3, <4>1 DEF PartRecords
      <4> QED
        BY <2>2, <3>1, <3>3, <4>2
    <3>5. CASE ~(last.part < last.of)
      <4>1. x = [k |-> last.k + 1, part |-> 1, of |-> of]
        BY <2>2, <3>2, <3>5 DEF Pieces!NextPart
      <4>2. x \in PartRecords /\ x.k = last.k + 1 /\ x.part = 1
        BY <2>0, <3>3, <4>1 DEF PartRecords
      <4> QED
        BY <2>2, <3>1, <3>3, <4>2
    <3> QED
      BY <3>4, <3>5
  <2> QED
    BY <2>1, <2>2
<1>3. /\ given' \in Seq(PartRecords) /\ Len(given') = Len(given) + 1
      /\ given'[Len(given) + 1] = x
      /\ \A i \in 1 .. Len(given) : given'[i] = given[i]
  BY <1>1, <1>2, AppendProperties
<1>4. \A y : Pieces!CanGive(y)' <=> Pieces!CanGive(y)
  BY DEF Pieces!CanGive, Pieces!Shown
<1>5. \A i \in 1 .. Len(given') : i \in 1 .. Len(given) \/ i = Len(given) + 1
  BY <1>1, <1>3
<1>6. ASSUME NEW i \in 1 .. Len(given') PROVE Pieces!CanGive(given[i])'
  <2>1. PICK y : y = given'[i]
    OBVIOUS
  <2>2. Pieces!CanGive(y)
    BY <1>1, <1>3, <1>5, <2>1
  <2>3. Pieces!CanGive(y)'
    BY <1>4, <2>2
  <2> QED
    BY <2>1, <2>3 DEF Pieces!CanGive
<1>7. ASSUME NEW i \in 1 .. Len(given'), i > 1, given'[i].part > 1
      PROVE  given'[i - 1].k = given'[i].k /\ given'[i - 1].part = given'[i].part - 1
  <2>1. CASE i \in 1 .. Len(given)
    <3>1. i - 1 \in 1 .. Len(given)
      BY <1>1, <1>7, <2>1
    <3> QED
      BY <1>1, <1>3, <1>7, <2>1, <3>1
  <2>2. CASE i = Len(given) + 1
    <3>1. given'[i] = x /\ i - 1 = Len(given) /\ Len(given) \in 1 .. Len(given)
      BY <1>1, <1>3, <1>7, <2>2
    <3>2. given # <<>> /\ given'[i - 1] = given[Len(given)]
      BY <1>1, <1>3, <3>1, EmptySeq
    <3>3. given[Len(given)] \in PartRecords
      BY <1>1, <3>1, ElementOfSeq
    <3>4. given[Len(given)].part \in Nat
      BY <3>3 DEF PartRecords
    <3> QED
      BY <1>2, <1>7, <3>1, <3>2, <3>4
  <2> QED
    BY <1>5, <2>1, <2>2
<1>8. ASSUME NEW i \in 1 .. Len(given'), NEW j \in 1 .. Len(given'), i <= j
      PROVE  given'[i].k <= given'[j].k
  <2>1. CASE j \in 1 .. Len(given)
    <3>1. i \in 1 .. Len(given)
      BY <1>1, <1>3, <1>8, <2>1
    <3> QED
      BY <1>1, <1>3, <1>8, <2>1, <3>1
  <2>2. CASE j = Len(given) + 1 /\ i \in 1 .. Len(given)
    <3>1. given # <<>> /\ Len(given) \in 1 .. Len(given) /\ i <= Len(given)
      BY <1>1, <2>2, EmptySeq
    <3>2. given[i].k \in Nat /\ given[Len(given)].k \in Nat /\ x.k \in Nat
      <4>1. given[i] \in PartRecords /\ given[Len(given)] \in PartRecords
        BY <1>1, <2>2, <3>1, ElementOfSeq
      <4> QED
        BY <1>2, <4>1 DEF PartRecords
    <3>3. given[i].k <= given[Len(given)].k /\ given[Len(given)].k <= x.k
      BY <1>1, <1>2, <2>2, <3>1
    <3> QED
      BY <1>3, <2>2, <3>2, <3>3
  <2>3. CASE j = Len(given) + 1 /\ i = Len(given) + 1
    BY <1>2, <1>3, <2>3 DEF PartRecords
  <2> QED
    BY <1>1, <1>3, <1>5, <1>8, <2>1, <2>2, <2>3
<1>9. PartsInOrder'
  BY <1>3, <1>6, <1>7, <1>8 DEF PartsInOrder
<1> QED
  BY <1>2, <1>3, <1>9 DEF PiecesInv, CapturedInOrder

(* One more frame, made of the part in its place.                          *)
LEMMA PieceMade ==
  ASSUME PiecesInv, PartsInOrder', CapturedInOrder', UNCHANGED <<card, bPictures, captured>>,
         Len(pieces) < Len(given'), ~card => Len(given') = Len(pieces) + 1,
         \A i \in 1 .. Len(given) : given'[i] = given[i],
         NEW x \in PartRecords, x = given'[Len(pieces) + 1], Pieces!CanGive(x),
         pieces' = Append(pieces, PieceOf(x))
  PROVE  MadeOfParts'
<1>1. /\ pieces \in Seq(PieceRecords) /\ Len(pieces) \in Nat
      /\ \A i \in 1 .. Len(pieces) : pieces[i] = PieceOf(given[i])
      /\ Len(given') \in Nat /\ Len(pieces) <= Len(given) /\ Len(given) \in Nat
  BY LenProperties DEF PiecesInv, MadeOfParts, PartsInOrder
<1>2. PieceOf(x) \in PieceRecords
  BY PieceIs DEF PiecesInv
<1>3. /\ pieces' \in Seq(PieceRecords) /\ Len(pieces') = Len(pieces) + 1
      /\ pieces'[Len(pieces) + 1] = PieceOf(x)
      /\ \A i \in 1 .. Len(pieces) : pieces'[i] = pieces[i]
  BY <1>1, <1>2, AppendProperties
<1>4. \A y : PieceOf(y)' = PieceOf(y)
  BY DEF PieceOf, Pieces!CardPiece, Pieces!VaapiPiece, Pieces!Shown
<1>5. ASSUME NEW i \in 1 .. Len(pieces') PROVE pieces'[i] = PieceOf(given[i])'
  <2>1. PICK y : y = given'[i]
    OBVIOUS
  <2>2. pieces'[i] = PieceOf(y)
    <3>1. CASE i \in 1 .. Len(pieces)
      <4>1. i \in 1 .. Len(given)
        BY <1>1, <3>1
      <4> QED
        BY <1>1, <1>3, <2>1, <3>1, <4>1
    <3>2. CASE i \notin 1 .. Len(pieces)
      <4>1. i = Len(pieces) + 1
        BY <1>1, <1>3, <3>2
      <4> QED
        BY <1>3, <2>1, <4>1
    <3> QED
      BY <3>1, <3>2
  <2>3. pieces'[i] = PieceOf(y)'
    BY <1>4, <2>2
  <2> QED
    BY <2>1, <2>3 DEF PieceOf, Pieces!CardPiece, Pieces!VaapiPiece
<1>6. Len(pieces') <= Len(given') /\ (~card' => Len(pieces') = Len(given'))
  BY <1>1, <1>3
<1> QED
  BY <1>3, <1>5, <1>6 DEF MadeOfParts

LEMMA PartsNextKeeps ==
  ASSUME PiecesInv, Pieces!Next
  PROVE  PiecesInv'
<1>0. /\ given \in Seq(PartRecords) /\ Len(given) \in Nat /\ Len(pieces) \in Nat
      /\ Len(pieces) <= Len(given) /\ (~card => Len(pieces) = Len(given))
      /\ card \in BOOLEAN /\ bPictures \in BOOLEAN
  BY LenProperties DEF PiecesInv, PartsInOrder, MadeOfParts
<1>1. ASSUME NEW gap \in Losses, Pieces!Capture(gap) PROVE PiecesInv'
  BY <1>1, CaptureKeeps
<1>2. ASSUME NEW of \in 1 .. MaxParts, Pieces!Segment(of) PROVE PiecesInv'
  <2>1. PICK x : x = Pieces!NextPart(of)
    OBVIOUS
  <2>2. /\ Pieces!CanGive(x) /\ given' = Append(given, x) /\ ~card
        /\ pieces' = Append(pieces, PieceOf(x)) /\ UNCHANGED <<card, bPictures, captured>>
    BY <1>2, <2>1 DEF Pieces!Segment, PieceOf
  <2>3. /\ x \in PartRecords /\ PartsInOrder' /\ CapturedInOrder'
        /\ Len(given') = Len(given) + 1 /\ given'[Len(given) + 1] = x
        /\ \A i \in 1 .. Len(given) : given'[i] = given[i]
    BY <2>1, <2>2, PartGiven
  <2>4. MadeOfParts'
    <3>1. Len(pieces) < Len(given') /\ Len(given') = Len(pieces) + 1 /\ x = given'[Len(pieces) + 1]
      BY <1>0, <2>2, <2>3
    <3> QED
      BY <2>2, <2>3, <3>1, PieceMade
  <2> QED
    BY <1>0, <2>2, <2>3, <2>4 DEF PiecesInv
<1>3. ASSUME NEW of \in 1 .. MaxParts, Pieces!CardGives(of) PROVE PiecesInv'
  <2>1. PICK x : x = Pieces!NextPart(of)
    OBVIOUS
  <2>2. /\ Pieces!CanGive(x) /\ given' = Append(given, x) /\ card
        /\ UNCHANGED <<card, bPictures, captured, pieces>>
    BY <1>3, <2>1 DEF Pieces!CardGives
  <2>3. /\ x \in PartRecords /\ PartsInOrder' /\ CapturedInOrder'
        /\ Len(given') = Len(given) + 1 /\ given'[Len(given) + 1] = x
        /\ \A i \in 1 .. Len(given) : given'[i] = given[i]
    BY <2>1, <2>2, PartGiven
  <2>4. MadeOfParts'
    <3>1. \A y : PieceOf(y)' = PieceOf(y)
      BY <2>2 DEF PieceOf, Pieces!CardPiece, Pieces!VaapiPiece, Pieces!Shown
    <3>2. ASSUME NEW i \in 1 .. Len(pieces) PROVE pieces[i] = PieceOf(given[i])'
      <4>1. i \in 1 .. Len(given)
        BY <1>0
      <4>2. PICK y : y = given[i]
        OBVIOUS
      <4>3. y = given'[i] /\ pieces[i] = PieceOf(y)
        BY <2>3, <4>1, <4>2 DEF PiecesInv, MadeOfParts
      <4>4. pieces[i] = PieceOf(y)'
        BY <3>1, <4>3
      <4> QED
        BY <4>3, <4>4 DEF PieceOf, Pieces!CardPiece, Pieces!VaapiPiece
    <3>3. Len(pieces) <= Len(given')
      BY <1>0, <2>3
    <3> QED
      BY <2>2, <3>2, <3>3 DEF PiecesInv, MadeOfParts
  <2> QED
    BY <1>0, <2>2, <2>3, <2>4 DEF PiecesInv
<1>4. CASE Pieces!PassThrough
  <2>1. PICK x : x = given[Len(pieces) + 1]
    OBVIOUS
  <2>2. /\ card /\ Len(pieces) < Len(given) /\ pieces' = Append(pieces, PieceOf(x))
        /\ UNCHANGED <<card, bPictures, captured, given>>
    BY <1>4, <2>1 DEF Pieces!PassThrough, PieceOf
  <2>3. x \in PartRecords /\ Pieces!CanGive(x)
    <3>1. Len(pieces) + 1 \in 1 .. Len(given)
      BY <1>0, <2>2
    <3> QED
      BY <1>0, <2>1, <3>1, ElementOfSeq DEF PiecesInv, PartsInOrder
  <2>4. CapturedInOrder' /\ PartsInOrder'
    BY <2>2 DEF PiecesInv, CapturedInOrder, PartsInOrder, Pieces!CanGive, Pieces!Shown
  <2>5. MadeOfParts'
    BY <2>1, <2>2, <2>3, <2>4, PieceMade
  <2> QED
    BY <1>0, <2>2, <2>4, <2>5 DEF PiecesInv
<1> QED
  BY <1>1, <1>2, <1>3, <1>4 DEF Pieces!Next

LEMMA PiecesInvHolds ==
  Spec => []PiecesInv
<1>1. Init => PiecesInv
  BY PiecesInitially
<1>2. PiecesInv /\ [Next]_vars => PiecesInv'
  <2> SUFFICES ASSUME PiecesInv, [Next]_vars PROVE PiecesInv'
    OBVIOUS
  <2>1. CASE PiecesNext
    BY <2>1, PartsNextKeeps DEF PiecesNext
  <2>2. CASE UNCHANGED pieceVars
    BY <2>2 DEF pieceVars, PiecesInv, CapturedInOrder, PartsInOrder, MadeOfParts, PieceOf,
                Pieces!CanGive, Pieces!Shown, Pieces!CardPiece, Pieces!VaapiPiece
  <2> QED
    BY <2>1, <2>2 DEF Next, AudioNext, TimesNext, GopNext, vars
<1> QED
  BY <1>1, <1>2, PTL DEF Spec

LEMMA PiecesRight ==
  PiecesInv => Pieces!PiecesOfPicture /\ Pieces!PiecesInTime
<1> SUFFICES ASSUME PiecesInv PROVE Pieces!PiecesOfPicture /\ Pieces!PiecesInTime
  OBVIOUS
<1>0. /\ given \in Seq(PartRecords) /\ Len(given) \in Nat /\ Len(pieces) \in Nat
      /\ Len(pieces) <= Len(given) /\ DOMAIN pieces = 1 .. Len(pieces)
      /\ CapturedInOrder /\ card \in BOOLEAN
  BY LenProperties DEF PiecesInv, PartsInOrder, MadeOfParts
<1>1. ASSUME NEW i \in 1 .. Len(pieces)
      PROVE  /\ i \in 1 .. Len(given) /\ given[i] \in PartRecords
             /\ pieces[i] = PieceOf(given[i])
             /\ LET n == Pieces!Shown(given[i].k)
                    p == pieces[i]
                IN  /\ n \in 1 .. Len(captured) /\ captured[n] \in Nat
                    /\ p.n = n /\ p.part = given[i].part
                    /\ p.pts = captured[n] + Pieces!Delay /\ p.dts = p.pts
                    /\ p.arrival <= p.dts /\ p.avfm = IF card THEN 0 ELSE n
  <2>1. i \in 1 .. Len(given)
    BY <1>0
  <2>2. PICK x : x = given[i]
    OBVIOUS
  <2>3. x \in PartRecords /\ Pieces!CanGive(x) /\ pieces[i] = PieceOf(x)
    BY <1>0, <2>1, <2>2, ElementOfSeq DEF PiecesInv, PartsInOrder, MadeOfParts
  <2> QED
    BY <1>0, <2>1, <2>2, <2>3, PieceIs
<1>2. Pieces!PiecesOfPicture
  <2> SUFFICES ASSUME NEW i \in 1 .. Len(pieces)
      PROVE  LET p == pieces[i]
             IN  /\ p.pts = captured[p.n] + Pieces!Delay /\ p.dts = p.pts /\ p.arrival <= p.dts
                 /\ p.avfm = IF card THEN 0 ELSE p.n
                 /\ i > 1 /\ p.part > 1 =>
                      pieces[i - 1].n = p.n /\ pieces[i - 1].part = p.part - 1
    BY <1>0 DEF Pieces!PiecesOfPicture
  <2>1. ASSUME i > 1, pieces[i].part > 1
        PROVE  pieces[i - 1].n = pieces[i].n /\ pieces[i - 1].part = pieces[i].part - 1
    <3>1. PICK j : j = i - 1
      OBVIOUS
    <3>2. j \in 1 .. Len(pieces)
      BY <1>0, <2>1, <3>1
    <3>3. given[j].k = given[i].k /\ given[j].part = given[i].part - 1
      BY <1>1, <2>1, <3>1 DEF PiecesInv, PartsInOrder
    <3>4. /\ pieces[j].n = Pieces!Shown(given[j].k) /\ pieces[j].part = given[j].part
      BY <1>1, <3>2
    <3>5. /\ pieces[i].n = Pieces!Shown(given[i].k) /\ pieces[i].part = given[i].part
      BY <1>1
    <3> QED
      BY <3>1, <3>3, <3>4, <3>5
  <2> QED
    BY <1>1, <2>1
<1>3. Pieces!PiecesInTime
  <2> SUFFICES ASSUME NEW i \in 1 .. Len(pieces), NEW j \in 1 .. Len(pieces), ~bPictures, i < j
      PROVE  pieces[i].dts <= pieces[j].dts
    BY <1>0 DEF Pieces!PiecesInTime
  <2>1. /\ given[i].k \in 1 .. Len(captured) /\ captured[given[i].k] \in Nat
        /\ pieces[i].dts = captured[given[i].k] + Pieces!Delay
    BY <1>1 DEF Pieces!Shown
  <2>2. /\ given[j].k \in 1 .. Len(captured) /\ captured[given[j].k] \in Nat
        /\ pieces[j].dts = captured[given[j].k] + Pieces!Delay
    BY <1>1 DEF Pieces!Shown
  <2>3. given[i].k <= given[j].k
    BY <1>0, <1>1 DEF PiecesInv, PartsInOrder
  <2>4. captured[given[i].k] <= captured[given[j].k]
    BY <1>0, <2>1, <2>2, <2>3 DEF CapturedInOrder
  <2>5. Pieces!Delay \in Nat
    BY NumbersOfParts DEF Pieces!Delay
  <2> QED
    BY <2>1, <2>2, <2>4, <2>5
<1> QED
  BY <1>2, <1>3

(* The times that the video encoders give to a coded picture, for every    *)
(* kind of encoder, frame rate, gap and number of sessions: the PTS is the *)
(* captured time and a constant, the DTS go up and stay behind it, but in  *)
(* the cases that DtsIncreases and PiecesInTime name, and the arrival time *)
(* keeps its distance (x264_start_encoder, dispatch_payload,               *)
(* _deliver_nals).  And when an encoder makes several coded frames of a    *)
(* picture, each has the times of its picture (avc_vaapi_deliver_nals,     *)
(* vega3311_video_compressed_callback).                                    *)
THEOREM CodedTimes ==
  Spec => []CodedTimesRight
<1>1. CodecInv /\ PiecesInv => CodedTimesRight
  BY ClockFollowed, DtsInOrder, DistanceOfArrival, PiecesRight DEF CodedTimesRight
<1> QED
  BY <1>1, CodecInvHolds, PiecesInvHolds, PTL

(* What came with a picture stays with its frame, or that of its first     *)
(* field, however the codec orders the pictures, and a message goes out    *)
(* once and is not lost (the metadata that travel in opaque and user data  *)
(* of x264 and x265; avcodec keeps neither).                               *)
THEOREM DataOfPicture ==
  Spec => []PictureKeepsItsData
<1>1. CodecInv => PictureKeepsItsData
  BY MessagesKept, DataKept DEF PictureKeepsItsData
<1> QED
  BY <1>1, CodecInvHolds, PTL

(* A setting that is made while the encoder runs is never lost, in any     *)
(* order of the two threads: the encoder clears the flag before it looks   *)
(* at the value, and the command line sets the flag after it (set_variable *)
(* and the _new flags of x264 and x265).                                   *)
THEOREM SettingReachesCodec ==
  Spec => []SettingTaken
<1>1. Init => SettingTaken
  BY DEF Init, Codec!Init, SettingTaken, Codec!SettingTaken
<1>2. SettingTaken /\ [Next]_vars => SettingTaken'
  <2> SUFFICES ASSUME Codec!SettingTaken, [Next]_vars PROVE Codec!SettingTaken'
    BY DEF SettingTaken
  <2>1. CASE UNCHANGED timeVars
    BY <2>1 DEF timeVars, Codec!SettingTaken, Codec!TakesSettings
  <2>2. CASE Codec!Wake
    BY <2>2 DEF Codec!Wake, Codec!setting, Codec!mode_, Codec!SettingTaken, Codec!TakesSettings
  <2>3. CASE Codec!TakeSetting
    BY <2>3 DEF Codec!TakeSetting, Codec!ClearFlag, Codec!UseSetting, Codec!SettingTaken
  <2>4. CASE Codec!Encode
    BY <2>4 DEF Codec!Encode, Codec!setting, Codec!mode_, Codec!SettingTaken, Codec!TakesSettings
  <2>5. CASE Codec!Restart
    BY <2>5 DEF Codec!Restart, Codec!setting, Codec!mode_, Codec!SettingTaken, Codec!TakesSettings
  <2>6. ASSUME NEW v \in Settings, Codec!Ask(v) PROVE Codec!SettingTaken'
    BY <2>6 DEF Codec!Ask, Codec!SettingTaken
  <2>7. CASE Codec!RaiseFlag
    BY <2>7 DEF Codec!RaiseFlag, Codec!SettingTaken
  <2>8. CASE TimesNext
    BY <2>2, <2>3, <2>4, <2>5, <2>6, <2>7, <2>8 DEF TimesNext, Codec!Next
  <2>9. CASE AudioNext \/ PiecesNext \/ GopNext \/ UNCHANGED vars
    BY <2>1, <2>9 DEF AudioNext, PiecesNext, GopNext, vars
  <2> QED
    BY <2>8, <2>9 DEF Next
<1> QED
  BY <1>1, <1>2, PTL DEF Spec
-----------------------------------------------------------------------------
(* The GPU encoders.  Steps of one, modulo a number.                       *)
LEMMA NextModulo ==
  ASSUME NEW m \in Nat \ {0}, NEW n \in Nat
  PROVE  /\ n % m \in 0 .. m - 1
         /\ (n + 1) % m = IF n % m = m - 1 THEN 0 ELSE (n % m) + 1
<1> DEFINE q == n \div m
           r == n % m
<1>1. q \in Nat /\ r \in 0 .. m - 1 /\ n = m * q + r
  BY Division
<1> HIDE DEF q, r
<1>2. CASE r = m - 1
  <2>1. n + 1 = m * (q + 1) + 0 /\ 0 \in 0 .. m - 1 /\ q + 1 \in Nat
    BY <1>1, <1>2
  <2>2. (n + 1) % m = 0
    BY <2>1, DivisionIs
  <2> QED
    BY <1>1, <1>2, <2>2 DEF r
<1>3. CASE r # m - 1
  <2>1. n + 1 = m * q + (r + 1) /\ r + 1 \in 0 .. m - 1
    BY <1>1, <1>3
  <2>2. (n + 1) % m = r + 1
    BY <1>1, <2>1, DivisionIs
  <2> QED
    BY <1>1, <1>3, <2>2 DEF r
<1> QED
  BY <1>2, <1>3

(* Two numbers of one remainder are that many apart at least.              *)
LEMMA SameRemainder ==
  ASSUME NEW m \in Nat \ {0}, NEW a \in Nat, NEW b \in Nat, a < b
  PROVE  /\ a % m = b % m => b - a >= m
         /\ a % m = 0 /\ b - a = m => b % m = 0
<1> DEFINE q == a \div m
           r == a % m
           p == b \div m
           s == b % m
<1>1. q \in Nat /\ r \in 0 .. m - 1 /\ a = m * q + r
  BY Division
<1>2. p \in Nat /\ s \in 0 .. m - 1 /\ b = m * p + s
  BY Division
<1>3. ASSUME a % m = b % m PROVE b - a >= m
  <2>1. r = s
    BY <1>3
  <2> HIDE DEF q, r, p, s
  <2>2. b - a = m * (p - q) /\ m * (p - q) > 0
    BY <1>1, <1>2, <2>1
  <2>3. p - q >= 1
    <3>1. p - q <= 0 => m * (p - q) <= 0
      BY <1>1, <1>2
    <3> QED
      BY <1>1, <1>2, <2>2, <3>1
  <2>4. m * (p - q) >= m
    BY <1>1, <1>2, <2>3
  <2> QED
    BY <2>2, <2>4
<1>4. ASSUME a % m = 0, b - a = m PROVE b % m = 0
  <2>1. r = 0
    BY <1>4
  <2> HIDE DEF q, r
  <2>2. b = m * (q + 1) + 0 /\ q + 1 \in Nat /\ 0 \in 0 .. m - 1
    BY <1>1, <1>4, <2>1
  <2> QED
    BY <2>2, DivisionIs
<1> QED
  BY <1>3, <1>4

(* What is written is a number modulo a part of the modulus.               *)
LEMMA ModuloPart ==
  ASSUME NEW c \in Nat \ {0}, NEW k \in Nat \ {0}, NEW n \in Nat
  PROVE  k * c \in Nat \ {0} /\ (n % (k * c)) % c = n % c
<1> DEFINE m == k * c
           q == n \div m
           r == n % m
           p == r \div c
           s == r % c
<1>0. m \in Nat \ {0}
  OBVIOUS
<1> HIDE DEF m
<1>1. q \in Nat /\ r \in 0 .. m - 1 /\ n = m * q + r
  BY <1>0, Division
<1> HIDE DEF q, r
<1>2. p \in Nat /\ s \in 0 .. c - 1 /\ r = c * p + s
  <2>1. r \in Nat
    BY <1>0, <1>1
  <2> QED
    BY <2>1, Division
<1> HIDE DEF p, s
<1>3. n = (k * c) * q + (c * p + s)
  BY <1>1, <1>2 DEF m
<1>4. n = c * (k * q + p) + s /\ k * q + p \in Nat
  <2>1. (k * c) * q = c * (k * q)
    BY <1>1
  <2>2. c * (k * q + p) = c * (k * q) + c * p /\ k * q \in Nat
    BY <1>1, <1>2
  <2> QED
    BY <1>1, <1>2, <1>3, <2>1, <2>2
<1>5. n % c = s
  <2> DEFINE w == k * q + p
  <2>1. w \in Nat /\ n = c * w + s
    BY <1>4
  <2> HIDE DEF w
  <2> QED
    BY <1>2, <2>1, DivisionIs
<1> QED
  BY <1>0, <1>5 DEF m, r, s

(* The order count of a picture from that of the one before: the encoder   *)
(* and a decoder do the same with another modulus.                         *)
Counted(c, p, lsb) ==
  IF lsb < p[2] /\ p[2] - lsb >= c \div 2 THEN <<p[1] + c, lsb>>
  ELSE IF lsb > p[2] /\ lsb - p[2] > c \div 2 THEN <<p[1] - c, lsb>>
  ELSE <<p[1], lsb>>

LEMMA CountIs ==
  ASSUME NEW c \in Nat, c > 1, NEW d \in Nat, NEW p,
         p[1] \in Int, p[1] + p[2] = d, p[2] = d % c
  PROVE  LET n == Counted(c, p, (d + 1) % c)
         IN  n[1] \in Int /\ n[1] + n[2] = d + 1 /\ n[2] = (d + 1) % c
<1> DEFINE r == d % c
           t == (d + 1) % c
           h == c \div 2
<1>1. r \in 0 .. c - 1 /\ t = IF r = c - 1 THEN 0 ELSE r + 1
  <2>1. c \in Nat \ {0}
    OBVIOUS
  <2> QED
    BY <2>1, NextModulo
<1>2. h \in Nat /\ h >= 1 /\ h < c
  OBVIOUS
<1>3. p[2] = r
  OBVIOUS
<1> HIDE DEF r, t, h
<1>4. CASE r = c - 1
  <2>1. t = 0 /\ t < p[2] /\ p[2] - t >= h
    BY <1>1, <1>2, <1>3, <1>4
  <2>2. Counted(c, p, t) = <<p[1] + c, t>>
    BY <2>1 DEF Counted, h
  <2> QED
    BY <1>1, <1>3, <1>4, <2>1, <2>2 DEF t
<1>5. CASE r # c - 1
  <2>1. t = r + 1 /\ ~(t < p[2]) /\ ~(t - p[2] > h)
    BY <1>1, <1>2, <1>3, <1>5
  <2>2. Counted(c, p, t) = <<p[1], t>>
    BY <2>1 DEF Counted, h
  <2> QED
    BY <1>1, <1>3, <1>5, <2>1, <2>2 DEF t
<1> QED
  BY <1>4, <1>5
-----------------------------------------------------------------------------
(* A sequence of any elements, and one more.                               *)
IsSequence(s) == \E S : s \in Seq(S)

LEMMA OneMore ==
  ASSUME NEW s, IsSequence(s), NEW x
  PROVE  /\ IsSequence(Append(s, x)) /\ Len(s) \in Nat
         /\ Len(Append(s, x)) = Len(s) + 1
         /\ Append(s, x)[Len(s) + 1] = x
         /\ \A i \in 1 .. Len(s) : Append(s, x)[i] = s[i]
<1>1. PICK S : s \in Seq(S)
  BY DEF IsSequence
<1> DEFINE T == S \cup {x}
<1>2. Len(s) \in Nat /\ DOMAIN s = 1 .. Len(s) /\ \A i \in 1 .. Len(s) : s[i] \in S
  BY <1>1, LenProperties, ElementOfSeq
<1>3. s = [i \in 1 .. Len(s) |-> s[i]]
  BY <1>1, <1>2, SeqDef
<1>4. s \in Seq(T)
  <2>1. s \in [1 .. Len(s) -> T]
    BY <1>2, <1>3
  <2> QED
    BY <1>2, <2>1, SeqDef
<1>5. x \in T
  OBVIOUS
<1> HIDE DEF T
<1>6. /\ Append(s, x) \in Seq(T) /\ Len(Append(s, x)) = Len(s) + 1
      /\ Append(s, x)[Len(s) + 1] = x
      /\ \A i \in 1 .. Len(s) : Append(s, x)[i] = s[i]
  BY <1>4, <1>5, AppendProperties
<1> QED
  BY <1>2, <1>6 DEF IsSequence

(* A permutation that keeps the order is the identity.                     *)
LEMMA OrderIsOne ==
  ASSUME NEW k \in Nat, NEW p \in [1 .. k -> 1 .. k],
         \A i, j \in 1 .. k : i < j => p[i] < p[j]
  PROVE  \A i \in 1 .. k : p[i] = i
<1> DEFINE P == {n \in Nat : n + 1 \in 1 .. k => p[n + 1] >= n + 1}
           Q == {n \in Nat : k - n \in 1 .. k => p[k - n] <= k - n}
<1>0. \A i \in 1 .. k : p[i] \in 1 .. k
  OBVIOUS
<1>1. P = Nat
  <2>1. 0 \in P
    BY <1>0
  <2>2. ASSUME NEW n \in P PROVE n + 1 \in P
    <3>1. SUFFICES ASSUME n + 2 \in 1 .. k PROVE p[n + 2] >= n + 2
      OBVIOUS
    <3>2. n + 1 \in 1 .. k /\ p[n + 1] >= n + 1 /\ n + 1 < n + 2
      BY <3>1
    <3>3. p[n + 1] < p[n + 2]
      BY <3>1, <3>2
    <3> QED
      BY <1>0, <3>1, <3>2, <3>3
  <2>3. P \in SUBSET Nat
    OBVIOUS
  <2> HIDE DEF P
  <2> QED
    BY <2>1, <2>2, <2>3, SetInduction
<1>2. Q = Nat
  <2>1. 0 \in Q
    BY <1>0
  <2>2. ASSUME NEW n \in Q PROVE n + 1 \in Q
    <3>1. SUFFICES ASSUME k - (n + 1) \in 1 .. k PROVE p[k - (n + 1)] <= k - (n + 1)
      OBVIOUS
    <3>2. k - n \in 1 .. k /\ p[k - n] <= k - n /\ k - (n + 1) < k - n
      BY <3>1
    <3>3. p[k - (n + 1)] < p[k - n]
      BY <3>1, <3>2
    <3> QED
      BY <1>0, <3>1, <3>2, <3>3
  <2>3. Q \in SUBSET Nat
    OBVIOUS
  <2> HIDE DEF Q
  <2> QED
    BY <2>1, <2>2, <2>3, SetInduction
<1>3. ASSUME NEW i \in 1 .. k PROVE p[i] = i
  <2>1. i - 1 \in P /\ k - i \in Q
    <3>1. i - 1 \in Nat /\ k - i \in Nat
      OBVIOUS
    <3> HIDE DEF P, Q
    <3> QED
      BY <1>1, <1>2, <3>1
  <2>2. p[i] >= i
    <3>1. (i - 1) + 1 = i
      OBVIOUS
    <3> QED
      BY <2>1, <3>1
  <2>3. p[i] <= i
    <3>1. k - (k - i) = i
      OBVIOUS
    <3> QED
      BY <2>1, <3>1
  <2> QED
    BY <1>0, <2>2, <2>3
<1> QED
  BY <1>3

(* Pictures whose keys go down are sorted as they are.                     *)
LEMMA SortedIs ==
  ASSUME NEW rs, NEW k \in Nat, rs = [i \in 1 .. k |-> rs[i]],
         \A i \in 1 .. k : Gop!SortKey(rs[i]) \in Int,
         \A i, j \in 1 .. k : i < j => Gop!SortKey(rs[i]) > Gop!SortKey(rs[j])
  PROVE  Gop!Sorted(rs) = rs
<1> DEFINE Ordered(p) ==
             \A i, j \in DOMAIN rs : i < j => Gop!SortKey(rs[p[i]]) >= Gop!SortKey(rs[p[j]])
           Good(p) == Gop!IsInjective(p) /\ Ordered(p)
           p == CHOOSE q \in [DOMAIN rs -> DOMAIN rs] : Good(q)
           one == [i \in 1 .. k |-> i]
<1>1. DOMAIN rs = 1 .. k
  <2>1. DOMAIN [i \in 1 .. k |-> rs[i]] = 1 .. k
    OBVIOUS
  <2> QED
    BY <2>1
<1>2. one \in [DOMAIN rs -> DOMAIN rs] /\ Good(one)
  <2>1. one \in [1 .. k -> 1 .. k] /\ Gop!IsInjective(one)
    BY DEF Gop!IsInjective
  <2>2. Ordered(one)
    BY <1>1
  <2> QED
    BY <1>1, <2>1, <2>2
<1>3. p \in [DOMAIN rs -> DOMAIN rs] /\ Good(p)
  <2> HIDE DEF Good, one
  <2> QED
    BY <1>2
<1>4. Gop!Sorted(rs) = [i \in DOMAIN rs |-> rs[p[i]]]
  BY DEF Gop!Sorted
<1> HIDE DEF p, one
<1>5. p \in [1 .. k -> 1 .. k]
  BY <1>1, <1>3
<1>6. ASSUME NEW i \in 1 .. k, NEW j \in 1 .. k, i < j PROVE p[i] < p[j]
  <2>1. p[i] \in 1 .. k /\ p[j] \in 1 .. k
    BY <1>5
  <2>2. p[i] # p[j]
    BY <1>1, <1>3, <1>5, <1>6 DEF Gop!IsInjective
  <2>3. Gop!SortKey(rs[p[i]]) >= Gop!SortKey(rs[p[j]])
    BY <1>1, <1>3, <1>6
  <2>4. ~(p[j] < p[i])
    <3>1. p[j] < p[i] => Gop!SortKey(rs[p[j]]) > Gop!SortKey(rs[p[i]])
      BY <2>1
    <3>2. Gop!SortKey(rs[p[i]]) \in Int /\ Gop!SortKey(rs[p[j]]) \in Int
      BY <2>1
    <3> QED
      BY <2>3, <3>1, <3>2
  <2> QED
    BY <2>1, <2>2, <2>4
<1>7. \A i \in 1 .. k : p[i] = i
  <2> HIDE DEF Good, Ordered
  <2> QED
    BY <1>5, <1>6, OrderIsOne
<1>8. [i \in DOMAIN rs |-> rs[p[i]]] = [i \in 1 .. k |-> rs[i]]
  BY <1>1, <1>7
<1> QED
  BY <1>4, <1>8
-----------------------------------------------------------------------------
(* L is the last IDR picture of the first n.                               *)
LastOf(s, L, n) ==
  /\ L \in 1 .. n /\ s[L].type = "IDR"
  /\ \A j \in L + 1 .. n : s[j].type # "IDR"

(* How many references there are d pictures after the IDR picture.         *)
Many(S, d) == IF d < S.numRefs THEN d ELSE S.numRefs

(* The last k of the first m pictures, the newest first.                   *)
Pictures(s, m, k) == [i \in 1 .. k |-> s[m + 1 - i].pic]

(* The n-th picture of the stream, coded after the IDR picture L.          *)
CodedAfter(s, S, L, n) ==
  /\ n - L < S.idrPeriod
  /\ s[n].pic.poc = n - L /\ s[n].lsb = (n - L) % S.codedPoc
  /\ S.codec = "avc" => s[n].pic.frameNum = n - L
  /\ s[n].kept = [i \in 1 .. Many(S, n - L) |-> s[n - i].pic]
  /\ s[n].held = [i \in 1 .. Many(S, n - L) |-> s[n - i].pic.id]
  /\ s[n].list = IF s[n].type # "P" THEN <<>>
                 ELSE IF S.codec = "avc" THEN s[n].kept ELSE <<s[n - 1].pic>>

(* The first was the picture number from in the order of coding, which is  *)
(* that of display, and all before were so many.                           *)
Coded(s, S, from, before, n) ==
  /\ s[n].pic.id = before + n
  /\ s[n].pic.slot = (from + n - 1) % S.surfaces
  /\ s[n].type = "IDR" <=> (from + n - 1) % S.idrPeriod = 0
  /\ \A L \in 1 .. n : LastOf(s, L, n) => CodedAfter(s, S, L, n)

From == encoding - Len(stream)
Before == count - Len(stream)

(* What the encoder knows after the m pictures of the stream, when L was   *)
(* the last IDR picture.                                                   *)
Known(S, s, from, rs, display, poc, number, L, m) ==
  /\ rs = Pictures(s, m, Many(S, m + 1 - L))
  /\ display = from + L - 1
  /\ poc[1] \in Int /\ poc[1] + poc[2] = m - L /\ poc[2] = (m - L) % S.maxPoc
  /\ S.codec = "avc" => number = IF m - L + 1 > S.maxFrameNum THEN 0 ELSE m - L + 1

Knows(L, m) == Known(setup, stream, From, refs, idrDisplay, pocRef, frameNum, L, m)

GopInvariant ==
  /\ setup \in Setups /\ encoding \in Nat /\ count \in Nat
  /\ open \in BOOLEAN
  /\ IsSequence(stream) /\ From \in Nat /\ Before \in Nat
  /\ setup.codec = "avc" => From = 0
  /\ surface \in [Gop!Slots -> Nat]
  /\ \A n \in 1 .. Len(stream) : Coded(stream, setup, From, Before, n)
  /\ \A L \in 1 .. Len(stream) : LastOf(stream, L, Len(stream)) => Knows(L, Len(stream))
  /\ open => \A n \in 1 .. Len(stream) :
       Len(stream) - n < setup.surfaces =>
         surface[(From + n - 1) % setup.surfaces] = Before + n
-----------------------------------------------------------------------------
LEMMA SetupFacts ==
  ASSUME setup \in Setups
  PROVE  /\ setup.codec \in {"avc", "hevc"}
         /\ setup.idrPeriod \in Nat \ {0} /\ setup.numRefs \in Nat \ {0}
         /\ setup.surfaces \in Nat \ {0} /\ setup.numRefs < setup.surfaces
         /\ setup.maxFrameNum \in Nat
         /\ setup.codec = "avc" => setup.idrPeriod <= setup.maxFrameNum + 1
         /\ setup.codec = "hevc" => setup.activeRefs = 1
         /\ setup.codedPoc \in Nat /\ setup.codedPoc > 1
         /\ setup.maxPoc \in Nat /\ setup.maxPoc > 1
         /\ \A n \in Nat : (n % setup.maxPoc) % setup.codedPoc = n % setup.codedPoc
<1>1. Gop!SetupIsSound(setup)
  BY EncodersAssumption DEF Gop!ConstantsAreSound
<1>2. PICK k \in 1 .. setup.maxPoc : setup.maxPoc = k * setup.codedPoc
  BY <1>1 DEF Gop!SetupIsSound
<1>3. /\ setup.codec \in {"avc", "hevc"}
      /\ setup.idrPeriod \in Nat \ {0} /\ setup.numRefs \in Nat \ {0}
      /\ setup.surfaces \in Nat \ {0} /\ setup.numRefs < setup.surfaces
      /\ setup.maxFrameNum \in Nat
      /\ setup.codec = "avc" => setup.idrPeriod <= setup.maxFrameNum + 1
      /\ setup.codec = "hevc" => setup.activeRefs = 1
      /\ setup.codedPoc \in Nat /\ setup.codedPoc > 1
  BY <1>1 DEF Gop!SetupIsSound
<1>4. k \in Nat \ {0} /\ setup.codedPoc \in Nat \ {0}
  BY <1>2, <1>3
<1> DEFINE c == setup.codedPoc
<1>5. k * c \in Nat \ {0} /\ \A n \in Nat : (n % (k * c)) % c = n % c
  <2> HIDE DEF c
  <2>1. c \in Nat \ {0}
    BY <1>4 DEF c
  <2> QED
    BY <1>4, <2>1, ModuloPart
<1>6. k * c > 1
  <2>1. c \in Nat /\ c > 1
    BY <1>3
  <2> HIDE DEF c
  <2>2. k * c >= c
    BY <1>4, <2>1
  <2> QED
    BY <2>1, <2>2, <1>5
<1> HIDE DEF c
<1>7. setup.maxPoc = k * c /\ c = setup.codedPoc
  BY <1>2 DEF c
<1> QED
  BY <1>3, <1>5, <1>6, <1>7

(* The type of the n-th picture.                                           *)
LEMMA TypeIs ==
  ASSUME setup \in Setups, NEW n \in Nat
  PROVE  /\ Gop!Type(n) \in {"IDR", "I", "P"}
         /\ Gop!Type(n) = "IDR" <=> n % setup.idrPeriod = 0
  BY DEF Gop!Type, Gop!AvcType, Gop!HevcType

(* There is one last IDR picture, or none.                                 *)
LEMMA LastIdrIs ==
  ASSUME NEW n \in Nat
  PROVE  \/ /\ Gop!LastIdr(n) \in 1 .. n /\ LastOf(stream, Gop!LastIdr(n), n)
         \/ Gop!LastIdr(n) = 0 /\ \A i \in 1 .. n : stream[i].type # "IDR"
<1> DEFINE idrs == {i \in 1 .. n : stream[i].type = "IDR"}
           after == {d \in Nat : n - d \in idrs}
<1>1. CASE idrs = {}
  BY <1>1 DEF Gop!LastIdr
<1>2. CASE idrs # {}
  <2>1. after # {}
    <3>1. PICK i \in idrs : TRUE
      BY <1>2
    <3>2. n - i \in Nat /\ n - (n - i) = i
      BY <3>1
    <3>3. n - i \in after
      BY <3>1, <3>2
    <3> QED
      BY <3>3
  <2>2. PICK d \in after : \A e \in after : d <= e
    <3>1. after \in SUBSET Nat
      OBVIOUS
    <3> HIDE DEF after
    <3> QED
      BY <2>1, <3>1, Smallest
  <2>3. n - d \in idrs /\ \A j \in idrs : j <= n - d
    <3>1. ASSUME NEW j \in idrs PROVE j <= n - d
      <4>1. n - j \in Nat /\ n - (n - j) = j
        OBVIOUS
      <4>2. n - j \in after
        BY <4>1
      <4> QED
        BY <2>2, <4>1, <4>2
    <3> QED
      BY <2>2, <3>1
  <2> DEFINE Greatest(i) == \A j \in idrs : j <= i
             L == CHOOSE i \in idrs : Greatest(i)
  <2>4. L \in idrs /\ Greatest(L)
    <3>1. Greatest(n - d)
      BY <2>3
    <3> HIDE DEF Greatest
    <3> QED
      BY <2>3, <3>1
  <2>5. Gop!LastIdr(n) = L
    BY <1>2 DEF Gop!LastIdr
  <2> HIDE DEF L
  <2>6. LastOf(stream, L, n)
    <3>1. L \in 1 .. n /\ stream[L].type = "IDR"
      BY <2>4
    <3>2. ASSUME NEW j \in L + 1 .. n PROVE stream[j].type # "IDR"
      BY <2>4, <3>1
    <3> QED
      BY <3>1, <3>2 DEF LastOf
  <2> QED
    BY <2>4, <2>5, <2>6
<1> QED
  BY <1>1, <1>2

LEMMA OneLast ==
  ASSUME NEW s, NEW n \in Nat, NEW L, NEW K, LastOf(s, L, n), LastOf(s, K, n)
  PROVE  L = K
<1>1. L \in 1 .. n /\ K \in 1 .. n
  BY DEF LastOf
<1>2. ~(L < K) /\ ~(K < L)
  BY <1>1 DEF LastOf
<1> QED
  BY <1>1, <1>2

(* The last IDR picture before a picture that is none is its own.          *)
LEMMA LastBefore ==
  ASSUME NEW s, NEW n \in Nat, n > 0, NEW L
  PROVE  /\ s[n].type # "IDR" => (LastOf(s, L, n) <=> LastOf(s, L, n - 1))
         /\ s[n].type = "IDR" => (LastOf(s, L, n) <=> L = n)
<1>1. ASSUME s[n].type # "IDR" PROVE LastOf(s, L, n) <=> LastOf(s, L, n - 1)
  BY <1>1 DEF LastOf
<1>2. ASSUME s[n].type = "IDR" PROVE LastOf(s, L, n) <=> L = n
  BY <1>2 DEF LastOf
<1> QED
  BY <1>1, <1>2
-----------------------------------------------------------------------------
(* The order count of the next picture, d after the IDR picture.           *)
LEMMA PocIs ==
  ASSUME setup \in Setups, NEW type, NEW d \in Nat,
         type = "IDR" => d = 0,
         type # "IDR" => d > 0 /\ pocRef[1] \in Int /\ pocRef[1] + pocRef[2] = d - 1
                         /\ pocRef[2] = (d - 1) % setup.maxPoc
  PROVE  LET c == Gop!CalcPoc(type, d % setup.maxPoc)
         IN  /\ c.poc = d /\ c.ref[1] \in Int /\ c.ref[1] + c.ref[2] = d
             /\ c.ref[2] = d % setup.maxPoc
<1> DEFINE M == setup.maxPoc
           p == IF type = "IDR" THEN <<0, 0>> ELSE pocRef
           r == Counted(M, p, d % M)
<1>1. M \in Nat /\ M > 1
  BY SetupFacts
<1>2. Gop!CalcPoc(type, d % M) = [poc |-> r[1] + r[2], ref |-> <<r[1], r[2]>>]
  BY DEF Gop!CalcPoc, Counted
<1>3. r[1] \in Int /\ r[1] + r[2] = d /\ r[2] = d % M
  <2>1. CASE type = "IDR"
    <3>1. d % M = 0
      BY <1>1, <2>1
    <3>2. p = <<0, 0>>
      BY <2>1
    <3>3. r = <<0, 0>>
      BY <3>1, <3>2 DEF Counted
    <3> QED
      BY <2>1, <3>1, <3>3
  <2>2. CASE type # "IDR"
    <3> DEFINE e == d - 1
    <3>1. e \in Nat /\ d = e + 1 /\ p = pocRef
      BY <2>2
    <3>2. p[1] \in Int /\ p[1] + p[2] = e /\ p[2] = e % M
      BY <2>2
    <3> HIDE DEF e, p, M
    <3>3. LET n == Counted(M, p, (e + 1) % M)
          IN  n[1] \in Int /\ n[1] + n[2] = e + 1 /\ n[2] = (e + 1) % M
      BY <1>1, <3>1, <3>2, CountIs
    <3> QED
      BY <3>1, <3>3
  <2> QED
    BY <2>1, <2>2
<1> HIDE DEF r, p
<1> QED
  BY <1>2, <1>3

(* The list of references with one picture more.                           *)
LEMMA ReferencesAre ==
  ASSUME setup \in Setups, NEW m \in Nat, NEW d \in Nat, d <= m,
         NEW rs, NEW t, rs = Pictures(t, m, Many(setup, d)),
         NEW pic, t[m + 1].pic = pic
  PROVE  Gop!UpdateReferences(rs, pic) = Pictures(t, m + 1, Many(setup, d + 1))
<1> DEFINE k == Many(setup, d)
           l == IF k < setup.numRefs - 1 THEN k ELSE setup.numRefs - 1
           S == {rs[i] : i \in 1 .. k}
           new == Gop!UpdateReferences(rs, pic)
<1>0. rs = [i \in 1 .. k |-> t[m + 1 - i].pic]
  BY DEF Pictures
<1>1. setup.numRefs \in Nat \ {0}
  BY SetupFacts
<1>2. /\ k \in Nat /\ k <= d /\ l \in Nat /\ l <= k
      /\ Many(setup, d + 1) = l + 1
  BY <1>1 DEF Many
<1>12. l \in 0 .. k
  <2> HIDE DEF k, l
  <2> QED
    BY <1>2
<1> HIDE DEF k, l
<1>3. rs \in Seq(S) /\ Len(rs) = k
  <2>1. rs = [i \in 1 .. k |-> rs[i]]
    BY <1>0
  <2>2. rs \in [1 .. k -> S]
    BY <2>1
  <2> HIDE DEF S
  <2>3. rs \in Seq(S)
    BY <1>2, <2>2, SeqDef
  <2>4. DOMAIN rs = 1 .. k
    BY <2>2
  <2>5. Len(rs) \in Nat /\ DOMAIN rs = 1 .. Len(rs)
    BY <2>3, LenProperties
  <2>6. 1 .. k = 1 .. Len(rs)
    BY <2>4, <2>5
  <2>7. k \in Nat
    BY <1>2
  <2> DEFINE j == Len(rs)
  <2>8. j \in Nat /\ 1 .. k = 1 .. j
    BY <2>5, <2>6
  <2> HIDE DEF j
  <2>9. ~(k < j)
    <3>1. k < j => j \in 1 .. j /\ j \notin 1 .. k
      BY <2>7, <2>8
    <3> QED
      BY <2>8, <3>1
  <2>10. ~(j < k)
    <3>1. j < k => k \in 1 .. k /\ k \notin 1 .. j
      BY <2>7, <2>8
    <3> QED
      BY <2>8, <3>1
  <2>11. j = k
    BY <2>7, <2>8, <2>9, <2>10
  <2> QED
    BY <2>3, <2>11 DEF j
<1>4. new = <<pic>> \o SubSeq(rs, 1, l)
  BY <1>3 DEF Gop!UpdateReferences, l
<1> DEFINE T == S \cup {pic}
<1>5. <<pic>> \in Seq(T) /\ Len(<<pic>>) = 1 /\ <<pic>>[1] = pic
  OBVIOUS
<1> DEFINE tail == SubSeq(rs, 1, l)
<1>6. tail \in Seq(T) /\ Len(tail) = l /\ \A i \in 1 .. l : tail[i] = rs[i]
  <2>1. 1 \in Int /\ l \in Int
    BY <1>2
  <2>2. \A i \in 1 .. l : rs[i] \in T
    BY <1>2
  <2> HIDE DEF T, S
  <2>3. /\ SubSeq(rs, 1, l) \in Seq(T)
        /\ Len(SubSeq(rs, 1, l)) = IF 1 <= l THEN l - 1 + 1 ELSE 0
        /\ \A i \in 1 .. l - 1 + 1 : SubSeq(rs, 1, l)[i] = rs[1 + i - 1]
    BY <2>1, <2>2, SubSeqProperties
  <2>4. l \in Nat
    BY <1>2
  <2> HIDE DEF tail
  <2>5. tail = SubSeq(rs, 1, l)
    BY DEF tail
  <2>6. Len(tail) = l
    BY <2>3, <2>4, <2>5
  <2>7. ASSUME NEW i \in 1 .. l PROVE tail[i] = rs[i]
    <3>1. i \in 1 .. l - 1 + 1 /\ 1 + i - 1 = i
      BY <2>4
    <3>2. tail[i] = rs[1 + i - 1]
      BY <2>3, <2>5, <3>1
    <3> QED
      BY <3>1, <3>2
  <2> QED
    BY <2>3, <2>5, <2>6, <2>7
<1> HIDE DEF T, S
<1>7. Len(new) = 1 + l /\ new \in Seq(T) /\ new[1] = pic
      /\ \A i \in 2 .. 1 + l : new[i] = tail[i - 1]
  <2> DEFINE one == <<pic>>
  <2>1. one \in Seq(T) /\ Len(one) = 1 /\ one[1] = pic
    BY <1>5
  <2>2. new = one \o tail
    BY <1>4
  <2>3. l \in Nat
    BY <1>2
  <2> HIDE DEF one, tail, new
  <2>4. /\ one \o tail \in Seq(T) /\ Len(one \o tail) = Len(one) + Len(tail)
        /\ \A i \in 1 .. Len(one) + Len(tail) :
             (one \o tail)[i] = IF i <= Len(one) THEN one[i] ELSE tail[i - Len(one)]
    BY <1>6, <2>1, ConcatProperties
  <2>5. Len(one) = 1 /\ Len(tail) = l /\ one[1] = pic
    BY <1>6, <2>1
  <2> QED
    BY <2>2, <2>3, <2>4, <2>5
<1> HIDE DEF new, tail
<1>8. ASSUME NEW i \in 1 .. l + 1 PROVE new[i] = t[m + 2 - i].pic
  <2>0. m \in Nat /\ l \in Nat /\ k \in Nat /\ l <= k /\ k <= d /\ d <= m /\ d \in Nat
    BY <1>2
  <2>1. CASE i = 1
    <3>1. m + 2 - i = m + 1
      BY <2>0, <2>1
    <3>2. new[i] = pic
      BY <1>7, <2>1
    <3> QED
      BY <3>1, <3>2
  <2>2. CASE i # 1
    <3>1. i - 1 \in 1 .. l /\ i - 1 \in 1 .. k /\ m + 1 - (i - 1) = m + 2 - i
          /\ m + 2 - i \in 1 .. m /\ i \in 2 .. 1 + l
      BY <2>0, <2>2
    <3>2. new[i] = rs[i - 1]
      BY <1>6, <1>7, <3>1
    <3>3. rs[i - 1] = t[m + 1 - (i - 1)].pic
      BY <1>0, <3>1
    <3> QED
      BY <3>1, <3>2, <3>3
  <2> QED
    BY <2>1, <2>2
<1>9. new = [i \in 1 .. l + 1 |-> new[i]]
  BY <1>2, <1>7, SeqDef, LenProperties
<1>10. new = [i \in 1 .. l + 1 |-> t[m + 2 - i].pic]
  BY <1>8, <1>9
<1>11. Pictures(t, m + 1, l + 1) = [i \in 1 .. l + 1 |-> t[m + 2 - i].pic]
  <2>1. m + 1 + 1 = m + 2
    OBVIOUS
  <2> QED
    BY <2>1 DEF Pictures
<1> QED
  BY <1>2, <1>10, <1>11 DEF new

(* What is said of the pictures before stays when there is one more.       *)
LEMMA CodedStays ==
  ASSUME setup \in Setups, NEW s, NEW t, NEW m \in Nat, \A i \in 1 .. m : t[i] = s[i],
         NEW from, NEW before, NEW n \in 1 .. m, Coded(s, setup, from, before, n)
  PROVE  Coded(t, setup, from, before, n)
<1>1. t[n] = s[n]
  OBVIOUS
<1>2. ASSUME NEW L \in 1 .. n, LastOf(t, L, n)
      PROVE  CodedAfter(t, setup, L, n)
  <2>1. LastOf(s, L, n)
    <3>1. \A j \in 1 .. n : t[j] = s[j]
      OBVIOUS
    <3> QED
      BY <1>2, <3>1 DEF LastOf
  <2>2. CodedAfter(s, setup, L, n)
    BY <2>1 DEF Coded
  <2>3. setup.numRefs \in Nat \ {0}
    BY SetupFacts
  <2>4. \A i \in 1 .. Many(setup, n - L) : n - i \in 1 .. m
    BY <2>3 DEF Many
  <2>5. /\ [i \in 1 .. Many(setup, n - L) |-> s[n - i].pic]
             = [i \in 1 .. Many(setup, n - L) |-> t[n - i].pic]
        /\ [i \in 1 .. Many(setup, n - L) |-> s[n - i].pic.id]
             = [i \in 1 .. Many(setup, n - L) |-> t[n - i].pic.id]
    BY <2>4
  <2>6. s[n].list = IF s[n].type # "P" THEN <<>>
                    ELSE IF setup.codec = "avc" THEN s[n].kept ELSE <<s[n - 1].pic>>
    BY <2>2 DEF CodedAfter
  <2>7. t[n].list = IF t[n].type # "P" THEN <<>>
                    ELSE IF setup.codec = "avc" THEN t[n].kept ELSE <<t[n - 1].pic>>
    <3>1. CASE n = L
      <4>1. t[n].type = "IDR"
        BY <1>2, <3>1 DEF LastOf
      <4> QED
        BY <1>1, <2>6, <4>1
    <3>2. CASE n # L
      <4>1. n - 1 \in 1 .. m
        BY <3>2
      <4>2. t[n - 1] = s[n - 1]
        BY <4>1
      <4> QED
        BY <1>1, <2>6, <4>2
    <3> QED
      BY <3>1, <3>2
  <2> QED
    BY <1>1, <2>2, <2>5, <2>7 DEF CodedAfter
<1> QED
  BY <1>1, <1>2 DEF Coded

(* The last IDR picture of a part of the stream that has it.               *)
LEMMA LastOfPart ==
  ASSUME NEW s, NEW n \in Nat, NEW L, LastOf(s, L, n), NEW j \in L .. n
  PROVE  L \in Nat \ {0} /\ L <= n /\ LastOf(s, L, j)
<1>1. L \in 1 .. n /\ j \in Nat
  BY DEF LastOf
<1> QED
  BY <1>1 DEF LastOf

(* Before an IDR picture is due, the period since the last is not over.    *)
LEMMA PeriodNotOver ==
  ASSUME GopInvariant, Gop!Type(encoding) # "IDR",
         NEW L, LastOf(stream, L, Len(stream))
  PROVE  Len(stream) + 1 - L < setup.idrPeriod
<1> DEFINE m == Len(stream)
           P == setup.idrPeriod
           F == From
           first == F + L - 1
           next == first + P
<1>1. /\ setup \in Setups /\ m \in Nat /\ F \in Nat /\ encoding = F + m /\ encoding \in Nat
      /\ \A n \in 1 .. m : stream[n].type = "IDR" <=> (F + n - 1) % P = 0
  <2>1. m \in Nat
    BY OneMore DEF GopInvariant
  <2> QED
    BY <2>1 DEF GopInvariant, From, Coded
<1>2. P \in Nat \ {0}
  BY <1>1, SetupFacts
<1>3. L \in 1 .. m /\ stream[L].type = "IDR" /\ \A j \in L + 1 .. m : stream[j].type # "IDR"
  BY DEF LastOf
<1>4. encoding % P # 0
  BY <1>1, TypeIs
<1> HIDE DEF m, P, F
<1>5. next % P = 0
  <2>1. first \in Nat /\ next \in Nat /\ first < next /\ next - first = P /\ first % P = 0
    BY <1>1, <1>2, <1>3
  <2> HIDE DEF first, next
  <2> QED
    BY <1>2, <2>1, SameRemainder
<1>6. ~(m + 1 - L >= P)
  <2>1. SUFFICES ASSUME m + 1 - L >= P PROVE FALSE
    OBVIOUS
  <2> DEFINE j == L + P
  <2>2. j \in L + 1 .. m + 1 /\ F + j - 1 = next
    BY <1>1, <1>2, <1>3, <2>1
  <2>3. CASE j = m + 1
    <3>1. next = encoding
      BY <1>1, <1>2, <1>3, <2>3
    <3> QED
      BY <1>4, <1>5, <3>1
  <2>4. CASE j # m + 1
    <3>1. j \in L + 1 .. m /\ j \in 1 .. m
      BY <1>1, <1>2, <1>3, <2>2, <2>4
    <3> HIDE DEF j
    <3>2. (F + j - 1) % P = 0
      BY <1>5, <2>2
    <3> QED
      BY <1>1, <1>3, <3>1, <3>2
  <2> QED
    BY <2>3, <2>4
<1> QED
  BY <1>1, <1>2, <1>3, <1>6 DEF m, P

(* The references of the next picture are on their surfaces.               *)
LEMMA ReferencesHeld ==
  ASSUME GopInvariant, open, NEW L, LastOf(stream, L, Len(stream)),
         NEW i \in 1 .. Many(setup, Len(stream) + 1 - L)
  PROVE  /\ refs[i] = stream[Len(stream) + 1 - i].pic
         /\ surface[refs[i].slot] = refs[i].id
<1> DEFINE m == Len(stream)
           j == m + 1 - i
<1>1. setup \in Setups /\ m \in Nat /\ Knows(L, m) /\ L \in 1 .. m
  <2>1. m \in Nat
    BY OneMore DEF GopInvariant
  <2>2. L \in 1 .. m
    BY DEF LastOf
  <2> QED
    BY <2>1, <2>2 DEF GopInvariant
<1>2. setup.numRefs \in Nat \ {0} /\ setup.surfaces \in Nat /\ setup.numRefs < setup.surfaces
  BY <1>1, SetupFacts
<1>3. i \in Nat \ {0} /\ i <= setup.numRefs /\ i <= m + 1 - L
  BY <1>1, <1>2 DEF Many
<1>4. j \in 1 .. m /\ m - j < setup.surfaces
  BY <1>1, <1>2, <1>3
<1>5. refs[i] = stream[j].pic
  BY <1>1 DEF Knows, Known, Pictures
<1> HIDE DEF m, j
<1>6. stream[j].pic.id = Before + j /\ stream[j].pic.slot = (From + j - 1) % setup.surfaces
  BY <1>4 DEF GopInvariant, Coded, m
<1>7. surface[(From + j - 1) % setup.surfaces] = Before + j
  BY <1>4 DEF GopInvariant, m
<1> QED
  BY <1>5, <1>6, <1>7 DEF m, j

(* They are sorted as they are kept.                                       *)
LEMMA ReferencesSorted ==
  ASSUME GopInvariant, NEW L, LastOf(stream, L, Len(stream))
  PROVE  Gop!Sorted(refs) = refs
<1> DEFINE m == Len(stream)
           k == Many(setup, m + 1 - L)
           Key(i) == IF setup.codec = "avc" THEN m + 1 - i - L ELSE 2 * (m + 1 - i - L)
<1>1. setup \in Setups /\ m \in Nat /\ Knows(L, m) /\ L \in 1 .. m
  <2>1. m \in Nat
    BY OneMore DEF GopInvariant
  <2>2. L \in 1 .. m
    BY DEF LastOf
  <2> QED
    BY <2>1, <2>2 DEF GopInvariant
<1>2. setup.numRefs \in Nat \ {0} /\ setup.codec \in {"avc", "hevc"}
  BY <1>1, SetupFacts
<1>3. k \in Nat /\ k <= m + 1 - L
  BY <1>1, <1>2 DEF Many
<1>4. refs = [i \in 1 .. k |-> stream[m + 1 - i].pic]
  BY <1>1 DEF Knows, Known, Pictures
<1> HIDE DEF m, k
<1>5. refs = [i \in 1 .. k |-> refs[i]]
  BY <1>4
<1>6. ASSUME NEW i \in 1 .. k PROVE Gop!SortKey(refs[i]) = Key(i) /\ Key(i) \in Int
  <2> DEFINE j == m + 1 - i
  <2>1. j \in L .. m /\ j \in 1 .. m /\ refs[i] = stream[j].pic /\ Key(i) \in Int
        /\ Key(i) = IF setup.codec = "avc" THEN j - L ELSE 2 * (j - L)
    BY <1>1, <1>3, <1>4
  <2> HIDE DEF j
  <2>2. LastOf(stream, L, j) /\ L \in 1 .. j
    <3>1. LastOf(stream, L, m) /\ m \in Nat
      BY <1>1 DEF m
    <3>2. LastOf(stream, L, j)
      BY <2>1, <3>1, LastOfPart
    <3> QED
      BY <3>2 DEF LastOf
  <2>3. CodedAfter(stream, setup, L, j)
    BY <2>1, <2>2 DEF GopInvariant, Coded, m
  <2> QED
    BY <1>2, <2>1, <2>3 DEF CodedAfter, Gop!SortKey
<1>7. ASSUME NEW i \in 1 .. k, NEW j \in 1 .. k, i < j PROVE Key(i) > Key(j)
  BY <1>1, <1>7
<1> HIDE DEF Key
<1> QED
  BY <1>3, <1>5, <1>6, <1>7, SortedIs
-----------------------------------------------------------------------------
(* The next picture after L: its numbers.                                  *)
LEMMA NumbersAre ==
  ASSUME GopInvariant, NEW L,
         IF Gop!Type(encoding) = "IDR" THEN L = Len(stream) + 1
         ELSE LastOf(stream, L, Len(stream))
  PROVE  LET type == Gop!Type(encoding)
             d    == Len(stream) + 1 - L
             fn   == IF type = "IDR" THEN 0 ELSE frameNum
             idr  == IF type = "IDR" THEN encoding ELSE idrDisplay
             lsb  == (encoding - idr) % setup.maxPoc
             poc  == Gop!CalcPoc(type, lsb)
         IN  /\ d \in Nat /\ d < setup.idrPeriod
             /\ idr = From + L - 1
             /\ poc.poc = d /\ poc.ref[1] \in Int
             /\ poc.ref[1] + poc.ref[2] = d /\ poc.ref[2] = d % setup.maxPoc
             /\ lsb % setup.codedPoc = d % setup.codedPoc
             /\ setup.codec = "avc" => fn = d
<1> DEFINE m == Len(stream)
           type == Gop!Type(encoding)
           d == m + 1 - L
           fn == IF type = "IDR" THEN 0 ELSE frameNum
           idr == IF type = "IDR" THEN encoding ELSE idrDisplay
           lsb == (encoding - idr) % setup.maxPoc
           poc == Gop!CalcPoc(type, lsb)
           F == From
<1>1. /\ setup \in Setups /\ m \in Nat /\ F \in Nat /\ encoding = F + m
      /\ encoding \in Nat
  <2>1. m \in Nat
    BY OneMore DEF GopInvariant
  <2> QED
    BY <2>1 DEF GopInvariant, From
<1>2. /\ setup.idrPeriod \in Nat \ {0} /\ setup.maxPoc \in Nat
      /\ \A n \in Nat : (n % setup.maxPoc) % setup.codedPoc = n % setup.codedPoc
      /\ setup.codec = "avc" => setup.idrPeriod <= setup.maxFrameNum + 1
      /\ setup.maxFrameNum \in Nat
  BY <1>1, SetupFacts
<1>3. ASSUME type # "IDR"
      PROVE  /\ L \in 1 .. m /\ Knows(L, m) /\ d \in Nat /\ d > 0 /\ d < setup.idrPeriod
             /\ m - L = d - 1
  <2>1. LastOf(stream, L, m)
    BY <1>3
  <2>2. L \in 1 .. m
    BY <2>1 DEF LastOf
  <2>3. Knows(L, m)
    BY <2>1, <2>2 DEF GopInvariant
  <2>4. d < setup.idrPeriod
    BY <1>3, <2>1, PeriodNotOver
  <2> QED
    BY <1>1, <2>2, <2>3, <2>4
<1>4. type = "IDR" => L = m + 1 /\ d = 0
  BY <1>1
<1>5. d \in Nat /\ d < setup.idrPeriod /\ idr = F + L - 1
  <2>1. CASE type = "IDR"
    BY <1>1, <1>2, <1>4, <2>1
  <2>2. CASE type # "IDR"
    BY <1>3, <2>2 DEF Knows, Known, Pictures
  <2> QED
    BY <2>1, <2>2
<1>6. encoding - idr = d
  <2>1. L \in Int
    BY <1>1, <1>3, <1>4
  <2> HIDE DEF idr, F, m
  <2> QED
    BY <1>1, <1>5, <2>1
<1>7. lsb = d % setup.maxPoc
  BY <1>6
<1>8. /\ poc.poc = d /\ poc.ref[1] \in Int
      /\ poc.ref[1] + poc.ref[2] = d /\ poc.ref[2] = d % setup.maxPoc
  <2>1. type # "IDR" => d > 0 /\ pocRef[1] \in Int /\ pocRef[1] + pocRef[2] = d - 1
                         /\ pocRef[2] = (d - 1) % setup.maxPoc
    BY <1>3 DEF Knows, Known, Pictures
  <2>2. d \in Nat /\ (type = "IDR" => d = 0)
    BY <1>4, <1>5
  <2>3. poc = Gop!CalcPoc(type, d % setup.maxPoc)
    BY <1>7
  <2> HIDE DEF type, d, poc
  <2> QED
    BY <1>1, <2>1, <2>2, <2>3, PocIs
<1>9. setup.codec = "avc" => fn = d
  <2>1. CASE type = "IDR"
    BY <1>4, <2>1
  <2>2. CASE type # "IDR"
    <3>1. setup.codec = "avc" => frameNum = IF m - L + 1 > setup.maxFrameNum THEN 0 ELSE m - L + 1
      BY <1>3, <2>2 DEF Knows, Known, Pictures
    <3>2. setup.codec = "avc" => ~(m - L + 1 > setup.maxFrameNum) /\ m - L + 1 = d
      BY <1>1, <1>2, <1>3, <2>2
    <3> HIDE DEF d, m
    <3> QED
      BY <2>2, <3>1, <3>2
  <2> QED
    BY <2>1, <2>2
<1>10. lsb % setup.codedPoc = d % setup.codedPoc
  BY <1>2, <1>5, <1>7
<1> QED
  BY <1>5, <1>8, <1>9, <1>10

(* Its references, those it keeps and those it names.                      *)
LEMMA NextReferences ==
  ASSUME GopInvariant, open, NEW L,
         IF Gop!Type(encoding) = "IDR" THEN L = Len(stream) + 1
         ELSE LastOf(stream, L, Len(stream))
  PROVE  LET type == Gop!Type(encoding)
             m    == Len(stream)
             d    == m + 1 - L
             rs   == IF Gop!StartsAnew(type) THEN <<>> ELSE refs
         IN  /\ d \in Nat /\ d <= m /\ m \in Nat
             /\ rs = [i \in 1 .. Many(setup, d) |-> stream[m + 1 - i].pic]
             /\ \A i \in 1 .. Many(setup, d) : surface[rs[i].slot] = rs[i].id
             /\ type = "P" => d > 0
             /\ Gop!RefList(type, rs) =
                  IF type # "P" THEN <<>>
                  ELSE IF setup.codec = "avc" THEN rs ELSE <<stream[m].pic>>
<1> DEFINE m == Len(stream)
           type == Gop!Type(encoding)
           d == m + 1 - L
           rs == IF Gop!StartsAnew(type) THEN <<>> ELSE refs
           k == Many(setup, d)
<1>1. setup \in Setups /\ m \in Nat
  <2>1. m \in Nat
    BY OneMore DEF GopInvariant
  <2> QED
    BY <2>1 DEF GopInvariant
<1>2. setup.numRefs \in Nat \ {0} /\ setup.codec \in {"avc", "hevc"}
      /\ (setup.codec = "hevc" => setup.activeRefs = 1)
  BY <1>1, SetupFacts
<1>3. CASE type = "IDR"
  <2>1. L = m + 1 /\ d = 0 /\ k = 0 /\ rs = <<>>
    BY <1>1, <1>2, <1>3 DEF Many, Gop!StartsAnew
  <2>2. <<>> = [i \in 1 .. 0 |-> stream[m + 1 - i].pic]
    OBVIOUS
  <2>3. Gop!RefList(type, rs) = <<>> /\ type # "P"
    BY <1>3 DEF Gop!RefList
  <2> HIDE DEF rs, type, m, k
  <2>4. d \in Nat /\ d <= m /\ 1 .. k = {}
    BY <1>1, <2>1
  <2>5. rs = [i \in 1 .. k |-> stream[m + 1 - i].pic]
    BY <2>1, <2>2
  <2> QED
    BY <1>1, <2>3, <2>4, <2>5 DEF rs, type, m, k
<1>4. CASE type # "IDR"
  <2>1. LastOf(stream, L, m)
    BY <1>4
  <2>2. L \in 1 .. m
    BY <2>1 DEF LastOf
  <2>3. Knows(L, m)
    BY <2>1, <2>2 DEF GopInvariant
  <2>4. rs = refs
    BY <1>4 DEF Gop!StartsAnew
  <2>5. refs = [i \in 1 .. k |-> stream[m + 1 - i].pic]
    BY <2>3 DEF Knows, Known, Pictures
  <2>6. \A i \in 1 .. k : surface[refs[i].slot] = refs[i].id
    BY <2>1, ReferencesHeld
  <2>7. Gop!Sorted(refs) = refs
    BY <2>1, ReferencesSorted
  <2>8. d \in Nat /\ d <= m /\ d > 0 /\ k \in Nat /\ k >= 1
    BY <1>1, <1>2, <2>2 DEF Many
  <2>9. setup.codec # "avc" => SubSeq(refs, 1, setup.activeRefs) = <<stream[m].pic>>
    <3>1. SUFFICES ASSUME setup.codec # "avc" PROVE SubSeq(refs, 1, 1) = <<stream[m].pic>>
      BY <1>2
    <3>2. refs[1] = stream[m].pic
      <4>1. 1 \in 1 .. k /\ m + 1 - 1 = m
        BY <1>1, <2>8
      <4> HIDE DEF k, m
      <4> QED
        BY <2>5, <4>1
    <3>3. SubSeq(refs, 1, 1) = <<refs[1]>>
      <4> DEFINE one == SubSeq(refs, 1, 1)
                 S == {refs[1]}
      <4>1. one \in Seq(S) /\ Len(one) = 1 /\ one[1] = refs[1]
        <5>1. \A i \in 1 .. 1 : refs[i] \in S
          OBVIOUS
        <5>2. /\ one \in Seq(S) /\ Len(one) = IF 1 <= 1 THEN 1 - 1 + 1 ELSE 0
              /\ \A i \in 1 .. 1 - 1 + 1 : one[i] = refs[1 + i - 1]
          <6>1. 1 \in Int
            OBVIOUS
          <6> HIDE DEF S
          <6> QED
            BY <5>1, <6>1, SubSeqProperties
        <5> HIDE DEF one, S
        <5> QED
          BY <5>2
      <4>2. <<refs[1]>> \in Seq(S) /\ Len(<<refs[1]>>) = 1 /\ <<refs[1]>>[1] = refs[1]
        OBVIOUS
      <4> DEFINE two == <<refs[1]>>
      <4> HIDE DEF one, two, S
      <4>3. \A i \in 1 .. Len(one) : one[i] = two[i]
        BY <4>1, <4>2 DEF two
      <4>4. one = two
        BY <4>1, <4>2, <4>3, SeqEqual DEF two
      <4> QED
        BY <4>4 DEF one, two
    <3> QED
      BY <3>2, <3>3
  <2>10. Gop!RefList(type, refs) =
           IF type # "P" THEN <<>> ELSE IF setup.codec = "avc" THEN refs ELSE <<stream[m].pic>>
    <3> HIDE DEF type, m
    <3> QED
      BY <2>7, <2>9 DEF Gop!RefList, Gop!Active
  <2> HIDE DEF rs, type, m, k, d
  <2> QED
    BY <1>1, <2>4, <2>5, <2>6, <2>8, <2>10 DEF rs, type, m, k, d
<1> QED
  BY <1>3, <1>4
-----------------------------------------------------------------------------
(* EncodePicture keeps the invariant.                                      *)
LEMMA EncodeKeepsGop ==
  ASSUME GopInvariant, Gop!EncodePicture
  PROVE  GopInvariant'
<1> DEFINE m == Len(stream)
           n == m + 1
           type == Gop!Type(encoding)
           rs == IF Gop!StartsAnew(type) THEN <<>> ELSE refs
           fn == IF type = "IDR" THEN 0 ELSE frameNum
           idr == IF type = "IDR" THEN encoding ELSE idrDisplay
           lsb == (encoding - idr) % setup.maxPoc
           poc == Gop!CalcPoc(type, lsb)
           slot == encoding % setup.surfaces
           id == IF type = "IDR" /\ encoding # 0 THEN idrPicId + 1 ELSE idrPicId
           pic == [id |-> count + 1, session |-> session, slot |-> slot, type |-> type,
                   frameNum |-> fn, poc |-> poc.poc, idrPicId |-> id]
           held == [i \in DOMAIN rs |-> surface[rs[i].slot]]
           new == [pic |-> pic, type |-> type, lsb |-> lsb % setup.codedPoc,
                   list |-> Gop!RefList(type, rs), ends |-> Gop!EndsSequence(encoding),
                   kept |-> rs, held |-> held]
           t == stream'
           F == From
           B == Before
<1>1. /\ setup' = setup /\ open /\ open' = open /\ session' = session
      /\ encoding' = encoding + 1 /\ count' = count + 1
      /\ stream' = Append(stream, new)
      /\ surface' = [surface EXCEPT ![slot] = count + 1]
      /\ refs' = Gop!UpdateReferences(rs, pic)
      /\ frameNum' = Gop!NextFrameNum(fn) /\ idrDisplay' = idr /\ pocRef' = poc.ref
  BY DEF Gop!EncodePicture
<1>2. /\ setup \in Setups /\ encoding \in Nat /\ count \in Nat /\ IsSequence(stream)
      /\ F \in Nat /\ B \in Nat /\ (setup.codec = "avc" => F = 0)
      /\ surface \in [Gop!Slots -> Nat]
      /\ \A i \in 1 .. m : Coded(stream, setup, F, B, i)
      /\ \A i \in 1 .. m : m - i < setup.surfaces =>
           surface[(F + i - 1) % setup.surfaces] = B + i
  BY <1>1 DEF GopInvariant
<1>3. /\ IsSequence(t) /\ m \in Nat /\ Len(t) = n /\ t[n] = new
      /\ \A i \in 1 .. m : t[i] = stream[i]
  <2> HIDE DEF new
  <2> QED
    BY <1>1, <1>2, OneMore
<1>4. setup.surfaces \in Nat \ {0} /\ setup.numRefs \in Nat \ {0}
  BY <1>2, SetupFacts
<1>5. F = encoding - m /\ B = count - m /\ F' = F /\ B' = B
      /\ encoding = F + n - 1 /\ count + 1 = B + n
  <2>1. F = encoding - m /\ B = count - m /\ F' = (encoding + 1) - n /\ B' = (count + 1) - n
    BY <1>1, <1>3 DEF From, Before
  <2> HIDE DEF F, B, m
  <2> QED
    BY <1>2, <1>3, <2>1
<1>6. slot \in 0 .. setup.surfaces - 1 /\ slot \in Gop!Slots
  <2>1. slot \in 0 .. setup.surfaces - 1
    BY <1>2, <1>4, NextModulo
  <2> QED
    BY <2>1 DEF Gop!Slots
<1>7. new.pic = pic /\ new.type = type /\ new.lsb = lsb % setup.codedPoc
      /\ new.list = Gop!RefList(type, rs) /\ new.kept = rs /\ new.held = held
      /\ pic.id = count + 1 /\ pic.slot = slot /\ pic.frameNum = fn /\ pic.poc = poc.poc
  <2> HIDE DEF rs, type, fn, lsb, poc, slot, id, held
  <2> QED
    OBVIOUS
<1>8. Gop!Slots' = Gop!Slots
  BY <1>1 DEF Gop!Slots
<1> HIDE DEF new, pic, t, F, B
<1>9. ASSUME NEW L \in 1 .. n, LastOf(t, L, n)
      PROVE  /\ CodedAfter(t, setup, L, n)
             /\ Known(setup, t, F, refs', idrDisplay', pocRef', frameNum', L, n)
  <2>1. IF type = "IDR" THEN L = m + 1 ELSE LastOf(stream, L, m)
    <3>1. t[n].type = type /\ n > 0 /\ n \in Nat /\ n - 1 = m
      BY <1>3, <1>7
    <3>2. (type = "IDR" => L = n) /\ (type # "IDR" => LastOf(t, L, m))
      <4> HIDE DEF type, m, n
      <4> QED
        BY <1>9, <3>1, LastBefore
    <3>3. LastOf(t, L, m) => LastOf(stream, L, m)
      BY <1>3 DEF LastOf
    <3> QED
      BY <3>2, <3>3
  <2> DEFINE d == m + 1 - L
             k == Many(setup, d)
  <2>2. /\ d \in Nat /\ d < setup.idrPeriod /\ idr = F + L - 1
        /\ poc.poc = d /\ poc.ref[1] \in Int
        /\ poc.ref[1] + poc.ref[2] = d /\ poc.ref[2] = d % setup.maxPoc
        /\ lsb % setup.codedPoc = d % setup.codedPoc
        /\ setup.codec = "avc" => fn = d
    BY <2>1, NumbersAre DEF F
  <2>3. /\ d <= m
        /\ rs = [i \in 1 .. k |-> stream[m + 1 - i].pic]
        /\ \A i \in 1 .. k : surface[rs[i].slot] = rs[i].id
        /\ type = "P" => d > 0
        /\ Gop!RefList(type, rs) =
             IF type # "P" THEN <<>>
             ELSE IF setup.codec = "avc" THEN rs ELSE <<stream[m].pic>>
    BY <1>1, <2>1, NextReferences
  <2>4. k \in Nat /\ k <= d
    BY <1>4, <2>2 DEF Many
  <2>5. n - L = d /\ m + 1 = n /\ \A i \in 1 .. k : n - i \in 1 .. m
    BY <1>3, <2>2, <2>3, <2>4
  <2>6. held = [i \in 1 .. k |-> rs[i].id]
    <3>1. DOMAIN rs = 1 .. k
      <4>1. DOMAIN [i \in 1 .. k |-> stream[m + 1 - i].pic] = 1 .. k
        OBVIOUS
      <4> HIDE DEF rs, k
      <4> QED
        BY <2>3, <4>1
    <3>2. \A i \in 1 .. k : surface[rs[i].slot] = rs[i].id
      BY <2>3
    <3> HIDE DEF rs, k
    <3> QED
      BY <3>1, <3>2
  <2> HIDE DEF rs, type, fn, idr, lsb, poc, slot, id, held, k, d
  <2>7. /\ rs = [i \in 1 .. k |-> t[n - i].pic]
        /\ held = [i \in 1 .. k |-> t[n - i].pic.id]
    <3>1. \A i \in 1 .. k : stream[m + 1 - i].pic = t[n - i].pic
      <4>1. ASSUME NEW i \in 1 .. k PROVE stream[m + 1 - i].pic = t[n - i].pic
        <5>1. n - i \in 1 .. m /\ m + 1 - i = n - i
          BY <2>5
        <5>2. t[n - i] = stream[n - i]
          BY <1>3, <5>1
        <5> QED
          BY <5>1, <5>2
      <4> QED
        BY <4>1
    <3>2. rs = [i \in 1 .. k |-> t[n - i].pic]
      BY <2>3, <3>1
    <3>3. \A i \in 1 .. k : rs[i].id = t[n - i].pic.id
      BY <3>2
    <3> QED
      BY <2>6, <3>2, <3>3
  <2>8. type = "P" => stream[m] = t[n - 1]
    <3>1. type = "P" => m \in 1 .. m /\ n - 1 = m
      BY <1>3, <2>2, <2>3
    <3> QED
      BY <1>3, <3>1
  <2>9. CodedAfter(t, setup, L, n)
    <3>1. t[n].pic.poc = d /\ t[n].lsb = d % setup.codedPoc /\ t[n].kept = rs
          /\ t[n].held = held /\ t[n].type = type
          /\ (setup.codec = "avc" => t[n].pic.frameNum = d)
      BY <1>3, <1>7, <2>2
    <3>2. t[n].list = IF type # "P" THEN <<>>
                      ELSE IF setup.codec = "avc" THEN rs ELSE <<t[n - 1].pic>>
      BY <1>3, <1>7, <2>3, <2>8
    <3>3. k = Many(setup, n - L)
      BY <2>5 DEF k
    <3>4. n - L < setup.idrPeriod
      BY <2>2, <2>5
    <3> HIDE DEF n, m
    <3> QED
      BY <2>5, <2>7, <3>1, <3>2, <3>3, <3>4 DEF CodedAfter
  <2>10. Known(setup, t, F, refs', idrDisplay', pocRef', frameNum', L, n)
    <3>1. setup \in Setups /\ d \in Nat /\ m \in Nat /\ d <= m
      BY <1>2, <1>3, <2>2, <2>3
    <3>2. t[m + 1].pic = pic
      BY <1>3, <1>7
    <3>3. rs = Pictures(t, m, Many(setup, d))
      BY <2>7 DEF k, Pictures
    <3>4. Gop!UpdateReferences(rs, pic) = Pictures(t, m + 1, Many(setup, d + 1))
      <4> HIDE DEF m, n
      <4> QED
        BY <3>1, <3>2, <3>3, ReferencesAre
    <3>5. refs' = Pictures(t, n, Many(setup, n + 1 - L))
      <4>1. n + 1 - L = d + 1
        BY <1>3, <2>5
      <4> HIDE DEF n, m
      <4> QED
        BY <1>1, <2>5, <3>4, <4>1
    <3>6. setup.codec = "avc" => frameNum' = IF n - L + 1 > setup.maxFrameNum THEN 0 ELSE n - L + 1
      <4>1. setup.codec = "avc" => frameNum' = Gop!NextFrameNum(d)
        BY <1>1, <2>2
      <4> HIDE DEF n, m
      <4> QED
        BY <2>5, <4>1 DEF Gop!NextFrameNum
    <3>7. /\ idrDisplay' = F + L - 1
          /\ pocRef'[1] \in Int /\ pocRef'[1] + pocRef'[2] = n - L
          /\ pocRef'[2] = (n - L) % setup.maxPoc
      <4> HIDE DEF n, m
      <4> QED
        BY <1>1, <2>2, <2>5
    <3> HIDE DEF n
    <3> QED
      BY <3>5, <3>6, <3>7 DEF Known
  <2> QED
    BY <2>9, <2>10
<1>10. \A i \in 1 .. n : Coded(t, setup, F, B, i)
  <2>1. ASSUME NEW i \in 1 .. m PROVE Coded(t, setup, F, B, i)
    <3> HIDE DEF m, n
    <3> QED
      BY <1>2, <1>3, CodedStays
  <2>2. Coded(t, setup, F, B, n)
    <3>1. t[n].pic.id = B + n /\ t[n].pic.slot = (F + n - 1) % setup.surfaces
      BY <1>3, <1>5, <1>7
    <3>2. t[n].type = "IDR" <=> (F + n - 1) % setup.idrPeriod = 0
      <4>1. type = "IDR" <=> encoding % setup.idrPeriod = 0
        BY <1>2, TypeIs
      <4> HIDE DEF type, n
      <4> QED
        BY <1>3, <1>5, <1>7, <4>1
    <3> HIDE DEF n
    <3> QED
      BY <1>9, <3>1, <3>2 DEF Coded
  <2>3. \A i \in 1 .. n : i \in 1 .. m \/ i = n
    BY <1>3
  <2> QED
    BY <2>1, <2>2, <2>3
<1>11. ASSUME NEW i \in 1 .. n, n - i < setup.surfaces
       PROVE  surface'[(F + i - 1) % setup.surfaces] = B + i
  <2>1. CASE i = n
    <3>1. (F + i - 1) % setup.surfaces = slot
      BY <1>5, <2>1
    <3>2. surface'[slot] = count + 1
      BY <1>1, <1>2, <1>6
    <3> HIDE DEF slot, n
    <3> QED
      BY <1>5, <2>1, <3>1, <3>2
  <2>2. CASE i # n
    <3> DEFINE a == F + i - 1
               s == a % setup.surfaces
    <3>1. i \in 1 .. m /\ m - i < setup.surfaces /\ a \in Nat /\ a < encoding
          /\ encoding - a < setup.surfaces
      BY <1>2, <1>3, <1>4, <1>5, <1>11, <2>2
    <3>2. s # slot
      <4>1. setup.surfaces \in Nat \ {0} /\ a \in Nat /\ encoding \in Nat /\ a < encoding
            /\ setup.surfaces \in Nat
        BY <1>2, <1>4, <3>1
      <4>2. ~(encoding - a >= setup.surfaces)
        BY <3>1, <4>1
      <4> HIDE DEF a
      <4> QED
        BY <4>1, <4>2, SameRemainder
    <3>3. surface'[s] = surface[s]
      <4>1. s \in Gop!Slots
        <5>1. s \in 0 .. setup.surfaces - 1
          <6>1. setup.surfaces \in Nat \ {0} /\ a \in Nat
            BY <1>4, <3>1
          <6> HIDE DEF a
          <6> QED
            BY <6>1, NextModulo
        <5> QED
          BY <5>1 DEF Gop!Slots
      <4> HIDE DEF s, slot
      <4> QED
        BY <1>1, <1>2, <3>2, <4>1
    <3>4. surface[s] = B + i
      BY <1>2, <3>1
    <3> QED
      BY <3>3, <3>4
  <2> QED
    BY <2>1, <2>2
<1>12. surface' \in [Gop!Slots' -> Nat]
  <2>1. count + 1 \in Nat
    BY <1>2
  <2> HIDE DEF slot
  <2> QED
    BY <1>1, <1>2, <1>6, <1>8, <2>1
<1>13. \A L \in 1 .. n : LastOf(t, L, n) =>
         Known(setup, t, F, refs', idrDisplay', pocRef', frameNum', L, n)
  BY <1>9
<1>14. /\ setup' \in Setups /\ encoding' \in Nat /\ count' \in Nat /\ open' \in BOOLEAN
       /\ IsSequence(stream') /\ F' \in Nat /\ B' \in Nat
       /\ (setup'.codec = "avc" => F' = 0)
  BY <1>1, <1>2, <1>3, <1>5 DEF t
<1>15. \A i \in 1 .. Len(stream') : Coded(stream', setup', F', B', i)
  BY <1>1, <1>3, <1>5, <1>10 DEF t
<1>16. \A L \in 1 .. Len(stream') : LastOf(stream', L, Len(stream')) => Knows(L, Len(stream))'
  <2> HIDE DEF n
  <2>1. \A L \in 1 .. n : Knows(L, Len(stream))'
          <=> Known(setup, t, F, refs', idrDisplay', pocRef', frameNum', L, n)
    BY <1>1, <1>3, <1>5 DEF Knows, t, F
  <2> QED
    BY <1>3, <1>13, <2>1 DEF t
<1>17. \A i \in 1 .. Len(stream') : Len(stream') - i < setup'.surfaces =>
         surface'[(F' + i - 1) % setup'.surfaces] = B' + i
  <2> HIDE DEF n
  <2> QED
    BY <1>1, <1>3, <1>5, <1>11 DEF t
<1> QED
  BY <1>12, <1>14, <1>15, <1>16, <1>17 DEF GopInvariant, F, B

LEMMA GopInvariantHolds ==
  Spec => []GopInvariant
<1>1. Init => GopInvariant
  <2> SUFFICES ASSUME Init PROVE GopInvariant
    OBVIOUS
  <2>1. /\ setup \in Setups /\ open = TRUE /\ encoding = 0 /\ count = 0
        /\ surface = [s \in Gop!Slots |-> 0] /\ stream = <<>>
    BY DEF Init, Gop!Init
  <2>2. IsSequence(<<>>) /\ Len(<<>>) = 0
    BY DEF IsSequence
  <2>3. From = 0 /\ Before = 0
    <3>1. encoding = 0 /\ count = 0 /\ Len(stream) = 0
      BY <2>1, <2>2
    <3> QED
      BY <3>1 DEF From, Before
  <2>4. surface \in [Gop!Slots -> Nat]
    BY <2>1
  <2>5. 1 .. Len(stream) = {}
    BY <2>1, <2>2
  <2> QED
    BY <2>1, <2>2, <2>3, <2>4, <2>5 DEF GopInvariant
<1>2. GopInvariant /\ [Next]_vars => GopInvariant'
  <2> SUFFICES ASSUME GopInvariant, [Next]_vars PROVE GopInvariant'
    OBVIOUS
  <2>1. CASE UNCHANGED gopVars
    <3>1. From' = From /\ Before' = Before /\ Gop!Slots' = Gop!Slots
      BY <2>1 DEF gopVars, From, Before, Gop!Slots
    <3>2. \A L : Knows(L, Len(stream))' <=> Knows(L, Len(stream))
      BY <2>1, <3>1 DEF gopVars, Knows
    <3> QED
      BY <2>1, <3>1, <3>2 DEF GopInvariant, gopVars
  <2>2. CASE Gop!EncodePicture
    BY <2>2, EncodeKeepsGop
  <2>3. CASE Gop!CloseEncoder
    <3>1. /\ UNCHANGED <<setup, encoding, idrDisplay, frameNum, pocRef, refs, count, stream>>
          /\ open' = FALSE /\ surface' = [s \in Gop!Slots |-> 0]
      BY <2>3 DEF Gop!CloseEncoder, Gop!state
    <3>2. From' = From /\ Before' = Before /\ Gop!Slots' = Gop!Slots
      BY <3>1 DEF From, Before, Gop!Slots
    <3>3. \A L : Knows(L, Len(stream))' <=> Knows(L, Len(stream))
      BY <3>1, <3>2 DEF Knows
    <3> QED
      BY <3>1, <3>2, <3>3 DEF GopInvariant
  <2>4. CASE Gop!OpenEncoder
    <3>1. /\ stream' = <<>> /\ setup' = setup /\ surface' = surface /\ count' = count
          /\ open' = TRUE
          /\ encoding' = IF setup.codec = "avc" THEN 0 ELSE encoding
      BY <2>4 DEF Gop!OpenEncoder, Gop!Fresh
    <3>2. IsSequence(<<>>) /\ Len(<<>>) = 0
      BY DEF IsSequence
    <3>3. setup \in Setups /\ encoding \in Nat /\ count \in Nat
          /\ surface \in [Gop!Slots -> Nat] /\ Gop!Slots' = Gop!Slots
      BY <3>1 DEF GopInvariant, Gop!Slots
    <3>4. From' = encoding' /\ Before' = count
      BY <3>1, <3>2, <3>3 DEF From, Before
    <3> QED
      BY <3>1, <3>2, <3>3, <3>4 DEF GopInvariant
  <2> QED
    BY <2>1, <2>2, <2>3, <2>4
    DEF Next, AudioNext, TimesNext, PiecesNext, GopNext, Gop!Next, vars
<1> QED
  BY <1>1, <1>2, PTL DEF Spec
-----------------------------------------------------------------------------
(* What the decoder has when it decodes a picture that is not an IDR one.  *)
Kept(n, L) == IF setup.codec = "avc" THEN Many(setup, n - L) ELSE 1

LEMMA WindowIs ==
  ASSUME GopInvariant, NEW n \in 1 .. Len(stream), NEW L, LastOf(stream, L, n),
         stream[n].type # "IDR"
  PROVE  /\ L \in 1 .. n - 1
         /\ Kept(n, L) \in 1 .. n - L /\ Kept(n, L) <= setup.numRefs
         /\ Gop!Window(n) = {stream[n - i].pic : i \in 1 .. Kept(n, L)}
<1> DEFINE k == Kept(n, L)
           size == IF setup.codec = "avc" THEN setup.numRefs ELSE setup.activeRefs
           low == IF n - size > L THEN n - size ELSE L
<1>1. setup \in Setups /\ n \in Nat \ {0}
  <2>1. Len(stream) \in Nat
    BY OneMore DEF GopInvariant
  <2> QED
    BY <2>1 DEF GopInvariant
<1>2. setup.numRefs \in Nat \ {0} /\ setup.codec \in {"avc", "hevc"}
      /\ (setup.codec = "hevc" => setup.activeRefs = 1)
  BY <1>1, SetupFacts
<1>3. LastOf(stream, L, n - 1)
  <2>1. n \in Nat /\ n > 0
    BY <1>1
  <2> QED
    BY <2>1, LastBefore
<1>4. L \in 1 .. n - 1
  BY <1>3 DEF LastOf
<1>5. Gop!LastIdr(n - 1) = L
  <2> DEFINE K == Gop!LastIdr(n - 1)
  <2>1. n - 1 \in Nat
    BY <1>1
  <2>2. stream[L].type = "IDR"
    BY <1>3 DEF LastOf
  <2>3. LastOf(stream, K, n - 1)
    BY <1>4, <2>1, <2>2, LastIdrIs
  <2> HIDE DEF K
  <2>4. K = L
    BY <1>3, <2>1, <2>3, OneLast
  <2> QED
    BY <2>4 DEF K
<1>6. k \in 1 .. n - L /\ k <= setup.numRefs /\ low = n - k /\ low \in 1 .. n - 1
  BY <1>1, <1>2, <1>4 DEF Kept, Many
<1>7. Gop!Window(n) = {stream[i].pic : i \in low .. n - 1}
  BY <1>5, <1>6 DEF Gop!Window
<1> HIDE DEF k, low
<1>8. \A i : i \in low .. n - 1 => n - i \in 1 .. k /\ n - (n - i) = i
  BY <1>1, <1>4, <1>6
<1>9. \A i : i \in 1 .. k => n - i \in low .. n - 1
  BY <1>1, <1>4, <1>6
<1>10. {stream[i].pic : i \in low .. n - 1} = {stream[n - i].pic : i \in 1 .. k}
  <2>1. ASSUME NEW x \in {stream[i].pic : i \in low .. n - 1}
        PROVE  x \in {stream[n - i].pic : i \in 1 .. k}
    <3>1. PICK i \in low .. n - 1 : x = stream[i].pic
      OBVIOUS
    <3> DEFINE j == n - i
    <3>2. j \in 1 .. k /\ n - j = i
      BY <1>8
    <3> HIDE DEF j
    <3> QED
      BY <3>1, <3>2
  <2>2. ASSUME NEW x \in {stream[n - i].pic : i \in 1 .. k}
        PROVE  x \in {stream[i].pic : i \in low .. n - 1}
    <3>1. PICK i \in 1 .. k : x = stream[n - i].pic
      OBVIOUS
    <3> QED
      BY <1>9, <3>1
  <2> QED
    BY <2>1, <2>2
<1> QED
  BY <1>4, <1>6, <1>7, <1>10 DEF k

(* What a decodable picture is.                                            *)
LEMMA DecodableIs ==
  ASSUME GopInvariant, NEW n \in Gop!Decodable
  PROVE  /\ n \in 1 .. Len(stream) /\ n \in Nat \ {0} /\ Gop!LastIdr(n) \in 1 .. n
         /\ LastOf(stream, Gop!LastIdr(n), n)
         /\ CodedAfter(stream, setup, Gop!LastIdr(n), n)
         /\ \A L : LastOf(stream, L, n) => L = Gop!LastIdr(n)
<1>1. Len(stream) \in Nat /\ DOMAIN stream = 1 .. Len(stream)
  <2>1. PICK S : stream \in Seq(S)
    BY DEF GopInvariant, IsSequence
  <2> QED
    BY <2>1, LenProperties
<1>2. n \in 1 .. Len(stream) /\ n \in Nat \ {0} /\ Gop!LastIdr(n) > 0
  BY <1>1 DEF Gop!Decodable
<1>3. Gop!LastIdr(n) \in 1 .. n /\ LastOf(stream, Gop!LastIdr(n), n)
  <2>1. n \in Nat
    BY <1>2
  <2>2. ~(Gop!LastIdr(n) = 0)
    BY <1>2
  <2> QED
    BY <2>1, <2>2, LastIdrIs
<1>4. CodedAfter(stream, setup, Gop!LastIdr(n), n)
  <2> DEFINE L == Gop!LastIdr(n)
  <2>1. L \in 1 .. n /\ LastOf(stream, L, n) /\ Coded(stream, setup, From, Before, n)
    BY <1>2, <1>3 DEF GopInvariant
  <2> HIDE DEF L
  <2>2. CodedAfter(stream, setup, L, n)
    BY <2>1 DEF Coded
  <2> QED
    BY <2>2 DEF L
<1>5. ASSUME NEW L, LastOf(stream, L, n) PROVE L = Gop!LastIdr(n)
  <2> DEFINE K == Gop!LastIdr(n)
  <2>1. n \in Nat /\ LastOf(stream, K, n)
    BY <1>2, <1>3
  <2> HIDE DEF K
  <2>2. L = K
    BY <1>5, <2>1, OneLast
  <2> QED
    BY <2>2 DEF K
<1> QED
  BY <1>2, <1>3, <1>4, <1>5

(* The pictures that are named, those that are kept, and their surfaces.   *)
LEMMA ListNames ==
  ASSUME GopInvariant, NEW n \in Gop!Decodable, stream[n].type = "P"
  PROVE  LET k == Kept(n, Gop!LastIdr(n))
         IN  /\ k \in Nat /\ k < n
             /\ stream[n].list = [i \in 1 .. k |-> stream[n - i].pic]
             /\ Gop!Window(n) = {stream[n - i].pic : i \in 1 .. k}
<1> DEFINE L == Gop!LastIdr(n)
           k == Kept(n, L)
<1>1. n \in 1 .. Len(stream) /\ n \in Nat /\ LastOf(stream, L, n) /\ stream[n].type # "IDR"
      /\ CodedAfter(stream, setup, L, n)
  BY DecodableIs
<1> HIDE DEF L
<1>2. L \in 1 .. n - 1 /\ k \in 1 .. n - L
      /\ Gop!Window(n) = {stream[n - i].pic : i \in 1 .. k}
  BY <1>1, WindowIs
<1>3. stream[n].list = [i \in 1 .. k |-> stream[n - i].pic]
  <2>1. CASE setup.codec = "avc"
    BY <1>1, <2>1 DEF CodedAfter, Kept
  <2>2. CASE setup.codec # "avc"
    <3>1. stream[n].list = <<stream[n - 1].pic>> /\ k = 1
      BY <1>1, <2>2 DEF CodedAfter, Kept
    <3> DEFINE x == stream[n - 1].pic
               one == [i \in 1 .. 1 |-> stream[n - i].pic]
    <3>2. one = [i \in 1 .. 1 |-> x]
      OBVIOUS
    <3> HIDE DEF x, one, k
    <3>3. [i \in 1 .. 1 |-> x] = <<x>>
      OBVIOUS
    <3>4. [i \in 1 .. k |-> stream[n - i].pic] = one
      BY <3>1 DEF one
    <3>5. stream[n].list = <<x>>
      BY <3>1 DEF x
    <3> QED
      BY <3>2, <3>3, <3>4, <3>5
  <2> QED
    BY <2>1, <2>2
<1> QED
  BY <1>1, <1>2, <1>3 DEF L

LEMMA ReferencesDecoded ==
  ASSUME GopInvariant PROVE Gop!RefsAreDecoded
<1> SUFFICES ASSUME NEW n \in Gop!Decodable
             PROVE  /\ \A i \in DOMAIN stream[n].list : stream[n].list[i] \in Gop!Window(n)
                    /\ \A i \in DOMAIN stream[n].kept :
                         /\ stream[n].held[i] = stream[n].kept[i].id
                         /\ stream[n].kept[i].slot # stream[n].pic.slot
  BY DEF Gop!RefsAreDecoded
<1> DEFINE L == Gop!LastIdr(n)
<1>1. n \in 1 .. Len(stream) /\ n \in Nat /\ LastOf(stream, L, n) /\ L \in 1 .. n
      /\ CodedAfter(stream, setup, L, n)
  BY DecodableIs
<1>2. setup \in Setups /\ From \in Nat /\ Len(stream) \in Nat
      /\ \A i \in 1 .. Len(stream) : stream[i].pic.slot = (From + i - 1) % setup.surfaces
  BY OneMore DEF GopInvariant, Coded
<1>3. setup.numRefs \in Nat \ {0} /\ setup.surfaces \in Nat \ {0}
      /\ setup.numRefs < setup.surfaces
  BY <1>2, SetupFacts
<1>4. ASSUME NEW i \in DOMAIN stream[n].list PROVE stream[n].list[i] \in Gop!Window(n)
  <2>1. CASE stream[n].type = "P"
    <3> DEFINE k == Kept(n, L)
    <3>1. stream[n].list = [j \in 1 .. k |-> stream[n - j].pic]
          /\ Gop!Window(n) = {stream[n - j].pic : j \in 1 .. k}
      BY <2>1, ListNames
    <3> HIDE DEF k
    <3>2. DOMAIN stream[n].list = 1 .. k
      BY <3>1
    <3> QED
      BY <1>4, <3>1, <3>2
  <2>2. CASE stream[n].type # "P"
    <3>1. stream[n].list = <<>>
      BY <1>1, <2>2 DEF CodedAfter
    <3>2. DOMAIN <<>> = {}
      OBVIOUS
    <3> QED
      BY <1>4, <3>1, <3>2
  <2> QED
    BY <2>1, <2>2
<1> DEFINE k == Many(setup, n - L)
<1>5. ASSUME NEW i \in DOMAIN stream[n].kept
      PROVE  /\ stream[n].held[i] = stream[n].kept[i].id
             /\ stream[n].kept[i].slot # stream[n].pic.slot
  <2>1. /\ stream[n].kept = [j \in 1 .. k |-> stream[n - j].pic]
        /\ stream[n].held = [j \in 1 .. k |-> stream[n - j].pic.id]
    BY <1>1 DEF CodedAfter
  <2>2. k \in Nat /\ k <= n - L /\ k <= setup.numRefs
    BY <1>1, <1>3 DEF Many
  <2> HIDE DEF k
  <2>3. i \in 1 .. k
    BY <1>5, <2>1
  <2>4. stream[n].kept[i] = stream[n - i].pic /\ stream[n].held[i] = stream[n - i].pic.id
    BY <2>1, <2>3
  <2> DEFINE a == From + (n - i) - 1
             b == From + n - 1
             F == From
  <2>5. n - i \in 1 .. Len(stream) /\ a \in Nat /\ b \in Nat /\ a < b
        /\ ~(b - a >= setup.surfaces)
    <3>0. F \in Nat /\ a = F + (n - i) - 1 /\ b = F + n - 1
      BY <1>2
    <3>1. i \in Nat /\ i >= 1 /\ i <= n - L /\ i <= setup.numRefs
      <4>1. n \in Nat /\ L \in Nat /\ setup.numRefs \in Nat /\ k \in Nat /\ i \in 1 .. k
            /\ k <= n - L /\ k <= setup.numRefs
        BY <1>1, <1>3, <2>2, <2>3
      <4> HIDE DEF L
      <4> QED
        BY <4>1
    <3>2. L \in 1 .. n
      BY <1>1
    <3> HIDE DEF L, F, a, b
    <3> QED
      BY <1>1, <1>2, <1>3, <3>0, <3>1, <3>2
  <2>6. stream[n - i].pic.slot = a % setup.surfaces /\ stream[n].pic.slot = b % setup.surfaces
    BY <1>1, <1>2, <2>5
  <2> HIDE DEF a, b
  <2>7. a % setup.surfaces # b % setup.surfaces
    BY <1>3, <2>5, SameRemainder
  <2> QED
    BY <2>4, <2>6, <2>7
<1> QED
  BY <1>4, <1>5

LEMMA ListAsDecoder ==
  ASSUME GopInvariant PROVE Gop!ListIsDecoders
<1> SUFFICES ASSUME NEW n \in Gop!Decodable, stream[n].type = "P"
             PROVE  /\ Gop!Range(stream[n].list) = Gop!Window(n)
                    /\ \A i, j \in DOMAIN stream[n].list :
                         i < j => stream[n].list[i].id > stream[n].list[j].id
  BY DEF Gop!ListIsDecoders
<1> DEFINE k == Kept(n, Gop!LastIdr(n))
           list == stream[n].list
<1>1. /\ k \in Nat /\ k < n
      /\ list = [i \in 1 .. k |-> stream[n - i].pic]
      /\ Gop!Window(n) = {stream[n - i].pic : i \in 1 .. k}
  BY ListNames
<1>2. n \in 1 .. Len(stream) /\ n \in Nat /\ Len(stream) \in Nat /\ Before \in Nat
      /\ \A i \in 1 .. Len(stream) : stream[i].pic.id = Before + i
  BY DecodableIs, OneMore DEF GopInvariant, Coded
<1> HIDE DEF k, list
<1>3. DOMAIN list = 1 .. k
  BY <1>1
<1>4. Gop!Range(list) = Gop!Window(n)
  BY <1>1, <1>3 DEF Gop!Range
<1>5. ASSUME NEW i \in 1 .. k, NEW j \in 1 .. k, i < j PROVE list[i].id > list[j].id
  <2>1. n - i \in 1 .. Len(stream) /\ n - j \in 1 .. Len(stream)
    BY <1>1, <1>2
  <2>2. list[i].id = Before + (n - i) /\ list[j].id = Before + (n - j)
    BY <1>1, <1>2, <2>1
  <2> DEFINE B == Before
  <2>3. B \in Nat /\ list[i].id = B + (n - i) /\ list[j].id = B + (n - j)
    BY <1>2, <2>2
  <2> HIDE DEF B
  <2> QED
    BY <1>2, <1>5, <2>3
<1> QED
  BY <1>3, <1>4, <1>5 DEF list

(* What the decoder counts from the coded bits.                            *)
LEMMA CountAsDecoder ==
  ASSUME GopInvariant PROVE Gop!PocIsDecoders
<1> SUFFICES ASSUME NEW n \in Gop!Decodable
             PROVE  /\ Gop!DecodedPoc(n) = stream[n].pic.poc
                    /\ stream[n].pic.poc = n - Gop!LastIdr(n)
  BY DEF Gop!PocIsDecoders
<1> DEFINE L == Gop!LastIdr(n)
           c == setup.codedPoc
           Step(f, i) == IF i = L THEN <<0, 0>> ELSE Counted(c, f[i - 1], stream[i].lsb)
           D == CHOOSE f : f = [i \in L .. n |-> Step(f, i)]
           direct == [i \in L .. n |-> <<(i - L) - ((i - L) % c), (i - L) % c>>]
           Right == {d \in Nat : L + d \in L .. n =>
                       /\ D[L + d][1] \in Int /\ D[L + d][1] + D[L + d][2] = d
                       /\ D[L + d][2] = d % c}
<1>1. /\ n \in 1 .. Len(stream) /\ n \in Nat /\ L \in 1 .. n
      /\ LastOf(stream, L, n) /\ CodedAfter(stream, setup, L, n)
  BY DecodableIs
<1>2. c \in Nat /\ c > 1
  <2>1. setup \in Setups
    BY DEF GopInvariant
  <2> QED
    BY <2>1, SetupFacts
<1>3. Gop!DecodedPoc(n) = D[n][1] + D[n][2]
  BY DEF Gop!DecodedPoc, Counted
<1> HIDE DEF L, c
<1>4. ASSUME NEW i \in L .. n PROVE stream[i].lsb = (i - L) % c
  <2>1. i \in 1 .. Len(stream) /\ L \in 1 .. i /\ LastOf(stream, L, i)
    BY <1>1, LastOfPart, OneMore DEF GopInvariant
  <2>2. CodedAfter(stream, setup, L, i)
    BY <2>1 DEF GopInvariant, Coded
  <2> QED
    BY <2>2 DEF CodedAfter, c
<1>5. \A i \in L .. n : Step(direct, i) = direct[i]
  <2> SUFFICES ASSUME NEW i \in L .. n PROVE Step(direct, i) = direct[i]
    OBVIOUS
  <2>1. CASE i = L
    BY <1>1, <1>2, <2>1
  <2>2. CASE i # L
    <3> DEFINE d == i - 1 - L
               p == direct[i - 1]
               q == Counted(c, p, (d + 1) % c)
    <3>1. d \in Nat /\ d + 1 = i - L /\ i - 1 \in L .. n
      BY <1>1, <2>2
    <3>2. p = <<d - (d % c), d % c>>
      BY <3>1
    <3>3. d % c \in Nat
      BY <1>2, <3>1
    <3>4. p[1] \in Int /\ p[1] + p[2] = d /\ p[2] = d % c
      BY <3>1, <3>2, <3>3
    <3> HIDE DEF d, p, direct
    <3>5. q[1] \in Int /\ q[1] + q[2] = d + 1 /\ q[2] = (d + 1) % c
      BY <1>2, <3>1, <3>4, CountIs
    <3>6. q = <<q[1], q[2]>>
      BY DEF Counted
    <3>7. (d + 1) % c \in Nat
      BY <1>2, <3>1
    <3> HIDE DEF q
    <3>8. q[1] = (d + 1) - ((d + 1) % c)
      BY <3>1, <3>5, <3>7
    <3>9. q = <<(d + 1) - ((d + 1) % c), (d + 1) % c>>
      BY <3>5, <3>6, <3>8
    <3>10. Step(direct, i) = q
      BY <1>4, <2>2, <3>1 DEF p, q
    <3> QED
      BY <3>1, <3>9, <3>10 DEF direct
  <2> QED
    BY <2>1, <2>2
<1>6. D = [i \in L .. n |-> Step(D, i)]
  <2>1. direct = [i \in L .. n |-> Step(direct, i)]
    <3>1. direct = [i \in L .. n |-> direct[i]]
      OBVIOUS
    <3> HIDE DEF direct
    <3> QED
      BY <1>5, <3>1
  <2> HIDE DEF direct, Step
  <2> QED
    BY <2>1
<1>7. \A i \in L .. n : D[i] = Step(D, i)
  <2> HIDE DEF D, Step
  <2> QED
    BY <1>6
<1> HIDE DEF D
<1>8. Right = Nat
  <2>1. 0 \in Right
    <3>1. D[L] = <<0, 0>> /\ L + 0 = L
      BY <1>1, <1>7
    <3>2. 0 % c = 0
      BY <1>2
    <3> QED
      BY <3>1, <3>2
  <2>2. ASSUME NEW d \in Right PROVE d + 1 \in Right
    <3>1. d \in Nat
      OBVIOUS
    <3>2. SUFFICES ASSUME L + (d + 1) \in L .. n
                   PROVE  /\ D[L + (d + 1)][1] \in Int
                          /\ D[L + (d + 1)][1] + D[L + (d + 1)][2] = d + 1
                          /\ D[L + (d + 1)][2] = (d + 1) % c
      BY <3>1
    <3> DEFINE p == D[L + d]
               q == Counted(c, p, (d + 1) % c)
    <3>3. L + d \in L .. n
      BY <1>1, <3>1, <3>2
    <3>4. p[1] \in Int /\ p[1] + p[2] = d /\ p[2] = d % c
      BY <3>3
    <3>5. q[1] \in Int /\ q[1] + q[2] = d + 1 /\ q[2] = (d + 1) % c
      <4> HIDE DEF p
      <4> QED
        BY <1>2, <3>1, <3>4, CountIs
    <3>6. D[L + (d + 1)] = q
      <4> DEFINE j == L + (d + 1)
      <4>1. j \in L .. n /\ j # L /\ j - 1 = L + d /\ j - L = d + 1
        BY <1>1, <3>1, <3>2
      <4> HIDE DEF j
      <4>2. stream[j].lsb = (d + 1) % c
        BY <1>4, <4>1
      <4>3. D[j] = Step(D, j)
        BY <1>7, <4>1
      <4>4. D[j] = q
        BY <4>1, <4>2, <4>3
      <4> QED
        BY <4>4 DEF j
    <3> HIDE DEF q
    <3> QED
      BY <3>5, <3>6
  <2>3. Right \in SUBSET Nat
    OBVIOUS
  <2> HIDE DEF Right
  <2> QED
    BY <2>1, <2>2, <2>3, SetInduction
<1>9. D[n][1] + D[n][2] = n - L
  <2> DEFINE d == n - L
  <2>1. d \in Nat /\ L + d = n /\ n \in L .. n
    BY <1>1
  <2>2. d \in Right
    <3> HIDE DEF Right, d
    <3> QED
      BY <1>8, <2>1
  <2> HIDE DEF d
  <2>3. D[L + d][1] + D[L + d][2] = d
    BY <2>1, <2>2
  <2> QED
    BY <2>1, <2>3 DEF d
<1> QED
  BY <1>1, <1>3, <1>9 DEF CodedAfter, L

(* A session of AVC begins with an IDR picture.                            *)
LEMMA BeginsWithIdr ==
  ASSUME GopInvariant PROVE Gop!AvcStartsWithIdr
<1> SUFFICES ASSUME setup.codec = "avc", stream # <<>> PROVE stream[1].type = "IDR"
  BY DEF Gop!AvcStartsWithIdr, Gop!StartsWithIdr
<1>1. Len(stream) \in Nat /\ 1 \in 1 .. Len(stream)
  <2>1. PICK S : stream \in Seq(S)
    BY DEF GopInvariant, IsSequence
  <2>2. Len(stream) \in Nat /\ Len(stream) # 0
    BY <2>1, LenProperties, EmptySeq
  <2> QED
    BY <2>2
<1>2. From = 0 /\ setup \in Setups /\ Coded(stream, setup, From, Before, 1)
  BY <1>1 DEF GopInvariant
<1>3. setup.idrPeriod \in Nat \ {0}
  BY <1>2, SetupFacts
<1>4. 0 + 1 - 1 = 0 /\ 0 % setup.idrPeriod = 0
  BY <1>3
<1> QED
  BY <1>2, <1>4 DEF Coded

(* The GPU encoders, for every setup in which there are fewer references   *)
(* than surfaces and frame_num does not wrap within an IDR period: each    *)
(* picture refers to what the decoder has kept, in the decoder's order,    *)
(* none of it is overwritten while it is needed, the decoder counts the    *)
(* encoder's order from the bits, and AVC starts anew in a new session     *)
(* (encoding2display_order, update_RefPicList, update_ReferenceFrames and  *)
(* calc_poc of avc/vaapi.c and hevc/hevcencode.c).  For HEVC that is said  *)
(* from an IDR picture to the end of its sequence, half of the IDR period. *)
THEOREM ReferencesOfDecoder ==
  Spec => []DecoderAgrees
<1>1. GopInvariant => DecoderAgrees
  BY BeginsWithIdr, ReferencesDecoded, ListAsDecoder, CountAsDecoder DEF DecoderAgrees
<1> QED
  BY <1>1, GopInvariantHolds, PTL
=============================================================================
