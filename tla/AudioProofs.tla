----------------------------- MODULE AudioProofs -----------------------------
(***************************************************************************)
(* The audio path, for any number of PCM and bitstream encoders, any size  *)
(* of block, of codec frame and of coded frame, any threshold, any gaps    *)
(* and any number of blocks, whatever fails and whenever obe_close begins: *)
(* each encoder codes all samples in order and with the right time, and a  *)
(* frame of the card has one owner.                                        *)
(***************************************************************************)
EXTENDS MCEncoders, QueueLemmas, FiniteSetTheorems

-----------------------------------------------------------------------------
(* A frame of the card, a sample, and what the encoders' fields may hold.  *)
Frames == [k : Nat \ {0}, pair : Nat]
Sample == Nat \X Nat
CodedFrame == [pts : Nat, samples : Seq(Sample)]
EncoderState ==
  [pc : {"open", "wait", "take", "code", "ended"}, last : Nat,
   cur : Nat \cup {Audio!None}, pcm : Seq(Sample), coded : Seq(Sample), num : Nat]

AudioTyped ==
  /\ times \in Seq(Nat) /\ due \in Seq(Frames)
  /\ filterQ \in Queue(Frames, {"filter"})
  /\ fpc \in Int /\ Audio!Gone <= fpc /\ fpc <= Audio!Carries
  /\ carried \in SUBSET Frames /\ freed \in SUBSET Frames
  /\ encQ \in [Audio!E -> Queue(Frames, Audio!E)]
  /\ enc \in [Audio!E -> EncoderState]
  /\ DOMAIN muxed = Audio!E
  /\ \A e \in Audio!Pcm : muxed[e] \in Seq(CodedFrame)

(* The thread of the filter, what the others have in hand, and what the    *)
(* card has still to queue.                                                *)
AudioHands ==
  /\ 1 <= fpc /\ fpc <= Len(Encoders) + 1 => filterQ.items # <<>>
  /\ 2 <= fpc /\ fpc <= Len(Encoders) + 1 => Head(filterQ.items).pair = 0
  /\ fpc = Audio!Carries <=> carried # {}
  /\ \A f \in carried : carried = {f} /\ Audio!Takers(f) # {}
  /\ \A e \in Audio!E : enc[e].pc = "take" => encQ[e].items # <<>>
  /\ \A e \in Audio!E \ Audio!Pcm : enc[e].pc # "code"
  /\ \A i \in 1 .. Len(due) : due[i].pair # 0 /\ due[i].k <= Len(times)

(* The PCM blocks in the queue of the filter are those after the r-th.     *)
WaitingAfter(r, T, items) ==
  /\ r \in 0 .. Len(T)
  /\ \A i \in 1 .. Len(items) :
       items[i].k <= Len(T) /\ (items[i].pair = 0 => r < items[i].k)
  /\ \A b \in r + 1 .. Len(T) :
       \E i \in 1 .. Len(items) : items[i] = [k |-> b, pair |-> 0]
  /\ \A i, j \in 1 .. Len(items) :
       i < j /\ items[i].pair = 0 /\ items[j].pair = 0 => items[i].k < items[j].k

(* The filter has given e a copy of the block at the head.                 *)
HasCopy(e, items, pc) ==
  /\ items # <<>> /\ Head(items).pair = 0
  /\ \E i \in DOMAIN Encoders : Encoders[i] = e /\ i < pc
  /\ pc # Audio!Carries

-----------------------------------------------------------------------------
(* One PCM encoder: T are the capture times, items its queue, s its state, *)
(* mx what it gave the muxer, n the blocks it was given, m those it took.  *)
Copies(m, n) == [i \in 1 .. n - m |-> [k |-> m + i, pair |-> 0]]
Sent(mx) == Audio!FlattenSeq([i \in DOMAIN mx |-> mx[i].samples])
Held(s) == s.coded \o s.pcm
Queued(items) == Audio!FlattenSeq([i \in DOMAIN items |-> Audio!Samples(items[i].k)])
Given(mx, s, items) == Sent(mx) \o s.coded \o s.pcm \o Queued(items)

Restarts(T, e, b) == b = 1 \/ T[b] - T[b - 1] >= Threshold[e]
SinceRestart(T, e, b, r) ==
  /\ r \in 1 .. b /\ Restarts(T, e, r)
  /\ \A j \in r + 1 .. b : ~Restarts(T, e, j)

(* The time of sample x, counted from block r.                             *)
TimeFrom(T, r, x) == T[r] + (x[1] - r) * Block + x[2] - 1

Linked(T, e, x, y) ==
  \/ y = <<x[1], x[2] + 1>>
  \/ x[2] = Block /\ y = <<x[1] + 1, 1>>
  \/ /\ y[2] = 1 /\ x[1] < y[1]
     /\ \E b \in x[1] + 1 .. y[1] : Restarts(T, e, b)

Chained(T, e, p) == \A i \in 1 .. Len(p) - 1 : Linked(T, e, p[i], p[i + 1])

(* The blocks up to this one decide the time of the encoder.               *)
Reached(s, m) == IF s.pc = "take" THEN m + 1 ELSE m

(* The time is that of the first sample in hand, counted from the last     *)
(* block that restarted it; no restart lies between the samples in hand.   *)
OnTime(T, e, s, m) ==
  /\ (s.cur = Audio!None) <=> Reached(s, m) = 0
  /\ Len(s.coded) = s.num * CodecFrame[e]
  /\ Kind[e] = "mp2" => s.num < FramesPerPes[e]
  /\ Reached(s, m) = 0 => Held(s) = <<>>
  /\ Reached(s, m) > 0 =>
       /\ s.last = T[Reached(s, m)]
       /\ \E r \in 1 .. Reached(s, m) :
            /\ SinceRestart(T, e, Reached(s, m), r)
            /\ TimeFrom(T, r, <<m + 1, 1>>) = s.cur + Len(Held(s))
            /\ \A j \in 1 .. Len(Held(s)) :
                 /\ r <= Held(s)[j][1] /\ Held(s)[j][1] <= m
                 /\ TimeFrom(T, r, Held(s)[j]) = (s.cur + j) - 1

SentOnTime(T, e, mx, m) ==
  /\ \A j \in 1 .. Len(Sent(mx)) : Sent(mx)[j][1] <= m
  /\ \A i \in 1 .. Len(mx) :
       /\ mx[i].samples # <<>> /\ mx[i].samples[1][1] <= m
       /\ \E r \in 1 .. mx[i].samples[1][1] :
            /\ SinceRestart(T, e, mx[i].samples[1][1], r)
            /\ mx[i].pts = TimeFrom(T, r, mx[i].samples[1])

Flow(T, e, items, s, mx, n, m) ==
  /\ n \in 0 .. Len(T) /\ m \in 0 .. n /\ items = Copies(m, n)
  /\ s.pc = "take" => m < n
  /\ Chained(T, e, Given(mx, s, items))
  /\ \A j \in 1 .. Len(Given(mx, s, items)) : Given(mx, s, items)[j][1] <= n
  /\ n = 0 => Given(mx, s, items) = <<>>
  /\ n > 0 => /\ Given(mx, s, items) # <<>>
              /\ Given(mx, s, items)[Len(Given(mx, s, items))] = <<n, Block>>
  /\ s.pc # "ended" => OnTime(T, e, s, m)
  /\ SentOnTime(T, e, mx, m)

AudioFlows ==
  \E r \in Nat :
    /\ WaitingAfter(r, times, filterQ.items)
    /\ \A e \in Audio!Pcm : \E n, m \in 0 .. Len(times) :
         /\ Flow(times, e, encQ[e].items, enc[e], muxed[e], n, m)
         /\ fpc # Audio!Gone =>
              n = IF HasCopy(e, filterQ.items, fpc) THEN r + 1 ELSE r

-----------------------------------------------------------------------------
(* Where the frames of the card are: to be queued, in the queue of the     *)
(* filter, between two queues, released, or in that of a bitstream encoder.*)
OfCard(T) ==
  {f \in Frames : f.k \in 1 .. Len(T) /\ f.pair \in BitstreamPairs \cup {0}}

Once(s) == \A i, j \in 1 .. Len(s) : s[i] = s[j] => i = j
ItemsOf(s) == {s[i] : i \in 1 .. Len(s)}
OfEncoder(f) == {e \in Audio!E \ Audio!Pcm : f \in ItemsOf(encQ[e].items)}

AudioOwned ==
  /\ Once(due) /\ Once(filterQ.items)
  /\ \A e \in Audio!E \ Audio!Pcm : Once(encQ[e].items)
  /\ ItemsOf(due) \cap ItemsOf(filterQ.items) = {}
  /\ ItemsOf(due) \cap carried = {} /\ ItemsOf(due) \cap freed = {}
  /\ ItemsOf(filterQ.items) \cap carried = {}
  /\ ItemsOf(filterQ.items) \cap freed = {} /\ carried \cap freed = {}
  /\ \A f \in Frames :
       /\ OfEncoder(f) # {} => f \notin ItemsOf(due) \cup ItemsOf(filterQ.items) \cup carried \cup freed
       /\ \A e, d \in OfEncoder(f) : e = d
       /\ f \in OfCard(times) <=>
            f \in ItemsOf(due) \cup ItemsOf(filterQ.items) \cup carried \cup freed
            \/ OfEncoder(f) # {}

AudioInvariant == AudioTyped /\ AudioHands /\ AudioFlows /\ AudioOwned
-----------------------------------------------------------------------------
(* FlattenSeq of the community modules is a function that is defined by    *)
(* recursion on the index: it exists, and it is unique.                    *)
Folded(g, n, ss) ==
  g = [i \in 1 .. n |-> IF i = 1 THEN ss[i] ELSE g[i - 1] \o ss[i]]

LEMMA FoldedExists ==
  ASSUME NEW ss, NEW n \in Nat
  PROVE  \E g : Folded(g, n, ss)
<1> DEFINE P == {j \in Nat : \E g : Folded(g, j, ss)}
<1>1. 0 \in P
  <2>1. Folded([i \in 1 .. 0 |-> ss[i]], 0, ss)
    BY DEF Folded
  <2> QED
    BY <2>1
<1>2. ASSUME NEW j \in P PROVE j + 1 \in P
  <2>1. PICK g : Folded(g, j, ss)
    BY <1>2
  <2> DEFINE h == [i \in 1 .. j + 1 |->
                     IF i <= j THEN g[i] ELSE IF i = 1 THEN ss[i] ELSE g[i - 1] \o ss[i]]
  <2>2. j \in Nat /\ \A i \in 1 .. j : g[i] = IF i = 1 THEN ss[i] ELSE g[i - 1] \o ss[i]
    BY <1>2, <2>1 DEF Folded
  <2>3. ASSUME NEW i \in 1 .. j + 1
        PROVE  h[i] = IF i = 1 THEN ss[i] ELSE h[i - 1] \o ss[i]
    <3>1. CASE i <= j
      <4>1. h[i] = g[i] /\ (i # 1 => h[i - 1] = g[i - 1])
        BY <2>2, <3>1
      <4> QED
        BY <2>2, <3>1, <4>1
    <3>2. CASE i = j + 1
      <4>1. h[i] = IF i = 1 THEN ss[i] ELSE g[i - 1] \o ss[i]
        BY <2>2, <3>2
      <4>2. i # 1 => h[i - 1] = g[i - 1]
        BY <2>2, <3>2
      <4> QED
        BY <4>1, <4>2
    <3> QED
      BY <2>2, <3>1, <3>2
  <2>4. h = [i \in 1 .. j + 1 |-> h[i]]
    OBVIOUS
  <2> HIDE DEF h
  <2>5. Folded(h, j + 1, ss)
    BY <2>3, <2>4 DEF Folded
  <2> QED
    BY <2>2, <2>5
<1>3. P = Nat
  <2> HIDE DEF P
  <2>1. P \in SUBSET Nat
    BY DEF P
  <2> QED
    BY <1>1, <1>2, <2>1, SetInduction
<1> QED
  BY <1>3

SameUpTo(s, t, l) == \A i \in 1 .. l : s[i] = t[i]

LEMMA FoldedUnique ==
  ASSUME NEW ss, NEW tt, NEW n \in Nat, NEW k \in Nat, NEW g, NEW h,
         Folded(g, n, ss), Folded(h, k, tt),
         NEW l \in Nat, l <= n, l <= k, SameUpTo(ss, tt, l)
  PROVE  SameUpTo(g, h, l)
<1> DEFINE P == {j \in Nat : 1 <= j /\ j <= l => g[j] = h[j]}
<1>1. /\ \A i \in 1 .. n : g[i] = IF i = 1 THEN ss[i] ELSE g[i - 1] \o ss[i]
      /\ \A i \in 1 .. k : h[i] = IF i = 1 THEN tt[i] ELSE h[i - 1] \o tt[i]
  BY DEF Folded
<1>2. ASSUME NEW j \in P PROVE j + 1 \in P
  <2>1. SUFFICES ASSUME j + 1 <= l PROVE g[j + 1] = h[j + 1]
    BY <1>2
  <2>2. j \in Nat /\ j + 1 \in 1 .. n /\ j + 1 \in 1 .. k /\ j + 1 \in 1 .. l /\ (j + 1) - 1 = j
    BY <1>2, <2>1
  <2>3. /\ g[j + 1] = IF j + 1 = 1 THEN ss[j + 1] ELSE g[j] \o ss[j + 1]
        /\ h[j + 1] = IF j + 1 = 1 THEN tt[j + 1] ELSE h[j] \o tt[j + 1]
        /\ ss[j + 1] = tt[j + 1]
    BY <1>1, <2>2 DEF SameUpTo
  <2>4. j + 1 # 1 => g[j] = h[j]
    BY <1>2, <2>1, <2>2
  <2> QED
    BY <2>3, <2>4
<1>3. P = Nat
  <2>1. 0 \in P /\ P \in SUBSET Nat
    OBVIOUS
  <2> HIDE DEF P
  <2> QED
    BY <1>2, <2>1, SetInduction
<1> QED
  BY <1>3 DEF SameUpTo

LEMMA FlattenIs ==
  ASSUME NEW S, NEW ss \in Seq(S)
  PROVE  /\ Len(ss) = 0 => Audio!FlattenSeq(ss) = <<>>
         /\ Len(ss) > 0 => \E g : /\ Folded(g, Len(ss), ss)
                                 /\ Audio!FlattenSeq(ss) = g[Len(ss)]
<1> DEFINE f == CHOOSE g : g = [i \in 1 .. Len(ss) |->
                                  IF i = 1 THEN ss[i] ELSE g[i - 1] \o ss[i]]
<1>1. Len(ss) = 0 => ss = <<>>
  BY EmptySeq
<1>2. Audio!FlattenSeq(ss) = IF Len(ss) = 0 THEN ss ELSE f[Len(ss)]
  BY DEF Audio!FlattenSeq
<1>3. Len(ss) \in Nat
  BY LenProperties
<1>4. Folded(f, Len(ss), ss)
  BY <1>3, FoldedExists DEF Folded
<1> HIDE DEF f
<1> QED
  BY <1>1, <1>2, <1>3, <1>4

(* What the proofs use of it.                                              *)
LEMMA FlattenEmpty == Audio!FlattenSeq(<<>>) = <<>>
<1>1. <<>> \in Seq({}) /\ Len(<<>>) = 0
  BY EmptySeq
<1> QED
  BY <1>1, FlattenIs

LEMMA FlattenType ==
  ASSUME NEW S, NEW ss \in Seq(Seq(S))
  PROVE  Audio!FlattenSeq(ss) \in Seq(S)
<1> DEFINE n == Len(ss)
<1>1. n \in Nat /\ \A i \in 1 .. n : ss[i] \in Seq(S)
  BY LenProperties, ElementOfSeq
<1>2. CASE n = 0
  BY <1>2, FlattenIs, EmptySeq
<1>3. CASE n > 0
  <2>1. PICK g : Folded(g, n, ss) /\ Audio!FlattenSeq(ss) = g[n]
    BY <1>3, FlattenIs
  <2> DEFINE P == {j \in Nat : 1 <= j /\ j <= n => g[j] \in Seq(S)}
  <2>2. \A i \in 1 .. n : g[i] = IF i = 1 THEN ss[i] ELSE g[i - 1] \o ss[i]
    BY <2>1 DEF Folded
  <2> HIDE DEF n
  <2>3. ASSUME NEW j \in P PROVE j + 1 \in P
    <3>1. SUFFICES ASSUME j + 1 <= n PROVE g[j + 1] \in Seq(S)
      BY <2>3
    <3>2. j \in Nat /\ j + 1 \in 1 .. n /\ (j + 1) - 1 = j
      BY <1>1, <2>3, <3>1
    <3>3. g[j + 1] = (IF j + 1 = 1 THEN ss[j + 1] ELSE g[j] \o ss[j + 1]) /\ ss[j + 1] \in Seq(S)
      BY <1>1, <2>2, <3>2
    <3>4. j + 1 # 1 => g[j] \in Seq(S)
      BY <1>1, <2>3, <3>1, <3>2
    <3>5. j + 1 # 1 => g[j] \o ss[j + 1] \in Seq(S)
      BY <3>3, <3>4, ConcatProperties
    <3> QED
      BY <3>3, <3>5
  <2>4. P = Nat
    <3>1. 0 \in P /\ P \in SUBSET Nat
      OBVIOUS
    <3> HIDE DEF P
    <3> QED
      BY <2>3, <3>1, SetInduction
  <2>5. n \in P
    BY <1>1, <2>4
  <2> QED
    BY <1>1, <1>3, <2>1, <2>5
<1> QED
  BY <1>1, <1>2, <1>3

LEMMA FlattenAppend ==
  ASSUME NEW S, NEW ss \in Seq(Seq(S)), NEW x \in Seq(S)
  PROVE  Audio!FlattenSeq(Append(ss, x)) = Audio!FlattenSeq(ss) \o x
<1> DEFINE tt == Append(ss, x)
<1> DEFINE n == Len(ss)
<1>1. /\ tt \in Seq(Seq(S)) /\ Len(tt) = n + 1 /\ n \in Nat
      /\ \A i \in 1 .. n : tt[i] = ss[i]
      /\ tt[n + 1] = x
  BY AppendProperties, LenProperties
<1> HIDE DEF tt
<1>2. PICK h : Folded(h, n + 1, tt) /\ Audio!FlattenSeq(tt) = h[n + 1]
  BY <1>1, FlattenIs
<1>3. h[n + 1] = IF n + 1 = 1 THEN tt[n + 1] ELSE h[n] \o tt[n + 1]
  <2>1. \A i \in 1 .. n + 1 : h[i] = IF i = 1 THEN tt[i] ELSE h[i - 1] \o tt[i]
    BY <1>2 DEF Folded
  <2>2. n + 1 \in 1 .. n + 1 /\ (n + 1) - 1 = n
    BY <1>1
  <2> QED
    BY <2>1, <2>2
<1>4. CASE n = 0
  <2>1. Audio!FlattenSeq(ss) = <<>>
    BY <1>4, FlattenIs
  <2>2. <<>> \o x = x
    BY ConcatEmptySeq
  <2> QED
    BY <1>1, <1>2, <1>3, <1>4, <2>1, <2>2 DEF tt
<1>5. CASE n # 0
  <2>1. PICK g : Folded(g, n, ss) /\ Audio!FlattenSeq(ss) = g[n]
    BY <1>1, <1>5, FlattenIs
  <2>2. n \in 1 .. n /\ n <= n + 1 /\ n + 1 # 1
    BY <1>1, <1>5
  <2>3. \A i \in 1 .. n : g[i] = h[i]
    <3>1. SameUpTo(ss, tt, n)
      BY <1>1 DEF SameUpTo
    <3>2. SameUpTo(g, h, n)
      BY <1>1, <1>2, <2>1, <2>2, <3>1, FoldedUnique
    <3> QED
      BY <3>2 DEF SameUpTo
  <2> QED
    BY <1>1, <1>2, <1>3, <2>1, <2>2, <2>3 DEF tt
<1> QED
  BY <1>4, <1>5
-----------------------------------------------------------------------------
(* The constants.                                                          *)
LEMMA AudioConstants ==
  /\ Len(Encoders) \in Nat /\ DOMAIN Encoders = 1 .. Len(Encoders)
  /\ \A i \in 1 .. Len(Encoders) : Encoders[i] \in Audio!E
  /\ \A i, j \in 1 .. Len(Encoders) : Encoders[i] = Encoders[j] => i = j
  /\ \A e \in Audio!E : \E i \in 1 .. Len(Encoders) : Encoders[i] = e
  /\ "filter" \notin Audio!E
  /\ Block \in Nat /\ Block > 0 /\ MaxBlocks \in Nat /\ Gaps \subseteq Nat
  /\ IsFiniteSet(BitstreamPairs) /\ BitstreamPairs \subseteq Nat
  /\ 0 \notin BitstreamPairs
<1>1. Audio!ConstantsAreSound
  BY EncodersAssumption
<1>2. Encoders \in Seq(Audio!E)
  BY <1>1 DEF Audio!ConstantsAreSound
<1>3. Len(Encoders) \in Nat /\ DOMAIN Encoders = 1 .. Len(Encoders)
      /\ \A i \in 1 .. Len(Encoders) : Encoders[i] \in Audio!E
  BY <1>2, LenProperties, ElementOfSeq
<1>4. \A i, j \in 1 .. Len(Encoders) : Encoders[i] = Encoders[j] => i = j
  BY <1>1, <1>3 DEF Audio!ConstantsAreSound, Audio!IsInjective
<1>5. \A e \in Audio!E : \E i \in 1 .. Len(Encoders) : Encoders[i] = e
  BY <1>3 DEF Audio!E, Audio!Range
<1>6. "filter" \notin Audio!E /\ MaxBlocks \in Nat /\ Gaps \subseteq Nat
  BY <1>1 DEF Audio!ConstantsAreSound
<1>7. Block \in Nat /\ Block > 0
  <2>1. Block \in Nat \ {0}
    BY <1>1 DEF Audio!ConstantsAreSound
  <2> QED
    BY <2>1
<1>8. /\ IsFiniteSet(BitstreamPairs) /\ BitstreamPairs \subseteq Nat
      /\ 0 \notin BitstreamPairs
  <2>1. IsFiniteSet(BitstreamPairs) /\ BitstreamPairs \subseteq Nat \ {0}
    BY <1>1 DEF Audio!ConstantsAreSound, Audio!IsFiniteSet, IsFiniteSet
  <2> QED
    BY <2>1
<1> QED
  BY <1>3, <1>4, <1>5, <1>6, <1>7, <1>8

LEMMA PcmConstants ==
  ASSUME NEW e \in Audio!Pcm
  PROVE  /\ e \in Audio!E /\ CodecFrame[e] \in Nat /\ CodecFrame[e] > 0
         /\ FramesPerPes[e] \in Nat /\ FramesPerPes[e] > 0 /\ Threshold[e] \in Nat
<1>1. /\ {CodecFrame[e], FramesPerPes[e]} \subseteq Nat \ {0}
      /\ Threshold[e] \in Nat
  BY EncodersAssumption DEF Audio!ConstantsAreSound
<1> QED
  BY <1>1 DEF Audio!Pcm
-----------------------------------------------------------------------------
(* The samples of a block, and the queue of a PCM encoder.                 *)
LEMMA SamplesAre ==
  ASSUME NEW b \in Nat
  PROVE  /\ Audio!Samples(b) \in Seq(Sample)
         /\ Len(Audio!Samples(b)) = Block
         /\ \A i \in 1 .. Block : Audio!Samples(b)[i] = <<b, i>>
         /\ Audio!Samples(b) # <<>>
<1>1. Block \in Nat /\ Block > 0
  BY AudioConstants
<1>2. /\ Audio!Samples(b) = [i \in 1 .. Block |-> <<b, i>>]
      /\ \A i \in 1 .. Block : <<b, i>> \in Sample
  BY <1>1 DEF Audio!Samples, Sample
<1>3. Audio!Samples(b) \in Seq(Sample)
  BY <1>1, <1>2, IsASeq
<1>4. Len(Audio!Samples(b)) = Block
  BY <1>1, <1>2, <1>3, LenProperties
<1> QED
  BY <1>1, <1>2, <1>3, <1>4, EmptySeq

LEMMA CopiesAre ==
  ASSUME NEW m \in Nat, NEW n \in Nat, m <= n
  PROVE  /\ Copies(m, n) \in Seq(Frames)
         /\ Len(Copies(m, n)) = n - m
         /\ \A i \in 1 .. n - m : Copies(m, n)[i] = [k |-> m + i, pair |-> 0]
         /\ Copies(m, n) = <<>> <=> m = n
<1>1. n - m \in Nat
  OBVIOUS
<1>2. \A i \in 1 .. n - m : [k |-> m + i, pair |-> 0] \in Frames
  BY DEF Frames
<1>3. Copies(m, n) \in Seq(Frames)
  BY <1>1, <1>2, IsASeq DEF Copies
<1>4. Len(Copies(m, n)) = n - m
  <2>1. DOMAIN Copies(m, n) = 1 .. n - m
    BY DEF Copies
  <2> QED
    BY <1>1, <1>3, <2>1, LenProperties
<1>5. Copies(m, n) = <<>> <=> Len(Copies(m, n)) = 0
  BY <1>3, EmptySeq
<1> QED
  BY <1>3, <1>4, <1>5 DEF Copies

LEMMA CopiesGrow ==
  ASSUME NEW m \in Nat, NEW n \in Nat, m <= n
  PROVE  Copies(m, n + 1) = Append(Copies(m, n), [k |-> n + 1, pair |-> 0])
<1> DEFINE f == [k |-> n + 1, pair |-> 0]
<1> DEFINE s == Copies(m, n)
<1> DEFINE t == Copies(m, n + 1)
<1>1. /\ s \in Seq(Frames) /\ Len(s) = n - m
      /\ \A i \in 1 .. n - m : s[i] = [k |-> m + i, pair |-> 0]
  BY CopiesAre
<1>2. /\ t \in Seq(Frames) /\ Len(t) = (n + 1) - m
      /\ \A i \in 1 .. (n + 1) - m : t[i] = [k |-> m + i, pair |-> 0]
  BY CopiesAre
<1>3. f \in Frames
  BY DEF Frames
<1> HIDE DEF s, t
<1>4. /\ Append(s, f) \in Seq(Frames) /\ Len(Append(s, f)) = Len(s) + 1
      /\ \A i \in 1 .. Len(s) : Append(s, f)[i] = s[i]
      /\ Append(s, f)[Len(s) + 1] = f
  BY <1>1, <1>3, AppendProperties
<1>5. ASSUME NEW i \in 1 .. (n + 1) - m PROVE Append(s, f)[i] = t[i]
  <2>1. CASE i \in 1 .. n - m
    BY <1>1, <1>2, <1>4, <2>1
  <2>2. CASE i = (n + 1) - m
    <3>1. i = Len(s) + 1 /\ m + i = n + 1
      BY <1>1, <2>2
    <3>2. t[i] = [k |-> m + i, pair |-> 0]
      BY <1>2
    <3> QED
      BY <1>4, <3>1, <3>2
  <2>3. i \in 1 .. n - m \/ i = (n + 1) - m
    OBVIOUS
  <2> QED
    BY <2>1, <2>2, <2>3
<1>6. Len(Append(s, f)) = Len(t) /\ \A i \in 1 .. Len(t) : Append(s, f)[i] = t[i]
  BY <1>1, <1>2, <1>4, <1>5
<1> QED
  BY <1>2, <1>4, <1>6, SeqEqual DEF s, t

LEMMA CopiesShrink ==
  ASSUME NEW m \in Nat, NEW n \in Nat, m < n
  PROVE  /\ Copies(m, n) # <<>> /\ Head(Copies(m, n)) = [k |-> m + 1, pair |-> 0]
         /\ Tail(Copies(m, n)) = Copies(m + 1, n)
<1> DEFINE s == Copies(m, n)
<1> DEFINE t == Copies(m + 1, n)
<1>1. /\ s \in Seq(Frames) /\ Len(s) = n - m /\ s # <<>>
      /\ \A i \in 1 .. n - m : s[i] = [k |-> m + i, pair |-> 0]
  BY CopiesAre
<1>2. /\ t \in Seq(Frames) /\ Len(t) = n - (m + 1)
      /\ \A i \in 1 .. n - (m + 1) : t[i] = [k |-> (m + 1) + i, pair |-> 0]
  <2>1. m + 1 \in Nat /\ m + 1 <= n
    OBVIOUS
  <2> QED
    BY <2>1, CopiesAre
<1> HIDE DEF s, t
<1>3. /\ Head(s) = s[1] /\ Tail(s) \in Seq(Frames) /\ Len(Tail(s)) = Len(s) - 1
      /\ \A i \in 1 .. Len(Tail(s)) : Tail(s)[i] = s[i + 1]
  BY <1>1, HeadTailProperties, SeqFacts
<1>4. Len(Tail(s)) = Len(t) /\ \A i \in 1 .. Len(t) : Tail(s)[i] = t[i]
  <2>1. Len(Tail(s)) = Len(t)
    BY <1>1, <1>2, <1>3
  <2>2. ASSUME NEW i \in 1 .. Len(t) PROVE Tail(s)[i] = t[i]
    <3>1. i + 1 \in 1 .. n - m /\ i \in 1 .. n - (m + 1) /\ m + (i + 1) = (m + 1) + i
      BY <1>2
    <3>2. Tail(s)[i] = s[i + 1]
      BY <1>3, <2>1
    <3>3. s[i + 1] = [k |-> m + (i + 1), pair |-> 0]
      BY <1>1, <3>1
    <3>4. t[i] = [k |-> (m + 1) + i, pair |-> 0]
      BY <1>2, <3>1
    <3> QED
      BY <3>1, <3>2, <3>3, <3>4
  <2> QED
    BY <2>1, <2>2
<1>5. Tail(s) = t
  BY <1>2, <1>3, <1>4, SeqEqual
<1>6. s[1] = [k |-> m + 1, pair |-> 0]
  <2>1. 1 \in 1 .. n - m
    OBVIOUS
  <2> QED
    BY <1>1, <2>1
<1> QED
  BY <1>1, <1>3, <1>5, <1>6 DEF s, t

LEMMA QueuedIs ==
  ASSUME NEW m \in Nat, NEW n \in Nat, m <= n
  PROVE  /\ Queued(Copies(m, n)) \in Seq(Sample)
         /\ Queued(Copies(m, m)) = <<>>
         /\ Queued(Copies(m, n + 1)) = Queued(Copies(m, n)) \o Audio!Samples(n + 1)
<1> DEFINE Blocks(l) == [i \in DOMAIN Copies(m, l) |-> Audio!Samples(Copies(m, l)[i].k)]
<1>1. ASSUME NEW l \in Nat, m <= l
      PROVE  /\ Blocks(l) \in Seq(Seq(Sample)) /\ Len(Blocks(l)) = l - m
             /\ \A i \in 1 .. l - m : Blocks(l)[i] = Audio!Samples(m + i)
  <2>1. DOMAIN Copies(m, l) = 1 .. l - m
    BY DEF Copies
  <2>2. \A i \in 1 .. l - m : Copies(m, l)[i].k = m + i
    BY DEF Copies
  <2>3. Blocks(l) = [i \in 1 .. l - m |-> Audio!Samples(m + i)]
    BY <2>1, <2>2
  <2>4. \A i \in 1 .. l - m : Audio!Samples(m + i) \in Seq(Sample)
    BY SamplesAre
  <2> HIDE DEF Blocks
  <2>5. l - m \in Nat
    BY <1>1
  <2>6. Blocks(l) \in Seq(Seq(Sample))
    BY <2>3, <2>4, <2>5, IsASeq
  <2>7. Len(Blocks(l)) = l - m
    BY <2>3, <2>5, <2>6, LenProperties
  <2> QED
    BY <2>3, <2>6, <2>7
<1>2. \A l \in Nat : Queued(Copies(m, l)) = Audio!FlattenSeq(Blocks(l))
  BY DEF Queued
<1> HIDE DEF Blocks
<1>3. Queued(Copies(m, n)) \in Seq(Sample)
  BY <1>1, <1>2, FlattenType
<1>4. Queued(Copies(m, m)) = <<>>
  <2>1. Blocks(m) = <<>>
    BY <1>1, EmptySeq
  <2> QED
    BY <1>2, <2>1, FlattenEmpty
<1>5. Blocks(n + 1) = Append(Blocks(n), Audio!Samples(n + 1))
  <2> DEFINE s == Blocks(n)
  <2> DEFINE t == Blocks(n + 1)
  <2> DEFINE x == Audio!Samples(n + 1)
  <2>1. /\ s \in Seq(Seq(Sample)) /\ Len(s) = n - m
        /\ \A i \in 1 .. n - m : s[i] = Audio!Samples(m + i)
    BY <1>1
  <2>2. /\ t \in Seq(Seq(Sample)) /\ Len(t) = (n + 1) - m
        /\ \A i \in 1 .. (n + 1) - m : t[i] = Audio!Samples(m + i)
    BY <1>1
  <2>3. x \in Seq(Sample)
    BY SamplesAre
  <2>4. t[(n + 1) - m] = x
    <3>1. (n + 1) - m \in 1 .. (n + 1) - m /\ m + ((n + 1) - m) = n + 1
      OBVIOUS
    <3> QED
      BY <2>2, <3>1
  <2> HIDE DEF s, t, x
  <2>5. /\ Append(s, x) \in Seq(Seq(Sample)) /\ Len(Append(s, x)) = Len(s) + 1
        /\ \A i \in 1 .. Len(s) : Append(s, x)[i] = s[i]
        /\ Append(s, x)[Len(s) + 1] = x
    BY <2>1, <2>3, AppendProperties
  <2>6. ASSUME NEW i \in 1 .. Len(t) PROVE Append(s, x)[i] = t[i]
    <3>1. CASE i \in 1 .. n - m
      BY <2>1, <2>2, <2>5, <3>1
    <3>2. CASE i = (n + 1) - m
      <4>1. i = Len(s) + 1
        BY <2>1, <3>2
      <4> QED
        BY <2>4, <2>5, <3>2, <4>1
    <3>3. i \in 1 .. n - m \/ i = (n + 1) - m
      BY <2>2
    <3> QED
      BY <3>1, <3>2, <3>3
  <2>7. Len(Append(s, x)) = Len(t)
    BY <2>1, <2>2, <2>5
  <2>8. Append(s, x) = t
    BY <2>2, <2>5, <2>6, <2>7, SeqEqual
  <2> QED
    BY <2>8 DEF s, t, x
<1>6. Audio!FlattenSeq(Append(Blocks(n), Audio!Samples(n + 1)))
        = Audio!FlattenSeq(Blocks(n)) \o Audio!Samples(n + 1)
  <2>1. Blocks(n) \in Seq(Seq(Sample)) /\ Audio!Samples(n + 1) \in Seq(Sample)
    BY <1>1, SamplesAre
  <2> QED
    BY <2>1, FlattenAppend
<1>7. n + 1 \in Nat
  OBVIOUS
<1> QED
  BY <1>2, <1>3, <1>4, <1>5, <1>6, <1>7

(* The oldest block comes first.                                           *)
LEMMA QueuedFirst ==
  ASSUME NEW m \in Nat, NEW n \in Nat, m < n
  PROVE  Queued(Copies(m, n)) = Audio!Samples(m + 1) \o Queued(Copies(m + 1, n))
<1> DEFINE Q(a, b) == Queued(Copies(a, b))
<1> DEFINE x == Audio!Samples(m + 1)
<1> DEFINE P == {j \in Nat : Q(m, (m + 1) + j) = x \o Q(m + 1, (m + 1) + j)}
<1>1. x \in Seq(Sample)
  BY SamplesAre
<1>2. \A a, b \in Nat : a <= b =>
        Q(a, b) \in Seq(Sample) /\ Q(a, a) = <<>> /\ Q(a, b + 1) = Q(a, b) \o Audio!Samples(b + 1)
  BY QueuedIs
<1> HIDE DEF Q, x
<1>3. 0 \in P
  <2>1. Q(m, m + 1) = Q(m, m) \o Audio!Samples(m + 1) /\ Q(m, m) = <<>>
        /\ Q(m + 1, m + 1) = <<>>
    <3>1. m \in Nat /\ m + 1 \in Nat /\ m <= m /\ m + 1 <= m + 1
      OBVIOUS
    <3> QED
      BY <1>2, <3>1
  <2>2. Q(m, m + 1) = x /\ x \o <<>> = x
    BY <1>1, <2>1, ConcatEmptySeq DEF x
  <2>3. (m + 1) + 0 = m + 1
    OBVIOUS
  <2> QED
    BY <2>1, <2>2, <2>3
<1>4. ASSUME NEW j \in P PROVE j + 1 \in P
  <2> DEFINE b == (m + 1) + j
  <2>1. j \in Nat /\ b \in Nat /\ m <= b /\ m + 1 <= b /\ (m + 1) + (j + 1) = b + 1
    BY <1>4
  <2>2. Q(m, b) = x \o Q(m + 1, b)
    BY <1>4
  <2> HIDE DEF b
  <2>3. /\ Q(m, b + 1) = Q(m, b) \o Audio!Samples(b + 1)
        /\ Q(m + 1, b + 1) = Q(m + 1, b) \o Audio!Samples(b + 1)
        /\ Q(m + 1, b) \in Seq(Sample)
    <3>1. m + 1 \in Nat
      OBVIOUS
    <3> QED
      BY <1>2, <2>1, <3>1
  <2>4. Audio!Samples(b + 1) \in Seq(Sample)
    BY <2>1, SamplesAre
  <2>5. (x \o Q(m + 1, b)) \o Audio!Samples(b + 1) = x \o (Q(m + 1, b) \o Audio!Samples(b + 1))
    BY <1>1, <2>3, <2>4, ConcatAssociative
  <2>6. Q(m, b + 1) = x \o Q(m + 1, b + 1)
    BY <2>2, <2>3, <2>5
  <2>7. Q(m, (m + 1) + (j + 1)) = x \o Q(m + 1, (m + 1) + (j + 1))
    BY <2>1, <2>6
  <2> QED
    BY <2>1, <2>7
<1>5. P = Nat
  <2>1. P \in SUBSET Nat
    OBVIOUS
  <2> HIDE DEF P
  <2> QED
    BY <1>3, <1>4, <2>1, SetInduction
<1>6. n - (m + 1) \in Nat /\ (m + 1) + (n - (m + 1)) = n
  OBVIOUS
<1>7. n - (m + 1) \in P
  BY <1>5, <1>6
<1>8. Q(m, n) = x \o Q(m + 1, n)
  BY <1>6, <1>7
<1> QED
  BY <1>8 DEF Q, x
-----------------------------------------------------------------------------
(* Two sequences, one behind the other.                                    *)
LEMMA Joined ==
  ASSUME NEW S, NEW p \in Seq(S), NEW q \in Seq(S)
  PROVE  /\ p \o q \in Seq(S) /\ Len(p \o q) = Len(p) + Len(q)
         /\ Len(p) \in Nat /\ Len(q) \in Nat
         /\ \A i \in 1 .. Len(p) : (p \o q)[i] = p[i]
         /\ \A i \in 1 .. Len(q) : (p \o q)[Len(p) + i] = q[i]
         /\ q # <<>> => p \o q # <<>> /\ (p \o q)[Len(p \o q)] = q[Len(q)]
         /\ p # <<>> => p \o q # <<>> /\ (p \o q)[1] = p[1]
<1> DEFINE w == p \o q
<1>1. /\ w \in Seq(S) /\ Len(w) = Len(p) + Len(q)
      /\ \A i \in 1 .. Len(p) + Len(q) : w[i] = IF i <= Len(p) THEN p[i] ELSE q[i - Len(p)]
  BY ConcatProperties
<1>2. /\ Len(p) \in Nat /\ Len(q) \in Nat
      /\ (p # <<>> => Len(p) > 0) /\ (q # <<>> => Len(q) > 0)
      /\ (w = <<>> => Len(w) = 0)
  BY <1>1, EmptySeq, LenProperties
<1> HIDE DEF w
<1>3. \A i \in 1 .. Len(p) : w[i] = p[i]
  BY <1>1, <1>2
<1>4. ASSUME NEW i \in 1 .. Len(q) PROVE w[Len(p) + i] = q[i]
  <2>1. /\ Len(p) + i \in 1 .. Len(p) + Len(q) /\ ~(Len(p) + i <= Len(p))
        /\ (Len(p) + i) - Len(p) = i
    BY <1>2
  <2> QED
    BY <1>1, <2>1
<1>5. q # <<>> => w # <<>> /\ w[Len(w)] = q[Len(q)]
  <2>1. q # <<>> => Len(q) \in 1 .. Len(q) /\ Len(w) = Len(p) + Len(q) /\ Len(w) # 0
    BY <1>1, <1>2
  <2> QED
    BY <1>2, <1>4, <2>1
<1>6. p # <<>> => w # <<>> /\ w[1] = p[1]
  <2>1. p # <<>> => 1 \in 1 .. Len(p) /\ Len(w) # 0
    BY <1>1, <1>2
  <2> QED
    BY <1>2, <1>3, <2>1
<1> QED
  BY <1>1, <1>2, <1>3, <1>4, <1>5, <1>6 DEF w

LEMMA ChainJoin ==
  ASSUME NEW T, NEW e, NEW p \in Seq(Sample), NEW q \in Seq(Sample),
         Chained(T, e, p), Chained(T, e, q),
         p # <<>> /\ q # <<>> => Linked(T, e, p[Len(p)], q[1])
  PROVE  Chained(T, e, p \o q)
<1> DEFINE w == p \o q
<1>1. /\ Len(w) = Len(p) + Len(q) /\ Len(p) \in Nat /\ Len(q) \in Nat
      /\ \A i \in 1 .. Len(p) : w[i] = p[i]
      /\ \A i \in 1 .. Len(q) : w[Len(p) + i] = q[i]
  BY Joined
<1>2. (Len(p) # 0 => p # <<>>) /\ (Len(q) # 0 => q # <<>>)
  BY EmptySeq
<1> HIDE DEF w
<1>3. ASSUME NEW i \in 1 .. Len(w) - 1 PROVE Linked(T, e, w[i], w[i + 1])
  <2>1. CASE i < Len(p)
    <3>1. i \in 1 .. Len(p) - 1 /\ i \in 1 .. Len(p) /\ i + 1 \in 1 .. Len(p)
      BY <1>1, <2>1
    <3>2. Linked(T, e, p[i], p[i + 1])
      BY <3>1 DEF Chained
    <3> QED
      BY <1>1, <3>1, <3>2
  <2>2. CASE i = Len(p)
    <3>1. i \in 1 .. Len(p) /\ 1 \in 1 .. Len(q) /\ Len(p) # 0 /\ Len(q) # 0
      BY <1>1, <2>2
    <3>2. w[i] = p[Len(p)] /\ w[i + 1] = q[1]
      BY <1>1, <2>2, <3>1
    <3> QED
      BY <1>2, <3>1, <3>2
  <2>3. CASE i > Len(p)
    <3> DEFINE j == i - Len(p)
    <3>1. /\ j \in 1 .. Len(q) - 1 /\ j \in 1 .. Len(q) /\ j + 1 \in 1 .. Len(q)
          /\ Len(p) + j = i /\ Len(p) + (j + 1) = i + 1
      BY <1>1, <2>3
    <3> HIDE DEF j
    <3>2. Linked(T, e, q[j], q[j + 1])
      BY <3>1 DEF Chained
    <3>3. w[Len(p) + j] = q[j] /\ w[Len(p) + (j + 1)] = q[j + 1]
      BY <1>1, <3>1
    <3> QED
      BY <3>1, <3>2, <3>3
  <2> QED
    BY <1>1, <2>1, <2>2, <2>3
<1> QED
  BY <1>3 DEF Chained, w

LEMMA ChainSplit ==
  ASSUME NEW T, NEW e, NEW p \in Seq(Sample), NEW q \in Seq(Sample),
         Chained(T, e, p \o q)
  PROVE  Chained(T, e, p) /\ Chained(T, e, q)
<1> DEFINE w == p \o q
<1>1. /\ Len(w) = Len(p) + Len(q) /\ Len(p) \in Nat /\ Len(q) \in Nat
      /\ \A i \in 1 .. Len(p) : w[i] = p[i]
      /\ \A i \in 1 .. Len(q) : w[Len(p) + i] = q[i]
  BY Joined
<1>2. \A i \in 1 .. Len(w) - 1 : Linked(T, e, w[i], w[i + 1])
  BY DEF Chained
<1> HIDE DEF w
<1>3. ASSUME NEW i \in 1 .. Len(p) - 1 PROVE Linked(T, e, p[i], p[i + 1])
  <2>1. i \in 1 .. Len(w) - 1 /\ i \in 1 .. Len(p) /\ i + 1 \in 1 .. Len(p)
    BY <1>1
  <2> QED
    BY <1>1, <1>2, <2>1
<1>4. ASSUME NEW i \in 1 .. Len(q) - 1 PROVE Linked(T, e, q[i], q[i + 1])
  <2>1. /\ Len(p) + i \in 1 .. Len(w) - 1 /\ i \in 1 .. Len(q) /\ i + 1 \in 1 .. Len(q)
        /\ (Len(p) + i) + 1 = Len(p) + (i + 1)
    BY <1>1
  <2>2. w[Len(p) + i] = q[i] /\ w[Len(p) + (i + 1)] = q[i + 1]
    BY <1>1, <2>1
  <2>3. Linked(T, e, w[Len(p) + i], w[(Len(p) + i) + 1])
    BY <1>2, <2>1
  <2> QED
    BY <2>1, <2>2, <2>3
<1> QED
  BY <1>3, <1>4 DEF Chained

LEMMA SamplesChained ==
  ASSUME NEW T, NEW e, NEW b \in Nat
  PROVE  Chained(T, e, Audio!Samples(b))
<1>1. /\ Len(Audio!Samples(b)) = Block
      /\ \A i \in 1 .. Block : Audio!Samples(b)[i] = <<b, i>>
  BY SamplesAre
<1>2. Block \in Nat
  BY AudioConstants
<1>3. ASSUME NEW i \in 1 .. Block - 1
      PROVE  Linked(T, e, Audio!Samples(b)[i], Audio!Samples(b)[i + 1])
  <2>1. i \in 1 .. Block /\ i + 1 \in 1 .. Block
    BY <1>2
  <2>2. Audio!Samples(b)[i] = <<b, i>> /\ Audio!Samples(b)[i + 1] = <<b, i + 1>>
    BY <1>1, <2>1
  <2>3. <<b, i + 1>> = <<<<b, i>>[1], <<b, i>>[2] + 1>>
    OBVIOUS
  <2> QED
    BY <2>2, <2>3 DEF Linked
<1> QED
  BY <1>1, <1>3 DEF Chained
-----------------------------------------------------------------------------
(* What was captured does not change: a block more tells nothing new about *)
(* the blocks before.                                                      *)
LEMMA RestartsStay ==
  ASSUME NEW T \in Seq(Nat), NEW t \in Nat, NEW e, NEW b \in 1 .. Len(T)
  PROVE  /\ Restarts(Append(T, t), e, b) <=> Restarts(T, e, b)
         /\ \A r \in 1 .. b :
              SinceRestart(Append(T, t), e, b, r) <=> SinceRestart(T, e, b, r)
         /\ Append(T, t)[b] = T[b]
<1> DEFINE U == Append(T, t)
<1>1. Len(T) \in Nat /\ \A i \in 1 .. Len(T) : U[i] = T[i]
  BY AppendProperties, LenProperties
<1> HIDE DEF U
<1>2. ASSUME NEW j \in 1 .. Len(T) PROVE Restarts(U, e, j) <=> Restarts(T, e, j)
  <2>1. j # 1 => j - 1 \in 1 .. Len(T)
    BY <1>1
  <2>2. U[j] = T[j] /\ (j # 1 => U[j - 1] = T[j - 1])
    BY <1>1, <2>1
  <2> QED
    BY <2>2 DEF Restarts
<1>3. ASSUME NEW r \in 1 .. b
      PROVE  SinceRestart(U, e, b, r) <=> SinceRestart(T, e, b, r)
  <2>1. r \in 1 .. Len(T) /\ \A j \in r + 1 .. b : j \in 1 .. Len(T)
    BY <1>1
  <2>2. Restarts(U, e, r) <=> Restarts(T, e, r)
    BY <1>2, <2>1
  <2>3. \A j \in r + 1 .. b : Restarts(U, e, j) <=> Restarts(T, e, j)
    BY <1>2, <2>1
  <2> QED
    BY <2>2, <2>3 DEF SinceRestart
<1> QED
  BY <1>1, <1>2, <1>3 DEF U

LEMMA LinkStays ==
  ASSUME NEW T \in Seq(Nat), NEW t \in Nat, NEW e,
         NEW x \in Sample, NEW y \in Sample, y[1] <= Len(T), Linked(T, e, x, y)
  PROVE  Linked(Append(T, t), e, x, y)
<1>1. x[1] \in Nat /\ y[1] \in Nat /\ Len(T) \in Nat
  BY LenProperties DEF Sample
<1>2. CASE \E b \in x[1] + 1 .. y[1] : Restarts(T, e, b)
  <2>1. PICK b \in x[1] + 1 .. y[1] : Restarts(T, e, b)
    BY <1>2
  <2>2. b \in 1 .. Len(T)
    BY <1>1
  <2>3. Restarts(Append(T, t), e, b)
    BY <2>1, <2>2, RestartsStay
  <2> QED
    BY <2>1, <2>3 DEF Linked
<1>3. CASE ~\E b \in x[1] + 1 .. y[1] : Restarts(T, e, b)
  BY <1>3 DEF Linked
<1> QED
  BY <1>2, <1>3

LEMMA ChainStays ==
  ASSUME NEW T \in Seq(Nat), NEW t \in Nat, NEW e, NEW p \in Seq(Sample),
         Chained(T, e, p), \A j \in 1 .. Len(p) : p[j][1] <= Len(T)
  PROVE  Chained(Append(T, t), e, p)
<1>1. Len(p) \in Nat /\ \A j \in 1 .. Len(p) : p[j] \in Sample
  BY LenProperties, ElementOfSeq
<1>2. ASSUME NEW i \in 1 .. Len(p) - 1 PROVE Linked(Append(T, t), e, p[i], p[i + 1])
  <2>1. i \in 1 .. Len(p) /\ i + 1 \in 1 .. Len(p)
    BY <1>1
  <2>2. Linked(T, e, p[i], p[i + 1]) /\ p[i + 1][1] <= Len(T)
    BY <2>1 DEF Chained
  <2> QED
    BY <1>1, <2>1, <2>2, LinkStays
<1> QED
  BY <1>2 DEF Chained

(* The blocks between one and the last before which the time restarted.    *)
LEMMA SinceRestartEarlier ==
  ASSUME NEW T, NEW e, NEW b \in Nat, NEW r \in 1 .. b, NEW c \in r .. b,
         SinceRestart(T, e, b, r)
  PROVE  SinceRestart(T, e, c, r)
  BY DEF SinceRestart

LEMMA SinceRestartLater ==
  ASSUME NEW T, NEW e, NEW b \in Nat, NEW r \in 1 .. b,
         SinceRestart(T, e, b, r), ~Restarts(T, e, b + 1)
  PROVE  r \in 1 .. b + 1 /\ SinceRestart(T, e, b + 1, r)
  BY DEF SinceRestart

LEMMA SinceRestartHere ==
  ASSUME NEW T, NEW e, NEW b \in Nat, b > 0, Restarts(T, e, b)
  PROVE  b \in 1 .. b /\ SinceRestart(T, e, b, b)
  BY DEF SinceRestart
-----------------------------------------------------------------------------
(* The samples in the hands of one encoder.                                *)
LEMMA SentIs ==
  ASSUME NEW mx \in Seq(CodedFrame)
  PROVE  /\ Sent(mx) \in Seq(Sample)
         /\ \A f \in CodedFrame : Sent(Append(mx, f)) = Sent(mx) \o f.samples
<1> DEFINE Parts(q) == [i \in DOMAIN q |-> q[i].samples]
<1>1. ASSUME NEW q \in Seq(CodedFrame)
      PROVE  /\ Parts(q) \in Seq(Seq(Sample)) /\ Len(Parts(q)) = Len(q)
             /\ \A i \in 1 .. Len(q) : Parts(q)[i] = q[i].samples
  <2>1. Len(q) \in Nat /\ DOMAIN q = 1 .. Len(q)
    BY LenProperties
  <2>2. \A i \in 1 .. Len(q) : q[i].samples \in Seq(Sample)
    <3>1. \A i \in 1 .. Len(q) : q[i] \in CodedFrame
      BY ElementOfSeq
    <3> QED
      BY <3>1 DEF CodedFrame
  <2>3. Parts(q) = [i \in 1 .. Len(q) |-> q[i].samples]
    BY <2>1
  <2> HIDE DEF Parts
  <2>4. Parts(q) \in Seq(Seq(Sample))
    BY <2>1, <2>2, <2>3, IsASeq
  <2>5. Len(Parts(q)) = Len(q)
    BY <2>1, <2>3, <2>4, LenProperties
  <2> QED
    BY <2>3, <2>4, <2>5
<1>2. \A q : Sent(q) = Audio!FlattenSeq(Parts(q))
  BY DEF Sent
<1> HIDE DEF Parts
<1>3. Sent(mx) \in Seq(Sample)
  BY <1>1, <1>2, FlattenType
<1>4. ASSUME NEW f \in CodedFrame PROVE Sent(Append(mx, f)) = Sent(mx) \o f.samples
  <2> DEFINE nx == Append(mx, f)
  <2> DEFINE x == f.samples
  <2>1. /\ nx \in Seq(CodedFrame) /\ Len(nx) = Len(mx) + 1
        /\ \A i \in 1 .. Len(mx) : nx[i] = mx[i]
        /\ nx[Len(mx) + 1] = f
    BY AppendProperties
  <2>2. x \in Seq(Sample) /\ Len(mx) \in Nat
    BY LenProperties DEF CodedFrame
  <2> HIDE DEF nx
  <2>3. /\ Parts(nx) \in Seq(Seq(Sample)) /\ Len(Parts(nx)) = Len(mx) + 1
        /\ \A i \in 1 .. Len(mx) + 1 : Parts(nx)[i] = nx[i].samples
    BY <1>1, <2>1
  <2>4. /\ Parts(mx) \in Seq(Seq(Sample)) /\ Len(Parts(mx)) = Len(mx)
        /\ \A i \in 1 .. Len(mx) : Parts(mx)[i] = mx[i].samples
    BY <1>1
  <2>5. Parts(nx)[Len(mx) + 1] = x
    <3>1. Len(mx) + 1 \in 1 .. Len(mx) + 1
      BY <2>2
    <3> QED
      BY <2>1, <2>3, <3>1
  <2>6. \A i \in 1 .. Len(mx) : Parts(nx)[i] = Parts(mx)[i]
    <3>1. \A i \in 1 .. Len(mx) : i \in 1 .. Len(mx) + 1
      BY <2>2
    <3> QED
      BY <2>1, <2>3, <2>4, <3>1
  <2> HIDE DEF x
  <2>7. /\ Append(Parts(mx), x) \in Seq(Seq(Sample))
        /\ Len(Append(Parts(mx), x)) = Len(Parts(mx)) + 1
        /\ \A i \in 1 .. Len(Parts(mx)) : Append(Parts(mx), x)[i] = Parts(mx)[i]
        /\ Append(Parts(mx), x)[Len(Parts(mx)) + 1] = x
    BY <2>2, <2>4, AppendProperties
  <2>8. ASSUME NEW i \in 1 .. Len(Parts(nx)) PROVE Append(Parts(mx), x)[i] = Parts(nx)[i]
    <3>1. i \in 1 .. Len(mx) \/ i = Len(mx) + 1
      BY <2>2, <2>3
    <3>2. i \in 1 .. Len(mx) => Append(Parts(mx), x)[i] = Parts(nx)[i]
      BY <2>4, <2>6, <2>7
    <3> QED
      BY <2>4, <2>5, <2>7, <3>1, <3>2
  <2>9. Append(Parts(mx), x) = Parts(nx)
    BY <2>3, <2>4, <2>7, <2>8, SeqEqual
  <2>10. Audio!FlattenSeq(Append(Parts(mx), x)) = Audio!FlattenSeq(Parts(mx)) \o x
    BY <2>2, <2>4, FlattenAppend
  <2> QED
    BY <1>2, <2>9, <2>10 DEF nx, x
<1> QED
  BY <1>3, <1>4

(* What the steps of one encoder start from.                               *)
InHand(e, items, s, mx) ==
  e \in Audio!Pcm /\ items \in Seq(Frames) /\ s \in EncoderState /\ mx \in Seq(CodedFrame)

LEMMA HandTypes ==
  ASSUME NEW e, NEW items, NEW s, NEW mx, InHand(e, items, s, mx)
  PROVE  /\ Sent(mx) \in Seq(Sample) /\ s.coded \in Seq(Sample) /\ s.pcm \in Seq(Sample)
         /\ Held(s) \in Seq(Sample) /\ Len(Held(s)) = Len(s.coded) + Len(s.pcm)
         /\ Len(s.coded) \in Nat /\ Len(s.pcm) \in Nat /\ s.num \in Nat /\ s.last \in Nat
         /\ s.cur \in Nat \/ s.cur = Audio!None
         /\ s.cur \in Int
<1>1. s.coded \in Seq(Sample) /\ s.pcm \in Seq(Sample) /\ s.num \in Nat /\ s.last \in Nat
      /\ s.cur \in Nat \cup {Audio!None}
  BY DEF InHand, EncoderState
<1>2. Sent(mx) \in Seq(Sample)
  BY SentIs DEF InHand
<1>3. Held(s) \in Seq(Sample) /\ Len(Held(s)) = Len(s.coded) + Len(s.pcm)
  BY <1>1, ConcatProperties DEF Held
<1>4. s.cur \in Int
  BY <1>1 DEF Audio!None
<1> QED
  BY <1>1, <1>2, <1>3, <1>4, LenProperties

(* All of them: what was sent, what is held, what is queued.               *)
LEMMA GivenIs ==
  ASSUME NEW e, NEW items, NEW s, NEW mx, InHand(e, items, s, mx),
         Queued(items) \in Seq(Sample)
  PROVE  /\ Given(mx, s, items) = Sent(mx) \o (Held(s) \o Queued(items))
         /\ Given(mx, s, items) = (Sent(mx) \o Held(s)) \o Queued(items)
         /\ Given(mx, s, items) \in Seq(Sample)
<1> DEFINE a == Sent(mx)
<1> DEFINE b == s.coded
<1> DEFINE c == s.pcm
<1> DEFINE d == Queued(items)
<1>1. a \in Seq(Sample) /\ b \in Seq(Sample) /\ c \in Seq(Sample) /\ d \in Seq(Sample)
  BY HandTypes
<1>2. Given(mx, s, items) = ((a \o b) \o c) \o d /\ Held(s) = b \o c
  BY DEF Given, Held
<1> HIDE DEF a, b, c, d
<1>3. (a \o b) \o c = a \o (b \o c) /\ b \o c \in Seq(Sample)
  BY <1>1, ConcatAssociative, ConcatProperties
<1>4. a \o (b \o c) \in Seq(Sample) /\ (a \o (b \o c)) \o d \in Seq(Sample)
  <2>1. a \o (b \o c) \in Seq(Sample)
    BY <1>1, <1>3, ConcatProperties
  <2> QED
    BY <1>1, <2>1, ConcatProperties
<1>5. (a \o (b \o c)) \o d = a \o ((b \o c) \o d)
  <2> DEFINE v == b \o c
  <2>1. v \in Seq(Sample)
    BY <1>3
  <2> HIDE DEF v
  <2>2. (a \o v) \o d = a \o (v \o d)
    BY <1>1, <2>1, ConcatAssociative
  <2> QED
    BY <2>2 DEF v
<1> QED
  BY <1>2, <1>3, <1>4, <1>5 DEF a, d
-----------------------------------------------------------------------------
(* How the flow of one encoder goes on.  Nothing was given at first.       *)
LEMMA FlowStart ==
  ASSUME NEW e \in Audio!Pcm, NEW T \in Seq(Nat), NEW s, s = Audio!EncoderAt("open")
  PROVE  Flow(T, e, <<>>, s, <<>>, 0, 0)
<1>1. /\ s.pc = "open" /\ s.cur = Audio!None /\ s.pcm = <<>> /\ s.coded = <<>> /\ s.num = 0
  BY DEF Audio!EncoderAt
<1>2. s \in EncoderState
  <2>1. <<>> \in Seq(Sample)
    BY EmptySeq
  <2> QED
    BY <2>1 DEF Audio!EncoderAt, EncoderState
<1>3. <<>> \in Seq(Sample) /\ Len(<<>>) = 0 /\ <<>> \o <<>> = <<>>
  BY EmptySeq, ConcatEmptySeq
<1>4. <<>> = Copies(0, 0) /\ Queued(<<>>) = <<>> /\ Sent(<<>>) = <<>>
  <2>1. 0 \in Nat /\ 0 <= 0
    OBVIOUS
  <2>2. <<>> = Copies(0, 0)
    BY <2>1, CopiesAre
  <2>3. Queued(Copies(0, 0)) = <<>>
    BY <2>1, QueuedIs
  <2>4. Sent(<<>>) = Audio!FlattenSeq(<<>>)
    <3>1. [i \in DOMAIN <<>> |-> <<>>[i].samples] = <<>>
      OBVIOUS
    <3> QED
      BY <3>1 DEF Sent
  <2> QED
    BY <2>2, <2>3, <2>4, FlattenEmpty
<1>5. Given(<<>>, s, <<>>) = <<>>
  BY <1>1, <1>3, <1>4 DEF Given
<1>6. OnTime(T, e, s, 0)
  <2>1. Held(s) = <<>> /\ Reached(s, 0) = 0
    BY <1>1, <1>3 DEF Held, Reached
  <2>2. CodecFrame[e] \in Nat /\ FramesPerPes[e] \in Nat /\ FramesPerPes[e] > 0
    BY PcmConstants
  <2>3. Len(s.coded) = s.num * CodecFrame[e]
    BY <1>1, <1>3, <2>2
  <2> QED
    BY <1>1, <2>1, <2>2, <2>3 DEF OnTime
<1>7. SentOnTime(T, e, <<>>, 0)
  BY <1>3, <1>4 DEF SentOnTime
<1>8. Len(T) \in Nat
  BY LenProperties
<1>9. Chained(T, e, <<>>)
  BY <1>3 DEF Chained
<1> QED
  BY <1>1, <1>3, <1>4, <1>5, <1>6, <1>7, <1>8, <1>9 DEF Flow

(* The card captures a block.                                              *)
LEMMA FlowGrows ==
  ASSUME NEW T \in Seq(Nat), NEW t \in Nat, NEW e, NEW items, NEW s, NEW mx, NEW n, NEW m,
         InHand(e, items, s, mx), Flow(T, e, items, s, mx, n, m)
  PROVE  Flow(Append(T, t), e, items, s, mx, n, m)
<1> DEFINE U == Append(T, t)
<1>1. Len(U) = Len(T) + 1 /\ Len(T) \in Nat
  BY AppendProperties, LenProperties
<1>2. n \in 0 .. Len(T) /\ m \in 0 .. n /\ items = Copies(m, n)
  BY DEF Flow
<1>3. n \in Nat /\ m \in Nat /\ m <= n /\ n <= Len(T)
  BY <1>1, <1>2
<1>4. Queued(items) \in Seq(Sample)
  BY <1>2, <1>3, QueuedIs
<1>5. Given(mx, s, items) \in Seq(Sample)
  BY <1>4, GivenIs
<1> DEFINE p == Given(mx, s, items)
<1> HIDE DEF U
<1>6. Chained(U, e, p)
  <2>1. Len(p) \in Nat /\ \A j \in 1 .. Len(p) : p[j] \in Sample
    BY <1>5, LenProperties, ElementOfSeq
  <2>2. Chained(T, e, p) /\ \A j \in 1 .. Len(p) : p[j][1] <= n
    BY DEF Flow
  <2> HIDE DEF p
  <2>3. \A j \in 1 .. Len(p) : p[j][1] <= Len(T)
    BY <1>3, <2>1, <2>2 DEF Sample
  <2> QED
    BY <1>5, <2>2, <2>3, ChainStays DEF p, U
<1>7. s.pc # "ended" => OnTime(U, e, s, m)
  <2> SUFFICES ASSUME s.pc # "ended" PROVE OnTime(U, e, s, m)
    OBVIOUS
  <2>1. OnTime(T, e, s, m)
    BY DEF Flow
  <2> DEFINE b == Reached(s, m)
  <2>2. b \in Nat /\ b <= Len(T)
    BY <1>3 DEF Reached, Flow
  <2> HIDE DEF b
  <2>3. ASSUME b > 0
        PROVE  /\ s.last = U[b]
               /\ \E r \in 1 .. b :
                   /\ SinceRestart(U, e, b, r)
                   /\ TimeFrom(U, r, <<m + 1, 1>>) = s.cur + Len(Held(s))
                   /\ \A j \in 1 .. Len(Held(s)) :
                        /\ r <= Held(s)[j][1] /\ Held(s)[j][1] <= m
                        /\ TimeFrom(U, r, Held(s)[j]) = (s.cur + j) - 1
    <3>1. b \in 1 .. Len(T) /\ \A r \in 1 .. b : r \in 1 .. Len(T)
      BY <1>1, <2>2, <2>3
    <3>2. s.last = T[b] /\ \E r \in 1 .. b :
            /\ SinceRestart(T, e, b, r)
            /\ TimeFrom(T, r, <<m + 1, 1>>) = s.cur + Len(Held(s))
            /\ \A j \in 1 .. Len(Held(s)) :
                 /\ r <= Held(s)[j][1] /\ Held(s)[j][1] <= m
                 /\ TimeFrom(T, r, Held(s)[j]) = (s.cur + j) - 1
      BY <2>1, <2>3 DEF OnTime, b
    <3>3. PICK r \in 1 .. b :
            /\ SinceRestart(T, e, b, r)
            /\ TimeFrom(T, r, <<m + 1, 1>>) = s.cur + Len(Held(s))
            /\ \A j \in 1 .. Len(Held(s)) :
                 /\ r <= Held(s)[j][1] /\ Held(s)[j][1] <= m
                 /\ TimeFrom(T, r, Held(s)[j]) = (s.cur + j) - 1
      BY <3>2
    <3>4. U[b] = T[b] /\ SinceRestart(U, e, b, r)
      BY <3>1, <3>3, RestartsStay DEF U
    <3>5. U[r] = T[r]
      BY <3>1, RestartsStay DEF U
    <3>6. \A x : TimeFrom(U, r, x) = TimeFrom(T, r, x)
      BY <3>5 DEF TimeFrom
    <3> QED
      BY <3>2, <3>3, <3>4, <3>6
  <2> QED
    BY <2>1, <2>3 DEF OnTime, b
<1>8. SentOnTime(U, e, mx, m)
  <2>1. SentOnTime(T, e, mx, m)
    BY DEF Flow
  <2>2. ASSUME NEW i \in 1 .. Len(mx)
        PROVE \E r \in 1 .. mx[i].samples[1][1] :
            /\ SinceRestart(U, e, mx[i].samples[1][1], r)
            /\ mx[i].pts = TimeFrom(U, r, mx[i].samples[1])
    <3> DEFINE x == mx[i].samples[1]
    <3>1. x[1] <= m /\ mx[i].samples # <<>> /\ \E r \in 1 .. x[1] :
            SinceRestart(T, e, x[1], r) /\ mx[i].pts = TimeFrom(T, r, x)
      BY <2>1 DEF SentOnTime
    <3>2. x \in Sample
      <4>1. mx[i].samples \in Seq(Sample)
        <5>1. mx[i] \in CodedFrame
          BY ElementOfSeq DEF InHand
        <5> QED
          BY <5>1 DEF CodedFrame
      <4>2. 1 \in 1 .. Len(mx[i].samples)
        BY <3>1, <4>1, SeqFacts
      <4> QED
        BY <4>1, <4>2, ElementOfSeq
    <3>3. x[1] \in Nat
      BY <3>2 DEF Sample
    <3> HIDE DEF x
    <3>4. PICK r \in 1 .. x[1] : SinceRestart(T, e, x[1], r) /\ mx[i].pts = TimeFrom(T, r, x)
      BY <3>1
    <3>5. x[1] \in 1 .. Len(T) /\ r \in 1 .. Len(T)
      BY <1>1, <1>3, <3>1, <3>3, <3>4
    <3>6. SinceRestart(U, e, x[1], r) /\ U[r] = T[r]
      BY <3>4, <3>5, RestartsStay DEF U
    <3>7. TimeFrom(U, r, x) = TimeFrom(T, r, x)
      BY <3>6 DEF TimeFrom
    <3> QED
      BY <3>4, <3>6, <3>7 DEF x
  <2> QED
    BY <2>1, <2>2 DEF SentOnTime
<1>9. n \in 0 .. Len(U)
  BY <1>1, <1>3
<1> QED
  BY <1>6, <1>7, <1>8, <1>9 DEF Flow, U

LEMMA FlowIs ==
  ASSUME NEW T \in Seq(Nat), NEW e, NEW items, NEW s, NEW mx, NEW n, NEW m,
         InHand(e, items, s, mx), Flow(T, e, items, s, mx, n, m)
  PROVE  /\ n \in Nat /\ m \in Nat /\ m <= n /\ n <= Len(T) /\ Len(T) \in Nat
         /\ items = Copies(m, n) /\ Queued(items) \in Seq(Sample)
         /\ Given(mx, s, items) = Sent(mx) \o (Held(s) \o Queued(items))
         /\ Given(mx, s, items) = (Sent(mx) \o Held(s)) \o Queued(items)
         /\ Given(mx, s, items) \in Seq(Sample)
<1>1. n \in 0 .. Len(T) /\ m \in 0 .. n /\ items = Copies(m, n) /\ Len(T) \in Nat
  BY LenProperties DEF Flow
<1>2. n \in Nat /\ m \in Nat /\ m <= n /\ n <= Len(T)
  BY <1>1
<1>3. Queued(items) \in Seq(Sample)
  BY <1>1, <1>2, QueuedIs
<1> QED
  BY <1>1, <1>2, <1>3, GivenIs

(* The filter gives a copy of the next block.                              *)
LEMMA FlowCopied ==
  ASSUME NEW T \in Seq(Nat), NEW e, NEW items, NEW s, NEW mx, NEW n, NEW m,
         InHand(e, items, s, mx), Flow(T, e, items, s, mx, n, m), n < Len(T)
  PROVE  Flow(T, e, Append(items, [k |-> n + 1, pair |-> 0]), s, mx, n + 1, m)
<1> DEFINE new == Append(items, [k |-> n + 1, pair |-> 0])
<1> DEFINE x == Audio!Samples(n + 1)
<1> DEFINE p == Given(mx, s, items)
<1> DEFINE q == Given(mx, s, new)
<1>1. /\ n \in Nat /\ m \in Nat /\ m <= n /\ Len(T) \in Nat /\ items = Copies(m, n)
      /\ p \in Seq(Sample) /\ p = (Sent(mx) \o Held(s)) \o Queued(items)
      /\ Queued(items) \in Seq(Sample)
  BY FlowIs
<1>0. n \in Nat /\ m \in Nat /\ m <= n /\ Len(T) \in Nat
  BY <1>1
<1>2. new = Copies(m, n + 1) /\ new \in Seq(Frames)
  <2>1. n + 1 \in Nat /\ m <= n + 1
    BY <1>0
  <2>2. Copies(m, n + 1) \in Seq(Frames)
    BY <1>0, <2>1, CopiesAre
  <2> QED
    BY <1>0, <1>1, <2>2, CopiesGrow
<1>3. Queued(new) = Queued(items) \o x
  BY <1>1, <1>2, QueuedIs
<1>4. /\ x \in Seq(Sample) /\ Len(x) = Block /\ x # <<>>
      /\ \A i \in 1 .. Block : x[i] = <<n + 1, i>>
  BY <1>1, SamplesAre
<1>5. q = p \o x
  <2> DEFINE a == Sent(mx) \o Held(s)
  <2> DEFINE d == Queued(items)
  <2>1. a \in Seq(Sample) /\ d \in Seq(Sample)
    BY <1>1, HandTypes, ConcatProperties
  <2>2. d \o x \in Seq(Sample)
    <3>1. d \in Seq(Sample) /\ x \in Seq(Sample)
      BY <1>4, <2>1
    <3> HIDE DEF d, x
    <3> QED
      BY <3>1, ConcatProperties
  <2>3. new \in Seq(Frames)
    BY <1>2
  <2>4. q = a \o (d \o x)
    <3>1. InHand(e, new, s, mx) /\ Queued(new) \in Seq(Sample)
      BY <1>3, <2>2, <2>3 DEF InHand
    <3> HIDE DEF new
    <3>2. q = a \o Queued(new)
      BY <3>1, GivenIs
    <3> QED
      BY <1>3, <3>2
  <2>5. p = a \o d
    BY <1>1
  <2> HIDE DEF a, d, x, p, q
  <2>6. (a \o d) \o x = a \o (d \o x)
    BY <1>4, <2>1, ConcatAssociative
  <2> QED
    BY <2>4, <2>5, <2>6
<1>6. Block \in Nat /\ Block > 0
  BY AudioConstants
<1>7. /\ Chained(T, e, p) /\ \A j \in 1 .. Len(p) : p[j][1] <= n
      /\ n = 0 => p = <<>>
      /\ n > 0 => p # <<>> /\ p[Len(p)] = <<n, Block>>
      /\ s.pc = "take" => m < n
      /\ s.pc # "ended" => OnTime(T, e, s, m)
      /\ SentOnTime(T, e, mx, m) /\ m \in 0 .. n
  BY DEF Flow
<1>8. Chained(T, e, x)
  BY <1>1, SamplesChained
<1> HIDE DEF new, x, p, q
<1>9. p # <<>> => Linked(T, e, p[Len(p)], x[1])
  <2>1. x[1] = <<n + 1, 1>>
    <3>1. 1 \in 1 .. Block
      BY <1>6
    <3> QED
      BY <1>4, <3>1
  <2>2. p # <<>> => p[Len(p)] = <<n, Block>>
    BY <1>0, <1>7
  <2>3. <<n + 1, 1>> = <<<<n, Block>>[1] + 1, 1>> /\ <<n, Block>>[2] = Block
    OBVIOUS
  <2> QED
    BY <2>1, <2>2, <2>3 DEF Linked
<1>10. Chained(T, e, q)
  BY <1>1, <1>4, <1>5, <1>7, <1>8, <1>9, ChainJoin
<1>11. /\ Len(q) = Len(p) + Len(x) /\ Len(p) \in Nat
       /\ \A i \in 1 .. Len(p) : q[i] = p[i]
       /\ \A i \in 1 .. Len(x) : q[Len(p) + i] = x[i]
       /\ q # <<>> /\ q[Len(q)] = x[Len(x)]
  <2>1. p \in Seq(Sample) /\ x \in Seq(Sample) /\ x # <<>>
    BY <1>1, <1>4
  <2>2. /\ Len(p \o x) = Len(p) + Len(x) /\ Len(p) \in Nat
        /\ \A i \in 1 .. Len(p) : (p \o x)[i] = p[i]
        /\ \A i \in 1 .. Len(x) : (p \o x)[Len(p) + i] = x[i]
        /\ p \o x # <<>> /\ (p \o x)[Len(p \o x)] = x[Len(x)]
    BY <2>1, Joined
  <2> QED
    BY <1>5, <2>2
<1>12. ASSUME NEW j \in 1 .. Len(q) PROVE q[j][1] <= n + 1
  <2>1. CASE j \in 1 .. Len(p)
    <3>1. p[j] \in Sample /\ p[j][1] <= n
      BY <1>1, <1>7, <2>1, ElementOfSeq
    <3>2. p[j][1] \in Nat
      BY <3>1 DEF Sample
    <3>3. q[j] = p[j]
      BY <1>11, <2>1
    <3>4. p[j][1] <= n + 1
      BY <1>0, <3>1, <3>2
    <3> QED
      BY <3>3, <3>4
  <2>2. CASE j \notin 1 .. Len(p)
    <3> DEFINE i == j - Len(p)
    <3>1. i \in 1 .. Len(x) /\ i \in 1 .. Block /\ Len(p) + i = j
      BY <1>4, <1>6, <1>11, <2>2
    <3> HIDE DEF i
    <3>2. q[j] = <<n + 1, i>>
      BY <1>4, <1>11, <3>1
    <3> QED
      BY <1>0, <3>2
  <2> QED
    BY <2>1, <2>2
<1>13. q[Len(q)] = <<n + 1, Block>>
  <2>1. Block \in 1 .. Block
    BY <1>6
  <2> QED
    BY <1>4, <1>11, <2>1
<1>14. /\ n + 1 \in 0 .. Len(T) /\ m \in 0 .. n + 1 /\ ~(n + 1 = 0)
       /\ s.pc = "take" => m < n + 1
  BY <1>0, <1>7
<1>15. /\ new = Copies(m, n + 1) /\ Chained(T, e, Given(mx, s, new))
       /\ \A j \in 1 .. Len(Given(mx, s, new)) : Given(mx, s, new)[j][1] <= n + 1
       /\ Given(mx, s, new) # <<>>
       /\ Given(mx, s, new)[Len(Given(mx, s, new))] = <<n + 1, Block>>
  BY <1>2, <1>10, <1>11, <1>12, <1>13 DEF q
<1>16. Flow(T, e, new, s, mx, n + 1, m)
  <2>1. /\ s.pc # "ended" => OnTime(T, e, s, m)
        /\ SentOnTime(T, e, mx, m)
    BY <1>7
  <2> QED
    BY <1>14, <1>15, <2>1 DEF Flow
<1> QED
  BY <1>16 DEF new

(* Only the place in the thread changes, or the thread ends.               *)
LEMMA FlowMoves ==
  ASSUME NEW T \in Seq(Nat), NEW e, NEW items, NEW s, NEW mx, NEW n, NEW m, NEW z,
         InHand(e, items, s, mx), Flow(T, e, items, s, mx, n, m),
         s.pc # "ended",
         z.coded = s.coded, z.pcm = s.pcm, z.cur = s.cur, z.last = s.last, z.num = s.num,
         z.pc # "take", z.pc = "ended" \/ s.pc # "take"
  PROVE  Flow(T, e, items, z, mx, n, m)
<1>1. Held(z) = Held(s) /\ Given(mx, z, items) = Given(mx, s, items)
  BY DEF Held, Given
<1>2. z.pc # "ended" => Reached(z, m) = Reached(s, m)
  BY DEF Reached
<1>3. z.pc # "ended" => OnTime(T, e, z, m)
  <2> SUFFICES ASSUME z.pc # "ended" PROVE OnTime(T, e, z, m)
    OBVIOUS
  <2>1. OnTime(T, e, s, m)
    BY DEF Flow
  <2>2. Reached(z, m) = Reached(s, m)
    BY <1>2
  <2> QED
    BY <1>1, <2>1, <2>2 DEF OnTime
<1> QED
  BY <1>1, <1>3 DEF Flow

(* A block is taken from the queue, and the time restarts or not.          *)
LEMMA FlowTaken ==
  ASSUME NEW T \in Seq(Nat), NEW e, NEW items, NEW s, NEW mx, NEW n, NEW m, NEW z,
         InHand(e, items, s, mx), Flow(T, e, items, s, mx, n, m),
         InHand(e, items, z, mx),
         s.pc = "wait", m < n, z.pc = "take", z.last = T[m + 1],
         IF s.cur = Audio!None \/ T[m + 1] - s.last >= Threshold[e]
         THEN z.cur = T[m + 1] /\ z.pcm = <<>> /\ z.coded = <<>> /\ z.num = 0
         ELSE z.cur = s.cur /\ z.pcm = s.pcm /\ z.coded = s.coded /\ z.num = s.num
  PROVE  Flow(T, e, items, z, mx, n, m)
<1> DEFINE a == Sent(mx)
<1> DEFINE h == Held(s)
<1> DEFINE d == Queued(items)
<1>0. n \in Nat /\ m \in Nat /\ m <= n /\ n <= Len(T) /\ Len(T) \in Nat
  BY FlowIs
<1>1. /\ items = Copies(m, n)
      /\ a \in Seq(Sample) /\ h \in Seq(Sample) /\ d \in Seq(Sample)
      /\ Given(mx, s, items) = (a \o h) \o d
      /\ Given(mx, z, items) = (a \o Held(z)) \o d
  <2>1. items = Copies(m, n) /\ d \in Seq(Sample) /\ Given(mx, s, items) = (a \o h) \o d
    BY FlowIs
  <2>2. a \in Seq(Sample) /\ h \in Seq(Sample)
    BY HandTypes
  <2>3. Given(mx, z, items) = (a \o Held(z)) \o d
    BY <2>1, GivenIs
  <2> QED
    BY <2>1, <2>2, <2>3
<1>2. OnTime(T, e, s, m) /\ Reached(s, m) = m /\ Reached(z, m) = m + 1
  BY DEF Flow, Reached
<1>3. (s.cur = Audio!None <=> m = 0) /\ (m > 0 => s.last = T[m])
  BY <1>2 DEF OnTime
<1>4. T[m + 1] \in Nat /\ m + 1 \in 1 .. Len(T)
  <2>1. m + 1 \in 1 .. Len(T)
    BY <1>0
  <2> QED
    BY <2>1, ElementOfSeq
<1>5. Audio!None \notin Nat
  BY DEF Audio!None
<1>6. SentOnTime(T, e, mx, m)
  BY DEF Flow
<1>7. CASE s.cur = Audio!None \/ T[m + 1] - s.last >= Threshold[e]
  <2>1. z.cur = T[m + 1] /\ z.pcm = <<>> /\ z.coded = <<>> /\ z.num = 0
    BY <1>7
  <2>2. Held(z) = <<>>
    BY <2>1, ConcatEmptySeq, EmptySeq DEF Held
  <2>3. Restarts(T, e, m + 1)
    <3>1. CASE m = 0
      BY <3>1 DEF Restarts
    <3>2. CASE m # 0
      <4>1. T[m + 1] - s.last >= Threshold[e] /\ s.last = T[m] /\ (m + 1) - 1 = m
        BY <1>0, <1>3, <1>7, <3>2
      <4> QED
        BY <4>1 DEF Restarts
    <3> QED
      BY <3>1, <3>2
  <2>4. Given(mx, z, items) = a \o d
    BY <1>1, <2>2, ConcatEmptySeq
  <2>5. d # <<>> /\ d[1] = <<m + 1, 1>>
    <3>1. Queued(items) = Audio!Samples(m + 1) \o Queued(Copies(m + 1, n))
      BY <1>0, <1>1, QueuedFirst
    <3>2. m + 1 \in Nat /\ m + 1 <= n
      BY <1>0
    <3>3. Queued(Copies(m + 1, n)) \in Seq(Sample)
      BY <1>0, <3>2, QueuedIs
    <3>4. /\ Audio!Samples(m + 1) \in Seq(Sample) /\ Audio!Samples(m + 1) # <<>>
          /\ Audio!Samples(m + 1)[1] = <<m + 1, 1>>
      <4>1. 1 \in 1 .. Block
        BY AudioConstants
      <4> QED
        BY <3>2, <4>1, SamplesAre
    <3> QED
      BY <3>1, <3>3, <3>4, Joined
  <2> DEFINE p == Given(mx, s, items)
  <2> DEFINE q == Given(mx, z, items)
  <2>6. /\ Chained(T, e, p) /\ \A j \in 1 .. Len(p) : p[j][1] <= n
        /\ p # <<>> => n # 0
        /\ n > 0 => p # <<>> /\ p[Len(p)] = <<n, Block>>
    BY DEF Flow
  <2>7. p = (a \o h) \o d /\ q = a \o d
    BY <1>1, <2>4
  <2>8. a \o h \in Seq(Sample) /\ \A j \in 1 .. Len(a) : a[j][1] <= m
    BY <1>1, <1>6, ConcatProperties DEF SentOnTime
  <2> HIDE DEF a, h, d, p, q
  <2>9. Chained(T, e, a) /\ Chained(T, e, d)
    <3>1. Chained(T, e, a \o h) /\ Chained(T, e, d)
      BY <1>1, <2>6, <2>7, <2>8, ChainSplit
    <3> QED
      BY <1>1, <3>1, ChainSplit
  <2>10. a # <<>> => Linked(T, e, a[Len(a)], d[1])
    <3> SUFFICES ASSUME a # <<>> PROVE Linked(T, e, a[Len(a)], d[1])
      OBVIOUS
    <3>1. Len(a) \in 1 .. Len(a)
      BY <1>1, SeqFacts
    <3>2. a[Len(a)] \in Sample /\ a[Len(a)][1] <= m
      BY <1>1, <2>8, <3>1, ElementOfSeq
    <3> DEFINE x == a[Len(a)]
    <3>3. x[1] \in Nat /\ x[1] <= m
      BY <3>2 DEF Sample
    <3> HIDE DEF x
    <3>4. m + 1 \in x[1] + 1 .. m + 1 /\ x[1] < m + 1
      BY <1>0, <3>3
    <3>5. <<m + 1, 1>>[1] = m + 1 /\ <<m + 1, 1>>[2] = 1
      OBVIOUS
    <3>6. Linked(T, e, x, <<m + 1, 1>>)
      BY <2>3, <3>4, <3>5 DEF Linked
    <3> QED
      BY <2>5, <3>6 DEF x
  <2>11. Chained(T, e, q)
    BY <1>1, <2>7, <2>9, <2>10, ChainJoin
  <2>12. /\ Len(q) = Len(a) + Len(d) /\ Len(a) \in Nat /\ Len(d) \in Nat
         /\ \A i \in 1 .. Len(a) : q[i] = a[i]
         /\ \A i \in 1 .. Len(d) : q[Len(a) + i] = d[i]
         /\ q # <<>> /\ q[Len(q)] = d[Len(d)]
    BY <1>1, <2>5, <2>7, Joined
  <2>13. /\ Len(p) = Len(a \o h) + Len(d) /\ Len(a \o h) \in Nat
         /\ \A i \in 1 .. Len(d) : p[Len(a \o h) + i] = d[i]
         /\ p # <<>> /\ p[Len(p)] = d[Len(d)]
    <3> DEFINE ah == a \o h
    <3>1. ah \in Seq(Sample) /\ d \in Seq(Sample) /\ d # <<>> /\ p = ah \o d
      BY <1>1, <2>5, <2>7, <2>8
    <3> HIDE DEF ah
    <3>2. /\ Len(p) = Len(ah) + Len(d) /\ Len(ah) \in Nat
          /\ \A i \in 1 .. Len(d) : p[Len(ah) + i] = d[i]
          /\ p # <<>> /\ p[Len(p)] = d[Len(d)]
      BY <3>1, Joined
    <3> QED
      BY <3>2 DEF ah
  <2>14. ASSUME NEW j \in 1 .. Len(q) PROVE q[j][1] <= n
    <3>1. CASE j \in 1 .. Len(a)
      <4>1. q[j] = a[j] /\ a[j] \in Sample /\ a[j][1] <= m
        BY <1>1, <2>8, <2>12, <3>1, ElementOfSeq
      <4>2. a[j][1] \in Nat
        BY <4>1 DEF Sample
      <4> DEFINE b == a[j][1]
      <4>3. b \in Nat /\ b <= m
        BY <4>1, <4>2
      <4> HIDE DEF b
      <4>4. b <= n
        BY <1>0, <4>3
      <4> QED
        BY <4>1, <4>4 DEF b
    <3>2. CASE j \notin 1 .. Len(a)
      <4> DEFINE i == j - Len(a)
      <4>1. i \in 1 .. Len(d) /\ Len(a) + i = j
        BY <2>12, <3>2
      <4> HIDE DEF i
      <4>2. Len(a \o h) + i \in 1 .. Len(p)
        BY <2>12, <2>13, <4>1
      <4>3. q[j] = d[i] /\ p[Len(a \o h) + i] = d[i]
        BY <2>12, <2>13, <4>1
      <4> QED
        BY <2>6, <4>2, <4>3
    <3> QED
      BY <3>1, <3>2
  <2>15. q[Len(q)] = <<n, Block>> /\ n # 0
    BY <1>0, <2>6, <2>12, <2>13
  <2>16. OnTime(T, e, z, m)
    <3>1. CodecFrame[e] \in Nat /\ FramesPerPes[e] \in Nat /\ FramesPerPes[e] > 0
      BY PcmConstants DEF InHand
    <3>2. Block \in Nat
      BY AudioConstants
    <3>3. Len(z.coded) = z.num * CodecFrame[e] /\ Len(Held(z)) = 0
      BY <2>1, <2>2, <3>1, EmptySeq
    <3>4. m + 1 \in 1 .. m + 1 /\ SinceRestart(T, e, m + 1, m + 1)
      BY <1>0, <2>3, SinceRestartHere
    <3>5. TimeFrom(T, m + 1, <<m + 1, 1>>) = z.cur + Len(Held(z))
      <4>1. TimeFrom(T, m + 1, <<m + 1, 1>>) = T[m + 1] + ((m + 1) - (m + 1)) * Block + 1 - 1
        BY DEF TimeFrom
      <4>2. (m + 1) - (m + 1) = 0 /\ 0 * Block = 0
        BY <1>0, <3>2
      <4> QED
        BY <1>4, <2>1, <3>3, <4>1, <4>2
    <3>6. z.last = T[Reached(z, m)] /\ m + 1 > 0 /\ z.cur # Audio!None
      BY <1>0, <1>2, <1>4, <1>5, <2>1
    <3>7. \A j \in 1 .. Len(Held(z)) :
            /\ m + 1 <= Held(z)[j][1] /\ Held(z)[j][1] <= m
            /\ TimeFrom(T, m + 1, Held(z)[j]) = (z.cur + j) - 1
      BY <3>3
    <3>8. Kind[e] = "mp2" => z.num < FramesPerPes[e]
      BY <2>1, <3>1
    <3>9. Reached(z, m) = m + 1 /\ Reached(z, m) # 0
      BY <1>0, <1>2
    <3> QED
      BY <3>3, <3>4, <3>5, <3>6, <3>7, <3>8, <3>9 DEF OnTime
  <2>17. n \in 0 .. Len(T) /\ m \in 0 .. n
    BY <1>0
  <2> QED
    BY <1>1, <1>6, <2>11, <2>12, <2>14, <2>15, <2>16, <2>17 DEF Flow, q
<1>8. CASE ~(s.cur = Audio!None \/ T[m + 1] - s.last >= Threshold[e])
  <2>1. z.cur = s.cur /\ z.pcm = s.pcm /\ z.coded = s.coded /\ z.num = s.num
    BY <1>8
  <2>2. Held(z) = Held(s) /\ Given(mx, z, items) = Given(mx, s, items)
    BY <2>1 DEF Held, Given
  <2>3. m > 0 /\ ~Restarts(T, e, m + 1)
    <3>1. m # 0 /\ m > 0 /\ s.last = T[m] /\ (m + 1) - 1 = m /\ m + 1 # 1
      BY <1>0, <1>3, <1>8
    <3> QED
      BY <1>8, <3>1 DEF Restarts
  <2>4. OnTime(T, e, z, m)
    <3>1. PICK r \in 1 .. m :
            /\ SinceRestart(T, e, m, r)
            /\ TimeFrom(T, r, <<m + 1, 1>>) = s.cur + Len(Held(s))
            /\ \A j \in 1 .. Len(Held(s)) :
                 /\ r <= Held(s)[j][1] /\ Held(s)[j][1] <= m
                 /\ TimeFrom(T, r, Held(s)[j]) = (s.cur + j) - 1
      BY <1>2, <2>3 DEF OnTime
    <3>2. r \in 1 .. m + 1 /\ SinceRestart(T, e, m + 1, r)
      BY <1>0, <2>3, <3>1, SinceRestartLater
    <3>3. /\ Len(s.coded) = s.num * CodecFrame[e]
          /\ Kind[e] = "mp2" => s.num < FramesPerPes[e]
      BY <1>2 DEF OnTime
    <3>4. Reached(z, m) = m + 1 /\ Reached(z, m) # 0 /\ z.cur # Audio!None
      BY <1>0, <1>2, <1>8, <2>1
    <3>5. z.last = T[Reached(z, m)]
      BY <3>4
    <3>6. \E r1 \in 1 .. m + 1 :
            /\ SinceRestart(T, e, m + 1, r1)
            /\ TimeFrom(T, r1, <<m + 1, 1>>) = z.cur + Len(Held(z))
            /\ \A j \in 1 .. Len(Held(z)) :
                 /\ r1 <= Held(z)[j][1] /\ Held(z)[j][1] <= m
                 /\ TimeFrom(T, r1, Held(z)[j]) = (z.cur + j) - 1
      BY <2>1, <2>2, <3>1, <3>2
    <3> QED
      BY <2>1, <3>3, <3>4, <3>5, <3>6 DEF OnTime
  <2> QED
    BY <2>2, <2>4 DEF Flow
<1> QED
  BY <1>7, <1>8

(* The block is converted into the fifo and leaves the queue.              *)
LEMMA FlowPushed ==
  ASSUME NEW T \in Seq(Nat), NEW e, NEW items, NEW s, NEW mx, NEW n, NEW m, NEW z,
         InHand(e, items, s, mx), Flow(T, e, items, s, mx, n, m),
         InHand(e, Tail(items), z, mx),
         s.pc = "take", z.pc = "code", z.pcm = s.pcm \o Audio!Samples(m + 1),
         z.coded = s.coded, z.cur = s.cur, z.last = s.last, z.num = s.num
  PROVE  Flow(T, e, Tail(items), z, mx, n, m + 1)
<1> DEFINE a == Sent(mx)
<1> DEFINE h == Held(s)
<1> DEFINE x == Audio!Samples(m + 1)
<1> DEFINE d == Queued(Copies(m + 1, n))
<1>0. n \in Nat /\ m \in Nat /\ m < n /\ n <= Len(T) /\ Len(T) \in Nat
  <2>1. n \in Nat /\ m \in Nat /\ m <= n /\ n <= Len(T) /\ Len(T) \in Nat
    BY FlowIs
  <2>2. m < n
    BY DEF Flow
  <2> QED
    BY <2>1, <2>2
<1>1. /\ items = Copies(m, n) /\ Tail(items) = Copies(m + 1, n)
      /\ Queued(items) = x \o d
  <2>1. items = Copies(m, n)
    BY DEF Flow
  <2> QED
    BY <1>0, <2>1, CopiesShrink, QueuedFirst
<1>2. /\ a \in Seq(Sample) /\ h \in Seq(Sample) /\ x \in Seq(Sample) /\ d \in Seq(Sample)
      /\ Len(x) = Block /\ \A i \in 1 .. Block : x[i] = <<m + 1, i>>
  <2>1. m + 1 \in Nat /\ m + 1 <= n
    BY <1>0
  <2>2. d \in Seq(Sample)
    BY <1>0, <2>1, QueuedIs
  <2>3. x \in Seq(Sample) /\ Len(x) = Block /\ \A i \in 1 .. Block : x[i] = <<m + 1, i>>
    BY <2>1, SamplesAre
  <2>4. a \in Seq(Sample) /\ h \in Seq(Sample)
    BY HandTypes
  <2> QED
    BY <2>2, <2>3, <2>4
<1>3. Held(z) = h \o x
  <2>1. s.coded \in Seq(Sample) /\ s.pcm \in Seq(Sample)
    BY HandTypes
  <2>2. (s.coded \o s.pcm) \o x = s.coded \o (s.pcm \o x)
    <3> DEFINE b == s.coded
    <3> DEFINE c == s.pcm
    <3>1. x \in Seq(Sample) /\ b \in Seq(Sample) /\ c \in Seq(Sample)
      BY <1>2, <2>1
    <3> HIDE DEF x, b, c
    <3>2. (b \o c) \o x = b \o (c \o x)
      BY <3>1, ConcatAssociative
    <3> QED
      BY <3>2 DEF b, c
  <2> QED
    BY <2>2 DEF Held
<1>4. Given(mx, z, Tail(items)) = Given(mx, s, items)
  <2>1. Given(mx, s, items) = (a \o h) \o (x \o d)
    <3>1. Given(mx, s, items) = (a \o h) \o Queued(items)
      BY FlowIs
    <3> QED
      BY <1>1, <3>1
  <2>2. Given(mx, z, Tail(items)) = (a \o Held(z)) \o d
    <3>1. Queued(Tail(items)) = d /\ Queued(Tail(items)) \in Seq(Sample)
      BY <1>1, <1>2
    <3>2. Given(mx, z, Tail(items)) = (Sent(mx) \o Held(z)) \o Queued(Tail(items))
      BY <3>1, GivenIs
    <3> QED
      BY <3>1, <3>2
  <2> DEFINE ah == a \o h
  <2>3. ah \in Seq(Sample)
    BY <1>2, ConcatProperties
  <2> HIDE DEF a, h, x, d
  <2>4. ah \o x = a \o (h \o x)
    BY <1>2, ConcatAssociative
  <2> HIDE DEF ah
  <2>5. (ah \o x) \o d = ah \o (x \o d)
    <3>1. x \in Seq(Sample) /\ d \in Seq(Sample)
      BY <1>2
    <3> QED
      BY <2>3, <3>1, ConcatAssociative
  <2>6. Given(mx, s, items) = ah \o (x \o d)
    BY <2>1 DEF ah
  <2> QED
    BY <1>3, <2>2, <2>4, <2>5, <2>6
<1>5. OnTime(T, e, s, m) /\ Reached(s, m) = m + 1 /\ Reached(z, m + 1) = m + 1
  BY DEF Flow, Reached
<1>6. /\ (s.cur = Audio!None) <=> m + 1 = 0
      /\ Len(s.coded) = s.num * CodecFrame[e]
      /\ Kind[e] = "mp2" => s.num < FramesPerPes[e]
      /\ s.last = T[m + 1]
  <2>1. m + 1 > 0
    BY <1>0
  <2> QED
    BY <1>5, <2>1 DEF OnTime
<1>7. PICK r \in 1 .. m + 1 :
        /\ SinceRestart(T, e, m + 1, r)
        /\ TimeFrom(T, r, <<m + 1, 1>>) = s.cur + Len(h)
        /\ \A j \in 1 .. Len(h) :
             /\ r <= h[j][1] /\ h[j][1] <= m
             /\ TimeFrom(T, r, h[j]) = (s.cur + j) - 1
  <2>1. m + 1 > 0
    BY <1>0
  <2> QED
    BY <1>5, <2>1 DEF OnTime
<1>8. Block \in Nat /\ s.cur \in Int /\ Len(h) \in Nat /\ T[r] \in Int
  <2>1. s.cur \in Int
    BY HandTypes
  <2>2. r \in 1 .. Len(T)
    BY <1>0, <1>7
  <2>3. T[r] \in Nat
    BY <2>2, ElementOfSeq
  <2> QED
    BY <1>2, <2>1, <2>3, AudioConstants, LenProperties
<1> DEFINE w == Held(z)
<1>9. /\ Len(w) = Len(h) + Block
      /\ \A j \in 1 .. Len(h) : w[j] = h[j]
      /\ \A i \in 1 .. Block : w[Len(h) + i] = x[i]
  <2> HIDE DEF w, h, x
  <2>1. w = h \o x
    BY <1>3 DEF w, h, x
  <2>2. h \in Seq(Sample) /\ x \in Seq(Sample) /\ Len(x) = Block
    BY <1>2
  <2>3. /\ Len(h \o x) = Len(h) + Len(x)
        /\ \A j \in 1 .. Len(h) : (h \o x)[j] = h[j]
        /\ \A i \in 1 .. Len(x) : (h \o x)[Len(h) + i] = x[i]
    BY <2>2, Joined
  <2> QED
    BY <2>1, <2>2, <2>3
<1> HIDE DEF a, h, x, d, w
<1> DEFINE base == T[r] + ((m + 1) - r) * Block
<1>10. ((m + 1) - r) * Block \in Int /\ (((m + 1) + 1) - r) * Block = ((m + 1) - r) * Block + Block
  BY <1>0, <1>7, <1>8
<1>11. \A i \in Int : TimeFrom(T, r, <<m + 1, i>>) = base + i - 1
  BY DEF TimeFrom
<1>12. base \in Int /\ base = s.cur + Len(h)
  <2>1. base \in Int
    BY <1>8, <1>10
  <2>2. base + 1 - 1 = s.cur + Len(h)
    BY <1>7, <1>11
  <2> HIDE DEF base
  <2> QED
    BY <2>1, <2>2
<1>13. TimeFrom(T, r, <<(m + 1) + 1, 1>>) = z.cur + Len(w)
  <2>1. TimeFrom(T, r, <<(m + 1) + 1, 1>>) = T[r] + (((m + 1) + 1) - r) * Block + (1 - 1)
    BY DEF TimeFrom
  <2>2. T[r] + (((m + 1) + 1) - r) * Block + (1 - 1) = base + Block
    <3> DEFINE k == ((m + 1) - r) * Block
    <3>1. T[r] + (((m + 1) + 1) - r) * Block + (1 - 1) = T[r] + (k + Block) + (1 - 1)
      BY <1>10
    <3>2. k \in Int /\ base = T[r] + k
      BY <1>10
    <3> HIDE DEF k, base
    <3> QED
      BY <1>8, <3>1, <3>2
  <2> HIDE DEF base
  <2> QED
    BY <1>8, <1>9, <1>12, <2>1, <2>2
<1>14. ASSUME NEW j \in 1 .. Len(w)
       PROVE  /\ r <= w[j][1] /\ w[j][1] <= m + 1
              /\ TimeFrom(T, r, w[j]) = (z.cur + j) - 1
  <2> HIDE DEF base
  <2>1. CASE j \in 1 .. Len(h)
    <3>1. w[j] = h[j] /\ r <= h[j][1] /\ h[j][1] <= m /\ TimeFrom(T, r, h[j]) = (s.cur + j) - 1
      BY <1>7, <1>9, <2>1
    <3>2. h[j] \in Sample
      BY <1>2, <2>1, ElementOfSeq
    <3> DEFINE b == h[j][1]
    <3>3. b \in Nat /\ b <= m
      BY <3>1, <3>2 DEF Sample
    <3> HIDE DEF b
    <3>4. b <= m + 1
      BY <1>0, <3>3
    <3> QED
      BY <3>1, <3>4 DEF b
  <2>2. CASE j \notin 1 .. Len(h)
    <3> DEFINE i == j - Len(h)
    <3>1. i \in 1 .. Block /\ Len(h) + i = j /\ i \in Int
      BY <1>8, <1>9, <2>2
    <3> HIDE DEF i
    <3>2. w[j] = <<m + 1, i>>
      BY <1>2, <1>9, <3>1
    <3>3. TimeFrom(T, r, w[j]) = base + i - 1
      BY <1>11, <3>1, <3>2
    <3>4. base + i - 1 = (z.cur + j) - 1
      <4> DEFINE c == z.cur
      <4> DEFINE l == Len(h)
      <4>1. base = c + l /\ j = l + i /\ c \in Int /\ l \in Int /\ i \in Int
        BY <1>8, <1>12, <3>1
      <4> HIDE DEF c, l
      <4>2. base + i - 1 = (c + j) - 1
        BY <4>1
      <4> QED
        BY <4>2 DEF c
    <3>5. w[j][1] = m + 1 /\ r <= m + 1 /\ m + 1 <= m + 1
      BY <1>0, <1>7, <3>2
    <3> QED
      BY <3>3, <3>4, <3>5
  <2> QED
    BY <2>1, <2>2
<1>15. OnTime(T, e, z, m + 1)
  <2>1. m + 1 # 0 /\ m + 1 > 0
    BY <1>0
  <2>2. \A j \in 1 .. Len(Held(z)) :
           /\ r <= Held(z)[j][1] /\ Held(z)[j][1] <= m + 1
           /\ TimeFrom(T, r, Held(z)[j]) = (z.cur + j) - 1
    BY <1>14 DEF w
  <2>3. TimeFrom(T, r, <<(m + 1) + 1, 1>>) = z.cur + Len(Held(z))
    BY <1>13 DEF w
  <2> QED
    BY <1>5, <1>6, <1>7, <2>1, <2>2, <2>3 DEF OnTime
<1>16. SentOnTime(T, e, mx, m + 1)
  <2>1. SentOnTime(T, e, mx, m)
    BY DEF Flow
  <2>2. ASSUME NEW y \in Sample, y[1] <= m PROVE y[1] <= m + 1
    <3>1. y[1] \in Nat
      BY DEF Sample
    <3> DEFINE b == y[1]
    <3>2. b \in Nat /\ b <= m
      BY <2>2, <3>1
    <3> HIDE DEF b
    <3>3. b <= m + 1
      BY <1>0, <3>2
    <3> QED
      BY <3>3 DEF b
  <2>3. \A j \in 1 .. Len(a) : a[j][1] <= m + 1
    <3>1. \A j \in 1 .. Len(a) : a[j] \in Sample /\ a[j][1] <= m
      BY <1>2, <2>1, ElementOfSeq DEF SentOnTime, a
    <3> QED
      BY <2>2, <3>1
  <2>4. ASSUME NEW i \in 1 .. Len(mx) PROVE mx[i].samples[1][1] <= m + 1
    <3>1. mx[i].samples # <<>> /\ mx[i].samples[1][1] <= m
      BY <2>1 DEF SentOnTime
    <3>2. mx[i] \in CodedFrame
      BY ElementOfSeq DEF InHand
    <3>3. mx[i].samples \in Seq(Sample)
      BY <3>2 DEF CodedFrame
    <3>4. mx[i].samples[1] \in Sample
      BY <3>1, <3>3, SeqFacts, ElementOfSeq
    <3> QED
      BY <2>2, <3>1, <3>4
  <2> QED
    BY <2>1, <2>3, <2>4 DEF SentOnTime, a
<1>17. n \in 0 .. Len(T) /\ m + 1 \in 0 .. n /\ z.pc # "take"
  BY <1>0
<1>18. /\ Chained(T, e, Given(mx, s, items))
       /\ \A j \in 1 .. Len(Given(mx, s, items)) : Given(mx, s, items)[j][1] <= n
       /\ n = 0 => Given(mx, s, items) = <<>>
       /\ n > 0 => /\ Given(mx, s, items) # <<>>
                   /\ Given(mx, s, items)[Len(Given(mx, s, items))] = <<n, Block>>
  BY DEF Flow
<1> QED
  BY <1>1, <1>4, <1>15, <1>16, <1>17, <1>18 DEF Flow
-----------------------------------------------------------------------------
(* Samples one behind the other.                                           *)
LEMMA SampleAssoc ==
  \A a, b, c \in Seq(Sample) : (a \o b) \o c = a \o (b \o c)
  BY ConcatAssociative

LEMMA SampleConcat ==
  \A a, b \in Seq(Sample) :
    a \o b \in Seq(Sample) /\ Len(a \o b) = Len(a) + Len(b)
  BY ConcatProperties

(* One codec frame is cut from the head of the fifo.                       *)
LEMMA FifoCut ==
  ASSUME NEW p \in Seq(Sample), NEW f \in Nat, f > 0, Len(p) >= f
  PROVE  /\ SubSeq(p, 1, f) \in Seq(Sample) /\ Len(SubSeq(p, 1, f)) = f
         /\ SubSeq(p, f + 1, Len(p)) \in Seq(Sample)
         /\ SubSeq(p, 1, f) \o SubSeq(p, f + 1, Len(p)) = p
<1>1. Len(p) \in Nat /\ \A i \in 1 .. Len(p) : p[i] \in Sample
  BY LenProperties, ElementOfSeq
<1>2. SubSeq(p, 1, f) \in Seq(Sample) /\ Len(SubSeq(p, 1, f)) = f
  <2>1. 1 \in Int /\ f \in Int /\ \A i \in 1 .. f : p[i] \in Sample
    BY <1>1
  <2>2. /\ SubSeq(p, 1, f) \in Seq(Sample)
        /\ Len(SubSeq(p, 1, f)) = IF 1 <= f THEN f - 1 + 1 ELSE 0
    BY <2>1, SubSeqProperties
  <2> QED
    BY <2>2
<1>3. SubSeq(p, f + 1, Len(p)) \in Seq(Sample)
  <2>1. f + 1 \in Int /\ Len(p) \in Int /\ \A i \in f + 1 .. Len(p) : p[i] \in Sample
    BY <1>1
  <2> QED
    BY <2>1, SubSeqProperties
<1>4. SubSeq(p, 1, f) \o SubSeq(p, f + 1, Len(p)) = SubSeq(p, 1, Len(p))
  <2>1. 1 \in 1 .. Len(p) + 1 /\ f \in 1 - 1 .. Len(p) /\ Len(p) \in f .. Len(p)
    BY <1>1
  <2> QED
    BY <2>1, ConcatAdjacentSubSeq
<1> QED
  BY <1>2, <1>3, <1>4, SubSeqFull

(* It is coded, and the coded frame is not complete.                       *)
LEMMA FlowCoded ==
  ASSUME NEW T \in Seq(Nat), NEW e, NEW items, NEW s, NEW mx, NEW n, NEW m, NEW z,
         InHand(e, items, s, mx), Flow(T, e, items, s, mx, n, m),
         InHand(e, items, z, mx),
         s.pc = "code", z.pc = "code", Len(s.pcm) >= CodecFrame[e],
         z.pcm = SubSeq(s.pcm, CodecFrame[e] + 1, Len(s.pcm)),
         z.coded = s.coded \o SubSeq(s.pcm, 1, CodecFrame[e]),
         z.num = s.num + 1, z.cur = s.cur, z.last = s.last,
         Kind[e] = "mp2" => s.num + 1 < FramesPerPes[e]
  PROVE  Flow(T, e, items, z, mx, n, m)
<1> DEFINE f == CodecFrame[e]
<1> DEFINE b == s.coded
<1> DEFINE c == s.pcm
<1> DEFINE c1 == SubSeq(c, 1, f)
<1> DEFINE c2 == SubSeq(c, f + 1, Len(c))
<1>1. f \in Nat /\ f > 0 /\ b \in Seq(Sample) /\ c \in Seq(Sample) /\ s.num \in Nat
      /\ Len(c) >= f
  BY HandTypes, PcmConstants DEF InHand
<1>2. c1 \in Seq(Sample) /\ c2 \in Seq(Sample) /\ Len(c1) = f /\ c1 \o c2 = c
  <2> HIDE DEF c, f
  <2> QED
    BY <1>1, FifoCut
<1>3. z.coded = b \o c1 /\ z.pcm = c2
  OBVIOUS
<1>4. Held(s) = b \o c
  BY DEF Held
<1> HIDE DEF f, b, c, c1, c2
<1>5. Held(z) = Held(s)
  <2>1. Held(z) = (b \o c1) \o c2
    BY <1>3 DEF Held
  <2>2. (b \o c1) \o c2 = b \o (c1 \o c2)
    <3>1. b \in Seq(Sample) /\ c1 \in Seq(Sample) /\ c2 \in Seq(Sample)
      BY <1>1, <1>2
    <3> QED
      BY <3>1, SampleAssoc
  <2> QED
    BY <1>2, <1>4, <2>1, <2>2
<1>6. Given(mx, z, items) = Given(mx, s, items)
  <2>1. Queued(items) \in Seq(Sample)
    BY FlowIs
  <2>2. Given(mx, z, items) = Sent(mx) \o (Held(z) \o Queued(items))
    BY <2>1, GivenIs
  <2>3. Given(mx, s, items) = Sent(mx) \o (Held(s) \o Queued(items))
    BY <2>1, GivenIs
  <2> QED
    BY <1>5, <2>2, <2>3
<1>7. OnTime(T, e, s, m) /\ Reached(s, m) = m /\ Reached(z, m) = m
  BY DEF Flow, Reached
<1>8. Len(z.coded) = z.num * CodecFrame[e]
  <2>1. Len(b) = s.num * f
    BY <1>7 DEF OnTime, b, f
  <2>2. Len(z.coded) = Len(b) + f
    <3>1. b \in Seq(Sample) /\ c1 \in Seq(Sample) /\ Len(c1) = f
      BY <1>1, <1>2
    <3>2. Len(b \o c1) = Len(b) + Len(c1)
      BY <3>1, SampleConcat
    <3> QED
      BY <1>3, <3>1, <3>2
  <2>3. (s.num + 1) * f = s.num * f + f
    BY <1>1
  <2> QED
    BY <2>1, <2>2, <2>3 DEF f
<1>9. OnTime(T, e, z, m)
  <2>1. Kind[e] = "mp2" => z.num < FramesPerPes[e]
    OBVIOUS
  <2> QED
    BY <1>5, <1>7, <1>8, <2>1 DEF OnTime
<1> QED
  BY <1>6, <1>9 DEF Flow

(* It completes a coded frame, which carries the time of its first sample. *)
LEMMA FlowSent ==
  ASSUME NEW T \in Seq(Nat), NEW e, NEW items, NEW s, NEW mx, NEW n, NEW m, NEW z, NEW mz,
         InHand(e, items, s, mx), Flow(T, e, items, s, mx, n, m),
         InHand(e, items, z, mz),
         s.pc = "code", z.pc = "code", Len(s.pcm) >= CodecFrame[e],
         z.pcm = SubSeq(s.pcm, CodecFrame[e] + 1, Len(s.pcm)),
         mz = Append(mx, [pts |-> s.cur,
                          samples |-> s.coded \o SubSeq(s.pcm, 1, CodecFrame[e])]),
         z.coded = <<>>, z.num = 0, s.num + 1 = FramesPerPes[e], z.last = s.last,
         s.cur # Audio!None => z.cur = s.cur + FramesPerPes[e] * CodecFrame[e],
         s.cur # Audio!None => z.cur # Audio!None
  PROVE  Flow(T, e, items, z, mz, n, m)
<1> DEFINE f == CodecFrame[e]
<1> DEFINE b == s.coded
<1> DEFINE c == s.pcm
<1> DEFINE c1 == SubSeq(c, 1, f)
<1> DEFINE c2 == SubSeq(c, f + 1, Len(c))
<1> DEFINE w == b \o c1
<1> DEFINE h == Held(s)
<1> DEFINE l == FramesPerPes[e] * f
<1> DEFINE x == [pts |-> s.cur, samples |-> w]
<1>0. n \in Nat /\ m \in Nat /\ m <= n /\ n <= Len(T) /\ Len(T) \in Nat
  BY FlowIs
<1>1. /\ f \in Nat /\ f > 0 /\ b \in Seq(Sample) /\ c \in Seq(Sample) /\ s.num \in Nat
      /\ Len(c) >= f /\ FramesPerPes[e] \in Nat /\ FramesPerPes[e] > 0 /\ Len(b) \in Nat
      /\ Len(c) \in Nat
  BY HandTypes, PcmConstants DEF InHand
<1>2. c1 \in Seq(Sample) /\ c2 \in Seq(Sample) /\ Len(c1) = f /\ c1 \o c2 = c
  <2> HIDE DEF c, f
  <2> QED
    BY <1>1, FifoCut
<1>3. z.pcm = c2 /\ mz = Append(mx, x) /\ h = b \o c /\ Held(z) = <<>> \o c2
  BY DEF Held
<1>4. OnTime(T, e, s, m) /\ Reached(s, m) = m /\ Reached(z, m) = m
  BY DEF Flow, Reached
<1>5. Len(b) = s.num * f /\ h # <<>> /\ Len(h) = Len(b) + Len(c) /\ h \in Seq(Sample)
  <2>1. Len(b) = s.num * f
    BY <1>4 DEF OnTime
  <2>2. h \in Seq(Sample) /\ Len(h) = Len(b) + Len(c)
    BY HandTypes
  <2> HIDE DEF h, b, c, f
  <2>3. Len(h) # 0
    BY <1>1, <2>2
  <2> QED
    BY <2>1, <2>2, <2>3, EmptySeq
<1>6. m > 0 /\ s.cur # Audio!None
  BY <1>0, <1>4, <1>5 DEF OnTime
<1>7. z.cur = s.cur + l
  BY <1>6
<1> HIDE DEF c1, c2, b, c, f, h
<1>8. w \in Seq(Sample) /\ Len(w) = Len(b) + f /\ Len(w) = l /\ h = w \o c2
  <2>0. b \in Seq(Sample) /\ c1 \in Seq(Sample) /\ c2 \in Seq(Sample) /\ Len(c1) = f
    BY <1>1, <1>2
  <2>1. w \in Seq(Sample) /\ Len(w) = Len(b) + Len(c1)
    BY <2>0, SampleConcat
  <2>2. Len(b) + f = l
    <3> DEFINE k == s.num
    <3>1. k \in Nat /\ Len(b) = k * f /\ FramesPerPes[e] = k + 1
      BY <1>1, <1>5
    <3> HIDE DEF k
    <3>2. (k + 1) * f = k * f + f
      BY <1>1, <3>1
    <3> QED
      BY <3>1, <3>2
  <2>3. (b \o c1) \o c2 = b \o (c1 \o c2)
    BY <2>0, SampleAssoc
  <2>4. h = w \o c2
    BY <1>2, <1>3, <2>3
  <2> HIDE DEF l, w
  <2> QED
    BY <2>0, <2>1, <2>2, <2>4
<1> HIDE DEF w, l
<1>9. w # <<>> /\ Len(w) > 0 /\ Held(z) = c2
  <2>1. Len(w) > 0
    BY <1>1, <1>8
  <2> QED
    BY <1>2, <1>3, <2>1, EmptySeq, ConcatEmptySeq
<1>10. /\ Len(h) = Len(w) + Len(c2) /\ Len(w) \in Nat /\ Len(c2) \in Nat
       /\ \A i \in 1 .. Len(w) : h[i] = w[i]
       /\ \A i \in 1 .. Len(c2) : h[Len(w) + i] = c2[i]
  <2>1. w \in Seq(Sample) /\ c2 \in Seq(Sample)
    BY <1>2, <1>8
  <2>2. /\ Len(w \o c2) = Len(w) + Len(c2) /\ Len(w) \in Nat /\ Len(c2) \in Nat
        /\ \A i \in 1 .. Len(w) : (w \o c2)[i] = w[i]
        /\ \A i \in 1 .. Len(c2) : (w \o c2)[Len(w) + i] = c2[i]
    BY <2>1, Joined
  <2> QED
    BY <1>8, <2>2
<1>11. PICK r \in 1 .. m :
         /\ SinceRestart(T, e, m, r)
         /\ TimeFrom(T, r, <<m + 1, 1>>) = s.cur + Len(h)
         /\ \A j \in 1 .. Len(h) :
              /\ r <= h[j][1] /\ h[j][1] <= m
              /\ TimeFrom(T, r, h[j]) = (s.cur + j) - 1
  BY <1>4, <1>6 DEF OnTime, h
<1>12. s.cur \in Nat /\ l \in Nat
  <2>1. s.cur \in Nat
    BY <1>6, HandTypes
  <2> QED
    BY <1>8, <1>10, <2>1
<1>13. x \in CodedFrame
  BY <1>8, <1>12 DEF CodedFrame
<1>14. mx \in Seq(CodedFrame) /\ Sent(mx) \in Seq(Sample) /\ Sent(mz) = Sent(mx) \o w
  <2>1. mx \in Seq(CodedFrame)
    BY DEF InHand
  <2>2. x.samples = w
    OBVIOUS
  <2> HIDE DEF x
  <2> QED
    BY <1>3, <1>13, <2>1, <2>2, SentIs
<1> HIDE DEF x
<1>15. Given(mz, z, items) = Given(mx, s, items)
  <2> DEFINE a == Sent(mx)
  <2> DEFINE d == Queued(items)
  <2>1. Queued(items) \in Seq(Sample)
    BY FlowIs
  <2>2. Given(mz, z, items) = (Sent(mz) \o Held(z)) \o Queued(items)
    BY <2>1, GivenIs
  <2>3. Given(mx, s, items) = (a \o h) \o d
    BY <2>1, GivenIs DEF h
  <2>4. a \in Seq(Sample)
    BY <1>14
  <2>5. Given(mz, z, items) = ((a \o w) \o c2) \o d
    BY <1>9, <1>14, <2>2
  <2> HIDE DEF a, d
  <2>6. (a \o w) \o c2 = a \o (w \o c2)
    <3>1. a \in Seq(Sample) /\ w \in Seq(Sample) /\ c2 \in Seq(Sample)
      BY <1>2, <1>8, <2>4
    <3> QED
      BY <3>1, SampleAssoc
  <2> QED
    BY <1>8, <2>3, <2>5, <2>6
<1>16. ASSUME NEW j \in 1 .. Len(c2)
       PROVE  /\ r <= c2[j][1] /\ c2[j][1] <= m
              /\ TimeFrom(T, r, c2[j]) = (z.cur + j) - 1
  <2> DEFINE k == Len(w) + j
  <2>1. k \in 1 .. Len(h) /\ h[k] = c2[j] /\ k = l + j
    <3>1. h[k] = c2[j]
      BY <1>10
    <3>2. Len(h) = Len(w) + Len(c2) /\ Len(w) \in Nat /\ Len(c2) \in Nat /\ Len(w) = l
          /\ j \in 1 .. Len(c2)
      BY <1>8, <1>10
    <3>3. Len(w) + j \in 1 .. Len(h) /\ Len(w) + j = l + j
      <4> DEFINE lw == Len(w)
      <4> DEFINE lc == Len(c2)
      <4> DEFINE lh == Len(h)
      <4>1. lh = lw + lc /\ lw \in Nat /\ lc \in Nat /\ lw = l /\ j \in 1 .. lc
        BY <3>2
      <4> HIDE DEF lw, lc, lh
      <4>2. lw + j \in 1 .. lh /\ lw + j = l + j
        BY <4>1
      <4> QED
        BY <4>2 DEF lw, lh
    <3> QED
      BY <3>1, <3>3
  <2>2. /\ r <= h[k][1] /\ h[k][1] <= m
        /\ TimeFrom(T, r, h[k]) = (s.cur + k) - 1
    BY <1>11, <2>1
  <2>3. (s.cur + k) - 1 = (z.cur + j) - 1
    <3> DEFINE u == s.cur
    <3> DEFINE v == z.cur
    <3>1. v = u + l /\ u \in Int /\ l \in Int /\ k = l + j /\ j \in Int
      BY <1>7, <1>12, <2>1
    <3> HIDE DEF u, v, k
    <3>2. (u + k) - 1 = (v + j) - 1
      BY <3>1
    <3> QED
      BY <3>2 DEF u, v
  <2> HIDE DEF k
  <2> QED
    BY <2>1, <2>2, <2>3
<1>17. TimeFrom(T, r, <<m + 1, 1>>) = z.cur + Len(c2)
  <2> DEFINE u == s.cur
  <2> DEFINE v == z.cur
  <2>1. v = u + l /\ u \in Int /\ l \in Int /\ Len(h) = l + Len(c2) /\ Len(c2) \in Int
    BY <1>7, <1>8, <1>10, <1>12
  <2>2. TimeFrom(T, r, <<m + 1, 1>>) = u + Len(h)
    BY <1>11
  <2> HIDE DEF u, v
  <2>3. u + Len(h) = v + Len(c2)
    BY <2>1
  <2> QED
    BY <2>2, <2>3 DEF v
<1>18. OnTime(T, e, z, m)
  <2>1. Len(z.coded) = z.num * CodecFrame[e]
    BY <1>1, EmptySeq DEF f
  <2>2. Kind[e] = "mp2" => z.num < FramesPerPes[e]
    BY <1>1
  <2>3. z.last = T[m]
    BY <1>4, <1>6 DEF OnTime
  <2>4. z.cur # Audio!None /\ m # 0
    BY <1>6
  <2>5. \E r1 \in 1 .. m :
          /\ SinceRestart(T, e, m, r1)
          /\ TimeFrom(T, r1, <<m + 1, 1>>) = z.cur + Len(c2)
          /\ \A j \in 1 .. Len(c2) :
               /\ r1 <= c2[j][1] /\ c2[j][1] <= m
               /\ TimeFrom(T, r1, c2[j]) = (z.cur + j) - 1
    BY <1>11, <1>16, <1>17
  <2> QED
    BY <1>4, <1>9, <2>1, <2>2, <2>3, <2>4, <2>5 DEF OnTime
<1>19. SentOnTime(T, e, mz, m)
  <2>1. SentOnTime(T, e, mx, m)
    BY DEF Flow
  <2>2. /\ Len(mz) = Len(mx) + 1 /\ mz[Len(mx) + 1] = x /\ Len(mx) \in Nat
        /\ \A i \in 1 .. Len(mx) : mz[i] = mx[i]
    <3>1. mx \in Seq(CodedFrame) /\ x \in CodedFrame
      BY <1>13, <1>14
    <3>2. /\ Len(Append(mx, x)) = Len(mx) + 1 /\ Append(mx, x)[Len(mx) + 1] = x
          /\ \A i \in 1 .. Len(mx) : Append(mx, x)[i] = mx[i]
      BY <3>1, AppendProperties
    <3>3. Len(mx) \in Nat
      BY <3>1, LenProperties
    <3>4. mz = Append(mx, x)
      BY <1>3
    <3> QED
      BY <3>2, <3>3, <3>4
  <2>3. ASSUME NEW j \in 1 .. Len(Sent(mz)) PROVE Sent(mz)[j][1] <= m
    <3>1. /\ Len(Sent(mz)) = Len(Sent(mx)) + Len(w)
          /\ Len(Sent(mx)) \in Nat /\ Len(w) \in Nat
          /\ \A i \in 1 .. Len(Sent(mx)) : Sent(mz)[i] = Sent(mx)[i]
          /\ \A i \in 1 .. Len(w) : Sent(mz)[Len(Sent(mx)) + i] = w[i]
      <4>1. Sent(mx) \in Seq(Sample) /\ w \in Seq(Sample)
        BY <1>8, <1>14
      <4>2. /\ Len(Sent(mx) \o w) = Len(Sent(mx)) + Len(w)
            /\ Len(Sent(mx)) \in Nat /\ Len(w) \in Nat
            /\ \A i \in 1 .. Len(Sent(mx)) : (Sent(mx) \o w)[i] = Sent(mx)[i]
            /\ \A i \in 1 .. Len(w) : (Sent(mx) \o w)[Len(Sent(mx)) + i] = w[i]
        BY <4>1, Joined
      <4> QED
        BY <1>14, <4>2
    <3>2. CASE j \in 1 .. Len(Sent(mx))
      BY <2>1, <3>1, <3>2 DEF SentOnTime
    <3>3. CASE j \notin 1 .. Len(Sent(mx))
      <4> DEFINE i == j - Len(Sent(mx))
      <4>1. i \in 1 .. Len(w) /\ i \in 1 .. Len(h) /\ Len(Sent(mx)) + i = j
        <5>1. j \in 1 .. Len(Sent(mx)) + Len(w) /\ Len(h) = Len(w) + Len(c2)
              /\ Len(Sent(mx)) \in Nat /\ Len(w) \in Nat /\ Len(c2) \in Nat
          BY <1>10, <3>1
        <5>2. i \in 1 .. Len(w) /\ Len(Sent(mx)) + i = j
          <6> DEFINE ls == Len(Sent(mx))
          <6> DEFINE lw == Len(w)
          <6>1. ls \in Nat /\ lw \in Nat /\ j \in 1 .. ls + lw /\ j \notin 1 .. ls
            BY <3>3, <5>1
          <6> HIDE DEF ls, lw
          <6>2. j - ls \in 1 .. lw /\ ls + (j - ls) = j
            BY <6>1
          <6> QED
            BY <6>2 DEF ls, lw
        <5>3. 1 .. Len(w) \subseteq 1 .. Len(h)
          BY <5>1
        <5> QED
          BY <5>2, <5>3
      <4> HIDE DEF i
      <4>2. Sent(mz)[j] = h[i] /\ h[i][1] <= m
        BY <1>10, <1>11, <3>1, <4>1
      <4> QED
        BY <4>2
    <3> QED
      BY <3>2, <3>3
  <2>4. ASSUME NEW i \in 1 .. Len(mz)
        PROVE /\ mz[i].samples # <<>> /\ mz[i].samples[1][1] <= m
              /\ \E r1 \in 1 .. mz[i].samples[1][1] :
                   /\ SinceRestart(T, e, mz[i].samples[1][1], r1)
                   /\ mz[i].pts = TimeFrom(T, r1, mz[i].samples[1])
    <3>1. CASE i \in 1 .. Len(mx)
      <4>1. mz[i] = mx[i]
        BY <2>2, <3>1
      <4>2. /\ mx[i].samples # <<>> /\ mx[i].samples[1][1] <= m
            /\ \E r1 \in 1 .. mx[i].samples[1][1] :
                 /\ SinceRestart(T, e, mx[i].samples[1][1], r1)
                 /\ mx[i].pts = TimeFrom(T, r1, mx[i].samples[1])
        BY <2>1, <3>1 DEF SentOnTime
      <4> QED
        BY <4>1, <4>2
    <3>2. CASE i = Len(mx) + 1
      <4> DEFINE y == w[1]
      <4>1. 1 \in 1 .. Len(w) /\ 1 \in 1 .. Len(h)
        BY <1>9, <1>10
      <4>2. y = h[1] /\ y \in Sample
        <5>1. w \in Seq(Sample) /\ h[1] = w[1]
          BY <1>8, <1>10, <4>1
        <5> QED
          BY <4>1, <5>1, ElementOfSeq
      <4>3. mz[i].samples = w /\ mz[i].pts = s.cur
        <5>1. mz[i] = x
          BY <2>2, <3>2
        <5>2. x.samples = w /\ x.pts = s.cur
          BY DEF x
        <5> QED
          BY <5>1, <5>2
      <4>4. r <= y[1] /\ y[1] <= m /\ TimeFrom(T, r, y) = (s.cur + 1) - 1
        BY <1>11, <4>1, <4>2
      <4>5. y[1] \in Nat
        BY <4>2 DEF Sample
      <4>6. (s.cur + 1) - 1 = s.cur
        BY <1>12
      <4> HIDE DEF y
      <4>7. r \in 1 .. y[1] /\ y[1] \in r .. m /\ r \in 1 .. m
        BY <1>0, <1>11, <4>4, <4>5
      <4>8. SinceRestart(T, e, y[1], r)
        BY <1>0, <1>11, <4>7, SinceRestartEarlier
      <4> QED
        BY <1>9, <4>3, <4>4, <4>6, <4>7, <4>8 DEF y
    <3>3. i \in 1 .. Len(mx) \/ i = Len(mx) + 1
      BY <2>2
    <3> QED
      BY <3>1, <3>2, <3>3
  <2> QED
    BY <2>3, <2>4 DEF SentOnTime
<1> QED
  BY <1>15, <1>18, <1>19 DEF Flow
-----------------------------------------------------------------------------
(* The queues of the audio path are thread queues.                         *)
LEMMA AudioQueues ==
  /\ \A q, i : Audio!AddToQueue(q, i) = AddToQueue(q, i)
  /\ \A q : Audio!RemoveFromQueue(q) = RemoveFromQueue(q)
  /\ \A q : Audio!SignalIn(q) = SignalIn(q)
  /\ \A q : Audio!BroadcastIn(q) = BroadcastIn(q)
  /\ \A q, t : Audio!SleepIn(q, t) = SleepIn(q, t)
  /\ Audio!EmptyQueue = EmptyQueue
<1>1. \A s : Audio!WakeOne(s) = WakeOne(s)
  BY DEF Audio!WakeOne, WakeOne
<1>2. \A q, i : Audio!AddToQueue(q, i) = AddToQueue(q, i)
  BY DEF Audio!AddToQueue, AddToQueue, Audio!WakeOne, WakeOne
<1>3. \A q : Audio!RemoveFromQueue(q) = RemoveFromQueue(q)
  BY DEF Audio!RemoveFromQueue, RemoveFromQueue, Audio!WakeOne, WakeOne
<1>4. \A q : Audio!SignalIn(q) = SignalIn(q)
  BY <1>1 DEF Audio!SignalIn, SignalIn
<1>5. \A q : Audio!BroadcastIn(q) = BroadcastIn(q)
  BY DEF Audio!BroadcastIn, BroadcastIn
<1>6. \A q, t : Audio!SleepIn(q, t) = SleepIn(q, t)
  BY DEF Audio!SleepIn, SleepIn
<1>7. Audio!EmptyQueue = EmptyQueue
  BY DEF Audio!EmptyQueue, EmptyQueue
<1> QED
  BY <1>2, <1>3, <1>4, <1>5, <1>6, <1>7

LEMMA AudioAdds ==
  ASSUME NEW Item, NEW Thread, NEW q \in Queue(Item, Thread), NEW i \in Item,
         NEW r \in Audio!AddToQueue(q, i)
  PROVE  r \in Queue(Item, Thread) /\ r.items = Append(q.items, i)
<1>1. r \in AddToQueue(q, i)
  BY AudioQueues
<1> QED
  BY <1>1, AddToQueueType

LEMMA AudioRemoves ==
  ASSUME NEW Item, NEW Thread, NEW q \in Queue(Item, Thread), q.items # <<>>,
         NEW r \in Audio!RemoveFromQueue(q)
  PROVE  r \in Queue(Item, Thread) /\ r.items = Tail(q.items)
<1>1. r \in RemoveFromQueue(q)
  BY AudioQueues
<1> QED
  BY <1>1, RemoveFromQueueType

LEMMA AudioSignals ==
  ASSUME NEW Item, NEW Thread, NEW q \in Queue(Item, Thread), NEW r \in Audio!SignalIn(q)
  PROVE  r \in Queue(Item, Thread) /\ r.items = q.items
<1>1. r \in SignalIn(q)
  BY AudioQueues
<1> QED
  BY <1>1, SignalInType

LEMMA AudioBroadcasts ==
  ASSUME NEW Item, NEW Thread, NEW q \in Queue(Item, Thread)
  PROVE  Audio!BroadcastIn(q) \in Queue(Item, Thread) /\ Audio!BroadcastIn(q).items = q.items
<1>1. BroadcastIn(q) \in Queue(Item, Thread) /\ BroadcastIn(q).items = q.items
  BY BroadcastInType
<1> QED
  BY <1>1, AudioQueues

LEMMA AudioSleeps ==
  ASSUME NEW Item, NEW Thread, NEW q \in Queue(Item, Thread), NEW t \in Thread
  PROVE  Audio!SleepIn(q, t) \in Queue(Item, Thread) /\ Audio!SleepIn(q, t).items = q.items
<1>1. SleepIn(q, t) \in Queue(Item, Thread) /\ SleepIn(q, t).items = q.items
  BY SleepType
<1> QED
  BY <1>1, AudioQueues

(* The elements of a sequence that grows at the end, or loses its head.    *)
LEMMA Appended ==
  ASSUME NEW S, NEW s \in Seq(S), NEW x \in S
  PROVE  /\ Append(s, x) \in Seq(S) /\ Append(s, x) # <<>>
         /\ Len(s) \in Nat /\ Len(Append(s, x)) = Len(s) + 1
         /\ \A i \in 1 .. Len(s) : Append(s, x)[i] = s[i]
         /\ Append(s, x)[Len(s) + 1] = x
         /\ s # <<>> => Head(Append(s, x)) = Head(s)
         /\ s = <<>> => Head(Append(s, x)) = x
<1> DEFINE t == Append(s, x)
<1>1. /\ t \in Seq(S) /\ Len(t) = Len(s) + 1 /\ Len(s) \in Nat
      /\ \A i \in 1 .. Len(s) : t[i] = s[i]
      /\ t[Len(s) + 1] = x
  BY AppendProperties, LenProperties
<1> HIDE DEF t
<1>2. t # <<>> /\ Head(t) = t[1]
  <2>1. Len(t) # 0
    BY <1>1
  <2> QED
    BY <1>1, <2>1, EmptySeq, SeqFacts
<1>3. s # <<>> => Head(t) = Head(s)
  <2>1. s # <<>> => 1 \in 1 .. Len(s) /\ Head(s) = s[1]
    BY SeqFacts
  <2> QED
    BY <1>1, <1>2, <2>1
<1>4. s = <<>> => Head(t) = x
  <2>1. s = <<>> => Len(s) + 1 = 1
    BY SeqFacts
  <2> QED
    BY <1>1, <1>2, <2>1
<1> QED
  BY <1>1, <1>2, <1>3, <1>4 DEF t

LEMMA Beheaded ==
  ASSUME NEW S, NEW s \in Seq(S), s # <<>>
  PROVE  /\ Tail(s) \in Seq(S) /\ Len(s) \in Nat /\ Len(s) >= 1
         /\ Len(Tail(s)) = Len(s) - 1 /\ Len(Tail(s)) \in Nat
         /\ \A i \in 1 .. Len(Tail(s)) : Tail(s)[i] = s[i + 1]
         /\ Head(s) = s[1] /\ Head(s) \in S
<1>1. /\ Tail(s) \in Seq(S) /\ Len(Tail(s)) = Len(s) - 1
      /\ \A i \in 1 .. Len(Tail(s)) : Tail(s)[i] = s[i + 1]
  BY HeadTailProperties
<1>2. Len(s) \in Nat /\ Len(s) >= 1 /\ 1 \in 1 .. Len(s) /\ Head(s) = s[1]
  BY SeqFacts
<1>3. s[1] \in S
  BY <1>2, ElementOfSeq
<1>4. Len(Tail(s)) \in Nat
  BY <1>1, LenProperties
<1> QED
  BY <1>1, <1>2, <1>3, <1>4

(* The bitstream blocks of a callback: each once, in some order.           *)
Callback(b) == {[k |-> b, pair |-> p] : p \in BitstreamPairs}

LEMMA CallbackIs ==
  ASSUME NEW b \in Nat \ {0}, NEW d, d = Audio!SetToSeq(Callback(b))
  PROVE  d \in Seq(Frames) /\ Once(d) /\ ItemsOf(d) = Callback(b)
<1> DEFINE fs == Callback(b)
<1>1. PICK n \in Nat : ExistsBijection(1 .. n, BitstreamPairs)
  BY AudioConstants, FS_NatBijection
<1>2. PICK f : f \in [1 .. n -> BitstreamPairs]
               /\ (\A i, j \in 1 .. n : f[i] = f[j] => i = j)
               /\ \A p \in BitstreamPairs : \E i \in 1 .. n : f[i] = p
  BY <1>1 DEF ExistsBijection, Bijection, Injection, Surjection, IsInjective
<1> DEFINE g == [i \in 1 .. n |-> [k |-> b, pair |-> f[i]]]
<1>3. /\ g \in [1 .. n -> fs] /\ (\A i, j \in 1 .. n : g[i] = g[j] => i = j)
      /\ \A x \in fs : \E i \in 1 .. n : g[i] = x
  <2>1. \A i \in 1 .. n : f[i] \in BitstreamPairs /\ g[i] = [k |-> b, pair |-> f[i]]
    BY <1>2
  <2>2. g \in [1 .. n -> fs]
    BY <2>1 DEF Callback
  <2>3. ASSUME NEW i \in 1 .. n, NEW j \in 1 .. n, g[i] = g[j] PROVE i = j
    <3>1. g[i].pair = f[i] /\ g[j].pair = f[j]
      BY <2>1
    <3> QED
      BY <1>2, <2>3, <3>1
  <2>4. ASSUME NEW x \in fs PROVE \E i \in 1 .. n : g[i] = x
    <3>1. PICK p \in BitstreamPairs : x = [k |-> b, pair |-> p]
      BY DEF Callback
    <3>2. PICK i \in 1 .. n : f[i] = p
      BY <1>2
    <3> QED
      BY <2>1, <3>1, <3>2
  <2> QED
    BY <2>2, <2>3, <2>4
<1> HIDE DEF g
<1>4. fs \subseteq Frames
  BY AudioConstants DEF Frames, Callback
<1> HIDE DEF fs
<1>5. ExistsBijection(1 .. n, fs)
  <2>1. g \in Bijection(1 .. n, fs)
    BY <1>3 DEF Bijection, Injection, Surjection, IsInjective
  <2> QED
    BY <2>1 DEF ExistsBijection
<1>6. IsFiniteSet(fs) /\ Cardinality(fs) = n /\ Audio!Cardinality(fs) = n
  <2>1. IsFiniteSet(fs) /\ Cardinality(fs) = n
    BY <1>5, FS_CountingElements, FS_NatBijection
  <2>2. Audio!Cardinality(fs) = Cardinality(fs)
    BY DEF Audio!Cardinality, Cardinality
  <2> QED
    BY <2>1, <2>2
<1>7. d \in [1 .. n -> fs] /\ \A i, j \in 1 .. n : d[i] = d[j] => i = j
  <2>1. d = CHOOSE h \in [1 .. n -> fs] : Audio!IsInjective(h)
    BY <1>6 DEF Audio!SetToSeq, fs
  <2>2. g \in [1 .. n -> fs] /\ Audio!IsInjective(g)
    BY <1>3 DEF Audio!IsInjective
  <2>3. d \in [1 .. n -> fs] /\ Audio!IsInjective(d)
    BY <2>1, <2>2
  <2>4. DOMAIN d = 1 .. n
    BY <2>3
  <2> QED
    BY <2>3, <2>4 DEF Audio!IsInjective
<1>8. d \in Surjection(1 .. n, fs)
  <2>1. d \in Injection(1 .. n, fs)
    BY <1>7 DEF Injection, IsInjective
  <2>2. Cardinality(1 .. n) = n
    <3>1. 1 \in Int /\ n \in Int
      OBVIOUS
    <3> QED
      BY <3>1, FS_Interval
  <2> QED
    BY <1>6, <2>1, <2>2, FS_Injection
<1>9. \A x \in fs : \E i \in 1 .. n : d[i] = x
  BY <1>8 DEF Surjection
<1>10. d \in Seq(Frames) /\ Len(d) = n
  <2>1. \A i \in 1 .. n : d[i] \in Frames
    BY <1>4, <1>7
  <2>2. d = [i \in 1 .. n |-> d[i]]
    BY <1>7
  <2>3. d \in Seq(Frames)
    BY <2>1, <2>2, IsASeq
  <2>4. DOMAIN d = 1 .. n
    BY <1>7
  <2> QED
    BY <2>3, <2>4, LenProperties
<1>11. {d[i] : i \in 1 .. Len(d)} = fs
  <2>1. \A i \in 1 .. Len(d) : d[i] \in fs
    BY <1>7, <1>10
  <2>2. \A x \in fs : \E i \in 1 .. Len(d) : x = d[i]
    BY <1>9, <1>10
  <2> QED
    BY <2>1, <2>2
<1>12. \A i, j \in 1 .. Len(d) : d[i] = d[j] => i = j
  BY <1>7, <1>10
<1> QED
  BY <1>10, <1>11, <1>12 DEF fs, Once, ItemsOf
-----------------------------------------------------------------------------
(* What each action does to the state.                                     *)
LEMMA Places ==
  /\ Audio!Gone = 0 - 1 /\ Audio!Waits = 0 /\ Audio!Carries = Len(Encoders) + 2
  /\ Len(Encoders) \in Nat /\ DOMAIN Encoders = 1 .. Len(Encoders)
  /\ Audio!None = 0 - 1
  BY AudioConstants DEF Audio!Gone, Audio!Waits, Audio!Carries, Audio!None

LEMMA QueueItems ==
  ASSUME NEW Item, NEW Thread, NEW q \in Queue(Item, Thread)
  PROVE  q.items \in Seq(Item)
  BY DEF Queue

LEMMA EncoderFields ==
  ASSUME NEW s \in EncoderState
  PROVE  /\ s.pc \in {"open", "wait", "take", "code", "ended"} /\ s.last \in Nat
         /\ s.cur \in Nat \cup {Audio!None} /\ s.pcm \in Seq(Sample)
         /\ s.coded \in Seq(Sample) /\ s.num \in Nat
  BY DEF EncoderState

LEMMA CardBlockDoes ==
  ASSUME AudioTyped, NEW gap \in Gaps, Audio!CardBlock(gap)
  PROVE  /\ AudioTyped'
         /\ \E t \in Nat : times' = Append(times, t)
         /\ due = <<>> /\ Once(due') /\ ItemsOf(due') = Callback(Len(times) + 1)
         /\ filterQ'.items = Append(filterQ.items, [k |-> Len(times) + 1, pair |-> 0])
         /\ UNCHANGED <<fpc, carried, encQ, enc, muxed, freed>>
<1>1. /\ times' = Append(times, IF times = <<>> THEN 0 ELSE Audio!Last(times) + Block + gap)
      /\ due' = Audio!SetToSeq({[k |-> Len(times) + 1, pair |-> p] : p \in BitstreamPairs})
      /\ filterQ' \in Audio!AddToQueue(filterQ, [k |-> Len(times) + 1, pair |-> 0])
      /\ due = <<>>
      /\ UNCHANGED <<fpc, carried, encQ, enc, muxed, freed>>
  BY DEF Audio!CardBlock, Audio!coding
<1>2. times \in Seq(Nat) /\ filterQ \in Queue(Frames, {"filter"}) /\ Len(times) \in Nat
  BY LenProperties DEF AudioTyped
<1> DEFINE t == IF times = <<>> THEN 0 ELSE Audio!Last(times) + Block + gap
<1>3. t \in Nat
  <2>1. times # <<>> => Audio!Last(times) \in Nat
    <3>1. times # <<>> => Len(times) \in 1 .. Len(times)
      BY <1>2, SeqFacts
    <3>2. times # <<>> => times[Len(times)] \in Nat
      BY <1>2, <3>1, ElementOfSeq
    <3> QED
      BY <3>2 DEF Audio!Last
  <2>2. Block \in Nat /\ gap \in Nat
    BY AudioConstants
  <2> QED
    BY <2>1, <2>2
<1>4. times' = Append(times, t)
  BY <1>1
<1> HIDE DEF t
<1>5. times' \in Seq(Nat)
  BY <1>2, <1>3, <1>4, AppendProperties
<1>6. due' \in Seq(Frames) /\ Once(due') /\ ItemsOf(due') = Callback(Len(times) + 1)
  <2>1. Len(times) + 1 \in Nat \ {0}
    BY <1>2
  <2>2. due' = Audio!SetToSeq(Callback(Len(times) + 1))
    BY <1>1 DEF Callback
  <2> QED
    BY <2>1, <2>2, CallbackIs
<1>7. [k |-> Len(times) + 1, pair |-> 0] \in Frames
  BY <1>2 DEF Frames
<1>8. /\ filterQ' \in Queue(Frames, {"filter"})
      /\ filterQ'.items = Append(filterQ.items, [k |-> Len(times) + 1, pair |-> 0])
  BY <1>1, <1>2, <1>7, AudioAdds
<1>9. AudioTyped'
  <2>1. /\ times' \in Seq(Nat) /\ due' \in Seq(Frames)
        /\ filterQ' \in Queue(Frames, {"filter"})
    BY <1>5, <1>6, <1>8
  <2> QED
    BY <1>1, <2>1 DEF AudioTyped
<1> QED
  BY <1>1, <1>3, <1>4, <1>6, <1>8, <1>9

LEMMA CardBitstreamDoes ==
  ASSUME AudioTyped, Audio!CardBitstream
  PROVE  /\ AudioTyped' /\ due # <<>> /\ Head(due) \in Frames /\ due' = Tail(due)
         /\ filterQ'.items = Append(filterQ.items, Head(due))
         /\ UNCHANGED <<times, fpc, carried, encQ, enc, muxed, freed>>
<1>1. /\ due # <<>> /\ due' = Tail(due)
      /\ filterQ' \in Audio!AddToQueue(filterQ, Head(due))
      /\ UNCHANGED <<times, fpc, carried, encQ, enc, muxed, freed>>
  BY DEF Audio!CardBitstream, Audio!coding
<1>2. due \in Seq(Frames) /\ filterQ \in Queue(Frames, {"filter"})
  BY DEF AudioTyped
<1>3. Tail(due) \in Seq(Frames) /\ Head(due) \in Frames
  BY <1>1, <1>2, Beheaded
<1>4. /\ filterQ' \in Queue(Frames, {"filter"})
      /\ filterQ'.items = Append(filterQ.items, Head(due))
  BY <1>1, <1>2, <1>3, AudioAdds
<1>5. AudioTyped'
  BY <1>1, <1>3, <1>4 DEF AudioTyped
<1> QED
  BY <1>1, <1>3, <1>4, <1>5

(* The filter thread sleeps, ends or takes a block.                        *)
FilterMoves ==
  Audio!FilterSleep \/ Audio!FilterCancelled \/ Audio!FilterTake

LEMMA FilterMovesDoes ==
  ASSUME AudioTyped, FilterMoves
  PROVE  /\ AudioTyped' /\ fpc = 0
         /\ filterQ'.items = filterQ.items
         /\ \/ fpc' = fpc \/ fpc' = Audio!Gone
            \/ fpc' = 1 /\ filterQ.items # <<>>
         /\ UNCHANGED <<times, due, carried, encQ, enc, muxed, freed>>
<1>1. CASE Audio!FilterSleep
  <2>1. /\ fpc = 0 /\ filterQ' = Audio!SleepIn(filterQ, "filter")
        /\ UNCHANGED <<times, due, fpc, carried, encQ, enc, muxed, freed>>
    BY <1>1, Places DEF Audio!FilterSleep, Audio!input, Audio!coding
  <2>2. filterQ \in Queue(Frames, {"filter"}) /\ "filter" \in {"filter"}
    BY DEF AudioTyped
  <2>3. /\ Audio!SleepIn(filterQ, "filter") \in Queue(Frames, {"filter"})
        /\ Audio!SleepIn(filterQ, "filter").items = filterQ.items
    BY <2>2, AudioSleeps
  <2>4. AudioTyped'
    BY <2>1, <2>2, <2>3 DEF AudioTyped
  <2> QED
    BY <2>1, <2>2, <2>3, <2>4
<1>2. CASE Audio!FilterCancelled
  <2>1. /\ fpc = 0 /\ fpc' = Audio!Gone
        /\ UNCHANGED <<times, due, filterQ, carried, encQ, enc, muxed, freed>>
    BY <1>2, Places DEF Audio!FilterCancelled, Audio!input, Audio!coding
  <2>2. fpc' \in Int /\ Audio!Gone <= fpc' /\ fpc' <= Audio!Carries
    BY <2>1, Places
  <2>3. AudioTyped'
    BY <2>1, <2>2 DEF AudioTyped
  <2> QED
    BY <2>1, <2>3
<1>3. CASE Audio!FilterTake
  <2>1. /\ fpc = 0 /\ fpc' = 1 /\ filterQ.items # <<>>
        /\ UNCHANGED <<times, due, filterQ, carried, encQ, enc, muxed, freed>>
    BY <1>3, Places DEF Audio!FilterTake, Audio!input, Audio!coding
  <2>2. fpc' \in Int /\ Audio!Gone <= fpc' /\ fpc' <= Audio!Carries
    BY <2>1, Places
  <2>3. AudioTyped'
    BY <2>1, <2>2 DEF AudioTyped
  <2> QED
    BY <2>1, <2>3
<1> QED
  BY <1>1, <1>2, <1>3 DEF FilterMoves

LEMMA FilterFailsDoes ==
  ASSUME AudioTyped, NEW i, Audio!FilterFails(i)
  PROVE  /\ AudioTyped' /\ fpc = i /\ fpc' = Audio!Gone /\ Encoders[i] \in Audio!Pcm
         /\ UNCHANGED <<times, due, filterQ, carried, encQ, enc, muxed, freed>>
<1>1. /\ fpc = i /\ fpc' = Audio!Gone /\ Encoders[i] \in Audio!Pcm
      /\ UNCHANGED <<times, due, filterQ, carried, encQ, enc, muxed, freed>>
  BY DEF Audio!FilterFails, Audio!input, Audio!coding
<1>2. fpc' \in Int /\ Audio!Gone <= fpc' /\ fpc' <= Audio!Carries
  BY <1>1, Places
<1> QED
  BY <1>1, <1>2 DEF AudioTyped

LEMMA FilterSplitDoes ==
  ASSUME AudioTyped, AudioHands, NEW i \in 1 .. Len(Encoders), Audio!FilterSplit(i)
  PROVE  /\ AudioTyped' /\ fpc = i /\ fpc' = i + 1
         /\ filterQ.items # <<>> /\ Head(filterQ.items).pair = 0
         /\ \A e \in Audio!E :
              encQ'[e].items = IF e = Encoders[i] /\ e \in Audio!Pcm
                               THEN Append(encQ[e].items, Head(filterQ.items))
                               ELSE encQ[e].items
         /\ UNCHANGED <<times, due, filterQ, carried, enc, muxed, freed>>
<1>1. /\ fpc = i /\ fpc' = i + 1 /\ Head(filterQ.items).pair = 0
      /\ IF Encoders[i] \in Audio!Pcm
         THEN \E q \in Audio!AddToQueue(encQ[Encoders[i]], Head(filterQ.items)) :
                encQ' = [encQ EXCEPT ![Encoders[i]] = q]
         ELSE UNCHANGED encQ
      /\ UNCHANGED <<times, due, filterQ, carried, enc, muxed, freed>>
  BY DEF Audio!FilterSplit, Audio!Frame, Audio!IsPcm, Audio!input
<1>2. filterQ.items # <<>>
  <2>1. Len(Encoders) \in Nat
    BY Places
  <2>2. 1 <= fpc /\ fpc <= Len(Encoders) + 1
    BY <1>1, <2>1
  <2> QED
    BY <2>2 DEF AudioHands
<1>3. filterQ \in Queue(Frames, {"filter"}) /\ encQ \in [Audio!E -> Queue(Frames, Audio!E)]
  BY DEF AudioTyped
<1>4. Head(filterQ.items) \in Frames
  BY <1>2, <1>3, QueueItems, Beheaded
<1>5. Encoders[i] \in Audio!E
  BY AudioConstants
<1>6. /\ encQ' \in [Audio!E -> Queue(Frames, Audio!E)]
      /\ \A e \in Audio!E :
           encQ'[e].items = IF e = Encoders[i] /\ e \in Audio!Pcm
                            THEN Append(encQ[e].items, Head(filterQ.items))
                            ELSE encQ[e].items
  <2>1. CASE Encoders[i] \in Audio!Pcm
    <3>1. PICK q \in Audio!AddToQueue(encQ[Encoders[i]], Head(filterQ.items)) :
            encQ' = [encQ EXCEPT ![Encoders[i]] = q]
      BY <1>1, <2>1
    <3>2. encQ[Encoders[i]] \in Queue(Frames, Audio!E)
      BY <1>3, <1>5
    <3>3. /\ q \in Queue(Frames, Audio!E)
          /\ q.items = Append(encQ[Encoders[i]].items, Head(filterQ.items))
      BY <1>4, <3>2, AudioAdds
    <3> QED
      BY <1>3, <1>5, <2>1, <3>1, <3>3
  <2>2. CASE Encoders[i] \notin Audio!Pcm
    BY <1>1, <1>3, <2>2
  <2> QED
    BY <2>1, <2>2
<1>7. fpc' \in Int /\ Audio!Gone <= fpc' /\ fpc' <= Audio!Carries
  BY <1>1, Places
<1>8. AudioTyped'
  BY <1>1, <1>6, <1>7 DEF AudioTyped
<1> QED
  BY <1>1, <1>2, <1>6, <1>8

LEMMA FilterCarryDoes ==
  ASSUME AudioTyped, AudioHands, Audio!FilterCarry
  PROVE  /\ AudioTyped' /\ fpc = 1 /\ fpc' = Audio!Carries
         /\ filterQ.items # <<>> /\ Head(filterQ.items).pair # 0
         /\ Audio!Takers(Head(filterQ.items)) # {}
         /\ filterQ'.items = Tail(filterQ.items) /\ carried' = {Head(filterQ.items)}
         /\ UNCHANGED <<times, due, encQ, enc, muxed, freed>>
<1>1. /\ fpc = 1 /\ fpc' = Audio!Carries /\ Head(filterQ.items).pair # 0
      /\ Audio!Takers(Head(filterQ.items)) # {}
      /\ filterQ' \in Audio!RemoveFromQueue(filterQ) /\ carried' = {Head(filterQ.items)}
      /\ UNCHANGED <<times, due, encQ, enc, muxed, freed>>
  BY DEF Audio!FilterCarry, Audio!Frame, Audio!IsPcm, Audio!input, Audio!coding
<1>2. filterQ.items # <<>>
  <2>1. Len(Encoders) \in Nat
    BY Places
  <2>2. 1 <= fpc /\ fpc <= Len(Encoders) + 1
    BY <1>1, <2>1
  <2> QED
    BY <2>2 DEF AudioHands
<1>3. filterQ \in Queue(Frames, {"filter"})
  BY DEF AudioTyped
<1>4. filterQ' \in Queue(Frames, {"filter"}) /\ filterQ'.items = Tail(filterQ.items)
  BY <1>1, <1>2, <1>3, AudioRemoves
<1>5. Head(filterQ.items) \in Frames
  BY <1>2, <1>3, QueueItems, Beheaded
<1>6. fpc' \in Int /\ Audio!Gone <= fpc' /\ fpc' <= Audio!Carries
  BY <1>1, Places
<1>7. carried' \in SUBSET Frames
  BY <1>1, <1>5
<1>8. AudioTyped'
  BY <1>1, <1>4, <1>6, <1>7 DEF AudioTyped
<1> QED
  BY <1>1, <1>2, <1>4, <1>8

(* The encoder a bitstream frame is handed to.                             *)
LEMMA TakerIs ==
  ASSUME NEW f, Audio!Takers(f) # {}
  PROVE  Encoders[Audio!Min(Audio!Takers(f))] \in Audio!E \ Audio!Pcm
<1> DEFINE S == Audio!Takers(f)
<1>1. \A i \in S : i \in 1 .. Len(Encoders) /\ Kind[Encoders[i]] = "bitstream"
  BY Places DEF Audio!Takers
<1>2. S \in SUBSET Nat
  BY <1>1
<1> HIDE DEF S
<1>3. \E i \in S : \A j \in S : i <= j
  BY <1>2, Smallest DEF S
<1>4. Audio!Min(S) \in S
  BY <1>3 DEF Audio!Min
<1>5. Encoders[Audio!Min(S)] \in Audio!E /\ Kind[Encoders[Audio!Min(S)]] = "bitstream"
  BY <1>1, <1>4, AudioConstants
<1> QED
  BY <1>5 DEF S, Audio!Pcm

LEMMA FilterHandOverDoes ==
  ASSUME AudioTyped, AudioHands, Audio!FilterHandOver
  PROVE  /\ AudioTyped' /\ fpc = Audio!Carries /\ fpc' = 0 /\ carried' = {}
         /\ \E f \in Frames : \E d \in Audio!E \ Audio!Pcm :
              /\ carried = {f}
              /\ \A e \in Audio!E :
                   encQ'[e].items = IF e = d THEN Append(encQ[e].items, f)
                                    ELSE encQ[e].items
         /\ UNCHANGED <<times, due, filterQ, enc, muxed, freed>>
<1>1. /\ fpc = Audio!Carries /\ fpc' = 0 /\ carried' = {}
      /\ \E f \in carried :
           LET e == Encoders[Audio!Min(Audio!Takers(f))]
           IN  \E q \in Audio!AddToQueue(encQ[e], f) : encQ' = [encQ EXCEPT ![e] = q]
      /\ UNCHANGED <<times, due, filterQ, enc, muxed, freed>>
  BY Places DEF Audio!FilterHandOver, Audio!input
<1>2. PICK f \in carried :
        LET e == Encoders[Audio!Min(Audio!Takers(f))]
        IN  \E q \in Audio!AddToQueue(encQ[e], f) : encQ' = [encQ EXCEPT ![e] = q]
  BY <1>1
<1> DEFINE d == Encoders[Audio!Min(Audio!Takers(f))]
<1>3. carried = {f} /\ Audio!Takers(f) # {}
  BY DEF AudioHands
<1>4. d \in Audio!E \ Audio!Pcm
  BY <1>3, TakerIs
<1>5. PICK q \in Audio!AddToQueue(encQ[d], f) : encQ' = [encQ EXCEPT ![d] = q]
  BY <1>2
<1> HIDE DEF d
<1>6. encQ \in [Audio!E -> Queue(Frames, Audio!E)] /\ carried \in SUBSET Frames
  BY DEF AudioTyped
<1>7. q \in Queue(Frames, Audio!E) /\ q.items = Append(encQ[d].items, f)
  <2>1. encQ[d] \in Queue(Frames, Audio!E) /\ f \in Frames
    BY <1>4, <1>6
  <2> QED
    BY <1>5, <2>1, AudioAdds
<1>8. /\ encQ' \in [Audio!E -> Queue(Frames, Audio!E)]
      /\ \A e \in Audio!E :
           encQ'[e].items = IF e = d THEN Append(encQ[e].items, f) ELSE encQ[e].items
  BY <1>4, <1>5, <1>6, <1>7
<1>9. fpc' \in Int /\ Audio!Gone <= fpc' /\ fpc' <= Audio!Carries
  BY <1>1, Places
<1>10. AudioTyped'
  BY <1>1, <1>8, <1>9 DEF AudioTyped
<1>11. f \in Frames
  BY <1>6
<1> QED
  BY <1>1, <1>3, <1>4, <1>8, <1>10, <1>11

LEMMA FilterReleaseDoes ==
  ASSUME AudioTyped, AudioHands, Audio!FilterRelease
  PROVE  /\ AudioTyped' /\ fpc' = 0 /\ filterQ.items # <<>>
         /\ \/ fpc = Len(Encoders) + 1
            \/ fpc = 1 /\ Head(filterQ.items).pair # 0
         /\ filterQ'.items = Tail(filterQ.items)
         /\ freed' = freed \cup {Head(filterQ.items)}
         /\ UNCHANGED <<times, due, carried, encQ, enc, muxed>>
<1>1. /\ fpc' = 0
      /\ \/ fpc = Len(Encoders) + 1
         \/ fpc = 1 /\ Head(filterQ.items).pair # 0
      /\ filterQ' \in Audio!RemoveFromQueue(filterQ)
      /\ freed' = freed \cup {Head(filterQ.items)}
      /\ UNCHANGED <<times, due, carried, encQ, enc, muxed>>
  BY Places DEF Audio!FilterRelease, Audio!Frame, Audio!IsPcm, Audio!input, Audio!coding
<1>2. filterQ.items # <<>>
  <2>1. Len(Encoders) \in Nat
    BY Places
  <2>2. 1 <= fpc /\ fpc <= Len(Encoders) + 1
    BY <1>1, <2>1
  <2> QED
    BY <2>2 DEF AudioHands
<1>3. filterQ \in Queue(Frames, {"filter"}) /\ freed \in SUBSET Frames
  BY DEF AudioTyped
<1>4. filterQ' \in Queue(Frames, {"filter"}) /\ filterQ'.items = Tail(filterQ.items)
  BY <1>1, <1>2, <1>3, AudioRemoves
<1>5. Head(filterQ.items) \in Frames
  BY <1>2, <1>3, QueueItems, Beheaded
<1>6. fpc' \in Int /\ Audio!Gone <= fpc' /\ fpc' <= Audio!Carries
  BY <1>1, Places
<1>7. freed' \in SUBSET Frames
  BY <1>1, <1>3, <1>5
<1>8. AudioTyped'
  BY <1>1, <1>4, <1>6, <1>7 DEF AudioTyped
<1> QED
  BY <1>1, <1>2, <1>4, <1>8
-----------------------------------------------------------------------------
(* What the encoder threads do to the state.                               *)
OnlyAt(e) ==
  /\ \A d \in Audio!E : d # e =>
       /\ enc'[d] = enc[d] /\ encQ'[d].items = encQ[d].items
       /\ muxed'[d] = muxed[d]
  /\ UNCHANGED <<times, due, filterQ, fpc, carried>>

LEMMA EncoderTypes ==
  ASSUME AudioTyped, NEW e \in Audio!E
  PROVE  /\ encQ[e] \in Queue(Frames, Audio!E) /\ encQ[e].items \in Seq(Frames)
         /\ enc[e] \in EncoderState
         /\ e \in Audio!Pcm => muxed[e] \in Seq(CodedFrame)
         /\ e \in Audio!Pcm => InHand(e, encQ[e].items, enc[e], muxed[e])
<1>1. encQ[e] \in Queue(Frames, Audio!E) /\ enc[e] \in EncoderState
      /\ (e \in Audio!Pcm => muxed[e] \in Seq(CodedFrame))
  BY DEF AudioTyped
<1>2. encQ[e].items \in Seq(Frames)
  BY <1>1, QueueItems
<1> QED
  BY <1>1, <1>2 DEF InHand

LEMMA HeadCaptured ==
  ASSUME AudioTyped, AudioFlows, AudioOwned, NEW e \in Audio!E, encQ[e].items # <<>>
  PROVE  Head(encQ[e].items).k \in 1 .. Len(times)
<1>1. encQ[e].items \in Seq(Frames)
  BY EncoderTypes
<1>2. CASE e \in Audio!Pcm
  <2>1. PICK n \in 0 .. Len(times), m \in 0 .. Len(times) :
          Flow(times, e, encQ[e].items, enc[e], muxed[e], n, m)
    BY <1>2 DEF AudioFlows
  <2>2. /\ n \in Nat /\ m \in Nat /\ m <= n /\ n <= Len(times) /\ Len(times) \in Nat
        /\ encQ[e].items = Copies(m, n)
    <3>1. InHand(e, encQ[e].items, enc[e], muxed[e]) /\ times \in Seq(Nat)
      BY <1>2, EncoderTypes DEF AudioTyped
    <3> QED
      BY <2>1, <3>1, FlowIs
  <2>3. m < n
    <3>1. m # n
      BY <2>2, CopiesAre
    <3> QED
      BY <2>2, <3>1
  <2>4. Head(encQ[e].items) = [k |-> m + 1, pair |-> 0]
    BY <2>2, <2>3, CopiesShrink
  <2> QED
    BY <2>2, <2>3, <2>4
<1>3. CASE e \notin Audio!Pcm
  <2> DEFINE f == Head(encQ[e].items)
  <2>1. f = encQ[e].items[1] /\ f \in Frames /\ 1 \in 1 .. Len(encQ[e].items)
    BY <1>1, Beheaded, SeqFacts
  <2>2. f \in ItemsOf(encQ[e].items)
    BY <2>1 DEF ItemsOf
  <2>3. OfEncoder(f) # {}
    BY <1>3, <2>2 DEF OfEncoder
  <2> HIDE DEF f
  <2>4. f \in OfCard(times)
    BY <2>1, <2>3 DEF AudioOwned
  <2> QED
    BY <2>4 DEF OfCard, f
<1> QED
  BY <1>2, <1>3

(* It opens, fails, sleeps, ends, or waits again.                          *)
EncoderMoves(e) ==
  \/ Audio!EncoderOpen(e) \/ Audio!EncoderFails(e) \/ Audio!EncoderSleep(e)
  \/ Audio!EncoderCancelled(e) \/ Audio!EncoderMore(e)

LEMMA EncoderMovesDoes ==
  ASSUME AudioTyped, NEW e \in Audio!E, EncoderMoves(e)
  PROVE  /\ AudioTyped' /\ OnlyAt(e) /\ UNCHANGED <<muxed, freed>>
         /\ encQ'[e].items = encQ[e].items
         /\ \/ enc' = enc
            \/ /\ enc[e].pc # "ended" /\ enc'[e].pc \in {"wait", "ended"}
               /\ enc'[e].pc = "ended" \/ enc[e].pc # "take"
               /\ enc'[e].coded = enc[e].coded /\ enc'[e].pcm = enc[e].pcm
               /\ enc'[e].cur = enc[e].cur /\ enc'[e].last = enc[e].last
               /\ enc'[e].num = enc[e].num
<1>1. /\ encQ[e] \in Queue(Frames, Audio!E) /\ enc[e] \in EncoderState
      /\ encQ \in [Audio!E -> Queue(Frames, Audio!E)] /\ enc \in [Audio!E -> EncoderState]
  BY DEF AudioTyped
<1>2. ASSUME NEW c \in {"wait", "ended"}, enc' = [enc EXCEPT ![e].pc = c],
             enc[e].pc # "ended", c = "ended" \/ enc[e].pc # "take"
      PROVE  /\ enc' \in [Audio!E -> EncoderState]
             /\ \A d \in Audio!E : d # e => enc'[d] = enc[d]
             /\ enc[e].pc # "ended" /\ enc'[e].pc \in {"wait", "ended"}
             /\ enc'[e].pc = "ended" \/ enc[e].pc # "take"
             /\ enc'[e].coded = enc[e].coded /\ enc'[e].pcm = enc[e].pcm
             /\ enc'[e].cur = enc[e].cur /\ enc'[e].last = enc[e].last
             /\ enc'[e].num = enc[e].num
  <2> DEFINE z == [enc[e] EXCEPT !.pc = c]
  <2>1. /\ z \in EncoderState /\ z.pc = c /\ z.coded = enc[e].coded /\ z.pcm = enc[e].pcm
        /\ z.cur = enc[e].cur /\ z.last = enc[e].last /\ z.num = enc[e].num
    BY <1>1 DEF EncoderState
  <2>2. enc' = [enc EXCEPT ![e] = z]
    BY <1>2
  <2> HIDE DEF z
  <2>3. enc'[e] = z /\ enc' \in [Audio!E -> EncoderState]
        /\ \A d \in Audio!E : d # e => enc'[d] = enc[d]
    BY <1>1, <2>1, <2>2
  <2> QED
    BY <1>2, <2>1, <2>3
<1>3. ASSUME NEW q \in Queue(Frames, Audio!E), q.items = encQ[e].items,
             encQ' = [encQ EXCEPT ![e] = q]
      PROVE  /\ encQ' \in [Audio!E -> Queue(Frames, Audio!E)]
             /\ \A d \in Audio!E : encQ'[d].items = encQ[d].items
  BY <1>1, <1>3
<1>4. CASE Audio!EncoderOpen(e)
  <2>1. /\ enc[e].pc = "open" /\ enc' = [enc EXCEPT ![e].pc = "wait"]
        /\ encQ' = [encQ EXCEPT ![e] = Audio!BroadcastIn(encQ[e])]
        /\ UNCHANGED <<times, due, filterQ, fpc, carried, muxed, freed>>
    BY <1>4 DEF Audio!EncoderOpen, Audio!Others, Audio!input
  <2>2. /\ Audio!BroadcastIn(encQ[e]) \in Queue(Frames, Audio!E)
        /\ Audio!BroadcastIn(encQ[e]).items = encQ[e].items
    BY <1>1, AudioBroadcasts
  <2>3. /\ encQ' \in [Audio!E -> Queue(Frames, Audio!E)]
        /\ \A d \in Audio!E : encQ'[d].items = encQ[d].items
    BY <1>3, <2>1, <2>2
  <2>4. AudioTyped'
    BY <1>2, <2>1, <2>3 DEF AudioTyped
  <2> QED
    BY <1>2, <2>1, <2>3, <2>4 DEF OnlyAt
<1>5. CASE Audio!EncoderFails(e)
  <2>1. /\ enc[e].pc # "ended" /\ enc' = [enc EXCEPT ![e].pc = "ended"]
        /\ UNCHANGED <<times, due, filterQ, fpc, carried, encQ, muxed, freed>>
    BY <1>5 DEF Audio!EncoderFails, Audio!Others, Audio!input
  <2>2. AudioTyped'
    BY <1>2, <2>1 DEF AudioTyped
  <2> QED
    BY <1>2, <2>1, <2>2 DEF OnlyAt
<1>6. CASE Audio!EncoderSleep(e)
  <2>1. /\ encQ' = [encQ EXCEPT ![e] = Audio!SleepIn(encQ[e], e)]
        /\ UNCHANGED <<times, due, filterQ, fpc, carried, enc, muxed, freed>>
    BY <1>6 DEF Audio!EncoderSleep, Audio!Others, Audio!input
  <2>2. /\ Audio!SleepIn(encQ[e], e) \in Queue(Frames, Audio!E)
        /\ Audio!SleepIn(encQ[e], e).items = encQ[e].items
    BY <1>1, AudioSleeps
  <2>3. /\ encQ' \in [Audio!E -> Queue(Frames, Audio!E)]
        /\ \A d \in Audio!E : encQ'[d].items = encQ[d].items
    BY <1>3, <2>1, <2>2
  <2>4. AudioTyped'
    BY <2>1, <2>3 DEF AudioTyped
  <2> QED
    BY <2>1, <2>3, <2>4 DEF OnlyAt
<1>7. CASE Audio!EncoderCancelled(e)
  <2>1. /\ enc[e].pc = "wait" /\ enc' = [enc EXCEPT ![e].pc = "ended"]
        /\ UNCHANGED <<times, due, filterQ, fpc, carried, encQ, muxed, freed>>
    BY <1>7 DEF Audio!EncoderCancelled, Audio!Others, Audio!input
  <2>2. AudioTyped'
    BY <1>2, <2>1 DEF AudioTyped
  <2> QED
    BY <1>2, <2>1, <2>2 DEF OnlyAt
<1>8. CASE Audio!EncoderMore(e)
  <2>1. /\ enc[e].pc = "code" /\ enc' = [enc EXCEPT ![e].pc = "wait"]
        /\ UNCHANGED <<times, due, filterQ, fpc, carried, encQ, muxed, freed>>
    BY <1>8 DEF Audio!EncoderMore, Audio!Others, Audio!input
  <2>2. AudioTyped'
    BY <1>2, <2>1 DEF AudioTyped
  <2> QED
    BY <1>2, <2>1, <2>2 DEF OnlyAt
<1> QED
  BY <1>4, <1>5, <1>6, <1>7, <1>8 DEF EncoderMoves

(* What the state is after its time started again, or not.                 *)
StateTaken(s, e, t) == [Audio!Restarted(s, e, t) EXCEPT !.last = t, !.pc = "take"]

LEMMA RestartedIs ==
  ASSUME NEW s \in EncoderState, NEW e, NEW t \in Nat,
         NEW z, z = StateTaken(s, e, t)
  PROVE  /\ z \in EncoderState /\ z.pc = "take" /\ z.last = t
         /\ IF s.cur = Audio!None \/ t - s.last >= Threshold[e]
            THEN z.cur = t /\ z.pcm = <<>> /\ z.coded = <<>> /\ z.num = 0
            ELSE z.cur = s.cur /\ z.pcm = s.pcm /\ z.coded = s.coded /\ z.num = s.num
<1> DEFINE y == Audio!Restarted(s, e, t)
<1>1. <<>> \in Seq(Sample)
  BY EmptySeq
<1>2. /\ y \in EncoderState
      /\ IF s.cur = Audio!None \/ t - s.last >= Threshold[e]
         THEN y.cur = t /\ y.pcm = <<>> /\ y.coded = <<>> /\ y.num = 0
         ELSE y = s
  <2>1. CASE s.cur = Audio!None \/ t - s.last >= Threshold[e]
    <3>1. y = [s EXCEPT !.cur = t, !.pcm = <<>>, !.coded = <<>>, !.num = 0]
      BY <2>1 DEF Audio!Restarted
    <3> HIDE DEF y
    <3>2. y \in EncoderState /\ y.cur = t /\ y.pcm = <<>> /\ y.coded = <<>> /\ y.num = 0
      BY <1>1, <3>1 DEF EncoderState
    <3> QED
      BY <2>1, <3>2
  <2>2. CASE ~(s.cur = Audio!None \/ t - s.last >= Threshold[e])
    BY <2>2 DEF Audio!Restarted
  <2> QED
    BY <2>1, <2>2
<1>3. z = [y EXCEPT !.last = t, !.pc = "take"]
  BY DEF StateTaken
<1> HIDE DEF y
<1>4. /\ z \in EncoderState /\ z.pc = "take" /\ z.last = t
      /\ z.cur = y.cur /\ z.pcm = y.pcm /\ z.coded = y.coded /\ z.num = y.num
  BY <1>2, <1>3 DEF EncoderState
<1> QED
  BY <1>2, <1>4

LEMMA EncoderTakeDoes ==
  ASSUME AudioTyped, AudioFlows, AudioOwned, NEW e \in Audio!E, Audio!EncoderTake(e)
  PROVE  /\ AudioTyped' /\ OnlyAt(e) /\ UNCHANGED <<encQ, muxed, freed>>
         /\ enc[e].pc = "wait" /\ encQ[e].items # <<>>
         /\ enc'[e].pc = "take" /\ enc'[e].last = times[Head(encQ[e].items).k]
         /\ IF \/ enc[e].cur = Audio!None
               \/ times[Head(encQ[e].items).k] - enc[e].last >= Threshold[e]
            THEN /\ enc'[e].cur = times[Head(encQ[e].items).k] /\ enc'[e].pcm = <<>>
                 /\ enc'[e].coded = <<>> /\ enc'[e].num = 0
            ELSE /\ enc'[e].cur = enc[e].cur /\ enc'[e].pcm = enc[e].pcm
                 /\ enc'[e].coded = enc[e].coded /\ enc'[e].num = enc[e].num
<1> DEFINE t == times[Head(encQ[e].items).k]
<1> DEFINE z == StateTaken(enc[e], e, t)
<1>1. /\ enc[e].pc = "wait" /\ encQ[e].items # <<>> /\ enc' = [enc EXCEPT ![e] = z]
      /\ UNCHANGED <<times, due, filterQ, fpc, carried, encQ, muxed, freed>>
  BY DEF Audio!EncoderTake, Audio!Others, Audio!input, StateTaken
<1>2. t \in Nat
  <2>1. times \in Seq(Nat)
    BY DEF AudioTyped
  <2>2. Head(encQ[e].items).k \in 1 .. Len(times)
    BY <1>1, HeadCaptured
  <2> QED
    BY <2>1, <2>2, ElementOfSeq
<1>3. enc[e] \in EncoderState /\ enc \in [Audio!E -> EncoderState]
  BY DEF AudioTyped
<1> HIDE DEF t
<1>4. /\ z \in EncoderState /\ z.pc = "take" /\ z.last = t
      /\ IF enc[e].cur = Audio!None \/ t - enc[e].last >= Threshold[e]
         THEN z.cur = t /\ z.pcm = <<>> /\ z.coded = <<>> /\ z.num = 0
         ELSE /\ z.cur = enc[e].cur /\ z.pcm = enc[e].pcm
              /\ z.coded = enc[e].coded /\ z.num = enc[e].num
  BY <1>2, <1>3, RestartedIs
<1> HIDE DEF z
<1>5. /\ enc' \in [Audio!E -> EncoderState] /\ enc'[e] = z
      /\ \A d \in Audio!E : d # e => enc'[d] = enc[d]
  BY <1>1, <1>3, <1>4
<1>6. AudioTyped'
  BY <1>1, <1>5 DEF AudioTyped
<1>7. OnlyAt(e)
  BY <1>1, <1>5 DEF OnlyAt
<1> QED
  BY <1>1, <1>4, <1>5, <1>6, <1>7 DEF t

LEMMA EncoderPushDoes ==
  ASSUME AudioTyped, AudioHands, AudioFlows, AudioOwned,
         NEW e \in Audio!E, Audio!EncoderPush(e)
  PROVE  /\ AudioTyped' /\ OnlyAt(e) /\ UNCHANGED <<muxed, freed>>
         /\ e \in Audio!Pcm /\ enc[e].pc = "take" /\ enc'[e].pc = "code"
         /\ enc'[e].pcm = enc[e].pcm \o Audio!Samples(Head(encQ[e].items).k)
         /\ enc'[e].coded = enc[e].coded /\ enc'[e].cur = enc[e].cur
         /\ enc'[e].last = enc[e].last /\ enc'[e].num = enc[e].num
         /\ encQ[e].items # <<>> /\ encQ'[e].items = Tail(encQ[e].items)
<1> DEFINE k == Head(encQ[e].items).k
<1> DEFINE p == enc[e].pcm \o Audio!Samples(k)
<1> DEFINE z == [enc[e] EXCEPT !.pc = "code", !.pcm = p]
<1>1. /\ e \in Audio!Pcm /\ enc[e].pc = "take" /\ encQ[e].items # <<>>
      /\ enc' = [enc EXCEPT ![e].pc = "code", ![e].pcm = p]
      /\ \E q \in Audio!RemoveFromQueue(encQ[e]) : encQ' = [encQ EXCEPT ![e] = q]
      /\ UNCHANGED <<times, due, filterQ, fpc, carried, muxed, freed>>
  BY DEF Audio!EncoderPush, Audio!Others, Audio!input, Audio!Samples, AudioHands
<1>2. /\ enc[e] \in EncoderState /\ enc \in [Audio!E -> EncoderState]
      /\ encQ \in [Audio!E -> Queue(Frames, Audio!E)]
  BY DEF AudioTyped
<1>3. p \in Seq(Sample)
  <2>1. k \in Nat
    <3>1. k \in 1 .. Len(times) /\ Len(times) \in Nat
      BY <1>1, HeadCaptured, LenProperties DEF AudioTyped
    <3> QED
      BY <3>1
  <2> DEFINE a == enc[e].pcm
  <2> DEFINE x == Audio!Samples(k)
  <2>2. x \in Seq(Sample) /\ a \in Seq(Sample)
    BY <1>2, <2>1, SamplesAre, EncoderFields
  <2> HIDE DEF a, x
  <2>3. a \o x \in Seq(Sample)
    BY <2>2, SampleConcat
  <2> QED
    BY <2>3 DEF a, x
<1> HIDE DEF p
<1>4. /\ z \in EncoderState /\ z.pc = "code" /\ z.pcm = p
      /\ z.coded = enc[e].coded /\ z.cur = enc[e].cur
      /\ z.last = enc[e].last /\ z.num = enc[e].num
  BY <1>2, <1>3 DEF EncoderState
<1>5. enc' = [enc EXCEPT ![e] = z]
  BY <1>1, <1>2
<1> HIDE DEF z
<1>6. /\ enc' \in [Audio!E -> EncoderState] /\ enc'[e] = z
      /\ \A d \in Audio!E : d # e => enc'[d] = enc[d]
  BY <1>2, <1>4, <1>5
<1>7. PICK q \in Audio!RemoveFromQueue(encQ[e]) : encQ' = [encQ EXCEPT ![e] = q]
  BY <1>1
<1>8. q \in Queue(Frames, Audio!E) /\ q.items = Tail(encQ[e].items)
  BY <1>1, <1>2, <1>7, AudioRemoves
<1>9. /\ encQ' \in [Audio!E -> Queue(Frames, Audio!E)] /\ encQ'[e] = q
      /\ \A d \in Audio!E : d # e => encQ'[d] = encQ[d]
  BY <1>2, <1>7, <1>8
<1>10. AudioTyped'
  BY <1>1, <1>6, <1>9 DEF AudioTyped
<1>11. OnlyAt(e)
  BY <1>1, <1>6, <1>9 DEF OnlyAt
<1> QED
  BY <1>1, <1>4, <1>6, <1>8, <1>9, <1>10, <1>11 DEF p

(* One codec frame more, and the coded frame it completes.                 *)
LEMMA CodedIs ==
  ASSUME NEW s \in EncoderState, NEW e \in Audio!Pcm, Len(s.pcm) >= CodecFrame[e],
         NEW z, z = Audio!Coded(s, e)
  PROVE  /\ z \in EncoderState /\ z.pc = s.pc /\ z.last = s.last /\ z.cur = s.cur
         /\ z.pcm = SubSeq(s.pcm, CodecFrame[e] + 1, Len(s.pcm))
         /\ z.coded = s.coded \o SubSeq(s.pcm, 1, CodecFrame[e])
         /\ z.num = s.num + 1
<1> DEFINE f == CodecFrame[e]
<1> DEFINE c == s.pcm
<1> DEFINE c1 == SubSeq(c, 1, f)
<1> DEFINE c2 == SubSeq(c, f + 1, Len(c))
<1> DEFINE b == s.coded
<1>1. f \in Nat /\ f > 0 /\ Len(c) >= f /\ c \in Seq(Sample) /\ b \in Seq(Sample)
  BY PcmConstants, EncoderFields
<1>2. c1 \in Seq(Sample) /\ c2 \in Seq(Sample)
  <2> HIDE DEF c, f
  <2> QED
    BY <1>1, FifoCut
<1>3. z = [s EXCEPT !.pcm = c2, !.coded = b \o c1, !.num = s.num + 1]
  BY DEF Audio!Coded
<1> HIDE DEF c1, c2, b, c, f
<1> DEFINE w == b \o c1
<1>4. w \in Seq(Sample) /\ s.num + 1 \in Nat
  <2>1. w \in Seq(Sample)
    BY <1>1, <1>2, SampleConcat
  <2>2. s.num \in Nat
    BY EncoderFields
  <2> QED
    BY <2>1, <2>2
<1>5. z = [s EXCEPT !.pcm = c2, !.coded = w, !.num = s.num + 1]
  BY <1>3
<1> HIDE DEF w
<1>6. /\ z \in EncoderState /\ z.pc = s.pc /\ z.last = s.last /\ z.cur = s.cur
      /\ z.pcm = c2 /\ z.coded = w /\ z.num = s.num + 1
  BY <1>2, <1>4, <1>5 DEF EncoderState
<1> QED
  BY <1>6 DEF c1, c2, b, c, f, w

(* No coded frame is due before the time is known.                         *)
LEMMA TimeKnown ==
  ASSUME AudioTyped, AudioFlows, NEW e \in Audio!Pcm,
         enc[e].pc = "code", Len(enc[e].pcm) >= CodecFrame[e]
  PROVE  /\ enc[e].cur \in Nat
         /\ Kind[e] = "mp2" => enc[e].num < FramesPerPes[e]
<1> DEFINE s == enc[e]
<1>1. PICK n \in 0 .. Len(times), m \in 0 .. Len(times) :
        Flow(times, e, encQ[e].items, s, muxed[e], n, m)
  BY DEF AudioFlows
<1>2. OnTime(times, e, s, m) /\ Reached(s, m) = m
  BY <1>1 DEF Flow, Reached
<1>3. m \in Nat
  BY <1>1
<1>4. s \in EncoderState /\ CodecFrame[e] \in Nat /\ CodecFrame[e] > 0
  BY PcmConstants DEF AudioTyped
<1>5. Held(s) # <<>>
  <2>1. InHand(e, encQ[e].items, s, muxed[e])
    BY PcmConstants, EncoderTypes
  <2>2. /\ Held(s) \in Seq(Sample) /\ Len(Held(s)) = Len(s.coded) + Len(s.pcm)
        /\ Len(s.coded) \in Nat /\ Len(s.pcm) \in Nat
    BY <2>1, HandTypes
  <2> DEFINE h == Held(s)
  <2> DEFINE a == Len(s.coded)
  <2> DEFINE c == Len(s.pcm)
  <2>3. Len(h) = a + c /\ a \in Nat /\ c \in Nat /\ c >= CodecFrame[e]
    BY <2>2
  <2> HIDE DEF h, a, c
  <2>4. Len(h) # 0
    BY <1>4, <2>3
  <2>5. h # <<>>
    BY <2>4, EmptySeq
  <2> QED
    BY <2>5 DEF h
<1> HIDE DEF s
<1>6. s.cur # Audio!None
  BY <1>2, <1>3, <1>5 DEF OnTime
<1>7. s.cur \in Nat
  BY <1>4, <1>6, EncoderFields
<1>8. Kind[e] = "mp2" => s.num < FramesPerPes[e]
  BY <1>2 DEF OnTime
<1> QED
  BY <1>7, <1>8 DEF s

Full(s, e) ==
  IF Kind[e] = "mp2" THEN s.num + 1 >= FramesPerPes[e] ELSE s.num + 1 = FramesPerPes[e]

LEMMA EncoderCodeDoes ==
  ASSUME AudioTyped, AudioHands, AudioFlows, NEW e \in Audio!E, Audio!EncoderCode(e)
  PROVE  /\ AudioTyped' /\ OnlyAt(e) /\ UNCHANGED <<encQ, freed>>
         /\ e \in Audio!Pcm /\ enc[e].pc = "code" /\ Len(enc[e].pcm) >= CodecFrame[e]
         /\ enc'[e].pc = "code" /\ enc'[e].last = enc[e].last
         /\ enc'[e].pcm = SubSeq(enc[e].pcm, CodecFrame[e] + 1, Len(enc[e].pcm))
         /\ IF Full(enc[e], e)
            THEN /\ enc'[e].coded = <<>> /\ enc'[e].num = 0
                 /\ enc'[e].cur = enc[e].cur + FramesPerPes[e] * CodecFrame[e]
                 /\ muxed'[e] = Append(muxed[e],
                      [pts |-> enc[e].cur,
                       samples |-> enc[e].coded \o SubSeq(enc[e].pcm, 1, CodecFrame[e])])
            ELSE /\ enc'[e].coded = enc[e].coded \o SubSeq(enc[e].pcm, 1, CodecFrame[e])
                 /\ enc'[e].num = enc[e].num + 1 /\ enc'[e].cur = enc[e].cur
                 /\ muxed'[e] = muxed[e]
<1> DEFINE y == Audio!Coded(enc[e], e)
<1> DEFINE l == FramesPerPes[e] * CodecFrame[e]
<1>1. /\ enc[e].pc = "code" /\ Len(enc[e].pcm) >= CodecFrame[e]
      /\ IF ~Audio!PesFull(y, e)
         THEN enc' = [enc EXCEPT ![e] = y] /\ UNCHANGED muxed
         ELSE /\ muxed' = [muxed EXCEPT ![e] =
                   Append(muxed[e], [pts |-> y.cur, samples |-> y.coded])]
              /\ enc' = [enc EXCEPT ![e] = [y EXCEPT !.coded = <<>>, !.num = 0, !.cur = y.cur + l]]
      /\ UNCHANGED <<times, due, filterQ, fpc, carried, encQ, freed>>
  BY DEF Audio!EncoderCode, Audio!Others, Audio!input
<1>2. /\ enc[e] \in EncoderState /\ enc \in [Audio!E -> EncoderState]
      /\ DOMAIN muxed = Audio!E
      /\ \A d \in Audio!Pcm : muxed[d] \in Seq(CodedFrame)
  BY DEF AudioTyped
<1>3. e \in Audio!Pcm
  BY <1>1 DEF AudioHands
<1>4. enc[e].cur \in Nat
  BY <1>1, <1>3, TimeKnown
<1>5. /\ y \in EncoderState /\ y.pc = "code" /\ y.last = enc[e].last /\ y.cur = enc[e].cur
      /\ y.pcm = SubSeq(enc[e].pcm, CodecFrame[e] + 1, Len(enc[e].pcm))
      /\ y.coded = enc[e].coded \o SubSeq(enc[e].pcm, 1, CodecFrame[e])
      /\ y.num = enc[e].num + 1
  <2> DEFINE s == enc[e]
  <2>1. s \in EncoderState /\ Len(s.pcm) >= CodecFrame[e] /\ s.pc = "code"
    BY <1>1, <1>2
  <2>2. y = Audio!Coded(s, e)
    OBVIOUS
  <2> HIDE DEF s, y
  <2>3. /\ y \in EncoderState /\ y.pc = s.pc /\ y.last = s.last /\ y.cur = s.cur
        /\ y.pcm = SubSeq(s.pcm, CodecFrame[e] + 1, Len(s.pcm))
        /\ y.coded = s.coded \o SubSeq(s.pcm, 1, CodecFrame[e])
        /\ y.num = s.num + 1
    BY <1>3, <2>1, <2>2, CodedIs
  <2> QED
    BY <2>1, <2>3 DEF s
<1>6. Audio!PesFull(y, e) <=> Full(enc[e], e)
  BY <1>5 DEF Audio!PesFull, Full
<1> HIDE DEF y
<1>7. CASE ~Full(enc[e], e)
  <2>1. enc' = [enc EXCEPT ![e] = y] /\ muxed' = muxed
    BY <1>1, <1>6, <1>7
  <2>2. /\ enc' \in [Audio!E -> EncoderState] /\ enc'[e] = y
        /\ \A d \in Audio!E : d # e => enc'[d] = enc[d]
    BY <1>2, <1>5, <2>1
  <2>3. AudioTyped'
    BY <1>1, <2>1, <2>2 DEF AudioTyped
  <2>4. OnlyAt(e)
    BY <1>1, <2>1, <2>2 DEF OnlyAt
  <2>5. enc'[e].pc = "code" /\ enc'[e].last = enc[e].last
        /\ enc'[e].pcm = SubSeq(enc[e].pcm, CodecFrame[e] + 1, Len(enc[e].pcm))
        /\ enc'[e].coded = enc[e].coded \o SubSeq(enc[e].pcm, 1, CodecFrame[e])
        /\ enc'[e].num = enc[e].num + 1 /\ enc'[e].cur = enc[e].cur
    BY <1>5, <2>2
  <2> QED
    BY <1>1, <1>3, <1>7, <2>1, <2>3, <2>4, <2>5
<1>8. CASE Full(enc[e], e)
  <2> DEFINE z == [y EXCEPT !.coded = <<>>, !.num = 0, !.cur = y.cur + l]
  <2> DEFINE x == [pts |-> y.cur, samples |-> y.coded]
  <2>1. muxed' = [muxed EXCEPT ![e] = Append(muxed[e], x)] /\ enc' = [enc EXCEPT ![e] = z]
    BY <1>1, <1>6, <1>8
  <2>2. l \in Nat
    <3> DEFINE a == FramesPerPes[e]
    <3> DEFINE b == CodecFrame[e]
    <3>1. a \in Nat /\ b \in Nat
      BY <1>3, PcmConstants
    <3> HIDE DEF a, b
    <3>2. a * b \in Nat
      BY <3>1
    <3> QED
      BY <3>2 DEF a, b
  <2> HIDE DEF l
  <2>3. y.cur + l \in Nat /\ <<>> \in Seq(Sample)
    <3> DEFINE u == y.cur
    <3>1. u \in Nat
      BY <1>4, <1>5
    <3> HIDE DEF u
    <3>2. u + l \in Nat
      BY <2>2, <3>1
    <3> QED
      BY <3>2, EmptySeq DEF u
  <2>4. /\ z \in EncoderState /\ z.pc = y.pc /\ z.last = y.last /\ z.pcm = y.pcm
        /\ z.coded = <<>> /\ z.num = 0 /\ z.cur = y.cur + l
    BY <1>5, <2>3 DEF EncoderState
  <2>5. x \in CodedFrame
    BY <1>4, <1>5, EncoderFields DEF CodedFrame
  <2> HIDE DEF z, x
  <2>6. /\ enc' \in [Audio!E -> EncoderState] /\ enc'[e] = z
        /\ \A d \in Audio!E : d # e => enc'[d] = enc[d]
    BY <1>2, <2>1, <2>4
  <2>7. /\ DOMAIN muxed' = Audio!E /\ muxed'[e] = Append(muxed[e], x)
        /\ \A d \in Audio!E : d # e => muxed'[d] = muxed[d]
    BY <1>2, <2>1
  <2>8. \A d \in Audio!Pcm : muxed'[d] \in Seq(CodedFrame)
    <3>1. Append(muxed[e], x) \in Seq(CodedFrame)
      BY <1>2, <1>3, <2>5, AppendProperties
    <3>2. \A d \in Audio!Pcm : d \in Audio!E
      BY DEF Audio!Pcm
    <3> QED
      BY <1>2, <2>7, <3>1, <3>2
  <2>9. AudioTyped'
    BY <1>1, <2>6, <2>7, <2>8 DEF AudioTyped
  <2>10. OnlyAt(e)
    BY <1>1, <2>6, <2>7 DEF OnlyAt
  <2>11. enc'[e].pc = "code" /\ enc'[e].last = enc[e].last
         /\ enc'[e].pcm = SubSeq(enc[e].pcm, CodecFrame[e] + 1, Len(enc[e].pcm))
         /\ enc'[e].coded = <<>> /\ enc'[e].num = 0
         /\ enc'[e].cur = enc[e].cur + FramesPerPes[e] * CodecFrame[e]
    BY <1>5, <2>4, <2>6 DEF l
  <2>12. muxed'[e] = Append(muxed[e],
           [pts |-> enc[e].cur,
            samples |-> enc[e].coded \o SubSeq(enc[e].pcm, 1, CodecFrame[e])])
    BY <1>5, <2>7 DEF x
  <2> QED
    BY <1>1, <1>3, <1>8, <2>9, <2>10, <2>11, <2>12
<1> QED
  BY <1>7, <1>8

LEMMA EncoderLosesPesDoes ==
  ASSUME AudioTyped, AudioHands, NEW e \in Audio!E, Audio!EncoderLosesPes(e)
  PROVE  /\ AudioTyped' /\ OnlyAt(e) /\ UNCHANGED <<encQ, muxed, freed>>
         /\ e \in Audio!Pcm /\ enc[e].pc = "code" /\ Len(enc[e].pcm) >= CodecFrame[e]
         /\ enc'[e].last = enc[e].last /\ enc'[e].cur = enc[e].cur
         /\ IF Kind[e] = "mp2"
            THEN /\ enc'[e].pc = "ended" /\ enc'[e].num = enc[e].num
                 /\ enc'[e].pcm = enc[e].pcm /\ enc'[e].coded = enc[e].coded
            ELSE /\ enc'[e].pc = "code" /\ enc'[e].num = enc[e].num + 1
                 /\ enc'[e].pcm = SubSeq(enc[e].pcm, CodecFrame[e] + 1, Len(enc[e].pcm))
                 /\ enc'[e].coded = enc[e].coded \o SubSeq(enc[e].pcm, 1, CodecFrame[e])
<1> DEFINE y == Audio!Coded(enc[e], e)
<1> DEFINE x == [enc[e] EXCEPT !.pc = "ended"]
<1> DEFINE z == IF Kind[e] = "mp2" THEN x ELSE y
<1>1. /\ enc[e].pc = "code" /\ Len(enc[e].pcm) >= CodecFrame[e]
      /\ enc' = [enc EXCEPT ![e] = z]
      /\ UNCHANGED <<times, due, filterQ, fpc, carried, encQ, muxed, freed>>
  BY DEF Audio!EncoderLosesPes, Audio!Others, Audio!input
<1>2. enc[e] \in EncoderState /\ enc \in [Audio!E -> EncoderState]
  BY DEF AudioTyped
<1>3. e \in Audio!Pcm
  BY <1>1 DEF AudioHands
<1>4. /\ y \in EncoderState /\ y.pc = "code" /\ y.last = enc[e].last /\ y.cur = enc[e].cur
      /\ y.pcm = SubSeq(enc[e].pcm, CodecFrame[e] + 1, Len(enc[e].pcm))
      /\ y.coded = enc[e].coded \o SubSeq(enc[e].pcm, 1, CodecFrame[e])
      /\ y.num = enc[e].num + 1
  <2> DEFINE s == enc[e]
  <2>1. s \in EncoderState /\ Len(s.pcm) >= CodecFrame[e] /\ s.pc = "code"
    BY <1>1, <1>2
  <2>2. y = Audio!Coded(s, e)
    OBVIOUS
  <2> HIDE DEF s, y
  <2>3. /\ y \in EncoderState /\ y.pc = s.pc /\ y.last = s.last /\ y.cur = s.cur
        /\ y.pcm = SubSeq(s.pcm, CodecFrame[e] + 1, Len(s.pcm))
        /\ y.coded = s.coded \o SubSeq(s.pcm, 1, CodecFrame[e])
        /\ y.num = s.num + 1
    BY <1>3, <2>1, <2>2, CodedIs
  <2> QED
    BY <2>1, <2>3 DEF s
<1>5. /\ x \in EncoderState /\ x.pc = "ended" /\ x.last = enc[e].last
      /\ x.cur = enc[e].cur /\ x.pcm = enc[e].pcm /\ x.coded = enc[e].coded
      /\ x.num = enc[e].num
  BY <1>2 DEF EncoderState
<1> HIDE DEF x, y
<1>6. z \in EncoderState
  BY <1>4, <1>5
<1>7. z = IF Kind[e] = "mp2" THEN x ELSE y
  OBVIOUS
<1> HIDE DEF z
<1>8. /\ enc' \in [Audio!E -> EncoderState] /\ enc'[e] = z
      /\ \A d \in Audio!E : d # e => enc'[d] = enc[d]
  BY <1>1, <1>2, <1>6
<1>9. AudioTyped'
  BY <1>1, <1>8 DEF AudioTyped
<1>10. OnlyAt(e)
  BY <1>1, <1>8 DEF OnlyAt
<1>11. CASE Kind[e] = "mp2"
  BY <1>1, <1>3, <1>5, <1>7, <1>8, <1>9, <1>10, <1>11
<1>12. CASE Kind[e] # "mp2"
  BY <1>1, <1>3, <1>4, <1>7, <1>8, <1>9, <1>10, <1>12
<1> QED
  BY <1>11, <1>12

(* The frame a bitstream encoder has passed on is released.                *)
LEMMA BitstreamPassDoes ==
  ASSUME AudioTyped, AudioHands, NEW e \in Audio!E, Audio!BitstreamPass(e)
  PROVE  /\ AudioTyped' /\ OnlyAt(e) /\ e \notin Audio!Pcm
         /\ enc'[e].pc = "wait" /\ encQ[e].items # <<>>
         /\ encQ'[e].items = Tail(encQ[e].items)
         /\ freed' = freed \cup {Head(encQ[e].items)}
<1>1. /\ e \notin Audio!Pcm /\ encQ[e].items # <<>>
      /\ enc' = [enc EXCEPT ![e].pc = "wait"]
      /\ \E q \in Audio!RemoveFromQueue(encQ[e]) : encQ' = [encQ EXCEPT ![e] = q]
      /\ \/ muxed' = [muxed EXCEPT ![e] = Append(muxed[e], Head(encQ[e].items))]
         \/ muxed' = muxed
      /\ freed' = freed \cup {Head(encQ[e].items)}
      /\ UNCHANGED <<times, due, filterQ, fpc, carried>>
  BY DEF Audio!BitstreamPass, Audio!Others, Audio!input, AudioHands
<1>2. /\ enc \in [Audio!E -> EncoderState] /\ encQ \in [Audio!E -> Queue(Frames, Audio!E)]
      /\ DOMAIN muxed = Audio!E /\ freed \in SUBSET Frames
      /\ \A d \in Audio!Pcm : muxed[d] \in Seq(CodedFrame)
  BY DEF AudioTyped
<1>3. Head(encQ[e].items) \in Frames
  BY <1>1, EncoderTypes, Beheaded
<1>4. PICK q \in Audio!RemoveFromQueue(encQ[e]) : encQ' = [encQ EXCEPT ![e] = q]
  BY <1>1
<1>5. q \in Queue(Frames, Audio!E) /\ q.items = Tail(encQ[e].items)
  BY <1>1, <1>2, <1>4, AudioRemoves
<1>6. /\ encQ' \in [Audio!E -> Queue(Frames, Audio!E)] /\ encQ'[e] = q
      /\ \A d \in Audio!E : d # e => encQ'[d] = encQ[d]
  BY <1>2, <1>4, <1>5
<1> DEFINE z == [enc[e] EXCEPT !.pc = "wait"]
<1>7. z \in EncoderState /\ z.pc = "wait" /\ enc' = [enc EXCEPT ![e] = z]
  BY <1>1, <1>2 DEF EncoderState
<1> HIDE DEF z
<1>8. /\ enc' \in [Audio!E -> EncoderState] /\ enc'[e] = z
      /\ \A d \in Audio!E : d # e => enc'[d] = enc[d]
  BY <1>2, <1>7
<1>9. DOMAIN muxed' = Audio!E /\ \A d \in Audio!E : d # e => muxed'[d] = muxed[d]
  BY <1>1, <1>2
<1>10. \A d \in Audio!Pcm : muxed'[d] \in Seq(CodedFrame)
  BY <1>1, <1>2, <1>9 DEF Audio!Pcm
<1>11. freed' \in SUBSET Frames
  BY <1>1, <1>2, <1>3
<1>12. AudioTyped'
  BY <1>1, <1>6, <1>8, <1>9, <1>10, <1>11 DEF AudioTyped
<1>13. OnlyAt(e)
  BY <1>1, <1>6, <1>8, <1>9 DEF OnlyAt
<1> QED
  BY <1>1, <1>5, <1>6, <1>7, <1>8, <1>12, <1>13

(* obe_close wakes threads and joins those that have ended.                *)
LEMMA CloseDoes ==
  ASSUME AudioTyped, NEW n \in 1 .. Len(Encoders) + 1, Audio!Cancel(n) \/ Audio!Join(n)
  PROVE  /\ AudioTyped' /\ filterQ'.items = filterQ.items
         /\ \A e \in Audio!E : encQ'[e].items = encQ[e].items
         /\ UNCHANGED <<times, due, fpc, carried, enc, muxed, freed>>
<1>1. CASE Audio!Join(n)
  <2>1. UNCHANGED <<times, due, filterQ, fpc, carried, encQ, enc, muxed, freed>>
    BY <1>1 DEF Audio!Join, Audio!input, Audio!coding
  <2> QED
    BY <2>1 DEF AudioTyped
<1>2. CASE Audio!Cancel(n)
  <2>1. /\ IF n = 1 THEN filterQ' \in Audio!SignalIn(filterQ) /\ UNCHANGED encQ
           ELSE /\ UNCHANGED filterQ
                /\ \E q \in Audio!SignalIn(encQ[Audio!Victims[n]]) :
                     encQ' = [encQ EXCEPT ![Audio!Victims[n]] = q]
        /\ UNCHANGED <<times, due, fpc, carried, enc, muxed, freed>>
    BY <1>2 DEF Audio!Cancel, Audio!input
  <2>2. filterQ \in Queue(Frames, {"filter"}) /\ encQ \in [Audio!E -> Queue(Frames, Audio!E)]
    BY DEF AudioTyped
  <2>3. CASE n = 1
    <3>1. filterQ' \in Queue(Frames, {"filter"}) /\ filterQ'.items = filterQ.items
      BY <2>1, <2>2, <2>3, AudioSignals
    <3>2. AudioTyped'
      BY <2>1, <2>3, <3>1 DEF AudioTyped
    <3> QED
      BY <2>1, <2>3, <3>1, <3>2
  <2>4. CASE n # 1
    <3> DEFINE e == Audio!Victims[n]
    <3>1. e \in Audio!E
      <4>1. Encoders \in Seq(Audio!E)
        BY EncodersAssumption DEF Audio!ConstantsAreSound
      <4>2. /\ <<"filter">> \in Seq(Audio!E \cup {"filter"})
            /\ Encoders \in Seq(Audio!E \cup {"filter"})
        <5>1. \A i \in 1 .. Len(Encoders) : Encoders[i] \in Audio!E \cup {"filter"}
          BY AudioConstants
        <5>2. Encoders = [i \in 1 .. Len(Encoders) |-> Encoders[i]]
          BY <4>1
        <5>3. Encoders \in Seq(Audio!E \cup {"filter"})
          BY <5>1, <5>2, AudioConstants, IsASeq
        <5> QED
          BY <5>3
      <4>3. Len(<<"filter">>) = 1
        OBVIOUS
      <4>4. \A i \in 1 .. Len(Encoders) : Audio!Victims[1 + i] = Encoders[i]
        BY <4>2, <4>3, Joined DEF Audio!Victims
      <4>5. n - 1 \in 1 .. Len(Encoders) /\ 1 + (n - 1) = n
        BY <2>4, AudioConstants
      <4>6. Audio!Victims[n] = Encoders[n - 1]
        BY <4>4, <4>5
      <4> QED
        BY <4>5, <4>6, AudioConstants
    <3>2. PICK q \in Audio!SignalIn(encQ[e]) : encQ' = [encQ EXCEPT ![e] = q]
      BY <2>1, <2>4
    <3> HIDE DEF e
    <3>3. q \in Queue(Frames, Audio!E) /\ q.items = encQ[e].items
      BY <2>2, <3>1, <3>2, AudioSignals
    <3>4. /\ encQ' \in [Audio!E -> Queue(Frames, Audio!E)]
          /\ \A d \in Audio!E : encQ'[d].items = encQ[d].items
      BY <2>2, <3>1, <3>2, <3>3
    <3>5. AudioTyped'
      BY <2>1, <2>4, <3>4 DEF AudioTyped
    <3> QED
      BY <2>1, <2>4, <3>4, <3>5
  <2> QED
    BY <2>3, <2>4
<1> QED
  BY <1>1, <1>2
-----------------------------------------------------------------------------
(* The actions, by what they do.                                           *)
EncoderActs(e) ==
  \/ EncoderMoves(e) \/ Audio!EncoderTake(e) \/ Audio!EncoderPush(e)
  \/ Audio!EncoderCode(e) \/ Audio!EncoderLosesPes(e) \/ Audio!BitstreamPass(e)

LEMMA AudioActs ==
  ASSUME Audio!Next
  PROVE  \/ \E gap \in Gaps : Audio!CardBlock(gap)
         \/ Audio!CardBitstream \/ FilterMoves
         \/ \E i \in 1 .. Len(Encoders) : Audio!FilterSplit(i) \/ Audio!FilterFails(i)
         \/ Audio!FilterCarry \/ Audio!FilterHandOver \/ Audio!FilterRelease
         \/ \E e \in Audio!E : EncoderActs(e)
         \/ \E n \in 1 .. Len(Encoders) + 1 : Audio!Cancel(n) \/ Audio!Join(n)
<1>1. DOMAIN Encoders = 1 .. Len(Encoders) /\ Len(Encoders) \in Nat
  BY Places
<1>2. DOMAIN Audio!Victims = 1 .. Len(Encoders) + 1
  <2> DEFINE S == Audio!E \cup {"filter"}
  <2>1. <<"filter">> \in Seq(S) /\ Len(<<"filter">>) = 1 /\ Encoders \in Seq(S)
    <3>1. \A i \in 1 .. Len(Encoders) : Encoders[i] \in S
      BY AudioConstants
    <3>2. Encoders \in Seq(Audio!E)
      BY EncodersAssumption DEF Audio!ConstantsAreSound
    <3>3. Encoders = [i \in 1 .. Len(Encoders) |-> Encoders[i]]
      BY <3>2
    <3>4. Encoders \in Seq(S)
      BY <1>1, <3>1, <3>3, IsASeq
    <3> QED
      BY <3>4
  <2> HIDE DEF S
  <2>2. Audio!Victims \in Seq(S) /\ Len(Audio!Victims) = 1 + Len(Encoders)
    BY <2>1, ConcatProperties DEF Audio!Victims
  <2>3. DOMAIN Audio!Victims = 1 .. Len(Audio!Victims)
    BY <2>2, LenProperties
  <2>4. 1 + Len(Encoders) = Len(Encoders) + 1
    BY <1>1
  <2> QED
    BY <2>2, <2>3, <2>4
<1>3. CASE Audio!Fails
  BY <1>1, <1>3 DEF Audio!Fails, EncoderActs, EncoderMoves
<1>4. CASE Audio!Works
  <2>1. CASE \E gap \in Gaps : Audio!CardBlock(gap)
    BY <2>1
  <2>2. CASE Audio!CardBitstream
    BY <2>2
  <2>3. CASE Audio!FilterStep
    BY <1>1, <2>3 DEF Audio!FilterStep, FilterMoves
  <2>4. CASE \E e \in Audio!E : Audio!EncoderStep(e)
    BY <2>4 DEF Audio!EncoderStep, EncoderActs, EncoderMoves
  <2>5. CASE Audio!Cancel(1)
    <3>1. 1 \in 1 .. Len(Encoders) + 1
      BY <1>1
    <3> QED
      BY <2>5, <3>1
  <2>6. CASE Audio!CloseStep
    BY <1>2, <2>6 DEF Audio!CloseStep
  <2> QED
    BY <1>4, <2>1, <2>2, <2>3, <2>4, <2>5, <2>6 DEF Audio!Works
<1> QED
  BY <1>3, <1>4 DEF Audio!Next

LEMMA HeadStays ==
  ASSUME NEW S, NEW s \in Seq(S), NEW x \in S, s # <<>>
  PROVE  Append(s, x) # <<>> /\ Head(Append(s, x)) = Head(s)
  BY Appended

LEMMA AudioHandsStep ==
  ASSUME AudioInvariant, Audio!Next
  PROVE  AudioTyped' /\ AudioHands'
<1>0. AudioTyped /\ AudioHands /\ AudioFlows /\ AudioOwned
  BY DEF AudioInvariant
<1>1. ASSUME NEW gap \in Gaps, Audio!CardBlock(gap) PROVE AudioTyped' /\ AudioHands'
  <2>1. PICK t \in Nat : times' = Append(times, t)
    BY <1>0, <1>1, CardBlockDoes
  <2>2. /\ AudioTyped' /\ due = <<>> /\ ItemsOf(due') = Callback(Len(times) + 1)
        /\ filterQ'.items = Append(filterQ.items, [k |-> Len(times) + 1, pair |-> 0])
        /\ UNCHANGED <<fpc, carried, encQ, enc, muxed, freed>>
    BY <1>0, <1>1, CardBlockDoes
  <2>3. times \in Seq(Nat) /\ filterQ.items \in Seq(Frames)
    BY <1>0, QueueItems DEF AudioTyped
  <2>4. Len(times') = Len(times) + 1 /\ Len(times) \in Nat
    BY <2>1, <2>3, Appended
  <2>5. \A i \in 1 .. Len(due') : due'[i].pair # 0 /\ due'[i].k <= Len(times')
    <3> SUFFICES ASSUME NEW i \in 1 .. Len(due')
                 PROVE  due'[i].pair # 0 /\ due'[i].k <= Len(times')
      OBVIOUS
    <3>1. due'[i] \in Callback(Len(times) + 1)
      BY <2>2 DEF ItemsOf
    <3>2. due'[i].pair \in BitstreamPairs /\ due'[i].k = Len(times) + 1
      BY <3>1 DEF Callback
    <3> QED
      BY <2>4, <3>2, AudioConstants
  <2>6. filterQ.items # <<>> =>
          filterQ'.items # <<>> /\ Head(filterQ'.items) = Head(filterQ.items)
    <3>1. [k |-> Len(times) + 1, pair |-> 0] \in Frames
      BY <2>4 DEF Frames
    <3>2. filterQ.items # <<>> =>
            /\ Append(filterQ.items, [k |-> Len(times) + 1, pair |-> 0]) # <<>>
            /\ Head(Append(filterQ.items, [k |-> Len(times) + 1, pair |-> 0]))
                 = Head(filterQ.items)
      BY <2>3, <3>1, HeadStays
    <3> QED
      BY <2>2, <3>2
  <2>7. AudioHands'
    BY <1>0, <2>2, <2>5, <2>6 DEF AudioHands
  <2> QED
    BY <2>2, <2>7
<1>2. ASSUME Audio!CardBitstream PROVE AudioTyped' /\ AudioHands'
  <2>1. /\ AudioTyped' /\ due # <<>> /\ Head(due) \in Frames /\ due' = Tail(due)
        /\ filterQ'.items = Append(filterQ.items, Head(due))
        /\ UNCHANGED <<times, fpc, carried, encQ, enc, muxed, freed>>
    BY <1>0, <1>2, CardBitstreamDoes
  <2>2. due \in Seq(Frames) /\ filterQ.items \in Seq(Frames)
    BY <1>0, QueueItems DEF AudioTyped
  <2>3. \A i \in 1 .. Len(due') : due'[i].pair # 0 /\ due'[i].k <= Len(times')
    <3> SUFFICES ASSUME NEW i \in 1 .. Len(due')
                 PROVE  due'[i].pair # 0 /\ due'[i].k <= Len(times)
      BY <2>1
    <3>1. due'[i] = due[i + 1] /\ Len(due') = Len(due) - 1 /\ Len(due) \in Nat
      BY <2>1, <2>2, Beheaded
    <3>2. i + 1 \in 1 .. Len(due)
      BY <3>1
    <3> QED
      BY <1>0, <3>1, <3>2 DEF AudioHands
  <2>4. filterQ.items # <<>> =>
          filterQ'.items # <<>> /\ Head(filterQ'.items) = Head(filterQ.items)
    <3>1. filterQ.items # <<>> =>
            /\ Append(filterQ.items, Head(due)) # <<>>
            /\ Head(Append(filterQ.items, Head(due))) = Head(filterQ.items)
      BY <2>1, <2>2, HeadStays
    <3> QED
      BY <2>1, <3>1
  <2>5. UNCHANGED <<times, fpc, carried, encQ, enc>>
    BY <2>1
  <2>6. /\ 1 <= fpc /\ fpc <= Len(Encoders) + 1 => filterQ'.items # <<>>
        /\ 2 <= fpc /\ fpc <= Len(Encoders) + 1 => Head(filterQ'.items).pair = 0
    <3>1. /\ 1 <= fpc /\ fpc <= Len(Encoders) + 1 => filterQ.items # <<>>
          /\ 2 <= fpc /\ fpc <= Len(Encoders) + 1 => Head(filterQ.items).pair = 0
      BY <1>0 DEF AudioHands
    <3>2. 2 <= fpc => 1 <= fpc
      BY <1>0 DEF AudioTyped
    <3> QED
      BY <2>4, <3>1, <3>2
  <2>7. /\ fpc = Audio!Carries <=> carried # {}
        /\ \A f \in carried : carried = {f} /\ Audio!Takers(f) # {}
        /\ \A e \in Audio!E : enc[e].pc = "take" => encQ[e].items # <<>>
        /\ \A e \in Audio!E \ Audio!Pcm : enc[e].pc # "code"
    BY <1>0 DEF AudioHands
  <2>8. AudioHands'
    BY <2>3, <2>5, <2>6, <2>7 DEF AudioHands
  <2> QED
    BY <2>1, <2>8
<1>3. ASSUME FilterMoves PROVE AudioTyped' /\ AudioHands'
  <2>1. /\ AudioTyped' /\ fpc = 0
        /\ filterQ'.items = filterQ.items
        /\ \/ fpc' = fpc \/ fpc' = Audio!Gone
           \/ fpc' = 1 /\ filterQ.items # <<>>
        /\ UNCHANGED <<times, due, carried, encQ, enc, muxed, freed>>
    BY <1>0, <1>3, FilterMovesDoes
  <2>2. AudioHands'
    BY <1>0, <2>1, Places DEF AudioHands
  <2> QED
    BY <2>1, <2>2
<1>4. ASSUME NEW i \in 1 .. Len(Encoders), Audio!FilterFails(i) PROVE AudioTyped' /\ AudioHands'
  <2>1. /\ AudioTyped' /\ fpc = i /\ fpc' = Audio!Gone
        /\ UNCHANGED <<times, due, filterQ, carried, encQ, enc, muxed, freed>>
    BY <1>0, <1>4, FilterFailsDoes
  <2>2. AudioHands'
    BY <1>0, <2>1, Places DEF AudioHands
  <2> QED
    BY <2>1, <2>2
<1>5. ASSUME NEW i \in 1 .. Len(Encoders), Audio!FilterSplit(i) PROVE AudioTyped' /\ AudioHands'
  <2>1. /\ AudioTyped' /\ fpc = i /\ fpc' = i + 1
        /\ filterQ.items # <<>> /\ Head(filterQ.items).pair = 0
        /\ \A e \in Audio!E :
             encQ'[e].items = IF e = Encoders[i] /\ e \in Audio!Pcm
                              THEN Append(encQ[e].items, Head(filterQ.items))
                              ELSE encQ[e].items
        /\ UNCHANGED <<times, due, filterQ, carried, enc, muxed, freed>>
    BY <1>0, <1>5, FilterSplitDoes
  <2>2. \A e \in Audio!E : enc'[e].pc = "take" => encQ'[e].items # <<>>
    <3> SUFFICES ASSUME NEW e \in Audio!E, enc[e].pc = "take" PROVE encQ'[e].items # <<>>
      BY <2>1
    <3>1. encQ[e].items \in Seq(Frames) /\ Head(filterQ.items) \in Frames
      BY <1>0, <2>1, QueueItems, EncoderTypes, Beheaded DEF AudioTyped
    <3>2. Append(encQ[e].items, Head(filterQ.items)) # <<>>
      BY <3>1, Appended
    <3>3. encQ[e].items # <<>>
      BY <1>0 DEF AudioHands
    <3> QED
      BY <2>1, <3>2, <3>3
  <2>3. AudioHands'
    BY <1>0, <2>1, <2>2, Places DEF AudioHands
  <2> QED
    BY <2>1, <2>3
<1>6. ASSUME Audio!FilterCarry PROVE AudioTyped' /\ AudioHands'
  <2>1. /\ AudioTyped' /\ fpc = 1 /\ fpc' = Audio!Carries
        /\ Audio!Takers(Head(filterQ.items)) # {}
        /\ carried' = {Head(filterQ.items)}
        /\ UNCHANGED <<times, due, encQ, enc, muxed, freed>>
    BY <1>0, <1>6, FilterCarryDoes
  <2>2. AudioHands'
    BY <1>0, <2>1, Places DEF AudioHands
  <2> QED
    BY <2>1, <2>2
<1>7. ASSUME Audio!FilterHandOver PROVE AudioTyped' /\ AudioHands'
  <2>1. /\ AudioTyped' /\ fpc = Audio!Carries /\ fpc' = 0 /\ carried' = {}
        /\ UNCHANGED <<times, due, filterQ, enc, muxed, freed>>
    BY <1>0, <1>7, FilterHandOverDoes
  <2>2. PICK f \in Frames, d \in Audio!E \ Audio!Pcm :
          \A e \in Audio!E :
            encQ'[e].items = IF e = d THEN Append(encQ[e].items, f) ELSE encQ[e].items
    BY <1>0, <1>7, FilterHandOverDoes
  <2>3. \A e \in Audio!E : enc'[e].pc = "take" => encQ'[e].items # <<>>
    <3> SUFFICES ASSUME NEW e \in Audio!E, enc[e].pc = "take" PROVE encQ'[e].items # <<>>
      BY <2>1
    <3>1. encQ[e].items \in Seq(Frames)
      BY <1>0, EncoderTypes
    <3>2. Append(encQ[e].items, f) # <<>>
      BY <3>1, Appended
    <3>3. encQ[e].items # <<>>
      BY <1>0 DEF AudioHands
    <3> QED
      BY <2>2, <3>2, <3>3
  <2>4. AudioHands'
    BY <1>0, <2>1, <2>3, Places DEF AudioHands
  <2> QED
    BY <2>1, <2>4
<1>8. ASSUME Audio!FilterRelease PROVE AudioTyped' /\ AudioHands'
  <2>1. /\ AudioTyped' /\ fpc' = 0 /\ fpc \in {Len(Encoders) + 1, 1}
        /\ UNCHANGED <<times, due, carried, encQ, enc, muxed>>
    BY <1>0, <1>8, FilterReleaseDoes
  <2>2. AudioHands'
    BY <1>0, <2>1, Places DEF AudioHands
  <2> QED
    BY <2>1, <2>2
<1>9. ASSUME NEW e \in Audio!E, EncoderActs(e) PROVE AudioTyped' /\ AudioHands'
  <2>1. /\ AudioTyped' /\ OnlyAt(e)
        /\ enc'[e].pc = "take" => encQ'[e].items # <<>>
        /\ enc'[e].pc = "code" => e \in Audio!Pcm
    <3>1. CASE EncoderMoves(e)
      BY <1>0, <3>1, EncoderMovesDoes DEF AudioHands
    <3>2. CASE Audio!EncoderTake(e)
      BY <1>0, <3>2, EncoderTakeDoes
    <3>3. CASE Audio!EncoderPush(e)
      BY <1>0, <3>3, EncoderPushDoes
    <3>4. CASE Audio!EncoderCode(e)
      BY <1>0, <3>4, EncoderCodeDoes
    <3>5. CASE Audio!EncoderLosesPes(e)
      BY <1>0, <3>5, EncoderLosesPesDoes
    <3>6. CASE Audio!BitstreamPass(e)
      BY <1>0, <3>6, BitstreamPassDoes
    <3> QED
      BY <1>9, <3>1, <3>2, <3>3, <3>4, <3>5, <3>6 DEF EncoderActs
  <2>2. /\ \A d \in Audio!E : enc'[d].pc = "take" => encQ'[d].items # <<>>
        /\ \A d \in Audio!E \ Audio!Pcm : enc'[d].pc # "code"
    <3>1. \A d \in Audio!E : d # e => enc'[d] = enc[d] /\ encQ'[d].items = encQ[d].items
      BY <2>1 DEF OnlyAt
    <3>2. /\ \A d \in Audio!E : enc[d].pc = "take" => encQ[d].items # <<>>
          /\ \A d \in Audio!E \ Audio!Pcm : enc[d].pc # "code"
      BY <1>0 DEF AudioHands
    <3> QED
      BY <2>1, <3>1, <3>2
  <2>3. AudioHands'
    BY <1>0, <2>1, <2>2 DEF AudioHands, OnlyAt
  <2> QED
    BY <2>1, <2>3
<1>10. ASSUME NEW n \in 1 .. Len(Encoders) + 1, Audio!Cancel(n) \/ Audio!Join(n)
       PROVE  AudioTyped' /\ AudioHands'
  <2>1. /\ AudioTyped' /\ filterQ'.items = filterQ.items
        /\ \A e \in Audio!E : encQ'[e].items = encQ[e].items
        /\ UNCHANGED <<times, due, fpc, carried, enc, muxed, freed>>
    BY <1>0, <1>10, CloseDoes
  <2>2. AudioHands'
    BY <1>0, <2>1 DEF AudioHands
  <2> QED
    BY <2>1, <2>2
<1> QED
  BY <1>1, <1>2, <1>3, <1>4, <1>5, <1>6, <1>7, <1>8, <1>9, <1>10, AudioActs
-----------------------------------------------------------------------------
(* The queue of the filter, from the r-th PCM block on.                    *)
LEMMA FrameItems ==
  ASSUME NEW s \in Seq(Frames)
  PROVE  /\ Len(s) \in Nat
         /\ \A i \in 1 .. Len(s) : s[i] \in Frames /\ s[i].k \in Nat /\ s[i].pair \in Nat
<1>1. ASSUME NEW i \in 1 .. Len(s) PROVE s[i] \in Frames
  BY ElementOfSeq
<1>2. \A f \in Frames : f.k \in Nat /\ f.pair \in Nat
  BY DEF Frames
<1> QED
  BY <1>1, <1>2, LenProperties

LEMMA WaitingBlock ==
  ASSUME NEW r, NEW T \in Seq(Nat), NEW t \in Nat, NEW s \in Seq(Frames),
         WaitingAfter(r, T, s)
  PROVE  WaitingAfter(r, Append(T, t), Append(s, [k |-> Len(T) + 1, pair |-> 0]))
<1> DEFINE f == [k |-> Len(T) + 1, pair |-> 0]
<1> DEFINE w == Append(s, f)
<1> DEFINE U == Append(T, t)
<1>1. Len(T) \in Nat /\ Len(U) = Len(T) + 1
  BY Appended
<1>2. f \in Frames /\ f.k = Len(T) + 1 /\ f.pair = 0
  BY <1>1 DEF Frames
<1> HIDE DEF f, U
<1>3. /\ Len(s) \in Nat /\ Len(w) = Len(s) + 1
      /\ \A i \in 1 .. Len(s) : w[i] = s[i]
      /\ w[Len(s) + 1] = f
  BY <1>2, Appended
<1> HIDE DEF w
<1>4. /\ r \in 0 .. Len(T)
      /\ \A i \in 1 .. Len(s) : s[i].k <= Len(T) /\ (s[i].pair = 0 => r < s[i].k)
      /\ \A b \in r + 1 .. Len(T) :
           \E i \in 1 .. Len(s) : s[i] = [k |-> b, pair |-> 0]
      /\ \A i, j \in 1 .. Len(s) :
           i < j /\ s[i].pair = 0 /\ s[j].pair = 0 => s[i].k < s[j].k
  BY DEF WaitingAfter
<1>5. \A i \in 1 .. Len(s) : s[i].k \in Nat
  BY FrameItems
<1>6. \A i \in 1 .. Len(w) : i \in 1 .. Len(s) \/ i = Len(s) + 1
  BY <1>3
<1>7. r \in 0 .. Len(U)
  BY <1>1, <1>4
<1>8. ASSUME NEW i \in 1 .. Len(w)
      PROVE  w[i].k <= Len(U) /\ (w[i].pair = 0 => r < w[i].k)
  <2>1. CASE i \in 1 .. Len(s)
    BY <1>1, <1>3, <1>4, <1>5, <2>1
  <2>2. CASE i = Len(s) + 1
    BY <1>1, <1>2, <1>3, <1>4, <2>2
  <2> QED
    BY <1>6, <2>1, <2>2
<1>9. ASSUME NEW b \in r + 1 .. Len(U)
      PROVE  \E i \in 1 .. Len(w) : w[i] = [k |-> b, pair |-> 0]
  <2>1. CASE b \in r + 1 .. Len(T)
    <3>1. PICK i \in 1 .. Len(s) : s[i] = [k |-> b, pair |-> 0]
      BY <1>4, <2>1
    <3>2. i \in 1 .. Len(w) /\ w[i] = [k |-> b, pair |-> 0]
      BY <1>3, <3>1
    <3> QED
      BY <3>2
  <2>2. CASE b = Len(T) + 1
    <3>1. Len(s) + 1 \in 1 .. Len(w)
      BY <1>3
    <3>2. w[Len(s) + 1] = [k |-> b, pair |-> 0]
      BY <1>3, <2>2 DEF f
    <3> QED
      BY <3>1, <3>2
  <2>3. b \in r + 1 .. Len(T) \/ b = Len(T) + 1
    BY <1>1, <1>4
  <2> QED
    BY <2>1, <2>2, <2>3
<1>10. ASSUME NEW i \in 1 .. Len(w), NEW j \in 1 .. Len(w),
              i < j, w[i].pair = 0, w[j].pair = 0
       PROVE  w[i].k < w[j].k
  <2>1. i \in 1 .. Len(s)
    BY <1>3, <1>10
  <2>2. w[i] = s[i]
    BY <1>3, <2>1
  <2>3. CASE j \in 1 .. Len(s)
    <3>1. w[j] = s[j]
      BY <1>3, <2>3
    <3> QED
      BY <1>4, <1>10, <2>1, <2>2, <2>3, <3>1
  <2>4. CASE j = Len(s) + 1
    <3>1. w[j].k = Len(T) + 1 /\ s[i].k <= Len(T) /\ s[i].k \in Nat
      BY <1>2, <1>3, <1>4, <1>5, <2>1, <2>4
    <3> QED
      BY <1>1, <2>2, <3>1
  <2> QED
    BY <1>6, <2>3, <2>4
<1>11. WaitingAfter(r, U, w)
  BY <1>7, <1>8, <1>9, <1>10 DEF WaitingAfter
<1> QED
  BY <1>11 DEF U, w, f

LEMMA WaitingBitstream ==
  ASSUME NEW r, NEW T \in Seq(Nat), NEW s \in Seq(Frames), NEW f \in Frames,
         WaitingAfter(r, T, s), f.pair # 0, f.k <= Len(T)
  PROVE  WaitingAfter(r, T, Append(s, f))
<1> DEFINE w == Append(s, f)
<1>1. /\ Len(s) \in Nat /\ Len(w) = Len(s) + 1
      /\ \A i \in 1 .. Len(s) : w[i] = s[i]
      /\ w[Len(s) + 1] = f
  BY Appended
<1> HIDE DEF w
<1>2. /\ r \in 0 .. Len(T)
      /\ \A i \in 1 .. Len(s) : s[i].k <= Len(T) /\ (s[i].pair = 0 => r < s[i].k)
      /\ \A b \in r + 1 .. Len(T) :
           \E i \in 1 .. Len(s) : s[i] = [k |-> b, pair |-> 0]
      /\ \A i, j \in 1 .. Len(s) :
           i < j /\ s[i].pair = 0 /\ s[j].pair = 0 => s[i].k < s[j].k
  BY DEF WaitingAfter
<1>3. \A i \in 1 .. Len(w) : i \in 1 .. Len(s) \/ i = Len(s) + 1
  BY <1>1
<1>4. ASSUME NEW i \in 1 .. Len(w)
      PROVE  w[i].k <= Len(T) /\ (w[i].pair = 0 => r < w[i].k)
  <2>1. CASE i \in 1 .. Len(s)
    BY <1>1, <1>2, <2>1
  <2>2. CASE i = Len(s) + 1
    BY <1>1, <2>2
  <2> QED
    BY <1>3, <2>1, <2>2
<1>5. ASSUME NEW b \in r + 1 .. Len(T)
      PROVE  \E i \in 1 .. Len(w) : w[i] = [k |-> b, pair |-> 0]
  <2>1. PICK i \in 1 .. Len(s) : s[i] = [k |-> b, pair |-> 0]
    BY <1>2
  <2>2. i \in 1 .. Len(w) /\ w[i] = [k |-> b, pair |-> 0]
    BY <1>1, <2>1
  <2> QED
    BY <2>2
<1>6. ASSUME NEW i \in 1 .. Len(w), NEW j \in 1 .. Len(w),
             i < j, w[i].pair = 0, w[j].pair = 0
      PROVE  w[i].k < w[j].k
  <2>1. i \in 1 .. Len(s) /\ j \in 1 .. Len(s)
    BY <1>1, <1>3, <1>6
  <2>2. w[i] = s[i] /\ w[j] = s[j]
    BY <1>1, <2>1
  <2> QED
    BY <1>2, <1>6, <2>1, <2>2
<1>7. WaitingAfter(r, T, w)
  BY <1>2, <1>4, <1>5, <1>6 DEF WaitingAfter
<1> QED
  BY <1>7 DEF w

(* The PCM block at the head is the next one.                              *)
LEMMA HeadIsNext ==
  ASSUME NEW r, NEW T \in Seq(Nat), NEW s \in Seq(Frames),
         WaitingAfter(r, T, s), s # <<>>, Head(s).pair = 0
  PROVE  /\ r \in Nat /\ r + 1 \in 1 .. Len(T) /\ r < Len(T)
         /\ Head(s) = [k |-> r + 1, pair |-> 0]
<1>1. Len(s) \in Nat /\ Len(s) >= 1 /\ Head(s) = s[1] /\ Head(s) \in Frames
  BY Beheaded
<1>2. Len(T) \in Nat
  BY LenProperties
<1>3. /\ r \in 0 .. Len(T)
      /\ \A i \in 1 .. Len(s) : s[i].k <= Len(T) /\ (s[i].pair = 0 => r < s[i].k)
      /\ \A b \in r + 1 .. Len(T) :
           \E i \in 1 .. Len(s) : s[i] = [k |-> b, pair |-> 0]
      /\ \A i, j \in 1 .. Len(s) :
           i < j /\ s[i].pair = 0 /\ s[j].pair = 0 => s[i].k < s[j].k
  BY DEF WaitingAfter
<1>4. 1 \in 1 .. Len(s)
  BY <1>1
<1>5. s[1].pair = 0 /\ s[1].k \in Nat /\ s[1] = [k |-> s[1].k, pair |-> s[1].pair]
  BY <1>1 DEF Frames
<1>6. r < s[1].k /\ s[1].k <= Len(T)
  BY <1>3, <1>4, <1>5
<1>7. r \in Nat /\ r + 1 \in r + 1 .. Len(T) /\ r + 1 \in 1 .. Len(T) /\ r < Len(T)
  BY <1>2, <1>3, <1>5, <1>6
<1>8. PICK i \in 1 .. Len(s) : s[i] = [k |-> r + 1, pair |-> 0]
  BY <1>3, <1>7
<1>9. i = 1
  <2>1. s[i].k = r + 1 /\ s[i].pair = 0
    BY <1>8
  <2>2. SUFFICES ASSUME 1 < i PROVE FALSE
    BY <1>1, <1>8
  <2>3. s[1].k < s[i].k
    BY <1>3, <1>4, <1>5, <1>8, <2>1, <2>2
  <2> QED
    BY <1>5, <1>6, <1>7, <2>1, <2>3
<1> QED
  BY <1>1, <1>7, <1>8, <1>9

(* The filter has done with the head.                                      *)
LEMMA WaitingTail ==
  ASSUME NEW r, NEW T \in Seq(Nat), NEW s \in Seq(Frames),
         WaitingAfter(r, T, s), s # <<>>
  PROVE  WaitingAfter(IF Head(s).pair = 0 THEN r + 1 ELSE r, T, Tail(s))
<1> DEFINE w == Tail(s)
<1> DEFINE q == IF Head(s).pair = 0 THEN r + 1 ELSE r
<1>1. /\ Len(s) \in Nat /\ Len(s) >= 1 /\ Head(s) = s[1] /\ Head(s) \in Frames
      /\ Len(w) = Len(s) - 1 /\ \A i \in 1 .. Len(w) : w[i] = s[i + 1]
  BY Beheaded
<1> HIDE DEF w
<1>2. Len(T) \in Nat /\ \A i \in 1 .. Len(s) : s[i].k \in Nat
  BY LenProperties, FrameItems
<1>3. /\ r \in 0 .. Len(T)
      /\ \A i \in 1 .. Len(s) : s[i].k <= Len(T) /\ (s[i].pair = 0 => r < s[i].k)
      /\ \A b \in r + 1 .. Len(T) :
           \E i \in 1 .. Len(s) : s[i] = [k |-> b, pair |-> 0]
      /\ \A i, j \in 1 .. Len(s) :
           i < j /\ s[i].pair = 0 /\ s[j].pair = 0 => s[i].k < s[j].k
  BY DEF WaitingAfter
<1>4. /\ \A i \in 1 .. Len(w) : i + 1 \in 1 .. Len(s) /\ 1 < i + 1
      /\ 1 \in 1 .. Len(s)
  BY <1>1
<1>5. /\ s[1].pair = 0 => q = r + 1 /\ q \in 0 .. Len(T) /\ s[1].k = q
      /\ s[1].pair # 0 => q = r
      /\ q \in 0 .. Len(T)
  <2>1. Head(s).pair = 0 => r + 1 \in 1 .. Len(T) /\ Head(s) = [k |-> r + 1, pair |-> 0]
    BY HeadIsNext
  <2> QED
    BY <1>1, <1>3, <2>1
<1> HIDE DEF q
<1>6. ASSUME NEW i \in 1 .. Len(w)
      PROVE  w[i].k <= Len(T) /\ (w[i].pair = 0 => q < w[i].k)
  <2>1. w[i] = s[i + 1] /\ i + 1 \in 1 .. Len(s) /\ 1 < i + 1
    BY <1>1, <1>4
  <2>2. s[i + 1].k <= Len(T) /\ (s[i + 1].pair = 0 => r < s[i + 1].k)
    BY <1>3, <2>1
  <2>3. s[1].pair = 0 /\ s[i + 1].pair = 0 => s[1].k < s[i + 1].k
    BY <1>3, <1>4, <2>1
  <2> QED
    BY <1>5, <2>1, <2>2, <2>3
<1>7. ASSUME NEW b \in q + 1 .. Len(T)
      PROVE  \E i \in 1 .. Len(w) : w[i] = [k |-> b, pair |-> 0]
  <2>1. b \in r + 1 .. Len(T) /\ b # q
    BY <1>2, <1>3, <1>5
  <2>2. PICK i \in 1 .. Len(s) : s[i] = [k |-> b, pair |-> 0]
    BY <1>3, <2>1
  <2>3. i # 1
    <3>1. s[i].k = b /\ s[i].pair = 0
      BY <2>2
    <3> QED
      BY <1>5, <2>1, <3>1
  <2>4. i - 1 \in 1 .. Len(w) /\ (i - 1) + 1 = i
    BY <1>1, <2>2, <2>3
  <2>5. w[i - 1] = s[i]
    BY <1>1, <2>4
  <2> QED
    BY <2>2, <2>4, <2>5
<1>8. ASSUME NEW i \in 1 .. Len(w), NEW j \in 1 .. Len(w),
             i < j, w[i].pair = 0, w[j].pair = 0
      PROVE  w[i].k < w[j].k
  <2>1. w[i] = s[i + 1] /\ w[j] = s[j + 1] /\ i + 1 < j + 1
    BY <1>1, <1>8
  <2>2. i + 1 \in 1 .. Len(s) /\ j + 1 \in 1 .. Len(s)
    BY <1>4
  <2> QED
    BY <1>3, <1>8, <2>1, <2>2
<1>9. WaitingAfter(q, T, w)
  BY <1>5, <1>6, <1>7, <1>8 DEF WaitingAfter
<1> QED
  BY <1>9 DEF w, q

(* Which encoders have their copy of the head.                             *)
LEMMA NoCopy ==
  ASSUME NEW e, NEW s, NEW pc,
         s = <<>> \/ Head(s).pair # 0 \/ pc = Audio!Carries \/ pc \in {0, 1}
  PROVE  ~HasCopy(e, s, pc)
<1>1. \A i \in DOMAIN Encoders : i \in Int /\ 1 <= i
  BY Places
<1> QED
  BY <1>1 DEF HasCopy

LEMMA AllCopies ==
  ASSUME NEW e \in Audio!E, NEW s, s # <<>>, Head(s).pair = 0
  PROVE  HasCopy(e, s, Len(Encoders) + 1)
<1>1. PICK i \in 1 .. Len(Encoders) : Encoders[i] = e
  BY AudioConstants
<1>2. i \in DOMAIN Encoders /\ i < Len(Encoders) + 1 /\ Len(Encoders) + 1 # Audio!Carries
  BY <1>1, Places
<1> QED
  BY <1>1, <1>2 DEF HasCopy

LEMMA CopyOfNext ==
  ASSUME NEW i \in 1 .. Len(Encoders), NEW s, s # <<>>, Head(s).pair = 0
  PROVE  /\ ~HasCopy(Encoders[i], s, i) /\ HasCopy(Encoders[i], s, i + 1)
         /\ \A e \in Audio!E \ {Encoders[i]} : HasCopy(e, s, i + 1) <=> HasCopy(e, s, i)
<1>1. i \in DOMAIN Encoders /\ i \in Int /\ i # Audio!Carries /\ i + 1 # Audio!Carries
  BY Places
<1>2. \A j \in DOMAIN Encoders : j \in Int /\ (Encoders[j] = Encoders[i] => j = i)
  BY AudioConstants
<1>3. ~HasCopy(Encoders[i], s, i)
  BY <1>1, <1>2 DEF HasCopy
<1>4. HasCopy(Encoders[i], s, i + 1)
  BY <1>1 DEF HasCopy
<1>5. ASSUME NEW e \in Audio!E \ {Encoders[i]}
      PROVE  HasCopy(e, s, i + 1) <=> HasCopy(e, s, i)
  <2>1. \A j \in DOMAIN Encoders : Encoders[j] = e => (j < i + 1 <=> j < i)
    <3> SUFFICES ASSUME NEW j \in DOMAIN Encoders, Encoders[j] = e PROVE j < i + 1 <=> j < i
      OBVIOUS
    <3>1. j # i /\ j \in Int
      BY <1>2, <1>5
    <3> QED
      BY <1>1, <3>1
  <2>2. (\E j \in DOMAIN Encoders : Encoders[j] = e /\ j < i + 1)
          <=> (\E j \in DOMAIN Encoders : Encoders[j] = e /\ j < i)
    BY <2>1
  <2> QED
    BY <1>1, <2>2 DEF HasCopy
<1> QED
  BY <1>3, <1>4, <1>5

(* One encoder, and the filter, when r blocks have left its queue.         *)
FlowAt(r, T, items, pc, e, q, s, mx) ==
  \E n, m \in 0 .. Len(T) :
    /\ Flow(T, e, q, s, mx, n, m)
    /\ pc # Audio!Gone => n = IF HasCopy(e, items, pc) THEN r + 1 ELSE r

FlowsFrom(r) ==
  /\ WaitingAfter(r, times, filterQ.items)
  /\ \A e \in Audio!Pcm :
       FlowAt(r, times, filterQ.items, fpc, e, encQ[e].items, enc[e], muxed[e])

LEMMA FlowsAre == AudioFlows <=> \E r \in Nat : FlowsFrom(r)
  BY DEF AudioFlows, FlowsFrom, FlowAt

LEMMA FlowsAreNext == AudioFlows' <=> \E r \in Nat : FlowsFrom(r)'
  BY DEF AudioFlows, FlowsFrom, FlowAt

(* Only the filter moved, and gave no PCM block to anybody.                *)
LEMMA FilterOnly ==
  ASSUME NEW r \in Nat, NEW p \in Nat, FlowsFrom(r),
         WaitingAfter(p, times, filterQ'.items),
         UNCHANGED <<times, enc, muxed>>,
         \A e \in Audio!Pcm : encQ'[e].items = encQ[e].items,
         fpc' # Audio!Gone => fpc # Audio!Gone,
         \A e \in Audio!Pcm : fpc' # Audio!Gone =>
           (IF HasCopy(e, filterQ'.items, fpc') THEN p + 1 ELSE p)
             = (IF HasCopy(e, filterQ.items, fpc) THEN r + 1 ELSE r)
  PROVE  AudioFlows'
<1>1. ASSUME NEW e \in Audio!Pcm
      PROVE  FlowAt(p, times', filterQ'.items, fpc', e, encQ'[e].items, enc'[e], muxed'[e])
  <2>1. PICK n, m \in 0 .. Len(times) :
          /\ Flow(times, e, encQ[e].items, enc[e], muxed[e], n, m)
          /\ fpc # Audio!Gone =>
               n = IF HasCopy(e, filterQ.items, fpc) THEN r + 1 ELSE r
    BY DEF FlowsFrom, FlowAt
  <2>2. fpc' # Audio!Gone => n = IF HasCopy(e, filterQ'.items, fpc') THEN p + 1 ELSE p
    BY <2>1
  <2>3. Flow(times', e, encQ'[e].items, enc'[e], muxed'[e], n, m)
    BY <2>1
  <2>4. n \in 0 .. Len(times') /\ m \in 0 .. Len(times')
    BY <2>1
  <2> QED
    BY <2>2, <2>3, <2>4 DEF FlowAt
<1>2. FlowsFrom(p)'
  BY <1>1 DEF FlowsFrom
<1> QED
  BY <1>2, FlowsAreNext

(* What an encoder does to its flow.                                       *)
LEMMA EncoderFlow ==
  ASSUME AudioInvariant, NEW e \in Audio!Pcm, EncoderActs(e),
         AudioTyped', OnlyAt(e), NEW n \in Nat, NEW m \in Nat, m <= n,
         Flow(times, e, encQ[e].items, enc[e], muxed[e], n, m)
  PROVE  \E l \in 0 .. n : Flow(times, e, encQ'[e].items, enc'[e], muxed'[e], n, l)
<1> DEFINE s == enc[e]
<1> DEFINE z == enc'[e]
<1> DEFINE q == encQ[e].items
<1>0. /\ AudioTyped /\ AudioHands /\ AudioFlows /\ AudioOwned /\ times \in Seq(Nat)
      /\ e \in Audio!E
  BY PcmConstants DEF AudioInvariant, AudioTyped
<1>1. InHand(e, q, s, muxed[e])
  BY <1>0, EncoderTypes
<1>2. InHand(e, encQ'[e].items, z, muxed'[e])
  <2>1. /\ encQ' \in [Audio!E -> Queue(Frames, Audio!E)]
        /\ enc' \in [Audio!E -> EncoderState] /\ muxed'[e] \in Seq(CodedFrame)
    BY DEF AudioTyped
  <2>2. encQ'[e] \in Queue(Frames, Audio!E) /\ z \in EncoderState
    BY <1>0, <2>1
  <2>3. encQ'[e].items \in Seq(Frames)
    BY <2>2, QueueItems
  <2> QED
    BY <2>1, <2>2, <2>3 DEF InHand
<1>3. q = Copies(m, n) /\ m \in 0 .. n
  BY <1>0, <1>1, FlowIs
<1>4. q # <<>> => m < n /\ Head(q) = [k |-> m + 1, pair |-> 0] /\ Head(q).k = m + 1
  <2>1. q # <<>> => m # n
    BY <1>3, CopiesAre
  <2>2. q # <<>> => m < n
    BY <2>1
  <2>3. m < n => Head(Copies(m, n)) = [k |-> m + 1, pair |-> 0]
    BY CopiesShrink
  <2> QED
    BY <1>3, <2>2, <2>3
<1>5. CASE EncoderMoves(e)
  <2>1. /\ encQ'[e].items = q /\ muxed' = muxed
        /\ \/ enc' = enc
           \/ /\ s.pc # "ended" /\ z.pc \in {"wait", "ended"}
              /\ z.pc = "ended" \/ s.pc # "take"
              /\ z.coded = s.coded /\ z.pcm = s.pcm
              /\ z.cur = s.cur /\ z.last = s.last /\ z.num = s.num
    BY <1>0, <1>5, EncoderMovesDoes
  <2>2. CASE enc' = enc
    BY <1>3, <2>1, <2>2
  <2>3. CASE enc' # enc
    <3>1. /\ s.pc # "ended" /\ z.pc # "take"
          /\ z.pc = "ended" \/ s.pc # "take"
          /\ z.coded = s.coded /\ z.pcm = s.pcm
          /\ z.cur = s.cur /\ z.last = s.last /\ z.num = s.num
      BY <2>1, <2>3
    <3>2. Flow(times, e, q, s, muxed[e], n, m)
      OBVIOUS
    <3> HIDE DEF s, z, q
    <3>3. Flow(times, e, q, z, muxed[e], n, m)
      BY <1>0, <1>1, <3>1, <3>2, FlowMoves
    <3> QED
      BY <1>3, <2>1, <3>3 DEF z, q
  <2> QED
    BY <2>2, <2>3
<1>6. CASE Audio!EncoderTake(e)
  <2>1. /\ encQ' = encQ /\ muxed' = muxed /\ s.pc = "wait" /\ q # <<>>
        /\ z.pc = "take" /\ z.last = times[Head(q).k]
        /\ IF s.cur = Audio!None \/ times[Head(q).k] - s.last >= Threshold[e]
           THEN z.cur = times[Head(q).k] /\ z.pcm = <<>> /\ z.coded = <<>> /\ z.num = 0
           ELSE z.cur = s.cur /\ z.pcm = s.pcm /\ z.coded = s.coded /\ z.num = s.num
    BY <1>0, <1>6, EncoderTakeDoes
  <2>2. m < n /\ Head(q).k = m + 1
    BY <1>4, <2>1
  <2>3. InHand(e, q, z, muxed[e])
    BY <1>2, <2>1
  <2>4. Flow(times, e, q, s, muxed[e], n, m)
    OBVIOUS
  <2> HIDE DEF s, z, q
  <2>5. IF s.cur = Audio!None \/ times[m + 1] - s.last >= Threshold[e]
        THEN z.cur = times[m + 1] /\ z.pcm = <<>> /\ z.coded = <<>> /\ z.num = 0
        ELSE z.cur = s.cur /\ z.pcm = s.pcm /\ z.coded = s.coded /\ z.num = s.num
    BY <2>1, <2>2
  <2>6. s.pc = "wait" /\ z.pc = "take" /\ z.last = times[m + 1]
    BY <2>1, <2>2
  <2>7. Flow(times, e, q, z, muxed[e], n, m)
    BY <1>0, <1>1, <2>2, <2>3, <2>4, <2>5, <2>6, FlowTaken
  <2> QED
    BY <1>3, <2>1, <2>7 DEF z, q
<1>7. CASE Audio!EncoderPush(e)
  <2>1. /\ muxed' = muxed /\ s.pc = "take" /\ z.pc = "code"
        /\ z.pcm = s.pcm \o Audio!Samples(Head(q).k)
        /\ z.coded = s.coded /\ z.cur = s.cur
        /\ z.last = s.last /\ z.num = s.num
        /\ q # <<>> /\ encQ'[e].items = Tail(q)
    BY <1>0, <1>7, EncoderPushDoes
  <2>2. m < n /\ Head(q).k = m + 1
    BY <1>4, <2>1
  <2>3. InHand(e, Tail(q), z, muxed[e])
    BY <1>2, <2>1
  <2>4. Flow(times, e, q, s, muxed[e], n, m)
    OBVIOUS
  <2> HIDE DEF s, z, q
  <2>5. z.pcm = s.pcm \o Audio!Samples(m + 1)
    BY <2>1, <2>2
  <2>6. Flow(times, e, Tail(q), z, muxed[e], n, m + 1)
    BY <1>0, <1>1, <2>1, <2>3, <2>4, <2>5, FlowPushed
  <2>7. m + 1 \in 0 .. n
    BY <2>2
  <2> QED
    BY <2>1, <2>6, <2>7 DEF z
<1>8. CASE Audio!EncoderCode(e)
  <2>1. /\ encQ' = encQ /\ s.pc = "code" /\ Len(s.pcm) >= CodecFrame[e]
        /\ z.pc = "code" /\ z.last = s.last
        /\ z.pcm = SubSeq(s.pcm, CodecFrame[e] + 1, Len(s.pcm))
        /\ IF Full(s, e)
           THEN /\ z.coded = <<>> /\ z.num = 0
                /\ z.cur = s.cur + FramesPerPes[e] * CodecFrame[e]
                /\ muxed'[e] = Append(muxed[e],
                     [pts |-> s.cur,
                      samples |-> s.coded \o SubSeq(s.pcm, 1, CodecFrame[e])])
           ELSE /\ z.coded = s.coded \o SubSeq(s.pcm, 1, CodecFrame[e])
                /\ z.num = s.num + 1 /\ z.cur = s.cur
                /\ muxed'[e] = muxed[e]
    BY <1>0, <1>8, EncoderCodeDoes
  <2>2. s.cur \in Nat /\ (Kind[e] = "mp2" => s.num < FramesPerPes[e]) /\ s.num \in Nat
        /\ FramesPerPes[e] \in Nat /\ CodecFrame[e] \in Nat
    BY <1>0, <1>1, <2>1, TimeKnown, PcmConstants, HandTypes
  <2>3. InHand(e, q, z, muxed'[e])
    BY <1>2, <2>1
  <2>4. Flow(times, e, q, s, muxed[e], n, m)
    OBVIOUS
  <2> HIDE DEF s, z, q
  <2>5. CASE Full(s, e)
    <3>1. s.num + 1 = FramesPerPes[e]
      BY <2>2, <2>5 DEF Full
    <3> DEFINE mz == muxed'[e]
    <3>2. /\ InHand(e, q, z, mz)
          /\ mz = Append(muxed[e],
                     [pts |-> s.cur,
                      samples |-> s.coded \o SubSeq(s.pcm, 1, CodecFrame[e])])
          /\ z.coded = <<>> /\ z.num = 0
          /\ z.cur = s.cur + FramesPerPes[e] * CodecFrame[e]
      BY <2>1, <2>3, <2>5
    <3> HIDE DEF mz
    <3>3. z.cur # Audio!None
      <4> DEFINE l == FramesPerPes[e] * CodecFrame[e]
      <4>1. l \in Nat
        BY <2>2
      <4>2. z.cur = s.cur + l
        BY <3>2
      <4> HIDE DEF l
      <4> QED
        BY <2>2, <4>1, <4>2, Places
    <3>4. Flow(times, e, q, z, mz, n, m)
      BY <1>0, <1>1, <2>1, <2>4, <3>1, <3>2, <3>3, FlowSent
    <3> QED
      BY <1>3, <2>1, <3>4 DEF z, q, mz
  <2>6. CASE ~Full(s, e)
    <3>1. Kind[e] = "mp2" => s.num + 1 < FramesPerPes[e]
      BY <2>2, <2>6 DEF Full
    <3>2. /\ z.coded = s.coded \o SubSeq(s.pcm, 1, CodecFrame[e])
          /\ z.num = s.num + 1 /\ z.cur = s.cur
          /\ muxed'[e] = muxed[e]
      BY <2>1, <2>6
    <3>3. InHand(e, q, z, muxed[e])
      BY <2>3, <3>2
    <3>4. Flow(times, e, q, z, muxed[e], n, m)
      BY <1>0, <1>1, <2>1, <2>4, <3>1, <3>2, <3>3, FlowCoded
    <3> QED
      BY <1>3, <2>1, <3>2, <3>4 DEF z, q
  <2> QED
    BY <2>5, <2>6
<1>9. CASE Audio!EncoderLosesPes(e)
  <2>1. /\ encQ' = encQ /\ muxed' = muxed
        /\ s.pc = "code" /\ Len(s.pcm) >= CodecFrame[e]
        /\ z.last = s.last /\ z.cur = s.cur
        /\ IF Kind[e] = "mp2"
           THEN /\ z.pc = "ended" /\ z.num = s.num
                /\ z.pcm = s.pcm /\ z.coded = s.coded
           ELSE /\ z.pc = "code" /\ z.num = s.num + 1
                /\ z.pcm = SubSeq(s.pcm, CodecFrame[e] + 1, Len(s.pcm))
                /\ z.coded = s.coded \o SubSeq(s.pcm, 1, CodecFrame[e])
    BY <1>0, <1>9, EncoderLosesPesDoes
  <2>2. InHand(e, q, z, muxed[e])
    BY <1>2, <2>1
  <2>3. Flow(times, e, q, s, muxed[e], n, m)
    OBVIOUS
  <2> HIDE DEF s, z, q
  <2>4. CASE Kind[e] = "mp2"
    <3>1. /\ z.pc = "ended" /\ z.num = s.num /\ z.pcm = s.pcm /\ z.coded = s.coded
          /\ s.pc # "ended" /\ z.pc # "take"
      BY <2>1, <2>4
    <3>2. Flow(times, e, q, z, muxed[e], n, m)
      BY <1>0, <1>1, <2>1, <2>3, <3>1, FlowMoves
    <3> QED
      BY <1>3, <2>1, <3>2 DEF z, q
  <2>5. CASE Kind[e] # "mp2"
    <3>1. /\ z.pc = "code" /\ z.num = s.num + 1
          /\ z.pcm = SubSeq(s.pcm, CodecFrame[e] + 1, Len(s.pcm))
          /\ z.coded = s.coded \o SubSeq(s.pcm, 1, CodecFrame[e])
      BY <2>1, <2>5
    <3>2. Flow(times, e, q, z, muxed[e], n, m)
      BY <1>0, <1>1, <2>1, <2>2, <2>3, <2>5, <3>1, FlowCoded
    <3> QED
      BY <1>3, <2>1, <3>2 DEF z, q
  <2> QED
    BY <2>4, <2>5
<1>10. CASE Audio!BitstreamPass(e)
  BY <1>0, <1>10, BitstreamPassDoes
<1> QED
  BY <1>5, <1>6, <1>7, <1>8, <1>9, <1>10 DEF EncoderActs

LEMMA FlowsStep ==
  ASSUME AudioInvariant, Audio!Next
  PROVE  AudioFlows'
<1>0. /\ AudioTyped /\ AudioHands /\ AudioFlows /\ AudioOwned
      /\ times \in Seq(Nat) /\ filterQ.items \in Seq(Frames)
  BY QueueItems DEF AudioInvariant, AudioTyped
<1>1. PICK r \in Nat : FlowsFrom(r)
  BY <1>0, FlowsAre
<1>2. WaitingAfter(r, times, filterQ.items)
  BY <1>1 DEF FlowsFrom
<1>3. ASSUME NEW gap \in Gaps, Audio!CardBlock(gap) PROVE AudioFlows'
  <2> DEFINE s == filterQ.items
  <2> DEFINE w == Append(s, [k |-> Len(times) + 1, pair |-> 0])
  <2>1. PICK t \in Nat : times' = Append(times, t)
    BY <1>0, <1>3, CardBlockDoes
  <2>2. filterQ'.items = w /\ UNCHANGED <<fpc, encQ, enc, muxed>>
    BY <1>0, <1>3, CardBlockDoes
  <2>3. WaitingAfter(r, Append(times, t), w)
    BY <1>0, <1>2, WaitingBlock
  <2>4. /\ Len(times) \in Nat /\ Len(times') = Len(times) + 1
        /\ s # <<>> => w # <<>> /\ Head(w) = Head(s)
        /\ s = <<>> => Head(w).k = Len(times) + 1
    <3>1. Len(times) \in Nat /\ Len(times') = Len(times) + 1
      BY <1>0, <2>1, Appended
    <3> DEFINE x == [k |-> Len(times) + 1, pair |-> 0]
    <3>2. x \in Frames /\ x.k = Len(times) + 1
      BY <3>1 DEF Frames
    <3> HIDE DEF x
    <3>3. /\ s # <<>> => Append(s, x) # <<>> /\ Head(Append(s, x)) = Head(s)
          /\ s = <<>> => Head(Append(s, x)) = x
      BY <1>0, <3>2, Appended
    <3> QED
      BY <3>1, <3>2, <3>3 DEF x
  <2>5. ASSUME NEW e \in Audio!Pcm
        PROVE  FlowAt(r, Append(times, t), w, fpc, e, encQ[e].items, enc[e], muxed[e])
    <3>1. PICK n, m \in 0 .. Len(times) :
            /\ Flow(times, e, encQ[e].items, enc[e], muxed[e], n, m)
            /\ fpc # Audio!Gone => n = IF HasCopy(e, s, fpc) THEN r + 1 ELSE r
      BY <1>1 DEF FlowsFrom, FlowAt
    <3>2. InHand(e, encQ[e].items, enc[e], muxed[e])
      BY <1>0, EncoderTypes, PcmConstants
    <3>3. Flow(Append(times, t), e, encQ[e].items, enc[e], muxed[e], n, m)
      BY <1>0, <3>1, <3>2, FlowGrows
    <3>4. fpc # Audio!Gone => (HasCopy(e, w, fpc) <=> HasCopy(e, s, fpc))
      <4>1. CASE s # <<>>
        BY <2>4, <4>1 DEF HasCopy
      <4>2. CASE s = <<>> /\ fpc # Audio!Gone
        <5>1. fpc \in Int /\ Audio!Gone <= fpc /\ fpc <= Audio!Carries
              /\ ~(1 <= fpc /\ fpc <= Len(Encoders) + 1)
          BY <1>0, <4>2 DEF AudioTyped, AudioHands
        <5>2. fpc = Audio!Carries \/ fpc \in {0, 1}
          BY <4>2, <5>1, Places
        <5> QED
          BY <5>2, NoCopy
      <4> QED
        BY <4>1, <4>2
    <3>5. n \in 0 .. Len(Append(times, t)) /\ m \in 0 .. Len(Append(times, t))
      BY <2>1, <2>4, <3>1
    <3> QED
      BY <3>1, <3>3, <3>4, <3>5 DEF FlowAt
  <2> HIDE DEF w, s
  <2>6. FlowsFrom(r)'
    BY <2>1, <2>2, <2>3, <2>5 DEF FlowsFrom
  <2> QED
    BY <2>6, FlowsAreNext
<1>4. CASE Audio!CardBitstream
  <2> DEFINE s == filterQ.items
  <2> DEFINE f == Head(due)
  <2> DEFINE w == Append(s, f)
  <2>1. /\ due # <<>> /\ f \in Frames /\ filterQ'.items = w
        /\ UNCHANGED <<times, fpc, carried, encQ, enc, muxed, freed>>
    BY <1>0, <1>4, CardBitstreamDoes
  <2>2. f.pair # 0 /\ f.k <= Len(times)
    <3>1. due \in Seq(Frames)
      BY <1>0 DEF AudioTyped
    <3>2. f = due[1] /\ 1 \in 1 .. Len(due)
      BY <2>1, <3>1, Beheaded
    <3> HIDE DEF f
    <3> QED
      BY <1>0, <3>2 DEF AudioHands
  <2> HIDE DEF f
  <2>3. WaitingAfter(r, times, w)
    BY <1>0, <1>2, <2>1, <2>2, WaitingBitstream
  <2>4. /\ s # <<>> => w # <<>> /\ Head(w) = Head(s)
        /\ s = <<>> => Head(w) = f
    BY <1>0, <2>1, Appended
  <2>5. ASSUME NEW e \in Audio!Pcm
        PROVE  HasCopy(e, w, fpc) <=> HasCopy(e, s, fpc)
    <3>1. CASE s # <<>>
      BY <2>4, <3>1 DEF HasCopy
    <3>2. CASE s = <<>>
      BY <2>2, <2>4, <3>2, NoCopy
    <3> QED
      BY <3>1, <3>2
  <2>6. filterQ'.items = w /\ UNCHANGED <<times, fpc, encQ, enc, muxed>>
    BY <2>1
  <2> HIDE DEF w
  <2> QED
    BY <1>1, <2>3, <2>5, <2>6, FilterOnly DEF s
<1>5. CASE FilterMoves
  <2>1. /\ fpc = 0 /\ filterQ'.items = filterQ.items
        /\ fpc' = Audio!Gone \/ fpc' \in {0, 1}
        /\ UNCHANGED <<times, encQ, enc, muxed>>
    BY <1>0, <1>5, FilterMovesDoes
  <2>2. \A e \in Audio!Pcm : fpc' # Audio!Gone =>
          ~HasCopy(e, filterQ'.items, fpc') /\ ~HasCopy(e, filterQ.items, fpc)
    BY <2>1, NoCopy
  <2>3. fpc # Audio!Gone
    BY <2>1, Places
  <2> QED
    BY <1>1, <1>2, <2>1, <2>2, <2>3, FilterOnly
<1>6. ASSUME NEW i \in 1 .. Len(Encoders), Audio!FilterFails(i) PROVE AudioFlows'
  <2>1. fpc' = Audio!Gone /\ UNCHANGED <<times, filterQ, encQ, enc, muxed>>
    BY <1>0, <1>6, FilterFailsDoes
  <2> QED
    BY <1>1, <1>2, <2>1, FilterOnly
<1>7. ASSUME NEW i \in 1 .. Len(Encoders), Audio!FilterSplit(i) PROVE AudioFlows'
  <2> DEFINE s == filterQ.items
  <2>1. /\ fpc = i /\ fpc' = i + 1 /\ s # <<>> /\ Head(s).pair = 0
        /\ \A e \in Audio!E :
             encQ'[e].items = IF e = Encoders[i] /\ e \in Audio!Pcm
                              THEN Append(encQ[e].items, Head(s))
                              ELSE encQ[e].items
        /\ UNCHANGED <<times, filterQ, enc, muxed>>
    BY <1>0, <1>7, FilterSplitDoes
  <2>2. Head(s) = [k |-> r + 1, pair |-> 0] /\ r < Len(times) /\ Len(times) \in Nat
    BY <1>0, <1>2, <2>1, HeadIsNext, LenProperties
  <2>3. ASSUME NEW e \in Audio!Pcm
        PROVE  FlowAt(r, times, s, i + 1, e, encQ'[e].items, enc[e], muxed[e])
    <3>1. PICK n, m \in 0 .. Len(times) :
            /\ Flow(times, e, encQ[e].items, enc[e], muxed[e], n, m)
            /\ n = IF HasCopy(e, s, i) THEN r + 1 ELSE r
      <4>1. fpc # Audio!Gone
        BY <2>1, Places
      <4> QED
        BY <1>1, <2>1, <4>1 DEF FlowsFrom, FlowAt
    <3>2. e \in Audio!E /\ InHand(e, encQ[e].items, enc[e], muxed[e])
      BY <1>0, EncoderTypes, PcmConstants
    <3>3. CASE e = Encoders[i]
      <4>1. n = r /\ HasCopy(e, s, i + 1)
        BY <2>1, <3>1, <3>3, CopyOfNext
      <4>2. encQ'[e].items = Append(encQ[e].items, [k |-> n + 1, pair |-> 0])
        BY <2>1, <2>2, <3>2, <3>3, <4>1
      <4>3. Flow(times, e, Append(encQ[e].items, [k |-> n + 1, pair |-> 0]),
                 enc[e], muxed[e], n + 1, m)
        BY <1>0, <2>2, <3>1, <3>2, <4>1, FlowCopied
      <4>4. n + 1 \in 0 .. Len(times)
        BY <2>2, <3>1, <4>1
      <4>5. Flow(times, e, encQ'[e].items, enc[e], muxed[e], n + 1, m)
        BY <4>2, <4>3
      <4> QED
        BY <3>1, <4>1, <4>4, <4>5 DEF FlowAt
    <3>4. CASE e # Encoders[i]
      <4>1. HasCopy(e, s, i + 1) <=> HasCopy(e, s, i)
        BY <2>1, <3>2, <3>4, CopyOfNext
      <4>2. encQ'[e].items = encQ[e].items
        BY <2>1, <3>2, <3>4
      <4> QED
        BY <3>1, <4>1, <4>2 DEF FlowAt
    <3> QED
      BY <3>3, <3>4
  <2>4. FlowsFrom(r)'
    BY <1>2, <2>1, <2>3 DEF FlowsFrom
  <2> QED
    BY <2>4, FlowsAreNext
<1>8. CASE Audio!FilterCarry
  <2>1. /\ fpc = 1 /\ fpc' = Audio!Carries /\ filterQ.items # <<>>
        /\ Head(filterQ.items).pair # 0 /\ filterQ'.items = Tail(filterQ.items)
        /\ UNCHANGED <<times, encQ, enc, muxed>>
    BY <1>0, <1>8, FilterCarryDoes
  <2>2. WaitingAfter(r, times, Tail(filterQ.items))
    BY <1>0, <1>2, <2>1, WaitingTail
  <2>3. /\ \A e \in Audio!Pcm : ~HasCopy(e, filterQ.items, fpc)
        /\ \A e \in Audio!Pcm : ~HasCopy(e, filterQ'.items, fpc')
    BY <2>1, NoCopy
  <2>4. fpc # Audio!Gone
    BY <2>1, Places
  <2>5. WaitingAfter(r, times, filterQ'.items)
    BY <2>1, <2>2
  <2>6. UNCHANGED <<times, encQ, enc, muxed>>
    BY <2>1
  <2> QED
    BY <1>1, <2>3, <2>4, <2>5, <2>6, FilterOnly
<1>9. CASE Audio!FilterHandOver
  <2>1. fpc = Audio!Carries /\ fpc' = 0 /\ UNCHANGED <<times, filterQ, enc, muxed>>
    BY <1>0, <1>9, FilterHandOverDoes
  <2>2. \A e \in Audio!Pcm : encQ'[e].items = encQ[e].items
    <3>1. PICK f \in Frames, d \in Audio!E \ Audio!Pcm :
            \A e \in Audio!E :
              encQ'[e].items = IF e = d THEN Append(encQ[e].items, f) ELSE encQ[e].items
      BY <1>0, <1>9, FilterHandOverDoes
    <3> QED
      BY <3>1, PcmConstants
  <2>3. /\ \A e \in Audio!Pcm : ~HasCopy(e, filterQ.items, fpc)
        /\ \A e \in Audio!Pcm : ~HasCopy(e, filterQ'.items, fpc')
    BY <2>1, NoCopy
  <2>4. fpc # Audio!Gone
    BY <2>1, Places
  <2> QED
    BY <1>1, <1>2, <2>1, <2>2, <2>3, <2>4, FilterOnly
<1>10. CASE Audio!FilterRelease
  <2>1. /\ fpc' = 0 /\ filterQ.items # <<>>
        /\ \/ fpc = Len(Encoders) + 1
           \/ fpc = 1 /\ Head(filterQ.items).pair # 0
        /\ filterQ'.items = Tail(filterQ.items)
        /\ UNCHANGED <<times, encQ, enc, muxed>>
    BY <1>0, <1>10, FilterReleaseDoes
  <2> DEFINE p == IF Head(filterQ.items).pair = 0 THEN r + 1 ELSE r
  <2>2. WaitingAfter(p, times, Tail(filterQ.items)) /\ p \in Nat
    <3>1. WaitingAfter(p, times, Tail(filterQ.items))
      <4>1. filterQ.items # <<>>
        BY <2>1
      <4> QED
        BY <1>0, <1>2, <4>1, WaitingTail
    <3>2. p \in Nat
      OBVIOUS
    <3> QED
      BY <3>1, <3>2
  <2>3. \A e \in Audio!Pcm : ~HasCopy(e, filterQ'.items, fpc')
    BY <2>1, NoCopy
  <2>4. \A e \in Audio!Pcm :
          (IF HasCopy(e, filterQ.items, fpc) THEN r + 1 ELSE r) = p
    <3> SUFFICES ASSUME NEW e \in Audio!Pcm
                 PROVE  HasCopy(e, filterQ.items, fpc) <=> Head(filterQ.items).pair = 0
      OBVIOUS
    <3>1. CASE Head(filterQ.items).pair = 0
      BY <2>1, <3>1, AllCopies, PcmConstants
    <3>2. CASE Head(filterQ.items).pair # 0
      BY <3>2, NoCopy
    <3> QED
      BY <3>1, <3>2
  <2> HIDE DEF p
  <2>5. fpc # Audio!Gone
    BY <2>1, Places
  <2>6. WaitingAfter(p, times, filterQ'.items) /\ UNCHANGED <<times, encQ, enc, muxed>>
    BY <2>1, <2>2
  <2> QED
    BY <1>1, <2>2, <2>3, <2>4, <2>5, <2>6, FilterOnly
<1>11. ASSUME NEW e \in Audio!E, EncoderActs(e) PROVE AudioFlows'
  <2>1. AudioTyped'
    BY AudioHandsStep
  <2>2. OnlyAt(e)
    <3>1. CASE EncoderMoves(e)
      BY <1>0, <3>1, EncoderMovesDoes
    <3>2. CASE Audio!EncoderTake(e)
      BY <1>0, <3>2, EncoderTakeDoes
    <3>3. CASE Audio!EncoderPush(e)
      BY <1>0, <3>3, EncoderPushDoes
    <3>4. CASE Audio!EncoderCode(e)
      BY <1>0, <3>4, EncoderCodeDoes
    <3>5. CASE Audio!EncoderLosesPes(e)
      BY <1>0, <3>5, EncoderLosesPesDoes
    <3>6. CASE Audio!BitstreamPass(e)
      BY <1>0, <3>6, BitstreamPassDoes
    <3> QED
      BY <1>11, <3>1, <3>2, <3>3, <3>4, <3>5, <3>6 DEF EncoderActs
  <2>3. ASSUME NEW d \in Audio!Pcm
        PROVE  FlowAt(r, times, filterQ.items, fpc, d, encQ'[d].items, enc'[d], muxed'[d])
    <3>1. PICK n, m \in 0 .. Len(times) :
            /\ Flow(times, d, encQ[d].items, enc[d], muxed[d], n, m)
            /\ fpc # Audio!Gone =>
                 n = IF HasCopy(d, filterQ.items, fpc) THEN r + 1 ELSE r
      BY <1>1 DEF FlowsFrom, FlowAt
    <3>2. CASE d = e
      <4>1. InHand(d, encQ[d].items, enc[d], muxed[d])
        BY <1>0, EncoderTypes, PcmConstants
      <4>2. n \in Nat /\ m \in Nat /\ m <= n /\ n <= Len(times) /\ Len(times) \in Nat
        BY <1>0, <3>1, <4>1, FlowIs
      <4>3. PICK l \in 0 .. n : Flow(times, d, encQ'[d].items, enc'[d], muxed'[d], n, l)
        BY <1>11, <2>1, <2>2, <3>1, <3>2, <4>2, EncoderFlow
      <4>4. l \in 0 .. Len(times)
        BY <4>2
      <4> QED
        BY <3>1, <4>3, <4>4 DEF FlowAt
    <3>3. CASE d # e
      <4>1. enc'[d] = enc[d] /\ encQ'[d].items = encQ[d].items /\ muxed'[d] = muxed[d]
        BY <2>2, <3>3, PcmConstants DEF OnlyAt
      <4> QED
        BY <3>1, <4>1 DEF FlowAt
    <3> QED
      BY <3>2, <3>3
  <2>4. FlowsFrom(r)'
    BY <1>2, <2>2, <2>3 DEF FlowsFrom, OnlyAt
  <2> QED
    BY <2>4, FlowsAreNext
<1>12. ASSUME NEW n \in 1 .. Len(Encoders) + 1, Audio!Cancel(n) \/ Audio!Join(n)
       PROVE  AudioFlows'
  <2>1. /\ filterQ'.items = filterQ.items
        /\ \A e \in Audio!E : encQ'[e].items = encQ[e].items
        /\ UNCHANGED <<times, fpc, enc, muxed>>
    BY <1>0, <1>12, CloseDoes
  <2>2. \A e \in Audio!Pcm : encQ'[e].items = encQ[e].items
    BY <2>1, PcmConstants
  <2>3. WaitingAfter(r, times, filterQ'.items)
    BY <1>2, <2>1
  <2> QED
    BY <1>1, <2>1, <2>2, <2>3, FilterOnly
<1> QED
  BY <1>3, <1>4, <1>5, <1>6, <1>7, <1>8, <1>9, <1>10, <1>11, <1>12, AudioActs
-----------------------------------------------------------------------------
(* Sequences in which nothing is twice.                                    *)
LEMMA OnceBeheaded ==
  ASSUME NEW S, NEW s \in Seq(S), s # <<>>, Once(s)
  PROVE  /\ Once(Tail(s)) /\ Head(s) \in ItemsOf(s)
         /\ ItemsOf(Tail(s)) = ItemsOf(s) \ {Head(s)}
<1> DEFINE w == Tail(s)
<1>1. /\ Len(s) \in Nat /\ Len(s) >= 1 /\ Head(s) = s[1]
      /\ Len(w) = Len(s) - 1 /\ \A i \in 1 .. Len(w) : w[i] = s[i + 1]
  BY Beheaded
<1> HIDE DEF w
<1>2. /\ 1 \in 1 .. Len(s)
      /\ \A i \in 1 .. Len(w) : i + 1 \in 1 .. Len(s) /\ i + 1 # 1
  BY <1>1
<1>3. ASSUME NEW i \in 1 .. Len(w), NEW j \in 1 .. Len(w), w[i] = w[j] PROVE i = j
  <2>1. s[i + 1] = s[j + 1]
    BY <1>1, <1>3
  <2>2. i + 1 = j + 1
    BY <1>2, <2>1 DEF Once
  <2> QED
    BY <2>2
<1>4. ASSUME NEW x \in ItemsOf(w) PROVE x \in ItemsOf(s) \ {s[1]}
  <2>1. PICK i \in 1 .. Len(w) : x = w[i]
    BY <1>4 DEF ItemsOf
  <2>2. x = s[i + 1] /\ i + 1 \in 1 .. Len(s) /\ i + 1 # 1
    BY <1>1, <1>2, <2>1
  <2>3. s[i + 1] # s[1]
    BY <1>2, <2>2 DEF Once
  <2> QED
    BY <2>2, <2>3 DEF ItemsOf
<1>5. ASSUME NEW x \in ItemsOf(s) \ {s[1]} PROVE x \in ItemsOf(w)
  <2>1. PICK i \in 1 .. Len(s) : x = s[i]
    BY <1>5 DEF ItemsOf
  <2>2. i - 1 \in 1 .. Len(w) /\ (i - 1) + 1 = i
    BY <1>1, <1>5, <2>1
  <2>3. w[i - 1] = x
    BY <1>1, <2>1, <2>2
  <2> QED
    BY <2>2, <2>3 DEF ItemsOf
<1>6. Once(w)
  BY <1>3 DEF Once
<1>7. ItemsOf(w) = ItemsOf(s) \ {s[1]}
  BY <1>4, <1>5
<1>8. s[1] \in ItemsOf(s)
  BY <1>2 DEF ItemsOf
<1> QED
  BY <1>1, <1>6, <1>7, <1>8 DEF w

LEMMA OnceAppended ==
  ASSUME NEW S, NEW s \in Seq(S), NEW x \in S, Once(s), x \notin ItemsOf(s)
  PROVE  Once(Append(s, x)) /\ ItemsOf(Append(s, x)) = ItemsOf(s) \cup {x}
<1> DEFINE w == Append(s, x)
<1>1. /\ Len(s) \in Nat /\ Len(w) = Len(s) + 1
      /\ \A i \in 1 .. Len(s) : w[i] = s[i]
      /\ w[Len(s) + 1] = x
  BY Appended
<1> HIDE DEF w
<1>2. /\ \A i \in 1 .. Len(w) : i \in 1 .. Len(s) \/ i = Len(s) + 1
      /\ \A i \in 1 .. Len(s) : i \in 1 .. Len(w)
      /\ Len(s) + 1 \in 1 .. Len(w)
  BY <1>1
<1>3. \A i \in 1 .. Len(s) : w[i] # x
  BY <1>1 DEF ItemsOf
<1>4. ASSUME NEW i \in 1 .. Len(w), NEW j \in 1 .. Len(w), w[i] = w[j] PROVE i = j
  <2>1. CASE i \in 1 .. Len(s) /\ j \in 1 .. Len(s)
    BY <1>1, <1>4, <2>1 DEF Once
  <2>2. CASE i = Len(s) + 1 \/ j = Len(s) + 1
    BY <1>1, <1>2, <1>3, <1>4, <2>2
  <2> QED
    BY <1>2, <2>1, <2>2
<1>5. ASSUME NEW y \in ItemsOf(w) PROVE y \in ItemsOf(s) \cup {x}
  <2>1. PICK i \in 1 .. Len(w) : y = w[i]
    BY <1>5 DEF ItemsOf
  <2> QED
    BY <1>1, <1>2, <2>1 DEF ItemsOf
<1>6. ASSUME NEW y \in ItemsOf(s) \cup {x} PROVE y \in ItemsOf(w)
  <2>1. CASE y = x
    BY <1>1, <1>2, <2>1 DEF ItemsOf
  <2>2. CASE y \in ItemsOf(s)
    <3>1. PICK i \in 1 .. Len(s) : y = s[i]
      BY <2>2 DEF ItemsOf
    <3>2. i \in 1 .. Len(w) /\ y = w[i]
      BY <1>1, <1>2, <3>1
    <3> QED
      BY <3>2 DEF ItemsOf
  <2> QED
    BY <1>6, <2>1, <2>2
<1>7. Once(w)
  BY <1>4 DEF Once
<1>8. ItemsOf(w) = ItemsOf(s) \cup {x}
  BY <1>5, <1>6
<1> QED
  BY <1>7, <1>8 DEF w

(* Each frame of O is in one of five places: D, F, C, R, or the queue of   *)
(* one of the bitstream encoders.                                          *)
Bits == Audio!E \ Audio!Pcm
InBits(B, f) == \E e \in Bits : f \in B[e]

Apart(D, F, C, R, B) ==
  /\ \A f \in D : f \notin F /\ f \notin C /\ f \notin R /\ ~InBits(B, f)
  /\ \A f \in F : f \notin C /\ f \notin R /\ ~InBits(B, f)
  /\ \A f \in C : f \notin R /\ ~InBits(B, f)
  /\ \A f \in R : ~InBits(B, f)
  /\ \A e, d \in Bits : \A f \in B[e] : f \in B[d] => e = d

Together(D, F, C, R, B, O) ==
  \A f \in Frames : f \in O <=> f \in D \cup F \cup C \cup R \/ InBits(B, f)

OnePlace(D, F, C, R, B, O) == Apart(D, F, C, R, B) /\ Together(D, F, C, R, B, O)

BitsHold == [e \in Bits |-> ItemsOf(encQ[e].items)]

OwnedHere ==
  /\ Once(due) /\ Once(filterQ.items) /\ \A e \in Bits : Once(encQ[e].items)
  /\ OnePlace(ItemsOf(due), ItemsOf(filterQ.items), carried, freed, BitsHold, OfCard(times))

(* A frame goes from one place to another.                                 *)
LEMMA MoveToFilter ==
  ASSUME NEW D, NEW F, NEW C, NEW R, NEW B, NEW O, OnePlace(D, F, C, R, B, O), NEW f \in D
  PROVE  OnePlace(D \ {f}, F \cup {f}, C, R, B, O)
<1>1. Apart(D \ {f}, F \cup {f}, C, R, B)
  BY DEF OnePlace, Apart
<1>2. Together(D \ {f}, F \cup {f}, C, R, B, O)
  BY DEF OnePlace, Together
<1> QED
  BY <1>1, <1>2 DEF OnePlace

LEMMA MoveBetween ==
  ASSUME NEW D, NEW F, NEW R, NEW B, NEW O, OnePlace(D, F, {}, R, B, O), NEW f \in F
  PROVE  OnePlace(D, F \ {f}, {f}, R, B, O)
<1>1. Apart(D, F \ {f}, {f}, R, B)
  BY DEF OnePlace, Apart
<1>2. Together(D, F \ {f}, {f}, R, B, O)
  BY DEF OnePlace, Together
<1> QED
  BY <1>1, <1>2 DEF OnePlace

LEMMA MoveOut ==
  ASSUME NEW D, NEW F, NEW C, NEW R, NEW B, NEW O, OnePlace(D, F, C, R, B, O), NEW f \in F
  PROVE  OnePlace(D, F \ {f}, C, R \cup {f}, B, O)
<1>1. Apart(D, F \ {f}, C, R \cup {f}, B)
  BY DEF OnePlace, Apart
<1>2. Together(D, F \ {f}, C, R \cup {f}, B, O)
  BY DEF OnePlace, Together
<1> QED
  BY <1>1, <1>2 DEF OnePlace

LEMMA MoveToEncoder ==
  ASSUME NEW D, NEW F, NEW f, NEW R, NEW B, NEW A, NEW O,
         OnePlace(D, F, {f}, R, B, O), NEW d \in Bits,
         A[d] = B[d] \cup {f}, \A e \in Bits : e # d => A[e] = B[e]
  PROVE  OnePlace(D, F, {}, R, A, O)
<1>1. \A x : InBits(A, x) <=> InBits(B, x) \/ x = f
  <2>1. ASSUME NEW x, InBits(A, x) PROVE InBits(B, x) \/ x = f
    BY <2>1 DEF InBits
  <2>2. ASSUME NEW x, InBits(B, x) \/ x = f PROVE InBits(A, x)
    <3>1. CASE x = f
      BY <3>1 DEF InBits
    <3>2. CASE InBits(B, x)
      <4>1. PICK e \in Bits : x \in B[e]
        BY <3>2 DEF InBits
      <4>2. x \in A[e]
        BY <4>1
      <4> QED
        BY <4>2 DEF InBits
    <3> QED
      BY <2>2, <3>1, <3>2
  <2> QED
    BY <2>1, <2>2
<1>2. ~InBits(B, f) /\ f \notin D /\ f \notin F /\ f \notin R
  BY DEF OnePlace, Apart
<1>3. ASSUME NEW e \in Bits, NEW g \in Bits, NEW x \in A[e], x \in A[g] PROVE e = g
  <2>1. CASE x = f
    BY <1>2, <1>3, <2>1 DEF InBits
  <2>2. CASE x # f
    <3>1. x \in B[e] /\ x \in B[g]
      BY <1>3, <2>2
    <3> QED
      BY <3>1 DEF OnePlace, Apart
  <2> QED
    BY <2>1, <2>2
<1>4. Apart(D, F, {}, R, A)
  BY <1>1, <1>2, <1>3 DEF OnePlace, Apart
<1>5. Together(D, F, {}, R, A, O)
  BY <1>1 DEF OnePlace, Together
<1> QED
  BY <1>4, <1>5 DEF OnePlace

LEMMA MoveFromEncoder ==
  ASSUME NEW D, NEW F, NEW C, NEW R, NEW B, NEW A, NEW O,
         OnePlace(D, F, C, R, B, O), NEW d \in Bits, NEW f \in B[d],
         A[d] = B[d] \ {f}, \A e \in Bits : e # d => A[e] = B[e]
  PROVE  OnePlace(D, F, C, R \cup {f}, A, O)
<1>1. ASSUME NEW e \in Bits, NEW x \in B[e], x \in B[d] PROVE e = d
  BY <1>1 DEF OnePlace, Apart
<1>2. \A x : InBits(A, x) <=> InBits(B, x) /\ x # f
  <2>1. ASSUME NEW x, InBits(A, x) PROVE InBits(B, x) /\ x # f
    <3>1. PICK e \in Bits : x \in A[e]
      BY <2>1 DEF InBits
    <3>2. x \in B[e]
      BY <3>1
    <3>3. x # f
      BY <1>1, <3>1, <3>2
    <3> QED
      BY <3>2, <3>3 DEF InBits
  <2>2. ASSUME NEW x, InBits(B, x), x # f PROVE InBits(A, x)
    <3>1. PICK e \in Bits : x \in B[e]
      BY <2>2 DEF InBits
    <3>2. x \in A[e]
      BY <2>2, <3>1
    <3> QED
      BY <3>2 DEF InBits
  <2> QED
    BY <2>1, <2>2
<1>3. InBits(B, f)
  BY DEF InBits
<1>4. \A e \in Bits : \A x \in A[e] : x \in B[e]
  OBVIOUS
<1>5. \A e, g \in Bits : \A x \in A[e] : x \in A[g] => e = g
  BY <1>4 DEF OnePlace, Apart
<1>6. Apart(D, F, C, R \cup {f}, A)
  BY <1>2, <1>3, <1>5 DEF OnePlace, Apart
<1>7. Together(D, F, C, R \cup {f}, A, O)
  BY <1>2, <1>3 DEF OnePlace, Together
<1> QED
  BY <1>6, <1>7 DEF OnePlace

(* New frames.                                                             *)
LEMMA NewFrames ==
  ASSUME NEW F \in SUBSET Frames, NEW C \in SUBSET Frames, NEW R \in SUBSET Frames,
         NEW B, NEW O, OnePlace({}, F, C, R, B, O), \A e \in Bits : B[e] \in SUBSET Frames,
         NEW N \in SUBSET Frames, NEW f \in Frames,
         f \notin O, f \notin N, N \cap O = {}
  PROVE  OnePlace(N, F \cup {f}, C, R, B, O \cup N \cup {f})
<1>1. \A x \in Frames : x \notin O => x \notin F /\ x \notin C /\ x \notin R /\ ~InBits(B, x)
  BY DEF OnePlace, Together
<1>2. Apart({}, F, C, R, B)
  BY DEF OnePlace
<1>3. \A x \in N : x \notin F /\ x # f /\ x \notin C /\ x \notin R /\ ~InBits(B, x)
  BY <1>1
<1>4. f \notin F /\ f \notin C /\ f \notin R /\ ~InBits(B, f)
  BY <1>1
<1>5. Apart(N, F \cup {f}, C, R, B)
  BY <1>2, <1>3, <1>4 DEF Apart
<1>6. Together(N, F \cup {f}, C, R, B, O \cup N \cup {f})
  BY DEF OnePlace, Together
<1> QED
  BY <1>5, <1>6 DEF OnePlace
-----------------------------------------------------------------------------
LEMMA OwnedAre ==
  ASSUME AudioTyped
  PROVE  AudioOwned <=> OwnedHere
<1>1. /\ \A e \in Bits : BitsHold[e] = ItemsOf(encQ[e].items)
      /\ Bits = Audio!E \ Audio!Pcm
  BY DEF BitsHold, Bits
<1>2. \A f : InBits(BitsHold, f) <=> OfEncoder(f) # {}
  <2>1. ASSUME NEW f, InBits(BitsHold, f) PROVE OfEncoder(f) # {}
    BY <1>1, <2>1 DEF InBits, OfEncoder
  <2>2. ASSUME NEW f, OfEncoder(f) # {} PROVE InBits(BitsHold, f)
    BY <1>1, <2>2 DEF InBits, OfEncoder
  <2> QED
    BY <2>1, <2>2
<1>3. /\ \A f \in ItemsOf(due) : f \in Frames
      /\ \A f \in ItemsOf(filterQ.items) : f \in Frames
      /\ \A f \in carried : f \in Frames
      /\ \A f \in freed : f \in Frames
      /\ \A e \in Bits : \A f \in BitsHold[e] : f \in Frames
  <2>1. due \in Seq(Frames) /\ filterQ.items \in Seq(Frames)
    BY QueueItems DEF AudioTyped
  <2>2. \A e \in Bits : encQ[e].items \in Seq(Frames)
    BY <1>1, EncoderTypes
  <2>3. \A s \in Seq(Frames) : \A f \in ItemsOf(s) : f \in Frames
    BY FrameItems DEF ItemsOf
  <2>4. carried \in SUBSET Frames /\ freed \in SUBSET Frames
    BY DEF AudioTyped
  <2> QED
    BY <1>1, <2>1, <2>2, <2>3, <2>4
<1> DEFINE D == ItemsOf(due)
<1> DEFINE F == ItemsOf(filterQ.items)
<1> DEFINE B == BitsHold
<1> DEFINE O == OfCard(times)
<1>4. AudioOwned <=>
        /\ Once(due) /\ Once(filterQ.items) /\ \A e \in Bits : Once(encQ[e].items)
        /\ D \cap F = {} /\ D \cap carried = {} /\ D \cap freed = {}
        /\ F \cap carried = {} /\ F \cap freed = {} /\ carried \cap freed = {}
        /\ \A f \in Frames :
             /\ OfEncoder(f) # {} => f \notin D \cup F \cup carried \cup freed
             /\ \A e, d \in OfEncoder(f) : e = d
             /\ f \in O <=> f \in D \cup F \cup carried \cup freed \/ OfEncoder(f) # {}
  BY <1>1 DEF AudioOwned
<1>5. \A f : \A e : e \in OfEncoder(f) <=> e \in Bits /\ f \in B[e]
  BY <1>1 DEF OfEncoder
<1> HIDE DEF D, F, B, O
<1>6. ASSUME AudioOwned PROVE OwnedHere
  <2>1. /\ Once(due) /\ Once(filterQ.items) /\ \A e \in Bits : Once(encQ[e].items)
        /\ D \cap F = {} /\ D \cap carried = {} /\ D \cap freed = {}
        /\ F \cap carried = {} /\ F \cap freed = {} /\ carried \cap freed = {}
    BY <1>4, <1>6
  <2>2. \A f \in Frames :
          /\ InBits(B, f) => f \notin D \cup F \cup carried \cup freed
          /\ f \in O <=> f \in D \cup F \cup carried \cup freed \/ InBits(B, f)
    BY <1>2, <1>4, <1>6 DEF B
  <2>3. \A e, d \in Bits : \A f \in B[e] : f \in B[d] => e = d
    <3> SUFFICES ASSUME NEW e \in Bits, NEW d \in Bits, NEW f \in B[e], f \in B[d]
                 PROVE  e = d
      OBVIOUS
    <3>1. f \in Frames /\ e \in OfEncoder(f) /\ d \in OfEncoder(f)
      BY <1>3, <1>5 DEF B
    <3>2. \A x, y \in OfEncoder(f) : x = y
      BY <1>4, <1>6, <3>1
    <3> QED
      BY <3>1, <3>2
  <2>4. Apart(D, F, carried, freed, B)
    BY <1>3, <2>1, <2>2, <2>3 DEF Apart, D, F
  <2>5. Together(D, F, carried, freed, B, O)
    BY <2>2 DEF Together
  <2> QED
    BY <2>1, <2>4, <2>5 DEF OwnedHere, OnePlace, D, F, B, O
<1>7. ASSUME OwnedHere PROVE AudioOwned
  <2>1. /\ Once(due) /\ Once(filterQ.items) /\ \A e \in Bits : Once(encQ[e].items)
        /\ Apart(D, F, carried, freed, B) /\ Together(D, F, carried, freed, B, O)
    BY <1>7 DEF OwnedHere, OnePlace, D, F, B, O
  <2>2. /\ D \cap F = {} /\ D \cap carried = {} /\ D \cap freed = {}
        /\ F \cap carried = {} /\ F \cap freed = {} /\ carried \cap freed = {}
    BY <2>1 DEF Apart
  <2>3. ASSUME NEW f \in Frames
        PROVE  /\ OfEncoder(f) # {} => f \notin D \cup F \cup carried \cup freed
               /\ \A e, d \in OfEncoder(f) : e = d
               /\ f \in O <=> f \in D \cup F \cup carried \cup freed \/ OfEncoder(f) # {}
    <3>1. InBits(B, f) <=> OfEncoder(f) # {}
      BY <1>2 DEF B
    <3>2. InBits(B, f) => f \notin D \cup F \cup carried \cup freed
      BY <2>1 DEF Apart
    <3>3. \A e, d \in OfEncoder(f) : e = d
      BY <1>5, <2>1 DEF Apart
    <3>4. f \in O <=> f \in D \cup F \cup carried \cup freed \/ InBits(B, f)
      BY <2>1 DEF Together
    <3> QED
      BY <3>1, <3>2, <3>3, <3>4
  <2> QED
    BY <1>4, <2>1, <2>2, <2>3
<1> QED
  BY <1>6, <1>7

LEMMA OwnedAreNext ==
  ASSUME AudioTyped'
  PROVE  OwnedHere' => AudioOwned'
  BY OwnedAre, PTL

(* No frame moved.                                                         *)
LEMMA OwnedStays ==
  ASSUME AudioTyped', OwnedHere, due' = due, filterQ'.items = filterQ.items,
         UNCHANGED <<times, carried, freed>>,
         \A e \in Bits : encQ'[e].items = encQ[e].items
  PROVE  AudioOwned'
<1>1. BitsHold' = BitsHold
  BY DEF BitsHold
<1>2. OwnedHere'
  BY <1>1 DEF OwnedHere
<1> QED
  BY <1>2, OwnedAreNext

(* The encoders' queues did not change, and the frames are where D, F and  *)
(* C say.                                                                  *)
LEMMA OwnedMoved ==
  ASSUME AudioTyped', OwnedHere, \A e \in Bits : encQ'[e].items = encQ[e].items,
         Once(due'), Once(filterQ'.items),
         OnePlace(ItemsOf(due'), ItemsOf(filterQ'.items), carried', freed',
                  BitsHold, OfCard(times'))
  PROVE  AudioOwned'
<1>1. BitsHold' = BitsHold
  BY DEF BitsHold
<1>2. OwnedHere'
  BY <1>1 DEF OwnedHere
<1> QED
  BY <1>2, OwnedAreNext

LEMMA CardGrows ==
  ASSUME NEW T \in Seq(Nat), NEW t \in Nat
  PROVE  /\ OfCard(Append(T, t))
              = OfCard(T) \cup Callback(Len(T) + 1) \cup {[k |-> Len(T) + 1, pair |-> 0]}
         /\ [k |-> Len(T) + 1, pair |-> 0] \in Frames \ OfCard(T)
         /\ [k |-> Len(T) + 1, pair |-> 0] \notin Callback(Len(T) + 1)
         /\ Callback(Len(T) + 1) \in SUBSET Frames
         /\ Callback(Len(T) + 1) \cap OfCard(T) = {}
<1> DEFINE l == Len(T)
<1>1. l \in Nat /\ Len(Append(T, t)) = l + 1
  BY Appended
<1> HIDE DEF l
<1>2. BitstreamPairs \subseteq Nat /\ 0 \notin BitstreamPairs
  BY AudioConstants
<1>3. \A f : f \in Callback(l + 1) <=>
        \E p \in BitstreamPairs : f = [k |-> l + 1, pair |-> p]
  BY DEF Callback
<1>4. \A f : f \in Callback(l + 1) =>
        f \in Frames /\ f.k = l + 1 /\ f.pair \in BitstreamPairs
  <2> SUFFICES ASSUME NEW p \in BitstreamPairs, NEW f, f = [k |-> l + 1, pair |-> p]
               PROVE  f \in Frames /\ f.k = l + 1 /\ f.pair \in BitstreamPairs
    BY <1>3
  <2>1. l + 1 \in Nat \ {0} /\ p \in Nat
    BY <1>1, <1>2
  <2> QED
    BY <2>1 DEF Frames
<1>5. \A f : f \in OfCard(T) <=>
        f \in Frames /\ f.k \in 1 .. l /\ f.pair \in BitstreamPairs \cup {0}
  BY DEF OfCard, l
<1>6. \A f : f \in OfCard(Append(T, t)) <=>
        f \in Frames /\ f.k \in 1 .. l + 1 /\ f.pair \in BitstreamPairs \cup {0}
  BY <1>1 DEF OfCard
<1> DEFINE x == [k |-> l + 1, pair |-> 0]
<1>7. x \in Frames /\ x.k = l + 1 /\ x.pair = 0
  BY <1>1 DEF Frames
<1>8. \A f \in Frames : f.k = l + 1 /\ f.pair = 0 => f = x
  BY DEF Frames
<1>9. \A f \in Frames : f.k = l + 1 /\ f.pair \in BitstreamPairs => f \in Callback(l + 1)
  <2> SUFFICES ASSUME NEW f \in Frames, f.k = l + 1, f.pair \in BitstreamPairs
               PROVE  f \in Callback(l + 1)
    OBVIOUS
  <2>1. f = [k |-> l + 1, pair |-> f.pair]
    BY DEF Frames
  <2> QED
    BY <1>3, <2>1
<1>10. \A f \in Frames : f.k \in Nat
  BY DEF Frames
<1> HIDE DEF x
<1>11. x \notin OfCard(T) /\ x \notin Callback(l + 1)
  BY <1>1, <1>2, <1>4, <1>5, <1>7
<1>12. Callback(l + 1) \cap OfCard(T) = {}
  BY <1>1, <1>4, <1>5
<1>13. ASSUME NEW f
       PROVE  f \in OfCard(Append(T, t)) <=> f \in OfCard(T) \/ f \in Callback(l + 1) \/ f = x
  <2>1. CASE f \in Frames /\ f.k = l + 1
    BY <1>1, <1>2, <1>4, <1>5, <1>6, <1>7, <1>8, <1>9, <2>1
  <2>2. CASE f \in Frames /\ f.k # l + 1
    <3>1. f.k \in 1 .. l + 1 <=> f.k \in 1 .. l
      BY <1>1, <1>10, <2>2
    <3> QED
      BY <1>4, <1>5, <1>6, <1>7, <2>2, <3>1
  <2>3. CASE f \notin Frames
    BY <1>4, <1>5, <1>6, <1>7, <2>3
  <2> QED
    BY <2>1, <2>2, <2>3
<1>14. OfCard(Append(T, t)) = OfCard(T) \cup Callback(l + 1) \cup {x}
  BY <1>13
<1>15. Callback(l + 1) \in SUBSET Frames
  BY <1>4
<1> QED
  BY <1>7, <1>11, <1>12, <1>14, <1>15 DEF x, l

LEMMA OwnedStep ==
  ASSUME AudioInvariant, Audio!Next
  PROVE  AudioOwned'
<1>0. AudioTyped /\ AudioHands /\ AudioFlows /\ AudioOwned
  BY DEF AudioInvariant
<1>1. AudioTyped' /\ OwnedHere
  BY <1>0, AudioHandsStep, OwnedAre
<1> DEFINE s == filterQ.items
<1> DEFINE D == ItemsOf(due)
<1> DEFINE F == ItemsOf(s)
<1> DEFINE O == OfCard(times)
<1>2. /\ times \in Seq(Nat) /\ due \in Seq(Frames) /\ s \in Seq(Frames)
      /\ carried \in SUBSET Frames /\ freed \in SUBSET Frames
  BY <1>0, QueueItems DEF AudioTyped
<1>3. /\ Once(due) /\ Once(s) /\ \A e \in Bits : Once(encQ[e].items)
      /\ OnePlace(D, F, carried, freed, BitsHold, O)
  BY <1>1 DEF OwnedHere
<1>4. \A f \in D : f \notin F
  BY <1>3 DEF OnePlace, Apart
<1> HIDE DEF D, F, O
<1>5. ASSUME NEW gap \in Gaps, Audio!CardBlock(gap) PROVE AudioOwned'
  <2> DEFINE x == [k |-> Len(times) + 1, pair |-> 0]
  <2>1. PICK t \in Nat : times' = Append(times, t)
    BY <1>0, <1>5, CardBlockDoes
  <2>2. /\ due = <<>> /\ Once(due') /\ ItemsOf(due') = Callback(Len(times) + 1)
        /\ filterQ'.items = Append(s, x) /\ UNCHANGED <<carried, encQ, freed>>
    BY <1>0, <1>5, CardBlockDoes
  <2>3. /\ OfCard(times') = O \cup Callback(Len(times) + 1) \cup {x}
        /\ x \in Frames \ O /\ x \notin Callback(Len(times) + 1)
        /\ Callback(Len(times) + 1) \in SUBSET Frames
        /\ Callback(Len(times) + 1) \cap O = {}
    BY <1>2, <2>1, CardGrows DEF O
  <2> DEFINE N == Callback(Len(times) + 1)
  <2> HIDE DEF N, x
  <2>4. OfCard(times') = O \cup N \cup {x} /\ x \in Frames /\ x \notin O /\ x \notin N
        /\ N \in SUBSET Frames /\ N \cap O = {} /\ ItemsOf(due') = N
    BY <2>2, <2>3 DEF N
  <2>5. D = {}
    BY <2>2 DEF D, ItemsOf
  <2>6. F \in SUBSET Frames /\ \A e \in Bits : BitsHold[e] \in SUBSET Frames
    <3>1. \A e \in Bits : encQ[e].items \in Seq(Frames) /\ BitsHold[e] = ItemsOf(encQ[e].items)
      BY <1>0, EncoderTypes DEF Bits, BitsHold
    <3>2. \A p \in Seq(Frames) : ItemsOf(p) \in SUBSET Frames
      BY FrameItems DEF ItemsOf
    <3> QED
      BY <1>2, <3>1, <3>2 DEF F
  <2>7. x \notin F
    BY <1>3, <2>4 DEF OnePlace, Together
  <2>8. Once(Append(s, x)) /\ ItemsOf(Append(s, x)) = F \cup {x}
    BY <1>2, <1>3, <2>4, <2>7, OnceAppended DEF F
  <2>9. OnePlace(N, F \cup {x}, carried, freed, BitsHold, O \cup N \cup {x})
    <3>1. OnePlace({}, F, carried, freed, BitsHold, O)
      BY <1>3, <2>5
    <3> QED
      BY <1>2, <2>4, <2>6, <3>1, NewFrames
  <2>10. OnePlace(ItemsOf(due'), ItemsOf(filterQ'.items), carried', freed', BitsHold, OfCard(times'))
    BY <2>2, <2>4, <2>8, <2>9
  <2>11. Once(due') /\ Once(filterQ'.items) /\ \A e \in Bits : encQ'[e].items = encQ[e].items
    BY <2>2, <2>8
  <2> QED
    BY <1>1, <2>10, <2>11, OwnedMoved
<1>6. CASE Audio!CardBitstream
  <2> DEFINE f == Head(due)
  <2>1. /\ due # <<>> /\ f \in Frames /\ due' = Tail(due)
        /\ filterQ'.items = Append(s, f)
        /\ UNCHANGED <<times, carried, encQ, freed>>
    BY <1>0, <1>6, CardBitstreamDoes
  <2>2. Once(Tail(due)) /\ f \in D /\ ItemsOf(Tail(due)) = D \ {f}
    BY <1>2, <1>3, <2>1, OnceBeheaded DEF D
  <2> HIDE DEF f
  <2>3. Once(Append(s, f)) /\ ItemsOf(Append(s, f)) = F \cup {f}
    BY <1>2, <1>3, <1>4, <2>1, <2>2, OnceAppended DEF F
  <2>4. OnePlace(D \ {f}, F \cup {f}, carried, freed, BitsHold, O)
    BY <1>3, <2>2, MoveToFilter
  <2>5. OnePlace(ItemsOf(due'), ItemsOf(filterQ'.items), carried', freed', BitsHold, OfCard(times'))
    BY <2>1, <2>2, <2>3, <2>4 DEF O
  <2>6. Once(due') /\ Once(filterQ'.items) /\ \A e \in Bits : encQ'[e].items = encQ[e].items
    BY <2>1, <2>2, <2>3
  <2> QED
    BY <1>1, <2>5, <2>6, OwnedMoved
<1>7. CASE FilterMoves
  <2>1. filterQ'.items = filterQ.items /\ UNCHANGED <<times, due, carried, encQ, freed>>
    BY <1>0, <1>7, FilterMovesDoes
  <2> QED
    BY <1>1, <2>1, OwnedStays
<1>8. ASSUME NEW i \in 1 .. Len(Encoders), Audio!FilterFails(i) PROVE AudioOwned'
  <2>1. UNCHANGED <<times, due, filterQ, carried, encQ, freed>>
    BY <1>0, <1>8, FilterFailsDoes
  <2> QED
    BY <1>1, <2>1, OwnedStays
<1>9. ASSUME NEW i \in 1 .. Len(Encoders), Audio!FilterSplit(i) PROVE AudioOwned'
  <2>1. /\ \A e \in Audio!E :
             encQ'[e].items = IF e = Encoders[i] /\ e \in Audio!Pcm
                              THEN Append(encQ[e].items, Head(filterQ.items))
                              ELSE encQ[e].items
        /\ UNCHANGED <<times, due, filterQ, carried, freed>>
    BY <1>0, <1>9, FilterSplitDoes
  <2>2. \A e \in Bits : encQ'[e].items = encQ[e].items
    BY <2>1 DEF Bits
  <2> QED
    BY <1>1, <2>1, <2>2, OwnedStays
<1>10. CASE Audio!FilterCarry
  <2> DEFINE f == Head(s)
  <2>1. /\ fpc = 1 /\ s # <<>> /\ filterQ'.items = Tail(s) /\ carried' = {f}
        /\ UNCHANGED <<times, due, encQ, freed>>
    BY <1>0, <1>10, FilterCarryDoes
  <2>2. carried = {}
    <3>1. fpc # Audio!Carries
      BY <2>1, Places
    <3> QED
      BY <1>0, <3>1 DEF AudioHands
  <2>3. Once(Tail(s)) /\ f \in F /\ ItemsOf(Tail(s)) = F \ {f}
    BY <1>2, <1>3, <2>1, OnceBeheaded DEF F
  <2> HIDE DEF f
  <2>4. OnePlace(D, F \ {f}, {f}, freed, BitsHold, O)
    <3>1. OnePlace(D, F, {}, freed, BitsHold, O)
      BY <1>3, <2>2
    <3> QED
      BY <2>3, <3>1, MoveBetween
  <2>5. OnePlace(ItemsOf(due'), ItemsOf(filterQ'.items), carried', freed', BitsHold, OfCard(times'))
    BY <2>1, <2>3, <2>4 DEF D, O
  <2>6. Once(due') /\ Once(filterQ'.items) /\ \A e \in Bits : encQ'[e].items = encQ[e].items
    BY <1>3, <2>1, <2>3
  <2> QED
    BY <1>1, <2>5, <2>6, OwnedMoved
<1>11. CASE Audio!FilterHandOver
  <2>1. carried' = {} /\ UNCHANGED <<times, due, filterQ, freed>>
    BY <1>0, <1>11, FilterHandOverDoes
  <2>2. PICK f \in Frames, d \in Audio!E \ Audio!Pcm :
          /\ carried = {f}
          /\ \A e \in Audio!E :
               encQ'[e].items = IF e = d THEN Append(encQ[e].items, f) ELSE encQ[e].items
    BY <1>0, <1>11, FilterHandOverDoes
  <2>3. /\ d \in Bits /\ d \in Audio!E /\ encQ'[d].items = Append(encQ[d].items, f)
        /\ \A e \in Bits : e # d => encQ'[e].items = encQ[e].items
    BY <2>2 DEF Bits
  <2>4. OnePlace(D, F, {f}, freed, BitsHold, O)
    BY <1>3, <2>2
  <2>5. /\ \A e \in Bits : BitsHold[e] = ItemsOf(encQ[e].items)
        /\ \A e \in Bits : BitsHold'[e] = ItemsOf(encQ'[e].items)
    BY DEF BitsHold
  <2>6. f \notin ItemsOf(encQ[d].items)
    <3>1. ~InBits(BitsHold, f)
      BY <2>4 DEF OnePlace, Apart
    <3> QED
      BY <2>3, <2>5, <3>1 DEF InBits
  <2>7. /\ Once(encQ'[d].items)
        /\ ItemsOf(encQ'[d].items) = ItemsOf(encQ[d].items) \cup {f}
    <3>1. encQ[d].items \in Seq(Frames)
      BY <1>0, <2>3, EncoderTypes
    <3>2. Once(encQ[d].items)
      BY <1>3, <2>3
    <3>3. /\ Once(Append(encQ[d].items, f))
          /\ ItemsOf(Append(encQ[d].items, f)) = ItemsOf(encQ[d].items) \cup {f}
      BY <2>6, <3>1, <3>2, OnceAppended
    <3> QED
      BY <2>3, <3>3
  <2>8. OnePlace(D, F, {}, freed, BitsHold', O)
    <3>1. BitsHold'[d] = BitsHold[d] \cup {f}
      BY <2>3, <2>5, <2>7
    <3>2. \A e \in Bits : e # d => BitsHold'[e] = BitsHold[e]
      BY <2>3, <2>5
    <3> DEFINE A == BitsHold'
    <3>3. A[d] = BitsHold[d] \cup {f} /\ \A e \in Bits : e # d => A[e] = BitsHold[e]
      BY <3>1, <3>2
    <3> HIDE DEF A
    <3>4. OnePlace(D, F, {}, freed, A, O)
      BY <2>3, <2>4, <3>3, MoveToEncoder
    <3> QED
      BY <3>4 DEF A
  <2>9. \A e \in Bits : Once(encQ'[e].items)
    <3> SUFFICES ASSUME NEW e \in Bits PROVE Once(encQ'[e].items)
      OBVIOUS
    <3> QED
      BY <1>3, <2>3, <2>7
  <2>10. OwnedHere'
    BY <1>3, <2>1, <2>8, <2>9 DEF OwnedHere, D, F, O
  <2> QED
    BY <1>1, <2>10, OwnedAreNext
<1>12. CASE Audio!FilterRelease
  <2> DEFINE f == Head(s)
  <2>1. /\ s # <<>> /\ filterQ'.items = Tail(s) /\ freed' = freed \cup {f}
        /\ UNCHANGED <<times, due, encQ, carried>>
    BY <1>0, <1>12, FilterReleaseDoes
  <2>2. Once(Tail(s)) /\ f \in F /\ ItemsOf(Tail(s)) = F \ {f}
    BY <1>2, <1>3, <2>1, OnceBeheaded DEF F
  <2> HIDE DEF f
  <2>3. OnePlace(D, F \ {f}, carried, freed \cup {f}, BitsHold, O)
    BY <1>3, <2>2, MoveOut
  <2>4. OnePlace(ItemsOf(due'), ItemsOf(filterQ'.items), carried', freed', BitsHold, OfCard(times'))
    BY <2>1, <2>2, <2>3 DEF D, O
  <2>5. Once(due') /\ Once(filterQ'.items) /\ \A e \in Bits : encQ'[e].items = encQ[e].items
    BY <1>3, <2>1, <2>2
  <2> QED
    BY <1>1, <2>4, <2>5, OwnedMoved
<1>13. ASSUME NEW e \in Audio!E, EncoderActs(e) PROVE AudioOwned'
  <2>1. ASSUME OnlyAt(e), freed' = freed, e \in Audio!Pcm \/ encQ'[e].items = encQ[e].items
        PROVE  AudioOwned'
    <3>1. UNCHANGED <<times, due, filterQ, carried>>
      BY <2>1 DEF OnlyAt
    <3>2. \A d \in Bits : encQ'[d].items = encQ[d].items
      BY <2>1 DEF OnlyAt, Bits
    <3> QED
      BY <1>1, <2>1, <3>1, <3>2, OwnedStays
  <2>2. CASE EncoderMoves(e)
    BY <1>0, <2>1, <2>2, EncoderMovesDoes
  <2>3. CASE Audio!EncoderTake(e)
    BY <1>0, <2>1, <2>3, EncoderTakeDoes
  <2>4. CASE Audio!EncoderPush(e)
    BY <1>0, <2>1, <2>4, EncoderPushDoes
  <2>5. CASE Audio!EncoderCode(e)
    BY <1>0, <2>1, <2>5, EncoderCodeDoes
  <2>6. CASE Audio!EncoderLosesPes(e)
    BY <1>0, <2>1, <2>6, EncoderLosesPesDoes
  <2>7. CASE Audio!BitstreamPass(e)
    <3> DEFINE q == encQ[e].items
    <3> DEFINE f == Head(q)
    <3>1. /\ OnlyAt(e) /\ e \notin Audio!Pcm /\ q # <<>>
          /\ encQ'[e].items = Tail(q) /\ freed' = freed \cup {f}
      BY <1>0, <2>7, BitstreamPassDoes
    <3>2. /\ e \in Bits /\ UNCHANGED <<times, due, filterQ, carried>>
          /\ \A d \in Bits : d # e => encQ'[d].items = encQ[d].items
      BY <3>1 DEF OnlyAt, Bits
    <3>3. q \in Seq(Frames) /\ Once(q)
      BY <1>0, <1>3, <3>2, EncoderTypes
    <3>4. Once(Tail(q)) /\ f \in ItemsOf(q) /\ ItemsOf(Tail(q)) = ItemsOf(q) \ {f}
      BY <3>1, <3>3, OnceBeheaded
    <3>5. /\ \A d \in Bits : BitsHold[d] = ItemsOf(encQ[d].items)
          /\ \A d \in Bits : BitsHold'[d] = ItemsOf(encQ'[d].items)
      BY DEF BitsHold
    <3> DEFINE A == BitsHold'
    <3>6. /\ BitsHold[e] = ItemsOf(q) /\ A[e] = ItemsOf(Tail(q))
          /\ \A d \in Bits : d # e => A[d] = BitsHold[d]
      BY <3>1, <3>2, <3>5
    <3>7. \A d \in Bits : Once(encQ'[d].items)
      <4> SUFFICES ASSUME NEW d \in Bits PROVE Once(encQ'[d].items)
        OBVIOUS
      <4> QED
        BY <1>3, <3>1, <3>2, <3>4
    <3> HIDE DEF A, f, q
    <3>8. f \in BitsHold[e] /\ A[e] = BitsHold[e] \ {f}
      BY <3>4, <3>6
    <3>9. OnePlace(D, F, carried, freed \cup {f}, A, O)
      BY <1>3, <3>2, <3>6, <3>8, MoveFromEncoder
    <3>10. OnePlace(D, F, carried, freed', BitsHold', O)
      BY <3>1, <3>9 DEF A
    <3>11. OwnedHere'
      BY <1>3, <3>2, <3>7, <3>10 DEF OwnedHere, D, F, O
    <3> QED
      BY <1>1, <3>11, OwnedAreNext
  <2> QED
    BY <1>13, <2>2, <2>3, <2>4, <2>5, <2>6, <2>7 DEF EncoderActs
<1>14. ASSUME NEW n \in 1 .. Len(Encoders) + 1, Audio!Cancel(n) \/ Audio!Join(n)
       PROVE  AudioOwned'
  <2>1. /\ filterQ'.items = filterQ.items
        /\ \A e \in Audio!E : encQ'[e].items = encQ[e].items
        /\ UNCHANGED <<times, due, carried, freed>>
    BY <1>0, <1>14, CloseDoes
  <2>2. \A e \in Bits : encQ'[e].items = encQ[e].items
    BY <2>1 DEF Bits
  <2> QED
    BY <1>1, <2>1, <2>2, OwnedStays
<1> QED
  BY <1>5, <1>6, <1>7, <1>8, <1>9, <1>10, <1>11, <1>12, <1>13, <1>14, AudioActs
-----------------------------------------------------------------------------
(* What the invariant says of the properties.                              *)
LEMMA NextOf ==
  ASSUME AudioTyped, NEW r \in Nat, WaitingAfter(r, times, filterQ.items), NEW e
  PROVE  Audio!PassedTo(e) = IF HasCopy(e, filterQ.items, fpc) THEN r + 1 ELSE r
<1> DEFINE s == filterQ.items
<1> DEFINE W == {f \in Audio!Range(s) : Audio!IsPcm(f)}
<1> DEFINE K == {f.k : f \in W}
<1> DEFINE next == IF W = {} THEN Len(times) + 1 ELSE Audio!Min(K)
<1>1. Audio!PassedTo(e) = IF HasCopy(e, s, fpc) THEN next ELSE next - 1
  BY DEF Audio!PassedTo, HasCopy, Audio!IsPcm, Audio!Frame
<1>2. s \in Seq(Frames) /\ times \in Seq(Nat) /\ Len(times) \in Nat
  BY QueueItems, LenProperties DEF AudioTyped
<1>3. DOMAIN s = 1 .. Len(s)
  BY <1>2, LenProperties
<1>4. \A f : f \in W <=> \E i \in 1 .. Len(s) : f = s[i] /\ s[i].pair = 0
  BY <1>3 DEF Audio!Range, Audio!IsPcm
<1>5. /\ r \in 0 .. Len(times)
      /\ \A i \in 1 .. Len(s) : s[i].k <= Len(times) /\ (s[i].pair = 0 => r < s[i].k)
      /\ \A b \in r + 1 .. Len(times) :
           \E i \in 1 .. Len(s) : s[i] = [k |-> b, pair |-> 0]
      /\ \A i \in 1 .. Len(s) : s[i].k \in Nat
  BY <1>2, FrameItems DEF WaitingAfter
<1> HIDE DEF s
<1>6. \A k \in K : k \in Nat /\ r + 1 <= k /\ k <= Len(times)
  <2> SUFFICES ASSUME NEW f \in W PROVE f.k \in Nat /\ r + 1 <= f.k /\ f.k <= Len(times)
    OBVIOUS
  <2> HIDE DEF W
  <2>1. PICK i \in 1 .. Len(s) : f = s[i] /\ s[i].pair = 0
    BY <1>4
  <2> QED
    BY <1>5, <2>1
<1>7. r + 1 <= Len(times) => r + 1 \in K
  <2> SUFFICES ASSUME r + 1 <= Len(times) PROVE r + 1 \in K
    OBVIOUS
  <2>1. r + 1 \in r + 1 .. Len(times)
    BY <1>2
  <2>2. PICK i \in 1 .. Len(s) : s[i] = [k |-> r + 1, pair |-> 0]
    BY <1>5, <2>1
  <2>3. s[i].pair = 0 /\ s[i].k = r + 1
    BY <2>2
  <2>4. s[i] \in W
    BY <1>4, <2>3
  <2> HIDE DEF W
  <2>5. s[i].k \in K
    BY <2>4
  <2> QED
    BY <2>3, <2>5
<1>8. W = {} <=> K = {}
  OBVIOUS
<1> HIDE DEF W, K
<1>9. next = r + 1
  <2>1. CASE W = {}
    BY <1>2, <1>5, <1>7, <1>8, <2>1
  <2>2. CASE W # {}
    <3>1. r + 1 \in K
      <4>1. PICK k \in K : TRUE
        BY <1>8, <2>2
      <4>2. r + 1 <= k /\ k <= Len(times) /\ k \in Nat
        BY <1>6
      <4> QED
        BY <1>2, <1>7, <4>2
    <3>2. Audio!Min(K) \in K /\ \A k \in K : Audio!Min(K) <= k
      <4>1. \E x \in K : \A y \in K : x <= y
        BY <1>6, <3>1
      <4> QED
        BY <4>1 DEF Audio!Min
    <3>3. Audio!Min(K) \in Nat /\ r + 1 <= Audio!Min(K) /\ Audio!Min(K) <= r + 1
      BY <1>6, <3>1, <3>2
    <3> QED
      BY <2>2, <3>3
  <2> QED
    BY <2>1, <2>2
<1> HIDE DEF next
<1> QED
  BY <1>1, <1>9 DEF s

LEMMA FlowOf ==
  ASSUME AudioInvariant, NEW e \in Audio!Pcm
  PROVE  \E n, m \in 0 .. Len(times) :
           /\ InHand(e, encQ[e].items, enc[e], muxed[e])
           /\ Flow(times, e, encQ[e].items, enc[e], muxed[e], n, m)
           /\ fpc # Audio!Gone => Audio!PassedTo(e) = n
<1>1. AudioTyped /\ e \in Audio!E
  BY PcmConstants DEF AudioInvariant
<1>2. PICK r \in Nat : FlowsFrom(r)
  BY FlowsAre DEF AudioInvariant
<1>3. PICK n, m \in 0 .. Len(times) :
        /\ Flow(times, e, encQ[e].items, enc[e], muxed[e], n, m)
        /\ fpc # Audio!Gone => n = IF HasCopy(e, filterQ.items, fpc) THEN r + 1 ELSE r
  BY <1>2 DEF FlowsFrom, FlowAt
<1>4. WaitingAfter(r, times, filterQ.items)
  BY <1>2 DEF FlowsFrom
<1>5. Audio!PassedTo(e) = IF HasCopy(e, filterQ.items, fpc) THEN r + 1 ELSE r
  BY <1>1, <1>4, NextOf
<1>6. InHand(e, encQ[e].items, enc[e], muxed[e])
  BY <1>1, EncoderTypes
<1> QED
  BY <1>3, <1>5, <1>6

LEMMA RestartsAre ==
  ASSUME NEW e, NEW k
  PROVE  Audio!RestartsAt(e, k) <=> Restarts(times, e, k)
  BY DEF Audio!RestartsAt, Restarts

LEMMA InOrder ==
  ASSUME AudioInvariant
  PROVE  Audio!AudioInOrder
<1> SUFFICES ASSUME NEW e \in Audio!Pcm
             PROVE  LET p == Audio!Passed(e)
                    IN  /\ \A i \in 1 .. Len(p) - 1 :
                             \/ p[i + 1] = <<p[i][1], p[i][2] + 1>>
                             \/ p[i][2] = Block /\ p[i + 1] = <<p[i][1] + 1, 1>>
                             \/ /\ p[i + 1][2] = 1 /\ p[i][1] < p[i + 1][1]
                                /\ \E k \in p[i][1] + 1 .. p[i + 1][1] :
                                     Audio!RestartsAt(e, k)
                        /\ fpc # Audio!Gone =>
                             IF Audio!PassedTo(e) = 0 THEN p = <<>>
                             ELSE p # <<>> /\ Audio!Last(p)[1] = Audio!PassedTo(e)
  BY DEF Audio!AudioInOrder
<1> DEFINE p == Given(muxed[e], enc[e], encQ[e].items)
<1>1. Audio!Passed(e) = p
  BY DEF Audio!Passed, Given, Sent, Queued
<1>2. PICK n, m \in 0 .. Len(times) :
        /\ Flow(times, e, encQ[e].items, enc[e], muxed[e], n, m)
        /\ fpc # Audio!Gone => Audio!PassedTo(e) = n
  BY FlowOf
<1>3. /\ Chained(times, e, p)
      /\ n = 0 => p = <<>>
      /\ n > 0 => p # <<>> /\ p[Len(p)] = <<n, Block>>
  BY <1>2 DEF Flow
<1> HIDE DEF p
<1>4. ASSUME NEW i \in 1 .. Len(p) - 1
      PROVE  \/ p[i + 1] = <<p[i][1], p[i][2] + 1>>
             \/ p[i][2] = Block /\ p[i + 1] = <<p[i][1] + 1, 1>>
             \/ /\ p[i + 1][2] = 1 /\ p[i][1] < p[i + 1][1]
                /\ \E k \in p[i][1] + 1 .. p[i + 1][1] : Audio!RestartsAt(e, k)
  <2>1. Linked(times, e, p[i], p[i + 1])
    BY <1>3 DEF Chained
  <2> QED
    BY <2>1, RestartsAre DEF Linked
<1>5. ASSUME fpc # Audio!Gone
      PROVE  IF Audio!PassedTo(e) = 0 THEN p = <<>>
             ELSE p # <<>> /\ Audio!Last(p)[1] = Audio!PassedTo(e)
  <2>1. Audio!PassedTo(e) = n /\ n \in Nat
    BY <1>2, <1>5
  <2>2. n # 0 => p # <<>> /\ Audio!Last(p)[1] = n
    BY <1>3, <2>1 DEF Audio!Last
  <2> QED
    BY <1>3, <2>1, <2>2
<1> QED
  BY <1>1, <1>4, <1>5

LEMMA LastRestartIs ==
  ASSUME NEW e, NEW b \in Nat, NEW r \in 1 .. b, SinceRestart(times, e, b, r)
  PROVE  Audio!LastRestart(e, b) = r
<1> DEFINE S == {j \in 1 .. b : Audio!RestartsAt(e, j)}
<1>1. \A j \in S : j \in Nat /\ j <= r
  <2> SUFFICES ASSUME NEW j \in 1 .. b, Restarts(times, e, j) PROVE j \in Nat /\ j <= r
    BY RestartsAre
  <2>1. j \notin r + 1 .. b
    BY DEF SinceRestart
  <2> QED
    BY <2>1
<1>2. r \in S
  BY RestartsAre DEF SinceRestart
<1>3. Audio!LastRestart(e, b) = Audio!Max(S)
  BY DEF Audio!LastRestart
<1> HIDE DEF S
<1>4. Audio!Max(S) \in S /\ \A y \in S : Audio!Max(S) >= y
  <2>1. \E x \in S : \A y \in S : x >= y
    BY <1>1, <1>2
  <2> QED
    BY <2>1 DEF Audio!Max
<1>5. Audio!Max(S) \in Nat /\ Audio!Max(S) <= r
  BY <1>1, <1>4
<1>6. Audio!Max(S) >= r
  BY <1>2, <1>4
<1>7. r \in Nat
  OBVIOUS
<1> QED
  BY <1>3, <1>5, <1>6, <1>7

LEMMA TimesRight ==
  ASSUME AudioInvariant
  PROVE  Audio!CodedTimes
<1> SUFFICES ASSUME NEW e \in Audio!Pcm, NEW i \in DOMAIN muxed[e]
             PROVE  LET first == Head(muxed[e][i].samples)
                        from  == Audio!LastRestart(e, first[1])
                    IN  muxed[e][i].pts
                          = times[from] + (first[1] - from) * Block + first[2] - 1
  BY DEF Audio!CodedTimes
<1> DEFINE f == muxed[e][i]
<1>1. PICK n, m \in 0 .. Len(times) :
        /\ InHand(e, encQ[e].items, enc[e], muxed[e])
        /\ Flow(times, e, encQ[e].items, enc[e], muxed[e], n, m)
  BY FlowOf
<1>2. muxed[e] \in Seq(CodedFrame)
  BY <1>1 DEF InHand
<1>3. i \in 1 .. Len(muxed[e])
  BY <1>2, LenProperties
<1>4. f \in CodedFrame
  BY <1>2, <1>3, ElementOfSeq
<1>5. /\ f.samples # <<>>
      /\ \E r \in 1 .. f.samples[1][1] :
           /\ SinceRestart(times, e, f.samples[1][1], r)
           /\ f.pts = TimeFrom(times, r, f.samples[1])
  <2>1. SentOnTime(times, e, muxed[e], m)
    BY <1>1 DEF Flow
  <2> QED
    BY <1>3, <2>1 DEF SentOnTime
<1> HIDE DEF f
<1>6. f.samples \in Seq(Sample)
  BY <1>4 DEF CodedFrame
<1>7. Head(f.samples) = f.samples[1] /\ f.samples[1] \in Sample
  BY <1>5, <1>6, Beheaded
<1>8. f.samples[1][1] \in Nat
  BY <1>7 DEF Sample
<1>9. PICK r \in 1 .. f.samples[1][1] :
        /\ SinceRestart(times, e, f.samples[1][1], r)
        /\ f.pts = TimeFrom(times, r, f.samples[1])
  BY <1>5
<1>10. Audio!LastRestart(e, f.samples[1][1]) = r
  BY <1>8, <1>9, LastRestartIs
<1>11. LET first == Head(f.samples)
           from  == Audio!LastRestart(e, first[1])
       IN  f.pts = times[from] + (first[1] - from) * Block + first[2] - 1
  BY <1>7, <1>9, <1>10 DEF TimeFrom
<1> QED
  BY <1>11 DEF f

LEMMA Owners ==
  ASSUME AudioInvariant
  PROVE  Audio!FramesOwned
<1>0. AudioTyped /\ OwnedHere /\ \A f \in carried : carried = {f}
  BY OwnedAre DEF AudioInvariant, AudioHands
<1>1. /\ due \in Seq(Frames) /\ filterQ.items \in Seq(Frames) /\ times \in Seq(Nat)
      /\ \A e \in Bits : encQ[e].items \in Seq(Frames)
      /\ Bits = Audio!E \ Audio!Pcm
  BY <1>0, QueueItems, EncoderTypes DEF AudioTyped, Bits
<1>2. \A s \in Seq(Frames) : Audio!Range(s) = ItemsOf(s)
  <2> SUFFICES ASSUME NEW s \in Seq(Frames) PROVE Audio!Range(s) = ItemsOf(s)
    OBVIOUS
  <2>1. DOMAIN s = 1 .. Len(s)
    BY LenProperties
  <2> QED
    BY <2>1 DEF Audio!Range, ItemsOf
<1> DEFINE D == ItemsOf(due)
<1> DEFINE F == ItemsOf(filterQ.items)
<1> DEFINE B == BitsHold
<1>3. OnePlace(D, F, carried, freed, B, OfCard(times))
  BY <1>0 DEF OwnedHere
<1>4. \A e \in Bits : B[e] = Audio!Range(encQ[e].items)
  BY <1>1, <1>2 DEF BitsHold
<1>5. Audio!Range(due) = D /\ Audio!Range(filterQ.items) = F
  BY <1>1, <1>2
<1> HIDE DEF D, F, B
<1> SUFFICES ASSUME NEW f \in Audio!CardFrames
             PROVE  LET inFilter == IF f \in F THEN 1 ELSE 0
                        isFreed  == IF f \in freed THEN 1 ELSE 0
                    IN  inFilter + isFreed + Cardinality(Audio!Holders(f)) = 1
  <2>1. \A S : Audio!Cardinality(S) = Cardinality(S)
    BY DEF Audio!Cardinality, Cardinality
  <2> QED
    BY <1>5, <2>1, Zenon DEF Audio!FramesOwned
<1>6. f \in Frames /\ f \in OfCard(times) /\ f \notin D
  <2>1. f \notin D
    BY <1>5 DEF Audio!CardFrames
  <2>2. PICK k \in DOMAIN times, p \in BitstreamPairs \cup {0} : f = [k |-> k, pair |-> p]
    BY DEF Audio!CardFrames
  <2>3. k \in 1 .. Len(times) /\ k \in Nat \ {0} /\ p \in Nat
    <3>1. DOMAIN times = 1 .. Len(times)
      BY <1>1, LenProperties
    <3> QED
      BY <2>2, <3>1, AudioConstants
  <2>4. f \in Frames /\ f.k = k /\ f.pair = p
    BY <2>2, <2>3 DEF Frames
  <2> QED
    BY <2>1, <2>2, <2>3, <2>4 DEF OfCard
<1>7. f \in F \cup carried \cup freed \/ InBits(B, f)
  BY <1>3, <1>6 DEF OnePlace, Together
<1>8. /\ f \in F => f \notin carried /\ f \notin freed /\ ~InBits(B, f)
      /\ f \in carried => f \notin freed /\ ~InBits(B, f)
      /\ f \in freed => ~InBits(B, f)
      /\ \A e, d \in Bits : f \in B[e] /\ f \in B[d] => e = d
  BY <1>3 DEF OnePlace, Apart
<1> DEFINE H == Audio!Holders(f)
<1>9. H = {e \in Bits : f \in B[e]} \cup {"filter" : x \in carried \cap {f}}
  BY <1>1, <1>4 DEF Audio!Holders
<1> HIDE DEF H
<1>10. CASE InBits(B, f)
  <2>1. PICK e \in Bits : f \in B[e]
    BY <1>10 DEF InBits
  <2>2. f \notin carried /\ f \notin F /\ f \notin freed
    BY <1>8, <1>10
  <2>3. H = {e}
    BY <1>8, <1>9, <2>1, <2>2
  <2>4. Cardinality(H) = 1
    BY <2>3, FS_Singleton
  <2> QED
    BY <2>2, <2>4 DEF H
<1>11. CASE ~InBits(B, f) /\ f \in carried
  <2>1. f \notin F /\ f \notin freed
    BY <1>8, <1>11
  <2>2. H = {"filter"}
    BY <1>9, <1>11 DEF InBits
  <2>3. Cardinality(H) = 1
    BY <2>2, FS_Singleton
  <2> QED
    BY <2>1, <2>3 DEF H
<1>12. CASE ~InBits(B, f) /\ f \notin carried
  <2>1. H = {}
    BY <1>9, <1>12 DEF InBits
  <2>2. Cardinality(H) = 0
    BY <2>1, FS_EmptySet
  <2>3. (f \in F /\ f \notin freed) \/ (f \notin F /\ f \in freed)
    BY <1>7, <1>8, <1>12
  <2> QED
    BY <2>2, <2>3 DEF H
<1> QED
  BY <1>10, <1>11, <1>12
-----------------------------------------------------------------------------
(* It holds at first, and every step of the run keeps it.                  *)
LEMMA AudioStart ==
  ASSUME Audio!Init
  PROVE  AudioInvariant
<1>1. /\ times = <<>> /\ due = <<>> /\ freed = {} /\ carried = {} /\ fpc = 0
      /\ filterQ = EmptyQueue
      /\ encQ = [e \in Audio!E |-> EmptyQueue]
      /\ enc = [e \in Audio!E |-> Audio!EncoderAt("open")]
      /\ muxed = [e \in Audio!E |-> <<>>]
  BY AudioQueues, Places DEF Audio!Init
<1>2. /\ EmptyQueue.items = <<>> /\ EmptyQueue \in Queue(Frames, {"filter"})
      /\ EmptyQueue \in Queue(Frames, Audio!E)
  BY EmptyQueueType
<1>3. Audio!EncoderAt("open") \in EncoderState /\ Audio!EncoderAt("open").pc = "open"
  BY DEF Audio!EncoderAt, EncoderState
<1>4. AudioTyped
  <2>1. times \in Seq(Nat) /\ due \in Seq(Frames) /\ filterQ \in Queue(Frames, {"filter"})
    BY <1>1, <1>2
  <2>2. fpc \in Int /\ Audio!Gone <= fpc /\ fpc <= Audio!Carries
    BY <1>1, Places
  <2>3. encQ \in [Audio!E -> Queue(Frames, Audio!E)] /\ enc \in [Audio!E -> EncoderState]
    BY <1>1, <1>2, <1>3
  <2>4. DOMAIN muxed = Audio!E /\ \A e \in Audio!Pcm : muxed[e] \in Seq(CodedFrame)
    BY <1>1, PcmConstants
  <2> QED
    BY <1>1, <2>1, <2>2, <2>3, <2>4 DEF AudioTyped
<1>5. AudioHands
  <2>1. \A e \in Audio!E : enc[e].pc = "open"
    BY <1>1, <1>3
  <2>2. \A i \in 1 .. Len(due) : FALSE
    BY <1>1
  <2> QED
    BY <1>1, <2>1, <2>2, Places, PcmConstants DEF AudioHands
<1>6. AudioFlows
  <2>1. WaitingAfter(0, times, filterQ.items)
    BY <1>1, <1>2 DEF WaitingAfter
  <2>2. ASSUME NEW e \in Audio!Pcm
        PROVE  FlowAt(0, times, filterQ.items, fpc, e, encQ[e].items, enc[e], muxed[e])
    <3>1. /\ encQ[e].items = <<>> /\ enc[e] = Audio!EncoderAt("open") /\ muxed[e] = <<>>
          /\ times \in Seq(Nat) /\ Len(times) = 0
      BY <1>1, <1>2, PcmConstants
    <3>2. Flow(times, e, encQ[e].items, enc[e], muxed[e], 0, 0)
      BY <3>1, FlowStart
    <3>3. ~HasCopy(e, filterQ.items, fpc)
      BY <1>1, NoCopy
    <3>4. 0 \in 0 .. Len(times)
      BY <3>1
    <3> QED
      BY <3>2, <3>3, <3>4 DEF FlowAt
  <2>3. FlowsFrom(0)
    BY <2>1, <2>2 DEF FlowsFrom
  <2> QED
    BY <2>3, FlowsAre
<1>7. AudioOwned
  <2>1. /\ ItemsOf(<<>>) = {} /\ Once(<<>>)
    BY DEF ItemsOf, Once
  <2>2. \A e \in Bits : encQ[e].items = <<>> /\ BitsHold[e] = {}
    BY <1>1, <1>2, <2>1 DEF Bits, BitsHold
  <2>3. \A f : ~InBits(BitsHold, f)
    BY <2>2 DEF InBits
  <2>4. OfCard(times) = {}
    BY <1>1 DEF OfCard
  <2>5. OnePlace({}, {}, {}, {}, BitsHold, {})
    BY <2>2, <2>3 DEF OnePlace, Apart, Together
  <2>6. OwnedHere
    BY <1>1, <1>2, <2>1, <2>2, <2>4, <2>5 DEF OwnedHere
  <2> QED
    BY <1>4, <2>6, OwnedAre
<1> QED
  BY <1>4, <1>5, <1>6, <1>7 DEF AudioInvariant

LEMMA AudioStays ==
  ASSUME AudioInvariant, UNCHANGED audioVars
  PROVE  AudioInvariant'
<1>1. UNCHANGED <<times, due, filterQ, fpc, carried, encQ, enc, muxed, freed>>
  BY DEF audioVars
<1>2. AudioTyped' /\ AudioHands'
  BY <1>1 DEF AudioInvariant, AudioTyped, AudioHands
<1>3. AudioFlows'
  BY <1>1 DEF AudioInvariant, AudioFlows
<1>4. AudioOwned'
  BY <1>1 DEF AudioInvariant, AudioOwned, OfEncoder
<1> QED
  BY <1>2, <1>3, <1>4 DEF AudioInvariant

LEMMA AudioSteps ==
  ASSUME AudioInvariant, Next
  PROVE  AudioInvariant'
<1>1. CASE AudioNext
  <2>1. Audio!Next
    BY <1>1 DEF AudioNext, Audio!Next
  <2> QED
    BY <2>1, AudioHandsStep, FlowsStep, OwnedStep DEF AudioInvariant
<1>2. CASE TimesNext \/ PiecesNext \/ GopNext
  <2>1. UNCHANGED audioVars
    BY <1>2 DEF TimesNext, PiecesNext, GopNext
  <2> QED
    BY <2>1, AudioStays
<1> QED
  BY <1>1, <1>2 DEF Next

LEMMA AudioInvariantHolds == Spec => []AudioInvariant
<1>1. Init => AudioInvariant
  BY AudioStart DEF Init
<1>2. AudioInvariant /\ [Next]_vars => AudioInvariant'
  <2>1. UNCHANGED vars => UNCHANGED audioVars
    BY DEF vars
  <2> QED
    BY <2>1, AudioSteps, AudioStays
<1> QED
  BY <1>1, <1>2, PTL DEF Spec

(* Whatever thread fails and whenever obe_close begins, every PCM encoder  *)
(* is given every block in order and codes every sample once, except those *)
(* in its fifos when its time restarts; a coded frame carries the time of  *)
(* its first sample, counted from the last restart; and a frame of the     *)
(* card has one owner (start_filter_audio, start_encoder_mp2,              *)
(* start_encoder_audio, start_encoder_ac3bitstream).                       *)
THEOREM AudioIsAsCaptured == Spec => []AudioAsCaptured
<1>1. AudioInvariant => AudioAsCaptured
  BY InOrder, TimesRight, Owners DEF AudioAsCaptured
<1> QED
  BY <1>1, AudioInvariantHolds, PTL
=============================================================================
