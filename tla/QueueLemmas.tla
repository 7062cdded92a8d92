----------------------------- MODULE QueueLemmas -----------------------------
(* What the proofs about the paths need of thread queues: what the         *)
(* operations return, for every queue, what becomes of sequences that grow *)
(* at the end and shrink at the head, and division.                        *)
EXTENDS ObeQueue, SequenceTheorems, WellFoundedInduction, TLAPS

(* A signal wakes nobody else than a sleeper, and the only sleeper if      *)
(* there is but one.                                                       *)
LEMMA WakeOneWakes ==
  ASSUME NEW S, NEW w \in WakeOne(S)
  PROVE  /\ w \subseteq S
         /\ \A t : S \subseteq {t} => w = {}
  BY DEF WakeOne

LEMMA AddToQueueType ==
  ASSUME NEW Item, NEW Thread, NEW q \in Queue(Item, Thread), NEW i \in Item,
         NEW r \in AddToQueue(q, i)
  PROVE  /\ r \in Queue(Item, Thread)
         /\ r.items = Append(q.items, i)
         /\ r.out = q.out
         /\ r.in \in WakeOne(q.in)
<1>1. PICK w \in WakeOne(q.in) :
        r = [q EXCEPT !.items = Append(q.items, i), !.in = w]
  BY DEF AddToQueue
<1>2. w \subseteq q.in
  BY WakeOneWakes
<1>3. q.items \in Seq(Item) /\ Append(q.items, i) \in Seq(Item)
  BY DEF Queue
<1> QED
  BY <1>1, <1>2, <1>3 DEF Queue

LEMMA RemoveFromQueueType ==
  ASSUME NEW Item, NEW Thread, NEW q \in Queue(Item, Thread), q.items # <<>>,
         NEW r \in RemoveFromQueue(q)
  PROVE  /\ r \in Queue(Item, Thread)
         /\ r.items = Tail(q.items)
         /\ r.in = q.in
         /\ r.out \in WakeOne(q.out)
<1>1. PICK w \in WakeOne(q.out) :
        r = [q EXCEPT !.items = Tail(q.items), !.out = w]
  BY DEF RemoveFromQueue
<1>2. w \subseteq q.out
  BY WakeOneWakes
<1>3. q.items \in Seq(Item) /\ Tail(q.items) \in Seq(Item)
  BY DEF Queue
<1> QED
  BY <1>1, <1>2, <1>3 DEF Queue

LEMMA SignalInType ==
  ASSUME NEW Item, NEW Thread, NEW q \in Queue(Item, Thread),
         NEW r \in SignalIn(q)
  PROVE  /\ r \in Queue(Item, Thread)
         /\ r.items = q.items
         /\ r.out = q.out
         /\ r.in \in WakeOne(q.in)
  BY WakeOneWakes DEF SignalIn, Queue

LEMMA SleepType ==
  ASSUME NEW Item, NEW Thread, NEW q \in Queue(Item, Thread), NEW t \in Thread
  PROVE  /\ SleepIn(q, t) \in Queue(Item, Thread)
         /\ SleepIn(q, t).items = q.items
         /\ SleepIn(q, t).in = q.in \cup {t}
         /\ SleepIn(q, t).out = q.out
         /\ SleepOut(q, t) \in Queue(Item, Thread)
         /\ SleepOut(q, t).items = q.items
         /\ SleepOut(q, t).in = q.in
         /\ SleepOut(q, t).out = q.out \cup {t}
  BY DEF SleepIn, SleepOut, Queue

LEMMA BroadcastInType ==
  ASSUME NEW Item, NEW Thread, NEW q \in Queue(Item, Thread)
  PROVE  /\ BroadcastIn(q) \in Queue(Item, Thread)
         /\ BroadcastIn(q).items = q.items
         /\ BroadcastIn(q).in = {}
         /\ BroadcastIn(q).out = q.out
  BY DEF BroadcastIn, Queue

LEMMA EmptyQueueType ==
  ASSUME NEW Item, NEW Thread
  PROVE  /\ EmptyQueue \in Queue(Item, Thread)
         /\ EmptyQueue.items = <<>> /\ EmptyQueue.in = {} /\ EmptyQueue.out = {}
  BY DEF EmptyQueue, Queue
-----------------------------------------------------------------------------
(* The length and the head of a sequence.                                  *)
LEMMA SeqFacts ==
  ASSUME NEW S, NEW s \in Seq(S)
  PROVE  /\ Len(s) \in Nat
         /\ s = <<>> => Len(s) = 0
         /\ s # <<>> => Len(s) >= 1 /\ 1 \in 1..Len(s) /\ Len(s) \in 1..Len(s) /\ Head(s) = s[1]
<1>1. Len(s) \in Nat /\ (s = <<>> => Len(s) = 0) /\ (s # <<>> => Len(s) \in Nat \ {0})
  BY EmptySeq, LenProperties
<1> QED
  BY <1>1

(* A prefix is shorter and agrees.                                         *)
LEMMA PrefixIs ==
  ASSUME NEW S, NEW s \in Seq(S), NEW t \in Seq(S)
  PROVE  IsPrefix(s, t) <=>
           Len(s) <= Len(t) /\ \A i \in 1..Len(s) : s[i] = t[i]
<1>1. ASSUME Len(s) <= Len(t)
      PROVE  SubSeq(s, 1, Len(s)) = SubSeq(t, 1, Len(s))
               <=> \A i \in 1..Len(s) : s[i] = t[i]
  <2>1. \A i \in 1..Len(s) : s[i] \in S /\ t[i] \in S
    BY <1>1, ElementOfSeq, LenProperties
  <2>2. /\ SubSeq(s, 1, Len(s)) = s
        /\ SubSeq(t, 1, Len(s)) \in Seq(S)
        /\ Len(SubSeq(t, 1, Len(s))) = Len(s)
        /\ \A i \in 1..Len(s) : SubSeq(t, 1, Len(s))[i] = t[i]
    <3>1. Len(s) \in Nat
      BY LenProperties
    <3>2. /\ SubSeq(t, 1, Len(s)) \in Seq(S)
          /\ Len(SubSeq(t, 1, Len(s))) = IF 1 <= Len(s) THEN Len(s) - 1 + 1 ELSE 0
          /\ \A i \in 1..Len(s) - 1 + 1 : SubSeq(t, 1, Len(s))[i] = t[1 + i - 1]
      BY <2>1, <3>1, SubSeqProperties
    <3> QED
      BY <3>1, <3>2, SubSeqFull
  <2> QED
    BY <2>2, SeqEqual
<1> QED
  BY <1>1 DEF IsPrefix

(* A queue may grow behind what was copied of it.                          *)
LEMMA PrefixOfAppend ==
  ASSUME NEW S, NEW s \in Seq(S), NEW t \in Seq(S), NEW e \in S, IsPrefix(s, t)
  PROVE  IsPrefix(s, Append(t, e))
<1>1. /\ Append(t, e) \in Seq(S) /\ Len(Append(t, e)) = Len(t) + 1
      /\ \A i \in 1..Len(t) : Append(t, e)[i] = t[i]
  BY AppendProperties
<1>2. Len(s) \in Nat /\ Len(t) \in Nat
  BY LenProperties
<1>3. Len(s) <= Len(t) /\ \A i \in 1..Len(s) : s[i] = t[i]
  BY PrefixIs
<1>4. Len(s) <= Len(Append(t, e)) /\ \A i \in 1..Len(s) : s[i] = Append(t, e)[i]
  BY <1>1, <1>2, <1>3
<1> QED
  BY <1>1, <1>4, PrefixIs

(* A queue and what was copied of it lose the same head.                   *)
LEMMA PrefixOfTails ==
  ASSUME NEW S, NEW s \in Seq(S), NEW t \in Seq(S), s # <<>>, IsPrefix(s, t)
  PROVE  /\ t # <<>> /\ Head(s) = Head(t) /\ Head(t) \in S
         /\ Tail(s) \in Seq(S) /\ Tail(t) \in Seq(S)
         /\ Len(Tail(s)) = Len(s) - 1 /\ Len(Tail(t)) = Len(t) - 1
         /\ IsPrefix(Tail(s), Tail(t))
<1>1. /\ Len(s) \in Nat \ {0} /\ Len(t) \in Nat /\ Len(s) <= Len(t)
      /\ \A i \in 1..Len(s) : s[i] = t[i]
  BY PrefixIs, EmptySeq, LenProperties
<1>2. t # <<>> /\ s[1] = t[1]
  BY <1>1, EmptySeq
<1>3. /\ Tail(s) \in Seq(S) /\ Len(Tail(s)) = Len(s) - 1
      /\ \A i \in 1..Len(Tail(s)) : Tail(s)[i] = s[i + 1]
  BY HeadTailProperties
<1>4. /\ Tail(t) \in Seq(S) /\ Len(Tail(t)) = Len(t) - 1
      /\ \A i \in 1..Len(Tail(t)) : Tail(t)[i] = t[i + 1]
  BY <1>2, HeadTailProperties
<1>5. Head(s) = s[1] /\ Head(t) = t[1] /\ Head(t) \in S
  BY <1>1, <1>2, HeadTailProperties
<1>6. Len(Tail(s)) <= Len(Tail(t)) /\ \A i \in 1..Len(Tail(s)) : Tail(s)[i] = Tail(t)[i]
  <2>1. Len(Tail(s)) \in Nat /\ Len(Tail(t)) \in Nat
    BY <1>3, <1>4, LenProperties
  <2>2. ASSUME NEW i \in 1..Len(Tail(s)) PROVE Tail(s)[i] = Tail(t)[i]
    <3>1. i + 1 \in 1..Len(s) /\ i \in 1..Len(Tail(t))
      BY <1>1, <1>3, <1>4, <2>1
    <3> QED
      BY <1>1, <1>3, <1>4, <3>1
  <2> QED
    BY <1>1, <1>3, <1>4, <2>1, <2>2
<1>7. IsPrefix(Tail(s), Tail(t))
  BY <1>3, <1>4, <1>6, PrefixIs
<1> QED
  BY <1>2, <1>3, <1>4, <1>5, <1>7

(* A copy of the whole queue is a prefix of it.                            *)
LEMMA PrefixOfItself ==
  ASSUME NEW S, NEW s \in Seq(S)
  PROVE  IsPrefix(s, s)
  BY PrefixIs, LenProperties

(* Moving the head of what is queued to the end of what is written.        *)
LEMMA MovesHead ==
  ASSUME NEW S, NEW w \in Seq(S), NEW t \in Seq(S), t # <<>>
  PROVE  Append(w, Head(t)) \o Tail(t) = w \o t
<1>1. Head(t) \in S /\ Tail(t) \in Seq(S) /\ Len(Tail(t)) = Len(t) - 1
      /\ \A i \in 1..Len(Tail(t)) : Tail(t)[i] = t[i + 1]
  BY HeadTailProperties
<1>2. <<Head(t)>> \in Seq(S) /\ Len(<<Head(t)>>) = 1 /\ <<Head(t)>>[1] = Head(t)
  BY <1>1
<1>3. <<Head(t)>> \o Tail(t) = t
  <2>1. /\ <<Head(t)>> \o Tail(t) \in Seq(S)
        /\ Len(<<Head(t)>> \o Tail(t)) = 1 + Len(Tail(t))
        /\ \A i \in 1..1 + Len(Tail(t)) :
             (<<Head(t)>> \o Tail(t))[i] = IF i <= 1 THEN <<Head(t)>>[i] ELSE Tail(t)[i - 1]
    BY <1>1, <1>2, ConcatProperties
  <2>2. Len(t) \in Nat \ {0} /\ Head(t) = t[1]
    BY EmptySeq
  <2> QED
    BY <1>1, <1>2, <2>1, <2>2, SeqEqual
<1>4. Append(w, Head(t)) = w \o <<Head(t)>>
  BY <1>1, AppendIsConcat
<1> QED
  BY <1>1, <1>2, <1>3, <1>4, ConcatAssociative

(* Appending to what is queued appends to what was given.                  *)
LEMMA AppendAfter ==
  ASSUME NEW S, NEW w \in Seq(S), NEW t \in Seq(S), NEW e \in S
  PROVE  /\ w \o Append(t, e) = Append(w \o t, e)
         /\ w \o t \in Seq(S)
<1>1. <<e>> \in Seq(S) /\ w \o t \in Seq(S)
  BY ConcatProperties
<1>2. Append(t, e) = t \o <<e>> /\ Append(w \o t, e) = (w \o t) \o <<e>>
  BY <1>1, AppendIsConcat
<1> QED
  BY <1>1, <1>2, ConcatAssociative

(* What was given is at least as long as what is written.                  *)
LEMMA LongerWithMore ==
  ASSUME NEW S, NEW w \in Seq(S), NEW t \in Seq(S)
  PROVE  /\ Len(w) <= Len(w \o t)
         /\ t # <<>> => Len(w) < Len(w \o t)
<1> DEFINE both == w \o t
<1>1. Len(both) = Len(w) + Len(t)
  BY ConcatProperties
<1>2. Len(w) \in Nat /\ Len(t) \in Nat /\ (t # <<>> => Len(t) # 0)
  BY EmptySeq, LenProperties
<1> HIDE DEF both
<1>3. Len(w) <= Len(both) /\ (t # <<>> => Len(w) < Len(both))
  BY <1>1, <1>2
<1> QED
  BY <1>3 DEF both
-----------------------------------------------------------------------------
(* A set of numbers has a smallest one.                                    *)
LEMMA Smallest ==
  ASSUME NEW S \in SUBSET Nat, S # {}
  PROVE  \E m \in S : \A n \in S : m <= n
<1> DEFINE R == OpToRel(<, Nat)
<1>1. IsWellFoundedOn(R, Nat)
  BY NatLessThanWellFounded
<1>2. \A n, m \in Nat : n < m => <<n, m>> \in R
  BY DEF OpToRel
<1> HIDE DEF R
<1>3. PICK m \in S : \A n \in S : ~(<<n, m>> \in R)
  BY <1>1, WFMin
<1>4. \A n \in S : ~(n < m)
  BY <1>2, <1>3
<1> QED
  BY <1>4

(* Induction over the numbers, stated for a set.                           *)
LEMMA SetInduction ==
  ASSUME NEW S \in SUBSET Nat, 0 \in S, \A n \in S : n + 1 \in S
  PROVE  S = Nat
<1> SUFFICES ASSUME Nat \ S # {} PROVE FALSE
  OBVIOUS
<1>1. PICK m \in Nat \ S : \A n \in Nat \ S : m <= n
  BY Smallest
<1>2. m - 1 \in Nat /\ m - 1 \notin Nat \ S
  BY <1>1
<1> QED
  BY <1>1, <1>2
-----------------------------------------------------------------------------
(* What division gives, and that nothing else is it.                       *)
LEMMA Division ==
  ASSUME NEW n \in Nat, NEW w \in Nat \ {0}
  PROVE  /\ n \div w \in Nat /\ n % w \in 0..w - 1
         /\ n = w * (n \div w) + (n % w)
OBVIOUS

LEMMA DivisionIs ==
  ASSUME NEW w \in Nat \ {0}, NEW q \in Nat, NEW r \in 0..w - 1
  PROVE  (w * q + r) \div w = q /\ (w * q + r) % w = r
<1> DEFINE n == w * q + r
           p == n \div w
           s == n % w
<1>1. n \in Nat
  OBVIOUS
<1>2. p \in Nat /\ s \in 0..w - 1 /\ n = w * p + s
  BY <1>1, Division
<1> HIDE DEF p, s
<1>3. w * (q - p) = s - r
  BY <1>2
<1>4. q - p < 1
  <2>1. q - p >= 1 => w * (q - p) >= w
    BY <1>2
  <2> QED
    BY <1>2, <1>3, <2>1
<1>5. q - p > -1
  <2>1. q - p <= -1 => w * (q - p) <= -w
    BY <1>2
  <2> QED
    BY <1>2, <1>3, <2>1
<1>6. p = q
  BY <1>2, <1>4, <1>5
<1> QED
  BY <1>2, <1>6 DEF p, s
=============================================================================
