-------------------------- MODULE OutputPathProofs --------------------------
(* The mux smoothing thread, the output threads and obe_close, for any     *)
(* number of outputs and any sizes of blocks and payloads.                 *)
(*                                                                         *)
(* None of the three theorems is inductive.  That a sleeper misses nothing *)
(* needs to know of what length the queue was when its thread went to      *)
(* sleep (SmSound, OutSound); that all outputs are given the same needs to *)
(* know whose turn it is, also outside SmGive (Counts); and that a payload *)
(* is the next packets in order, each with its own PCR, needs to know that *)
(* queue and fifos hold, without a gap, what is muxed and not drawn        *)
(* (Contiguous, FifosFollow).  IInv is their conjunction; StepIInv proves  *)
(* it action by action, conjunct by conjunct.                              *)
EXTENDS OutputPath, QueueLemmas
-----------------------------------------------------------------------------
(* The invariant.  What concerns one output and its queue: *)
OutSound(o, r) ==
  /\ r \in OutputType(o)
  /\ o \in r.q.in => r.pc = "wait" /\ r.q.items = <<>> /\ ~r.cancel
  /\ r.pc \in {"write", "remove"} => r.copied # <<>> /\ IsPrefix(r.copied, r.q.items)

OutsSound ==
  DOMAIN out = Output /\ \A o \in Output : OutSound(o, out[o])

(* A signal for a queue on which only one thread sleeps.                   *)
LEMMA WakesIt ==
  ASSUME NEW t, NEW S, S \subseteq {t}, NEW w \in WakeOne(S)
  PROVE  w = {}
  BY WakeOneWakes

(* The fields of the record of an output.                                  *)
LEMMA OutTypes ==
  ASSUME NEW o, NEW r \in OutputType(o)
  PROVE  /\ r.q \in Queue(PayloadType, {o})
         /\ r.q.items \in Seq(PayloadType) /\ r.q.in \subseteq {o} /\ r.q.out \subseteq {o}
         /\ r.copied \in Seq(PayloadType) /\ r.written \in Seq(PayloadType)
         /\ r.pc \in {"open", "wait", "write", "remove", "done"}
         /\ r.cancel \in BOOLEAN /\ r.killed \in BOOLEAN
  BY DEF OutputType, Queue

(* A step of an output thread: nobody else's record changes, what the      *)
(* output was given stays, and at most one payload more is written, one    *)
(* that it was given.                                                      *)
LEMMA OutputStep ==
  ASSUME NEW o \in Output, OutsSound, OutStep(o)
  PROVE  /\ DOMAIN out' = Output
         /\ \A p \in Output \ {o} : out'[p] = out[p]
         /\ OutSound(o, out'[o])
         /\ GivenBy(out'[o]) = GivenBy(out[o])
         /\ \/ out'[o].written = out[o].written
            \/ /\ Len(out'[o].written) = Len(out[o].written) + 1
               /\ Len(out[o].written) < Len(GivenBy(out[o]))
<1> DEFINE r == out[o]
<1>1. OutSound(o, r) /\ DOMAIN out = Output
  BY DEF OutsSound
<1>2. /\ r \in OutputType(o) /\ r.q \in Queue(PayloadType, {o})
      /\ r.q.items \in Seq(PayloadType) /\ r.q.in \subseteq {o} /\ r.q.out \subseteq {o}
      /\ r.copied \in Seq(PayloadType) /\ r.written \in Seq(PayloadType)
      /\ r.pc \in {"open", "wait", "write", "remove", "done"}
      /\ r.cancel \in BOOLEAN /\ r.killed \in BOOLEAN
  BY <1>1, OutTypes DEF OutSound
<1>3. ASSUME NEW s, SetOut(o, s)
      PROVE  DOMAIN out' = Output /\ out'[o] = s /\ \A p \in Output \ {o} : out'[p] = out[p]
  BY <1>1, <1>3 DEF SetOut
<1>4. CASE OutOpen(o)
  <2>1. PICK pc \in {"wait", "done"} : SetOut(o, [r EXCEPT !.pc = pc])
    BY <1>4 DEF OutOpen
  <2>2. out'[o] = [r EXCEPT !.pc = pc]
    BY <1>3, <2>1
  <2>3. r.pc = "open" /\ o \notin r.q.in
    BY <1>1, <1>4 DEF OutOpen, OutSound
  <2>4. /\ out'[o].pc = pc /\ out'[o].q = r.q /\ out'[o].written = r.written
        /\ out'[o] \in OutputType(o)
    BY <1>2, <2>2 DEF OutputType
  <2>5. OutSound(o, out'[o]) /\ GivenBy(out'[o]) = GivenBy(r)
    BY <2>3, <2>4 DEF OutSound, GivenBy
  <2> QED
    BY <1>3, <2>1, <2>4, <2>5
<1>5. CASE OutSleep(o)
  <2> DEFINE q == SleepIn(r.q, o)
  <2>1. SetOut(o, [r EXCEPT !.q = q])
    BY <1>5 DEF OutSleep
  <2>2. r.pc = "wait" /\ r.q.items = <<>> /\ ~r.cancel
    BY <1>5 DEF OutSleep, OutAwake
  <2>3. q \in Queue(PayloadType, {o}) /\ q.items = r.q.items
    BY <1>2, SleepType
  <2> HIDE DEF q
  <2>4. out'[o] = [r EXCEPT !.q = q]
    BY <1>3, <2>1
  <2>5. /\ out'[o].pc = r.pc /\ out'[o].q = q /\ out'[o].written = r.written
        /\ out'[o].cancel = r.cancel /\ out'[o] \in OutputType(o)
    BY <1>2, <2>3, <2>4 DEF OutputType
  <2>6. OutSound(o, out'[o]) /\ GivenBy(out'[o]) = GivenBy(r)
    BY <2>2, <2>3, <2>5 DEF OutSound, GivenBy
  <2> QED
    BY <1>3, <2>1, <2>5, <2>6
<1>6. CASE OutCancelled(o)
  <2>1. SetOut(o, [r EXCEPT !.pc = "done"])
    BY <1>6 DEF OutCancelled
  <2>2. out'[o] = [r EXCEPT !.pc = "done"]
    BY <1>3, <2>1
  <2>3. r.pc = "wait" /\ o \notin r.q.in
    BY <1>6 DEF OutCancelled, OutAwake
  <2>4. /\ out'[o].pc = "done" /\ out'[o].q = r.q /\ out'[o].written = r.written
        /\ out'[o] \in OutputType(o)
    BY <1>2, <2>2 DEF OutputType
  <2>5. OutSound(o, out'[o]) /\ GivenBy(out'[o]) = GivenBy(r)
    BY <2>3, <2>4 DEF OutSound, GivenBy
  <2> QED
    BY <1>3, <2>1, <2>4, <2>5
<1>7. CASE OutCopy(o)
  <2>1. SetOut(o, [r EXCEPT !.copied = r.q.items, !.pc = "write"])
    BY <1>7 DEF OutCopy
  <2>2. out'[o] = [r EXCEPT !.copied = r.q.items, !.pc = "write"]
    BY <1>3, <2>1
  <2>3. r.pc = "wait" /\ o \notin r.q.in /\ r.q.items # <<>>
    BY <1>7 DEF OutCopy, OutAwake
  <2>4. IsPrefix(r.q.items, r.q.items)
    BY <1>2, PrefixOfItself
  <2>5. /\ out'[o].pc = "write" /\ out'[o].q = r.q /\ out'[o].written = r.written
        /\ out'[o].copied = r.q.items /\ out'[o] \in OutputType(o)
    BY <1>2, <2>2 DEF OutputType
  <2>6. OutSound(o, out'[o]) /\ GivenBy(out'[o]) = GivenBy(r)
    BY <2>3, <2>4, <2>5 DEF OutSound, GivenBy
  <2> QED
    BY <1>3, <2>1, <2>5, <2>6
<1>8. CASE OutWrite(o)
  <2> DEFINE w == Append(r.written, Head(r.copied))
  <2>1. SetOut(o, [r EXCEPT !.written = w, !.pc = "remove"])
    BY <1>8 DEF OutWrite
  <2>2. r.pc = "write" /\ o \notin r.q.in
    BY <1>1, <1>8 DEF OutWrite, OutSound
  <2>3. r.copied # <<>> /\ IsPrefix(r.copied, r.q.items)
    BY <1>1, <2>2 DEF OutSound
  <2>4. /\ r.q.items # <<>> /\ Head(r.copied) = Head(r.q.items)
        /\ Head(r.q.items) \in PayloadType
    BY <1>2, <2>3, PrefixOfTails
  <2>5. w \in Seq(PayloadType) /\ Len(w) = Len(r.written) + 1
    BY <1>2, <2>4, AppendProperties
  <2>6. w \o Tail(r.q.items) = r.written \o r.q.items
    BY <1>2, <2>4, MovesHead
  <2>7. Len(r.written) < Len(r.written \o r.q.items)
    BY <1>2, <2>4, LongerWithMore
  <2>8. GivenBy(r) = r.written \o r.q.items
    BY <2>2 DEF GivenBy
  <2> HIDE DEF w
  <2>9. out'[o] = [r EXCEPT !.written = w, !.pc = "remove"]
    BY <1>3, <2>1
  <2>10. /\ out'[o].written = w /\ out'[o].pc = "remove" /\ out'[o].q = r.q
         /\ out'[o].copied = r.copied /\ out'[o] \in OutputType(o)
    BY <1>2, <2>5, <2>9 DEF OutputType
  <2>11. GivenBy(out'[o]) = w \o Tail(r.q.items)
    BY <2>10 DEF GivenBy
  <2>12. OutSound(o, out'[o])
    BY <2>2, <2>3, <2>10 DEF OutSound
  <2> QED
    BY <1>3, <2>1, <2>5, <2>6, <2>7, <2>8, <2>10, <2>11, <2>12
<1>9. CASE OutRemove(o)
  <2> DEFINE pc == IF Len(r.copied) = 1 THEN "wait" ELSE "write"
  <2>1. r.pc = "remove" /\ r.copied # <<>> /\ IsPrefix(r.copied, r.q.items) /\ o \notin r.q.in
    BY <1>1, <1>9 DEF OutRemove, OutSound
  <2>2. PICK q \in RemoveFromQueue(r.q) :
          SetOut(o, [r EXCEPT !.q = q, !.copied = Tail(r.copied), !.pc = pc])
    BY <1>9 DEF OutRemove
  <2>3. /\ r.q.items # <<>> /\ Tail(r.copied) \in Seq(PayloadType)
        /\ Len(Tail(r.copied)) = Len(r.copied) - 1
        /\ IsPrefix(Tail(r.copied), Tail(r.q.items))
    BY <1>2, <2>1, PrefixOfTails
  <2>4. q \in Queue(PayloadType, {o}) /\ q.items = Tail(r.q.items) /\ q.in = r.q.in
    BY <1>2, <2>2, <2>3, RemoveFromQueueType
  <2>5. pc = "write" => Tail(r.copied) # <<>>
    <3>1. Len(r.copied) \in Nat \ {0}
      BY <1>2, <2>1, EmptySeq
    <3>2. Tail(r.copied) = <<>> => Len(Tail(r.copied)) = 0
      BY EmptySeq
    <3> QED
      BY <2>3, <3>1, <3>2
  <2>6. pc \in {"wait", "write"}
    OBVIOUS
  <2> HIDE DEF pc
  <2>7. out'[o] = [r EXCEPT !.q = q, !.copied = Tail(r.copied), !.pc = pc]
    BY <1>3, <2>2
  <2>8. /\ out'[o].q = q /\ out'[o].copied = Tail(r.copied) /\ out'[o].written = r.written
        /\ out'[o].pc = pc /\ out'[o] \in OutputType(o)
    BY <1>2, <2>3, <2>4, <2>6, <2>7 DEF OutputType
  <2>9. OutSound(o, out'[o])
    BY <2>1, <2>3, <2>4, <2>5, <2>6, <2>8 DEF OutSound
  <2>10. GivenBy(out'[o]) = GivenBy(r)
    BY <2>1, <2>4, <2>6, <2>8 DEF GivenBy
  <2> QED
    BY <1>3, <2>2, <2>8, <2>9, <2>10
<1>10. CASE OutKilled(o)
  <2>1. SetOut(o, [r EXCEPT !.pc = "done", !.q.in = r.q.in \ {o}])
    BY <1>10 DEF OutKilled
  <2>2. out'[o] = [r EXCEPT !.pc = "done", !.q.in = r.q.in \ {o}]
    BY <1>3, <2>1
  <2>3. r.pc \in {"write", "wait"}
    BY <1>10 DEF OutKilled
  <2>4. [r.q EXCEPT !.in = r.q.in \ {o}] \in Queue(PayloadType, {o})
    BY <1>2 DEF Queue
  <2>5. out'[o] = [r EXCEPT !.pc = "done", !.q = [r.q EXCEPT !.in = r.q.in \ {o}]]
    BY <1>2, <2>2 DEF OutputType
  <2>6. /\ out'[o].pc = "done" /\ out'[o].written = r.written
        /\ out'[o].q = [r.q EXCEPT !.in = r.q.in \ {o}]
        /\ out'[o] \in OutputType(o)
    BY <1>2, <2>4, <2>5 DEF OutputType
  <2>7. out'[o].q.items = r.q.items /\ o \notin out'[o].q.in
    BY <1>2, <2>6 DEF Queue
  <2>8. OutSound(o, out'[o]) /\ GivenBy(out'[o]) = GivenBy(r)
    BY <2>3, <2>6, <2>7 DEF OutSound, GivenBy
  <2> QED
    BY <1>3, <2>1, <2>6, <2>8
<1> QED
  BY <1>4, <1>5, <1>6, <1>7, <1>8, <1>9, <1>10 DEF OutStep

(* The thread gives a payload to one output.                               *)
LEMMA GiveStep ==
  ASSUME OutsSound, give \in Output, payload \in PayloadType, SmGive
  PROVE  /\ DOMAIN out' = Output
         /\ \A p \in Output \ {give} : out'[p] = out[p]
         /\ OutSound(give, out'[give])
         /\ GivenBy(out'[give]) = Append(GivenBy(out[give]), payload)
         /\ out'[give].written = out[give].written
<1> DEFINE r == out[give]
<1>0. \A w, t \in Seq(PayloadType) : w \o Append(t, payload) = Append(w \o t, payload)
  BY AppendAfter
<1>1. PICK q \in AddToQueue(r.q, payload) : out' = [out EXCEPT ![give].q = q]
  BY DEF SmGive
<1>2. OutSound(give, r) /\ DOMAIN out = Output
  BY DEF OutsSound
<1>3. /\ r \in OutputType(give) /\ r.q \in Queue(PayloadType, {give})
      /\ r.q.items \in Seq(PayloadType) /\ r.q.in \subseteq {give} /\ r.q.out \subseteq {give}
      /\ r.copied \in Seq(PayloadType) /\ r.written \in Seq(PayloadType)
      /\ r.pc \in {"open", "wait", "write", "remove", "done"}
      /\ r.cancel \in BOOLEAN /\ r.killed \in BOOLEAN
  BY <1>2, OutTypes DEF OutSound
<1>4. /\ DOMAIN out' = Output /\ out'[give] = [r EXCEPT !.q = q]
      /\ \A p \in Output \ {give} : out'[p] = out[p]
  BY <1>1, <1>2
<1>5. /\ q \in Queue(PayloadType, {give}) /\ q.items = Append(r.q.items, payload)
      /\ q.in = {}
  <2>1. /\ q \in Queue(PayloadType, {give}) /\ q.items = Append(r.q.items, payload)
        /\ q.in \in WakeOne(r.q.in)
    BY <1>1, <1>3, AddToQueueType
  <2> QED
    BY <1>3, <2>1, WakesIt
<1>6. /\ out'[give].q = q /\ out'[give].pc = r.pc /\ out'[give].copied = r.copied
      /\ out'[give].written = r.written /\ out'[give] \in OutputType(give)
  BY <1>3, <1>4, <1>5 DEF OutputType
<1>7. IsPrefix(r.copied, r.q.items) => IsPrefix(r.copied, q.items)
  BY <1>3, <1>5, PrefixOfAppend
<1>8. OutSound(give, out'[give])
  BY <1>2, <1>5, <1>6, <1>7 DEF OutSound
<1>9. GivenBy(out'[give]) = Append(GivenBy(r), payload)
  <2>1. CASE r.pc # "remove"
    <3>1. GivenBy(out'[give]) = r.written \o Append(r.q.items, payload)
      BY <1>5, <1>6, <2>1 DEF GivenBy
    <3>2. GivenBy(r) = r.written \o r.q.items
      BY <2>1 DEF GivenBy
    <3>3. r.written \o Append(r.q.items, payload) = Append(r.written \o r.q.items, payload)
      <4>1. r.written \in Seq(PayloadType) /\ r.q.items \in Seq(PayloadType)
        BY <1>3
      <4> HIDE DEF r
      <4> QED
        BY <4>1, <1>0
    <3> QED
      BY <3>1, <3>2, <3>3
  <2>2. CASE r.pc = "remove"
    <3>1. r.q.items # <<>>
      BY <1>2, <1>3, <2>2, PrefixOfTails DEF OutSound
    <3>2. Tail(r.q.items) \in Seq(PayloadType)
      BY <1>3, <3>1, HeadTailProperties
    <3>3. Tail(Append(r.q.items, payload)) = Append(Tail(r.q.items), payload)
      BY <1>3, <3>1, HeadTailAppend
    <3>4. GivenBy(out'[give]) = r.written \o Append(Tail(r.q.items), payload)
      BY <1>5, <1>6, <2>2, <3>3 DEF GivenBy
    <3>5. GivenBy(r) = r.written \o Tail(r.q.items)
      BY <2>2 DEF GivenBy
    <3>6. r.written \o Append(Tail(r.q.items), payload)
            = Append(r.written \o Tail(r.q.items), payload)
      <4>1. r.written \in Seq(PayloadType)
        BY <1>3
      <4> HIDE DEF r
      <4> QED
        BY <4>1, <3>2, <1>0
    <3> QED
      BY <3>4, <3>5, <3>6
  <2> QED
    BY <2>1, <2>2
<1> QED
  BY <1>4, <1>6, <1>8, <1>9

(* obe_close sets the flags of one output, and may wake its thread.        *)
LEMMA CloseStepOnOutput ==
  ASSUME OutsSound, closeAt \in Output, CancelOutput \/ KillOutput
  PROVE  /\ DOMAIN out' = Output
         /\ \A p \in Output \ {closeAt} : out'[p] = out[p]
         /\ OutSound(closeAt, out'[closeAt])
         /\ GivenBy(out'[closeAt]) = GivenBy(out[closeAt])
         /\ out'[closeAt].written = out[closeAt].written
<1> DEFINE r == out[closeAt]
<1>1. OutSound(closeAt, r) /\ DOMAIN out = Output
  BY DEF OutsSound
<1>2. /\ r \in OutputType(closeAt) /\ r.q \in Queue(PayloadType, {closeAt})
      /\ r.q.items \in Seq(PayloadType) /\ r.q.in \subseteq {closeAt}
      /\ r.q.out \subseteq {closeAt}
  BY <1>1, OutTypes DEF OutSound
<1>3. CASE CancelOutput
  <2>1. PICK q \in SignalIn(r.q) :
          out' = [out EXCEPT ![closeAt].cancel = TRUE, ![closeAt].q = q]
    BY <1>3 DEF CancelOutput
  <2>2. /\ DOMAIN out' = Output /\ out'[closeAt] = [r EXCEPT !.cancel = TRUE, !.q = q]
        /\ \A p \in Output \ {closeAt} : out'[p] = out[p]
    BY <1>1, <2>1
  <2>3. q \in Queue(PayloadType, {closeAt}) /\ q.items = r.q.items /\ q.in = {}
    <3>1. /\ q \in Queue(PayloadType, {closeAt}) /\ q.items = r.q.items
          /\ q.in \in WakeOne(r.q.in)
      BY <1>2, <2>1, SignalInType
    <3> QED
      BY <1>2, <3>1, WakesIt
  <2>4. /\ out'[closeAt].q = q /\ out'[closeAt].pc = r.pc
        /\ out'[closeAt].copied = r.copied /\ out'[closeAt].written = r.written
        /\ out'[closeAt] \in OutputType(closeAt)
    BY <1>2, <2>2, <2>3 DEF OutputType
  <2>5. OutSound(closeAt, out'[closeAt]) /\ GivenBy(out'[closeAt]) = GivenBy(r)
    BY <1>1, <2>3, <2>4 DEF OutSound, GivenBy
  <2> QED
    BY <2>2, <2>4, <2>5
<1>4. CASE KillOutput
  <2>1. out' = [out EXCEPT ![closeAt].killed = TRUE]
    BY <1>4 DEF KillOutput
  <2>2. /\ DOMAIN out' = Output /\ out'[closeAt] = [r EXCEPT !.killed = TRUE]
        /\ \A p \in Output \ {closeAt} : out'[p] = out[p]
    BY <1>1, <2>1
  <2>3. /\ out'[closeAt].q = r.q /\ out'[closeAt].pc = r.pc
        /\ out'[closeAt].copied = r.copied /\ out'[closeAt].written = r.written
        /\ out'[closeAt].cancel = r.cancel /\ out'[closeAt] \in OutputType(closeAt)
    BY <1>2, <2>2 DEF OutputType
  <2>4. OutSound(closeAt, out'[closeAt]) /\ GivenBy(out'[closeAt]) = GivenBy(r)
    BY <1>1, <2>3 DEF OutSound, GivenBy
  <2> QED
    BY <2>2, <2>3, <2>4
<1> QED
  BY <1>3, <1>4
-----------------------------------------------------------------------------
(* The loop counters of the smoothing thread (mux/smoothing.c).            *)
Counts ==
  /\ smPc = "wait" => num <= Len(smQ.items)
  /\ smPc \in {"ready", "check", "sleep", "give"} => num = 0
  /\ smPc # "give" => give = 1

(* A sleeper has seen all that its queue holds; a copy is the front of     *)
(* the queue, which only its reader shortens.                              *)
SmSound ==
  /\ "smoothing" \in smQ.in =>
       smPc = "wait" /\ Len(smQ.items) = num /\ ~cancelSmoothing
  /\ smPc = "write" => copied # <<>> /\ IsPrefix(copied, smQ.items)

(* The blocks in the queue follow each other up to the last one muxed.     *)
Contiguous ==
  /\ \A i \in 1..Len(smQ.items) :
       smQ.items[i].first <= smQ.items[i].last /\ smQ.items[i].last <= muxed
  /\ \A i \in 1..Len(smQ.items) - 1 :
       smQ.items[i + 1].first = smQ.items[i].last + 1
  /\ ~Empty(smQ) => smQ.items[Len(smQ.items)].last = muxed

(* The fifos hold the same packets, from the next undecided one on.        *)
FifosFollow ==
  /\ fifoPcr = fifoData
  /\ \A i \in 1..Len(fifoData) : fifoData[i] = Undecided + i - 1

(* The inductive invariant.                                                *)
IInv ==
  /\ SmTypeOK /\ SmSound /\ Counts /\ Contiguous /\ FifosFollow
  /\ OutsSound /\ SameForAll

(* An output leaves what is not its own.                                   *)
LEMMA OutStepKeeps ==
  ASSUME NEW o, OutStep(o)
  PROVE  OutUnchanged
  BY DEF OutStep, OutOpen, OutSleep, OutCancelled, OutCopy, OutWrite, OutRemove,
    OutKilled

(* The queue of the smoothing thread.                                      *)
LEMMA SmQueueType ==
  ASSUME SmTypeOK
  PROVE  /\ smQ.items \in Seq(Block) /\ Len(smQ.items) \in Nat
         /\ smQ.in \subseteq {"smoothing"} /\ smQ.out \subseteq {"smoothing"}
<1>1. smQ.items \in Seq(Block) /\ smQ.in \subseteq {"smoothing"} /\ smQ.out \subseteq {"smoothing"}
  BY DEF SmTypeOK, Queue
<1> QED
  BY <1>1, LenProperties

(* In the copy loop the head of the copy is the head of the queue.         *)
LEMMA CopyIsOfQueue ==
  ASSUME SmTypeOK, SmSound, smPc = "write"
  PROVE  /\ smQ.items # <<>> /\ Head(copied) = Head(smQ.items) /\ Head(copied) \in Block
         /\ Tail(copied) \in Seq(Block) /\ Tail(smQ.items) \in Seq(Block)
         /\ Len(Tail(copied)) = Len(copied) - 1
         /\ Len(Tail(smQ.items)) = Len(smQ.items) - 1
         /\ IsPrefix(Tail(copied), Tail(smQ.items))
<1>1. copied \in Seq(Block) /\ smQ.items \in Seq(Block)
  BY SmQueueType DEF SmTypeOK
<1>2. copied # <<>> /\ IsPrefix(copied, smQ.items)
  BY DEF SmSound
<1> QED
  BY <1>1, <1>2, PrefixOfTails

(* A function on 1..n is a sequence of length n.                           *)
LEMMA FunctionIsSeq ==
  ASSUME NEW S, NEW n \in Nat, NEW f \in [1..n -> S]
  PROVE  f \in Seq(S) /\ Len(f) = n
<1>1. f \in Seq(S)
  BY SeqDef
<1>2. 1..Len(f) = 1..n /\ Len(f) \in Nat
  BY <1>1, LenProperties
<1> QED
  BY <1>1, <1>2

(* The packets of a block, in order.                                       *)
LEMMA PacketsType ==
  ASSUME NEW b \in Block
  PROVE  /\ Packets(b) \in Seq(1..MaxPackets)
         /\ b.first <= b.last => Len(Packets(b)) = b.last - b.first + 1
         /\ \A i \in 1..b.last - b.first + 1 : Packets(b)[i] = b.first + i - 1
<1>1. b.first \in 1..MaxPackets /\ b.last \in 1..MaxPackets
  BY DEF Block
<1> DEFINE n == IF b.first <= b.last THEN b.last - b.first + 1 ELSE 0
<1>2. n \in Nat /\ 1..b.last - b.first + 1 = 1..n
  BY <1>1, SmoothingAssumption
<1>3. Packets(b) \in [1..n -> 1..MaxPackets]
  <2>1. Packets(b) = [i \in 1..n |-> b.first + i - 1]
    BY <1>2 DEF Packets
  <2>2. MaxPackets \in Nat
    BY SmoothingAssumption
  <2>3. \A i \in 1..n : b.first + i - 1 \in 1..MaxPackets
    BY <1>1, <2>2
  <2> QED
    BY <2>1, <2>3
<1>4. Packets(b) \in Seq(1..MaxPackets) /\ Len(Packets(b)) = n
  BY ZenonT(30), <1>2, <1>3, FunctionIsSeq
<1> QED
  BY <1>1, <1>4 DEF Packets

(* What a draw takes from a fifo and what it leaves.                       *)
LEMMA DrawType ==
  ASSUME NEW f \in Seq(1..MaxPackets), Len(f) >= PayloadPackets
  PROVE  /\ SubSeq(f, 1, PayloadPackets) \in Seq(1..MaxPackets)
         /\ Len(SubSeq(f, 1, PayloadPackets)) = PayloadPackets
         /\ \A i \in 1..PayloadPackets : SubSeq(f, 1, PayloadPackets)[i] = f[i]
         /\ SubSeq(f, PayloadPackets + 1, Len(f)) \in Seq(1..MaxPackets)
         /\ Len(SubSeq(f, PayloadPackets + 1, Len(f))) = Len(f) - PayloadPackets
         /\ \A i \in 1..Len(f) - PayloadPackets :
              SubSeq(f, PayloadPackets + 1, Len(f))[i] = f[i + PayloadPackets]
<1>1. PayloadPackets \in Nat \ {0} /\ Len(f) \in Nat
  BY SmoothingAssumption, LenProperties
<1>2. /\ \A i \in 1..PayloadPackets : f[i] \in 1..MaxPackets
      /\ \A i \in PayloadPackets + 1..Len(f) : f[i] \in 1..MaxPackets
  <2>1. \A i \in 1..Len(f) : f[i] \in 1..MaxPackets
    BY ElementOfSeq
  <2>2. 1..PayloadPackets \subseteq 1..Len(f) /\ PayloadPackets + 1..Len(f) \subseteq 1..Len(f)
    BY <1>1
  <2> QED
    BY <2>1, <2>2
<1>3. /\ SubSeq(f, 1, PayloadPackets) \in Seq(1..MaxPackets)
      /\ Len(SubSeq(f, 1, PayloadPackets)) =
           IF 1 <= PayloadPackets THEN PayloadPackets - 1 + 1 ELSE 0
      /\ \A i \in 1..PayloadPackets - 1 + 1 : SubSeq(f, 1, PayloadPackets)[i] = f[1 + i - 1]
  BY <1>1, <1>2, SubSeqProperties
<1>4. /\ SubSeq(f, PayloadPackets + 1, Len(f)) \in Seq(1..MaxPackets)
      /\ Len(SubSeq(f, PayloadPackets + 1, Len(f))) =
           IF PayloadPackets + 1 <= Len(f) THEN Len(f) - (PayloadPackets + 1) + 1 ELSE 0
      /\ \A i \in 1..Len(f) - (PayloadPackets + 1) + 1 :
           SubSeq(f, PayloadPackets + 1, Len(f))[i] = f[PayloadPackets + 1 + i - 1]
  BY <1>1, <1>2, SubSeqProperties
<1> QED
  BY SMTT(20), <1>1, <1>3, <1>4

(* Every step keeps the types of the muxer and the smoothing thread.       *)
LEMMA SmTypeStep ==
  ASSUME IInv, Next
  PROVE  SmTypeOK'
<1>1. CASE EncoderReady
  BY <1>1 DEF EncoderReady, muxVars, smVars, fifos, closeVars, IInv,
      SmTypeOK
<1>2. CASE \E n \in 1..MaxBlock : MuxQueue(n)
  <2>1. PICK n \in 1..MaxBlock : MuxQueue(n)
    BY <1>2
  <2> DEFINE b == [first |-> muxed + 1, last |-> muxed + n]
  <2>2. muxed + n \in 0..MaxPackets /\ b \in Block
    BY <2>1, SmoothingAssumption DEF MuxQueue, IInv, SmTypeOK, Block
  <2>3. smQ' \in AddToQueue(smQ, b)
    BY <2>1 DEF MuxQueue
  <2> HIDE DEF b
  <2>4. smQ' \in Queue(Block, {"smoothing"})
    BY <2>2, <2>3, AddToQueueType DEF IInv, SmTypeOK
  <2> QED
    BY <2>1, <2>2, <2>4 DEF MuxQueue, smVars, fifos, closeVars, IInv, SmTypeOK
<1>3. CASE SignalLost
  BY <1>3, SmoothingAssumption DEF SignalLost, muxVars, smVars, fifos,
      closeVars, IInv, SmTypeOK
<1>4. CASE SmReady
  BY <1>4 DEF SmReady, muxVars, smVars, fifos, closeVars, IInv, SmTypeOK
<1>5. CASE SmSleep
  <2>1. smQ' \in Queue(Block, {"smoothing"})
    BY <1>5, SleepType DEF SmSleep, IInv, SmTypeOK
  <2> QED
    BY <1>5, <2>1 DEF SmSleep, muxVars, smVars, fifos, closeVars, IInv, SmTypeOK
<1>6. CASE SmCancelled
  BY <1>6 DEF SmCancelled, SmAwake, SmNews, muxVars, smVars, fifos,
      closeVars, IInv, SmTypeOK
<1>7. CASE SmReset
  <2>1. smQ' \in Queue(Block, {"smoothing"})
    BY <1>7, EmptySeq DEF SmReset, IInv, SmTypeOK, Queue
  <2>2. <<>> \in Seq(1..MaxPackets)
    BY EmptySeq
  <2> QED
    BY <1>7, <2>1, <2>2 DEF SmReset, muxVars, closeVars, IInv, SmTypeOK
<1>8. CASE SmBuffer
  BY <1>8, SmQueueType DEF SmBuffer, muxVars, smVars, fifos, closeVars, IInv,
      SmTypeOK
<1>9. CASE SmCopy
  BY <1>9, SmQueueType DEF SmCopy, muxVars, smVars, fifos, closeVars, IInv,
      SmTypeOK
<1>10. CASE SmWrite
  <2>1. smPc = "write" /\ smQ' \in RemoveFromQueue(smQ)
    BY <1>10 DEF SmWrite
  <2>2. smQ.items # <<>> /\ Head(copied) \in Block /\ Tail(copied) \in Seq(Block)
    BY <2>1, CopyIsOfQueue DEF IInv
  <2>3. smQ' \in Queue(Block, {"smoothing"})
    BY <2>1, <2>2, RemoveFromQueueType DEF IInv, SmTypeOK
  <2>4. fifoData' \in Seq(1..MaxPackets) /\ fifoPcr' \in Seq(1..MaxPackets)
    BY <1>10, <2>2, PacketsType, ConcatProperties DEF SmWrite, IInv, SmTypeOK
  <2>5. num' \in Nat /\ smPc' \in {"write", "check"} /\ copied' = Tail(copied)
    BY <1>10 DEF SmWrite, IInv, SmTypeOK
  <2> QED
    BY <1>10, <2>2, <2>3, <2>4, <2>5 DEF SmWrite, muxVars, closeVars, IInv, SmTypeOK
<1>11. CASE SmLeave
  BY <1>11 DEF SmLeave, muxVars, smVars, fifos, closeVars, IInv, SmTypeOK
<1>12. CASE SmOverflow
  BY <1>12 DEF SmOverflow, muxVars, smVars, fifos, closeVars, IInv, SmTypeOK
<1>13. CASE SmDraw
  <2>1. ASSUME NEW f \in Seq(1..MaxPackets), Len(f) >= PayloadPackets
        PROVE  /\ SubSeq(f, 1, PayloadPackets) \in Seq(1..MaxPackets)
               /\ SubSeq(f, PayloadPackets + 1, Len(f)) \in Seq(1..MaxPackets)
    BY <2>1, DrawType
  <2>2. /\ fifoData \in Seq(1..MaxPackets) /\ Len(fifoData) >= PayloadPackets
        /\ fifoPcr = fifoData
    BY <1>13 DEF SmDraw, Enough, IInv, SmTypeOK, FifosFollow
  <2>3. /\ payload' \in PayloadType
        /\ fifoData' \in Seq(1..MaxPackets) /\ fifoPcr' \in Seq(1..MaxPackets)
    BY <1>13, <2>1, <2>2 DEF SmDraw, PayloadType
  <2>4. smPc' \in {"sleep", "give"} /\ anchored' \in BOOLEAN
    BY <1>13 DEF SmDraw
  <2> QED
    BY <1>13, <2>3, <2>4 DEF SmDraw, muxVars, closeVars, IInv, SmTypeOK
<1>14. CASE SmSlept
  BY <1>14 DEF SmSlept, muxVars, smVars, fifos, closeVars, IInv, SmTypeOK
<1>15. CASE SmGive
  <2>1. give' \in Output /\ smPc' \in {"give", "check"}
    BY SMTT(20), <1>15, SmoothingAssumption DEF SmGive, Output, IInv, SmTypeOK
  <2> QED
    BY <1>15, <2>1 DEF SmGive, muxVars, fifos, closeVars, IInv, SmTypeOK
<1>16. CASE SmOutOfMemory
  BY <1>16 DEF SmOutOfMemory, SmAwake, SmNews, muxVars, smVars, fifos,
      closeVars, IInv, SmTypeOK
<1>17. CASE \E o \in Output : OutStep(o)
  BY <1>17, OutStepKeeps DEF OutUnchanged, muxVars, smVars, fifos, closeVars,
      IInv, SmTypeOK
<1>18. CASE CancelSmoothing
  <2>1. smQ' \in Queue(Block, {"smoothing"})
    BY <1>18, SignalInType DEF CancelSmoothing, IInv, SmTypeOK
  <2> QED
    BY <1>18, <2>1 DEF CancelSmoothing, muxVars, smVars, fifos, IInv, SmTypeOK
<1>19. CASE JoinSmoothing
  BY <1>19 DEF JoinSmoothing, muxVars, smVars, fifos, closeVars, IInv,
      SmTypeOK
<1>20. CASE CancelOutput
  BY <1>20 DEF CancelOutput, muxVars, smVars, fifos, closeVars, IInv,
      SmTypeOK
<1>21. CASE KillOutput
  BY <1>21 DEF KillOutput, muxVars, smVars, fifos, closeVars, IInv, SmTypeOK
<1>22. CASE JoinOutput
  <2>1. closeAt' \in Output
    BY <1>22, SmoothingAssumption DEF JoinOutput, Output, IInv, SmTypeOK
  <2> QED
    BY <1>22, <2>1 DEF JoinOutput, muxVars, smVars, fifos, IInv, SmTypeOK
<1> QED
  BY <1>1, <1>2, <1>3, <1>4, <1>5, <1>6, <1>7, <1>8, <1>9, <1>10, <1>11,
      <1>12, <1>13, <1>14, <1>15, <1>16, <1>17, <1>18, <1>19, <1>20, <1>21,
      <1>22 DEF Next, SmStep, CloseStep

(* Every step keeps what the smoothing thread knows of its queue.          *)
LEMMA SmSoundStep ==
  ASSUME IInv, Next
  PROVE  SmSound' /\ Counts'
<1>1. CASE EncoderReady
  BY <1>1 DEF EncoderReady, muxVars, smVars, fifos, closeVars, IInv,
      SmSound, Counts
<1>2. CASE \E n \in 1..MaxBlock : MuxQueue(n)
  <2>1. PICK n \in 1..MaxBlock : MuxQueue(n)
    BY <1>2
  <2> DEFINE b == [first |-> muxed + 1, last |-> muxed + n]
  <2>2. b \in Block /\ smQ' \in AddToQueue(smQ, b)
    BY <2>1, SmoothingAssumption DEF MuxQueue, IInv, SmTypeOK, Block
  <2> HIDE DEF b
  <2>3. smQ'.items = Append(smQ.items, b) /\ smQ'.in = {}
    <3>1. smQ'.items = Append(smQ.items, b) /\ smQ'.in \in WakeOne(smQ.in)
      BY <2>2, AddToQueueType DEF IInv, SmTypeOK
    <3> QED
      BY <3>1, WakesIt, SmQueueType DEF IInv
  <2>4. /\ smQ.items \in Seq(Block) /\ copied \in Seq(Block)
        /\ Len(smQ'.items) = Len(smQ.items) + 1 /\ Len(smQ.items) \in Nat
    BY <2>2, <2>3, SmQueueType, AppendProperties DEF IInv, SmTypeOK
  <2>5. IsPrefix(copied, smQ.items) => IsPrefix(copied, smQ'.items)
    BY <2>2, <2>3, <2>4, PrefixOfAppend
  <2>6. UNCHANGED <<smPc, num, copied, give, cancelSmoothing>> /\ num \in Nat
    BY <2>1 DEF MuxQueue, smVars, IInv, SmTypeOK
  <2> QED
    BY <2>3, <2>4, <2>5, <2>6 DEF IInv, SmSound, Counts
<1>3. CASE SignalLost
  BY <1>3 DEF SignalLost, muxVars, smVars, fifos, closeVars, IInv, SmSound,
      Counts
<1>4. CASE SmReady
  BY <1>4, SmQueueType DEF SmReady, fifos, IInv, SmTypeOK, SmSound, Counts
<1>5. CASE SmSleep
  <2>1. smQ'.items = smQ.items
    BY <1>5, SleepType DEF SmSleep, IInv, SmTypeOK
  <2> QED
    BY <1>5, <2>1 DEF SmSleep, SmAwake, smVars, IInv, SmSound, Counts
<1>6. CASE SmCancelled
  BY <1>6 DEF SmCancelled, SmAwake, SmNews, muxVars, smVars, fifos,
      closeVars, IInv, SmSound, Counts
<1>7. CASE SmReset
  <2>1. smQ'.items = <<>> /\ smQ'.in = smQ.in
    BY <1>7 DEF SmReset, IInv, SmTypeOK, Queue
  <2> QED
    BY <1>7, <2>1, EmptySeq DEF SmReset, SmNews, SmAwake, IInv, SmSound, Counts
<1>8. CASE SmBuffer
  BY <1>8, SmQueueType DEF SmBuffer, SmNews, SmAwake, fifos, IInv, SmSound, Counts
<1>9. CASE SmCopy
  <2>1. /\ smPc = "wait" /\ "smoothing" \notin smQ.in /\ Len(smQ.items) # num
        /\ smQ' = smQ /\ copied' = smQ.items /\ smPc' = "write" /\ give' = give
    BY <1>9 DEF SmCopy, SmNews, SmAwake
  <2>2. /\ smQ.items \in Seq(Block) /\ Len(smQ.items) \in Nat /\ num \in Nat
        /\ num <= Len(smQ.items) /\ give = 1
    BY <2>1, SmQueueType DEF IInv, SmTypeOK, Counts
  <2>3. smQ.items # <<>> /\ IsPrefix(smQ.items, smQ.items)
    BY <2>1, <2>2, EmptySeq, PrefixOfItself
  <2> QED
    BY <2>1, <2>2, <2>3 DEF SmSound, Counts
<1>10. CASE SmWrite
  <2>1. smPc = "write" /\ smQ' \in RemoveFromQueue(smQ) /\ copied' = Tail(copied)
    BY <1>10 DEF SmWrite
  <2>2. /\ smQ.items # <<>> /\ Tail(copied) \in Seq(Block)
        /\ Len(Tail(copied)) = Len(copied) - 1
        /\ IsPrefix(Tail(copied), Tail(smQ.items))
    BY <2>1, CopyIsOfQueue DEF IInv
  <2>3. smQ'.items = Tail(smQ.items) /\ smQ'.in = smQ.in
    BY <2>1, <2>2, RemoveFromQueueType DEF IInv, SmTypeOK
  <2>4. "smoothing" \notin smQ.in /\ give = 1 /\ give' = give
    BY <2>1, <1>10 DEF SmWrite, IInv, SmSound, Counts
  <2>5. Len(copied) # 1 => Tail(copied) # <<>>
    <3>1. copied \in Seq(Block) /\ copied # <<>>
      BY <2>1 DEF IInv, SmTypeOK, SmSound
    <3>2. Len(copied) \in Nat \ {0} /\ (Tail(copied) = <<>> => Len(Tail(copied)) = 0)
      BY <3>1, EmptySeq
    <3> QED
      BY <2>2, <3>2
  <2>6. IF Len(copied) = 1 THEN smPc' = "check" /\ num' = 0 ELSE smPc' = "write"
    BY <2>1, <1>10 DEF SmWrite
  <2> QED
    BY <2>1, <2>2, <2>3, <2>4, <2>5, <2>6 DEF SmSound, Counts
<1>11. CASE SmLeave
  BY <1>11, SmQueueType DEF SmLeave, fifos, IInv, SmTypeOK, SmSound, Counts
<1>12. CASE SmOverflow
  BY <1>12 DEF SmOverflow, muxVars, smVars, fifos, closeVars, IInv, SmSound,
      Counts
<1>13. CASE SmDraw
  BY <1>13 DEF SmDraw, muxVars, smVars, fifos, closeVars, IInv, SmSound,
      Counts
<1>14. CASE SmSlept
  BY <1>14 DEF SmSlept, muxVars, smVars, fifos, closeVars, IInv, SmSound,
      Counts
<1>15. CASE SmGive
  BY <1>15 DEF SmGive, muxVars, smVars, fifos, closeVars, IInv, SmSound,
      Counts
<1>16. CASE SmOutOfMemory
  BY <1>16 DEF SmOutOfMemory, SmAwake, SmNews, muxVars, smVars, fifos,
      closeVars, IInv, SmSound, Counts
<1>17. CASE \E o \in Output : OutStep(o)
  BY <1>17, OutStepKeeps DEF OutUnchanged, muxVars, smVars, fifos, closeVars,
      IInv, SmSound, Counts
<1>18. CASE CancelSmoothing
  <2>1. smQ'.items = smQ.items /\ smQ'.in = {}
    <3>1. smQ'.items = smQ.items /\ smQ'.in \in WakeOne(smQ.in)
      BY <1>18, SignalInType DEF CancelSmoothing, IInv, SmTypeOK
    <3> QED
      BY <3>1, WakesIt, SmQueueType DEF IInv
  <2> QED
    BY <1>18, <2>1 DEF CancelSmoothing, smVars, IInv, SmSound, Counts
<1>19. CASE JoinSmoothing
  BY <1>19 DEF JoinSmoothing, muxVars, smVars, fifos, closeVars, IInv,
      SmSound, Counts
<1>20. CASE CancelOutput
  BY <1>20 DEF CancelOutput, muxVars, smVars, fifos, closeVars, IInv,
      SmSound, Counts
<1>21. CASE KillOutput
  BY <1>21 DEF KillOutput, muxVars, smVars, fifos, closeVars, IInv, SmSound,
      Counts
<1>22. CASE JoinOutput
  BY <1>22 DEF JoinOutput, muxVars, smVars, fifos, closeVars, IInv, SmSound,
      Counts
<1> QED
  BY <1>1, <1>2, <1>3, <1>4, <1>5, <1>6, <1>7, <1>8, <1>9, <1>10, <1>11,
      <1>12, <1>13, <1>14, <1>15, <1>16, <1>17, <1>18, <1>19, <1>20, <1>21,
      <1>22 DEF Next, SmStep, CloseStep

(* Blocks and fifos, as long as neither changes.                           *)
LEMMA SameBlocks ==
  ASSUME Contiguous, FifosFollow, smQ'.items = smQ.items,
         UNCHANGED <<muxed, fifoData, fifoPcr>>
  PROVE  Contiguous' /\ FifosFollow' /\ Undecided' = Undecided
<1>1. Undecided' = Undecided
  BY DEF Undecided, InQueue, Empty
<1> QED
  BY <1>1 DEF Contiguous, FifosFollow, Empty

(* The types of what the queue and the fifos hold.                         *)
LEMMA BlockTypes ==
  ASSUME SmTypeOK
  PROVE  /\ muxed \in Nat /\ smQ.items \in Seq(Block) /\ Len(smQ.items) \in Nat
         /\ \A i \in 1..Len(smQ.items) :
              smQ.items[i].first \in Int /\ smQ.items[i].last \in Int
         /\ fifoData \in Seq(1..MaxPackets) /\ Len(fifoData) \in Nat
         /\ InQueue \in Int /\ Undecided \in Int
<1>1. muxed \in Nat /\ smQ.items \in Seq(Block) /\ Len(smQ.items) \in Nat
  BY SmQueueType, SmoothingAssumption DEF SmTypeOK
<1>2. \A i \in 1..Len(smQ.items) : smQ.items[i].first \in Int /\ smQ.items[i].last \in Int
  <2>1. \A i \in 1..Len(smQ.items) : smQ.items[i] \in Block
    BY <1>1, ElementOfSeq
  <2> QED
    BY <2>1, SmoothingAssumption DEF Block
<1>3. fifoData \in Seq(1..MaxPackets) /\ Len(fifoData) \in Nat
  BY LenProperties DEF SmTypeOK
<1>4. InQueue \in Int
  <2>1. CASE smQ.items = <<>>
    BY <2>1 DEF InQueue, Empty
  <2>2. CASE smQ.items # <<>>
    <3>1. Head(smQ.items) = smQ.items[1] /\ 1 \in 1..Len(smQ.items)
      BY <1>1, <2>2, EmptySeq
    <3> QED
      BY <1>1, <1>2, <2>2, <3>1 DEF InQueue, Empty
  <2> QED
    BY <2>1, <2>2
<1> QED
  BY <1>1, <1>2, <1>3, <1>4 DEF Undecided

(* The muxer queues the packets that follow.                               *)
LEMMA MuxQueueBlocks ==
  ASSUME IInv, NEW n \in 1..MaxBlock, MuxQueue(n)
  PROVE  Contiguous' /\ FifosFollow' /\ Undecided' = Undecided
<1> DEFINE b == [first |-> muxed + 1, last |-> muxed + n]
           t == smQ.items
<1>1. /\ muxed \in Nat /\ t \in Seq(Block) /\ Len(t) \in Nat
      /\ \A i \in 1..Len(t) : t[i].first \in Int /\ t[i].last \in Int
      /\ fifoData \in Seq(1..MaxPackets) /\ Len(fifoData) \in Nat
      /\ n \in Nat \ {0}
  BY BlockTypes, SmoothingAssumption DEF IInv
<1>2. b \in Block /\ smQ' \in AddToQueue(smQ, b) /\ b.first = muxed + 1 /\ b.last = muxed + n
  BY <1>1, SmoothingAssumption DEF MuxQueue, Block
<1>3. muxed' = muxed + n /\ UNCHANGED <<fifoData, fifoPcr>>
  BY DEF MuxQueue, smVars, fifos
<1> HIDE DEF b
<1>4. smQ'.items = Append(t, b)
  BY <1>2, AddToQueueType DEF IInv, SmTypeOK
<1>5. /\ Len(smQ'.items) = Len(t) + 1 /\ smQ'.items # <<>>
      /\ \A i \in 1..Len(t) : smQ'.items[i] = t[i]
      /\ smQ'.items[Len(t) + 1] = b
      /\ Head(smQ'.items) = IF t = <<>> THEN b ELSE Head(t)
  BY <1>1, <1>2, <1>4, AppendProperties, HeadTailAppend
<1>6. Contiguous'
  <2>1. ASSUME NEW i \in 1..Len(t) + 1
        PROVE  smQ'.items[i].first <= smQ'.items[i].last /\ smQ'.items[i].last <= muxed'
    <3>1. CASE i = Len(t) + 1
      BY <1>1, <1>2, <1>3, <1>5, <3>1
    <3>2. CASE i \in 1..Len(t)
      <4>1. smQ'.items[i] = t[i] /\ t[i].first <= t[i].last /\ t[i].last <= muxed
        BY <1>5, <3>2 DEF IInv, Contiguous
      <4>2. t[i].last \in Int /\ muxed <= muxed'
        BY <1>1, <1>3, <3>2
      <4> QED
        BY <1>1, <1>3, <4>1, <4>2
    <3> QED
      <4>1. i = Len(t) + 1 \/ i \in 1..Len(t)
        BY <1>1
      <4> QED
        BY <3>1, <3>2, <4>1
  <2>2. ASSUME NEW i \in 1..Len(t)
        PROVE  smQ'.items[i + 1].first = smQ'.items[i].last + 1
    <3>1. CASE i = Len(t)
      <4>1. t # <<>> /\ t[Len(t)].last = muxed
        BY <1>1, EmptySeq DEF IInv, Contiguous, Empty
      <4> QED
        BY <1>1, <1>2, <1>5, <3>1, <4>1
    <3>2. CASE i \in 1..Len(t) - 1
      <4>1. i + 1 \in 1..Len(t)
        BY <1>1, <3>2
      <4>2. smQ'.items[i + 1] = t[i + 1] /\ smQ'.items[i] = t[i]
        BY <1>5, <4>1
      <4> QED
        BY <3>2, <4>2 DEF IInv, Contiguous
    <3> QED
      BY <1>1, <3>1, <3>2
  <2>3. smQ'.items[Len(smQ'.items)].last = muxed'
    BY <1>2, <1>3, <1>5
  <2> QED
    BY <1>1, <1>5, <2>1, <2>2, <2>3 DEF Contiguous, Empty
<1>7. Undecided' = Undecided
  <2>1. CASE t = <<>>
    BY SMTT(20), <1>1, <1>2, <1>3, <1>5, <2>1 DEF Undecided, InQueue, Empty
  <2>2. CASE t # <<>>
    <3>1. Head(t).first \in Int
      BY <1>1, <2>2, SeqFacts
    <3>2. InQueue = muxed + 1 - Head(t).first /\ InQueue' = muxed' + 1 - Head(t).first
      BY <1>5, <2>2 DEF InQueue, Empty
    <3>3. Undecided = muxed + 1 - (muxed + 1 - Head(t).first) - Len(fifoData)
      BY <3>2 DEF Undecided
    <3>4. Undecided' = (muxed + n) + 1 - ((muxed + n) + 1 - Head(t).first) - Len(fifoData)
      BY <1>3, <3>2 DEF Undecided
    <3> HIDE DEF t
    <3> QED
      BY <1>1, <3>1, <3>3, <3>4
  <2> QED
    BY <2>1, <2>2
<1> QED
  BY <1>3, <1>6, <1>7 DEF IInv, FifosFollow

(* The head of the queue goes to the fifos.                                *)
LEMMA WriteBlocks ==
  ASSUME IInv, SmWrite
  PROVE  Contiguous' /\ FifosFollow' /\ Undecided' = Undecided
<1> DEFINE t == smQ.items
           b == Head(t)
           n == b.last - b.first + 1
           f == fifoData
           g == fifoData \o Packets(b)
<1>1. /\ muxed \in Nat /\ t \in Seq(Block) /\ Len(t) \in Nat
      /\ \A i \in 1..Len(t) : t[i].first \in Int /\ t[i].last \in Int
      /\ f \in Seq(1..MaxPackets) /\ Len(f) \in Nat /\ Undecided \in Int
  BY BlockTypes DEF IInv
<1>2. /\ t # <<>> /\ Head(copied) = b /\ b \in Block /\ Tail(t) \in Seq(Block)
      /\ Len(Tail(t)) = Len(t) - 1
  BY CopyIsOfQueue DEF IInv, SmWrite
<1>3. smQ'.items = Tail(t)
  BY <1>2, RemoveFromQueueType DEF SmWrite, IInv, SmTypeOK
<1>4. /\ Len(t) \in Nat \ {0} /\ b = t[1]
      /\ \A i \in 1..Len(t) - 1 : Tail(t)[i] = t[i + 1]
  BY <1>1, <1>2, EmptySeq, HeadTailProperties
<1>5. b.first \in Int /\ b.last \in Int /\ b.first <= b.last
  BY <1>1, <1>4 DEF IInv, Contiguous
<1>6. UNCHANGED muxed /\ fifoData' = g /\ fifoPcr' = g
  BY <1>2 DEF SmWrite, muxVars, IInv, FifosFollow
<1>7. /\ \A i \in 1..Len(t) : t[i].first <= t[i].last /\ t[i].last <= muxed
      /\ \A i \in 1..Len(t) - 1 : t[i + 1].first = t[i].last + 1
      /\ t[Len(t)].last = muxed
  BY <1>2 DEF IInv, Contiguous, Empty
<1>8. Contiguous'
  <2>1. ASSUME NEW i \in 1..Len(t) - 1
        PROVE  Tail(t)[i].first <= Tail(t)[i].last /\ Tail(t)[i].last <= muxed
    BY <1>1, <1>4, <1>7
  <2>2. ASSUME NEW i \in 1..Len(t) - 1 - 1
        PROVE  Tail(t)[i + 1].first = Tail(t)[i].last + 1
    <3>1. i \in 1..Len(t) - 1 /\ i + 1 \in 1..Len(t) - 1
      BY <1>1
    <3> QED
      BY <1>4, <1>7, <3>1
  <2>3. Tail(t) # <<>> => Tail(t)[Len(Tail(t))].last = muxed
    <3>1. ASSUME Tail(t) # <<>> PROVE Len(t) - 1 \in 1..Len(t) - 1
      BY <1>1, <1>2, <1>4, <3>1, EmptySeq
    <3> QED
      BY <1>2, <1>4, <1>7, <3>1
  <2> QED
    BY <1>2, <1>3, <1>6, <2>1, <2>2, <2>3 DEF Contiguous, Empty
<1>9. Undecided = b.first - Len(f)
  BY <1>1, <1>2, <1>5 DEF Undecided, InQueue, Empty
<1>10. /\ Packets(b) \in Seq(1..MaxPackets) /\ Len(Packets(b)) = n
       /\ \A i \in 1..n : Packets(b)[i] = b.first + i - 1
  BY <1>2, <1>5, PacketsType
<1>11. /\ Len(g) = Len(f) + n
       /\ \A i \in 1..Len(f) + n : g[i] = IF i <= Len(f) THEN f[i] ELSE Packets(b)[i - Len(f)]
  <2> HIDE DEF b, n
  <2>1. /\ Len(g) = Len(f) + Len(Packets(b))
        /\ \A i \in 1..Len(f) + Len(Packets(b)) :
             g[i] = IF i <= Len(f) THEN f[i] ELSE Packets(b)[i - Len(f)]
    BY <1>1, <1>10, ConcatProperties
  <2> HIDE DEF g, f
  <2> QED
    BY <1>10, <2>1
<1>12. n \in Nat
  BY <1>5
<1> HIDE DEF n, g
<1>13. Undecided' = b.last + 1 - Len(g)
  <2>1. CASE Tail(t) = <<>>
    <3>1. Len(t) = 1
      <4>1. Len(Tail(t)) = 0
        BY <1>2, <2>1, SeqFacts
      <4> QED
        BY <1>1, <1>2, <4>1
    <3>2. b.last = muxed
      BY <1>4, <1>7, <3>1
    <3> QED
      BY <1>1, <1>3, <1>6, <1>11, <1>12, <2>1, <3>2 DEF Undecided, InQueue, Empty
  <2>2. CASE Tail(t) # <<>>
    <3>1. Len(Tail(t)) >= 1 /\ Head(Tail(t)) = Tail(t)[1]
      BY <1>2, <2>2, SeqFacts
    <3>2. 1 \in 1..Len(t) - 1
      BY <1>2, <1>4, <3>1
    <3>3. Tail(t)[1] = t[2] /\ t[2].first = b.last + 1
      BY <1>4, <1>7, <3>2
    <3>4. InQueue' = muxed + 1 - (b.last + 1)
      BY <1>3, <1>6, <2>2, <3>1, <3>3 DEF InQueue, Empty
    <3>5. Len(g) \in Nat
      BY <1>1, <1>11, <1>12
    <3>6. Undecided' = muxed + 1 - (muxed + 1 - (b.last + 1)) - Len(g)
      BY <1>6, <3>4 DEF Undecided
    <3> HIDE DEF b
    <3> QED
      BY SMTT(20), <1>1, <1>5, <3>5, <3>6
  <2> QED
    BY <2>1, <2>2
<1>14. Undecided' = Undecided
  <2>1. n = b.last - b.first + 1 /\ Len(g) = Len(f) + n
    BY <1>11 DEF n
  <2> HIDE DEF b, f, t
  <2> QED
    BY SMTT(20), <1>1, <1>5, <1>9, <1>13, <2>1
<1>15. ASSUME NEW i \in 1..Len(g) PROVE g[i] = Undecided + i - 1
  <2>1. CASE i <= Len(f)
    <3>1. i \in 1..Len(f) /\ g[i] = f[i]
      BY <1>1, <1>11, <1>12, <2>1
    <3> QED
      BY <3>1 DEF IInv, FifosFollow
  <2>2. CASE i > Len(f)
    <3>1. i - Len(f) \in 1..n /\ g[i] = Packets(b)[i - Len(f)]
      BY <1>1, <1>11, <1>12, <2>2
    <3>2. g[i] = b.first + (i - Len(f)) - 1
      BY <1>10, <3>1
    <3> QED
      BY SMTT(20), <1>1, <1>5, <1>9, <1>11, <1>12, <3>2
  <2> QED
    BY <1>1, <1>11, <1>12, <2>1, <2>2
<1>16. FifosFollow'
  BY <1>6, <1>14, <1>15 DEF FifosFollow
<1> QED
  BY <1>8, <1>14, <1>16

(* A payload is drawn: it is the next one.                                 *)
LEMMA DrawBlocks ==
  ASSUME IInv, SmDraw
  PROVE  /\ Contiguous' /\ FifosFollow'
         /\ Undecided' = Undecided + PayloadPackets
         /\ Undecided + PayloadPackets - 1 <= muxed
         /\ payload' = [pcrs |-> SubSeq(fifoData, 1, PayloadPackets),
                        packets |-> SubSeq(fifoData, 1, PayloadPackets)]
<1> DEFINE f == fifoData
           g == SubSeq(fifoData, PayloadPackets + 1, Len(fifoData))
<1>1. /\ muxed \in Nat /\ smQ.items \in Seq(Block) /\ Len(smQ.items) \in Nat
      /\ \A i \in 1..Len(smQ.items) :
           smQ.items[i].first \in Int /\ smQ.items[i].last \in Int
      /\ f \in Seq(1..MaxPackets) /\ Len(f) \in Nat
      /\ InQueue \in Int /\ Undecided \in Int /\ PayloadPackets \in Nat \ {0}
  BY BlockTypes, SmoothingAssumption DEF IInv
<1>2. /\ Len(f) >= PayloadPackets /\ fifoPcr = f
      /\ UNCHANGED <<muxed, smQ>> /\ fifoData' = g /\ fifoPcr' = g
      /\ payload' = [pcrs |-> SubSeq(f, 1, PayloadPackets),
                     packets |-> SubSeq(f, 1, PayloadPackets)]
  BY DEF SmDraw, Enough, muxVars, IInv, FifosFollow
<1>3. /\ Len(g) = Len(f) - PayloadPackets
      /\ \A i \in 1..Len(f) - PayloadPackets : g[i] = f[i + PayloadPackets]
  BY <1>1, <1>2, DrawType
<1> HIDE DEF g
<1>4. InQueue' = InQueue
  BY <1>2 DEF InQueue, Empty
<1>5. Undecided' = Undecided + PayloadPackets
  BY <1>1, <1>2, <1>3, <1>4 DEF Undecided
<1>6. ASSUME NEW i \in 1..Len(g) PROVE g[i] = Undecided' + i - 1
  <2>1. i + PayloadPackets \in 1..Len(f) /\ g[i] = f[i + PayloadPackets]
    BY <1>1, <1>2, <1>3
  <2>2. g[i] = Undecided + (i + PayloadPackets) - 1
    BY <2>1 DEF IInv, FifosFollow
  <2> QED
    BY <1>1, <1>3, <1>5, <2>2
<1>7. Contiguous'
  BY <1>2 DEF IInv, Contiguous, Empty
<1>8. InQueue >= 0
  <2>1. CASE smQ.items = <<>>
    BY <2>1 DEF InQueue, Empty
  <2>2. CASE smQ.items # <<>>
    <3>1. Head(smQ.items) = smQ.items[1] /\ 1 \in 1..Len(smQ.items)
      BY <1>1, <2>2, EmptySeq
    <3>2. Head(smQ.items).first <= muxed + 1
      BY <1>1, <3>1 DEF IInv, Contiguous
    <3> QED
      BY <1>1, <2>2, <3>1, <3>2 DEF InQueue, Empty
  <2> QED
    BY <2>1, <2>2
<1>9. Undecided + PayloadPackets - 1 <= muxed
  BY <1>1, <1>2, <1>8 DEF Undecided
<1> QED
  BY <1>2, <1>5, <1>6, <1>7, <1>9 DEF FifosFollow

(* A reset discards all that was muxed.                                    *)
LEMMA ResetBlocks ==
  ASSUME IInv, SmReset
  PROVE  Contiguous' /\ FifosFollow' /\ Undecided' = muxed' + 1
<1>1. smQ'.items = <<>> /\ fifoData' = <<>> /\ fifoPcr' = <<>> /\ Len(<<>>) = 0
  BY DEF SmReset, IInv, SmTypeOK, Queue
<1>2. Contiguous'
  BY <1>1 DEF Contiguous, Empty
<1>3. muxed' \in Nat
  BY BlockTypes DEF SmReset, muxVars, IInv
<1>4. Undecided' = muxed' + 1
  BY <1>1, <1>3 DEF Undecided, InQueue, Empty
<1> QED
  BY <1>1, <1>2, <1>4 DEF FifosFollow

(* The invariant of the blocks and the fifos, and what a step does to the  *)
(* first packet that is neither drawn nor discarded.                       *)
LEMMA BlocksStep ==
  ASSUME IInv, Next
  PROVE  /\ Contiguous' /\ FifosFollow'
         /\ SmReset \/ SmDraw \/ Undecided' = Undecided
<1>1. CASE EncoderReady
  <2>1. smQ'.items = smQ.items /\ UNCHANGED <<muxed, fifoData, fifoPcr>>
    BY <1>1 DEF EncoderReady, muxVars, smVars, fifos, closeVars
  <2> QED
    BY <2>1, SameBlocks DEF IInv
<1>2. CASE \E n \in 1..MaxBlock : MuxQueue(n)
  BY <1>2, MuxQueueBlocks
<1>3. CASE SignalLost
  <2>1. smQ'.items = smQ.items /\ UNCHANGED <<muxed, fifoData, fifoPcr>>
    BY <1>3 DEF SignalLost, muxVars, smVars, fifos, closeVars
  <2> QED
    BY <2>1, SameBlocks DEF IInv
<1>4. CASE SmReady
  <2>1. smQ'.items = smQ.items /\ UNCHANGED <<muxed, fifoData, fifoPcr>>
    BY <1>4 DEF SmReady, muxVars, smVars, fifos, closeVars
  <2> QED
    BY <2>1, SameBlocks DEF IInv
<1>5. CASE SmSleep
  <2>1. smQ'.items = smQ.items /\ UNCHANGED <<muxed, fifoData, fifoPcr>>
    BY <1>5, SleepType DEF SmSleep, muxVars, smVars, fifos, IInv, SmTypeOK
  <2> QED
    BY <2>1, SameBlocks DEF IInv
<1>6. CASE SmCancelled
  <2>1. smQ'.items = smQ.items /\ UNCHANGED <<muxed, fifoData, fifoPcr>>
    BY <1>6 DEF SmCancelled, SmAwake, SmNews, muxVars, smVars, fifos,
        closeVars
  <2> QED
    BY <2>1, SameBlocks DEF IInv
<1>7. CASE SmReset
  BY <1>7, ResetBlocks
<1>8. CASE SmBuffer
  <2>1. smQ'.items = smQ.items /\ UNCHANGED <<muxed, fifoData, fifoPcr>>
    BY <1>8 DEF SmBuffer, SmAwake, SmNews, muxVars, smVars, fifos, closeVars
  <2> QED
    BY <2>1, SameBlocks DEF IInv
<1>9. CASE SmCopy
  <2>1. smQ'.items = smQ.items /\ UNCHANGED <<muxed, fifoData, fifoPcr>>
    BY <1>9 DEF SmCopy, SmAwake, SmNews, muxVars, smVars, fifos, closeVars
  <2> QED
    BY <2>1, SameBlocks DEF IInv
<1>10. CASE SmWrite
  BY <1>10, WriteBlocks
<1>11. CASE SmLeave
  <2>1. smQ'.items = smQ.items /\ UNCHANGED <<muxed, fifoData, fifoPcr>>
    BY <1>11 DEF SmLeave, muxVars, smVars, fifos, closeVars
  <2> QED
    BY <2>1, SameBlocks DEF IInv
<1>12. CASE SmOverflow
  <2>1. smQ'.items = smQ.items /\ UNCHANGED <<muxed, fifoData, fifoPcr>>
    BY <1>12 DEF SmOverflow, muxVars, smVars, fifos, closeVars
  <2> QED
    BY <2>1, SameBlocks DEF IInv
<1>13. CASE SmDraw
  BY <1>13, DrawBlocks
<1>14. CASE SmSlept
  <2>1. smQ'.items = smQ.items /\ UNCHANGED <<muxed, fifoData, fifoPcr>>
    BY <1>14 DEF SmSlept, muxVars, smVars, fifos, closeVars
  <2> QED
    BY <2>1, SameBlocks DEF IInv
<1>15. CASE SmGive
  <2>1. smQ'.items = smQ.items /\ UNCHANGED <<muxed, fifoData, fifoPcr>>
    BY <1>15 DEF SmGive, muxVars, smVars, fifos, closeVars
  <2> QED
    BY <2>1, SameBlocks DEF IInv
<1>16. CASE SmOutOfMemory
  <2>1. smQ'.items = smQ.items /\ UNCHANGED <<muxed, fifoData, fifoPcr>>
    BY <1>16 DEF SmOutOfMemory, SmAwake, SmNews, muxVars, smVars, fifos,
        closeVars
  <2> QED
    BY <2>1, SameBlocks DEF IInv
<1>17. CASE \E o \in Output : OutStep(o)
  <2>1. smQ'.items = smQ.items /\ UNCHANGED <<muxed, fifoData, fifoPcr>>
    BY <1>17, OutStepKeeps DEF OutUnchanged, muxVars, smVars, fifos,
        closeVars
  <2> QED
    BY <2>1, SameBlocks DEF IInv
<1>18. CASE CancelSmoothing
  <2>1. smQ'.items = smQ.items /\ UNCHANGED <<muxed, fifoData, fifoPcr>>
    BY <1>18, SignalInType DEF CancelSmoothing, muxVars, smVars, fifos, IInv, SmTypeOK
  <2> QED
    BY <2>1, SameBlocks DEF IInv
<1>19. CASE JoinSmoothing
  <2>1. smQ'.items = smQ.items /\ UNCHANGED <<muxed, fifoData, fifoPcr>>
    BY <1>19 DEF JoinSmoothing, muxVars, smVars, fifos, closeVars
  <2> QED
    BY <2>1, SameBlocks DEF IInv
<1>20. CASE CancelOutput
  <2>1. smQ'.items = smQ.items /\ UNCHANGED <<muxed, fifoData, fifoPcr>>
    BY <1>20 DEF CancelOutput, muxVars, smVars, fifos, closeVars
  <2> QED
    BY <2>1, SameBlocks DEF IInv
<1>21. CASE KillOutput
  <2>1. smQ'.items = smQ.items /\ UNCHANGED <<muxed, fifoData, fifoPcr>>
    BY <1>21 DEF KillOutput, muxVars, smVars, fifos, closeVars
  <2> QED
    BY <2>1, SameBlocks DEF IInv
<1>22. CASE JoinOutput
  <2>1. smQ'.items = smQ.items /\ UNCHANGED <<muxed, fifoData, fifoPcr>>
    BY <1>22 DEF JoinOutput, muxVars, smVars, fifos, closeVars
  <2> QED
    BY <2>1, SameBlocks DEF IInv
<1> QED
  BY <1>1, <1>2, <1>3, <1>4, <1>5, <1>6, <1>7, <1>8, <1>9, <1>10, <1>11,
      <1>12, <1>13, <1>14, <1>15, <1>16, <1>17, <1>18, <1>19, <1>20, <1>21,
      <1>22 DEF Next, SmStep, CloseStep

(* Who changes an output.                                                  *)
LEMMA WhoseOutputs ==
  ASSUME Next
  PROVE  \/ \E o \in Output : OutStep(o)
         \/ SmGive
         \/ CancelOutput \/ KillOutput
         \/ UNCHANGED out
<1>1. CASE EncoderReady
  BY <1>1 DEF EncoderReady
<1>2. CASE \E n \in 1..MaxBlock : MuxQueue(n)
  BY <1>2 DEF MuxQueue
<1>3. CASE SignalLost
  BY <1>3 DEF SignalLost
<1>4. CASE SmReady
  BY <1>4 DEF SmReady
<1>5. CASE SmSleep
  BY <1>5 DEF SmSleep, SmAwake, SmNews
<1>6. CASE SmCancelled
  BY <1>6 DEF SmCancelled, SmAwake, SmNews
<1>7. CASE SmReset
  BY <1>7 DEF SmReset, SmAwake, SmNews
<1>8. CASE SmBuffer
  BY <1>8 DEF SmBuffer, SmAwake, SmNews
<1>9. CASE SmCopy
  BY <1>9 DEF SmCopy, SmAwake, SmNews
<1>10. CASE SmWrite
  BY <1>10 DEF SmWrite
<1>11. CASE SmLeave
  BY <1>11 DEF SmLeave
<1>12. CASE SmOverflow
  BY <1>12 DEF SmOverflow
<1>13. CASE SmDraw
  BY <1>13 DEF SmDraw
<1>14. CASE SmSlept
  BY <1>14 DEF SmSlept
<1>15. CASE SmGive
  BY <1>15
<1>16. CASE SmOutOfMemory
  BY <1>16 DEF SmOutOfMemory, SmAwake, SmNews
<1>17. CASE \E o \in Output : OutStep(o)
  BY <1>17
<1>18. CASE CancelSmoothing
  BY <1>18 DEF CancelSmoothing
<1>19. CASE JoinSmoothing
  BY <1>19 DEF JoinSmoothing
<1>20. CASE CancelOutput
  BY <1>20
<1>21. CASE KillOutput
  BY <1>21
<1>22. CASE JoinOutput
  BY <1>22 DEF JoinOutput
<1> QED
  BY <1>1, <1>2, <1>3, <1>4, <1>5, <1>6, <1>7, <1>8, <1>9, <1>10, <1>11,
      <1>12, <1>13, <1>14, <1>15, <1>16, <1>17, <1>18, <1>19, <1>20, <1>21,
      <1>22 DEF Next, SmStep, CloseStep

(* Only SmGive goes on to another output.                                  *)
LEMMA GiveKept ==
  ASSUME Next, ~SmGive
  PROVE  /\ give' = give
         /\ smPc = "give" => UNCHANGED <<smPc, payload>>
<1>1. CASE EncoderReady
  BY <1>1 DEF EncoderReady, muxVars, smVars, fifos, closeVars
<1>2. CASE \E n \in 1..MaxBlock : MuxQueue(n)
  BY <1>2 DEF MuxQueue, muxVars, smVars, fifos, closeVars
<1>3. CASE SignalLost
  BY <1>3 DEF SignalLost, muxVars, smVars, fifos, closeVars
<1>4. CASE SmReady
  BY <1>4 DEF SmReady, muxVars, smVars, fifos, closeVars
<1>5. CASE SmSleep
  BY <1>5 DEF SmSleep, SmAwake, SmNews, muxVars, smVars, fifos, closeVars
<1>6. CASE SmCancelled
  BY <1>6 DEF SmCancelled, SmAwake, SmNews, muxVars, smVars, fifos, closeVars
<1>7. CASE SmReset
  BY <1>7 DEF SmReset, SmAwake, SmNews, muxVars, smVars, fifos, closeVars
<1>8. CASE SmBuffer
  BY <1>8 DEF SmBuffer, SmAwake, SmNews, muxVars, smVars, fifos, closeVars
<1>9. CASE SmCopy
  BY <1>9 DEF SmCopy, SmAwake, SmNews, muxVars, smVars, fifos, closeVars
<1>10. CASE SmWrite
  BY <1>10 DEF SmWrite, muxVars, smVars, fifos, closeVars
<1>11. CASE SmLeave
  BY <1>11 DEF SmLeave, muxVars, smVars, fifos, closeVars
<1>12. CASE SmOverflow
  BY <1>12 DEF SmOverflow, muxVars, smVars, fifos, closeVars
<1>13. CASE SmDraw
  BY <1>13 DEF SmDraw, muxVars, smVars, fifos, closeVars
<1>14. CASE SmSlept
  BY <1>14 DEF SmSlept, muxVars, smVars, fifos, closeVars
<1>15. CASE SmGive
  BY <1>15
<1>16. CASE SmOutOfMemory
  BY <1>16 DEF SmOutOfMemory, SmAwake, SmNews, muxVars, smVars, fifos, closeVars
<1>17. CASE \E o \in Output : OutStep(o)
  BY <1>17, OutStepKeeps DEF OutUnchanged, muxVars, smVars, fifos, closeVars
<1>18. CASE CancelSmoothing
  BY <1>18 DEF CancelSmoothing, muxVars, smVars, fifos, closeVars
<1>19. CASE JoinSmoothing
  BY <1>19 DEF JoinSmoothing, muxVars, smVars, fifos, closeVars
<1>20. CASE CancelOutput
  BY <1>20 DEF CancelOutput, muxVars, smVars, fifos, closeVars
<1>21. CASE KillOutput
  BY <1>21 DEF KillOutput, muxVars, smVars, fifos, closeVars
<1>22. CASE JoinOutput
  BY <1>22 DEF JoinOutput, muxVars, smVars, fifos, closeVars
<1> QED
  BY <1>1, <1>2, <1>3, <1>4, <1>5, <1>6, <1>7, <1>8, <1>9, <1>10, <1>11,
      <1>12, <1>13, <1>14, <1>15, <1>16, <1>17, <1>18, <1>19, <1>20, <1>21,
      <1>22 DEF Next, SmStep, CloseStep

(* The outputs.                                                            *)
LEMMA OutsStep ==
  ASSUME IInv, Next
  PROVE  /\ OutsSound'
         /\ ~SmGive => \A o \in Output : GivenBy(out'[o]) = GivenBy(out[o])
         /\ (\E o \in Output : OutStep(o))
              \/ \A o \in Output : out'[o].written = out[o].written
<1>1. /\ payload \in PayloadType /\ give \in Output /\ closeAt \in Output
      /\ OutsSound
  BY DEF IInv, SmTypeOK
<1>2. CASE UNCHANGED out
  BY <1>1, <1>2 DEF OutsSound, Given
<1>3. CASE \E o \in Output : OutStep(o)
  <2>1. PICK o \in Output : OutStep(o)
    BY <1>3
  <2> QED
    BY <1>1, <2>1, OutputStep DEF OutsSound, Given
<1>4. CASE SmGive
  BY <1>1, <1>4, GiveStep DEF OutsSound
<1>5. CASE CancelOutput \/ KillOutput
  BY <1>1, <1>5, CloseStepOnOutput DEF OutsSound, Given
<1> QED
  BY <1>2, <1>3, <1>4, <1>5, WhoseOutputs

(* There is a first output.                                                *)
LEMMA OutputsAre ==
  1 \in Output /\ NumOutputs \in Nat \ {0} /\ Output = 1..NumOutputs
  BY SmoothingAssumption DEF Output

(* Every output is given the same: after each step of SmGive one more has  *)
(* the payload.                                                            *)
LEMMA SameStep ==
  ASSUME IInv, Next
  PROVE  SameForAll'
<1>1. /\ payload \in PayloadType /\ give \in Output /\ OutsSound
      /\ smPc # "give" => give = 1
  BY DEF IInv, SmTypeOK, Counts
<1>2. CASE ~SmGive
  <2>1. /\ \A o \in Output : GivenBy(out'[o]) = GivenBy(out[o])
        /\ give' = give /\ (smPc = "give" => UNCHANGED <<smPc, payload>>)
    BY <1>2, OutsStep, GiveKept
  <2>2. CASE smPc = "give"
    BY <2>1, <2>2, OutputsAre DEF IInv, SameForAll, Given
  <2>3. CASE smPc # "give"
    <3>1. give = 1 /\ give' = 1
      BY <1>1, <2>1, <2>3
    <3> QED
      BY <2>1, <2>3, <3>1, OutputsAre DEF IInv, SameForAll, Given
  <2> QED
    BY <2>2, <2>3
<1>3. CASE SmGive
  <2>1. /\ \A o \in Output \ {give} : GivenBy(out'[o]) = GivenBy(out[o])
        /\ GivenBy(out'[give]) = Append(GivenBy(out[give]), payload)
    BY <1>1, <1>3, GiveStep
  <2>2. smPc = "give" /\ payload' = payload
    BY <1>3 DEF SmGive
  <2>3. IF give = NumOutputs THEN give' = 1 /\ smPc' = "check"
                             ELSE give' = give + 1 /\ smPc' = "give"
    BY <1>3, <2>2 DEF SmGive
  <2>4. \A o \in Output :
          GivenBy(out[1]) = IF give # 1 /\ o >= give THEN Append(GivenBy(out[o]), payload) ELSE GivenBy(out[o])
    BY <2>2 DEF IInv, SameForAll, Given
  <2>5. ASSUME NEW o \in Output
        PROVE  GivenBy(out'[1]) = IF smPc' = "give" /\ give' # 1 /\ o >= give'
                             THEN Append(GivenBy(out'[o]), payload') ELSE GivenBy(out'[o])
    <3>1. GivenBy(out'[1]) = IF give = 1 THEN Append(GivenBy(out[1]), payload) ELSE GivenBy(out[1])
      BY <2>1, OutputsAre
    <3>2. GivenBy(out'[o]) = IF o = give THEN Append(GivenBy(out[o]), payload) ELSE GivenBy(out[o])
      BY <2>1
    <3>3. give = 1 => GivenBy(out[1]) = GivenBy(out[o])
      BY <2>4
    <3>4. o \in Nat /\ give \in Nat /\ o <= NumOutputs /\ o >= 1 /\ give >= 1
      BY <1>1, OutputsAre
    <3>5. CASE give = 1
      <4>1. GivenBy(out'[1]) = Append(GivenBy(out[o]), payload)
        BY <3>1, <3>3, <3>5
      <4>2. CASE o = 1
        BY <2>2, <2>3, <3>2, <3>4, <3>5, <4>1, <4>2, OutputsAre
      <4>3. CASE o # 1
        BY <2>2, <2>3, <3>2, <3>4, <3>5, <4>1, <4>3, OutputsAre
      <4> QED
        BY <4>2, <4>3
    <3>6. CASE give # 1
      <4>1. GivenBy(out'[1]) = GivenBy(out[1])
        BY <3>1, <3>6
      <4>2. CASE o = give
        BY <2>2, <2>3, <2>4, <3>2, <3>4, <3>6, <4>1, <4>2, OutputsAre
      <4>3. CASE o < give
        BY <2>2, <2>3, <2>4, <3>2, <3>4, <3>6, <4>1, <4>3, OutputsAre
      <4>4. CASE o > give
        BY <2>2, <2>3, <2>4, <3>2, <3>4, <3>6, <4>1, <4>4, OutputsAre
      <4> QED
        BY <3>4, <4>2, <4>3, <4>4
    <3> QED
      BY <3>5, <3>6
  <2> QED
    BY <2>5 DEF SameForAll, Given
<1> QED
  BY <1>2, <1>3
-----------------------------------------------------------------------------
(* The invariant holds at first.                                           *)
LEMMA InitIInv ==
  Init => IInv
<1> SUFFICES ASSUME Init PROVE IInv
  OBVIOUS
<1>1. \A S : <<>> \in Seq(S) /\ Len(<<>>) = 0
  BY EmptySeq
<1>2. NoPayload \in PayloadType
  BY <1>1 DEF NoPayload, PayloadType
<1>3. SmTypeOK
  <2>1. /\ muxed \in 0..MaxPackets /\ drops \in 0..MaxDrops
        /\ give \in Output /\ closeAt \in Output
    BY SmoothingAssumption DEF Init, Output
  <2>2. smQ \in Queue(Block, {"smoothing"})
    BY EmptyQueueType DEF Init
  <2> QED
    BY <1>1, <1>2, <2>1, <2>2 DEF Init, SmTypeOK
<1>4. EmptyQueue.items = <<>> /\ EmptyQueue.in = {}
  BY EmptyQueueType
<1>5. SmSound /\ Counts /\ Contiguous /\ FifosFollow
  BY <1>1, <1>4 DEF Init, SmSound, Counts, Contiguous, FifosFollow, Empty
<1>6. ASSUME NEW o \in Output
      PROVE  OutSound(o, out[o]) /\ Given(o) = <<>>
  <2>1. out[o] = OutputAtStart
    BY DEF Init
  <2>2. EmptyQueue \in Queue(PayloadType, {o})
    BY EmptyQueueType
  <2>3. OutputAtStart \in OutputType(o)
    BY <1>1, <2>2 DEF OutputAtStart, OutputType
  <2>4. OutSound(o, OutputAtStart)
    BY <1>4, <2>3 DEF OutSound, OutputAtStart
  <2>5. GivenBy(OutputAtStart) = <<>> \o <<>>
    BY <1>4 DEF GivenBy, OutputAtStart
  <2>6. <<>> \o <<>> = <<>>
    BY <1>1, ConcatEmptySeq
  <2> QED
    BY <2>1, <2>4, <2>5, <2>6 DEF Given
<1>7. OutsSound
  BY <1>6 DEF Init, OutsSound
<1>8. SameForAll
  BY <1>6, OutputsAre DEF Init, SameForAll
<1> QED
  BY <1>3, <1>5, <1>7, <1>8 DEF IInv

(* The invariant is inductive.                                             *)
LEMMA StepIInv ==
  IInv /\ [Next]_vars => IInv'
<1> SUFFICES ASSUME IInv, [Next]_vars PROVE IInv'
  OBVIOUS
<1>1. CASE Next
  BY <1>1, SmTypeStep, SmSoundStep, BlocksStep, OutsStep, SameStep DEF IInv
<1>2. CASE UNCHANGED vars
  <2>1. SmTypeOK' /\ SmSound' /\ Counts' /\ OutsSound'
    BY <1>2 DEF vars, muxVars, smVars, fifos, closeVars, IInv, SmTypeOK, SmSound,
      Counts, OutsSound
  <2>2. Contiguous' /\ FifosFollow'
    BY <1>2, SameBlocks DEF vars, muxVars, smVars, fifos, IInv
  <2>3. SameForAll'
    BY <1>2 DEF vars, smVars, IInv, SameForAll, Given
  <2> QED
    BY <2>1, <2>2, <2>3 DEF IInv
<1> QED
  BY <1>1, <1>2

(* The invariant holds always.                                             *)
LEMMA Invariant ==
  Spec => []IInv
  BY InitIInv, StepIInv, PTL DEF Spec

(* Neither the smoothing thread (mux/smoothing.c) nor an output (ip.c,     *)
(* file.c) sleeps while its queue has news or it is cancelled, for any     *)
(* number of outputs and any sizes of blocks and payloads.                 *)
THEOREM NoWakeupIsLost ==
  Spec => []NoLostWakeup
<1>1. IInv => NoLostWakeup
  BY DEF IInv, SmSound, OutsSound, OutSound, NoLostWakeup
<1> QED
  BY <1>1, Invariant, PTL

(* What a thread removes from a queue is what it copied, and every output  *)
(* is given the same payloads in the same order, whatever the others do.   *)
THEOREM SamePayloads ==
  Spec => []PayloadsSame
<1>1. IInv => PayloadsSame
  BY DEF IInv, SmSound, OutsSound, OutSound, TypeOK, OutTypeOK, PayloadsSame,
    RemovesWhatItCopied
<1> QED
  BY <1>1, Invariant, PTL
-----------------------------------------------------------------------------
(* The refinement: what each step does to the state of TsDelivery.         *)

(* A payload counts as sent from the draw on.                              *)
LEMMA InHand ==
  ASSUME Next, ~SmGive, ~SmDraw
  PROVE  /\ smPc \in {"sleep", "give"} <=> smPc' \in {"sleep", "give"}
         /\ smPc \in {"sleep", "give"} => payload' = payload
<1>1. CASE EncoderReady
  BY <1>1 DEF EncoderReady, muxVars, smVars, fifos, closeVars
<1>2. CASE \E n \in 1..MaxBlock : MuxQueue(n)
  BY <1>2 DEF MuxQueue, muxVars, smVars, fifos, closeVars
<1>3. CASE SignalLost
  BY <1>3 DEF SignalLost, muxVars, smVars, fifos, closeVars
<1>4. CASE SmReady
  BY <1>4 DEF SmReady, muxVars, smVars, fifos, closeVars
<1>5. CASE SmSleep
  BY <1>5 DEF SmSleep, SmAwake, SmNews, muxVars, smVars, fifos, closeVars
<1>6. CASE SmCancelled
  BY <1>6 DEF SmCancelled, SmAwake, SmNews, muxVars, smVars, fifos, closeVars
<1>7. CASE SmReset
  BY <1>7 DEF SmReset, SmAwake, SmNews, muxVars, smVars, fifos, closeVars
<1>8. CASE SmBuffer
  BY <1>8 DEF SmBuffer, SmAwake, SmNews, muxVars, smVars, fifos, closeVars
<1>9. CASE SmCopy
  BY <1>9 DEF SmCopy, SmAwake, SmNews, muxVars, smVars, fifos, closeVars
<1>10. CASE SmWrite
  BY <1>10 DEF SmWrite, muxVars, smVars, fifos, closeVars
<1>11. CASE SmLeave
  BY <1>11 DEF SmLeave, muxVars, smVars, fifos, closeVars
<1>12. CASE SmOverflow
  BY <1>12 DEF SmOverflow, muxVars, smVars, fifos, closeVars
<1>13. CASE SmDraw
  BY <1>13
<1>14. CASE SmSlept
  BY <1>14 DEF SmSlept, muxVars, smVars, fifos, closeVars
<1>15. CASE SmGive
  BY <1>15
<1>16. CASE SmOutOfMemory
  BY <1>16 DEF SmOutOfMemory, SmAwake, SmNews, muxVars, smVars, fifos, closeVars
<1>17. CASE \E o \in Output : OutStep(o)
  BY <1>17, OutStepKeeps DEF OutUnchanged, muxVars, smVars, fifos, closeVars
<1>18. CASE CancelSmoothing
  BY <1>18 DEF CancelSmoothing, muxVars, smVars, fifos, closeVars
<1>19. CASE JoinSmoothing
  BY <1>19 DEF JoinSmoothing, muxVars, smVars, fifos, closeVars
<1>20. CASE CancelOutput
  BY <1>20 DEF CancelOutput, muxVars, smVars, fifos, closeVars
<1>21. CASE KillOutput
  BY <1>21 DEF KillOutput, muxVars, smVars, fifos, closeVars
<1>22. CASE JoinOutput
  BY <1>22 DEF JoinOutput, muxVars, smVars, fifos, closeVars
<1> QED
  BY <1>1, <1>2, <1>3, <1>4, <1>5, <1>6, <1>7, <1>8, <1>9, <1>10, <1>11,
      <1>12, <1>13, <1>14, <1>15, <1>16, <1>17, <1>18, <1>19, <1>20, <1>21,
      <1>22 DEF Next, SmStep, CloseStep

(* Who muxes packets and asks for resets.                                  *)
LEMMA WhoseRequests ==
  ASSUME Next
  PROVE  \/ \E n \in 1..MaxBlock : MuxQueue(n)
         \/ SignalLost \/ SmOverflow \/ SmReset
         \/ UNCHANGED <<muxed, muxDrop>>
<1>1. CASE EncoderReady
  BY <1>1 DEF EncoderReady, muxVars, smVars, fifos, closeVars
<1>2. CASE \E n \in 1..MaxBlock : MuxQueue(n)
  BY <1>2
<1>3. CASE SignalLost
  BY <1>3
<1>4. CASE SmReady
  BY <1>4 DEF SmReady, muxVars, smVars, fifos, closeVars
<1>5. CASE SmSleep
  BY <1>5 DEF SmSleep, SmAwake, SmNews, muxVars, smVars, fifos, closeVars
<1>6. CASE SmCancelled
  BY <1>6 DEF SmCancelled, SmAwake, SmNews, muxVars, smVars, fifos, closeVars
<1>7. CASE SmReset
  BY <1>7
<1>8. CASE SmBuffer
  BY <1>8 DEF SmBuffer, SmAwake, SmNews, muxVars, smVars, fifos, closeVars
<1>9. CASE SmCopy
  BY <1>9 DEF SmCopy, SmAwake, SmNews, muxVars, smVars, fifos, closeVars
<1>10. CASE SmWrite
  BY <1>10 DEF SmWrite, muxVars, smVars, fifos, closeVars
<1>11. CASE SmLeave
  BY <1>11 DEF SmLeave, muxVars, smVars, fifos, closeVars
<1>12. CASE SmOverflow
  BY <1>12
<1>13. CASE SmDraw
  BY <1>13 DEF SmDraw, muxVars, smVars, fifos, closeVars
<1>14. CASE SmSlept
  BY <1>14 DEF SmSlept, muxVars, smVars, fifos, closeVars
<1>15. CASE SmGive
  BY <1>15 DEF SmGive, muxVars, smVars, fifos, closeVars
<1>16. CASE SmOutOfMemory
  BY <1>16 DEF SmOutOfMemory, SmAwake, SmNews, muxVars, smVars, fifos, closeVars
<1>17. CASE \E o \in Output : OutStep(o)
  BY <1>17, OutStepKeeps DEF OutUnchanged, muxVars, smVars, fifos, closeVars
<1>18. CASE CancelSmoothing
  BY <1>18 DEF CancelSmoothing, muxVars, smVars, fifos, closeVars
<1>19. CASE JoinSmoothing
  BY <1>19 DEF JoinSmoothing, muxVars, smVars, fifos, closeVars
<1>20. CASE CancelOutput
  BY <1>20 DEF CancelOutput, muxVars, smVars, fifos, closeVars
<1>21. CASE KillOutput
  BY <1>21 DEF KillOutput, muxVars, smVars, fifos, closeVars
<1>22. CASE JoinOutput
  BY <1>22 DEF JoinOutput, muxVars, smVars, fifos, closeVars
<1> QED
  BY <1>1, <1>2, <1>3, <1>4, <1>5, <1>6, <1>7, <1>8, <1>9, <1>10, <1>11,
      <1>12, <1>13, <1>14, <1>15, <1>16, <1>17, <1>18, <1>19, <1>20, <1>21,
      <1>22 DEF Next, SmStep, CloseStep

(* Only a draw adds to what is drawn.                                     *)
LEMMA DrawnStep ==
  ASSUME IInv, Next
  PROVE  Drawn' = IF SmDraw THEN Append(Drawn, payload') ELSE Drawn
<1>1. /\ payload \in PayloadType /\ give \in Output /\ OutsSound
      /\ smPc # "give" => give = 1
  BY DEF IInv, SmTypeOK, Counts
<1>2. CASE SmGive
  <2>1. smPc = "give" /\ payload' = payload /\ ~SmDraw
    BY <1>2 DEF SmGive, SmDraw
  <2>2. IF give = NumOutputs THEN give' = 1 /\ smPc' = "check"
                             ELSE give' = give + 1 /\ smPc' = "give"
    BY <1>2, <2>1 DEF SmGive
  <2>3. CASE give = 1
    <3>1. GivenBy(out'[1]) = Append(GivenBy(out[1]), payload)
      BY <1>1, <1>2, <2>3, GiveStep
    <3>2. ~(smPc' \in {"sleep", "give"} /\ give' = 1)
      BY <2>2, <2>3
    <3> QED
      BY <2>1, <2>3, <3>1, <3>2 DEF Drawn, Given
  <2>4. CASE give # 1
    <3>1. GivenBy(out'[1]) = GivenBy(out[1])
      BY <1>1, <1>2, <2>4, GiveStep, OutputsAre
    <3>2. ~(smPc' \in {"sleep", "give"} /\ give' = 1)
      BY <1>1, <2>2, <2>4, OutputsAre
    <3> QED
      BY <2>1, <2>4, <3>1, <3>2 DEF Drawn, Given
  <2> QED
    BY <2>3, <2>4
<1>3. CASE SmDraw
  <2>1. smPc = "check" /\ smPc' \in {"sleep", "give"} /\ give' = give /\ ~SmGive
    BY <1>3 DEF SmDraw, SmGive
  <2>2. give = 1 /\ GivenBy(out'[1]) = GivenBy(out[1])
    BY <1>1, <2>1, OutsStep, OutputsAre
  <2>3. Drawn = GivenBy(out[1])
    BY <2>1 DEF Drawn, Given
  <2>4. Drawn' = Append(GivenBy(out'[1]), payload')
    BY <2>1, <2>2 DEF Drawn, Given
  <2> QED
    BY <1>3, <2>2, <2>3, <2>4
<1>4. CASE ~SmGive /\ ~SmDraw
  <2>1. GivenBy(out'[1]) = GivenBy(out[1])
    BY <1>4, OutsStep, OutputsAre
  <2> QED
    BY <1>4, <2>1, InHand, GiveKept DEF Drawn, Given
<1> QED
  BY <1>2, <1>3, <1>4

(* An output has not written more than has been sent.                      *)
LEMMA WrittenOfDrawn ==
  ASSUME IInv, NEW o \in Output
  PROVE  /\ Len(out[o].written) \in Nat /\ Len(GivenBy(out[o])) \in Nat
         /\ Len(Drawn) \in Nat
         /\ Len(GivenBy(out[o])) <= Len(Drawn)
<1>1. payload \in PayloadType /\ \A p \in Output : OutSound(p, out[p])
  BY DEF IInv, SmTypeOK, OutsSound
<1>2. ASSUME NEW p \in Output
      PROVE  GivenBy(out[p]) \in Seq(PayloadType)
  <2>1. /\ out[p].written \in Seq(PayloadType) /\ out[p].q.items \in Seq(PayloadType)
        /\ out[p].copied \in Seq(PayloadType)
    BY <1>1, <1>2, OutTypes DEF OutSound
  <2>2. out[p].pc = "remove" => Tail(out[p].q.items) \in Seq(PayloadType)
    BY <1>1, <1>2, <2>1, PrefixOfTails DEF OutSound
  <2> QED
    BY <2>1, <2>2, ConcatProperties DEF GivenBy
<1>3. Len(GivenBy(out[o])) <= Len(GivenBy(out[1]))
  <2>1. \/ GivenBy(out[1]) = GivenBy(out[o])
        \/ GivenBy(out[1]) = Append(GivenBy(out[o]), payload)
    BY DEF IInv, SameForAll, Given
  <2>2. /\ Len(Append(GivenBy(out[o]), payload)) = Len(GivenBy(out[o])) + 1
        /\ Len(GivenBy(out[o])) \in Nat
    BY <1>1, <1>2, AppendProperties, LenProperties
  <2> QED
    BY <2>1, <2>2
<1>4. Len(GivenBy(out[1])) <= Len(Drawn)
  <2>1. Drawn = GivenBy(out[1]) \/ Drawn = Append(GivenBy(out[1]), payload)
    BY DEF Drawn, Given
  <2>2. /\ Len(Append(GivenBy(out[1]), payload)) = Len(GivenBy(out[1])) + 1
        /\ Len(GivenBy(out[1])) \in Nat
    BY <1>1, <1>2, OutputsAre, AppendProperties, LenProperties
  <2> QED
    BY <2>1, <2>2
<1>5. /\ Len(GivenBy(out[o])) \in Nat /\ Len(GivenBy(out[1])) \in Nat
      /\ Len(Drawn) \in Nat
  <2>1. Drawn \in Seq(PayloadType)
    BY <1>1, <1>2, OutputsAre, AppendProperties DEF Drawn, Given
  <2> QED
    BY <1>2, <2>1, OutputsAre, LenProperties
<1>6. Len(out[o].written) \in Nat
  BY <1>1, OutTypes, LenProperties DEF OutSound
<1> QED
  BY <1>3, <1>4, <1>5, <1>6

(* What is drawn is the next packets, each with its own PCR.               *)
LEMMA PayloadIsNext ==
  ASSUME IInv, SmDraw
  PROVE  payload' = Delivery!PayloadFrom(Undecided)
<1> DEFINE drawn == SubSeq(fifoData, 1, PayloadPackets)
           next  == [i \in 1..PayloadPackets |-> Undecided + i - 1]
<1>1. payload' = [pcrs |-> drawn, packets |-> drawn]
  BY DrawBlocks
<1>2. /\ fifoData \in Seq(1..MaxPackets) /\ Len(fifoData) \in Nat /\ Undecided \in Int
      /\ Len(fifoData) >= PayloadPackets /\ PayloadPackets \in Nat
  BY BlockTypes, SmoothingAssumption DEF IInv, SmDraw, Enough
<1>3. /\ drawn \in Seq(1..MaxPackets) /\ Len(drawn) = PayloadPackets
      /\ \A i \in 1..PayloadPackets : drawn[i] = fifoData[i]
  BY <1>2, DrawType
<1>4. next \in Seq(Int) /\ Len(next) = PayloadPackets
  <2>1. next \in [1..PayloadPackets -> Int]
    BY <1>2
  <2> HIDE DEF next
  <2> QED
    BY <1>2, <2>1, FunctionIsSeq
<1>5. drawn \in Seq(Int)
  <2>1. 1..MaxPackets \subseteq Int
    BY SmoothingAssumption
  <2> QED
    BY <1>3, <2>1, SeqMonotonic
<1>6. ASSUME NEW i \in 1..PayloadPackets PROVE drawn[i] = next[i]
  <2>1. i \in 1..Len(fifoData)
    BY <1>2
  <2>2. fifoData[i] = Undecided + i - 1
    BY <2>1 DEF IInv, FifosFollow
  <2> QED
    BY <1>3, <2>2
<1> HIDE DEF drawn, next
<1>7. drawn = next
  BY <1>3, <1>4, <1>5, <1>6, SeqEqual
<1> QED
  BY <1>1, <1>7 DEF next, Delivery!PayloadFrom

(* The initial states are those of TsDelivery.                             *)
LEMMA InitRefines ==
  Init => Delivery!Init
<1> SUFFICES ASSUME Init PROVE Delivery!Init
  OBVIOUS
<1>1. /\ \A S : <<>> \in Seq(S) /\ Len(<<>>) = 0
      /\ EmptyQueue.items = <<>>
  BY EmptySeq, EmptyQueueType
<1>2. \A o \in Output : out[o] = OutputAtStart
  BY DEF Init
<1>3. /\ OutputAtStart.written = <<>> /\ OutputAtStart.q.items = <<>>
      /\ OutputAtStart.pc = "open"
  BY <1>1 DEF OutputAtStart
<1>4. Drawn = <<>>
  <2>1. GivenBy(OutputAtStart) = <<>> \o <<>>
    BY <1>3 DEF GivenBy
  <2>2. <<>> \o <<>> = <<>>
    BY <1>1, ConcatEmptySeq
  <2> QED
    BY <1>2, <2>1, <2>2, OutputsAre DEF Init, Drawn, Given
<1>5. Undecided = 1
  BY <1>1 DEF Init, Undecided, InQueue, Empty
<1>6. [o \in Output |-> Len(out[o].written)] = [o \in 1..NumOutputs |-> 0]
  BY <1>1, <1>2, <1>3, OutputsAre
<1> QED
  BY <1>4, <1>5, <1>6 DEF Init, Delivery!Init

(* Every step is a step of TsDelivery, or none of its.                     *)
LEMMA StepRefines ==
  ASSUME IInv, Next
  PROVE  [Delivery!Next]_(Delivery!vars)
<1> DEFINE written == [o \in Output |-> Len(out[o].written)]
<1>1. /\ Drawn' = IF SmDraw THEN Append(Drawn, payload') ELSE Drawn
      /\ SmReset \/ SmDraw \/ Undecided' = Undecided
  BY DrawnStep, BlocksStep
<1>2. (\E o \in Output : OutStep(o)) \/ written' = written
  BY OutsStep
<1>3. CASE \E n \in 1..MaxBlock : MuxQueue(n)
  <2>1. PICK n \in 1..MaxBlock : MuxQueue(n)
    BY <1>3
  <2>2. muxed' = muxed + n /\ muxDrop' = muxDrop /\ written' = written /\ ~SmDraw
    BY <2>1 DEF MuxQueue, smVars, fifos, SmDraw
  <2>3. Undecided' = Undecided
    BY <2>1, MuxQueueBlocks
  <2> QED
    BY <1>1, <2>2, <2>3 DEF Delivery!Next, Delivery!Mux
<1>4. CASE SignalLost \/ SmOverflow
  <2>1. muxed' = muxed /\ muxDrop' = TRUE /\ written' = written
    BY <1>4 DEF SignalLost, SmOverflow, muxVars
  <2>2. ~SmDraw /\ ~SmReset
    BY <1>4 DEF SignalLost, SmOverflow, SmDraw, SmReset, TooLong, SmNews, SmAwake, smVars
  <2> QED
    BY <1>1, <2>1, <2>2 DEF Delivery!Next, Delivery!AskReset
<1>5. CASE SmReset
  <2>1. muxDrop /\ muxDrop' = FALSE /\ muxed' = muxed /\ written' = written /\ ~SmDraw
    BY <1>5 DEF SmReset, SmNews, SmAwake, SmDraw, muxVars
  <2>2. Undecided' = muxed + 1
    BY <1>5, <2>1, ResetBlocks
  <2> QED
    BY <1>1, <2>1, <2>2 DEF Delivery!Next, Delivery!Reset
<1>6. CASE SmDraw
  <2>1. ~muxDrop /\ muxDrop' = muxDrop /\ muxed' = muxed /\ written' = written
    BY <1>6 DEF SmDraw, muxVars
  <2>2. /\ Undecided' = Undecided + PayloadPackets
        /\ Undecided + PayloadPackets - 1 <= muxed
    BY <1>6, DrawBlocks
  <2>3. payload' = Delivery!PayloadFrom(Undecided)
    BY <1>6, PayloadIsNext
  <2> QED
    BY <1>1, <1>6, <2>1, <2>2, <2>3 DEF Delivery!Next, Delivery!Send
<1>7. CASE \E o \in Output : OutStep(o)
  <2>1. PICK o \in Output : OutStep(o)
    BY <1>7
  <2>2. /\ muxed' = muxed /\ muxDrop' = muxDrop /\ Undecided' = Undecided
        /\ ~SmDraw
    <3>1. UNCHANGED <<muxVars, muxDrop, smQ, smVars>>
      BY <2>1, OutStepKeeps DEF OutUnchanged
    <3> QED
      BY <3>1, SameBlocks DEF muxVars, smVars, fifos, IInv, SmDraw
  <2>3. /\ \A p \in Output \ {o} : out'[p] = out[p]
        /\ \/ out'[o].written = out[o].written
           \/ /\ Len(out'[o].written) = Len(out[o].written) + 1
              /\ Len(out[o].written) < Len(GivenBy(out[o]))
    BY <2>1, OutputStep DEF IInv
  <2>4. CASE out'[o].written = out[o].written
    <3>1. written' = written
      BY <2>3, <2>4
    <3> QED
      BY <1>1, <2>2, <3>1 DEF Delivery!vars
  <2>5. CASE /\ Len(out'[o].written) = Len(out[o].written) + 1
             /\ Len(out[o].written) < Len(GivenBy(out[o]))
    <3>1. written' = [written EXCEPT ![o] = written[o] + 1]
      BY <2>3, <2>5
    <3>2. written[o] < Len(Drawn)
      <4>1. /\ Len(GivenBy(out[o])) <= Len(Drawn)
            /\ Len(out[o].written) < Len(GivenBy(out[o]))
        BY <2>5, WrittenOfDrawn
      <4>2. Len(out[o].written) \in Nat /\ Len(GivenBy(out[o])) \in Nat /\ Len(Drawn) \in Nat
        BY WrittenOfDrawn
      <4> QED
        BY <4>1, <4>2
    <3> QED
      BY <1>1, <2>2, <3>1, <3>2, OutputsAre DEF Delivery!Next, Delivery!Deliver
  <2> QED
    BY <2>3, <2>4, <2>5
<1>8. CASE /\ UNCHANGED <<muxed, muxDrop>> /\ ~SmReset /\ ~SmDraw
           /\ ~\E o \in Output : OutStep(o)
  BY <1>1, <1>2, <1>8 DEF Delivery!vars
<1> QED
  BY <1>3, <1>4, <1>5, <1>6, <1>7, <1>8, WhoseRequests

(* The smoothing thread and the outputs implement TsDelivery, whenever a   *)
(* loss of signal comes, for every number of outputs and all sizes.        *)
THEOREM PacketsAreDelivered ==
  Spec => ImplementsDelivery
<1>1. IInv /\ [Next]_vars => [Delivery!Next]_(Delivery!vars)
  <2> SUFFICES ASSUME IInv, [Next]_vars PROVE [Delivery!Next]_(Delivery!vars)
    OBVIOUS
  <2>1. CASE Next
    BY <2>1, StepRefines
  <2>2. CASE UNCHANGED vars
    BY <2>2 DEF vars, muxVars, smVars, fifos, closeVars, Delivery!vars, Drawn, Given,
      Undecided, InQueue, Empty
  <2> QED
    BY <2>1, <2>2
<1> QED
  BY <1>1, InitRefines, Invariant, PTL DEF Spec, ImplementsDelivery, Delivery!Spec
=============================================================================
