------------------------------ MODULE AudioPath ------------------------------
(***************************************************************************)
(* The audio path: filters/audio/audio.c copies each block of samples of   *)
(* the card for every PCM encoder and hands bitstream blocks to the AC-3   *)
(* bitstream encoder of their pair; encoders/audio/mp2/twolame.c and       *)
(* encoders/audio/lavc/lavc.c keep their own time, counted from the block  *)
(* at which they last restarted it; obe_close ends the threads.            *)
(*                                                                         *)
(* Block k was captured at times[k] and has Block samples, one per unit of *)
(* time; a sample is <<k, i>>.  A gap is captured time that never came.    *)
(***************************************************************************)
EXTENDS ObeQueue, Integers, FiniteSets, FiniteSetsExt

CONSTANTS
  Encoders,      \* the audio encoders, in the order of h->encoders
  Kind,          \* each one's: "mp2", "lavc" or "bitstream"
  Pair,          \* the sdi_audio_pair of the bitstream encoders
  BitstreamPairs,\* pairs on which the card found AC-3
  Block,         \* samples of a block
  CodecFrame,    \* samples the codec of each encoder takes at a time
  FramesPerPes,  \* codec frames in a coded frame
  Threshold,     \* from one block to the next, restarts the time
  Gaps,          \* time lost between two blocks
  MaxBlocks, CanFail

E == Range(Encoders)
Pcm == {e \in E : Kind[e] # "bitstream"}

ConstantsAreSound ==
  /\ Encoders \in Seq(E) /\ IsInjective(Encoders) /\ "filter" \notin E
  /\ Block \in Nat \ {0} /\ MaxBlocks \in Nat
  /\ Gaps \subseteq Nat /\ CanFail \in BOOLEAN
  /\ IsFiniteSet(BitstreamPairs) /\ BitstreamPairs \subseteq Nat \ {0}
  /\ \A e \in Pcm : {CodecFrame[e], FramesPerPes[e]} \subseteq Nat \ {0}
  /\ \A e \in Pcm : Threshold[e] \in Nat

VARIABLES
  times,   \* capture times of the blocks so far
  due,     \* bitstream blocks the callback has still to queue
  filterQ, \* the queue of the filter, with the thread "filter"
  fpc,     \* filter thread: an index into Encoders, Carries, Waits or Gone
  carried, \* the bitstream frame between two queues
  encQ,    \* queue of each encoder
  enc,     \* state of each encoder, see EncoderAt
  muxed,   \* coded frames given to the muxer, by encoder
  freed,   \* raw frames of the card that were released
  cancel,  \* threads whose cancel_thread is set
  closed   \* obe_close: threads joined, "filter" first

vars == <<times, due, filterQ, fpc, carried, encQ, enc, muxed, freed, cancel,
          closed>>
input == <<times, due>>
coding == <<encQ, enc, muxed>>
stop == <<cancel, closed>>

Waits == 0
Gone == 0 - 1
Carries == Len(Encoders) + 2
None == 0 - 1 \* cur_pts when the time is to restart

EncoderAt(pc) ==
  [pc |-> pc, last |-> 0, cur |-> None, pcm |-> <<>>, coded |-> <<>>, num |-> 0]

Init ==
  /\ times = <<>> /\ due = <<>> /\ freed = {}
  /\ filterQ = EmptyQueue /\ fpc = Waits /\ carried = {}
  /\ encQ = [e \in E |-> EmptyQueue] /\ enc = [e \in E |-> EncoderAt("open")]
  /\ muxed = [e \in E |-> <<>>] /\ cancel = {} /\ closed = <<>>

Closing == cancel # {}
-----------------------------------------------------------------------------
(* The card: one PCM block with all channels, then one block for each pair *)
(* that carries a bitstream (processAudio).                                *)
CardBlock(gap) ==
  /\ ~Closing /\ Len(times) < MaxBlocks /\ due = <<>>
  /\ LET t == IF times = <<>> THEN 0 ELSE Last(times) + Block + gap
     IN  times' = Append(times, t)
  /\ due' = SetToSeq({[k |-> Len(times) + 1, pair |-> p] : p \in BitstreamPairs})
  /\ filterQ' \in AddToQueue(filterQ, [k |-> Len(times) + 1, pair |-> 0])
  /\ UNCHANGED <<fpc, coding, freed, carried, stop>>

CardBitstream ==
  /\ ~Closing /\ due # <<>>
  /\ filterQ' \in AddToQueue(filterQ, Head(due)) /\ due' = Tail(due)
  /\ UNCHANGED <<times, fpc, coding, freed, carried, stop>>
-----------------------------------------------------------------------------
(* start_filter_audio *)
FilterAwake == "filter" \notin filterQ.in

FilterSleep ==
  /\ fpc = Waits /\ FilterAwake /\ filterQ.items = <<>>
  /\ "filter" \notin cancel
  /\ filterQ' = SleepIn(filterQ, "filter")
  /\ UNCHANGED <<input, fpc, coding, freed, carried, stop>>

FilterCancelled ==
  /\ fpc = Waits /\ FilterAwake /\ "filter" \in cancel
  /\ fpc' = Gone
  /\ UNCHANGED <<input, filterQ, coding, freed, carried, stop>>

FilterTake ==
  /\ fpc = Waits /\ FilterAwake /\ filterQ.items # <<>>
  /\ "filter" \notin cancel
  /\ fpc' = 1
  /\ UNCHANGED <<input, filterQ, coding, freed, carried, stop>>

Frame == Head(filterQ.items)
IsPcm(frame) == frame.pair = 0

(* The PCM encoders before the i-th have their copy.                       *)
FilterSplit(i) ==
  /\ fpc = i /\ IsPcm(Frame)
  /\ IF Encoders[i] \in Pcm
     THEN \E q \in AddToQueue(encQ[Encoders[i]], Frame) :
            encQ' = [encQ EXCEPT ![Encoders[i]] = q]
     ELSE UNCHANGED encQ
  /\ fpc' = i + 1
  /\ UNCHANGED <<input, filterQ, enc, muxed, freed, carried, stop>>

(* Without memory for the copy the thread returns; the frame stays.        *)
FilterFails(i) ==
  /\ CanFail /\ fpc = i /\ IsPcm(Frame) /\ Encoders[i] \in Pcm
  /\ fpc' = Gone
  /\ UNCHANGED <<input, filterQ, coding, freed, carried, stop>>

(* The encoder a bitstream block is for: the first one of its pair.        *)
Takers(frame) ==
  {i \in DOMAIN Encoders : /\ Kind[Encoders[i]] = "bitstream"
                           /\ Pair[Encoders[i]] = frame.pair}

(* It leaves the queue of the filter before it enters that of the encoder. *)
FilterCarry ==
  /\ fpc = 1 /\ ~IsPcm(Frame) /\ Takers(Frame) # {}
  /\ filterQ' \in RemoveFromQueue(filterQ)
  /\ carried' = {Frame} /\ fpc' = Carries
  /\ UNCHANGED <<input, coding, freed, stop>>

FilterHandOver ==
  /\ fpc = Carries
  /\ \E frame \in carried :
       LET e == Encoders[Min(Takers(frame))]
       IN  \E q \in AddToQueue(encQ[e], frame) : encQ' = [encQ EXCEPT ![e] = q]
  /\ carried' = {} /\ fpc' = Waits
  /\ UNCHANGED <<input, filterQ, enc, muxed, freed, stop>>

FilterRelease ==
  /\ \/ fpc = Len(Encoders) + 1
     \/ fpc = 1 /\ ~IsPcm(Frame) /\ Takers(Frame) = {}
  /\ filterQ' \in RemoveFromQueue(filterQ)
  /\ freed' = freed \cup {Frame}
  /\ fpc' = Waits
  /\ UNCHANGED <<input, carried, coding, stop>>

FilterStep ==
  \/ FilterSleep \/ FilterCancelled \/ FilterTake
  \/ \E i \in DOMAIN Encoders : FilterSplit(i)
  \/ FilterCarry \/ FilterHandOver \/ FilterRelease
-----------------------------------------------------------------------------
(* The encoder threads.                                                    *)
Others == <<input, filterQ, fpc, carried, stop>>

EncoderOpen(e) ==
  /\ enc[e].pc = "open"
  /\ enc' = [enc EXCEPT ![e].pc = "wait"]
  /\ encQ' = [encQ EXCEPT ![e] = BroadcastIn(@)]
  /\ UNCHANGED <<Others, muxed, freed>>

(* A refused parameter or no memory: the thread ends, its queue stays.     *)
EncoderFails(e) ==
  /\ CanFail /\ enc[e].pc \in {"open", "take"} /\ e \in Pcm
  /\ enc' = [enc EXCEPT ![e].pc = "ended"]
  /\ UNCHANGED <<Others, encQ, muxed, freed>>

(* Fault: the predicate of the wait does not look at the queue.            *)
EncoderSleepBlindly(e) ==
  /\ enc[e].pc = "wait" /\ e \notin encQ[e].in /\ e \notin cancel
  /\ encQ' = [encQ EXCEPT ![e] = SleepIn(@, e)]
  /\ UNCHANGED <<Others, enc, muxed, freed>>

EncoderSleep(e) ==
  /\ enc[e].pc = "wait" /\ e \notin encQ[e].in
  /\ encQ[e].items = <<>> /\ e \notin cancel
  /\ encQ' = [encQ EXCEPT ![e] = SleepIn(@, e)]
  /\ UNCHANGED <<Others, enc, muxed, freed>>

EncoderCancelled(e) ==
  /\ enc[e].pc = "wait" /\ e \notin encQ[e].in /\ e \in cancel
  /\ enc' = [enc EXCEPT ![e].pc = "ended"]
  /\ UNCHANGED <<Others, encQ, muxed, freed>>

(* Fault: a restart leaves samples in the fifo.                            *)
RestartedUndrained(s, e, t) ==
  IF s.cur = None \/ t - s.last >= Threshold[e]
  THEN [s EXCEPT !.cur = t, !.coded = <<>>, !.num = 0] ELSE s

(* The time starts again at a block too far from the last one, and with it *)
(* both fifos and the frames counted.                                      *)
Restarted(s, e, t) ==
  IF s.cur = None \/ t - s.last >= Threshold[e]
  THEN [s EXCEPT !.cur = t, !.pcm = <<>>, !.coded = <<>>, !.num = 0] ELSE s

EncoderTake(e) ==
  /\ enc[e].pc = "wait" /\ e \notin encQ[e].in /\ e \notin cancel
  /\ encQ[e].items # <<>>
  /\ LET t == times[Head(encQ[e].items).k]
     IN  enc' = [enc EXCEPT ![e] =
                   [Restarted(@, e, t) EXCEPT !.last = t, !.pc = "take"]]
  /\ UNCHANGED <<Others, encQ, muxed, freed>>

(* Converted, into the fifo; the copy is released and removed.             *)
EncoderPush(e) ==
  /\ enc[e].pc = "take" /\ e \in Pcm
  /\ LET k == Head(encQ[e].items).k
     IN  enc' = [enc EXCEPT ![e].pc = "code",
                            ![e].pcm = @ \o [i \in 1 .. Block |-> <<k, i>>]]
  /\ \E q \in RemoveFromQueue(encQ[e]) : encQ' = [encQ EXCEPT ![e] = q]
  /\ UNCHANGED <<Others, muxed, freed>>

(* One codec frame: out of the PCM fifo, into the fifo of coded data.      *)
Coded(s, e) ==
  [s EXCEPT !.pcm = SubSeq(@, CodecFrame[e] + 1, Len(@)),
            !.coded = @ \o SubSeq(s.pcm, 1, CodecFrame[e]),
            !.num = @ + 1]

(* twolame sends what the fifo holds; lavc exactly when it has counted     *)
(* FramesPerPes frames, so that after one allocation that failed it sends  *)
(* nothing until its time restarts.                                        *)
PesFull(s, e) ==
  IF Kind[e] = "mp2" THEN s.num >= FramesPerPes[e] ELSE s.num = FramesPerPes[e]

EncoderCode(e) ==
  /\ enc[e].pc = "code" /\ Len(enc[e].pcm) >= CodecFrame[e]
  /\ LET s == Coded(enc[e], e)
     IN  IF ~PesFull(s, e)
         THEN enc' = [enc EXCEPT ![e] = s] /\ UNCHANGED muxed
         ELSE /\ muxed' = [muxed EXCEPT ![e] =
                   Append(@, [pts |-> s.cur, samples |-> s.coded])]
              /\ enc' = [enc EXCEPT ![e] =
                   [s EXCEPT !.coded = <<>>, !.num = 0,
                             !.cur = @ + FramesPerPes[e] * CodecFrame[e]]]
  /\ UNCHANGED <<Others, encQ, freed>>

(* No memory for the coded frame: twolame ends, lavc goes on.              *)
EncoderLosesPes(e) ==
  /\ CanFail /\ enc[e].pc = "code" /\ Len(enc[e].pcm) >= CodecFrame[e]
  /\ PesFull(Coded(enc[e], e), e)
  /\ enc' = [enc EXCEPT ![e] = IF Kind[e] = "mp2" THEN [@ EXCEPT !.pc = "ended"]
                               ELSE Coded(@, e)]
  /\ UNCHANGED <<Others, encQ, muxed, freed>>

EncoderMore(e) ==
  /\ enc[e].pc = "code" /\ Len(enc[e].pcm) < CodecFrame[e]
  /\ enc' = [enc EXCEPT ![e].pc = "wait"]
  /\ UNCHANGED <<Others, encQ, muxed, freed>>

(* ac3bitstream.c: the bursts found in the block, whose times are their    *)
(* own (Smpte337List), go to the muxer; then the block is released.        *)
BitstreamPass(e) ==
  /\ enc[e].pc = "take" /\ e \notin Pcm
  /\ \/ muxed' = [muxed EXCEPT ![e] = Append(@, Head(encQ[e].items))]
     \/ UNCHANGED muxed \* no burst, an empty one, or a wrong checksum
  /\ freed' = freed \cup {Head(encQ[e].items)}
  /\ \E q \in RemoveFromQueue(encQ[e]) : encQ' = [encQ EXCEPT ![e] = q]
  /\ enc' = [enc EXCEPT ![e].pc = "wait"]
  /\ UNCHANGED Others

EncoderStep(e) ==
  \/ EncoderOpen(e) \/ EncoderSleep(e) \/ EncoderCancelled(e)
  \/ EncoderTake(e) \/ EncoderPush(e) \/ EncoderCode(e) \/ EncoderMore(e)
  \/ BitstreamPass(e)
-----------------------------------------------------------------------------
(* obe_close: the filter, then the encoders, each cancelled, signalled and *)
(* joined; the input is gone before.                                       *)
Ended(t) == IF t = "filter" THEN fpc = Gone ELSE enc[t].pc = "ended"

Victims == <<"filter">> \o Encoders

Cancel(n) ==
  /\ Len(closed) = n - 1 /\ Victims[n] \notin cancel
  /\ cancel' = cancel \cup {Victims[n]}
  /\ IF n = 1 THEN filterQ' \in SignalIn(filterQ) /\ UNCHANGED encQ
     ELSE /\ UNCHANGED filterQ
          /\ \E q \in SignalIn(encQ[Victims[n]]) :
               encQ' = [encQ EXCEPT ![Victims[n]] = q]
  /\ UNCHANGED <<input, fpc, carried, enc, muxed, freed, closed>>

Join(n) ==
  /\ Len(closed) = n - 1 /\ Victims[n] \in cancel /\ Ended(Victims[n])
  /\ closed' = Append(closed, Victims[n])
  /\ UNCHANGED <<input, filterQ, fpc, carried, coding, freed, cancel>>

CloseStep == \E n \in DOMAIN Victims : Join(n) \/ (n > 1 /\ Cancel(n))

Works ==
  \/ \E gap \in Gaps : CardBlock(gap)
  \/ CardBitstream \/ FilterStep
  \/ \E e \in E : EncoderStep(e)
  \/ Cancel(1) \/ CloseStep

Fails ==
  \/ \E i \in DOMAIN Encoders : FilterFails(i)
  \/ \E e \in E : EncoderFails(e) \/ EncoderLosesPes(e)

Next == Works \/ Fails

Spec == Init /\ [][Next]_vars

-----------------------------------------------------------------------------
(* No thread sleeps while there is work for it or it is to end.            *)
NoLostWakeup ==
  /\ ~FilterAwake => filterQ.items = <<>> /\ "filter" \notin cancel
  /\ \A e \in E : encQ[e].in # {} => encQ[e].items = <<>> /\ e \notin cancel

(* The last block of which the filter has given a copy to e.               *)
PassedTo(e) ==
  LET waiting == {f \in Range(filterQ.items) : IsPcm(f)}
      next    == IF waiting = {} THEN Len(times) + 1
                 ELSE Min({f.k : f \in waiting})
  IN  IF /\ filterQ.items # <<>> /\ IsPcm(Frame)
         /\ \E i \in DOMAIN Encoders : Encoders[i] = e /\ i < fpc
         /\ fpc # Carries
      THEN next ELSE next - 1

Samples(k) == [i \in 1 .. Block |-> <<k, i>>]

(* All samples e was given, in its hands or coded, oldest first.           *)
Passed(e) ==
  FlattenSeq([i \in DOMAIN muxed[e] |-> muxed[e][i].samples])
    \o enc[e].coded \o enc[e].pcm
    \o FlattenSeq([i \in DOMAIN encQ[e].items |-> Samples(encQ[e].items[i].k)])

RestartsAt(e, k) == k = 1 \/ times[k] - times[k - 1] >= Threshold[e]

(* Every PCM encoder gets every block in order, and codes every sample     *)
(* once and in order, except those that are in its fifos when the time     *)
(* restarts.                                                               *)
AudioInOrder ==
  \A e \in Pcm :
    LET p == Passed(e)
    IN  /\ \A i \in 1 .. Len(p) - 1 :
             \/ p[i + 1] = <<p[i][1], p[i][2] + 1>>
             \/ p[i][2] = Block /\ p[i + 1] = <<p[i][1] + 1, 1>>
             \/ /\ p[i + 1][2] = 1 /\ p[i][1] < p[i + 1][1]
                /\ \E k \in p[i][1] + 1 .. p[i + 1][1] : RestartsAt(e, k)
        /\ fpc # Gone =>
             IF PassedTo(e) = 0 THEN p = <<>>
             ELSE p # <<>> /\ Last(p)[1] = PassedTo(e)

LastRestart(e, k) == Max({j \in 1 .. k : RestartsAt(e, j)})

(* A coded frame carries the time at which its first sample was captured,  *)
(* less the gaps that were too small to restart the time: that of the last *)
(* restart and the samples since.                                          *)
CodedTimes ==
  \A e \in Pcm : \A i \in DOMAIN muxed[e] :
    LET first == Head(muxed[e][i].samples)
        from  == LastRestart(e, first[1])
    IN  muxed[e][i].pts = times[from] + (first[1] - from) * Block + first[2] - 1

CardFrames ==
  {[k |-> k, pair |-> p] : k \in DOMAIN times, p \in BitstreamPairs \cup {0}}
    \ Range(due)

(* Who holds a frame of the card after the queue of the filter.            *)
Holders(f) ==
  {e \in E \ Pcm : f \in Range(encQ[e].items)} \cup
  {"filter" : x \in carried \cap {f}}

(* Every frame of the card is in the queue of the filter, between *)
(* queues, in that of one bitstream encoder, or released; only one of these. *)
FramesOwned ==
  \A f \in CardFrames :
    LET inFilter == IF f \in Range(filterQ.items) THEN 1 ELSE 0
        isFreed  == IF f \in freed THEN 1 ELSE 0
    IN  inFilter + isFreed + Cardinality(Holders(f)) = 1

=============================================================================
