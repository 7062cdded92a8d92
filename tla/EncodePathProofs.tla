--------------------------- MODULE EncodePathProofs ---------------------------
(***************************************************************************)
(* EncodePath, for every value of its constants: the types, that no wakeup *)
(* is lost, that the frames stay in order and at most the one in the       *)
(* hand-over is destroyed while it is still queued for smoothing, and that *)
(* none is sent before the clock has come so far.                          *)
(*                                                                         *)
(* NoLostWakeup is not inductive.  A signal on the encoder's in_cv wakes   *)
(* one of the threads asleep there, which may be the smoothing thread: that*)
(* the encoder gets it rests on the two never sleeping there together, and *)
(* this on is_ready being set before the encoder first waits (Opened).     *)
(* The types need that a thread that works on the head of a queue after it *)
(* gave up the lock still finds it there (Held).                           *)
(*                                                                         *)
(* Neither half of PathInOrder is inductive.  That the frames in flight    *)
(* are the frames captured needs to know that nobody but the thread that   *)
(* queues a coded frame holds one (Coding), that a frame is in two queues  *)
(* only while the smoothing thread hands it over, and that without the     *)
(* thread nothing is queued for it (Bypass).  That a destroyed frame is no *)
(* other than the one being handed over follows from the order once the    *)
(* frames captured are known to differ (Fresh), which is the input clock's *)
(* doing.                                                                  *)
(*                                                                         *)
(* PacedByClock speaks of the moment of sending only.  That the clock has  *)
(* advanced far enough then is an account kept since the pacing started    *)
(* (PaceInv): one tick for each frame sent.  A frame the thread waits for  *)
(* adds the tick it waits; one it finds due needs that frames are at least *)
(* as far apart in time as in number, which Fresh gives (Apart).           *)
(***************************************************************************)
EXTENDS EncodePath, QueueLemmas, FiniteSetTheorems

Held ==
  /\ inPc \in {"tick", "late", "lost", "frame"} => clock > 0
  /\ encPc \in {"speed", "encode"} => encQ.items # <<>>
  /\ encPc = "queue" => coded # <<>>
  /\ smPc \in {"clock", "anchor", "pace", "send", "remove"} =>
       smoothQ.items # <<>>
  /\ smPc \in {"remove", "exit"} => muxed # <<>>
  /\ smPc = "ready" => ~bufferComplete
  /\ smPc = "wait" /\ bufferComplete => num = 0

Opened ==
  /\ encPc \in {"wait", "speed", "encode", "queue"} => ready
  /\ smoothQ.in \subseteq {Smoother}

(* Until the first exit time is set nothing has left the full buffer but   *)
(* the first frame, and the encoder has slept since before that.           *)
Fill ==
  /\ lastExit = 0 =>
       /\ smPc \in {"clock", "anchor", "pace", "send", "remove"} =>
            Len(smoothQ.items) >= BufferFrames
       /\ smPc = "exit" => Len(smoothQ.items) >= BufferFrames - 1
       /\ smPc \in {"none", "ready", "wait", "done"} => ~bufferComplete
  /\ smoothQ.out \subseteq {Encoder}
  /\ Encoder \in smoothQ.out =>
       /\ encPc = "speed" /\ bufferComplete
       /\ BufferFrames > 1 => smoothQ.items # <<>>

IInv == TypeOK /\ NoLostWakeup /\ Held /\ Opened /\ Fill
-----------------------------------------------------------------------------
(* The two threads are different, and the only ones.                       *)
LEMMA TwoThreads ==
  /\ Encoder # Smoother
  /\ Threads = {Encoder, Smoother}
  /\ Encoder \in Threads /\ Smoother \in Threads
  BY DEF Encoder, Smoother, Threads

(* The parts of a queue.                                                   *)
LEMMA QueueFields ==
  ASSUME NEW Item, NEW Thread, NEW q \in Queue(Item, Thread)
  PROVE  /\ q.items \in Seq(Item)
         /\ q.in \subseteq Thread /\ q.out \subseteq Thread
  BY DEF Queue

(* The elements of a sequence that is not empty.                           *)
LEMMA NonEmpty ==
  ASSUME NEW S, NEW s \in Seq(S), s # <<>>
  PROVE  /\ Len(s) \in Nat \ {0}
         /\ Head(s) \in S /\ Tail(s) \in Seq(S)
         /\ s[1] \in S /\ Last(s) \in S
<1>1. Len(s) \in Nat \ {0}
  OBVIOUS
<1>2. 1 \in 1..Len(s) /\ Len(s) \in 1..Len(s)
  BY <1>1
<1> QED
  BY <1>1, <1>2 DEF Last
-----------------------------------------------------------------------------
(* Every step keeps the types.                                            *)
LEMMA TypeStep ==
  ASSUME IInv, Next
  PROVE  TypeOK'
<1>1. CASE \E gap \in 0..1 : InputTick(gap)
  BY <1>1 DEF InputTick, IInv, TypeOK, inVars, encVars, smVars, smStatics,
      closeVars
<1>2. CASE InputTickOn
  BY <1>2 DEF InputTickOn, IInv, TypeOK, inVars, encVars, smVars, smStatics,
      closeVars
<1>3. CASE InputBroadcast
  BY <1>3 DEF InputBroadcast, Ticking, IInv, TypeOK, inVars, encVars, smVars,
      smStatics, closeVars
<1>4. CASE InputDrop
  BY <1>4 DEF InputDrop, IInv, TypeOK, inVars, encVars, smVars, smStatics,
      closeVars
<1>5. CASE InputFrame
  BY <1>5, QueueFields, NonEmpty, TwoThreads DEF InputFrame, IInv, TypeOK,
      Held, Frames, inVars, encVars, smVars, smStatics, closeVars
<1>6. CASE FilterForward
  BY <1>6, AddToQueueType DEF FilterForward, IInv, TypeOK, inVars, encVars,
      smVars, smStatics, closeVars
<1>7. CASE MuxFree
  BY <1>7 DEF MuxFree, IInv, TypeOK, inVars, encVars, smVars, smStatics,
      closeVars
<1>8. CASE EncoderOpen
  BY <1>8, BroadcastInType DEF EncoderOpen, IInv, TypeOK, inVars, encVars,
      smVars, smStatics, closeVars
<1>9. CASE EncoderOpenFails
  BY <1>9 DEF EncoderOpenFails, IInv, TypeOK, inVars, encVars, smVars,
      smStatics, closeVars
<1>10. CASE EncoderSleep
  BY <1>10, SleepType, QueueFields, NonEmpty, TwoThreads DEF EncoderSleep,
      EncoderAwake, Empty, IInv, TypeOK, Held, Frames, inVars, encVars, smVars,
      smStatics, closeVars
<1>11. CASE EncoderCancelled
  BY <1>11 DEF EncoderCancelled, EncoderAwake, IInv, TypeOK, inVars, encVars,
      smVars, smStatics, closeVars
<1>12. CASE EncoderAborts
  BY <1>12 DEF EncoderAborts, EncoderAwake, IInv, TypeOK, inVars, encVars,
      smVars, smStatics, closeVars
<1>13. CASE EncoderTake
  <2>1. bufferComplete' \in BOOLEAN /\ drop' \in BOOLEAN
    BY <1>13 DEF EncoderTake
  <2>2. encPc' \in {"speed", "encode"} BY <1>13 DEF EncoderTake
  <2>3. UNCHANGED <<inPc, clock, filterQ, captured, clockWait, ready, inside,
                   coded, aborted, encQ, smVars, smoothQ, muxed, freed,
                   closeVars>>
    BY <1>13 DEF EncoderTake
  <2> QED
    BY <2>1, <2>2, <2>3 DEF IInv, TypeOK, inVars, encVars, smVars, smStatics,
        closeVars
<1>14. CASE EncoderSpeedSleep
  BY <1>14, SleepType, QueueFields, NonEmpty, TwoThreads DEF EncoderSpeedSleep,
      EncoderAtSpeedControl, IInv, TypeOK, Held, Frames, inVars, encVars,
      smVars, smStatics, closeVars
<1>15. CASE EncoderSpeedControl
  BY <1>15 DEF EncoderSpeedControl, EncoderAtSpeedControl, IInv, TypeOK,
      inVars, encVars, smVars, smStatics, closeVars
<1>16. CASE EncoderEncode
  <2>1. Head(encQ.items) \in Frames
    BY <1>16, QueueFields, NonEmpty DEF EncoderEncode, IInv, TypeOK, Held
  <2>2. encQ' \in Queue(Frames, Threads)
    BY <1>16, RemoveFromQueueType DEF EncoderEncode, IInv, TypeOK, Held
  <2>3. inside' \in Seq(Frames) /\ coded' \in Seq(Frames) /\ encPc' \in
      {"wait","queue"}
    <3> DEFINE held == Append(inside, Head(encQ.items))
    <3>1. held \in Seq(Frames) /\ held # <<>> BY <2>1 DEF IInv, TypeOK
    <3>2. Head(held) \in Frames /\ Tail(held) \in Seq(Frames) BY <3>1, NonEmpty
    <3>3. <<Head(held)>> \in Seq(Frames) BY <3>2
    <3>4. \/ inside' = held /\ coded' = coded /\ encPc' = "wait" 
          \/ inside' = Tail(held) /\ coded' = <<Head(held)>> /\ encPc' =
              "queue" BY <1>16 DEF EncoderEncode
    <3> HIDE DEF held
    <3> QED BY <3>1, <3>2, <3>3, <3>4 DEF IInv, TypeOK
  <2> QED
    BY <1>16, <2>2, <2>3 DEF EncoderEncode, IInv, TypeOK, inVars, encVars,
        smVars, smStatics, closeVars
<1>17. CASE EncoderEncodeFails
  BY <1>17, RemoveFromQueueType, QueueFields DEF EncoderEncodeFails, IInv,
      TypeOK, Held, inVars, encVars, smVars, smStatics, closeVars
<1>18. CASE EncoderQueue
  <2>1. coded[1] \in Frames
    BY <1>18, NonEmpty DEF EncoderQueue, IInv, TypeOK, Held
  <2>2. smoothQ' \in Queue(Frames, Threads)
    BY <1>18, <2>1, AddToQueueType DEF EncoderQueue, IInv, TypeOK
  <2>3. Append(muxed, coded[1]) \in Seq(Frames) BY <2>1 DEF IInv, TypeOK
  <2>4. muxed' \in Seq(Frames) BY <1>18, <2>3 DEF EncoderQueue, IInv, TypeOK
  <2>5. coded' \in Seq(Frames) BY <1>18 DEF EncoderQueue
  <2>6. UNCHANGED <<inVars, clockWait, ready, inside, aborted, encQ, smVars,
                  bufferComplete, freed, closeVars>>
        /\ encPc' = "wait" BY <1>18 DEF EncoderQueue
  <2> QED
    BY <2>2, <2>4, <2>5, <2>6 DEF IInv, TypeOK, inVars, encVars, smVars,
        smStatics, closeVars
<1>19. CASE SmootherReadySleep
  BY <1>19, SleepType, QueueFields, NonEmpty, TwoThreads DEF
      SmootherReadySleep, IInv, TypeOK, Held, Frames, inVars, encVars, smVars,
      smStatics, closeVars
<1>20. CASE SmootherReady
  BY <1>20 DEF SmootherReady, IInv, TypeOK, inVars, encVars, smVars, smStatics,
      closeVars
<1>21. CASE SmootherSleep
  BY <1>21, SleepType, QueueFields, NonEmpty, TwoThreads DEF SmootherSleep,
      SmootherAwake, IInv, TypeOK, Held, Frames, inVars, encVars, smVars,
      smStatics, closeVars
<1>22. CASE SmootherCancelled
  BY <1>22 DEF SmootherCancelled, SmootherAwake, IInv, TypeOK, inVars, encVars,
      smVars, smStatics, closeVars
<1>23. CASE SmootherBuffer
  BY <1>23 DEF SmootherBuffer, SmootherAwake, IInv, TypeOK, inVars, encVars,
      smVars, smStatics, closeVars
<1>24. CASE SmootherTake
  <2>1. startDts' \in -1..MaxPts
    BY <1>24, EncodeAssumption DEF SmootherTake, IInv, TypeOK
  <2>2. num' \in Nat BY <1>24, QueueFields DEF SmootherTake, IInv, TypeOK
  <2> QED
    BY <1>24, <2>1, <2>2 DEF SmootherTake, SmootherAwake, IInv, TypeOK, inVars,
        encVars, smVars, smStatics, closeVars
<1>25. CASE SmootherClock
  <2>1. HeadDts \in Frames
    BY <1>25, QueueFields, NonEmpty DEF SmootherClock, HeadDts, IInv, TypeOK,
        Held
  <2>2. startDts' \in -1..MaxPts /\ lastClock' \in -1..MaxPts /\ startPts' \in
      -1..MaxPts
    BY <1>25, <2>1 DEF SmootherClock, IInv, TypeOK, Frames
  <2>3. clockWait' \in SUBSET {Smoother}
    BY <1>25 DEF SmootherClock, IInv, TypeOK
  <2>4. smPc' \in {"send", "anchor", "pace"} BY <1>25 DEF SmootherClock
  <2> QED
    BY <1>25, <2>2, <2>3, <2>4 DEF SmootherClock, IInv, TypeOK, inVars,
        encVars, smVars, smStatics, closeVars
<1>26. CASE SmootherClockSleep
  BY <1>26 DEF SmootherClockSleep, SmootherInClockWait, IInv, TypeOK, inVars,
      encVars, smVars, smStatics, closeVars
<1>27. CASE SmootherTick
  BY <1>27 DEF SmootherTick, SmootherInClockWait, IInv, TypeOK, inVars,
      encVars, smVars, smStatics, closeVars
<1>28. CASE SmootherSend
  BY <1>28, QueueFields DEF SmootherSend, HeadDts, IInv, TypeOK, Held, inVars,
      encVars, smVars, smStatics, closeVars
<1>29. CASE SmootherRemove
  BY <1>29, RemoveFromQueueType, QueueFields DEF SmootherRemove, IInv, TypeOK,
      Held, inVars, encVars, smVars, smStatics, closeVars
<1>30. CASE SmootherExitTime
  <2>1. Last(muxed) \in Frames
    BY <1>30, NonEmpty DEF SmootherExitTime, IInv, TypeOK, Held
  <2> QED
    BY <1>30, <2>1 DEF SmootherExitTime, IInv, TypeOK, Frames, inVars, encVars,
        smVars, smStatics, closeVars
<1>31. CASE CloseInput
  BY <1>31 DEF CloseInput, IInv, TypeOK, inVars, encVars, smVars, smStatics,
      closeVars
<1>32. CASE CloseFilters
  BY <1>32 DEF CloseFilters, IInv, TypeOK, inVars, encVars, smVars, smStatics,
      closeVars
<1>33. CASE CancelEncoder
  BY <1>33, SignalInType DEF CancelEncoder, IInv, TypeOK, inVars, encVars,
      smVars, smStatics, closeVars
<1>34. CASE JoinEncoder
  BY <1>34 DEF JoinEncoder, IInv, TypeOK, inVars, encVars, smVars, smStatics,
      closeVars
<1>35. CASE CancelSmoother
  BY <1>35, SignalInType DEF CancelSmoother, IInv, TypeOK, inVars, encVars,
      smVars, smStatics, closeVars
<1>36. CASE BroadcastClock
  BY <1>36 DEF BroadcastClock, IInv, TypeOK, inVars, encVars, smVars,
      smStatics, closeVars
<1>37. CASE JoinSmoother
  BY <1>37 DEF JoinSmoother, IInv, TypeOK, inVars, encVars, smVars, smStatics,
      closeVars
<1>38. CASE Restart
  <2>1. /\ clock' \in 0..MaxPts /\ lastExit' \in 0..MaxPts
    BY <1>38, EncodeAssumption DEF Restart
  <2>2. smPc' \in {"ready", "none"} BY <1>38 DEF Restart
  <2>3. encQ' \in Queue(Frames, Threads) /\ smoothQ' \in Queue(Frames, Threads)
    BY <1>38, EmptyQueueType DEF Restart
  <2>4. <<>> \in Seq(Frames) OBVIOUS
  <2>5. starts' \in Nat BY <1>38 DEF IInv, TypeOK, Restart
  <2>6. UNCHANGED <<startDts, startPts, lastClock, num, aborted>>
    BY <1>38 DEF Restart, smStatics
  <2>7. clockWait' \in SUBSET {Smoother} BY <1>38 DEF Restart
  <2> QED
    BY <1>38, <2>1, <2>2, <2>3, <2>4, <2>5, <2>6, <2>7 DEF Restart, IInv,
        TypeOK
<1> QED
  BY <1>1, <1>2, <1>3, <1>4, <1>5, <1>6, <1>7, <1>8, <1>9, <1>10, <1>11, <1>12,
      <1>13, <1>14, <1>15, <1>16, <1>17, <1>18, <1>19, <1>20, <1>21, <1>22,
      <1>23, <1>24, <1>25, <1>26, <1>27, <1>28, <1>29, <1>30, <1>31, <1>32,
      <1>33, <1>34, <1>35, <1>36, <1>37, <1>38 DEF Next, EncoderStep,
      SmootherStep, CloseStep

(* Every step wakes whom it concerns.                                      *)
LEMMA WakeupStep ==
  ASSUME IInv, Next
  PROVE  NoLostWakeup'
<1>1. CASE \E gap \in 0..1 : InputTick(gap)
  BY <1>1 DEF InputTick, IInv, NoLostWakeup, Ticking, Empty, inVars, encVars,
      smVars, smStatics, closeVars
<1>2. CASE InputTickOn
  BY <1>2 DEF InputTickOn, IInv, NoLostWakeup, Ticking, Empty, inVars, encVars,
      smVars, smStatics, closeVars
<1>3. CASE InputBroadcast
  BY <1>3 DEF InputBroadcast, Ticking, IInv, NoLostWakeup, Empty, inVars,
      encVars, smVars, smStatics, closeVars
<1>4. CASE InputDrop
  BY <1>4 DEF InputDrop, IInv, NoLostWakeup, Ticking, Empty, inVars, encVars,
      smVars, smStatics, closeVars
<1>5. CASE InputFrame
  BY <1>5 DEF InputFrame, IInv, NoLostWakeup, Ticking, Empty, inVars, encVars,
      smVars, smStatics, closeVars
<1>6. CASE FilterForward
  <2>1. Head(filterQ) \in Frames
    BY <1>6, NonEmpty DEF FilterForward, IInv, TypeOK
  <2>2. encQ'.in \in WakeOne(encQ.in)
    BY <1>6, <2>1, AddToQueueType DEF FilterForward, IInv, TypeOK
  <2>3. encQ'.in \subseteq encQ.in BY <2>2, WakeOneWakes
  <2>4. Encoder \notin encQ'.in
    <3>1. SUFFICES ASSUME Encoder \in encQ.in PROVE encQ'.in = {} BY <2>3
    <3>2. Smoother \notin encQ.in BY <3>1 DEF IInv, NoLostWakeup, Opened
    <3>3. encQ.in \subseteq {Encoder}
      BY <3>2, TwoThreads, QueueFields DEF IInv, TypeOK
    <3> QED BY <3>3, <2>2, WakeOneWakes
  <2> QED
    BY <1>6, <2>3, <2>4 DEF FilterForward, IInv, TypeOK, NoLostWakeup, Opened,
        Ticking, Empty, inVars, encVars, smVars, smStatics, closeVars
<1>7. CASE MuxFree
  BY <1>7 DEF MuxFree, IInv, NoLostWakeup, Ticking, Empty, inVars, encVars,
      smVars, smStatics, closeVars
<1>8. CASE EncoderOpen
  BY <1>8, BroadcastInType DEF EncoderOpen, IInv, NoLostWakeup, Ticking, Empty,
      TypeOK, inVars, encVars, smVars, smStatics, closeVars
<1>9. CASE EncoderOpenFails
  BY <1>9 DEF EncoderOpenFails, IInv, NoLostWakeup, Ticking, Empty, inVars,
      encVars, smVars, smStatics, closeVars
<1>10. CASE EncoderSleep
  <2>1. encQ'.in = encQ.in \cup {Encoder} /\ encQ'.items = encQ.items
    <3> encQ \in Queue(Frames, Threads) /\ Encoder \in Threads
      BY TwoThreads DEF IInv, TypeOK
    <3> QED BY <1>10, SleepType DEF EncoderSleep
  <2>2. Smoother # Encoder BY TwoThreads
  <2> QED
    BY <1>10, <2>1, <2>2 DEF EncoderSleep, EncoderAwake, Empty, IInv, TypeOK,
        NoLostWakeup, Opened, Ticking, inVars, encVars, smVars, smStatics,
        closeVars
<1>11. CASE EncoderCancelled
  BY <1>11 DEF EncoderCancelled, EncoderAwake, IInv, NoLostWakeup, Ticking,
      Empty, inVars, encVars, smVars, smStatics, closeVars
<1>12. CASE EncoderAborts
  BY <1>12 DEF EncoderAborts, EncoderAwake, IInv, NoLostWakeup, Ticking, Empty,
      inVars, encVars, smVars, smStatics, closeVars
<1>13. CASE EncoderTake
  BY <1>13 DEF EncoderTake, EncoderAwake, IInv, NoLostWakeup, Ticking, Empty,
      inVars, encVars, smVars, smStatics, closeVars
<1>14. CASE EncoderSpeedSleep
  <2>1. smoothQ'.in = smoothQ.in /\ smoothQ'.items = smoothQ.items
    <3> smoothQ \in Queue(Frames, Threads) /\ Encoder \in Threads
      BY TwoThreads DEF IInv, TypeOK
    <3> QED BY <1>14, SleepType DEF EncoderSpeedSleep
  <2> QED
    BY <1>14, <2>1 DEF EncoderSpeedSleep, EncoderAtSpeedControl, IInv, TypeOK,
        NoLostWakeup, Opened, Ticking, Empty, inVars, encVars, smVars,
        smStatics, closeVars
<1>15. CASE EncoderSpeedControl
  BY <1>15 DEF EncoderSpeedControl, EncoderAtSpeedControl, IInv, NoLostWakeup,
      Ticking, Empty, inVars, encVars, smVars, smStatics, closeVars
<1>16. CASE EncoderEncode
  <2>1. encQ'.in = encQ.in
    BY <1>16, RemoveFromQueueType DEF EncoderEncode, IInv, TypeOK, Held
  <2>2. Encoder \notin encQ.in BY <1>16 DEF EncoderEncode, IInv, NoLostWakeup
  <2> QED
    BY <1>16, <2>1, <2>2 DEF EncoderEncode, IInv, TypeOK, NoLostWakeup, Opened,
        Ticking, Empty, inVars, encVars, smVars, smStatics, closeVars
<1>17. CASE EncoderEncodeFails
  <2>1. encQ'.in = encQ.in
    BY <1>17, RemoveFromQueueType DEF EncoderEncodeFails, IInv, TypeOK, Held
  <2>2. Encoder \notin encQ.in
    BY <1>17 DEF EncoderEncodeFails, IInv, NoLostWakeup
  <2> QED
    BY <1>17, <2>1, <2>2 DEF EncoderEncodeFails, IInv, TypeOK, NoLostWakeup,
        Opened, Ticking, Empty, inVars, encVars, smVars, smStatics, closeVars
<1>18. CASE EncoderQueue
  <2>1. coded[1] \in Frames
    BY <1>18, NonEmpty DEF EncoderQueue, IInv, TypeOK, Held
  <2>2. smoothQ' = smoothQ \/ Smoother \notin smoothQ'.in
    <3>1. SUFFICES ASSUME smoothQ' \in AddToQueue(smoothQ, coded[1])
                   PROVE  smoothQ'.in = {}
      BY <1>18 DEF EncoderQueue
    <3>2. smoothQ'.in \in WakeOne(smoothQ.in)
      BY <3>1, <2>1, AddToQueueType DEF IInv, TypeOK
    <3> QED BY <3>2, WakeOneWakes DEF IInv, Opened
  <2>3. Encoder \notin encQ.in BY <1>18 DEF EncoderQueue, IInv, NoLostWakeup
  <2>4. UNCHANGED <<inVars, clockWait, encQ, ready, smVars, closeVars>>
    BY <1>18 DEF EncoderQueue
  <2> QED
    BY <2>2, <2>3, <2>4 DEF IInv, NoLostWakeup, Ticking, Empty, inVars,
        encVars, smVars, smStatics, closeVars
<1>19. CASE SmootherReadySleep
  <2>1. encQ'.in = encQ.in \cup {Smoother} /\ encQ'.items = encQ.items
    <3> encQ \in Queue(Frames, Threads) /\ Smoother \in Threads
      BY TwoThreads DEF IInv, TypeOK
    <3> QED BY <1>19, SleepType DEF SmootherReadySleep
  <2>2. Smoother # Encoder BY TwoThreads
  <2> QED
    BY <1>19, <2>1, <2>2 DEF SmootherReadySleep, IInv, TypeOK, NoLostWakeup,
        Opened, Ticking, Empty, inVars, encVars, smVars, smStatics, closeVars
<1>20. CASE SmootherReady
  BY <1>20 DEF SmootherReady, IInv, NoLostWakeup, Ticking, Empty, inVars,
      encVars, smVars, smStatics, closeVars
<1>21. CASE SmootherSleep
  <2>1. smoothQ'.in = smoothQ.in \cup {Smoother} /\ smoothQ'.items =
      smoothQ.items
    <3> smoothQ \in Queue(Frames, Threads) /\ Smoother \in Threads
      BY TwoThreads DEF IInv, TypeOK
    <3> QED BY <1>21, SleepType DEF SmootherSleep
  <2> QED
    BY <1>21, <2>1 DEF SmootherSleep, SmootherAwake, IInv, TypeOK,
        NoLostWakeup, Opened, Ticking, Empty, inVars, encVars, smVars,
        smStatics, closeVars
<1>22. CASE SmootherCancelled
  BY <1>22 DEF SmootherCancelled, SmootherAwake, IInv, NoLostWakeup, Ticking,
      Empty, inVars, encVars, smVars, smStatics, closeVars
<1>23. CASE SmootherBuffer
  BY <1>23 DEF SmootherBuffer, SmootherAwake, IInv, NoLostWakeup, Ticking,
      Empty, inVars, encVars, smVars, smStatics, closeVars
<1>24. CASE SmootherTake
  BY <1>24 DEF SmootherTake, SmootherAwake, IInv, NoLostWakeup, Ticking, Empty,
      inVars, encVars, smVars, smStatics, closeVars
<1>25. CASE SmootherClock
  BY <1>25 DEF SmootherClock, HeadDts, IInv, NoLostWakeup, Ticking, Empty,
      inVars, encVars, smVars, smStatics, closeVars
<1>26. CASE SmootherClockSleep
  BY <1>26 DEF SmootherClockSleep, SmootherInClockWait, IInv, NoLostWakeup,
      Ticking, Empty, inVars, encVars, smVars, smStatics, closeVars
<1>27. CASE SmootherTick
  BY <1>27 DEF SmootherTick, SmootherInClockWait, IInv, NoLostWakeup, Ticking,
      Empty, inVars, encVars, smVars, smStatics, closeVars
<1>28. CASE SmootherSend
  BY <1>28 DEF SmootherSend, HeadDts, IInv, NoLostWakeup, Ticking, Empty,
      inVars, encVars, smVars, smStatics, closeVars
<1>29. CASE SmootherRemove
  <2>1. smoothQ'.in = smoothQ.in
    BY <1>29, RemoveFromQueueType DEF SmootherRemove, IInv, TypeOK, Held
  <2> QED
    BY <1>29, <2>1 DEF SmootherRemove, IInv, TypeOK, NoLostWakeup, Opened,
        Ticking, Empty, inVars, encVars, smVars, smStatics, closeVars
<1>30. CASE SmootherExitTime
  BY <1>30 DEF SmootherExitTime, IInv, NoLostWakeup, Ticking, Empty, inVars,
      encVars, smVars, smStatics, closeVars
<1>31. CASE CloseInput
  BY <1>31 DEF CloseInput, IInv, NoLostWakeup, Ticking, Empty, inVars, encVars,
      smVars, smStatics, closeVars
<1>32. CASE CloseFilters
  BY <1>32 DEF CloseFilters, IInv, NoLostWakeup, Ticking, Empty, inVars,
      encVars, smVars, smStatics, closeVars
<1>33. CASE CancelEncoder
  <2>2. encQ'.in \in WakeOne(encQ.in) /\ encQ'.items = encQ.items
    BY <1>33, SignalInType DEF CancelEncoder, IInv, TypeOK
  <2>3. encQ'.in \subseteq encQ.in BY <2>2, WakeOneWakes
  <2>4. Encoder \notin encQ'.in
    <3>1. SUFFICES ASSUME Encoder \in encQ.in PROVE encQ'.in = {} BY <2>3
    <3>2. Smoother \notin encQ.in BY <3>1 DEF IInv, NoLostWakeup, Opened
    <3>3. encQ.in \subseteq {Encoder}
      BY <3>2, TwoThreads, QueueFields DEF IInv, TypeOK
    <3> QED BY <3>3, <2>2, WakeOneWakes
  <2> QED
    BY <1>33, <2>3, <2>4 DEF CancelEncoder, IInv, TypeOK, NoLostWakeup, Opened,
        Ticking, Empty, inVars, encVars, smVars, smStatics, closeVars
<1>34. CASE JoinEncoder
  BY <1>34 DEF JoinEncoder, IInv, NoLostWakeup, Ticking, Empty, inVars,
      encVars, smVars, smStatics, closeVars
<1>35. CASE CancelSmoother
  <2>1. smoothQ'.in \in WakeOne(smoothQ.in) /\ smoothQ'.items = smoothQ.items
    BY <1>35, SignalInType DEF CancelSmoother, IInv, TypeOK
  <2>2. smoothQ'.in = {} BY <2>1, WakeOneWakes DEF IInv, Opened
  <2> QED
    BY <1>35, <2>2 DEF CancelSmoother, IInv, TypeOK, NoLostWakeup, Opened,
        Ticking, Empty, inVars, encVars, smVars, smStatics, closeVars
<1>36. CASE BroadcastClock
  BY <1>36 DEF BroadcastClock, IInv, NoLostWakeup, Ticking, Empty, inVars,
      encVars, smVars, smStatics, closeVars
<1>37. CASE JoinSmoother
  BY <1>37 DEF JoinSmoother, IInv, NoLostWakeup, Ticking, Empty, inVars,
      encVars, smVars, smStatics, closeVars
<1>38. CASE Restart
  BY <1>38, EmptyQueueType DEF Restart, IInv, NoLostWakeup, Ticking, Empty,
      TypeOK, inVars, encVars, smVars, smStatics, closeVars
<1> QED
  BY <1>1, <1>2, <1>3, <1>4, <1>5, <1>6, <1>7, <1>8, <1>9, <1>10, <1>11, <1>12,
      <1>13, <1>14, <1>15, <1>16, <1>17, <1>18, <1>19, <1>20, <1>21, <1>22,
      <1>23, <1>24, <1>25, <1>26, <1>27, <1>28, <1>29, <1>30, <1>31, <1>32,
      <1>33, <1>34, <1>35, <1>36, <1>37, <1>38 DEF Next, EncoderStep,
      SmootherStep, CloseStep

(* Every step keeps the strengthening.                                     *)
LEMMA HeldStep ==
  ASSUME IInv, Next
  PROVE  (Held /\ Opened)'
<1>1. CASE \E gap \in 0..1 : InputTick(gap)
  BY <1>1, QueueFields DEF InputTick, IInv, Held, Opened, TypeOK, NoLostWakeup,
      inVars, encVars, smVars, smStatics, closeVars
<1>2. CASE InputTickOn
  BY <1>2 DEF InputTickOn, IInv, Held, Opened, inVars, encVars, smVars,
      smStatics, closeVars
<1>3. CASE InputBroadcast
  BY <1>3 DEF InputBroadcast, Ticking, IInv, Held, Opened, inVars, encVars,
      smVars, smStatics, closeVars
<1>4. CASE InputDrop
  BY <1>4 DEF InputDrop, IInv, Held, Opened, inVars, encVars, smVars,
      smStatics, closeVars
<1>5. CASE InputFrame
  BY <1>5 DEF InputFrame, IInv, Held, Opened, inVars, encVars, smVars,
      smStatics, closeVars
<1>6. CASE FilterForward
  <2>1. Head(filterQ) \in Frames
    BY <1>6, NonEmpty DEF FilterForward, IInv, TypeOK
  <2>2. encQ'.items = Append(encQ.items, Head(filterQ))
    BY <1>6, <2>1, AddToQueueType DEF FilterForward, IInv, TypeOK
  <2>3. encQ.items \in Seq(Frames) BY QueueFields DEF IInv, TypeOK
  <2>4. encQ'.items # <<>> BY <2>1, <2>2, <2>3
  <2> QED
    BY <1>6, <2>4 DEF FilterForward, IInv, TypeOK, NoLostWakeup, Held, Opened,
        inVars, encVars, smVars, smStatics, closeVars
<1>7. CASE MuxFree
  BY <1>7 DEF MuxFree, IInv, Held, Opened, inVars, encVars, smVars, smStatics,
      closeVars
<1>8. CASE EncoderOpen
  BY <1>8 DEF EncoderOpen, IInv, Held, Opened, inVars, encVars, smVars,
      smStatics, closeVars
<1>9. CASE EncoderOpenFails
  BY <1>9 DEF EncoderOpenFails, IInv, Held, Opened, inVars, encVars, smVars,
      smStatics, closeVars
<1>10. CASE EncoderSleep
  BY <1>10 DEF EncoderSleep, EncoderAwake, Empty, IInv, Held, Opened, inVars,
      encVars, smVars, smStatics, closeVars
<1>11. CASE EncoderCancelled
  BY <1>11 DEF EncoderCancelled, EncoderAwake, IInv, Held, Opened, inVars,
      encVars, smVars, smStatics, closeVars
<1>12. CASE EncoderAborts
  BY <1>12 DEF EncoderAborts, EncoderAwake, IInv, Held, Opened, inVars,
      encVars, smVars, smStatics, closeVars
<1>13. CASE EncoderTake
  BY <1>13, QueueFields DEF EncoderTake, EncoderAwake, IInv, Held, Opened,
      TypeOK, NoLostWakeup, inVars, encVars, smVars, smStatics, closeVars
<1>14. CASE EncoderSpeedSleep
  <2>1. smoothQ'.in = smoothQ.in /\ smoothQ'.items = smoothQ.items
    <3> smoothQ \in Queue(Frames, Threads) /\ Encoder \in Threads
      BY TwoThreads DEF IInv, TypeOK
    <3> QED BY <1>14, SleepType DEF EncoderSpeedSleep
  <2> QED
    BY <1>14, <2>1 DEF EncoderSpeedSleep, EncoderAtSpeedControl, IInv, TypeOK,
        NoLostWakeup, Held, Opened, inVars, encVars, smVars, smStatics,
        closeVars
<1>15. CASE EncoderSpeedControl
  BY <1>15 DEF EncoderSpeedControl, EncoderAtSpeedControl, IInv, Held, Opened,
      inVars, encVars, smVars, smStatics, closeVars
<1>16. CASE EncoderEncode
  <2>1. encPc' \in {"wait", "queue"} BY <1>16 DEF EncoderEncode
  <2>2. encPc' = "queue" => coded' # <<>>
    <3>1. \A x : <<x>> # <<>> OBVIOUS
    <3> QED BY <1>16, <3>1 DEF EncoderEncode
  <2>3. ready BY <1>16 DEF EncoderEncode, IInv, Opened
  <2>4. UNCHANGED <<inVars, clockWait, ready, aborted, smVars, smoothQ,
                   bufferComplete, muxed, freed, closeVars>> BY <1>16 DEF
                       EncoderEncode
  <2> QED
    BY <2>1, <2>2, <2>3, <2>4 DEF IInv, Held, Opened, inVars, encVars, smVars,
        smStatics, closeVars
<1>17. CASE EncoderEncodeFails
  BY <1>17 DEF EncoderEncodeFails, IInv, Held, Opened, inVars, encVars, smVars,
      smStatics, closeVars
<1>18. CASE EncoderQueue
  <2>1. coded[1] \in Frames
    BY <1>18, NonEmpty DEF EncoderQueue, IInv, TypeOK, Held
  <2>2. smoothQ' \in AddToQueue(smoothQ, coded[1]) \/ smoothQ' = smoothQ
    BY <1>18 DEF EncoderQueue
  <2>3. smoothQ'.in \subseteq smoothQ.in /\ smoothQ'.items \in {smoothQ.items,
      Append(smoothQ.items, coded[1])}
     BY SMTT(20), <2>1, <2>2, AddToQueueType, WakeOneWakes DEF IInv, TypeOK
  <2>0. smoothQ.items \in Seq(Frames) /\ muxed \in Seq(Frames)
    BY QueueFields DEF IInv, TypeOK
  <2>4. Append(smoothQ.items, coded[1]) # <<>> /\ Append(muxed, coded[1]) # <<>>
    BY <2>1, <2>0
  <2>5. muxed' \in {muxed, Append(muxed, coded[1])} BY <1>18 DEF EncoderQueue
  <2>6. smoothQ.items # <<>> => smoothQ'.items # <<>> BY <2>3, <2>4
  <2>7. muxed # <<>> => muxed' # <<>> BY <2>5, <2>4
  <2> QED
    BY <1>18, <2>3, <2>6, <2>7 DEF EncoderQueue, IInv, TypeOK, NoLostWakeup,
        Held, Opened, inVars, encVars, smVars, smStatics, closeVars
<1>19. CASE SmootherReadySleep
  BY <1>19 DEF SmootherReadySleep, IInv, Held, Opened, inVars, encVars, smVars,
      smStatics, closeVars
<1>20. CASE SmootherReady
  BY <1>20 DEF SmootherReady, IInv, Held, Opened, inVars, encVars, smVars,
      smStatics, closeVars
<1>21. CASE SmootherSleep
  <2>1. smoothQ'.in = smoothQ.in \cup {Smoother} /\ smoothQ'.items =
      smoothQ.items
    <3> smoothQ \in Queue(Frames, Threads) /\ Smoother \in Threads
      BY TwoThreads DEF IInv, TypeOK
    <3> QED BY <1>21, SleepType DEF SmootherSleep
  <2> QED
    BY <1>21, <2>1 DEF SmootherSleep, SmootherAwake, IInv, TypeOK,
        NoLostWakeup, Held, Opened, inVars, encVars, smVars, smStatics,
        closeVars
<1>22. CASE SmootherCancelled
  BY <1>22 DEF SmootherCancelled, SmootherAwake, IInv, Held, Opened, inVars,
      encVars, smVars, smStatics, closeVars
<1>23. CASE SmootherBuffer
  BY <1>23 DEF SmootherBuffer, SmootherAwake, IInv, Held, Opened, inVars,
      encVars, smVars, smStatics, closeVars
<1>24. CASE SmootherTake
  <2>0. smoothQ.items \in Seq(Frames) BY QueueFields DEF IInv, TypeOK
  <2>1. smoothQ.items # <<>>
    <3>1. CASE bufferComplete
      BY <1>24, <3>1, <2>0 DEF SmootherTake, SmootherAwake, IInv, Held
    <3>2. CASE Len(smoothQ.items) >= BufferFrames
      BY <3>2, EncodeAssumption, <2>0
    <3> QED BY <1>24, <3>1, <3>2 DEF SmootherTake
  <2> QED
    BY <1>24, <2>1 DEF SmootherTake, SmootherAwake, IInv, TypeOK, NoLostWakeup,
        Held, Opened, inVars, encVars, smVars, smStatics, closeVars
<1>25. CASE SmootherClock
  BY <1>25 DEF SmootherClock, HeadDts, IInv, Held, Opened, inVars, encVars,
      smVars, smStatics, closeVars
<1>26. CASE SmootherClockSleep
  BY <1>26 DEF SmootherClockSleep, SmootherInClockWait, IInv, Held, Opened,
      inVars, encVars, smVars, smStatics, closeVars
<1>27. CASE SmootherTick
  BY <1>27 DEF SmootherTick, SmootherInClockWait, IInv, Held, Opened, inVars,
      encVars, smVars, smStatics, closeVars
<1>28. CASE SmootherSend
  <2>1. HeadDts \in Frames
    BY <1>28, QueueFields, NonEmpty DEF SmootherSend, HeadDts, IInv, TypeOK,
        Held
  <2>2. muxed' # <<>> BY <1>28, <2>1 DEF SmootherSend, IInv, TypeOK
  <2> QED
    BY <1>28, <2>2 DEF SmootherSend, IInv, Held, Opened, inVars, encVars,
        smVars, smStatics, closeVars
<1>29. CASE SmootherRemove
  BY SMTT(20), <1>29, RemoveFromQueueType, QueueFields DEF SmootherRemove, IInv, Held,
      Opened, TypeOK, NoLostWakeup, inVars, encVars, smVars, smStatics,
      closeVars
<1>30. CASE SmootherExitTime
  BY <1>30 DEF SmootherExitTime, IInv, Held, Opened, inVars, encVars, smVars,
      smStatics, closeVars
<1>31. CASE CloseInput
  BY <1>31 DEF CloseInput, IInv, Held, Opened, inVars, encVars, smVars,
      smStatics, closeVars
<1>32. CASE CloseFilters
  BY <1>32 DEF CloseFilters, IInv, Held, Opened, inVars, encVars, smVars,
      smStatics, closeVars
<1>33. CASE CancelEncoder
  BY <1>33, SignalInType DEF CancelEncoder, IInv, Held, Opened, TypeOK, inVars,
      encVars, smVars, smStatics, closeVars
<1>34. CASE JoinEncoder
  BY <1>34 DEF JoinEncoder, IInv, Held, Opened, inVars, encVars, smVars,
      smStatics, closeVars
<1>35. CASE CancelSmoother
  <2>1. smoothQ'.in \subseteq smoothQ.in /\ smoothQ'.items = smoothQ.items
    BY <1>35, SignalInType, WakeOneWakes DEF CancelSmoother, IInv, TypeOK
  <2> QED
    BY <1>35, <2>1 DEF CancelSmoother, IInv, TypeOK, NoLostWakeup, Held,
        Opened, inVars, encVars, smVars, smStatics, closeVars
<1>36. CASE BroadcastClock
  BY <1>36 DEF BroadcastClock, IInv, Held, Opened, inVars, encVars, smVars,
      smStatics, closeVars
<1>37. CASE JoinSmoother
  BY <1>37 DEF JoinSmoother, IInv, Held, Opened, inVars, encVars, smVars,
      smStatics, closeVars
<1>38. CASE Restart
  BY <1>38, EmptyQueueType DEF Restart, IInv, Held, Opened, TypeOK, inVars,
      encVars, smVars, smStatics, closeVars
<1> QED
  BY <1>1, <1>2, <1>3, <1>4, <1>5, <1>6, <1>7, <1>8, <1>9, <1>10, <1>11, <1>12,
      <1>13, <1>14, <1>15, <1>16, <1>17, <1>18, <1>19, <1>20, <1>21, <1>22,
      <1>23, <1>24, <1>25, <1>26, <1>27, <1>28, <1>29, <1>30, <1>31, <1>32,
      <1>33, <1>34, <1>35, <1>36, <1>37, <1>38 DEF Next, EncoderStep,
      SmootherStep, CloseStep

(* Every step keeps what is known of the fill of the smoothing buffer.     *)
LEMMA FillStep ==
  ASSUME IInv, Next
  PROVE  Fill'
<1>1. CASE \E gap \in 0..1 : InputTick(gap)
  BY <1>1 DEF InputTick, IInv, Fill, inVars, encVars, smVars, smStatics,
      closeVars
<1>2. CASE InputTickOn
  BY <1>2 DEF InputTickOn, IInv, Fill, inVars, encVars, smVars, smStatics,
      closeVars
<1>3. CASE InputBroadcast
  BY <1>3 DEF InputBroadcast, Ticking, IInv, Fill, inVars, encVars, smVars,
      smStatics, closeVars
<1>4. CASE InputDrop
  BY <1>4 DEF InputDrop, IInv, Fill, inVars, encVars, smVars, smStatics,
      closeVars
<1>5. CASE InputFrame
  BY <1>5 DEF InputFrame, IInv, Fill, inVars, encVars, smVars, smStatics,
      closeVars
<1>6. CASE FilterForward
  BY <1>6 DEF FilterForward, IInv, Fill, inVars, encVars, smVars, smStatics,
      closeVars
<1>7. CASE MuxFree
  BY <1>7 DEF MuxFree, IInv, Fill, inVars, encVars, smVars, smStatics,
      closeVars
<1>8. CASE EncoderOpen
  BY <1>8 DEF EncoderOpen, IInv, Fill, inVars, encVars, smVars, smStatics,
      closeVars
<1>9. CASE EncoderOpenFails
  BY <1>9 DEF EncoderOpenFails, IInv, Fill, inVars, encVars, smVars, smStatics,
      closeVars
<1>10. CASE EncoderSleep
  BY <1>10 DEF EncoderSleep, EncoderAwake, Empty, IInv, Fill, inVars, encVars,
      smVars, smStatics, closeVars
<1>11. CASE EncoderCancelled
  BY <1>11 DEF EncoderCancelled, EncoderAwake, IInv, Fill, inVars, encVars,
      smVars, smStatics, closeVars
<1>12. CASE EncoderAborts
  BY <1>12 DEF EncoderAborts, EncoderAwake, IInv, Fill, inVars, encVars,
      smVars, smStatics, closeVars
<1>13. CASE EncoderTake
  BY <1>13 DEF EncoderTake, EncoderAwake, IInv, Fill, inVars, encVars, smVars,
      smStatics, closeVars
<1>14. CASE EncoderSpeedSleep
  <2>1. smoothQ'.in = smoothQ.in /\ smoothQ'.items = smoothQ.items /\
      smoothQ'.out = smoothQ.out \cup {Encoder}
    <3> smoothQ \in Queue(Frames, Threads) /\ Encoder \in Threads
      BY TwoThreads DEF IInv, TypeOK
    <3> QED BY <1>14, SleepType DEF EncoderSpeedSleep
  <2>2. BufferFrames > 1 => smoothQ.items # <<>>
    <3>1. Len(smoothQ.items) >= BufferFrames - 1
      BY <1>14, EncodeAssumption, QueueFields DEF EncoderSpeedSleep, IInv,
          TypeOK, Fill
    <3> QED BY <3>1, EncodeAssumption
  <2> QED
    BY <1>14, <2>1, <2>2 DEF EncoderSpeedSleep, EncoderAtSpeedControl, IInv,
        Fill, inVars, encVars, smVars, smStatics, closeVars
<1>15. CASE EncoderSpeedControl
  BY <1>15 DEF EncoderSpeedControl, EncoderAtSpeedControl, IInv, Fill, inVars,
      encVars, smVars, smStatics, closeVars
<1>16. CASE EncoderEncode
  BY <1>16 DEF EncoderEncode, IInv, Fill, inVars, encVars, smVars, smStatics,
      closeVars
<1>17. CASE EncoderEncodeFails
  BY <1>17 DEF EncoderEncodeFails, IInv, Fill, inVars, encVars, smVars,
      smStatics, closeVars
<1>18. CASE EncoderQueue
  <2>1. coded[1] \in Frames
    BY <1>18, NonEmpty DEF EncoderQueue, IInv, TypeOK, Held
  <2>2. smoothQ' \in AddToQueue(smoothQ, coded[1]) \/ smoothQ' = smoothQ
    BY <1>18 DEF EncoderQueue
  <2>3. smoothQ'.out = smoothQ.out /\ smoothQ'.items \in {smoothQ.items,
      Append(smoothQ.items, coded[1])}
     BY <2>1, <2>2, AddToQueueType DEF IInv, TypeOK
  <2>4. smoothQ.items \in Seq(Frames) BY QueueFields DEF IInv, TypeOK
  <2>5. Len(smoothQ'.items) >= Len(smoothQ.items) BY <2>1, <2>3, <2>4
  <2>6. Encoder \notin smoothQ.out BY <1>18 DEF EncoderQueue, IInv, Fill
  <2>7. Len(smoothQ.items) \in Nat /\ Len(smoothQ'.items) \in Nat
    BY <2>1, <2>3, <2>4
  <2>8. UNCHANGED <<lastExit, smPc, bufferComplete>>
    BY <1>18 DEF EncoderQueue, smVars
  <2> QED BY <2>3, <2>5, <2>6, <2>7, <2>8, EncodeAssumption DEF IInv, Fill
<1>19. CASE SmootherReadySleep
  BY <1>19 DEF SmootherReadySleep, IInv, Fill, inVars, encVars, smVars,
      smStatics, closeVars
<1>20. CASE SmootherReady
  BY <1>20 DEF SmootherReady, IInv, Fill, inVars, encVars, smVars, smStatics,
      closeVars
<1>21. CASE SmootherSleep
  <2>1. smoothQ'.out = smoothQ.out /\ smoothQ'.items = smoothQ.items
    <3> smoothQ \in Queue(Frames, Threads) /\ Smoother \in Threads
      BY TwoThreads DEF IInv, TypeOK
    <3> QED BY <1>21, SleepType DEF SmootherSleep
  <2> QED
    BY <1>21, <2>1 DEF SmootherSleep, SmootherAwake, IInv, Fill, inVars,
        encVars, smVars, smStatics, closeVars
<1>22. CASE SmootherCancelled
  BY <1>22 DEF SmootherCancelled, SmootherAwake, IInv, Fill, inVars, encVars,
      smVars, smStatics, closeVars
<1>23. CASE SmootherBuffer
  BY <1>23 DEF SmootherBuffer, SmootherAwake, IInv, Fill, inVars, encVars,
      smVars, smStatics, closeVars
<1>24. CASE SmootherTake
  <2>1. lastExit = 0 => Len(smoothQ.items) >= BufferFrames
    BY <1>24 DEF SmootherTake, SmootherAwake, IInv, Fill
  <2> QED
    BY <1>24, <2>1 DEF SmootherTake, SmootherAwake, IInv, Fill, inVars,
        encVars, smVars, smStatics, closeVars
<1>25. CASE SmootherClock
  <2>1. smPc' \in {"send", "anchor", "pace"} BY <1>25 DEF SmootherClock
  <2>2. UNCHANGED <<lastExit, smoothQ, bufferComplete, encPc>>
    BY <1>25 DEF SmootherClock, encVars
  <2>3. smPc = "clock" BY <1>25 DEF SmootherClock
  <2> QED BY <2>1, <2>2, <2>3 DEF IInv, Fill
<1>26. CASE SmootherClockSleep
  BY <1>26 DEF SmootherClockSleep, SmootherInClockWait, IInv, Fill, inVars,
      encVars, smVars, smStatics, closeVars
<1>27. CASE SmootherTick
  BY <1>27 DEF SmootherTick, SmootherInClockWait, IInv, Fill, inVars, encVars,
      smVars, smStatics, closeVars
<1>28. CASE SmootherSend
  BY <1>28 DEF SmootherSend, HeadDts, IInv, Fill, inVars, encVars, smVars,
      smStatics, closeVars
<1>29. CASE SmootherRemove
  <2>1. smoothQ' \in RemoveFromQueue(smoothQ) /\ smoothQ.items # <<>>
    BY <1>29 DEF SmootherRemove, IInv, Held
  <2>2. smoothQ'.items = Tail(smoothQ.items) /\ smoothQ'.out \in
      WakeOne(smoothQ.out)
    BY <2>1, RemoveFromQueueType DEF IInv, TypeOK
  <2>3. smoothQ'.out = {} BY <2>2, WakeOneWakes DEF IInv, Fill
  <2>4. smoothQ.items \in Seq(Frames) BY QueueFields DEF IInv, TypeOK
  <2>5. /\ Len(smoothQ'.items) = Len(smoothQ.items) - 1
        /\ Len(smoothQ.items) \in Nat
    BY <2>1, <2>2, <2>4
  <2> QED
    BY <1>29, <2>3, <2>5, EncodeAssumption DEF SmootherRemove, IInv, Fill,
        inVars, encVars, smVars, smStatics, closeVars
<1>30. CASE SmootherExitTime
  <2>1. Last(muxed) \in Frames
    BY <1>30, NonEmpty DEF SmootherExitTime, IInv, TypeOK, Held
  <2>2. lastExit' # 0 BY <1>30, <2>1 DEF SmootherExitTime, Frames
  <2> QED
    BY <1>30, <2>2 DEF SmootherExitTime, IInv, Fill, inVars, encVars, smVars,
        smStatics, closeVars
<1>31. CASE CloseInput
  BY <1>31 DEF CloseInput, IInv, Fill, inVars, encVars, smVars, smStatics,
      closeVars
<1>32. CASE CloseFilters
  BY <1>32 DEF CloseFilters, IInv, Fill, inVars, encVars, smVars, smStatics,
      closeVars
<1>33. CASE CancelEncoder
  BY <1>33 DEF CancelEncoder, IInv, Fill, inVars, encVars, smVars, smStatics,
      closeVars
<1>34. CASE JoinEncoder
  BY <1>34 DEF JoinEncoder, IInv, Fill, inVars, encVars, smVars, smStatics,
      closeVars
<1>35. CASE CancelSmoother
  <2>1. smoothQ'.out = smoothQ.out /\ smoothQ'.items = smoothQ.items
    BY <1>35, SignalInType DEF CancelSmoother, IInv, TypeOK
  <2> QED
    BY <1>35, <2>1 DEF CancelSmoother, IInv, Fill, inVars, encVars, smVars,
        smStatics, closeVars
<1>36. CASE BroadcastClock
  BY <1>36 DEF BroadcastClock, IInv, Fill, inVars, encVars, smVars, smStatics,
      closeVars
<1>37. CASE JoinSmoother
  BY <1>37 DEF JoinSmoother, IInv, Fill, inVars, encVars, smVars, smStatics,
      closeVars
<1>38. CASE Restart
  <2>1. smoothQ'.out = {} BY <1>38, EmptyQueueType DEF Restart
  <2>2. smPc' \in {"ready", "none"} /\ ~bufferComplete' BY <1>38 DEF Restart
  <2> QED BY <2>1, <2>2 DEF Fill
<1> QED
  BY <1>1, <1>2, <1>3, <1>4, <1>5, <1>6, <1>7, <1>8, <1>9, <1>10, <1>11, <1>12,
      <1>13, <1>14, <1>15, <1>16, <1>17, <1>18, <1>19, <1>20, <1>21, <1>22,
      <1>23, <1>24, <1>25, <1>26, <1>27, <1>28, <1>29, <1>30, <1>31, <1>32,
      <1>33, <1>34, <1>35, <1>36, <1>37, <1>38 DEF Next, EncoderStep,
      SmootherStep, CloseStep
-----------------------------------------------------------------------------
LEMMA InitIInv ==
  Init => IInv
<1> SUFFICES ASSUME Init PROVE IInv
  OBVIOUS
<1>1. <<>> \in Seq(Frames)
  OBVIOUS
<1>2. TypeOK
  <2>1. clock \in 0..MaxPts /\ lastExit \in 0..MaxPts
    BY EncodeAssumption DEF Init
  <2>2. /\ startDts \in -1..MaxPts /\ startPts \in -1..MaxPts
        /\ lastClock \in -1..MaxPts
    BY EncodeAssumption DEF Init
  <2>3. smPc \in {"ready", "none"}
    BY DEF Init
  <2>4. encQ \in Queue(Frames, Threads) /\ smoothQ \in Queue(Frames, Threads)
    BY EmptyQueueType DEF Init
  <2> QED
    BY <1>1, <2>1, <2>2, <2>3, <2>4 DEF Init, TypeOK
<1>3. NoLostWakeup
  BY EmptyQueueType DEF Init, NoLostWakeup
<1>4. Held /\ Opened /\ Fill
  BY EmptyQueueType DEF Init, Held, Opened, Fill
<1> QED
  BY <1>2, <1>3, <1>4 DEF IInv

LEMMA StepIInv ==
  IInv /\ [Next]_vars => IInv'
<1> SUFFICES ASSUME IInv, [Next]_vars PROVE IInv'
  OBVIOUS
<1>1. CASE Next
  BY <1>1, TypeStep, WakeupStep, HeldStep, FillStep DEF IInv
<1>2. CASE UNCHANGED vars
  BY <1>2 DEF vars, inVars, encVars, smVars, smStatics, closeVars, IInv, TypeOK,
    NoLostWakeup, Held, Opened, Fill, Ticking, Empty
<1> QED
  BY <1>1, <1>2

LEMMA Invariant ==
  Spec => []IInv
  BY InitIInv, StepIInv, PTL DEF Spec

(* Every variable of the video path keeps its type.                        *)
THEOREM TypeCorrect ==
  Spec => []TypeOK
<1>1. IInv => TypeOK
  BY DEF IInv
<1> QED
  BY <1>1, Invariant, PTL

(* No thread of the video path (x264.c, encoder_smoothing.c) sleeps on a   *)
(* condition that has come true, for any buffer size, any delay of the     *)
(* encoder and any number of restarts.                                     *)
THEOREM NoWakeupIsLost ==
  Spec => []NoLostWakeup
<1>1. IInv => NoLostWakeup
  BY DEF IInv
<1> QED
  BY <1>1, Invariant, PTL

(* The encoder that waits for the first frame to leave the buffer, and the *)
(* smoothing thread that waits for more frames, never wait for each other, *)
(* whenever the signal comes, if the buffer holds two frames.              *)
THEOREM NobodyStranded ==
  Spec => []EncoderNotStranded
<1>1. ASSUME IInv PROVE EncoderNotStranded
  <2> SUFFICES ASSUME BufferFrames > 1, Encoder \in smoothQ.out,
                      Smoother \in smoothQ.in
               PROVE  FALSE
    BY DEF EncoderNotStranded
  <2>1. bufferComplete /\ smoothQ.items # <<>>
    BY <1>1 DEF IInv, Fill
  <2>2. smPc = "wait" /\ Len(smoothQ.items) = num
    BY <1>1 DEF IInv, NoLostWakeup
  <2>3. num = 0
    BY <1>1, <2>1, <2>2 DEF IInv, Held
  <2>4. smoothQ.items \in Seq(Frames)
    BY <1>1, QueueFields DEF IInv, TypeOK
  <2> QED
    BY <2>1, <2>2, <2>3, <2>4
<1> QED
  BY <1>1, Invariant, PTL
-----------------------------------------------------------------------------
(* What is between the capture and the muxer's queue, in order.            *)
Flow ==
  /\ encPc # "done" => EncodedPath \o encQ.items \o filterQ = captured
  /\ IsPrefix(EncodedPath, captured)

Coding ==
  /\ encPc # "queue" => coded = <<>>
  /\ encPc = "queue" => coded = <<coded[1]>>

Bypass == ~Generic => smPc = "none" /\ smoothQ.items = <<>>

(* The clock only advances, and a frame has the time of its tick.          *)
Fresh ==
  /\ \A i, j \in 1..Len(captured) : i < j => captured[i] < captured[j]
  /\ \A i \in 1..Len(captured) :
       /\ captured[i] <= clock
       /\ inPc \in {"tick", "late", "lost", "frame"} => captured[i] < clock

Freeing == freed <= Len(muxed)

OrderInv == IInv /\ Flow /\ Coding /\ Bypass /\ Fresh /\ Freeing
-----------------------------------------------------------------------------
Timing == {"tick", "late", "lost", "frame"}

(* A step that moves no frame.                                             *)
NoFrameMoves ==
  /\ UNCHANGED <<muxed, filterQ, captured, inside, coded>>
  /\ encQ'.items = encQ.items /\ smoothQ'.items = smoothQ.items
  /\ smPc' = "remove" <=> smPc = "remove"
  /\ encPc' = "queue" <=> encPc = "queue"
  /\ encPc = "done" => encPc' = "done"
  /\ smPc = "none" => smPc' = "none"

(* A step that neither moves the clock nor captures a frame.               *)
NoTick ==
  /\ UNCHANGED <<clock, captured>>
  /\ inPc' \in Timing => inPc \in Timing

(* Who moves a frame.                                                      *)
LEMMA WhoMoves ==
  ASSUME IInv, Next
  PROVE  \/ InputFrame \/ FilterForward \/ EncoderEncode \/ EncoderEncodeFails
         \/ EncoderQueue \/ SmootherSend \/ SmootherRemove \/ Restart
         \/ NoFrameMoves
<1>1. CASE \E gap \in 0..1 : InputTick(gap)
  BY <1>1 DEF
      InputTick, IInv, NoFrameMoves, inVars, encVars, smVars,
      smStatics, closeVars
<1>2. CASE InputTickOn
  BY <1>2 DEF
      InputTickOn, IInv, NoFrameMoves, inVars, encVars, smVars,
      smStatics, closeVars
<1>3. CASE InputBroadcast
  BY <1>3 DEF
      InputBroadcast, Ticking, IInv, NoFrameMoves, inVars, encVars,
      smVars, smStatics, closeVars
<1>4. CASE InputDrop
  BY <1>4 DEF
      InputDrop, IInv, NoFrameMoves, inVars, encVars, smVars,
      smStatics, closeVars
<1>5. CASE InputFrame
  BY <1>5
<1>6. CASE FilterForward
  BY <1>6
<1>7. CASE MuxFree
  BY <1>7 DEF
      MuxFree, IInv, NoFrameMoves, inVars, encVars, smVars, smStatics,
      closeVars
<1>8. CASE EncoderOpen
  BY <1>8, BroadcastInType DEF
      EncoderOpen, TypeOK, IInv, NoFrameMoves, inVars, encVars,
      smVars, smStatics, closeVars
<1>9. CASE EncoderOpenFails
  BY <1>9 DEF
      EncoderOpenFails, IInv, NoFrameMoves, inVars, encVars, smVars,
      smStatics, closeVars
<1>10. CASE EncoderSleep
  BY <1>10 DEF
      EncoderSleep, SleepIn, EncoderAwake, TypeOK, Queue, IInv,
      NoFrameMoves, inVars, encVars, smVars, smStatics, closeVars
<1>11. CASE EncoderCancelled
  BY <1>11 DEF
      EncoderCancelled, EncoderAwake, IInv, NoFrameMoves, inVars,
      encVars, smVars, smStatics, closeVars
<1>12. CASE EncoderAborts
  BY <1>12 DEF
      EncoderAborts, EncoderAwake, IInv, NoFrameMoves, inVars,
      encVars, smVars, smStatics, closeVars
<1>13. CASE EncoderTake
  BY <1>13 DEF
      EncoderTake, EncoderAwake, IInv, NoFrameMoves, inVars, encVars,
      smVars, smStatics, closeVars
<1>14. CASE EncoderSpeedSleep
  BY <1>14 DEF
      EncoderSpeedSleep, EncoderAtSpeedControl, SleepOut, TypeOK,
      Queue, IInv, NoFrameMoves, inVars, encVars, smVars, smStatics,
      closeVars
<1>15. CASE EncoderSpeedControl
  BY <1>15 DEF
      EncoderSpeedControl, EncoderAtSpeedControl, IInv, NoFrameMoves,
      inVars, encVars, smVars, smStatics, closeVars
<1>16. CASE EncoderEncode
  BY <1>16
<1>17. CASE EncoderEncodeFails
  BY <1>17
<1>18. CASE EncoderQueue
  BY <1>18
<1>19. CASE SmootherReadySleep
  BY <1>19 DEF
      SmootherReadySleep, SleepIn, TypeOK, Queue, IInv, NoFrameMoves,
      inVars, encVars, smVars, smStatics, closeVars
<1>20. CASE SmootherReady
  BY <1>20 DEF
      SmootherReady, IInv, NoFrameMoves, inVars, encVars, smVars,
      smStatics, closeVars
<1>21. CASE SmootherSleep
  BY <1>21 DEF
      SmootherSleep, SmootherAwake, SleepIn, TypeOK, Queue, IInv,
      NoFrameMoves, inVars, encVars, smVars, smStatics, closeVars
<1>22. CASE SmootherCancelled
  BY <1>22 DEF
      SmootherCancelled, SmootherAwake, IInv, NoFrameMoves, inVars,
      encVars, smVars, smStatics, closeVars
<1>23. CASE SmootherBuffer
  BY <1>23 DEF
      SmootherBuffer, SmootherAwake, IInv, NoFrameMoves, inVars,
      encVars, smVars, smStatics, closeVars
<1>24. CASE SmootherTake
  BY <1>24 DEF
      SmootherTake, SmootherAwake, IInv, NoFrameMoves, inVars,
      encVars, smVars, smStatics, closeVars
<1>25. CASE SmootherClock
  BY <1>25 DEF
      SmootherClock, IInv, NoFrameMoves, inVars, encVars, smVars,
      smStatics, closeVars
<1>26. CASE SmootherClockSleep
  BY <1>26 DEF
      SmootherClockSleep, SmootherInClockWait, IInv, NoFrameMoves,
      inVars, encVars, smVars, smStatics, closeVars
<1>27. CASE SmootherTick
  BY <1>27 DEF
      SmootherTick, SmootherInClockWait, IInv, NoFrameMoves, inVars,
      encVars, smVars, smStatics, closeVars
<1>28. CASE SmootherSend
  BY <1>28
<1>29. CASE SmootherRemove
  BY <1>29
<1>30. CASE SmootherExitTime
  BY <1>30 DEF
      SmootherExitTime, IInv, NoFrameMoves, inVars, encVars, smVars,
      smStatics, closeVars
<1>31. CASE CloseInput
  BY <1>31 DEF
      CloseInput, IInv, NoFrameMoves, inVars, encVars, smVars,
      smStatics, closeVars
<1>32. CASE CloseFilters
  BY <1>32 DEF
      CloseFilters, IInv, NoFrameMoves, inVars, encVars, smVars,
      smStatics, closeVars
<1>33. CASE CancelEncoder
  BY <1>33, SignalInType DEF
      CancelEncoder, TypeOK, IInv, NoFrameMoves, inVars, encVars,
      smVars, smStatics, closeVars
<1>34. CASE JoinEncoder
  BY <1>34 DEF
      JoinEncoder, IInv, NoFrameMoves, inVars, encVars, smVars,
      smStatics, closeVars
<1>35. CASE CancelSmoother
  BY <1>35, SignalInType DEF
      CancelSmoother, TypeOK, IInv, NoFrameMoves, inVars, encVars,
      smVars, smStatics, closeVars
<1>36. CASE BroadcastClock
  BY <1>36 DEF
      BroadcastClock, IInv, NoFrameMoves, inVars, encVars, smVars,
      smStatics, closeVars
<1>37. CASE JoinSmoother
  BY <1>37 DEF
      JoinSmoother, IInv, NoFrameMoves, inVars, encVars, smVars,
      smStatics, closeVars
<1>38. CASE Restart
  BY <1>38
<1> QED
  BY <1>1, <1>2, <1>3, <1>4, <1>5, <1>6, <1>7, <1>8, <1>9, <1>10, <1>11,
      <1>12, <1>13, <1>14, <1>15, <1>16, <1>17, <1>18, <1>19, <1>20,
      <1>21, <1>22, <1>23, <1>24, <1>25, <1>26, <1>27, <1>28, <1>29,
      <1>30, <1>31, <1>32, <1>33, <1>34, <1>35, <1>36, <1>37, <1>38
      DEF Next, EncoderStep, SmootherStep, CloseStep

(* Who tells the time, and who captures.                                   *)
LEMMA WhoTicks ==
  ASSUME IInv, Next
  PROVE  \/ \E gap \in 0..1 : InputTick(gap)
         \/ InputFrame \/ Restart \/ NoTick
<1>1. CASE \E gap \in 0..1 : InputTick(gap)
  BY <1>1
<1>2. CASE InputTickOn
  BY <1>2 DEF
      InputTickOn, NoTick, Timing, inVars, closeVars
<1>3. CASE InputBroadcast
  BY <1>3 DEF
      InputBroadcast, Ticking, NoTick, Timing, inVars, closeVars
<1>4. CASE InputDrop
  BY <1>4 DEF
      InputDrop, NoTick, Timing, inVars, closeVars
<1>5. CASE InputFrame
  BY <1>5
<1>6. CASE FilterForward
  BY <1>6 DEF
      FilterForward, NoTick, Timing, inVars, closeVars
<1>7. CASE MuxFree
  BY <1>7 DEF
      MuxFree, NoTick, Timing, inVars, closeVars
<1>8. CASE EncoderOpen
  BY <1>8 DEF
      EncoderOpen, NoTick, Timing, inVars, closeVars
<1>9. CASE EncoderOpenFails
  BY <1>9 DEF
      EncoderOpenFails, NoTick, Timing, inVars, closeVars
<1>10. CASE EncoderSleep
  BY <1>10 DEF
      EncoderSleep, NoTick, Timing, inVars, closeVars
<1>11. CASE EncoderCancelled
  BY <1>11 DEF
      EncoderCancelled, NoTick, Timing, inVars, closeVars
<1>12. CASE EncoderAborts
  BY <1>12 DEF
      EncoderAborts, NoTick, Timing, inVars, closeVars
<1>13. CASE EncoderTake
  BY <1>13 DEF
      EncoderTake, NoTick, Timing, inVars, closeVars
<1>14. CASE EncoderSpeedSleep
  BY <1>14 DEF
      EncoderSpeedSleep, NoTick, Timing, inVars, closeVars
<1>15. CASE EncoderSpeedControl
  BY <1>15 DEF
      EncoderSpeedControl, NoTick, Timing, inVars, closeVars
<1>16. CASE EncoderEncode
  BY <1>16 DEF
      EncoderEncode, NoTick, Timing, inVars, closeVars
<1>17. CASE EncoderEncodeFails
  BY <1>17 DEF
      EncoderEncodeFails, NoTick, Timing, inVars, closeVars
<1>18. CASE EncoderQueue
  BY <1>18 DEF
      EncoderQueue, NoTick, Timing, inVars, closeVars
<1>19. CASE SmootherReadySleep
  BY <1>19 DEF
      SmootherReadySleep, NoTick, Timing, inVars, closeVars
<1>20. CASE SmootherReady
  BY <1>20 DEF
      SmootherReady, NoTick, Timing, inVars, closeVars
<1>21. CASE SmootherSleep
  BY <1>21 DEF
      SmootherSleep, NoTick, Timing, inVars, closeVars
<1>22. CASE SmootherCancelled
  BY <1>22 DEF
      SmootherCancelled, NoTick, Timing, inVars, closeVars
<1>23. CASE SmootherBuffer
  BY <1>23 DEF
      SmootherBuffer, NoTick, Timing, inVars, closeVars
<1>24. CASE SmootherTake
  BY <1>24 DEF
      SmootherTake, NoTick, Timing, inVars, closeVars
<1>25. CASE SmootherClock
  BY <1>25 DEF
      SmootherClock, NoTick, Timing, inVars, closeVars
<1>26. CASE SmootherClockSleep
  BY <1>26 DEF
      SmootherClockSleep, NoTick, Timing, inVars, closeVars
<1>27. CASE SmootherTick
  BY <1>27 DEF
      SmootherTick, NoTick, Timing, inVars, closeVars
<1>28. CASE SmootherSend
  BY <1>28 DEF
      SmootherSend, NoTick, Timing, inVars, closeVars
<1>29. CASE SmootherRemove
  BY <1>29 DEF
      SmootherRemove, NoTick, Timing, inVars, closeVars
<1>30. CASE SmootherExitTime
  BY <1>30 DEF
      SmootherExitTime, NoTick, Timing, inVars, closeVars
<1>31. CASE CloseInput
  BY <1>31 DEF
      CloseInput, NoTick, Timing, inVars, closeVars
<1>32. CASE CloseFilters
  BY <1>32 DEF
      CloseFilters, NoTick, Timing, inVars, closeVars
<1>33. CASE CancelEncoder
  BY <1>33 DEF
      CancelEncoder, NoTick, Timing, inVars, closeVars
<1>34. CASE JoinEncoder
  BY <1>34 DEF
      JoinEncoder, NoTick, Timing, inVars, closeVars
<1>35. CASE CancelSmoother
  BY <1>35 DEF
      CancelSmoother, NoTick, Timing, inVars, closeVars
<1>36. CASE BroadcastClock
  BY <1>36 DEF
      BroadcastClock, NoTick, Timing, inVars, closeVars
<1>37. CASE JoinSmoother
  BY <1>37 DEF
      JoinSmoother, NoTick, Timing, inVars, closeVars
<1>38. CASE Restart
  BY <1>38
<1> QED
  BY <1>1, <1>2, <1>3, <1>4, <1>5, <1>6, <1>7, <1>8, <1>9, <1>10, <1>11,
      <1>12, <1>13, <1>14, <1>15, <1>16, <1>17, <1>18, <1>19, <1>20,
      <1>21, <1>22, <1>23, <1>24, <1>25, <1>26, <1>27, <1>28, <1>29,
      <1>30, <1>31, <1>32, <1>33, <1>34, <1>35, <1>36, <1>37, <1>38
      DEF Next, EncoderStep, SmootherStep, CloseStep

(* Who destroys a frame; and nobody takes one back from the muxer.         *)
LEMMA WhoFrees ==
  ASSUME IInv, Next
  PROVE  \/ MuxFree \/ Restart
         \/ /\ freed' = freed
            /\ muxed' = muxed \/ \E f : muxed' = Append(muxed, f) /\ f \in Frames
<1>1. CASE \E gap \in 0..1 : InputTick(gap)
  BY <1>1 DEF
      InputTick, inVars
<1>2. CASE InputTickOn
  BY <1>2 DEF
      InputTickOn, inVars
<1>3. CASE InputBroadcast
  BY <1>3 DEF
      InputBroadcast, inVars
<1>4. CASE InputDrop
  BY <1>4 DEF
      InputDrop, inVars
<1>5. CASE InputFrame
  BY <1>5 DEF
      InputFrame, inVars
<1>6. CASE FilterForward
  BY <1>6 DEF
      FilterForward, inVars
<1>7. CASE MuxFree
  BY <1>7
<1>8. CASE EncoderOpen
  BY <1>8 DEF
      EncoderOpen, inVars
<1>9. CASE EncoderOpenFails
  BY <1>9 DEF
      EncoderOpenFails, inVars
<1>10. CASE EncoderSleep
  BY <1>10 DEF
      EncoderSleep, inVars
<1>11. CASE EncoderCancelled
  BY <1>11 DEF
      EncoderCancelled, inVars
<1>12. CASE EncoderAborts
  BY <1>12 DEF
      EncoderAborts, inVars
<1>13. CASE EncoderTake
  BY <1>13 DEF
      EncoderTake, inVars
<1>14. CASE EncoderSpeedSleep
  BY <1>14 DEF
      EncoderSpeedSleep, inVars
<1>15. CASE EncoderSpeedControl
  BY <1>15 DEF
      EncoderSpeedControl, inVars
<1>16. CASE EncoderEncode
  BY <1>16 DEF
      EncoderEncode, inVars
<1>17. CASE EncoderEncodeFails
  BY <1>17 DEF
      EncoderEncodeFails, inVars
<1>18. CASE EncoderQueue
  <2>1. coded[1] \in Frames
    BY <1>18, NonEmpty DEF EncoderQueue, IInv, TypeOK, Held
  <2> QED
    BY <1>18, <2>1 DEF EncoderQueue
<1>19. CASE SmootherReadySleep
  BY <1>19 DEF
      SmootherReadySleep, inVars
<1>20. CASE SmootherReady
  BY <1>20 DEF
      SmootherReady, inVars
<1>21. CASE SmootherSleep
  BY <1>21 DEF
      SmootherSleep, inVars
<1>22. CASE SmootherCancelled
  BY <1>22 DEF
      SmootherCancelled, inVars
<1>23. CASE SmootherBuffer
  BY <1>23 DEF
      SmootherBuffer, inVars
<1>24. CASE SmootherTake
  BY <1>24 DEF
      SmootherTake, inVars
<1>25. CASE SmootherClock
  BY <1>25 DEF
      SmootherClock, inVars
<1>26. CASE SmootherClockSleep
  BY <1>26 DEF
      SmootherClockSleep, inVars
<1>27. CASE SmootherTick
  BY <1>27 DEF
      SmootherTick, inVars
<1>28. CASE SmootherSend
  <2>1. smoothQ.items \in Seq(Frames) /\ smoothQ.items # <<>>
    BY <1>28, QueueFields DEF SmootherSend, IInv, TypeOK, Held
  <2> QED
    BY <1>28, <2>1, NonEmpty DEF SmootherSend, HeadDts
<1>29. CASE SmootherRemove
  BY <1>29 DEF
      SmootherRemove, inVars
<1>30. CASE SmootherExitTime
  BY <1>30 DEF
      SmootherExitTime, inVars
<1>31. CASE CloseInput
  BY <1>31 DEF
      CloseInput, inVars
<1>32. CASE CloseFilters
  BY <1>32 DEF
      CloseFilters, inVars
<1>33. CASE CancelEncoder
  BY <1>33 DEF
      CancelEncoder, inVars
<1>34. CASE JoinEncoder
  BY <1>34 DEF
      JoinEncoder, inVars
<1>35. CASE CancelSmoother
  BY <1>35 DEF
      CancelSmoother, inVars
<1>36. CASE BroadcastClock
  BY <1>36 DEF
      BroadcastClock, inVars
<1>37. CASE JoinSmoother
  BY <1>37 DEF
      JoinSmoother, inVars
<1>38. CASE Restart
  BY <1>38
<1> QED
  BY <1>1, <1>2, <1>3, <1>4, <1>5, <1>6, <1>7, <1>8, <1>9, <1>10, <1>11,
      <1>12, <1>13, <1>14, <1>15, <1>16, <1>17, <1>18, <1>19, <1>20,
      <1>21, <1>22, <1>23, <1>24, <1>25, <1>26, <1>27, <1>28, <1>29,
      <1>30, <1>31, <1>32, <1>33, <1>34, <1>35, <1>36, <1>37, <1>38
      DEF Next, EncoderStep, SmootherStep, CloseStep

(* The types of what is on the path.                                       *)
PathType ==
  /\ muxed \in Seq(Frames) /\ smoothQ.items \in Seq(Frames)
  /\ InSmoothing \in Seq(Frames)
  /\ coded \in Seq(Frames) /\ inside \in Seq(Frames)
  /\ encQ.items \in Seq(Frames) /\ filterQ \in Seq(Frames)
  /\ captured \in Seq(Frames) /\ EncodedPath \in Seq(Frames)

(* They follow from the types of the variables.                            *)
LEMMA PathTypes ==
  IInv => PathType
<1> SUFFICES ASSUME IInv PROVE PathType
  OBVIOUS
<1>1. /\ muxed \in Seq(Frames) /\ smoothQ.items \in Seq(Frames)
      /\ coded \in Seq(Frames) /\ inside \in Seq(Frames)
      /\ encQ.items \in Seq(Frames) /\ filterQ \in Seq(Frames)
      /\ captured \in Seq(Frames)
  BY QueueFields DEF IInv, TypeOK
<1>2. InSmoothing \in Seq(Frames)
  <2>1. CASE smPc = "remove"
    BY <1>1, <2>1, NonEmpty DEF IInv, Held, InSmoothing
  <2>2. CASE smPc # "remove"
    BY <1>1, <2>2 DEF InSmoothing
  <2> QED
    BY <2>1, <2>2
<1> QED
  BY <1>1, <1>2, ConcatProperties DEF EncodedPath, PathType

(* And so they hold after a step.                                          *)
LEMMA PathTypesAfter ==
  IInv' => PathType'
  BY PathTypes, PTL

(* The empty sequence at the end, and one element.                         *)
LEMMA Ends ==
  ASSUME NEW S, NEW w \in Seq(S), NEW e \in S
  PROVE  /\ w \o <<>> = w /\ w \o <<e>> = Append(w, e)
         /\ <<>> \in Seq(S) /\ <<e>> \in Seq(S)
  BY ConcatEmptySeq, AppendIsConcat

(* What is taken from a path still leads its start.                        *)
LEMMA StartOfPath ==
  ASSUME NEW S, NEW p \in Seq(S), NEW t \in Seq(S)
  PROVE  IsPrefix(p, p \o t)
<1>1. /\ p \o t \in Seq(S) /\ Len(p \o t) = Len(p) + Len(t)
      /\ \A i \in 1..Len(p) + Len(t) :
           (p \o t)[i] = IF i <= Len(p) THEN p[i] ELSE t[i - Len(p)]
  BY ConcatProperties
<1>2. Len(p) \in Nat /\ Len(t) \in Nat
  BY LenProperties
<1>3. Len(p) <= Len(p \o t) /\ \A i \in 1..Len(p) : p[i] = (p \o t)[i]
  BY <1>1, <1>2
<1> QED
  BY <1>1, <1>3, PrefixIs

(* Three queues one behind the other: one may arrive at the end.           *)
LEMMA Arriving ==
  ASSUME NEW p \in Seq(Frames), NEW q \in Seq(Frames), NEW f \in Seq(Frames),
         NEW e \in Frames
  PROVE  p \o q \o Append(f, e) = Append(p \o q \o f, e)
<1>1. p \o q \in Seq(Frames)
  BY ConcatProperties
<1> QED
  BY <1>1, AppendAfter

(* One may pass from the last queue to the one before.                     *)
LEMMA Passing ==
  ASSUME NEW p \in Seq(Frames), NEW q \in Seq(Frames), NEW f \in Seq(Frames),
         f # <<>>
  PROVE  p \o Append(q, Head(f)) \o Tail(f) = p \o q \o f
<1>1. Head(f) \in Frames /\ p \o q \in Seq(Frames)
  BY NonEmpty, ConcatProperties
<1>2. p \o Append(q, Head(f)) = Append(p \o q, Head(f))
  BY <1>1, AppendAfter
<1>3. Append(p \o q, Head(f)) \o Tail(f) = p \o q \o f
  BY <1>1, MovesHead
<1> QED
  BY <1>2, <1>3

(* The first queue leads the path.                                         *)
LEMMA Leading ==
  ASSUME NEW p \in Seq(Frames), NEW q \in Seq(Frames), NEW f \in Seq(Frames)
  PROVE  IsPrefix(p, p \o q \o f)
<1>1. q \o f \in Seq(Frames)
  BY ConcatProperties
<1>2. p \o q \o f = p \o (q \o f)
  BY ConcatAssociative
<1>3. IsPrefix(p, p \o (q \o f))
  BY <1>1, StartOfPath
<1> QED
  BY <1>2, <1>3

(* While the encoder runs, the whole path is what was captured.            *)
LEMMA WholePath ==
  ASSUME IInv', EncodedPath' \o encQ'.items \o filterQ' = captured'
  PROVE  Flow'
<1>1. /\ EncodedPath' \in Seq(Frames)
      /\ encQ'.items \in Seq(Frames) /\ filterQ' \in Seq(Frames)
  BY PathTypesAfter DEF PathType
<1>2. IsPrefix(EncodedPath', captured')
  BY <1>1, Leading
<1> QED
  BY <1>2 DEF Flow

(* Nothing moves.                                                          *)
LEMMA FlowKept ==
  ASSUME OrderInv, NoFrameMoves
  PROVE  Flow' /\ Coding' /\ Bypass'
<1>1. EncodedPath' = EncodedPath
  BY DEF NoFrameMoves, EncodedPath, InSmoothing
<1> QED
  BY <1>1 DEF NoFrameMoves, OrderInv, Flow, Coding, Bypass

(* A frame is captured.                                                    *)
LEMMA FlowInputFrame ==
  ASSUME OrderInv, IInv', InputFrame
  PROVE  Flow' /\ Coding' /\ Bypass' /\ Fresh'
<1>1. /\ clock \in Frames /\ PathType
      /\ \A i \in 1..Len(captured) : captured[i] < clock
  <2>1. clock \in 0..MaxPts /\ clock > 0
    BY DEF OrderInv, IInv, TypeOK, Held, InputFrame
  <2> QED
    BY <2>1, PathTypes, EncodeAssumption DEF OrderInv, Fresh, InputFrame, Frames
<1>2. /\ filterQ' = Append(filterQ, clock) /\ captured' = Append(captured, clock)
      /\ UNCHANGED <<muxed, coded, inside, encQ, smoothQ, smPc, encPc, clock>>
      /\ inPc' = "idle"
  BY DEF InputFrame, encVars, smVars
<1>3. EncodedPath' = EncodedPath
  BY <1>2 DEF EncodedPath, InSmoothing
<1>4. Flow'
  <2>1. CASE encPc # "done"
    <3>1. EncodedPath \o encQ.items \o filterQ = captured
      BY <2>1 DEF OrderInv, Flow
    <3>a. /\ EncodedPath \in Seq(Frames) /\ encQ.items \in Seq(Frames)
          /\ filterQ \in Seq(Frames) /\ clock \in Frames
      BY <1>1 DEF PathType
    <3>b. EncodedPath \o encQ.items \o Append(filterQ, clock)
            = Append(EncodedPath \o encQ.items \o filterQ, clock)
      BY <3>a, Arriving
    <3>2. EncodedPath \o encQ.items \o Append(filterQ, clock) = Append(captured, clock)
      BY <3>1, <3>b
    <3> QED
      BY <1>2, <1>3, <3>2, WholePath
  <2>2. CASE encPc = "done"
    <3>1. IsPrefix(EncodedPath, Append(captured, clock))
      BY <1>1, PrefixOfAppend DEF OrderInv, Flow, PathType
    <3> QED
      BY <1>2, <1>3, <2>2, <3>1 DEF Flow
  <2> QED
    BY <2>1, <2>2
<1>5. Coding' /\ Bypass'
  BY <1>2 DEF OrderInv, Coding, Bypass
<1>6. Fresh'
  <2> DEFINE c == Append(captured, clock)
  <2>1. /\ Len(c) = Len(captured) + 1 /\ c[Len(captured) + 1] = clock
        /\ \A i \in 1..Len(captured) : c[i] = captured[i]
        /\ Len(captured) \in Nat
    BY <1>1, AppendProperties, LenProperties DEF PathType
  <2>2. \A i \in 1..Len(captured) : captured[i] \in Nat
    <3>1. \A i \in 1..Len(captured) : captured[i] \in Frames
      BY <1>1, ElementOfSeq DEF PathType
    <3> QED
      BY <3>1, EncodeAssumption DEF Frames
  <2>3. clock \in Nat
    BY <1>1 DEF Frames
  <2>4. \A i, j \in 1..Len(captured) : i < j => captured[i] < captured[j]
    BY DEF OrderInv, Fresh
  <2> HIDE DEF c
  <2>5. \A i, j \in 1..Len(c) : i < j => c[i] < c[j]
    BY <1>1, <2>1, <2>2, <2>3, <2>4
  <2>6. \A i \in 1..Len(c) : c[i] <= clock
    BY <1>1, <2>1, <2>2, <2>3
  <2> QED
    BY <1>2, <2>5, <2>6 DEF Fresh, c
<1> QED
  BY <1>4, <1>5, <1>6

(* The filter forwards a frame.                                            *)
LEMMA FlowFilterForward ==
  ASSUME OrderInv, IInv', FilterForward
  PROVE  Flow' /\ Coding' /\ Bypass'
<1>1. PathType /\ Head(filterQ) \in Frames /\ Tail(filterQ) \in Seq(Frames)
  BY PathTypes, NonEmpty DEF OrderInv, PathType, FilterForward
<1>2. /\ filterQ' = Tail(filterQ) /\ filterQ # <<>>
      /\ encQ'.items = Append(encQ.items, Head(filterQ))
      /\ UNCHANGED <<muxed, coded, inside, captured, smoothQ, smPc, encPc>>
  BY SMTT(20), <1>1, AddToQueueType DEF FilterForward, OrderInv, IInv, TypeOK, encVars, smVars
<1>3. EncodedPath' = EncodedPath
  BY <1>2 DEF EncodedPath, InSmoothing
<1>4. Flow'
  <2>1. CASE encPc # "done"
    <3>1. EncodedPath \o Append(encQ.items, Head(filterQ)) \o Tail(filterQ)
            = EncodedPath \o encQ.items \o filterQ
      <4>1. /\ EncodedPath \in Seq(Frames) /\ encQ.items \in Seq(Frames)
            /\ filterQ \in Seq(Frames) /\ filterQ # <<>>
        BY <1>1, <1>2 DEF PathType
      <4> QED
        BY <4>1, Passing
    <3>2. EncodedPath \o encQ.items \o filterQ = captured
      BY <2>1 DEF OrderInv, Flow
    <3>3. EncodedPath' \o encQ'.items \o filterQ' = captured'
      BY <1>2, <1>3, <3>1, <3>2
    <3> QED
      BY <3>3, WholePath
  <2>2. CASE encPc = "done"
    BY <1>2, <1>3, <2>2 DEF OrderInv, Flow
  <2> QED
    BY <2>1, <2>2
<1> QED
  BY <1>2, <1>4 DEF OrderInv, Coding, Bypass

(* The path between the encoder's queue and the muxer stays as it is.      *)
LEMMA SamePath ==
  ASSUME OrderInv, EncodedPath' = EncodedPath, encQ'.items = encQ.items,
         filterQ' = filterQ, captured' = captured, encPc = "done" => encPc' = "done"
  PROVE  Flow'
  BY DEF OrderInv, Flow

(* The encoder takes the head of its queue, and returns the oldest frame   *)
(* it holds, or none.                                                      *)
LEMMA FlowEncoderEncode ==
  ASSUME OrderInv, IInv', EncoderEncode
  PROVE  Flow' /\ Coding' /\ Bypass'
<1> DEFINE h == Head(encQ.items)
           held == Append(inside, h)
           before == muxed \o InSmoothing \o coded
<1>1. /\ encQ.items \in Seq(Frames) /\ encQ.items # <<>> /\ h \in Frames
      /\ Tail(encQ.items) \in Seq(Frames)
      /\ inside \in Seq(Frames) /\ held \in Seq(Frames) /\ held # <<>>
      /\ muxed \o InSmoothing \in Seq(Frames) /\ coded = <<>>
      /\ before = muxed \o InSmoothing
  <2>1. /\ PathType /\ encQ.items # <<>> /\ coded = <<>>
    BY PathTypes DEF OrderInv, IInv, Held, Coding, EncoderEncode
  <2>2. h \in Frames /\ Tail(encQ.items) \in Seq(Frames)
    BY <2>1, NonEmpty DEF PathType
  <2>3. held \in Seq(Frames) /\ held # <<>>
    BY <2>1, <2>2, AppendProperties DEF PathType
  <2>4. muxed \o InSmoothing \in Seq(Frames)
    BY <2>1, ConcatProperties DEF PathType
  <2>5. before = muxed \o InSmoothing
    BY <2>1, <2>4, ConcatEmptySeq
  <2> QED
    BY <2>1, <2>2, <2>3, <2>4, <2>5 DEF PathType
<1>2. /\ encQ'.items = Tail(encQ.items)
      /\ UNCHANGED <<muxed, filterQ, captured, smoothQ, smPc>> /\ encPc = "encode"
  BY SMTT(20), <1>1, RemoveFromQueueType DEF EncoderEncode, OrderInv, IInv, TypeOK, inVars, smVars
<1>3. /\ EncodedPath = before \o inside /\ InSmoothing' = InSmoothing
      /\ EncodedPath' = muxed \o InSmoothing \o coded' \o inside'
  BY <1>2 DEF EncodedPath, InSmoothing
<1>4. /\ EncodedPath' = before \o held
      /\ encPc' # "queue" => coded' = <<>>
      /\ encPc' = "queue" => coded' = <<coded'[1]>>
  <2>1. CASE inside' = held /\ encPc' = "wait" /\ coded' = coded
    BY <1>1, <1>3, <2>1
  <2>2. CASE inside' = Tail(held) /\ coded' = <<Head(held)>> /\ encPc' = "queue"
    <3> HIDE DEF held
    <3>1. Head(held) \in Frames /\ <<>> \in Seq(Frames)
      BY <1>1, NonEmpty
    <3>2. Append(<<>>, Head(held)) = <<Head(held)>>
      BY <3>1
    <3>3. muxed \o InSmoothing \o Append(<<>>, Head(held)) \o Tail(held)
            = muxed \o InSmoothing \o <<>> \o held
      BY <1>1, <3>1, Passing
    <3> QED
      BY <1>1, <1>3, <2>2, <3>2, <3>3
  <2> QED
    BY <2>1, <2>2 DEF EncoderEncode
<1>5. before \in Seq(Frames)
  BY <1>1
<1> HIDE DEF before
<1>6. before \o held \o Tail(encQ.items) = before \o inside \o encQ.items
  BY <1>1, <1>5, Passing
<1>7. EncodedPath \o encQ.items \o filterQ = captured
  BY <1>2 DEF OrderInv, Flow
<1>8. EncodedPath' \o encQ'.items \o filterQ' = captured'
  BY <1>2, <1>3, <1>4, <1>6, <1>7
<1> QED
  BY <1>2, <1>4, <1>8, WholePath DEF OrderInv, Coding, Bypass

(* The frame that could not be encoded is lost, and those behind it are    *)
(* never encoded.                                                          *)
LEMMA FlowEncoderEncodeFails ==
  ASSUME OrderInv, EncoderEncodeFails
  PROVE  Flow' /\ Coding' /\ Bypass'
<1>1. /\ UNCHANGED <<muxed, inside, coded, captured, smoothQ, smPc>>
      /\ encPc = "encode" /\ encPc' = "done"
  BY DEF EncoderEncodeFails, inVars, smVars
<1>2. EncodedPath' = EncodedPath
  BY <1>1 DEF EncodedPath, InSmoothing
<1> QED
  BY <1>1, <1>2 DEF OrderInv, Flow, Coding, Bypass

(* The coded frame is queued behind those being smoothed, or behind those  *)
(* muxed when there is no smoothing.                                       *)
LEMMA FlowEncoderQueue ==
  ASSUME OrderInv, EncoderQueue
  PROVE  Flow' /\ Coding' /\ Bypass'
<1>1. /\ PathType /\ coded = <<coded[1]>> /\ coded[1] \in Frames
      /\ coded # <<>> /\ Head(coded) = coded[1] /\ Tail(coded) = <<>>
  <2>1. PathType /\ coded = <<coded[1]>> /\ coded # <<>>
    BY PathTypes DEF OrderInv, Coding, IInv, Held, EncoderQueue
  <2>2. coded[1] \in Frames
    BY <2>1, NonEmpty DEF PathType
  <2>3. \A e : Head(<<e>>) = e /\ Tail(<<e>>) = <<>>
    OBVIOUS
  <2> QED
    BY <2>1, <2>2, <2>3
<1>2. /\ UNCHANGED <<inside, captured, filterQ, encQ, smPc>>
      /\ encPc = "queue" /\ encPc' = "wait" /\ coded' = <<>>
  BY DEF EncoderQueue, inVars, smVars
<1>3. /\ muxed' \o InSmoothing' \o coded' = muxed \o InSmoothing \o coded
      /\ Bypass'
  <2>1. CASE Generic
    <3>1. smoothQ'.items = Append(smoothQ.items, coded[1]) /\ muxed' = muxed
      BY <1>1, <2>1, AddToQueueType DEF EncoderQueue, OrderInv, IInv, TypeOK
    <3>2. InSmoothing' = Append(InSmoothing, coded[1])
      <4>1. CASE smPc = "remove"
        <5>1. smoothQ.items # <<>> /\ smoothQ.items \in Seq(Frames)
          BY <1>1, <4>1 DEF OrderInv, IInv, Held, PathType
        <5>2. Tail(Append(smoothQ.items, coded[1])) = Append(Tail(smoothQ.items), coded[1])
          BY <1>1, <5>1, HeadTailAppend
        <5> QED
          BY <1>2, <3>1, <4>1, <5>2 DEF InSmoothing
      <4>2. CASE smPc # "remove"
        BY <1>2, <3>1, <4>2 DEF InSmoothing
      <4> QED
        BY <4>1, <4>2
    <3>3. muxed \in Seq(Frames) /\ InSmoothing \in Seq(Frames) /\ coded \in Seq(Frames)
      BY <1>1 DEF PathType
    <3>4. muxed \o Append(InSmoothing, Head(coded)) \o Tail(coded)
            = muxed \o InSmoothing \o coded
      BY <1>1, <3>3, Passing
    <3> QED
      BY <1>1, <1>2, <2>1, <3>1, <3>2, <3>4 DEF Bypass
  <2>2. CASE ~Generic
    <3>1. /\ muxed' = Append(muxed, coded[1]) /\ smoothQ' = smoothQ
          /\ smPc = "none" /\ smoothQ.items = <<>>
      BY <2>2 DEF EncoderQueue, OrderInv, Bypass
    <3>2. InSmoothing = <<>> /\ InSmoothing' = <<>>
      BY <1>2, <3>1 DEF InSmoothing
    <3>3. muxed \in Seq(Frames) /\ Append(muxed, coded[1]) \in Seq(Frames)
      BY <1>1, AppendProperties DEF PathType
    <3>4. Append(muxed, coded[1]) \o <<>> \o <<>> = Append(muxed, coded[1])
      BY <3>3, ConcatEmptySeq
    <3>5. muxed \o <<>> \o <<coded[1]>> = Append(muxed, coded[1])
      BY <1>1, <3>3, Ends
    <3> QED
      BY <1>1, <1>2, <3>1, <3>2, <3>4, <3>5 DEF Bypass
  <2> QED
    BY <2>1, <2>2
<1>4. EncodedPath' = EncodedPath
  BY <1>2, <1>3 DEF EncodedPath
<1> QED
  BY <1>2, <1>3, <1>4, SamePath DEF Coding

(* A frame is handed over to the muxer, and is then removed.               *)
LEMMA FlowSmootherSend ==
  ASSUME OrderInv, SmootherSend
  PROVE  Flow' /\ Coding' /\ Bypass'
<1>1. /\ muxed \in Seq(Frames) /\ smoothQ.items \in Seq(Frames) /\ smoothQ.items # <<>>
  BY PathTypes DEF PathType, OrderInv, IInv, Held, SmootherSend
<1>2. /\ UNCHANGED <<inside, coded, captured, filterQ, encQ, encPc, smoothQ>>
      /\ smPc = "send" /\ smPc' = "remove"
      /\ muxed' = Append(muxed, Head(smoothQ.items))
  BY DEF SmootherSend, HeadDts, inVars, encVars
<1>3. muxed' \o InSmoothing' = muxed \o InSmoothing
  <2>1. InSmoothing = smoothQ.items /\ InSmoothing' = Tail(smoothQ.items)
    BY <1>2 DEF InSmoothing
  <2>2. Append(muxed, Head(smoothQ.items)) \o Tail(smoothQ.items) = muxed \o smoothQ.items
    BY <1>1, MovesHead
  <2> QED
    BY <1>2, <2>1, <2>2
<1>4. EncodedPath' = EncodedPath
  BY <1>2, <1>3 DEF EncodedPath
<1> QED
  BY <1>2, <1>4, SamePath DEF OrderInv, Coding, Bypass

(* The removal: the queue now holds what is not handed over.               *)
LEMMA FlowSmootherRemove ==
  ASSUME OrderInv, SmootherRemove
  PROVE  Flow' /\ Coding' /\ Bypass'
<1>1. smoothQ.items # <<>>
  BY DEF OrderInv, IInv, Held, SmootherRemove
<1>2. /\ UNCHANGED <<muxed, inside, coded, captured, filterQ, encQ, encPc>>
      /\ smPc = "remove" /\ smPc' = "exit"
      /\ smoothQ'.items = Tail(smoothQ.items)
  BY <1>1, RemoveFromQueueType DEF SmootherRemove, inVars, encVars, OrderInv, IInv, TypeOK
<1>3. EncodedPath' = EncodedPath
  BY <1>2 DEF EncodedPath, InSmoothing
<1> QED
  BY <1>2, <1>3, SamePath DEF OrderInv, Coding, Bypass

(* A new start: there is nothing on the path.                              *)
LEMMA NothingYet ==
  ASSUME Restart
  PROVE  Flow' /\ Coding' /\ Bypass' /\ Fresh' /\ Freeing'
<1>1. /\ encQ'.items = <<>> /\ smoothQ'.items = <<>> /\ muxed' = <<>> /\ coded' = <<>>
      /\ inside' = <<>> /\ filterQ' = <<>> /\ captured' = <<>> /\ freed' = 0
      /\ smPc' = (IF Generic THEN "ready" ELSE "none") /\ encPc' = "open"
  BY DEF Restart, EmptyQueue
<1>2. InSmoothing' = <<>>
  BY <1>1 DEF InSmoothing
<1>3. <<>> \in Seq(Frames) /\ Len(<<>>) = 0 /\ 1..Len(<<>>) = {}
  OBVIOUS
<1>4. <<>> \o <<>> = <<>> /\ IsPrefix(<<>>, <<>>)
  BY <1>3, ConcatEmptySeq, PrefixOfItself
<1>5. EncodedPath' = <<>>
  BY <1>1, <1>2, <1>4 DEF EncodedPath
<1>6. Flow'
  BY <1>1, <1>4, <1>5 DEF Flow
<1> QED
  BY <1>1, <1>3, <1>6 DEF Coding, Bypass, Fresh, Freeing

(* Every step keeps the order.                                             *)
LEMMA FlowStep ==
  ASSUME OrderInv, IInv', Next
  PROVE  Flow' /\ Coding' /\ Bypass'
<1>1. IInv
  BY DEF OrderInv
<1> QED
  BY <1>1, WhoMoves, FlowInputFrame, FlowFilterForward, FlowEncoderEncode,
    FlowEncoderEncodeFails, FlowEncoderQueue, FlowSmootherSend, FlowSmootherRemove,
    NothingYet, FlowKept

(* Every step keeps the times of the frames apart.                         *)
LEMMA FreshStep ==
  ASSUME OrderInv, IInv', Next
  PROVE  Fresh'
<1>1. IInv
  BY DEF OrderInv
<1>2. CASE \E gap \in 0..1 : InputTick(gap)
  <2>1. captured' = captured /\ clock' > clock /\ inPc = "idle" /\ clock \in Nat
    BY <1>1, <1>2, EncodeAssumption DEF InputTick, IInv, TypeOK
  <2>2. \A i \in 1..Len(captured) : captured[i] \in Nat
    <3>1. captured \in Seq(Frames)
      BY <1>1 DEF IInv, TypeOK
    <3>2. \A i \in 1..Len(captured) : captured[i] \in Frames
      BY <3>1, ElementOfSeq
    <3> QED
      BY <3>2, EncodeAssumption DEF Frames
  <2>3. clock' \in Nat
    BY EncodeAssumption DEF IInv, TypeOK
  <2> QED
    BY <2>1, <2>2, <2>3 DEF OrderInv, Fresh
<1>3. CASE NoTick
  BY <1>3 DEF NoTick, Timing, OrderInv, Fresh
<1> QED
  BY <1>1, <1>2, <1>3, WhoTicks, FlowInputFrame, NothingYet

(* The muxer destroys only what it was given.                              *)
LEMMA FreeingStep ==
  ASSUME OrderInv, Next
  PROVE  Freeing'
<1>1. muxed \in Seq(Frames) /\ freed \in Nat /\ IInv
  BY DEF OrderInv, IInv, TypeOK
<1>2. Len(muxed) \in Nat /\ \A f \in Frames : Len(Append(muxed, f)) = Len(muxed) + 1
  BY <1>1, LenProperties, AppendProperties
<1>3. CASE MuxFree
  BY <1>1, <1>2, <1>3 DEF MuxFree, Freeing
<1>4. CASE Restart
  BY <1>4, NothingYet
<1>5. CASE /\ freed' = freed
           /\ muxed' = muxed \/ \E f : muxed' = Append(muxed, f) /\ f \in Frames
  BY <1>1, <1>2, <1>5 DEF OrderInv, Freeing
<1> QED
  BY <1>1, <1>3, <1>4, <1>5, WhoFrees

(* The invariant holds at first.                                           *)
LEMMA InitOrder ==
  Init => OrderInv
<1> SUFFICES ASSUME Init PROVE OrderInv
  OBVIOUS
<1>1. /\ encQ.items = <<>> /\ smoothQ.items = <<>> /\ muxed = <<>> /\ coded = <<>>
      /\ inside = <<>> /\ filterQ = <<>> /\ captured = <<>> /\ freed = 0
      /\ smPc = (IF Generic THEN "ready" ELSE "none") /\ encPc = "open"
  BY DEF Init, EmptyQueue
<1>2. InSmoothing = <<>>
  BY <1>1 DEF InSmoothing
<1>3. <<>> \in Seq(Frames) /\ Len(<<>>) = 0 /\ 1..Len(<<>>) = {}
  OBVIOUS
<1>4. <<>> \o <<>> = <<>> /\ IsPrefix(<<>>, <<>>)
  BY <1>3, ConcatEmptySeq, PrefixOfItself
<1>5. EncodedPath = <<>>
  BY <1>1, <1>2, <1>4 DEF EncodedPath
<1>6. Flow
  BY <1>1, <1>4, <1>5 DEF Flow
<1> QED
  BY <1>1, <1>3, <1>6, InitIInv DEF OrderInv, Coding, Bypass, Fresh, Freeing

(* And is kept by every step.                                              *)
LEMMA StepOrder ==
  OrderInv /\ [Next]_vars => OrderInv'
<1> SUFFICES ASSUME OrderInv, [Next]_vars PROVE OrderInv'
  OBVIOUS
<1>1. IInv'
  BY StepIInv DEF OrderInv
<1>2. CASE Next
  BY <1>1, <1>2, FlowStep, FreshStep, FreeingStep DEF OrderInv
<1>3. CASE UNCHANGED vars
  <2>1. UNCHANGED <<inVars, encPc, coded, inside, encQ, smPc, smoothQ, muxed, freed>>
    BY <1>3 DEF vars, encVars, smVars
  <2>2. UNCHANGED <<inPc, clock, filterQ, captured>>
    BY <2>1 DEF inVars
  <2>3. EncodedPath' = EncodedPath
    BY <2>1 DEF EncodedPath, InSmoothing
  <2> QED
    BY <1>1, <2>1, <2>2, <2>3 DEF OrderInv, Flow, Coding, Bypass, Fresh, Freeing
<1> QED
  BY <1>2, <1>3

(* The frames on the path differ, so a frame still queued is one the muxer *)
(* destroyed only if it is the one being handed over.                      *)
LEMMA HandOver ==
  OrderInv => FreedOnlyInHandOver
<1> SUFFICES ASSUME OrderInv,
                    NEW i \in DOMAIN smoothQ.items, smoothQ.items[i] \in FreedFrames
             PROVE  i = 1 /\ smPc = "remove"
  BY DEF FreedOnlyInHandOver
<1> DEFINE rest == InSmoothing
           tail == coded \o inside
           n == Len(muxed)
<1>1. PathType /\ IsPrefix(EncodedPath, captured) /\ freed <= n /\ n \in Nat /\ freed \in Nat
  BY PathTypes, LenProperties DEF OrderInv, Flow, Freeing, PathType, IInv, TypeOK
<1>2. /\ muxed \in Seq(Frames) /\ rest \in Seq(Frames) /\ coded \in Seq(Frames)
      /\ inside \in Seq(Frames) /\ captured \in Seq(Frames)
      /\ smoothQ.items \in Seq(Frames) /\ EncodedPath \in Seq(Frames)
  BY <1>1 DEF PathType
<1>3. PICK j \in 1..freed : muxed[j] = smoothQ.items[i]
  BY DEF FreedFrames
<1>4. ASSUME NEW k \in 1..Len(rest), rest[k] = muxed[j]
      PROVE  FALSE
  <2>1. /\ Len(muxed \o rest) = n + Len(rest)
        /\ \A m \in 1..n + Len(rest) :
             (muxed \o rest)[m] = IF m <= n THEN muxed[m] ELSE rest[m - n]
        /\ muxed \o rest \in Seq(Frames)
    BY <1>2, ConcatProperties
  <2>2. IsPrefix(muxed \o rest, EncodedPath)
    BY <1>2, <2>1, Leading DEF EncodedPath
  <2>3. /\ Len(muxed \o rest) <= Len(EncodedPath)
        /\ \A m \in 1..Len(muxed \o rest) : (muxed \o rest)[m] = EncodedPath[m]
    BY <1>2, <2>1, <2>2, PrefixIs
  <2>4. /\ Len(EncodedPath) <= Len(captured)
        /\ \A m \in 1..Len(EncodedPath) : EncodedPath[m] = captured[m]
    BY <1>1, <1>2, PrefixIs
  <2>5. Len(rest) \in Nat /\ Len(EncodedPath) \in Nat /\ Len(captured) \in Nat
    BY <1>2, LenProperties
  <2>6. \A m \in 1..n + Len(rest) :
          captured[m] = IF m <= n THEN muxed[m] ELSE rest[m - n]
    BY <1>1, <2>1, <2>3, <2>4, <2>5
  <2>7. j \in 1..n + Len(rest) /\ n + k \in 1..n + Len(rest) /\ j <= n /\ j < n + k
    BY <1>1, <2>5
  <2>8. captured[j] = captured[n + k]
    <3>1. captured[j] = muxed[j]
      BY <2>6, <2>7
    <3>2. captured[n + k] = rest[k]
      <4>1. ~(n + k <= n) /\ n + k - n = k
        BY <1>1, <2>5
      <4>2. captured[n + k] = IF n + k <= n THEN muxed[n + k] ELSE rest[n + k - n]
        BY <2>6, <2>7
      <4> QED
        BY <4>1, <4>2
    <3> QED
      BY <1>4, <3>1, <3>2
  <2>9. n + Len(rest) <= Len(captured)
    BY <1>1, <2>1, <2>3, <2>4, <2>5
  <2>10. captured[j] < captured[n + k]
    <3>1. j \in 1..Len(captured) /\ n + k \in 1..Len(captured)
      BY <1>1, <2>5, <2>7, <2>9
    <3> QED
      BY <2>7, <3>1 DEF OrderInv, Fresh
  <2>11. captured[j] \in Nat
    <3>1. captured[j] \in Frames
      BY <1>1, <1>2, <2>5, <2>7, <2>9, ElementOfSeq
    <3> QED
      BY <3>1 DEF Frames
  <2> QED
    BY <2>8, <2>10, <2>11
<1>5. i \in 1..Len(smoothQ.items) /\ Len(smoothQ.items) \in Nat
  BY <1>2, LenProperties
<1>6. CASE smPc # "remove"
  <2>1. rest = smoothQ.items
    BY <1>6 DEF InSmoothing
  <2> QED
    BY <1>3, <1>4, <1>5, <2>1
<1>7. CASE smPc = "remove" /\ i # 1
  <2>1. rest = Tail(smoothQ.items) /\ smoothQ.items # <<>>
    BY <1>5, <1>7 DEF InSmoothing, OrderInv, IInv, Held
  <2>2. /\ Len(Tail(smoothQ.items)) = Len(smoothQ.items) - 1
        /\ \A k \in 1..Len(Tail(smoothQ.items)) :
             Tail(smoothQ.items)[k] = smoothQ.items[k + 1]
    BY <1>2, <2>1, HeadTailProperties
  <2>3. i - 1 \in 1..Len(Tail(smoothQ.items)) /\ i - 1 + 1 = i
    BY <1>5, <1>7, <2>2
  <2>4. rest[i - 1] = smoothQ.items[i]
    BY <2>1, <2>2, <2>3
  <2> QED
    BY <1>3, <1>4, <2>1, <2>3, <2>4
<1> QED
  BY <1>6, <1>7

(* From the capture to the muxer's queue (input, video filter, x264.c,     *)
(* encoder_smoothing.c) no frame is lost, repeated or overtaken while the  *)
(* encoder runs, and of the frames in the smoothing queue the muxer may    *)
(* have destroyed the head in the hand-over and no other, for every buffer *)
(* size, encoder delay and number of restarts.                             *)
THEOREM FramesInOrder ==
  Spec => []PathInOrder
<1>1. OrderInv => PathInOrder
  BY HandOver DEF OrderInv, Flow, PathInOrder
<1> QED
  BY <1>1, InitOrder, StepOrder, PTL DEF Spec
-----------------------------------------------------------------------------
(* From the first frame of a complete buffer to the next wait for more.    *)
Anchored ==
  \/ smPc \in {"clock", "anchor", "pace", "send", "remove", "exit"}
  \/ smPc = "wait" /\ bufferComplete

(* The pacing started with frame a, and each frame sent since has let the  *)
(* clock advance once.                                                     *)
PacedSince(a) ==
  LET m == Len(muxed)
  IN  /\ captured[a] = startDts
      /\ smPc = "anchor" => a = m + 1
      /\ smPc \in {"wait", "clock", "remove", "exit"} =>
           a <= m /\ clock - startPts >= m - a
      /\ smPc = "pace" =>
           a <= m /\ lastClock <= clock /\ lastClock - startPts >= m - a
      /\ smPc = "send" => a <= m + 1 /\ clock - startPts >= m + 1 - a

PaceInv ==
  /\ ~cancelSmoother /\ clock < MaxPts /\ Anchored
  /\ smPc = "clock" => startDts # -1
  => \E a \in 1..Len(captured) : PacedSince(a)

(* Nothing is sent, or it is sent because the thread is cancelled.         *)
NotPacing ==
  \/ smPc \in {"none", "done"} \/ cancelSmoother = TRUE
  \/ smPc = "ready" /\ ~bufferComplete

(* A step the pacing does not see.                                         *)
PaceKept ==
  /\ UNCHANGED <<clock, captured, startDts, startPts, lastClock, smPc, muxed,
                 cancelSmoother>>
  /\ bufferComplete' => bufferComplete
-----------------------------------------------------------------------------
(* Who may disturb the pacing.                                             *)
LEMMA WhoPaces ==
  ASSUME OrderInv, Next
  PROVE  \/ \E gap \in 0..1 : InputTick(gap)
         \/ InputTickOn \/ InputFrame
         \/ SmootherReady \/ SmootherTake \/ SmootherClock \/ SmootherTick
         \/ SmootherSend \/ SmootherRemove \/ SmootherExitTime
         \/ NotPacing' \/ PaceKept
<1>1. CASE \E gap \in 0..1 : InputTick(gap)
  BY <1>1
<1>2. CASE InputTickOn
  BY <1>2
<1>3. CASE InputBroadcast
  BY <1>3 DEF
      InputBroadcast, PaceKept, inVars, smVars, smStatics, closeVars
<1>4. CASE InputDrop
  BY <1>4 DEF
      InputDrop, PaceKept, inVars, smVars, smStatics, closeVars
<1>5. CASE InputFrame
  BY <1>5
<1>6. CASE FilterForward
  BY <1>6 DEF
      FilterForward, PaceKept, inVars, smVars, smStatics, closeVars
<1>7. CASE MuxFree
  BY <1>7 DEF
      MuxFree, PaceKept, inVars, smVars, smStatics, closeVars
<1>8. CASE EncoderOpen
  BY <1>8 DEF
      EncoderOpen, PaceKept, inVars, smVars, smStatics, closeVars
<1>9. CASE EncoderOpenFails
  BY <1>9 DEF
      EncoderOpenFails, PaceKept, inVars, smVars, smStatics, closeVars
<1>10. CASE EncoderSleep
  BY <1>10 DEF
      EncoderSleep, PaceKept, inVars, smVars, smStatics, closeVars
<1>11. CASE EncoderCancelled
  BY <1>11 DEF
      EncoderCancelled, PaceKept, inVars, smVars, smStatics, closeVars
<1>12. CASE EncoderAborts
  BY <1>12 DEF
      EncoderAborts, PaceKept, inVars, smVars, smStatics, closeVars
<1>13. CASE EncoderTake
  BY <1>13 DEF
      EncoderTake, PaceKept, inVars, smVars, smStatics, closeVars
<1>14. CASE EncoderSpeedSleep
  BY <1>14 DEF
      EncoderSpeedSleep, PaceKept, inVars, smVars, smStatics, closeVars
<1>15. CASE EncoderSpeedControl
  BY <1>15 DEF
      EncoderSpeedControl, PaceKept, inVars, smVars, smStatics, closeVars
<1>16. CASE EncoderEncode
  BY <1>16 DEF
      EncoderEncode, PaceKept, inVars, smVars, smStatics, closeVars
<1>17. CASE EncoderEncodeFails
  BY <1>17 DEF
      EncoderEncodeFails, PaceKept, inVars, smVars, smStatics, closeVars
<1>18. CASE EncoderQueue
  BY <1>18 DEF EncoderQueue, OrderInv, Bypass, PaceKept, NotPacing, inVars, smVars,
      smStatics, closeVars
<1>19. CASE SmootherReadySleep
  BY <1>19 DEF
      SmootherReadySleep, PaceKept, inVars, smVars, smStatics, closeVars
<1>20. CASE SmootherReady
  BY <1>20
<1>21. CASE SmootherSleep
  BY <1>21 DEF
      SmootherSleep, PaceKept, inVars, smVars, smStatics, closeVars
<1>22. CASE SmootherCancelled
  BY <1>22 DEF
      SmootherCancelled, PaceKept, NotPacing, inVars, smVars, smStatics, closeVars
<1>23. CASE SmootherBuffer
  BY <1>23 DEF
      SmootherBuffer, PaceKept, inVars, smVars, smStatics, closeVars
<1>24. CASE SmootherTake
  BY <1>24
<1>25. CASE SmootherClock
  BY <1>25
<1>26. CASE SmootherClockSleep
  BY <1>26 DEF
      SmootherClockSleep, PaceKept, inVars, smVars, smStatics, closeVars
<1>27. CASE SmootherTick
  BY <1>27
<1>28. CASE SmootherSend
  BY <1>28
<1>29. CASE SmootherRemove
  BY <1>29
<1>30. CASE SmootherExitTime
  BY <1>30
<1>31. CASE CloseInput
  BY <1>31 DEF
      CloseInput, PaceKept, inVars, smVars, smStatics, closeVars
<1>32. CASE CloseFilters
  BY <1>32 DEF
      CloseFilters, PaceKept, inVars, smVars, smStatics, closeVars
<1>33. CASE CancelEncoder
  BY <1>33 DEF
      CancelEncoder, PaceKept, inVars, smVars, smStatics, closeVars
<1>34. CASE JoinEncoder
  BY <1>34 DEF
      JoinEncoder, PaceKept, inVars, smVars, smStatics, closeVars
<1>35. CASE CancelSmoother
  BY <1>35 DEF
      CancelSmoother, PaceKept, NotPacing, inVars, smVars, smStatics, closeVars
<1>36. CASE BroadcastClock
  BY <1>36 DEF
      BroadcastClock, PaceKept, inVars, smVars, smStatics, closeVars
<1>37. CASE JoinSmoother
  BY <1>37 DEF
      JoinSmoother, PaceKept, inVars, smVars, smStatics, closeVars
<1>38. CASE Restart
  BY <1>38 DEF
      Restart, PaceKept, NotPacing, inVars, smVars, smStatics, closeVars
<1> QED
  BY <1>1, <1>2, <1>3, <1>4, <1>5, <1>6, <1>7, <1>8, <1>9, <1>10, <1>11,
      <1>12, <1>13, <1>14, <1>15, <1>16, <1>17, <1>18, <1>19, <1>20, <1>21,
      <1>22, <1>23, <1>24, <1>25, <1>26, <1>27, <1>28, <1>29, <1>30, <1>31,
      <1>32, <1>33, <1>34, <1>35, <1>36, <1>37, <1>38
      DEF Next, EncoderStep, SmootherStep, CloseStep

(* The frames captured from one to another: no more than their places, and *)
(* at least as far apart.                                                  *)
LEMMA Apart ==
  ASSUME NEW n \in Nat, NEW c, \A i \in 1..n : c[i] \in Nat,
         \A i, j \in 1..n : i < j => c[i] < c[j],
         NEW a \in 1..n, NEW b \in a..n
  PROVE  /\ b - a <= c[b] - c[a]
         /\ Cardinality({f \in {c[i] : i \in 1..n} : c[a] < f /\ f <= c[b]}) <= b - a
         /\ Cardinality({f \in {c[i] : i \in 1..n} : c[a] < f /\ f <= c[b]}) \in Nat
<1> DEFINE S == {f \in {c[i] : i \in 1..n} : c[a] < f /\ f <= c[b]}
           g == [i \in (a + 1)..b |-> c[i]]
<1>1. /\ a \in Int /\ b \in Int /\ a + 1 \in Int /\ a <= b /\ b \in 1..n
      /\ c[a] \in Nat /\ c[b] \in Nat /\ c[a] + 1 \in Int /\ c[b] \in Int
      /\ (a + 1)..b \subseteq 1..n
  OBVIOUS
<1>2. /\ IsFiniteSet((a + 1)..b)
      /\ Cardinality((a + 1)..b) = b - a
      /\ IsFiniteSet((c[a] + 1)..c[b])
      /\ c[a] <= c[b]
      /\ Cardinality((c[a] + 1)..c[b]) = c[b] - c[a]
  <2>1. /\ IsFiniteSet((a + 1)..b)
        /\ Cardinality((a + 1)..b) = IF a + 1 > b THEN 0 ELSE b - (a + 1) + 1
    BY <1>1, FS_Interval
  <2>2. c[a] <= c[b]
    <3>1. CASE a = b
      BY <1>1, <3>1
    <3>2. CASE a < b
      BY <1>1, <3>2
    <3> QED
      BY <1>1, <3>1, <3>2
  <2>3. /\ IsFiniteSet((c[a] + 1)..c[b])
        /\ Cardinality((c[a] + 1)..c[b]) =
             IF c[a] + 1 > c[b] THEN 0 ELSE c[b] - (c[a] + 1) + 1
    BY <1>1, FS_Interval
  <2> QED
    BY <1>1, <2>1, <2>2, <2>3
<1>3. \A i \in (a + 1)..b : c[a] < c[i] /\ c[i] <= c[b] /\ c[i] \in Nat
  <2> TAKE i \in (a + 1)..b
  <2>1. i \in 1..n /\ a < i /\ c[i] \in Nat
    BY <1>1
  <2>2. c[a] < c[i]
    BY <1>1, <2>1
  <2>3. CASE i = b
    BY <1>1, <2>1, <2>2, <2>3
  <2>4. CASE i < b
    BY <1>1, <2>1, <2>2, <2>4
  <2> QED
    BY <2>3, <2>4
<1>4. g \in Injection((a + 1)..b, (c[a] + 1)..c[b])
  <2>1. g \in [(a + 1)..b -> (c[a] + 1)..c[b]]
    BY <1>1, <1>3
  <2>2. \A i, j \in (a + 1)..b : g[i] = g[j] => i = j
    <3> TAKE i, j \in (a + 1)..b
    <3>1. i \in 1..n /\ j \in 1..n /\ g[i] = c[i] /\ g[j] = c[j]
      BY <1>1
    <3>2. c[i] \in Nat /\ c[j] \in Nat /\ (i < j \/ j < i \/ i = j)
      BY <3>1
    <3> QED
      BY <3>1, <3>2
  <2> QED
    BY <2>1, <2>2, Zenon DEF Injection, IsInjective
<1>5. b - a <= c[b] - c[a]
  BY <1>2, <1>4, FS_Injection
<1>6. g \in Surjection((a + 1)..b, S)
  <2>1. \A i \in (a + 1)..b : g[i] \in S
    BY <1>1, <1>3
  <2>2. \A f \in S : \E i \in (a + 1)..b : g[i] = f
    <3> TAKE f \in S
    <3>1. PICK i \in 1..n : c[i] = f
      OBVIOUS
    <3>2. c[a] < c[i] /\ c[i] <= c[b] /\ c[i] \in Nat
      BY <3>1
    <3>3. ~(i < a) /\ i # a /\ ~(b < i)
      BY <1>1, <3>2
    <3>4. i \in (a + 1)..b
      BY <1>1, <3>3
    <3> QED
      BY <3>1, <3>4
  <2>3. g \in [(a + 1)..b -> S]
    BY <2>1
  <2> QED
    BY <2>2, <2>3, Zenon DEF Surjection
<1>7. IsFiniteSet(S) /\ Cardinality(S) <= b - a
  BY <1>2, <1>6, FS_Surjection
<1>8. Cardinality(S) \in Nat
  BY <1>7, FS_CardinalityType
<1> QED
  BY <1>5, <1>7, <1>8

(* The same of the frames captured here.                                   *)
LEMMA CapturedApart ==
  ASSUME OrderInv, NEW a \in 1..Len(captured), NEW b \in a..Len(captured)
  PROVE  /\ b - a <= captured[b] - captured[a]
         /\ Cardinality({f \in Range(captured) :
                           captured[a] < f /\ f <= captured[b]}) <= b - a
         /\ Cardinality({f \in Range(captured) :
                           captured[a] < f /\ f <= captured[b]}) \in Nat
<1>1. /\ captured \in Seq(Frames) /\ Len(captured) \in Nat
      /\ DOMAIN captured = 1..Len(captured)
  BY LenProperties DEF OrderInv, IInv, TypeOK
<1>2. \A i \in 1..Len(captured) : captured[i] \in Nat
  <2>1. \A i \in 1..Len(captured) : captured[i] \in Frames
    BY <1>1, ElementOfSeq
  <2> QED
    BY <2>1, EncodeAssumption DEF Frames
<1>3. \A i, j \in 1..Len(captured) : i < j => captured[i] < captured[j]
  BY DEF OrderInv, Fresh
<1>4. Range(captured) = {captured[i] : i \in 1..Len(captured)}
  BY <1>1 DEF Range
<1> DEFINE n == Len(captured)
           T == {f \in {captured[i] : i \in 1..n} : captured[a] < f /\ f <= captured[b]}
<1>5. n \in Nat /\ a \in 1..n /\ b \in a..n
  BY <1>1
<1>6. (\A i \in 1..n : captured[i] \in Nat)
      /\ (\A i, j \in 1..n : i < j => captured[i] < captured[j])
  BY <1>2, <1>3
<1> HIDE DEF n
<1>7. /\ b - a <= captured[b] - captured[a]
      /\ Cardinality(T) <= b - a /\ Cardinality(T) \in Nat
  BY <1>5, <1>6, Apart
<1>8. T = {f \in Range(captured) : captured[a] < f /\ f <= captured[b]}
  BY <1>4 DEF n
<1> QED
  BY <1>7, <1>8

(* The head of the smoothing queue is the frame captured after those sent. *)
LEMMA HeadIsNext ==
  ASSUME OrderInv, smPc \in {"clock", "anchor", "pace", "send"}
  PROVE  /\ Len(muxed) + 1 \in 1..Len(captured)
         /\ HeadDts = captured[Len(muxed) + 1]
         /\ HeadDts \in Frames
<1> DEFINE q == smoothQ.items
           n == Len(muxed)
<1>1. /\ muxed \in Seq(Frames) /\ q \in Seq(Frames) /\ coded \in Seq(Frames)
      /\ inside \in Seq(Frames) /\ captured \in Seq(Frames)
      /\ EncodedPath \in Seq(Frames) /\ q # <<>>
      /\ IsPrefix(EncodedPath, captured)
  BY PathTypes DEF OrderInv, IInv, Held, PathType, Flow
<1>2. InSmoothing = q
  BY DEF InSmoothing
<1> HIDE DEF q
<1>3. /\ Len(q) \in Nat \ {0} /\ Head(q) = q[1] /\ Head(q) \in Frames
      /\ n \in Nat /\ Len(EncodedPath) \in Nat /\ Len(captured) \in Nat
  BY <1>1, NonEmpty, LenProperties
<1>4. /\ Len(muxed \o q) = n + Len(q) /\ muxed \o q \in Seq(Frames)
      /\ \A m \in 1..n + Len(q) :
           (muxed \o q)[m] = IF m <= n THEN muxed[m] ELSE q[m - n]
  BY <1>1, ConcatProperties
<1>5. IsPrefix(muxed \o q, EncodedPath)
  BY <1>1, <1>2, <1>4, Leading DEF EncodedPath
<1>6. /\ Len(muxed \o q) <= Len(EncodedPath)
      /\ \A m \in 1..Len(muxed \o q) : (muxed \o q)[m] = EncodedPath[m]
  BY <1>1, <1>4, <1>5, PrefixIs
<1>7. /\ Len(EncodedPath) <= Len(captured)
      /\ \A m \in 1..Len(EncodedPath) : EncodedPath[m] = captured[m]
  BY <1>1, PrefixIs
<1> DEFINE k == n + 1
<1>8. /\ k \in 1..n + Len(q) /\ k \in 1..Len(EncodedPath)
      /\ k \in 1..Len(captured) /\ ~(k <= n) /\ k - n = 1
  <2> HIDE DEF n
  <2> QED
    BY <1>3, <1>4, <1>6, <1>7
<1> HIDE DEF k
<1>9. captured[k] = q[1]
  <2>1. (muxed \o q)[k] = q[k - n]
    BY <1>4, <1>8
  <2>2. (muxed \o q)[k] = EncodedPath[k]
    BY <1>4, <1>6, <1>8
  <2>3. EncodedPath[k] = captured[k]
    BY <1>7, <1>8
  <2> QED
    BY <1>8, <2>1, <2>2, <2>3
<1> QED
  BY <1>3, <1>8, <1>9 DEF HeadDts, q, k

(* What the steps below need of the types.                                 *)
PaceTypes ==
  /\ Len(captured) \in Nat /\ Len(muxed) \in Nat
  /\ clock \in Nat /\ startPts \in Int /\ startDts \in Int /\ lastClock \in Int
  /\ MaxPts \in Nat /\ cancelSmoother \in BOOLEAN

(* They follow from the invariant of the order.                            *)
LEMMA PaceTyped ==
  ASSUME OrderInv
  PROVE  PaceTypes
<1>1. captured \in Seq(Frames) /\ muxed \in Seq(Frames)
  BY DEF OrderInv, IInv, TypeOK
<1> QED
  BY <1>1, LenProperties, EncodeAssumption DEF OrderInv, IInv, TypeOK, PaceTypes

(* The clock only adds to what a frame has waited.                         *)
LEMMA PaceInputTick ==
  ASSUME OrderInv, PaceInv, NEW gap \in 0..1, InputTick(gap)
  PROVE  PaceInv'
<1>1. /\ UNCHANGED <<captured, startDts, startPts, lastClock, smPc, muxed,
                     cancelSmoother, bufferComplete>>
      /\ clock' = clock + 1 + gap
  BY DEF InputTick, smVars, smStatics, closeVars
<1>2. PaceTypes
  BY PaceTyped
<1> SUFFICES ASSUME ~cancelSmoother, clock' < MaxPts, Anchored,
                    smPc = "clock" => startDts # -1
             PROVE  \E a \in 1..Len(captured) : PacedSince(a)'
  BY <1>1 DEF PaceInv, Anchored
<1>3. clock < MaxPts
  BY <1>1, <1>2 DEF PaceTypes
<1>4. PICK a \in 1..Len(captured) : PacedSince(a)
  BY <1>3 DEF PaceInv
<1>5. PacedSince(a)'
  BY <1>1, <1>2, <1>4 DEF PacedSince, PaceTypes
<1> QED
  BY <1>5

(* At the bound of the clock nothing more is said.                         *)
LEMMA PaceInputTickOn ==
  ASSUME InputTickOn
  PROVE  PaceInv'
<1>1. clock' = MaxPts
  BY DEF InputTickOn
<1> QED
  BY <1>1, EncodeAssumption DEF PaceInv

(* A frame captured is the last.                                           *)
LEMMA PaceInputFrame ==
  ASSUME OrderInv, PaceInv, InputFrame
  PROVE  PaceInv'
<1>1. /\ UNCHANGED <<clock, startDts, startPts, lastClock, smPc, muxed,
                     cancelSmoother, bufferComplete>>
      /\ captured' = Append(captured, clock)
  BY DEF InputFrame, smVars, smStatics, closeVars
<1>2. captured \in Seq(Frames) /\ clock \in Frames
  <2>1. clock \in 0..MaxPts /\ clock > 0
    BY DEF OrderInv, IInv, TypeOK, Held, InputFrame
  <2> QED
    BY <2>1, EncodeAssumption DEF OrderInv, IInv, TypeOK, Frames
<1>3. /\ Len(captured') = Len(captured) + 1 /\ Len(captured) \in Nat
      /\ \A i \in 1..Len(captured) : captured'[i] = captured[i]
  BY <1>1, <1>2, AppendProperties, LenProperties
<1> SUFFICES ASSUME ~cancelSmoother, clock < MaxPts, Anchored,
                    smPc = "clock" => startDts # -1
             PROVE  \E a \in 1..Len(captured') : PacedSince(a)'
  BY <1>1 DEF PaceInv, Anchored
<1>4. PICK a \in 1..Len(captured) : PacedSince(a)
  BY DEF PaceInv
<1>5. PacedSince(a)' /\ a \in 1..Len(captured')
  BY <1>1, <1>3, <1>4 DEF PacedSince
<1> QED
  BY <1>5

(* A buffer just completed starts a new pacing; a complete one goes on.    *)
LEMMA PaceSmootherTake ==
  ASSUME OrderInv, PaceInv, SmootherTake
  PROVE  PaceInv'
<1>1. /\ UNCHANGED <<clock, captured, startPts, lastClock, muxed, cancelSmoother>>
      /\ smPc = "wait" /\ smPc' = "clock"
      /\ startDts' = IF bufferComplete THEN startDts ELSE -1
  BY DEF SmootherTake, SmootherAwake, inVars, closeVars
<1> SUFFICES ASSUME ~cancelSmoother, clock < MaxPts, startDts' # -1
             PROVE  \E a \in 1..Len(captured) : PacedSince(a)'
  BY <1>1 DEF PaceInv
<1>2. bufferComplete /\ startDts' = startDts
  BY <1>1
<1>3. PICK a \in 1..Len(captured) : PacedSince(a)
  BY <1>1, <1>2 DEF PaceInv, Anchored
<1>4. PacedSince(a)'
  BY <1>1, <1>2, <1>3 DEF PacedSince
<1> QED
  BY <1>4

(* The first frame is the anchor; another is early unless the clock has    *)
(* advanced as much as its dts, hence as many times as there are frames.   *)
LEMMA PaceSmootherClock ==
  ASSUME OrderInv, PaceInv, SmootherClock
  PROVE  PaceInv'
<1> DEFINE b == Len(muxed) + 1
<1>1. /\ UNCHANGED <<clock, captured, muxed, cancelSmoother>>
      /\ smPc = "clock" /\ lastClock' = clock
      /\ startDts' = IF startDts = -1 THEN HeadDts ELSE startDts
  BY DEF SmootherClock, inVars, closeVars
<1>2. /\ b \in 1..Len(captured) /\ HeadDts = captured[b] /\ HeadDts \in Nat
  BY <1>1, HeadIsNext, EncodeAssumption DEF Frames
<1>3. PaceTypes
  BY PaceTyped
<1> SUFFICES ASSUME ~cancelSmoother, clock < MaxPts
             PROVE  \E a \in 1..Len(captured) : PacedSince(a)'
  BY <1>1 DEF PaceInv
<1>4. CASE startDts = -1
  <2>1. smPc' = "anchor" /\ startDts' = HeadDts
    BY <1>1, <1>4 DEF SmootherClock
  <2>2. PICK a \in 1..Len(captured) : a = Len(muxed) + 1
    BY <1>2
  <2>3. PacedSince(a)'
    BY <1>1, <1>2, <2>1, <2>2 DEF PacedSince
  <2> QED
    BY <2>3
<1>5. CASE startDts # -1
  <2>1. /\ startDts' = startDts /\ startPts' = startPts
        /\ smPc' = IF HeadDts - startDts > clock - startPts THEN "pace" ELSE "send"
    BY <1>1, <1>5 DEF SmootherClock
  <2>2. PICK a \in 1..Len(captured) : PacedSince(a)
    BY <1>1, <1>5 DEF PaceInv, Anchored
  <2>3. /\ captured[a] = startDts /\ a <= Len(muxed)
        /\ clock - startPts >= Len(muxed) - a
    BY <1>1, <2>2 DEF PacedSince
  <2>4. b - a <= captured[b] - captured[a]
    <3>1. b \in a..Len(captured)
      BY <1>2, <1>3, <2>3 DEF PaceTypes
    <3> HIDE DEF b
    <3> QED
      BY <3>1, CapturedApart
  <2>5. CASE HeadDts - startDts > clock - startPts
    <3>1. smPc' = "pace"
      BY <2>1, <2>5
    <3>2. PacedSince(a)'
      BY <1>1, <1>3, <2>1, <2>3, <3>1 DEF PacedSince, PaceTypes
    <3> QED
      BY <3>2
  <2>6. CASE ~(HeadDts - startDts > clock - startPts)
    <3>1. smPc' = "send"
      BY <2>1, <2>6
    <3>2. clock - startPts >= Len(muxed) + 1 - a
      BY <1>2, <1>3, <2>3, <2>4, <2>6 DEF PaceTypes
    <3>3. PacedSince(a)'
      BY <1>1, <1>3, <2>1, <2>3, <3>1, <3>2 DEF PacedSince, PaceTypes
    <3> QED
      BY <3>3
  <2> QED
    BY <2>5, <2>6
<1> QED
  BY <1>4, <1>5

(* The clock that wakes the thread is a later one.                         *)
LEMMA PaceSmootherTick ==
  ASSUME OrderInv, PaceInv, SmootherTick
  PROVE  PaceInv'
<1>1. /\ UNCHANGED <<clock, captured, startDts, lastClock, muxed, cancelSmoother>>
      /\ smPc \in {"anchor", "pace"} /\ smPc' = "send"
      /\ startPts' = IF smPc = "anchor" THEN clock ELSE startPts
      /\ clock # lastClock \/ cancelSmoother
  BY DEF SmootherTick, SmootherInClockWait, inVars, closeVars
<1>2. PaceTypes
  BY PaceTyped
<1> SUFFICES ASSUME ~cancelSmoother, clock < MaxPts
             PROVE  \E a \in 1..Len(captured) : PacedSince(a)'
  BY <1>1 DEF PaceInv
<1>3. PICK a \in 1..Len(captured) : PacedSince(a)
  BY <1>1 DEF PaceInv, Anchored
<1>4. PacedSince(a)'
  BY <1>1, <1>2, <1>3 DEF PacedSince, PaceTypes
<1> QED
  BY <1>4

(* From the hand-over to the next look at the queue.                       *)
LEMMA PaceAfterSend ==
  ASSUME OrderInv, PaceInv, SmootherSend \/ SmootherRemove \/ SmootherExitTime
  PROVE  PaceInv'
<1>1. /\ UNCHANGED <<clock, captured, startDts, startPts, lastClock, cancelSmoother>>
      /\ \/ smPc = "send" /\ smPc' = "remove" /\ Len(muxed') = Len(muxed) + 1
         \/ smPc = "remove" /\ smPc' = "exit" /\ muxed' = muxed
         \/ smPc = "exit" /\ smPc' = "wait" /\ muxed' = muxed
  <2>1. CASE SmootherSend
    <3>1. muxed \in Seq(Frames) /\ HeadDts \in Frames
      BY <2>1, HeadIsNext DEF SmootherSend, OrderInv, IInv, TypeOK
    <3>2. Len(Append(muxed, HeadDts)) = Len(muxed) + 1
      BY <3>1, AppendProperties
    <3> QED
      BY <2>1, <3>2 DEF SmootherSend, inVars, closeVars, smStatics
  <2>2. CASE SmootherRemove
    BY <2>2 DEF SmootherRemove, inVars, closeVars, smStatics
  <2>3. CASE SmootherExitTime
    BY <2>3 DEF SmootherExitTime, inVars, closeVars
  <2> QED
    BY <2>1, <2>2, <2>3
<1>2. PaceTypes
  BY PaceTyped
<1> SUFFICES ASSUME ~cancelSmoother, clock < MaxPts
             PROVE  \E a \in 1..Len(captured) : PacedSince(a)'
  BY <1>1 DEF PaceInv
<1>3. PICK a \in 1..Len(captured) : PacedSince(a)
  BY <1>1 DEF PaceInv, Anchored
<1>4. PacedSince(a)'
  BY <1>1, <1>2, <1>3 DEF PacedSince, PaceTypes
<1> QED
  BY <1>4

(* The other steps.                                                        *)
LEMMA PaceStays ==
  ASSUME PaceInv, PaceKept
  PROVE  PaceInv'
<1> SUFFICES ASSUME ~cancelSmoother, clock < MaxPts, Anchored,
                    smPc = "clock" => startDts # -1
             PROVE  \E a \in 1..Len(captured) : PacedSince(a)'
  BY DEF PaceInv, PaceKept, Anchored
<1>1. PICK a \in 1..Len(captured) : PacedSince(a)
  BY DEF PaceInv
<1>2. PacedSince(a)'
  BY <1>1 DEF PacedSince, PaceKept
<1> QED
  BY <1>2

(* Every step keeps the pace.                                              *)
LEMMA StepPace ==
  OrderInv /\ PaceInv /\ [Next]_vars => PaceInv'
<1> SUFFICES ASSUME OrderInv, PaceInv, [Next]_vars PROVE PaceInv'
  OBVIOUS
<1>1. CASE UNCHANGED vars
  <2>1. PaceKept
    BY <1>1 DEF vars, inVars, smVars, smStatics, closeVars, PaceKept
  <2> QED
    BY <2>1, PaceStays
<1>2. CASE SmootherReady
  <2>1. smPc' = "wait" /\ ~bufferComplete'
    BY <1>2 DEF SmootherReady, OrderInv, IInv, Held
  <2> QED
    BY <2>1 DEF PaceInv, Anchored
<1>3. CASE NotPacing'
  BY <1>3 DEF PaceInv, Anchored, NotPacing
<1>4. CASE \E gap \in 0..1 : InputTick(gap)
  BY <1>4, PaceInputTick
<1>5. CASE InputTickOn \/ InputFrame \/ SmootherTake \/ SmootherClock \/ SmootherTick
  BY <1>5, PaceInputTickOn, PaceInputFrame, PaceSmootherTake, PaceSmootherClock,
    PaceSmootherTick
<1>6. CASE SmootherSend \/ SmootherRemove \/ SmootherExitTime
  BY <1>6, PaceAfterSend
<1>7. CASE PaceKept
  BY <1>7, PaceStays
<1>8. CASE Next
  <2>1. OrderInv /\ Next
    BY <1>8
  <2> QED
    BY <1>2, <1>3, <1>4, <1>5, <1>6, <1>7, <2>1, WhoPaces, ZenonT(60)
<1> QED
  BY <1>1, <1>8

(* And it holds at first.                                                  *)
LEMMA InitPace ==
  Init => PaceInv
  BY DEF Init, PaceInv, Anchored

(* encoder_smoothing.c never sends a frame before the input clock has      *)
(* advanced, since the anchor of the pacing, by as many frames as were     *)
(* captured up to it: for every buffer size, and whatever losses of        *)
(* signal, gaps and restarts come between.                                 *)
THEOREM NeverAheadOfClock ==
  Spec => []PacedByClock
<1>1. OrderInv /\ PaceInv => PacedByClock
  <2> SUFFICES ASSUME OrderInv, PaceInv, smPc = "send", ~cancelSmoother, clock < MaxPts
               PROVE  clock - startPts >=
                        Cardinality({f \in Range(captured) : startDts < f /\ f <= HeadDts})
    BY DEF PacedByClock
  <2> DEFINE b == Len(muxed) + 1
             S == {f \in Range(captured) : startDts < f /\ f <= HeadDts}
  <2>1. /\ b \in 1..Len(captured) /\ HeadDts = captured[b]
    BY HeadIsNext
  <2>2. PaceTypes
    BY PaceTyped
  <2>4. PICK a \in 1..Len(captured) : PacedSince(a)
    BY DEF PaceInv, Anchored
  <2>5. captured[a] = startDts /\ a <= b /\ clock - startPts >= b - a
    BY <2>4 DEF PacedSince
  <2>6. b \in a..Len(captured) /\ b \in Int
    BY <2>1, <2>2, <2>5 DEF PaceTypes
  <2> HIDE DEF b
  <2>7. Cardinality({f \in Range(captured) :
                      captured[a] < f /\ f <= captured[b]}) <= b - a
    BY <2>6, CapturedApart
  <2>8. Cardinality(S) <= b - a
    BY <2>1, <2>5, <2>7
  <2>9. Cardinality(S) \in Nat
    BY <2>1, <2>5, <2>6, CapturedApart
  <2> QED
    BY <2>2, <2>5, <2>6, <2>8, <2>9 DEF PaceTypes
<1>2. Spec => [](OrderInv /\ PaceInv)
  BY InitOrder, InitPace, StepOrder, StepPace, PTL DEF Spec
<1> QED
  BY <1>1, <1>2, PTL
=============================================================================
