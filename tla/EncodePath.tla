----------------------------- MODULE EncodePath -----------------------------
(***************************************************************************)
(* The video path from the input to the muxer's queue: the input, the      *)
(* encoder thread and the smoothing thread, and obe_close, which stops     *)
(* them in that order while they run.                                      *)
(***************************************************************************)
EXTENDS VideoEncoder, EncSmoothing

Closing == closePc # "run"

(* obe_close: the input thread is cancelled and joined; no tick follows.   *)
CloseInput ==
  /\ closePc = "run" /\ inPc = "idle"
  /\ closePc' = "filters"
  /\ UNCHANGED <<inVars, clockWait, encVars, encQ, smVars, smoothQ,
                 bufferComplete, muxed, freed, cancelEncoder, cancelSmoother,
                 starts>>

(* The filters are cancelled and joined; what they hold stays there.       *)
CloseFilters ==
  /\ closePc = "filters"
  /\ closePc' = "encoder"
  /\ UNCHANGED <<inVars, clockWait, encVars, encQ, smVars, smoothQ,
                 bufferComplete, muxed, freed, cancelEncoder, cancelSmoother,
                 starts>>

(* Fault: the signal is forgotten.                                         *)
CancelEncoderSilently ==
  /\ closePc = "encoder"
  /\ closePc' = "joinEncoder"
  /\ cancelEncoder' = TRUE
  /\ UNCHANGED <<inVars, clockWait, encVars, encQ, smVars, smoothQ,
                 bufferComplete, muxed, freed, cancelSmoother, starts>>

CancelEncoder ==
  /\ closePc = "encoder"
  /\ closePc' = "joinEncoder"
  /\ cancelEncoder' = TRUE
  /\ encQ' \in SignalIn(encQ)
  /\ UNCHANGED <<inVars, clockWait, encVars, smVars, smoothQ, bufferComplete,
                 muxed, freed, cancelSmoother, starts>>

JoinEncoder ==
  /\ closePc = "joinEncoder" /\ encPc = "done"
  /\ closePc' = IF Generic THEN "smoother" ELSE "closed"
  /\ UNCHANGED <<inVars, clockWait, encVars, encQ, smVars, smoothQ,
                 bufferComplete, muxed, freed, cancelEncoder, cancelSmoother,
                 starts>>

CancelSmoother ==
  /\ closePc = "smoother"
  /\ closePc' = "clock"
  /\ cancelSmoother' = TRUE
  /\ smoothQ' \in SignalIn(smoothQ)
  /\ UNCHANGED <<inVars, clockWait, encVars, encQ, smVars, bufferComplete,
                 muxed, freed, cancelEncoder, starts>>

(* Fault: nobody is woken.                                                 *)
BroadcastNoClock ==
  /\ closePc = "clock"
  /\ closePc' = "joinSmoother"
  /\ UNCHANGED <<inVars, clockWait, encVars, encQ, smVars, smoothQ,
                 bufferComplete, muxed, freed, cancelEncoder, cancelSmoother,
                 starts>>

(* "send a clock tick in case smoothing is waiting for one"                *)
BroadcastClock ==
  /\ closePc = "clock"
  /\ closePc' = "joinSmoother"
  /\ clockWait' = {}
  /\ UNCHANGED <<inVars, encVars, encQ, smVars, smoothQ, bufferComplete,
                 muxed, freed, cancelEncoder, cancelSmoother, starts>>

JoinSmoother ==
  /\ closePc = "joinSmoother" /\ smPc = "done"
  /\ closePc' = "closed"
  /\ UNCHANGED <<inVars, clockWait, encVars, encQ, smVars, smoothQ,
                 bufferComplete, muxed, freed, cancelEncoder, cancelSmoother,
                 starts>>

(* A new obe_setup and obe_start in the same process: obe_t is zeroed, the *)
(* statics of encoder_smoothing.c are not.                                 *)
Restart ==
  /\ closePc = "closed" /\ starts < MaxStarts
  /\ starts' = starts + 1
  /\ inPc' = "idle" /\ clock' = 0 /\ clockWait' = {} /\ drop' = FALSE
  /\ filterQ' = <<>> /\ captured' = <<>>
  /\ encPc' = "open" /\ encQ' = EmptyQueue /\ ready' = FALSE
  /\ inside' = <<>> /\ coded' = <<>>
  /\ smPc' = (IF Generic THEN "ready" ELSE "none")
  /\ smoothQ' = EmptyQueue /\ bufferComplete' = FALSE /\ lastExit' = 0
  /\ muxed' = <<>> /\ freed' = 0
  /\ closePc' = "run" /\ cancelEncoder' = FALSE /\ cancelSmoother' = FALSE
  /\ UNCHANGED <<smStatics, aborted>>

CloseStep ==
  \/ CloseFilters
  \/ CancelEncoder
  \/ JoinEncoder
  \/ CancelSmoother
  \/ BroadcastClock
  \/ JoinSmoother

Next ==
  /\ ~aborted
  /\ \/ \E gap \in 0..1 : InputTick(gap)
     \/ InputTickOn
     \/ InputBroadcast
     \/ InputDrop
     \/ InputFrame
     \/ FilterForward
     \/ EncoderStep
     \/ SmootherStep
     \/ MuxFree
     \/ CloseInput
     \/ CloseStep
     \/ Restart

Spec == Init /\ [][Next]_vars

(* Threads are scheduled by the system and locks are handed on, so every   *)
(* thread that can step does; while the source is connected its clock      *)
(* ticks.  Nobody has to stop the encoder, and no signal has to be lost.   *)
Fairness ==
  /\ WF_vars(InputTick(0)) /\ WF_vars(InputTickOn) /\ WF_vars(InputBroadcast)
  /\ WF_vars(InputDrop) /\ WF_vars(InputFrame)
  /\ WF_vars(FilterForward)
  /\ WF_vars(EncoderStep) /\ WF_vars(SmootherStep) /\ WF_vars(CloseStep)

FairSpec == Init /\ [][Next]_vars /\ Fairness
-----------------------------------------------------------------------------
TypeOK ==
  /\ inPc \in {"idle", "tick", "late", "beat", "lost", "frame"}
  /\ clock \in 0..MaxPts /\ clockWait \in SUBSET {Smoother} /\ drop \in BOOLEAN
  /\ filterQ \in Seq(Frames) /\ captured \in Seq(Frames)
  /\ encPc \in {"open", "wait", "speed", "encode", "queue", "done"}
  /\ encQ \in Queue(Frames, Threads)
  /\ ready \in BOOLEAN /\ cancelEncoder \in BOOLEAN /\ aborted \in BOOLEAN
  /\ inside \in Seq(Frames) /\ coded \in Seq(Frames)
  /\ smPc \in {"none", "ready", "wait", "clock", "anchor", "pace", "send",
               "remove", "exit", "done"}
  /\ smoothQ \in Queue(Frames, Threads)
  /\ bufferComplete \in BOOLEAN /\ cancelSmoother \in BOOLEAN
  /\ lastExit \in 0..MaxPts /\ num \in Nat
  /\ startDts \in -1..MaxPts /\ startPts \in -1..MaxPts
  /\ lastClock \in -1..MaxPts
  /\ muxed \in Seq(Frames) /\ freed \in Nat /\ starts \in Nat
  /\ closePc \in {"run", "filters", "encoder", "joinEncoder", "smoother",
                  "clock", "joinSmoother", "closed"}

(* A thread that sleeps has nothing to do: whatever makes the predicate of *)
(* its wait true also wakes it, even when the signal of another use of the *)
(* same condition variable comes between.  (The encoder's wait for the     *)
(* first exit time is not of this kind, see EncoderNotStranded.)           *)
NoLostWakeup ==
  /\ Encoder \in encQ.in => encPc = "wait" /\ Empty(encQ) /\ ~cancelEncoder
  /\ Smoother \in encQ.in => smPc = "ready" /\ ~ready
  /\ Smoother \in smoothQ.in =>
       smPc = "wait" /\ Len(smoothQ.items) = num /\ ~cancelSmoother
  /\ Smoother \in clockWait =>
       /\ smPc \in {"anchor", "pace"}
       /\ clock = lastClock \/ Ticking
       /\ cancelSmoother => closePc = "clock"

(* The encoder waiting for the first frame to leave and the smoothing      *)
(* thread waiting for more frames would wait for each other for ever.  The *)
(* signal of the first removal comes before the exit time is set, so the   *)
(* encoder can miss it, and it is the next frame that saves it: the buffer *)
(* must hold two.                                                          *)
EncoderNotStranded ==
  BufferFrames > 1 =>
    ~(Encoder \in smoothQ.out /\ Smoother \in smoothQ.in)

InSmoothing == IF smPc = "remove" THEN Tail(smoothQ.items) ELSE smoothQ.items
EncodedPath == muxed \o InSmoothing \o coded \o inside

FreedFrames == {muxed[i] : i \in 1..freed}

(* The muxer may destroy a frame the smoothing queue still holds, and      *)
(* speed control, which reads the head's times there, may read it then.    *)
(* This bounds the window: only the head, and only in the hand-over,       *)
(* between add_to_queue and remove_from_queue.                             *)
FreedOnlyInHandOver ==
  \A i \in DOMAIN smoothQ.items :
    smoothQ.items[i] \in FreedFrames => i = 1 /\ smPc = "remove"

(* From the capture to the muxer's queue no frame is lost, repeated or     *)
(* overtaken, whatever drop or stop comes between.  A frame being handed   *)
(* over is in two queues at once and counts once; no other frame of the    *)
(* smoothing queue may be destroyed already.                               *)
PathInOrder ==
  /\ IsPrefix(EncodedPath, captured)
  /\ encPc # "done" => EncodedPath \o encQ.items \o filterQ = captured
  /\ FreedOnlyInHandOver

(* One tick of waiting per frame is enough: a frame is never sent before   *)
(* the input clock has advanced, since the anchor, by as many frames as    *)
(* were captured up to it.  Where the capture has no gap that is its dts;  *)
(* after a gap the frame may leave early, by the length of the gap.  (Up   *)
(* to the bound of the clock.)                                             *)
PacedByClock ==
  smPc = "send" /\ ~cancelSmoother /\ clock < MaxPts =>
    clock - startPts >=
      Cardinality({f \in Range(captured) : startDts < f /\ f <= HeadDts})

-----------------------------------------------------------------------------
(* obe_close returns if it begins when the first exit time is set and the *)
(* encoder is not still asleep waiting for it.                             *)
CloseReturns ==
  (Closing /\ (Generic => lastExit # 0 /\ Encoder \notin smoothQ.out)) ~>
    (closePc = "closed" \/ aborted)

(* While the clock ticks, the head of a complete smoothing buffer leaves   *)
(* it, whatever the length of the queue was when the thread last looked.   *)
HeadLeaves ==
  (bufferComplete /\ ~Empty(smoothQ)) ~>
    (smPc = "remove" \/ ~bufferComplete \/ Closing \/ aborted)

(* obe_close returns whenever it is called: it cancels each thread, and    *)
(* sends "a clock tick in case smoothing is waiting for one" (obe.c:1891). *)
CloseAlwaysReturns == Closing ~> (closePc = "closed" \/ aborted)

=============================================================================
