---------------------------- MODULE EncSmoothing ----------------------------
(***************************************************************************)
(* The encoder smoothing thread (encoders/encoder_smoothing.c).  It holds  *)
(* coded frames until BufferFrames of them are queued, then sends one at a *)
(* time to the muxer, paced by the clock of the input: a frame that is not *)
(* due waits for one tick of the clock.                                    *)
(*                                                                         *)
(* num, startDts, startPts and lastClock are static variables: they keep   *)
(* their values when the encoder is stopped and started again.             *)
(***************************************************************************)
EXTENDS EncodeState

Smoother == "smoother"

(* It waits on the encoder's in_cv until the encoder is open.  This wait   *)
(* does not look at the cancel flag.                                       *)
SmootherReadySleep ==
  /\ smPc = "ready" /\ Smoother \notin encQ.in /\ ~ready
  /\ encQ' = SleepIn(encQ, Smoother)
  /\ UNCHANGED <<inVars, clockWait, encVars, smVars, smoothQ, bufferComplete,
                 muxed, freed, closeVars>>

SmootherReady ==
  /\ smPc = "ready" /\ Smoother \notin encQ.in /\ ready
  /\ smPc' = "wait"
  /\ UNCHANGED <<inVars, clockWait, encVars, encQ, lastExit, smStatics,
                 smoothQ, bufferComplete, muxed, freed, closeVars>>

SmootherAwake == smPc = "wait" /\ Smoother \notin smoothQ.in

(* It sleeps until the queue is longer than when it last looked.           *)
SmootherSleep ==
  /\ SmootherAwake /\ Len(smoothQ.items) = num /\ ~cancelSmoother
  /\ smoothQ' = SleepIn(smoothQ, Smoother)
  /\ UNCHANGED <<inVars, clockWait, encVars, encQ, smVars, bufferComplete,
                 muxed, freed, closeVars>>

SmootherCancelled ==
  /\ SmootherAwake /\ cancelSmoother
  /\ smPc' = "done"
  /\ UNCHANGED <<inVars, clockWait, encVars, encQ, lastExit, smStatics,
                 smoothQ, bufferComplete, muxed, freed, closeVars>>

(* Fault: the number of missing frames is kept instead.                    *)
SmootherBufferMissing ==
  /\ SmootherAwake /\ Len(smoothQ.items) # num /\ ~cancelSmoother
  /\ ~bufferComplete /\ Len(smoothQ.items) < BufferFrames
  /\ num' = Len(smoothQ.items) - BufferFrames
  /\ UNCHANGED <<inVars, clockWait, encVars, encQ, smPc, lastExit, startDts,
                 startPts, lastClock, smoothQ, bufferComplete, muxed, freed,
                 closeVars>>

(* Still buffering, and too few frames: look again when there are more.    *)
SmootherBuffer ==
  /\ SmootherAwake /\ Len(smoothQ.items) # num /\ ~cancelSmoother
  /\ ~bufferComplete /\ Len(smoothQ.items) < BufferFrames
  /\ num' = Len(smoothQ.items)
  /\ UNCHANGED <<inVars, clockWait, encVars, encQ, smPc, lastExit, startDts,
                 startPts, lastClock, smoothQ, bufferComplete, muxed, freed,
                 closeVars>>

(* Fault: the buffer is complete one frame too early.                      *)
SmootherTakeEarly ==
  /\ SmootherAwake /\ Len(smoothQ.items) # num /\ ~cancelSmoother
  /\ bufferComplete \/ Len(smoothQ.items) >= BufferFrames - 1
  /\ num' = Len(smoothQ.items)
  /\ bufferComplete' = TRUE
  /\ startDts' = IF bufferComplete THEN startDts ELSE -1
  /\ smPc' = "clock"
  /\ UNCHANGED <<inVars, clockWait, encVars, encQ, lastExit, startPts,
                 lastClock, smoothQ, muxed, freed, closeVars>>

(* The head is taken, not removed.  A buffer just completed is paced from  *)
(* its first frame.                                                        *)
SmootherTake ==
  /\ SmootherAwake /\ Len(smoothQ.items) # num /\ ~cancelSmoother
  /\ bufferComplete \/ Len(smoothQ.items) >= BufferFrames
  /\ num' = Len(smoothQ.items)
  /\ bufferComplete' = TRUE
  /\ startDts' = IF bufferComplete THEN startDts ELSE -1
  /\ smPc' = "clock"
  /\ UNCHANGED <<inVars, clockWait, encVars, encQ, lastExit, startPts,
                 lastClock, smoothQ, muxed, freed, closeVars>>

HeadDts == Head(smoothQ.items)

(* With the clock's mutex: a first frame, and one that is not due, wait    *)
(* for a tick; a late one does not.                                        *)
SmootherClock ==
  /\ smPc = "clock"
  /\ lastClock' = clock
  /\ startDts' = IF startDts = -1 THEN HeadDts ELSE startDts
  /\ LET first == startDts = -1
         early == ~first /\ HeadDts - startDts > clock - startPts
     IN  /\ clockWait' = IF (first \/ early) /\ ~cancelSmoother
                           THEN clockWait \cup {Smoother} ELSE clockWait
         /\ startPts' = IF first /\ cancelSmoother THEN clock ELSE startPts
         /\ smPc' = CASE cancelSmoother -> "send"
                      [] first -> "anchor"
                      [] early -> "pace"
                      [] OTHER -> "send"
  /\ UNCHANGED <<inVars, encVars, encQ, lastExit, num, smoothQ,
                 bufferComplete, muxed, freed, closeVars>>

SmootherInClockWait == smPc \in {"anchor", "pace"} /\ Smoother \notin clockWait

(* Woken without a new time: it sleeps again.                              *)
SmootherClockSleep ==
  /\ SmootherInClockWait /\ clock = lastClock /\ ~cancelSmoother
  /\ clockWait' = clockWait \cup {Smoother}
  /\ UNCHANGED <<inVars, encVars, encQ, smVars, smoothQ, bufferComplete,
                 muxed, freed, closeVars>>

(* Fault: the anchor keeps the time of an earlier run.                     *)
SmootherTickNoAnchor ==
  /\ SmootherInClockWait /\ (clock # lastClock \/ cancelSmoother)
  /\ smPc' = "send"
  /\ UNCHANGED <<inVars, clockWait, encVars, encQ, lastExit, num, startDts,
                 startPts, lastClock, smoothQ, bufferComplete, muxed, freed,
                 closeVars>>

SmootherTick ==
  /\ SmootherInClockWait /\ (clock # lastClock \/ cancelSmoother)
  /\ startPts' = IF smPc = "anchor" THEN clock ELSE startPts
  /\ smPc' = "send"
  /\ UNCHANGED <<inVars, clockWait, encVars, encQ, lastExit, num, startDts,
                 lastClock, smoothQ, bufferComplete, muxed, freed, closeVars>>

(* The frame is queued for the muxer while it is still the head here.      *)
SmootherSend ==
  /\ smPc = "send"
  /\ smPc' = "remove"
  /\ muxed' = Append(muxed, HeadDts)
  /\ UNCHANGED <<inVars, clockWait, encVars, encQ, lastExit, smStatics,
                 smoothQ, bufferComplete, freed, closeVars>>

SmootherRemove ==
  /\ smPc = "remove"
  /\ smPc' = "exit"
  /\ smoothQ' \in RemoveFromQueue(smoothQ)
  /\ UNCHANGED <<inVars, clockWait, encVars, encQ, lastExit, smStatics,
                 bufferComplete, muxed, freed, closeVars>>

(* The exit time is set in a critical section of its own, with no signal.  *)
SmootherExitTime ==
  /\ smPc = "exit"
  /\ smPc' = "wait"
  /\ lastExit' = Last(muxed)
  /\ num' = 0
  /\ UNCHANGED <<inVars, clockWait, encVars, encQ, startDts, startPts,
                 lastClock, smoothQ, bufferComplete, muxed, freed, closeVars>>

SmootherStep ==
  \/ SmootherReadySleep
  \/ SmootherReady
  \/ SmootherSleep
  \/ SmootherCancelled
  \/ SmootherBuffer
  \/ SmootherTake
  \/ SmootherClock
  \/ SmootherClockSleep
  \/ SmootherTick
  \/ SmootherSend
  \/ SmootherRemove
  \/ SmootherExitTime
=============================================================================
