---------------------------- MODULE VideoEncoder ----------------------------
(***************************************************************************)
(* The video encoder thread (encoders/video/avc/x264.c): it takes the head *)
(* of its queue, encodes it while the frame stays queued, removes it, and  *)
(* queues the coded frame for the smoothing thread, or for the muxer in    *)
(* the low latency modes.  The other video encoders have the same loop.    *)
(*                                                                         *)
(* The code from a lock to the last unlock of nested locks is one step:    *)
(* locks are only acquired, then only released.                            *)
(***************************************************************************)
EXTENDS EncodeState

Encoder == "encoder"

(* The encoder is opened under the mutex of its queue; every thread that   *)
(* waits for it sleeps on in_cv.                                           *)
EncoderOpen ==
  /\ encPc = "open"
  /\ encPc' = "wait"
  /\ ready' = TRUE
  /\ encQ' = BroadcastIn(encQ)
  /\ UNCHANGED <<inVars, clockWait, inside, coded, aborted, smVars, smoothQ,
                 bufferComplete, muxed, freed, closeVars>>

(* The configuration is refused: the thread ends, nobody is told.          *)
EncoderOpenFails ==
  /\ OpenCanFail
  /\ encPc = "open"
  /\ encPc' = "done"
  /\ UNCHANGED <<inVars, clockWait, ready, inside, coded, aborted, encQ,
                 smVars, smoothQ, bufferComplete, muxed, freed, closeVars>>

EncoderAwake == encPc = "wait" /\ Encoder \notin encQ.in

EncoderSleep ==
  /\ EncoderAwake /\ Empty(encQ) /\ ~cancelEncoder
  /\ encQ' = SleepIn(encQ, Encoder)
  /\ UNCHANGED <<inVars, clockWait, encVars, smVars, smoothQ, bufferComplete,
                 muxed, freed, closeVars>>

EncoderCancelled ==
  /\ EncoderAwake /\ cancelEncoder
  /\ encPc' = "done"
  /\ UNCHANGED <<inVars, clockWait, ready, inside, coded, aborted, encQ,
                 smVars, smoothQ, bufferComplete, muxed, freed, closeVars>>

(* Too many frames are waiting: exit(1).                                   *)
EncoderAborts ==
  /\ EncoderAwake /\ ~cancelEncoder
  /\ Len(encQ.items) > MaxBacklog
  /\ aborted' = TRUE
  /\ UNCHANGED <<inVars, clockWait, encPc, ready, inside, coded, encQ, smVars,
                 smoothQ, bufferComplete, muxed, freed, closeVars>>

(* The head is taken, not removed.  After a loss of signal the smoothing   *)
(* buffer is to be filled again.                                           *)
EncoderTake ==
  /\ EncoderAwake /\ ~cancelEncoder
  /\ Len(encQ.items) \in 1..MaxBacklog
  /\ encPc' = IF Generic THEN "speed" ELSE "encode"
  /\ bufferComplete' = (bufferComplete /\ ~drop)
  /\ drop' = FALSE
  /\ UNCHANGED <<inPc, clock, filterQ, captured, clockWait, ready, inside,
                 coded, aborted, encQ, smVars, smoothQ, muxed, freed,
                 closeVars>>

(* Speed control wants the fill of the smoothing buffer, and for that a    *)
(* first frame to have left it.  This wait does not look at cancel_thread. *)
EncoderAtSpeedControl == encPc = "speed" /\ Encoder \notin smoothQ.out

EncoderSpeedSleep ==
  /\ EncoderAtSpeedControl
  /\ bufferComplete /\ lastExit = 0
  /\ smoothQ' = SleepOut(smoothQ, Encoder)
  /\ UNCHANGED <<inVars, clockWait, encVars, encQ, smVars, bufferComplete,
                 muxed, freed, closeVars>>

EncoderSpeedControl ==
  /\ EncoderAtSpeedControl
  /\ ~bufferComplete \/ lastExit # 0
  /\ encPc' = "encode"
  /\ UNCHANGED <<inVars, clockWait, ready, inside, coded, aborted, encQ,
                 smVars, smoothQ, bufferComplete, muxed, freed, closeVars>>

(* x264 takes the frame and returns the oldest one it holds, or none yet.  *)
(* The raw frame is released and removed from the queue.                   *)
EncoderEncode ==
  /\ encPc = "encode"
  /\ encQ' \in RemoveFromQueue(encQ)
  /\ LET held == Append(inside, Head(encQ.items)) IN
       \/ /\ Len(held) <= MaxDelay
          /\ inside' = held
          /\ encPc' = "wait"
          /\ UNCHANGED coded
       \/ /\ inside' = Tail(held)
          /\ coded' = <<Head(held)>>
          /\ encPc' = "queue"
  /\ UNCHANGED <<inVars, clockWait, ready, aborted, smVars, smoothQ,
                 bufferComplete, muxed, freed, closeVars>>

(* Fault: the loop goes on with the next frame.                            *)
EncoderSkipsFrame ==
  /\ EncodeCanFail
  /\ encPc = "encode"
  /\ encQ' \in RemoveFromQueue(encQ)
  /\ encPc' = "wait"
  /\ UNCHANGED <<inVars, clockWait, ready, inside, coded, aborted, smVars,
                 smoothQ, bufferComplete, muxed, freed, closeVars>>

(* Encoding fails: the frame is removed and the thread ends.               *)
EncoderEncodeFails ==
  /\ EncodeCanFail
  /\ encPc = "encode"
  /\ encQ' \in RemoveFromQueue(encQ)
  /\ encPc' = "done"
  /\ UNCHANGED <<inVars, clockWait, ready, inside, coded, aborted, smVars,
                 smoothQ, bufferComplete, muxed, freed, closeVars>>

(* The coded frame is queued for smoothing, or straight for the muxer.     *)
EncoderQueue ==
  /\ encPc = "queue"
  /\ encPc' = "wait"
  /\ coded' = <<>>
  /\ IF Generic
       THEN smoothQ' \in AddToQueue(smoothQ, coded[1]) /\ UNCHANGED muxed
       ELSE muxed' = Append(muxed, coded[1]) /\ UNCHANGED smoothQ
  /\ UNCHANGED <<inVars, clockWait, ready, inside, aborted, encQ, smVars,
                 bufferComplete, freed, closeVars>>

EncoderStep ==
  \/ EncoderOpen
  \/ EncoderOpenFails
  \/ EncoderSleep
  \/ EncoderCancelled
  \/ EncoderAborts
  \/ EncoderTake
  \/ EncoderSpeedSleep
  \/ EncoderSpeedControl
  \/ EncoderEncode
  \/ EncoderEncodeFails
  \/ EncoderQueue
=============================================================================
