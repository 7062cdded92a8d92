----------------------------- MODULE EncodeState -----------------------------
(***************************************************************************)
(* The state that the input callback, the video encoder thread, the        *)
(* encoder smoothing thread and obe_close share, and the part of the       *)
(* input that feeds them: the SDI clock, the captured frames and the       *)
(* drop flag.                                                              *)
(*                                                                         *)
(* A frame is its presentation time, a natural number; captured frames     *)
(* have increasing times.  A coded frame is the frame it codes: its dts    *)
(* is the time of that frame, as the encoder's dts are those of the input  *)
(* shifted by a constant.                                                  *)
(***************************************************************************)
EXTENDS Integers, ObeQueue

CONSTANTS
  Generic,      (* obe_system is GENERIC: there is a smoothing thread       *)
  BufferFrames, (* sc.i_buffer_size: frames buffered before one is sent     *)
  MaxBacklog,   (* the 1800 frames after which the encoder aborts           *)
  MaxDelay,     (* bound: frames inside the encoder                         *)
  MaxPts,       (* bound: the last time of the input clock                  *)
  MaxStarts,    (* bound: how often the encoder is started in one process   *)
  OpenCanFail,  (* the encoder library may refuse its configuration         *)
  EncodeCanFail (* the encoder library may fail to encode a frame           *)

ASSUME EncodeAssumption ==
  /\ Generic \in BOOLEAN
  /\ OpenCanFail \in BOOLEAN
  /\ EncodeCanFail \in BOOLEAN
  /\ BufferFrames \in Nat \ {0}
  /\ MaxBacklog \in Nat \ {0}
  /\ {MaxDelay, MaxPts, MaxStarts} \subseteq Nat

VARIABLES
  (* the input *)
  inPc,            (* where the frame callback is                           *)
  clock,           (* obe_clock_last_pts                                    *)
  clockWait,       (* threads asleep on obe_clock_cv                        *)
  drop,            (* video_encoder_drop                                    *)
  filterQ,         (* frames captured, still in the video filter            *)
  captured,        (* history: every frame captured                         *)
  (* the encoder thread *)
  encPc, encQ,
  ready,           (* is_ready                                              *)
  cancelEncoder,   (* the encoder's cancel_thread                           *)
  inside,          (* frames x264 has taken and not returned yet            *)
  coded,           (* the coded frame about to be queued                    *)
  aborted,         (* exit(1): the process is gone                          *)
  (* the smoothing thread *)
  smPc, smoothQ,   (* enc_smoothing_queue                                   *)
  bufferComplete,  (* enc_smoothing_buffer_complete                         *)
  lastExit,        (* enc_smoothing_last_exit_time: 0, or the frame whose   *)
                   (* removal it records                                    *)
  cancelSmoother,  (* cancel_enc_smoothing_thread                           *)
  num, startDts, startPts, lastClock,  (* its static variables              *)
  (* the muxer's side *)
  muxed,           (* every frame put on mux_queue                          *)
  freed,           (* how many of them the muxer has destroyed              *)
  (* obe_close *)
  closePc, starts

inVars     == <<inPc, clock, drop, filterQ, captured>>
encVars    == <<encPc, ready, inside, coded, aborted>>
smStatics  == <<num, startDts, startPts, lastClock>>
smVars     == <<smPc, lastExit, smStatics>>
closeVars  == <<closePc, cancelEncoder, cancelSmoother, starts>>
vars == <<inVars, clockWait, encVars, encQ, smVars, smoothQ, bufferComplete,
          muxed, freed, closeVars>>

Frames  == 1..MaxPts
Threads == {"encoder", "smoother"}
Empty(q) == q.items = <<>>

(* What obe_setup and obe_start leave, and the statics of                  *)
(* encoder_smoothing.c as the program is loaded.                           *)
Init ==
  /\ inPc = "idle" /\ clock = 0 /\ clockWait = {} /\ drop = FALSE
  /\ filterQ = <<>> /\ captured = <<>>
  /\ encPc = "open" /\ encQ = EmptyQueue /\ ready = FALSE
  /\ inside = <<>> /\ coded = <<>> /\ aborted = FALSE
  /\ smPc = (IF Generic THEN "ready" ELSE "none")
  /\ smoothQ = EmptyQueue /\ bufferComplete = FALSE /\ lastExit = 0
  /\ num = 0 /\ startDts = -1 /\ startPts = -1 /\ lastClock = -1
  /\ muxed = <<>> /\ freed = 0
  /\ closePc = "run" /\ cancelEncoder = FALSE /\ cancelSmoother = FALSE
  /\ starts = 1
-----------------------------------------------------------------------------
Ticking == inPc \in {"tick", "late", "beat"}

(* obe_clock_tick, first half: the callback stores the time of the frame   *)
(* under the clock's mutex.  A gap in the input makes it jump.             *)
InputTick(gap) ==
  /\ inPc = "idle" /\ closePc = "run"
  /\ clock + 1 + gap <= MaxPts
  /\ clock' = clock + 1 + gap
  /\ inPc' = IF gap = 0 THEN "tick" ELSE "late"
  /\ UNCHANGED <<drop, filterQ, captured, clockWait, encVars, encQ, smVars,
                 smoothQ, bufferComplete, muxed, freed, closeVars>>

(* At the bound the clock goes on, but its values are told apart no more:  *)
(* each differs from the one that was looked at before.  Frames after the  *)
(* bound are not modelled.                                                 *)
InputTickOn ==
  /\ inPc = "idle" /\ closePc = "run"
  /\ clock = MaxPts
  /\ lastClock' = -1
  /\ inPc' = "beat"
  /\ UNCHANGED <<clock, drop, filterQ, captured, clockWait, encVars, encQ, smPc,
                 lastExit, num, startDts, startPts, smoothQ, bufferComplete,
                 muxed, freed, closeVars>>

(* Fault: nobody is woken.                                                 *)
InputNoBroadcast ==
  /\ Ticking
  /\ inPc' \in CASE inPc = "tick" -> {"frame"}
               [] inPc = "late" -> {"frame", "lost"}
               [] inPc = "beat" -> {"idle"}
  /\ UNCHANGED <<clock, drop, filterQ, captured, clockWait, encVars, encQ,
                 smVars, smoothQ, bufferComplete, muxed, freed, closeVars>>

(* obe_clock_tick, second half: it wakes every sleeper after it unlocked.  *)
(* A frame is late enough to be a loss of signal, or not (g_sdi_max_delay).*)
InputBroadcast ==
  /\ Ticking
  /\ clockWait' = {}
  /\ inPc' \in CASE inPc = "tick" -> {"frame"}
               [] inPc = "late" -> {"frame", "lost"}
               [] inPc = "beat" -> {"idle"}
  /\ UNCHANGED <<clock, drop, filterQ, captured, encVars, encQ, smVars,
                 smoothQ, bufferComplete, muxed, freed, closeVars>>

(* No frame came for g_sdi_max_delay: the drop flags are set.              *)
InputDrop ==
  /\ inPc = "lost"
  /\ inPc' = "frame"
  /\ drop' = TRUE
  /\ UNCHANGED <<clock, filterQ, captured, clockWait, encVars, encQ, smVars,
                 smoothQ, bufferComplete, muxed, freed, closeVars>>

(* The frame itself goes to the video filter.                              *)
InputFrame ==
  /\ inPc = "frame"
  /\ inPc' = "idle"
  /\ filterQ' = Append(filterQ, clock)
  /\ captured' = Append(captured, clock)
  /\ UNCHANGED <<clock, drop, clockWait, encVars, encQ, smVars, smoothQ,
                 bufferComplete, muxed, freed, closeVars>>

(* The video filter hands a frame to the encoder (add_to_encode_queue).    *)
FilterForward ==
  /\ closePc \in {"run", "filters"}
  /\ filterQ # <<>>
  /\ filterQ' = Tail(filterQ)
  /\ encQ' \in AddToQueue(encQ, Head(filterQ))
  /\ UNCHANGED <<inPc, clock, drop, captured, clockWait, encVars, smVars,
                 smoothQ, bufferComplete, muxed, freed, closeVars>>

(* The muxer is done with the oldest frame it was given and destroys it.   *)
MuxFree ==
  /\ freed < Len(muxed)
  /\ freed' = freed + 1
  /\ UNCHANGED <<inVars, clockWait, encVars, encQ, smVars, smoothQ,
                 bufferComplete, muxed, closeVars>>
=============================================================================
