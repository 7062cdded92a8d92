------------------------------ MODULE MCInputs ------------------------------
(* The inputs, one per mode: the frame callback of decklink, its format,   *)
(* the capture threads of an input and how they are stopped, the clocks    *)
(* that inputs make up, the buffers of bluefish and the card vega.         *)
EXTENDS Integers, Sequences

CONSTANTS
  MaxInjected, SdiMaxDelay, LosExit, MissingLimit, Window, Sd, Skips, Troubles,
  MaxTroubles, CallbacksTo,                                      \* decklink
  WaitOrder, ProbeThreads, CanBreak, CanReturn,                  \* threads
  Kinds, Starts, Period, Scale, IntRange, MomentsTo, MaxStarts,  \* clocks
  Buffers, InterruptsTo,                                         \* bluefish
  Wrap, Step, FirstTime, Patterns, MaxSei, PicturesTo, MaxMade,      \* vega
  Modes, Others, Ntsc, P2398, Enough, MaxChanges, MaxProbes      \* format

VARIABLES mode,
  inject, now, up, lastFrame, cached, injected, lastPts, meter, missing, frame, seen,
  captions, dropped, queued, released, vanc, trouble, quiet,
  opener, probing, cancelled, closeAt, awaited, overruled, pc, running,
  complete, terminate, freed,
  kind, start, moment, since, starts, clockUp, taken, clockCounter, samples, base,
  reset, clock, video, audio, lastTick, drop, lost, timeouts, truncated, earlier,
  interrupts, signal, filling, requested, content, schedule, capturing, done,
  picture, ringCounter, pts, ringUp,
  pattern, timing, vegaUp, changed, pictures, coded, lastDts, lastPtsLow, dtsOffset,
  ptsOffset, true, corrected, sei, checked, made, stored, sent, capture,
  option, bitstream, injecting, phase, cable, opened, enabled, reported, known, format,
  frameTime, heard, found, probed, shown, away, before, steady, changes, probes

Decklink == INSTANCE DecklinkInput WITH MaxNow <- CallbacksTo
Threads == INSTANCE CaptureThread
Clocks == INSTANCE InputClocks WITH
  MaxNow <- MomentsTo, now <- moment, up <- clockUp, counter <- clockCounter,
  lastFrame <- lastTick
Bluefish == INSTANCE BluefishRing WITH
  MaxNow <- InterruptsTo, now <- interrupts, up <- ringUp, counter <- ringCounter
Vega == INSTANCE VegaInput WITH
  MaxNow <- PicturesTo, now <- pictures, up <- vegaUp
Format == INSTANCE DecklinkFormat WITH LosExits <- LosExit > 0

ConstantsAreSound ==
  /\ Decklink!ConstantsAreSound /\ Threads!ConstantsAreSound
  /\ Clocks!ConstantsAreSound /\ Bluefish!ConstantsAreSound /\ Vega!ConstantsAreSound
  /\ Format!ConstantsAreSound

ASSUME InputsAssumption == ConstantsAreSound

decklinkVars == <<inject, now, up, lastFrame, cached, injected, lastPts, meter, missing,
                  frame, seen, captions, dropped, queued, released, vanc, trouble, quiet>>
threadVars == <<opener, probing, cancelled, closeAt, awaited, overruled, pc,
                running, complete, terminate, freed>>
clockVars == <<kind, start, moment, since, starts, clockUp, taken, clockCounter,
               samples, base, reset, clock, video, audio, lastTick, drop, lost,
               timeouts, truncated, earlier>>
bluefishVars == <<interrupts, signal, filling, requested, content, schedule, capturing,
                  done, picture, ringCounter, pts, ringUp>>
vegaVars == <<pattern, timing, vegaUp, changed, pictures, coded, lastDts, lastPtsLow,
              dtsOffset, ptsOffset, true, corrected, sei, checked, made, stored, sent,
              capture>>
formatVars == <<option, bitstream, injecting, phase, cable, opened, enabled, reported,
                known, format, frameTime, heard, found, probed, shown, away, before,
                steady, changes, probes>>
vars == <<mode, decklinkVars, threadVars, clockVars, bluefishVars, vegaVars, formatVars>>

(* What a mode does not use has one initial value.                         *)
One(S) == CHOOSE x \in S : TRUE

Init ==
  /\ mode \in {"decklink", "threads", "clocks", "bluefish", "vega", "format"}
  /\ Decklink!Init /\ Threads!Init /\ Clocks!Init /\ Bluefish!Init /\ Vega!Init
  /\ Format!Init
  /\ mode = "decklink" \/ inject = FALSE
  /\ mode = "threads" \/ probing = FALSE
  /\ mode = "clocks" \/ (kind = One(Kinds) /\ start = One(Starts \ {0}))
  /\ mode = "format" \/ (option = Format!Nothing /\ bitstream = FALSE)
  /\ mode = "vega" \/ (pattern = One(Patterns) /\ timing = FALSE)

DecklinkNext ==
  /\ mode = "decklink" /\ Decklink!Next
  /\ UNCHANGED <<mode, threadVars, clockVars, bluefishVars, vegaVars, formatVars>>
ThreadsNext ==
  /\ mode = "threads" /\ Threads!Next
  /\ UNCHANGED <<mode, decklinkVars, clockVars, bluefishVars, vegaVars, formatVars>>
ClocksNext ==
  /\ mode = "clocks" /\ Clocks!Next
  /\ UNCHANGED <<mode, decklinkVars, threadVars, bluefishVars, vegaVars, formatVars>>
BluefishNext ==
  /\ mode = "bluefish" /\ Bluefish!Next
  /\ UNCHANGED <<mode, decklinkVars, threadVars, clockVars, vegaVars, formatVars>>
VegaNext ==
  /\ mode = "vega" /\ Vega!Next
  /\ UNCHANGED <<mode, decklinkVars, threadVars, clockVars, bluefishVars, formatVars>>
FormatNext ==
  /\ mode = "format" /\ Format!Next
  /\ UNCHANGED <<mode, decklinkVars, threadVars, clockVars, bluefishVars, vegaVars>>

Next == FormatNext \/ DecklinkNext \/ ThreadsNext \/ ClocksNext \/ BluefishNext \/ VegaNext
Spec == Init /\ [][Next]_vars /\ (mode = "threads" => Threads!Fairness)

(* The properties.  Each is a conjunction of properties that are stated,   *)
(* with a comment of their own, in the module of the mode.                 *)

(* Decklink, over every order of losses, injections and failures half way  *)
(* through a frame: a loss of signal is dropped before the next picture,   *)
(* captions are reset once in a run of frames without them, a queued frame *)
(* is not released (but when teletext fails), VANC metadata go out with    *)
(* the frame they came with, an injected frame shows the last good one.    *)
DecklinkSound ==
  /\ Decklink!TypeOK
  /\ Decklink!LossIsDropped
  /\ Decklink!CaptionsResetOnce
  /\ Decklink!FramesOwned
  /\ Decklink!MetadataInTime
  /\ Decklink!InjectsNewest
(* Decklink: pictures have the format that was probed, and those after     *)
(* another signal was reported come with a drop, unless frames are         *)
(* injected.                                                               *)
FormatAsProbed == Format!PicturesAsProbed /\ Format!ChangeIsDropped
(* Decklink: a probe of a steady signal succeeds, and a run keeps the      *)
(* format and mode of its first picture.                                   *)
ProbeFinds == Format!ProbeFinds /\ Format!FormatFixed
(* Capture threads: what they share is freed when they are done.           *)
FreedWhenAlone == Threads!FreedWhenAlone
(* Capture threads: an input that is cancelled is closed, and the threads  *)
(* of a probe end by themselves.                                           *)
InputCloses == Threads!InputCloses /\ Threads!ProbeThreadsEnd
(* Clocks: picture and audio of one moment have one time; the PTS that     *)
(* vega delivers follows the clock of its card across its wraps.           *)
ClocksInStep == Clocks!InStep /\ Vega!TimesFollowClock
(* Times of pictures and of audio go up: decklink whatever was injected,   *)
(* linsys (which drops after a gap), ndi, dektec and v4l2 from a start to  *)
(* the next, over losses and timeouts; the audio of dektec over a restart  *)
(* too; bluefish delivers no frame twice.                                  *)
TimesAdvance ==
  /\ Decklink!FramesInOrder
  /\ Decklink!AudioTimesAdvance
  /\ Clocks!VideoTimesAdvance
  /\ Clocks!AudioTimesAdvance
  /\ Clocks!AudioGoesOn
  /\ Clocks!GapIsDropped
  /\ Bluefish!PicturesAdvance
(* Bluefish: the frame just captured is delivered, and frames without      *)
(* signal leave the ring in one round.                                     *)
RingDelivers == Bluefish!DeliversNewest /\ Bluefish!LossLeavesRing
(* Vega: each SEI message goes out once, in order, and one thread alone    *)
(* never fills more than the list holds.                                   *)
SeiOnce == Vega!SeiOnce /\ Vega!OverrunNeedsTwo
-----------------------------------------------------------------------------
(* Constants of the small instance that are sequences.                     *)
TwoThreads == <<"audio", "video">>
Reorderings == {<<0>>, <<1>>, <<1, 3, 0, 0>>}
=============================================================================
