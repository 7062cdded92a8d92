---------------------------- MODULE DecklinkInput ----------------------------
(***************************************************************************)
(* The frame callback of input/sdi/decklink/decklink.cpp while encoding:   *)
(* the clock tick, loss of signal and its injected frames, the watchdogs   *)
(* of signal and of audio, VANC metadata, the captions that have to be     *)
(* reset, and the hand over to the filter with every early exit.           *)
(*                                                                         *)
(* now is both the stream time of the card and obe_mdate; a frame is known *)
(* by the stream time it arrived at.  Audio and video of a callback are    *)
(* captured at the same time.                                              *)
(***************************************************************************)
EXTENDS Integers, Sequences, FiniteSets, FiniteSetsExt

CONSTANTS
  MaxInjected,   \* g_decklink_injected_frame_count_max, 600
  SdiMaxDelay,   \* g_sdi_max_delay
  LosExit,       \* enable_los_exit_ms, 0 is off
  MissingLimit,  \* callbacks without captions before a reset, 5
  Window,        \* seconds between two checks of the audio, 30
  Sd,            \* the format has VBI lines
  Skips,         \* stream time that may pass without a callback
  Troubles,      \* what may fail in a callback, see Failures
  MaxNow, MaxTroubles

Failures == {"anc", "frame", "vbi", "picture", "queue", "ttx"}
Nothing == 0 - 1

ConstantsAreSound ==
  /\ Sd \in BOOLEAN
  /\ {MaxInjected, SdiMaxDelay, LosExit, MissingLimit, Window, MaxNow} \subseteq Nat
  /\ Skips \subseteq Nat /\ 0 \in Skips /\ Troubles \subseteq Failures

VARIABLES
  inject,    \* g_decklink_inject_frame_enable
  now,       \* stream_time of the last callback
  up,        \* FALSE once the watchdogs ended the process
  lastFrame, \* last_frame_time
  cached,    \* the frame kept for injection, Nothing or its number
  injected,  \* g_decklink_injected_frame_count
  lastPts,   \* the static lastpts of the audio time
  meter,     \* audio, video and end of the window of the audio watchdog
  missing,   \* cea708_missing_count
  frame,     \* the frame last queued for the filter
  seen,      \* callbacks that had a signal (history)
  captions,  \* what was found in each frame decoded: [has, reset] (history)
  dropped,   \* when the drop flags were last set (history)
  queued,    \* pictures queued for the filter (history)
  released,  \* frames the callback released
  vanc,      \* metadataVANC, what was found in the lines
  trouble,   \* failures so far (history)
  quiet      \* callbacks without audio (history)

vars == <<inject, now, up, lastFrame, cached, injected, lastPts, meter, missing, frame,
          seen, captions, dropped, queued, released, vanc, trouble, quiet>>
watch == <<lastFrame, seen, dropped>>
output == <<cached, lastPts, frame, queued, released>>
text == <<missing, captions>>

NoFrame == [pts |-> 0, audio |-> 0, image |-> 0, meta |-> {}, injected |-> FALSE]
Meter == [audio |-> 0, video |-> 0, ends |-> 0]

Init ==
  /\ inject \in BOOLEAN /\ now = 0 /\ up = TRUE /\ lastFrame = Nothing /\ cached = Nothing
  /\ injected = 0 /\ lastPts = 0 /\ meter = Meter /\ missing = 0
  /\ frame = NoFrame /\ seen = {} /\ captions = <<>> /\ dropped = 0
  /\ queued = {} /\ released = {} /\ vanc = {} /\ trouble = {} /\ quiet = {}

(* Fault: what is left of the metadata is kept for the next frame.         *)
VancKept == vanc

(* VideoInputFrameArrived resets the metadata, then handles the frame.     *)
VancReset == {}

Arrives(audio) ==
  /\ up /\ \E skip \in Skips : now' = now + 1 + skip /\ now' <= MaxNow
  /\ quiet' = IF audio THEN quiet ELSE quiet \cup {now'}
  /\ UNCHANGED inject

Blank(audio) == Arrives(audio) /\ vanc' = VancReset
-----------------------------------------------------------------------------
(* noVideoInputFrameArrived: the card says there is no input and frames    *)
(* are to be injected.                                                     *)
NothingToInject(audio) ==
  /\ Blank(audio) /\ inject /\ cached = Nothing
  /\ UNCHANGED <<up, injected, meter, trouble, watch, output, text>>

TooManyInjected(audio) ==
  /\ Blank(audio) /\ inject /\ cached # Nothing
  /\ injected + 1 > MaxInjected
  /\ injected' = injected + 1 /\ up' = FALSE
  /\ UNCHANGED <<meter, trouble, watch, output, text>>

(* Fault: the copy keeps the time of the frame it is a copy of.            *)
InjectAsCached(audio) ==
  /\ Blank(audio) /\ inject /\ cached # Nothing
  /\ injected < MaxInjected /\ injected' = injected + 1
  /\ frame' = [NoFrame EXCEPT !.pts = cached, !.audio = now',
                 !.image = cached, !.injected = TRUE]
  /\ UNCHANGED <<up, cached, lastPts, queued, released, meter, trouble, watch, text>>

InjectFrame(audio) ==
  /\ Blank(audio) /\ inject /\ cached # Nothing
  /\ injected < MaxInjected /\ injected' = injected + 1
  /\ frame' = [NoFrame EXCEPT !.pts = now', !.audio = now',
                 !.image = cached, !.injected = TRUE]
  /\ UNCHANGED <<up, cached, lastPts, queued, released, meter, trouble, watch, text>>
-----------------------------------------------------------------------------
(* The audio watchdog counts callbacks; when the window ends it ends the   *)
(* process if less than three quarters of the pictures came with audio,    *)
(* but not when none did.                                                  *)
Metered(audio, video) ==
  [audio |-> meter.audio + (IF audio THEN 1 ELSE 0),
   video |-> meter.video + (IF video THEN 1 ELSE 0),
   ends  |-> IF meter.ends = 0 THEN now' + Window ELSE meter.ends]

WindowEnds == meter.ends # 0 /\ now' >= meter.ends
AudioLost(m) == m.audio > 0 /\ m.video > m.audio /\ 4 * m.audio < 3 * m.video

AudioWatchdog(audio, video) ==
  LET m == Metered(audio, video)
  IN  IF WindowEnds THEN up' = ~AudioLost(m) /\ meter' = Meter
                    ELSE UNCHANGED up /\ meter' = m

AudioRunsOut(audio, video) == WindowEnds /\ AudioLost(Metered(audio, video))

(* A callback with no input signal, when nothing is injected.              *)
NoSignal(audio) ==
  /\ Blank(audio) /\ ~inject
  /\ AudioWatchdog(audio, TRUE)
  /\ UNCHANGED <<injected, trouble, watch, output, text>>

(* A callback without a video frame, whose audio is only passed on.        *)
AudioOnly ==
  /\ Blank(TRUE)
  /\ AudioWatchdog(TRUE, FALSE)
  /\ UNCHANGED <<injected, trouble, watch, output, text>>
-----------------------------------------------------------------------------
(* The watchdog of the signal.                                             *)
Late == lastFrame # Nothing /\ now' - lastFrame >= SdiMaxDelay
LateForGood == Late /\ LosExit > 0 /\ now' - lastFrame >= LosExit

Signal ==
  /\ lastFrame' = now' /\ seen' = seen \cup {now'}
  /\ dropped' = IF Late /\ ~inject THEN now' ELSE dropped

Captions(has) ==
  /\ missing' = IF has THEN 0 ELSE missing + 1
  /\ captions' = Append(captions, [has |-> has,
                                   reset |-> ~has /\ missing = MissingLimit])

(* The audio time of the frame: made up from the last one if missing.      *)
AudioTime(audio) == IF audio THEN now' ELSE lastPts + 1

Cache ==
  /\ cached' = IF inject THEN now' ELSE cached
  /\ UNCHANGED released

(* A callback with a picture, up to where what fails first takes it: the   *)
(* lines ("anc"), the frame, VBI, the picture, the queue, teletext.        *)
Lines == vanc' = VancReset \cup {now'}

FrameQueued(audio) ==
  /\ frame' = [pts |-> now', audio |-> AudioTime(audio), image |-> now',
               meta |-> vanc', injected |-> FALSE]
  /\ lastPts' = AudioTime(audio) /\ queued' = queued \cup {now'}

Begin(audio) ==
  /\ Arrives(audio) /\ ~LateForGood
  /\ ~AudioRunsOut(audio, TRUE)
  /\ AudioWatchdog(audio, TRUE)
  /\ injected' = 0 /\ Signal

Fails(how) ==
  /\ Cardinality(trouble) < MaxTroubles /\ how \in Troubles
  /\ trouble' = trouble \cup {[at |-> now', how |-> how]}

(* A watchdog ends the process.                                            *)
SignalEnds(audio) ==
  /\ Blank(audio) /\ (LateForGood \/ AudioRunsOut(audio, TRUE))
  /\ up' = FALSE
  /\ UNCHANGED <<injected, meter, trouble, watch, output, text>>

Queue(audio, has) ==
  /\ Begin(audio) /\ Captions(has) /\ Lines /\ FrameQueued(audio) /\ Cache
  /\ UNCHANGED trouble

FailBeforeFrame(audio) ==
  /\ Begin(audio) /\ ((vanc' = VancReset /\ Fails("anc")) \/ (Lines /\ Fails("frame")))
  /\ UNCHANGED <<text, output>>

(* The frame has no release functions yet: it is not released.             *)
FailInVbi(audio, has) ==
  /\ Sd /\ Begin(audio) /\ Fails("vbi") /\ Lines /\ Captions(has)
  /\ UNCHANGED output

(* The decoder had no picture: the frame is neither queued nor released.   *)
FailInPicture(audio, has) ==
  /\ Begin(audio) /\ Fails("picture") /\ Lines /\ Captions(has)
  /\ UNCHANGED output

FailToQueue(audio, has) ==
  /\ Begin(audio) /\ Fails("queue") /\ Lines /\ Captions(has)
  /\ lastPts' = AudioTime(audio)
  /\ cached' = IF inject THEN now' ELSE cached
  /\ released' = released \cup {now'}
  /\ UNCHANGED <<frame, queued>>

(* Teletext cannot be sent: the frame is released though it is queued.     *)
FailInTeletext(audio, has) ==
  /\ Begin(audio) /\ Fails("ttx") /\ Captions(has)
  /\ Lines /\ FrameQueued(audio)
  /\ cached' = IF inject THEN now' ELSE cached
  /\ released' = released \cup {now'}
-----------------------------------------------------------------------------
Callback(audio, has) ==
  \/ NothingToInject(audio) \/ TooManyInjected(audio) \/ InjectFrame(audio)
  \/ NoSignal(audio) \/ SignalEnds(audio) \/ FailBeforeFrame(audio)
  \/ Queue(audio, has) \/ FailInVbi(audio, has) \/ FailInPicture(audio, has)
  \/ FailToQueue(audio, has) \/ FailInTeletext(audio, has)

Next == AudioOnly \/ \E audio, has \in BOOLEAN : Callback(audio, has)
-----------------------------------------------------------------------------
TypeOK ==
  /\ now \in 0..MaxNow /\ up \in BOOLEAN /\ {lastFrame, cached} \subseteq 0 - 1..MaxNow
  /\ injected \in 0..MaxInjected + 1 /\ lastPts \in 0..MaxNow /\ missing \in Nat
  /\ dropped \in 0..MaxNow /\ released \cup seen \cup quiet \subseteq 1..MaxNow

(* The frames the filter gets have increasing times, whether they came     *)
(* from the card or were injected, and none is ahead of the clock.         *)
FramesInOrder ==
  [][frame' # frame => frame'.pts > frame.pts /\ frame'.pts = now']_vars

(* So have the audio times they carry, by which the encoders pace          *)
(* themselves, unless audio is lost where frames are also injected.        *)
AudioTimesAdvance ==
  [][(frame' # frame /\ (~inject \/ quiet' = {})) => frame'.audio > frame.audio]_vars

(* After a loss of signal of SdiMaxDelay the pipeline is told to drop what *)
(* it holds before the next picture reaches it, unless frames were         *)
(* injected.                                                               *)
SilentBefore(t) == t - Max({0} \cup {s \in seen : s < t})
LossIsDropped ==
  (~inject /\ frame.pts > 0) =>
    \A s \in seen : (s <= frame.pts /\ SilentBefore(s) >= SdiMaxDelay
                     /\ \E r \in seen : r < s) => dropped >= s

(* The captions are reset once for each run of frames without them that    *)
(* is longer than the limit, at the frame after the limit.                 *)
RunBefore(i) == {j \in 1..i : \A k \in j..i : ~captions[k].has}
CaptionsResetOnce ==
  \A i \in DOMAIN captions :
    captions[i].reset <=> Cardinality(RunBefore(i)) = MissingLimit + 1

(* A frame released by the callback was never handed to the filter, except *)
(* when its teletext could not be sent.                                    *)
FramesOwned ==
  \A f \in queued \cap released : [at |-> f, how |-> "ttx"] \in trouble

(* VANC metadata go out with the frame they came with.                     *)
MetadataInTime == frame.meta \subseteq {frame.pts}

(* An injected frame shows the last picture that was fit for the queue.    *)
InjectsNewest ==
  frame.injected =>
    \A s \in seen : (s > frame.image /\ s < frame.pts) => \E t \in trouble : t.at = s
=============================================================================
