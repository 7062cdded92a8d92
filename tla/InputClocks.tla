----------------------------- MODULE InputClocks -----------------------------
(***************************************************************************)
(* How the inputs other than decklink make up the times of what they       *)
(* capture: ndi.cpp from the timecodes of the sender, dektec.cpp from a    *)
(* frame counter and the time of the card, linsys.c from two counters,     *)
(* v4l2.cpp from a frame counter alone.                                    *)
(*                                                                         *)
(* The world goes from moment to moment; in each there is one picture and  *)
(* its audio, which an input captures, or misses.  Sender and card have a  *)
(* clock of their own, in which moment n is at Start + n * Period; OBE     *)
(* times are Scale times finer.                                            *)
(***************************************************************************)
EXTENDS Integers, FiniteSets

CONSTANTS
  Kinds,        \* a subset of {"ndi", "dektec", "linsys", "v4l2"}
  Starts,       \* what the clock of the sender may start with
  Period, Scale,
  IntRange,     \* an int holds -IntRange..IntRange - 1
  SdiMaxDelay,  \* g_sdi_max_delay, in moments
  MaxNow, MaxStarts

ConstantsAreSound ==
  /\ Kinds \subseteq {"ndi", "dektec", "linsys", "v4l2"}
  /\ Starts \subseteq Nat /\ {Period, Scale, IntRange, SdiMaxDelay} \subseteq Nat \ {0}

VARIABLES
  kind, start,  \* the input and the clock it captures
  now,          \* the moment
  since,        \* the moment the input was started
  starts, up,
  taken,        \* what was captured of this moment
  counter,      \* v_counter
  samples,      \* a_counter of linsys, in moments
  base,         \* clock_offset of ndi, the static frametime_base of dektec
  reset,        \* reset_v_pts of ndi
  clock,        \* obe_clock_tick
  video, audio, \* what was last queued: its moment and its time
  lastFrame, drop, \* linsys: last_frame_time and when the drop flags were set
  lost, timeouts, truncated, \* what happened since the start (history)
  earlier       \* the last audio of the starts before (history)

vars == <<kind, start, now, since, starts, up, taken, counter, samples, base,
          reset, clock, video, audio, lastFrame, drop, lost, timeouts, truncated,
          earlier>>
world == <<kind, start, now, since, starts, earlier>>
linsys == <<samples, lastFrame, drop>>

Nothing == [at |-> 0 - 1, pts |-> 0]
Frame == Period * Scale
Timecode == start + now * Period

Init ==
  /\ kind \in Kinds /\ start \in Starts
  /\ kind = "dektec" => start > 0   \* its clock starts up non-zero
  /\ now = 0 /\ since = 0 /\ starts = 1
  /\ up = TRUE /\ taken = {} /\ counter = 0 /\ samples = 0 /\ base = 0
  /\ reset = FALSE /\ clock = 0 /\ video = Nothing /\ audio = Nothing
  /\ lastFrame = 0 - 1 /\ drop = 0 - 1
  /\ lost = FALSE /\ timeouts = FALSE /\ truncated = FALSE /\ earlier = Nothing

(* The next moment, whatever was captured of this one.                     *)
Moment ==
  /\ now < MaxNow /\ now' = now + 1 /\ taken' = {}
  /\ lost' = (lost \/ taken # {"video", "audio"})
  /\ UNCHANGED <<kind, start, since, starts, earlier, up, counter, base, reset, clock,
                 video, audio, linsys, timeouts, truncated>>

(* A stop and a start: all but the static base starts anew, so that the    *)
(* times of pictures begin at 0 again.                                     *)
Restart ==
  /\ starts < MaxStarts /\ now < MaxNow
  /\ starts' = starts + 1 /\ now' = now + 1 /\ since' = now + 1
  /\ up' = TRUE /\ taken' = {} /\ counter' = 0 /\ samples' = 0
  /\ base' = IF kind = "dektec" THEN base ELSE 0
  /\ reset' = FALSE /\ clock' = 0 /\ video' = Nothing /\ audio' = Nothing
  /\ lastFrame' = 0 - 1 /\ drop' = 0 - 1
  /\ lost' = FALSE /\ timeouts' = FALSE /\ truncated' = FALSE
  /\ earlier' = IF audio.at >= 0 THEN audio ELSE earlier
  /\ UNCHANGED <<kind, start>>

Captures(what) ==
  /\ up /\ what \notin taken /\ taken' = taken \cup {what}
QueueVideo(pts) ==
  /\ video' = [at |-> now, pts |-> pts] /\ clock' = pts
QueueAudio(pts) == audio' = [at |-> now, pts |-> pts]
-----------------------------------------------------------------------------
(* ndi.cpp.  The first picture fixes the offset.  After a timeout the      *)
(* counter is set anew from the timecode, in an int, with the offset in    *)
(* units of the sender.                                                    *)
Wrapped(q) == ((q + IntRange) % (2 * IntRange)) - IntRange
CeilDiv(a, b) == (a + b - 1) \div b

(* Fault: the audio times count from the last picture.                     *)
NdiOffsetAnew == 0 - Timecode

NdiOffset == IF counter = 0 THEN 0 - Timecode ELSE base

NdiVideo ==
  LET q == CeilDiv(Timecode * Scale + NdiOffset, Frame)
      c == IF reset THEN Wrapped(q) ELSE counter
  IN  /\ kind = "ndi" /\ Captures("video")
      /\ base' = NdiOffset /\ reset' = FALSE
      /\ counter' = c + 1 /\ QueueVideo(c * Frame)
      /\ truncated' = (truncated \/ (reset /\ c # q))
      /\ UNCHANGED <<world, up, audio, linsys, lost, timeouts>>

(* Audio is thrown away until there is an offset.                          *)
NdiAudio ==
  /\ kind = "ndi" /\ Captures("audio")
  /\ IF base = 0 THEN UNCHANGED audio
                 ELSE QueueAudio((Timecode + base) * Scale)
  /\ UNCHANGED <<world, up, counter, base, reset, clock, video, linsys, lost,
                 timeouts, truncated>>

(* Nothing came for longer than a frame.                                   *)
NdiTimeout ==
  /\ kind = "ndi" /\ up /\ taken = {} /\ now < MaxNow
  /\ now' = now + 1 /\ reset' = TRUE /\ timeouts' = TRUE /\ lost' = TRUE
  /\ UNCHANGED <<kind, start, since, starts, earlier, up, taken, counter, base, clock,
                 video, audio, linsys, truncated>>
-----------------------------------------------------------------------------
(* dektec.cpp.  One callback has the picture and its audio, each of them   *)
(* valid or not; it passes over a frame whose status is not good.          *)
DektecVideo(valid) ==
  IF valid THEN counter' = counter + 1 /\ QueueVideo(counter * Frame)
           ELSE UNCHANGED <<counter, video, clock>>

DektecAudio(valid) ==
  IF valid
  THEN LET from == IF base = 0 THEN Timecode ELSE base
       IN  base' = from /\ QueueAudio((Timecode - from) * Scale)
  ELSE UNCHANGED <<base, audio>>

OnNewFrame(picture, sound) ==
  /\ kind = "dektec" /\ up /\ taken = {}
  /\ taken' = (IF picture THEN {"video"} ELSE {}) \cup (IF sound THEN {"audio"} ELSE {})
  /\ DektecVideo(picture) /\ DektecAudio(sound)
  /\ UNCHANGED <<world, up, reset, linsys, lost, timeouts, truncated>>
-----------------------------------------------------------------------------
(* linsys.c.  The clock ticks before the frame is made; any failure ends   *)
(* the input.                                                              *)
LinsysTick ==
  /\ clock' = counter * Frame /\ lastFrame' = now
  /\ drop' = IF lastFrame >= 0 /\ now - lastFrame >= SdiMaxDelay THEN now ELSE drop

LinsysVideo ==
  /\ kind = "linsys" /\ Captures("video") /\ LinsysTick
  /\ counter' = counter + 1 /\ video' = [at |-> now, pts |-> counter * Frame]
  /\ UNCHANGED <<world, up, samples, base, reset, audio, lost, timeouts, truncated>>

LinsysFails ==
  /\ kind = "linsys" /\ Captures("video") /\ LinsysTick /\ up' = FALSE
  /\ UNCHANGED <<world, counter, samples, base, reset, video, audio, lost,
                 timeouts, truncated>>

LinsysAudio ==
  /\ kind = "linsys" /\ Captures("audio")
  /\ samples' = samples + 1 /\ QueueAudio(samples * Frame)
  /\ UNCHANGED <<world, up, counter, base, reset, clock, video, lastFrame, drop,
                 lost, timeouts, truncated>>
-----------------------------------------------------------------------------
(* v4l2.cpp, in two threads; the audio has no time.                        *)
V4l2Video ==
  /\ kind = "v4l2" /\ Captures("video")
  /\ counter' = counter + 1 /\ QueueVideo(counter * Frame)
  /\ UNCHANGED <<world, up, base, reset, audio, linsys, lost, timeouts, truncated>>

V4l2Audio ==
  /\ kind = "v4l2" /\ Captures("audio") /\ QueueAudio(0)
  /\ UNCHANGED <<world, up, counter, base, reset, clock, video, linsys, lost,
                 timeouts, truncated>>

Next ==
  \/ Moment \/ Restart
  \/ NdiVideo \/ NdiAudio \/ NdiTimeout
  \/ \E picture, sound \in BOOLEAN : OnNewFrame(picture, sound)
  \/ LinsysVideo \/ LinsysFails \/ LinsysAudio
  \/ V4l2Video \/ V4l2Audio
-----------------------------------------------------------------------------
TypeOK ==
  /\ now \in 0..MaxNow /\ since \in 0..now /\ taken \subseteq {"video", "audio"}
  /\ counter \in Int /\ samples \in 0..MaxNow + 1 /\ base \in Int
  /\ {video.at, audio.at, earlier.at, lastFrame, drop} \subseteq 0 - 1..now

(* Picture and audio of the same moment get the same time, as long as      *)
(* nothing was lost since the start.  Dektec keeps the time base of its    *)
(* first start, so only that one is in step.                               *)
Timed == kind # "v4l2" /\ (kind = "dektec" => starts = 1)
InStep ==
  (Timed /\ ~lost /\ ~timeouts /\ video.at >= 0 /\ audio.at >= 0) =>
    audio.pts - video.pts = (audio.at - video.at) * Frame

(* From a start to the next the video times of an input go up, also over   *)
(* frames that were lost and, for ndi, over a timeout unless the new       *)
(* counter did not fit its int.                                            *)
VideoTimesAdvance ==
  [][(video' # video /\ video.at >= 0 /\ starts' = starts /\ ~truncated')
       => video'.pts > video.pts]_vars

(* So do the audio times.                                                  *)
AudioTimesAdvance ==
  [][(kind # "v4l2" /\ audio' # audio /\ audio.at >= 0 /\ starts' = starts
       /\ ~truncated) => audio'.pts > audio.pts]_vars

(* The audio of dektec, which keeps its time base, goes on over a restart  *)
(* (while its pictures begin at 0 again): all audio of a start is later    *)
(* than all of the starts before.                                          *)
AudioGoesOn ==
  [][(kind = "dektec" /\ audio' # audio /\ audio'.at >= 0 /\ earlier'.at >= 0)
       => audio'.pts > earlier'.pts]_vars

(* A linsys picture after a gap makes the pipeline drop what it holds.     *)
GapIsDropped ==
  [][(kind = "linsys" /\ video' # video /\ video.at >= 0 /\ starts' = starts
       /\ video'.at - video.at >= SdiMaxDelay) => drop' = now]_vars
=============================================================================
