------------------------------ MODULE VegaInput ------------------------------
(***************************************************************************)
(* The input of the Vega 3311 card, which encodes by itself:               *)
(* input/sdi/vega/vega-3311-{video,sei,vanc}.cpp.  The capture callback    *)
(* gives each picture to the card's encoder with the SEI messages that     *)
(* were queued for it by the VANC callback, in another thread, and by      *)
(* itself (the timing message).  The callback for coded pictures unwraps   *)
(* their times, which have 33 bits.                                        *)
(***************************************************************************)
EXTENDS Integers, Sequences, FiniteSets

CONSTANTS
  Wrap,      \* 2^33
  Step,      \* the duration of a picture
  FirstTime, \* time of the first picture, the clock runs anyway
  Patterns,  \* reorderings: how many pictures later each one is shown
  MaxSei,    \* API_MAX_SEI_NUM
  MaxNow,    \* pictures captured
  MaxMade    \* SEI messages made

ConstantsAreSound ==
  /\ {Step, MaxSei} \subseteq Nat \ {0} /\ {FirstTime, MaxNow, MaxMade} \subseteq Nat
  /\ Wrap \in Nat /\ Wrap > Step /\ FirstTime < Wrap /\ Patterns # {}
  /\ Patterns \subseteq Seq(Nat) \ {<<>>}

VARIABLES
  pattern, timing,      \* the GOP in use, g_sei_timestamping
  up,                   \* ~bLastFrame
  changed,              \* vega_has_source_signal_changed
  now, coded,           \* pictures given to the encoder, pictures coded
  lastDts, lastPtsLow,  \* lastAdjustedPicDTS, lastAdjustedPicPTS
  dtsOffset, ptsOffset, \* videoDTSOffset, videoPTSOffset
  true, corrected,      \* PTS of the last picture: 64 bits, and as delivered
  sei,                  \* the SEI queue
  checked,              \* per appender, the message it is about to store
  made, stored,         \* messages made so far; stored, in order (history)
  sent,                 \* messages that went out with a picture (history)
  capture               \* "idle", "timing", "taking"

vars == <<pattern, timing, up, changed, now, coded, lastDts, lastPtsLow, dtsOffset,
          ptsOffset, true, corrected, sei, checked, made, stored, sent, capture>>
times == <<coded, lastDts, lastPtsLow, dtsOffset, ptsOffset, true, corrected>>
queue == <<sei, checked, made, stored, sent>>
config == <<pattern, timing>>

Appenders == {"vanc", "capture"}

Init ==
  /\ pattern \in Patterns /\ timing \in BOOLEAN /\ up = TRUE /\ changed = FALSE
  /\ now = 0 /\ coded = 0 /\ lastDts = 0 /\ lastPtsLow = 0
  /\ dtsOffset = 0 /\ ptsOffset = 0 /\ true = 0 /\ corrected = 0
  /\ sei = <<>> /\ checked = [a \in Appenders |-> 0] /\ made = 0
  /\ stored = <<>> /\ sent = <<>> /\ capture = "idle"
-----------------------------------------------------------------------------
(* vega_sei_append looks whether the queue is full before it takes the     *)
(* lock; the message then goes to wherever the queue ends.                 *)
SeiCheck(a) ==
  /\ checked[a] = 0 /\ made < MaxMade /\ made' = made + 1
  /\ checked' = [checked EXCEPT ![a] = IF Len(sei) = MaxSei THEN 0 ELSE made']
  /\ UNCHANGED <<sei, stored, sent>>

SeiStore(a) ==
  /\ checked[a] # 0
  /\ sei' = Append(sei, checked[a]) /\ stored' = Append(stored, checked[a])
  /\ checked' = [checked EXCEPT ![a] = 0]
  /\ UNCHANGED <<made, sent>>

(* cb_EIA_708B and cb_SMPTE2108_1, whether pictures are captured or not.   *)
VancMessage ==
  /\ up /\ SeiCheck("vanc") /\ UNCHANGED <<config, up, changed, now, times, capture>>
VancStores ==
  /\ SeiStore("vanc") /\ UNCHANGED <<config, up, changed, now, times, capture>>

(* The capture callback.  It drops pictures for good once the format of    *)
(* the signal has changed.                                                 *)
FormatChanges ==
  /\ up /\ ~changed /\ changed' = TRUE
  /\ UNCHANGED <<config, up, now, times, queue, capture>>

Captured ==
  /\ up /\ ~changed /\ capture = "idle" /\ now < MaxNow
  /\ capture' = IF timing THEN "timing" ELSE "taking"
  /\ UNCHANGED <<config, up, changed, now, times, queue>>

AppendTiming ==
  /\ capture = "timing"
  /\ \/ SeiCheck("capture")
        /\ capture' = IF checked'["capture"] = 0 THEN "taking" ELSE capture
     \/ SeiStore("capture") /\ capture' = "taking"
  /\ UNCHANGED <<config, up, changed, now, times>>

(* Fault: the count of the queue is not put back to 0.                     *)
SeiTakeKeeps == sent' = sent \o sei /\ UNCHANGED sei

(* The capture callback hands all messages over and empties the queue.     *)
SeiTake == sent' = sent \o sei /\ sei' = <<>>

PushImage ==
  /\ capture = "taking" /\ capture' = "idle" /\ now' = now + 1
  /\ SeiTake
  /\ UNCHANGED <<config, up, changed, times, checked, made, stored>>
-----------------------------------------------------------------------------
(* The callback for coded pictures: picture n in coding order is shown     *)
(* pattern[n] later; the card keeps the low bits only.                     *)
Clock(n) == FirstTime + (Step * n)
Wrapped(offset, value, last) == IF value < last THEN offset + (Wrap - 1) ELSE offset

Correct(pts) == dtsOffset' + pts

CompressedPicture ==
  LET shown == coded + pattern[(coded % Len(pattern)) + 1]
      dts == Clock(coded) % Wrap
      pts == Clock(shown) % Wrap
  IN  /\ up /\ shown < now /\ coded' = coded + 1
      /\ dtsOffset' = Wrapped(dtsOffset, dts, lastDts)
      /\ ptsOffset' = Wrapped(ptsOffset, pts, lastPtsLow)
      /\ lastDts' = dts /\ lastPtsLow' = pts
      /\ true' = Clock(shown) /\ corrected' = Correct(pts)
      /\ UNCHANGED <<config, up, changed, now, queue, capture>>

(* close_device sets bLastFrame before it stops the card.                  *)
CloseDevice ==
  /\ up /\ up' = FALSE
  /\ UNCHANGED <<config, changed, now, times, queue, capture>>

Next ==
  \/ VancMessage \/ VancStores \/ FormatChanges \/ Captured \/ AppendTiming
  \/ PushImage \/ CompressedPicture \/ CloseDevice
-----------------------------------------------------------------------------
(* Every message that was queued goes out once and in the order it was     *)
(* queued.                                                                 *)
SeiOnce == sent \o sei = stored

(* The queue exceeds its array only when two threads fill it.              *)
OverrunNeedsTwo == Len(sei) > MaxSei => timing

(* The time delivered is that of the card, one tick behind for each time   *)
(* the clock has wrapped, except while the DTS and the PTS have not        *)
(* wrapped equally often; B-pictures do not disturb it.                    *)
TimesFollowClock ==
  (coded > 0 /\ true \div Wrap = Clock(coded - 1) \div Wrap)
     => corrected = true - (true \div Wrap)
=============================================================================
