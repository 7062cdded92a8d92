----------------------------- MODULE CodecTimes -----------------------------
(***************************************************************************)
(* The video encoder threads around their codecs: what x264, x265 and      *)
(* avcodec of encoders/video make of the time of a picture, where the      *)
(* metadata of the picture go, and how a setting of the command line       *)
(* reaches the codec (x264, x265).  Encoders that make several coded       *)
(* frames of a picture are in CodedPieces.                                 *)
(*                                                                         *)
(* The codecs are libraries, modelled from what the threads expect: with   *)
(* Reorder = 1 every other picture is a B picture, coded after the next.   *)
(* Times are in fractions of a frame; a gap is captured time that is lost. *)
(***************************************************************************)
EXTENDS Integers, Sequences, FiniteSets, SequencesExt

CONSTANTS
  Kinds,       \* of encoder
  Durations,   \* of a frame
  Lead,        \* 1351350: three frames at 59.94 Hz
  Offset,      \* 24299700, which x264 adds when the system is generic
  Gaps, Starts,\* lost between pictures; first time of a session
  Settings,    \* values of a setting, the first one is 0
  MaxPictures, \* of a session
  MaxSessions, MaxSettings

ConstantsAreSound ==
  /\ Kinds \subseteq {"x264", "x265", "avcodec"}
  /\ Durations \subseteq Nat \ {0, 1}
  /\ {Lead, Offset, MaxPictures, MaxSessions, MaxSettings} \subseteq Nat
  /\ Gaps \subseteq Nat /\ Starts \subseteq Nat /\ 0 \in Settings

VARIABLES
  kind, reorder, generic, interlaced, dur,
  session,  \* number of the session: the thread was started so many times
  pictures, \* audio_pts of the pictures of this session
  taken,    \* what the codec was given: [n, time, ud], a picture or a field
  coded,    \* how many of them it has given back
  sent,     \* coded frames, of all sessions
  lastDts, accum, \* last_dts and dts_diff_accum of x264, static
  epc,      \* encoder thread: wait, clear, use, encode
  value, flag, asking, used, asked, \* the setting and its _new flag
  reopened  \* first of taken that the codec of now was given, x265

session_ == <<session, pictures, taken, coded, sent, lastDts, accum, reopened>>
mode_ == <<kind, reorder, generic, interlaced, dur>>
setting == <<value, flag, asking, used, asked>>
vars == <<mode_, session_, epc, setting>>

Init ==
  /\ kind \in Kinds /\ reorder \in {0, 1} /\ generic \in BOOLEAN
  /\ interlaced \in BOOLEAN /\ dur \in Durations
  /\ kind # "x265" => ~interlaced
  /\ session = 1 /\ pictures = <<>> /\ taken = <<>> /\ coded = 0 /\ sent = <<>>
  /\ lastDts = 0 /\ accum = 0 /\ reopened = 1
  /\ epc = "wait"
  /\ value = 0 /\ flag = FALSE /\ asking = FALSE /\ used = 0 /\ asked = 0
-----------------------------------------------------------------------------
(* The codec.  It gives back the k-th picture (from 0) in coding order     *)
(* when it was given the one after it.                                     *)
Shown(k) ==
  IF reorder = 0 \/ k = 0 THEN k ELSE IF k % 2 = 1 THEN k + 1 ELSE k - 1

Given(i) == taken[reopened + i]

(* What it has ready after it was given all of tk: at most one picture.    *)
Ready(tk) == Len(tk) - reopened - reorder >= coded

(* x265 and libavcodec: the DTS are the PTS in order, earlier by reorder.  *)
CodecDts(tk, k) ==
  IF k >= reorder THEN tk[reopened + k - reorder].time
  ELSE tk[reopened + k].time - (tk[reopened + reorder].time - tk[reopened].time)
-----------------------------------------------------------------------------
LowLatency == ~generic

(* The coded frame of the picture p, with times of the thread's making.    *)
(* avcodec does not look at the messages of its pictures.                  *)
Frame(p, pts, dts, arrival, avfm) ==
  [session |-> session, n |-> p.n, field |-> p.field, pts |-> pts, dts |-> dts,
   arrival |-> arrival, avfm |-> avfm, message |-> p.ud /\ kind # "avcodec"]

(* Fault: the time is that of the picture that was just given.             *)
X264FrameOfNewest(tk) ==
  LET k     == coded
      p     == tk[reopened + Shown(k)]
      ahead == (Shown(k) + reorder - k) * dur
      dts   == pictures[Len(pictures)] + (IF generic THEN Offset ELSE 0) - ahead + 2 * dur
      skew  == IF lastDts > 0 THEN accum + dts - lastDts - dur ELSE accum
  IN  [frame |-> Frame(p, dts + ahead, dts, k * dur + skew, p.n),
       last |-> dts, accum |-> skew]

(* x264: its pictures are numbered, one frame apart.  The PTS is made from *)
(* the audio_pts that travelled with the picture, and the arrival time is  *)
(* moved by what the DTS differ from a constant rate.                      *)
X264Frame(tk) ==
  LET k     == coded
      p     == tk[reopened + Shown(k)]
      ahead == (Shown(k) + reorder - k) * dur
      dts   == p.time + (IF generic THEN Offset ELSE 0) - ahead + 2 * dur
      skew  == IF lastDts > 0 THEN accum + dts - lastDts - dur ELSE accum
  IN  [frame |-> Frame(p, dts + ahead, dts, k * dur + skew, p.n),
       last |-> dts, accum |-> skew]

Arrival(pts, dts) == (IF LowLatency THEN dts ELSE pts) - Lead

(* x265 (dispatch_payload): the times of the codec, two frames later; the  *)
(* rest comes with the user data, which a second field has none of.        *)
X265Frame(tk, k) ==
  LET p   == tk[reopened + Shown(k)]
      pts == p.time + 2 * dur
      dts == CodecDts(tk, k) + 2 * dur
  IN  Frame(p, pts, dts, Arrival(pts, dts), IF p.ud THEN p.n ELSE 0)

(* avcodec (_deliver_nals): the times of the packet, the rest of the       *)
(* newest picture.                                                         *)
AvcodecFrame(tk) ==
  LET p   == tk[reopened + Shown(coded)]
      dts == CodecDts(tk, coded)
  IN  Frame(p, p.time, dts, Arrival(p.time, dts), Len(pictures))
-----------------------------------------------------------------------------
(* The threads.  A picture is taken when the settings have been looked at. *)
TakesSettings == kind \in {"x264", "x265"}

Wake ==
  /\ epc = "wait" /\ Len(pictures) < MaxPictures
  /\ \E gap \in Gaps, first \in Starts :
       pictures' = Append(pictures, IF pictures = <<>> THEN first
                                    ELSE Last(pictures) + dur + gap)
  /\ epc' = IF flag /\ TakesSettings THEN "clear" ELSE "encode"
  /\ UNCHANGED <<mode_, session, taken, coded, sent, lastDts, accum, reopened, setting>>

ClearFlag ==
  /\ epc = "clear" /\ epc' = "use" /\ flag' = FALSE
  /\ UNCHANGED <<mode_, session_, value, asking, used, asked>>

(* x264 and the bitrate of x265 reconfigure the codec; min_qp of x265      *)
(* closes it and opens another one, without the pictures it holds.         *)
UseSetting ==
  /\ epc = "use" /\ epc' = "encode" /\ used' = value
  /\ \/ UNCHANGED session_
     \/ /\ kind = "x265" /\ coded' = 0 /\ reopened' = Len(taken) + 1
        /\ UNCHANGED <<session, pictures, taken, sent, lastDts, accum>>
  /\ UNCHANGED <<mode_, value, flag, asking, asked>>

(* Fault: the flag is cleared after the setting was used.                  *)
UseThenClear ==
  \/ /\ epc = "clear" /\ epc' = "use" /\ used' = value
     /\ UNCHANGED <<mode_, session_, value, flag, asking, asked>>
  \/ /\ epc = "use" /\ epc' = "encode" /\ flag' = FALSE
     /\ UNCHANGED <<mode_, session_, value, used, asking, asked>>

TakeSetting == ClearFlag \/ UseSetting

Picture == [n |-> Len(pictures), field |-> 1, time |-> Last(pictures), ud |-> TRUE]
(* The second field of x265 has no user data and comes half a frame later. *)
Second == [Picture EXCEPT !.field = 2, !.ud = FALSE, !.time = @ + dur \div 2]

EncodeX264 ==
  /\ kind = "x264"
  /\ LET tk == Append(taken, Picture)
     IN  /\ taken' = tk
         /\ IF Ready(tk)
            THEN LET out == X264Frame(tk)
                 IN  /\ sent' = Append(sent, out.frame) /\ coded' = coded + 1
                     /\ lastDts' = out.last /\ accum' = out.accum
            ELSE UNCHANGED <<sent, coded, lastDts, accum>>

(* Fault: the user data go with both fields.                               *)
X265FieldsShareData == <<Picture, [Second EXCEPT !.ud = TRUE]>>

X265Fields == IF interlaced THEN <<Picture, Second>> ELSE <<Picture>>

(* One call of the codec for each field; each may give a frame back.       *)
EncodeX265 ==
  /\ kind = "x265"
  /\ LET one == Append(taken, X265Fields[1])
         all == taken \o X265Fields
         out(tk, k) == IF Len(tk) - reopened - reorder >= k
                       THEN <<X265Frame(tk, k)>> ELSE <<>>
         first  == out(one, coded)
         second == IF interlaced THEN out(all, coded + Len(first)) ELSE <<>>
     IN  /\ taken' = all /\ sent' = sent \o first \o second
         /\ coded' = coded + Len(first) + Len(second)
  /\ UNCHANGED <<lastDts, accum>>

(* A codec that waits for more pictures answers EAGAIN.                    *)
EncodeAvcodec ==
  /\ kind = "avcodec"
  /\ LET tk == Append(taken, Picture)
     IN  /\ taken' = tk
         /\ IF Ready(tk)
            THEN sent' = Append(sent, AvcodecFrame(tk)) /\ coded' = coded + 1
            ELSE UNCHANGED <<sent, coded>>
  /\ UNCHANGED <<lastDts, accum>>

Encode ==
  /\ epc = "encode" /\ epc' = "wait"
  /\ EncodeX264 \/ EncodeX265 \/ EncodeAvcodec
  /\ UNCHANGED <<mode_, session, pictures, reopened, setting>>

(* stop and start: another thread, the statics stay.                       *)
Restart ==
  /\ epc = "wait" /\ session < MaxSessions /\ pictures # <<>>
  /\ session' = session + 1 /\ pictures' = <<>> /\ taken' = <<>> /\ coded' = 0
  /\ reopened' = 1
  /\ UNCHANGED <<mode_, sent, lastDts, accum, epc, setting>>
-----------------------------------------------------------------------------
(* obecli (set_variable): the value, then the flag.                        *)
Ask(v) ==
  /\ TakesSettings /\ ~asking /\ asked < MaxSettings
  /\ value' = v /\ asking' = TRUE /\ asked' = asked + 1
  /\ UNCHANGED <<mode_, session_, epc, flag, used>>

RaiseFlag ==
  /\ asking /\ asking' = FALSE /\ flag' = TRUE
  /\ UNCHANGED <<mode_, session_, epc, value, used, asked>>

Next ==
  \/ Wake \/ TakeSetting \/ Encode \/ Restart
  \/ \E v \in Settings : Ask(v)
  \/ RaiseFlag

Spec == Init /\ [][Next]_vars
-----------------------------------------------------------------------------
Delay ==
  CASE kind = "x264" -> 2 * dur + (IF generic THEN Offset ELSE 0)
    [] kind = "x265" -> 2 * dur
    [] OTHER -> 0

(* The PTS of a coded picture is the time at which it was captured, and a  *)
(* constant of the encoder: through reordering, gaps and restarts the      *)
(* picture stays at the same distance of its audio.                        *)
PtsFollowsClock ==
  \A i \in DOMAIN sent :
    LET f == sent[i]
    IN  f.session = session =>
          f.pts = pictures[f.n] + Delay + (f.field - 1) * (dur \div 2)

HasGap == \E i \in 1 .. Len(pictures) - 1 : pictures[i + 1] - pictures[i] > dur
InSession == {i \in DOMAIN sent : sent[i].session = session}

(* The DTS of a session go up and stay behind the PTS.  x264 makes each    *)
(* one from the time of its own picture, so a gap among reordered pictures *)
(* breaks it; there it is not claimed, nor when x265 was opened again.     *)
DtsIncreases ==
  \A i \in InSession :
    /\ sent[i].dts <= sent[i].pts
    /\ (i + 1 \in InSession /\ reopened = 1 /\ ~(kind = "x264" /\ HasGap /\ reorder > 0))
         => sent[i].dts < sent[i + 1].dts

(* x264: all of a session arrives at one distance before it is decoded,    *)
(* whatever gaps the input has; others arrive before it is decoded if the  *)
(* pictures that are reordered fit in Lead.                                *)
ArrivalKeepsDistance ==
  \A i \in InSession :
    IF kind = "x264"
    THEN \A j \in InSession : sent[i].dts - sent[i].arrival = sent[j].dts - sent[j].arrival
    ELSE sent[i].arrival <= sent[i].dts
           \/ (generic /\ (HasGap \/ Lead < (reorder + 1) * dur))

(* Each message is coded once, with the first field of its picture, in     *)
(* order of coding; it is lost only in a codec that is closed, and in      *)
(* avcodec, which has none of them.                                        *)
MessagesOnce ==
  LET now == {i \in InSession : sent[i].message}
  IN  /\ \A i, j \in now : sent[i].n = sent[j].n => i = j
      /\ \A n \in 1 .. Len(pictures) :
           \/ kind = "avcodec"
           \/ \E i \in now : sent[i].n = n
           \/ epc # "wait" /\ n = Len(pictures)
           \/ \E i \in DOMAIN taken : taken[i].n = n /\ i < reopened
           \/ \E k \in coded .. Len(taken) - reopened + 1 :
                Shown(k) <= Len(taken) - reopened /\ Given(Shown(k)).n = n

(* The frame keeps what came with its picture; a second field has nothing  *)
(* of the kind (avcodec does not keep it: it says "We're delivering the    *)
(* WRONG rf for the current nal").                                         *)
DataOf(f) == IF f.field = 1 THEN f.n ELSE 0
KeepsItsData ==
  \A i \in DOMAIN sent : kind # "avcodec" => sent[i].avfm = DataOf(sent[i])

(* No setting is lost: when nothing is under way the codec uses the last.  *)
SettingTaken ==
  (~asking /\ ~flag /\ epc \in {"wait", "encode"} /\ TakesSettings) => used = value
=============================================================================
