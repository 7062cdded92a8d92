------------------------------ MODULE MCParsers ------------------------------
(* What is carried inside the signal, one carrier per mode: compressed     *)
(* audio in PCM (the two detectors), data of the blanked lines and VANC    *)
(* packets, the walk through those lines, captions, SCTE-104 messages, and *)
(* the message that measures the delay.                                    *)
EXTENDS Integers, Sequences

VARIABLES mode,
  ring, items, total, state, bursts, stream, begins, from,
  given, data, packets, services, sliced, hasVbi, hasTtx, decoded, pes, at, ret,
  found, captured,
  format, card, line, lines, walk, left, layout, indexed,
  filters, shift, count, given104, entries, pictures, low, smoothing, toMux,
  sections, packet, changed, text, rate, result,
  kinds, setting, changes, ticks, stage, userData, slots, sei, times, where,
  datagram, senders

Ring == INSTANCE Smpte337Ring WITH
  Sync <- 9, Lengths <- {1, 2}, PeekBytes <- 3, RingSize <- 6, RingMax <- 8,
  Growth <- 1, MaxWrite <- 3, MaxStream <- 8, MaxFails <- 4

List == INSTANCE Smpte337List WITH
  Sync <- 9, Lengths <- {1, 2}, PeekBytes <- 3, SampleBytes <- 2, BlockTime <- 10,
  MaxWrite <- 3, MaxStream <- 6, AllocCanFail <- TRUE

Data == INSTANCE AncillaryData WITH
  VbiRaw <- 1, MaxPackets <- 2, MaxLines <- 3, MaxFrames <- 1

Walk == INSTANCE SdiLines

Filter(as, dpi, pid) == [as |-> as, dpi |-> dpi, pid |-> pid]
Message104(as, dpi, ignored, splices) ==
  [as |-> as, dpi |-> dpi, ignored |-> ignored, splices |-> splices]
Scte == INSTANCE Scte35Path WITH
  Messages <- {Message104(as, dpi, FALSE, 1 + dpi) : as, dpi \in 0 .. 1}
                \cup {Message104(0, 0, TRUE, 1), Message104(1, 0, FALSE, 0)},
  FilterTables <- {<<>>, <<Filter(-1, 1, 57), Filter(1, -1, 56)>>,
                   <<Filter(1, 1, 58), Filter(0, 0, 57), Filter(-1, -1, 56)>>},
  Pids <- <<56, 57>>, FirstInput <- 2, Added <- {0, 1}, MaxItems <- 2,
  MaxPerFrame <- 2, MaxPictures <- 2

Captions == INSTANCE Captions WITH
  Counts <- {0, 1, 2, 3}, Services <- {0, 2}, Futures <- {0, 3}, MaxSections <- 3

Stamps == INSTANCE SeiTimestamps WITH
  Offsets <- {4, 117, 118, 150, 192}, KindsOf <- {<<"udp", "udp">>, <<"udp", "other">>},
  FrameCounts <- {768}, Base <- 1610612735, MaxTicks <- 2, MaxChanges <- 1

ASSUME
  /\ Ring!Smpte337IsSound /\ List!Smpte337IsSound
  /\ Data!ConstantsAreSound /\ Scte!ConstantsAreSound /\ Captions!ConstantsAreSound
  /\ Stamps!ConstantsAreSound

detectorVars == <<ring, total, state, bursts, stream, begins, from>>
dataVars == <<given, data, packets, services, sliced, hasVbi, hasTtx, decoded, pes,
              at, ret, found, captured>>
walkVars == <<format, card, line, lines, walk, left, layout, indexed>>
scteVars == <<filters, shift, count, given104, entries, pictures, low, smoothing, toMux>>
captionVars == <<sections, packet, changed, text, rate, result>>
stampVars == <<kinds, setting, changes, ticks, stage, userData, slots, sei, times, where,
               datagram, senders>>
vars == <<mode, items, detectorVars, dataVars, walkVars, scteVars, captionVars,
          stampVars>>

(* What a mode does not use has one initial value.                         *)
Init ==
  /\ mode \in {"ring", "list", "data", "walk", "scte", "captions", "stamps"}
  /\ Ring!Init /\ List!Init /\ Data!Init /\ Walk!Init /\ Scte!Init
  /\ Captions!Init /\ Stamps!Init
  /\ mode = "data" \/ given = [ntsc |-> FALSE, probe |-> FALSE, off |-> FALSE,
                               ttx |-> FALSE, vbiId |-> 0, vbiOptions |-> {},
                               options |-> {}]
  /\ mode = "walk" \/ (format = "pal" /\ card = "decklink")
  /\ mode = "scte" \/ (filters = <<>> /\ shift = 0 /\ low)
  /\ mode = "captions" \/ rate = <<30, 1>>
  /\ mode = "stamps" \/ (kinds = <<"udp", "udp">> /\ setting = 0 /\ userData = 0)

RingNext ==
  /\ mode = "ring" /\ Ring!Next
  /\ UNCHANGED <<mode, items, total, begins, dataVars, walkVars, scteVars, captionVars,
                 stampVars>>
ListNext ==
  /\ mode = "list" /\ List!Next
  /\ UNCHANGED <<mode, ring, dataVars, walkVars, scteVars, captionVars,
                 stampVars>>
DataNext ==
  /\ mode = "data" /\ Data!Next
  /\ UNCHANGED <<mode, detectorVars, walkVars, scteVars, captionVars,
                 stampVars>>
WalkNext ==
  /\ mode = "walk" /\ Walk!Next
  /\ UNCHANGED <<mode, items, detectorVars, dataVars, scteVars, captionVars,
                 stampVars>>
ScteNext ==
  /\ mode = "scte" /\ Scte!Next
  /\ UNCHANGED <<mode, items, detectorVars, dataVars, walkVars, captionVars,
                 stampVars>>
CaptionsNext ==
  /\ mode = "captions" /\ Captions!Next
  /\ UNCHANGED <<mode, items, detectorVars, dataVars, walkVars, scteVars,
                 stampVars>>

StampsNext ==
  /\ mode = "stamps" /\ Stamps!Next
  /\ UNCHANGED <<mode, items, detectorVars, dataVars, walkVars, scteVars, captionVars>>

Next == StampsNext \/ CaptionsNext \/ RingNext \/ ListNext \/ DataNext \/ WalkNext \/ ScteNext
Spec == Init /\ [][Next]_vars
ScteSpec == Init /\ mode = "scte" /\ [][Next]_vars
WalkSpec == Init /\ mode = "walk" /\ [][Next]_vars

(* The properties.  Each is a conjunction of properties that are stated,   *)
(* with a comment of their own, in the module of the mode.                 *)

(* Compressed audio: both detectors deliver each burst once, whole, as     *)
(* soon as it is there.  The ring holds the end of the stream however it   *)
(* wrapped, and what a search leaves never makes it grow; the list counts  *)
(* the bytes it has until a read fails.                                    *)
BurstsOfStream ==
  /\ mode = "ring" => /\ Ring!BurstsOfStream
                      /\ Ring!RingIsStreamEnd
                      /\ Ring!NeverGrows
  /\ mode = "list" => List!BurstsOfStream /\ List!CountsWhatItHas
(* Ancillary data, wherever in a frame it came: the picture says one set   *)
(* of captions and one active format, each good item is coded and the      *)
(* others are taken out, nothing goes out that was not selected, teletext  *)
(* fills its TS packets, a probe lists a service once.  The lines are read *)
(* from the buffer libzvbi is told of, by numbers that fit their field.    *)
DataOfLines ==
  /\ mode = "data" => /\ Data!SaysOneThing
                      /\ Data!CodesEachItem
                      /\ Data!OnlySelected
                      /\ Data!TtxComplete
                      /\ Data!ServicesOnce
  /\ mode = "walk" => Walk!LayoutIsBuffer /\ Walk!LineNumbersFit
(* Captions: the triplets of a packet are those of the message, a packet   *)
(* with a wrong byte is dropped, line 21 is padded to the frame rate.      *)
CaptionsCarried ==
  mode = "captions" =>
    /\ Captions!CaptionsCarried
    /\ Captions!ChangedIsDropped
    /\ Captions!ConstantRate
(* Delay measurement: the message is the last of its picture and is read   *)
(* as meant, the delay of the encoder is right to the millisecond, an      *)
(* output changes nothing but the time of sending, which is between        *)
(* leaving the encoder and being sent.                                     *)
StampsRight ==
  mode = "stamps" =>
    /\ Stamps!MessageIsLast
    /\ Stamps!ReadAsMeant
    /\ Stamps!LatencyIsRight
    /\ Stamps!OnlyTimeStamped
    /\ Stamps!SentInTime
(* SCTE-104: the sections of a picture have its time and are queued before *)
(* it, just before it where latency is low.                                *)
SectionsWithTheirPicture == mode = "scte" => Scte!SectionsWithTheirPicture
(* Walk: the video index is read from its line (it is not).                *)
VideoIndexLine == mode = "walk" => Walk!VideoIndexLine
(* SCTE-104: a section is in the stream of the PID its filter names (as    *)
(* long as no stream was added).                                           *)
SectionOnItsPid == mode = "scte" => Scte!SectionOnItsPid
=============================================================================
