----------------------------- MODULE MCEncoders -----------------------------
(* The audio path and the video encoders, one per mode.  "full" has three  *)
(* kinds of audio encoder and failures, "long" two and more blocks; "times" *)
(* has gaps and restarts, "asked" settings made at run time; "pieces" the  *)
(* encoders that make several frames of a picture; "gop" short periods and *)
(* restarts, "headers" the numbers of the code.                            *)
EXTENDS ObeQueue, Integers, TLC

CONSTANTS
  Encoders, Kind, Pair, BitstreamPairs, Block, CodecFrame,       \* audio
  FramesPerPes, Threshold, Gaps, MaxBlocks, CanFail,
  Kinds, Durations, Lead, Offset, Losses, Starts, Settings,      \* times
  MaxPictures, MaxSessions, MaxSettings,
  Interval, CardDelay, MaxParts, MaxCaptured,                    \* pieces
  Setups                                                         \* gop, headers

VARIABLES mode,
  times, due, filterQ, fpc, carried, encQ, enc, muxed, freed, cancel, closed,
  kind, reorder, generic, interlaced, dur, session, pictures, taken, coded,
  sent, lastDts, accum, epc, value, flag, asking, used, asked, reopened,
  card, bPictures, captured, given, pieces,
  setup, open, encoding, idrDisplay, frameNum, idrPicId, pocRef, refs,
  surface, count, stream

(* Values for the constants of the audio path.                             *)
ThreeEncoders == <<"mp2", "aac", "ac3">>
KindOf == "mp2" :> "mp2" @@ "aac" :> "lavc" @@ "ac3" :> "bitstream"
PairOf == "ac3" :> 2
CodecFrames == "mp2" :> 3 @@ "aac" :> 2 @@ "ac3" :> 1
PesFrames == "mp2" :> 1 @@ "aac" :> 2 @@ "ac3" :> 1
Thresholds == "mp2" :> 5 @@ "aac" :> 4 @@ "ac3" :> 1

Audio == INSTANCE AudioPath
Codec == INSTANCE CodecTimes WITH Gaps <- Losses
Pieces == INSTANCE CodedPieces WITH PieceGaps <- Losses

(* Setups of the two GPU encoders: short ones, and those of the code.      *)
ShortSetups ==
  {[codec |-> c, intraPeriod |-> IF c = "avc" THEN 3 ELSE 4,
    idrPeriod |-> IF c = "avc" THEN 6 ELSE 12, numRefs |-> 2, activeRefs |-> 1,
    surfaces |-> 4, maxPoc |-> IF c = "avc" THEN 4 ELSE 8, codedPoc |-> 4,
    maxFrameNum |-> 6,
    profile |-> 0, sizes |-> {}, pictures |-> 20, sessions |-> 3]
     : c \in {"avc", "hevc"}}
CodeSetups ==
  {[codec |-> c, intraPeriod |-> IF c = "avc" THEN 60 ELSE 30,
    idrPeriod |-> 60, numRefs |-> 2, activeRefs |-> 1, surfaces |-> 16,
    maxPoc |-> 512, codedPoc |-> IF c = "avc" THEN 256 ELSE 32,
    maxFrameNum |-> 131072, profile |-> IF c = "avc" THEN 100 ELSE 1,
    sizes |-> {<<1280, 720>>} \cup
              (IF c = "avc" THEN {<<1920, 1080>>, <<720, 576>>, <<720, 480>>} ELSE {}),
    pictures |-> 130, sessions |-> 1] : c \in {"avc", "hevc"}}
AllSetups == ShortSetups \cup CodeSetups

Gop == INSTANCE VaapiGop

ASSUME EncodersAssumption ==
  /\ Audio!ConstantsAreSound
  /\ Codec!ConstantsAreSound
  /\ Pieces!ConstantsAreSound
  /\ Gop!ConstantsAreSound

audioVars == <<times, due, filterQ, fpc, carried, encQ, enc, muxed, freed, cancel,
               closed>>
timeVars == <<kind, reorder, generic, interlaced, dur, pictures, taken, coded, sent,
              lastDts, accum, epc, value, flag, asking, used, asked, reopened>>
pieceVars == <<card, bPictures, captured, given, pieces>>
gopVars == <<setup, open, encoding, idrDisplay, frameNum, idrPicId, pocRef, refs,
             surface, count, stream>>
vars == <<mode, session, audioVars, timeVars, pieceVars, gopVars>>

(* What a mode does not use has one initial value.                         *)
Init ==
  /\ mode \in {"full", "long", "times", "asked", "pieces", "gop", "headers"}
  /\ Audio!Init
  /\ Codec!Init
  /\ Pieces!Init
  /\ Gop!Init
  /\ IF mode \in {"gop", "headers"} THEN mode = "headers" <=> setup.sizes # {}
     ELSE setup = CHOOSE s \in Setups : TRUE
  /\ mode = "times" \/ dur = 2
  /\ IF mode = "asked" THEN Codec!TakesSettings
     ELSE mode # "times" => kind = "avcodec" /\ reorder = 0 /\ ~generic
  /\ mode = "pieces" \/ ~card

(* "full": two blocks without a gap; a thread fails, or obe_close begins,  *)
(* between two callbacks of the card.  "long": PCM encoders, nobody closes.*)
AudioNext ==
  /\ \/ /\ mode = "full"
        /\ \/ Audio!Works /\ (due # <<>> => cancel' = cancel)
           \/ Audio!Fails /\ due = <<>>
        /\ Len(times') <= 2 /\ \A k \in DOMAIN times' : times'[k] = (k - 1) * Block
     \/ /\ mode = "long" /\ Audio!Works /\ cancel' = cancel
        /\ \A e \in Audio!E \ Audio!Pcm : UNCHANGED enc[e]
  /\ UNCHANGED <<mode, session, timeVars, pieceVars, gopVars>>
(* Settings are made at one frame rate, in one session, without gaps.      *)
TimesNext ==
  /\ Codec!Next
  /\ \/ mode = "times" /\ asked' = 0
     \/ mode = "asked" /\ session' = 1
          /\ \A i \in DOMAIN pictures' : pictures'[i] = (i - 1) * dur
  /\ UNCHANGED <<mode, audioVars, pieceVars, gopVars>>
PiecesNext ==
  /\ mode = "pieces" /\ Pieces!Next
  /\ UNCHANGED <<mode, session, audioVars, timeVars, gopVars>>
GopNext ==
  /\ mode \in {"gop", "headers"} /\ Gop!Next
  /\ UNCHANGED <<mode, audioVars, timeVars, pieceVars>>

Next == AudioNext \/ TimesNext \/ PiecesNext \/ GopNext

(* The threads are fair in mode "full".                                    *)
Rest == UNCHANGED <<mode, session, timeVars, pieceVars, gopVars>>
Spec ==
  /\ Init /\ [][Next]_vars
  /\ WF_vars(mode = "full" /\ Audio!FilterStep /\ Rest)
  /\ WF_vars(mode = "full" /\ Audio!CloseStep /\ Rest)
  /\ WF_vars(mode = "full" /\ Audio!CardBitstream /\ Rest)
  /\ \A e \in Audio!E : WF_vars(mode = "full" /\ Audio!EncoderStep(e) /\ Rest)

(* The properties.  Each is a conjunction of properties that are stated,   *)
(* with a comment of their own, in the module of the mode.                 *)

(* Audio, as long as nothing failed and nobody closed: each encoder codes  *)
(* all samples in order, a coded frame has the time of its first sample    *)
(* whatever gap came before, and a frame of the card is released once, by  *)
(* the thread that owns it (start_filter_audio, the three encoders).       *)
AudioAsCaptured ==
  Audio!AudioInOrder /\ Audio!CodedTimes /\ Audio!FramesOwned
(* Audio, with three encoders and failures: obe_close returns, whichever   *)
(* threads have ended before, and an encoder that has not ended empties    *)
(* its queue.                                                              *)
AudioEnds ==
  /\ mode = "full" /\ cancel # {} ~> Len(closed) = Len(Audio!Victims)
  /\ \A e \in Audio!E :
       LET runs == mode = "full" /\ e \in DOMAIN encQ
       IN  (runs /\ encQ[e].items # <<>>)
             ~> (runs => encQ[e].items = <<>> \/ enc[e].pc = "ended")
(* Codecs: across reordering, gaps and restarts the PTS is the capture     *)
(* time and a constant, the DTS go up and stay behind the PTS, and frames  *)
(* arrive at one distance before they are decoded; the same, as far as it  *)
(* goes, when a picture becomes several coded frames.                      *)
CodedTimesRight ==
  /\ Codec!PtsFollowsClock /\ Codec!DtsIncreases /\ Codec!ArrivalKeepsDistance
  /\ Pieces!PiecesOfPicture /\ Pieces!PiecesInTime
(* Codecs: a coded frame keeps what came with its picture, and no message  *)
(* is coded twice, not even when a picture is coded as two fields.         *)
PictureKeepsItsData ==
  Codec!MessagesOnce /\ Codec!KeepsItsData
(* Codecs: the last setting made at the command line reaches the codec.    *)
SettingTaken == Codec!SettingTaken
(* GPU: a picture refers to pictures that decoder and encoder both hold,   *)
(* in the list that the decoder makes, with the picture order count that   *)
(* it computes, and a session of AVC starts with an IDR picture.  Where    *)
(* HEVC has ended the sequence without one nothing is claimed.             *)
DecoderAgrees ==
  /\ Gop!AvcStartsWithIdr /\ Gop!RefsAreDecoded
  /\ Gop!ListIsDecoders /\ Gop!PocIsDecoders
(* GPU: the bits of the parameter sets and of the slice header, read by a  *)
(* decoder, say the size, the references and the picture that was coded.   *)
HeadersSayPicture ==
  mode = "headers" => Gop!SetsSaySize /\ Gop!SliceSaysPicture
=============================================================================
