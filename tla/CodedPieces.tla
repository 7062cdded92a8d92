----------------------------- MODULE CodedPieces -----------------------------
(***************************************************************************)
(* The encoders that make several coded frames of one picture.  The two    *)
(* vaapi threads walk the segments of the buffer the driver hands back     *)
(* (save_codeddata) and queue a coded frame for each.  The callback of the *)
(* Vega card queues each NAL as a raw frame of its own; vega-passthru      *)
(* makes a coded frame of each, in another thread.                         *)
(*                                                                         *)
(* The card may code with B pictures: then every other picture is coded    *)
(* after the next one.  Times are in fractions of a frame.                 *)
(***************************************************************************)
EXTENDS Integers, Sequences, SequencesExt

CONSTANTS
  Interval,    \* from one picture to the next
  PieceGaps,   \* time lost between pictures
  Lead,        \* 1351350, which the thread of the card takes off
  CardDelay,   \* 450450, which it adds
  MaxParts,    \* segments or NALs of a picture
  MaxCaptured  \* pictures

ConstantsAreSound ==
  /\ Interval \in Nat \ {0} /\ PieceGaps \subseteq Nat
  /\ {Lead, CardDelay, MaxParts, MaxCaptured} \subseteq Nat

VARIABLES
  card,      \* the Vega card; else vaapi
  bPictures, \* the card codes with B pictures
  captured,  \* times of the pictures
  given,     \* parts given by the codec: [k, part, of], k-th picture coded
  pieces     \* coded frames queued

vars == <<card, bPictures, captured, given, pieces>>

Init ==
  /\ card \in BOOLEAN /\ bPictures \in BOOLEAN /\ (bPictures => card)
  /\ captured = <<>> /\ given = <<>> /\ pieces = <<>>

(* The number of the picture that is coded as the k-th, both from 1.       *)
Shown(k) ==
  IF ~bPictures \/ k = 1 THEN k ELSE IF k % 2 = 0 THEN k + 1 ELSE k - 1

Capture(gap) ==
  /\ Len(captured) < MaxCaptured
  /\ captured' = Append(captured, IF captured = <<>> THEN 0
                                  ELSE Last(captured) + Interval + gap)
  /\ UNCHANGED <<card, bPictures, given, pieces>>

(* The next part: of the same picture, or the first of the next one.       *)
NextPart(of) ==
  IF given # <<>> /\ Last(given).part < Last(given).of
  THEN [Last(given) EXCEPT !.part = @ + 1]
  ELSE [k |-> IF given = <<>> THEN 1 ELSE Last(given).k + 1, part |-> 1, of |-> of]

CanGive(x) == Shown(x.k) <= Len(captured)

(* avc_vaapi_deliver_nals, hevc_vaapi_deliver_nals: one time for all, and  *)
(* what came with the picture.                                             *)
VaapiPiece(x) ==
  LET t == captured[Shown(x.k)]
  IN  [n |-> Shown(x.k), part |-> x.part, of |-> x.of,
       pts |-> t, dts |-> t, arrival |-> t, avfm |-> Shown(x.k)]

(* deliver_video_nal gives PTS and DTS the PTS of the picture;             *)
(* dispatch_payload moves both, and does not set avfm.                     *)
CardPiece(x) ==
  LET t == captured[Shown(x.k)] + CardDelay
  IN  [n |-> Shown(x.k), part |-> x.part, of |-> x.of,
       pts |-> t, dts |-> t, arrival |-> t - Lead, avfm |-> 0]

(* save_codeddata: a segment is queued as soon as it is met.               *)
Segment(of) ==
  /\ ~card
  /\ LET x == NextPart(of)
     IN  /\ CanGive(x)
         /\ given' = Append(given, x) /\ pieces' = Append(pieces, VaapiPiece(x))
  /\ UNCHANGED <<card, bPictures, captured>>

(* vega3311_video_compressed_callback: the NALs of a picture, one by one.  *)
CardGives(of) ==
  /\ card
  /\ LET x == NextPart(of) IN CanGive(x) /\ given' = Append(given, x)
  /\ UNCHANGED <<card, bPictures, captured, pieces>>

(* vega_start_encoder: the NAL at the head of its queue.                   *)
PassThrough ==
  /\ card /\ Len(pieces) < Len(given)
  /\ pieces' = Append(pieces, CardPiece(given[Len(pieces) + 1]))
  /\ UNCHANGED <<card, bPictures, captured, given>>

Next ==
  \/ \E gap \in PieceGaps : Capture(gap)
  \/ \E of \in 1 .. MaxParts : Segment(of) \/ CardGives(of)
  \/ PassThrough
-----------------------------------------------------------------------------
Delay == IF card THEN CardDelay ELSE 0

(* Whatever is captured while NALs wait between callback and thread: each  *)
(* piece has the time of its own picture and a constant, as PTS and as     *)
(* DTS, arrives no later, keeps what came with the picture (from the card  *)
(* nothing does), and the pieces of a picture follow each other.           *)
PiecesOfPicture ==
  \A i \in DOMAIN pieces :
    LET p == pieces[i]
    IN  /\ p.pts = captured[p.n] + Delay /\ p.dts = p.pts /\ p.arrival <= p.dts
        /\ p.avfm = IF card THEN 0 ELSE p.n
        /\ i > 1 /\ p.part > 1 =>
             pieces[i - 1].n = p.n /\ pieces[i - 1].part = p.part - 1

(* The DTS of the pieces never go back, as long as the card does not code  *)
(* with B pictures: it gives those their PTS as DTS.                       *)
PiecesInTime ==
  \A i, j \in DOMAIN pieces :
    ~bPictures /\ i < j => pieces[i].dts <= pieces[j].dts
=============================================================================
