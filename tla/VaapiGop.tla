------------------------------ MODULE VaapiGop ------------------------------
(***************************************************************************)
(* The encoders that drive the GPU themselves: encoders/video/avc/vaapi.c  *)
(* and hevc/hevcencode.c with vaapi-hevc.c.  They choose the type of each  *)
(* picture, number it, and keep the list of the pictures it may refer to;  *)
(* the GPU writes each reconstructed picture on one of a ring of surfaces. *)
(* AVC keeps this state in the thread; HEVC in static variables that only  *)
(* an IDR picture resets.                                                  *)
(***************************************************************************)
EXTENDS SliceHeaders, FiniteSets

CONSTANT Setups
(* How an encoder is set up, a record: its codec and                       *)
(*   intraPeriod, idrPeriod, numRefs, surfaces, maxPoc, maxFrameNum        *)
(*              the variables of these names, SURFACE_NUM, and the two     *)
(*              limits MaxPicOrderCntLsb and MaxFrameNum of the encoder,   *)
(*   codedPoc   2^Log2MaxPicOrderCntLsb, of the stream,                    *)
(*   activeRefs num_active_ref_p of HEVC, also in its SPS,                 *)
(*   profile, sizes    profile_idc and sizes of pictures, for the headers, *)
(*   pictures, sessions  how many of them at most.                         *)

(* The encoder writes one reference into a slice of HEVC.                  *)
SetupIsSound(s) ==
  /\ s.codec \in {"avc", "hevc"}
  /\ s.intraPeriod \in Nat /\ s.intraPeriod > 1
  /\ {s.idrPeriod, s.numRefs, s.surfaces, s.maxFrameNum, s.pictures, s.sessions}
       \subseteq Nat \ {0}
  /\ s.numRefs < s.surfaces
  /\ s.codec = "avc" => s.idrPeriod <= s.maxFrameNum + 1
  /\ s.codec = "hevc" => s.activeRefs = 1
  /\ s.codedPoc \in Nat /\ s.codedPoc > 1
  /\ \E k \in 1 .. s.maxPoc : s.maxPoc = k * s.codedPoc

ConstantsAreSound == \A s \in Setups : SetupIsSound(s)

VARIABLES
  setup, session, open,
  encoding,   \* current_frame_encoding
  idrDisplay, frameNum, idrPicId, pocRef, \* pocRef: <<msb, lsb>>
  refs,       \* ReferenceFrames, newest first
  surface,    \* what each surface of this session holds: a picture or 0
  count,      \* pictures coded in all sessions
  stream      \* pictures of this session as coded

state == <<encoding, idrDisplay, frameNum, idrPicId, pocRef, refs>>
vars == <<setup, session, open, state, surface, count, stream>>

Slots == 0 .. setup.surfaces - 1

(* A new context.                                                          *)
Fresh ==
  /\ encoding' = 0 /\ idrDisplay' = 0 /\ frameNum' = 0 /\ idrPicId' = 0
  /\ refs' = <<>>

Init ==
  /\ setup \in Setups /\ session = 1 /\ open = TRUE
  /\ encoding = 0 /\ idrDisplay = 0 /\ frameNum = 0 /\ idrPicId = 0
  /\ pocRef = <<0, 0>> /\ refs = <<>>
  /\ surface = [s \in Slots |-> 0] /\ count = 0 /\ stream = <<>>
-----------------------------------------------------------------------------
(* encoding2display_order, for ip_period = 1: no B pictures, and pictures  *)
(* are shown in the order in which they are coded.                         *)
AvcType(n) ==
  LET gop == n % setup.idrPeriod
  IN  IF gop = 0 THEN "IDR"
      ELSE IF gop >= 2 /\ gop % setup.intraPeriod = 0 THEN "I" ELSE "P"

(* hevcencode.c has another modulus: one less than the period.             *)
HevcType(n) ==
  LET gop == n % setup.idrPeriod
  IN  IF gop = 0 THEN "IDR"
      ELSE IF gop >= 2 /\ gop % (setup.intraPeriod - 1) = 0 THEN "I" ELSE "P"

Type(n) == IF setup.codec = "avc" THEN AvcType(n) ELSE HevcType(n)

(* Fault: the wrap is not counted.                                         *)
CalcPocNoWrap(type, lsb) == [poc |-> lsb, ref |-> <<0, lsb>>]

(* calc_poc: the count with its wraps, from the last one.                  *)
CalcPoc(type, lsb) ==
  LET prev == IF type = "IDR" THEN <<0, 0>> ELSE pocRef
      msb  == IF lsb < prev[2] /\ prev[2] - lsb >= setup.maxPoc \div 2
              THEN prev[1] + setup.maxPoc
              ELSE IF lsb > prev[2] /\ lsb - prev[2] > setup.maxPoc \div 2
              THEN prev[1] - setup.maxPoc ELSE prev[1]
  IN  [poc |-> msb + lsb, ref |-> <<msb, lsb>>]

Active(list) == IF setup.codec = "avc" THEN list ELSE SubSeq(list, 1, setup.activeRefs)

(* sort_one, highest first: AVC sorts by frame_idx, HEVC by the order      *)
(* count it gives the GPU, which is twice that of the slice header.        *)
SortKey(pic) == IF setup.codec = "avc" THEN pic.frameNum ELSE 2 * pic.poc
Sorted(rs) ==
  LET order == CHOOSE p \in [DOMAIN rs -> DOMAIN rs] :
                 /\ IsInjective(p)
                 /\ \A i, j \in DOMAIN rs :
                      i < j => SortKey(rs[p[i]]) >= SortKey(rs[p[j]])
  IN  [i \in DOMAIN rs |-> rs[order[i]]]

(* update_RefPicList: for a P picture; a slice of HEVC takes the first.    *)
RefList(type, rs) == IF type # "P" THEN <<>> ELSE Active(Sorted(rs))

(* update_ReferenceFrames: the newest in front, at most num_ref_frames.    *)
UpdateReferences(rs, pic) ==
  <<pic>> \o SubSeq(rs, 1, IF Len(rs) < setup.numRefs - 1 THEN Len(rs) ELSE setup.numRefs - 1)

(* An IDR picture empties the list.                                        *)
StartsAnew(type) == type = "IDR"

(* AVC counts pictures since the IDR, back to 0 above the maximum.         *)
NextFrameNum(n) == IF n + 1 > setup.maxFrameNum THEN 0 ELSE n + 1

(* render_picture.  HEVC has the GPU end the sequence with the last        *)
(* picture of each intra period, whatever comes next: after the 30th comes *)
(* a P picture, after the 60th an IDR picture.  AVC never does.            *)
EndsSequence(n) == setup.codec = "hevc" /\ (n + 1) % setup.intraPeriod = 0

(* vaapi_encode_frame, for one picture of the queue.  Parameter sets are   *)
(* sent with IDR pictures only; the surface is that of the picture's place *)
(* in display order.                                                       *)
EncodePicture ==
  /\ open /\ count < setup.pictures
  /\ LET type == Type(encoding)
         rs   == IF StartsAnew(type) THEN <<>> ELSE refs
         fn   == IF type = "IDR" THEN 0 ELSE frameNum
         idr  == IF type = "IDR" THEN encoding ELSE idrDisplay
         lsb  == (encoding - idr) % setup.maxPoc
         poc  == CalcPoc(type, lsb)
         slot == encoding % setup.surfaces
         id   == IF type = "IDR" /\ encoding # 0 THEN idrPicId + 1 ELSE idrPicId
         pic  == [id |-> count + 1, session |-> session, slot |-> slot, type |-> type,
                  frameNum |-> fn, poc |-> poc.poc, idrPicId |-> id]
     IN  /\ stream' = Append(stream,
              [pic |-> pic, type |-> type, lsb |-> lsb % setup.codedPoc, list |-> RefList(type, rs),
               ends |-> EndsSequence(encoding), kept |-> rs,
               held |-> [i \in DOMAIN rs |-> surface[rs[i].slot]]])
         /\ surface' = [surface EXCEPT ![slot] = count + 1]
         /\ refs' = UpdateReferences(rs, pic)
         /\ frameNum' = NextFrameNum(fn)
         /\ idrDisplay' = idr /\ pocRef' = poc.ref
         /\ idrPicId' = id
  /\ encoding' = encoding + 1 /\ count' = count + 1
  /\ UNCHANGED <<setup, session, open>>

(* release_encode: the surfaces are destroyed.                             *)
CloseEncoder ==
  /\ open /\ open' = FALSE
  /\ surface' = [s \in Slots |-> 0]
  /\ UNCHANGED <<setup, session, state, count, stream>>

(* setup_encode makes new surfaces.  The AVC thread has a new context; the *)
(* references of calc_poc are static in both.                              *)
OpenEncoder ==
  /\ ~open /\ session < setup.sessions
  /\ open' = TRUE /\ session' = session + 1 /\ stream' = <<>>
  /\ IF setup.codec = "avc" THEN Fresh ELSE UNCHANGED <<encoding, idrDisplay, frameNum, idrPicId, refs>>
  /\ UNCHANGED <<setup, pocRef, surface, count>>

Next == EncodePicture \/ CloseEncoder \/ OpenEncoder
Spec == Init /\ [][Next]_vars
-----------------------------------------------------------------------------
(* What a decoder knows when it has decoded the first n of the stream: the *)
(* pictures it keeps since the last IDR (a sliding window; for HEVC those  *)
(* of the reference set in the SPS) and the order count of the coded bits. *)
LastIdr(n) ==
  LET idrs == {i \in 1 .. n : stream[i].type = "IDR"}
  IN  IF idrs = {} THEN 0 ELSE CHOOSE i \in idrs : \A j \in idrs : j <= i

Window(n) ==
  LET from == LastIdr(n - 1)
      size == IF setup.codec = "avc" THEN setup.numRefs ELSE setup.activeRefs
      low  == IF n - size > from THEN n - size ELSE from
  IN  {stream[i].pic : i \in (IF low = 0 THEN 1 ELSE low) .. n - 1}

(* A session of HEVC after the first goes on where the last one stopped    *)
(* (see README); what follows is claimed from its first IDR picture on.    *)
(* Nor has a decoder anything to refer to when a sequence has ended: HEVC  *)
(* goes on with P pictures there, and up to the next IDR picture nothing   *)
(* is claimed.                                                             *)
Decodable ==
  {n \in DOMAIN stream :
     LastIdr(n) > 0 /\ \A i \in LastIdr(n) .. n - 1 : ~stream[i].ends}

(* Every picture refers to pictures that a decoder has, that are still on  *)
(* the surfaces of the encoder, and a picture is not written on a surface  *)
(* it refers to.                                                           *)
RefsAreDecoded ==
  \A n \in Decodable :
    LET s == stream[n]
    IN  /\ \A i \in DOMAIN s.list : s.list[i] \in Window(n)
        /\ \A i \in DOMAIN s.kept :
             s.held[i] = s.kept[i].id /\ s.kept[i].slot # s.pic.slot

(* The list of a P picture is the one the decoder makes: the pictures of   *)
(* the window, the newest first.                                           *)
ListIsDecoders ==
  \A n \in Decodable :
    stream[n].type = "P" =>
      /\ Range(stream[n].list) = Window(n)
      /\ \A i, j \in DOMAIN stream[n].list :
           i < j => stream[n].list[i].id > stream[n].list[j].id

(* The order count a decoder makes of the coded bits is the encoder's.     *)
DecodedPoc(n) ==
  LET From == LastIdr(n)
      D[i \in From .. n] ==
        IF i = From THEN <<0, 0>>
        ELSE LET lsb == stream[i].lsb
                 p   == D[i - 1]
             IN  IF lsb < p[2] /\ p[2] - lsb >= setup.codedPoc \div 2 THEN <<p[1] + setup.codedPoc, lsb>>
                 ELSE IF lsb > p[2] /\ lsb - p[2] > setup.codedPoc \div 2 THEN <<p[1] - setup.codedPoc, lsb>>
                 ELSE <<p[1], lsb>>
  IN  D[n][1] + D[n][2]

PocIsDecoders ==
  \A n \in Decodable :
    DecodedPoc(n) = stream[n].pic.poc /\ stream[n].pic.poc = n - LastIdr(n)

(* The parameter sets of an IDR picture, read as the standard says, give   *)
(* the size of the pictures and the references of the encoder.             *)
AvcSetsSay(size) ==
  \E sps \in {ReadAvcSps(AvcSps(setup.profile, size, setup.numRefs))},
     pps \in {ReadAvcPps(AvcPps(1, 26))} :
    sps.size = size /\ sps.refs = setup.numRefs /\ sps.ends /\ pps.ends

HevcSetsSay(size) ==
  \E vps \in {ReadHevcVps(HevcVps(setup.profile))},
     sps \in {ReadHevcSps(HevcSps(setup.profile, size, setup.activeRefs))},
     pps \in {ReadHevcPps(HevcPps(26))} :
    /\ sps.size = size /\ sps.refs = setup.activeRefs
    /\ vps.profile = sps.profile /\ vps.buffered = sps.buffered
    /\ vps.ends /\ sps.ends /\ pps.ends

SetsSaySize ==
  (stream # <<>> /\ Last(stream).type = "IDR") =>
    \A size \in setup.sizes : IF setup.codec = "avc" THEN AvcSetsSay(size) ELSE HevcSetsSay(size)

(* The slice header, read with the parameter sets, is that of the picture: *)
(* its type and its numbers modulo what is coded, to the last bit; two IDR *)
(* pictures in a row have different numbers.                               *)
AvcSliceSays(pic, size) ==
  \A cabac \in {0, 1} :
    \E sps \in {ReadAvcSps(AvcSps(setup.profile, size, setup.numRefs))},
       pps \in {ReadAvcPps(AvcPps(cabac, 26))}, bits \in {AvcSlice(pic, cabac)} :
      \E s \in {ReadAvcSlice(bits, sps, pps)} :
        /\ s.type = pic.type /\ s.frameNum = pic.frameNum % 2^sps.frameNumBits
        /\ s.poc = pic.poc % 2^sps.pocBits /\ s.ends
        /\ pic.type = "IDR" => s.idrPicId = pic.idrPicId
        /\ \A n \in DOMAIN stream \ {Len(stream)} :
             (stream[n].type = "IDR" /\ pic.type = "IDR")
               => stream[n].pic.idrPicId # s.idrPicId

HevcSliceSays(pic, size) ==
  \E sps \in {ReadHevcSps(HevcSps(setup.profile, size, setup.activeRefs))},
     pps \in {ReadHevcPps(HevcPps(26))}, bits \in {HevcSlice(pic)} :
    \E s \in {ReadHevcSlice(bits, sps, pps)} :
      /\ s.type = pic.type /\ s.ends
      /\ s.poc = pic.poc % 2^sps.pocBits
      /\ s.slice = HevcSliceType(pic.type)

SliceSaysPicture ==
  stream # <<>> =>
    LET size == CHOOSE size \in setup.sizes : TRUE
    IN  IF setup.codec = "avc" THEN AvcSliceSays(Last(stream).pic, size)
        ELSE HevcSliceSays(Last(stream).pic, size)

(* A session starts with an IDR picture.                                   *)
StartsWithIdr == stream # <<>> => stream[1].type = "IDR"
AvcStartsWithIdr == setup.codec = "avc" => StartsWithIdr
=============================================================================
