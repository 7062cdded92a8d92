---------------------------- MODULE SliceHeaders ----------------------------
(***************************************************************************)
(* The bit writer and the headers that encoders/video/avc/vaapi.c and      *)
(* hevc/hevcencode.c write themselves, and a reader of such headers: what  *)
(* the standards say, H.264 7.3 and H.265 7.3.                             *)
(*                                                                         *)
(* A header is a sequence of puts <<value, size in bits>>; the stream is   *)
(* the sequence of its bits, in words of 32.                               *)
(***************************************************************************)
EXTENDS Integers, SequencesExt

Digit(v, k) == IF k > 20 THEN 0 ELSE (v \div 2^k) % 2

(* Digits of v, at least one.                                              *)
Size(v) == CHOOSE n \in 1 .. 21 : 2^(n - 1) <= v /\ v < 2^n

(* bitstream_put_ui: the word under way is shifted and the value put on    *)
(* it with an or, whatever its size: digits beyond the size fall on bits   *)
(* of the same word that were written before.                              *)
Put(bits, put) ==
  LET v    == put[1]
      n    == put[2]
      word == 32 * (Len(bits) \div 32)
      new  == [k \in 1 .. n |-> Digit(v, n - k)]
      back == [k \in 1 .. Len(bits) - word |->
                 IF Digit(v, Len(bits) - word - k + n) = 1 THEN 1 ELSE bits[word + k]]
  IN  IF n = 0 \/ n > 20 \/ v < 2^n THEN bits \o new ELSE SubSeq(bits, 1, word) \o back \o new

Bits(puts) ==
  LET Written[i \in 0 .. Len(puts)] ==
        IF i = 0 THEN <<>> ELSE Put(Written[i - 1], puts[i])
  IN  Written[Len(puts)]

U(v, n) == <<<<v, n>>>>
Zeros(n) == <<<<0, n>>>>
(* As many zeros as the number has digits after the first, and the number. *)
Ue(v) == U(v + 1, 2 * Size(v + 1) - 1)
Se(v) == Ue(IF v <= 0 THEN -2 * v ELSE 2 * v - 1)
If(condition, puts) == IF condition THEN puts ELSE <<>>

(* bitstream_byte_aligning, rbsp_trailing_bits.                            *)
Aligned(puts, bit) ==
  LET left == (8 - (Len(Bits(puts)) % 8)) % 8
  IN  puts \o U(IF bit = 1 THEN 2^left - 1 ELSE 0, left)
Trailed(puts) == Aligned(puts \o U(1, 1), 0)
-----------------------------------------------------------------------------
(* A reader: kinds is a sequence of sizes, 0 for an Exp-Golomb number.     *)
Value(bits, at, n) ==
  LET V[i \in 0 .. n] == IF i = 0 THEN 0 ELSE 2 * V[i - 1] + bits[at + i - 1]
  IN  V[n]

ReadOne(bits, at, n) ==
  IF n > 0 THEN [v |-> Value(bits, at, n), at |-> at + n]
  ELSE LET zeros == CHOOSE z \in 0 .. 20 :
                      bits[at + z] = 1 /\ \A i \in 0 .. z - 1 : bits[at + i] = 0
       IN  [v |-> Value(bits, at + zeros, zeros + 1) - 1, at |-> at + 2 * zeros + 1]

(* The values, and the position after them in the last place.              *)
Read(bits, at, kinds) ==
  LET R[i \in 0 .. Len(kinds)] ==
        IF i = 0 THEN <<at>>
        ELSE LET before == R[i - 1]
                 one    == ReadOne(bits, Last(before), kinds[i])
             IN  Front(before) \o <<one.v, one.at>>
  IN  R[Len(kinds)]

Rest(s) == s[Len(s)]
SeValue(v) == IF v % 2 = 1 THEN (v + 1) \div 2 ELSE -(v \div 2)

(* What is left after the stop bit fills a byte.                           *)
Ends(bits, s) == Len(bits) - Rest(s) < 7 /\ Len(bits) % 8 = 0
-----------------------------------------------------------------------------
Align16(n) == 16 * ((n + 15) \div 16)

AvcNal(idc, type) == U(1, 32) \o U(0, 1) \o U(idc, 2) \o U(type, 5)

AvcFrameNumBits == 16
AvcPocBits == 8

(* Fault: the cropping is in samples.                                      *)
AvcCropInSamples(size) ==
  LET w == Align16(size[1]) - size[1]
      h == Align16(size[2]) - size[2]
  IN  U(IF w + h > 0 THEN 1 ELSE 0, 1)
        \o If(w + h > 0, Ue(0) \o Ue(w) \o Ue(0) \o Ue(h))

(* render_sequence: what 16 x 16 blocks have too much is cropped, in units *)
(* of two samples.                                                         *)
AvcCrop(size) ==
  LET w == Align16(size[1]) - size[1]
      h == Align16(size[2]) - size[2]
  IN  U(IF w + h > 0 THEN 1 ELSE 0, 1)
        \o If(w + h > 0, Ue(0) \o Ue(w \div 2) \o Ue(0) \o Ue(h \div 2))

(* sps_rbsp; level 4.1, no VUI.                                            *)
AvcSps(profile, size, refs) ==
  Bits(Trailed(
    AvcNal(3, 7) \o U(profile, 8) \o Zeros(8) \o U(41, 8) \o Ue(0)
    \o If(profile = 100, Ue(1) \o Ue(0) \o Ue(0) \o Zeros(2))
    \o Ue(AvcFrameNumBits - 4) \o Ue(0) \o Ue(AvcPocBits - 4) \o Ue(refs) \o U(0, 1)
    \o Ue(Align16(size[1]) \div 16 - 1) \o Ue(Align16(size[2]) \div 16 - 1)
    \o U(1, 1) \o U(1, 1) \o AvcCrop(size) \o U(0, 1)))

(* pps_rbsp.                                                               *)
AvcPps(cabac, qp) ==
  Bits(Trailed(
    AvcNal(3, 8) \o Ue(0) \o Ue(0) \o U(cabac, 1) \o U(0, 1) \o Ue(0)
    \o Ue(0) \o Ue(0) \o U(0, 1) \o U(0, 2) \o Se(qp - 26) \o Se(0) \o Se(0)
    \o U(1, 1) \o Zeros(2) \o U(1, 1) \o U(0, 1) \o Se(0)))

(* slice_header, of a P or an I slice that is a reference.                 *)
AvcSlice(pic, cabac) ==
  LET idr == pic.type = "IDR"
      p   == pic.type = "P"
      header ==
        AvcNal(IF p THEN 2 ELSE 3, IF idr THEN 5 ELSE 1)
        \o Ue(0) \o Ue(IF p THEN 0 ELSE 2) \o Ue(0)
        \o U(pic.frameNum, AvcFrameNumBits)
        \o If(idr, Ue(pic.idrPicId)) \o U(pic.poc, AvcPocBits)
        \o If(p, U(0, 1) \o U(0, 1))
        \o U(0, IF idr THEN 2 ELSE 1)
        \o If(cabac = 1 /\ p, Ue(0)) \o Se(0) \o Ue(0) \o Se(0) \o Se(0)
  IN  Bits(IF cabac = 1 THEN Aligned(header, 1) ELSE header)

ReadAvcSps(bits) ==
  LET a    == Read(bits, 41, <<8, 8, 8, 0>>)
      b    == IF a[1] = 100 THEN Read(bits, Rest(a), <<0, 0, 0, 1, 1>>) ELSE a
      c    == Read(bits, Rest(b), <<0, 0, 0, 0, 1, 0, 0, 1, 1, 1>>)
      crop == IF c[10] = 1 THEN Read(bits, Rest(c), <<0, 0, 0, 0>>) ELSE <<0, 0, 0, 0, Rest(c)>>
      vui  == Read(bits, Rest(crop), <<1, 1>>)
  IN  [frameNumBits |-> c[1] + 4, pocBits |-> c[3] + 4, refs |-> c[4],
       size |-> <<16 * (c[6] + 1) - 2 * (crop[1] + crop[2]),
                  16 * (c[7] + 1) - 2 * (crop[3] + crop[4])>>,
       ends |-> vui[2] = 1 /\ Ends(bits, vui)]

ReadAvcPps(bits) ==
  LET a == Read(bits, 41, <<0, 0, 1, 1, 0, 0, 0, 1, 2, 0, 0, 0, 1, 2, 1, 1, 0, 1>>)
  IN  [cabac |-> a[3], qp |-> 26 + SeValue(a[10]), filter |-> a[13],
       ends |-> a[18] = 1 /\ Ends(bits, a)]

ReadAvcSlice(bits, sps, pps) ==
  LET n    == Read(bits, 33, <<3, 5, 0, 0, 0, sps.frameNumBits>>)
      idr  == n[2] = 5
      p    == n[4] = 0
      i    == IF idr THEN Read(bits, Rest(n), <<0>>) ELSE <<0, Rest(n)>>
      o    == Read(bits, Rest(i), <<sps.pocBits>>)
      l    == Read(bits, Rest(o), (IF p THEN <<1, 1>> ELSE <<>>) \o (IF idr THEN <<1, 1>> ELSE <<1>>)
                                   \o (IF pps.cabac = 1 /\ p THEN <<0>> ELSE <<>>)
                                   \o (IF pps.filter = 1 THEN <<0, 0, 0, 0>> ELSE <<0>>))
  IN  [type |-> IF idr THEN "IDR" ELSE IF p THEN "P" ELSE "I",
       frameNum |-> n[6], poc |-> o[1], idrPicId |-> i[1],
       ends |-> IF pps.cabac = 1 THEN Ends(bits, l) ELSE Rest(l) = Len(bits) + 1]
-----------------------------------------------------------------------------
HevcNal(type) ==
  U(1, IF type \in {32, 33, 34} THEN 32 ELSE 24) \o U(0, 1) \o U(type, 6) \o U(0, 6) \o U(1, 3)

(* log2_max_pic_order_cnt_lsb of fill_sps_header, for ip_period = 1.       *)
HevcPocBits == 5

(* protier_rbsp: the flag of the profile among 32, progressive, frames     *)
(* only, level 90.                                                         *)
ProfileTier(profile) ==
  U(0, 2) \o U(0, 1) \o U(profile, 5)
  \o Zeros(profile) \o U(1, 1) \o Zeros(31 - profile)
  \o U(1, 1) \o Zeros(2) \o U(1, 1) \o Zeros(44) \o U(90, 8)

(* fill_vps_header, vps_rbsp.                                              *)
HevcVps(profile) ==
  Bits(Trailed(
    HevcNal(32) \o U(0, 4) \o U(3, 2) \o U(0, 6) \o U(0, 3) \o U(1, 1) \o U(65535, 16)
    \o ProfileTier(profile) \o U(0, 1) \o Ue(6) \o Ue(0) \o Ue(0)
    \o U(0, 6) \o Ue(0) \o U(0, 1) \o U(0, 1)))

(* The window of fill_sps_header.                                          *)
HevcWindow(size) ==
  LET w == Align16(size[1]) - size[1]
      h == Align16(size[2]) - size[2]
  IN  U(IF w + h > 0 THEN 1 ELSE 0, 1)
        \o If(w + h > 0, Ue(0) \o Ue(w \div 2) \o Ue(0) \o Ue(h \div 2))

(* One set of references, the negative ones each one picture earlier       *)
(* (fill_short_term_ref_pic_header, pack_short_term_ref_pic_setp).         *)
ReferenceSet(active) ==
  Ue(active) \o Ue(0) \o FlattenSeq([i \in 1 .. active |-> Ue(0) \o U(1, 1)])

(* fill_sps_header, sps_rbsp: LCU_SIZE 32.                                 *)
HevcSps(profile, size, active) ==
  Bits(Trailed(
    HevcNal(33) \o U(0, 4) \o U(0, 3) \o U(1, 1) \o ProfileTier(profile) \o Ue(0) \o Ue(1)
    \o Ue(Align16(size[1])) \o Ue(Align16(size[2])) \o HevcWindow(size)
    \o Ue(0) \o Ue(0) \o Ue(HevcPocBits - 4) \o U(0, 1) \o Ue(6) \o Ue(0) \o Ue(0)
    \o Ue(0) \o Ue(2) \o Ue(0) \o Ue(3) \o Ue(2) \o Ue(2) \o U(0, 1)
    \o U(1, 1) \o U(0, 1) \o U(0, 1) \o Ue(1) \o ReferenceSet(active)
    \o U(0, 1) \o U(1, 1) \o U(0, 1) \o U(0, 1) \o U(0, 1)))

(* fill_pps_header, pps_rbsp.                                              *)
HevcPps(qp) ==
  Bits(Trailed(
    HevcNal(34) \o Ue(0) \o Ue(0) \o U(0, 1) \o U(0, 1) \o U(0, 3) \o U(0, 1) \o U(1, 1)
    \o Ue(0) \o Ue(0) \o Se(qp - 26) \o U(0, 1) \o U(0, 1) \o U(0, 1) \o Se(0) \o Se(0)
    \o Zeros(6) \o U(0, 1) \o U(1, 1) \o U(0, 1) \o U(0, 1) \o Se(2) \o Se(0)
    \o U(0, 1) \o U(0, 1) \o Ue(0) \o U(0, 1) \o U(0, 1)))

(* p2b: a P picture is a B slice with the same list twice.  Its code is    *)
(* one bit, on which the sixth digit of an order count does no harm.       *)
HevcSliceType(type) == IF type = "P" THEN 0 ELSE 2

(* fill_slice_header, sliceHeader_rbsp: the order count is not cut to the  *)
(* bits it is given.                                                       *)
HevcSlice(pic) ==
  LET nal   == IF pic.type = "IDR" THEN 19 ELSE 1
      first == pic.poc = 0
      type  == HevcSliceType(pic.type)
  IN  Bits(Trailed(
        HevcNal(nal) \o U(1, 1) \o If(first, U(0, 1)) \o Ue(0) \o Ue(type)
        \o If(~first, U(pic.poc, HevcPocBits) \o U(1, 1) \o U(1, 1))
        \o If(type # 2, U(0, 1) \o If(type = 0, U(0, 1)) \o U(0, 1)
                        \o If(type = 0, U(1, 1)) \o Ue(0))
        \o Se(0)))

ReadHevcVps(bits) ==
  LET a == Read(bits, 49, <<4, 2, 6, 3, 1, 16, 8>>)
      b == Read(bits, Rest(a) + 88, <<1, 0, 0, 0, 6, 0, 1, 1, 1>>)
  IN  [profile |-> a[7] % 32, buffered |-> b[2],
       ends |-> b[9] = 1 /\ Ends(bits, b)]

ReadHevcSps(bits) ==
  LET a    == Read(bits, 57, <<8>>)
      b    == Read(bits, Rest(a) + 88, <<0, 0, 0, 0, 1>>)
      crop == IF b[5] = 1 THEN Read(bits, Rest(b), <<0, 0, 0, 0>>) ELSE <<0, 0, 0, 0, Rest(b)>>
      c    == Read(bits, Rest(crop), <<0, 0, 0, 1, 0, 0, 0, 0, 0, 0, 0, 0, 0, 1, 1, 1, 1, 0, 0, 0>>)
      sets == Read(bits, Rest(c), [i \in 1 .. 2 * c[19] |-> IF i % 2 = 1 THEN 0 ELSE 1])
      d    == Read(bits, Rest(sets), <<1, 1, 1, 1, 1, 1>>)
  IN  [profile |-> a[1] % 32, pocBits |-> c[3] + 4, buffered |-> c[5], refs |-> c[19],
       mvp |-> d[2],
       size |-> <<b[3] - 2 * (crop[1] + crop[2]), b[4] - 2 * (crop[3] + crop[4])>>,
       ends |-> d[6] = 1 /\ Ends(bits, d)]

ReadHevcPps(bits) ==
  LET a == Read(bits, 49, <<0, 0, 1, 1, 3, 1, 1, 0, 0, 0, 1, 1, 1, 0, 0, 6, 1, 1>>)
      b == Read(bits, Rest(a), (IF a[18] = 1 THEN <<1, 1, 0, 0>> ELSE <<0, 0, 0, 0>>)
                                 \o <<1, 1, 0, 1, 1, 1>>)
  IN  [cabacInit |-> a[7], qp |-> 26 + SeValue(a[10]), override |-> b[1],
       ends |-> b[10] = 1 /\ Ends(bits, b)]

(* The PPS has no extra bits, no lists that change, no slice extension.    *)
ReadHevcSlice(bits, sps, pps) ==
  LET n     == Read(bits, 25, <<7, 9, 1>>)
      idr   == n[1] = 19
      a     == Read(bits, Rest(n), (IF idr THEN <<1>> ELSE <<>>) \o <<0, 0>>)
      slice == a[Len(a) - 1]
      o     == IF idr THEN <<0, 1, 1, Rest(a)>> ELSE Read(bits, Rest(a), <<sps.pocBits, 1, sps.mvp>>)
      table == IF pps.cabacInit = 1 THEN <<1>> ELSE <<>>
      inter == IF slice = 0 THEN <<1, 1>> \o table \o <<1, 0>> ELSE <<1>> \o table \o <<0>>
      l     == Read(bits, Rest(o), (IF slice # 2 THEN inter ELSE <<>>) \o <<0>>
                                     \o (IF pps.override = 1 THEN <<1>> ELSE <<>>) \o <<1>>)
  IN  [type |-> IF idr THEN "IDR" ELSE IF slice = 2 THEN "I" ELSE "P", slice |-> slice, poc |-> o[1],
       ends |-> l[Len(l) - 1] = 1 /\ Ends(bits, l)]
=============================================================================
