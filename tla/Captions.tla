------------------------------ MODULE Captions ------------------------------
(***************************************************************************)
(* The two messages that carry captions (filters/video/cc.c) and the bit   *)
(* writer and reader they use (common/bitstream.h, common/bs_read.h): a    *)
(* caption distribution packet is walked section by section and its        *)
(* triplets copied into a message; the two bytes a field has in line 21    *)
(* are padded to the number of triplets of the frame rate.                 *)
(*                                                                         *)
(* A buffer is a sequence of bytes whose first is aligned.  The writer     *)
(* keeps the bits it has not stored as a sequence, cur.                    *)
(***************************************************************************)
EXTENDS Integers, Sequences, SequencesExt

CONSTANTS
  Counts,      \* triplets a packet may have
  Services,    \* services that its service information may have
  Futures,     \* bytes of a section this code does not know
  MaxSections

ConstantsAreSound ==
  Counts \subseteq 0..31 /\ Services \subseteq 0..15 /\ Futures \subseteq Nat

Bits(value, n) == [i \in 1..n |-> (value \div 2^(n - i)) % 2]
Value(bits) ==
  LET v[i \in 0..Len(bits)] == IF i = 0 THEN 0 ELSE 2 * v[i - 1] + bits[i]
  IN  v[Len(bits)]
AllBits(bytes) == [i \in 1..8 * Len(bytes) |-> Bits(bytes[(i + 7) \div 8], 8)[((i - 1) % 8) + 1]]
Bytes(bits) == [i \in 1..Len(bits) \div 8 |-> Value(SubSeq(bits, 8 * i - 7, 8 * i))]

(* Bytes stored at an offset of memory, which grows when needed.           *)
Store(memory, p, bytes) ==
  SubSeq(memory, 1, p) \o bytes \o SubSeq(memory, p + Len(bytes) + 1, Len(memory))
-----------------------------------------------------------------------------
(* The writer: memory, the byte p that is stored next, and cur.  Fields    *)
(* are <<width, value>>; 32 bits are stored as soon as they are there.     *)

(* Fault: the bytes before p are not taken back.                           *)
BsInitAnywhere(memory, p) ==
  [memory |-> memory, p |-> p - (p % 4), cur |-> <<>>]

(* At an odd place the bytes back to the last aligned one are taken back.  *)
BsInit(memory, p) ==
  LET aligned == p - (p % 4)
  IN  [memory |-> memory, p |-> aligned,
       cur |-> AllBits(SubSeq(memory, aligned + 1, p))]

BsPos(s) == 8 * s.p + Len(s.cur)

BsWrite(s, fields) ==
  LET cur == s.cur \o FlattenSeq([i \in DOMAIN fields |-> Bits(fields[i][2], fields[i][1])])
      words == Len(cur) \div 32
  IN  [memory |-> Store(s.memory, s.p, Bytes(SubSeq(cur, 1, 32 * words))),
       p |-> s.p + 4 * words, cur |-> SubSeq(cur, 32 * words + 1, Len(cur))]

(* Whole bytes are left: what is stored behind them is overwritten.        *)
BsFlush(s) ==
  [memory |-> Store(s.memory, s.p, Bytes(s.cur)),
   p |-> s.p + Len(s.cur) \div 8, cur |-> <<>>]

WriteBytes(s, bytes) ==
  LET flushed == BsFlush(s)
      p == flushed.p
  IN  BsInit(Store(flushed.memory, p, bytes), p + Len(bytes))

Written(s) == SubSeq(BsFlush(s).memory, 1, BsPos(s) \div 8)
-----------------------------------------------------------------------------
(* The reader: the byte p and the bits left of it.  Fields that are        *)
(* skipped one after the other are skipped together.                       *)
BsReadInit == [p |-> 0, left |-> 8]

BsReadPos(s) == 8 * s.p + 8 - s.left

BsSkip(s, n) ==
  LET left == s.left - n
      bytes == (8 - left) \div 8
  IN  IF left > 0 THEN [s EXCEPT !.left = left]
                  ELSE [p |-> s.p + bytes, left |-> left + 8 * bytes]

BsRead(data, s, n) ==
  LET at == BsReadPos(s)
  IN  Value([i \in 1..n |-> IF (at + i - 1) \div 8 >= Len(data) THEN 0
                            ELSE Bits(data[(at + i - 1) \div 8 + 1], 8)[((at + i - 1) % 8) + 1]])

BsEnd(data, s) == s.p >= Len(data)
-----------------------------------------------------------------------------
(* Messages for the picture: registered user data with the name GA94.      *)
Name == <<71, 65, 57, 52>>
Begin ==
  BsWrite(BsInit(<<>>, 0), <<<<8, 181>>, <<16, 49>>>> \o [i \in 1..4 |-> <<8, Name[i]>>]
                          \o <<<<8, 3>>>>)
CcData(count) == <<<<1, 1>>, <<1, 1>>, <<1, 0>>, <<5, count>>, <<8, 255>>>>

(* cc_timecode: the triplets of a frame for each rate, as <<den, num>>.    *)
Rates ==
  [r \in {<<24, 1>>, <<24000, 1001>>, <<25, 1>>, <<30000, 1001>>, <<30, 1>>,
          <<50, 1>>, <<60000, 1001>>, <<60, 1>>} |->
     LET frames == (r[1] + r[2] - 1) \div r[2]
     IN  CASE frames = 24 -> 25 [] frames = 25 -> 24 [] frames = 30 -> 20
           [] frames = 50 -> 12 [] frames = 60 -> 10]

Invalid == <<<<1, 0>>, <<2, 2>>, <<8, 0>>, <<8, 0>>>>

Field(i, text) ==
  <<<<1, 1>>, <<4, 15>>>> \o
  IF i <= 1 /\ Len(text) >= 2 * (i + 1)
  THEN <<<<1, 1>>, <<2, i>>, <<8, text[2*i + 1]>>, <<8, text[2*i + 2]>>>>
  ELSE Invalid

(* The cc_data are written in a buffer of their own and then copied.       *)
Write608(text, rate) ==
  IF rate \notin DOMAIN Rates THEN [ret |-> -1, data |-> text]
  ELSE LET n == Rates[rate]
           q == BsWrite(BsInit(<<>>, 0),
                       CcData(n) \o FlattenSeq([i \in 1..n |-> Field(i - 1, text)])
                       \o <<<<8, 255>>>>)
       IN  [ret |-> 0, data |-> Written(WriteBytes(Begin, Written(q)))]

Write708(triplets, count) ==
  [ret |-> 0,
   data |-> Written(BsWrite(WriteBytes(BsWrite(Begin, CcData(count)), triplets), <<<<8, 255>>>>))]

SumOf(bytes) ==
  LET sum[i \in 0..Len(bytes)] == IF i = 0 THEN 0 ELSE (sum[i - 1] + bytes[i]) % 256
  IN  sum[Len(bytes)]

Checksum(data) ==
  LET sum == SumOf(SubSeq(data, 1, Len(data) - 1)) IN IF sum = 0 THEN 0 ELSE 256 - sum

(* Bits of a time code, of a triplet and of a service.                     *)
TimeCode == 2 + 2 + 4 + 1 + 3 + 4 + 1 + 3 + 4 + 1 + 1 + 2 + 4
Triplet == 5 + 1 + 2 + 8 + 8
Service == 1 + 1 + 6 + 6 * 8

(* One section: the reader behind it, and the triplets if it has any.      *)
Section(data, acc) ==
  LET id == BsRead(data, acc.s, 8)
      s == BsSkip(acc.s, 8)
      n == BsRead(data, s, 8)
      behind == BsSkip(s, 8)
  IN  CASE id = 113 -> [acc EXCEPT !.s = BsSkip(s, TimeCode)]
        [] id = 114 -> [acc EXCEPT !.s = BsSkip(behind, (n % 32) * Triplet),
                                   !.count = n % 32, !.start = BsReadPos(behind) \div 8]
        [] id = 115 -> LET flags == BsSkip(s, 4)
                       IN  [acc EXCEPT !.s = BsSkip(BsSkip(flags, 4),
                                               BsRead(data, flags, 4) * Service)]
        [] id = 116 -> [acc EXCEPT !.s = BsSkip(s, 16 + 8), !.footer = TRUE]
        [] OTHER -> [acc EXCEPT !.s = BsSkip(behind, 8 * n)]

(* After k sections, or the end, or the footer.                            *)
Sections(data) ==
  LET header == BsSkip(BsReadInit, 16 + 8 + 4 + 4 + 8 + 16)
      after[k \in 0..Len(data)] ==
        IF k = 0 THEN [s |-> header, count |-> 0, start |-> 0, footer |-> FALSE]
        ELSE LET acc == after[k - 1]
             IN  IF acc.footer \/ BsEnd(data, acc.s) THEN acc ELSE Section(data, acc)
  IN  after[MaxSections + 1]

ReadCdp(data) ==
  LET dropped == [ret |-> 1, data |-> data]
      all == Sections(data)
  IN  IF BsRead(data, BsReadInit, 16) # 38505 \/ Checksum(data) # data[Len(data)]
         \/ all.count = 0
      THEN dropped
      ELSE Write708(SubSeq(data, all.start + 1, all.start + 3 * all.count), all.count)
-----------------------------------------------------------------------------
VARIABLES
  sections,  \* the packet, as what made it means it: [id, n]
  packet,    \* its bytes as they arrive, <<>> before that
  changed,   \* the place of a byte that was changed on the way, 0 for none
  text,      \* the bytes of line 21
  rate,      \* <<timebase_den, timebase_num>> of the frame
  result     \* what the filter made of it: [of, ret, data]

vars == <<sections, packet, changed, text, rate, result>>

NoResult == [of |-> "nothing", ret |-> 0, data |-> <<>>]
Ids == [tc |-> 113, cc |-> 114, svc |-> 115, future |-> 117]

(* The packet in bytes: triplets are counted up so that they differ.       *)
TripletsOf(n) == FlattenSeq([i \in 1..n |-> <<252, 2 * i, 2 * i + 1>>])
SectionBytes(x) ==
  <<Ids[x.id]>> \o
  CASE x.id = "tc" -> <<1, 2, 3, 4>>
    [] x.id = "cc" -> <<224 + x.n>> \o TripletsOf(x.n)
    [] x.id = "svc" -> <<208 + x.n>> \o [i \in 1..7 * x.n |-> 114]
    [] x.id = "future" -> <<x.n>> \o [i \in 1..x.n |-> 114]
Body(list) == FlattenSeq([i \in DOMAIN list |-> SectionBytes(list[i])])
Signed(bytes) == Append(bytes, (256 - SumOf(bytes)) % 256)
Cdp(list) ==
  Signed(<<150, 105, 11 + Len(Body(list)), 79, 67, 0, 1>> \o Body(list) \o <<116, 0, 1>>)

Init ==
  /\ sections = <<>> /\ packet = <<>> /\ changed = 0 /\ text = <<>> /\ result = NoResult
  /\ rate \in DOMAIN Rates \cup {<<15, 1>>}

(* Whoever makes the packet adds a section, caption data only once.        *)
AddSection ==
  /\ result = NoResult /\ text = <<>> /\ Len(sections) < MaxSections
  /\ rate = <<30, 1>> /\ changed = 0
  /\ \E x \in [id : {"cc"}, n : Counts] \cup [id : {"svc"}, n : Services]
              \cup [id : {"future"}, n : Futures] \cup {[id |-> "tc", n |-> 0]} :
       /\ x.id = "cc" => \A i \in DOMAIN sections : sections[i].id # "cc"
       /\ sections' = Append(sections, x) /\ packet' = Cdp(sections')
  /\ UNCHANGED <<changed, text, rate, result>>

(* One byte of the packet is changed on the way.                           *)
Change ==
  /\ packet # <<>> /\ result = NoResult /\ changed = 0 /\ Len(sections) < MaxSections
  /\ changed' \in 1..Len(packet)
  /\ packet' = [packet EXCEPT ![changed'] = (@ + 1) % 256]
  /\ UNCHANGED <<sections, text, rate, result>>

(* read_cdp, in the thread of the video filter.                            *)
ReadPacket ==
  /\ packet # <<>> /\ result = NoResult
  /\ result' = LET r == ReadCdp(packet) IN [of |-> "708", ret |-> r.ret, data |-> r.data]
  /\ UNCHANGED <<sections, packet, changed, text, rate>>

(* Line 21 of one field, or of both.                                       *)
ReadLine21 ==
  /\ result = NoResult /\ sections = <<>>
  /\ text' \in {<<20, 44>>, <<20, 44, 21, 200>>}
  /\ result' = LET r == Write608(text', rate)
               IN  [of |-> "608", ret |-> r.ret, data |-> r.data]
  /\ UNCHANGED <<sections, packet, changed, rate>>

Next == AddSection \/ Change \/ ReadPacket \/ ReadLine21
-----------------------------------------------------------------------------
(* A message, as a decoder has it: its length and its triplets.            *)
Count(data) == data[9] % 32
Carried(data) == SubSeq(data, 11, 10 + 3 * Count(data))
WellFormed(data) ==
  /\ SubSeq(data, 1, 8) = <<181, 0, 49>> \o Name \o <<3>>
  /\ data[9] \div 32 = 6 /\ data[10] = 255
  /\ Len(data) = 11 + 3 * Count(data) /\ data[Len(data)] = 255

(* A packet's triplets are in the message, all and in order, whatever      *)
(* sections are around them and wherever they begin; a packet without      *)
(* triplets makes no message.                                              *)
CaptionsCarried ==
  (result.of = "708" /\ changed = 0) =>
    LET data == SelectSeq(sections, LAMBDA x : x.id = "cc")
        n == IF data = <<>> THEN 0 ELSE data[1].n
    IN  IF n = 0 THEN result.ret = 1
        ELSE result.ret = 0 /\ WellFormed(result.data) /\ Carried(result.data) = TripletsOf(n)

(* A packet of which one byte is wrong is dropped.                         *)
ChangedIsDropped == (result.of = "708" /\ changed > 0) => result.ret = 1

(* The message of line 21 has the triplets of the frame rate, the first    *)
(* those of the fields there are, the others marked invalid.               *)
ConstantRate ==
  (result.of = "608" /\ rate \in DOMAIN Rates) =>
    LET fields == Len(text) \div 2
        triplets == Carried(result.data)
    IN  /\ WellFormed(result.data) /\ Count(result.data) = Rates[rate]
        /\ Count(result.data) * rate[1] \in 598 * rate[2]..600 * rate[2]
        /\ \A i \in 1..Count(result.data) :
             SubSeq(triplets, 3 * i - 2, 3 * i) =
               IF i <= fields THEN <<252 + i - 1, text[2*i - 1], text[2*i]>>
               ELSE <<250, 0, 0>>
=============================================================================
