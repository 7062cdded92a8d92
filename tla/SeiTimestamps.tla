----------------------------- MODULE SeiTimestamps -----------------------------
(***************************************************************************)
(* The message with which the delay of a picture is measured               *)
(* (encoders/video/sei-timestamp.c): the encoder puts it into the picture  *)
(* (x264.c; x265.c does the same), the time the picture left the encoder   *)
(* is written into the coded message, and the time it is sent into the     *)
(* transport stream itself (udp.c), in a buffer the outputs share.         *)
(***************************************************************************)
EXTENDS Integers, Sequences, SequencesExt

CONSTANTS
  Offsets,     \* places of the message in a datagram
  KindsOf,     \* outputs that a run may have, each "udp", or "other": rtp, file
  FrameCounts, \* numbers of the picture
  Base,        \* seconds of the first tick
  MaxTicks, MaxChanges

ConstantsAreSound ==
  /\ Offsets \subseteq Nat /\ FrameCounts \subseteq Nat /\ Base \in Nat
  /\ KindsOf \subseteq Seq({"udp", "other"})

(* A datagram is seven packets: two have every case.                       *)
PacketLen == 188
HeaderLen == 4
DatagramLen == 2 * PacketLen

(* The clock, read with gettimeofday: every tick crosses half a second.    *)
TimeAt(tick) == [sec |-> Base + tick \div 2, usec |-> IF tick % 2 = 0 THEN 0 ELSE 999999]
NotLater(x, y) == x.sec < y.sec \/ (x.sec = y.sec /\ x.usec <= y.usec)
-----------------------------------------------------------------------------
Uuid == <<89, 150, 255, 40, 23, 202, 65, 150, 141, 227, 229, 63, 226, 249, 146, 174>>
FieldCount == 9
PayloadLength == 16 + 6 * FieldCount

Delimiter == 129

Byte(value, i) == (value \div 256^i) % 256
FieldBytes(value) ==
  <<Byte(value, 3), Byte(value, 2), Delimiter, Byte(value, 1), Byte(value, 0), Delimiter>>

(* sei_timestamp_field_set and _get, of a message that begins at offset.   *)
FieldSet(buffer, offset, n, value) ==
  LET p == offset + 16 + 6 * (n - 1)
      bytes == FieldBytes(value)
  IN  IF n \notin 1..FieldCount \/ Len(buffer) - p < 6 THEN buffer
      ELSE [i \in DOMAIN buffer |-> IF i \in p + 1..p + 6 THEN bytes[i - p] ELSE buffer[i]]

FieldGet(buffer, offset, n) ==
  LET b == SubSeq(buffer, offset + 16 + 6 * (n - 1) + 1, offset + 16 + 6 * n)
  IN  b[1] * 256^3 + b[2] * 256^2 + b[4] * 256 + b[5]

SetTime(buffer, offset, n, time) ==
  FieldSet(FieldSet(buffer, offset, n, time.sec), offset, n + 1, time.usec)
GetTime(buffer, offset, n) ==
  [sec |-> FieldGet(buffer, offset, n), usec |-> FieldGet(buffer, offset, n + 1)]

(* ltn_uuid_find: the first place, -1 if there is none.                    *)
UuidFind(buffer) ==
  LET places == {i \in 0..Len(buffer) - PayloadLength :
                   \A k \in 1..16 : buffer[i + k] = Uuid[k]}
  IN  IF places = {} THEN -1 ELSE Min(places)

NoTime == [sec |-> 0, usec |-> 0]

(* Fault: the second that is borrowed is not taken from the seconds.       *)
TimevalSubtractTwice(x, y) ==
  LET borrow == IF x.usec < y.usec THEN (y.usec - x.usec) \div 1000000 + 1 ELSE 0
  IN  [sec |-> x.sec - y.sec, usec |-> x.usec - (y.usec - 1000000 * borrow)]

(* sei_timeval_subtract: y is moved until the microseconds are positive.   *)
TimevalSubtract(x, y) ==
  LET borrow == IF x.usec < y.usec THEN (y.usec - x.usec) \div 1000000 + 1 ELSE 0
      low == y.usec - 1000000 * borrow
      back == IF x.usec - low > 1000000 THEN (x.usec - low) \div 1000000 ELSE 0
  IN  [sec |-> x.sec - (y.sec + borrow - back), usec |-> x.usec - (low + 1000000 * back)]

(* sei_timestamp_query_codec_latency_ms                                    *)
CodecLatency(buffer, offset) ==
  LET d == TimevalSubtract(GetTime(buffer, offset, 6), GetTime(buffer, offset, 4))
  IN  d.sec * 1000 + d.usec \div 1000

(* A NAL: no start code, for which the encoder puts bytes in between, and  *)
(* a decoder takes them out.                                               *)
Escape(bytes) ==
  LET out[i \in 0..Len(bytes)] ==
        IF i = 0 THEN <<>>
        ELSE LET s == out[i - 1]
             IN  IF Len(s) > 1 /\ s[Len(s)] = 0 /\ s[Len(s) - 1] = 0 /\ bytes[i] <= 3
                 THEN s \o <<3, bytes[i]>> ELSE Append(s, bytes[i])
  IN  out[Len(bytes)]
Unescape(bytes) ==
  LET in[i \in 0..Len(bytes)] ==
        IF i = 0 THEN <<>>
        ELSE IF i > 2 /\ bytes[i] = 3 /\ bytes[i - 1] = 0 /\ bytes[i - 2] = 0
             THEN in[i - 1] ELSE Append(in[i - 1], bytes[i])
  IN  in[Len(bytes)]
-----------------------------------------------------------------------------
VARIABLES
  kinds,     \* the outputs
  setting,   \* g_sei_timestamping
  changes,   \* how often it was set, and whether while the picture was filled
  ticks,     \* the clock
  stage,     \* where the picture is
  userData,  \* its other messages
  slots,     \* the payloads given to the encoder
  sei,       \* the message, then its NAL
  times,     \* what was read for it: received, entered, left (or NoTime)
  where,     \* its place in the datagram
  datagram,  \* the buffer
  senders    \* each output: [pc, now, offset, sent, sentAt]

vars == <<kinds, setting, changes, ticks, stage, userData, slots, sei, times, where,
          datagram, senders>>

Init ==
  /\ kinds \in KindsOf /\ setting \in 0..2 /\ changes = [n |-> 0, filling |-> FALSE]
  /\ ticks = 0 /\ stage = "received" /\ userData \in 0..1 /\ slots = <<>> /\ sei = <<>>
  /\ times = [received |-> TimeAt(0), entered |-> NoTime, left |-> NoTime, frame |-> 0]
  /\ where = 0 /\ datagram = <<>>
  /\ senders = [o \in DOMAIN kinds |->
       [pc |-> "wait", now |-> NoTime, offset |-> -1, sent |-> <<>>, sentAt |-> NoTime]]

Tick ==
  /\ ticks < MaxTicks
  /\ ticks' = ticks + 1
  /\ UNCHANGED <<kinds, setting, changes, stage, userData, slots, sei, times, where,
                 datagram, senders>>

(* "set variable video_encoder.sei_timestamping", at any time.             *)
SetTimestamping ==
  /\ changes.n < MaxChanges
  /\ setting' \in (0..2) \ {setting}
  /\ changes' = [n |-> changes.n + 1, filling |-> changes.filling \/ stage = "counted"]
  /\ UNCHANGED <<kinds, ticks, stage, userData, slots, sei, times, where, datagram, senders>>

(* The payloads are counted, the last for the message, and the others set. *)
CountPayloads ==
  /\ stage = "received"
  /\ stage' = "counted"
  /\ slots' = [i \in 1..userData |-> "data"] \o (IF setting > 0 THEN <<"unset">> ELSE <<>>)
  /\ UNCHANGED <<kinds, setting, changes, ticks, userData, sei, times, where, datagram,
                 senders>>

(* The setting is read again: the message is the last payload.             *)
AddMessage ==
  /\ stage = "counted"
  /\ stage' = "filled"
  /\ IF setting = 0 THEN UNCHANGED <<slots, sei, times>>
     ELSE /\ slots' = IF slots = <<>> THEN <<"outside">>
                      ELSE [slots EXCEPT ![Len(slots)] = "message"]
          /\ \E n \in FrameCounts :
               LET zero == Uuid \o [i \in 1..6 * FieldCount |-> 0]
                   set == SetTime(SetTime(FieldSet(zero, 0, 1, n), 0, 2, times.received),
                                  0, 4, TimeAt(ticks))
               IN  /\ times' = [times EXCEPT !.entered = TimeAt(ticks), !.frame = n]
                   /\ sei' = SetTime(SetTime(set, 0, 6, NoTime), 0, 8, NoTime)
  /\ UNCHANGED <<kinds, setting, changes, ticks, userData, where, datagram, senders>>

(* The encoder writes a NAL of the message; what it makes of a payload     *)
(* that nobody set is not followed.                                        *)
Encode ==
  /\ stage = "filled"
  /\ IF slots # <<>> /\ Last(slots) = "message"
     THEN stage' = "coded" /\ sei' = Escape(sei)
     ELSE stage' = "without" /\ UNCHANGED sei
  /\ UNCHANGED <<kinds, setting, changes, ticks, userData, slots, times, where, datagram,
                 senders>>

(* The time the picture left, written into each NAL that has the message.  *)
StampExit ==
  /\ stage = "coded"
  /\ stage' = "stamped"
  /\ LET offset == UuidFind(sei)
     IN  IF setting = 0 \/ offset < 0 THEN UNCHANGED <<sei, times>>
         ELSE /\ sei' = SetTime(sei, offset, 6, TimeAt(ticks))
              /\ times' = [times EXCEPT !.left = TimeAt(ticks)]
  /\ UNCHANGED <<kinds, setting, changes, ticks, userData, slots, where, datagram, senders>>

(* The message goes on behind the header of the second packet; all else in *)
(* a datagram is 71, the sync byte of a packet, or 255.                    *)
PlaceOf(start, k) ==
  LET p == start + k
  IN  IF start < PacketLen /\ p > PacketLen THEN p + HeaderLen ELSE p
MessageIn(buffer, start) == [k \in 1..PayloadLength |-> buffer[PlaceOf(start, k)]]
DatagramOf(message, start) ==
  [i \in 1..DatagramLen |->
     LET k == i - start - IF start < PacketLen /\ i > PacketLen THEN HeaderLen ELSE 0
     IN  IF i % PacketLen = 1 THEN 71
         ELSE IF k \in 1..PayloadLength /\ PlaceOf(start, k) = i THEN message[k] ELSE 255]

(* The muxer cuts the stream into packets and packets into datagrams, of   *)
(* which every output gets a reference.                                    *)
Mux ==
  /\ stage = "stamped"
  /\ stage' = "muxed"
  /\ where' \in Offsets
  /\ datagram' = DatagramOf(sei, where')
  /\ UNCHANGED <<kinds, setting, changes, ticks, userData, slots, sei, times, senders>>
-----------------------------------------------------------------------------
Fits(offset) == (offset % PacketLen) + PayloadLength < PacketLen

(* udp_write reads the clock when it has found the message.                *)
Look(o) ==
  /\ stage = "muxed" /\ senders[o].pc = "wait"
  /\ LET offset == IF kinds[o] = "udp" /\ setting > 1 THEN UuidFind(datagram) ELSE -1
     IN  IF offset >= 0 /\ Fits(offset)
         THEN senders' = [senders EXCEPT ![o].pc = "seconds", ![o].offset = offset,
                                         ![o].now = TimeAt(ticks)]
         ELSE senders' = [senders EXCEPT ![o].pc = "send"]
  /\ UNCHANGED <<kinds, setting, changes, ticks, stage, userData, slots, sei, times, where,
                 datagram>>

WriteSeconds(o) ==
  /\ senders[o].pc = "seconds"
  /\ datagram' = FieldSet(datagram, senders[o].offset, 8, senders[o].now.sec)
  /\ senders' = [senders EXCEPT ![o].pc = "microseconds"]
  /\ UNCHANGED <<kinds, setting, changes, ticks, stage, userData, slots, sei, times, where>>

WriteMicroseconds(o) ==
  /\ senders[o].pc = "microseconds"
  /\ datagram' = FieldSet(datagram, senders[o].offset, 9, senders[o].now.usec)
  /\ senders' = [senders EXCEPT ![o].pc = "send"]
  /\ UNCHANGED <<kinds, setting, changes, ticks, stage, userData, slots, sei, times, where>>

Send(o) ==
  /\ senders[o].pc = "send"
  /\ senders' = [senders EXCEPT ![o].pc = "sent", ![o].sent = datagram,
                                ![o].sentAt = TimeAt(ticks)]
  /\ UNCHANGED <<kinds, setting, changes, ticks, stage, userData, slots, sei, times, where,
                 datagram>>

Next ==
  \/ Tick \/ SetTimestamping \/ CountPayloads \/ AddMessage \/ Encode \/ StampExit \/ Mux
  \/ \E o \in DOMAIN kinds : Look(o) \/ WriteSeconds(o) \/ WriteMicroseconds(o) \/ Send(o)
-----------------------------------------------------------------------------
(* The payloads are the messages of the picture and then this one, which   *)
(* is there if it is wanted; unless that was changed between the two times *)
(* the setting is read.                                                    *)
MessageIsLast ==
  (stage \in {"filled", "coded", "stamped"} /\ ~changes.filling) =>
    slots \in {[i \in 1..userData |-> "data"],
               Append([i \in 1..userData |-> "data"], "message")}

(* Whatever was written into the NAL after it was coded, a decoder reads   *)
(* the message as long as it was, with the values that were meant: nothing *)
(* in it looks like a start code.                                          *)
ReadAsMeant ==
  stage = "stamped" =>
    LET message == Unescape(sei)
    IN  /\ message = sei /\ Escape(sei) = sei /\ Len(sei) = PayloadLength
        /\ FieldGet(message, 0, 1) = times.frame
        /\ GetTime(message, 0, 2) = times.received
        /\ GetTime(message, 0, 4) = times.entered
        /\ GetTime(message, 0, 6) = times.left

(* The delay of the encoder is right to the millisecond.                   *)
LatencyIsRight ==
  (stage = "stamped" /\ times.left # NoTime) =>
    CodecLatency(sei, 0) =
      ((times.left.sec - times.entered.sec) * 1000000
        + times.left.usec - times.entered.usec) \div 1000

(* What an output sends differs from what the muxer made in the time of    *)
(* sending only.                                                           *)
OnlyTimeStamped ==
  \A o \in DOMAIN kinds : senders[o].pc = "sent" =>
    LET stamps == {PlaceOf(where, k) : k \in 16 + 6 * 7 + 1..PayloadLength}
        made == DatagramOf(sei, where)
    IN  \A i \in 1..DatagramLen : senders[o].sent[i] # made[i] => i \in stamps

(* The time of sending is not before the picture left the encoder and not  *)
(* after it was sent, as long as no other output writes it as well.        *)
SentInTime ==
  \A o \in DOMAIN kinds :
    (senders[o].pc = "sent" /\ senders[o].offset >= 0
       /\ \A other \in DOMAIN kinds \ {o} : kinds[other] # "udp") =>
      LET time == GetTime(MessageIn(senders[o].sent, where), 0, 8)
      IN  NotLater(times.left, time) /\ NotLater(time, senders[o].sentAt)
=============================================================================
