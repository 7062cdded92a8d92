---------------------------- MODULE Smpte337List ----------------------------
(***************************************************************************)
(* input/sdi/smpte337_detector2.c: the detector in front of the AC-3       *)
(* bitstream encoder.  Each block of audio is an item with its time, so    *)
(* that a burst gets the time of the sample that its first byte is in.     *)
(* A sample is SampleBytes (4), a block begins BlockTime after the last.   *)
(***************************************************************************)
EXTENDS Smpte337, FiniteSets, SequencesExt

CONSTANTS SampleBytes, BlockTime, MaxWrite, MaxStream, AllocCanFail

Byte == Lengths \cup {Sync}

VARIABLES items,  \* itemList: time, bytes, readpos
          total,  \* itemListTotalBytes
          state,  \* "write": waits for audio, "search": in run_detector
          bursts, \* what the callback has been given
          stream, \* all bytes ever written
          begins, \* the number of bytes before each block
          from    \* bytes before the place where acquisition (re)started

vars == <<items, total, state, bursts, stream, begins, from>>

Init ==
  /\ items = <<>> /\ total = 0 /\ state = "write" /\ bursts = <<>>
  /\ stream = <<>> /\ begins = <<>> /\ from = 0

Left(item) == SubSeq(item.bytes, item.readpos + 1, Len(item.bytes))

Unread == FlattenSeq([i \in DOMAIN items |-> Left(items[i])])

(* _list_peek: up to bytes of all items together.                          *)
Peek(bytes) ==
  SubSeq(Unread, 1, IF bytes > Len(Unread) THEN Len(Unread) ELSE bytes)

(* _list_peek with updateCounters: items read to their end are freed, the  *)
(* next one remembers how far it was read.                                 *)
AfterReading(bytes) ==
  LET Before(k) == Len(FlattenSeq([i \in 1 .. k |-> Left(items[i])]))
      whole == {k \in 0 .. Len(items) : Before(k) <= bytes}
      k     == CHOOSE k \in whole : \A j \in whole : j <= k
      rest  == SubSeq(items, k + 1, Len(items))
  IN  IF rest = <<>> THEN rest
      ELSE [rest EXCEPT ![1].readpos = @ + bytes - Before(k)]

(* smpte337_detector2_write of a block of 32 bit samples.                  *)
Write(bytes) ==
  /\ state = "write" /\ Len(stream) + Len(bytes) <= MaxStream
  /\ items' = Append(items, [time |-> BlockTime * Len(begins),
                             bytes |-> bytes, readpos |-> 0])
  /\ total' = total + Len(bytes)
  /\ stream' = stream \o bytes
  /\ begins' = Append(begins, Len(stream))
  /\ state' = "search"
  /\ UNCHANGED <<bursts, from>>

(* run_detector goes on as long as there is enough to peek at, by its      *)
(* count and in the list.                                                  *)
CanPeek == total >= PeekBytes /\ Len(Unread) >= PeekBytes

Wait ==
  /\ state = "search"
  /\ \/ ~CanPeek
     \/ CanPeek /\ IsHeader(Peek(PeekBytes))
                /\ total < BurstBytes(Peek(PeekBytes))
  /\ state' = "write"
  /\ UNCHANGED <<items, total, bursts, stream, begins, from>>

Skip ==
  /\ state = "search" /\ CanPeek /\ ~IsHeader(Peek(PeekBytes))
  /\ items' = AfterReading(1) /\ total' = total - 1
  /\ UNCHANGED <<state, bursts, stream, begins, from>>

(* A whole burst: its time is that of the block its first byte is in, and  *)
(* the samples before it there (avfm_set_pts_audio_corrected).             *)
Deliver ==
  /\ state = "search" /\ CanPeek /\ IsHeader(Peek(PeekBytes))
  /\ LET n == BurstBytes(Peek(PeekBytes))
     IN  /\ total >= n /\ Len(Peek(n)) = n
         /\ items' = AfterReading(n) /\ total' = total - n
         /\ bursts' = Append(bursts,
              [at |-> Len(stream) - Len(Unread),
               payload |-> SubSeq(Peek(n), HeaderBytes + 1, n),
               pts |-> Head(items).time
                         + Head(items).readpos \div SampleBytes])
  /\ UNCHANGED <<state, stream, begins, from>>

(* malloc fails: _list_empty frees the items, and leaves the count.        *)
Flush ==
  /\ AllocCanFail /\ from = 0 /\ state = "search" /\ CanPeek
  /\ IsHeader(Peek(PeekBytes)) /\ total >= BurstBytes(Peek(PeekBytes))
  /\ items' = <<>> /\ from' = Len(stream) /\ bursts' = <<>>
  /\ UNCHANGED <<total, state, stream, begins>>

(* The count promised more than there is: a short read empties the list.   *)
ReadShort ==
  /\ state = "search" /\ CanPeek /\ IsHeader(Peek(PeekBytes))
  /\ LET n == BurstBytes(Peek(PeekBytes))
     IN  /\ total >= n /\ Len(Peek(n)) < n
         /\ total' = total - Len(Peek(n))
  /\ items' = <<>>
  /\ UNCHANGED <<state, bursts, stream, begins, from>>

Next ==
  \/ \E n \in 1 .. MaxWrite : \E bytes \in [1 .. n -> Byte] : Write(bytes)
  \/ Wait \/ Skip \/ Deliver \/ Flush \/ ReadShort

Spec == Init /\ [][Next]_vars

(* The count that decides whether a burst is complete is that of the list, *)
(* until a read fails.                                                     *)
CountsWhatItHas == from = 0 => total = Len(Unread)

(* The time of the byte after the first p of the stream.                   *)
TimeOf(p) ==
  LET block == CHOOSE b \in DOMAIN begins :
                 /\ begins[b] <= p
                 /\ b = Len(begins) \/ p < begins[b + 1]
  IN  BlockTime * (block - 1) + (p - begins[block]) \div SampleBytes

BurstsDue ==
  LET due == BurstsIn(stream, from)
  IN  [i \in DOMAIN due |-> [at |-> due[i].at, payload |-> due[i].payload,
                             pts |-> TimeOf(due[i].at)]]

(* However audio is cut into blocks, the encoder gets each burst of the    *)
(* stream once, whole, as soon as it is there, with the time of the sample *)
(* in which it begins, until a read fails.                                 *)
BurstsOfStream == state = "write" /\ from = 0 => bursts = BurstsDue
=============================================================================
