---------------------------- MODULE Smpte337Ring ----------------------------
(***************************************************************************)
(* input/sdi/smpte337_detector.c: the detector of the DeckLink probe.  The *)
(* bytes of a block of audio go into the ring one by one, then the search  *)
(* runs until it wants more.                                               *)
(***************************************************************************)
EXTENDS Smpte337, FiniteSets

CONSTANTS RingSize, RingMax, Growth, MaxWrite, MaxStream, MaxFails

Byte == Lengths \cup {Sync}

LOCAL INSTANCE KLRingBuffer WITH Uninitialised <- Sync

VARIABLES ring,    \* the KLRingBuffer
          state,   \* "write": waits for audio, "search": in run_detector
          bursts,  \* what the callback has been given
          stream,  \* all bytes ever written
          from     \* bytes before the place where acquisition (re)started

vars == <<ring, state, bursts, stream, from>>

Init ==
  /\ ring = RbNew(RingSize, RingMax)
  /\ state = "write" /\ bursts = <<>> /\ stream = <<>> /\ from = 0

(* Fault: a burst is not whole before the byte behind it is there.         *)
BurstAndMore(dat) ==
  IsHeader(dat) /\ ring.fill > BurstBytes(dat)

(* A whole burst is at the head.                                           *)
Complete(dat) ==
  IsHeader(dat) /\ ring.fill >= BurstBytes(dat)

(* smpte337_detector_write_32b: all bytes of the block.                    *)
Write(bytes) ==
  /\ state = "write" /\ Len(stream) + Len(bytes) <= MaxStream
  /\ LET Put[i \in 0 .. Len(bytes)] ==
           IF i = 0 THEN ring ELSE RbPut(Put[i - 1], bytes[i])
     IN  ring' = Put[Len(bytes)]
  /\ stream' = stream \o bytes
  /\ state' = "search"
  /\ UNCHANGED <<bursts, from>>

(* The search wants more: too little to peek at, or a burst in part.       *)
Wait ==
  /\ state = "search"
  /\ \/ ring.fill < PeekBytes
     \/ /\ ring.fill >= PeekBytes
        /\ LET dat == RbPeek(ring, PeekBytes)
           IN  IsHeader(dat) /\ ~Complete(dat)
  /\ state' = "write"
  /\ UNCHANGED <<ring, bursts, stream, from>>

(* No header at the head: one byte goes.                                   *)
Skip ==
  /\ state = "search" /\ ring.fill >= PeekBytes
  /\ ~IsHeader(RbPeek(ring, PeekBytes))
  /\ ring' = RbDiscard(ring, 1)
  /\ UNCHANGED <<state, bursts, stream, from>>

Deliver ==
  /\ state = "search" /\ ring.fill >= PeekBytes
  /\ LET dat == RbPeek(ring, PeekBytes)
         n   == BurstBytes(dat)
     IN  /\ Complete(dat)
         /\ bursts' = Append(bursts,
              [at |-> Len(stream) - ring.fill,
               payload |-> SubSeq(RbPeek(ring, n), HeaderBytes + 1, n)])
         /\ ring' = RbRead(ring, n)
  /\ UNCHANGED <<state, stream, from>>

(* malloc fails in rb_read_alloc: "Intensionally flush the ring and start  *)
(* acquisition again".  Only in the first MaxFails bytes.                  *)
Flush ==
  /\ state = "search" /\ ring.fill >= PeekBytes /\ from < MaxFails
  /\ Complete(RbPeek(ring, PeekBytes))
  /\ ring' = RbEmpty(ring)
  /\ from' = Len(stream) /\ bursts' = <<>>
  /\ UNCHANGED <<state, stream>>

Next ==
  \/ \E n \in 1 .. MaxWrite : \E bytes \in [1 .. n -> Byte] : Write(bytes)
  \/ Wait \/ Skip \/ Deliver \/ Flush

Spec == Init /\ [][Next]_vars

(* The ring holds exactly the end of the stream, in order, however often   *)
(* it wrapped: rb_put and rb_reader agree on where the bytes are.          *)
RingIsStreamEnd ==
  RbPeek(ring, ring.fill) =
    SubSeq(stream, Len(stream) - ring.fill + 1, Len(stream))

(* The 32 KB of smpte337_detector_alloc are never exceeded, so that the    *)
(* ring neither grows with wrapped data in it nor overflows: what is left  *)
(* of a search is less than a burst.                                       *)
NeverGrows == ring.size = RingSize

(* However audio is cut into blocks, the callback gets each burst of the   *)
(* stream since acquisition started, once, whole, as soon as it is there.  *)
BurstsOfStream == state = "write" => bursts = BurstsIn(stream, from)
=============================================================================
