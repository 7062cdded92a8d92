---------------------------- MODULE KLRingBuffer ----------------------------
(***************************************************************************)
(* The ring buffer of encoders/audio/ac3bitstream/klringbuffer.c, as its   *)
(* only user, the SMPTE 337 detector of the DeckLink probe, uses it: bytes *)
(* are written one at a time.  Every function takes the mutex of the ring  *)
(* and is one step.  data is the allocation, a function of offsets.        *)
(***************************************************************************)
EXTENDS Naturals, Sequences

CONSTANTS Byte,          \* what is written
          Uninitialised, \* what fresh memory holds
          Growth         \* the allocation grows by Growth * bytes (128)

(* realloc: old cells keep their place and value.                          *)
Realloc(data, size) ==
  [i \in 0 .. size - 1 |->
     IF i \in DOMAIN data THEN data[i] ELSE Uninitialised]

RbNew(size, max) ==
  [data |-> Realloc(<<>>, size), head |-> 0, fill |-> 0,
   size |-> size, initial |-> size, max |-> max]

RbEmpty(rb) == [rb EXCEPT !.head = 0, !.fill = 0]

(* _advance_head, with size_t arithmetic left to the caller: fill is never *)
(* less than bytes.                                                        *)
RbDiscard(rb, bytes) ==
  [rb EXCEPT !.head = (@ + bytes) % rb.size, !.fill = @ - bytes]

(* Makes room for one byte, if there is none: grow, or overflow and lose   *)
(* the oldest.                                                             *)
RbRoom(rb) ==
  IF rb.fill < rb.size THEN rb
  ELSE IF rb.size + Growth <= rb.max
       THEN [rb EXCEPT !.data = Realloc(@, rb.size + Growth),
                       !.size = @ + Growth]
       ELSE RbDiscard(rb, 1)

(* rb_write_with_state of one byte *)
RbPut(rb, byte) ==
  LET r == RbRoom(rb)
  IN  [r EXCEPT !.data[(r.head + r.fill) % r.size] = byte, !.fill = @ + 1]

(* What rb_peek copies out: bytes from the head, around the end.           *)
RbPeek(rb, bytes) ==
  [i \in 1 .. (IF bytes > rb.fill THEN rb.fill ELSE bytes) |->
     rb.data[(rb.head + i - 1) % rb.size]]

(* rb_reader after a read that advanced the head: an empty ring gives back *)
(* what it grew by.                                                        *)
RbShrink(rb) ==
  IF rb.fill = 0 /\ rb.size > rb.initial THEN RbNew(rb.initial, rb.max) ELSE rb

(* The ring after rb_read of bytes.                                        *)
RbRead(rb, bytes) == RbShrink(RbDiscard(rb, Len(RbPeek(rb, bytes))))
=============================================================================
