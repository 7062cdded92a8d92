------------------------------ MODULE Smpte337 ------------------------------
(***************************************************************************)
(* SMPTE 337 bursts in a stream of bytes, at a scale the checker can       *)
(* enumerate: the sync words are one byte, burst info and length another,  *)
(* a number: the payload bytes of an AC-3 burst.  Everything else is not a *)
(* header.  A detector looks at PeekBytes at a time, more than a header.   *)
(***************************************************************************)
EXTENDS Naturals, Sequences

CONSTANTS Sync, Lengths, PeekBytes

Smpte337IsSound ==
  /\ Lengths \subseteq Nat /\ Sync \notin Lengths
  /\ PeekBytes \in Nat /\ PeekBytes >= 2

HeaderBytes == 2

(* The bytes dat begin with a header of AC-3 in 16 bit mode.               *)
IsHeader(dat) == dat[1] = Sync /\ dat[2] \in Lengths

BurstBytes(dat) == HeaderBytes + dat[2]

(* The bursts a detector owes for the bytes s after the first from: each   *)
(* as the number of bytes before it, and its payload.  The search goes on  *)
(* after a burst, so that a header inside a payload does not count.        *)
BurstsIn(s, from) ==
  LET Rest(p) == SubSeq(s, p + 1, Len(s))
      Find[p \in 0 .. Len(s)] ==
        IF Len(Rest(p)) < PeekBytes THEN <<>>
        ELSE IF ~IsHeader(Rest(p)) THEN Find[p + 1]
        ELSE IF Len(Rest(p)) < BurstBytes(Rest(p)) THEN <<>>
        ELSE << [at |-> p,
                 payload |-> SubSeq(Rest(p), HeaderBytes + 1,
                                    BurstBytes(Rest(p)))] >>
             \o Find[p + BurstBytes(Rest(p))]
  IN  Find[from]
=============================================================================
