------------------------------ MODULE TsDelivery ------------------------------
(***************************************************************************)
(* What the mux smoothing thread and the outputs promise together: the     *)
(* packets muxed leave every output in payloads of a fixed size, in their  *)
(* order, each with its own PCRs, none twice, and none is missing but for  *)
(* those that a reset discards.  A reset is asked for first, and then      *)
(* discards all that was muxed before it and not yet sent.                 *)
(***************************************************************************)
EXTENDS Naturals, Sequences

CONSTANTS NumOutputs, PayloadPackets, MaxBlock

VARIABLES
  muxed,      (* packets 1..muxed have been muxed                           *)
  drop,       (* a reset is asked for                                       *)
  sent,       (* the payloads sent to the outputs                           *)
  next,       (* the first packet neither sent nor discarded                *)
  delivered   (* how many payloads each output has written                  *)

vars == <<muxed, drop, sent, next, delivered>>

PayloadFrom(p) ==
  LET packets == [i \in 1..PayloadPackets |-> p + i - 1]
  IN  [pcrs |-> packets, packets |-> packets]

Init ==
  /\ muxed = 0 /\ drop = FALSE /\ sent = <<>> /\ next = 1
  /\ delivered = [o \in 1..NumOutputs |-> 0]

Mux ==
  /\ \E n \in 1..MaxBlock : muxed' = muxed + n
  /\ UNCHANGED <<drop, sent, next, delivered>>

AskReset ==
  /\ drop' = TRUE
  /\ UNCHANGED <<muxed, sent, next, delivered>>

Reset ==
  /\ drop
  /\ drop' = FALSE
  /\ next' = muxed + 1
  /\ UNCHANGED <<muxed, sent, delivered>>

Send ==
  /\ ~drop
  /\ next + PayloadPackets - 1 <= muxed
  /\ sent' = Append(sent, PayloadFrom(next))
  /\ next' = next + PayloadPackets
  /\ UNCHANGED <<muxed, drop, delivered>>

Deliver(o) ==
  /\ delivered[o] < Len(sent)
  /\ delivered' = [delivered EXCEPT ![o] = @ + 1]
  /\ UNCHANGED <<muxed, drop, sent, next>>

Next ==
  \/ Mux
  \/ AskReset
  \/ Reset
  \/ Send
  \/ \E o \in 1..NumOutputs : Deliver(o)

Spec == Init /\ [][Next]_vars
=============================================================================
