------------------------------ MODULE OutputPath ------------------------------
(***************************************************************************)
(* The path from the muxer's packets to the outputs: mux smoothing and the *)
(* output threads, with the part of obe_close that stops them.             *)
(***************************************************************************)
EXTENDS OutputThread

Closing == closePc # "run"

(* obe_close: the muxer has been joined; flag and signal under the mutex.  *)
CancelSmoothing ==
  /\ closePc = "run"
  /\ closePc' = "joinSmoothing"
  /\ cancelSmoothing' = TRUE
  /\ smQ' \in SignalIn(smQ)
  /\ UNCHANGED <<muxVars, muxDrop, smVars, out, closeAt>>

JoinSmoothing ==
  /\ closePc = "joinSmoothing" /\ smPc = "done"
  /\ closePc' = "cancelOutput"
  /\ UNCHANGED <<muxVars, muxDrop, smQ, smVars, cancelSmoothing, out, closeAt>>

(* Fault: the signal is forgotten.                                         *)
CancelOutputSilently ==
  /\ closePc = "cancelOutput"
  /\ closePc' = "killOutput"
  /\ out' = [out EXCEPT ![closeAt].cancel = TRUE]
  /\ UNCHANGED <<muxVars, muxDrop, smQ, smVars, cancelSmoothing, closeAt>>

CancelOutput ==
  /\ closePc = "cancelOutput"
  /\ closePc' = "killOutput"
  /\ \E q \in SignalIn(out[closeAt].q) :
       out' = [out EXCEPT ![closeAt].cancel = TRUE, ![closeAt].q = q]
  /\ UNCHANGED <<muxVars, muxDrop, smQ, smVars, cancelSmoothing, closeAt>>

(* Fault: the thread is not cancelled.                                     *)
KillNoOutput ==
  /\ closePc = "killOutput"
  /\ closePc' = "joinOutput"
  /\ UNCHANGED <<muxVars, muxDrop, smQ, smVars, cancelSmoothing, out, closeAt>>

(* "could be blocking on OS so have to cancel thread too"                  *)
KillOutput ==
  /\ closePc = "killOutput"
  /\ closePc' = "joinOutput"
  /\ out' = [out EXCEPT ![closeAt].killed = TRUE]
  /\ UNCHANGED <<muxVars, muxDrop, smQ, smVars, cancelSmoothing, closeAt>>

JoinOutput ==
  /\ closePc = "joinOutput" /\ out[closeAt].pc = "done"
  /\ IF closeAt = NumOutputs
       THEN closePc' = "closed" /\ UNCHANGED closeAt
       ELSE closePc' = "cancelOutput" /\ closeAt' = closeAt + 1
  /\ UNCHANGED <<muxVars, muxDrop, smQ, smVars, cancelSmoothing, out>>

CloseStep ==
  \/ JoinSmoothing
  \/ CancelOutput
  \/ KillOutput
  \/ JoinOutput

Next ==
  \/ EncoderReady
  \/ \E n \in 1..MaxBlock : MuxQueue(n)
  \/ SignalLost
  \/ SmStep
  \/ \E o \in Output : OutStep(o)
  \/ CancelSmoothing
  \/ CloseStep

Spec == Init /\ [][Next]_vars

(* The threads are scheduled, the encoder opens, the muxer goes on up to   *)
(* the bound.  The write of an output in Stuck may never end.              *)
Fairness ==
  /\ WF_vars(EncoderReady) /\ WF_vars(MuxQueue(1))
  /\ WF_vars(SmStep) /\ WF_vars(CloseStep)
  /\ \A o \in Output :
       /\ WF_vars(OutOpen(o)) /\ WF_vars(OutSleep(o))
       /\ WF_vars(OutCancelled(o)) /\ WF_vars(OutCopy(o))
       /\ WF_vars(OutRemove(o)) /\ WF_vars(OutKilled(o))
       /\ o \notin Stuck => WF_vars(OutWrite(o))

FairSpec == Spec /\ Fairness
-----------------------------------------------------------------------------
Block == [first : 1..MaxPackets, last : 1..MaxPackets]
PayloadType == [pcrs : Seq(1..MaxPackets), packets : Seq(1..MaxPackets)]
OutputType(o) ==
  [q : Queue(PayloadType, {o}),
   pc : {"open", "wait", "write", "remove", "done"},
   copied : Seq(PayloadType), cancel : BOOLEAN, killed : BOOLEAN,
   written : Seq(PayloadType)]

SmTypeOK ==
  /\ muxed \in 0..MaxPackets /\ drops \in 0..MaxDrops
  /\ {ready, muxDrop, bufferComplete, anchored} \subseteq BOOLEAN
  /\ cancelSmoothing \in BOOLEAN
  /\ smQ \in Queue(Block, {"smoothing"})
  /\ smPc \in {"ready", "wait", "write", "check", "sleep", "give", "done"}
  /\ num \in Nat /\ copied \in Seq(Block)
  /\ {fifoData, fifoPcr} \subseteq Seq(1..MaxPackets)
  /\ payload \in PayloadType /\ give \in Output
  /\ closePc \in {"run", "joinSmoothing", "cancelOutput", "killOutput",
                  "joinOutput", "closed"}
  /\ closeAt \in Output
OutTypeOK == DOMAIN out = Output /\ \A o \in Output : out[o] \in OutputType(o)
TypeOK == SmTypeOK /\ OutTypeOK

(* No thread sleeps on data or on its cancel flag, although each compares  *)
(* the length of a queue that another thread changes while it works.       *)
NoLostWakeup ==
  /\ "smoothing" \in smQ.in =>
       smPc = "wait" /\ Len(smQ.items) = num /\ ~cancelSmoothing
  /\ \A o \in Output : o \in out[o].q.in =>
       out[o].pc = "wait" /\ out[o].q.items = <<>> /\ ~out[o].cancel

(* Both threads work on a copy of a queue and remove "the head" once per   *)
(* item, with the lock given up in between: what they remove is the item   *)
(* they worked on, as long as nobody else removes.                         *)
RemovesWhatItCopied ==
  /\ smPc = "write" => copied # <<>> /\ IsPrefix(copied, smQ.items)
  /\ \A o \in Output : out[o].pc \in {"write", "remove"} =>
       out[o].copied # <<>> /\ IsPrefix(out[o].copied, out[o].q.items)

(* What an output was given: what it has written, and what it still has.   *)
GivenBy(r) ==
  r.written \o (IF r.pc = "remove" THEN Tail(r.q.items) ELSE r.q.items)
Given(o) == GivenBy(out[o])

(* Every output is given the same payloads; one may be a payload behind    *)
(* while the others are served, even if an output never takes any.         *)
SameForAll ==
  \A o \in Output :
    Given(1) = IF smPc = "give" /\ give # 1 /\ o >= give
                 THEN Append(Given(o), payload) ELSE Given(o)

(* Between the copies that the threads make of their queues and the next   *)
(* removal nothing changes what they copied, and so every output gets the  *)
(* payloads that all others get.                                           *)
PayloadsSame == TypeOK /\ RemovesWhatItCopied /\ SameForAll

(* The payloads drawn from the fifos.                                      *)
Drawn ==
  IF smPc \in {"sleep", "give"} /\ give = 1 THEN Append(Given(1), payload)
                                           ELSE Given(1)
InQueue == IF Empty(smQ) THEN 0 ELSE muxed + 1 - Head(smQ.items).first

(* The first packet that is neither drawn nor discarded.                   *)
Undecided == muxed + 1 - InQueue - Len(fifoData)

Delivery == INSTANCE TsDelivery WITH
  drop <- muxDrop,
  sent <- Drawn,
  next <- Undecided,
  delivered <- [o \in Output |-> Len(out[o].written)]

(* The threads implement TsDelivery: whenever a loss of signal comes in,   *)
(* the outputs get whole payloads, in order, with their own PCRs, nothing  *)
(* twice, and after a reset nothing muxed before it.                       *)
ImplementsDelivery == Delivery!Spec
-----------------------------------------------------------------------------
(* No packet is held back for ever: it is sent or discarded, or the thread *)
(* sleeps with too few packets for a payload, too few to start with, or a  *)
(* reset still to be made, for which it waits until new packets come.      *)
AtRest ==
  /\ smPc = "wait"
  /\ IF bufferComplete THEN Empty(smQ) /\ (muxDrop \/ ~Enough)
                       ELSE Empty(smQ) \/ ~Filled

PacketsLeave ==
  \A n \in 1..MaxPackets :
    muxed >= n ~> (n < Undecided \/ AtRest \/ smPc = "done" \/ Closing)

(* An output that opened and whose writes return writes all it is given,   *)
(* whatever the other outputs do.                                          *)
OutputsServed ==
  \A o \in Output : \A n \in 1..MaxPackets :
    Len(Given(o)) >= n ~>
      \/ Len(out[o].written) >= n
      \/ out[o].pc = "done" \/ Closing \/ o \in Stuck

(* Every packet gets through to every output that takes what it is given.  *)
PacketsServed == PacketsLeave /\ OutputsServed

(* obe_close gets past the smoothing thread and the outputs, even one that *)
(* blocks in a write.                                                      *)
CloseReturns == Closing ~> closePc = "closed"
=============================================================================
