----------------------------- MODULE MuxSmoothing -----------------------------
(***************************************************************************)
(* The mux smoothing thread (mux/smoothing.c) and the state it shares with *)
(* the muxer, the input callback, the outputs and obe_close.               *)
(*                                                                         *)
(* The muxer queues blocks of transport packets.  The thread copies the    *)
(* queue, moves the packets and their PCRs to two private fifos, draws     *)
(* payloads of a fixed number of packets, waits until the clock of the     *)
(* input reaches their PCR, and queues a reference for every output.  A    *)
(* loss of signal, or a fifo that has grown too long, discards it all.     *)
(*                                                                         *)
(* A packet is its number in the order of muxing, and its PCR is the same  *)
(* number.  The sleep until a PCR may take any time.                       *)
(***************************************************************************)
EXTENDS Integers, ObeQueue

CONSTANTS
  NumOutputs,      (* h->num_outputs                                        *)
  PayloadPackets,  (* packets in one payload: 7                             *)
  Vbv,             (* temporal_vbv_size, in packets                         *)
  FifoLimit,       (* the 10000000 bytes of fifo_data, in packets           *)
  AllocCanFail,    (* memory may run out                                    *)
  Stuck,           (* the outputs whose writes may block for ever           *)
  MaxBlock,        (* bound: packets in one block                           *)
  MaxPackets,      (* bound: packets muxed                                  *)
  MaxDrops         (* bound: losses of signal                               *)

Output == 1..NumOutputs

ASSUME SmoothingAssumption ==
  /\ {NumOutputs, PayloadPackets, MaxBlock} \subseteq Nat \ {0}
  /\ {Vbv, FifoLimit, MaxPackets, MaxDrops} \subseteq Nat
  /\ AllocCanFail \in BOOLEAN
  /\ Stuck \subseteq Output

VARIABLES
  muxed,           (* how many packets the muxer has queued                 *)
  drops,           (* how many losses of signal there have been             *)
  ready,           (* the video encoder's is_ready                          *)
  muxDrop,         (* mux_drop                                              *)
  smQ,             (* mux_smoothing_queue                                   *)
  smPc,
  num,             (* num_muxed_data                                        *)
  bufferComplete,
  anchored,        (* start_clock # -1                                      *)
  copied,          (* muxed_data: the blocks copied and not yet moved       *)
  fifoData, fifoPcr,
  payload,         (* output_buffers[0]                                     *)
  give,            (* the output that gets it next                          *)
  cancelSmoothing, (* cancel_mux_smoothing_thread                           *)
  out,             (* the outputs: queue and thread                         *)
  closePc,         (* obe_close                                             *)
  closeAt          (* the output it stops                                   *)

muxVars   == <<muxed, drops, ready>>
fifos     == <<fifoData, fifoPcr>>
smVars    == <<smPc, num, bufferComplete, anchored, copied, fifos, payload,
               give>>
closeVars == <<closePc, closeAt>>
vars == <<muxVars, muxDrop, smQ, smVars, cancelSmoothing, out, closeVars>>

Empty(q) == q.items = <<>>
NoPayload == [pcrs |-> <<>>, packets |-> <<>>]
OutputAtStart ==
  [q |-> EmptyQueue, pc |-> "open", copied |-> <<>>, cancel |-> FALSE,
   killed |-> FALSE, written |-> <<>>]

Init ==
  /\ muxed = 0 /\ drops = 0 /\ ready = FALSE
  /\ muxDrop = FALSE /\ smQ = EmptyQueue
  /\ smPc = "ready" /\ num = 0 /\ bufferComplete = FALSE /\ anchored = FALSE
  /\ copied = <<>> /\ fifoData = <<>> /\ fifoPcr = <<>>
  /\ payload = NoPayload /\ give = 1
  /\ cancelSmoothing = FALSE
  /\ out = [o \in Output |-> OutputAtStart]
  /\ closePc = "run" /\ closeAt = 1
-----------------------------------------------------------------------------
(* The video encoder is open.                                              *)
EncoderReady ==
  /\ ~ready
  /\ ready' = TRUE
  /\ UNCHANGED <<muxed, drops, muxDrop, smQ, smVars, cancelSmoothing, out,
                 closeVars>>

(* The muxer queues a block.                                               *)
MuxQueue(n) ==
  /\ ready /\ closePc = "run" /\ muxed + n <= MaxPackets
  /\ muxed' = muxed + n
  /\ smQ' \in AddToQueue(smQ, [first |-> muxed + 1, last |-> muxed + n])
  /\ UNCHANGED <<drops, ready, muxDrop, smVars, cancelSmoothing, out,
                 closeVars>>

(* The input sets the drop flags under drop_mutex.                         *)
SignalLost ==
  /\ closePc = "run" /\ drops < MaxDrops
  /\ drops' = drops + 1
  /\ muxDrop' = TRUE
  /\ UNCHANGED <<muxed, ready, smQ, smVars, cancelSmoothing, out, closeVars>>
-----------------------------------------------------------------------------
(* The buffer size is taken from the open encoder.  The wait for it does   *)
(* not look at the cancel flag.                                            *)
SmReady ==
  /\ smPc = "ready" /\ ready
  /\ smPc' = "wait"
  /\ UNCHANGED <<muxVars, muxDrop, smQ, num, bufferComplete, anchored, copied,
                 fifos, payload, give, cancelSmoothing, out, closeVars>>

SmAwake == smPc = "wait" /\ "smoothing" \notin smQ.in
SmNews  == SmAwake /\ ~cancelSmoothing /\ Len(smQ.items) # num

SmSleep ==
  /\ SmAwake /\ ~cancelSmoothing /\ Len(smQ.items) = num
  /\ smQ' = SleepIn(smQ, "smoothing")
  /\ UNCHANGED <<muxVars, muxDrop, smVars, cancelSmoothing, out, closeVars>>

SmCancelled ==
  /\ SmAwake /\ cancelSmoothing
  /\ smPc' = "done"
  /\ UNCHANGED <<muxVars, muxDrop, smQ, num, bufferComplete, anchored, copied,
                 fifos, payload, give, cancelSmoothing, out, closeVars>>

(* Fault: the fifo of the PCRs is not reset.                               *)
SmResetData ==
  /\ SmNews /\ muxDrop
  /\ muxDrop' = FALSE
  /\ fifoData' = <<>>
  /\ bufferComplete' = FALSE /\ anchored' = FALSE
  /\ smQ' = [smQ EXCEPT !.items = <<>>]
  /\ num' = 0
  /\ UNCHANGED <<muxVars, smPc, copied, fifoPcr, payload, give,
                 cancelSmoothing, out, closeVars>>

(* With the mutexes of the queue and of the drop flags: the fifos and the  *)
(* whole queue are thrown away, and the buffer is to be filled again.      *)
SmReset ==
  /\ SmNews /\ muxDrop
  /\ muxDrop' = FALSE
  /\ fifoData' = <<>> /\ fifoPcr' = <<>>
  /\ bufferComplete' = FALSE /\ anchored' = FALSE
  /\ smQ' = [smQ EXCEPT !.items = <<>>]
  /\ num' = 0
  /\ UNCHANGED <<muxVars, smPc, copied, payload, give, cancelSmoothing, out,
                 closeVars>>

Filled == bufferComplete \/ Last(smQ.items).last - Head(smQ.items).first >= Vbv

SmBuffer ==
  /\ SmNews /\ ~muxDrop /\ ~Filled
  /\ num' = Len(smQ.items)
  /\ UNCHANGED <<muxVars, muxDrop, smQ, smPc, bufferComplete, anchored,
                 copied, fifos, payload, give, cancelSmoothing, out,
                 closeVars>>

SmCopy ==
  /\ SmNews /\ ~muxDrop /\ Filled
  /\ bufferComplete' = TRUE
  /\ anchored' = (anchored /\ bufferComplete)
  /\ num' = Len(smQ.items)
  /\ copied' = smQ.items
  /\ smPc' = "write"
  /\ UNCHANGED <<muxVars, muxDrop, smQ, fifos, payload, give, cancelSmoothing,
                 out, closeVars>>

Packets(b) == [i \in 1..(b.last - b.first + 1) |-> b.first + i - 1]

(* A copied block goes to the fifos; the head of the queue is removed.     *)
SmWrite ==
  /\ smPc = "write"
  /\ fifoData' = fifoData \o Packets(Head(copied))
  /\ fifoPcr' = fifoPcr \o Packets(Head(copied))
  /\ smQ' \in RemoveFromQueue(smQ)
  /\ copied' = Tail(copied)
  /\ IF Len(copied) = 1 THEN smPc' = "check" /\ num' = 0
                        ELSE UNCHANGED <<smPc, num>>
  /\ UNCHANGED <<muxVars, muxDrop, bufferComplete, anchored, payload, give,
                 cancelSmoothing, out, closeVars>>

Enough == Len(fifoData) >= PayloadPackets
TooLong == Len(fifoData) > FifoLimit

(* Fault: a drop makes it try again.                                       *)
SmLeaveIfShort ==
  /\ smPc = "check" /\ ~Enough
  /\ smPc' = "wait"
  /\ UNCHANGED <<muxVars, muxDrop, smQ, num, bufferComplete, anchored, copied,
                 fifos, payload, give, cancelSmoothing, out, closeVars>>

(* mux_drop is read, and set when the fifo is too long, without a lock.    *)
SmLeave ==
  /\ smPc = "check" /\ (muxDrop \/ ~Enough)
  /\ smPc' = "wait"
  /\ UNCHANGED <<muxVars, muxDrop, smQ, num, bufferComplete, anchored, copied,
                 fifos, payload, give, cancelSmoothing, out, closeVars>>

SmOverflow ==
  /\ smPc = "check" /\ ~muxDrop /\ Enough /\ TooLong
  /\ muxDrop' = TRUE
  /\ UNCHANGED <<muxVars, smQ, smVars, cancelSmoothing, out, closeVars>>

(* A payload with its PCRs is drawn.  The first one sets the anchor, every *)
(* other waits for its time.                                               *)
SmDraw ==
  /\ smPc = "check" /\ ~muxDrop /\ Enough /\ ~TooLong
  /\ payload' = [pcrs |-> SubSeq(fifoPcr, 1, PayloadPackets),
                 packets |-> SubSeq(fifoData, 1, PayloadPackets)]
  /\ fifoPcr' = SubSeq(fifoPcr, PayloadPackets + 1, Len(fifoPcr))
  /\ fifoData' = SubSeq(fifoData, PayloadPackets + 1, Len(fifoData))
  /\ smPc' = IF anchored THEN "sleep" ELSE "give"
  /\ anchored' = TRUE
  /\ UNCHANGED <<muxVars, muxDrop, smQ, num, bufferComplete, copied, give,
                 cancelSmoothing, out, closeVars>>

SmSlept ==
  /\ smPc = "sleep"
  /\ smPc' = "give"
  /\ UNCHANGED <<muxVars, muxDrop, smQ, num, bufferComplete, anchored, copied,
                 fifos, payload, give, cancelSmoothing, out, closeVars>>

(* Fault: a drop stops the distribution.                                   *)
SmGiveUnlessDrop ==
  /\ smPc = "give"
  /\ \E q \in AddToQueue(out[give].q, payload) :
       out' = [out EXCEPT ![give].q = q]
  /\ IF give = NumOutputs \/ muxDrop
       THEN give' = 1 /\ smPc' = "check"
       ELSE give' = give + 1 /\ UNCHANGED smPc
  /\ UNCHANGED <<muxVars, muxDrop, smQ, num, bufferComplete, anchored, copied,
                 fifos, payload, cancelSmoothing, closeVars>>

(* The outputs get it one after the other.                                 *)
SmGive ==
  /\ smPc = "give"
  /\ \E q \in AddToQueue(out[give].q, payload) :
       out' = [out EXCEPT ![give].q = q]
  /\ IF give = NumOutputs THEN give' = 1 /\ smPc' = "check"
                          ELSE give' = give + 1 /\ UNCHANGED smPc
  /\ UNCHANGED <<muxVars, muxDrop, smQ, num, bufferComplete, anchored, copied,
                 fifos, payload, cancelSmoothing, closeVars>>

(* No memory for the fifos, the copy or the references: the thread ends.   *)
SmOutOfMemory ==
  /\ AllocCanFail
  /\ smPc \in {"ready", "write", "check"} \/ (SmNews /\ ~muxDrop /\ Filled)
  /\ smPc' = "done"
  /\ UNCHANGED <<muxVars, muxDrop, smQ, num, bufferComplete, anchored, copied,
                 fifos, payload, give, cancelSmoothing, out, closeVars>>

SmStep ==
  \/ SmReady
  \/ SmSleep
  \/ SmCancelled
  \/ SmReset
  \/ SmBuffer
  \/ SmCopy
  \/ SmWrite
  \/ SmLeave
  \/ SmOverflow
  \/ SmDraw
  \/ SmSlept
  \/ SmGive
  \/ SmOutOfMemory
=============================================================================
