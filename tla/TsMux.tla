-------------------------------- MODULE TsMux --------------------------------
(***************************************************************************)
(* The muxer thread (mux/ts/ts.c) and its queue.  Encoders put coded       *)
(* frames on mux_queue, each in its own order and at its own pace.  The    *)
(* muxer waits for a video frame, takes every queued frame that is due at  *)
(* its dts, has libmpegts write them as transport packets, queues those    *)
(* for the mux smoothing thread, and only then removes the frames it took, *)
(* one by one, while the encoders go on adding.                            *)
(*                                                                         *)
(* The dts of any other frame is its pts, moved by the distance between    *)
(* the two times of the first video frame.                                 *)
(***************************************************************************)
EXTENDS Integers, ObeQueue

CONSTANTS
  VideoStream,   (* the name of the video stream                            *)
  Video,         (* the video frames: a sequence of [pts, real_pts,         *)
                 (* real_dts] in coding order                               *)
  Audio,         (* the pts of the frames of every other stream, in the     *)
                 (* order in which they are queued                          *)
  MaxBuffered,   (* the 2200 frames in libmpegts after which it aborts      *)
  AllocCanFail   (* memory may run out                                      *)

Others  == DOMAIN Audio
Streams == {VideoStream} \cup Others

(* Nothing is assumed of the order of the times: x264's dts go back over a *)
(* gap among reordered pictures, and SCTE-35 sections have the pts of      *)
(* their pictures, which come in coding order.                             *)
ASSUME MuxAssumption ==
  /\ VideoStream \notin Others
  /\ Video \in Seq([pts : Nat, real_pts : Int, real_dts : Int])
  /\ \A s \in Others : Audio[s] \in Seq(Nat)
  /\ MaxBuffered \in Nat
  /\ AllocCanFail \in BOOLEAN

(* A coded frame is named by its stream and its place in it.               *)
Count(s) == IF s = VideoStream THEN Len(Video) ELSE Len(Audio[s])
CodedFrame == [stream : Streams, n : Nat \ {0}]
IsVideo(f) == f.stream = VideoStream
Pts(f) == IF IsVideo(f) THEN Video[f.n].pts ELSE Audio[f.stream][f.n]

VARIABLES
  queued,         (* how many frames of each stream have been queued        *)
  muxQ,           (* mux_queue                                              *)
  muxPc,
  firstPts,       (* first_video_pts, -1 before the first video frame       *)
  firstReal,      (* first_video_real_pts                                   *)
  frames,         (* the frames taken and not yet removed                   *)
  inLib,          (* frames libmpegts holds                                 *)
  smoothing,      (* how many blocks of packets were queued for smoothing   *)
  aborted,        (* exit(1)                                                *)
  cancelMux,      (* cancel_mux_thread                                      *)
  written,        (* history: the batches given to libmpegts                *)
  early,          (* history: the frames removed as too early               *)
  queuedAt        (* history: how many batches had been taken when a frame  *)
                  (* was queued                                             *)

muxVars == <<muxPc, firstPts, firstReal, frames, inLib, smoothing, aborted>>
history == <<written, early, queuedAt>>
vars == <<queued, muxQ, muxVars, cancelMux, history>>

Init ==
  /\ queued = [s \in Streams |-> 0]
  /\ muxQ = EmptyQueue
  /\ muxPc = "scan" /\ firstPts = -1 /\ firstReal = -1 /\ frames = <<>>
  /\ inLib = 0 /\ smoothing = 0 /\ aborted = FALSE
  /\ cancelMux = FALSE
  /\ written = <<>> /\ early = {}
  /\ queuedAt = [s \in Streams |-> <<>>]
-----------------------------------------------------------------------------
Frame(s, n) == [stream |-> s, n |-> n]

(* An encoder, or the smoothing thread for it, queues its next frame.      *)
QueueFrame(s) ==
  /\ queued[s] < Count(s)
  /\ queued' = [queued EXCEPT ![s] = @ + 1]
  /\ muxQ' \in AddToQueue(muxQ, Frame(s, queued[s] + 1))
  /\ queuedAt' = [queuedAt EXCEPT ![s] = Append(@, Len(written))]
  /\ UNCHANGED <<muxVars, cancelMux, written, early>>

Scanning == muxPc = "scan" /\ "mux" \notin muxQ.in

(* The cancel flag is looked at before the scan and after every wait.      *)
MuxCancelled ==
  /\ Scanning /\ cancelMux
  /\ muxPc' = "done"
  /\ UNCHANGED <<queued, muxQ, firstPts, firstReal, frames, inLib, smoothing,
                 aborted, cancelMux, history>>

(* Fault: only the head of the queue is looked at.                         *)
MuxSleepOnHead ==
  /\ Scanning /\ ~cancelMux
  /\ muxQ.items # <<>> => ~IsVideo(Head(muxQ.items))
  /\ muxQ' = SleepIn(muxQ, "mux")
  /\ UNCHANGED <<queued, muxVars, cancelMux, history>>

MuxSleep ==
  /\ Scanning /\ ~cancelMux
  /\ \A i \in DOMAIN muxQ.items : ~IsVideo(muxQ.items[i])
  /\ muxQ' = SleepIn(muxQ, "mux")
  /\ UNCHANGED <<queued, muxVars, cancelMux, history>>

(* The rescaled dts of a frame, given the two times of the first video.    *)
Dts(f, pts, real) ==
  IF IsVideo(f) THEN Video[f.n].real_dts ELSE Pts(f) - pts + real

(* Due at the dts of the video frame.  Fault: frames at it are not.        *)
DueBefore(f, pts, real, dts) == Dts(f, pts, real) < dts
Due(f, pts, real, dts) == Dts(f, pts, real) <= dts

(* remove_early_frames                                                     *)
TooEarly(f, pts) == ~IsVideo(f) /\ Pts(f) < pts

(* The frames of a queue that are in a set, in the order of the queue.     *)
Chosen(q, S) ==
  LET c[i \in 0..Len(q)] ==
        IF i = 0 THEN <<>>
        ELSE IF q[i] \in S THEN Append(c[i - 1], q[i]) ELSE c[i - 1]
  IN  c[Len(q)]

(* A video frame is queued: every queued frame due at its dts is taken,    *)
(* not removed.  With the first video frame ever, the frames before it are *)
(* removed and destroyed.  With no memory for the list of the frames the   *)
(* thread ends.                                                            *)
MuxTake ==
  /\ Scanning /\ ~cancelMux
  /\ \E v \in DOMAIN muxQ.items :
       /\ IsVideo(muxQ.items[v])
       /\ \A i \in 1..(v - 1) : ~IsVideo(muxQ.items[i])
       /\ LET video == Video[muxQ.items[v].n]
              first == firstPts = -1
              pts   == IF first THEN video.pts ELSE firstPts
              real  == IF first THEN video.real_pts ELSE firstReal
              old   == {f \in Range(muxQ.items) : first /\ TooEarly(f, pts)}
              kept  == Chosen(muxQ.items, Range(muxQ.items) \ old)
              due   == Chosen(kept, {f \in Range(kept) :
                                       Due(f, pts, real, video.real_dts)})
          IN  /\ firstPts' = pts
              /\ firstReal' = real
              /\ muxQ' = [muxQ EXCEPT !.items = kept]
              /\ early' = early \cup old
              /\ \/ /\ frames' = due
                    /\ written' = Append(written, due)
                    /\ muxPc' = "write"
                 \/ /\ AllocCanFail
                    /\ muxPc' = "done"
                    /\ UNCHANGED <<frames, written>>
  /\ UNCHANGED <<queued, inLib, smoothing, aborted, cancelMux, queuedAt>>

(* ts_write_frames: libmpegts keeps some of the frames it has and may      *)
(* return packets, which are queued for the smoothing thread.  If it holds *)
(* too many the process exits.                                             *)
MuxWrite ==
  /\ muxPc = "write"
  /\ inLib' \in 0..(inLib + Len(frames))
  /\ IF inLib' > MaxBuffered
       THEN aborted' = TRUE /\ UNCHANGED <<muxPc, smoothing>>
       ELSE /\ smoothing' \in {smoothing, smoothing + 1}
            /\ muxPc' = "remove"
            /\ UNCHANGED aborted
  /\ UNCHANGED <<queued, muxQ, firstPts, firstReal, frames, cancelMux, history>>

(* Out of memory for the packets: the thread ends, the frames stay queued. *)
MuxOutOfMemory ==
  /\ AllocCanFail
  /\ muxPc = "write"
  /\ inLib' \in 0..(inLib + Len(frames))
  /\ muxPc' = "done"
  /\ UNCHANGED <<queued, muxQ, firstPts, firstReal, frames, smoothing, aborted,
                 cancelMux, history>>

(* Fault: the head is removed instead of the frame itself.                 *)
MuxRemoveHead ==
  /\ muxPc = "remove" /\ frames # <<>>
  /\ muxQ' \in RemoveFromQueue(muxQ)
  /\ frames' = Tail(frames)
  /\ UNCHANGED <<queued, muxPc, firstPts, firstReal, inLib, smoothing, aborted,
                 cancelMux, history>>

(* The frames taken are removed from the queue and destroyed one by one.   *)
MuxRemove ==
  /\ muxPc = "remove" /\ frames # <<>>
  /\ muxQ' \in RemoveItem(muxQ, Head(frames))
  /\ frames' = Tail(frames)
  /\ UNCHANGED <<queued, muxPc, firstPts, firstReal, inLib, smoothing, aborted,
                 cancelMux, history>>

MuxNext ==
  /\ muxPc = "remove" /\ frames = <<>>
  /\ muxPc' = "scan"
  /\ UNCHANGED <<queued, muxQ, firstPts, firstReal, frames, inLib, smoothing,
                 aborted, cancelMux, history>>

(* Fault: the signal is forgotten.                                         *)
CancelMuxSilently ==
  /\ ~cancelMux
  /\ cancelMux' = TRUE
  /\ UNCHANGED <<queued, muxQ, muxVars, history>>

(* obe_close: flag and signal under the mutex of the queue.                *)
CancelMux ==
  /\ ~cancelMux
  /\ cancelMux' = TRUE
  /\ muxQ' \in SignalIn(muxQ)
  /\ UNCHANGED <<queued, muxVars, history>>

MuxStep ==
  \/ MuxCancelled
  \/ MuxSleep
  \/ MuxTake
  \/ MuxWrite
  \/ MuxOutOfMemory
  \/ MuxRemove
  \/ MuxNext

Next ==
  /\ ~aborted
  /\ \/ \E s \in Streams : QueueFrame(s)
     \/ MuxStep
     \/ CancelMux

(* The encoders go on and the muxer is scheduled; nobody has to stop it.   *)
Fairness ==
  /\ \A s \in Streams : WF_vars(QueueFrame(s))
  /\ WF_vars(MuxStep)

Spec == Init /\ [][Next]_vars
FairSpec == Spec /\ Fairness
-----------------------------------------------------------------------------
TypeOK ==
  /\ queued \in [Streams -> Nat]
  /\ muxQ \in Queue(CodedFrame, {"mux"})
  /\ muxPc \in {"scan", "write", "remove", "done"}
  /\ firstPts \in Int /\ firstReal \in Int
  /\ frames \in Seq(CodedFrame)
  /\ inLib \in Nat /\ smoothing \in Nat
  /\ aborted \in BOOLEAN /\ cancelMux \in BOOLEAN
  /\ written \in Seq(Seq(CodedFrame))
  /\ early \subseteq CodedFrame
  /\ queuedAt \in [Streams -> Seq(Nat)]

(* The muxer never sleeps on a video frame or on its cancel flag, although *)
(* the signal that wakes it is given for frames of every kind.             *)
NoLostWakeup ==
  "mux" \in muxQ.in =>
    /\ muxPc = "scan" /\ ~cancelMux
    /\ \A f \in Range(muxQ.items) : ~IsVideo(f)

AllQueued == UNION {{Frame(s, n) : n \in 1..queued[s]} : s \in Streams}
Muxed == UNION {Range(written[i]) : i \in DOMAIN written}

(* The frames are removed by identity after the lock was given up and more *)
(* were added: at every moment each frame ever queued is in the queue, or  *)
(* muxed and destroyed, or destroyed as too early, and in one of these     *)
(* only; a frame still to be removed is still there.                       *)
FramesAccounted ==
  LET inQueue   == Range(muxQ.items)
      destroyed == (Muxed \ Range(frames)) \cup early
  IN  /\ inQueue \cup destroyed = AllQueued
      /\ inQueue \cap destroyed = {}
      /\ Range(frames) \subseteq inQueue
      /\ early \cap Muxed = {}
      /\ IsInjective(muxQ.items)

InOrder(f, g) == f.stream = g.stream => f.n < g.n

(* The time by which the frames of one stream are due.                     *)
Time(f) == IF IsVideo(f) THEN Video[f.n].real_dts ELSE Pts(f)
InTurn(f, g) == f.stream = g.stream => f.n < g.n \/ Time(f) < Time(g)

(* Each stream is muxed in its own order within a batch, and across        *)
(* batches but for a frame whose time is before that of one queued before  *)
(* it; no frame is muxed twice.                                            *)
StreamOrder ==
  \A a, b \in DOMAIN written : \A i \in DOMAIN written[a], j \in DOMAIN written[b] :
    /\ a = b /\ i < j => InOrder(written[a][i], written[b][j])
    /\ a < b => InTurn(written[a][i], written[b][j])

(* The queue of the muxer, whatever is added between its scan, its write   *)
(* and its removals: the muxer is not left asleep, frames are accounted    *)
(* for, and each stream is muxed in order as far as its times are.         *)
MuxKeepsOrder == TypeOK /\ NoLostWakeup /\ FramesAccounted /\ StreamOrder

BatchDts(b) ==
  LET v == SelectInSeq(written[b], IsVideo)
  IN  Video[written[b][v].n].real_dts

(* Every batch carries a video frame, none of its frames (further video    *)
(* frames, when the dts go back, included) is due after the first one, and *)
(* one that was due with an earlier batch was not queued yet when that was *)
(* taken.                                                                  *)
DueWithItsVideo ==
  \A b \in DOMAIN written :
    /\ \E f \in Range(written[b]) : IsVideo(f)
    /\ \A f \in Range(written[b]) :
         /\ Dts(f, firstPts, firstReal) <= BatchDts(b)
         /\ \A a \in 1..(b - 1) :
              Dts(f, firstPts, firstReal) <= BatchDts(a) =>
                queuedAt[f.stream][f.n] >= a

-----------------------------------------------------------------------------
Stopped == cancelMux \/ aborted \/ muxPc = "done"

(* Every video frame is muxed in the end, and every other frame that is    *)
(* due with one of them is muxed or removed as too early.                  *)
AllMuxed ==
  <>(Stopped \/
      /\ {Frame(VideoStream, n) : n \in 1..Len(Video)} \subseteq Muxed
      /\ LET final == Video[Len(Video)].real_dts
             Past(f) == Dts(f, firstPts, firstReal) < final
         IN  {f \in AllQueued : Past(f)} \subseteq Muxed \cup early)

(* A muxer that is cancelled ends, wherever in its loop it is.             *)
MuxStops == cancelMux ~> (muxPc = "done" \/ aborted)

=============================================================================
