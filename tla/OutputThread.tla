---------------------------- MODULE OutputThread ----------------------------
(***************************************************************************)
(* An output thread (output/ip/ip.c, output/file/file.c): it copies its    *)
(* queue, writes each payload, and removes it from the queue and releases  *)
(* it after the write.  The mux smoothing thread adds payloads all along.  *)
(* A write may block in the operating system until the thread is           *)
(* cancelled: it is a cancellation point, as is the wait for payloads.     *)
(***************************************************************************)
EXTENDS MuxSmoothing

SetOut(o, r) == out' = [out EXCEPT ![o] = r]
OutUnchanged ==
  UNCHANGED <<muxVars, muxDrop, smQ, smVars, cancelSmoothing, closeVars>>

(* The socket or the file is opened; when that fails the thread ends.      *)
OutOpen(o) ==
  /\ out[o].pc = "open"
  /\ \E pc \in {"wait", "done"} : SetOut(o, [out[o] EXCEPT !.pc = pc])
  /\ OutUnchanged

OutAwake(o) == out[o].pc = "wait" /\ o \notin out[o].q.in

OutSleep(o) ==
  /\ OutAwake(o) /\ out[o].q.items = <<>> /\ ~out[o].cancel
  /\ SetOut(o, [out[o] EXCEPT !.q = SleepIn(@, o)])
  /\ OutUnchanged

OutCancelled(o) ==
  /\ OutAwake(o) /\ out[o].cancel
  /\ SetOut(o, [out[o] EXCEPT !.pc = "done"])
  /\ OutUnchanged

OutCopy(o) ==
  /\ OutAwake(o) /\ out[o].q.items # <<>> /\ ~out[o].cancel
  /\ SetOut(o, [out[o] EXCEPT !.copied = out[o].q.items, !.pc = "write"])
  /\ OutUnchanged

OutWrite(o) ==
  /\ out[o].pc = "write"
  /\ SetOut(o, [out[o] EXCEPT !.written = Append(@, Head(out[o].copied)),
                              !.pc = "remove"])
  /\ OutUnchanged

(* The head of the queue is removed, the copy's reference released.        *)
OutRemove(o) ==
  /\ out[o].pc = "remove"
  /\ \E q \in RemoveFromQueue(out[o].q) :
       SetOut(o, [out[o] EXCEPT !.q = q, !.copied = Tail(@),
                                !.pc = IF Len(out[o].copied) = 1 THEN "wait"
                                                                 ELSE "write"])
  /\ OutUnchanged

(* pthread_cancel takes effect.                                            *)
OutKilled(o) ==
  /\ out[o].killed
  /\ out[o].pc = "write" \/ (out[o].pc = "wait" /\ o \in out[o].q.in)
  /\ SetOut(o, [out[o] EXCEPT !.pc = "done", !.q.in = @ \ {o}])
  /\ OutUnchanged

OutStep(o) ==
  \/ OutOpen(o)
  \/ OutSleep(o)
  \/ OutCancelled(o)
  \/ OutCopy(o)
  \/ OutWrite(o)
  \/ OutRemove(o)
  \/ OutKilled(o)
=============================================================================
