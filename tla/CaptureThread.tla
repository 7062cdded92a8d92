---------------------------- MODULE CaptureThread ----------------------------
(***************************************************************************)
(* How the inputs that run capture threads of their own start and stop     *)
(* them: ndi.cpp, bluefish.cpp, v210fileinput.cpp, avfoundation.cpp (one   *)
(* thread) and v4l2.cpp (video and audio).  The thread of obe_start or of  *)
(* the probe opens the device, creates the capture threads and sleeps      *)
(* until it is cancelled; close_device then stops them with three flags    *)
(* that no lock protects, and the state they share is freed.               *)
(*                                                                         *)
(* pc[t] is where capture thread t is: "none", "created", then its three   *)
(* stores "running" and "cleared", "looping", "leaving" once its loop is   *)
(* over, "ended" after vthreadComplete = 1, and "left" after a return from *)
(* the middle of the loop.                                                 *)
(***************************************************************************)
EXTENDS Integers, Sequences, FiniteSets, SequencesExt

CONSTANTS
  WaitOrder,     \* the capture threads in the order close_device stops them
  ProbeThreads,  \* the probe creates them too (v4l2)
  CanBreak,      \* threads whose loop ends when a frame cannot be had
  CanReturn      \* threads that may return from inside the loop (v210)

Threads == Range(WaitOrder)

ConstantsAreSound ==
  /\ WaitOrder \in Seq(Threads) /\ Len(WaitOrder) > 0
  /\ Cardinality(Threads) = Len(WaitOrder)
  /\ ProbeThreads \in BOOLEAN /\ CanBreak \cup CanReturn \subseteq Threads

VARIABLES
  opener,     \* "opening", "open", "closing", "closed"
  probing,    \* opts->probe
  cancelled,  \* the opener was cancelled or the probe is over
  closeAt,    \* the thread close_device is stopping
  awaited,    \* threads that were running when close_device looked (history)
  overruled,  \* threads that took back a request to stop (history)
  pc, running, complete, terminate,
  freed       \* the options and the context were freed

vars == <<opener, probing, cancelled, closeAt, awaited, overruled, pc, running,
          complete, terminate, freed>>
flags == <<running, complete, terminate>>

Init ==
  /\ opener = "opening" /\ probing \in BOOLEAN /\ cancelled = FALSE
  /\ closeAt = 1 /\ awaited = {} /\ overruled = {} /\ freed = FALSE
  /\ pc = [t \in Threads |-> "none"]
  /\ running = [t \in Threads |-> FALSE]
  /\ complete = [t \in Threads |-> FALSE]
  /\ terminate = [t \in Threads |-> FALSE]
-----------------------------------------------------------------------------
(* The thread that opens the device.  When open_device fails, returning    *)
(* from inside the cleanup scope still runs close_thread.                  *)
OpenFails ==
  /\ opener = "opening" /\ opener' = "closing"
  /\ UNCHANGED <<probing, cancelled, closeAt, awaited, overruled, pc, flags, freed>>

Opened ==
  /\ opener = "opening" /\ opener' = "open"
  /\ pc' = IF probing /\ ~ProbeThreads THEN pc ELSE [t \in Threads |-> "created"]
  /\ UNCHANGED <<probing, cancelled, closeAt, awaited, overruled, flags, freed>>

(* The sleep of the opener ends: it is cancelled, or the probe's second is *)
(* over.                                                                   *)
Cancelled ==
  /\ opener \in {"opening", "open"} /\ ~cancelled
  /\ cancelled' = TRUE /\ opener' = "closing"
  /\ UNCHANGED <<probing, closeAt, awaited, overruled, pc, flags, freed>>

(* close_device asks each running thread to stop and polls until it said   *)
(* it is complete.                                                         *)
Current == WaitOrder[closeAt]
Closing == opener = "closing" /\ closeAt <= Len(WaitOrder)

NotRunning ==
  /\ Closing /\ Current \notin awaited /\ ~running[Current]
  /\ closeAt' = closeAt + 1
  /\ UNCHANGED <<opener, probing, cancelled, awaited, overruled, pc, flags, freed>>

AskToStop ==
  /\ Closing /\ Current \notin awaited /\ running[Current]
  /\ terminate' = [terminate EXCEPT ![Current] = TRUE]
  /\ awaited' = awaited \cup {Current}
  /\ UNCHANGED <<opener, probing, cancelled, closeAt, overruled, pc, running,
                 complete, freed>>

(* Fault: close_device goes on without waiting.                            *)
StoppedBlindly ==
  /\ Closing /\ Current \in awaited
  /\ closeAt' = closeAt + 1
  /\ UNCHANGED <<opener, probing, cancelled, awaited, overruled, pc, flags, freed>>

Stopped ==
  /\ Closing /\ Current \in awaited /\ complete[Current]
  /\ closeAt' = closeAt + 1
  /\ UNCHANGED <<opener, probing, cancelled, awaited, overruled, pc, flags, freed>>

Freed ==
  /\ opener = "closing" /\ closeAt > Len(WaitOrder)
  /\ opener' = "closed" /\ freed' = TRUE /\ probing' = FALSE
  /\ UNCHANGED <<cancelled, closeAt, awaited, overruled, pc, flags>>
-----------------------------------------------------------------------------
(* The capture thread: its three stores, one after another.                *)
StoreRunning(t) ==
  /\ pc[t] = "created" /\ pc' = [pc EXCEPT ![t] = "running"]
  /\ running' = [running EXCEPT ![t] = TRUE]
  /\ UNCHANGED <<opener, probing, cancelled, closeAt, awaited, overruled,
                 complete, terminate, freed>>

StoreComplete(t) ==
  /\ pc[t] = "running" /\ pc' = [pc EXCEPT ![t] = "cleared"]
  /\ complete' = [complete EXCEPT ![t] = FALSE]
  /\ UNCHANGED <<opener, probing, cancelled, closeAt, awaited, overruled,
                 running, terminate, freed>>

StoreTerminate(t) ==
  /\ pc[t] = "cleared" /\ pc' = [pc EXCEPT ![t] = "looping"]
  /\ terminate' = [terminate EXCEPT ![t] = FALSE]
  /\ overruled' = IF terminate[t] THEN overruled \cup {t} ELSE overruled
  /\ UNCHANGED <<opener, probing, cancelled, closeAt, awaited, running,
                 complete, freed>>

LoopEnds(t) ==
  /\ pc[t] = "looping" /\ (terminate[t] \/ probing)
  /\ pc' = [pc EXCEPT ![t] = "leaving"]
  /\ UNCHANGED <<opener, probing, cancelled, closeAt, awaited, overruled, flags, freed>>

Breaks(t) ==
  /\ t \in CanBreak /\ pc[t] = "looping" /\ ~terminate[t] /\ ~probing
  /\ pc' = [pc EXCEPT ![t] = "leaving"]
  /\ UNCHANGED <<opener, probing, cancelled, closeAt, awaited, overruled, flags, freed>>

Returns(t) ==
  /\ t \in CanReturn /\ pc[t] = "looping" /\ ~terminate[t] /\ ~probing
  /\ pc' = [pc EXCEPT ![t] = "left"]
  /\ UNCHANGED <<opener, probing, cancelled, closeAt, awaited, overruled, flags, freed>>

(* Fault: a thread whose loop broke ends like one that returned.           *)
EndsIfAsked(t) ==
  /\ pc[t] = "leaving" /\ pc' = [pc EXCEPT ![t] = "ended"]
  /\ complete' = [complete EXCEPT ![t] = terminate[t]]
  /\ UNCHANGED <<opener, probing, cancelled, closeAt, awaited, overruled,
                 running, terminate, freed>>

Ends(t) ==
  /\ pc[t] = "leaving" /\ pc' = [pc EXCEPT ![t] = "ended"]
  /\ complete' = [complete EXCEPT ![t] = TRUE]
  /\ UNCHANGED <<opener, probing, cancelled, closeAt, awaited, overruled,
                 running, terminate, freed>>

Capture(t) ==
  \/ StoreRunning(t) \/ StoreComplete(t) \/ StoreTerminate(t)
  \/ LoopEnds(t) \/ Breaks(t) \/ Returns(t) \/ Ends(t)
Close == NotRunning \/ AskToStop \/ Stopped \/ Freed
Next == OpenFails \/ Opened \/ Cancelled \/ Close \/ \E t \in Threads : Capture(t)

(* The threads are scheduled; a loop goes round, so it looks at its flags  *)
(* again and again.  Nothing has to fail or to be cancelled.               *)
Fairness ==
  /\ WF_vars(Close)
  /\ \A t \in Threads : WF_vars(StoreRunning(t) \/ StoreComplete(t)
                                \/ StoreTerminate(t) \/ LoopEnds(t) \/ Ends(t))
-----------------------------------------------------------------------------
(* What the threads share is freed only after every thread that was seen   *)
(* running has left its loop; one that was still starting goes on with it. *)
FreedWhenAlone ==
  freed => \A t \in awaited : pc[t] \in {"ended", "left"}

(* Once it is cancelled the input is closed, unless a thread took the      *)
(* request back or returned in the middle of its loop.                     *)
InputCloses ==
  cancelled ~> (freed \/ overruled # {} \/ \E t \in Threads : pc[t] = "left")

(* The threads of a probe end by themselves, asked or not, unless they     *)
(* start so late that the probe has cleared its flag and freed it.         *)
ProbeThreadsEnd ==
  \A t \in Threads :
    (probing /\ pc[t] # "none") ~> (pc[t] = "ended" \/ (freed /\ t \notin awaited))
=============================================================================
