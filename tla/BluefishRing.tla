----------------------------- MODULE BluefishRing -----------------------------
(***************************************************************************)
(* The four buffers of the card that the capture thread of                 *)
(* input/sdi/bluefish/bluefish.cpp goes round.  At each interrupt of the   *)
(* card the buffer it was filling is done and it goes on with the one that *)
(* was requested since the last interrupt.  The thread requests ScheduleID *)
(* and, if the signal was valid, reads DoneID and goes on by one.          *)
(***************************************************************************)
EXTENDS Integers

CONSTANTS
  Buffers,  \* 4
  MaxNow

ConstantsAreSound == Buffers \in Nat /\ Buffers >= 4 /\ MaxNow \in Nat

VARIABLES
  now,                   \* interrupts so far; the frame of an interrupt
  signal,                \* history: the frames that had a valid signal
  filling, requested,    \* the card: the buffer being filled, the next one
  content,               \* the frame each buffer holds
  schedule, capturing, done, \* ScheduleID, CapturingID, DoneID
  picture,               \* the frame last queued
  counter, pts,          \* v_counter and the time of that frame
  up

vars == <<now, signal, filling, requested, content, schedule, capturing, done,
          picture, counter, pts, up>>

(* The two requests before the loop.                                       *)
Init ==
  /\ now = 0 /\ signal = {} /\ content = [b \in 0..Buffers - 1 |-> 0]
  /\ filling = 0 /\ requested = 1
  /\ done = 0 /\ capturing = 1 /\ schedule = 2 % Buffers
  /\ picture = 0 /\ counter = 0 /\ pts = 0 /\ up = TRUE

(* The interrupt, and the request the thread makes at once.                *)
Interrupt(valid) ==
  /\ up /\ now < MaxNow /\ now' = now + 1
  /\ signal' = IF valid THEN signal \cup {now'} ELSE signal
  /\ content' = [content EXCEPT ![filling] = now']
  /\ filling' = requested /\ requested' = schedule

(* Fault: the buffer that is being filled is read.                         *)
RotateTwice ==
  done' = schedule /\ capturing' = (schedule + 1) % Buffers
    /\ schedule' = (schedule + 2) % Buffers

Rotate ==
  done' = capturing /\ capturing' = schedule /\ schedule' = (schedule + 1) % Buffers

Deliver ==
  /\ Interrupt(TRUE) /\ Rotate
  /\ picture' = content'[done] /\ counter' = counter + 1 /\ pts' = counter
  /\ UNCHANGED up

(* No frame could be had or decoded: the thread ends, the buffers moved on.*)
Broken ==
  /\ Interrupt(TRUE) /\ Rotate /\ up' = FALSE
  /\ UNCHANGED <<picture, counter, pts>>

(* Without a signal the same buffers stay in place.                        *)
NoSignal ==
  /\ Interrupt(FALSE)
  /\ UNCHANGED <<schedule, capturing, done, picture, counter, pts, up>>

Next == Deliver \/ Broken \/ NoSignal
-----------------------------------------------------------------------------
RunLength == IF now \notin signal THEN 0
             ELSE now - (CHOOSE m \in 0..now - 1 :
                           m \notin signal /\ m + 1..now \subseteq signal)

(* The frame the card has just finished is the one that is delivered, but  *)
(* after a loss only when the ring has gone round once.                    *)
DeliversNewest ==
  (picture > 0 /\ up /\ (signal = 1..now \/ RunLength >= Buffers)) => picture = now

(* The ring still holds frames of the time without signal, which are       *)
(* delivered as good ones, but one less than the ring is deep.             *)
LossLeavesRing == (up /\ RunLength >= Buffers - 1) => picture \in signal

(* No frame is delivered twice or after a later one, whatever is lost.     *)
PicturesAdvance == [][picture' # picture => picture' > picture]_vars
=============================================================================
