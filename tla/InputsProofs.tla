---------------------------- MODULE InputsProofs ----------------------------
(***************************************************************************)
(* The inputs, for every value of their constants.  A mode runs one        *)
(* component and leaves the variables of the others alone, so that each    *)
(* component keeps its own invariant in the composition: ModesStart and    *)
(* ModesStep say so, and what follows is one part for each component.      *)
(***************************************************************************)
EXTENDS MCInputs, QueueLemmas, FiniteSetTheorems

(* Every component starts where it says, whatever the mode is.             *)
LEMMA ModesStart ==
  Init => /\ Decklink!Init /\ Threads!Init /\ Clocks!Init /\ Bluefish!Init
          /\ Vega!Init /\ Format!Init
BY DEF Init

(* Every step is a step of each component, or leaves it alone.             *)
LEMMA ModesStep ==
  [Next]_vars => /\ [Decklink!Next]_(Decklink!vars)
                 /\ [Threads!Next]_(Threads!vars)
                 /\ [Clocks!Next]_(Clocks!vars)
                 /\ [Bluefish!Next]_(Bluefish!vars)
                 /\ [Vega!Next]_(Vega!vars)
                 /\ [Format!Next]_(Format!vars)
<1> SUFFICES ASSUME [Next]_vars
             PROVE  /\ [Decklink!Next]_(Decklink!vars)
                    /\ [Threads!Next]_(Threads!vars)
                    /\ [Clocks!Next]_(Clocks!vars)
                    /\ [Bluefish!Next]_(Bluefish!vars)
                    /\ [Vega!Next]_(Vega!vars)
                    /\ [Format!Next]_(Format!vars)
  OBVIOUS
<1>1. /\ Decklink!Next \/ UNCHANGED decklinkVars
      /\ Threads!Next \/ UNCHANGED threadVars
      /\ Clocks!Next \/ UNCHANGED clockVars
      /\ Bluefish!Next \/ UNCHANGED bluefishVars
      /\ Vega!Next \/ UNCHANGED vegaVars
      /\ Format!Next \/ UNCHANGED formatVars
  BY DEF Next, DecklinkNext, ThreadsNext, ClocksNext, BluefishNext, VegaNext, FormatNext,
         vars
<1>2. UNCHANGED decklinkVars => UNCHANGED Decklink!vars
  BY DEF decklinkVars, Decklink!vars
<1>3. UNCHANGED threadVars => UNCHANGED Threads!vars
  BY DEF threadVars, Threads!vars
<1>4. UNCHANGED clockVars => UNCHANGED Clocks!vars
  BY DEF clockVars, Clocks!vars
<1>5. UNCHANGED bluefishVars => UNCHANGED Bluefish!vars
  BY DEF bluefishVars, Bluefish!vars
<1>6. UNCHANGED vegaVars => UNCHANGED Vega!vars
  BY DEF vegaVars, Vega!vars
<1>7. UNCHANGED formatVars => UNCHANGED Format!vars
  BY DEF formatVars, Format!vars
<1> QED
  BY <1>1, <1>2, <1>3, <1>4, <1>5, <1>6, <1>7
-----------------------------------------------------------------------------
(* The capture threads of an input, for any number of them stopped in any  *)
(* order.  close_device polls a flag that the thread itself clears when it *)
(* starts.  That the flag, once seen, can be trusted is CompleteIsEnded;   *)
(* that all threads asked were waited for, although each is looked at      *)
(* once, is WaitedFor; and that no thread is created after the first was   *)
(* asked to stop is the first part of ThreadsInv.                          *)

(* vthreadComplete is stored last (v4l2.cpp and the others).               *)
CompleteIsEnded == \A t \in Threads!Threads : complete[t] => pc[t] = "ended"

(* close_device leaves a thread it asked to stop only when it has ended.   *)
WaitedFor ==
  \A t \in awaited : pc[t] \in {"ended", "left"} \/ (Threads!Closing /\ t = Threads!Current)

ThreadsInv ==
  /\ Threads!ConstantsAreSound
  /\ opener \in {"opening", "open"} => awaited = {}
  /\ opener = "opening" => \A t \in Threads!Threads : pc[t] = "none"
  /\ freed => opener = "closed"
  /\ opener = "closed" => closeAt > Len(WaitOrder)
  /\ closeAt \in Nat \ {0} /\ awaited \subseteq Threads!Threads
  /\ DOMAIN pc = Threads!Threads /\ DOMAIN complete = Threads!Threads
  /\ CompleteIsEnded
  /\ WaitedFor
-----------------------------------------------------------------------------
(* The thread that close_device looks at is one of them.                   *)
LEMMA CurrentIsThread ==
  ASSUME ThreadsInv, Threads!Closing
  PROVE  Threads!Current \in Threads!Threads
<1>1. WaitOrder \in Seq(Threads!Threads) /\ closeAt \in 1..Len(WaitOrder)
  BY DEF ThreadsInv, Threads!ConstantsAreSound, Threads!Closing
<1> QED
  BY <1>1 DEF Threads!Current

(* The invariant holds at first.                                           *)
LEMMA ThreadsInit ==
  Threads!Init => ThreadsInv
  BY InputsAssumption DEF ConstantsAreSound, Threads!Init, ThreadsInv, CompleteIsEnded, WaitedFor

(* A capture thread ends for good, and says so only then.                  *)
LEMMA CaptureKeeps ==
  ASSUME ThreadsInv, NEW t \in Threads!Threads, Threads!Capture(t)
  PROVE  ThreadsInv'
<1>1. /\ UNCHANGED <<opener, closeAt, awaited, freed>>
      /\ DOMAIN pc' = Threads!Threads /\ DOMAIN complete' = Threads!Threads
      /\ \A u \in Threads!Threads : pc[u] \in {"ended", "left"} => pc'[u] = pc[u]
      /\ \A u \in Threads!Threads : complete'[u] => complete[u] \/ pc'[u] = "ended"
      /\ pc[t] # "none"
  <2>1. CASE Threads!StoreRunning(t)
    BY <2>1 DEF Threads!StoreRunning, ThreadsInv
  <2>2. CASE Threads!StoreComplete(t)
    BY <2>2 DEF Threads!StoreComplete, ThreadsInv
  <2>3. CASE Threads!StoreTerminate(t)
    BY <2>3 DEF Threads!StoreTerminate, ThreadsInv
  <2>4. CASE Threads!LoopEnds(t) \/ Threads!Breaks(t) \/ Threads!Returns(t)
    BY <2>4 DEF Threads!LoopEnds, Threads!Breaks, Threads!Returns, Threads!flags, ThreadsInv
  <2>5. CASE Threads!Ends(t)
    BY <2>5 DEF Threads!Ends, ThreadsInv
  <2> QED
    BY <2>1, <2>2, <2>3, <2>4, <2>5 DEF Threads!Capture
<1>2. opener # "opening"
  BY <1>1 DEF ThreadsInv
<1>3. CompleteIsEnded' /\ WaitedFor'
  BY <1>1 DEF ThreadsInv, CompleteIsEnded, WaitedFor, Threads!Closing, Threads!Current
<1> QED
  BY <1>1, <1>2, <1>3 DEF ThreadsInv

(* The thread of the input keeps the invariant.                            *)
LEMMA OpenerKeeps ==
  ASSUME ThreadsInv, Threads!OpenFails \/ Threads!Opened \/ Threads!Cancelled \/ Threads!Close
  PROVE  ThreadsInv'
<1>1. CASE Threads!OpenFails
  BY <1>1 DEF Threads!OpenFails, Threads!flags, ThreadsInv, CompleteIsEnded, WaitedFor, Threads!Closing, Threads!Current
<1>2. CASE Threads!Opened
  BY <1>2 DEF Threads!Opened, Threads!flags, ThreadsInv, CompleteIsEnded, WaitedFor, Threads!Closing, Threads!Current
<1>3. CASE Threads!Cancelled
  BY <1>3 DEF Threads!Cancelled, Threads!flags, ThreadsInv, CompleteIsEnded, WaitedFor, Threads!Closing, Threads!Current
<1>4. CASE Threads!NotRunning
  BY <1>4, CurrentIsThread
    DEF Threads!NotRunning, Threads!flags, ThreadsInv, CompleteIsEnded, WaitedFor, Threads!Closing, Threads!Current
<1>5. CASE Threads!AskToStop
  BY <1>5, CurrentIsThread
    DEF Threads!AskToStop, Threads!flags, ThreadsInv, CompleteIsEnded, WaitedFor, Threads!Closing, Threads!Current
<1>6. CASE Threads!Stopped
  BY <1>6, CurrentIsThread
    DEF Threads!Stopped, Threads!flags, ThreadsInv, CompleteIsEnded, WaitedFor, Threads!Closing, Threads!Current
<1>7. CASE Threads!Freed
  BY <1>7 DEF Threads!Freed, Threads!flags, ThreadsInv, CompleteIsEnded, WaitedFor, Threads!Closing, Threads!Current
<1> QED
  BY <1>1, <1>2, <1>3, <1>4, <1>5, <1>6, <1>7 DEF Threads!Close

(* The invariant is inductive.                                             *)
LEMMA ThreadsStep ==
  ThreadsInv /\ [Threads!Next]_Threads!vars => ThreadsInv'
<1> SUFFICES ASSUME ThreadsInv, [Threads!Next]_Threads!vars PROVE ThreadsInv'
  OBVIOUS
<1>1. CASE UNCHANGED Threads!vars
  BY <1>1 DEF Threads!vars, ThreadsInv, CompleteIsEnded, WaitedFor, Threads!Closing, Threads!Current
<1> QED
  BY <1>1, CaptureKeeps, OpenerKeeps DEF Threads!Next

(* What the capture threads share (v4l2.cpp, ndi.cpp, bluefish.cpp,        *)
(* v210fileinput.cpp) is freed only when each thread that close_device saw *)
(* running has left its loop, however the stores of the flags interleave.  *)
THEOREM FreedInTime == Spec => []FreedWhenAlone
<1>1. ThreadsInv => FreedWhenAlone
  BY DEF ThreadsInv, WaitedFor, FreedWhenAlone, Threads!FreedWhenAlone, Threads!Closing
<1> QED
  BY <1>1, ThreadsInit, ThreadsStep, ModesStart, ModesStep, PTL DEF Spec
-----------------------------------------------------------------------------
(* The SEI messages of the Vega card, for any size of its list.            *)
(* vega_sei_append looks for room before it takes the lock.  As long as    *)
(* one thread alone appends, nobody can fill the list between its look and *)
(* its store (Room), and the list never overruns; with both threads it     *)
(* can, but no message is lost or sent twice.                              *)

SeiTypeOK ==
  /\ sei \in Seq(Nat) /\ stored \in Seq(Nat) /\ sent \in Seq(Nat)
  /\ made \in Nat /\ checked \in [Vega!Appenders -> Nat]

(* Without the timing message only the VANC callback appends, and it has   *)
(* room for the message it is about to store.                              *)
Room ==
  ~timing =>
    /\ capture # "timing" /\ checked["capture"] = 0
    /\ Len(sei) <= MaxSei
    /\ checked["vanc"] # 0 => Len(sei) < MaxSei

SeiInv == Vega!ConstantsAreSound /\ SeiTypeOK /\ Vega!SeiOnce /\ Room
-----------------------------------------------------------------------------
(* The invariant holds at first.                                           *)
LEMMA SeiInit ==
  Vega!Init => SeiInv
<1> SUFFICES ASSUME Vega!Init PROVE SeiInv
  OBVIOUS
<1>0. Vega!ConstantsAreSound
  BY InputsAssumption DEF ConstantsAreSound
<1>1. /\ sei = <<>> /\ stored = <<>> /\ sent = <<>> /\ made = 0 /\ capture = "idle"
      /\ checked = [a \in Vega!Appenders |-> 0] /\ "vanc" \in Vega!Appenders /\ "capture" \in Vega!Appenders
  BY DEF Vega!Init, Vega!Appenders
<1>2. <<>> \in Seq(Nat) /\ Len(<<>>) = 0
  OBVIOUS
<1>3. <<>> \o <<>> = <<>>
  BY <1>2, ConcatEmptySeq
<1>4. MaxSei \in Nat
  BY <1>0 DEF Vega!ConstantsAreSound
<1> QED
  BY <1>0, <1>1, <1>2, <1>3, <1>4 DEF SeiInv, SeiTypeOK, Vega!SeiOnce, Room

(* A look for room: a message is made, and is to be stored if there is.    *)
LEMMA CheckKeeps ==
  ASSUME SeiInv, NEW a \in Vega!Appenders, Vega!SeiCheck(a), timing' = timing,
         capture' \in {capture, "taking"}, a = "capture" => timing
  PROVE  SeiInv'
<1>1. /\ UNCHANGED <<sei, stored, sent>> /\ made' \in Nat /\ checked' \in [Vega!Appenders -> Nat]
      /\ \A b \in Vega!Appenders \ {a} : checked'[b] = checked[b]
      /\ checked'[a] # 0 => Len(sei) # MaxSei
  BY DEF Vega!SeiCheck, SeiInv, SeiTypeOK
<1>2. "vanc" \in Vega!Appenders /\ "capture" \in Vega!Appenders /\ "vanc" # "capture"
      /\ a \in {"vanc", "capture"}
  BY DEF Vega!Appenders
<1>3. Len(sei) \in Nat /\ MaxSei \in Nat
  BY LenProperties DEF SeiInv, SeiTypeOK, Vega!ConstantsAreSound
<1>4. Room'
  BY <1>1, <1>2, <1>3 DEF SeiInv, Room
<1> QED
  BY <1>1, <1>4 DEF SeiInv, SeiTypeOK, Vega!SeiOnce

(* The store: the message is the last of the list.                         *)
LEMMA StoreKeeps ==
  ASSUME SeiInv, NEW a \in Vega!Appenders, Vega!SeiStore(a), timing' = timing,
         capture' \in {capture, "taking"}
  PROVE  SeiInv'
<1>1. /\ checked[a] \in Nat /\ checked[a] # 0
      /\ sei' = Append(sei, checked[a]) /\ stored' = Append(stored, checked[a])
      /\ UNCHANGED <<made, sent>>
      /\ checked' \in [Vega!Appenders -> Nat] /\ checked'[a] = 0
      /\ \A b \in Vega!Appenders \ {a} : checked'[b] = checked[b]
  BY DEF Vega!SeiStore, SeiInv, SeiTypeOK
<1>2. sei \in Seq(Nat) /\ sent \in Seq(Nat) /\ stored \in Seq(Nat) /\ sent \o sei = stored
  BY DEF SeiInv, SeiTypeOK, Vega!SeiOnce
<1>3. sent \o Append(sei, checked[a]) = Append(sent \o sei, checked[a])
  <2>1. \A w, t \in Seq(Nat) : \A e \in Nat : w \o Append(t, e) = Append(w \o t, e)
    BY AppendAfter
  <2> QED
    BY <1>1, <1>2, <2>1
<1>4. /\ sei' \in Seq(Nat) /\ stored' \in Seq(Nat) /\ Len(sei') = Len(sei) + 1
      /\ Len(sei) \in Nat
  BY <1>1, <1>2, AppendProperties, LenProperties
<1>5. Room'
  <2>1. "vanc" \in Vega!Appenders /\ "capture" \in Vega!Appenders /\ a \in {"vanc", "capture"}
    BY DEF Vega!Appenders
  <2>2. MaxSei \in Nat
    BY DEF SeiInv, Vega!ConstantsAreSound
  <2> QED
    BY <1>1, <1>4, <2>1, <2>2 DEF SeiInv, Room
<1> QED
  BY <1>1, <1>2, <1>3, <1>4, <1>5 DEF SeiInv, SeiTypeOK, Vega!SeiOnce

(* The capture callback takes all messages.                                *)
LEMMA TakeKeeps ==
  ASSUME SeiInv, Vega!PushImage
  PROVE  SeiInv'
<1>1. /\ sent' = sent \o sei /\ sei' = <<>> /\ UNCHANGED <<timing, checked, made, stored>>
      /\ capture' = "idle"
  BY DEF Vega!PushImage, Vega!SeiTake, Vega!config
<1>2. sei \in Seq(Nat) /\ sent \in Seq(Nat) /\ stored \in Seq(Nat) /\ sent \o sei = stored
  BY DEF SeiInv, SeiTypeOK, Vega!SeiOnce
<1>3. stored \o <<>> = stored
  BY <1>2, ConcatEmptySeq
<1>4. <<>> \in Seq(Nat) /\ Len(<<>>) = 0
  OBVIOUS
<1>5. MaxSei \in Nat \ {0}
  BY DEF SeiInv, Vega!ConstantsAreSound
<1> QED
  BY <1>1, <1>2, <1>3, <1>4, <1>5 DEF SeiInv, SeiTypeOK, Vega!SeiOnce, Room

(* The invariant is inductive.                                             *)
LEMMA SeiStep ==
  SeiInv /\ [Vega!Next]_Vega!vars => SeiInv'
<1> SUFFICES ASSUME SeiInv, [Vega!Next]_Vega!vars PROVE SeiInv'
  OBVIOUS
<1>0. "vanc" \in Vega!Appenders /\ "capture" \in Vega!Appenders /\ "capture" # "vanc"
  BY DEF Vega!Appenders
<1>1. CASE Vega!VancMessage
  BY <1>0, <1>1, CheckKeeps DEF Vega!VancMessage, Vega!config
<1>2. CASE Vega!VancStores
  BY <1>0, <1>2, StoreKeeps DEF Vega!VancStores, Vega!config
<1>3. CASE Vega!AppendTiming
  <2>1. timing' = timing /\ timing /\ capture' \in {capture, "taking"}
    BY <1>3 DEF Vega!AppendTiming, Vega!config, SeiInv, Room
  <2> QED
    BY <1>0, <1>3, <2>1, CheckKeeps, StoreKeeps DEF Vega!AppendTiming
<1>4. CASE Vega!PushImage
  BY <1>4, TakeKeeps
<1>5. CASE Vega!FormatChanges \/ Vega!CompressedPicture \/ Vega!CloseDevice \/ UNCHANGED Vega!vars
  <2>1. UNCHANGED <<timing, sei, checked, made, stored, sent, capture>>
    BY <1>5 DEF Vega!FormatChanges, Vega!CompressedPicture, Vega!CloseDevice, Vega!vars, Vega!config, Vega!queue
  <2> QED
    BY <2>1 DEF SeiInv, SeiTypeOK, Vega!SeiOnce, Room
<1>6. CASE Vega!Captured
  <2>1. UNCHANGED <<timing, sei, checked, made, stored, sent>>
        /\ capture' = IF timing THEN "timing" ELSE "taking"
    BY <1>6 DEF Vega!Captured, Vega!config, Vega!queue
  <2> QED
    BY <2>1 DEF SeiInv, SeiTypeOK, Vega!SeiOnce, Room
<1> QED
  BY <1>1, <1>2, <1>3, <1>4, <1>5, <1>6 DEF Vega!Next

(* Each SEI message that was stored (vega-3311-sei.cpp) goes out once and  *)
(* in order, whichever of the two callbacks stores and takes; the list is  *)
(* overrun only when both append.                                          *)
THEOREM MessagesGoOutOnce == Spec => []SeiOnce
<1>1. SeiInv => SeiOnce
  <2> SUFFICES ASSUME SeiInv PROVE Vega!OverrunNeedsTwo
    BY DEF SeiOnce, SeiInv
  <2>1. Len(sei) \in Nat /\ MaxSei \in Nat
    BY LenProperties DEF SeiInv, SeiTypeOK, Vega!ConstantsAreSound
  <2> QED
    BY <2>1 DEF SeiInv, Room, Vega!OverrunNeedsTwo
<1> QED
  BY <1>1, SeiInit, SeiStep, ModesStart, ModesStep, PTL DEF Spec
-----------------------------------------------------------------------------
(* The ring of the Bluefish card, of four buffers or more.  Shape is where *)
(* the card stands to what the thread reads next: in step, or one, or two  *)
(* and more, frames without signal behind, or catching up; out of step the *)
(* buffers hold ever later frames in the order they are read.              *)

InRing(b) == b \in 0..Buffers - 1

Following(b) == (b + 1) % Buffers

InStepWithCard == filling = done /\ requested = capturing

OneBehind ==
  filling = capturing /\ requested = schedule /\ content[done] > picture

ManyBehind ==
  /\ filling = schedule /\ requested = schedule
  /\ content[done] > picture /\ content[capturing] > content[done]

CatchingUp ==
  filling = capturing /\ requested = capturing /\ content[done] > picture

LastThree ==
  interrupts \in signal /\ interrupts - 1 \in signal /\ interrupts - 2 \in signal

RingInv ==
  /\ interrupts \in Nat /\ picture \in 0..interrupts
  /\ signal \subseteq 1..interrupts
  /\ content \in [0..Buffers - 1 -> 0..interrupts]
  /\ InRing(done) /\ capturing = Following(done) /\ schedule = Following(capturing)
  /\ InStepWithCard \/ OneBehind \/ ManyBehind \/ CatchingUp
  /\ signal = 1..interrupts => InStepWithCard
  /\ interrupts \in signal => requested = capturing
  /\ (interrupts \in signal /\ interrupts - 1 \in signal) => InStepWithCard
  /\ (ringUp /\ interrupts > 0 /\ (signal = 1..interrupts \/ LastThree))
       => picture = interrupts

(* The buffers that follow one another are different.                      *)
LEMMA RingFollows ==
  ASSUME NEW b, InRing(b)
  PROVE  /\ InRing(Following(b)) /\ InRing(Following(Following(b)))
         /\ Following(b) # b /\ Following(Following(b)) # b
         /\ Following(Following(b)) # Following(b)
<1>1. Buffers \in Nat /\ Buffers >= 4
  BY InputsAssumption DEF ConstantsAreSound, Bluefish!ConstantsAreSound
<1>2. ASSUME NEW c, InRing(c)
      PROVE  Following(c) = IF c = Buffers - 1 THEN 0 ELSE c + 1
  BY <1>1, <1>2 DEF InRing, Following
<1>3. InRing(Following(b))
  BY <1>1, <1>2 DEF InRing
<1> QED
  BY <1>1, <1>2, <1>3 DEF InRing

LEMMA RingInit ==
  Bluefish!Init => RingInv
<1> SUFFICES ASSUME Bluefish!Init PROVE RingInv
  OBVIOUS
<1>1. Buffers \in Nat /\ Buffers >= 4
  BY InputsAssumption DEF ConstantsAreSound, Bluefish!ConstantsAreSound
<1>2. (0 + 1) % Buffers = 1 /\ (1 + 1) % Buffers = 2 /\ 2 % Buffers = 2
  BY <1>1
<1> QED
  BY <1>1, <1>2 DEF Bluefish!Init, RingInv, InRing, Following, InStepWithCard

(* An interrupt of the card, with a signal or without.                     *)
LEMMA RingStep ==
  RingInv /\ [Bluefish!Next]_(Bluefish!vars) => RingInv'
<1> SUFFICES ASSUME RingInv, [Bluefish!Next]_(Bluefish!vars) PROVE RingInv'
  OBVIOUS
<1> USE DEF RingInv
<1>1. /\ InRing(capturing) /\ InRing(schedule)
      /\ done # capturing /\ done # schedule /\ capturing # schedule
      /\ InRing(filling) /\ InRing(requested)
  BY RingFollows DEF InStepWithCard, OneBehind, ManyBehind, CatchingUp
<1>2. CASE UNCHANGED Bluefish!vars
  BY <1>2 DEF Bluefish!vars, InRing, Following, InStepWithCard, OneBehind, ManyBehind,
              CatchingUp, LastThree
<1>a. /\ Bluefish!Interrupt(TRUE) => signal' = signal \cup {interrupts'}
      /\ Bluefish!Interrupt(FALSE) => signal' = signal
  BY DEF Bluefish!Interrupt
<1>3. ASSUME Bluefish!Interrupt(TRUE) \/ Bluefish!Interrupt(FALSE)
      PROVE  /\ ringUp /\ interrupts' = interrupts + 1
             /\ interrupts' \notin signal /\ picture \in 0..interrupts'
             /\ filling' = requested /\ requested' = schedule
             /\ content' \in [0..Buffers - 1 -> 0..interrupts']
             /\ content'[filling] = interrupts'
             /\ \A b \in 0..Buffers - 1 : b # filling => content'[b] = content[b]
             /\ signal' \subseteq 1..interrupts' /\ interrupts' \in Nat
             /\ picture < interrupts' /\ content[done] < interrupts'
             /\ content[capturing] < interrupts'
  <2>1. /\ ringUp /\ interrupts' = interrupts + 1
        /\ filling' = requested /\ requested' = schedule
        /\ content' = [content EXCEPT ![filling] = interrupts']
    BY <1>3 DEF Bluefish!Interrupt
  <2>2. /\ content' \in [0..Buffers - 1 -> 0..interrupts']
        /\ content'[filling] = interrupts'
        /\ \A b \in 0..Buffers - 1 : b # filling => content'[b] = content[b]
    BY <1>1, <2>1 DEF InRing
  <2>3. content[done] \in 0..interrupts /\ content[capturing] \in 0..interrupts
    BY <1>1 DEF InRing
  <2>4. signal' = signal \/ signal' = signal \cup {interrupts'}
    BY <1>3, <1>a
  <2>5. interrupts' \notin signal /\ signal' \subseteq 1..interrupts'
        /\ picture \in 0..interrupts' /\ picture < interrupts' /\ interrupts' \in Nat
    <3>1. interrupts' \in Nat /\ picture \in 0..interrupts' /\ picture < interrupts'
      BY <2>1
    <3>2. interrupts' \notin signal /\ signal \subseteq 1..interrupts'
          /\ interrupts' \in 1..interrupts'
      BY <2>1
    <3> QED
      BY <2>4, <3>1, <3>2
  <2>6. content[done] < interrupts' /\ content[capturing] < interrupts'
    BY <2>1, <2>3
  <2> QED
    BY <2>1, <2>2, <2>5, <2>6
<1>4. CASE Bluefish!NoSignal
  <2>1. Bluefish!Interrupt(FALSE) /\ UNCHANGED <<schedule, capturing, done, picture, ringUp>>
    BY <1>4 DEF Bluefish!NoSignal
  <2>2. interrupts' \notin signal' /\ signal' # 1..interrupts'
    <3>1. interrupts' \notin signal /\ signal' = signal /\ interrupts' \in 1..interrupts'
      BY <1>3, <1>a, <2>1
    <3> QED
      BY <3>1
  <2>3. content'[done] > picture /\ (filling # done => content'[done] = content[done])
        /\ (filling # capturing => content'[capturing] = content[capturing])
    BY <1>1, <1>3, <2>1 DEF InRing, InStepWithCard, OneBehind, ManyBehind, CatchingUp
  <2>4. (OneBehind \/ ManyBehind)'
    <3>1. CASE InStepWithCard \/ CatchingUp
      BY <1>3, <2>1, <2>3, <3>1 DEF InStepWithCard, CatchingUp, OneBehind
    <3>2. CASE OneBehind
      BY <1>1, <1>3, <2>1, <2>3, <3>2 DEF OneBehind, ManyBehind
    <3>3. CASE ManyBehind
      BY <1>1, <1>3, <2>1, <2>3, <3>3 DEF ManyBehind
    <3> QED
      BY <3>1, <3>2, <3>3
  <2>5. picture' \in 0..interrupts'
    BY <1>3, <2>1
  <2> QED
    BY <1>3, <2>1, <2>2, <2>4, <2>5 DEF InRing, Following, LastThree
<1>5. CASE Bluefish!Deliver \/ Bluefish!Broken
  <2>1. /\ Bluefish!Interrupt(TRUE)
        /\ done' = capturing /\ capturing' = schedule /\ schedule' = Following(schedule)
        /\ \/ picture' = content'[done] /\ ringUp' = ringUp
           \/ picture' = picture /\ ringUp' = FALSE
    BY <1>5 DEF Bluefish!Deliver, Bluefish!Broken, Bluefish!Rotate, Following
  <2>2. /\ filling # done => content'[done] = content[done]
        /\ filling # capturing => content'[capturing] = content[capturing]
        /\ content'[filling] = interrupts'
    BY <1>1, <1>3, <2>1 DEF InRing
  <2>3. picture' \in 0..interrupts'
    <3>1. content'[done] \in 0..interrupts'
      BY <1>3, <2>1 DEF InRing
    <3>2. picture \in 0..interrupts'
      BY <1>3, <2>1
    <3> QED
      BY <2>1, <3>1, <3>2
  <2>s. /\ signal' = signal \cup {interrupts'} /\ interrupts' = interrupts + 1
        /\ interrupts' - 1 = interrupts /\ interrupts' - 2 = interrupts - 1
        /\ interrupts' # interrupts /\ interrupts' # interrupts - 1
    BY <1>3, <1>a, <2>1
  <2>4. CASE InStepWithCard
    <3>1. InStepWithCard' /\ (picture' = interrupts' \/ ~ringUp')
      BY <1>3, <2>1, <2>2, <2>4 DEF InStepWithCard
    <3> QED
      BY <1>1, <1>3, <2>1, <2>3, <3>1 DEF InStepWithCard, Following
  <2>5. CASE ~InStepWithCard
    <3>1. ~(interrupts \in signal /\ interrupts - 1 \in signal) /\ signal # 1..interrupts
      BY <2>5
    <3>2. ~LastThree' /\ signal' # 1..interrupts'
      <4>1. ~LastThree'
        BY <2>s, <3>1 DEF LastThree
      <4>2. PICK n \in 1..interrupts : n \notin signal
        BY <3>1
      <4>3. n \in 1..interrupts' /\ n \notin signal'
        BY <2>s, <4>2
      <4> QED
        BY <4>1, <4>3
    <3>3. CASE CatchingUp
      <4>1. InStepWithCard'
        BY <1>3, <2>1, <3>3 DEF CatchingUp, InStepWithCard
      <4> QED
        BY <1>1, <1>3, <2>1, <2>3, <3>2, <4>1 DEF InStepWithCard
    <3>4. CASE OneBehind \/ ManyBehind
      <4>1. requested # capturing
        BY <1>1, <3>4 DEF OneBehind, ManyBehind
      <4>2. interrupts \notin signal
        BY <4>1
      <4>3. interrupts' - 1 \notin signal'
        BY <2>s, <4>2
      <4>4. CatchingUp'
        <5>1. content'[capturing] > picture'
          <6>1. CASE OneBehind
            BY <1>1, <1>3, <2>1, <2>2, <6>1 DEF OneBehind
          <6>2. CASE ManyBehind
            <7>1. filling # done /\ filling # capturing
              BY <1>1, <6>2 DEF ManyBehind
            <7>2. content[done] \in Nat /\ content[capturing] \in Nat
              BY <1>1 DEF InRing
            <7>3. picture' = content[done] \/ picture' = picture
              BY <2>1, <2>2, <7>1
            <7>4. content'[capturing] = content[capturing]
              BY <2>2, <7>1
            <7> QED
              BY <6>2, <7>2, <7>3, <7>4 DEF ManyBehind
          <6> QED
            BY <3>4, <6>1, <6>2
        <5> QED
          BY <1>3, <2>1, <3>4, <5>1 DEF CatchingUp, OneBehind, ManyBehind
      <4> QED
        BY <1>1, <1>3, <2>1, <2>3, <3>2, <4>3, <4>4 DEF CatchingUp
    <3> QED
      BY <2>5, <3>3, <3>4
  <2> QED
    BY <2>4, <2>5
<1> QED
  BY <1>2, <1>4, <1>5 DEF Bluefish!Next

LEMMA RingInvariant == Spec => []RingInv
BY RingInit, RingStep, ModesStart, ModesStep, PTL DEF Spec

(* The length of a run is a number, and so many frames had a signal.       *)
LEMMA RunIs ==
  ASSUME RingInv
  PROVE  \E m \in 0..interrupts :
           Bluefish!RunLength = interrupts - m /\ m + 1..interrupts \subseteq signal
<1> DEFINE Gap(m) == m \notin signal /\ m + 1..interrupts \subseteq signal
           G == {k \in Nat : k <= interrupts /\ interrupts - k \notin signal}
<1>1. interrupts \in Nat /\ signal \subseteq 1..interrupts
  BY DEF RingInv
<1>2. CASE interrupts \notin signal
  <2>1. Bluefish!RunLength = interrupts - interrupts
    BY <1>1, <1>2 DEF Bluefish!RunLength
  <2> QED
    BY <1>1, <2>1
<1>3. CASE interrupts \in signal
  <2>1. PICK k \in G : \A l \in G : k <= l
    <3>1. interrupts \in G
      BY <1>1
    <3> QED
      BY <3>1, Smallest
  <2>2. interrupts - k \in 0..interrupts - 1 /\ Gap(interrupts - k)
    <3>1. k # 0
      BY <1>1, <1>3
    <3>2. ASSUME NEW n \in (interrupts - k) + 1..interrupts PROVE n \in signal
      <4>1. interrupts - n \in Nat /\ interrupts - n < k /\ interrupts - (interrupts - n) = n
        BY <1>1
      <4>2. interrupts - n \notin G
        BY <2>1, <4>1
      <4> QED
        BY <1>1, <4>1, <4>2
    <3> QED
      BY <1>1, <3>1, <3>2
  <2> DEFINE g == CHOOSE n \in 0..interrupts - 1 : Gap(n)
  <2>3. g \in 0..interrupts - 1 /\ Gap(g)
    <3> HIDE DEF Gap
    <3> QED
      BY <2>2
  <2>4. Bluefish!RunLength = interrupts - g
    BY <1>3 DEF Bluefish!RunLength
  <2> HIDE DEF g
  <2> QED
    BY <1>1, <2>3, <2>4
<1> QED
  BY <1>2, <1>3

(* No frame is delivered twice or after a later one.                       *)
LEMMA RingAdvances ==
  RingInv /\ [Bluefish!Next]_(Bluefish!vars) => (picture' # picture => picture' > picture)
<1> SUFFICES ASSUME RingInv, Bluefish!Next, picture' # picture PROVE picture' > picture
  BY DEF Bluefish!vars
<1>1. /\ interrupts' = interrupts + 1 /\ picture' = content'[done]
      /\ content' = [content EXCEPT ![filling] = interrupts']
  BY DEF Bluefish!Next, Bluefish!Deliver, Bluefish!Broken, Bluefish!NoSignal,
         Bluefish!Interrupt
<1>2. done # capturing /\ done # schedule /\ InRing(done) /\ picture \in 0..interrupts
      /\ interrupts \in Nat /\ content \in [0..Buffers - 1 -> 0..interrupts]
  BY RingFollows DEF RingInv
<1>3. CASE filling = done
  <2>1. picture' = interrupts'
    BY <1>1, <1>2, <1>3 DEF InRing
  <2> QED
    BY <1>1, <1>2, <2>1
<1>4. CASE filling # done
  <2>1. picture' = content[done]
    BY <1>1, <1>2, <1>4 DEF InRing
  <2> QED
    BY <1>4, <2>1 DEF RingInv, InStepWithCard, OneBehind, ManyBehind, CatchingUp
<1> QED
  BY <1>3, <1>4

(* The frame just captured is the one that is delivered, once the ring has *)
(* gone round after a loss, and frames of the time without a signal leave  *)
(* it within a round (the capture loop of bluefish.cpp).                   *)
THEOREM RingDeliversNewest == Spec => []RingDelivers
<1>1. RingInv => RingDelivers
  <2> SUFFICES ASSUME RingInv PROVE Bluefish!DeliversNewest /\ Bluefish!LossLeavesRing
    BY DEF RingDelivers
  <2>1. Buffers \in Nat /\ Buffers >= 4 /\ interrupts \in Nat
    BY InputsAssumption DEF ConstantsAreSound, Bluefish!ConstantsAreSound, RingInv
  <2>2. PICK m \in 0..interrupts :
          Bluefish!RunLength = interrupts - m /\ m + 1..interrupts \subseteq signal
    BY RunIs
  <2>3. Bluefish!RunLength >= 3 => LastThree
    <3> SUFFICES ASSUME interrupts - m >= 3 PROVE LastThree
      BY <2>2
    <3>1. {interrupts, interrupts - 1, interrupts - 2} \subseteq m + 1..interrupts
      BY <2>1
    <3> QED
      BY <2>2, <3>1 DEF LastThree
  <2>4. Bluefish!RunLength >= Buffers - 1 => Bluefish!RunLength >= 3 /\ interrupts > 0
    BY <2>1, <2>2
  <2>5. picture > 0 => interrupts > 0
    BY <2>1 DEF RingInv
  <2>6. Bluefish!RunLength >= Buffers => Bluefish!RunLength >= Buffers - 1
    BY <2>1, <2>2
  <2> QED
    BY <2>3, <2>4, <2>5, <2>6
      DEF RingInv, LastThree, Bluefish!DeliversNewest, Bluefish!LossLeavesRing
<1> QED
  BY <1>1, RingInvariant, PTL
-----------------------------------------------------------------------------
(* The format of decklink.  In a run the pictures keep the format and the  *)
(* mode that the card had at the first, since a card that showed a picture *)
(* does not follow the signal any more; before the first picture it        *)
(* follows it as long as no other mode was known.                          *)

(* The card captures in the mode it was opened in or in its format, and    *)
(* what was shown in this run is what it captures still.                   *)
ShownAsEnabled ==
  /\ enabled \in {opened, format}
  /\ shown # Format!NoneShown =>
       /\ phase \in {"run", "exited"} /\ frameTime # "never"
       /\ shown.mode = enabled /\ shown.format = format

(* A card that was opened when the mode of the probe was known captures in *)
(* the format that was probed.                                             *)
ProbedFormat ==
  ((phase = "run" \/ shown # Format!NoneShown) /\ before = probed) =>
    /\ format = probed
    /\ frameTime = "never" => known = probed

(* The change to another mode was remembered, or is going to be.           *)
AwayRemembered ==
  (phase = "run" /\ away) =>
    \/ frameTime = "reset"
    \/ known = reported /\ known # Format!Nothing /\ reported # enabled

(* A probe of a steady signal that can be found either has it or waits for *)
(* the card to report it.                                                  *)
ProbeFollows ==
  (phase = "probe" /\ steady /\ cable \in Modes /\ before \in {Format!Nothing, cable}) =>
    /\ enabled = reported
    /\ reported = cable \/ (frameTime = "never" /\ known = before)

(* Audio is counted only where bitstreams are looked for.                  *)
AudioCounted == (phase = "probe" /\ ~bitstream) => heard = Enough + 1

FormatInv ==
  /\ phase \in {"idle", "probe", "run", "exited"} /\ (phase = "run" => probed # Format!Nothing)
  /\ shown.away => shown.dropped \/ shown.injecting
  /\ ShownAsEnabled /\ ProbedFormat /\ AwayRemembered /\ ProbeFollows /\ AudioCounted

LEMMA FormatInit ==
  Format!Init => FormatInv
BY DEF Format!Init, Format!NoneShown, FormatInv, ShownAsEnabled, ProbedFormat,
       AwayRemembered, ProbeFollows, AudioCounted

(* The card reports another mode: what the callback makes of it.           *)
LEMMA FormatChangedKeeps ==
  ASSUME FormatInv, Format!FormatChanged
  PROVE  FormatInv'
<1>1. /\ phase \in {"probe", "run"} /\ cable # Format!Nothing /\ cable # reported
      /\ reported' = cable /\ known' = cable
      /\ UNCHANGED <<phase, option, bitstream, probed, cable, opened, heard, before,
                     found, shown, steady>>
      /\ away' = (away \/ cable # enabled')
  BY DEF Format!FormatChanged, Format!given, FormatInv
<1>2. \/ /\ known \notin {Format!Nothing, cable} /\ frameTime' = "reset"
         /\ UNCHANGED <<enabled, format>>
      \/ /\ known \in {Format!Nothing, cable} /\ frameTime' = frameTime
         /\ frameTime = "never" /\ cable \in Modes /\ enabled' = cable /\ format' = cable
      \/ /\ known \in {Format!Nothing, cable} /\ frameTime' = frameTime
         /\ frameTime # "never" \/ cable \notin Modes
         /\ UNCHANGED <<enabled, format>>
  BY DEF Format!FormatChanged, Format!TimeAfterChange, Format!Taken
<1>3. ShownAsEnabled'
  BY <1>1, <1>2 DEF FormatInv, ShownAsEnabled, Format!NoneShown
<1>4. ProbedFormat'
  <2>1. shown' # Format!NoneShown => phase = "run" /\ frameTime # "never"
    BY <1>1 DEF FormatInv, ShownAsEnabled
  <2> QED
    BY <1>1, <1>2, <2>1 DEF FormatInv, ProbedFormat, Format!NoneShown
<1>5. AwayRemembered'
  BY <1>1, <1>2 DEF FormatInv, AwayRemembered
<1>6. ProbeFollows'
  BY <1>1, <1>2 DEF FormatInv, ProbeFollows
<1>7. AudioCounted'
  BY <1>1 DEF FormatInv, AudioCounted
<1> QED
  BY <1>1, <1>3, <1>4, <1>5, <1>6, <1>7 DEF FormatInv

(* A picture of a run, in the format of the card.                          *)
LEMMA RunPictureKeeps ==
  ASSUME FormatInv, Format!RunPicture
  PROVE  FormatInv'
<1>1. PICK late \in BOOLEAN :
        /\ phase = "run" /\ cable = enabled /\ cable = reported /\ frameTime' = "seen"
        /\ away' = FALSE /\ (frameTime = "reset" => late)
        /\ shown' = [mode |-> enabled, format |-> format, dropped |-> late /\ ~injecting,
                      injecting |-> injecting, away |-> away]
        /\ UNCHANGED <<phase, option, probed, cable, opened, enabled, reported, known,
                       format, before, found, steady>>
  BY DEF Format!RunPicture, Format!HasPicture, Format!given, Format!Late
<1>2. /\ shown'.mode = enabled /\ shown'.format = format /\ shown'.away = away
      /\ shown'.dropped = (late /\ ~injecting) /\ shown'.injecting = injecting
  BY <1>1
<1>3. shown'.away => shown'.dropped \/ shown'.injecting
  <2>1. (away /\ phase = "run" /\ cable = enabled /\ cable = reported) => late
    BY <1>1 DEF FormatInv, AwayRemembered
  <2> QED
    BY <1>1, <1>2, <2>1
<1>4. ShownAsEnabled'
  BY <1>1, <1>2 DEF FormatInv, ShownAsEnabled, Format!NoneShown
<1>5. ProbedFormat' /\ AwayRemembered' /\ ProbeFollows' /\ AudioCounted'
  BY <1>1 DEF FormatInv, ProbedFormat, AwayRemembered, ProbeFollows, AudioCounted
<1> QED
  BY <1>1, <1>3, <1>4, <1>5 DEF FormatInv

LEMMA FormatStep ==
  FormatInv /\ [Format!Next]_(Format!vars) => FormatInv'
<1> SUFFICES ASSUME FormatInv, [Format!Next]_(Format!vars) PROVE FormatInv'
  OBVIOUS
<1> USE DEF Format!card, Format!given, Format!NoneShown
<1>1. CASE UNCHANGED Format!vars
  BY <1>1 DEF Format!vars, FormatInv, ShownAsEnabled, ProbedFormat, AwayRemembered,
              ProbeFollows, AudioCounted
<1>2. CASE Format!SignalChanges
  BY <1>2 DEF Format!SignalChanges, FormatInv, ShownAsEnabled, ProbedFormat,
              AwayRemembered, ProbeFollows, AudioCounted
<1>3. CASE Format!Probe
  BY <1>3 DEF Format!Probe, Format!OpenCard, FormatInv, ShownAsEnabled, ProbedFormat,
              AwayRemembered, ProbeFollows, AudioCounted
<1>4. CASE Format!FormatChanged
  BY <1>4, FormatChangedKeeps
<1>5. CASE Format!ProbePicture
  BY <1>5 DEF Format!ProbePicture, Format!HasPicture, FormatInv, ShownAsEnabled,
              ProbedFormat, AwayRemembered, ProbeFollows, AudioCounted
<1>6. CASE Format!RunPicture
  BY <1>6, RunPictureKeeps
<1>7. CASE Format!ProbeSucceeds \/ Format!ProbeFails
  BY <1>7 DEF Format!ProbeSucceeds, Format!ProbeFails, FormatInv, ShownAsEnabled,
              ProbedFormat, AwayRemembered, ProbeFollows, AudioCounted
<1>8. CASE Format!Start
  BY <1>8 DEF Format!Start, Format!OpenCard, FormatInv, ShownAsEnabled, ProbedFormat,
              AwayRemembered, ProbeFollows, AudioCounted
<1>9. CASE Format!Stop
  BY <1>9 DEF Format!Stop, FormatInv, ShownAsEnabled, ProbedFormat, AwayRemembered,
              ProbeFollows, AudioCounted
<1>10. CASE Format!SetInjection \/ Format!ProbeAudio
  BY <1>10 DEF Format!SetInjection, Format!ProbeAudio, FormatInv, ShownAsEnabled,
               ProbedFormat, AwayRemembered, ProbeFollows, AudioCounted
<1>11. CASE Format!ExitOnLoss
  BY <1>11 DEF Format!ExitOnLoss, FormatInv, ShownAsEnabled, ProbedFormat, AwayRemembered,
               ProbeFollows, AudioCounted
<1> QED
  BY <1>1, <1>2, <1>3, <1>4, <1>5, <1>6, <1>7, <1>8, <1>9, <1>10, <1>11 DEF Format!Next

LEMMA FormatInvariant == Spec => []FormatInv
BY FormatInit, FormatStep, ModesStart, ModesStep, PTL DEF Spec

(* Pictures have the format that was probed, when its mode was the one     *)
(* known, and those after another signal come with a drop, unless frames   *)
(* are injected then (VideoInputFormatChanged and the callback of          *)
(* decklink.cpp).                                                          *)
THEOREM PicturesHaveFormat == Spec => []FormatAsProbed
<1>1. FormatInv => FormatAsProbed
  BY DEF FormatInv, ShownAsEnabled, ProbedFormat, FormatAsProbed, Format!PicturesAsProbed,
         Format!ChangeIsDropped
<1> QED
  BY <1>1, FormatInvariant, PTL

(* A probe of a steady signal only fails when the static still has another *)
(* mode, or for want of audio where bitstreams are looked for; and a run   *)
(* keeps the format and the mode of its first picture.                     *)
THEOREM SteadySignalFound == Spec => ProbeFinds
<1>1. FormatInv /\ FormatInv' /\ [Format!Next]_(Format!vars) =>
        ((phase = "probe" /\ phase' = "idle" /\ ~found) =>
           \/ ~steady \/ cable \notin Modes \/ before \notin {Format!Nothing, cable}
           \/ bitstream /\ heard <= Enough)
  <2> SUFFICES ASSUME FormatInv, Format!Next, phase = "probe", phase' = "idle", ~found
               PROVE  \/ ~steady \/ cable \notin Modes
                      \/ before \notin {Format!Nothing, cable}
                      \/ bitstream /\ heard <= Enough
    BY DEF Format!vars
  <2>1. /\ cable \in {Format!Nothing, reported}
        /\ (cable = enabled /\ cable = reported) => heard <= Enough
    BY DEF Format!Next, Format!SignalChanges, Format!Probe, Format!FormatChanged,
           Format!ProbePicture, Format!RunPicture, Format!ProbeSucceeds, Format!SetInjection,
           Format!ProbeAudio, Format!ExitOnLoss, Format!ProbeFails, Format!HasPicture,
           Format!Start, Format!Stop
  <2>2. Format!Nothing \notin Modes /\ Enough \in Nat
    BY InputsAssumption DEF ConstantsAreSound, Format!ConstantsAreSound
  <2>3. heard <= Enough => bitstream
    BY <2>2 DEF FormatInv, AudioCounted
  <2> QED
    BY <2>1, <2>2, <2>3 DEF FormatInv, ProbeFollows
<1>2. FormatInv /\ FormatInv' /\ [Format!Next]_(Format!vars) =>
        ((shown # Format!NoneShown /\ shown' # Format!NoneShown)
           => shown'.mode = shown.mode /\ shown'.format = shown.format)
  <2> SUFFICES ASSUME FormatInv, Format!Next,
                      shown # Format!NoneShown, shown' # Format!NoneShown
               PROVE  shown'.mode = shown.mode /\ shown'.format = shown.format
    BY DEF Format!vars
  <2>1. \/ shown' = shown \/ shown' = Format!NoneShown
        \/ \E late \in BOOLEAN :
             shown' = [mode |-> enabled, format |-> format, dropped |-> late /\ ~injecting,
                       injecting |-> injecting, away |-> away]
    BY DEF Format!Next, Format!SignalChanges, Format!Probe, Format!FormatChanged,
           Format!ProbePicture, Format!RunPicture, Format!ProbeSucceeds, Format!SetInjection,
           Format!ProbeAudio, Format!ExitOnLoss, Format!ProbeFails, Format!Start, Format!Stop
  <2> QED
    BY <2>1 DEF FormatInv, ShownAsEnabled
<1> QED
  BY <1>1, <1>2, FormatInvariant, ModesStep, PTL
    DEF Spec, ProbeFinds, Format!ProbeFinds, Format!FormatFixed
-----------------------------------------------------------------------------
(* The times of the Vega card, for any width of its clock.  The offset     *)
(* that CompressedPicture adds up has lost one tick for each wrap of the   *)
(* clock of the pictures in coding order.                                  *)

(* A clock that ticks less than its width wraps when it seems to go back.  *)
LEMMA ClockWraps ==
  ASSUME NEW w \in Nat \ {0}, NEW n \in Nat, NEW d \in 0..w - 1
  PROVE  (n + d) \div w = IF (n + d) % w < n % w THEN (n \div w) + 1 ELSE n \div w
<1> DEFINE q == n \div w
           r == n % w
<1>1. q \in Nat /\ r \in 0..w - 1 /\ n = w * q + r
  BY Division
<1> HIDE DEF q, r
<1>2. CASE r + d < w
  <2>1. n + d = w * q + (r + d) /\ r + d \in 0..w - 1
    BY <1>1, <1>2
  <2>2. (n + d) \div w = q /\ (n + d) % w = r + d
    BY <1>1, <2>1, DivisionIs
  <2> QED
    BY <1>1, <2>2 DEF q, r
<1>3. CASE r + d >= w
  <2>1. n + d = w * (q + 1) + (r + d - w) /\ r + d - w \in 0..w - 1 /\ q + 1 \in Nat
    BY <1>1, <1>3
  <2>2. (n + d) \div w = q + 1 /\ (n + d) % w = r + d - w
    BY <2>1, DivisionIs
  <2> QED
    BY <1>1, <2>2 DEF q, r
<1> QED
  BY <1>1, <1>2, <1>3

(* How often the clock had wrapped at the picture coded last.              *)
Wraps == Vega!Clock(coded - 1) \div Wrap

CodedInv ==
  /\ pattern \in Patterns /\ coded \in Nat /\ pictures \in Nat
  /\ coded = 0 => dtsOffset = 0 /\ lastDts = 0
  /\ coded > 0 =>
       /\ dtsOffset = (Wrap - 1) * Wraps
       /\ lastDts = Vega!Clock(coded - 1) % Wrap
       /\ true \in Nat /\ corrected = dtsOffset + (true % Wrap)

LEMMA CodedInit ==
  Vega!Init => CodedInv
BY DEF Vega!Init, CodedInv

LEMMA CompressedPictureKeeps ==
  ASSUME CodedInv, Vega!CompressedPicture
  PROVE  CodedInv'
<1> DEFINE next == coded + pattern[(coded % Len(pattern)) + 1]
           dts == Vega!Clock(coded) % Wrap
<1>1. /\ Step \in Nat \ {0} /\ FirstTime \in Nat /\ Wrap \in Nat \ {0} /\ Step < Wrap
      /\ FirstTime < Wrap /\ Patterns \subseteq Seq(Nat) \ {<<>>}
  BY InputsAssumption DEF ConstantsAreSound, Vega!ConstantsAreSound
<1>2. coded \in Nat /\ next \in Nat
  <2>1. pattern \in Seq(Nat) /\ Len(pattern) \in Nat \ {0} /\ coded \in Nat
    BY <1>1, LenProperties, EmptySeq DEF CodedInv
  <2>2. (coded % Len(pattern)) + 1 \in 1..Len(pattern)
    BY <2>1
  <2>3. pattern[(coded % Len(pattern)) + 1] \in Nat
    BY <2>1, <2>2, ElementOfSeq
  <2> QED
    BY <2>1, <2>3
<1>3. /\ coded' = coded + 1
      /\ dtsOffset' = IF dts < lastDts THEN dtsOffset + (Wrap - 1) ELSE dtsOffset
      /\ lastDts' = dts
      /\ true' = Vega!Clock(next) /\ corrected' = dtsOffset' + (Vega!Clock(next) % Wrap)
      /\ UNCHANGED <<pattern, pictures>>
  BY DEF Vega!CompressedPicture, Vega!Wrapped, Vega!Correct, Vega!config
<1>4. \A n \in Nat : Vega!Clock(n) \in Nat /\ Vega!Clock(n + 1) = Vega!Clock(n) + Step
  BY <1>1 DEF Vega!Clock
<1>5. coded' > 0 /\ Wraps' = Vega!Clock(coded) \div Wrap /\ coded' - 1 = coded
  BY <1>2, <1>3 DEF Wraps, Vega!Clock
<1>6. dtsOffset' = (Wrap - 1) * (Vega!Clock(coded) \div Wrap)
  <2>1. CASE coded = 0
    <3>1. Vega!Clock(coded) = Wrap * 0 + FirstTime /\ FirstTime \in 0..Wrap - 1
      BY <1>1, <2>1 DEF Vega!Clock
    <3>2. Vega!Clock(coded) \div Wrap = 0 /\ dts = FirstTime
      BY <1>1, <3>1, DivisionIs
    <3> QED
      BY <1>1, <1>3, <2>1, <3>2 DEF CodedInv
  <2>2. CASE coded > 0
    <3> DEFINE c == Vega!Clock(coded - 1)
    <3>1. c \in Nat /\ Vega!Clock(coded) = c + Step
      <4>1. coded - 1 \in Nat /\ (coded - 1) + 1 = coded
        BY <1>2, <2>2
      <4> QED
        BY <1>4, <4>1
    <3>2. Step \in 0..Wrap - 1 /\ Wrap \in Nat \ {0}
      BY <1>1
    <3>3. /\ dtsOffset = (Wrap - 1) * (c \div Wrap) /\ lastDts = c % Wrap
      BY <2>2 DEF CodedInv, Wraps
    <3> HIDE DEF c
    <3>4. (c + Step) \div Wrap = IF (c + Step) % Wrap < c % Wrap
                                 THEN (c \div Wrap) + 1 ELSE c \div Wrap
      BY <3>1, <3>2, ClockWraps
    <3>5. c \div Wrap \in Nat
      BY <3>1, <3>2, Division
    <3>6. dts = (c + Step) % Wrap
      BY <3>1, Zenon
    <3> HIDE DEF dts
    <3>7. CASE dts < lastDts
      <4> DEFINE q == c \div Wrap
      <4>1. dtsOffset' = (Wrap - 1) * q + (Wrap - 1)
        BY <1>3, <3>3, <3>7
      <4>2. (c + Step) \div Wrap = q + 1
        BY <3>3, <3>4, <3>6, <3>7
      <4>3. q \in Nat
        BY <3>5
      <4> HIDE DEF q
      <4>4. dtsOffset' = (Wrap - 1) * (q + 1)
        BY <4>1, <4>3, <3>2
      <4> QED
        BY <4>2, <4>4, <3>1
    <3>8. CASE ~(dts < lastDts)
      BY <1>3, <3>1, <3>2, <3>3, <3>4, <3>5, <3>6, <3>8
    <3> QED
      BY <3>7, <3>8
  <2> QED
    BY <1>2, <2>1, <2>2
<1>7. true' \in Nat
  BY <1>2, <1>3, <1>4
<1>8. coded' \in Nat /\ coded' # 0
  BY <1>2, <1>3
<1>9. lastDts' = Vega!Clock(coded' - 1) % Wrap /\ corrected' = dtsOffset' + (true' % Wrap)
  BY <1>3, <1>5
<1> HIDE DEF next, dts
<1> QED
  BY <1>3, <1>5, <1>6, <1>7, <1>8, <1>9 DEF CodedInv, Vega!Clock

LEMMA CodedStep ==
  CodedInv /\ [Vega!Next]_(Vega!vars) => CodedInv'
<1> SUFFICES ASSUME CodedInv, [Vega!Next]_(Vega!vars) PROVE CodedInv'
  OBVIOUS
<1>1. CASE Vega!CompressedPicture
  BY <1>1, CompressedPictureKeeps
<1>2. CASE ~Vega!CompressedPicture
  <2>1. UNCHANGED <<pattern, coded, dtsOffset, lastDts, true, corrected>>
        /\ pictures' \in {pictures, pictures + 1}
    BY <1>2 DEF Vega!Next, Vega!VancMessage, Vega!VancStores, Vega!FormatChanges,
                Vega!Captured, Vega!AppendTiming, Vega!PushImage, Vega!CloseDevice,
                Vega!vars, Vega!config, Vega!times
  <2>2. pictures' \in Nat
    BY <2>1 DEF CodedInv
  <2> QED
    BY <2>1, <2>2 DEF CodedInv, Wraps, Vega!Clock
<1> QED
  BY <1>1, <1>2

LEMMA CodedInvariant == Spec => []CodedInv
BY CodedInit, CodedStep, ModesStart, ModesStep, PTL DEF Spec

LEMMA TimesFollow ==
  ASSUME CodedInv
  PROVE  Vega!TimesFollowClock
<1> SUFFICES ASSUME coded > 0, true \div Wrap = Vega!Clock(coded - 1) \div Wrap
             PROVE  corrected = true - (true \div Wrap)
  BY DEF Vega!TimesFollowClock
<1>1. Wrap \in Nat \ {0} /\ true \in Nat
  BY InputsAssumption DEF ConstantsAreSound, Vega!ConstantsAreSound, CodedInv
<1> DEFINE q == true \div Wrap
           r == true % Wrap
<1>2. q \in Nat /\ r \in 0..Wrap - 1 /\ true = Wrap * q + r
  BY <1>1, Division
<1>3. corrected = (Wrap - 1) * q + r
  BY DEF CodedInv, Wraps
<1> HIDE DEF q, r
<1>4. corrected = true - q
  BY <1>1, <1>2, <1>3
<1> QED
  BY <1>4 DEF q
-----------------------------------------------------------------------------
(* The clocks that inputs make up.  Three parts of the invariant are about *)
(* every input: the last picture has the time before the counter, the      *)
(* counter counts the moments when none was lost, and a time is the        *)
(* distance to the start.  The other three say how each input gets the     *)
(* time of its audio.                                                      *)
Moments == moment - since
VideoTaken == IF "video" \in taken THEN 1 ELSE 0
AudioTaken == IF "audio" \in taken THEN 1 ELSE 0

ClockTypes ==
  /\ kind \in {"ndi", "dektec", "linsys", "v4l2"}
  /\ start \in Nat /\ (kind = "dektec" => start > 0)
  /\ moment \in Nat /\ since \in 0..moment /\ starts \in Nat \ {0}
  /\ (starts = 1 => since = 0)
  /\ base \in Int /\ video.at \in Int /\ audio.at \in Int /\ earlier.at \in Int
  /\ lost \in BOOLEAN /\ truncated \in BOOLEAN /\ reset \in BOOLEAN
  /\ (reset => lost) /\ (truncated => lost /\ kind = "ndi")
  /\ video.at <= moment /\ ("video" \notin taken => video.at < moment)
  /\ audio.at <= moment /\ ("audio" \notin taken => audio.at < moment)

VideoCounts ==
  ~truncated => /\ clockCounter \in Nat
                /\ video.at >= 0 => /\ clockCounter > 0
                                    /\ video.pts = (clockCounter - 1) * Clocks!Frame

VideoInStep ==
  ~lost => /\ clockUp => clockCounter = Moments + VideoTaken
           /\ video.at >= 0 => video.pts = (video.at - since) * Clocks!Frame

AudioInStep ==
  (~lost /\ Clocks!Timed /\ audio.at >= 0) =>
    audio.pts = (audio.at - since) * Clocks!Frame

(* ndi: the counter never runs ahead of the timecode by a frame, so that   *)
(* one set anew after a timeout does not go back.                          *)
NdiInv ==
  (kind = "ndi" /\ ~truncated) =>
    /\ clockCounter = 0 => base = 0 /\ audio.at < 0
    /\ clockCounter > 0 =>
         (clockCounter - 1) * Clocks!Frame
           < Clocks!Timecode * Scale + base + VideoTaken * Clocks!Frame
    /\ audio.at >= 0 => audio.pts = (start + audio.at * Period + base) * Scale
    /\ (~lost /\ clockCounter > 0) => base = 0 - (start + since * Period)

DektecInv ==
  kind = "dektec" =>
    /\ audio.at >= 0 => base # 0 /\ audio.pts = (start + audio.at * Period - base) * Scale
    /\ earlier.at >= 0 =>
         /\ base # 0 /\ earlier.pts = (start + earlier.at * Period - base) * Scale
         /\ earlier.at < since
    /\ (~lost /\ starts = 1) => base = start \/ (base = 0 /\ moment = 0 /\ "audio" \notin taken)

LinsysInv ==
  kind = "linsys" =>
    /\ samples \in Nat /\ (audio.at >= 0 => audio.pts = (samples - 1) * Clocks!Frame)
    /\ clockUp => lastTick = video.at
    /\ (~lost /\ clockUp) => samples = Moments + AudioTaken

ClocksInv ==
  /\ ClockTypes /\ VideoCounts /\ VideoInStep /\ AudioInStep
  /\ NdiInv /\ DektecInv /\ LinsysInv

LEMMA FrameIs ==
  /\ Period \in Nat \ {0} /\ Scale \in Nat \ {0}
  /\ Clocks!Frame \in Nat \ {0} /\ Clocks!Frame = Period * Scale
BY InputsAssumption DEF ConstantsAreSound, Clocks!ConstantsAreSound, Clocks!Frame

(* Products, for the solver.                                               *)
LEMMA Products ==
  ASSUME NEW a \in Int, NEW b \in Int, NEW f \in Nat \ {0}
  PROVE  /\ a * f \in Int /\ (a + 1) * f = a * f + f /\ (a - 1) * f = a * f - f
         /\ (a < b => a * f < b * f) /\ (a <= b => a * f <= b * f)
         /\ 0 * f = 0
OBVIOUS

LEMMA ClocksInit == Clocks!Init => ClocksInv
<1> SUFFICES ASSUME Clocks!Init PROVE ClocksInv
  OBVIOUS
<1>1. start \in Nat /\ kind \in {"ndi", "dektec", "linsys", "v4l2"}
  BY InputsAssumption DEF ConstantsAreSound, Clocks!ConstantsAreSound, Clocks!Init
<1>2. /\ moment = 0 /\ since = 0 /\ starts = 1 /\ taken = {} /\ clockCounter = 0
      /\ samples = 0 /\ base = 0 /\ reset = FALSE /\ video.at = -1 /\ audio.at = -1
      /\ lastTick = -1 /\ lost = FALSE /\ truncated = FALSE /\ earlier.at = -1
      /\ (kind = "dektec" => start > 0)
  BY DEF Clocks!Init, Clocks!Nothing
<1>3. ClockTypes
  <2>1. lost \in BOOLEAN /\ truncated \in BOOLEAN /\ reset \in BOOLEAN
        /\ ~lost /\ ~truncated /\ ~reset
    BY <1>2, Zenon
  <2>2. "video" \notin taken /\ "audio" \notin taken
    BY <1>2
  <2> QED
    BY <1>1, <1>2, <2>1, <2>2 DEF ClockTypes
<1> QED
  BY <1>1, <1>2, <1>3 DEF ClocksInv, VideoCounts, VideoInStep, AudioInStep, NdiInv, DektecInv,
                     LinsysInv, Moments, VideoTaken, AudioTaken

(* The next moment: the timecode goes on by a frame.                       *)
LEMMA MomentKeeps ==
  ASSUME ClocksInv, Clocks!Moment
  PROVE  ClocksInv'
<1>1. /\ moment' = moment + 1 /\ taken' = {}
      /\ lost' = (lost \/ taken # {"video", "audio"})
      /\ UNCHANGED <<kind, start, since, starts, earlier, clockUp, clockCounter, base, reset,
                     video, audio, samples, lastTick, truncated>>
  BY DEF Clocks!Moment, Clocks!linsys
<1>2. ClockTypes /\ ClockTypes'
  BY <1>1 DEF ClocksInv, ClockTypes
<1>3. ~lost' => ~lost /\ VideoTaken = 1 /\ AudioTaken = 1 /\ "audio" \in taken
  BY <1>1 DEF VideoTaken, AudioTaken
<1>4. VideoTaken' = 0 /\ AudioTaken' = 0 /\ Moments' = Moments + 1 /\ Moments \in Nat
  BY <1>1, <1>2 DEF VideoTaken, AudioTaken, Moments, ClockTypes
<1>5. VideoCounts'
  BY <1>1 DEF VideoCounts, ClocksInv
<1>6. VideoInStep'
  BY <1>1, <1>3, <1>4 DEF VideoInStep, ClocksInv
<1>7. AudioInStep'
  BY <1>1, <1>3 DEF AudioInStep, ClocksInv, Clocks!Timed
<1>8. NdiInv'
  <2>1. Clocks!Timecode' * Scale = Clocks!Timecode * Scale + Clocks!Frame
        /\ Clocks!Timecode \in Nat
    BY <1>1, <1>2, FrameIs DEF Clocks!Timecode, ClockTypes
  <2>2. VideoTaken * Clocks!Frame <= Clocks!Frame /\ VideoTaken * Clocks!Frame \in Nat
        /\ VideoTaken' * Clocks!Frame = 0
    BY <1>4, FrameIs DEF VideoTaken
  <2>3. SUFFICES ASSUME kind = "ndi", ~truncated
        PROVE NdiInv'
    BY <1>1 DEF NdiInv
  <2>4. clockCounter \in Nat /\ base \in Int /\ Clocks!Timecode * Scale \in Int
        /\ (clockCounter - 1) * Clocks!Frame \in Int
    BY <2>1, <2>3, <1>2, FrameIs DEF ClocksInv, VideoCounts, ClockTypes
  <2>5. clockCounter > 0 =>
          (clockCounter - 1) * Clocks!Frame
            < Clocks!Timecode' * Scale + base + VideoTaken' * Clocks!Frame
    BY <2>1, <2>2, <2>3, <2>4, FrameIs DEF ClocksInv, NdiInv
  <2> QED
    BY <1>1, <1>3, <2>3, <2>5 DEF ClocksInv, NdiInv, Clocks!Frame
<1>9. DektecInv'
  BY <1>1, <1>2, <1>3 DEF ClocksInv, DektecInv
<1>10. LinsysInv'
  BY <1>1, <1>3, <1>4 DEF ClocksInv, LinsysInv
<1> QED
  BY <1>2, <1>5, <1>6, <1>7, <1>8, <1>9, <1>10 DEF ClocksInv

(* A restart forgets all but the base of dektec.                           *)
LEMMA RestartKeeps ==
  ASSUME ClocksInv, Clocks!Restart
  PROVE  ClocksInv'
<1>1. /\ starts' = starts + 1 /\ moment' = moment + 1 /\ since' = moment + 1
      /\ taken' = {} /\ clockCounter' = 0 /\ samples' = 0
      /\ base' = IF kind = "dektec" THEN base ELSE 0
      /\ reset' = FALSE /\ video'.at = -1 /\ audio'.at = -1 /\ lastTick' = -1
      /\ lost' = FALSE /\ truncated' = FALSE /\ UNCHANGED <<kind, start>>
      /\ earlier' = IF audio.at >= 0 THEN audio ELSE earlier
  BY DEF Clocks!Restart, Clocks!Nothing
<1>2. ClockTypes'
  <2>1. lost' \in BOOLEAN /\ truncated' \in BOOLEAN /\ reset' \in BOOLEAN
        /\ ~lost' /\ ~truncated' /\ ~reset'
    BY <1>1, Zenon
  <2>2. "video" \notin taken' /\ "audio" \notin taken'
    BY <1>1
  <2>3. base' \in Int /\ starts' \in Nat \ {0, 1} /\ moment' \in Nat /\ since' \in 0..moment'
    BY <1>1 DEF ClocksInv, ClockTypes
  <2>4. start' \in Nat /\ kind' \in {"ndi", "dektec", "linsys", "v4l2"}
        /\ (kind' = "dektec" => start' > 0)
    BY <1>1 DEF ClocksInv, ClockTypes
  <2>5. earlier'.at \in Int
    BY <1>1 DEF ClocksInv, ClockTypes
  <2> QED
    BY <1>1, <2>1, <2>2, <2>3, <2>4, <2>5 DEF ClockTypes
<1>3. starts' # 1 /\ VideoTaken' = 0 /\ AudioTaken' = 0 /\ Moments' = 0
  BY <1>1, <1>2 DEF ClocksInv, ClockTypes, VideoTaken, AudioTaken, Moments
<1>4. DektecInv'
  <2> SUFFICES ASSUME kind = "dektec", earlier'.at >= 0
               PROVE  /\ base # 0 /\ earlier'.at < moment + 1
                      /\ earlier'.pts = (start + earlier'.at * Period - base) * Scale
    BY <1>1, <1>3 DEF DektecInv
  <2>1. /\ moment \in Nat /\ since \in Int /\ since <= moment /\ audio.at <= moment
        /\ audio.at \in Int /\ earlier.at \in Int
    BY DEF ClocksInv, ClockTypes
  <2>2. CASE audio.at >= 0
    <3>1. earlier' = audio
      BY <1>1, <2>2
    <3>2. base # 0 /\ audio.pts = (start + audio.at * Period - base) * Scale
      BY <2>2 DEF ClocksInv, DektecInv
    <3> QED
      BY <2>1, <3>1, <3>2
  <2>3. CASE ~(audio.at >= 0)
    <3>1. earlier' = earlier
      BY <1>1, <2>3
    <3>2. /\ base # 0 /\ earlier.pts = (start + earlier.at * Period - base) * Scale
          /\ earlier.at < since
      BY <3>1 DEF ClocksInv, DektecInv
    <3> QED
      BY <2>1, <3>1, <3>2
  <2> QED
    BY <2>2, <2>3
<1> QED
  BY <1>1, <1>2, <1>3, <1>4 DEF ClocksInv, VideoCounts, VideoInStep, AudioInStep, NdiInv,
                                LinsysInv

(* A picture gets the time of the counter, which then goes on.             *)
LEMMA PictureCounts ==
  ASSUME NEW c \in Nat, ClockTypes, ~lost => c = Moments,
         video' = [at |-> moment, pts |-> c * Clocks!Frame], clockCounter' = c + 1,
         "video" \in taken', UNCHANGED <<moment, since, lost>>
  PROVE  VideoCounts' /\ VideoInStep'
<1>1. VideoTaken' = 1 /\ Moments' = Moments /\ Moments = moment - since /\ moment \in Nat
  BY DEF VideoTaken, Moments, ClockTypes
<1>2. video'.at = moment /\ video'.pts = c * Clocks!Frame /\ video'.pts = (clockCounter' - 1) * Clocks!Frame
  OBVIOUS
<1>3. VideoCounts'
  BY <1>1, <1>2 DEF VideoCounts
<1>4. VideoInStep'
  BY <1>1, <1>2 DEF VideoInStep
<1> QED
  BY <1>3, <1>4

(* Rounding up: q frames are enough, and one less is not.                  *)
LEMMA CeilDivIs ==
  ASSUME NEW x \in Nat, NEW f \in Nat \ {0}
  PROVE  /\ Clocks!CeilDiv(x, f) \in Nat
         /\ Clocks!CeilDiv(x, f) * f < x + f
         /\ x <= Clocks!CeilDiv(x, f) * f
<1> DEFINE q == Clocks!CeilDiv(x, f)
           r == (x + f - 1) % f
<1>1. q \in Nat /\ r \in 0..f - 1 /\ x + f - 1 = f * q + r
  BY Division, x + f - 1 \in Nat DEF Clocks!CeilDiv
<1> HIDE DEF q, r
<1>2. q * f = x + f - 1 - r
  BY <1>1
<1> QED
  BY <1>1, <1>2 DEF q

(* ndi, a picture: the counter it gets is at least the one it had.         *)
LEMMA NdiCounter ==
  ASSUME ClocksInv, kind = "ndi", ~truncated, "video" \notin taken,
         NEW q, q = Clocks!CeilDiv(Clocks!Timecode * Scale + Clocks!NdiOffset, Clocks!Frame)
  PROVE  /\ q \in Nat /\ clockCounter <= q
         /\ q * Clocks!Frame < Clocks!Timecode * Scale + Clocks!NdiOffset + Clocks!Frame
         /\ clockCounter * Clocks!Frame
              < Clocks!Timecode * Scale + Clocks!NdiOffset + Clocks!Frame
<1> DEFINE x == Clocks!Timecode * Scale + Clocks!NdiOffset
           f == Clocks!Frame
           k == clockCounter
<1>1. Clocks!Timecode \in Nat /\ Clocks!Timecode * Scale \in Nat
      /\ Clocks!Timecode * Scale >= Clocks!Timecode
  BY FrameIs DEF ClocksInv, ClockTypes, Clocks!Timecode
<1>2. k \in Nat /\ base \in Int /\ f \in Nat \ {0} /\ VideoTaken * f = 0
  BY FrameIs DEF ClocksInv, ClockTypes, VideoCounts, VideoTaken
<1>3. Clocks!NdiOffset = (IF k = 0 THEN 0 - Clocks!Timecode ELSE base)
  BY DEF Clocks!NdiOffset
<1>4. k > 0 => (k - 1) * f < x
  BY <1>2, <1>1, <1>3 DEF ClocksInv, NdiInv
<1>5. q = Clocks!CeilDiv(x, f)
  OBVIOUS
<1>6. x \in Int
  BY <1>1, <1>2, <1>3
<1>7. x \in Nat
  <2>1. CASE k = 0
    BY <1>1, <1>3, <2>1
  <2>2. CASE k > 0
    <3>1. (k - 1) * f >= 0
      BY <1>2, <2>2
    <3> QED
      BY <1>2, <1>4, <1>6, <2>2, <3>1
  <2> QED
    BY <1>2, <2>1, <2>2
<1> HIDE DEF x, f, k
<1>8. q \in Nat /\ q * f < x + f /\ x <= q * f
  BY <1>2, <1>5, <1>7, CeilDivIs
<1>9. k * f < x + f /\ k <= q
  <2>1. CASE k = 0
    BY <1>2, <1>7, <1>8, <2>1
  <2>2. CASE k > 0
    <3>1. (k - 1) * f < x /\ (k - 1) * f = k * f - f /\ k * f \in Int
      BY <1>2, <1>4, <2>2, Products
    <3>2. (k - 1) * f < q * f
      BY <1>2, <1>7, <1>8, <3>1
    <3>3. k - 1 < q
      <4>1. q <= k - 1 => q * f <= (k - 1) * f
        BY <1>2, <1>8, <2>2, Products
      <4> QED
        BY <1>2, <1>8, <3>1, <3>2, <4>1
    <3> QED
      BY <1>2, <1>7, <1>8, <3>1, <3>3
  <2> QED
    BY <1>2, <2>1, <2>2
<1> QED
  BY <1>8, <1>9 DEF x, f, k

LEMMA NdiVideoKeeps ==
  ASSUME ClocksInv, Clocks!NdiVideo
  PROVE  ClocksInv'
<1> DEFINE q == Clocks!CeilDiv(Clocks!Timecode * Scale + Clocks!NdiOffset, Clocks!Frame)
           c == IF reset THEN Clocks!Wrapped(q) ELSE clockCounter
<1>1. /\ kind = "ndi" /\ "video" \notin taken /\ clockUp /\ taken' = taken \cup {"video"}
      /\ base' = Clocks!NdiOffset /\ reset' = FALSE /\ clockCounter' = c + 1
      /\ video' = [at |-> moment, pts |-> c * Clocks!Frame]
      /\ truncated' = (truncated \/ (reset /\ c # q))
      /\ UNCHANGED <<kind, start, moment, since, starts, earlier, clockUp, audio, samples,
                     lastTick, lost>>
  BY DEF Clocks!NdiVideo, Clocks!Captures, Clocks!QueueVideo, Clocks!world, Clocks!linsys
<1>2. "video" \in taken' /\ ("audio" \in taken' <=> "audio" \in taken) /\ video'.at = moment
  BY <1>1
<1>3. ClockTypes /\ ClockTypes'
  <2>1. ClockTypes
    BY DEF ClocksInv
  <2>2. reset' \in BOOLEAN /\ truncated' \in BOOLEAN /\ ~reset' /\ (truncated' => lost)
    BY <1>1, <2>1 DEF ClockTypes
  <2>3. Clocks!NdiOffset \in Int
    BY <2>1, FrameIs DEF Clocks!NdiOffset, Clocks!Timecode, ClockTypes
  <2> QED
    BY <1>1, <1>2, <2>1, <2>2, <2>3 DEF ClockTypes
<1>4. ~truncated' => ~truncated /\ c = (IF reset THEN q ELSE clockCounter)
  BY <1>1
<1>5. ~lost => ~truncated' /\ ~reset
  BY <1>3, <1>1 DEF ClockTypes
<1> HIDE DEF c
<1>6. ASSUME ~truncated'
      PROVE  /\ c \in Nat /\ clockCounter \in Nat /\ q \in Nat
             /\ c * Clocks!Frame < Clocks!Timecode * Scale + Clocks!NdiOffset + Clocks!Frame
  <2>1. clockCounter \in Nat
    BY <1>4, <1>6 DEF ClocksInv, VideoCounts
  <2> QED
    BY <1>1, <1>4, <1>6, <2>1, NdiCounter
<1>7. ~lost => c = Moments
  <2>1. ~lost => clockCounter = Moments + VideoTaken /\ VideoTaken = 0 /\ Moments \in Int
    BY <1>1, <1>3 DEF ClocksInv, VideoInStep, VideoTaken, Moments, ClockTypes
  <2> QED
    BY <1>4, <1>5, <2>1
<1>8. VideoCounts' /\ VideoInStep'
  <2>1. CASE ~truncated'
    <3>1. c \in Nat
      BY <1>6, <2>1
    <3> QED
      BY <1>1, <1>2, <1>3, <1>7, <3>1, PictureCounts
  <2>2. CASE truncated'
    BY <2>2, <1>3 DEF VideoCounts, VideoInStep, ClockTypes
  <2> QED
    BY <2>1, <2>2
<1>9. AudioInStep'
  BY <1>1 DEF ClocksInv, AudioInStep, Clocks!Timed
<1>10. NdiInv'
  <2> SUFFICES ASSUME ~truncated'
               PROVE NdiInv'
    BY DEF NdiInv
  <2>1. /\ clockCounter' = c + 1 /\ c \in Nat /\ Clocks!Timecode' = Clocks!Timecode
        /\ VideoTaken' = 1 /\ clockCounter \in Nat
    BY <1>1, <1>2, <1>6 DEF VideoTaken, Clocks!Timecode
  <2>2. (clockCounter' - 1) * Clocks!Frame
          < Clocks!Timecode' * Scale + base' + VideoTaken' * Clocks!Frame
    <3>1. (clockCounter' - 1) = c /\ VideoTaken' * Clocks!Frame = Clocks!Frame
      BY <2>1, FrameIs
    <3> QED
      BY <1>1, <1>6, <2>1, <3>1
  <2>3. ~truncated /\ clockCounter = 0 => audio.at < 0
    BY <1>1, <1>4 DEF ClocksInv, NdiInv
  <2>4. audio.at >= 0 => base' = base /\ audio.pts = (start + audio.at * Period + base) * Scale
    BY <1>1, <1>3, <1>4, <2>1, <2>3 DEF ClocksInv, NdiInv, Clocks!NdiOffset, ClockTypes
  <2>5. ~lost => base' = 0 - (start + since * Period)
    <3>1. CASE clockCounter = 0
      <4>1. ~lost => moment = since
        BY <1>1, <1>3, <3>1 DEF ClocksInv, VideoInStep, VideoTaken, Moments, ClockTypes
      <4> QED
        BY <1>1, <3>1, <4>1 DEF Clocks!NdiOffset, Clocks!Timecode
    <3>2. CASE clockCounter # 0
      BY <1>1, <1>4, <2>1, <3>2 DEF ClocksInv, NdiInv, Clocks!NdiOffset
    <3> QED
      BY <3>1, <3>2
  <2> QED
    BY <1>1, <2>1, <2>2, <2>4, <2>5 DEF NdiInv
<1>11. DektecInv' /\ LinsysInv'
  BY <1>1 DEF DektecInv, LinsysInv
<1> QED
  BY <1>3, <1>8, <1>9, <1>10, <1>11 DEF ClocksInv

(* ndi, audio: there is an offset only when there was a picture.           *)
LEMMA NdiAudioKeeps ==
  ASSUME ClocksInv, Clocks!NdiAudio
  PROVE  ClocksInv'
<1>1. /\ kind = "ndi" /\ "audio" \notin taken /\ taken' = taken \cup {"audio"}
      /\ IF base = 0 THEN UNCHANGED audio
         ELSE audio' = [at |-> moment, pts |-> (Clocks!Timecode + base) * Scale]
      /\ UNCHANGED <<kind, start, moment, since, starts, earlier, clockUp, clockCounter, base, reset,
                     video, samples, lastTick, lost, truncated>>
  BY DEF Clocks!NdiAudio, Clocks!Captures, Clocks!QueueAudio, Clocks!world, Clocks!linsys
<1>2. /\ "audio" \in taken' /\ ("video" \in taken' <=> "video" \in taken)
      /\ audio'.at = audio.at \/ audio'.at = moment
  BY <1>1
<1>3. ClockTypes /\ ClockTypes'
  BY <1>1, <1>2 DEF ClocksInv, ClockTypes
<1>4. VideoTaken' = VideoTaken /\ Moments' = Moments /\ Clocks!Timecode' = Clocks!Timecode
  BY <1>1, <1>2 DEF VideoTaken, Moments, Clocks!Timecode
<1>5. VideoCounts' /\ VideoInStep'
  BY <1>1, <1>4 DEF ClocksInv, VideoCounts, VideoInStep
<1>6. DektecInv' /\ LinsysInv'
  BY <1>1 DEF DektecInv, LinsysInv
<1>7. CASE base = 0
  <2>1. audio' = audio
    BY <1>1, <1>7
  <2> QED
    BY <1>1, <1>3, <1>4, <1>5, <1>6, <2>1 DEF ClocksInv, AudioInStep, NdiInv, Clocks!Timed
<1>8. CASE base # 0
  <2>1. /\ audio'.at = moment /\ audio'.pts = (start + moment * Period + base) * Scale
    BY <1>1, <1>8 DEF Clocks!Timecode
  <2>2. NdiInv'
    <3>1. ~truncated => clockCounter > 0 /\ clockCounter \in Nat
      BY <1>1, <1>8 DEF ClocksInv, NdiInv, VideoCounts
    <3> QED
      BY <1>1, <1>4, <2>1, <3>1 DEF ClocksInv, NdiInv
  <2>3. AudioInStep'
    <3> SUFFICES ASSUME ~lost
                 PROVE audio'.pts = (audio'.at - since) * Clocks!Frame
      BY <1>1 DEF AudioInStep, Clocks!Timed
    <3>1. ~truncated /\ clockCounter > 0
      BY <1>1, <1>3, <1>8 DEF ClocksInv, NdiInv, VideoCounts, ClockTypes
    <3>2. base = 0 - (start + since * Period)
      BY <1>1, <3>1 DEF ClocksInv, NdiInv
    <3>3. start \in Nat /\ moment \in Nat /\ since \in Nat
      BY <1>3 DEF ClockTypes
    <3>4. start + moment * Period + base = (moment - since) * Period
      BY <3>2, <3>3, FrameIs
    <3>5. ((moment - since) * Period) * Scale = (moment - since) * (Period * Scale)
      BY <3>3, FrameIs
    <3> QED
      BY <2>1, <3>4, <3>5, FrameIs
  <2> QED
    BY <1>3, <1>5, <1>6, <2>2, <2>3 DEF ClocksInv
<1> QED
  BY <1>7, <1>8

LEMMA NdiTimeoutKeeps ==
  ASSUME ClocksInv, Clocks!NdiTimeout
  PROVE  ClocksInv'
<1>1. /\ kind = "ndi" /\ taken = {} /\ moment' = moment + 1 /\ reset' = TRUE /\ lost' = TRUE
      /\ UNCHANGED <<kind, start, since, starts, earlier, clockUp, taken, clockCounter, base,
                     video, audio, truncated>>
  BY DEF Clocks!NdiTimeout
<1>2. ClockTypes /\ ClockTypes'
  BY <1>1 DEF ClocksInv, ClockTypes
<1>3. VideoTaken = 0 /\ VideoTaken' = 0
  BY <1>1 DEF VideoTaken
<1>4. NdiInv'
  <2> SUFFICES ASSUME ~truncated
               PROVE NdiInv'
    BY <1>1 DEF NdiInv
  <2>1. /\ Clocks!Timecode' * Scale = Clocks!Timecode * Scale + Clocks!Frame
        /\ Clocks!Timecode * Scale \in Int /\ VideoTaken * Clocks!Frame = 0
        /\ VideoTaken' * Clocks!Frame = 0
    BY <1>1, <1>2, <1>3, FrameIs DEF Clocks!Timecode, ClockTypes
  <2>2. clockCounter \in Nat /\ base \in Int /\ (clockCounter - 1) * Clocks!Frame \in Int
    BY <1>2, FrameIs DEF ClocksInv, VideoCounts, ClockTypes
  <2>3. clockCounter > 0 =>
          (clockCounter - 1) * Clocks!Frame
            < Clocks!Timecode' * Scale + base + VideoTaken' * Clocks!Frame
    BY <1>1, <2>1, <2>2, FrameIs DEF ClocksInv, NdiInv
  <2> QED
    BY <1>1, <2>3 DEF ClocksInv, NdiInv
<1> QED
  BY <1>1, <1>2, <1>4
     DEF ClocksInv, VideoCounts, VideoInStep, AudioInStep, DektecInv, LinsysInv

(* dektec: picture and audio come together, and either may be invalid.     *)
LEMMA OnNewFrameKeeps ==
  ASSUME ClocksInv, NEW picture_ \in BOOLEAN, NEW sound_ \in BOOLEAN,
         Clocks!OnNewFrame(picture_, sound_)
  PROVE  ClocksInv'
<1>1. /\ kind = "dektec" /\ taken = {} /\ clockUp
      /\ taken' = (IF picture_ THEN {"video"} ELSE {}) \cup (IF sound_ THEN {"audio"} ELSE {})
      /\ UNCHANGED <<kind, start, moment, since, starts, earlier, clockUp, reset, lost, truncated>>
  BY DEF Clocks!OnNewFrame, Clocks!world
<1>2. /\ picture_ => /\ clockCounter' = clockCounter + 1
                     /\ video' = [at |-> moment, pts |-> clockCounter * Clocks!Frame]
      /\ ~picture_ => UNCHANGED <<clockCounter, video>>
  BY DEF Clocks!OnNewFrame, Clocks!DektecVideo, Clocks!QueueVideo
<1>3. /\ sound_ => /\ base' = IF base = 0 THEN Clocks!Timecode ELSE base
                   /\ audio' = [at |-> moment, pts |-> (Clocks!Timecode - base') * Scale]
      /\ ~sound_ => UNCHANGED <<base, audio>>
  BY DEF Clocks!OnNewFrame, Clocks!DektecAudio, Clocks!QueueAudio
<1>4. /\ ("video" \in taken' <=> picture_) /\ ("audio" \in taken' <=> sound_)
      /\ "video" \notin taken /\ "audio" \notin taken
  BY <1>1
<1>5. /\ ClockTypes /\ Clocks!Timecode \in Nat \ {0}
      /\ Clocks!Timecode = start + moment * Period
  <2>1. ClockTypes
    BY DEF ClocksInv
  <2>2. start \in Nat \ {0} /\ moment * Period \in Nat
    BY <1>1, <2>1, FrameIs DEF ClockTypes
  <2> QED
    BY <2>1, <2>2 DEF Clocks!Timecode
<1>6. ClockTypes'
  <2>1. video'.at = (IF picture_ THEN moment ELSE video.at)
        /\ audio'.at = (IF sound_ THEN moment ELSE audio.at)
    BY <1>2, <1>3
  <2>2. base' \in Int
    BY <1>3, <1>5 DEF ClockTypes
  <2> QED
    BY <1>1, <1>4, <1>5, <2>1, <2>2 DEF ClockTypes
<1>7. ~truncated /\ clockCounter \in Nat
  BY <1>1, <1>5 DEF ClocksInv, VideoCounts, ClockTypes
<1>8. VideoCounts' /\ VideoInStep'
  <2>1. ~lost => clockCounter = Moments
    BY <1>1, <1>4, <1>5, <1>7 DEF ClocksInv, VideoInStep, VideoTaken, Moments, ClockTypes
  <2>2. CASE picture_
    BY <1>1, <1>2, <1>4, <1>5, <1>7, <2>1, <2>2, PictureCounts
  <2>3. CASE ~picture_
    BY <1>1, <1>2, <1>4, <2>3 DEF ClocksInv, VideoCounts, VideoInStep, VideoTaken, Moments
  <2> QED
    BY <2>2, <2>3
<1>9. NdiInv' /\ LinsysInv'
  BY <1>1 DEF NdiInv, LinsysInv
<1>10. CASE sound_
  <2>1. /\ audio'.at = moment /\ base' # 0 /\ base' \in Int
        /\ audio'.pts = (start + moment * Period - base') * Scale
    <3>1. base' = (IF base = 0 THEN Clocks!Timecode ELSE base) /\ base \in Int
      BY <1>3, <1>5, <1>10 DEF ClockTypes
    <3>2. audio' = [at |-> moment, pts |-> (Clocks!Timecode - base') * Scale]
      BY <1>3, <1>10
    <3>3. audio'.at = moment /\ audio'.pts = (Clocks!Timecode - base') * Scale
      BY <3>2
    <3>4. base' # 0 /\ base' \in Int
      BY <1>5, <3>1
    <3>5. audio'.pts = (start + moment * Period - base') * Scale
      <4>1. start + moment * Period - base' = Clocks!Timecode - base'
        BY <1>5, <3>4, FrameIs DEF ClockTypes
      <4> QED
        BY <3>3, <4>1
    <3> QED
      BY <3>3, <3>4, <3>5
  <2>2. (~lost /\ starts = 1) => base' = start
    <3>1. moment = 0 => Clocks!Timecode = start
      BY <1>5, FrameIs DEF ClockTypes
    <3> QED
      BY <1>1, <1>3, <1>5, <1>10, <3>1 DEF ClocksInv, DektecInv, ClockTypes
  <2>5. earlier.at >= 0 => base # 0 /\ base' = base
    BY <1>1, <1>3, <1>10 DEF ClocksInv, DektecInv
  <2>3. DektecInv'
    <3>1. /\ base' # 0 /\ audio'.pts = (start + audio'.at * Period - base') * Scale
      BY <2>1
    <3>2. earlier.at >= 0 =>
            /\ earlier.pts = (start + earlier.at * Period - base') * Scale
            /\ earlier.at < since
      BY <1>1, <2>5 DEF ClocksInv, DektecInv
    <3>3. UNCHANGED <<kind, start, since, starts, earlier, lost>>
      BY <1>1
    <3> QED
      BY <2>2, <3>1, <3>2, <3>3 DEF DektecInv
  <2>4. AudioInStep'
    <3> SUFFICES ASSUME ~lost, starts = 1
                 PROVE audio'.pts = (audio'.at - since) * Clocks!Frame
      BY <1>1 DEF AudioInStep, Clocks!Timed
    <3>1. since = 0 /\ start \in Nat /\ moment \in Nat
      BY <1>5 DEF ClockTypes
    <3>2. start + moment * Period - base' = moment * Period
      BY <2>2, <3>1, FrameIs
    <3>3. (moment * Period) * Scale = moment * (Period * Scale)
      BY <3>1, FrameIs
    <3>4. audio'.pts = (moment * Period) * Scale
      BY <2>1, <3>2
    <3>5. audio'.at - since = moment
      BY <2>1, <3>1
    <3> QED
      BY <3>3, <3>4, <3>5, FrameIs
  <2> QED
    BY <1>6, <1>8, <1>9, <2>3, <2>4 DEF ClocksInv
<1>11. CASE ~sound_
  <2>1. base' = base /\ audio' = audio
    BY <1>3, <1>11
  <2>2. DektecInv' /\ AudioInStep'
    BY <1>1, <1>4, <1>11, <2>1 DEF ClocksInv, DektecInv, AudioInStep, Clocks!Timed
  <2> QED
    BY <1>6, <1>8, <1>9, <2>2 DEF ClocksInv
<1> QED
  BY <1>10, <1>11

(* linsys: the clock ticks first, and a failure ends the input.            *)
LEMMA LinsysVideoKeeps ==
  ASSUME ClocksInv, Clocks!LinsysVideo
  PROVE  ClocksInv'
<1>1. /\ kind = "linsys" /\ "video" \notin taken /\ clockUp /\ taken' = taken \cup {"video"}
      /\ clockCounter' = clockCounter + 1 /\ lastTick' = moment
      /\ video' = [at |-> moment, pts |-> clockCounter * Clocks!Frame]
      /\ UNCHANGED <<kind, start, moment, since, starts, earlier, clockUp, samples, base, reset,
                     audio, lost, truncated>>
  BY DEF Clocks!LinsysVideo, Clocks!Captures, Clocks!LinsysTick, Clocks!world
<1>2. /\ "video" \in taken' /\ ("audio" \in taken' <=> "audio" \in taken)
      /\ video'.at = moment
  BY <1>1
<1>3. ClockTypes /\ ClockTypes'
  BY <1>1, <1>2 DEF ClocksInv, ClockTypes
<1>4. clockCounter \in Nat /\ (~lost => clockCounter = Moments)
  BY <1>1, <1>3 DEF ClocksInv, VideoCounts, VideoInStep, VideoTaken, Moments, ClockTypes
<1>5. VideoCounts' /\ VideoInStep'
  BY <1>1, <1>2, <1>3, <1>4, PictureCounts
<1>6. LinsysInv'
  BY <1>1, <1>2 DEF ClocksInv, LinsysInv, Moments, AudioTaken
<1> QED
  BY <1>1, <1>3, <1>5, <1>6 DEF ClocksInv, AudioInStep, Clocks!Timed, NdiInv, DektecInv

LEMMA LinsysFailsKeeps ==
  ASSUME ClocksInv, Clocks!LinsysFails
  PROVE  ClocksInv'
<1>1. /\ kind = "linsys" /\ taken' = taken \cup {"video"} /\ ~clockUp'
      /\ UNCHANGED <<kind, start, moment, since, starts, earlier, clockCounter, samples, base, reset,
                     video, audio, lost, truncated>>
  BY DEF Clocks!LinsysFails, Clocks!Captures, Clocks!LinsysTick, Clocks!world
<1>2. "video" \in taken' /\ ("audio" \in taken' <=> "audio" \in taken)
  BY <1>1
<1>3. ClockTypes'
  BY <1>1, <1>2 DEF ClocksInv, ClockTypes
<1> QED
  BY <1>1, <1>3 DEF ClocksInv, VideoCounts, VideoInStep, AudioInStep, Clocks!Timed, NdiInv,
                    DektecInv, LinsysInv

LEMMA LinsysAudioKeeps ==
  ASSUME ClocksInv, Clocks!LinsysAudio
  PROVE  ClocksInv'
<1>1. /\ kind = "linsys" /\ "audio" \notin taken /\ clockUp /\ taken' = taken \cup {"audio"}
      /\ samples' = samples + 1
      /\ audio' = [at |-> moment, pts |-> samples * Clocks!Frame]
      /\ UNCHANGED <<kind, start, moment, since, starts, earlier, clockUp, clockCounter, base, reset,
                     video, lastTick, lost, truncated>>
  BY DEF Clocks!LinsysAudio, Clocks!Captures, Clocks!QueueAudio, Clocks!world
<1>2. /\ "audio" \in taken' /\ ("video" \in taken' <=> "video" \in taken)
      /\ audio'.at = moment /\ audio'.pts = samples * Clocks!Frame
  BY <1>1
<1>3. ClockTypes /\ ClockTypes'
  BY <1>1, <1>2 DEF ClocksInv, ClockTypes
<1>4. VideoTaken' = VideoTaken /\ Moments' = Moments /\ Moments = moment - since
      /\ AudioTaken = 0 /\ AudioTaken' = 1
  BY <1>1, <1>2 DEF VideoTaken, AudioTaken, Moments
<1>5. VideoCounts' /\ VideoInStep'
  BY <1>1, <1>4 DEF ClocksInv, VideoCounts, VideoInStep
<1>6. samples \in Nat /\ (~lost => samples = Moments)
  BY <1>1, <1>3, <1>4 DEF ClocksInv, LinsysInv, ClockTypes
<1>7. LinsysInv'
  BY <1>1, <1>2, <1>4, <1>6 DEF ClocksInv, LinsysInv
<1>8. AudioInStep'
  BY <1>1, <1>2, <1>4, <1>6 DEF AudioInStep
<1> QED
  BY <1>1, <1>3, <1>5, <1>7, <1>8 DEF ClocksInv, NdiInv, DektecInv

LEMMA V4l2VideoKeeps ==
  ASSUME ClocksInv, Clocks!V4l2Video
  PROVE  ClocksInv'
<1>1. /\ kind = "v4l2" /\ "video" \notin taken /\ clockUp /\ taken' = taken \cup {"video"}
      /\ clockCounter' = clockCounter + 1
      /\ video' = [at |-> moment, pts |-> clockCounter * Clocks!Frame]
      /\ UNCHANGED <<kind, start, moment, since, starts, earlier, clockUp, base, reset, audio, lost,
                     truncated>>
  BY DEF Clocks!V4l2Video, Clocks!Captures, Clocks!QueueVideo, Clocks!world
<1>2. /\ "video" \in taken' /\ ("audio" \in taken' <=> "audio" \in taken)
      /\ video'.at = moment
  BY <1>1
<1>3. ClockTypes /\ ClockTypes'
  BY <1>1, <1>2 DEF ClocksInv, ClockTypes
<1>4. clockCounter \in Nat /\ (~lost => clockCounter = Moments)
  BY <1>1, <1>3 DEF ClocksInv, VideoCounts, VideoInStep, VideoTaken, Moments, ClockTypes
<1>5. VideoCounts' /\ VideoInStep'
  BY <1>1, <1>2, <1>3, <1>4, PictureCounts
<1> QED
  BY <1>1, <1>3, <1>5
     DEF ClocksInv, AudioInStep, Clocks!Timed, NdiInv, DektecInv, LinsysInv

LEMMA V4l2AudioKeeps ==
  ASSUME ClocksInv, Clocks!V4l2Audio
  PROVE  ClocksInv'
<1>1. /\ kind = "v4l2" /\ taken' = taken \cup {"audio"}
      /\ audio' = [at |-> moment, pts |-> 0]
      /\ UNCHANGED <<kind, start, moment, since, starts, earlier, clockUp, clockCounter, base, reset,
                     video, lost, truncated>>
  BY DEF Clocks!V4l2Audio, Clocks!Captures, Clocks!QueueAudio, Clocks!world
<1>2. /\ "audio" \in taken' /\ ("video" \in taken' <=> "video" \in taken)
      /\ audio'.at = moment
  BY <1>1
<1>3. ClockTypes /\ ClockTypes'
  BY <1>1, <1>2 DEF ClocksInv, ClockTypes
<1>4. VideoTaken' = VideoTaken /\ Moments' = Moments
  BY <1>1, <1>2 DEF VideoTaken, Moments
<1>5. VideoCounts' /\ VideoInStep'
  BY <1>1, <1>4 DEF ClocksInv, VideoCounts, VideoInStep
<1> QED
  BY <1>1, <1>3, <1>5 DEF ClocksInv, AudioInStep, Clocks!Timed, NdiInv, DektecInv, LinsysInv

LEMMA ClocksStep == ClocksInv /\ [Clocks!Next]_(Clocks!vars) => ClocksInv'
<1> SUFFICES ASSUME ClocksInv, [Clocks!Next]_(Clocks!vars)
             PROVE ClocksInv'
  OBVIOUS
<1>1. CASE Clocks!Next
  BY <1>1, MomentKeeps, RestartKeeps, NdiVideoKeeps, NdiAudioKeeps, NdiTimeoutKeeps,
     OnNewFrameKeeps, LinsysVideoKeeps, LinsysFailsKeeps, LinsysAudioKeeps, V4l2VideoKeeps,
     V4l2AudioKeeps DEF Clocks!Next
<1>2. CASE UNCHANGED Clocks!vars
  BY <1>2 DEF Clocks!vars, ClocksInv, ClockTypes, VideoCounts, VideoInStep, AudioInStep,
              Clocks!Timed, NdiInv, DektecInv, LinsysInv, Moments, VideoTaken, AudioTaken,
              Clocks!Timecode
<1> QED
  BY <1>1, <1>2

LEMMA ClocksInvariant == Spec => []ClocksInv
BY ClocksInit, ClocksStep, ModesStart, ModesStep, PTL DEF Spec

(* Picture and audio of one moment get one time as long as nothing was     *)
(* lost, and the times of vega follow the clock of its card across wraps.  *)
THEOREM SoundAndPictureInStep == Spec => []ClocksInStep
<1>1. ClocksInv => Clocks!InStep
  <2> SUFFICES ASSUME ClocksInv, Clocks!Timed, ~lost, video.at >= 0, audio.at >= 0
               PROVE audio.pts - video.pts = (audio.at - video.at) * Clocks!Frame
    BY DEF Clocks!InStep
  <2>1. /\ audio.pts = (audio.at - since) * Clocks!Frame
        /\ video.pts = (video.at - since) * Clocks!Frame
    BY DEF ClocksInv, AudioInStep, VideoInStep
  <2>2. audio.at \in Int /\ video.at \in Int /\ since \in Int
    BY DEF ClocksInv, ClockTypes
  <2> QED
    BY <2>1, <2>2, FrameIs
<1>2. ClocksInv /\ CodedInv => ClocksInStep
  BY <1>1, TimesFollow DEF ClocksInStep
<1> QED
  BY <1>2, ClocksInvariant, CodedInvariant, PTL

(* What the clocks of the inputs may never do, from the same invariant.    *)
LEMMA ClockTimesAdvance ==
  ASSUME ClocksInv, Clocks!Next, video' # video, video.at >= 0, starts' = starts, ~truncated'
  PROVE  video'.pts > video.pts
<1>1. ClockTypes /\ VideoCounts
  BY DEF ClocksInv
<1>2. CASE Clocks!NdiVideo
  <2> DEFINE q == Clocks!CeilDiv(Clocks!Timecode * Scale + Clocks!NdiOffset, Clocks!Frame)
             c == IF reset THEN Clocks!Wrapped(q) ELSE clockCounter
  <2>1. /\ kind = "ndi" /\ "video" \notin taken
        /\ video' = [at |-> moment, pts |-> c * Clocks!Frame]
        /\ truncated' = (truncated \/ (reset /\ c # q))
    BY <1>2 DEF Clocks!NdiVideo, Clocks!Captures, Clocks!QueueVideo
  <2>2. ~truncated /\ c = (IF reset THEN q ELSE clockCounter)
    BY <2>1
  <2>3. clockCounter \in Nat /\ q \in Nat /\ clockCounter <= q
    BY <2>1, <2>2, <1>1, NdiCounter DEF VideoCounts
  <2>4. video.pts = (clockCounter - 1) * Clocks!Frame
    BY <2>2, <1>1 DEF VideoCounts
  <2> HIDE DEF c
  <2>5. c \in Nat /\ clockCounter - 1 < c
    BY <2>2, <2>3
  <2>6. (clockCounter - 1) * Clocks!Frame < c * Clocks!Frame
    BY <2>3, <2>5, FrameIs, Products
  <2> QED
    BY <2>1, <2>4, <2>6
<1>3. CASE ~Clocks!NdiVideo
  <2>1. video' = [at |-> moment, pts |-> clockCounter * Clocks!Frame] /\ truncated' = truncated
    <3>1. starts' # starts + 1
      BY <1>1 DEF ClockTypes
    <3> QED
      BY <1>3, <3>1
         DEF Clocks!Next, Clocks!Moment, Clocks!Restart, Clocks!NdiAudio, Clocks!NdiTimeout,
             Clocks!OnNewFrame, Clocks!DektecVideo, Clocks!QueueVideo, Clocks!LinsysVideo,
             Clocks!LinsysFails, Clocks!LinsysAudio, Clocks!V4l2Video, Clocks!V4l2Audio
  <2>2. clockCounter \in Nat /\ video.pts = (clockCounter - 1) * Clocks!Frame
    BY <1>1, <2>1 DEF VideoCounts
  <2>3. (clockCounter - 1) * Clocks!Frame < clockCounter * Clocks!Frame
    BY <2>2, FrameIs, Products
  <2> QED
    BY <2>1, <2>2, <2>3
<1> QED
  BY <1>2, <1>3

LEMMA ClockAudioAdvances ==
  ASSUME ClocksInv, Clocks!Next, kind # "v4l2", audio' # audio, audio.at >= 0,
         starts' = starts, ~truncated
  PROVE  audio'.pts > audio.pts
<1> DEFINE From(b) == (start + moment * Period + b) * Scale
<1>1. ClockTypes /\ starts' # starts + 1
  BY DEF ClocksInv, ClockTypes
<1>2. \/ Clocks!NdiAudio
      \/ \E picture_, sound_ \in BOOLEAN : Clocks!OnNewFrame(picture_, sound_)
      \/ Clocks!LinsysAudio
  BY <1>1 DEF Clocks!Next, Clocks!Moment, Clocks!Restart, Clocks!NdiVideo, Clocks!NdiTimeout,
              Clocks!LinsysVideo, Clocks!LinsysFails, Clocks!V4l2Video, Clocks!V4l2Audio
<1>3. CASE Clocks!LinsysAudio
  <2>1. kind = "linsys" /\ audio' = [at |-> moment, pts |-> samples * Clocks!Frame]
    BY <1>3 DEF Clocks!LinsysAudio, Clocks!QueueAudio
  <2>2. samples \in Nat /\ audio.pts = (samples - 1) * Clocks!Frame
    BY <2>1 DEF ClocksInv, LinsysInv
  <2>3. (samples - 1) * Clocks!Frame < samples * Clocks!Frame
    BY <2>2, FrameIs, Products
  <2> QED
    BY <2>1, <2>2, <2>3
<1>4. ASSUME NEW b \in Int, "audio" \notin taken,
             audio.pts = (start + audio.at * Period + b) * Scale,
             audio'.pts = (start + moment * Period + b) * Scale
      PROVE  audio'.pts > audio.pts
  <2>1. /\ audio.at < moment /\ audio.at \in Int /\ moment \in Nat /\ start \in Nat
        /\ Period \in Nat \ {0} /\ Scale \in Nat \ {0}
    BY <1>1, <1>4, FrameIs DEF ClockTypes
  <2>2. audio.at * Period < moment * Period /\ audio.at * Period \in Int /\ moment * Period \in Int
    BY <2>1, Products
  <2> DEFINE x == start + audio.at * Period + b
             y == start + moment * Period + b
  <2>3. x < y /\ x \in Int /\ y \in Int
    BY <2>1, <2>2
  <2> HIDE DEF x, y
  <2>4. x * Scale < y * Scale
    BY <2>1, <2>3, Products
  <2> QED
    BY <1>4, <2>4 DEF x, y
<1>5. CASE Clocks!NdiAudio
  <2>1. /\ kind = "ndi" /\ "audio" \notin taken
        /\ audio' = [at |-> moment, pts |-> (Clocks!Timecode + base) * Scale]
    BY <1>5 DEF Clocks!NdiAudio, Clocks!Captures, Clocks!QueueAudio
  <2>2. /\ audio.pts = (start + audio.at * Period + base) * Scale
        /\ audio'.pts = (start + moment * Period + base) * Scale
    BY <2>1 DEF ClocksInv, NdiInv, Clocks!Timecode
  <2>3. base \in Int
    BY <1>1 DEF ClockTypes
  <2> QED
    BY <1>4, <2>1, <2>2, <2>3
<1>6. ASSUME NEW picture_ \in BOOLEAN, NEW sound_ \in BOOLEAN,
             Clocks!OnNewFrame(picture_, sound_)
      PROVE  audio'.pts > audio.pts
  <2>1. kind = "dektec" /\ "audio" \notin taken
    BY <1>6 DEF Clocks!OnNewFrame
  <2>2. base # 0 /\ audio.pts = (start + audio.at * Period - base) * Scale
    BY <2>1 DEF ClocksInv, DektecInv
  <2>3. audio' = [at |-> moment, pts |-> (Clocks!Timecode - base) * Scale]
    BY <1>6, <2>2 DEF Clocks!OnNewFrame, Clocks!DektecAudio, Clocks!QueueAudio
  <2>4. /\ audio.at * Period \in Int /\ moment * Period \in Int /\ start \in Int
        /\ base \in Int /\ 0 - base \in Int
    BY <1>1, FrameIs DEF ClockTypes
  <2>5. start + audio.at * Period - base = start + audio.at * Period + (0 - base)
    BY <2>4
  <2>6. Clocks!Timecode - base = start + moment * Period + (0 - base)
    BY <2>4 DEF Clocks!Timecode
  <2>7. audio'.pts = (start + moment * Period + (0 - base)) * Scale
    BY <2>3, <2>6
  <2> QED
    BY <1>4, <2>1, <2>2, <2>4, <2>5, <2>7
<1> QED
  BY <1>2, <1>3, <1>5, <1>6

(* Moments of the card, with the base taken off, keep their order.         *)
LEMMA LaterIsMore ==
  ASSUME NEW s \in Int, NEW b \in Int, NEW i \in Int, NEW j \in Int, i < j
  PROVE  (s + i * Period - b) * Scale < (s + j * Period - b) * Scale
<1> DEFINE x == s + i * Period - b
           y == s + j * Period - b
<1>1. i * Period < j * Period /\ i * Period \in Int /\ j * Period \in Int
  BY FrameIs, Products
<1>2. x < y /\ x \in Int /\ y \in Int
  BY <1>1
<1> HIDE DEF x, y
<1>3. x * Scale < y * Scale
  BY <1>2, FrameIs, Products
<1> QED
  BY <1>3 DEF x, y

LEMMA DektecGoesOn ==
  ASSUME ClocksInv, Clocks!Next, kind = "dektec", audio' # audio, audio'.at >= 0,
         earlier'.at >= 0
  PROVE  audio'.pts > earlier'.pts
<1>1. ClockTypes
  BY DEF ClocksInv
<1>2. ~Clocks!Restart
  BY DEF Clocks!Restart, Clocks!Nothing
<1>3. PICK picture_ \in BOOLEAN, sound_ \in BOOLEAN : Clocks!OnNewFrame(picture_, sound_)
  BY <1>2 DEF Clocks!Next, Clocks!Moment, Clocks!NdiVideo, Clocks!NdiAudio, Clocks!NdiTimeout,
              Clocks!LinsysVideo, Clocks!LinsysFails, Clocks!LinsysAudio, Clocks!V4l2Video,
              Clocks!V4l2Audio
<1>4. earlier' = earlier
  BY <1>3 DEF Clocks!OnNewFrame, Clocks!world
<1>5. /\ base # 0 /\ earlier.pts = (start + earlier.at * Period - base) * Scale
      /\ earlier.at < since
  BY <1>4 DEF ClocksInv, DektecInv
<1>6. audio' = [at |-> moment, pts |-> (Clocks!Timecode - base) * Scale]
  BY <1>3, <1>5 DEF Clocks!OnNewFrame, Clocks!DektecAudio, Clocks!QueueAudio
<1>7. /\ start \in Int /\ base \in Int /\ earlier.at \in Int /\ moment \in Int
      /\ earlier.at < moment
  <2>1. /\ start \in Int /\ base \in Int /\ earlier.at \in Int /\ moment \in Int
        /\ since \in Int /\ since <= moment
    BY <1>1 DEF ClockTypes
  <2> QED
    BY <1>5, <2>1
<1>8. audio'.pts = (start + moment * Period - base) * Scale
  <2>1. audio'.pts = (Clocks!Timecode - base) * Scale
    BY <1>6
  <2>2. Clocks!Timecode = start + moment * Period
    BY DEF Clocks!Timecode
  <2>3. start \in Int /\ base \in Int /\ moment * Period \in Int
    BY <1>7, FrameIs
  <2>4. Clocks!Timecode - base = start + moment * Period - base
    BY <2>2, <2>3
  <2> QED
    BY <2>1, <2>4
<1>9. (start + earlier.at * Period - base) * Scale < (start + moment * Period - base) * Scale
  BY <1>7, LaterIsMore
<1>10. /\ (start + earlier.at * Period - base) * Scale \in Int
       /\ (start + moment * Period - base) * Scale \in Int
  BY <1>7, FrameIs
<1> QED
  BY <1>4, <1>5, <1>8, <1>9, <1>10

LEMMA LinsysDrops ==
  ASSUME ClocksInv, Clocks!Next, kind = "linsys", video' # video, video.at >= 0,
         starts' = starts, video'.at - video.at >= SdiMaxDelay
  PROVE  drop' = moment
<1>1. ClockTypes /\ starts' # starts + 1
  BY DEF ClocksInv, ClockTypes
<1>2. Clocks!LinsysVideo
  BY <1>1 DEF Clocks!Next, Clocks!Moment, Clocks!Restart, Clocks!NdiVideo, Clocks!NdiAudio,
              Clocks!NdiTimeout, Clocks!OnNewFrame, Clocks!LinsysFails, Clocks!LinsysAudio,
              Clocks!V4l2Video, Clocks!V4l2Audio
<1>3. video' = [at |-> moment, pts |-> clockCounter * Clocks!Frame] /\ clockUp
  BY <1>2 DEF Clocks!LinsysVideo, Clocks!Captures
<1>4. video'.at = moment /\ lastTick = video.at
  BY <1>3 DEF ClocksInv, LinsysInv
<1> QED
  BY <1>2, <1>4 DEF Clocks!LinsysVideo, Clocks!LinsysTick
-----------------------------------------------------------------------------
(* The frame callback of decklink.  The invariant has a part for each of   *)
(* the properties: what is counted and kept is not ahead of the clock of   *)
(* the card, nor is the frame queued last; the drop flags were set at      *)
(* every gap; the count of frames without captions is the length of their  *)
(* run; what is cached is the last picture of a callback that did not      *)
(* fail.                                                                   *)
DeckTypes ==
  /\ now \in 0..CallbacksTo /\ inject \in BOOLEAN /\ up \in BOOLEAN
  /\ lastFrame \in Int /\ -1 <= lastFrame /\ lastFrame <= now
  /\ cached \in Int /\ -1 <= cached /\ cached <= now
  /\ injected \in 0..MaxInjected + 1 /\ (up => injected <= MaxInjected)
  /\ lastPts \in 0..now /\ missing \in Nat /\ dropped \in 0..now
  /\ released \subseteq 1..now /\ seen \subseteq 1..now /\ quiet \subseteq 1..now
  /\ queued \subseteq 1..now

FrameInv ==
  /\ frame.pts \in 0..now /\ frame.audio \in 0..now /\ (~inject => frame.audio <= lastPts)
  /\ frame.meta \subseteq {frame.pts} /\ (frame.injected => inject)

(* A gap before s, the first frame with a signal after it.                 *)
GapBefore(s) ==
  /\ s \in seen
  /\ \E r \in seen : r < s /\ s - r >= SdiMaxDelay /\ \A t \in seen : t < s => t <= r
LossInv ==
  /\ lastFrame = -1 \/ lastFrame \in seen
  /\ \A s \in seen : s <= lastFrame
  /\ ~inject => \A s \in seen : GapBefore(s) => dropped >= s

(* The run of frames without captions that ends at i.                      *)
Run(c, i) == {j \in 1..i : \A k \in j..i : ~c[k].has}
CaptionInv ==
  /\ captions \in Seq([has : BOOLEAN, reset : BOOLEAN])
  /\ missing = Cardinality(Run(captions, Len(captions)))
  /\ \A i \in 1..Len(captions) :
       captions[i].reset <=> Cardinality(Run(captions, i)) = MissingLimit + 1

Failed(s) == \E t \in trouble : t.at = s
NewestInv ==
  /\ inject => \A s \in seen : s > cached => Failed(s)
  /\ Decklink!InjectsNewest

DecklinkInv ==
  /\ DeckTypes /\ FrameInv /\ LossInv /\ CaptionInv /\ Decklink!FramesOwned /\ NewestInv

LEMMA DecklinkConstants ==
  {MaxInjected, SdiMaxDelay, LosExit, MissingLimit, Window, CallbacksTo} \subseteq Nat
  /\ Skips \subseteq Nat
BY InputsAssumption DEF ConstantsAreSound, Decklink!ConstantsAreSound

LEMMA DecklinkInit == Decklink!Init => DecklinkInv
<1> SUFFICES ASSUME Decklink!Init PROVE DecklinkInv
  OBVIOUS
<1>1. /\ inject \in BOOLEAN /\ now = 0 /\ up = TRUE /\ lastFrame = -1 /\ cached = -1
      /\ injected = 0 /\ lastPts = 0 /\ missing = 0
      /\ frame = [pts |-> 0, audio |-> 0, image |-> 0, meta |-> {}, injected |-> FALSE]
      /\ seen = {} /\ captions = <<>> /\ dropped = 0 /\ queued = {} /\ released = {}
      /\ trouble = {} /\ quiet = {}
  BY DEF Decklink!Init, Decklink!Nothing, Decklink!NoFrame
<1>2. DeckTypes
  BY <1>1, DecklinkConstants DEF DeckTypes
<1>3. /\ frame.pts = 0 /\ frame.audio = 0 /\ frame.meta = {} /\ frame.injected = FALSE
  BY <1>1
<1>4. FrameInv /\ LossInv /\ Decklink!FramesOwned /\ NewestInv
  BY <1>1, <1>3 DEF FrameInv, LossInv, Decklink!FramesOwned, NewestInv, Decklink!InjectsNewest
<1>5. CaptionInv
  <2>1. Run(captions, Len(captions)) = {} /\ Len(captions) = 0
    BY <1>1 DEF Run
  <2>2. captions \in Seq([has : BOOLEAN, reset : BOOLEAN])
    BY <1>1
  <2>3. missing = Cardinality(Run(captions, Len(captions)))
    BY <1>1, <2>1, FS_EmptySet
  <2> QED
    BY <2>1, <2>2, <2>3 DEF CaptionInv
<1> QED
  BY <1>2, <1>4, <1>5 DEF DecklinkInv

(* Whatever a callback does, its time is a new one.                        *)
LEMMA Arrival ==
  ASSUME DecklinkInv, NEW audio_ \in BOOLEAN, Decklink!Arrives(audio_)
  PROVE  /\ now \in Nat /\ now' \in Nat /\ now < now' /\ now' \in 1..CallbacksTo
         /\ inject' = inject /\ up
         /\ quiet' = (IF audio_ THEN quiet ELSE quiet \cup {now'})
         /\ quiet' \subseteq 1..now' /\ now' \notin queued /\ now' \notin released
BY DecklinkConstants DEF Decklink!Arrives, DecklinkInv, DeckTypes

(* A callback that hands nothing to the filter and keeps no picture.       *)
QuietCallback(audio_) ==
  /\ Decklink!Arrives(audio_)
  /\ up' \in BOOLEAN
  /\ injected' = injected \/ (injected' = injected + 1 /\ ~up')
  /\ UNCHANGED <<trouble, lastFrame, seen, dropped, cached, lastPts, frame, queued,
                 released, missing, captions>>

(* A callback with a picture, wherever it gave up.                         *)
PictureCallback(audio_) ==
  /\ Decklink!Arrives(audio_)
  /\ up' \in BOOLEAN /\ injected' = 0 /\ Decklink!Signal
  /\ UNCHANGED <<missing, captions>> \/ \E has \in BOOLEAN : Decklink!Captions(has)
  /\ \/ UNCHANGED <<frame, queued>> /\ lastPts' \in {lastPts, Decklink!AudioTime(audio_)}
     \/ Decklink!FrameQueued(audio_) /\ vanc' = {now'}
  /\ cached' = cached \/ cached' = IF inject THEN now' ELSE cached
  /\ trouble \subseteq trouble'
  /\ cached' = (IF inject THEN now' ELSE cached) \/ Failed(now)'
  /\ \/ released' = released
     \/ /\ released' = released \cup {now'}
        /\ UNCHANGED queued \/ [at |-> now', how |-> "ttx"] \in trouble'

LEMMA CallbackKinds ==
  ASSUME DecklinkInv, Decklink!Next
  PROVE  \E audio_ \in BOOLEAN :
           QuietCallback(audio_) \/ Decklink!InjectFrame(audio_) \/ PictureCallback(audio_)
<1>1. ASSUME NEW audio_ \in BOOLEAN, NEW video_ \in BOOLEAN, up,
             Decklink!AudioWatchdog(audio_, video_)
      PROVE  up' \in BOOLEAN
  BY <1>1 DEF Decklink!AudioWatchdog, DecklinkInv, DeckTypes
<1>2. CASE Decklink!AudioOnly
  <2>1. up /\ Decklink!Arrives(TRUE)
    BY <1>2 DEF Decklink!AudioOnly, Decklink!Blank, Decklink!Arrives
  <2>2. up' \in BOOLEAN
    BY <1>1, <1>2, <2>1 DEF Decklink!AudioOnly
  <2>3. QuietCallback(TRUE)
    BY <1>2, <2>1, <2>2 DEF Decklink!AudioOnly, QuietCallback, Decklink!watch,
                            Decklink!output, Decklink!text
  <2> QED
    BY <2>3
<1>3. ASSUME NEW a \in BOOLEAN, NEW has \in BOOLEAN, Decklink!Callback(a, has)
      PROVE  QuietCallback(a) \/ Decklink!InjectFrame(a) \/ PictureCallback(a)
  <2>1. CASE Decklink!NothingToInject(a) \/ Decklink!TooManyInjected(a)
             \/ Decklink!NoSignal(a) \/ Decklink!SignalEnds(a)
    <3>1. /\ Decklink!Arrives(a)
          /\ injected' = injected \/ (injected' = injected + 1 /\ up' = FALSE)
          /\ up' = up \/ up' = FALSE \/ Decklink!AudioWatchdog(a, TRUE)
          /\ UNCHANGED <<trouble, lastFrame, seen, dropped, cached, lastPts, frame, queued,
                         released, missing, captions>>
      BY <2>1 DEF Decklink!NothingToInject, Decklink!TooManyInjected, Decklink!NoSignal,
                  Decklink!SignalEnds, Decklink!Blank, Decklink!watch, Decklink!output,
                  Decklink!text
    <3>2. up' \in BOOLEAN
      <4>1. up
        BY <3>1 DEF Decklink!Arrives
      <4>2. up' = up \/ up' = FALSE => up' \in BOOLEAN
        BY DEF DecklinkInv, DeckTypes
      <4> QED
        BY <1>1, <3>1, <4>1, <4>2
    <3> QED
      BY <3>1, <3>2 DEF QuietCallback
  <2>2. ASSUME Decklink!Begin(a)
        PROVE  Decklink!Arrives(a) /\ up' \in BOOLEAN /\ injected' = 0 /\ Decklink!Signal
    <3>1. up /\ Decklink!AudioWatchdog(a, TRUE)
      BY <2>2 DEF Decklink!Begin, Decklink!Arrives
    <3> QED
      BY <1>1, <2>2, <3>1 DEF Decklink!Begin
  <2>3. ASSUME NEW how, Decklink!Fails(how)
        PROVE  trouble \subseteq trouble' /\ [at |-> now', how |-> how] \in trouble'
               /\ Failed(now)'
    <3>1. trouble \subseteq trouble' /\ [at |-> now', how |-> how] \in trouble'
      BY <2>3 DEF Decklink!Fails
    <3>2. [at |-> now', how |-> how].at = now'
      OBVIOUS
    <3> QED
      BY <3>1, <3>2 DEF Failed
  <2>4. CASE Decklink!Queue(a, has)
    BY <2>2, <2>4 DEF Decklink!Queue, Decklink!Cache, Decklink!Lines, Decklink!VancReset,
                      PictureCallback
  <2>5. CASE Decklink!FailBeforeFrame(a)
    BY <2>2, <2>3, <2>5 DEF Decklink!FailBeforeFrame, PictureCallback, Decklink!text,
                            Decklink!output
  <2>6. CASE Decklink!FailInVbi(a, has)
    BY <2>2, <2>3, <2>6 DEF Decklink!FailInVbi, PictureCallback, Decklink!output
  <2>7. CASE Decklink!FailInPicture(a, has)
    BY <2>2, <2>3, <2>7 DEF Decklink!FailInPicture, PictureCallback, Decklink!output
  <2>8. CASE Decklink!FailToQueue(a, has)
    BY <2>2, <2>3, <2>8 DEF Decklink!FailToQueue, PictureCallback
  <2>9. CASE Decklink!FailInTeletext(a, has)
    BY <2>2, <2>3, <2>9 DEF Decklink!FailInTeletext, PictureCallback, Decklink!Lines,
                            Decklink!VancReset
  <2> QED
    BY <1>3, <2>1, <2>4, <2>5, <2>6, <2>7, <2>8, <2>9 DEF Decklink!Callback
<1> QED
  BY <1>2, <1>3 DEF Decklink!Next

LEMMA QuietKeeps ==
  ASSUME DecklinkInv, NEW audio_ \in BOOLEAN, QuietCallback(audio_)
  PROVE  DecklinkInv'
<1>1. /\ now \in Nat /\ now < now' /\ now' \in 1..CallbacksTo /\ inject' = inject /\ up
      /\ quiet' \subseteq 1..now'
  BY Arrival DEF QuietCallback
<1>2. /\ up' \in BOOLEAN /\ (injected' = injected \/ (injected' = injected + 1 /\ ~up'))
      /\ UNCHANGED <<trouble, lastFrame, seen, dropped, cached, lastPts, frame, queued,
                     released, missing, captions>>
  BY DEF QuietCallback
<1>3. DeckTypes'
  <2>1. injected' \in 0..MaxInjected + 1 /\ (up' => injected' <= MaxInjected)
    BY <1>1, <1>2, DecklinkConstants DEF DecklinkInv, DeckTypes
  <2> QED
    BY <1>1, <1>2, <2>1 DEF DecklinkInv, DeckTypes
<1>4. FrameInv'
  BY <1>1, <1>2 DEF DecklinkInv, FrameInv
<1>5. LossInv' /\ NewestInv'
  BY <1>1, <1>2 DEF DecklinkInv, LossInv, GapBefore, NewestInv, Decklink!InjectsNewest, Failed
<1>6. CaptionInv' /\ Decklink!FramesOwned'
  BY <1>2 DEF DecklinkInv, CaptionInv, Decklink!FramesOwned
<1> QED
  BY <1>3, <1>4, <1>5, <1>6 DEF DecklinkInv

(* An injected frame shows what is cached, at a time of its own.           *)
LEMMA InjectKeeps ==
  ASSUME DecklinkInv, NEW audio_ \in BOOLEAN, Decklink!InjectFrame(audio_)
  PROVE  DecklinkInv'
<1>1. /\ now \in Nat /\ now < now' /\ now' \in 1..CallbacksTo /\ inject' = inject /\ up
      /\ quiet' \subseteq 1..now'
  BY Arrival DEF Decklink!InjectFrame, Decklink!Blank
<1>2. /\ inject /\ injected' = injected + 1 /\ injected < MaxInjected
      /\ frame' = [Decklink!NoFrame EXCEPT !.pts = now', !.audio = now', !.image = cached,
                     !.injected = TRUE]
      /\ UNCHANGED <<up, trouble, lastFrame, seen, dropped, cached, lastPts, queued,
                     released, missing, captions>>
  BY DEF Decklink!InjectFrame, Decklink!watch, Decklink!text
<1>3. /\ frame'.pts = now' /\ frame'.audio = now' /\ frame'.image = cached
      /\ frame'.meta = {} /\ frame'.injected = TRUE
  BY <1>2 DEF Decklink!NoFrame
<1>4. DeckTypes'
  <2>1. injected' \in 0..MaxInjected + 1 /\ injected' <= MaxInjected
    BY <1>1, <1>2, DecklinkConstants DEF DecklinkInv, DeckTypes
  <2> QED
    BY <1>1, <1>2, <2>1 DEF DecklinkInv, DeckTypes
<1>5. FrameInv'
  BY <1>1, <1>2, <1>3 DEF FrameInv
<1>6. LossInv'
  BY <1>1, <1>2 DEF DecklinkInv, LossInv, GapBefore
<1>7. NewestInv'
  BY <1>1, <1>2, <1>3 DEF DecklinkInv, NewestInv, Decklink!InjectsNewest, Failed
<1>8. CaptionInv' /\ Decklink!FramesOwned'
  BY <1>2 DEF DecklinkInv, CaptionInv, Decklink!FramesOwned
<1> QED
  BY <1>4, <1>5, <1>6, <1>7, <1>8 DEF DecklinkInv

(* The runs of a sequence that grows: those there are stay as they are,    *)
(* and the last goes on or ends.                                           *)
LEMMA RunsOfAppend ==
  ASSUME NEW c \in Seq([has : BOOLEAN, reset : BOOLEAN]),
         NEW e \in [has : BOOLEAN, reset : BOOLEAN]
  PROVE  /\ Append(c, e) \in Seq([has : BOOLEAN, reset : BOOLEAN])
         /\ Len(Append(c, e)) = Len(c) + 1 /\ Len(c) \in Nat
         /\ Append(c, e)[Len(c) + 1] = e
         /\ \A i \in 1..Len(c) : /\ Append(c, e)[i] = c[i]
                                 /\ Run(Append(c, e), i) = Run(c, i)
         /\ IsFiniteSet(Run(c, Len(c))) /\ Len(c) + 1 \notin Run(c, Len(c))
         /\ Run(Append(c, e), Len(c) + 1) =
              (IF e.has THEN {} ELSE Run(c, Len(c)) \cup {Len(c) + 1})
<1> DEFINE d == Append(c, e)
           n == Len(c)
<1>1. /\ d \in Seq([has : BOOLEAN, reset : BOOLEAN]) /\ Len(d) = n + 1 /\ n \in Nat
      /\ d[n + 1] = e /\ \A i \in 1..n : d[i] = c[i]
  BY AppendProperties, LenProperties
<1> HIDE DEF d, n
<1>2. ASSUME NEW i \in 1..n PROVE Run(d, i) = Run(c, i)
  <2>1. \A j \in 1..i : \A k \in j..i : d[k].has = c[k].has
    BY <1>1
  <2> QED
    BY <2>1 DEF Run
<1>3. IsFiniteSet(Run(c, n)) /\ n + 1 \notin Run(c, n)
  <2>1. Run(c, n) \in SUBSET (1..n) /\ IsFiniteSet(1..n)
    BY <1>1, FS_Interval DEF Run
  <2> QED
    BY <1>1, <2>1, FS_Subset
<1>4. CASE e.has
  <2>1. \A j \in 1..n + 1 : n + 1 \in j..n + 1
    BY <1>1
  <2>2. Run(d, n + 1) = {}
    BY <1>1, <1>4, <2>1 DEF Run
  <2> QED
    BY <1>1, <1>2, <1>3, <1>4, <2>2 DEF d, n
<1>5. CASE ~e.has
  <2>1. ASSUME NEW j \in 1..n + 1
        PROVE  j \in Run(d, n + 1) <=> j \in Run(c, n) \cup {n + 1}
    <3>1. CASE j = n + 1
      <4>1. \A k \in j..n + 1 : k = n + 1
        BY <1>1, <3>1
      <4> QED
        BY <1>1, <1>5, <3>1, <4>1 DEF Run
    <3>2. CASE j # n + 1
      <4>1. /\ j \in 1..n /\ \A k \in j..n + 1 : k = n + 1 \/ k \in j..n
            /\ \A k \in j..n : k \in j..n + 1 /\ k \in 1..n
        BY <1>1, <2>1, <3>2
      <4>2. (\A k \in j..n + 1 : ~d[k].has) <=> (\A k \in j..n : ~c[k].has)
        BY <1>1, <1>5, <4>1
      <4> QED
        BY <3>2, <4>1, <4>2 DEF Run
    <3> QED
      BY <3>1, <3>2
  <2>2. Run(d, n + 1) = Run(c, n) \cup {n + 1}
    <3>1. Run(d, n + 1) \subseteq 1..n + 1 /\ Run(c, n) \cup {n + 1} \subseteq 1..n + 1
      BY <1>1 DEF Run
    <3> QED
      BY <2>1, <3>1
  <2> QED
    BY <1>1, <1>2, <1>3, <1>5, <2>2 DEF d, n
<1> QED
  BY <1>4, <1>5

(* A frame is added to the count, and the captions are reset when the run  *)
(* has just become longer than the limit.                                  *)
LEMMA CaptionsKeep ==
  ASSUME CaptionInv, NEW has_ \in BOOLEAN, Decklink!Captions(has_)
  PROVE  CaptionInv' /\ missing' \in Nat
<1> DEFINE e == [has |-> has_, reset |-> ~has_ /\ missing = MissingLimit]
           n == Len(captions)
           R == Run(captions, n)
<1>1. /\ missing' = (IF has_ THEN 0 ELSE missing + 1) /\ captions' = Append(captions, e)
  BY DEF Decklink!Captions
<1>2. e \in [has : BOOLEAN, reset : BOOLEAN] /\ e.has = has_
      /\ e.reset = (~has_ /\ missing = MissingLimit)
  OBVIOUS
<1>3. captions \in Seq([has : BOOLEAN, reset : BOOLEAN]) /\ missing = Cardinality(R)
  BY DEF CaptionInv
<1> HIDE DEF e
<1>4. /\ captions' \in Seq([has : BOOLEAN, reset : BOOLEAN])
      /\ Len(captions') = n + 1 /\ n \in Nat
      /\ captions'[n + 1] = e
      /\ \A i \in 1..n : captions'[i] = captions[i] /\ Run(captions', i) = Run(captions, i)
      /\ IsFiniteSet(R) /\ n + 1 \notin R
      /\ Run(captions', n + 1) = (IF e.has THEN {} ELSE R \cup {n + 1})
  <2> DEFINE d == Append(captions, e)
  <2>1. /\ d \in Seq([has : BOOLEAN, reset : BOOLEAN])
        /\ Len(d) = n + 1 /\ n \in Nat /\ d[n + 1] = e
        /\ \A i \in 1..n : d[i] = captions[i] /\ Run(d, i) = Run(captions, i)
        /\ IsFiniteSet(R) /\ n + 1 \notin R
        /\ Run(d, n + 1) = (IF e.has THEN {} ELSE R \cup {n + 1})
    BY <1>2, <1>3, RunsOfAppend
  <2>2. captions' = d
    BY <1>1
  <2> HIDE DEF d, R, n
  <2> QED
    BY <2>1, <2>2, Zenon
<1> HIDE DEF R, n
<1>5. missing \in Nat
  BY <1>3, <1>4, FS_CardinalityType
<1>6. missing' = Cardinality(Run(captions', n + 1)) /\ missing' \in Nat
  <2>1. CASE has_
    BY <1>1, <1>2, <1>4, <2>1, FS_EmptySet
  <2>2. CASE ~has_
    <3>1. Cardinality(R \cup {n + 1}) = Cardinality(R) + 1
      BY <1>4, FS_AddElement
    <3>2. missing' = missing + 1
      BY <1>1, <2>2
    <3>3. Run(captions', n + 1) = R \cup {n + 1}
      BY <1>2, <1>4, <2>2
    <3>4. missing' = Cardinality(R) + 1
      BY <1>3, <3>2
    <3>5. missing' = Cardinality(Run(captions', n + 1))
      BY <3>1, <3>3, <3>4, Zenon
    <3> QED
      BY <1>5, <3>2, <3>5
  <2> QED
    BY <2>1, <2>2
<1>7. captions'[n + 1].reset <=> missing' = MissingLimit + 1
  <2>1. MissingLimit \in Nat
    BY DecklinkConstants
  <2>2. (~has_ /\ missing = MissingLimit) <=> missing' = MissingLimit + 1
    BY <1>1, <1>5, <2>1
  <2>3. e.reset <=> (~has_ /\ missing = MissingLimit)
    BY <1>2
  <2> QED
    BY <1>4, <2>2, <2>3
<1>8. ASSUME NEW i \in 1..n + 1
      PROVE  captions'[i].reset <=> Cardinality(Run(captions', i)) = MissingLimit + 1
  <2>1. CASE i = n + 1
    BY <1>6, <1>7, <2>1
  <2>2. CASE i # n + 1
    <3>1. i \in 1..n
      BY <1>4, <2>2
    <3> QED
      BY <1>4, <3>1 DEF CaptionInv, n
  <2> QED
    BY <2>1, <2>2
<1> QED
  BY <1>4, <1>6, <1>8 DEF CaptionInv

LEMMA GapsStayDropped ==
  ASSUME DecklinkInv, now \in Nat, now < now', now' \in Nat, inject' = inject, Decklink!Signal
  PROVE  LossInv'
<1>1. /\ lastFrame' = now' /\ seen' = seen \cup {now'}
      /\ dropped' = (IF Decklink!Late /\ ~inject THEN now' ELSE dropped)
  BY DEF Decklink!Signal
<1>2. seen \subseteq 1..now /\ dropped \in 0..now /\ lastFrame <= now
  BY DEF DecklinkInv, DeckTypes
<1>3. ASSUME ~inject, NEW s \in seen', GapBefore(s)'
      PROVE  dropped' >= s
  <2>1. PICK r \in seen' : r < s /\ s - r >= SdiMaxDelay /\ \A t \in seen' : t < s => t <= r
    BY <1>3 DEF GapBefore
  <2>2. \A t \in seen : t \in Nat /\ t <= now /\ t \in seen'
    BY <1>1, <1>2
  <2>3. r \in seen
    BY <1>1, <2>1, <2>2
  <2>4. CASE s \in seen
    <3>1. GapBefore(s)
      BY <2>1, <2>2, <2>3, <2>4 DEF GapBefore
    <3>2. dropped >= s
      BY <1>3, <2>4, <3>1 DEF DecklinkInv, LossInv
    <3> QED
      BY <1>1, <1>2, <2>2, <2>4, <3>2
  <2>5. CASE s = now'
    <3>1. lastFrame \in seen /\ r <= lastFrame
      BY <2>2, <2>3 DEF DecklinkInv, LossInv
    <3>2. lastFrame = r
      BY <2>1, <2>2, <2>3, <2>5, <3>1
    <3>3. Decklink!Late
      <4>1. now' - lastFrame >= SdiMaxDelay /\ lastFrame # 0 - 1
        BY <2>1, <2>2, <2>3, <2>5, <3>2
      <4> QED
        BY <4>1 DEF Decklink!Late, Decklink!Nothing
    <3> QED
      BY <1>1, <1>3, <2>5, <3>3
  <2> QED
    BY <1>1, <1>3, <2>4, <2>5
<1>4. \A s \in seen' : s <= now'
  BY <1>1, <1>2
<1> QED
  BY <1>1, <1>3, <1>4 DEF LossInv

LEMMA PictureKeeps ==
  ASSUME DecklinkInv, NEW audio_ \in BOOLEAN, PictureCallback(audio_)
  PROVE  DecklinkInv'
<1>1. /\ now \in Nat /\ now' \in Nat /\ now < now' /\ now' \in 1..CallbacksTo
      /\ inject' = inject
      /\ up /\ quiet' = (IF audio_ THEN quiet ELSE quiet \cup {now'}) /\ quiet' \subseteq 1..now'
      /\ now' \notin queued /\ now' \notin released
  BY Arrival DEF PictureCallback
<1>2. /\ up' \in BOOLEAN /\ injected' = 0 /\ Decklink!Signal
      /\ UNCHANGED <<missing, captions>> \/ \E has \in BOOLEAN : Decklink!Captions(has)
      /\ \/ UNCHANGED <<frame, queued>> /\ lastPts' \in {lastPts, Decklink!AudioTime(audio_)}
         \/ Decklink!FrameQueued(audio_) /\ vanc' = {now'}
      /\ cached' = cached \/ cached' = (IF inject THEN now' ELSE cached)
      /\ trouble \subseteq trouble'
      /\ cached' = (IF inject THEN now' ELSE cached) \/ Failed(now)'
      /\ \/ released' = released
         \/ /\ released' = released \cup {now'}
            /\ UNCHANGED queued \/ [at |-> now', how |-> "ttx"] \in trouble'
  BY DEF PictureCallback
<1>3. /\ lastFrame' = now' /\ seen' = seen \cup {now'} /\ dropped' \in {dropped, now'}
  BY <1>2 DEF Decklink!Signal
<1>4. DeckTypes /\ FrameInv
  BY DEF DecklinkInv
<1>5. CaptionInv' /\ missing' \in Nat
  <2>1. CASE UNCHANGED <<missing, captions>>
    BY <2>1, <1>4 DEF DecklinkInv, CaptionInv, DeckTypes
  <2> QED
    BY <1>2, <2>1, CaptionsKeep DEF DecklinkInv
<1>6. /\ Decklink!AudioTime(audio_) \in 0..now' /\ Decklink!AudioTime(audio_) >= lastPts
      /\ lastPts' \in {lastPts, Decklink!AudioTime(audio_)}
      /\ lastPts' \in 0..now' /\ lastPts' >= lastPts
  <2>1. /\ Decklink!AudioTime(audio_) \in 0..now' /\ Decklink!AudioTime(audio_) >= lastPts
    BY <1>1, <1>4 DEF Decklink!AudioTime, DeckTypes
  <2>2. lastPts' \in {lastPts, Decklink!AudioTime(audio_)}
    BY <1>2 DEF Decklink!FrameQueued
  <2> QED
    BY <1>1, <1>4, <2>1, <2>2 DEF DeckTypes
<1>7. queued' = queued \/ queued' = queued \cup {now'}
  BY <1>2 DEF Decklink!FrameQueued
<1>8. DeckTypes'
  <2>1. cached' \in Int /\ -1 <= cached' /\ cached' <= now'
    BY <1>1, <1>2, <1>4 DEF DeckTypes
  <2>2. released' \subseteq 1..now' /\ seen' \subseteq 1..now' /\ queued' \subseteq 1..now'
    <3>1. \A S : S \subseteq 1..now => S \subseteq 1..now' /\ S \cup {now'} \subseteq 1..now'
      BY <1>1
    <3>2. seen \subseteq 1..now /\ released \subseteq 1..now /\ queued \subseteq 1..now
      BY <1>4 DEF DeckTypes
    <3>3. released' \in {released, released \cup {now'}}
      BY <1>2
    <3> QED
      BY <1>3, <1>7, <3>1, <3>2, <3>3
  <2>3. injected' \in 0..MaxInjected + 1 /\ injected' <= MaxInjected
    BY <1>2, DecklinkConstants
  <2>4. dropped' \in 0..now' /\ lastFrame' \in Int /\ -1 <= lastFrame' /\ lastFrame' <= now'
    BY <1>1, <1>3, <1>4 DEF DeckTypes
  <2> QED
    BY <1>1, <1>2, <1>4, <1>5, <1>6, <2>1, <2>2, <2>3, <2>4 DEF DeckTypes
<1>9. FrameInv' /\ (frame' = frame \/ (~frame'.injected /\ frame'.pts = now'))
  <2>1. CASE UNCHANGED <<frame, queued>>
    <3>1. frame.audio <= lastPts => frame.audio <= lastPts'
      BY <1>1, <1>4, <1>6 DEF FrameInv, DeckTypes
    <3> QED
      BY <1>1, <1>4, <2>1, <3>1 DEF FrameInv
  <2>2. CASE Decklink!FrameQueued(audio_) /\ vanc' = {now'}
    <3>1. /\ frame' = [pts |-> now', audio |-> Decklink!AudioTime(audio_), image |-> now',
                       meta |-> {now'}, injected |-> FALSE]
          /\ lastPts' = Decklink!AudioTime(audio_)
      BY <2>2 DEF Decklink!FrameQueued
    <3>2. /\ frame'.pts = now' /\ frame'.audio = lastPts' /\ frame'.meta = {now'}
          /\ frame'.injected = FALSE
      BY <3>1
    <3> QED
      BY <1>1, <1>6, <3>2 DEF FrameInv
  <2> QED
    BY <1>2, <2>1, <2>2
<1>10. LossInv'
  BY <1>1, <1>2, GapsStayDropped
<1>11. Decklink!FramesOwned'
  <2> SUFFICES ASSUME NEW f \in queued' \cap released'
               PROVE [at |-> f, how |-> "ttx"] \in trouble'
    BY DEF Decklink!FramesOwned
  <2>1. CASE f \in queued /\ f \in released
    BY <1>2, <2>1 DEF DecklinkInv, Decklink!FramesOwned
  <2>2. CASE ~(f \in queued /\ f \in released)
    BY <1>1, <1>2, <1>7, <2>2
  <2> QED
    BY <2>1, <2>2
<1>12. NewestInv'
  <2>1. \A s : Failed(s) => Failed(s)'
    BY <1>2 DEF Failed
  <2>2. ASSUME inject, NEW s \in seen', s > cached'
        PROVE  Failed(s)'
    <3>1. CASE cached' = now'
      BY <1>1, <1>3, <1>4, <2>2, <3>1 DEF DeckTypes
    <3>2. CASE cached' # now'
      <4>1. cached' = cached /\ Failed(now)'
        BY <1>2, <2>2, <3>2
      <4>2. CASE s \in seen
        BY <2>1, <2>2, <4>1, <4>2 DEF DecklinkInv, NewestInv
      <4>3. CASE s = now'
        BY <4>1, <4>3 DEF Failed
      <4> QED
        BY <1>3, <2>2, <4>2, <4>3
    <3> QED
      BY <3>1, <3>2
  <2>3. Decklink!InjectsNewest'
    <3> SUFFICES ASSUME frame'.injected, NEW s \in seen', s > frame'.image, s < frame'.pts
                 PROVE \E t \in trouble' : t.at = s
      BY DEF Decklink!InjectsNewest
    <3>1. frame' = frame
      BY <1>9
    <3>2. s \in seen
      BY <1>1, <1>3, <1>4, <3>1 DEF FrameInv
    <3> QED
      BY <1>2, <3>1, <3>2 DEF DecklinkInv, NewestInv, Decklink!InjectsNewest
  <2> QED
    BY <1>1, <2>2, <2>3 DEF NewestInv
<1> QED
  BY <1>5, <1>8, <1>9, <1>10, <1>11, <1>12 DEF DecklinkInv

LEMMA DecklinkStep == DecklinkInv /\ [Decklink!Next]_(Decklink!vars) => DecklinkInv'
<1> SUFFICES ASSUME DecklinkInv, [Decklink!Next]_(Decklink!vars)
             PROVE DecklinkInv'
  OBVIOUS
<1>1. CASE Decklink!Next
  BY <1>1, CallbackKinds, QuietKeeps, InjectKeeps, PictureKeeps
<1>2. CASE UNCHANGED Decklink!vars
  <2>1. UNCHANGED <<inject, now, up, lastFrame, cached, injected, lastPts, missing, frame,
                    seen, captions, dropped, queued, released, trouble, quiet>>
    BY <1>2 DEF Decklink!vars
  <2>2. DeckTypes' /\ FrameInv' /\ CaptionInv'
    BY <2>1 DEF DecklinkInv, DeckTypes, FrameInv, CaptionInv
  <2>3. LossInv' /\ Decklink!FramesOwned' /\ NewestInv'
    BY <2>1 DEF DecklinkInv, LossInv, GapBefore, Decklink!FramesOwned, NewestInv,
                Decklink!InjectsNewest, Failed
  <2> QED
    BY <2>2, <2>3 DEF DecklinkInv
<1> QED
  BY <1>1, <1>2

LEMMA DecklinkInvariant == Spec => []DecklinkInv
BY DecklinkInit, DecklinkStep, ModesStart, ModesStep, PTL DEF Spec

(* A set of numbers that are bounded has a largest one, which is what Max  *)
(* returns.                                                                *)
LEMMA Largest ==
  ASSUME NEW n \in Nat, NEW S \in SUBSET (0..n), S # {}
  PROVE  Decklink!Max(S) \in S /\ \A t \in S : t <= Decklink!Max(S)
<1> DEFINE T == {n - x : x \in S}
<1>1. T \in SUBSET Nat /\ T # {}
  <2>1. \A x \in S : x \in 0..n /\ n - x \in Nat
    OBVIOUS
  <2> QED
    BY <2>1
<1>2. PICK m \in T : \A k \in T : m <= k
  BY <1>1, Smallest
<1>3. PICK x \in S : m = n - x
  BY <1>2
<1>4. ASSUME NEW t \in S PROVE x >= t
  <2>1. n - t \in T
    BY <1>4
  <2>2. n - x <= n - t
    BY <1>2, <1>3, <2>1
  <2> QED
    BY <1>3, <1>4, <2>2
<1>5. \A t \in S : Decklink!Max(S) \in S /\ Decklink!Max(S) >= t
  BY <1>3, <1>4 DEF Decklink!Max
<1> QED
  BY <1>3, <1>5

LEMMA LossIsSilence ==
  ASSUME DecklinkInv
  PROVE  Decklink!LossIsDropped
<1> SUFFICES ASSUME ~inject, NEW s \in seen, Decklink!SilentBefore(s) >= SdiMaxDelay,
                    NEW r \in seen, r < s
             PROVE dropped >= s
  BY DEF Decklink!LossIsDropped
<1> DEFINE B == {t \in seen : t < s}
           m == Decklink!Max({0} \cup B)
<1>1. now \in Nat /\ seen \subseteq 1..now
  BY DEF DecklinkInv, DeckTypes
<1>2. {0} \cup B \in SUBSET (0..now) /\ {0} \cup B # {} /\ r \in B
  <2>1. 0 \in 0..now /\ \A t \in seen : t \in 0..now
    BY <1>1
  <2> QED
    BY <2>1
<1>3. m \in {0} \cup B /\ \A t \in {0} \cup B : t <= m
  BY <1>1, <1>2, Largest
<1>4. s - m >= SdiMaxDelay
  BY DEF Decklink!SilentBefore
<1> HIDE DEF m
<1>5. m \in B
  <2>1. r <= m /\ r \in Nat \ {0}
    BY <1>1, <1>2, <1>3
  <2>2. m # 0
    BY <2>1
  <2> QED
    BY <1>3, <2>2
<1>6. GapBefore(s)
  <2>1. m \in seen /\ m < s
    BY <1>5
  <2>2. \A t \in seen : t < s => t <= m
    BY <1>3
  <2> QED
    BY <1>4, <2>1, <2>2 DEF GapBefore
<1> QED
  BY <1>6 DEF DecklinkInv, LossInv

LEMMA CaptionsReset ==
  ASSUME DecklinkInv
  PROVE  Decklink!CaptionsResetOnce
<1>1. DOMAIN captions = 1..Len(captions)
  BY LenProperties DEF DecklinkInv, CaptionInv
<1>2. \A i : Decklink!RunBefore(i) = Run(captions, i)
  BY DEF Decklink!RunBefore, Run
<1>3. \A S : Decklink!Cardinality(S) = Cardinality(S)
  BY DEF Decklink!Cardinality, Cardinality
<1>4. \A i \in 1..Len(captions) :
        captions[i].reset <=> Cardinality(Run(captions, i)) = MissingLimit + 1
  BY DEF DecklinkInv, CaptionInv
<1> QED
  BY <1>1, <1>2, <1>3, <1>4 DEF Decklink!CaptionsResetOnce

(* Whatever is lost, injected or fails half way through a frame (the       *)
(* callback of decklink.cpp): a gap is dropped, captions are reset once in *)
(* a run, no frame is freed that is queued, metadata and injected pictures *)
(* are the right ones.                                                     *)
THEOREM DecklinkIsSound == Spec => []DecklinkSound
<1>1. DecklinkInv => DecklinkSound
  <2> SUFFICES ASSUME DecklinkInv PROVE DecklinkSound
    OBVIOUS
  <2>1. Decklink!TypeOK
    <3>1. DeckTypes /\ CallbacksTo \in Nat
      BY DecklinkConstants DEF DecklinkInv
    <3>2. /\ lastFrame \in (0 - 1)..CallbacksTo /\ cached \in (0 - 1)..CallbacksTo
          /\ lastPts \in 0..CallbacksTo /\ dropped \in 0..CallbacksTo
      BY <3>1 DEF DeckTypes
    <3>3. released \cup seen \cup quiet \subseteq 1..CallbacksTo
      <4>1. 1..now \subseteq 1..CallbacksTo
        BY <3>1 DEF DeckTypes
      <4> QED
        BY <3>1, <4>1 DEF DeckTypes
    <3> QED
      BY <3>1, <3>2, <3>3 DEF Decklink!TypeOK, DeckTypes
  <2>2. Decklink!MetadataInTime
    BY DEF DecklinkInv, FrameInv, Decklink!MetadataInTime
  <2> QED
    BY <2>1, <2>2, LossIsSilence, CaptionsReset DEF DecklinkSound, DecklinkInv, NewestInv
<1> QED
  BY <1>1, DecklinkInvariant, PTL

LEMMA FrameTimesAdvance ==
  ASSUME DecklinkInv, Decklink!Next, frame' # frame
  PROVE  /\ frame'.pts > frame.pts /\ frame'.pts = now'
         /\ (~inject \/ quiet' = {}) => frame'.audio > frame.audio
<1>1. PICK audio_ \in BOOLEAN : \/ Decklink!InjectFrame(audio_)
                                \/ PictureCallback(audio_) /\ Decklink!FrameQueued(audio_)
  BY CallbackKinds DEF QuietCallback, PictureCallback
<1>2. /\ Decklink!Arrives(audio_) /\ FrameInv
  BY <1>1 DEF Decklink!InjectFrame, Decklink!Blank, PictureCallback, DecklinkInv
<1>3. /\ now \in Nat /\ now < now' /\ now' \in Nat
      /\ quiet' = (IF audio_ THEN quiet ELSE quiet \cup {now'})
  BY <1>2, Arrival
<1>4. frame.pts \in Nat /\ frame.pts <= now /\ frame.audio \in Nat /\ frame.audio <= now
      /\ (~inject => frame.audio <= lastPts) /\ lastPts \in Nat
  BY <1>2, <1>3 DEF FrameInv, DecklinkInv, DeckTypes
<1>5. CASE Decklink!InjectFrame(audio_)
  <2>1. frame' = [Decklink!NoFrame EXCEPT !.pts = now', !.audio = now', !.image = cached,
                     !.injected = TRUE]
    BY <1>5 DEF Decklink!InjectFrame
  <2>2. frame'.pts = now' /\ frame'.audio = now'
    BY <2>1 DEF Decklink!NoFrame
  <2> QED
    BY <1>3, <1>4, <2>2
<1>6. CASE Decklink!FrameQueued(audio_)
  <2>1. frame'.pts = now' /\ frame'.audio = (IF audio_ THEN now' ELSE lastPts + 1)
    BY <1>6 DEF Decklink!FrameQueued, Decklink!AudioTime
  <2>2. ~audio_ => quiet' # {}
    BY <1>3
  <2> QED
    BY <1>3, <1>4, <2>1, <2>2
<1> QED
  BY <1>1, <1>5, <1>6

(* Times go up from a start to the next, whatever input it is: those of    *)
(* pictures and audio of decklink although frames are injected, of ndi     *)
(* over a timeout; the audio of dektec goes up over a restart too; linsys  *)
(* drops after a gap and bluefish repeats nothing.                         *)
THEOREM InputTimesAdvance == Spec => TimesAdvance
<1>1. DecklinkInv /\ [Decklink!Next]_(Decklink!vars) =>
        /\ [frame' # frame => frame'.pts > frame.pts /\ frame'.pts = now']_(Decklink!vars)
        /\ [(frame' # frame /\ (~inject \/ quiet' = {}))
              => frame'.audio > frame.audio]_(Decklink!vars)
  BY FrameTimesAdvance DEF Decklink!vars
<1>2. ClocksInv /\ [Clocks!Next]_(Clocks!vars) =>
        /\ [(video' # video /\ video.at >= 0 /\ starts' = starts /\ ~truncated')
              => video'.pts > video.pts]_(Clocks!vars)
        /\ [(kind # "v4l2" /\ audio' # audio /\ audio.at >= 0 /\ starts' = starts
              /\ ~truncated) => audio'.pts > audio.pts]_(Clocks!vars)
        /\ [(kind = "linsys" /\ video' # video /\ video.at >= 0 /\ starts' = starts
              /\ video'.at - video.at >= SdiMaxDelay) => drop' = moment]_(Clocks!vars)
        /\ [(kind = "dektec" /\ audio' # audio /\ audio'.at >= 0 /\ earlier'.at >= 0)
              => audio'.pts > earlier'.pts]_(Clocks!vars)
  BY ClockTimesAdvance, ClockAudioAdvances, LinsysDrops, DektecGoesOn
<1>3. RingInv /\ [Bluefish!Next]_(Bluefish!vars) =>
        [picture' # picture => picture' > picture]_(Bluefish!vars)
  BY RingAdvances
<1> QED
  BY <1>1, <1>2, <1>3, DecklinkInvariant, ClocksInvariant, RingInvariant, ModesStep, PTL
     DEF Spec, TimesAdvance, Decklink!FramesInOrder, Decklink!AudioTimesAdvance,
         Clocks!VideoTimesAdvance, Clocks!AudioTimesAdvance, Clocks!AudioGoesOn,
         Clocks!GapIsDropped,
         Bluefish!PicturesAdvance
=============================================================================
