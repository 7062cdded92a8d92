---------------------------- MODULE CommandsProofs ----------------------------
(***************************************************************************)
(* The commands of obecli, for every value of their constants.  Each mode  *)
(* leaves the variables of the other alone, so that each keeps its own     *)
(* invariant in the composition: ModesStart and ModesStep say so.          *)
(***************************************************************************)
EXTENDS MCLifecycle, QueueLemmas, FiniteSetTheorems

LEMMA ModesStart == Init => Threads!Init /\ Commands!Init
BY DEF Init

LEMMA ModesStep ==
  [Next]_vars => [Threads!Next]_(Threads!vars) /\ [Commands!Next]_(Commands!vars)
BY DEF Next, ThreadsNext, CommandsNext, vars, threadVars, commandVars, Threads!vars,
       Commands!vars

(* The components count the elements of a set as everyone does.            *)
LEMMA SameCardinality ==
  \A S : Threads!Cardinality(S) = Cardinality(S) /\ Commands!Cardinality(S) = Cardinality(S)
BY DEF Threads!Cardinality, Commands!Cardinality, Cardinality
-----------------------------------------------------------------------------
(* The handle and its threads, for any threads in any order and any number *)
(* of commands, handles and probes.                                        *)
(*                                                                         *)
(* That no thread outlives its handle is known only at the end of          *)
(* obe_close; on the way the threads up to the current one are gone        *)
(* (ClosedSoFar).  That only a command after a failed start uses a freed   *)
(* handle needs to know that a handle was never one before (Numbered),     *)
(* that start and close are in the middle of a live one, and that the      *)
(* statistics thread looks only while the shell says that OBE runs         *)
(* (LiveWhileRunning).                                                     *)

LifeTypeOK ==
  /\ at \in Threads!Places /\ step \in Nat /\ h \in Nat
  /\ why \in {"stop", "quit", "failed"} /\ gRunning \in BOOLEAN
  /\ thread \in [Threads!T -> Threads!ThreadStates] /\ helper \in [Threads!Helpers -> Threads!HelperStates]

(* Handles are numbered in the order in which they are made and freed.     *)
Numbered == \E n \in Nat : freed = 1..n /\ h \in {0, n, n + 1}

(* obe_close has ended the threads before the one it is at.                *)
ClosedSoFar ==
  at = "closing" =>
    /\ step \in Nat \ {0}
    /\ \A i \in 1..Len(CloseOrder) : i < step => thread[CloseOrder[i]] \in {"none", "joined"}

LiveWhileRunning ==
  /\ at \in {"probing", "joining", "starting", "stopping", "closing"} => Threads!Usable
  /\ gRunning => Threads!Usable
  /\ at = "starting" \/ (at \in {"stopping", "closing"} /\ why = "failed") =>
       ~gRunning
  /\ \A x \in Threads!Helpers : helper[x] \in {"runs", "told"} =>
       gRunning /\ at # "closing"

LifeInv ==
  /\ Threads!ConstantsAreSound
  /\ LifeTypeOK /\ Numbered /\ ClosedSoFar /\ LiveWhileRunning
  /\ Threads!NothingOutlivesHandle /\ Threads!UsesLiveHandle
-----------------------------------------------------------------------------
(* The invariant holds at first.                                           *)
LEMMA LifeInit ==
  Threads!ConstantsAreSound /\ Threads!Init => LifeInv
<1> SUFFICES ASSUME Threads!ConstantsAreSound, Threads!Init PROVE LifeInv
  OBVIOUS
<1>1. LifeTypeOK
  BY DEF Threads!Init, LifeTypeOK, Threads!Places, Threads!ThreadStates, Threads!HelperStates
<1>2. Numbered
  BY DEF Threads!Init, Numbered
<1> QED
  BY <1>1, <1>2 DEF Threads!Init, LifeInv, ClosedSoFar, LiveWhileRunning, Threads!NothingOutlivesHandle,
    Threads!UsesLiveHandle, Threads!Usable, Threads!Helpers

(* Steps that change neither the handle, nor its threads and helpers.      *)
LEMMA ElsewhereKeeps ==
  ASSUME LifeInv, UNCHANGED <<why, h, freed, thread, gRunning, helper>>,
         \/ UNCHANGED <<at, step>>
         \/ at' \in {"probing", "joining", "idle"} /\ step' \in Nat /\ Threads!Usable
         \/ at' = "over" /\ step' = step
         \/ at' = "undefined" /\ step' = step /\ ~gRunning /\ h \in freed
  PROVE  LifeInv'
<1>1. LifeTypeOK'
  BY DEF LifeInv, LifeTypeOK, Threads!Places
<1>2. Numbered' /\ Threads!NothingOutlivesHandle' /\ Threads!UsesLiveHandle' /\ ClosedSoFar'
  BY DEF LifeInv, Numbered, Threads!NothingOutlivesHandle, Threads!UsesLiveHandle, ClosedSoFar
<1>3. LiveWhileRunning'
  BY DEF LifeInv, LiveWhileRunning, Threads!Usable
<1> QED
  BY <1>1, <1>2, <1>3 DEF LifeInv

(* Probes, the statistics thread, the end of the process.                  *)
LEMMA ElsewhereStep ==
  ASSUME LifeInv,
         \/ (h # 0 /\ Threads!BadCommand) \/ Threads!Probe \/ Threads!ProbeStep \/ Threads!StatisticsLooks
         \/ Threads!TimeToTerminate
  PROVE  LifeInv'
<1>1. CASE h # 0 /\ Threads!BadCommand
  <2>1. ~gRunning /\ h \in freed
    BY <1>1 DEF Threads!BadCommand, LifeInv, LiveWhileRunning, Threads!Usable
  <2> QED
    BY <1>1, <2>1, ElsewhereKeeps DEF Threads!BadCommand, Threads!process, Threads!core
<1>2. CASE Threads!Probe
  <2>1. ProbeSeconds \in Nat
    BY DEF LifeInv, Threads!ConstantsAreSound
  <2> QED
    BY <1>2, <2>1, ElsewhereKeeps DEF Threads!Probe, Threads!process, Threads!core
<1>3. CASE Threads!ProbeNumbers \/ Threads!ProbeAdds \/ Threads!ProbeFindsNothing
  BY <1>3, ElsewhereKeeps
    DEF Threads!ProbeNumbers, Threads!ProbeAdds, Threads!ProbeFindsNothing, Threads!command, Threads!process, Threads!core
<1>4. CASE Threads!ProbeSecond \/ Threads!ProbeCancel \/ Threads!ProbeJoin
  <2>1. Threads!Usable /\ step \in Nat
    BY <1>4 DEF Threads!ProbeSecond, Threads!ProbeCancel, Threads!ProbeJoin, LifeInv, LiveWhileRunning, LifeTypeOK
  <2>2. step' \in Nat /\ at' \in {"probing", "joining", "idle"}
    BY <1>4, <2>1 DEF Threads!ProbeSecond, Threads!ProbeCancel, Threads!ProbeJoin
  <2> QED
    BY <1>4, <2>1, <2>2, ElsewhereKeeps
      DEF Threads!ProbeSecond, Threads!ProbeCancel, Threads!ProbeJoin, Threads!process, Threads!core
<1>5. CASE Threads!StatisticsLooks
  <2>1. Threads!Usable
    BY <1>5 DEF Threads!StatisticsLooks, LifeInv, LiveWhileRunning, Threads!Helpers
  <2> QED
    BY <1>5, <2>1, ElsewhereKeeps DEF Threads!StatisticsLooks, Threads!process, Threads!core
<1>6. CASE Threads!TimeToTerminate
  BY <1>6, ElsewhereKeeps DEF Threads!TimeToTerminate, Threads!process, Threads!core
<1> QED
  BY <1>1, <1>2, <1>3, <1>4, <1>5, <1>6 DEF Threads!ProbeStep

(* obe_start.                                                              *)
LEMMA StartStep ==
  ASSUME LifeInv,
         Threads!Start \/ Threads!Create \/ Threads!CreateFails \/ \E s, t \in BOOLEAN : Threads!Started(s, t)
  PROVE  LifeInv'
<1>1. CASE Threads!Start
  <2>1. /\ UNCHANGED <<why, h, freed, thread, gRunning, helper>>
        /\ at' = "starting" /\ step' = 1 /\ Threads!Usable /\ ~gRunning
    BY <1>1 DEF Threads!Start, Threads!process, Threads!core
  <2>2. LifeTypeOK'
    BY <2>1 DEF LifeInv, LifeTypeOK, Threads!Places
  <2> QED
    BY <2>1, <2>2 DEF LifeInv, Numbered, ClosedSoFar, LiveWhileRunning, Threads!Usable,
      Threads!NothingOutlivesHandle, Threads!UsesLiveHandle
<1>2. CASE Threads!Create
  <2>1. /\ UNCHANGED <<at, why, h, freed, gRunning, helper>>
        /\ at = "starting" /\ step' = step + 1 /\ Threads!Usable
        /\ thread' = [thread EXCEPT ![StartOrder[step]] = "runs"]
    BY <1>2 DEF Threads!Create, Threads!process, LifeInv, LiveWhileRunning
  <2>2. thread' \in [Threads!T -> Threads!ThreadStates]
    <3>1. thread \in [Threads!T -> Threads!ThreadStates] /\ "runs" \in Threads!ThreadStates
      BY DEF LifeInv, LifeTypeOK, Threads!ThreadStates
    <3> QED
      BY <2>1, <3>1
  <2>3. LifeTypeOK'
    BY <2>1, <2>2 DEF LifeInv, LifeTypeOK
  <2> QED
    BY <2>1, <2>3 DEF LifeInv, Numbered, ClosedSoFar, LiveWhileRunning, Threads!Usable,
      Threads!NothingOutlivesHandle, Threads!UsesLiveHandle
<1>3. CASE Threads!CreateFails
  <2>1. /\ UNCHANGED <<h, freed, thread, gRunning, helper>>
        /\ at = "starting" /\ at' = "closing" /\ why' = "failed" /\ step' = 1
        /\ Threads!Usable /\ ~gRunning
    BY <1>3 DEF Threads!CreateFails, Threads!process, Threads!core, LifeInv, LiveWhileRunning
  <2>2. LifeTypeOK'
    BY <2>1 DEF LifeInv, LifeTypeOK, Threads!Places
  <2>3. ClosedSoFar'
    BY <2>1 DEF ClosedSoFar
  <2> QED
    BY <2>1, <2>2, <2>3 DEF LifeInv, Numbered, LiveWhileRunning, Threads!Usable,
      Threads!NothingOutlivesHandle, Threads!UsesLiveHandle
<1>4. ASSUME NEW s \in BOOLEAN, NEW t \in BOOLEAN, Threads!Started(s, t)
      PROVE  LifeInv'
  <2>1. /\ UNCHANGED <<why, h, freed, thread>>
        /\ at = "starting" /\ at' = "idle" /\ step' = 0 /\ gRunning' = TRUE /\ Threads!Usable
        /\ helper' \in [Threads!Helpers -> Threads!HelperStates]
    BY <1>4 DEF Threads!Started, Threads!process, Threads!core, LifeInv, LiveWhileRunning, LifeTypeOK, Threads!HelperStates
  <2>2. LifeTypeOK'
    BY <2>1 DEF LifeInv, LifeTypeOK, Threads!Places
  <2> QED
    BY <2>1, <2>2 DEF LifeInv, Numbered, ClosedSoFar, LiveWhileRunning, Threads!Usable,
      Threads!NothingOutlivesHandle, Threads!UsesLiveHandle
<1> QED
  BY <1>1, <1>2, <1>3, <1>4

(* stop_encode, up to obe_close.                                           *)
LEMMA StopStep ==
  ASSUME LifeInv,
         \/ \E reason \in {"stop", "quit"} : Threads!Stop(reason)
         \/ \E x \in Threads!Helpers : Threads!StopHelper(x) \/ Threads!HelperEnds(x)
         \/ Threads!HelpersStopped
  PROVE  LifeInv'
<1>1. ASSUME NEW reason \in {"stop", "quit"}, Threads!Stop(reason)
      PROVE  LifeInv'
  <2>1. /\ UNCHANGED <<step, h, freed, thread, gRunning, helper>>
        /\ at' = "stopping" /\ why' = reason /\ Threads!Usable
    BY <1>1 DEF Threads!Stop, Threads!process, Threads!core
  <2>2. LifeTypeOK'
    BY <2>1 DEF LifeInv, LifeTypeOK, Threads!Places
  <2> QED
    BY <2>1, <2>2 DEF LifeInv, Numbered, ClosedSoFar, LiveWhileRunning, Threads!Usable,
      Threads!NothingOutlivesHandle, Threads!UsesLiveHandle
<1>2. ASSUME NEW x \in Threads!Helpers, Threads!StopHelper(x) \/ Threads!HelperEnds(x)
      PROVE  LifeInv'
  <2>1. /\ UNCHANGED <<at, step, why, h, freed, thread, gRunning>>
        /\ helper[x] \in {"runs", "told"}
        /\ \A y \in Threads!Helpers \ {x} : helper'[y] = helper[y]
        /\ helper' \in [Threads!Helpers -> Threads!HelperStates]
    BY <1>2 DEF Threads!StopHelper, Threads!HelperEnds, Threads!command, Threads!process, Threads!core, LifeInv, LifeTypeOK,
      Threads!HelperStates
  <2>2. LifeTypeOK'
    BY <2>1 DEF LifeInv, LifeTypeOK
  <2> QED
    BY <2>1, <2>2 DEF LifeInv, Numbered, ClosedSoFar, LiveWhileRunning, Threads!Usable,
      Threads!NothingOutlivesHandle, Threads!UsesLiveHandle
<1>3. CASE Threads!HelpersStopped
  <2>1. /\ UNCHANGED <<why, h, freed, thread, gRunning, helper>>
        /\ at = "stopping" /\ at' = "closing" /\ step' = 1 /\ Threads!Usable
        /\ \A x \in Threads!Helpers : helper[x] \in {"off", "gone"}
    BY <1>3 DEF Threads!HelpersStopped, Threads!process, Threads!core, LifeInv, LiveWhileRunning
  <2>2. LifeTypeOK'
    BY <2>1 DEF LifeInv, LifeTypeOK, Threads!Places
  <2>3. ClosedSoFar'
    BY <2>1 DEF ClosedSoFar
  <2> QED
    BY <2>1, <2>2, <2>3 DEF LifeInv, Numbered, LiveWhileRunning, Threads!Usable,
      Threads!NothingOutlivesHandle, Threads!UsesLiveHandle
<1> QED
  BY <1>1, <1>2, <1>3

(* A thread goes from a state it is not joined in to another: nobody gets  *)
(* a new one.                                                              *)
LEMMA ThreadKeeps ==
  ASSUME LifeInv, UNCHANGED <<at, why, h, freed, gRunning, helper>>, NEW t \in Threads!T,
         NEW new \in Threads!ThreadStates, thread' = [thread EXCEPT ![t] = new],
         thread[t] \in {"none", "joined"} => new = thread[t],
         \/ step' = step
         \/ at = "closing" /\ step' = step + 1 /\ Len(CloseOrder) \in Nat
            /\ \A i \in 1..Len(CloseOrder) : i = step => new \in {"none", "joined"}
               /\ CloseOrder[i] = t
  PROVE  LifeInv'
<1>1. /\ thread' \in [Threads!T -> Threads!ThreadStates] /\ thread'[t] = new
      /\ \A u \in Threads!T \ {t} : thread'[u] = thread[u]
  BY DEF LifeInv, LifeTypeOK
<1>2. LifeTypeOK'
  BY <1>1 DEF LifeInv, LifeTypeOK
<1>3. Threads!NothingOutlivesHandle'
  BY <1>1 DEF LifeInv, Threads!NothingOutlivesHandle
<1>4. ClosedSoFar'
  <2>1. Len(CloseOrder) \in Nat /\ \A i \in 1..Len(CloseOrder) : CloseOrder[i] \in Threads!T
    BY DEF LifeInv, Threads!ConstantsAreSound
  <2>2. at = "closing" => step \in Nat \ {0}
    BY DEF LifeInv, ClosedSoFar
  <2> QED
    BY <1>1, <2>1, <2>2 DEF LifeInv, ClosedSoFar
<1> QED
  BY <1>2, <1>3, <1>4
    DEF LifeInv, Numbered, LiveWhileRunning, Threads!Usable, Threads!UsesLiveHandle

(* The threads of the pipeline.                                            *)
LEMMA ThreadStep ==
  ASSUME LifeInv,
         \/ \E e \in EncoderThreads :
              Threads!OpenEncoder(e, "yes") \/ Threads!OpenEncoder(e, "refused")
         \/ \E t \in Threads!T : Threads!ThreadEnds(t)
  PROVE  LifeInv'
<1>1. ASSUME NEW e \in EncoderThreads,
             Threads!OpenEncoder(e, "yes") \/ Threads!OpenEncoder(e, "refused")
      PROVE  LifeInv'
  <2>1. UNCHANGED <<at, step, why, h, freed, gRunning, helper>>
        /\ thread[e] \in {"runs", "cancelled"} /\ e \in Threads!T
    BY <1>1 DEF Threads!OpenEncoder, Threads!command, Threads!process, LifeInv, Threads!ConstantsAreSound
  <2>2. CASE thread' = thread
    BY <2>1, <2>2, ElsewhereKeeps
  <2>3. CASE thread' = [thread EXCEPT ![e] = "ended"]
    BY <2>1, <2>3, ThreadKeeps DEF Threads!ThreadStates
  <2> QED
    BY <1>1, <2>2, <2>3 DEF Threads!OpenEncoder
<1>2. ASSUME NEW t \in Threads!T, Threads!ThreadEnds(t)
      PROVE  LifeInv'
  <2>1. UNCHANGED <<at, step, why, h, freed, gRunning, helper>>
        /\ thread[t] = "cancelled" /\ thread' = [thread EXCEPT ![t] = "ended"]
    BY <1>2 DEF Threads!ThreadEnds, Threads!command, Threads!process
  <2> QED
    BY <2>1, ThreadKeeps DEF Threads!ThreadStates
<1> QED
  BY <1>1, <1>2

(* obe_close, and a new handle.                                            *)
LEMMA CloseKeeps ==
  ASSUME LifeInv, Threads!CloseStep \/ Threads!Recreate
  PROVE  LifeInv'
<1>0. Len(CloseOrder) \in Nat /\ \A i \in 1..Len(CloseOrder) : CloseOrder[i] \in Threads!T
  BY DEF LifeInv, Threads!ConstantsAreSound
<1>1. ASSUME at = "closing", step <= Len(CloseOrder)
      PROVE  step \in 1..Len(CloseOrder) /\ Threads!Victim \in Threads!T /\ Threads!Victim = CloseOrder[step]
  BY <1>0, <1>1 DEF LifeInv, ClosedSoFar, Threads!Victim
<1>2. CASE Threads!Cancel
  <2>1. UNCHANGED <<at, step, why, h, freed, gRunning, helper>> /\ Threads!Victim \in Threads!T
        /\ thread[Threads!Victim] = "runs" /\ thread' = [thread EXCEPT ![Threads!Victim] = "cancelled"]
    BY <1>1, <1>2 DEF Threads!Cancel, Threads!command, Threads!process
  <2> QED
    BY <2>1, ThreadKeeps DEF Threads!ThreadStates
<1>3. CASE Threads!Join
  <2> DEFINE new == IF thread[Threads!Victim] = "ended" THEN "joined" ELSE thread[Threads!Victim]
  <2>1. /\ UNCHANGED <<at, why, h, freed, gRunning, helper>> /\ Threads!Victim \in Threads!T
        /\ at = "closing" /\ step' = step + 1 /\ Threads!Victim = CloseOrder[step]
        /\ thread[Threads!Victim] \in {"none", "ended"}
        /\ thread' = [thread EXCEPT ![Threads!Victim] = new]
    BY <1>1, <1>3 DEF Threads!Join, Threads!process
  <2>2. new \in {"none", "joined"} /\ new \in Threads!ThreadStates
        /\ (thread[Threads!Victim] \in {"none", "joined"} => new = thread[Threads!Victim])
    BY <2>1 DEF Threads!ThreadStates
  <2> HIDE DEF new
  <2> QED
    BY <1>0, <2>1, <2>2, ThreadKeeps
<1>4. CASE Threads!Free
  <2>1. /\ at = "closing" /\ step > Len(CloseOrder) /\ freed' = freed \cup {h}
        /\ step' = 0 /\ UNCHANGED <<why, thread>> /\ Threads!Usable
    BY <1>4 DEF Threads!Free, Threads!core, LifeInv, LiveWhileRunning
  <2>2. \A t \in Threads!T : thread[t] \in {"none", "joined"}
    <3>1. \A i \in 1..Len(CloseOrder) : thread[CloseOrder[i]] \in {"none", "joined"}
      BY <1>0, <2>1 DEF LifeInv, ClosedSoFar
    <3>2. \A t \in Threads!T : \E i \in 1..Len(CloseOrder) : t = CloseOrder[i]
      BY DEF LifeInv, Threads!ConstantsAreSound, Threads!Range
    <3> QED
      BY <3>1, <3>2
  <2>3. PICK n \in Nat : freed = 1..n /\ h = n + 1
    BY <2>1 DEF LifeInv, Numbered, Threads!Usable
  <2>4. freed' = 1..n + 1
    BY <2>1, <2>3
  <2>5. CASE why = "failed"
    <3>1. at' = "idle" /\ UNCHANGED <<h, gRunning, helper>> /\ ~gRunning
      BY <1>4, <2>1, <2>5 DEF Threads!Free, LifeInv, LiveWhileRunning
    <3>2. LifeTypeOK'
      BY <2>1, <3>1 DEF LifeInv, LifeTypeOK, Threads!Places
    <3>3. Numbered'
      BY <2>3, <2>4, <3>1 DEF Numbered
    <3> QED
      BY <2>1, <2>2, <3>1, <3>2, <3>3 DEF LifeInv, ClosedSoFar, LiveWhileRunning,
        Threads!NothingOutlivesHandle, Threads!UsesLiveHandle
  <2>6. CASE why # "failed"
    <3>1. /\ at' \in {"idle", "over"} /\ h' = 0 /\ gRunning' = FALSE
          /\ helper' = [x \in Threads!Helpers |-> IF helper[x] = "gone" THEN "off" ELSE helper[x]]
      BY <1>4, <2>6 DEF Threads!Free
    <3>2. /\ helper' \in [Threads!Helpers -> Threads!HelperStates]
          /\ \A x \in Threads!Helpers : helper'[x] \notin {"runs", "told"}
      BY <2>1, <3>1 DEF LifeInv, LifeTypeOK, LiveWhileRunning, Threads!HelperStates
    <3>3. LifeTypeOK'
      BY <2>1, <3>1, <3>2 DEF LifeInv, LifeTypeOK, Threads!Places
    <3>4. Numbered'
      BY <2>3, <2>4, <3>1 DEF Numbered
    <3> QED
      BY <2>1, <2>2, <3>1, <3>2, <3>3, <3>4 DEF LifeInv, ClosedSoFar, LiveWhileRunning,
        Threads!NothingOutlivesHandle, Threads!UsesLiveHandle
  <2> QED
    BY <2>5, <2>6
<1>5. CASE Threads!Recreate
  <2>1. /\ at = "idle" /\ h = 0 /\ h' = Threads!Cardinality(freed) + 1
        /\ UNCHANGED <<at, step, why, freed, gRunning, helper>>
        /\ thread' = [t \in Threads!T |-> "none"]
    BY <1>5 DEF Threads!Recreate, Threads!command
  <2>2. PICK n \in Nat : freed = 1..n
    BY DEF LifeInv, Numbered
  <2>3. h' = n + 1
    <3>1. Threads!Cardinality(1..n) = n
      BY FS_Interval, SameCardinality
    <3> QED
      BY <2>1, <2>2, <3>1
  <2>4. ~gRunning
    BY <2>1 DEF LifeInv, LiveWhileRunning, Threads!Usable
  <2>5. LifeTypeOK'
    BY <2>1, <2>3 DEF LifeInv, LifeTypeOK, Threads!ThreadStates
  <2>6. Numbered'
    BY <2>1, <2>2, <2>3 DEF Numbered
  <2> QED
    BY <2>1, <2>4, <2>5, <2>6 DEF LifeInv, ClosedSoFar, LiveWhileRunning,
      Threads!NothingOutlivesHandle, Threads!UsesLiveHandle
<1> QED
  BY <1>2, <1>3, <1>4, <1>5 DEF Threads!CloseStep

(* The invariant is inductive.                                             *)
LEMMA LifeKeeps ==
  LifeInv /\ [Threads!Next]_Threads!vars => LifeInv'
<1> SUFFICES ASSUME LifeInv, [Threads!Next]_Threads!vars PROVE LifeInv'
  OBVIOUS
<1>1. CASE UNCHANGED Threads!vars
  BY <1>1, ElsewhereKeeps DEF Threads!vars
<1> QED
  BY <1>1, ElsewhereStep, StartStep, StopStep, ThreadStep, CloseKeeps DEF Threads!Next

LEMMA LifeInvariant == Spec => []LifeInv
BY LifeInit, LifeKeeps, ModesStart, ModesStep, CommandsAssumption, PTL
   DEF Spec, ConstantsAreSound

(* The device is added by a probe thread that is not done, obecli learns   *)
(* of it when it has joined the thread, and forgets it with the handle.    *)
ProbeInv ==
  /\ devices \in {0, 1} /\ probe \in {"none", "looks", "cancelled", "ended"}
  /\ nextId \in Nat /\ ids \subseteq Nat /\ probes \in Nat
  /\ programStreams \in {0, ProbeStreams}
  /\ probe \in {"looks", "cancelled"} => devices = 0
  /\ devices = 1 => Cardinality(ids) = ProbeStreams
  /\ at \notin {"probing", "joining", "over", "undefined"} =>
       probe = "none" /\ (h # 0 => (devices = 1 <=> programStreams > 0))
  /\ at \in {"probing", "joining"} => programStreams = 0 /\ probe # "none"
  /\ h = 0 => programStreams = 0

(* Threads are there as soon as they are created, until obe_close.         *)
Alive(t) == thread[t] = "runs" \/ (t \in EncoderThreads /\ opened[t] = "refused")

CompleteInv ==
  /\ opened \in [EncoderThreads -> {"no", "yes", "refused"}]
  /\ at = "starting" => /\ step \in Nat \ {0}
                        /\ \A i \in 1..Len(StartOrder) : i < step => Alive(StartOrder[i])
  /\ (gRunning /\ at \notin {"closing", "over", "undefined"}) =>
       \A t \in Threads!T : Alive(t)

StepBound == step \in 0..Len(StartOrder) + 1 + ProbeSeconds

SettledInv == ProbeInv /\ CompleteInv /\ StepBound

(* obe_start creates as many threads as obe_close ends.                    *)
LEMMA SameLength ==
  ASSUME Threads!ConstantsAreSound
  PROVE  Len(StartOrder) \in Nat /\ Len(CloseOrder) = Len(StartOrder)
<1>1. ASSUME NEW s \in Seq(Threads!T), Threads!Range(s) = Threads!T, Threads!IsInjective(s)
      PROVE  Len(s) \in Nat /\ Cardinality(Threads!T) = Len(s)
  <2>1. Len(s) \in Nat /\ DOMAIN s = 1..Len(s) /\ s \in [1..Len(s) -> Threads!T]
    BY <1>1
  <2>2. s \in Bijection(1..Len(s), Threads!T)
    <3>1. \A a, b \in 1..Len(s) : s[a] = s[b] => a = b
      BY <1>1, <2>1 DEF Threads!IsInjective
    <3>2. \A t \in Threads!T : \E a \in 1..Len(s) : s[a] = t
      BY <1>1, <2>1 DEF Threads!Range
    <3> QED
      BY <2>1, <3>1, <3>2 DEF Bijection, Injection, Surjection, IsInjective
  <2>3. ExistsBijection(1..Len(s), Threads!T)
    BY <2>2 DEF ExistsBijection
  <2>4. IsFiniteSet(1..Len(s)) /\ Cardinality(1..Len(s)) = Len(s)
    BY <2>1, FS_Interval
  <2>5. Cardinality(1..Len(s)) = Cardinality(Threads!T)
    BY <2>3, <2>4, FS_Bijection
  <2> QED
    BY <2>1, <2>4, <2>5
<1>2. Threads!Range(StartOrder) = Threads!T
  BY DEF Threads!T
<1> QED
  BY <1>1, <1>2 DEF Threads!ConstantsAreSound

LEMMA SettledInit ==
  Threads!ConstantsAreSound /\ Threads!Init => SettledInv
<1> SUFFICES ASSUME Threads!ConstantsAreSound, Threads!Init PROVE SettledInv
  OBVIOUS
<1>1. ProbeStreams \in Nat \ {0} /\ ProbeSeconds \in Nat \ {0} /\ Len(StartOrder) \in Nat
  BY SameLength DEF Threads!ConstantsAreSound
<1> QED
  BY <1>1 DEF Threads!Init, SettledInv, ProbeInv, CompleteInv, StepBound

(* Steps that leave the probe and its device alone.                        *)
ProbeAside ==
  /\ UNCHANGED <<h, devices, nextId, ids, programStreams, probes, probe>>
  /\ \/ at' = at
     \/ at \notin {"probing", "joining", "over", "undefined"} /\ at' \notin {"probing", "joining"}
     \/ at' \in {"over", "undefined"}

LEMMA AsideKeepsProbe ==
  ASSUME ProbeInv, ProbeAside
  PROVE  ProbeInv'
BY DEF ProbeInv, ProbeAside

(* The commands and threads that do so.                                    *)
Aside ==
  \/ (h # 0 /\ Threads!BadCommand) \/ Threads!Start \/ Threads!Create \/ Threads!CreateFails
  \/ \E s, t \in BOOLEAN : Threads!Started(s, t)
  \/ \E reason \in {"stop", "quit"} : Threads!Stop(reason)
  \/ \E x \in Threads!Helpers : Threads!StopHelper(x) \/ Threads!HelperEnds(x)
  \/ Threads!HelpersStopped \/ Threads!StatisticsLooks \/ Threads!TimeToTerminate
  \/ Threads!Cancel \/ Threads!Join
  \/ \E e \in EncoderThreads :
       Threads!OpenEncoder(e, "yes") \/ Threads!OpenEncoder(e, "refused")
  \/ \E t \in Threads!T : Threads!ThreadEnds(t)

LEMMA AsideIs == Aside => ProbeAside
BY DEF Aside, ProbeAside, Threads!BadCommand, Threads!Start, Threads!Create,
       Threads!CreateFails, Threads!Started, Threads!Stop, Threads!StopHelper,
       Threads!HelperEnds, Threads!HelpersStopped, Threads!StatisticsLooks,
       Threads!TimeToTerminate, Threads!Cancel, Threads!Join, Threads!OpenEncoder,
       Threads!ThreadEnds, Threads!process, Threads!device, Threads!command

LEMMA ProbeKeeps ==
  ASSUME LifeInv, ProbeInv, Threads!Next
  PROVE  ProbeInv'
<1>1. CASE Aside
  <2>1. ProbeAside
    BY <1>1, AsideIs
  <2> QED
    BY <2>1, AsideKeepsProbe
<1>2. CASE Threads!Probe
  <2>1. ProbeStreams \in Nat \ {0}
    BY DEF LifeInv, Threads!ConstantsAreSound
  <2>2. programStreams = 0 /\ h # 0
    BY <1>2, <2>1 DEF Threads!Probe, Threads!Usable, ProbeInv
  <2> QED
    BY <1>2, <2>2, SMTT(30) DEF Threads!Probe, Threads!process, ProbeInv
<1>3. CASE Threads!ProbeNumbers
  BY <1>3 DEF Threads!ProbeNumbers, Threads!process, Threads!command, ProbeInv
<1>4. CASE Threads!ProbeAdds
  BY <1>4, SameCardinality
     DEF Threads!ProbeAdds, Threads!process, Threads!command, ProbeInv
<1>5. CASE Threads!ProbeFindsNothing
  BY <1>5 DEF Threads!ProbeFindsNothing, Threads!process, Threads!command, ProbeInv
<1>6. CASE Threads!ProbeSecond
  BY <1>6 DEF Threads!ProbeSecond, Threads!process, Threads!device, ProbeInv
<1>7. CASE Threads!ProbeCancel
  <2>1. /\ probe' \in {"cancelled", "ended"} /\ at' = "joining"
        /\ probe' = "cancelled" => probe \in {"looks", "cancelled"}
        /\ at = "probing" /\ h' = h /\ devices' = devices /\ nextId' = nextId
        /\ ids' = ids /\ programStreams' = programStreams /\ probes' = probes
    BY <1>7 DEF Threads!ProbeCancel, Threads!process, ProbeInv
  <2> QED
    BY <2>1 DEF ProbeInv
<1>8. CASE Threads!ProbeJoin
  <2>1. h # 0 /\ ProbeStreams \in Nat \ {0}
    BY <1>8 DEF Threads!ProbeJoin, LifeInv, LiveWhileRunning, Threads!Usable,
                Threads!ConstantsAreSound
  <2> QED
    BY <1>8, <2>1 DEF Threads!ProbeJoin, Threads!process, ProbeInv
<1>9. CASE Threads!Free
  BY <1>9 DEF Threads!Free, Threads!device, ProbeInv
<1>10. CASE Threads!Recreate
  BY <1>10, SameCardinality DEF Threads!Recreate, Threads!command, ProbeInv
<1> QED
  BY <1>1, <1>2, <1>3, <1>4, <1>5, <1>6, <1>7, <1>8, <1>9, <1>10
     DEF Threads!Next, Threads!ProbeStep, Threads!CloseStep, Aside

LEMMA CompleteKeeps ==
  ASSUME LifeInv, ProbeInv, CompleteInv, StepBound, Threads!Next
  PROVE  CompleteInv' /\ StepBound'
<1>0. /\ Len(StartOrder) \in Nat /\ Len(CloseOrder) = Len(StartOrder)
      /\ ProbeSeconds \in Nat \ {0} /\ EncoderThreads \subseteq Threads!T
      /\ \A i \in 1..Len(StartOrder) : StartOrder[i] \in Threads!T
      /\ \A t \in Threads!T : \E i \in 1..Len(StartOrder) : t = StartOrder[i]
      /\ thread \in [Threads!T -> Threads!ThreadStates] /\ step \in Nat
  <2>1. Threads!ConstantsAreSound
    BY DEF LifeInv
  <2>2. \A t \in Threads!T : \E i \in 1..Len(StartOrder) : t = StartOrder[i]
    BY <2>1 DEF Threads!ConstantsAreSound, Threads!T, Threads!Range
  <2>3. \A i \in 1..Len(StartOrder) : StartOrder[i] \in Threads!T
    BY <2>1 DEF Threads!ConstantsAreSound
  <2> QED
    BY <2>1, <2>2, <2>3, SameLength DEF Threads!ConstantsAreSound, LifeInv, LifeTypeOK
<1>1. ASSUME UNCHANGED <<thread, opened>>, gRunning' => gRunning,
             \/ at' = at /\ (at = "starting" => step' = step)
             \/ at' \in {"closing", "over", "undefined"}
             \/ at' \notin {"starting", "closing", "over", "undefined"}
                /\ at \notin {"closing", "over", "undefined"}
      PROVE  CompleteInv'
  BY <1>1 DEF CompleteInv, Alive
<1>2. CASE (h # 0 /\ Threads!BadCommand) \/ Threads!Probe \/ Threads!CreateFails
           \/ Threads!HelpersStopped \/ Threads!StatisticsLooks \/ Threads!TimeToTerminate
           \/ \E reason \in {"stop", "quit"} : Threads!Stop(reason)
           \/ \E x \in Threads!Helpers : Threads!StopHelper(x) \/ Threads!HelperEnds(x)
  <2>1. CompleteInv'
    BY <1>1, <1>2 DEF Threads!BadCommand, Threads!Probe, Threads!CreateFails,
                      Threads!HelpersStopped, Threads!StatisticsLooks,
                      Threads!TimeToTerminate, Threads!Stop, Threads!StopHelper,
                      Threads!HelperEnds, Threads!core, Threads!command
  <2>2. step' \in {step, ProbeSeconds, 1}
    BY <1>2 DEF Threads!BadCommand, Threads!Probe, Threads!CreateFails,
                Threads!HelpersStopped, Threads!StatisticsLooks, Threads!TimeToTerminate,
                Threads!Stop, Threads!StopHelper, Threads!HelperEnds, Threads!command
  <2> QED
    BY <1>0, <2>1, <2>2 DEF StepBound
<1>3. CASE Threads!ProbeStep
  <2>1. CompleteInv'
    BY <1>1, <1>3 DEF Threads!ProbeStep, Threads!ProbeNumbers, Threads!ProbeAdds,
                      Threads!ProbeFindsNothing, Threads!ProbeSecond, Threads!ProbeCancel,
                      Threads!ProbeJoin, Threads!core, Threads!command
  <2>2. step' \in {step, 0} \/ (step > 0 /\ step' = step - 1)
    BY <1>3 DEF Threads!ProbeStep, Threads!ProbeNumbers, Threads!ProbeAdds,
                Threads!ProbeFindsNothing, Threads!ProbeSecond, Threads!ProbeCancel,
                Threads!ProbeJoin, Threads!command
  <2> QED
    BY <1>0, <2>1, <2>2 DEF StepBound
<1>4. CASE Threads!Start
  <2>1. /\ at' = "starting" /\ step' = 1 /\ UNCHANGED <<thread, opened>> /\ ~gRunning'
    BY <1>4 DEF Threads!Start, Threads!core
  <2> QED
    BY <1>0, <2>1 DEF CompleteInv, StepBound
<1>5. CASE Threads!Create
  <2>1. /\ at = "starting" /\ at' = at /\ step <= Len(StartOrder) /\ step' = step + 1
        /\ thread' = [thread EXCEPT ![StartOrder[step]] = "runs"]
        /\ UNCHANGED <<opened, gRunning>> /\ ~gRunning /\ step \in Nat \ {0}
    BY <1>5 DEF Threads!Create, LifeInv, LiveWhileRunning, CompleteInv
  <2>2. step \in 1..Len(StartOrder)
    BY <1>0, <2>1
  <2>3. thread'[StartOrder[step]] = "runs"
    BY <1>0, <2>1, <2>2
  <2>4. \A t \in Threads!T : Alive(t) => Alive(t)'
    BY <1>0, <2>1 DEF Alive
  <2>5. ASSUME NEW i \in 1..Len(StartOrder), i < step + 1
        PROVE  Alive(StartOrder[i])'
    <3>1. CASE i = step
      BY <2>3, <3>1 DEF Alive
    <3>2. CASE i # step
      BY <1>0, <2>1, <2>4, <2>5, <3>2 DEF CompleteInv
    <3> QED
      BY <3>1, <3>2
  <2>6. step' \in Nat \ {0} /\ step' \in 0..Len(StartOrder) + 1 + ProbeSeconds
    BY <1>0, <2>1
  <2> QED
    BY <2>1, <2>5, <2>6 DEF CompleteInv, StepBound
<1>6. ASSUME NEW s \in BOOLEAN, NEW t \in BOOLEAN, Threads!Started(s, t)
      PROVE  CompleteInv' /\ StepBound'
  <2>1. /\ at = "starting" /\ step > Len(StartOrder) /\ at' = "idle" /\ step' = 0
        /\ UNCHANGED <<thread, opened>>
    BY <1>6 DEF Threads!Started, Threads!core
  <2>2. \A u \in Threads!T : Alive(u)
    BY <1>0, <2>1 DEF CompleteInv
  <2> QED
    BY <1>0, <2>1, <2>2 DEF CompleteInv, StepBound, Alive
<1>7. CASE Threads!Cancel \/ Threads!Join \/ Threads!Free
  <2>1. /\ at = "closing" /\ opened' = opened /\ at' # "starting"
        /\ at' = "closing" \/ ~gRunning'
    BY <1>7 DEF Threads!Cancel, Threads!Join, Threads!Free, Threads!command, Threads!core,
                LifeInv, LiveWhileRunning
  <2>2. step' = step \/ (step <= Len(CloseOrder) /\ step' = step + 1) \/ step' = 0
    BY <1>7 DEF Threads!Cancel, Threads!Join, Threads!Free, Threads!command
  <2> QED
    BY <1>0, <2>1, <2>2 DEF CompleteInv, StepBound
<1>8. CASE Threads!Recreate
  <2>1. /\ at = "idle" /\ at' = at /\ step' = step /\ opened' = [e \in EncoderThreads |-> "no"]
        /\ ~gRunning'
    BY <1>8 DEF Threads!Recreate, Threads!command, LifeInv, LiveWhileRunning,
                Threads!Usable
  <2> QED
    BY <2>1 DEF CompleteInv, StepBound
<1>9. ASSUME NEW e \in EncoderThreads,
             Threads!OpenEncoder(e, "yes") \/ Threads!OpenEncoder(e, "refused")
      PROVE  CompleteInv' /\ StepBound'
  <2>1. PICK outcome \in {"yes", "refused"} : Threads!OpenEncoder(e, outcome)
    BY <1>9
  <2>2. /\ UNCHANGED <<at, step, gRunning>> /\ opened[e] = "no"
        /\ opened' = [opened EXCEPT ![e] = outcome]
        /\ \/ outcome = "yes" /\ thread' = thread
           \/ outcome = "refused" /\ thread' = [thread EXCEPT ![e] = "ended"]
    BY <2>1 DEF Threads!OpenEncoder, Threads!command
  <2>3. opened \in [EncoderThreads -> {"no", "yes", "refused"}]
    BY DEF CompleteInv
  <2>4. opened' \in [EncoderThreads -> {"no", "yes", "refused"}]
    BY <2>2, <2>3
  <2>5. \A u \in Threads!T : Alive(u) => Alive(u)'
    BY <1>0, <2>2, <2>3 DEF Alive
  <2> QED
    BY <1>0, <2>2, <2>4, <2>5 DEF CompleteInv, StepBound
<1>10. ASSUME NEW t \in Threads!T, Threads!ThreadEnds(t)
       PROVE  CompleteInv' /\ StepBound'
  <2>1. /\ UNCHANGED <<at, step, gRunning, opened>> /\ thread[t] = "cancelled"
        /\ thread' = [thread EXCEPT ![t] = "ended"]
    BY <1>10 DEF Threads!ThreadEnds, Threads!command
  <2>2. \A u \in Threads!T : Alive(u) => Alive(u)'
    BY <1>0, <2>1 DEF Alive
  <2> QED
    BY <1>0, <2>1, <2>2 DEF CompleteInv, StepBound
<1> QED
  BY <1>2, <1>3, <1>4, <1>5, <1>6, <1>7, <1>8, <1>9, <1>10
     DEF Threads!Next, Threads!CloseStep

LEMMA SettledStep == LifeInv /\ SettledInv /\ [Threads!Next]_(Threads!vars) => SettledInv'
<1> SUFFICES ASSUME LifeInv, SettledInv, [Threads!Next]_(Threads!vars)
             PROVE SettledInv'
  OBVIOUS
<1>1. CASE Threads!Next
  BY <1>1, ProbeKeeps, CompleteKeeps DEF SettledInv
<1>2. CASE UNCHANGED Threads!vars
  BY <1>2 DEF Threads!vars, SettledInv, ProbeInv, CompleteInv, Alive, StepBound
<1> QED
  BY <1>1, <1>2

(* However the commands go (obecli.c, obe.c): no thread outlives the       *)
(* handle, a freed handle is used only by a command after a start that     *)
(* failed, no probe thread is left between commands, and as long as OBE is *)
(* said to run all threads are there.                                      *)
THEOREM HandleOutlivesThreads == Spec => []HandleIsLive
<1>1. LifeInv /\ SettledInv => HandleIsLive
  <2> SUFFICES ASSUME LifeInv, SettledInv PROVE HandleIsLive
    OBVIOUS
  <2>1. Threads!TypeOK
    <3>1. freed \subseteq Nat
      BY DEF LifeInv, Numbered
    <3>2. devices \in Nat
      BY DEF SettledInv, ProbeInv
    <3> QED
      BY <3>1, <3>2 DEF Threads!TypeOK, LifeInv, LifeTypeOK, SettledInv, ProbeInv, CompleteInv,
                        StepBound
  <2>2. Threads!ProbeSettled
    BY SameCardinality DEF Threads!ProbeSettled, SettledInv, ProbeInv
  <2>3. Threads!RunningIsComplete
    BY DEF Threads!RunningIsComplete, SettledInv, CompleteInv, Alive
  <2> QED
    BY <2>1, <2>2, <2>3 DEF HandleIsLive, LifeInv
<1>2. Spec => []SettledInv
  BY SettledInit, SettledStep, LifeInvariant, ModesStart, ModesStep, CommandsAssumption, PTL
     DEF Spec, ConstantsAreSound
<1> QED
  BY <1>1, <1>2, LifeInvariant, PTL
-----------------------------------------------------------------------------
(* The configuration, for any sequence of commands.                        *)
(*                                                                         *)
(* What `start' finds in the list of streams was put there by other        *)
(* commands long before.  ListOK is what each of them keeps: the video,    *)
(* and nothing else, is the first stream, each format is that of a kind,   *)
(* a buffer size is never set without the encoder it is for, and the video *)
(* has the format of raw pictures only while no codec gave it another.     *)
Formats == {"raw", "avc", "card", "mp2"}
StreamType ==
  [id : Nat, input : Int, format : Formats, encode : BOOLEAN,
   max : Int, vbv : Int, rate : Int, pid : Nat, cardOnly : BOOLEAN]

Kinds == {Base[i] : i \in DOMAIN Base} \cup {"scte35"}

ProgramOK(p) == p \in Seq(Kinds) /\ \A i \in 1..Len(p) : p[i] = "video" <=> i = 1

StreamOK(p, s) ==
  /\ s \in StreamType /\ s.input >= -1 /\ s.input <= Len(p) - 1
  /\ s.format \in {"avc", "card"} => s.input = 0
  /\ s.format = "mp2" => s.input >= 0 /\ p[s.input + 1] = "audio"
  /\ s.input >= 0 /\ p[s.input + 1] = "audio" => s.rate \in Nat
  /\ s.input = 0 /\ s.vbv # 0 => s.encode
  /\ s.input = 0 => s.format \in {"avc", "card"} \/ (s.format = "raw" /\ s.cardOnly)

ListOK(p, l) ==
  /\ l \in Seq(StreamType) /\ (p # <<>> => Len(l) # 0 /\ Len(p) >= 2)
  /\ \A i \in 1..Len(l) : StreamOK(p, l[i]) /\ (l[i].input = 0 <=> i = 1)

Numbers(l) == \A i \in 1..Len(l) : l[i].id = i - 1

OptionsOK ==
  /\ state \in {"set", "running", "undefined"} /\ muxrate \in BOOLEAN
  /\ scte35 \in Nat /\ edits \in 0..MaxEdits /\ muxPids \in Seq(Nat)
  /\ \A o \in DOMAIN outputs : outputs[o] \in BOOLEAN

ConfInv ==
  /\ OptionsOK /\ removed \in BOOLEAN
  /\ ProgramOK(program) /\ ListOK(program, out) /\ (~removed => Numbers(out))
  /\ Commands!StartIsSound /\ Commands!MuxIsConsistent

(* A sequence with an element put in, or taken out.                        *)
LEMMA InsertedIs ==
  ASSUME NEW S, NEW s \in Seq(S), NEW e \in S, NEW i \in 1..Len(s) + 1
  PROVE  LET t == Commands!InsertAt(s, i, e) IN
         /\ t \in Seq(S) /\ Len(t) = Len(s) + 1
         /\ \A j \in 1..Len(s) + 1 :
              t[j] = IF j < i THEN s[j] ELSE IF j = i THEN e ELSE s[j - 1]
<1>0. Len(s) \in Nat /\ \A j \in 1..Len(s) : s[j] \in S
  BY LenProperties, ElementOfSeq
<1> DEFINE a == SubSeq(s, 1, i - 1)
           b == <<e>>
           c == SubSeq(s, i, Len(s))
<1>1. /\ a \in Seq(S) /\ Len(a) = i - 1
      /\ \A j \in 1..i - 1 : a[j] = s[j]
  <2>1. /\ a \in Seq(S) /\ Len(a) = IF 1 <= i - 1 THEN i - 1 - 1 + 1 ELSE 0
        /\ \A j \in 1..i - 1 - 1 + 1 : a[j] = s[1 + j - 1]
    <3>1. \A j \in 1..i - 1 : s[j] \in S
      BY <1>0
    <3> QED
      BY <1>0, <3>1, SubSeqProperties
  <2> QED
    BY <1>0, <2>1
<1>2. /\ c \in Seq(S) /\ Len(c) = Len(s) - i + 1
      /\ \A j \in 1..Len(s) - i + 1 : c[j] = s[i + j - 1]
  <2>1. /\ c \in Seq(S) /\ Len(c) = IF i <= Len(s) THEN Len(s) - i + 1 ELSE 0
        /\ \A j \in 1..Len(s) - i + 1 : c[j] = s[i + j - 1]
    <3>1. \A j \in i..Len(s) : s[j] \in S
      BY <1>0
    <3> QED
      BY <1>0, <3>1, SubSeqProperties
  <2> QED
    BY <1>0, <2>1
<1>3. b \in Seq(S) /\ Len(b) = 1 /\ b[1] = e
  OBVIOUS
<1> HIDE DEF a, b, c
<1>4. /\ a \o b \in Seq(S) /\ Len(a \o b) = i
      /\ \A j \in 1..i : (a \o b)[j] = IF j <= i - 1 THEN a[j] ELSE b[j - (i - 1)]
  <2>1. /\ a \o b \in Seq(S) /\ Len(a \o b) = Len(a) + Len(b)
        /\ \A j \in 1..Len(a) + Len(b) :
             (a \o b)[j] = IF j <= Len(a) THEN a[j] ELSE b[j - Len(a)]
    BY <1>1, <1>3, ConcatProperties
  <2> QED
    BY <1>0, <1>1, <1>3, <2>1
<1>5. /\ (a \o b) \o c \in Seq(S) /\ Len((a \o b) \o c) = Len(s) + 1
      /\ \A j \in 1..Len(s) + 1 :
           ((a \o b) \o c)[j] = IF j <= i THEN (a \o b)[j] ELSE c[j - i]
  <2>1. /\ (a \o b) \o c \in Seq(S) /\ Len((a \o b) \o c) = Len(a \o b) + Len(c)
        /\ \A j \in 1..Len(a \o b) + Len(c) :
             ((a \o b) \o c)[j] = IF j <= Len(a \o b) THEN (a \o b)[j] ELSE c[j - Len(a \o b)]
    BY <1>2, <1>4, ConcatProperties
  <2> QED
    BY <1>0, <1>2, <1>4, <2>1
<1>6. ASSUME NEW j \in 1..Len(s) + 1
      PROVE  ((a \o b) \o c)[j] = IF j < i THEN s[j] ELSE IF j = i THEN e ELSE s[j - 1]
  <2>1. CASE j < i
    <3>1. j \in 1..i /\ j \in 1..i - 1 /\ j <= i /\ j <= i - 1
      BY <1>0, <2>1
    <3> QED
      BY <1>1, <1>4, <1>5, <2>1, <3>1
  <2>2. CASE j = i
    <3>1. j \in 1..i /\ j <= i /\ ~(j <= i - 1) /\ j - (i - 1) = 1
      BY <1>0, <2>2
    <3>2. ((a \o b) \o c)[j] = (a \o b)[j]
      BY <1>5, <3>1
    <3>3. (a \o b)[j] = b[j - (i - 1)]
      BY <1>4, <3>1
    <3> QED
      BY <1>3, <2>2, <3>1, <3>2, <3>3
  <2>3. CASE j > i
    <3>1. ~(j <= i) /\ j - i \in 1..Len(s) - i + 1 /\ i + (j - i) - 1 = j - 1 /\ ~(j < i) /\ j # i
      BY <1>0, <2>3
    <3>2. c[j - i] = s[i + (j - i) - 1]
      BY <1>2, <3>1
    <3> QED
      BY <1>5, <3>1, <3>2
  <2>4. j < i \/ j = i \/ j > i
    BY <1>0
  <2> QED
    BY <2>1, <2>2, <2>3, <2>4
<1> QED
  BY <1>5, <1>6 DEF Commands!InsertAt, a, b, c

LEMMA RemovedIs ==
  ASSUME NEW S, NEW s \in Seq(S), NEW i \in 1..Len(s)
  PROVE  LET t == Commands!RemoveAt(s, i) IN
         /\ t \in Seq(S) /\ Len(t) = Len(s) - 1
         /\ \A j \in 1..Len(s) - 1 : t[j] = IF j < i THEN s[j] ELSE s[j + 1]
<1>0. Len(s) \in Nat /\ \A j \in 1..Len(s) : s[j] \in S
  BY LenProperties, ElementOfSeq
<1> DEFINE a == SubSeq(s, 1, i - 1)
           c == SubSeq(s, i + 1, Len(s))
<1>1. /\ a \in Seq(S) /\ Len(a) = i - 1
      /\ \A j \in 1..i - 1 : a[j] = s[j]
  <2>1. /\ a \in Seq(S) /\ Len(a) = IF 1 <= i - 1 THEN i - 1 - 1 + 1 ELSE 0
        /\ \A j \in 1..i - 1 - 1 + 1 : a[j] = s[1 + j - 1]
    <3>1. \A j \in 1..i - 1 : s[j] \in S
      BY <1>0
    <3> QED
      BY <1>0, <3>1, SubSeqProperties
  <2> QED
    BY <1>0, <2>1
<1>2. /\ c \in Seq(S) /\ Len(c) = Len(s) - i
      /\ \A j \in 1..Len(s) - i : c[j] = s[i + j]
  <2>1. /\ c \in Seq(S) /\ Len(c) = IF i + 1 <= Len(s) THEN Len(s) - (i + 1) + 1 ELSE 0
        /\ \A j \in 1..Len(s) - (i + 1) + 1 : c[j] = s[(i + 1) + j - 1]
    <3>1. \A j \in i + 1..Len(s) : s[j] \in S
      BY <1>0
    <3> QED
      BY <1>0, <3>1, SubSeqProperties
  <2> QED
    BY <1>0, <2>1
<1> HIDE DEF a, c
<1>3. /\ a \o c \in Seq(S) /\ Len(a \o c) = Len(s) - 1
      /\ \A j \in 1..Len(s) - 1 : (a \o c)[j] = IF j <= i - 1 THEN a[j] ELSE c[j - (i - 1)]
  <2>1. /\ a \o c \in Seq(S) /\ Len(a \o c) = Len(a) + Len(c)
        /\ \A j \in 1..Len(a) + Len(c) :
             (a \o c)[j] = IF j <= Len(a) THEN a[j] ELSE c[j - Len(a)]
    BY <1>1, <1>2, ConcatProperties
  <2> QED
    BY <1>0, <1>1, <1>2, <2>1
<1>4. ASSUME NEW j \in 1..Len(s) - 1
      PROVE  (a \o c)[j] = IF j < i THEN s[j] ELSE s[j + 1]
  <2>1. CASE j < i
    <3>1. j \in 1..i - 1 /\ j <= i - 1
      BY <1>0, <2>1
    <3> QED
      BY <1>1, <1>3, <2>1, <3>1
  <2>2. CASE ~(j < i)
    <3>1. ~(j <= i - 1) /\ j - (i - 1) \in 1..Len(s) - i /\ i + (j - (i - 1)) = j + 1
      BY <1>0, <2>2
    <3>2. c[j - (i - 1)] = s[i + (j - (i - 1))]
      BY <1>2, <3>1
    <3> QED
      BY <1>3, <2>2, <3>1, <3>2
  <2> QED
    BY <2>1, <2>2
<1> QED
  BY <1>3, <1>4 DEF Commands!RemoveAt, a, c

LEMMA ConfInit == Commands!ConstantsAreSound /\ Commands!Init => ConfInv
<1> SUFFICES ASSUME Commands!ConstantsAreSound, Commands!Init PROVE ConfInv
  OBVIOUS
<1>1. program = <<>> /\ out = <<>> /\ Len(out) = 0 /\ Len(program) = 0
  BY DEF Commands!Init
<1>2. out \in Seq(StreamType) /\ program \in Seq(Kinds)
  BY <1>1
<1>3. ProgramOK(program) /\ ListOK(program, out) /\ Numbers(out)
  <2>1. 1..Len(out) = {} /\ 1..Len(program) = {}
    BY <1>1
  <2>2. ProgramOK(program) /\ Numbers(out)
    BY <1>1, <1>2, <2>1 DEF ProgramOK, Numbers
  <2>3. \A i \in 1..Len(out) : StreamOK(program, out[i]) /\ (out[i].input = 0 <=> i = 1)
    BY <2>1
  <2>4. ListOK(program, out)
    BY <1>1, <1>2, <2>3 DEF ListOK
  <2> QED
    BY <2>2, <2>4
<1> QED
  <2>1. OptionsOK /\ state = "set" /\ removed \in BOOLEAN
    <3>1. scte35 = 0 /\ muxPids = <<>> /\ muxrate = FALSE /\ outputs = <<>> /\ state = "set"
          /\ edits = 0 /\ removed = FALSE /\ MaxEdits \in Nat
      BY DEF Commands!ConstantsAreSound, Commands!Init
    <3>2. edits \in 0..MaxEdits /\ muxPids \in Seq(Nat) /\ DOMAIN outputs = {}
      BY <3>1
    <3> QED
      BY <3>1, <3>2 DEF OptionsOK
  <2> QED
    BY <1>3, <2>1 DEF ConfInv, Commands!StartIsSound, Commands!MuxIsConsistent

(* Streams that change in place, keeping their number and their input.     *)
LEMMA ChangedInPlace ==
  ASSUME NEW p, NEW l, ListOK(p, l), NEW g, DOMAIN g = DOMAIN l,
         g = [i \in DOMAIN l |-> g[i]],
         \A i \in 1..Len(l) : StreamOK(p, g[i]) /\ g[i].input = l[i].input /\ g[i].id = l[i].id
  PROVE  ListOK(p, g) /\ Len(g) = Len(l) /\ (Numbers(l) => Numbers(g))
<1>1. l \in Seq(StreamType) /\ Len(l) \in Nat /\ DOMAIN l = 1..Len(l)
  BY LenProperties DEF ListOK
<1>2. \A i \in 1..Len(l) : g[i] \in StreamType
  BY DEF StreamOK
<1>3. g \in [1..Len(l) -> StreamType]
  BY <1>1, <1>2
<1>4. g \in Seq(StreamType) /\ Len(g) = Len(l)
  BY <1>1, <1>3
<1> QED
  BY <1>1, <1>4 DEF ListOK, Numbers

(* The stream that `set stream' finds is one, and of the kind it is for.   *)
LEMMA SettableIs ==
  ASSUME ListOK(program, out), NEW id, NEW kind, Commands!Settable(id, kind)
  PROVE  \A i \in Commands!Named(id) :
           i \in 1..Len(out) /\ out[i].input >= 0 /\ program[out[i].input + 1] = kind
<1>1. Len(out) \in Nat /\ DOMAIN out = 1..Len(out)
  BY LenProperties DEF ListOK
<1>2. PICK i \in Commands!Named(id) : out[i].input >= 0 /\ Commands!KindOf(out[i]) = kind
  BY DEF Commands!Settable
<1>3. \A j \in Commands!Named(id) : j = i
  <2> SUFFICES ASSUME NEW j \in Commands!Named(id) PROVE j = i
    OBVIOUS
  <2>1. /\ i \in 1..Len(out) /\ j \in 1..Len(out)
        /\ out[i].id = id /\ out[j].id = id
        /\ \A k \in 1..i - 1 : out[k].id # id
        /\ \A k \in 1..j - 1 : out[k].id # id
    BY <1>1, <1>2 DEF Commands!Named
  <2>2. j \notin 1..i - 1 /\ i \notin 1..j - 1
    BY <2>1
  <2> QED
    BY <1>1, <2>1, <2>2
<1> QED
  BY <1>1, <1>2, <1>3 DEF Commands!KindOf, Commands!Named

(* What a step may do to the list, and what it then has to keep.           *)
ConfEdit ==
  /\ state' \in {"set", "undefined"} /\ OptionsOK' /\ removed' \in BOOLEAN
  /\ ProgramOK(program') /\ ListOK(program', out') /\ (~removed' => Numbers(out'))

LEMMA EditKeeps == ConfEdit => ConfInv'
BY DEF ConfEdit, ConfInv, Commands!StartIsSound, Commands!MuxIsConsistent

(* A stream stays one when an option of it is set.                         *)
LEMMA FieldSet ==
  ASSUME NEW s \in StreamType
  PROVE  /\ \A x \in BOOLEAN : [s EXCEPT !.encode = x] \in StreamType
         /\ \A x \in BOOLEAN : [s EXCEPT !.cardOnly = x] \in StreamType
         /\ \A x \in Formats : [s EXCEPT !.format = x] \in StreamType
         /\ \A x \in Int : [s EXCEPT !.max = x] \in StreamType
         /\ \A x \in Int : [s EXCEPT !.vbv = x] \in StreamType
         /\ \A x \in Int : [s EXCEPT !.rate = x] \in StreamType
         /\ \A x \in Nat : [s EXCEPT !.pid = x] \in StreamType
         /\ \A x \in Nat : [s EXCEPT !.id = x] \in StreamType
BY DEF StreamType

LEMMA RatesReset ==
  ASSUME NEW s \in StreamType
  PROVE  [s EXCEPT !.max = 0, !.vbv = 0, !.rate = 0] \in StreamType
<1>0. 0 \in Int
  OBVIOUS
<1>1. [s EXCEPT !.max = 0] \in StreamType
  BY <1>0, FieldSet
<1>2. [s EXCEPT !.max = 0, !.vbv = 0] \in StreamType
  BY <1>0, <1>1, FieldSet
<1> QED
  BY <1>0, <1>2, FieldSet

LEMMA VideoSet ==
  ASSUME NEW s \in StreamType, NEW f \in Formats, NEW c \in BOOLEAN, NEW m \in Int,
         NEW v \in Int, NEW r \in Int
  PROVE  [s EXCEPT !.encode = TRUE, !.format = f, !.cardOnly = c, !.max = m, !.vbv = v,
                   !.rate = r] \in StreamType
<1>1. [s EXCEPT !.encode = TRUE] \in StreamType
  BY FieldSet
<1>2. [s EXCEPT !.encode = TRUE, !.format = f] \in StreamType
  BY <1>1, FieldSet
<1>3. [s EXCEPT !.encode = TRUE, !.format = f, !.cardOnly = c] \in StreamType
  BY <1>2, FieldSet
<1>4. [s EXCEPT !.encode = TRUE, !.format = f, !.cardOnly = c, !.max = m] \in StreamType
  BY <1>3, FieldSet
<1>5. [s EXCEPT !.encode = TRUE, !.format = f, !.cardOnly = c, !.max = m, !.vbv = v]
        \in StreamType
  BY <1>4, FieldSet
<1> QED
  BY <1>5, FieldSet

LEMMA AudioSet ==
  ASSUME NEW s \in StreamType, NEW e \in BOOLEAN, NEW f \in {"raw", "mp2"}, NEW r \in Int,
         NEW p \in Nat
  PROVE  [s EXCEPT !.encode = e, !.format = f, !.rate = r, !.pid = p] \in StreamType
<1>1. [s EXCEPT !.encode = e] \in StreamType
  BY FieldSet
<1>2. [s EXCEPT !.encode = e, !.format = f] \in StreamType
  BY <1>1, FieldSet DEF Formats
<1>3. [s EXCEPT !.encode = e, !.format = f, !.rate = r] \in StreamType
  BY <1>2, FieldSet
<1> QED
  BY <1>3, FieldSet

LEMMA SetKeeps ==
  ASSUME Commands!ConstantsAreSound, ConfInv, NEW id, Commands!SetStream(id)
  PROVE  ConfInv'
<1>0. /\ ProgramOK(program) /\ ListOK(program, out) /\ out \in Seq(StreamType)
      /\ Len(out) \in Nat /\ DOMAIN out = 1..Len(out) /\ Len(program) \in Nat
      /\ \A i \in 1..Len(out) : StreamOK(program, out[i]) /\ out[i] \in StreamType
  BY LenProperties DEF ConfInv, ListOK, StreamOK, ProgramOK
<1>1. ASSUME NEW I, NEW g, state = "set",
             out' = [i \in DOMAIN out |-> IF i \in I THEN g[i] ELSE out[i]],
             UNCHANGED <<program, edits, removed, Commands!others, Commands!started>>,
             \A i \in 1..Len(out) : i \in I =>
               StreamOK(program, g[i]) /\ g[i].input = out[i].input /\ g[i].id = out[i].id
      PROVE  ConfInv'
  <2>1. ListOK(program, out') /\ (Numbers(out) => Numbers(out'))
    <3>1. DOMAIN out' = DOMAIN out /\ out' = [i \in DOMAIN out |-> out'[i]]
      BY <1>1
    <3>2. \A i \in 1..Len(out) : StreamOK(program, out'[i]) /\ out'[i].input = out[i].input
                                 /\ out'[i].id = out[i].id
      BY <1>0, <1>1
    <3> QED
      BY <1>0, <3>1, <3>2, ChangedInPlace
  <2>2. OptionsOK' /\ state' = "set"
    BY <1>1 DEF ConfInv, OptionsOK, Commands!others, Commands!started
  <2> QED
    BY <1>0, <1>1, <2>1, <2>2, EditKeeps DEF ConfInv, ConfEdit
<1>2. ASSUME Commands!SetVideoRefused(id)
      PROVE  ConfInv'
  <2> DEFINE g == [i \in DOMAIN out |-> [out[i] EXCEPT !.max = 0, !.vbv = 0, !.rate = 0]]
  <2>1. /\ state = "set"
        /\ out' = [i \in DOMAIN out |-> IF i \in Commands!Named(id) THEN g[i] ELSE out[i]]
        /\ UNCHANGED <<program, edits, removed, Commands!others, Commands!started>>
    BY <1>2 DEF Commands!SetVideoRefused, Commands!Settable, Commands!Set
  <2>2. ASSUME NEW i \in 1..Len(out)
        PROVE  StreamOK(program, g[i]) /\ g[i].input = out[i].input /\ g[i].id = out[i].id
    <3>1. g[i] = [out[i] EXCEPT !.max = 0, !.vbv = 0, !.rate = 0]
      BY <1>0, <2>2
    <3> HIDE DEF g
    <3>2. out[i] \in StreamType /\ StreamOK(program, out[i])
      BY <1>0
    <3>3. g[i] \in StreamType
      BY <3>1, <3>2, RatesReset
    <3>4. /\ g[i].id = out[i].id /\ g[i].input = out[i].input /\ g[i].vbv = 0
          /\ g[i].format = out[i].format /\ g[i].rate = 0 /\ g[i].cardOnly = out[i].cardOnly
      BY <3>1, <3>2 DEF StreamType
    <3> QED
      BY <3>2, <3>3, <3>4 DEF StreamOK
  <2> HIDE DEF g
  <2> QED
    BY <1>1, <2>1, <2>2
<1>3. ASSUME NEW o \in VideoOptions, Commands!SetVideo(id, o[1], o[2], o[3], o[4])
      PROVE  ConfInv'
  <2> DEFINE g == [i \in DOMAIN out |->
                     [out[i] EXCEPT !.encode = TRUE,
                        !.format = IF o[1] THEN out[i].format ELSE "avc",
                        !.cardOnly = out[i].cardOnly /\ o[1], !.max = o[2],
                        !.vbv = IF o[2] < 0 THEN 0 ELSE o[3],
                        !.rate = IF o[2] < 0 \/ o[3] < 0 THEN 0 ELSE o[4]]]
  <2>1. /\ state = "set" /\ Commands!Settable(id, "video")
        /\ out' = [i \in DOMAIN out |-> IF i \in Commands!Named(id) THEN g[i] ELSE out[i]]
        /\ UNCHANGED <<program, edits, removed, Commands!others, Commands!started>>
    BY <1>3 DEF Commands!SetVideo, Commands!Settable, Commands!Set
  <2>2. ASSUME NEW i \in 1..Len(out), i \in Commands!Named(id)
        PROVE  StreamOK(program, g[i]) /\ g[i].input = out[i].input /\ g[i].id = out[i].id
    <3> DEFINE f == IF o[1] THEN out[i].format ELSE "avc"
               c == out[i].cardOnly /\ o[1]
               v == IF o[2] < 0 THEN 0 ELSE o[3]
               r == IF o[2] < 0 \/ o[3] < 0 THEN 0 ELSE o[4]
    <3>1. g[i] = [out[i] EXCEPT !.encode = TRUE, !.format = f, !.cardOnly = c,
                    !.max = o[2], !.vbv = v, !.rate = r]
      BY <1>0, <2>2
    <3>2. o[1] \in BOOLEAN /\ o[2] \in Int /\ o[3] \in Int /\ o[4] \in Int
      BY <1>3 DEF Commands!ConstantsAreSound
    <3>3. out[i].input \in Int /\ out[i].input >= 0 /\ out[i].input <= Len(program) - 1
          /\ program[out[i].input + 1] = "video"
      BY <1>0, <2>1, <2>2, SettableIs DEF StreamOK, StreamType
    <3>4. out[i].input = 0
      BY <1>0, <3>3 DEF ProgramOK
    <3> HIDE DEF g
    <3>5. out[i] \in StreamType /\ StreamOK(program, out[i])
      BY <1>0
    <3>a. out[i].format \in {"raw", "avc", "card"} /\ out[i].cardOnly \in BOOLEAN
          /\ (out[i].format = "raw" => out[i].cardOnly)
      BY <3>4, <3>5 DEF StreamOK, StreamType
    <3>b. f \in Formats /\ c \in BOOLEAN /\ v \in Int /\ r \in Int
      BY <3>2, <3>a DEF Formats
    <3>c. f \in {"avc", "card"} \/ (f = "raw" /\ c)
      BY <3>2, <3>a
    <3> HIDE DEF f, c, v, r
    <3>6. g[i] \in StreamType
      <4>1. [out[i] EXCEPT !.encode = TRUE, !.format = f, !.cardOnly = c,
               !.max = o[2], !.vbv = v, !.rate = r] \in StreamType
        BY ZenonT(30), <3>2, <3>5, <3>b, VideoSet
      <4> QED
        BY <3>1, <4>1
    <3>7. /\ g[i].id = out[i].id /\ g[i].input = out[i].input
          /\ g[i].format = f /\ g[i].cardOnly = c /\ g[i].encode = TRUE
      BY <3>1, <3>5 DEF StreamType
    <3> QED
      BY <3>3, <3>4, <3>5, <3>6, <3>7, <3>c DEF StreamOK
  <2> HIDE DEF g
  <2> QED
    BY <1>1, <2>1, <2>2
<1>4. ASSUME Commands!SetAudioRefused(id)
      PROVE  ConfInv'
  <2> DEFINE g == [i \in DOMAIN out |-> [out[i] EXCEPT !.encode = TRUE]]
  <2>1. /\ state = "set"
        /\ out' = [i \in DOMAIN out |-> IF i \in Commands!Named(id) THEN g[i] ELSE out[i]]
        /\ UNCHANGED <<program, edits, removed, Commands!others, Commands!started>>
    BY <1>4 DEF Commands!SetAudioRefused, Commands!Settable, Commands!Set
  <2>2. ASSUME NEW i \in 1..Len(out)
        PROVE  StreamOK(program, g[i]) /\ g[i].input = out[i].input /\ g[i].id = out[i].id
    <3>1. g[i] = [out[i] EXCEPT !.encode = TRUE]
      BY <1>0, <2>2
    <3> QED
      BY <1>0, <2>2, <3>1 DEF StreamOK, StreamType
  <2> HIDE DEF g
  <2> QED
    BY <1>1, <2>1, <2>2
<1>5. ASSUME NEW o \in AudioOptions, Commands!SetAudio(id, o[1], o[2], o[3], o[4], o[5])
      PROVE  ConfInv'
  <2> DEFINE g == [i \in DOMAIN out |->
                     IF o[2] = "mp2" /\ o[5] > 2
                     THEN [out[i] EXCEPT !.encode = o[1], !.format = o[2]]
                     ELSE [out[i] EXCEPT !.encode = o[1], !.format = o[2], !.rate = o[3],
                                         !.pid = IF o[4] = 0 THEN @ ELSE o[4]]]
  <2>1. /\ state = "set" /\ Commands!Settable(id, "audio")
        /\ out' = [i \in DOMAIN out |-> IF i \in Commands!Named(id) THEN g[i] ELSE out[i]]
        /\ UNCHANGED <<program, edits, removed, Commands!others, Commands!started>>
    BY <1>5 DEF Commands!SetAudio, Commands!Settable, Commands!Set
  <2>2. ASSUME NEW i \in 1..Len(out), i \in Commands!Named(id)
        PROVE  StreamOK(program, g[i]) /\ g[i].input = out[i].input /\ g[i].id = out[i].id
    <3>2. o[1] \in BOOLEAN /\ o[2] \in {"raw", "mp2"} /\ o[3] \in Nat /\ o[4] \in Nat
      BY <1>5 DEF Commands!ConstantsAreSound
    <3>3. out[i].input \in Int /\ out[i].input >= 0 /\ out[i].input <= Len(program) - 1
          /\ program[out[i].input + 1] = "audio"
      BY <1>0, <2>1, <2>2, SettableIs DEF StreamOK, StreamType
    <3>4. out[i].input # 0
      BY <1>0, <3>3 DEF ProgramOK
    <3>5. CASE o[2] = "mp2" /\ o[5] > 2
      <4>1. g[i] = [out[i] EXCEPT !.encode = o[1], !.format = o[2]]
        BY <1>0, <2>2, <3>5
      <4> HIDE DEF g
      <4>2. out[i] \in StreamType /\ StreamOK(program, out[i])
        BY <1>0
      <4>3. g[i] \in StreamType
        BY <3>2, <4>1, <4>2 DEF StreamType, Formats
      <4>4. /\ g[i].id = out[i].id /\ g[i].input = out[i].input
            /\ g[i].format = o[2] /\ g[i].rate = out[i].rate
        BY <4>1, <4>2 DEF StreamType
      <4> QED
        BY <3>2, <3>3, <3>4, <4>2, <4>3, <4>4 DEF StreamOK
    <3>6. CASE ~(o[2] = "mp2" /\ o[5] > 2)
      <4>1. g[i] = [out[i] EXCEPT !.encode = o[1], !.format = o[2], !.rate = o[3],
                                  !.pid = IF o[4] = 0 THEN out[i].pid ELSE o[4]]
        BY <1>0, <2>2, <3>6
      <4> HIDE DEF g
      <4>2. out[i] \in StreamType /\ StreamOK(program, out[i])
        BY <1>0
      <4>3. g[i] \in StreamType
        <5>1. (IF o[4] = 0 THEN out[i].pid ELSE o[4]) \in Nat
          BY <3>2, <4>2 DEF StreamType
        <5>2. [out[i] EXCEPT !.encode = o[1], !.format = o[2], !.rate = o[3],
                 !.pid = IF o[4] = 0 THEN out[i].pid ELSE o[4]] \in StreamType
          <6>1. o[3] \in Int
            BY <3>2
          <6> QED
            BY ZenonT(30), <3>2, <4>2, <5>1, <6>1, AudioSet
        <5> QED
          BY <4>1, <5>2
      <4>4. /\ g[i].id = out[i].id /\ g[i].input = out[i].input
            /\ g[i].format = o[2] /\ g[i].rate = o[3]
        BY <4>1, <4>2 DEF StreamType
      <4> QED
        BY <3>2, <3>3, <3>4, <4>2, <4>3, <4>4 DEF StreamOK
    <3> QED
      BY <3>5, <3>6
  <2> HIDE DEF g
  <2> QED
    BY <1>1, <2>1, <2>2
<1>6. ASSUME Commands!SetWithoutInput(id)
      PROVE  ConfInv'
  BY <1>6, EditKeeps
     DEF Commands!SetWithoutInput, Commands!list, Commands!others, ConfEdit, ConfInv, OptionsOK
<1> QED
  BY <1>2, <1>3, <1>4, <1>5, <1>6 DEF Commands!SetStream

(* `add stream' and `remove stream'; the probe.                            *)
LEMMA AddKeeps ==
  ASSUME Commands!ConstantsAreSound, ConfInv,
         NEW n \in Commands!Ids, NEW kind \in {"audio", "teletext"}, Commands!AddStream(n, kind)
  PROVE  ConfInv'
<1> DEFINE e == Commands!Added(n, kind)
           l == [i \in DOMAIN out |-> IF i > n THEN [out[i] EXCEPT !.id = @ + 1] ELSE out[i]]
<1>0. /\ ProgramOK(program) /\ ListOK(program, out) /\ out \in Seq(StreamType)
      /\ Len(out) \in Nat /\ DOMAIN out = 1..Len(out) /\ n \in Nat
      /\ \A i \in 1..Len(out) : StreamOK(program, out[i]) /\ out[i] \in StreamType
                                /\ (out[i].input = 0 <=> i = 1)
  BY LenProperties DEF ConfInv, ListOK, StreamOK, Commands!Ids, Commands!ConstantsAreSound
<1>1. /\ state = "set" /\ program # <<>> /\ n > 0 /\ edits < MaxEdits /\ n <= Len(out)
      /\ out' = Commands!InsertAt(l, n + 1, e)
      /\ removed' = removed /\ edits' = edits + 1
      /\ UNCHANGED <<program, Commands!others, Commands!started>>
  BY DEF Commands!AddStream, Commands!Editable, Commands!Edited
<1>2. Len(program) \in Nat /\ Len(program) >= 2
  BY <1>0, <1>1, LenProperties DEF ListOK, ProgramOK
<1>3. ASSUME NEW i \in 1..Len(out)
      PROVE  /\ StreamOK(program, l[i]) /\ l[i] \in StreamType /\ l[i].input = out[i].input
             /\ l[i].id = IF i > n THEN out[i].id + 1 ELSE out[i].id
  <2>1. CASE i > n
    <3>1. l[i] = [out[i] EXCEPT !.id = out[i].id + 1]
      BY <1>0, <2>1
    <3> HIDE DEF l
    <3>2. out[i] \in StreamType /\ StreamOK(program, out[i]) /\ out[i].id + 1 \in Nat
      <4>1. out[i] \in StreamType /\ StreamOK(program, out[i])
        BY <1>0
      <4>2. out[i].id \in Nat
        BY <4>1 DEF StreamType
      <4> QED
        BY <4>1, <4>2
    <3>3. l[i] \in StreamType
      BY <3>1, <3>2, FieldSet
    <3>4. /\ l[i].id = out[i].id + 1 /\ l[i].input = out[i].input /\ l[i].format = out[i].format
          /\ l[i].encode = out[i].encode /\ l[i].vbv = out[i].vbv /\ l[i].rate = out[i].rate
          /\ l[i].cardOnly = out[i].cardOnly
      BY <3>1, <3>2 DEF StreamType
    <3> QED
      BY <2>1, <3>2, <3>3, <3>4 DEF StreamOK
  <2>2. CASE ~(i > n)
    <3>1. l[i] = out[i]
      BY <1>0, <2>2
    <3> HIDE DEF l
    <3> QED
      BY <1>0, <2>2, <3>1
  <2> QED
    BY <2>1, <2>2
<1>4. DOMAIN l = 1..Len(out) /\ l \in Seq(StreamType) /\ Len(l) = Len(out)
  <2>1. l = [i \in 1..Len(out) |-> l[i]]
    BY <1>0
  <2> HIDE DEF l
  <2> QED
    BY <1>0, <1>3, <2>1
<1> HIDE DEF l
<1>5. e \in StreamType /\ e.id = n /\ e.input \in {-1, 1} /\ StreamOK(program, e)
  <2> DEFINE v == IF kind = "audio" THEN 1 ELSE -1
  <2>1. e = [id |-> n, input |-> v, format |-> "raw", encode |-> FALSE,
             max |-> 0, vbv |-> 0, rate |-> 0, pid |-> 0, cardOnly |-> TRUE]
    BY DEF Commands!Added, Commands!Stream
  <2>2. v \in {-1, 1} /\ v \in Int
    OBVIOUS
  <2> HIDE DEF e, v
  <2>3. e \in StreamType
    BY <1>0, <2>1, <2>2 DEF StreamType, Formats
  <2>4. /\ e.id = n /\ e.input = v /\ e.format = "raw" /\ e.vbv = 0 /\ e.rate = 0
        /\ e.cardOnly
    BY <2>1
  <2> QED
    BY <1>2, <2>2, <2>3, <2>4 DEF StreamOK
<1> HIDE DEF e
<1>6. /\ out' \in Seq(StreamType) /\ Len(out') = Len(out) + 1
      /\ \A j \in 1..Len(out) + 1 :
           out'[j] = IF j < n + 1 THEN l[j] ELSE IF j = n + 1 THEN e ELSE l[j - 1]
  <2>1. n + 1 \in 1..Len(l) + 1
    BY <1>0, <1>1, <1>4
  <2> DEFINE k == n + 1
             t == Commands!InsertAt(l, k, e)
  <2>2. k \in 1..Len(l) + 1 /\ l \in Seq(StreamType) /\ e \in StreamType /\ k = n + 1
    BY <1>4, <1>5, <2>1
  <2>3. out' = t
    BY <1>1
  <2> HIDE DEF k
  <2>4. /\ t \in Seq(StreamType) /\ Len(t) = Len(l) + 1
        /\ \A j \in 1..Len(l) + 1 :
             t[j] = IF j < k THEN l[j] ELSE IF j = k THEN e ELSE l[j - 1]
    BY <2>2, InsertedIs
  <2> HIDE DEF t
  <2> QED
    BY <1>4, <2>2, <2>3, <2>4
<1>7. ASSUME NEW j \in 1..Len(out')
      PROVE  /\ StreamOK(program, out'[j]) /\ (out'[j].input = 0 <=> j = 1)
             /\ Numbers(out) => out'[j].id = j - 1
  <2>0. j \in 1..Len(out) + 1
    BY <1>0, <1>6
  <2>1. CASE j < n + 1
    <3>1. j \in 1..Len(out) /\ ~(j > n) /\ out'[j] = l[j]
      BY <1>0, <1>1, <1>6, <2>0, <2>1
    <3>2. l[j].id = out[j].id
      BY <1>3, <3>1
    <3> QED
      BY <1>0, <1>3, <3>1, <3>2 DEF Numbers
  <2>2. CASE j = n + 1
    <3>1. out'[j] = e /\ j # 1 /\ j - 1 = n
      BY <1>0, <1>1, <1>6, <2>0, <2>2
    <3> QED
      BY <1>5, <3>1
  <2>3. CASE j > n + 1
    <3>1. /\ j - 1 \in 1..Len(out) /\ j - 1 > n /\ j # 1 /\ j - 1 # 1 /\ out'[j] = l[j - 1]
      BY <1>0, <1>1, <1>6, <2>0, <2>3
    <3> DEFINE k == j - 1
    <3>2. k \in 1..Len(out) /\ k > n /\ k # 1 /\ out'[j] = l[k]
      BY <3>1
    <3> HIDE DEF k
    <3>3. l[k].id = out[k].id + 1 /\ l[k].input = out[k].input /\ StreamOK(program, l[k])
      BY <1>3, <3>2
    <3>4. out[k].input # 0 /\ (Numbers(out) => out[k].id = k - 1)
      BY <1>0, <3>2 DEF Numbers
    <3>5. k \in Int /\ (out[k].id = k - 1 => out[k].id + 1 = k)
      BY <3>2
    <3>6. k = j - 1
      BY DEF k
    <3> QED
      BY <3>1, <3>2, <3>3, <3>4, <3>5, <3>6
  <2> QED
    BY <1>0, <2>0, <2>1, <2>2, <2>3
<1>8. ListOK(program, out') /\ (Numbers(out) => Numbers(out'))
  <2>1. Len(out') # 0
    BY <1>0, <1>6
  <2>2. ListOK(program, out')
    BY <1>2, <1>6, <1>7, <2>1 DEF ListOK
  <2>3. Numbers(out) => Numbers(out')
    BY <1>7 DEF Numbers
  <2> QED
    BY <2>2, <2>3
<1>9. OptionsOK' /\ state' = "set"
  BY <1>1 DEF ConfInv, OptionsOK, Commands!others, Commands!started, Commands!ConstantsAreSound
<1> QED
  BY <1>0, <1>1, <1>8, <1>9, EditKeeps DEF ConfInv, ConfEdit

LEMMA RemoveKeeps ==
  ASSUME Commands!ConstantsAreSound, ConfInv,
         NEW n \in Commands!Ids, Commands!RemoveStream(n)
  PROVE  ConfInv'
<1>0. /\ ProgramOK(program) /\ ListOK(program, out) /\ out \in Seq(StreamType)
      /\ Len(out) \in Nat /\ n \in Nat
      /\ \A i \in 1..Len(out) : StreamOK(program, out[i]) /\ (out[i].input = 0 <=> i = 1)
  BY LenProperties DEF ConfInv, ListOK, Commands!Ids, Commands!ConstantsAreSound
<1>1. /\ state = "set" /\ program # <<>> /\ n > 0 /\ edits < MaxEdits /\ n < Len(out)
      /\ out' = Commands!RemoveAt(out, n + 1)
      /\ removed' = TRUE /\ edits' = edits + 1
      /\ UNCHANGED <<program, Commands!others, Commands!started>>
  BY DEF Commands!RemoveStream, Commands!Editable, Commands!Edited
<1>2. /\ out' \in Seq(StreamType) /\ Len(out') = Len(out) - 1
      /\ \A j \in 1..Len(out) - 1 : out'[j] = IF j < n + 1 THEN out[j] ELSE out[j + 1]
  <2>1. n + 1 \in 1..Len(out)
    BY <1>0, <1>1
  <2> QED
    BY <1>0, <1>1, <2>1, RemovedIs
<1>3. ASSUME NEW j \in 1..Len(out')
      PROVE  StreamOK(program, out'[j]) /\ (out'[j].input = 0 <=> j = 1)
  <2>1. CASE j < n + 1
    <3>1. j \in 1..Len(out) /\ out'[j] = out[j]
      BY <1>0, <1>2, <2>1
    <3> QED
      BY <1>0, <3>1
  <2>2. CASE ~(j < n + 1)
    <3>1. j + 1 \in 1..Len(out) /\ out'[j] = out[j + 1] /\ j # 1 /\ j + 1 # 1
      BY <1>0, <1>1, <1>2, <2>2
    <3> QED
      BY <1>0, <3>1
  <2> QED
    BY <2>1, <2>2
<1>4. ListOK(program, out')
  BY <1>0, <1>1, <1>2, <1>3 DEF ListOK
<1>5. OptionsOK' /\ state' = "set"
  BY <1>1 DEF ConfInv, OptionsOK, Commands!others, Commands!started, Commands!ConstantsAreSound
<1> QED
  BY <1>0, <1>1, <1>4, <1>5, EditKeeps DEF ConfInv, ConfEdit

LEMMA ProbeDeviceKeeps ==
  ASSUME Commands!ConstantsAreSound, ConfInv, NEW video \in {"raw", "card"},
         Commands!ProbeDevice(video)
  PROVE  ConfInv'
<1> DEFINE extra == [i \in 1..scte35 |-> "scte35"]
<1>0. /\ Base \in Seq(Kinds) /\ Len(Base) \in Nat /\ Len(Base) >= 2 /\ scte35 \in Nat
      /\ \A i \in 1..Len(Base) : Base[i] = "video" <=> i = 1
  <2>1. Base \in Seq(STRING) /\ DOMAIN Base = 1..Len(Base) /\ Len(Base) \in Nat
    BY LenProperties DEF Commands!ConstantsAreSound
  <2>2. Base \in [1..Len(Base) -> Kinds]
    BY <2>1 DEF Kinds
  <2>3. Base \in Seq(Kinds)
    BY <2>1, <2>2
  <2> QED
    BY <2>1, <2>3 DEF Commands!ConstantsAreSound, ConfInv, OptionsOK
<1>1. /\ state = "set" /\ program' = Base \o extra
      /\ out' = [i \in 1..Len(program') |->
                  Commands!Stream(i - 1, i - 1, IF i = 1 THEN video ELSE "raw")]
      /\ removed' = FALSE
      /\ UNCHANGED <<Commands!others, Commands!started, edits>>
  BY DEF Commands!ProbeDevice
<1>2. extra \in Seq(Kinds) /\ Len(extra) = scte35 /\ \A i \in 1..scte35 : extra[i] = "scte35"
  <2>1. extra \in [1..scte35 -> Kinds]
    BY DEF Kinds
  <2> QED
    BY <1>0, <2>1
<1> HIDE DEF extra
<1>3. /\ program' \in Seq(Kinds) /\ Len(program') = Len(Base) + scte35
      /\ \A i \in 1..Len(Base) + scte35 :
           program'[i] = IF i <= Len(Base) THEN Base[i] ELSE extra[i - Len(Base)]
  <2>1. /\ Base \o extra \in Seq(Kinds) /\ Len(Base \o extra) = Len(Base) + Len(extra)
        /\ \A i \in 1..Len(Base) + Len(extra) :
             (Base \o extra)[i] = IF i <= Len(Base) THEN Base[i] ELSE extra[i - Len(Base)]
    BY <1>0, <1>2, ConcatProperties
  <2> QED
    BY <1>1, <1>2, <2>1
<1>4. ASSUME NEW i \in 1..Len(program')
      PROVE  program'[i] = "video" <=> i = 1
  <2>1. CASE i <= Len(Base)
    <3>1. i \in 1..Len(Base) /\ program'[i] = Base[i]
      BY <1>0, <1>3, <2>1
    <3> QED
      BY <1>0, <3>1
  <2>2. CASE ~(i <= Len(Base))
    <3>1. i # 1 /\ i - Len(Base) \in 1..scte35 /\ program'[i] = extra[i - Len(Base)]
      BY <1>0, <1>3, <2>2
    <3> QED
      BY <1>2, <3>1
  <2> QED
    BY <2>1, <2>2
<1>5. ASSUME NEW i \in 1..Len(program')
      PROVE  /\ out'[i] \in StreamType /\ StreamOK(program', out'[i])
             /\ (out'[i].input = 0 <=> i = 1) /\ out'[i].id = i - 1
  <2> DEFINE f == IF i = 1 THEN video ELSE "raw"
  <2>1. out'[i] = Commands!Stream(i - 1, i - 1, f)
    BY <1>1
  <2>2. out'[i] = [id |-> i - 1, input |-> i - 1, format |-> f, encode |-> FALSE,
                   max |-> 0, vbv |-> 0, rate |-> 0, pid |-> 0, cardOnly |-> TRUE]
    BY <2>1 DEF Commands!Stream
  <2>3. i - 1 \in Nat /\ Len(program') \in Nat /\ i - 1 >= -1 /\ i - 1 <= Len(program') - 1
        /\ (i - 1 = 0 <=> i = 1)
    BY <1>0, <1>3
  <2>6. f \in {"raw", "card"} /\ (f = "card" => i = 1)
    OBVIOUS
  <2> HIDE DEF f
  <2>4. out'[i] \in StreamType
    BY <2>2, <2>3, <2>6 DEF StreamType, Formats
  <2>5. /\ out'[i].id = i - 1 /\ out'[i].input = i - 1 /\ out'[i].format = f
        /\ out'[i].vbv = 0 /\ out'[i].rate = 0 /\ out'[i].cardOnly
    BY <2>2
  <2> QED
    BY <2>3, <2>4, <2>5, <2>6 DEF StreamOK
<1>6. out' \in Seq(StreamType) /\ Len(out') = Len(program')
  <2>1. out' \in [1..Len(program') -> StreamType]
    BY <1>1, <1>5
  <2> QED
    BY <1>0, <1>3, <2>1
<1>7. ProgramOK(program') /\ ListOK(program', out') /\ Numbers(out')
  <2>1. Len(program') >= 2 /\ Len(out') # 0
    BY <1>0, <1>3, <1>6
  <2> QED
    BY <1>3, <1>4, <1>5, <1>6, <2>1 DEF ProgramOK, ListOK, Numbers
<1>8. OptionsOK' /\ state' = "set"
  BY <1>1 DEF ConfInv, OptionsOK, Commands!others, Commands!started
<1> QED
  BY <1>1, <1>7, <1>8, EditKeeps DEF ConfEdit

(* Elements of an interval are counted.                                    *)
LEMMA Counted ==
  ASSUME NEW n \in Nat, NEW S \in SUBSET (1..n)
  PROVE  /\ IsFiniteSet(S) /\ Cardinality(S) \in Nat /\ Cardinality(S) <= n
         /\ S # {} => Cardinality(S) >= 1
<1>1. IsFiniteSet(1..n) /\ Cardinality(1..n) = n
  BY FS_Interval
<1>2. IsFiniteSet(S) /\ Cardinality(S) <= n
  BY <1>1, FS_Subset
<1>3. Cardinality(S) \in Nat
  BY <1>2, FS_CardinalityType
<1>4. S # {} => Cardinality(S) # 0
  BY <1>2, FS_EmptySet
<1>5. S # {} => Cardinality(S) >= 1
  BY <1>3, <1>4
<1> QED
  BY <1>2, <1>3, <1>5

(* The elements of a set of numbers have ranks: as many as elements, and   *)
(* each its own.                                                           *)
LEMMA Ranked ==
  ASSUME NEW n \in Nat, NEW E \in SUBSET (1..n), NEW k \in 1..Cardinality(E)
  PROVE  \E i \in E : Cardinality({j \in E : j <= i}) = k
<1> DEFINE U(m) == {j \in E : j <= m}
<1>0. \A j \in E : j \in 1..n /\ j \in Int /\ j >= 1 /\ j <= n
  OBVIOUS
<1>1. \A m \in Nat : U(m) \in SUBSET (1..n) /\ IsFiniteSet(U(m)) /\ Cardinality(U(m)) \in Nat
  <2> SUFFICES ASSUME NEW m \in Nat
               PROVE  U(m) \in SUBSET (1..n) /\ IsFiniteSet(U(m)) /\ Cardinality(U(m)) \in Nat
    OBVIOUS
  <2>1. U(m) \in SUBSET (1..n)
    BY <1>0
  <2> HIDE DEF U
  <2> QED
    BY <2>1, Counted
<1>2. U(0) = {} /\ U(n) = E
  <2>1. \A j \in E : ~(j <= 0) /\ j <= n
    BY <1>0
  <2> QED
    BY <2>1
<1>3. ASSUME NEW m \in Nat
      PROVE  \A j : /\ j \in U(m + 1) <=> j \in U(m) \/ (j = m + 1 /\ m + 1 \in E)
                    /\ j \in U(m) => j # m + 1
  <2>1. \A j \in E : (j <= m + 1 <=> (j <= m \/ j = m + 1)) /\ (j <= m => j # m + 1)
    BY <1>0
  <2> QED
    BY <2>1
<1> HIDE DEF U
<1> DEFINE M == {m \in Nat : Cardinality(U(m)) >= k}
<1>4. k \in Nat \ {0} /\ Cardinality(E) \in Nat /\ n \in M
  BY <1>1, <1>2
<1>5. PICK m \in M : \A l \in M : m <= l
  BY <1>4, Smallest
<1>6. m \in Nat /\ Cardinality(U(m)) >= k
  BY <1>5
<1>7. m # 0
  <2>1. Cardinality(U(0)) = 0
    BY <1>2, FS_EmptySet
  <2> QED
    BY <1>4, <1>6, <2>1
<1> DEFINE b == m - 1
<1>8. b \in Nat /\ b + 1 = m /\ b \notin M
  BY <1>5, <1>6, <1>7
<1>9. Cardinality(U(b)) < k /\ Cardinality(U(b)) \in Nat
  BY <1>1, <1>4, <1>8
<1> HIDE DEF b, M
<1>10. CASE b + 1 \in E
  <2>1. U(m) = U(b) \cup {m} /\ m \notin U(b)
    BY <1>3, <1>8, <1>10
  <2>2. Cardinality(U(m)) = Cardinality(U(b)) + 1
    BY <1>1, <1>8, <2>1, FS_AddElement
  <2>3. Cardinality(U(m)) = k /\ m \in E
    BY <1>4, <1>6, <1>8, <1>9, <1>10, <2>2
  <2> QED
    BY <2>3 DEF U
<1>11. CASE b + 1 \notin E
  <2>1. U(m) = U(b)
    BY <1>3, <1>8, <1>11
  <2> QED
    BY <1>4, <1>6, <1>9, <2>1
<1> QED
  BY <1>10, <1>11

LEMMA RankedOnce ==
  ASSUME NEW n \in Nat, NEW E \in SUBSET (1..n), NEW a \in E, NEW b \in E,
         Cardinality({j \in E : j <= a}) = Cardinality({j \in E : j <= b})
  PROVE  a = b
<1>1. ASSUME NEW x \in E, NEW y \in E, x < y
      PROVE  Cardinality({j \in E : j <= x}) < Cardinality({j \in E : j <= y})
  <2> DEFINE X == {j \in E : j <= x}
             Y == {j \in E : j <= y}
  <2>0. x \in Int /\ y \in Int /\ \A j \in E : j \in 1..n /\ j \in Int
    OBVIOUS
  <2>1. X \in SUBSET Y /\ y \in Y /\ y \notin X
    <3>1. \A j \in E : j <= x => j <= y
      BY <1>1, <2>0
    <3>2. y <= y /\ ~(y <= x)
      BY <1>1, <2>0
    <3> QED
      BY <3>1, <3>2
  <2>a. Y \in SUBSET (1..n) /\ X \in SUBSET (1..n)
    BY <2>0
  <2> HIDE DEF X, Y
  <2>2. IsFiniteSet(Y) /\ Cardinality(Y) \in Nat /\ Cardinality(X) \in Nat
    BY <2>a, Counted
  <2>3. Cardinality(X) <= Cardinality(Y) /\ Cardinality(X) # Cardinality(Y)
    BY <2>1, <2>2, FS_Subset
  <2> QED
    BY <2>2, <2>3 DEF X, Y
<1>2. a \in Int /\ b \in Int
  OBVIOUS
<1>3. ~(a < b) /\ ~(b < a)
  <2>1. {j \in E : j <= a} \in SUBSET (1..n) /\ {j \in E : j <= b} \in SUBSET (1..n)
    OBVIOUS
  <2>2. Cardinality({j \in E : j <= a}) \in Nat /\ Cardinality({j \in E : j <= b}) \in Nat
    BY <2>1, Counted
  <2> QED
    BY <1>1, <2>2
<1> QED
  BY <1>2, <1>3

(* Between one and six frames of audio go into a PES packet.               *)
LEMMA FramesFit ==
  ASSUME NEW rate \in Nat \ {0}
  PROVE  Commands!FramesPerPes(rate) \in 1..6
<1> DEFINE d == (1152 * 125 * rate) \div 48000
           x == 3584 \div d
           y == Commands!Max({x, 1})
<1>1. d \in Nat /\ d > 0
  OBVIOUS
<1> HIDE DEF d
<1>2. x \in Int
  BY <1>1
<1> HIDE DEF x
<1>3. y \in {x, 1} /\ y >= 1 /\ y \in Int
  <2>1. \E z \in {x, 1} : \A w \in {x, 1} : z >= w
    BY <1>2
  <2>2. y \in {x, 1} /\ \A w \in {x, 1} : y >= w
    BY <2>1 DEF Commands!Max
  <2> QED
    BY <1>2, <2>2
<1> HIDE DEF y
<1>4. Commands!Min({y, 6}) \in {y, 6} /\ Commands!Min({y, 6}) <= 6
  <2>1. \E z \in {y, 6} : \A w \in {y, 6} : z <= w
    BY <1>3
  <2>2. Commands!Min({y, 6}) \in {y, 6} /\ \A w \in {y, 6} : Commands!Min({y, 6}) <= w
    BY <2>1 DEF Commands!Min
  <2> QED
    BY <2>2
<1>5. Commands!FramesPerPes(rate) = Commands!Min({y, 6})
  BY DEF Commands!FramesPerPes, y, x, d
<1> QED
  BY <1>3, <1>4, <1>5

(* PIDs given in the order of the streams differ from each other and from  *)
(* those that were typed, if these are elsewhere.                          *)
LEMMA PidsDiffer ==
  ASSUME MinPid \in Nat, NEW s \in Seq(StreamType),
         \A i \in 1..Len(s) : s[i].pid \notin MinPid..MinPid + Len(s),
         \A i, j \in 1..Len(s) : i # j /\ s[i].pid = s[j].pid => s[i].pid = 0
  PROVE  /\ \A i \in 1..Len(s) : Commands!StreamPid(s, i) # MinPid
         /\ \A i, j \in 1..Len(s) : Commands!StreamPid(s, i) = Commands!StreamPid(s, j) => i = j
<1>0. Len(s) \in Nat /\ \A i \in 1..Len(s) : s[i] \in StreamType
  BY LenProperties, ElementOfSeq
<1> DEFINE Z(i) == {j \in 1..i - 1 : s[j].pid = 0}
<1>1. ASSUME NEW i \in 1..Len(s)
      PROVE  /\ Z(i) \in SUBSET (1..i - 1) /\ IsFiniteSet(Z(i)) /\ Cardinality(Z(i)) \in Nat
             /\ Cardinality(Z(i)) <= i - 1
  <2>1. i - 1 \in Nat /\ Z(i) \in SUBSET (1..i - 1)
    BY <1>0
  <2> HIDE DEF Z
  <2> QED
    BY <2>1, Counted
<1>2. ASSUME NEW i \in 1..Len(s), NEW j \in 1..Len(s), i < j, s[i].pid = 0
      PROVE  Cardinality(Z(i)) < Cardinality(Z(j))
  <2>1. Z(i) \in SUBSET Z(j) /\ i \in Z(j) /\ i \notin Z(i)
    BY <1>0, <1>2
  <2> HIDE DEF Z
  <2>2. Cardinality(Z(i)) <= Cardinality(Z(j)) /\ Cardinality(Z(i)) # Cardinality(Z(j))
    BY <1>1, <2>1, FS_Subset
  <2> QED
    BY <1>1, <2>2
<1>3. ASSUME NEW i \in 1..Len(s)
      PROVE  IF s[i].pid # 0
             THEN Commands!StreamPid(s, i) = s[i].pid
             ELSE Commands!StreamPid(s, i) = MinPid + 1 + Cardinality(Z(i))
  BY SameCardinality DEF Commands!StreamPid, Commands!AutoPid
<1> HIDE DEF Z
<1>4. ASSUME NEW i \in 1..Len(s)
      PROVE  /\ s[i].pid = 0 => Commands!StreamPid(s, i) \in MinPid + 1..MinPid + Len(s)
             /\ s[i].pid # 0 => Commands!StreamPid(s, i) \notin MinPid..MinPid + Len(s)
  BY <1>0, <1>1, <1>3
<1>5. ASSUME NEW i \in 1..Len(s), NEW j \in 1..Len(s), i # j
      PROVE  Commands!StreamPid(s, i) # Commands!StreamPid(s, j)
  <2>1. CASE s[i].pid # 0 /\ s[j].pid # 0
    BY <1>3, <1>5, <2>1
  <2>2. CASE s[i].pid # 0 /\ s[j].pid = 0
    <3>1. Commands!StreamPid(s, j) \in MinPid..MinPid + Len(s)
      BY <1>0, <1>4, <2>2
    <3> QED
      BY <1>4, <2>2, <3>1
  <2>3. CASE s[i].pid = 0 /\ s[j].pid # 0
    <3>1. Commands!StreamPid(s, i) \in MinPid..MinPid + Len(s)
      BY <1>0, <1>4, <2>3
    <3> QED
      BY <1>4, <2>3, <3>1
  <2>4. CASE s[i].pid = 0 /\ s[j].pid = 0
    <3>1. Cardinality(Z(i)) # Cardinality(Z(j))
      <4>1. i < j \/ j < i
        BY <1>5
      <4>2. CASE i < j
        BY <1>1, <1>2, <2>4, <4>2
      <4>3. CASE j < i
        BY <1>1, <1>2, <2>4, <4>3
      <4> QED
        BY <4>1, <4>2, <4>3
    <3>2. /\ Commands!StreamPid(s, i) = MinPid + 1 + Cardinality(Z(i))
          /\ Commands!StreamPid(s, j) = MinPid + 1 + Cardinality(Z(j))
      BY <1>3, <2>4
    <3> QED
      BY <1>1, <3>1, <3>2
  <2> QED
    BY <2>1, <2>2, <2>3, <2>4
<1>6. ASSUME NEW i \in 1..Len(s)
      PROVE  Commands!StreamPid(s, i) # MinPid
  BY <1>0, <1>4
<1> QED
  BY <1>5, <1>6

(* The PIDs that were typed for SCTE 35 are put into the streams.          *)
SameButPid(s, t) ==
  /\ s.id = t.id /\ s.input = t.input /\ s.format = t.format /\ s.encode = t.encode
  /\ s.max = t.max /\ s.vbv = t.vbv /\ s.rate = t.rate /\ s.cardOnly = t.cardOnly

LEMMA PidsPut ==
  ASSUME ConfInv, NEW last \in Int
  PROVE  /\ ListOK(program, Commands!WithPids(last))
         /\ Len(Commands!WithPids(last)) = Len(out)
         /\ Numbers(out) => Numbers(Commands!WithPids(last))
         /\ \A i \in 1..Len(out) : SameButPid(Commands!WithPids(last)[i], out[i])
<1> DEFINE g == Commands!WithPids(last)
<1>0. /\ ListOK(program, out) /\ Len(out) \in Nat /\ DOMAIN out = 1..Len(out)
      /\ muxPids \in Seq(Nat) /\ Len(muxPids) \in Nat
      /\ \A i \in 1..Len(out) : StreamOK(program, out[i]) /\ out[i] \in StreamType
  BY LenProperties DEF ConfInv, OptionsOK, ListOK, StreamOK
<1>1. DOMAIN g = DOMAIN out /\ g = [i \in DOMAIN out |-> g[i]]
  BY DEF Commands!WithPids
<1>2. ASSUME NEW i \in 1..Len(out), Commands!KindOf(out[i]) = "scte35",
             Commands!ScteBefore(i) <= Len(muxPids)
      PROVE  muxPids[Commands!ScteBefore(i)] \in Nat
  <2> DEFINE S == {j \in 1..i : Commands!KindOf(out[j]) = "scte35"}
  <2>1. S \in SUBSET (1..i) /\ i \in S /\ i \in Nat
    BY <1>0, <1>2
  <2>2. Commands!ScteBefore(i) = Cardinality(S)
    BY SameCardinality DEF Commands!ScteBefore
  <2> HIDE DEF S
  <2>3. Cardinality(S) \in Nat /\ Cardinality(S) >= 1
    BY <2>1, Counted
  <2>4. Cardinality(S) \in 1..Len(muxPids)
    BY <1>0, <1>2, <2>2, <2>3
  <2> QED
    BY <1>0, <2>2, <2>4, ElementOfSeq
<1>3. ASSUME NEW i \in 1..Len(out)
      PROVE  StreamOK(program, g[i]) /\ SameButPid(g[i], out[i])
  <2> DEFINE p == muxPids[Commands!ScteBefore(i)]
  <2>1. g[i] = out[i] \/ (p \in Nat /\ g[i] = [out[i] EXCEPT !.pid = p])
    BY <1>0, <1>2 DEF Commands!WithPids
  <2> HIDE DEF g, p
  <2>2. CASE g[i] = out[i]
    BY <1>0, <2>2 DEF SameButPid
  <2>3. CASE p \in Nat /\ g[i] = [out[i] EXCEPT !.pid = p]
    <3>1. out[i] \in StreamType /\ StreamOK(program, out[i])
      BY <1>0
    <3>2. g[i] \in StreamType
      BY <2>3, <3>1, FieldSet
    <3>3. SameButPid(g[i], out[i])
      BY <2>3, <3>1 DEF SameButPid, StreamType
    <3> QED
      BY <3>1, <3>2, <3>3 DEF StreamOK, SameButPid
  <2> QED
    BY <2>1, <2>2, <2>3
<1> HIDE DEF g
<1>4. \A i \in 1..Len(out) : StreamOK(program, g[i]) /\ g[i].input = out[i].input
                             /\ g[i].id = out[i].id
  BY <1>3 DEF SameButPid
<1>5. ListOK(program, g) /\ Len(g) = Len(out) /\ (Numbers(out) => Numbers(g))
  BY <1>0, <1>1, <1>4, ChangedInPlace
<1> QED
  BY <1>3, <1>5 DEF g

LEMMA RefusedKeeps ==
  ASSUME ConfInv, Commands!StartRefused
  PROVE  ConfInv'
<1>1. Len(out) \in Int /\ DOMAIN out = 1..Len(out)
  BY LenProperties DEF ConfInv, ListOK
<1>2. \E last \in Int : out' = Commands!WithPids(last)
  BY <1>1 DEF Commands!StartRefused, Commands!CheckEnds
<1>3. ListOK(program, out') /\ (Numbers(out) => Numbers(out'))
  BY <1>2, PidsPut
<1>4. OptionsOK' /\ state' = "set" /\ removed' = removed /\ program' = program
  BY DEF Commands!StartRefused, Commands!HasStreams, Commands!others, Commands!started,
         ConfInv, OptionsOK
<1> QED
  BY <1>3, <1>4, EditKeeps DEF ConfInv, ConfEdit

(* The check of the streams ends nowhere if all of them pass.              *)
LEMMA AllPass ==
  ASSUME ConfInv, Commands!CheckEnds = {}
  PROVE  \A i \in 1..Len(out) : Commands!Passes(out[i])
<1>1. Len(out) \in Nat /\ DOMAIN out = 1..Len(out)
  BY LenProperties DEF ConfInv, ListOK
<1> DEFINE S == {i \in 1..Len(out) : ~Commands!Passes(out[i])}
<1> SUFFICES ASSUME S # {} PROVE FALSE
  OBVIOUS
<1>2. PICK m \in S : \A i \in S : m <= i
  <2>1. S \in SUBSET Nat
    OBVIOUS
  <2> HIDE DEF S
  <2> QED
    BY <2>1, Smallest
<1>3. \A j \in 1..m - 1 : Commands!Passes(out[j])
  <2>1. \A j \in 1..m - 1 : j \in 1..Len(out) /\ ~(m <= j)
    BY <1>1, <1>2
  <2> QED
    BY <1>2, <2>1
<1>4. m \in Commands!CheckEnds
  BY <1>1, <1>2, <1>3 DEF Commands!CheckEnds
<1> QED
  BY <1>4

LEMMA StartKeeps ==
  ASSUME Commands!ConstantsAreSound, ConfInv, Commands!Start
  PROVE  ConfInv'
<1>0. /\ ProgramOK(program) /\ ListOK(program, out) /\ out \in Seq(StreamType)
      /\ Len(out) \in Nat /\ DOMAIN out = 1..Len(out)
      /\ MinPid \in Nat
  BY LenProperties DEF ConfInv, ListOK, Commands!ConstantsAreSound
<1>1. /\ state = "set" /\ program # <<>> /\ Commands!CheckEnds = {}
      /\ out' = Commands!WithPids(Len(out)) /\ state' = "running"
      /\ encoders' = [k \in 1..Cardinality(Commands!Encoded) |->
                        Commands!EncoderOf(out[Commands!EncodedAt(k)])]
      /\ mux' = Commands!Multiplex(out')
      /\ UNCHANGED <<program, edits, removed, Commands!others>>
  BY SameCardinality DEF Commands!Start, Commands!HasStreams
<1>2. /\ ListOK(program, out') /\ Len(out') = Len(out) /\ (Numbers(out) => Numbers(out'))
      /\ \A i \in 1..Len(out) : SameButPid(out'[i], out[i])
  <2>1. Len(out) \in Int
    BY <1>0
  <2> QED
    BY <1>1, <2>1, PidsPut
<1>3. /\ out' \in Seq(StreamType) /\ DOMAIN out' = 1..Len(out) /\ 1 \in 1..Len(out)
      /\ \A i \in 1..Len(out) : /\ StreamOK(program, out[i]) /\ StreamOK(program, out'[i])
                                /\ out'[i] \in StreamType /\ (out'[i].input = 0 <=> i = 1)
                                /\ (out[i].input = 0 <=> i = 1) /\ out[i] \in StreamType
  <2>1. out' \in Seq(StreamType) /\ DOMAIN out' = 1..Len(out)
    BY <1>2, LenProperties DEF ListOK
  <2>2. 1 \in 1..Len(out)
    BY <1>0, <1>1 DEF ListOK
  <2> QED
    BY <1>0, <1>2, <2>1, <2>2 DEF ListOK, StreamOK
<1>4. \A i \in 1..Len(out) : Commands!Passes(out[i])
  BY <1>1, AllPass
<1>5. program[1] = "video"
  <2>1. Len(program) \in Nat /\ Len(program) >= 2
    BY <1>0, <1>1, LenProperties DEF ProgramOK, ListOK
  <2> QED
    BY <1>0, <2>1 DEF ProgramOK
<1>6. /\ out'[1].encode /\ out'[1].format \in {"raw", "avc", "card"}
      /\ out'[1].format = "raw" <=> Commands!Uncoded'
  <2>1. out[1].input = 0 /\ StreamOK(program, out[1]) /\ Commands!Passes(out[1])
    BY <1>3, <1>4
  <2>2. Commands!KindOf(out[1]) = "video"
    BY <1>5, <2>1 DEF Commands!KindOf
  <2>3. out[1].vbv # 0
    BY <2>1, <2>2 DEF Commands!Passes, Commands!RatesChosen
  <2>4. SameButPid(out'[1], out[1])
    BY <1>2, <1>3
  <2> QED
    BY <2>1, <2>3, <2>4 DEF StreamOK, SameButPid, Commands!Uncoded
<1>7. Commands!Videos(out') = IF Commands!Uncoded' THEN {} ELSE {1}
  <2>1. \A i \in 1..Len(out) : out'[i].format \in {"avc", "card"} => i = 1
    BY <1>3 DEF StreamOK
  <2> QED
    BY <1>3, <1>6, <2>1 DEF Commands!Videos
<1>8. Commands!StartIsSound'
  <2>1. (Commands!KindOf(out[1]))' = "video"
    BY <1>1, <1>3, <1>5 DEF Commands!KindOf
  <2>2. ASSUME NEW i \in 1..Len(out)
        PROVE  out'[i].input >= 0 /\ (Commands!RatesChosen(out[i]))'
    <3>1. Commands!Passes(out[i]) /\ SameButPid(out'[i], out[i]) /\ program' = program
      BY <1>1, <1>2, <1>4
    <3> QED
      BY <3>1 DEF Commands!Passes, Commands!RatesChosen, Commands!KindOf, SameButPid
  <2>3. ASSUME NEW i \in 1..Len(out), out[i].encode
        PROVE  /\ out[i].format = "mp2" => Commands!EncoderOf(out[i]).frames \in 1..6
               /\ out[i].format # "mp2" => Commands!EncoderOf(out[i]).frames = 0
               /\ Commands!EncoderOf(out[i]).id = out[i].id
    <3>1. ASSUME out[i].format = "mp2"
          PROVE  out[i].rate \in Nat \ {0}
      BY <1>3, <1>4, <2>3, <3>1
         DEF StreamOK, Commands!Passes, Commands!RatesChosen, Commands!KindOf
    <3> QED
      BY <3>1, FramesFit DEF Commands!EncoderOf
  <2> DEFINE E == Commands!Encoded
             n == Len(out)
  <2>4. /\ n \in Nat /\ E \in SUBSET (1..n)
        /\ \A i \in 1..n : i \in E <=> out[i].encode
    BY <1>0 DEF Commands!Encoded
  <2>5. \A k : Commands!EncodedAt(k) = CHOOSE i \in E : Cardinality({j \in E : j <= i}) = k
    BY SameCardinality DEF Commands!EncodedAt
  <2> HIDE DEF E, n
  <2>6. ASSUME NEW k \in 1..Cardinality(E)
        PROVE  /\ Commands!EncodedAt(k) \in E
               /\ Cardinality({j \in E : j <= Commands!EncodedAt(k)}) = k
    <3>1. \E i \in E : Cardinality({j \in E : j <= i}) = k
      BY <2>4, Ranked
    <3> QED
      BY <2>5, <3>1
  <2>7. ASSUME NEW i \in E
        PROVE  \E k \in 1..Cardinality(E) : Commands!EncodedAt(k) = i
    <3> DEFINE U == {j \in E : j <= i}
               k == Cardinality(U)
    <3>1. U \in SUBSET E /\ i \in U /\ U \in SUBSET (1..n)
      <4>1. i <= i
        BY <2>4
      <4> QED
        BY <2>4, <4>1
    <3> HIDE DEF U
    <3>2. IsFiniteSet(E) /\ Cardinality(E) \in Nat /\ Cardinality(U) \in Nat
          /\ Cardinality(U) >= 1
      BY <2>4, <3>1, Counted
    <3>3. Cardinality(U) <= Cardinality(E)
      BY <3>1, <3>2, FS_Subset
    <3>4. k \in 1..Cardinality(E)
      BY <3>2, <3>3
    <3>5. k = Cardinality({j \in E : j <= i})
      BY DEF U
    <3> HIDE DEF k
    <3>6. /\ Commands!EncodedAt(k) \in E
          /\ Cardinality({j \in E : j <= Commands!EncodedAt(k)}) = k
      BY <2>6, <3>4
    <3>7. Commands!EncodedAt(k) = i
      BY <2>4, <3>5, <3>6, RankedOnce
    <3> QED
      BY <3>4, <3>7
  <2>8. encoders' = [k \in 1..Cardinality(E) |->
                        Commands!EncoderOf(out[Commands!EncodedAt(k)])]
    BY <1>1 DEF E
  <2>9. ASSUME NEW k \in DOMAIN encoders'
        PROVE  encoders'[k].frames \in 0..6
    <3>1. k \in 1..Cardinality(E)
      BY <2>8, <2>9
    <3> DEFINE i == Commands!EncodedAt(k)
    <3>2. i \in 1..Len(out) /\ out[i].encode /\ encoders'[k] = Commands!EncoderOf(out[i])
      BY <2>4, <2>6, <2>8, <3>1 DEF n
    <3> HIDE DEF i
    <3>3. Commands!EncoderOf(out[i]).frames \in 1..6 \/ Commands!EncoderOf(out[i]).frames = 0
      BY <2>3, <3>2
    <3> QED
      BY <3>2, <3>3
  <2>10. ASSUME NEW i \in 1..Len(out), out'[i].encode, out'[i].format = "mp2"
         PROVE  \E k \in DOMAIN encoders' : encoders'[k].id = out'[i].id
                                            /\ encoders'[k].frames > 0
    <3>1. SameButPid(out'[i], out[i])
      BY <1>2
    <3>2. out[i].encode /\ out[i].format = "mp2" /\ out'[i].id = out[i].id
      BY <2>10, <3>1 DEF SameButPid
    <3>3. i \in E
      BY <2>4, <3>2 DEF n
    <3>4. PICK k \in 1..Cardinality(E) : Commands!EncodedAt(k) = i
      BY <2>7, <3>3
    <3>5. k \in DOMAIN encoders' /\ encoders'[k] = Commands!EncoderOf(out[i])
      BY <2>8, <3>4
    <3>6. Commands!EncoderOf(out[i]).frames \in 1..6 /\ Commands!EncoderOf(out[i]).id = out[i].id
      BY <2>3, <3>2
    <3> QED
      BY <3>2, <3>5, <3>6
  <2> QED
    BY <1>3, <1>6, <1>7, <2>1, <2>2, <2>9, <2>10 DEF Commands!StartIsSound
<1>9. Commands!MuxIsConsistent'
  <2>1. /\ mux'.pids = [i \in 1..Len(out) |-> Commands!StreamPid(out', i)]
        /\ mux'.pmt = MinPid
        /\ mux'.pcr = IF Commands!Videos(out') = {} THEN 0
                      ELSE Commands!StreamPid(out', Commands!Max(Commands!Videos(out')))
    BY <1>1, <1>3 DEF Commands!Multiplex
  <2>2. Commands!Max({1}) = 1
    <3>1. \E x \in {1} : \A y \in {1} : x >= y
      OBVIOUS
    <3> QED
      BY <3>1 DEF Commands!Max
  <2>3. mux'.pcr = IF Commands!Uncoded' THEN 0 ELSE mux'.pids[1]
    BY <1>3, <1>7, <2>1, <2>2
  <2>4. ASSUME /\ \A i \in 1..Len(out') : out'[i].pid \notin MinPid..MinPid + Len(out')
               /\ \A i, j \in 1..Len(out') : i # j /\ out'[i].pid = out'[j].pid =>
                                               out'[i].pid = 0
        PROVE  Commands!IsInjective(mux'.pids) /\ mux'.pmt \notin Commands!Range(mux'.pids)
    <3>1. /\ \A i \in 1..Len(out') : Commands!StreamPid(out', i) # MinPid
          /\ \A i, j \in 1..Len(out') :
               Commands!StreamPid(out', i) = Commands!StreamPid(out', j) => i = j
      BY <1>0, <1>3, <2>4, PidsDiffer
    <3> QED
      BY <1>2, <2>1, <3>1 DEF Commands!IsInjective, Commands!Range
  <2> QED
    BY <1>2, <1>3, <2>3, <2>4 DEF Commands!MuxIsConsistent
<1>10. OptionsOK'
  BY <1>1 DEF ConfInv, OptionsOK, Commands!others
<1> QED
  BY <1>0, <1>1, <1>2, <1>8, <1>9, <1>10 DEF ConfInv

LEMMA OthersKeep ==
  ASSUME Commands!ConstantsAreSound, ConfInv,
         \/ \E pids \in Commands!BoundedSeq(AskedPids, Scte), rate \in BOOLEAN :
              Commands!SetMuxer(pids, rate)
         \/ \E n \in {0, 1} : Commands!SetInput(n)
         \/ \E n \in Outputs : Commands!SetOutputs(n)
         \/ \E o \in DOMAIN outputs : Commands!SetOutput(o)
         \/ Commands!StartWithoutInput \/ Commands!Stop
  PROVE  ConfInv'
<1>0. ProgramOK(program) /\ ListOK(program, out) /\ (~removed => Numbers(out)) /\ OptionsOK
      /\ muxPids \in Seq(Nat) /\ Len(muxPids) \in Nat /\ removed \in BOOLEAN
  BY LenProperties DEF ConfInv, OptionsOK
<1>1. ASSUME NEW pids \in Commands!BoundedSeq(AskedPids, Scte), NEW rate \in BOOLEAN,
             Commands!SetMuxer(pids, rate)
      PROVE  ConfInv'
  <2>1. pids \in Seq(Nat) /\ Len(pids) \in Nat
    <3>1. PICK m \in 0..Scte : pids \in [1..m -> AskedPids]
      <4>1. Commands!BoundedSeq(AskedPids, Scte) = UNION {[1..m -> AskedPids] : m \in 0..Scte}
        BY DEF Commands!BoundedSeq, Commands!SeqOf
      <4> QED
        BY <1>1, <4>1
    <3>2. Scte \in Nat /\ \A x \in AskedPids : x \in Nat
      BY DEF Commands!ConstantsAreSound
    <3>3. m \in Nat
      BY <3>2
    <3>4. pids \in [1..m -> Nat]
      BY <3>1, <3>2
    <3> QED
      BY <3>3, <3>4
  <2> DEFINE rest == SubSeq(muxPids, Len(pids) + 1, Len(muxPids))
  <2>2. rest \in Seq(Nat)
    <3>1. \A i \in Len(pids) + 1..Len(muxPids) : muxPids[i] \in Nat
      BY <1>0, <2>1, ElementOfSeq
    <3>2. Len(pids) + 1 \in Int /\ Len(muxPids) \in Int
      BY <1>0, <2>1
    <3> QED
      BY <3>1, <3>2, SubSeqProperties
  <2>3. muxPids' = pids \o rest /\ state = "set" /\ scte35' \in {scte35, Len(pids)}
        /\ muxrate' = rate /\ UNCHANGED <<Commands!list, Commands!started, outputs>>
    BY <1>1 DEF Commands!SetMuxer
  <2> HIDE DEF rest
  <2>4. pids \o rest \in Seq(Nat)
    BY <2>1, <2>2, ConcatProperties
  <2> QED
    BY <1>0, <2>1, <2>3, <2>4, EditKeeps
       DEF Commands!list, Commands!started, ConfEdit, OptionsOK
<1>2. ASSUME NEW n \in {0, 1}, Commands!SetInput(n)
      PROVE  ConfInv'
  BY <1>0, <1>2, EditKeeps
     DEF Commands!SetInput, Commands!list, Commands!started, ConfEdit, OptionsOK
<1>3. ASSUME NEW n \in Outputs, Commands!SetOutputs(n)
      PROVE  ConfInv'
  BY <1>0, <1>3, EditKeeps
     DEF Commands!SetOutputs, Commands!list, Commands!started, ConfEdit, OptionsOK
<1>4. ASSUME NEW o \in DOMAIN outputs, Commands!SetOutput(o)
      PROVE  ConfInv'
  BY <1>0, <1>4, EditKeeps
     DEF Commands!SetOutput, Commands!list, Commands!started, ConfEdit, OptionsOK
<1>5. CASE Commands!StartWithoutInput
  BY <1>0, <1>5, EditKeeps
     DEF Commands!StartWithoutInput, Commands!list, Commands!others, ConfEdit, OptionsOK
<1>6. CASE Commands!Stop
  <2>1. /\ state' = "set" /\ program' = <<>> /\ out' = <<>> /\ scte35' = 0 /\ muxPids' = <<>>
        /\ muxrate' = FALSE /\ outputs' = <<>> /\ removed' = FALSE /\ edits' = edits
    BY <1>6 DEF Commands!Stop
  <2>2. /\ <<>> \in Seq(StreamType) /\ <<>> \in Seq(Kinds) /\ <<>> \in Seq(Nat)
        /\ 1..Len(<<>>) = {} /\ DOMAIN <<>> = {}
    OBVIOUS
  <2>3. OptionsOK'
    BY <1>0, <2>1, <2>2 DEF OptionsOK
  <2>4. ProgramOK(program') /\ ListOK(program', out') /\ Numbers(out')
    <3>1. ProgramOK(program') /\ Numbers(out')
      BY <2>1, <2>2 DEF ProgramOK, Numbers
    <3>2. \A i \in 1..Len(out') : StreamOK(program', out'[i]) /\ (out'[i].input = 0 <=> i = 1)
      BY <2>1, <2>2
    <3> QED
      BY <2>1, <2>2, <3>1, <3>2 DEF ListOK
  <2> QED
    BY <2>1, <2>3, <2>4, EditKeeps DEF ConfEdit
<1> QED
  BY <1>1, <1>2, <1>3, <1>4, <1>5, <1>6

LEMMA ConfStep ==
  Commands!ConstantsAreSound /\ ConfInv /\ [Commands!Next]_(Commands!vars) => ConfInv'
<1> SUFFICES ASSUME Commands!ConstantsAreSound, ConfInv, [Commands!Next]_(Commands!vars)
             PROVE  ConfInv'
  OBVIOUS
<1>1. CASE Commands!Next
  BY <1>1, AddKeeps, RemoveKeeps, SetKeeps, ProbeDeviceKeeps, RefusedKeeps, StartKeeps,
     OthersKeep DEF Commands!Next
<1>2. CASE UNCHANGED Commands!vars
  <2>1. UNCHANGED <<program, out, scte35, muxPids, muxrate, outputs, state, encoders, mux,
                    edits, removed>>
    BY <1>2 DEF Commands!vars
  <2>2. Commands!StartIsSound' = Commands!StartIsSound
        /\ Commands!MuxIsConsistent' = Commands!MuxIsConsistent /\ OptionsOK' = OptionsOK
    BY <2>1 DEF Commands!StartIsSound, Commands!MuxIsConsistent, OptionsOK, Commands!KindOf,
                Commands!RatesChosen, Commands!Uncoded
  <2> QED
    BY <2>1, <2>2 DEF ConfInv
<1> QED
  BY <1>1, <1>2

(* After any sequence of commands (obecli.c): as long as no stream was     *)
(* removed the ids are places in the list, and what is started (obe_start, *)
(* open_muxer) has its video first and encoded, its rates chosen, an       *)
(* encoder for every stream that needs one, different PIDs, unless typed   *)
(* ones are in the way, and the PCR in the video: the video has neither    *)
(* encoder nor PCR only if no codec but that of a card was chosen for it.  *)
THEOREM EditsGiveSoundConfiguration == Spec => []ConfigurationIsSound
<1>1. ConfInv => ConfigurationIsSound
  <2> SUFFICES ASSUME ConfInv PROVE ConfigurationIsSound
    OBVIOUS
  <2>1. DOMAIN out = 1..Len(out) /\ Len(program) \in Nat
        /\ \A i \in 1..Len(out) : StreamOK(program, out[i]) /\ out[i] \in StreamType
    BY LenProperties DEF ConfInv, ListOK, ProgramOK, StreamOK
  <2>2. \A i \in 1..Len(out) : out[i].id \in Nat /\ out[i].input \in -1..Len(program) - 1
    BY <2>1 DEF StreamOK, StreamType
  <2> QED
    BY <2>1, <2>2 DEF ConfInv, OptionsOK, Numbers, ConfigurationIsSound, Commands!TypeOK,
                      Commands!IdsArePositions
<1>2. Spec => []ConfInv
  BY ConfInit, ConfStep, ModesStart, ModesStep, CommandsAssumption, PTL
     DEF Spec, ConstantsAreSound
<1> QED
  BY <1>1, <1>2, PTL
=============================================================================
