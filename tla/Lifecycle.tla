------------------------------ MODULE Lifecycle ------------------------------
(***************************************************************************)
(* The life of a handle obe_t under the commands of obe/obecli.c: probe a  *)
(* device, start, stop, quit; the threads obe_start creates one after the  *)
(* other and obe_close ends, also when obe_start fails half way; the probe *)
(* thread with its time limit; the two threads of obecli that look at the  *)
(* handle, or end the process, by themselves.                              *)
(*                                                                         *)
(* The command line is one thread.  A command that meets memory that was   *)
(* freed, or no handle, has no defined outcome: the model stops there.     *)
(***************************************************************************)
EXTENDS Integers, Sequences, FiniteSets, SequencesExt

CONSTANTS
  StartOrder,   \* the threads in the order in which obe_start creates them
  CloseOrder,   \* and in that in which obe_close ends them
  EncoderThreads, \* those that have to open a codec
  Awaited,      \* of each thread: the encoders whose is_ready it waits for
  ProbeStreams, \* streams the probe finds
  ProbeSeconds, \* the time limit of a probe
  StartCanFail, OpenCanFail, \* no memory in obe_start; encoder refuses
  MaxHandles, MaxProbes

T == Range(StartOrder)

(* What the constants must be; the module that checks the model assumes it. *)
ConstantsAreSound ==
  /\ StartOrder \in Seq(T) /\ CloseOrder \in Seq(T) /\ Range(CloseOrder) = T
  /\ IsInjective(StartOrder) /\ IsInjective(CloseOrder)
  /\ EncoderThreads \subseteq T /\ Awaited \in [T -> SUBSET EncoderThreads]
  /\ ProbeStreams \in Nat \ {0} /\ ProbeSeconds \in Nat \ {0}
  /\ StartCanFail \in BOOLEAN /\ OpenCanFail \in BOOLEAN

VARIABLES
  at,        \* the command line: see Places
  step,      \* its place in StartOrder or CloseOrder; seconds a probe has left
  why,       \* it closes the handle: "stop", "quit" or "failed"
  h,         \* cli.h, 0 for NULL; handles are numbered
  freed,     \* handles given to free
  thread,    \* the threads of the last handle: see ThreadStates
  opened,    \* is_ready of each encoder: "no", "yes" or "refused"
  devices,   \* h->num_devices
  nextId,    \* h->cur_input_stream_id
  ids,       \* input_stream_id of the streams the probe thread has
  programStreams,   \* cli.program.num_streams
  probes,    \* probes so far
  probe,     \* the probe thread: "none", "looks", "cancelled" or "ended"
  gRunning,  \* g_running
  helper     \* state of the statistics and terminate-after threads

vars == <<at, step, why, h, freed, thread, opened, devices, nextId, ids,
          programStreams, probes, probe, gRunning, helper>>

Helpers == {"statistics", "terminate"}
HelperStates == {"off", "runs", "told", "gone"}
ThreadStates == {"none", "runs", "cancelled", "ended", "joined"}
Places == {"idle", "probing", "joining", "starting", "stopping", "closing",
           "undefined", "over"}

command == <<at, step, why>>
process == <<h, freed>>
core == <<thread, opened>>
device == <<devices, nextId, ids, probes, probe>>

Init ==
  /\ at = "idle" /\ step = 0 /\ why = "stop" /\ h = 1 /\ freed = {}
  /\ thread = [t \in T |-> "none"] /\ opened = [e \in EncoderThreads |-> "no"]
  /\ devices = 0 /\ nextId = 0 /\ ids = {} /\ programStreams = 0
  /\ probes = 0 /\ probe = "none" /\ gRunning = FALSE
  /\ helper = [x \in Helpers |-> "off"]

Usable == h # 0 /\ h \notin freed

(* A command dereferences cli.h.                                           *)
BadCommand ==
  /\ at = "idle" /\ ~Usable /\ at' = "undefined"
  /\ UNCHANGED <<step, why, process, core, device, programStreams, gRunning, helper>>
-----------------------------------------------------------------------------
(* probe_device, obe_probe_device.  With a device there are "No more       *)
(* devices allowed".                                                       *)
Probe ==
  /\ at = "idle" /\ Usable /\ devices = 0 /\ probes < MaxProbes
  /\ probes' = probes + 1
  /\ at' = "probing" /\ step' = ProbeSeconds /\ probe' = "looks"
  /\ UNCHANGED <<why, process, core, devices, nextId, ids, programStreams, gRunning,
                 helper>>

(* The thread of the input: it numbers its streams, one by one, and adds a *)
(* device that has all of them.                                            *)
ProbeNumbers ==
  /\ probe \in {"looks", "cancelled"} /\ Cardinality(ids) < ProbeStreams
  /\ ids' = ids \cup {nextId} /\ nextId' = nextId + 1
  /\ UNCHANGED <<command, process, core, devices, programStreams, probes, probe,
                 gRunning, helper>>

ProbeAdds ==
  /\ probe \in {"looks", "cancelled"} /\ Cardinality(ids) = ProbeStreams
  /\ devices' = devices + 1 /\ probe' = "ended"
  /\ UNCHANGED <<command, process, core, nextId, ids, programStreams, probes,
                 gRunning, helper>>

(* It finds no signal, or has no memory; or it is cancelled.  The numbers  *)
(* it took are gone.                                                       *)
ProbeFindsNothing ==
  /\ probe \in {"looks", "cancelled"}
  /\ probe' = "ended" /\ ids' = {}
  /\ UNCHANGED <<command, process, core, devices, nextId, programStreams, probes,
                 gRunning, helper>>

ProbeSecond ==
  /\ at = "probing" /\ step > 0 /\ step' = step - 1
  /\ UNCHANGED <<at, why, process, core, device, programStreams, gRunning, helper>>

(* pthread_kill says that the thread is gone, or the time is up.           *)
ProbeCancel ==
  /\ at = "probing" /\ (step = 0 \/ probe = "ended")
  /\ probe' = IF probe = "ended" THEN probe ELSE "cancelled"
  /\ at' = "joining" /\ step' = 0
  /\ UNCHANGED <<why, process, core, devices, nextId, ids, programStreams, probes,
                 gRunning, helper>>

ProbeJoin ==
  /\ at = "joining" /\ probe = "ended" /\ at' = "idle"
  /\ programStreams' = IF devices = 0 THEN programStreams ELSE ProbeStreams
  /\ probe' = "none"
  /\ UNCHANGED <<step, why, process, core, devices, nextId, ids, probes,
                 gRunning, helper>>

ProbeStep ==
  \/ ProbeNumbers \/ ProbeAdds \/ ProbeFindsNothing
  \/ ProbeSecond \/ ProbeCancel \/ ProbeJoin
-----------------------------------------------------------------------------
(* start_encode, obe_start: the checks of the configuration are those of   *)
(* CommandLine.                                                            *)
Start ==
  /\ at = "idle" /\ Usable /\ ~gRunning /\ programStreams > 0
  /\ at' = "starting" /\ step' = 1
  /\ UNCHANGED <<why, process, core, device, programStreams, gRunning, helper>>

Create ==
  /\ at = "starting" /\ step <= Len(StartOrder)
  /\ thread' = [thread EXCEPT ![StartOrder[step]] = "runs"]
  /\ step' = step + 1
  /\ UNCHANGED <<at, why, process, opened, device, programStreams, gRunning, helper>>

(* No memory for the next thread's parameters, or an output of unknown type. *)
CreateFails ==
  /\ StartCanFail /\ at = "starting" /\ step <= Len(StartOrder)
  /\ at' = "closing" /\ why' = "failed" /\ step' = 1
  /\ UNCHANGED <<process, core, device, programStreams, gRunning, helper>>

Started(statistics, terminate) ==
  /\ at = "starting" /\ step > Len(StartOrder)
  /\ at' = "idle" /\ step' = 0 /\ gRunning' = TRUE
  /\ helper' = [helper EXCEPT !["statistics"] = IF statistics THEN "runs" ELSE @,
                              !["terminate"] = IF terminate THEN "runs" ELSE @]
  /\ UNCHANGED <<why, process, core, device, programStreams>>
-----------------------------------------------------------------------------
(* stop_encode, which nothing keeps from being the first command, and main *)
(* calls when it leaves.                                                   *)
Stop(reason) ==
  /\ at = "idle" /\ Usable
  /\ at' = "stopping" /\ why' = reason
  /\ UNCHANGED <<step, process, core, device, programStreams, gRunning, helper>>

(* First the statistics thread, then the other: told, and waited for.      *)
StopHelper(x) ==
  /\ at = "stopping" /\ helper[x] = "runs"
  /\ x = "terminate" => helper["statistics"] \in {"off", "gone"}
  /\ helper' = [helper EXCEPT ![x] = "told"]
  /\ UNCHANGED <<command, process, core, device, programStreams, gRunning>>

(* Fault: the helpers are told and not waited for.                         *)
HelpersTold ==
  /\ at = "stopping" /\ \A x \in Helpers : helper[x] # "runs"
  /\ at' = "closing" /\ step' = 1
  /\ UNCHANGED <<why, process, core, device, programStreams, gRunning, helper>>

HelpersStopped ==
  /\ at = "stopping" /\ \A x \in Helpers : helper[x] \in {"off", "gone"}
  /\ at' = "closing" /\ step' = 1
  /\ UNCHANGED <<why, process, core, device, programStreams, gRunning, helper>>

(* The statistics thread looks at the handle once a second, and once more  *)
(* after it was told to end in its sleep.                                  *)
StatisticsLooks ==
  /\ helper["statistics"] \in {"runs", "told"} /\ at # "over"
  /\ IF Usable THEN UNCHANGED at ELSE at' = "undefined"
  /\ UNCHANGED <<step, why, process, core, device, programStreams, gRunning, helper>>

HelperEnds(x) ==
  /\ helper[x] = "told" /\ at # "over"
  /\ helper' = [helper EXCEPT ![x] = "gone"]
  /\ UNCHANGED <<command, process, core, device, programStreams, gRunning>>

(* exit(0), whatever the command line does.                                *)
TimeToTerminate ==
  /\ helper["terminate"] \in {"runs", "told"} /\ at \notin {"undefined", "over"}
  /\ at' = "over"
  /\ UNCHANGED <<step, why, process, core, device, programStreams, gRunning, helper>>
-----------------------------------------------------------------------------
(* obe_close.  Threads that were never created are passed over.            *)
Victim == CloseOrder[step]


Cancel ==
  /\ at = "closing" /\ step <= Len(CloseOrder) /\ thread[Victim] = "runs"
  /\ thread' = [thread EXCEPT ![Victim] = "cancelled"]
  /\ UNCHANGED <<command, process, opened, device, programStreams, gRunning, helper>>

Join ==
  /\ at = "closing" /\ step <= Len(CloseOrder)
  /\ thread[Victim] \in {"none", "ended"}
  /\ thread' = [thread EXCEPT ![Victim] = IF @ = "ended" THEN "joined" ELSE @]
  /\ step' = step + 1
  /\ UNCHANGED <<at, why, process, opened, device, programStreams, gRunning, helper>>

(* Everything is destroyed.  obe_close sets its own copy of h to NULL: a   *)
(* start that failed leaves cli.h as it was; stop_encode clears cli.       *)
Free ==
  /\ at = "closing" /\ step > Len(CloseOrder)
  /\ freed' = freed \cup {h} /\ step' = 0
  /\ IF why = "failed" THEN at' = "idle" /\ UNCHANGED <<h, programStreams, gRunning, helper>>
     ELSE /\ h' = 0 /\ programStreams' = 0 /\ gRunning' = FALSE
          /\ helper' = [x \in Helpers |-> IF helper[x] = "gone" THEN "off" ELSE helper[x]]
          /\ at' = IF why = "quit" THEN "over" ELSE "idle"
  /\ UNCHANGED <<why, core, device>>

(* processCommand: a new handle, after a command that left none.           *)
Recreate ==
  /\ at = "idle" /\ h = 0 /\ Cardinality(freed) < MaxHandles
  /\ h' = Cardinality(freed) + 1
  /\ thread' = [t \in T |-> "none"] /\ opened' = [e \in EncoderThreads |-> "no"]
  /\ devices' = 0 /\ nextId' = 0 /\ ids' = {}
  /\ UNCHANGED <<command, freed, programStreams, probes, probe, gRunning, helper>>

CloseStep == Cancel \/ Join \/ Free
-----------------------------------------------------------------------------
(* The threads of the pipeline, as far as their beginning and end go.      *)
OpenEncoder(e, outcome) ==
  /\ thread[e] \in {"runs", "cancelled"} /\ opened[e] = "no"
  /\ opened' = [opened EXCEPT ![e] = outcome]
  /\ thread' = IF outcome = "refused" THEN [thread EXCEPT ![e] = "ended"]
               ELSE thread
  /\ UNCHANGED <<command, process, device, programStreams, gRunning, helper>>

(* The waits for is_ready do not look at the cancel flag, and an encoder   *)
(* opens before it looks.  The muxer waits for the video encoder and for   *)
(* the encoders of AAC and E-AC-3, the smoothing threads for video only.   *)
CanEnd(t) ==
  \A e \in Awaited[t] \cup ({t} \cap EncoderThreads) : opened[e] = "yes"

ThreadEnds(t) ==
  /\ thread[t] = "cancelled" /\ CanEnd(t)
  /\ thread' = [thread EXCEPT ![t] = "ended"]
  /\ UNCHANGED <<command, process, opened, device, programStreams, gRunning, helper>>

Next ==
  \/ (h # 0 /\ BadCommand) \/ Probe \/ ProbeStep
  \/ Start \/ Create \/ CreateFails
  \/ \E s, t \in BOOLEAN : Started(s, t)
  \/ \E reason \in {"stop", "quit"} : Stop(reason)
  \/ \E x \in Helpers : StopHelper(x) \/ HelperEnds(x)
  \/ HelpersStopped \/ StatisticsLooks \/ TimeToTerminate
  \/ CloseStep \/ Recreate
  \/ \E e \in EncoderThreads :
       OpenEncoder(e, "yes") \/ (OpenCanFail /\ OpenEncoder(e, "refused"))
  \/ \E t \in T : ThreadEnds(t)

Spec == Init /\ [][Next]_vars

(* Every thread goes on; what is typed, a failure and the end of the time  *)
(* allowed for the process come or do not.                                 *)
Fairness ==
  /\ WF_vars(ProbeSecond) /\ WF_vars(ProbeCancel) /\ WF_vars(ProbeJoin)
  /\ WF_vars(ProbeFindsNothing)
  /\ WF_vars(Create) /\ \A s, t \in BOOLEAN : WF_vars(Started(s, t))
  /\ \A x \in Helpers : WF_vars(StopHelper(x)) /\ WF_vars(HelperEnds(x))
  /\ WF_vars(HelpersStopped) /\ WF_vars(CloseStep)
  /\ \A e \in EncoderThreads : WF_vars(OpenEncoder(e, "yes"))
  /\ \A t \in T : WF_vars(ThreadEnds(t))
-----------------------------------------------------------------------------
TypeOK ==
  /\ at \in Places /\ why \in {"stop", "quit", "failed"}
  /\ step \in 0 .. Len(StartOrder) + 1 + ProbeSeconds
  /\ h \in Nat /\ freed \subseteq Nat
  /\ thread \in [T -> ThreadStates]
  /\ opened \in [EncoderThreads -> {"no", "yes", "refused"}]
  /\ devices \in Nat /\ nextId \in Nat /\ ids \subseteq Nat
  /\ programStreams \in {0, ProbeStreams} /\ probes \in Nat
  /\ probe \in {"none", "looks", "cancelled", "ended"}
  /\ gRunning \in BOOLEAN /\ helper \in [Helpers -> HelperStates]

(* No thread of the pipeline is left when its handle is freed, however far *)
(* obe_start came: each that was created has been joined.                  *)
NothingOutlivesHandle ==
  h \in freed \/ h = 0 => \A t \in T : thread[t] \in {"none", "joined"}

(* Only a command typed after a start that failed can use a handle that    *)
(* was freed: the statistics thread never does, nor does a command after a *)
(* stop.                                                                   *)
UsesLiveHandle == at = "undefined" => ~gRunning /\ h \in freed

(* Between commands no probe thread is left, the device is the one that is *)
(* known to obecli, and nothing it refers to changes any more.             *)
ProbeSettled ==
  /\ at \notin {"probing", "joining", "over", "undefined"} => probe = "none"
  /\ at = "idle" /\ h # 0 => (devices = 1 <=> programStreams > 0)
  /\ devices = 1 => Cardinality(ids) = ProbeStreams

(* While it is said to run every thread is there that has not ended by     *)
(* itself, and as many helpers as were asked for.                          *)
RunningIsComplete ==
  gRunning /\ at = "idle" =>
    \A t \in T : thread[t] = "runs" \/ (t \in EncoderThreads /\ opened[t] = "refused")

(* Every command comes to its end, unless an encoder refused to open,      *)
(* video or audio: obe_close then waits for a thread that waits for it.    *)
Commands == {"probing", "joining", "starting", "stopping", "closing"}
=============================================================================
