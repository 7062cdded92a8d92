----------------------------- MODULE MCLifecycle -----------------------------
(* The commands of obecli, in two instances: in mode "threads" what they   *)
(* do to the handle and the threads, in mode "configuration" what they do  *)
(* to the configuration.                                                   *)
EXTENDS Integers, Sequences

CONSTANTS
  StartOrder, CloseOrder, EncoderThreads, Awaited, ProbeStreams, ProbeSeconds,
  StartCanFail, OpenCanFail, MaxHandles, MaxProbes,              \* threads
  Base, Scte, VideoOptions, AudioOptions, AskedPids, Outputs, MinPid,
  MaxStreams, MaxEdits                                           \* configuration

VARIABLES mode,
  at, step, why, h, freed, thread, opened, devices, nextId, ids, programStreams,
  probes, probe, gRunning, helper,
  program, out, scte35, muxPids, muxrate, outputs, state, encoders, mux, edits,
  removed

Threads == INSTANCE Lifecycle
Commands == INSTANCE CommandLine

ConstantsAreSound == Threads!ConstantsAreSound /\ Commands!ConstantsAreSound

ASSUME CommandsAssumption == ConstantsAreSound

threadVars == <<at, step, why, h, freed, thread, opened, devices, nextId, ids,
                programStreams, probes, probe, gRunning, helper>>
commandVars == <<program, out, scte35, muxPids, muxrate, outputs, state,
                 encoders, mux, edits, removed>>
vars == <<mode, threadVars, commandVars>>

Init == mode \in {"threads", "configuration"} /\ Threads!Init /\ Commands!Init

ThreadsNext ==
  mode = "threads" /\ Threads!Next /\ UNCHANGED <<mode, commandVars>>
CommandsNext ==
  mode = "configuration" /\ Commands!Next /\ UNCHANGED <<mode, threadVars>>

Next == ThreadsNext \/ CommandsNext

Spec == Init /\ [][Next]_vars /\ (mode = "threads" => Threads!Fairness)
-----------------------------------------------------------------------------
(* The properties.  Each is a conjunction of properties that are stated,   *)
(* with a comment of their own, in the module of the mode.                 *)

(* Threads and handle: no thread of the pipeline is left when its handle   *)
(* is freed, only a command after a failed start uses a handle that was    *)
(* freed, between commands no probe thread is left, and while the shell    *)
(* says it runs every thread is there (obe_start, obe_close, obecli).      *)
HandleIsLive ==
  /\ Threads!TypeOK
  /\ Threads!NothingOutlivesHandle
  /\ Threads!UsesLiveHandle
  /\ Threads!ProbeSettled
  /\ Threads!RunningIsComplete
(* After any sequence of edits an id is a place in the list as long as     *)
(* nothing was removed, what is started has its rates chosen and its       *)
(* streams encoded, and the PIDs are different, with the PCR in the video  *)
(* (unless only the codec of a card was chosen for raw video: Uncoded).    *)
ConfigurationIsSound ==
  /\ Commands!TypeOK
  /\ Commands!IdsArePositions
  /\ Commands!StartIsSound
  /\ Commands!MuxIsConsistent
-----------------------------------------------------------------------------
(* Constants of the small instance that are sequences.                     *)
Pipeline == <<"output", "video", "audio", "encsmooth", "muxsmooth", "mux",
              "filter", "input">>
ClosedInOrder == <<"input", "filter", "video", "audio", "encsmooth", "mux",
                   "muxsmooth", "output">>
AudioIsAac ==
  [t \in {Pipeline[i] : i \in 1 .. Len(Pipeline)} |->
     CASE t = "mux" -> {"video", "audio"}
       [] t \in {"encsmooth", "muxsmooth"} -> {"video"}
       [] OTHER -> {}]
VideoAndAudio == <<"video", "audio">>
TypedVideo == {<<FALSE, 1, 1, 0>>, <<TRUE, 0, 1, 1>>, <<FALSE, 1, -1, 1>>}
TypedOptions == {<<TRUE, "mp2", 256, 60, 2>>, <<FALSE, "mp2", 256, 0, 6>>}
=============================================================================
