----------------------------- MODULE CommandLine -----------------------------
(***************************************************************************)
(* The configuration that obe/obecli.c keeps between commands, and what    *)
(* obe_start (obe/obe.c) and open_muxer (mux/ts/ts.c) make of it: the list *)
(* of output streams, which `add stream' and `remove stream' change and    *)
(* `set stream' looks up by id; the rates, PIDs and outputs; the checks of *)
(* `start'; the encoders and the streams of the multiplex.                 *)
(*                                                                         *)
(* Of a rate of the video only the sign matters.  Positions in out are     *)
(* those of the C array plus one.  obe_start copies the list, so that what *)
(* the shell changes while it runs is gone with `stop': such commands are  *)
(* left out.                                                               *)
(***************************************************************************)
EXTENDS Integers, Sequences, FiniteSets, SequencesExt, FiniteSetsExt

CONSTANTS
  Base,       \* kinds of the streams every probe finds: the video, first, and
              \* others, of which there is at least one
  Scte,       \* how many SCTE 35 PIDs can be asked for
  VideoOptions, \* what can be typed of video_codec, whether it is that of a
              \* Vega card, vbv_maxrate, vbv_bufsize and bitrate
  AudioOptions, \* and of stream_action, format, bitrate in kbit/s, PID and
                \* channels of a stream of audio
  AskedPids,  \* PIDs that can be typed for SCTE 35
  Outputs,    \* numbers of outputs that can be typed
  MinPid,     \* the first PID given automatically
  MaxStreams, MaxEdits

(* What the constants must be; the module that checks the model assumes it. *)
ConstantsAreSound ==
  /\ Base \in Seq(STRING) /\ Len(Base) >= 2
  /\ \A i \in DOMAIN Base : Base[i] = "video" <=> i = 1
  /\ VideoOptions \subseteq BOOLEAN \X {-1, 0, 1} \X {-1, 0, 1} \X {-1, 0, 1}
  /\ AudioOptions \subseteq BOOLEAN \X {"raw", "mp2"} \X Nat \X Nat \X Nat
  /\ AskedPids \subseteq Nat \ {0} /\ Outputs \subseteq Nat \ {0}
  /\ MinPid \in Nat \ {0}
  /\ MaxStreams \in Nat /\ MaxStreams >= Len(Base) /\ Scte \in Nat /\ MaxEdits \in Nat

VARIABLES
  program,  \* kinds of the input streams, <<>> before a probe
  out,      \* cli.output_streams
  scte35,   \* h->enable_scte35
  muxPids,  \* mux_opts.scte35_pids
  muxrate,  \* mux_opts.ts_muxrate is at least 100000
  outputs,  \* cli.output: for each output, whether it has a target
  state,    \* "set", "running" or "undefined"
  encoders, \* output_stream_id of h->encoders, in order
  mux,      \* PIDs open_muxer gives to the streams, and those of PMT and PCR
  edits,    \* commands so far that changed the list
  removed   \* history: a stream was removed from this list

vars == <<program, out, scte35, muxPids, muxrate, outputs, state, encoders,
          mux, edits, removed>>

NoMux == [pids |-> <<>>, pmt |-> 0, pcr |-> 0]
started == <<state, encoders, mux>>
list == <<program, out, edits, removed>>
others == <<scte35, muxPids, muxrate, outputs>>

(* The video is described by vbv_maxrate, vbv_bufsize and bitrate, audio by *)
(* its bitrate alone.  cardOnly is history: no codec was chosen for the    *)
(* video, or only those of a Vega card.                                    *)
Stream(id, input, format) ==
  [id |-> id, input |-> input, format |-> format, encode |-> FALSE,
   max |-> 0, vbv |-> 0, rate |-> 0, pid |-> 0, cardOnly |-> TRUE]

Init ==
  /\ program = <<>> /\ out = <<>> /\ scte35 = 0 /\ muxPids = <<>>
  /\ muxrate = FALSE /\ outputs = <<>> /\ state = "set" /\ encoders = <<>>
  /\ mux = NoMux /\ edits = 0 /\ removed = FALSE

KindOf(s) == program[s.input + 1]
-----------------------------------------------------------------------------
(* A probe makes an output stream of each input stream, with its format;   *)
(* the video of a Vega card is coded already.                              *)
ProbeDevice(video) ==
  /\ state = "set" /\ program = <<>>
  /\ program' = Base \o [i \in 1 .. scte35 |-> "scte35"]
  /\ out' = [i \in 1 .. Len(program') |->
               Stream(i - 1, i - 1, IF i = 1 THEN video ELSE "raw")]
  /\ removed' = FALSE
  /\ UNCHANGED <<others, started, edits>>

Editable(n) ==
  state = "set" /\ program # <<>> /\ n > 0 /\ edits < MaxEdits

Edited == /\ edits' = edits + 1 /\ UNCHANGED <<program, others, started>>

(* The id that is typed is the place of the new stream; the streams behind *)
(* it go up by one, and so do their ids.  Teletext has no input stream and *)
(* the format 0, which is that of raw video.                               *)
Added(n, kind) == Stream(n, IF kind = "audio" THEN 1 ELSE -1, "raw")

AddStream(n, kind) ==
  /\ Editable(n) /\ n <= Len(out) /\ Len(out) < MaxStreams
  /\ out' = InsertAt([i \in DOMAIN out |->
                        IF i > n THEN [out[i] EXCEPT !.id = @ + 1] ELSE out[i]],
                     n + 1, Added(n, kind))
  /\ removed' = removed /\ Edited

(* "NOTE: output-stream-ids have CHANGED!"  They have not.                 *)
RemoveStream(n) ==
  /\ Editable(n) /\ Len(out) # 2 /\ n < Len(out)
  /\ out' = RemoveAt(out, n + 1) /\ removed' = TRUE /\ Edited
-----------------------------------------------------------------------------
(* set stream: the first stream that has the id.                           *)
Named(id) == {i \in DOMAIN out : out[i].id = id /\ \A j \in 1 .. i - 1 : out[j].id # id}

Settable(id, kind) ==
  /\ state = "set"
  /\ \E i \in Named(id) : out[i].input >= 0 /\ KindOf(out[i]) = kind

Set(id, fields(_)) ==
  /\ out' = [i \in DOMAIN out |-> IF i \in Named(id) THEN fields(out[i]) ELSE out[i]]
  /\ UNCHANGED <<program, edits, removed, others, started>>

(* The parameters of the encoder are reset first, the rates with them; an  *)
(* option that is found wrong then ends the command.                       *)
SetVideoRefused(id) ==
  /\ Settable(id, "video")
  /\ Set(id, LAMBDA s : [s EXCEPT !.max = 0, !.vbv = 0, !.rate = 0])

(* Each rate is stored and then refused if it is negative, which ends the  *)
(* command: the ones behind it, and the PID, stay as they were.  The       *)
(* format is set for nine of the eleven codecs, those that are no Vega     *)
(* card's; "avc" stands for all nine.                                      *)
SetVideo(id, card, max, vbv, rate) ==
  /\ Settable(id, "video")
  /\ Set(id, LAMBDA s :
       [s EXCEPT !.encode = TRUE, !.format = IF card THEN @ ELSE "avc",
                 !.cardOnly = @ /\ card, !.max = max,
                 !.vbv = IF max < 0 THEN 0 ELSE vbv,
                 !.rate = IF max < 0 \/ vbv < 0 THEN 0 ELSE rate])

(* Audio is to be encoded before its options are looked at.                *)
SetAudioRefused(id) ==
  /\ Settable(id, "audio")
  /\ Set(id, LAMBDA s : [s EXCEPT !.encode = TRUE])

(* MP2 of more than two channels is refused when it has its format; the    *)
(* bitrate of a format is set to its default unless one is typed.          *)
SetAudio(id, encode, format, rate, pid, channels) ==
  /\ Settable(id, "audio")
  /\ Set(id, LAMBDA s :
       IF format = "mp2" /\ channels > 2
       THEN [s EXCEPT !.encode = encode, !.format = format]
       ELSE [s EXCEPT !.encode = encode, !.format = format, !.rate = rate,
                      !.pid = IF pid = 0 THEN @ ELSE pid])

(* The options of a stream without input are taken from memory before the  *)
(* array of the input streams.                                             *)
SetWithoutInput(id) ==
  /\ state = "set" /\ \E i \in Named(id) : out[i].input < 0
  /\ state' = "undefined" /\ UNCHANGED <<list, others, encoders, mux>>

SetStream(id) ==
  \/ SetVideoRefused(id)
  \/ \E o \in VideoOptions : SetVideo(id, o[1], o[2], o[3], o[4])
  \/ SetAudioRefused(id)
  \/ \E o \in AudioOptions : SetAudio(id, o[1], o[2], o[3], o[4], o[5])
  \/ SetWithoutInput(id)
-----------------------------------------------------------------------------
(* set muxer opts: the PIDs asked for are counted in the handle.           *)
SetMuxer(pids, rate) ==
  /\ state = "set"
  /\ muxPids' = pids \o SubSeq(muxPids, Len(pids) + 1, Len(muxPids))
  /\ scte35' = IF pids = <<>> THEN scte35 ELSE Len(pids)
  /\ muxrate' = rate
  /\ UNCHANGED <<list, started, outputs>>

(* set input opts: the count is again what `set input' was given.          *)
SetInput(n) ==
  /\ state = "set" /\ scte35' = n
  /\ UNCHANGED <<list, started, muxPids, muxrate, outputs>>

SetOutputs(n) ==
  /\ state = "set" /\ outputs' = [o \in 1 .. n |-> FALSE]
  /\ UNCHANGED <<list, started, scte35, muxPids, muxrate>>

SetOutput(o) ==
  /\ state = "set" /\ o \in DOMAIN outputs
  /\ outputs' = [outputs EXCEPT ![o] = TRUE]
  /\ UNCHANGED <<list, started, scte35, muxPids, muxrate>>
-----------------------------------------------------------------------------
(* start: the PID of the k-th stream of SCTE 35 is the k-th asked for.     *)
ScteBefore(i) == Cardinality({j \in 1 .. i : KindOf(out[j]) = "scte35"})

WithPids(last) ==
  [i \in DOMAIN out |->
     IF i <= last /\ KindOf(out[i]) = "scte35" /\ ScteBefore(i) <= Len(muxPids)
     THEN [out[i] EXCEPT !.pid = muxPids[ScteBefore(i)]] ELSE out[i]]

RatesChosen(s) ==
  CASE KindOf(s) = "video" -> s.vbv # 0 /\ (s.max # 0 \/ s.rate # 0)
    [] KindOf(s) = "audio" -> IF s.encode THEN s.rate # 0 ELSE s.format = "mp2"
    [] OTHER -> TRUE

(* The stream at which the check of the streams ends.                      *)
Passes(s) == s.input >= 0 /\ RatesChosen(s)
CheckEnds == {i \in DOMAIN out : ~Passes(out[i]) /\ \A j \in 1 .. i - 1 : Passes(out[j])}

HasStreams == state = "set" /\ program # <<>>
OutputsReady == muxrate /\ outputs # <<>> /\ \A o \in DOMAIN outputs : outputs[o]

(* A stream without input: the check for it comes after its use.           *)
StartWithoutInput ==
  /\ HasStreams /\ \E i \in CheckEnds : out[i].input < 0
  /\ state' = "undefined" /\ UNCHANGED <<list, others, encoders, mux>>

StartRefused ==
  /\ HasStreams
  /\ \/ \E i \in CheckEnds : out[i].input >= 0 /\ out' = WithPids(i)
     \/ CheckEnds = {} /\ ~OutputsReady /\ out' = WithPids(Len(out))
  /\ UNCHANGED <<program, edits, removed, others, started>>

(* Fault: the PMT takes no PID of the automatic ones.                      *)
AutoPidFromFirst(s, i) ==
  MinPid + Cardinality({j \in 1 .. i - 1 : s[j].pid = 0})

(* The PIDs that nobody asked for, in the order of the streams, after that *)
(* of the PMT.                                                             *)
AutoPid(s, i) ==
  MinPid + 1 + Cardinality({j \in 1 .. i - 1 : s[j].pid = 0})

StreamPid(s, i) == IF s[i].pid # 0 THEN s[i].pid ELSE AutoPid(s, i)

Videos(s) == {i \in DOMAIN s : s[i].encode /\ s[i].format \in {"avc", "card"}}

Multiplex(s) ==
  [pids |-> [i \in DOMAIN s |-> StreamPid(s, i)], pmt |-> MinPid,
   pcr |-> IF Videos(s) = {} THEN 0 ELSE StreamPid(s, Max(Videos(s)))]

(* Frames of 1152 samples in a PES packet, as many as the buffer of the    *)
(* system's decoder model has room for; at 48 kHz.                         *)
FramesPerPes(rate) == Min({Max({3584 \div ((1152 * 125 * rate) \div 48000), 1}), 6})

(* The streams that are encoded, and the one that is the k-th of them.     *)
Encoded == {i \in DOMAIN out : out[i].encode}
EncodedAt(k) == CHOOSE i \in Encoded : Cardinality({j \in Encoded : j <= i}) = k

(* An encoder has the id of its stream, and frames_per_pes if it is audio. *)
EncoderOf(s) ==
  [id |-> s.id, frames |-> IF s.format = "mp2" THEN FramesPerPes(s.rate) ELSE 0]

Start ==
  /\ HasStreams /\ OutputsReady /\ CheckEnds = {}
  /\ out' = WithPids(Len(out)) /\ state' = "running"
  /\ encoders' = [k \in 1 .. Cardinality(Encoded) |-> EncoderOf(out[EncodedAt(k)])]
  /\ mux' = Multiplex(out')
  /\ UNCHANGED <<program, edits, removed, others>>

(* stop: everything that was set is forgotten.                             *)
Stop ==
  /\ state = "running" /\ state' = "set"
  /\ program' = <<>> /\ out' = <<>> /\ scte35' = 0 /\ muxPids' = <<>>
  /\ muxrate' = FALSE /\ outputs' = <<>> /\ encoders' = <<>> /\ mux' = NoMux
  /\ removed' = FALSE /\ UNCHANGED edits

Ids == 0 .. MaxStreams

Next ==
  \/ \E video \in {"raw", "card"} : ProbeDevice(video)
  \/ \E n \in Ids, kind \in {"audio", "teletext"} : AddStream(n, kind)
  \/ \E n \in Ids : RemoveStream(n)
  \/ \E id \in Ids : SetStream(id)
  \/ \E pids \in BoundedSeq(AskedPids, Scte), rate \in BOOLEAN : SetMuxer(pids, rate)
  \/ \E n \in {0, 1} : SetInput(n)
  \/ \E n \in Outputs : SetOutputs(n)
  \/ \E o \in DOMAIN outputs : SetOutput(o)
  \/ StartWithoutInput \/ StartRefused \/ Start \/ Stop

Spec == Init /\ [][Next]_vars
-----------------------------------------------------------------------------
TypeOK ==
  /\ state \in {"set", "running", "undefined"} /\ removed \in BOOLEAN
  /\ muxrate \in BOOLEAN /\ scte35 \in Nat /\ edits \in 0 .. MaxEdits
  /\ \A o \in DOMAIN outputs : outputs[o] \in BOOLEAN
  /\ \A i \in DOMAIN out : out[i].id \in Nat /\ out[i].input \in -1 .. Len(program) - 1

(* The id printed for a stream, and typed for it afterwards, is its place, *)
(* through all additions, as long as nothing was removed: obe_start, which *)
(* counts, and `set stream', which searches, mean the same stream.         *)
IdsArePositions == ~removed => \A i \in DOMAIN out : out[i].id = i - 1

(* The codec of a Vega card was chosen for the pictures of another input,  *)
(* and no other codec before: the stream has the format of raw video, the  *)
(* encoder no thread and the multiplex no video.                           *)
Uncoded == out[1].cardOnly /\ out[1].format = "raw"

(* Whatever was added and removed before, what is started has its video    *)
(* first and encoded with rates that are chosen, and every other stream    *)
(* that is encoded has a bitrate and frames in its PES packets.  The video *)
(* has an encoder, except where it is Uncoded.                             *)
StartIsSound ==
  state = "running" =>
    /\ KindOf(out[1]) = "video" /\ out[1].encode
    /\ 1 \in Videos(out) <=> ~Uncoded
    /\ \A i \in DOMAIN out : out[i].input >= 0 /\ RatesChosen(out[i])
    /\ \A k \in DOMAIN encoders : encoders[k].frames \in 0 .. 6
    /\ \A i \in DOMAIN out : out[i].encode /\ out[i].format = "mp2" =>
         \E k \in DOMAIN encoders : encoders[k].id = out[i].id /\ encoders[k].frames > 0

(* The streams have different PIDs, and none that of the PMT, unless one   *)
(* that was asked for is in the way; the PCR is in the video, if it has an *)
(* encoder.                                                                *)
MuxIsConsistent ==
  state = "running" =>
    /\ mux.pcr = IF Uncoded THEN 0 ELSE mux.pids[1]
    /\ (\A i \in DOMAIN out : out[i].pid \notin MinPid .. MinPid + Len(out))
         /\ (\A i, j \in DOMAIN out : i # j /\ out[i].pid = out[j].pid => out[i].pid = 0)
       => /\ IsInjective(mux.pids) /\ mux.pmt \notin Range(mux.pids)
=============================================================================
