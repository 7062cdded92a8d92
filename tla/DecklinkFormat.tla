--------------------------- MODULE DecklinkFormat ---------------------------
(***************************************************************************)
(* The format of input/sdi/decklink/decklink.cpp, from the probe to the    *)
(* pictures of the encoder: the mode the card is opened in, the callback   *)
(* when the card detects another one (VideoInputFormatChanged), what the   *)
(* probe stores for the start, and the format and mode of each picture.    *)
(* The pictures themselves and their clock are in DecklinkInput.           *)
(*                                                                         *)
(* The card is external.  It reports a mode it detects when it is not the  *)
(* one it was opened in or last reported, and it gives pictures while the  *)
(* signal has the mode it captures in; other signals are callbacks without *)
(* input, which change nothing here.                                       *)
(***************************************************************************)
EXTENDS Integers, FiniteSets

CONSTANTS
  Modes,       \* the modes of video_format_tab
  Others,      \* modes without an entry, or disabled (1080p50 to 60)
  Ntsc, P2398, \* the two modes a card is opened in
  Enough,      \* frames of audio that a probe with bitstream_audio waits for, 6
  LosExits,    \* the option los_exit_ms is set
  MaxChanges, MaxProbes

Nothing == "nothing"

ConstantsAreSound ==
  /\ {Ntsc, P2398} \subseteq Modes /\ Ntsc # P2398 /\ Modes \cap Others = {}
  /\ Nothing \notin Modes \cup Others
  /\ Enough \in Nat /\ LosExits \in BOOLEAN

VARIABLES
  option,    \* video_format the user set, Nothing is UNDEFINED
  bitstream, \* the option bitstream_audio
  injecting, \* g_decklink_inject_frame_enable
  phase,     \* "idle", "probe", "run", "exited"
  cable,     \* the mode of the signal, Nothing without one
  opened,    \* the mode the card was opened in
  enabled,   \* the mode it captures in
  reported,  \* the mode it reported last
  known,     \* the static last_mode_id
  format,    \* video_format of the options
  frameTime, \* last_frame_time: "never" is -1, "reset" is 0, "seen"
  heard,     \* smpte337_frames_written of the first pair, counted to Enough + 1
  found,     \* probe_success
  probed,    \* video_format stored for the start
  shown,     \* the last picture of this run
  away,      \* another mode was reported since that picture (history)
  before,    \* known when the card was opened (history)
  steady,    \* the signal did not change since then (history)
  changes, probes

vars == <<option, bitstream, injecting, phase, cable, opened, enabled, reported, known,
          format, frameTime, heard, found, probed, shown, away, before, steady, changes,
          probes>>
card == <<opened, enabled, reported, format, frameTime, heard, before, injecting>>
given == <<option, bitstream, probed>>

NoneShown == [mode |-> Nothing, format |-> Nothing, dropped |-> FALSE,
              injecting |-> FALSE, away |-> FALSE]

Init ==
  /\ bitstream \in BOOLEAN /\ injecting = FALSE /\ heard = 0
  /\ option \in {Nothing} \cup Modes /\ phase = "idle" /\ cable = Nothing
  /\ opened = Nothing /\ enabled = Nothing /\ reported = Nothing /\ known = Nothing
  /\ format = Nothing /\ frameTime = "reset" /\ found = FALSE /\ probed = Nothing
  /\ shown = NoneShown /\ away = FALSE /\ before = Nothing /\ steady = TRUE
  /\ changes = 0 /\ probes = 0

(* The signal is changed by whoever feeds the card.                        *)
SignalChanges ==
  /\ changes < MaxChanges /\ changes' = changes + 1
  /\ cable' \in ({Nothing} \cup Modes \cup Others) \ {cable}
  /\ steady' = FALSE
  /\ UNCHANGED <<phase, card, given, known, found, shown, away, probes>>

(* The command line switches the injection of frames, while it runs too.   *)
SetInjection ==
  /\ injecting' = ~injecting
  /\ UNCHANGED <<given, phase, cable, opened, enabled, reported, known, format, frameTime,
                 heard, found, shown, away, before, steady, changes, probes>>

(* Fault: last_frame_time is left as calloc gives it.                      *)
OpenCardZeroed(wanted) ==
  /\ opened' = IF wanted = Ntsc THEN P2398 ELSE Ntsc
  /\ enabled' = opened' /\ reported' = opened'
  /\ format' = wanted /\ frameTime' = "reset" /\ before' = known
  /\ injecting' \in {injecting, TRUE} /\ heard' = IF bitstream THEN 0 ELSE Enough + 1

(* open_card: whatever is wanted, the card is opened in another mode and   *)
(* detection is to find the right one.  The option frame_injection switches*)
(* the injection on, and nothing here switches it off; without             *)
(* bitstream_audio no audio is waited for.                                 *)
OpenCard(wanted) ==
  /\ opened' = IF wanted = Ntsc THEN P2398 ELSE Ntsc
  /\ enabled' = opened' /\ reported' = opened'
  /\ format' = wanted /\ frameTime' = "never" /\ before' = known
  /\ injecting' \in {injecting, TRUE} /\ heard' = IF bitstream THEN 0 ELSE Enough + 1

Probe ==
  /\ phase = "idle" /\ probes < MaxProbes /\ probes' = probes + 1
  /\ phase' = "probe" /\ found' = FALSE /\ steady' = TRUE
  /\ OpenCard(IF option = Nothing THEN Ntsc ELSE option)
  /\ UNCHANGED <<given, cable, known, shown, away, changes>>

(* Fault: a change from a known mode is not remembered.                    *)
TimeKept == frameTime

TimeAfterChange == IF known \notin {Nothing, cable} THEN "reset" ELSE frameTime
Taken(time) == cable \in Modes /\ time = "never"

(* Only a card that had no picture and no change yet follows the signal. *)
FormatChanged ==
  /\ phase \in {"probe", "run"} /\ cable \notin {Nothing, reported}
  /\ reported' = cable /\ known' = cable
  /\ frameTime' = TimeAfterChange
  /\ IF Taken(TimeAfterChange) THEN enabled' = cable /\ format' = cable
                               ELSE UNCHANGED <<enabled, format>>
  /\ away' = (away \/ cable # enabled')
  /\ UNCHANGED <<phase, given, injecting, cable, opened, heard, before, found, shown,
                 steady, changes, probes>>

HasPicture == cable = enabled /\ cable = reported

(* The picture comes too long after the last: any may, one whose time was  *)
(* reset does, the first does not.                                         *)
Late(late) == /\ frameTime = "reset" => late
              /\ frameTime = "never" => ~late

(* Audio comes with a picture or alone; the detector gets it after the     *)
(* picture.                                                                *)
ProbeAudio ==
  /\ phase = "probe" /\ bitstream /\ heard <= Enough /\ heard' = heard + 1
  /\ UNCHANGED <<phase, given, injecting, cable, opened, enabled, reported, known, format,
                 frameTime, before, found, shown, away, steady, changes, probes>>

ProbePicture ==
  /\ phase = "probe" /\ HasPicture
  /\ found' = (found \/ heard > Enough) /\ frameTime' = "seen"
  /\ UNCHANGED <<phase, given, injecting, cable, opened, enabled, reported, known, format,
                 heard, before, shown, away, steady, changes, probes>>

(* A picture that is late sets the drop flags, unless frames are injected. *)
RunPicture ==
  /\ phase = "run" /\ HasPicture
  /\ \E late \in BOOLEAN :
       /\ Late(late)
       /\ shown' = [mode |-> enabled, format |-> format, dropped |-> late /\ ~injecting,
                    injecting |-> injecting, away |-> away]
  /\ frameTime' = "seen" /\ away' = FALSE
  /\ UNCHANGED <<phase, given, injecting, cable, opened, enabled, reported, known, format,
                 heard, before, found, steady, changes, probes>>

(* It ends the program when it is later than los_exit_ms; milliseconds     *)
(* since a time that was reset may or may not be, in an int.               *)
ExitOnLoss ==
  /\ phase \in {"probe", "run"} /\ HasPicture /\ LosExits /\ Late(TRUE)
  /\ phase' = "exited"
  /\ UNCHANGED <<given, cable, card, known, found, shown, away, steady, changes, probes>>

(* The device of the first probe that succeeds is the one that is started. *)
ProbeSucceeds ==
  /\ phase = "probe" /\ found /\ phase' = "idle"
  /\ probed' = IF probed = Nothing THEN format ELSE probed
  /\ UNCHANGED <<option, bitstream, cable, card, known, found, shown, away, steady,
                 changes, probes>>

(* Ten seconds without a picture, or without the audio it needs: the card  *)
(* has reported what it detected.                                          *)
ProbeFails ==
  /\ phase = "probe" /\ ~found /\ cable \in {Nothing, reported}
  /\ HasPicture => heard <= Enough
  /\ phase' = "idle"
  /\ UNCHANGED <<given, cable, card, known, found, shown, away, steady, changes, probes>>

(* open_input.                                                             *)
Start ==
  /\ phase = "idle" /\ probed # Nothing /\ phase' = "run"
  /\ OpenCard(probed) /\ shown' = NoneShown /\ away' = FALSE /\ steady' = TRUE
  /\ UNCHANGED <<given, cable, known, found, changes, probes>>

(* obe_close destroys the devices, and with them what was probed.          *)
Stop ==
  /\ phase = "run" /\ phase' = "idle" /\ probed' = Nothing /\ shown' = NoneShown
  /\ UNCHANGED <<option, bitstream, cable, card, known, found, away, steady, changes,
                 probes>>

Next ==
  \/ SignalChanges \/ SetInjection \/ Probe \/ FormatChanged \/ ProbeAudio
  \/ ProbePicture \/ RunPicture \/ ExitOnLoss \/ ProbeSucceeds \/ ProbeFails
  \/ Start \/ Stop
-----------------------------------------------------------------------------
(* Within a run the pictures keep the format and the mode of the first,    *)
(* whatever the signal does.                                               *)
FormatFixed ==
  [][ (shown # NoneShown /\ shown' # NoneShown)
        => shown'.mode = shown.mode /\ shown'.format = shown.format ]_vars

(* The encoder is given the format that was probed, and pictures that have *)
(* it, provided that the mode reported last when the card was opened was   *)
(* the one probed, and that the signal is not in the mode the card was     *)
(* opened in, which the card does not report.                              *)
PicturesAsProbed ==
  shown # NoneShown =>
    /\ before = probed => shown.format = probed
    /\ shown.mode \in {shown.format, opened}

(* Pictures that come back after another signal was reported come with a   *)
(* drop of what the pipeline holds, unless frames were injected then.      *)
ChangeIsDropped == shown.away => shown.dropped \/ shown.injecting

(* A probe of a steady signal finds it, unless the static still has the    *)
(* mode of an earlier signal: then the probe fails, and the next succeeds. *)
(* With bitstream_audio it needs audio too.                                *)
ProbeFinds ==
  [][ (phase = "probe" /\ phase' = "idle" /\ ~found) =>
        \/ ~steady \/ cable \notin Modes \/ before \notin {Nothing, cable}
        \/ bitstream /\ heard <= Enough ]_vars
=============================================================================
