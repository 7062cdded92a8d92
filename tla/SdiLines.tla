------------------------------ MODULE SdiLines ------------------------------
(* The lines above the picture of an SDI frame: how the inputs walk        *)
(* through them, line by line of the two fields in turn, and what is made  *)
(* of the buffer they fill: the layout libzvbi is told of, and the line    *)
(* read as video index.                                                    *)
EXTENDS Integers, Sequences, SequencesExt

VARIABLES format,  \* of the signal
          card,    \* "decklink", or "linsys" with or without VANC
          line,    \* the line to be read next
          lines,   \* those in the buffer, in its order
          walk,    \* how far the frame is
          left,    \* lines of the picture still to be added
          layout,  \* libzvbi's: the first lines of the fields and their count
          indexed  \* the line that was read as video index

Formats == {"pal", "ntsc", "hd50i", "hd50p"}
Sd == {"pal", "ntsc"}
Interlaced == {"pal", "ntsc", "hd50i"}
FieldOne == [pal |-> 1, ntsc |-> 4, hd50i |-> 1]
FieldTwo == [pal |-> 314, ntsc |-> 267, hd50i |-> 564]
FirstActive == [pal |-> 23, ntsc |-> 283, hd50i |-> 21, hd50p |-> 26]
IndexLine == [pal |-> 11, ntsc |-> 14]
ActiveVbiLines == 2

(* The line after a line of the first field is that of the second.         *)
NextLine(f, l) ==
  IF f \notin Interlaced THEN l + 1
  ELSE IF FieldOne[f] <= l /\ l < FieldTwo[f] THEN FieldTwo[f] - FieldOne[f] + l
  ELSE l - FieldTwo[f] + FieldOne[f] + 1

(* The line of its field, and back.                                        *)
SmpteToAnalogue(f, l) ==
  IF FieldOne[f] <= l /\ l < FieldTwo[f] THEN [line |-> l, field |-> 1]
  ELSE [line |-> l - FieldTwo[f] + FieldOne[f], field |-> 2]
AnalogueFromOne(f, a) ==   \* fault: the lines of field two start at one
  IF a.field = 1 THEN a.line ELSE FieldTwo[f] - 1 + a.line
AnalogueToSmpte(f, a) ==
  IF a.field = 1 THEN a.line ELSE FieldTwo[f] - FieldOne[f] + a.line

NoLayout == [start |-> <<0, 0>>, count |-> 0]
HasVanc == card # "linsys"
First ==
  IF HasVanc THEN IF format = "ntsc" THEN 4 ELSE 1
  ELSE IF format = "ntsc" THEN NextLine(format, FirstActive[format])
  ELSE FirstActive[format]

(* Without VANC linsys reads two lines of the picture, and leaves out the  *)
(* first of NTSC, which has no second one beside it.                       *)
Init ==
  /\ format \in Formats /\ card \in {"decklink", "linsysvanc", "linsys"}
  /\ format \notin Sd => card = "decklink"
  /\ line = First /\ lines = <<>>
  /\ walk = IF HasVanc THEN "vanc" ELSE "picture"
  /\ left = IF HasVanc THEN 0 ELSE ActiveVbiLines
  /\ layout = NoLayout /\ indexed = 0

(* Every line above the picture is read and goes to the VANC parser; for   *)
(* SD a few of the picture follow.                                         *)
ActiveLinesOdd == ActiveVbiLines   \* fault: the unpaired line is not counted
ActiveLines == ActiveVbiLines + (IF format = "ntsc" THEN 1 ELSE 0)
ReadVancLine ==
  /\ walk = "vanc" /\ lines' = Append(lines, line) /\ line' = NextLine(format, line)
  /\ walk' = IF line' # FirstActive[format] THEN "vanc"
             ELSE IF format \in Sd THEN "picture" ELSE "done"
  /\ left' = IF walk' = "picture" THEN ActiveLines ELSE 0
  /\ UNCHANGED <<format, card, layout, indexed>>

AddPictureLine ==
  /\ walk = "picture" /\ left > 0 /\ left' = left - 1
  /\ lines' = Append(lines, line) /\ line' = NextLine(format, line)
  /\ UNCHANGED <<format, card, walk, layout, indexed>>

(* As many lines down the buffer as the index line is below the first.     *)
DecodeVideoIndex ==
  /\ walk = "picture" /\ left = 0
  /\ walk' = "layout"
  /\ indexed' = IF HasVanc THEN lines[IndexLine[format] - First + 1] ELSE 0
  /\ UNCHANGED <<format, card, line, lines, left, layout>>

SetUpVbi ==
  /\ walk = "layout"
  /\ walk' = "done"
  /\ layout' = LET second == NextLine(format, First)
               IN  [start |-> <<First, second>>, count |-> Last(lines) - second + 1]
  /\ UNCHANGED <<format, card, line, lines, left, indexed>>

Next ==
  ReadVancLine \/ AddPictureLine \/ DecodeVideoIndex \/ SetUpVbi

(* The buffer is what libzvbi was told: the lines of two fields in turn,   *)
(* as many of each, none missing and none twice.                           *)
LayoutIsBuffer ==
  layout # NoLayout =>
    /\ Len(lines) = 2 * layout.count
    /\ \A i \in DOMAIN lines :
         lines[i] = layout.start[((i - 1) % 2) + 1] + ((i - 1) \div 2)

(* The number of a line survives the way to a line of its field and back,  *)
(* and fits the five bits a data unit has for it.                          *)
LineNumbersFit ==
  format \in Interlaced =>
    \A i \in DOMAIN lines :
      LET a == SmpteToAnalogue(format, lines[i])
      IN  /\ AnalogueToSmpte(format, a) = lines[i] /\ a.field = ((i - 1) % 2) + 1
          /\ a.line \in 1 .. 31

(* The video index is read from the line it is on.                         *)
VideoIndexLine == indexed # 0 => indexed = IndexLine[format]
=============================================================================
