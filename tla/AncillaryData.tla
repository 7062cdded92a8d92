---------------------------- MODULE AncillaryData ----------------------------
(* The data that come with a picture: active format (AFD), bars, captions  *)
(* (CEA-608, CEA-708) and teletext or other services of the blanked lines. *)
(* Three parts of a frame may carry one thing (VANC packets, the video     *)
(* index, the sliced VBI lines), and each parser looks at what the ones    *)
(* before it found.  What goes with the picture is user data, which the    *)
(* video filter turns into SEI messages; the rest goes to DVB-TTX or       *)
(* DVB-VBI PES packets.                                                    *)
EXTENDS Integers, Sequences, SequencesExt

CONSTANTS VbiRaw,      \* the number of the format DVB-VBI, looked up as an id
          MaxPackets,  \* VANC packets of a frame
          MaxLines,    \* sliced lines of a frame
          MaxFrames    \* frames that are captured

VARIABLES given,     \* what the operator chose, and what the input is
          data,      \* where the frame is: a parser, the filter, or "next"
          packets,   \* VANC packets of the frame so far
          services,  \* what a probe found: [type, source]
          items,     \* user data of the frame: [kind, from, good]
          sliced,    \* the lines left for PES packets (num_vbi of them)
          hasVbi, hasTtx,
          decoded,   \* lines of this frame that libzvbi decoded
          pes,       \* PES packets sent for the frame: [stream, lines, size]
          at, ret,   \* the filter's index and the result it carries
          found,     \* the user data as the parsers left them
          captured   \* frames so far

Packets == {"afd", "shortafd", "cdp", "badcdp", "scte", "other"}
Services(ntsc) == IF ntsc THEN {"cc", "nabts"} ELSE {"ttx", "wss", "vps", "cc625"}
ConstantsAreSound == VbiRaw > 0 /\ {MaxPackets, MaxLines, MaxFrames} \subseteq Nat

Item(kind, good) == [kind |-> kind, from |-> kind, good |-> good]
Active(list, kind) == \E i \in DOMAIN list : list[i].kind = kind
Probed(type) == \E i \in DOMAIN services : services[i].type = type

(* Selection of what goes with the picture, and of DVB-VBI: the stream is  *)
(* looked up by id, with the number of its format for an id.               *)
Selected(option) == option \in given.options
DvbSelected(type) == given.vbiId = VbiRaw /\ type \in given.vbiOptions

Init ==
  /\ given \in [ntsc : BOOLEAN, probe : BOOLEAN, off : BOOLEAN, ttx : BOOLEAN,
                vbiId : {0, VbiRaw, VbiRaw + 1},
                vbiOptions : {{}, {"ttx", "wss", "vps"}, {"vps"}, {"ttx"}},
                options : {{}, {"cea608"}, {"cea608", "cea708", "afd", "wss"}}]
  /\ given.vbiId = 0 => given.vbiOptions = {}
  /\ given.ntsc => given.vbiId = 0 /\ ~given.ttx
  /\ data = "vanc" /\ packets = 0 /\ services = <<>> /\ items = <<>> /\ sliced = <<>>
  /\ hasVbi = FALSE /\ hasTtx = FALSE /\ decoded = <<>> /\ pes = <<>>
  /\ at = 0 /\ ret = 0 /\ found = <<>> /\ captured = 0

(* A packet whose length and checksum are right goes to its parser; both   *)
(* the parsers of captions can be turned off, DVB VBI packets are ignored. *)
ParseAfdAnew ==   \* fault: the second field's packet is taken again
  /\ services' = services \o <<[type |-> "afd", source |-> "vanc"],
                              [type |-> "bar", source |-> "vanc"]>>
  /\ items' = items

ParseAfd ==
  IF given.probe
  THEN /\ services' = IF Probed("afd") THEN services
                      ELSE services \o <<[type |-> "afd", source |-> "vanc"],
                                         [type |-> "bar", source |-> "vanc"]>>
       /\ items' = items
  ELSE /\ items' = IF ~Selected("afd") \/ Active(items, "afd") THEN items
                   ELSE items \o <<Item("afd", TRUE), Item("bar", TRUE)>>
       /\ services' = services

ParseCdp(good) ==
  IF given.probe
  THEN /\ services' = IF Probed("cea708") THEN services
                      ELSE Append(services, [type |-> "cea708", source |-> "vanc"])
       /\ items' = items
  ELSE /\ items' = IF ~Selected("cea708") \/ Active(items, "cdp") THEN items
                   ELSE Append(items, Item("cdp", good))
       /\ services' = services

ParseVancLine ==
  /\ data = "vanc" /\ packets < MaxPackets /\ packets' = packets + 1
  /\ \E p \in Packets :
       CASE p = "afd" -> ParseAfd
         [] p \in {"cdp", "badcdp"} /\ ~given.off -> ParseCdp(p = "cdp")
         [] OTHER -> UNCHANGED <<services, items>>
  /\ UNCHANGED <<given, data, sliced, hasVbi, hasTtx, decoded, pes, at, ret, found, captured>>

(* After a run of frames without captions the input adds a packet that     *)
(* resets them; "late" says whether this is that frame.                    *)
InjectCdp ==
  /\ data = "vanc" /\ data' = "vii"
  /\ \E late \in {FALSE, given.ntsc /\ Selected("cea708") /\ ~given.probe} :
       items' = IF late /\ ~Active(items, "cdp")
                THEN Append(items, Item("cdp", TRUE)) ELSE items
  /\ UNCHANGED <<given, packets, services, sliced, hasVbi, hasTtx, decoded, pes, at,
                 ret, found, captured>>

(* The video index repeats the AFD for those who have no VANC.             *)
VideoIndex ==
  /\ data = "vii" /\ data' = "vbi"
  /\ \E present \in BOOLEAN :
       /\ services' = IF present /\ given.probe /\ ~Probed("afd")
                      THEN Append(services, [type |-> "afd", source |-> "vii"])
                      ELSE services
       /\ items' = IF present /\ ~given.probe /\ Selected("afd") /\ ~Active(items, "afd")
                   THEN Append(items, Item("afd", TRUE)) ELSE items
  /\ UNCHANGED <<given, packets, sliced, hasVbi, hasTtx, decoded, pes, at, ret, found,
                 captured>>

(* A probe lists only what becomes user data: WSS, as AFD.  When AFD is    *)
(* known already it looks no further than a WSS line.                      *)
ProbeVbi(lines) ==
  LET wss == SelectInSeq(lines, LAMBDA l : l = "wss")
      looked == IF Probed("afd") /\ wss > 0 THEN SubSeq(lines, 1, wss - 1) ELSE lines
  IN  /\ services' = IF wss > 0 /\ ~Probed("afd")
                     THEN Append(services, [type |-> "afd", source |-> "wss"])
                     ELSE services
      /\ hasTtx' = (hasTtx \/ Contains(looked, "ttx"))
      /\ hasVbi' = (hasVbi \/ \E i \in DOMAIN looked : looked[i] \in {"vps", "nabts"})

(* One line of a frame.  A line of captions takes the line of the second   *)
(* field with it.  Teletext decides anew what there is to send.            *)
Captions608Again(list) ==   \* fault: only CEA-608 is looked for
  IF Active(list, "cea608") \/ ~Selected("cea608")
  THEN list ELSE Append(list, Item("cea608", TRUE))
Captions608(list) ==
  IF Active(list, "cea608") \/ Active(list, "cdp") \/ ~Selected("cea608")
  THEN list ELSE Append(list, Item("cea608", TRUE))
WssItem(list) ==
  IF Active(list, "afd") \/ ~Selected("wss")
  THEN list ELSE Append(list, Item("wss", TRUE))
VbiLine(acc, l) ==
  CASE l = "cc" /\ acc.pair -> [acc EXCEPT !.pair = FALSE]
    [] l = "cc" /\ ~acc.pair ->
         [acc EXCEPT !.pair = TRUE, !.items = Captions608(acc.items)]
    [] l = "wss" ->
         [acc EXCEPT !.pair = FALSE, !.items = WssItem(acc.items),
                     !.kept = IF DvbSelected(l) THEN Append(@, l) ELSE @]
    [] l = "ttx" ->
         [acc EXCEPT !.pair = FALSE, !.kept = Append(@, l),
                     !.ttx = given.ttx, !.vbi = DvbSelected(l)]
    [] OTHER ->
         [acc EXCEPT !.pair = FALSE, !.vbi = @ \/ DvbSelected(l),
                     !.kept = IF DvbSelected(l) THEN Append(@, l) ELSE @]
FrameVbi(lines) ==
  LET all == FoldLeft(VbiLine, [items |-> items, kept |-> <<>>, pair |-> FALSE,
                                vbi |-> hasVbi, ttx |-> hasTtx], lines)
  IN  /\ items' = all.items /\ sliced' = all.kept
      /\ hasVbi' = all.vbi /\ hasTtx' = all.ttx

(* Lines of services that have no type here are dropped first.  The array  *)
(* is cleared at its start, its count of lines is not: without a line, the *)
(* lines that a failed frame left to send are blank ones.                  *)
LineLists ==
  {s \in UNION {[1..n -> Services(given.ntsc)] : n \in 0..MaxLines} :
     Len(SelectSeq(s, LAMBDA l : l = "wss")) <= 1}
DecodeVbi ==
  /\ data = "vbi" /\ data' = IF given.probe THEN "next" ELSE "send"
  /\ \E s \in LineLists :
       LET lines == SelectSeq(s, LAMBDA l : l # "cc625")
       IN  /\ decoded' = lines
           /\ CASE lines = <<>> ->
                     /\ sliced' = [i \in DOMAIN sliced |-> "blank"]
                     /\ UNCHANGED <<services, items, hasVbi, hasTtx>>
                [] lines # <<>> /\ given.probe ->
                     ProbeVbi(lines) /\ UNCHANGED <<items, sliced>>
                [] OTHER -> FrameVbi(lines) /\ UNCHANGED services
  /\ UNCHANGED <<given, packets, pes, at, ret, found, captured>>

(* PES packets fill whole TS packets: a last data unit of stuffing has an  *)
(* id, a length and as many bytes as are missing.  The unit of a blank     *)
(* line has its header only.                                               *)
UnitSize == [ttx |-> 44, vps |-> 14, wss |-> 3, blank |-> 1]
PesHeader == 45
StuffedShort(size) ==   \* fault: the length byte is not counted
  IF (size + PesHeader) % 184 = 0 THEN size
  ELSE LET over == (size + 1 + PesHeader) % 184
       IN  size + 2 + (IF over = 0 THEN 0 ELSE 184 - over)
Stuffed(size) ==
  IF (size + PesHeader) % 184 = 0 THEN size
  ELSE LET over == (size + 1 + PesHeader + 1) % 184
       IN  size + 2 + (IF over = 0 THEN 0 ELSE 184 - over)
Pes(stream, lines) ==
  [stream |-> stream, lines |-> lines,
   size |-> Stuffed(FoldLeft(LAMBDA n, l : n + 2 + UnitSize[l], 1, lines))]
VbiPesOfAll == Pes("vbi", sliced)   \* fault: teletext is not asked for
VbiPes ==
  Pes("vbi", IF DvbSelected("ttx") THEN sliced ELSE <<>>)
TtxPes == Pes("ttx", SelectSeq(sliced, LAMBDA l : l = "ttx"))

SendVbiAndTtx ==
  /\ data = "send" /\ data' = "filter"
  /\ pes' = (IF hasVbi /\ given.vbiId > 0 THEN <<VbiPes>> ELSE <<>>)
            \o (IF hasTtx /\ given.ttx THEN <<TtxPes>> ELSE <<>>)
  /\ hasVbi' = FALSE /\ hasTtx' = FALSE /\ sliced' = <<>>
  /\ at' = 1 /\ ret' = 0 /\ found' = items
  /\ UNCHANGED <<given, packets, services, items, decoded, captured>>

(* Something else of the frame fails: it is lost, but the parser keeps     *)
(* what it has to send, and how many lines of it.                          *)
FrameFails ==
  /\ data = "send" /\ data' = "next" /\ found' = <<>> /\ items' = <<>>
  /\ UNCHANGED <<given, packets, services, sliced, hasVbi, hasTtx, decoded, pes, at,
                 ret, captured>>

EncapsulateSkips ==   \* fault: the item behind one taken out is skipped
  /\ data = "filter" /\ at <= Len(items)
  /\ ret' = IF items[at].good THEN 0 ELSE 1
  /\ items' = IF items[at].good THEN [items EXCEPT ![at].kind = "t35"]
              ELSE RemoveAt(items, at)
  /\ at' = at + 1
  /\ UNCHANGED <<given, data, packets, services, sliced, hasVbi, hasTtx, decoded, pes,
                 found, captured>>

(* The video filter codes an item at a time; a bad caption packet is taken *)
(* out and the index stays for the item behind it.                         *)
Encapsulate ==
  /\ data = "filter" /\ at <= Len(items)
  /\ ret' = IF items[at].good THEN 0 ELSE 1
  /\ items' = IF items[at].good THEN [items EXCEPT ![at].kind = "t35"]
              ELSE RemoveAt(items, at)
  /\ at' = IF items[at].good THEN at + 1 ELSE at
  /\ UNCHANGED <<given, data, packets, services, sliced, hasVbi, hasTtx, decoded, pes,
                 found, captured>>

(* Without a caption rate for the frame rate CEA-608 cannot be written:    *)
(* the filter's thread ends, and takes no other frame.                     *)
EncapsulateFails ==
  /\ data = "filter" /\ at <= Len(items) /\ items[at].kind = "cea608"
  /\ ret' = -1 /\ data' = "dead"
  /\ UNCHANGED <<given, packets, services, items, sliced, hasVbi, hasTtx, decoded, pes,
                 at, found, captured>>

FilterDone ==
  /\ data = "filter" /\ at > Len(items) /\ data' = "next"
  /\ UNCHANGED <<given, packets, services, items, sliced, hasVbi, hasTtx, decoded, pes,
                 at, ret, found, captured>>

NextFrame ==
  /\ data = "next" /\ captured < MaxFrames
  /\ data' = "vanc" /\ captured' = captured + 1
  /\ packets' = 0 /\ items' = <<>> /\ found' = <<>> /\ decoded' = <<>> /\ pes' = <<>>
  /\ at' = 0 /\ ret' = 0
  /\ UNCHANGED <<given, services, sliced, hasVbi, hasTtx>>

Next ==
  \/ ParseVancLine \/ InjectCdp \/ VideoIndex \/ DecodeVbi \/ SendVbiAndTtx
  \/ FrameFails \/ Encapsulate \/ EncapsulateFails \/ FilterDone \/ NextFrame

(* The picture's data say one thing: one set of captions and one active    *)
(* format whatever parts of the signal carry them.                         *)
Kinds(kinds) == {i \in DOMAIN items : items[i].from \in kinds}
SaysOneThing ==
  /\ \A i, j \in Kinds({"cdp", "cea608"}) : i = j
  /\ \A i, j \in Kinds({"afd", "wss"}) : i = j

(* The filter codes every good item, in order, and nothing else is left.   *)
CodesEachItem ==
  data = "next" /\ found # <<>> =>
    /\ \A i \in DOMAIN items : items[i].kind = "t35"
    /\ [i \in DOMAIN items |-> items[i].from]
         = LET good == SelectSeq(found, LAMBDA x : x.good)
           IN [i \in DOMAIN good |-> good[i].from]

(* Nothing the operator did not select goes out, with the picture or in a  *)
(* DVB-VBI packet; blank units go out when the frame before failed and     *)
(* this one has no lines.                                                  *)
OptionOf == [afd |-> "afd", bar |-> "afd", wss |-> "wss", cdp |-> "cea708",
             cea608 |-> "cea608"]
OnlySelected ==
  /\ \A i \in DOMAIN items : Selected(OptionOf[items[i].from])
  /\ \A i \in DOMAIN pes : pes[i].stream = "vbi" =>
       \A j \in DOMAIN pes[i].lines :
         pes[i].lines[j] \in IF decoded = <<>> THEN {"blank"} ELSE given.vbiOptions

(* A teletext packet has the frame's teletext lines, all of them, whatever *)
(* else its lines carry, and each packet fills whole TS packets.           *)
TtxComplete ==
  \A i \in DOMAIN pes :
    /\ (pes[i].size + PesHeader) % 184 = 0
    /\ pes[i].stream = "ttx" =>
         pes[i].lines = SelectSeq(decoded, LAMBDA l : l = "ttx")

(* A probe lists a service once, however many frames and parts have it.    *)
ServicesOnce ==
  \A i, j \in DOMAIN services : services[i].type = services[j].type => i = j
=============================================================================
