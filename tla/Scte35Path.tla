----------------------------- MODULE Scte35Path -----------------------------
(* SCTE-104 messages of the input on their way to SCTE-35 sections in the  *)
(* multiplex.  The callback of libklvanc looks up the streams a message is *)
(* for and stores an entry for each with the frame; the entries are copied *)
(* into the frame, with the picture through the encoder, and become        *)
(* sections when the encoder gives that picture out, with its times.  The  *)
(* sections go to the queue of the mux at once.  So does the picture where *)
(* latency is to be low; else it goes through the encoder smoothing first. *)
EXTENDS Integers, Sequences, SequencesExt, FiniteSetsExt

CONSTANTS Messages,      \* SCTE-104 messages tried, see MessageType
          FilterTables,  \* the tables of filters tried, each [as, dpi, pid]
          Pids,          \* the PIDs of the SCTE-35 streams, in their order
          FirstInput,    \* the input stream of the first of them
          Added,         \* numbers of streams that "add" put in front of them
          MaxItems,      \* entries a frame has room for
          MaxPerFrame,   \* messages of one frame
          MaxPictures    \* pictures captured

VARIABLES filters,  \* the table of this run
          shift,    \* streams added in front of the SCTE-35 streams
          count,    \* pictures captured so far
          given104, \* messages of the frame being captured
          entries,  \* its entries: [message, pid, stream]
          pictures, \* in the encoder: [number, messages, entries]
          low,      \* the latency mode is LOW or LOWEST
          smoothing, \* enc_smoothing_queue
          toMux     \* mux_queue: sections and pictures, in the order queued

scteVars == <<filters, shift, count, given104, entries, pictures, low, smoothing, toMux>>
setup == <<filters, shift, low>>

All == -1

(* The two indices; a packet of type 1 is ignored.  The conversion gives   *)
(* any number of sections, none if it fails or if the message is a single  *)
(* operation.                                                              *)
MessageType == [as : Nat, dpi : Nat, ignored : BOOLEAN, splices : Nat]
ConstantsAreSound ==
  /\ Messages \subseteq MessageType
  /\ {MaxItems, MaxPerFrame, MaxPictures, FirstInput} \subseteq Nat
  /\ \A t \in FilterTables : IsInjective([i \in DOMAIN t |-> t[i].pid])

(* The output streams have the ids of their places; each knows its input.  *)
InputOf(i) == FirstInput + i - 1
OutputOf(i) == FirstInput + i - 1 + shift

Init ==
  /\ filters \in FilterTables /\ shift \in Added /\ count = 0
  /\ given104 = <<>> /\ entries = <<>> /\ pictures = <<>>
  /\ low \in BOOLEAN /\ smoothing = <<>> /\ toMux = <<>>

(* A filter asks for one value of an index or for all.                     *)
Matches(f, m) == f.as \in {All, m.as} /\ f.dpi \in {All, m.dpi}
LookupPids(m) ==
  LET hits == SelectSeq(filters, LAMBDA f : Matches(f, m))
  IN  [i \in DOMAIN hits |-> hits[i].pid]

(* The stream of a PID, by the id of its input; that of the first SCTE-35  *)
(* stream of the device when there are no filters.                         *)
Place(pid) == SelectInSeq(Pids, LAMBDA p : p = pid)
FindByPid(pid) == InputOf(Place(pid))
Entries(n, m) ==
  IF m.ignored THEN <<>>
  ELSE IF filters = <<>> THEN <<[message |-> n, pid |-> Head(Pids), stream |-> InputOf(1)]>>
  ELSE LET pids == SelectSeq(LookupPids(m), LAMBDA p : Place(p) > 0)
       IN  [i \in DOMAIN pids |->
              [message |-> n, pid |-> pids[i], stream |-> FindByPid(pids[i])]]

(* A message of the frame; what there is no room for is left out.          *)
FirstOf(s, n) == SubSeq(s, 1, Min({n, Len(s)}))
cb_SCTE_104 ==
  /\ count < MaxPictures /\ Len(given104) < MaxPerFrame
  /\ \E m \in Messages :
       /\ given104' = Append(given104, m)
       /\ entries' = FirstOf(entries \o Entries(Len(given104) + 1, m), MaxItems)
  /\ UNCHANGED <<setup, count, pictures, smoothing, toMux>>

(* The frame goes to the encoder with a copy of the entries, or is lost;   *)
(* the next callback starts without entries.                               *)
FrameQueued ==
  /\ count < MaxPictures /\ count' = count + 1
  /\ pictures' = Append(pictures, [number |-> count', messages |-> given104,
                                   entries |-> entries])
  /\ given104' = <<>> /\ entries' = <<>> /\ UNCHANGED <<setup, smoothing, toMux>>
FrameLost ==
  /\ count < MaxPictures /\ count' = count + 1
  /\ given104' = <<>> /\ entries' = <<>> /\ UNCHANGED <<setup, pictures, smoothing, toMux>>

(* The encoder gives a picture out, not always the oldest, and with it the *)
(* pointer it was given.  What was made of the message of each entry goes  *)
(* to the mux with the time of the picture.                                *)
SectionsOf(time, m, e) ==
  [i \in 1 .. m.splices |->
     [kind |-> "section", time |-> time, message |-> e.message, part |-> i,
      pid |-> e.pid, stream |-> e.stream]]
Sections(time, p) ==
  FlattenSeq([i \in DOMAIN p.entries |->
    SectionsOf(time, p.messages[p.entries[i].message], p.entries[i])])
Coded(p) == [kind |-> "picture", time |-> p.number, messages |-> p.messages]

CodedWith(i, sections) ==
  /\ toMux' = toMux \o sections \o (IF low THEN <<Coded(pictures[i])>> ELSE <<>>)
  /\ smoothing' = IF low THEN smoothing ELSE Append(smoothing, Coded(pictures[i]))
  /\ pictures' = RemoveAt(pictures, i)
  /\ UNCHANGED <<setup, count, given104, entries>>
CodedFrameOfLatest ==   \* fault: the entries of the picture that went in last
  \E i \in 1 .. Min({2, Len(pictures)}) :
    CodedWith(i, Sections(pictures[i].number, Last(pictures)))
CodedFrame ==
  \E i \in 1 .. Min({2, Len(pictures)}) :
    CodedWith(i, Sections(pictures[i].number, pictures[i]))

(* The smoothing thread hands its head over when the clock says so.        *)
Smoothed ==
  /\ smoothing # <<>>
  /\ toMux' = Append(toMux, Head(smoothing)) /\ smoothing' = Tail(smoothing)
  /\ UNCHANGED <<setup, count, given104, entries, pictures>>

Next == cb_SCTE_104 \/ FrameQueued \/ FrameLost \/ CodedFrame \/ Smoothed

(* When a picture is coded, and so before it reaches the mux, its sections *)
(* are queued for the mux, with its time: those that were made of each     *)
(* message of its frame, for each PID a filter of that message names, in   *)
(* that order, as far as there was room for entries.  Where latency is low *)
(* they are the last thing in front of the picture; else pictures coded    *)
(* earlier may come between.                                               *)
Wanted(messages) ==
  LET pidsOf(m) ==
        IF m.ignored THEN <<>>
        ELSE IF filters = <<>> THEN <<Head(Pids)>>
        ELSE LET hits == SelectSeq(filters, LAMBDA f :
                           /\ f.as = All \/ f.as = m.as
                           /\ f.dpi = All \/ f.dpi = m.dpi
                           /\ \E i \in DOMAIN Pids : Pids[i] = f.pid)
             IN  [i \in DOMAIN hits |-> hits[i].pid]
      asked == FirstOf(FoldLeft(LAMBDA s, n :
                 s \o [i \in DOMAIN pidsOf(messages[n]) |-> <<n, pidsOf(messages[n])[i]>>],
                 <<>>, [n \in DOMAIN messages |-> n]), MaxItems)
  IN  FlattenSeq([i \in DOMAIN asked |->
        [k \in 1 .. messages[asked[i][1]].splices |-> <<asked[i][1], k, asked[i][2]>>]])
SectionsAt(time, queue) ==
  LET own == SelectSeq(queue, LAMBDA e : e.kind = "section" /\ e.time = time)
  IN  [i \in DOMAIN own |-> <<own[i].message, own[i].part, own[i].pid>>]
SectionsWithTheirPicture ==
  /\ \A p \in Range(smoothing) : SectionsAt(p.time, toMux) = Wanted(p.messages)
  /\ \A i \in DOMAIN toMux : toMux[i].kind = "picture" =>
       LET wanted == Wanted(toMux[i].messages)
       IN  /\ SectionsAt(toMux[i].time, toMux) = wanted
           /\ SectionsAt(toMux[i].time, SubSeq(toMux, 1, i - 1)) = wanted
           /\ low => SectionsAt(toMux[i].time, SubSeq(toMux, i - Len(wanted), i - 1)) = wanted

(* "put specific 104 messages on specific SCTE35 pids": with filters, the  *)
(* stream a section goes to is the one that has the PID of its filter.     *)
SectionOnItsPid ==
  filters # <<>> =>
    \A i \in DOMAIN toMux : toMux[i].kind = "section" =>
      toMux[i].stream = OutputOf(Place(toMux[i].pid))
=============================================================================
