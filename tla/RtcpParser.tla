----------------------------- MODULE RtcpParser -----------------------------
(***************************************************************************)
(* How a compound RTCP packet is read (avformat/rtcp_dec.cpp,              *)
(* avformat/rtcp_helper.cpp): the state machine of RTCPParserV2, and what  *)
(* RTCP::parse_rtcp_packet notes of what it finds.                         *)
(*                                                                         *)
(* A packet is a sequence of words of 32 bits.  What a word holds is its   *)
(* value v: a number, or the fields of a report block, of a NACK item, and *)
(* so on.  Iterate, which skips blocks and calls itself, is one action for *)
(* each block or item it looks at.                                         *)
(***************************************************************************)
EXTENDS Integers, Sequences

CONSTANTS
  Datagrams,   \* the packets to read, sequences of words
  PidMod,      \* 2^16: packet numbers
  MaskBits,    \* 16: numbers in the bit mask of a NACK item
  AppWords,    \* kRtcpAppCode_DATA_SIZE in words
  MaxNacks     \* kSendSideNackListSizeSanity

\* hdr: RTCPParseCommonHeader succeeds; pt, ic, len: PT, IC and the length;
\* text: what ParseSDESItem meets in the word, "cname" and "end" tags;
\* octet: what the first octet counts, NumberOfSSRCs.
Word(w) == w.hdr \in BOOLEAN /\ w.octet \in Nat /\ (w.hdr => {w.ic, w.len} \subseteq Nat)

ASSUME ParserAssumption ==
  /\ {PidMod, MaskBits, AppWords, MaxNacks} \subseteq Nat \ {0}
  /\ \A d \in Datagrams :
       /\ Len(d) \in Nat /\ DOMAIN d = 1 .. Len(d)
       /\ \A i \in DOMAIN d : Word(d[i])

ReportWords == 6   \* kReportBlockLength in words

VARIABLES
  words,    \* the packet
  parser,   \* pos, end: words before _ptrRTCPData and _ptrRTCPBlockEnd
            \* state: _state; left: _numberOfBlocks; type: the last type that
            \* Iterate returned, "Invalid" when reading is over
  info      \* RTCPPacketInformation

parserVars == <<words, parser, info>>

NoInfo ==
  [flags |-> {}, ssrc |-> 0, sr |-> <<>>, reports |-> <<>>, nackList |-> <<>>,
   app |-> <<>>, bitrate |-> 0]

\* The constructors, Begin.
ParserStart ==
  /\ parser = [pos |-> 0, end |-> 0, state |-> "TopLevel", left |-> 0, type |-> "None"]
  /\ info = NoInfo

ParserInit == words \in Datagrams /\ ParserStart

Field(i) == words[parser.pos + i].v
Length == parser.end - parser.pos

----------------------------------------------------------------------------
(* State_TopLevel: one block.                                              *)

AtHeader == parser.pos < Len(words) /\ words[parser.pos + 1].hdr
Header == words[parser.pos + 1]
Size == 1 + Header.len

\* IterateTopLevel at a block that is all there.
AtBlock ==
  /\ parser.state = "TopLevel" /\ parser.type # "Invalid"
  /\ AtHeader /\ parser.pos + Size <= Len(words)

\* The words of the block are read, n of them now; the rest are its items.
Enter(n, state, type) ==
  parser' = [pos |-> parser.pos + n, end |-> parser.pos + Size, state |-> state,
             left |-> Header.ic, type |-> type]

\* EndCurrentBlock, and on to the next block.
Skip ==
  /\ parser' = [parser EXCEPT !.pos = @ + Size, !.end = parser.pos + Size]
  /\ info' = info

\* A header that cannot be read, or a block that is longer than the packet,
\* whose end is not looked at any more.
Stop ==
  /\ parser.state = "TopLevel" /\ parser.type # "Invalid"
  /\ ~(AtHeader /\ parser.pos + Size <= Len(words))
  /\ parser' = [parser EXCEPT !.type = "Invalid"] /\ info' = info

\* ParseSR, HandleSenderReceiverReport.  A short one ends the reading.
SenderReport ==
  /\ AtBlock /\ Header.pt = "SR"
  /\ \/ /\ Size < 7
        /\ Enter(Size, "TopLevel", "Invalid") /\ info' = info
     \/ /\ Size >= 7
        /\ IF Header.ic # 0 THEN Enter(7, "ReportBlockItem", "Sr")
                            ELSE Enter(Size, "TopLevel", "Sr")
        /\ info' = [info EXCEPT !.flags = @ \cup {"Sr"}, !.ssrc = Field(2),
                                !.sr = <<Field(3), Field(4), Field(5), Field(6), Field(7)>>]

\* ParseRR: a short one ends the reading as well.
ReceiverReport ==
  /\ AtBlock /\ Header.pt = "RR"
  /\ \/ /\ Size < 2
        /\ Enter(0, "TopLevel", "Invalid") /\ info' = info
     \/ /\ Size >= 2
        /\ Enter(2, "ReportBlockItem", "Rr")
        /\ info' = [info EXCEPT !.flags = @ \cup {"Rr"}, !.ssrc = Field(2)]

\* ParseSDES, HandleSDES.
Sdes ==
  /\ AtBlock /\ Header.pt = "SDES"
  /\ \/ Size < 2 /\ Skip
     \/ /\ Size >= 2
        /\ Enter(1, "SDESChunk", "Sdes")
        /\ info' = [info EXCEPT !.flags = @ \cup {"Sdes"}]

\* Faulty form, for the mutants: the first source is passed twice.
ByeOneMore ==
  /\ AtBlock /\ Header.pt = "BYE" /\ Size >= 2 /\ Header.ic # 0
  /\ Enter(2 + Header.ic, "BYEItem", "Bye")
  /\ info' = [info EXCEPT !.flags = @ \cup {"Bye"}, !.ssrc = Field(2)]

\* ParseBYE, which reads the item itself, HandleBYE: the first source counts,
\* the others are passed.
Bye ==
  /\ AtBlock /\ Header.pt = "BYE"
  /\ \/ (Size < 2 \/ Header.ic = 0) /\ Skip
     \/ /\ Size >= 2 /\ Header.ic # 0
        /\ parser' = [pos |-> parser.pos + 2 + (IF Size > Header.ic THEN Header.ic - 1 ELSE 0),
                      end |-> parser.pos + Size, state |-> "BYEItem",
                      left |-> 0, type |-> "Bye"]
        /\ info' = [info EXCEPT !.flags = @ \cup {"Bye"}, !.ssrc = Field(2)]

\* ParseFBCommon of PT_RTPFB, HandleNACK.
TransportFeedback ==
  /\ AtBlock /\ Header.pt = "RTPFB"
  /\ \/ (Size < 3 \/ Header.ic # 1) /\ Skip
     \/ /\ Size >= 3 /\ Header.ic = 1
        /\ Enter(3, "NACKItem", "Nack")
        /\ info' = [info EXCEPT !.ssrc = Field(2), !.nackList = <<>>]

\* ParseFBCommon of PT_PSFB.
PayloadFeedback ==
  /\ AtBlock /\ Header.pt = "PSFB"
  /\ \/ (Size < 3 \/ Header.ic # 15) /\ Skip
     \/ /\ Size >= 3 /\ Header.ic = 15
        /\ Enter(3, "PsfbAppItem", "PsfbApp") /\ info' = info

\* ParseAPP, HandleAPP.
App ==
  /\ AtBlock /\ Header.pt = "APP"
  /\ \/ Size < 3 /\ Skip
     \/ /\ Size >= 3
        /\ Enter(3, "AppItem", "App")
        /\ info' = [info EXCEPT !.flags = @ \cup {"App"}]

Known == {"SR", "RR", "SDES", "BYE", "RTPFB", "PSFB", "APP"}

\* Faulty form, for the mutants: the block is reported and not passed.
ForeignStays ==
  /\ AtBlock /\ Header.pt \notin Known
  /\ Enter(0, "TopLevel", "NotSupported") /\ info' = info

\* Not supported.
Foreign == AtBlock /\ Header.pt \notin Known /\ Skip

----------------------------------------------------------------------------
(* The items of a block.                                                   *)

\* n words of the block are an item.
Take(n, type) ==
  parser' = [parser EXCEPT !.pos = @ + n, !.type = type]

\* No more items: EndCurrentBlock, and on to the next block.
Leave ==
  /\ parser' = [parser EXCEPT !.pos = parser.end, !.state = "TopLevel"]
  /\ info' = info

\* ParseReportBlockItem, HandleReportBlock.
ReportBlockItem ==
  /\ parser.state = "ReportBlockItem"
  /\ IF Length < ReportWords \/ parser.left = 0 THEN Leave
     ELSE /\ parser' = [parser EXCEPT !.pos = @ + ReportWords, !.left = @ - 1,
                                      !.type = "ReportBlockItem"]
          /\ info' = [info EXCEPT !.reports =
                        Append(@, [i \in 1 .. ReportWords |-> Field(i)])]

\* ParseSDESItem: the words up to the one with the end tag, if there is one.
Ends == {j \in parser.pos + 2 .. parser.end : "end" \in words[j].text}
TextEnds(j) == j \in Ends /\ \A i \in Ends : j <= i

\* ParseSDESChunk: a chunk counts when it has a CNAME; the next one follows
\* where its text ends.
SDESChunk ==
  /\ parser.state = "SDESChunk"
  /\ IF parser.left = 0 \/ Length < 1 \/ Ends = {} THEN Leave
     ELSE /\ info' = info
          /\ \E j \in parser.pos + 2 .. parser.end :
               /\ TextEnds(j)
               /\ IF \E i \in parser.pos + 2 .. j : "cname" \in words[i].text
                  THEN parser' = [parser EXCEPT !.pos = j, !.left = @ - 1,
                                                !.type = "SdesChunk"]
                  ELSE parser' = [parser EXCEPT !.pos = j]

\* ParseBYEItem, which has been called before.
BYEItem == parser.state = "BYEItem" /\ Leave

\* HandleNACKItem: the number of an item, then those of the bits of its mask
\* (bit i - 1 for the i-th number behind it).
NackNumbers(item) ==
  LET numbers[i \in 0 .. MaskBits] ==
        IF i = 0 THEN <<item.pid>>
        ELSE IF i - 1 \in item.mask
        THEN Append(numbers[i - 1], (item.pid + i) % PidMod)
        ELSE numbers[i - 1]
  IN  numbers[MaskBits]

\* AddNACKPacket of each.
AddNACKPackets(list, numbers) ==
  LET all == list \o numbers
  IN  SubSeq(all, 1, IF Len(all) > MaxNacks THEN MaxNacks ELSE Len(all))

\* ParseNACKItem.
NACKItem ==
  /\ parser.state = "NACKItem"
  /\ IF Length < 1 THEN Leave
     ELSE /\ Take(1, "NackItem")
          /\ info' = [info EXCEPT !.flags = @ \cup {"Nack"},
                                  !.nackList = AddNACKPackets(@, NackNumbers(Field(1)))]

\* ParseAPPItem, HandleAPPItem: the data, in pieces of AppWords.
AppItem ==
  /\ parser.state = "AppItem"
  /\ IF Length < 1 THEN Leave
     ELSE LET n == IF Length > AppWords THEN AppWords ELSE Length
          IN  /\ Take(n, "AppItem")
              /\ info' = [info EXCEPT !.app = @ \o [i \in 1 .. n |-> Field(i)]]

\* ParsePsfbAppItem, HandlePsfbApp.
PsfbAppItem ==
  /\ parser.state = "PsfbAppItem"
  /\ IF Length < 1 \/ Field(1) # "REMB" THEN Leave
     ELSE /\ parser' = [parser EXCEPT !.pos = @ + 1, !.state = "REMBItem",
                                      !.type = "Remb"]
          /\ info' = [info EXCEPT !.ssrc = words[parser.pos - 1].v]

SSRCs == words[parser.pos + 1].octet

\* ParsePsfbREMBItem, HandleREMBItem: only the item after the identifier
\* counts.
REMBItem ==
  /\ parser.state = "REMBItem"
  /\ IF Length < 1 \/ Length < 1 + SSRCs THEN Leave
     ELSE /\ Take(1 + SSRCs, "RembItem")
          /\ info' = IF parser.type # "Remb" THEN info
                     ELSE [info EXCEPT !.flags = @ \cup {"Remb"},
                                       !.bitrate = Field(1).mantissa * 2 ^ Field(1).exp]

----------------------------------------------------------------------------
Block ==
  \/ SenderReport \/ ReceiverReport \/ Sdes \/ Bye
  \/ TransportFeedback \/ PayloadFeedback \/ App \/ Foreign

Item ==
  \/ ReportBlockItem \/ SDESChunk \/ BYEItem \/ NACKItem \/ AppItem
  \/ PsfbAppItem \/ REMBItem

ParserNext == (Stop \/ Block \/ Item) /\ words' = words

ParserSpec == ParserInit /\ [][ParserNext]_parserVars

Done == parser.type = "Invalid"

----------------------------------------------------------------------------
(* Properties.                                                             *)

\* The parser never looks past the block it is in, nor that past the packet,
\* whatever the lengths and counts in the packet say.
StaysInside ==
  /\ {parser.pos, parser.end, parser.left} \subseteq Nat
  /\ parser.pos <= parser.end /\ parser.end <= Len(words)

\* What is left to do: two for each word, one for the items of a block, one
\* for the end.
ToDo ==
  2 * (Len(words) - parser.pos) + (IF parser.state = "TopLevel" THEN 0 ELSE 1)
    + (IF Done THEN 0 ELSE 1)

\* The reading ends (parse_rtcp_packet's loop, IterateTopLevel's loop, the
\* calls of Iterate by itself): every step leaves less to do, also at blocks
\* that are unknown, too short or empty.
ReadingEnds == [][ToDo' < ToDo /\ ToDo' >= 0]_parserVars
=============================================================================
