------------------------------- MODULE Rtcp ---------------------------------
(***************************************************************************)
(* Compound RTCP packets from the sender's objects to the reader's         *)
(* information: how RtcpPacket and its classes build one                   *)
(* (avformat/rtcp_enc.cpp, avformat/rtcp.h), and what RtcpParser makes of  *)
(* it.                                                                     *)
(*                                                                         *)
(* An RtcpPacket is a record: its class, ssrc of its sender, and what its  *)
(* With... calls put in.  "Foreign" stands for the blocks that other       *)
(* implementations add and this one has no class for, "Damaged" for blocks *)
(* whose count or length is not that of what follows.                      *)
(***************************************************************************)
EXTENDS RtcpParser, SequencesExt, FiniteSetsExt

CONSTANTS
  Compounds,     \* the compound packets that are sent, sequences of RtcpPacket
  MaxWords,      \* the buffer of SendRtcp, in words
  MantissaBits,  \* 18
  MaxExp         \* 63

VARIABLE sent    \* the compound packet the words were built from

----------------------------------------------------------------------------
(* Building.                                                               *)

\* CreateHeader, with BlockToHeaderLength.
CreateHeader(pt, ic, body) ==
  <<[hdr |-> TRUE, pt |-> pt, ic |-> ic, len |-> Len(body), text |-> {},
    octet |-> 0]>> \o body

\* AssignUWord32 and its kind.
UWords(values) ==
  [i \in DOMAIN values |-> [hdr |-> FALSE, v |-> values[i], text |-> {}, octet |-> 0]]

\* CreateReportBlocks.
CreateReportBlocks(reports) == UWords(FlattenSeq(reports))

CreateSenderReport(b) ==
  CreateHeader("SR", Len(b.reports),
               UWords(<<b.ssrc>> \o b.sr) \o CreateReportBlocks(b.reports))

CreateReceiverReport(b) ==
  CreateHeader("RR", Len(b.reports), UWords(<<b.ssrc>>) \o CreateReportBlocks(b.reports))

\* Sdes::WithCName: behind a text of n octets there are one to four zero
\* octets.  A text that is no CNAME comes from another implementation.
Text(chunk) ==
  LET last == (2 + chunk.octets) \div 4 + 1
      tags(i) == {t \in {"cname", "end"} : IF t = "cname" THEN chunk.cname /\ i = 1
                                                         ELSE i = last}
  IN  [i \in 1 .. last |-> [hdr |-> FALSE, v |-> "text", text |-> tags(i), octet |-> 0]]

CreateSdes(b) ==
  CreateHeader("SDES", Len(b.chunks),
               FlattenSeq([i \in DOMAIN b.chunks |-> UWords(<<b.ssrc>>) \o Text(b.chunks[i])]))

\* CreateBye, which writes the length for the count.
CreateBye(b) ==
  LET body == UWords(<<b.ssrc>> \o b.csrcs) IN CreateHeader("BYE", Len(body), body)

CreateApp(b) == CreateHeader("APP", b.subtype, UWords(<<b.ssrc, "name">> \o b.data))

\* Faulty form, for the mutants: the distance is not reduced by one.
WithNumberOffByOne(items, n) ==
  LET shift == (n - Last(items).pid) % PidMod
  IN  IF items # <<>> /\ shift \in 0 .. MaskBits - 1
      THEN [items EXCEPT ![Len(items)].mask = @ \cup {shift}]
      ELSE Append(items, [pid |-> n, mask |-> {}])

\* Nack::WithList: a number is a bit of the item before it, or an item.
WithNumber(items, n) ==
  LET shift == ((n - Last(items).pid) % PidMod) - 1
  IN  IF items # <<>> /\ shift \in 0 .. MaskBits - 1
      THEN [items EXCEPT ![Len(items)].mask = @ \cup {shift}]
      ELSE Append(items, [pid |-> n, mask |-> {}])

NackItems(list) ==
  LET items[i \in 0 .. Len(list)] ==
        IF i = 0 THEN <<>> ELSE WithNumber(items[i - 1], list[i])
  IN  items[Len(list)]

CreateNack(b) ==
  CreateHeader("RTPFB", 1, UWords(<<b.ssrc, b.media>> \o NackItems(b.list)))

\* ComputeMantissaAnd6bitBase2Exponent.
Exponent(rate) ==
  Min({e \in 0 .. MaxExp : rate <= (2 ^ MantissaBits - 1) * 2 ^ e})

RembItem(count, mantissa, exp) ==
  [hdr |-> FALSE, v |-> [mantissa |-> mantissa, exp |-> exp], text |-> {}, octet |-> count]

CreateRemb(b) ==
  LET exp == Exponent(b.rate)
  IN  CreateHeader("PSFB", 15,
        UWords(<<b.ssrc, 0, "REMB">>)
          \o <<RembItem(Len(b.ssrcs), b.rate \div 2 ^ exp, exp)>> \o UWords(b.ssrcs))

\* Create of each class.
Create(b) ==
  CASE b.class = "SenderReport"   -> CreateSenderReport(b)
    [] b.class = "ReceiverReport" -> CreateReceiverReport(b)
    [] b.class = "Sdes"           -> CreateSdes(b)
    [] b.class = "Bye"            -> CreateBye(b)
    [] b.class = "App"            -> CreateApp(b)
    [] b.class = "Nack"           -> CreateNack(b)
    [] b.class = "Remb"           -> CreateRemb(b)
    [] b.class = "Foreign"        -> CreateHeader(b.pt, b.fmt, UWords(b.body))
    [] b.class = "Damaged"        ->
         [CreateHeader(b.pt, b.fmt, b.body) EXCEPT ![1].len = b.len]

\* CreateAndAddAppended, Build: what does not fit is left out, what follows
\* it is not.
Add(packet, b) ==
  IF Len(packet) + Len(Create(b)) > MaxWords THEN packet ELSE packet \o Create(b)

Build(blocks) == FoldLeft(Add, <<>>, blocks)

----------------------------------------------------------------------------
(* What the blocks are that the server builds, and the bounds of them.     *)

IsSeq(s) == Len(s) \in Nat /\ s = [i \in 1 .. Len(s) |-> s[i]]

MaxCount == 31   \* kMaxNumberOfReportBlocks, kMaxNumberOfChunks

Reports(b) ==
  /\ IsSeq(b.reports) /\ Len(b.reports) <= MaxCount
  /\ \A i \in DOMAIN b.reports : IsSeq(b.reports[i]) /\ Len(b.reports[i]) = ReportWords

\* Numbers to ask for, in their order.
Ascending(list) ==
  /\ list \in Seq(0 .. PidMod - 1) /\ Len(list) \in 1 .. MaxNacks
  /\ \A i \in 1 .. Len(list) - 1 :
       (list[i + 1] - list[i]) % PidMod \in 1 .. PidMod \div 2 - 1

\* A block that the reader has no class for.
NotOurs(b) ==
  \/ b.pt \notin Known
  \/ b.pt = "SDES" /\ b.body = <<>>
  \/ b.pt = "BYE" /\ b.fmt = 0
  \/ b.pt = "RTPFB" /\ b.fmt # 1
  \/ b.pt = "PSFB" /\ (b.fmt = 15 => Len(b.body) < 3 \/ b.body[3] # "REMB")

\* What the With... calls let into a block.
Proper(b) ==
  \/ b.class = "SenderReport" /\ IsSeq(b.sr) /\ Len(b.sr) = 5 /\ Reports(b)
  \/ b.class = "ReceiverReport" /\ Reports(b)
  \/ /\ b.class = "Sdes" /\ IsSeq(b.chunks) /\ Len(b.chunks) \in 1 .. MaxCount
     /\ \A i \in DOMAIN b.chunks : b.chunks[i].octets \in Nat /\ b.chunks[i].cname \in BOOLEAN
  \/ b.class = "Bye" /\ IsSeq(b.csrcs) /\ Len(b.csrcs) < MaxCount
  \/ b.class = "App" /\ IsSeq(b.data) /\ b.subtype \in 0 .. MaxCount
  \/ b.class = "Nack" /\ Ascending(b.list)
  \/ /\ b.class = "Remb" /\ IsSeq(b.ssrcs)
     /\ b.rate \in 0 .. (2 ^ MantissaBits - 1) * 2 ^ MaxExp
  \/ b.class = "Foreign" /\ IsSeq(b.body) /\ b.fmt \in 0 .. MaxCount /\ NotOurs(b)

\* The last part is what a power of two is.
ASSUME RtcpAssumption ==
  /\ \A p \in Compounds :
       IsSeq(p) /\ \A i \in DOMAIN p : p[i].class = "Damaged" \/ Proper(p[i])
  /\ MaskBits < PidMod \div 2
  /\ MaxExp \in Nat /\ 2 ^ MantissaBits \in Nat \ {0, 1} /\ 2 ^ 0 = 1
  /\ \A e \in 1 .. MaxExp : 2 ^ e = 2 * 2 ^ (e - 1)

----------------------------------------------------------------------------
SentInit == sent \in Compounds /\ words = Build(sent) /\ ParserStart
SentNext == ParserNext /\ sent' = sent
SentSpec == SentInit /\ [][SentNext]_<<parserVars, sent>>

----------------------------------------------------------------------------
(* Properties.                                                             *)

\* What the block b is to add to the information.
Meaning(i, b) ==
  CASE b.class = "SenderReport" ->
         [i EXCEPT !.flags = @ \cup {"Sr"}, !.ssrc = b.ssrc, !.sr = b.sr,
                   !.reports = @ \o b.reports]
    [] b.class = "ReceiverReport" ->
         [i EXCEPT !.flags = @ \cup {"Rr"}, !.ssrc = b.ssrc, !.reports = @ \o b.reports]
    [] b.class = "Sdes" -> [i EXCEPT !.flags = @ \cup {"Sdes"}]
    [] b.class = "Bye" -> [i EXCEPT !.flags = @ \cup {"Bye"}, !.ssrc = b.ssrc]
    [] b.class = "App" -> [i EXCEPT !.flags = @ \cup {"App"}, !.app = @ \o b.data]
    [] b.class = "Nack" ->
         [i EXCEPT !.flags = @ \cup {"Nack"}, !.ssrc = b.ssrc, !.nackList = b.list]
    [] b.class = "Remb" ->
         [i EXCEPT !.flags = @ \cup {"Remb"}, !.ssrc = b.ssrc, !.bitrate = b.rate]
    [] OTHER -> i

\* What all of them add.
Meanings(blocks) ==
  LET upto[i \in 0 .. Len(blocks)] ==
        IF i = 0 THEN NoInfo ELSE Meaning(upto[i - 1], blocks[i])
  IN  upto[Len(blocks)]

\* A rate is read as it is up to the bits of the mantissa, and never higher.
Near(read, rate) ==
  read <= rate /\ (rate - read) * (2 ^ MantissaBits - 1) <= 2 * rate

\* What is read is what was sent, whatever blocks, of whatever length, are
\* around it: lists of numbers in masks across the wrap, reports, names of any
\* length, rates, and blocks this code does not know (rtcp_enc.cpp against
\* rtcp_dec.cpp and rtcp_helper.cpp).
ReadAsWritten ==
  /\ Done
  /\ \A i \in DOMAIN sent : sent[i].class # "Damaged"
  /\ words = FlattenSeq([i \in DOMAIN sent |-> Create(sent[i])])
  => LET all == Meanings(sent)
     IN  /\ Near(info.bitrate, all.bitrate)
         /\ info = [all EXCEPT !.bitrate = info.bitrate]
=============================================================================
