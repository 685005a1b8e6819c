------------------------------ MODULE MCRtcp --------------------------------
(* A small instance of Rtcp: one block of each shape, and every list of    *)
(* numbers to ask for around the wrap.                                     *)
EXTENDS Rtcp, FiniteSets

\* Numbers from low on, in their order, across the wrap.
Lists(low, span) ==
  {[i \in 1 .. Cardinality(s) |->
      (low + CHOOSE d \in s : Cardinality({e \in s : e < d}) = i - 1) % PidMod] :
     s \in SUBSET (0 .. span) \ {{}}}

Report(n) == <<n, "lost", "highest", 0, "lsr", "dlsr">>

MCNacks ==
  {<<[class |-> "Nack", ssrc |-> 1, media |-> 2, list |-> l]>> :
     l \in Lists(13, 7) \cup Lists(2, 7)}

MCRembs ==
  {<<[class |-> "Remb", ssrc |-> 1, rate |-> r, ssrcs |-> s]>> :
     r \in 0 .. 48, s \in {<<>>, <<5, 6>>}}

MCBlocks ==
  {[class |-> "SenderReport", ssrc |-> 1, sr |-> <<7, 8, 9, 10, 11>>, reports |-> r] :
     r \in {<<>>, <<Report(3), Report(4)>>}}
  \cup {[class |-> "ReceiverReport", ssrc |-> 2, reports |-> r] : r \in {<<>>, <<Report(5)>>}}
  \cup {[class |-> "Sdes", ssrc |-> 1, chunks |-> c] :
          c \in {<<[octets |-> 11, cname |-> TRUE]>>,
                 <<[octets |-> 5, cname |-> FALSE], [octets |-> 2, cname |-> TRUE]>>}}
  \cup {[class |-> "Bye", ssrc |-> 3, csrcs |-> c] : c \in {<<>>, <<7, 8>>}}
  \cup {[class |-> "App", ssrc |-> 1, subtype |-> 1, data |-> d] : d \in {<<>>, <<1, 2, 3>>}}
  \cup {[class |-> "Nack", ssrc |-> 1, media |-> 2, list |-> <<14, 15, 1, 4>>],
        [class |-> "Remb", ssrc |-> 4, rate |-> 13, ssrcs |-> <<5>>]}
  \cup {[class |-> "Foreign", pt |-> f[1], fmt |-> f[2], body |-> f[3]] :
          f \in {<<"XR", 0, <<1, 2>>>>, <<"PSFB", 1, <<1, 2>>>>, <<"RTPFB", 15, <<1, 2, 3>>>>,
                 <<"PSFB", 15, <<1, 2, "OTHER", 3>>>>, <<"BYE", 0, <<>>>>, <<"SDES", 0, <<>>>>}}

MCDamaged ==
  {[class |-> "Damaged", pt |-> d[1], fmt |-> d[2], len |-> d[3], body |-> d[4]] :
     d \in {<<"SR", 0, 1, UWords(<<1>>)>>, <<"SR", 4, 6, UWords(<<1, 2, 3, 4, 5, 6>>)>>,
            <<"RR", 0, 0, <<>>>>, <<"RR", 2, 1, UWords(<<1>>)>>,
            <<"SDES", 2, 2, UWords(<<1, 2>>)>>, <<"BYE", 3, 1, UWords(<<1>>)>>,
            <<"BYE", 31, 2, UWords(<<1, 2>>)>>, <<"APP", 0, 1, UWords(<<1>>)>>,
            <<"RTPFB", 1, 1, UWords(<<1>>)>>, <<"PSFB", 15, 1, UWords(<<1>>)>>,
            <<"XR", 0, 4, UWords(<<1>>)>>,
            <<"PSFB", 15, 4, UWords(<<1, 0, "REMB">>) \o <<RembItem(3, 1, 0)>>>>}}

MCCompounds ==
  MCNacks \cup MCRembs \cup {<<a>> : a \in MCBlocks \cup MCDamaged}
    \cup {<<a, b>> : a \in MCBlocks, b \in MCBlocks \cup MCDamaged}
    \cup {<<a, b>> : a \in MCDamaged, b \in MCBlocks}
    \cup {<<a, b, c>> : a \in MCBlocks, b \in MCBlocks, c \in MCBlocks}

MCDatagrams == {Build(p) : p \in MCNacks}
=============================================================================
