----------------------- MODULE RtpCircularCacheProofs -----------------------
(***************************************************************************)
(* The RTP packet window, for every modulus, window size and set of        *)
(* packets: its contiguity is inductive, and from it follow that set_rtp   *)
(* never reaches its "unknown error", that the packets held come from one  *)
(* source, and what get_by_seq returns.                                    *)
(***************************************************************************)
EXTENDS RtpCircularCache, TLAPS, WellFoundedInduction

----------------------------------------------------------------------------
(* Serial numbers, and the least of a set of naturals.                     *)

\* Stepping k numbers ahead of a stays in range and is k away from a: what
\* set_rtp relies on when it pads the deque with one block per number.
LEMMA SeqPlusDiff ==
  ASSUME NEW a \in Seqs, NEW k \in 0 .. SeqMod - 1
  PROVE  SeqPlus(a, k) \in Seqs /\ SeqDiff(SeqPlus(a, k), a) = k
BY SeqModAssumption DEF Seqs, SeqPlus, SeqDiff

\* The distance from b to a leads back to a.
LEMMA SeqDiffPlus ==
  ASSUME NEW a \in Seqs, NEW b \in Seqs
  PROVE  SeqDiff(a, b) \in 0 .. SeqMod - 1 /\ SeqPlus(b, SeqDiff(a, b)) = a
BY SeqModAssumption DEF Seqs, SeqPlus, SeqDiff

\* Two steps make one, as long as they stay within the cycle.
LEMMA SeqPlusPlus ==
  ASSUME NEW a \in Seqs, NEW j \in Nat, NEW k \in Nat, j + k < SeqMod
  PROVE  SeqPlus(SeqPlus(a, j), k) = SeqPlus(a, j + k)
BY SeqModAssumption DEF Seqs, SeqPlus

\* The cycle is covered by three arcs: less than x ahead of b, the arc from
\* x ahead of b round to f, and f .. b.  A number in neither of the first two
\* is in the third.
LEMMA ThreeArcs ==
  ASSUME NEW f \in Seqs, NEW b \in Seqs, NEW s \in Seqs,
         NEW x \in Nat, 2 * x <= SeqMod, SeqDiff(b, f) < x,
         s = b \/ SeqDiff(s, b) >= x,
         SeqDiff(s, SeqPlus(b, x)) >= SeqDiff(f, SeqPlus(b, x))
  PROVE  SeqDiff(s, f) <= SeqDiff(b, f)
BY SeqModAssumption DEF Seqs, SeqPlus, SeqDiff

\* Between f and b, in the sense of the two comparisons get_by_seq makes.
LEMMA NeitherAheadNorBehind ==
  ASSUME NEW f \in Seqs, NEW b \in Seqs, NEW s \in Seqs, SeqDiff(b, f) < Half,
         ~IsNewer(s, b), ~IsNewer(f, s),
         ~(b = f /\ SeqDiff(s, f) = Half)
  PROVE  SeqDiff(s, f) <= SeqDiff(b, f)
BY SeqModAssumption DEF Seqs, SeqDiff, IsNewer

\* Numbers less than half a cycle ahead of f are ordered like their distances.
LEMMA OrderWithinHalf ==
  ASSUME NEW f \in Seqs, NEW i \in 0 .. Half - 1, NEW n \in 0 .. Half - 1, i <= n
  PROVE  /\ ~IsNewer(SeqPlus(f, i), SeqPlus(f, n))
         /\ ~IsNewer(f, SeqPlus(f, i))
BY SeqModAssumption DEF Seqs, SeqPlus, SeqDiff, IsNewer

\* The distance from f determines the number.
LEMMA SameDistance ==
  ASSUME NEW f \in Seqs, NEW a \in Seqs, NEW b \in Seqs,
         SeqDiff(a, f) + 1 = SeqDiff(b, f) + 1
  PROVE  a = b
BY SeqModAssumption DEF Seqs, SeqDiff

\* Of two numbers ahead of f, less than a cycle, the distance is that of
\* their distances: the age of a block is its place from the back.
LEMMA DistanceOfSteps ==
  ASSUME NEW f \in Seqs, NEW n \in 0 .. SeqMod - 1, NEW i \in 0 .. n
  PROVE  SeqDiff(SeqPlus(f, n), SeqPlus(f, i)) = n - i
BY SeqModAssumption DEF Seqs, SeqPlus, SeqDiff

\* A number in the second arc of ThreeArcs is further behind b than f is.
LEMMA SecondArc ==
  ASSUME NEW f \in Seqs, NEW b \in Seqs, NEW s \in Seqs,
         NEW x \in Nat \ {0}, 2 * x <= SeqMod, SeqDiff(b, f) < x,
         s = b \/ SeqDiff(s, b) >= x,
         SeqDiff(s, SeqPlus(b, x)) < SeqDiff(f, SeqPlus(b, x))
  PROVE  SeqDiff(s, b) >= x /\ SeqDiff(b, s) > SeqDiff(b, f)
BY SeqModAssumption DEF Seqs, SeqPlus, SeqDiff

\* A number between f and b is no further behind b than f is.
LEMMA ThirdArc ==
  ASSUME NEW f \in Seqs, NEW b \in Seqs, NEW s \in Seqs,
         SeqDiff(s, f) <= SeqDiff(b, f)
  PROVE  SeqDiff(b, s) <= SeqDiff(b, f)
BY SeqModAssumption DEF Seqs, SeqDiff

\* The order of the naturals is a well-founded relation.
LEMMA NatOrder ==
  \E R : IsWellFoundedOn(R, Nat) /\ \A x, y \in Nat : <<y, x>> \in R <=> y < x
<1>1. IsWellFoundedOn(OpToRel(<, Nat), Nat)
  BY NatLessThanWellFounded
<1>2. \A x, y \in Nat : <<y, x>> \in OpToRel(<, Nat) <=> y < x
  BY DEF OpToRel
<1> QED
  BY <1>1, <1>2, Zenon

\* A set of naturals has a least element: the while loops that pop the front
\* of a buffer until a condition holds stop at the first such position.
LEMMA LeastNat ==
  ASSUME NEW T \in SUBSET Nat, T # {}
  PROVE  \E m \in T : \A k \in T : m <= k
<1>1. PICK R : IsWellFoundedOn(R, Nat)
               /\ \A x, y \in Nat : <<y, x>> \in R <=> y < x
  BY NatOrder
<1>2. PICK m \in T : \A y \in T : ~ (<<y, m>> \in R)
  BY <1>1, WFMin, Zenon
<1>3. ASSUME NEW k \in T PROVE m <= k
  <2>1. k \in Nat /\ m \in Nat
    OBVIOUS
  <2>2. ~ (k < m)
    BY <1>1, <1>2, <2>1, Zenon
  <2> QED
    BY <2>1, <2>2
<1> QED
  BY <1>3

----------------------------------------------------------------------------
(* The window of packets.                                                  *)

Blocks == Packet \cup {NoBlock}

\* What a block that holds a packet is.
LEMMA ValidIsPacket ==
  ASSUME NEW b \in Blocks, IsValid(b)
  PROVE  b \in Packet /\ b.seq \in Seqs /\ b.ssrc \in Ssrcs
BY DEF Blocks, IsValid, Packet

LEMMA PacketIsValid ==
  ASSUME NEW p \in Packet
  PROVE  IsValid(p) /\ p.seq \in Seqs /\ p.ssrc \in Ssrcs
BY DataAssumption DEF IsValid, Packet

\* _adjust stops: when the back holds a packet, some block is close enough
\* to the back and valid, and the first such becomes the front.
LEMMA AdjustStops ==
  ASSUME NEW c \in Seq(Blocks), c # <<>>, IsValid(c[Len(c)])
  PROVE  /\ AdjustFrom(c) \in 1 .. Len(c)
         /\ Len(c) - AdjustFrom(c) < MaxSize
         /\ IsValid(c[AdjustFrom(c)])
         /\ \A j \in 1 .. AdjustFrom(c) - 1 : ~(Len(c) - j < MaxSize /\ IsValid(c[j]))
<1> DEFINE T == {k \in 1 .. Len(c) : Len(c) - k < MaxSize /\ IsValid(c[k])}
<1>1. Len(c) \in T /\ T \in SUBSET Nat
  BY MaxSizeAssumption
<1>2. PICK m \in T : \A k \in T : m <= k
  BY <1>1, LeastNat
<1>3. \A j \in 1 .. m - 1 : ~(Len(c) - j < MaxSize /\ IsValid(c[j]))
  BY <1>2
<1>4. \E k \in 1 .. Len(c) :
        /\ Len(c) - k < MaxSize /\ IsValid(c[k])
        /\ \A j \in 1 .. k - 1 : ~(Len(c) - j < MaxSize /\ IsValid(c[j]))
  BY <1>2, <1>3
<1> QED
  BY <1>4 DEF AdjustFrom

\* _adjust keeps the block numbering and the back, and bounds the length.
LEMMA AdjustKeepsWindow ==
  ASSUME NEW c \in Seq(Blocks), c # <<>>, IsWindow(c), Len(c) <= SeqMod
  PROVE  /\ Adjust(c) \in Seq(Blocks)
         /\ Adjust(c) # <<>>
         /\ IsWindow(Adjust(c))
         /\ Len(Adjust(c)) <= MaxSize
         /\ \A i \in 1 .. Len(Adjust(c)) : \E j \in 1 .. Len(c) : Adjust(c)[i] = c[j]
<1> DEFINE k == AdjustFrom(c)
           d == Adjust(c)
<1>1. Len(c) \in Nat \ {0} /\ IsValid(c[1]) /\ IsValid(c[Len(c)])
  BY DEF IsWindow
<1>2. k \in 1 .. Len(c) /\ Len(c) - k < MaxSize /\ IsValid(c[k])
  BY <1>1, AdjustStops
<1>3. /\ d \in Seq(Blocks) /\ Len(d) = Len(c) - k + 1
      /\ \A i \in 1 .. Len(d) : d[i] = c[i + k - 1]
  BY <1>1, <1>2 DEF Adjust
<1> HIDE DEF k, d
<1>4. Len(d) \in 1 .. Len(c) /\ Len(d) <= MaxSize
  BY <1>2, <1>3, MaxSizeAssumption
<1>5. \A i \in 1 .. Len(d) : i + k - 1 \in 1 .. Len(c)
  BY <1>2, <1>3
<1>6. IsValid(d[1]) /\ IsValid(d[Len(d)])
  <2>1. 1 \in 1 .. Len(d) /\ d[1] = c[k]
    BY <1>1, <1>2, <1>3, <1>4
  <2>2. Len(d) \in 1 .. Len(d) /\ d[Len(d)] = c[Len(c)]
    BY <1>1, <1>2, <1>3, <1>4
  <2> QED
    BY <1>1, <1>2, <2>1, <2>2
<1>7. ASSUME NEW i \in 1 .. Len(d), IsValid(d[i])
      PROVE  d[i].seq = SeqPlus(d[1].seq, i - 1)
  <2>1. c[1].seq \in Seqs
    BY <1>1, ValidIsPacket
  <2>2. d[1].seq = SeqPlus(c[1].seq, k - 1)
    <3>1. 1 \in 1 .. Len(d) /\ d[1] = c[1 + k - 1] /\ 1 + k - 1 = k
      BY <1>1, <1>2, <1>3, <1>4
    <3> QED
      BY <1>1, <1>2, <3>1 DEF IsWindow
  <2>3. d[i].seq = SeqPlus(c[1].seq, (k - 1) + (i - 1))
    <3>1. d[i] = c[i + k - 1] /\ i + k - 1 \in 1 .. Len(c)
      BY <1>3, <1>5
    <3>2. c[i + k - 1].seq = SeqPlus(c[1].seq, (i + k - 1) - 1)
      BY <1>7, <3>1 DEF IsWindow
    <3>3. (i + k - 1) - 1 = (k - 1) + (i - 1)
      BY <1>2
    <3> QED
      BY <3>1, <3>2, <3>3
  <2>4. k - 1 \in Nat /\ i - 1 \in Nat /\ (k - 1) + (i - 1) < SeqMod
    BY <1>1, <1>2, <1>3, SeqModAssumption
  <2> QED
    BY <2>1, <2>2, <2>3, <2>4, SeqPlusPlus
<1> QED
  BY <1>3, <1>4, <1>5, <1>6, <1>7 DEF IsWindow, d

----------------------------------------------------------------------------
\* The inductive invariant.  ContiguousWindow alone is not inductive: the
\* distance computed from a block needs the block's type.
IInv == TypeOK /\ ContiguousWindow /\ OneSource

LEMMA InitIInv == Init => IInv
<1> SUFFICES ASSUME Init PROVE IInv
  OBVIOUS
<1>1. cache = <<>> /\ Len(cache) = 0 /\ cache \in Seq(Packet \cup {NoBlock})
  BY DEF Init
<1>2. TypeOK
  BY <1>1 DEF Init, TypeOK
<1>3. ContiguousWindow
  BY <1>1, MaxSizeAssumption DEF ContiguousWindow, IsWindow
<1>4. OneSource
  BY <1>1 DEF OneSource
<1> QED
  BY <1>2, <1>3, <1>4 DEF IInv

LEMMA SetSdpIInv ==
  ASSUME NEW b \in BOOLEAN, IInv, SetSdp(b)
  PROVE  IInv'
BY MaxSizeAssumption DEF SetSdp, IInv, TypeOK, ContiguousWindow, IsWindow, OneSource

\* A window of one packet.
LEMMA RestartIInv ==
  ASSUME NEW p \in Packet, IInv, Restart(p)
  PROVE  IInv'
<1>1. cache' = <<p>> /\ ssrc' = p.ssrc /\ inited' = TRUE
  BY DEF Restart, Latch, IInv, TypeOK
<1>2. Len(cache') = 1 /\ cache'[1] = p /\ cache' \in Seq(Blocks)
  BY <1>1 DEF Blocks
<1>3. IsValid(p) /\ p.seq \in Seqs /\ p.ssrc \in Ssrcs
  BY PacketIsValid
<1>4. p.seq = SeqPlus(p.seq, 0)
  BY <1>3, SeqModAssumption DEF SeqPlus, Seqs
<1>5. TypeOK'
  BY <1>1, <1>2, <1>3 DEF TypeOK, Blocks
<1>6. ContiguousWindow'
  BY <1>2, <1>3, <1>4, MaxSizeAssumption DEF ContiguousWindow, IsWindow
<1>7. OneSource'
  BY <1>1, <1>2 DEF OneSource
<1> QED
  BY <1>5, <1>6, <1>7 DEF IInv

\* The padded deque, before it is trimmed, is a window.
LEMMA ExtendedIsWindow ==
  ASSUME NEW p \in Packet, IInv, cache # <<>>, IsLarge(p)
  PROVE  /\ Extended(p) \in Seq(Blocks) /\ Extended(p) # <<>>
         /\ Len(Extended(p)) <= SeqMod
         /\ IsWindow(Extended(p))
         /\ \A i \in 1 .. Len(Extended(p)) :
              \/ Extended(p)[i] \in {p, NoBlock}
              \/ \E j \in 1 .. Len(cache) : Extended(p)[i] = cache[j]
<1> DEFINE g == SeqDiff(p.seq, Back.seq)
           n == Len(cache) + g
           c == Extended(p)
<1>1. /\ cache \in Seq(Blocks) /\ Len(cache) \in 1 .. MaxSize
      /\ IsValid(Front) /\ IsValid(Back) /\ IsWindow(cache)
  BY DEF IInv, TypeOK, ContiguousWindow, IsWindow, Blocks, Front, Back
<1>2. Front.seq \in Seqs /\ Back.seq \in Seqs /\ p.seq \in Seqs /\ IsValid(p)
  BY <1>1, ValidIsPacket, PacketIsValid DEF Front, Back
<1>3. g \in 1 .. MaxSize - 1 /\ SeqPlus(Back.seq, g) = p.seq
  <2>1. g \in 0 .. SeqMod - 1 /\ SeqPlus(Back.seq, g) = p.seq
    BY <1>2, SeqDiffPlus
  <2>2. g # 0 /\ g < MaxSize
    BY <1>2, SeqModAssumption DEF IsLarge, SeqDiff, Seqs
  <2> QED
    BY <2>1, <2>2, MaxSizeAssumption, SeqModAssumption
<1>4. n \in Nat /\ n > Len(cache) /\ n < SeqMod
  BY <1>1, <1>3, MaxSizeAssumption, SeqModAssumption
<1>5. c = [i \in 1 .. n |-> IF i <= Len(cache) THEN cache[i]
                             ELSE IF i = n THEN p ELSE NoBlock]
  BY DEF Extended
<1>6. c \in Seq(Blocks) /\ Len(c) = n
  <2>1. \A i \in 1 .. n :
          (IF i <= Len(cache) THEN cache[i] ELSE IF i = n THEN p ELSE NoBlock) \in Blocks
    BY <1>1, <1>4 DEF Blocks
  <2> QED
    BY <1>4, <1>5, <2>1
<1>7. c[1] = Front /\ c[n] = p
  BY <1>1, <1>4, <1>5 DEF Front
<1>8. p.seq = SeqPlus(Front.seq, n - 1)
  <2>1. Back.seq = SeqPlus(Front.seq, Len(cache) - 1)
    BY <1>1 DEF IsWindow, Back, Front
  <2>2. Len(cache) - 1 \in Nat /\ g \in Nat /\ (Len(cache) - 1) + g < SeqMod
    BY <1>1, <1>3, MaxSizeAssumption, SeqModAssumption
  <2>3. SeqPlus(Back.seq, g) = SeqPlus(Front.seq, (Len(cache) - 1) + g)
    BY <1>2, <2>1, <2>2, SeqPlusPlus
  <2> QED
    BY <1>1, <1>3, <2>3
<1>9. ASSUME NEW i \in 1 .. n, IsValid(c[i])
      PROVE  c[i].seq = SeqPlus(Front.seq, i - 1)
  <2>1. CASE i <= Len(cache)
    BY <1>1, <1>5, <1>9, <2>1 DEF IsWindow, Front
  <2>2. CASE i = n
    BY <1>7, <1>8, <2>2
  <2>3. CASE i > Len(cache) /\ i # n
    BY <1>1, <1>5, <1>9, <2>3 DEF IsValid
  <2> QED
    BY <1>1, <2>1, <2>2, <2>3
<1>10. IsWindow(c)
  BY <1>1, <1>2, <1>6, <1>7, <1>9 DEF IsWindow
<1>11. ASSUME NEW i \in 1 .. n
       PROVE  c[i] \in {p, NoBlock} \/ \E j \in 1 .. Len(cache) : c[i] = cache[j]
  BY <1>1, <1>4, <1>5
<1> QED
  BY <1>4, <1>6, <1>10, <1>11, SeqModAssumption

LEMMA PushBackIInv ==
  ASSUME NEW p \in Packet, IInv, PushBack(p)
  PROVE  IInv'
<1>1. /\ cache # <<>> /\ IsLarge(p) /\ cache' = Adjust(Extended(p))
      /\ inited /\ inited' = inited /\ ssrc \in {0, p.ssrc} /\ ssrc' = p.ssrc
  BY DEF PushBack, Latch
<1>2. /\ Extended(p) \in Seq(Blocks) /\ Extended(p) # <<>>
      /\ Len(Extended(p)) <= SeqMod /\ IsWindow(Extended(p))
      /\ \A i \in 1 .. Len(Extended(p)) :
           \/ Extended(p)[i] \in {p, NoBlock}
           \/ \E j \in 1 .. Len(cache) : Extended(p)[i] = cache[j]
  BY <1>1, ExtendedIsWindow
<1>3. /\ cache' \in Seq(Blocks) /\ IsWindow(cache') /\ Len(cache') <= MaxSize
      /\ \A i \in 1 .. Len(cache') : \E j \in 1 .. Len(Extended(p)) :
           cache'[i] = Extended(p)[j]
  BY <1>1, <1>2, AdjustKeepsWindow
<1>4. p.ssrc \in Ssrcs /\ p.ssrc # 0
  BY PacketIsValid, DataAssumption
<1>5. ssrc = p.ssrc
  <2>1. IsValid(Front) /\ Len(cache) \in Nat \ {0} /\ Front \in Blocks
    BY <1>1 DEF IInv, TypeOK, ContiguousWindow, IsWindow, Front, Blocks
  <2>2. Front.ssrc = ssrc /\ Front.ssrc \in Ssrcs
    BY <2>1, ValidIsPacket DEF IInv, OneSource, Front
  <2> QED
    BY <1>1, <2>2, DataAssumption
<1>6. OneSource'
  BY <1>1, <1>2, <1>3, <1>5 DEF IInv, OneSource, IsValid
<1>7. TypeOK'
  BY <1>1, <1>3, <1>4 DEF IInv, TypeOK, Blocks
<1> QED
  BY <1>3, <1>6, <1>7 DEF IInv, ContiguousWindow

LEMMA FillInIInv ==
  ASSUME NEW p \in Packet, IInv, FillIn(p)
  PROVE  IInv'
<1> DEFINE x == IndexOf(p.seq)
<1>1. /\ cache # <<>> /\ inited /\ inited' = inited
      /\ ssrc \in {0, p.ssrc} /\ ssrc' = p.ssrc
      /\ x <= Len(cache)
      /\ cache' = IF IsValid(cache[x]) THEN cache ELSE [cache EXCEPT ![x] = p]
  BY DEF FillIn, Latch
<1>2. /\ cache \in Seq(Blocks) /\ Len(cache) \in 1 .. MaxSize
      /\ IsValid(Front) /\ IsValid(Back) /\ IsWindow(cache)
  BY <1>1 DEF IInv, TypeOK, ContiguousWindow, IsWindow, Blocks, Front, Back
<1>3. Front.seq \in Seqs /\ p.seq \in Seqs /\ IsValid(p) /\ Front.ssrc \in Ssrcs
  BY <1>2, ValidIsPacket, PacketIsValid DEF Front
<1>4. x \in 1 .. Len(cache) /\ p.seq = SeqPlus(Front.seq, x - 1)
  BY <1>1, <1>3, SeqDiffPlus, SeqModAssumption DEF IndexOf
<1>5. ssrc = p.ssrc /\ p.ssrc \in Ssrcs
  BY <1>1, <1>2, <1>3, PacketIsValid, DataAssumption DEF IInv, OneSource, Front
<1>6. CASE IsValid(cache[x])
  BY <1>1, <1>5, <1>6 DEF IInv, TypeOK, ContiguousWindow, OneSource
<1>7. CASE ~IsValid(cache[x])
  <2>1. /\ cache' \in Seq(Blocks) /\ Len(cache') = Len(cache)
        /\ \A i \in 1 .. Len(cache) : cache'[i] = IF i = x THEN p ELSE cache[i]
    BY <1>1, <1>2, <1>4, <1>7 DEF Blocks
  <2>2. x # 1 /\ x # Len(cache)
    BY <1>2, <1>7 DEF Front, Back
  <2>3. cache'[1] = Front /\ cache'[Len(cache')] = Back
    BY <1>2, <2>1, <2>2 DEF Front, Back
  <2>4. \A i \in 1 .. Len(cache) :
          IsValid(cache'[i]) => cache'[i].seq = SeqPlus(Front.seq, i - 1)
    BY <1>2, <1>4, <2>1 DEF IsWindow, Front
  <2>5. ContiguousWindow'
    BY <1>2, <2>1, <2>3, <2>4 DEF ContiguousWindow, IsWindow
  <2>6. OneSource'
    BY <1>1, <1>5, <2>1 DEF IInv, OneSource
  <2>7. TypeOK'
    BY <1>1, <1>5, <2>1 DEF IInv, TypeOK, Blocks
  <2> QED
    BY <2>5, <2>6, <2>7 DEF IInv
<1> QED
  BY <1>6, <1>7

LEMMA NextIInv == IInv /\ [Next]_vars => IInv'
<1> SUFFICES ASSUME IInv, [Next]_vars PROVE IInv'
  OBVIOUS
<1>1. CASE UNCHANGED vars
  BY <1>1 DEF vars, IInv, TypeOK, ContiguousWindow, OneSource
<1>2. ASSUME NEW b \in BOOLEAN, SetSdp(b) PROVE IInv'
  BY <1>2, SetSdpIInv
<1>3. ASSUME NEW p \in Packet, SetRtp(p) PROVE IInv'
  BY <1>3, RestartIInv, PushBackIInv, FillInIInv DEF SetRtp
<1> QED
  BY <1>1, <1>2, <1>3 DEF Next

----------------------------------------------------------------------------
\* The three cases of set_rtp cover the cycle, and the index of case 3 is
\* inside the deque.
LEMMA CasesAreExhaustive ==
  ASSUME IInv, cache # <<>>, NEW p \in Packet, ~IsLarge(p), ~IsFar(p)
  PROVE  IsInside(p) /\ ~(IndexOf(p.seq) > Len(cache))
<1>1. /\ cache \in Seq(Blocks) /\ Len(cache) \in 1 .. MaxSize
      /\ IsValid(Front) /\ IsValid(Back) /\ IsWindow(cache)
  BY DEF IInv, TypeOK, ContiguousWindow, IsWindow, Blocks, Front, Back
<1>2. Front.seq \in Seqs /\ Back.seq \in Seqs /\ p.seq \in Seqs
  BY <1>1, ValidIsPacket, PacketIsValid DEF Front, Back
<1>3. Back.seq = SeqPlus(Front.seq, Len(cache) - 1)
  BY <1>1 DEF IsWindow, Front, Back
<1>4. Len(cache) - 1 \in 0 .. SeqMod - 1
  BY <1>1, MaxSizeAssumption, SeqModAssumption
<1>5. SeqDiff(Back.seq, Front.seq) = Len(cache) - 1
  BY <1>2, <1>3, <1>4, SeqPlusDiff
<1>6. SeqDiff(p.seq, Front.seq) <= Len(cache) - 1
  <2>1. SeqDiff(Back.seq, Front.seq) < MaxSize /\ MaxSize \in Nat
        /\ 2 * MaxSize <= SeqMod
    BY <1>1, <1>5, MaxSizeAssumption
  <2>2. SeqPlus(Back.seq, MaxSize) \in Seqs
    BY <1>2, MaxSizeAssumption, SeqModAssumption DEF SeqPlus, Seqs
  <2>3. p.seq = Back.seq \/ SeqDiff(p.seq, Back.seq) >= MaxSize
    BY <1>2, <2>1, SeqDiffPlus DEF IsLarge
  <2>4. SeqDiff(p.seq, SeqPlus(Back.seq, MaxSize))
          >= SeqDiff(Front.seq, SeqPlus(Back.seq, MaxSize))
    BY <1>2, <2>2, SeqDiffPlus DEF IsFar
  <2> QED
    BY <1>2, <1>5, <2>1, <2>3, <2>4, ThreeArcs
<1>7. SeqDiff(p.seq, Front.seq) \in 0 .. SeqMod - 1
  BY <1>2, SeqDiffPlus
<1> QED
  BY <1>1, <1>5, <1>6, <1>7 DEF IsInside, IndexOf

\* rtp_block_cache.cpp:219 and :232, assert(0): neither is ever reached.
LEMMA IInvNoUnknownError == IInv => NoUnknownError
BY CasesAreExhaustive DEF NoUnknownError, SetRtpFails

----------------------------------------------------------------------------
\* get_by_seq, given a window: within the two bounds it checks, the index it
\* computes is in the deque unless the number is the alias.
LEMMA IndexInRange ==
  ASSUME IInv, cache # <<>>, NEW seq \in Seqs, ~IsAlias(seq),
         ~IsNewer(seq, Back.seq), ~IsNewer(Front.seq, seq)
  PROVE  IndexOf(seq) \in 1 .. Len(cache)
<1>1. /\ cache \in Seq(Blocks) /\ Len(cache) \in 1 .. MaxSize
      /\ IsValid(Front) /\ IsValid(Back) /\ IsWindow(cache)
  BY DEF IInv, TypeOK, ContiguousWindow, IsWindow, Blocks, Front, Back
<1>2. Front.seq \in Seqs /\ Back.seq \in Seqs
  BY <1>1, ValidIsPacket DEF Front, Back
<1>3. Back.seq = SeqPlus(Front.seq, Len(cache) - 1)
  BY <1>1 DEF IsWindow, Front, Back
<1>4. SeqDiff(Back.seq, Front.seq) = Len(cache) - 1
  BY <1>1, <1>2, <1>3, SeqPlusDiff, MaxSizeAssumption, SeqModAssumption
<1>5. Len(cache) - 1 < Half
  BY <1>1, MaxSizeAssumption, SeqModAssumption
<1>6. ~(Back.seq = Front.seq /\ SeqDiff(seq, Front.seq) = Half)
  <2>1. Back.seq = Front.seq => SeqDiff(Back.seq, Front.seq) = 0
    BY <1>2 DEF SeqDiff, Seqs
  <2> QED
    BY <1>1, <1>4, <2>1 DEF IsAlias
<1>7. SeqDiff(seq, Front.seq) \in 0 .. SeqMod - 1
  BY <1>2, SeqDiffPlus
<1>8. SeqDiff(seq, Front.seq) <= SeqDiff(Back.seq, Front.seq)
  BY <1>2, <1>4, <1>5, <1>6, NeitherAheadNorBehind
<1> QED
  BY <1>1, <1>4, <1>7, <1>8, SeqModAssumption DEF IndexOf

\* A number matches at most one block of a window, the one IndexOf gives.
LEMMA BlockOfNumber ==
  ASSUME IInv, NEW i \in 1 .. Len(cache), IsValid(cache[i])
  PROVE  /\ cache[i].seq \in Seqs
         /\ IndexOf(cache[i].seq) = i
         /\ SeqDiff(cache[i].seq, Front.seq) <= Len(cache) - 1
<1>1. /\ cache \in Seq(Blocks) /\ cache # <<>> /\ Len(cache) \in 1 .. MaxSize
      /\ IsValid(Front) /\ IsWindow(cache)
  BY DEF IInv, TypeOK, ContiguousWindow, IsWindow, Blocks, Front
<1>2. Front.seq \in Seqs /\ cache[i].seq \in Seqs
  BY <1>1, ValidIsPacket DEF Front
<1>3. cache[i].seq = SeqPlus(Front.seq, i - 1)
  BY <1>1 DEF IsWindow, Front
<1>4. i - 1 \in 0 .. SeqMod - 1
  BY <1>1, MaxSizeAssumption, SeqModAssumption
<1>5. SeqDiff(cache[i].seq, Front.seq) = i - 1
  BY <1>2, <1>3, <1>4, SeqPlusDiff
<1> QED
  BY <1>1, <1>2, <1>5 DEF IndexOf

\* Within the window no number is rejected as too large or too small.
LEMMA InWindowNotRejected ==
  ASSUME IInv, NEW i \in 1 .. Len(cache), IsValid(cache[i])
  PROVE  ~IsNewer(cache[i].seq, Back.seq) /\ ~IsNewer(Front.seq, cache[i].seq)
<1>1. /\ cache \in Seq(Blocks) /\ cache # <<>> /\ Len(cache) \in 1 .. MaxSize
      /\ IsValid(Front) /\ IsValid(Back) /\ IsWindow(cache)
  BY DEF IInv, TypeOK, ContiguousWindow, IsWindow, Blocks, Front, Back
<1>2. Front.seq \in Seqs /\ Back.seq \in Seqs /\ cache[i].seq \in Seqs
  BY <1>1, ValidIsPacket DEF Front, Back
<1>3. /\ cache[i].seq = SeqPlus(Front.seq, i - 1)
      /\ Back.seq = SeqPlus(Front.seq, Len(cache) - 1)
  BY <1>1 DEF IsWindow, Front, Back
<1>4. i - 1 \in 0 .. Half - 1 /\ Len(cache) - 1 \in 0 .. Half - 1 /\ i <= Len(cache)
  BY <1>1, MaxSizeAssumption, SeqModAssumption
<1> QED
  BY <1>2, <1>3, <1>4, OrderWithinHalf

\* get_by_seq returns what is held and nothing else.
LEMMA IInvReadsBack == IInv => ReadsBack
<1> SUFFICES ASSUME IInv, NEW seq \in Seqs, ~IsAlias(seq)
             PROVE  LET r == GetBySeq(seq)
                    IN  IF \E p \in Held : p.seq = seq
                          THEN r.status = "SUCCESS" /\ r.rtp \in Held /\ r.rtp.seq = seq
                          ELSE r.status \notin {"SUCCESS", "OUT_OF_RANGE", "UNKNOWN_ERROR"}
  BY DEF ReadsBack
<1>1. CASE \E p \in Held : p.seq = seq
  <2>1. PICK i \in 1 .. Len(cache) : IsValid(cache[i]) /\ cache[i].seq = seq
    BY <1>1 DEF Held, IsValid
  <2>2. IndexOf(seq) = i /\ ~IsNewer(seq, Back.seq) /\ ~IsNewer(Front.seq, seq)
    BY <2>1, BlockOfNumber, InWindowNotRejected
  <2>3. cache # <<>> /\ ~(i > Len(cache)) /\ cache[i] \in Held
    BY <2>1 DEF Held, IsValid, IInv, TypeOK
  <2>4. GetBySeq(seq) = [status |-> "SUCCESS", rtp |-> cache[i]]
    BY <2>1, <2>2, <2>3 DEF GetBySeq
  <2> QED
    BY <1>1, <2>1, <2>3, <2>4
<1>2. CASE ~(\E p \in Held : p.seq = seq)
  <2>1. CASE cache = <<>> \/ IsNewer(seq, Back.seq) \/ IsNewer(Front.seq, seq)
    BY <1>2, <2>1 DEF GetBySeq
  <2>2. CASE cache # <<>> /\ ~IsNewer(seq, Back.seq) /\ ~IsNewer(Front.seq, seq)
    <3>1. IndexOf(seq) \in 1 .. Len(cache) /\ Len(cache) \in Nat
      BY <2>2, IndexInRange DEF IInv, TypeOK
    <3>2. ~IsValid(cache[IndexOf(seq)])
      <4> SUFFICES ASSUME IsValid(cache[IndexOf(seq)]) PROVE FALSE
        OBVIOUS
      <4>1. cache[IndexOf(seq)].seq \in Seqs
            /\ IndexOf(cache[IndexOf(seq)].seq) = IndexOf(seq)
        BY <3>1, BlockOfNumber
      <4>2. Front.seq \in Seqs
        BY <2>2, ValidIsPacket DEF IInv, TypeOK, ContiguousWindow, IsWindow, Blocks, Front
      <4>3. cache[IndexOf(seq)].seq = seq
        BY <4>1, <4>2, SameDistance DEF IndexOf
      <4> QED
        BY <1>2, <3>1, <4>3 DEF Held, IsValid
    <3>3. GetBySeq(seq) = [status |-> "NO_THIS_SEQ"]
      BY <2>2, <3>1, <3>2 DEF GetBySeq
    <3> QED
      BY <1>2, <3>3
  <2> QED
    BY <2>1, <2>2
<1> QED
  BY <1>1, <1>2

----------------------------------------------------------------------------
(* The deque implements the abstract window (RtpWindow).                   *)

BackPacket == IF cache = <<>> THEN NoBlock ELSE Back

\* The serial arithmetic of the abstract window is that of the deque.
LEMMA SameArithmetic ==
  /\ \A a, b \in Seqs : Window!SeqDiff(a, b) = SeqDiff(a, b)
  /\ \A q : Window!Age(q) = Window!SeqDiff(BackPacket.seq, q)
BY DEF Window!SeqDiff, SeqDiff, Window!Age, BackPacket

\* The packets held are the valid blocks; the age of one is its place from
\* the back.
LEMMA HeldAges ==
  ASSUME IInv, cache # <<>>
  PROVE  /\ Back.seq \in Seqs /\ Front.seq \in Seqs /\ Len(cache) \in 1 .. MaxSize
         /\ Front \in Held /\ BackPacket = Back
         /\ SeqDiff(Back.seq, Front.seq) = Len(cache) - 1
         /\ \A i \in 1 .. Len(cache) : IsValid(cache[i]) =>
              /\ cache[i] \in Held /\ cache[i].seq \in Seqs
              /\ SeqDiff(Back.seq, cache[i].seq) = Len(cache) - i
         /\ \A q \in Held : \E i \in 1 .. Len(cache) : IsValid(cache[i]) /\ q = cache[i]
<1>1. /\ cache \in Seq(Blocks) /\ Len(cache) \in 1 .. MaxSize
      /\ IsValid(Front) /\ IsValid(Back) /\ IsWindow(cache)
  BY DEF IInv, TypeOK, ContiguousWindow, IsWindow, Blocks, Front, Back
<1>2. Front.seq \in Seqs /\ Back.seq \in Seqs
  BY <1>1, ValidIsPacket DEF Front, Back
<1>3. Back.seq = SeqPlus(Front.seq, Len(cache) - 1)
  BY <1>1 DEF IsWindow, Front, Back
<1>4. Len(cache) - 1 \in 0 .. SeqMod - 1
  BY <1>1, MaxSizeAssumption, SeqModAssumption
<1>5. ASSUME NEW i \in 1 .. Len(cache), IsValid(cache[i])
      PROVE  /\ cache[i] \in Held /\ cache[i].seq \in Seqs
             /\ SeqDiff(Back.seq, cache[i].seq) = Len(cache) - i
  <2>1. cache[i] \in Held /\ cache[i].seq \in Seqs
    BY <1>1, <1>5, ValidIsPacket DEF Held, IsValid
  <2>2. cache[i].seq = SeqPlus(Front.seq, i - 1)
    BY <1>1, <1>5 DEF IsWindow, Front
  <2>3. i - 1 \in 0 .. Len(cache) - 1 /\ (Len(cache) - 1) - (i - 1) = Len(cache) - i
    BY <1>1
  <2>4. SeqDiff(Back.seq, cache[i].seq) = (Len(cache) - 1) - (i - 1)
    BY <1>2, <1>3, <1>4, <2>2, <2>3, DistanceOfSteps
  <2> QED
    BY <2>1, <2>3, <2>4
<1>6. 1 \in 1 .. Len(cache) /\ IsValid(cache[1])
  BY <1>1 DEF Front
<1>7. Front \in Held /\ SeqDiff(Back.seq, Front.seq) = Len(cache) - 1
  BY <1>5, <1>6 DEF Front
<1>8. \A q \in Held : \E i \in 1 .. Len(cache) : IsValid(cache[i]) /\ q = cache[i]
  BY DEF Held, IsValid
<1> QED
  BY <1>1, <1>2, <1>5, <1>7, <1>8 DEF BackPacket

\* abs() of the difference on 32 bits is the distance on the circle: the
\* timestamp test of set_rtp is that of the abstract window.
LEMMA JumpIsFarInTime ==
  ASSUME IInv, cache # <<>>, NEW p \in Packet
  PROVE  TimestampJump(Back.ts, p.ts) <=> Window!FarInTime(p)
<1>1. IsValid(Back) /\ Back \in Blocks
  BY DEF IInv, TypeOK, ContiguousWindow, IsWindow, Blocks, Back
<1>2. Back.ts \in 0 .. TsMod - 1 /\ p.ts \in 0 .. TsMod - 1
  BY <1>1, ValidIsPacket, DataAssumption DEF Packet
<1>3. TsMod \in Nat /\ TsJump \in Nat \ {0}
  BY DataAssumption
<1>4. BackPacket = Back
  BY DEF BackPacket
<1> QED
  BY <1>2, <1>3, <1>4 DEF TimestampJump, Window!FarInTime, BackPacket

\* Case 2 of set_rtp: ahead of the window and older than all of it.
LEMMA FarIsFarInSequence ==
  ASSUME IInv, cache # <<>>, NEW p \in Packet, ~IsLarge(p), IsFar(p)
  PROVE  Window!FarInSequence(p)
<1>1. p.seq \in Seqs /\ BackPacket = Back /\ Back.seq \in Seqs /\ Front.seq \in Seqs
  BY HeldAges, PacketIsValid
<1>2. /\ SeqDiff(Back.seq, Front.seq) < MaxSize /\ MaxSize \in Nat \ {0}
      /\ 2 * MaxSize <= SeqMod
  BY HeldAges, MaxSizeAssumption
<1>3. p.seq = Back.seq \/ SeqDiff(p.seq, Back.seq) >= MaxSize
  BY <1>1, <1>2, SeqDiffPlus DEF IsLarge
<1>4. /\ SeqDiff(p.seq, Back.seq) >= MaxSize
      /\ SeqDiff(Back.seq, p.seq) > SeqDiff(Back.seq, Front.seq)
  BY <1>1, <1>2, <1>3, SecondArc DEF IsFar
<1>5. ASSUME NEW q \in Held PROVE Window!Age(q.seq) < Window!Age(p.seq)
  <2>1. PICK i \in 1 .. Len(cache) : IsValid(cache[i]) /\ q = cache[i]
    BY HeldAges
  <2>2. q.seq \in Seqs /\ SeqDiff(Back.seq, q.seq) = Len(cache) - i
    BY <2>1, HeldAges
  <2>3. Len(cache) - i <= Len(cache) - 1 /\ Len(cache) \in Nat
    BY <2>1, HeldAges
  <2>4. SeqDiff(Back.seq, p.seq) \in Int
    BY <1>1, SeqDiffPlus
  <2>5. SeqDiff(Back.seq, q.seq) < SeqDiff(Back.seq, p.seq)
    BY <1>4, <2>2, <2>3, <2>4, HeldAges
  <2> QED
    BY <1>1, <2>2, <2>5, SameArithmetic
<1> QED
  BY <1>1, <1>4, <1>5, SameArithmetic
     DEF Window!FarInSequence, Window!OlderThanAll, BackPacket

\* A window restarted: empty, far in time, or far in sequence.
LEMMA RestartRefines ==
  ASSUME IInv, NEW p \in Packet, Restart(p)
  PROVE  Window!Restart(p)
<1>1. cache' = <<p>> /\ inited /\ inited' = inited
  BY DEF Restart, Latch
<1>2. Held' = {p} /\ BackPacket' = p
  <2>1. IsValid(p)
    BY PacketIsValid
  <2>2. Len(cache') = 1 /\ cache'[1] = p /\ cache' # <<>>
    BY <1>1
  <2> QED
    BY <2>1, <2>2 DEF Held, BackPacket, Back, IsValid
<1>3. Held # {} => cache # <<>>
  BY DEF Held
<1>4. cache # <<>> => Window!FarInTime(p) \/ Window!FarInSequence(p)
  BY JumpIsFarInTime, FarIsFarInSequence DEF Restart
<1> QED
  BY <1>1, <1>2, <1>3, <1>4 DEF Window!Restart, BackPacket

\* Padding and _adjust together drop exactly what is _max_size or more behind
\* the new packet.
LEMMA PushBackRefines ==
  ASSUME IInv, NEW p \in Packet, PushBack(p)
  PROVE  Window!Advance(p)
<1> DEFINE c == Extended(p)
           n == Len(c)
           k == AdjustFrom(c)
           g == SeqDiff(p.seq, Back.seq)
<1>1. /\ cache # <<>> /\ IsLarge(p) /\ ~TimestampJump(Back.ts, p.ts)
      /\ cache' = Adjust(c) /\ inited /\ inited' = inited
  BY DEF PushBack, Latch
<1>2. /\ p.seq \in Seqs /\ IsValid(p) /\ BackPacket = Back /\ Back.seq \in Seqs
      /\ Len(cache) \in 1 .. MaxSize /\ MaxSize \in Nat
  BY <1>1, HeldAges, PacketIsValid, MaxSizeAssumption
<1>3. g \in Nat /\ p.seq # Back.seq /\ g < MaxSize /\ g > 0
  BY <1>1, <1>2, SeqModAssumption DEF IsLarge, SeqDiff, Seqs
<1>4. /\ c \in Seq(Blocks) /\ c # <<>> /\ n = Len(cache) + g /\ n \in Nat
      /\ \A i \in 1 .. n : c[i] = IF i <= Len(cache) THEN cache[i]
                                  ELSE IF i = n THEN p ELSE NoBlock
  <2>1. c \in Seq(Blocks) /\ c # <<>>
    BY <1>1, ExtendedIsWindow
  <2>2. c = [i \in 1 .. Len(cache) + g |-> IF i <= Len(cache) THEN cache[i]
                             ELSE IF i = Len(cache) + g THEN p ELSE NoBlock]
    BY DEF Extended
  <2>3. Len(cache) + g \in Nat /\ n = Len(cache) + g
    BY <1>2, <1>3, <2>2
  <2> QED
    BY <2>1, <2>2, <2>3
<1>5. c[n] = p /\ n \in 1 .. n /\ IsWindow(c) /\ n <= SeqMod
  BY <1>1, <1>2, <1>3, <1>4, ExtendedIsWindow
<1>6. /\ k \in 1 .. n /\ n - k < MaxSize /\ IsValid(c[k])
      /\ \A j \in 1 .. k - 1 : ~(n - j < MaxSize /\ IsValid(c[j]))
  BY <1>2, <1>4, <1>5, AdjustStops
<1>7. /\ Len(cache') = n - k + 1 /\ Len(cache') \in Nat \ {0} /\ cache' # <<>>
      /\ \A i \in 1 .. n - k + 1 : cache'[i] = c[i + k - 1]
  <2>1. cache' = SubSeq(c, k, n)
    BY <1>1 DEF Adjust
  <2>2. k \in Int /\ n \in Int /\ 1 <= k /\ k <= n
    BY <1>4, <1>6
  <2> QED
    BY <1>4, <2>1, <2>2
<1> HIDE DEF c, n, k, g
\* The numbers of the blocks: block j is n - j behind p.
<1>8. ASSUME NEW j \in 1 .. n, IsValid(c[j])
      PROVE  c[j].seq \in Seqs /\ SeqDiff(p.seq, c[j].seq) = n - j
  <2>1. c[1].seq \in Seqs /\ c[j].seq \in Seqs
    <3>1. 1 \in 1 .. n /\ c[1] \in Blocks /\ c[j] \in Blocks /\ n = Len(c)
      BY <1>4, <1>5 DEF n
    <3>2. IsValid(c[1])
      BY <1>4, <1>5 DEF IsWindow
    <3> QED
      BY <1>8, <3>1, <3>2, ValidIsPacket
  <2>2. c[j].seq = SeqPlus(c[1].seq, j - 1) /\ p.seq = SeqPlus(c[1].seq, n - 1)
    BY <1>2, <1>4, <1>5, <1>8 DEF IsWindow, n
  <2>3. n - 1 \in 0 .. SeqMod - 1 /\ j - 1 \in 0 .. n - 1 /\ (n - 1) - (j - 1) = n - j
    BY <1>4, <1>5, SeqModAssumption
  <2>4. SeqDiff(p.seq, c[j].seq) = (n - 1) - (j - 1)
    BY <2>1, <2>2, <2>3, DistanceOfSteps
  <2> QED
    BY <2>1, <2>3, <2>4
<1>9. BackPacket' = p
  <2>1. (n - k + 1) + k - 1 = n /\ n - k + 1 \in 1 .. n - k + 1
    <3>1. n \in Int /\ k \in Int /\ k <= n
      BY <1>4, <1>6
    <3> QED
      BY <3>1
  <2>2. cache'[n - k + 1] = p
    BY <1>5, <1>7, <2>1
  <2> QED
    BY <1>7, <2>2 DEF BackPacket, Back
\* What is held then are the valid blocks from k on.
<1>10. Held' = {c[j] : j \in k .. n} \ {NoBlock}
  <2>1. \A i \in 1 .. n - k + 1 : i + k - 1 \in k .. n
    BY <1>4, <1>6
  <2>2. \A j \in k .. n : j - k + 1 \in 1 .. n - k + 1 /\ (j - k + 1) + k - 1 = j
    BY <1>4, <1>6
  <2>3. {cache'[i] : i \in 1 .. n - k + 1} = {c[j] : j \in k .. n}
    BY <1>7, <2>1, <2>2
  <2> QED
    BY <1>7, <2>3 DEF Held
<1>11. Held' = {q \in Held : SeqDiff(p.seq, q.seq) < MaxSize} \cup {p}
  <2>1. ASSUME NEW q \in Held'
        PROVE  q = p \/ (q \in Held /\ SeqDiff(p.seq, q.seq) < MaxSize)
    <3>1. PICK j \in k .. n : q = c[j] /\ IsValid(c[j])
      BY <1>10, <2>1 DEF IsValid
    <3>2. j \in 1 .. n /\ n - j < MaxSize
      BY <1>2, <1>4, <1>6, <3>1
    <3>3. SeqDiff(p.seq, q.seq) < MaxSize
      BY <1>8, <3>1, <3>2
    <3>4. q = p \/ q \in Held
      <4>1. CASE j <= Len(cache)
        <5>1. j \in 1 .. Len(cache) /\ q = cache[j]
          BY <1>2, <1>4, <3>1, <3>2, <4>1
        <5> QED
          BY <3>1, <5>1 DEF Held, IsValid
      <4>2. CASE ~(j <= Len(cache))
        BY <1>4, <3>1, <3>2, <4>2 DEF IsValid
      <4> QED
        BY <4>1, <4>2
    <3> QED
      BY <3>3, <3>4
  <2>2. p \in Held'
    BY <1>2, <1>4, <1>5, <1>6, <1>10 DEF IsValid
  <2>3. ASSUME NEW q \in Held, SeqDiff(p.seq, q.seq) < MaxSize
        PROVE  q \in Held'
    <3>1. PICK j \in 1 .. Len(cache) : IsValid(cache[j]) /\ q = cache[j]
      BY <2>3 DEF Held, IsValid
    <3>2. j \in 1 .. n /\ c[j] = cache[j]
      BY <1>2, <1>3, <1>4, <3>1
    <3>3. n - j < MaxSize /\ IsValid(c[j])
      BY <1>8, <2>3, <3>1, <3>2
    <3>4. j \in k .. n
      BY <1>4, <1>6, <3>2, <3>3
    <3> QED
      BY <1>10, <3>1, <3>2, <3>3, <3>4 DEF IsValid
  <2> QED
    BY <2>1, <2>2, <2>3
<1>12. \A q \in Held : q.seq \in Seqs
  BY <1>1, HeldAges
<1>13. Held' = {q \in Held : Window!SeqDiff(p.seq, q.seq) < MaxSize} \cup {p}
  BY <1>2, <1>11, <1>12, SameArithmetic
<1>14. Held # {} /\ ~Window!FarInTime(p)
  BY <1>1, HeldAges, JumpIsFarInTime
<1>15. p.seq # BackPacket.seq /\ Window!SeqDiff(p.seq, BackPacket.seq) < MaxSize
  BY <1>2, <1>3, SameArithmetic DEF g
<1> QED
  BY <1>1, <1>9, <1>13, <1>14, <1>15 DEF Window!Advance, BackPacket

\* _fill_in: a gap is filled, what is there stays, and the back is not touched.
LEMMA FillInRefines ==
  ASSUME IInv, NEW p \in Packet, FillIn(p)
  PROVE  Window!Fill(p)
<1> DEFINE x == IndexOf(p.seq)
<1>1. /\ cache # <<>> /\ inited /\ inited' = inited
      /\ ~TimestampJump(Back.ts, p.ts) /\ IsInside(p) /\ x <= Len(cache)
      /\ cache' = IF IsValid(cache[x]) THEN cache ELSE [cache EXCEPT ![x] = p]
  BY DEF FillIn, Latch
<1>2. /\ p.seq \in Seqs /\ IsValid(p) /\ BackPacket = Back /\ Back.seq \in Seqs
      /\ Front.seq \in Seqs /\ Front \in Held
      /\ Len(cache) \in 1 .. MaxSize /\ cache \in Seq(Blocks)
      /\ IsValid(Back)
  BY <1>1, HeldAges, PacketIsValid
     DEF IInv, TypeOK, Blocks, ContiguousWindow, IsWindow, Back
<1>3. ~Window!OlderThanAll(p)
  <2>1. SeqDiff(Back.seq, p.seq) <= SeqDiff(Back.seq, Front.seq)
    BY <1>1, <1>2, ThirdArc DEF IsInside
  <2>2. ~(SeqDiff(Back.seq, Front.seq) < SeqDiff(Back.seq, p.seq))
    BY <1>2, <2>1, SeqDiffPlus
  <2> QED
    BY <1>2, <2>2, SameArithmetic DEF Window!OlderThanAll
<1>4. ~Window!FarInTime(p) /\ Held # {}
  BY <1>1, <1>2, JumpIsFarInTime
<1>5. x \in 1 .. Len(cache) /\ p.seq = SeqPlus(Front.seq, x - 1)
  BY <1>1, <1>2, SeqDiffPlus, SeqModAssumption DEF IndexOf
<1>6. CASE IsValid(cache[x])
  <2>1. cache' = cache /\ Held' = Held /\ BackPacket' = BackPacket
    BY <1>1, <1>6 DEF Held, BackPacket, Back
  <2>2. cache[x] \in Held /\ cache[x].seq = p.seq
    BY <1>2, <1>5, <1>6 DEF Held, IsValid, IInv, ContiguousWindow, IsWindow, Front
  <2> QED
    BY <1>1, <1>3, <1>4, <2>1, <2>2 DEF Window!Fill, BackPacket
<1>7. CASE ~IsValid(cache[x])
  <2>1. /\ Len(cache') = Len(cache) /\ cache' # <<>>
        /\ \A i \in 1 .. Len(cache) : cache'[i] = IF i = x THEN p ELSE cache[i]
    BY <1>1, <1>2, <1>5, <1>7
  <2>2. x # Len(cache) /\ Len(cache) \in 1 .. Len(cache)
    BY <1>2, <1>7 DEF Back
  <2>3. BackPacket' = BackPacket
    BY <1>1, <2>1, <2>2 DEF BackPacket, Back
  <2>4. Held' = Held \cup {p}
    <3>1. ASSUME NEW i \in 1 .. Len(cache), IsValid(cache'[i])
          PROVE  cache'[i] \in Held \cup {p}
      BY <2>1, <3>1 DEF Held, IsValid
    <3>2. ASSUME NEW i \in 1 .. Len(cache), IsValid(cache[i])
          PROVE  cache'[i] = cache[i]
      BY <1>7, <2>1, <3>2
    <3>3. cache'[x] = p
      BY <1>5, <2>1
    <3>4. Held' = {cache'[i] : i \in 1 .. Len(cache)} \ {NoBlock}
      BY <2>1 DEF Held
    <3>5. p # NoBlock
      BY <1>2 DEF IsValid
    <3>6. Held' \subseteq Held \cup {p}
      BY <3>1, <3>4 DEF IsValid
    <3>7. Held \cup {p} \subseteq Held'
      BY <1>5, <3>2, <3>3, <3>4, <3>5 DEF Held, IsValid
    <3> QED
      BY <3>6, <3>7
  <2>5. ~(\E q \in Held : q.seq = p.seq)
    <3> SUFFICES ASSUME NEW i \in 1 .. Len(cache), IsValid(cache[i]),
                        cache[i].seq = p.seq
                 PROVE  FALSE
      BY DEF Held, IsValid
    <3>1. IndexOf(cache[i].seq) = i
      BY BlockOfNumber
    <3> QED
      BY <1>7, <3>1
  <2> QED
    BY <1>1, <1>3, <1>4, <2>3, <2>4, <2>5 DEF Window!Fill, BackPacket
<1> QED
  BY <1>6, <1>7

\* Every step of the deque is a step of the abstract window or none.
LEMMA StepsRefine ==
  ASSUME IInv, [Next]_vars
  PROVE  [Window!Next]_(Window!window)
<1>1. CASE UNCHANGED vars
  BY <1>1 DEF vars, Window!window, Held, Back
<1>2. ASSUME NEW b \in BOOLEAN, SetSdp(b) PROVE Window!Next
  <2>1. inited' = b /\ Held' = {} /\ BackPacket' = NoBlock
    BY <1>2 DEF SetSdp, Held, BackPacket
  <2>2. Window!Reopen(b)
    BY <2>1 DEF Window!Reopen, BackPacket
  <2> QED
    BY <2>2 DEF Window!Next
<1>3. ASSUME NEW p \in Packet, SetRtp(p) PROVE Window!Next
  BY <1>3, RestartRefines, PushBackRefines, FillInRefines DEF SetRtp, Window!Next
<1> QED
  BY <1>1, <1>2, <1>3 DEF Next

----------------------------------------------------------------------------
\* Every behaviour of the cache keeps the inductive invariant.
LEMMA SpecIInv == Spec => []IInv
BY InitIInv, NextIInv, PTL DEF Spec

\* The fields of the cache always have their types.
THEOREM CacheTypeOK == Spec => []TypeOK
<1>1. IInv => TypeOK
  BY DEF IInv
<1> QED
  BY <1>1, SpecIInv, PTL

\* Front and back always hold packets, block i holds number front + i - 1, and
\* the window never exceeds _max_size, whatever packets arrive in any order.
THEOREM CacheContiguousWindow == Spec => []ContiguousWindow
<1>1. IInv => ContiguousWindow
  BY DEF IInv
<1> QED
  BY <1>1, SpecIInv, PTL

\* The asserted "unknown error" of set_rtp and _fill_in is unreachable for
\* every window of at most half the numbers.
THEOREM CacheNoUnknownError == Spec => []NoUnknownError
BY IInvNoUnknownError, SpecIInv, PTL

\* Packets of two sources are never mixed in one window.
THEOREM CacheOneSource == Spec => []OneSource
<1>1. IInv => OneSource
  BY DEF IInv
<1> QED
  BY <1>1, SpecIInv, PTL

\* A NACK is answered with the packet of that number whenever the cache holds
\* it, and with nothing else; only the antipode of a one-packet window is
\* outside what get_by_seq checks.
THEOREM CacheReadsBack == Spec => []ReadsBack
BY IInvReadsBack, SpecIInv, PTL

\* The deque implements the abstract window: what is less than _max_size
\* behind the newest packet stays readable, what is further behind goes, and
\* the cache starts again only when a packet is far in time or in sequence.
THEOREM CacheImplementsWindow == Spec => ImplementsWindow
<1>1. Init => Window!Init
  BY DEF Init, Window!Init, Held
<1>2. IInv /\ [Next]_vars => [Window!Next]_(Window!window)
  BY StepsRefine
<1> QED
  BY <1>1, <1>2, SpecIInv, PTL DEF Spec, ImplementsWindow, Window!Spec
=============================================================================
