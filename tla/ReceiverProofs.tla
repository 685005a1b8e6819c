--------------------------- MODULE ReceiverProofs ---------------------------
(***************************************************************************)
(* What the receiver session of a stream does with packets that are not    *)
(* media, for every value of the constants.                                *)
(*                                                                         *)
(* FEC: no FEC packet is kept that could recover a packet now, and what is  *)
(* recovered is the packet that was sent, as long as the history of the     *)
(* receiver is not emptied and a sender with a grid lacks no packet.  The   *)
(* recursion of OnRecvRtp is followed with a set its steps stay in          *)
(* (TakenAllIs).                                                            *)
(*                                                                         *)
(* RTCP: the reader stays inside the packet and comes to an end, for every *)
(* sequence of words that is not longer than memory: the counts and        *)
(* lengths in it are arbitrary.  The invariant is StaysInside with the     *)
(* type of the parser's fields; what each action does to them is stated    *)
(* once (Moves) and both results follow from it.                           *)
(*                                                                         *)
(* And what is read is what was written.  The words of a packet are those  *)
(* of its blocks one behind another (Laid); the reader is between two      *)
(* blocks or at an item of one (In), and what it has noted is what the     *)
(* blocks and items behind it are to add (ReadSoFar).  The lists of        *)
(* numbers and the bits of a rate have lemmas of their own (ListIs,        *)
(* RateIsNear).                                                            *)
(***************************************************************************)
EXTENDS FecRecovery, Rtcp, FiniteSetTheorems, SequenceTheorems, WellFoundedInduction,
        TLAPS

----------------------------------------------------------------------------
(* The receiver and its steps.                                             *)

Wires == 0 .. NumMod - 1

Packets == [seq : Wires, content : SUBSET Numbers]

FecPackets == [type : {"mask", "grid"}, seq : Wires, covered : SUBSET Wires,
               content : SUBSET Numbers]

Receivers ==
  [history : SUBSET Wires, last : Nat, cache : SUBSET Packets, newest : Int,
   pending : Seq(FecPackets), forwarded : SUBSET Packets, recovered : SUBSET Packets]

\* None of the FEC packets that wait recovers a packet.
Quiet(r) == \A i \in 1 .. Len(r.pending) : ~Recovers(r, r.pending[i])

\* r and what it goes on with: one packet or none.
Load(x) ==
  /\ x \in [r : Receivers, found : Seq(Packets), buffer : Seq(Packets)]
  /\ x.found = << >> \/ \E p \in Packets : x.found = <<p>>

\* The order of the naturals is well-founded.
LEMMA NatOrder ==
  \E R : IsWellFoundedOn(R, Nat) /\ \A x, y \in Nat : <<y, x>> \in R <=> y < x
<1>1. IsWellFoundedOn(OpToRel(<, Nat), Nat)
  BY NatLessThanWellFounded
<1>2. \A x, y \in Nat : <<y, x>> \in OpToRel(<, Nat) <=> y < x
  BY DEF OpToRel
<1> QED
  BY <1>1, <1>2, Zenon

\* A set of naturals has a least element: where a loop stops.
LEMMA LeastNat ==
  ASSUME NEW T \in SUBSET Nat, T # {}
  PROVE  \E m \in T : \A k \in T : m <= k
<1>1. PICK R : IsWellFoundedOn(R, Nat)
               /\ \A x, y \in Nat : <<y, x>> \in R <=> y < x
  BY NatOrder
<1>2. PICK m \in T : \A y \in T : ~ (<<y, m>> \in R)
  BY <1>1, WFMin, Zenon
<1>3. ASSUME NEW k \in T PROVE m <= k
  <2>1. k \in Nat /\ m \in Nat
    OBVIOUS
  <2>2. ~ (k < m)
    BY <1>1, <1>2, <2>1, Zenon
  <2> QED
    BY <2>1, <2>2
<1> QED
  BY <1>3

\* The first of the hits of a loop is one of them.
LEMMA MinIs ==
  ASSUME NEW S \in SUBSET Nat, S # {}
  PROVE  Min(S) \in S /\ \A k \in S : Min(S) <= k
<1>1. \E m \in S : \A k \in S : m <= k
  BY LeastNat
<1> QED
  BY <1>1 DEF Min

\* Sets of numbers on the wire are finite.
LEMMA FewWires ==
  ASSUME NEW S \in SUBSET Wires
  PROVE  IsFiniteSet(S) /\ Cardinality(S) \in Nat
<1>1. IsFiniteSet(Wires)
  <2>1. 0 \in Int /\ NumMod - 1 \in Int
    BY FecAssumption
  <2> QED
    BY <2>1, FS_Interval, Zenon DEF Wires
<1> QED
  BY <1>1, FS_Subset, FS_CardinalityType

\* What is recovered is the one packet that is missing.
LEMMA RecoveredIs ==
  ASSUME NEW r \in Receivers, NEW f \in FecPackets, Recovers(r, f)
  PROVE  /\ Recovered(r, f) \in Packets
         /\ Missing(r, f) = {Recovered(r, f).seq}
         /\ Recovered(r, f).content = Xor(r, f)
<1>1. Missing(r, f) \subseteq Wires
  BY DEF Missing, FecPackets
<1>2. PICK s : Missing(r, f) = {s}
  BY <1>1, FewWires, FS_Singleton DEF Recovers
<1>3. (CHOOSE e \in Missing(r, f) : TRUE) = s
  BY <1>2
<1>4. Xor(r, f) \subseteq Numbers
  BY DEF Xor
<1> QED
  BY <1>1, <1>2, <1>3, <1>4 DEF Recovered, Packets

\* A packet comes into the cache, and others may leave it.
LEMMA CachedIs ==
  ASSUME NEW r \in Receivers, NEW p \in Packets
  PROVE  LET s == Cached(r, p)
         IN  /\ s \in Receivers
             /\ s.cache \subseteq r.cache \cup {p}
             /\ s = [r EXCEPT !.newest = s.newest, !.cache = s.cache]
<1> DEFINE ahead == (p.seq - r.newest) % NumMod
           n == IF r.newest = -1 \/ ahead < NumMod \div 2 THEN p.seq ELSE r.newest
           all == IF p.seq \in Seqs(r.cache) THEN r.cache ELSE r.cache \cup {p}
           c == {q \in all : (n - q.seq) % NumMod < CacheSize}
           s == [r EXCEPT !.newest = n, !.cache = c]
<1>1. Cached(r, p) = s
  BY DEF Cached
<1>2. n \in Int /\ c \subseteq r.cache \cup {p} /\ c \subseteq Packets
  BY DEF Receivers, Packets, Wires
<1> HIDE DEF n, c
<1>3. s \in Receivers /\ s.newest = n /\ s.cache = c
  <2> HIDE DEF Packets, FecPackets, Wires
  <2> QED
    BY <1>2 DEF Receivers
<1> QED
  BY <1>1, <1>2, <1>3

----------------------------------------------------------------------------
(* A loop over the FEC packets that wait.                                  *)

Stays(r, seq, stop, i) ==
  \/ i > stop
  \/ /\ i < stop
     /\ ~Outdated(r.pending[i], seq) /\ ~Useless(r, r.pending[i])

\* The loop after n of them.
IsLeft(f, r, seq, stop, n) ==
  f = [i \in 0 .. n |->
         IF i = 0 THEN << >>
         ELSE IF Stays(r, seq, stop, i) THEN Append(f[i - 1], r.pending[i]) ELSE f[i - 1]]

\* The recursive function of Left exists: there is no shortest loop that cannot
\* be made a step longer.
LEMMA LeftExists ==
  ASSUME NEW r, NEW seq, NEW stop, NEW n \in Nat
  PROVE  \E f : IsLeft(f, r, seq, stop, n)
<1> DEFINE T == {k \in Nat : ~\E f : IsLeft(f, r, seq, stop, k)}
           Step(i, q) == IF Stays(r, seq, stop, i) THEN Append(q, r.pending[i]) ELSE q
<1> SUFFICES ASSUME T # {} PROVE FALSE
  OBVIOUS
<1>0. ASSUME NEW f, NEW k
      PROVE  IsLeft(f, r, seq, stop, k) <=>
               f = [i \in 0 .. k |-> IF i = 0 THEN << >> ELSE Step(i, f[i - 1])]
  BY DEF IsLeft
<1> HIDE DEF Step
<1>1. PICK m \in T : \A k \in T : m <= k
  BY LeastNat
<1>2. CASE m = 0
  <2> DEFINE f == [i \in 0 .. 0 |-> << >>]
  <2>1. f = [i \in 0 .. 0 |-> IF i = 0 THEN << >> ELSE Step(i, f[i - 1])]
    OBVIOUS
  <2> QED
    BY <1>0, <1>1, <1>2, <2>1
<1>3. CASE m # 0
  <2>1. m \in Nat /\ m - 1 \in Nat /\ m - 1 \notin T
    BY <1>1, <1>3
  <2>2. PICK g : g = [i \in 0 .. m - 1 |-> IF i = 0 THEN << >> ELSE Step(i, g[i - 1])]
    BY <1>0, <2>1
  <2> DEFINE f == [i \in 0 .. m |-> IF i = m THEN Step(m, g[m - 1]) ELSE g[i]]
             h == [i \in 0 .. m |-> IF i = 0 THEN << >> ELSE Step(i, f[i - 1])]
  <2>3. \A i \in 0 .. m - 1 : g[i] = IF i = 0 THEN << >> ELSE Step(i, g[i - 1])
    BY <2>2
  <2>4. ASSUME NEW i \in 0 .. m PROVE f[i] = h[i]
    <3>1. CASE i = m
      <4>1. m - 1 \in 0 .. m /\ m - 1 # m
        BY <2>1
      <4> QED
        BY <1>3, <3>1, <4>1
    <3>2. CASE i # m /\ i # 0
      <4>1. i \in 0 .. m - 1 /\ i - 1 \in 0 .. m /\ i - 1 # m
        BY <2>1, <3>2
      <4> QED
        BY <2>3, <3>2, <4>1
    <3>3. CASE i # m /\ i = 0
      <4>1. 0 \in 0 .. m - 1
        BY <2>1, <1>3
      <4> QED
        BY <2>3, <3>3, <4>1
    <3> QED
      BY <3>1, <3>2, <3>3
  <2>5. f = h
    BY <2>4
  <2> QED
    BY <1>0, <1>1, <2>5
<1> QED
  BY <1>2, <1>3

\* What is left are FEC packets that waited and stay, less the one the loop
\* stopped at.
LEMMA LeftIs ==
  ASSUME NEW r \in Receivers, NEW seq, NEW stop \in Nat \ {0}
  PROVE  LET q == Left(r, seq, stop)
             n == Len(r.pending)
         IN  /\ q \in Seq(FecPackets) /\ Len(q) <= n
             /\ stop <= n => Len(q) < n
             /\ \A k \in 1 .. Len(q) :
                  \E j \in 1 .. n : q[k] = r.pending[j] /\ Stays(r, seq, stop, j)
<1> DEFINE n == Len(r.pending)
           f == CHOOSE g : IsLeft(g, r, seq, stop, n)
<1>1. r.pending \in Seq(FecPackets) /\ n \in Nat
  BY DEF Receivers
<1>2. IsLeft(f, r, seq, stop, n)
  BY <1>1, LeftExists
<1>3. Left(r, seq, stop) = f[n]
  BY DEF Left, IsLeft, Stays
<1> HIDE DEF f
<1>4. \A i \in 0 .. n :
        f[i] = IF i = 0 THEN << >>
               ELSE IF Stays(r, seq, stop, i) THEN Append(f[i - 1], r.pending[i]) ELSE f[i - 1]
  BY <1>2 DEF IsLeft
<1> DEFINE P(i) == /\ f[i] \in Seq(FecPackets) /\ Len(f[i]) <= i
                   /\ stop <= i => Len(f[i]) < i
                   /\ \A k \in 1 .. Len(f[i]) :
                        \E j \in 1 .. i : f[i][k] = r.pending[j] /\ Stays(r, seq, stop, j)
           T == {i \in 0 .. n : ~P(i)}
<1>5. ASSUME T # {} PROVE FALSE
  <2>0. T \in SUBSET Nat
    <3> HIDE DEF P, n
    <3> QED
      BY <1>1
  <2>1. PICK i \in T : \A k \in T : i <= k
    <3> HIDE DEF T
    <3> QED
      BY <1>5, <2>0, LeastNat
  <2>2. i \in 0 .. n /\ ~P(i)
    BY <2>1
  <2>3. CASE i = 0
    <3>1. f[0] = << >>
      BY <1>1, <1>4
    <3>2. f[0] \in Seq(FecPackets) /\ Len(f[0]) = 0
      BY <3>1, EmptySeq
    <3>3. \A k \in 1 .. 0 : FALSE
      OBVIOUS
    <3> QED
      BY <2>2, <2>3, <3>2, <3>3
  <2>4. CASE i # 0
    <3>1. PICK h \in Nat : h = i - 1
      BY <2>2, <2>4
    <3>2. h \in 0 .. n /\ h \notin T /\ i = h + 1 /\ i \in 1 .. n
      BY <1>1, <2>1, <2>2, <2>4, <3>1
    <3>3. P(h)
      BY <3>2
    <3>4. r.pending[i] \in FecPackets
      BY <1>1, <3>2, ElementOfSeq
    <3>5. f[i] = IF Stays(r, seq, stop, i) THEN Append(f[h], r.pending[i]) ELSE f[h]
      BY <1>4, <2>2, <2>4, <3>1
    <3> DEFINE q == f[h]
               e == r.pending[i]
               l == Len(q)
    <3>6. /\ q \in Seq(FecPackets) /\ e \in FecPackets /\ l \in Nat /\ l <= h
          /\ stop <= h => l < h
      BY <3>3, <3>4
    <3>7. \A k \in 1 .. l : \E j \in 1 .. i : q[k] = r.pending[j] /\ Stays(r, seq, stop, j)
      <4>1. \A j \in 1 .. h : j \in 1 .. i
        BY <3>2
      <4> QED
        BY <3>3, <4>1
    <3> HIDE DEF q, e, l, P
    <3>8. CASE Stays(r, seq, stop, i)
      <4>1. f[i] = Append(q, e)
        BY <3>5, <3>8 DEF q, e
      <4>2. /\ f[i] \in Seq(FecPackets) /\ Len(f[i]) = l + 1 /\ f[i][l + 1] = e
            /\ \A k \in 1 .. l : f[i][k] = q[k]
        <5> HIDE DEF FecPackets
        <5> QED
          BY <3>6, <4>1 DEF l
      <4>3. stop <= i => l + 1 < i
        <5> HAVE stop <= i
        <5>1. stop < i
          BY <3>2, <3>8 DEF Stays
        <5> QED
          BY <3>2, <3>6, <5>1
      <4>4. \A k \in 1 .. l + 1 : k \in 1 .. l \/ k = l + 1
        BY <3>6
      <4>5. \A k \in 1 .. l + 1 :
              \E j \in 1 .. i : f[i][k] = r.pending[j] /\ Stays(r, seq, stop, j)
        BY <3>2, <3>7, <3>8, <4>2, <4>4 DEF e
      <4>6. l + 1 <= i
        BY <3>2, <3>6
      <4> QED
        BY <2>2, <4>2, <4>3, <4>5, <4>6 DEF P
    <3>9. CASE ~Stays(r, seq, stop, i)
      <4>1. f[i] = q
        BY <3>5, <3>9 DEF q
      <4>2. l <= i /\ l < i
        BY <3>2, <3>6
      <4> QED
        BY <2>2, <3>6, <3>7, <4>1, <4>2 DEF P, l
    <3> QED
      BY <3>8, <3>9
  <2> QED
    BY <2>3, <2>4
<1>6. P(n)
  <2>1. n \in 0 .. n
    BY <1>1
  <2> HIDE DEF P, n
  <2> QED
    BY <1>5, <2>1
<1> QED
  BY <1>3, <1>6

\* Whether an FEC packet recovers depends on the cache and the history.
LEMMA SameRecovery ==
  ASSUME NEW r, NEW s, s.cache = r.cache, s.history = r.history, NEW f
  PROVE  Recovers(s, f) = Recovers(r, f)
BY DEF Recovers, Missing, Xor

\* The loop finds an FEC packet that recovers and takes it out, or leaves none
\* that does.
LEMMA ScannedIs ==
  ASSUME NEW r \in Receivers, NEW seq
  PROVE  LET y == Scanned(r, seq)
             q == y.r.pending
         IN  /\ y.r = [r EXCEPT !.pending = q] /\ y.r \in Receivers
             /\ Len(q) <= Len(r.pending)
             /\ \A k \in 1 .. Len(q) : \E j \in 1 .. Len(r.pending) : q[k] = r.pending[j]
             /\ \/ y.found = << >> /\ Quiet(y.r)
                \/ /\ Len(q) < Len(r.pending)
                   /\ \E i \in 1 .. Len(r.pending) :
                        /\ Recovers(r, r.pending[i])
                        /\ y.found = <<Recovered(r, r.pending[i])>>
<1> DEFINE hits == {i \in DOMAIN r.pending :
                      ~Outdated(r.pending[i], seq) /\ Recovers(r, r.pending[i])}
           n == Len(r.pending)
           first == IF hits = {} THEN n + 1 ELSE Min(hits)
           q == Left(r, seq, first)
           y == Scanned(r, seq)
<1>1. r.pending \in Seq(FecPackets) /\ n \in Nat /\ DOMAIN r.pending = 1 .. n
  BY DEF Receivers
<1>2. hits \subseteq 1 .. n
  BY <1>1
<1>3. /\ y.r = [r EXCEPT !.pending = q]
      /\ y.found = IF hits = {} THEN << >> ELSE <<Recovered(r, r.pending[first])>>
  BY DEF Scanned
<1>4. /\ hits # {} => first \in hits /\ first \in 1 .. n
      /\ hits = {} => first = n + 1
      /\ first \in Nat \ {0}
  <2>1. hits # {} => first \in hits
    <3> HAVE hits # {}
    <3> HIDE DEF hits
    <3>1. hits \in SUBSET Nat
      BY <1>1, <1>2
    <3> QED
      BY <3>1, MinIs
  <2>2. hits = {} => first = n + 1
    OBVIOUS
  <2>3. n \in Nat
    BY <1>1
  <2> HIDE DEF n, hits, first
  <2>4. hits = {} => first \in Nat \ {0}
    BY <2>2, <2>3
  <2>5. hits # {} => first \in 1 .. n /\ first \in Nat \ {0}
    <3> HAVE hits # {}
    <3>1. first \in 1 .. n
      BY <1>2, <2>1
    <3> QED
      BY <2>3, <3>1
  <2> QED
    BY <2>1, <2>2, <2>4, <2>5
<1> HIDE DEF y, first, q
<1>5. /\ q \in Seq(FecPackets) /\ Len(q) <= n
      /\ first <= n => Len(q) < n
      /\ \A k \in 1 .. Len(q) :
           \E j \in 1 .. n : q[k] = r.pending[j] /\ Stays(r, seq, first, j)
  BY <1>4, LeftIs DEF q
<1>6. y.r \in Receivers /\ y.r.pending = q /\ y.r.cache = r.cache /\ y.r.history = r.history
  <2> HIDE DEF FecPackets, Packets, Wires
  <2> QED
    BY <1>3, <1>5 DEF Receivers
<1>7. CASE hits = {}
  <2>1. ASSUME NEW k \in 1 .. Len(q) PROVE ~Recovers(y.r, q[k])
    <3>1. PICK j \in 1 .. n : q[k] = r.pending[j] /\ Stays(r, seq, first, j)
      BY <1>5
    <3>2. ~ (j > first)
      BY <1>1, <1>4, <1>7
    <3>3. ~Outdated(r.pending[j], seq)
      BY <3>1, <3>2 DEF Stays
    <3>4. ~Recovers(r, r.pending[j])
      BY <1>1, <1>7, <3>3
    <3> QED
      BY <1>6, <3>1, <3>4, SameRecovery
  <2>2. Quiet(y.r) /\ y.found = << >>
    BY <1>3, <1>6, <1>7, <2>1 DEF Quiet
  <2> QED
    BY <1>3, <1>5, <1>6, <2>2 DEF y
<1>8. CASE hits # {}
  <2>1. /\ first \in 1 .. n /\ Recovers(r, r.pending[first])
        /\ y.found = <<Recovered(r, r.pending[first])>> /\ Len(q) < n
    BY <1>1, <1>3, <1>4, <1>5, <1>8
  <2> QED
    BY <1>3, <1>5, <1>6, <2>1 DEF y
<1> QED
  BY <1>7, <1>8

----------------------------------------------------------------------------
(* OnRecvRtp.                                                              *)

\* The receiver when a packet was stored and noted, before the loop.
Noted(r, p) ==
  LET lapped == Lapped(Cached(r, p), p.seq)
  IN  [lapped EXCEPT !.history = @ \cup {p.seq}]

\* The numbers start again, or not.
LEMMA LappedIs ==
  ASSUME NEW r \in Receivers, NEW seq
  PROVE  LET s == Lapped(r, seq)
         IN  /\ s \in Receivers /\ s.cache = r.cache /\ s.recovered = r.recovered
             /\ s.last = r.last
             /\ \/ s = r
                \/ s.history = {} /\ s.pending = << >> /\ seq < Low /\ r.last > High
<1>1. << >> \in Seq(FecPackets) /\ Len(<< >>) = 0
  BY EmptySeq
<1> DEFINE s == [r EXCEPT !.history = {}, !.pending = << >>]
<1>2. /\ s \in Receivers /\ s.cache = r.cache /\ s.recovered = r.recovered
      /\ s.last = r.last /\ s.history = {} /\ s.pending = << >>
  <2> HIDE DEF FecPackets, Packets, Wires
  <2> QED
    BY <1>1 DEF Receivers
<1> QED
  BY <1>2 DEF Lapped

\* What the cache and the history have of a packet that arrives.
LEMMA NotedIs ==
  ASSUME NEW r \in Receivers, NEW p \in Packets
  PROVE  LET s == Noted(r, p)
         IN  /\ s \in Receivers /\ s.cache \subseteq r.cache \cup {p}
             /\ s.recovered = r.recovered /\ s.last = r.last
             /\ Len(s.pending) <= Len(r.pending)
             /\ p.seq \in s.history
             /\ \/ s.pending = r.pending /\ s.history = r.history \cup {p.seq}
                \/ s.pending = << >> /\ p.seq < Low /\ r.last > High
<1> DEFINE c == Cached(r, p)
           l == Lapped(c, p.seq)
           h == l.history \cup {p.seq}
           s == [l EXCEPT !.history = h]
<1>1. /\ c \in Receivers /\ c.cache \subseteq r.cache \cup {p}
      /\ c = [r EXCEPT !.newest = c.newest, !.cache = c.cache]
  BY CachedIs
<1> HIDE DEF c
<1>2. /\ c.recovered = r.recovered /\ c.last = r.last /\ c.pending = r.pending
      /\ c.history = r.history
  BY <1>1 DEF Receivers
<1>3. /\ l \in Receivers /\ l.cache = c.cache /\ l.recovered = c.recovered
      /\ l.last = c.last
      /\ \/ l = c
         \/ l.history = {} /\ l.pending = << >> /\ p.seq < Low /\ c.last > High
  BY <1>1, LappedIs
<1> HIDE DEF l
<1>4. h \in SUBSET Wires /\ p.seq \in h
  BY <1>3 DEF Receivers, Packets
<1> HIDE DEF h
<1>5. /\ s \in Receivers /\ s.cache = l.cache /\ s.recovered = l.recovered
      /\ s.last = l.last /\ s.pending = l.pending /\ s.history = h
  <2> HIDE DEF FecPackets, Packets, Wires
  <2> QED
    BY <1>3, <1>4 DEF Receivers
<1>6. Noted(r, p) = s
  BY DEF Noted, s, h, l, c
<1> HIDE DEF s
<1>7. Len(s.pending) <= Len(r.pending)
  <2>1. r.pending \in Seq(FecPackets) /\ Len(r.pending) \in Nat
    BY DEF Receivers
  <2>2. Len(<< >>) = 0
    BY EmptySeq
  <2> QED
    BY <1>2, <1>3, <1>5, <2>1, <2>2
<1> QED
  BY <1>1, <1>2, <1>3, <1>4, <1>5, <1>6, <1>7 DEF h

Loads == [r : Receivers, found : Seq(Packets), buffer : Seq(Packets)]

\* A packet is taken: it is noted, the loop is run, and what it finds comes next.
LEMMA TakenIs ==
  ASSUME NEW x, Load(x), x.found # << >>
  PROVE  LET p == x.found[1]
             s == Noted(x.r, p)
             z == Scanned(s, p.seq)
             y == Taken(x)
         IN  /\ p \in Packets /\ s \in Receivers
             /\ y.r = z.r /\ y.found = z.found /\ y.buffer = x.buffer \o z.found
             /\ Load(y)
             /\ y.found = << >> => Quiet(y.r)
             /\ y.found # << >> => Len(y.r.pending) < Len(x.r.pending)
<1> DEFINE p == x.found[1]
           s == Noted(x.r, p)
           z == Scanned(s, p.seq)
           y == Taken(x)
<1>1. x.r \in Receivers /\ x.buffer \in Seq(Packets) /\ p \in Packets
  BY DEF Load
<1> HIDE DEF p
<1>2. s \in Receivers /\ Len(s.pending) <= Len(x.r.pending)
  BY <1>1, NotedIs
<1>3. y = [r |-> z.r, found |-> z.found, buffer |-> x.buffer \o z.found]
  BY DEF Taken, Noted, p
<1> HIDE DEF s, y
<1>4. /\ z.r \in Receivers
      /\ \/ z.found = << >> /\ Quiet(z.r)
         \/ /\ Len(z.r.pending) < Len(s.pending)
            /\ \E i \in 1 .. Len(s.pending) :
                 /\ Recovers(s, s.pending[i])
                 /\ z.found = <<Recovered(s, s.pending[i])>>
  BY <1>2, ScannedIs
<1> HIDE DEF z
<1>5. s.pending \in Seq(FecPackets) /\ x.r.pending \in Seq(FecPackets) /\ z.r.pending \in Seq(FecPackets)
  BY <1>1, <1>2, <1>4 DEF Receivers
<1>6. z.found # << >> => \E e \in Packets : z.found = <<e>>
  <2> HAVE z.found # << >>
  <2>1. PICK i \in 1 .. Len(s.pending) :
          /\ Recovers(s, s.pending[i])
          /\ z.found = <<Recovered(s, s.pending[i])>>
    BY <1>4
  <2>2. s.pending[i] \in FecPackets
    BY <1>5, ElementOfSeq
  <2>3. Recovered(s, s.pending[i]) \in Packets
    BY <1>2, <2>1, <2>2, RecoveredIs
  <2> QED
    BY <2>1, <2>3
<1>7. z.found \in Seq(Packets)
  <2>1. CASE z.found = << >>
    BY <2>1, EmptySeq
  <2>2. CASE z.found # << >>
    <3>1. PICK e \in Packets : z.found = <<e>>
      BY <1>6, <2>2
    <3> HIDE DEF Packets
    <3> QED
      BY <3>1
  <2> QED
    BY <2>1, <2>2
<1>8. x.buffer \o z.found \in Seq(Packets)
  BY <1>1, <1>7, ConcatProperties
<1>9. Load(y)
  <2>1. y \in [r : Receivers, found : Seq(Packets), buffer : Seq(Packets)]
    BY <1>3, <1>4, <1>7, <1>8
  <2>2. y.found = z.found
    BY <1>3
  <2> QED
    BY <1>6, <2>1, <2>2 DEF Load
<1>10. /\ z.found = << >> => Quiet(z.r)
       /\ z.found # << >> => Len(z.r.pending) < Len(x.r.pending)
  <2>0. z.found # << >> => Len(z.r.pending) < Len(s.pending)
    BY <1>4
  <2>2. z.found = << >> => Quiet(z.r)
    <3> HAVE z.found = << >>
    <3>1. \A e : <<e>> # << >>
      OBVIOUS
    <3> QED
      BY <1>4, <3>1
  <2>1. Len(s.pending) \in Nat /\ Len(x.r.pending) \in Nat /\ Len(z.r.pending) \in Nat
    BY <1>5, LenProperties
  <2> QED
    BY <1>2, <2>0, <2>1, <2>2
<1>11. y.r = z.r /\ y.found = z.found /\ y.buffer = x.buffer \o z.found
  BY <1>3
<1> QED
  BY <1>1, <1>2, <1>9, <1>10, <1>11 DEF y, z, s, p

\* The recursion of OnRecvRtp, n deep.
IsRun(f, x, n) == f = [i \in 0 .. n |-> IF i = 0 THEN x ELSE Taken(f[i - 1])]

\* The recursive function of TakenAll exists, as that of Left does.
LEMMA RunExists ==
  ASSUME NEW x, NEW n \in Nat
  PROVE  \E f : IsRun(f, x, n)
<1> DEFINE T == {k \in Nat : ~\E f : IsRun(f, x, k)}
<1> SUFFICES ASSUME T # {} PROVE FALSE
  OBVIOUS
<1>1. PICK m \in T : \A k \in T : m <= k
  BY LeastNat
<1>2. CASE m = 0
  <2> DEFINE f == [i \in 0 .. 0 |-> x]
  <2>1. IsRun(f, x, 0)
    BY DEF IsRun
  <2> QED
    BY <1>1, <1>2, <2>1
<1>3. CASE m # 0
  <2>1. m \in Nat /\ m - 1 \in Nat /\ m - 1 \notin T
    BY <1>1, <1>3
  <2>2. PICK g : IsRun(g, x, m - 1)
    BY <2>1
  <2> DEFINE f == [i \in 0 .. m |-> IF i = m THEN Taken(g[m - 1]) ELSE g[i]]
             h == [i \in 0 .. m |-> IF i = 0 THEN x ELSE Taken(f[i - 1])]
  <2>3. \A i \in 0 .. m - 1 : g[i] = IF i = 0 THEN x ELSE Taken(g[i - 1])
    BY <2>2 DEF IsRun
  <2>4. ASSUME NEW i \in 0 .. m PROVE f[i] = h[i]
    <3>1. CASE i = m
      <4>1. m - 1 \in 0 .. m /\ m - 1 # m
        BY <2>1
      <4> QED
        BY <1>3, <3>1, <4>1
    <3>2. CASE i # m /\ i # 0
      <4>1. i \in 0 .. m - 1 /\ i - 1 \in 0 .. m /\ i - 1 # m
        BY <2>1, <3>2
      <4> QED
        BY <2>3, <3>2, <4>1
    <3>3. CASE i # m /\ i = 0
      <4>1. 0 \in 0 .. m - 1
        BY <2>1, <1>3
      <4> QED
        BY <2>3, <3>3, <4>1
    <3> QED
      BY <3>1, <3>2, <3>3
  <2>5. f = h
    BY <2>4
  <2>6. IsRun(f, x, m)
    BY <2>5 DEF IsRun
  <2> QED
    BY <1>1, <2>6
<1> QED
  BY <1>2, <1>3

\* The recursion ends with no FEC packet that recovers, and what every level
\* keeps is kept.
LEMMA TakenAllIs ==
  ASSUME NEW x, Load(x), x.found # << >>,
         NEW S \in SUBSET Loads, x \in S, \A e \in S : Load(e) => Taken(e) \in S
  PROVE  LET y == TakenAll(x)
         IN  Load(y) /\ y \in S /\ y.found = << >> /\ Quiet(y.r)
<1> DEFINE n == Len(x.r.pending) + 1
           f == CHOOSE g : IsRun(g, x, n)
<1>1. n \in Nat /\ Len(x.r.pending) \in Nat
  <2>1. x.r.pending \in Seq(FecPackets)
    BY DEF Load, Receivers
  <2>2. Len(x.r.pending) \in Nat
    BY <2>1, LenProperties
  <2> QED
    BY <2>2
<1>2. IsRun(f, x, n)
  BY <1>1, RunExists
<1>3. TakenAll(x) = f[n]
  BY DEF TakenAll, IsRun
<1> HIDE DEF f
<1>4. \A i \in 0 .. n : f[i] = IF i = 0 THEN x ELSE Taken(f[i - 1])
  BY <1>2 DEF IsRun
<1> DEFINE P(i) == /\ Load(f[i]) /\ f[i] \in S
                   /\ \/ f[i].found = << >> /\ Quiet(f[i].r)
                      \/ f[i].found # << >> /\ Len(f[i].r.pending) + i < n
           T == {i \in 0 .. n : ~P(i)}
<1>5. ASSUME T # {} PROVE FALSE
  <2>0. T \in SUBSET Nat
    <3> HIDE DEF P, n
    <3> QED
      BY <1>1
  <2>1. PICK i \in T : \A k \in T : i <= k
    <3> HIDE DEF T
    <3> QED
      BY <1>5, <2>0, LeastNat
  <2>2. i \in 0 .. n /\ ~P(i)
    BY <2>1
  <2>3. CASE i = 0
    <3>1. f[0] = x
      BY <1>1, <1>4
    <3> QED
      BY <1>1, <2>2, <2>3, <3>1
  <2>4. CASE i # 0
    <3>1. PICK h \in Nat : h = i - 1
      BY <2>2, <2>4
    <3>2. h \in 0 .. n /\ h \notin T /\ i = h + 1
      BY <1>1, <2>1, <2>2, <2>4, <3>1
    <3>3. P(h)
      BY <3>2
    <3>4. f[i] = Taken(f[h])
      BY <1>4, <2>2, <2>4, <3>1
    <3> DEFINE a == f[h]
               b == f[i]
    <3>5. Load(a) /\ a \in S /\ b = Taken(a) /\ b \in S
      BY <3>3, <3>4
    <3>6. CASE a.found = << >>
      <4>1. b = a
        BY <3>5, <3>6 DEF Taken
      <4> QED
        BY <2>2, <3>3, <3>6, <4>1
    <3>7. CASE a.found # << >>
      <4>1. Len(a.r.pending) + h < n
        BY <3>3, <3>7
      <4> HIDE DEF a, b, P
      <4>2. /\ Load(b)
            /\ b.found = << >> => Quiet(b.r)
            /\ b.found # << >> => Len(b.r.pending) < Len(a.r.pending)
        BY <3>5, <3>7, TakenIs
      <4>3. Len(a.r.pending) \in Nat /\ Len(b.r.pending) \in Nat
        <5>1. a.r.pending \in Seq(FecPackets) /\ b.r.pending \in Seq(FecPackets)
          BY <3>5, <4>2 DEF Load, Receivers
        <5> QED
          BY <5>1, LenProperties
      <4>4. CASE b.found = << >>
        BY <2>2, <3>5, <4>2, <4>4 DEF P, b
      <4>5. CASE b.found # << >>
        <5>1. Len(b.r.pending) + i < n
          <6> DEFINE k == Len(b.r.pending)
                     l == Len(a.r.pending)
          <6> HIDE DEF n, k, l
          <6>1. k \in Nat /\ l \in Nat /\ k < l /\ l + h < n /\ i = h + 1 /\ n \in Nat
            BY <1>1, <3>2, <4>1, <4>2, <4>3, <4>5 DEF k, l
          <6>2. k + i < n
            BY <3>1, <6>1
          <6> QED
            BY <6>2 DEF k
        <5> QED
          BY <2>2, <3>5, <4>2, <4>5, <5>1 DEF P, b
      <4> QED
        BY <4>4, <4>5
    <3> QED
      BY <3>6, <3>7
  <2> QED
    BY <2>3, <2>4
<1>6. P(n)
  <2>1. n \in 0 .. n
    BY <1>1
  <2> HIDE DEF P, n
  <2> QED
    BY <1>5, <2>1
<1>7. Load(f[n]) /\ f[n] \in S /\ f[n].found = << >> /\ Quiet(f[n].r)
  <2>1. ~ (Len(f[n].r.pending) + n < n)
    <3>1. f[n].r.pending \in Seq(FecPackets)
      BY <1>6 DEF Load, Receivers
    <3>2. Len(f[n].r.pending) \in Nat
      BY <3>1, LenProperties
    <3> HIDE DEF n
    <3> QED
      BY <1>1, <3>2
  <2> QED
    BY <1>6, <2>1
<1> QED
  BY <1>3, <1>7

----------------------------------------------------------------------------
(* The messages.                                                           *)

\* The low 16 bits of a number.
LEMMA WireIs ==
  ASSUME NEW n \in Int
  PROVE  Wire(n) \in Wires /\ (n \in 0 .. NumMod - 1 => Wire(n) = n)
BY FecAssumption DEF Wire, Wires

\* An FEC packet is one whatever the sender has got.
LEMMA FecIs ==
  ASSUME NEW seq \in Int, NEW nums \in SUBSET Int, NEW has \in SUBSET Numbers,
         NEW masked \in BOOLEAN
  PROVE  Fec(seq, nums, has, masked) \in FecPackets
<1> DEFINE type == IF masked THEN "mask" ELSE "grid"
           covered == {Wire(n) : n \in IF masked THEN nums \cap has ELSE nums}
           content == nums \cap has
<1>1. type \in {"mask", "grid"} /\ Wire(seq) \in Wires /\ content \in SUBSET Numbers
  BY WireIs
<1>2. covered \in SUBSET Wires
  BY WireIs
<1>3. Fec(seq, nums, has, masked) =
        [type |-> type, seq |-> Wire(seq), covered |-> covered, content |-> content]
  BY DEF Fec
<1> HIDE DEF type, covered, content
<1> QED
  BY <1>1, <1>2, <1>3 DEF FecPackets

\* The FEC packets of a packet are FEC packets of numbers up to it.
LEMMA FecsAre ==
  ASSUME NEW n \in Numbers, NEW has \in SUBSET Numbers, NEW f \in Fecs(n, has)
  PROVE  \E seq \in Int, nums \in SUBSET Int, masked \in BOOLEAN :
           /\ f = Fec(seq, nums, has, masked)
           /\ seq > n - Count * Stride /\ seq <= n
           /\ ~masked => /\ mode # "mask"
                         /\ \A k \in nums : k <= n /\ k > n - L - D * DL
<1>1. /\ n \in Int /\ L \in Nat \ {0} /\ D \in Nat \ {0} /\ DL \in Nat \ {0}
      /\ Count \in Nat \ {0} /\ Stride \in Nat \ {0} /\ n > 0
  BY FecAssumption DEF Numbers
<1>2. CASE mode = "mask"
  <2>1. f \in MaskFecs(n, has)
    BY <1>2 DEF Fecs
  <2>2. PICK j \in 0 .. Stride - 1 :
          f = LET base == n - Count * Stride + 1 + j
              IN  Fec(base + Count - 1, {base + i * Stride : i \in 0 .. Count - 1}, has, TRUE)
    BY <2>1 DEF MaskFecs
  <2> DEFINE base == n - Count * Stride + 1 + j
             nums == {base + i * Stride : i \in 0 .. Count - 1}
  <2>3. base \in Int
    BY <1>1
  <2> HIDE DEF base
  <2>4. base + Count - 1 \in Int /\ nums \in SUBSET Int
    BY <1>1, <2>3
  <2>5. f = Fec(base + Count - 1, nums, has, TRUE)
    BY <2>2 DEF base
  <2>6. Count + Stride - 1 <= Count * Stride
    <3>1. (Count - 1) * (Stride - 1) >= 0
      BY <1>1
    <3>2. (Count - 1) * (Stride - 1) = Count * Stride - Count - Stride + 1
      BY <1>1
    <3>3. PICK c \in Int : c = Count * Stride
      BY <1>1
    <3> QED
      BY <1>1, <3>1, <3>2, <3>3
  <2>7. base + Count - 1 > n - Count * Stride /\ base + Count - 1 <= n
    <3>1. PICK c \in Int : c = Count * Stride
      BY <1>1
    <3>2. base = n - c + 1 + j /\ j >= 0 /\ j <= Stride - 1 /\ j \in Int
      BY <1>1, <3>1 DEF base
    <3> HIDE DEF base
    <3>3. base + Count - 1 > n - c /\ base + Count - 1 <= n
      BY <1>1, <2>3, <2>6, <3>1, <3>2
    <3> QED
      BY <3>1, <3>3
  <2> QED
    BY <2>4, <2>5, <2>7
<1>3. CASE mode # "mask"
  <2>1. f \in GridFecs(n, has)
    BY <1>3 DEF Fecs
  <2> DEFINE row == {n - i : i \in 0 .. L - 1}
             column == {n - i * D : i \in 0 .. DL - 1}
  <2>2. f = Fec(n, row, has, FALSE) \/ f = Fec(n, column, has, FALSE)
    BY <2>1 DEF GridFecs
  <2>3. ASSUME NEW i \in 0 .. DL - 1 PROVE i * D \in Nat /\ i * D < D * DL
    <3>1. i \in Nat /\ i + 1 <= DL
      BY <1>1
    <3>2. i * D \in Nat /\ (i + 1) * D <= DL * D /\ (i + 1) * D = i * D + D
      BY <1>1, <3>1
    <3> QED
      BY <1>1, <3>1, <3>2
  <2>4. D * DL \in Nat /\ n > n - Count * Stride /\ n <= n
    <3>1. D * DL \in Nat /\ Count * Stride \in Nat \ {0}
      BY <1>1
    <3> QED
      BY <1>1, <3>1
  <2>5. column \in SUBSET Int /\ \A k \in column : k <= n /\ k > n - L - D * DL
    <3>1. ASSUME NEW i \in 0 .. DL - 1
          PROVE  n - i * D \in Int /\ n - i * D <= n /\ n - i * D > n - L - D * DL
      BY <1>1, <2>3, <2>4
    <3> QED
      BY <3>1
  <2>6. row \in SUBSET Int /\ \A k \in row : k <= n /\ k > n - L - D * DL
    BY <1>1, <2>4
  <2> HIDE DEF row, column
  <2> QED
    BY <1>1, <1>3, <2>2, <2>4, <2>5, <2>6
<1> QED
  BY <1>2, <1>3

\* What the sender adds to the messages is FEC packets.
LEMMA FecsArePackets ==
  ASSUME NEW n \in Numbers, NEW has \in SUBSET Numbers
  PROVE  Fecs(n, has) \in SUBSET FecPackets
BY FecsAre, FecIs

\* What is passed on may change the newest number, and nothing FEC looks at.
LEMMA PassedIs ==
  ASSUME NEW r \in Receivers, NEW p \in Packets
  PROVE  LET s == Passed(r, p)
         IN  /\ s \in Receivers /\ s.cache = r.cache /\ s.history = r.history
             /\ s.pending = r.pending /\ s.recovered = r.recovered
             /\ s.last \in {r.last, p.seq}
<1> DEFINE newer == r.last = 0 \/ (p.seq - r.last) % NumMod \in 1 .. NumMod \div 2 - 1
           l == IF newer THEN p.seq ELSE r.last
           s == [r EXCEPT !.last = l, !.forwarded = r.forwarded \cup {p}]
<1>1. Passed(r, p) = s
  BY DEF Passed
<1>2. l \in Nat /\ l \in {r.last, p.seq} /\ p.seq \in Nat
  BY FecAssumption DEF Receivers, Packets, Wires
<1> HIDE DEF l
<1>3. /\ s \in Receivers /\ s.cache = r.cache /\ s.history = r.history
      /\ s.pending = r.pending /\ s.recovered = r.recovered /\ s.last = l
  <2> HIDE DEF Packets, FecPackets, Wires
  <2> QED
    BY <1>2 DEF Receivers
<1> QED
  BY <1>1, <1>2, <1>3

\* On the way back as well.
LEMMA UnwoundIs ==
  ASSUME NEW x, Load(x)
  PROVE  LET s == Unwound(x)
         IN  /\ s \in Receivers /\ s.cache = x.r.cache /\ s.history = x.r.history
             /\ s.pending = x.r.pending
             /\ s.recovered = x.r.recovered \cup Range(x.buffer)
             /\ s.last = x.r.last \/ \E p \in Range(x.buffer) : s.last = p.seq
<1> DEFINE q == x.r.recovered \cup Range(x.buffer)
           r == [x.r EXCEPT !.recovered = q]
<1>1. x.r \in Receivers /\ x.buffer \in Seq(Packets)
  BY DEF Load
<1>2. Range(x.buffer) \subseteq Packets /\ q \subseteq Packets
  <2> HIDE DEF Packets
  <2>1. \A i \in DOMAIN x.buffer : x.buffer[i] \in Packets
    BY <1>1, ElementOfSeq
  <2>2. Range(x.buffer) \subseteq Packets
    BY <2>1 DEF Range
  <2> QED
    BY <1>1, <2>2 DEF Receivers
<1>3. Unwound(x) = IF x.buffer = << >> THEN r ELSE Passed(r, Last(x.buffer))
  BY DEF Unwound
<1> HIDE DEF q
<1>4. /\ r \in Receivers /\ r.cache = x.r.cache /\ r.history = x.r.history
      /\ r.pending = x.r.pending /\ r.recovered = q /\ r.last = x.r.last
  <2> HIDE DEF Packets, FecPackets, Wires
  <2> QED
    BY <1>1, <1>2 DEF Receivers
<1> HIDE DEF r
<1>5. CASE x.buffer = << >>
  BY <1>3, <1>4, <1>5 DEF q
<1>6. CASE x.buffer # << >>
  <2> DEFINE p == Last(x.buffer)
  <2>1. p \in Range(x.buffer)
    <3>1. Len(x.buffer) \in DOMAIN x.buffer
      BY <1>1, <1>6, EmptySeq, LenProperties
    <3> QED
      BY <3>1 DEF Last, Range
  <2> HIDE DEF p
  <2>2. p \in Packets
    BY <1>2, <2>1
  <2>3. Unwound(x) = Passed(r, p)
    BY <1>3, <1>6 DEF p
  <2>4. LET s == Passed(r, p)
        IN  /\ s \in Receivers /\ s.cache = r.cache /\ s.history = r.history
            /\ s.pending = r.pending /\ s.recovered = r.recovered
            /\ s.last \in {r.last, p.seq}
    BY <1>4, <2>2, PassedIs
  <2> QED
    BY <1>4, <2>1, <2>3, <2>4 DEF q
<1> QED
  BY <1>5, <1>6

----------------------------------------------------------------------------
(* NothingRecoverableWaits.                                                *)

\* A level of the recursion takes a load to a load.
LEMMA TakenLoads ==
  ASSUME NEW x, Load(x)
  PROVE  x \in Loads /\ Taken(x) \in Loads /\ Load(Taken(x))
<1>1. \A e : Load(e) => e \in Loads
  BY DEF Load, Loads
<1>2. x.found = << >> => Taken(x) = x
  BY DEF Taken
<1> QED
  BY <1>1, <1>2, TakenIs

\* Before the recursion: one packet to go on with.
LEMMA FirstLoad ==
  ASSUME NEW r \in Receivers, NEW p \in Packets
  PROVE  /\ Load([r |-> r, found |-> <<p>>, buffer |-> << >>])
         /\ Load([r |-> r, found |-> <<p>>, buffer |-> <<p>>])
<1>1. << >> \in Seq(Packets) /\ <<p>> \in Seq(Packets)
  <2> HIDE DEF Packets
  <2> QED
    BY EmptySeq
<1> QED
  BY <1>1 DEF Load

\* The handler of a packet, for a set S of what the recursion goes through.
LEMMA HandleDataIs ==
  ASSUME NEW r \in Receivers, NEW m, Packet(m) \in Packets, NEW S \in SUBSET Loads,
         [r |-> r, found |-> <<Packet(m)>>, buffer |-> << >>] \in S,
         \A e \in S : Load(e) => Taken(e) \in S
  PROVE  \E y \in S : /\ Load(y) /\ Quiet(y.r)
                      /\ HandleData(r, m) = Passed(Unwound(y), Packet(m))
<1> DEFINE x == [r |-> r, found |-> <<Packet(m)>>, buffer |-> << >>]
<1>1. Load(x) /\ x.found # << >>
  BY FirstLoad
<1>2. HandleData(r, m) = Passed(Unwound(TakenAll(x)), Packet(m))
  BY DEF HandleData
<1>3. x \in S
  OBVIOUS
<1> HIDE DEF x
<1>4. Load(TakenAll(x)) /\ TakenAll(x) \in S /\ Quiet(TakenAll(x).r)
  BY <1>1, <1>3, TakenAllIs
<1> QED
  BY <1>2, <1>4

\* The receiver that has noted a packet it recovered from an FEC packet.
Remembered(s, p) == [s EXCEPT !.history = @ \cup {p.seq}]

\* Only the history changes when a recovered packet is noted.
LEMMA RememberedIs ==
  ASSUME NEW s \in Receivers, NEW p \in Packets
  PROVE  LET t == Remembered(s, p)
         IN  /\ t \in Receivers /\ t.cache = s.cache /\ t.pending = s.pending
             /\ t.recovered = s.recovered /\ t.last = s.last
             /\ t.history = s.history \cup {p.seq}
<1> DEFINE h == s.history \cup {p.seq}
<1>1. h \in SUBSET Wires
  BY DEF Receivers, Packets
<1>2. Remembered(s, p) = [s EXCEPT !.history = h]
  BY DEF Remembered
<1> HIDE DEF h
<1>3. LET t == [s EXCEPT !.history = h]
      IN  /\ t \in Receivers /\ t.cache = s.cache /\ t.pending = s.pending
          /\ t.recovered = s.recovered /\ t.last = s.last
          /\ t.history = h
  <2> HIDE DEF Packets, FecPackets, Wires
  <2> QED
    BY <1>1 DEF Receivers
<1> QED
  BY <1>2, <1>3 DEF h

\* The handler of an FEC packet: the recursion, or one more that waits.
LEMMA HandleFecIs ==
  ASSUME NEW r \in Receivers, NEW m \in FecPackets, NEW S \in SUBSET Loads,
         LET s == Lapped(r, m.seq)
             p == Recovered(s, m)
         IN  Recovers(s, m) =>
               [r |-> Remembered(s, p), found |-> <<p>>, buffer |-> <<p>>] \in S,
         \A e \in S : Load(e) => Taken(e) \in S
  PROVE  LET s == Lapped(r, m.seq)
         IN  \/ \E y \in S : /\ Load(y) /\ Quiet(y.r)
                             /\ HandleFec(r, m) = Unwound(y)
             \/ /\ ~Recovers(s, m)
                /\ HandleFec(r, m) = [s EXCEPT !.pending = Append(s.pending, m)]
<1> DEFINE s == Lapped(r, m.seq)
           p == Recovered(s, m)
           x == [r |-> Remembered(s, p), found |-> <<p>>, buffer |-> <<p>>]
<1>1. s \in Receivers
  BY LappedIs
<1>2. HandleFec(r, m) = IF Recovers(s, m) THEN Unwound(TakenAll(x))
                        ELSE [s EXCEPT !.pending = Append(s.pending, m)]
  BY DEF HandleFec, Remembered
<1>3. Recovers(s, m) => x \in S
  OBVIOUS
<1> HIDE DEF s
<1>4. CASE Recovers(s, m)
  <2>1. p \in Packets
    BY <1>1, <1>4, RecoveredIs
  <2> HIDE DEF p
  <2>2. Remembered(s, p) \in Receivers
    BY <1>1, <2>1, RememberedIs
  <2>3. Load(x) /\ x.found # << >>
    BY <2>1, <2>2, FirstLoad
  <2> HIDE DEF x
  <2>4. Load(TakenAll(x)) /\ TakenAll(x) \in S /\ Quiet(TakenAll(x).r)
    BY <1>3, <1>4, <2>3, TakenAllIs
  <2> QED
    BY <1>2, <1>4, <2>4
<1>5. CASE ~Recovers(s, m)
  BY <1>2, <1>5 DEF s
<1> QED
  BY <1>4, <1>5

\* An FEC packet that recovers nothing waits behind the others.
LEMMA WaitsIs ==
  ASSUME NEW r \in Receivers, NEW m \in FecPackets
  PROVE  LET t == [r EXCEPT !.pending = Append(r.pending, m)]
         IN  /\ t \in Receivers /\ t.cache = r.cache /\ t.history = r.history
             /\ t.recovered = r.recovered /\ t.last = r.last
             /\ \A k \in 1 .. Len(t.pending) :
                  t.pending[k] = m \/ \E j \in 1 .. Len(r.pending) : t.pending[k] = r.pending[j]
<1> DEFINE q == Append(r.pending, m)
           l == Len(r.pending)
<1>1. r.pending \in Seq(FecPackets) /\ l \in Nat
  BY DEF Receivers
<1>2. /\ q \in Seq(FecPackets) /\ Len(q) = l + 1 /\ q[l + 1] = m
      /\ \A k \in 1 .. l : q[k] = r.pending[k]
  <2> HIDE DEF FecPackets
  <2> QED
    BY <1>1
<1> HIDE DEF q, l
<1>3. \A k \in 1 .. l + 1 : k \in 1 .. l \/ k = l + 1
  BY <1>1
<1>4. LET t == [r EXCEPT !.pending = q]
      IN  /\ t \in Receivers /\ t.cache = r.cache /\ t.history = r.history
          /\ t.recovered = r.recovered /\ t.last = r.last /\ t.pending = q
  <2> HIDE DEF Packets, FecPackets, Wires
  <2> QED
    BY <1>2 DEF Receivers
<1> QED
  BY <1>2, <1>3, <1>4 DEF q, l

Messages == {Data(n) : n \in Numbers} \cup FecPackets

\* The types, and no FEC packet that waits recovers.
Calm ==
  /\ got \in SUBSET Numbers /\ net \in SUBSET Messages
  /\ receiver \in Receivers /\ Quiet(receiver)

\* A packet of the network is one, and no FEC packet.
LEMMA MessageIs ==
  ASSUME NEW m \in Messages
  PROVE  /\ m.type = "data" => \E n \in Numbers : Packet(m) = [seq |-> Wire(n), content |-> {n}]
         /\ m.type = "data" => Packet(m) \in Packets
         /\ m.type # "data" => m \in FecPackets
<1>1. ASSUME NEW n \in Numbers, m = Data(n)
      PROVE  m.type = "data" /\ Packet(m) = [seq |-> Wire(n), content |-> {n}] /\ Packet(m) \in Packets
  <2>1. n \in Int
    BY FecAssumption DEF Numbers
  <2>2. Wire(n) \in Wires
    BY <2>1, WireIs
  <2> QED
    BY <1>1, <2>2 DEF Data, Packet, Packets
<1>2. ASSUME m \in FecPackets PROVE m.type # "data"
  BY <1>2 DEF FecPackets
<1> QED
  BY <1>1, <1>2 DEF Messages

\* A receiver begins with nothing.
LEMMA NewcomerIs ==
  ASSUME Init PROVE receiver \in Receivers /\ receiver.pending = << >> /\ Len(receiver.pending) = 0
<1>1. << >> \in Seq(FecPackets) /\ Len(<< >>) = 0
  BY EmptySeq
<1> HIDE DEF FecPackets, Packets, Wires
<1> QED
  BY <1>1 DEF Init, Receivers

\* Nothing waits at the beginning.
LEMMA InitCalm == Init => Calm
<1> SUFFICES ASSUME Init PROVE Calm
  OBVIOUS
<1>1. receiver \in Receivers /\ Quiet(receiver)
  BY NewcomerIs DEF Quiet
<1> QED
  BY <1>1 DEF Init, Calm

\* What the sender adds to the messages.
LEMMA SendCalm ==
  ASSUME Calm, NEW n \in Numbers, Send(n) PROVE Calm'
<1>1. got' \in SUBSET Numbers
  BY DEF Calm, Send
<1>2. Fecs(n, got') \in SUBSET FecPackets
  BY <1>1, FecsArePackets
<1>3. net' \in SUBSET Messages
  BY <1>2 DEF Calm, Send, Messages
<1>4. receiver' = receiver
  BY DEF Send
<1> QED
  BY <1>1, <1>3, <1>4 DEF Calm

\* After every message, whatever its recoveries led to.
LEMMA ReceiveCalm ==
  ASSUME Calm, NEW m \in net, Receive(m) PROVE Calm'
<1>1. receiver \in Receivers /\ Quiet(receiver) /\ m \in Messages
  BY DEF Calm
<1>2. \A e \in Loads : Load(e) => Taken(e) \in Loads
  BY TakenLoads
<1>3. CASE m.type = "data"
  <2>1. Packet(m) \in Packets
    BY <1>1, <1>3, MessageIs
  <2>2. [r |-> receiver, found |-> <<Packet(m)>>, buffer |-> << >>] \in Loads
    BY <1>1, <2>1, FirstLoad, TakenLoads
  <2>3. PICK y \in Loads : /\ Load(y) /\ Quiet(y.r)
                           /\ HandleData(receiver, m) = Passed(Unwound(y), Packet(m))
    BY <1>1, <1>2, <2>1, <2>2, HandleDataIs
  <2> DEFINE u == Unwound(y)
             v == Passed(u, Packet(m))
  <2>4. /\ u \in Receivers /\ u.cache = y.r.cache /\ u.history = y.r.history
        /\ u.pending = y.r.pending
    BY <2>3, UnwoundIs
  <2> HIDE DEF u
  <2>5. /\ v \in Receivers /\ v.cache = u.cache /\ v.history = u.history
        /\ v.pending = u.pending
    BY <2>1, <2>4, PassedIs
  <2>6. receiver' = v
    BY <1>3, <2>3 DEF Receive, u
  <2> HIDE DEF v
  <2>7. Quiet(v)
    BY <2>3, <2>4, <2>5, SameRecovery DEF Quiet
  <2> QED
    BY <2>5, <2>6, <2>7 DEF Calm, Receive
<1>4. CASE m.type # "data"
  <2>1. m \in FecPackets
    BY <1>1, <1>4, MessageIs
  <2> DEFINE s == Lapped(receiver, m.seq)
             p == Recovered(s, m)
             t == [s EXCEPT !.pending = Append(s.pending, m)]
  <2>2. /\ s \in Receivers /\ s.cache = receiver.cache
        /\ s = receiver \/ s.pending = << >>
    BY <1>1, LappedIs
  <2>3. receiver' = HandleFec(receiver, m)
    BY <1>4 DEF Receive
  <2>4. ASSUME Recovers(s, m)
        PROVE  [r |-> Remembered(s, p), found |-> <<p>>, buffer |-> <<p>>] \in Loads
    <3> HIDE DEF s
    <3>1. p \in Packets
      BY <2>1, <2>2, <2>4, RecoveredIs
    <3> HIDE DEF p
    <3>2. Remembered(s, p) \in Receivers
      BY <2>2, <3>1, RememberedIs
    <3> QED
      BY <3>1, <3>2, FirstLoad, TakenLoads
  <2>5. \/ \E y \in Loads : Load(y) /\ Quiet(y.r) /\ HandleFec(receiver, m) = Unwound(y)
        \/ ~Recovers(s, m) /\ HandleFec(receiver, m) = t
    BY <1>1, <1>2, <2>1, <2>4, HandleFecIs
  <2> HIDE DEF s
  <2>6. CASE \E y \in Loads : Load(y) /\ Quiet(y.r) /\ HandleFec(receiver, m) = Unwound(y)
    <3>1. PICK y \in Loads : Load(y) /\ Quiet(y.r) /\ HandleFec(receiver, m) = Unwound(y)
      BY <2>6
    <3> DEFINE u == Unwound(y)
    <3>2. /\ u \in Receivers /\ u.cache = y.r.cache /\ u.history = y.r.history
          /\ u.pending = y.r.pending
      BY <3>1, UnwoundIs
    <3>3. receiver' = u
      BY <2>3, <3>1
    <3> HIDE DEF u
    <3>4. Quiet(u)
      BY <3>1, <3>2, SameRecovery DEF Quiet
    <3> QED
      BY <3>2, <3>3, <3>4 DEF Calm, Receive
  <2>7. CASE ~Recovers(s, m) /\ HandleFec(receiver, m) = t
    <3>1. /\ t \in Receivers /\ t.cache = s.cache /\ t.history = s.history
          /\ \A k \in 1 .. Len(t.pending) :
               t.pending[k] = m \/ \E j \in 1 .. Len(s.pending) : t.pending[k] = s.pending[j]
      BY <2>1, <2>2, WaitsIs
    <3> HIDE DEF t
    <3>2. \A j \in 1 .. Len(s.pending) : ~Recovers(s, s.pending[j])
      <4>1. Len(<< >>) = 0
        BY EmptySeq
      <4> QED
        BY <1>1, <2>2, <4>1 DEF Quiet
    <3>3. Quiet(t)
      BY <2>7, <3>1, <3>2, SameRecovery DEF Quiet
    <3> QED
      BY <2>3, <2>7, <3>1, <3>3 DEF Calm, Receive
  <2> QED
    BY <2>5, <2>6, <2>7
<1> QED
  BY <1>3, <1>4

\* Calm is inductive.
LEMMA NextCalm == Calm /\ [Next]_vars => Calm'
<1> SUFFICES ASSUME Calm, [Next]_vars PROVE Calm'
  OBVIOUS
<1>1. CASE \E n \in Numbers : Send(n)
  BY <1>1, SendCalm
<1>2. CASE \E m \in net : Receive(m)
  BY <1>2, ReceiveCalm
<1>3. CASE \E m \in net : Lose(m)
  BY <1>3 DEF Lose, Calm
<1>4. CASE UNCHANGED vars
  BY <1>4 DEF vars, Calm
<1> QED
  BY <1>1, <1>2, <1>3, <1>4 DEF Next

\* The scan of the pending FEC packets stops at the first that recovers, and the
\* packet it recovers starts the scan again: when the handler returns, no packet
\* can be recovered from what is there.
THEOREM NothingIsLeftToRecover == Spec => []NothingRecoverableWaits
<1>1. Calm => NothingRecoverableWaits
  BY DEF Calm, NothingRecoverableWaits, Quiet, Receivers
<1> QED
  BY <1>1, InitCalm, NextCalm, PTL DEF Spec

----------------------------------------------------------------------------
(* RecoveredIsGenuine.                                                     *)

\* The numbers of the packets, and those a grid reaches back to before them,
\* differ on the wire, and the history is not emptied: no packet, of FEC
\* neither, has a number below Low while there is one above High.
OneLap ==
  /\ MaxPackets + L + D * DL <= NumMod
  /\ ~\E a \in Start - Count * Stride .. Start + MaxPackets - 1, b \in Numbers :
       Wire(a) < Low /\ Wire(b) > High

\* The packets as they were sent.
Sources == {[seq |-> Wire(n), content |-> {n}] : n \in Numbers}

\* An FEC packet is the XOR of all it covers.
Honest(f) == f.content = {n \in Numbers : Wire(n) \in f.covered}

\* What the cache holds and what was recovered are packets that were sent; what
\* is in the cache is in the history.
Clean(r) ==
  /\ r.cache \subseteq Sources /\ r.recovered \subseteq Sources
  /\ Seqs(r.cache) \subseteq r.history
  /\ r.last = 0 \/ \E n \in Numbers : r.last = Wire(n)
  /\ \A i \in 1 .. Len(r.pending) : Honest(r.pending[i])

\* Numbers less than a lap apart differ on the wire.
LEMMA Distinct ==
  ASSUME NEW k \in Int, NEW m \in Int, Wire(k) = Wire(m),
         k - m < NumMod, m - k < NumMod
  PROVE  k = m
<1>1. NumMod \in Nat \ {0}
  BY FecAssumption
<1>2. /\ k = NumMod * (k \div NumMod) + Wire(k) /\ m = NumMod * (m \div NumMod) + Wire(m)
      /\ k \div NumMod \in Int /\ m \div NumMod \in Int
  BY <1>1 DEF Wire
<1> DEFINE a == k \div NumMod
           b == m \div NumMod
           w == Wire(k)
<1>3. a \in Int /\ b \in Int /\ k = NumMod * a + w /\ m = NumMod * b + w /\ w \in Int
  BY <1>1, <1>2 DEF Wire
<1> HIDE DEF a, b, w
<1>4. k - m = NumMod * (a - b)
  BY <1>1, <1>3
<1>5. a - b < 1
  BY <1>1, <1>3, <1>4
<1>6. b - a < 1
  BY <1>1, <1>3, <1>4
<1>7. a = b
  BY <1>3, <1>5, <1>6
<1> QED
  BY <1>3, <1>7

\* A packet and what a grid reaches back to have different numbers on the wire.
LEMMA NumbersDiffer ==
  ASSUME OneLap, NEW k \in Numbers, NEW m \in Int, Wire(k) = Wire(m),
         m < Start + MaxPackets, m > Start - L - D * DL
  PROVE  k = m
<1>1. /\ k \in Int /\ NumMod \in Nat /\ D * DL \in Nat /\ L \in Nat /\ MaxPackets \in Nat
      /\ Start \in Nat /\ k >= Start /\ k < Start + MaxPackets
      /\ MaxPackets + L + D * DL <= NumMod
  <2>1. D \in Nat /\ DL \in Nat
    BY FecAssumption
  <2>2. D * DL \in Nat
    BY <2>1
  <2> QED
    BY <2>2, FecAssumption DEF Numbers, OneLap
<1>2. k - m < NumMod /\ m - k < NumMod
  <2> DEFINE d == D * DL
  <2> HIDE DEF d
  <2>1. d \in Nat /\ m > Start - L - d /\ MaxPackets + L + d <= NumMod
    BY <1>1 DEF d
  <2> QED
    BY <1>1, <2>1
<1> QED
  BY <1>1, <1>2, Distinct

\* Two packets of the stream with one number on the wire are one.
LEMMA NumbersApart ==
  ASSUME OneLap, NEW k \in Numbers, NEW m \in Numbers, Wire(k) = Wire(m)
  PROVE  k = m
<1>1. D * DL \in Nat
  <2>1. D \in Nat /\ DL \in Nat
    BY FecAssumption
  <2> QED
    BY <2>1
<1>2. m \in Int /\ m < Start + MaxPackets /\ m > Start - L - D * DL
  <2> DEFINE d == D * DL
  <2> HIDE DEF d
  <2>1. m > Start - L - d
    BY <1>1, FecAssumption DEF Numbers, d
  <2> QED
    BY <2>1, FecAssumption DEF Numbers, d
<1> QED
  BY <1>2, NumbersDiffer

\* The FEC packets of the sender: those of a grid when it lacks none of the
\* packets before.
LEMMA FecsAreHonest ==
  ASSUME OneLap, NEW n \in Numbers, NEW has \in SUBSET Numbers,
         mode = "mask" \/ \A k \in Numbers : k <= n => k \in has,
         NEW f \in Fecs(n, has)
  PROVE  Honest(f)
<1>1. PICK seq \in Int, nums \in SUBSET Int, masked \in BOOLEAN :
        /\ f = Fec(seq, nums, has, masked)
        /\ ~masked => /\ mode # "mask"
                      /\ \A k \in nums : k <= n /\ k > n - L - D * DL
  BY FecsAre
<1>2. f.content = nums \cap has
  BY <1>1 DEF Fec
<1>3. CASE masked
  <2> DEFINE given == nums \cap has
  <2>1. f.covered = {Wire(m) : m \in given} /\ given \subseteq Numbers
    BY <1>1, <1>3 DEF Fec
  <2> HIDE DEF given
  <2>2. ASSUME NEW k \in Numbers, Wire(k) \in f.covered PROVE k \in given
    <3>1. PICK m \in given : Wire(m) = Wire(k)
      BY <2>1, <2>2
    <3> QED
      BY <2>1, <3>1, NumbersApart
  <2> QED
    BY <1>2, <2>1, <2>2 DEF Honest, given
<1>4. CASE ~masked
  <2>1. f.covered = {Wire(m) : m \in nums}
    BY <1>1, <1>4 DEF Fec
  <2>2. \A k \in nums : k <= n /\ k > n - L - D * DL
    BY <1>1, <1>4
  <2>3. \A k \in Numbers : k <= n => k \in has
    BY <1>1, <1>4
  <2>4. ASSUME NEW k \in Numbers, Wire(k) \in f.covered PROVE k \in nums \cap has
    <3>1. PICK m \in nums : Wire(m) = Wire(k)
      BY <2>1, <2>4
    <3>2. m \in Int /\ m <= n /\ m > n - L - D * DL
      BY <2>2, <3>1
    <3>3. m < Start + MaxPackets /\ m > Start - L - D * DL
      <4>1. D * DL \in Nat
        <5>1. D \in Nat /\ DL \in Nat
          BY FecAssumption
        <5> QED
          BY <5>1
      <4>2. PICK d \in Nat : d = D * DL
        BY <4>1
      <4>3. m > n - L - d
        BY <3>2, <4>2
      <4>4. m < Start + MaxPackets /\ m > Start - L - d
        BY <3>2, <4>3, FecAssumption DEF Numbers
      <4> QED
        BY <4>2, <4>4
    <3>4. k = m
      BY <3>1, <3>2, <3>3, NumbersDiffer
    <3> QED
      BY <2>3, <3>1, <3>2, <3>4
  <2> QED
    BY <1>2, <2>1, <2>4 DEF Honest
<1> QED
  BY <1>3, <1>4

\* A packet as it was sent is of one number.
LEMMA SourceIs ==
  ASSUME NEW p \in Sources
  PROVE  \E n \in Numbers : p.seq = Wire(n) /\ p.content = {n} /\ p = [seq |-> Wire(n), content |-> {n}]
BY DEF Sources

\* Packets as they were sent are packets.
LEMMA SourcesArePackets == Sources \subseteq Packets
<1> SUFFICES ASSUME NEW n \in Numbers PROVE [seq |-> Wire(n), content |-> {n}] \in Packets
  BY DEF Sources
<1>1. n \in Int
  BY FecAssumption DEF Numbers
<1> QED
  BY <1>1, WireIs DEF Packets

\* The XOR leaves the packets that are not in the cache.
LEMMA XorIs ==
  ASSUME OneLap, NEW r, Clean(r), NEW f, Honest(f)
  PROVE  Xor(r, f) = {n \in Numbers : Wire(n) \in f.covered /\ Wire(n) \notin Seqs(r.cache)}
<1> DEFINE T(n) == {p \in {q \in r.cache : q.seq \in f.covered} : n \in p.content}
           odd(n) == (Cardinality(T(n)) + (IF n \in f.content THEN 1 ELSE 0)) % 2 = 1
<1>1. Xor(r, f) = {n \in Numbers : odd(n)}
  BY DEF Xor
<1>2. ASSUME NEW n \in Numbers
      PROVE  odd(n) <=> Wire(n) \in f.covered /\ Wire(n) \notin Seqs(r.cache)
  <2>1. n \in f.content <=> Wire(n) \in f.covered
    BY DEF Honest
  <2>2. \A p \in T(n) : p \in r.cache /\ p.seq = Wire(n) /\ p = [seq |-> Wire(n), content |-> {n}]
    <3> SUFFICES ASSUME NEW p \in T(n)
                 PROVE  p \in r.cache /\ p.seq = Wire(n) /\ p = [seq |-> Wire(n), content |-> {n}]
      OBVIOUS
    <3>1. p \in r.cache /\ n \in p.content /\ p \in Sources
      BY DEF Clean
    <3> QED
      BY <3>1, SourceIs
  <2>3. CASE Wire(n) \in f.covered /\ Wire(n) \in Seqs(r.cache)
    <3>1. PICK p \in r.cache : p.seq = Wire(n)
      BY <2>3 DEF Seqs
    <3>2. PICK k \in Numbers : p.seq = Wire(k) /\ p.content = {k}
      BY SourceIs DEF Clean
    <3>3. k = n
      BY <3>1, <3>2, NumbersApart
    <3>4. p \in T(n)
      BY <2>3, <3>1, <3>2, <3>3
    <3>5. T(n) = {p}
      BY <2>2, <3>4
    <3>6. Cardinality(T(n)) = 1
      BY <3>5, FS_Singleton
    <3> HIDE DEF T
    <3> QED
      BY <2>1, <2>3, <3>6
  <2>4. CASE Wire(n) \notin f.covered \/ Wire(n) \notin Seqs(r.cache)
    <3>1. T(n) = {}
      BY <2>2, <2>4 DEF Seqs
    <3>2. Cardinality(T(n)) = 0
      BY <3>1, FS_EmptySet
    <3> HIDE DEF T
    <3> QED
      BY <2>1, <2>4, <3>2
  <2> QED
    BY <2>3, <2>4
<1> HIDE DEF odd
<1> QED
  BY <1>1, <1>2

\* So it is a packet that was sent when one alone is missing.
LEMMA RecoveredIsSource ==
  ASSUME OneLap, NEW r \in Receivers, Clean(r), NEW f \in FecPackets, Honest(f),
         Recovers(r, f)
  PROVE  Recovered(r, f) \in Sources
<1> DEFINE s == Recovered(r, f).seq
           X == Xor(r, f)
<1>1. /\ Missing(r, f) = {s} /\ Recovered(r, f) = [seq |-> s, content |-> X]
  BY RecoveredIs DEF Packets
<1> HIDE DEF s, X
<1>2. f.covered \subseteq Wires
  BY DEF FecPackets
<1>3. s \in f.covered \ Seqs(r.cache)
  BY <1>1 DEF Missing, Clean
<1>4. f.covered \ Seqs(r.cache) = {s}
  <2> DEFINE G == f.covered \ Seqs(r.cache)
  <2>1. IsFiniteSet(G) /\ Cardinality(G) \in Nat /\ Cardinality(G) < 2
    BY <1>2, FewWires DEF Recovers
  <2>2. ASSUME NEW u \in G, u # s PROVE FALSE
    <3>1. {s, u} \subseteq G
      BY <1>3, <2>2
    <3>2. Cardinality({s}) = 1 /\ IsFiniteSet({s})
      BY FS_Singleton
    <3>3. Cardinality({s} \cup {u}) = 2
      <4>1. u \notin {s}
        BY <2>2
      <4>2. Cardinality({s} \cup {u}) = Cardinality({s}) + 1
        BY <3>2, <4>1, FS_AddElement
      <4> QED
        BY <3>2, <4>2
    <3>4. {s} \cup {u} = {s, u}
      OBVIOUS
    <3>5. Cardinality({s, u}) <= Cardinality(G)
      BY <2>1, <3>1, FS_Subset
    <3> HIDE DEF G
    <3> QED
      BY <2>1, <3>3, <3>4, <3>5
  <2> QED
    BY <1>3, <2>2
<1>5. X = {n \in Numbers : Wire(n) = s}
  BY <1>4, XorIs DEF X
<1>6. X # {}
  <2> SUFFICES ASSUME X = {} PROVE FALSE
    OBVIOUS
  <2>1. Cardinality(X) = 0
    BY FS_EmptySet
  <2>2. Cardinality(X) % 2 = 1
    BY DEF Recovers, X
  <2> QED
    BY <2>1, <2>2
<1>7. PICK n \in X : TRUE
  BY <1>6
<1>8. n \in Numbers /\ Wire(n) = s /\ X = {n}
  BY <1>5, <1>7, NumbersApart
<1> QED
  BY <1>1, <1>8 DEF Sources

\* A packet that was sent is stored and noted.
LEMMA NotedClean ==
  ASSUME OneLap, NEW r \in Receivers, Clean(r), NEW p \in Sources
  PROVE  LET s == Noted(r, p) IN s \in Receivers /\ Clean(s)
<1> DEFINE s == Noted(r, p)
<1>1. p \in Packets
  BY SourcesArePackets
<1>2. /\ s \in Receivers /\ s.cache \subseteq r.cache \cup {p}
      /\ s.recovered = r.recovered /\ s.last = r.last
      /\ \/ s.pending = r.pending /\ s.history = r.history \cup {p.seq}
         \/ s.pending = << >> /\ p.seq < Low /\ r.last > High
  BY <1>1, NotedIs
<1> HIDE DEF s
<1>3. ~(p.seq < Low /\ r.last > High)
  <2>1. PICK n \in Numbers : p.seq = Wire(n)
    BY SourceIs
  <2>2. CASE r.last = 0
    BY <2>2, FecAssumption
  <2>3. CASE \E k \in Numbers : r.last = Wire(k)
    <3>1. n \in Start - Count * Stride .. Start + MaxPackets - 1
      <4>1. PICK c \in Nat : c = Count * Stride
        <5>1. Count \in Nat /\ Stride \in Nat
          BY FecAssumption
        <5> QED
          BY <5>1
      <4>2. n \in Start - c .. Start + MaxPackets - 1
        BY FecAssumption DEF Numbers
      <4> QED
        BY <4>1, <4>2
    <3> QED
      BY <2>1, <2>3, <3>1 DEF OneLap
  <2> QED
    BY <2>2, <2>3 DEF Clean
<1>4. s.pending = r.pending /\ s.history = r.history \cup {p.seq}
  BY <1>2, <1>3
<1>5. Seqs(s.cache) \subseteq s.history
  BY <1>2, <1>4 DEF Seqs, Clean
<1> QED
  BY <1>2, <1>4, <1>5 DEF Clean, s

\* The loop finds a packet that was sent, or none.
LEMMA ScannedClean ==
  ASSUME OneLap, NEW r \in Receivers, Clean(r), NEW seq
  PROVE  LET y == Scanned(r, seq)
         IN  /\ Clean(y.r)
             /\ y.found = << >> \/ \E p \in Sources : y.found = <<p>>
<1> DEFINE y == Scanned(r, seq)
           q == y.r.pending
<1>1. /\ y.r = [r EXCEPT !.pending = q] /\ y.r \in Receivers
      /\ \A k \in 1 .. Len(q) : \E j \in 1 .. Len(r.pending) : q[k] = r.pending[j]
      /\ \/ y.found = << >>
         \/ \E i \in 1 .. Len(r.pending) :
              /\ Recovers(r, r.pending[i])
              /\ y.found = <<Recovered(r, r.pending[i])>>
  BY ScannedIs
<1> HIDE DEF y
<1>2. /\ y.r.cache = r.cache /\ y.r.recovered = r.recovered /\ y.r.history = r.history
      /\ y.r.last = r.last
  BY <1>1 DEF Receivers
<1>3. Clean(y.r)
  BY <1>1, <1>2 DEF Clean
<1>4. ASSUME NEW i \in 1 .. Len(r.pending), Recovers(r, r.pending[i])
      PROVE  Recovered(r, r.pending[i]) \in Sources
  <2>1. r.pending[i] \in FecPackets
    BY ElementOfSeq DEF Receivers
  <2>2. Honest(r.pending[i])
    BY DEF Clean
  <2> QED
    BY <1>4, <2>1, <2>2, RecoveredIsSource
<1> QED
  BY <1>1, <1>3, <1>4 DEF y

\* What the recursion goes through.
CleanLoads ==
  {x \in Loads : Clean(x.r) /\ Range(x.found) \subseteq Sources /\ Range(x.buffer) \subseteq Sources}

\* What no packet and what one packet amounts to.
LEMMA RangeOfOne ==
  /\ Range(<< >>) = {}
  /\ \A p : Range(<<p>>) = {p} /\ <<p>>[1] = p
<1>1. DOMAIN << >> = {}
  BY EmptySeq
<1>2. \A p : DOMAIN <<p>> = {1} /\ <<p>>[1] = p
  OBVIOUS
<1> QED
  BY <1>1, <1>2 DEF Range

\* A level of the recursion goes through packets that were sent.
LEMMA TakenClean ==
  ASSUME OneLap, NEW x \in CleanLoads, Load(x)
  PROVE  Taken(x) \in CleanLoads
<1>1. CASE x.found = << >>
  BY <1>1 DEF Taken
<1>2. CASE x.found # << >>
  <2> DEFINE p == x.found[1]
             s == Noted(x.r, p)
             z == Scanned(s, p.seq)
             y == Taken(x)
  <2>1. /\ p \in Packets /\ s \in Receivers
        /\ y.r = z.r /\ y.found = z.found /\ y.buffer = x.buffer \o z.found
        /\ Load(y)
    BY <1>2, TakenIs
  <2>2. p \in Sources
    <3>1. PICK e \in Packets : x.found = <<e>>
      BY <1>2 DEF Load
    <3>2. p = e /\ Range(x.found) = {e}
      BY <3>1, RangeOfOne
    <3> QED
      BY <3>2 DEF CleanLoads
  <2> HIDE DEF p, y
  <2>3. s \in Receivers /\ Clean(s)
    <3>1. x.r \in Receivers /\ Clean(x.r)
      BY DEF CleanLoads, Load
    <3> QED
      BY <2>2, <3>1, NotedClean
  <2> HIDE DEF s
  <2>4. /\ Clean(z.r)
        /\ z.found = << >> \/ \E e \in Sources : z.found = <<e>>
    BY <2>3, ScannedClean
  <2> HIDE DEF z
  <2>5. Range(z.found) \subseteq Sources
    BY <2>4, RangeOfOne
  <2>6. x.buffer \in Seq(Packets) /\ z.found \in Seq(Packets) /\ Range(x.buffer) \subseteq Sources
    BY <2>1 DEF Load, CleanLoads
  <2>7. Range(x.buffer \o z.found) \subseteq Sources
    <3> DEFINE b == x.buffer
               c == z.found
    <3>1. \A i \in DOMAIN b : b[i] \in Sources
      BY <2>6 DEF Range
    <3>2. \A i \in DOMAIN c : c[i] \in Sources
      BY <2>5 DEF Range
    <3> HIDE DEF b, c
    <3>3. b \in Seq(Packets) /\ c \in Seq(Packets)
      BY <2>6 DEF b, c
    <3>4. ASSUME NEW i \in DOMAIN (b \o c) PROVE (b \o c)[i] \in Sources
      <4> HIDE DEF Packets, Sources
      <4>1. /\ i \in 1 .. Len(b) + Len(c) /\ Len(b) \in Nat /\ Len(c) \in Nat
            /\ (b \o c)[i] = IF i <= Len(b) THEN b[i] ELSE c[i - Len(b)]
            /\ DOMAIN b = 1 .. Len(b) /\ DOMAIN c = 1 .. Len(c)
        BY <3>3
      <4>2. CASE i <= Len(b)
        BY <3>1, <4>1, <4>2
      <4>3. CASE ~(i <= Len(b))
        <5>1. i - Len(b) \in 1 .. Len(c)
          BY <4>1, <4>3
        <5> QED
          BY <3>2, <4>1, <4>3, <5>1
      <4> QED
        BY <4>2, <4>3
    <3>5. Range(b \o c) \subseteq Sources
      BY <3>4 DEF Range
    <3> QED
      BY <3>5 DEF b, c
  <2>8. y \in Loads
    BY <2>1 DEF Load, Loads
  <2> QED
    BY <2>1, <2>4, <2>5, <2>7, <2>8 DEF CleanLoads, y
<1> QED
  BY <1>1, <1>2

\* The way back.
LEMMA UnwoundClean ==
  ASSUME NEW x \in CleanLoads, Load(x)
  PROVE  LET s == Unwound(x) IN s \in Receivers /\ Clean(s)
<1> DEFINE s == Unwound(x)
<1>1. /\ s \in Receivers /\ s.cache = x.r.cache /\ s.history = x.r.history
      /\ s.pending = x.r.pending
      /\ s.recovered = x.r.recovered \cup Range(x.buffer)
      /\ s.last = x.r.last \/ \E p \in Range(x.buffer) : s.last = p.seq
  BY UnwoundIs
<1> HIDE DEF s
<1>2. Clean(x.r) /\ Range(x.buffer) \subseteq Sources
  BY DEF CleanLoads
<1>3. s.last = 0 \/ \E n \in Numbers : s.last = Wire(n)
  BY <1>1, <1>2, SourceIs DEF Clean
<1> QED
  BY <1>1, <1>2, <1>3 DEF Clean, s

\* Passing a packet on.
LEMMA PassedClean ==
  ASSUME NEW r \in Receivers, Clean(r), NEW p \in Sources
  PROVE  LET s == Passed(r, p) IN s \in Receivers /\ Clean(s)
<1> DEFINE s == Passed(r, p)
<1>1. /\ s \in Receivers /\ s.cache = r.cache /\ s.history = r.history
      /\ s.pending = r.pending /\ s.recovered = r.recovered
      /\ s.last \in {r.last, p.seq}
  BY SourcesArePackets, PassedIs
<1> HIDE DEF s
<1>2. s.last = 0 \/ \E n \in Numbers : s.last = Wire(n)
  BY <1>1, SourceIs DEF Clean
<1> QED
  BY <1>1, <1>2 DEF Clean, s

\* The number of an FEC packet is one of the stream or a little before.
NearStart(f) ==
  \E a \in Start - Count * Stride .. Start + MaxPackets - 1 : f.seq = Wire(a)

Faithful ==
  /\ Calm /\ Clean(receiver)
  /\ \A m \in net : m.type # "data" => Honest(m) /\ NearStart(m)

\* The number of an FEC packet, by which the receiver may empty its history.
LEMMA FecsAreNear ==
  ASSUME NEW n \in Numbers, NEW has \in SUBSET Numbers, NEW f \in Fecs(n, has)
  PROVE  NearStart(f)
<1>1. PICK seq \in Int, nums \in SUBSET Int, masked \in BOOLEAN :
        /\ f = Fec(seq, nums, has, masked)
        /\ seq > n - Count * Stride /\ seq <= n
  BY FecsAre
<1>2. f.seq = Wire(seq)
  BY <1>1 DEF Fec
<1>3. seq \in Start - Count * Stride .. Start + MaxPackets - 1
  <2>1. PICK c \in Nat : c = Count * Stride
    <3>1. Count \in Nat /\ Stride \in Nat
      BY FecAssumption
    <3> QED
      BY <3>1
  <2>2. seq \in Start - c .. Start + MaxPackets - 1
    BY <1>1, <2>1, FecAssumption DEF Numbers
  <2> QED
    BY <2>1, <2>2
<1> QED
  BY <1>2, <1>3 DEF NearStart

\* Nothing was recovered at the beginning.
LEMMA InitFaithful == Init => Faithful
<1> SUFFICES ASSUME Init PROVE Faithful
  OBVIOUS
<1>1. Calm /\ Len(receiver.pending) = 0
  BY InitCalm, NewcomerIs
<1>2. Clean(receiver) /\ net = {}
  BY <1>1 DEF Init, Clean, Seqs
<1> QED
  BY <1>1, <1>2 DEF Faithful

\* In a grid the sender lacks no packet before the one it sends.
LEMMA SendFaithful ==
  ASSUME OneLap, MaxLateGrid = 0, Faithful, NEW n \in Numbers, Send(n)
  PROVE  Faithful'
<1>1. Calm' /\ got' \in SUBSET Numbers /\ n \in got'
  BY SendCalm DEF Faithful, Calm, Send
<1>2. mode = "mask" \/ \A k \in Numbers : k <= n => k \in got'
  <2> SUFFICES ASSUME mode # "mask", NEW k \in Numbers, k <= n, k \notin got' PROVE FALSE
    OBVIOUS
  <2> DEFINE late == {i \in Numbers : i \notin got' /\ \E j \in got' : j > i}
  <2>1. late = Late'
    BY DEF Late
  <2>2. k < n
    <3>1. k # n
      BY <1>1
    <3> QED
      BY <3>1, FecAssumption DEF Numbers
  <2>3. k \in late
    BY <1>1, <2>2
  <2>4. Cardinality(late) <= 0
    BY <2>1 DEF Send
  <2>5. IsFiniteSet(late)
    <3>1. Start \in Int /\ Start + MaxPackets - 1 \in Int
      BY FecAssumption
    <3>2. IsFiniteSet(Numbers)
      BY <3>1, FS_Interval DEF Numbers
    <3> QED
      BY <3>2, FS_Subset
  <2> HIDE DEF late
  <2>6. Cardinality(late) \in Nat /\ Cardinality(late) # 0
    BY <2>3, <2>5, FS_CardinalityType, FS_EmptySet
  <2> QED
    BY <2>4, <2>6
<1>3. ASSUME NEW m \in net', m.type # "data" PROVE Honest(m) /\ NearStart(m)
  <2>1. CASE m \in net
    BY <1>3, <2>1 DEF Faithful
  <2>2. CASE m = Data(n)
    BY <1>3, <2>2 DEF Data
  <2>3. CASE m \in Fecs(n, got')
    BY <1>1, <1>2, <2>3, FecsAreHonest, FecsAreNear
  <2> QED
    BY <2>1, <2>2, <2>3 DEF Send
<1>4. receiver' = receiver
  BY DEF Send
<1> QED
  BY <1>1, <1>3, <1>4 DEF Faithful, Clean, Honest, NearStart

\* Whatever a message leads to, what is recovered was sent.
LEMMA ReceiveFaithful ==
  ASSUME OneLap, Faithful, NEW m \in net, Receive(m)
  PROVE  Faithful'
<1>1. Calm' /\ receiver \in Receivers /\ Clean(receiver) /\ m \in Messages
  BY ReceiveCalm DEF Faithful, Calm
<1>2. \A e \in CleanLoads : Load(e) => Taken(e) \in CleanLoads
  BY TakenClean
<1>3. CleanLoads \in SUBSET Loads
  BY DEF CleanLoads
<1>4. \A k \in net' : k \in net
  BY DEF Receive
<1>5. ASSUME receiver' \in Receivers, Clean(receiver') PROVE Faithful'
  <2>1. \A k \in net' : k.type # "data" => Honest(k) /\ NearStart(k)
    BY <1>4 DEF Faithful
  <2>2. Clean(receiver)'
    BY <1>5 DEF Clean, Honest
  <2> QED
    BY <1>1, <2>1, <2>2 DEF Faithful, Honest, NearStart
<1>6. CASE m.type = "data"
  <2> DEFINE p == Packet(m)
  <2>1. p \in Sources /\ p \in Packets
    BY <1>1, <1>6, MessageIs DEF Sources
  <2> DEFINE x == [r |-> receiver, found |-> <<p>>, buffer |-> << >>]
  <2>2. x \in CleanLoads
    <3>1. x \in Loads
      BY <1>1, <2>1, FirstLoad, TakenLoads
    <3> QED
      BY <1>1, <2>1, <3>1, RangeOfOne DEF CleanLoads
  <2>3. PICK y \in CleanLoads : /\ Load(y)
                                /\ HandleData(receiver, m) = Passed(Unwound(y), p)
    BY <1>1, <1>2, <1>3, <2>1, <2>2, HandleDataIs
  <2> HIDE DEF p
  <2> DEFINE u == Unwound(y)
  <2>4. u \in Receivers /\ Clean(u)
    BY <2>3, UnwoundClean
  <2> HIDE DEF u
  <2>5. Passed(u, p) \in Receivers /\ Clean(Passed(u, p))
    BY <2>1, <2>4, PassedClean
  <2>6. receiver' = Passed(u, p)
    BY <1>6, <2>3 DEF Receive, u
  <2> QED
    BY <1>5, <2>5, <2>6
<1>7. CASE m.type # "data"
  <2>1. m \in FecPackets /\ Honest(m) /\ NearStart(m)
    BY <1>1, <1>7, MessageIs DEF Faithful
  <2>2. Lapped(receiver, m.seq) = receiver
    <3>1. ~(m.seq < Low /\ receiver.last > High)
      <4>1. CASE receiver.last = 0
        BY <4>1, FecAssumption
      <4>2. CASE \E k \in Numbers : receiver.last = Wire(k)
        BY <2>1, <4>2 DEF OneLap, NearStart
      <4> QED
        BY <1>1, <4>1, <4>2 DEF Clean
    <3> QED
      BY <3>1 DEF Lapped
  <2> DEFINE p == Recovered(receiver, m)
             x == [r |-> Remembered(receiver, p), found |-> <<p>>, buffer |-> <<p>>]
             t == [receiver EXCEPT !.pending = Append(receiver.pending, m)]
  <2>3. ASSUME Recovers(receiver, m) PROVE x \in CleanLoads
    <3>1. p \in Sources
      BY <1>1, <2>1, <2>3, RecoveredIsSource
    <3> HIDE DEF p
    <3>2. p \in Packets
      BY <3>1, SourcesArePackets
    <3> DEFINE r == Remembered(receiver, p)
    <3>3. /\ r \in Receivers /\ r.cache = receiver.cache /\ r.pending = receiver.pending
          /\ r.recovered = receiver.recovered /\ r.last = receiver.last
          /\ r.history = receiver.history \cup {p.seq}
      BY <1>1, <3>2, RememberedIs
    <3> HIDE DEF r
    <3>4. Clean(r)
      BY <1>1, <3>3 DEF Clean
    <3>5. x \in Loads
      BY <3>2, <3>3, FirstLoad, TakenLoads DEF r
    <3> QED
      BY <3>1, <3>4, <3>5, RangeOfOne DEF CleanLoads, r
  <2>4. receiver' = HandleFec(receiver, m)
    BY <1>7 DEF Receive
  <2>5. \/ \E y \in CleanLoads : Load(y) /\ HandleFec(receiver, m) = Unwound(y)
        \/ HandleFec(receiver, m) = t
    BY <1>1, <1>2, <1>3, <2>1, <2>2, <2>3, HandleFecIs
  <2>6. CASE \E y \in CleanLoads : Load(y) /\ HandleFec(receiver, m) = Unwound(y)
    BY <1>5, <2>4, <2>6, UnwoundClean
  <2>7. CASE HandleFec(receiver, m) = t
    <3>1. /\ t \in Receivers /\ t.cache = receiver.cache /\ t.history = receiver.history
          /\ t.recovered = receiver.recovered /\ t.last = receiver.last
          /\ \A k \in 1 .. Len(t.pending) :
               t.pending[k] = m \/ \E j \in 1 .. Len(receiver.pending) :
                                     t.pending[k] = receiver.pending[j]
      BY <1>1, <2>1, WaitsIs
    <3> HIDE DEF t
    <3>2. Clean(t)
      BY <1>1, <2>1, <3>1 DEF Clean
    <3> QED
      BY <1>5, <2>4, <2>7, <3>1, <3>2
  <2> QED
    BY <2>5, <2>6, <2>7
<1> QED
  BY <1>6, <1>7

\* Faithful is inductive.
LEMMA NextFaithful ==
  ASSUME OneLap, MaxLateGrid = 0, Faithful, [Next]_vars
  PROVE  Faithful'
<1>1. Calm'
  BY NextCalm DEF Faithful
<1>2. CASE \E n \in Numbers : Send(n)
  BY <1>2, SendFaithful
<1>3. CASE \E m \in net : Receive(m)
  BY <1>3, ReceiveFaithful
<1>4. CASE \E m \in net : Lose(m)
  BY <1>1, <1>4 DEF Lose, Faithful, Clean, Honest, NearStart
<1>5. CASE UNCHANGED vars
  BY <1>1, <1>5 DEF vars, Faithful, Clean, Honest, NearStart
<1> QED
  BY <1>2, <1>3, <1>4, <1>5 DEF Next

\* What is recovered is the packet of its number, as it was sent: the history
\* decides what is missing, the cache what is XORed, and the cache holds only
\* what is in the history, until the history is emptied (OneLap); the FEC packets
\* of a grid do not say what the sender lacked (MaxLateGrid).
THEOREM WhatIsRecoveredWasSent ==
  ASSUME OneLap, MaxLateGrid = 0
  PROVE  Spec => []RecoveredIsGenuine
<1>1. Faithful => RecoveredIsGenuine
  <2> SUFFICES ASSUME Faithful, NEW p \in receiver.recovered
               PROVE  \E n \in Numbers : p.content = {n} /\ p.seq = Wire(n)
    BY DEF RecoveredIsGenuine
  <2>1. p \in Sources
    BY DEF Faithful, Clean
  <2> QED
    BY <2>1, SourceIs
<1>2. Faithful /\ [Next]_vars => Faithful'
  BY NextFaithful
<1> QED
  BY <1>1, <1>2, InitFaithful, PTL DEF Spec

----------------------------------------------------------------------------
(* The reader of RTCP packets.                                             *)

States ==
  {"TopLevel", "ReportBlockItem", "SDESChunk", "BYEItem", "NACKItem", "AppItem",
   "PsfbAppItem", "REMBItem"}

Types ==
  {"None", "Invalid", "Sr", "Rr", "Sdes", "Bye", "Nack", "PsfbApp", "App",
   "ReportBlockItem", "SdesChunk", "NackItem", "AppItem", "Remb", "RembItem"}

ParserType ==
  parser \in [pos : Nat, end : Nat, state : States, left : Nat, type : Types]

\* Inductive: the block that is read lies in the packet.
Inside ==
  /\ words \in Datagrams /\ ParserType
  /\ parser.pos <= parser.end /\ parser.end <= Len(words)

\* A step goes on, or back to the top level, or stops; it never goes back.
Moves ==
  /\ parser'.pos <= parser'.end /\ parser'.end <= Len(words)
  /\ \/ parser'.pos > parser.pos
     \/ /\ parser'.pos = parser.pos /\ parser'.state = "TopLevel"
        /\ \/ parser.state # "TopLevel" /\ parser'.type = parser.type
           \/ parser.type # "Invalid" /\ parser'.type = "Invalid"

\* Reading is not over.
Reading == parser.state # "TopLevel" \/ parser.type # "Invalid"

\* Every word of a packet has a length and a count (RTCPParseCommonHeader).
LEMMA WordsAreTyped ==
  ASSUME Inside
  PROVE  /\ Len(words) \in Nat
         /\ \A i \in 1 .. Len(words) : Word(words[i])
BY ParserAssumption DEF Inside

\* A block that is all there: its header and its size.
LEMMA BlockIsThere ==
  ASSUME Inside, AtBlock
  PROVE  /\ Header.ic \in Nat /\ Header.len \in Nat
         /\ Size \in Nat /\ Size >= 1
         /\ parser.pos + Size <= Len(words) /\ Len(words) \in Nat
         /\ parser.pos \in Nat
<1>1. Len(words) \in Nat /\ parser.pos \in Nat /\ parser.pos < Len(words)
  BY WordsAreTyped DEF Inside, ParserType, AtBlock, AtHeader
<1>2. Word(Header) /\ Header.hdr
  BY <1>1, WordsAreTyped DEF Header, AtBlock, AtHeader
<1>3. Header.ic \in Nat /\ Header.len \in Nat
  BY <1>2 DEF Word
<1> QED
  BY <1>1, <1>3 DEF Size, AtBlock

\* What remains of the block that is read.
LEMMA LengthIsThere ==
  ASSUME Inside
  PROVE  /\ Length \in Nat /\ parser.pos \in Nat /\ parser.end \in Nat
         /\ parser.end = parser.pos + Length /\ Len(words) \in Nat
         /\ parser.end <= Len(words) /\ parser.left \in Nat
BY WordsAreTyped DEF Inside, ParserType, Length

\* Entering n words of the block.
LEMMA EnterMoves ==
  ASSUME Inside, AtBlock, NEW n \in 1 .. Size, NEW s \in States, NEW t \in Types,
         Enter(n, s, t)
  PROVE  ParserType' /\ Moves
<1> DEFINE r == [pos |-> parser.pos + n, end |-> parser.pos + Size, state |-> s,
                 left |-> Header.ic, type |-> t]
<1>1. parser' = r
  BY DEF Enter
<1>2. /\ Header.ic \in Nat /\ Size \in Nat /\ parser.pos \in Nat /\ Len(words) \in Nat
      /\ parser.pos + Size <= Len(words)
  BY BlockIsThere
<1>3. /\ parser.pos + n \in Nat /\ parser.pos + Size \in Nat /\ parser.pos + n > parser.pos
      /\ parser.pos + n <= parser.pos + Size
  BY <1>2
<1> QED
  BY <1>1, <1>2, <1>3 DEF ParserType, Moves, States, Types

\* Passing the block (EndCurrentBlock).
LEMMA SkipMoves ==
  ASSUME Inside, AtBlock, Skip
  PROVE  ParserType' /\ Moves
<1>1. /\ Size \in Nat /\ Size >= 1 /\ parser.pos \in Nat /\ Len(words) \in Nat
      /\ parser.pos + Size <= Len(words)
  BY BlockIsThere
<1>2. parser' = [parser EXCEPT !.pos = parser.pos + Size, !.end = parser.pos + Size]
  BY DEF Skip
<1>3. ParserType
  BY DEF Inside
<1>4. parser.pos + Size \in Nat /\ parser.pos + Size > parser.pos
  BY <1>1
<1>5. ParserType'
  BY <1>2, <1>3, <1>4 DEF ParserType
<1>6. parser'.pos = parser.pos + Size /\ parser'.end = parser.pos + Size
  BY <1>2, <1>3 DEF ParserType
<1> QED
  BY <1>1, <1>4, <1>5, <1>6 DEF Moves

\* Leaving the block (EndCurrentBlock, State_TopLevel).
LEMMA LeaveMoves ==
  ASSUME Inside, parser.state # "TopLevel", Leave
  PROVE  ParserType' /\ Moves
<1>1. parser' = [parser EXCEPT !.pos = parser.end, !.state = "TopLevel"]
  BY DEF Leave
<1>2. /\ ParserType /\ parser.end \in Nat /\ parser.pos \in Nat
      /\ parser.pos <= parser.end /\ parser.end <= Len(words)
  BY DEF Inside, ParserType
<1>3. parser.end > parser.pos \/ parser.end = parser.pos
  BY <1>2
<1>4. ParserType'
  BY <1>1, <1>2 DEF ParserType, States
<1>5. /\ parser'.pos = parser.end /\ parser'.end = parser.end
      /\ parser'.state = "TopLevel" /\ parser'.type = parser.type
  BY <1>1, <1>2 DEF ParserType
<1> QED
  BY <1>2, <1>3, <1>4, <1>5 DEF Moves

\* Taking n words of the block.
LEMMA TakeMoves ==
  ASSUME Inside, NEW n \in 1 .. Length, NEW t \in Types, Take(n, t)
  PROVE  ParserType' /\ Moves
<1>1. parser' = [parser EXCEPT !.pos = parser.pos + n, !.type = t]
  BY DEF Take
<1>2. /\ ParserType /\ parser.pos + n \in Nat /\ parser.pos + n > parser.pos
      /\ parser.pos + n <= parser.end /\ parser.end <= Len(words)
  BY LengthIsThere DEF Inside
<1> QED
  BY <1>1, <1>2 DEF ParserType, Moves, States, Types

\* Reading ends here.
LEMMA StopMoves ==
  ASSUME Inside, Stop
  PROVE  ParserType' /\ Moves
<1>1. /\ parser' = [parser EXCEPT !.type = "Invalid"] /\ ParserType
      /\ parser.state = "TopLevel" /\ parser.type # "Invalid"
      /\ parser.pos <= parser.end /\ parser.end <= Len(words)
  BY DEF Stop, Inside
<1>2. ParserType'
  BY <1>1 DEF ParserType, Types
<1>3. /\ parser'.pos = parser.pos /\ parser'.end = parser.end
      /\ parser'.state = parser.state /\ parser'.type = "Invalid"
  BY <1>1 DEF ParserType, Types
<1> QED
  BY <1>1, <1>2, <1>3 DEF Moves

\* Every block that IterateTopLevel meets.
LEMMA BlockMoves ==
  ASSUME Inside, Block
  PROVE  ParserType' /\ Moves
<1>1. ASSUME SenderReport PROVE ParserType' /\ Moves
  <2>1. AtBlock /\ Size \in Nat /\ Size >= 1
    BY <1>1, BlockIsThere DEF SenderReport
  <2>2. \/ Enter(Size, "TopLevel", "Invalid")
        \/ Enter(Size, "TopLevel", "Sr")
        \/ Size >= 7 /\ Enter(7, "ReportBlockItem", "Sr")
    BY <1>1 DEF SenderReport
  <2> QED
    BY <2>1, <2>2, EnterMoves DEF States, Types
<1>2. ASSUME ReceiverReport PROVE ParserType' /\ Moves
  <2>1. AtBlock /\ Size \in Nat /\ parser.type # "Invalid" /\ parser.state = "TopLevel"
    BY <1>2, BlockIsThere DEF ReceiverReport, AtBlock
  <2>2. CASE Enter(0, "TopLevel", "Invalid")
    <3> DEFINE r == [pos |-> parser.pos + 0, end |-> parser.pos + Size,
                     state |-> "TopLevel", left |-> Header.ic, type |-> "Invalid"]
    <3>1. /\ parser' = r /\ Header.ic \in Nat /\ Size >= 1 /\ parser.pos \in Nat
          /\ parser.pos + Size <= Len(words) /\ Len(words) \in Nat
      BY <2>1, <2>2, BlockIsThere DEF Enter
    <3>2. /\ parser.pos + 0 = parser.pos /\ parser.pos + Size \in Nat
          /\ parser.pos <= parser.pos + Size
      BY <2>1, <3>1
    <3> QED
      BY <2>1, <3>1, <3>2 DEF ParserType, Moves, States, Types
  <2>3. CASE Size >= 2 /\ Enter(2, "ReportBlockItem", "Rr")
    BY <2>1, <2>3, EnterMoves DEF States, Types
  <2> QED
    BY <1>2, <2>2, <2>3 DEF ReceiverReport
<1>3. ASSUME Sdes PROVE ParserType' /\ Moves
  <2>1. AtBlock /\ Size \in Nat
    BY <1>3, BlockIsThere DEF Sdes
  <2>2. Skip \/ (Size >= 2 /\ Enter(1, "SDESChunk", "Sdes"))
    BY <1>3 DEF Sdes
  <2> QED
    BY <2>1, <2>2, EnterMoves, SkipMoves DEF States, Types
<1>4. ASSUME Bye PROVE ParserType' /\ Moves
  <2>1. /\ AtBlock /\ Size \in Nat /\ Header.ic \in Nat /\ parser.pos \in Nat
        /\ Len(words) \in Nat /\ parser.pos + Size <= Len(words)
    BY <1>4, BlockIsThere DEF Bye
  <2>2. CASE Skip
    BY <2>1, <2>2, SkipMoves
  <2>3. CASE ~Skip
    <3> DEFINE k == parser.pos + 2 + (IF Size > Header.ic THEN Header.ic - 1 ELSE 0)
               r == [pos |-> k, end |-> parser.pos + Size, state |-> "BYEItem",
                     left |-> 0, type |-> "Bye"]
    <3>1. parser' = r /\ Size >= 2 /\ Header.ic # 0
      BY <1>4, <2>3 DEF Bye
    <3>2. /\ k \in Nat /\ k > parser.pos /\ k <= parser.pos + Size
          /\ parser.pos + Size \in Nat
      BY <2>1, <3>1
    <3> HIDE DEF k
    <3> QED
      BY <2>1, <3>1, <3>2 DEF ParserType, Moves, States, Types
  <2> QED
    BY <2>2, <2>3
<1>5. ASSUME TransportFeedback PROVE ParserType' /\ Moves
  <2>1. AtBlock /\ Size \in Nat
    BY <1>5, BlockIsThere DEF TransportFeedback
  <2>2. Skip \/ (Size >= 3 /\ Enter(3, "NACKItem", "Nack"))
    BY <1>5 DEF TransportFeedback
  <2> QED
    BY <2>1, <2>2, EnterMoves, SkipMoves DEF States, Types
<1>6. ASSUME PayloadFeedback PROVE ParserType' /\ Moves
  <2>1. AtBlock /\ Size \in Nat
    BY <1>6, BlockIsThere DEF PayloadFeedback
  <2>2. Skip \/ (Size >= 3 /\ Enter(3, "PsfbAppItem", "PsfbApp"))
    BY <1>6 DEF PayloadFeedback
  <2> QED
    BY <2>1, <2>2, EnterMoves, SkipMoves DEF States, Types
<1>7. ASSUME App PROVE ParserType' /\ Moves
  <2>1. AtBlock /\ Size \in Nat
    BY <1>7, BlockIsThere DEF App
  <2>2. Skip \/ (Size >= 3 /\ Enter(3, "AppItem", "App"))
    BY <1>7 DEF App
  <2> QED
    BY <2>1, <2>2, EnterMoves, SkipMoves DEF States, Types
<1>8. ASSUME Foreign PROVE ParserType' /\ Moves
  BY <1>8, SkipMoves DEF Foreign
<1> QED
  BY <1>1, <1>2, <1>3, <1>4, <1>5, <1>6, <1>7, <1>8 DEF Block

\* Every item of a block that Iterate meets.
LEMMA ItemMoves ==
  ASSUME Inside, Item
  PROVE  ParserType' /\ Moves
<1>0. /\ Length \in Nat /\ parser.pos \in Nat /\ parser.end \in Nat
      /\ parser.end = parser.pos + Length /\ Len(words) \in Nat
      /\ parser.end <= Len(words) /\ parser.left \in Nat /\ ParserType
  BY LengthIsThere DEF Inside
<1>1. ASSUME ReportBlockItem PROVE ParserType' /\ Moves
  <2>1. CASE Leave
    BY <1>1, <2>1, LeaveMoves DEF ReportBlockItem
  <2>2. CASE ~Leave
    <3>1. /\ Length >= 6 /\ parser.left # 0
          /\ parser' = [parser EXCEPT !.pos = parser.pos + 6, !.left = parser.left - 1,
                                      !.type = "ReportBlockItem"]
      BY <1>0, <1>1, <2>2 DEF ReportBlockItem, ReportWords
    <3>2. /\ parser.pos + 6 \in Nat /\ parser.pos + 6 <= parser.end
          /\ parser.pos + 6 > parser.pos /\ parser.left - 1 \in Nat
      BY <1>0, <3>1
    <3> QED
      BY <1>0, <3>1, <3>2 DEF ParserType, Moves, States, Types
  <2> QED
    BY <2>1, <2>2
<1>2. ASSUME SDESChunk PROVE ParserType' /\ Moves
  <2>1. CASE Leave
    BY <1>2, <2>1, LeaveMoves DEF SDESChunk
  <2>2. CASE ~Leave
    <3>1. parser.left # 0
      BY <1>2, <2>2 DEF SDESChunk
    <3>2. PICK j \in parser.pos + 2 .. parser.end :
            \/ parser' = [parser EXCEPT !.pos = j, !.left = parser.left - 1,
                                        !.type = "SdesChunk"]
            \/ parser' = [parser EXCEPT !.pos = j]
      BY <1>2, <2>2 DEF SDESChunk
    <3>3. /\ j \in Nat /\ j > parser.pos /\ j <= parser.end /\ parser.left - 1 \in Nat
      BY <1>0, <3>1
    <3> QED
      BY <1>0, <3>2, <3>3 DEF ParserType, Moves, States, Types
  <2> QED
    BY <2>1, <2>2
<1>3. ASSUME BYEItem PROVE ParserType' /\ Moves
  BY <1>3, LeaveMoves DEF BYEItem
<1>4. ASSUME NACKItem PROVE ParserType' /\ Moves
  <2>1. parser.state # "TopLevel" /\ (Leave \/ (Length >= 1 /\ Take(1, "NackItem")))
    BY <1>0, <1>4 DEF NACKItem
  <2> QED
    BY <1>0, <2>1, LeaveMoves, TakeMoves DEF Types
<1>5. ASSUME AppItem PROVE ParserType' /\ Moves
  <2> DEFINE n == IF Length > AppWords THEN AppWords ELSE Length
  <2>1. parser.state # "TopLevel" /\ (Leave \/ (Length >= 1 /\ Take(n, "AppItem")))
    BY <1>0, <1>5 DEF AppItem
  <2>2. Length >= 1 => n \in 1 .. Length
    BY <1>0, ParserAssumption
  <2> HIDE DEF n
  <2> QED
    BY <2>1, <2>2, LeaveMoves, TakeMoves DEF Types
<1>6. ASSUME PsfbAppItem PROVE ParserType' /\ Moves
  <2>1. CASE Leave
    BY <1>6, <2>1, LeaveMoves DEF PsfbAppItem
  <2>2. CASE ~Leave
    <3>1. /\ Length >= 1
          /\ parser' = [parser EXCEPT !.pos = parser.pos + 1, !.state = "REMBItem",
                                      !.type = "Remb"]
      BY <1>0, <1>6, <2>2 DEF PsfbAppItem
    <3>2. /\ parser.pos + 1 \in Nat /\ parser.pos + 1 <= parser.end
          /\ parser.pos + 1 > parser.pos
      BY <1>0, <3>1
    <3> QED
      BY <1>0, <3>1, <3>2 DEF ParserType, Moves, States, Types
  <2> QED
    BY <2>1, <2>2
<1>7. ASSUME REMBItem PROVE ParserType' /\ Moves
  <2>1. /\ parser.state # "TopLevel"
        /\ \/ Leave
           \/ ~(Length < 1) /\ ~(Length < 1 + SSRCs) /\ Take(1 + SSRCs, "RembItem")
    BY <1>7 DEF REMBItem
  <2>2. CASE Leave
    BY <2>1, <2>2, LeaveMoves
  <2>3. CASE ~(Length < 1) /\ ~(Length < 1 + SSRCs) /\ Take(1 + SSRCs, "RembItem")
    <3>1. parser.pos + 1 \in 1 .. Len(words)
      BY <1>0, <2>3
    <3>2. SSRCs \in Nat
      BY <3>1, WordsAreTyped DEF SSRCs, Word
    <3>3. 1 + SSRCs \in 1 .. Length
      BY <1>0, <2>3, <3>2
    <3> QED
      BY <2>3, <3>3, TakeMoves DEF Types
  <2> QED
    BY <2>1, <2>2, <2>3
<1> QED
  BY <1>1, <1>2, <1>3, <1>4, <1>5, <1>6, <1>7 DEF Item

\* Every step keeps the parser in the packet, and moves it.
LEMMA StepMoves ==
  ASSUME Inside, ParserNext
  PROVE  Inside' /\ Moves /\ Reading
<1>1. ParserType' /\ Moves /\ words' = words
  BY StopMoves, BlockMoves, ItemMoves DEF ParserNext
<1>2. ASSUME Item PROVE Reading
  <2>1. ReportBlockItem => parser.state # "TopLevel"
    BY DEF ReportBlockItem
  <2>2. SDESChunk => parser.state # "TopLevel"
    BY DEF SDESChunk
  <2>3. BYEItem => parser.state # "TopLevel"
    BY DEF BYEItem
  <2>4. NACKItem => parser.state # "TopLevel"
    BY DEF NACKItem
  <2>5. AppItem => parser.state # "TopLevel"
    BY DEF AppItem
  <2>6. PsfbAppItem => parser.state # "TopLevel"
    BY DEF PsfbAppItem
  <2>7. REMBItem => parser.state # "TopLevel"
    BY DEF REMBItem
  <2> QED
    BY <1>2, <2>1, <2>2, <2>3, <2>4, <2>5, <2>6, <2>7 DEF Item, Reading
<1>3. ASSUME Block PROVE Reading
  <2>1. SenderReport => AtBlock
    BY DEF SenderReport
  <2>2. ReceiverReport => AtBlock
    BY DEF ReceiverReport
  <2>3. Sdes => AtBlock
    BY DEF Sdes
  <2>4. Bye => AtBlock
    BY DEF Bye
  <2>5. TransportFeedback => AtBlock
    BY DEF TransportFeedback
  <2>6. PayloadFeedback => AtBlock
    BY DEF PayloadFeedback
  <2>7. App => AtBlock
    BY DEF App
  <2>8. Foreign => AtBlock
    BY DEF Foreign
  <2> QED
    BY <1>3, <2>1, <2>2, <2>3, <2>4, <2>5, <2>6, <2>7, <2>8 DEF Block, AtBlock, Reading
<1>4. ASSUME Stop PROVE Reading
  BY <1>4 DEF Stop, Reading
<1> QED
  BY <1>1, <1>2, <1>3, <1>4 DEF ParserNext, Inside, Moves

\* What a move leaves to do (ToDo).
LEMMA MovesLeaveLess ==
  ASSUME Inside, Inside', words' = words, Moves, Reading
  PROVE  ToDo' < ToDo /\ ToDo' >= 0
<1>1. /\ Len(words) \in Nat /\ Len(words)' = Len(words)
      /\ parser.pos \in Nat /\ parser'.pos \in Nat /\ parser'.pos <= Len(words)
  BY WordsAreTyped DEF Inside, ParserType, Moves
<1> DEFINE a == IF parser.state = "TopLevel" THEN 0 ELSE 1
           b == IF parser.type = "Invalid" THEN 0 ELSE 1
           c == IF parser'.state = "TopLevel" THEN 0 ELSE 1
           d == IF parser'.type = "Invalid" THEN 0 ELSE 1
<1>2. ToDo = 2 * (Len(words) - parser.pos) + a + b
  BY DEF ToDo, Done
<1>3. ToDo' = 2 * (Len(words) - parser'.pos) + c + d
  BY <1>1 DEF ToDo, Done
<1>4. a \in {0, 1} /\ b \in {0, 1} /\ c \in {0, 1} /\ d \in {0, 1}
  OBVIOUS
<1>5. /\ a + b > 0
      /\ \/ parser'.pos > parser.pos
         \/ parser'.pos = parser.pos /\ c + d < a + b
  BY DEF Moves, Reading
<1> DEFINE l == Len(words)
           p == parser.pos
           q == parser'.pos
<1>6. /\ l \in Nat /\ p \in Nat /\ q \in Nat /\ q <= l
      /\ q > p \/ (q = p /\ c + d < a + b)
      /\ a + b > 0
  BY <1>1, <1>5
<1> HIDE DEF a, b, c, d, l, p, q
<1>7. 2 * (l - q) + c + d < 2 * (l - p) + a + b /\ 2 * (l - q) + c + d >= 0
  <2>1. CASE q > p
    BY <2>1, <1>4, <1>6
  <2>2. CASE q = p /\ c + d < a + b
    BY <2>2, <1>4, <1>6
  <2> QED
    BY <2>1, <2>2, <1>6
<1> QED
  BY <1>2, <1>3, <1>7 DEF l, p, q

\* The parser stays inside its block and the block inside the packet, for
\* every packet, whatever its counts and lengths are (RTCPParserV2).
THEOREM ParserStaysInside == ParserSpec => []StaysInside
<1>1. ParserInit => Inside
  <2> SUFFICES ASSUME ParserInit PROVE Inside
    OBVIOUS
  <2>1. words \in Datagrams /\ Len(words) \in Nat
    BY ParserAssumption DEF ParserInit
  <2> QED
    BY <2>1 DEF ParserInit, ParserStart, Inside, ParserType, States, Types
<1>2. Inside /\ [ParserNext]_parserVars => Inside'
  <2>1. Inside /\ UNCHANGED parserVars => Inside'
    BY DEF Inside, ParserType, parserVars
  <2> QED
    BY <2>1, StepMoves
<1>3. Inside => StaysInside
  BY DEF Inside, ParserType, StaysInside
<1> QED
  BY <1>1, <1>2, <1>3, PTL DEF ParserSpec

\* Reading comes to an end: every step leaves less to do of what is finite
\* from the start (parse_rtcp_packet, IterateTopLevel, Iterate).
THEOREM ParserReadingEnds == ParserSpec => ReadingEnds
<1>1. ParserInit => Inside
  <2> SUFFICES ASSUME ParserInit PROVE Inside
    OBVIOUS
  <2>1. words \in Datagrams /\ Len(words) \in Nat
    BY ParserAssumption DEF ParserInit
  <2> QED
    BY <2>1 DEF ParserInit, ParserStart, Inside, ParserType, States, Types
<1>2. Inside /\ [ParserNext]_parserVars => Inside'
  <2>1. Inside /\ UNCHANGED parserVars => Inside'
    BY DEF Inside, ParserType, parserVars
  <2> QED
    BY <2>1, StepMoves
<1>3. Inside /\ [ParserNext]_parserVars => [ToDo' < ToDo /\ ToDo' >= 0]_parserVars
  <2> SUFFICES ASSUME Inside, ParserNext PROVE ToDo' < ToDo /\ ToDo' >= 0
    OBVIOUS
  <2>1. Inside' /\ Moves /\ Reading /\ words' = words
    BY StepMoves DEF ParserNext
  <2> QED
    BY <2>1, MovesLeaveLess
<1> QED
  BY <1>1, <1>2, <1>3, PTL DEF ParserSpec, ReadingEnds

----------------------------------------------------------------------------
(* Words that are written one behind another.                              *)

\* Every sequence is one over its own elements.
LEMMA SeqIs ==
  ASSUME NEW s, IsSeq(s), NEW S, \A i \in 1 .. Len(s) : s[i] \in S
  PROVE  s \in Seq(S)
<1>1. Len(s) \in Nat /\ s = [i \in 1 .. Len(s) |-> s[i]]
  BY DEF IsSeq
<1> DEFINE n == Len(s)
<1>2. n \in Nat /\ s \in [1 .. n -> S]
  BY <1>1
<1> HIDE DEF n
<1> QED
  BY <1>2, SeqDef

\* Conversely.
LEMMA IsSeqOfSeq ==
  ASSUME NEW S, NEW s \in Seq(S)
  PROVE  IsSeq(s) /\ \A i \in 1 .. Len(s) : s[i] \in S
BY DEF IsSeq

\* r is t behind s.
Joined(r, s, t) ==
  /\ IsSeq(r) /\ Len(r) = Len(s) + Len(t)
  /\ \A i \in 1 .. Len(s) : r[i] = s[i]
  /\ \A i \in 1 .. Len(t) : r[Len(s) + i] = t[i]

\* What \o makes of two sequences.
LEMMA ConcatIs ==
  ASSUME NEW s, IsSeq(s), NEW t, IsSeq(t)
  PROVE  Joined(s \o t, s, t)
<1> DEFINE S == {s[i] : i \in 1 .. Len(s)} \cup {t[i] : i \in 1 .. Len(t)}
<1>1. s \in Seq(S) /\ t \in Seq(S)
  BY SeqIs
<1> HIDE DEF S
<1>2. s \o t \in Seq(S)
  BY <1>1
<1>3. /\ Len(s \o t) = Len(s) + Len(t)
      /\ \A i \in 1 .. Len(s) : (s \o t)[i] = s[i]
      /\ \A i \in 1 .. Len(t) : (s \o t)[Len(s) + i] = t[i]
  BY <1>1
<1> QED
  BY <1>2, <1>3, IsSeqOfSeq DEF Joined

\* One more word.
LEMMA AppendIs ==
  ASSUME NEW s, IsSeq(s), NEW e
  PROVE  /\ IsSeq(Append(s, e)) /\ Len(Append(s, e)) = Len(s) + 1
         /\ Append(s, e)[Len(s) + 1] = e
         /\ \A i \in 1 .. Len(s) : Append(s, e)[i] = s[i]
<1> DEFINE S == {s[i] : i \in 1 .. Len(s)} \cup {e}
<1>1. s \in Seq(S) /\ e \in S
  BY SeqIs
<1> HIDE DEF S
<1>2. Append(s, e) \in Seq(S)
  BY <1>1
<1>3. /\ Len(Append(s, e)) = Len(s) + 1
      /\ Append(s, e)[Len(s) + 1] = e
      /\ \A i \in 1 .. Len(s) : Append(s, e)[i] = s[i]
  BY <1>1
<1> QED
  BY <1>2, <1>3, IsSeqOfSeq

\* Sequences are the same if their elements are.
LEMMA SameSeq ==
  ASSUME NEW s, IsSeq(s), NEW t, IsSeq(t), Len(s) = Len(t),
         \A i \in 1 .. Len(s) : s[i] = t[i]
  PROVE  s = t
<1>1. s = [i \in 1 .. Len(s) |-> s[i]] /\ t = [i \in 1 .. Len(t) |-> t[i]]
  BY DEF IsSeq
<1>2. [i \in 1 .. Len(s) |-> s[i]] = [i \in 1 .. Len(s) |-> t[i]]
  OBVIOUS
<1> QED
  BY <1>1, <1>2, Zenon

\* A function on 1 .. n is a sequence.
LEMMA FunctionIsSeq ==
  ASSUME NEW n \in Nat, NEW s, s = [i \in 1 .. n |-> s[i]]
  PROVE  IsSeq(s) /\ Len(s) = n
<1> DEFINE S == {s[i] : i \in 1 .. n}
<1>1. s \in [1 .. n -> S]
  BY Zenon
<1> HIDE DEF S
<1>2. s \in Seq(S) /\ Len(s) = n
  BY <1>1, SeqDef
<1> QED
  BY <1>2, IsSeqOfSeq

\* The recursive function of FlattenSeq.
IsFlat(f, q, n) == f = [i \in 1 .. n |-> IF i = 1 THEN q[i] ELSE f[i - 1] \o q[i]]

\* It exists: there is no shortest sequence without one.
LEMMA FlatExists ==
  ASSUME NEW q, NEW n \in Nat
  PROVE  \E f : IsFlat(f, q, n)
<1> DEFINE T == {k \in Nat : ~\E f : IsFlat(f, q, k)}
<1> SUFFICES ASSUME T # {} PROVE FALSE
  OBVIOUS
<1>1. PICK m \in T : \A k \in T : m <= k
  BY LeastNat
<1>2. CASE m = 0
  <2>1. [i \in 1 .. 0 |-> <<>>]
        = [i \in 1 .. 0 |-> IF i = 1 THEN q[i]
                            ELSE [j \in 1 .. 0 |-> <<>>][i - 1] \o q[i]]
    OBVIOUS
  <2> QED
    BY <1>1, <1>2, <2>1 DEF IsFlat
<1>3. CASE m # 0
  <2>1. m \in Nat /\ m - 1 \in Nat /\ m - 1 \notin T
    BY <1>1, <1>3
  <2>2. PICK g : IsFlat(g, q, m - 1)
    BY <2>1
  <2> DEFINE last == IF m = 1 THEN q[1] ELSE g[m - 1] \o q[m]
             f == [i \in 1 .. m |-> IF i = m THEN last ELSE g[i]]
             h == [i \in 1 .. m |-> IF i = 1 THEN q[i] ELSE f[i - 1] \o q[i]]
  <2>3. \A i \in 1 .. m - 1 : g[i] = IF i = 1 THEN q[i] ELSE g[i - 1] \o q[i]
    BY <2>2 DEF IsFlat
  <2>4. ASSUME NEW i \in 1 .. m PROVE f[i] = h[i]
    <3>1. CASE i = 1
      <4>1. CASE m = 1
        BY <3>1, <4>1
      <4>2. CASE m # 1
        <5>1. 1 \in 1 .. m - 1
          BY <2>1, <1>3, <4>2
        <5> QED
          BY <2>3, <3>1, <4>2, <5>1
      <4> QED
        BY <4>1, <4>2
    <3>2. CASE i # 1 /\ i = m
      <4>1. m - 1 \in 1 .. m /\ m - 1 # m
        BY <2>1, <3>2
      <4> QED
        BY <3>2, <4>1
    <3>3. CASE i # 1 /\ i # m
      <4>1. i \in 1 .. m - 1 /\ i - 1 \in 1 .. m /\ i - 1 # m
        BY <2>1, <3>3
      <4> QED
        BY <2>3, <3>3, <4>1
    <3> QED
      BY <3>1, <3>2, <3>3
  <2>5. f = h
    BY <2>4
  <2> QED
    BY <1>1, <2>5 DEF IsFlat
<1> QED
  BY <1>2, <1>3

\* w is the sequences of q one behind another; the i-th ends at off[i].
Cuts(q, w, off) ==
  /\ off \in [0 .. Len(q) -> Nat] /\ off[0] = 0 /\ Len(w) = off[Len(q)]
  /\ \A i \in 1 .. Len(q) :
       /\ off[i] = off[i - 1] + Len(q[i]) /\ off[i] <= Len(w)
       /\ \A j \in 1 .. Len(q[i]) : w[off[i - 1] + j] = q[i][j]

\* What FlattenSeq makes of sequences, and where they end in it.
LEMMA FlattenIs ==
  ASSUME NEW q, IsSeq(q), \A i \in 1 .. Len(q) : IsSeq(q[i])
  PROVE  IsSeq(FlattenSeq(q)) /\ \E off : Cuts(q, FlattenSeq(q), off)
<1> DEFINE n == Len(q)
           w == FlattenSeq(q)
<1>1. n \in Nat
  BY DEF IsSeq
<1>2. CASE n = 0
  <2>1. w = q
    BY <1>2 DEF FlattenSeq
  <2> DEFINE off == [i \in 0 .. 0 |-> 0]
  <2>2. Cuts(q, w, off)
    <3>1. off \in [0 .. Len(q) -> Nat] /\ off[0] = 0 /\ Len(w) = 0
      BY <1>2, <2>1
    <3> HIDE DEF off, w
    <3>2. \A i \in 1 .. Len(q) : FALSE
      BY <1>2
    <3> QED
      BY <1>2, <3>1, <3>2 DEF Cuts
  <2> QED
    BY <2>1, <2>2
<1>3. CASE n # 0
  <2> DEFINE f == CHOOSE g : IsFlat(g, q, n)
  <2>1. IsFlat(f, q, n)
    BY <1>1, FlatExists
  <2>2. w = f[n]
    BY <1>3 DEF FlattenSeq, IsFlat
  <2> HIDE DEF f, w
  <2>3. \A i \in 1 .. n : f[i] = IF i = 1 THEN q[i] ELSE f[i - 1] \o q[i]
    BY <2>1 DEF IsFlat
  <2> DEFINE Starts(s, t) == /\ Len(s) \in Nat /\ Len(s) <= Len(t)
                         /\ \A j \in 1 .. Len(s) : t[j] = s[j]
             P(i) == IsSeq(f[i]) /\ \A k \in 1 .. i : Starts(f[k], f[i])
             T == {i \in 1 .. n : ~P(i)}
  <2>4. ASSUME NEW i \in 1 .. n, i # 1, P(i - 1)
        PROVE  /\ P(i) /\ Len(f[i]) = Len(f[i - 1]) + Len(q[i])
               /\ \A j \in 1 .. Len(q[i]) : f[i][Len(f[i - 1]) + j] = q[i][j]
    <3> DEFINE s == f[i - 1]
    <3>1. f[i] = s \o q[i] /\ IsSeq(s) /\ IsSeq(q[i])
      BY <2>3, <2>4
    <3>2. \A k \in 1 .. i - 1 : Starts(f[k], s)
      BY <2>4
    <3> HIDE DEF s
    <3>3. /\ IsSeq(f[i]) /\ Len(f[i]) = Len(s) + Len(q[i])
          /\ \A j \in 1 .. Len(s) : f[i][j] = s[j]
          /\ \A j \in 1 .. Len(q[i]) : f[i][Len(s) + j] = q[i][j]
      BY <3>1, ConcatIs DEF Joined
    <3>4. Len(s) \in Nat /\ Len(q[i]) \in Nat
      BY <3>1 DEF IsSeq
    <3>5. ASSUME NEW k \in 1 .. i PROVE Starts(f[k], f[i])
      <4>1. CASE k = i
        <5>1. Len(f[i]) \in Nat /\ Len(f[i]) <= Len(f[i])
          BY <3>3 DEF IsSeq
        <5> QED
          BY <4>1, <5>1
      <4>2. CASE k # i
        <5>1. k \in 1 .. i - 1
          BY <1>1, <4>2
        <5>2. Starts(f[k], s)
          BY <3>2, <5>1
        <5> DEFINE l == Len(f[k])
        <5>3. k \in 1 .. n
          BY <1>1
        <5>4. l \in Nat /\ l <= Len(s) /\ \A j \in 1 .. l : s[j] = f[k][j]
          BY <5>2
        <5>5. \A j \in 1 .. l : j \in 1 .. Len(s)
          <6> TAKE j \in 1 .. l
          <6> HIDE DEF l
          <6> QED
            BY <3>4, <5>4
        <5>6. l <= Len(f[i])
          <6> HIDE DEF l
          <6> QED
            BY <3>3, <3>4, <5>4
        <5> QED
          BY <3>3, <5>4, <5>5, <5>6
      <4> QED
        BY <4>1, <4>2
    <3> QED
      BY <3>3, <3>5 DEF s
  <2>5. ASSUME T # {} PROVE FALSE
    <3>1. PICK i \in T : \A k \in T : i <= k
      <4>1. T \in SUBSET Nat
        BY <1>1
      <4> HIDE DEF T
      <4> QED
        BY <2>5, <4>1, LeastNat
    <3>2. i \in 1 .. n /\ ~P(i)
      BY <3>1
    <3>3. CASE i = 1
      <4>1. f[1] = q[1] /\ IsSeq(f[1]) /\ Len(f[1]) \in Nat
        BY <2>3, <3>2, <3>3 DEF IsSeq
      <4>2. \A k \in 1 .. 1 : k = 1
        OBVIOUS
      <4>3. Len(f[1]) <= Len(f[1])
        BY <4>1
      <4> QED
        BY <3>2, <3>3, <4>1, <4>2, <4>3
    <3>4. CASE i # 1
      <4>1. i - 1 \in 1 .. n /\ i - 1 \notin T
        <5>1. i - 1 \in 1 .. n /\ ~(i <= i - 1)
          BY <1>1, <3>2, <3>4
        <5> HIDE DEF T
        <5> QED
          BY <3>1, <5>1
      <4>2. P(i - 1)
        BY <4>1
      <4> HIDE DEF P
      <4> QED
        BY <2>4, <3>2, <3>4, <4>2
    <3> QED
      BY <3>3, <3>4
  <2>6. \A i \in 1 .. n : P(i)
    BY <2>5
  <2>7. \A i \in 1 .. n : IsSeq(f[i]) /\ Len(f[i]) \in Nat /\ Starts(f[i], f[n])
    <3>1. n \in 1 .. n
      BY <1>1, <1>3
    <3> QED
      BY <2>6, <3>1 DEF IsSeq
  <2> DEFINE off == [i \in 0 .. n |-> IF i = 0 THEN 0 ELSE Len(f[i])]
  <2>8. off \in [0 .. Len(q) -> Nat] /\ off[0] = 0 /\ Len(w) = off[n]
    BY <1>1, <1>3, <2>2, <2>7
  <2>9. ASSUME NEW i \in 1 .. n
        PROVE  /\ off[i] = off[i - 1] + Len(q[i]) /\ off[i] <= Len(w)
               /\ \A j \in 1 .. Len(q[i]) : w[off[i - 1] + j] = q[i][j]
    <3>0. /\ off[i] = Len(f[i]) /\ off[i] <= Len(w)
          /\ \A j \in 1 .. off[i] : w[j] = f[i][j]
      BY <1>1, <2>2, <2>7
    <3>1. CASE i = 1
      <4>1. off[i - 1] = 0 /\ f[i] = q[i] /\ Len(f[i]) \in Nat
        BY <1>1, <2>3, <2>7, <3>1
      <4> HIDE DEF off
      <4> QED
        BY <3>0, <4>1
    <3>2. CASE i # 1
      <4>1. i - 1 \in 1 .. n /\ i - 1 \in 0 .. n /\ i - 1 # 0
        BY <1>1, <3>2
      <4>2. off[i - 1] = Len(f[i - 1]) /\ Len(f[i - 1]) \in Nat /\ P(i - 1)
        BY <2>6, <2>7, <4>1
      <4>3. /\ Len(f[i]) = Len(f[i - 1]) + Len(q[i])
            /\ \A j \in 1 .. Len(q[i]) : f[i][Len(f[i - 1]) + j] = q[i][j]
        <5> HIDE DEF P, off
        <5> QED
          BY <2>4, <3>2, <4>2
      <4>4. Len(q[i]) \in Nat
        BY DEF IsSeq
      <4> HIDE DEF P, off
      <4>6. off[i] = off[i - 1] + Len(q[i]) /\ off[i - 1] \in Nat
        BY <3>0, <4>2, <4>3
      <4>5. \A j \in 1 .. Len(q[i]) : off[i - 1] + j \in 1 .. off[i]
        <5> DEFINE a == off[i - 1]
                   l == Len(q[i])
        <5>1. a \in Nat /\ l \in Nat /\ off[i] = a + l
          BY <4>4, <4>6
        <5> HIDE DEF a, l
        <5>2. \A j \in 1 .. l : a + j \in 1 .. off[i]
          BY <5>1
        <5> QED
          BY <5>2 DEF a, l
      <4>7. \A j \in 1 .. Len(q[i]) : w[off[i - 1] + j] = q[i][j]
        BY <3>0, <4>2, <4>3, <4>5
      <4> QED
        BY <3>0, <4>6, <4>7
    <3> QED
      BY <3>1, <3>2
  <2> HIDE DEF off
  <2>10. Cuts(q, w, off)
    BY <2>8, <2>9 DEF Cuts
  <2>11. IsSeq(w)
    <3>1. n \in 1 .. n
      BY <1>1, <1>3
    <3> QED
      BY <2>2, <2>7, <3>1
  <2> QED
    BY <2>10, <2>11 DEF w
<1> QED
  BY <1>2, <1>3

----------------------------------------------------------------------------
(* The loops over the blocks, the numbers of a list and the bits of a mask. *)

IsMeant(f, q, n) ==
  f = [i \in 0 .. n |-> IF i = 0 THEN NoInfo ELSE Meaning(f[i - 1], q[i])]

\* There is such a function.
LEMMA MeantExists ==
  ASSUME NEW q, NEW n \in Nat
  PROVE  \E f : IsMeant(f, q, n)
<1> DEFINE T == {k \in Nat : ~\E f : IsMeant(f, q, k)}
           Step(i, x) == Meaning(x, q[i])
<1> SUFFICES ASSUME T # {} PROVE FALSE
  OBVIOUS
<1>0. ASSUME NEW f, NEW k
      PROVE  IsMeant(f, q, k) <=>
               f = [i \in 0 .. k |-> IF i = 0 THEN NoInfo ELSE Step(i, f[i - 1])]
  BY DEF IsMeant
<1> HIDE DEF Step
<1>1. PICK m \in T : \A k \in T : m <= k
  BY LeastNat
<1>2. CASE m = 0
  <2> DEFINE f == [i \in 0 .. 0 |-> NoInfo]
  <2>1. f = [i \in 0 .. 0 |-> IF i = 0 THEN NoInfo ELSE Step(i, f[i - 1])]
    OBVIOUS
  <2> QED
    BY <1>0, <1>1, <1>2, <2>1
<1>3. CASE m # 0
  <2>1. m \in Nat /\ m - 1 \in Nat /\ m - 1 \notin T
    BY <1>1, <1>3
  <2>2. PICK g : g = [i \in 0 .. m - 1 |-> IF i = 0 THEN NoInfo ELSE Step(i, g[i - 1])]
    BY <1>0, <2>1
  <2> DEFINE f == [i \in 0 .. m |-> IF i = m THEN Step(m, g[m - 1]) ELSE g[i]]
             h == [i \in 0 .. m |-> IF i = 0 THEN NoInfo ELSE Step(i, f[i - 1])]
  <2>3. \A i \in 0 .. m - 1 : g[i] = IF i = 0 THEN NoInfo ELSE Step(i, g[i - 1])
    BY <2>2
  <2>4. ASSUME NEW i \in 0 .. m PROVE f[i] = h[i]
    <3>1. CASE i = m
      <4>1. m - 1 \in 0 .. m /\ m - 1 # m
        BY <2>1
      <4> QED
        BY <1>3, <3>1, <4>1
    <3>2. CASE i # m /\ i # 0
      <4>1. i \in 0 .. m - 1 /\ i - 1 \in 0 .. m /\ i - 1 # m
        BY <2>1, <3>2
      <4> QED
        BY <2>3, <3>2, <4>1
    <3>3. CASE i # m /\ i = 0
      <4>1. 0 \in 0 .. m - 1
        BY <2>1, <1>3
      <4> QED
        BY <2>3, <3>3, <4>1
    <3> QED
      BY <3>1, <3>2, <3>3
  <2>5. f = h
    BY <2>4
  <2> QED
    BY <1>0, <1>1, <2>5
<1> QED
  BY <1>2, <1>3

IsListed(f, q, n) ==
  f = [i \in 0 .. n |-> IF i = 0 THEN <<>> ELSE WithNumber(f[i - 1], q[i])]

\* There is such a function.
LEMMA ListedExists ==
  ASSUME NEW q, NEW n \in Nat
  PROVE  \E f : IsListed(f, q, n)
<1> DEFINE T == {k \in Nat : ~\E f : IsListed(f, q, k)}
           Step(i, x) == WithNumber(x, q[i])
<1> SUFFICES ASSUME T # {} PROVE FALSE
  OBVIOUS
<1>0. ASSUME NEW f, NEW k
      PROVE  IsListed(f, q, k) <=>
               f = [i \in 0 .. k |-> IF i = 0 THEN <<>> ELSE Step(i, f[i - 1])]
  BY DEF IsListed
<1> HIDE DEF Step
<1>1. PICK m \in T : \A k \in T : m <= k
  BY LeastNat
<1>2. CASE m = 0
  <2> DEFINE f == [i \in 0 .. 0 |-> <<>>]
  <2>1. f = [i \in 0 .. 0 |-> IF i = 0 THEN <<>> ELSE Step(i, f[i - 1])]
    OBVIOUS
  <2> QED
    BY <1>0, <1>1, <1>2, <2>1
<1>3. CASE m # 0
  <2>1. m \in Nat /\ m - 1 \in Nat /\ m - 1 \notin T
    BY <1>1, <1>3
  <2>2. PICK g : g = [i \in 0 .. m - 1 |-> IF i = 0 THEN <<>> ELSE Step(i, g[i - 1])]
    BY <1>0, <2>1
  <2> DEFINE f == [i \in 0 .. m |-> IF i = m THEN Step(m, g[m - 1]) ELSE g[i]]
             h == [i \in 0 .. m |-> IF i = 0 THEN <<>> ELSE Step(i, f[i - 1])]
  <2>3. \A i \in 0 .. m - 1 : g[i] = IF i = 0 THEN <<>> ELSE Step(i, g[i - 1])
    BY <2>2
  <2>4. ASSUME NEW i \in 0 .. m PROVE f[i] = h[i]
    <3>1. CASE i = m
      <4>1. m - 1 \in 0 .. m /\ m - 1 # m
        BY <2>1
      <4> QED
        BY <1>3, <3>1, <4>1
    <3>2. CASE i # m /\ i # 0
      <4>1. i \in 0 .. m - 1 /\ i - 1 \in 0 .. m /\ i - 1 # m
        BY <2>1, <3>2
      <4> QED
        BY <2>3, <3>2, <4>1
    <3>3. CASE i # m /\ i = 0
      <4>1. 0 \in 0 .. m - 1
        BY <2>1, <1>3
      <4> QED
        BY <2>3, <3>3, <4>1
    <3> QED
      BY <3>1, <3>2, <3>3
  <2>5. f = h
    BY <2>4
  <2> QED
    BY <1>0, <1>1, <2>5
<1> QED
  BY <1>2, <1>3

IsUnmasked(f, q, n) ==
  f = [i \in 0 .. n |->
         IF i = 0 THEN <<q.pid>>
         ELSE IF i - 1 \in q.mask THEN Append(f[i - 1], (q.pid + i) % PidMod) ELSE f[i - 1]]

\* There is such a function.
LEMMA UnmaskedExists ==
  ASSUME NEW q, NEW n \in Nat
  PROVE  \E f : IsUnmasked(f, q, n)
<1> DEFINE T == {k \in Nat : ~\E f : IsUnmasked(f, q, k)}
           Step(i, x) == IF i - 1 \in q.mask THEN Append(x, (q.pid + i) % PidMod) ELSE x
<1> SUFFICES ASSUME T # {} PROVE FALSE
  OBVIOUS
<1>0. ASSUME NEW f, NEW k
      PROVE  IsUnmasked(f, q, k) <=>
               f = [i \in 0 .. k |-> IF i = 0 THEN <<q.pid>> ELSE Step(i, f[i - 1])]
  BY DEF IsUnmasked
<1> HIDE DEF Step
<1>1. PICK m \in T : \A k \in T : m <= k
  BY LeastNat
<1>2. CASE m = 0
  <2> DEFINE f == [i \in 0 .. 0 |-> <<q.pid>>]
  <2>1. f = [i \in 0 .. 0 |-> IF i = 0 THEN <<q.pid>> ELSE Step(i, f[i - 1])]
    OBVIOUS
  <2> QED
    BY <1>0, <1>1, <1>2, <2>1
<1>3. CASE m # 0
  <2>1. m \in Nat /\ m - 1 \in Nat /\ m - 1 \notin T
    BY <1>1, <1>3
  <2>2. PICK g : g = [i \in 0 .. m - 1 |-> IF i = 0 THEN <<q.pid>> ELSE Step(i, g[i - 1])]
    BY <1>0, <2>1
  <2> DEFINE f == [i \in 0 .. m |-> IF i = m THEN Step(m, g[m - 1]) ELSE g[i]]
             h == [i \in 0 .. m |-> IF i = 0 THEN <<q.pid>> ELSE Step(i, f[i - 1])]
  <2>3. \A i \in 0 .. m - 1 : g[i] = IF i = 0 THEN <<q.pid>> ELSE Step(i, g[i - 1])
    BY <2>2
  <2>4. ASSUME NEW i \in 0 .. m PROVE f[i] = h[i]
    <3>1. CASE i = m
      <4>1. m - 1 \in 0 .. m /\ m - 1 # m
        BY <2>1
      <4> QED
        BY <1>3, <3>1, <4>1
    <3>2. CASE i # m /\ i # 0
      <4>1. i \in 0 .. m - 1 /\ i - 1 \in 0 .. m /\ i - 1 # m
        BY <2>1, <3>2
      <4> QED
        BY <2>3, <3>2, <4>1
    <3>3. CASE i # m /\ i = 0
      <4>1. 0 \in 0 .. m - 1
        BY <2>1, <1>3
      <4> QED
        BY <2>3, <3>3, <4>1
    <3> QED
      BY <3>1, <3>2, <3>3
  <2>5. f = h
    BY <2>4
  <2> QED
    BY <1>0, <1>1, <2>5
<1> QED
  BY <1>2, <1>3

\* What is read of the first blocks is the same however many follow.
LEMMA MeaningsIs ==
  ASSUME NEW q, IsSeq(q)
  PROVE  \E m : /\ m[0] = NoInfo /\ m[Len(q)] = Meanings(q)
                \* the i-th block on top of the others
                /\ \A i \in 1 .. Len(q) : m[i] = Meaning(m[i - 1], q[i])
<1> DEFINE n == Len(q)
           f == CHOOSE g : IsMeant(g, q, n)
<1>1. n \in Nat
  BY DEF IsSeq
<1>2. IsMeant(f, q, n)
  BY <1>1, MeantExists
<1>3. Meanings(q) = f[n]
  BY DEF Meanings, IsMeant
<1> HIDE DEF f
<1>4. \A i \in 0 .. n : f[i] = IF i = 0 THEN NoInfo ELSE Meaning(f[i - 1], q[i])
  BY <1>2 DEF IsMeant
<1>5. f[0] = NoInfo
  BY <1>1, <1>4
<1>6. \A i \in 1 .. n : i \in 0 .. n /\ i # 0
  BY <1>1
<1> QED
  BY <1>3, <1>4, <1>5, <1>6

\* The numbers of an item, bit by bit.
LEMMA NackNumbersIs ==
  ASSUME NEW item
  PROVE  \E f : /\ f[0] = <<item.pid>> /\ NackNumbers(item) = f[MaskBits]
                /\ \A i \in 1 .. MaskBits :
                     f[i] = IF i - 1 \in item.mask
                            THEN Append(f[i - 1], (item.pid + i) % PidMod) ELSE f[i - 1]
<1> DEFINE f == CHOOSE g : IsUnmasked(g, item, MaskBits)
<1>1. MaskBits \in Nat \ {0}
  BY ParserAssumption
<1>2. IsUnmasked(f, item, MaskBits)
  BY <1>1, UnmaskedExists
<1>3. NackNumbers(item) = f[MaskBits]
  BY DEF NackNumbers, IsUnmasked
<1> HIDE DEF f
<1>4. \A i \in 0 .. MaskBits :
        f[i] = IF i = 0 THEN <<item.pid>>
               ELSE IF i - 1 \in item.mask
               THEN Append(f[i - 1], (item.pid + i) % PidMod) ELSE f[i - 1]
  BY <1>2 DEF IsUnmasked
<1>5. f[0] = <<item.pid>>
  BY <1>1, <1>4
<1>6. \A i \in 1 .. MaskBits : i \in 0 .. MaskBits /\ i # 0
  BY <1>1
<1> QED
  BY <1>3, <1>4, <1>5, <1>6

\* An item with an empty mask is its number.
LEMMA NoMask ==
  ASSUME NEW n
  PROVE  NackNumbers([pid |-> n, mask |-> {}]) = <<n>>
<1> DEFINE item == [pid |-> n, mask |-> {}]
<1>1. PICK f : /\ f[0] = <<n>> /\ NackNumbers(item) = f[MaskBits]
               /\ \A i \in 1 .. MaskBits : f[i] = f[i - 1]
  <2>1. item.pid = n /\ item.mask = {}
    OBVIOUS
  <2> HIDE DEF item
  <2>2. PICK f : /\ f[0] = <<item.pid>> /\ NackNumbers(item) = f[MaskBits]
                 /\ \A i \in 1 .. MaskBits :
                      f[i] = IF i - 1 \in item.mask
                             THEN Append(f[i - 1], (item.pid + i) % PidMod) ELSE f[i - 1]
    BY NackNumbersIs, Zenon
  <2>3. ASSUME NEW i \in 1 .. MaskBits PROVE f[i] = f[i - 1]
    <3>1. ~(i - 1 \in item.mask)
      BY <2>1
    <3> QED
      BY <2>2, <3>1, Zenon
  <2>4. f[0] = <<n>>
    BY <2>1, <2>2, Zenon
  <2> QED
    BY <2>2, <2>3, <2>4, Zenon
<1> DEFINE T == {i \in 0 .. MaskBits : f[i] # <<n>>}
<1>2. MaskBits \in Nat
  BY ParserAssumption
<1>3. ASSUME T # {} PROVE FALSE
  <2>1. PICK i \in T : \A k \in T : i <= k
    <3>1. T \in SUBSET Nat
      BY <1>2
    <3> HIDE DEF T
    <3> QED
      BY <1>3, <3>1, LeastNat
  <2>2. i \in 0 .. MaskBits /\ f[i] # <<n>>
    BY <2>1
  <2>3. i # 0
    BY <1>1, <2>2
  <2>4. i \in 1 .. MaskBits /\ i - 1 \in 0 .. MaskBits /\ ~(i <= i - 1)
    BY <1>2, <2>2, <2>3
  <2>5. i - 1 \notin T
    <3> HIDE DEF T
    <3> QED
      BY <2>1, <2>4
  <2> QED
    BY <1>1, <2>2, <2>4, <2>5
<1> QED
  BY <1>1, <1>2, <1>3

\* One more bit, behind the others: one more number.
LEMMA OneMoreBit ==
  ASSUME NEW pid \in Int, NEW mask \in SUBSET (0 .. MaskBits - 1),
         NEW s \in 0 .. MaskBits - 1, \A e \in mask : e < s
  PROVE  NackNumbers([pid |-> pid, mask |-> mask \cup {s}])
         = Append(NackNumbers([pid |-> pid, mask |-> mask]), (pid + s + 1) % PidMod)
<1> DEFINE item == [pid |-> pid, mask |-> mask]
           more == [pid |-> pid, mask |-> mask \cup {s}]
           x == (pid + s + 1) % PidMod
<1>1. MaskBits \in Nat /\ s \in Nat /\ s < MaskBits /\ s + 1 \in 0 .. MaskBits
  BY ParserAssumption
<1>2. PICK f : /\ f[0] = <<pid>> /\ NackNumbers(item) = f[MaskBits]
               /\ \A i \in 1 .. MaskBits :
                    f[i] = IF i - 1 \in mask
                           THEN Append(f[i - 1], (pid + i) % PidMod) ELSE f[i - 1]
  <2>1. item.pid = pid /\ item.mask = mask
    OBVIOUS
  <2> HIDE DEF item
  <2> QED
    BY <2>1, NackNumbersIs
<1>3. PICK g : /\ g[0] = <<pid>> /\ NackNumbers(more) = g[MaskBits]
               /\ \A i \in 1 .. MaskBits :
                    g[i] = IF i - 1 \in mask \cup {s}
                           THEN Append(g[i - 1], (pid + i) % PidMod) ELSE g[i - 1]
  <2>1. more.pid = pid /\ more.mask = mask \cup {s}
    OBVIOUS
  <2> HIDE DEF more
  <2> QED
    BY <2>1, NackNumbersIs
<1> DEFINE P(i) == /\ i <= s => g[i] = f[i]
                   /\ i > s => f[i] = f[s] /\ g[i] = Append(f[s], x)
           T == {i \in 0 .. MaskBits : ~P(i)}
<1>4. ASSUME T # {} PROVE FALSE
  <2>1. PICK i \in T : \A k \in T : i <= k
    <3>1. T \in SUBSET Nat
      BY <1>1
    <3> HIDE DEF T
    <3> QED
      BY <1>4, <3>1, LeastNat
  <2>2. i \in 0 .. MaskBits /\ ~P(i)
    BY <2>1
  <2>3. i # 0
    <3>1. P(0)
      <4>1. 0 <= s /\ ~(0 > s)
        BY <1>1
      <4>2. g[0] = f[0]
        BY <1>2, <1>3, Zenon
      <4> QED
        BY <4>1, <4>2, Zenon
    <3> HIDE DEF P
    <3> QED
      BY <2>2, <3>1, Zenon
  <2>4. PICK h \in Nat : i = h + 1
    BY <1>1, <2>2, <2>3
  <2>5. i \in 1 .. MaskBits /\ h \in 0 .. MaskBits /\ ~(i <= h) /\ i - 1 = h
    BY <1>1, <2>2, <2>4
  <2>6. P(h)
    <3>1. h \notin T
      <4> HIDE DEF T
      <4> QED
        BY <2>1, <2>5
    <3> QED
      BY <2>5, <3>1
  <2>7. /\ f[i] = IF h \in mask THEN Append(f[h], (pid + i) % PidMod) ELSE f[h]
        /\ g[i] = IF h \in mask \cup {s} THEN Append(g[h], (pid + i) % PidMod) ELSE g[h]
    BY <1>2, <1>3, <2>5
  <2>8. CASE i <= s
    <3>1. h <= s /\ h # s /\ ~(i > s)
      BY <1>1, <2>4, <2>8
    <3> QED
      BY <2>2, <2>6, <2>7, <2>8, <3>1
  <2>9. CASE i = s + 1
    <3>1. h = s /\ h <= s /\ ~(i <= s) /\ pid + i = pid + s + 1
      BY <1>1, <2>4, <2>9
    <3>2. s \notin mask
      BY <1>1
    <3> QED
      BY <2>2, <2>6, <2>7, <3>1, <3>2
  <2>10. CASE i > s + 1
    <3>1. h > s /\ h # s /\ ~(i <= s)
      BY <1>1, <2>4, <2>10
    <3>2. h \notin mask
      BY <1>1, <3>1
    <3> QED
      BY <2>2, <2>6, <2>7, <3>1, <3>2
  <2> QED
    BY <1>1, <2>4, <2>8, <2>9, <2>10
<1>5. P(MaskBits)
  <2>1. MaskBits \in 0 .. MaskBits
    BY <1>1
  <2> HIDE DEF P
  <2> QED
    BY <1>4, <2>1
<1> QED
  BY <1>1, <1>2, <1>3, <1>5

\* Numbers on a circle: so many steps on from p, and d more, is n.
LEMMA StepsOn ==
  ASSUME NEW M \in Nat \ {0}, NEW p \in 0 .. M - 1, NEW n \in 0 .. M - 1,
         NEW top \in Nat, top < M, NEW d \in Nat, top + d < M,
         (n - ((p + top) % M)) % M = d
  PROVE  (n - p) % M = top + d /\ (p + (top + d)) % M = n
<1> DEFINE l == (p + top) % M
<1>1. l = IF p + top < M THEN p + top ELSE p + top - M
  OBVIOUS
<1>2. d = IF n >= l THEN n - l ELSE n - l + M
  OBVIOUS
<1> HIDE DEF l
<1>3. \/ p + top < M /\ n >= l /\ n - p = top + d
      \/ p + top < M /\ n < l /\ n - p = top + d - M
      \/ p + top >= M /\ n >= l /\ n - p = top + d - M
      \/ p + top >= M /\ n < l /\ n - p + 2 * M = top + d
  BY <1>1, <1>2
<1>4. \/ n - p = top + d
      \/ n - p + M = top + d
  BY <1>1, <1>2, <1>3
<1>5. (n - p) % M = top + d
  <2>1. CASE n - p = top + d
    BY <2>1
  <2>2. CASE n - p + M = top + d
    BY <2>2
  <2> QED
    BY <1>4, <2>1, <2>2
<1>6. (p + (top + d)) % M = n
  <2>1. CASE n - p = top + d
    <3>1. p + (top + d) = n
      BY <2>1
    <3> QED
      BY <3>1
  <2>2. CASE n - p + M = top + d
    <3>1. p + (top + d) = n + M
      BY <2>2
    <3> QED
      BY <3>1
  <2> QED
    BY <1>4, <2>1, <2>2
<1> QED
  BY <1>5, <1>6

----------------------------------------------------------------------------
(* A list in masks, and back.                                              *)

NackItem == [pid : 0 .. PidMod - 1, mask : SUBSET (0 .. MaskBits - 1)]

\* The numbers of the item are those of the list between a and b.
Carries(item, list, a, b) ==
  /\ item \in NackItem /\ IsSeq(NackNumbers(item)) /\ b = a + Len(NackNumbers(item))
  /\ \A i \in 1 .. Len(NackNumbers(item)) : list[a + i] = NackNumbers(item)[i]

\* The items x hold the first j numbers; the last of them is top steps behind
\* the number of its item.
Loaded(x, list, j, cut, top) ==
  /\ IsSeq(x) /\ Len(x) # 0
  /\ cut \in [0 .. Len(x) -> 0 .. j] /\ cut[0] = 0 /\ cut[Len(x)] = j
  /\ \A q \in 1 .. Len(x) : Carries(x[q], list, cut[q - 1], cut[q])
  /\ top \in 0 .. MaskBits /\ \A e \in x[Len(x)].mask : e < top
  /\ list[j] = (x[Len(x)].pid + top) % PidMod

\* A new mask, and the number is as it was.
LEMMA NewMask ==
  ASSUME NEW item \in NackItem, NEW m
  PROVE  [item EXCEPT !.mask = m] = [pid |-> item.pid, mask |-> m]
BY DEF NackItem

\* A number that is an item of its own.
LEMMA OwnItem ==
  ASSUME NEW n \in 0 .. PidMod - 1
  PROVE  /\ [pid |-> n, mask |-> {}] \in NackItem
         /\ \A list, j : j \in Nat /\ list[j + 1] = n
              => Carries([pid |-> n, mask |-> {}], list, j, j + 1)
<1> DEFINE item == [pid |-> n, mask |-> {}]
<1>1. item \in NackItem
  BY DEF NackItem
<1>2. NackNumbers(item) = <<n>>
  BY NoMask
<1>3. IsSeq(<<n>>) /\ Len(<<n>>) = 1 /\ <<n>>[1] = n
  BY DEF IsSeq
<1> HIDE DEF item
<1>4. ASSUME NEW list, NEW j, j \in Nat, list[j + 1] = n
      PROVE  Carries(item, list, j, j + 1)
  BY <1>1, <1>2, <1>3, <1>4 DEF Carries
<1> QED
  BY <1>1, <1>4 DEF item

\* The first number is an item.
LEMMA LoadedFirst ==
  ASSUME NEW list, list[1] \in 0 .. PidMod - 1
  PROVE  \E cut, top : Loaded(WithNumber(<<>>, list[1]), list, 1, cut, top)
<1> DEFINE n == list[1]
           item == [pid |-> n, mask |-> {}]
           x == WithNumber(<<>>, n)
           cut == [q \in 0 .. 1 |-> q]
<1>1. x = <<item>>
  BY DEF WithNumber
<1>2. item \in NackItem /\ Carries(item, list, 0, 1) /\ item.mask = {} /\ item.pid = n
  BY OwnItem
<1>3. IsSeq(<<item>>) /\ Len(<<item>>) = 1 /\ <<item>>[1] = item
  BY DEF IsSeq
<1>4. cut \in [0 .. 1 -> 0 .. 1] /\ cut[0] = 0 /\ cut[1] = 1
  OBVIOUS
<1>5. 0 \in 0 .. MaskBits /\ n = (n + 0) % PidMod
  BY ParserAssumption
<1> HIDE DEF item, cut, x, n
<1>6. Loaded(x, list, 1, cut, 0)
  BY <1>1, <1>2, <1>3, <1>4, <1>5 DEF Loaded, n
<1> QED
  BY <1>6 DEF x, n

\* One more number: a bit of the last item, or an item of its own.
LEMMA LoadedMore ==
  ASSUME NEW list, NEW j \in Nat \ {0}, NEW x, NEW cut, NEW top,
         Loaded(x, list, j, cut, top), list[j + 1] \in 0 .. PidMod - 1,
         (list[j + 1] - list[j]) % PidMod \in 1 .. PidMod \div 2 - 1
  PROVE  \E c, t : Loaded(WithNumber(x, list[j + 1]), list, j + 1, c, t)
<1> DEFINE n == list[j + 1]
           k == Len(x)
           last == x[k]
           d == (n - list[j]) % PidMod
           y == WithNumber(x, n)
<1>1. /\ IsSeq(x) /\ k \in Nat /\ k # 0 /\ k \in 1 .. k
      /\ cut \in [0 .. k -> 0 .. j] /\ cut[0] = 0 /\ cut[k] = j
      /\ \A q \in 1 .. k : Carries(x[q], list, cut[q - 1], cut[q])
      /\ top \in 0 .. MaskBits /\ \A e \in last.mask : e < top
      /\ list[j] = (last.pid + top) % PidMod
  BY DEF Loaded, IsSeq
<1>2. last \in NackItem
  BY <1>1 DEF Carries
<1>3. /\ last.pid \in 0 .. PidMod - 1 /\ last.mask \in SUBSET (0 .. MaskBits - 1)
      /\ last = [pid |-> last.pid, mask |-> last.mask]
  BY <1>2 DEF NackItem
<1>4. /\ MaskBits \in Nat /\ PidMod \in Nat \ {0} /\ MaskBits < PidMod \div 2
      /\ d \in Nat \ {0} /\ top \in Nat /\ top < PidMod /\ top + d < PidMod
  <2>1. MaskBits \in Nat /\ PidMod \in Nat \ {0} /\ MaskBits < PidMod \div 2
    BY ParserAssumption, RtcpAssumption
  <2>2. d \in 1 .. PidMod \div 2 - 1 /\ top \in 0 .. MaskBits
    BY <1>1
  <2> HIDE DEF d
  <2>3. d \in Nat \ {0} /\ top \in Nat /\ top < PidMod \div 2 /\ d < PidMod \div 2
    BY <2>1, <2>2
  <2>4. PidMod \div 2 + PidMod \div 2 <= PidMod
    BY <2>1
  <2> QED
    BY <2>1, <2>3, <2>4
<1> HIDE DEF last, d
<1>5. (n - last.pid) % PidMod = top + d /\ (last.pid + (top + d)) % PidMod = n
  <2>1. n \in 0 .. PidMod - 1 /\ (n - ((last.pid + top) % PidMod)) % PidMod = d
    BY <1>1 DEF d
  <2> HIDE DEF n
  <2> QED
    BY <1>3, <1>4, <2>1, StepsOn
<1> DEFINE s == top + d - 1
<1>6. /\ s \in Nat /\ ((n - last.pid) % PidMod) - 1 = s /\ s + 1 = top + d
      /\ last.pid + s + 1 = last.pid + (top + d) /\ top <= s
  BY <1>3, <1>4, <1>5
<1> HIDE DEF s
<1>7. y = IF s \in 0 .. MaskBits - 1
          THEN [x EXCEPT ![k].mask = @ \cup {s}]
          ELSE Append(x, [pid |-> n, mask |-> {}])
  <2>1. x # <<>>
    BY <1>1
  <2> QED
    BY <1>6, <2>1 DEF WithNumber, Last, last
<1> HIDE DEF y
<1>8. CASE s \in 0 .. MaskBits - 1
  <2> DEFINE more == [pid |-> last.pid, mask |-> last.mask \cup {s}]
             c == [q \in 0 .. k |-> IF q = k THEN j + 1 ELSE cut[q]]
  <2>1. IsSeq(y) /\ Len(y) = k /\ \A q \in 1 .. k : y[q] = IF q = k THEN more ELSE x[q]
    <3>1. y = [x EXCEPT ![k].mask = @ \cup {s}] /\ x = [q \in 1 .. k |-> x[q]]
      BY <1>1, <1>7, <1>8 DEF IsSeq
    <3>2. y = [q \in 1 .. k |-> IF q = k THEN more ELSE x[q]]
      <4>1. [last EXCEPT !.mask = @ \cup {s}] = more
        BY <1>2, NewMask
      <4>2. y = [x EXCEPT ![k] = [last EXCEPT !.mask = @ \cup {s}]]
        BY <3>1 DEF last
      <4> HIDE DEF more
      <4> QED
        BY <1>1, <3>1, <4>1, <4>2
    <3> HIDE DEF more, k
    <3>3. y = [q \in 1 .. k |-> y[q]] /\ \A q \in 1 .. k : y[q] = IF q = k THEN more ELSE x[q]
      BY <3>2
    <3> QED
      BY <1>1, <3>3, FunctionIsSeq
  <2>2. /\ more \in NackItem /\ more.pid = last.pid /\ \A e \in more.mask : e < top + d
    <3>1. more \in NackItem /\ more.pid = last.pid /\ more.mask = last.mask \cup {s}
      BY <1>3, <1>8 DEF NackItem
    <3> HIDE DEF more
    <3>2. ASSUME NEW e \in more.mask PROVE e < top + d
      <4>1. CASE e = s
        BY <1>4, <1>6, <4>1
      <4>2. CASE e # s
        <5>1. e \in last.mask /\ e < top /\ e \in Int
          BY <1>1, <1>3, <3>1, <4>2
        <5> QED
          BY <1>4, <5>1
      <4> QED
        BY <4>1, <4>2
    <3> QED
      BY <3>1, <3>2
  <2>3. NackNumbers(more) = Append(NackNumbers(last), n)
    <3>1. ASSUME NEW e \in last.mask PROVE e < s
      <4>1. e < top /\ e \in Int
        BY <1>1, <1>3
      <4>2. top \in Int /\ s \in Int /\ top <= s
        BY <1>4, <1>6
      <4> QED
        BY <4>1, <4>2
    <3>2. NackNumbers(more)
          = Append(NackNumbers([pid |-> last.pid, mask |-> last.mask]),
                   (last.pid + s + 1) % PidMod)
      <4>1. last.pid \in Int
        BY <1>3
      <4> QED
        BY <1>3, <1>8, <3>1, <4>1, OneMoreBit, Zenon
    <3> QED
      BY <1>3, <1>5, <1>6, <3>2
  <2>4. Carries(more, list, cut[k - 1], j + 1)
    <3>1. Carries(last, list, cut[k - 1], j) /\ cut[k - 1] \in Nat
      BY <1>1 DEF last
    <3> HIDE DEF more, c
    <3> DEFINE a == cut[k - 1]
               nums == NackNumbers(last)
               all == NackNumbers(more)
    <3>2. /\ IsSeq(nums) /\ Len(nums) \in Nat /\ j = a + Len(nums) /\ a \in Nat
          /\ \A i \in 1 .. Len(nums) : list[a + i] = nums[i]
      BY <3>1 DEF Carries, IsSeq
    <3>3. /\ IsSeq(all) /\ Len(all) = Len(nums) + 1 /\ all[Len(nums) + 1] = n
          /\ \A i \in 1 .. Len(nums) : all[i] = nums[i]
      <4>1. all = Append(nums, n)
        BY <2>3
      <4> HIDE DEF all, nums, a, n
      <4> QED
        BY <3>2, <4>1, AppendIs
    <3> HIDE DEF all, nums, a
    <3>4. j + 1 = a + Len(all)
      BY <3>2, <3>3
    <3>5. ASSUME NEW i \in 1 .. Len(all) PROVE list[a + i] = all[i]
      <4>1. CASE i = Len(nums) + 1
        <5>1. a + i = j + 1
          BY <3>2, <4>1
        <5> QED
          BY <3>3, <4>1, <5>1
      <4>2. CASE i # Len(nums) + 1
        <5>1. i \in 1 .. Len(nums)
          BY <3>2, <3>3, <4>2
        <5> QED
          BY <3>2, <3>3, <5>1
      <4> QED
        BY <4>1, <4>2
    <3> QED
      BY <2>2, <3>3, <3>4, <3>5 DEF Carries, a, all
  <2>5. /\ c \in [0 .. k -> 0 .. j + 1] /\ c[0] = 0 /\ c[k] = j + 1 /\ c[k - 1] = cut[k - 1]
        /\ \A q \in 1 .. k : q # k => c[q - 1] = cut[q - 1] /\ c[q] = cut[q]
    BY <1>1
  <2> HIDE DEF more, c, k
  <2>6. ASSUME NEW q \in 1 .. k PROVE Carries(y[q], list, c[q - 1], c[q])
    BY <1>1, <2>1, <2>4, <2>5
  <2>7. top + d \in 0 .. MaskBits
    BY <1>4, <1>6, <1>8
  <2>8. Loaded(y, list, j + 1, c, top + d)
    BY <1>1, <1>5, <2>1, <2>2, <2>5, <2>6, <2>7 DEF Loaded
  <2> QED
    BY <2>8 DEF y
<1>9. CASE s \notin 0 .. MaskBits - 1
  <2> DEFINE item == [pid |-> n, mask |-> {}]
             c == [q \in 0 .. k + 1 |-> IF q = k + 1 THEN j + 1 ELSE cut[q]]
  <2>1. /\ IsSeq(y) /\ Len(y) = k + 1 /\ y[k + 1] = item
        /\ \A q \in 1 .. k : y[q] = x[q]
    BY <1>1, <1>7, <1>9, AppendIs
  <2>2. item \in NackItem /\ Carries(item, list, j, j + 1) /\ item.mask = {} /\ item.pid = n
    BY OwnItem
  <2>3. /\ c \in [0 .. k + 1 -> 0 .. j + 1] /\ c[0] = 0 /\ c[k + 1] = j + 1
        /\ c[(k + 1) - 1] = j
        /\ \A q \in 1 .. k : c[q - 1] = cut[q - 1] /\ c[q] = cut[q]
    BY <1>1
  <2>4. 0 \in 0 .. MaskBits /\ n = (n + 0) % PidMod
    BY <1>4
  <2> HIDE DEF item, c
  <2>5. ASSUME NEW q \in 1 .. k + 1 PROVE Carries(y[q], list, c[q - 1], c[q])
    <3>1. CASE q = k + 1
      BY <2>1, <2>2, <2>3, <3>1
    <3>2. CASE q # k + 1
      <4>1. q \in 1 .. k
        BY <1>1, <3>2
      <4> QED
        BY <1>1, <2>1, <2>3, <4>1
    <3> QED
      BY <3>1, <3>2
  <2>6. k + 1 # 0
    BY <1>1
  <2> HIDE DEF k
  <2>7. Loaded(y, list, j + 1, c, 0)
    BY <2>1, <2>2, <2>3, <2>4, <2>5, <2>6 DEF Loaded
  <2> QED
    BY <2>7 DEF y
<1> QED
  BY <1>8, <1>9

\* The numbers of the items are the list.
LEMMA ListIs ==
  ASSUME NEW list, Ascending(list)
  PROVE  /\ IsSeq(NackItems(list)) /\ Len(NackItems(list)) # 0
         /\ \E cut : /\ cut \in [0 .. Len(NackItems(list)) -> 0 .. Len(list)]
                     /\ cut[0] = 0 /\ cut[Len(NackItems(list))] = Len(list)
                     /\ \A q \in 1 .. Len(NackItems(list)) :
                          Carries(NackItems(list)[q], list, cut[q - 1], cut[q])
<1> DEFINE n == Len(list)
           f == CHOOSE g : IsListed(g, list, n)
<1>1. /\ n \in Nat \ {0} /\ \A i \in 1 .. n : list[i] \in 0 .. PidMod - 1
      /\ \A i \in 1 .. n - 1 : (list[i + 1] - list[i]) % PidMod \in 1 .. PidMod \div 2 - 1
  <2>1. list \in Seq(0 .. PidMod - 1) /\ Len(list) \in 1 .. MaxNacks
    BY DEF Ascending
  <2>2. \A i \in 1 .. Len(list) : list[i] \in 0 .. PidMod - 1
    BY <2>1, IsSeqOfSeq
  <2> QED
    BY <2>1, <2>2 DEF Ascending
<1>2. IsListed(f, list, n)
  BY <1>1, ListedExists
<1>3. NackItems(list) = f[n]
  BY DEF NackItems, IsListed
<1> HIDE DEF f, n
<1>4. \A i \in 0 .. n : f[i] = IF i = 0 THEN <<>> ELSE WithNumber(f[i - 1], list[i])
  BY <1>2 DEF IsListed
<1> DEFINE P(i) == \E cut, top : Loaded(f[i], list, i, cut, top)
           T == {i \in 1 .. n : ~P(i)}
<1>5. P(1)
  <2>1. 1 \in 1 .. n /\ 1 \in 0 .. n /\ 0 \in 0 .. n /\ 1 - 1 = 0
    BY <1>1
  <2>2. f[1] = WithNumber(<<>>, list[1])
    BY <1>4, <2>1
  <2> QED
    BY <1>1, <2>1, <2>2, LoadedFirst
<1>6. ASSUME NEW i \in 1 .. n, i # 1, P(i - 1) PROVE P(i)
  <2>1. PICK h \in Nat \ {0} : i = h + 1
    BY <1>1, <1>6
  <2>2. h \in 1 .. n - 1 /\ i \in 0 .. n /\ i # 0 /\ i - 1 = h
    BY <1>1, <2>1
  <2>3. f[i] = WithNumber(f[h], list[h + 1])
    BY <1>4, <2>1, <2>2
  <2>4. PICK cut, top : Loaded(f[h], list, h, cut, top)
    BY <1>6, <2>2
  <2>5. /\ list[h + 1] \in 0 .. PidMod - 1
        /\ (list[h + 1] - list[h]) % PidMod \in 1 .. PidMod \div 2 - 1
    BY <1>1, <2>1, <2>2
  <2>6. \E c, t : Loaded(WithNumber(f[h], list[h + 1]), list, h + 1, c, t)
    BY <2>4, <2>5, LoadedMore
  <2> QED
    BY <2>1, <2>3, <2>6
<1>7. ASSUME T # {} PROVE FALSE
  <2>1. PICK i \in T : \A k \in T : i <= k
    <3>1. T \in SUBSET Nat
      BY <1>1
    <3> HIDE DEF T
    <3> QED
      BY <1>7, <3>1, LeastNat
  <2>2. i \in 1 .. n /\ ~P(i)
    BY <2>1
  <2>3. i # 1
    BY <1>5, <2>2
  <2>4. i - 1 \in 1 .. n /\ ~(i <= i - 1)
    BY <1>1, <2>2, <2>3
  <2>5. i - 1 \notin T
    <3> HIDE DEF T
    <3> QED
      BY <2>1, <2>4
  <2>6. P(i - 1)
    BY <2>4, <2>5
  <2> HIDE DEF P
  <2> QED
    BY <1>6, <2>2, <2>3, <2>6
<1>8. P(n)
  <2>1. n \in 1 .. n
    BY <1>1
  <2> HIDE DEF P
  <2> QED
    BY <1>7, <2>1
<1>9. PICK cut, top : Loaded(f[n], list, n, cut, top)
  BY <1>8
<1> QED
  BY <1>3, <1>9 DEF Loaded, n

----------------------------------------------------------------------------
(* The words of a block.                                                   *)

Headed(c, pt, ic, body) ==
  /\ IsSeq(c) /\ Len(c) = 1 + Len(body)
  /\ c[1].hdr /\ c[1].pt = pt /\ c[1].ic = ic /\ c[1].len = Len(body)
  /\ \A j \in 1 .. Len(body) : c[1 + j] = body[j]

\* What CreateHeader puts in front of a body.
LEMMA HeaderIs ==
  ASSUME NEW pt, NEW ic, NEW body, IsSeq(body)
  PROVE  Headed(CreateHeader(pt, ic, body), pt, ic, body)
<1> DEFINE h == [hdr |-> TRUE, pt |-> pt, ic |-> ic, len |-> Len(body), text |-> {},
                 octet |-> 0]
           c == CreateHeader(pt, ic, body)
<1>1. h.hdr /\ h.pt = pt /\ h.ic = ic /\ h.len = Len(body)
  OBVIOUS
<1>2. c = <<h>> \o body
  BY DEF CreateHeader
<1> HIDE DEF h, c
<1> DEFINE t == <<h>>
<1>3. IsSeq(t) /\ Len(t) = 1 /\ t[1] = h /\ 1 \in 1 .. 1 /\ c = t \o body
  BY <1>2 DEF IsSeq
<1> HIDE DEF t
<1>4. /\ IsSeq(c) /\ Len(c) = 1 + Len(body)
      /\ \A j \in 1 .. 1 : c[j] = t[j]
      /\ \A j \in 1 .. Len(body) : c[1 + j] = body[j]
  <2>1. /\ IsSeq(c) /\ Len(c) = Len(t) + Len(body)
        /\ \A j \in 1 .. Len(t) : c[j] = t[j]
        /\ \A j \in 1 .. Len(body) : c[Len(t) + j] = body[j]
    <3>1. Joined(c, t, body)
      BY <1>3, ConcatIs, Zenon
    <3> QED
      BY <3>1 DEF Joined
  <2> QED
    BY <1>3, <2>1
<1>5. c[1] = h
  BY <1>3, <1>4
<1> QED
  BY <1>1, <1>4, <1>5 DEF c, Headed

\* A word for each value.
LEMMA UWordsIs ==
  ASSUME NEW values, IsSeq(values)
  PROVE  /\ IsSeq(UWords(values)) /\ Len(UWords(values)) = Len(values)
         /\ \A i \in 1 .. Len(values) : UWords(values)[i].v = values[i]
<1> DEFINE n == Len(values)
           u == UWords(values)
<1>1. n \in Nat /\ values = [i \in 1 .. n |-> values[i]]
  BY DEF IsSeq
<1>2. DOMAIN values = 1 .. n
  BY <1>1
<1>3. u = [i \in 1 .. n |->
             [hdr |-> FALSE, v |-> values[i], text |-> {}, octet |-> 0]]
  BY <1>2 DEF UWords
<1> HIDE DEF u, n
<1>4. u = [i \in 1 .. n |-> u[i]] /\ \A i \in 1 .. n : u[i].v = values[i]
  BY <1>3
<1>5. IsSeq(u) /\ Len(u) = n
  BY <1>1, <1>4, FunctionIsSeq
<1> QED
  BY <1>4, <1>5 DEF u, n

\* A short tuple is a sequence.
LEMMA TupleIs ==
  /\ IsSeq(<<>>) /\ Len(<<>>) = 0
  /\ \A a : IsSeq(<<a>>) /\ Len(<<a>>) = 1 /\ <<a>>[1] = a
  /\ \A a, b : IsSeq(<<a, b>>) /\ Len(<<a, b>>) = 2 /\ <<a, b>>[1] = a /\ <<a, b>>[2] = b
  /\ \A a, b, c : /\ IsSeq(<<a, b, c>>) /\ Len(<<a, b, c>>) = 3
                  /\ <<a, b, c>>[1] = a /\ <<a, b, c>>[2] = b /\ <<a, b, c>>[3] = c
BY DEF IsSeq

\* Report blocks are all of the same length.
LEMMA EvenCuts ==
  ASSUME NEW q, IsSeq(q), \A i \in 1 .. Len(q) : Len(q[i]) = 6,
         NEW w, NEW off, Cuts(q, w, off)
  PROVE  \A i \in 0 .. Len(q) : off[i] = 6 * i
<1> DEFINE n == Len(q)
           T == {i \in 0 .. n : off[i] # 6 * i}
<1>1. /\ n \in Nat /\ off[0] = 0
      /\ \A i \in 1 .. n : off[i] = off[i - 1] + 6
  BY DEF Cuts, IsSeq
<1> HIDE DEF n
<1>2. ASSUME T # {} PROVE FALSE
  <2>1. PICK i \in T : \A k \in T : i <= k
    <3>1. T \in SUBSET Nat
      BY <1>1
    <3> HIDE DEF T
    <3> QED
      BY <1>2, <3>1, LeastNat
  <2>2. i \in 0 .. n /\ off[i] # 6 * i
    BY <2>1
  <2>3. i # 0
    BY <1>1, <2>2
  <2>4. PICK h \in Nat : i = h + 1
    BY <1>1, <2>2, <2>3
  <2>5. h \in 0 .. n /\ ~(i <= h) /\ i \in 1 .. n /\ i - 1 = h
    BY <1>1, <2>2, <2>4
  <2>6. h \notin T
    <3> HIDE DEF T
    <3> QED
      BY <2>1, <2>5
  <2>7. off[h] = 6 * h /\ off[i] = off[h] + 6
    BY <1>1, <2>5, <2>6
  <2>8. 6 * i = 6 * h + 6
    BY <2>4
  <2> QED
    BY <2>2, <2>7, <2>8
<1> QED
  BY <1>2 DEF n

\* The words of report blocks.
LEMMA ReportWordsAre ==
  ASSUME NEW b, Reports(b)
  PROVE  LET w == CreateReportBlocks(b.reports)
             n == Len(b.reports)
         IN  /\ n \in Nat /\ IsSeq(w) /\ Len(w) = 6 * n
             /\ \A r \in 1 .. n : \A j \in 1 .. 6 : w[6 * (r - 1) + j].v = b.reports[r][j]
<1> DEFINE q == b.reports
           n == Len(q)
           u == FlattenSeq(q)
           w == UWords(u)
<1>1. /\ IsSeq(q) /\ n \in Nat /\ DOMAIN q = 1 .. n
      /\ \A i \in 1 .. n : IsSeq(q[i]) /\ Len(q[i]) = 6
  <2>1. IsSeq(q) /\ \A i \in DOMAIN q : IsSeq(q[i]) /\ Len(q[i]) = 6
    BY DEF Reports, ReportWords
  <2> HIDE DEF q
  <2>2. n \in Nat /\ q = [i \in 1 .. n |-> q[i]]
    BY <2>1 DEF IsSeq
  <2>3. DOMAIN q = 1 .. n
    BY <2>2
  <2> QED
    BY <2>1, <2>2, <2>3
<1> HIDE DEF q, u
<1>2. PICK off : IsSeq(u) /\ Cuts(q, u, off)
  BY <1>1, FlattenIs DEF u
<1>3. \A i \in 0 .. n : off[i] = 6 * i
  <2>1. IsSeq(q) /\ \A i \in 1 .. Len(q) : Len(q[i]) = 6
    BY <1>1
  <2> QED
    BY <1>2, <2>1, EvenCuts
<1>4. /\ Len(u) = off[n]
      /\ \A i \in 1 .. n : \A j \in 1 .. 6 : u[off[i - 1] + j] = q[i][j] /\ off[i] <= Len(u)
  BY <1>1, <1>2 DEF Cuts
<1>5. IsSeq(w) /\ Len(w) = Len(u) /\ \A i \in 1 .. Len(u) : w[i].v = u[i]
  BY <1>2, UWordsIs
<1> HIDE DEF n, w
<1>6. Len(u) = 6 * n
  BY <1>1, <1>3, <1>4
<1>7. ASSUME NEW r \in 1 .. n, NEW j \in 1 .. 6
      PROVE  w[6 * (r - 1) + j].v = q[r][j]
  <2>1. PICK h \in Nat : r = h + 1 /\ h < n
    BY <1>1
  <2>2. r - 1 = h /\ h \in 0 .. n /\ 6 * h + j \in 1 .. 6 * n
    BY <1>1, <2>1
  <2>3. off[h] = 6 * h /\ u[off[h] + j] = q[r][j]
    BY <1>3, <1>4, <2>2
  <2> QED
    BY <1>5, <1>6, <2>2, <2>3
<1>8. CreateReportBlocks(b.reports) = w
  BY DEF CreateReportBlocks, w, u, q
<1> QED
  BY <1>1, <1>5, <1>6, <1>7, <1>8 DEF n, q

\* A sender report.
LEMMA SenderReportIs ==
  ASSUME NEW b, b.class = "SenderReport", Proper(b)
  PROVE  LET c == Create(b)
             n == Len(b.reports)
         IN  /\ IsSeq(c) /\ n \in Nat /\ Len(c) = 7 + 6 * n
             /\ c[1].hdr /\ c[1].pt = "SR" /\ c[1].ic = n /\ c[1].len = 6 + 6 * n
             /\ c[2].v = b.ssrc /\ b.sr = <<c[3].v, c[4].v, c[5].v, c[6].v, c[7].v>>
             /\ \A r \in 1 .. n : \A j \in 1 .. 6 : c[7 + 6 * (r - 1) + j].v = b.reports[r][j]
<1> DEFINE head == <<b.ssrc>> \o b.sr
           hw == UWords(head)
           w == CreateReportBlocks(b.reports)
           n == Len(b.reports)
           body == hw \o w
           c == CreateHeader("SR", n, body)
<1>1. IsSeq(b.sr) /\ Len(b.sr) = 5 /\ Reports(b) /\ Create(b) = c
  BY DEF Proper, Create, CreateSenderReport
<1>2. /\ n \in Nat /\ IsSeq(w) /\ Len(w) = 6 * n
      /\ \A r \in 1 .. n : \A j \in 1 .. 6 : w[6 * (r - 1) + j].v = b.reports[r][j]
  BY <1>1, ReportWordsAre
<1>3. /\ IsSeq(head) /\ Len(head) = 6 /\ head[1] = b.ssrc
      /\ \A j \in 1 .. 5 : head[1 + j] = b.sr[j]
  <2>1. /\ IsSeq(<<b.ssrc>>) /\ Len(<<b.ssrc>>) = 1 /\ <<b.ssrc>>[1] = b.ssrc
        /\ 1 \in 1 .. 1
    BY TupleIs
  <2> DEFINE t == <<b.ssrc>>
  <2> HIDE DEF t
  <2>2. /\ IsSeq(head) /\ Len(head) = Len(t) + Len(b.sr)
        /\ \A j \in 1 .. Len(t) : head[j] = t[j]
        /\ \A j \in 1 .. Len(b.sr) : head[Len(t) + j] = b.sr[j]
    <3>1. Joined(head, t, b.sr)
      BY <1>1, <2>1, ConcatIs, Zenon DEF t
    <3> HIDE DEF head
    <3> QED
      BY <3>1 DEF Joined
  <2> HIDE DEF head
  <2> QED
    BY <1>1, <2>1, <2>2 DEF t
<1> HIDE DEF head, w, n
<1>4. /\ IsSeq(hw) /\ Len(hw) = 6 /\ \A j \in 1 .. 6 : hw[j].v = head[j]
  BY <1>3, UWordsIs
<1> HIDE DEF hw
<1>5. /\ IsSeq(body) /\ Len(body) = 6 + 6 * n
      /\ \A j \in 1 .. 6 : body[j] = hw[j]
      /\ \A j \in 1 .. 6 * n : body[6 + j] = w[j]
  <2>1. /\ IsSeq(body) /\ Len(body) = Len(hw) + Len(w)
        /\ \A j \in 1 .. Len(hw) : body[j] = hw[j]
        /\ \A j \in 1 .. Len(w) : body[Len(hw) + j] = w[j]
    <3>1. Joined(body, hw, w)
      BY <1>2, <1>4, ConcatIs, Zenon
    <3> HIDE DEF body
    <3> QED
      BY <3>1 DEF Joined
  <2> HIDE DEF body
  <2> QED
    BY <1>2, <1>4, <2>1
<1> HIDE DEF body
<1>6. /\ IsSeq(c) /\ Len(c) = 1 + Len(body)
      /\ c[1].hdr /\ c[1].pt = "SR" /\ c[1].ic = n /\ c[1].len = Len(body)
      /\ \A j \in 1 .. Len(body) : c[1 + j] = body[j]
  <2>1. Headed(c, "SR", n, body)
    BY <1>5, HeaderIs, Zenon
  <2> HIDE DEF c, body
  <2> QED
    BY <2>1 DEF Headed
<1> HIDE DEF c
<1>7. \A j \in 1 .. 6 : c[1 + j].v = head[j]
  <2>1. \A j \in 1 .. 6 : j \in 1 .. Len(body)
    BY <1>2, <1>5
  <2> QED
    BY <1>4, <1>5, <1>6, <2>1
<1>8. c[2].v = b.ssrc /\ \A j \in 1 .. 5 : c[2 + j].v = b.sr[j]
  <2>1. c[2].v = b.ssrc
    BY <1>3, <1>7
  <2>2. ASSUME NEW j \in 1 .. 5 PROVE c[2 + j].v = b.sr[j]
    <3>1. 1 + j \in 1 .. 6 /\ 1 + (1 + j) = 2 + j
      OBVIOUS
    <3>2. c[1 + (1 + j)].v = head[1 + j]
      BY <1>7, <3>1
    <3> QED
      BY <1>3, <3>1, <3>2
  <2> QED
    BY <2>1, <2>2
<1>9. b.sr = <<c[3].v, c[4].v, c[5].v, c[6].v, c[7].v>>
  <2>1. b.sr = [j \in 1 .. 5 |-> b.sr[j]]
    BY <1>1 DEF IsSeq
  <2>2. /\ b.sr[1] = c[3].v /\ b.sr[2] = c[4].v /\ b.sr[3] = c[5].v
        /\ b.sr[4] = c[6].v /\ b.sr[5] = c[7].v
    BY <1>8
  <2>3. \A s : s = [j \in 1 .. 5 |-> s[j]] => s = <<s[1], s[2], s[3], s[4], s[5]>>
    OBVIOUS
  <2>4. b.sr = <<b.sr[1], b.sr[2], b.sr[3], b.sr[4], b.sr[5]>>
    BY <2>1, <2>3
  <2> QED
    BY <2>2, <2>4
<1>10. ASSUME NEW r \in 1 .. n, NEW j \in 1 .. 6
       PROVE  c[7 + 6 * (r - 1) + j].v = b.reports[r][j]
  <2> DEFINE t == 6 * (r - 1) + j
  <2>1. t \in 1 .. 6 * n
    <3>1. PICK h \in Nat : r = h + 1 /\ h < n
      BY <1>2
    <3>2. r - 1 = h /\ 6 * h + j \in 1 .. 6 * n
      BY <1>2, <3>1
    <3> QED
      BY <3>2
  <2>2. w[t].v = b.reports[r][j]
    BY <1>2
  <2>3. 7 + 6 * (r - 1) + j = 1 + (6 + t) /\ 6 + t \in 1 .. Len(body)
    <3>1. r - 1 \in Nat
      BY <1>2
    <3>2. 6 * (r - 1) \in Nat
      BY <3>1
    <3> DEFINE g == 6 * (r - 1)
    <3> HIDE DEF g
    <3>3. 7 + g + j = 1 + (6 + (g + j))
      BY <3>2 DEF g
    <3> QED
      BY <1>2, <1>5, <2>1, <3>3 DEF g
  <2> HIDE DEF t
  <2> QED
    BY <1>5, <1>6, <2>1, <2>2, <2>3
<1>11. n \in Nat /\ Len(c) = 7 + 6 * n /\ c[1].len = 6 + 6 * n
  BY <1>2, <1>5, <1>6
<1>12. Create(b) = c
  BY <1>1
<1>13. \A r \in 1 .. n : \A j \in 1 .. 6 : c[7 + 6 * (r - 1) + j].v = b.reports[r][j]
  BY <1>10
<1> QED
  BY <1>6, <1>8, <1>9, <1>11, <1>12, <1>13, Zenon DEF n

\* A receiver report.
LEMMA ReceiverReportIs ==
  ASSUME NEW b, b.class = "ReceiverReport", Proper(b)
  PROVE  LET c == Create(b)
             n == Len(b.reports)
         IN  /\ IsSeq(c) /\ n \in Nat /\ Len(c) = 2 + 6 * n
             /\ c[1].hdr /\ c[1].pt = "RR" /\ c[1].ic = n /\ c[1].len = 1 + 6 * n
             /\ c[2].v = b.ssrc
             /\ \A r \in 1 .. n : \A j \in 1 .. 6 : c[2 + 6 * (r - 1) + j].v = b.reports[r][j]
<1> DEFINE head == <<b.ssrc>>
           hw == UWords(head)
           w == CreateReportBlocks(b.reports)
           n == Len(b.reports)
           body == hw \o w
           c == CreateHeader("RR", n, body)
<1>1. Reports(b) /\ Create(b) = c
  BY DEF Proper, Create, CreateReceiverReport
<1>2. /\ n \in Nat /\ IsSeq(w) /\ Len(w) = 6 * n
      /\ \A r \in 1 .. n : \A j \in 1 .. 6 : w[6 * (r - 1) + j].v = b.reports[r][j]
  BY <1>1, ReportWordsAre
<1>3. IsSeq(head) /\ Len(head) = 1 /\ head[1] = b.ssrc
  BY TupleIs
<1> HIDE DEF head, w, n
<1>4. IsSeq(hw) /\ Len(hw) = 1 /\ hw[1].v = b.ssrc
  BY <1>3, UWordsIs
<1> HIDE DEF hw
<1>5. /\ IsSeq(body) /\ Len(body) = 1 + 6 * n
      /\ body[1] = hw[1]
      /\ \A j \in 1 .. 6 * n : body[1 + j] = w[j]
  <2>1. 1 \in 1 .. 1
    OBVIOUS
  <2>2. /\ IsSeq(body) /\ Len(body) = Len(hw) + Len(w)
        /\ \A j \in 1 .. Len(hw) : body[j] = hw[j]
        /\ \A j \in 1 .. Len(w) : body[Len(hw) + j] = w[j]
    <3>1. Joined(body, hw, w)
      BY <1>2, <1>4, ConcatIs, Zenon
    <3> HIDE DEF body
    <3> QED
      BY <3>1 DEF Joined
  <2> HIDE DEF body
  <2> QED
    BY <1>2, <1>4, <2>1, <2>2
<1> HIDE DEF body
<1>6. /\ IsSeq(c) /\ Len(c) = 1 + Len(body)
      /\ c[1].hdr /\ c[1].pt = "RR" /\ c[1].ic = n /\ c[1].len = Len(body)
      /\ \A j \in 1 .. Len(body) : c[1 + j] = body[j]
  <2>1. Headed(c, "RR", n, body)
    BY <1>5, HeaderIs, Zenon
  <2> HIDE DEF c, body
  <2> QED
    BY <2>1 DEF Headed
<1> HIDE DEF c
<1>7. c[2].v = b.ssrc
  <2>1. 1 \in 1 .. Len(body)
    BY <1>2, <1>5
  <2> QED
    BY <1>4, <1>5, <1>6, <2>1
<1>8. ASSUME NEW r \in 1 .. n, NEW j \in 1 .. 6
      PROVE  c[2 + 6 * (r - 1) + j].v = b.reports[r][j]
  <2> DEFINE t == 6 * (r - 1) + j
  <2>1. t \in 1 .. 6 * n
    <3>1. PICK h \in Nat : r = h + 1 /\ h < n
      BY <1>2
    <3>2. r - 1 = h /\ 6 * h + j \in 1 .. 6 * n
      BY <1>2, <3>1
    <3> QED
      BY <3>2
  <2>2. w[t].v = b.reports[r][j]
    BY <1>2
  <2>3. 2 + 6 * (r - 1) + j = 1 + (1 + t) /\ 1 + t \in 1 .. Len(body)
    <3>1. r - 1 \in Nat
      BY <1>2
    <3>2. 6 * (r - 1) \in Nat
      BY <3>1
    <3> DEFINE g == 6 * (r - 1)
    <3> HIDE DEF g
    <3>3. 2 + g + j = 1 + (1 + (g + j))
      BY <3>2 DEF g
    <3> QED
      BY <1>2, <1>5, <2>1, <3>3 DEF g
  <2> HIDE DEF t
  <2> QED
    BY <1>5, <1>6, <2>1, <2>2, <2>3
<1> QED
  BY <1>1, <1>2, <1>5, <1>6, <1>7, <1>8 DEF n, c

\* Words that are values, one behind another.
Plain(c, pt, ic, values) ==
  /\ IsSeq(c) /\ Len(values) \in Nat /\ Len(c) = 1 + Len(values)
  /\ c[1].hdr /\ c[1].pt = pt /\ c[1].ic = ic /\ c[1].len = Len(values)
  /\ \A j \in 1 .. Len(values) : c[1 + j].v = values[j]

\* A header, and a word for each value.
LEMMA PlainIs ==
  ASSUME NEW pt, NEW ic, NEW values, IsSeq(values)
  PROVE  Plain(CreateHeader(pt, ic, UWords(values)), pt, ic, values)
<1> DEFINE u == UWords(values)
           c == CreateHeader(pt, ic, u)
<1>1. IsSeq(u) /\ Len(u) = Len(values) /\ \A i \in 1 .. Len(values) : u[i].v = values[i]
  BY UWordsIs
<1> HIDE DEF u
<1>2. Headed(c, pt, ic, u)
  BY <1>1, HeaderIs, Zenon
<1> HIDE DEF c
<1>3. Plain(c, pt, ic, values)
  BY <1>1, <1>2 DEF Headed, Plain, IsSeq
<1> QED
  BY <1>3 DEF c, u

\* Words behind a head of two.
LEMMA PairIs ==
  ASSUME NEW a, NEW b, NEW s, IsSeq(s)
  PROVE  /\ IsSeq(<<a, b>> \o s) /\ Len(<<a, b>> \o s) = 2 + Len(s)
         /\ (<<a, b>> \o s)[1] = a /\ (<<a, b>> \o s)[2] = b
         /\ \A i \in 1 .. Len(s) : (<<a, b>> \o s)[2 + i] = s[i]
<1> DEFINE t == <<a, b>>
           r == t \o s
<1>1. IsSeq(t) /\ Len(t) = 2 /\ t[1] = a /\ t[2] = b /\ 1 \in 1 .. 2 /\ 2 \in 1 .. 2
  BY TupleIs
<1> HIDE DEF t
<1>2. Joined(r, t, s)
  BY <1>1, ConcatIs, Zenon
<1> HIDE DEF r
<1>3. /\ IsSeq(r) /\ Len(r) = 2 + Len(s) /\ r[1] = a /\ r[2] = b
      /\ \A i \in 1 .. Len(s) : r[2 + i] = s[i]
  BY <1>1, <1>2 DEF Joined
<1> QED
  BY <1>3 DEF r, t

\* The words of a source description.
LEMMA SdesIs ==
  ASSUME NEW b, b.class = "Sdes", Proper(b)
  PROVE  LET c == Create(b)
         IN  /\ IsSeq(c) /\ Len(c) \in Nat /\ Len(c) >= 2
             /\ c[1].hdr /\ c[1].pt = "SDES" /\ c[1].len = Len(c) - 1
<1> DEFINE ch == b.chunks
           n == Len(ch)
           q == [i \in 1 .. n |-> UWords(<<b.ssrc>>) \o Text(ch[i])]
           body == FlattenSeq(q)
           c == CreateHeader("SDES", n, body)
<1>1. /\ IsSeq(ch) /\ n \in Nat /\ n # 0 /\ DOMAIN ch = 1 .. n
      /\ \A i \in 1 .. n : ch[i].octets \in Nat
  <2>1. IsSeq(ch) /\ n \in 1 .. MaxCount /\ \A i \in DOMAIN ch : ch[i].octets \in Nat
    BY DEF Proper
  <2>2. n \in Nat /\ ch = [i \in 1 .. n |-> ch[i]]
    BY <2>1 DEF IsSeq
  <2>3. DOMAIN ch = 1 .. n
    BY <2>2
  <2> QED
    BY <2>1, <2>2, <2>3
<1>2. Create(b) = c
  BY <1>1 DEF Create, CreateSdes
<1>3. ASSUME NEW i \in 1 .. n
      PROVE  IsSeq(q[i]) /\ Len(q[i]) \in Nat /\ Len(q[i]) >= 1
  <2> DEFINE u == UWords(<<b.ssrc>>)
             t == Text(ch[i])
             l == (2 + ch[i].octets) \div 4 + 1
  <2>1. IsSeq(u) /\ Len(u) = 1
    <3>1. IsSeq(<<b.ssrc>>) /\ Len(<<b.ssrc>>) = 1
      BY TupleIs
    <3> QED
      BY <3>1, UWordsIs
  <2>2. IsSeq(t)
    <3>1. l \in Nat
      BY <1>1
    <3>2. t = [j \in 1 .. l |-> t[j]]
      BY DEF Text
    <3> HIDE DEF l, t
    <3> QED
      BY <3>1, <3>2, FunctionIsSeq
  <2>3. q[i] = u \o t
    OBVIOUS
  <2> HIDE DEF u, t, q
  <2>4. Joined(q[i], u, t)
    BY <2>1, <2>2, <2>3, ConcatIs
  <2> QED
    BY <2>1, <2>2, <2>4 DEF Joined, IsSeq
<1>4. IsSeq(q) /\ Len(q) = n
  <2>1. q = [i \in 1 .. n |-> q[i]]
    OBVIOUS
  <2> HIDE DEF q, n
  <2> QED
    BY <1>1, <2>1, FunctionIsSeq
<1> HIDE DEF q, n
<1>5. PICK off : IsSeq(body) /\ Cuts(q, body, off)
  BY <1>3, <1>4, FlattenIs
<1>6. Len(body) \in Nat /\ Len(body) >= 1
  <2> HIDE DEF body
  <2>1. 1 \in 1 .. n
    BY <1>1
  <2>2. off[1] = off[0] + Len(q[1]) /\ off[1] <= Len(body) /\ off[0] = 0
    BY <1>4, <1>5, <2>1 DEF Cuts
  <2> QED
    BY <1>3, <1>5, <2>1, <2>2 DEF IsSeq
<1> HIDE DEF body
<1>7. Headed(c, "SDES", n, body)
  BY <1>5, HeaderIs, Zenon
<1> HIDE DEF c
<1> QED
  BY <1>2, <1>6, <1>7 DEF Headed

\* The words of a goodbye.
LEMMA ByeIs ==
  ASSUME NEW b, b.class = "Bye", Proper(b)
  PROVE  LET c == Create(b)
         IN  /\ IsSeq(c) /\ Len(c) \in Nat /\ Len(c) >= 2
             /\ c[1].hdr /\ c[1].pt = "BYE" /\ c[1].ic = Len(c) - 1 /\ c[1].len = Len(c) - 1
             /\ c[2].v = b.ssrc
<1> DEFINE t == <<b.ssrc>>
           values == t \o b.csrcs
           n == Len(UWords(values))
           c == CreateHeader("BYE", n, UWords(values))
<1>1. IsSeq(b.csrcs) /\ Create(b) = c
  BY DEF Proper, Create, CreateBye
<1>2. IsSeq(t) /\ Len(t) = 1 /\ t[1] = b.ssrc
  BY TupleIs
<1> HIDE DEF t
<1>3. Joined(values, t, b.csrcs)
  BY <1>1, <1>2, ConcatIs, Zenon
<1> HIDE DEF values
<1>4. /\ IsSeq(values) /\ Len(values) \in Nat /\ Len(values) >= 1 /\ values[1] = b.ssrc
      /\ 1 \in 1 .. Len(values)
  BY <1>1, <1>2, <1>3 DEF Joined, IsSeq
<1>5. n = Len(values)
  BY <1>4, UWordsIs
<1> HIDE DEF n
<1>6. Plain(c, "BYE", n, values)
  BY <1>4, PlainIs, Zenon
<1> HIDE DEF c
<1> QED
  BY <1>1, <1>4, <1>5, <1>6 DEF Plain

\* The words of an application block.
LEMMA AppIs ==
  ASSUME NEW b, b.class = "App", Proper(b)
  PROVE  LET c == Create(b)
             n == Len(b.data)
         IN  /\ IsSeq(b.data) /\ IsSeq(c) /\ n \in Nat /\ Len(c) = 3 + n
             /\ c[1].hdr /\ c[1].pt = "APP" /\ c[1].len = 2 + n
             /\ \A j \in 1 .. n : c[3 + j].v = b.data[j]
<1> DEFINE values == <<b.ssrc, "name">> \o b.data
           c == CreateHeader("APP", b.subtype, UWords(values))
           n == Len(b.data)
<1>1. IsSeq(b.data) /\ Create(b) = c
  BY DEF Proper, Create, CreateApp
<1>2. /\ IsSeq(values) /\ Len(values) = 2 + n
      /\ \A j \in 1 .. n : values[2 + j] = b.data[j]
  BY <1>1, PairIs
<1> HIDE DEF values
<1>3. Plain(c, "APP", b.subtype, values)
  BY <1>2, PlainIs, Zenon
<1>4. n \in Nat
  BY <1>1 DEF IsSeq
<1> HIDE DEF c, n
<1>5. ASSUME NEW j \in 1 .. n PROVE c[3 + j].v = b.data[j]
  <2>1. 3 + j = 1 + (2 + j) /\ 2 + j \in 1 .. Len(values)
    BY <1>2, <1>4
  <2> QED
    BY <1>2, <1>3, <2>1 DEF Plain
<1>6. /\ IsSeq(c) /\ Len(c) = 3 + n
      /\ c[1].hdr /\ c[1].pt = "APP" /\ c[1].len = 2 + n
  BY <1>2, <1>3, <1>4 DEF Plain
<1> QED
  BY <1>1, <1>4, <1>5, <1>6 DEF n

\* The words of a request for numbers.
LEMMA NackIs ==
  ASSUME NEW b, b.class = "Nack", Proper(b)
  PROVE  LET c == Create(b)
             items == NackItems(b.list)
             n == Len(items)
         IN  /\ IsSeq(c) /\ n \in Nat /\ Len(c) = 3 + n
             /\ c[1].hdr /\ c[1].pt = "RTPFB" /\ c[1].ic = 1 /\ c[1].len = 2 + n
             /\ c[2].v = b.ssrc /\ \A j \in 1 .. n : c[3 + j].v = items[j]
<1> DEFINE items == NackItems(b.list)
           values == <<b.ssrc, b.media>> \o items
           c == CreateHeader("RTPFB", 1, UWords(values))
           n == Len(items)
<1>1. Ascending(b.list) /\ Create(b) = c
  BY DEF Proper, Create, CreateNack
<1>2. IsSeq(items)
  BY <1>1, ListIs
<1> HIDE DEF items
<1>3. /\ IsSeq(values) /\ Len(values) = 2 + n /\ values[1] = b.ssrc
      /\ \A j \in 1 .. n : values[2 + j] = items[j]
  BY <1>2, PairIs
<1> HIDE DEF values
<1>4. Plain(c, "RTPFB", 1, values)
  BY <1>3, PlainIs, Zenon
<1>5. n \in Nat
  BY <1>2 DEF IsSeq
<1> HIDE DEF c, n
<1>6. ASSUME NEW j \in 1 .. n PROVE c[3 + j].v = items[j]
  <2>1. 3 + j = 1 + (2 + j) /\ 2 + j \in 1 .. Len(values)
    BY <1>3, <1>5
  <2> QED
    BY <1>3, <1>4, <2>1 DEF Plain
<1>7. /\ IsSeq(c) /\ Len(c) = 3 + n
      /\ c[1].hdr /\ c[1].pt = "RTPFB" /\ c[1].ic = 1 /\ c[1].len = 2 + n
      /\ c[2].v = b.ssrc
  <2>1. 2 = 1 + 1 /\ 1 \in 1 .. Len(values)
    BY <1>3, <1>5
  <2> QED
    BY <1>3, <1>4, <1>5, <2>1 DEF Plain
<1> QED
  BY <1>1, <1>5, <1>6, <1>7 DEF n, items

\* The words of a block this code has no class for.
LEMMA ForeignIs ==
  ASSUME NEW b, b.class = "Foreign", Proper(b)
  PROVE  NotOurs(b) /\ Plain(Create(b), b.pt, b.fmt, b.body)
<1>1. NotOurs(b) /\ IsSeq(b.body) /\ Create(b) = CreateHeader(b.pt, b.fmt, UWords(b.body))
  BY DEF Proper, Create
<1> QED
  BY <1>1, PlainIs

\* The words of a bitrate.
LEMMA RembIs ==
  ASSUME NEW b, b.class = "Remb", Proper(b)
  PROVE  LET c == Create(b)
             n == Len(b.ssrcs)
         IN  /\ IsSeq(c) /\ n \in Nat /\ Len(c) = 5 + n
             /\ c[1].hdr /\ c[1].pt = "PSFB" /\ c[1].ic = 15 /\ c[1].len = 4 + n
             /\ c[2].v = b.ssrc /\ c[4].v = "REMB" /\ c[5].octet = n
             /\ c[5].v.exp = Exponent(b.rate)
             /\ c[5].v.mantissa = b.rate \div 2 ^ Exponent(b.rate)
<1> DEFINE e == Exponent(b.rate)
           n == Len(b.ssrcs)
           item == RembItem(n, b.rate \div 2 ^ e, e)
           head == UWords(<<b.ssrc, 0, "REMB">>)
           mid == <<item>>
           first == head \o mid
           tail == UWords(b.ssrcs)
           body == first \o tail
           c == CreateHeader("PSFB", 15, body)
<1>1. IsSeq(b.ssrcs) /\ Create(b) = c
  BY DEF Proper, Create, CreateRemb
<1>2. /\ IsSeq(head) /\ Len(head) = 3
      /\ head[1].v = b.ssrc /\ head[3].v = "REMB"
  <2> DEFINE t == <<b.ssrc, 0, "REMB">>
  <2>1. IsSeq(t) /\ Len(t) = 3 /\ t[1] = b.ssrc /\ t[3] = "REMB" /\ 1 \in 1 .. 3 /\ 3 \in 1 .. 3
    BY TupleIs
  <2> HIDE DEF t
  <2>2. IsSeq(UWords(t)) /\ Len(UWords(t)) = 3 /\ \A j \in 1 .. 3 : UWords(t)[j].v = t[j]
    BY <2>1, UWordsIs
  <2>3. head = UWords(t)
    BY DEF t
  <2> HIDE DEF head
  <2> QED
    BY <2>1, <2>2, <2>3
<1>3. /\ item.octet = n /\ item.v.exp = e /\ item.v.mantissa = b.rate \div 2 ^ e
  BY DEF RembItem
<1> HIDE DEF item, head
<1>4. IsSeq(mid) /\ Len(mid) = 1 /\ mid[1] = item
  BY TupleIs
<1>5. IsSeq(tail) /\ Len(tail) = n /\ n \in Nat
  BY <1>1, UWordsIs DEF IsSeq
<1> HIDE DEF mid, tail
<1>6. Joined(first, head, mid)
  BY <1>2, <1>4, ConcatIs, Zenon
<1> HIDE DEF first
<1>7. /\ IsSeq(first) /\ Len(first) = 4
      /\ first[1].v = b.ssrc /\ first[3].v = "REMB" /\ first[4] = item
  <2>1. 1 \in 1 .. 3 /\ 3 \in 1 .. 3 /\ 1 \in 1 .. 1
    OBVIOUS
  <2> QED
    BY <1>2, <1>4, <1>6, <2>1 DEF Joined
<1>8. Joined(body, first, tail)
  BY <1>5, <1>7, ConcatIs, Zenon
<1> HIDE DEF body
<1>9. /\ IsSeq(body) /\ Len(body) = 4 + n
      /\ body[1].v = b.ssrc /\ body[3].v = "REMB" /\ body[4] = item
  <2>1. 1 \in 1 .. 4 /\ 3 \in 1 .. 4 /\ 4 \in 1 .. 4
    OBVIOUS
  <2> QED
    BY <1>5, <1>7, <1>8, <2>1 DEF Joined
<1>10. Headed(c, "PSFB", 15, body)
  BY <1>9, HeaderIs, Zenon
<1> HIDE DEF c
<1>11. c[2] = body[1] /\ c[4] = body[3] /\ c[5] = body[4]
  <2>1. /\ 1 \in 1 .. Len(body) /\ 3 \in 1 .. Len(body) /\ 4 \in 1 .. Len(body)
        /\ 2 = 1 + 1 /\ 4 = 1 + 3 /\ 5 = 1 + 4
    BY <1>5, <1>9
  <2> QED
    BY <1>10, <2>1 DEF Headed
<1>12. /\ IsSeq(c) /\ n \in Nat /\ Len(c) = 5 + n
       /\ c[1].hdr /\ c[1].pt = "PSFB" /\ c[1].ic = 15 /\ c[1].len = 4 + n
  BY <1>5, <1>9, <1>10 DEF Headed
<1> HIDE DEF e, n
<1> QED
  BY <1>1, <1>3, <1>9, <1>11, <1>12 DEF e, n

\* Products of naturals keep the order.
LEMMA Times ==
  ASSUME NEW a \in Nat, NEW x \in Nat, NEW y \in Nat, x <= y
  PROVE  a * x <= a * y /\ a * x \in Nat /\ a * (2 * x) = 2 * (a * x)
OBVIOUS

\* The powers of two that an exponent may stand for.
LEMMA Powers ==
  \A e \in 0 .. MaxExp : 2 ^ e \in Nat \ {0}
<1> DEFINE pow(e) == 2 ^ e
           T == {e \in 0 .. MaxExp : ~(pow(e) \in Nat \ {0})}
<1>1. MaxExp \in Nat /\ pow(0) = 1 /\ \A e \in 1 .. MaxExp : pow(e) = 2 * pow(e - 1)
  BY RtcpAssumption
<1> HIDE DEF pow
<1>2. ASSUME T # {} PROVE FALSE
  <2>1. PICK i \in T : \A k \in T : i <= k
    <3>1. T \in SUBSET Nat
      BY <1>1
    <3> HIDE DEF T
    <3> QED
      BY <1>2, <3>1, LeastNat
  <2>2. i \in 0 .. MaxExp /\ ~(pow(i) \in Nat \ {0})
    BY <2>1
  <2>3. i # 0
    BY <1>1, <2>2
  <2>4. i \in 1 .. MaxExp /\ i - 1 \in 0 .. MaxExp /\ ~(i <= i - 1)
    BY <1>1, <2>2, <2>3
  <2>5. i - 1 \notin T
    <3> HIDE DEF T
    <3> QED
      BY <2>1, <2>4
  <2>6. pow(i - 1) \in Nat \ {0} /\ pow(i) = 2 * pow(i - 1)
    BY <1>1, <2>4, <2>5
  <2> QED
    BY <2>2, <2>6
<1>3. \A e \in 0 .. MaxExp : pow(e) \in Nat \ {0}
  BY <1>2
<1> QED
  BY <1>3 DEF pow

\* The rate of the smallest exponent is as close as the mantissa allows.
LEMMA RateIsNear ==
  ASSUME NEW b, b.class = "Remb", Proper(b)
  PROVE  Near((b.rate \div 2 ^ Exponent(b.rate)) * 2 ^ Exponent(b.rate), b.rate)
<1> DEFINE pow(e) == 2 ^ e
           rate == b.rate
           a == 2 ^ MantissaBits - 1
           S == {e \in 0 .. MaxExp : rate <= a * pow(e)}
           x == Exponent(rate)
           P == pow(x)
           read == (rate \div P) * P
<1>1. /\ MaxExp \in Nat /\ pow(0) = 1 /\ \A e \in 1 .. MaxExp : pow(e) = 2 * pow(e - 1)
      /\ \A e \in 0 .. MaxExp : pow(e) \in Nat \ {0}
      /\ a \in Nat \ {0} /\ a = 2 ^ MantissaBits - 1
  BY RtcpAssumption, Powers
<1>2. rate \in 0 .. a * pow(MaxExp)
  BY DEF Proper
<1> HIDE DEF pow, a, rate
<1>3. rate \in Nat /\ MaxExp \in 0 .. MaxExp
  BY <1>1, <1>2
<1>4. rate <= a * pow(MaxExp)
  <2>1. pow(MaxExp) \in Nat /\ a \in Nat
    BY <1>1, <1>3
  <2>2. a * pow(MaxExp) \in Nat
    BY <2>1
  <2> DEFINE top == a * pow(MaxExp)
  <2> HIDE DEF top
  <2>3. rate <= top
    BY <1>2, <2>2 DEF top
  <2> QED
    BY <2>3 DEF top
<1>5. MaxExp \in S /\ S \in SUBSET Nat
  BY <1>3, <1>4
<1>6. x = Min(S)
  BY DEF Exponent, a, pow
<1>7. x \in S /\ \A k \in S : x <= k
  <2> HIDE DEF S, x
  <2> QED
    BY <1>5, <1>6, MinIs
<1>8. x \in 0 .. MaxExp /\ rate <= a * P /\ P \in Nat \ {0}
  BY <1>1, <1>7
<1>9. a * P <= 2 * rate \/ P = 1
  <2>1. CASE x = 0
    BY <1>1, <2>1
  <2>2. CASE x # 0
    <3>1. x \in 1 .. MaxExp /\ x - 1 \in 0 .. MaxExp /\ ~(x <= x - 1)
      BY <1>1, <1>8, <2>2
    <3>2. x - 1 \notin S
      <4> HIDE DEF S, x
      <4> QED
        BY <1>7, <3>1
    <3> DEFINE Q == pow(x - 1)
    <3>3. ~(rate <= a * Q) /\ P = 2 * Q /\ Q \in Nat
      BY <1>1, <3>1, <3>2
    <3> HIDE DEF P, Q
    <3>4. a * Q \in Nat /\ a * P = 2 * (a * Q)
      BY <1>1, <3>3, Times
    <3> QED
      BY <1>3, <3>3, <3>4
  <2> QED
    BY <2>1, <2>2
<1> HIDE DEF P, x, S
<1>10. read \in Nat /\ read <= rate /\ rate - read \in Nat /\ rate - read < P
  BY <1>3, <1>8
<1> HIDE DEF read
<1>11. (rate - read) * a <= 2 * rate
  <2>1. CASE P = 1
    <3>1. rate - read = 0
      BY <1>10, <2>1
    <3> QED
      BY <1>1, <1>3, <3>1
  <2>2. CASE a * P <= 2 * rate
    <3> DEFINE d == rate - read
    <3>1. d \in Nat /\ d <= P
      BY <1>8, <1>10
    <3> HIDE DEF d
    <3>2. a * d <= a * P /\ a * d = d * a /\ a * d \in Nat /\ a * P \in Nat
      BY <1>1, <1>8, <3>1, Times
    <3>3. d * a <= 2 * rate
      BY <1>3, <2>2, <3>2
    <3> QED
      BY <3>3 DEF d
  <2> QED
    BY <1>9, <2>1, <2>2
<1>12. Near(read, rate)
  BY <1>10, <1>11 DEF Near, a
<1> QED
  BY <1>12 DEF read, P, x, rate, pow

----------------------------------------------------------------------------
(* What is noted of a packet, field by field.                              *)

IsInfo(x) ==
  \E a1, a2, a3, a4, a5, a6, a7 :
    x = [flags |-> a1, ssrc |-> a2, sr |-> a3, reports |-> a4, nackList |-> a5,
         app |-> a6, bitrate |-> a7]

Fields(y, fl, ss, sr, re, na, ap, bi) ==
  /\ IsInfo(y)
  /\ y.flags = fl /\ y.ssrc = ss /\ y.sr = sr /\ y.reports = re /\ y.nackList = na
  /\ y.app = ap /\ y.bitrate = bi

\* A record of these fields.
LEMMA FieldsAre ==
  ASSUME NEW a1, NEW a2, NEW a3, NEW a4, NEW a5, NEW a6, NEW a7
  PROVE  Fields([flags |-> a1, ssrc |-> a2, sr |-> a3, reports |-> a4, nackList |-> a5,
                 app |-> a6, bitrate |-> a7], a1, a2, a3, a4, a5, a6, a7)
<1> DEFINE x == [flags |-> a1, ssrc |-> a2, sr |-> a3, reports |-> a4, nackList |-> a5,
                 app |-> a6, bitrate |-> a7]
<1>1. IsInfo(x)
  BY Zenon DEF IsInfo
<1>2. /\ x.flags = a1 /\ x.ssrc = a2 /\ x.sr = a3 /\ x.reports = a4 /\ x.nackList = a5
      /\ x.app = a6 /\ x.bitrate = a7
  OBVIOUS
<1> HIDE DEF x
<1>3. Fields(x, a1, a2, a3, a4, a5, a6, a7)
  BY <1>1, <1>2 DEF Fields
<1> QED
  BY <1>3 DEF x

\* One field changes.
LEMMA UpdateOne ==
  ASSUME NEW x, IsInfo(x), NEW v
  PROVE  /\ Fields([x EXCEPT !.flags = v],
                   v, x.ssrc, x.sr, x.reports, x.nackList, x.app, x.bitrate)
         /\ Fields([x EXCEPT !.ssrc = v],
                   x.flags, v, x.sr, x.reports, x.nackList, x.app, x.bitrate)
         /\ Fields([x EXCEPT !.sr = v],
                   x.flags, x.ssrc, v, x.reports, x.nackList, x.app, x.bitrate)
         /\ Fields([x EXCEPT !.reports = v],
                   x.flags, x.ssrc, x.sr, v, x.nackList, x.app, x.bitrate)
         /\ Fields([x EXCEPT !.nackList = v],
                   x.flags, x.ssrc, x.sr, x.reports, v, x.app, x.bitrate)
         /\ Fields([x EXCEPT !.app = v],
                   x.flags, x.ssrc, x.sr, x.reports, x.nackList, v, x.bitrate)
         /\ Fields([x EXCEPT !.bitrate = v],
                   x.flags, x.ssrc, x.sr, x.reports, x.nackList, x.app, v)
<1>1. PICK a1, a2, a3, a4, a5, a6, a7 :
        x = [flags |-> a1, ssrc |-> a2, sr |-> a3, reports |-> a4, nackList |-> a5,
             app |-> a6, bitrate |-> a7]
  BY DEF IsInfo
<1>2. /\ x.flags = a1 /\ x.ssrc = a2 /\ x.sr = a3 /\ x.reports = a4 /\ x.nackList = a5
      /\ x.app = a6 /\ x.bitrate = a7
  BY <1>1
<1>3. Fields([x EXCEPT !.flags = v], v, x.ssrc, x.sr, x.reports, x.nackList, x.app, x.bitrate)
  <2> DEFINE r == [flags |-> v, ssrc |-> a2, sr |-> a3, reports |-> a4,
                   nackList |-> a5, app |-> a6, bitrate |-> a7]
  <2>1. [x EXCEPT !.flags = v] = r
    BY <1>1
  <2>2. Fields(r, v, a2, a3, a4, a5, a6, a7)
    BY FieldsAre
  <2> HIDE DEF r
  <2> QED
    BY <1>2, <2>1, <2>2
<1>4. Fields([x EXCEPT !.ssrc = v], x.flags, v, x.sr, x.reports, x.nackList, x.app, x.bitrate)
  <2> DEFINE r == [flags |-> a1, ssrc |-> v, sr |-> a3, reports |-> a4,
                   nackList |-> a5, app |-> a6, bitrate |-> a7]
  <2>1. [x EXCEPT !.ssrc = v] = r
    BY <1>1
  <2>2. Fields(r, a1, v, a3, a4, a5, a6, a7)
    BY FieldsAre
  <2> HIDE DEF r
  <2> QED
    BY <1>2, <2>1, <2>2
<1>5. Fields([x EXCEPT !.sr = v], x.flags, x.ssrc, v, x.reports, x.nackList, x.app, x.bitrate)
  <2> DEFINE r == [flags |-> a1, ssrc |-> a2, sr |-> v, reports |-> a4,
                   nackList |-> a5, app |-> a6, bitrate |-> a7]
  <2>1. [x EXCEPT !.sr = v] = r
    BY <1>1
  <2>2. Fields(r, a1, a2, v, a4, a5, a6, a7)
    BY FieldsAre
  <2> HIDE DEF r
  <2> QED
    BY <1>2, <2>1, <2>2
<1>6. Fields([x EXCEPT !.reports = v], x.flags, x.ssrc, x.sr, v, x.nackList, x.app, x.bitrate)
  <2> DEFINE r == [flags |-> a1, ssrc |-> a2, sr |-> a3, reports |-> v,
                   nackList |-> a5, app |-> a6, bitrate |-> a7]
  <2>1. [x EXCEPT !.reports = v] = r
    BY <1>1
  <2>2. Fields(r, a1, a2, a3, v, a5, a6, a7)
    BY FieldsAre
  <2> HIDE DEF r
  <2> QED
    BY <1>2, <2>1, <2>2
<1>7. Fields([x EXCEPT !.nackList = v], x.flags, x.ssrc, x.sr, x.reports, v, x.app, x.bitrate)
  <2> DEFINE r == [flags |-> a1, ssrc |-> a2, sr |-> a3, reports |-> a4,
                   nackList |-> v, app |-> a6, bitrate |-> a7]
  <2>1. [x EXCEPT !.nackList = v] = r
    BY <1>1
  <2>2. Fields(r, a1, a2, a3, a4, v, a6, a7)
    BY FieldsAre
  <2> HIDE DEF r
  <2> QED
    BY <1>2, <2>1, <2>2
<1>8. Fields([x EXCEPT !.app = v], x.flags, x.ssrc, x.sr, x.reports, x.nackList, v, x.bitrate)
  <2> DEFINE r == [flags |-> a1, ssrc |-> a2, sr |-> a3, reports |-> a4,
                   nackList |-> a5, app |-> v, bitrate |-> a7]
  <2>1. [x EXCEPT !.app = v] = r
    BY <1>1
  <2>2. Fields(r, a1, a2, a3, a4, a5, v, a7)
    BY FieldsAre
  <2> HIDE DEF r
  <2> QED
    BY <1>2, <2>1, <2>2
<1>9. Fields([x EXCEPT !.bitrate = v], x.flags, x.ssrc, x.sr, x.reports, x.nackList, x.app, v)
  <2> DEFINE r == [flags |-> a1, ssrc |-> a2, sr |-> a3, reports |-> a4,
                   nackList |-> a5, app |-> a6, bitrate |-> v]
  <2>1. [x EXCEPT !.bitrate = v] = r
    BY <1>1
  <2>2. Fields(r, a1, a2, a3, a4, a5, a6, v)
    BY FieldsAre
  <2> HIDE DEF r
  <2> QED
    BY <1>2, <2>1, <2>2
<1> QED
  BY <1>3, <1>4, <1>5, <1>6, <1>7, <1>8, <1>9

\* Several fields change, one after the other.
LEMMA UpdateFlagsSsrc ==
  ASSUME NEW x, IsInfo(x), NEW fl, NEW ss
  PROVE  Fields([x EXCEPT !.flags = fl, !.ssrc = ss],
                fl, ss, x.sr, x.reports, x.nackList, x.app, x.bitrate)
<1> DEFINE y == [x EXCEPT !.flags = fl]
<1>1. Fields(y, fl, x.ssrc, x.sr, x.reports, x.nackList, x.app, x.bitrate)
  BY UpdateOne
<1> HIDE DEF y
<1>2. IsInfo(y)
  BY <1>1 DEF Fields
<1>3. Fields([y EXCEPT !.ssrc = ss], y.flags, ss, y.sr, y.reports, y.nackList, y.app, y.bitrate)
  BY <1>2, UpdateOne
<1>4. Fields([y EXCEPT !.ssrc = ss], fl, ss, x.sr, x.reports, x.nackList, x.app, x.bitrate)
  BY <1>1, <1>3, Zenon DEF Fields
<1> QED
  BY <1>4 DEF y

\* The flags and the data.
LEMMA UpdateFlagsApp ==
  ASSUME NEW x, IsInfo(x), NEW fl, NEW ap
  PROVE  Fields([x EXCEPT !.flags = fl, !.app = ap],
                fl, x.ssrc, x.sr, x.reports, x.nackList, ap, x.bitrate)
<1> DEFINE y == [x EXCEPT !.flags = fl]
<1>1. Fields(y, fl, x.ssrc, x.sr, x.reports, x.nackList, x.app, x.bitrate)
  BY UpdateOne
<1> HIDE DEF y
<1>2. IsInfo(y)
  BY <1>1 DEF Fields
<1>3. Fields([y EXCEPT !.app = ap], y.flags, y.ssrc, y.sr, y.reports, y.nackList, ap, y.bitrate)
  BY <1>2, UpdateOne
<1>4. Fields([y EXCEPT !.app = ap], fl, x.ssrc, x.sr, x.reports, x.nackList, ap, x.bitrate)
  BY <1>1, <1>3, Zenon DEF Fields
<1> QED
  BY <1>4 DEF y

\* The source and the list.
LEMMA UpdateSsrcList ==
  ASSUME NEW x, IsInfo(x), NEW ss, NEW na
  PROVE  Fields([x EXCEPT !.ssrc = ss, !.nackList = na],
                x.flags, ss, x.sr, x.reports, na, x.app, x.bitrate)
<1> DEFINE y == [x EXCEPT !.ssrc = ss]
<1>1. Fields(y, x.flags, ss, x.sr, x.reports, x.nackList, x.app, x.bitrate)
  BY UpdateOne
<1> HIDE DEF y
<1>2. IsInfo(y)
  BY <1>1 DEF Fields
<1>3. Fields([y EXCEPT !.nackList = na], y.flags, y.ssrc, y.sr, y.reports, na, y.app, y.bitrate)
  BY <1>2, UpdateOne
<1>4. Fields([y EXCEPT !.nackList = na], x.flags, ss, x.sr, x.reports, na, x.app, x.bitrate)
  BY <1>1, <1>3, Zenon DEF Fields
<1> QED
  BY <1>4 DEF y

\* The flags and the list.
LEMMA UpdateFlagsList ==
  ASSUME NEW x, IsInfo(x), NEW fl, NEW na
  PROVE  Fields([x EXCEPT !.flags = fl, !.nackList = na],
                fl, x.ssrc, x.sr, x.reports, na, x.app, x.bitrate)
<1> DEFINE y == [x EXCEPT !.flags = fl]
<1>1. Fields(y, fl, x.ssrc, x.sr, x.reports, x.nackList, x.app, x.bitrate)
  BY UpdateOne
<1> HIDE DEF y
<1>2. IsInfo(y)
  BY <1>1 DEF Fields
<1>3. Fields([y EXCEPT !.nackList = na], y.flags, y.ssrc, y.sr, y.reports, na, y.app, y.bitrate)
  BY <1>2, UpdateOne
<1>4. Fields([y EXCEPT !.nackList = na], fl, x.ssrc, x.sr, x.reports, na, x.app, x.bitrate)
  BY <1>1, <1>3, Zenon DEF Fields
<1> QED
  BY <1>4 DEF y

\* The flags and the rate.
LEMMA UpdateFlagsRate ==
  ASSUME NEW x, IsInfo(x), NEW fl, NEW bi
  PROVE  Fields([x EXCEPT !.flags = fl, !.bitrate = bi],
                fl, x.ssrc, x.sr, x.reports, x.nackList, x.app, bi)
<1> DEFINE y == [x EXCEPT !.flags = fl]
<1>1. Fields(y, fl, x.ssrc, x.sr, x.reports, x.nackList, x.app, x.bitrate)
  BY UpdateOne
<1> HIDE DEF y
<1>2. IsInfo(y)
  BY <1>1 DEF Fields
<1>3. Fields([y EXCEPT !.bitrate = bi], y.flags, y.ssrc, y.sr, y.reports, y.nackList, y.app, bi)
  BY <1>2, UpdateOne
<1>4. Fields([y EXCEPT !.bitrate = bi], fl, x.ssrc, x.sr, x.reports, x.nackList, x.app, bi)
  BY <1>1, <1>3, Zenon DEF Fields
<1> QED
  BY <1>4 DEF y

\* The flags, the source and the sender information.
LEMMA UpdateFlagsSsrcSr ==
  ASSUME NEW x, IsInfo(x), NEW fl, NEW ss, NEW sr
  PROVE  Fields([x EXCEPT !.flags = fl, !.ssrc = ss, !.sr = sr],
                fl, ss, sr, x.reports, x.nackList, x.app, x.bitrate)
<1> DEFINE y == [x EXCEPT !.flags = fl, !.ssrc = ss]
<1>1. Fields(y, fl, ss, x.sr, x.reports, x.nackList, x.app, x.bitrate)
  BY UpdateFlagsSsrc
<1> HIDE DEF y
<1>2. IsInfo(y)
  BY <1>1 DEF Fields
<1>3. Fields([y EXCEPT !.sr = sr], y.flags, y.ssrc, sr, y.reports, y.nackList, y.app, y.bitrate)
  BY <1>2, UpdateOne
<1>4. Fields([y EXCEPT !.sr = sr], fl, ss, sr, x.reports, x.nackList, x.app, x.bitrate)
  BY <1>1, <1>3, Zenon DEF Fields
<1> QED
  BY <1>4 DEF y

\* The flags, the source and the reports.
LEMMA UpdateFlagsSsrcReports ==
  ASSUME NEW x, IsInfo(x), NEW fl, NEW ss, NEW re
  PROVE  Fields([x EXCEPT !.flags = fl, !.ssrc = ss, !.reports = re],
                fl, ss, x.sr, re, x.nackList, x.app, x.bitrate)
<1> DEFINE y == [x EXCEPT !.flags = fl, !.ssrc = ss]
<1>1. Fields(y, fl, ss, x.sr, x.reports, x.nackList, x.app, x.bitrate)
  BY UpdateFlagsSsrc
<1> HIDE DEF y
<1>2. IsInfo(y)
  BY <1>1 DEF Fields
<1>3. Fields([y EXCEPT !.reports = re], y.flags, y.ssrc, y.sr, re, y.nackList, y.app, y.bitrate)
  BY <1>2, UpdateOne
<1>4. Fields([y EXCEPT !.reports = re], fl, ss, x.sr, re, x.nackList, x.app, x.bitrate)
  BY <1>1, <1>3, Zenon DEF Fields
<1> QED
  BY <1>4 DEF y

\* The flags, the source and the list.
LEMMA UpdateFlagsSsrcList ==
  ASSUME NEW x, IsInfo(x), NEW fl, NEW ss, NEW na
  PROVE  Fields([x EXCEPT !.flags = fl, !.ssrc = ss, !.nackList = na],
                fl, ss, x.sr, x.reports, na, x.app, x.bitrate)
<1> DEFINE y == [x EXCEPT !.flags = fl, !.ssrc = ss]
<1>1. Fields(y, fl, ss, x.sr, x.reports, x.nackList, x.app, x.bitrate)
  BY UpdateFlagsSsrc
<1> HIDE DEF y
<1>2. IsInfo(y)
  BY <1>1 DEF Fields
<1>3. Fields([y EXCEPT !.nackList = na], y.flags, y.ssrc, y.sr, y.reports, na, y.app, y.bitrate)
  BY <1>2, UpdateOne
<1>4. Fields([y EXCEPT !.nackList = na], fl, ss, x.sr, x.reports, na, x.app, x.bitrate)
  BY <1>1, <1>3, Zenon DEF Fields
<1> QED
  BY <1>4 DEF y

\* The flags, the source and the rate.
LEMMA UpdateFlagsSsrcRate ==
  ASSUME NEW x, IsInfo(x), NEW fl, NEW ss, NEW bi
  PROVE  Fields([x EXCEPT !.flags = fl, !.ssrc = ss, !.bitrate = bi],
                fl, ss, x.sr, x.reports, x.nackList, x.app, bi)
<1> DEFINE y == [x EXCEPT !.flags = fl, !.ssrc = ss]
<1>1. Fields(y, fl, ss, x.sr, x.reports, x.nackList, x.app, x.bitrate)
  BY UpdateFlagsSsrc
<1> HIDE DEF y
<1>2. IsInfo(y)
  BY <1>1 DEF Fields
<1>3. Fields([y EXCEPT !.bitrate = bi], y.flags, y.ssrc, y.sr, y.reports, y.nackList, y.app, bi)
  BY <1>2, UpdateOne
<1>4. Fields([y EXCEPT !.bitrate = bi], fl, ss, x.sr, x.reports, x.nackList, x.app, bi)
  BY <1>1, <1>3, Zenon DEF Fields
<1> QED
  BY <1>4 DEF y

\* All that a sender report changes.
LEMMA UpdateFlagsSsrcSrReports ==
  ASSUME NEW x, IsInfo(x), NEW fl, NEW ss, NEW sr, NEW re
  PROVE  Fields([x EXCEPT !.flags = fl, !.ssrc = ss, !.sr = sr, !.reports = re],
                fl, ss, sr, re, x.nackList, x.app, x.bitrate)
<1> DEFINE y == [x EXCEPT !.flags = fl, !.ssrc = ss, !.sr = sr]
<1>1. Fields(y, fl, ss, sr, x.reports, x.nackList, x.app, x.bitrate)
  BY UpdateFlagsSsrcSr
<1> HIDE DEF y
<1>2. IsInfo(y)
  BY <1>1 DEF Fields
<1>3. Fields([y EXCEPT !.reports = re], y.flags, y.ssrc, y.sr, re, y.nackList, y.app, y.bitrate)
  BY <1>2, UpdateOne
<1>4. Fields([y EXCEPT !.reports = re], fl, ss, sr, re, x.nackList, x.app, x.bitrate)
  BY <1>1, <1>3, Zenon DEF Fields
<1> QED
  BY <1>4 DEF y

----------------------------------------------------------------------------
(* The parser, field by field.                                             *)

IsParser(x) ==
  \E a1, a2, a3, a4, a5 :
    x = [pos |-> a1, end |-> a2, state |-> a3, left |-> a4, type |-> a5]

Spot(y, po, en, st, le, ty) ==
  /\ IsParser(y)
  /\ y.pos = po /\ y.end = en /\ y.state = st /\ y.left = le /\ y.type = ty

\* A record of these fields.
LEMMA SpotIs ==
  ASSUME NEW a1, NEW a2, NEW a3, NEW a4, NEW a5
  PROVE  Spot([pos |-> a1, end |-> a2, state |-> a3, left |-> a4, type |-> a5],
              a1, a2, a3, a4, a5)
<1> DEFINE x == [pos |-> a1, end |-> a2, state |-> a3, left |-> a4, type |-> a5]
<1>1. IsParser(x)
  BY Zenon DEF IsParser
<1>2. x.pos = a1 /\ x.end = a2 /\ x.state = a3 /\ x.left = a4 /\ x.type = a5
  OBVIOUS
<1> HIDE DEF x
<1>3. Spot(x, a1, a2, a3, a4, a5)
  BY <1>1, <1>2 DEF Spot
<1> QED
  BY <1>3 DEF x

\* One field changes.
LEMMA SpotOne ==
  ASSUME NEW x, IsParser(x), NEW v
  PROVE  /\ Spot([x EXCEPT !.pos = v], v, x.end, x.state, x.left, x.type)
         /\ Spot([x EXCEPT !.end = v], x.pos, v, x.state, x.left, x.type)
         /\ Spot([x EXCEPT !.state = v], x.pos, x.end, v, x.left, x.type)
         /\ Spot([x EXCEPT !.left = v], x.pos, x.end, x.state, v, x.type)
         /\ Spot([x EXCEPT !.type = v], x.pos, x.end, x.state, x.left, v)
<1>1. PICK a1, a2, a3, a4, a5 :
        x = [pos |-> a1, end |-> a2, state |-> a3, left |-> a4, type |-> a5]
  BY DEF IsParser
<1>2. x.pos = a1 /\ x.end = a2 /\ x.state = a3 /\ x.left = a4 /\ x.type = a5
  BY <1>1
<1>3. Spot([x EXCEPT !.pos = v], v, x.end, x.state, x.left, x.type)
  <2> DEFINE r == [pos |-> v, end |-> a2, state |-> a3, left |-> a4, type |-> a5]
  <2>1. [x EXCEPT !.pos = v] = r
    BY <1>1
  <2>2. Spot(r, v, a2, a3, a4, a5)
    BY SpotIs
  <2> HIDE DEF r
  <2> QED
    BY <1>2, <2>1, <2>2
<1>4. Spot([x EXCEPT !.end = v], x.pos, v, x.state, x.left, x.type)
  <2> DEFINE r == [pos |-> a1, end |-> v, state |-> a3, left |-> a4, type |-> a5]
  <2>1. [x EXCEPT !.end = v] = r
    BY <1>1
  <2>2. Spot(r, a1, v, a3, a4, a5)
    BY SpotIs
  <2> HIDE DEF r
  <2> QED
    BY <1>2, <2>1, <2>2
<1>5. Spot([x EXCEPT !.state = v], x.pos, x.end, v, x.left, x.type)
  <2> DEFINE r == [pos |-> a1, end |-> a2, state |-> v, left |-> a4, type |-> a5]
  <2>1. [x EXCEPT !.state = v] = r
    BY <1>1
  <2>2. Spot(r, a1, a2, v, a4, a5)
    BY SpotIs
  <2> HIDE DEF r
  <2> QED
    BY <1>2, <2>1, <2>2
<1>6. Spot([x EXCEPT !.left = v], x.pos, x.end, x.state, v, x.type)
  <2> DEFINE r == [pos |-> a1, end |-> a2, state |-> a3, left |-> v, type |-> a5]
  <2>1. [x EXCEPT !.left = v] = r
    BY <1>1
  <2>2. Spot(r, a1, a2, a3, v, a5)
    BY SpotIs
  <2> HIDE DEF r
  <2> QED
    BY <1>2, <2>1, <2>2
<1>7. Spot([x EXCEPT !.type = v], x.pos, x.end, x.state, x.left, v)
  <2> DEFINE r == [pos |-> a1, end |-> a2, state |-> a3, left |-> a4, type |-> v]
  <2>1. [x EXCEPT !.type = v] = r
    BY <1>1
  <2>2. Spot(r, a1, a2, a3, a4, v)
    BY SpotIs
  <2> HIDE DEF r
  <2> QED
    BY <1>2, <2>1, <2>2
<1> QED
  BY <1>3, <1>4, <1>5, <1>6, <1>7

\* Several fields change, one after the other.
LEMMA SpotPosEnd ==
  ASSUME NEW x, IsParser(x), NEW po, NEW en
  PROVE  Spot([x EXCEPT !.pos = po, !.end = en], po, en, x.state, x.left, x.type)
<1> DEFINE y == [x EXCEPT !.pos = po]
<1>1. Spot(y, po, x.end, x.state, x.left, x.type)
  BY SpotOne
<1> HIDE DEF y
<1>2. IsParser(y)
  BY <1>1 DEF Spot
<1>3. Spot([y EXCEPT !.end = en], y.pos, en, y.state, y.left, y.type)
  BY <1>2, SpotOne
<1>4. Spot([y EXCEPT !.end = en], po, en, x.state, x.left, x.type)
  BY <1>1, <1>3, Zenon DEF Spot
<1> QED
  BY <1>4 DEF y

\* The position and the state.
LEMMA SpotPosState ==
  ASSUME NEW x, IsParser(x), NEW po, NEW st
  PROVE  Spot([x EXCEPT !.pos = po, !.state = st], po, x.end, st, x.left, x.type)
<1> DEFINE y == [x EXCEPT !.pos = po]
<1>1. Spot(y, po, x.end, x.state, x.left, x.type)
  BY SpotOne
<1> HIDE DEF y
<1>2. IsParser(y)
  BY <1>1 DEF Spot
<1>3. Spot([y EXCEPT !.state = st], y.pos, y.end, st, y.left, y.type)
  BY <1>2, SpotOne
<1>4. Spot([y EXCEPT !.state = st], po, x.end, st, x.left, x.type)
  BY <1>1, <1>3, Zenon DEF Spot
<1> QED
  BY <1>4 DEF y

\* The position and the type.
LEMMA SpotPosType ==
  ASSUME NEW x, IsParser(x), NEW po, NEW ty
  PROVE  Spot([x EXCEPT !.pos = po, !.type = ty], po, x.end, x.state, x.left, ty)
<1> DEFINE y == [x EXCEPT !.pos = po]
<1>1. Spot(y, po, x.end, x.state, x.left, x.type)
  BY SpotOne
<1> HIDE DEF y
<1>2. IsParser(y)
  BY <1>1 DEF Spot
<1>3. Spot([y EXCEPT !.type = ty], y.pos, y.end, y.state, y.left, ty)
  BY <1>2, SpotOne
<1>4. Spot([y EXCEPT !.type = ty], po, x.end, x.state, x.left, ty)
  BY <1>1, <1>3, Zenon DEF Spot
<1> QED
  BY <1>4 DEF y

\* The position and what is left.
LEMMA SpotPosLeft ==
  ASSUME NEW x, IsParser(x), NEW po, NEW le
  PROVE  Spot([x EXCEPT !.pos = po, !.left = le], po, x.end, x.state, le, x.type)
<1> DEFINE y == [x EXCEPT !.pos = po]
<1>1. Spot(y, po, x.end, x.state, x.left, x.type)
  BY SpotOne
<1> HIDE DEF y
<1>2. IsParser(y)
  BY <1>1 DEF Spot
<1>3. Spot([y EXCEPT !.left = le], y.pos, y.end, y.state, le, y.type)
  BY <1>2, SpotOne
<1>4. Spot([y EXCEPT !.left = le], po, x.end, x.state, le, x.type)
  BY <1>1, <1>3, Zenon DEF Spot
<1> QED
  BY <1>4 DEF y

\* The position, what is left and the type.
LEMMA SpotPosLeftType ==
  ASSUME NEW x, IsParser(x), NEW po, NEW le, NEW ty
  PROVE  Spot([x EXCEPT !.pos = po, !.left = le, !.type = ty], po, x.end, x.state, le, ty)
<1> DEFINE y == [x EXCEPT !.pos = po, !.left = le]
<1>1. Spot(y, po, x.end, x.state, le, x.type)
  BY SpotPosLeft
<1> HIDE DEF y
<1>2. IsParser(y)
  BY <1>1 DEF Spot
<1>3. Spot([y EXCEPT !.type = ty], y.pos, y.end, y.state, y.left, ty)
  BY <1>2, SpotOne
<1>4. Spot([y EXCEPT !.type = ty], po, x.end, x.state, le, ty)
  BY <1>1, <1>3, Zenon DEF Spot
<1> QED
  BY <1>4 DEF y

\* The position, the state and the type.
LEMMA SpotPosStateType ==
  ASSUME NEW x, IsParser(x), NEW po, NEW st, NEW ty
  PROVE  Spot([x EXCEPT !.pos = po, !.state = st, !.type = ty], po, x.end, st, x.left, ty)
<1> DEFINE y == [x EXCEPT !.pos = po, !.state = st]
<1>1. Spot(y, po, x.end, st, x.left, x.type)
  BY SpotPosState
<1> HIDE DEF y
<1>2. IsParser(y)
  BY <1>1 DEF Spot
<1>3. Spot([y EXCEPT !.type = ty], y.pos, y.end, y.state, y.left, ty)
  BY <1>2, SpotOne
<1>4. Spot([y EXCEPT !.type = ty], po, x.end, st, x.left, ty)
  BY <1>1, <1>3, Zenon DEF Spot
<1> QED
  BY <1>4 DEF y

----------------------------------------------------------------------------
(* Where the reader is in what was sent.                                   *)

Good(x) == IsInfo(x) /\ IsSeq(x.reports) /\ IsSeq(x.app)

\* What is noted, up to the bits of a rate.
NotedAs(f, fl, ss, sr, re, na, ap, rate) ==
  /\ IsInfo(f)
  /\ f.flags = fl /\ f.ssrc = ss /\ f.sr = sr /\ f.reports = re /\ f.nackList = na
  /\ f.app = ap /\ Near(f.bitrate, rate)

Same(f, x) ==
  Good(x) /\ NotedAs(f, x.flags, x.ssrc, x.sr, x.reports, x.nackList, x.app, x.bitrate)

\* The block b lies behind the first o words.
At(b, o) ==
  /\ o \in Nat /\ Len(words) \in Nat /\ o + Len(Create(b)) <= Len(words)
  /\ \A j \in 1 .. Len(Create(b)) : words[o + j] = Create(b)[j]

\* The reader p with its notes f is behind the block, i was noted before it.
Behind(b, o, i, p, f) ==
  /\ IsParser(p) /\ p.pos = o + Len(Create(b)) /\ p.state = "TopLevel" /\ p.type # "Invalid"
  /\ Same(f, Meaning(i, b))

\* It is in the block: the first r reports are read.
InReports(b, o, i, p, f) ==
  LET x == Meaning(i, b)
      s == IF b.class = "SenderReport" THEN 7 ELSE 2
  IN  /\ b.class \in {"SenderReport", "ReceiverReport"}
      /\ \E r \in 0 .. Len(b.reports) : \E re :
           /\ Spot(p, o + s + 6 * r, o + Len(Create(b)), "ReportBlockItem",
                   Len(b.reports) - r, p.type)
           /\ IsSeq(re) /\ Len(re) = Len(i.reports) + r
           /\ \A j \in 1 .. Len(i.reports) : re[j] = i.reports[j]
           /\ \A j \in 1 .. r : re[Len(i.reports) + j] = b.reports[j]
           /\ NotedAs(f, x.flags, x.ssrc, x.sr, re, x.nackList, x.app, x.bitrate)

\* Nothing that counts is left to read.
InRest(b, o, i, p, f) ==
  /\ IsParser(p) /\ p.end = o + Len(Create(b)) /\ Same(f, Meaning(i, b))
  /\ p.state \in {"SDESChunk", "BYEItem"}

\* The first q items are read, and the first numbers of the list.
InItems(b, o, i, p, f) ==
  LET x == Meaning(i, b)
      n == Len(NackItems(b.list))
  IN  /\ b.class = "Nack"
      /\ \E q \in 0 .. n : \E cut, na :
           /\ Spot(p, o + 3 + q, o + Len(Create(b)), "NACKItem", p.left, p.type)
           /\ cut \in [0 .. n -> 0 .. Len(b.list)] /\ cut[0] = 0 /\ cut[n] = Len(b.list)
           /\ \A k \in 1 .. n : Carries(NackItems(b.list)[k], b.list, cut[k - 1], cut[k])
           /\ IsSeq(na) /\ Len(na) = cut[q] /\ \A j \in 1 .. cut[q] : na[j] = b.list[j]
           /\ NotedAs(f, IF q = 0 THEN i.flags ELSE x.flags, x.ssrc, x.sr, x.reports, na,
                    x.app, x.bitrate)

\* The first a words of the data are read.
InApp(b, o, i, p, f) ==
  LET x == Meaning(i, b)
  IN  /\ b.class = "App"
      /\ \E a \in 0 .. Len(b.data) : \E ap :
           /\ Spot(p, o + 3 + a, o + Len(Create(b)), "AppItem", p.left, p.type)
           /\ IsSeq(ap) /\ Len(ap) = Len(i.app) + a
           /\ \A j \in 1 .. Len(i.app) : ap[j] = i.app[j]
           /\ \A j \in 1 .. a : ap[Len(i.app) + j] = b.data[j]
           /\ NotedAs(f, x.flags, x.ssrc, x.sr, x.reports, x.nackList, ap, x.bitrate)

\* The identifier is next.
InFeedback(b, o, i, p, f) ==
  /\ b.class = "Remb" \/ (b.class = "Foreign" /\ b.pt = "PSFB" /\ b.fmt = 15)
  /\ Spot(p, o + 3, o + Len(Create(b)), "PsfbAppItem", p.left, p.type)
  /\ Same(f, i)

\* The identifier is read, or the rate behind it.
InRemb(b, o, i, p, f) ==
  LET x == Meaning(i, b)
  IN  /\ b.class = "Remb"
      /\ \/ /\ Spot(p, o + 4, o + Len(Create(b)), "REMBItem", p.left, "Remb")
            /\ NotedAs(f, i.flags, x.ssrc, x.sr, x.reports, x.nackList, x.app, i.bitrate)
         \/ /\ Spot(p, o + Len(Create(b)), o + Len(Create(b)), "REMBItem", p.left, "RembItem")
            /\ Same(f, x)

In(b, o, i, p, f) ==
  /\ p.type # "Invalid" /\ Good(i) /\ Good(Meaning(i, b))
  /\ \/ InReports(b, o, i, p, f) \/ InRest(b, o, i, p, f) \/ InItems(b, o, i, p, f)
     \/ InApp(b, o, i, p, f) \/ InFeedback(b, o, i, p, f) \/ InRemb(b, o, i, p, f)

\* The reader is in front of the block.
Before(b, o, i) ==
  /\ Proper(b) /\ At(b, o) /\ IsParser(parser) /\ parser.pos = o
  /\ parser.state = "TopLevel" /\ parser.type # "Invalid" /\ Same(info, i)

\* What the blocks are to add, field by field.
LEMMA MeaningIs ==
  ASSUME NEW i, Good(i), NEW b
  PROVE  LET x == Meaning(i, b)
         IN  /\ b.class = "SenderReport" =>
                  Fields(x, i.flags \cup {"Sr"}, b.ssrc, b.sr, i.reports \o b.reports,
                         i.nackList, i.app, i.bitrate)
             /\ b.class = "ReceiverReport" =>
                  Fields(x, i.flags \cup {"Rr"}, b.ssrc, i.sr, i.reports \o b.reports,
                         i.nackList, i.app, i.bitrate)
             /\ b.class = "Sdes" =>
                  Fields(x, i.flags \cup {"Sdes"}, i.ssrc, i.sr, i.reports,
                         i.nackList, i.app, i.bitrate)
             /\ b.class = "Bye" =>
                  Fields(x, i.flags \cup {"Bye"}, b.ssrc, i.sr, i.reports,
                         i.nackList, i.app, i.bitrate)
             /\ b.class = "App" =>
                  Fields(x, i.flags \cup {"App"}, i.ssrc, i.sr, i.reports,
                         i.nackList, i.app \o b.data, i.bitrate)
             /\ b.class = "Nack" =>
                  Fields(x, i.flags \cup {"Nack"}, b.ssrc, i.sr, i.reports,
                         b.list, i.app, i.bitrate)
             /\ b.class = "Remb" =>
                  Fields(x, i.flags \cup {"Remb"}, b.ssrc, i.sr, i.reports,
                         i.nackList, i.app, b.rate)
             /\ b.class = "Foreign" => x = i
<1> DEFINE x == Meaning(i, b)
<1>0. IsInfo(i)
  BY DEF Good
<1>1. ASSUME b.class = "SenderReport"
      PROVE  Fields(x, i.flags \cup {"Sr"}, b.ssrc, b.sr, i.reports \o b.reports,
                    i.nackList, i.app, i.bitrate)
  <2>1. x = [i EXCEPT !.flags = i.flags \cup {"Sr"}, !.ssrc = b.ssrc, !.sr = b.sr,
                      !.reports = i.reports \o b.reports]
    BY <1>1 DEF Meaning
  <2>2. Fields([i EXCEPT !.flags = i.flags \cup {"Sr"}, !.ssrc = b.ssrc, !.sr = b.sr,
                         !.reports = i.reports \o b.reports],
            i.flags \cup {"Sr"}, b.ssrc, b.sr, i.reports \o b.reports,
            i.nackList, i.app, i.bitrate)
    BY <1>0, UpdateFlagsSsrcSrReports, Zenon
  <2> HIDE DEF x
  <2> QED
    BY <2>1, <2>2, Zenon
<1>2. ASSUME b.class = "ReceiverReport"
      PROVE  Fields(x, i.flags \cup {"Rr"}, b.ssrc, i.sr, i.reports \o b.reports,
                    i.nackList, i.app, i.bitrate)
  <2>1. x = [i EXCEPT !.flags = i.flags \cup {"Rr"}, !.ssrc = b.ssrc,
                      !.reports = i.reports \o b.reports]
    BY <1>2 DEF Meaning
  <2>2. Fields([i EXCEPT !.flags = i.flags \cup {"Rr"}, !.ssrc = b.ssrc,
                         !.reports = i.reports \o b.reports],
            i.flags \cup {"Rr"}, b.ssrc, i.sr, i.reports \o b.reports,
            i.nackList, i.app, i.bitrate)
    BY <1>0, UpdateFlagsSsrcReports, Zenon
  <2> HIDE DEF x
  <2> QED
    BY <2>1, <2>2, Zenon
<1>3. ASSUME b.class = "Sdes"
      PROVE  Fields(x, i.flags \cup {"Sdes"}, i.ssrc, i.sr, i.reports,
                    i.nackList, i.app, i.bitrate)
  <2>1. x = [i EXCEPT !.flags = i.flags \cup {"Sdes"}]
    BY <1>3 DEF Meaning
  <2>2. Fields([i EXCEPT !.flags = i.flags \cup {"Sdes"}],
            i.flags \cup {"Sdes"}, i.ssrc, i.sr, i.reports,
            i.nackList, i.app, i.bitrate)
    BY <1>0, UpdateOne, Zenon
  <2> HIDE DEF x
  <2> QED
    BY <2>1, <2>2, Zenon
<1>4. ASSUME b.class = "Bye"
      PROVE  Fields(x, i.flags \cup {"Bye"}, b.ssrc, i.sr, i.reports,
                    i.nackList, i.app, i.bitrate)
  <2>1. x = [i EXCEPT !.flags = i.flags \cup {"Bye"}, !.ssrc = b.ssrc]
    BY <1>4 DEF Meaning
  <2>2. Fields([i EXCEPT !.flags = i.flags \cup {"Bye"}, !.ssrc = b.ssrc],
            i.flags \cup {"Bye"}, b.ssrc, i.sr, i.reports,
            i.nackList, i.app, i.bitrate)
    BY <1>0, UpdateFlagsSsrc, Zenon
  <2> HIDE DEF x
  <2> QED
    BY <2>1, <2>2, Zenon
<1>5. ASSUME b.class = "App"
      PROVE  Fields(x, i.flags \cup {"App"}, i.ssrc, i.sr, i.reports,
                    i.nackList, i.app \o b.data, i.bitrate)
  <2>1. x = [i EXCEPT !.flags = i.flags \cup {"App"}, !.app = i.app \o b.data]
    BY <1>5 DEF Meaning
  <2>2. Fields([i EXCEPT !.flags = i.flags \cup {"App"}, !.app = i.app \o b.data],
            i.flags \cup {"App"}, i.ssrc, i.sr, i.reports,
            i.nackList, i.app \o b.data, i.bitrate)
    BY <1>0, UpdateFlagsApp, Zenon
  <2> HIDE DEF x
  <2> QED
    BY <2>1, <2>2, Zenon
<1>6. ASSUME b.class = "Nack"
      PROVE  Fields(x, i.flags \cup {"Nack"}, b.ssrc, i.sr, i.reports,
                    b.list, i.app, i.bitrate)
  <2>1. x = [i EXCEPT !.flags = i.flags \cup {"Nack"}, !.ssrc = b.ssrc, !.nackList = b.list]
    BY <1>6 DEF Meaning
  <2>2. Fields([i EXCEPT !.flags = i.flags \cup {"Nack"}, !.ssrc = b.ssrc, !.nackList = b.list],
            i.flags \cup {"Nack"}, b.ssrc, i.sr, i.reports,
            b.list, i.app, i.bitrate)
    BY <1>0, UpdateFlagsSsrcList, Zenon
  <2> HIDE DEF x
  <2> QED
    BY <2>1, <2>2, Zenon
<1>7. ASSUME b.class = "Remb"
      PROVE  Fields(x, i.flags \cup {"Remb"}, b.ssrc, i.sr, i.reports,
                    i.nackList, i.app, b.rate)
  <2>1. x = [i EXCEPT !.flags = i.flags \cup {"Remb"}, !.ssrc = b.ssrc, !.bitrate = b.rate]
    BY <1>7 DEF Meaning
  <2>2. Fields([i EXCEPT !.flags = i.flags \cup {"Remb"}, !.ssrc = b.ssrc, !.bitrate = b.rate],
            i.flags \cup {"Remb"}, b.ssrc, i.sr, i.reports,
            i.nackList, i.app, b.rate)
    BY <1>0, UpdateFlagsSsrcRate, Zenon
  <2> HIDE DEF x
  <2> QED
    BY <2>1, <2>2, Zenon
<1>8. ASSUME b.class = "Foreign" PROVE x = i
  BY <1>8 DEF Meaning
<1> HIDE DEF x
<1> QED
  BY <1>1, <1>2, <1>3, <1>4, <1>5, <1>6, <1>7, <1>8 DEF x

\* What was noted stays readable.
LEMMA MeaningGood ==
  ASSUME NEW i, Good(i), NEW b, Proper(b)
  PROVE  Good(Meaning(i, b))
<1> DEFINE x == Meaning(i, b)
<1>1. IsInfo(i) /\ IsSeq(i.reports) /\ IsSeq(i.app)
  BY DEF Good
<1>2. CASE b.class = "SenderReport" \/ b.class = "ReceiverReport"
  <2>1. IsSeq(b.reports)
    BY <1>2 DEF Proper, Reports
  <2>2. IsSeq(i.reports \o b.reports)
    BY <1>1, <2>1, ConcatIs DEF Joined
  <2>3. IsInfo(x) /\ x.reports = i.reports \o b.reports /\ x.app = i.app
    <3>1. \/ Fields(x, i.flags \cup {"Sr"}, b.ssrc, b.sr, i.reports \o b.reports,
                    i.nackList, i.app, i.bitrate)
          \/ Fields(x, i.flags \cup {"Rr"}, b.ssrc, i.sr, i.reports \o b.reports,
                    i.nackList, i.app, i.bitrate)
      BY <1>2, MeaningIs
    <3> HIDE DEF x
    <3> QED
      BY <3>1, Zenon DEF Fields
  <2> HIDE DEF x
  <2>4. Good(x)
    BY <1>1, <2>2, <2>3 DEF Good
  <2> QED
    BY <2>4 DEF x
<1>3. CASE b.class = "App"
  <2>1. IsSeq(b.data)
    BY <1>3 DEF Proper
  <2>2. IsSeq(i.app \o b.data)
    BY <1>1, <2>1, ConcatIs DEF Joined
  <2>3. IsInfo(x) /\ x.reports = i.reports /\ x.app = i.app \o b.data
    <3>1. Fields(x, i.flags \cup {"App"}, i.ssrc, i.sr, i.reports,
                 i.nackList, i.app \o b.data, i.bitrate)
      BY <1>3, MeaningIs
    <3> HIDE DEF x
    <3> QED
      BY <3>1, Zenon DEF Fields
  <2> HIDE DEF x
  <2>4. Good(x)
    BY <1>1, <2>2, <2>3 DEF Good
  <2> QED
    BY <2>4 DEF x
<1>4. CASE b.class \in {"Sdes", "Bye", "Nack", "Remb", "Foreign"}
  <2>1. IsInfo(x) /\ x.reports = i.reports /\ x.app = i.app
    <3>1. CASE b.class = "Sdes"
      BY <3>1, MeaningIs DEF Fields
    <3>2. CASE b.class = "Bye"
      BY <3>2, MeaningIs DEF Fields
    <3>3. CASE b.class = "Nack"
      BY <3>3, MeaningIs DEF Fields
    <3>4. CASE b.class = "Remb"
      BY <3>4, MeaningIs DEF Fields
    <3>5. CASE b.class = "Foreign"
      BY <1>1, <3>5, MeaningIs
    <3> QED
      BY <1>4, <3>1, <3>2, <3>3, <3>4, <3>5
  <2> HIDE DEF x
  <2>2. Good(x)
    BY <1>1, <2>1 DEF Good
  <2> QED
    BY <2>2 DEF x
<1>5. \/ b.class = "SenderReport" \/ b.class = "ReceiverReport" \/ b.class = "App"
      \/ b.class \in {"Sdes", "Bye", "Nack", "Remb", "Foreign"}
  BY DEF Proper
<1> QED
  BY <1>2, <1>3, <1>4, <1>5

\* The header of a block tells its length.
LEMMA HeadIs ==
  ASSUME NEW b, Proper(b)
  PROVE  LET c == Create(b)
         IN  Len(c) \in Nat \ {0} /\ c[1].hdr /\ c[1].len = Len(c) - 1
<1> DEFINE c == Create(b)
<1>1. CASE b.class = "SenderReport"
  <2>1. /\ Len(b.reports) \in Nat /\ Len(c) = 7 + 6 * Len(b.reports)
        /\ c[1].hdr /\ c[1].len = 6 + 6 * Len(b.reports)
    BY <1>1, SenderReportIs
  <2> HIDE DEF c
  <2>2. Len(c) \in Nat \ {0} /\ c[1].hdr /\ c[1].len = Len(c) - 1
    BY <2>1
  <2> QED
    BY <2>2 DEF c
<1>2. CASE b.class = "ReceiverReport"
  <2>1. /\ Len(b.reports) \in Nat /\ Len(c) = 2 + 6 * Len(b.reports)
        /\ c[1].hdr /\ c[1].len = 1 + 6 * Len(b.reports)
    BY <1>2, ReceiverReportIs
  <2> HIDE DEF c
  <2>2. Len(c) \in Nat \ {0} /\ c[1].hdr /\ c[1].len = Len(c) - 1
    BY <2>1
  <2> QED
    BY <2>2 DEF c
<1>3. CASE b.class = "Sdes"
  BY <1>3, SdesIs
<1>4. CASE b.class = "Bye"
  BY <1>4, ByeIs
<1>5. CASE b.class = "App"
  <2>1. Len(b.data) \in Nat /\ Len(c) = 3 + Len(b.data) /\ c[1].hdr /\ c[1].len = 2 + Len(b.data)
    BY <1>5, AppIs
  <2> HIDE DEF c
  <2>2. Len(c) \in Nat \ {0} /\ c[1].hdr /\ c[1].len = Len(c) - 1
    BY <2>1
  <2> QED
    BY <2>2 DEF c
<1>6. CASE b.class = "Nack"
  <2> DEFINE n == Len(NackItems(b.list))
  <2>1. n \in Nat /\ Len(c) = 3 + n /\ c[1].hdr /\ c[1].len = 2 + n
    BY <1>6, NackIs
  <2> HIDE DEF c, n
  <2>2. Len(c) \in Nat \ {0} /\ c[1].hdr /\ c[1].len = Len(c) - 1
    BY <2>1
  <2> QED
    BY <2>2 DEF c
<1>7. CASE b.class = "Remb"
  <2>1. Len(b.ssrcs) \in Nat /\ Len(c) = 5 + Len(b.ssrcs) /\ c[1].hdr /\ c[1].len = 4 + Len(b.ssrcs)
    BY <1>7, RembIs
  <2> HIDE DEF c
  <2>2. Len(c) \in Nat \ {0} /\ c[1].hdr /\ c[1].len = Len(c) - 1
    BY <2>1
  <2> QED
    BY <2>2 DEF c
<1>8. CASE b.class = "Foreign"
  <2>1. Len(b.body) \in Nat /\ Len(c) = 1 + Len(b.body) /\ c[1].hdr /\ c[1].len = Len(b.body)
    BY <1>8, ForeignIs DEF Plain
  <2> HIDE DEF c
  <2>2. Len(c) \in Nat \ {0} /\ c[1].hdr /\ c[1].len = Len(c) - 1
    BY <2>1
  <2> QED
    BY <2>2 DEF c
<1>9. \/ b.class = "SenderReport" \/ b.class = "ReceiverReport" \/ b.class = "Sdes"
      \/ b.class = "Bye" \/ b.class = "App" \/ b.class = "Nack" \/ b.class = "Remb"
      \/ b.class = "Foreign"
  BY DEF Proper
<1> HIDE DEF c
<1> QED
  BY <1>1, <1>2, <1>3, <1>4, <1>5, <1>6, <1>7, <1>8, <1>9 DEF c

\* In front of a block the reader sees it whole.
LEMMA AtHead ==
  ASSUME NEW b, NEW o, NEW i, Before(b, o, i)
  PROVE  LET c == Create(b)
         IN  /\ AtBlock /\ Header = c[1] /\ Size = Len(c) /\ Len(c) \in Nat /\ o \in Nat
             /\ parser.pos = o /\ \A j \in 1 .. Len(c) : Field(j) = c[j].v
<1> DEFINE c == Create(b)
           l == Len(c)
<1>1. l \in Nat \ {0} /\ c[1].hdr /\ c[1].len = l - 1
  BY HeadIs DEF Before
<1>2. /\ o \in Nat /\ Len(words) \in Nat /\ o + l <= Len(words)
      /\ \A j \in 1 .. l : words[o + j] = c[j]
      /\ parser.pos = o /\ parser.state = "TopLevel" /\ parser.type # "Invalid"
  BY DEF Before, At
<1> HIDE DEF l, c
<1>3. 1 \in 1 .. l
  BY <1>1
<1>4. Header = c[1] /\ words[parser.pos + 1] = c[1]
  BY <1>2, <1>3 DEF Header
<1>5. Size = l
  BY <1>1, <1>4 DEF Size
<1>6. AtBlock
  BY <1>1, <1>2, <1>4, <1>5 DEF AtBlock, AtHeader
<1>7. \A j \in 1 .. l : Field(j) = c[j].v
  BY <1>2 DEF Field
<1> QED
  BY <1>1, <1>2, <1>4, <1>5, <1>6, <1>7 DEF l, c

\* The block there decides what the step is.
LEMMA BlockIs ==
  ASSUME AtBlock, ParserNext
  PROVE  /\ words' = words
         /\ \/ SenderReport \/ ReceiverReport \/ Sdes \/ Bye
            \/ TransportFeedback \/ PayloadFeedback \/ App \/ Foreign
         /\ SenderReport => Header.pt = "SR"
         /\ ReceiverReport => Header.pt = "RR"
         /\ Sdes => Header.pt = "SDES"
         /\ Bye => Header.pt = "BYE"
         /\ TransportFeedback => Header.pt = "RTPFB"
         /\ PayloadFeedback => Header.pt = "PSFB"
         /\ App => Header.pt = "APP"
         /\ Foreign => Header.pt \notin Known
<1>1. ~Stop
  BY DEF Stop, AtBlock
<1>2. ~Item
  <2>1. parser.state = "TopLevel"
    BY DEF AtBlock
  <2>2. ~ReportBlockItem
    BY <2>1 DEF ReportBlockItem
  <2>3. ~SDESChunk
    BY <2>1 DEF SDESChunk
  <2>4. ~BYEItem
    BY <2>1 DEF BYEItem
  <2>5. ~NACKItem
    BY <2>1 DEF NACKItem
  <2>6. ~AppItem
    BY <2>1 DEF AppItem
  <2>7. ~PsfbAppItem
    BY <2>1 DEF PsfbAppItem
  <2>8. ~REMBItem
    BY <2>1 DEF REMBItem
  <2> QED
    BY <2>2, <2>3, <2>4, <2>5, <2>6, <2>7, <2>8 DEF Item
<1>3. Block /\ words' = words
  BY <1>1, <1>2 DEF ParserNext
<1>4. SenderReport => Header.pt = "SR"
  BY DEF SenderReport
<1>5. ReceiverReport => Header.pt = "RR"
  BY DEF ReceiverReport
<1>6. Sdes => Header.pt = "SDES"
  BY DEF Sdes
<1>7. Bye => Header.pt = "BYE"
  BY DEF Bye
<1>8. TransportFeedback => Header.pt = "RTPFB"
  BY DEF TransportFeedback
<1>9. PayloadFeedback => Header.pt = "PSFB"
  BY DEF PayloadFeedback
<1>10. App => Header.pt = "APP"
  BY DEF App
<1>11. Foreign => Header.pt \notin Known
  BY DEF Foreign
<1> QED
  BY <1>3, <1>4, <1>5, <1>6, <1>7, <1>8, <1>9, <1>10, <1>11 DEF Block

\* The notes before a block, and what a block adds.
LEMMA SameFields ==
  ASSUME NEW f, NEW i, Same(f, i)
  PROVE  /\ IsInfo(f) /\ Good(i)
         /\ f.flags = i.flags /\ f.ssrc = i.ssrc /\ f.sr = i.sr /\ f.reports = i.reports
         /\ f.nackList = i.nackList /\ f.app = i.app /\ Near(f.bitrate, i.bitrate)
BY DEF Same, NotedAs

\* Notes whose rate is near.
LEMMA NotedBy ==
  ASSUME NEW y, NEW fl, NEW ss, NEW sr, NEW re, NEW na, NEW ap, NEW bi, NEW rate,
         Fields(y, fl, ss, sr, re, na, ap, bi), Near(bi, rate)
  PROVE  NotedAs(y, fl, ss, sr, re, na, ap, rate)
BY DEF Fields, NotedAs

\* Notes of everything that was to be added.
LEMMA SameBy ==
  ASSUME NEW y, NEW fl, NEW ss, NEW sr, NEW re, NEW na, NEW ap, NEW rate, NEW x,
         NotedAs(y, fl, ss, sr, re, na, ap, rate), Fields(x, fl, ss, sr, re, na, ap, rate),
         Good(x)
  PROVE  Same(y, x)
BY DEF Fields, NotedAs, Same

\* The reader enters a block.
LEMMA EnterIs ==
  ASSUME NEW n, NEW s, NEW t, Enter(n, s, t)
  PROVE  Spot(parser', parser.pos + n, parser.pos + Size, s, Header.ic, t)
<1>1. parser' = [pos |-> parser.pos + n, end |-> parser.pos + Size, state |-> s,
                 left |-> Header.ic, type |-> t]
  BY DEF Enter
<1>2. Spot([pos |-> parser.pos + n, end |-> parser.pos + Size, state |-> s,
            left |-> Header.ic, type |-> t],
           parser.pos + n, parser.pos + Size, s, Header.ic, t)
  BY SpotIs, Zenon
<1> QED
  BY <1>1, <1>2, Zenon

\* A sender report is entered, or passed when no report is in it.
LEMMA SenderReportStep ==
  ASSUME NEW b, NEW o, NEW i, Before(b, o, i), b.class = "SenderReport", ParserNext
  PROVE  In(b, o, i, parser', info') \/ Behind(b, o, i, parser', info')
<1> DEFINE c == Create(b)
           n == Len(b.reports)
           x == Meaning(i, b)
           fl == i.flags \cup {"Sr"}
           all == i.reports \o b.reports
<1>1. /\ Proper(b) /\ Same(info, i) /\ Good(i) /\ Good(x) /\ n \in Nat
      /\ Len(c) = 7 + 6 * n /\ c[1].pt = "SR" /\ c[1].ic = n
      /\ c[2].v = b.ssrc /\ b.sr = <<c[3].v, c[4].v, c[5].v, c[6].v, c[7].v>>
  BY SenderReportIs, MeaningGood, SameFields DEF Before
<1>2. /\ AtBlock /\ Header = c[1] /\ Size = Len(c) /\ o \in Nat /\ parser.pos = o
      /\ \A j \in 1 .. Len(c) : Field(j) = c[j].v
  BY AtHead
<1>3. Fields(x, fl, b.ssrc, b.sr, all, i.nackList, i.app, i.bitrate)
  BY <1>1, MeaningIs
<1> HIDE DEF c, n, x, all
<1>4. SenderReport /\ Size >= 7
  <2>1. Header.pt = "SR" /\ Size >= 7
    BY <1>1, <1>2
  <2> QED
    BY <1>2, <2>1, BlockIs DEF Known
<1>5. /\ \/ n # 0 /\ Enter(7, "ReportBlockItem", "Sr")
         \/ n = 0 /\ Enter(Size, "TopLevel", "Sr")
      /\ info' = [info EXCEPT !.flags = info.flags \cup {"Sr"}, !.ssrc = b.ssrc, !.sr = b.sr]
  <2>1. /\ Field(2) = b.ssrc
        /\ <<Field(3), Field(4), Field(5), Field(6), Field(7)>> = b.sr
    <3>1. /\ 2 \in 1 .. Len(c) /\ 3 \in 1 .. Len(c) /\ 4 \in 1 .. Len(c) /\ 5 \in 1 .. Len(c)
          /\ 6 \in 1 .. Len(c) /\ 7 \in 1 .. Len(c)
      BY <1>1
    <3> QED
      BY <1>1, <1>2, <3>1
  <2>2. ~(Size < 7) /\ Header.ic = n
    BY <1>1, <1>2, <1>4
  <2>3. /\ IF Header.ic # 0 THEN Enter(7, "ReportBlockItem", "Sr")
                            ELSE Enter(Size, "TopLevel", "Sr")
        /\ info' = [info EXCEPT !.flags = info.flags \cup {"Sr"}, !.ssrc = Field(2),
                      !.sr = <<Field(3), Field(4), Field(5), Field(6), Field(7)>>]
    BY <1>4, <2>2, Zenon DEF SenderReport
  <2>4. info' = [info EXCEPT !.flags = info.flags \cup {"Sr"}, !.ssrc = b.ssrc, !.sr = b.sr]
    BY <2>1, <2>3, Zenon
  <2>5. \/ n # 0 /\ Enter(7, "ReportBlockItem", "Sr")
        \/ n = 0 /\ Enter(Size, "TopLevel", "Sr")
    BY <2>2, <2>3
  <2> QED
    BY <2>4, <2>5
<1>6. Fields(info', fl, b.ssrc, b.sr, i.reports, i.nackList, i.app, info.bitrate)
  <2>1. Fields([info EXCEPT !.flags = info.flags \cup {"Sr"}, !.ssrc = b.ssrc, !.sr = b.sr],
               info.flags \cup {"Sr"}, b.ssrc, b.sr, info.reports, info.nackList, info.app,
               info.bitrate)
    BY <1>1, SameFields, UpdateFlagsSsrcSr, Zenon
  <2>2. /\ info.flags = i.flags /\ info.reports = i.reports
        /\ info.nackList = i.nackList /\ info.app = i.app
    BY <1>1, SameFields
  <2> QED
    BY <1>5, <2>1, <2>2, Zenon
<1>7. NotedAs(info', fl, b.ssrc, b.sr, i.reports, i.nackList, i.app, i.bitrate)
  BY <1>1, <1>6, SameFields, NotedBy, Zenon
<1> HIDE DEF fl
<1>8. IsSeq(i.reports) /\ IsSeq(b.reports)
  BY <1>1 DEF Good, Proper, Reports
<1>9. CASE n # 0 /\ Enter(7, "ReportBlockItem", "Sr")
  <2>1. Spot(parser', o + 7, o + Len(c), "ReportBlockItem", n, "Sr")
    BY <1>1, <1>2, <1>9, EnterIs, Zenon
  <2>2. parser'.type = "Sr"
    BY <2>1 DEF Spot
  <2>3. 0 \in 0 .. n /\ o + 7 + 6 * 0 = o + 7 /\ n - 0 = n
    BY <1>1, <1>2
  <2>4. /\ Len(i.reports) = Len(i.reports) + 0
        /\ \A j \in 1 .. Len(i.reports) : i.reports[j] = i.reports[j]
        /\ \A j \in 1 .. 0 : i.reports[Len(i.reports) + j] = b.reports[j]
    BY <1>8 DEF IsSeq
  <2>5. /\ Spot(parser', o + 7 + 6 * 0, o + Len(c), "ReportBlockItem", n - 0, parser'.type)
        /\ NotedAs(info', x.flags, x.ssrc, x.sr, i.reports, x.nackList, x.app, x.bitrate)
    <3>1. /\ x.flags = fl /\ x.ssrc = b.ssrc /\ x.sr = b.sr /\ x.nackList = i.nackList
          /\ x.app = i.app /\ x.bitrate = i.bitrate
      BY <1>3 DEF Fields
    <3> QED
      BY <1>7, <2>1, <2>2, <2>3, <3>1
  <2>6. InReports(b, o, i, parser', info')
    <3>1. \E r \in 0 .. n : \E re :
            /\ Spot(parser', o + 7 + 6 * r, o + Len(c), "ReportBlockItem", n - r, parser'.type)
            /\ IsSeq(re) /\ Len(re) = Len(i.reports) + r
            /\ \A j \in 1 .. Len(i.reports) : re[j] = i.reports[j]
            /\ \A j \in 1 .. r : re[Len(i.reports) + j] = b.reports[j]
            /\ NotedAs(info', x.flags, x.ssrc, x.sr, re, x.nackList, x.app, x.bitrate)
      BY <1>8, <2>3, <2>4, <2>5
    <3> QED
      BY <3>1 DEF InReports, c, n, x
  <2> QED
    BY <1>1, <2>2, <2>6 DEF In, x
<1>10. CASE n = 0 /\ Enter(Size, "TopLevel", "Sr")
  <2>1. Spot(parser', o + Len(c), o + Len(c), "TopLevel", n, "Sr")
    BY <1>1, <1>2, <1>10, EnterIs, Zenon
  <2>2. all = i.reports
    <3>1. Joined(all, i.reports, b.reports)
      BY <1>8, ConcatIs DEF all
    <3>2. Len(i.reports) \in Nat /\ Len(b.reports) = 0
      BY <1>8, <1>10 DEF IsSeq, n
    <3>3. IsSeq(all) /\ Len(all) = Len(i.reports)
          /\ \A j \in 1 .. Len(i.reports) : all[j] = i.reports[j]
      BY <3>1, <3>2 DEF Joined
    <3> QED
      BY <1>8, <3>3, SameSeq
  <2>3. Same(info', x)
    BY <1>1, <1>3, <1>7, <2>2, SameBy
  <2> QED
    BY <2>1, <2>3 DEF Behind, Spot, c, x
<1> QED
  BY <1>5, <1>9, <1>10

\* A receiver report is entered.
LEMMA ReceiverReportStep ==
  ASSUME NEW b, NEW o, NEW i, Before(b, o, i), b.class = "ReceiverReport", ParserNext
  PROVE  In(b, o, i, parser', info') \/ Behind(b, o, i, parser', info')
<1> DEFINE c == Create(b)
           n == Len(b.reports)
           x == Meaning(i, b)
           fl == i.flags \cup {"Rr"}
           all == i.reports \o b.reports
<1>1. /\ Proper(b) /\ Same(info, i) /\ Good(i) /\ Good(x) /\ n \in Nat
      /\ Len(c) = 2 + 6 * n /\ c[1].pt = "RR" /\ c[1].ic = n /\ c[2].v = b.ssrc
  BY ReceiverReportIs, MeaningGood, SameFields DEF Before
<1>2. /\ AtBlock /\ Header = c[1] /\ Size = Len(c) /\ o \in Nat /\ parser.pos = o
      /\ \A j \in 1 .. Len(c) : Field(j) = c[j].v
  BY AtHead
<1>3. Fields(x, fl, b.ssrc, i.sr, all, i.nackList, i.app, i.bitrate)
  BY <1>1, MeaningIs
<1> HIDE DEF c, n, x, all
<1>4. ReceiverReport /\ Size >= 2 /\ Header.ic = n
  <2>1. Header.pt = "RR" /\ Size >= 2 /\ Header.ic = n
    BY <1>1, <1>2
  <2> QED
    BY <1>2, <2>1, BlockIs DEF Known
<1>5. /\ Enter(2, "ReportBlockItem", "Rr")
      /\ info' = [info EXCEPT !.flags = info.flags \cup {"Rr"}, !.ssrc = b.ssrc]
  <2>1. Field(2) = b.ssrc
    <3>1. 2 \in 1 .. Len(c)
      BY <1>1
    <3> QED
      BY <1>1, <1>2, <3>1
  <2>2. ~(Size < 2)
    BY <1>1, <1>2
  <2>3. /\ Enter(2, "ReportBlockItem", "Rr")
        /\ info' = [info EXCEPT !.flags = info.flags \cup {"Rr"}, !.ssrc = Field(2)]
    BY <1>4, <2>2, Zenon DEF ReceiverReport
  <2> QED
    BY <2>1, <2>3, Zenon
<1>6. Fields(info', fl, b.ssrc, i.sr, i.reports, i.nackList, i.app, info.bitrate)
  <2>1. Fields([info EXCEPT !.flags = info.flags \cup {"Rr"}, !.ssrc = b.ssrc],
               info.flags \cup {"Rr"}, b.ssrc, info.sr, info.reports, info.nackList, info.app,
               info.bitrate)
    BY <1>1, SameFields, UpdateFlagsSsrc, Zenon
  <2>2. /\ info.flags = i.flags /\ info.sr = i.sr /\ info.reports = i.reports
        /\ info.nackList = i.nackList /\ info.app = i.app
    BY <1>1, SameFields
  <2> QED
    BY <1>5, <2>1, <2>2, Zenon
<1>7. NotedAs(info', fl, b.ssrc, i.sr, i.reports, i.nackList, i.app, i.bitrate)
  BY <1>1, <1>6, SameFields, NotedBy, Zenon
<1> HIDE DEF fl
<1>8. IsSeq(i.reports) /\ IsSeq(b.reports)
  BY <1>1 DEF Good, Proper, Reports
<1>9. Spot(parser', o + 2, o + Len(c), "ReportBlockItem", n, "Rr")
  BY <1>1, <1>2, <1>4, <1>5, EnterIs, Zenon
<1>10. parser'.type = "Rr"
  BY <1>9 DEF Spot
<1>11. 0 \in 0 .. n /\ o + 2 + 6 * 0 = o + 2 /\ n - 0 = n
  BY <1>1, <1>2
<1>12. /\ Len(i.reports) = Len(i.reports) + 0
       /\ \A j \in 1 .. Len(i.reports) : i.reports[j] = i.reports[j]
       /\ \A j \in 1 .. 0 : i.reports[Len(i.reports) + j] = b.reports[j]
  BY <1>8 DEF IsSeq
<1>13. /\ Spot(parser', o + 2 + 6 * 0, o + Len(c), "ReportBlockItem", n - 0, parser'.type)
       /\ NotedAs(info', x.flags, x.ssrc, x.sr, i.reports, x.nackList, x.app, x.bitrate)
  <2>1. /\ x.flags = fl /\ x.ssrc = b.ssrc /\ x.sr = i.sr /\ x.nackList = i.nackList
        /\ x.app = i.app /\ x.bitrate = i.bitrate
    BY <1>3 DEF Fields
  <2> QED
    BY <1>7, <1>9, <1>10, <1>11, <2>1
<1>14. InReports(b, o, i, parser', info')
  <2>1. \E r \in 0 .. n : \E re :
          /\ Spot(parser', o + 2 + 6 * r, o + Len(c), "ReportBlockItem", n - r, parser'.type)
          /\ IsSeq(re) /\ Len(re) = Len(i.reports) + r
          /\ \A j \in 1 .. Len(i.reports) : re[j] = i.reports[j]
          /\ \A j \in 1 .. r : re[Len(i.reports) + j] = b.reports[j]
          /\ NotedAs(info', x.flags, x.ssrc, x.sr, re, x.nackList, x.app, x.bitrate)
    BY <1>8, <1>11, <1>12, <1>13
  <2> QED
    BY <2>1 DEF InReports, c, n, x
<1> QED
  BY <1>1, <1>10, <1>14 DEF In, x

\* A source description is entered.
LEMMA SdesStep ==
  ASSUME NEW b, NEW o, NEW i, Before(b, o, i), b.class = "Sdes", ParserNext
  PROVE  In(b, o, i, parser', info')
<1> DEFINE c == Create(b)
           x == Meaning(i, b)
           fl == i.flags \cup {"Sdes"}
<1>1. /\ Proper(b) /\ Same(info, i) /\ Good(i) /\ Good(x)
      /\ Len(c) \in Nat /\ Len(c) >= 2 /\ c[1].pt = "SDES"
  BY SdesIs, MeaningGood, SameFields DEF Before
<1>2. /\ AtBlock /\ Header = c[1] /\ Size = Len(c) /\ o \in Nat /\ parser.pos = o
  BY AtHead
<1>3. Fields(x, fl, i.ssrc, i.sr, i.reports, i.nackList, i.app, i.bitrate)
  BY <1>1, MeaningIs
<1> HIDE DEF c, x
<1>4. Sdes /\ ~(Size < 2)
  <2>1. Header.pt = "SDES" /\ ~(Size < 2)
    BY <1>1, <1>2
  <2> QED
    BY <1>2, <2>1, BlockIs DEF Known
<1>5. /\ Enter(1, "SDESChunk", "Sdes")
      /\ info' = [info EXCEPT !.flags = info.flags \cup {"Sdes"}]
  BY <1>4, Zenon DEF Sdes
<1>6. Fields(info', fl, i.ssrc, i.sr, i.reports, i.nackList, i.app, info.bitrate)
  <2>1. Fields([info EXCEPT !.flags = info.flags \cup {"Sdes"}],
               info.flags \cup {"Sdes"}, info.ssrc, info.sr, info.reports, info.nackList,
               info.app, info.bitrate)
    BY <1>1, SameFields, UpdateOne, Zenon
  <2>2. /\ info.flags = i.flags /\ info.ssrc = i.ssrc /\ info.sr = i.sr
        /\ info.reports = i.reports /\ info.nackList = i.nackList /\ info.app = i.app
    BY <1>1, SameFields
  <2> QED
    BY <1>5, <2>1, <2>2, Zenon
<1>7. NotedAs(info', fl, i.ssrc, i.sr, i.reports, i.nackList, i.app, i.bitrate)
  BY <1>1, <1>6, SameFields, NotedBy, Zenon
<1>8. Same(info', x)
  BY <1>1, <1>3, <1>7, SameBy, Zenon
<1>9. Spot(parser', o + 1, o + Len(c), "SDESChunk", Header.ic, "Sdes")
  BY <1>2, <1>5, EnterIs, Zenon
<1>10. InRest(b, o, i, parser', info')
  BY <1>8, <1>9 DEF InRest, Spot, c, x
<1> QED
  BY <1>1, <1>9, <1>10 DEF In, Spot, x

\* A goodbye is entered.
LEMMA ByeStep ==
  ASSUME NEW b, NEW o, NEW i, Before(b, o, i), b.class = "Bye", ParserNext
  PROVE  In(b, o, i, parser', info')
<1> DEFINE c == Create(b)
           x == Meaning(i, b)
           fl == i.flags \cup {"Bye"}
<1>1. /\ Proper(b) /\ Same(info, i) /\ Good(i) /\ Good(x)
      /\ Len(c) \in Nat /\ Len(c) >= 2 /\ c[1].pt = "BYE" /\ c[1].ic = Len(c) - 1
      /\ c[2].v = b.ssrc
  BY ByeIs, MeaningGood, SameFields DEF Before
<1>2. /\ AtBlock /\ Header = c[1] /\ Size = Len(c) /\ o \in Nat /\ parser.pos = o
      /\ \A j \in 1 .. Len(c) : Field(j) = c[j].v
  BY AtHead
<1>3. Fields(x, fl, b.ssrc, i.sr, i.reports, i.nackList, i.app, i.bitrate)
  BY <1>1, MeaningIs
<1> HIDE DEF c, x
<1>4. Bye /\ ~(Size < 2 \/ Header.ic = 0)
  <2>1. Header.pt = "BYE" /\ ~(Size < 2 \/ Header.ic = 0)
    BY <1>1, <1>2
  <2> QED
    BY <1>2, <2>1, BlockIs DEF Known
<1> DEFINE pos == parser.pos + 2 + (IF Size > Header.ic THEN Header.ic - 1 ELSE 0)
<1>5. /\ parser' = [pos |-> pos, end |-> o + Len(c), state |-> "BYEItem",
                    left |-> 0, type |-> "Bye"]
      /\ info' = [info EXCEPT !.flags = info.flags \cup {"Bye"}, !.ssrc = b.ssrc]
  <2>1. Field(2) = b.ssrc
    <3>1. 2 \in 1 .. Len(c)
      BY <1>1
    <3> QED
      BY <1>1, <1>2, <3>1
  <2>2. /\ parser' = [pos |-> pos, end |-> parser.pos + Size, state |-> "BYEItem",
                      left |-> 0, type |-> "Bye"]
        /\ info' = [info EXCEPT !.flags = info.flags \cup {"Bye"}, !.ssrc = Field(2)]
    BY <1>4, Zenon DEF Bye
  <2> HIDE DEF pos
  <2> QED
    BY <1>2, <2>1, <2>2, Zenon
<1> HIDE DEF pos
<1>6. Fields(info', fl, b.ssrc, i.sr, i.reports, i.nackList, i.app, info.bitrate)
  <2>1. Fields([info EXCEPT !.flags = info.flags \cup {"Bye"}, !.ssrc = b.ssrc],
               info.flags \cup {"Bye"}, b.ssrc, info.sr, info.reports, info.nackList, info.app,
               info.bitrate)
    BY <1>1, SameFields, UpdateFlagsSsrc, Zenon
  <2>2. /\ info.flags = i.flags /\ info.sr = i.sr /\ info.reports = i.reports
        /\ info.nackList = i.nackList /\ info.app = i.app
    BY <1>1, SameFields
  <2> QED
    BY <1>5, <2>1, <2>2, Zenon
<1>7. NotedAs(info', fl, b.ssrc, i.sr, i.reports, i.nackList, i.app, i.bitrate)
  BY <1>1, <1>6, SameFields, NotedBy, Zenon
<1>8. Same(info', x)
  BY <1>1, <1>3, <1>7, SameBy, Zenon
<1>9. Spot(parser', pos, o + Len(c), "BYEItem", 0, "Bye")
  <2>1. Spot([pos |-> pos, end |-> o + Len(c), state |-> "BYEItem", left |-> 0, type |-> "Bye"],
             pos, o + Len(c), "BYEItem", 0, "Bye")
    BY SpotIs, Zenon
  <2> QED
    BY <1>5, <2>1, Zenon
<1>10. InRest(b, o, i, parser', info')
  BY <1>8, <1>9 DEF InRest, Spot, c, x
<1> QED
  BY <1>1, <1>9, <1>10 DEF In, Spot, x

\* An application block is entered.
LEMMA AppStep ==
  ASSUME NEW b, NEW o, NEW i, Before(b, o, i), b.class = "App", ParserNext
  PROVE  In(b, o, i, parser', info')
<1> DEFINE c == Create(b)
           n == Len(b.data)
           x == Meaning(i, b)
           fl == i.flags \cup {"App"}
           all == i.app \o b.data
<1>1. /\ Proper(b) /\ Same(info, i) /\ Good(i) /\ Good(x) /\ n \in Nat
      /\ Len(c) = 3 + n /\ c[1].pt = "APP"
  BY AppIs, MeaningGood, SameFields DEF Before
<1>2. AtBlock /\ Header = c[1] /\ Size = Len(c) /\ o \in Nat /\ parser.pos = o
  BY AtHead
<1>3. Fields(x, fl, i.ssrc, i.sr, i.reports, i.nackList, all, i.bitrate)
  BY <1>1, MeaningIs
<1> HIDE DEF c, n, x, all
<1>4. App /\ ~(Size < 3)
  <2>1. Header.pt = "APP" /\ ~(Size < 3)
    BY <1>1, <1>2
  <2> QED
    BY <1>2, <2>1, BlockIs DEF Known
<1>5. Enter(3, "AppItem", "App") /\ info' = [info EXCEPT !.flags = info.flags \cup {"App"}]
  BY <1>4, Zenon DEF App
<1>6. Fields(info', fl, i.ssrc, i.sr, i.reports, i.nackList, i.app, info.bitrate)
  <2>1. Fields([info EXCEPT !.flags = info.flags \cup {"App"}],
               info.flags \cup {"App"}, info.ssrc, info.sr, info.reports, info.nackList,
               info.app, info.bitrate)
    BY <1>1, SameFields, UpdateOne, Zenon
  <2>2. /\ info.flags = i.flags /\ info.ssrc = i.ssrc /\ info.sr = i.sr
        /\ info.reports = i.reports /\ info.nackList = i.nackList /\ info.app = i.app
    BY <1>1, SameFields
  <2> QED
    BY <1>5, <2>1, <2>2, Zenon
<1>7. NotedAs(info', fl, i.ssrc, i.sr, i.reports, i.nackList, i.app, i.bitrate)
  BY <1>1, <1>6, SameFields, NotedBy, Zenon
<1> HIDE DEF fl
<1>8. IsSeq(i.app)
  BY <1>1 DEF Good
<1>9. Spot(parser', o + 3, o + Len(c), "AppItem", Header.ic, "App")
  BY <1>2, <1>5, EnterIs, Zenon
<1>10. parser'.type = "App" /\ parser'.left = Header.ic
  BY <1>9 DEF Spot
<1>11. 0 \in 0 .. n /\ o + 3 + 0 = o + 3
  BY <1>1, <1>2
<1>12. /\ Len(i.app) = Len(i.app) + 0
       /\ \A j \in 1 .. Len(i.app) : i.app[j] = i.app[j]
       /\ \A j \in 1 .. 0 : i.app[Len(i.app) + j] = b.data[j]
  BY <1>8 DEF IsSeq
<1>13. /\ Spot(parser', o + 3 + 0, o + Len(c), "AppItem", parser'.left, parser'.type)
       /\ NotedAs(info', x.flags, x.ssrc, x.sr, x.reports, x.nackList, i.app, x.bitrate)
  <2>1. /\ x.flags = fl /\ x.ssrc = i.ssrc /\ x.sr = i.sr /\ x.nackList = i.nackList
        /\ x.reports = i.reports /\ x.bitrate = i.bitrate
    BY <1>3 DEF Fields
  <2> QED
    BY <1>7, <1>9, <1>10, <1>11, <2>1
<1>14. InApp(b, o, i, parser', info')
  <2>1. \E a \in 0 .. n : \E ap :
          /\ Spot(parser', o + 3 + a, o + Len(c), "AppItem", parser'.left, parser'.type)
          /\ IsSeq(ap) /\ Len(ap) = Len(i.app) + a
          /\ \A j \in 1 .. Len(i.app) : ap[j] = i.app[j]
          /\ \A j \in 1 .. a : ap[Len(i.app) + j] = b.data[j]
          /\ NotedAs(info', x.flags, x.ssrc, x.sr, x.reports, x.nackList, ap, x.bitrate)
    BY <1>8, <1>11, <1>12, <1>13
  <2> QED
    BY <2>1 DEF InApp, c, n, x
<1> QED
  BY <1>1, <1>10, <1>14 DEF In, x

\* A request is entered, and the list is emptied.
LEMMA NackStep ==
  ASSUME NEW b, NEW o, NEW i, Before(b, o, i), b.class = "Nack", ParserNext
  PROVE  In(b, o, i, parser', info')
<1> DEFINE c == Create(b)
           items == NackItems(b.list)
           n == Len(items)
           x == Meaning(i, b)
<1>1. /\ Proper(b) /\ Same(info, i) /\ Good(i) /\ Good(x) /\ n \in Nat
      /\ Len(c) = 3 + n /\ c[1].pt = "RTPFB" /\ c[1].ic = 1 /\ c[2].v = b.ssrc
  BY NackIs, MeaningGood, SameFields DEF Before
<1>2. /\ AtBlock /\ Header = c[1] /\ Size = Len(c) /\ o \in Nat /\ parser.pos = o
      /\ \A j \in 1 .. Len(c) : Field(j) = c[j].v
  BY AtHead
<1>3. Fields(x, i.flags \cup {"Nack"}, b.ssrc, i.sr, i.reports, b.list, i.app, i.bitrate)
  BY <1>1, MeaningIs
<1>4. PICK cut : /\ cut \in [0 .. n -> 0 .. Len(b.list)]
                 /\ cut[0] = 0 /\ cut[n] = Len(b.list)
                 /\ \A k \in 1 .. n : Carries(items[k], b.list, cut[k - 1], cut[k])
  <2>1. Ascending(b.list)
    BY <1>1 DEF Proper
  <2> QED
    BY <2>1, ListIs
<1> HIDE DEF c, n, x, items
<1>5. TransportFeedback /\ ~(Size < 3 \/ Header.ic # 1)
  <2>1. Header.pt = "RTPFB" /\ ~(Size < 3 \/ Header.ic # 1)
    BY <1>1, <1>2
  <2> QED
    BY <1>2, <2>1, BlockIs DEF Known
<1>6. /\ Enter(3, "NACKItem", "Nack")
      /\ info' = [info EXCEPT !.ssrc = b.ssrc, !.nackList = <<>>]
  <2>1. Field(2) = b.ssrc
    <3>1. 2 \in 1 .. Len(c)
      BY <1>1
    <3> QED
      BY <1>1, <1>2, <3>1
  <2>2. /\ Enter(3, "NACKItem", "Nack")
        /\ info' = [info EXCEPT !.ssrc = Field(2), !.nackList = <<>>]
    BY <1>5, Zenon DEF TransportFeedback
  <2> QED
    BY <2>1, <2>2, Zenon
<1>7. Fields(info', i.flags, b.ssrc, i.sr, i.reports, <<>>, i.app, info.bitrate)
  <2>1. Fields([info EXCEPT !.ssrc = b.ssrc, !.nackList = <<>>],
               info.flags, b.ssrc, info.sr, info.reports, <<>>, info.app, info.bitrate)
    BY <1>1, SameFields, UpdateSsrcList, Zenon
  <2>2. /\ info.flags = i.flags /\ info.sr = i.sr /\ info.reports = i.reports
        /\ info.app = i.app
    BY <1>1, SameFields
  <2> QED
    BY <1>6, <2>1, <2>2, Zenon
<1>8. NotedAs(info', i.flags, b.ssrc, i.sr, i.reports, <<>>, i.app, i.bitrate)
  BY <1>1, <1>7, SameFields, NotedBy, Zenon
<1>9. Spot(parser', o + 3, o + Len(c), "NACKItem", Header.ic, "Nack")
  BY <1>2, <1>6, EnterIs, Zenon
<1>10. parser'.type = "Nack" /\ parser'.left = Header.ic
  BY <1>9 DEF Spot
<1>11. 0 \in 0 .. n /\ o + 3 + 0 = o + 3
  BY <1>1, <1>2
<1>12. IsSeq(<<>>) /\ Len(<<>>) = cut[0] /\ \A j \in 1 .. cut[0] : <<>>[j] = b.list[j]
  BY <1>4, TupleIs
<1>13. /\ Spot(parser', o + 3 + 0, o + Len(c), "NACKItem", parser'.left, parser'.type)
       /\ NotedAs(info', IF 0 = 0 THEN i.flags ELSE x.flags, x.ssrc, x.sr, x.reports, <<>>,
                x.app, x.bitrate)
  <2>1. /\ x.ssrc = b.ssrc /\ x.sr = i.sr /\ x.reports = i.reports
        /\ x.app = i.app /\ x.bitrate = i.bitrate
    BY <1>3 DEF Fields
  <2> QED
    BY <1>8, <1>9, <1>10, <1>11, <2>1
<1>14. InItems(b, o, i, parser', info')
  <2>1. \E q \in 0 .. n : \E d, na :
          /\ Spot(parser', o + 3 + q, o + Len(c), "NACKItem", parser'.left, parser'.type)
          /\ d \in [0 .. n -> 0 .. Len(b.list)] /\ d[0] = 0 /\ d[n] = Len(b.list)
          /\ \A k \in 1 .. n : Carries(items[k], b.list, d[k - 1], d[k])
          /\ IsSeq(na) /\ Len(na) = d[q] /\ \A j \in 1 .. d[q] : na[j] = b.list[j]
          /\ NotedAs(info', IF q = 0 THEN i.flags ELSE x.flags, x.ssrc, x.sr, x.reports, na,
                   x.app, x.bitrate)
    BY <1>4, <1>11, <1>12, <1>13
  <2> QED
    BY <2>1 DEF InItems, c, n, x, items
<1> QED
  BY <1>1, <1>10, <1>14 DEF In, x

\* A bitrate is entered, whose identifier is still to be looked at.
LEMMA RembStep ==
  ASSUME NEW b, NEW o, NEW i, Before(b, o, i), b.class = "Remb", ParserNext
  PROVE  In(b, o, i, parser', info')
<1> DEFINE c == Create(b)
           n == Len(b.ssrcs)
           x == Meaning(i, b)
<1>1. /\ Proper(b) /\ Same(info, i) /\ Good(i) /\ Good(x) /\ n \in Nat
      /\ Len(c) = 5 + n /\ c[1].pt = "PSFB" /\ c[1].ic = 15
  BY RembIs, MeaningGood, SameFields DEF Before
<1>2. AtBlock /\ Header = c[1] /\ Size = Len(c) /\ o \in Nat /\ parser.pos = o
  BY AtHead
<1> HIDE DEF c, n, x
<1>3. PayloadFeedback /\ ~(Size < 3 \/ Header.ic # 15)
  <2>1. Header.pt = "PSFB" /\ ~(Size < 3 \/ Header.ic # 15)
    BY <1>1, <1>2
  <2> QED
    BY <1>2, <2>1, BlockIs DEF Known
<1>4. Enter(3, "PsfbAppItem", "PsfbApp") /\ info' = info
  BY <1>3, Zenon DEF PayloadFeedback
<1>5. Spot(parser', o + 3, o + Len(c), "PsfbAppItem", Header.ic, "PsfbApp")
  BY <1>2, <1>4, EnterIs, Zenon
<1>6. parser'.type = "PsfbApp" /\ parser'.left = Header.ic
  BY <1>5 DEF Spot
<1>7. InFeedback(b, o, i, parser', info')
  BY <1>1, <1>4, <1>5, <1>6 DEF InFeedback, c
<1> QED
  BY <1>1, <1>6, <1>7 DEF In, x

\* A block that is passed at once.
LEMMA SkipIs ==
  ASSUME NEW b, NEW o, NEW i, Before(b, o, i), b.class = "Foreign", Skip
  PROVE  Behind(b, o, i, parser', info')
<1> DEFINE c == Create(b)
           x == Meaning(i, b)
<1>1. Same(info, i) /\ Good(i) /\ IsParser(parser) /\ parser.state = "TopLevel"
      /\ parser.type # "Invalid"
  BY SameFields DEF Before
<1>2. Size = Len(c) /\ parser.pos = o
  BY AtHead
<1>3. x = i
  BY <1>1, MeaningIs
<1> HIDE DEF c, x
<1>4. /\ parser' = [parser EXCEPT !.pos = parser.pos + Size, !.end = parser.pos + Size]
      /\ info' = info
  BY Zenon DEF Skip
<1>5. Spot([parser EXCEPT !.pos = parser.pos + Size, !.end = parser.pos + Size],
           parser.pos + Size, parser.pos + Size, parser.state, parser.left, parser.type)
  BY <1>1, SpotPosEnd, Zenon
<1>6. Spot(parser', o + Len(c), o + Len(c), "TopLevel", parser.left, parser.type)
  BY <1>1, <1>2, <1>4, <1>5, Zenon
<1> QED
  BY <1>1, <1>3, <1>4, <1>6 DEF Behind, Spot, c, x

\* A block this code has no class for is passed, or its identifier looked at.
LEMMA ForeignStep ==
  ASSUME NEW b, NEW o, NEW i, Before(b, o, i), b.class = "Foreign", ParserNext
  PROVE  In(b, o, i, parser', info') \/ Behind(b, o, i, parser', info')
<1> DEFINE c == Create(b)
           n == Len(b.body)
           x == Meaning(i, b)
<1>1. /\ Proper(b) /\ Same(info, i) /\ Good(i) /\ Good(x) /\ n \in Nat
      /\ Len(c) = 1 + n /\ c[1].pt = b.pt /\ c[1].ic = b.fmt /\ NotOurs(b)
      /\ IsSeq(b.body)
  BY ForeignIs, MeaningGood, SameFields DEF Before, Plain, Proper
<1>2. AtBlock /\ Header = c[1] /\ Size = Len(c) /\ o \in Nat /\ parser.pos = o
  BY AtHead
<1> HIDE DEF c, x
<1>3. Header.pt = b.pt /\ Header.ic = b.fmt /\ Size = 1 + n
  BY <1>1, <1>2
<1>4. CASE b.pt \notin Known
  <2>1. Foreign
    BY <1>2, <1>3, <1>4, BlockIs DEF Known
  <2> QED
    BY <2>1, SkipIs DEF Foreign
<1>5. CASE b.pt = "SDES" /\ b.body = <<>>
  <2>1. n = 0
    BY <1>5, TupleIs
  <2>2. Sdes /\ ~(Size >= 2)
    BY <1>2, <1>3, <1>5, <2>1, BlockIs DEF Known
  <2> QED
    BY <2>2, SkipIs DEF Sdes
<1>6. CASE b.pt = "BYE" /\ b.fmt = 0
  <2>1. Bye /\ Header.ic = 0
    BY <1>2, <1>3, <1>6, BlockIs DEF Known
  <2>2. Skip
    BY <2>1, Zenon DEF Bye
  <2> QED
    BY <2>2, SkipIs
<1>7. CASE b.pt = "RTPFB" /\ b.fmt # 1
  <2>1. TransportFeedback /\ ~(Header.ic = 1)
    BY <1>2, <1>3, <1>7, BlockIs DEF Known
  <2>2. Skip
    BY <2>1, Zenon DEF TransportFeedback
  <2> QED
    BY <2>2, SkipIs
<1>8. CASE b.pt = "PSFB"
  <2>1. PayloadFeedback
    BY <1>2, <1>3, <1>8, BlockIs DEF Known
  <2>2. Skip \/ (Header.ic = 15 /\ Enter(3, "PsfbAppItem", "PsfbApp") /\ info' = info)
    BY <2>1, Zenon DEF PayloadFeedback
  <2>3. CASE Skip
    BY <2>3, SkipIs
  <2>4. CASE Header.ic = 15 /\ Enter(3, "PsfbAppItem", "PsfbApp") /\ info' = info
    <3>1. Spot(parser', o + 3, o + Len(c), "PsfbAppItem", Header.ic, "PsfbApp")
      BY <1>2, <2>4, EnterIs, Zenon
    <3>2. parser'.type = "PsfbApp" /\ parser'.left = Header.ic
      BY <3>1 DEF Spot
    <3>3. InFeedback(b, o, i, parser', info')
      BY <1>1, <1>3, <1>8, <2>4, <3>1, <3>2 DEF InFeedback, c
    <3> QED
      BY <1>1, <3>2, <3>3 DEF In, x
  <2> QED
    BY <2>2, <2>3, <2>4
<1> QED
  BY <1>1, <1>4, <1>5, <1>6, <1>7, <1>8 DEF NotOurs

\* Whatever the block is, it is entered or passed.
LEMMA BlockStep ==
  ASSUME NEW b, NEW o, NEW i, Before(b, o, i), ParserNext
  PROVE  In(b, o, i, parser', info') \/ Behind(b, o, i, parser', info')
<1>1. \/ b.class = "SenderReport" \/ b.class = "ReceiverReport" \/ b.class = "Sdes"
      \/ b.class = "Bye" \/ b.class = "App" \/ b.class = "Nack" \/ b.class = "Remb"
      \/ b.class = "Foreign"
  BY DEF Before, Proper
<1> QED
  BY <1>1, SenderReportStep, ReceiverReportStep, SdesStep, ByeStep, AppStep, NackStep,
     RembStep, ForeignStep

\* The state decides which item is read.
LEMMA ItemIs ==
  ASSUME parser.state # "TopLevel", ParserNext
  PROVE  /\ words' = words
         /\ \/ ReportBlockItem \/ SDESChunk \/ BYEItem \/ NACKItem \/ AppItem
            \/ PsfbAppItem \/ REMBItem
         /\ ReportBlockItem => parser.state = "ReportBlockItem"
         /\ SDESChunk => parser.state = "SDESChunk"
         /\ BYEItem => parser.state = "BYEItem"
         /\ NACKItem => parser.state = "NACKItem"
         /\ AppItem => parser.state = "AppItem"
         /\ PsfbAppItem => parser.state = "PsfbAppItem"
         /\ REMBItem => parser.state = "REMBItem"
<1>1. ~Stop
  BY DEF Stop
<1>2. ~Block
  <2>1. ~AtBlock
    BY DEF AtBlock
  <2> QED
    BY <2>1 DEF Block, SenderReport, ReceiverReport, Sdes, Bye, TransportFeedback,
       PayloadFeedback, App, Foreign
<1>3. Item /\ words' = words
  BY <1>1, <1>2 DEF ParserNext
<1>4. ReportBlockItem => parser.state = "ReportBlockItem"
  BY DEF ReportBlockItem
<1>5. SDESChunk => parser.state = "SDESChunk"
  BY DEF SDESChunk
<1>6. BYEItem => parser.state = "BYEItem"
  BY DEF BYEItem
<1>7. NACKItem => parser.state = "NACKItem"
  BY DEF NACKItem
<1>8. AppItem => parser.state = "AppItem"
  BY DEF AppItem
<1>9. PsfbAppItem => parser.state = "PsfbAppItem"
  BY DEF PsfbAppItem
<1>10. REMBItem => parser.state = "REMBItem"
  BY DEF REMBItem
<1> QED
  BY <1>3, <1>4, <1>5, <1>6, <1>7, <1>8, <1>9, <1>10 DEF Item

\* The end of a block whose items are all noted.
LEMMA LeaveIs ==
  ASSUME NEW b, NEW o, NEW i, IsParser(parser), parser.end = o + Len(Create(b)),
         parser.type # "Invalid", Same(info, Meaning(i, b)), Leave
  PROVE  Behind(b, o, i, parser', info')
<1> DEFINE l == Len(Create(b))
           x == Meaning(i, b)
<1> HIDE DEF l, x
<1>1. parser' = [parser EXCEPT !.pos = parser.end, !.state = "TopLevel"] /\ info' = info
  BY Zenon DEF Leave
<1>2. Spot([parser EXCEPT !.pos = parser.end, !.state = "TopLevel"], parser.end, parser.end,
           "TopLevel", parser.left, parser.type)
  BY SpotPosState, Zenon
<1>3. Spot(parser', o + l, o + l, "TopLevel", parser.left, parser.type)
  BY <1>1, <1>2, Zenon DEF l
<1>4. Same(info', x)
  BY <1>1 DEF x
<1> QED
  BY <1>3, <1>4 DEF Behind, Spot, l, x

\* Descriptions and goodbyes: the items change nothing that counts.
LEMMA RestStep ==
  ASSUME NEW b, NEW o, NEW i, In(b, o, i, parser, info), InRest(b, o, i, parser, info),
         ParserNext
  PROVE  In(b, o, i, parser', info') \/ Behind(b, o, i, parser', info')
<1> DEFINE l == Len(Create(b))
           x == Meaning(i, b)
<1>1. /\ IsParser(parser) /\ parser.end = o + l /\ Same(info, x)
      /\ parser.state \in {"SDESChunk", "BYEItem"} /\ parser.type # "Invalid"
      /\ Good(i) /\ Good(x)
  BY DEF In, InRest
<1> HIDE DEF l, x
<1>2. SDESChunk \/ BYEItem
  BY <1>1, ItemIs
<1>3. CASE Leave
  BY <1>1, <1>3, LeaveIs DEF l, x
<1>4. CASE SDESChunk /\ ~Leave
  <2>1. PICK j : /\ info' = info
                 /\ \/ parser' = [parser EXCEPT !.pos = j, !.left = parser.left - 1,
                                                !.type = "SdesChunk"]
                    \/ parser' = [parser EXCEPT !.pos = j]
    BY <1>4, Zenon DEF SDESChunk
  <2>2. CASE parser' = [parser EXCEPT !.pos = j, !.left = parser.left - 1,
                                      !.type = "SdesChunk"]
    <3>1. Spot([parser EXCEPT !.pos = j, !.left = parser.left - 1, !.type = "SdesChunk"],
               j, parser.end, parser.state, parser.left - 1, "SdesChunk")
      BY <1>1, SpotPosLeftType, Zenon
    <3>2. Spot(parser', j, parser.end, parser.state, parser.left - 1, "SdesChunk")
      BY <2>2, <3>1, Zenon
    <3>3. /\ IsParser(parser') /\ parser'.end = o + l /\ parser'.type # "Invalid"
          /\ parser'.state \in {"SDESChunk", "BYEItem"}
      BY <1>1, <3>2 DEF Spot
    <3> QED
      BY <1>1, <2>1, <3>3 DEF In, InRest, l, x
  <2>3. CASE parser' = [parser EXCEPT !.pos = j]
    <3>1. Spot([parser EXCEPT !.pos = j], j, parser.end, parser.state, parser.left,
               parser.type)
      BY <1>1, SpotOne, Zenon
    <3>2. Spot(parser', j, parser.end, parser.state, parser.left, parser.type)
      BY <2>3, <3>1, Zenon
    <3>3. /\ IsParser(parser') /\ parser'.end = o + l /\ parser'.type # "Invalid"
          /\ parser'.state \in {"SDESChunk", "BYEItem"}
      BY <1>1, <3>2 DEF Spot
    <3> QED
      BY <1>1, <2>1, <3>3 DEF In, InRest, l, x
  <2> QED
    BY <2>1, <2>2, <2>3
<1> QED
  BY <1>2, <1>3, <1>4 DEF BYEItem

\* The next report is read as it was written.
LEMMA ReportsStep ==
  ASSUME NEW b, NEW o, NEW i, Proper(b), At(b, o), In(b, o, i, parser, info),
         InReports(b, o, i, parser, info), ParserNext
  PROVE  In(b, o, i, parser', info') \/ Behind(b, o, i, parser', info')
<1> DEFINE c == Create(b)
           l == Len(c)
           n == Len(b.reports)
           m == Len(i.reports)
           x == Meaning(i, b)
           s == IF b.class = "SenderReport" THEN 7 ELSE 2
           all == i.reports \o b.reports
<1>1. /\ n \in Nat /\ l = s + 6 * n /\ s \in Nat /\ m \in Nat /\ Good(i) /\ Good(x)
      /\ IsSeq(i.reports) /\ IsSeq(b.reports) /\ parser.type # "Invalid"
      /\ \A r \in 1 .. n : IsSeq(b.reports[r]) /\ Len(b.reports[r]) = 6
      /\ \A r \in 1 .. n : \A j \in 1 .. 6 : c[s + 6 * (r - 1) + j].v = b.reports[r][j]
      /\ x.reports = all
  <2>1. b.class \in {"SenderReport", "ReceiverReport"} /\ Good(i) /\ Good(x)
        /\ parser.type # "Invalid"
    BY DEF InReports, In
  <2>2. Reports(b)
    BY <2>1 DEF Proper
  <2>3. /\ IsSeq(b.reports) /\ IsSeq(i.reports) /\ m \in Nat
        /\ \A r \in 1 .. n : IsSeq(b.reports[r]) /\ Len(b.reports[r]) = 6
    <3>1. IsSeq(b.reports) /\ IsSeq(i.reports)
      BY <2>1, <2>2 DEF Reports, Good
    <3>2. DOMAIN b.reports = 1 .. n
      BY <3>1 DEF IsSeq
    <3> QED
      BY <2>2, <3>1, <3>2 DEF Reports, ReportWords, IsSeq
  <2>4. x.reports = all
    <3>1. b.class = "SenderReport" =>
            Fields(x, i.flags \cup {"Sr"}, b.ssrc, b.sr, all, i.nackList, i.app, i.bitrate)
      BY <2>1, MeaningIs
    <3>2. b.class = "ReceiverReport" =>
            Fields(x, i.flags \cup {"Rr"}, b.ssrc, i.sr, all, i.nackList, i.app, i.bitrate)
      BY <2>1, MeaningIs
    <3> HIDE DEF x, all
    <3> QED
      BY <2>1, <3>1, <3>2, Zenon DEF Fields
  <2>5. CASE b.class = "SenderReport"
    <3>1. /\ n \in Nat /\ l = 7 + 6 * n
          /\ \A r \in 1 .. n : \A j \in 1 .. 6 : c[7 + 6 * (r - 1) + j].v = b.reports[r][j]
      BY <2>5, SenderReportIs
    <3>2. s = 7
      BY <2>5
    <3> HIDE DEF c, l, n, m, x, all, s
    <3> QED
      BY <2>1, <2>3, <2>4, <3>1, <3>2
  <2>6. CASE b.class = "ReceiverReport"
    <3>1. /\ n \in Nat /\ l = 2 + 6 * n
          /\ \A r \in 1 .. n : \A j \in 1 .. 6 : c[2 + 6 * (r - 1) + j].v = b.reports[r][j]
      BY <2>6, ReceiverReportIs
    <3>2. s = 2
      BY <2>6
    <3> HIDE DEF c, l, n, m, x, all, s
    <3> QED
      BY <2>1, <2>3, <2>4, <3>1, <3>2
  <2> QED
    BY <2>1, <2>5, <2>6
<1>0. PICK r \in 0 .. n :
        \E re :
          /\ Spot(parser, o + s + 6 * r, o + l, "ReportBlockItem", n - r, parser.type)
          /\ IsSeq(re) /\ Len(re) = m + r
          /\ \A j \in 1 .. m : re[j] = i.reports[j]
          /\ \A j \in 1 .. r : re[m + j] = b.reports[j]
          /\ NotedAs(info, x.flags, x.ssrc, x.sr, re, x.nackList, x.app, x.bitrate)
  BY Zenon DEF InReports
<1>2. PICK re :
        /\ Spot(parser, o + s + 6 * r, o + l, "ReportBlockItem", n - r, parser.type)
        /\ IsSeq(re) /\ Len(re) = m + r
        /\ \A j \in 1 .. m : re[j] = i.reports[j]
        /\ \A j \in 1 .. r : re[m + j] = b.reports[j]
        /\ NotedAs(info, x.flags, x.ssrc, x.sr, re, x.nackList, x.app, x.bitrate)
  BY <1>0, Zenon
<1>3. o \in Nat /\ \A j \in 1 .. l : words[o + j] = c[j]
  BY DEF At
<1>4. b.class \in {"SenderReport", "ReceiverReport"}
  BY DEF InReports
<1> HIDE DEF c, l, n, m, x, s, all
<1>5. /\ IsParser(parser) /\ parser.pos = o + s + 6 * r /\ parser.end = o + l
      /\ parser.state = "ReportBlockItem" /\ parser.left = n - r
  BY <1>2 DEF Spot
<1>6. ReportBlockItem
  BY <1>5, ItemIs
<1>7. Length = 6 * (n - r)
  BY <1>1, <1>2, <1>3, <1>5 DEF Length
<1>8. CASE r = n
  <2>1. Leave
    <3>1. Length < ReportWords \/ parser.left = 0
      BY <1>1, <1>5, <1>8
    <3> QED
      BY <1>6, <3>1, Zenon DEF ReportBlockItem
  <2>2. re = all
    <3>1. Joined(all, i.reports, b.reports)
      BY <1>1, ConcatIs DEF all
    <3>2. /\ IsSeq(all) /\ Len(all) = m + n
          /\ \A j \in 1 .. m : all[j] = i.reports[j]
          /\ \A j \in 1 .. n : all[m + j] = b.reports[j]
      BY <3>1 DEF Joined, m, n
    <3>3. ASSUME NEW k \in 1 .. m + n PROVE re[k] = all[k]
      <4>1. CASE k <= m
        <5>1. k \in 1 .. m
          BY <1>1, <4>1
        <5> QED
          BY <1>2, <3>2, <5>1
      <4>2. CASE k > m
        <5>1. k - m \in 1 .. n /\ m + (k - m) = k
          BY <1>1, <4>2
        <5> QED
          BY <1>2, <1>8, <3>2, <5>1
      <4> QED
        BY <1>1, <4>1, <4>2
    <3> QED
      BY <1>2, <1>8, <3>2, <3>3, SameSeq
  <2>3. Same(info, x)
    BY <1>1, <1>2, <2>2 DEF Same
  <2> QED
    BY <1>1, <1>5, <2>1, <2>3, LeaveIs DEF l, c, x
<1>9. CASE r # n
  <2> DEFINE one == [j \in 1 .. ReportWords |-> Field(j)]
             next == Append(re, one)
  <2>1. /\ parser' = [parser EXCEPT !.pos = parser.pos + ReportWords, !.left = parser.left - 1,
                                    !.type = "ReportBlockItem"]
        /\ info' = [info EXCEPT !.reports = Append(info.reports, one)]
    <3>1. ~(Length < ReportWords \/ parser.left = 0)
      BY <1>1, <1>2, <1>5, <1>7, <1>9 DEF ReportWords
    <3> QED
      BY <1>6, <3>1, Zenon DEF ReportBlockItem
  <2>2. one = b.reports[r + 1]
    <3>1. r + 1 \in 1 .. n /\ (r + 1) - 1 = r
      <4>1. n \in Nat
        BY <1>1
      <4> QED
        BY <1>9, <4>1
    <3>2. ASSUME NEW j \in 1 .. 6 PROVE Field(j) = b.reports[r + 1][j]
      <4>1. s + 6 * r + j \in 1 .. l /\ parser.pos + j = o + (s + 6 * r + j)
        <5>1. /\ s \in Nat /\ o \in Nat /\ n \in Nat /\ l = s + 6 * n
              /\ parser.pos = o + s + 6 * r
          BY <1>1, <1>3, <1>5
        <5>2. PICK g \in Nat : g = 6 * r
          BY <1>2
        <5>3. g + 6 <= 6 * n
          BY <3>1, <5>1, <5>2
        <5> QED
          BY <5>1, <5>2, <5>3
      <4>2. c[s + 6 * r + j].v = b.reports[r + 1][j]
        BY <1>1, <3>1
      <4> QED
        BY <1>3, <4>1, <4>2 DEF Field
    <3>3. b.reports[r + 1] = [j \in 1 .. 6 |-> b.reports[r + 1][j]]
      BY <1>1, <3>1 DEF IsSeq
    <3>4. [j \in 1 .. 6 |-> Field(j)] = [j \in 1 .. 6 |-> b.reports[r + 1][j]]
      BY <3>2
    <3> QED
      BY <3>3, <3>4 DEF ReportWords
  <2> HIDE DEF one, next
  <2>3. /\ IsSeq(next) /\ Len(next) = m + (r + 1)
        /\ \A j \in 1 .. m : next[j] = i.reports[j]
        /\ \A j \in 1 .. r + 1 : next[m + j] = b.reports[j]
    <3>1. /\ IsSeq(next) /\ Len(next) = (m + r) + 1 /\ next[(m + r) + 1] = one
          /\ \A j \in 1 .. m + r : next[j] = re[j]
      BY <1>2, AppendIs DEF next
    <3>2. \A j \in 1 .. m : next[j] = i.reports[j]
      <4>1. \A j \in 1 .. m : j \in 1 .. m + r
        BY <1>1, <1>2
      <4> QED
        BY <1>2, <3>1, <4>1
    <3>3. ASSUME NEW j \in 1 .. r + 1 PROVE next[m + j] = b.reports[j]
      <4>1. CASE j = r + 1
        <5>1. m + j = (m + r) + 1
          BY <1>1, <1>2, <4>1
        <5> QED
          BY <2>2, <3>1, <4>1, <5>1
      <4>2. CASE j # r + 1
        <5>1. j \in 1 .. r /\ m + j \in 1 .. m + r
          BY <1>1, <1>2, <4>2
        <5> QED
          BY <1>2, <3>1, <5>1
      <4> QED
        BY <4>1, <4>2
    <3>4. (m + r) + 1 = m + (r + 1)
      BY <1>1, <1>2
    <3> QED
      BY <3>1, <3>2, <3>3, <3>4
  <2>4. NotedAs(info', x.flags, x.ssrc, x.sr, next, x.nackList, x.app, x.bitrate)
    <3>1. /\ IsInfo(info) /\ info.reports = re /\ info.flags = x.flags /\ info.ssrc = x.ssrc
          /\ info.sr = x.sr /\ info.nackList = x.nackList /\ info.app = x.app
          /\ Near(info.bitrate, x.bitrate)
      BY <1>2 DEF NotedAs
    <3>2. info' = [info EXCEPT !.reports = next]
      BY <2>1, <3>1, Zenon DEF next
    <3>3. Fields([info EXCEPT !.reports = next], info.flags, info.ssrc, info.sr, next,
                 info.nackList, info.app, info.bitrate)
      BY <3>1, UpdateOne, Zenon
    <3>4. Fields(info', x.flags, x.ssrc, x.sr, next, x.nackList, x.app, info.bitrate)
      BY <3>1, <3>2, <3>3, Zenon
    <3> QED
      BY <3>1, <3>4, NotedBy, Zenon
  <2>5. Spot(parser', o + s + 6 * (r + 1), o + l, "ReportBlockItem", n - (r + 1),
             "ReportBlockItem")
    <3>1. Spot([parser EXCEPT !.pos = parser.pos + ReportWords, !.left = parser.left - 1,
                              !.type = "ReportBlockItem"],
               parser.pos + ReportWords, parser.end, parser.state, parser.left - 1,
               "ReportBlockItem")
      BY <1>5, SpotPosLeftType, Zenon
    <3>2. /\ parser.pos + ReportWords = o + s + 6 * (r + 1)
          /\ parser.left - 1 = n - (r + 1)
      BY <1>1, <1>2, <1>3, <1>5 DEF ReportWords
    <3> QED
      BY <1>5, <2>1, <3>1, <3>2, Zenon
  <2>6. parser'.type = "ReportBlockItem"
    BY <2>5 DEF Spot
  <2>7. r + 1 \in 0 .. n
    <3>1. n \in Nat
      BY <1>1
    <3> QED
      BY <1>9, <3>1
  <2>8. InReports(b, o, i, parser', info')
    <3>1. Spot(parser', o + s + 6 * (r + 1), o + l, "ReportBlockItem", n - (r + 1),
               parser'.type)
      BY <2>5, <2>6
    <3>2. \E q \in 0 .. n : \E z :
            /\ Spot(parser', o + s + 6 * q, o + l, "ReportBlockItem", n - q, parser'.type)
            /\ IsSeq(z) /\ Len(z) = m + q
            /\ \A j \in 1 .. m : z[j] = i.reports[j]
            /\ \A j \in 1 .. q : z[m + j] = b.reports[j]
            /\ NotedAs(info', x.flags, x.ssrc, x.sr, z, x.nackList, x.app, x.bitrate)
      BY <2>3, <2>4, <2>7, <3>1
    <3> QED
      BY <1>4, <3>2 DEF InReports, l, c, n, m, x, s
  <2> QED
    BY <1>1, <2>6, <2>8 DEF In, x
<1> QED
  BY <1>8, <1>9

\* The next piece of the data is read as it was written.
LEMMA AppItemStep ==
  ASSUME NEW b, NEW o, NEW i, Proper(b), At(b, o), In(b, o, i, parser, info),
         InApp(b, o, i, parser, info), ParserNext
  PROVE  In(b, o, i, parser', info') \/ Behind(b, o, i, parser', info')
<1> DEFINE c == Create(b)
           l == Len(c)
           n == Len(b.data)
           m == Len(i.app)
           x == Meaning(i, b)
           all == i.app \o b.data
<1>1. /\ n \in Nat /\ l = 3 + n /\ m \in Nat /\ Good(i) /\ Good(x)
      /\ IsSeq(i.app) /\ IsSeq(b.data) /\ parser.type # "Invalid"
      /\ \A j \in 1 .. n : c[3 + j].v = b.data[j]
      /\ x.app = all /\ b.class = "App"
  <2>1. b.class = "App" /\ Good(i) /\ Good(x) /\ parser.type # "Invalid"
    BY DEF InApp, In
  <2>2. /\ n \in Nat /\ l = 3 + n /\ IsSeq(b.data)
        /\ \A j \in 1 .. n : c[3 + j].v = b.data[j]
    BY <2>1, AppIs
  <2>3. IsSeq(i.app) /\ m \in Nat
    BY <2>1 DEF Good, IsSeq
  <2>4. Fields(x, i.flags \cup {"App"}, i.ssrc, i.sr, i.reports, i.nackList, all, i.bitrate)
    BY <2>1, MeaningIs
  <2> HIDE DEF c, l, n, m, x, all
  <2>5. x.app = all
    BY <2>4 DEF Fields
  <2> QED
    BY <2>1, <2>2, <2>3, <2>5
<1>0. PICK a \in 0 .. n :
        \E ap :
          /\ Spot(parser, o + 3 + a, o + l, "AppItem", parser.left, parser.type)
          /\ IsSeq(ap) /\ Len(ap) = m + a
          /\ \A j \in 1 .. m : ap[j] = i.app[j]
          /\ \A j \in 1 .. a : ap[m + j] = b.data[j]
          /\ NotedAs(info, x.flags, x.ssrc, x.sr, x.reports, x.nackList, ap, x.bitrate)
  BY Zenon DEF InApp
<1>2. PICK ap :
        /\ Spot(parser, o + 3 + a, o + l, "AppItem", parser.left, parser.type)
        /\ IsSeq(ap) /\ Len(ap) = m + a
        /\ \A j \in 1 .. m : ap[j] = i.app[j]
        /\ \A j \in 1 .. a : ap[m + j] = b.data[j]
        /\ NotedAs(info, x.flags, x.ssrc, x.sr, x.reports, x.nackList, ap, x.bitrate)
  BY <1>0, Zenon
<1>3. o \in Nat /\ \A j \in 1 .. l : words[o + j] = c[j]
  BY DEF At
<1> HIDE DEF c, l, n, m, x, all
<1>4. /\ IsParser(parser) /\ parser.pos = o + 3 + a /\ parser.end = o + l
      /\ parser.state = "AppItem"
  BY <1>2 DEF Spot
<1>5. AppItem
  BY <1>4, ItemIs
<1>6. Length = n - a
  BY <1>1, <1>2, <1>3, <1>4 DEF Length
<1>7. CASE a = n
  <2>1. Leave
    <3>1. Length < 1
      BY <1>1, <1>6, <1>7
    <3> QED
      BY <1>5, <3>1, Zenon DEF AppItem
  <2>2. ap = all
    <3>1. Joined(all, i.app, b.data)
      BY <1>1, ConcatIs DEF all
    <3>2. /\ IsSeq(all) /\ Len(all) = m + n
          /\ \A j \in 1 .. m : all[j] = i.app[j]
          /\ \A j \in 1 .. n : all[m + j] = b.data[j]
      BY <3>1 DEF Joined, m, n
    <3>3. ASSUME NEW k \in 1 .. m + n PROVE ap[k] = all[k]
      <4>1. CASE k <= m
        <5>1. k \in 1 .. m
          BY <1>1, <4>1
        <5> QED
          BY <1>2, <3>2, <5>1
      <4>2. CASE k > m
        <5>1. k - m \in 1 .. n /\ m + (k - m) = k
          BY <1>1, <4>2
        <5> QED
          BY <1>2, <1>7, <3>2, <5>1
      <4> QED
        BY <1>1, <4>1, <4>2
    <3> QED
      BY <1>2, <1>7, <3>2, <3>3, SameSeq
  <2>3. Same(info, x)
    BY <1>1, <1>2, <2>2 DEF Same
  <2> QED
    BY <1>1, <1>4, <2>1, <2>3, LeaveIs DEF l, c, x
<1>8. CASE a # n
  <2> DEFINE k == IF Length > AppWords THEN AppWords ELSE Length
             piece == [j \in 1 .. k |-> Field(j)]
             next == ap \o piece
  <2>1. /\ Take(k, "AppItem")
        /\ info' = [info EXCEPT !.app = info.app \o piece]
    <3>1. ~(Length < 1)
      BY <1>1, <1>2, <1>6, <1>8
    <3> QED
      BY <1>5, <3>1, Zenon DEF AppItem
  <2>2. k \in 1 .. n - a
    <3>1. AppWords \in Nat \ {0}
      BY ParserAssumption
    <3>2. n \in Nat
      BY <1>1
    <3> QED
      BY <1>6, <1>8, <3>1, <3>2
  <2>3. IsSeq(piece) /\ Len(piece) = k /\ \A j \in 1 .. k : piece[j] = b.data[a + j]
    <3> HIDE DEF k
    <3>1. IsSeq(piece) /\ Len(piece) = k
      <4>1. piece = [j \in 1 .. k |-> piece[j]]
        OBVIOUS
      <4>2. k \in Nat
        BY <1>1, <2>2
      <4> QED
        BY <4>1, <4>2, FunctionIsSeq
    <3>2. ASSUME NEW j \in 1 .. k PROVE Field(j) = b.data[a + j]
      <4>1. /\ 3 + (a + j) \in 1 .. l /\ parser.pos + j = o + (3 + (a + j))
            /\ a + j \in 1 .. n
        BY <1>1, <1>2, <1>3, <1>4, <2>2
      <4>2. c[3 + (a + j)].v = b.data[a + j]
        BY <1>1, <4>1
      <4> QED
        BY <1>3, <4>1, <4>2 DEF Field
    <3> QED
      BY <3>1, <3>2
  <2> HIDE DEF k, piece, next
  <2>4. /\ IsSeq(next) /\ Len(next) = m + (a + k)
        /\ \A j \in 1 .. m : next[j] = i.app[j]
        /\ \A j \in 1 .. a + k : next[m + j] = b.data[j]
    <3>1. Joined(next, ap, piece)
      BY <1>2, <2>3, ConcatIs DEF next
    <3>2. /\ IsSeq(next) /\ Len(next) = (m + a) + k
          /\ \A j \in 1 .. m + a : next[j] = ap[j]
          /\ \A j \in 1 .. k : next[(m + a) + j] = piece[j]
      BY <1>2, <2>3, <3>1 DEF Joined
    <3>3. \A j \in 1 .. m : next[j] = i.app[j]
      <4>1. \A j \in 1 .. m : j \in 1 .. m + a
        BY <1>1, <1>2
      <4> QED
        BY <1>2, <3>2, <4>1
    <3>4. ASSUME NEW j \in 1 .. a + k PROVE next[m + j] = b.data[j]
      <4>1. CASE j > a
        <5>1. j - a \in 1 .. k /\ (m + a) + (j - a) = m + j /\ a + (j - a) = j
          BY <1>1, <1>2, <2>2, <4>1
        <5>2. next[(m + a) + (j - a)] = piece[j - a] /\ piece[j - a] = b.data[a + (j - a)]
          BY <2>3, <3>2, <5>1
        <5> QED
          BY <5>1, <5>2
      <4>2. CASE j <= a
        <5>1. j \in 1 .. a /\ m + j \in 1 .. m + a
          BY <1>1, <1>2, <2>2, <4>2
        <5> QED
          BY <1>2, <3>2, <5>1
      <4> QED
        BY <1>1, <1>2, <2>2, <4>1, <4>2
    <3>5. (m + a) + k = m + (a + k)
      BY <1>1, <1>2, <2>2
    <3> QED
      BY <3>2, <3>3, <3>4, <3>5
  <2>5. NotedAs(info', x.flags, x.ssrc, x.sr, x.reports, x.nackList, next, x.bitrate)
    <3>1. /\ IsInfo(info) /\ info.reports = x.reports /\ info.flags = x.flags
          /\ info.ssrc = x.ssrc /\ info.sr = x.sr /\ info.nackList = x.nackList
          /\ info.app = ap /\ Near(info.bitrate, x.bitrate)
      BY <1>2 DEF NotedAs
    <3>2. info' = [info EXCEPT !.app = next]
      BY <2>1, <3>1, Zenon DEF next
    <3>3. Fields([info EXCEPT !.app = next], info.flags, info.ssrc, info.sr, info.reports,
                 info.nackList, next, info.bitrate)
      BY <3>1, UpdateOne, Zenon
    <3>4. Fields(info', x.flags, x.ssrc, x.sr, x.reports, x.nackList, next, info.bitrate)
      BY <3>1, <3>2, <3>3, Zenon
    <3> QED
      BY <3>1, <3>4, NotedBy, Zenon
  <2>6. Spot(parser', o + 3 + (a + k), o + l, "AppItem", parser.left, "AppItem")
    <3>1. parser' = [parser EXCEPT !.pos = parser.pos + k, !.type = "AppItem"]
      BY <2>1, Zenon DEF Take
    <3>2. Spot([parser EXCEPT !.pos = parser.pos + k, !.type = "AppItem"],
               parser.pos + k, parser.end, parser.state, parser.left, "AppItem")
      BY <1>4, SpotPosType, Zenon
    <3>3. parser.pos + k = o + 3 + (a + k)
      BY <1>1, <1>2, <1>3, <1>4, <2>2
    <3> QED
      BY <1>4, <3>1, <3>2, <3>3, Zenon
  <2>7. parser'.type = "AppItem" /\ parser'.left = parser.left
    BY <2>6 DEF Spot
  <2>8. a + k \in 0 .. n
    <3>1. n \in Nat
      BY <1>1
    <3> QED
      BY <2>2, <3>1
  <2>9. InApp(b, o, i, parser', info')
    <3>1. Spot(parser', o + 3 + (a + k), o + l, "AppItem", parser'.left, parser'.type)
      BY <2>6, <2>7
    <3>2. \E q \in 0 .. n : \E z :
            /\ Spot(parser', o + 3 + q, o + l, "AppItem", parser'.left, parser'.type)
            /\ IsSeq(z) /\ Len(z) = m + q
            /\ \A j \in 1 .. m : z[j] = i.app[j]
            /\ \A j \in 1 .. q : z[m + j] = b.data[j]
            /\ NotedAs(info', x.flags, x.ssrc, x.sr, x.reports, x.nackList, z, x.bitrate)
      BY <2>4, <2>5, <2>8, <3>1
    <3> QED
      BY <1>1, <3>2 DEF InApp, l, c, n, m, x
  <2> QED
    BY <1>1, <2>7, <2>9 DEF In, x
<1> QED
  BY <1>7, <1>8

\* Numbers that are not too many are added as they are.
LEMMA AddedIs ==
  ASSUME NEW s, IsSeq(s), NEW t, IsSeq(t), Len(s) + Len(t) <= MaxNacks
  PROVE  AddNACKPackets(s, t) = s \o t
<1> DEFINE all == s \o t
           S == {all[i] : i \in 1 .. Len(all)}
<1>1. IsSeq(all) /\ Len(all) = Len(s) + Len(t)
  BY ConcatIs DEF Joined
<1>2. Len(all) \in Nat /\ MaxNacks \in Nat
  BY <1>1, ParserAssumption DEF IsSeq
<1>3. all \in Seq(S)
  BY <1>1, SeqIs
<1> HIDE DEF all, S
<1>4. SubSeq(all, 1, Len(all)) = all
  BY <1>3
<1>5. (IF Len(all) > MaxNacks THEN MaxNacks ELSE Len(all)) = Len(all)
  BY <1>1, <1>2
<1>6. AddNACKPackets(s, t) = SubSeq(all, 1, IF Len(all) > MaxNacks THEN MaxNacks ELSE Len(all))
  BY Zenon DEF AddNACKPackets, all
<1> QED
  BY <1>4, <1>5, <1>6, Zenon DEF all

\* The numbers of the next item are the next of the list.
LEMMA NackItemStep ==
  ASSUME NEW b, NEW o, NEW i, Proper(b), At(b, o), In(b, o, i, parser, info),
         InItems(b, o, i, parser, info), ParserNext
  PROVE  In(b, o, i, parser', info') \/ Behind(b, o, i, parser', info')
<1> DEFINE c == Create(b)
           l == Len(c)
           items == NackItems(b.list)
           n == Len(items)
           x == Meaning(i, b)
<1>1. /\ n \in Nat \ {0} /\ l = 3 + n /\ Good(i) /\ Good(x) /\ parser.type # "Invalid"
      /\ \A j \in 1 .. n : c[3 + j].v = items[j]
      /\ b.class = "Nack" /\ IsSeq(b.list) /\ Len(b.list) \in Nat /\ Len(b.list) <= MaxNacks
      /\ x.nackList = b.list /\ x.flags = i.flags \cup {"Nack"}
  <2>1. b.class = "Nack" /\ Good(i) /\ Good(x) /\ parser.type # "Invalid"
    BY DEF InItems, In
  <2>2. Ascending(b.list)
    BY <2>1 DEF Proper
  <2>3. n \in Nat /\ l = 3 + n /\ \A j \in 1 .. n : c[3 + j].v = items[j]
    BY <2>1, NackIs
  <2>4. n # 0
    BY <2>2, ListIs
  <2>5. IsSeq(b.list) /\ Len(b.list) \in Nat /\ Len(b.list) <= MaxNacks
    <3>1. b.list \in Seq(0 .. PidMod - 1) /\ Len(b.list) \in 1 .. MaxNacks
      BY <2>2 DEF Ascending
    <3>2. IsSeq(b.list)
      BY <3>1, IsSeqOfSeq
    <3>3. MaxNacks \in Nat
      BY ParserAssumption
    <3> QED
      BY <3>1, <3>2, <3>3
  <2>6. Fields(x, i.flags \cup {"Nack"}, b.ssrc, i.sr, i.reports, b.list, i.app, i.bitrate)
    BY <2>1, MeaningIs
  <2> HIDE DEF c, l, n, x, items
  <2>7. x.nackList = b.list /\ x.flags = i.flags \cup {"Nack"}
    BY <2>6 DEF Fields
  <2> QED
    BY <2>1, <2>3, <2>4, <2>5, <2>7
<1>0. PICK q \in 0 .. n :
        \E cut, na :
          /\ Spot(parser, o + 3 + q, o + l, "NACKItem", parser.left, parser.type)
          /\ cut \in [0 .. n -> 0 .. Len(b.list)] /\ cut[0] = 0 /\ cut[n] = Len(b.list)
          /\ \A k \in 1 .. n : Carries(items[k], b.list, cut[k - 1], cut[k])
          /\ IsSeq(na) /\ Len(na) = cut[q] /\ \A j \in 1 .. cut[q] : na[j] = b.list[j]
          /\ NotedAs(info, IF q = 0 THEN i.flags ELSE x.flags, x.ssrc, x.sr, x.reports, na,
                   x.app, x.bitrate)
  BY Zenon DEF InItems
<1>2. PICK cut, na :
        /\ Spot(parser, o + 3 + q, o + l, "NACKItem", parser.left, parser.type)
        /\ cut \in [0 .. n -> 0 .. Len(b.list)] /\ cut[0] = 0 /\ cut[n] = Len(b.list)
        /\ \A k \in 1 .. n : Carries(items[k], b.list, cut[k - 1], cut[k])
        /\ IsSeq(na) /\ Len(na) = cut[q] /\ \A j \in 1 .. cut[q] : na[j] = b.list[j]
        /\ NotedAs(info, IF q = 0 THEN i.flags ELSE x.flags, x.ssrc, x.sr, x.reports, na,
                 x.app, x.bitrate)
  BY <1>0, Zenon
<1>3. o \in Nat /\ \A j \in 1 .. l : words[o + j] = c[j]
  BY DEF At
<1> HIDE DEF c, l, n, x, items
<1>4. /\ IsParser(parser) /\ parser.pos = o + 3 + q /\ parser.end = o + l
      /\ parser.state = "NACKItem"
  BY <1>2 DEF Spot
<1>5. NACKItem
  BY <1>4, ItemIs
<1>6. Length = n - q
  BY <1>1, <1>2, <1>3, <1>4 DEF Length
<1>7. CASE q = n
  <2>1. Leave
    <3>1. Length < 1
      BY <1>1, <1>6, <1>7
    <3> QED
      BY <1>5, <3>1, Zenon DEF NACKItem
  <2>2. na = b.list
    <3>1. cut[q] = Len(b.list)
      BY <1>2, <1>7, Zenon
    <3>2. Len(na) = Len(b.list) /\ \A j \in 1 .. Len(na) : na[j] = b.list[j]
      BY <1>2, <3>1, Zenon
    <3>3. IsSeq(na) /\ IsSeq(b.list)
      BY <1>1, <1>2, Zenon
    <3> QED
      BY <3>2, <3>3, SameSeq, Zenon
  <2>3. NotedAs(info, x.flags, x.ssrc, x.sr, x.reports, x.nackList, x.app, x.bitrate)
    <3>1. q # 0
      BY <1>1, <1>7
    <3> QED
      BY <1>1, <1>2, <2>2, <3>1
  <2>4. Same(info, x)
    BY <1>1, <2>3 DEF Same
  <2> QED
    BY <1>1, <1>4, <2>1, <2>4, LeaveIs DEF l, c, x
<1>8. CASE q # n
  <2> DEFINE item == items[q + 1]
             numbers == NackNumbers(item)
             next == na \o numbers
  <2>1. q + 1 \in 1 .. n /\ (q + 1) - 1 = q /\ q + 1 \in 0 .. n /\ q + 1 # 0
    <3>1. n \in Nat
      BY <1>1
    <3> QED
      BY <1>8, <3>1
  <2>2. Field(1) = item
    <3>1. 3 + (q + 1) \in 1 .. l /\ parser.pos + 1 = o + (3 + (q + 1))
      BY <1>1, <1>3, <1>4, <2>1
    <3>2. c[3 + (q + 1)].v = item
      BY <1>1, <2>1
    <3> QED
      BY <1>3, <3>1, <3>2 DEF Field
  <2>3. /\ Take(1, "NackItem")
        /\ info' = [info EXCEPT !.flags = info.flags \cup {"Nack"},
                                !.nackList = AddNACKPackets(info.nackList, numbers)]
    <3>1. ~(Length < 1)
      BY <1>6, <1>1, <1>8
    <3>2. /\ Take(1, "NackItem")
          /\ info' = [info EXCEPT !.flags = info.flags \cup {"Nack"},
                        !.nackList = AddNACKPackets(info.nackList, NackNumbers(Field(1)))]
      BY <1>5, <3>1, Zenon DEF NACKItem
    <3> HIDE DEF item
    <3> QED
      BY <2>2, <3>2, Zenon
  <2>4. Carries(item, b.list, cut[q], cut[q + 1])
    BY <1>2, <2>1
  <2> HIDE DEF item
  <2>5. /\ IsSeq(numbers) /\ cut[q + 1] = cut[q] + Len(numbers)
        /\ \A j \in 1 .. Len(numbers) : b.list[cut[q] + j] = numbers[j]
    BY <2>4 DEF Carries
  <2> HIDE DEF numbers, next
  <2>6. /\ cut[q] \in Nat /\ cut[q + 1] \in Nat /\ cut[q + 1] <= Len(b.list)
        /\ Len(numbers) \in Nat
    <3>1. cut[q] \in 0 .. Len(b.list) /\ cut[q + 1] \in 0 .. Len(b.list)
      BY <1>2, <2>1
    <3> QED
      BY <1>1, <2>5, <3>1 DEF IsSeq
  <2>7. AddNACKPackets(na, numbers) = next
    <3>1. Len(na) + Len(numbers) <= MaxNacks
      <4>1. MaxNacks \in Nat
        BY ParserAssumption
      <4> QED
        BY <1>1, <1>2, <2>5, <2>6, <4>1
    <3> QED
      BY <1>2, <2>5, <3>1, AddedIs, Zenon DEF next
  <2>8. IsSeq(next) /\ Len(next) = cut[q + 1] /\ \A j \in 1 .. cut[q + 1] : next[j] = b.list[j]
    <3>1. Joined(next, na, numbers)
      BY <1>2, <2>5, ConcatIs DEF next
    <3>2. /\ IsSeq(next) /\ Len(next) = cut[q] + Len(numbers)
          /\ \A j \in 1 .. cut[q] : next[j] = na[j]
          /\ \A j \in 1 .. Len(numbers) : next[cut[q] + j] = numbers[j]
      BY <1>2, <3>1 DEF Joined
    <3>3. ASSUME NEW j \in 1 .. cut[q + 1] PROVE next[j] = b.list[j]
      <4>1. CASE j <= cut[q]
        <5>1. j \in 1 .. cut[q]
          BY <2>6, <4>1
        <5> QED
          BY <1>2, <3>2, <5>1
      <4>2. CASE j > cut[q]
        <5>1. j - cut[q] \in 1 .. Len(numbers) /\ cut[q] + (j - cut[q]) = j
          BY <2>5, <2>6, <4>2
        <5> QED
          BY <2>5, <3>2, <5>1
      <4> QED
        BY <2>6, <4>1, <4>2
    <3> QED
      BY <2>5, <3>2, <3>3
  <2>9. NotedAs(info', x.flags, x.ssrc, x.sr, x.reports, next, x.app, x.bitrate)
    <3>1. /\ IsInfo(info) /\ info.reports = x.reports /\ info.nackList = na
          /\ info.flags = IF q = 0 THEN i.flags ELSE x.flags
          /\ info.ssrc = x.ssrc /\ info.sr = x.sr /\ info.app = x.app
          /\ Near(info.bitrate, x.bitrate)
      BY <1>2 DEF NotedAs
    <3>2. info.flags \cup {"Nack"} = x.flags
      <4>1. info.flags = i.flags \/ info.flags = x.flags
        BY <3>1
      <4> QED
        BY <1>1, <4>1
    <3>3. info' = [info EXCEPT !.flags = x.flags, !.nackList = next]
      BY <2>3, <2>7, <3>1, <3>2, Zenon
    <3>4. Fields([info EXCEPT !.flags = x.flags, !.nackList = next], x.flags, info.ssrc,
                 info.sr, info.reports, next, info.app, info.bitrate)
      BY <3>1, UpdateFlagsList, Zenon
    <3>5. Fields(info', x.flags, x.ssrc, x.sr, x.reports, next, x.app, info.bitrate)
      BY <3>1, <3>3, <3>4, Zenon
    <3> QED
      BY <3>1, <3>5, NotedBy, Zenon
  <2>10. Spot(parser', o + 3 + (q + 1), o + l, "NACKItem", parser.left, "NackItem")
    <3>1. parser' = [parser EXCEPT !.pos = parser.pos + 1, !.type = "NackItem"]
      BY <2>3, Zenon DEF Take
    <3>2. Spot([parser EXCEPT !.pos = parser.pos + 1, !.type = "NackItem"],
               parser.pos + 1, parser.end, parser.state, parser.left, "NackItem")
      BY <1>4, SpotPosType, Zenon
    <3>3. parser.pos + 1 = o + 3 + (q + 1)
      BY <1>1, <1>3, <1>4, <2>1
    <3> QED
      BY <1>4, <3>1, <3>2, <3>3, Zenon
  <2>11. parser'.type = "NackItem" /\ parser'.left = parser.left
    BY <2>10 DEF Spot
  <2>12. InItems(b, o, i, parser', info')
    <3>1. /\ Spot(parser', o + 3 + (q + 1), o + l, "NACKItem", parser'.left, parser'.type)
          /\ NotedAs(info', IF q + 1 = 0 THEN i.flags ELSE x.flags, x.ssrc, x.sr, x.reports,
                   next, x.app, x.bitrate)
      BY <2>1, <2>9, <2>10, <2>11
    <3>2. \E r \in 0 .. n : \E d, z :
            /\ Spot(parser', o + 3 + r, o + l, "NACKItem", parser'.left, parser'.type)
            /\ d \in [0 .. n -> 0 .. Len(b.list)] /\ d[0] = 0 /\ d[n] = Len(b.list)
            /\ \A k \in 1 .. n : Carries(items[k], b.list, d[k - 1], d[k])
            /\ IsSeq(z) /\ Len(z) = d[r] /\ \A j \in 1 .. d[r] : z[j] = b.list[j]
            /\ NotedAs(info', IF r = 0 THEN i.flags ELSE x.flags, x.ssrc, x.sr, x.reports, z,
                     x.app, x.bitrate)
      BY <1>2, <2>1, <2>8, <3>1
    <3> QED
      BY <1>1, <3>2 DEF InItems, l, c, n, x, items
  <2> QED
    BY <1>1, <2>11, <2>12 DEF In, x
<1> QED
  BY <1>7, <1>8

\* The identifier is found, or another one.
LEMMA FeedbackStep ==
  ASSUME NEW b, NEW o, NEW i, Proper(b), At(b, o), In(b, o, i, parser, info),
         InFeedback(b, o, i, parser, info), ParserNext
  PROVE  In(b, o, i, parser', info') \/ Behind(b, o, i, parser', info')
<1> DEFINE c == Create(b)
           l == Len(c)
           x == Meaning(i, b)
<1>1. /\ b.class = "Remb" \/ (b.class = "Foreign" /\ b.pt = "PSFB" /\ b.fmt = 15)
      /\ Spot(parser, o + 3, o + l, "PsfbAppItem", parser.left, parser.type)
      /\ Same(info, i) /\ Good(i) /\ Good(x) /\ parser.type # "Invalid"
  BY DEF InFeedback, In
<1>2. o \in Nat /\ \A j \in 1 .. l : words[o + j] = c[j]
  BY DEF At
<1>3. CASE b.class = "Remb"
  <2> DEFINE n == Len(b.ssrcs)
  <2>1. n \in Nat /\ l = 5 + n /\ c[2].v = b.ssrc /\ c[4].v = "REMB"
    BY <1>3, RembIs
  <2>2. Fields(x, i.flags \cup {"Remb"}, b.ssrc, i.sr, i.reports, i.nackList, i.app, b.rate)
    BY <1>1, <1>3, MeaningIs
  <2> HIDE DEF c, l, n, x
  <2>3. /\ IsParser(parser) /\ parser.pos = o + 3 /\ parser.end = o + l
        /\ parser.state = "PsfbAppItem"
    BY <1>1 DEF Spot
  <2>4. PsfbAppItem
    BY <2>3, ItemIs
  <2>5. ~(Length < 1) /\ Field(1) = "REMB" /\ words[parser.pos - 1].v = b.ssrc
    <3>1. /\ 4 \in 1 .. l /\ 2 \in 1 .. l
          /\ parser.pos + 1 = o + 4 /\ parser.pos - 1 = o + 2
      BY <1>2, <2>1, <2>3
    <3>2. Field(1) = "REMB" /\ words[parser.pos - 1].v = b.ssrc
      BY <1>2, <2>1, <3>1 DEF Field
    <3>3. ~(Length < 1)
      BY <1>2, <2>1, <2>3 DEF Length
    <3> QED
      BY <3>2, <3>3
  <2>6. /\ parser' = [parser EXCEPT !.pos = parser.pos + 1, !.state = "REMBItem",
                                    !.type = "Remb"]
        /\ info' = [info EXCEPT !.ssrc = b.ssrc]
    <3>1. ~(Length < 1 \/ Field(1) # "REMB")
      BY <2>5
    <3>2. /\ parser' = [parser EXCEPT !.pos = parser.pos + 1, !.state = "REMBItem",
                                      !.type = "Remb"]
          /\ info' = [info EXCEPT !.ssrc = words[parser.pos - 1].v]
      BY <2>4, <3>1, Zenon DEF PsfbAppItem
    <3> QED
      BY <2>5, <3>2, Zenon
  <2>7. Spot(parser', o + 4, o + l, "REMBItem", parser.left, "Remb")
    <3>1. Spot([parser EXCEPT !.pos = parser.pos + 1, !.state = "REMBItem", !.type = "Remb"],
               parser.pos + 1, parser.end, "REMBItem", parser.left, "Remb")
      BY <2>3, SpotPosStateType, Zenon
    <3>2. parser.pos + 1 = o + 4
      BY <1>2, <2>3
    <3> QED
      BY <2>3, <2>6, <3>1, <3>2, Zenon
  <2>8. parser'.type = "Remb" /\ parser'.left = parser.left
    BY <2>7 DEF Spot
  <2>9. NotedAs(info', i.flags, x.ssrc, x.sr, x.reports, x.nackList, x.app, i.bitrate)
    <3>1. /\ IsInfo(info) /\ info.flags = i.flags /\ info.sr = i.sr
          /\ info.reports = i.reports /\ info.nackList = i.nackList /\ info.app = i.app
          /\ Near(info.bitrate, i.bitrate)
      BY <1>1, SameFields
    <3>2. Fields([info EXCEPT !.ssrc = b.ssrc], info.flags, b.ssrc, info.sr, info.reports,
                 info.nackList, info.app, info.bitrate)
      BY <3>1, UpdateOne, Zenon
    <3>3. Fields(info', i.flags, b.ssrc, i.sr, i.reports, i.nackList, i.app, info.bitrate)
      BY <2>6, <3>1, <3>2, Zenon
    <3>4. NotedAs(info', i.flags, b.ssrc, i.sr, i.reports, i.nackList, i.app, i.bitrate)
      BY <3>1, <3>3, NotedBy, Zenon
    <3>5. /\ x.ssrc = b.ssrc /\ x.sr = i.sr /\ x.reports = i.reports
          /\ x.nackList = i.nackList /\ x.app = i.app
      BY <2>2 DEF Fields
    <3> QED
      BY <3>4, <3>5, Zenon
  <2>10. InRemb(b, o, i, parser', info')
    BY <1>3, <2>7, <2>8, <2>9 DEF InRemb, l, c, x
  <2> QED
    BY <1>1, <2>8, <2>10 DEF In, x
<1>4. CASE b.class = "Foreign" /\ b.pt = "PSFB" /\ b.fmt = 15
  <2> DEFINE n == Len(b.body)
  <2>1. NotOurs(b) /\ IsSeq(b.body) /\ Plain(c, b.pt, b.fmt, b.body)
    BY <1>4, ForeignIs DEF Proper
  <2>2. x = i
    BY <1>1, <1>4, MeaningIs
  <2>3. n < 3 \/ b.body[3] # "REMB"
    BY <1>4, <2>1 DEF NotOurs, Known
  <2>4. n \in Nat /\ l = 1 + n /\ \A j \in 1 .. n : c[1 + j].v = b.body[j]
    BY <2>1 DEF IsSeq, Plain
  <2> HIDE DEF c, l, n, x
  <2>5. /\ IsParser(parser) /\ parser.pos = o + 3 /\ parser.end = o + l
        /\ parser.state = "PsfbAppItem"
    BY <1>1 DEF Spot
  <2>6. PsfbAppItem
    BY <2>5, ItemIs
  <2>7. Length < 1 \/ Field(1) # "REMB"
    <3>1. CASE n < 3
      BY <1>2, <2>4, <2>5, <3>1 DEF Length
    <3>2. CASE n >= 3 /\ b.body[3] # "REMB"
      <4>1. 3 \in 1 .. n /\ 1 + 3 = 4 /\ 4 \in 1 .. l /\ parser.pos + 1 = o + 4
        BY <1>2, <2>4, <2>5, <3>2
      <4> QED
        BY <1>2, <2>4, <3>2, <4>1 DEF Field
    <3> QED
      BY <2>3, <2>4, <3>1, <3>2
  <2>8. Leave
    BY <2>6, <2>7, Zenon DEF PsfbAppItem
  <2> QED
    BY <1>1, <2>2, <2>5, <2>8, LeaveIs DEF l, c, x
<1> QED
  BY <1>1, <1>3, <1>4

\* The rate is read, up to the bits of its mantissa.
LEMMA RembItemStep ==
  ASSUME NEW b, NEW o, NEW i, Proper(b), At(b, o), In(b, o, i, parser, info),
         InRemb(b, o, i, parser, info), ParserNext
  PROVE  In(b, o, i, parser', info') \/ Behind(b, o, i, parser', info')
<1> DEFINE c == Create(b)
           l == Len(c)
           n == Len(b.ssrcs)
           x == Meaning(i, b)
           fl == i.flags \cup {"Remb"}
           rate == (b.rate \div 2 ^ Exponent(b.rate)) * 2 ^ Exponent(b.rate)
<1>1. /\ b.class = "Remb" /\ Good(i) /\ Good(x) /\ parser.type # "Invalid"
      /\ \/ /\ Spot(parser, o + 4, o + l, "REMBItem", parser.left, "Remb")
            /\ NotedAs(info, i.flags, x.ssrc, x.sr, x.reports, x.nackList, x.app, i.bitrate)
         \/ /\ Spot(parser, o + l, o + l, "REMBItem", parser.left, "RembItem")
            /\ Same(info, x)
  BY DEF InRemb, In
<1>2. o \in Nat /\ \A j \in 1 .. l : words[o + j] = c[j]
  BY DEF At
<1>3. /\ n \in Nat /\ l = 5 + n /\ c[5].octet = n /\ c[5].v.exp = Exponent(b.rate)
      /\ c[5].v.mantissa = b.rate \div 2 ^ Exponent(b.rate)
  BY <1>1, RembIs
<1>4. Fields(x, fl, b.ssrc, i.sr, i.reports, i.nackList, i.app, b.rate)
  BY <1>1, MeaningIs
<1>5. Near(rate, b.rate)
  BY <1>1, RateIsNear
<1>6. c[5].v.mantissa * 2 ^ c[5].v.exp = rate
  BY <1>3, Zenon
<1> HIDE DEF c, l, n, x, fl, rate
<1>7. parser.state = "REMBItem" /\ IsParser(parser) /\ parser.end = o + l
  BY <1>1 DEF Spot
<1>8. REMBItem
  BY <1>7, ItemIs
<1>9. CASE /\ Spot(parser, o + l, o + l, "REMBItem", parser.left, "RembItem")
           /\ Same(info, x)
  <2>1. Length < 1
    <3>1. parser.pos = o + l
      BY <1>9 DEF Spot
    <3> QED
      BY <1>2, <1>3, <1>7, <3>1 DEF Length
  <2>2. Leave
    BY <1>8, <2>1, Zenon DEF REMBItem
  <2> QED
    BY <1>1, <1>7, <1>9, <2>2, LeaveIs DEF l, c, x
<1>10. CASE /\ Spot(parser, o + 4, o + l, "REMBItem", parser.left, "Remb")
            /\ NotedAs(info, i.flags, x.ssrc, x.sr, x.reports, x.nackList, x.app, i.bitrate)
  <2>1. parser.pos = o + 4 /\ parser.type = "Remb"
    BY <1>10 DEF Spot
  <2>2. /\ 5 \in 1 .. l /\ parser.pos + 1 = o + 5
        /\ words[parser.pos + 1] = c[5]
    <3>1. 5 \in 1 .. l /\ parser.pos + 1 = o + 5
      BY <1>2, <1>3, <2>1
    <3> QED
      BY <1>2, <3>1
  <2>3. SSRCs = n /\ ~(Length < 1 \/ Length < 1 + SSRCs)
    <3>1. SSRCs = n
      BY <1>3, <2>2 DEF SSRCs
    <3>2. Length = 1 + n
      BY <1>2, <1>3, <1>7, <2>1 DEF Length
    <3> QED
      BY <1>3, <3>1, <3>2
  <2>4. /\ Take(1 + n, "RembItem")
        /\ info' = [info EXCEPT !.flags = info.flags \cup {"Remb"}, !.bitrate = rate]
    <3>1. /\ Take(1 + SSRCs, "RembItem")
          /\ info' = IF parser.type # "Remb" THEN info
                     ELSE [info EXCEPT !.flags = info.flags \cup {"Remb"},
                             !.bitrate = Field(1).mantissa * 2 ^ Field(1).exp]
      BY <1>8, <2>3, Zenon DEF REMBItem
    <3>2. Field(1) = c[5].v
      BY <2>2 DEF Field
    <3>3. Field(1).mantissa * 2 ^ Field(1).exp = rate
      BY <1>6, <3>2, Zenon
    <3>4. info' = [info EXCEPT !.flags = info.flags \cup {"Remb"},
                     !.bitrate = Field(1).mantissa * 2 ^ Field(1).exp]
      BY <2>1, <3>1, Zenon
    <3>5. info' = [info EXCEPT !.flags = info.flags \cup {"Remb"}, !.bitrate = rate]
      BY <3>3, <3>4, Zenon
    <3> QED
      BY <2>3, <3>1, <3>5, Zenon
  <2>5. Spot(parser', o + l, o + l, "REMBItem", parser.left, "RembItem")
    <3>1. parser' = [parser EXCEPT !.pos = parser.pos + (1 + n), !.type = "RembItem"]
      BY <2>4, Zenon DEF Take
    <3>2. Spot([parser EXCEPT !.pos = parser.pos + (1 + n), !.type = "RembItem"],
               parser.pos + (1 + n), parser.end, parser.state, parser.left, "RembItem")
      BY <1>7, SpotPosType, Zenon
    <3>3. parser.pos + (1 + n) = o + l
      BY <1>2, <1>3, <2>1
    <3> QED
      BY <1>7, <3>1, <3>2, <3>3, Zenon
  <2>6. parser'.type = "RembItem" /\ parser'.left = parser.left
    BY <2>5 DEF Spot
  <2>7. Same(info', x)
    <3>1. /\ x.flags = fl /\ x.ssrc = b.ssrc /\ x.sr = i.sr /\ x.reports = i.reports
          /\ x.nackList = i.nackList /\ x.app = i.app
      BY <1>4 DEF Fields
    <3>2. /\ IsInfo(info) /\ info.flags = i.flags /\ info.ssrc = b.ssrc /\ info.sr = i.sr
          /\ info.reports = i.reports /\ info.nackList = i.nackList /\ info.app = i.app
      BY <1>10, <3>1 DEF NotedAs
    <3>3. info.flags \cup {"Remb"} = fl
      BY <3>2 DEF fl
    <3>4. Fields([info EXCEPT !.flags = fl, !.bitrate = rate], fl, info.ssrc, info.sr,
                 info.reports, info.nackList, info.app, rate)
      BY <3>2, UpdateFlagsRate, Zenon
    <3>5. Fields(info', fl, b.ssrc, i.sr, i.reports, i.nackList, i.app, rate)
      BY <2>4, <3>2, <3>3, <3>4, Zenon
    <3>6. NotedAs(info', fl, b.ssrc, i.sr, i.reports, i.nackList, i.app, b.rate)
      BY <1>5, <3>5, NotedBy, Zenon
    <3> QED
      BY <1>1, <1>4, <3>6, SameBy, Zenon
  <2>8. InRemb(b, o, i, parser', info')
    BY <1>1, <2>5, <2>6, <2>7 DEF InRemb, l, c, x
  <2> QED
    BY <1>1, <2>6, <2>8 DEF In, x
<1> QED
  BY <1>1, <1>9, <1>10

\* Whatever item it is, the reader stays in the block or passes it.
LEMMA ItemStep ==
  ASSUME NEW b, NEW o, NEW i, Proper(b), At(b, o), In(b, o, i, parser, info), ParserNext
  PROVE  In(b, o, i, parser', info') \/ Behind(b, o, i, parser', info')
<1>1. \/ InReports(b, o, i, parser, info) \/ InRest(b, o, i, parser, info)
      \/ InItems(b, o, i, parser, info) \/ InApp(b, o, i, parser, info)
      \/ InFeedback(b, o, i, parser, info) \/ InRemb(b, o, i, parser, info)
  BY DEF In
<1> QED
  BY <1>1, ReportsStep, RestStep, NackItemStep, AppItemStep, FeedbackStep, RembItemStep

----------------------------------------------------------------------------
(* The whole packet.                                                       *)

\* What was sent is whole and of this code's making, and all of it fitted.
Intact ==
  /\ sent \in Compounds /\ \A i \in DOMAIN sent : sent[i].class # "Damaged"
  /\ words = FlattenSeq([i \in DOMAIN sent |-> Create(sent[i])])

\* The k-th block of s ends behind the first off[k] words of w; m[k] is what
\* it and those before it are to add.
Laid(s, w, off, m) ==
  /\ IsSeq(s) /\ \A k \in 1 .. Len(s) : Proper(s[k])
  /\ off \in [0 .. Len(s) -> Nat] /\ off[0] = 0 /\ Len(w) = off[Len(s)]
  /\ \A k \in 1 .. Len(s) :
       /\ off[k] = off[k - 1] + Len(Create(s[k])) /\ off[k] <= Len(w)
       /\ \A j \in 1 .. Len(Create(s[k])) : w[off[k - 1] + j] = Create(s[k])[j]
  /\ m[0] = NoInfo /\ m[Len(s)] = Meanings(s)
  /\ \A k \in 1 .. Len(s) : m[k] = Meaning(m[k - 1], s[k])

\* The reader is between two blocks or in one, and what it noted is what those
\* behind it are to add.
Between(s, off, m, k, p, f) ==
  /\ IsParser(p) /\ p.pos = off[k] /\ p.state = "TopLevel" /\ Same(f, m[k])
  /\ p.type = "Invalid" => k = Len(s)

ReadSoFar(s, off, m, p, f) ==
  \/ \E k \in 0 .. Len(s) : Between(s, off, m, k, p, f)
  \/ \E k \in 1 .. Len(s) : In(s[k], off[k - 1], m[k - 1], p, f)

\* What holds of the packet all the time.
RInv ==
  /\ sent \in Compounds
  /\ Intact => \E off, m : Laid(sent, words, off, m) /\ ReadSoFar(sent, off, m, parser, info)

\* A block is a sequence of words.
LEMMA CreateIsSeq ==
  ASSUME NEW b, Proper(b)
  PROVE  IsSeq(Create(b))
<1> DEFINE c == Create(b)
<1>1. b.class = "SenderReport" => IsSeq(c)
  BY SenderReportIs
<1>2. b.class = "ReceiverReport" => IsSeq(c)
  BY ReceiverReportIs
<1>3. b.class = "Sdes" => IsSeq(c)
  BY SdesIs
<1>4. b.class = "Bye" => IsSeq(c)
  BY ByeIs
<1>5. b.class = "App" => IsSeq(c)
  BY AppIs
<1>6. b.class = "Nack" => IsSeq(c)
  BY NackIs
<1>7. b.class = "Remb" => IsSeq(c)
  BY RembIs
<1>8. b.class = "Foreign" => IsSeq(c)
  BY ForeignIs DEF Plain
<1>9. \/ b.class = "SenderReport" \/ b.class = "ReceiverReport" \/ b.class = "Sdes"
      \/ b.class = "Bye" \/ b.class = "App" \/ b.class = "Nack" \/ b.class = "Remb"
      \/ b.class = "Foreign"
  BY DEF Proper
<1> HIDE DEF c
<1> QED
  BY <1>1, <1>2, <1>3, <1>4, <1>5, <1>6, <1>7, <1>8, <1>9 DEF c

\* The words of a clean packet are those of its blocks.
LEMMA LaidOut ==
  ASSUME Intact
  PROVE  \E off, m : Laid(sent, words, off, m)
<1> DEFINE n == Len(sent)
           q == [i \in DOMAIN sent |-> Create(sent[i])]
<1>1. IsSeq(sent) /\ n \in Nat /\ DOMAIN sent = 1 .. n
  <2>1. IsSeq(sent)
    BY RtcpAssumption DEF Intact
  <2> QED
    BY <2>1 DEF IsSeq
<1>2. \A k \in 1 .. n : Proper(sent[k])
  BY <1>1, RtcpAssumption DEF Intact
<1>3. words = FlattenSeq(q)
  BY DEF Intact
<1>4. q = [i \in 1 .. n |-> Create(sent[i])]
  BY <1>1
<1> HIDE DEF q, n
<1>5. IsSeq(q) /\ Len(q) = n
  <2>1. q = [i \in 1 .. n |-> q[i]]
    BY <1>4
  <2> QED
    BY <1>1, <2>1, FunctionIsSeq
<1>6. \A i \in 1 .. n : q[i] = Create(sent[i]) /\ IsSeq(q[i])
  BY <1>2, <1>4, CreateIsSeq
<1>7. PICK off : Cuts(q, words, off)
  BY <1>3, <1>5, <1>6, FlattenIs
<1>8. PICK m : /\ m[0] = NoInfo /\ m[n] = Meanings(sent)
               /\ \A k \in 1 .. n : m[k] = Meaning(m[k - 1], sent[k])
  BY <1>1, MeaningsIs DEF n
<1>9. /\ off \in [0 .. n -> Nat] /\ off[0] = 0 /\ Len(words) = off[n]
      /\ \A k \in 1 .. n :
           /\ off[k] = off[k - 1] + Len(q[k]) /\ off[k] <= Len(words)
           /\ \A j \in 1 .. Len(q[k]) : words[off[k - 1] + j] = q[k][j]
  BY <1>5, <1>7 DEF Cuts
<1>10. \A k \in 1 .. n :
         /\ off[k] = off[k - 1] + Len(Create(sent[k])) /\ off[k] <= Len(words)
         /\ \A j \in 1 .. Len(Create(sent[k])) : words[off[k - 1] + j] = Create(sent[k])[j]
  <2>1. ASSUME NEW k \in 1 .. n
        PROVE  /\ off[k] = off[k - 1] + Len(Create(sent[k])) /\ off[k] <= Len(words)
               /\ \A j \in 1 .. Len(Create(sent[k])) :
                    words[off[k - 1] + j] = Create(sent[k])[j]
    <3>1. q[k] = Create(sent[k])
      BY <1>6
    <3>2. /\ off[k] = off[k - 1] + Len(q[k]) /\ off[k] <= Len(words)
          /\ \A j \in 1 .. Len(q[k]) : words[off[k - 1] + j] = q[k][j]
      BY <1>9
    <3> QED
      BY <3>1, <3>2
  <2> QED
    BY <2>1, Zenon
<1>11. Laid(sent, words, off, m)
  BY <1>1, <1>2, <1>8, <1>9, <1>10, Zenon DEF Laid, n
<1> QED
  BY <1>11

\* Every step reads on.
LEMMA ReadingOn ==
  ASSUME NEW s, NEW off, NEW m, Laid(s, words, off, m), ReadSoFar(s, off, m, parser, info),
         ParserNext
  PROVE  ReadSoFar(s, off, m, parser', info')
<1> DEFINE n == Len(s)
<1>1. /\ n \in Nat /\ off \in [0 .. n -> Nat] /\ Len(words) = off[n]
      /\ \A k \in 1 .. n : /\ Proper(s[k]) /\ off[k] = off[k - 1] + Len(Create(s[k]))
                           /\ m[k] = Meaning(m[k - 1], s[k])
  BY DEF Laid, IsSeq
<1>2. ASSUME NEW k \in 1 .. n PROVE At(s[k], off[k - 1])
  <2>1. /\ off[k] = off[k - 1] + Len(Create(s[k])) /\ off[k] <= Len(words)
        /\ \A j \in 1 .. Len(Create(s[k])) : words[off[k - 1] + j] = Create(s[k])[j]
    BY DEF Laid
  <2>2. k - 1 \in 0 .. n /\ n \in 0 .. n
    BY <1>1
  <2>3. off[k - 1] \in Nat /\ Len(words) \in Nat
    BY <1>1, <2>2
  <2> QED
    BY <2>1, <2>3 DEF At
<1>3. ASSUME NEW k \in 1 .. n,
             \/ In(s[k], off[k - 1], m[k - 1], parser', info')
             \/ Behind(s[k], off[k - 1], m[k - 1], parser', info')
      PROVE  ReadSoFar(s, off, m, parser', info')
  <2>1. CASE In(s[k], off[k - 1], m[k - 1], parser', info')
    BY <2>1 DEF ReadSoFar
  <2>2. CASE Behind(s[k], off[k - 1], m[k - 1], parser', info')
    <3>1. Between(s, off, m, k, parser', info')
      BY <1>1, <2>2 DEF Behind, Between
    <3>2. k \in 0 .. n
      BY <1>1
    <3> QED
      BY <3>1, <3>2 DEF ReadSoFar
  <2> QED
    BY <1>3, <2>1, <2>2
<1>4. CASE \E k \in 1 .. n : In(s[k], off[k - 1], m[k - 1], parser, info)
  <2>1. PICK k \in 1 .. n : In(s[k], off[k - 1], m[k - 1], parser, info)
    BY <1>4
  <2>2. Proper(s[k]) /\ At(s[k], off[k - 1])
    BY <1>1, <1>2
  <2>3. \/ In(s[k], off[k - 1], m[k - 1], parser', info')
        \/ Behind(s[k], off[k - 1], m[k - 1], parser', info')
    BY <2>1, <2>2, ItemStep
  <2> QED
    BY <1>3, <2>3
<1>5. CASE \E k \in 0 .. n : Between(s, off, m, k, parser, info)
  <2>1. PICK k \in 0 .. n : Between(s, off, m, k, parser, info)
    BY <1>5
  <2>2. /\ IsParser(parser) /\ parser.pos = off[k] /\ parser.state = "TopLevel"
        /\ Same(info, m[k]) /\ (parser.type = "Invalid" => k = n)
    BY <2>1 DEF Between
  <2>3. parser.type # "Invalid"
    <3>1. ~Item
      BY <2>2 DEF Item, ReportBlockItem, SDESChunk, BYEItem, NACKItem, AppItem, PsfbAppItem,
         REMBItem
    <3>2. Block => parser.type # "Invalid"
      BY DEF Block, SenderReport, ReceiverReport, Sdes, Bye, TransportFeedback,
         PayloadFeedback, App, Foreign, AtBlock
    <3>3. Stop => parser.type # "Invalid"
      BY DEF Stop
    <3> QED
      BY <3>1, <3>2, <3>3 DEF ParserNext
  <2>4. CASE k = n
    <3>1. ~AtHeader
      <4>1. parser.pos = Len(words) /\ Len(words) \in Nat
        <5>1. n \in 0 .. n
          BY <1>1
        <5> QED
          BY <1>1, <2>2, <2>4, <5>1
      <4> QED
        BY <4>1 DEF AtHeader
    <3>2. ~Block
      BY <3>1 DEF Block, SenderReport, ReceiverReport, Sdes, Bye, TransportFeedback,
         PayloadFeedback, App, Foreign, AtBlock
    <3>3. ~Item
      BY <2>2 DEF Item, ReportBlockItem, SDESChunk, BYEItem, NACKItem, AppItem, PsfbAppItem,
         REMBItem
    <3>4. Stop
      BY <3>2, <3>3 DEF ParserNext
    <3>5. parser' = [parser EXCEPT !.type = "Invalid"] /\ info' = info
      BY <3>4, Zenon DEF Stop
    <3>6. Spot([parser EXCEPT !.type = "Invalid"], parser.pos, parser.end, parser.state,
               parser.left, "Invalid")
      BY <2>2, SpotOne, Zenon
    <3>7. Spot(parser', parser.pos, parser.end, parser.state, parser.left, "Invalid")
      BY <3>5, <3>6, Zenon
    <3>8. Between(s, off, m, k, parser', info')
      <4>1. IsParser(parser') /\ parser'.pos = off[k] /\ parser'.state = "TopLevel"
        BY <2>2, <3>7, Zenon DEF Spot
      <4>2. Same(info', m[k])
        BY <2>2, <3>5
      <4> QED
        BY <2>4, <4>1, <4>2, Zenon DEF Between
    <3> QED
      BY <3>8 DEF ReadSoFar
  <2>5. CASE k # n
    <3>1. k + 1 \in 1 .. n /\ (k + 1) - 1 = k
      BY <1>1, <2>5
    <3>2. Before(s[k + 1], off[k], m[k])
      <4>1. Proper(s[k + 1])
        BY <1>1, <3>1
      <4>2. At(s[k + 1], off[(k + 1) - 1])
        BY <1>2, <3>1, Zenon
      <4>3. At(s[k + 1], off[k])
        BY <3>1, <4>2
      <4> QED
        BY <2>2, <2>3, <4>1, <4>3, Zenon DEF Before
    <3>3. \/ In(s[k + 1], off[k], m[k], parser', info')
          \/ Behind(s[k + 1], off[k], m[k], parser', info')
      BY <3>2, BlockStep
    <3> QED
      BY <1>3, <3>1, <3>3
  <2> QED
    BY <2>4, <2>5
<1> QED
  BY <1>4, <1>5 DEF ReadSoFar

\* At the start nothing is read.
LEMMA RInvInit == SentInit => RInv
<1> SUFFICES ASSUME SentInit, Intact
             PROVE  \E off, m : /\ Laid(sent, words, off, m)
                                /\ ReadSoFar(sent, off, m, parser, info)
  BY DEF SentInit, RInv
<1>1. PICK off, m : Laid(sent, words, off, m)
  BY LaidOut
<1>2. off[0] = 0 /\ m[0] = NoInfo /\ 0 \in 0 .. Len(sent)
  BY <1>1 DEF Laid, IsSeq
<1>3. info = NoInfo /\ Spot(parser, 0, 0, "TopLevel", 0, "None")
  <2>1. /\ parser = [pos |-> 0, end |-> 0, state |-> "TopLevel", left |-> 0, type |-> "None"]
        /\ info = NoInfo
    BY DEF SentInit, ParserStart
  <2> QED
    BY <2>1, SpotIs
<1>4. Same(NoInfo, NoInfo)
  <2>1. Fields(NoInfo, {}, 0, <<>>, <<>>, <<>>, <<>>, 0)
    BY FieldsAre DEF NoInfo
  <2>2. Near(0, 0)
    <3>1. 2 ^ MantissaBits - 1 \in Nat
      BY RtcpAssumption
    <3>2. (0 - 0) * (2 ^ MantissaBits - 1) = 0
      BY <3>1
    <3> QED
      BY <3>2 DEF Near
  <2>3. IsSeq(<<>>)
    BY TupleIs
  <2> QED
    BY <2>1, <2>2, <2>3 DEF Fields, Same, Good, NotedAs
<1>5. Between(sent, off, m, 0, parser, info)
  BY <1>2, <1>3, <1>4 DEF Between, Spot
<1> QED
  BY <1>1, <1>2, <1>5 DEF ReadSoFar

\* And it stays so.
LEMMA RInvNext == RInv /\ [SentNext]_<<parserVars, sent>> => RInv'
<1> SUFFICES ASSUME RInv, [SentNext]_<<parserVars, sent>>
             PROVE  RInv'
  OBVIOUS
<1>1. sent' = sent /\ words' = words
  BY DEF SentNext, ParserNext, parserVars
<1>2. sent' \in Compounds
  BY <1>1 DEF RInv
<1>3. ASSUME Intact'
      PROVE  \E off, m : /\ Laid(sent', words', off, m)
                         /\ ReadSoFar(sent', off, m, parser', info')
  <2>1. Intact
    BY <1>1, <1>3 DEF Intact
  <2>2. PICK off, m : Laid(sent, words, off, m) /\ ReadSoFar(sent, off, m, parser, info)
    BY <2>1 DEF RInv
  <2>3. ReadSoFar(sent, off, m, parser', info')
    <3>1. CASE ParserNext
      BY <2>2, <3>1, ReadingOn
    <3>2. CASE UNCHANGED <<parserVars, sent>>
      BY <2>2, <3>2 DEF parserVars
    <3> QED
      BY <3>1, <3>2 DEF SentNext
  <2> QED
    BY <1>1, <2>2, <2>3
<1> QED
  BY <1>2, <1>3 DEF RInv

\* At the end all is read.
LEMMA RInvRead == RInv => ReadAsWritten
<1> SUFFICES ASSUME RInv, Done, Intact
             PROVE  LET all == Meanings(sent)
                    IN  /\ Near(info.bitrate, all.bitrate)
                        /\ info = [all EXCEPT !.bitrate = info.bitrate]
  BY DEF ReadAsWritten, Intact, RInv
<1> DEFINE all == Meanings(sent)
<1>1. PICK off, m : Laid(sent, words, off, m) /\ ReadSoFar(sent, off, m, parser, info)
  BY DEF RInv
<1>2. Same(info, all)
  <2>1. ASSUME NEW k \in 1 .. Len(sent), In(sent[k], off[k - 1], m[k - 1], parser, info)
        PROVE  FALSE
    BY <2>1 DEF In, Done
  <2>2. PICK k \in 0 .. Len(sent) : Between(sent, off, m, k, parser, info)
    BY <1>1, <2>1 DEF ReadSoFar
  <2>3. k = Len(sent) /\ Same(info, m[k])
    BY <2>2 DEF Between, Done
  <2> QED
    BY <1>1, <2>3 DEF Laid
<1> HIDE DEF all
<1>3. /\ IsInfo(info) /\ IsInfo(all)
      /\ info.flags = all.flags /\ info.ssrc = all.ssrc /\ info.sr = all.sr
      /\ info.reports = all.reports /\ info.nackList = all.nackList /\ info.app = all.app
      /\ Near(info.bitrate, all.bitrate)
  BY <1>2, SameFields DEF Good
<1>4. info = [all EXCEPT !.bitrate = info.bitrate]
  <2> DEFINE y == [all EXCEPT !.bitrate = info.bitrate]
  <2>1. Fields(y, all.flags, all.ssrc, all.sr, all.reports, all.nackList, all.app,
               info.bitrate)
    BY <1>3, UpdateOne
  <2> HIDE DEF y
  <2>2. PICK a1, a2, a3, a4, a5, a6, a7 :
          y = [flags |-> a1, ssrc |-> a2, sr |-> a3, reports |-> a4, nackList |-> a5,
               app |-> a6, bitrate |-> a7]
    BY <2>1 DEF Fields, IsInfo
  <2>3. PICK e1, e2, e3, e4, e5, e6, e7 :
          info = [flags |-> e1, ssrc |-> e2, sr |-> e3, reports |-> e4, nackList |-> e5,
                  app |-> e6, bitrate |-> e7]
    BY <1>3 DEF IsInfo
  <2>4. /\ y.flags = a1 /\ y.ssrc = a2 /\ y.sr = a3 /\ y.reports = a4 /\ y.nackList = a5
        /\ y.app = a6 /\ y.bitrate = a7
    BY <2>2
  <2>5. /\ info.flags = e1 /\ info.ssrc = e2 /\ info.sr = e3 /\ info.reports = e4
        /\ info.nackList = e5 /\ info.app = e6 /\ info.bitrate = e7
    BY <2>3
  <2>6. a1 = e1 /\ a2 = e2 /\ a3 = e3 /\ a4 = e4 /\ a5 = e5 /\ a6 = e6 /\ a7 = e7
    BY <1>3, <2>1, <2>4, <2>5, Zenon DEF Fields
  <2>7. info = y
    BY <2>2, <2>3, <2>6, Zenon
  <2> QED
    BY <2>7 DEF y
<1> QED
  BY <1>3, <1>4 DEF all

\* A compound packet that fitted is read as it was written, whatever blocks,
\* of whatever length, are in it (rtcp_enc.cpp against rtcp_dec.cpp and
\* rtcp_helper.cpp).
THEOREM RtcpReadAsWritten == SentSpec => []ReadAsWritten
<1>1. SentInit => RInv
  BY RInvInit
<1>2. RInv /\ [SentNext]_<<parserVars, sent>> => RInv'
  BY RInvNext
<1>3. RInv => ReadAsWritten
  BY RInvRead
<1> QED
  BY <1>1, <1>2, <1>3, PTL DEF SentSpec
=============================================================================
