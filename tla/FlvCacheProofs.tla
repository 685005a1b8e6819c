--------------------------- MODULE FlvCacheProofs ---------------------------
(***************************************************************************)
(* Proofs of the safety properties of FlvCache, for any viewers, bounds    *)
(* and times, as long as wb is no larger than kBufferOveruseSize, which is *)
(* what the program's constants say (WbFits).  What a player was sent is   *)
(* tied to what the store still holds by the numbers of the blocks: those  *)
(* behind the player's cursor are newer than everything it has seen.       *)
(***************************************************************************)
EXTENDS FlvCache, SequenceTheorems, WellFoundedInduction, TLAPS

\* flv_live_player.cpp: 512 KB of wb against the 2 MB of kBufferOveruseSize.
WbFits == WbSize <= OveruseSize

\* NumbersAreDense of a store.
Dense(s) ==
  /\ \A i \in DOMAIN s.blocks :
       /\ s.blocks[i].seq = s.next - 1 - (Len(s.blocks) - i)
       /\ i > 1 => s.blocks[i - 1].ts <= s.blocks[i].ts
  /\ s.blocks = << >> => s.next = 0

Increasing(seen) == \A i, j \in DOMAIN seen : i < j => seen[i].id < seen[j].id

Stocked(s, n) ==
  /\ s \in Store
  /\ Dense(s)
  /\ Increasing(s.blocks)
  /\ \A i \in DOMAIN s.blocks : s.blocks[i].id < n

\* What is in a connection's buffer and fields, whatever the store holds.
Playing(c, n) ==
  /\ c \in Conn
  /\ c.latest >= -1 /\ ~c.overuse
  /\ c.header => c.asked = "flv"
  /\ c.first => c.header
  /\ c.asked \in {"closed", "nothing"} => c.wb = 0
  /\ c.asked = "flv" /\ ~c.header => c.wb = 0
  /\ c.header /\ ~c.first => c.wb <= 1
  /\ Increasing(c.seen)
  /\ \A i \in DOMAIN c.seen : c.seen[i].id < n
  /\ c.seen # << >> => c.seen[1].key

Begun(c) == c.first <=> c.seen # << >>

\* What the store holds behind the cursor is newer than what was seen.
Ahead(c, s) ==
  s # None =>
    \A i \in DOMAIN s.blocks, j \in DOMAIN c.seen :
      s.blocks[i].seq > c.latest => c.seen[j].id < s.blocks[i].id

Drained(c, s) ==
  s # None => IF c.first THEN ~Holds(s, c.latest + 1) ELSE KeyAt(s) = {}

Asleep(c, s) ==
  c.asked = "flv" /\ c.header /\ ~c.w => c.wb = 0 /\ Drained(c, s)

InReach(c, s) ==
  c.first /\ s # None => s.blocks = << >> \/ Front(s).seq <= c.latest + 1

Player(c, s, n) == Playing(c, n) /\ Begun(c) /\ Ahead(c, s) /\ Asleep(c, s)

Inv ==
  /\ store \in Store \cup {None}
  /\ store # None => Stocked(store, tags)
  /\ uploader \in BOOLEAN /\ described \in BOOLEAN /\ tags \in Nat /\ stores \in Nat
  /\ conn \in [Viewers -> Conn]
  /\ \A v \in Viewers : Player(conn[v], store, tags)
  /\ \A v \in Prompt : InReach(conn[v], store)

----------------------------------------------------------------------------
(* The store.                                                              *)

\* The order of the naturals is a well-founded relation.
LEMMA NatOrder ==
  \E R : IsWellFoundedOn(R, Nat) /\ \A x, y \in Nat : <<y, x>> \in R <=> y < x
<1>1. IsWellFoundedOn(OpToRel(<, Nat), Nat)
  BY NatLessThanWellFounded
<1>2. \A x, y \in Nat : <<y, x>> \in OpToRel(<, Nat) <=> y < x
  BY DEF OpToRel
<1> QED
  BY <1>1, <1>2, Zenon

\* A set of naturals has a least element: where the trimming loop stops.
LEMMA LeastNat ==
  ASSUME NEW T \in SUBSET Nat, T # {}
  PROVE  \E m \in T : \A k \in T : m <= k
<1>1. PICK R : IsWellFoundedOn(R, Nat)
               /\ \A x, y \in Nat : <<y, x>> \in R <=> y < x
  BY NatOrder
<1>2. PICK m \in T : \A y \in T : ~ (<<y, m>> \in R)
  BY <1>1, WFMin, Zenon
<1>3. ASSUME NEW k \in T PROVE m <= k
  <2>1. k \in Nat /\ m \in Nat
    OBVIOUS
  <2>2. ~ (k < m)
    BY <1>1, <1>2, <2>1, Zenon
  <2> QED
    BY <2>1, <2>2
<1> QED
  BY <1>3

\* The blocks of a store: their domain and their types.
LEMMA Blocks ==
  ASSUME NEW s \in Store
  PROVE  /\ s.blocks \in Seq(Block) /\ Len(s.blocks) \in Nat
         /\ DOMAIN s.blocks = 1 .. Len(s.blocks)
         /\ s.blocks = << >> <=> Len(s.blocks) = 0
         /\ \A i \in 1 .. Len(s.blocks) :
              /\ s.blocks[i] \in Block
              /\ s.blocks[i].seq \in Nat /\ s.blocks[i].ts \in Nat
              /\ s.blocks[i].id \in Nat /\ s.blocks[i].key \in BOOLEAN
<1>1. s.blocks \in Seq(Block)
  BY DEF Store
<1>2. \A i \in 1 .. Len(s.blocks) : s.blocks[i] \in Block
  BY <1>1, ElementOfSeq
<1>3. s.blocks = << >> <=> Len(s.blocks) = 0
  BY <1>1, EmptySeq
<1> QED
  BY <1>1, <1>2, <1>3, LenProperties DEF Block

\* The numbers of a store: what get_by_seq computes with.
LEMMA Numbers ==
  ASSUME NEW s \in Store, Dense(s), s.blocks # << >>
  PROVE  /\ Len(s.blocks) \in Nat \ {0}
         /\ s.next \in Nat /\ Back(s).seq = s.next - 1
         /\ Front(s).seq = s.next - Len(s.blocks)
         /\ \A i \in 1 .. Len(s.blocks) :
              s.blocks[i].seq = s.next - 1 - (Len(s.blocks) - i)
<1>1. Len(s.blocks) \in Nat \ {0} /\ DOMAIN s.blocks = 1 .. Len(s.blocks)
  BY Blocks
<1>2. s.next \in Nat
  BY DEF Store
<1>3. \A i \in 1 .. Len(s.blocks) :
        s.blocks[i].seq = s.next - 1 - (Len(s.blocks) - i)
  BY <1>1 DEF Dense
<1>4. 1 \in 1 .. Len(s.blocks) /\ Len(s.blocks) \in 1 .. Len(s.blocks)
  BY <1>1
<1>5. /\ s.blocks[1].seq = s.next - 1 - (Len(s.blocks) - 1)
      /\ s.blocks[Len(s.blocks)].seq = s.next - 1 - (Len(s.blocks) - Len(s.blocks))
  BY <1>3, <1>4
<1>6. Back(s).seq = s.next - 1 /\ Front(s).seq = s.next - Len(s.blocks)
  BY <1>1, <1>2, <1>5 DEF Back, Front
<1> QED
  BY <1>1, <1>2, <1>3, <1>6

\* get_latest_key: the last key block, if there is one.
LEMMA LatestKeyIsKey ==
  ASSUME NEW s \in Store, KeyAt(s) # {}
  PROVE  /\ LatestKey(s) \in DOMAIN s.blocks
         /\ s.blocks[LatestKey(s)].key
<1> DEFINE n == Len(s.blocks)
           T == {k \in 0 .. n - 1 : n - k \in KeyAt(s)}
<1>1. /\ n \in Nat /\ DOMAIN s.blocks = 1 .. n
  BY Blocks
<1>2. KeyAt(s) \subseteq 1 .. n
  BY <1>1 DEF KeyAt
<1>3. PICK a \in KeyAt(s) : TRUE
  OBVIOUS
<1>4. n - a \in T
  <2>1. a \in 1 .. n
    BY <1>2, <1>3
  <2>2. n - (n - a) = a /\ n - a \in 0 .. n - 1
    BY <1>1, <2>1
  <2> QED
    BY <2>2, <1>3
<1>5. T \in SUBSET Nat /\ T # {}
  BY <1>1, <1>4
<1>6. PICK m \in T : \A k \in T : m <= k
  BY <1>5, LeastNat
<1>7. n - m \in KeyAt(s) /\ m \in 0 .. n - 1
  BY <1>6
<1>8. ASSUME NEW j \in KeyAt(s) PROVE j <= n - m
  <2>1. j \in 1 .. n
    BY <1>2
  <2>2. n - (n - j) = j /\ n - j \in 0 .. n - 1
    BY <1>1, <2>1
  <2>3. n - j \in T
    BY <2>2
  <2>4. m <= n - j
    BY <2>3, <1>6
  <2> HIDE DEF n, T
  <2> QED
    BY <2>4, <1>7, <1>1, <2>1
<1>9. LatestKey(s) \in KeyAt(s)
  BY <1>7, <1>8 DEF LatestKey
<1> QED
  BY <1>9 DEF KeyAt

\* CircularCache::push of a new number: the block goes to the end.
LEMMA PushedIsStocked ==
  ASSUME NEW s \in Store, NEW n \in Nat, Stocked(s, n), NEW b \in Block,
         b.seq = s.next, b.id = n, s.blocks # << >> => b.ts >= Back(s).ts,
         StoreTicks \in Nat
  PROVE  LET t == [Pushed(s, b) EXCEPT !.next = @ + 1]
         IN  /\ Stocked(t, n + 1)
             /\ t.blocks = Append(s.blocks, b)
             /\ t.next = s.next + 1
<1> DEFINE t == [Pushed(s, b) EXCEPT !.next = @ + 1]
           m == Len(s.blocks)
<1>1. /\ s.blocks \in Seq(Block) /\ m \in Nat /\ DOMAIN s.blocks = 1 .. m
      /\ s.next \in Nat /\ b.id \in Nat /\ b.ts \in Nat /\ b.seq \in Nat
  BY Blocks DEF Store, Block
<1>2. Dense(s) /\ Increasing(s.blocks) /\ \A i \in 1 .. m : s.blocks[i].id < n
  BY <1>1 DEF Stocked
<1>3. ~ (s.blocks # << >> /\ b.seq <= Back(s).seq)
  BY <1>1, <1>2, Numbers
<1>4. Pushed(s, b) = [s EXCEPT !.blocks = Append(@, b), !.quiet = 0]
  BY <1>3 DEF Pushed
<1>5. /\ Append(s.blocks, b) \in Seq(Block)
      /\ Len(Append(s.blocks, b)) = m + 1
      /\ \A i \in 1 .. m : Append(s.blocks, b)[i] = s.blocks[i]
      /\ Append(s.blocks, b)[m + 1] = b
      /\ Append(s.blocks, b) # << >>
  BY <1>1, AppendProperties
<1>6. t \in Store /\ t.blocks = Append(s.blocks, b) /\ t.next = s.next + 1
  <2>1. t = [blocks |-> Append(s.blocks, b), next |-> s.next + 1, quiet |-> 0]
    <3>1. s = [blocks |-> s.blocks, next |-> s.next, quiet |-> s.quiet]
      BY DEF Store
    <3>2. Pushed(s, b) = [blocks |-> Append(s.blocks, b), next |-> s.next, quiet |-> 0]
      BY <1>4, <3>1
    <3>3. Pushed(s, b).next + 1 = s.next + 1
      BY <3>2
    <3>4. t = [Pushed(s, b) EXCEPT !.next = s.next + 1]
      BY <3>3, Zenon
    <3> DEFINE u == Pushed(s, b)
    <3>5. u = [blocks |-> Append(s.blocks, b), next |-> s.next, quiet |-> 0]
      BY <3>2
    <3>6. t = [u EXCEPT !.next = s.next + 1]
      BY <3>4
    <3> HIDE DEF t, u
    <3> QED
      BY <3>5, <3>6
  <2>2. s.next + 1 \in Nat /\ 0 \in 0 .. StoreTicks
    BY <1>1
  <2> HIDE DEF t
  <2> QED
    BY <2>1, <2>2, <1>5 DEF Store
<1>7. Len(t.blocks) = m + 1 /\ DOMAIN t.blocks = 1 .. m + 1
  BY <1>5, <1>6, Blocks
<1>8. /\ \A i \in 1 .. m : t.blocks[i] = s.blocks[i]
      /\ t.blocks[m + 1] = b
  BY <1>5, <1>6
<1> HIDE DEF t, m
<1>9. Dense(t)
  <2>1. ASSUME NEW i \in 1 .. m + 1
        PROVE  t.blocks[i].seq = t.next - 1 - (m + 1 - i)
    <3>1. CASE i = m + 1
      BY <3>1, <1>8, <1>6, <1>1
    <3>2. CASE i \in 1 .. m
      <4>1. s.blocks[i].seq = s.next - 1 - (m - i)
        BY <3>2, <1>2, <1>1 DEF Dense, m
      <4>2. t.blocks[i] = s.blocks[i] /\ i \in Int
        BY <3>2, <1>8, <1>1
      <4>3. t.next = s.next + 1
        BY <1>6
      <4> QED
        BY <4>1, <4>2, <4>3, <1>1
    <3> QED
      BY <3>1, <3>2, <1>1
  <2>2. ASSUME NEW i \in 1 .. m + 1, i > 1
        PROVE  t.blocks[i - 1].ts <= t.blocks[i].ts
    <3>1. CASE i = m + 1
      <4>1. m \in 1 .. m /\ s.blocks # << >>
        BY <3>1, <2>2, <1>1 DEF m
      <4>2. b.ts >= s.blocks[m].ts
        BY <4>1 DEF Back, m
      <4>3. s.blocks[m].ts \in Nat
        BY <4>1, Blocks DEF m
      <4>4. t.blocks[i] = b /\ t.blocks[i - 1] = s.blocks[m]
        BY <3>1, <4>1, <1>8, <1>1
      <4> QED
        BY <4>2, <4>3, <4>4, <1>1
    <3>2. CASE i \in 1 .. m
      <4>1. s.blocks[i - 1].ts <= s.blocks[i].ts
        BY <3>2, <2>2, <1>2, <1>1 DEF Dense, m
      <4>2. t.blocks[i] = s.blocks[i] /\ t.blocks[i - 1] = s.blocks[i - 1]
        BY <3>2, <2>2, <1>8, <1>1
      <4> QED
        BY <4>1, <4>2
    <3> QED
      BY <3>1, <3>2, <1>1
  <2>3. t.blocks # << >>
    BY <1>5, <1>6
  <2>4. \A i \in DOMAIN t.blocks :
          t.blocks[i].seq = t.next - 1 - (Len(t.blocks) - i)
    <3> TAKE i \in DOMAIN t.blocks
    <3>1. i \in 1 .. m + 1
      BY <1>7
    <3>2. t.blocks[i].seq = t.next - 1 - (m + 1 - i)
      BY <2>1, <3>1
    <3> QED
      BY <3>2, <1>7, <1>1, <1>6
  <2>5. \A i \in DOMAIN t.blocks : i > 1 => t.blocks[i - 1].ts <= t.blocks[i].ts
    BY <2>2, <1>7, Zenon
  <2> QED
    BY <2>4, <2>5, <2>3 DEF Dense
<1>10. \A i \in 1 .. m + 1 : t.blocks[i].id < n + 1
  <2>1. \A i \in 1 .. m : s.blocks[i].id \in Nat
    BY Blocks DEF m
  <2> QED
    BY <2>1, <1>2, <1>8, <1>1
<1>11. Increasing(t.blocks)
  <2>1. ASSUME NEW i \in 1 .. m + 1, NEW j \in 1 .. m + 1, i < j
        PROVE  t.blocks[i].id < t.blocks[j].id
    <3>1. i \in 1 .. m
      BY <2>1, <1>1
    <3>2. CASE j = m + 1
      BY <3>1, <3>2, <1>2, <1>8
    <3>3. CASE j \in 1 .. m
      BY <3>1, <3>3, <2>1, <1>2, <1>8, <1>1 DEF Increasing
    <3> QED
      BY <3>2, <3>3, <1>1
  <2> QED
    BY <2>1, <1>7 DEF Increasing
<1> QED
  BY <1>6, <1>7, <1>9, <1>10, <1>11 DEF Stocked, t

\* Where the loop of _adjust_flv_miniblock_cache_size stops: at the latest at
\* the last block.
LEMMA TrimStops ==
  ASSUME NEW s \in Store, Dense(s), s.blocks # << >>
  PROVE  LET i == CHOOSE i \in DOMAIN s.blocks :
                    Keeps(s, i) /\ \A j \in 1 .. i - 1 : ~Keeps(s, j)
         IN  i \in 1 .. Len(s.blocks)
<1> DEFINE m == Len(s.blocks)
           T == {k \in 1 .. m : Keeps(s, k)}
<1>1. m \in Nat \ {0} /\ DOMAIN s.blocks = 1 .. m
  BY Blocks
<1>2. s.blocks[m].ts \in Nat /\ s.blocks[m].seq \in Nat
  BY <1>1, Blocks
<1>3. Duration \in Nat /\ MaxSpan \in Nat
  BY FlvAssumption
<1>4. Keeps(s, m)
  BY <1>2, <1>3 DEF Keeps, Back
<1>5. T \in SUBSET Nat /\ T # {}
  BY <1>1, <1>4
<1>6. PICK i \in T : \A k \in T : i <= k
  BY <1>5, LeastNat
<1>7. ASSUME NEW j \in 1 .. i - 1 PROVE ~Keeps(s, j)
  <2>1. SUFFICES ASSUME Keeps(s, j) PROVE FALSE
    OBVIOUS
  <2>2. i \in 1 .. m
    BY <1>6
  <2>3. j \in T
    BY <1>1, <2>1, <2>2
  <2>4. i <= j
    BY <1>6, <2>3
  <2> QED
    BY <1>1, <2>2, <2>4
<1>8. i \in DOMAIN s.blocks /\ Keeps(s, i)
  BY <1>6, <1>1
<1>9. \E x \in DOMAIN s.blocks : Keeps(s, x) /\ \A j \in 1 .. x - 1 : ~Keeps(s, j)
  BY <1>7, <1>8
<1> QED
  BY <1>9, <1>1

\* Trimming drops a prefix that leaves the last block.
LEMMA TrimmedBlocks ==
  ASSUME NEW s \in Store, Dense(s)
  PROVE  LET t == Trimmed(s)
         IN  /\ t \in Store /\ t.next = s.next /\ t.quiet = s.quiet
             /\ \E k \in 0 .. Len(s.blocks) :
                  /\ Len(t.blocks) = Len(s.blocks) - k
                  /\ k = Len(s.blocks) => k = 0
                  /\ \A i \in 1 .. Len(t.blocks) : t.blocks[i] = s.blocks[i + k]
<1> DEFINE m == Len(s.blocks)
<1>1. m \in Nat /\ DOMAIN s.blocks = 1 .. m /\ s.blocks \in Seq(Block)
  BY Blocks
<1>2. CASE s.blocks = << >>
  <2>1. Trimmed(s) = s /\ m = 0
    BY <1>1, <1>2 DEF Trimmed
  <2>2. /\ Len(s.blocks) = Len(s.blocks) - 0
        /\ \A i \in 1 .. Len(s.blocks) : s.blocks[i] = s.blocks[i + 0]
    BY <2>1
  <2>3. 0 \in 0 .. Len(s.blocks)
    BY <2>1
  <2> HIDE DEF m
  <2> QED
    BY <2>1, <2>2, <2>3
<1>3. CASE s.blocks # << >>
  <2> DEFINE i == CHOOSE i \in DOMAIN s.blocks :
                    Keeps(s, i) /\ \A j \in 1 .. i - 1 : ~Keeps(s, j)
             q == SubSeq(s.blocks, i, m)
             t == Trimmed(s)
  <2>1. i \in 1 .. m
    BY <1>3, TrimStops
  <2>2. t = [s EXCEPT !.blocks = q]
    BY <1>3 DEF Trimmed
  <2> HIDE DEF i
  <2>3. \A x \in i .. m : s.blocks[x] \in Block
    BY <1>1, <2>1, Blocks
  <2>4. /\ q \in Seq(Block) /\ Len(q) = m - i + 1
        /\ \A x \in 1 .. m - i + 1 : q[x] = s.blocks[i + x - 1]
    BY <2>1, <2>3, <1>1, SubSeqProperties
  <2> HIDE DEF t, q, m
  <2>5. t \in Store /\ t.next = s.next /\ t.quiet = s.quiet /\ t.blocks = q
    BY <2>2, <2>4 DEF Store
  <2>6. i - 1 \in 0 .. m /\ i - 1 # m
    BY <1>1, <2>1
  <2>7. Len(t.blocks) = m - (i - 1)
    BY <2>4, <2>5, <1>1, <2>1
  <2>8. ASSUME NEW x \in 1 .. Len(t.blocks)
        PROVE  t.blocks[x] = s.blocks[x + (i - 1)]
    <3>1. x \in 1 .. m - i + 1
      BY <2>7, <1>1, <2>1
    <3>2. q[x] = s.blocks[i + x - 1] /\ i + x - 1 = x + (i - 1)
      BY <3>1, <2>4, <1>1, <2>1
    <3> QED
      BY <3>2, <2>5
  <2> QED
    BY <2>5, <2>6, <2>7, <2>8 DEF t, m
<1> QED
  BY <1>2, <1>3

\* What is left keeps the properties of the store.
LEMMA TrimmedIsStocked ==
  ASSUME NEW s \in Store, NEW n \in Nat, Stocked(s, n), s.quiet # StoreTicks
  PROVE  LET t == [Trimmed(s) EXCEPT !.quiet = @ + 1]
         IN  /\ Stocked(t, n) /\ t.next = s.next
             /\ t.blocks = << >> <=> s.blocks = << >>
             /\ \A i \in DOMAIN t.blocks : \E j \in DOMAIN s.blocks :
                  t.blocks[i] = s.blocks[j]
<1> DEFINE r == Trimmed(s)
           t == [r EXCEPT !.quiet = @ + 1]
           m == Len(s.blocks)
<1>1. m \in Nat /\ DOMAIN s.blocks = 1 .. m /\ s.blocks \in Seq(Block)
      /\ s.next \in Nat
  BY Blocks DEF Store
<1>2. /\ Dense(s) /\ Increasing(s.blocks)
      /\ \A i \in 1 .. m : s.blocks[i].id < n
  BY <1>1 DEF Stocked
<1>3. r \in Store /\ r.next = s.next /\ r.quiet = s.quiet
  BY <1>2, TrimmedBlocks
<1>4. PICK k \in 0 .. m :
        /\ Len(r.blocks) = m - k
        /\ k = m => k = 0
        /\ \A i \in 1 .. Len(r.blocks) : r.blocks[i] = s.blocks[i + k]
  BY <1>2, TrimmedBlocks
<1> HIDE DEF r
<1>5. t \in Store /\ t.next = s.next /\ t.blocks = r.blocks
  <2>1. StoreTicks \in Nat /\ r.quiet \in 0 .. StoreTicks
    BY <1>3, FlvAssumption DEF Store
  <2>2. r.quiet + 1 \in 0 .. StoreTicks
    BY <2>1, <1>3
  <2>3. t = [blocks |-> r.blocks, next |-> r.next, quiet |-> r.quiet + 1]
    <3>1. t = [r EXCEPT !.quiet = r.quiet + 1]
      BY Zenon
    <3> HIDE DEF t
    <3> QED
      BY <3>1, <1>3 DEF Store
  <2> HIDE DEF t
  <2> QED
    BY <2>2, <2>3, <1>3 DEF Store
<1> HIDE DEF t, m
<1>6. Len(t.blocks) = m - k /\ DOMAIN t.blocks = 1 .. m - k
  BY <1>4, <1>5, Blocks
<1>7. \A i \in 1 .. m - k : t.blocks[i] = s.blocks[i + k] /\ i + k \in 1 .. m
  BY <1>1, <1>4, <1>5
<1>8. t.blocks = << >> <=> s.blocks = << >>
  BY <1>1, <1>4, <1>5, <1>6, Blocks DEF m
<1>9. Dense(t)
  <2>1. ASSUME NEW i \in 1 .. m - k
        PROVE  t.blocks[i].seq = t.next - 1 - (m - k - i)
    <3>1. s.blocks[i + k].seq = s.next - 1 - (m - (i + k))
      BY <1>7, <1>2, <1>1 DEF Dense, m
    <3> QED
      BY <3>1, <1>7, <1>5, <1>1
  <2>2. ASSUME NEW i \in 1 .. m - k, i > 1
        PROVE  t.blocks[i - 1].ts <= t.blocks[i].ts
    <3>1. i - 1 \in 1 .. m - k /\ (i - 1) + k = (i + k) - 1 /\ i + k > 1
      BY <2>2, <1>1
    <3>2. s.blocks[(i + k) - 1].ts <= s.blocks[i + k].ts
      BY <1>7, <3>1, <1>2, <1>1 DEF Dense, m
    <3> QED
      BY <3>1, <3>2, <1>7
  <2>3. t.blocks = << >> => t.next = 0
    BY <1>8, <1>5, <1>2 DEF Dense
  <2>4. \A i \in DOMAIN t.blocks :
          t.blocks[i].seq = t.next - 1 - (Len(t.blocks) - i)
    BY <2>1, <1>6, <1>5, <1>1
  <2>5. \A i \in DOMAIN t.blocks : i > 1 => t.blocks[i - 1].ts <= t.blocks[i].ts
    BY <2>2, <1>6, Zenon
  <2> QED
    BY <2>4, <2>5, <2>3 DEF Dense
<1>10. Increasing(t.blocks)
  <2>1. ASSUME NEW i \in 1 .. m - k, NEW j \in 1 .. m - k, i < j
        PROVE  t.blocks[i].id < t.blocks[j].id
    <3>1. i + k \in 1 .. m /\ j + k \in 1 .. m /\ i + k < j + k
      BY <2>1, <1>7, <1>1
    <3>2. s.blocks[i + k].id < s.blocks[j + k].id
      BY <3>1, <1>2, <1>1 DEF Increasing
    <3> QED
      BY <3>2, <1>7
  <2> QED
    BY <2>1, <1>6 DEF Increasing
<1>11. \A i \in 1 .. m - k : t.blocks[i].id < n
  BY <1>7, <1>2
<1>12. Stocked(t, n)
  BY <1>5, <1>6, <1>9, <1>10, <1>11 DEF Stocked
<1>13. \A i \in DOMAIN t.blocks : \E j \in DOMAIN s.blocks : t.blocks[i] = s.blocks[j]
  BY <1>6, <1>7, <1>1
<1> QED
  BY <1>5, <1>8, <1>12, <1>13 DEF t, r

----------------------------------------------------------------------------
(* The players.                                                            *)

\* What copy_payload_to_buffer makes of c, field by field: of the blocks
\* i .. j only those up to k fit.
CopyOf(d, c, s, i, j) ==
  /\ d \in Conn
  /\ d.asked = c.asked /\ d.w = c.w /\ d.header = c.header
  /\ d.first = c.first /\ d.overuse = c.overuse
  /\ d.latest = s.blocks[j].seq
  /\ \E k \in i - 1 .. j :
       /\ c.wb < WbSize => k >= i
       /\ d.wb = c.wb + (k - i + 1)
       /\ Len(d.seen) = Len(c.seen) + (k - i + 1)
       /\ \A x \in 1 .. Len(c.seen) : d.seen[x] = c.seen[x]
       /\ \A x \in 1 .. k - i + 1 :
            d.seen[Len(c.seen) + x] = s.blocks[i + x - 1]

\* copy_payload_to_buffer, of any connection.
LEMMA CopiedFields ==
  ASSUME NEW c \in Conn, NEW s \in Store,
         NEW i \in DOMAIN s.blocks, NEW j \in DOMAIN s.blocks, i <= j,
         NEW d, d = Copied(c, s, i, j)
  PROVE  CopyOf(d, c, s, i, j)
<1> DEFINE m == Len(s.blocks)
           n == Len(c.seen)
           room == WbSize - c.wb
           k == IF room < j - i + 1 THEN i + room - 1 ELSE j
           q == SubSeq(s.blocks, i, k)
<1>1. m \in Nat /\ DOMAIN s.blocks = 1 .. m /\ i \in 1 .. m /\ j \in 1 .. m
  BY Blocks
<1>2. /\ c.wb \in 0 .. WbSize /\ WbSize \in Nat
      /\ c.seen \in Seq(Block) /\ n \in Nat
  BY FlvAssumption, LenProperties DEF Conn
<1>3. k \in i - 1 .. j /\ k \in Int
  BY <1>1, <1>2
<1>4. c.wb < WbSize => k >= i
  BY <1>1, <1>2
<1>5. c.wb + (k - i + 1) \in 0 .. WbSize
  BY <1>1, <1>2
<1> HIDE DEF k, room
<1>6. \A x \in i .. k : s.blocks[x] \in Block
  BY <1>1, <1>3, Blocks
<1>7. /\ q \in Seq(Block) /\ Len(q) = k - i + 1
      /\ \A x \in 1 .. k - i + 1 : q[x] = s.blocks[i + x - 1]
  <2>1. /\ q \in Seq(Block) /\ Len(q) = IF i <= k THEN k - i + 1 ELSE 0
        /\ \A x \in 1 .. k - i + 1 : q[x] = s.blocks[i + x - 1]
    BY <1>1, <1>3, <1>6, SubSeqProperties
  <2> HIDE DEF q
  <2> QED
    BY <2>1, <1>1, <1>3
<1>8. /\ c.seen \o q \in Seq(Block)
      /\ Len(c.seen \o q) = n + (k - i + 1)
      /\ \A x \in 1 .. n + (k - i + 1) : (c.seen \o q)[x] =
           IF x <= n THEN c.seen[x] ELSE q[x - n]
  BY <1>2, <1>7, ConcatProperties
<1>9. s.blocks[j].seq \in Int
  BY <1>1, Blocks
<1>10. d = [c EXCEPT !.wb = c.wb + (k - i + 1), !.latest = s.blocks[j].seq,
                     !.seen = c.seen \o q]
  BY Zenon DEF Copied, k, room
<1> HIDE DEF q, m, n
<1>11. /\ d \in Conn
       /\ d.asked = c.asked /\ d.w = c.w /\ d.header = c.header
       /\ d.first = c.first /\ d.overuse = c.overuse
       /\ d.latest = s.blocks[j].seq
       /\ d.wb = c.wb + (k - i + 1) /\ d.seen = c.seen \o q
  BY <1>5, <1>8, <1>9, <1>10 DEF Conn
<1>12. \A x \in 1 .. n : d.seen[x] = c.seen[x]
  <2> TAKE x \in 1 .. n
  <2>1. x \in 1 .. n + (k - i + 1) /\ x <= n
    BY <1>1, <1>2, <1>3
  <2> QED
    BY <2>1, <1>8, <1>11
<1>13. \A x \in 1 .. k - i + 1 : d.seen[n + x] = s.blocks[i + x - 1]
  <2> TAKE x \in 1 .. k - i + 1
  <2>1. n + x \in 1 .. n + (k - i + 1) /\ ~ (n + x <= n) /\ (n + x) - n = x
    BY <1>1, <1>2, <1>3
  <2>2. d.seen[n + x] = q[(n + x) - n]
    BY <2>1, <1>8, <1>11
  <2> QED
    BY <2>1, <2>2, <1>7
<1>14. Len(d.seen) = n + (k - i + 1)
  BY <1>8, <1>11
<1> QED
  BY <1>3, <1>4, <1>11, <1>12, <1>13, <1>14 DEF n, CopyOf

\* Facts about a store that the lemmas on players need, without its record.
LEMMA StockedFacts ==
  ASSUME NEW s, NEW n \in Nat, Stocked(s, n)
  PROVE  /\ s \in Store /\ Len(s.blocks) \in Nat
         /\ DOMAIN s.blocks = 1 .. Len(s.blocks)
         /\ \A x \in DOMAIN s.blocks :
              /\ s.blocks[x] \in Block /\ s.blocks[x].seq \in Nat
              /\ s.blocks[x].id \in Nat /\ s.blocks[x].id < n
         /\ \A x, y \in DOMAIN s.blocks : x < y =>
              /\ s.blocks[x].id < s.blocks[y].id
              /\ s.blocks[x].seq < s.blocks[y].seq
<1> DEFINE m == Len(s.blocks)
<1>1. /\ s \in Store /\ m \in Nat /\ DOMAIN s.blocks = 1 .. m
      /\ s.next \in Nat
  BY Blocks DEF Stocked, Store
<1>2. \A x \in 1 .. m : s.blocks[x] \in Block
                       /\ s.blocks[x].seq \in Nat /\ s.blocks[x].id \in Nat
  BY <1>1, Blocks
<1>3. ASSUME NEW x \in 1 .. m, NEW y \in 1 .. m, x < y
      PROVE  s.blocks[x].seq < s.blocks[y].seq
  <2>1. /\ s.blocks[x].seq = s.next - 1 - (m - x)
        /\ s.blocks[y].seq = s.next - 1 - (m - y)
    BY <1>1 DEF Stocked, Dense
  <2> HIDE DEF m
  <2> QED
    BY <2>1, <1>1, <1>3
<1> QED
  BY <1>1, <1>2, <1>3 DEF Stocked, Increasing

\* A player that copies on from behind its cursor, or begins at a key block,
\* still got every tag once and in order.
LEMMA CopiedStaysPlaying ==
  ASSUME NEW n \in Nat, NEW c \in Conn, NEW s, Stocked(s, n), s # None,
         Playing(c, n), Ahead(c, s), c.header, c.first,
         NEW i \in DOMAIN s.blocks, NEW j \in DOMAIN s.blocks, i <= j,
         c.seen # << >> => c.latest < s.blocks[i].seq,
         c.seen = << >> => s.blocks[i].key /\ c.wb < WbSize,
         NEW d, d = Copied(c, s, i, j)
  PROVE  /\ Playing(d, n) /\ Begun(d) /\ Ahead(d, s)
         /\ d.first /\ d.header /\ d.w = c.w /\ d.asked = c.asked
         /\ d.latest = s.blocks[j].seq
<1> DEFINE m == Len(s.blocks)
           l == Len(c.seen)
<1>1. /\ s \in Store /\ m \in Nat /\ DOMAIN s.blocks = 1 .. m
      /\ i \in 1 .. m /\ j \in 1 .. m
      /\ \A x \in 1 .. m :
           s.blocks[x].seq \in Nat /\ s.blocks[x].id \in Nat /\ s.blocks[x].id < n
      /\ \A x, y \in 1 .. m : x < y =>
           s.blocks[x].id < s.blocks[y].id /\ s.blocks[x].seq < s.blocks[y].seq
  BY StockedFacts
<1>1a. CopyOf(d, c, s, i, j)
  <2>1. s \in Store
    BY <1>1
  <2> QED
    BY <2>1, CopiedFields
<1>2. /\ d \in Conn
      /\ d.asked = c.asked /\ d.w = c.w /\ d.header = c.header
      /\ d.first = c.first /\ d.overuse = c.overuse
      /\ d.latest = s.blocks[j].seq
  BY <1>1a DEF CopyOf
<1>3. PICK k \in i - 1 .. j :
        /\ c.wb < WbSize => k >= i
        /\ d.wb = c.wb + (k - i + 1)
        /\ Len(d.seen) = l + (k - i + 1)
        /\ \A x \in 1 .. l : d.seen[x] = c.seen[x]
        /\ \A x \in 1 .. k - i + 1 : d.seen[l + x] = s.blocks[i + x - 1]
  BY <1>1a DEF CopyOf
<1>4. /\ l \in Nat /\ DOMAIN c.seen = 1 .. l /\ (c.seen = << >> <=> l = 0)
      /\ DOMAIN d.seen = 1 .. Len(d.seen) /\ (d.seen = << >> <=> Len(d.seen) = 0)
      /\ \A x \in 1 .. l : c.seen[x].id \in Nat
  <2>1. c.seen \in Seq(Block) /\ d.seen \in Seq(Block)
    BY <1>2 DEF Conn
  <2>2. \A x \in 1 .. l : c.seen[x] \in Block
    BY <2>1, ElementOfSeq
  <2> QED
    BY <2>1, <2>2, LenProperties, EmptySeq DEF Block
<1> HIDE DEF l, m
<1>5. /\ Increasing(c.seen) /\ \A x \in 1 .. l : c.seen[x].id < n
      /\ c.latest \in Int /\ ~c.overuse /\ c.asked = "flv"
  BY <1>4 DEF Playing, Conn
<1>5a. /\ k \in Int /\ i \in Int /\ j \in Int /\ m \in Int
       /\ i - 1 <= k /\ k <= j /\ 1 <= i /\ j <= m
  BY <1>1, <1>3
\* What is new is behind what was seen.
<1>6. ASSUME NEW x \in 1 .. l, NEW y \in i .. m
      PROVE  c.seen[x].id < s.blocks[y].id
  <2>1. y \in 1 .. m /\ (y = i \/ i < y)
    BY <1>1
  <2>2. c.latest < s.blocks[i].seq
    BY <1>4
  <2>3. s.blocks[y].seq > c.latest
    <3>1. s.blocks[i].seq \in Int /\ s.blocks[y].seq \in Int /\ c.latest \in Int
      BY <2>1, <1>1, <1>5
    <3>2. s.blocks[y].seq = s.blocks[i].seq \/ s.blocks[i].seq < s.blocks[y].seq
      BY <2>1, <1>1
    <3> QED
      BY <3>1, <3>2, <2>2
  <2> QED
    BY <2>1, <2>3, <1>1, <1>4 DEF Ahead
\* A block of the player is an old one or one of i .. k.
<1>7. ASSUME NEW x \in DOMAIN d.seen
      PROVE  \/ x \in 1 .. l /\ d.seen[x] = c.seen[x]
             \/ /\ x - l \in 1 .. k - i + 1 /\ i + (x - l) - 1 \in i .. m
                /\ i + (x - l) - 1 \in 1 .. j
                /\ d.seen[x] = s.blocks[i + (x - l) - 1]
  <2>1. x \in 1 .. l + (k - i + 1)
    BY <1>3, <1>4
  <2>2. CASE x \in 1 .. l
    BY <2>2, <1>3
  <2>3. CASE x \notin 1 .. l
    <3>1. x - l \in 1 .. k - i + 1 /\ l + (x - l) = x
      BY <2>1, <2>3, <1>5a, <1>4
    <3>2. d.seen[l + (x - l)] = s.blocks[i + (x - l) - 1]
      BY <3>1, <1>3
    <3>3. i + (x - l) - 1 \in i .. m /\ i + (x - l) - 1 \in 1 .. j
      <4>1. \A z \in 1 .. k - i + 1 : i + z - 1 \in i .. m /\ i + z - 1 \in 1 .. j
        BY <1>5a
      <4> QED
        BY <4>1, <3>1, Zenon
    <3> QED
      BY <3>1, <3>2, <3>3
  <2> QED
    BY <2>2, <2>3
<1>8. Increasing(d.seen)
  <2>1. ASSUME NEW x \in DOMAIN d.seen, NEW y \in DOMAIN d.seen, x < y
        PROVE  d.seen[x].id < d.seen[y].id
    <3>1. x \in Int /\ y \in Int
      BY <1>4, <1>3, <1>1
    <3>2. CASE x \in 1 .. l /\ d.seen[x] = c.seen[x]
      <4>1. CASE y \in 1 .. l /\ d.seen[y] = c.seen[y]
        BY <3>2, <4>1, <2>1, <1>4, <1>5 DEF Increasing
      <4>2. CASE ~ (y \in 1 .. l /\ d.seen[y] = c.seen[y])
        <5>1. /\ i + (y - l) - 1 \in i .. m
              /\ d.seen[y] = s.blocks[i + (y - l) - 1]
          BY <4>2, <1>7
        <5> QED
          BY <5>1, <3>2, <1>6
      <4> QED
        BY <4>1, <4>2
    <3>3. CASE ~ (x \in 1 .. l /\ d.seen[x] = c.seen[x])
      <4>1. /\ x - l \in 1 .. k - i + 1 /\ i + (x - l) - 1 \in 1 .. j
            /\ d.seen[x] = s.blocks[i + (x - l) - 1]
        BY <3>3, <1>7
      <4>2. y \notin 1 .. l
        BY <4>1, <2>1, <3>1, <1>4
      <4>3. /\ i + (y - l) - 1 \in 1 .. j
            /\ d.seen[y] = s.blocks[i + (y - l) - 1]
        BY <4>2, <1>7
      <4>4. i + (x - l) - 1 < i + (y - l) - 1
        BY <2>1, <3>1, <1>1, <1>4
      <4>5. \A z \in 1 .. j : z \in 1 .. m
        BY <1>1
      <4>6. i + (x - l) - 1 \in 1 .. m /\ i + (y - l) - 1 \in 1 .. m
        BY <4>1, <4>3, <4>5, Zenon
      <4> QED
        BY <4>1, <4>3, <4>4, <4>6, <1>1
    <3> QED
      BY <3>2, <3>3
  <2> QED
    BY <2>1 DEF Increasing
<1>9. \A x \in DOMAIN d.seen : d.seen[x].id < n
  <2> TAKE x \in DOMAIN d.seen
  <2>1. CASE x \in 1 .. l /\ d.seen[x] = c.seen[x]
    BY <2>1, <1>5
  <2>2. CASE ~ (x \in 1 .. l /\ d.seen[x] = c.seen[x])
    <3>1. i + (x - l) - 1 \in 1 .. m /\ d.seen[x] = s.blocks[i + (x - l) - 1]
      BY <2>2, <1>7, <1>1
    <3> QED
      BY <3>1, <1>1
  <2> QED
    BY <2>1, <2>2
<1>10. d.seen # << >> /\ d.seen[1].key
  <2>1. CASE c.seen # << >>
    <3>1. 1 \in 1 .. l
      BY <2>1, <1>4
    <3>2. d.seen[1] = c.seen[1] /\ c.seen[1].key
      BY <2>1, <3>1, <1>3 DEF Playing
    <3>3. Len(d.seen) # 0
      BY <3>1, <1>1, <1>3, <1>4
    <3> QED
      BY <3>2, <3>3, <1>4
  <2>2. CASE c.seen = << >>
    <3>1. k >= i /\ l = 0 /\ s.blocks[i].key
      BY <2>2, <1>3, <1>4
    <3>2. 1 \in 1 .. k - i + 1 /\ l + 1 = 1 /\ i + 1 - 1 = i
      BY <3>1, <1>1, <1>3
    <3>3. d.seen[l + 1] = s.blocks[i + 1 - 1]
      BY <3>2, <1>3
    <3>4. Len(d.seen) # 0
      BY <3>1, <1>1, <1>3
    <3> QED
      BY <3>1, <3>2, <3>3, <3>4, <1>4
  <2> QED
    BY <2>1, <2>2
<1>11. Ahead(d, s)
  <2>1. ASSUME NEW y \in 1 .. m, NEW x \in DOMAIN d.seen,
               s.blocks[y].seq > d.latest
        PROVE  d.seen[x].id < s.blocks[y].id
    <3>1. j < y
      <4>1. ~ (y = j)
        BY <2>1, <1>1, <1>2
      <4>2. ~ (y < j)
        BY <2>1, <1>1, <1>2
      <4> QED
        BY <4>1, <4>2, <1>1
    <3>2. CASE x \in 1 .. l /\ d.seen[x] = c.seen[x]
      <4>1. y \in i .. m
        BY <3>1, <1>1
      <4> QED
        BY <3>2, <4>1, <1>6
    <3>3. CASE ~ (x \in 1 .. l /\ d.seen[x] = c.seen[x])
      <4>1. i + (x - l) - 1 \in 1 .. j /\ d.seen[x] = s.blocks[i + (x - l) - 1]
        BY <3>3, <1>7
      <4>2. i + (x - l) - 1 \in 1 .. m /\ i + (x - l) - 1 < y
        BY <4>1, <3>1, <1>1
      <4> QED
        BY <4>1, <4>2, <1>1
    <3> QED
      BY <3>2, <3>3
  <2> QED
    BY <2>1, <1>1 DEF Ahead
<1>12. d.latest >= -1
  BY <1>1, <1>2
<1>13. Playing(d, n)
  BY <1>2, <1>5, <1>8, <1>9, <1>10, <1>12 DEF Playing
<1>14. Begun(d) /\ d.first /\ d.header
  BY <1>2, <1>10 DEF Begun
<1> QED
  BY <1>2, <1>11, <1>13, <1>14

\* The loop of OnWrite: a player that has begun gets all that is behind its
\* cursor, and its cursor stays within reach of the store.
LEMMA CaughtUpStaysPlaying ==
  ASSUME tags \in Nat, store # None, Stocked(store, tags),
         NEW c \in Conn, Playing(c, tags), Begun(c), Ahead(c, store),
         c.header, c.first
  PROVE  LET d == CaughtUp(c)
         IN  /\ Playing(d, tags) /\ Begun(d) /\ Ahead(d, store)
             /\ d.first /\ d.header /\ d.w = c.w /\ d.asked = c.asked
             /\ Drained(d, store)
             /\ InReach(c, store) => InReach(d, store)
<1> DEFINE m == Len(store.blocks)
           i == IndexOf(store, c.latest + 1)
           d == CaughtUp(c)
<1>1. /\ store \in Store /\ m \in Nat /\ DOMAIN store.blocks = 1 .. m
      /\ c.latest \in Int
  BY StockedFacts DEF Conn
<1>2. CASE ~Holds(store, c.latest + 1)
  <2>1. d = c
    BY <1>2 DEF CaughtUp
  <2> HIDE DEF d
  <2> QED
    BY <2>1, <1>2 DEF d, Drained
<1>3. CASE Holds(store, c.latest + 1)
  <2>1. store.blocks # << >>
    BY <1>3 DEF Holds
  <2>2. /\ m \in Nat \ {0} /\ store.next \in Nat
        /\ Back(store).seq = store.next - 1
        /\ Front(store).seq = store.next - m
        /\ \A x \in 1 .. m : store.blocks[x].seq = store.next - 1 - (m - x)
    BY <2>1, <1>1, Numbers DEF Stocked
  <2>3. /\ store.next - m <= c.latest + 1 /\ c.latest + 1 <= store.next - 1
        /\ i = ((c.latest + 1) - (store.next - m)) + 1
    <3>1. Front(store).seq <= c.latest + 1 /\ c.latest + 1 <= Back(store).seq
      BY <1>3 DEF Holds
    <3>2. Front(store).seq = store.next - m /\ Back(store).seq = store.next - 1
      BY <2>2
    <3>3. i = ((c.latest + 1) - Front(store).seq) + 1
      BY DEF IndexOf
    <3> HIDE DEF m, i
    <3> QED
      BY <3>1, <3>2, <3>3
  <2>4. i \in 1 .. m
    <3> HIDE DEF i, m
    <3> QED
      BY <2>2, <2>3, <1>1
  <2>5. i \in DOMAIN store.blocks /\ m \in DOMAIN store.blocks /\ i <= m
    <3> HIDE DEF i, m
    <3> QED
      BY <2>2, <2>4, <1>1
  <2>6. store.blocks[i].seq = c.latest + 1
    <3> HIDE DEF i, m
    <3>1. store.blocks[i].seq = store.next - 1 - (m - i)
      BY <2>2, <2>4
    <3>2. i = ((c.latest + 1) - (store.next - m)) + 1 /\ store.next \in Int /\ m \in Int
      BY <2>2, <2>3
    <3>3. store.next - 1 - (m - i) = c.latest + 1
      <4>1. i \in Int /\ c.latest \in Int
        BY <2>4, <1>1
      <4> QED
        BY <4>1, <3>2
    <3> QED
      BY <3>1, <3>3
  <2>7. d = Copied(c, store, i, m)
    BY <1>3 DEF CaughtUp
  <2>8. c.latest < store.blocks[i].seq
    BY <2>6, <1>1
  <2>9. c.seen # << >>
    BY DEF Begun
  <2>10. /\ Playing(d, tags) /\ Begun(d) /\ Ahead(d, store)
         /\ d.first /\ d.header /\ d.w = c.w /\ d.asked = c.asked
         /\ d.latest = store.blocks[m].seq
    <3> HIDE DEF i, m, d
    <3> QED
      BY <1>1, <2>5, <2>7, <2>8, <2>9, CopiedStaysPlaying
  <2>11. d.latest = store.next - 1
    <3>1. m \in 1 .. m /\ store.next - 1 - (m - m) = store.next - 1
      BY <2>2
    <3>2. store.blocks[m].seq = store.next - 1 - (m - m)
      BY <3>1, <2>2
    <3> HIDE DEF m, d
    <3> QED
      BY <2>10, <3>1, <3>2
  <2> HIDE DEF d, i, m
  <2>12. ~Holds(store, d.latest + 1)
    BY <2>2, <2>11 DEF Holds
  <2>13. Drained(d, store)
    BY <2>10, <2>12 DEF Drained
  <2>14. InReach(d, store)
    BY <2>2, <2>11 DEF InReach
  <2> QED
    BY <2>10, <2>13, <2>14 DEF d
<1> QED
  BY <1>2, <1>3

\* The branch for a full buffer is dead: wb cannot hold more than the limit.
LEMMA NeverOverused ==
  ASSUME WbFits, NEW c \in Conn, ~c.overuse
  PROVE  /\ ~Overused(c)
         /\ [c EXCEPT !.overuse = Overused(c),
                      !.first = c.first /\ c.wb <= OveruseSize] = c
<1>1. c.wb \in 0 .. WbSize /\ WbSize \in Nat /\ OveruseSize \in Nat
      /\ c.first \in BOOLEAN /\ c.overuse \in BOOLEAN
  BY FlvAssumption DEF Conn
<1>2. c.wb <= OveruseSize /\ ~ (c.wb > OveruseSize)
  BY <1>1 DEF WbFits
<1>3. Overused(c) <=> FALSE
  BY <1>2 DEF Overused
<1>4. Overused(c) \in BOOLEAN
  BY <1>3 DEF Overused
<1>5. Overused(c) = c.overuse
  BY <1>1, <1>3, <1>4
<1>6. (c.first /\ c.wb <= OveruseSize) = c.first
  BY <1>1, <1>2
<1>7. [c EXCEPT !.overuse = c.overuse, !.first = c.first] = c
  BY DEF Conn
<1> QED
  BY <1>3, <1>5, <1>6, <1>7, Zenon

\* FlvLivePlayer::OnWrite behind the header: the player is left with all the
\* cache can give it.
LEMMA FedStaysPlaying ==
  ASSUME WbFits, tags \in Nat, store # None => Stocked(store, tags),
         NEW c \in Conn, Playing(c, tags), Begun(c), Ahead(c, store), c.header,
         NEW d, d = Fed(c)
  PROVE  /\ Playing(d, tags) /\ Begun(d) /\ Ahead(d, store)
         /\ d.header /\ d.w = c.w /\ d.asked = c.asked
         /\ Drained(d, store)
         /\ InReach(c, store) => InReach(d, store)
<1>1. ~c.overuse
  BY DEF Playing
<1>2. d = IF c.overuse \/ store = None THEN c
          ELSE IF c.first THEN CaughtUp(c)
          ELSE IF KeyAt(store) = {} THEN c
          ELSE CaughtUp(Copied([c EXCEPT !.first = TRUE],
                               store, LatestKey(store), LatestKey(store)))
  BY <1>1, NeverOverused, Zenon DEF Fed
<1>3. CASE store = None
  BY <1>2, <1>3 DEF Drained
<1>4. CASE store # None /\ c.first
  <2>1. d = CaughtUp(c)
    BY <1>1, <1>2, <1>4
  <2>2. Stocked(store, tags)
    BY <1>4
  <2> QED
    BY <2>1, <2>2, <1>4, CaughtUpStaysPlaying
<1>5. CASE store # None /\ ~c.first /\ KeyAt(store) = {}
  <2>1. d = c
    BY <1>1, <1>2, <1>5
  <2> QED
    BY <2>1, <1>5 DEF Drained
<1>6. CASE store # None /\ ~c.first /\ KeyAt(store) # {}
  <2> DEFINE e == [c EXCEPT !.first = TRUE]
             i == LatestKey(store)
             f == Copied(e, store, i, i)
  <2>1. d = CaughtUp(f)
    BY <1>1, <1>2, <1>6
  <2>2. Stocked(store, tags) /\ store \in Store
    BY <1>6, StockedFacts
  <2>3. i \in DOMAIN store.blocks /\ store.blocks[i].key
    BY <1>6, <2>2, LatestKeyIsKey
  <2>4. /\ e \in Conn /\ e.asked = c.asked /\ e.w = c.w /\ e.header = c.header
        /\ e.first = TRUE /\ e.wb = c.wb /\ e.overuse = c.overuse
        /\ e.latest = c.latest /\ e.seen = c.seen
    BY DEF Conn
  <2>5. c.seen = << >> /\ c.wb < WbSize
    <3>1. c.wb <= 1 /\ c.wb \in Nat
      BY <1>6 DEF Playing, Conn
    <3>2. WbSize \in Nat \ {0, 1}
      BY FlvAssumption
    <3> QED
      BY <1>6, <3>1, <3>2 DEF Begun
  <2> HIDE DEF e, i
  <2>6. Playing(e, tags) /\ Ahead(e, store)
    BY <2>4 DEF Playing, Ahead
  <2>7. i <= i
    BY <2>2, <2>3, StockedFacts
  <2>8. /\ Playing(f, tags) /\ Begun(f) /\ Ahead(f, store)
        /\ f.first /\ f.header /\ f.w = e.w /\ f.asked = e.asked
        /\ f.latest = store.blocks[i].seq
    <3>1. /\ e.seen # << >> => e.latest < store.blocks[i].seq
          /\ e.seen = << >> => store.blocks[i].key /\ e.wb < WbSize
          /\ e.header /\ e.first
      BY <2>3, <2>4, <2>5
    <3> HIDE DEF f
    <3>2. f = Copied(e, store, i, i)
      BY DEF f
    <3> QED
      BY <1>6, <2>2, <2>3, <2>4, <2>6, <2>7, <3>1, <3>2, CopiedStaysPlaying
  <2> HIDE DEF f
  <2>9. f \in Conn
    BY <2>8 DEF Playing
  <2>10. InReach(f, store)
    <3>1. store.blocks # << >> /\ i \in 1 .. Len(store.blocks)
      BY <2>2, <2>3, Blocks
    <3>2. Front(store).seq <= store.blocks[i].seq
      <4>1. 1 \in DOMAIN store.blocks /\ (i = 1 \/ 1 < i)
        BY <2>2, <2>3, <3>1, StockedFacts
      <4> QED
        BY <4>1, <2>2, <2>3, StockedFacts DEF Front
    <3>3. Front(store).seq \in Nat /\ store.blocks[i].seq \in Nat
      BY <2>2, <3>1, Blocks DEF Front
    <3> QED
      BY <2>8, <3>2, <3>3 DEF InReach
  <2> QED
    BY <2>1, <2>2, <2>4, <2>8, <2>9, <2>10, <1>6, CaughtUpStaysPlaying
<1> QED
  BY <1>3, <1>4, <1>5, <1>6

\* OnWrite of any connection: one that has its header is left drained, and
\* only one without a header goes to sleep in it.
LEMMA ServedStaysPlaying ==
  ASSUME WbFits, tags \in Nat, store # None => Stocked(store, tags),
         NEW c \in Conn, Playing(c, tags), Begun(c), Ahead(c, store),
         NEW d, d = Served(c)
  PROVE  /\ Playing(d, tags) /\ Begun(d) /\ Ahead(d, store)
         /\ d.asked = c.asked
         /\ d.header => d.w = c.w /\ Drained(d, store)
         /\ InReach(c, store) => InReach(d, store)
<1>1. /\ c.wb \in 0 .. WbSize /\ WbSize \in Nat \ {0, 1}
      /\ c.header \in BOOLEAN
  BY FlvAssumption DEF Conn
<1>2. CASE c.asked = "flv" /\ c.header
  <2>1. d = Fed(c)
    BY <1>2 DEF Served, OnWrite
  <2> QED
    BY <1>2, <2>1, FedStaysPlaying
<1>3. CASE c.asked = "flv" /\ ~c.header /\ HasHeader
  <2> DEFINE e == [c EXCEPT !.header = TRUE, !.wb = c.wb + 1]
  <2>1. d = Fed(e)
    BY <1>3, Zenon DEF Served, OnWrite
  <2>2. c.wb = 0 /\ ~c.first
    BY <1>3 DEF Playing
  <2>3. c.wb + 1 \in 0 .. WbSize /\ c.wb + 1 = 1
    BY <1>1, <2>2
  <2>4. /\ e \in Conn /\ e.asked = c.asked /\ e.w = c.w /\ e.header = TRUE
        /\ e.first = c.first /\ e.wb = 1 /\ e.overuse = c.overuse
        /\ e.latest = c.latest /\ e.seen = c.seen
    BY <2>3 DEF Conn
  <2> HIDE DEF e
  <2>5. Playing(e, tags) /\ Begun(e) /\ Ahead(e, store)
    BY <1>3, <2>2, <2>4 DEF Playing, Begun, Ahead
  <2>6. InReach(e, store)
    BY <2>2, <2>4 DEF InReach
  <2> QED
    BY <2>1, <2>4, <2>5, <2>6, FedStaysPlaying
<1>4. CASE c.asked = "flv" /\ ~c.header /\ ~HasHeader
  <2>1. d = [c EXCEPT !.w = FALSE]
    BY <1>4 DEF Served, OnWrite
  <2>2. /\ d \in Conn /\ d.asked = c.asked /\ d.header = c.header
        /\ d.first = c.first /\ d.wb = c.wb /\ d.overuse = c.overuse
        /\ d.latest = c.latest /\ d.seen = c.seen
    BY <2>1 DEF Conn
  <2> QED
    BY <1>4, <2>2 DEF Playing, Begun, Ahead, InReach
<1>5. CASE c.asked # "flv"
  <2>1. ~c.header /\ ~c.first
    BY <1>5 DEF Playing
  <2>2. CASE c.asked = "crossdomain" /\ c.wb < WbSize
    <3>1. d = [c EXCEPT !.wb = c.wb + 1]
      BY <2>2 DEF Served, Answered
    <3>2. c.wb + 1 \in 0 .. WbSize
      BY <1>1, <2>2
    <3>3. /\ d \in Conn /\ d.asked = c.asked /\ d.header = c.header
          /\ d.first = c.first /\ d.overuse = c.overuse
          /\ d.latest = c.latest /\ d.seen = c.seen
      BY <3>1, <3>2 DEF Conn
    <3> QED
      BY <2>1, <2>2, <3>3 DEF Playing, Begun, Ahead, InReach
  <2>3. CASE ~ (c.asked = "crossdomain" /\ c.wb < WbSize)
    <3>1. d = c
      BY <1>5, <2>3 DEF Served, Answered
    <3> QED
      BY <2>1, <3>1
  <2> QED
    BY <2>2, <2>3
<1> QED
  BY <1>2, <1>3, <1>4, <1>5

\* A connection that asks for nothing any more: after accept, and closed.
LEMMA FreshIsPlayer ==
  ASSUME NEW s, NEW n, NEW c \in {NewConn, Closed}
  PROVE  c \in Conn /\ Player(c, s, n) /\ ~c.first
<1>1. PICK a \in {"nothing", "closed"}, w \in BOOLEAN :
        c = [asked |-> a, w |-> w, wb |-> 0, header |-> FALSE,
             first |-> FALSE, overuse |-> FALSE, latest |-> -1, seen |-> << >>]
  <2>1. Closed = [asked |-> "closed", w |-> FALSE, wb |-> 0, header |-> FALSE,
                  first |-> FALSE, overuse |-> FALSE, latest |-> -1, seen |-> << >>]
    <3>1. NewConn = [asked |-> "nothing", w |-> TRUE, wb |-> 0, header |-> FALSE,
                     first |-> FALSE, overuse |-> FALSE, latest |-> -1, seen |-> << >>]
      BY DEF NewConn
    <3>2. Closed = [NewConn EXCEPT !.asked = "closed", !.w = FALSE]
      BY DEF Closed
    <3> QED
      BY <3>1, <3>2
  <2>2. CASE c = Closed
    BY <2>1, <2>2
  <2>3. CASE c = NewConn
    BY <2>3 DEF NewConn
  <2> QED
    BY <2>2, <2>3
<1>2. 0 \in 0 .. WbSize /\ << >> \in Seq(Block) /\ DOMAIN << >> = {}
  BY FlvAssumption, EmptySeq
<1>3. -1 \in Int /\ a \in {"closed", "nothing", "error", "crossdomain", "flv"}
  OBVIOUS
<1>4. c \in Conn
  BY <1>1, <1>2, <1>3 DEF Conn
<1>5. /\ c.asked \in {"nothing", "closed"} /\ c.wb = 0
      /\ ~c.header /\ ~c.first /\ ~c.overuse
      /\ c.latest = -1 /\ c.seen = << >>
  BY <1>1
<1>6. Playing(c, n)
  BY <1>2, <1>4, <1>5 DEF Playing, Increasing
<1> QED
  BY <1>2, <1>4, <1>5, <1>6 DEF Player, Begun, Ahead, Asleep

\* A write event, whatever the socket takes: a player that goes to sleep has
\* an empty buffer and all the cache can give it.
LEMMA WrittenIsPlayer ==
  ASSUME WbFits, tags \in Nat, store # None => Stocked(store, tags),
         NEW c \in Conn, Player(c, store, tags), c.w,
         NEW n \in Nat, n <= Served(c).wb, NEW x, x = Sent(Served(c), n)
  PROVE  /\ x \in Conn /\ Player(x, store, tags)
         /\ InReach(c, store) => InReach(x, store)
<1> DEFINE d == Served(c)
<1>1. /\ Playing(d, tags) /\ Begun(d) /\ Ahead(d, store)
      /\ d.header => d.w = c.w /\ Drained(d, store)
      /\ InReach(c, store) => InReach(d, store)
  BY ServedStaysPlaying DEF Player
<1>2. d \in Conn /\ d.wb \in 0 .. WbSize /\ WbSize \in Nat
  BY <1>1, FlvAssumption DEF Playing, Conn
<1>3. x = Sent(d, n) /\ n <= d.wb
  OBVIOUS
<1> HIDE DEF d
<1>4. CASE d.wb > n
  <2>1. x = [d EXCEPT !.wb = d.wb - n]
    BY <1>3, <1>4 DEF Sent
  <2>2. d.wb - n \in 0 .. WbSize /\ d.wb - n <= d.wb /\ d.wb # 0
    BY <1>2, <1>4
  <2>3. /\ x \in Conn /\ x.asked = d.asked /\ x.w = d.w /\ x.header = d.header
        /\ x.first = d.first /\ x.wb = d.wb - n /\ x.overuse = d.overuse
        /\ x.latest = d.latest /\ x.seen = d.seen
    BY <2>1, <2>2, <1>2 DEF Conn
  <2>4. ASSUME d.wb <= 1 PROVE d.wb - n <= 1
    BY <1>2, <2>4
  <2>5. Playing(x, tags)
    BY <1>1, <2>2, <2>3, <2>4 DEF Playing
  <2>6. Begun(x) /\ Ahead(x, store) /\ (InReach(d, store) => InReach(x, store))
    BY <1>1, <2>3 DEF Begun, Ahead, InReach
  <2>7. Asleep(x, store)
    BY <1>1, <2>3 DEF Asleep
  <2> QED
    BY <1>1, <2>3, <2>5, <2>6, <2>7 DEF Player
<1>5. CASE ~(d.wb > n) /\ d.asked = "error"
  <2>1. x = Closed
    BY <1>3, <1>5 DEF Sent
  <2>2. x \in Conn /\ Player(x, store, tags) /\ ~x.first
    BY <2>1, FreshIsPlayer
  <2> QED
    BY <2>2 DEF InReach
<1>6. CASE ~(d.wb > n) /\ d.asked # "error"
  <2>1. x = [d EXCEPT !.wb = 0, !.w = FALSE]
    BY <1>3, <1>6 DEF Sent
  <2>2. 0 \in 0 .. WbSize
    BY <1>2
  <2>3. /\ x \in Conn /\ x.asked = d.asked /\ x.w = FALSE /\ x.header = d.header
        /\ x.first = d.first /\ x.wb = 0 /\ x.overuse = d.overuse
        /\ x.latest = d.latest /\ x.seen = d.seen
    BY <2>1, <2>2, <1>2 DEF Conn
  <2>4. Playing(x, tags)
    BY <1>1, <2>3 DEF Playing
  <2>5. Begun(x) /\ Ahead(x, store) /\ (InReach(d, store) => InReach(x, store))
    BY <1>1, <2>3 DEF Begun, Ahead, InReach
  <2>6. Asleep(x, store)
    BY <1>1, <2>3 DEF Asleep, Drained
  <2> QED
    BY <1>1, <2>3, <2>4, <2>5, <2>6 DEF Player
<1> QED
  BY <1>4, <1>5, <1>6

\* The write event of every player is watched after a notification.
LEMMA NotifiedIsPlayer ==
  ASSUME NEW n \in Nat, NEW k \in Nat, n <= k, NEW s,
         NEW c \in Conn, Playing(c, n), Begun(c), Ahead(c, s),
         NEW d, d = IF c.asked = "flv" THEN [c EXCEPT !.w = TRUE] ELSE c
  PROVE  /\ d \in Conn /\ Player(d, s, k)
         /\ InReach(c, s) => InReach(d, s)
<1>1. /\ d \in Conn /\ d.asked = c.asked /\ d.header = c.header
      /\ d.first = c.first /\ d.wb = c.wb /\ d.overuse = c.overuse
      /\ d.latest = c.latest /\ d.seen = c.seen
      /\ c.asked = "flv" => d.w
  <2>1. CASE c.asked = "flv"
    BY <2>1 DEF Conn
  <2>2. CASE c.asked # "flv"
    BY <2>2
  <2> QED
    BY <2>1, <2>2
<1>2. \A i \in DOMAIN c.seen : c.seen[i].id < k
  <2> TAKE i \in DOMAIN c.seen
  <2>1. c.seen \in Seq(Block)
    BY DEF Conn
  <2>2. c.seen[i].id \in Nat
    <3>1. i \in 1 .. Len(c.seen)
      BY <2>1, LenProperties
    <3>2. c.seen[i] \in Block
      BY <2>1, <3>1, ElementOfSeq
    <3> QED
      BY <3>2 DEF Block
  <2>3. c.seen[i].id < n
    BY DEF Playing
  <2> QED
    BY <2>2, <2>3
<1>3. Playing(d, k)
  BY <1>1, <1>2 DEF Playing
<1>4. Begun(d) /\ Ahead(d, s) /\ (InReach(c, s) => InReach(d, s))
  BY <1>1 DEF Begun, Ahead, InReach
<1>5. Asleep(d, s)
  BY <1>1 DEF Asleep
<1> QED
  BY <1>1, <1>3, <1>4, <1>5 DEF Player

\* A new tag is ahead of every player, and within its reach.
LEMMA TagIsAhead ==
  ASSUME NEW s, NEW n \in Nat, Stocked(s, n), s # None,
         NEW t, Stocked(t, n + 1), NEW b \in Block, b.id = n, b.seq = s.next,
         t.blocks = Append(s.blocks, b),
         NEW c \in Conn, Playing(c, n), Ahead(c, s)
  PROVE  Ahead(c, t) /\ (InReach(c, s) => InReach(c, t))
<1> DEFINE m == Len(s.blocks)
<1>1. s \in Store /\ s.blocks \in Seq(Block) /\ m \in Nat /\ DOMAIN s.blocks = 1 .. m
  BY StockedFacts, Blocks
<1>2. /\ Len(t.blocks) = m + 1
      /\ \A i \in 1 .. m : t.blocks[i] = s.blocks[i]
      /\ t.blocks[m + 1] = b
  BY <1>1, AppendProperties
<1>3. DOMAIN t.blocks = 1 .. m + 1
  BY <1>2, StockedFacts
<1> HIDE DEF m
<1>4. \A j \in DOMAIN c.seen : c.seen[j].id < n
  BY DEF Playing
<1>5. Ahead(c, t)
  <2>1. ASSUME NEW i \in 1 .. m + 1, NEW j \in DOMAIN c.seen, t.blocks[i].seq > c.latest
        PROVE  c.seen[j].id < t.blocks[i].id
    <3>1. CASE i = m + 1
      BY <3>1, <1>2, <1>4
    <3>2. CASE i \in 1 .. m
      BY <3>2, <2>1, <1>1, <1>2 DEF Ahead
    <3> QED
      BY <3>1, <3>2, <1>1
  <2> QED
    BY <2>1, <1>3 DEF Ahead
<1>6. ASSUME InReach(c, s), c.first PROVE Front(t).seq <= c.latest + 1
  <2>1. CASE s.blocks = << >>
    <3>1. m = 0 /\ s.next = 0
      BY <1>1, <2>1, Blocks DEF m, Stocked, Dense
    <3>2. t.blocks[1].seq = 0
      BY <3>1, <1>2
    <3>3. c.latest \in Int /\ c.latest >= -1
      BY DEF Playing, Conn
    <3> QED
      BY <3>2, <3>3 DEF Front
  <2>2. CASE s.blocks # << >>
    <3>1. 1 \in 1 .. m
      BY <1>1, <2>2, Blocks DEF m
    <3>2. t.blocks[1] = s.blocks[1]
      BY <3>1, <1>2
    <3> QED
      BY <3>2, <1>6, <2>2 DEF Front, InReach
  <2> QED
    BY <2>1, <2>2
<1> QED
  BY <1>5, <1>6 DEF InReach

\* Trimming takes nothing from a player that has it still to send, nor moves
\* the store out of the reach of one that waits.
LEMMA TrimmedForPlayer ==
  ASSUME NEW n \in Nat, NEW s, Stocked(s, n), s # None,
         NEW t, Stocked(t, n), t.next = s.next,
         t.blocks = << >> <=> s.blocks = << >>,
         \A i \in DOMAIN t.blocks : \E j \in DOMAIN s.blocks :
           t.blocks[i] = s.blocks[j],
         NEW c \in Conn, Player(c, s, n)
  PROVE  /\ Player(c, t, n)
         /\ c.asked = "flv" /\ ~c.w /\ InReach(c, s) => InReach(c, t)
<1>1. s \in Store /\ t \in Store /\ Dense(s) /\ Dense(t) /\ c.latest \in Int
  BY DEF Stocked, Conn
<1>2. Ahead(c, t)
  BY DEF Ahead, Player
<1>3. KeyAt(s) = {} => KeyAt(t) = {}
  BY DEF KeyAt
<1>4. ASSUME t.blocks # << >>
      PROVE  /\ s.blocks # << >> /\ Back(t).seq = Back(s).seq
             /\ Front(s).seq <= Front(t).seq /\ Front(t).seq <= Back(t).seq
             /\ {Front(s).seq, Front(t).seq, Back(t).seq} \subseteq Int
  <2> DEFINE ls == Len(s.blocks)
             lt == Len(t.blocks)
  <2>1. /\ s.next \in Nat /\ ls \in Nat \ {0} /\ lt \in Nat \ {0}
        /\ Back(t).seq = t.next - 1 /\ Front(t).seq = t.next - lt
        /\ Back(s).seq = s.next - 1 /\ Front(s).seq = s.next - ls
    BY <1>1, <1>4, Numbers
  <2>2. DOMAIN t.blocks = 1 .. lt /\ DOMAIN s.blocks = 1 .. ls
    BY <1>1, Blocks
  <2>3. PICK j \in 1 .. ls : t.blocks[1] = s.blocks[j]
    BY <2>1, <2>2
  <2>4. s.blocks[j].seq = s.next - 1 - (ls - j)
    BY <1>1, <1>4, Numbers
  <2> HIDE DEF ls, lt
  <2>5. Front(t).seq = s.next - 1 - (ls - j)
    BY <2>3, <2>4 DEF Front
  <2> QED
    BY <1>4, <2>1, <2>5
<1>5. ~Holds(s, c.latest + 1) => ~Holds(t, c.latest + 1)
  <2>1. SUFFICES ASSUME Holds(t, c.latest + 1) PROVE Holds(s, c.latest + 1)
    OBVIOUS
  <2>2. /\ t.blocks # << >> /\ Front(t).seq <= c.latest + 1
        /\ c.latest + 1 <= Back(t).seq
    BY <2>1 DEF Holds
  <2>3. Front(s).seq <= c.latest + 1 /\ c.latest + 1 <= Back(s).seq
    BY <1>1, <1>4, <2>2
  <2> QED
    BY <2>2, <2>3, <1>4 DEF Holds
<1>6. Asleep(c, t)
  BY <1>3, <1>5 DEF Player, Asleep, Drained
<1>7. Player(c, t, n)
  BY <1>2, <1>6 DEF Player
<1>8. ASSUME c.asked = "flv", ~c.w, InReach(c, s) PROVE InReach(c, t)
  <2>1. SUFFICES ASSUME c.first, t.blocks # << >>
                 PROVE  Front(t).seq <= c.latest + 1
    BY DEF InReach
  <2>2. ~Holds(s, c.latest + 1)
    BY <1>8, <2>1 DEF Player, Playing, Asleep, Drained
  <2>3. Front(s).seq <= c.latest + 1
    BY <1>4, <1>8, <2>1 DEF InReach
  <2>4. ~(c.latest + 1 <= Back(s).seq)
    BY <1>4, <2>1, <2>2, <2>3 DEF Holds
  <2> QED
    BY <1>1, <1>4, <2>1, <2>4
<1> QED
  BY <1>7, <1>8

----------------------------------------------------------------------------
(* The invariant.                                                          *)

\* An event of one connection changes that connection.
LEMMA ConnStep ==
  ASSUME Inv, NEW v \in Viewers, NEW d \in Conn, Player(d, store, tags),
         InReach(conn[v], store) => InReach(d, store),
         conn' = [conn EXCEPT ![v] = d],
         UNCHANGED <<store, uploader, described, tags, stores>>
  PROVE  Inv'
<1>1. /\ conn \in [Viewers -> Conn] /\ conn' \in [Viewers -> Conn]
      /\ \A u \in Viewers : conn'[u] = IF u = v THEN d ELSE conn[u]
  BY DEF Inv
<1>2. \A u \in Viewers : Player(conn'[u], store, tags)
  BY <1>1 DEF Inv
<1>3. \A u \in Prompt : InReach(conn'[u], store)
  BY <1>1, FlvAssumption DEF Inv
<1>4. /\ store' = store /\ uploader' = uploader /\ described' = described
      /\ tags' = tags /\ stores' = stores
  OBVIOUS
<1> QED
  BY <1>1, <1>2, <1>3, <1>4 DEF Inv

\* A connection is accepted, or destroyed.
LEMMA FreshStep ==
  ASSUME Inv, NEW v \in Viewers, NEW d \in {NewConn, Closed},
         conn' = [conn EXCEPT ![v] = d],
         UNCHANGED <<store, uploader, described, tags, stores>>
  PROVE  Inv'
<1>1. d \in Conn /\ Player(d, store, tags) /\ InReach(d, store)
  BY FreshIsPlayer DEF InReach
<1> QED
  BY <1>1, ConnStep

\* A whole request: the player, the answer or the error it asks for.
LEMMA RequestStep ==
  ASSUME Inv, NEW v \in Viewers, Request(v)
  PROVE  Inv'
<1> DEFINE c == conn[v]
<1>1. /\ c \in Conn /\ Player(c, store, tags) /\ c.asked = "nothing"
      /\ UNCHANGED <<store, uploader, described, tags, stores>>
  BY DEF Request, Inv
<1>2. /\ c.wb = 0 /\ ~c.header /\ ~c.first
      /\ 0 \in 0 .. WbSize /\ 1 \in 0 .. WbSize
  BY <1>1, FlvAssumption DEF Player, Playing
<1>3. PICK what \in {"error", "crossdomain", "flv", "closed"} :
        conn' = [conn EXCEPT ![v] =
          CASE what = "closed" -> Closed
            [] what = "error"  -> [c EXCEPT !.asked = what, !.w = TRUE, !.wb = 1]
            [] OTHER           -> [c EXCEPT !.asked = what, !.w = TRUE]]
  BY Zenon DEF Request
<1> HIDE DEF c
<1>4. CASE what = "closed"
  BY <1>1, <1>3, <1>4, FreshStep
<1>5. CASE what = "error"
  <2> DEFINE d == [c EXCEPT !.asked = what, !.w = TRUE, !.wb = 1]
  <2>1. conn' = [conn EXCEPT ![v] = d]
    BY <1>3, <1>5
  <2>2. /\ d \in Conn /\ d.asked = "error" /\ d.w = TRUE /\ d.wb = 1
        /\ d.header = c.header /\ d.first = c.first /\ d.overuse = c.overuse
        /\ d.latest = c.latest /\ d.seen = c.seen
    BY <1>1, <1>2, <1>5 DEF Conn
  <2> HIDE DEF d
  <2>3. Player(d, store, tags) /\ InReach(d, store)
    BY <1>1, <1>2, <2>2 DEF Player, Playing, Begun, Ahead, Asleep, InReach
  <2> QED
    BY <1>1, <2>1, <2>2, <2>3, ConnStep
<1>6. CASE what \in {"crossdomain", "flv"}
  <2> DEFINE d == [c EXCEPT !.asked = what, !.w = TRUE]
  <2>1. conn' = [conn EXCEPT ![v] = d]
    BY <1>3, <1>6
  <2>2. /\ d \in Conn /\ d.asked = what /\ d.w = TRUE /\ d.wb = c.wb
        /\ d.header = c.header /\ d.first = c.first /\ d.overuse = c.overuse
        /\ d.latest = c.latest /\ d.seen = c.seen
    BY <1>1, <1>2, <1>6 DEF Conn
  <2> HIDE DEF d
  <2>3. Player(d, store, tags) /\ InReach(d, store)
    BY <1>1, <1>2, <1>6, <2>2 DEF Player, Playing, Begun, Ahead, Asleep, InReach
  <2> QED
    BY <1>1, <2>1, <2>2, <2>3, ConnStep
<1> QED
  BY <1>4, <1>5, <1>6

\* More data after a bad request: another answer, if there is room.
LEMMA RequestAgainStep ==
  ASSUME Inv, NEW v \in Viewers, RequestAgain(v)
  PROVE  Inv'
<1> DEFINE c == conn[v]
           e == [c EXCEPT !.w = TRUE]
           d == Answered(e)
<1>1. /\ c \in Conn /\ Player(c, store, tags) /\ c.asked = "error"
      /\ UNCHANGED <<store, uploader, described, tags, stores>>
  BY DEF RequestAgain, Inv
<1>2. conn' = [conn EXCEPT ![v] = d]
  BY Zenon DEF RequestAgain
<1>3. ~c.header /\ ~c.first
  BY <1>1 DEF Player, Playing
<1> HIDE DEF c
<1>4. /\ e \in Conn /\ e.asked = "error" /\ e.w = TRUE /\ e.wb = c.wb
      /\ e.header = c.header /\ e.first = c.first /\ e.overuse = c.overuse
      /\ e.latest = c.latest /\ e.seen = c.seen
  BY <1>1 DEF Conn
<1> HIDE DEF e
<1>5. /\ d \in Conn /\ d.asked = "error" /\ d.header = c.header
      /\ d.first = c.first /\ d.overuse = c.overuse
      /\ d.latest = c.latest /\ d.seen = c.seen
  <2>1. CASE e.wb < WbSize
    <3>1. d = [e EXCEPT !.wb = e.wb + 1]
      BY <2>1 DEF Answered
    <3>2. e.wb + 1 \in 0 .. WbSize
      BY <1>4, <2>1, FlvAssumption DEF Conn
    <3> HIDE DEF d
    <3> QED
      BY <1>4, <3>1, <3>2 DEF Conn
  <2>2. CASE ~(e.wb < WbSize)
    <3>1. d = e
      BY <2>2 DEF Answered
    <3> QED
      BY <1>4, <3>1
  <2> QED
    BY <2>1, <2>2
<1> HIDE DEF d
<1>6. Player(d, store, tags) /\ InReach(d, store)
  BY <1>1, <1>3, <1>5 DEF Player, Playing, Begun, Ahead, Asleep, InReach
<1> QED
  BY <1>1, <1>2, <1>5, <1>6, ConnStep

\* EV_WRITE.
LEMMA WriteStep ==
  ASSUME WbFits, Inv, NEW v \in Viewers, NEW n \in 0 .. SendMax, Write(v, n)
  PROVE  Inv'
<1> DEFINE c == conn[v]
           x == Sent(Served(c), n)
<1>1. /\ c \in Conn /\ Player(c, store, tags) /\ tags \in Nat
      /\ store # None => Stocked(store, tags)
  BY DEF Inv
<1>2. /\ c.w /\ n <= Served(c).wb /\ conn' = [conn EXCEPT ![v] = x]
      /\ UNCHANGED <<store, uploader, described, tags, stores>>
  BY DEF Write
<1>3. n \in Nat
  BY FlvAssumption
<1>4. /\ x \in Conn /\ Player(x, store, tags)
      /\ InReach(c, store) => InReach(x, store)
  <2>1. x = Sent(Served(c), n)
    OBVIOUS
  <2> HIDE DEF x, c
  <2> QED
    BY <1>1, <1>2, <1>3, <2>1, WrittenIsPlayer
<1> HIDE DEF x
<1> QED
  BY <1>2, <1>4, ConnStep

\* A notification of the cache, whose store may have become another one.
LEMMA NotifiedStep ==
  ASSUME Inv, NEW s, s \in Store, s # None => Stocked(s, tags'),
         store' = s, conn' = Notified, tags' \in Nat, tags <= tags',
         stores' \in Nat, uploader' = uploader, described' = described,
         \A v \in Viewers : Ahead(conn[v], s),
         \A v \in Viewers : InReach(conn[v], store) => InReach(conn[v], s)
  PROVE  Inv'
<1>1. /\ conn \in [Viewers -> Conn] /\ tags \in Nat
      /\ uploader \in BOOLEAN /\ described \in BOOLEAN /\ Prompt \subseteq Viewers
      /\ \A v \in Viewers : Player(conn[v], store, tags)
      /\ \A v \in Prompt : InReach(conn[v], store)
  BY FlvAssumption DEF Inv
<1>2. ASSUME NEW v \in Viewers
      PROVE  /\ conn'[v] \in Conn /\ Player(conn'[v], s, tags')
             /\ InReach(conn[v], s) => InReach(conn'[v], s)
  <2>1. conn[v] \in Conn /\ Playing(conn[v], tags) /\ Begun(conn[v])
    BY <1>1 DEF Player
  <2>2. conn'[v] = IF conn[v].asked = "flv" THEN [conn[v] EXCEPT !.w = TRUE]
                   ELSE conn[v]
    BY DEF Notified
  <2> QED
    BY <1>1, <2>1, <2>2, NotifiedIsPlayer
<1>3. conn' \in [Viewers -> Conn]
  BY <1>2 DEF Notified
<1>4. \A v \in Viewers : Player(conn'[v], store', tags')
  BY <1>2
<1>5. \A v \in Prompt : InReach(conn'[v], store')
  BY <1>1, <1>2
<1> QED
  BY <1>1, <1>3, <1>4, <1>5 DEF Inv

\* set_flv_header: a new store is empty.
LEMMA SetFlvHeaderStep ==
  ASSUME Inv, SetFlvHeader
  PROVE  Inv'
<1> DEFINE s == [blocks |-> << >>, next |-> 0, quiet |-> 0]
<1>1. /\ store' = s /\ stores' = stores + 1 /\ conn' = Notified
      /\ uploader' = uploader /\ described' = described /\ tags' = tags
      /\ tags \in Nat /\ stores \in Nat
  BY DEF SetFlvHeader, Inv
<1>2. << >> \in Seq(Block) /\ Len(<< >>) = 0 /\ DOMAIN << >> = {}
  BY EmptySeq
<1>3. s \in Store /\ s.blocks = << >> /\ s.next = 0
  BY <1>2, FlvAssumption DEF Store
<1> HIDE DEF s
<1>4. Stocked(s, tags')
  BY <1>2, <1>3 DEF Stocked, Dense, Increasing
<1>5. \A v \in Viewers : Ahead(conn[v], s) /\ InReach(conn[v], s)
  BY <1>2, <1>3 DEF Ahead, InReach
<1> QED
  BY <1>1, <1>3, <1>4, <1>5, NotifiedStep

\* set_flv_tag.
LEMMA SetFlvTagStep ==
  ASSUME Inv, SetFlvTag
  PROVE  Inv'
<1>1. /\ store # None /\ Stocked(store, tags) /\ store \in Store
      /\ tags \in Nat /\ stores \in Nat
      /\ conn' = Notified /\ tags' = tags + 1
      /\ uploader' = uploader /\ described' = described /\ stores' = stores
  BY DEF SetFlvTag, Inv, Stocked
<1>2. PICK key \in BOOLEAN, dt \in Gaps :
        store' = [Pushed(store, Generated(store, key, dt)) EXCEPT !.next = @ + 1]
  BY DEF SetFlvTag
<1> DEFINE b == Generated(store, key, dt)
           t == [Pushed(store, b) EXCEPT !.next = @ + 1]
<1>3. dt \in Nat /\ store.next \in Nat /\ StoreTicks \in Nat
  BY <1>1, FlvAssumption DEF Store
<1>4. /\ LastTs(store) \in Nat
      /\ store.blocks # << >> => LastTs(store) = Back(store).ts
  BY <1>1, Blocks DEF LastTs, Back
<1>5. /\ b \in Block /\ b.seq = store.next /\ b.id = tags
      /\ b.ts = LastTs(store) + dt
  BY <1>1, <1>3, <1>4 DEF Generated, Block
<1> HIDE DEF b
<1>6. store.blocks # << >> => b.ts >= Back(store).ts
  BY <1>3, <1>4, <1>5
<1>7. Stocked(t, tags + 1) /\ t.blocks = Append(store.blocks, b)
  BY <1>1, <1>3, <1>5, <1>6, PushedIsStocked
<1>8. store' = t
  BY <1>2 DEF b
<1> HIDE DEF t
<1>9. ASSUME NEW v \in Viewers
      PROVE  Ahead(conn[v], t) /\ (InReach(conn[v], store) => InReach(conn[v], t))
  <2>1. conn[v] \in Conn /\ Playing(conn[v], tags) /\ Ahead(conn[v], store)
    BY DEF Inv, Player
  <2> QED
    BY <1>1, <1>5, <1>7, <2>1, TagIsAhead
<1>10. t \in Store
  BY <1>7 DEF Stocked
<1>11. tags + 1 \in Nat /\ tags <= tags + 1
  BY <1>1
<1> QED
  BY <1>1, <1>7, <1>8, <1>9, <1>10, <1>11, NotifiedStep

\* OnTimerImpl: a player that keeps up sleeps, and so has all of the store.
LEMMA OnTimerStep ==
  ASSUME Inv, OnTimer
  PROVE  Inv'
<1>1. /\ store # None /\ Stocked(store, tags) /\ store \in Store
      /\ tags \in Nat /\ conn \in [Viewers -> Conn] /\ Prompt \subseteq Viewers
      /\ \A v \in Viewers : Player(conn[v], store, tags)
      /\ \A v \in Prompt : InReach(conn[v], store)
      /\ conn' = conn /\ tags' = tags /\ uploader' = uploader /\ stores' = stores
      /\ uploader \in BOOLEAN /\ stores \in Nat
      /\ described' \in BOOLEAN
  BY FlvAssumption DEF OnTimer, Inv, Stocked
<1>2. CASE TimedOut(store)
  <2>1. store' = None
    BY <1>2 DEF OnTimer
  <2>2. \A v \in Viewers : Player(conn[v], None, tags) /\ InReach(conn[v], None)
    BY <1>1 DEF Player, Ahead, Asleep, Drained, InReach
  <2> QED
    BY <1>1, <2>1, <2>2 DEF Inv
<1>3. CASE ~TimedOut(store)
  <2> DEFINE t == [Trimmed(store) EXCEPT !.quiet = @ + 1]
  <2>1. store' = t
    BY <1>3 DEF OnTimer
  <2>2. /\ Stocked(t, tags) /\ t.next = store.next
        /\ t.blocks = << >> <=> store.blocks = << >>
        /\ \A i \in DOMAIN t.blocks : \E j \in DOMAIN store.blocks :
             t.blocks[i] = store.blocks[j]
    BY <1>1, <1>3, TrimmedIsStocked DEF TimedOut
  <2> HIDE DEF t
  <2>3. \A v \in Viewers :
          /\ Player(conn[v], t, tags)
          /\ conn[v].asked = "flv" /\ ~conn[v].w /\ InReach(conn[v], store)
               => InReach(conn[v], t)
    <3> TAKE v \in Viewers
    <3>1. conn[v] \in Conn /\ Player(conn[v], store, tags)
      BY <1>1
    <3> QED
      BY <1>1, <2>2, <3>1, TrimmedForPlayer
  <2>4. ASSUME NEW v \in Prompt PROVE InReach(conn[v], t)
    <3>1. conn[v].asked = "flv" => ~conn[v].w
      BY DEF OnTimer, Quiescent
    <3>2. conn[v].first => conn[v].asked = "flv"
      BY <1>1 DEF Player, Playing
    <3>3. CASE conn[v].first
      BY <1>1, <2>3, <3>1, <3>2, <3>3
    <3>4. CASE ~conn[v].first
      BY <3>4 DEF InReach
    <3> QED
      BY <3>3, <3>4
  <2>5. t \in Store
    BY <2>2 DEF Stocked
  <2> QED
    BY <1>1, <2>1, <2>2, <2>3, <2>4, <2>5 DEF Inv
<1> QED
  BY <1>2, <1>3

\* At the start there is no store and no connection.
LEMMA InitInv ==
  ASSUME Init
  PROVE  Inv
<1>1. \A v \in Viewers : conn[v] = Closed
  BY DEF Init
<1>2. Closed \in Conn /\ Player(Closed, None, 0) /\ InReach(Closed, None)
  BY FreshIsPlayer DEF InReach
<1>3. conn \in [Viewers -> Conn]
  BY <1>2 DEF Init
<1>4. \A v \in Viewers : Player(conn[v], None, 0) /\ InReach(conn[v], None)
  BY <1>1, <1>2
<1>5. store = None /\ tags = 0 /\ stores = 0 /\ uploader = FALSE /\ described = FALSE
  BY DEF Init
<1> QED
  BY <1>3, <1>4, <1>5, FlvAssumption DEF Inv

\* Every step of the server keeps the invariant.
LEMMA NextInv ==
  ASSUME WbFits, Inv, [Next]_vars
  PROVE  Inv'
<1>1. CASE UNCHANGED vars
  <2>1. /\ store' = store /\ uploader' = uploader /\ conn' = conn
        /\ described' = described /\ tags' = tags /\ stores' = stores
    BY <1>1 DEF vars
  <2> QED
    BY <2>1 DEF Inv
<1>2. ASSUME NEW v \in Viewers, Accept(v) PROVE Inv'
  BY <1>2, FreshStep DEF Accept
<1>3. ASSUME NEW v \in Viewers, Request(v) PROVE Inv'
  BY <1>3, RequestStep
<1>4. ASSUME NEW v \in Viewers, RequestAgain(v) PROVE Inv'
  BY <1>4, RequestAgainStep
<1>5. ASSUME NEW v \in Viewers, Hangup(v) PROVE Inv'
  BY <1>5, FreshStep DEF Hangup
<1>6. ASSUME NEW v \in Viewers, NEW n \in 0 .. SendMax, Write(v, n) PROVE Inv'
  BY <1>6, WriteStep
<1>7. CASE SetFlvHeader
  BY <1>7, SetFlvHeaderStep
<1>8. CASE SetFlvTag
  BY <1>8, SetFlvTagStep
<1>9. CASE OnTimer
  BY <1>9, OnTimerStep
<1>10. CASE Uploader
  BY <1>10 DEF Uploader, Inv
<1>11. CASE Sdp
  BY <1>11 DEF Sdp, Inv
<1> QED
  BY <1>1, <1>2, <1>3, <1>4, <1>5, <1>6, <1>7, <1>8, <1>9, <1>10, <1>11 DEF Next

\* Whatever is asked, sent, dropped, trimmed or made anew: the store, the
\* cursors and the buffers stay consistent (cache_manager.cpp,
\* flv_live_player.cpp).
THEOREM CacheStaysConsistent == WbFits /\ Spec => []Inv
<1> SUFFICES ASSUME WbFits PROVE Spec => []Inv
  OBVIOUS
<1>1. Init => Inv
  BY InitInv
<1>2. Inv /\ [Next]_vars => Inv'
  BY NextInv
<1> QED
  BY <1>1, <1>2, PTL DEF Spec

\* Type correctness of FlvCache: wb never grows over its capacity.
THEOREM FlvCacheTypeOK == WbFits /\ Spec => []TypeOK
<1> SUFFICES ASSUME WbFits PROVE Spec => []TypeOK
  OBVIOUS
<1>1. Inv => TypeOK
  BY DEF Inv, TypeOK
<1> QED
  BY <1>1, CacheStaysConsistent, PTL

\* CircularCache::get_by_seq may compute an index from a number: those of a
\* store are consecutive, through every push and every trimming.
THEOREM NumbersStayDense == WbFits /\ Spec => []NumbersAreDense
<1> SUFFICES ASSUME WbFits PROVE Spec => []NumbersAreDense
  OBVIOUS
<1>1. Inv => NumbersAreDense
  BY DEF Inv, Stocked, Dense, NumbersAreDense
<1> QED
  BY <1>1, CacheStaysConsistent, PTL

\* FlvLivePlayer::OnWrite sends no tag twice and none after a newer one.
THEOREM TagsAreSentInOrder == WbFits /\ Spec => []SentInOrder
<1> SUFFICES ASSUME WbFits PROVE Spec => []SentInOrder
  OBVIOUS
<1>1. Inv => SentInOrder
  BY DEF Inv, Player, Playing, Increasing, SentInOrder
<1> QED
  BY <1>1, CacheStaysConsistent, PTL

\* The first tag behind the header is a key tag (get_latest_key_miniblock),
\* and it fits into wb.
THEOREM PlayersStartAtKey == WbFits /\ Spec => []StartsAtKey
<1> SUFFICES ASSUME WbFits PROVE Spec => []StartsAtKey
  OBVIOUS
<1>1. Inv => StartsAtKey
  BY DEF Inv, Player, Playing, StartsAtKey
<1> QED
  BY <1>1, CacheStaysConsistent, PTL

\* LiveConnection::OnWriteImpl stops watching EV_WRITE only for a player that
\* has all the cache can give it.
THEOREM NoLostWakeUp == WbFits /\ Spec => []NothingLeftUnsent
<1> SUFFICES ASSUME WbFits PROVE Spec => []NothingLeftUnsent
  OBVIOUS
<1>1. Inv => NothingLeftUnsent
  BY DEF Inv, Player, Asleep, Drained, NothingLeftUnsent
<1> QED
  BY <1>1, CacheStaysConsistent, PTL

\* _adjust_flv_miniblock_cache_size never trims past a player that keeps up.
THEOREM TrimmingSparesThePrompt == WbFits /\ Spec => []PromptKeepsUp
<1> SUFFICES ASSUME WbFits PROVE Spec => []PromptKeepsUp
  OBVIOUS
<1>1. Inv => PromptKeepsUp
  BY DEF Inv, InReach, PromptKeepsUp
<1> QED
  BY <1>1, CacheStaysConsistent, PTL

\* kBufferOveruseSize is never reached, so the branch of OnWrite that should
\* resume at a key tag is dead.
THEOREM NobodyOveruses == Spec => []OveruseIsUnreachable
<1>1. CASE WbFits
  <2>1. Inv => OveruseIsUnreachable
    BY DEF Inv, Player, Playing, OveruseIsUnreachable
  <2> QED
    BY <1>1, <2>1, CacheStaysConsistent, PTL
<1>2. CASE ~WbFits
  <2>1. OveruseIsUnreachable
    BY <1>2 DEF WbFits, OveruseIsUnreachable
  <2> QED
    BY <2>1, PTL
<1> QED
  BY <1>1, <1>2
=============================================================================
