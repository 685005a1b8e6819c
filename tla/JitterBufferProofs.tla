------------------------- MODULE JitterBufferProofs -------------------------
(***************************************************************************)
(* Proofs about JitterBuffer, for every hold, threshold, frame size and    *)
(* jump, as long as the stream stays in one lap of the sequence numbers    *)
(* and does not use 0, which stands for "no packet" in _last_out_block.    *)
(***************************************************************************)
EXTENDS JitterBuffer, TLAPS, WellFoundedInduction

----------------------------------------------------------------------------
(* Serial numbers, and the least of a set of naturals.                     *)

\* Stepping k numbers ahead of a stays in range and is k away from a: what
\* set_rtp relies on when it pads the deque with one block per number.
LEMMA SeqPlusDiff ==
  ASSUME NEW a \in Seqs, NEW k \in 0 .. SeqMod - 1
  PROVE  SeqPlus(a, k) \in Seqs /\ SeqDiff(SeqPlus(a, k), a) = k
BY SeqModAssumption DEF Seqs, SeqPlus, SeqDiff

\* The order of the naturals is a well-founded relation.
LEMMA NatOrder ==
  \E R : IsWellFoundedOn(R, Nat) /\ \A x, y \in Nat : <<y, x>> \in R <=> y < x
<1>1. IsWellFoundedOn(OpToRel(<, Nat), Nat)
  BY NatLessThanWellFounded
<1>2. \A x, y \in Nat : <<y, x>> \in OpToRel(<, Nat) <=> y < x
  BY DEF OpToRel
<1> QED
  BY <1>1, <1>2, Zenon

\* A set of naturals has a least element: the while loops that pop the front
\* of a buffer until a condition holds stop at the first such position.
LEMMA LeastNat ==
  ASSUME NEW T \in SUBSET Nat, T # {}
  PROVE  \E m \in T : \A k \in T : m <= k
<1>1. PICK R : IsWellFoundedOn(R, Nat)
               /\ \A x, y \in Nat : <<y, x>> \in R <=> y < x
  BY NatOrder
<1>2. PICK m \in T : \A y \in T : ~ (<<y, m>> \in R)
  BY <1>1, WFMin, Zenon
<1>3. ASSUME NEW k \in T PROVE m <= k
  <2>1. k \in Nat /\ m \in Nat
    OBVIOUS
  <2>2. ~ (k < m)
    BY <1>1, <1>2, <2>1, Zenon
  <2> QED
    BY <2>1, <2>2
<1> QED
  BY <1>3

----------------------------------------------------------------------------
(* The stream, in one lap of the numbers.                                  *)

OneLap == 0 < First /\ First + Count <= SeqMod

\* Within a lap serial order is the order of the integers.
LEMMA StreamOrder ==
  ASSUME OneLap
  PROVE  /\ Stream \subseteq Seqs /\ Stream \subseteq Nat /\ \A s \in Stream : s > 0
         /\ \A s, t \in Stream : IsNewer(t, s) <=> t > s
         /\ \A s, t \in Stream : t > s => Between(s, t) = s + 1 .. t - 1
         /\ \A s, t \in Stream : s + 1 .. t - 1 \subseteq Stream
<1> USE OneLap, JitterAssumption, SeqModAssumption DEF OneLap, Seqs
<1>1. Stream = First .. First + Count - 1 /\ First \in Nat /\ Count \in Nat
  BY DEF Stream, SeqDiff
<1>2. Stream \subseteq Seqs /\ Stream \subseteq Nat /\ \A s \in Stream : s > 0
  BY <1>1
<1>3. \A s, t \in Stream : IsNewer(t, s) <=> t > s
  BY <1>1 DEF IsNewer, SeqDiff
<1>4. ASSUME NEW s \in Stream, NEW t \in Stream, t > s
      PROVE  Between(s, t) = s + 1 .. t - 1
  <2>1. s \in Nat /\ t \in Nat /\ s < SeqMod /\ t < SeqMod /\ SeqMod \in Nat
    BY <1>1
  <2>2. \A x \in Seqs : 0 < SeqDiff(x, s) /\ SeqDiff(x, s) < SeqDiff(t, s)
                       <=> x \in s + 1 .. t - 1
    BY <1>4, <2>1 DEF SeqDiff
  <2>3. s + 1 .. t - 1 \subseteq Seqs
    BY <2>1
  <2> QED
    BY <2>2, <2>3 DEF Between
<1>5. \A s, t \in Stream : s + 1 .. t - 1 \subseteq Stream
  BY <1>1
<1> QED
  BY <1>2, <1>3, <1>4, <1>5

\* Whole frames: the quotient is monotone.
LEMMA DivGrows ==
  ASSUME NEW p \in Nat \ {0}, NEW a \in Nat, NEW b \in Nat, a <= b
  PROVE  a \div p \in Nat /\ b \div p \in Nat /\ a \div p <= b \div p
<1>1. a \div p \in Nat /\ b \div p \in Nat
  OBVIOUS
<1>2. a = p * (a \div p) + (a % p) /\ (a % p) \in 0 .. p - 1
  OBVIOUS
<1>3. b = p * (b \div p) + (b % p) /\ (b % p) \in 0 .. p - 1
  OBVIOUS
<1> DEFINE m == a \div p
           n == b \div p
<1>4. ASSUME m >= n + 1 PROVE FALSE
  <2>1. p * m >= p * (n + 1) /\ p * (n + 1) = p * n + p
    BY <1>1, <1>4
  <2> QED
    BY <1>1, <1>2, <1>3, <2>1
<1> QED
  BY <1>1, <1>4

\* Within the lap timestamps do not go back.
LEMMA StampGrows ==
  ASSUME OneLap, NEW s \in Stream, NEW t \in Stream, s <= t
  PROVE  Stamp(s) \in Nat /\ Stamp(t) \in Nat /\ Stamp(s) <= Stamp(t)
<1> DEFINE i == SeqDiff(s, First)
           j == SeqDiff(t, First)
<1>1. i \in Nat /\ j \in Nat /\ i <= j
  BY SeqModAssumption, JitterAssumption DEF OneLap, Stream, Seqs, SeqDiff
<1>2. PerFrame \in Nat \ {0} /\ FrameTime \in Nat /\ JumpTime \in Nat /\ JumpAt \in Nat
  BY JitterAssumption
<1> HIDE DEF i, j
<1> DEFINE m == i \div PerFrame
           n == j \div PerFrame
<1>3. m \in Nat /\ n \in Nat /\ m <= n
  BY <1>1, <1>2, DivGrows
<1>4. Stamp(s) = m * FrameTime + IF i >= JumpAt THEN JumpTime ELSE 0
  BY DEF Stamp, i
<1>5. Stamp(t) = n * FrameTime + IF j >= JumpAt THEN JumpTime ELSE 0
  BY DEF Stamp, j
<1> HIDE DEF m, n
<1>6. m * FrameTime \in Nat /\ n * FrameTime \in Nat /\ m * FrameTime <= n * FrameTime
  BY <1>2, <1>3
<1> QED
  BY <1>1, <1>2, <1>4, <1>5, <1>6

\* begin() of a list that is not empty is its oldest number.
LEMMA OldestIsLeast ==
  ASSUME OneLap, NEW set \in SUBSET Stream, set # {}
  PROVE  Oldest(set) \in set /\ \A t \in set : Oldest(set) <= t
<1>1. set \in SUBSET Nat
  BY StreamOrder
<1>2. PICK m \in set : \A t \in set : m <= t
  BY <1>1, LeastNat
<1>3. \A t \in set : t = m \/ IsNewer(t, m)
  BY <1>1, <1>2, StreamOrder
<1>4. Oldest(set) \in set /\ \A t \in set : t = Oldest(set) \/ IsNewer(t, Oldest(set))
  BY <1>3 DEF Oldest
<1>5. ASSUME NEW t \in set PROVE Oldest(set) <= t
  <2>1. t \in Stream /\ Oldest(set) \in Stream /\ t \in Nat /\ Oldest(set) \in Nat
    BY <1>1, <1>4
  <2>2. t = Oldest(set) \/ t > Oldest(set)
    BY <1>4, <2>1, StreamOrder
  <2> QED
    BY <2>1, <2>2
<1> QED
  BY <1>4, <1>5

----------------------------------------------------------------------------
\* The buffer between two calls of GetRTPPacket is either fresh, holding one
\* packet that goes out at once, or settled: the lost set is exactly what is
\* missing between the last packet out and the newest.
Fresh ==
  /\ draining /\ jitter = last /\ lost = {}
  /\ Queued = {last.seq} /\ queue[last.seq] = 1

Settled ==
  /\ out.seq # 0
  /\ lost = {s \in Stream : s \notin Queued /\ out.seq < s /\ s < last.seq}

BufferInv ==
  /\ TypeOK
  /\ out.seq \in {0} \cup Stream
  /\ state = "init" => Queued = {} /\ lost = {} /\ last = Unset
  /\ \A s \in Queued : out.seq <= s
  /\ state = "sending" =>
       /\ last.seq \in Stream /\ last = Info(last.seq) /\ out.seq <= last.seq
       /\ last.seq \in Queued \cup {out.seq} /\ \A s \in Queued : s <= last.seq
       /\ Fresh \/ Settled
  /\ HoldIsBounded

\* What holds of a packet's record.
LEMMA InfoIsBlock ==
  ASSUME OneLap, NEW s \in Stream
  PROVE  Info(s) \in Blocks /\ Info(s).seq = s /\ Info(s).time = Stamp(s)
BY StreamOrder DEF Info, Blocks

\* So is the record that reset() leaves.
LEMMA UnsetIsBlock == Unset \in Blocks /\ Unset.seq = 0
BY SeqModAssumption DEF Unset, Blocks, Seqs

\* Assigning to seq_num of a record keeps it one.
LEMMA BlockFields ==
  ASSUME NEW b \in Blocks, NEW n \in Seqs
  PROVE  b.seq \in Seqs /\ [b EXCEPT !.seq = n] \in Blocks
BY DEF Blocks

LEMMA InitBufferInv == OneLap /\ Init => BufferInv
<1> SUFFICES ASSUME OneLap, Init PROVE BufferInv
  OBVIOUS
<1>1. queue \in [Stream -> 0 .. MaxCopies] /\ Queued = {}
  BY JitterAssumption DEF Init, Empty, Queued
<1> QED
  BY <1>1, UnsetIsBlock DEF Init, BufferInv, TypeOK, HoldIsBounded

\* A packet pushed is queued, and nothing else changes.
LEMMA PushedIsQueued ==
  ASSUME queue \in [Stream -> 0 .. MaxCopies], NEW s \in Stream, queue[s] < MaxCopies,
         queue' = Pushed(s)
  PROVE  queue' \in [Stream -> 0 .. MaxCopies] /\ Queued' = Queued \cup {s}
<1>1. queue' \in [Stream -> 0 .. MaxCopies]
  BY JitterAssumption DEF Pushed
<1>2. queue'[s] = queue[s] + 1 /\ \A t \in Stream \ {s} : queue'[t] = queue[t]
  BY DEF Pushed
<1> QED
  BY <1>1, <1>2 DEF Queued

\* SetRTPPacket, in each of its four cases.
LEMMA SetKeeps ==
  ASSUME OneLap, BufferInv, NEW s \in Stream, SetRTPPacket(s)
  PROVE  BufferInv'
<1>1. /\ s \in Nat /\ s > 0 /\ Stream \subseteq Nat /\ Info(s) \in Blocks /\ Info(s).seq = s
      /\ TypeOK /\ draining' /\ ~draining /\ queue[s] < MaxCopies
      /\ Unset \in Blocks /\ Unset.seq = 0
  BY StreamOrder, InfoIsBlock, UnsetIsBlock DEF SetRTPPacket, BufferInv
<1>2. Late(s) <=> out.seq # 0 /\ out.seq > s
  BY <1>1, StreamOrder DEF Late, BufferInv
<1>3. CASE SetFirst(s)
  <2>1. state = "init" /\ Queued = {} /\ lost = {} /\ last = Unset
    BY <1>3 DEF SetFirst, BufferInv
  <2>2. CASE Late(s)
    <3>1. UNCHANGED <<state, queue, jitter, last, lost, out>>
      BY <1>3, <2>2 DEF SetFirst
    <3>2. Queued' = Queued
      BY <3>1 DEF Queued
    <3> QED
      BY <1>1, <2>1, <3>1, <3>2 DEF BufferInv, TypeOK, HoldIsBounded
  <2>3. CASE ~Late(s)
    <3>1. /\ state' = "sending" /\ queue' = Pushed(s) /\ jitter' = Info(s)
          /\ last' = Info(s) /\ lost' = {} /\ out' = out
      BY <1>1, <1>3, <2>1, <2>3 DEF SetFirst, Latest
    <3>2. queue' \in [Stream -> 0 .. MaxCopies] /\ Queued' = {s}
      BY <1>1, <2>1, <3>1, PushedIsQueued DEF TypeOK
    <3>3. queue'[s] = 1
      <4>1. queue[s] = 0
        BY <1>1, <2>1 DEF Queued, TypeOK
      <4> QED
        BY <1>1, <3>1, <4>1 DEF Pushed, TypeOK
    <3>4. out.seq \in {0} \cup Stream /\ out.seq <= s
      <4>1. out.seq \in {0} \cup Stream
        BY DEF BufferInv
      <4>2. out.seq \in Nat
        <5>1. Stream \subseteq Nat
          BY <1>1
        <5>2. CASE out.seq = 0
          BY <5>2
        <5>3. CASE out.seq \in Stream
          BY <5>1, <5>3
        <5> QED
          BY <4>1, <5>2, <5>3
      <4> QED
        BY <1>1, <1>2, <2>3, <4>1, <4>2
    <3>5. Fresh'
      BY <1>1, <3>1, <3>2, <3>3 DEF Fresh
    <3>6. TypeOK'
      BY <1>1, <3>1, <3>2 DEF TypeOK
    <3> QED
      BY <1>1, <3>1, <3>2, <3>4, <3>5, <3>6 DEF BufferInv, HoldIsBounded
  <2> QED
    BY <2>2, <2>3
<1>4. CASE SetJump(s)
  <2>1. /\ queue' = [Empty EXCEPT ![s] = 1] /\ lost' = {} /\ out' = Unset
        /\ jitter' = Info(s) /\ last' = Info(s) /\ state' = "sending"
    BY <1>4 DEF SetJump
  <2>2. queue' \in [Stream -> 0 .. MaxCopies] /\ Queued' = {s} /\ queue'[s] = 1
    BY <2>1, JitterAssumption DEF Empty, Queued
  <2>3. Fresh' /\ TypeOK'
    BY <1>1, <2>1, <2>2 DEF Fresh, TypeOK
  <2> QED
    BY <1>1, <2>1, <2>2, <2>3 DEF BufferInv, HoldIsBounded
<1>5. CASE state = "sending" /\ (SetLate(s) \/ SetQueue(s))
  <2>1. /\ last.seq \in Stream /\ last = Info(last.seq) /\ out.seq <= last.seq
        /\ out.seq \in Stream /\ Settled /\ lost \in SUBSET Stream
        /\ \A t \in Queued : t <= last.seq
        /\ last.seq \in Queued \cup {out.seq}
    BY <1>1, <1>5 DEF BufferInv, Fresh, Settled, TypeOK
  <2>6. last.seq \in Nat /\ out.seq \in Nat
    BY <1>1, <2>1
  <2>2. Gap(s) = IF s > last.seq THEN last.seq + 1 .. s - 1 ELSE {}
    BY <2>1, StreamOrder DEF Gap
  <2>3. Gap(s) \in SUBSET Stream
    BY <2>1, <2>2, StreamOrder
  <2>4. CASE SetLate(s)
    <3>1. Gap(s) = {}
      <4>1. out.seq > s
        BY <1>2, <2>4 DEF SetLate
      <4>2. ~(s > last.seq)
        BY <1>1, <2>1, <2>6, <4>1
      <4> QED
        BY <2>2, <4>2
    <3>2. UNCHANGED <<state, queue, jitter, last, lost, out>>
      BY <2>4, <3>1 DEF SetLate
    <3>3. Queued' = Queued
      BY <3>2 DEF Queued
    <3>4. Settled'
      BY <2>1, <3>2, <3>3 DEF Settled
    <3> QED
      BY <1>1, <3>2, <3>3, <3>4 DEF BufferInv, TypeOK, HoldIsBounded
  <2>5. CASE SetQueue(s)
    <3> DEFINE known == lost \cup Gap(s)
               left == known \ {s}
    <3>1. /\ queue' = Pushed(s) /\ lost' = left /\ last' = Latest(s)
          /\ state' = "sending" /\ out' = out /\ ~Late(s)
      BY <1>5, <2>5 DEF SetQueue, Found
    <3>2. queue' \in [Stream -> 0 .. MaxCopies] /\ Queued' = Queued \cup {s}
      BY <1>1, <3>1, PushedIsQueued DEF TypeOK
    <3>3. last' = IF s > last.seq THEN Info(s) ELSE last
      BY <2>1, <3>1, StreamOrder DEF Latest
    <3>4. /\ last' \in Blocks /\ last'.seq \in Stream /\ last' = Info(last'.seq)
          /\ last'.seq >= s /\ last'.seq >= last.seq
          /\ (last'.seq = s \/ last'.seq = last.seq)
      <4>1. CASE s > last.seq
        BY <1>1, <2>6, <3>3, <4>1
      <4>2. CASE ~(s > last.seq)
        <5>1. last' = last /\ last.seq >= s /\ last.seq >= last.seq
          BY <1>1, <2>6, <3>3, <4>2
        <5> QED
          BY <1>1, <2>1, <5>1 DEF TypeOK
      <4> QED
        BY <4>1, <4>2
    <3>5. out.seq <= s /\ out.seq \in Nat /\ last.seq \in Nat
      <4>1. ~(out.seq > s)
        BY <1>1, <1>2, <2>1, <3>1
      <4> QED
        BY <1>1, <2>6, <4>1
    <3>6. jitter' \in Blocks
      <4>1. jitter' = IF s # SeqPlus(jitter.seq, 1) THEN jitter
                      ELSE IF known = {} THEN Info(s)
                      ELSE IF s \notin known THEN jitter
                      ELSE IF left = {} THEN last
                      ELSE [jitter EXCEPT !.seq = SeqPlus(Oldest(left), SeqMod - 1)]
        BY <2>5 DEF SetQueue, Found
      <4>2. left # {} => SeqPlus(Oldest(left), SeqMod - 1) \in Seqs
        <5> SUFFICES ASSUME left # {} PROVE SeqPlus(Oldest(left), SeqMod - 1) \in Seqs
          OBVIOUS
        <5>1. left \in SUBSET Stream
          BY <2>1, <2>3
        <5> HIDE DEF left
        <5>2. Oldest(left) \in Seqs
          BY <5>1, OldestIsLeast, StreamOrder
        <5>3. SeqMod - 1 \in 0 .. SeqMod - 1
          BY SeqModAssumption
        <5> QED
          BY <5>2, <5>3, SeqPlusDiff
      <4>3. jitter \in Blocks /\ last \in Blocks
        BY <1>1 DEF TypeOK
      <4> HIDE DEF left, known
      <4> QED
        BY <1>1, <4>1, <4>2, <4>3, BlockFields
    <3>7. Settled'
      <4>1. lost' = (lost \cup Gap(s)) \ {s}
        BY <3>1
      <4>2. lost = {t \in Stream : t \notin Queued /\ out.seq < t /\ t < last.seq}
        BY <2>1 DEF Settled
      <4>3. ASSUME NEW t \in Stream
            PROVE  t \in lost' <=> t \notin Queued' /\ out.seq < t /\ t < last'.seq
        <5>1. t \in Nat
          BY <1>1
        <5>2. CASE s > last.seq
          <6>1. Gap(s) = last.seq + 1 .. s - 1 /\ last'.seq = s
            BY <1>1, <2>2, <3>3, <5>2
          <6>2. t > last.seq => t \notin Queued
            BY <2>1, <3>5, <5>1
          <6>3. CASE t < last.seq
            <7>1. t # s /\ t < s /\ t \notin last.seq + 1 .. s - 1
              BY <1>1, <3>5, <5>1, <5>2, <6>3
            <7> QED
              BY <3>2, <4>1, <4>2, <6>1, <6>3, <7>1
          <6>4. CASE t = last.seq
            <7>1. t \notin lost /\ t \notin last.seq + 1 .. s - 1 /\ (t \in Queued \/ ~(out.seq < t))
              BY <2>1, <3>5, <4>2, <5>1, <6>4
            <7> QED
              BY <3>2, <4>1, <6>1, <7>1
          <6>5. CASE t > last.seq
            <7>1. t \notin lost /\ out.seq < t /\ t \notin Queued
              BY <2>1, <3>5, <4>2, <5>1, <6>2, <6>5
            <7>2. t \in last.seq + 1 .. s - 1 <=> t < s
              BY <1>1, <3>5, <5>1, <6>5
            <7>3. t = s => ~(t < s)
              BY <1>1
            <7> QED
              BY <3>2, <4>1, <6>1, <7>1, <7>2, <7>3
          <6> QED
            BY <3>5, <5>1, <6>3, <6>4, <6>5
        <5>3. CASE ~(s > last.seq)
          <6>1. Gap(s) = {} /\ last' = last
            BY <2>2, <3>3, <5>3
          <6> QED
            BY <3>2, <4>1, <4>2, <6>1
        <5> QED
          BY <5>2, <5>3
      <4>4. lost' \subseteq Stream
        BY <2>1, <2>3, <3>1
      <4> QED
        BY <2>1, <3>1, <4>3, <4>4 DEF Settled
    <3>8. TypeOK'
      BY <1>1, <2>1, <2>3, <3>1, <3>2, <3>4, <3>6 DEF TypeOK
    <3>9. \A t \in Queued' : out'.seq <= t /\ t <= last'.seq
      <4> SUFFICES ASSUME NEW t \in Queued \cup {s} PROVE out.seq <= t /\ t <= last'.seq
        BY <3>1, <3>2
      <4>1. Queued \subseteq Nat /\ \A x \in Queued : out.seq <= x /\ x <= last.seq
        BY <1>1, <2>1 DEF BufferInv, Queued
      <4> QED
        BY <1>1, <3>4, <3>5, <4>1
    <3>10. last'.seq \in Queued' \cup {out'.seq} /\ out'.seq <= last'.seq
      BY <1>1, <2>1, <2>6, <3>1, <3>2, <3>3, <3>5
    <3> QED
      BY <1>1, <2>1, <3>1, <3>4, <3>5, <3>7, <3>8, <3>9, <3>10 DEF BufferInv, HoldIsBounded
  <2> QED
    BY <1>5, <2>4, <2>5
<1> QED
  BY <1>3, <1>4, <1>5 DEF SetRTPPacket, SetLate, SetQueue

\* The numbers found or given up leave the list.
LEMMA GiveUpTypes ==
  ASSUME OneLap, TypeOK, NEW seq, NEW set \in SUBSET lost, NEW j \in Blocks, GiveUp(seq, set, j)
  PROVE  lost' = StillWanted(seq, set) /\ lost' \in SUBSET lost /\ jitter' \in Blocks
<1>1. lost' = StillWanted(seq, set) /\ lost' \in SUBSET lost
  BY DEF GiveUp, StillWanted
<1>2. lost' # {} => Oldest(lost') \in Seqs
  BY <1>1, OldestIsLeast, StreamOrder DEF TypeOK
<1>3. jitter' = IF lost' = set THEN j ELSE IF lost' = {} THEN last ELSE [j EXCEPT !.seq = Oldest(lost')]
  BY <1>1 DEF GiveUp
<1> QED
  BY <1>1, <1>2, <1>3, BlockFields DEF TypeOK

\* What an _reset for overflow leaves.
LEMMA OverflowKeeps ==
  ASSUME OneLap, BufferInv, NEW q, Overflow(q), out'.seq \in {0} \cup Stream,
         out' \in Blocks, draining' \in BOOLEAN
  PROVE  BufferInv'
<1>1. queue' \in [Stream -> 0 .. MaxCopies] /\ Queued' = {}
  BY JitterAssumption DEF Overflow, Empty, Queued
<1>2. TypeOK'
  BY <1>1, UnsetIsBlock DEF Overflow, TypeOK
<1> QED
  BY <1>1, <1>2 DEF Overflow, BufferInv, HoldIsBounded

\* While set_rtp waits for more, nothing changes, and what is left is held.
LEMMA GetNothingKeeps ==
  ASSUME OneLap, BufferInv, draining, GetNothing
  PROVE  BufferInv'
<1>1. out' = out /\ ~draining' /\ TypeOK /\ out.seq \in {0} \cup Stream
  BY DEF GetNothing, BufferInv
<1>2. CASE Total(queue) > Threshold
  <2>1. out' \in Blocks /\ out'.seq \in {0} \cup Stream /\ draining' \in BOOLEAN
    BY <1>1 DEF TypeOK, GetNothing
  <2>2. Overflow(queue)
    BY <1>2 DEF GetNothing
  <2> QED
    BY <2>1, <2>2, OverflowKeeps
<1>3. CASE ~(Total(queue) > Threshold) /\ state = "init"
  <2>1. UNCHANGED <<state, queue, lost, jitter, last, out>>
    BY <1>3 DEF GetNothing
  <2>2. Queued' = Queued
    BY <2>1 DEF Queued
  <2> QED
    BY <1>1, <1>3, <2>1, <2>2 DEF BufferInv, TypeOK, HoldIsBounded, GetNothing
<1>4. CASE ~(Total(queue) > Threshold) /\ state # "init"
  <2>1. state = "sending" /\ (Queued = {} \/ Held(Oldest(Queued))) /\ UNCHANGED <<state, queue, last>>
    BY <1>1, <1>4 DEF GetNothing, TypeOK
  <2>2. GiveUp(out.seq, lost, jitter)
    BY <1>4 DEF GetNothing
  <2>3. last.seq \in Stream /\ last = Info(last.seq) /\ Settled /\ out.seq \in Stream
    BY <1>1, <2>1 DEF BufferInv, Fresh, Held, Settled
  <2>4. StillWanted(out.seq, lost) = lost
    <3>1. \A l \in lost : l \in Stream /\ out.seq < l
      BY <2>3 DEF Settled
    <3>2. \A l \in lost : ~IsNewer(out.seq, l)
      <4> SUFFICES ASSUME NEW l \in lost PROVE ~IsNewer(out.seq, l)
        OBVIOUS
      <4>1. l \in Stream /\ out.seq < l /\ l \in Nat /\ out.seq \in Nat
        BY <2>3, <3>1, StreamOrder
      <4>2. ~(out.seq > l)
        BY <4>1
      <4> QED
        BY <2>3, <4>1, <4>2, StreamOrder
    <3> QED
      BY <3>2 DEF StillWanted
  <2>5. UNCHANGED <<lost, jitter>>
    BY <2>2, <2>4 DEF GiveUp
  <2>6. Queued' = Queued
    BY <2>1 DEF Queued
  <2>7. ASSUME NEW s \in Queued PROVE last.time - Stamp(s) < Duration
    <3>1. Queued \in SUBSET Stream /\ s \in Stream
      BY DEF Queued
    <3>2. Oldest(Queued) \in Stream /\ Oldest(Queued) <= s /\ Held(Oldest(Queued))
      BY <2>1, <3>1, OldestIsLeast
    <3>3. Stamp(Oldest(Queued)) \in Nat /\ Stamp(s) \in Nat /\ Stamp(Oldest(Queued)) <= Stamp(s)
      BY <3>1, <3>2, StampGrows
    <3>4. last.time \in Nat
      <4>1. last.seq \in Stream /\ last.time = Stamp(last.seq) /\ last.seq <= last.seq
        BY <2>3, StreamOrder, InfoIsBlock
      <4> QED
        BY <4>1, StampGrows
    <3>5. last.time - Stamp(Oldest(Queued)) \in 0 .. Duration - 1 /\ Duration \in Nat
      BY <3>2, JitterAssumption DEF Held
    <3> QED
      BY <3>3, <3>4, <3>5
  <2>8. Settled'
    BY <1>1, <2>1, <2>3, <2>5, <2>6 DEF Settled
  <2> QED
    BY <1>1, <2>1, <2>5, <2>6, <2>7, <2>8 DEF BufferInv, TypeOK, HoldIsBounded, GetNothing
<1> QED
  BY <1>2, <1>3, <1>4

\* A packet goes out, or only copies of the last one were left.
LEMMA GetKeeps ==
  ASSUME OneLap, BufferInv, draining, Get
  PROVE  BufferInv'
<1> DEFINE top  == Oldest(Candidates)
           none == Candidates = {}
           kept == [s \in Stream |-> IF s = out.seq THEN 0 ELSE queue[s]]
           rest == IF none THEN kept ELSE [kept EXCEPT ![top] = @ - 1]
           now  == IF none THEN out ELSE Info(top)
           less == IF now.seq = jitter.seq THEN lost \ {now.seq} ELSE lost
<1>1. /\ TypeOK /\ state = "sending" /\ Queued # {} /\ out.seq \in {0} \cup Stream
      /\ Queued \in SUBSET Stream /\ Candidates \in SUBSET Queued
  BY DEF Get, BufferInv, Queued, Candidates
<1>2. /\ out' = now /\ draining' = ~none
      /\ IF Total(rest) > Threshold THEN Overflow(rest)
         ELSE /\ queue' = rest
              /\ \E j \in NextJitter(now.seq, less) : GiveUp(now.seq, less, j)
              /\ UNCHANGED <<state, last>>
  BY DEF Get
<1>3. ~none => /\ top \in Candidates /\ top \in Queued /\ top \in Stream /\ top # out.seq
               /\ \A t \in Candidates : top <= t
  <2>1. Candidates \in SUBSET Stream
    BY <1>1
  <2> QED
    BY <1>1, <2>1, OldestIsLeast DEF Candidates
<1>4. /\ last.seq \in Stream /\ last = Info(last.seq) /\ out.seq <= last.seq
      /\ last.seq \in Queued \cup {out.seq} /\ \A s \in Queued : s <= last.seq /\ out.seq <= s
      /\ (lost = {} /\ Queued = {last.seq}) \/ Settled
  BY <1>1 DEF BufferInv, Fresh
<1>5. out.seq \in Nat /\ last.seq \in Nat /\ Stream \subseteq Nat
  <2>1. Stream \subseteq Nat
    BY StreamOrder
  <2>2. out.seq \in Nat
    <3>1. CASE out.seq = 0
      BY <3>1
    <3>2. CASE out.seq \in Stream
      BY <2>1, <3>2
    <3> QED
      BY <1>1, <3>1, <3>2
  <2>3. last.seq \in Nat
    BY <1>4, <2>1
  <2> QED
    BY <2>1, <2>2, <2>3
<1>6. out' \in Blocks /\ out'.seq \in {0} \cup Stream /\ draining' \in BOOLEAN
  <2>1. CASE none
    BY <1>1, <1>2, <2>1 DEF TypeOK
  <2>2. CASE ~none
    <3>1. now = Info(top)
      BY <2>2
    <3> QED
      BY <1>2, <1>3, <2>2, <3>1, InfoIsBlock
  <2> QED
    BY <2>1, <2>2
<1>7. CASE Total(rest) > Threshold
  BY <1>2, <1>6, <1>7, OverflowKeeps
<1>8. CASE ~(Total(rest) > Threshold)
  <2>1. queue' = rest /\ state' = "sending" /\ last' = last
    BY <1>1, <1>2, <1>8
  <2>2. PICK j \in NextJitter(now.seq, less) : GiveUp(now.seq, less, j)
    BY <1>2, <1>8
  <2>3. less \in SUBSET lost
    OBVIOUS
  <2>4. j \in Blocks
    <3> HIDE DEF now
    <3>1. less # {} => Oldest(less) \in Seqs
      <4>1. less \in SUBSET Stream
        BY <1>1 DEF TypeOK
      <4> HIDE DEF less
      <4> QED
        BY <4>1, OldestIsLeast, StreamOrder
    <3>2. jitter \in Blocks /\ last \in Blocks
      BY <1>1 DEF TypeOK
    <3> HIDE DEF less
    <3> QED
      BY <2>2, <3>1, <3>2, BlockFields DEF NextJitter
  <2>5. lost' = StillWanted(now.seq, less) /\ lost' \in SUBSET lost /\ jitter' \in Blocks
    <3> HIDE DEF less, now
    <3> QED
      BY <1>1, <2>2, <2>3, <2>4, GiveUpTypes
  <2>6. kept \in [Stream -> 0 .. MaxCopies] /\ \A s \in Stream : kept[s] > 0 <=> s \in Candidates
    BY <1>1, JitterAssumption DEF TypeOK, Queued, Candidates
  <2>7. CASE none
    <3>1. queue' = kept /\ out' = out /\ ~draining'
      BY <1>2, <2>1, <2>7
    <3>2. Queued' = {} /\ queue' \in [Stream -> 0 .. MaxCopies]
      BY <2>6, <2>7, <3>1 DEF Queued
    <3>3. out.seq \in Queued /\ last.seq = out.seq /\ out.seq # 0
      <4>1. \A s \in Queued : s = out.seq
        BY <2>7 DEF Candidates
      <4>2. out.seq \in Stream
        BY <1>1, <4>1
      <4> QED
        BY <1>1, <1>4, <4>1, <4>2, StreamOrder
    <3>4. lost = {}
      <4>1. CASE Settled
        <5>1. \A s \in Stream : ~(out.seq < s /\ s < last.seq)
          BY <1>5, <3>3
        <5> QED
          BY <4>1, <5>1 DEF Settled
      <4> QED
        BY <1>4, <4>1
    <3>5. Settled'
      <4>1. \A s \in Stream : ~(out.seq < s /\ s < last.seq)
        BY <1>5, <3>3
      <4> QED
        BY <2>1, <2>5, <3>1, <3>3, <3>4, <4>1 DEF Settled
    <3>6. TypeOK'
      BY <1>1, <1>6, <2>1, <2>5, <3>2 DEF TypeOK
    <3> QED
      BY <1>4, <1>6, <2>1, <3>1, <3>2, <3>3, <3>5, <3>6 DEF BufferInv, HoldIsBounded
  <2>8. CASE ~none
    <3>1. queue' = [kept EXCEPT ![top] = @ - 1] /\ now = Info(top) /\ draining'
      BY <1>2, <2>1, <2>8
    <3>2. now.seq = top /\ out' = Info(top) /\ out'.seq = top /\ top \in Nat /\ top # 0
      <4>1. top \in Stream
        BY <1>3, <2>8
      <4>2. top \in Nat /\ top > 0
        BY <4>1, StreamOrder
      <4>3. now.seq = top
        BY <3>1, <4>1, InfoIsBlock
      <4>4. out' = Info(top)
        BY <1>2, <3>1
      <4> HIDE DEF top, now
      <4>5. Info(top).seq = top
        BY <4>1, InfoIsBlock
      <4> QED
        BY <4>2, <4>3, <4>4, <4>5
    <3> HIDE DEF now, rest
    <3>3. /\ queue' \in [Stream -> 0 .. MaxCopies]
          /\ Queued' \subseteq Candidates /\ Candidates \ {top} \subseteq Queued'
      <4> HIDE DEF kept, top
      <4>1. kept[top] \in 1 .. MaxCopies
        BY <1>3, <2>6, <2>8, JitterAssumption
      <4>2. queue' \in [Stream -> 0 .. MaxCopies]
        BY <1>3, <2>6, <2>8, <3>1, <4>1, JitterAssumption
      <4>3. \A s \in Stream \ {top} : queue'[s] = kept[s]
        BY <2>6, <3>1
      <4> QED
        BY <1>1, <1>3, <2>6, <2>8, <4>2, <4>3 DEF Queued
    <3> HIDE DEF kept
    <3>4. out.seq < top /\ top <= last.seq
      BY <1>3, <1>4, <1>5, <2>8, <3>2
    <3>5. last.seq \in Queued' \cup {top}
      <4>1. last.seq # out.seq
        BY <1>5, <3>2, <3>4
      <4> QED
        BY <1>4, <3>3, <4>1 DEF Candidates
    <3>6. top \notin lost /\ less = lost
      <4>1. top \notin lost
        BY <1>3, <1>4, <2>8 DEF Settled
      <4> QED
        BY <3>2, <4>1
    <3> HIDE DEF less
    <3>7. ASSUME NEW s \in Stream PROVE s \in lost' <=> s \in lost /\ top < s
      <4>1. s \in Nat
        BY <1>5
      <4>2. IsNewer(top, s) <=> top > s
        BY <1>3, <2>8, StreamOrder
      <4>3. s \in lost' <=> s \in lost /\ ~(top > s)
        BY <2>5, <3>2, <3>6, <4>2 DEF StillWanted
      <4> QED
        BY <3>2, <3>6, <4>1, <4>3
    <3>8. ASSUME NEW s \in Stream
          PROVE  s \in lost' <=> s \notin Queued' /\ top < s /\ s < last.seq
      <4>1. s \in Nat
        BY <1>5
      <4>2. top < s => (s \in Queued' <=> s \in Queued) /\ out.seq < s
        BY <1>5, <3>2, <3>3, <3>4, <4>1 DEF Candidates
      <4>3. CASE Settled
        BY <3>7, <4>2, <4>3 DEF Settled
      <4>4. CASE lost = {} /\ Queued = {last.seq}
        <5>1. top = last.seq
          BY <1>3, <2>8, <4>4
        <5> QED
          BY <1>5, <3>7, <4>1, <4>4, <5>1
      <4> QED
        BY <1>4, <4>3, <4>4
    <3>9. lost' \in SUBSET Stream
      BY <1>1, <2>5 DEF TypeOK
    <3>10. Settled'
      <4>1. lost' = {s \in Stream : s \notin Queued' /\ top < s /\ s < last.seq}
        BY <3>8, <3>9
      <4> QED
        BY <2>1, <3>2, <4>1 DEF Settled
    <3>11. TypeOK'
      BY <1>1, <1>6, <2>1, <2>5, <3>3, <3>9 DEF TypeOK
    <3>12. \A s \in Queued' : s <= last.seq /\ top <= s
      BY <1>1, <1>3, <1>4, <2>8, <3>3
    <3> QED
      BY <1>4, <1>6, <2>1, <3>1, <3>2, <3>4, <3>5, <3>10, <3>11, <3>12 DEF BufferInv, HoldIsBounded
  <2> QED
    BY <2>7, <2>8
<1> QED
  BY <1>7, <1>8

LEMMA StutterKeeps == ASSUME BufferInv, UNCHANGED vars PROVE BufferInv'
<1>1. Queued' = Queued
  BY DEF vars, Queued
<1> QED
  BY <1>1 DEF vars, BufferInv, TypeOK, HoldIsBounded, Fresh, Settled

LEMMA NextKeeps == OneLap /\ BufferInv /\ [Next]_vars => BufferInv'
<1> SUFFICES ASSUME OneLap, BufferInv, [Next]_vars PROVE BufferInv'
  OBVIOUS
<1>1. CASE UNCHANGED vars
  BY <1>1, StutterKeeps
<1>2. ASSUME NEW s \in Stream, SetRTPPacket(s) PROVE BufferInv'
  BY <1>2, SetKeeps
<1>3. CASE GetRTPPacket
  BY <1>3, GetNothingKeeps, GetKeeps DEF GetRTPPacket
<1> QED
  BY <1>1, <1>2, <1>3 DEF Next

LEMMA BufferInvHolds == OneLap => (Spec => []BufferInv)
<1> SUFFICES ASSUME OneLap PROVE Spec => []BufferInv
  OBVIOUS
<1>1. Init => BufferInv
  BY InitBufferInv
<1>2. BufferInv /\ [Next]_vars => BufferInv'
  BY NextKeeps
<1> QED
  BY <1>1, <1>2, PTL DEF Spec

----------------------------------------------------------------------------
\* The buffer's variables keep their types, the lost set within the stream.
THEOREM JitterTypeOK == OneLap => (Spec => []TypeOK)
<1> SUFFICES ASSUME OneLap PROVE Spec => []TypeOK
  OBVIOUS
<1>1. BufferInv => TypeOK
  BY DEF BufferInv
<1> QED
  BY <1>1, BufferInvHolds, PTL

\* Whenever set_rtp returns, GetRTPPacket has let go of every packet that is
\* _buffer_duration behind the newest one.
THEOREM HoldIsAlwaysBounded == OneLap => (Spec => []HoldIsBounded)
<1> SUFFICES ASSUME OneLap PROVE Spec => []HoldIsBounded
  OBVIOUS
<1>1. BufferInv => HoldIsBounded
  BY DEF BufferInv
<1> QED
  BY <1>1, BufferInvHolds, PTL

\* No packet in _queue is in _lost_queue too.
THEOREM LostStaysMissing == OneLap => (Spec => []LostIsMissing)
<1> SUFFICES ASSUME OneLap PROVE Spec => []LostIsMissing
  OBVIOUS
<1>1. BufferInv => LostIsMissing
  BY DEF BufferInv, TypeOK, LostIsMissing, Fresh, Settled
<1> QED
  BY <1>1, BufferInvHolds, PTL

\* When GetRTPPacket returns NULL, _lost_queue is exactly what is missing
\* between the last packet out and the newest one in.
THEOREM LostStaysTheGaps == OneLap => (Spec => []LostIsTheGaps)
<1> SUFFICES ASSUME OneLap PROVE Spec => []LostIsTheGaps
  OBVIOUS
<1>1. ASSUME BufferInv, state = "sending", ~draining
      PROVE  lost = {s \in Stream \ Queued : IsNewer(s, out.seq) /\ IsNewer(last.seq, s)}
  <2>1. Settled /\ last.seq \in Stream /\ out.seq \in Stream
    BY <1>1 DEF BufferInv, Fresh, Settled
  <2>2. \A s \in Stream : (IsNewer(s, out.seq) <=> out.seq < s) /\ (IsNewer(last.seq, s) <=> s < last.seq)
    <3> SUFFICES ASSUME NEW s \in Stream
                 PROVE  (IsNewer(s, out.seq) <=> out.seq < s) /\ (IsNewer(last.seq, s) <=> s < last.seq)
      OBVIOUS
    <3>1. s \in Nat /\ out.seq \in Nat /\ last.seq \in Nat
      BY <2>1, StreamOrder
    <3>2. (IsNewer(s, out.seq) <=> s > out.seq) /\ (IsNewer(last.seq, s) <=> last.seq > s)
      BY <2>1, StreamOrder
    <3> QED
      BY <3>1, <3>2
  <2> QED
    BY <2>1, <2>2 DEF Settled
<1>2. BufferInv => LostIsTheGaps
  BY <1>1 DEF LostIsTheGaps
<1> QED
  BY <1>2, BufferInvHolds, PTL

\* A step of SetRTPPacket does not change the last packet out, but for a jump.
\* One of GetRTPPacket takes out a packet newer than the last one.
LEMMA StepKeepsOrder ==
  ASSUME OneLap, BufferInv, Next, out'.seq # out.seq, out.seq # 0, out'.seq # 0
  PROVE  IsNewer(out'.seq, out.seq)
<1>1. ASSUME NEW s \in Stream, SetRTPPacket(s) PROVE FALSE
  BY <1>1, UnsetIsBlock DEF SetRTPPacket, SetFirst, SetJump, SetLate, SetQueue
<1>2. ASSUME Get PROVE IsNewer(out'.seq, out.seq)
  <2>1. out' = IF Candidates = {} THEN out ELSE Info(Oldest(Candidates))
    BY <1>2 DEF Get
  <2>2. Candidates # {} /\ out' = Info(Oldest(Candidates))
    BY <2>1
  <2>3. Candidates \in SUBSET Stream /\ out.seq \in Stream
    BY DEF Candidates, Queued, BufferInv
  <2>4. Oldest(Candidates) \in Candidates /\ Oldest(Candidates) \in Stream
    BY <2>2, <2>3, OldestIsLeast
  <2>5. out'.seq = Oldest(Candidates) /\ out'.seq \in Stream
    BY <2>2, <2>4, InfoIsBlock
  <2>6. out.seq <= out'.seq /\ out.seq \in Nat /\ out'.seq \in Nat
    BY <2>3, <2>4, <2>5, StreamOrder DEF BufferInv, Candidates
  <2>7. out'.seq > out.seq
    BY <2>6
  <2> QED
    BY <2>3, <2>5, <2>7, StreamOrder
<1> QED
  BY <1>1, <1>2 DEF Next, GetRTPPacket, GetNothing

\* GetRTPPacket gives the remuxer each packet once and in order.
THEOREM OutputStaysInOrder == OneLap => (Spec => OutputInOrder)
<1> SUFFICES ASSUME OneLap PROVE Spec => OutputInOrder
  OBVIOUS
<1>1. BufferInv /\ [Next]_vars =>
        [out'.seq # out.seq /\ out.seq # 0 /\ out'.seq # 0 => IsNewer(out'.seq, out.seq)]_vars
  BY StepKeepsOrder
<1> QED
  BY <1>1, BufferInvHolds, PTL DEF Spec, OutputInOrder

=============================================================================
