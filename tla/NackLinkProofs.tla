--------------------------- MODULE NackLinkProofs ---------------------------
(***************************************************************************)
(* Proofs about NackLink, for every length of the stream, size of the      *)
(* lists, age limit and budget, as long as the stream stays in one lap of  *)
(* the sequence numbers (OneLap): past it the NACK lists do lose entries,  *)
(* as the run nack_wrap shows.                                             *)
(***************************************************************************)
EXTENDS NackLink, TLAPS, WellFoundedInduction, FiniteSetTheorems

----------------------------------------------------------------------------
(* Serial numbers, and the least of a set of naturals.                     *)

\* The distance from b to a leads back to a.
LEMMA SeqDiffPlus ==
  ASSUME NEW a \in Seqs, NEW b \in Seqs
  PROVE  SeqDiff(a, b) \in 0 .. SeqMod - 1 /\ SeqPlus(b, SeqDiff(a, b)) = a
BY SeqModAssumption DEF Seqs, SeqPlus, SeqDiff

\* The order of the naturals is a well-founded relation.
LEMMA NatOrder ==
  \E R : IsWellFoundedOn(R, Nat) /\ \A x, y \in Nat : <<y, x>> \in R <=> y < x
<1>1. IsWellFoundedOn(OpToRel(<, Nat), Nat)
  BY NatLessThanWellFounded
<1>2. \A x, y \in Nat : <<y, x>> \in OpToRel(<, Nat) <=> y < x
  BY DEF OpToRel
<1> QED
  BY <1>1, <1>2, Zenon

\* A set of naturals has a least element: the while loops that pop the front
\* of a buffer until a condition holds stop at the first such position.
LEMMA LeastNat ==
  ASSUME NEW T \in SUBSET Nat, T # {}
  PROVE  \E m \in T : \A k \in T : m <= k
<1>1. PICK R : IsWellFoundedOn(R, Nat)
               /\ \A x, y \in Nat : <<y, x>> \in R <=> y < x
  BY NatOrder
<1>2. PICK m \in T : \A y \in T : ~ (<<y, m>> \in R)
  BY <1>1, WFMin, Zenon
<1>3. ASSUME NEW k \in T PROVE m <= k
  <2>1. k \in Nat /\ m \in Nat
    OBVIOUS
  <2>2. ~ (k < m)
    BY <1>1, <1>2, <2>1, Zenon
  <2> QED
    BY <2>1, <2>2
<1> QED
  BY <1>3

----------------------------------------------------------------------------
(* The stream, in one lap of the numbers.                                  *)

\* The numbers do not wrap, 0 is not among them (a _lastseq of 0 means "no
\* packet yet"), and no packet resets _pkt_history.
OneLap == 0 < First /\ First + Count <= SeqMod /\ ResetBelow <= First

\* Within a lap serial order is the order of the integers.
LEMMA StreamOrder ==
  ASSUME OneLap
  PROVE  /\ Stream = First .. First + Count - 1
         /\ Stream \subseteq Seqs /\ 0 \notin Stream /\ Stream \subseteq Nat
         /\ \A s, t \in Stream : IsNewer(t, s) <=> t > s
         /\ \A s, t \in Stream : t >= s => SeqDiff(t, s) = t - s
         /\ \A s, t \in Stream : t > s => Between(s, t) = s + 1 .. t - 1
         /\ \A s \in Stream : Between(s, s) = {}
         /\ \A s \in Stream : ~(IsNewer(s, 0) /\ IsNewer(0, s))
         /\ IsFiniteSet(Stream)
<1> USE OneLap, NackAssumption, SeqModAssumption DEF OneLap, Seqs
<1>1. Stream = First .. First + Count - 1
  BY DEF Stream, SeqDiff
<1>2. Stream \subseteq Seqs /\ 0 \notin Stream /\ Stream \subseteq Nat
  BY <1>1
<1>3. \A s, t \in Stream : IsNewer(t, s) <=> t > s
  BY <1>1 DEF IsNewer, SeqDiff
<1>4. \A s, t \in Stream : t >= s => SeqDiff(t, s) = t - s
  BY <1>1 DEF SeqDiff
<1>5. \A s, t \in Stream : t > s => Between(s, t) = s + 1 .. t - 1
  BY <1>1 DEF Between, SeqDiff
<1>6. \A s \in Stream : Between(s, s) = {}
  BY <1>1 DEF Between, SeqDiff
<1>7. \A s \in Stream : ~(IsNewer(s, 0) /\ IsNewer(0, s))
  BY <1>1 DEF IsNewer, SeqDiff
<1>8. IsFiniteSet(Stream)
  BY <1>1, FS_Interval
<1> QED
  BY <1>1, <1>2, <1>3, <1>4, <1>5, <1>6, <1>7, <1>8

----------------------------------------------------------------------------
(* The two loops that trim a NACK list.                                    *)

\* The loop on the size leaves at most max_nacklst_size entries: the oldest
\* one left has fewer than that many newer ones.
LEMMA NewestAreFew ==
  ASSUME OneLap, NEW set \in SUBSET Stream
  PROVE  Cardinality(KeepNewest(set)) <= MaxSize
<1> DEFINE kept == KeepNewest(set)
           after(s) == {t \in set : IsNewer(t, s)}
<1>1. kept \subseteq set /\ set \subseteq Nat /\ IsFiniteSet(set) /\ IsFiniteSet(kept)
  BY StreamOrder, FS_Subset DEF KeepNewest
<1>2. CASE kept = {}
  BY <1>2, FS_EmptySet, NackAssumption
<1>3. CASE kept # {}
  <2>1. PICK m \in kept : \A k \in kept : m <= k
    BY <1>1, <1>3, LeastNat
  <2>2. IsFiniteSet(after(m)) /\ Cardinality(after(m)) < MaxSize
    BY <1>1, <2>1, FS_Subset DEF KeepNewest
  <2>3. kept \subseteq after(m) \cup {m}
    <3> SUFFICES ASSUME NEW k \in kept, k # m PROVE k \in after(m)
      OBVIOUS
    <3>1. k \in Stream /\ m \in Stream /\ m <= k /\ k \in set
      BY <1>1, <2>1
    <3> HIDE DEF kept
    <3>2. k > m
      BY <3>1, StreamOrder
    <3> QED
      BY <3>1, <3>2, StreamOrder
  <2>4. /\ IsFiniteSet(after(m) \cup {m})
        /\ Cardinality(after(m) \cup {m}) <= Cardinality(after(m)) + 1
        /\ Cardinality(after(m)) \in Nat
    <3> DEFINE newer == after(m)
    <3>1. IsFiniteSet(newer)
      BY <2>2
    <3> HIDE DEF newer
    <3>2. Cardinality(newer) \in Nat
      BY <3>1, FS_CardinalityType
    <3>3. /\ IsFiniteSet(newer \cup {m})
          /\ Cardinality(newer \cup {m}) =
               IF m \in newer THEN Cardinality(newer) ELSE Cardinality(newer) + 1
      BY <3>1, FS_AddElement
    <3>4. Cardinality(newer \cup {m}) <= Cardinality(newer) + 1
      BY <3>2, <3>3
    <3> QED
      BY <3>2, <3>3, <3>4 DEF newer
  <2>5. Cardinality(kept) <= Cardinality(after(m) \cup {m})
    BY <2>3, <2>4, FS_Subset
  <2> QED
    BY <2>2, <2>4, <2>5, <1>1, FS_CardinalityType, NackAssumption
<1> QED
  BY <1>2, <1>3

\* It keeps what is within max_nacklst_size of the last packet.
LEMMA NearIsKept ==
  ASSUME OneLap, NEW set \in SUBSET Stream, NEW last \in Stream,
         \A t \in set : t < last,
         NEW s \in set, last - s <= MaxSize
  PROVE  s \in KeepNewest(set)
<1> DEFINE after == {t \in set : IsNewer(t, s)}
<1>1. s \in Nat /\ last \in Nat /\ s < last /\ set \subseteq Nat
  BY StreamOrder
<1>2. after \subseteq s + 1 .. last - 1
  <2> SUFFICES ASSUME NEW t \in set, IsNewer(t, s) PROVE t \in s + 1 .. last - 1
    OBVIOUS
  <2>1. t \in Nat /\ t > s /\ t < last
    BY StreamOrder
  <2> QED
    BY <1>1, <2>1
<1>3. IsFiniteSet(s + 1 .. last - 1) /\ Cardinality(s + 1 .. last - 1) < MaxSize
  <2>1. s + 1 \in Int /\ last - 1 \in Int /\ last - s \in Nat /\ MaxSize \in Nat \ {0}
    BY <1>1, NackAssumption
  <2>2. /\ IsFiniteSet(s + 1 .. last - 1)
        /\ Cardinality(s + 1 .. last - 1) =
             IF s + 1 > last - 1 THEN 0 ELSE last - 1 - (s + 1) + 1
    BY <2>1, FS_Interval
  <2> QED
    BY <1>1, <2>1, <2>2
<1>4. Cardinality(after) \in Nat /\ Cardinality(after) <= Cardinality(s + 1 .. last - 1)
  BY <1>2, <1>3, FS_Subset, FS_CardinalityType
<1>5. Cardinality(s + 1 .. last - 1) \in Nat
  BY <1>3, FS_CardinalityType
<1> QED
  BY <1>3, <1>4, <1>5, NackAssumption DEF KeepNewest

\* The loops on the age keep what is within max_packet_age.
LEMMA YoungIsKept ==
  ASSUME NEW set, NEW last \in Nat, NEW s \in set, s \in Nat, s <= last,
         last - s <= MaxAge
  PROVE  s \in KeepYoung(set, last)
BY NackAssumption DEF KeepYoung, TooOld

\* _his_nacks, trimmed by the number of a packet that has come out of order,
\* loses nothing younger than max_packet_age: that packet is itself the
\* element the loop stops at.
LEMMA LateTrimsNothing ==
  ASSUME OneLap, NEW set \in SUBSET Stream, NEW s \in set, NEW x \in set, x >= s
  PROVE  x \in KeepYoung(set, s)
<1>1. s \in Nat /\ x \in Nat /\ ~TooOld(s, s)
  BY StreamOrder, NackAssumption DEF TooOld
<1>2. x = s \/ IsNewer(x, s)
  BY <1>1, StreamOrder
<1> QED
  BY <1>1, <1>2 DEF KeepYoung

----------------------------------------------------------------------------
(* The receiver.                                                           *)

\* What holds of the receiver while packets "late" have been noted in
\* _pkt_history and are still on the list: the FEC stage notes a packet,
\* and recovers another, before either is taken off the list.
RcvInv(r, late) ==
  /\ r \in Receiver
  /\ r.last # 0 => r.last \in r.history
  /\ r.base \in {0} \cup Stream /\ r.base <= r.last
  /\ r.base = 0 <=> r.last = 0
  /\ \A n \in r.nacks : n < r.last
  /\ r.his \subseteq r.history /\ \A h \in r.his \cup r.since : h <= r.last
  /\ r.nacks \cap r.his = {}
  /\ r.nacks \cap r.history \subseteq late
  /\ Cardinality(r.nacks) <= MaxSize
  /\ \A s \in Stream :
       /\ r.base < s /\ s < r.last /\ s \notin r.history
       /\ r.last - s <= MaxAge /\ r.last - s <= MaxSize
       => s \in r.nacks
  /\ \A s \in r.since : r.last - s <= MaxAge => s \in r.his

\* The fields of a trimmed session.
LEMMA TrimmedReceiver ==
  ASSUME NEW r \in Receiver, NEW listed \in SUBSET Stream
  PROVE  /\ Trimmed(r, listed) \in Receiver
         /\ Trimmed(r, listed).nacks = listed
         /\ Trimmed(r, listed).last = r.last /\ Trimmed(r, listed).epoch = r.epoch
         /\ Trimmed(r, listed).his = r.his /\ Trimmed(r, listed).history = r.history
         /\ Trimmed(r, listed).base = r.base /\ Trimmed(r, listed).since = r.since
<1>1. 0 \in 0 .. MaxRequests
  BY NackAssumption
<1> QED
  BY <1>1 DEF Trimmed, Receiver

\* _pkt_history notes a packet; in one lap it is never emptied.
LEMMA SeenKeeps ==
  ASSUME OneLap, NEW r, NEW late, RcvInv(r, late), NEW s \in Stream
  PROVE  /\ RcvInv(Seen(r, s), late \cup {s})
         /\ Seen(r, s).history = r.history \cup {s}
<1>1. s >= ResetBelow /\ s \in Nat /\ s # 0
  BY OneLap, StreamOrder, NackAssumption DEF OneLap, Seqs
<1>2. Seen(r, s) = [r EXCEPT !.history = {s} \cup r.history]
  BY <1>1, NackAssumption DEF Seen, RcvInv, Receiver
<1> DEFINE n == [r EXCEPT !.history = {s} \cup r.history]
<1>3. /\ n \in Receiver /\ n.history = r.history \cup {s}
      /\ n.nacks = r.nacks /\ n.last = r.last /\ n.base = r.base
      /\ n.his = r.his /\ n.since = r.since
  BY DEF RcvInv, Receiver
<1> HIDE DEF n
<1>4. RcvInv(n, late \cup {s})
  BY <1>3 DEF RcvInv
<1> QED
  BY <1>2, <1>3, <1>4 DEF n

\* A jump of the timestamp, or the first packet, starts the lists anew.
LEMMA StartedKeeps ==
  ASSUME OneLap, NEW r, NEW late, RcvInv(r, late), NEW s \in Stream, s \in r.history
  PROVE  /\ RcvInv(Started(r, s), late)
         /\ Started(r, s).history = r.history
         /\ Started(r, s).last \in Stream
<1> DEFINE q == Started(r, s)
<1>1. s \in Nat /\ s > 0 /\ s \in Seqs /\ Epoch(s) \in 0 .. 1 /\ r \in Receiver
  BY StreamOrder DEF Epoch, RcvInv
<1>2. CASE Epoch(s) # r.epoch
  <2> DEFINE e == Trimmed(r, {})
             n == [e EXCEPT !.last = s, !.epoch = Epoch(s), !.his = {},
                            !.base = s, !.since = {}]
  <2>1. e \in Receiver /\ e.nacks = {} /\ e.history = r.history
    BY <1>1, TrimmedReceiver
  <2> HIDE DEF e
  <2>2. /\ n \in Receiver /\ n.nacks = {} /\ n.history = r.history
        /\ n.last = s /\ n.base = s /\ n.his = {} /\ n.since = {}
    BY <1>1, <2>1 DEF Receiver
  <2> HIDE DEF n
  <2>3. Cardinality({}) <= MaxSize
    BY FS_EmptySet, NackAssumption
  <2>4. RcvInv(n, late)
    BY <1>1, <2>2, <2>3 DEF RcvInv
  <2>5. q = n
    BY <1>2 DEF Started, n, e
  <2> QED
    BY <2>2, <2>4, <2>5
<1>3. CASE Epoch(s) = r.epoch /\ r.last = 0
  <2> DEFINE n == [r EXCEPT !.last = s, !.base = s]
  <2>1. q = n
    BY <1>3 DEF Started
  <2>2. /\ n \in Receiver /\ n.nacks = r.nacks /\ n.history = r.history
        /\ n.last = s /\ n.base = s /\ n.his = r.his /\ n.since = r.since
    BY <1>1 DEF Receiver
  <2>3. r.nacks = {} /\ r.his = {} /\ r.since = {}
    <3>1. r.nacks \subseteq Nat /\ r.his \cup r.since \subseteq Stream
      BY <1>1, StreamOrder DEF Receiver
    <3>2. \A h \in Stream : h \in Nat /\ ~(h <= 0)
      BY StreamOrder
    <3>3. /\ \A x \in r.nacks : x \in Nat /\ x < 0
          /\ \A h \in r.his \cup r.since : h \in Stream /\ h <= 0
      BY <1>3, <3>1 DEF RcvInv
    <3> QED
      BY <3>2, <3>3
  <2> HIDE DEF n
  <2>4. RcvInv(n, late)
    BY <1>1, <2>2, <2>3 DEF RcvInv
  <2> QED
    BY <2>1, <2>2, <2>4
<1>4. CASE Epoch(s) = r.epoch /\ r.last # 0
  <2>1. q = r
    BY <1>4 DEF Started
  <2>2. r.last \in Stream
    BY <1>1, <1>4 DEF RcvInv, Receiver
  <2> QED
    BY <2>1, <2>2
<1> QED
  BY <1>2, <1>3, <1>4

\* Handling a packet that was noted takes it off the list, lists only what
\* was never noted, and trims neither list more than the limits say.
LEMMA HandleKeeps ==
  ASSUME OneLap, NEW r, NEW late, NEW s \in Stream,
         RcvInv(r, late \cup {s}), s \in r.history
  PROVE  /\ RcvInv(Handle(r, s), late)
         /\ Handle(r, s).history = r.history
<1> DEFINE q == Started(r, s)
           ahead == IsNewer(s, q.last)
           last == IF ahead THEN s ELSE q.last
           nacks == IF ahead THEN q.nacks \cup Gap(q, q.last, s) ELSE OffList(q.nacks, s)
           listed == KeepYoung(KeepNewest(nacks), last)
           his == Remembered(q.his \cup {s}, s)
           new == [Trimmed(q, listed) EXCEPT
                     !.last = last, !.his = his, !.since = q.since \cup {s}]
<1>1. RcvInv(q, late \cup {s}) /\ q.history = r.history /\ q.last \in Stream
  BY StartedKeeps
<1>2. /\ q \in Receiver /\ q.nacks \in SUBSET Stream /\ q.his \in SUBSET Stream
      /\ q.since \in SUBSET Stream /\ q.history \in SUBSET Stream
      /\ s \in Nat /\ q.last \in Nat /\ Stream \subseteq Nat /\ q.base \in Nat
  BY <1>1, StreamOrder DEF RcvInv, Receiver
<1>3. CASE s \in q.his
  <2>1. Handle(r, s) = q
    BY <1>3 DEF Handle
  <2> HIDE DEF q
  <2> QED
    BY <1>1, <1>3, <2>1 DEF RcvInv
<1>4. CASE s \notin q.his
  <2>1. Handle(r, s) = [Trimmed(q, listed) EXCEPT
                          !.last = last, !.his = his, !.since = @ \cup {s}]
    BY <1>4 DEF Handle
  <2> HIDE DEF q
  <2>2. ahead <=> s > q.last
    BY <1>1, StreamOrder
  <2> HIDE DEF ahead
  <2>3. last \in Stream /\ last \in Nat /\ last >= s /\ last >= q.last
        /\ (last = s \/ last = q.last) /\ last > 0
    BY <1>1, <1>2, <2>2, StreamOrder
  <2>4. s > q.last => Gap(q, q.last, s) = {i \in q.last + 1 .. s - 1 : i \notin q.history}
    <3>1. s > q.last => Between(q.last, s) = q.last + 1 .. s - 1
      BY <1>1, StreamOrder
    <3> QED
      BY <3>1 DEF Gap
  <2>5. q.last + 1 .. s - 1 \subseteq Stream
    <3>1. Stream = First .. First + Count - 1 /\ First \in Int /\ Count \in Int
      BY StreamOrder, NackAssumption, SeqModAssumption DEF Seqs
    <3> QED
      BY <1>1, <3>1
  <2>6. /\ nacks \in SUBSET Stream /\ s \notin nacks
        /\ \A n \in nacks : n < last
        /\ nacks \cap q.history \subseteq late
        /\ nacks \cap q.his = {}
    <3>1. CASE s > q.last
      <4>1. nacks = q.nacks \cup {i \in q.last + 1 .. s - 1 : i \notin q.history}
        BY <2>2, <2>4, <3>1
      <4>2. last = s
        BY <2>2, <3>1
      <4>3. /\ q.his \subseteq q.history /\ q.nacks \cap q.his = {}
            /\ q.nacks \cap q.history \subseteq late \cup {s}
            /\ \A n \in q.nacks : n < q.last /\ n \in Nat
        BY <1>1, <1>2 DEF RcvInv
      <4>4. s \notin q.nacks
        BY <1>2, <3>1, <4>3
      <4> HIDE DEF nacks, last
      <4>5. \A n \in nacks : n < last
        BY <1>2, <3>1, <4>1, <4>2, <4>3
      <4> QED
        BY <1>2, <2>5, <4>1, <4>3, <4>4, <4>5
    <3>2. CASE ~(s > q.last)
      <4>1. nacks = q.nacks \ {s} /\ last = q.last
        BY <2>2, <3>2 DEF OffList
      <4> HIDE DEF nacks, last
      <4> QED
        BY <1>1, <1>2, <4>1 DEF RcvInv
    <3> QED
      BY <3>1, <3>2
  <2>7. /\ listed \subseteq nacks /\ listed \in SUBSET Stream
        /\ Cardinality(listed) <= MaxSize
    <3> DEFINE few == KeepNewest(nacks)
    <3>1. few \subseteq nacks /\ listed \subseteq few
      BY DEF KeepNewest, KeepYoung
    <3>2. few \in SUBSET Stream /\ IsFiniteSet(few) /\ Cardinality(few) <= MaxSize
      BY <2>6, <3>1, NewestAreFew, StreamOrder, FS_Subset
    <3> HIDE DEF few, listed
    <3>3. Cardinality(few) \in Nat /\ Cardinality(listed) \in Nat
          /\ Cardinality(listed) <= Cardinality(few)
      BY <3>1, <3>2, FS_Subset, FS_CardinalityType
    <3> QED
      BY <2>6, <3>1, <3>2, <3>3, NackAssumption
  <2>8. ASSUME NEW x \in Stream, q.base < x, x < last, x \notin q.history,
               last - x <= MaxAge, last - x <= MaxSize
        PROVE  x \in listed
    <3>1. x \in nacks
      <4>1. x \in Nat /\ MaxAge \in Nat /\ MaxSize \in Nat
        BY <1>2, NackAssumption
      <4>2. CASE x < q.last
        <5>1. q.last - x <= MaxAge /\ q.last - x <= MaxSize
          BY <1>2, <2>3, <2>8, <4>1
        <5>2. x \in q.nacks
          BY <1>1, <2>8, <4>2, <5>1 DEF RcvInv
        <5>3. x # s
          BY <1>1, <2>8
        <5> QED
          BY <5>2, <5>3 DEF OffList
      <4>3. CASE x = q.last
        BY <1>1, <1>2, <2>8, <4>3, StreamOrder DEF RcvInv
      <4>4. CASE x > q.last
        <5>1. ahead /\ last = s
          BY <1>2, <2>2, <2>3, <2>8, <4>1, <4>4
        <5>2. x \in q.last + 1 .. s - 1
          BY <1>2, <2>8, <4>1, <4>4, <5>1
        <5> QED
          BY <1>2, <2>2, <2>4, <2>8, <5>1, <5>2
      <4> QED
        BY <1>2, <4>1, <4>2, <4>3, <4>4
    <3> HIDE DEF nacks, last
    <3>2. x \in KeepNewest(nacks)
      BY <2>3, <2>6, <2>8, <3>1, NearIsKept
    <3>3. x \in Nat /\ x <= last
      BY <1>2, <2>3, <2>8
    <3> QED
      BY <2>3, <2>8, <3>2, <3>3, YoungIsKept
  <2>9. /\ his \subseteq q.his \cup {s}
        /\ \A x \in q.his \cup {s} : last - x <= MaxAge => x \in his
    <3>1. his \subseteq q.his \cup {s}
      BY DEF Remembered, KeepYoung
    <3>2. ASSUME NEW x \in q.his \cup {s}, last - x <= MaxAge PROVE x \in his
      <4>1. x \in Nat /\ q.his \cup {s} \in SUBSET Stream
        BY <1>2
      <4>2. CASE x >= s
        BY <4>1, <4>2, LateTrimsNothing DEF Remembered
      <4>3. CASE x < s
        <5>1. x <= s /\ s - x <= MaxAge
          BY <1>2, <2>3, <3>2, <4>1, <4>3, NackAssumption
        <5> QED
          BY <1>2, <4>1, <5>1, YoungIsKept DEF Remembered
      <4> QED
        BY <1>2, <4>1, <4>2, <4>3
    <3> QED
      BY <3>1, <3>2
  <2>10. /\ new \in Receiver /\ new.nacks = listed /\ new.last = last /\ new.his = his
         /\ new.since = q.since \cup {s} /\ new.history = q.history /\ new.base = q.base
         /\ new = Handle(r, s)
    <3> DEFINE e == Trimmed(q, listed)
    <3>1. /\ e \in Receiver /\ e.nacks = listed /\ e.last = q.last /\ e.his = q.his
          /\ e.history = q.history /\ e.base = q.base /\ e.since = q.since
      BY <1>2, <2>7, TrimmedReceiver
    <3>2. last \in Seqs /\ his \in SUBSET Stream /\ q.since \cup {s} \in SUBSET Stream
      BY <1>2, <2>3, <2>9, StreamOrder
    <3>3. new = Handle(r, s)
      BY <2>1, <3>1
    <3> HIDE DEF e, last, his, listed
    <3> QED
      BY <3>1, <3>2, <3>3 DEF Receiver, e
  <2> HIDE DEF new, last, his, listed, nacks
  <2>11. /\ new.last # 0 => new.last \in new.history
         /\ new.base \in {0} \cup Stream /\ new.base <= new.last
         /\ new.base = 0 <=> new.last = 0
    <3>1. q.last \in q.history /\ s \in q.history /\ q.base \in {0} \cup Stream
          /\ q.base <= q.last /\ q.base # 0
      BY <1>1, StreamOrder DEF RcvInv
    <3> QED
      BY <1>2, <2>3, <2>10, <3>1
  <2>12. \A h \in new.his \cup new.since : h <= new.last
    <3>1. \A h \in q.his \cup q.since : h <= q.last /\ h \in Nat
      BY <1>1, <1>2 DEF RcvInv
    <3>2. \A h \in new.his \cup new.since : h \in q.his \cup q.since \cup {s}
      BY <2>9, <2>10
    <3> QED
      BY <1>2, <2>3, <2>10, <3>1, <3>2
  <2>13. /\ new.his \subseteq new.history /\ new.nacks \cap new.his = {}
         /\ new.nacks \cap new.history \subseteq late
         /\ \A n \in new.nacks : n < new.last
    <3>1. q.his \subseteq q.history
      BY <1>1 DEF RcvInv
    <3> QED
      BY <1>1, <2>6, <2>7, <2>9, <2>10, <3>1
  <2>14. \A x \in new.since : new.last - x <= MaxAge => x \in new.his
    <3> SUFFICES ASSUME NEW x \in q.since \cup {s}, last - x <= MaxAge PROVE x \in his
      BY <2>10
    <3>1. CASE x = s
      BY <2>9, <3>1
    <3>2. CASE x \in q.since
      <4>1. x \in Nat /\ MaxAge \in Nat
        BY <1>2, <3>2, NackAssumption
      <4>2. q.last - x <= MaxAge
        BY <1>2, <2>3, <4>1
      <4>3. x \in q.his
        BY <1>1, <3>2, <4>2 DEF RcvInv
      <4> QED
        BY <2>9, <4>3
    <3> QED
      BY <3>1, <3>2
  <2>15. RcvInv(new, late)
    BY <2>7, <2>8, <2>10, <2>11, <2>12, <2>13, <2>14 DEF RcvInv
  <2> QED
    BY <1>1, <2>10, <2>15
<1> QED
  BY <1>3, <1>4

\* An arrival, of a packet and of what it lets the FEC stage recover.
LEMMA ArrivesKeeps ==
  ASSUME OneLap, RcvInv(rcv, {}), NEW s \in Stream, NEW recovered \in SUBSET Stream,
         recovered = {} \/ \E x \in Stream : recovered = {x},
         Arrives(s, recovered)
  PROVE  /\ RcvInv(rcv', {})
         /\ rcv'.history = rcv.history \cup {s} \cup recovered
<1> DEFINE noted == Seen(rcv, s)
<1>1. RcvInv(noted, {s}) /\ noted.history = rcv.history \cup {s}
  <2>1. {} \cup {s} = {s}
    OBVIOUS
  <2> QED
    BY <2>1, SeenKeeps
<1>2. CASE recovered = {}
  <2>1. rcv' = Handle(noted, s)
    BY <1>2 DEF Arrives
  <2> HIDE DEF noted
  <2>2. RcvInv(noted, {} \cup {s})
    BY <1>1
  <2> QED
    BY <1>1, <1>2, <2>1, <2>2, HandleKeeps
<1>3. CASE \E x \in Stream : recovered = {x}
  <2>1. PICK x \in Stream : recovered = {x}
    BY <1>3
  <2> DEFINE both == Seen(noted, x)
             fixed == Handle(both, x)
  <2>2. rcv' = Handle(fixed, s)
    <3>1. recovered # {} /\ (CHOOSE y \in recovered : TRUE) = x
      BY <2>1
    <3> QED
      BY <3>1 DEF Arrives
  <2> HIDE DEF noted
  <2>3. RcvInv(both, {s} \cup {x}) /\ both.history = noted.history \cup {x}
    BY <1>1, SeenKeeps
  <2> HIDE DEF both
  <2>4. x \in both.history
    BY <2>3
  <2>5. RcvInv(fixed, {s}) /\ fixed.history = both.history
    BY <2>3, <2>4, HandleKeeps
  <2> HIDE DEF fixed
  <2>6. s \in fixed.history /\ RcvInv(fixed, {} \cup {s})
    BY <1>1, <2>3, <2>5
  <2>7. RcvInv(Handle(fixed, s), {}) /\ Handle(fixed, s).history = fixed.history
    BY <2>6, HandleKeeps
  <2> QED
    BY <1>1, <2>1, <2>2, <2>3, <2>5, <2>7
<1> QED
  BY <1>2, <1>3

----------------------------------------------------------------------------
(* The two sessions and the network.                                       *)

LinkInv ==
  /\ sent \subseteq Stream /\ rtpNet \subseteq sent /\ nackNet \subseteq Stream
  /\ quiet \in BOOLEAN
  /\ snd \in Sender
  /\ rcv.history \subseteq sent
  /\ RcvInv(rcv, {})

LEMMA InitLinkInv == OneLap /\ Init => LinkInv
<1> SUFFICES ASSUME OneLap, Init PROVE LinkInv
  OBVIOUS
<1>1. 0 \in Seqs /\ 0 \in 0 .. 1 /\ 0 \in 0 .. MaxRequests /\ 0 \in 0 .. MaxAnswers
  BY NackAssumption, SeqModAssumption DEF Seqs
<1>2. snd \in Sender
  BY <1>1 DEF Init, Sender
<1>3. /\ rcv \in Receiver /\ rcv.last = 0 /\ rcv.base = 0 /\ rcv.nacks = {}
      /\ rcv.his = {} /\ rcv.history = {} /\ rcv.since = {}
  BY <1>1 DEF Init, Receiver
<1>4. Cardinality({}) <= MaxSize
  BY FS_EmptySet, NackAssumption
<1>5. \A s \in Stream : ~(s < 0)
  BY StreamOrder
<1>6. RcvInv(rcv, {})
  BY <1>3, <1>4, <1>5 DEF RcvInv
<1> QED
  BY <1>2, <1>3, <1>6 DEF Init, LinkInv

\* Requesting changes counts and pauses only.
LEMMA PauseKeeps ==
  ASSUME NEW r, RcvInv(r, {}), NEW n, n \in Receiver,
         n.last = r.last, n.nacks = r.nacks, n.his = r.his, n.history = r.history,
         n.base = r.base, n.since = r.since
  PROVE  RcvInv(n, {})
BY DEF RcvInv

LEMMA NackTimerKeeps == LinkInv /\ NackTimer => LinkInv'
<1> SUFFICES ASSUME LinkInv, NackTimer PROVE LinkInv'
  OBVIOUS
<1>1. PICK R \in SUBSET Due :
        /\ rcv' = Served(rcv, R)
        /\ nackNet' = IF quiet THEN nackNet ELSE nackNet \cup R
  BY DEF NackTimer
<1>2. R \subseteq rcv.nacks /\ \A s \in R : rcv.count[s] < MaxRequests
  BY DEF Due
<1>3. rcv \in Receiver /\ R \subseteq Stream
  BY <1>2 DEF LinkInv, RcvInv, Receiver
<1>4. \A s \in Stream : (IF s \in R THEN rcv.count[s] + 1 ELSE rcv.count[s]) \in 0 .. MaxRequests
  BY <1>2, <1>3, NackAssumption DEF Receiver
<1>5. /\ rcv' \in Receiver /\ rcv'.last = rcv.last /\ rcv'.nacks = rcv.nacks
      /\ rcv'.his = rcv.his /\ rcv'.history = rcv.history
      /\ rcv'.base = rcv.base /\ rcv'.since = rcv.since
  BY <1>1, <1>3, <1>4 DEF Served, Receiver
<1>6. RcvInv(rcv', {})
  BY <1>5, PauseKeeps DEF LinkInv
<1> QED
  BY <1>1, <1>3, <1>5, <1>6 DEF LinkInv, NackTimer

LEMMA TickKeeps == LinkInv /\ Tick => LinkInv'
<1> SUFFICES ASSUME LinkInv, Tick PROVE LinkInv'
  OBVIOUS
<1>1. rcv \in Receiver
  BY DEF LinkInv, RcvInv
<1>2. /\ rcv' \in Receiver /\ rcv'.last = rcv.last /\ rcv'.nacks = rcv.nacks
      /\ rcv'.his = rcv.his /\ rcv'.history = rcv.history
      /\ rcv'.base = rcv.base /\ rcv'.since = rcv.since
  BY <1>1 DEF Tick, Receiver
<1>3. RcvInv(rcv', {})
  BY <1>2, PauseKeeps DEF LinkInv
<1>4. snd' \in Sender /\ quiet' \in BOOLEAN
  BY DEF Tick, LinkInv, Sender
<1> QED
  BY <1>2, <1>3, <1>4 DEF LinkInv, Tick

LEMMA ForwardTypes ==
  ASSUME OneLap, LinkInv, NEW s \in Stream, Forward(s)
  PROVE  snd' \in Sender
<1> DEFINE jump == Epoch(s) # snd.epoch
           last == IF jump THEN s ELSE LastSent(snd.last, s)
           nacks == IF jump THEN {} ELSE snd.nacks
           listed == KeepYoung(KeepNewest(nacks), last)
           e == Trimmed(snd, listed)
<1>1. snd' = [e EXCEPT !.last = last, !.epoch = Epoch(s)]
  BY DEF Forward
<1>2. last \in Seqs /\ listed \subseteq Stream /\ Epoch(s) \in 0 .. 1
  BY StreamOrder DEF LinkInv, Sender, LastSent, KeepYoung, KeepNewest, Epoch
<1> HIDE DEF last, listed
<1>3. 0 \in 0 .. MaxAnswers
  BY NackAssumption
<1>4. e \in Sender
  BY <1>2, <1>3 DEF Trimmed, LinkInv, Sender
<1> QED
  BY <1>1, <1>2, <1>4 DEF Sender

LEMMA AnswerTypes ==
  ASSUME LinkInv, NEW R, AnswerNack(R)
  PROVE  snd' \in Sender /\ rtpNet' \subseteq sent
<1> DEFINE A == Answerable(R)
<1>1. A \subseteq sent /\ Eligible(R) \subseteq Stream /\ \A s \in A : snd.count[s] < MaxAnswers
  BY DEF Answerable, Eligible, LinkInv
<1>2. snd' = [Served(snd, A) EXCEPT !.nacks = @ \cup Eligible(R)]
  BY DEF AnswerNack
<1>3. snd \in Sender /\ A \subseteq Stream
  BY <1>1 DEF LinkInv
<1> HIDE DEF A
<1>4. \A s \in Stream : (IF s \in A THEN snd.count[s] + 1 ELSE snd.count[s]) \in 0 .. MaxAnswers
  BY <1>1, <1>3, NackAssumption DEF Sender
<1>5. Served(snd, A) \in Sender
  BY <1>3, <1>4 DEF Served, Sender
<1>6. rtpNet' \subseteq sent
  BY <1>1 DEF AnswerNack, LinkInv, A
<1> QED
  BY <1>1, <1>2, <1>5, <1>6 DEF Sender

LEMMA NextKeepsLinkInv == OneLap /\ LinkInv /\ [Next]_vars => LinkInv'
<1> SUFFICES ASSUME OneLap, LinkInv, [Next]_vars PROVE LinkInv'
  OBVIOUS
<1>1. ASSUME NEW s \in Stream, Forward(s) PROVE LinkInv'
  BY <1>1, ForwardTypes DEF LinkInv, Forward
<1>2. ASSUME NEW s \in Stream, Deliver(s) PROVE LinkInv'
  <2>1. PICK recovered \in Recoverable : Arrives(s, recovered)
    BY <1>2 DEF Deliver
  <2>2. /\ recovered \in SUBSET Stream /\ recovered \subseteq sent
        /\ recovered = {} \/ \E x \in Stream : recovered = {x}
    BY DEF Recoverable, LinkInv
  <2>3. RcvInv(rcv', {}) /\ rcv'.history = rcv.history \cup {s} \cup recovered
    BY <2>1, <2>2, ArrivesKeeps DEF LinkInv
  <2>4. s \in sent /\ rtpNet' \subseteq sent /\ quiet' \in BOOLEAN
    BY <1>2, <2>1 DEF Deliver, LinkInv, Arrives
  <2> QED
    BY <1>2, <2>2, <2>3, <2>4 DEF LinkInv, Deliver
<1>3. ASSUME NEW x \in Stream, Recover(x) PROVE LinkInv'
  <2>1. Arrives(x, {}) /\ x \in sent
    BY <1>3 DEF Recover
  <2>2. RcvInv(rcv', {}) /\ rcv'.history = rcv.history \cup {x} \cup {}
    BY <2>1, ArrivesKeeps DEF LinkInv
  <2>3. quiet' \in BOOLEAN
    BY <2>1 DEF Arrives
  <2> QED
    BY <1>3, <2>1, <2>2, <2>3 DEF LinkInv, Recover
<1>4. ASSUME NEW s \in Stream, Lose(s) PROVE LinkInv'
  BY <1>4 DEF LinkInv, Lose
<1>5. ASSUME NEW R \in SUBSET nackNet, AnswerNack(R) PROVE LinkInv'
  BY <1>5, AnswerTypes DEF LinkInv, AnswerNack
<1>6. CASE NackTimer
  BY <1>6, NackTimerKeeps
<1>7. CASE Tick
  BY <1>7, TickKeeps
<1>8. CASE UNCHANGED vars
  BY <1>8 DEF LinkInv, vars
<1> QED
  BY <1>1, <1>2, <1>3, <1>4, <1>5, <1>6, <1>7, <1>8 DEF Next

LEMMA LinkInvHolds == OneLap /\ Spec => []LinkInv
<1> SUFFICES ASSUME OneLap PROVE Spec => []LinkInv
  OBVIOUS
<1>1. Init => LinkInv
  BY InitLinkInv
<1>2. LinkInv /\ [Next]_vars => LinkInv'
  BY NextKeepsLinkInv
<1> QED
  BY <1>1, <1>2, PTL DEF Spec

\* Every list, count and number keeps its range: no entry is requested or
\* answered more often than its budget, and the receiver's list never holds
\* more than max_nacklst_size entries.
THEOREM LinkTypeOK == OneLap /\ Spec => []TypeOK
<1>1. LinkInv => TypeOK
  BY DEF LinkInv, RcvInv, TypeOK
<1> QED
  BY <1>1, LinkInvHolds, PTL

\* RTPRecvSession requests only packets that have neither come in nor been
\* recovered, in whatever order packets and FEC packets come.
THEOREM RequestedIsMissing == OneLap /\ Spec => []ListedIsMissing
<1>1. LinkInv => ListedIsMissing
  BY DEF LinkInv, RcvInv, ListedIsMissing
<1> QED
  BY <1>1, LinkInvHolds, PTL

\* No packet behind _lastseq is forgotten: it has come, or is listed, or is
\* beyond max_packet_age or max_nacklst_size.
THEOREM MissingIsListed == OneLap /\ Spec => []GapsAreListed
<1> SUFFICES ASSUME OneLap PROVE Spec => []GapsAreListed
  OBVIOUS
<1>1. ASSUME LinkInv PROVE GapsAreListed
  <2> SUFFICES ASSUME NEW s \in Stream,
                      IsNewer(s, rcv.base), IsNewer(rcv.last, s), s \notin rcv.history,
                      SeqDiff(rcv.last, s) <= MaxAge, SeqDiff(rcv.last, s) <= MaxSize
               PROVE  s \in rcv.nacks
    BY DEF GapsAreListed
  <2>1. rcv.last # 0 /\ rcv.last \in Stream /\ rcv.base \in Stream
    <3>1. rcv.last # 0
      BY <1>1, StreamOrder DEF LinkInv, RcvInv
    <3> QED
      BY <1>1, <3>1 DEF LinkInv, RcvInv, Receiver
  <2>2. rcv.base < s /\ s < rcv.last
    BY <1>1, <2>1, StreamOrder
  <2>3. SeqDiff(rcv.last, s) = rcv.last - s
    BY <1>1, <2>1, <2>2, StreamOrder
  <2> QED
    BY <1>1, <2>2, <2>3 DEF LinkInv, RcvInv
<1> QED
  BY <1>1, LinkInvHolds, PTL

\* A duplicate of any of the last max_packet_age packets is recognised,
\* whatever late packet trimmed _his_nacks in between.
THEOREM RecentStaysRemembered == OneLap /\ Spec => []RecentIsRemembered
<1> SUFFICES ASSUME OneLap PROVE Spec => []RecentIsRemembered
  OBVIOUS
<1>1. ASSUME LinkInv PROVE RecentIsRemembered
  <2> SUFFICES ASSUME NEW s \in rcv.since, SeqDiff(rcv.last, s) <= MaxAge
               PROVE  s \in rcv.his
    BY DEF RecentIsRemembered
  <2>1. s \in Stream /\ s <= rcv.last /\ rcv.last \in {0} \cup Stream
    BY <1>1 DEF LinkInv, RcvInv, Receiver
  <2>2. rcv.last \in Stream
    BY <1>1, <2>1, StreamOrder
  <2>3. SeqDiff(rcv.last, s) = rcv.last - s
    BY <1>1, <2>1, <2>2, StreamOrder
  <2> QED
    BY <1>1, <2>3 DEF LinkInv, RcvInv
<1> QED
  BY <1>1, LinkInvHolds, PTL

----------------------------------------------------------------------------
(* What is requested is behind what was sent.                              *)

\* All timestamps are within 20 s of each other; the first one is 20 s away
\* from 0, or the numbers begin in the lower half of the cycle, without which
\* the sender's _lastseq stays 0.
Steady == JumpAt = 0 \/ (JumpAt >= Count /\ First + Count <= Half + 1)

SentInv ==
  /\ sent = {} => snd.last = 0 /\ snd.epoch = 0
  /\ sent # {} => snd.last \in sent
  /\ \A s \in sent : s <= snd.last /\ snd.epoch = Epoch(s)
  /\ \A n \in nackNet : n <= snd.last

LEMMA ForwardKeepsSent ==
  ASSUME OneLap, Steady, LinkInv, SentInv, NEW s \in Stream, Forward(s)
  PROVE  SentInv'
<1>1. /\ s \in Nat /\ sent \subseteq Stream /\ Stream \subseteq Nat
      /\ nackNet \subseteq Stream /\ snd \in Sender
  BY StreamOrder DEF LinkInv
<1>2. \A x \in Stream : Epoch(x) = Epoch(s)
  <2>1. ASSUME NEW x \in Stream
        PROVE  SeqDiff(x, First) = x - First /\ x - First \in Nat /\ x - First < Count
    <3>1. Stream = First .. First + Count - 1 /\ First \in Nat /\ Count \in Nat
      BY StreamOrder, NackAssumption, SeqModAssumption DEF Seqs
    <3>2. First \in Stream /\ x >= First /\ x - First < Count /\ x \in Nat
      BY <3>1
    <3> QED
      BY <3>1, <3>2, StreamOrder
  <2> QED
    BY <2>1, StreamOrder, NackAssumption DEF Steady, Epoch
<1> DEFINE jump == Epoch(s) # snd.epoch
           last == IF jump THEN s ELSE LastSent(snd.last, s)
           nacks == IF jump THEN {} ELSE snd.nacks
           listed == KeepYoung(KeepNewest(nacks), last)
           e == Trimmed(snd, listed)
<1>3. snd' = [e EXCEPT !.last = last, !.epoch = Epoch(s)] /\ sent' = sent \cup {s}
      /\ nackNet' = nackNet
  BY DEF Forward
<1>4. last \in sent' /\ last >= s /\ last >= snd.last
  <2>1. CASE sent = {}
    <3>1. snd.last = 0 /\ snd.epoch = 0
      BY <2>1 DEF SentInv
    <3>2. ~jump => ~IsNewer(0, s)
      <4>1. ~jump => JumpAt # 0
        BY <3>1, StreamOrder, NackAssumption, SeqModAssumption, SeqDiffPlus DEF Epoch, Seqs
      <4>2. JumpAt # 0 => s <= Half
        BY StreamOrder, NackAssumption, SeqModAssumption DEF Steady, Seqs
      <4>3. s <= Half => ~IsNewer(0, s)
        BY <1>1, StreamOrder, SeqModAssumption DEF IsNewer, SeqDiff, Seqs
      <4> QED
        BY <4>1, <4>2, <4>3
    <3>3. last = s
      BY <3>1, <3>2 DEF LastSent
    <3> QED
      BY <1>1, <1>3, <3>1, <3>3
  <2>2. CASE sent # {}
    <3>1. snd.last \in sent /\ snd.last \in Stream
      BY <1>1, <2>2 DEF SentInv
    <3>2. snd.epoch = Epoch(snd.last) /\ Epoch(snd.last) = Epoch(s)
      BY <1>2, <3>1 DEF SentInv
    <3>3. last = IF snd.last > s THEN snd.last ELSE s
      BY <3>1, <3>2, StreamOrder DEF LastSent
    <3> QED
      BY <1>1, <1>3, <3>1, <3>3
  <2> QED
    BY <2>1, <2>2
<1>5. snd'.last = last /\ snd'.epoch = Epoch(s)
  <2>1. \A r \in Sender, l \in Seqs, p \in 0 .. 1 :
          /\ [r EXCEPT !.last = l, !.epoch = p].last = l
          /\ [r EXCEPT !.last = l, !.epoch = p].epoch = p
    BY DEF Sender
  <2>2. last \in Seqs /\ Epoch(s) \in 0 .. 1 /\ 0 \in 0 .. MaxAnswers
    BY <1>1, <1>3, <1>4, StreamOrder, NackAssumption DEF Epoch
  <2>3. listed \subseteq Stream
    BY <1>1 DEF KeepYoung, KeepNewest, Sender
  <2> HIDE DEF last, listed
  <2>4. e \in Sender
    BY <1>1, <2>2, <2>3 DEF Trimmed, Sender
  <2> QED
    BY <1>3, <2>1, <2>2, <2>4
<1>6. last \in Nat /\ snd.last \in Nat
  BY <1>1, <1>3, <1>4, SeqModAssumption DEF Sender, Seqs
<1> HIDE DEF last
<1>7. \A x \in sent' : x <= last /\ Epoch(s) = Epoch(x)
  BY <1>1, <1>2, <1>3, <1>4, <1>6 DEF SentInv
<1>8. \A n \in nackNet' : n <= last
  BY <1>1, <1>3, <1>4, <1>6 DEF SentInv
<1> QED
  BY <1>3, <1>4, <1>5, <1>7, <1>8 DEF SentInv

LEMMA NextKeepsSent ==
  ASSUME OneLap, Steady, LinkInv, SentInv, [Next]_vars
  PROVE  SentInv'
<1>1. ASSUME NEW s \in Stream, Forward(s) PROVE SentInv'
  BY <1>1, ForwardKeepsSent
<1>2. ASSUME UNCHANGED <<sent, snd>>, nackNet' \subseteq nackNet PROVE SentInv'
  BY <1>2 DEF SentInv
<1>3. ASSUME NEW s \in Stream, Deliver(s) \/ Recover(s) \/ Lose(s) PROVE SentInv'
  BY <1>2, <1>3 DEF Deliver, Recover, Lose
<1>4. ASSUME NEW R \in SUBSET nackNet, AnswerNack(R) PROVE SentInv'
  <2> DEFINE A == Answerable(R)
  <2>1. snd' = [Served(snd, A) EXCEPT !.nacks = @ \cup Eligible(R)] /\ sent' = sent
        /\ nackNet' \subseteq nackNet
    BY <1>4 DEF AnswerNack
  <2> HIDE DEF A
  <2>2. snd'.last = snd.last /\ snd'.epoch = snd.epoch
    BY <2>1 DEF Served, LinkInv, Sender
  <2> QED
    BY <2>1, <2>2 DEF SentInv
<1>5. CASE NackTimer
  <2>1. UNCHANGED <<sent, snd>> /\ nackNet' \subseteq nackNet \cup rcv.nacks
    BY <1>5 DEF NackTimer, Due
  <2>2. \A n \in rcv.nacks : n <= snd.last
    <3> SUFFICES ASSUME NEW n \in rcv.nacks PROVE n <= snd.last
      OBVIOUS
    <3>1. /\ n < rcv.last /\ n \in Stream /\ rcv.last \in {0} \cup sent
          /\ sent \subseteq Stream /\ snd \in Sender
      BY DEF LinkInv, RcvInv, Receiver
    <3>2. n \in Nat /\ rcv.last \in sent /\ rcv.last \in Nat /\ snd.last \in Nat
      BY <3>1, StreamOrder, SeqModAssumption DEF Sender, Seqs
    <3>3. rcv.last <= snd.last
      BY <3>2 DEF SentInv
    <3> QED
      BY <3>1, <3>2, <3>3
  <2> QED
    BY <2>1, <2>2 DEF SentInv
<1>6. CASE Tick
  <2>1. sent' = sent /\ nackNet' = nackNet /\ snd'.last = snd.last /\ snd'.epoch = snd.epoch
    BY <1>6 DEF Tick, LinkInv, Sender
  <2> QED
    BY <2>1 DEF SentInv
<1>7. CASE UNCHANGED vars
  BY <1>7, <1>2 DEF vars
<1> QED
  BY <1>1, <1>3, <1>4, <1>5, <1>6, <1>7 DEF Next

\* Every NACK in flight is for a packet no later than the sender's _lastseq,
\* so that the unsigned age the sender computes is its true age, also when
\* packets are forwarded out of order.
THEOREM RequestsStayBehind == OneLap /\ Steady /\ Spec => []RequestsAreBehind
<1> SUFFICES ASSUME OneLap, Steady PROVE Spec => []RequestsAreBehind
  OBVIOUS
<1>1. Init => LinkInv /\ SentInv
  BY InitLinkInv DEF Init, SentInv
<1>2. LinkInv /\ SentInv /\ [Next]_vars => (LinkInv /\ SentInv)'
  BY NextKeepsLinkInv, NextKeepsSent
<1>3. ASSUME LinkInv, SentInv PROVE RequestsAreBehind
  <2> SUFFICES ASSUME NEW n \in nackNet PROVE n = snd.last \/ IsNewer(snd.last, n)
    BY DEF RequestsAreBehind
  <2>1. n \in Stream /\ n <= snd.last /\ sent \subseteq Stream
    BY <1>3 DEF LinkInv, SentInv
  <2>2. sent # {}
    BY <1>3, <2>1, StreamOrder DEF SentInv
  <2>3. snd.last \in Stream
    BY <1>3, <2>1, <2>2 DEF SentInv
  <2> QED
    BY <2>1, <2>3, StreamOrder
<1> QED
  BY <1>1, <1>2, <1>3, PTL DEF Spec

=============================================================================
