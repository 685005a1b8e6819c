-------------------------- MODULE FlvRemuxerProofs --------------------------
(***************************************************************************)
(* Proofs about FlvRemuxer, for every clock, layout of frames, limit on the *)
(* queues and length of the stream.  What the frame buffer notes of its     *)
(* packets is compared with where the source is (BufferOK), each of the two *)
(* queues with what its track has reached (InOrder); the loops that merge   *)
(* the queues are a recursive function, whose steps are followed to the     *)
(* first that would break what is to be shown.                              *)
(***************************************************************************)
EXTENDS FlvRemuxer, SequenceTheorems, WellFoundedInduction, TLAPS

Times == 0 .. RtpMod - 1

Tracks == [first : Int, offset : Nat, last : Times, initial : -1 .. RtpMod - 1]

\* The time of the last tag of a track or, before it is known, of the next.
Reached(t) ==
  IF t.first = 0 THEN t.offset ELSE t.last - t.initial - t.first + t.offset

TrackOK(t) ==
  /\ t \in Tracks
  /\ t.first # 0 => t.initial # -1
  /\ Reached(t) >= 0

\* What _last_rtp_*_ts is when no tag has told the track's first time: that of
\* the first tag, or 0.  Not so after a second description.
Known(t) == t.first = 0 => t.last = t.initial \/ (t.initial = -1 /\ t.last = 0)

\* Both clocks tick.
LEMMA Clocks == RtpMod \in Nat \ {0} /\ SeqMod \in Nat \ {0, 1}
BY RemuxAssumption

\* The next value of a clock.
LEMMA Tick ==
  ASSUME NEW mod \in Nat \ {0}, NEW a \in Int
  PROVE  (a + 1) % mod \in 0 .. mod - 1
OBVIOUS

\* The fields of a track, as arithmetic needs them.
LEMMA TrackFacts ==
  ASSUME NEW t, TrackOK(t)
  PROVE  /\ t.first \in Int /\ t.offset \in Nat /\ t.last \in Times
         /\ t.initial \in -1 .. RtpMod - 1 /\ Reached(t) \in Nat
<1>1. /\ t.first \in Int /\ t.offset \in Nat /\ t.last \in Times
      /\ t.initial \in -1 .. RtpMod - 1
  BY DEF TrackOK, Tracks
<1>2. Reached(t) \in Int
  BY <1>1, Clocks DEF Reached, Times
<1> QED
  BY <1>1, <1>2 DEF TrackOK

\* A tag is stamped with a time no earlier than its track has reached: a
\* smaller RTP time adds the rest of the cycle.
LEMMA StampedGrows ==
  ASSUME NEW t, TrackOK(t), NEW rtp \in Times
  PROVE  LET s == Stamped(t, rtp)
         IN  /\ TrackOK(s.track) /\ s.ts \in Nat
             /\ Known(t) => /\ Known(s.track) /\ s.ts >= Reached(t)
                            /\ s.ts = Reached(s.track)
<1> DEFINE s == Stamped(t, rtp)
<1>0. RtpMod \in Nat \ {0}
  BY Clocks
<1>1. /\ t.first \in Int /\ t.offset \in Nat /\ t.last \in Times
      /\ t.initial \in -1 .. RtpMod - 1
  BY DEF TrackOK, Tracks
<1>2. /\ s.track \in Tracks /\ s.ts \in Nat
      /\ s.track.first # 0 => s.track.initial # -1
      /\ Reached(s.track) >= 0
  BY <1>0, <1>1 DEF TrackOK, Tracks, Reached, Stamped, Times
<1>3. ASSUME Known(t)
      PROVE  Known(s.track) /\ s.ts >= Reached(t) /\ s.ts = Reached(s.track)
  <2>1. /\ s.track.last = rtp /\ s.track.first \in Int
        /\ s.track.offset = t.offset + IF t.last > rtp THEN RtpMod - 1 ELSE 0
        /\ s.track.initial = IF t.initial = -1 THEN rtp ELSE t.initial
        /\ s.track.first = IF t.first = 0 THEN rtp - s.track.initial ELSE t.first
        /\ s.ts = rtp - s.track.initial - s.track.first + s.track.offset
    BY <1>0, <1>1 DEF Stamped, Times
  <2> DEFINE more == IF t.last > rtp THEN RtpMod - 1 ELSE 0
             initial == s.track.initial
  <2>2. /\ more \in Nat /\ rtp \in Nat /\ initial \in Int
        /\ rtp + more >= t.last /\ t.last \in Nat
    BY <1>0, <1>1, <2>1 DEF Times
  <2>3. s.track.offset = t.offset + more
    BY <2>1
  <2> HIDE DEF s, more, initial
  <2>4. CASE t.first = 0
    <3>1. s.track.first = rtp - initial /\ s.ts = rtp - initial - (rtp - initial) + s.track.offset
      BY <2>1, <2>4 DEF initial
    <3>2. s.ts = s.track.offset /\ s.track.offset >= t.offset
      BY <1>1, <2>2, <2>3, <3>1
    <3>3. Reached(t) = t.offset
      BY <2>4 DEF Reached
    <3>4. Known(s.track)
      <4>1. s.track.last = rtp
        BY <2>1
      <4>2. s.track.first = 0 => rtp = initial
        BY <2>2, <3>1
      <4> QED
        BY <4>1, <4>2 DEF Known, initial
    <3>5. Reached(s.track) = s.track.offset
      BY <2>1, <3>2 DEF Reached
    <3> QED
      BY <3>2, <3>3, <3>4, <3>5
  <2>5. CASE t.first # 0
    <3>1. s.track.first = t.first /\ t.initial \in Int /\ initial = t.initial
      BY <1>0, <1>1, <2>1, <2>5 DEF TrackOK, initial
    <3>2. Known(s.track) /\ Reached(s.track) = s.ts
      BY <2>1, <2>5, <3>1 DEF Known, Reached
    <3>3. Reached(t) = t.last - t.initial - t.first + t.offset
      BY <2>5 DEF Reached
    <3>4. s.ts = rtp - t.initial - t.first + (t.offset + more)
      BY <2>1, <2>3, <3>1 DEF initial
    <3>5. s.ts >= Reached(t)
      BY <1>1, <2>2, <3>1, <3>3, <3>4
    <3> QED
      BY <3>2, <3>5
  <2> QED
    BY <2>4, <2>5
<1> QED
  BY <1>2, <1>3 DEF TrackOK

\* A track that has no first time yet is moved to the tag of the other one.
LEMMA AlignedReaches ==
  ASSUME NEW t, TrackOK(t), NEW ts \in Nat
  PROVE  LET u == Aligned(t, ts)
         IN  /\ TrackOK(u)
             /\ Known(t) => Known(u)
             /\ Reached(u) = IF t.first = 0 THEN ts ELSE Reached(t)
             /\ u.first = t.first
             /\ t.first = 0 => u.offset = ts
BY DEF TrackOK, Tracks, Aligned, Reached, Known

----------------------------------------------------------------------------
(* The order of the tags that wait.                                        *)

\* A queue is sorted by time, between what the cache got and what its track
\* has reached.
Ahead(q, sync, reached) ==
  /\ \A i, j \in 1 .. Len(q) : i <= j => q[i].ts <= q[j].ts
  /\ \A i \in 1 .. Len(q) : sync <= q[i].ts /\ q[i].ts <= reached

\* Two tracks with their queues: neither is behind what the cache got, and one
\* without a first time stands where the other one is.
Ordered(t, u, q, r, sync) ==
  /\ Known(t) /\ Known(u)
  /\ t.first = 0 => t.offset = Reached(u)
  /\ u.first = 0 => u.offset = Reached(t)
  /\ sync <= Reached(t) /\ sync <= Reached(u)
  /\ Ahead(q, sync, Reached(t)) /\ Ahead(r, sync, Reached(u))

\* What a queue holds are tags, with times.
LEMMA TagOfQueue ==
  ASSUME NEW q \in Seq(Tag)
  PROVE  \A i \in 1 .. Len(q) : q[i] \in Tag /\ q[i].ts \in Nat
<1> TAKE i \in 1 .. Len(q)
<1>1. q[i] \in Tag
  BY ElementOfSeq
<1> QED
  BY <1>1 DEF Tag

\* A new tag goes behind the others of its queue (_put_video_frame and the AAC
\* branch of _set_rtp_to_buffer).
LEMMA AheadAppend ==
  ASSUME NEW q \in Seq(Tag), NEW sync \in Nat, NEW reached \in Int,
         Ahead(q, sync, reached), NEW tag \in Tag, tag.ts >= reached, sync <= reached
  PROVE  Ahead(Append(q, tag), sync, tag.ts)
<1>1. tag.ts \in Nat /\ \A i \in 1 .. Len(q) : q[i].ts \in Nat
  BY TagOfQueue DEF Tag
<1>2. /\ Len(Append(q, tag)) = Len(q) + 1
      /\ Append(q, tag)[Len(q) + 1] = tag
      /\ \A i \in 1 .. Len(q) : Append(q, tag)[i] = q[i]
  OBVIOUS
<1> DEFINE r == Append(q, tag)
<1>3. \A i \in 1 .. Len(q) : sync <= r[i].ts /\ r[i].ts <= tag.ts
  BY <1>1, <1>2 DEF Ahead
<1> HIDE DEF r
<1>4. \A i, j \in 1 .. Len(q) + 1 : i <= j => r[i].ts <= r[j].ts
  BY <1>1, <1>2, <1>3 DEF Ahead, r
<1> QED
  BY <1>1, <1>2, <1>3, <1>4 DEF Ahead, r

\* A queue stays in order when its track gets further.
LEMMA AheadWiden ==
  ASSUME NEW q \in Seq(Tag), NEW low \in Nat, NEW high \in Nat,
         NEW higher \in Nat, high <= higher, Ahead(q, low, high)
  PROVE  Ahead(q, low, higher)
<1>1. \A i \in 1 .. Len(q) : q[i].ts \in Nat
  BY TagOfQueue
<1> QED
  BY <1>1 DEF Ahead

\* A tag is stamped and put behind the others, or handed to the cache at once;
\* the other track is moved to it if it has no first time.
LEMMA OrderedAppend ==
  ASSUME NEW t, TrackOK(t), NEW u, TrackOK(u),
         NEW q \in Seq(Tag), NEW r \in Seq(Tag), NEW sync \in Nat,
         Ordered(t, u, q, r, sync),
         NEW rtp \in Times, NEW tag \in Tag, tag.ts = Stamped(t, rtp).ts
  PROVE  /\ Ordered(Stamped(t, rtp).track, Aligned(u, tag.ts), Append(q, tag), r, sync)
         /\ Ordered(Stamped(t, rtp).track, Aligned(u, tag.ts), q, r, sync)
<1> DEFINE s == Stamped(t, rtp)
           v == Aligned(u, tag.ts)
<1>1. /\ TrackOK(s.track) /\ Known(s.track) /\ s.ts \in Nat
      /\ s.ts >= Reached(t) /\ s.ts = Reached(s.track) /\ tag.ts = s.ts
  BY StampedGrows DEF Ordered
<1>2. /\ TrackOK(v) /\ Known(v) /\ v.first = u.first
      /\ Reached(v) = IF u.first = 0 THEN tag.ts ELSE Reached(u)
      /\ u.first = 0 => v.offset = tag.ts
  BY <1>1, AlignedReaches DEF Ordered
<1>3. /\ Reached(t) \in Nat /\ Reached(u) \in Nat /\ Reached(s.track) \in Nat
      /\ Reached(v) \in Nat
  BY <1>1, <1>2, TrackFacts
<1> HIDE DEF s, v
<1>4. s.track.first = 0 => s.track.offset = Reached(v)
  <2> HAVE s.track.first = 0
  <2>1. t.first = 0 /\ s.track.offset = s.ts
    <3>1. t.first \in Int /\ t.initial \in Int
      BY DEF TrackOK, Tracks
    <3>2. s.track.first = IF t.first = 0
                          THEN rtp - (IF t.initial = -1 THEN rtp ELSE t.initial) ELSE t.first
      BY DEF s, Stamped
    <3> QED
      BY <1>1, <3>1, <3>2 DEF Reached
  <2>2. t.offset = Reached(t) /\ t.offset = Reached(u)
    BY <2>1 DEF Ordered, Reached
  <2>3. s.ts = t.offset
    <3>1. /\ s.ts = rtp - s.track.initial - s.track.first + s.track.offset
          /\ s.track.first = rtp - s.track.initial
          /\ s.track.offset = t.offset + IF t.last > rtp THEN RtpMod - 1 ELSE 0
          /\ s.track.initial = IF t.initial = -1 THEN rtp ELSE t.initial
      BY <2>1 DEF s, Stamped
    <3>2. Known(t)
      BY DEF Ordered
    <3>3. ~(t.last > rtp)
      BY <2>1, <3>1, <3>2 DEF Known, TrackOK, Tracks, Times
    <3> QED
      BY <2>1, <3>1, <3>3 DEF TrackOK, Tracks
  <2> QED
    BY <1>1, <1>2, <2>1, <2>2, <2>3
<1>5. v.first = 0 => v.offset = Reached(s.track)
  BY <1>1, <1>2
<1>6. sync <= Reached(s.track) /\ sync <= Reached(v) /\ Reached(u) <= Reached(v)
  <2>1. sync <= Reached(t) /\ sync <= Reached(u)
    BY DEF Ordered
  <2>2. u.first = 0 => u.offset = Reached(u) /\ u.offset = Reached(t)
    BY DEF Ordered, Reached
  <2> QED
    BY <1>1, <1>2, <1>3, <2>1, <2>2
<1>7. Ahead(r, sync, Reached(v))
  <2>1. Ahead(r, sync, Reached(u))
    BY DEF Ordered
  <2> QED
    BY <1>3, <1>6, <2>1, AheadWiden
<1>8. Ahead(Append(q, tag), sync, Reached(s.track)) /\ Ahead(q, sync, Reached(s.track))
  <2>1. Ahead(q, sync, Reached(t)) /\ sync <= Reached(t)
    BY DEF Ordered
  <2>2. Ahead(Append(q, tag), sync, tag.ts)
    BY <1>1, <1>3, <2>1, AheadAppend
  <2>3. Ahead(q, sync, tag.ts)
    BY <1>1, <1>3, <2>1, AheadWiden
  <2> QED
    BY <1>1, <2>2, <2>3
<1> QED
  BY <1>1, <1>2, <1>4, <1>5, <1>6, <1>7, <1>8 DEF Ordered, s, v

\* Neither track is before the other.
LEMMA OrderedSwap ==
  ASSUME NEW t, NEW u, NEW q, NEW r, NEW sync, Ordered(t, u, q, r, sync)
  PROVE  Ordered(u, t, r, q, sync)
BY Zenon DEF Ordered

\* The older front leaves its queue, and becomes what the cache got or not.
LEMMA OrderedPop ==
  ASSUME NEW t, TrackOK(t), NEW u, TrackOK(u),
         NEW q \in Seq(Tag), NEW r \in Seq(Tag), NEW sync \in Nat,
         Ordered(t, u, q, r, sync),
         q # << >>, r # << >>, q[1].ts <= r[1].ts,
         NEW next \in {sync, q[1].ts}
  PROVE  Ordered(t, u, Tail(q), r, next)
<1>1. Reached(t) \in Nat /\ Reached(u) \in Nat
  BY TrackFacts
<1>2. /\ Len(q) \in Nat \ {0} /\ Len(r) \in Nat \ {0}
      /\ \A i \in 1 .. Len(q) : q[i].ts \in Nat
      /\ \A i \in 1 .. Len(r) : r[i].ts \in Nat
  BY TagOfQueue, EmptySeq
<1>3. /\ Len(Tail(q)) = Len(q) - 1
      /\ \A i \in 1 .. Len(Tail(q)) : Tail(q)[i] = q[i + 1]
  BY HeadTailProperties
<1>4. Ahead(q, sync, Reached(t)) /\ Ahead(r, sync, Reached(u))
  BY DEF Ordered
<1>5. /\ sync <= next /\ next <= q[1].ts /\ next \in Nat
      /\ q[1].ts <= Reached(t) /\ r[1].ts <= Reached(u)
  BY <1>2, <1>4 DEF Ahead
<1>6. next <= Reached(t) /\ next <= Reached(u)
  BY <1>1, <1>2, <1>5
<1>7. Ahead(Tail(q), next, Reached(t))
  <2>1. \A i \in 1 .. Len(q) : next <= q[i].ts /\ q[i].ts <= Reached(t)
    BY <1>2, <1>4, <1>5 DEF Ahead
  <2>2. \A i \in 1 .. Len(q) - 1 : i + 1 \in 1 .. Len(q)
    BY <1>2
  <2>3. \A i, j \in 1 .. Len(q) : i <= j => q[i].ts <= q[j].ts
    BY <1>4 DEF Ahead
  <2>4. ASSUME NEW i \in 1 .. Len(q) - 1, NEW j \in 1 .. Len(q) - 1, i <= j
        PROVE  q[i + 1].ts <= q[j + 1].ts
    BY <2>2, <2>3, <2>4
  <2> QED
    BY <1>3, <2>1, <2>2, <2>4 DEF Ahead
<1>8. Ahead(r, next, Reached(u))
  <2>1. \A i \in 1 .. Len(r) : r[1].ts <= r[i].ts
    BY <1>2, <1>4 DEF Ahead
  <2>2. next <= r[1].ts
    BY <1>2, <1>5
  <2> QED
    BY <1>2, <1>4, <1>5, <2>1, <2>2 DEF Ahead
<1> QED
  BY <1>6, <1>7, <1>8 DEF Ordered

----------------------------------------------------------------------------
(* _set_flv_to_mm.                                                         *)

Metas ==
  [audioOnly : BOOLEAN, sps : BOOLEAN, pps : BOOLEAN, adts : BOOLEAN,
   buf : Seq(Chunk), bufTs : Times, valid : BOOLEAN, lastSeq : Nat,
   temp : {"none", "audio", "video"}, sync : Nat, audio : Tracks, video : Tracks,
   audioQ : Seq(Tag), videoQ : Seq(Tag)]

\* The remuxer and the cache, as the operators of FlvRemuxer pass them on.
Boxes == [m : Metas, stored : BOOLEAN, out : Seq(Tag), refused : BOOLEAN]

TracksOK(m) == TrackOK(m.audio) /\ TrackOK(m.video)

InOrder(m) == Ordered(m.audio, m.video, m.audioQ, m.videoQ, m.sync)

\* Nothing is left to merge, and no queue is longer than the limit.
Resting(m) ==
  /\ m.audioQ = << >> \/ m.videoQ = << >>
  /\ ~Long(m.audioQ) /\ ~Long(m.videoQ)

\* y is x after tags were taken out of its queues, those of no data not to the
\* cache.
Drained(x, y) ==
  /\ y \in Boxes /\ y.stored = x.stored
  /\ y.m = [x.m EXCEPT !.audioQ = y.m.audioQ, !.videoQ = y.m.videoQ, !.sync = y.m.sync]
  /\ Tags(y.m.audioQ) \subseteq Tags(x.m.audioQ)
  /\ Tags(y.m.videoQ) \subseteq Tags(x.m.videoQ)
  /\ \A tag \in Tags(y.out) :
       \/ tag \in Tags(x.out)
       \/ tag \in Tags(x.m.audioQ) \cup Tags(x.m.videoQ) /\ tag.data # "void"

Waiting(x) == Len(x.m.audioQ) + Len(x.m.videoQ)

\* set_flv_tag of the cache leaves the remuxer alone.
LEMMA HandedIs ==
  ASSUME NEW x \in Boxes, NEW tag \in Tag
  PROVE  /\ Handed(x, tag) \in Boxes
         /\ Handed(x, tag).m = x.m /\ Handed(x, tag).stored = x.stored
         /\ Handed(x, tag).out \in {x.out, Append(x.out, tag)}
<1> DEFINE o == IF x.stored THEN Append(x.out, tag) ELSE x.out
           r == x.refused \/ ~x.stored
           h == [x EXCEPT !.out = o, !.refused = r]
<1>1. Handed(x, tag) = h
  BY DEF Handed, Boxes
<1>2. /\ x = [m |-> x.m, stored |-> x.stored, out |-> x.out, refused |-> x.refused]
      /\ x.m \in Metas /\ x.stored \in BOOLEAN /\ x.out \in Seq(Tag)
  BY DEF Boxes
<1>3. o \in {x.out, Append(x.out, tag)} /\ o \in Seq(Tag) /\ r \in BOOLEAN
  BY <1>2
<1> HIDE DEF o, r
<1>4. h \in Boxes
  BY <1>3 DEF Boxes
<1>5. h.m = x.m /\ h.stored = x.stored /\ h.out = o
  BY DEF Boxes
<1> QED
  BY <1>1, <1>3, <1>4, <1>5

\* What becomes of a tag out of a queue.
LEMMA SyncedIs ==
  ASSUME NEW x \in Boxes, NEW tag \in Tag
  PROVE  /\ Synced(x, tag) \in Boxes /\ Synced(x, tag).stored = x.stored
         /\ Synced(x, tag).m = [x.m EXCEPT !.sync = Synced(x, tag).m.sync]
         /\ Synced(x, tag).m.sync \in {x.m.sync, tag.ts}
         /\ \/ Synced(x, tag).out = x.out
            \/ Synced(x, tag).out = Append(x.out, tag) /\ tag.data # "void"
<1>1. x.m \in Metas /\ x.out \in Seq(Tag) /\ x.stored \in BOOLEAN /\ x.refused \in BOOLEAN
      /\ x.m.sync \in Nat /\ tag.ts \in Nat
  BY DEF Boxes, Metas, Tag
<1>2. CASE tag.ts >= x.m.sync /\ tag.data # "void"
  <2> DEFINE h == Handed(x, tag)
  <2>1. /\ h \in Boxes /\ h.m = x.m /\ h.stored = x.stored
        /\ h.out \in {x.out, Append(x.out, tag)}
    BY HandedIs
  <2>2. Synced(x, tag) = [h EXCEPT !.m.sync = tag.ts]
    BY <1>2 DEF Synced
  <2>3. [h.m EXCEPT !.sync = tag.ts] \in Metas
    BY <1>1, <2>1 DEF Metas
  <2> HIDE DEF h
  <2>4. /\ Synced(x, tag).m = [h.m EXCEPT !.sync = tag.ts]
        /\ Synced(x, tag).stored = h.stored /\ Synced(x, tag).out = h.out
        /\ Synced(x, tag) \in Boxes
    BY <2>1, <2>2, <2>3 DEF Boxes
  <2>5. Synced(x, tag).m.sync = tag.ts
    BY <1>1, <2>1, <2>4 DEF Metas
  <2> QED
    BY <1>2, <2>1, <2>4, <2>5
<1>3. CASE ~(tag.ts >= x.m.sync /\ tag.data # "void")
  BY <1>1, <1>3 DEF Synced, Metas
<1> QED
  BY <1>2, <1>3

\* A tag taken out of a sequence is one of it.
LEMMA TagsOfTail ==
  ASSUME NEW q \in Seq(Tag), q # << >>
  PROVE  /\ Tail(q) \in Seq(Tag) /\ Len(Tail(q)) = Len(q) - 1 /\ Len(q) \in Nat \ {0}
         /\ Tags(Tail(q)) \subseteq Tags(q)
         /\ q[1] \in Tag /\ q[1] \in Tags(q)
<1>1. /\ Tail(q) \in Seq(Tag) /\ Len(Tail(q)) = Len(q) - 1 /\ Len(q) \in Nat \ {0}
      /\ \A i \in 1 .. Len(Tail(q)) : Tail(q)[i] = q[i + 1]
  BY HeadTailProperties, EmptySeq
<1>2. DOMAIN q = 1 .. Len(q) /\ DOMAIN Tail(q) = 1 .. Len(Tail(q))
  BY <1>1, LenProperties
<1>3. ASSUME NEW tag \in Tags(Tail(q)) PROVE tag \in Tags(q)
  <2>1. PICK i \in 1 .. Len(Tail(q)) : tag = Tail(q)[i]
    BY <1>2 DEF Tags
  <2>2. i + 1 \in 1 .. Len(q) /\ tag = q[i + 1]
    BY <1>1, <2>1
  <2> QED
    BY <1>2, <2>2 DEF Tags
<1>4. q[1] \in Tag /\ q[1] \in Tags(q)
  BY <1>1, <1>2, TagOfQueue DEF Tags
<1> QED
  BY <1>1, <1>3, <1>4

\* A tag joins a queue.
LEMMA TagsOfAppend ==
  ASSUME NEW q \in Seq(Tag), NEW tag \in Tag
  PROVE  Append(q, tag) \in Seq(Tag) /\ Tags(Append(q, tag)) = Tags(q) \cup {tag}
<1>1. /\ Append(q, tag) \in Seq(Tag) /\ Len(Append(q, tag)) = Len(q) + 1
      /\ Len(q) \in Nat /\ Append(q, tag)[Len(q) + 1] = tag
      /\ \A i \in 1 .. Len(q) : Append(q, tag)[i] = q[i]
      /\ DOMAIN q = 1 .. Len(q) /\ DOMAIN Append(q, tag) = 1 .. Len(q) + 1
  OBVIOUS
<1>2. Tags(Append(q, tag)) \subseteq Tags(q) \cup {tag}
  BY <1>1 DEF Tags
<1>3. Tags(q) \subseteq Tags(Append(q, tag)) /\ tag \in Tags(Append(q, tag))
  <2>1. \A i \in 1 .. Len(q) : i \in DOMAIN Append(q, tag) /\ Append(q, tag)[i] = q[i]
    BY <1>1
  <2>2. Len(q) + 1 \in DOMAIN Append(q, tag)
    BY <1>1
  <2> QED
    BY <1>1, <2>1, <2>2 DEF Tags
<1> QED
  BY <1>1, <1>2, <1>3

Shorter(z, a, v) == [z EXCEPT !.m.audioQ = a, !.m.videoQ = v]

\* A tag is taken out: what Pop* do, once the queue is shorter.
LEMMA TakenIs ==
  ASSUME NEW x \in Boxes, NEW tag \in Tag,
         tag \in Tags(x.m.audioQ) \cup Tags(x.m.videoQ),
         NEW a \in Seq(Tag), Tags(a) \subseteq Tags(x.m.audioQ),
         NEW v \in Seq(Tag), Tags(v) \subseteq Tags(x.m.videoQ)
  PROVE  LET y == Shorter(Synced(x, tag), a, v)
         IN  /\ Drained(x, y) /\ y.m.audioQ = a /\ y.m.videoQ = v
             /\ y.m.sync \in {x.m.sync, tag.ts}
<1> DEFINE z == Synced(x, tag)
           y == Shorter(z, a, v)
           s == z.m.sync
<1>1. x.m \in Metas /\ x.out \in Seq(Tag)
  BY DEF Boxes
<1>2. /\ z \in Boxes /\ z.stored = x.stored /\ z.m \in Metas
      /\ z.m = [x.m EXCEPT !.sync = s] /\ s \in {x.m.sync, tag.ts}
      /\ \/ z.out = x.out
         \/ z.out = Append(x.out, tag) /\ tag.data # "void"
  BY SyncedIs DEF Boxes
<1> HIDE DEF z, s
<1>3. [z.m EXCEPT !.audioQ = a, !.videoQ = v] \in Metas
  BY <1>2 DEF Metas
<1>4. /\ y \in Boxes /\ y.stored = x.stored /\ y.out = z.out
      /\ y.m = [z.m EXCEPT !.audioQ = a, !.videoQ = v]
  BY <1>2, <1>3 DEF Shorter, Boxes
<1> HIDE DEF y
<1>5. y.m = [x.m EXCEPT !.audioQ = a, !.videoQ = v, !.sync = s]
  <2>1. [[x.m EXCEPT !.sync = s] EXCEPT !.audioQ = a, !.videoQ = v]
        = [x.m EXCEPT !.audioQ = a, !.videoQ = v, !.sync = s]
    BY <1>1 DEF Metas
  <2> QED
    BY <1>2, <1>4, <2>1
<1>6. y.m.audioQ = a /\ y.m.videoQ = v /\ y.m.sync = s
  BY <1>1, <1>5 DEF Metas
<1>7. \A t \in Tags(y.out) :
        \/ t \in Tags(x.out)
        \/ t \in Tags(x.m.audioQ) \cup Tags(x.m.videoQ) /\ t.data # "void"
  <2>1. CASE z.out = x.out
    BY <1>4, <2>1
  <2>2. CASE z.out = Append(x.out, tag) /\ tag.data # "void"
    <3>1. Tags(z.out) = Tags(x.out) \cup {tag}
      BY <1>1, <2>2, TagsOfAppend
    <3> QED
      BY <1>4, <2>2, <3>1
  <2> QED
    BY <1>2, <2>1, <2>2
<1>8. Drained(x, y)
  BY <1>4, <1>5, <1>6, <1>7 DEF Drained
<1> QED
  BY <1>2, <1>6, <1>8 DEF y, z

\* The first audio tag is taken.
LEMMA PopAudioIs ==
  ASSUME NEW x \in Boxes, x.m.audioQ # << >>
  PROVE  LET y == PopAudio(x)
         IN  /\ Drained(x, y) /\ Waiting(y) = Waiting(x) - 1
             /\ y.m.audioQ = Tail(x.m.audioQ) /\ y.m.videoQ = x.m.videoQ
             /\ y.m.sync \in {x.m.sync, x.m.audioQ[1].ts}
<1> DEFINE tag == x.m.audioQ[1]
           rest == Tail(x.m.audioQ)
           z == Synced(x, tag)
           y == PopAudio(x)
<1>1. x.m.audioQ \in Seq(Tag) /\ x.m.videoQ \in Seq(Tag)
  BY DEF Boxes, Metas
<1>2. /\ rest \in Seq(Tag) /\ Len(rest) = Len(x.m.audioQ) - 1
      /\ Tags(rest) \subseteq Tags(x.m.audioQ)
      /\ tag \in Tag /\ tag \in Tags(x.m.audioQ)
      /\ Len(x.m.audioQ) \in Nat \ {0} /\ Len(x.m.videoQ) \in Nat
  BY <1>1, TagsOfTail, LenProperties
<1>3. z \in Boxes /\ z.m \in Metas /\ z.m = [x.m EXCEPT !.sync = z.m.sync]
  BY <1>2, SyncedIs DEF Boxes
<1>4. z.m.audioQ = x.m.audioQ /\ z.m.videoQ = x.m.videoQ
  BY <1>3 DEF Boxes, Metas
<1>5. y = Shorter(z, rest, x.m.videoQ)
  <2>1. [z.m EXCEPT !.audioQ = rest] = [z.m EXCEPT !.audioQ = rest, !.videoQ = x.m.videoQ]
    BY <1>3, <1>4 DEF Metas
  <2>2. y = [z EXCEPT !.m = [z.m EXCEPT !.audioQ = rest]]
    BY <1>3, <1>4 DEF PopAudio, Boxes
  <2>3. Shorter(z, rest, x.m.videoQ) = [z EXCEPT !.m = [z.m EXCEPT !.audioQ = rest, !.videoQ = x.m.videoQ]]
    BY <1>3 DEF Shorter, Boxes
  <2> QED
    BY <2>1, <2>2, <2>3
<1> HIDE DEF tag, rest, y
<1>6. /\ Drained(x, y) /\ y.m.audioQ = rest /\ y.m.videoQ = x.m.videoQ
      /\ y.m.sync \in {x.m.sync, tag.ts}
  BY <1>1, <1>2, <1>5, TakenIs
<1>7. Waiting(y) = Waiting(x) - 1
  <2> DEFINE a == Len(rest)
             b == Len(x.m.videoQ)
             c == Len(x.m.audioQ)
  <2>1. a = c - 1 /\ c \in Nat /\ b \in Nat
    BY <1>2
  <2>2. Waiting(x) = c + b /\ Waiting(y) = a + b
    BY <1>6, Zenon DEF Waiting
  <2> HIDE DEF a, b, c
  <2> QED
    BY <2>1, <2>2
<1> QED
  BY <1>6, <1>7 DEF y, tag, rest

\* The first video tag is taken.
LEMMA PopVideoIs ==
  ASSUME NEW x \in Boxes, x.m.videoQ # << >>
  PROVE  LET y == PopVideo(x)
         IN  /\ Drained(x, y) /\ Waiting(y) = Waiting(x) - 1
             /\ y.m.videoQ = Tail(x.m.videoQ) /\ y.m.audioQ = x.m.audioQ
             /\ y.m.sync \in {x.m.sync, x.m.videoQ[1].ts}
<1> DEFINE tag == x.m.videoQ[1]
           rest == Tail(x.m.videoQ)
           z == Synced(x, tag)
           y == PopVideo(x)
<1>1. x.m.videoQ \in Seq(Tag) /\ x.m.audioQ \in Seq(Tag)
  BY DEF Boxes, Metas
<1>2. /\ rest \in Seq(Tag) /\ Len(rest) = Len(x.m.videoQ) - 1
      /\ Tags(rest) \subseteq Tags(x.m.videoQ)
      /\ tag \in Tag /\ tag \in Tags(x.m.videoQ)
      /\ Len(x.m.videoQ) \in Nat \ {0} /\ Len(x.m.audioQ) \in Nat
  BY <1>1, TagsOfTail, LenProperties
<1>3. z \in Boxes /\ z.m \in Metas /\ z.m = [x.m EXCEPT !.sync = z.m.sync]
  BY <1>2, SyncedIs DEF Boxes
<1>4. z.m.videoQ = x.m.videoQ /\ z.m.audioQ = x.m.audioQ
  BY <1>3 DEF Boxes, Metas
<1>5. y = Shorter(z, x.m.audioQ, rest)
  <2>1. [z.m EXCEPT !.videoQ = rest] = [z.m EXCEPT !.audioQ = x.m.audioQ, !.videoQ = rest]
    BY <1>3, <1>4 DEF Metas
  <2>2. y = [z EXCEPT !.m = [z.m EXCEPT !.videoQ = rest]]
    BY <1>3, <1>4 DEF PopVideo, Boxes
  <2>3. Shorter(z, x.m.audioQ, rest) = [z EXCEPT !.m = [z.m EXCEPT !.audioQ = x.m.audioQ, !.videoQ = rest]]
    BY <1>3 DEF Shorter, Boxes
  <2> QED
    BY <2>1, <2>2, <2>3
<1> HIDE DEF tag, rest, y
<1>6. /\ Drained(x, y) /\ y.m.videoQ = rest /\ y.m.audioQ = x.m.audioQ
      /\ y.m.sync \in {x.m.sync, tag.ts}
  BY <1>1, <1>2, <1>5, TakenIs
<1>7. Waiting(y) = Waiting(x) - 1
  <2> DEFINE a == Len(rest)
             b == Len(x.m.audioQ)
             c == Len(x.m.videoQ)
  <2>1. a = c - 1 /\ c \in Nat /\ b \in Nat
    BY <1>2
  <2>2. Waiting(x) = b + c /\ Waiting(y) = b + a
    BY <1>6, Zenon DEF Waiting
  <2> HIDE DEF a, b, c
  <2> QED
    BY <2>1, <2>2
<1> QED
  BY <1>6, <1>7 DEF y, tag, rest

\* One step of the loops: it takes a tag out, or there is nothing to do.
LEMMA MergeStepIs ==
  ASSUME NEW x \in Boxes
  PROVE  LET y == MergeStep(x)
         IN  \/ Drained(x, y) /\ Waiting(y) = Waiting(x) - 1
             \/ y = x /\ Resting(x.m)
<1>1. CASE x.m.audioQ # << >> /\ x.m.videoQ # << >>
  BY <1>1, PopAudioIs, PopVideoIs DEF MergeStep
<1>2. CASE ~(x.m.audioQ # << >> /\ x.m.videoQ # << >>)
  <2>1. CASE Long(x.m.audioQ)
    <3>1. MergeStep(x) = PopAudio(x)
      BY <1>2, <2>1 DEF MergeStep
    <3>2. x.m.audioQ # << >>
      BY <2>1 DEF Long
    <3> QED
      BY <3>1, <3>2, PopAudioIs
  <2>2. CASE ~Long(x.m.audioQ) /\ Long(x.m.videoQ)
    <3>1. MergeStep(x) = PopVideo(x)
      BY <1>2, <2>2 DEF MergeStep
    <3>2. x.m.videoQ # << >>
      BY <2>2 DEF Long
    <3> QED
      BY <3>1, <3>2, PopVideoIs
  <2>3. CASE ~Long(x.m.audioQ) /\ ~Long(x.m.videoQ)
    <3>1. MergeStep(x) = x
      BY <1>2, <2>3 DEF MergeStep
    <3> QED
      BY <1>2, <2>3, <3>1 DEF Resting
  <2> QED
    BY <2>1, <2>2, <2>3
<1> QED
  BY <1>1, <1>2

\* Without a limit it takes the older of two fronts and nothing else, so that
\* the tags that wait stay in order and ahead.
LEMMA MergeStepInOrder ==
  ASSUME NEW x \in Boxes, TracksOK(x.m), InOrder(x.m), ~(conf.threshold > 0)
  PROVE  InOrder(MergeStep(x).m) /\ TracksOK(MergeStep(x).m)
<1> DEFINE y == MergeStep(x)
<1>1. /\ x.m \in Metas /\ x.m.audioQ \in Seq(Tag) /\ x.m.videoQ \in Seq(Tag)
      /\ x.m.sync \in Nat
  BY DEF Boxes, Metas
<1>2. CASE x.m.audioQ # << >> /\ x.m.videoQ # << >>
  <2>1. /\ x.m.audioQ[1].ts \in Nat /\ x.m.videoQ[1].ts \in Nat
    <3>1. 1 \in 1 .. Len(x.m.audioQ) /\ 1 \in 1 .. Len(x.m.videoQ)
      BY <1>1, <1>2, EmptySeq
    <3> QED
      BY <1>1, <3>1, TagOfQueue
  <2>2. /\ y.m.audio = x.m.audio /\ y.m.video = x.m.video
        /\ \/ /\ x.m.audioQ[1].ts <= x.m.videoQ[1].ts
              /\ y.m.audioQ = Tail(x.m.audioQ) /\ y.m.videoQ = x.m.videoQ
              /\ y.m.sync \in {x.m.sync, x.m.audioQ[1].ts}
           \/ /\ x.m.videoQ[1].ts <= x.m.audioQ[1].ts
              /\ y.m.videoQ = Tail(x.m.videoQ) /\ y.m.audioQ = x.m.audioQ
              /\ y.m.sync \in {x.m.sync, x.m.videoQ[1].ts}
    <3>1. CASE AudioIsOlder(x)
      <4>1. y = PopAudio(x)
        BY <1>2, <3>1 DEF MergeStep
      <4>2. /\ Drained(x, y) /\ y.m.audioQ = Tail(x.m.audioQ) /\ y.m.videoQ = x.m.videoQ
            /\ y.m.sync \in {x.m.sync, x.m.audioQ[1].ts}
        BY <1>2, <4>1, PopAudioIs
      <4>3. y.m.audio = x.m.audio /\ y.m.video = x.m.video
        BY <1>1, <4>2 DEF Drained, Metas
      <4> QED
        BY <2>1, <3>1, <4>2, <4>3 DEF AudioIsOlder
    <3>2. CASE ~AudioIsOlder(x)
      <4>1. y = PopVideo(x)
        BY <1>2, <3>2 DEF MergeStep
      <4>2. /\ Drained(x, y) /\ y.m.videoQ = Tail(x.m.videoQ) /\ y.m.audioQ = x.m.audioQ
            /\ y.m.sync \in {x.m.sync, x.m.videoQ[1].ts}
        BY <1>2, <4>1, PopVideoIs
      <4>3. y.m.audio = x.m.audio /\ y.m.video = x.m.video
        BY <1>1, <4>2 DEF Drained, Metas
      <4> QED
        BY <2>1, <3>2, <4>2, <4>3 DEF AudioIsOlder
    <3> QED
      BY <3>1, <3>2
  <2> HIDE DEF y
  <2>3. CASE /\ x.m.audioQ[1].ts <= x.m.videoQ[1].ts
             /\ y.m.audioQ = Tail(x.m.audioQ) /\ y.m.videoQ = x.m.videoQ
             /\ y.m.sync \in {x.m.sync, x.m.audioQ[1].ts}
    <3>1. Ordered(x.m.audio, x.m.video, Tail(x.m.audioQ), x.m.videoQ, y.m.sync)
      BY <1>1, <1>2, <2>3, OrderedPop DEF InOrder, TracksOK
    <3> QED
      BY <2>2, <2>3, <3>1 DEF InOrder, TracksOK, y
  <2>4. CASE /\ x.m.videoQ[1].ts <= x.m.audioQ[1].ts
             /\ y.m.videoQ = Tail(x.m.videoQ) /\ y.m.audioQ = x.m.audioQ
             /\ y.m.sync \in {x.m.sync, x.m.videoQ[1].ts}
    <3>1. Ordered(x.m.video, x.m.audio, x.m.videoQ, x.m.audioQ, x.m.sync)
      BY OrderedSwap DEF InOrder
    <3>2. Ordered(x.m.video, x.m.audio, Tail(x.m.videoQ), x.m.audioQ, y.m.sync)
      BY <1>1, <1>2, <2>4, <3>1, OrderedPop DEF TracksOK
    <3> QED
      BY <2>2, <2>4, <3>2, OrderedSwap DEF InOrder, TracksOK, y
  <2> QED
    BY <2>2, <2>3, <2>4 DEF y
<1>3. CASE ~(x.m.audioQ # << >> /\ x.m.videoQ # << >>)
  <2>1. ~Long(x.m.audioQ) /\ ~Long(x.m.videoQ)
    BY DEF Long
  <2>2. MergeStep(x) = x
    BY <1>3, <2>1 DEF MergeStep
  <2> QED
    BY <2>2
<1> QED
  BY <1>2, <1>3

----------------------------------------------------------------------------
(* The loops: a run of MergeStep as long as there are tags in the queues.   *)

\* The order of the naturals is a well-founded relation.
LEMMA NatOrder ==
  \E R : IsWellFoundedOn(R, Nat) /\ \A x, y \in Nat : <<y, x>> \in R <=> y < x
<1>1. IsWellFoundedOn(OpToRel(<, Nat), Nat)
  BY NatLessThanWellFounded
<1>2. \A x, y \in Nat : <<y, x>> \in OpToRel(<, Nat) <=> y < x
  BY DEF OpToRel
<1> QED
  BY <1>1, <1>2, Zenon

\* A set of naturals has a least element: the first step of a run that would
\* break a property of those before it.
LEMMA LeastNat ==
  ASSUME NEW T \in SUBSET Nat, T # {}
  PROVE  \E m \in T : \A k \in T : m <= k
<1>1. PICK R : IsWellFoundedOn(R, Nat)
               /\ \A x, y \in Nat : <<y, x>> \in R <=> y < x
  BY NatOrder
<1>2. PICK m \in T : \A y \in T : ~ (<<y, m>> \in R)
  BY <1>1, WFMin, Zenon
<1>3. ASSUME NEW k \in T PROVE m <= k
  <2>1. k \in Nat /\ m \in Nat
    OBVIOUS
  <2>2. ~ (k < m)
    BY <1>1, <1>2, <2>1, Zenon
  <2> QED
    BY <2>1, <2>2
<1> QED
  BY <1>3
IsRun(f, x, n) == f = [i \in 0 .. n |-> IF i = 0 THEN x ELSE MergeStep(f[i - 1])]

\* The recursive function of Merged exists: there is no shortest run that cannot
\* be made a step longer.
LEMMA RunExists ==
  ASSUME NEW x, NEW n \in Nat
  PROVE  \E f : IsRun(f, x, n)
<1> DEFINE T == {k \in Nat : ~\E f : IsRun(f, x, k)}
<1> SUFFICES ASSUME T # {} PROVE FALSE
  OBVIOUS
<1>1. PICK m \in T : \A k \in T : m <= k
  BY LeastNat
<1>2. CASE m = 0
  <2> DEFINE f == [i \in 0 .. 0 |-> x]
  <2>1. IsRun(f, x, 0)
    BY DEF IsRun
  <2> QED
    BY <1>1, <1>2, <2>1
<1>3. CASE m # 0
  <2>1. m \in Nat /\ m - 1 \in Nat /\ m - 1 \notin T
    BY <1>1, <1>3
  <2>2. PICK g : IsRun(g, x, m - 1)
    BY <2>1
  <2> DEFINE f == [i \in 0 .. m |-> IF i = m THEN MergeStep(g[m - 1]) ELSE g[i]]
             h == [i \in 0 .. m |-> IF i = 0 THEN x ELSE MergeStep(f[i - 1])]
  <2>3. \A i \in 0 .. m - 1 : g[i] = IF i = 0 THEN x ELSE MergeStep(g[i - 1])
    BY <2>2 DEF IsRun
  <2>4. ASSUME NEW i \in 0 .. m PROVE f[i] = h[i]
    <3>1. CASE i = m
      <4>1. m - 1 \in 0 .. m /\ m - 1 # m
        BY <2>1
      <4> QED
        BY <1>3, <3>1, <4>1
    <3>2. CASE i # m /\ i # 0
      <4>1. i \in 0 .. m - 1 /\ i - 1 \in 0 .. m /\ i - 1 # m
        BY <2>1, <3>2
      <4> QED
        BY <2>3, <3>2, <4>1
    <3>3. CASE i # m /\ i = 0
      <4>1. 0 \in 0 .. m - 1
        BY <2>1, <1>3
      <4> QED
        BY <2>3, <3>3, <4>1
    <3> QED
      BY <3>1, <3>2, <3>3
  <2>5. f = h
    BY <2>4
  <2>6. IsRun(f, x, m)
    BY <2>5 DEF IsRun
  <2> QED
    BY <1>1, <2>6
<1> QED
  BY <1>2, <1>3

\* Merged is where a run of as many steps as there are tags ends.
LEMMA MergedRun ==
  ASSUME NEW x \in Boxes
  PROVE  /\ Waiting(x) \in Nat
         /\ \E f : /\ f[0] = x /\ f[Waiting(x)] = Merged(x)
                   /\ \A i \in 1 .. Waiting(x) : f[i] = MergeStep(f[i - 1])
<1> DEFINE n == Waiting(x)
           f == CHOOSE g : IsRun(g, x, n)
<1>1. n \in Nat
  <2>1. x.m.audioQ \in Seq(Tag) /\ x.m.videoQ \in Seq(Tag)
    BY DEF Boxes, Metas
  <2>2. Len(x.m.audioQ) \in Nat /\ Len(x.m.videoQ) \in Nat
    BY <2>1, LenProperties
  <2>3. \A k, l \in Nat : k + l \in Nat
    OBVIOUS
  <2> QED
    BY <2>2, <2>3, Zenon DEF Waiting
<1>2. IsRun(f, x, n)
  BY <1>1, RunExists
<1>3. Merged(x) = f[n]
  BY DEF Merged, IsRun, Waiting
<1> HIDE DEF f, n
<1>4. \A i \in 0 .. n : f[i] = IF i = 0 THEN x ELSE MergeStep(f[i - 1])
  BY <1>2 DEF IsRun
<1>5. /\ 0 \in 0 .. n
      /\ \A i \in 1 .. n : i \in 0 .. n /\ i # 0
  BY <1>1
<1>6. f[0] = x /\ \A i \in 1 .. n : f[i] = MergeStep(f[i - 1])
  BY <1>4, <1>5
<1> QED
  BY <1>1, <1>3, <1>6 DEF n

\* Taking out, and taking out again.
LEMMA DrainedTwice ==
  ASSUME NEW x \in Boxes, NEW y, NEW z, Drained(x, y), Drained(y, z)
  PROVE  Drained(x, z)
<1>1. x.m \in Metas /\ y \in Boxes
  BY DEF Drained, Boxes
<1>2. z.m = [x.m EXCEPT !.audioQ = z.m.audioQ, !.videoQ = z.m.videoQ, !.sync = z.m.sync]
  <2> DEFINE E(m, a, v, s) == [m EXCEPT !.audioQ = a, !.videoQ = v, !.sync = s]
  <2>1. \A a, v, s, b, w, r : E(E(x.m, a, v, s), b, w, r) = E(x.m, b, w, r)
    <3> TAKE a, v, s, b, w, r
    <3> DEFINE k == E(x.m, a, v, s)
               l == E(k, b, w, r)
               j == E(x.m, b, w, r)
    <3>1. DOMAIN k = DOMAIN x.m /\ DOMAIN l = DOMAIN x.m /\ DOMAIN j = DOMAIN x.m
      OBVIOUS
    <3>2. \A e \in DOMAIN x.m : l[e] = j[e]
      OBVIOUS
    <3> QED
      BY <3>1, <3>2
  <2>2. /\ y.m = E(x.m, y.m.audioQ, y.m.videoQ, y.m.sync)
        /\ z.m = E(y.m, z.m.audioQ, z.m.videoQ, z.m.sync)
    BY DEF Drained
  <2> HIDE DEF E
  <2>3. z.m = E(x.m, z.m.audioQ, z.m.videoQ, z.m.sync)
    BY <2>1, <2>2
  <2> QED
    BY <2>3 DEF E
<1>3. \A tag \in Tags(z.out) :
        \/ tag \in Tags(x.out)
        \/ tag \in Tags(x.m.audioQ) \cup Tags(x.m.videoQ) /\ tag.data # "void"
  BY DEF Drained
<1> QED
  BY <1>1, <1>2, <1>3 DEF Drained

\* Taking out nothing.
LEMMA DrainedNone ==
  ASSUME NEW x \in Boxes
  PROVE  Drained(x, x)
<1>1. x.m = [x.m EXCEPT !.audioQ = x.m.audioQ, !.videoQ = x.m.videoQ, !.sync = x.m.sync]
  BY DEF Boxes, Metas
<1> QED
  BY <1>1 DEF Drained

\* The loops end at rest: nothing is left to merge and no queue is too long.
LEMMA MergedIs ==
  ASSUME NEW x \in Boxes
  PROVE  Drained(x, Merged(x)) /\ Resting(Merged(x).m)
<1> DEFINE n == Waiting(x)
<1>1. n \in Nat
  BY MergedRun
<1>2. PICK f : /\ f[0] = x /\ f[n] = Merged(x)
               /\ \A i \in 1 .. n : f[i] = MergeStep(f[i - 1])
  BY MergedRun
<1> DEFINE P(i) == /\ Drained(x, f[i])
                   /\ Resting(f[i].m) \/ Waiting(f[i]) = n - i
           T == {k \in 0 .. n : ~P(k)}
<1>3. P(0)
  BY <1>1, <1>2, DrainedNone
<1>4. ASSUME NEW i \in 1 .. n, P(i - 1) PROVE P(i)
  <2>1. f[i] = MergeStep(f[i - 1]) /\ f[i - 1] \in Boxes
    BY <1>2, <1>4 DEF Drained
  <2>2. CASE Resting(f[i - 1].m)
    <3>1. f[i] = f[i - 1]
      BY <2>1, <2>2 DEF MergeStep, Resting
    <3> QED
      BY <1>4, <2>2, <3>1
  <2>3. CASE ~Resting(f[i - 1].m)
    <3>1. Drained(f[i - 1], f[i]) /\ Waiting(f[i]) = Waiting(f[i - 1]) - 1
      BY <2>1, <2>3, MergeStepIs
    <3>2. Waiting(f[i]) = n - i
      BY <1>1, <1>4, <2>3, <3>1
    <3> QED
      BY <1>4, <3>1, <3>2, DrainedTwice
  <2> QED
    BY <2>2, <2>3
<1>5. T = {}
  <2> SUFFICES ASSUME T # {} PROVE FALSE
    OBVIOUS
  <2>1. PICK m \in T : \A k \in T : m <= k
    <3>1. T \in SUBSET Nat
      BY <1>1
    <3> HIDE DEF T
    <3> QED
      BY <3>1, LeastNat
  <2>2. m # 0
    BY <1>3, <2>1
  <2>3. m \in 1 .. n /\ m - 1 \in 0 .. n /\ m - 1 \notin T
    BY <1>1, <2>1, <2>2
  <2>4. P(m - 1)
    BY <2>3
  <2> QED
    BY <1>4, <2>1, <2>3, <2>4
<1>6. P(n)
  BY <1>1, <1>5
<1> HIDE DEF n
<1>7. Drained(x, Merged(x)) /\ (Resting(Merged(x).m) \/ Waiting(Merged(x)) = 0)
  BY <1>1, <1>2, <1>6
<1>8. ASSUME Waiting(Merged(x)) = 0 PROVE Resting(Merged(x).m)
  <2> DEFINE a == Merged(x).m.audioQ
             v == Merged(x).m.videoQ
  <2>1. a \in Seq(Tag) /\ v \in Seq(Tag)
    BY <1>7 DEF Drained, Boxes, Metas
  <2>2. Len(a) \in Nat /\ Len(v) \in Nat /\ Len(a) + Len(v) = 0
    BY <1>8, <2>1, LenProperties DEF Waiting
  <2>3. Len(a) = 0 /\ Len(v) = 0
    <3>1. \A k, l \in Nat : k + l = 0 => k = 0 /\ l = 0
      OBVIOUS
    <3> QED
      BY <2>2, <3>1, Zenon
  <2>4. a = << >>
    BY <2>1, <2>3, EmptySeq
  <2> QED
    BY <2>3, <2>4 DEF Resting, Long
<1> QED
  BY <1>7, <1>8

\* Without a limit on the queues they keep them in order and ahead.
LEMMA MergedInOrder ==
  ASSUME NEW x \in Boxes, TracksOK(x.m), InOrder(x.m), ~(conf.threshold > 0)
  PROVE  InOrder(Merged(x).m) /\ TracksOK(Merged(x).m)
<1> DEFINE n == Waiting(x)
<1>1. n \in Nat
  BY MergedRun
<1>2. PICK f : /\ f[0] = x /\ f[n] = Merged(x)
               /\ \A i \in 1 .. n : f[i] = MergeStep(f[i - 1])
  BY MergedRun
<1> DEFINE P(i) == f[i] \in Boxes /\ TracksOK(f[i].m) /\ InOrder(f[i].m)
           T == {k \in 0 .. n : ~P(k)}
<1>3. P(0)
  BY <1>2
<1>4. ASSUME NEW i \in 1 .. n, P(i - 1) PROVE P(i)
  <2>1. f[i] = MergeStep(f[i - 1])
    BY <1>2
  <2>2. MergeStep(f[i - 1]) \in Boxes
    BY <1>4, MergeStepIs DEF Drained
  <2> QED
    BY <1>4, <2>1, <2>2, MergeStepInOrder
<1>5. T = {}
  <2> SUFFICES ASSUME T # {} PROVE FALSE
    OBVIOUS
  <2>1. PICK m \in T : \A k \in T : m <= k
    <3>1. T \in SUBSET Nat
      BY <1>1
    <3> HIDE DEF T
    <3> QED
      BY <3>1, LeastNat
  <2>2. m # 0
    BY <1>3, <2>1
  <2>3. m \in 1 .. n /\ m - 1 \in 0 .. n /\ m - 1 \notin T
    BY <1>1, <2>1, <2>2
  <2> QED
    BY <1>4, <2>1, <2>3
<1>6. P(n)
  BY <1>1, <1>5
<1> QED
  BY <1>2, <1>6

\* set_rtp at its end, for a stream of audio only or not.
LEMMA FlushedIs ==
  ASSUME NEW x \in Boxes
  PROVE  LET y == Flushed(x)
         IN  /\ Drained(x, y) /\ y.m.audioOnly = x.m.audioOnly
             /\ y.m.audioOnly \/ Resting(y.m)
             /\ TracksOK(x.m) => TracksOK(y.m)
             /\ TracksOK(x.m) /\ InOrder(x.m) /\ ~(conf.threshold > 0) => InOrder(y.m)
<1> DEFINE y == Flushed(x)
<1>1. Drained(x, y)
  BY MergedIs, DrainedNone DEF Flushed
<1>2. x.m \in Metas
  BY DEF Boxes
<1> HIDE DEF y
<1>3. y.m.audioOnly = x.m.audioOnly /\ y.m.audio = x.m.audio /\ y.m.video = x.m.video
  BY <1>1, <1>2 DEF Drained, Metas
<1>4. y.m.audioOnly \/ Resting(y.m)
  BY <1>3, MergedIs DEF Flushed, y
<1>5. TracksOK(x.m) => TracksOK(y.m)
  BY <1>3 DEF TracksOK
<1>6. TracksOK(x.m) /\ InOrder(x.m) /\ ~(conf.threshold > 0) => InOrder(y.m)
  BY MergedInOrder DEF Flushed, y
<1> QED
  BY <1>1, <1>3, <1>4, <1>5, <1>6 DEF y

----------------------------------------------------------------------------
(* _put_video_frame and the AAC branch of _set_rtp_to_buffer.              *)

\* _write_header changes what the cache knows only.
LEMMA HeaderWrittenIs ==
  ASSUME NEW x \in Boxes
  PROVE  /\ HeaderWritten(x) \in Boxes /\ HeaderWritten(x).m = x.m
         /\ HeaderWritten(x).out = x.out
<1> DEFINE b == x.stored \/ (x.m.adts /\ (x.m.audioOnly \/ (x.m.sps /\ x.m.pps)))
<1>1. HeaderWritten(x) = [x EXCEPT !.stored = b]
  BY DEF HeaderWritten, Boxes
<1>2. b \in BOOLEAN
  BY Zenon
<1> HIDE DEF b
<1> QED
  BY <1>1, <1>2 DEF Boxes

\* m but for the parameter sets.
SameButParameters(m, n) == n \in Metas /\ \E s, p \in BOOLEAN : n = [m EXCEPT !.sps = s, !.pps = p]

\* Looking for parameter sets.
LEMMA ParametersFoundIs ==
  ASSUME NEW x \in Boxes
  PROVE  /\ ParametersFound(x) \in Boxes /\ ParametersFound(x).out = x.out
         /\ SameButParameters(x.m, ParametersFound(x).m)
<1> DEFINE s == x.m.sps \/ Has(x.m.buf, "sps")
           p == x.m.pps \/ Has(x.m.buf, "pps")
           n == [x.m EXCEPT !.sps = s, !.pps = p]
           y == [x EXCEPT !.m = n]
<1>1. x.m \in Metas
  BY DEF Boxes
<1>2. s \in BOOLEAN /\ p \in BOOLEAN
  BY Zenon
<1>3. CASE (x.m.sps /\ x.m.pps) \/ x.m.buf[1].what = "rest"
  <2>1. ParametersFound(x) = x
    BY <1>3, Zenon DEF ParametersFound
  <2>2. x.m = [x.m EXCEPT !.sps = x.m.sps, !.pps = x.m.pps] /\ x.m.sps \in BOOLEAN /\ x.m.pps \in BOOLEAN
    BY <1>1 DEF Metas
  <2> QED
    BY <1>1, <2>1, <2>2 DEF SameButParameters
<1>4. CASE ~((x.m.sps /\ x.m.pps) \/ x.m.buf[1].what = "rest")
  <2>1. ParametersFound(x) = HeaderWritten([x EXCEPT !.m.sps = @ \/ Has(x.m.buf, "sps"),
                                                     !.m.pps = @ \/ Has(x.m.buf, "pps")])
    BY <1>4, Zenon DEF ParametersFound
  <2>2. [x EXCEPT !.m.sps = @ \/ Has(x.m.buf, "sps"), !.m.pps = @ \/ Has(x.m.buf, "pps")] = y
    BY <1>1 DEF Boxes, Metas
  <2> HIDE DEF s, p
  <2>3. n \in Metas
    BY <1>1, <1>2 DEF Metas
  <2> HIDE DEF n
  <2>4. y \in Boxes /\ y.m = n /\ y.out = x.out
    BY <2>3 DEF Boxes
  <2> HIDE DEF y
  <2>5. SameButParameters(x.m, n)
    BY <1>2, <2>3 DEF SameButParameters, n
  <2> QED
    BY <2>1, <2>2, <2>4, <2>5, HeaderWrittenIs
<1> QED
  BY <1>3, <1>4

\* What the order of the tags and the limit on the queues depend on.
SameTracks(m, n) ==
  /\ n.audioOnly = m.audioOnly /\ n.sync = m.sync
  /\ n.audio = m.audio /\ n.video = m.video
  /\ n.audioQ = m.audioQ /\ n.videoQ = m.videoQ

\* What the frame in the buffer is judged by.
SameFrame(m, n) ==
  n.buf = m.buf /\ n.bufTs = m.bufTs /\ n.valid = m.valid /\ n.lastSeq = m.lastSeq

VideoTag(m, data) ==
  [track |-> "video", ts |-> Stamped(m.video, m.bufTs).ts, chunks |-> m.buf,
   of |-> source.sdps, data |-> IF Broken(m) THEN "void" ELSE data]

\* A video tag is made of the buffer.
LEMMA QueuedIs ==
  ASSUME NEW m \in Metas, TracksOK(m), source.sdps \in Nat,
         NEW data \in {"picture", "hollow", "void"}
  PROVE  LET n == Queued(m, data)
         IN  /\ n \in Metas /\ TracksOK(n) /\ SameFrame(m, n)
             /\ n.audioOnly = m.audioOnly /\ n.sync = m.sync
             /\ VideoTag(m, data) \in Tag
             /\ n.audioQ = m.audioQ /\ n.videoQ = Append(m.videoQ, VideoTag(m, data))
             /\ InOrder(m) => InOrder(n)
<1> DEFINE s == Stamped(m.video, m.bufTs)
           tag == VideoTag(m, data)
           u == Aligned(m.audio, s.ts)
           q == Append(m.videoQ, tag)
           n == [m EXCEPT !.video = s.track, !.audio = u, !.temp = "video", !.videoQ = q]
<1>1. Queued(m, data) = n
  BY DEF Queued, VideoTag, Metas
<1>2. /\ TrackOK(m.video) /\ TrackOK(m.audio) /\ m.bufTs \in Times /\ m.buf \in Seq(Chunk)
      /\ m.videoQ \in Seq(Tag) /\ m.audioQ \in Seq(Tag) /\ m.sync \in Nat
  BY DEF TracksOK, Metas
<1>3. TrackOK(s.track) /\ s.ts \in Nat
  BY <1>2, StampedGrows
<1>4. TrackOK(u)
  BY <1>2, <1>3, AlignedReaches
<1>5. tag \in Tag /\ tag.ts = s.ts
  <2> HIDE DEF s
  <2>1. s.ts \in Nat
    BY <1>3
  <2>2. (IF Broken(m) THEN "void" ELSE data) \in {"picture", "hollow", "void"}
    OBVIOUS
  <2> QED
    BY <1>2, <2>1, <2>2 DEF Tag, VideoTag, s
<1>6. q \in Seq(Tag)
  BY <1>2, <1>5, TagsOfAppend
<1>7. InOrder(m) => Ordered(s.track, u, q, m.audioQ, m.sync)
  <2> HAVE InOrder(m)
  <2>1. Ordered(m.video, m.audio, m.videoQ, m.audioQ, m.sync)
    BY OrderedSwap DEF InOrder
  <2> HIDE DEF tag
  <2> QED
    BY <1>2, <1>5, <2>1, OrderedAppend
<1> HIDE DEF s, tag, u, q
<1>8. s.track \in Tracks /\ u \in Tracks
  BY <1>3, <1>4 DEF TrackOK
<1>9. n \in Metas
  BY <1>6, <1>8 DEF Metas
<1>10. /\ n.video = s.track /\ n.audio = u /\ n.videoQ = q /\ n.audioQ = m.audioQ
       /\ n.sync = m.sync /\ n.audioOnly = m.audioOnly /\ n.buf = m.buf
       /\ n.bufTs = m.bufTs /\ n.valid = m.valid /\ n.lastSeq = m.lastSeq
  BY DEF Metas
<1> HIDE DEF n
<1>11. TracksOK(n) /\ SameFrame(m, n)
  BY <1>3, <1>4, <1>10 DEF TracksOK, SameFrame
<1>12. InOrder(m) => InOrder(n)
  BY <1>7, <1>10, OrderedSwap DEF InOrder
<1> QED
  BY <1>1, <1>5, <1>9, <1>10, <1>11, <1>12 DEF tag, q

\* A frame is put, or dropped when the parameters are not known; the buffer is
\* empty after it.
PutFrom(x, y, data) ==
  /\ y \in Boxes /\ TracksOK(y.m) /\ y.out = x.out
  /\ y.m.buf = << >> /\ y.m.valid = TRUE /\ y.m.lastSeq = 0
  /\ y.m.bufTs = x.m.bufTs
  /\ y.m.audioOnly = x.m.audioOnly /\ y.m.audioQ = x.m.audioQ
  /\ \/ y.m.videoQ = x.m.videoQ
     \/ \E tag \in Tag :
          /\ tag.track = "video" /\ tag.chunks = x.m.buf
          /\ tag.data = IF Broken(x.m) THEN "void" ELSE data
          /\ y.m.videoQ = Append(x.m.videoQ, tag)
  /\ InOrder(x.m) => InOrder(y.m)

LEMMA PutIs ==
  ASSUME NEW x \in Boxes, TracksOK(x.m), source.sdps \in Nat,
         NEW data \in {"picture", "hollow", "void"}
  PROVE  PutFrom(x, Put(x, data), data)
<1> DEFINE p == ParametersFound(x)
           n == IF p.m.sps /\ p.m.pps /\ p.m.adts THEN Queued(p.m, data) ELSE p.m
           e == Emptied(n)
           y == Put(x, data)
<1>1. p \in Boxes /\ p.out = x.out /\ p.m \in Metas /\ x.m \in Metas
  BY ParametersFoundIs DEF Boxes
<1>2. SameTracks(x.m, p.m) /\ SameFrame(x.m, p.m)
  <2>1. PICK s, t \in BOOLEAN : p.m = [x.m EXCEPT !.sps = s, !.pps = t]
    BY ParametersFoundIs DEF SameButParameters
  <2> HIDE DEF p
  <2> QED
    BY <1>1, <2>1 DEF SameTracks, SameFrame, Metas
<1>3. TracksOK(p.m) /\ (InOrder(x.m) => InOrder(p.m))
  BY <1>2 DEF SameTracks, TracksOK, InOrder
<1>4. y = [p EXCEPT !.m = e]
  BY DEF Put
<1> HIDE DEF p
<1>5. /\ n \in Metas /\ TracksOK(n) /\ SameFrame(x.m, n) /\ n.audioOnly = x.m.audioOnly
      /\ n.audioQ = x.m.audioQ /\ (InOrder(x.m) => InOrder(n))
      /\ \/ n.videoQ = x.m.videoQ
         \/ VideoTag(p.m, data) \in Tag /\ n.videoQ = Append(x.m.videoQ, VideoTag(p.m, data))
  <2>1. CASE p.m.sps /\ p.m.pps /\ p.m.adts
    <3> DEFINE r == Queued(p.m, data)
    <3>1. n = r
      BY <2>1
    <3>2. /\ r \in Metas /\ TracksOK(r) /\ SameFrame(p.m, r)
          /\ r.audioOnly = p.m.audioOnly /\ r.audioQ = p.m.audioQ
          /\ VideoTag(p.m, data) \in Tag
          /\ r.videoQ = Append(p.m.videoQ, VideoTag(p.m, data))
          /\ InOrder(p.m) => InOrder(r)
      BY <1>1, <1>3, QueuedIs
    <3> HIDE DEF r, n
    <3> QED
      BY <1>2, <1>3, <3>1, <3>2 DEF SameTracks, SameFrame
  <2>2. CASE ~(p.m.sps /\ p.m.pps /\ p.m.adts)
    BY <1>1, <1>2, <1>3, <2>2 DEF SameTracks
  <2> QED
    BY <2>1, <2>2
<1> HIDE DEF n
<1>6. /\ e \in Metas /\ e.buf = << >> /\ e.valid = TRUE /\ e.lastSeq = 0
      /\ e.bufTs = n.bufTs /\ SameTracks(n, e)
  <2>1. << >> \in Seq(Chunk)
    OBVIOUS
  <2> QED
    BY <1>5, <2>1 DEF Emptied, Metas, SameTracks
<1> HIDE DEF e
<1>7. y \in Boxes /\ y.m = e /\ y.out = x.out
  BY <1>1, <1>4, <1>6 DEF Boxes
<1> HIDE DEF y
<1>8. TracksOK(y.m) /\ (InOrder(x.m) => InOrder(y.m))
  BY <1>5, <1>6, <1>7 DEF SameTracks, TracksOK, InOrder
<1>9. ASSUME y.m.videoQ # x.m.videoQ
      PROVE  \E tag \in Tag :
               /\ tag.track = "video" /\ tag.chunks = x.m.buf
               /\ tag.data = IF Broken(x.m) THEN "void" ELSE data
               /\ y.m.videoQ = Append(x.m.videoQ, tag)
  <2> DEFINE tag == VideoTag(p.m, data)
  <2>1. tag \in Tag /\ y.m.videoQ = Append(x.m.videoQ, tag)
    BY <1>5, <1>6, <1>7, <1>9 DEF SameTracks
  <2>2. tag.track = "video" /\ tag.chunks = x.m.buf
    BY <1>2 DEF VideoTag, SameFrame
  <2>3. tag.data = IF Broken(x.m) THEN "void" ELSE data
    BY <1>2 DEF VideoTag, SameFrame, Broken
  <2> HIDE DEF tag
  <2> QED
    BY <2>1, <2>2, <2>3
<1>10. /\ y.m.buf = << >> /\ y.m.valid = TRUE /\ y.m.lastSeq = 0
       /\ y.m.bufTs = x.m.bufTs
       /\ y.m.audioOnly = x.m.audioOnly /\ y.m.audioQ = x.m.audioQ
  BY <1>5, <1>6, <1>7 DEF SameTracks, SameFrame
<1>11. PutFrom(x, y, data)
  BY <1>7, <1>8, <1>9, <1>10 DEF PutFrom
<1> QED
  BY <1>11 DEF y

\* A chunk reaches the buffer.
LEMMA BufferedIs ==
  ASSUME NEW m \in Metas, NEW c \in Chunk, NEW rtp \in Times
  PROVE  LET n == Buffered(m, c, rtp)
         IN  /\ n \in Metas /\ SameTracks(m, n)
             /\ n.buf = Append(m.buf, c)
             /\ n.bufTs = IF c.what = "rest" THEN m.bufTs ELSE rtp
             /\ n.valid = (m.valid /\ (Fragment(c) => m.lastSeq = 0 \/ c.seq = m.lastSeq + 1))
             /\ n.lastSeq = IF c.what = "start" \/ (c.what = "rest" /\ m.lastSeq > 0)
                            THEN c.seq ELSE m.lastSeq
<1> DEFINE b == Append(m.buf, c)
           t == IF c.what = "rest" THEN m.bufTs ELSE rtp
           v == m.valid /\ (c.what \in {"start", "rest"} => m.lastSeq = 0 \/ c.seq = m.lastSeq + 1)
           l == IF c.what = "start" \/ (c.what = "rest" /\ m.lastSeq > 0)
                THEN c.seq ELSE m.lastSeq
           n == [m EXCEPT !.buf = b, !.bufTs = t, !.valid = v, !.lastSeq = l]
<1>1. Buffered(m, c, rtp) = n
  BY DEF Buffered, Metas
<1>2. b \in Seq(Chunk)
  <2>1. m.buf \in Seq(Chunk)
    BY DEF Metas
  <2> HIDE DEF Chunk
  <2> QED
    BY <2>1
<1>3. t \in Times /\ l \in Nat
  BY DEF Metas, Chunk
<1>4. v \in BOOLEAN
  BY Zenon
<1>5. v = (m.valid /\ (Fragment(c) => m.lastSeq = 0 \/ c.seq = m.lastSeq + 1))
  BY Zenon DEF Fragment
<1> HIDE DEF b, t, v, l
<1>6. /\ n \in Metas /\ SameTracks(m, n)
      /\ n.buf = b /\ n.bufTs = t /\ n.valid = v /\ n.lastSeq = l
  BY <1>2, <1>3, <1>4 DEF Metas, SameTracks
<1> HIDE DEF n
<1>7. /\ n.bufTs = IF c.what = "rest" THEN m.bufTs ELSE rtp
      /\ n.lastSeq = IF c.what = "start" \/ (c.what = "rest" /\ m.lastSeq > 0)
                     THEN c.seq ELSE m.lastSeq
  BY <1>6 DEF t, l
<1>8. n.valid = (m.valid /\ (Fragment(c) => m.lastSeq = 0 \/ c.seq = m.lastSeq + 1))
  BY <1>5, <1>6, Zenon
<1>9. n.buf = Append(m.buf, c)
  BY <1>6 DEF b
<1> QED
  BY <1>1, <1>6, <1>7, <1>8, <1>9

\* A packet of audio.
LEMMA AudioTagIs ==
  ASSUME NEW x \in Boxes, TracksOK(x.m), source.sdps \in Nat, NEW rtp \in Times
  PROVE  LET y == AudioTag(x, rtp)
         IN  /\ y \in Boxes /\ TracksOK(y.m) /\ SameFrame(x.m, y.m)
             /\ y.m.audioOnly = x.m.audioOnly /\ y.m.videoQ = x.m.videoQ
             /\ \E tag \in Tag :
                  /\ tag.track = "audio"
                  /\ y.m.audioQ \in {x.m.audioQ, Append(x.m.audioQ, tag)}
                  /\ y.out \in {x.out, Append(x.out, tag)}
             /\ InOrder(x.m) => InOrder(y.m)
<1> DEFINE m == x.m
           s == Stamped(m.audio, rtp)
           tag == [track |-> "audio", ts |-> s.ts, data |-> "picture", chunks |-> << >>,
                   of |-> source.sdps]
           u == Aligned(m.video, s.ts)
           n == [m EXCEPT !.audio = s.track, !.video = u, !.temp = "audio"]
           q == Append(m.audioQ, tag)
           p == [n EXCEPT !.audioQ = q]
           y == AudioTag(x, rtp)
<1>1. /\ m \in Metas /\ TrackOK(m.audio) /\ TrackOK(m.video)
      /\ m.audioQ \in Seq(Tag) /\ m.videoQ \in Seq(Tag) /\ m.sync \in Nat
  BY DEF Boxes, Metas, TracksOK
<1>2. TrackOK(s.track) /\ s.ts \in Nat
  BY <1>1, StampedGrows
<1>3. TrackOK(u)
  BY <1>1, <1>2, AlignedReaches
<1>4. tag \in Tag /\ tag.ts = s.ts /\ tag.track = "audio"
  <2> HIDE DEF s
  <2>1. << >> \in Seq(Chunk)
    OBVIOUS
  <2> QED
    BY <1>2, <2>1 DEF Tag
<1>5. q \in Seq(Tag)
  BY <1>1, <1>4, TagsOfAppend
<1>6. InOrder(m) => /\ Ordered(s.track, u, q, m.videoQ, m.sync)
                    /\ Ordered(s.track, u, m.audioQ, m.videoQ, m.sync)
  <2> HAVE InOrder(m)
  <2>1. Ordered(m.audio, m.video, m.audioQ, m.videoQ, m.sync)
    BY DEF InOrder
  <2> HIDE DEF tag, m
  <2> QED
    BY <1>1, <1>4, <2>1, OrderedAppend
<1>7. \/ y = x
      \/ y = Handed([x EXCEPT !.m = n], tag)
      \/ y = [x EXCEPT !.m = p]
  BY DEF AudioTag
<1> HIDE DEF s, tag, u, q, y
<1>8. s.track \in Tracks /\ u \in Tracks
  BY <1>2, <1>3 DEF TrackOK
<1>9. /\ n \in Metas /\ n.audio = s.track /\ n.video = u /\ n.audioQ = m.audioQ
      /\ n.videoQ = m.videoQ /\ n.sync = m.sync /\ n.audioOnly = m.audioOnly
      /\ SameFrame(m, n)
  BY <1>1, <1>8 DEF Metas, SameFrame
<1>10. /\ p \in Metas /\ p.audio = s.track /\ p.video = u /\ p.audioQ = q
       /\ p.videoQ = m.videoQ /\ p.sync = m.sync /\ p.audioOnly = m.audioOnly
       /\ SameFrame(m, p)
  BY <1>1, <1>5, <1>8 DEF Metas, SameFrame
<1>11. /\ TracksOK(n) /\ TracksOK(p)
       /\ InOrder(m) => InOrder(n) /\ InOrder(p)
  BY <1>2, <1>3, <1>6, <1>9, <1>10 DEF TracksOK, InOrder
<1> HIDE DEF n, p
<1>12. CASE y = x
  BY <1>4, <1>12 DEF SameFrame, y
<1>13. CASE y = Handed([x EXCEPT !.m = n], tag)
  <2> DEFINE z == [x EXCEPT !.m = n]
  <2>1. z \in Boxes /\ z.m = n /\ z.out = x.out
    BY <1>9 DEF Boxes
  <2> HIDE DEF z
  <2>2. y \in Boxes /\ y.m = n /\ y.out \in {x.out, Append(x.out, tag)}
    BY <1>4, <1>13, <2>1, HandedIs DEF z
  <2> QED
    BY <1>4, <1>9, <1>11, <2>2 DEF y
<1>14. CASE y = [x EXCEPT !.m = p]
  <2>1. y \in Boxes /\ y.m = p /\ y.out = x.out
    BY <1>10, <1>14 DEF Boxes
  <2>2. p.audioQ = Append(m.audioQ, tag)
    BY <1>10 DEF q
  <2> QED
    BY <1>4, <1>10, <1>11, <2>1, <2>2 DEF y
<1> QED
  BY <1>7, <1>12, <1>13, <1>14 DEF y

----------------------------------------------------------------------------
(* The invariant.                                                          *)

SourceOK ==
  /\ source \in [sdps : Nat, kind : {"none", "audio", "av"},
                 audioTs : Times, videoTs : Times,
                 layout : Layouts \cup {<< >>}, at : Nat, frame : Nat,
                 seq : 0 .. SeqMod - 1, video : Nat, audio : Nat]
  /\ source.layout = << >> => source.at = 0
  /\ source.layout # << >> => source.at \in 1 .. Len(source.layout) - 1

\* Before a description comes, no packet does.
Unborn == source.sdps = 0 => source.kind = "none" /\ meta = Fresh

\* k steps back on the cycle of 0 .. mod - 1, for k < mod.
Back(a, k, mod) == IF a >= k THEN a - k ELSE a - k + mod

\* Where the source is, as seen from the chunk that came last: what the frame
\* in the buffer is compared with.
Recent(c, m, s) ==
  /\ c.frame <= s.frame
  /\ c.frame = s.frame =>
       /\ c.at \in 1 .. s.at
       /\ c.seq = Back(s.seq, s.at - c.at + 1, SeqMod)
  /\ (\E j \in 1 .. Len(m.buf) : m.buf[j].what # "rest") /\ s.frame < c.frame + RtpMod =>
       m.bufTs = Back(s.videoTs, s.frame - c.frame, RtpMod)

\* A start was noted in _last_video_seq.
Started(buf, n) == \E j \in 1 .. n : buf[j].what = "start" /\ buf[j].seq # 0

\* Two chunks next to each other.
Adjacent(buf, i, valid) ==
  buf[i].frame < buf[i - 1].frame + RtpMod =>
    /\ (\E j \in 1 .. i - 1 : buf[j].what # "rest") => buf[i].frame = buf[i - 1].frame
    /\ valid /\ Fragment(buf[i - 1]) /\ buf[i].what = "rest" /\ Started(buf, i - 1) =>
         buf[i].at = buf[i - 1].at + 1

\* i is the last fragment in the buffer.
IsLastFragment(buf, i) ==
  /\ i \in 1 .. Len(buf) /\ Fragment(buf[i])
  /\ \A j \in i + 1 .. Len(buf) : ~Fragment(buf[j])

\* The frame in the buffer: a hole in it was noted in is_cur_frame_valied.
BufferOK(m, s) ==
  /\ m.buf # << >> => Recent(m.buf[Len(m.buf)], m, s)
  /\ \A i \in 2 .. Len(m.buf) : Adjacent(m.buf, i, m.valid)
  /\ m.valid /\ Started(m.buf, Len(m.buf)) =>
       m.lastSeq > 0 /\ \A i \in 1 .. Len(m.buf) :
                         IsLastFragment(m.buf, i) => m.buf[i].seq = m.lastSeq

\* Two fragments with no fragment between them, and numbers that do not follow.
Gap(buf, i, k) ==
  /\ i \in 1 .. Len(buf) /\ k \in i + 1 .. Len(buf)
  /\ Fragment(buf[i]) /\ Fragment(buf[k])
  /\ \A j \in i + 1 .. k - 1 : ~Fragment(buf[j])
  /\ buf[k].seq # buf[i].seq + 1

\* A frame of the first source is noted as broken for what is in it only.
BlameOK(m) ==
  /\ m.lastSeq # 0 => \E i \in 1 .. Len(m.buf) :
                        IsLastFragment(m.buf, i) /\ m.buf[i].seq = m.lastSeq
  /\ ~m.valid => \E i, k \in 1 .. Len(m.buf) : Gap(m.buf, i, k)
  /\ \A i \in 1 .. Len(m.buf) : m.buf[i].at = 1 => m.buf[i].what # "rest"

TagsOK(m, o) ==
  /\ \A tag \in Tags(m.audioQ) : tag.track = "audio"
  /\ conf.check => /\ \A tag \in Tags(m.videoQ) : tag.data # "void" => NoHole(tag)
                   /\ \A tag \in Tags(o) : tag.track = "video" => NoHole(tag)
  /\ source.sdps <= 1 =>
       \A tag \in Tags(m.videoQ) : tag.data = "void" => ~Whole(tag.chunks)

IInv ==
  /\ conf \in Confs /\ SourceOK /\ Unborn
  /\ State \in Boxes /\ TracksOK(meta)
  /\ source.sdps <= 1 /\ conf.threshold = 0 => InOrder(meta)
  /\ meta.audioOnly \/ Resting(meta)
  /\ BufferOK(meta, source)
  /\ source.sdps <= 1 => BlameOK(meta)
  /\ TagsOK(meta, out)

----------------------------------------------------------------------------
(* The frame in the buffer.                                                *)

\* A frame that is put: no hole in what goes on to the cache, and no blame for
\* what came whole.
LEMMA PutTagsOK ==
  ASSUME NEW x \in Boxes, TracksOK(x.m), source.sdps \in Nat, conf.check \in BOOLEAN,
         TagsOK(x.m, x.out), x.m.buf # << >>,
         \A i \in 2 .. Len(x.m.buf) : Adjacent(x.m.buf, i, x.m.valid),
         source.sdps <= 1 => BlameOK(x.m),
         NEW data \in VideoData(x.m)
  PROVE  TagsOK(Put(x, data).m, Put(x, data).out)
<1> DEFINE y == Put(x, data)
           buf == x.m.buf
<1>1. data \in {"picture", "hollow", "void"}
  BY DEF VideoData
<1>2. /\ buf \in Seq(Chunk) /\ Len(buf) \in Nat \ {0} /\ DOMAIN buf = 1 .. Len(buf)
      /\ x.m.videoQ \in Seq(Tag)
  <2>1. buf \in Seq(Chunk) /\ x.m.videoQ \in Seq(Tag)
    BY DEF Boxes, Metas
  <2> HIDE DEF buf
  <2> QED
    BY <2>1, EmptySeq, LenProperties DEF buf
<1>3. /\ y.out = x.out /\ y.m.audioQ = x.m.audioQ
      /\ \/ y.m.videoQ = x.m.videoQ
         \/ \E tag \in Tag :
              /\ tag.track = "video" /\ tag.chunks = buf
              /\ tag.data = IF Broken(x.m) THEN "void" ELSE data
              /\ y.m.videoQ = Append(x.m.videoQ, tag)
  <2>1. PutFrom(x, y, data)
    BY <1>1, PutIs
  <2> HIDE DEF y
  <2> QED
    BY <2>1 DEF PutFrom
<1> HIDE DEF y
<1>4. CASE y.m.videoQ = x.m.videoQ
  BY <1>3, <1>4 DEF TagsOK, y
<1>5. ASSUME NEW tag \in Tag, tag.chunks = buf,
             tag.data = IF Broken(x.m) THEN "void" ELSE data,
             y.m.videoQ = Append(x.m.videoQ, tag)
      PROVE  TagsOK(y.m, y.out)
  <2>1. Tags(y.m.videoQ) = Tags(x.m.videoQ) \cup {tag}
    BY <1>2, <1>5, TagsOfAppend
  <2>2. ASSUME conf.check, tag.data # "void" PROVE NoHole(tag)
    <3>1. x.m.valid /\ tag.data = data
      BY <1>5, <2>2 DEF Broken
    <3>2. tag.data = "picture" => buf[1].what # "rest"
      BY <3>1 DEF VideoData
    <3>3. SUFFICES ASSUME NEW i \in 2 .. Len(buf), buf[i].frame < buf[i - 1].frame + RtpMod
                   PROVE  /\ tag.data = "picture" => buf[i].frame = buf[i - 1].frame
                          /\ /\ Fragment(buf[i - 1]) /\ buf[i].what = "rest"
                             /\ Started(buf, i - 1)
                             => /\ buf[i].frame = buf[i - 1].frame
                                /\ buf[i].at = buf[i - 1].at + 1
      BY <1>5 DEF NoHole, Started
    <3>4. /\ (\E j \in 1 .. i - 1 : buf[j].what # "rest") => buf[i].frame = buf[i - 1].frame
          /\ /\ x.m.valid /\ Fragment(buf[i - 1]) /\ buf[i].what = "rest"
             /\ Started(buf, i - 1)
             => buf[i].at = buf[i - 1].at + 1
      BY <3>3 DEF Adjacent
    <3>5. tag.data = "picture" => \E j \in 1 .. i - 1 : buf[j].what # "rest"
      BY <1>2, <3>2
    <3>6. Started(buf, i - 1) => \E j \in 1 .. i - 1 : buf[j].what # "rest"
      BY DEF Started
    <3> QED
      BY <3>1, <3>4, <3>5, <3>6
  <2>3. ASSUME source.sdps <= 1, tag.data = "void" PROVE ~Whole(tag.chunks)
    <3> SUFFICES ASSUME Whole(buf) PROVE FALSE
      BY <1>5
    <3>1. /\ \A i \in 1 .. Len(buf) : buf[i].at = i
          /\ \A i \in 1 .. Len(buf) : buf[i].seq = buf[1].seq + i - 1
          /\ \A i, k \in 1 .. Len(buf) : \A j \in i .. k :
               Fragment(buf[i]) /\ Fragment(buf[k]) => Fragment(buf[j])
          /\ \E i \in 1 .. Len(buf) : buf[i].what \in {"picture", "start"}
      BY <1>2 DEF Whole
    <3>2. BlameOK(x.m)
      BY <2>3
    <3>3. buf[1].what # "rest"
      BY <1>2, <3>1, <3>2 DEF BlameOK
    <3>4. VideoData(x.m) = {"picture"}
      BY <1>2, <3>1, <3>3 DEF VideoData, Has
    <3>5. ~x.m.valid
      BY <1>5, <2>3, <3>4 DEF Broken
    <3>6. PICK i, k \in 1 .. Len(buf) : Gap(buf, i, k)
      BY <3>2, <3>5 DEF BlameOK
    <3>7. k = i + 1
      <4> SUFFICES ASSUME i + 1 \in i + 1 .. k - 1 PROVE FALSE
        BY <1>2, <3>6 DEF Gap
      <4> QED
        BY <1>2, <3>1, <3>6 DEF Gap
    <3>8. /\ buf[k].seq = buf[1].seq + k - 1 /\ buf[i].seq = buf[1].seq + i - 1
          /\ buf[k].seq # buf[i].seq + 1
      BY <3>1, <3>6 DEF Gap
    <3>9. buf[1].seq \in Nat
      <4>1. buf[1] \in Chunk
        BY <1>2, ElementOfSeq
      <4> QED
        BY <4>1 DEF Chunk
    <3>10. i \in Int
      BY <1>2
    <3> DEFINE b == buf[1].seq
               e == buf[i].seq
               f == buf[k].seq
    <3>11. b \in Int /\ f = b + k - 1 /\ e = b + i - 1 /\ f # e + 1
      BY <3>8, <3>9
    <3> HIDE DEF b, e, f
    <3> QED
      BY <3>7, <3>10, <3>11
  <2> QED
    BY <1>3, <2>1, <2>2, <2>3 DEF TagsOK
<1> QED
  BY <1>3, <1>4, <1>5 DEF y

\* Merging takes tags away and hands on those with data.
LEMMA DrainedTagsOK ==
  ASSUME NEW x \in Boxes, NEW y, Drained(x, y), TagsOK(x.m, x.out)
  PROVE  TagsOK(y.m, y.out)
<1>1. /\ Tags(y.m.audioQ) \subseteq Tags(x.m.audioQ)
      /\ Tags(y.m.videoQ) \subseteq Tags(x.m.videoQ)
      /\ \A tag \in Tags(y.out) :
           \/ tag \in Tags(x.out)
           \/ tag \in Tags(x.m.audioQ) \cup Tags(x.m.videoQ) /\ tag.data # "void"
  BY DEF Drained
<1>2. conf.check => \A tag \in Tags(y.out) : tag.track = "video" => NoHole(tag)
  BY <1>1 DEF TagsOK
<1> QED
  BY <1>1, <1>2 DEF TagsOK

\* The next step of the source, as BufferOK sees it.
Sends(s, t, layout) ==
  /\ s.at \in Nat /\ s.frame \in Nat /\ s.seq \in 0 .. SeqMod - 1 /\ s.videoTs \in Times
  /\ Len(layout) \in 1 .. SeqMod /\ s.at + 1 \in 1 .. Len(layout)
  /\ t.seq = (s.seq + 1) % SeqMod
  /\ \/ /\ s.at + 1 = Len(layout) /\ t.frame = s.frame + 1
        /\ t.at = 0 /\ t.videoTs = (s.videoTs + 1) % RtpMod
     \/ /\ s.at + 1 # Len(layout) /\ t.frame = s.frame
        /\ t.at = s.at + 1 /\ t.videoTs = s.videoTs

\* As many steps back from the next number.
LEMMA BackStep ==
  ASSUME NEW mod \in Nat \ {0}, NEW a \in 0 .. mod - 1, NEW k \in Nat, k + 1 < mod
  PROVE  /\ Back((a + 1) % mod, k + 1, mod) = Back(a, k, mod)
         /\ (a + 1) % mod \in 0 .. mod - 1
BY DEF Back

\* One step back from the next number.
LEMMA BackOne ==
  ASSUME NEW mod \in Nat, 1 < mod, NEW a \in 0 .. mod - 1
  PROVE  Back((a + 1) % mod, 1, mod) = a
BY DEF Back

\* No step back leads to the same number, one step back to the one before.
LEMMA BackSame ==
  ASSUME NEW mod \in Nat \ {0}, NEW a \in 0 .. mod - 1, NEW k \in Nat, k < mod,
         Back(a, k, mod) = a
  PROVE  k = 0
BY DEF Back

LEMMA BackBefore ==
  ASSUME NEW mod \in Nat \ {0}, NEW a \in 0 .. mod - 1, NEW k \in 1 .. mod,
         Back(a, k, mod) + 1 = a
  PROVE  k = 1
BY DEF Back

\* Seen from an older chunk, the source is a step further.
LEMMA RecentStep ==
  ASSUME NEW c \in Chunk, NEW m \in Metas, NEW s, NEW t, NEW layout,
         Sends(s, t, layout), Recent(c, m, s)
  PROVE  Recent(c, m, t)
<1> USE Clocks
<1>0. c.frame \in Nat /\ c.at \in Nat /\ s.at \in Nat /\ s.frame \in Nat
  BY DEF Chunk, Sends
<1>1. c.seq \in Nat /\ s.seq \in 0 .. SeqMod - 1 /\ s.videoTs \in Times
  BY DEF Chunk, Sends
<1>2. CASE s.at + 1 = Len(layout)
  <2>1. t.frame = s.frame + 1 /\ t.videoTs = (s.videoTs + 1) % RtpMod
    BY <1>2 DEF Sends
  <2>2. ASSUME \E j \in 1 .. Len(m.buf) : m.buf[j].what # "rest", t.frame < c.frame + RtpMod
        PROVE  m.bufTs = Back(t.videoTs, t.frame - c.frame, RtpMod)
    <3> DEFINE k == s.frame - c.frame
    <3>1. c.frame <= s.frame
      BY DEF Recent
    <3>2. k \in Nat /\ t.frame - c.frame = k + 1
      BY <1>0, <2>1, <3>1
    <3>3. k + 1 < RtpMod /\ s.frame < c.frame + RtpMod
      BY <1>0, <2>1, <2>2
    <3>4. m.bufTs = Back(s.videoTs, k, RtpMod)
      BY <2>2, <3>3 DEF Recent
    <3> HIDE DEF k
    <3>5. Back((s.videoTs + 1) % RtpMod, k + 1, RtpMod) = Back(s.videoTs, k, RtpMod)
      BY <1>1, <3>2, <3>3, BackStep DEF Times
    <3> QED
      BY <2>1, <3>2, <3>4, <3>5, Zenon
  <2>3. c.frame < t.frame /\ c.frame <= t.frame /\ c.frame # t.frame
    <3>1. c.frame <= s.frame
      BY DEF Recent
    <3> QED
      BY <1>0, <2>1, <3>1
  <2> QED
    BY <2>2, <2>3, Zenon DEF Recent
<1>3. CASE s.at + 1 # Len(layout)
  <2>1. /\ t.frame = s.frame /\ t.at = s.at + 1 /\ t.videoTs = s.videoTs
        /\ t.seq = (s.seq + 1) % SeqMod /\ s.at + 1 < SeqMod
    <3> DEFINE l == Len(layout)
    <3>1. l \in 1 .. SeqMod /\ s.at + 1 \in 1 .. l /\ s.at + 1 # l
      BY <1>3 DEF Sends
    <3>2. s.at + 1 < SeqMod
      <4> HIDE DEF l
      <4> QED
        BY <1>0, <3>1
    <3> QED
      BY <1>3, <3>2 DEF Sends
  <2>2. ASSUME c.frame = s.frame
        PROVE  c.at \in 1 .. t.at /\ c.seq = Back(t.seq, t.at - c.at + 1, SeqMod)
    <3> DEFINE k == s.at - c.at + 1
    <3>1. c.at \in 1 .. s.at /\ c.seq = Back(s.seq, k, SeqMod)
      BY <2>2 DEF Recent
    <3>2. t.at - c.at + 1 = k + 1 /\ c.at \in 1 .. t.at /\ k \in Nat /\ k + 1 < SeqMod
      BY <1>0, <2>1, <3>1
    <3> HIDE DEF k
    <3>3. Back((s.seq + 1) % SeqMod, k + 1, SeqMod) = Back(s.seq, k, SeqMod)
      BY <1>1, <3>2, BackStep
    <3> QED
      BY <2>1, <3>1, <3>2, <3>3, Zenon
  <2>3. /\ c.frame <= t.frame
        /\ (\E j \in 1 .. Len(m.buf) : m.buf[j].what # "rest") /\ t.frame < c.frame + RtpMod =>
             m.bufTs = Back(t.videoTs, t.frame - c.frame, RtpMod)
    BY <2>1, Zenon DEF Recent
  <2> QED
    BY <2>1, <2>2, <2>3, Zenon DEF Recent
<1> QED
  BY <1>2, <1>3

\* A packet is lost, or another one comes: the buffer is as it was.
LEMMA BufferStep ==
  ASSUME NEW m \in Metas, NEW s, NEW t, NEW layout, Sends(s, t, layout), BufferOK(m, s)
  PROVE  BufferOK(m, t)
<1>1. m.buf # << >> => m.buf[Len(m.buf)] \in Chunk
  <2>1. m.buf \in Seq(Chunk)
    BY DEF Metas
  <2>2. m.buf # << >> => Len(m.buf) \in 1 .. Len(m.buf)
    BY <2>1, EmptySeq
  <2> QED
    BY <2>1, <2>2, ElementOfSeq
<1>2. m.buf # << >> => Recent(m.buf[Len(m.buf)], m, t)
  BY <1>1, RecentStep DEF BufferOK
<1> QED
  BY <1>2 DEF BufferOK

\* A chunk joins the buffer.
LEMMA AppendedChunk ==
  ASSUME NEW q \in Seq(Chunk), NEW c \in Chunk
  PROVE  /\ Len(q) \in Nat /\ Len(Append(q, c)) = Len(q) + 1
         /\ Append(q, c)[Len(q) + 1] = c
         /\ \A i \in 1 .. Len(q) : Append(q, c)[i] = q[i] /\ q[i] \in Chunk
<1> HIDE DEF Chunk
<1> QED
  BY ElementOfSeq

\* A chunk goes behind the others: it is of their frame, and if it is a later
\* fragment then of the NAL unit of the one before, or the frame is marked.
LEMMA BufferedOK ==
  ASSUME NEW m \in Metas, NEW c \in Chunk, NEW s, NEW t, NEW layout,
         Sends(s, t, layout), BufferOK(m, s),
         c.frame = s.frame, c.at = s.at + 1, c.seq = s.seq,
         m.buf # << >> => m.bufTs = s.videoTs
  PROVE  BufferOK(Buffered(m, c, s.videoTs), t)
<1> DEFINE n == Buffered(m, c, s.videoTs)
           q == m.buf
           r == n.buf
           l == Len(m.buf)
<1> USE Clocks
<1>1. /\ s.at \in Nat /\ s.frame \in Nat /\ s.seq \in 0 .. SeqMod - 1 /\ s.videoTs \in Times
      /\ m.lastSeq \in Nat /\ q \in Seq(Chunk)
  BY DEF Sends, Metas
<1>2. /\ n \in Metas /\ r = Append(q, c)
      /\ n.bufTs = IF c.what = "rest" THEN m.bufTs ELSE s.videoTs
      /\ n.valid = (m.valid /\ (Fragment(c) => m.lastSeq = 0 \/ c.seq = m.lastSeq + 1))
      /\ n.lastSeq = IF c.what = "start" \/ (c.what = "rest" /\ m.lastSeq > 0)
                     THEN c.seq ELSE m.lastSeq
  BY <1>1, BufferedIs
<1>3. /\ l \in Nat /\ Len(r) = l + 1 /\ r[l + 1] = c
      /\ \A i \in 1 .. l : r[i] = q[i] /\ q[i] \in Chunk
  BY <1>1, <1>2, AppendedChunk
<1>4. l > 0 => m.bufTs = s.videoTs /\ Recent(q[l], m, s)
  <2>1. l > 0 => q # << >>
    BY <1>1, EmptySeq
  <2> QED
    BY <2>1 DEF BufferOK
<1> HIDE DEF n, q, r, l
<1>5. Recent(c, n, t)
  <2>1. c.frame = t.frame => c.at \in 1 .. t.at /\ c.seq = Back(t.seq, t.at - c.at + 1, SeqMod)
    <3> HAVE c.frame = t.frame
    <3>1. t.at = s.at + 1 /\ t.seq = (s.seq + 1) % SeqMod
      BY <1>1 DEF Sends
    <3>2. Back((s.seq + 1) % SeqMod, 1, SeqMod) = s.seq
      <4>1. SeqMod \in Nat /\ 1 < SeqMod
        OBVIOUS
      <4> QED
        BY <1>1, <4>1, BackOne
    <3>3. t.at = s.at + 1
      BY <3>1
    <3>4. t.at - c.at + 1 = 1 /\ c.at \in 1 .. t.at
      <4> DEFINE a == s.at
                 b == t.at
                 d == c.at
      <4>1. a \in Nat /\ b = a + 1 /\ d = a + 1
        BY <1>1, <3>3
      <4> HIDE DEF a, b, d
      <4>2. b - d + 1 = 1 /\ d \in 1 .. b
        BY <4>1
      <4> QED
        BY <4>2 DEF b, d
    <3>5. Back(t.seq, t.at - c.at + 1, SeqMod) = s.seq
      BY <3>1, <3>2, <3>4, Zenon
    <3> QED
      BY <3>4, <3>5, Zenon
  <2>2. ASSUME NEW j \in 1 .. Len(r), r[j].what # "rest", t.frame < c.frame + RtpMod
        PROVE  n.bufTs = Back(t.videoTs, t.frame - c.frame, RtpMod)
    <3>1. n.bufTs = s.videoTs
      <4>1. c.what = "rest" => l > 0
        BY <1>3, <2>2
      <4> QED
        BY <1>2, <1>4, <4>1
    <3>2. CASE t.frame = s.frame
      <4>1. t.videoTs = s.videoTs /\ t.frame - c.frame = 0
        BY <1>1, <3>2 DEF Sends
      <4> QED
        BY <1>1, <3>1, <4>1 DEF Back, Times
    <3>3. CASE t.frame = s.frame + 1
      <4>1. t.videoTs = (s.videoTs + 1) % RtpMod /\ t.frame - c.frame = 1 /\ 1 < RtpMod
        <5>1. s.frame \in Nat /\ c.frame = s.frame
          BY <1>1
        <5>2. t.videoTs = (s.videoTs + 1) % RtpMod
          <6>1. t.frame # s.frame
            BY <3>3, <5>1
          <6> QED
            BY <6>1 DEF Sends
        <5>3. t.frame - c.frame = 1 /\ 1 < RtpMod
          BY <2>2, <3>3, <5>1
        <5> QED
          BY <5>2, <5>3
      <4>2. Back((s.videoTs + 1) % RtpMod, 1, RtpMod) = s.videoTs
        BY <1>1, <4>1, BackOne DEF Times
      <4> QED
        BY <3>1, <4>1, <4>2
    <3> QED
      BY <3>2, <3>3 DEF Sends
  <2>3. c.frame <= t.frame
    BY <1>1 DEF Sends
  <2> QED
    BY <2>1, <2>2, <2>3 DEF Recent, r
<1>6. ASSUME NEW i \in 2 .. l PROVE Adjacent(r, i, n.valid)
  <2>1. Adjacent(q, i, m.valid)
    BY <1>6 DEF BufferOK, q, l
  <2>2. r[i] = q[i] /\ r[i - 1] = q[i - 1] /\ \A j \in 1 .. i - 1 : r[j] = q[j]
    BY <1>3
  <2>3. n.valid => m.valid
    BY <1>2
  <2> QED
    BY <2>1, <2>2, <2>3 DEF Adjacent, Started
<1>7. ASSUME l > 0 PROVE Adjacent(r, l + 1, n.valid)
  <2> DEFINE p == q[l]
  <2>1. /\ p \in Chunk /\ r[l + 1] = c /\ r[l] = p
        /\ \A j \in 1 .. l : r[j] = q[j]
    BY <1>3, <1>7
  <2>2. Recent(p, m, s) /\ m.bufTs = s.videoTs
    BY <1>4, <1>7
  <2>3. p.frame \in Nat /\ p.at \in Nat /\ p.seq \in Nat
    BY <2>1 DEF Chunk
  <2> HIDE DEF p
  <2>4. ASSUME c.frame < p.frame + RtpMod, \E j \in 1 .. l : q[j].what # "rest"
        PROVE  c.frame = p.frame
    <3> DEFINE k == s.frame - p.frame
    <3>1. s.videoTs = Back(s.videoTs, k, RtpMod) /\ p.frame <= s.frame
      BY <2>2, <2>4 DEF Recent, q, l
    <3>2. k \in Nat /\ k < RtpMod
      <4>1. s.frame \in Nat /\ p.frame \in Nat
        BY <1>1, <2>3
      <4> QED
        BY <2>4, <3>1, <4>1
    <3>3. k = 0
      <4> HIDE DEF k
      <4> QED
        BY <1>1, <3>1, <3>2, BackSame DEF Times
    <3>4. s.frame \in Nat /\ p.frame \in Nat
      BY <1>1, <2>3
    <3> QED
      BY <3>3, <3>4
  <2>5. ASSUME c.frame = p.frame, n.valid, Fragment(p), c.what = "rest", Started(q, l)
        PROVE  c.at = p.at + 1
    <3>1. m.valid /\ (m.lastSeq = 0 \/ c.seq = m.lastSeq + 1)
      BY <1>2, <2>5 DEF Fragment
    <3>2. IsLastFragment(q, l) /\ l \in 1 .. l
      BY <1>3, <1>7, <2>5 DEF IsLastFragment, p, l, q
    <3>3. m.lastSeq > 0 /\ p.seq = m.lastSeq
      BY <2>5, <3>1, <3>2 DEF BufferOK, q, l, p
    <3>4. c.seq = p.seq + 1
      BY <1>1, <3>1, <3>3
    <3>5. p.at \in 1 .. s.at /\ p.seq = Back(s.seq, s.at - p.at + 1, SeqMod)
      BY <2>2, <2>5 DEF Recent
    <3>6. s.at < SeqMod
      BY <1>1 DEF Sends
    <3> DEFINE k == s.at - p.at + 1
    <3>7. k \in Nat /\ 1 <= k /\ k <= SeqMod /\ p.seq = Back(s.seq, k, SeqMod)
      <4>1. s.at \in Nat /\ p.at \in Nat
        BY <1>1, <2>3
      <4>2. k \in Nat /\ 1 <= k /\ k <= SeqMod
        BY <3>5, <3>6, <4>1
      <4> QED
        BY <3>5, <4>2
    <3>8. s.seq = p.seq + 1
      BY <3>4
    <3>9. k = 1
      <4> HIDE DEF k
      <4>1. k \in 1 .. SeqMod
        BY <3>7
      <4> QED
        BY <1>1, <3>7, <3>8, <4>1, BackBefore
    <3> QED
      BY <1>1, <2>3, <3>9
  <2>6. Started(q, l) => \E j \in 1 .. l : q[j].what # "rest"
    BY DEF Started
  <2>7. Started(r, l) = Started(q, l)
    BY <2>1 DEF Started
  <2>8. (\E j \in 1 .. l : r[j].what # "rest") => \E j \in 1 .. l : q[j].what # "rest"
    BY <2>1
  <2>9. PICK k \in Nat : k = l + 1
    BY <1>3
  <2>10. k - 1 = l
    BY <1>3, <2>9
  <2>11. r[k] = c /\ r[k - 1] = p
    BY <2>1, <2>9, <2>10
  <2>12. Adjacent(r, k, n.valid)
    BY <2>4, <2>5, <2>6, <2>7, <2>8, <2>10, <2>11 DEF Adjacent
  <2> QED
    BY <2>9, <2>12
<1>8. ASSUME n.valid, Started(r, l + 1)
      PROVE  n.lastSeq > 0 /\ \A i \in 1 .. l + 1 : IsLastFragment(r, i) => r[i].seq = n.lastSeq
  <2>1. m.valid /\ (Fragment(c) => m.lastSeq = 0 \/ c.seq = m.lastSeq + 1)
    BY <1>2, <1>8
  <2>2. Started(q, l) \/ (c.what = "start" /\ c.seq # 0)
    <3>1. PICK j \in 1 .. l + 1 : r[j].what = "start" /\ r[j].seq # 0
      BY <1>8 DEF Started
    <3> QED
      BY <1>3, <3>1 DEF Started
  <2>3. Started(q, l) => /\ m.lastSeq > 0
                         /\ \A i \in 1 .. l : IsLastFragment(q, i) => q[i].seq = m.lastSeq
    BY <2>1 DEF BufferOK, q, l
  <2>4. CASE Fragment(c)
    <3>1. n.lastSeq = c.seq /\ c.seq > 0
      BY <1>1, <1>2, <2>1, <2>2, <2>3, <2>4 DEF Fragment
    <3>2. ASSUME NEW i \in 1 .. l + 1, IsLastFragment(r, i) PROVE i = l + 1
      <4> SUFFICES ASSUME i # l + 1 PROVE FALSE
        OBVIOUS
      <4>1. l + 1 \in i + 1 .. Len(r) /\ Fragment(r[l + 1])
        BY <1>3, <2>4, <3>2
      <4> QED
        BY <3>2, <4>1 DEF IsLastFragment
    <3> QED
      BY <1>3, <3>1, <3>2
  <2>5. CASE ~Fragment(c)
    <3>1. n.lastSeq = m.lastSeq /\ Started(q, l)
      BY <1>2, <2>2, <2>5 DEF Fragment
    <3>2. ASSUME NEW i \in 1 .. l + 1, IsLastFragment(r, i)
          PROVE  i \in 1 .. l /\ IsLastFragment(q, i)
      <4>1. i # l + 1
        BY <1>3, <2>5, <3>2 DEF IsLastFragment
      <4>2. i \in 1 .. l /\ \A j \in i + 1 .. l : j \in i + 1 .. Len(r) /\ r[j] = q[j]
        BY <1>3, <4>1
      <4> QED
        BY <1>3, <3>2, <4>2 DEF IsLastFragment, l, q
    <3> QED
      BY <1>3, <2>3, <3>1, <3>2
  <2> QED
    BY <2>4, <2>5
<1>9. ASSUME NEW i \in 2 .. Len(r) PROVE Adjacent(r, i, n.valid)
  BY <1>3, <1>6, <1>7, <1>9
<1> QED
  <2>1. n.buf[Len(n.buf)] = c /\ n.buf = r
    BY <1>3 DEF r
  <2> QED
    BY <1>3, <1>5, <1>8, <1>9, <2>1 DEF BufferOK, n

\* What the frame is marked for is in it, and so is the number kept.
LEMMA BufferedBlameOK ==
  ASSUME NEW m \in Metas, NEW c \in Chunk, NEW rtp \in Times, BlameOK(m),
         c.at = 1 => c.what # "rest"
  PROVE  BlameOK(Buffered(m, c, rtp))
<1> DEFINE n == Buffered(m, c, rtp)
           q == m.buf
           r == n.buf
           l == Len(m.buf)
<1>1. m.lastSeq \in Nat /\ q \in Seq(Chunk)
  BY DEF Metas
<1>2. /\ r = Append(q, c)
      /\ n.valid = (m.valid /\ (Fragment(c) => m.lastSeq = 0 \/ c.seq = m.lastSeq + 1))
      /\ n.lastSeq = IF c.what = "start" \/ (c.what = "rest" /\ m.lastSeq > 0)
                     THEN c.seq ELSE m.lastSeq
  BY BufferedIs
<1>3. /\ l \in Nat /\ Len(r) = l + 1 /\ r[l + 1] = c
      /\ \A i \in 1 .. l : r[i] = q[i]
  BY <1>1, <1>2, AppendedChunk
<1>4. /\ m.lastSeq # 0 => \E i \in 1 .. l : IsLastFragment(q, i) /\ q[i].seq = m.lastSeq
      /\ ~m.valid => \E i, k \in 1 .. l : Gap(q, i, k)
      /\ \A i \in 1 .. l : q[i].at = 1 => q[i].what # "rest"
  BY DEF BlameOK
<1> HIDE DEF n, q, r
<1>5. ASSUME n.lastSeq # 0
      PROVE  \E i \in 1 .. Len(r) : IsLastFragment(r, i) /\ r[i].seq = n.lastSeq
  <2>1. CASE Fragment(c)
    <3>1. n.lastSeq = c.seq
      BY <1>1, <1>2, <1>5, <2>1 DEF Fragment
    <3>2. l + 1 \in 1 .. Len(r) /\ l + 1 + 1 .. Len(r) = {}
      BY <1>3
    <3>3. IsLastFragment(r, l + 1)
      BY <1>3, <2>1, <3>2 DEF IsLastFragment
    <3> QED
      BY <1>3, <3>1, <3>2, <3>3
  <2>2. CASE ~Fragment(c)
    <3>1. n.lastSeq = m.lastSeq
      BY <1>2, <2>2 DEF Fragment
    <3>2. PICK i \in 1 .. l : IsLastFragment(q, i) /\ q[i].seq = m.lastSeq
      BY <1>4, <1>5, <3>1
    <3>3. i \in 1 .. Len(r) /\ r[i] = q[i]
      BY <1>3
    <3>4. ASSUME NEW j \in i + 1 .. Len(r) PROVE ~Fragment(r[j])
      <4>1. CASE j = l + 1
        BY <1>3, <2>2, <4>1
      <4>2. CASE j # l + 1
        <5>1. j \in i + 1 .. l /\ j \in 1 .. l
          BY <1>3, <3>4, <4>2
        <5> QED
          BY <1>3, <3>2, <5>1 DEF IsLastFragment, q
      <4> QED
        BY <4>1, <4>2
    <3>5. IsLastFragment(r, i)
      BY <3>2, <3>3, <3>4 DEF IsLastFragment
    <3> QED
      BY <3>1, <3>2, <3>3, <3>5
  <2> QED
    BY <2>1, <2>2
<1>6. ASSUME ~n.valid PROVE \E i, k \in 1 .. Len(r) : Gap(r, i, k)
  <2>1. CASE ~m.valid
    <3>1. PICK i, k \in 1 .. l : Gap(q, i, k)
      BY <1>4, <2>1
    <3>2. /\ i \in 1 .. Len(r) /\ k \in 1 .. Len(r) /\ k \in i + 1 .. Len(r)
          /\ r[i] = q[i] /\ r[k] = q[k]
          /\ \A j \in i + 1 .. k - 1 : r[j] = q[j]
      BY <1>3, <3>1 DEF Gap
    <3> QED
      BY <3>1, <3>2 DEF Gap
  <2>2. CASE m.valid
    <3>1. Fragment(c) /\ m.lastSeq # 0 /\ c.seq # m.lastSeq + 1
      BY <1>2, <1>6, <2>2
    <3>2. PICK i \in 1 .. l : IsLastFragment(q, i) /\ q[i].seq = m.lastSeq
      BY <1>4, <3>1
    <3>3. /\ i \in 1 .. Len(r) /\ l + 1 \in 1 .. Len(r) /\ l + 1 \in i + 1 .. Len(r)
          /\ r[i] = q[i] /\ r[l + 1] = c
          /\ \A j \in i + 1 .. l + 1 - 1 : j \in i + 1 .. l /\ r[j] = q[j]
      BY <1>3
    <3>4. Gap(r, i, l + 1)
      BY <3>1, <3>2, <3>3 DEF Gap, IsLastFragment, q
    <3> QED
      BY <3>3, <3>4
  <2> QED
    BY <2>1, <2>2
<1>7. \A i \in 1 .. Len(r) : r[i].at = 1 => r[i].what # "rest"
  BY <1>3, <1>4
<1> QED
  BY <1>5, <1>6, <1>7 DEF BlameOK, n, r

----------------------------------------------------------------------------
(* One packet.                                                             *)

\* What holds of the remuxer while a packet is worked on, and the source s is
\* where the packet leaves it.
Carried(x, s) ==
  /\ x \in Boxes /\ TracksOK(x.m)
  /\ source.sdps <= 1 /\ conf.threshold = 0 => InOrder(x.m)
  /\ BufferOK(x.m, s)
  /\ source.sdps <= 1 => BlameOK(x.m)
  /\ TagsOK(x.m, x.out)

\* An empty buffer has no hole.
LEMMA EmptyBufferOK ==
  ASSUME NEW m, m.buf = << >>, NEW s
  PROVE  /\ BufferOK(m, s)
         /\ m.valid = TRUE /\ m.lastSeq = 0 => BlameOK(m)
<1>1. Len(m.buf) = 0
  BY EmptySeq
<1>2. ~ Started(m.buf, Len(m.buf))
  BY <1>1 DEF Started
<1> QED
  BY <1>1, <1>2 DEF BufferOK, BlameOK

\* What a frame is judged by, and nothing else, decides whether it is broken.
LEMMA SameFrameOK ==
  ASSUME NEW m, NEW n, SameFrame(m, n), NEW s
  PROVE  /\ BufferOK(m, s) => BufferOK(n, s)
         /\ BlameOK(m) => BlameOK(n)
BY Zenon DEF SameFrame, BufferOK, Recent, BlameOK

\* The queues of the audio track take no part in what is said of frames.
LEMMA AudioTagsOK ==
  ASSUME NEW x \in Boxes, NEW y \in Boxes, TagsOK(x.m, x.out),
         y.m.videoQ = x.m.videoQ,
         NEW tag \in Tag, tag.track = "audio",
         y.m.audioQ \in {x.m.audioQ, Append(x.m.audioQ, tag)},
         y.out \in {x.out, Append(x.out, tag)}
  PROVE  TagsOK(y.m, y.out)
<1>1. x.m.audioQ \in Seq(Tag) /\ x.out \in Seq(Tag)
  BY DEF Boxes, Metas
<1>2. /\ Tags(y.m.audioQ) \subseteq Tags(x.m.audioQ) \cup {tag}
      /\ Tags(y.out) \subseteq Tags(x.out) \cup {tag}
  BY <1>1, TagsOfAppend
<1>3. \A e \in Tags(y.m.audioQ) : e.track = "audio"
  BY <1>2 DEF TagsOK
<1>4. conf.check => \A e \in Tags(y.out) : e.track = "video" => NoHole(e)
  <2> SUFFICES ASSUME conf.check, NEW e \in Tags(y.out), e.track = "video"
               PROVE  NoHole(e)
    OBVIOUS
  <2>1. e \in Tags(x.out)
    BY <1>2
  <2> QED
    BY <2>1 DEF TagsOK
<1> QED
  BY <1>3, <1>4 DEF TagsOK

\* A frame goes out of the buffer (_put_video_frame).
LEMMA PutCarries ==
  ASSUME NEW x, NEW s, NEW t, Carried(x, s), x.m.buf # << >>,
         source.sdps \in Nat, conf.check \in BOOLEAN, NEW data \in VideoData(x.m)
  PROVE  Carried(Put(x, data), t) /\ Put(x, data).m.buf = << >>
<1> DEFINE y == Put(x, data)
<1>1. data \in {"picture", "hollow", "void"}
  BY DEF VideoData
<1>2. x \in Boxes /\ TracksOK(x.m) /\ TagsOK(x.m, x.out)
  BY DEF Carried
<1>3. /\ y \in Boxes /\ TracksOK(y.m)
      /\ y.m.buf = << >> /\ y.m.valid = TRUE /\ y.m.lastSeq = 0
      /\ InOrder(x.m) => InOrder(y.m)
  <2>1. PutFrom(x, y, data)
    BY <1>1, <1>2, PutIs
  <2> HIDE DEF y
  <2> QED
    BY <2>1 DEF PutFrom
<1>4. \A i \in 2 .. Len(x.m.buf) : Adjacent(x.m.buf, i, x.m.valid)
  BY DEF Carried, BufferOK
<1>5. source.sdps <= 1 => BlameOK(x.m)
  BY DEF Carried
<1>6. TagsOK(y.m, y.out)
  BY <1>2, <1>4, <1>5, PutTagsOK
<1>7. BufferOK(y.m, t) /\ BlameOK(y.m)
  BY <1>3, EmptyBufferOK
<1>8. source.sdps <= 1 /\ conf.threshold = 0 => InOrder(y.m)
  BY <1>3 DEF Carried
<1> HIDE DEF y
<1>9. Carried(y, t)
  BY <1>3, <1>6, <1>7, <1>8 DEF Carried
<1> QED
  BY <1>3, <1>9 DEF y

\* A chunk comes into the buffer (the H.264 branch of _set_rtp_to_buffer).
LEMMA BufferedCarries ==
  ASSUME NEW x, NEW s, NEW t, NEW layout, Carried(x, s), Sends(s, t, layout),
         NEW c \in Chunk, c.frame = s.frame, c.at = s.at + 1, c.seq = s.seq,
         c.at = 1 => c.what # "rest",
         x.m.buf # << >> => x.m.bufTs = s.videoTs
  PROVE  LET y == [x EXCEPT !.m = Buffered(@, c, s.videoTs)]
         IN  Carried(y, t) /\ y.m.buf # << >>
<1> DEFINE n == Buffered(x.m, c, s.videoTs)
           y == [x EXCEPT !.m = n]
<1>1. x \in Boxes /\ x.m \in Metas /\ s.videoTs \in Times
  BY DEF Carried, Boxes, Sends
<1>2. n \in Metas /\ SameTracks(x.m, n) /\ n.buf = Append(x.m.buf, c)
  BY <1>1, BufferedIs
<1>3. BufferOK(n, t)
  BY <1>1, BufferedOK DEF Carried
<1>4. source.sdps <= 1 => BlameOK(n)
  BY <1>1, BufferedBlameOK DEF Carried
<1> HIDE DEF n
<1>5. y \in Boxes /\ y.m = n /\ y.out = x.out
  BY <1>1, <1>2 DEF Boxes
<1>6. TracksOK(n) /\ (InOrder(x.m) => InOrder(n))
  BY <1>2 DEF SameTracks, TracksOK, InOrder, Carried
<1>7. TagsOK(n, x.out)
  BY <1>2 DEF SameTracks, TagsOK, Carried
<1>8. n.buf # << >>
  <2>1. x.m.buf \in Seq(Chunk)
    BY <1>1 DEF Metas
  <2>2. Len(n.buf) = Len(x.m.buf) + 1 /\ Len(x.m.buf) \in Nat
    BY <1>2, <2>1, AppendedChunk
  <2> QED
    BY <2>2, EmptySeq
<1>9. source.sdps <= 1 /\ conf.threshold = 0 => InOrder(n)
  BY <1>6 DEF Carried
<1> HIDE DEF y
<1>10. Carried(y, t)
  BY <1>3, <1>4, <1>5, <1>6, <1>7, <1>9 DEF Carried
<1> QED
  BY <1>5, <1>8, <1>10 DEF y, n

\* set_rtp is done: what the remuxer is left in.
LEMMA FlushedInvariant ==
  ASSUME NEW x, Carried(x, source'), Becomes(Flushed(x)),
         conf \in Confs, SourceOK', source'.sdps = source.sdps, source.sdps # 0
  PROVE  IInv'
<1> USE Clocks
<1> DEFINE y == Flushed(x)
<1>1. x \in Boxes /\ x.m \in Metas
  BY DEF Carried, Boxes
<1>2. /\ Drained(x, y)
      /\ y.m.audioOnly \/ Resting(y.m)
      /\ TracksOK(y.m)
      /\ TracksOK(x.m) /\ InOrder(x.m) /\ ~(conf.threshold > 0) => InOrder(y.m)
  BY <1>1, FlushedIs DEF Carried
<1> HIDE DEF y
<1>3. y \in Boxes /\ TagsOK(y.m, y.out)
  <2>1. TagsOK(x.m, x.out)
    BY DEF Carried
  <2>2. TagsOK(y.m, y.out)
    BY <1>1, <1>2, <2>1, DrainedTagsOK
  <2> QED
    BY <1>2, <2>2 DEF Drained
<1>4. SameFrame(x.m, y.m)
  <2>1. y.m = [x.m EXCEPT !.audioQ = y.m.audioQ, !.videoQ = y.m.videoQ, !.sync = y.m.sync]
    BY <1>2 DEF Drained
  <2> QED
    BY <1>1, <2>1 DEF SameFrame, Metas
<1>5. BufferOK(y.m, source') /\ (source.sdps <= 1 => BlameOK(y.m))
  BY <1>4, SameFrameOK DEF Carried
<1>6. source.sdps <= 1 /\ conf.threshold = 0 => InOrder(y.m)
  <2>1. conf.threshold = 0 => ~(conf.threshold > 0)
    OBVIOUS
  <2> QED
    BY <1>2, <2>1 DEF Carried
<1>7. /\ meta' = y.m /\ stored' = y.stored /\ out' = y.out /\ refused' = y.refused
      /\ conf' = conf
  BY DEF Becomes, y
<1>8. State' = y
  BY <1>3, <1>7 DEF State, Boxes
<1>9. (meta.audioOnly \/ Resting(meta))'
  BY <1>2, <1>7 DEF Resting, Long
<1>10. TagsOK(meta, out)'
  BY <1>3, <1>7 DEF TagsOK
<1>11. /\ TracksOK(meta)' /\ BufferOK(meta, source)'
       /\ (source.sdps <= 1 => BlameOK(meta))'
       /\ (source.sdps <= 1 /\ conf.threshold = 0 => InOrder(meta))'
  BY <1>2, <1>5, <1>6, <1>7
<1>12. (State \in Boxes)' /\ Unborn' /\ (conf \in Confs)'
  BY <1>3, <1>7, <1>8 DEF Unborn, Boxes
<1> QED
  BY <1>9, <1>10, <1>11, <1>12 DEF IInv

----------------------------------------------------------------------------
(* The actions.                                                            *)

\* Record updates of the source, whatever its fields range over.
LEMMA SourceAdvanced ==
  ASSUME NEW T, NEW L, NEW Q, NEW K,
         NEW s \in [sdps : Nat, kind : K, audioTs : T, videoTs : T, layout : L,
                    at : Nat, frame : Nat, seq : Q, video : Nat, audio : Nat],
         NEW video \in Nat, NEW seq \in Q, NEW rest \in L, NEW at \in Nat,
         NEW frame \in Nat, NEW ts \in T
  PROVE  [s EXCEPT !.video = video, !.seq = seq, !.layout = rest,
                   !.at = at, !.frame = frame, !.videoTs = ts]
         \in [sdps : Nat, kind : K, audioTs : T, videoTs : T, layout : L,
             at : Nat, frame : Nat, seq : Q, video : Nat, audio : Nat]
OBVIOUS

\* The source sends the next packet of a frame.
LEMMA SourceSends ==
  ASSUME SourceOK, NEW layout \in IF source.layout = << >> THEN Layouts ELSE {source.layout},
         source' = Advanced(layout, source.at + 1)
  PROVE  LET c == NextPacket(layout, source.at + 1)
         IN  /\ SourceOK' /\ Sends(source, source', layout)
             /\ source'.sdps = source.sdps
             /\ c \in Chunk /\ c.frame = source.frame /\ c.at = source.at + 1
             /\ c.seq = source.seq
             /\ c.at = 1 => c.what # "rest"
<1> USE Clocks
<1> DEFINE a == source.at
           l == Len(layout)
           end == a + 1 = l
           c == NextPacket(layout, a + 1)
<1>1. /\ source \in [sdps : Nat, kind : {"none", "audio", "av"},
                     audioTs : Times, videoTs : Times,
                     layout : Layouts \cup {<< >>}, at : Nat, frame : Nat,
                     seq : 0 .. SeqMod - 1, video : Nat, audio : Nat]
  BY DEF SourceOK
<1>2. layout \in Layouts /\ layout # << >>
  <2>1. \A e \in Layouts : e # << >>
    <3>1. \A e \in Layouts : e \in Seq(Parts) /\ Len(e) \in 1 .. SeqMod
      BY RemuxAssumption
    <3> QED
      BY <3>1, EmptySeq
  <2> QED
    BY <1>1, <2>1
<1>3. /\ l \in 1 .. SeqMod /\ layout \in Seq(Parts) /\ layout[1] # "rest"
      /\ a \in Nat /\ a + 1 \in 1 .. l
  <2>1. l \in 1 .. SeqMod /\ layout \in Seq(Parts) /\ layout[1] # "rest" /\ a \in Nat
    <3>1. a \in Nat
      BY <1>1
    <3> QED
      BY <1>2, <3>1, RemuxAssumption
  <2>2. CASE source.layout = << >>
    <3>1. a = 0
      BY <2>2 DEF SourceOK
    <3> HIDE DEF l, a
    <3> QED
      BY <2>1, <3>1
  <2>3. CASE source.layout # << >>
    <3>1. layout = source.layout /\ a \in 1 .. l - 1
      BY <2>3 DEF SourceOK
    <3> HIDE DEF l, a
    <3> QED
      BY <2>1, <3>1
  <2> QED
    BY <2>2, <2>3
<1>4. layout[a + 1] \in Parts
  BY <1>3, ElementOfSeq
<1>5. /\ c.what = layout[a + 1] /\ c.seq = source.seq /\ c.frame = source.frame
      /\ c.at = a + 1 /\ c \in Chunk
  BY <1>1, <1>3, <1>4 DEF NextPacket, Chunk
<1>6. c.at = 1 => c.what # "rest"
  <2> HAVE c.at = 1
  <2>1. a + 1 = 1
    BY <1>5
  <2> QED
    BY <1>3, <1>5, <2>1
<1>7. source' = [source EXCEPT
         !.video = @ + 1, !.seq = (@ + 1) % SeqMod,
         !.layout = IF end THEN << >> ELSE layout, !.at = IF end THEN 0 ELSE a + 1,
         !.frame = IF end THEN @ + 1 ELSE @,
         !.videoTs = IF end THEN (@ + 1) % RtpMod ELSE @]
  BY DEF Advanced
<1>8. /\ (source.seq + 1) % SeqMod \in 0 .. SeqMod - 1
      /\ (source.videoTs + 1) % RtpMod \in Times
  <2>1. source.seq \in Int /\ source.videoTs \in Int
    BY <1>1 DEF Times
  <2> QED
    BY <2>1, Tick DEF Times
<1> HIDE DEF a, l, c, end
<1>9. /\ source'.sdps = source.sdps /\ source'.kind = source.kind
      /\ source'.audioTs = source.audioTs /\ source'.audio = source.audio
      /\ source'.video = source.video + 1 /\ source'.seq = (source.seq + 1) % SeqMod
      /\ source'.layout = IF end THEN << >> ELSE layout
      /\ source'.at = IF end THEN 0 ELSE a + 1
      /\ source'.frame = IF end THEN source.frame + 1 ELSE source.frame
      /\ source'.videoTs = IF end THEN (source.videoTs + 1) % RtpMod ELSE source.videoTs
      /\ DOMAIN source' = DOMAIN source
  BY <1>1, <1>7
<1>10. source' \in [sdps : Nat, kind : {"none", "audio", "av"},
                    audioTs : Times, videoTs : Times,
                    layout : Layouts \cup {<< >>}, at : Nat, frame : Nat,
                    seq : 0 .. SeqMod - 1, video : Nat, audio : Nat]
  <2> DEFINE video == source.video + 1
             seq == (source.seq + 1) % SeqMod
             rest == IF end THEN << >> ELSE layout
             at == IF end THEN 0 ELSE a + 1
             frame == IF end THEN source.frame + 1 ELSE source.frame
             ts == IF end THEN (source.videoTs + 1) % RtpMod ELSE source.videoTs
             L == Layouts \cup {<< >>}
             Q == 0 .. SeqMod - 1
             K == {"none", "audio", "av"}
  <2>1. /\ rest \in Layouts \cup {<< >>} /\ at \in Nat /\ frame \in Nat
        /\ ts \in Times /\ video \in Nat /\ seq \in 0 .. SeqMod - 1
    <3>1. /\ source.video + 1 \in Nat /\ source.frame \in Nat /\ source.frame + 1 \in Nat
          /\ a + 1 \in Nat /\ source.videoTs \in Times
      BY <1>1, <1>3
    <3> QED
      BY <1>2, <1>8, <3>1, Zenon
  <2>2. source' = [source EXCEPT !.video = video, !.seq = seq, !.layout = rest,
                                 !.at = at, !.frame = frame, !.videoTs = ts]
    BY <1>1, <1>7
  <2>3. /\ rest \in L /\ seq \in Q
        /\ source \in [sdps : Nat, kind : K, audioTs : Times, videoTs : Times, layout : L,
                       at : Nat, frame : Nat, seq : Q, video : Nat, audio : Nat]
    BY <1>1, <2>1
  <2> HIDE DEF video, seq, rest, at, frame, ts, L, Q, K
  <2>4. source' \in [sdps : Nat, kind : K, audioTs : Times, videoTs : Times, layout : L,
                      at : Nat, frame : Nat, seq : Q, video : Nat, audio : Nat]
    <3>1. [source EXCEPT !.video = video, !.seq = seq, !.layout = rest,
                         !.at = at, !.frame = frame, !.videoTs = ts]
          \in [sdps : Nat, kind : K, audioTs : Times, videoTs : Times, layout : L,
              at : Nat, frame : Nat, seq : Q, video : Nat, audio : Nat]
      BY <2>1, <2>3, SourceAdvanced
    <3> QED
      BY <2>2, <3>1, Zenon
  <2> QED
    BY <2>4 DEF L, Q, K
<1>11. /\ source'.layout = << >> => source'.at = 0
       /\ source'.layout # << >> => source'.at \in 1 .. Len(source'.layout) - 1
  <2>1. CASE end
    BY <1>9, <2>1
  <2>2. CASE ~end
    <3>1. source'.layout = layout /\ source'.at = a + 1 /\ a + 1 # l
      BY <1>9, <2>2 DEF end
    <3>2. a + 1 \in 1 .. l - 1
      BY <1>3, <3>1
    <3> QED
      BY <1>2, <3>1, <3>2 DEF l
  <2> QED
    BY <2>1, <2>2
<1>12. Sends(source, source', layout)
  <2>1. \/ /\ a + 1 = l /\ source'.frame = source.frame + 1
           /\ source'.at = 0 /\ source'.videoTs = (source.videoTs + 1) % RtpMod
        \/ /\ a + 1 # l /\ source'.frame = source.frame
           /\ source'.at = a + 1 /\ source'.videoTs = source.videoTs
    BY <1>9 DEF end
  <2> QED
    BY <1>1, <1>3, <1>9, <2>1 DEF Sends, a, l
<1> QED
  BY <1>5, <1>6, <1>9, <1>10, <1>11, <1>12 DEF SourceOK, c, a

\* The state of a stream nothing came of yet.
LEMMA FreshOK ==
  /\ Fresh \in Metas /\ TracksOK(Fresh) /\ InOrder(Fresh)
  /\ BlameOK(Fresh) /\ \A s : BufferOK(Fresh, s)
  /\ Fresh.audioQ = << >> /\ Fresh.videoQ = << >>
  /\ << >> \in Seq(Tag) /\ Len(<< >>) = 0 /\ Tags(<< >>) = {}
<1> USE Clocks DEF Times
<1>1. /\ << >> \in Seq(Tag) /\ << >> \in Seq(Chunk) /\ Len(<< >>) = 0
  BY EmptySeq
<1>2. /\ Fresh.audio = [first |-> 0, offset |-> 0, last |-> 0, initial |-> -1]
      /\ Fresh.video = [first |-> 0, offset |-> 0, last |-> 0, initial |-> -1]
      /\ Fresh.audioQ = << >> /\ Fresh.videoQ = << >> /\ Fresh.sync = 0
      /\ Fresh.buf = << >> /\ Fresh.valid = TRUE /\ Fresh.lastSeq = 0
  BY DEF Fresh
<1>3. /\ Fresh.audio \in Tracks /\ Fresh.video \in Tracks
      /\ Reached(Fresh.audio) = 0 /\ Reached(Fresh.video) = 0
  BY <1>2 DEF Tracks, Reached
<1>4. TracksOK(Fresh)
  BY <1>2, <1>3 DEF TracksOK, TrackOK
<1>5. Fresh \in Metas
  <2> HIDE DEF Chunk, Tag, Tracks
  <2> QED
    BY <1>1, <1>3 DEF Fresh, Metas
<1>6. InOrder(Fresh)
  BY <1>1, <1>2, <1>3 DEF InOrder, Ordered, Known, Ahead
<1>7. BlameOK(Fresh) /\ \A s : BufferOK(Fresh, s)
  BY <1>2, EmptyBufferOK
<1>8. Tags(<< >>) = {}
  BY DEF Tags
<1> QED
  BY <1>1, <1>2, <1>4, <1>5, <1>6, <1>7, <1>8

\* The invariant holds at first.
LEMMA InvariantInit == Init => IInv
<1> SUFFICES ASSUME Init PROVE IInv
  OBVIOUS
<1> USE Clocks
<1>1. conf \in Confs /\ meta = Fresh /\ stored = FALSE /\ out = << >> /\ refused = FALSE
  BY DEF Init
<1>2. source = [sdps |-> 0, kind |-> "none", audioTs |-> 0, videoTs |-> 0,
                layout |-> << >>, at |-> 0, frame |-> 0, seq |-> 1,
                video |-> 0, audio |-> 0]
  BY DEF Init
<1>3. 0 \in Times
  BY DEF Times
<1>4. SourceOK
  BY <1>2, <1>3 DEF SourceOK
<1>5. Unborn
  BY <1>1, <1>2 DEF Unborn
<1>6. Resting(meta) /\ TagsOK(meta, out)
  BY <1>1, FreshOK DEF Resting, Long, TagsOK
<1>7. State \in Boxes
  BY <1>1, FreshOK DEF State, Boxes
<1> QED
  BY <1>1, <1>4, <1>5, <1>6, <1>7, FreshOK DEF IInv

\* Between two packets.
LEMMA InvariantCarries ==
  ASSUME IInv
  PROVE  /\ Carried(State, source) /\ State.m = meta /\ State.out = out
         /\ conf.check \in BOOLEAN /\ conf.threshold \in Nat
         /\ source.sdps \in Nat /\ source.videoTs \in Times /\ source.audioTs \in Times
         /\ source.kind # "none" => source.sdps # 0
         /\ meta \in Metas /\ stored \in BOOLEAN /\ refused \in BOOLEAN /\ out \in Seq(Tag)
<1>1. State \in Boxes /\ State.m = meta /\ State.out = out
  BY DEF IInv, State
<1>2. Carried(State, source)
  BY <1>1 DEF IInv, Carried
<1>3. conf.check \in BOOLEAN /\ conf.threshold \in Nat
  BY RemuxAssumption DEF IInv
<1>4. /\ source.sdps \in Nat /\ source.videoTs \in Times /\ source.audioTs \in Times
      /\ source.kind # "none" => source.sdps # 0
  BY DEF IInv, SourceOK, Unborn
<1>5. /\ meta \in Metas /\ stored \in BOOLEAN /\ refused \in BOOLEAN /\ out \in Seq(Tag)
  BY <1>1 DEF State, Boxes
<1> QED
  BY <1>1, <1>2, <1>3, <1>4, <1>5

\* set_sdp_char.
LEMMA SetSdpInvariant == IInv /\ SetSdp => IInv'
<1> SUFFICES ASSUME IInv, SetSdp PROVE IInv'
  OBVIOUS
<1> USE Clocks
<1>1. PICK kind \in Sdps, a \in Bases, v \in Bases :
        /\ source' = [source EXCEPT !.sdps = @ + 1, !.kind = kind, !.layout = << >>,
                                    !.at = 0, !.frame = @ + 1,
                                    !.audioTs = a, !.videoTs = v]
        /\ meta' = [meta EXCEPT
             !.audioOnly = @ \/ kind = "audio",
             !.audio.first = 0, !.video.first = 0,
             !.audio.offset = meta.sync, !.video.offset = meta.sync,
             !.buf = << >>, !.audioQ = << >>, !.videoQ = << >>]
  BY DEF SetSdp
<1>2. UNCHANGED <<conf, stored, out, refused>>
  BY DEF SetSdp
<1>3. /\ Carried(State, source) /\ meta \in Metas /\ State.m = meta /\ State.out = out
      /\ stored \in BOOLEAN /\ refused \in BOOLEAN /\ out \in Seq(Tag)
      /\ source.sdps \in Nat
  BY InvariantCarries
<1>4. SourceOK'
  <2>1. /\ source \in [sdps : Nat, kind : {"none", "audio", "av"},
                       audioTs : Times, videoTs : Times,
                       layout : Layouts \cup {<< >>}, at : Nat, frame : Nat,
                       seq : 0 .. SeqMod - 1, video : Nat, audio : Nat]
    BY DEF IInv, SourceOK
  <2>2. kind \in {"none", "audio", "av"} /\ a \in Times /\ v \in Times
    BY RemuxAssumption DEF Times
  <2>3. source'.layout = << >> /\ source'.at = 0 /\ source'.sdps = source.sdps + 1
    BY <1>1, <2>1
  <2> DEFINE L == Layouts \cup {<< >>}
             Q == 0 .. SeqMod - 1
             K == {"none", "audio", "av"}
             sdps == source.sdps + 1
             frame == source.frame + 1
  <2>4. /\ << >> \in L /\ kind \in K /\ sdps \in Nat /\ frame \in Nat /\ 0 \in Nat
        /\ source \in [sdps : Nat, kind : K, audioTs : Times, videoTs : Times, layout : L,
                       at : Nat, frame : Nat, seq : Q, video : Nat, audio : Nat]
        /\ source' = [source EXCEPT !.sdps = sdps, !.kind = kind, !.layout = << >>,
                                    !.at = 0, !.frame = frame, !.audioTs = a, !.videoTs = v]
    BY <1>1, <2>1, <2>2
  <2> HIDE DEF L, Q, K, sdps, frame
  <2>5. source' \in [sdps : Nat, kind : K, audioTs : Times, videoTs : Times, layout : L,
                      at : Nat, frame : Nat, seq : Q, video : Nat, audio : Nat]
    BY <2>2, <2>4
  <2> QED
    BY <2>3, <2>5 DEF SourceOK, L, Q, K
<1>5. source'.sdps = source.sdps + 1
  BY <1>1 DEF IInv, SourceOK
<1> DEFINE only == meta.audioOnly \/ kind = "audio"
           audio == [meta.audio EXCEPT !.first = 0, !.offset = meta.sync]
           video == [meta.video EXCEPT !.first = 0, !.offset = meta.sync]
<1>6. /\ TrackOK(meta.audio) /\ TrackOK(meta.video) /\ meta.sync \in Nat
      /\ only \in BOOLEAN
  BY <1>3 DEF IInv, TracksOK, Metas
<1>7. /\ audio \in Tracks /\ audio.first = 0 /\ audio.offset = meta.sync
      /\ audio.last = meta.audio.last /\ audio.initial = meta.audio.initial
      /\ video \in Tracks /\ video.first = 0 /\ video.offset = meta.sync
      /\ video.last = meta.video.last /\ video.initial = meta.video.initial
  <2>1. ASSUME NEW t \in Tracks
        PROVE  LET u == [t EXCEPT !.first = 0, !.offset = meta.sync]
               IN  /\ u \in Tracks /\ u.first = 0 /\ u.offset = meta.sync
                   /\ u.last = t.last /\ u.initial = t.initial
    <3> DEFINE I == -1 .. RtpMod - 1
               sync == meta.sync
    <3>1. /\ t \in [first : Int, offset : Nat, last : Times, initial : I]
          /\ sync \in Nat /\ 0 \in Int
      BY <1>6 DEF Tracks
    <3> HIDE DEF I, sync
    <3>2. LET u == [t EXCEPT !.first = 0, !.offset = sync]
          IN  /\ u \in [first : Int, offset : Nat, last : Times, initial : I]
              /\ u.first = 0 /\ u.offset = sync
              /\ u.last = t.last /\ u.initial = t.initial
      BY <3>1
    <3> QED
      BY <3>2 DEF Tracks, I, sync
  <2> QED
    BY <1>6, <2>1 DEF TrackOK
<1>8. meta' = [meta EXCEPT !.audioOnly = only, !.audio = audio, !.video = video,
                           !.buf = << >>, !.audioQ = << >>, !.videoQ = << >>]
  <2>1. [meta EXCEPT !.audioOnly = @ \/ kind = "audio",
                     !.audio.first = 0, !.video.first = 0,
                     !.audio.offset = meta.sync, !.video.offset = meta.sync,
                     !.buf = << >>, !.audioQ = << >>, !.videoQ = << >>]
        = [meta EXCEPT !.audioOnly = only, !.audio = audio, !.video = video,
                       !.buf = << >>, !.audioQ = << >>, !.videoQ = << >>]
    <3>1. meta \in Metas
      BY <1>3
    <3> DEFINE m == meta
    <3>2. m \in Metas
      BY <3>1
    <3> HIDE DEF m
    <3>3. [m EXCEPT !.audioOnly = @ \/ kind = "audio",
                     !.audio.first = 0, !.video.first = 0,
                     !.audio.offset = m.sync, !.video.offset = m.sync,
                     !.buf = << >>, !.audioQ = << >>, !.videoQ = << >>]
           = [m EXCEPT !.audioOnly = m.audioOnly \/ kind = "audio",
                     !.audio = [m.audio EXCEPT !.first = 0, !.offset = m.sync],
                     !.video = [m.video EXCEPT !.first = 0, !.offset = m.sync],
                     !.buf = << >>, !.audioQ = << >>, !.videoQ = << >>]
      BY <3>2 DEF Metas
    <3> QED
      BY <3>3 DEF m
  <2> QED
    BY <1>1, <2>1, Zenon
<1> HIDE DEF only, audio, video
<1>9. << >> \in Seq(Tag) /\ << >> \in Seq(Chunk) /\ Len(<< >>) = 0
  BY EmptySeq
<1>10. /\ meta' \in Metas
       /\ meta'.audioOnly = only /\ meta'.audio = audio /\ meta'.video = video
       /\ meta'.buf = << >> /\ meta'.audioQ = << >> /\ meta'.videoQ = << >>
       /\ meta'.sync = meta.sync /\ meta'.valid = meta.valid /\ meta'.lastSeq = meta.lastSeq
  <2> HIDE DEF Chunk, Tag, Tracks
  <2> QED
    BY <1>3, <1>6, <1>7, <1>8, <1>9 DEF Metas
<1>11. TracksOK(meta')
  BY <1>6, <1>7, <1>10 DEF TracksOK, TrackOK, Reached
<1>12. ASSUME source'.sdps <= 1
       PROVE  InOrder(meta') /\ BlameOK(meta')
  <2>1. meta = Fresh
    BY <1>3, <1>5, <1>12 DEF IInv, Unborn
  <2>2. meta'.valid = TRUE /\ meta'.lastSeq = 0
    BY <1>10, <2>1 DEF Fresh
  <2>3. Known(audio) /\ Known(video)
    BY <1>7, <2>1 DEF Known, Fresh
  <2>4. InOrder(meta')
    BY <1>6, <1>7, <1>9, <1>10, <2>3 DEF InOrder, Ordered, Ahead, Reached
  <2> QED
    BY <1>10, <2>2, <2>4, EmptyBufferOK
<1>13. BufferOK(meta', source')
  BY <1>10, EmptyBufferOK
<1>14. TagsOK(meta, out)'
  <2>1. Tags(<< >>) = {}
    BY DEF Tags
  <2> QED
    BY <1>2, <1>10, <2>1 DEF TagsOK, IInv
<1>15. Resting(meta)'
  BY <1>9, <1>10 DEF Resting, Long
<1>16. (State \in Boxes)'
  BY <1>2, <1>3, <1>10 DEF State, Boxes
<1>17. Unborn' /\ (conf \in Confs)'
  BY <1>2, <1>3, <1>5 DEF Unborn, IInv
<1> QED
  BY <1>4, <1>11, <1>12, <1>13, <1>14, <1>15, <1>16, <1>17 DEF IInv

\* The state of a quiet stream is destroyed.
LEMMA ExpireInvariant == IInv /\ Expire => IInv'
<1> SUFFICES ASSUME IInv, Expire PROVE IInv'
  OBVIOUS
<1>1. /\ meta' = Fresh /\ stored' = FALSE /\ out' = << >>
      /\ conf' = conf /\ refused' = refused
      /\ source' = [source EXCEPT !.kind = "none"]
  BY DEF Expire
<1>2. refused \in BOOLEAN
  BY InvariantCarries
<1>3. (Resting(meta) /\ TagsOK(meta, out))'
  BY <1>1, FreshOK DEF Resting, Long, TagsOK
<1>4. (State \in Boxes)'
  BY <1>1, <1>2, FreshOK DEF State, Boxes
<1>5. SourceOK' /\ Unborn' /\ (conf \in Confs)'
  <2>1. /\ source'.sdps = source.sdps /\ source'.kind = "none"
        /\ source'.layout = source.layout /\ source'.at = source.at
    BY <1>1 DEF IInv, SourceOK
  <2>2. SourceOK'
    BY <1>1, <2>1 DEF IInv, SourceOK
  <2> QED
    BY <1>1, <2>1, <2>2 DEF IInv, Unborn
<1>6. (TracksOK(meta) /\ InOrder(meta) /\ BlameOK(meta) /\ BufferOK(meta, source))'
  BY <1>1, FreshOK
<1> QED
  BY <1>3, <1>4, <1>5, <1>6 DEF IInv

\* An audio packet.
LEMMA AudioInvariant == IInv /\ Audio => IInv'
<1> SUFFICES ASSUME IInv, Audio PROVE IInv'
  OBVIOUS
<1> USE Clocks
<1> DEFINE x == IF meta.adts THEN State ELSE HeaderWritten([State EXCEPT !.m.adts = TRUE])
           y == AudioTag(x, source.audioTs)
<1>1. /\ source.kind # "none" /\ Becomes(Flushed(y))
      /\ source' = [source EXCEPT !.audio = @ + 1, !.audioTs = (@ + 1) % RtpMod]
  BY DEF Audio
<1>2. /\ Carried(State, source) /\ State.m = meta /\ State.out = out
      /\ source.sdps \in Nat /\ source.audioTs \in Times /\ source.sdps # 0 /\ meta \in Metas
      /\ State \in Boxes
  BY <1>1, InvariantCarries DEF Carried
<1>3. /\ x \in Boxes /\ x.out = out /\ SameFrame(meta, x.m) /\ SameTracks(meta, x.m)
  <2> DEFINE m == [meta EXCEPT !.adts = TRUE]
             z == [State EXCEPT !.m = m]
  <2>1. m \in Metas /\ SameFrame(meta, m) /\ SameTracks(meta, m)
    BY <1>2 DEF Metas, SameFrame, SameTracks
  <2>2. z \in Boxes /\ z.m = m /\ z.out = out
    BY <1>2, <2>1 DEF Boxes
  <2>3. z = [State EXCEPT !.m.adts = TRUE]
    BY <1>2
  <2> HIDE DEF m, z
  <2>4. /\ HeaderWritten(z) \in Boxes /\ HeaderWritten(z).m = m
        /\ HeaderWritten(z).out = out
    BY <2>2, HeaderWrittenIs
  <2>5. SameFrame(meta, meta) /\ SameTracks(meta, meta)
    BY DEF SameFrame, SameTracks
  <2>6. x = State \/ x = HeaderWritten(z)
    BY <2>3
  <2> HIDE DEF x
  <2> QED
    BY <1>2, <2>1, <2>4, <2>5, <2>6
<1> HIDE DEF x
<1>4. Carried(x, source)
  <2>1. TracksOK(x.m) /\ (InOrder(meta) => InOrder(x.m)) /\ TagsOK(x.m, x.out)
    BY <1>2, <1>3 DEF Carried, SameTracks, TracksOK, InOrder, TagsOK
  <2>2. BufferOK(x.m, source) /\ (BlameOK(meta) => BlameOK(x.m))
    BY <1>2, <1>3, SameFrameOK DEF Carried
  <2> QED
    BY <1>2, <1>3, <2>1, <2>2 DEF Carried
<1>5. /\ source' \in [sdps : Nat, kind : {"none", "audio", "av"},
                      audioTs : Times, videoTs : Times,
                      layout : Layouts \cup {<< >>}, at : Nat, frame : Nat,
                      seq : 0 .. SeqMod - 1, video : Nat, audio : Nat]
      /\ source'.sdps = source.sdps /\ source'.layout = source.layout
      /\ source'.at = source.at /\ source'.frame = source.frame
      /\ source'.seq = source.seq /\ source'.videoTs = source.videoTs
  <2> DEFINE L == Layouts \cup {<< >>}
             Q == 0 .. SeqMod - 1
             K == {"none", "audio", "av"}
             audio == source.audio + 1
             ts == (source.audioTs + 1) % RtpMod
  <2>1. /\ source \in [sdps : Nat, kind : K, audioTs : Times, videoTs : Times, layout : L,
                       at : Nat, frame : Nat, seq : Q, video : Nat, audio : Nat]
        /\ source' = [source EXCEPT !.audio = audio, !.audioTs = ts]
        /\ audio \in Nat /\ ts \in Times
    BY <1>1 DEF IInv, SourceOK, Times
  <2> HIDE DEF L, Q, K, audio, ts
  <2>2. /\ source' \in [sdps : Nat, kind : K, audioTs : Times, videoTs : Times, layout : L,
                        at : Nat, frame : Nat, seq : Q, video : Nat, audio : Nat]
        /\ source'.sdps = source.sdps /\ source'.layout = source.layout
        /\ source'.at = source.at /\ source'.frame = source.frame
        /\ source'.seq = source.seq /\ source'.videoTs = source.videoTs
    BY <2>1
  <2> QED
    BY <2>2 DEF L, Q, K
<1>6. SourceOK'
  BY <1>5 DEF IInv, SourceOK
<1>7. /\ y \in Boxes /\ TracksOK(y.m) /\ SameFrame(x.m, y.m)
      /\ y.m.videoQ = x.m.videoQ
      /\ \E tag \in Tag :
           /\ tag.track = "audio"
           /\ y.m.audioQ \in {x.m.audioQ, Append(x.m.audioQ, tag)}
           /\ y.out \in {x.out, Append(x.out, tag)}
      /\ InOrder(x.m) => InOrder(y.m)
  BY <1>2, <1>4, AudioTagIs DEF Carried
<1> HIDE DEF y
<1>8. TagsOK(y.m, y.out)
  <2>1. TagsOK(x.m, x.out)
    BY <1>4 DEF Carried
  <2> QED
    BY <1>3, <1>7, <2>1, AudioTagsOK
<1>9. BufferOK(y.m, source') /\ (source.sdps <= 1 => BlameOK(y.m))
  <2>1. BufferOK(y.m, source) /\ (source.sdps <= 1 => BlameOK(y.m))
    BY <1>4, <1>7, SameFrameOK DEF Carried
  <2> QED
    BY <1>5, <2>1, Zenon DEF BufferOK, Recent
<1>10. Carried(y, source')
  BY <1>4, <1>7, <1>8, <1>9 DEF Carried
<1> QED
  BY <1>1, <1>2, <1>5, <1>6, <1>10, FlushedInvariant DEF IInv, y

\* A video packet that came.
LEMMA ReceivedInvariant ==
  ASSUME IInv, source.kind = "av",
         NEW layout \in IF source.layout = << >> THEN Layouts ELSE {source.layout},
         source' = Advanced(layout, source.at + 1),
         NEW c, c = NextPacket(layout, source.at + 1),
         NEW x, NEW y, NEW z, NEW d1, NEW d2,
         IF Unfinished(meta, source.videoTs)
         THEN d1 \in VideoData(meta) /\ x = Put(State, d1) ELSE x = State,
         y = [x EXCEPT !.m = Buffered(@, c, source.videoTs)],
         d2 \in VideoData(y.m),
         z = IF c.last THEN Put(y, d2) ELSE y,
         Becomes(Flushed(z))
  PROVE  IInv'
<1>1. /\ Carried(State, source) /\ State.m = meta /\ conf.check \in BOOLEAN
      /\ source.sdps \in Nat /\ source.sdps # 0
  BY InvariantCarries
<1>2. /\ SourceOK' /\ Sends(source, source', layout) /\ source'.sdps = source.sdps
      /\ c \in Chunk /\ c.frame = source.frame /\ c.at = source.at + 1
      /\ c.seq = source.seq
      /\ c.at = 1 => c.what # "rest"
  BY SourceSends DEF IInv
<1>3. Carried(x, source) /\ (x.m.buf # << >> => x.m.bufTs = source.videoTs)
  <2>1. CASE Unfinished(meta, source.videoTs)
    BY <1>1, <2>1, PutCarries DEF Unfinished
  <2>2. CASE ~Unfinished(meta, source.videoTs)
    BY <1>1, <2>2 DEF Unfinished
  <2> QED
    BY <2>1, <2>2
<1>4. Carried(y, source') /\ y.m.buf # << >>
  BY <1>2, <1>3, BufferedCarries
<1>5. Carried(z, source')
  BY <1>1, <1>4, PutCarries
<1> QED
  BY <1>1, <1>2, <1>5, FlushedInvariant DEF IInv

\* A video packet, which may be lost.
LEMMA VideoInvariant == IInv /\ Video => IInv'
<1> SUFFICES ASSUME IInv, Video PROVE IInv'
  OBVIOUS
<1>1. PICK layout \in IF source.layout = << >> THEN Layouts ELSE {source.layout},
           lost \in BOOLEAN :
        LET c == NextPacket(layout, source.at + 1)
            rtp == source.videoTs
        IN  /\ source' = Advanced(layout, source.at + 1)
            /\ IF lost THEN UNCHANGED <<conf, meta, stored, out, refused>>
               ELSE \E d1 \in IF Unfinished(meta, rtp) THEN VideoData(meta) ELSE {"void"} :
                      LET x == IF Unfinished(meta, rtp) THEN Put(State, d1) ELSE State
                          y == [x EXCEPT !.m = Buffered(@, c, rtp)]
                      IN  \E d2 \in VideoData(y.m) :
                            Becomes(Flushed(IF c.last THEN Put(y, d2) ELSE y))
  BY DEF Video
<1>2. source.kind = "av"
  BY DEF Video
<1>3. CASE lost
  <2>1. UNCHANGED <<conf, meta, stored, out, refused>>
    BY <1>1, <1>3
  <2>2. SourceOK' /\ Sends(source, source', layout) /\ source'.sdps = source.sdps
    BY <1>1, SourceSends DEF IInv
  <2>3. meta \in Metas /\ BufferOK(meta, source) /\ source.sdps # 0
    BY <1>2, InvariantCarries DEF IInv
  <2>4. BufferOK(meta, source')
    BY <2>2, <2>3, BufferStep
  <2>5. /\ (Resting(meta) = Resting(meta)') /\ (TagsOK(meta, out) = TagsOK(meta, out)')
        /\ State' = State
    BY <2>1, <2>2 DEF Resting, Long, TagsOK, State
  <2> QED
    BY <2>1, <2>2, <2>3, <2>4, <2>5 DEF IInv, Unborn
<1>4. CASE ~lost
  <2> DEFINE c == NextPacket(layout, source.at + 1)
             rtp == source.videoTs
             x(d) == IF Unfinished(meta, rtp) THEN Put(State, d) ELSE State
             y(d) == [x(d) EXCEPT !.m = Buffered(@, c, rtp)]
             z(d, e) == IF c.last THEN Put(y(d), e) ELSE y(d)
  <2>1. PICK d1 \in IF Unfinished(meta, rtp) THEN VideoData(meta) ELSE {"void"} :
          \E d2 \in VideoData(y(d1).m) : Becomes(Flushed(z(d1, d2)))
    BY <1>1, <1>4
  <2>2. PICK d2 \in VideoData(y(d1).m) : Becomes(Flushed(z(d1, d2)))
    BY <2>1
  <2>3. /\ source' = Advanced(layout, source.at + 1)
        /\ IF Unfinished(meta, rtp) THEN d1 \in VideoData(meta) /\ x(d1) = Put(State, d1)
           ELSE x(d1) = State
        /\ y(d1) = [x(d1) EXCEPT !.m = Buffered(@, c, rtp)]
        /\ z(d1, d2) = IF c.last THEN Put(y(d1), d2) ELSE y(d1)
        /\ c = NextPacket(layout, source.at + 1)
    BY <1>1
  <2> HIDE DEF x, y, z, c
  <2> QED
    BY <1>2, <2>2, <2>3, ReceivedInvariant
<1> QED
  BY <1>3, <1>4

\* Nothing happens.
LEMMA StutterInvariant == IInv /\ UNCHANGED vars => IInv'
<1> SUFFICES ASSUME IInv, UNCHANGED vars PROVE IInv'
  OBVIOUS
<1>1. /\ conf' = conf /\ meta' = meta /\ stored' = stored /\ out' = out
      /\ refused' = refused /\ source' = source
  BY DEF vars
<1>2. /\ SourceOK' /\ Unborn' /\ State' = State
      /\ Resting(meta)' = Resting(meta) /\ TagsOK(meta, out)' = TagsOK(meta, out)
  BY <1>1 DEF IInv, SourceOK, Unborn, State, Resting, Long, TagsOK
<1> QED
  BY <1>1, <1>2 DEF IInv

\* The inductive invariant.
THEOREM InvariantHolds == Spec => []IInv
<1>1. IInv /\ [Next]_vars => IInv'
  BY SetSdpInvariant, AudioInvariant, VideoInvariant, ExpireInvariant, StutterInvariant
     DEF Next
<1> QED
  BY InvariantInit, <1>1, PTL DEF Spec

----------------------------------------------------------------------------
(* What follows.                                                           *)

\* No tag has a time before 0, whatever RTP times a source starts with,
\* wherever they wrap and however often a description comes (the time
\* arithmetic of _put_video_frame and of the AAC branch).
THEOREM TypeCorrect == Spec => []TypeOK
<1>1. IInv => TypeOK
  <2> SUFFICES ASSUME IInv PROVE TypeOK
    OBVIOUS
  <2> USE Clocks
  <2>1. Tracks \subseteq Track /\ Times \subseteq Nat
    BY DEF Tracks, Track, Times
  <2>2. /\ meta \in Metas /\ stored \in BOOLEAN /\ refused \in BOOLEAN /\ out \in Seq(Tag)
    BY InvariantCarries
  <2> QED
    BY <2>1, <2>2 DEF IInv, Metas, TypeOK
<1> QED
  BY <1>1, InvariantHolds, PTL

\* The merge of _set_flv_to_mm throws no tag of the first source away: what
\* waits in a queue is not older than what the cache got.
THEOREM NothingIsOvertaken == Spec => []QueuedAreAhead
<1>1. IInv => QueuedAreAhead
  <2> SUFFICES ASSUME IInv, conf.threshold = 0, source.sdps <= 1,
                      NEW tag \in Tags(meta.audioQ) \cup Tags(meta.videoQ)
               PROVE  tag.ts >= meta.sync
    BY DEF QueuedAreAhead
  <2>1. /\ Ahead(meta.audioQ, meta.sync, Reached(meta.audio))
        /\ Ahead(meta.videoQ, meta.sync, Reached(meta.video))
    BY DEF IInv, InOrder, Ordered
  <2>2. meta.audioQ \in Seq(Tag) /\ meta.videoQ \in Seq(Tag) /\ meta.sync \in Nat
    BY InvariantCarries DEF Metas
  <2>3. ASSUME NEW q \in {meta.audioQ, meta.videoQ}, tag \in Tags(q)
        PROVE  tag.ts >= meta.sync
    <3>1. PICK i \in 1 .. Len(q) : tag = q[i]
      BY <2>2, <2>3 DEF Tags
    <3>2. meta.sync <= q[i].ts /\ q[i].ts \in Nat
      BY <2>1, <2>2, TagOfQueue DEF Ahead
    <3> QED
      BY <2>2, <3>1, <3>2
  <2> QED
    BY <2>3
<1> QED
  BY <1>1, InvariantHolds, PTL

\* After every packet _set_flv_to_mm has left one queue empty, and in the other
\* no more than muxer_queue_threshold of time.
THEOREM LimitIsKept == Spec => []QueuesAreBounded
<1>1. IInv => QueuesAreBounded
  <2> SUFFICES ASSUME IInv, ~meta.audioOnly, conf.threshold > 0,
                      NEW q \in {meta.audioQ, meta.videoQ}, Len(q) > 1
               PROVE  q[Len(q)].ts - q[1].ts <= conf.threshold
    BY DEF QueuesAreBounded, IInv, Resting
  <2>1. ~Long(q)
    BY DEF IInv, Resting
  <2>2. q[Len(q)].ts - q[1].ts \in 0 .. conf.threshold
    BY <2>1 DEF Long
  <2> DEFINE span == q[Len(q)].ts - q[1].ts
  <2>3. conf.threshold \in Nat /\ span \in 0 .. conf.threshold
    BY <2>2, InvariantCarries
  <2> HIDE DEF span
  <2>4. span <= conf.threshold
    BY <2>3
  <2> QED
    BY <2>4 DEF span
<1> QED
  BY <1>1, InvariantHolds, PTL

\* With enable_check_broken_frame no frame with a hole in it is handed to the
\* cache: what _set_rtp_to_buffer notes of the numbers of fragments is enough,
\* whatever is lost and however a NAL unit is cut.
THEOREM NoFrameHasAHole == Spec => []FrameHasNoHole
<1>1. IInv => FrameHasNoHole
  BY DEF IInv, TagsOK, FrameHasNoHole
<1> QED
  BY <1>1, InvariantHolds, PTL

\* A frame of the first source that came whole is not marked as broken:
\* is_cur_frame_valied and _last_video_seq tell of the frame in the buffer only.
THEOREM WholeFramesStay == Spec => []WholeFramesAreKept
<1>1. IInv => WholeFramesAreKept
  <2>1. IInv => source.sdps \in Nat
    BY InvariantCarries
  <2>2. source.sdps = 1 => source.sdps <= 1
    OBVIOUS
  <2> QED
    BY <2>1, <2>2 DEF IInv, TagsOK, WholeFramesAreKept
<1> QED
  BY <1>1, InvariantHolds, PTL
=============================================================================
