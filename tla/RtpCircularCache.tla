-------------------------- MODULE RtpCircularCache --------------------------
(***************************************************************************)
(* media_manager/rtp_block_cache.cpp, class RTPCircularCache: the window   *)
(* of recent RTP packets of one track, from which lost packets are resent. *)
(*                                                                         *)
(* The deque holds one block per sequence number from the front's to the   *)
(* back's; the block of a packet that has not arrived is empty.  Every     *)
(* read of the deque computes an index from the front's sequence number,   *)
(* so the window must stay contiguous and both ends must hold a packet.    *)
(***************************************************************************)
EXTENDS SeqNum, Sequences, FiniteSets

CONSTANTS
  MaxSize,      \* _max_size: 3000 for video, 1000 for audio
  TsMod,        \* 2^32, the range of an RTP timestamp
  TsJump,       \* 20 * _sample_rate: a larger step restarts the window
  Timestamps,   \* timestamps packets carry, a subset of 0 .. TsMod - 1
  Ssrcs,        \* sources that may send the track; 0 stands for "none yet"
  Payloads,     \* packet contents
  NoBlock       \* RTPBlock(NULL, 0): the block of a packet not received

ASSUME MaxSizeAssumption == MaxSize \in Nat \ {0} /\ 2 * MaxSize <= SeqMod

Packet == [seq : Seqs, ts : Timestamps, ssrc : Ssrcs, payload : Payloads]

ASSUME DataAssumption ==
  /\ TsMod \in Nat /\ TsJump \in Nat \ {0} /\ Timestamps \subseteq 0 .. TsMod - 1
  /\ 0 \notin Ssrcs /\ Ssrcs \subseteq Nat
  /\ NoBlock \notin Packet

VARIABLES
  inited,       \* _sample_rate > 0: the stream's SDP lists this track
  ssrc,         \* _ssrc
  cache         \* _circular_cache

vars == <<inited, ssrc, cache>>

IsValid(block) == block # NoBlock

Front == cache[1]
Back  == cache[Len(cache)]

----------------------------------------------------------------------------
\* abs(int(latest - ts)) >= 20 * _sample_rate.  The difference is taken
\* modulo 2^32 and read as signed; at exactly 2^31 abs() leaves INT_MIN,
\* which is negative and never reported as a jump.
TimestampJump(a, b) ==
  LET d == IF a >= b THEN a - b ELSE a - b + TsMod
  IN  \/ 2 * d < TsMod /\ d >= TsJump
      \/ 2 * d > TsMod /\ TsMod - d >= TsJump

\* Faulty forms, for the mutants: the window trimmed one packet early, the
\* empty blocks left at the front, and the bound the comment of line 200 has.
AdjustFromEarly(c) ==
  CHOOSE k \in 1 .. Len(c) :
    /\ Len(c) - k < MaxSize - 1 /\ IsValid(c[k])
    /\ \A j \in 1 .. k - 1 : ~(Len(c) - j < MaxSize - 1 /\ IsValid(c[j]))

AdjustLengthOnly(c) ==
  SubSeq(c, IF Len(c) > MaxSize THEN Len(c) - MaxSize + 1 ELSE 1, Len(c))

IsFarByComment(p) ==
  LET expect_next_max == SeqPlus(Back.seq, MaxSize + 1)
  IN  SeqDiff(p.seq, expect_next_max) < SeqDiff(Front.seq, expect_next_max)

\* _adjust: drop the front while the window is too long, then while the
\* front is empty.  AdjustFrom is the index of the block that becomes front.
AdjustFrom(c) ==
  CHOOSE k \in 1 .. Len(c) :
    /\ Len(c) - k < MaxSize /\ IsValid(c[k])
    /\ \A j \in 1 .. k - 1 : ~(Len(c) - j < MaxSize /\ IsValid(c[j]))

Adjust(c) == SubSeq(c, AdjustFrom(c), Len(c))

\* The window after p is appended behind the empty blocks of the packets
\* between the back and p.
Extended(p) ==
  LET n == Len(cache) + SeqDiff(p.seq, Back.seq)
  IN  [i \in 1 .. n |-> IF i <= Len(cache) THEN cache[i]
                        ELSE IF i = n THEN p ELSE NoBlock]

\* The three cases of set_rtp once the window is not empty.
IsLarge(p) == p.seq # Back.seq /\ SeqDiff(p.seq, Back.seq) < MaxSize

IsFar(p) ==
  LET expect_next_max == SeqPlus(Back.seq, MaxSize)
  IN  SeqDiff(p.seq, expect_next_max) < SeqDiff(Front.seq, expect_next_max)

IsInside(p) == SeqDiff(p.seq, Front.seq) <= SeqDiff(Back.seq, Front.seq)

\* The index _fill_in and get_by_seq compute (the deque counts from 0).
IndexOf(seq) == SeqDiff(seq, Front.seq) + 1

----------------------------------------------------------------------------
Init ==
  /\ inited = FALSE
  /\ ssrc = 0
  /\ cache = <<>>

\* RTPMediaCache::set_sdp: reset(), then init() when the SDP has the track.
SetSdp(hasTrack) ==
  /\ inited' = hasTrack
  /\ ssrc' = 0
  /\ cache' = <<>>

\* Faulty forms, for the mutants: a source that is not compared with the
\* latched one, a track that is not in the SDP.
LatchAnySource(p) == inited /\ ssrc' = p.ssrc /\ UNCHANGED inited

LatchUninited(p) == ssrc \in {0, p.ssrc} /\ ssrc' = p.ssrc /\ UNCHANGED inited

\* The guards of set_rtp: an uninitialised track returns 1 and a packet of
\* another source -1; the first packet's source is latched.
Latch(p) ==
  /\ inited
  /\ ssrc \in {0, p.ssrc}
  /\ ssrc' = p.ssrc
  /\ UNCHANGED inited

\* The window restarts with p: it was empty, or p's timestamp is far from
\* the back's, or p is case 2 of the comment.
Restart(p) ==
  /\ Latch(p)
  /\ \/ cache = <<>>
     \/ /\ cache # <<>>
        /\ \/ TimestampJump(Back.ts, p.ts)
           \/ ~IsLarge(p) /\ IsFar(p)
  /\ cache' = <<p>>

\* Case 1: push back, with empty blocks for the packets skipped.
PushBack(p) ==
  /\ Latch(p)
  /\ cache # <<>>
  /\ ~TimestampJump(Back.ts, p.ts)
  /\ IsLarge(p)
  /\ cache' = Adjust(Extended(p))

\* Faulty form, for the mutants: a late duplicate replaces the block.
FillInOverwrite(p) ==
  /\ Latch(p)
  /\ cache # <<>>
  /\ ~TimestampJump(Back.ts, p.ts)
  /\ ~IsLarge(p) /\ ~IsFar(p) /\ IsInside(p)
  /\ IndexOf(p.seq) <= Len(cache)
  /\ cache' = [cache EXCEPT ![IndexOf(p.seq)] = p]

\* Case 3: _fill_in keeps the block that is there.
FillIn(p) ==
  /\ Latch(p)
  /\ cache # <<>>
  /\ ~TimestampJump(Back.ts, p.ts)
  /\ ~IsLarge(p) /\ ~IsFar(p) /\ IsInside(p)
  /\ IndexOf(p.seq) <= Len(cache)
  /\ cache' = IF IsValid(cache[IndexOf(p.seq)]) THEN cache
              ELSE [cache EXCEPT ![IndexOf(p.seq)] = p]

SetRtp(p) == Restart(p) \/ PushBack(p) \/ FillIn(p)

\* set_rtp reaches its "unknown error" (assert(0)), or _fill_in its own.
SetRtpFails(p) ==
  /\ inited /\ ssrc \in {0, p.ssrc}
  /\ cache # <<>>
  /\ ~TimestampJump(Back.ts, p.ts)
  /\ ~IsLarge(p) /\ ~IsFar(p)
  /\ IsInside(p) => IndexOf(p.seq) > Len(cache)

\* Faulty form, for the mutants: no check against the front.
GetBySeqNoLowerBound(seq) ==
  IF cache = <<>> \/ IsNewer(seq, Back.seq) THEN [status |-> "SEQ_TOO_LARGE"]
  ELSE LET i == IndexOf(seq)
       IN  IF i > Len(cache) THEN [status |-> "OUT_OF_RANGE"]
           ELSE IF IsValid(cache[i]) THEN [status |-> "SUCCESS", rtp |-> cache[i]]
           ELSE [status |-> "NO_THIS_SEQ"]

\* get_by_seq.  "OUT_OF_RANGE" is a read past the end of the deque and
\* "UNKNOWN_ERROR" the branch that asserts.
GetBySeq(seq) ==
  CASE cache = <<>> -> [status |-> "CIRCULAR_CACHE_EMPTY"]
    [] cache # <<>> /\ IsNewer(seq, Back.seq) -> [status |-> "SEQ_TOO_LARGE"]
    [] cache # <<>> /\ ~IsNewer(seq, Back.seq) /\ IsNewer(Front.seq, seq) ->
         [status |-> "SEQ_TOO_SMALL"]
    [] OTHER ->
         LET i == IndexOf(seq)
         IN  CASE i > Len(cache) -> [status |-> "OUT_OF_RANGE"]
               [] i <= Len(cache) /\ ~IsValid(cache[i]) -> [status |-> "NO_THIS_SEQ"]
               [] OTHER -> IF cache[i].seq = seq
                             THEN [status |-> "SUCCESS", rtp |-> cache[i]]
                             ELSE [status |-> "UNKNOWN_ERROR"]

Next ==
  \/ \E hasTrack \in BOOLEAN : SetSdp(hasTrack)
  \/ \E p \in Packet : SetRtp(p)

Spec == Init /\ [][Next]_vars

----------------------------------------------------------------------------
TypeOK ==
  /\ inited \in BOOLEAN
  /\ ssrc \in Ssrcs \cup {0}
  /\ cache \in Seq(Packet \cup {NoBlock})
  /\ ~inited => cache = <<>>

\* A window: both ends hold a packet, and block i holds the packet numbered
\* front + i - 1 or nothing.
IsWindow(c) ==
  c # <<>> =>
    /\ IsValid(c[1]) /\ IsValid(c[Len(c)])
    /\ \A i \in 1 .. Len(c) : IsValid(c[i]) => c[i].seq = SeqPlus(c[1].seq, i - 1)

\* Every read of set_rtp, _fill_in and get_by_seq indexes the deque by the
\* distance from the front, and dereferences front and back: the deque is
\* always a window, no longer than _max_size.
ContiguousWindow == IsWindow(cache) /\ Len(cache) <= MaxSize

\* "unknown error": assert(0) in set_rtp and in _fill_in.  The three cases
\* of set_rtp are exhaustive although they compare numbers that wrap.
NoUnknownError == \A p \in Packet : ~SetRtpFails(p)

\* Every packet resent under a player's ssrc comes from the one source that
\* was latched when the stream's SDP was set.
OneSource == \A i \in 1 .. Len(cache) : IsValid(cache[i]) => cache[i].ssrc = ssrc

\* The packets held, as a set; what get_by_seq should be able to return.
Held == {cache[i] : i \in 1 .. Len(cache)} \ {NoBlock}

\* The one number half a cycle from the front of a one-packet window, which
\* is neither seq_gt the back nor seq_lt the front.
IsAlias(seq) == Len(cache) = 1 /\ SeqDiff(seq, Front.seq) = Half

\* get_by_seq returns exactly the packets held, under their own number, and
\* apart from the alias never leaves the deque.
ReadsBack ==
  \A seq \in Seqs :
    IsAlias(seq) \/
    LET r == GetBySeq(seq)
    IN  IF \E p \in Held : p.seq = seq
          THEN r.status = "SUCCESS" /\ r.rtp \in Held /\ r.rtp.seq = seq
          ELSE r.status \notin {"SUCCESS", "OUT_OF_RANGE", "UNKNOWN_ERROR"}

\* The assertion of get_by_seq: "if (seq == block.get_seq())" holds for the
\* block found, which must therefore be a block of the deque.
GetFindsTheBlock ==
  \A seq \in Seqs : GetBySeq(seq).status \notin {"OUT_OF_RANGE", "UNKNOWN_ERROR"}

\* The abstract window the deque stands for.
Window == INSTANCE RtpWindow WITH
  open <- inited,
  held <- Held,
  newest <- IF cache = <<>> THEN NoBlock ELSE Back,
  NoPacket <- NoBlock

\* The deque implements the abstract window: filling, padding with empty
\* blocks and trimming never lose a packet that is less than _max_size
\* behind the newest, and never keep one that is further behind.
ImplementsWindow == Window!Spec

\* A packet that was accepted can be resent at once, and a packet held is
\* replaced only by leaving the window for good: what a player already got
\* under a number is what a later NACK for that number gets.
NeverReplaced ==
  [][\A i \in 1 .. Len(cache) :
       IsValid(cache[i]) =>
         \/ cache[i] \in Held'
         \/ \A p \in Held' : p.seq # cache[i].seq \/ Cardinality(Held') = 1]_vars

=============================================================================
