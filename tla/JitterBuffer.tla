---------------------------- MODULE JitterBuffer ----------------------------
(***************************************************************************)
(* media_manager/jitter_buffer.cpp: the buffer that puts the RTP packets   *)
(* of one medium in order before the FLV remuxer takes them.  It waits for *)
(* missing packets until the newest one is _buffer_duration ahead.         *)
(*                                                                         *)
(* RTP2FLVRemuxer::set_rtp calls SetRTPPacket once and then GetRTPPacket   *)
(* until it returns NULL ("draining").  A packet is its sequence number;   *)
(* its timestamp, in milliseconds of media time, follows from its place in *)
(* the stream.  The time base is known (the SDP precedes the packets).     *)
(***************************************************************************)
EXTENDS SeqNum, FiniteSets

CONSTANTS
  First, Count,   \* the sequence number of the first packet, and how many
  PerFrame,       \* packets with the same timestamp
  FrameTime,      \* milliseconds from one timestamp to the next
  JumpAt,         \* the packet before which the timestamp jumps
  JumpTime,       \* by how much: the 20 s that reset the buffer
  Duration,       \* _buffer_duration
  Threshold,      \* BUFFER_THRESHOLD, 5000
  MaxCopies       \* bound: copies of one packet in the queue

ASSUME JitterAssumption ==
  /\ First \in Seqs /\ Count \in Nat /\ Count <= Half /\ JumpAt \in Nat
  /\ {PerFrame, FrameTime, JumpTime, Duration, Threshold, MaxCopies} \subseteq Nat \ {0}

Stream == {s \in Seqs : SeqDiff(s, First) < Count}

Stamp(s) ==
  LET i == SeqDiff(s, First)
  IN  (i \div PerFrame) * FrameTime + IF i >= JumpAt THEN JumpTime ELSE 0

\* JitterBlockInfo; "unset" after reset()
Info(s) == [seq |-> s, time |-> Stamp(s)]
Unset == [seq |-> 0, time |-> 0]

VARIABLES
  state,     \* _state: "init" or "sending"
  queue,     \* _queue: the number of copies of each packet
  lost,      \* _lost_queue
  jitter,    \* _jitter_block
  last,      \* _last_queue_block
  out,       \* _last_out_block
  draining   \* set_rtp is in its loop of GetRTPPacket

vars == <<state, queue, lost, jitter, last, out, draining>>

Blocks == [seq : Seqs, time : {0} \cup {Stamp(s) : s \in Stream}]

TypeOK ==
  /\ state \in {"init", "sending"}
  /\ queue \in [Stream -> 0 .. MaxCopies]
  /\ lost \subseteq Stream
  /\ jitter \in Blocks /\ last \in Blocks /\ out \in Blocks
  /\ draining \in BOOLEAN

Queued == {s \in Stream : queue[s] > 0}

\* begin() of a set in serial order, top() of the queue
Oldest(set) == CHOOSE s \in set : \A t \in set : t = s \/ IsNewer(t, s)

\* Faulty form, for the mutants: the packet before the last one out is in time.
LateByOne(s) == out.seq # 0 /\ IsNewer(out.seq, SeqPlus(s, 1))

\* A packet older than the last one taken out.
Late(s) == out.seq # 0 /\ IsNewer(out.seq, s)

\* Faulty forms, for the mutants: the gap misses its first packet; packets
\* that arrive out of order stay lost.
GapFromNext(s) ==
  IF IsNewer(s, last.seq) THEN Between(SeqPlus(last.seq, 1), s) ELSE {}

StillLost(set, s) == set

\* _lost_queue after the gap up to packet s is noted.
Gap(s) == IF IsNewer(s, last.seq) THEN Between(last.seq, s) ELSE {}

Found(set, s) == set \ {s}

\* updateLatest
Latest(s) == IF last.seq = 0 \/ IsNewer(s, last.seq) THEN Info(s) ELSE last

Pushed(s) == [queue EXCEPT ![s] = @ + 1]
Empty == [s \in Stream |-> 0]

Init ==
  /\ state = "init" /\ queue = Empty /\ lost = {} /\ draining = FALSE
  /\ jitter = Unset /\ last = Unset /\ out = Unset

----------------------------------------------------------------------------
(* SetRTPPacket(s), case by case.                                          *)

\* The buffer is empty: s is its first packet, unless it is too late.
SetFirst(s) ==
  /\ state = "init"
  /\ IF Late(s) THEN UNCHANGED <<state, queue, jitter, last>>
     ELSE state' = "sending" /\ queue' = Pushed(s) /\ jitter' = Info(s) /\ last' = Latest(s)
  /\ UNCHANGED <<lost, out>>

Abs(n) == IF n < 0 THEN -n ELSE n

Jumps(s) == Abs(Stamp(s) - last.time) >= JumpTime

\* 20 s away from the newest packet: the buffer starts again from s.
SetJump(s) ==
  /\ state = "sending" /\ Jumps(s)
  /\ queue' = [Empty EXCEPT ![s] = 1]
  /\ lost' = {} /\ out' = Unset /\ jitter' = Info(s) /\ last' = Info(s)
  /\ UNCHANGED state

SetLate(s) ==
  /\ state = "sending" /\ ~Jumps(s) /\ Late(s)
  /\ lost' = lost \cup Gap(s)
  /\ UNCHANGED <<state, queue, jitter, last, out>>

\* Any other packet is queued.  The one after _jitter_block moves it on:
\* to the packet before the next lost one, or to the newest.
SetQueue(s) ==
  LET known == lost \cup Gap(s)
      left  == Found(known, s)
  IN  /\ state = "sending" /\ ~Jumps(s) /\ ~Late(s)
      /\ queue' = Pushed(s) /\ lost' = left /\ last' = Latest(s)
      /\ jitter' = IF s # SeqPlus(jitter.seq, 1) THEN jitter
                   ELSE IF known = {} THEN Info(s)
                   ELSE IF s \notin known THEN jitter
                   ELSE IF left = {} THEN last
                   ELSE [jitter EXCEPT !.seq = SeqPlus(Oldest(left), SeqMod - 1)]
      /\ UNCHANGED <<state, out>>

SetRTPPacket(s) ==
  /\ ~draining /\ draining' = TRUE
  /\ queue[s] < MaxCopies
  /\ SetFirst(s) \/ SetJump(s) \/ SetLate(s) \/ SetQueue(s)

----------------------------------------------------------------------------
(* GetRTPPacket.                                                           *)

\* Faulty form, for the mutants: measured from the last packet out.
HeldSinceOut(s) == jitter # last /\ out.time - Stamp(s) \in 0 - Duration .. Duration - 1

\* The top of the queue waits for what is missing.  The subtraction is
\* unsigned: a packet stamped later than the newest one does not wait.
Held(s) == jitter # last /\ last.time - Stamp(s) \in 0 .. Duration - 1

\* What is left when copies of the last packet out are thrown away.
Candidates == Queued \ {out.seq}

\* _jitter_block after packet "seq" is out: the next lost number, as it is.
\* begin() of an empty set is undefined: any number.
NextJitter(seq, set) ==
  IF seq # jitter.seq THEN {jitter}
  ELSE IF lost = {} THEN {last}
  ELSE IF set = {} THEN {[jitter EXCEPT !.seq = s] : s \in Seqs}
  ELSE {[jitter EXCEPT !.seq = Oldest(set)]}

\* Faulty form, for the mutants: what was given up stays lost.
KeepGivenUp(seq, set) == set

\* Lost packets older than the last one out are given up.
StillWanted(seq, set) == {l \in set : ~IsNewer(seq, l)}

\* The loop that gives them up, from lost numbers "set" and _jitter_block j.
GiveUp(seq, set, j) ==
  LET left == StillWanted(seq, set)
  IN  /\ lost' = left
      /\ jitter' = IF left = set THEN j
                   ELSE IF left = {} THEN last
                   ELSE [j EXCEPT !.seq = Oldest(left)]

\* The buffer holds too many packets: _reset, which keeps _last_out_block.
Total(q) == Cardinality({p \in Stream \X (1 .. MaxCopies) : q[p[1]] >= p[2]})

Overflow(q) ==
  /\ queue' = Empty /\ lost' = {} /\ jitter' = Unset /\ last' = Unset /\ state' = "init"

\* Nothing comes out: the buffer is empty, or its top is held.
GetNothing ==
  /\ state = "sending" => Queued = {} \/ Held(Oldest(Queued))
  /\ draining' = FALSE
  /\ IF Total(queue) > Threshold THEN Overflow(queue)
     ELSE /\ IF state = "init" THEN UNCHANGED <<lost, jitter>>
             ELSE GiveUp(out.seq, lost, jitter)
          /\ UNCHANGED <<state, queue, last>>
  /\ UNCHANGED out

\* The top comes out, and before it the copies of the packet before.
Get ==
  /\ state = "sending" /\ Queued # {} /\ ~Held(Oldest(Queued))
  /\ LET top  == Oldest(Candidates)
         none == Candidates = {}
         kept == [s \in Stream |-> IF s = out.seq THEN 0 ELSE queue[s]]
         rest == IF none THEN kept ELSE [kept EXCEPT ![top] = @ - 1]
         now  == IF none THEN out ELSE Info(top)
         less == IF now.seq = jitter.seq THEN lost \ {now.seq} ELSE lost
     IN  /\ out' = now
         /\ draining' = ~none
         /\ IF Total(rest) > Threshold THEN Overflow(rest)
            ELSE /\ queue' = rest
                 /\ \E j \in NextJitter(now.seq, less) : GiveUp(now.seq, less, j)
                 /\ UNCHANGED <<state, last>>

GetRTPPacket == draining /\ (GetNothing \/ Get)

Next == (\E s \in Stream : SetRTPPacket(s)) \/ GetRTPPacket

Spec == Init /\ [][Next]_vars

----------------------------------------------------------------------------
\* The remuxer gets each packet once and in order, whatever came twice, late
\* or after a reset for overflow; only a jump of the timestamp starts anew.
OutputInOrder ==
  [][out'.seq # out.seq /\ out.seq # 0 /\ out'.seq # 0 => IsNewer(out'.seq, out.seq)]_vars

\* A number is not both lost and in the queue: else taking the packet out
\* would read begin() of a list it has just emptied.
LostIsMissing == lost \cap Queued = {}

\* In a drained buffer every number between the last packet out and the newest
\* one is queued or lost: what it waits for is exactly what is missing.
LostIsTheGaps ==
  state = "sending" /\ ~draining =>
    lost = {s \in Stream \ Queued : IsNewer(s, out.seq) /\ IsNewer(last.seq, s)}

\* The latency the buffer adds is bounded: when the remuxer has drained it,
\* no packet is left that is _buffer_duration behind the newest one.
HoldIsBounded ==
  ~draining => \A s \in Queued : last.time - Stamp(s) < Duration

\* The comment of jitter_buffer.h:69: _jitter_block is the last contiguous
\* packet, everything from the first packet of the buffer up to it is there.
JitterIsContiguous ==
  state = "sending" => \A l \in lost : IsNewer(l, jitter.seq)

=============================================================================
