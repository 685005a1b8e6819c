------------------------------ MODULE RtpWindow ------------------------------
(***************************************************************************)
(* What an RTP cache promises its readers, without the deque: a set of     *)
(* packets, at most one per number, that is the most recent window of one  *)
(* source.  RtpCircularCache implements this specification.                *)
(***************************************************************************)
EXTENDS SeqNum

CONSTANTS MaxSize, TsMod, TsJump, Packet

VARIABLES
  open,         \* packets are accepted
  held,         \* the packets that can be read back
  newest        \* the latest of them, or NoPacket

CONSTANT NoPacket

window == <<open, held, newest>>

Init == open = FALSE /\ held = {} /\ newest = NoPacket

Reopen(b) == open' = b /\ held' = {} /\ newest' = NoPacket

\* Distance on the circle of timestamps, either way round.
FarInTime(p) ==
  LET d == IF newest.ts >= p.ts THEN newest.ts - p.ts ELSE newest.ts - p.ts + TsMod
  IN  2 * d # TsMod /\ d >= TsJump /\ TsMod - d >= TsJump

\* How far behind the newest packet a number is.
Age(seq) == SeqDiff(newest.seq, seq)

\* No packet held is as old as p.
OlderThanAll(p) == \A q \in held : Age(q.seq) < Age(p.seq)

\* p is neither in the window nor less than MaxSize ahead of it.
FarInSequence(p) == SeqDiff(p.seq, newest.seq) >= MaxSize /\ OlderThanAll(p)

Restart(p) ==
  /\ open
  /\ held # {} => FarInTime(p) \/ FarInSequence(p)
  /\ held' = {p} /\ newest' = p
  /\ UNCHANGED open

\* p becomes the newest; only packets MaxSize or more behind it go.
Advance(p) ==
  /\ open /\ held # {} /\ ~FarInTime(p)
  /\ p.seq # newest.seq /\ SeqDiff(p.seq, newest.seq) < MaxSize
  /\ held' = {q \in held : SeqDiff(p.seq, q.seq) < MaxSize} \cup {p}
  /\ newest' = p
  /\ UNCHANGED open

\* p fills a gap; the first packet with a number is kept.
Fill(p) ==
  /\ open /\ held # {} /\ ~FarInTime(p)
  /\ ~OlderThanAll(p)
  /\ held' = IF \E q \in held : q.seq = p.seq THEN held ELSE held \cup {p}
  /\ UNCHANGED <<open, newest>>

Next ==
  \/ \E b \in BOOLEAN : Reopen(b)
  \/ \E p \in Packet : Restart(p) \/ Advance(p) \/ Fill(p)

Spec == Init /\ [][Next]_window
=============================================================================
