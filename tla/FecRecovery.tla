---------------------------- MODULE FecRecovery ----------------------------
(***************************************************************************)
(* Forward error correction between two servers: the sender session of a   *)
(* player adds packets that are the XOR of others                          *)
(* (rtp_trans/rtp_sender_session.cpp); the receiver session of the next    *)
(* server computes lost packets from them and treats these as if they had  *)
(* arrived (rtp_trans/rtp_receiver_session.cpp, RTPTransManager::OnRecvRtp)*)
(*                                                                         *)
(* A packet is known by its number since the start; on the wire it has the *)
(* 16 bits of it.  The content of a packet is the set of packets that are  *)
(* XORed in it, {n} for packet n itself: whether what comes out is a        *)
(* packet, and which, can then be seen.  One medium of one stream, whose    *)
(* packets have one payload type; requests for lost packets are NackLink.   *)
(***************************************************************************)
EXTENDS Integers, Sequences, SequencesExt, FiniteSetsExt

CONSTANTS
  Modes,        \* "mask" (fec_interleave_package_val > 0), "grid" (0)
  Count, Stride,  \* fec_rtp_count, fec_interleave_package_val
  L, D, DL,     \* fec_l, fec_d, fec_d_l
  NumMod,       \* 2^16
  Low, High,    \* 50 and 65500: a number below Low after one above High
  CacheSize,    \* how many numbers the cache of the receiver reaches back
  Start, MaxPackets,  \* bounds of the model: first packet, number of packets,
  MaxFlight,    \* messages on their way,
  MaxLate, MaxLateGrid, \* packets the sender has not got, in the two modes,
  MaxDelay      \* how many numbers behind both may be

ASSUME FecAssumption ==
  /\ Modes \subseteq {"mask", "grid"}
  /\ {Count, Stride, L, D, DL, NumMod, Start} \subseteq Nat \ {0}
  /\ {Low, High, CacheSize, MaxPackets, MaxFlight, MaxLate, MaxLateGrid,
      MaxDelay} \subseteq Nat
  /\ CacheSize < NumMod \div 2

VARIABLES
  mode,
  got,       \* packets the sender has got, in its cache
  net,       \* messages between the two servers
  receiver   \* the receiver session and the cache of its server

vars == <<mode, got, net, receiver>>

Numbers == Start .. Start + MaxPackets - 1

Wire(n) == n % NumMod

\* A message; "covered" is the numbers an FEC packet says it is of.
Data(n) == [type |-> "data", seq |-> Wire(n), content |-> {n}]
Fec(seq, nums, has, masked) ==
  [type |-> IF masked THEN "mask" ELSE "grid", seq |-> Wire(seq),
   covered |-> {Wire(n) : n \in IF masked THEN nums \cap has ELSE nums},
   content |-> nums \cap has]

----------------------------------------------------------------------------
(* The sender.                                                             *)

\* _on_handle_rtp_fec: after each group, one FEC packet for every
\* Stride-th packet of it.
MaskFecs(n, has) ==
  IF Wire(n) = 0 \/ Wire(n) % (Count * Stride) # 0 THEN {}
  ELSE {f \in {LET base == n - Count * Stride + 1 + j
               IN  Fec(base + Count - 1,
                       {base + i * Stride : i \in 0 .. Count - 1}, has, TRUE) :
               j \in 0 .. Stride - 1} : f.content # {}}

\* _on_handle_rtp_f_fec: the row that ends with the packet or, if none does,
\* the column.
GridFecs(n, has) ==
  IF ~(L > 1 /\ DL > 1 /\ Wire(n) > 0) THEN {}
  ELSE IF Wire(n) % L = 0
  THEN {Fec(n, {n - i : i \in 0 .. L - 1}, has, FALSE)}
  ELSE IF (Wire(n) - 1) % D = 0
  THEN {Fec(n, {n - i * D : i \in 0 .. DL - 1}, has, FALSE)}
  ELSE {}

Fecs(n, has) == IF mode = "mask" THEN MaskFecs(n, has) ELSE GridFecs(n, has)

----------------------------------------------------------------------------
(* Recovery.                                                               *)

Seqs(cache) == {p.seq : p \in cache}

\* The XOR of the FEC packet with those packets of it that are in the cache.
Xor(r, f) ==
  LET terms == {p \in r.cache : p.seq \in f.covered}
  IN  {n \in Numbers :
         (Cardinality({p \in terms : n \in p.content})
            + IF n \in f.content THEN 1 ELSE 0) % 2 = 1}

Missing(r, f) == f.covered \ r.history

\* _recover_with_fec, _recover_with_f_fec: one packet is missing, no other is
\* gone from the cache, and the XOR of the payload types is not 0.
Recovers(r, f) ==
  /\ Cardinality(Missing(r, f)) = 1
  /\ Cardinality(f.covered \ Seqs(r.cache)) < 2
  /\ Cardinality(Xor(r, f)) % 2 = 1

\* _recover_packet, _f_recover_packet.
Recovered(r, f) ==
  [seq |-> CHOOSE s \in Missing(r, f) : TRUE, content |-> Xor(r, f)]

\* A pending FEC packet is dropped when a packet of its number or a later one
\* is there, one of a grid also when it has nothing to recover.
Outdated(f, seq) == (seq - f.seq) % NumMod < NumMod \div 2
Useless(r, f) == f.type = "grid" /\ Missing(r, f) = {}

\* Faulty form, for the mutants: numbers are compared without the wrap.
CachedByValue(r, p) ==
  LET newest == IF p.seq > r.newest THEN p.seq ELSE r.newest
      all == IF p.seq \in Seqs(r.cache) THEN r.cache ELSE r.cache \cup {p}
  IN  [r EXCEPT !.newest = newest,
                !.cache = {q \in all : (newest - q.seq) % NumMod < CacheSize}]

\* RTPCircularCache of the receiver, as far as FEC uses it (RtpCircularCache).
Cached(r, p) ==
  LET ahead == (p.seq - r.newest) % NumMod
      newest == IF r.newest = -1 \/ ahead < NumMod \div 2 THEN p.seq ELSE r.newest
      all == IF p.seq \in Seqs(r.cache) THEN r.cache ELSE r.cache \cup {p}
  IN  [r EXCEPT !.newest = newest,
                !.cache = {q \in all : (newest - q.seq) % NumMod < CacheSize}]

\* _on_handle_rtp_fec: the numbers start again.
Lapped(r, seq) ==
  IF seq < Low /\ r.last > High
  THEN [r EXCEPT !.history = {}, !.pending = << >>] ELSE r

\* What a loop over the pending FEC packets leaves of them when it stops at the
\* one with that index.
Left(r, seq, stop) ==
  LET Stays(i) == \/ i > stop
                  \/ /\ i < stop
                     /\ ~Outdated(r.pending[i], seq) /\ ~Useless(r, r.pending[i])
      left[i \in 0 .. Len(r.pending)] ==
        IF i = 0 THEN << >>
        ELSE IF Stays(i) THEN Append(left[i - 1], r.pending[i]) ELSE left[i - 1]
  IN  left[Len(r.pending)]

\* The loop, up to the first that recovers.
Scanned(r, seq) ==
  LET hits == {i \in DOMAIN r.pending :
                 ~Outdated(r.pending[i], seq) /\ Recovers(r, r.pending[i])}
      first == IF hits = {} THEN Len(r.pending) + 1 ELSE Min(hits)
  IN  [r |-> [r EXCEPT !.pending = Left(r, seq, first)],
       found |-> IF hits = {} THEN << >> ELSE <<Recovered(r, r.pending[first])>>]

\* OnRecvRtp of a packet that is in the buffer of the session or came from the
\* network, up to where the next recovery takes the buffer: "found" is the
\* packet to go on with.
Taken(x) ==
  IF x.found = << >> THEN x
  ELSE LET p == x.found[1]
           lapped == Lapped(Cached(x.r, p), p.seq)
           y == Scanned([lapped EXCEPT !.history = @ \cup {p.seq}], p.seq)
       IN  [r |-> y.r, found |-> y.found, buffer |-> x.buffer \o y.found]

\* Faulty form, for the mutants: what is recovered recovers nothing.
TakenOnce(x) ==
  LET y == Taken(x) IN
  IF y.found = << >> THEN y
  ELSE LET p == y.found[1]
       IN  [r |-> [Cached(y.r, p) EXCEPT !.history = @ \cup {p.seq}],
            found |-> << >>, buffer |-> y.buffer]

\* A recovered packet may recover another: as often as there are FEC packets.
TakenAll(x) ==
  LET n == Len(x.r.pending) + 1
      after[i \in 0 .. n] == IF i = 0 THEN x ELSE Taken(after[i - 1])
  IN  after[n]

\* _on_handle_rtp_nack, of which FEC needs the newest number, and ForwardRtp.
Passed(r, p) ==
  LET newer == r.last = 0 \/ (p.seq - r.last) % NumMod \in 1 .. NumMod \div 2 - 1
  IN  [r EXCEPT !.last = IF newer THEN p.seq ELSE @, !.forwarded = @ \cup {p}]

\* Every level of the recursion passes on what the buffer holds when it
\* returns: the packet that was recovered last.
Unwound(x) ==
  LET r == [x.r EXCEPT !.recovered = @ \cup Range(x.buffer)]
  IN  IF x.buffer = << >> THEN r ELSE Passed(r, Last(x.buffer))

Packet(m) == [seq |-> m.seq, content |-> m.content]

HandleData(r, m) ==
  LET p == Packet(m)
  IN  Passed(Unwound(TakenAll([r |-> r, found |-> <<p>>, buffer |-> << >>])), p)

HandleFec(r, m) ==
  LET s == Lapped(r, m.seq)
      p == Recovered(s, m)
  IN  IF Recovers(s, m)
      THEN Unwound(TakenAll([r |-> [s EXCEPT !.history = @ \cup {p.seq}],
                             found |-> <<p>>, buffer |-> <<p>>]))
      ELSE [s EXCEPT !.pending = Append(@, m)]

----------------------------------------------------------------------------
(* Actions.                                                                *)

Init ==
  /\ mode \in Modes
  /\ got = {} /\ net = {}
  /\ receiver = [history |-> {}, last |-> 0, cache |-> {}, newest |-> -1,
                 pending |-> << >>, forwarded |-> {}, recovered |-> {}]

\* What is on its way or late is not too old for packet n.
Recent(n) ==
  /\ \A m \in net : n - Max(m.content) <= MaxDelay
  /\ \A k \in got : k - n <= MaxDelay

\* The packets the sender has not got though it has got later ones.
Late == {n \in Numbers : n \notin got /\ \E k \in got : k > n}

\* The sender gets a packet, keeps it and sends it, the FEC packets after it.
Send(n) ==
  /\ n \notin got /\ Cardinality(net) < MaxFlight /\ Recent(n)
  /\ got' = got \cup {n}
  /\ Cardinality(Late') <= IF mode = "mask" THEN MaxLate ELSE MaxLateGrid
  /\ net' = net \cup {Data(n)} \cup Fecs(n, got')
  /\ UNCHANGED <<mode, receiver>>

\* A message arrives, in any order.
Receive(m) ==
  /\ net' = net \ {m}
  /\ receiver' = IF m.type = "data" THEN HandleData(receiver, m)
                 ELSE HandleFec(receiver, m)
  /\ UNCHANGED <<mode, got>>

Lose(m) == net' = net \ {m} /\ UNCHANGED <<mode, got, receiver>>

Next ==
  \/ \E n \in Numbers : Send(n)
  \/ \E m \in net : Receive(m)
  \/ \E m \in net : Lose(m)

Spec == Init /\ [][Next]_vars

----------------------------------------------------------------------------
(* Properties.                                                             *)

\* What is recovered is the packet of that number and nothing else, in whatever
\* order the packets came, some of them too late for the sender's XOR.  In a
\* grid this needs a sender that lacks none (MaxLateGrid = 0): there the FEC
\* packet does not say which were left out (_on_handle_rtp_f_fec).  Where the
\* numbers start again it needs a cache that reaches back further than packets
\* are late and FEC packets reach (Lapped empties the history, not the cache).
RecoveredIsGenuine ==
  \A p \in receiver.recovered : \E n \in Numbers :
    p.content = {n} /\ p.seq = Wire(n)

\* No FEC packet waits with which a lost packet could be recovered now
\* (_on_handle_rtp_fec).
NothingRecoverableWaits ==
  \A i \in DOMAIN receiver.pending : ~Recovers(receiver, receiver.pending[i])

\* What the history says is there is in the cache as well, as long as the cache
\* reaches back (_recover_packet asks the cache).
HistoryIsCached ==
  \A s \in receiver.history :
    (receiver.newest - s) % NumMod < CacheSize => s \in Seqs(receiver.cache)

\* Every packet is forwarded to the players, "the repeated ones as well"
\* (rtp_trans_manager.cpp:71), those that were recovered among them.
RecoveredIsForwarded == receiver.recovered \subseteq receiver.forwarded
=============================================================================
