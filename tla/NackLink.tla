------------------------------ MODULE NackLink ------------------------------
(***************************************************************************)
(* The packets of one ssrc on their way to a UDP player over a network     *)
(* that loses, reorders and duplicates: an RTPSendSession on this side, an *)
(* RTPRecvSession of the same code on the other, RTP one way and NACKs the *)
(* other way (rtp_trans/rtp_{session,sender_session,receiver_session}.cpp, *)
(* ForwardRtp and SendNackRtp of rtp_trans_manager.cpp).                   *)
(*                                                                         *)
(* Only what decides about retransmission is kept: sequence numbers, and   *)
(* of timestamps whether two are 20 s apart.  A tick is a little longer    *)
(* than min_same_nack_interval (30 ms).  The items of a NACK are handled   *)
(* one by one, so the NACKs in flight are a set of sequence numbers.       *)
(***************************************************************************)
EXTENDS SeqNum, FiniteSets

CONSTANTS
  First, Count,  \* the sequence number of the first packet, and how many
  JumpAt,        \* the packet whose timestamp is 20 s away from the one before
  MaxSize,       \* max_nacklst_size, 250
  MaxAge,        \* max_packet_age, 450
  ResetBelow, ResetAbove,  \* 50 and 65500: where _pkt_history begins a new lap
  MaxRequests,   \* max_retrans_count of RTPRecvSession::on_timer, 30
  SureRequests,  \* requests after which every other one is skipped, 10
  MaxAnswers     \* max_retrans_count of on_handle_rtcp, 5, 7 or 9

ASSUME NackAssumption ==
  /\ First \in Seqs /\ Count \in Nat /\ Count <= Half /\ JumpAt \in Nat
  /\ {MaxSize, MaxAge, MaxRequests, MaxAnswers} \subseteq Nat \ {0}
  /\ SureRequests \in 0 .. MaxRequests
  /\ ResetBelow \in Nat /\ ResetAbove \in Nat

Stream == {s \in Seqs : SeqDiff(s, First) < Count}

\* The stretch of timestamps a packet belongs to; a session begins with
\* _last_rtp_timestamp 0, in stretch 0.
Epoch(s) == IF SeqDiff(s, First) >= JumpAt THEN 1 ELSE 0

VARIABLES
  sent,     \* packets forwarded, which the stream cache still has
  rtpNet,   \* RTP packets in flight
  nackNet,  \* sequence numbers requested by NACKs in flight
  snd,      \* the RTPSendSession
  rcv,      \* the RTPRecvSession
  quiet     \* _last_nacks_dirty is more than 30 ms ago

vars == <<sent, rtpNet, nackNet, snd, rcv, quiet>>

\* _nacks is a set of numbers with a count each, 0 for those not in it;
\* "pause" are those served less than the interval ago.
Sender ==
  [last : Seqs, epoch : 0 .. 1, nacks : SUBSET Stream,
   count : [Stream -> 0 .. MaxAnswers], pause : SUBSET Stream]

\* his is _his_nacks, history is _pkt_history.  Of "base", where _lastseq was
\* last set without a gap, and "since", what came since then, the code keeps
\* no record: they are here to state the properties.
Receiver ==
  [last : Seqs, epoch : 0 .. 1, nacks : SUBSET Stream,
   count : [Stream -> 0 .. MaxRequests], pause : SUBSET Stream,
   his : SUBSET Stream, history : SUBSET Stream, base : Seqs, since : SUBSET Stream]

TypeOK ==
  /\ sent \subseteq Stream /\ rtpNet \subseteq sent /\ nackNet \subseteq Stream
  /\ snd \in Sender /\ rcv \in Receiver
  /\ Cardinality(rcv.nacks) <= MaxSize
  /\ quiet \in BOOLEAN

----------------------------------------------------------------------------
(* The lists.                                                              *)

\* uint32_t(last - s) > max_packet_age: the subtraction is one of ints, so
\* the difference is not reduced modulo 2^16.
TooOld(last, s) == last - s \notin 0 .. MaxAge

\* while (isNacklistToolarge()) erase(begin)
KeepNewest(set) == {s \in set : Cardinality({t \in set : IsNewer(t, s)}) < MaxSize}

\* while (isNacklistTooOld()) erase(begin): the loop ends at the first
\* element that is young enough.
KeepYoung(set, last) ==
  {s \in set : \E t \in set : (t = s \/ IsNewer(s, t)) /\ ~TooOld(last, t)}

\* The map without the entries that are not in "listed".
Trimmed(r, listed) ==
  [r EXCEPT !.nacks = listed, !.pause = @ \cap listed,
            !.count = [s \in Stream |-> IF s \in listed THEN @[s] ELSE 0]]

\* Faulty form, for the mutants: retrans_count is not incremented.
ServedUncounted(r, R) == [r EXCEPT !.pause = @ \cup R]

\* Each entry of R is served: retrans_count++, time = now.
Served(r, R) ==
  [r EXCEPT !.pause = @ \cup R,
            !.count = [s \in Stream |-> IF s \in R THEN @[s] + 1 ELSE @[s]]]

----------------------------------------------------------------------------
(* The receiver.                                                           *)

\* Faulty forms, for the mutants: a packet that came earlier, or was
\* recovered, is a gap; the gap begins one packet late; a late packet stays on
\* the list; an old number empties the history of numbers.
GapEvenIfHad(r, last, s) == Between(last, s)

GapFromNext(r, last, s) ==
  {i \in Between(last, s) : i \notin r.history /\ i # SeqPlus(last, 1)}

StaysListed(nacks, s) == nacks

ForgetWhenOld(his, s) == IF \E x \in his : TooOld(s, x) THEN {s} ELSE his

\* The numbers skipped between last and s.
Gap(r, last, s) == {i \in Between(last, s) : i \notin r.history}

\* A packet that does not advance is taken off the list.
OffList(nacks, s) == nacks \ {s}

\* while (isHisNacklistTooOld(seq)) erase(begin)
Remembered(his, s) == KeepYoung(his, s)

\* RTPRecvSession::_on_handle_rtp_nack up to the redundancy check.  A
\* _lastseq of 0 counts as "no packet yet".
Started(r, s) ==
  IF Epoch(s) # r.epoch
  THEN [Trimmed(r, {}) EXCEPT !.last = s, !.epoch = Epoch(s), !.his = {},
                              !.base = s, !.since = {}]
  ELSE IF r.last = 0 THEN [r EXCEPT !.last = s, !.base = s] ELSE r

\* _on_handle_rtp_nack
Handle(r, s) ==
  LET q     == Started(r, s)
      his   == q.his \cup {s}
      ahead == IsNewer(s, q.last)
      last  == IF ahead THEN s ELSE q.last
      nacks == IF ahead THEN q.nacks \cup Gap(q, q.last, s) ELSE OffList(q.nacks, s)
  IN  IF s \in q.his THEN q
      ELSE [Trimmed(q, KeepYoung(KeepNewest(nacks), last)) EXCEPT
              !.last = last, !.his = Remembered(his, s), !.since = @ \cup {s}]

\* Whether handling s passes through _set_nacks_array_dirty.
Advances(r, s) ==
  LET q == Started(r, s) IN s \notin q.his /\ IsNewer(s, q.last)

\* The history notes s; a low number after a high one begins a new lap.
Seen(r, s) ==
  [r EXCEPT !.history = {s} \cup IF s < ResetBelow /\ r.last > ResetAbove THEN {} ELSE @]

\* RTPSession::on_handle_rtp of packet s: the FEC stage notes it, may find
\* that it completes a pending FEC packet, and has the recovered packet x
\* handled before s is.
Arrives(s, recovered) ==
  LET noted == Seen(rcv, s)
      fixed == IF recovered = {} THEN noted
               ELSE LET x == CHOOSE x \in recovered : TRUE IN Handle(Seen(noted, x), x)
  IN  /\ rcv' = Handle(fixed, s)
      /\ quiet' = (quiet /\ ~Advances(fixed, s)
                         /\ \A x \in recovered : ~Advances(Seen(noted, x), x))

\* At most one packet is recovered by an arrival; the others follow.
Recoverable == {{}} \cup {{x} : x \in sent \ rcv.history}

Init ==
  /\ sent = {} /\ rtpNet = {} /\ nackNet = {} /\ quiet = FALSE
  /\ LET none == [last |-> 0, epoch |-> 0, nacks |-> {}, pause |-> {},
                  count |-> [s \in Stream |-> 0]]
     IN  /\ snd = none
         /\ rcv = [last |-> 0, epoch |-> 0, nacks |-> {}, pause |-> {},
                   count |-> none.count, his |-> {}, history |-> {},
                   base |-> 0, since |-> {}]

\* A packet comes in; the network may still hold a copy.
Deliver(s) ==
  /\ s \in rtpNet
  /\ \E kept \in {{}, {s}} : rtpNet' = (rtpNet \ {s}) \cup kept
  /\ \E recovered \in Recoverable : s \notin recovered /\ Arrives(s, recovered)
  /\ UNCHANGED <<sent, nackNet, snd>>

\* A FEC packet comes in and recovers x.
Recover(x) ==
  /\ x \in sent \ rcv.history
  /\ Arrives(x, {})
  /\ UNCHANGED <<sent, rtpNet, nackNet, snd>>

\* Faulty form, for the mutants: a request is not counted.
DueForEver == {s \in rcv.nacks : s \notin rcv.pause}

\* The entries on_timer collects.
Due == {s \in rcv.nacks : s \notin rcv.pause /\ rcv.count[s] < MaxRequests}

\* RTPRecvSession::on_timer, every 10 ms.  Nothing is sent when no packet
\* advanced for 30 ms; the entries count as requested all the same.  (The
\* list is never too large here: every packet trims it.)
NackTimer ==
  /\ \E R \in SUBSET Due :
       /\ R # {} /\ \A s \in Due \ R : rcv.count[s] >= SureRequests
       /\ rcv' = Served(rcv, R)
       /\ nackNet' = IF quiet THEN nackNet ELSE nackNet \cup R
  /\ UNCHANGED <<sent, rtpNet, snd, quiet>>

----------------------------------------------------------------------------
(* The sender.                                                             *)

\* Faulty form, for the mutants: a late packet moves _lastseq back.
LastComer(last, s) == s

\* _lastseq after a packet s is forwarded.
LastSent(last, s) == IF IsNewer(last, s) THEN last ELSE s

\* ForwardRtp: the packet goes out, and the session handles it.
Forward(s) ==
  /\ s \in Stream \ sent
  /\ sent' = sent \cup {s} /\ rtpNet' = rtpNet \cup {s}
  /\ LET jump  == Epoch(s) # snd.epoch
         last  == IF jump THEN s ELSE LastSent(snd.last, s)
         nacks == IF jump THEN {} ELSE snd.nacks
     IN  snd' = [Trimmed(snd, KeepYoung(KeepNewest(nacks), last))
                   EXCEPT !.last = last, !.epoch = Epoch(s)]
  /\ UNCHANGED <<nackNet, rcv, quiet>>

\* Requests the session takes up: in the cache, not too old, not 20 s away.
Eligible(R) ==
  {s \in R \cap sent : ~TooOld(snd.last, s) /\ Epoch(s) = snd.epoch}

\* Those it answers.
Answerable(R) ==
  {s \in Eligible(R) : s \notin snd.pause /\ snd.count[s] < MaxAnswers}

\* RTPSendSession::on_handle_rtcp of a NACK for R.
AnswerNack(R) ==
  /\ R # {} /\ R \subseteq nackNet
  /\ \E kept \in {{}, R} : nackNet' = (nackNet \ R) \cup kept
  /\ rtpNet' = rtpNet \cup Answerable(R)
  /\ snd' = [Served(snd, Answerable(R)) EXCEPT !.nacks = @ \cup Eligible(R)]
  /\ UNCHANGED <<sent, rcv, quiet>>

----------------------------------------------------------------------------
\* The network loses a packet or a request.
Lose(s) ==
  /\ \/ s \in rtpNet /\ rtpNet' = rtpNet \ {s} /\ UNCHANGED nackNet
     \/ s \in nackNet /\ nackNet' = nackNet \ {s} /\ UNCHANGED rtpNet
  /\ UNCHANGED <<sent, snd, rcv, quiet>>

\* More than 30 ms pass, and the NACK timer has run.  The sender's interval
\* grows with the round-trip time: some of its entries may have to wait on.
Tick ==
  /\ \A s \in Due : rcv.count[s] >= SureRequests
  /\ rcv' = [rcv EXCEPT !.pause = {}] /\ quiet' = TRUE
  /\ \E P \in SUBSET snd.pause : snd' = [snd EXCEPT !.pause = P]
  /\ UNCHANGED <<sent, rtpNet, nackNet>>

Next ==
  \/ \E s \in Stream : Forward(s) \/ Deliver(s) \/ Recover(s) \/ Lose(s)
  \/ \E R \in SUBSET nackNet : AnswerNack(R)
  \/ NackTimer \/ Tick

Spec == Init /\ [][Next]_vars

\* The timer runs every 10 ms, and time passes.
FairSpec == Spec /\ WF_vars(NackTimer) /\ WF_vars(Tick)

----------------------------------------------------------------------------
\* Nothing that has come in, by itself or out of a FEC packet, is requested
\* again, in whatever order it came: every packet is noted in _pkt_history
\* before the gap up to a later one is listed, or taken off the list.
ListedIsMissing == rcv.nacks \cap rcv.history = {}

\* A packet that is missing behind _lastseq is on the list, unless it is too
\* far behind for the age limit or for the size of the list.
GapsAreListed ==
  \A s \in Stream :
    /\ IsNewer(s, rcv.base) /\ IsNewer(rcv.last, s) /\ s \notin rcv.history
    /\ SeqDiff(rcv.last, s) <= MaxAge /\ SeqDiff(rcv.last, s) <= MaxSize
    => s \in rcv.nacks

\* A copy of one of the last max_packet_age packets is recognised, so that it
\* counts once in the loss rate, though _his_nacks is trimmed by the number of
\* whatever packet comes in, a late one too.
RecentIsRemembered ==
  \A s \in rcv.since : SeqDiff(rcv.last, s) <= MaxAge => s \in rcv.his

\* What is requested is behind what the sender sent, also when it forwarded
\* packets out of order: otherwise its unsigned age would be enormous, and
\* the request refused.
RequestsAreBehind ==
  \A s \in nackNet : s = snd.last \/ IsNewer(snd.last, s)

\* However often the network duplicates a NACK or a packet, a finite stream
\* without a timestamp jump ends in silence: each side has a budget for a
\* packet, and trimming, which forgets how much of it is spent, happens only
\* when new packets come.  (With copies from both sides of a jump, each of
\* them a jump from the other, it never ends: MCNackEndless.cfg.)
TrafficEnds == <>[][rtpNet' \subseteq rtpNet /\ nackNet' \subseteq nackNet]_vars

\* The comments of rtp_receiver_session.cpp:351 and 363: an entry is dropped
\* when there are more than 250 of them, or when it is 450 packets late; else
\* only because its packet came.
DroppedOnlyWhenLate ==
  [][\A s \in rcv.nacks \ rcv'.nacks :
       \/ s \in rcv'.history
       \/ SeqDiff(rcv'.last, s) > MaxAge
       \/ SeqDiff(rcv'.last, s) > MaxSize]_rcv

\* The comment of rtp_receiver_session.cpp:68, "send nack every 60ms": a
\* packet that stays on the list, with budget left, is asked for again.
RequestedAgain ==
  \A s \in Stream :
    s \in rcv.nacks /\ rcv.count[s] < MaxRequests ~> s \in nackNet \/ s \notin rcv.nacks

=============================================================================
