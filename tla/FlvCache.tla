------------------------------ MODULE FlvCache ------------------------------
(***************************************************************************)
(* The FLV cache of one stream and the HTTP players that read it:           *)
(*   media_manager/cache_manager.cpp, stream_store.cpp    the store         *)
(*   media_manager/{,flv_miniblock_}circular_cache.cpp    its miniblocks    *)
(*   fragment/fragment_generator.cpp                      their numbers     *)
(*   connection_manager/FlvConnectionManager.cpp          connections       *)
(*   connection_manager/flv_live_player.cpp               players           *)
(* The remuxer (FlvRemuxer) hands in the header and the tags, from packets  *)
(* of a stream whose description it has; an action is                      *)
(* one libevent callback, in which a tag reaches the cache or a socket is   *)
(* served.  A tag or a response is one unit of a write buffer.  A           *)
(* destroyed LiveConnection is never deleted; nothing leads to it.          *)
(***************************************************************************)
EXTENDS Integers, Sequences, FiniteSets

CONSTANTS
  Viewers,      \* LiveConnection objects
  Prompt,       \* the viewers that keep up: served before the next event
  Duration,     \* flv_block_live_cache.buffer_duration_sec, in time units
  MaxSpan,      \* buffer_duration_sec * 100, the largest span of numbers
  Gaps,         \* times between two tags
  StoreTicks,   \* the 10 s timer rings after which a quiet store goes
  WbSize,       \* capacity of wb: 512 KB, which nothing on this path expands
  OveruseSize,  \* kBufferOveruseSize: 2 MB
  SendMax,      \* WRITE_MAX
  None,
  MaxTags, MaxStores  \* bounds of the model: tags, stores of one behaviour

ASSUME FlvAssumption ==
  /\ Prompt \subseteq Viewers /\ IsFiniteSet(Viewers)
  /\ {Duration, MaxSpan, StoreTicks, SendMax} \subseteq Nat \ {0}
  /\ WbSize \in Nat \ {0, 1} /\ OveruseSize \in Nat
  /\ Gaps \subseteq Nat /\ MaxTags \in Nat /\ MaxStores \in Nat /\ None \notin Nat

\* A miniblock; "id" counts the tags of the behaviour.  A store: the number
\* of its first block, the blocks, how many tags came, rings without one.
Block == [seq : Nat, ts : Nat, key : BOOLEAN, id : Nat]
Store == [blocks : Seq(Block), next : Nat, quiet : 0 .. StoreTicks]

\* A connection: what it was asked for, whether EV_WRITE is watched, units in
\* wb, the fields of FlvLivePlayer, and the blocks ever put in wb.
Conn ==
  [asked : {"closed", "nothing", "error", "crossdomain", "flv"},
   w : BOOLEAN, wb : 0 .. WbSize, header : BOOLEAN, first : BOOLEAN,
   overuse : BOOLEAN, latest : Int, seen : Seq(Block)]

VARIABLES
  store,     \* _stream_store_map
  uploader,  \* RTPTransManager::HasUploader
  described, \* packets get through: an SDP came since the RTP cache of the
             \* stream and the remuxer's jitter buffers were made
  conn,      \* m_connections; m_stream_groups: those asked for "flv"
  tags,      \* how many tags were made miniblocks
  stores     \* how many stores were made

vars == <<store, uploader, described, conn, tags, stores>>

NewConn ==
  [asked |-> "nothing", w |-> TRUE, wb |-> 0, header |-> FALSE,
   first |-> FALSE, overuse |-> FALSE, latest |-> -1, seen |-> << >>]

Closed == [NewConn EXCEPT !.asked = "closed", !.w = FALSE]

TypeOK ==
  /\ store \in Store \cup {None}
  /\ uploader \in BOOLEAN /\ described \in BOOLEAN
  /\ conn \in [Viewers -> Conn]
  /\ tags \in Nat /\ stores \in Nat

----------------------------------------------------------------------------
(* The cache.                                                              *)

Front(s) == s.blocks[1]
Back(s)  == s.blocks[Len(s.blocks)]

\* The time of the last tag.
LastTs(s) == IF s.blocks = << >> THEN 0 ELSE Back(s).ts

\* FLVMiniBlockGenerator::set_flv_tag, _generate and get_block: the number
\* goes up with every tag of the store.
Generated(s, key, dt) ==
  [seq |-> s.next, ts |-> LastTs(s) + dt, key |-> key, id |-> tags]

\* CircularCache::push.
Pushed(s, b) ==
  IF s.blocks # << >> /\ b.seq <= Back(s).seq THEN s
  ELSE [s EXCEPT !.blocks = Append(@, b), !.quiet = 0]

\* get_latest_key: the indices of the blocks it may return are searched
\* backward.
KeyAt(s) == {i \in DOMAIN s.blocks : s.blocks[i].key}
LatestKey(s) == CHOOSE i \in KeyAt(s) : \A j \in KeyAt(s) : j <= i

\* get_by_seq: the numbers in a cache are consecutive (NumbersAreDense), and
\* the one asked for is at the distance of the first.
Holds(s, seq) == s.blocks # << >> /\ Front(s).seq <= seq /\ seq <= Back(s).seq
IndexOf(s, seq) == seq - Front(s).seq + 1

\* How many blocks the loop of _adjust_flv_miniblock_cache_size pops: the
\* first it keeps is near enough to the last in time and in number.
Keeps(s, i) ==
  /\ Back(s).ts - s.blocks[i].ts <= Duration
  /\ Back(s).seq - s.blocks[i].seq <= MaxSpan

\* Faulty form, for the mutants: one block too many goes, the last as well.
TrimmedTooFar(s) ==
  IF s.blocks = << >> THEN s
  ELSE LET i == CHOOSE i \in DOMAIN s.blocks :
                  Keeps(s, i) /\ \A j \in 1 .. i - 1 : ~Keeps(s, j)
       IN  [s EXCEPT !.blocks = SubSeq(@, i + 1, Len(@))]

Trimmed(s) ==
  IF s.blocks = << >> THEN s
  ELSE LET i == CHOOSE i \in DOMAIN s.blocks :
                  Keeps(s, i) /\ \A j \in 1 .. i - 1 : ~Keeps(s, j)
       IN  [s EXCEPT !.blocks = SubSeq(@, i, Len(@))]

----------------------------------------------------------------------------
(* The players.                                                            *)

\* Faulty form, for the mutants: nobody is woken.
NotifiedNobody == conn

\* OnRecvStreamDataImpl, on every notification of the cache.
Notified ==
  [v \in Viewers |-> IF conn[v].asked = "flv" THEN [conn[v] EXCEPT !.w = TRUE]
                     ELSE conn[v]]

\* copy_payload_to_buffer of blocks i .. j: what does not fit is dropped, and
\* the player goes on behind it.
Copied(c, s, i, j) ==
  LET room == WbSize - c.wb
      k    == IF room < j - i + 1 THEN i + room - 1 ELSE j
  IN  [c EXCEPT !.wb = @ + (k - i + 1), !.latest = s.blocks[j].seq,
                !.seen = @ \o SubSeq(s.blocks, i, k)]

\* Faulty form, for the mutants: the loop starts at the last block again.
AgainWithLast(c) ==
  IF Holds(store, c.latest)
  THEN Copied(c, store, IndexOf(store, c.latest), Len(store.blocks)) ELSE c

\* The loop at the end of FlvLivePlayer::OnWrite.
CaughtUp(c) ==
  IF Holds(store, c.latest + 1)
  THEN Copied(c, store, IndexOf(store, c.latest + 1), Len(store.blocks)) ELSE c

\* Whether wb was too full at the last write, and is not known to have
\* emptied since.
Overused(c) == c.wb > OveruseSize \/ (c.overuse /\ c.wb >= OveruseSize \div 2)

\* Faulty form, for the mutants: a new player starts at the oldest block.
FedFromFront(c) ==
  LET d == [c EXCEPT !.overuse = Overused(c),
                     !.first = c.first /\ c.wb <= OveruseSize]
  IN  IF d.overuse \/ store = None THEN d
      ELSE IF d.first THEN CaughtUp(d)
      ELSE IF store.blocks = << >> THEN d
      ELSE Copied([d EXCEPT !.first = TRUE], store, 1, Len(store.blocks))

\* The tags a player with a header copies.
Fed(c) ==
  LET d == [c EXCEPT !.overuse = Overused(c),
                     !.first = c.first /\ c.wb <= OveruseSize]
  IN  IF d.overuse \/ store = None THEN d
      ELSE IF d.first THEN CaughtUp(d)
      ELSE IF KeyAt(store) = {} THEN d
      ELSE CaughtUp(Copied([d EXCEPT !.first = TRUE],
                           store, LatestKey(store), LatestKey(store)))

\* get_miniblock_flv_header finds a header.  Otherwise it asks for a pull
\* (StreamGroups).
HasHeader == uploader /\ store # None

\* FlvLivePlayer::OnWrite.  Without a header it sleeps until the cache has one.
OnWrite(c) ==
  IF c.header THEN Fed(c)
  ELSE IF HasHeader
  THEN Fed([c EXCEPT !.header = TRUE, !.wb = @ + 1])
  ELSE [c EXCEPT !.w = FALSE]

\* CrossdomainLivePlayer::OnWrite: the answer, at every write event.
Answered(c) == IF c.wb < WbSize THEN [c EXCEPT !.wb = @ + 1] ELSE c

Served(c) == CASE c.asked = "flv" -> OnWrite(c)
               [] c.asked = "crossdomain" -> Answered(c)
               [] OTHER -> c

\* Faulty form, for the mutants: the write event is forgotten whenever
\* something was written.
SentAndAsleep(c, n) == [c EXCEPT !.wb = @ - n, !.w = FALSE]

\* After buffer_write_fd_max wrote n units.
Sent(c, n) ==
  IF c.wb > n THEN [c EXCEPT !.wb = @ - n]
  ELSE IF c.asked = "error" THEN Closed
  ELSE [c EXCEPT !.wb = 0, !.w = FALSE]

Init ==
  /\ store = None /\ uploader = FALSE /\ described = FALSE
  /\ conn = [v \in Viewers |-> Closed]
  /\ tags = 0 /\ stores = 0

\* OnSocketAcceptImpl.
Accept(v) ==
  /\ conn[v].asked = "closed"
  /\ conn' = [conn EXCEPT ![v] = NewConn]
  /\ UNCHANGED <<store, uploader, described, tags, stores>>

\* EV_READ on a connection that asked for nothing yet: a whole request.  A
\* part of one changes nothing.  A request for no stream closes at once.
Request(v) ==
  /\ conn[v].asked = "nothing"
  /\ \E what \in {"error", "crossdomain", "flv", "closed"} :
       conn' = [conn EXCEPT ![v] =
         CASE what = "closed" -> Closed
           [] what = "error"  -> [@ EXCEPT !.asked = what, !.w = TRUE, !.wb = 1]
           [] OTHER           -> [@ EXCEPT !.asked = what, !.w = TRUE]]
  /\ UNCHANGED <<store, uploader, described, tags, stores>>

\* More data after a bad request: it is still in rb, and answered again.
RequestAgain(v) ==
  /\ conn[v].asked = "error"
  /\ conn' = [conn EXCEPT ![v] = Answered([@ EXCEPT !.w = TRUE])]
  /\ UNCHANGED <<store, uploader, described, tags, stores>>

\* The peer closed, or reading or writing failed: LiveConnection::Destroy.
Hangup(v) ==
  /\ conn[v].asked # "closed"
  /\ conn' = [conn EXCEPT ![v] = Closed]
  /\ UNCHANGED <<store, uploader, described, tags, stores>>

\* EV_WRITE: OnWrite, then the socket takes n units of wb.
Write(v, n) ==
  /\ conn[v].w
  /\ LET c == Served(conn[v])
     IN  n <= c.wb /\ conn' = [conn EXCEPT ![v] = Sent(c, n)]
  /\ UNCHANGED <<store, uploader, described, tags, stores>>

\* ... as much as one event writes, or all there is.
WriteAll(v) ==
  \E n \in 0 .. SendMax :
    Write(v, n) /\ (n < SendMax => n = Served(conn[v]).wb)

\* The viewers that keep up have been served.
Quiescent == \A v \in Prompt : conn[v].asked = "flv" => ~conn[v].w

\* set_flv_header, from _write_header of the remuxer.
SetFlvHeader ==
  /\ Quiescent /\ store = None /\ uploader /\ described /\ stores < MaxStores
  /\ store' = [blocks |-> << >>, next |-> 0, quiet |-> 0]
  /\ stores' = stores + 1
  /\ conn' = Notified
  /\ UNCHANGED <<uploader, described, tags>>

\* set_flv_tag: the generator numbers the tag, the cache takes it.
SetFlvTag ==
  /\ Quiescent /\ store # None /\ uploader /\ described /\ tags < MaxTags
  /\ \E key \in BOOLEAN, dt \in Gaps :
       store' = [Pushed(store, Generated(store, key, dt)) EXCEPT !.next = @ + 1]
  /\ tags' = tags + 1
  /\ conn' = Notified
  /\ UNCHANGED <<uploader, described, stores>>

\* _check_stream_store_timeout and _destroy_stream_store.
TimedOut(s) == s.quiet = StoreTicks

\* OnTimerImpl: a store without tags for StoreTicks rings goes, and with it
\* the remuxer's stream; another loses the blocks that are too old.
OnTimer ==
  /\ Quiescent /\ store # None
  /\ store' = IF TimedOut(store) THEN None
              ELSE [Trimmed(store) EXCEPT !.quiet = @ + 1]
  /\ described' = (described /\ ~TimedOut(store))
  /\ UNCHANGED <<uploader, conn, tags, stores>>

\* The RTP side: an uploader opens or closes its transport.
Uploader ==
  /\ uploader' = ~uploader
  /\ UNCHANGED <<store, described, conn, tags, stores>>

\* ... and a description comes (set_sdp), or the RTP cache of the stream goes
\* after 20 s without packets (RtpCacheManager::OnTimerImpl); what comes then
\* is dropped until the next description.
Sdp ==
  /\ described' \in BOOLEAN
  /\ UNCHANGED <<store, uploader, conn, tags, stores>>

Next ==
  \/ \E v \in Viewers : 
       \/ Accept(v) \/ Request(v) \/ RequestAgain(v) \/ Hangup(v)
       \/ \E n \in 0 .. SendMax : Write(v, n)
  \/ SetFlvHeader \/ SetFlvTag \/ OnTimer \/ Uploader \/ Sdp

\* libevent reports a writable socket again and again; an uploader that stays
\* sends packets, and while these get through they make a header.
Fairness ==
  /\ \A v \in Prompt : WF_vars(WriteAll(v))
  /\ WF_vars(SetFlvHeader)

Spec == Init /\ [][Next]_vars /\ Fairness

----------------------------------------------------------------------------
(* Properties.                                                             *)

\* get_by_seq finds a block at its distance from the first: the numbers of a
\* cache are consecutive, its times do not go back, and trimming leaves the
\* last block, from which every cursor goes on.
NumbersAreDense ==
  store # None =>
    /\ \A i \in DOMAIN store.blocks :
         /\ store.blocks[i].seq = store.next - 1 - (Len(store.blocks) - i)
         /\ i > 1 => store.blocks[i - 1].ts <= store.blocks[i].ts
    /\ store.blocks = << >> => store.next = 0

\* Whatever is dropped, trimmed or made anew while a player sleeps or lags, it
\* never gets a tag twice nor an older one after a newer one.
SentInOrder ==
  \A v \in Viewers : LET seen == conn[v].seen
                     IN  \A i, j \in DOMAIN seen : i < j => seen[i].id < seen[j].id

\* The first tag of a player is one a decoder can start at.
StartsAtKey ==
  \A v \in Viewers : conn[v].seen # << >> => conn[v].seen[1].key

\* No lost wake-up: a player whose write event is not watched has all the
\* cache can give it.
NothingLeftUnsent ==
  \A v \in Viewers :
    LET c == conn[v]
    IN  c.asked = "flv" /\ c.header /\ ~c.w =>
          /\ c.wb = 0
          /\ store # None => IF c.first THEN ~Holds(store, c.latest + 1)
                             ELSE KeyAt(store) = {}

\* The cache is never trimmed past a player that keeps up, nor after a store
\* was made anew: it would wait for ever (get_by_seq finds nothing).
PromptKeepsUp ==
  \A v \in Prompt :
    conn[v].first /\ store # None =>
      store.blocks = << >> \/ Front(store).seq <= conn[v].latest + 1

\* The branch of OnWrite for a full buffer is dead: wb, which appending does
\* not expand, is smaller than the limit that enters it.
OveruseIsUnreachable ==
  WbSize <= OveruseSize => \A v \in Viewers : ~conn[v].overuse

\* A player that asked while there was no store gets its header when the
\* packets of an uploader get through, unless it or the uploader goes away, or
\* the RTP cache.  (After a store has timed out that takes a new SDP.)
ViewerStarts ==
  \A v \in Prompt :
    conn[v].asked = "flv" /\ uploader /\ described /\ store = None ~>
      \/ conn[v].header \/ conn[v].asked # "flv" \/ ~uploader \/ ~described
      \/ store = None /\ stores = MaxStores

\* The same of an uploader that stays after its store timed out, without the
\* wait for a new SDP.
UploaderSuffices ==
  \A v \in Prompt :
    conn[v].asked = "flv" /\ uploader /\ store = None /\ stores > 0 ~>
      \/ conn[v].header \/ conn[v].asked # "flv" \/ ~uploader
      \/ store = None /\ stores = MaxStores

\* flv_live_player.cpp:67 says that a player whose buffer was full goes on
\* from an IDR frame: a gap in what it gets from one store ends at a key tag.
GapsEndAtKeys ==
  \A v \in Viewers : LET seen == conn[v].seen
                     IN  \A i \in DOMAIN seen :
                           i > 1 /\ seen[i].seq > seen[i - 1].seq + 1 => seen[i].key
=============================================================================
