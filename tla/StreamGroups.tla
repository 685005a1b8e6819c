---------------------------- MODULE StreamGroups ----------------------------
(***************************************************************************)
(* The uploader and the players of each stream, and the client that pulls  *)
(* a stream from the next node when a player wants it and nobody uploads:  *)
(*   rtp_trans/rtp_trans_manager.cpp                 groups, transports     *)
(*   connection_manager/RtpConnection{,Manager}.cpp  connections, SDP/HTTP  *)
(*   media_manager/rtp_block_cache.cpp               life of a cache        *)
(*   relay/RtpRelay.cpp, common/TaskManager.cpp      pull clients           *)
(*                                                                         *)
(* All of it runs in one event loop: an action is one callback.  Time is   *)
(* counted in ticks a little longer than 10 s, so "more than 10 s ago" is  *)
(* one tick; a limit is the number of ticks after which it has passed.     *)
(* A connection's packets matter only by when they come.                   *)
(*                                                                         *)
(* OnReadPacket takes any request of a connection at any time, also a      *)
(* second one, for the same stream or another, in the same role or the     *)
(* other.  A connection that asks for another stream stays in the group of *)
(* the old one, and nothing takes it out: a member that has moved.  When   *)
(* its transport is closed, the process dies of the next use of it.        *)
(***************************************************************************)
EXTENDS Naturals

CONSTANTS
  Streams,
  Clients,       \* RtpConnection objects of uploaders and players
  PullConns,     \* RtpConnection objects pull clients create
  Requests,      \* pending HTTP requests for an SDP
  Viewers,       \* HTTP-FLV players
  NoConn, None,
  SessionTicks,  \* session_timeout: a transport without packets is dead
  UselessTicks,  \* the grace period of a new pull client
  CacheTicks,    \* 20 s: a cache, or an FLV store, without packets is dropped
  RetryTicks     \* 30 s: a pull client may retry at once

\* A pull client: its HTTP request is in flight, m_rtp_connection, ticks
\* since m_last_retry_time and since m_start_time.
PullClient ==
  [http : BOOLEAN, con : PullConns \cup {NoConn},
   retry : 0 .. RetryTicks, start : 0 .. UselessTicks]

ASSUME ConnAssumption ==
  /\ Clients \cap PullConns = {} /\ NoConn \notin Clients \cup PullConns
  /\ None \notin Nat \cup Streams \cup PullClient
  /\ {SessionTicks, UselessTicks, CacheTicks, RetryTicks} \subseteq Nat \ {0}

Conns == Clients \cup PullConns

VARIABLES
  type,      \* c->type; a destroyed object that is in no group is "free", and
             \* may be created again
  stream,    \* c->streamid
  trans,     \* the connections whose c->trans is not NULL
  group,     \* m_stream_groups
  attached,  \* connections their socket or m_connections leads to
  heard,     \* transports with a session for the stream's packets
  idle,      \* ticks since the transport's sessions were last kept alive
  puller,    \* RtpPullTcpManager::m_clients
  cache,     \* RtpCacheManager::m_caches: ticks since _push_active
  store,     \* the FLV store of the stream: ticks since a tag was pushed
  waiters,   \* m_sdp_requests
  viewers,   \* LiveConnectionManager::m_stream_groups
  pullDue    \* the 10 s timer of RtpPullTcpManager is due

conns == <<type, stream, trans, group, attached, heard, idle>>
media == <<cache, store, waiters>>
vars  == <<conns, puller, media, viewers, pullDue>>

TypeOK ==
  /\ type \in [Conns -> {"free", "player", "uploader"}]
  /\ stream \in [Conns -> Streams \cup {None}]
  /\ trans \subseteq Conns /\ attached \subseteq Conns /\ heard \subseteq Conns
  /\ group \in [Streams -> SUBSET Conns]
  /\ idle \in [Conns -> 0 .. SessionTicks]
  /\ puller \in [Streams -> PullClient \cup {None}]
  /\ cache \in [Streams -> 0 .. CacheTicks \cup {None}]
  /\ store \in [Streams -> 0 .. CacheTicks \cup {None}]
  /\ waiters \in [Streams -> SUBSET Requests]
  /\ viewers \in [Streams -> SUBSET Viewers]
  /\ pullDue \in BOOLEAN

Members(s, t) == {c \in group[s] : type[c] = t}

HasPlayer(s)   == Members(s, "player") # {}
HasUploader(s) == Members(s, "uploader") # {}

----------------------------------------------------------------------------
(* The pull client.  "started" says whether evhttp_make_request succeeded; *)
(* when it fails, OnError calls Start again, within RetryTicks.            *)

\* Start.  A retry within RetryTicks of the last one is posted to
\* TaskManger, which has no event base (TaskManger::Init has no caller), so
\* that the posted GetNextNode never runs.
Start(cl, started) ==
  IF cl.retry >= RetryTicks
  THEN [cl EXCEPT !.con = NoConn, !.http = started, !.retry = 0]
  ELSE [cl EXCEPT !.con = NoConn]

\* StartPull(streamid), when the condition holds.
StartPull(s, condition, started) ==
  IF condition /\ puller[s] = None
  THEN [puller EXCEPT ![s] =
          [http |-> started, con |-> NoConn, retry |-> 0, start |-> 0]]
  ELSE puller

\* RtpPullTcpManager::OnConnectionClosed of the connections of "gone".
Restarted(pull, gone, started) ==
  [s \in Streams |->
     IF pull[s] # None /\ \E c \in gone \cap PullConns : stream[c] = s
     THEN Start(pull[s], started) ELSE pull[s]]

----------------------------------------------------------------------------
(* Transports.                                                             *)

\* The groups after RtpConnection::Destroy of the members of "gone", when
\* the connections ask for the streams "of": _close_trans takes each out of
\* that one group, and does nothing without a transport.
GroupsWithout(gone, of) ==
  [s \in Streams |-> {c \in group[s] : ~(c \in gone \cap trans /\ of[c] = s)}]

\* Destroying a connection that its socket or address no longer leads to may
\* take the entry of its address from a newer connection (Connections has
\* the addresses): the sets of these.
Taken(gone) ==
  {taken \in SUBSET Clients : gone \subseteq attached => taken = {}}

\* Of "gone", those nothing refers to any more; a new object is zeroed.
Freed(gone) == {c \in gone : \A s \in Streams : c \notin group'[s]}

\* Faulty form, for the mutants: the connection stays in its group.
CloseTransOnly(gone) ==
  /\ trans' = trans \ gone
  /\ attached' = attached \ gone
  /\ heard' = heard \ gone
  /\ idle' = [c \in Conns |-> IF c \in gone THEN 0 ELSE idle[c]]
  /\ UNCHANGED <<type, stream, group>>

\* RtpConnection::Destroy of each member of "gone": OnConnectionClosed of
\* its manager, and _close_trans.
Close(gone) ==
  /\ group' = GroupsWithout(gone, stream)
  /\ trans' = trans \ gone
  /\ \E taken \in Taken(gone) : attached' = attached \ (gone \cup taken)
  /\ type' = [c \in Conns |-> IF c \in Freed(gone) THEN "free" ELSE type[c]]
  /\ stream' = [c \in Conns |-> IF c \in Freed(gone) THEN None ELSE stream[c]]
  /\ heard' = heard \ gone
  /\ idle' = [c \in Conns |-> IF c \in gone THEN 0 ELSE idle[c]]

\* Faulty forms, for the mutants: nobody is replaced; players are as well.
ReplaceNobody(c, s) == {{}}

ReplaceAll(c, s) == {gone \in SUBSET group[s] : HasUploader(s) => gone # {}}

\* The uploaders the loop of _open_trans destroys when c asks to upload s: c
\* has its new type and stream by then, and is destroyed like the others if
\* it is in the group.  Destroying one whose stream is s erases the element
\* the iterator stands on: which of the others the loop visits then is
\* undefined.
Replaced(c, s) ==
  LET up  == Members(s, "uploader") \cup ({c} \cap group[s])
      own == {u \in up : u = c \/ stream[u] = s}
  IN  {gone \in SUBSET up : IF own = {} THEN gone = up ELSE gone \cap own # {}}

\* _open_trans on connection c, of type t, for stream s, after "gone" were
\* destroyed in it; c keeps its place in the groups of other streams, and is
\* no longer reached by its socket or its address if it was among "gone".
Open(c, t, s, gone) ==
  /\ group' = [GroupsWithout(gone, [stream EXCEPT ![c] = s]) EXCEPT ![s] = @ \cup {c}]
  /\ trans' = (trans \ gone) \cup {c}
  /\ LET new == {x \in {c} : type[x] = "free"}
     IN  \E taken \in Taken(gone) : attached' = (attached \cup new) \ (gone \cup taken)
  /\ type' = [x \in Conns |->
       IF x = c THEN t ELSE IF x \in Freed(gone) THEN "free" ELSE type[x]]
  /\ stream' = [x \in Conns |->
       IF x = c THEN s ELSE IF x \in Freed(gone) THEN None ELSE stream[x]]
  /\ heard' = heard \ (gone \cup {c})
  /\ idle' = [x \in Conns |-> IF x = c \/ x \in gone THEN 0 ELSE idle[x]]

\* A new connection, or one that has asked before; also one that destroyed
\* itself and was opened again, whose c->rb the loop reads to its end.
MayRequest(c) == type[c] = "free" \/ c \in trans

\* Some member of a group has no transport.
Doomed == \E s \in Streams : ~(group[s] \subseteq trans)

----------------------------------------------------------------------------
Init ==
  /\ type = [c \in Conns |-> "free"]
  /\ stream = [c \in Conns |-> None]
  /\ trans = {} /\ attached = {} /\ heard = {}
  /\ group = [s \in Streams |-> {}]
  /\ idle = [c \in Conns |-> 0]
  /\ puller = [s \in Streams |-> None]
  /\ cache = [s \in Streams |-> None]
  /\ store = [s \in Streams |-> None]
  /\ waiters = [s \in Streams |-> {}]
  /\ viewers = [s \in Streams |-> {}]
  /\ pullDue = FALSE

\* CMD_RTP_U2R_REQ_STATE
UploadRequest(c, s) ==
  /\ MayRequest(c)
  /\ \E gone \in Replaced(c, s), started \in BOOLEAN :
       /\ Open(c, "uploader", s, gone)
       /\ puller' = Restarted(puller, gone, started)
  /\ UNCHANGED <<media, viewers, pullDue>>

\* CMD_RTP_D2P_REQ_STATE: get_sdp starts a pull when there is no cache,
\* _open_trans when there is no uploader.
PlayRequest(c, s) ==
  /\ MayRequest(c)
  /\ Open(c, "player", s, {})
  /\ \E started \in BOOLEAN :
       puller' = StartPull(s, cache[s] = None \/ ~HasUploader(s), started)
  /\ UNCHANGED <<media, viewers, pullDue>>

\* An RTP packet on a connection with a transport.  A packet the cache
\* refuses leaves _push_active; one the remuxer makes a tag of reaches the
\* FLV store.  A player hears of it by its first session being created.
RtpPacket(c) ==
  LET s == stream[c]
  IN  /\ c \in trans /\ Members(s, "player") \subseteq trans
      /\ \E stored, tagged \in BOOLEAN :
           /\ stored \/ tagged => cache[s] # None
           /\ cache' = IF stored THEN [cache EXCEPT ![s] = 0] ELSE cache
           /\ store' = IF tagged THEN [store EXCEPT ![s] = 0] ELSE store
      /\ heard' = heard \cup {c} \cup Members(s, "player")
      /\ idle' = [x \in Conns |->
                    IF x = c \/ x \in Members(s, "player") \ heard THEN 0 ELSE idle[x]]
      /\ UNCHANGED <<type, stream, trans, group, attached, puller, waiters, viewers, pullDue>>

\* An RTCP packet on a connection with a transport; the BYE of its last
\* session makes the transport dead at the next timer.
RtcpPacket(c) ==
  /\ c \in trans
  /\ \E age \in {0, SessionTicks} : idle' = [idle EXCEPT ![c] = age]
  /\ UNCHANGED <<type, stream, trans, group, attached, heard, puller, media, viewers, pullDue>>

\* The peer closes its socket, or sends a packet OnReadPacket rejects, or
\* writing to a socket that is closed already fails.
Disconnect(c) ==
  /\ c \in trans
  /\ Close({c})
  /\ \E started \in BOOLEAN : puller' = Restarted(puller, {c}, started)
  /\ UNCHANGED <<media, viewers, pullDue>>

Dead == {c \in UNION {group[s] : s \in Streams} : idle[c] >= SessionTicks}

\* RTPTransManager::OnTimerImpl, every 10 ms.
TransTimer ==
  /\ Dead # {} /\ ~Doomed
  /\ Close(Dead)
  /\ \E started \in BOOLEAN : puller' = Restarted(puller, Dead, started)
  /\ UNCHANGED <<media, viewers, pullDue>>

\* OnTimerImpl, ForwardRtp or set_sdp_char, whichever is first, calls a
\* method of a transport that is NULL.  The process dies, and cron starts it
\* again (scripts/add_cron_rtp.sh).
Crash ==
  /\ Doomed
  /\ type' = [c \in Conns |-> "free"]
  /\ stream' = [c \in Conns |-> None]
  /\ trans' = {} /\ attached' = {} /\ heard' = {}
  /\ group' = [s \in Streams |-> {}]
  /\ idle' = [c \in Conns |-> 0]
  /\ puller' = [s \in Streams |-> None]
  /\ cache' = [s \in Streams |-> None]
  /\ store' = [s \in Streams |-> None]
  /\ waiters' = [s \in Streams |-> {}]
  /\ viewers' = [s \in Streams |-> {}]
  /\ pullDue' = FALSE

----------------------------------------------------------------------------
(* SDP over HTTP, and the caches.                                          *)

\* Faulty form, for the mutants: the watchers are not told.
SetSdpSilently(s) ==
  /\ cache' = [cache EXCEPT ![s] = 0]
  /\ UNCHANGED <<store, waiters>>

\* RtpCacheManager::set_sdp and its watcher, RtpSdpHttpHandler::OnSdp, that
\* answers every pending request; then the time bases of the transports.
SetSdp(s) ==
  /\ group[s] \subseteq trans
  /\ cache' = [cache EXCEPT ![s] = 0]
  /\ waiters' = [waiters EXCEPT ![s] = {}]
  /\ UNCHANGED store

PutSdp(s) == SetSdp(s) /\ UNCHANGED <<conns, puller, viewers, pullDue>>

\* HttpDownloadSdpHander: answered at once when there is a cache; otherwise
\* get_sdp starts a pull and the request waits.
DownloadSdp(r, s) ==
  /\ cache[s] = None
  /\ \A x \in Streams : r \notin waiters[x]
  /\ waiters' = [waiters EXCEPT ![s] = @ \cup {r}]
  /\ \E started \in BOOLEAN : puller' = StartPull(s, TRUE, started)
  /\ UNCHANGED <<conns, cache, store, viewers, pullDue>>

\* OnHttpConnectionClosed
GiveUp(r, s) ==
  /\ r \in waiters[s]
  /\ waiters' = [waiters EXCEPT ![s] = @ \ {r}]
  /\ UNCHANGED <<conns, puller, cache, store, viewers, pullDue>>

\* RtpCacheManager::OnTimerImpl, every 10 ms.
CacheTimer ==
  /\ \E s \in Streams : cache[s] = CacheTicks
  /\ cache' = [s \in Streams |-> IF cache[s] = CacheTicks THEN None ELSE cache[s]]
  /\ UNCHANGED <<conns, puller, store, waiters, viewers, pullDue>>

\* An HTTP-FLV player joins: get_miniblock_flv_header.
ViewerJoins(v, s) ==
  /\ \A x \in Streams : v \notin viewers[x]
  /\ viewers' = [viewers EXCEPT ![s] = @ \cup {v}]
  /\ \E started \in BOOLEAN :
       puller' = StartPull(s, ~HasUploader(s) \/ store[s] = None, started)
  /\ UNCHANGED <<conns, media, pullDue>>

ViewerLeaves(v, s) ==
  /\ v \in viewers[s]
  /\ viewers' = [viewers EXCEPT ![s] = @ \ {v}]
  /\ UNCHANGED <<conns, puller, media, pullDue>>

----------------------------------------------------------------------------
(* The rest of the pull client.                                            *)

\* The connection of a pull client is its only reference: no connection, or
\* a set with one member.
ConnectionOf(s) ==
  IF puller[s] = None \/ puller[s].con = NoConn THEN {} ELSE {puller[s].con}

\* Faulty form, for the mutants: the client goes, its connection stays.
StopPullOnly(stopped) ==
  /\ puller' = [s \in Streams |-> IF s \in stopped THEN None ELSE puller[s]]
  /\ UNCHANGED conns

\* StopPull of each stream: the client is erased first, so that closing its
\* connection, in its destructor, does not start it again.
StopPull(stopped) ==
  /\ puller' = [s \in Streams |-> IF s \in stopped THEN None ELSE puller[s]]
  /\ Close(UNION {ConnectionOf(s) : s \in stopped})

\* The HTTP request fails, or set_sdp_str does.
SdpFails(s) ==
  /\ puller[s] # None /\ puller[s].http
  /\ \E started \in BOOLEAN :
       puller' = [puller EXCEPT ![s] = Start([@ EXCEPT !.http = FALSE], started)]
  /\ UNCHANGED <<conns, media, viewers, pullDue>>

\* OnSdpImpl with the SDP, and ConnectRtpServer with connection c; without
\* one, connect() failed.  Destroying the uploader c replaces may start the
\* client again when that uploader was a pull connection too.
SdpArrives(s, c) ==
  /\ puller[s] # None /\ puller[s].http
  /\ SetSdp(s)
  /\ LET answered == [puller[s] EXCEPT !.http = FALSE]
     IN  \E started \in BOOLEAN :
           \/ /\ c = NoConn
              /\ puller' = [puller EXCEPT ![s] = Start(answered, started)]
              /\ UNCHANGED conns
           \/ /\ c # NoConn /\ type[c] = "free"
              /\ \E gone \in Replaced(c, s) :
                   /\ Open(c, "uploader", s, gone)
                   /\ puller' = Restarted([puller EXCEPT ![s] = [answered EXCEPT !.con = c]],
                                          gone, started)
  /\ UNCHANGED <<viewers, pullDue>>

\* Faulty form, for the mutants: nobody is useless while its stream is
\* uploaded, and a pull connection uploads.
UselessUnlessUploaded(s) ==
  /\ puller[s] # None /\ viewers[s] = {} /\ ~HasPlayer(s) /\ ~HasUploader(s)
  /\ puller[s].start >= UselessTicks

IsUseless(s) ==
  /\ puller[s] # None /\ viewers[s] = {} /\ ~HasPlayer(s)
  /\ puller[s].start >= UselessTicks

\* RtpPullTcpManager::OnPullTimerImpl, every 10 s.
PullTimer ==
  /\ pullDue /\ pullDue' = FALSE
  /\ StopPull({s \in Streams : IsUseless(s)})
  /\ UNCHANGED <<media, viewers>>

\* FlvCacheManager::OnTimerImpl: _destroy_stream_store of a store without
\* tags for 20 s also stops the pull of its stream.
StoreTimer(s) ==
  /\ store[s] = CacheTicks
  /\ store' = [store EXCEPT ![s] = None]
  /\ StopPull({s})
  /\ UNCHANGED <<cache, waiters, viewers, pullDue>>

----------------------------------------------------------------------------
\* Faulty form, for the mutants: an age counts one tick too many.
OlderByOne(age, limit) == IF age = None \/ age > limit THEN age ELSE age + 1

\* An age after a tick; past its limit it no longer matters.
Older(age, limit) == IF age = None \/ age >= limit THEN age ELSE age + 1

\* A tick passes.  The 10 ms timers have run by then, and the 10 s timer too.
Tick ==
  /\ ~pullDue /\ pullDue' = TRUE
  /\ Dead = {} /\ ~Doomed /\ \A s \in Streams : cache[s] # CacheTicks
  /\ idle' = [c \in Conns |-> IF c \in trans THEN Older(idle[c], SessionTicks) ELSE 0]
  /\ cache' = [s \in Streams |-> Older(cache[s], CacheTicks)]
  /\ store' = [s \in Streams |-> Older(store[s], CacheTicks)]
  /\ puller' = [s \in Streams |->
       IF puller[s] = None THEN None
       ELSE [puller[s] EXCEPT !.retry = Older(@, RetryTicks),
                              !.start = Older(@, UselessTicks)]]
  /\ UNCHANGED <<type, stream, trans, group, attached, heard, waiters, viewers>>

Next ==
  \/ \E c \in Clients, s \in Streams : UploadRequest(c, s) \/ PlayRequest(c, s)
  \/ \E c \in Conns : RtpPacket(c) \/ RtcpPacket(c) \/ Disconnect(c)
  \/ \E s \in Streams : PutSdp(s) \/ SdpFails(s) \/ StoreTimer(s)
  \/ \E s \in Streams, r \in Requests : DownloadSdp(r, s) \/ GiveUp(r, s)
  \/ \E s \in Streams, v \in Viewers : ViewerJoins(v, s) \/ ViewerLeaves(v, s)
  \/ \E s \in Streams, c \in PullConns \cup {NoConn} : SdpArrives(s, c)
  \/ TransTimer \/ CacheTimer \/ PullTimer \/ Tick \/ Crash

Spec == Init /\ [][Next]_vars

\* The event loop runs every timer that is due, time passes (however many
\* packets a peer sends in the meantime), and libevent completes every HTTP
\* request, with the SDP or without.
Fairness ==
  /\ SF_vars(Tick) /\ WF_vars(PullTimer) /\ WF_vars(CacheTimer)
  /\ WF_vars(TransTimer) /\ WF_vars(Crash)
  /\ \A s \in Streams :
       /\ WF_vars(StoreTimer(s))
       /\ WF_vars(SdpFails(s) \/ \E c \in PullConns \cup {NoConn} : SdpArrives(s, c))

FairSpec == Spec /\ Fairness

----------------------------------------------------------------------------
\* Every transport is in the group of its stream, so that the 10 ms timer
\* times it out, and a member without a transport, of which the process dies,
\* is one that asked for another stream: uploads, pulls, time-outs, closed
\* sockets and repeated requests leave none, though all of them close
\* transports and OnTimerImpl, ForwardRtp and set_sdp_char use c->trans of
\* every member without a test.
ClosedMembersMoved ==
  /\ \A c \in trans : \E s \in Streams : stream[c] = s /\ c \in group[s]
  /\ \A s \in Streams : \A c \in group[s] \ trans : stream[c] # s

\* m_rtp_connection is the one pull connection of its stream: it never
\* dangles (its destructor destroys it), and no pull connection is orphaned,
\* which StopPull could then not stop, though Start forgets the pointer and
\* replacing an uploader may restart the client that replaces it.
PullConnectionKnown ==
  \A s \in Streams : Members(s, "uploader") \cap PullConns = ConnectionOf(s)

\* Nobody waits for an SDP the cache has: a request that arrives after the
\* SDP is answered by the handler, one that arrives before by the watcher.
NobodyWaitsForKnownSdp ==
  \A s \in Streams : waiters[s] # {} => cache[s] = None

OneUploader(s) ==
  \A c, d \in Members(s, "uploader") : stream[c] = s /\ stream[d] = s => c = d

KeepsOneUploader ==
  \A s \in Streams : OneUploader(s) =>
    \/ OneUploader(s)'
    \/ \E c \in group[s] \cap Clients : UploadRequest(c, s)

\* However uploads, pulled connections, time-outs, closed sockets and
\* requests for other streams follow each other, a stream that has one
\* uploader gets a second one only when a member of its own group asks to
\* upload: the loop of _open_trans may stop at that member.
NewcomerReplaces == [][KeepsOneUploader]_vars

\* A player loses its transport only by its own silence or its own socket,
\* or with the process: never because an uploader is replaced or a pull is
\* stopped.
PlayersAreKept ==
  [][\A c \in Clients :
       type[c] = "player" /\ c \in trans \ trans' => c \in Dead \/ Disconnect(c) \/ Crash]_vars

\* The comment of RtpRelay.cpp:109: when nobody plays a stream any more, its
\* pull is cut.
UselessPullStops ==
  \A s \in Streams :
    <>[](viewers[s] = {} /\ ~HasPlayer(s)) => []<>(puller[s] = None)

\* The log line of RtpConnectionManager.cpp:192: a request that finds no SDP
\* waits for the relay, so there is a relay.
WaitersHaveAPull == \A s \in Streams : waiters[s] # {} => puller[s] # None

\* The comment of RtpRelay.cpp:86-89: a pull that failed is retried, after
\* 1, 2, 4, 8, 8 ... seconds.
FailedPullIsRetried ==
  \A s \in Streams :
    (puller[s] # None /\ ~puller[s].http /\ puller[s].con = NoConn)
      ~> (puller[s] = None \/ puller[s].http \/ puller[s].con # NoConn \/ HasUploader(s))

\* The comment of rtp_trans_manager.cpp:182, "destroy the previous upload
\* first": a stream has one uploader.
StreamsHaveOneUploader == \A s \in Streams : OneUploader(s)

\* The same comment means another connection: every member of a group can
\* still be reached through its socket or its address.
MembersAttached == \A s \in Streams : group[s] \subseteq attached

\* The timer's c->trans->on_timer (rtp_trans_manager.cpp:315) takes it that
\* a member has a transport.
GroupsAreOpen == \A s \in Streams : group[s] \subseteq trans

=============================================================================
