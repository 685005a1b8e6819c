---------------------------- MODULE Connections ----------------------------
(***************************************************************************)
(* The sockets of the RTP server: TCP connections and the time they have   *)
(* to ask for something, the UDP socket with its table of addresses, and   *)
(* what waits to be sent (connection_manager/RtpConnectionManager.cpp,     *)
(* connection_manager/RtpConnection.cpp, network/rtp_send_queue.cpp).      *)
(*                                                                         *)
(* One stream; when transports die, pull clients, and requests for another *)
(* stream are StreamGroups.  An action is one callback, or the handling of *)
(* one packet in it.  A message that waits to be sent is counted.          *)
(*                                                                         *)
(* A connection may ask again at any time.  One that asks again to upload  *)
(* is an uploader the request replaces: it is destroyed, and then opened   *)
(* anew without its socket, or its entry in the table.                     *)
(***************************************************************************)
EXTENDS Naturals, FiniteSets

CONSTANTS
  Tcp, Udp,     \* RtpConnection objects of the two managers
  Addrs, None,  \* addresses of UDP clients
  MaxAge,       \* 5: seconds a TCP connection has to ask for something
  MaxOut,       \* messages a wb holds
  MaxQueue      \* bound of the model: datagrams in m_send_queue

ASSUME ConnectionsAssumption ==
  /\ Tcp \cap Udp = {} /\ None \notin Tcp \cup Udp \cup Addrs
  /\ IsFiniteSet(Tcp) /\ IsFiniteSet(Udp)
  /\ MaxAge \in Nat /\ {MaxOut, MaxQueue} \subseteq Nat \ {0}

Conns == Tcp \cup Udp

\* What OnReadPacket tells apart; "bad" is a packet it cannot decode.
Packets == {"upload", "play", "response", "rtp", "bad"}

VARIABLE server

\* type: c->type, "free" before an object is created and when destroyed
\* sockets: TCP connections whose socket is open
\* group: the stream's connections, those whose c->trans is not NULL
\* waiting, age: RtpTcpManager::m_connections, seconds since create_time
\* timer: m_ev_timer is scheduled
\* table, remote: RtpUdpServerManager::m_connections, c->remote
\* wb, queued: messages in c->wb, datagrams in m_send_queue
\* watched: w_enabled of TCP connections and, for None, of the UDP socket
Servers ==
  [type : [Conns -> {"free", "unknown", "player", "uploader"}],
   sockets : SUBSET Tcp, group : SUBSET Conns,
   waiting : SUBSET Tcp, age : [Tcp -> 0 .. MaxAge + 1], timer : BOOLEAN,
   table : [Addrs -> Udp \cup {None}],
   remote : [Udp -> Addrs \cup {None}], wb : [Tcp -> 0 .. MaxOut],
   queued : Nat, watched : [Tcp \cup {None} -> BOOLEAN]]

Init ==
  server = [type |-> [c \in Conns |-> "free"], sockets |-> {}, group |-> {},
            waiting |-> {}, age |-> [c \in Tcp |-> 0], timer |-> FALSE,
            table |-> [a \in Addrs |-> None], remote |-> [c \in Udp |-> None],
            wb |-> [c \in Tcp |-> 0], queued |-> 0,
            watched |-> [x \in Tcp \cup {None} |-> x = None]]

Of(s, role) == {c \in s.group : s.type[c] = role}

----------------------------------------------------------------------------
(* What the callbacks have in common.  Each operator is the server after    *)
(* it, s the server before it.                                             *)

\* Faulty form, for the mutants: the timer runs on.
ForgottenOnly(s, gone) == [s EXCEPT !.waiting = @ \ gone]

\* RtpTcpManager::OnConnectionClosed: the timer ends with the last of them.
Forgotten(s, gone) ==
  [s EXCEPT !.waiting = @ \ gone,
            !.timer = @ /\ (gone \cap Tcp = {} \/ s.waiting \ gone # {})]

\* Faulty form, for the mutants: the entry of the address stays.
DestroyedButListed(s, gone) ==
  [Forgotten(s, gone) EXCEPT
     !.type = [c \in Conns |-> IF c \in gone THEN "free" ELSE @[c]],
     !.sockets = @ \ gone, !.group = @ \ gone,
     !.wb = [c \in Tcp |-> IF c \in gone THEN 0 ELSE @[c]],
     !.watched = [x \in Tcp \cup {None} |-> @[x] /\ x \notin gone]]

\* RtpConnection::Destroy of each member of "gone": the manager forgets it, a
\* UDP connection by its address, which may be another one's by now; and
\* _close_trans.
Destroyed(s, gone) ==
  [Forgotten(s, gone) EXCEPT
     !.table = [a \in Addrs |-> IF \E c \in gone \cap Udp : s.remote[c] = a
                                THEN None ELSE @[a]],
     !.type = [c \in Conns |-> IF c \in gone THEN "free" ELSE @[c]],
     !.sockets = @ \ gone, !.group = @ \ gone,
     !.remote = [c \in Udp |-> IF c \in gone THEN None ELSE @[c]],
     !.wb = [c \in Tcp |-> IF c \in gone THEN 0 ELSE @[c]],
     !.watched = [x \in Tcp \cup {None} |-> @[x] /\ x \notin gone]]

\* Faulty form, for the mutants: only the sockets of TCP connections are
\* watched.
SentUnwatched(s, targets) ==
  [s EXCEPT
     !.queued = @ + Cardinality(targets \cap Udp),
     !.wb = [c \in Tcp |-> IF c \in targets /\ @[c] < MaxOut THEN @[c] + 1 ELSE @[c]],
     !.watched = [x \in Tcp \cup {None} |-> @[x] \/ x \in targets]]

\* SendData of one message to each of "targets": one that does not fit in wb
\* is dropped, and the socket is watched in any case.
Sent(s, targets) ==
  [s EXCEPT
     !.queued = @ + Cardinality(targets \cap Udp),
     !.wb = [c \in Tcp |-> IF c \in targets /\ @[c] < MaxOut THEN @[c] + 1 ELSE @[c]],
     !.watched = [x \in Tcp \cup {None} |->
                    @[x] \/ x \in targets \/ (x = None /\ targets \cap Udp # {})]]

\* A request is granted: _open_trans, in which "gone" were destroyed, and the
\* answer.  If c was one of them it has its type, its address and its place
\* in the group again, and nothing else.
Opened(s, c, role, gone) ==
  LET t == Destroyed(s, gone)
  IN  Sent([t EXCEPT !.type[c] = role, !.group = @ \cup {c},
                     !.remote = [d \in Udp |-> IF d = c THEN s.remote[c] ELSE @[d]]],
           {c})

\* The uploaders _open_trans may destroy when c asks to upload, c with its new
\* type among them: at least the first (StreamGroups has the reason).
Replaced(s, c) ==
  LET up == Of(s, "uploader") \cup ({c} \cap s.group)
  IN  {gone \in SUBSET up : up # {} => gone # {}}

\* OnReadPacket of connection c: the servers it may lead to.
OnReadPacket(s, c, p) ==
  IF p = "bad" \/ (p = "rtp" /\ s.type[c] = "unknown") THEN {Destroyed(s, {c})}
  ELSE IF p = "play" THEN {Opened(s, c, "player", {})}
  ELSE IF p = "upload" THEN {Opened(s, c, "uploader", gone) : gone \in Replaced(s, c)}
  ELSE IF p = "rtp" THEN {Sent(s, Of(s, "player"))}
  ELSE {s}

----------------------------------------------------------------------------
(* TCP.                                                                    *)

\* OnSocketAcceptImpl, CreateConnection.
Accept(c) ==
  /\ server.type[c] = "free"
  /\ server' = [server EXCEPT !.type[c] = "unknown", !.sockets = @ \cup {c},
                              !.waiting = @ \cup {c}, !.age[c] = 0,
                              !.timer = TRUE, !.watched[c] = TRUE]

\* OnSocketDataImpl, EV_READ.  A connection that destroyed itself has no
\* socket, and its loop goes on with what is left in c->rb.
TcpRead(c, p) ==
  /\ server.type[c] # "free"
  /\ server' \in OnReadPacket(server, c, p)

\* OnSocketDataImpl, EV_WRITE: the socket takes some of wb.
TcpWrite(c) ==
  /\ c \in server.sockets /\ server.watched[c]
  /\ \E left \in 0 .. server.wb[c] :
       server' = [server EXCEPT !.wb[c] = left, !.watched[c] = left # 0]

\* The peer closes, a socket call fails (OnSocketDataImpl), as every one on a
\* socket that is closed does, or the transport is dead
\* (RTPTransManager::OnTimerImpl).
Close(c) == server.type[c] # "free" /\ server' = Destroyed(server, {c})

\* Faulty form, for the mutants: the timer is not set again.
CheckedOnce(s) ==
  LET silent == {c \in s.waiting : s.type[c] = "unknown"}
      old == {c \in silent : s.age[c] > MaxAge}
  IN  [Destroyed([s EXCEPT !.waiting = silent], old) EXCEPT !.timer = FALSE]

\* OnTimerImpl of RtpTcpManager: connections with a role are no longer its
\* business, those silent for too long are destroyed, the timer is set again
\* while any wait.
Checked(s) ==
  LET silent == {c \in s.waiting : s.type[c] = "unknown"}
      old == {c \in silent : s.age[c] > MaxAge}
  IN  [Destroyed([s EXCEPT !.waiting = silent], old) EXCEPT !.timer = silent # old]

TcpTimer == server.timer /\ server' = Checked(server)

\* A second passes.
Second ==
  server' = [server EXCEPT
    !.age = [c \in Tcp |-> IF c \in server.waiting /\ @[c] <= MaxAge THEN @[c] + 1 ELSE @[c]]]

----------------------------------------------------------------------------
(* UDP.                                                                    *)

\* Faulty form, for the mutants: an address is not looked up.
UdpReadAnew(a, c, p) ==
  /\ server.type[c] = "free"
  /\ LET s == [server EXCEPT !.table[a] = c, !.remote[c] = a, !.type[c] = "unknown"]
     IN  server' \in OnReadPacket(s, c, p)

\* OnRead of one datagram; an address that is not in the table gets a new
\* connection c first.
UdpRead(a, c, p) ==
  \/ server.table[a] = c /\ server' \in OnReadPacket(server, c, p)
  \/ /\ server.table[a] = None /\ server.type[c] = "free"
     /\ LET s == [server EXCEPT !.table[a] = c, !.remote[c] = a, !.type[c] = "unknown"]
        IN  server' \in OnReadPacket(s, c, p)

\* OnWrite: m_send_queue is emptied.
UdpWrite ==
  /\ server.watched[None]
  /\ server' = [server EXCEPT !.queued = 0, !.watched[None] = FALSE]

----------------------------------------------------------------------------
Next ==
  /\ \/ \E c \in Tcp : Accept(c) \/ TcpWrite(c)
     \/ \E c \in Tcp, p \in Packets : TcpRead(c, p)
     \/ \E c \in Conns : Close(c)
     \/ \E a \in Addrs, c \in Udp, p \in Packets : UdpRead(a, c, p)
     \/ UdpWrite \/ TcpTimer \/ Second
  /\ server'.queued <= MaxQueue

Spec == Init /\ [][Next]_server

\* The event loop runs the timer once a second, whatever the sockets do.
FairSpec == Spec /\ WF_server(Second) /\ WF_server(TcpTimer)

----------------------------------------------------------------------------
(* Properties.                                                             *)

\* Types of the server's state.
TypeOK == server \in Servers

\* m_ev_timer is scheduled exactly while connections wait (CreateConnection,
\* OnConnectionClosed, OnTimerImpl): otherwise a silent one would stay for
\* ever, or an event that is pending would be set up again.
TimerRunsWhileNeeded == server.timer <=> server.waiting # {}

\* What waits to be sent has its socket watched (SendData, OnSocketDataImpl,
\* OnWrite), if that is open: otherwise it would wait for the next message.
UnsentIsWatched ==
  /\ \A c \in server.sockets : server.wb[c] > 0 => server.watched[c]
  /\ server.queued > 0 => server.watched[None]

\* No address leads to a destroyed connection or to one of another address,
\* though OnConnectionClosed erases by address, several connections may have
\* had the same one, and uploaders are destroyed while another is read.
AddressesLeadToConnections ==
  \A a \in Addrs : server.table[a] # None =>
    server.type[server.table[a]] # "free" /\ server.remote[server.table[a]] = a

\* A UDP connection nothing leads to any more: datagrams of its address go to
\* a new one, until its transport is dead.
Lost(s, c) == s.type[c] # "free" /\ s.table[s.remote[c]] # c

LosesOnlyRepeaters ==
  \A c \in Udp : ~Lost(server, c) /\ Lost(server, c)' =>
    \/ c \in server.group /\ \E a \in Addrs : UdpRead(a, c, "upload")
    \/ \E d \in Udp \ {c} : Lost(server, d) /\ server.remote[d] = server'.remote[c]

\* A UDP connection loses its entry in the table without being destroyed only
\* when it asks again to upload, or when one of the same address, that was
\* lost before, is closed: connections that come, are refused, replaced and
\* dropped at other addresses never make it unreachable.
OnlyRepeatersAreLost == [][LosesOnlyRepeaters]_server

\* A TCP connection that asks for nothing is dropped (OnTimerImpl), however
\* many others come and go.
SilentAreDropped ==
  \A c \in Tcp : server.type[c] = "unknown" ~> server.type[c] # "unknown"

\* The comment of rtp_trans_manager.cpp:182, "destroy the previous upload
\* first", means another connection: one that is open can be reached.
OpenAreReached == \A c \in Udp : ~Lost(server, c)
=============================================================================
