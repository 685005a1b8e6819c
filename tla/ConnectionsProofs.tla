------------------------- MODULE ConnectionsProofs -------------------------
(***************************************************************************)
(* Proofs of the safety properties of Connections, for any connections,    *)
(* addresses and bounds.  The handlers are functions of the server's       *)
(* state, so that each part of the invariant is shown, first, to survive   *)
(* what they are built from: Destroyed, Sent, Opened.                      *)
(***************************************************************************)
EXTENDS Connections, FiniteSetTheorems, TLAPS

Timed(s) == s.timer <=> s.waiting # {}

Watched(s) ==
  /\ \A c \in Tcp : s.wb[c] > 0 => s.watched[c]
  /\ s.queued > 0 => s.watched[None]

\* The first conjunct is what makes the second inductive: an open connection
\* has an address, though its entry in the table may be gone.
Addressed(s) ==
  /\ \A c \in Udp : s.type[c] # "free" => s.remote[c] \in Addrs
  /\ \A a \in Addrs : s.table[a] # None =>
       s.type[s.table[a]] # "free" /\ s.remote[s.table[a]] = a

Good(s) == s \in Servers /\ Timed(s) /\ Watched(s) /\ Addressed(s)

----------------------------------------------------------------------------
(* The fields of what the operators return.                                *)

\* Destroyed, field by field (RtpConnection::Destroy).
LEMMA DestroyedFields ==
  ASSUME NEW s \in Servers, NEW gone \in SUBSET Conns
  PROVE  LET t == Destroyed(s, gone)
         IN  /\ t \in Servers
             /\ t.waiting = s.waiting \ gone
             /\ t.timer = (s.timer /\ (gone \cap Tcp = {} \/ s.waiting \ gone # {}))
             /\ t.age = s.age /\ t.queued = s.queued
             /\ t.sockets = s.sockets \ gone /\ t.group = s.group \ gone
             /\ \A a \in Addrs : t.table[a] =
                  IF \E c \in gone \cap Udp : s.remote[c] = a THEN None ELSE s.table[a]
             /\ \A c \in Conns : t.type[c] = IF c \in gone THEN "free" ELSE s.type[c]
             /\ \A c \in Udp : t.remote[c] = IF c \in gone THEN None ELSE s.remote[c]
             /\ \A c \in Tcp : t.wb[c] = IF c \in gone THEN 0 ELSE s.wb[c]
             /\ \A x \in Tcp \cup {None} : (t.watched[x] <=> s.watched[x] /\ x \notin gone)
<1>1. /\ Forgotten(s, gone) \in Servers
      /\ Forgotten(s, gone).waiting = s.waiting \ gone
      /\ Forgotten(s, gone).timer = (s.timer /\ (gone \cap Tcp = {} \/ s.waiting \ gone # {}))
      /\ Forgotten(s, gone).age = s.age /\ Forgotten(s, gone).queued = s.queued
      /\ Forgotten(s, gone).sockets = s.sockets
      /\ Forgotten(s, gone).group = s.group /\ Forgotten(s, gone).table = s.table
      /\ Forgotten(s, gone).type = s.type /\ Forgotten(s, gone).remote = s.remote
      /\ Forgotten(s, gone).wb = s.wb /\ Forgotten(s, gone).watched = s.watched
  BY DEF Forgotten, Servers
<1>2. MaxOut \in Nat
  BY ConnectionsAssumption
<1> DEFINE f == Forgotten(s, gone)
           tab == [a \in Addrs |-> IF \E c \in gone \cap Udp : s.remote[c] = a
                                   THEN None ELSE f.table[a]]
           typ == [c \in Conns |-> IF c \in gone THEN "free" ELSE f.type[c]]
           rem == [c \in Udp |-> IF c \in gone THEN None ELSE f.remote[c]]
           buf == [c \in Tcp |-> IF c \in gone THEN 0 ELSE f.wb[c]]
           wat == [x \in Tcp \cup {None} |-> f.watched[x] /\ x \notin gone]
<1>3. Destroyed(s, gone) =
        [f EXCEPT !.table = tab, !.type = typ, !.sockets = @ \ gone,
                  !.group = @ \ gone, !.remote = rem, !.wb = buf, !.watched = wat]
  BY DEF Destroyed
<1>4. /\ tab \in [Addrs -> Udp \cup {None}]
      /\ typ \in [Conns -> {"free", "unknown", "player", "uploader"}]
      /\ rem \in [Udp -> Addrs \cup {None}]
      /\ buf \in [Tcp -> 0 .. MaxOut]
      /\ wat \in [Tcp \cup {None} -> BOOLEAN]
  <2>1. tab \in [Addrs -> Udp \cup {None}]
    BY <1>1 DEF Servers
  <2>2. typ \in [Conns -> {"free", "unknown", "player", "uploader"}]
    BY <1>1 DEF Servers
  <2>3. rem \in [Udp -> Addrs \cup {None}]
    BY <1>1 DEF Servers
  <2>4. buf \in [Tcp -> 0 .. MaxOut]
    BY <1>1, <1>2 DEF Servers
  <2>5. wat \in [Tcp \cup {None} -> BOOLEAN]
    OBVIOUS
  <2> QED BY <2>1, <2>2, <2>3, <2>4, <2>5
<1>5. f \in Servers
  BY <1>1
<1> HIDE DEF f, tab, typ, rem, buf, wat
<1>6. /\ Destroyed(s, gone) \in Servers
      /\ Destroyed(s, gone).table = tab /\ Destroyed(s, gone).type = typ
      /\ Destroyed(s, gone).remote = rem /\ Destroyed(s, gone).wb = buf
      /\ Destroyed(s, gone).watched = wat /\ Destroyed(s, gone).group = f.group \ gone
      /\ Destroyed(s, gone).sockets = f.sockets \ gone
      /\ Destroyed(s, gone).waiting = f.waiting /\ Destroyed(s, gone).timer = f.timer
      /\ Destroyed(s, gone).age = f.age /\ Destroyed(s, gone).queued = f.queued
  <2>1. f.group \ gone \in SUBSET Conns /\ f.sockets \ gone \in SUBSET Tcp
    BY <1>5 DEF Servers
  <2>2. Destroyed(s, gone) \in Servers
    BY <1>3, <1>4, <1>5, <2>1 DEF Servers
  <2> QED BY <1>3, <1>5, <2>2 DEF Servers
<1>7. \A x \in Tcp \cup {None} :
        Destroyed(s, gone).watched[x] <=> s.watched[x] /\ x \notin gone
  BY <1>1, <1>6 DEF f, wat
<1> QED BY <1>1, <1>6, <1>7 DEF f, tab, typ, rem, buf

\* Sent, field by field (SendData).
LEMMA SentFields ==
  ASSUME NEW s \in Servers, NEW targets \in SUBSET Conns
  PROVE  LET t == Sent(s, targets)
         IN  /\ t \in Servers
             /\ t.queued = s.queued + Cardinality(targets \cap Udp)
             /\ Cardinality(targets \cap Udp) \in Nat
             /\ targets \cap Udp = {} => Cardinality(targets \cap Udp) = 0
             /\ t.type = s.type /\ t.group = s.group /\ t.waiting = s.waiting
             /\ t.age = s.age /\ t.timer = s.timer /\ t.table = s.table
             /\ t.remote = s.remote
             /\ \A c \in Tcp : t.wb[c] = IF c \in targets /\ s.wb[c] < MaxOut
                                         THEN s.wb[c] + 1 ELSE s.wb[c]
             /\ \A x \in Tcp \cup {None} :
                  t.watched[x] <=> \/ s.watched[x] \/ x \in targets
                                   \/ x = None /\ targets \cap Udp # {}
<1> DEFINE n == Cardinality(targets \cap Udp)
           buf == [c \in Tcp |-> IF c \in targets /\ s.wb[c] < MaxOut
                                 THEN s.wb[c] + 1 ELSE s.wb[c]]
           wat == [x \in Tcp \cup {None} |->
                     s.watched[x] \/ x \in targets \/ (x = None /\ targets \cap Udp # {})]
<1>1. n \in Nat /\ (targets \cap Udp = {} => n = 0)
  <2>1. IsFiniteSet(targets \cap Udp)
    BY ConnectionsAssumption, FS_Subset
  <2> QED BY <2>1, FS_CardinalityType, FS_EmptySet
<1>2. Sent(s, targets) = [s EXCEPT !.queued = @ + n, !.wb = buf, !.watched = wat]
  BY DEF Sent
<1>3. buf \in [Tcp -> 0 .. MaxOut] /\ wat \in [Tcp \cup {None} -> BOOLEAN]
  <2>1. MaxOut \in Nat /\ s.wb \in [Tcp -> 0 .. MaxOut]
    BY ConnectionsAssumption DEF Servers
  <2> QED BY <2>1
<1>4. s.queued + n \in Nat
  BY <1>1 DEF Servers
<1> HIDE DEF n, buf, wat
<1>5. /\ Sent(s, targets) \in Servers
      /\ Sent(s, targets).queued = s.queued + n
      /\ Sent(s, targets).wb = buf /\ Sent(s, targets).watched = wat
      /\ Sent(s, targets).type = s.type /\ Sent(s, targets).group = s.group
      /\ Sent(s, targets).waiting = s.waiting /\ Sent(s, targets).age = s.age
      /\ Sent(s, targets).timer = s.timer /\ Sent(s, targets).table = s.table
      /\ Sent(s, targets).remote = s.remote
  BY <1>2, <1>3, <1>4 DEF Servers
<1> QED BY <1>1, <1>5 DEF n, buf, wat

----------------------------------------------------------------------------
(* What the operators preserve.                                            *)

\* Destroying connections unwatches only what has nothing to send, and erases
\* only the addresses of those destroyed.
LEMMA DestroyedKeeps ==
  ASSUME NEW s \in Servers, Watched(s), Addressed(s), NEW gone \in SUBSET Conns
  PROVE  Watched(Destroyed(s, gone)) /\ Addressed(Destroyed(s, gone))
<1> DEFINE t == Destroyed(s, gone)
<1>1. Watched(t)
  <2>1. /\ t.queued = s.queued
        /\ \A c \in Tcp : t.wb[c] = IF c \in gone THEN 0 ELSE s.wb[c]
        /\ \A x \in Tcp \cup {None} : (t.watched[x] <=> s.watched[x] /\ x \notin gone)
    BY DestroyedFields
  <2>2. None \notin gone
    BY ConnectionsAssumption DEF Conns
  <2> QED BY <2>1, <2>2 DEF Watched
<1>2. Addressed(t)
  <2>1. /\ \A a \in Addrs : t.table[a] =
             IF \E c \in gone \cap Udp : s.remote[c] = a THEN None ELSE s.table[a]
        /\ \A c \in Conns : t.type[c] = IF c \in gone THEN "free" ELSE s.type[c]
        /\ \A c \in Udp : t.remote[c] = IF c \in gone THEN None ELSE s.remote[c]
    BY DestroyedFields
  <2>2. Addressed(s)
    OBVIOUS
  <2>3. \A a \in Addrs : s.table[a] \in Udp \cup {None}
    BY DEF Servers
  <2>4. Udp \subseteq Conns /\ None \notin Addrs \cup Udp
    BY ConnectionsAssumption DEF Conns
  <2>5. ASSUME NEW c \in Udp, t.type[c] # "free"
        PROVE  t.remote[c] \in Addrs
    <3>1. c \notin gone /\ s.type[c] # "free"
      BY <2>1, <2>4, <2>5
    <3> QED BY <2>1, <2>2, <3>1 DEF Addressed
  <2>6. ASSUME NEW a \in Addrs, t.table[a] # None
        PROVE  t.type[t.table[a]] # "free" /\ t.remote[t.table[a]] = a
    <3>1. /\ t.table[a] = s.table[a] /\ s.table[a] \in Udp
          /\ ~ \E c \in gone \cap Udp : s.remote[c] = a
      BY <2>1, <2>3, <2>6
    <3>2. s.type[s.table[a]] # "free" /\ s.remote[s.table[a]] = a
      BY <2>2, <2>6, <3>1 DEF Addressed
    <3>3. s.table[a] \notin gone
      BY <3>1, <3>2
    <3> QED BY <2>1, <2>4, <3>1, <3>2, <3>3
  <2> QED BY <2>5, <2>6 DEF Addressed
<1> QED BY <1>1, <1>2

\* ... and keeps the timer right.
LEMMA DestroyedIsGood ==
  ASSUME NEW s, Good(s), NEW gone \in SUBSET Conns
  PROVE  Good(Destroyed(s, gone))
<1> DEFINE t == Destroyed(s, gone)
<1>1. s \in Servers
  BY DEF Good
<1>2. t \in Servers
  BY <1>1, DestroyedFields
<1>3. Timed(t)
  <2>1. s.waiting \subseteq Tcp /\ s.timer \in BOOLEAN
    BY <1>1 DEF Servers
  <2>2. /\ t.waiting = s.waiting \ gone
        /\ t.timer = (s.timer /\ (gone \cap Tcp = {} \/ s.waiting \ gone # {}))
    BY <1>1, DestroyedFields
  <2>3. s.timer <=> s.waiting # {}
    BY DEF Good, Timed
  <2> QED BY <2>1, <2>2, <2>3 DEF Timed
<1> QED BY <1>1, <1>2, <1>3, DestroyedKeeps DEF Good

\* Sending keeps the invariant (SendData).
LEMMA SentIsGood ==
  ASSUME NEW s, Good(s), NEW targets \in SUBSET Conns
  PROVE  Good(Sent(s, targets))
<1> DEFINE t == Sent(s, targets)
<1>1. s \in Servers
  BY DEF Good
<1>2. t \in Servers
  BY <1>1, SentFields
<1>3. Timed(t)
  <2>1. t.waiting = s.waiting /\ t.timer = s.timer
    BY <1>1, SentFields
  <2> QED BY <2>1 DEF Good, Timed
<1>4. Watched(t)
  <2>1. /\ t.queued = s.queued + Cardinality(targets \cap Udp)
        /\ Cardinality(targets \cap Udp) \in Nat
        /\ targets \cap Udp = {} => Cardinality(targets \cap Udp) = 0
        /\ \A c \in Tcp : t.wb[c] = IF c \in targets /\ s.wb[c] < MaxOut
                                    THEN s.wb[c] + 1 ELSE s.wb[c]
        /\ \A x \in Tcp \cup {None} :
             t.watched[x] <=> \/ s.watched[x] \/ x \in targets
                              \/ x = None /\ targets \cap Udp # {}
    BY <1>1, SentFields
  <2>2. s.queued \in Nat
    BY <1>1 DEF Servers
  <2>3. Watched(s)
    BY DEF Good
  <2>4. \A c \in Tcp : t.wb[c] > 0 => t.watched[c]
    BY <2>1, <2>3 DEF Watched
  <2>5. t.queued > 0 => t.watched[None]
    BY <2>1, <2>2, <2>3 DEF Watched
  <2> QED BY <2>4, <2>5 DEF Watched
<1>5. Addressed(t)
  <2>1. t.type = s.type /\ t.table = s.table /\ t.remote = s.remote
    BY <1>1, SentFields
  <2> QED BY <2>1 DEF Good, Addressed
<1> QED BY <1>2, <1>3, <1>4, <1>5 DEF Good

\* Granting a request does, also when c is among the connections it replaces.
LEMMA OpenedIsGood ==
  ASSUME NEW s, Good(s), NEW gone \in SUBSET Conns, NEW c \in Conns,
         s.type[c] # "free", NEW role \in {"player", "uploader"}
  PROVE  Good(Opened(s, c, role, gone))
<1> DEFINE t == Destroyed(s, gone)
           rem == [d \in Udp |-> IF d = c THEN s.remote[c] ELSE t.remote[d]]
           u == [t EXCEPT !.type[c] = role, !.group = @ \cup {c}, !.remote = rem]
<1>1. Good(t) /\ s \in Servers
  BY DestroyedIsGood DEF Good
<1>2. /\ \A a \in Addrs : t.table[a] # None =>
           t.table[a] = s.table[a] /\ s.remote[s.table[a]] = a
      /\ \A d \in Udp : t.type[d] # "free" => t.remote[d] = s.remote[d]
  <2>1. /\ \A a \in Addrs : t.table[a] =
             IF \E d \in gone \cap Udp : s.remote[d] = a THEN None ELSE s.table[a]
        /\ \A d \in Conns : t.type[d] = IF d \in gone THEN "free" ELSE s.type[d]
        /\ \A d \in Udp : t.remote[d] = IF d \in gone THEN None ELSE s.remote[d]
    BY <1>1, DestroyedFields
  <2>2. Udp \subseteq Conns
    BY DEF Conns
  <2> QED BY <2>1, <2>2 DEF Good, Addressed
<1>3. Opened(s, c, role, gone) = Sent(u, {c})
  BY DEF Opened
<1> HIDE DEF t
<1>4. rem \in [Udp -> Addrs \cup {None}]
  BY <1>1 DEF Good, Servers
<1> HIDE DEF rem
<1>5. Good(u)
  <2>1. u \in Servers
    BY <1>1, <1>4 DEF Good, Servers
  <2>2. /\ u.waiting = t.waiting /\ u.timer = t.timer /\ u.wb = t.wb
        /\ u.queued = t.queued /\ u.watched = t.watched /\ u.table = t.table
        /\ u.remote = rem
        /\ \A d \in Conns : u.type[d] = IF d = c THEN role ELSE t.type[d]
    BY <1>1, <1>4 DEF Good, Servers
  <2>3. Timed(u) /\ Watched(u)
    BY <1>1, <2>2 DEF Good, Timed, Watched
  <2>4. ASSUME NEW d \in Udp, u.type[d] # "free"
        PROVE  u.remote[d] \in Addrs
    <3>1. d \in Conns
      BY DEF Conns
    <3>2. CASE d = c
      BY <2>2, <3>2 DEF Good, Addressed, rem
    <3>3. CASE d # c
      BY <1>1, <2>2, <2>4, <3>1, <3>3 DEF Good, Addressed, rem
    <3> QED BY <3>2, <3>3
  <2>5. ASSUME NEW a \in Addrs, u.table[a] # None
        PROVE  u.type[u.table[a]] # "free" /\ u.remote[u.table[a]] = a
    <3>1. /\ t.table[a] # None /\ u.table[a] = t.table[a]
          /\ t.table[a] \in Udp /\ t.table[a] \in Conns
      BY <1>1, <2>2, <2>5 DEF Good, Servers, Conns
    <3>2. t.type[t.table[a]] # "free" /\ t.remote[t.table[a]] = a
      BY <1>1, <3>1 DEF Good, Addressed
    <3>3. rem[t.table[a]] = a
      BY <1>2, <3>1, <3>2 DEF rem
    <3> QED BY <2>2, <3>1, <3>2, <3>3
  <2>6. Addressed(u)
    BY <2>4, <2>5 DEF Addressed
  <2> QED BY <2>1, <2>3, <2>6 DEF Good
<1> HIDE DEF u
<1> QED BY <1>3, <1>5, SentIsGood

\* Handling a packet does (OnReadPacket).
LEMMA ReadIsGood ==
  ASSUME NEW s, Good(s), NEW c \in Conns, s.type[c] # "free", NEW p \in Packets,
         NEW t \in OnReadPacket(s, c, p)
  PROVE  Good(t)
<1>1. \A role : Of(s, role) \subseteq Conns
  BY DEF Of, Good, Servers
<1>2. CASE t = Destroyed(s, {c})
  BY <1>2, DestroyedIsGood
<1>3. CASE t = Opened(s, c, "player", {})
  BY <1>3, OpenedIsGood
<1>4. CASE \E gone \in Replaced(s, c) : t = Opened(s, c, "uploader", gone)
  <2>1. PICK gone \in Replaced(s, c) : t = Opened(s, c, "uploader", gone)
    BY <1>4
  <2>2. gone \in SUBSET Conns
    BY <1>1 DEF Replaced
  <2> QED BY <2>1, <2>2, OpenedIsGood
<1>5. CASE t = Sent(s, Of(s, "player"))
  BY <1>1, <1>5, SentIsGood
<1>6. CASE t = s
  BY <1>6
<1> QED BY <1>2, <1>3, <1>4, <1>5, <1>6 DEF OnReadPacket

\* The timer's own callback does (OnTimerImpl).
LEMMA CheckedIsGood ==
  ASSUME NEW s, Good(s), s.timer
  PROVE  Good(Checked(s))
<1> DEFINE silent == {c \in s.waiting : s.type[c] = "unknown"}
           old == {c \in silent : s.age[c] > MaxAge}
           u == [s EXCEPT !.waiting = silent]
           t == Destroyed(u, old)
           v == Checked(s)
<1>1. s \in Servers /\ silent \in SUBSET Tcp /\ old \subseteq silent
  BY DEF Good, Servers
<1>2. Tcp \subseteq Conns
  BY DEF Conns
<1> HIDE DEF silent, old
<1>3. /\ u \in Servers /\ u.waiting = silent /\ u.type = s.type /\ u.table = s.table
      /\ u.remote = s.remote /\ u.wb = s.wb /\ u.queued = s.queued
      /\ u.watched = s.watched
  BY <1>1 DEF Servers
<1>4. v = [t EXCEPT !.timer = silent # old]
  BY DEF Checked, silent, old
<1>5. t \in Servers /\ t.waiting = silent \ old
  <2>1. old \in SUBSET Conns
    BY <1>1, <1>2
  <2> HIDE DEF u
  <2> QED
    BY <1>3, <2>1, DestroyedFields
<1>6. Watched(t) /\ Addressed(t)
  <2>1. Watched(u) /\ Addressed(u)
    BY <1>3 DEF Good, Watched, Addressed
  <2> HIDE DEF u
  <2> QED BY <1>1, <1>2, <1>3, <2>1, DestroyedKeeps
<1> HIDE DEF u, t
<1>7. /\ v \in Servers /\ v.timer = (silent # old) /\ v.waiting = t.waiting
      /\ v.table = t.table /\ v.type = t.type /\ v.remote = t.remote
      /\ v.wb = t.wb /\ v.watched = t.watched /\ v.queued = t.queued
  BY <1>4, <1>5 DEF Servers
<1>8. Timed(v)
  BY <1>1, <1>5, <1>7 DEF Timed
<1>9. Watched(v) /\ Addressed(v)
  BY <1>6, <1>7 DEF Watched, Addressed
<1> QED BY <1>7, <1>8, <1>9 DEF Good

----------------------------------------------------------------------------
(* Who loses its entry in the table.                                       *)

\* Another connection of c's address t.remote[c] was lost before.
Predecessor(s, t, c) ==
  \E d \in Udp \ {c} : Lost(s, d) /\ s.remote[d] = t.remote[c]

\* Destroying open connections takes the entry of another one only when one
\* of them had the same address, and no entry of its own.
LEMMA DestroyedLoses ==
  ASSUME NEW s \in Servers, Addressed(s), NEW gone \in SUBSET Conns,
         \A d \in gone : s.type[d] # "free",
         NEW c \in Udp, ~Lost(s, c), Lost(Destroyed(s, gone), c)
  PROVE  /\ c \notin gone /\ s.type[c] # "free"
         /\ Predecessor(s, Destroyed(s, gone), c)
<1> DEFINE t == Destroyed(s, gone)
<1>1. /\ \A a \in Addrs : t.table[a] =
           IF \E d \in gone \cap Udp : s.remote[d] = a THEN None ELSE s.table[a]
      /\ \A d \in Conns : t.type[d] = IF d \in gone THEN "free" ELSE s.type[d]
      /\ \A d \in Udp : t.remote[d] = IF d \in gone THEN None ELSE s.remote[d]
  BY DestroyedFields
<1>2. t.type[c] # "free" /\ t.table[t.remote[c]] # c
  BY DEF Lost
<1> HIDE DEF t
<1>3. c \notin gone /\ s.type[c] # "free" /\ t.remote[c] = s.remote[c]
  BY <1>1, <1>2 DEF Conns
<1>4. s.remote[c] \in Addrs /\ s.table[s.remote[c]] = c
  BY <1>3 DEF Addressed, Lost
<1>5. PICK d \in gone \cap Udp : s.remote[d] = s.remote[c]
  BY <1>1, <1>2, <1>3, <1>4
<1>6. d # c /\ Lost(s, d)
  BY <1>3, <1>4, <1>5 DEF Lost
<1> QED BY <1>3, <1>5, <1>6 DEF Predecessor, t

\* Sending takes none (SendData).
LEMMA SentLoses ==
  ASSUME NEW s \in Servers, NEW targets \in SUBSET Conns, NEW c \in Udp
  PROVE  /\ Lost(Sent(s, targets), c) <=> Lost(s, c)
         /\ Sent(s, targets).remote = s.remote
<1>1. LET t == Sent(s, targets)
      IN  t.type = s.type /\ t.table = s.table /\ t.remote = s.remote
  BY SentFields
<1> QED BY <1>1 DEF Lost

\* Granting a request to x takes it from x itself, when x is among those the
\* request destroys.
LEMMA OpenedLoses ==
  ASSUME NEW s, Good(s), NEW gone \in SUBSET Conns, NEW x \in Conns,
         s.type[x] # "free", \A d \in gone : s.type[d] # "free",
         NEW role \in {"player", "uploader"},
         NEW c \in Udp, ~Lost(s, c), Lost(Opened(s, x, role, gone), c)
  PROVE  (c = x /\ x \in gone) \/ Predecessor(s, Opened(s, x, role, gone), c)
<1> DEFINE t == Destroyed(s, gone)
           rem == [d \in Udp |-> IF d = x THEN s.remote[x] ELSE t.remote[d]]
           u == [t EXCEPT !.type[x] = role, !.group = @ \cup {x}, !.remote = rem]
<1>1. s \in Servers /\ Addressed(s) /\ t \in Servers /\ {x} \in SUBSET Conns
  BY DestroyedFields DEF Good
<1>2. /\ \A d \in Conns : t.type[d] = IF d \in gone THEN "free" ELSE s.type[d]
      /\ \A d \in Udp : t.remote[d] = IF d \in gone THEN None ELSE s.remote[d]
      /\ Udp \subseteq Conns
  BY <1>1, DestroyedFields DEF Conns
<1>3. Opened(s, x, role, gone) = Sent(u, {x})
  BY DEF Opened
<1>4. Lost(t, c) => Predecessor(s, t, c)
  BY <1>1, DestroyedLoses
<1> HIDE DEF t
<1>5. rem \in [Udp -> Addrs \cup {None}]
  BY <1>1 DEF Good, Addressed, Servers
<1>6. rem[c] = IF c = x THEN s.remote[c] ELSE t.remote[c]
  OBVIOUS
<1> HIDE DEF rem
<1>7. /\ u \in Servers /\ u.table = t.table /\ u.remote = rem
      /\ u.type[c] = IF c = x THEN role ELSE t.type[c]
  BY <1>1, <1>2, <1>5 DEF Servers
<1> HIDE DEF u
<1>8. Lost(u, c) /\ Opened(s, x, role, gone).remote = rem
  BY <1>1, <1>3, <1>7, SentLoses
<1>9. CASE c = x /\ x \in gone
  BY <1>9
<1>10. CASE ~(c = x /\ x \in gone)
  <2>1. rem[c] = t.remote[c] /\ (u.type[c] # "free" => t.type[c] # "free")
    BY <1>2, <1>6, <1>7, <1>10
  <2>2. Lost(t, c)
    BY <1>7, <1>8, <2>1 DEF Lost
  <2> QED BY <1>4, <1>8, <2>1, <2>2 DEF Predecessor
<1> QED BY <1>9, <1>10

\* Handling a packet of x takes it from x when the packet asks again to
\* upload (OnReadPacket).
LEMMA ReadLoses ==
  ASSUME NEW s, Good(s), NEW x \in Conns, s.type[x] # "free", NEW p \in Packets,
         NEW t \in OnReadPacket(s, x, p), NEW c \in Udp, ~Lost(s, c), Lost(t, c)
  PROVE  (c = x /\ p = "upload" /\ x \in s.group) \/ Predecessor(s, t, c)
<1>1. s \in Servers /\ Addressed(s) /\ \A role : Of(s, role) \subseteq Conns
  BY DEF Of, Good, Servers
<1>2. CASE t = Destroyed(s, {x})
  BY <1>1, <1>2, DestroyedLoses
<1>3. CASE t = Opened(s, x, "player", {})
  BY <1>3, OpenedLoses
<1>4. CASE p = "upload" /\ \E gone \in Replaced(s, x) : t = Opened(s, x, "uploader", gone)
  <2>1. PICK gone \in Replaced(s, x) : t = Opened(s, x, "uploader", gone)
    BY <1>4
  <2>2. gone \in SUBSET Conns /\ gone \subseteq s.group /\ \A d \in gone : s.type[d] # "free"
    BY <1>1 DEF Replaced, Of
  <2> QED BY <1>4, <2>1, <2>2, OpenedLoses
<1>5. CASE t = Sent(s, Of(s, "player"))
  BY <1>1, <1>5, SentLoses
<1>6. CASE t = s
  BY <1>6
<1> QED BY <1>2, <1>3, <1>4, <1>5, <1>6 DEF OnReadPacket

----------------------------------------------------------------------------
(* The specification.                                                      *)

\* The server starts with nothing.
LEMMA InitIsGood == Init => Good(server)
<1> SUFFICES ASSUME Init PROVE Good(server)
  OBVIOUS
<1>1. MaxAge \in Nat /\ MaxOut \in Nat /\ None \notin Tcp \cup Udp \cup Addrs
  BY ConnectionsAssumption
<1>2. server \in Servers
  BY <1>1 DEF Init, Servers
<1>3. Timed(server)
  BY DEF Init, Timed
<1>4. Watched(server)
  BY <1>1 DEF Init, Watched
<1>5. Addressed(server)
  BY <1>1 DEF Init, Addressed, Conns
<1> QED BY <1>2, <1>3, <1>4, <1>5 DEF Good

\* A new connection waits, with the timer running (CreateConnection).
LEMMA AcceptIsGood ==
  ASSUME Good(server), NEW c \in Tcp, Accept(c)
  PROVE  Good(server')
<1>1. /\ server \in Servers /\ c \in Conns /\ c \notin Udp /\ None # c
      /\ MaxAge + 1 \in Nat /\ 0 \in 0 .. MaxAge + 1
  BY ConnectionsAssumption DEF Good, Conns
<1>2. server' = [server EXCEPT !.type[c] = "unknown", !.sockets = @ \cup {c},
                               !.waiting = @ \cup {c}, !.age[c] = 0,
                               !.timer = TRUE, !.watched[c] = TRUE]
  BY DEF Accept
<1>3. /\ server'.waiting = server.waiting \cup {c} /\ server'.timer = TRUE
      /\ server'.type = [server.type EXCEPT ![c] = "unknown"]
      /\ server'.watched = [server.watched EXCEPT ![c] = TRUE]
      /\ server'.table = server.table /\ server'.remote = server.remote
      /\ server'.wb = server.wb /\ server'.queued = server.queued
  BY <1>1, <1>2 DEF Servers
<1>4. server' \in Servers
  BY <1>1, <1>2 DEF Servers
<1>5. Timed(server')
  BY <1>3 DEF Timed
<1>6. Watched(server')
  <2>1. server.watched \in [Tcp \cup {None} -> BOOLEAN]
    BY <1>1 DEF Servers
  <2> QED BY <1>1, <1>3, <2>1 DEF Good, Watched
<1>7. Addressed(server')
  <2>1. /\ server.type \in [Conns -> {"free", "unknown", "player", "uploader"}]
        /\ Udp \subseteq Conns
        /\ \A a \in Addrs : server.table[a] \in Udp \cup {None}
    BY <1>1 DEF Servers, Conns
  <2>2. \A d \in Udp : server'.type[d] = server.type[d]
    BY <1>1, <1>3, <2>1
  <2> QED BY <1>3, <2>1, <2>2 DEF Good, Addressed
<1> QED BY <1>4, <1>5, <1>6, <1>7 DEF Good

\* The socket stays watched while anything is left (OnSocketDataImpl).
LEMMA TcpWriteIsGood ==
  ASSUME Good(server), NEW c \in Tcp, TcpWrite(c)
  PROVE  Good(server')
<1>1. server \in Servers /\ c # None /\ MaxOut \in Nat
  BY ConnectionsAssumption DEF Good
<1>2. PICK left \in 0 .. server.wb[c] :
        server' = [server EXCEPT !.wb[c] = left, !.watched[c] = left # 0]
  BY DEF TcpWrite
<1>3. left \in 0 .. MaxOut
  BY <1>1, <1>2 DEF Servers
<1>4. /\ server'.wb = [server.wb EXCEPT ![c] = left]
      /\ server'.watched = [server.watched EXCEPT ![c] = (left # 0)]
      /\ server'.waiting = server.waiting /\ server'.timer = server.timer
      /\ server'.type = server.type /\ server'.queued = server.queued
      /\ server'.table = server.table /\ server'.remote = server.remote
  BY <1>1, <1>2 DEF Servers
<1>5. server' \in Servers
  BY <1>1, <1>2, <1>3 DEF Servers
<1>6. Watched(server')
  <2>1. /\ server.watched \in [Tcp \cup {None} -> BOOLEAN]
        /\ server.wb \in [Tcp -> 0 .. MaxOut]
    BY <1>1 DEF Servers
  <2> QED BY <1>1, <1>3, <1>4, <2>1 DEF Good, Watched
<1> QED BY <1>4, <1>5, <1>6 DEF Good, Timed, Addressed

\* A datagram of an address without a connection: the connection made for it
\* is as good as the rest.
LEMMA ConnectedIsGood ==
  ASSUME NEW s, Good(s), NEW a \in Addrs, NEW c \in Udp,
         s.table[a] = None, s.type[c] = "free"
  PROVE  LET t == [s EXCEPT !.table[a] = c, !.remote[c] = a, !.type[c] = "unknown"]
         IN  Good(t) /\ t.type[c] = "unknown"
<1> DEFINE t == [s EXCEPT !.table[a] = c, !.remote[c] = a, !.type[c] = "unknown"]
<1>1. s \in Servers /\ c \in Conns /\ c # None /\ None \notin Addrs
  BY ConnectionsAssumption DEF Good, Conns
<1>2. /\ t.table = [s.table EXCEPT ![a] = c]
      /\ t.remote = [s.remote EXCEPT ![c] = a]
      /\ t.type = [s.type EXCEPT ![c] = "unknown"]
      /\ t.waiting = s.waiting /\ t.timer = s.timer /\ t.wb = s.wb
      /\ t.queued = s.queued /\ t.watched = s.watched
  BY <1>1 DEF Servers
<1>3. t \in Servers
  BY <1>1 DEF Servers
<1>4. Timed(t) /\ Watched(t)
  BY <1>2 DEF Good, Timed, Watched
<1> HIDE DEF t
<1>5. Addressed(t)
  <2>1. /\ s.table \in [Addrs -> Udp \cup {None}]
        /\ s.remote \in [Udp -> Addrs \cup {None}]
        /\ s.type \in [Conns -> {"free", "unknown", "player", "uploader"}]
        /\ Udp \subseteq Conns
    BY <1>1 DEF Servers, Conns
  <2>2. Addressed(s)
    BY DEF Good
  <2>3. ASSUME NEW d \in Udp, t.type[d] # "free"
        PROVE  t.remote[d] \in Addrs
    <3>1. CASE d = c
      BY <1>2, <2>1, <3>1
    <3>2. CASE d # c
      BY <1>2, <2>1, <2>2, <2>3, <3>2 DEF Addressed
    <3> QED BY <3>1, <3>2
  <2>4. ASSUME NEW b \in Addrs, t.table[b] # None
        PROVE  t.type[t.table[b]] # "free" /\ t.remote[t.table[b]] = b
    <3>1. CASE b = a
      BY <1>1, <1>2, <2>1, <3>1
    <3>2. CASE b # a
      <4>1. t.table[b] = s.table[b] /\ s.table[b] \in Udp
        BY <1>2, <2>1, <2>4, <3>2
      <4>2. s.type[s.table[b]] # "free" /\ s.remote[s.table[b]] = b
        BY <2>2, <2>4, <4>1 DEF Addressed
      <4> QED BY <1>2, <2>1, <4>1, <4>2
    <3> QED BY <3>1, <3>2
  <2> QED BY <2>3, <2>4 DEF Addressed
<1>6. t.type[c] = "unknown"
  BY <1>1, <1>2 DEF Servers
<1> QED BY <1>3, <1>4, <1>5, <1>6 DEF Good, t

\* Every step keeps the invariant.
LEMMA StepIsGood ==
  ASSUME Good(server), [Next]_server
  PROVE  Good(server')
<1>1. server \in Servers /\ Tcp \subseteq Conns /\ Udp \subseteq Conns
  BY DEF Good, Conns
<1>2. ASSUME NEW c \in Tcp, Accept(c) PROVE Good(server')
  BY <1>2, AcceptIsGood
<1>3. ASSUME NEW c \in Tcp, TcpWrite(c) PROVE Good(server')
  BY <1>3, TcpWriteIsGood
<1>4. ASSUME NEW c \in Tcp, NEW p \in Packets, TcpRead(c, p) PROVE Good(server')
  BY <1>1, <1>4, ReadIsGood DEF TcpRead
<1>5. ASSUME NEW c \in Conns, Close(c) PROVE Good(server')
  BY <1>5, DestroyedIsGood DEF Close
<1>6. ASSUME NEW a \in Addrs, NEW c \in Udp, NEW p \in Packets, UdpRead(a, c, p)
      PROVE  Good(server')
  <2>1. CASE server.table[a] = c /\ server' \in OnReadPacket(server, c, p)
    <3>1. c # None
      BY ConnectionsAssumption
    <3>2. server.type[c] # "free"
      BY <2>1, <3>1 DEF Good, Addressed
    <3> QED BY <1>1, <2>1, <3>2, ReadIsGood
  <2>2. CASE /\ server.table[a] = None /\ server.type[c] = "free"
             /\ LET s == [server EXCEPT !.table[a] = c, !.remote[c] = a,
                                        !.type[c] = "unknown"]
                IN  server' \in OnReadPacket(s, c, p)
    <3> DEFINE s == [server EXCEPT !.table[a] = c, !.remote[c] = a, !.type[c] = "unknown"]
    <3>1. Good(s) /\ s.type[c] = "unknown"
      BY <2>2, ConnectedIsGood
    <3>2. server' \in OnReadPacket(s, c, p)
      BY <2>2
    <3> HIDE DEF s
    <3> QED BY <1>1, <3>1, <3>2, ReadIsGood
  <2> QED BY <1>6, <2>1, <2>2 DEF UdpRead
<1>7. CASE UdpWrite
  <2>1. server' = [server EXCEPT !.queued = 0, !.watched[None] = FALSE]
    BY <1>7 DEF UdpWrite
  <2>2. /\ server' \in Servers
        /\ server'.queued = 0 /\ server'.wb = server.wb
        /\ server'.watched = [server.watched EXCEPT ![None] = FALSE]
        /\ server'.waiting = server.waiting /\ server'.timer = server.timer
        /\ server'.type = server.type /\ server'.table = server.table
        /\ server'.remote = server.remote
    BY <1>1, <2>1 DEF Servers
  <2>3. None \notin Tcp /\ server.watched \in [Tcp \cup {None} -> BOOLEAN]
    BY <1>1, ConnectionsAssumption DEF Servers
  <2>4. Watched(server')
    BY <2>2, <2>3 DEF Good, Watched
  <2> QED BY <2>2, <2>4 DEF Good, Timed, Addressed
<1>8. CASE TcpTimer
  BY <1>8, CheckedIsGood DEF TcpTimer
<1>9. CASE Second
  <2> DEFINE old == [c \in Tcp |-> IF c \in server.waiting /\ server.age[c] <= MaxAge
                                   THEN server.age[c] + 1 ELSE server.age[c]]
  <2>1. server' = [server EXCEPT !.age = old]
    BY <1>9 DEF Second
  <2>2. old \in [Tcp -> 0 .. MaxAge + 1]
    <3>1. MaxAge \in Nat /\ server.age \in [Tcp -> 0 .. MaxAge + 1]
      BY <1>1, ConnectionsAssumption DEF Servers
    <3> QED BY <3>1
  <2> HIDE DEF old
  <2>3. /\ server' \in Servers
        /\ server'.queued = server.queued /\ server'.wb = server.wb
        /\ server'.watched = server.watched
        /\ server'.waiting = server.waiting /\ server'.timer = server.timer
        /\ server'.type = server.type /\ server'.table = server.table
        /\ server'.remote = server.remote
    BY <1>1, <2>1, <2>2 DEF Servers
  <2> QED BY <2>3 DEF Good, Timed, Watched, Addressed
<1>10. CASE UNCHANGED server
  BY <1>10
<1> QED BY <1>2, <1>3, <1>4, <1>5, <1>6, <1>7, <1>8, <1>9, <1>10 DEF Next

\* The inductive invariant: the properties below, and that an open UDP
\* connection has an address.
THEOREM ServerStaysGood == Spec => []Good(server)
<1>1. Init => Good(server)
  BY InitIsGood
<1>2. Good(server) /\ [Next]_server => Good(server)'
  BY StepIsGood
<1> QED BY <1>1, <1>2, PTL DEF Spec

\* The state of the server keeps its type (TypeOK).
THEOREM ConnectionsTypeOK == Spec => []TypeOK
<1>1. Good(server) => TypeOK
  BY DEF Good, TypeOK
<1> QED BY <1>1, ServerStaysGood, PTL

\* m_ev_timer is scheduled exactly while TCP connections wait, whatever
\* CreateConnection, OnConnectionClosed and OnTimerImpl do in between.
THEOREM TimerStaysNeeded == Spec => []TimerRunsWhileNeeded
<1>1. Good(server) => TimerRunsWhileNeeded
  BY DEF Good, Timed, TimerRunsWhileNeeded
<1> QED BY <1>1, ServerStaysGood, PTL

\* No message waits in wb or m_send_queue without its socket being watched.
THEOREM UnsentStaysWatched == Spec => []UnsentIsWatched
<1>1. Good(server) => UnsentIsWatched
  BY DEF Good, Servers, Watched, UnsentIsWatched
<1> QED BY <1>1, ServerStaysGood, PTL

\* What the address table of the UDP manager holds is open and of that
\* address, though OnConnectionClosed erases by address.
THEOREM AddressesStayRight == Spec => []AddressesLeadToConnections
<1>1. Good(server) => AddressesLeadToConnections
  BY DEF Good, Addressed, AddressesLeadToConnections
<1> QED BY <1>1, ServerStaysGood, PTL

\* The timer of RtpTcpManager takes no entry.
LEMMA TimerLoses ==
  ASSUME Good(server), TcpTimer, NEW c \in Udp
  PROVE  Lost(server', c) <=> Lost(server, c)
<1> DEFINE silent == {d \in server.waiting : server.type[d] = "unknown"}
           old == {d \in silent : server.age[d] > MaxAge}
           u == [server EXCEPT !.waiting = silent]
           t == Destroyed(u, old)
<1>1. server \in Servers /\ silent \in SUBSET Tcp /\ old \subseteq silent
  BY DEF Good, Servers
<1>2. Tcp \subseteq Conns /\ c \in Conns /\ c \notin Tcp /\ old \cap Udp = {}
  BY <1>1, ConnectionsAssumption DEF Conns
<1>3. server' = [t EXCEPT !.timer = silent # old]
  BY DEF TcpTimer, Checked
<1> HIDE DEF silent, old
<1>4. /\ u \in Servers /\ u.type = server.type /\ u.table = server.table
      /\ u.remote = server.remote /\ old \in SUBSET Conns
  BY <1>1, <1>2 DEF Servers
<1> HIDE DEF u
<1>5. /\ t \in Servers /\ t.type[c] = server.type[c] /\ t.remote[c] = server.remote[c]
      /\ \A a \in Addrs : t.table[a] = server.table[a]
  BY <1>1, <1>2, <1>4, DestroyedFields
<1> HIDE DEF t
<1>6. server'.type = t.type /\ server'.table = t.table /\ server'.remote = t.remote
  BY <1>3, <1>5 DEF Servers
<1>7. server.type[c] # "free" => server.remote[c] \in Addrs
  BY DEF Good, Addressed
<1> QED BY <1>5, <1>6, <1>7 DEF Lost

\* A datagram takes an entry only as the property says (OnRead).
LEMMA UdpReadLoses ==
  ASSUME Good(server), NEW a \in Addrs, NEW x \in Udp, NEW p \in Packets,
         UdpRead(a, x, p), NEW c \in Udp, ~Lost(server, c), Lost(server', c)
  PROVE  \/ c \in server.group /\ UdpRead(a, c, "upload")
         \/ Predecessor(server, server', c)
<1>1. x \in Conns /\ x # None /\ c # None /\ server \in Servers
  BY ConnectionsAssumption DEF Good, Conns
<1>2. CASE server.table[a] = x /\ server' \in OnReadPacket(server, x, p)
  <2>1. server.type[x] # "free"
    BY <1>1, <1>2 DEF Good, Addressed
  <2>2. (c = x /\ p = "upload" /\ x \in server.group) \/ Predecessor(server, server', c)
    BY <1>1, <1>2, <2>1, ReadLoses
  <2> QED BY <2>2
<1>3. CASE /\ server.table[a] = None /\ server.type[x] = "free"
           /\ LET s == [server EXCEPT !.table[a] = x, !.remote[x] = a,
                                      !.type[x] = "unknown"]
              IN  server' \in OnReadPacket(s, x, p)
  <2> DEFINE s == [server EXCEPT !.table[a] = x, !.remote[x] = a, !.type[x] = "unknown"]
  <2>1. Good(s) /\ s.type[x] = "unknown"
    BY <1>3, ConnectedIsGood
  <2>2. server' \in OnReadPacket(s, x, p)
    BY <1>3
  <2>3. /\ s.group = server.group
        /\ \A b \in Addrs : s.table[b] = IF b = a THEN x ELSE server.table[b]
        /\ \A d \in Udp : /\ s.remote[d] = IF d = x THEN a ELSE server.remote[d]
                          /\ s.type[d] = IF d = x THEN "unknown" ELSE server.type[d]
    BY <1>1 DEF Servers, Conns
  <2> HIDE DEF s
  <2>4. ~Lost(s, x)
    BY <2>3 DEF Lost
  <2>5. \A d \in Udp : d # x /\ server.type[d] # "free" => server.remote[d] \in Addrs
    BY DEF Good, Addressed
  <2>6. ASSUME NEW d \in Udp \ {x} PROVE Lost(s, d) <=> Lost(server, d)
    <3>1. d # None
      BY ConnectionsAssumption
    <3> QED BY <1>3, <2>3, <2>5, <3>1 DEF Lost
  <2>7. ~Lost(s, c)
    BY <2>4, <2>6
  <2>8. (c = x /\ p = "upload" /\ x \in s.group) \/ Predecessor(s, server', c)
    BY <1>1, <2>1, <2>2, <2>7, ReadLoses
  <2>9. Predecessor(s, server', c) => Predecessor(server, server', c)
    BY <2>3, <2>4, <2>6 DEF Predecessor
  <2> QED BY <2>3, <2>8, <2>9
<1> QED BY <1>2, <1>3 DEF UdpRead

\* A UDP connection becomes unreachable only by asking again to upload, or
\* after another one of its address has: for any number of connections and
\* addresses, in whatever order datagrams and time-outs come.
THEOREM OthersAreKept == Spec => OnlyRepeatersAreLost
<1>1. Good(server) /\ [Next]_server => [LosesOnlyRepeaters]_server
  <2> SUFFICES ASSUME Good(server), [Next]_server, NEW c \in Udp,
                      ~Lost(server, c), Lost(server', c)
               PROVE  \/ c \in server.group /\ \E a \in Addrs : UdpRead(a, c, "upload")
                      \/ Predecessor(server, server', c)
    BY DEF LosesOnlyRepeaters, Predecessor
  <2>1. server \in Servers /\ Tcp \subseteq Conns /\ c \in Conns /\ c \notin Tcp
    BY ConnectionsAssumption DEF Good, Conns
  <2>2. ASSUME NEW d \in Tcp, Accept(d) PROVE FALSE
    <3>1. /\ server'.type = [server.type EXCEPT ![d] = "unknown"]
          /\ server'.table = server.table /\ server'.remote = server.remote
      BY <2>1, <2>2 DEF Accept, Servers
    <3>2. server'.type[c] = server.type[c]
      BY <2>1, <3>1 DEF Servers
    <3> QED BY <3>1, <3>2 DEF Lost
  <2>3. ASSUME NEW d \in Tcp, TcpWrite(d) PROVE FALSE
    <3>1. /\ server'.type = server.type
          /\ server'.table = server.table /\ server'.remote = server.remote
      BY <2>1, <2>3 DEF TcpWrite, Servers
    <3> QED BY <3>1 DEF Lost
  <2>4. ASSUME NEW d \in Tcp, NEW p \in Packets, TcpRead(d, p)
        PROVE  Predecessor(server, server', c)
    BY <2>1, <2>4, ReadLoses DEF TcpRead
  <2>5. ASSUME NEW d \in Conns, Close(d) PROVE Predecessor(server, server', c)
    BY <2>1, <2>5, DestroyedLoses DEF Close, Good
  <2>6. ASSUME NEW a \in Addrs, NEW d \in Udp, NEW p \in Packets, UdpRead(a, d, p)
        PROVE  \/ c \in server.group /\ UdpRead(a, c, "upload")
               \/ Predecessor(server, server', c)
    BY <2>6, UdpReadLoses
  <2>7. ASSUME UdpWrite \/ Second \/ UNCHANGED server PROVE FALSE
    <3>1. /\ server'.type = server.type
          /\ server'.table = server.table /\ server'.remote = server.remote
      BY <2>1, <2>7 DEF UdpWrite, Second, Servers
    <3> QED BY <3>1 DEF Lost
  <2>8. ASSUME TcpTimer PROVE FALSE
    BY <2>8, TimerLoses
  <2> QED BY <2>2, <2>3, <2>4, <2>5, <2>6, <2>7, <2>8 DEF Next
<1> QED BY <1>1, ServerStaysGood, PTL DEF Spec, OnlyRepeatersAreLost
=============================================================================
