------------------------- MODULE StreamGroupsProofs -------------------------
(***************************************************************************)
(* Proofs about StreamGroups: types, that a member without a transport has *)
(* moved, that an uploader is replaced by the next one, and that a pull    *)
(* client knows the one pull connection of its stream.                     *)
(***************************************************************************)
EXTENDS StreamGroups, TLAPS

\* The types of the connections' variables.
ConnTypes ==
  /\ type \in [Conns -> {"free", "player", "uploader"}]
  /\ stream \in [Conns -> Streams \cup {None}]
  /\ trans \subseteq Conns /\ attached \subseteq Conns /\ heard \subseteq Conns
  /\ group \in [Streams -> SUBSET Conns]
  /\ idle \in [Conns -> 0 .. SessionTicks]

\* An object with a transport is in the group of its stream; a member without
\* one belongs to another stream; what is free is in no group; and pull
\* connections upload one stream.
ConnInv ==
  /\ ConnTypes
  /\ \A c \in trans : type[c] # "free" /\ stream[c] \in Streams /\ c \in group[stream[c]]
  /\ \A s \in Streams : \A c \in group[s] : type[c] # "free" /\ (stream[c] = s => c \in trans)
  /\ \A c \in PullConns : type[c] # "player"
  /\ \A s \in Streams : \A c \in group[s] \cap PullConns : stream[c] = s
  /\ attached \subseteq trans

\* A pull client never asks for the SDP while it has a connection: this is
\* why the connection it opens never replaces one of its own.
PullInv ==
  /\ puller \in [Streams -> PullClient \cup {None}]
  /\ \A s \in Streams : puller[s] # None /\ puller[s].http => puller[s].con = NoConn
  /\ PullConnectionKnown

RestInv ==
  /\ cache \in [Streams -> 0 .. CacheTicks \cup {None}]
  /\ store \in [Streams -> 0 .. CacheTicks \cup {None}]
  /\ waiters \in [Streams -> SUBSET Requests]
  /\ viewers \in [Streams -> SUBSET Viewers]
  /\ pullDue \in BOOLEAN
  /\ NobodyWaitsForKnownSdp

Inv == ConnInv /\ PullInv /\ RestInv

LEMMA ConstantsFit ==
  /\ Clients \subseteq Conns /\ PullConns \subseteq Conns
  /\ NoConn \notin Conns /\ None \notin Streams
  /\ SessionTicks \in Nat \ {0} /\ UselessTicks \in Nat \ {0}
  /\ CacheTicks \in Nat \ {0} /\ RetryTicks \in Nat \ {0}
  /\ None \notin Nat /\ None \notin PullClient
BY ConnAssumption DEF Conns, PullClient


PullMembers(s) == group[s] \cap PullConns

\* The uploaders whose transport is for the stream.
Own(s) == {c \in Members(s, "uploader") : stream[c] = s}

LEMMA PullMembersUpload ==
  ASSUME ConnInv, NEW s \in Streams
  PROVE  /\ PullMembers(s) = Members(s, "uploader") \cap PullConns
         /\ \A c \in PullMembers(s) : c \in trans /\ stream[c] = s
         /\ \A c \in PullConns : c \in trans /\ stream[c] = s => c \in PullMembers(s)
BY ConstantsFit DEF PullMembers, Members, ConnInv, ConnTypes

\* What destroying connections does to the groups.
LEMMA CloseKeeps ==
  ASSUME ConnInv, NEW gone \in SUBSET Conns, Close(gone)
  PROVE  /\ ConnInv'
         /\ \A s \in Streams : PullMembers(s)' = PullMembers(s) \ gone
         /\ \A s \in Streams : Own(s)' \subseteq Own(s)
<1> USE ConstantsFit DEF ConnInv
<1>1. ASSUME NEW s \in Streams
      PROVE  group'[s] = {c \in group[s] : ~(c \in gone \cap trans /\ stream[c] = s)}
  BY DEF Close, GroupsWithout
<1>2. ConnTypes'
  <2>1. Freed(gone) \subseteq gone
    BY DEF Freed
  <2>2. group' \in [Streams -> SUBSET Conns]
    BY DEF Close, GroupsWithout, ConnTypes
  <2>3. attached' \subseteq attached
    BY DEF Close
  <2> QED
    BY <2>1, <2>2, <2>3 DEF ConnTypes, Close
<1>3. ASSUME NEW c \in Conns, c \notin Freed(gone)
      PROVE  type'[c] = type[c] /\ stream'[c] = stream[c]
  BY <1>3 DEF Close, ConnTypes
<1>4. ASSUME NEW c \in Freed(gone) PROVE c \in gone /\ \A s \in Streams : c \notin group'[s]
  BY DEF Freed
<1>5. ASSUME NEW c \in trans' PROVE (type[c] # "free" /\ stream[c] \in Streams /\ c \in group[stream[c]])'
  <2>1. c \in trans /\ c \notin gone /\ c \in Conns
    BY DEF Close, ConnTypes
  <2>2. type'[c] = type[c] /\ stream'[c] = stream[c]
    BY <1>3, <1>4, <2>1
  <2> QED
    BY <1>1, <2>1, <2>2
<1>6. ASSUME NEW s \in Streams, NEW c \in group'[s]
      PROVE  /\ c \in Conns /\ c \in group[s] /\ type'[c] = type[c] /\ stream'[c] = stream[c]
             /\ stream[c] = s => c \in trans'
  <2>1. c \in group[s] /\ c \in Conns /\ ~(c \in gone \cap trans /\ stream[c] = s)
    BY <1>1 DEF ConnTypes
  <2>2. type'[c] = type[c] /\ stream'[c] = stream[c]
    BY <1>3, <1>4, <2>1
  <2> QED
    BY <2>1, <2>2 DEF Close
<1>7. (\A c \in PullConns : type[c] # "player")'
  BY <1>3 DEF Close, ConnTypes
<1>8. (attached \subseteq trans)'
  BY DEF Close
<1>9. ConnInv'
  BY <1>2, <1>5, <1>6, <1>7, <1>8
<1>10. \A s \in Streams : PullMembers(s)' = PullMembers(s) \ gone
  BY <1>1, PullMembersUpload DEF PullMembers
<1>11. \A s \in Streams : Own(s)' \subseteq Own(s)
  BY <1>6 DEF Own, Members
<1> QED
  BY <1>9, <1>10, <1>11

\* What opening a transport does to the groups.
LEMMA OpenKeeps ==
  ASSUME ConnInv, NEW c \in Conns, NEW s \in Streams, NEW t \in {"player", "uploader"},
         NEW gone \in SUBSET Conns, Open(c, t, s, gone),
         t = "player" => c \in Clients,
         c \in PullConns => type[c] = "free"
  PROVE  /\ ConnInv'
         /\ \A x \in Streams :
              PullMembers(x)' = (PullMembers(x) \ gone)
                                  \cup (IF x = s THEN {c} \cap PullConns ELSE {})
         /\ \A x \in Streams : x # s \/ t = "player" => Own(x)' \subseteq Own(x)
         /\ \A x \in Own(s)' : x = c \/ (x \in Own(s) /\ x \notin gone)
<1> USE ConstantsFit DEF ConnInv
<1> DEFINE of == [stream EXCEPT ![c] = s]
<1>0. of[c] = s /\ \A x \in Conns : x # c => of[x] = stream[x]
  BY DEF ConnTypes
<1>1. ASSUME NEW x \in Streams
      PROVE  group'[x] = {d \in group[x] : ~(d \in gone \cap trans /\ of[d] = x)}
                           \cup (IF x = s THEN {c} ELSE {})
  BY DEF Open, GroupsWithout
<1>2. ConnTypes'
  <2>1. group' \in [Streams -> SUBSET Conns]
    BY DEF Open, GroupsWithout, ConnTypes
  <2>2. attached' \subseteq Conns
    BY DEF Open, ConnTypes
  <2>3. trans' \subseteq Conns /\ heard' \subseteq Conns
    BY DEF Open, ConnTypes
  <2>4. type' \in [Conns -> {"free", "player", "uploader"}]
    BY DEF Open, ConnTypes
  <2>5. stream' \in [Conns -> Streams \cup {None}]
    BY DEF Open, ConnTypes
  <2>6. idle' \in [Conns -> 0 .. SessionTicks]
    BY DEF Open, ConnTypes
  <2> QED
    BY <2>1, <2>2, <2>3, <2>4, <2>5, <2>6 DEF ConnTypes
<1>3. ASSUME NEW x \in Conns, x # c, x \notin Freed(gone)
      PROVE  type'[x] = type[x] /\ stream'[x] = stream[x]
  BY <1>3 DEF Open, ConnTypes
<1>4. ASSUME NEW x \in Freed(gone) PROVE x \in gone /\ \A y \in Streams : x \notin group'[y]
  BY DEF Freed
<1>5. type'[c] = t /\ stream'[c] = s
  BY DEF Open, ConnTypes
<1>6. ASSUME NEW x \in trans' PROVE (type[x] # "free" /\ stream[x] \in Streams /\ x \in group[stream[x]])'
  <2>1. CASE x = c
    BY <1>1, <1>5, <2>1
  <2>2. CASE x # c
    <3>1. x \in trans /\ x \notin gone /\ x \in Conns
      BY <2>2 DEF Open, ConnTypes
    <3>2. type'[x] = type[x] /\ stream'[x] = stream[x]
      BY <1>3, <1>4, <2>2, <3>1
    <3> QED
      BY <1>1, <3>1, <3>2
  <2> QED
    BY <2>1, <2>2
<1>7. ASSUME NEW y \in Streams, NEW x \in group'[y], x # c
      PROVE  /\ x \in Conns /\ x \in group[y] /\ type'[x] = type[x] /\ stream'[x] = stream[x]
             /\ stream[x] = y => x \in trans' /\ x \notin gone
  <2>1. x \in group[y] /\ x \in Conns /\ ~(x \in gone \cap trans /\ stream[x] = y)
    BY <1>0, <1>1, <1>7 DEF ConnTypes
  <2>2. type'[x] = type[x] /\ stream'[x] = stream[x]
    BY <1>3, <1>4, <1>7, <2>1
  <2> QED
    BY <2>1, <2>2 DEF Open
<1>8. ASSUME NEW y \in Streams, NEW x \in group'[y]
      PROVE  (type[x] # "free" /\ (stream[x] = y => x \in trans))'
  <2>1. CASE x = c
    BY <1>5, <2>1 DEF Open
  <2>2. CASE x # c
    BY <1>7, <2>2
  <2> QED
    BY <2>1, <2>2
<1>9. (\A x \in PullConns : type[x] # "player")'
  BY <1>3, <1>5, ConnAssumption DEF Open, ConnTypes
<1>10. c \in PullConns => \A y \in Streams : c \notin group[y]
  OBVIOUS
<1>11. ASSUME NEW y \in Streams, NEW x \in group'[y] \cap PullConns PROVE stream'[x] = y
  <2>1. CASE x = c
    BY <1>1, <1>5, <1>10, <2>1
  <2>2. CASE x # c
    BY <1>7, <2>2
  <2> QED
    BY <2>1, <2>2
<1>12. (attached \subseteq trans)'
  BY DEF Open
<1>13. ConnInv'
  BY <1>2, <1>6, <1>8, <1>9, <1>11, <1>12
<1>14. ASSUME NEW x \in Streams
       PROVE  PullMembers(x)' = (PullMembers(x) \ gone)
                                  \cup (IF x = s THEN {c} \cap PullConns ELSE {})
  <2>1. \A d \in PullMembers(x) : d # c /\ of[d] = x /\ d \in trans
    BY <1>0, <1>10, PullMembersUpload DEF PullMembers
  <2> QED
    BY <1>1, <2>1 DEF PullMembers
<1>15. ASSUME NEW x \in Streams, x # s \/ t = "player" PROVE Own(x)' \subseteq Own(x)
  <2>1. ASSUME NEW d \in Own(x)' PROVE d # c
    BY <1>5, <1>15, <2>1 DEF Own, Members
  <2> QED
    BY <1>7, <2>1 DEF Own, Members
<1>16. \A x \in Own(s)' : x = c \/ (x \in Own(s) /\ x \notin gone)
  BY <1>7 DEF Own, Members
<1> QED
  BY <1>13, <1>14, <1>15, <1>16

\* Start, whatever its outcome, forgets the connection and asks for the SDP
\* at most once.
LEMMA StartTypes ==
  ASSUME NEW cl \in PullClient, NEW started \in BOOLEAN
  PROVE  Start(cl, started) \in PullClient /\ Start(cl, started).con = NoConn
<1>1. CASE cl.retry >= RetryTicks
  <2>1. Start(cl, started) = [cl EXCEPT !.con = NoConn, !.http = started, !.retry = 0]
    BY <1>1 DEF Start
  <2>2. 0 \in 0 .. RetryTicks
    BY ConstantsFit
  <2> QED
    BY <2>1, <2>2 DEF PullClient
<1>2. CASE ~(cl.retry >= RetryTicks)
  BY <1>2 DEF Start, PullClient
<1> QED
  BY <1>1, <1>2

\* PullConnectionKnown, said of the pull connections in the groups.
LEMMA PullsKnown ==
  /\ ConnInv => (PullConnectionKnown <=> \A s \in Streams : PullMembers(s) = ConnectionOf(s))
  /\ ConnInv' => (PullConnectionKnown' <=> \A s \in Streams : PullMembers(s)' = ConnectionOf(s)')
<1>1. ConnInv => (PullConnectionKnown <=> \A s \in Streams : PullMembers(s) = ConnectionOf(s))
  BY PullMembersUpload DEF PullConnectionKnown
<1>2. (ConnInv => (PullConnectionKnown <=> \A s \in Streams : PullMembers(s) = ConnectionOf(s)))'
  BY <1>1, PTL
<1> QED
  BY <1>1, <1>2

\* A new pull client has no connection.
LEMMA StartPullKeeps ==
  ASSUME ConnInv, PullInv, NEW s \in Streams, NEW cond \in BOOLEAN, NEW started \in BOOLEAN,
         puller' = StartPull(s, cond, started),
         ConnInv', \A x \in Streams : PullMembers(x)' = PullMembers(x)
  PROVE  PullInv'
<1>1. [http |-> started, con |-> NoConn, retry |-> 0, start |-> 0] \in PullClient
  BY ConstantsFit DEF PullClient
<1>2. puller' \in [Streams -> PullClient \cup {None}]
  BY <1>1 DEF StartPull, PullInv
<1>3. \A x \in Streams :
        \/ puller'[x] = puller[x]
        \/ puller[x] = None /\ puller'[x].con = NoConn
  BY <1>1 DEF StartPull, PullInv
<1>4. \A x \in Streams : ConnectionOf(x)' = ConnectionOf(x)
  BY <1>3 DEF ConnectionOf
<1>5. (\A x \in Streams : puller[x] # None /\ puller[x].http => puller[x].con = NoConn)'
  BY <1>3 DEF PullInv
<1>6. PullConnectionKnown'
  BY <1>4, PullsKnown DEF PullInv
<1> QED
  BY <1>2, <1>5, <1>6 DEF PullInv

\* Destroying connections restarts the clients whose connection was among
\* them, and only those lose it.
LEMMA RestartKeeps ==
  ASSUME ConnInv, PullInv, NEW gone \in SUBSET Conns, NEW started \in BOOLEAN,
         gone \cap PullConns \subseteq trans,
         puller' = Restarted(puller, gone, started),
         ConnInv', \A s \in Streams : PullMembers(s)' = PullMembers(s) \ gone
  PROVE  PullInv'
<1>0. \A s \in Streams : PullMembers(s) = ConnectionOf(s)
  BY PullsKnown DEF PullInv
<1>1. \A s \in Streams : puller'[s] \in PullClient \cup {None}
  BY StartTypes DEF Restarted, PullInv
<1>2. puller' \in [Streams -> PullClient \cup {None}]
  BY <1>1 DEF Restarted
<1>3. ASSUME NEW s \in Streams
      PROVE  /\ puller'[s] # None /\ puller'[s].http => puller'[s].con = NoConn
             /\ ConnectionOf(s)' = ConnectionOf(s) \ gone
  <2> DEFINE struck == puller[s] # None /\ \E c \in gone \cap PullConns : stream[c] = s
  <2>1. CASE struck
    <3>1. puller'[s] = Start(puller[s], started)
      BY <2>1 DEF Restarted
    <3>2. puller[s] \in PullClient
      BY <2>1 DEF PullInv
    <3>3. puller'[s] \in PullClient /\ puller'[s].con = NoConn
      BY <3>1, <3>2, StartTypes
    <3>4. PICK c \in gone \cap PullConns : stream[c] = s
      BY <2>1
    <3>5. c \in PullMembers(s)
      BY <3>4, PullMembersUpload
    <3>6. c \in ConnectionOf(s)
      BY <1>0, <3>5
    <3>7. ConnectionOf(s) \subseteq gone
      BY <3>4, <3>6 DEF ConnectionOf
    <3> QED
      BY <3>3, <3>7, ConstantsFit DEF ConnectionOf
  <2>2. CASE ~struck
    <3>1. puller'[s] = puller[s]
      BY <2>2 DEF Restarted
    <3>2. ConnectionOf(s)' = ConnectionOf(s)
      BY <3>1 DEF ConnectionOf
    <3>3. ConnectionOf(s) \cap gone = {}
      <4>1. SUFFICES ASSUME NEW c \in ConnectionOf(s), c \in gone PROVE FALSE
        OBVIOUS
      <4>2. c \in PullConns /\ stream[c] = s
        BY <1>0, <4>1, PullMembersUpload DEF PullMembers
      <4>3. puller[s] # None
        BY <4>1 DEF ConnectionOf
      <4> QED
        BY <2>2, <4>1, <4>2, <4>3
    <3> QED
      BY <3>1, <3>2, <3>3 DEF PullInv
  <2> QED
    BY <2>1, <2>2
<1>4. PullConnectionKnown'
  BY <1>0, <1>3, PullsKnown
<1> QED
  BY <1>2, <1>3, <1>4 DEF PullInv

\* Stopping clients takes their connections with them.
LEMMA StopKeeps ==
  ASSUME ConnInv, PullInv, NEW stopped \in SUBSET Streams, StopPull(stopped)
  PROVE  ConnInv' /\ PullInv' /\ \A s \in Streams : Own(s)' \subseteq Own(s)
<1> DEFINE gone == UNION {ConnectionOf(s) : s \in stopped}
<1>1. \A s \in Streams : PullMembers(s) = ConnectionOf(s)
  BY PullsKnown DEF PullInv
<1>2. \A s \in Streams : \A c \in ConnectionOf(s) : c \in trans /\ stream[c] = s
  BY <1>1, PullMembersUpload
<1>3. gone \in SUBSET Conns
  BY <1>2 DEF ConnInv, ConnTypes
<1>4. Close(gone)
  BY DEF StopPull
<1>5. /\ ConnInv'
      /\ \A s \in Streams : PullMembers(s)' = PullMembers(s) \ gone /\ Own(s)' \subseteq Own(s)
  BY <1>3, <1>4, CloseKeeps
<1>6. \A s \in Streams : puller'[s] = IF s \in stopped THEN None ELSE puller[s]
  BY DEF StopPull
<1>7. puller' \in [Streams -> PullClient \cup {None}]
  BY <1>6 DEF StopPull, PullInv
<1>8. ASSUME NEW s \in Streams
      PROVE  ConnectionOf(s)' = ConnectionOf(s) \ gone
  <2>1. CASE s \in stopped
    BY <1>6, <2>1 DEF ConnectionOf
  <2>2. CASE s \notin stopped
    <3>1. ConnectionOf(s)' = ConnectionOf(s)
      BY <1>6, <2>2 DEF ConnectionOf
    <3>2. ConnectionOf(s) \cap gone = {}
      BY <1>2, <2>2
    <3> QED
      BY <3>1, <3>2
  <2> QED
    BY <2>1, <2>2
<1>9. PullConnectionKnown'
  BY <1>1, <1>5, <1>8, PullsKnown
<1>10. (\A s \in Streams : puller[s] # None /\ puller[s].http => puller[s].con = NoConn)'
  BY <1>6 DEF PullInv
<1> QED
  BY <1>5, <1>7, <1>9, <1>10 DEF PullInv

\* A step that leaves the connections alone, but for idle times and sessions.
LEMMA ConnsSame ==
  ASSUME ConnInv, UNCHANGED <<type, stream, trans, group, attached>>,
         heard' \subseteq Conns, idle' \in [Conns -> 0 .. SessionTicks]
  PROVE  ConnInv' /\ \A s \in Streams : PullMembers(s)' = PullMembers(s) /\ Own(s)' = Own(s)
<1>1. ConnTypes'
  BY DEF ConnInv, ConnTypes
<1>2. \A s \in Streams : PullMembers(s)' = PullMembers(s) /\ Own(s)' = Own(s)
  BY DEF PullMembers, Own, Members
<1> QED
  BY <1>1, <1>2 DEF ConnInv

LEMMA PullersSame ==
  ASSUME ConnInv, PullInv, UNCHANGED puller,
         ConnInv', \A s \in Streams : PullMembers(s)' = PullMembers(s)
  PROVE  PullInv'
<1>1. \A s \in Streams : ConnectionOf(s)' = ConnectionOf(s)
  BY DEF ConnectionOf
<1>2. PullConnectionKnown'
  BY <1>1, PullsKnown DEF PullInv
<1> QED
  BY <1>2 DEF PullInv

LEMMA AgesFit ==
  ASSUME NEW limit \in Nat \ {0}, NEW age \in 0 .. limit \cup {None}
  PROVE  /\ Older(age, limit) \in 0 .. limit \cup {None}
         /\ age # None => Older(age, limit) \in 0 .. limit
         /\ Older(age, limit) = None <=> age = None
BY ConstantsFit DEF Older

LEMMA InitInv == Init => Inv
<1> SUFFICES ASSUME Init PROVE Inv
  OBVIOUS
<1> USE ConstantsFit DEF Init
<1>1. ConnTypes
  BY DEF ConnTypes
<1>2. \A s \in Streams : Members(s, "uploader") = {} /\ ConnectionOf(s) = {}
  BY DEF Members, ConnectionOf
<1>3. ConnInv
  BY <1>1 DEF ConnInv
<1>4. PullInv
  BY <1>2 DEF PullInv, PullConnectionKnown
<1>5. RestInv
  BY DEF RestInv, NobodyWaitsForKnownSdp
<1> QED
  BY <1>3, <1>4, <1>5 DEF Inv

\* The steps that open a transport.
LEMMA OpeningSteps ==
  ASSUME Inv, NEW s \in Streams
  PROVE  /\ \A c \in Clients : UploadRequest(c, s) => ConnInv' /\ PullInv'
         /\ \A c \in Clients : PlayRequest(c, s) => ConnInv' /\ PullInv'
         /\ \A c \in PullConns \cup {NoConn} : SdpArrives(s, c) => ConnInv' /\ PullInv'
<1> USE ConstantsFit DEF Inv
<1>1. ASSUME NEW c \in Clients, UploadRequest(c, s)
      PROVE  ConnInv' /\ PullInv'
  <2>1. PICK gone \in Replaced(c, s), started \in BOOLEAN :
               Open(c, "uploader", s, gone) /\ puller' = Restarted(puller, gone, started)
    BY <1>1 DEF UploadRequest
  <2>2. gone \in SUBSET Conns /\ gone \cap PullConns \subseteq trans
    BY PullMembersUpload, ConnAssumption DEF Replaced, Members, PullMembers, ConnInv, ConnTypes
  <2>3. c \notin PullConns
    BY ConnAssumption
  <2>4. /\ ConnInv'
        /\ \A x \in Streams : PullMembers(x)' = PullMembers(x) \ gone
    BY <2>1, <2>2, <2>3, OpenKeeps
  <2> QED
    BY <2>1, <2>2, <2>4, RestartKeeps
<1>2. ASSUME NEW c \in Clients, PlayRequest(c, s)
      PROVE  ConnInv' /\ PullInv'
  <2>1. c \notin PullConns
    BY ConnAssumption
  <2>2. Open(c, "player", s, {})
    BY <1>2 DEF PlayRequest
  <2>3. /\ ConnInv'
        /\ \A x \in Streams : PullMembers(x)' = PullMembers(x)
    BY <2>1, <2>2, OpenKeeps
  <2>4. PICK started \in BOOLEAN :
               puller' = StartPull(s, cache[s] = None \/ ~HasUploader(s), started)
    BY <1>2 DEF PlayRequest
  <2> QED
    BY <2>3, <2>4, StartPullKeeps
<1>3. ASSUME NEW c \in PullConns \cup {NoConn}, SdpArrives(s, c)
      PROVE  ConnInv' /\ PullInv'
  <2> DEFINE answered == [puller[s] EXCEPT !.http = FALSE]
  <2>1. puller[s] \in PullClient /\ puller[s].con = NoConn
    BY <1>3 DEF SdpArrives, PullInv
  <2>2. answered \in PullClient /\ answered.con = NoConn /\ answered.http = FALSE
    BY <2>1 DEF PullClient
  <2>3. \A x \in Streams : PullMembers(x) = ConnectionOf(x)
    BY PullsKnown DEF PullInv
  <2>4. PICK started \in BOOLEAN :
          \/ /\ c = NoConn
             /\ puller' = [puller EXCEPT ![s] = Start(answered, started)]
             /\ UNCHANGED conns
          \/ /\ c # NoConn /\ type[c] = "free"
             /\ \E gone \in Replaced(c, s) :
                  /\ Open(c, "uploader", s, gone)
                  /\ puller' = Restarted([puller EXCEPT ![s] = [answered EXCEPT !.con = c]],
                                         gone, started)
    BY <1>3 DEF SdpArrives
  <2>5. CASE c = NoConn
    <3>1. puller' = [puller EXCEPT ![s] = Start(answered, started)] /\ UNCHANGED conns
      BY <2>4, <2>5
    <3>2. ConnInv' /\ \A x \in Streams : PullMembers(x)' = PullMembers(x)
      BY <3>1, ConnsSame DEF conns, ConnInv, ConnTypes
    <3>3. Start(answered, started) \in PullClient /\ Start(answered, started).con = NoConn
      BY <2>2, StartTypes
    <3>4. puller' \in [Streams -> PullClient \cup {None}]
      BY <3>1, <3>3 DEF PullInv
    <3>5. \A x \in Streams : IF x = s THEN puller'[x] = Start(answered, started)
                                      ELSE puller'[x] = puller[x]
      BY <3>1 DEF PullInv
    <3>6. (\A x \in Streams : puller[x] # None /\ puller[x].http => puller[x].con = NoConn)'
      BY <3>3, <3>5 DEF PullInv
    <3>7. \A x \in Streams : ConnectionOf(x)' = ConnectionOf(x)
      BY <2>1, <3>3, <3>5 DEF ConnectionOf
    <3> QED
      BY <2>3, <3>2, <3>4, <3>6, <3>7, PullsKnown DEF PullInv
  <2>6. CASE c # NoConn
    <3>1. PICK gone \in Replaced(c, s) :
            /\ Open(c, "uploader", s, gone)
            /\ puller' = Restarted([puller EXCEPT ![s] = [answered EXCEPT !.con = c]],
                                   gone, started)
      BY <2>4, <2>6
    <3>2. type[c] = "free" /\ c \in PullConns
      BY <2>4, <2>6
    <3>3. PullMembers(s) = {} /\ c \notin group[s]
      BY <2>1, <2>3, <3>2 DEF ConnectionOf, ConnInv
    <3>4. gone \in SUBSET Conns /\ gone \cap PullConns = {}
      BY <3>3 DEF Replaced, Members, PullMembers, ConnInv, ConnTypes
    <3>5. /\ ConnInv'
          /\ \A x \in Streams : PullMembers(x)' = IF x = s THEN {c} ELSE PullMembers(x)
      <4>1. /\ ConnInv'
            /\ \A x \in Streams : PullMembers(x)' = (PullMembers(x) \ gone)
                                    \cup (IF x = s THEN {c} \cap PullConns ELSE {})
        BY <3>1, <3>2, <3>4, OpenKeeps
      <4> QED
        BY <3>2, <3>3, <3>4, <4>1 DEF PullMembers
    <3>6. \A x \in Streams : puller'[x] = IF x = s THEN [answered EXCEPT !.con = c]
                                                   ELSE puller[x]
      BY <3>1, <3>4 DEF Restarted, PullInv
    <3>7. [answered EXCEPT !.con = c] \in PullClient
      BY <2>2, <3>2 DEF PullClient
    <3>8. /\ [answered EXCEPT !.con = c].con = c
          /\ [answered EXCEPT !.con = c].http = FALSE
          /\ [answered EXCEPT !.con = c] # None
      BY <2>2, <3>7 DEF PullClient
    <3>9. puller' \in [Streams -> PullClient \cup {None}]
      <4>1. puller' = [x \in Streams |-> puller'[x]]
        BY <3>1 DEF Restarted
      <4> QED
        BY <3>6, <3>7, <4>1 DEF PullInv
    <3>10. (\A x \in Streams : puller[x] # None /\ puller[x].http => puller[x].con = NoConn)'
      BY <3>6, <3>8 DEF PullInv
    <3>11. \A x \in Streams : ConnectionOf(x)' = IF x = s THEN {c} ELSE ConnectionOf(x)
      BY <2>6, <3>6, <3>8 DEF ConnectionOf
    <3>12. PullConnectionKnown'
      BY <2>3, <3>5, <3>11, PullsKnown
    <3> QED
      BY <3>5, <3>9, <3>10, <3>12 DEF PullInv
  <2> QED
    BY <2>5, <2>6
<1> QED
  BY <1>1, <1>2, <1>3

LEMMA SetSdpKeeps ==
  ASSUME RestInv, NEW s \in Streams, SetSdp(s), UNCHANGED <<viewers, pullDue>>
  PROVE  RestInv'
BY ConstantsFit DEF RestInv, SetSdp, NobodyWaitsForKnownSdp

LEMMA NextKeepsInv == Inv /\ [Next]_vars => Inv'
<1> SUFFICES ASSUME Inv, [Next]_vars PROVE Inv'
  OBVIOUS
<1> USE ConstantsFit DEF Inv
<1> DEFINE SameMembers == \A s \in Streams : PullMembers(s)' = PullMembers(s)
<1>1. ASSUME UNCHANGED conns PROVE ConnInv' /\ SameMembers
  BY <1>1, ConnsSame DEF conns, ConnInv, ConnTypes
<1>2. ASSUME UNCHANGED <<conns, puller>> PROVE ConnInv' /\ PullInv'
  BY <1>1, <1>2, PullersSame
<1>3. ASSUME UNCHANGED <<media, viewers, pullDue>> PROVE RestInv'
  BY <1>3 DEF RestInv, media, NobodyWaitsForKnownSdp
<1>4. ASSUME NEW gone \in SUBSET Conns, gone \cap PullConns \subseteq trans, NEW started \in BOOLEAN,
             Close(gone), puller' = Restarted(puller, gone, started)
      PROVE  ConnInv' /\ PullInv'
  <2>1. ConnInv' /\ \A s \in Streams : PullMembers(s)' = PullMembers(s) \ gone
    BY <1>4, CloseKeeps
  <2> QED
    BY <1>4, <2>1, RestartKeeps
<1>5. ASSUME NEW s \in Streams, NEW c \in Clients, UploadRequest(c, s) \/ PlayRequest(c, s)
      PROVE  Inv'
  BY <1>3, <1>5, OpeningSteps DEF UploadRequest, PlayRequest
<1>6. ASSUME NEW c \in Conns, RtpPacket(c) PROVE Inv'
  <2>1. c \in trans /\ stream[c] \in Streams
    BY <1>6 DEF RtpPacket, ConnInv
  <2>2. heard' \subseteq Conns /\ idle' \in [Conns -> 0 .. SessionTicks]
    BY <1>6, <2>1 DEF RtpPacket, ConnInv, ConnTypes, Members
  <2>3. ConnInv' /\ SameMembers
    BY <1>6, <2>2, ConnsSame DEF RtpPacket
  <2>4. PullInv'
    BY <1>6, <2>3, PullersSame DEF RtpPacket
  <2>5. PICK stored \in BOOLEAN, tagged \in BOOLEAN :
          /\ stored \/ tagged => cache[stream[c]] # None
          /\ cache' = IF stored THEN [cache EXCEPT ![stream[c]] = 0] ELSE cache
          /\ store' = IF tagged THEN [store EXCEPT ![stream[c]] = 0] ELSE store
    BY <1>6 DEF RtpPacket
  <2>6. /\ cache' \in [Streams -> 0 .. CacheTicks \cup {None}]
        /\ store' \in [Streams -> 0 .. CacheTicks \cup {None}]
        /\ \A s \in Streams : cache'[s] = None <=> cache[s] = None
    BY <2>1, <2>5 DEF RestInv
  <2>7. RestInv'
    BY <1>6, <2>6 DEF RtpPacket, RestInv, NobodyWaitsForKnownSdp
  <2> QED
    BY <2>3, <2>4, <2>7
<1>7. ASSUME NEW c \in Conns, RtcpPacket(c) PROVE Inv'
  <2>1. heard' \subseteq Conns /\ idle' \in [Conns -> 0 .. SessionTicks]
    BY <1>7 DEF RtcpPacket, ConnInv, ConnTypes
  <2>2. ConnInv' /\ SameMembers
    BY <1>7, <2>1, ConnsSame DEF RtcpPacket
  <2> QED
    BY <1>3, <1>7, <2>2, PullersSame DEF RtcpPacket
<1>8. ASSUME NEW c \in Conns, Disconnect(c) PROVE Inv'
  <2>1. {c} \in SUBSET Conns /\ {c} \subseteq trans
    BY <1>8 DEF Disconnect, ConnInv
  <2> QED
    BY <1>3, <1>4, <1>8, <2>1 DEF Disconnect
<1>9. ASSUME TransTimer PROVE Inv'
  <2>1. Dead \in SUBSET Conns /\ Dead \cap PullConns \subseteq trans
    BY PullMembersUpload DEF Dead, PullMembers, ConnInv, ConnTypes
  <2> QED
    BY <1>3, <1>4, <1>9, <2>1 DEF TransTimer
<1>10. ASSUME NEW s \in Streams, PutSdp(s) PROVE Inv'
  BY <1>2, <1>10, SetSdpKeeps DEF PutSdp
<1>11. ASSUME NEW s \in Streams, NEW r \in Requests, DownloadSdp(r, s) PROVE Inv'
  <2>1. ConnInv' /\ SameMembers
    BY <1>1, <1>11 DEF DownloadSdp
  <2>2. PullInv'
    BY <1>11, <2>1, StartPullKeeps DEF DownloadSdp
  <2>3. RestInv'
    BY <1>11 DEF DownloadSdp, RestInv, NobodyWaitsForKnownSdp
  <2> QED
    BY <2>1, <2>2, <2>3
<1>12. ASSUME NEW s \in Streams, NEW r \in Requests, GiveUp(r, s) PROVE Inv'
  <2>1. RestInv'
    BY <1>12 DEF GiveUp, RestInv, NobodyWaitsForKnownSdp
  <2> QED
    BY <1>2, <1>12, <2>1 DEF GiveUp
<1>13. ASSUME CacheTimer PROVE Inv'
  <2>1. RestInv'
    BY <1>13 DEF CacheTimer, RestInv, NobodyWaitsForKnownSdp
  <2> QED
    BY <1>2, <1>13, <2>1 DEF CacheTimer
<1>14. ASSUME NEW s \in Streams, NEW v \in Viewers, ViewerJoins(v, s) PROVE Inv'
  <2>1. ConnInv' /\ SameMembers
    BY <1>1, <1>14 DEF ViewerJoins
  <2>2. PullInv'
    BY <1>14, <2>1, StartPullKeeps DEF ViewerJoins
  <2>3. RestInv'
    BY <1>14 DEF ViewerJoins, RestInv, NobodyWaitsForKnownSdp, media
  <2> QED
    BY <2>1, <2>2, <2>3
<1>15. ASSUME NEW s \in Streams, NEW v \in Viewers, ViewerLeaves(v, s) PROVE Inv'
  <2>1. RestInv'
    BY <1>15 DEF ViewerLeaves, RestInv, NobodyWaitsForKnownSdp, media
  <2> QED
    BY <1>2, <1>15, <2>1 DEF ViewerLeaves
<1>16. ASSUME NEW s \in Streams, SdpFails(s) PROVE Inv'
  <2>1. ConnInv' /\ SameMembers
    BY <1>1, <1>16 DEF SdpFails
  <2>2. PICK started \in BOOLEAN :
          puller' = [puller EXCEPT ![s] = Start([@ EXCEPT !.http = FALSE], started)]
    BY <1>16 DEF SdpFails
  <2>3. puller[s] \in PullClient /\ puller[s].con = NoConn
    BY <1>16 DEF SdpFails, PullInv
  <2>4. [puller[s] EXCEPT !.http = FALSE] \in PullClient
    BY <2>3 DEF PullClient
  <2>5. \A x \in Streams :
          \/ puller'[x] = puller[x]
          \/ puller'[x] \in PullClient /\ puller'[x].con = NoConn /\ x = s
    BY <2>2, <2>4, StartTypes DEF PullInv
  <2>6. \A x \in Streams : ConnectionOf(x)' = ConnectionOf(x)
    BY <2>3, <2>5 DEF ConnectionOf
  <2>7. puller' \in [Streams -> PullClient \cup {None}]
    <3>1. puller' = [x \in Streams |-> puller'[x]]
      BY <2>2 DEF PullInv
    <3> QED
      BY <2>5, <3>1 DEF PullInv
  <2>8. PullInv'
    BY <2>1, <2>5, <2>6, <2>7, PullsKnown DEF PullInv
  <2> QED
    BY <1>3, <1>16, <2>1, <2>8 DEF SdpFails
<1>17. ASSUME NEW s \in Streams, NEW c \in PullConns \cup {NoConn}, SdpArrives(s, c)
       PROVE  Inv'
  BY <1>17, OpeningSteps, SetSdpKeeps DEF SdpArrives
<1>18. ASSUME PullTimer PROVE Inv'
  <2>1. {s \in Streams : IsUseless(s)} \in SUBSET Streams
    OBVIOUS
  <2>2. ConnInv' /\ PullInv'
    BY <1>18, <2>1, StopKeeps DEF PullTimer
  <2>3. RestInv'
    BY <1>18 DEF PullTimer, RestInv, NobodyWaitsForKnownSdp, media
  <2> QED
    BY <2>2, <2>3
<1>19. ASSUME NEW s \in Streams, StoreTimer(s) PROVE Inv'
  <2>1. {s} \in SUBSET Streams
    OBVIOUS
  <2>2. ConnInv' /\ PullInv'
    BY <1>19, <2>1, StopKeeps DEF StoreTimer
  <2>3. RestInv'
    BY <1>19 DEF StoreTimer, RestInv, NobodyWaitsForKnownSdp
  <2> QED
    BY <2>2, <2>3
<1>20. ASSUME Tick PROVE Inv'
  <2>1. \A c \in Conns : idle[c] \in 0 .. SessionTicks /\ idle[c] # None
    BY DEF ConnInv, ConnTypes
  <2>2. idle' \in [Conns -> 0 .. SessionTicks]
    <3>1. \A c \in Conns : Older(idle[c], SessionTicks) \in 0 .. SessionTicks
      BY <2>1, AgesFit
    <3>2. idle' = [c \in Conns |-> IF c \in trans THEN Older(idle[c], SessionTicks) ELSE 0]
      BY <1>20 DEF Tick
    <3>3. 0 \in 0 .. SessionTicks
      OBVIOUS
    <3> QED
      BY <3>1, <3>2, <3>3
  <2>3. ConnInv' /\ SameMembers
    BY <1>20, <2>2, ConnsSame DEF Tick, ConnInv, ConnTypes
  <2>4. ASSUME NEW s \in Streams, puller[s] # None
        PROVE  puller'[s] \in PullClient /\ puller'[s].http = puller[s].http
               /\ puller'[s].con = puller[s].con
    <3>1. puller[s] \in PullClient
      BY <2>4 DEF PullInv
    <3>2. puller'[s] = [puller[s] EXCEPT !.retry = Older(@, RetryTicks),
                                          !.start = Older(@, UselessTicks)]
      BY <1>20, <2>4 DEF Tick
    <3>3. puller[s].retry \in 0 .. RetryTicks /\ puller[s].start \in 0 .. UselessTicks
      BY <3>1 DEF PullClient
    <3>4. /\ Older(puller[s].retry, RetryTicks) \in 0 .. RetryTicks
          /\ Older(puller[s].start, UselessTicks) \in 0 .. UselessTicks
      BY <3>3, AgesFit
    <3> QED
      BY <3>1, <3>2, <3>4 DEF PullClient
  <2>5. \A s \in Streams : puller[s] = None => puller'[s] = None
    BY <1>20 DEF Tick
  <2>6. puller' \in [Streams -> PullClient \cup {None}]
    BY <1>20, <2>4, <2>5 DEF Tick
  <2>7. \A s \in Streams : ConnectionOf(s)' = ConnectionOf(s)
    BY <2>4, <2>5 DEF ConnectionOf
  <2>8. PullInv'
    BY <2>3, <2>4, <2>5, <2>6, <2>7, PullsKnown DEF PullInv
  <2>9. /\ cache' \in [Streams -> 0 .. CacheTicks \cup {None}]
        /\ store' \in [Streams -> 0 .. CacheTicks \cup {None}]
        /\ \A s \in Streams : cache'[s] = None <=> cache[s] = None
    <3>1. ASSUME NEW s \in Streams
          PROVE  /\ Older(cache[s], CacheTicks) \in 0 .. CacheTicks \cup {None}
                 /\ Older(store[s], CacheTicks) \in 0 .. CacheTicks \cup {None}
                 /\ Older(cache[s], CacheTicks) = None <=> cache[s] = None
      <4>1. cache[s] \in 0 .. CacheTicks \cup {None} /\ store[s] \in 0 .. CacheTicks \cup {None}
        BY DEF RestInv
      <4> QED
        BY <4>1, AgesFit
    <3> QED
      BY <1>20, <3>1 DEF Tick
  <2>10. RestInv'
    BY <1>20, <2>9 DEF Tick, RestInv, NobodyWaitsForKnownSdp
  <2> QED
    BY <2>3, <2>8, <2>10
<1>21. ASSUME Crash PROVE Inv'
  <2>1. ConnTypes'
    BY <1>21 DEF Crash, ConnTypes
  <2>2. ConnInv'
    BY <1>21, <2>1 DEF Crash, ConnInv
  <2>3. \A s \in Streams : PullMembers(s)' = {} /\ ConnectionOf(s)' = {}
    BY <1>21 DEF Crash, PullMembers, ConnectionOf
  <2>4. PullInv'
    BY <1>21, <2>2, <2>3, PullsKnown DEF Crash, PullInv
  <2>5. RestInv'
    BY <1>21 DEF Crash, RestInv, NobodyWaitsForKnownSdp
  <2> QED
    BY <2>2, <2>4, <2>5
<1>22. ASSUME UNCHANGED vars PROVE Inv'
  BY <1>2, <1>3, <1>22 DEF vars
<1> QED
  BY <1>5, <1>6, <1>7, <1>8, <1>9, <1>10, <1>11, <1>12, <1>13, <1>14, <1>15, <1>16,
     <1>17, <1>18, <1>19, <1>20, <1>21, <1>22 DEF Next

LEMMA InvHolds == Spec => []Inv
BY InitInv, NextKeepsInv, PTL DEF Spec

\* Every variable keeps its type: no age passes its limit and the groups
\* hold connections, whatever requests and time-outs come.
THEOREM GroupsTypeOK == Spec => []TypeOK
<1>1. Inv => TypeOK
  BY DEF Inv, ConnInv, ConnTypes, PullInv, RestInv, TypeOK
<1> QED
  BY <1>1, InvHolds, PTL

\* RTPTransManager uses c->trans of every member of m_stream_groups without
\* a test.  For any number of connections and requests: every transport is
\* in the group of its stream, and a member without one asked for another
\* stream.
THEOREM OnlyMovedMembersAreClosed == Spec => []ClosedMembersMoved
<1>1. Inv => ClosedMembersMoved
  BY DEF Inv, ConnInv, ClosedMembersMoved
<1> QED
  BY <1>1, InvHolds, PTL

\* m_rtp_connection of a RtpPullClient neither dangles nor misses the pull
\* connection of its stream, also when clients repeat their requests.
THEOREM PullConnectionStaysKnown == Spec => []PullConnectionKnown
<1>1. Inv => PullConnectionKnown
  BY DEF Inv, PullInv
<1> QED
  BY <1>1, InvHolds, PTL

\* No HTTP request for an SDP is left waiting beside a cache that has one.
THEOREM KnownSdpIsServed == Spec => []NobodyWaitsForKnownSdp
<1>1. Inv => NobodyWaitsForKnownSdp
  BY DEF Inv, RestInv
<1> QED
  BY <1>1, InvHolds, PTL

\* A second uploader of a stream: the uploaders that are not members of the
\* group when they ask find at most one before them, and destroy it.
LEMMA NextReplaces ==
  ASSUME Inv, [Next]_vars, NEW s \in Streams, OneUploader(s)
  PROVE  OneUploader(s)' \/ \E c \in group[s] \cap Clients : UploadRequest(c, s)
<1> USE ConstantsFit DEF Inv
<1>1. /\ OneUploader(s) <=> \A c, d \in Own(s) : c = d
      /\ OneUploader(s)' <=> \A c, d \in Own(s)' : c = d
  BY DEF OneUploader, Own
<1>2. ASSUME Own(s)' \subseteq Own(s) PROVE OneUploader(s)'
  BY <1>1, <1>2
<1>3. ASSUME UNCHANGED <<type, stream, group>> PROVE OneUploader(s)'
  BY <1>2, <1>3 DEF Own, Members
<1>4. ASSUME NEW gone \in SUBSET Conns, Close(gone) PROVE OneUploader(s)'
  BY <1>2, <1>4, CloseKeeps
<1>5. ASSUME NEW c \in Conns, NEW x \in Streams, NEW gone \in Replaced(c, x),
             Open(c, "uploader", x, gone), c \notin group[x],
             c \in PullConns => type[c] = "free"
      PROVE  OneUploader(s)'
  <2>1. gone \in SUBSET Conns
    BY DEF Replaced, Members, ConnInv, ConnTypes
  <2>2. /\ x # s => Own(s)' \subseteq Own(s)
        /\ \A d \in Own(x)' : d = c \/ (d \in Own(x) /\ d \notin gone)
    BY <1>5, <2>1, OpenKeeps
  <2>3. CASE x # s
    BY <1>2, <2>2, <2>3
  <2>4. CASE x = s
    <3>1. Own(s) = {} \/ gone \cap Own(s) # {}
      BY <1>5, <2>4 DEF Replaced, Own, Members
    <3>2. Own(s) \subseteq gone
      BY <1>1, <3>1
    <3> QED
      BY <1>1, <2>2, <2>4, <3>2
  <2> QED
    BY <2>3, <2>4
<1>6. ASSUME NEW x \in Streams, NEW c \in Clients, UploadRequest(c, x)
      PROVE  OneUploader(s)' \/ \E d \in group[s] \cap Clients : UploadRequest(d, s)
  <2>1. PICK gone \in Replaced(c, x) : Open(c, "uploader", x, gone)
    BY <1>6 DEF UploadRequest
  <2>2. c \notin PullConns
    BY ConnAssumption
  <2>3. CASE c \notin group[x]
    BY <1>5, <2>1, <2>2, <2>3
  <2>4. CASE c \in group[x] /\ x = s
    BY <1>6, <2>4
  <2>5. CASE x # s
    <3>1. gone \in SUBSET Conns
      BY DEF Replaced, Members, ConnInv, ConnTypes
    <3> QED
      BY <1>2, <2>1, <2>2, <2>5, <3>1, OpenKeeps
  <2> QED
    BY <2>3, <2>4, <2>5
<1>7. ASSUME NEW x \in Streams, NEW c \in Clients, PlayRequest(c, x) PROVE OneUploader(s)'
  <2>1. Open(c, "player", x, {}) /\ c \notin PullConns
    BY <1>7, ConnAssumption DEF PlayRequest
  <2> QED
    BY <1>2, <2>1, OpenKeeps
<1>8. ASSUME NEW x \in Streams, NEW c \in PullConns \cup {NoConn}, SdpArrives(x, c)
      PROVE  OneUploader(s)'
  <2>1. CASE UNCHANGED conns
    BY <1>3, <2>1 DEF conns
  <2>2. CASE ~UNCHANGED conns
    <3>1. PICK gone \in Replaced(c, x) : Open(c, "uploader", x, gone)
      BY <1>8, <2>2 DEF SdpArrives
    <3>2. c \in PullConns /\ type[c] = "free"
      BY <1>8, <2>2 DEF SdpArrives
    <3>3. c \notin group[x]
      BY <3>2 DEF ConnInv
    <3> QED
      BY <1>5, <3>1, <3>2, <3>3
  <2> QED
    BY <2>1, <2>2
<1>9. ASSUME NEW c \in Conns, RtpPacket(c) \/ RtcpPacket(c) PROVE OneUploader(s)'
  BY <1>3, <1>9 DEF RtpPacket, RtcpPacket
<1>10. ASSUME TransTimer \/ \E c \in Conns : Disconnect(c) PROVE OneUploader(s)'
  <2>1. Dead \in SUBSET Conns /\ \A c \in Conns : {c} \in SUBSET Conns
    BY DEF Dead, ConnInv, ConnTypes
  <2> QED
    BY <1>4, <1>10, <2>1 DEF TransTimer, Disconnect
<1>11. ASSUME PullTimer \/ \E x \in Streams : StoreTimer(x) PROVE OneUploader(s)'
  <2>1. PICK stopped \in SUBSET Streams : StopPull(stopped)
    BY <1>11 DEF PullTimer, StoreTimer
  <2> QED
    BY <1>2, <2>1, StopKeeps
<1>12. ASSUME Crash PROVE OneUploader(s)'
  BY <1>1, <1>12 DEF Crash, Own, Members
<1>13. ASSUME \/ Tick \/ CacheTimer
              \/ \E x \in Streams : PutSdp(x) \/ SdpFails(x)
              \/ \E x \in Streams, r \in Requests : DownloadSdp(r, x) \/ GiveUp(r, x)
              \/ \E x \in Streams, v \in Viewers : ViewerJoins(v, x) \/ ViewerLeaves(v, x)
              \/ UNCHANGED vars
       PROVE  OneUploader(s)'
  BY <1>3, <1>13 DEF Tick, CacheTimer, PutSdp, SdpFails, DownloadSdp, GiveUp, ViewerJoins,
                     ViewerLeaves, vars, conns
<1> QED
  BY <1>6, <1>7, <1>8, <1>9, <1>10, <1>11, <1>12, <1>13 DEF Next

\* _open_trans destroys the previous uploader, whether a client or a pull
\* uploads and whoever has moved to or from the stream: a stream with one
\* uploader gets a second one only by a request of a member of its group.
THEOREM NewcomersReplace == Spec => NewcomerReplaces
<1>1. Inv /\ [Next]_vars => [KeepsOneUploader]_vars
  BY NextReplaces DEF KeepsOneUploader
<1> QED
  BY <1>1, InvHolds, PTL DEF Spec, NewcomerReplaces

\* No step takes a player's transport but its own time-out and its own
\* socket: _open_trans destroys uploaders only, and stopping a pull destroys
\* a connection of the pull client, which no client owns.
LEMMA NextKeepsPlayers ==
  ASSUME Inv, [Next]_vars, NEW c \in Clients, type[c] = "player", c \in trans \ trans'
  PROVE  c \in Dead \/ Disconnect(c) \/ Crash
<1>1. \A x \in Conns, s \in Streams : \A gone \in Replaced(x, s) : c \in gone => c = x
  BY DEF Replaced, Members
<1>2. \A s \in Streams : c \notin ConnectionOf(s)
  BY ConnAssumption DEF Inv, PullInv, RestInv, TypeOK, PullClient, ConnectionOf
<1>3. ASSUME NEW x \in Conns, NEW t, NEW s \in Streams, NEW gone \in Replaced(x, s),
             Open(x, t, s, gone)
      PROVE  FALSE
  BY <1>1, <1>3 DEF Open
<1>4. ASSUME NEW x \in Clients, NEW s \in Streams, UploadRequest(x, s) PROVE FALSE
  BY <1>3, <1>4, ConstantsFit DEF UploadRequest
<1>5. ASSUME NEW x \in Clients, NEW s \in Streams, PlayRequest(x, s) PROVE FALSE
  BY <1>5 DEF PlayRequest, Open
<1>6. ASSUME NEW s \in Streams, NEW x \in PullConns \cup {NoConn}, SdpArrives(s, x)
      PROVE  FALSE
  BY <1>3, <1>6, ConstantsFit DEF SdpArrives, conns
<1>7. ASSUME NEW stopped \in SUBSET Streams, StopPull(stopped) PROVE FALSE
  BY <1>2, <1>7 DEF StopPull, Close
<1>8. ASSUME PullTimer \/ \E s \in Streams : StoreTimer(s) PROVE FALSE
  BY <1>7, <1>8 DEF PullTimer, StoreTimer
<1>9. ASSUME NEW x \in Conns, Disconnect(x) PROVE Disconnect(c)
  BY <1>9 DEF Disconnect, Close
<1>10. ASSUME TransTimer PROVE c \in Dead
  BY <1>10 DEF TransTimer, Close
<1>11. ASSUME NEW x \in Conns, RtpPacket(x) \/ RtcpPacket(x) PROVE FALSE
  BY <1>11 DEF RtpPacket, RtcpPacket
<1>12. ASSUME \/ Tick \/ CacheTimer
              \/ \E s \in Streams : PutSdp(s) \/ SdpFails(s)
              \/ \E s \in Streams, r \in Requests : DownloadSdp(r, s) \/ GiveUp(r, s)
              \/ \E s \in Streams, v \in Viewers : ViewerJoins(v, s) \/ ViewerLeaves(v, s)
              \/ UNCHANGED vars
       PROVE  FALSE
  BY <1>12 DEF Tick, CacheTimer, PutSdp, SdpFails, DownloadSdp, GiveUp, ViewerJoins,
               ViewerLeaves, vars, conns
<1> QED
  BY <1>4, <1>5, <1>6, <1>8, <1>9, <1>10, <1>11, <1>12 DEF Next

\* A player loses its transport only by its own silence or its own socket, or
\* with the process: never because an uploader is replaced or a pull is
\* stopped.
THEOREM PlayersStayKept == Spec => PlayersAreKept
<1> DEFINE Keeps ==
      \A c \in Clients :
        type[c] = "player" /\ c \in trans \ trans' => c \in Dead \/ Disconnect(c) \/ Crash
<1>1. Inv /\ [Next]_vars => Keeps
  BY NextKeepsPlayers
<1>2. Inv /\ [Next]_vars => [Keeps]_vars
  BY <1>1
<1>3. Spec => [][Keeps]_vars
  BY <1>2, InvHolds, PTL DEF Spec
<1> QED
  BY <1>3 DEF PlayersAreKept
=============================================================================
