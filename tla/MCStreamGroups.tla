--------------------------- MODULE MCStreamGroups ---------------------------
(* Small instances of StreamGroups; the .cfg files give the constants.     *)
(* Two bounds on what clients ask for.  "Bare" streams are only there to   *)
(* move to and from: "Movers" may upload them, nobody plays them and they  *)
(* have no SDP.  And there are HTTP clients, and an FLV store, only while  *)
(* every connection has asked once, which is when the groups are what the  *)
(* rest of the code takes them for.                                        *)
EXTENDS StreamGroups

CONSTANTS Bare, Movers

AskedOnce ==
  /\ \A s \in Streams : group[s] \subseteq attached
  /\ \A s \in Bare : group[s] = {}

MCNext ==
  /\ Next
  /\ \A s \in Bare : /\ group'[s] \subseteq Movers
                     /\ puller'[s] = None /\ cache'[s] = None
  /\ AskedOnce' \/ \A s \in Streams :
       viewers'[s] = {} /\ waiters'[s] = {} /\ store'[s] = None

MCSpec == Init /\ [][MCNext]_vars

MCFairSpec == MCSpec /\ Fairness
=============================================================================
