----------------------------- MODULE MCFlvCache -----------------------------
(* FlvCache on a small instance, with one bound: the RTP cache goes only   *)
(* while there is no store.  A store that gets no tags for want of it is    *)
(* like one that gets none.                                                *)
EXTENDS FlvCache

MCNext == Next /\ (store' # None => described')

MCSpec == Init /\ [][MCNext]_vars /\ Fairness
=============================================================================
