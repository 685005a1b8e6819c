---------------------------- MODULE MCFlvRemuxer ----------------------------
(* Instances of FlvRemuxer for TLC.                                        *)
EXTENDS FlvRemuxer

MCLayouts == {<<"sps", "pps", "picture">>, <<"picture", "start", "rest", "rest">>}
MCShort == {<<"picture">>, <<"sps", "pps", "picture">>}

MCConfs == {[threshold |-> 0, check |-> TRUE], [threshold |-> 1, check |-> FALSE]}
=============================================================================
