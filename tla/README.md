# A verification development for the RTP media server (`server/interlive_rtp`)

The repository is an RTP live-streaming server. An *uploader* publishes a
stream over UDP or TCP with the SDP put over HTTP; *players* subscribe over UDP
or TCP (RTP) or over HTTP (FLV). A server that has players of a stream but no
uploader *pulls* it from the next node. Everything runs in one libevent loop:
there are no threads and no locks. What is hard is therefore not data races but
the order of callbacks, timers and packets; state kept by one callback and used
by a later one; objects destroyed inside the call that uses them; and arithmetic
on 16-bit sequence numbers and 32-bit timestamps that wrap.

Source paths below are relative to `src/server/interlive_rtp/`.

## Inventory

| Component | Source | State | Operations |
| --- | --- | --- | --- |
| RTP packet cache | `media_manager/rtp_block_cache.cpp` `RTPCircularCache`, `fragment/rtp_block.cpp` | deque of blocks, latched ssrc, sample rate | `set_rtp`, `_fill_in`, `_adjust`, `clean`, `reset`/`init`, `get_by_seq` |
| Stream cache manager | `media_manager/rtp_block_cache.cpp` `RTPMediaCache`, `RtpCacheManager` | one cache and SDP per stream, time of last packet | `set_sdp`, `set_rtp`, `get_sdp`, `get_rtp_by_seq`, expiry timer |
| Stream groups | `rtp_trans/rtp_trans_manager.cpp` | set of connections per stream, one transport per connection | `_open_trans`, `_close_trans`, `OnRecvRtp`, `OnRecvRtcp`, `ForwardRtp`, 10 ms timer |
| Transports and sessions | `rtp_trans/rtp_trans.cpp`, `rtp_receiver_*`, `rtp_sender_*`, `rtp_session.cpp` | sessions by ssrc; NACK lists, packet history, pending FEC, liveness times | `on_handle_rtp`, `on_handle_rtcp`, `on_timer`, `is_live`, `destroy` |
| Connections | `connection_manager/RtpConnectionManager.cpp`, `RtpConnection.cpp` | table of UDP addresses, TCP connections that wait, connection type, buffers, write events, SDP waiters | accept, read, `OnReadPacket`, write, close, 1 s timer (5 s limit), `OnSdp` |
| Relay (pull) | `relay/RtpRelay.cpp`, `relay/RelayManager.cpp`, `common/TaskManager.cpp` | pull clients by stream, retry delay, posted tasks | `StartPull`, `StopPull`, `Start`, `GetNextNode`, `OnSdp`, `OnConnectionClosed`, 10 s timer |
| Relay (push) | `relay/RtpRelay.cpp` push client | compiled out (`ENABLE_RTP_PUSH` is commented out in `RelayManager.cpp`) | |
| Jitter buffer | `media_manager/jitter_buffer.cpp` | queue by sequence number, lost set, last block out | `SetRTPPacket`, `GetRTPPacket`, `_reset` |
| FLV remuxer | `media_manager/rtp2flv_remuxer.cpp` | jitter buffers, SDP, FLV tags under construction | `set_sdp_char`, `set_rtp` |
| FLV cache and fragments | `media_manager/cache_manager.cpp`, `circular_cache.cpp`, `fragment/` | miniblocks per stream, time of last push | `set_flv_tag`, `get_latest_miniblock`, `get_miniblock_by_seq`, expiry |
| FLV players | `connection_manager/FlvConnectionManager.cpp`, `flv_live_player.cpp` | connections, last block sent, overuse flag | accept, write, close |
| Send queue | `network/rtp_send_queue.cpp` | FIFO of datagrams | push, send |
| Network quality | `rtp_trans/rtp_sender_trans.cpp` `update_packet_lost_rate` | loss rate, drop-video flag, time of recovery | timer |
| FEC | `rtp_sender_session.cpp` `_on_handle_rtp_fec`, `_on_handle_rtp_f_fec`; `rtp_receiver_session.cpp` `_recover_*` | packet history, FEC packets that wait, the buffer of a recovered packet | a FEC packet after a group, arrival of data or FEC, nested recovery |
| RTCP packets | `avformat/rtcp_enc.cpp`, `rtcp_dec.cpp`, `rtcp_helper.cpp` | the reader's position, block end, state, items left | build, `Iterate` |
| Other wire formats | `avformat/`, `avcodec/`, `cmd_protocol/` | none | parse, encode |
| Utilities | `server/util`, `config/`, `lib/stat`, `third_party/` | | |

### How they interact

A packet read by a connection goes to `RTPTransManager::OnRecvRtp`, which stores
it in the stream cache, hands it to the connection's transport (loss accounting,
NACK list, FEC recovery) and forwards it to every player of the group. A player's
NACK reaches the sender session, which asks the stream cache for the packet by
number. The 10 ms timers send NACKs, expire sessions and close connections; the
close callback removes the connection from its group and, for a pull connection,
makes the pull client start again.

### What makes each part correct

| Component | Correct when | Hard because |
| --- | --- | --- |
| RTP packet cache | the deque is a contiguous window with a packet at both ends; `get_by_seq` returns what was stored under that number | 16-bit wrap, late and duplicate packets, gaps, restart on a timestamp jump |
| Stream groups | group members have a transport; one uploader per stream; players survive the replacement of uploaders | a request destroys other connections, or its own, while it iterates over them; any connection may ask again, also for another stream; closing calls back into the relay |
| Relay (pull) | the connection of a pull is known, a failed pull is retried, a useless one is cut | three asynchronous outcomes (HTTP, connection, timers), each of which restarts the client |
| SDP over HTTP | a request is answered as soon as there is an SDP | the SDP, the request and the hang-up come in any order |
| NACK sessions | what is missing and recent is requested, nothing else is; traffic ends | loss, duplication, reordering, FEC recovery, two limits on the list, two budgets |
| Jitter buffer | packets come out once and in order, after a bounded wait | three descriptions of one gap kept by different branches |
| Connections | the table leads to the live connection of an address; silent TCP connections go; what waits to be sent is watched | one connection destroys others while a third is read; the timer is started and stopped inside its own callback |
| FEC | what is recovered is what was sent, and nothing that could be recovered waits | a queue of incomplete packets, nested recovery in one buffer, packets late at the sender |
| FLV remuxer | a frame with a hole does not reach the cache, a whole one does; tags of both tracks come out by time | parameter sets, whole pictures and fragments share one buffer; two clocks, wraps, a new description |
| FLV cache and players | a player gets each miniblock once and in order from a key tag on, and is woken for each | readers hold sequence numbers into a cache that is trimmed behind them and made anew with numbers from 0 |
| RTCP packets | what is read is what was put in; the reader ends and stays in the packet | lengths and counts come from the packet; masks across the wrap; blocks nobody knows |

## Modules

| Module | What it is |
| --- | --- |
| `SeqNum` | serial arithmetic on sequence numbers, modulo `SeqMod` |
| `RtpWindow` | abstract specification: what the packet cache promises, as a set |
| `RtpCircularCache`, `MCRtpCircularCache` | the deque of `RTPCircularCache`; the refinement of `RtpWindow` |
| `StreamGroups`, `MCStreamGroups` | groups, transports, connections, SDP requests, caches, FLV players and pull clients |
| `NackLink`, `MCNackLink` | a sender session and a receiver session over a network |
| `JitterBuffer`, `MCJitterBuffer` | the jitter buffer and the remuxer's loop that drains it |
| `FlvRemuxer`, `MCFlvRemuxer` | RTP packets, in order and some missing, into FLV tags merged by time |
| `FlvCache`, `MCFlvCache` | the store of FLV tags of a stream and the HTTP players that read it |
| `FecRecovery`, `MCFecRecovery` | both kinds of FEC between two servers |
| `Connections`, `MCConnections` | TCP and UDP connections, their table, timer and write events |
| `RtcpParser` | the state machine that reads a compound RTCP packet |
| `Rtcp`, `MCRtcp` | how such a packet is built, composed with `RtcpParser` |
| `RtpCircularCacheProofs`, `StreamGroupsProofs`, `NackLinkProofs`, `JitterBufferProofs`, `FlvRemuxerProofs`, `FlvCacheProofs`, `ConnectionsProofs`, `ReceiverProofs` | lemmas and theorems (`ReceiverProofs`: on `FecRecovery`, `RtcpParser` and `Rtcp`) |

How they meet: a packet that `Connections` reads is the arrival that keeps a
session alive in `StreamGroups`, is stored by `RtpCircularCache`, and goes
through `FecRecovery` and `NackLink` at the receiver. The same packet passes
`JitterBuffer` and `FlvRemuxer`, whose tags `FlvCache` stores and sends. Every
module says in its header which neighbour has what it leaves out.

Every module of the code is kept to the level of its control. A definition
named "faulty form" in a comment is a plausible bug in the definition that
follows it; substituting it must break the property named with it in
`PROJECT.json`.

### `RtpCircularCache`

`cache` is `_circular_cache`, a sequence of packets and of `NoBlock` for the
numbers not received; `ssrc` is `_ssrc`; `inited` says whether the SDP has the
track. `set_rtp` is three actions, one per way it ends with a stored packet:
`Restart` (empty window, timestamp jump, or case 2 of the code's comment),
`PushBack` (case 1, with the padding and `_adjust` in the same step), and
`FillIn` (case 3). Rejected packets change nothing. `SetSdp` is `reset` and
`init`. `GetBySeq` is the query with each of its results, the read past the end
and the `assert(0)` among them. `_adjust`'s two loops are one `CHOOSE` of the
index they stop at. Timestamps wrap modulo `TsMod`, and the case of
`abs(INT_MIN)` is kept.

`RtpWindow` says the same without a deque: a set of packets, at most one per
number, less than `MaxSize` behind the newest. `ImplementsWindow` is the
refinement, checked by TLC and proved (`CacheImplementsWindow`).

### `StreamGroups`

An action is one callback of the event loop, with everything it calls: an
upload request destroys the previous uploaders, whose close callback restarts a
pull client, in one step. The state is the code's own: `group` is
`m_stream_groups`, `trans` the connections with a transport, `puller` the map of
pull clients with their HTTP request, connection and two ages, `waiters` the
requests for an SDP, `viewers` the FLV players, `cache` and `store` the ages of
the RTP cache and of the FLV store.

*Time.* A tick is slightly longer than 10 s: a session dies after 1 tick
(`session_timeout`, 10 s), a pull may be useless after 1 (10 s), a cache or
store expires after 2 (20 s), and a pull client restarts at once after 3 (30 s).
The 10 ms timers are urgent: time does not pass while one of them has something
to do. The 10 s pull timer runs once per tick.

*Erasing while iterating.* `_open_trans` erases the element its iterator stands
on. Which of the remaining uploaders the loop then visits is undefined, so the
model destroys any set of them with at least one whose stream it is (`Replaced`).

*Requests that come again.* `OnReadPacket` takes any request of any connection at
any time, and so does the model: the same request again, the other role, another
stream. `_open_trans` overwrites `type`, `streamid` and `trans` and inserts the
connection in one more group; nothing takes it out of the one it was in, and
`_close_trans` erases it from one group only (`GroupsWithout`). What follows is
in the model: a connection may be destroyed by its own request and be opened
again, in its group but no longer reached by its socket or address (`attached`);
a connection that asked for another stream is a member of two groups; and when
its transport is closed, the other group has a member whose transport is `NULL`
(`Doomed`), of which the process dies at the next use. `Crash` is that, with the
restart by cron. The properties that the code then does not have are kept as
configurations (below): `StreamsHaveOneUploader`, `MembersAttached`,
`GroupsAreOpen`. What it does have is that such requests are the only reason:
`ClosedMembersMoved`, `NewcomerReplaces`, `PlayersAreKept`.

*Left out.* Connections without a request yet, which are in no group; the
contents of packets and SDPs; packets that `OnReadPacket` rejects, which end the
connection like a closed socket (a rejected request has set `c->type` by then,
which is left out). A destroyed connection that is not reached any more may take
the table's entry from a newer one of its address; which ones `Connections` says,
here it is any set (`Taken`). Posted retries never run, because
`TaskManger::Init` has no caller (see Findings), so the model has no action for
them.

### `NackLink`

`snd` and `rcv` are the session objects, `rtpNet` and `nackNet` what is in
flight. The network may lose, keep (duplicate) and reorder everything. The
items of a NACK are handled one by one and independently, so the NACKs in
flight are a set of numbers. `Arrives` is the whole of `on_handle_rtp`: the FEC
stage notes the packet in `_pkt_history`, may recover another one, which is
handled first, and then the NACK stage handles the packet. Which packets a FEC
packet covers is abstracted to any packet sent and not yet noted. A tick is
slightly longer than `min_same_nack_interval` (30 ms).

`base` and `since` are history variables for the properties. The test on
`_is_dirty` in `on_timer` is always false, because the line above clears it;
the trimming in `on_timer` never finds anything, since every packet trims the
list (`TypeOK` bounds it). `quiet` is the test on `_last_nacks_dirty`.

Left out: reports, rates, the loss statistics; TCP players, whose `SendNackRtp`
returns -1.

### `JitterBuffer`

`queue` counts the copies of each packet in `_queue` (a multiset), `lost`,
`jitter`, `last` and `out` are `_lost_queue`, `_jitter_block`,
`_last_queue_block` and `_last_out_block`. `SetFirst`, `SetJump`, `SetLate`,
`SetQueue` are the branches of `SetRTPPacket`; `GetNothing` and `Get` are the
two results of `GetRTPPacket`, which `draining` repeats until it yields nothing,
as `RTP2FLVRemuxer::set_rtp` does. `begin()` of an emptied set is any number;
`LostIsMissing` shows that it is never read. Timestamps follow from the place in
the stream, so streams with B-frames (timestamps that go back) are not covered,
nor is a stream that wraps.

### `FlvRemuxer`

`meta` is `Rtp2FlvTransformInfo` with the two FLV objects, `stored` whether the
FLV cache has the stream, `out` what was handed to it; `source` is the encoder
and the network before the jitter buffer. `Video` and `Audio` are `set_rtp` of
one packet, all the way to the cache; a lost packet is a `Video` that changes
the source only. `Stamped` is the time of a tag with the wrap of the RTP clock,
`Buffered` the check for lost fragments, `Put` is `_put_video_frame`, `Merged`
the loops of `_set_flv_to_mm`. The first byte of a tag without a picture is that
of the tag before, and before any tag what was in the memory: `VideoData` has
both outcomes. `Expire` is the time-out of the store.

*Limits.* A call of `set_rtp` hands on one packet, whereas the code loops while
the jitter buffer yields any; nothing happens between the turns of that loop.
The descriptions of the model have no parameter sets. `set_sdp_char` passes those
of an SDP with `sprop-parameter-sets` to `set_rtp` as packets
(rtp2flv_remuxer.cpp:253-281), with a copy whose length is negative and a header
that is not initialised; what follows is undefined and not modelled. After
`Expire` the source is undescribed (`kind` is "none"): the new jitter buffers
have no time base, and packets are dropped until the next description.
Two checks of the code are weaker than their name and the properties are worded
accordingly: a lost *start* fragment after a whole NAL unit is not noticed, and
the fragments of a second NAL unit after a whole one, or a frame whose packet
numbers wrap, are judged broken though nothing is missing.

The properties are worded as the proofs need them, and the proofs found three
more limits of the code. `_last_video_seq` holds 0 for "no fragment yet", so that
a start numbered 0 is not seen and what follows it may have a hole. The frame in
the buffer is told from the next one by its RTP time, so that frames a whole
cycle of the clock apart are one frame to the code. And `set_sdp_char` keeps both
what is known of the frame it throws away and the last RTP times:
`WholeFramesAreKept` and `QueuedAreAhead` are stated of the first source, since
after a second description a whole frame may be judged by the one before, and
the first tag may be taken for a wrap, so that those behind it are dropped in
the merge. The last two need a longer stream than the run has.

### `FlvCache`

`store` is the store of the stream with its miniblocks, the next number and how
many rings of the 10 s timer it was quiet. `described` says that packets get
through to the remuxer's output: a description came since the RTP cache and the
remuxer's jitter buffers were made (`Sdp`); the time-out of a store ends it
(`OnTimer`), as `_destroy_stream_store` drops the remuxer's stream, and new
jitter buffers drop everything without a time base. `conn` are the connections of
`FlvConnectionManager`: what was asked for, whether the write event is watched,
the units in `wb`, the fields of `FlvLivePlayer`, and, for the properties, the
blocks it was sent. `SetFlvHeader` and `SetFlvTag` are what the remuxer calls,
each with the notification of every player; `OnTimer` trims or destroys;
`Write` is one write event, `OnWrite` of the player first and then what the
socket takes. A tag that does not fit in `wb` is dropped and the cursor goes on,
as in `copy_payload_to_buffer`.

`Prompt` are players that are served before the next tag or timer comes. The
code does not promise that of a client; it is the meaning of "a player that
keeps up" in `PromptKeepsUp` and `ViewerStarts`. The other properties hold of
every player.

### `FecRecovery`

The content of a packet is the set of packets XORed in it, so that recovery
gives `{n}` exactly when it gives packet `n`. `MaskFecs` and `GridFecs` are the
FEC packets the sender makes after a packet, of those it has; `Send` may give
the sender packets late, so that an XOR lacks some. `HandleData` and `HandleFec`
are `OnRecvRtp` of the two kinds: `Taken` is one level of the recursion (cache,
reset at the wrap, history, the scan of the pending FEC packets up to the first
that recovers), `TakenAll` the recursion, `Unwound` the way back, on which every
level passes on what the shared buffer `_pkt_data` holds then.

*Limits.* `MaxLateGrid` is 0 in the runs: in a grid the FEC packet does not say
which packets it lacks (`rtp_sender_session.cpp:98` skips them), and a receiver
that has only the others computes one that never was: the configuration
`MCFecGrid` shows it. The runs show of packets late at the sender only what
becomes of FEC packets with a mask. The repository's configuration has `fec_rtp_count` 0 for video
and 4 with interleave 2 for audio. A receiver reads `_pkt_history` without
reducing the number modulo 2^16 for an FEC packet across the wrap; no FEC
packet of this sender spans it in a way that matters, and the model takes the
numbers modulo 2^16.

### `Connections`

`server` is one record, the state of both managers; an operator takes the server
before and gives it after, as `OnReadPacket` calls `_open_trans`, which calls
`Destroy`, which calls back. `Accept`, `TcpRead`, `TcpWrite`, `TcpTimer`,
`UdpRead` and `UdpWrite` are the callbacks; `Close` is every other way a
connection ends. Which uploaders a request replaces is left open, as in
`StreamGroups`.

A request is granted whatever the connection asked for before (`Opened`). An
uploader that asks again may be among those its own request destroys: it then
keeps its type, its address and its place in the group, but its socket is closed
and, over UDP, its entry in the table is gone, so that the next datagram of its
address makes a second connection (`Lost`). `OnlyRepeatersAreLost` says that this
is the only way a UDP connection becomes unreachable, but for the end of a lost
one of the same address, which erases by address.

*Limits.* One stream (requests for another one are in `StreamGroups`); messages
are counted, not sized. The limit of 5 s is `MaxAge` seconds. Objects of type `RtpConnection` are never deleted
by the code; an object of the model is used again once it is destroyed. A UDP
connection that sent only a packet of type "response" stays in the table for
ever: only TCP connections have a timer.

### `RtcpParser` and `Rtcp`

A packet is a sequence of 32-bit words; a word that can be read as a header has
its fields, a word of an SDES text the tags that `ParseSDESItem` looks for.
`parser` has `_ptrRTCPData` and `_ptrRTCPBlockEnd` as offsets, `_state`,
`_numberOfBlocks` and the type last returned. `Iterate`, which loops and calls
itself, is one action for each block or item it looks at, so that "it ends" can
be said of it. `Rtcp` builds the words from the objects the sessions fill in
(`Create...`, `WithList`, `WithCName`, `WithBitrateData`); `SentSpec` reads
every packet of `Compounds`, its steps being those of `RtcpParser`.

`RtcpAssumption` says what such an object can hold (`Proper`): at most 31
reports, chunks or sources, which the `With...` calls see to; numbers to ask for
in their order, as the map `_nacks` keeps them, neighbours less than half the
numbers apart, and no more than `kSendSideNackListSizeSanity` of them, which is
where `AddNACKPacket` stops; rates that mantissa and exponent can hold. A block
of another implementation (`Foreign`) is one of a type, or with a form, that the
reader passes over. `ReadAsWritten` is about packets without damaged blocks into
which every block fitted: a block that does not fit is left out by `Build`, with
a line in the log and no error to its caller, so that less is read than was
asked for.

*Limits.* Reads and writes of octets are not modelled, nor are SDES texts but
for their length and tags, nor rates near 2^32, at which
`ComputeMantissaAnd6bitBase2Exponent` would shift beyond its type. Packets of
the class `Damaged` are read in the run and excluded from `ReadAsWritten`; so are
those with a block that did not fit. Two NACK blocks in
one packet leave the list of the second, in the reader as in `Meaning`.

## Runs

| Run | Shows | Bounds, and why they are enough |
| --- | --- | --- |
| `rtp_cache` | `TypeOK`, `ContiguousWindow`, `ReadsBack`, `ImplementsWindow` | a ring of 12 numbers and a window of 5: every arc of the ring (in the window, ahead, far, behind) is inhabited and every wrap is reached; three timestamps on a circle of 8, of which pairs are near, far (so that the window restarts) and exactly half apart; two sources |
| `groups` | `TypeOK`, `ClosedMembersMoved`, `PullConnectionKnown`, `NobodyWaitsForKnownSdp`, `NewcomerReplaces`, `PlayersAreKept`, `UselessPullStops` | two clients and a pull connection: an uploader, what replaces it, and a player, each of which may ask again; two streams, one of which (`Bare`) is only there to move to and from, by one of the clients (`Movers`); one SDP request and one FLV player, and an FLV store, while every connection asked once; every limit is one tick |
| `nack_link` | `TypeOK`, `ListedIsMissing`, `GapsAreListed`, `RecentIsRemembered`, `TrafficEnds` | five packets with a list of 2 and an age of 3, so both limits bite; budgets 2 (receiver, of which 1 is sure) and 1 (sender); no timestamp jump, with which `TrafficEnds` does not hold: the invariants with a jump are checked by `MCNackJump` and proved |
| `jitter` | `LostIsTheGaps`, `HoldIsBounded`, `OutputInOrder` | eleven packets in six frames, a jump before the ninth, a hold of two frames, a buffer of four packets, two copies of each packet: holding, giving up, overflow and restart all occur |
| `remux` | `TypeOK`, `QueuedAreAhead`, `QueuesAreBounded`, `FrameHasNoHole`, `WholeFramesAreKept` | nine video packets in frames of two layouts (parameter sets with a picture; a picture with three fragments), four of audio, two descriptions with either of two first times on a clock of 8: the clock wraps, the packet numbers (modulo 5) wrap, so that a start may be numbered 0, and each packet may be lost; with and without the limit and the check |
| `flv_cache` | `NumbersAreDense`, `SentInOrder`, `StartsAtKey`, `NothingLeftUnsent`, `PromptKeepsUp`, `ViewerStarts` | three tags, two stores, a span of one number and of one time unit with gaps of 0 and 2: trimming by either bound and by none; a buffer of two units and a socket that takes at most one: tags are dropped and the write event comes again; a player that keeps up and one that may not; the RTP cache goes only while there is no store (a store that gets no tags for want of it is like any that gets none) |
| `fec` | `RecoveredIsGenuine`, `NothingRecoverableWaits` | eight packets from number 13 of a ring of 16, so that the numbers start again and the history is emptied in the middle; groups of 2 with interleave 2, rows of 3 and columns of 2, three messages in flight, a cache of 7 numbers, more than the delay of 4 and the reach of an FEC packet, 2; one packet late at the sender |
| `conns` | `TimerRunsWhileNeeded`, `UnsentIsWatched`, `AddressesLeadToConnections`, `OnlyRepeatersAreLost`, `SilentAreDropped` | two TCP and two UDP connections, two addresses: an uploader, what replaces it, players of both kinds, and one address with two connections; a buffer of one message and a queue of two, so that both are empty, full and in between; a limit of 0 s, so that a connection waits for one second and then the timer |
| `rtcp` | `StaysInside`, `ReadAsWritten`, `ReadingEnds` | all lists of up to 8 missing numbers from two places of a ring of 16, one of which wraps, with masks of 3 bits; all rates up to 48 with a mantissa of 3 bits; every pair of blocks with at most one damaged one, every triple of good ones |
| `pull_retry` | violation of `FailedPullIsRetried` | one FLV player, one pull connection |
| `nack_wrap` | violation of `DroppedOnlyWhenLate` | a ring of 16 numbers, a stream that begins at 13 |
| `fec_forward` | violation of `RecoveredIsForwarded` | as `fec`, the grid only, no packet late at the sender |

What the properties say is in the comment above each of them. `TypeOK` of
`JitterBuffer`, `FlvCache` and `Connections` is a theorem and not checked in the
runs. Deadlock is not checked in `remux`, `fec` and `rtcp`: their behaviours end,
when the packets of the bound are used up or the packet is read.

### Fairness

`StreamGroups`: libevent calls every timer that is due (`WF` of the timers; of
`Crash`, since the 10 ms timer uses the transport of every member), and
completes every HTTP request, with an answer or an error (`WF` of `SdpFails` or
`SdpArrives`). `Tick` is strongly fair: packets that come at one instant, a BYE
and the next packet say, can make a timer due and undo it without time passing,
which real time does not allow for ever. No client is assumed to do anything.

`NackLink`: the NACK timer runs and time passes (`WF`). Nothing is assumed of
the network: `TrafficEnds` holds also if it duplicates for ever, as a copy that
stays in flight is not new traffic.

`Connections`: seconds pass and the timer that is set is called (`WF`).
`SilentAreDropped` then holds whatever other connections do; nothing is assumed
of any client.

`FlvCache`: libevent reports a socket that can be written again and again, and
the socket of a player that keeps up takes data (`WF` of `WriteAll` for
`Prompt`); an uploader that stays sends packets, and while these get through
(`described`) they make a header (`WF` of `SetFlvHeader`). No description is
assumed to come: `ViewerStarts` is about an uploader whose packets get through,
and that it fails otherwise is `MCFlvSilent`. Nothing is assumed of other
players, nor of tags.

`RtpCircularCache`, `JitterBuffer`, `FlvRemuxer`, `FecRecovery` and `Rtcp` have
no fairness. That the reader of RTCP packets ends is an action property,
`ReadingEnds`: every step leaves less to do.

## Findings

* A pull that fails within 30 s of its last attempt is never retried
  (`pull_retry`): the retry is posted to a task manager without an event base.
* After the 16-bit wrap the age of every older NACK entry is computed as
  enormous, so the list is emptied (`nack_wrap`).
* When a packet that FEC recovered makes another one recoverable, both live in
  one buffer: the players get the second twice and the first never
  (`fec_forward`).

### Further configurations

These configurations are kept beside the runs. Each has one property that the
code does not have; most are limits of the code rather than contradictions of
something the repository says. One passes: `MCNackJump`, the invariants of
`nack_link` with a timestamp jump before the fourth packet.

| Configuration (module) | Property that fails | What happens |
| --- | --- | --- |
| `MCRtpCacheAlias` (`MCRtpCircularCache`) | `GetFindsTheBlock` | `get_by_seq` with a one-packet window and the number exactly 0x8000 away reads past the end of the deque; every other number is safe, by the theorem `CacheReadsBack` |
| `MCSdpWaiters` (`MCStreamGroups`) | `WaitersHaveAPull` | a pull that serves only a request for an SDP is cut as useless while the request waits |
| `MCUploadResent` (`MCStreamGroups`) | `MembersAttached` | a client that repeats its upload request is destroyed by the loop that should destroy the previous uploader and then inserted in the group |
| `MCUploadTwice` (`MCStreamGroups`) | `StreamsHaveOneUploader` | a player that asks to upload is in the group already: the loop may destroy it and end there, and the previous uploader stays |
| `MCUploadMoved` (`MCStreamGroups`) | `GroupsAreOpen` | a connection that asks for another stream stays in the group of the first one; when it is closed, that group has a member without a transport, of which the process dies |
| `MCUdpRepeats` (`MCConnections`) | `OpenAreReached` | a UDP client that repeats its upload request loses its entry in the table: its datagrams go to a new connection, and the old one stays in the group until it times out |
| `MCFlvSilent` (`MCFlvCache`) | `UploaderSuffices` | after the time-out of a store an uploader that stays, and its players, wait for a new SDP: the remuxer drops every packet until then |
| `MCNackEndless` (`MCNackLink`) | `TrafficEnds` | while the network holds copies of packets from both sides of a timestamp jump, each of them is a jump from the other: the receiver starts anew each time, its budgets with it, and requests never end |
| `MCNackQuiet` (`MCNackLink`) | `RequestedAgain` | after 30 ms without a new packet NACKs are counted against the budget and not sent |
| `MCJitterMark` (`MCJitterBuffer`) | `JitterIsContiguous` | `_jitter_block` is not the last contiguous packet its comment says; the output order does not depend on it |
| `MCFlvOveruse` (`MCFlvCache`) | `GapsEndAtKeys` | a player whose buffer is full loses tags and goes on in the middle of a group of pictures: the branch that should wait for a key tag needs a buffer larger than the buffer can be (theorem `NobodyOveruses`) |
| `MCRemuxRestart` (`MCFlvRemuxer`) | `TracksStayTogether` | a new description keeps the last RTP times of the old source, so a source whose times start lower is taken for a wrap, on each track by itself |
| `MCRemuxSdp` (`MCFlvRemuxer`) | `HeaderFirst` | a stream once described as audio only stays so; its packets can be handed to the FLV cache before the cache has a store for the stream |
| `MCFecLate` (`MCFecRecovery`) | `RecoveredIsGenuine` | where the numbers start again the history is emptied and the cache is not; a packet that comes late after that and has left the cache when an FEC packet of it arrives is taken for another one, which is still in the cache but no longer in the history, and gets its number. It needs a cache that reaches back no further than messages are late and FEC packets reach |
| `MCFecGrid` (`MCFecRecovery`) | `RecoveredIsGenuine` | an FEC packet of a grid leaves out what the sender had not got and does not say so |
| `MCFecStale` (`MCFecRecovery`) | `HistoryIsCached` | `_pkt_history` is emptied only when a number below 50 follows one above 65500; otherwise the previous lap hides what is missing in this one |

## Proofs

Each theorem holds for every value of the constants that its assumptions
allow; the runs check the same definitions on one small instance. All proofs
are checked by TLAPS (SMT and Zenon for the steps, LS4 for the last one).

| Module | Assumes | Theorems |
| --- | --- | --- |
| `RtpCircularCacheProofs` | `SeqModAssumption`, `MaxSizeAssumption` (the window is at most half the numbers), `DataAssumption` | `CacheTypeOK`, `CacheContiguousWindow`, `CacheOneSource`, `CacheNoUnknownError`, `CacheReadsBack`, `CacheImplementsWindow` |
| `StreamGroupsProofs` | `ConnAssumption` | `GroupsTypeOK`, `OnlyMovedMembersAreClosed`, `PullConnectionStaysKnown`, `KnownSdpIsServed`, `NewcomersReplace`, `PlayersStayKept` |
| `NackLinkProofs` | `NackAssumption`, `OneLap` (`RequestsStayBehind` also `Steady`) | `LinkTypeOK`, `RequestedIsMissing`, `MissingIsListed`, `RecentStaysRemembered`, `RequestsStayBehind` |
| `JitterBufferProofs` | `JitterAssumption`, `OneLap` | `JitterTypeOK`, `HoldIsAlwaysBounded`, `LostStaysMissing`, `LostStaysTheGaps`, `OutputStaysInOrder` |
| `FlvRemuxerProofs` | `RemuxAssumption` (a frame starts with the start of a NAL unit and has no more packets than there are numbers) | `InvariantHolds`, `TypeCorrect`, `NothingIsOvertaken`, `LimitIsKept`, `NoFrameHasAHole`, `WholeFramesStay` |
| `FlvCacheProofs` | `FlvAssumption`; `WbFits` (a player's buffer holds at most `OveruseSize`), which `NobodyOveruses` is about | `CacheStaysConsistent`, `FlvCacheTypeOK`, `NumbersStayDense`, `TagsAreSentInOrder`, `PlayersStartAtKey`, `NoLostWakeUp`, `TrimmingSparesThePrompt`, `NobodyOveruses` |
| `ConnectionsProofs` | `ConnectionsAssumption` | `ServerStaysGood`, `ConnectionsTypeOK`, `TimerStaysNeeded`, `UnsentStaysWatched`, `AddressesStayRight`, `OthersAreKept` |
| `ReceiverProofs` | `FecAssumption` (`WhatIsRecoveredWasSent` also `OneLap`, `MaxLateGrid = 0`) | `NothingIsLeftToRecover`, `WhatIsRecoveredWasSent` |
| `ReceiverProofs` | `ParserAssumption` (`RtcpReadAsWritten` also `RtcpAssumption`) | `ParserStaysInside`, `ParserReadingEnds`, `RtcpReadAsWritten` |

Two kinds of lemma come back: what serial addition, difference and order do
within half a cycle, and that a set of naturals has a least element
(`LeastNat`), which is how "the loop stops at the first such position" is
justified, and what a recursive function computes, by its first step that would
break the property.

*Packet cache.* `ContiguousWindow` is not inductive alone: the index that
`set_rtp` computes from a block needs the block's type. With `TypeOK` and
`OneSource` it is (`IInv`). The weight is in two lemmas: the deque padded by
`PushBack` is a window of less than a full cycle (`ExtendedIsWindow`), and
`_adjust` stops at a packet and keeps the numbering (`AdjustStops`,
`AdjustKeepsWindow`). From `IInv` alone it follows that the three cases of
`set_rtp` are exhaustive, so that its `assert(0)` is not reached, and that
`get_by_seq` returns what is held, for every number but the antipode of a
one-packet window.

*Its refinement.* `CacheImplementsWindow` shows every step of the deque to be a
step of `RtpWindow` or a stutter. The age of a packet is its distance from the
back of the deque (`HeldAges`), so what padding and `_adjust` drop is exactly
what is `MaxSize` or more behind the new packet (`PushBackRefines`). A packet
that fills a hole is behind the newest and ahead of the front, which is one arc
of the circle of numbers (`ThirdArc`); one that empties the cache is on another
(`SecondArc`), or its timestamp is far (`JumpIsFarInTime`).

*Groups.* The invariant is `ConnInv /\ PullInv /\ RestInv`: every transport is in
the group of its stream and a member of that stream has one; a pull client's
state agrees with the groups; the other variables have their types and no SDP
waits. Nothing is assumed of what connections ask for. `PullConnectionKnown` needs
two strengthenings: a pull client with a request for an SDP in flight has no
connection, without which the answer could open a second one and forget the
first; and a pull connection, which asks for nothing itself, is in no group but
that of its stream, so that whoever moves to or from that group does not disturb
it. `NewcomersReplace` and `PlayersStayKept` are action properties. The first
rests on what the loop of `_open_trans` does when there is exactly one uploader
of the stream and the newcomer is not in the group: the first element it destroys
is that one (`NextReplaces`). The second: `_open_trans` destroys uploaders and
the connection that asks, which has a transport again after it, and stopping a
pull destroys a connection of the pull client.

*NACK.* `OneLap` says that the stream does not wrap, does not use number 0
(which the code takes for "no packet yet") and does not start low enough to
reset `_pkt_history`. It is needed: at the wrap the list really loses entries
(run `nack_wrap`), and after a reset of `_pkt_history` a number on the list may
have come already. Timestamp jumps are allowed. The strengthening `RcvInv(r,
late)` has a parameter: between the FEC stage, which notes a packet in
`_pkt_history`, and the NACK stage, which handles it, the packet is noted and
still listed; `late` is the set of packets in that position, empty between
events. `LateTrimsNothing` is the reason why trimming by the number of a packet
that came out of order does no harm. `RequestsStayBehind` needs the sender's
half of the link (`SentInv`) and `Steady`: all timestamps within 20 s of each
other, and numbers or a timestamp that make the sender session note the first
packet.

*Jitter buffer.* `OneLap` is the same without the reset. Timestamps do not go
back within the lap (`StampGrows`, from the monotonicity of integer division).
Between two events the buffer is *fresh* (one packet that goes out at once) or
*settled*: `_lost_queue` is exactly what is missing between the last packet out
and the newest one, and the newest is queued unless it is the last one out
(`BufferInv`). `_jitter_block` is in the invariant only where the buffer is
fresh: what the code makes of it afterwards (configuration `MCJitterMark`) does not touch
these properties: it decides when packets go out, not which, and whatever it is,
a top that is held is less than `_buffer_duration` behind the newest packet.
`OutputStaysInOrder` is an action property, from the same invariant.

*FLV remuxer.* The invariant (`IInv`) has four parts, of which the run's
properties are the visible ends. Of the frame buffer: where its last chunk is
seen from the source (`Recent`: its frame, its place in it, its number and its
time are those of the source so many steps back), that two neighbours are of
one frame and, unless the frame is marked, follow one another (`Adjacent`), and
that `_last_video_seq` is the number of the last fragment once a start was
noted; only then does the comparison of two numbers say that nothing is missing
between them. Conversely, what is marked has a gap in it (`BlameOK`), which is
why a whole frame is not. Of the tags: each track has reached a time (`Reached`),
its queue is sorted between what the cache got and that time, and a track
without a first time stands where the other one is (`Ordered`); a new tag goes
behind (`OrderedAppend`), the older front may leave (`OrderedPop`). This part is
of the first source. Of the loops: `Merged` is a recursive function of as many
steps as there are tags, which a run of `MergeStep` computes (`MergedRun`); as
each step takes a tag out or finds nothing to do, the last leaves the queues at
rest (`MergedIs`), and in order (`MergedInOrder`). Of the tags handed on: that
they are tags that waited, less those of no data (`Drained`).

*FLV cache.* The invariant says of the store that its numbers are dense and its
tags increase (`Stocked`), and of each player, separately, what is in its buffer
and fields (`Playing`), that it has been sent a tag exactly when it is past its
first (`Begun`), that what the store holds behind its cursor is newer than all
it has seen (`Ahead`), and that it sleeps only when it has everything
(`Asleep`). `Ahead` survives a store made anew with numbers from 0, although the
cursors stay where they are: its tags are newer than all that were sent before.
For `Prompt` players the cursor is also never behind
the front (`InReach`), which is `PromptKeepsUp`. `WbFits` is needed: with a
larger buffer a player may overuse and skip; the constants of
`flv_live_player.cpp` satisfy it.

*Connections.* `Good` has the types and three parts: the timer runs exactly
while something waits (`Timed`), what has unsent bytes is watched where the
socket is open (`Watched`), and the table leads to open connections of its
addresses, of which every open UDP connection has one (`Addressed`). The
converse, that an open connection is in the table, is not invariant: repeated
requests break it (`MCUdpRepeats`). `OthersAreKept` says how, step by step: what
`Destroyed` and `Opened` take out of the table belongs to a connection destroyed
in that step, or to a newer one of the address of a lost one (`Predecessor`).
The handlers are functions from server to server, so each part is shown to
survive what they are built from (`Destroyed`, `Sent`, `Opened`).

*FEC.* The invariant `Calm` has the types and `Quiet`: no FEC packet that waits
recovers. A message may start a recursion that is as deep as FEC packets wait.
`TakenAllIs` follows it once for both theorems: a level either finds nothing and
leaves all of them quiet, or takes one FEC packet out, so the recursion ends, and
any set its steps stay in holds of its end. The loop of a level is the recursive
function `Left`, whose result `LeftIs` describes. `WhatIsRecoveredWasSent` is
that argument with the set `CleanLoads` and the invariant `Faithful`: the cache
has only packets as they were sent, and all of them are in the history; an FEC
packet in flight is the XOR of exactly what it covers (`FecsAreHonest`). The XOR
then is the set of the packets of it that are not in the cache (`XorIs`), and a
recovery needs that to be one. Both assumptions are needed. In a grid the FEC
packet does not say what the sender lacked (`MaxLateGrid`). `OneLap` excludes
that the history is emptied while the cache is not: after that the cache holds
packets that are not in the history, and `MCFecLate` shows what comes of it. `fec` checks the property
where `OneLap` does not hold and the cache reaches back far enough; the theorem
also covers a cache that forgets packets that are still needed.

*RTCP reader.* The counts and lengths in a packet are arbitrary. `Inside` says
that the block that is read lies in the packet; what an action does to the
position is stated once (`Moves`), and both theorems follow: the reader stays
inside, and `ToDo` decreases with every step, so that there is an end.

*RTCP, written and read.* `RtcpReadAsWritten` holds for packets of any number of
blocks. They lie one behind another (`Laid`: where each ends, and what it and
those before it mean). The invariant `RInv` says of the reader that it is between
two blocks, and has noted exactly what those behind it mean, or at an item of one
(`ReadSoFar`); for each kind of block, `In` says what of it is noted at that item.
One lemma per kind says what words `Create...` makes, one that the block is
entered in the right state, one that each item leads to the next or behind the
block. Two of them carry the weight. `ListIs`: the items that `WithList` makes
cut the list into pieces, each of which is what `HandleNACKItem` makes of its
item, as a number further in the list is further from the number of the item by
less than half of all (`Carries`, `Loaded`); this is where the wrap could go
wrong, and where the premise on neighbours is used. `RateIsNear`: the least
exponent loses less than one unit of a mantissa that is at least half full. What
`WithList`, `FlattenSeq` and `Meanings` compute is recursive; it is followed to
the least place where it would go wrong (`LeastNat`).

*Only model-checked.* The liveness properties `UselessPullStops`, `TrafficEnds`,
`SilentAreDropped` and `ViewerStarts`, since fairness is out of the prover's
reach; every other property of the passing runs is stated by a theorem. Some
theorems assume more than the runs do. The restart of a packet cache at a jump of
the timestamp, and the NACK lists with one, are checked (`rtp_cache`,
`MCNackJump`) and proved. `RecoveredIsGenuine` where the numbers
start again (`fec`) needs bounds on how late messages are, against the reach of
the cache. At the wrap of the sequence numbers the NACK sessions are only
model-checked (`nack_wrap`), and the jitter buffer is neither checked nor proved.

## What is not modelled

`PROJECT.json` has the status of every component; the hazards there that no
property covers carry a note. In short:

* *Code the server does not link or does not reach.* `avformat/*_extern.*` (a
  second copy of the RTCP stack) and, of `server/util`, the hash tables, trees,
  lists and hash rings are not among the objects of
  `server/interlive_rtp/Makefile`. The push client is compiled out, the FLV
  publisher has no caller, and the fragments of the earlier forwarder are left
  from it. `lib/stat` reads `/proc` for the counters and `util/tsmux.c` writes
  MPEG-TS: no state of the streams is in either.
* *Data without state.* Reading and writing RTP, SDP, FLV, AMF, H.264, AAC and
  the command protocol; how messages are framed on a TCP stream. They are
  functions of octets; the models take what they decide as an input.
* *Reports.* What is put in sender and receiver reports and made of them:
  averages in floating point and clock time. Three remarks for their readers.
  The delay since the last sender report is shifted by 16 in 32 bits, so that
  without a report for 65.5 s the round-trip time is overestimated; the bound of
  `_ntps` drops the smallest NTP time, which is not the oldest after a reset; and
  the decision to drop video has no effect, since `drop_video_rtp_packet` returns
  false. The retransmission interval they feed is a bound in `NackLink`.
* *Oversize packets.* A packet longer than 2048 octets is an invalid block;
  `RtpCircularCache` has no such packet.
* *Process.* Configuration, start-up, signals, logging, counters, the dispatch
  of HTTP requests to handlers.

## Plan

Done, in this order: the packet cache and its abstract window; the groups with
the relay; the two NACK sessions; the jitter buffer; the FLV remuxer; the FLV
cache with its players; FEC; the connections; the RTCP packets; proofs of all of
them, and of the refinement of `RtpWindow`.

Left, most important first:

1. `StreamRelay`: `NackLink`'s sender over `RtpCircularCache`, so that a request
   is answered from the window and not from a set.
2. `FecRecovery` as a refinement of the arrival of a recovered packet in
   `NackLink`, where any packet sent may be recovered now.
3. `RtpCircularCache` with invalid blocks at its ends.
4. `RecoveredIsGenuine` where the numbers start again, with a cache that reaches
   back further than messages are late (`MaxDelay`) and FEC packets reach.
