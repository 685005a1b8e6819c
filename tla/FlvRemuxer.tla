----------------------------- MODULE FlvRemuxer -----------------------------
(***************************************************************************)
(* Turning the RTP packets of one stream into FLV tags                      *)
(* (media_manager/rtp2flv_remuxer.cpp, avformat/FLV.cpp): NAL units become *)
(* frames, frames and AAC packets become tags, the tags of both tracks are *)
(* merged by time and handed to the FLV cache (FlvCache).                   *)
(*                                                                         *)
(* The packets come out of the jitter buffers (JitterBuffer): in order,     *)
(* some missing.  The clock of both media is 1000 Hz, so that a tag's time *)
(* is an RTP time less an offset; payloads are left out.  The 32 bits of a  *)
(* tag's time last 49 days and are not modelled, those of an RTP time are   *)
(* (RtpMod).                                                                *)
(***************************************************************************)
EXTENDS Integers, Sequences, FiniteSets

CONSTANTS
  Layouts,     \* frames the source may send: sequences of Parts
  Sdps,        \* what a description may announce: "av", "audio"
  Bases,       \* first RTP times a source may choose
  RtpMod,      \* 2^32
  SeqMod,      \* 2^16
  Confs,       \* values of muxer_queue_threshold (0: no limit) and of
               \* enable_check_broken_frame
  MaxVideo, MaxAudio, MaxSdps  \* bounds of the model: packets, descriptions

\* An RTP packet holds a parameter set, a whole picture NAL, or the first or a
\* later fragment (FU-A) of one.
Parts == {"sps", "pps", "picture", "start", "rest"}

\* A frame starts with the start of a NAL unit, and its packets have different
\* numbers.
ASSUME RemuxAssumption ==
  /\ Layouts \subseteq Seq(Parts) /\ Sdps \subseteq {"av", "audio"}
  /\ \A layout \in Layouts : Len(layout) \in 1 .. SeqMod /\ layout[1] # "rest"
  /\ Bases \subseteq 0 .. RtpMod - 1
  /\ RtpMod \in Nat \ {0} /\ SeqMod \in Nat \ {0, 1}
  /\ Confs \subseteq [threshold : Nat, check : BOOLEAN]
  /\ MaxVideo \in Nat /\ MaxAudio \in Nat /\ MaxSdps \in Nat

VARIABLES
  conf,     \* the configuration
  meta,     \* Rtp2FlvTransformInfo
  stored,   \* whether the FLV cache has the header of the stream
  out,      \* the tags handed to the FLV cache
  refused,  \* whether the cache got a tag of a stream it does not know
  source    \* the encoder, before the network

vars == <<conf, meta, stored, out, refused, source>>

\* A part in the frame buffer, with the packet it came in: the frame, the
\* place in its layout, and whether the frame ends with it.
Chunk == [what : Parts, seq : Nat, frame : Nat, at : Nat, last : BOOLEAN]

\* A tag: "picture" says whether its data is a frame, "hollow" a tag with a
\* header only, "void" one whose size was set to 0; its chunks, if any; and of
\* which source it is, which the code does not know.
Tag == [track : {"audio", "video"}, ts : Nat, of : Nat,
        data : {"picture", "hollow", "void"}, chunks : Seq(Chunk)]

\* first, offset, last: _first_*_ts, _*_offset, _last_rtp_*_ts;
\* initial: _initial_*_ts of the FLV object.
Track == [first : Int, offset : Int, last : Nat, initial : Int]

Fresh ==
  [audioOnly |-> FALSE, sps |-> FALSE, pps |-> FALSE, adts |-> FALSE,
   buf |-> << >>, bufTs |-> 0, valid |-> TRUE, lastSeq |-> 0,
   temp |-> "none", sync |-> 0,
   audio |-> [first |-> 0, offset |-> 0, last |-> 0, initial |-> -1],
   video |-> [first |-> 0, offset |-> 0, last |-> 0, initial |-> -1],
   audioQ |-> << >>, videoQ |-> << >>]

\* Types; no tag has a time before 0, whatever RTP times a source starts with
\* and wherever they wrap.
TypeOK ==
  /\ conf \in Confs
  /\ meta.audio \in Track /\ meta.video \in Track
  /\ {meta.audioOnly, meta.sps, meta.pps, meta.adts, meta.valid} \subseteq BOOLEAN
  /\ meta.buf \in Seq(Chunk) /\ meta.bufTs \in Nat /\ meta.lastSeq \in Nat
  /\ meta.audioQ \in Seq(Tag) /\ meta.videoQ \in Seq(Tag)
  /\ meta.sync \in Nat /\ meta.temp \in {"none", "audio", "video"}
  /\ stored \in BOOLEAN /\ refused \in BOOLEAN /\ out \in Seq(Tag)

----------------------------------------------------------------------------
(* Times.                                                                  *)

\* Faulty form, for the mutants: the wrap of RTP times is not noticed.
StampedUnwrapped(t, rtp) ==
  LET initial == IF t.initial = -1 THEN rtp ELSE t.initial
      first == IF t.first = 0 THEN rtp - initial ELSE t.first
  IN  [ts |-> rtp - initial - first + t.offset,
       track |-> [first |-> first, offset |-> t.offset, last |-> rtp,
                  initial |-> initial]]

\* The time of a tag, and the state of its track after it: an RTP time
\* smaller than the last is taken for its wrap.  first = 0 is "no tag yet".
Stamped(t, rtp) ==
  LET offset == t.offset + IF t.last > rtp THEN RtpMod - 1 ELSE 0
      initial == IF t.initial = -1 THEN rtp ELSE t.initial
      first == IF t.first = 0 THEN rtp - initial ELSE t.first
  IN  [ts |-> rtp - initial - first + offset,
       track |-> [first |-> first, offset |-> offset, last |-> rtp,
                  initial |-> initial]]

\* A track without a tag starts where the other one is.
Aligned(t, ts) == IF t.first = 0 THEN [t EXCEPT !.offset = ts] ELSE t

----------------------------------------------------------------------------
(* Frames.  The state of the remuxer and the cache is a record             *)
(* [m, stored, out, refused].                                              *)

\* _write_header: the cache gets a header once all parameters are known.
HeaderWritten(x) ==
  [x EXCEPT !.stored =
     @ \/ (x.m.adts /\ (x.m.audioOnly \/ (x.m.sps /\ x.m.pps)))]

Has(chunks, what) == \E i \in DOMAIN chunks : chunks[i].what = what

\* generate_video_tag_data: the frame starts with a NAL unit and has a
\* picture.  Otherwise the first byte of the tag is that of the tag before,
\* and before the first tag whatever was in the memory.
VideoData(m) ==
  IF m.buf[1].what # "rest" /\ (Has(m.buf, "picture") \/ Has(m.buf, "start"))
  THEN {"picture"}
  ELSE CASE m.temp = "video" -> {"hollow"}
         [] m.temp = "audio" -> {"void"}
         [] OTHER -> {"hollow", "void"}

\* The parameter sets are taken from the first frame that has them.
ParametersFound(x) ==
  IF (x.m.sps /\ x.m.pps) \/ x.m.buf[1].what = "rest" THEN x
  ELSE HeaderWritten([x EXCEPT !.m.sps = @ \/ Has(x.m.buf, "sps"),
                               !.m.pps = @ \/ Has(x.m.buf, "pps")])

\* Faulty form, for the mutants: a frame once broken breaks those after it.
EmptiedStillInvalid(m) == [m EXCEPT !.buf = << >>, !.lastSeq = 0]

Emptied(m) == [m EXCEPT !.buf = << >>, !.lastSeq = 0, !.valid = TRUE]

Broken(m) == conf.check /\ ~m.valid

Queued(m, data) ==
  LET s == Stamped(m.video, m.bufTs)
      tag == [track |-> "video", ts |-> s.ts, chunks |-> m.buf, of |-> source.sdps,
              data |-> IF Broken(m) THEN "void" ELSE data]
  IN  [m EXCEPT !.video = s.track, !.audio = Aligned(@, s.ts),
                !.temp = "video", !.videoQ = Append(@, tag)]

\* _put_video_frame, when the data of the tag is "data".
Put(x, data) ==
  LET y == ParametersFound(x)
      m == IF y.m.sps /\ y.m.pps /\ y.m.adts THEN Queued(y.m, data) ELSE y.m
  IN  [y EXCEPT !.m = Emptied(m)]

\* A packet of another time finds the frame of the one before unfinished.
Unfinished(m, rtp) == m.bufTs # rtp /\ m.buf # << >>

\* Faulty form, for the mutants: the number is compared, and not kept.
BufferedUnchecked(m, c, rtp) ==
  [m EXCEPT !.buf = Append(@, c), !.bufTs = IF c.what = "rest" THEN @ ELSE rtp,
            !.lastSeq = IF c.what = "start" THEN c.seq ELSE @]

\* A chunk reaches the frame buffer.  Fragments after the first of a NAL unit
\* are checked against the number of the one before.
Buffered(m, c, rtp) ==
  LET fragment == c.what \in {"start", "rest"}
      follows == m.lastSeq = 0 \/ c.seq = m.lastSeq + 1
  IN  [m EXCEPT
         !.buf = Append(@, c),
         !.bufTs = IF c.what = "rest" THEN @ ELSE rtp,
         !.valid = @ /\ (fragment => follows),
         !.lastSeq = IF c.what = "start" \/ (c.what = "rest" /\ @ > 0)
                     THEN c.seq ELSE @]

----------------------------------------------------------------------------
(* _set_flv_to_mm.                                                         *)

\* set_flv_tag of FlvCacheManager, which asserts that it has the stream.
Handed(x, tag) ==
  [x EXCEPT !.out = IF x.stored THEN Append(@, tag) ELSE @,
            !.refused = @ \/ ~x.stored]

\* A tag out of a queue goes to the cache unless it is behind or void.
Synced(x, tag) ==
  IF tag.ts >= x.m.sync /\ tag.data # "void"
  THEN [Handed(x, tag) EXCEPT !.m.sync = tag.ts] ELSE x

PopAudio(x) == [Synced(x, x.m.audioQ[1]) EXCEPT !.m.audioQ = Tail(@)]
PopVideo(x) == [Synced(x, x.m.videoQ[1]) EXCEPT !.m.videoQ = Tail(@)]

\* Faulty form, for the mutants: the younger front first.
AudioIsYounger(x) == x.m.videoQ[1].ts < x.m.audioQ[1].ts

\* The older front first; the picture, of two of one time.
AudioIsOlder(x) == x.m.videoQ[1].ts > x.m.audioQ[1].ts

\* The spans are compared without a sign: a back before its front is far.
Long(q) ==
  /\ conf.threshold > 0 /\ Len(q) > 1
  /\ q[Len(q)].ts - q[1].ts \notin 0 .. conf.threshold

\* Faulty form, for the mutants: the limit is applied to one queue only.
MergeStepAudio(x) ==
  IF x.m.audioQ # << >> /\ x.m.videoQ # << >>
  THEN IF AudioIsOlder(x) THEN PopAudio(x) ELSE PopVideo(x)
  ELSE IF Long(x.m.audioQ) THEN PopAudio(x) ELSE x

MergeStep(x) ==
  IF x.m.audioQ # << >> /\ x.m.videoQ # << >>
  THEN IF AudioIsOlder(x) THEN PopAudio(x) ELSE PopVideo(x)
  ELSE IF Long(x.m.audioQ) THEN PopAudio(x)
  ELSE IF Long(x.m.videoQ) THEN PopVideo(x)
  ELSE x

\* The loops of _set_flv_to_mm: as many steps as there are tags in the queues.
Merged(x) ==
  LET n == Len(x.m.audioQ) + Len(x.m.videoQ)
      after[i \in 0 .. n] == IF i = 0 THEN x ELSE MergeStep(after[i - 1])
  IN  after[n]

\* set_rtp hands over what is queued, but for a stream of audio only.
Flushed(x) == IF x.m.audioOnly THEN x ELSE Merged(x)

State == [m |-> meta, stored |-> stored, out |-> out, refused |-> refused]

Becomes(x) ==
  /\ meta' = x.m /\ stored' = x.stored /\ out' = x.out /\ refused' = x.refused
  /\ UNCHANGED conf

----------------------------------------------------------------------------
(* Actions.  The source: what is known of its media ("none": nothing, so    *)
(* that its packets are dropped), their RTP times, the frame it is sending, *)
(* where it is in it, and what it has sent.                                *)

Init ==
  /\ conf \in Confs
  /\ meta = Fresh /\ stored = FALSE /\ out = << >> /\ refused = FALSE
  /\ source = [sdps |-> 0, kind |-> "none", audioTs |-> 0, videoTs |-> 0,
               layout |-> << >>, at |-> 0, frame |-> 0, seq |-> 1,
               video |-> 0, audio |-> 0]

\* set_sdp_char: a description comes, of a source that starts anew; the
\* remuxer forgets what it holds, the last RTP times not among it.  It is one
\* without parameter sets (sprop-parameter-sets): what the code copies of
\* these is undefined, the length r - r1 being negative.
SetSdp ==
  /\ source.sdps < MaxSdps
  /\ \E kind \in Sdps, a, v \in Bases :
       /\ source' = [source EXCEPT !.sdps = @ + 1, !.kind = kind, !.layout = << >>,
                                   !.at = 0, !.frame = @ + 1,
                                   !.audioTs = a, !.videoTs = v]
       /\ meta' = [meta EXCEPT
            !.audioOnly = @ \/ kind = "audio",
            !.audio.first = 0, !.video.first = 0,
            !.audio.offset = meta.sync, !.video.offset = meta.sync,
            !.buf = << >>, !.audioQ = << >>, !.videoQ = << >>]
  /\ UNCHANGED <<conf, stored, out, refused>>

\* The AAC branch of _set_rtp_to_buffer.
AudioTag(x, rtp) ==
  LET m == x.m
      s == Stamped(m.audio, rtp)
      tag == [track |-> "audio", ts |-> s.ts, data |-> "picture", chunks |-> << >>,
              of |-> source.sdps]
      n == [m EXCEPT !.audio = s.track, !.video = Aligned(@, s.ts), !.temp = "audio"]
  IN  IF ~(m.audioOnly \/ (m.sps /\ m.pps)) THEN x
      ELSE IF m.audioOnly THEN Handed([x EXCEPT !.m = n], tag)
      ELSE [x EXCEPT !.m = [n EXCEPT !.audioQ = Append(@, tag)]]

\* set_rtp of an audio packet.
Audio ==
  /\ source.kind # "none" /\ source.audio < MaxAudio
  /\ LET x == IF meta.adts THEN State
              ELSE HeaderWritten([State EXCEPT !.m.adts = TRUE])
     IN  Becomes(Flushed(AudioTag(x, source.audioTs)))
  /\ source' = [source EXCEPT !.audio = @ + 1, !.audioTs = (@ + 1) % RtpMod]

\* The next packet of the frame, or the first of a new one.
NextPacket(layout, at) ==
  [what |-> layout[at], seq |-> source.seq, frame |-> source.frame,
   at |-> at, last |-> at = Len(layout)]

\* What the source is after it: the next frame has the next time.
Advanced(layout, at) ==
  LET end == at = Len(layout)
  IN  [source EXCEPT
         !.video = @ + 1, !.seq = (@ + 1) % SeqMod,
         !.layout = IF end THEN << >> ELSE layout, !.at = IF end THEN 0 ELSE at,
         !.frame = IF end THEN @ + 1 ELSE @,
         !.videoTs = IF end THEN (@ + 1) % RtpMod ELSE @]

\* set_rtp of a video packet: the H.264 branch of _set_rtp_to_buffer.
Video ==
  /\ source.kind = "av" /\ source.video < MaxVideo
  /\ \E layout \in IF source.layout = << >> THEN Layouts ELSE {source.layout},
        lost \in BOOLEAN :
       LET c == NextPacket(layout, source.at + 1)
           rtp == source.videoTs
       IN  /\ source' = Advanced(layout, source.at + 1)
           /\ IF lost THEN UNCHANGED <<conf, meta, stored, out, refused>>
              ELSE \E d1 \in IF Unfinished(meta, rtp) THEN VideoData(meta) ELSE {"void"} :
                     LET x == IF Unfinished(meta, rtp) THEN Put(State, d1) ELSE State
                         y == [x EXCEPT !.m = Buffered(@, c, rtp)]
                     IN  \E d2 \in VideoData(y.m) :
                           Becomes(Flushed(IF c.last THEN Put(y, d2) ELSE y))

\* The stream is quiet for so long that its store and the remuxer's state are
\* destroyed (FlvCache, OnTimer).  Jitter buffers made anew have no time base
\* and take no packet before the next description.
Expire ==
  /\ stored
  /\ meta' = Fresh /\ stored' = FALSE /\ out' = << >>
  /\ source' = [source EXCEPT !.kind = "none"]
  /\ UNCHANGED <<conf, refused>>

Next == SetSdp \/ Audio \/ Video \/ Expire

Spec == Init /\ [][Next]_vars

----------------------------------------------------------------------------
(* Properties.                                                             *)

Tags(q) == {q[i] : i \in DOMAIN q}

Fragment(c) == c.what \in {"start", "rest"}

\* The merge loses nothing: a tag that waits in a queue is not older than what
\* the cache got (_out_sync_ts), or it would be thrown away in its turn.  Only
\* the limit on the queues, when there is one, may overtake a silent track.
\* This holds of the first source only: set_sdp_char keeps _last_rtp_*_ts, so
\* that the first tag of the next source may be taken for a wrap and put ahead
\* of those that follow it.
QueuedAreAhead ==
  conf.threshold = 0 /\ source.sdps <= 1 =>
    \A tag \in Tags(meta.audioQ) \cup Tags(meta.videoQ) : tag.ts >= meta.sync

\* With a limit a queue never holds more than that time, unless the stream has
\* become one of audio only (set_rtp then does not call _set_flv_to_mm).
QueuesAreBounded ==
  \/ meta.audioOnly
  \/ /\ meta.audioQ = << >> \/ meta.videoQ = << >>
     /\ conf.threshold > 0 => \A q \in {meta.audioQ, meta.videoQ} :
          Len(q) > 1 => q[Len(q)].ts - q[1].ts <= conf.threshold

\* The chunks of a tag follow one another: those of a picture are of one frame,
\* and none is missing between the first fragment of a NAL unit and the last
\* one that came.  Two things the check does not see: a start numbered 0, which
\* _last_video_seq holds for none, and frames a cycle of RTP times apart, which
\* have the same time.
NoHole(tag) ==
  \A i \in 2 .. Len(tag.chunks) :
    LET c == tag.chunks[i - 1]
        d == tag.chunks[i]
        started == \E j \in 1 .. i - 1 :
                     tag.chunks[j].what = "start" /\ tag.chunks[j].seq # 0
    IN  d.frame < c.frame + RtpMod =>
          /\ tag.data = "picture" => d.frame = c.frame
          /\ Fragment(c) /\ d.what = "rest" /\ started =>
               d.frame = c.frame /\ d.at = c.at + 1

\* When broken frames are checked (enable_check_broken_frame), no frame with a
\* hole in it reaches the cache.
FrameHasNoHole ==
  conf.check => \A tag \in Tags(out) : tag.track = "video" => NoHole(tag)

\* All packets of a frame are there, its fragments one after the other, their
\* numbers not around the wrap.
Whole(chunks) ==
  /\ chunks[Len(chunks)].last
  /\ \A i \in DOMAIN chunks : chunks[i].at = i
  /\ \A i \in DOMAIN chunks : chunks[i].seq = chunks[1].seq + i - 1
  /\ \A i, k \in DOMAIN chunks : \A j \in i .. k :
       Fragment(chunks[i]) /\ Fragment(chunks[k]) => Fragment(chunks[j])
  /\ \E i \in DOMAIN chunks : chunks[i].what \in {"picture", "start"}

\* The check costs no good frame: one that came whole is not marked broken,
\* whatever came before it (_put_video_frame).  This holds of the first source
\* only: set_sdp_char empties the buffer and keeps what is known of its frame.
WholeFramesAreKept ==
  source.sdps = 1 => \A tag \in Tags(meta.videoQ) : tag.data = "void" => ~Whole(tag.chunks)

\* cache_manager.cpp:102 asserts that the cache has the stream of every tag.
HeaderFirst == ~refused

\* The tags of one source are within half the range of RTP times of each other,
\* as its packets are.
TracksStayTogether ==
  LET tags == Tags(out) \cup Tags(meta.audioQ) \cup Tags(meta.videoQ)
  IN  \A s, t \in tags : s.of = t.of => s.ts - t.ts < RtpMod \div 2
=============================================================================
