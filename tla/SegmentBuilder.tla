--------------------------- MODULE SegmentBuilder ---------------------------
(***************************************************************************)
(* Session::BuildSegmentLocked on a cache miss, packet by packet: the seek *)
(* (Demuxer::SeekToMs), the walk that splits off a segment's video and     *)
(* re-encodes its audio (AacTranscoder), and what it leaves behind for the *)
(* next build: the segment cache, the audio frame cache and the encoder.   *)
(*                                                                         *)
(* It runs under the session's mutex_, so one build goes on at a time.     *)
(* A video sample is the position of its packet in the file. An audio      *)
(* sample is its position in the source track, so that what an AAC frame   *)
(* holds can be compared with where its index says it belongs.             *)
(***************************************************************************)
EXTENDS Integers, Sequences, SegmentCache

CONSTANTS
  Files,          \* files: packets, cues and segment boundaries
  NoTime,         \* AV_NOPTS_VALUE
  Rate,           \* audio samples per millisecond (48)
  Frame,          \* samples of an AAC frame (1024)
  Padding,        \* initial_padding of the encoder
  EncoderDelay,   \* AAC frames the encoder holds back
  Preroll,        \* kAudioPrerollMs
  Lookahead,      \* kAudioLookaheadMs
  MaxAudioFrames, \* kMaxCachedAudioFrames
  AudioIndex,     \* bound: AAC frame indices that occur
  MaxReadErrors   \* bound: reads that fail before the end of the file

\* A file: packets with their track, key flag, time in milliseconds, and, for
\* audio, their place in the track and the samples they decode to; the time and
\* the first packet of each cue's cluster; and the segment boundaries.
File ==
  [packets : Seq([track : {"video", "audio", "subtitle"}, key : BOOLEAN,
                  t : Nat \cup {NoTime}, at : Nat, n : Nat]),
   cues    : Seq([t : Nat, at : Nat \ {0}]),
   bounds  : Seq(Nat)]

AudioPts(ms)  == ms * Rate
FrameAt(pts)  == pts \div Frame

\* The boundaries increase, and those between the first and the last are at a
\* target or past it, which is later than the preroll is long (KeyframeIndex
\* shows both); the keyframes in front of a cue's cluster are earlier than the
\* cue, as a muxer writes them. The frames of the file occur.
WellFormed(f) ==
  /\ \A m, n \in DOMAIN f.bounds : m < n => f.bounds[m] < f.bounds[n]
  /\ \A n \in 2 .. (Len(f.bounds) - 1) : f.bounds[n] >= Preroll
  /\ \A n \in DOMAIN f.bounds :
       FrameAt(-Padding) .. FrameAt(AudioPts(f.bounds[n])) \subseteq AudioIndex
  /\ \A n \in DOMAIN f.cues :
       /\ f.cues[n].at <= Len(f.packets)
       /\ \A p \in 1 .. (f.cues[n].at - 1) :
            LET q == f.packets[p] IN
            q.track = "video" /\ q.key /\ q.t # NoTime => q.t < f.cues[n].t

\* What an AAC frame of the segment holds: its own samples and, through the
\* overlapping transform of the codec, those of the frame before.
AacPayload == [samples : Seq(Int), after : Seq(Int)]

\* A frame lasts a millisecond at least. The preroll holds a frame, and the
\* lookahead those that the encoder holds back and one more; the encoder pads
\* whole frames.
ASSUME BuilderAssumption ==
  /\ Rate \in Nat \ {0} /\ Frame \in Nat \ {0} /\ Rate <= Frame
  /\ Padding \in Nat /\ Padding % Frame = 0 /\ EncoderDelay \in Nat \ {0}
  /\ Preroll \in Nat /\ AudioPts(Preroll) >= Frame
  /\ Lookahead \in Nat /\ AudioPts(Lookahead + 1) >= (EncoderDelay + 1) * Frame
  /\ MaxAudioFrames \in Nat
  /\ AudioIndex \subseteq Int
  /\ MaxReadErrors \in Nat
  /\ NoTime \notin Int /\ Absent \notin AacPayload
  /\ Files \subseteq File /\ \A f \in Files : WellFormed(f)

VARIABLES
  file,        \* the file of this session
  seg,         \* segment_idx of the build
  phase,       \* where the build is
  pos,         \* the packet av_read_frame returns next
  seen,        \* seen_keyframe
  video,       \* video_store
  queue,       \* left_queue_ and right_queue_
  nextPts,     \* audio_pts_
  encoder,     \* external: frames the AAC encoder has taken and not returned
  build,       \* this_build_aac
  audioCache,  \* audio_frame_cache_
  segments,    \* segment_cache_
  failed,      \* history: a read of this build failed
  errorsLeft,  \* reads that may still fail
  intact       \* history: segments cached by a build without a failed read

vars == <<file, seg, phase, pos, seen, video, queue, nextPts, encoder, build,
          audioCache, segments, failed, errorsLeft,
          intact>>

audioVars == <<queue, nextPts, encoder, build, audioCache>>

-----------------------------------------------------------------------------
(* The file and the times of segment i.                                    *)

Packets == file.packets

Timed(p)   == Packets[p].t # NoTime
IsVideo(p) == Packets[p].track = "video"
IsKey(p)   == IsVideo(p) /\ Packets[p].key
IsAudio(p) == Packets[p].track = "audio"

\* The session has an AacTranscoder.
HasAudio == \E p \in DOMAIN Packets : IsAudio(p)

\* keyframes[n] and keyframes[n + 1], as the handler passes them.
Listed == 0 .. (Len(file.bounds) - 2)
StartMs(i) == file.bounds[i + 1]
EndMs(i)   == file.bounds[i + 2]

DecodeStartMs(i)  == IF StartMs(i) < Preroll THEN 0 ELSE StartMs(i) - Preroll
EncodeStartPts(i) == FrameAt(AudioPts(DecodeStartMs(i))) * Frame

\* What Reset is given.
AnchorPts(i) == IF i = 0 /\ HasAudio THEN -Padding ELSE EncodeStartPts(i)

\* Mutant of FirstFrame: the priming is left out of every segment.
FirstFrame_AlwaysPrimed(i) == FrameAt(AudioPts(StartMs(i)) - Padding)

\* Mutant of CutoffPts: no lookahead.
CutoffPts_NoLookahead(i) == AudioPts(EndMs(i))

\* audio_cutoff_pts.
CutoffPts(i) == AudioPts(EndMs(i) + Lookahead)

\* output_start_frame and output_end_frame.
FirstFrame(i) == FrameAt(IF i = 0 /\ HasAudio THEN -Padding
                         ELSE AudioPts(StartMs(i)))
EndFrame(i) ==
  LET end == FrameAt(AudioPts(EndMs(i)))
  IN  IF end <= FirstFrame(i) THEN FirstFrame(i) + 1 ELSE end

\* Mutant of SeekPosition: nothing is chosen when every cue is later.
SeekPosition_NoDefault(target) ==
  LET before == {n \in DOMAIN file.cues :
                   \A m \in 1 .. n : file.cues[m].t <= target}
  IN  IF before = {} THEN 0
      ELSE file.cues[CHOOSE n \in before : \A m \in before : m <= n].at

\* Where SeekToMs leaves the demuxer: at the cluster of the last cue of the
\* run of cues that are not after the target, or at the start of the file.
SeekPosition(target) ==
  LET before == {n \in DOMAIN file.cues :
                   \A m \in 1 .. n : file.cues[m].t <= target}
  IN  IF before = {} THEN 1
      ELSE file.cues[CHOOSE n \in before : \A m \in before : m <= n].at

-----------------------------------------------------------------------------
(* The transcoder.                                                         *)

\* external: the samples the decoder and the resampler make of a packet; none
\* if they cannot.
Decoded(p) == [n \in 1 .. Packets[p].n |-> AudioPts(Packets[p].at) + n - 1]

\* apkt_ms: a packet without a time is taken to be the first of the preroll.
AudioMs(i, p) == IF Timed(p) THEN Packets[p].t ELSE DecodeStartMs(i)

\* Decode, for packets that are not before the preroll.
Decode(i, q, p) ==
  IF AudioMs(i, p) >= DecodeStartMs(i) THEN q \o Decoded(p) ELSE q

\* The frames that EncodeUntil takes from the queue.
Lowest(a, b) == IF a <= b THEN a ELSE b
FramesReady(q, cutoff) ==
  IF cutoff < nextPts THEN 0
  ELSE Lowest(Len(q) \div Frame, (cutoff - nextPts) \div Frame)

TakenFrame(q, n) ==
  [pts |-> nextPts + (n - 1) * Frame,
   samples |-> SubSeq(q, (n - 1) * Frame + 1, n * Frame)]

\* external: a fresh encoder puts a frame of silence before the first one.
Silence(pts) == [pts |-> pts - Frame, samples |-> <<>>, after |-> <<>>]

\* external: the packets an encoder that holds `held` has returned, or still
\* holds, once it was sent the frames `sent`.
EncoderLine(held, sent) ==
  LET front == IF held = <<>> THEN <<Silence(sent[1].pts)>> ELSE held
      coded == [n \in DOMAIN sent |->
                  [pts |-> sent[n].pts, samples |-> sent[n].samples,
                   after |-> IF n = 1 THEN front[Len(front)].samples
                                      ELSE sent[n - 1].samples]]
  IN  IF sent = <<>> THEN held ELSE front \o coded

Payload(packet) == [samples |-> packet.samples, after |-> packet.after]

\* this_build_aac[frame_idx] = payload, packet after packet.
Stored(map, out) ==
  [x \in AudioIndex |->
     LET at == {n \in DOMAIN out : FrameAt(out[n].pts) = x}
     IN  IF at = {} THEN map[x]
         ELSE Payload(out[CHOOSE n \in at : \A m \in at : m <= n])]

\* audio_frame_cache_.try_emplace: what is there stays.
Emplaced(map, out) ==
  [x \in AudioIndex |->
     LET at == {n \in DOMAIN out : FrameAt(out[n].pts) = x}
     IN  IF map[x] # Absent \/ at = {} THEN map[x]
         ELSE Payload(out[CHOOSE n \in at : \A m \in at : n <= m])]

\* drain_aac on queue q: EncodeUntil, then cache_audio_pkts.
DrainAac(i, q) ==
  LET k    == IF HasAudio THEN FramesReady(q, CutoffPts(i)) ELSE 0
      line == EncoderLine(encoder, [n \in 1 .. k |-> TakenFrame(q, n)])
      done == IF Len(line) > EncoderDelay /\ k > 0 THEN Len(line) - EncoderDelay
                                                   ELSE 0
      out  == SubSeq(line, 1, done)
  IN  /\ queue' = SubSeq(q, k * Frame + 1, Len(q))
      /\ nextPts' = nextPts + k * Frame
      /\ encoder' = SubSeq(line, done + 1, Len(line))
      /\ build' = Stored(build, out)
      /\ audioCache' = Emplaced(audioCache, out)

\* Reset re-anchors the audio, but the encoder keeps the frames it holds.
ResetEncoder(held) == held

-----------------------------------------------------------------------------
(* A build.                                                                *)

NoFrames == [x \in AudioIndex |-> Absent]

Init ==
  /\ file \in Files
  /\ seg = 0 /\ phase = "idle" /\ pos = 1 /\ seen = FALSE /\ video = <<>>
  /\ queue = <<>> /\ nextPts = 0 /\ encoder = <<>>
  /\ build = NoFrames /\ audioCache = NoFrames
  /\ segments = Empty
  /\ failed = FALSE /\ errorsLeft = MaxReadErrors
  /\ intact = {}

\* A request for a listed segment that is not cached: SeekToMs and Reset.
Start(i) ==
  /\ phase = "idle" /\ i \in Listed /\ segments[i] = Absent
  /\ seg' = i /\ phase' = "walk" /\ failed' = FALSE
  /\ pos' = SeekPosition(DecodeStartMs(i))
  /\ seen' = FALSE /\ video' = <<>>
  /\ queue' = <<>>
  /\ nextPts' = AnchorPts(i)
  /\ encoder' = ResetEncoder(encoder)
  /\ build' = NoFrames
  /\ UNCHANGED <<file, audioCache, segments, errorsLeft, intact>>

\* av_read_frame returns the packet at pos.
Reads == pos <= Len(Packets) /\ pos' = pos + 1

\* Mutant of Opens: keyframes of the preroll count.
Opens_AnyKeyframe(p) == IsKey(p) /\ Timed(p)

\* The first keyframe of the segment: none before its start. (Without a time a
\* keyframe is before everything: AV_NOPTS_VALUE is the least int64_t.)
Opens(p) == IsKey(p) /\ Timed(p) /\ Packets[p].t >= StartMs(seg)

\* Mutant of Closes: off by one at the boundary.
Closes_PastEnd(p) == IsKey(p) /\ Timed(p) /\ Packets[p].t > EndMs(seg)

\* The keyframe of the next segment.
Closes(p) == IsKey(p) /\ Timed(p) /\ Packets[p].t >= EndMs(seg)

\* Video before the segment, or a packet of a third track.
SkipPacket ==
  /\ phase = "walk" /\ Reads
  /\ \/ IsVideo(pos) /\ ~seen /\ ~Opens(pos)
     \/ ~IsVideo(pos) /\ ~IsAudio(pos)
  /\ UNCHANGED <<file, seg, phase, seen, video, audioVars, segments, failed,
                 errorsLeft, intact>>

\* append_video_packet, which drops a packet without a time.
TakeVideo ==
  /\ phase = "walk" /\ Reads /\ IsVideo(pos)
  /\ (seen \/ Opens(pos)) /\ ~Closes(pos)
  /\ seen' = TRUE
  /\ video' = IF Timed(pos) THEN Append(video, pos) ELSE video
  /\ UNCHANGED <<file, seg, phase, audioVars, segments, failed,
                 errorsLeft, intact>>

\* The boundary: from here on only audio is read.
ReachBoundary ==
  /\ phase = "walk" /\ Reads /\ IsVideo(pos)
  /\ (seen \/ Opens(pos)) /\ Closes(pos)
  /\ seen' = TRUE
  /\ phase' = IF HasAudio THEN "drain" ELSE "finish"
  /\ UNCHANGED <<file, seg, video, audioVars, segments, failed,
                 errorsLeft, intact>>

WalkAudio ==
  /\ phase = "walk" /\ Reads /\ IsAudio(pos)
  /\ DrainAac(seg, Decode(seg, queue, pos))
  /\ UNCHANGED <<file, seg, phase, seen, video, segments, failed,
                 errorsLeft, intact>>

\* A packet past the boundary that is not audio.
DrainOther ==
  /\ phase = "drain" /\ Reads /\ ~IsAudio(pos)
  /\ UNCHANGED <<file, seg, phase, seen, video, audioVars, segments, failed,
                 errorsLeft, intact>>

\* An audio packet past the boundary, up to the lookahead; it is encoded
\* once the last one is read.
DrainAudio ==
  /\ phase = "drain" /\ Reads /\ IsAudio(pos)
  /\ IF AudioMs(seg, pos) <= EndMs(seg) + Lookahead
     THEN /\ queue' = Decode(seg, queue, pos)
          /\ UNCHANGED <<phase, nextPts, encoder, build, audioCache>>
     ELSE DrainAac(seg, queue) /\ phase' = "finish"
  /\ UNCHANGED <<file, seg, seen, video, segments, failed,
                 errorsLeft, intact>>

\* av_read_frame returns an error: the end of the file, or a failed read,
\* which the loops do not tell apart.
ReadEnds ==
  /\ phase \in {"walk", "drain"}
  /\ \/ pos > Len(Packets) /\ UNCHANGED <<failed, errorsLeft>>
     \/ /\ pos <= Len(Packets) /\ errorsLeft > 0
        /\ failed' = TRUE /\ errorsLeft' = errorsLeft - 1
  /\ DrainAac(seg, queue)
  /\ phase' = "finish"
  /\ UNCHANGED <<file, seg, pos, seen, video, segments, intact>>

\* Mutant of OutputFrame: the session's cache comes first.
OutputFrame_CacheFirst(x) == IF audioCache[x] # Absent THEN audioCache[x] ELSE build[x]

\* A frame of the output: this build's, or else the session's.
OutputFrame(x) == IF build[x] # Absent THEN build[x] ELSE audioCache[x]

\* The range in order, without the frames nobody has.
OutputAudio ==
  LET has == {x \in FirstFrame(seg) .. (EndFrame(seg) - 1) :
                HasAudio /\ OutputFrame(x) # Absent}
      nth(n) == CHOOSE x \in has : Cardinality({y \in has : y < x}) = n - 1
  IN  [n \in 1 .. Cardinality(has) |->
         [index |-> nth(n), payload |-> OutputFrame(nth(n))]]

\* The lowest indices go until kMaxCachedAudioFrames are left.
EvictAudio(map) ==
  LET used == {x \in AudioIndex : map[x] # Absent}
  IN  [x \in AudioIndex |->
         IF Cardinality({y \in used : y >= x}) <= MaxAudioFrames THEN map[x]
                                                                 ELSE Absent]

\* The rest of BuildSegmentLocked; without a video sample it throws. The
\* locals of the build are gone afterwards.
Finish ==
  /\ phase = "finish"
  /\ phase' = "idle"
  /\ audioCache' = EvictAudio(audioCache)
  /\ IF video = <<>>
     THEN UNCHANGED <<segments, intact>>
     ELSE /\ segments' = Insert(segments, seg,
                                [video |-> video, audio |-> OutputAudio])
          /\ intact' = {i \in Cached(segments') :
                          IF i = seg THEN ~failed ELSE i \in intact}
  /\ seen' = FALSE /\ video' = <<>> /\ build' = NoFrames /\ failed' = FALSE
  /\ UNCHANGED <<file, seg, pos, queue, nextPts, encoder, errorsLeft>>

Next ==
  \/ \E i \in Segment : Start(i)
  \/ SkipPacket \/ TakeVideo \/ ReachBoundary
  \/ WalkAudio \/ DrainOther \/ DrainAudio
  \/ ReadEnds
  \/ Finish

Spec == Init /\ [][Next]_vars

-----------------------------------------------------------------------------
(* Properties.                                                             *)

\* The position stays within the file, and the caches within their keys.
TypeOK ==
  /\ file \in Files /\ seg \in Nat /\ pos \in 1 .. Len(Packets) + 1 /\ seen \in BOOLEAN
  /\ phase \in {"idle", "walk", "drain", "finish"}
  /\ errorsLeft \in 0 .. MaxReadErrors
  /\ \A n \in DOMAIN video : video[n] \in DOMAIN Packets
  /\ nextPts \in Int
  /\ DOMAIN build = AudioIndex /\ DOMAIN audioCache = AudioIndex
  /\ DOMAIN segments = Segment /\ intact \subseteq Cached(segments)

VideoOf(i) == segments[i].video
AudioOf(i) == segments[i].audio

\* A segment starts with a keyframe at or after its start and holds no
\* keyframe at or after its end, also when its build was cut short: a player
\* can start decoding at any segment it was sent.
SegmentsStartWithKeyframe ==
  \A i \in Cached(segments) :
    /\ VideoOf(i) # <<>>
    /\ IsKey(VideoOf(i)[1])
    /\ Packets[VideoOf(i)[1]].t >= StartMs(i)
    /\ \A n \in DOMAIN VideoOf(i) :
         IsKey(VideoOf(i)[n]) => Packets[VideoOf(i)[n]].t < EndMs(i)

Members(s) == {s[n] : n \in DOMAIN s}

\* Two neighbouring segments tile the video: what they hold together is every
\* video packet from the first to the last of them, each once and in file
\* order, although they are built apart, after different seeks.
SegmentsTileTheVideo ==
  \A i, j \in intact : j = i + 1 =>
    LET both == VideoOf(i) \o VideoOf(j) IN
    /\ \A n \in 2 .. Len(both) : both[n - 1] < both[n]
    /\ Members(both) = {p \in both[1] .. both[Len(both)] : IsVideo(p) /\ Timed(p)}

\* Packet p is audio that a build of segment i can come to.
AudioRead(i, p) == IsAudio(p) /\ p >= SeekPosition(DecodeStartMs(i))

\* The samples that the packets up to each one give a build of segment i, and
\* all it could have: those of the preroll and what follows it.
SamplesUpTo(i) ==
  LET upTo[p \in 0 .. Len(Packets)] ==
        IF p = 0 THEN <<>>
        ELSE IF AudioRead(i, p) THEN Decode(i, upTo[p - 1], p)
        ELSE upTo[p - 1]
  IN  upTo
SourceSamples(i) == SamplesUpTo(i)[Len(Packets)]

\* Packet p ends the reading behind the boundary.
PastLookahead(i, p) == AudioRead(i, p) /\ AudioMs(i, p) > EndMs(i) + Lookahead

\* The audio of the file goes on long enough for segment i: what can be decoded
\* before the first packet past the lookahead fills the segment and the encoder.
\* (Otherwise, where packets are missing or cannot be decoded, a build takes
\* frames from the session's cache, which "should never happen with correct
\* preroll math", Session.cpp:395.)
AudioReaches(i) ==
  /\ HasAudio
  /\ \E u \in 0 .. Len(Packets) :
       /\ \A p \in 1 .. u : ~PastLookahead(i, p)
       /\ u = Len(Packets) \/ PastLookahead(i, u + 1)
       /\ Len(SamplesUpTo(i)[u]) >=
            (EndFrame(i) - FrameAt(AnchorPts(i)) + EncoderDelay) * Frame

\* A build whose reads all succeed emits its whole half-open frame range:
\* the lookahead outlasts the delay of the encoder.
AudioIsComplete ==
  \A i \in intact : AudioReaches(i) =>
    /\ Len(AudioOf(i)) = EndFrame(i) - FirstFrame(i)
    /\ \A n \in DOMAIN AudioOf(i) : AudioOf(i)[n].index = FirstFrame(i) + n - 1

\* Frame number m of the samples z.
FrameOf(z, m) ==
  IF m < 0 THEN <<>> ELSE SubSeq(z, m * Frame + 1, (m + 1) * Frame)

\* From the n-th on the frames of segment i are what a fresh encoder makes of
\* the file.
FreshFrom(i, n) ==
  LET z == SourceSamples(i) IN
  \A m \in n .. Len(AudioOf(i)) :
    LET k == AudioOf(i)[m].index - FrameAt(AnchorPts(i))
    IN  AudioOf(i)[m].payload = [samples |-> FrameOf(z, k),
                                 after   |-> FrameOf(z, k - 1)]

\* What is served is a function of the file, whatever was built before, in
\* whatever order, and whether those builds succeeded, but for the first frame
\* of segment 0: the preroll keeps what the encoder still held, and the
\* session's audio cache, out of the later segments.
OnlyFirstFrameIsStale ==
  \A i \in intact : AudioReaches(i) => FreshFrom(i, IF i = 0 THEN 2 ELSE 1)

\* "re-fetching segment N from a fresh process MUST return the same bytes
\* that were served the first time" (tests/test_determinism.cpp:3), the first
\* frame of the first segment included.
EverySegmentIsFresh == \A i \in intact : FreshFrom(i, 1)

\* The audio of the file is timed, in order and without a gap.
AudioIsGapless ==
  \A p \in DOMAIN Packets : IsAudio(p) =>
    /\ Packets[p].t = Packets[p].at
    /\ \A q \in (p + 1) .. Len(Packets) : IsAudio(q) =>
         /\ Packets[p].at < Packets[q].at
         /\ \/ \E r \in (p + 1) .. (q - 1) : IsAudio(r)
            \/ AudioPts(Packets[q].at) = AudioPts(Packets[p].at) + Packets[p].n

\* The preroll of segment i starts with a packet and on a frame boundary.
PrerollIsOnGrid(i) ==
  /\ AudioPts(DecodeStartMs(i)) % Frame = 0
  /\ \E p \in DOMAIN Packets :
       AudioRead(i, p) /\ Packets[p].t = DecodeStartMs(i)

\* Segment i has a frame of its own. (A shorter one is given a frame with which
\* the next one starts again, Session.cpp:185.)
HasOwnFrame(i) == FirstFrame(i) < FrameAt(AudioPts(EndMs(i)))

FirstSample(i) == AudioOf(i)[1].payload.samples[1]
LastSample(i)  == LET last == AudioOf(i)[Len(AudioOf(i))].payload.samples
                  IN  last[Len(last)]

\* Where the audio is on the frame grid a segment goes on with the sample after
\* the last one of the segment before, although they come from encoder
\* sessions with different anchors. The frames of segment 0 count from the
\* priming on, wherever its preroll starts: both are heard again after it.
AudioFollowsOn ==
  AudioIsGapless =>
    \A i, j \in intact :
      /\ j = i + 1 /\ HasOwnFrame(i)
      /\ \A s \in {i, j} : PrerollIsOnGrid(s) /\ AudioReaches(s)
      => FirstSample(j) =
           LastSample(i) + 1 - (IF i = 0 THEN Padding + AudioPts(DecodeStartMs(0))
                                         ELSE 0)

\* "caching decoded -> re-encoded AAC by global 1024-sample frame index"
\* (Session.h:26): the frame with an index holds the same samples of the
\* source in every segment, those that start at the index times 1024.
FrameIndexIsGlobal ==
  \A i \in intact : \A n \in DOMAIN AudioOf(i) :
    AudioReaches(i) =>
      AudioOf(i)[n].payload.samples[1] = AudioOf(i)[n].index * Frame

\* "Walk packets until the next keyframe past segment_end_ms" (Session.h:25):
\* what is cached goes on to that keyframe, if the file has one.
CachedSegmentsAreWhole ==
  \A i \in Cached(segments) : \A p \in DOMAIN Packets :
    /\ IsVideo(p) /\ Timed(p) /\ p > VideoOf(i)[1]
    /\ \A q \in VideoOf(i)[1] .. p :
         ~(IsKey(q) /\ Timed(q) /\ Packets[q].t >= EndMs(i))
      => p \in Members(VideoOf(i))

\* "The last entry is the end-of-file timestamp" (Demuxer.h:43): the last
\* segment goes on to the last video packet.
LastSegmentReachesTheEnd ==
  \A i \in intact : i + 1 \notin Listed =>
    \A p \in DOMAIN Packets : IsVideo(p) /\ Timed(p) => p <= VideoOf(i)[Len(VideoOf(i))]
=============================================================================
