----------------------------- MODULE Fmp4Layout -----------------------------
(***************************************************************************)
(* Where things are in a media segment, and what a player that has the     *)
(* init segment (InitSegment) makes of them: Session's append_video_packet *)
(* makes samples of the packets of the walk, fix_video_durations gives     *)
(* them their durations, and Fmp4Writer::BuildSegment writes box by box.   *)
(* A buffer is its length and the boxes in it; what is checked is how the  *)
(* offsets, sizes, flags and times written in one place fit what is        *)
(* written in another. Sizes are bytes, times are ticks of the track.      *)
(***************************************************************************)
EXTENDS InitSegment

CONSTANTS
  Segments,      \* what BuildSegment is made of: see SegmentType
  TrackConfigs,  \* what BuildInit can be given: a video track and an audio track
  NoTime         \* AV_NOPTS_VALUE

\* A video packet of the walk.
Packet == [size : Nat, dts : Int \cup {NoTime}, pts : Int \cup {NoTime},
           duration : Nat, key : BOOLEAN]

\* A sample, as BuildSegment is given it.
Sample == [size : Nat, dts : Int, duration : Nat, cts : Nat, key : BOOLEAN]

\* A frame of the encoder: each is a sync sample.
AudioSample == [size : Nat, dts : Int, duration : Nat, cts : Nat, key : {TRUE}]

\* start_time of the video stream and its packets, and the samples of the audio
\* track, if there is one.
SegmentType == [start : Nat, packets : Seq(Packet), audio : Seq(Seq(AudioSample))]

\* The longest AudioSpecificConfig whose descriptors have lengths of seven bits;
\* an encoder of AAC makes a few bytes (external).
MaxAudioConfig == 95

ASSUME LayoutAssumption ==
  /\ Word \in Nat /\ Word >= 256
  /\ NoTime \notin Int
  /\ Segments \subseteq SegmentType
  /\ \A s \in Segments : Len(s.audio) <= 1
  /\ TrackConfigs \subseteq Seq(Track)
  /\ \A c \in TrackConfigs :
       /\ Len(c) \in 1 .. 2 /\ c[1].type = "video"
       /\ Len(c) = 2 => c[2].type = "audio" /\ c[2].extradata <= MaxAudioConfig

VARIABLES
  source,      \* the packets of the walk
  tracks,      \* samples_per_track; the first track is the video
  init,        \* the init segment
  phase,       \* what is written next
  track,       \* the track the loop is at
  pos,         \* buf_.size()
  boxes,       \* the boxes of the buffer, in order: type, start, size
  moofAt,      \* moof_start
  sidx,        \* per track: the end of its sidx box and the fields in it
  dataOffset,  \* per track: trun.data_offset
  payloadAt,   \* per track: track_payload_offsets_in_moof
  sampleAt     \* history: per track, where each sample was written

vars == <<source, tracks, init, phase, track, pos, boxes, moofAt, sidx, dataOffset,
          payloadAt, sampleAt>>

writerVars == <<track, pos, boxes, moofAt, sidx, dataOffset, payloadAt, sampleAt>>

Tracks == DOMAIN tracks

\* The sum of a sequence of numbers.
Total(s) ==
  LET sum[n \in 0 .. Len(s)] == IF n = 0 THEN 0 ELSE sum[n - 1] + s[n]
  IN  sum[Len(s)]

Sizes(samples)     == [n \in DOMAIN samples |-> samples[n].size]
Durations(samples) == [n \in DOMAIN samples |-> samples[n].duration]

-----------------------------------------------------------------------------
(* append_video_packet.                                                    *)

\* The times of the stream start at zero, if it starts late.
Shifted(t) == IF t = NoTime THEN NoTime ELSE t - source.start

HasTime(p) == p.dts # NoTime \/ p.pts # NoTime

Dts(p) == IF p.dts = NoTime THEN Shifted(p.pts) ELSE Shifted(p.dts)

\* Mutant of Pts: the start of the stream stays in.
Pts_Unshifted(p) == IF p.pts = NoTime THEN Dts(p) ELSE p.pts

Pts(p) == IF p.pts = NoTime THEN Dts(p) ELSE Shifted(p.pts)

\* Times are in units of the output, 1/16000 s: av_rescale_q to these multiplies the
\* milliseconds of a Matroska stream by 16, which loses nothing. A composition
\* offset is taken to fit an int32_t.
VideoSample(p) ==
  [size |-> p.size, dts |-> Dts(p), duration |-> p.duration, key |-> p.key,
   cts |-> IF Pts(p) < Dts(p) THEN 0 ELSE Pts(p) - Dts(p)]

\* The packets that have a time.
WithTime(packets) ==
  LET kept[n \in 0 .. Len(packets)] ==
        IF n = 0 THEN <<>>
        ELSE IF HasTime(packets[n]) THEN Append(kept[n - 1], packets[n])
        ELSE kept[n - 1]
  IN  kept[Len(packets)]

Kept == WithTime(source.packets)

VideoSamples == [n \in DOMAIN Kept |-> VideoSample(Kept[n])]

-----------------------------------------------------------------------------
(* fix_video_durations.                                                    *)

\* Mutant of Gap: the difference is taken as it is.
Gap_Unchecked(samples, n) == samples[n + 1].dts - samples[n].dts

\* The distance to the next sample, if that is later; else the packet's own.
Gap(samples, n) ==
  LET gap == samples[n + 1].dts - samples[n].dts
  IN  IF gap > 0 THEN gap ELSE samples[n].duration

\* 16000 / 30: one sample alone without a duration.
LoneDuration == 533

\* Mutant of FixedDuration: the one before counts.
FixedDuration_Shifted(samples, n) ==
  IF n > 1 THEN Gap(samples, n - 1) ELSE samples[n].duration

FixedDuration(samples, n) ==
  IF n < Len(samples) THEN Gap(samples, n)
  ELSE IF n > 1 THEN Gap(samples, n - 1)
  ELSE IF samples[n].duration = 0 THEN LoneDuration
  ELSE samples[n].duration

FixVideoDurations(samples) ==
  [n \in DOMAIN samples |->
     [samples[n] EXCEPT !.duration = FixedDuration(samples, n)]]

-----------------------------------------------------------------------------
(* The boxes.                                                              *)

StypSize == BoxHeader + 4 * 4
SidxSize == FullBoxHeader + 2 * 4 + 2 * 8 + 2 * 2 + 3 * 4
MfhdSize == FullBoxHeader + 4
TfhdSize == FullBoxHeader + 4
TfdtSize == FullBoxHeader + 8

\* sample_count, data_offset, first_sample_flags, three fields a sample.
TrunSize(samples) == FullBoxHeader + 3 * 4 + 3 * 4 * Len(samples)

\* No trun for a track without samples.
TrafSize(samples) ==
  BoxHeader + TfhdSize + TfdtSize
    + (IF samples = <<>> THEN 0 ELSE TrunSize(samples))

Box(type, at, size) == [type |-> type, at |-> at, size |-> Truncated(size)]

\* Mutant of EndedBox: the size leaves out the header.
EndedBox_BodyOnly(type, at) == Box(type, at, pos - at - BoxHeader)

\* EndBox for the box that was begun at `at`.
EndedBox(type, at) == Box(type, at, pos - at)

Init ==
  /\ source \in Segments /\ tracks = <<>>
  /\ init = NewBuilder
  /\ phase = "init" /\ track = 1 /\ pos = 0 /\ boxes = <<>> /\ moofAt = 0
  /\ sidx = <<>> /\ dataOffset = <<>> /\ payloadAt = <<>> /\ sampleAt = <<>>

\* GenerateInitSegment, for a session whose file has these tracks.
MakeInit ==
  /\ phase = "init" /\ phase' = "packets"
  /\ \E config \in TrackConfigs :
       /\ source.audio # <<>> => Len(config) = 2
       /\ init' = BuildInit(config)
  /\ UNCHANGED <<source, tracks, writerVars>>

\* The video of the walk; without any the build throws.
AppendVideoPackets ==
  /\ phase = "packets"
  /\ phase' = IF Kept = <<>> THEN "thrown" ELSE "durations"
  /\ tracks' = <<VideoSamples>> \o source.audio
  /\ UNCHANGED <<source, init, writerVars>>

FixDurations ==
  /\ phase = "durations" /\ phase' = "styp"
  /\ tracks' = [tracks EXCEPT ![1] = FixVideoDurations(@)]
  /\ UNCHANGED <<source, init, writerVars>>

WriteStyp ==
  /\ phase = "styp" /\ phase' = "sidx" /\ track' = 1
  /\ pos' = pos + StypSize
  /\ boxes' = Append(boxes, Box("styp", pos, StypSize))
  /\ UNCHANGED <<source, tracks, init, moofAt, sidx, dataOffset, payloadAt, sampleAt>>

\* tfdt_per_track, as Session gives it.
Tfdt(samples) == IF samples = <<>> THEN 0 ELSE samples[1].dts

\* earliest_presentation_time.
Ept(samples) == IF samples = <<>> THEN Tfdt(samples)
                ELSE samples[1].dts + samples[1].cts

WriteSidx ==
  /\ phase = "sidx" /\ track \in Tracks
  /\ track' = track + 1 /\ pos' = pos + SidxSize
  /\ boxes' = Append(boxes, Box("sidx", pos, SidxSize))
  /\ sidx' = Append(sidx,
       [end      |-> pos + SidxSize,
        first    |-> 0,
        ept      |-> Ept(tracks[track]),
        duration |-> Truncated(Total(Durations(tracks[track]))),
        size     |-> 0])
  /\ UNCHANGED <<source, tracks, init, phase, moofAt, dataOffset, payloadAt, sampleAt>>

BeginMoof ==
  /\ phase = "sidx" /\ track \notin Tracks
  /\ phase' = "moof" /\ track' = 1 /\ moofAt' = pos
  /\ pos' = pos + BoxHeader + MfhdSize
  /\ UNCHANGED <<source, tracks, init, boxes, sidx, dataOffset, payloadAt, sampleAt>>

\* tfhd, tfdt and trun of a track; data_offset is patched later.
WriteTraf ==
  /\ phase = "moof" /\ track \in Tracks
  /\ track' = track + 1 /\ pos' = pos + TrafSize(tracks[track])
  /\ dataOffset' = Append(dataOffset, 0)
  /\ UNCHANGED <<source, tracks, init, phase, boxes, moofAt, sidx, payloadAt, sampleAt>>

\* The end of moof and the header of mdat.
BeginMdat ==
  /\ phase = "moof" /\ track \notin Tracks
  /\ phase' = "mdat" /\ track' = 1
  /\ boxes' = Append(boxes, EndedBox("moof", moofAt))
  /\ pos' = pos + BoxHeader
  /\ UNCHANGED <<source, tracks, init, moofAt, sidx, dataOffset, payloadAt, sampleAt>>

WriteSamples ==
  /\ phase = "mdat" /\ track \in Tracks
  /\ track' = track + 1
  /\ payloadAt' = Append(payloadAt, pos - moofAt)
  /\ sampleAt' = Append(sampleAt,
       [n \in DOMAIN tracks[track] |->
          pos + Total(SubSeq(Sizes(tracks[track]), 1, n - 1))])
  /\ pos' = pos + Total(Sizes(tracks[track]))
  /\ UNCHANGED <<source, tracks, init, phase, boxes, moofAt, sidx, dataOffset>>

MdatAt == moofAt + boxes[Len(boxes)].size

\* Mutant of DataOffset: counted from the start of mdat.
DataOffset_FromMdat(k) == Truncated(payloadAt[k] - boxes[Len(boxes)].size)

\* The patched trun.data_offset, counted from the start of moof.
DataOffset(k) == Truncated(payloadAt[k])

AfterSidx == IF sidx = <<>> THEN StypSize ELSE sidx[Len(sidx)].end

\* Mutant of ReferencedSize: the sidx boxes are counted too.
ReferencedSize_WithSidx == Truncated(pos - StypSize)

\* The low 31 bits of what follows the sidx boxes.
ReferencedSize == Truncated(pos - AfterSidx) % (Word \div 2)

\* The end of mdat, and the patches.
Patch ==
  /\ phase = "mdat" /\ track \notin Tracks
  /\ phase' = "done"
  /\ boxes' = Append(boxes, EndedBox("mdat", MdatAt))
  /\ dataOffset' = [k \in Tracks |->
                      IF tracks[k] = <<>> THEN dataOffset[k] ELSE DataOffset(k)]
  /\ sidx' = [k \in Tracks |-> [sidx[k] EXCEPT !.size = ReferencedSize]]
  /\ UNCHANGED <<source, tracks, init, track, pos, moofAt, payloadAt, sampleAt>>

Next ==
  \/ MakeInit \/ AppendVideoPackets \/ FixDurations \/ WriteStyp \/ WriteSidx \/ BeginMoof \/ WriteTraf
  \/ BeginMdat \/ WriteSamples \/ Patch

Spec == Init /\ [][Next]_vars

-----------------------------------------------------------------------------
(* Properties.                                                             *)

\* The buffer, its fields and the samples keep their types: a duration is a
\* uint32_t and never the cast of a negative gap, and no time is missing.
TypeOK ==
  /\ phase \in {"init", "packets", "thrown", "durations", "styp", "sidx", "moof",
                "mdat", "done"}
  /\ track \in 1 .. (Len(tracks) + 1)
  /\ pos \in Nat /\ moofAt \in 0 .. pos
  /\ tracks \in Seq(Seq(Sample))
  /\ Len(sidx) <= Len(tracks) /\ Len(dataOffset) <= Len(tracks)
  /\ Len(payloadAt) <= Len(tracks) /\ Len(sampleAt) = Len(payloadAt)

Done == phase = "done"

\* The segment is no longer than referenced_size can say. Nothing in the writer
\* checks it: the casts of EndBox and of the patches take the low bits.
Fits == pos < Word \div 2

\* The boxes follow each other without gap or overlap from the start of the
\* segment to its end: a parser that hops from size to size meets each.
BoxesTile ==
  Done /\ Fits =>
    /\ boxes[1].at = 0
    /\ \A n \in 1 .. (Len(boxes) - 1) :
         boxes[n + 1].at = boxes[n].at + boxes[n].size
    /\ boxes[Len(boxes)].at + boxes[Len(boxes)].size = pos

\* A player that starts at trun.data_offset and adds up the sizes finds every
\* sample where it was written.
SamplesWhereTrunSays ==
  Done /\ Fits => \A k \in Tracks : \A n \in DOMAIN tracks[k] :
    sampleAt[k][n] =
      moofAt + dataOffset[k] + Total(SubSeq(Sizes(tracks[k]), 1, n - 1))

\* "moof+mdat together" (Fmp4Writer.cpp:635): the size in every sidx is that of
\* the whole fragment and nothing else, and for the last sidx the fragment
\* starts where the reference does, right behind it. (With two tracks the
\* first sidx also says first_offset 0, and there the second sidx follows.)
SidxCoversFragment ==
  Done /\ Fits =>
    /\ \A k \in Tracks :
         sidx[k].size = boxes[Len(boxes) - 1].size + boxes[Len(boxes)].size
    /\ sidx[Len(sidx)].end + sidx[Len(sidx)].first = moofAt

IncreasingDts(samples) ==
  \A m, n \in DOMAIN samples : m < n => samples[m].dts < samples[n].dts

\* The time at which a player decodes sample n of the video: only tfdt and the
\* durations are written.
DecodeTime(n) == Tfdt(tracks[1]) + Total(SubSeq(Durations(tracks[1]), 1, n - 1))

\* The video is presented at the times the source gave it, less the start of the
\* stream, except that no picture is presented before it is decoded; a time
\* that is missing is taken from the other. (append_video_packet,
\* fix_video_durations and the writer each do a part of this.)
PresentationTimesKept ==
  Done /\ IncreasingDts(tracks[1]) =>
    \A n \in DOMAIN Kept :
      LET p   == Kept[n]
          dts == IF p.dts = NoTime THEN p.pts ELSE p.dts
          pts == IF p.pts = NoTime THEN p.dts ELSE p.pts
      IN  DecodeTime(n) + tracks[1][n].cts + source.start =
            IF pts < dts THEN dts ELSE pts

\* What a player takes for a sync sample: the first of a trun
\* (first_sample_flags), and those that the trex of their track says are.
Trex(k) == CHOOSE n \in DOMAIN init.boxes :
             init.boxes[n].type = "trex" /\ init.boxes[n].says.track = k
PlayerSync(k, n) == n = 1 \/ ~init.boxes[Trex(k)].says.nonSync

\* In a segment that starts with a keyframe a player takes only keyframes for
\* sync samples, all of them if there is no second one, and every audio frame.
\* (A second keyframe is not marked: is_keyframe, which "sets trun
\* sample_flags" by Sample.h:19, is never written.)
SyncSamplesAreKeyframes ==
  Done /\ tracks[1][1].key =>
    \A k \in Tracks : \A n \in DOMAIN tracks[k] :
      IF k = 1 /\ \E m \in 2 .. Len(tracks[k]) : tracks[k][m].key
      THEN PlayerSync(k, n) => tracks[k][n].key
      ELSE PlayerSync(k, n) <=> tracks[k][n].key

End(b) == b.at + b.size

\* The lengths in esds, which are added up by hand and written before what they
\* count, fit each other and the box: each descriptor ends where the one
\* after it starts or the one around it ends, and a length takes seven bits.
DescriptorsNest ==
  phase # "init" =>
    \A n \in DOMAIN init.boxes : init.boxes[n].type = "esds" =>
      LET Of(tag) == init.boxes[CHOOSE m \in DOMAIN init.boxes : init.boxes[m].type = tag]
      IN  /\ End(Of("ES")) = End(init.boxes[n])
          /\ End(Of("DecoderConfig")) = Of("SLConfig").at
          /\ End(Of("DecoderSpecificInfo")) = End(Of("DecoderConfig"))
          /\ End(Of("SLConfig")) = End(Of("ES"))
          /\ Of("ES").says < 128
=============================================================================
