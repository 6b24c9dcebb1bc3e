------------------------------- MODULE CueIndex -------------------------------
(***************************************************************************)
(* Demuxer::EnsureCueIndex from the file to the boundaries: the header is  *)
(* read and scanned for the video track and the place of the cues          *)
(* (EbmlParser.h), the cues are read and scanned for cue points, and       *)
(* FilterKeyframes (KeyframeIndex) makes the boundaries of their times.    *)
(* Each of the three reads may come back short.                            *)
(*                                                                         *)
(* A file is a sequence of bytes, at positions that count from 0. Ids and  *)
(* sizes take a byte each; an unknown size is the largest, and is taken    *)
(* for that number as in the code. Numbers are as wide as they come; the   *)
(* code reads the first of their bytes and casts what they give.           *)
(***************************************************************************)
EXTENDS KeyframeIndex, MuxedFile

CONSTANTS
  Files,      \* the files there are: see FileType
  ChunkSize   \* what is read to learn the size of the cues

\* bytes; top, what the file's muxer put there; faults, how many reads of it may come
\* back short.
FileType == [bytes : Seq(Bytes), top : Seq(TopLevel), faults : Nat]

ASSUME CueAssumption ==
  /\ ChunkSize \in Nat /\ MinChunk <= ChunkSize
  /\ Files \subseteq FileType

VARIABLES
  file,    \* the file; its faults are those still to come
  step,    \* what EnsureCueIndex does next
  short,   \* history: the reads that came back short
  info,    \* seg_info and cues_loc
  tell,    \* where the file is read next: avio_tell
  points,  \* the children of Cues that are still to be visited
  cues     \* cue_entries, later cached_cues_

cueVars == <<file, step, short, info, tell, points, cues>>

-----------------------------------------------------------------------------
(* EbmlParser.h.                                                           *)

\* What an int64_t holds, and the casts to it and to int; a sum or a product that
\* an int64_t does not hold wraps around as these do on the machine.
Long == (-(MaxLong + 1)) .. MaxLong

Wrapped(n, max) == ((n + max + 1) % (2 * (max + 1))) - (max + 1)
AsLong(n) == Wrapped(n, MaxLong)
AsInt(n)  == Wrapped(n, MaxInt)

\* Division, which drops the fraction.
Quotient(a, b) == IF a >= 0 THEN a \div b ELSE -((-a) \div b)

\* ebml_read_uint: the number of the first bytes.
Uint(data) ==
  BigEndian(IF Len(data) <= NumberBytes THEN data ELSE SubSeq(data, 1, NumberBytes))

\* The scan goes on after an element of this size, with so much left.
Skippable(size, left) == size > 0 /\ size <= left

\* What of an element's data a visitor sees.
Available(size, left) == IF size > 0 /\ size < left THEN size ELSE left

\* ebml_scan_children: the children a visitor is called with, buf being at
\* `base` of the file.
Children(buf, base) ==
  LET from[p \in 1 .. (Len(buf) + 1)] ==
        IF p + 2 > Len(buf) \/ buf[p] = 0 THEN <<>>
        ELSE LET size == buf[p + 1]
                 left == Len(buf) - (p + 1)
                 child == [id |-> buf[p], size |-> size, at |-> base + p + 1,
                           data |-> SubSeq(buf, p + 2, p + 1 + Available(size, left))]
             IN  <<child>> \o (IF Skippable(size, left) THEN from[p + 2 + size] ELSE <<>>)
  IN  from[1]

\* The elements of s at the places P.
Only(s, P) == FlattenSeq([n \in DOMAIN s |-> IF n \in P THEN <<s[n]>> ELSE <<>>])

\* The children with this id, and those of all of a sequence of elements.
Named(id, buf) ==
  LET all == Children(buf, 0) IN Only(all, {n \in DOMAIN all : all[n].id = id})
NamedIn(id, elements) ==
  FlattenSeq([n \in DOMAIN elements |-> Named(id, elements[n].data)])

\* The number in the last child with this id: each one visited replaces the
\* one before.
Number(id, buf, default) ==
  LET c == Named(id, buf) IN IF c = <<>> THEN default ELSE Uint(c[Len(c)].data)

\* Where the children of Segment start: after the last EBML header that is met
\* and the header of a Segment that follows it. -1 if that is not there.
SegmentStart(buf) ==
  LET heads == Named(Id.EBMLHeader, buf)
      pos   == IF heads = <<>> THEN 0 ELSE FinalOf(heads).at + FinalOf(heads).size
  IN  IF /\ Len(buf) >= MinHeader
         /\ pos # 0 /\ pos + 2 <= Len(buf) /\ buf[pos + 1] = Id.Segment
      THEN pos + 2 ELSE -1

SegmentData(buf) == SubSeq(buf, SegmentStart(buf) + 1, Len(buf))

\* parse_segment_info: the scale, and the number of the last video track.
TimestampScale(buf) ==
  LET scales == NamedIn(Id.TimestampScale, Named(Id.Info, SegmentData(buf)))
  IN  IF SegmentStart(buf) = -1 \/ scales = <<>> THEN ScaleUnit
      ELSE AsLong(Uint(FinalOf(scales).data))

TrackNumber(entry) == AsInt(Number(Id.TrackNumber, entry.data, 0))
IsVideo(entry)     == AsInt(Number(Id.TrackType, entry.data, 0)) = 1

\* The number of the last of these entries.
LastOf(videos) == IF videos = <<>> THEN 1 ELSE TrackNumber(FinalOf(videos))

TrackEntries(buf) ==
  IF SegmentStart(buf) = -1 THEN <<>>
  ELSE NamedIn(Id.TrackEntry, Named(Id.Tracks, SegmentData(buf)))

\* Mutant of VideoTrack: any number will do.
VideoTrack_AnyNumber(buf) ==
  LET entries == TrackEntries(buf)
  IN  LastOf(Only(entries, {n \in DOMAIN entries : IsVideo(entries[n])}))

VideoTrack(buf) ==
  LET entries == TrackEntries(buf)
  IN  LastOf(Only(entries, {n \in DOMAIN entries :
                              IsVideo(entries[n]) /\ TrackNumber(entries[n]) > 0}))

\* parse_cues_location: the Seek entries for Cues, and where one points. The last
\* of them counts.
SeeksOfCues(buf) ==
  LET seeks == NamedIn(Id.Seek, Named(Id.SeekHead, SegmentData(buf)))
  IN  Only(seeks, {n \in DOMAIN seeks :
                     /\ Number(Id.SeekID, seeks[n].data, 0) = Id.Cues
                     /\ Named(Id.SeekPosition, seeks[n].data) # <<>>})

PlaceOf(seek, buf) ==
  AsLong(SegmentStart(buf) + AsLong(Number(Id.SeekPosition, seek.data, 0)))

FindsCues(buf) == SegmentStart(buf) # -1 /\ SeeksOfCues(buf) # <<>>
CuesAt(buf)    == PlaceOf(FinalOf(SeeksOfCues(buf)), buf)

\* For an entry that points before the file it reads before the buffer: the size of
\* Cues, which nobody asks for, or memory that is not there.
ReadsBefore(buf) ==
  \E n \in DOMAIN SeeksOfCues(buf) : PlaceOf(SeeksOfCues(buf)[n], buf) < 0

\* Mutant of TimeMs: the division comes first.
TimeMs_DividesFirst(ticks) == AsLong(Quotient(ticks, ScaleUnit) * info.scale)

TimeMs(ticks) == Quotient(AsLong(ticks * info.scale), ScaleUnit)

\* Mutant of VideoPositions: those of any track.
VideoPositions_AnyTrack(point) == Named(Id.CueTrackPositions, point)

\* The positions a cue point has for the video track.
VideoPositions(point) ==
  LET all == Named(Id.CueTrackPositions, point)
  IN  Only(all, {n \in DOMAIN all : AsInt(Number(Id.CueTrack, all[n].data, 0)) = info.track})

\* cue_time: -1 without one.
CueTicks(point) == AsLong(Number(Id.CueTime, point, -1))

\* Mutant of IsCue: a point needs no positions.
IsCue_AnyTrack(point) == CueTicks(point) >= 0

\* parse_cues_data makes an entry of a cue point.
IsCue(point) == CueTicks(point) >= 0 /\ VideoPositions(point) # <<>>

\* The entry, with the last of the video's positions.
Entry(point) ==
  LET all == VideoPositions(point)
      at  == IF all = <<>> THEN -1
             ELSE AsLong(Number(Id.CueClusterPosition, FinalOf(all).data, -1))
  IN  [time    |-> TimeMs(CueTicks(point)),
       cluster |-> IF at >= 0 THEN AsLong(info.start + at) ELSE -1]

-----------------------------------------------------------------------------
(* EnsureCueIndex.                                                         *)

CueInit ==
  /\ Init
  /\ file \in Files
  /\ step = "header" /\ short = {} /\ tell = 0 /\ points = <<>> /\ cues = <<>>
  /\ info = [scale |-> ScaleUnit, track |-> 1, start |-> -1, cues |-> -1,
             length |-> 0]

\* What there is at `at`, up to n bytes.
Whole(at, n) ==
  SubSeq(file.bytes, at + 1, IF at + n < Len(file.bytes) THEN at + n ELSE Len(file.bytes))

\* avio_seek: to before the file it fails, which is not looked at.
From(at) == IF at >= 0 THEN at ELSE tell

\* avio_read of n bytes: all there are or, when a read fails, those that came
\* before.
Answers(at, n) ==
  {Whole(at, n)} \cup
  {SubSeq(Whole(at, n), 1, m) : m \in IF file.faults = 0 THEN {} ELSE 0 .. (Len(Whole(at, n)) - 1)}

\* The read of this step gave `got`.
Got(got, at, n) ==
  /\ tell' = at + Len(got)
  /\ IF got = Whole(at, n) THEN UNCHANGED <<file, short>>
     ELSE /\ file' = [file EXCEPT !.faults = @ - 1]
          /\ short' = short \cup {step}

\* Any of the early returns: no boundaries, as filtering no cues leaves none,
\* and that is cached.
Fail == StartFilter /\ step' = "failed" /\ UNCHANGED <<info, points, cues>>

\* EnsureCueIndex goes on, with nothing of KeyframeIndex changed.
GoOn(to) == step' = to /\ UNCHANGED vars

\* The header, and its two scans.
ReadHeader ==
  /\ step = "header"
  /\ \E got \in Answers(0, HeaderSize) :
       /\ Got(got, 0, HeaderSize)
       /\ IF got = <<>> \/ ~FindsCues(got) THEN Fail
          ELSE \/ /\ info' = [scale |-> TimestampScale(got), track |-> VideoTrack(got),
                              start |-> SegmentStart(got), cues |-> CuesAt(got),
                              length |-> 0]
                  /\ GoOn("chunk") /\ UNCHANGED <<points, cues>>
               \/ /\ ReadsBefore(got)
                  /\ GoOn("crashed") /\ UNCHANGED <<info, points, cues>>

CuesLength(chunk) ==
  LET all == 2 + chunk[2] IN IF all > CuesLimit THEN CuesLimit ELSE all

\* The first bytes of Cues, for its length, and then all of it. (Both are read at
\* the same place, unless that is before the file.)
ReadChunk ==
  /\ step = "chunk"
  /\ \E got \in Answers(From(info.cues), ChunkSize) :
       /\ Got(got, From(info.cues), ChunkSize)
       /\ IF Len(got) < MinChunk \/ got[1] # Id.Cues THEN Fail
          ELSE /\ info' = [info EXCEPT !.length = CuesLength(got)]
               /\ GoOn("cues") /\ UNCHANGED <<points, cues>>

ReadCues ==
  /\ step = "cues"
  /\ \E got \in Answers(From(info.cues), info.length) :
       /\ Got(got, From(info.cues), info.length)
       /\ IF got = <<>> THEN Fail
          ELSE /\ points' = IF got[1] # Id.Cues THEN <<>>
                            ELSE Named(Id.CuePoint, SubSeq(got, 3, Len(got)))
               /\ GoOn("scan") /\ UNCHANGED <<info, cues>>

\* parse_cues_data visits a cue point.
VisitCuePoint ==
  /\ step = "scan" /\ points # <<>>
  /\ LET point == Head(points).data IN
       IF IsCue(point)
       THEN /\ cues' = Append(cues, Entry(point))
            /\ raw' = Append(raw, Entry(point).time)
       ELSE UNCHANGED <<cues, raw>>
  /\ points' = Tail(points)
  /\ UNCHANGED <<file, step, short, info, tell, phase, next, filtered, nextTarget>>

\* FilterKeyframes.
BeginFilter ==
  /\ step = "scan" /\ points = <<>>
  /\ StartFilter /\ step' = "filter"
  /\ UNCHANGED <<file, short, info, tell, points, cues>>

Filter ==
  /\ step = "filter"
  /\ KeepCue \/ PassCue \/ EndFilter
  /\ UNCHANGED cueVars

CueNext ==
  \/ ReadHeader \/ ReadChunk \/ ReadCues \/ VisitCuePoint \/ BeginFilter \/ Filter

CueSpec == CueInit /\ [][CueNext]_<<vars, cueVars>>

-----------------------------------------------------------------------------
(* Properties.                                                             *)

\* No scaled time is further from zero.
MaxTime == (MaxLong + 1) \div ScaleUnit

Times == (-MaxTime) .. MaxTime

\* A cue of the video track: its time in milliseconds, its cluster's position.
Cue == [time : Times, cluster : Long]

\* Whatever numbers a file holds, and they may be negative when cast, the video
\* track's is not, times stay as far from the limits of int64_t as the scale puts
\* them, and so does next_target, which FilterKeyframes counts up.
CueTypeOK ==
  /\ TypeOK /\ nextTarget <= MaxTime + Target
  /\ step \in {"header", "chunk", "cues", "scan", "filter", "failed", "crashed"}
  /\ short \subseteq {"header", "chunk", "cues"}
  /\ info.scale \in Long /\ info.track \in 1 .. MaxInt
  /\ info.start \in Nat \cup {-1} /\ info.cues \in Long
  /\ info.length \in 0 .. CuesLimit /\ tell \in Nat
  /\ cues \in Seq(Cue)

\* A sound file whose reads are whole has the boundaries of its video track's
\* cues, no others and none missing, with the places of their clusters, whatever
\* else is between the elements.
CuesAreTheVideos ==
  phase = "done" /\ short = {} /\ Sound(file) /\ CuesFit(file) => cues = VideoCues(file)

\* When the cues come back short, or are longer than what is read of them, those
\* that are taken are the first of the file's, at their times; only the cluster of
\* the last may be cut off. (It then is another number than the "Absolute file
\* offset of the referenced Cluster", EbmlParser.h:243.)
ShortCuesAreTheFirst ==
  cues # <<>> /\ "header" \notin short /\ Sound(file) =>
    LET all == VideoCues(file)
    IN  /\ Len(cues) <= Len(all)
        /\ \A n \in DOMAIN cues :
             /\ cues[n].time = all[n].time
             /\ n < Len(cues) => cues[n].cluster = all[n].cluster

\* With all this FilterKeyframes works as KeyframeIndex has it: cues come one
\* at a time, in the order of their times, and a failure is an index of
\* no cues ("EnsureCueIndex", Demuxer.cpp:82).
ImplementsKeyframeIndex == Spec
=============================================================================
