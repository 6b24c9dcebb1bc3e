----------------------------- MODULE MuxedFile -----------------------------
(***************************************************************************)
(* A Matroska file as its muxer put it together, and the cues it has for   *)
(* its video track: what CueIndex is to find in the bytes.                 *)
(*                                                                         *)
(* Ids and sizes take a byte each. Numbers are big-endian.                 *)
(***************************************************************************)
EXTENDS Integers, SequencesExt

CONSTANTS
  Byte,        \* 256
  HeaderSize,  \* kHeaderSize: how much of a file the header scan sees
  MinHeader,   \* the least a header can be
  MinChunk,    \* the least there has to be of the cues
  CuesLimit,   \* the most that is read of the cues
  ScaleUnit,   \* 1000000: a tick is timestamp_scale / ScaleUnit milliseconds
  NumberBytes, \* 8: how many bytes of a number are read
  MaxLong,     \* the largest int64_t: half of what so many bytes can hold
  MaxInt       \* the largest int

ASSUME FileAssumption ==
  /\ Byte \in Nat /\ Byte > 20
  /\ HeaderSize \in Nat /\ MinHeader \in Nat /\ MinHeader <= HeaderSize
  /\ MinChunk \in Nat /\ MinChunk >= 2 /\ CuesLimit \in Nat
  /\ MaxLong \in Nat /\ ScaleUnit \in 1 .. MaxLong
  /\ MaxInt \in 1 .. MaxLong

ASSUME NumberAssumption ==
  /\ NumberBytes \in Nat \ {0}
  /\ 2 * (MaxLong + 1) = Byte ^ NumberBytes

\* The element ids the code looks for.
Id == [EBMLHeader |-> 1, Segment |-> 2, SeekHead |-> 3, Seek |-> 4, SeekID |-> 5,
       SeekPosition |-> 6, Cues |-> 7, Info |-> 8, TimestampScale |-> 9,
       Tracks |-> 10, TrackEntry |-> 11, TrackNumber |-> 12, TrackType |-> 13,
       CuePoint |-> 14, CueTime |-> 15, CueTrackPositions |-> 16,
       CueTrack |-> 17, CueClusterPosition |-> 18]

Bytes == 0 .. (Byte - 1)

\* An element as its muxer knows it: where in the data of its parent it starts (from
\* 1 on), its data, and the elements they consist of. Leaves are numbers, or what
\* the code does not look into.
Element(Kid) == [id : Bytes \ {0}, at : Nat \ {0}, data : Seq(Bytes), kids : Seq(Kid)]

Leaf      == Element({})
Positions == Element(Leaf)       \* CueTrackPositions, Seek, TrackEntry
Point     == Element(Positions)  \* CuePoint, Info, SeekHead, Tracks
Section   == Element(Point)      \* Cues
TopLevel  == Element(Section)    \* Segment

\* The number that bytes stand for.
BigEndian(data) ==
  LET first[n \in 0 .. Len(data)] == IF n = 0 THEN 0 ELSE first[n - 1] * Byte + data[n]
  IN  first[Len(data)]

-----------------------------------------------------------------------------
(* The cues of a file, from what its muxer put there.                      *)

\* These elements consist of elements.
Master == {Id.Segment, Id.SeekHead, Id.Seek, Id.Info, Id.Tracks, Id.TrackEntry,
           Id.Cues, Id.CuePoint, Id.CueTrackPositions}

\* These are numbers.
Numeric == {Id.SeekID, Id.SeekPosition, Id.TimestampScale, Id.TrackNumber, Id.TrackType,
            Id.CueTime, Id.CueTrack, Id.CueClusterPosition}

\* The largest number that the code reads as it is: a track's number and type become
\* an int, the others an int64_t.
Limit(id) ==
  IF id \in {Id.TrackNumber, Id.TrackType, Id.CueTrack} THEN MaxInt ELSE MaxLong

\* An element with a number has one that is read as it is.
Fits(e) ==
  e.id \in Numeric => Len(e.data) <= NumberBytes /\ BigEndian(e.data) <= Limit(e.id)

\* The bytes of buf are these elements, one after another. The size of the last
\* may be unknown.
Tiles(es, buf) ==
  /\ es # <<>> /\ es[1].at = 1
  /\ \A n \in DOMAIN es :
       LET e   == es[n]
           end == e.at + 1 + Len(e.data)
       IN  /\ e.data # <<>> /\ Fits(e)
           /\ buf[e.at] = e.id /\ SubSeq(buf, e.at + 2, end) = e.data
           /\ IF n < Len(es)
              THEN buf[e.at + 1] = Len(e.data) /\ es[n + 1].at = end + 1
              ELSE buf[e.at + 1] >= Len(e.data) /\ Len(buf) = end

Nested(e) == e.id \in Master => Tiles(e.kids, e.data)

Places(id, es) == {n \in DOMAIN es : es[n].id = id}
Sole(id, es)   == \E n \in DOMAIN es : Places(id, es) = {n}
Part(id, es)   == es[CHOOSE n \in DOMAIN es : es[n].id = id]
Value(id, es)  == BigEndian(Part(id, es).data)

Sections(f)  == f.top[2].kids
DataStart(f) == f.top[2].at + 1

SeekHead(f)   == Part(Id.SeekHead, Sections(f)).kids
CuesSeeks(f)  == {n \in DOMAIN SeekHead(f) : /\ SeekHead(f)[n].id = Id.Seek
                                            /\ Value(Id.SeekID, SeekHead(f)[n].kids) = Id.Cues}
Movie(f)      == Part(Id.Tracks, Sections(f)).kids
VideoTracks(f) == {n \in DOMAIN Movie(f) : /\ Movie(f)[n].id = Id.TrackEntry
                                          /\ Value(Id.TrackType, Movie(f)[n].kids) = 1}
VideoNumber(f) == Value(Id.TrackNumber, Movie(f)[CHOOSE n \in VideoTracks(f) : TRUE].kids)

Scale(f) ==
  LET infos == Part(Id.Info, Sections(f)).kids
  IN  IF Places(Id.TimestampScale, infos) = {} THEN ScaleUnit
      ELSE Value(Id.TimestampScale, infos)

Points(f) == Part(Id.Cues, Sections(f)).kids

\* The positions that a cue point has for the video track.
Of(f, point) ==
  {n \in DOMAIN point.kids : /\ point.kids[n].id = Id.CueTrackPositions
                             /\ Value(Id.CueTrack, point.kids[n].kids) = VideoNumber(f)}

IsVideoCue(f, point) ==
  /\ point.id = Id.CuePoint
  /\ Places(Id.CueTime, point.kids) # {} /\ Of(f, point) # {}

CueOf(f, point) ==
  [time    |-> (Value(Id.CueTime, point.kids) * Scale(f)) \div ScaleUnit,
   cluster |-> DataStart(f) + Value(Id.CueClusterPosition,
                                    point.kids[CHOOSE n \in Of(f, point) : TRUE].kids)]

\* In the order of the file.
VideoCues(f) ==
  FlattenSeq([n \in DOMAIN Points(f) |->
                IF IsVideoCue(f, Points(f)[n]) THEN <<CueOf(f, Points(f)[n])>> ELSE <<>>])

\* A cue point: its time before its positions, one for the video track; its
\* time, in nanoseconds too, and its position in the file are an int64_t.
PointIsSound(f, point) ==
  /\ \/ Places(Id.CueTime, point.kids) = {}
     \/ /\ Sole(Id.CueTime, point.kids)
        /\ Value(Id.CueTime, point.kids) * Scale(f) <= MaxLong
  /\ \A n \in Places(Id.CueTrackPositions, point.kids) :
       /\ \A m \in Places(Id.CueTime, point.kids) : m < n
       /\ Sole(Id.CueTrack, point.kids[n].kids)
       /\ Len(Part(Id.CueTrack, point.kids[n].kids).data) = 1
       /\ Sole(Id.CueClusterPosition, point.kids[n].kids)
       /\ DataStart(f) + Value(Id.CueClusterPosition, point.kids[n].kids) <= MaxLong
  /\ \A m, n \in Of(f, point) : m = n

\* A file as it should be: a header and a Segment; one SeekHead, Info and Tracks,
\* in the part of it that is looked at, with a Seek for the cues and a video track;
\* cues; whatever else between the elements, at each level.
Sound(f) ==
  /\ Len(f.top) = 2 /\ f.top[1].id = Id.EBMLHeader /\ f.top[2].id = Id.Segment
  /\ Tiles(f.top, f.bytes) /\ Len(f.bytes) \in MinHeader .. MaxLong
  /\ Nested(f.top[2])
  /\ \A a \in Range(Sections(f)) :
       /\ Nested(a)
       /\ \A b \in Range(a.kids) : Nested(b) /\ \A c \in Range(b.kids) : Nested(c)
  /\ \A id \in {Id.SeekHead, Id.Info, Id.Tracks} :
       /\ Sole(id, Sections(f))
       /\ LET e == Part(id, Sections(f))
          IN  DataStart(f) + e.at + 1 + Len(e.data) <= HeaderSize
  /\ \A n \in Places(Id.Seek, SeekHead(f)) :
       Sole(Id.SeekID, SeekHead(f)[n].kids) /\ Sole(Id.SeekPosition, SeekHead(f)[n].kids)
  /\ \A n \in Places(Id.TrackEntry, Movie(f)) :
       /\ Sole(Id.TrackNumber, Movie(f)[n].kids) /\ Sole(Id.TrackType, Movie(f)[n].kids)
       /\ Value(Id.TrackNumber, Movie(f)[n].kids) > 0
  /\ \E n \in DOMAIN Movie(f) : VideoTracks(f) = {n}
  /\ LET infos == Part(Id.Info, Sections(f)).kids
     IN  Places(Id.TimestampScale, infos) = {} \/ Sole(Id.TimestampScale, infos)
  /\ Sole(Id.Cues, Sections(f))
  /\ LET c == Part(Id.Cues, Sections(f))
     IN  /\ f.top[2].data[c.at + 1] = Len(c.data)
         /\ \E n \in DOMAIN SeekHead(f) :
              /\ CuesSeeks(f) = {n}
              /\ Value(Id.SeekPosition, SeekHead(f)[n].kids) = c.at - 1
  /\ \A n \in Places(Id.CuePoint, Points(f)) : PointIsSound(f, Points(f)[n])

\* Its cues are neither too short nor too long to be read in one go.
CuesFit(f) == 2 + Len(Part(Id.Cues, Sections(f)).data) \in MinChunk .. CuesLimit
=============================================================================
