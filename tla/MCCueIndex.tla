----------------------------- MODULE MCCueIndex -----------------------------
(* CueIndex on files whose elements are put together here: every choice of *)
(* cue times in a plain file, and a few cues in files that are not. A      *)
(* number has two bytes, an int one.                                       *)
EXTENDS CueIndex

EarlyTimes == 0 .. 12
CueTimes == EarlyTimes \cup {-2768, -6, 16383}

\* The bytes of elements, and elements with their places.
Join(es) == FlattenSeq([n \in DOMAIN es |-> <<es[n].id, Len(es[n].data)>> \o es[n].data])
Laid(es) == [n \in DOMAIN es |-> [es[n] EXCEPT !.at = 1 + Len(Join(SubSeq(es, 1, n - 1)))]]

\* A leaf, and an element made of others.
Plain(id, data) == [id |-> id, at |-> 1, data |-> data, kids |-> <<>>]
Holding(id, es)     == [id |-> id, at |-> 1, data |-> Join(es), kids |-> Laid(es)]
Wide(n)         == <<n \div Byte, n % Byte>>

\* Ids the code does not look for.
Void    == 19
Cluster == 20

\* Places and positions of clusters do not matter to the parser: cue t is at
\* 300 + t. Tracks are numbered.
At(track, t) ==
  Holding(Id.CueTrackPositions,
      <<Plain(Id.CueTrack, <<track>>), Plain(Id.CueClusterPosition, Wide(300 + t))>>)
PointAt(t, ticks, tracks) ==
  Holding(Id.CuePoint,
      <<Plain(Id.CueTime, Wide(ticks))>> \o [n \in DOMAIN tracks |-> At(tracks[n], t)])

Track(number, type) ==
  Holding(Id.TrackEntry, <<Plain(Id.TrackNumber, <<number>>), Plain(Id.TrackType, <<type>>)>>)

SeekTo(id, at) ==
  Holding(Id.Seek, <<Plain(Id.SeekID, <<id>>), Plain(Id.SeekPosition, Wide(at))>>)

\* A file with these sections, of unknown length as a live muxer leaves it, and
\* one with cues behind them.
Muxed(sections, faults) ==
  LET segment == Holding(Id.Segment, sections)
      head    == <<Id.EBMLHeader, 1, 0, Id.Segment, Byte - 1>>
  IN  [bytes  |-> head \o segment.data,
       top    |-> <<Plain(Id.EBMLHeader, <<0>>), [segment EXCEPT !.at = 4]>>,
       faults |-> faults]
File(before, cuePoints, faults) ==
  LET seekHead(at) == Holding(Id.SeekHead, <<SeekTo(Void, 5), SeekTo(Id.Cues, at)>>)
      at == Len(Join(<<seekHead(0)>> \o before))
  IN  Muxed(<<seekHead(at)>> \o before \o <<Holding(Id.Cues, cuePoints)>>, faults)

\* Ticks of half a millisecond, and of one and a half.
HalfScale == Holding(Id.Info, <<Plain(Id.TimestampScale, <<1>>)>>)
LongScale == Holding(Id.Info, <<Plain(Id.TimestampScale, <<3>>)>>)
TwoTracks == Holding(Id.Tracks, <<Track(1, 2), Track(2, 1)>>)
Media     == Plain(Cluster, <<0, 0, 0>>)

\* Times in increasing order.
Ordered(S) == SelectSeq([n \in 1 .. 13 |-> n - 1], LAMBDA t : t \in S)
PointsAt(times, tracks) ==
  [n \in DOMAIN times |-> PointAt(times[n], 2 * times[n], tracks)]
PlainFile(S, faults) ==
  File(<<HalfScale, TwoTracks, Media>>, PointsAt(Ordered(S), <<2>>), faults)

\* All ways to have up to six cues.
AllCues == {PlainFile(S, 0) : S \in {T \in SUBSET EarlyTimes : Cardinality(T) \in 1 .. 6}}

\* Reads come back short.
Faulty == {PlainFile({0, 2, 5}, 1), PlainFile({1, 4}, 2)}

\* Both tracks have cues, in one point or apart, and more of them than are read;
\* a point without a time; sections in another order.
Mixed ==
  {File(<<HalfScale, TwoTracks>>,
        <<PointAt(0, 0, <<1, 2>>), PointAt(3, 6, <<1>>), PointAt(4, 9, <<2, 1>>)>>, 1),
   File(<<HalfScale, TwoTracks>>, PointsAt(<<0, 1, 4, 5, 8, 9>>, <<1, 2>>), 0),
   File(<<TwoTracks, HalfScale, Media>>,
        <<Holding(Id.CuePoint, <<At(2, 1)>>), Plain(Void, <<0, 0>>), PointAt(7, 14, <<2>>)>>, 0),
   File(<<LongScale, TwoTracks>>,
        <<PointAt(3, 2, <<2>>), PointAt(4, 3, <<2>>), PointAt(7, 5, <<2>>)>>, 0),
   File(<<HalfScale, Holding(Id.Tracks, <<Track(MaxInt, 1)>>)>>,
        <<PointAt(5, 10, <<MaxInt>>), PointAt(6, MaxLong, <<MaxInt>>)>>, 1)}

\* An element of no size or of unknown size before the tracks; the tracks behind the
\* part of the file that is looked at; an empty time; no cues; no seek head.
\* They are not Sound.
Odd ==
  {File(<<Plain(Void, <<>>), HalfScale, TwoTracks>>, PointsAt(<<0, 5>>, <<2>>), 0),
   LET f == File(<<Plain(Cluster, <<0>>), HalfScale, TwoTracks>>, PointsAt(<<0, 5>>, <<2>>), 0)
   IN  [f EXCEPT !.bytes[DataStart(f) + Sections(f)[2].at + 1] = Byte - 1],
   File(<<Plain(Void, [n \in 1 .. 40 |-> 0]), HalfScale, TwoTracks>>,
        PointsAt(<<0, 5>>, <<2>>), 0),
   File(<<HalfScale, TwoTracks>>,
        <<Holding(Id.CuePoint, <<At(2, 0), Plain(Id.CueTime, <<>>)>>), PointAt(5, 10, <<2>>)>>, 0),
   File(<<HalfScale, TwoTracks>>, <<>>, 0),
   Muxed(<<HalfScale, TwoTracks>>, 1)}

\* Numbers that are too large for what they become: a negative scale, a time that is
\* none, one that is negative in nanoseconds, a cluster past the last place; a track's
\* number that is negative, or another track's; more bytes than are read.
Large(n) == Wide(Byte * Byte - n)
TooLarge ==
  {File(<<Holding(Id.Info, <<Plain(Id.TimestampScale, Large(2))>>), TwoTracks>>,
        PointsAt(<<3>>, <<2>>), 0),
   File(<<HalfScale, TwoTracks>>,
        <<PointAt(1, Byte * Byte - 5, <<2>>), PointAt(5, 10, <<2>>)>>, 0),
   File(<<LongScale, TwoTracks>>, <<PointAt(1, 20000, <<2>>)>>, 0),
   File(<<HalfScale, TwoTracks>>, <<PointAt(MaxLong - 300, 2, <<2>>)>>, 0),
   File(<<HalfScale, Holding(Id.Tracks, <<Track(200, 1)>>)>>, PointsAt(<<2>>, <<1, 200>>), 0),
   File(<<HalfScale,
          Holding(Id.Tracks,
                  <<Holding(Id.TrackEntry, <<Plain(Id.TrackNumber, Wide(Byte + 2)),
                                             Plain(Id.TrackType, <<1>>)>>)>>)>>,
        PointsAt(<<2>>, <<2>>), 0),
   File(<<HalfScale, TwoTracks>>,
        <<Holding(Id.CuePoint, <<Plain(Id.CueTime, <<0, 4, 7>>), At(2, 2)>>)>>, 0)}

\* The cues are said to be before the file. Reading goes on behind the part that is
\* looked at: after the file, or by chance where cues come, or what looks like them.
Before(rest) ==
  LET seek  == Holding(Id.Seek, <<Plain(Id.SeekID, <<Id.Cues>>),
                                  Plain(Id.SeekPosition, Large(9))>>)
      first == <<Holding(Id.SeekHead, <<seek>>), HalfScale, TwoTracks>>
      gap   == HeaderSize - 5 - Len(Join(first)) - 2
  IN  Muxed(first \o <<Plain(Void, [n \in 1 .. gap |-> 0])>> \o rest, 1)
Astray ==
  {Before(<<>>), Before(<<Holding(Id.Cues, PointsAt(<<3, 5>>, <<2>>))>>),
   Before(<<Plain(Id.Cues, <<0, 0>> \o Join(<<Holding(Id.Cues, PointsAt(<<3, 5>>, <<2>>))>>))>>)}

\* Of the files above those are as they should be that are meant to be.
ASSUME SoundOnes ==
  /\ \A f \in AllCues \cup Faulty \cup Mixed : Sound(f)
  /\ \A f \in Odd \cup TooLarge \cup Astray : ~Sound(f)

AllFiles == AllCues \cup Faulty \cup Mixed \cup Odd \cup TooLarge \cup Astray
=============================================================================
