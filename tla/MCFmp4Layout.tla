---------------------------- MODULE MCFmp4Layout ----------------------------
(* Fmp4Layout on one or two tracks of up to four samples.                  *)
EXTENDS Fmp4Layout

UpTo(n, S) == UNION {[1 .. m -> S] : m \in 0 .. n}

P(dts, pts, key) == [size |-> 5, dts |-> dts, pts |-> pts, duration |-> 4, key |-> key]

\* Video whose decode times grow unevenly, stand still, go back or are missing,
\* with and without a duration of its own, pictures that are reordered, and
\* one that is presented before it is decoded.
VideoPacket ==
  [size : {0, 5}, dts : {2, 3, NoTime}, pts : {2, 4, NoTime}, duration : {0, 4},
   key : {TRUE}]
ManyVideos == UpTo(2, VideoPacket)
LongVideos ==
  {[n \in 1 .. 4 |-> P(dts[n], dts[n] + 2 * (n % 2), n = 1 \/ n = second)] :
     dts \in [1 .. 4 -> 2 .. 5], second \in {1, 3}}

\* Audio frames, none missing, of different sizes.
Audio(sizes) ==
  [n \in DOMAIN sizes |-> [size |-> sizes[n], dts |-> 1024 * (n - 1),
                           duration |-> 1024, cts |-> 0, key |-> TRUE]]
Audios == {Audio(s) : s \in UpTo(2, {0, 3})}

VideoOnly == {[start |-> start, packets |-> v, audio |-> <<>>] :
                start \in {0, 2}, v \in ManyVideos}
VideoAndAudio == {[start |-> 1, packets |-> v, audio |-> <<a>>] :
                    v \in ManyVideos \cup LongVideos, a \in Audios}
AllSegments == VideoOnly \cup VideoAndAudio

\* AudioSpecificConfigs of two and of five bytes, and the longest that fits.
V(extradata, known) ==
  [type |-> "video", extradata |-> extradata, known |-> known, padding |-> 0]
A(extradata, padding) ==
  [type |-> "audio", extradata |-> extradata, known |-> FALSE, padding |-> padding]
AllConfigs == {<<V(24, TRUE)>>, <<V(0, FALSE), A(2, 0)>>, <<V(40, TRUE), A(5, 1024)>>,
               <<V(40, FALSE), A(95, 1024)>>}

\* The track of tests/test_init_roundtrip.cpp gives the boxes of the file
\* test_init.mp4 that is kept beside it, of 679 bytes.
ASSUME TestInit == BuildInit(<<V(24, TRUE)>>).pos = 679
=============================================================================
