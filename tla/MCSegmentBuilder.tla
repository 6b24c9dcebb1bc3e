-------------------------- MODULE MCSegmentBuilder --------------------------
(* SegmentBuilder on small files: a keyframe every 8 ms of model time, AAC *)
(* frames of 2 samples, one sample a millisecond.                          *)
EXTENDS SegmentBuilder

Packet(track, key, t, at, n) == [track |-> track, key |-> key, t |-> t, at |-> at, n |-> n]

K(t) == Packet("video", TRUE, t, t, 0)
V(t) == Packet("video", FALSE, t, t, 0)
A(t) == Packet("audio", TRUE, t, t, 2)
S(t) == Packet("subtitle", TRUE, t, t, 0)

\* Packets without a time: the later frames of a lace, and a picture.
L(t) == Packet("audio", TRUE, NoTime, t, 2)
U(t) == Packet("video", FALSE, NoTime, t, 0)

\* Audio that cannot be decoded.
X(t) == Packet("audio", TRUE, t, t, 0)

Cue(t, at) == [t |-> t, at |-> at]

\* Interleaved by time, all keyframes in the cues.
Plain ==
  [packets |-> << K(0), A(0), A(2), V(4), A(4), A(6),
                  K(8), A(8), A(10), V(12), A(12), A(14),
                  K(16), A(16), A(18), V(20), A(20), A(22),
                  K(24), A(24), A(26), V(28), A(28), A(30) >>,
   cues   |-> << Cue(0, 1), Cue(8, 7), Cue(16, 13), Cue(24, 19) >>,
   bounds |-> <<0, 8, 16, 24>>]

\* Open GOPs whose leading pictures come after their keyframe, a keyframe
\* without a cue, audio that lags behind the video, and subtitles.
Reordered ==
  [packets |-> << K(0), V(4), A(0), V(2), A(2),
                  K(8), A(4), V(6), A(6), K(12), A(8), A(10), V(10), S(11), A(12),
                  K(16), A(14), V(14), A(16), V(20), A(18), A(20),
                  K(24), A(22), V(22), A(24), A(26), A(28), A(30) >>,
   cues   |-> << Cue(0, 1), Cue(8, 6), Cue(16, 16), Cue(24, 23) >>,
   bounds |-> <<0, 8, 16, 24>>]

\* No audio track, and a first keyframe that is not at zero.
Silent ==
  [packets |-> << K(2), V(4), V(6), K(8), V(12), K(16), V(20), K(24) >>,
   cues   |-> << Cue(2, 1), Cue(8, 4), Cue(16, 6), Cue(24, 8) >>,
   bounds |-> <<2, 8, 16, 24>>]

\* Laced audio and a picture without a time.
Laced ==
  [packets |-> << K(0), A(0), L(2), V(4), A(4), L(6),
                  K(8), A(8), L(10), U(12), V(13), A(12), L(14),
                  K(16), A(16), L(18), V(20), A(20), L(22),
                  K(24), A(24), L(26), V(28), A(28), L(30) >>,
   cues   |-> << Cue(0, 1), Cue(8, 7), Cue(16, 14), Cue(24, 20) >>,
   bounds |-> <<0, 8, 16, 24>>]

\* A hole in the audio, across a boundary.
Holed ==
  [packets |-> << K(0), A(0), A(2), V(4), A(4), X(6),
                  K(8), X(8), A(10), V(12), A(12), A(14),
                  K(16), A(16), A(18), V(20), A(20), A(22), K(24), A(24), A(26) >>,
   cues   |-> << Cue(0, 1), Cue(8, 7), Cue(16, 13), Cue(24, 19) >>,
   bounds |-> <<0, 8, 16, 24>>]

\* Audio that is between the frames of the grid.
OffGrid ==
  [packets |-> << K(0), A(0), A(2), V(4), A(4), A(6),
                  K(8), A(8), A(10), V(12), A(12), A(14),
                  K(17), A(16), A(18), V(20), A(20), A(22),
                  K(25), A(24), A(26), V(28), A(28), A(30) >>,
   cues   |-> << Cue(0, 1), Cue(8, 7), Cue(17, 13), Cue(25, 19) >>,
   bounds |-> <<0, 8, 17, 25>>]

\* The first keyframe is later than the preroll is long, and a packet of audio
\* makes two AAC frames.
B(t) == Packet("audio", TRUE, t, t, 4)
Late ==
  [packets |-> << B(2), K(6), B(6), V(10), B(10), K(14), B(14), V(18), B(18),
                  K(22), B(22), B(26) >>,
   cues   |-> << Cue(6, 2), Cue(14, 6), Cue(22, 10) >>,
   bounds |-> <<6, 14, 22>>]

WellFormedFiles == {Plain, Reordered, Silent, Laced, Holed, Late}
PlainFile       == {Plain}
OffGridFile     == {OffGrid}
Segments3       == 0 .. 2
Frames          == -4 .. 20

\* Any record can be the bytes of a segment.
Bytes == [video : Seq(Nat), audio : Seq(STRING)]
=============================================================================
