SPECIFICATION Spec
CONSTANTS
  Absent = Absent
  Body <- Bytes
  Segment <- Segments3
  MaxCachedSegments = 2
  Files <- PlainFile
  NoTime = NoTime
  Rate = 1
  Frame = 2
  Padding = 2
  EncoderDelay = 2
  Preroll = 4
  Lookahead = 5
  MaxAudioFrames = 20
  AudioIndex <- Frames
  MaxReadErrors = 0
INVARIANTS
  EverySegmentIsFresh
CHECK_DEADLOCK FALSE
