SPECIFICATION Spec
CONSTANTS
  Absent = Absent
  Body <- Bytes
  Segment <- Segments3
  MaxCachedSegments = 2
  Files <- WellFormedFiles
  NoTime = NoTime
  Rate = 1
  Frame = 2
  Padding = 2
  EncoderDelay = 2
  Preroll = 4
  Lookahead = 5
  MaxAudioFrames = 6
  AudioIndex <- Frames
  MaxReadErrors = 2
INVARIANTS
  TypeOK
  SegmentsStartWithKeyframe
  SegmentsTileTheVideo
  AudioIsComplete
  OnlyFirstFrameIsStale
  AudioFollowsOn
CHECK_DEADLOCK FALSE
