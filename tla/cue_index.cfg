SPECIFICATION CueSpec
CONSTANTS
  CueTime <- CueTimes
  Target = 3
  MaxCues = 6
  Files <- AllFiles
  Byte = 256
  HeaderSize = 60
  MinHeader = 4
  ChunkSize = 4
  MinChunk = 2
  CuesLimit = 120
  ScaleUnit = 2
  NumberBytes = 2
  MaxLong = 32767
  MaxInt = 127
INVARIANTS
  BoundariesIncrease
  BoundariesSpanTheCues
  NoTargetIsMissed
  OnlyTargetsArePicked
  CueTypeOK
  CuesAreTheVideos
  ShortCuesAreTheFirst
PROPERTIES
  ImplementsKeyframeIndex
CHECK_DEADLOCK FALSE
