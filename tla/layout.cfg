SPECIFICATION Spec
CONSTANTS
  Segments <- AllSegments
  TrackConfigs <- AllConfigs
  NoTime = NoTime
  Word = 65536
INVARIANTS
  TypeOK
  BoxesTile
  SamplesWhereTrunSays
  SidxCoversFragment
  PresentationTimesKept
  SyncSamplesAreKeyframes
  DescriptorsNest
CHECK_DEADLOCK FALSE
