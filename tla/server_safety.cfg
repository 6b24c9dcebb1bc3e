SPECIFICATION Spec
CONSTANTS
  Worker = {w1, w2, w3}
  NoOne = NoOne
  Body = {full, cut}
  Absent = Absent
  Segment <- Segments2
  MaxCachedSegments = 1
  MaxSessions = 2
  MaxRequests = 5
  MaxAge = 0
  MaxTime = 1
  KeyframeCounts = {0, 3}
  FirstOutcomes = {"ok", "no_open"}
  ReopenOutcomes = {"ok", "no_reader", "no_open", "no_info", "no_video"}
  WalkOutcomes = {full, cut, "no_video_samples"}
SYMMETRY WorkerSymmetry
INVARIANTS
  InitHasVideo
  OpeningIsFresh
  ListedSegmentsStayListed
PROPERTIES
  CachedBytesNeverChange
  ImplementsService
CHECK_DEADLOCK FALSE
