SPECIFICATION FairSpec
CONSTANTS
  Worker = {w1, w2}
  NoOne = NoOne
  Body = {full}
  Absent = Absent
  Segment <- Segments2
  MaxCachedSegments = 1
  MaxSessions = 2
  MaxRequests = 4
  MaxAge = 0
  MaxTime = 1
  KeyframeCounts = {0, 3}
  FirstOutcomes = {"ok", "no_open"}
  ReopenOutcomes = {"ok", "no_info"}
  WalkOutcomes = {full, "no_video_samples"}
INVARIANTS
  NeverDereferencesNull
PROPERTIES
  OverflowsOnlyBackwards
  EveryRequestAnswered
  OtherSessionsAnswered
CHECK_DEADLOCK FALSE
