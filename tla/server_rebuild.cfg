SPECIFICATION Spec
CONSTANTS
  Worker = {w1}
  NoOne = NoOne
  Body = {full}
  Absent = Absent
  Segment <- Segments3
  MaxCachedSegments = 1
  MaxSessions = 1
  MaxRequests = 5
  MaxAge = 0
  MaxTime = 0
  KeyframeCounts = {4}
  FirstOutcomes = {"ok"}
  ReopenOutcomes = {"ok", "no_open"}
  WalkOutcomes = {full}
INVARIANTS
  SeekRebuildsContext
CHECK_DEADLOCK FALSE
