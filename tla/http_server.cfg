SPECIFICATION FairSpec
CONSTANTS
  b1 = b1
  b2 = b2
  d1 = d1
  d2 = d2
  c1 = c1
  c2 = c2
  c3 = c3
  Base <- MCBase
  Dynamic <- MCDynamic
  MaxThreads = 3
  Job <- Connections
  NoJob = NoJob
  Hanging <- OneHangs
  KeepAliveMax = 2
INVARIANTS
  IdleCountAgrees
  ThreadsAreBounded
  NoLostWakeup
  OpenSocketsHaveOneOwner
  NothingIsLeftBehind
  CloseIsAnnounced
CHECK_DEADLOCK FALSE
PROPERTIES
  OthersAreServed
