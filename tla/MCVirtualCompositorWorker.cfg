SPECIFICATION FairSpec
CONSTANTS
  Workers <- OneWorker
  kMaxQueueDepth = 3
  MaxFences = 2
  MaxTimeline = 6
INVARIANT NoEarlyRelease
PROPERTIES
  EveryFrameTaken
CHECK_DEADLOCK FALSE
