SPECIFICATION FairSpec
CONSTANTS
  Workers <- OneWorker
  Callbacks = {"cb1", "cb2"}
  FrameNs = 3
  MaxTime = 7
  MaxControls = 3
INVARIANT OneStaleCallback
PROPERTIES
  TimestampsIncrease
  EnableWakesWorker
CHECK_DEADLOCK FALSE
