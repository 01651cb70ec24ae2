SPECIFICATION FairSpec
CONSTANTS
  Workers <- BothWorkers
  Callers = {"sf"}
  Requests = {"FRAME", "DPMS", "MODESET", "CLOSE"}
  Shapes <- MixedShapes
  Env = {"gl", "test", "commit", "ioctl", "overlap"}
  DRM_DISPLAY_BUFFERS = 3
  DRM_DISPLAY_COMPOSITOR_MAX_QUEUE_DEPTH = 2
  MaxFrames = 2
  MaxControls = 1
INVARIANT NoFenceLost
PROPERTIES
  FrameResolved
  DestructorReturns
CHECK_DEADLOCK FALSE
