SPECIFICATION FairSpec
CONSTANTS
  Workers <- BothWorkers
  Callers = {"sf"}
  Requests = {"FRAME", "DPMS"}
  Shapes <- PreShapes
  Env = {"slow", "acquire"}
  DRM_DISPLAY_BUFFERS = 3
  DRM_DISPLAY_COMPOSITOR_MAX_QUEUE_DEPTH = 2
  MaxFrames = 3
  MaxControls = 1
PROPERTIES
  ClearDisplayReturns
CHECK_DEADLOCK FALSE
