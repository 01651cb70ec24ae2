SPECIFICATION Spec
CONSTANTS
  Workers <- BothWorkers
  Callers = {"sf"}
  Requests = {"FRAME", "DPMS"}
  Shapes <- MixedShapes
  Env = {"test", "acquire"}
  DRM_DISPLAY_BUFFERS = 3
  DRM_DISPLAY_COMPOSITOR_MAX_QUEUE_DEPTH = 2
  MaxFrames = 4
  MaxControls = 1
INVARIANTS
  NoEarlyRelease
  NoTearing

  
CHECK_DEADLOCK FALSE
