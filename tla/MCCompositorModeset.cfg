SPECIFICATION Spec
CONSTANTS
  Workers <- BothWorkers
  Callers = {"sf"}
  Requests = {"FRAME", "DPMS", "MODESET"}
  Shapes <- TestedShapes
  Env = {"test", "commit", "disable", "inactive", "protected", "spurious"}
  DRM_DISPLAY_BUFFERS = 3
  DRM_DISPLAY_COMPOSITOR_MAX_QUEUE_DEPTH = 2
  MaxFrames = 2
  MaxControls = 3
INVARIANTS
  
  BlobsAccounted
  PanelLit
CHECK_DEADLOCK FALSE
