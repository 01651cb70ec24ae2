SPECIFICATION Spec
CONSTANTS
  MaxIds = 8
  MaxLayers = 3
  Displays <- MCDisplays
  Planes <- MCPlanes
  Follow <- MCFollow
  LayerBuffers <- MCLayerBuffers
  HistoryLength = 1
  Pixels <- MCPixels
  PlanEnv = {}
  Topologies <- MCTopologies
  ModeLists <- MCModeLists
  Preferred = {"a"}
  MaxPlugs = 2
  MaxUEvents = 1
  DrmEnv = {"get"}
  Handles = {h1, h2}
  NvBufs = {n1, n2, n3}
  NoBuf = NoBuf
  MaxHeld = 2
  ImportEnv = {"import", "addfb", "priv"}
  HwcDisplays <- MCHwcDisplays
  Frames <- MCFrames
  MaxFrames = 2
  HwcEnv = {"copy", "create", "fence", "inactive", "merge"}
  Slots = {1, 2}
  Addresses = {1, 2}
  Resolutions = {1, 2}
  Scenes <- MCScenes
  Screen2D <- MCScreen2D
  MAX_OVERLAPPING_LAYERS = 5
  MaxGLBuffers = 3
  GLEnv = {"egl", "shader", "target", "last", "nocache"}
INVARIANTS
  
  SquashFresh
  PipesRight
  ModeAsChosen
  BoLive
  
  LayersDrawn
 
CHECK_DEADLOCK FALSE
