SPECIFICATION Spec
CONSTANTS
  NBlocks = 2
  NvBlocks = 2
  MaxRuns = 3
  Versions = {"v1", "v2"}
  Installed = "v1"
  Images <- SomeImages
  Commands <- AllCommands
  Env = {"flash"}
INVARIANTS
  UpdatedMeansWritten
