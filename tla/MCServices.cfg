SPECIFICATION Spec
CONSTANTS
  Recognitions = 3
  TriggerEnv = {"open", "pcm", "alloc"}
  IioDevices <- MCIioDevices
  EventBufferSize = 2
  RingSize = 3
  MaxHubCalls = 4
  MaxEcEvents = 3
  IntHalf = 8
  HubEnv = {"write"}
  PowerCallers = {"sf", "pm"}
  BoostTicks = 2
  MaxTime = 4
  MaxHints = 4
  FirstTargets = {0, 3}
  PowerEnv = {"boostpulse"}
  FwCommands = 3
  MaxOpens = 2
  MaxSends = 3
  BtEnv = {"open", "fd", "firmware", "lpm"}
  IniFiles <- MCIniFiles
  DspNames = {"speaker_eq", "invert_lr"}
  BUFFER_SIZE = 1
  BlockFrames = 2
  period_size = 3
  ReadSizes = {1, 2, 4}
  MaxFrame = 9
  CaptureEnv = {"pcm", "resampler"}
INVARIANTS
  
  PollDelivers
  EventsApart
  
  
  CaptureInOrder
PROPERTIES
  StopReturns
  BoostEnds
CHECK_DEADLOCK FALSE
