SPECIFICATION Spec
CONSTANTS
  primary_output = "out"
  Captures = {"cap"}
  Hotwords = {}
  NoStream = "-"
  Threads = {"player", "recorder", "policy"}
  NoThread = "free"
  Calls <- OneInput
  OutRoutings <- SpeakerOrSco
  InRoutings <- AnyMic
  InSources = {"mic", "voice_communication"}
  MAX_PREPROCESSORS = 1
  Env = {"pcm_open", "pcm_io", "effect"}
INVARIANTS LockOrder InputStillActive NoClosedStream RoutesCounted StandbyReleases 
PROPERTY LockGranted
