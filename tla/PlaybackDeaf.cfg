\* One channel, a device that needs resampling.
CONSTANTS
  NumChannels = 1
  Counts = {1}
  Cap = 2
  Prime = 2
  EmptyMax = 2
  IsInitiator = FALSE
  Resampled = TRUE
  Others = FALSE
  Resets = {"handshake", "drop"}
  Frames = 1
SPECIFICATION Spec
PROPERTIES AudioReturns
