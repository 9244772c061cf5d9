\* One channel, a device at 48 kHz, other sessions that come and go.
CONSTANTS
  NumChannels = 1
  Counts = {1}
  Cap = 2
  Prime = 2
  EmptyMax = 2
  IsInitiator = FALSE
  Resampled = FALSE
  Others = TRUE
  Resets = {"handshake", "drop", "restart"}
  Frames = 1
SPECIFICATION Spec
PROPERTIES AudioReturns
