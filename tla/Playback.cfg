\* All resets and channel counts; two rings of two units.  A slip by one frame shows modulo 2.
CONSTANTS
  NumChannels = 2
  Counts = {1, 2}
  Cap = 2
  Prime = 2
  EmptyMax = 2
  IsInitiator = TRUE
  Resampled = FALSE
  Others = FALSE
  Resets = {"handshake", "drop", "restart"}
  Frames = 2
SPECIFICATION Spec
INVARIANTS TypeOK FlushCoversStale AlignedUntilSlip StaleNeverMixes
