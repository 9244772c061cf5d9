\* Frames of 3 ticks, a ring of 2 frames, a device up to 4 ticks late.
CONSTANTS
  Dur = 3
  CapRing = 6
  MaxDelay = 4
  Channels = {0}
  SeqMod = 2
  MaxTime = 18
SPECIFICATION Spec
INVARIANTS TypeOK NeverAhead BurstBounded SilenceBounded
CHECK_DEADLOCK FALSE
