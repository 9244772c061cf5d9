\* Two channels, three frames of a peer that may restart once; timestamps
\* stay below TsMod / 2, so nothing wraps.
CONSTANTS
  TsMod = 16
  SeqMod = 8
  MaxChannels = 2
  NumChannels = 2
  Rollback = 1
  LowTs = 0
  FirstStamps = {0, 1}
  Gaps = {1, 2}
  MaxFrames = 3
  MaxRestarts = 1
  Lag = 2
  Observed = {2}
SPECIFICATION Spec
INVARIANTS TypeOK NoDoubleDecode GroupsMatchLayout
PROPERTIES ImplementsPlayout PacketsKept QueueDrains
