\* One uninterrupted stream across the wrap of the timestamp; packets are at
\* most one frame late, far less than half the timestamp space.
CONSTANTS
  TsMod = 8
  SeqMod = 8
  MaxChannels = 2
  NumChannels = 2
  Rollback = 3
  LowTs = 0
  FirstStamps = {6}
  Gaps = {1}
  MaxFrames = 3
  MaxRestarts = 0
  Lag = 2
  Observed = {}
SPECIFICATION Spec
INVARIANTS NoDoubleDecode
