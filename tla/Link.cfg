\* A caller with two remotes, two links to one callee; one restart or edit of labels.
CONSTANTS
  MaxChannels = 4
  Device <- Devices
  Peer <- Other
  t1 = t1
  t2 = t2
  Token = {t1, t2}
  None = None
  Setups <- SetupsOf
  NewLabels <- NewLabelsOf
  MaxChanges = 1
SPECIFICATION Spec
INVARIANTS TypeOK OneSessionPerPeer LayoutKnown
PROPERTIES LinkComesUp
