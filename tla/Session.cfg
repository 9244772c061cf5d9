\* Two addresses and the thread that asks the rendezvous server while disconnected.
CONSTANTS
  None = None
  Addr = {a, b}
  RdvThreads = {"register"}
  Kinds = {"handshake", "control", "media"}
SPECIFICATION Spec
INVARIANTS TypeOK NoCarryOver OnlyPeerHandled BlindOnlyAfterRace
PROPERTIES StampedSilenceDetected Reconnects
