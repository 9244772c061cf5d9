\* An initiator whose address may change, behind a NAT that maps ports, and a responder that
\* a third device asks for as well.
CONSTANTS
  a = a
  b = b
  c = c
  None = None
  Devices = {a, b, c}
  Sessions <- Pair
  Initiators <- Direct
  Askers <- Stranger
  Mapped = {a}
  Public = {}
  Movers = {a}
  MaxMoves = 1
  MaxExpiries = 1
SPECIFICATION Spec
INVARIANTS TypeOK LockedToRemote AimsAtRemoteOrCaller
PROPERTIES PeersConnect
