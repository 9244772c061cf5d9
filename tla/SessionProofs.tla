---------------------------- MODULE SessionProofs ----------------------------
(***************************************************************************)
(* Proofs about the connection state of a session, for every set of        *)
(* addresses, with and without rendezvous threads, whatever packets        *)
(* arrive.                                                                 *)
(***************************************************************************)
EXTENDS Session, TLAPS

-----------------------------------------------------------------------------
(* Type correctness *)

LEMMA TypeInit == Init => TypeOK
  BY SessionAssumption DEF Init, TypeOK, Stamps

LEMMA TimeType ==
  ASSUME TypeOK, ControlAges \/ AudioAges \/ ClockSetBack \/ PeerSettles PROVE TypeOK'
<1>1. CASE ControlAges
  BY <1>1 DEF TypeOK, Stamps, ControlAges
<1>2. CASE AudioAges
  BY <1>2 DEF TypeOK, Stamps, AudioAges
<1>3. CASE PeerSettles
  BY <1>3 DEF TypeOK, Stamps, PeerSettles, shared
<1>4. CASE ClockSetBack
  BY <1>4 DEF TypeOK, Stamps, ClockSetBack
<1> QED
  BY <1>1, <1>2, <1>3, <1>4

LEMMA WatchdogType == ASSUME TypeOK, Watchdog PROVE TypeOK'
<1>1. CASE WatchdogFires
  BY <1>1 DEF TypeOK, Stamps, WatchdogFires, shared
<1>2. CASE WatchdogReleases
  BY <1>2 DEF TypeOK, Stamps, WatchdogReleases
<1>3. CASE WatchdogDrops
  BY <1>3 DEF TypeOK, Stamps, WatchdogDrops, Disconnect
<1>4. CASE WatchdogZeroesControl
  BY <1>4 DEF TypeOK, Stamps, WatchdogZeroesControl
<1>5. CASE WatchdogZeroesAudio
  BY <1>5 DEF TypeOK, Stamps, WatchdogZeroesAudio
<1>6. CASE WatchdogBumps
  BY <1>6 DEF TypeOK, Stamps, WatchdogBumps
<1> QED
  BY <1>1, <1>2, <1>3, <1>4, <1>5, <1>6 DEF Watchdog

LEMMA MonitorType ==
  ASSUME TypeOK, InterfaceChanges \/ MonitorBumps PROVE TypeOK'
<1>1. CASE InterfaceChanges
  <2>1. content' \subseteq {"current", "old"} /\ connected' \in BOOLEAN
    BY <1>1 DEF TypeOK, InterfaceChanges, Disconnect
  <2> QED
    BY <1>1, <2>1 DEF TypeOK, Stamps, InterfaceChanges
<1>2. CASE MonitorBumps
  BY <1>2 DEF TypeOK, Stamps, MonitorBumps
<1> QED
  BY <1>1, <1>2

LEMMA RendezvousType ==
  ASSUME TypeOK, NEW r \in RdvThreads, RendezvousAnswers(r) \/ RendezvousReleases(r)
  PROVE  TypeOK'
<1>1. rdv_pc' \in [RdvThreads -> {"wait", "release"}]
  BY DEF TypeOK, RendezvousAnswers, RendezvousReleases
<1>2. CASE RendezvousAnswers(r)
  BY <1>1, <1>2 DEF TypeOK, Stamps, RendezvousAnswers, shared
<1>3. CASE RendezvousReleases(r)
  BY <1>1, <1>3 DEF TypeOK, Stamps, RendezvousReleases
<1> QED
  BY <1>2, <1>3

LEMMA ReceiveType == ASSUME TypeOK, Receive PROVE TypeOK'
<1>1. CASE LoopTop
  <2>1. content' \subseteq {"current", "old"}
    BY <1>1 DEF TypeOK, LoopTop
  <2> QED
    BY <1>1, <2>1 DEF TypeOK, Stamps, LoopTop
<1>2. CASE NoPacket
  BY <1>2 DEF TypeOK, Stamps, NoPacket, shared
<1>3. ASSUME NEW src \in Addr, NEW kind \in Kinds, Refuse(src, kind) PROVE TypeOK'
  BY <1>3 DEF TypeOK, Stamps, Refuse, shared
<1>4. ASSUME NEW src \in Addr, NEW kind \in Kinds, Take(src, kind) PROVE TypeOK'
  BY <1>4 DEF TypeOK, Stamps, Take
<1>5. CASE StampHandshake
  BY <1>5 DEF TypeOK, Stamps, StampHandshake, Handles
<1>6. CASE HandleControl
  BY <1>6 DEF TypeOK, Stamps, HandleControl, Handles
<1>7. CASE HandleMedia
  BY <1>7 DEF TypeOK, Stamps, HandleMedia, Handles
<1>8. CASE Connect
  BY <1>8 DEF TypeOK, Stamps, Connect
<1> QED
  BY <1>1, <1>2, <1>3, <1>4, <1>5, <1>6, <1>7, <1>8 DEF Receive, Arrives, Handle

LEMMA TypeStep == ASSUME TypeOK, [Next]_vars PROVE TypeOK'
<1>1. CASE UNCHANGED vars
  BY <1>1 DEF TypeOK, vars, shared
<1> QED
  BY <1>1, TimeType, WatchdogType, MonitorType, RendezvousType, ReceiveType DEF Next

\* The type invariant holds in every state of every behaviour, and so do its
\* two relations: only a responder is ever locked to an address, and a packet
\* is held exactly while it is being handled.
THEOREM TypeCorrect == Spec => []TypeOK
  BY TypeInit, TypeStep, PTL DEF Spec

-----------------------------------------------------------------------------
(* Old audio stays out of a new connection *)

LEMMA CarryOverStep == ASSUME TypeOK, NoCarryOver, [Next]_vars PROVE NoCarryOver'
<1>1. CASE UNCHANGED <<connected, content>>
  BY <1>1 DEF NoCarryOver
<1>2. CASE WatchdogDrops
  BY <1>2 DEF NoCarryOver, WatchdogDrops, Disconnect
<1>3. CASE InterfaceChanges
  BY <1>3 DEF NoCarryOver, InterfaceChanges, Disconnect
<1>4. CASE LoopTop
  BY <1>4 DEF NoCarryOver, LoopTop
<1>5. CASE HandleControl
  BY <1>5 DEF NoCarryOver, HandleControl, Handles
<1>6. CASE HandleMedia
  BY <1>6 DEF NoCarryOver, HandleMedia, Handles
<1>7. CASE Connect
  BY <1>7 DEF NoCarryOver, Connect
<1> QED
  BY <1>1, <1>2, <1>3, <1>4, <1>5, <1>6, <1>7
  DEF Next, ControlAges, AudioAges, ClockSetBack, PeerSettles, Watchdog, WatchdogFires, WatchdogReleases,
      WatchdogZeroesControl, WatchdogZeroesAudio, WatchdogBumps, MonitorBumps,
      RendezvousAnswers, RendezvousReleases, Receive, NoPacket, Arrives, Refuse, Take,
      Handle, StampHandshake, Handles, shared, vars

\* However the resets of the handshake, the watchdog and the interface monitor
\* interleave with the receive thread, a connection never holds media received
\* before it was made.
THEOREM OldAudioKeptOut == Spec => []NoCarryOver
<1>1. Init => NoCarryOver
  BY DEF Init, NoCarryOver
<1> QED
  BY <1>1, CarryOverStep, TypeCorrect, PTL DEF Spec

-----------------------------------------------------------------------------
(* The address filter *)

LEMMA PeerStep == ASSUME TypeOK, OnlyPeerHandled, [Next]_vars PROVE OnlyPeerHandled'
<1>1. CASE UNCHANGED <<rx_pc, is_initiator, established, packet>>
  BY <1>1 DEF OnlyPeerHandled
<1>2. CASE WatchdogReleases
  BY <1>2 DEF OnlyPeerHandled, WatchdogReleases
<1>3. ASSUME NEW r \in RdvThreads, RendezvousReleases(r) PROVE OnlyPeerHandled'
  BY <1>3 DEF OnlyPeerHandled, RendezvousReleases
<1>4. CASE rx_pc' \in {"top", "recv"}
  BY <1>4 DEF OnlyPeerHandled
<1>5. ASSUME NEW src \in Addr, NEW kind \in Kinds, Take(src, kind) PROVE OnlyPeerHandled'
  BY <1>5 DEF OnlyPeerHandled, Take, Locked
<1>6. CASE StampHandshake
  BY <1>6 DEF OnlyPeerHandled, StampHandshake, Handles
<1> QED
  BY <1>1, <1>2, <1>3, <1>4, <1>5, <1>6
  DEF Next, ControlAges, AudioAges, ClockSetBack, PeerSettles, Watchdog, WatchdogFires, WatchdogDrops,
      WatchdogZeroesControl, WatchdogZeroesAudio, WatchdogBumps, InterfaceChanges, MonitorBumps,
      RendezvousAnswers, Receive, LoopTop, NoPacket, Arrives, Refuse,
      Handle, HandleControl, HandleMedia, Handles, Connect, shared, vars

\* While a responder is locked to an address, it handles packets of no other,
\* although three threads release the lock without the receive thread's leave.
THEOREM PeerFiltered == Spec => []OnlyPeerHandled
<1>1. Init => OnlyPeerHandled
  BY DEF Init, OnlyPeerHandled
<1> QED
  BY <1>1, PeerStep, TypeCorrect, PTL DEF Spec

-----------------------------------------------------------------------------
(* When the watchdog is blind *)

\* The strengthening: a connection, and a handshake that is about to make one,
\* has a control stamp unless the watchdog zeroed it afterwards.
HandshakeStamped == connected \/ rx_pc = "connect" => last_control # "zero" \/ raced

LEMMA StampedStep == ASSUME TypeOK, HandshakeStamped, [Next]_vars PROVE HandshakeStamped'
<1>1. CASE UNCHANGED <<connected, rx_pc, last_control, raced>>
  BY <1>1 DEF HandshakeStamped
<1>2. CASE ControlAges \/ ClockSetBack
  BY <1>2 DEF HandshakeStamped, ControlAges, ClockSetBack
<1>3. CASE WatchdogDrops \/ InterfaceChanges
  BY <1>3 DEF HandshakeStamped, WatchdogDrops, InterfaceChanges, Disconnect
<1>4. CASE WatchdogZeroesControl
  BY <1>4 DEF HandshakeStamped, WatchdogZeroesControl
<1>5. CASE LoopTop \/ NoPacket
  BY <1>5 DEF HandshakeStamped, LoopTop, NoPacket, shared
<1>6. ASSUME NEW src \in Addr, NEW kind \in Kinds, Refuse(src, kind) \/ Take(src, kind)
      PROVE  HandshakeStamped'
  BY <1>6 DEF HandshakeStamped, Refuse, Take, shared
<1>7. CASE StampHandshake \/ HandleControl \/ HandleMedia
  BY <1>7 DEF HandshakeStamped, StampHandshake, HandleControl, HandleMedia, Handles
<1>8. CASE Connect
  BY <1>8 DEF HandshakeStamped, Connect
<1> QED
  BY <1>1, <1>2, <1>3, <1>4, <1>5, <1>6, <1>7, <1>8
  DEF Next, AudioAges, PeerSettles, Watchdog, WatchdogFires, WatchdogReleases,
      WatchdogZeroesAudio, WatchdogBumps, MonitorBumps, RendezvousAnswers, RendezvousReleases,
      Receive, Arrives, Handle, shared, vars

\* A connection without stamps, which the watchdog cannot end, comes from one
\* race only: the watchdog zeroed the stamp of the handshake that made it.
THEOREM BlindByRaceOnly == Spec => []BlindOnlyAfterRace
<1>1. Init => HandshakeStamped
  BY DEF Init, HandshakeStamped
<1>2. HandshakeStamped => BlindOnlyAfterRace
  BY DEF HandshakeStamped, BlindOnlyAfterRace, Blind
<1> QED
  BY <1>1, <1>2, StampedStep, TypeCorrect, PTL DEF Spec
=============================================================================
