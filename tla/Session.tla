------------------------------- MODULE Session -------------------------------
(***************************************************************************)
(* The connection state of one remote session (run_remote_session in       *)
(* engine.rs) and the threads that share it through atomics and a mutex:   *)
(*                                                                         *)
(*   w   the handshake / keepalive thread with its staleness watchdog,     *)
(*   rx  the receive thread,                                               *)
(*   rdv the rendezvous threads, "register" and "events",                  *)
(*   ifm the interface monitor (interfaces.rs).                            *)
(*                                                                         *)
(* Each action is one access, or one run of accesses nobody can come       *)
(* between to any effect, of the shared state; a thread's program counter  *)
(* says where it is between two of them.  The receive thread takes a       *)
(* packet (address filter, late connect, connected flag), stamps it and,   *)
(* for a handshake, connects and resets.                                   *)
(*                                                                         *)
(* Time is what the watchdog makes of it: a stamp is Zero, Recent, or      *)
(* Stale once more than STALE_MS passed.  The epoch counter and the value  *)
(* the receive thread has observed of it are one flag, "they differ".      *)
(* Packets that are sent change no state here.                             *)
(***************************************************************************)
EXTENDS FiniteSets

CONSTANTS
  Addr,          \* addresses a packet with the right link token may come from
  RdvThreads,    \* {"register", "events"}, or {} without a rendezvous URL
  Kinds,         \* bound: which kinds of packets arrive: "handshake" is probe,
                 \* accept and confirm, "control" metadata, round-trip ping and
                 \* pong, "media" audio
  None           \* Rust's Option::None

ASSUME SessionAssumption ==
  /\ RdvThreads \subseteq {"register", "events"}
  /\ Kinds \subseteq {"handshake", "control", "media"}
  /\ None \notin Addr /\ "any" \notin Addr /\ "silent" \notin Addr

Stamps == {"zero", "recent", "stale"}

VARIABLES
  is_initiator,      \* the role, fixed when the session starts
  connected,         \* handshake_connected
  established,       \* established_addr: the address a responder is locked to
  last_control,      \* last_control_ms
  last_audio,        \* last_audio_ms
  epoch_moved,       \* receive_reset_epoch # observed_epoch
  w_pc, rx_pc, rdv_pc, ifm_pc,
  packet,            \* what rx is handling: its source and kind
  \* the environment
  peer,              \* where packets come from: "any", one address, or "silent";
                     \* the clock may be set back while it is "any"
  \* history
  content,           \* whose media is in the receive state: "current", "old"
  raced              \* the watchdog zeroed the stamp of the last handshake

shared == <<connected, established, last_control, last_audio, epoch_moved>>
vars == <<is_initiator, shared, w_pc, rx_pc, rdv_pc, ifm_pc, packet, peer, content, raced>>

Init ==
  /\ is_initiator \in BOOLEAN
  /\ connected = FALSE /\ established = None
  /\ last_control = "zero" /\ last_audio = "zero"
  /\ epoch_moved = FALSE
  /\ w_pc = "check" /\ rx_pc = "top" /\ ifm_pc = "poll"
  /\ rdv_pc = [r \in RdvThreads |-> "wait"]
  /\ packet = None
  /\ peer = "any"
  /\ content = {} /\ raced = FALSE

-----------------------------------------------------------------------------
(* Time and the peer *)

\* More than STALE_MS pass without a new stamp.
ControlAges ==
  /\ last_control = "recent"
  /\ last_control' = "stale"
  /\ UNCHANGED <<is_initiator, connected, established, last_audio, epoch_moved,
                 w_pc, rx_pc, rdv_pc, ifm_pc, packet, peer, content, raced>>

AudioAges ==
  /\ last_audio = "recent"
  /\ last_audio' = "stale"
  /\ UNCHANGED <<is_initiator, connected, established, last_control, epoch_moved,
                 w_pc, rx_pc, rdv_pc, ifm_pc, packet, peer, content, raced>>

\* now_millis is the time of day: when the clock is set back, stamps that were stale
\* are ahead of it, or less than STALE_MS behind.  (When it is set forward they age.)
ClockSetBack ==
  /\ peer = "any" /\ "stale" \in {last_control, last_audio}
  /\ last_control' \in {last_control, IF last_control = "stale" THEN "recent" ELSE last_control}
  /\ last_audio' \in {last_audio, IF last_audio = "stale" THEN "recent" ELSE last_audio}
  /\ UNCHANGED <<is_initiator, connected, established, epoch_moved,
                 w_pc, rx_pc, rdv_pc, ifm_pc, packet, peer, content, raced>>

\* From some point on packets come from one address only, or not at all, and the
\* clock runs on.
PeerSettles ==
  /\ peer = "any"
  /\ peer' \in Addr \cup {"silent"}
  /\ UNCHANGED <<is_initiator, shared, w_pc, rx_pc, rdv_pc, ifm_pc, packet, content, raced>>

-----------------------------------------------------------------------------
(* The watchdog *)

\* What was received in the connection that ends here is old from now on.
Disconnect ==
  /\ connected' = FALSE
  /\ content' = IF content = {} THEN {} ELSE {"old"}

\* Mutant: the older of the two stamps decides.
Silence15sOlder ==
  "zero" \notin {last_control, last_audio} /\ "recent" \notin {last_control, last_audio}

Silence15s ==
  /\ {last_control, last_audio} # {"zero"}
  /\ "recent" \notin {last_control, last_audio}

\* The decision; if nothing is stale the thread only sends probe and ping.
WatchdogFires ==
  /\ w_pc = "check" /\ connected /\ Silence15s
  /\ w_pc' = IF is_initiator THEN "drop" ELSE "release"
  /\ UNCHANGED <<is_initiator, shared, rx_pc, rdv_pc, ifm_pc, packet, peer, content, raced>>

WatchdogReleases ==
  /\ w_pc = "release" /\ w_pc' = "drop"
  /\ established' = None
  /\ UNCHANGED <<is_initiator, connected, last_control, last_audio, epoch_moved,
                 rx_pc, rdv_pc, ifm_pc, packet, peer, content, raced>>

WatchdogDrops ==
  /\ w_pc = "drop" /\ w_pc' = "zero_control"
  /\ Disconnect
  /\ UNCHANGED <<is_initiator, established, last_control, last_audio, epoch_moved,
                 rx_pc, rdv_pc, ifm_pc, packet, peer, raced>>

WatchdogZeroesControl ==
  /\ w_pc = "zero_control" /\ w_pc' = "zero_audio"
  /\ last_control' = "zero"
  /\ raced' = (connected \/ rx_pc = "connect")
  /\ UNCHANGED <<is_initiator, connected, established, last_audio, epoch_moved,
                 rx_pc, rdv_pc, ifm_pc, packet, peer, content>>

WatchdogZeroesAudio ==
  /\ w_pc = "zero_audio" /\ w_pc' = "bump"
  /\ last_audio' = "zero"
  /\ UNCHANGED <<is_initiator, connected, established, last_control, epoch_moved,
                 rx_pc, rdv_pc, ifm_pc, packet, peer, content, raced>>

WatchdogBumps ==
  /\ w_pc = "bump" /\ w_pc' = "check"
  /\ epoch_moved' = TRUE
  /\ UNCHANGED <<is_initiator, connected, established, last_control, last_audio,
                 rx_pc, rdv_pc, ifm_pc, packet, peer, content, raced>>

Watchdog == \/ WatchdogFires \/ WatchdogReleases \/ WatchdogDrops
            \/ WatchdogZeroesControl \/ WatchdogZeroesAudio \/ WatchdogBumps

-----------------------------------------------------------------------------
(* The interface monitor: a change of the local interfaces while connected *)

InterfaceChanges ==
  /\ ifm_pc = "poll" /\ ifm_pc' = "bump"
  /\ connected
  /\ Disconnect
  /\ UNCHANGED <<is_initiator, established, last_control, last_audio, epoch_moved,
                 w_pc, rx_pc, rdv_pc, packet, peer, raced>>

MonitorBumps ==
  /\ ifm_pc = "bump" /\ ifm_pc' = "poll"
  /\ epoch_moved' = TRUE
  /\ UNCHANGED <<is_initiator, connected, established, last_control, last_audio,
                 w_pc, rx_pc, rdv_pc, packet, peer, content, raced>>

-----------------------------------------------------------------------------
(* The rendezvous threads *)

\* The server answered /api/connect (a responder asks, when it is not
\* connected) or sent an event.  The thread checks the connected flag ...
RendezvousAnswers(r) ==
  /\ rdv_pc[r] = "wait" /\ ~connected
  /\ r = "register" => ~is_initiator
  /\ rdv_pc' = [rdv_pc EXCEPT ![r] = "release"]
  /\ UNCHANGED <<is_initiator, shared, w_pc, rx_pc, ifm_pc, packet, peer, content, raced>>

\* Mutant: the address is kept.
RendezvousKeeps(r) ==
  /\ rdv_pc[r] = "release"
  /\ rdv_pc' = [rdv_pc EXCEPT ![r] = "wait"]
  /\ UNCHANGED <<is_initiator, shared, w_pc, rx_pc, ifm_pc, packet, peer, content, raced>>

\* ... and then, whatever the flag is by now, takes the mutex and forgets the
\* address.
RendezvousReleases(r) ==
  /\ rdv_pc[r] = "release"
  /\ rdv_pc' = [rdv_pc EXCEPT ![r] = "wait"]
  /\ established' = None
  /\ UNCHANGED <<is_initiator, connected, last_control, last_audio, epoch_moved,
                 w_pc, rx_pc, ifm_pc, packet, peer, content, raced>>

-----------------------------------------------------------------------------
(* The receive thread *)

\* The top of the loop compares the epoch and resets the session if it moved.
LoopTop ==
  /\ rx_pc = "top" /\ rx_pc' = "recv"
  /\ epoch_moved' = FALSE
  /\ content' = IF epoch_moved THEN {} ELSE content
  /\ UNCHANGED <<is_initiator, connected, established, last_control, last_audio,
                 w_pc, rdv_pc, ifm_pc, packet, peer, raced>>

\* recv_timeout returned nothing for 1 ms.
NoPacket ==
  /\ rx_pc = "recv" /\ rx_pc' = "top"
  /\ UNCHANGED <<is_initiator, shared, w_pc, rdv_pc, ifm_pc, packet, peer, content, raced>>

\* Mutant: no address filter.
LockedNever(src) == FALSE

\* A responder locked to another address takes nothing from this one.
Locked(src) == ~is_initiator /\ established \notin {None, src}

\* Handshakes count at any time, control packets while connected, media while
\* connected and for an initiator at any time.
Counts(kind) == \/ connected \/ kind = "handshake"
                \/ kind = "media" /\ is_initiator

Refuse(src, kind) ==
  /\ rx_pc = "recv" /\ rx_pc' = "top"
  /\ Locked(src) \/ ~Counts(kind)
  /\ UNCHANGED <<is_initiator, shared, w_pc, rdv_pc, ifm_pc, packet, peer, content, raced>>

\* Mutant: an initiator is locked too.
TakeLocksBoth(src, kind) ==
  /\ rx_pc = "recv" /\ rx_pc' = "stamp"
  /\ ~Locked(src) /\ Counts(kind)
  /\ packet' = [src |-> src, kind |-> kind]
  /\ established' = IF kind = "handshake" THEN src ELSE established
  /\ UNCHANGED <<is_initiator, connected, last_control, last_audio, epoch_moved,
                 w_pc, rdv_pc, ifm_pc, peer, content, raced>>

\* The address filter and, for a handshake with the link's token, the late
\* connect, which locks a responder to the address.
Take(src, kind) ==
  /\ rx_pc = "recv" /\ rx_pc' = "stamp"
  /\ ~Locked(src) /\ Counts(kind)
  /\ packet' = [src |-> src, kind |-> kind]
  /\ established' = IF kind = "handshake" /\ ~is_initiator THEN src ELSE established
  /\ UNCHANGED <<is_initiator, connected, last_control, last_audio, epoch_moved,
                 w_pc, rdv_pc, ifm_pc, peer, content, raced>>

Arrives(src) ==
  /\ peer \in {"any", src}
  /\ \E kind \in Kinds : Refuse(src, kind) \/ Take(src, kind)

\* The packet that passed is stamped, whatever the flag is by now.
Handles(kind, next_pc) ==
  /\ rx_pc = "stamp" /\ rx_pc' = next_pc
  /\ packet # None /\ packet.kind = kind
  /\ packet' = IF next_pc = "top" THEN None ELSE packet
  /\ UNCHANGED <<is_initiator, connected, established, epoch_moved,
                 w_pc, rdv_pc, ifm_pc, peer>>

\* Mutant: a handshake does not count as control traffic.
StampHandshakeNot ==
  /\ Handles("handshake", "connect")
  /\ raced' = FALSE
  /\ UNCHANGED <<last_control, last_audio, content>>

StampHandshake ==
  /\ Handles("handshake", "connect")
  /\ last_control' = "recent" /\ raced' = FALSE
  /\ UNCHANGED <<last_audio, content>>

\* Metadata with another channel count also resets the receive state.
HandleControl ==
  /\ Handles("control", "top")
  /\ last_control' = "recent"
  /\ content' \in {content, {}}
  /\ UNCHANGED <<last_audio, raced>>

HandleMedia ==
  /\ Handles("media", "top")
  /\ last_audio' = "recent"
  /\ content' = content \cup {IF connected THEN "current" ELSE "old"}
  /\ UNCHANGED <<last_control, raced>>

\* Mutant: connects without the reset.
ConnectKeeps ==
  /\ rx_pc = "connect" /\ rx_pc' = "top"
  /\ connected' = TRUE /\ packet' = None
  /\ UNCHANGED <<is_initiator, established, last_control, last_audio, epoch_moved,
                 w_pc, rdv_pc, ifm_pc, peer, content, raced>>

\* A handshake makes the connection, if there is none, with an empty receive
\* state.
Connect ==
  /\ rx_pc = "connect" /\ rx_pc' = "top"
  /\ connected' = TRUE /\ packet' = None
  /\ content' = IF connected THEN content ELSE {}
  /\ UNCHANGED <<is_initiator, established, last_control, last_audio, epoch_moved,
                 w_pc, rdv_pc, ifm_pc, peer, raced>>

Handle == StampHandshake \/ HandleControl \/ HandleMedia \/ Connect

Receive == LoopTop \/ NoPacket \/ (\E src \in Addr : Arrives(src)) \/ Handle

-----------------------------------------------------------------------------
Next ==
  \/ ControlAges \/ AudioAges \/ ClockSetBack \/ PeerSettles
  \/ Watchdog
  \/ InterfaceChanges \/ MonitorBumps
  \/ \E r \in RdvThreads : RendezvousAnswers(r) \/ RendezvousReleases(r)
  \/ Receive

\* Every thread that can take a step eventually does; time passes; a peer that
\* has settled keeps probing every 2.13 s and is heard infinitely often; a
\* responder that stays disconnected reaches the rendezvous server, which it
\* asks every 10 s, infinitely often.
Fairness ==
  /\ WF_vars(ControlAges) /\ WF_vars(AudioAges)
  /\ WF_vars(Watchdog) /\ WF_vars(MonitorBumps)
  /\ WF_vars(LoopTop) /\ WF_vars(NoPacket) /\ WF_vars(Handle)
  /\ \A src \in Addr : SF_vars(peer = src /\ Take(src, "handshake"))
  /\ \A r \in RdvThreads : WF_vars(RendezvousReleases(r))
  /\ \A r \in RdvThreads \ {"events"} : SF_vars(RendezvousAnswers(r))

Spec == Init /\ [][Next]_vars /\ Fairness

-----------------------------------------------------------------------------
(* Properties *)

TypeOK ==
  /\ is_initiator \in BOOLEAN /\ connected \in BOOLEAN /\ epoch_moved \in BOOLEAN
  /\ established \in {None} \cup (IF is_initiator THEN {} ELSE Addr)
  /\ last_control \in Stamps /\ last_audio \in Stamps
  /\ w_pc \in {"check", "release", "drop", "zero_control", "zero_audio", "bump"}
  /\ rx_pc \in {"top", "recv", "stamp", "connect"}
  /\ rdv_pc \in [RdvThreads -> {"wait", "release"}]
  /\ ifm_pc \in {"poll", "bump"}
  /\ packet \in IF rx_pc \in {"top", "recv"} THEN {None} ELSE [src : Addr, kind : Kinds]
  /\ peer \in {"any", "silent"} \cup Addr
  /\ content \subseteq {"current", "old"}
  /\ raced \in BOOLEAN

\* "Old session audio doesn't mix into the new one" (README, Staleness
\* watchdog): while connected, nothing received before this connection was
\* made is in the receive state, however the resets of the handshake, the
\* watchdog and the interface monitor interleave.
NoCarryOver == connected => "old" \notin content

\* The packet the receive thread works on comes from the address a responder
\* is locked to, or the lock was released after the packet passed the filter:
\* no other endpoint's packet is handled while the lock is held.  A rendezvous
\* thread may release the lock of a live connection (engine.rs:300-307); then
\* nothing is claimed until the next handshake.
OnlyPeerHandled ==
  rx_pc \in {"stamp", "connect"} /\ ~is_initiator => established \in {None, packet.src}

\* A connection without stamps: the watchdog does not look at it.
Blind == connected /\ last_control = "zero" /\ last_audio = "zero"

\* The watchdog is blind to a connection without stamps.  That happens in one
\* way only: the watchdog, which had dropped the connection before, zeroed the
\* stamp of the handshake that made this one.
BlindOnlyAfterRace == Blind => raced

\* A peer that falls silent is noticed, if the connection has a stamp and no
\* handshake is being handled when it does.
StampedSilenceDetected ==
  /\ peer = "silent" /\ connected /\ w_pc = "check" /\ rx_pc \notin {"stamp", "connect"}
  /\ {last_control, last_audio} # {"zero"}
  ~> ~connected

\* A connection in which packets from a count: locked to a, or to nobody.
ConnectedTo(a) == connected /\ established \in {None, a}

\* interfaces.rs:51: "On change while connected, drops the connection so the
\* engine reconnects."  Wherever the peer's packets come from in the end, they
\* lead to a connection with that address, whatever address the session was
\* locked to before.  There is one exception: a blind connection locked to an
\* address that has fallen silent refuses every other for ever.
Reconnects ==
  \A a \in Addr : peer = a ~> ConnectedTo(a) \/ [](Blind /\ established \notin {None, a})
=============================================================================
