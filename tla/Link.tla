-------------------------------- MODULE Link --------------------------------
(***************************************************************************)
(* Two devices and the UDP network between them (engine.rs, packet.rs):    *)
(* the packet demux of each, its handshake threads, its receive threads    *)
(* and the channel metadata they exchange.  A device has a session per     *)
(* enabled remote; each session has a link token, derived from both names  *)
(* and the password.  A device may be restarted with another setup at any  *)
(* time, by setup_apply, by hand or after a crash: the new process knows   *)
(* nothing of the old one, but uses the same address, so that packets      *)
(* under way reach it.                                                     *)
(*                                                                         *)
(* The races between the threads of one session are the subject of module  *)
(* Session: here each packet is handled in one step.  Addresses that       *)
(* change are the subject of module Rendezvous: here each device has one.  *)
(***************************************************************************)
EXTENDS Wire

CONSTANTS
  Device,
  Peer(_),        \* the device at the other end
  Token,          \* link tokens
  None,
  Setups(_),      \* the setups a device may be started with
  NewLabels(_),   \* bound: labels its user may post
  MaxChanges       \* bound: restarts and edits of labels

\* num_channels labels.
IsLayout(l) == \E n \in 1..MaxChannels : l \in [1..n -> Seq(STRING)]

ASSUME LinkAssumption ==
  /\ None \notin Token
  /\ \A d \in Device : /\ Peer(d) \in Device \ {d} /\ Peer(Peer(d)) = d
                       /\ Setups(d) # {}
  /\ \A d \in Device : \A s \in Setups(d) :
       /\ s.tokens \in Seq(Token) /\ Len(s.tokens) > 0
       /\ s.calls \subseteq Token /\ s.recv \in BOOLEAN /\ IsLayout(s.labels)
  /\ \A d \in Device : \A l \in NewLabels(d) : IsLayout(l)
  /\ MaxChanges \in Nat

Bare(kind, t) == [kind |-> kind, token |-> t]
Handshakes    == {Bare(k, t) : k \in {"probe", "accept", "confirm"}, t \in Token}

\* A metadata packet carries the text of a layout, a list of labels, but no link
\* token.
Layouts == UNION {{s.labels : s \in Setups(d)} \cup NewLabels(d) : d \in Device}
Metadata(layout) == [kind |-> "metadata", text |-> MetadataText(layout)]

\* None is no metadata.
ASSUME NoneAssumption == \A l \in Layouts : ParseMetadata(MetadataText(l)) # None

VARIABLES
  tokens,         \* per device the link tokens of its sessions, in their order
  calls,          \* the sessions with an ip_override: is_initiator
  recv,           \* recv_enabled
  labels,         \* local_labels, num_channels of them
  bound,          \* addr_map of the demux, at the other device's address
  connected,      \* the sessions with handshake_connected
  established,    \* the sessions whose established_addr is known
  dead,           \* the sessions whose receive thread panicked
  shown,          \* remote_metadata of each session
  net,            \* the packets on their way to each device
  uninformed,     \* history: a device lacks metadata, see Uninform
  changes, settled \* no more faults, restarts or edits

setup   == <<tokens, calls, recv, labels>>
session == <<connected, established, dead, shown>>
vars == <<setup, bound, session, net, uninformed, changes, settled>>

Sessions(d) == Range(tokens[d])

Init ==
  /\ \E s \in [Device -> UNION {Setups(d) : d \in Device}] :
       /\ \A d \in Device : s[d] \in Setups(d)
       /\ tokens = [d \in Device |-> s[d].tokens] /\ calls = [d \in Device |-> s[d].calls]
       /\ recv = [d \in Device |-> s[d].recv] /\ labels = [d \in Device |-> s[d].labels]
  /\ bound = [d \in Device |-> None]
  /\ connected = [d \in Device |-> {}] /\ established = [d \in Device |-> {}]
  /\ dead = [d \in Device |-> {}]
  /\ shown = [d \in Device |-> [t \in Token |-> None]]
  /\ net = [d \in Device |-> {}]
  /\ uninformed = [d \in Device |-> FALSE]
  /\ changes = 0 /\ settled = FALSE

-----------------------------------------------------------------------------
(* Restarts, the network and the handshake thread *)

\* A new process.  The other device, if connected, does not notice: it will answer
\* the probes of the new process with confirms alone, so neither learns the
\* other's channels.  So may packets that were meant for the old process, or from it.
Start(d) ==
  /\ ~settled /\ changes < MaxChanges /\ changes' = changes + 1
  /\ \E s \in Setups(d) :
       /\ tokens' = [tokens EXCEPT ![d] = s.tokens] /\ calls' = [calls EXCEPT ![d] = s.calls]
       /\ recv' = [recv EXCEPT ![d] = s.recv] /\ labels' = [labels EXCEPT ![d] = s.labels]
  /\ bound' = [bound EXCEPT ![d] = None]
  /\ connected' = [connected EXCEPT ![d] = {}] /\ established' = [established EXCEPT ![d] = {}]
  /\ dead' = [dead EXCEPT ![d] = {}]
  /\ shown' = [shown EXCEPT ![d] = [t \in Token |-> None]]
  /\ LET unnoticed == connected[Peer(d)] # {} \/ net[d] # {} \/ net[Peer(d)] # {}
     IN  uninformed' = [uninformed EXCEPT ![d] = unnoticed, ![Peer(d)] = @ \/ unnoticed]
  /\ UNCHANGED <<net, settled>>

\* A device is uninformed from the loss of metadata for it, or of the accept that
\* its peer would have answered with metadata, until it handles the current one.
Uninform(d, m) ==
  uninformed' = IF m.kind = "metadata" THEN [uninformed EXCEPT ![d] = TRUE]
                ELSE IF m.kind = "accept" THEN [uninformed EXCEPT ![Peer(d)] = TRUE]
                ELSE uninformed

Lose(d, m) ==
  /\ ~settled
  /\ net' = [net EXCEPT ![d] = @ \ {m}]
  /\ Uninform(d, m)
  /\ UNCHANGED <<setup, bound, session, changes, settled>>

Settle == ~settled /\ settled' = TRUE
          /\ UNCHANGED <<setup, bound, session, net, uninformed, changes>>

\* The sessions whose handshake thread knows where to send: an initiator has the
\* configured address, a responder the one it has seen.
Targets(d) == Sessions(d) \cap (calls[d] \cup established[d])

\* Every 2.13 s each session that knows an address probes; the probes of two devices
\* cross.  By then the earlier packets have arrived or are lost.
Probe ==
  /\ \A d \in Device : net[d] = {}
  /\ net' = [d \in Device |-> {Bare("probe", t) : t \in Targets(Peer(d))}]
  /\ UNCHANGED <<setup, bound, session, uninformed, changes, settled>>

\* The receive thread of a session is there and gets the packets of the other
\* device.
Listens(d, t) == recv[d] /\ t \in Sessions(d) \ dead[d] /\ bound[d] = t

\* What keeps a session alive: a probe for it, or the confirm of its own; a ping,
\* which has no token, of whatever session of the other device is connected; or
\* the answer to its own ping.
Heard(d, t) ==
  LET p == Peer(d) IN
  /\ Listens(d, t)
  /\ \/ t \in Targets(p)
     \/ t \in Targets(d) /\ Listens(p, t)
     \/ \E u \in connected[p] : u \in Targets(p)
     \/ \E u \in connected[p] : t \in Targets(d) /\ Listens(p, u)

\* The watchdog, after 15 s without a packet.
Stale(d, t) ==
  /\ t \in connected[d] /\ net[d] = {}
  /\ settled => ~Heard(d, t)
  /\ connected' = [connected EXCEPT ![d] = @ \ {t}]
  /\ established' = [established EXCEPT ![d] = IF t \in calls[d] THEN @ ELSE @ \ {t}]
  /\ UNCHANGED <<setup, bound, dead, shown, net, uninformed, changes, settled>>

-----------------------------------------------------------------------------
(* The demux and the receive thread *)

\* Mutant: any token is taken for a session's.
RouteUnchecked(d, m) ==
  IF bound[d] # None THEN bound[d] ELSE IF m.kind # "metadata" THEN m.token ELSE None

\* Mutant: the token is looked at first.
RouteByToken(d, m) ==
  IF m.kind # "metadata" /\ m.token \in Sessions(d) THEN m.token ELSE bound[d]

\* Mutant: a probe is matched by its sender's token.
RouteBySender(d, m) ==
  IF bound[d] # None THEN bound[d]
  ELSE IF m.kind \in {"accept", "confirm"} /\ m.token \in Sessions(d) THEN m.token ELSE None

\* An address that is known belongs to its session for ever; an unknown one is
\* bound by the token of a handshake packet.
Route(d, m) ==
  IF bound[d] # None THEN bound[d]
  ELSE IF m.kind # "metadata" /\ m.token \in Sessions(d) THEN m.token ELSE None

\* A packet reaches a receive thread that has use for it.
Handled(d, m) ==
  LET t == Route(d, m) IN
  /\ t # None /\ recv[d] /\ t \notin dead[d]
  /\ IF m.kind = "metadata" THEN t \in connected[d] ELSE m.token = t

\* What a step of the receive thread sends goes to where the packet came from.
Deliver(d, m, replies) ==
  /\ bound' = [bound EXCEPT ![d] = Route(d, m)]
  /\ net' = [net EXCEPT ![d] = @ \ {m}, ![Peer(d)] = @ \cup replies]
  /\ UNCHANGED <<setup, changes, settled>>

\* responder_late_connect, then handshake_connected.
Connect(d, t) ==
  /\ connected' = [connected EXCEPT ![d] = @ \cup {t}]
  /\ established' = [established EXCEPT ![d] = IF t \in calls[d] THEN @ ELSE @ \cup {t}]
  /\ UNCHANGED <<dead, shown>>

\* Mutant: the metadata is forgotten.
ReceiveProbeBare(d, m) ==
  LET t == m.token IN
  /\ m.kind = "probe" /\ Handled(d, m)
  /\ Connect(d, t)
  /\ IF t \in connected[d]
     THEN Deliver(d, m, {Bare("confirm", t)}) /\ UNCHANGED uninformed
     ELSE /\ Deliver(d, m, {Bare("accept", t), Bare("confirm", t)})
          /\ uninformed' = [uninformed EXCEPT ![d] = FALSE]

\* The first probe connects and is answered in full, later ones are confirmed.
ReceiveProbe(d, m) ==
  LET t == m.token IN
  /\ m.kind = "probe" /\ Handled(d, m)
  /\ Connect(d, t)
  /\ IF t \in connected[d]
     THEN Deliver(d, m, {Bare("confirm", t)}) /\ UNCHANGED uninformed
     ELSE /\ Deliver(d, m, {Bare("accept", t), Bare("confirm", t), Metadata(labels[d])})
          /\ uninformed' = [uninformed EXCEPT ![d] = FALSE]

ReceiveAccept(d, m) ==
  LET t == m.token IN
  /\ m.kind = "accept" /\ Handled(d, m)
  /\ Connect(d, t)
  /\ Deliver(d, m, {Bare("confirm", t), Metadata(labels[d])})
  /\ UNCHANGED uninformed

ReceiveConfirm(d, m) ==
  LET t == m.token IN
  /\ m.kind = "confirm" /\ Handled(d, m)
  /\ Connect(d, t)
  /\ Deliver(d, m, {})
  /\ UNCHANGED uninformed

\* The session takes over channels and labels.  If there are more channels than it
\* has rings its thread panics before it stores them.
ReceiveMetadata(d, m) ==
  /\ m.kind = "metadata" /\ Handled(d, m)
  /\ Deliver(d, m, {})
  /\ LET t    == Route(d, m)
         meta == ParseMetadata(m.text)
         fits == meta.channels <= Len(labels[d])
     IN  /\ meta.channels > 0
         /\ dead' = [dead EXCEPT ![d] = IF fits THEN @ ELSE @ \cup {t}]
         /\ shown' = [shown EXCEPT ![d][t] = IF fits THEN meta ELSE @]
         /\ uninformed' = [uninformed EXCEPT ![d] = ~fits \/ m # Metadata(labels[Peer(d)])]
  /\ UNCHANGED <<connected, established>>

Drop(d, m) ==
  /\ ~Handled(d, m)
  /\ Deliver(d, m, {})
  /\ Uninform(d, m)
  /\ UNCHANGED session

Receive(d, m) ==
  /\ m \in net[d]
  /\ \/ ReceiveProbe(d, m) \/ ReceiveAccept(d, m) \/ ReceiveConfirm(d, m)
     \/ ReceiveMetadata(d, m) \/ Drop(d, m)

-----------------------------------------------------------------------------
(* local_labels_post_handler: it resends to the established address of the first
   session, and an initiator has none. *)

PostLabels(d, new) ==
  LET t     == tokens[d][1]
      sends == t \in connected[d] /\ t \in established[d]
  IN /\ ~settled /\ changes < MaxChanges /\ changes' = changes + 1
     /\ Len(new) = Len(labels[d]) /\ new # labels[d]
     /\ labels' = [labels EXCEPT ![d] = new]
     /\ net' = [net EXCEPT ![Peer(d)] = IF sends THEN @ \cup {Metadata(new)} ELSE @]
     /\ uninformed' = [uninformed EXCEPT ![Peer(d)] = @ \/ ~sends]
     /\ UNCHANGED <<tokens, calls, recv, bound, session, settled>>

-----------------------------------------------------------------------------
Next ==
  \/ Settle \/ Probe
  \/ \E d \in Device :
       \/ Start(d)
       \/ \E m \in net[d] : Receive(d, m) \/ Lose(d, m)
       \/ \E t \in Token : Stale(d, t)
       \/ \E new \in NewLabels(d) : PostLabels(d, new)

\* Threads run in loops with a fixed sleep; what the network does not lose arrives.
Fairness ==
  /\ WF_vars(Probe)
  /\ WF_vars(\E d \in Device : \E m \in net[d] : Receive(d, m))
  /\ WF_vars(\E d \in Device : \E t \in Token : Stale(d, t))

Spec == Init /\ [][Next]_vars /\ Fairness

-----------------------------------------------------------------------------
(* Properties *)

TypeOK ==
  /\ tokens \in [Device -> Seq(Token)] /\ calls \in [Device -> SUBSET Token]
  /\ recv \in [Device -> BOOLEAN]
  /\ labels \in [Device -> Layouts]
  /\ bound \in [Device -> Token \cup {None}]
  /\ {connected, established, dead} \subseteq [Device -> SUBSET Token]
  /\ \A d \in Device : connected[d] \cup established[d] \cup dead[d] \subseteq Sessions(d)
  /\ shown \in [Device -> [Token -> {ParseMetadata(MetadataText(l)) : l \in Layouts} \cup {None}]]
  /\ net \in [Device -> SUBSET (Handshakes \cup {Metadata(l) : l \in Layouts})]
  /\ uninformed \in [Device -> BOOLEAN] /\ changes \in 0..MaxChanges /\ settled \in BOOLEAN

\* The demux gives all packets of one address to one session, so that of the sessions
\* of a device at most the one bound to the other device is connected with it, and a
\* responder knows the address of a connection it has.
OneSessionPerPeer ==
  \A d \in Device : /\ connected[d] \subseteq {bound[d]}
                    /\ connected[d] \subseteq calls[d] \cup established[d]

\* README, Web UI: source rows appear "when a peer sends its channel metadata,
\* labelled with whatever names the remote configured".  Metadata is sent once per
\* handshake and when labels are edited, unasked and unconfirmed: once nothing is
\* under way a connected session has the right number of channels, and the right
\* labels if they need no escape, unless a packet was lost or came too early, a
\* restart went unnoticed or an initiator's labels were edited.
LayoutKnown ==
  \A d \in Device : \A t \in connected[d] :
    ~uninformed[d] /\ (\A m \in net[d] : m.kind # "metadata")
                   /\ Bare("accept", t) \notin net[Peer(d)] =>
      LET theirs == labels[Peer(d)] IN
      /\ shown[d][t] # None
      /\ shown[d][t].channels = Len(theirs)
      /\ (\A ch \in DOMAIN theirs : Plain(theirs[ch])) => shown[d][t].labels = theirs

\* A session can be connected: its receive thread is there, and the demux has not
\* bound the address to another session.
Able(d, t) == recv[d] /\ t \in Sessions(d) \ dead[d] /\ bound[d] \in {None, t}

\* README, handshake: when the network stops losing packets, two devices that have
\* a token in common connect, whatever was lost before and whoever was restarted,
\* if one of them knows where to send and both can be connected.
LinkComesUp ==
  \A t \in Token :
    <>[](settled /\ (\A d \in Device : Able(d, t)) /\ \E d \in Device : t \in Targets(d))
      => <>[](\A d \in Device : t \in connected[d])

\* README 196: "sender and receiver channel counts are fully independent": metadata
\* never ends a receive thread.
CountsIndependent == \A d \in Device : dead[d] = {}
=============================================================================
