----------------------------- MODULE Rendezvous -----------------------------
(***************************************************************************)
(* Finding each other: the rendezvous server (audiolink-cloud-rendevous),  *)
(* the rendezvous and probe threads of the endpoints' sessions (engine.rs) *)
(* and, as the environment, devices whose addresses change, their NATs and *)
(* a network that loses packets.                                           *)
(*                                                                         *)
(* A session <<d, r>> is the session of device d for its remote r.  Its    *)
(* connection state is that of module Session with the races of its        *)
(* threads left out: what module Session does in several steps is one      *)
(* step here.  Link tokens match exactly the sessions <<d, r>> and         *)
(* <<r, d>>.                                                               *)
(*                                                                         *)
(* An address is a device's location and whether the NAT has mapped the    *)
(* port; ports themselves are all PORT.  A NAT lets in what comes from a   *)
(* location the device has sent to.                                        *)
(***************************************************************************)
EXTENDS Integers

CONSTANTS
  Devices,
  Sessions,      \* pairs of devices: who is configured as whose remote
  Initiators,    \* the sessions with an ip_override, which is the remote's
                 \* address at location 0
  Askers,        \* pairs <<c, d>>: device c, whose own sessions are left out,
                 \* has d as a remote and asks for it
  Mapped,        \* devices behind a NAT that maps ports
  Public,        \* devices without a NAT
  Movers,        \* bound: devices whose address may change and whose
                 \* registration may get too old
  MaxMoves,      \* bound: how often
  MaxExpiries,   \* bound: how often a registration gets too old
  None           \* Rust's Option::None

ASSUME RendezvousAssumption ==
  /\ Sessions \subseteq Devices \X Devices
  /\ Initiators \subseteq Sessions /\ Askers \subseteq Devices \X Devices
  /\ Mapped \subseteq Devices /\ Public \subseteq Devices \ Mapped /\ Movers \subseteq Devices
  /\ MaxMoves \in Nat /\ MaxExpiries \in Nat
  /\ None \notin [dev : Devices, loc : 0..MaxMoves, mapped : BOOLEAN]

Address  == [dev : Devices, loc : 0..MaxMoves, mapped : BOOLEAN]
Place(a) == <<a.dev, a.loc>>
Packet   == [kind : {"probe", "accept", "confirm"}, src : Address, dst : Address]
Peer(s)  == <<s[2], s[1]>>
Of(d)    == {s \in Sessions : s[1] = d}

VARIABLES
  \* the server
  registry,      \* name to address and age, or None
  \* a session
  established,   \* established_addr
  punch_target,
  connected,     \* handshake_connected
  reg_pc,        \* the register thread
  answer,        \* its local: the answer of /api/connect
  poll,          \* the events thread: its request waits at the server, or was
                 \* answered with an event
  event,         \* the address in that event
  \* the environment
  loc,           \* where each device is
  expiries,
  open,          \* the places each device has sent to
  net            \* the packet of each session that is on its way

server  == <<registry, expiries>>
conn    == <<established, punch_target, connected>>
threads == <<reg_pc, answer, poll, event>>
network == <<loc, open, net>>
vars == <<server, conn, threads, network>>

\* What the server and the peers see of a device.
RegAddr(d) == [dev |-> d, loc |-> loc[d], mapped |-> FALSE]
SrcAddr(d) == [dev |-> d, loc |-> loc[d], mapped |-> d \in Mapped]

Home(s) == IF s \in Initiators THEN [dev |-> s[2], loc |-> 0, mapped |-> FALSE] ELSE None

Init ==
  /\ registry = [d \in Devices |-> None] /\ expiries = 0
  /\ established = [s \in Sessions |-> None]
  /\ punch_target = [s \in Sessions |-> None]
  /\ connected = [s \in Sessions |-> FALSE]
  /\ reg_pc = [s \in Sessions |-> "register"]
  /\ answer = [s \in Sessions |-> None]
  /\ poll = [s \in Sessions |-> "idle"]
  /\ event = [s \in Sessions |-> None]
  /\ loc = [d \in Devices |-> 0]
  /\ open = [d \in Devices |-> {}]
  /\ net = [s \in Sessions |-> None]

-----------------------------------------------------------------------------
(* Packets *)

Send(s, kind, a) ==
  /\ net' = [net EXCEPT ![s] = [kind |-> kind, src |-> SrcAddr(s[1]), dst |-> a]]
  /\ open' = [open EXCEPT ![s[1]] = @ \cup {Place(a)}]

\* The NAT of the device at address a lets in what comes from place p.
LetsIn(a, p) == a.dev \in Public \/ p \in open[a.dev]

Reaches(src, dst) == dst = SrcAddr(dst.dev) /\ LetsIn(dst, Place(src))

\* A packet is lost; so is one that a later one of the session overwrites.
Lose(s) ==
  /\ net[s] # None
  /\ net' = [net EXCEPT ![s] = None]
  /\ UNCHANGED <<server, conn, threads, loc, open>>

\* A device gets another address; its NAT forgets.  If the address is one of its
\* own interfaces, the interface monitor drops the session it watches, but does
\* not release its lock.
Move(d) ==
  /\ loc[d] < MaxMoves
  /\ loc' = [loc EXCEPT ![d] = @ + 1]
  /\ open' = [open EXCEPT ![d] = {}]
  /\ connected' \in {connected} \cup {[connected EXCEPT ![s] = FALSE] : s \in Of(d)}
  /\ UNCHANGED <<server, established, punch_target, threads, net>>

-----------------------------------------------------------------------------
(* The server *)

\* Mutant: the address of an existing entry is kept.
RegisteredOnce(d) ==
  registry' = [registry EXCEPT ![d] =
                 [addr |-> IF registry[d] = None THEN RegAddr(d) ELSE registry[d].addr,
                  expired |-> FALSE]]

\* POST /api/register creates or refreshes the entry; the event channel of an
\* existing one is kept.
Registered(d) == registry' = [registry EXCEPT ![d] = [addr |-> RegAddr(d), expired |-> FALSE]]

\* POST /api/connect: the address of a remote whose registration is not older
\* than REGISTRATION_TTL.
Known(r) == registry[r] # None /\ ~registry[r].expired

\* Mutant: an event is kept for a device whose poll does not wait.
NotifyQueued(d, r) ==
  LET told == {t \in Of(r) : poll[t] = "waiting"}
  IN  /\ poll' = [t \in Sessions |-> IF t \in told THEN "event" ELSE poll[t]]
      /\ event' = [t \in Sessions |-> IF t \in Of(r) THEN RegAddr(d) ELSE event[t]]

\* Mutant: the polls of all devices are told.
NotifyAll(d, r) ==
  LET told == {t \in Sessions : poll[t] = "waiting"}
  IN  /\ poll' = [t \in Sessions |-> IF t \in told THEN "event" ELSE poll[t]]
      /\ event' = [t \in Sessions |-> IF t \in told THEN RegAddr(d) ELSE event[t]]

\* The remote's event channel: every poll that waits gets the caller's address,
\* and an event for which none waits is lost.
Notify(d, r) ==
  LET told == {t \in Of(r) : poll[t] = "waiting"}
  IN  /\ poll' = [t \in Sessions |-> IF t \in told THEN "event" ELSE poll[t]]
      /\ event' = [t \in Sessions |-> IF t \in told THEN RegAddr(d) ELSE event[t]]

\* A registration gets older than REGISTRATION_TTL.
Expire(d) ==
  /\ Known(d) /\ expiries < MaxExpiries
  /\ expiries' = expiries + 1
  /\ registry' = [registry EXCEPT ![d].expired = TRUE]
  /\ UNCHANGED <<conn, threads, network>>

\* The reaper drops it with its channel, which ends the polls that wait on it.
Reap(d) ==
  /\ registry[d] # None /\ registry[d].expired
  /\ registry' = [registry EXCEPT ![d] = None]
  /\ poll' = [t \in Sessions |-> IF t[1] = d /\ poll[t] = "waiting" THEN "idle" ELSE poll[t]]
  /\ UNCHANGED <<expiries, conn, reg_pc, answer, event, network>>

-----------------------------------------------------------------------------
(* The register thread of a session *)

Register(s) ==
  /\ reg_pc[s] = "register"
  /\ Registered(s[1])
  /\ reg_pc' = [reg_pc EXCEPT ![s] =
                  IF s \notin Initiators /\ ~connected[s] THEN "connect" ELSE "register"]
  /\ UNCHANGED <<expiries, conn, answer, poll, event, network>>

Connect(s) ==
  /\ reg_pc[s] = "connect" /\ Known(s[2])
  /\ Notify(s[1], s[2])
  /\ answer' = [answer EXCEPT ![s] = registry[s[2]].addr]
  /\ reg_pc' = [reg_pc EXCEPT ![s] = "answered"]
  /\ UNCHANGED <<server, conn, network>>

\* The same request by a device whose sessions are left out: of what it does, only
\* the event reaches others, for its packets carry another link token.
Ask(c, d) ==
  /\ Known(d)
  /\ Notify(c, d)
  /\ UNCHANGED <<server, conn, reg_pc, answer, network>>

\* Request or response failed, or the remote is unknown.
ConnectFails(s) ==
  /\ reg_pc[s] \in {"connect", "answered"}
  /\ reg_pc' = [reg_pc EXCEPT ![s] = "register"]
  /\ answer' = [answer EXCEPT ![s] = None]
  /\ UNCHANGED <<server, conn, poll, event, network>>

\* An address from the server, by answer or event, is where to punch; unless
\* connected, the session forgets whom it was locked to.
Punch(s, a) ==
  /\ punch_target' = [punch_target EXCEPT ![s] = a]
  /\ established' = IF connected[s] THEN established ELSE [established EXCEPT ![s] = None]
  /\ Send(s, "probe", a)
  /\ UNCHANGED <<server, connected, loc>>

Answered(s) ==
  /\ reg_pc[s] = "answered"
  /\ Punch(s, answer[s])
  /\ reg_pc' = [reg_pc EXCEPT ![s] = "register"]
  /\ answer' = [answer EXCEPT ![s] = None]
  /\ UNCHANGED <<poll, event>>

-----------------------------------------------------------------------------
(* The events thread of a session *)

Subscribe(s) ==
  /\ poll[s] = "idle" /\ registry[s[1]] # None
  /\ poll' = [poll EXCEPT ![s] = "waiting"]
  /\ UNCHANGED <<server, conn, reg_pc, answer, event, network>>

\* The poll times out, or its response is lost.
PollEnds(s) ==
  /\ poll[s] # "idle"
  /\ poll' = [poll EXCEPT ![s] = "idle"]
  /\ event' = [event EXCEPT ![s] = None]
  /\ UNCHANGED <<server, conn, reg_pc, answer, network>>

\* The thread does not look at who sent the event.
EventHandled(s) ==
  /\ poll[s] = "event"
  /\ Punch(s, event[s])
  /\ poll' = [poll EXCEPT ![s] = "idle"]
  /\ event' = [event EXCEPT ![s] = None]
  /\ UNCHANGED <<reg_pc, answer>>

-----------------------------------------------------------------------------
(* The handshake thread of a session *)

\* Where probes go.
Target(s) == IF established[s] # None THEN established[s]
             ELSE IF punch_target[s] # None THEN punch_target[s] ELSE Home(s)

Probe(s) ==
  /\ Target(s) # None
  /\ Send(s, "probe", Target(s))
  /\ UNCHANGED <<server, conn, threads, loc>>

\* The address filter of a responder.
Passes(s, src) == s \in Initiators \/ established[s] \in {None, src}

\* Nothing the peer sends can arrive: neither its probes nor its answers to
\* the session's own.
Silent(s) ==
  LET t    == Peer(s)
      me   == SrcAddr(s[1])
      peer == SrcAddr(t[1])
      hears     == Passes(s, peer) /\ LetsIn(me, Place(peer))
      is_probed == Target(t) = me
      is_answered == Target(s) = peer /\ LetsIn(peer, Place(me)) /\ Passes(t, me)
  IN  ~(t \in Sessions /\ hears /\ (is_probed \/ is_answered))

\* The watchdog after 15 s without a packet.
Drop(s) ==
  /\ connected[s] /\ Silent(s)
  /\ connected' = [connected EXCEPT ![s] = FALSE]
  /\ established' = [established EXCEPT ![s] = None]
  /\ UNCHANGED <<server, punch_target, threads, network>>

-----------------------------------------------------------------------------
(* The receive thread of a session *)

\* A probe is answered by accept, confirm and metadata, or by a confirm if there
\* is a connection, an accept by confirm and metadata.  Packets are lost one by
\* one: either of accept and confirm may be the one that arrives.
Replies(s, kind) ==
  CASE kind = "probe"   -> IF connected[s] THEN {"confirm"} ELSE {"accept", "confirm"}
    [] kind = "accept"  -> {"confirm"}
    [] kind = "confirm" -> {}

\* Mutant: it locks to the address it expects the source to have registered.
LateConnectRegistered(t, src) ==
  IF t \in Initiators \/ established[t] # None THEN UNCHANGED <<established, punch_target>>
  ELSE /\ established' = [established EXCEPT ![t] = [src EXCEPT !.mapped = FALSE]]
       /\ punch_target' = [punch_target EXCEPT ![t] = None]

\* A responder locks to the packet's source.
LateConnect(t, src) ==
  IF t \in Initiators \/ established[t] # None THEN UNCHANGED <<established, punch_target>>
  ELSE /\ established' = [established EXCEPT ![t] = src]
       /\ punch_target' = [punch_target EXCEPT ![t] = None]

\* The packet of session s reaches the session with the same link token.
Receive(s, kind) ==
  LET p == net[s]
      t == Peer(s)
  IN  /\ p # None /\ p.kind = kind
      /\ t \in Sessions /\ p.dst.dev = t[1] /\ Reaches(p.src, p.dst) /\ Passes(t, p.src)
      /\ LateConnect(t, p.src)
      /\ connected' = [connected EXCEPT ![t] = TRUE]
      /\ \/ /\ Replies(t, kind) = {}
            /\ net' = [net EXCEPT ![s] = None] /\ UNCHANGED open
         \/ \E reply \in Replies(t, kind) :
              /\ net' = [net EXCEPT ![s] = None,
                           ![t] = [kind |-> reply, src |-> SrcAddr(t[1]), dst |-> p.src]]
              /\ open' = [open EXCEPT ![t[1]] = @ \cup {Place(p.src)}]
      /\ UNCHANGED <<server, threads, loc>>

-----------------------------------------------------------------------------
Next ==
  \/ \E d \in Devices : Reap(d)
  \/ \E d \in Movers : Move(d) \/ Expire(d)
  \/ \E ask \in Askers : Ask(ask[1], ask[2])
  \/ \E s \in Sessions :
       \/ Lose(s) \/ Probe(s) \/ Drop(s)
       \/ Register(s) \/ Connect(s) \/ ConnectFails(s) \/ Answered(s)
       \/ Subscribe(s) \/ PollEnds(s) \/ EventHandled(s)
       \/ \E kind \in {"probe", "accept", "confirm"} : Receive(s, kind)

\* Handshake and register threads run; their requests and probes are repeated
\* until one gets through.  Nothing is assumed of events.
Fairness ==
  /\ \A s \in Sessions :
       /\ WF_vars(Probe(s)) /\ WF_vars(Drop(s)) /\ WF_vars(Register(s))
       /\ SF_vars(Receive(s, "probe"))
  /\ \A s \in Sessions \ Initiators : SF_vars(Connect(s)) /\ SF_vars(Answered(s))

Spec == Init /\ [][Next]_vars /\ Fairness

-----------------------------------------------------------------------------
(* Properties *)

TypeOK ==
  /\ registry \in [Devices -> [addr : Address, expired : BOOLEAN] \cup {None}]
  /\ expiries \in 0..MaxExpiries
  /\ established \in [Sessions -> Address \cup {None}]
  /\ punch_target \in [Sessions -> Address \cup {None}]
  /\ connected \in [Sessions -> BOOLEAN]
  /\ reg_pc \in [Sessions -> {"register", "connect", "answered"}]
  /\ answer \in [Sessions -> Address \cup {None}]
  /\ \A s \in Sessions : reg_pc[s] = "answered" <=> answer[s] # None
  /\ poll \in [Sessions -> {"idle", "waiting", "event"}]
  /\ event \in [Sessions -> Address \cup {None}]
  /\ \A s \in Sessions : poll[s] = "event" <=> event[s] # None
  /\ loc \in [Devices -> 0..MaxMoves]
  /\ open \in [Devices -> SUBSET (Devices \X (0..MaxMoves))]
  /\ net \in [Sessions -> Packet \cup {None}]

\* A session is locked to an address of its own remote, never to that of
\* another device, and only if that device's packets come from there.
LockedToRemote ==
  \A s \in Sessions :
    established[s] # None =>
      established[s].dev = s[2] /\ established[s].mapped = (s[2] \in Mapped)

\* The devices that ask the server for device d.
Callers(d) ==
  {ask[1] : ask \in {p \in Askers : p[2] = d}} \cup
  {s[1] : s \in {t \in Sessions \ Initiators : t[2] = d}}

\* README, Cloud / NAT traversal: the endpoints "send probes at each other".  They do
\* so only as far as nobody else asks: the events thread takes the event of any caller
\* (engine.rs:336), so a session sends to an address that its own remote has or had, or
\* to one of a device that asks for its own device; the server's answers lead to the
\* remote only.
AimsAtRemoteOrCaller ==
  \A s \in Sessions :
    LET aims == {s[2]} \cup Callers(s[1])
    IN  /\ Target(s) # None => Target(s).dev \in aims
        /\ answer[s] # None => answer[s].dev = s[2]
        /\ net[s] # None => net[s].dst.dev \in aims

\* What the rendezvous is for: the sessions of two devices end up connected, and
\* stay so once the devices keep their addresses, whatever was lost on the way and
\* however often the event of another caller led a session astray that itself asks.
PeersConnect == <>[](\A s \in Sessions : connected[s])
=============================================================================
