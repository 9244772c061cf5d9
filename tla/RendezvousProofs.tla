-------------------------- MODULE RendezvousProofs --------------------------
(***************************************************************************)
(* Proofs about Rendezvous, for any devices, any NATs and any number of    *)
(* moves: a session is locked to its own remote, and it sends to its own   *)
(* remote or to a device that asks for its own.                            *)
(***************************************************************************)
EXTENDS Rendezvous, TLAPS

\* What is known of an address a that a session of device d sends from.
LockOf(a, d) == a # None => a.dev = d /\ a.mapped = (d \in Mapped)
Owned(a, d)  == a # None => a.dev = d

\* The devices session s may be led to, and that an address is one of theirs.
Aims(s)     == {s[2]} \cup Callers(s[1])
Aimed(a, s) == a # None => a.dev \in Aims(s)

\* A session can only lock to the source of a packet: LockedToRemote needs what
\* is known of the sources of those on their way.
LockInv ==
  \A s \in Sessions :
    /\ LockOf(established[s], s[2])
    /\ net[s] # None => LockOf(net[s].src, s[1])

\* Every way an address takes to a session's target: from the server's registry
\* by an answer or an event to punch_target, and from there into packets.
AimInv ==
  /\ \A d \in Devices : registry[d] # None => registry[d].addr.dev = d
  /\ \A s \in Sessions :
       /\ Owned(answer[s], s[2]) /\ Aimed(event[s], s) /\ Aimed(punch_target[s], s)
       /\ net[s] # None => net[s].dst.dev \in Aims(s)

\* An initiator never asks the server: only responders get an answer.
AskInv == \A s \in Sessions : s \in Initiators => reg_pc[s] = "register"

-----------------------------------------------------------------------------
(* Type correctness *)

LEMMA Addresses ==
  ASSUME TypeOK, NEW d \in Devices
  PROVE  /\ RegAddr(d) \in Address /\ SrcAddr(d) \in Address
         /\ RegAddr(d).dev = d /\ SrcAddr(d).dev = d /\ SrcAddr(d).mapped = (d \in Mapped)
         /\ RegAddr(d) # None /\ SrcAddr(d) # None
<1> DEFINE m == d \in Mapped
<1>1. loc[d] \in 0..MaxMoves /\ m \in BOOLEAN
  BY DEF TypeOK
<1> HIDE DEF m
<1>2. /\ [dev |-> d, loc |-> loc[d], mapped |-> FALSE] \in Address
      /\ [dev |-> d, loc |-> loc[d], mapped |-> m] \in Address
  BY <1>1 DEF Address
<1>3. None \notin Address
  BY RendezvousAssumption DEF Address
<1>4. SrcAddr(d) = [dev |-> d, loc |-> loc[d], mapped |-> m]
  BY DEF SrcAddr, m
<1>5. SrcAddr(d).mapped = m
  BY <1>4
<1>6. SrcAddr(d).mapped = (d \in Mapped)
  BY <1>5, Zenon DEF m
<1>7. SrcAddr(d) \in Address /\ SrcAddr(d).dev = d
  BY <1>2, <1>4
<1>8. RegAddr(d) \in Address /\ RegAddr(d).dev = d
  BY <1>2 DEF RegAddr
<1> QED
  BY <1>3, <1>6, <1>7, <1>8

LEMMA SessionFacts ==
  ASSUME NEW s \in Sessions
  PROVE  s[1] \in Devices /\ s[2] \in Devices /\ Peer(s)[1] = s[2] /\ Peer(s)[2] = s[1]
  BY RendezvousAssumption DEF Peer

LEMMA TypeInit == Init => TypeOK
  BY RendezvousAssumption DEF Init, TypeOK, Address, Packet

LEMMA SendType ==
  ASSUME TypeOK, NEW s \in Sessions, NEW kind \in {"probe", "accept", "confirm"},
         NEW a \in Address, Send(s, kind, a)
  PROVE  /\ net' \in [Sessions -> Packet \cup {None}]
         /\ open' \in [Devices -> SUBSET (Devices \X (0..MaxMoves))]
<1>1. s[1] \in Devices /\ SrcAddr(s[1]) \in Address
  BY SessionFacts, Addresses
<1>2. [kind |-> kind, src |-> SrcAddr(s[1]), dst |-> a] \in Packet
  BY <1>1 DEF Packet
<1>3. Place(a) \in Devices \X (0..MaxMoves)
  BY DEF Place, Address
<1> QED
  BY <1>1, <1>2, <1>3 DEF Send, TypeOK

LEMMA PunchType ==
  ASSUME TypeOK, NEW s \in Sessions, NEW a \in Address, Punch(s, a)
  PROVE  /\ net' \in [Sessions -> Packet \cup {None}]
         /\ open' \in [Devices -> SUBSET (Devices \X (0..MaxMoves))]
         /\ established' \in [Sessions -> Address \cup {None}]
         /\ punch_target' \in [Sessions -> Address \cup {None}]
<1>1. Send(s, "probe", a)
  BY DEF Punch
<1>2. established' \in [Sessions -> Address \cup {None}]
  BY DEF Punch, TypeOK
<1>3. punch_target' \in [Sessions -> Address \cup {None}]
  BY DEF Punch, TypeOK
<1> QED
  BY <1>1, <1>2, <1>3, SendType

\* The server's actions.
LEMMA ServerType ==
  ASSUME TypeOK, NEW d \in Devices, Expire(d) \/ Reap(d) PROVE TypeOK'
<1>1. registry[d] # None => registry[d] \in [addr : Address, expired : BOOLEAN]
  BY DEF TypeOK
<1>2. CASE Expire(d)
  <2>1. registry' \in [Devices -> [addr : Address, expired : BOOLEAN] \cup {None}]
    BY <1>1, <1>2 DEF Expire, Known, TypeOK
  <2>2. expiries' \in 0..MaxExpiries
    BY <1>2, RendezvousAssumption DEF Expire, TypeOK
  <2> QED
    BY <1>2, <2>1, <2>2 DEF Expire, conn, threads, network, TypeOK
<1>3. CASE Reap(d)
  <2>1. registry' \in [Devices -> [addr : Address, expired : BOOLEAN] \cup {None}]
    BY <1>3 DEF Reap, TypeOK
  <2>2. poll' \in [Sessions -> {"idle", "waiting", "event"}]
    BY <1>3 DEF Reap, TypeOK
  <2>3. \A s \in Sessions : poll'[s] = "event" <=> event'[s] # None
    BY <1>3 DEF Reap, TypeOK
  <2> QED
    BY <1>3, <2>1, <2>2, <2>3 DEF Reap, conn, network, TypeOK
<1> QED
  BY <1>2, <1>3

LEMMA NotifyType ==
  ASSUME TypeOK, NEW d \in Devices, NEW r, Notify(d, r)
  PROVE  /\ poll' \in [Sessions -> {"idle", "waiting", "event"}]
         /\ event' \in [Sessions -> Address \cup {None}]
         /\ \A t \in Sessions : poll'[t] = "event" <=> event'[t] # None
<1>1. RegAddr(d) \in Address /\ RegAddr(d) # None
  BY Addresses
<1> QED
  BY <1>1 DEF Notify, TypeOK

\* The actions of the register thread.
LEMMA RegisterType ==
  ASSUME TypeOK, NEW s \in Sessions,
         Register(s) \/ Connect(s) \/ ConnectFails(s) \/ Answered(s)
  PROVE  TypeOK'
<1>0. s[1] \in Devices /\ s[2] \in Devices
  BY SessionFacts
<1>1. CASE Register(s)
  <2>1. registry' \in [Devices -> [addr : Address, expired : BOOLEAN] \cup {None}]
    BY <1>0, <1>1, Addresses DEF Register, Registered, TypeOK
  <2>2. /\ reg_pc' \in [Sessions -> {"register", "connect", "answered"}]
        /\ \A t \in Sessions : reg_pc'[t] = "answered" <=> answer'[t] # None
    BY <1>1 DEF Register, TypeOK
  <2> QED
    BY <1>1, <2>1, <2>2 DEF Register, conn, network, TypeOK
<1>2. CASE Connect(s)
  <2>1. registry[s[2]].addr \in Address /\ registry[s[2]].addr # None
    BY <1>0, <1>2, RendezvousAssumption DEF Connect, Known, TypeOK, Address
  <2>2. /\ reg_pc' \in [Sessions -> {"register", "connect", "answered"}]
        /\ answer' \in [Sessions -> Address \cup {None}]
        /\ \A t \in Sessions : reg_pc'[t] = "answered" <=> answer'[t] # None
    BY <1>2, <2>1 DEF Connect, TypeOK
  <2>3. /\ poll' \in [Sessions -> {"idle", "waiting", "event"}]
        /\ event' \in [Sessions -> Address \cup {None}]
        /\ \A t \in Sessions : poll'[t] = "event" <=> event'[t] # None
    BY <1>0, <1>2, NotifyType DEF Connect
  <2> QED
    BY <1>2, <2>2, <2>3 DEF Connect, server, conn, network, TypeOK
<1>3. CASE ConnectFails(s)
  BY <1>3 DEF ConnectFails, server, conn, network, TypeOK
<1>4. CASE Answered(s)
  <2>1. answer[s] \in Address
    BY <1>4 DEF Answered, TypeOK
  <2>2. Punch(s, answer[s])
    BY <1>4 DEF Answered
  <2>3. /\ net' \in [Sessions -> Packet \cup {None}]
        /\ open' \in [Devices -> SUBSET (Devices \X (0..MaxMoves))]
        /\ established' \in [Sessions -> Address \cup {None}]
        /\ punch_target' \in [Sessions -> Address \cup {None}]
    BY <2>1, <2>2, PunchType
  <2>4. /\ reg_pc' \in [Sessions -> {"register", "connect", "answered"}]
        /\ answer' \in [Sessions -> Address \cup {None}]
        /\ \A t \in Sessions : reg_pc'[t] = "answered" <=> answer'[t] # None
    BY <1>4 DEF Answered, TypeOK
  <2>5. UNCHANGED <<server, connected, loc, poll, event>>
    BY <1>4 DEF Answered, Punch
  <2> QED
    BY <2>3, <2>4, <2>5 DEF server, TypeOK
<1> QED
  BY <1>1, <1>2, <1>3, <1>4

\* The actions of the events thread.
LEMMA AskType == ASSUME TypeOK, NEW ask \in Askers, Ask(ask[1], ask[2]) PROVE TypeOK'
<1>1. ask[1] \in Devices
  BY RendezvousAssumption
<1>2. /\ poll' \in [Sessions -> {"idle", "waiting", "event"}]
      /\ event' \in [Sessions -> Address \cup {None}]
      /\ \A t \in Sessions : poll'[t] = "event" <=> event'[t] # None
  BY <1>1, NotifyType DEF Ask
<1> QED
  BY <1>2 DEF Ask, server, conn, network, TypeOK

LEMMA EventsType ==
  ASSUME TypeOK, NEW s \in Sessions, Subscribe(s) \/ PollEnds(s) \/ EventHandled(s)
  PROVE  TypeOK'
<1>1. CASE Subscribe(s)
  BY <1>1 DEF Subscribe, server, conn, network, TypeOK
<1>2. CASE PollEnds(s)
  BY <1>2 DEF PollEnds, server, conn, network, TypeOK
<1>3. CASE EventHandled(s)
  <2>1. event[s] \in Address
    BY <1>3 DEF EventHandled, TypeOK
  <2>2. Punch(s, event[s])
    BY <1>3 DEF EventHandled
  <2>3. /\ net' \in [Sessions -> Packet \cup {None}]
        /\ open' \in [Devices -> SUBSET (Devices \X (0..MaxMoves))]
        /\ established' \in [Sessions -> Address \cup {None}]
        /\ punch_target' \in [Sessions -> Address \cup {None}]
    BY <2>1, <2>2, PunchType
  <2>4. /\ poll' \in [Sessions -> {"idle", "waiting", "event"}]
        /\ event' \in [Sessions -> Address \cup {None}]
        /\ \A t \in Sessions : poll'[t] = "event" <=> event'[t] # None
    BY <1>3 DEF EventHandled, TypeOK
  <2>5. UNCHANGED <<server, connected, loc, reg_pc, answer>>
    BY <1>3 DEF EventHandled, Punch
  <2> QED
    BY <2>3, <2>4, <2>5 DEF server, TypeOK
<1> QED
  BY <1>1, <1>2, <1>3

\* The environment and the handshake thread.
LEMMA ProbeType ==
  ASSUME TypeOK, NEW s \in Sessions, Lose(s) \/ Probe(s) \/ Drop(s)
  PROVE  TypeOK'
<1>1. CASE Lose(s)
  BY <1>1 DEF Lose, server, conn, threads, TypeOK
<1>2. CASE Probe(s)
  <2>1. Home(s) \in Address \cup {None}
    BY SessionFacts, RendezvousAssumption DEF Home, Address
  <2>2. Target(s) \in Address
    BY <1>2, <2>1 DEF Probe, Target, TypeOK
  <2>3. Send(s, "probe", Target(s)) /\ UNCHANGED <<server, conn, threads, loc>>
    BY <1>2 DEF Probe
  <2> HIDE DEF Target
  <2>4. /\ net' \in [Sessions -> Packet \cup {None}]
        /\ open' \in [Devices -> SUBSET (Devices \X (0..MaxMoves))]
    BY <2>2, <2>3, SendType
  <2> QED
    BY <2>3, <2>4 DEF server, conn, threads, TypeOK
<1>3. CASE Drop(s)
  BY <1>3 DEF Drop, server, threads, network, TypeOK
<1> QED
  BY <1>1, <1>2, <1>3

LEMMA MoveType == ASSUME TypeOK, NEW d \in Devices, Move(d) PROVE TypeOK'
<1>1. loc' \in [Devices -> 0..MaxMoves]
  BY RendezvousAssumption DEF Move, TypeOK
<1>2. open' \in [Devices -> SUBSET (Devices \X (0..MaxMoves))]
  BY DEF Move, TypeOK
<1>3. connected' \in [Sessions -> BOOLEAN]
  BY DEF Move, TypeOK
<1> QED
  BY <1>1, <1>2, <1>3 DEF Move, server, threads, TypeOK

LEMMA ReceiveType ==
  ASSUME TypeOK, NEW s \in Sessions, NEW kind \in {"probe", "accept", "confirm"},
         Receive(s, kind)
  PROVE  TypeOK'
<1> DEFINE t == Peer(s)
           p == net[s]
<1>1. t \in Sessions /\ t[1] \in Devices
  BY SessionFacts DEF Receive
<1>2. p \in Packet /\ p.src \in Address /\ SrcAddr(t[1]) \in Address
  BY <1>1, Addresses DEF Receive, TypeOK, Packet
<1>3. LateConnect(t, p.src)
  BY DEF Receive
<1>4. /\ established' \in [Sessions -> Address \cup {None}]
      /\ punch_target' \in [Sessions -> Address \cup {None}]
  BY <1>1, <1>2, <1>3 DEF LateConnect, TypeOK
<1>5. connected' \in [Sessions -> BOOLEAN]
  BY DEF Receive, TypeOK
<1>6. ASSUME NEW reply \in {"accept", "confirm"}
      PROVE  [kind |-> reply, src |-> SrcAddr(t[1]), dst |-> p.src] \in Packet
  BY <1>2 DEF Packet
<1>7. Replies(t, kind) \subseteq {"accept", "confirm"}
  BY DEF Replies
<1>8. Place(p.src) \in Devices \X (0..MaxMoves)
  BY <1>2 DEF Place, Address
<1>9. /\ net' \in [Sessions -> Packet \cup {None}]
      /\ open' \in [Devices -> SUBSET (Devices \X (0..MaxMoves))]
  <2>1. CASE net' = [net EXCEPT ![s] = None] /\ UNCHANGED open
    BY <2>1 DEF TypeOK
  <2>2. ASSUME NEW reply \in Replies(t, kind),
               net' = [net EXCEPT ![s] = None,
                         ![t] = [kind |-> reply, src |-> SrcAddr(t[1]), dst |-> p.src]],
               open' = [open EXCEPT ![t[1]] = @ \cup {Place(p.src)}]
        PROVE  <1>9
    <3> DEFINE q == [kind |-> reply, src |-> SrcAddr(t[1]), dst |-> p.src]
    <3>1. q \in Packet
      BY <1>6, <1>7, <2>2
    <3> HIDE DEF q, t, p
    <3>2. net' = [net EXCEPT ![s] = None, ![t] = q]
      BY <2>2 DEF q, t, p
    <3>3. net' \in [Sessions -> Packet \cup {None}]
      BY <1>1, <3>1, <3>2 DEF TypeOK
    <3>4. open' \in [Devices -> SUBSET (Devices \X (0..MaxMoves))]
      BY <1>1, <1>8, <2>2 DEF TypeOK
    <3> QED
      BY <3>3, <3>4
  <2> QED
    BY <2>1, <2>2 DEF Receive
<1>10. UNCHANGED <<server, threads, loc>>
  BY DEF Receive
<1> QED
  BY <1>4, <1>5, <1>9, <1>10 DEF server, threads, TypeOK

LEMMA TypeStep == ASSUME TypeOK, [Next]_vars PROVE TypeOK'
<1>1. CASE UNCHANGED vars
  BY <1>1 DEF vars, server, conn, threads, network, TypeOK
<1>2. CASE Next
  BY <1>2, ServerType, AskType, MoveType, ProbeType, RegisterType, EventsType, ReceiveType,
     RendezvousAssumption DEF Next
<1> QED
  BY <1>1, <1>2

\* The state keeps its types.
THEOREM TypeCorrect == Spec => []TypeOK
<1> QED
  BY TypeInit, TypeStep, PTL DEF Spec

-----------------------------------------------------------------------------
(* Whom a session is locked to *)

LEMMA SrcLock == ASSUME TypeOK, NEW d \in Devices PROVE LockOf(SrcAddr(d), d)
  BY Addresses DEF LockOf

\* A session that sends does so from where it is.
LEMMA SendLock ==
  ASSUME TypeOK, LockInv, NEW s \in Sessions, NEW kind \in {"probe", "accept", "confirm"},
         NEW a \in Address, Send(s, kind, a)
  PROVE  \A u \in Sessions : net'[u] # None => LockOf(net'[u].src, u[1])
<1>1. LockOf(SrcAddr(s[1]), s[1])
  BY SessionFacts, SrcLock
<1> QED
  BY <1>1 DEF Send, LockInv, TypeOK

\* Punching forgets a lock and takes none.
LEMMA PunchLock ==
  ASSUME TypeOK, LockInv, NEW s \in Sessions, NEW a \in Address, Punch(s, a)
  PROVE  LockInv'
<1>1. \A u \in Sessions : net'[u] # None => LockOf(net'[u].src, u[1])
  BY SendLock DEF Punch
<1>2. \A u \in Sessions : LockOf(established'[u], u[2])
  <2>1. \A u \in Sessions : established'[u] = established[u] \/ established'[u] = None
    BY DEF Punch, TypeOK
  <2> QED
    BY <2>1 DEF LockInv, LockOf
<1> QED
  BY <1>1, <1>2 DEF LockInv, LockOf

LEMMA TargetType ==
  ASSUME TypeOK, NEW s \in Sessions PROVE Target(s) \in Address \cup {None}
<1>1. Home(s) \in Address \cup {None}
  BY SessionFacts, RendezvousAssumption DEF Home, Address
<1> QED
  BY <1>1 DEF Target, TypeOK

\* The source of the packet it locks to is the session with the same link token.
LEMMA ReceiveLock ==
  ASSUME TypeOK, LockInv, NEW s \in Sessions, NEW kind \in {"probe", "accept", "confirm"},
         Receive(s, kind)
  PROVE  LockInv'
<1> DEFINE t == Peer(s)
           src == net[s].src
<1>1. t \in Sessions /\ t[1] \in Devices /\ t[2] = s[1]
  BY SessionFacts DEF Receive
<1>2. LockOf(src, s[1])
  BY DEF Receive, LockInv
<1>3. LockOf(SrcAddr(t[1]), t[1])
  BY <1>1, SrcLock
<1> HIDE DEF t, src
<1>4. \A u \in Sessions : LockOf(established'[u], u[2])
  <2>1. established' = established \/ established' = [established EXCEPT ![t] = src]
    BY DEF Receive, LateConnect, t, src
  <2> QED
    BY <1>1, <1>2, <2>1 DEF LockInv, TypeOK
<1>5. \A u \in Sessions : net'[u] # None => LockOf(net'[u].src, u[1])
  <2>1. CASE net' = [net EXCEPT ![s] = None]
    BY <2>1 DEF LockInv, TypeOK
  <2>2. ASSUME NEW reply,
               net' = [net EXCEPT ![s] = None,
                         ![t] = [kind |-> reply, src |-> SrcAddr(t[1]), dst |-> src]]
        PROVE  <1>5
    BY <1>1, <1>3, <2>2 DEF LockInv, TypeOK
  <2> QED
    BY <2>1, <2>2 DEF Receive, t, src
<1> QED
  BY <1>4, <1>5 DEF LockInv, LockOf

LEMMA LockInit == Init => LockInv
  BY DEF Init, LockInv, LockOf

LEMMA LockStep == ASSUME TypeOK, LockInv, [Next]_vars PROVE LockInv'
<1>1. ASSUME UNCHANGED <<established, net>> PROVE LockInv'
  BY <1>1 DEF LockInv, LockOf
<1>2. ASSUME NEW d \in Devices, Expire(d) \/ Reap(d) \/ Move(d) PROVE LockInv'
  BY <1>1, <1>2 DEF Expire, Reap, Move, conn, network
<1>2a. ASSUME NEW ask \in Askers, Ask(ask[1], ask[2]) PROVE LockInv'
  BY <1>1, <1>2a DEF Ask, conn, network
<1>3. ASSUME NEW s \in Sessions, Register(s) \/ Connect(s) \/ ConnectFails(s) PROVE LockInv'
  BY <1>1, <1>3 DEF Register, Connect, ConnectFails, conn, network
<1>4. ASSUME NEW s \in Sessions, Subscribe(s) \/ PollEnds(s) PROVE LockInv'
  BY <1>1, <1>4 DEF Subscribe, PollEnds, conn, network
<1>5. ASSUME NEW s \in Sessions, Answered(s) \/ EventHandled(s) PROVE LockInv'
  <2>1. PICK a \in Address : Punch(s, a)
    BY <1>5 DEF Answered, EventHandled, TypeOK
  <2> QED
    BY <2>1, PunchLock
<1>6. ASSUME NEW s \in Sessions, Lose(s) PROVE LockInv'
  BY <1>6 DEF Lose, conn, LockInv, LockOf, TypeOK
<1>7. ASSUME NEW s \in Sessions, Probe(s) PROVE LockInv'
  <2>1. Target(s) \in Address /\ Send(s, "probe", Target(s)) /\ UNCHANGED established
    BY <1>7, TargetType DEF Probe, conn
  <2>2. \A u \in Sessions : net'[u] # None => LockOf(net'[u].src, u[1])
    BY <2>1, SendLock
  <2> QED
    BY <2>1, <2>2 DEF LockInv, LockOf
<1>8. ASSUME NEW s \in Sessions, Drop(s) PROVE LockInv'
  BY <1>8 DEF Drop, network, LockInv, LockOf, TypeOK
<1>9. CASE UNCHANGED vars
  BY <1>1, <1>9 DEF vars, conn, network
<1>10. CASE Next
  BY <1>2, <1>2a, <1>3, <1>4, <1>5, <1>6, <1>7, <1>8, <1>10, ReceiveLock, RendezvousAssumption
     DEF Next
<1> QED
  BY <1>9, <1>10

\* A session is never locked to another device than its remote.
THEOREM LockedCorrect == Spec => []LockedToRemote
<1>1. LockInv => LockedToRemote
  BY DEF LockInv, LockOf, LockedToRemote
<1> QED
  BY TypeInit, TypeStep, LockInit, LockStep, <1>1, PTL DEF Spec

-----------------------------------------------------------------------------
(* Whom a session sends to *)

LEMMA AimInit == Init => AimInv /\ AskInv
  BY DEF Init, AimInv, AskInv, Owned, Aimed

LEMMA AskStep == ASSUME TypeOK, AskInv, [Next]_vars PROVE AskInv'
<1>1. CASE reg_pc' = reg_pc
  BY <1>1 DEF AskInv
<1>2. ASSUME NEW s \in Sessions,
             Register(s) \/ Connect(s) \/ ConnectFails(s) \/ Answered(s)
      PROVE  AskInv'
  BY <1>2 DEF Register, Connect, ConnectFails, Answered, AskInv, TypeOK
<1> QED
  BY <1>1, <1>2
  DEF Next, vars, threads, Expire, Reap, Move, Ask, Lose, Probe, Drop, Subscribe, PollEnds,
      EventHandled, Punch, Receive

\* Punching at an address of the remote or a caller keeps the aims.
LEMMA PunchAim ==
  ASSUME TypeOK, AimInv, NEW s \in Sessions, NEW a \in Address, a.dev \in Aims(s), Punch(s, a),
         \A u \in Sessions : Owned(answer'[u], u[2]) /\ Aimed(event'[u], u)
  PROVE  AimInv'
<1>1. UNCHANGED registry
  BY DEF Punch, server
<1>2. \A u \in Sessions : Aimed(punch_target'[u], u)
  BY DEF Punch, AimInv, Aimed, TypeOK
<1>3. \A u \in Sessions : net'[u] # None => net'[u].dst.dev \in Aims(u)
  BY DEF Punch, Send, AimInv, TypeOK
<1> QED
  BY <1>1, <1>2, <1>3 DEF AimInv, Owned, Aimed

\* The target of a session is an address of its remote or of a caller.
LEMMA TargetAim ==
  ASSUME TypeOK, LockInv, AimInv, NEW s \in Sessions, Target(s) # None
  PROVE  Target(s).dev \in Aims(s)
  BY DEF Target, Home, LockInv, LockOf, AimInv, Aimed, Aims

\* An event has the address of the one that asked, who is a caller of the device told.
LEMMA NotifyAim ==
  ASSUME TypeOK, AimInv, NEW d \in Devices, NEW r, d \in Callers(r), Notify(d, r)
  PROVE  \A u \in Sessions : Aimed(event'[u], u)
<1>1. \A u \in Sessions : event'[u] = event[u] \/ (u[1] = r /\ event'[u] = RegAddr(d))
  BY DEF Notify, Of
<1>2. RegAddr(d).dev = d
  BY Addresses
<1> QED
  BY <1>1, <1>2 DEF AimInv, Aimed, Aims

\* The server hands out what a device registered.
LEMMA ConnectAim ==
  ASSUME TypeOK, AskInv, AimInv, NEW s \in Sessions, Connect(s) PROVE AimInv'
<1>1. s[1] \in Devices /\ s[2] \in Devices
  BY SessionFacts
<1>2. UNCHANGED <<registry, punch_target, net>>
  BY DEF Connect, server, conn, network
<1>3. \A u \in Sessions : Owned(answer'[u], u[2])
  BY <1>1 DEF Connect, Known, AimInv, Owned, TypeOK
<1>4. s \notin Initiators
  BY DEF Connect, AskInv
<1>5. s[1] \in Callers(s[2])
  BY <1>4 DEF Callers
<1>6. \A u \in Sessions : Aimed(event'[u], u)
  BY <1>1, <1>5, NotifyAim DEF Connect
<1> QED
  BY <1>2, <1>3, <1>6 DEF AimInv, Owned, Aimed

LEMMA AskAim ==
  ASSUME TypeOK, AimInv, NEW ask \in Askers, Ask(ask[1], ask[2]) PROVE AimInv'
<1>1. ask[1] \in Devices
  BY RendezvousAssumption
<1>2. UNCHANGED <<registry, punch_target, net, answer>>
  BY DEF Ask, server, conn, network
<1>3. ask[1] \in Callers(ask[2])
  BY DEF Callers
<1>4. \A u \in Sessions : Aimed(event'[u], u)
  BY <1>1, <1>3, NotifyAim DEF Ask
<1> QED
  BY <1>2, <1>4 DEF AimInv, Owned, Aimed

\* Replies go to where the packet came from.
LEMMA ReceiveAim ==
  ASSUME TypeOK, LockInv, AimInv, NEW s \in Sessions,
         NEW kind \in {"probe", "accept", "confirm"}, Receive(s, kind)
  PROVE  AimInv'
<1> DEFINE t == Peer(s)
           src == net[s].src
<1>1. t \in Sessions /\ t[2] = s[1]
  BY SessionFacts DEF Receive
<1>2. src.dev = s[1]
  <2>1. src \in Address
    BY DEF Receive, TypeOK, Packet
  <2>2. src # None
    BY <2>1, RendezvousAssumption DEF Address
  <2> QED
    BY <2>2 DEF Receive, LockInv, LockOf
<1> HIDE DEF t, src
<1>3. UNCHANGED <<registry, answer, event>>
  BY DEF Receive, server, threads
<1>4. \A u \in Sessions : Aimed(punch_target'[u], u)
  <2>1. punch_target' = punch_target \/ punch_target' = [punch_target EXCEPT ![t] = None]
    BY DEF Receive, LateConnect, t
  <2> QED
    BY <2>1 DEF AimInv, Aimed, TypeOK
<1>5. \A u \in Sessions : net'[u] # None => net'[u].dst.dev \in Aims(u)
  <2>1. CASE net' = [net EXCEPT ![s] = None]
    BY <2>1 DEF AimInv, TypeOK
  <2>2. ASSUME NEW reply,
               net' = [net EXCEPT ![s] = None,
                         ![t] = [kind |-> reply, src |-> SrcAddr(t[1]), dst |-> src]]
        PROVE  <1>5
    BY <1>1, <1>2, <2>2 DEF AimInv, Aims, TypeOK
  <2> QED
    BY <2>1, <2>2 DEF Receive, t, src
<1> QED
  BY <1>3, <1>4, <1>5 DEF AimInv, Owned, Aimed

LEMMA AimStep == ASSUME AskInv, TypeOK, LockInv, AimInv, [Next]_vars PROVE AimInv'
<1>1. ASSUME UNCHANGED <<registry, answer, event, punch_target, net>> PROVE AimInv'
  BY <1>1 DEF AimInv, Owned, Aimed
<1>2. ASSUME NEW d \in Devices, Expire(d) PROVE AimInv'
  BY <1>2 DEF Expire, Known, conn, threads, network, AimInv, Owned, Aimed, TypeOK
<1>3. ASSUME NEW d \in Devices, Reap(d) PROVE AimInv'
  BY <1>3 DEF Reap, conn, network, AimInv, Owned, Aimed, TypeOK
<1>4. ASSUME NEW d \in Devices, Move(d) PROVE AimInv'
  BY <1>1, <1>4 DEF Move, server, threads
<1>5. ASSUME NEW s \in Sessions, Register(s) PROVE AimInv'
  <2>1. s[1] \in Devices /\ RegAddr(s[1]).dev = s[1]
    BY SessionFacts, Addresses
  <2> QED
    BY <1>5, <2>1 DEF Register, Registered, conn, network, AimInv, Owned, Aimed, TypeOK
<1>6. ASSUME NEW s \in Sessions, ConnectFails(s) \/ PollEnds(s) PROVE AimInv'
  BY <1>6 DEF ConnectFails, PollEnds, server, conn, network, AimInv, Owned, Aimed, TypeOK
<1>7. ASSUME NEW s \in Sessions, Subscribe(s) PROVE AimInv'
  BY <1>1, <1>7 DEF Subscribe, server, conn, network
<1>8. ASSUME NEW s \in Sessions, Answered(s) PROVE AimInv'
  <2>1. answer[s] \in Address /\ answer[s].dev \in Aims(s)
    BY <1>8 DEF Answered, AimInv, Owned, Aims, TypeOK
  <2>2. \A u \in Sessions : Owned(answer'[u], u[2]) /\ Aimed(event'[u], u)
    BY <1>8 DEF Answered, AimInv, Owned, Aimed, TypeOK
  <2> QED
    BY <1>8, <2>1, <2>2, PunchAim DEF Answered
<1>9. ASSUME NEW s \in Sessions, EventHandled(s) PROVE AimInv'
  <2>1. event[s] \in Address /\ event[s].dev \in Aims(s)
    BY <1>9 DEF EventHandled, AimInv, Owned, Aimed, TypeOK
  <2>2. \A u \in Sessions : Owned(answer'[u], u[2]) /\ Aimed(event'[u], u)
    BY <1>9 DEF EventHandled, AimInv, Owned, Aimed, TypeOK
  <2> QED
    BY <1>9, <2>1, <2>2, PunchAim DEF EventHandled
<1>10. ASSUME NEW s \in Sessions, Lose(s) PROVE AimInv'
  BY <1>10 DEF Lose, server, conn, threads, AimInv, Owned, Aimed, TypeOK
<1>11. ASSUME NEW s \in Sessions, Probe(s) PROVE AimInv'
  <2>1. Target(s) # None /\ Target(s).dev \in Aims(s)
    BY <1>11, TargetAim DEF Probe
  <2>2. \A u \in Sessions : net'[u] # None => net'[u].dst.dev \in Aims(u)
    BY <1>11, <2>1 DEF Probe, Send, AimInv, TypeOK
  <2>3. UNCHANGED <<registry, answer, event, punch_target>>
    BY <1>11 DEF Probe, server, conn, threads
  <2> QED
    BY <2>2, <2>3 DEF AimInv, Owned, Aimed
<1>12. ASSUME NEW s \in Sessions, Drop(s) PROVE AimInv'
  BY <1>1, <1>12 DEF Drop, server, threads, network
<1>13. CASE UNCHANGED vars
  BY <1>1, <1>13 DEF vars, server, conn, threads, network
<1>14. CASE Next
  BY <1>2, <1>3, <1>4, <1>5, <1>6, <1>7, <1>8, <1>9, <1>10, <1>11, <1>12, <1>14,
     ConnectAim, AskAim, ReceiveAim, RendezvousAssumption DEF Next
<1> QED
  BY <1>13, <1>14

\* A session sends to addresses of its own remote or of a device that asks for its own,
\* for any number of remotes and callers: answers of the server are the remote's, and
\* what leads elsewhere is only the event of another caller (engine.rs:325-350).
THEOREM AimsCorrect == Spec => []AimsAtRemoteOrCaller
<1>1. LockInv /\ AimInv /\ TypeOK => AimsAtRemoteOrCaller
  BY TargetAim DEF AimsAtRemoteOrCaller, AimInv, Owned, Aims
<1>2. Init => TypeOK /\ LockInv /\ AimInv /\ AskInv
  BY TypeInit, LockInit, AimInit
<1>3. TypeOK /\ LockInv /\ AimInv /\ AskInv /\ [Next]_vars => (TypeOK /\ LockInv /\ AimInv /\ AskInv)'
  BY TypeStep, LockStep, AimStep, AskStep
<1> QED
  BY <1>1, <1>2, <1>3, PTL DEF Spec
=============================================================================
