----------------------------- MODULE LinkProofs -----------------------------
(***************************************************************************)
(* Proofs about the link between devices, for any number of devices,       *)
(* sessions, setups and labels, whatever the network does: types, one      *)
(* session per peer, and that the channels and labels a session shows are  *)
(* those its peer has.                                                     *)
(***************************************************************************)
EXTENDS Link, SequenceTheorems, WellOrder

-----------------------------------------------------------------------------
(* Types, in parts *)

Packets == Handshakes \cup {Metadata(l) : l \in Layouts}
Shown   == {ParseMetadata(MetadataText(l)) : l \in Layouts} \cup {None}

SetupOK ==
  /\ tokens \in [Device -> Seq(Token)] /\ calls \in [Device -> SUBSET Token]
  /\ recv \in [Device -> BOOLEAN] /\ labels \in [Device -> Layouts]

SessionOK ==
  /\ connected \in [Device -> SUBSET Token] /\ established \in [Device -> SUBSET Token]
  /\ dead \in [Device -> SUBSET Token]
  /\ shown \in [Device -> [Token -> Shown]]

\* Besides its type: the demux binds an address to a session the device has, and only
\* sessions it has are connected, know an address or died.
OwnOK ==
  /\ bound \in [Device -> Token \cup {None}]
  /\ \A d \in Device : /\ bound[d] \in Sessions(d) \cup {None}
                       /\ connected[d] \cup established[d] \cup dead[d] \subseteq Sessions(d)

NetOK  == net \in [Device -> SUBSET Packets]
RestOK == uninformed \in [Device -> BOOLEAN] /\ changes \in 0..MaxChanges /\ settled \in BOOLEAN

TypeInv == SetupOK /\ SessionOK /\ OwnOK /\ NetOK /\ RestOK

LEMMA TypeParts == TypeInv => TypeOK
  BY DEF TypeInv, TypeOK, SetupOK, SessionOK, OwnOK, NetOK, RestOK, Packets, Shown

LEMMA Bounds == MaxChanges \in Nat /\ None \notin Token
  BY LinkAssumption DEF LinkAssumption

LEMMA PeerIsDevice == ASSUME NEW d \in Device PROVE Peer(d) \in Device \ {d} /\ Peer(Peer(d)) = d
  BY LinkAssumption DEF LinkAssumption

LEMMA SetupType ==
  ASSUME NEW d \in Device, NEW s \in Setups(d)
  PROVE  /\ s.tokens \in Seq(Token) /\ s.calls \subseteq Token /\ s.recv \in BOOLEAN
         /\ s.labels \in Layouts
  BY LinkAssumption DEF LinkAssumption, Layouts

LEMMA InitType == Init => TypeInv
<1> SUFFICES ASSUME Init PROVE TypeInv
    OBVIOUS
<1>1. PICK s \in [Device -> UNION {Setups(d) : d \in Device}] :
        /\ \A d \in Device : s[d] \in Setups(d)
        /\ tokens = [d \in Device |-> s[d].tokens] /\ calls = [d \in Device |-> s[d].calls]
        /\ recv = [d \in Device |-> s[d].recv] /\ labels = [d \in Device |-> s[d].labels]
  BY DEF Init
<1>2. \A d \in Device : /\ s[d].tokens \in Seq(Token) /\ s[d].calls \subseteq Token
                        /\ s[d].recv \in BOOLEAN /\ s[d].labels \in Layouts
  BY <1>1, SetupType
<1>3. SetupOK
  BY <1>1, <1>2 DEF SetupOK
<1>4. SessionOK /\ OwnOK /\ NetOK
  BY DEF Init, SessionOK, OwnOK, NetOK, Shown
<1>5. RestOK
  <2>1. 0 \in 0..MaxChanges
    BY Bounds
  <2> QED
    BY <2>1 DEF Init, RestOK
<1> QED
  BY <1>3, <1>4, <1>5 DEF TypeInv

LEMMA StartType == ASSUME TypeInv, NEW d \in Device, Start(d) PROVE TypeInv'
<1>1. PICK s \in Setups(d) :
        /\ tokens' = [tokens EXCEPT ![d] = s.tokens] /\ calls' = [calls EXCEPT ![d] = s.calls]
        /\ recv' = [recv EXCEPT ![d] = s.recv] /\ labels' = [labels EXCEPT ![d] = s.labels]
  BY DEF Start
<1>2. SetupOK'
  BY <1>1, SetupType DEF TypeInv, SetupOK
<1>3. SessionOK'
  BY DEF TypeInv, SessionOK, Shown, Start
<1>4. OwnOK'
  BY <1>1 DEF TypeInv, SetupOK, SessionOK, OwnOK, Sessions, Start
<1>5. NetOK'
  BY DEF TypeInv, NetOK, Start
<1>6. RestOK'
  <2>1. uninformed' \in [Device -> BOOLEAN]
    BY PeerIsDevice DEF TypeInv, RestOK, Start
  <2> QED
    BY <2>1, Bounds DEF TypeInv, RestOK, Start
<1> QED
  BY <1>2, <1>3, <1>4, <1>5, <1>6 DEF TypeInv

LEMMA UninformType ==
  ASSUME RestOK, NEW d \in Device, NEW m, Uninform(d, m)
  PROVE  uninformed' \in [Device -> BOOLEAN]
  BY PeerIsDevice DEF RestOK, Uninform

\* What a step of the receive thread leaves alone and where its packets go.
LEMMA DeliverType ==
  ASSUME TypeInv, NEW d \in Device, NEW m \in net[d], NEW replies \in SUBSET Packets,
         Deliver(d, m, replies)
  PROVE  /\ SetupOK' /\ NetOK' /\ bound' \in [Device -> Token \cup {None}]
         /\ changes' \in 0..MaxChanges /\ settled' \in BOOLEAN
         /\ \A e \in Device : Sessions(e)' = Sessions(e) /\ bound'[e] \in Sessions(e) \cup {None}
<1>1. Sessions(d) \subseteq Token
  BY DEF TypeInv, SetupOK, Sessions, Range
<1>2. Route(d, m) \in Sessions(d) \cup {None}
  BY DEF Route, TypeInv, OwnOK
<1>3. SetupOK' /\ \A e \in Device : Sessions(e)' = Sessions(e)
  BY DEF Deliver, TypeInv, SetupOK, setup, Sessions
<1>4. NetOK'
  BY PeerIsDevice DEF Deliver, TypeInv, NetOK
<1> QED
  BY <1>1, <1>2, <1>3, <1>4 DEF Deliver, TypeInv, OwnOK, RestOK
-----------------------------------------------------------------------------
(* Types: the steps *)

\* The token of a packet a receive thread has use for is that of its session.
LEMMA HandledToken ==
  ASSUME TypeInv, NEW d \in Device, NEW m, Handled(d, m)
  PROVE  /\ Route(d, m) \in Sessions(d) /\ Route(d, m) \in Token
         /\ m.kind # "metadata" => m.token = Route(d, m)
<1>1. Sessions(d) \subseteq Token
  BY DEF TypeInv, SetupOK, Sessions, Range
<1>2. Route(d, m) \in Sessions(d) \cup {None}
  BY DEF Route, TypeInv, OwnOK
<1> QED
  BY <1>1, <1>2 DEF Handled

LEMMA PacketTypes ==
  ASSUME TypeInv, NEW d \in Device
  PROVE  /\ \A t \in Token : /\ Bare("probe", t) \in Packets /\ Bare("accept", t) \in Packets
                             /\ Bare("confirm", t) \in Packets
         /\ Metadata(labels[d]) \in Packets
  BY DEF Packets, Handshakes, TypeInv, SetupOK

LEMMA ConnectType ==
  ASSUME TypeInv, NEW d \in Device, NEW t \in Token, t \in Sessions(d), Connect(d, t)
  PROVE  /\ SessionOK'
         /\ \A e \in Device :
              connected'[e] \cup established'[e] \cup dead'[e] \subseteq Sessions(e)
<1>1. connected' \in [Device -> SUBSET Token] /\ established' \in [Device -> SUBSET Token]
  BY DEF TypeInv, SessionOK, Connect
<1>2. \A e \in Device : /\ connected'[e] \subseteq connected[e] \cup (IF e = d THEN {t} ELSE {})
                        /\ established'[e] \subseteq established[e] \cup (IF e = d THEN {t} ELSE {})
  BY DEF TypeInv, SessionOK, Connect
<1>3. dead' = dead /\ shown' = shown
  BY DEF Connect
<1>4. SessionOK'
  BY <1>1, <1>3 DEF SessionOK, TypeInv
<1>5. \A e \in Device : connected[e] \cup established[e] \cup dead[e] \subseteq Sessions(e)
  BY DEF TypeInv, OwnOK
<1> QED
  BY <1>2, <1>3, <1>4, <1>5

LEMMA HandshakeType ==
  ASSUME TypeInv, NEW d \in Device, NEW m \in net[d],
         ReceiveProbe(d, m) \/ ReceiveAccept(d, m) \/ ReceiveConfirm(d, m)
  PROVE  TypeInv'
<1>0. m.kind # "metadata" /\ Handled(d, m) /\ Connect(d, m.token)
  BY DEF ReceiveProbe, ReceiveAccept, ReceiveConfirm
<1>1. m.token \in Token /\ m.token \in Sessions(d)
  BY <1>0, HandledToken
<1>2. /\ SessionOK'
      /\ \A e \in Device : connected'[e] \cup established'[e] \cup dead'[e] \subseteq Sessions(e)
  BY <1>0, <1>1, ConnectType
<1>3. PICK replies \in SUBSET Packets : Deliver(d, m, replies)
  BY <1>1, PacketTypes DEF ReceiveProbe, ReceiveAccept, ReceiveConfirm
<1>4. /\ SetupOK' /\ NetOK' /\ bound' \in [Device -> Token \cup {None}]
      /\ changes' \in 0..MaxChanges /\ settled' \in BOOLEAN
      /\ \A e \in Device : Sessions(e)' = Sessions(e) /\ bound'[e] \in Sessions(e) \cup {None}
  BY <1>3, DeliverType
<1>5. OwnOK'
  BY <1>2, <1>4 DEF OwnOK
<1>6. uninformed' \in [Device -> BOOLEAN]
  BY DEF ReceiveProbe, ReceiveAccept, ReceiveConfirm, TypeInv, RestOK
<1> QED
  BY <1>2, <1>4, <1>5, <1>6 DEF TypeInv, RestOK

\* What metadata says is in the types because a packet that says it was built from
\* some layout.
LEMMA MetadataShown ==
  ASSUME NEW m \in Packets, m.kind = "metadata"
  PROVE  ParseMetadata(m.text) \in Shown
<1>1. m \notin Handshakes
  BY DEF Handshakes, Bare
<1>2. PICK l \in Layouts : m = Metadata(l)
  BY <1>1 DEF Packets
<1> QED
  BY <1>2 DEF Metadata, Shown

LEMMA MetadataType ==
  ASSUME TypeInv, NEW d \in Device, NEW m \in net[d], ReceiveMetadata(d, m)
  PROVE  TypeInv'
<1> DEFINE t    == Route(d, m)
           meta == ParseMetadata(m.text)
           fits == meta.channels <= Len(labels[d])
<1>1. t \in Token /\ t \in Sessions(d)
  BY HandledToken DEF ReceiveMetadata
<1>2. m \in Packets /\ m.kind = "metadata"
  BY DEF ReceiveMetadata, TypeInv, NetOK
<1>3. meta \in Shown
  BY <1>2, MetadataShown
<1>4. /\ connected' = connected /\ established' = established
      /\ dead' = [dead EXCEPT ![d] = IF fits THEN @ ELSE @ \cup {t}]
      /\ shown' = [shown EXCEPT ![d][t] = IF fits THEN meta ELSE @]
      /\ uninformed' = [uninformed EXCEPT ![d] = ~fits \/ m # Metadata(labels[Peer(d)])]
  BY DEF ReceiveMetadata
<1> HIDE DEF t, meta, fits
<1>5. Deliver(d, m, {}) /\ {} \in SUBSET Packets
  BY DEF ReceiveMetadata
<1>6. /\ SetupOK' /\ NetOK' /\ bound' \in [Device -> Token \cup {None}]
      /\ changes' \in 0..MaxChanges /\ settled' \in BOOLEAN
      /\ \A e \in Device : Sessions(e)' = Sessions(e) /\ bound'[e] \in Sessions(e) \cup {None}
  BY <1>5, DeliverType
<1>7. shown' \in [Device -> [Token -> Shown]]
  BY <1>1, <1>3, <1>4 DEF TypeInv, SessionOK
<1>8. dead' \in [Device -> SUBSET Token]
  BY <1>1, <1>4 DEF TypeInv, SessionOK
<1>9. SessionOK'
  BY <1>4, <1>7, <1>8 DEF TypeInv, SessionOK
<1>10. \A e \in Device : dead'[e] \subseteq Sessions(e)
  BY <1>1, <1>4 DEF TypeInv, SessionOK, OwnOK
<1>11. OwnOK'
  BY <1>4, <1>6, <1>10 DEF TypeInv, OwnOK
<1>12. uninformed' \in [Device -> BOOLEAN]
  BY <1>4 DEF TypeInv, RestOK
<1> QED
  BY <1>6, <1>9, <1>11, <1>12 DEF TypeInv, RestOK

LEMMA DropType ==
  ASSUME TypeInv, NEW d \in Device, NEW m \in net[d], Drop(d, m)
  PROVE  TypeInv'
<1>1. Deliver(d, m, {}) /\ {} \in SUBSET Packets
  BY DEF Drop
<1>2. /\ SetupOK' /\ NetOK' /\ bound' \in [Device -> Token \cup {None}]
      /\ changes' \in 0..MaxChanges /\ settled' \in BOOLEAN
      /\ \A e \in Device : Sessions(e)' = Sessions(e) /\ bound'[e] \in Sessions(e) \cup {None}
  BY <1>1, DeliverType
<1>3. connected' = connected /\ established' = established /\ dead' = dead /\ shown' = shown
  BY DEF Drop, session
<1>4. uninformed' \in [Device -> BOOLEAN]
  BY UninformType DEF Drop, TypeInv
<1>5. SessionOK'
  BY <1>3 DEF TypeInv, SessionOK
<1>6. OwnOK'
  BY <1>2, <1>3 DEF TypeInv, OwnOK
<1> QED
  BY <1>2, <1>4, <1>5, <1>6 DEF TypeInv, RestOK

LEMMA LoseType ==
  ASSUME TypeInv, NEW d \in Device, NEW m \in net[d], Lose(d, m)
  PROVE  TypeInv'
<1>1. uninformed' \in [Device -> BOOLEAN]
  BY UninformType DEF Lose, TypeInv
<1>2. NetOK'
  BY DEF Lose, TypeInv, NetOK
<1> QED
  BY <1>1, <1>2 DEF Lose, TypeInv, SetupOK, SessionOK, OwnOK, RestOK, Sessions, setup, session

LEMMA ProbeType == ASSUME TypeInv, Probe PROVE TypeInv'
<1>1. \A d \in Device : Targets(d) \subseteq Token
  BY DEF Targets, TypeInv, SetupOK, Sessions, Range
<1>2. \A d \in Device : {Bare("probe", t) : t \in Targets(Peer(d))} \subseteq Packets
  BY <1>1, PeerIsDevice DEF Packets, Handshakes
<1>3. NetOK'
  BY <1>2 DEF Probe, NetOK
<1> QED
  BY <1>3 DEF Probe, TypeInv, SetupOK, SessionOK, OwnOK, RestOK, Sessions, setup, session

LEMMA StaleType ==
  ASSUME TypeInv, NEW d \in Device, NEW t \in Token, Stale(d, t)
  PROVE  TypeInv'
<1>1. /\ connected' \in [Device -> SUBSET Token] /\ established' \in [Device -> SUBSET Token]
      /\ \A e \in Device : /\ connected'[e] \subseteq connected[e]
                           /\ established'[e] \subseteq established[e]
  BY DEF Stale, TypeInv, SessionOK
<1>2. SessionOK' /\ OwnOK'
  BY <1>1 DEF Stale, TypeInv, SessionOK, OwnOK, Sessions, setup
<1> QED
  BY <1>2 DEF Stale, TypeInv, SetupOK, NetOK, RestOK, setup

LEMMA PostType ==
  ASSUME TypeInv, NEW d \in Device, NEW new \in NewLabels(d), PostLabels(d, new)
  PROVE  TypeInv'
<1>1. new \in Layouts
  BY DEF Layouts
<1>2. SetupOK'
  BY <1>1 DEF PostLabels, TypeInv, SetupOK
<1>3. NetOK'
  BY <1>1, PeerIsDevice DEF PostLabels, TypeInv, NetOK, Packets
<1>4. uninformed' \in [Device -> BOOLEAN]
  BY PeerIsDevice DEF PostLabels, TypeInv, RestOK
<1>5. RestOK'
  BY <1>4, Bounds DEF PostLabels, TypeInv, RestOK
<1> QED
  BY <1>2, <1>3, <1>5 DEF PostLabels, TypeInv, SessionOK, OwnOK, Sessions, session

LEMMA TypeStep == TypeInv /\ [Next]_vars => TypeInv'
<1> SUFFICES ASSUME TypeInv, [Next]_vars PROVE TypeInv'
    OBVIOUS
<1>1. CASE Settle
  BY <1>1 DEF Settle, TypeInv, SetupOK, SessionOK, OwnOK, NetOK, RestOK, Sessions, setup, session
<1>2. CASE Probe
  BY <1>2, ProbeType
<1>3. ASSUME NEW d \in Device, Start(d) PROVE TypeInv'
  BY <1>3, StartType
<1>4. ASSUME NEW d \in Device, NEW m \in net[d], Receive(d, m) PROVE TypeInv'
  BY <1>4, HandshakeType, MetadataType, DropType DEF Receive
<1>5. ASSUME NEW d \in Device, NEW m \in net[d], Lose(d, m) PROVE TypeInv'
  BY <1>5, LoseType
<1>6. ASSUME NEW d \in Device, NEW t \in Token, Stale(d, t) PROVE TypeInv'
  BY <1>6, StaleType
<1>7. ASSUME NEW d \in Device, NEW new \in NewLabels(d), PostLabels(d, new) PROVE TypeInv'
  BY <1>7, PostType
<1>8. CASE UNCHANGED vars
  BY <1>8 DEF vars, TypeInv, SetupOK, SessionOK, OwnOK, NetOK, RestOK, Sessions, setup, session
<1> QED
  BY <1>1, <1>2, <1>3, <1>4, <1>5, <1>6, <1>7, <1>8 DEF Next

LEMMA TypeAlways == Spec => []TypeInv
  BY InitType, TypeStep, PTL DEF Spec

\* The state has its type, whatever is lost, restarted or edited: in particular a
\* device only has sessions of its own connected.
THEOREM TypeCorrect == Spec => []TypeOK
  BY TypeAlways, TypeParts, PTL

-----------------------------------------------------------------------------
(* One session per peer *)

\* The demux never takes an address from a session.
LEMMA RouteKeeps ==
  ASSUME TypeInv, OneSessionPerPeer, NEW d \in Device, NEW m, NEW replies, Deliver(d, m, replies)
  PROVE  /\ connected[d] \subseteq {bound'[d]} /\ bound'[d] = Route(d, m)
         /\ \A e \in Device \ {d} : bound'[e] = bound[e]
<1>1. bound'[d] = Route(d, m) /\ \A e \in Device \ {d} : bound'[e] = bound[e]
  BY DEF Deliver, TypeInv, OwnOK
<1>2. CASE bound[d] = None
  <2>1. connected[d] = {}
    BY <1>2, Bounds DEF OneSessionPerPeer, TypeInv, SessionOK
  <2> QED
    BY <1>1, <2>1
<1>3. CASE bound[d] # None
  BY <1>1, <1>3 DEF OneSessionPerPeer, Route
<1> QED
  BY <1>1, <1>2, <1>3

LEMMA OneHandshake ==
  ASSUME TypeInv, OneSessionPerPeer, NEW d \in Device, NEW m \in net[d],
         ReceiveProbe(d, m) \/ ReceiveAccept(d, m) \/ ReceiveConfirm(d, m)
  PROVE  OneSessionPerPeer'
<1>0. m.kind # "metadata" /\ Handled(d, m) /\ Connect(d, m.token)
  BY DEF ReceiveProbe, ReceiveAccept, ReceiveConfirm
<1>1. m.token \in Token /\ m.token = Route(d, m)
  BY <1>0, HandledToken
<1>2. PICK replies : Deliver(d, m, replies)
  BY DEF ReceiveProbe, ReceiveAccept, ReceiveConfirm
<1>3. /\ connected[d] \subseteq {bound'[d]} /\ bound'[d] = m.token
      /\ \A e \in Device \ {d} : bound'[e] = bound[e]
  BY <1>1, <1>2, RouteKeeps
<1>4. calls' = calls
  BY <1>2 DEF Deliver, setup
<1>5. /\ connected'[d] = connected[d] \cup {m.token}
      /\ established'[d] = IF m.token \in calls[d] THEN established[d]
                           ELSE established[d] \cup {m.token}
      /\ \A e \in Device \ {d} : connected'[e] = connected[e] /\ established'[e] = established[e]
  BY <1>0 DEF Connect, TypeInv, SessionOK
<1> QED
  BY <1>3, <1>4, <1>5 DEF OneSessionPerPeer

LEMMA OneStale ==
  ASSUME TypeInv, OneSessionPerPeer, NEW d \in Device, NEW t \in Token, Stale(d, t)
  PROVE  OneSessionPerPeer'
<1>1. /\ connected'[d] = connected[d] \ {t}
      /\ established[d] \ {t} \subseteq established'[d]
      /\ \A e \in Device \ {d} : connected'[e] = connected[e] /\ established'[e] = established[e]
  BY DEF Stale, TypeInv, SessionOK
<1>2. bound' = bound /\ calls' = calls
  BY DEF Stale, setup
<1> QED
  BY <1>1, <1>2 DEF OneSessionPerPeer

LEMMA OneStart ==
  ASSUME TypeInv, OneSessionPerPeer, NEW d \in Device, Start(d)
  PROVE  OneSessionPerPeer'
<1>1. PICK s \in Setups(d) : calls' = [calls EXCEPT ![d] = s.calls]
  BY DEF Start
<1>2. connected'[d] = {} /\ \A e \in Device \ {d} :
        /\ connected'[e] = connected[e] /\ established'[e] = established[e]
        /\ bound'[e] = bound[e] /\ calls'[e] = calls[e]
  BY <1>1 DEF Start, TypeInv, SetupOK, SessionOK, OwnOK
<1> QED
  BY <1>2 DEF OneSessionPerPeer

LEMMA OneStep == TypeInv /\ OneSessionPerPeer /\ [Next]_vars => OneSessionPerPeer'
<1> SUFFICES ASSUME TypeInv, OneSessionPerPeer, [Next]_vars PROVE OneSessionPerPeer'
    OBVIOUS
<1>1. CASE Settle \/ Probe \/ UNCHANGED vars
  BY <1>1 DEF Settle, Probe, vars, setup, session, OneSessionPerPeer
<1>2. ASSUME NEW d \in Device, Start(d) PROVE OneSessionPerPeer'
  BY <1>2, OneStart
<1>3. ASSUME NEW d \in Device, NEW m \in net[d], ReceiveMetadata(d, m) \/ Drop(d, m)
      PROVE  OneSessionPerPeer'
  <2>1. Deliver(d, m, {}) /\ connected' = connected /\ established' = established
    BY <1>3 DEF ReceiveMetadata, Drop, session
  <2>2. calls' = calls
    BY <2>1 DEF Deliver, setup
  <2> QED
    BY <2>1, <2>2, RouteKeeps DEF OneSessionPerPeer
<1>4. ASSUME NEW d \in Device, NEW m \in net[d], Receive(d, m) PROVE OneSessionPerPeer'
  BY <1>3, <1>4, OneHandshake DEF Receive
<1>5. ASSUME NEW d \in Device, NEW m \in net[d], Lose(d, m) PROVE OneSessionPerPeer'
  BY <1>5 DEF Lose, setup, session, OneSessionPerPeer
<1>6. ASSUME NEW d \in Device, NEW t \in Token, Stale(d, t) PROVE OneSessionPerPeer'
  BY <1>6, OneStale
<1>7. ASSUME NEW d \in Device, NEW new \in NewLabels(d), PostLabels(d, new)
      PROVE  OneSessionPerPeer'
  BY <1>7 DEF PostLabels, session, OneSessionPerPeer
<1> QED
  BY <1>1, <1>2, <1>4, <1>5, <1>6, <1>7 DEF Next

\* Of the sessions a device has with one peer only the one its demux gave the address
\* to is ever connected, and a connected responder knows where to send.
THEOREM OneSession == Spec => []OneSessionPerPeer
<1>1. Init => OneSessionPerPeer
  BY DEF Init, OneSessionPerPeer
<1> QED
  BY <1>1, TypeAlways, OneStep, PTL DEF Spec

-----------------------------------------------------------------------------
(* Labels through the text of a metadata packet *)

LEMMA Lists ==
  ASSUME NEW S, NEW s \in Seq(S)
  PROVE  /\ Len(s) \in Nat /\ DOMAIN s = 1..Len(s) /\ s = [i \in 1..Len(s) |-> s[i]]
         /\ \A i \in 1..Len(s) : s[i] \in S
  BY LenProperties, ElementOfSeq

\* The first n elements of a list, one at a time.
LEMMA NextPrefix ==
  ASSUME NEW S, NEW s \in Seq(S), NEW n \in 1..Len(s)
  PROVE  SubSeq(s, 1, n) = SubSeq(s, 1, n - 1) \o <<s[n]>>
  OBVIOUS

LEMMA OneMore ==
  ASSUME NEW S, NEW s \in Seq(S), NEW n \in 1..Len(s)
  PROVE  SubSeq(s, 1, n) = Append(SubSeq(s, 1, n - 1), s[n])
  OBVIOUS

LEMMA CutAt ==
  ASSUME NEW S, NEW s \in Seq(S), NEW n \in 0..Len(s)
  PROVE  /\ SubSeq(s, 1, n) = [i \in 1..n |-> s[i]]
         /\ Len(SubSeq(s, 1, n)) = n
  OBVIOUS

LEMMA WholeList ==
  ASSUME NEW S, NEW s \in Seq(S)
  PROVE  SubSeq(s, 1, Len(s)) = s /\ SubSeq(s, 1, 0) = << >>
  OBVIOUS

LEMMA FlatSingles ==
  ASSUME NEW S, NEW label \in Seq(S)
  PROVE  FlattenSeq([i \in DOMAIN label |-> <<label[i]>>]) = label
<1> DEFINE n       == Len(label)
           single  == [i \in 1..n |-> <<label[i]>>]
           Is(f)   == f = [i \in 1..n |-> IF i = 1 THEN single[i] ELSE f[i - 1] \o single[i]]
           flatten == CHOOSE f : Is(f)
<1>1. n \in Nat /\ DOMAIN label = 1..n
  BY Lists
<1>2. Len(single) = n
  BY <1>1
<1>3. FlattenSeq([i \in DOMAIN label |-> <<label[i]>>]) = FlattenSeq(single)
  BY <1>1
<1>4. CASE n = 0
  <2>1. FlattenSeq(single) = single
    BY <1>2, <1>4 DEF FlattenSeq
  <2>2. label = << >> /\ single = << >>
    BY <1>1, <1>4, Lists
  <2> QED BY <1>3, <2>1, <2>2
<1>5. CASE n # 0
  <2> DEFINE whole == [i \in 1..n |-> SubSeq(label, 1, i)]
  <2>1. Is(whole)
    <3>1. ASSUME NEW i \in 1..n
          PROVE  SubSeq(label, 1, i) = IF i = 1 THEN single[i] ELSE whole[i - 1] \o single[i]
      <4>1. SubSeq(label, 1, i) = SubSeq(label, 1, i - 1) \o <<label[i]>>
        <5>1. i \in 1..Len(label)
          OBVIOUS
        <5> QED BY <5>1, NextPrefix, Zenon
      <4>2. CASE i = 1
        <5>1. SubSeq(label, 1, 1) = <<label[1]>>
          <6>1. SubSeq(label, 1, 1) = SubSeq(label, 1, 0) \o <<label[1]>>
            BY <4>2, NextPrefix
          <6>2. label[1] \in S /\ SubSeq(label, 1, 0) = << >>
            BY <4>2, Lists, WholeList
          <6>3. << >> \o <<label[1]>> = <<label[1]>>
            BY <6>2
          <6> QED BY <6>1, <6>2, <6>3
        <5> QED BY <4>2, <5>1
      <4>3. CASE i # 1
        BY <4>1, <4>3
      <4> QED BY <4>2, <4>3
    <3> QED BY <3>1
  <2>2. Is(flatten)
    <3> HIDE DEF Is
    <3> QED BY <2>1
  <2> DEFINE Bad == {i \in 1..n : flatten[i] # whole[i]}
  <2>3. ASSUME Bad # {} PROVE FALSE
    <3>1. Bad \subseteq Nat
      OBVIOUS
    <3>2. PICK i \in Bad : \A k \in Bad : i <= k
      BY <2>3, <3>1, LeastNumber
    <3>3. i \in 1..n /\ flatten[i] # whole[i]
      OBVIOUS
    <3>4. flatten[i] = IF i = 1 THEN single[i] ELSE flatten[i - 1] \o single[i]
      <4> HIDE DEF flatten
      <4> QED BY <2>2, <3>3
    <3>5. whole[i] = IF i = 1 THEN single[i] ELSE whole[i - 1] \o single[i]
      <4> HIDE DEF whole
      <4> QED BY <2>1, <3>3
    <3>6. i # 1 => flatten[i - 1] = whole[i - 1]
      <4> HIDE DEF flatten, whole
      <4> QED BY <1>1, <3>2, <3>3
    <3> HIDE DEF flatten, whole, single
    <3> QED BY <3>3, <3>4, <3>5, <3>6
  <2>4. n \in 1..n /\ flatten[n] = whole[n]
    <3>1. n \in 1..n
      BY <1>1, <1>5
    <3> HIDE DEF flatten, whole
    <3> QED BY <2>3, <3>1
  <2>5. FlattenSeq(single) = flatten[n]
    BY <1>2, <1>5 DEF FlattenSeq
  <2>6. whole[n] = label
    BY <2>4, WholeList
  <2> QED BY <1>3, <2>4, <2>5, <2>6
<1> QED
  BY <1>4, <1>5

\* A label that needs no escape is written as it is.
LEMMA PlainEscaped ==
  ASSUME NEW label, Plain(label), NEW S, label \in Seq(S)
  PROVE  Escaped(label) = label
<1>1. [i \in DOMAIN label |-> IF label[i] \in {"\"", "\\"} THEN <<"\\", label[i]>>
                              ELSE <<label[i]>>]
        = [i \in DOMAIN label |-> <<label[i]>>]
  BY DEF Plain
<1> QED
  BY <1>1, FlatSingles DEF Escaped

\* Before cuts at the first of the characters, where it stands.
LEMMA BeforeFirst ==
  ASSUME NEW text, NEW cs, NEW k \in Nat, NEW n \in Nat, DOMAIN text = 1..n, Len(text) = n,
         k \in 1..n, text[k] \in cs, \A i \in 1..(k - 1) : text[i] \notin cs
  PROVE  Before(text, cs) = SubSeq(text, 1, k - 1)
<1> DEFINE At == {i \in DOMAIN text : text[i] \in cs} \cup {Len(text) + 1}
<1>1. k \in At /\ \A i \in At : k <= i /\ i \in Nat
  OBVIOUS
<1> HIDE DEF At
<1>2. Min(At) = k
  <2>1. \A i \in At : (\A m \in At : i <= m) => i = k
    BY <1>1
  <2>2. Min(At) \in At /\ \A m \in At : Min(At) <= m
    BY <1>1 DEF Min
  <2> QED BY <2>1, <2>2
<1> QED
  BY <1>2 DEF Before, At

\* What is read of the entry of such a label, which ends with a quote and a brace.
LEMMA EntryRead ==
  ASSUME NEW S, NEW label \in Seq(S), NEW quote, NEW brace, NEW braces,
         brace \in braces, quote \notin braces,
         \A i \in DOMAIN label : label[i] \notin braces /\ label[i] # quote,
         NEW entry, entry = Before(label \o <<quote, brace>>, braces)
  PROVE  Contains(entry, quote) /\ Before(entry, {quote}) = label
<1> DEFINE text == label \o <<quote, brace>>
           n    == Len(label)
<1>1. n \in Nat /\ DOMAIN label = 1..n
  BY Lists
<1>2. /\ Len(text) = n + 2 /\ DOMAIN text = 1..(n + 2)
      /\ \A i \in 1..n : text[i] = label[i]
      /\ text[n + 1] = quote /\ text[n + 2] = brace
  OBVIOUS
<1> DEFINE T == S \cup {quote, brace}
<1>3. text \in Seq(T)
  <2>1. label \in Seq(T)
    BY SeqDef
  <2>2. <<quote, brace>> \in Seq(T)
    OBVIOUS
  <2> HIDE DEF T
  <2> QED BY <2>1, <2>2
<1> HIDE DEF text, n, T
<1>4. entry = SubSeq(text, 1, n + 1)
  <2>1. \A i \in 1..(n + 1) : text[i] \notin braces
    <3>1. \A i \in 1..(n + 1) : i \in 1..n \/ i = n + 1
      BY <1>1
    <3> QED BY <1>1, <1>2, <3>1
  <2>2. /\ n + 2 \in Nat /\ n + 2 \in 1..(n + 2) /\ (n + 2) - 1 = n + 1
        /\ text[n + 2] \in braces
    BY <1>1, <1>2
  <2>3. Before(text, braces) = SubSeq(text, 1, (n + 2) - 1)
    BY <1>2, <2>1, <2>2, BeforeFirst
  <2> QED BY <2>2, <2>3 DEF text
<1>5. entry = [i \in 1..(n + 1) |-> text[i]] /\ Len(entry) = n + 1
  <2>1. n + 1 \in 0..Len(text)
    BY <1>1, <1>2
  <2> QED BY <1>3, <1>4, <2>1, CutAt
<1>6. /\ Len(entry) = n + 1 /\ DOMAIN entry = 1..(n + 1)
      /\ \A i \in 1..(n + 1) : entry[i] = text[i]
  BY <1>1, <1>5
<1>7. Contains(entry, quote)
  BY <1>1, <1>2, <1>6 DEF Contains
<1>8. Before(entry, {quote}) = SubSeq(entry, 1, n)
  <2>1. \A i \in 1..n : entry[i] # quote
    BY <1>1, <1>2, <1>6
  <2>2. n + 1 \in Nat /\ n + 1 \in 1..(n + 1) /\ (n + 1) - 1 = n /\ entry[n + 1] = quote
    BY <1>1, <1>2, <1>6
  <2>3. Before(entry, {quote}) = SubSeq(entry, 1, (n + 1) - 1)
    BY <1>6, <2>1, <2>2, BeforeFirst
  <2> QED BY <2>2, <2>3
<1>9. SubSeq(entry, 1, n) = [i \in 1..n |-> entry[i]]
  BY <1>1, <1>5
<1>10. label = [i \in 1..n |-> label[i]]
  BY Lists DEF n
<1>11. [i \in 1..n |-> entry[i]] = [i \in 1..n |-> label[i]]
  <2>1. ASSUME NEW i \in 1..n PROVE entry[i] = label[i]
    <3>1. i \in 1..(n + 1)
      BY <1>1
    <3> QED BY <1>2, <1>6, <3>1
  <2> QED BY <2>1
<1> QED
  BY <1>7, <1>8, <1>9, <1>10, <1>11

\* Labels that need no escape arrive as they were sent: writer and reader are each
\* other's inverse on them.
LEMMA PlainSurvives ==
  ASSUME NEW layout, IsLayout(layout), \A ch \in DOMAIN layout : Plain(layout[ch])
  PROVE  ParseMetadata(MetadataText(layout)).labels = layout
<1>1. PICK n \in 1..MaxChannels : layout \in [1..n -> Seq(STRING)]
  BY DEF IsLayout
<1>2. n \in Nat /\ n > 0
  BY <1>1, Bounds, WireAssumption DEF WireAssumption
<1> DEFINE text     == MetadataText(layout)
           entry    == [i \in DOMAIN text |-> Before(text[i].l, {"{", "}"})]
           Step(f, i) == IF i = 0 THEN << >>
                         ELSE IF Contains(entry[i], "\"")
                              THEN Append(f[i - 1], Before(entry[i], {"\""})) ELSE f[i - 1]
           Is(f)    == f = [i \in 0..Len(text) |-> Step(f, i)]
           pushed   == CHOOSE f : Is(f)
           whole    == [i \in 0..n |-> SubSeq(layout, 1, i)]
<1>3. /\ DOMAIN text = 1..n /\ Len(text) = n /\ DOMAIN layout = 1..n /\ Len(layout) = n
      /\ layout \in Seq(Seq(STRING))
      /\ \A i \in 1..n : text[i].l = Escaped(layout[i]) \o <<"\"", "}">>
  <2>1. text = [i \in 1..n |-> [c |-> i, l |-> Escaped(layout[i]) \o <<"\"", "}">>]]
    BY <1>1 DEF MetadataText
  <2> DEFINE end == <<"\"", "}">>
  <2>2. DOMAIN text = 1..n /\ \A i \in 1..n : text[i].l = Escaped(layout[i]) \o end
    <3>1. PICK chars : chars = [i \in 1..n |-> Escaped(layout[i]) \o end]
      OBVIOUS
    <3>2. text = [i \in 1..n |-> [c |-> i, l |-> chars[i]]]
      BY <2>1, <3>1
    <3> HIDE DEF end, text
    <3>3. DOMAIN text = 1..n /\ \A i \in 1..n : text[i].l = chars[i]
      BY <3>2
    <3> QED BY <3>1, <3>3
  <2> HIDE DEF text
  <2>3. Len(text) = n
    <3>1. text = [i \in 1..n |-> text[i]]
      BY <2>1
    <3> QED BY <1>2, <3>1
  <2>4. DOMAIN layout = 1..n /\ Len(layout) = n /\ layout \in Seq(Seq(STRING))
    BY <1>1, <1>2, SeqDef
  <2> QED BY <2>2, <2>3, <2>4
<1>4. ParseMetadata(text).labels = pushed[Len(text)]
  BY DEF ParseMetadata
<1>5. ASSUME NEW i \in 1..n
      PROVE  Contains(entry[i], "\"") /\ Before(entry[i], {"\""}) = layout[i]
  <2>1. layout[i] \in Seq(STRING) /\ Plain(layout[i])
    BY <1>1
  <2>2. text[i].l = layout[i] \o <<"\"", "}">>
    BY <1>3, <2>1, PlainEscaped
  <2>3. entry[i] = Before(layout[i] \o <<"\"", "}">>, {"{", "}"})
    BY <1>3, <2>2
  <2>4. \A m \in DOMAIN layout[i] : layout[i][m] \notin {"{", "}"} /\ layout[i][m] # "\""
    BY <2>1 DEF Plain
  <2>5. "\"" \notin {"{", "}"}
    OBVIOUS
  <2>6. "}" \in {"{", "}"}
    OBVIOUS
  <2>7. PICK quote, brace, braces : quote = "\"" /\ brace = "}" /\ braces = {"{", "}"}
    OBVIOUS
  <2>8. PICK label : label = layout[i]
    OBVIOUS
  <2>9. PICK read : read = entry[i]
    OBVIOUS
  <2>10. PICK chars : label \in Seq(chars)
    BY <2>1, <2>8
  <2>11. \A m \in DOMAIN label : label[m] \notin braces /\ label[m] # quote
    BY <2>1, <2>4, <2>7, <2>8
  <2>12. brace \in braces /\ quote \notin braces
    BY <2>5, <2>6, <2>7
  <2>13. read = Before(label \o <<quote, brace>>, braces)
    BY <2>3, <2>7, <2>8, <2>9
  <2>14. Contains(read, quote) /\ Before(read, {quote}) = label
    BY <2>11, <2>12, <2>13, <2>10, EntryRead, SMTT(30)
  <2> HIDE DEF entry
  <2> QED BY <2>7, <2>8, <2>9, <2>14
<1> HIDE DEF text, entry
<1>6. Is(whole)
  <2>1. ASSUME NEW i \in 0..n PROVE SubSeq(layout, 1, i) = Step(whole, i)
    <3>1. CASE i = 0
      BY <1>3, <3>1, WholeList
    <3>2. CASE i # 0
      <4>1. i \in 1..n /\ i - 1 \in 0..n
        BY <1>2, <3>2
      <4>2. SubSeq(layout, 1, i) = Append(SubSeq(layout, 1, i - 1), layout[i])
        <5> DEFINE Labels == Seq(STRING)
        <5>1. layout \in Seq(Labels) /\ i \in 1..Len(layout)
          BY <1>3, <4>1
        <5> HIDE DEF Labels
        <5> QED BY <5>1, OneMore, Zenon
      <4> QED BY <1>5, <3>2, <4>1, <4>2
    <3> QED BY <3>1, <3>2
  <2> HIDE DEF Step
  <2> QED BY <1>3, <2>1
<1>7. Is(pushed)
  <2> HIDE DEF Is
  <2> QED BY <1>6
<1> DEFINE Bad == {i \in 0..n : pushed[i] # whole[i]}
<1>8. ASSUME Bad # {} PROVE FALSE
  <2>1. Bad \subseteq Nat
    <3> HIDE DEF pushed, whole
    <3> QED BY <1>2
  <2>2. PICK i \in Bad : \A k \in Bad : i <= k
    BY <1>8, <2>1, LeastNumber
  <2>3. i \in 0..n /\ pushed[i] # whole[i]
    OBVIOUS
  <2>4. pushed[i] = Step(pushed, i)
    <3> HIDE DEF pushed, Step
    <3> QED BY <1>3, <1>7, <2>3
  <2>5. whole[i] = Step(whole, i)
    <3> HIDE DEF whole, Step
    <3> QED BY <1>3, <1>6, <2>3
  <2>6. i # 0 => pushed[i - 1] = whole[i - 1]
    <3> HIDE DEF pushed, whole
    <3> QED BY <1>2, <2>2, <2>3
  <2>7. Step(pushed, i) = Step(whole, i)
    <3> HIDE DEF pushed, whole
    <3> QED BY <2>6
  <2> HIDE DEF pushed, whole, Step
  <2> QED BY <2>3, <2>4, <2>5, <2>7
<1>9. pushed[n] = whole[n]
  <2>1. n \in 0..n
    BY <1>2
  <2> HIDE DEF pushed, whole
  <2> QED BY <1>8, <2>1
<1>10. whole[n] = layout
  <2>1. whole[n] = SubSeq(layout, 1, n)
    BY <1>2
  <2> DEFINE Labels == Seq(STRING)
  <2>2. layout \in Seq(Labels)
    BY <1>3
  <2> HIDE DEF Labels, whole
  <2> QED BY <1>3, <2>1, <2>2, WholeList
<1> QED
  BY <1>3, <1>4, <1>9, <1>10 DEF text

-----------------------------------------------------------------------------
(* What is shown of the other device *)

\* The count that comes out of a metadata packet is the number of labels that went
\* in, whatever is in the labels.
LEMMA CountSurvives ==
  ASSUME NEW l, IsLayout(l)
  PROVE  ParseMetadata(MetadataText(l)).channels = Len(l)
<1>1. PICK n \in 1..MaxChannels : l \in [1..n -> Seq(STRING)]
  BY DEF IsLayout
<1>2. n \in Nat /\ n > 0 /\ n <= MaxChannels /\ MaxChannels \in Nat
  BY Bounds, <1>1, WireAssumption DEF WireAssumption
<1>3. Len(l) = n
  BY <1>1, <1>2
<1> DEFINE text == MetadataText(l)
<1>4. DOMAIN text = 1..n /\ \A i \in 1..n : text[i].c = i
  BY <1>1 DEF MetadataText
<1>5. ParseMetadata(text).channels
        = Min({Max({text[i].c : i \in DOMAIN text} \cup {0}), MaxChannels})
  BY DEF ParseMetadata
<1> HIDE DEF text
<1>6. {text[i].c : i \in DOMAIN text} \cup {0} = 0..n
  BY <1>2, <1>4
<1>7. Max(0..n) = n
  BY <1>2 DEF Max
<1>8. Min({n, MaxChannels}) = n
  BY <1>2 DEF Min
<1> QED
  BY <1>3, <1>5, <1>6, <1>7, <1>8 DEF text

LEMMA LayoutsFit == \A l \in Layouts : IsLayout(l)
  BY LinkAssumption DEF LinkAssumption, Layouts

\* What session t of device d should show, and what brings it there if it does not.
Right(d)      == ParseMetadata(MetadataText(labels[Peer(d)]))
Covered(d, t) == \/ Bare("accept", t) \in net[Peer(d)]
                 \/ Metadata(labels[Peer(d)]) \in net[d]
                 \/ shown[d][t] = Right(d)

\* Session t is, or may become, connected without a new exchange of metadata: one of
\* the devices has it connected, or a reply to its probe is under way.
InUse(d, t) ==
  LET p == Peer(d)
  IN  \/ t \in connected[d] \cup connected[p]
      \/ Bare("accept", t) \in net[d] \cup net[p]
      \/ Bare("confirm", t) \in net[d] \cup net[p]

Fresh(d) ==
  ~uninformed[d] =>
    \A t \in Token : bound[d] \in {None, t} /\ InUse(d, t) => Covered(d, t)

FreshInv == TypeInv /\ OneSessionPerPeer /\ \A d \in Device : Fresh(d)

\* A step that brings no session into use and takes nothing away that covers it.
LEMMA FreshKept ==
  ASSUME NEW d \in Device, Fresh(d),
         uninformed[d] => uninformed'[d],
         labels'[Peer(d)] = labels[Peer(d)], shown'[d] = shown[d],
         bound[d] \in {None, bound'[d]},
         \A t \in Token : InUse(d, t)' => InUse(d, t),
         \A t \in Token : Bare("accept", t) \in net[Peer(d)] => Bare("accept", t) \in net'[Peer(d)],
         Metadata(labels[Peer(d)]) \in net[d] => Metadata(labels[Peer(d)]) \in net'[d]
  PROVE  Fresh(d)'
  BY DEF Fresh, Covered, Right

\* Kinds tell packets apart.
LEMMA Kinds ==
  /\ \A t, l : Metadata(l).kind = "metadata" /\ Bare("probe", t).kind = "probe"
               /\ Bare("accept", t).kind = "accept" /\ Bare("confirm", t).kind = "confirm"
  /\ \A k, t : Bare(k, t).token = t
  BY DEF Bare, Metadata

LEMMA FreshProbed ==
  ASSUME FreshInv, NEW d \in Device, NEW m \in net[d], ReceiveProbe(d, m), NEW e \in Device
  PROVE  Fresh(e)'
<1> DEFINE p == Peer(d)
           t == m.token
           replies == IF t \in connected[d] THEN {Bare("confirm", t)}
                      ELSE {Bare("accept", t), Bare("confirm", t), Metadata(labels[d])}
<1>1. p \in Device /\ p # d /\ Peer(p) = d
  BY PeerIsDevice
<1>2. m.kind = "probe" /\ Handled(d, m) /\ Connect(d, t) /\ Deliver(d, m, replies)
  BY DEF ReceiveProbe
<1>3. uninformed' = IF t \in connected[d] THEN uninformed ELSE [uninformed EXCEPT ![d] = FALSE]
  BY DEF ReceiveProbe
<1>4. t \in Token /\ t = Route(d, m)
  BY <1>2, HandledToken DEF FreshInv
<1>5. bound[d] \in {None, t} /\ bound'[d] = t /\ \A x \in Device \ {d} : bound'[x] = bound[x]
  BY <1>2, <1>4, RouteKeeps DEF FreshInv, Route
<1>6. /\ net'[d] = net[d] \ {m} /\ net'[p] = net[p] \cup replies
      /\ \A x \in Device \ {d, p} : net'[x] = net[x]
  BY <1>1, <1>2 DEF Deliver, FreshInv, TypeInv, NetOK
<1>7. labels' = labels /\ shown' = shown
  BY <1>2 DEF Deliver, setup, Connect
<1>8. /\ connected'[d] = connected[d] \cup {t}
      /\ \A x \in Device \ {d} : connected'[x] = connected[x]
  BY <1>2 DEF Connect, FreshInv, TypeInv, SessionOK
<1> HIDE DEF p, t, replies
<1>9. \A u : Bare("accept", u) # m /\ Bare("confirm", u) # m
  BY <1>2, Kinds
<1>10. \A l : Metadata(l) # m
  BY <1>2, Kinds
<1>11. CASE t \in connected[d]
  <2>1. replies = {Bare("confirm", t)} /\ uninformed' = uninformed /\ connected'[d] = connected[d]
    BY <1>3, <1>8, <1>11 DEF replies
  <2>2. \A u \in Token : InUse(e, u)' => InUse(e, u)
    BY <1>1, <1>6, <1>8, <1>11, <2>1, PeerIsDevice, Kinds DEF InUse, p
  <2>3. /\ \A u \in Token : Bare("accept", u) \in net[Peer(e)] => Bare("accept", u) \in net'[Peer(e)]
        /\ Metadata(labels[Peer(e)]) \in net[e] => Metadata(labels[Peer(e)]) \in net'[e]
    BY <1>1, <1>6, <1>9, <1>10, PeerIsDevice
  <2>4. bound[e] \in {None, bound'[e]}
    BY <1>5
  <2> QED
    BY <1>7, <2>1, <2>2, <2>3, <2>4, FreshKept DEF FreshInv
<1>12. CASE t \notin connected[d]
  <2>1. replies = {Bare("accept", t), Bare("confirm", t), Metadata(labels[d])}
    BY <1>12 DEF replies
  <2>2. CASE e = d
    BY <1>4, <1>5, <1>6, <2>1, <2>2, Bounds DEF Fresh, Covered, p
  <2>3. CASE e = p
    BY <1>1, <1>6, <1>7, <2>1, <2>3 DEF Fresh, Covered
  <2>4. CASE e \notin {d, p}
    <3>1. Peer(e) \in Device \ {d, p}
      BY <1>1, <2>4, PeerIsDevice DEF p
    <3>2. \A u \in Token : InUse(e, u)' => InUse(e, u)
      BY <1>6, <1>8, <2>4, <3>1 DEF InUse
    <3>3. uninformed'[e] = uninformed[e]
      BY <1>3, <2>4 DEF FreshInv, TypeInv, RestOK
    <3> QED
      BY <1>5, <1>6, <1>7, <2>4, <3>1, <3>2, <3>3, FreshKept DEF FreshInv
  <2> QED
    BY <2>2, <2>3, <2>4
<1> QED
  BY <1>11, <1>12

LEMMA FreshAccepted ==
  ASSUME FreshInv, NEW d \in Device, NEW m \in net[d],
         ReceiveAccept(d, m) \/ ReceiveConfirm(d, m), NEW e \in Device
  PROVE  Fresh(e)'
<1> DEFINE p == Peer(d)
           t == m.token
           replies == IF m.kind = "accept" THEN {Bare("confirm", t), Metadata(labels[d])} ELSE {}
<1>1. p \in Device /\ p # d /\ Peer(p) = d
  BY PeerIsDevice
<1>2. /\ m.kind \in {"accept", "confirm"} /\ Handled(d, m) /\ Connect(d, t)
      /\ Deliver(d, m, replies) /\ uninformed' = uninformed
  BY DEF ReceiveAccept, ReceiveConfirm
<1>3. m \in Packets
  BY DEF FreshInv, TypeInv, NetOK
<1>4. m \in {Bare("accept", t), Bare("confirm", t)}
  BY <1>2, <1>3 DEF Packets, Handshakes, Metadata, Bare
<1>5. t \in Token /\ t = Route(d, m)
  BY <1>2, HandledToken DEF FreshInv
<1>6. bound[d] \in {None, t} /\ bound'[d] = t /\ \A x \in Device \ {d} : bound'[x] = bound[x]
  BY <1>2, <1>5, RouteKeeps DEF FreshInv, Route
<1>7. /\ net'[d] = net[d] \ {m} /\ net'[p] = net[p] \cup replies
      /\ \A x \in Device \ {d, p} : net'[x] = net[x]
  BY <1>1, <1>2 DEF Deliver, FreshInv, TypeInv, NetOK
<1>8. labels' = labels /\ shown' = shown
  BY <1>2 DEF Deliver, setup, Connect
<1>9. /\ connected'[d] = connected[d] \cup {t}
      /\ \A x \in Device \ {d} : connected'[x] = connected[x]
  BY <1>2 DEF Connect, FreshInv, TypeInv, SessionOK
<1> HIDE DEF p, t
<1>10. InUse(d, t) /\ InUse(p, t)
  BY <1>1, <1>4 DEF InUse, p
<1>11. \A l : Metadata(l) # m
  BY <1>2, Kinds
<1>12. \A u \in Token : InUse(e, u)' => InUse(e, u)
  <2>1. \A u \in Token : Bare("accept", u) \notin replies
    BY Kinds
  <2>2. \A u \in Token : Bare("confirm", u) \in replies => u = t
    BY Kinds
  <2> HIDE DEF replies
  <2>3. CASE e \in {d, p}
    BY <1>1, <1>7, <1>9, <1>10, <2>1, <2>2, <2>3 DEF InUse, p
  <2>4. CASE e \notin {d, p}
    <3>1. Peer(e) \in Device \ {d, p}
      BY <1>1, <2>4, PeerIsDevice DEF p
    <3> QED
      BY <1>7, <1>9, <2>4, <3>1 DEF InUse
  <2> QED
    BY <2>3, <2>4
<1>13. CASE e = p /\ m.kind = "accept"
  BY <1>1, <1>7, <1>8, <1>13 DEF Fresh, Covered
<1>14. CASE e # p \/ m.kind = "confirm"
  <2>1. \A u \in Token : Bare("accept", u) \in net[Peer(e)] => Bare("accept", u) \in net'[Peer(e)]
    BY <1>1, <1>7, <1>14, PeerIsDevice, Kinds DEF p
  <2>2. Metadata(labels[Peer(e)]) \in net[e] => Metadata(labels[Peer(e)]) \in net'[e]
    BY <1>7, <1>11
  <2>3. bound[e] \in {None, bound'[e]}
    BY <1>6
  <2> QED
    BY <1>2, <1>8, <1>12, <2>1, <2>2, <2>3, FreshKept DEF FreshInv
<1> QED
  BY <1>2, <1>13, <1>14

\* A packet that is lost or dropped leaves its device uninformed, or the peer that its
\* answer would have informed, or it covered nothing.
LEMMA FreshGone ==
  ASSUME FreshInv, NEW d \in Device, NEW m \in net[d], Uninform(d, m),
         labels' = labels, connected' = connected, shown' = shown,
         net' = [net EXCEPT ![d] = @ \ {m}],
         \A x \in Device : bound[x] \in {None, bound'[x]},
         NEW e \in Device
  PROVE  Fresh(e)'
<1>1. Peer(d) \in Device /\ Peer(e) \in Device /\ (e # Peer(d) => Peer(e) # d)
  BY PeerIsDevice
<1>2. net'[d] = net[d] \ {m} /\ \A x \in Device \ {d} : net'[x] = net[x]
  BY DEF FreshInv, TypeInv, NetOK
<1>3. \A u \in Token : InUse(e, u)' => InUse(e, u)
  BY <1>1, <1>2 DEF InUse
<1>4. uninformed[e] => uninformed'[e]
  BY <1>1 DEF Uninform, FreshInv, TypeInv, RestOK
<1>5. CASE uninformed'[e]
  BY <1>5 DEF Fresh
<1>6. CASE ~uninformed'[e]
  <2>1. ~(e = d /\ m.kind = "metadata") /\ ~(e = Peer(d) /\ m.kind = "accept")
    BY <1>1, <1>6 DEF Uninform, FreshInv, TypeInv, RestOK
  <2>2. Metadata(labels[Peer(e)]) \in net[e] => Metadata(labels[Peer(e)]) \in net'[e]
    BY <1>2, <2>1, Kinds
  <2>3. \A u \in Token : Bare("accept", u) \in net[Peer(e)] => Bare("accept", u) \in net'[Peer(e)]
    BY <1>1, <1>2, <2>1, Kinds
  <2> QED
    BY <1>3, <1>4, <2>2, <2>3, FreshKept DEF FreshInv
<1> QED
  BY <1>5, <1>6

LEMMA FreshTold ==
  ASSUME FreshInv, NEW d \in Device, NEW m \in net[d], ReceiveMetadata(d, m), NEW e \in Device
  PROVE  Fresh(e)'
<1> DEFINE t    == Route(d, m)
           fits == ParseMetadata(m.text).channels <= Len(labels[d])
<1>1. Peer(d) \in Device \ {d} /\ Peer(e) \in Device /\ (e # Peer(d) => Peer(e) # d)
  BY PeerIsDevice
<1>2. t \in Token /\ m.kind = "metadata" /\ Deliver(d, m, {})
  BY HandledToken DEF ReceiveMetadata, FreshInv
<1>3. bound'[d] = t /\ bound[d] \in {None, t} /\ \A x \in Device \ {d} : bound'[x] = bound[x]
  BY <1>2, RouteKeeps DEF FreshInv, Route
<1>4. net'[d] = net[d] \ {m} /\ \A x \in Device \ {d} : net'[x] = net[x]
  BY <1>1, <1>2 DEF Deliver, FreshInv, TypeInv, NetOK
<1>5. labels' = labels /\ connected' = connected
  BY <1>2 DEF Deliver, setup, ReceiveMetadata
<1>6. \A x \in Device \ {d} : uninformed'[x] = uninformed[x] /\ shown'[x] = shown[x]
  BY DEF ReceiveMetadata, FreshInv, TypeInv, RestOK, SessionOK
<1>7. ~uninformed'[d] => fits /\ m = Metadata(labels[Peer(d)])
  BY DEF ReceiveMetadata, FreshInv, TypeInv, RestOK
<1>8. fits => shown'[d][t] = ParseMetadata(m.text)
  <2>1. shown' = [shown EXCEPT ![d][t] = IF fits THEN ParseMetadata(m.text) ELSE @]
    BY DEF ReceiveMetadata
  <2> HIDE DEF fits, t
  <2> QED
    BY <1>2, <2>1 DEF FreshInv, TypeInv, SessionOK
<1> HIDE DEF fits, t
<1>9. CASE e = d
  <2>1. ASSUME ~uninformed'[d] PROVE shown'[d][t] = Right(d)'
    <3>1. m.text = MetadataText(labels[Peer(d)])
      BY <1>7, <2>1 DEF Metadata
    <3> QED
      BY <1>5, <1>7, <1>8, <2>1, <3>1 DEF Right
  <2>2. \A u \in Token : bound'[d] \in {None, u} => u = t
    BY <1>2, <1>3, Bounds
  <2> QED
    BY <1>9, <2>1, <2>2 DEF Fresh, Covered
<1>10. CASE e # d
  <2>1. \A u \in Token : InUse(e, u)' => InUse(e, u)
    BY <1>1, <1>4, <1>5 DEF InUse
  <2>2. \A u \in Token : Bare("accept", u) \in net[Peer(e)] => Bare("accept", u) \in net'[Peer(e)]
    BY <1>1, <1>2, <1>4, Kinds
  <2> QED
    BY <1>3, <1>4, <1>5, <1>6, <1>10, <2>1, <2>2, FreshKept DEF FreshInv
<1> QED
  BY <1>9, <1>10

LEMMA FreshPosted ==
  ASSUME FreshInv, NEW d \in Device, NEW new \in NewLabels(d), PostLabels(d, new), NEW e \in Device
  PROVE  Fresh(e)'
<1> DEFINE p     == Peer(d)
           sends == tokens[d][1] \in connected[d] /\ tokens[d][1] \in established[d]
<1>1. p \in Device \ {d} /\ Peer(p) = d /\ Peer(e) \in Device /\ (e # p => Peer(e) # d)
  BY PeerIsDevice
<1>2. /\ labels' = [labels EXCEPT ![d] = new]
      /\ net' = [net EXCEPT ![p] = IF sends THEN @ \cup {Metadata(new)} ELSE @]
      /\ uninformed' = [uninformed EXCEPT ![p] = @ \/ ~sends]
      /\ connected' = connected /\ shown' = shown /\ bound' = bound
  BY DEF PostLabels, session
<1> HIDE DEF p, sends
<1>3. labels'[d] = new /\ \A x \in Device \ {d} : labels'[x] = labels[x]
  BY <1>2 DEF FreshInv, TypeInv, SetupOK
<1>4. /\ net'[p] = IF sends THEN net[p] \cup {Metadata(new)} ELSE net[p]
      /\ \A x \in Device \ {p} : net'[x] = net[x]
  BY <1>1, <1>2 DEF FreshInv, TypeInv, NetOK
<1>5. ~sends => uninformed'[p]
  BY <1>1, <1>2 DEF FreshInv, TypeInv, RestOK
<1>6. \A x \in Device \ {p} : uninformed'[x] = uninformed[x]
  BY <1>1, <1>2 DEF FreshInv, TypeInv, RestOK
<1>7. CASE e = p
  BY <1>1, <1>3, <1>4, <1>5, <1>7 DEF Fresh, Covered
<1>8. CASE e # p
  <2>1. \A u \in Token : InUse(e, u)' => InUse(e, u)
    BY <1>1, <1>2, <1>4, Kinds DEF InUse
  <2> QED
    BY <1>1, <1>2, <1>3, <1>4, <1>6, <1>8, <2>1, FreshKept DEF FreshInv
<1> QED
  BY <1>7, <1>8

LEMMA FreshStarted ==
  ASSUME FreshInv, NEW d \in Device, Start(d), NEW e \in Device
  PROVE  Fresh(e)'
<1> DEFINE p == Peer(d)
           unnoticed == connected[p] # {} \/ net[d] # {} \/ net[p] # {}
<1>1. p \in Device \ {d} /\ Peer(p) = d
  BY PeerIsDevice
<1>2. PICK s \in Setups(d) : labels' = [labels EXCEPT ![d] = s.labels]
  BY DEF Start
<1>3. /\ connected' = [connected EXCEPT ![d] = {}] /\ bound' = [bound EXCEPT ![d] = None]
      /\ shown' = [shown EXCEPT ![d] = [t \in Token |-> None]] /\ net' = net
      /\ uninformed' = [uninformed EXCEPT ![d] = unnoticed, ![p] = @ \/ unnoticed]
  BY DEF Start
<1> HIDE DEF p, unnoticed
<1>4. /\ connected'[d] = {}
      /\ \A x \in Device \ {d} : /\ connected'[x] = connected[x] /\ labels'[x] = labels[x]
                                 /\ bound'[x] = bound[x] /\ shown'[x] = shown[x]
  BY <1>2, <1>3 DEF FreshInv, TypeInv, SetupOK, SessionOK, OwnOK
<1>5. /\ unnoticed => uninformed'[d] /\ uninformed'[p]
      /\ \A x \in Device \ {d, p} : uninformed'[x] = uninformed[x]
  BY <1>1, <1>3 DEF FreshInv, TypeInv, RestOK
<1>6. CASE e \in {d, p} /\ unnoticed
  BY <1>5, <1>6 DEF Fresh
<1>7. CASE e \in {d, p} /\ ~unnoticed
  <2>1. net'[d] = {} /\ net'[p] = {} /\ connected'[d] = {} /\ connected'[p] = {}
    BY <1>1, <1>3, <1>4, <1>7 DEF unnoticed
  <2>2. Peer(e) \in {d, p}
    BY <1>1, <1>7 DEF p
  <2>3. \A u : ~InUse(e, u)'
    BY <1>7, <2>1, <2>2 DEF InUse
  <2> QED
    BY <2>3 DEF Fresh
<1>8. CASE e \notin {d, p}
  <2>1. Peer(e) \in Device \ {d, p}
    BY <1>1, <1>8, PeerIsDevice DEF p
  <2>2. \A u \in Token : InUse(e, u)' => InUse(e, u)
    BY <1>3, <1>4, <1>8, <2>1 DEF InUse
  <2> QED
    BY <1>3, <1>4, <1>5, <1>8, <2>1, <2>2, FreshKept DEF FreshInv
<1> QED
  BY <1>6, <1>7, <1>8

LEMMA FreshStale ==
  ASSUME FreshInv, NEW d \in Device, NEW t \in Token, Stale(d, t), NEW e \in Device
  PROVE  Fresh(e)'
<1>1. \A x \in Device : connected'[x] \subseteq connected[x]
  BY DEF Stale, FreshInv, TypeInv, SessionOK
<1>2. \A u \in Token : InUse(e, u)' => InUse(e, u)
  BY <1>1, PeerIsDevice DEF InUse, Stale
<1> QED
  BY <1>2, FreshKept DEF FreshInv, Stale, setup

LEMMA FreshProbe == ASSUME FreshInv, Probe, NEW e \in Device PROVE Fresh(e)'
<1>1. \A x \in Device : net[x] = {} /\ \A t \in Token : /\ Bare("accept", t) \notin net'[x]
                                                      /\ Bare("confirm", t) \notin net'[x]
  BY Kinds DEF Probe
<1>2. \A u \in Token : InUse(e, u)' => InUse(e, u)
  BY <1>1, PeerIsDevice DEF InUse, Probe, session
<1> QED
  BY <1>1, <1>2, PeerIsDevice, FreshKept DEF FreshInv, Probe, setup, session

LEMMA FreshStep == FreshInv /\ [Next]_vars => FreshInv'
<1> SUFFICES ASSUME FreshInv, [Next]_vars PROVE \A e \in Device : Fresh(e)'
    BY TypeStep, OneStep DEF FreshInv
<1> TAKE e \in Device
<1>1. CASE Settle \/ UNCHANGED vars
  BY <1>1, FreshKept DEF Settle, vars, setup, session, InUse, FreshInv
<1>2. CASE Probe
  BY <1>2, FreshProbe
<1>3. ASSUME NEW d \in Device, Start(d) PROVE Fresh(e)'
  BY <1>3, FreshStarted
<1>4. ASSUME NEW d \in Device, NEW m \in net[d], Drop(d, m) PROVE Fresh(e)'
  <2>1. Uninform(d, m) /\ Deliver(d, m, {}) /\ connected' = connected /\ shown' = shown
    BY <1>4 DEF Drop, session
  <2>2. labels' = labels /\ net' = [net EXCEPT ![d] = @ \ {m}]
    BY <2>1, PeerIsDevice DEF Deliver, setup, FreshInv, TypeInv, NetOK
  <2>3. \A x \in Device : bound[x] \in {None, bound'[x]}
    BY <2>1, RouteKeeps DEF FreshInv, Route
  <2> QED
    BY <2>1, <2>2, <2>3, FreshGone
<1>5. ASSUME NEW d \in Device, NEW m \in net[d], Receive(d, m) PROVE Fresh(e)'
  BY <1>4, <1>5, FreshProbed, FreshAccepted, FreshTold DEF Receive
<1>6. ASSUME NEW d \in Device, NEW m \in net[d], Lose(d, m) PROVE Fresh(e)'
  BY <1>6, FreshGone DEF Lose, setup, session
<1>7. ASSUME NEW d \in Device, NEW t \in Token, Stale(d, t) PROVE Fresh(e)'
  BY <1>7, FreshStale
<1>8. ASSUME NEW d \in Device, NEW new \in NewLabels(d), PostLabels(d, new) PROVE Fresh(e)'
  BY <1>8, FreshPosted
<1> QED
  BY <1>1, <1>2, <1>3, <1>5, <1>6, <1>7, <1>8 DEF Next

LEMMA FreshInit == Init => FreshInv
<1> SUFFICES ASSUME Init PROVE FreshInv
    OBVIOUS
<1>1. \A e \in Device : \A t : ~InUse(e, t)
  BY PeerIsDevice DEF Init, InUse
<1>2. OneSessionPerPeer
  BY DEF Init, OneSessionPerPeer
<1> QED
  BY <1>1, <1>2, InitType DEF FreshInv, Fresh

-----------------------------------------------------------------------------
LEMMA FreshShows == FreshInv => LayoutKnown
<1> SUFFICES ASSUME FreshInv, NEW d \in Device, NEW t \in connected[d], ~uninformed[d],
                    \A m \in net[d] : m.kind # "metadata", Bare("accept", t) \notin net[Peer(d)]
             PROVE  /\ shown[d][t] # None
                    /\ shown[d][t].channels = Len(labels[Peer(d)])
                    /\ (\A ch \in DOMAIN labels[Peer(d)] : Plain(labels[Peer(d)][ch])) =>
                         shown[d][t].labels = labels[Peer(d)]
    BY DEF LayoutKnown
<1>1. t \in Token /\ bound[d] = t
  BY DEF FreshInv, TypeInv, SessionOK, OneSessionPerPeer
<1>2. Covered(d, t)
  BY <1>1 DEF FreshInv, Fresh, InUse
<1>3. Metadata(labels[Peer(d)]) \notin net[d]
  BY Kinds
<1>4. shown[d][t] = ParseMetadata(MetadataText(labels[Peer(d)]))
  BY <1>2, <1>3 DEF Covered, Right
<1>5. labels[Peer(d)] \in Layouts
  BY PeerIsDevice DEF FreshInv, TypeInv, SetupOK
<1>6. shown[d][t] # None
  BY <1>4, <1>5, NoneAssumption DEF NoneAssumption
<1>7. shown[d][t].channels = Len(labels[Peer(d)])
  BY <1>4, <1>5, LayoutsFit, CountSurvives
<1>8. ASSUME \A ch \in DOMAIN labels[Peer(d)] : Plain(labels[Peer(d)][ch])
      PROVE  shown[d][t].labels = labels[Peer(d)]
  BY <1>4, <1>5, <1>8, LayoutsFit, PlainSurvives
<1> QED
  BY <1>6, <1>7, <1>8

\* Metadata is sent once per handshake over a network that loses it, and yet a connected
\* session shows the channels and the plain labels the other device has, but for the
\* cases uninformed names.
THEOREM LayoutShown == Spec => []LayoutKnown
  BY FreshInit, FreshStep, FreshShows, PTL DEF Spec
=============================================================================
