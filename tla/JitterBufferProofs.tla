------------------------- MODULE JitterBufferProofs -------------------------
(***************************************************************************)
(* Proofs about JitterBuffer, for every number of channels, every bound    *)
(* and every behaviour of the peer and the network.                        *)
(*                                                                         *)
(* The receive thread changes its queue in one way only: it drains some    *)
(* queue gs, with some watermark and some count of decoded frames.  So the *)
(* argument is about such a triple: what makes it well-formed (QueueType), *)
(* and what puts every queued frame ahead of the watermark and every       *)
(* decoded one behind it (QueueOrder), is kept by the drain.               *)
(***************************************************************************)
EXTENDS JitterBuffer, TLAPS

QueueOrder(gs, mark, d) ==
  /\ 2 * mark < TsMod
  /\ \A t \in DOMAIN gs : mark < t /\ 2 * t < TsMod
  /\ \A t \in Ts : d[t] <= 1 /\ (d[t] > 0 => t <= mark)

-----------------------------------------------------------------------------
(* The queue operators *)

\* Inserting a packet adds at most one group and keeps what is queued.
LEMMA InsertFacts ==
  ASSUME NEW gs, NEW t \in Ts, NEW ch \in Chan,
         DOMAIN gs \subseteq Ts, gs \in [DOMAIN gs -> FrameGroup],
         remote_channels \in 1..MaxChannels
  PROVE  /\ DOMAIN Insert(gs, t, ch) = DOMAIN gs \cup {t}
         /\ Insert(gs, t, ch) \in [DOMAIN Insert(gs, t, ch) -> FrameGroup]
         /\ WaitsFor(gs, remote_channels) => WaitsFor(Insert(gs, t, ch), remote_channels)
         /\ \A u \in DOMAIN gs : gs[u].packets \subseteq Insert(gs, t, ch)[u].packets
<1> DEFINE g == IF t \in DOMAIN gs THEN gs[t] ELSE NewGroup
           h == [g EXCEPT !.packets = @ \cup {ch}]
<1>1. Insert(gs, t, ch) = [u \in DOMAIN gs \cup {t} |-> IF u = t THEN h ELSE gs[u]]
  BY DEF Insert
<1>2. NewGroup \in FrameGroup
  BY ConstantsAssumption DEF NewGroup, FrameGroup, Chan
<1>3. g \in FrameGroup
  BY <1>2
<1>4. h \in FrameGroup /\ h.expected = g.expected /\ g.packets \subseteq h.packets
  BY <1>3 DEF FrameGroup
<1>5. WaitsFor(gs, remote_channels) => h.expected = 0..(remote_channels - 1)
  BY <1>4 DEF NewGroup, WaitsFor
<1> HIDE DEF h
<1>6. QED
  BY <1>1, <1>3, <1>4, <1>5 DEF WaitsFor

\* The drain leaves a well-formed queue.
LEMMA DrainType ==
  ASSUME NEW gs, NEW mark, NEW d, QueueType(gs, mark, d),
         drain_phase_locked_groups(gs, mark, d)
  PROVE  /\ QueueType(groups, last_drained_ts, decodes)'
         /\ DOMAIN groups' = DOMAIN gs \ Drained(gs)
         /\ \A t \in DOMAIN groups' : groups'[t] = gs[t]
<1>1. Drained(gs) \subseteq DOMAIN gs
  BY DEF Drained
<1>2. groups' = [t \in DOMAIN gs \ Drained(gs) |-> gs[t]]
  BY DEF drain_phase_locked_groups
<1>3. last_drained_ts' \in Drained(gs) \cup {mark}
  BY DEF drain_phase_locked_groups, Marks
<1>4. decodes' \in [Ts -> Nat]
  BY DEF drain_phase_locked_groups, QueueType
<1>5. QED
  BY <1>1, <1>2, <1>3, <1>4 DEF QueueType

\* The drain takes a prefix of the queue and moves the watermark to its end.
LEMMA DrainOrder ==
  ASSUME NEW gs, NEW mark, NEW d,
         QueueType(gs, mark, d), QueueOrder(gs, mark, d),
         drain_phase_locked_groups(gs, mark, d)
  PROVE  /\ QueueOrder(groups, last_drained_ts, decodes)'
         /\ mark <= last_drained_ts'
<1> DEFINE D == Drained(gs)
<1>1. D \subseteq DOMAIN gs /\ DOMAIN gs \subseteq Ts
  BY DEF Drained, QueueType
<1>2. DOMAIN groups' = DOMAIN gs \ D
  BY DEF drain_phase_locked_groups
<1>3. \A t \in Ts : decodes'[t] = IF t \in D THEN d[t] + 1 ELSE d[t]
  BY DEF drain_phase_locked_groups
<1>4. last_drained_ts' \in Marks(D, mark)
  BY DEF drain_phase_locked_groups
<1>5. mark \in Int /\ d \in [Ts -> Nat] /\ \A t \in Ts : t \in Int
  BY ConstantsAssumption DEF QueueType, Ts, None
<1>6. CASE D = {}
  <2>1. last_drained_ts' = mark
    BY <1>4, <1>6 DEF Marks
  <2>2. QED
    BY <2>1, <1>2, <1>3, <1>5, <1>6 DEF QueueOrder
<1>7. CASE D # {}
  <2>1. last_drained_ts' \in D /\ \A t \in D : t <= last_drained_ts'
    BY <1>4, <1>7 DEF Marks
  <2>2. 2 * last_drained_ts' < TsMod /\ mark < last_drained_ts' /\ last_drained_ts' \in Int
    BY <2>1, <1>1, <1>5 DEF QueueOrder
  <2>3. ASSUME NEW t \in DOMAIN gs, t \notin D
        PROVE  last_drained_ts' < t
    <3>1. PICK u \in DOMAIN gs : u <= t /\ ~Ready(gs[u])
      BY <2>3 DEF Drained
    <3>2. ~(u <= last_drained_ts')
      BY <2>1, <3>1 DEF Drained
    <3>3. QED
      <4>1. t \in Int /\ u \in Int
        BY <2>3, <1>1, <1>5
      <4>2. QED
        BY <4>1, <3>1, <3>2, <2>2
  <2>4. ASSUME NEW t \in Ts
        PROVE  decodes'[t] <= 1 /\ (decodes'[t] > 0 => t <= last_drained_ts')
    <3>1. CASE t \in D
      <4>1. d[t] = 0
        BY <3>1, <1>1, <1>5, <2>4 DEF QueueOrder
      <4>2. QED
        BY <4>1, <3>1, <1>3, <2>1
    <3>2. CASE t \notin D
      BY <3>2, <1>1, <1>3, <1>5, <2>1, <2>2, <2>4 DEF QueueOrder
    <3>3. QED
      BY <3>1, <3>2
  <2>5. \A t \in DOMAIN groups' : last_drained_ts' < t /\ 2 * t < TsMod
    BY <2>3, <1>2 DEF QueueOrder
  <2>6. mark <= last_drained_ts'
    BY <2>1, <2>2, <1>1, <1>5
  <2>7. QED
    BY <2>2, <2>4, <2>5, <2>6 DEF QueueOrder
<1>8. QED
  BY <1>6, <1>7

-----------------------------------------------------------------------------
(* Types, and the layout the groups wait for *)

\* A change of the channel count is detected by comparing with the last
\* metadata, so the queue matches the layout only because that metadata, when
\* there is any, names the current count.
LayoutInv ==
  /\ TypeOK
  /\ GroupsMatchLayout
  /\ last_remote_meta # None => last_remote_meta = remote_channels

\* The packet handlers insert into a queue gs and drain it.
LEMMA InsertAndDrain ==
  ASSUME LayoutInv, UNCHANGED layout,
         NEW gs, NEW mark, NEW d, NEW f \in net, NEW ch \in Chan,
         QueueType(gs, mark, d),
         WaitsFor(gs, remote_channels),
         drain_phase_locked_groups(Insert(gs, f.ts, ch), mark, d)
  PROVE  QueueType(groups, last_drained_ts, decodes)' /\ GroupsMatchLayout'
<1> DEFINE is == Insert(gs, f.ts, ch)
<1>1. f.ts \in Ts /\ remote_channels \in 1..MaxChannels
  BY DEF LayoutInv, TypeOK, PeerType, Frame
<1>2. DOMAIN gs \subseteq Ts /\ gs \in [DOMAIN gs -> FrameGroup]
  BY DEF QueueType
<1>3. /\ DOMAIN is = DOMAIN gs \cup {f.ts}
      /\ is \in [DOMAIN is -> FrameGroup]
      /\ WaitsFor(is, remote_channels)
  BY <1>1, <1>2, InsertFacts
<1>4. QueueType(is, mark, d)
  BY <1>1, <1>3 DEF QueueType
<1>5. /\ QueueType(groups, last_drained_ts, decodes)'
      /\ DOMAIN groups' \subseteq DOMAIN is
      /\ \A t \in DOMAIN groups' : groups'[t] = is[t]
  BY <1>4, DrainType
<1>6. remote_channels' = remote_channels
  BY DEF layout
<1>7. QED
  BY <1>3, <1>5, <1>6 DEF GroupsMatchLayout, WaitsFor

LEMMA EmptyQueueType ==
  QueueType(NoGroups, None, Silence) /\ DOMAIN NoGroups = {} /\ \A n : WaitsFor(NoGroups, n)
  BY DEF QueueType, NoGroups, Silence, WaitsFor

LEMMA LayoutInit == Init => LayoutInv
<1> SUFFICES ASSUME Init PROVE LayoutInv
  OBVIOUS
<1>1. PeerType
  BY ConstantsAssumption DEF Init, PeerType, Ts, Seqs, Frame
<1>2. QueueType(groups, last_drained_ts, decodes)
  BY EmptyQueueType DEF Init
<1>3. last_seq \in [Chan -> Seqs \cup {None}]
  BY DEF Init, NoSeqs
<1>4. remote_channels \in 1..MaxChannels /\ last_remote_meta = None
  BY ConstantsAssumption DEF Init
<1>5. GroupsMatchLayout
  BY EmptyQueueType DEF Init, GroupsMatchLayout
<1>6. QED
  BY <1>1, <1>2, <1>3, <1>4, <1>5 DEF LayoutInv, TypeOK

LEMMA LayoutStep == LayoutInv /\ [Next]_vars => LayoutInv'
<1> SUFFICES ASSUME LayoutInv, [Next]_vars PROVE LayoutInv'
  OBVIOUS
<1> USE DEF LayoutInv
<1>1. CASE SendFrame
  <2>1. ts' \in Ts /\ seq' \in Seqs
    BY <1>1, ConstantsAssumption DEF SendFrame, WrappingAdd, TypeOK, PeerType, Ts, Seqs
  <2>2. sent' \in 0..MaxFrames
    BY <1>1, ConstantsAssumption DEF SendFrame, TypeOK, PeerType
  <2>3. net' \subseteq Frame
    BY <1>1, ConstantsAssumption DEF SendFrame, TypeOK, PeerType, Frame
  <2>4. PeerType'
    BY <1>1, <2>1, <2>2, <2>3 DEF SendFrame, TypeOK, PeerType
  <2>5. QED
    BY <1>1, <2>4 DEF SendFrame, TypeOK, GroupsMatchLayout, layout
<1>2. CASE RestartPeer
  <2>1. PeerType'
    BY <1>2, ConstantsAssumption DEF RestartPeer, TypeOK, PeerType, Ts, Seqs
  <2>2. QED
    BY <1>2, <2>1 DEF RestartPeer, TypeOK, GroupsMatchLayout, layout
<1>3. CASE Receive
  <2>1. PICK f \in net, ch \in Chan : Accept(f, ch) \/ Refuse(f, ch) \/ AcceptRestart(f, ch)
    BY <1>3 DEF Receive
  <2>2. f.seq \in Seqs
    BY <2>1 DEF TypeOK, PeerType, Frame
  <2>3. UNCHANGED <<sender, layout>>
    BY <2>1 DEF Accept, Refuse, AcceptRestart
  <2>4. last_seq' \in [Chan -> Seqs \cup {None}]
    BY <2>1, <2>2 DEF Accept, Refuse, AcceptRestart, NoSeqs, TypeOK
  <2>5. QueueType(groups, last_drained_ts, decodes)' /\ GroupsMatchLayout'
    <3>1. CASE Accept(f, ch)
      BY <3>1, <2>3, InsertAndDrain DEF Accept, TypeOK, GroupsMatchLayout
    <3>2. CASE Refuse(f, ch)
      BY <3>2 DEF Refuse, TypeOK, GroupsMatchLayout, QueueType, layout
    <3>3. CASE AcceptRestart(f, ch)
      BY <3>3, <2>3, InsertAndDrain, EmptyQueueType DEF AcceptRestart
    <3>4. QED
      BY <2>1, <3>1, <3>2, <3>3
  <2>6. QED
    BY <2>3, <2>4, <2>5 DEF TypeOK, PeerType, sender, layout
<1>4. ASSUME NEW t \in Ts, TimeOut(t)
      PROVE  LayoutInv'
  <2>1. /\ DOMAIN groups' = DOMAIN groups
        /\ groups' \in [DOMAIN groups -> FrameGroup]
        /\ \A u \in DOMAIN groups : groups'[u].expected = groups[u].expected
    BY <1>4 DEF TimeOut, TypeOK, QueueType, FrameGroup
  <2>2. QED
    BY <1>4, <2>1 DEF TimeOut, TypeOK, PeerType, QueueType, GroupsMatchLayout, WaitsFor, sender, layout
<1>5. CASE IdlePoll
  <2>1. /\ QueueType(groups, last_drained_ts, decodes)'
        /\ DOMAIN groups' \subseteq DOMAIN groups
        /\ \A t \in DOMAIN groups' : groups'[t] = groups[t]
    BY <1>5, DrainType DEF IdlePoll, TypeOK
  <2>2. QED
    BY <1>5, <2>1 DEF IdlePoll, TypeOK, PeerType, GroupsMatchLayout, WaitsFor, sender, layout
<1>6. ASSUME NEW n \in 1..MaxChannels, Metadata(n)
      PROVE  LayoutInv'
  <2>1. PeerType'
    BY <1>6 DEF Metadata, TypeOK, PeerType, sender
  <2>2. remote_channels' = n /\ last_remote_meta' = n
    BY <1>6 DEF Metadata
  <2>3. CASE reset_session
    <3>1. QueueType(groups, last_drained_ts, decodes)' /\ DOMAIN groups' = {}
      BY <2>3, EmptyQueueType DEF reset_session
    <3>2. last_seq' \in [Chan -> Seqs \cup {None}]
      BY <2>3 DEF reset_session, NoSeqs
    <3>3. QED
      BY <2>1, <2>2, <3>1, <3>2 DEF TypeOK, GroupsMatchLayout, WaitsFor
  <2>4. CASE ~reset_session
    <3>1. n = remote_channels /\ UNCHANGED <<groups, last_drained_ts, last_seq, decodes>>
      BY <1>6, <2>4 DEF Metadata
    <3>2. QED
      BY <2>1, <2>2, <3>1 DEF TypeOK, GroupsMatchLayout, QueueType
  <2>5. QED
    BY <2>3, <2>4
<1>7. CASE ResetSession
  <2>1. QueueType(groups, last_drained_ts, decodes)' /\ DOMAIN groups' = {}
    BY <1>7, EmptyQueueType DEF ResetSession, reset_session
  <2>2. last_seq' \in [Chan -> Seqs \cup {None}]
    BY <1>7 DEF ResetSession, reset_session, NoSeqs
  <2>3. QED
    BY <1>7, <2>1, <2>2 DEF ResetSession, TypeOK, PeerType, GroupsMatchLayout, WaitsFor, sender
<1>8. CASE UNCHANGED vars
  BY <1>8 DEF vars, sender, layout, TypeOK, PeerType, QueueType, GroupsMatchLayout
<1>9. QED
  BY <1>1, <1>2, <1>3, <1>4, <1>5, <1>6, <1>7, <1>8 DEF Next

\* Every variable keeps its type.
THEOREM TypeCorrect == Spec => []TypeOK
<1>1. LayoutInv => TypeOK
  BY DEF LayoutInv
<1>2. QED
  BY <1>1, LayoutInit, LayoutStep, PTL DEF Spec

\* The drain never uses a channel count other than the one its groups wait
\* for: queued groups always match the layout last announced.
THEOREM LayoutCorrect == Spec => []GroupsMatchLayout
<1>1. LayoutInv => GroupsMatchLayout
  BY DEF LayoutInv
<1>2. QED
  BY <1>1, LayoutInit, LayoutStep, PTL DEF Spec

-----------------------------------------------------------------------------
(* The watermark *)

\* While timestamps stay in half of their space, the watermark separates what
\* has been decoded from what is queued.
StreamInv ==
  /\ LayoutInv
  /\ \A f \in net : 2 * f.ts < TsMod
  /\ QueueOrder(groups, last_drained_ts, decodes)

\* A packet that is not too late is ahead of the watermark.
LEMMA PacketAhead ==
  ASSUME StreamInv, NEW f \in net, ~TooLate(f)
  PROVE  last_drained_ts < f.ts
<1>1. f.ts \in Ts /\ last_drained_ts \in Ts \cup {None}
  BY DEF StreamInv, LayoutInv, TypeOK, PeerType, QueueType, Frame
<1>2. 2 * last_drained_ts < TsMod
  BY DEF StreamInv, QueueOrder
<1>3. QED
  BY <1>1, <1>2, ConstantsAssumption
     DEF TooLate, rtp_timestamp_at_or_before, WrappingSub, Ts, None

LEMMA InsertOrder ==
  ASSUME LayoutInv, NEW gs, NEW mark, NEW d, NEW f \in net, NEW ch \in Chan,
         QueueType(gs, mark, d), QueueOrder(gs, mark, d),
         mark < f.ts, 2 * f.ts < TsMod
  PROVE  /\ QueueType(Insert(gs, f.ts, ch), mark, d)
         /\ QueueOrder(Insert(gs, f.ts, ch), mark, d)
         /\ DOMAIN Insert(gs, f.ts, ch) = DOMAIN gs \cup {f.ts}
         /\ \A u \in DOMAIN gs : gs[u].packets \subseteq Insert(gs, f.ts, ch)[u].packets
<1> DEFINE is == Insert(gs, f.ts, ch)
<1>1. f.ts \in Ts /\ remote_channels \in 1..MaxChannels
  BY DEF LayoutInv, TypeOK, PeerType, Frame
<1>2. DOMAIN gs \subseteq Ts /\ gs \in [DOMAIN gs -> FrameGroup]
  BY DEF QueueType
<1>3. /\ DOMAIN is = DOMAIN gs \cup {f.ts}
      /\ is \in [DOMAIN is -> FrameGroup]
      /\ \A u \in DOMAIN gs : gs[u].packets \subseteq is[u].packets
  BY <1>1, <1>2, InsertFacts
<1>4. QueueType(is, mark, d)
  BY <1>1, <1>3 DEF QueueType
<1>5. QueueOrder(is, mark, d)
  BY <1>3 DEF QueueOrder
<1>6. QED
  BY <1>3, <1>4, <1>5

LEMMA EmptyQueueOrder == QueueOrder(NoGroups, None, Silence)
  BY ConstantsAssumption DEF QueueOrder, NoGroups, None, Silence

\* The queue a packet handler drains is ordered, whichever handler it is.
LEMMA DrainedQueue ==
  ASSUME StreamInv, NEW f \in net, NEW ch \in Chan
  PROVE  /\ Accept(f, ch) =>
              LET gs == Insert(groups, f.ts, ch)
              IN  /\ QueueType(gs, last_drained_ts, decodes)
                  /\ QueueOrder(gs, last_drained_ts, decodes)
                  /\ DOMAIN gs = DOMAIN groups \cup {f.ts}
                  /\ \A u \in DOMAIN groups : groups[u].packets \subseteq gs[u].packets
         /\ LET gs == Insert(NoGroups, f.ts, ch)
            IN  /\ QueueType(gs, None, Silence)
                /\ QueueOrder(gs, None, Silence)
                /\ DOMAIN gs = {f.ts}
<1>1. f.ts \in Ts /\ 2 * f.ts < TsMod
  BY DEF StreamInv, LayoutInv, TypeOK, PeerType, Frame
<1>2. ASSUME Accept(f, ch)
      PROVE  LET gs == Insert(groups, f.ts, ch)
             IN  /\ QueueType(gs, last_drained_ts, decodes)
                 /\ QueueOrder(gs, last_drained_ts, decodes)
                 /\ DOMAIN gs = DOMAIN groups \cup {f.ts}
                 /\ \A u \in DOMAIN groups : groups[u].packets \subseteq gs[u].packets
  <2>1. last_drained_ts < f.ts
    BY <1>2, PacketAhead DEF Accept
  <2>2. QueueType(groups, last_drained_ts, decodes)
    BY DEF StreamInv, LayoutInv, TypeOK
  <2>3. QED
    BY <1>1, <2>1, <2>2, InsertOrder DEF StreamInv
<1>3. LET gs == Insert(NoGroups, f.ts, ch)
      IN  /\ QueueType(gs, None, Silence)
          /\ QueueOrder(gs, None, Silence)
          /\ DOMAIN gs = {f.ts}
  <2>1. None < f.ts
    BY <1>1, ConstantsAssumption DEF Ts, None
  <2>2. LayoutInv /\ QueueType(NoGroups, None, Silence)
    BY EmptyQueueType DEF StreamInv
  <2>3. DOMAIN NoGroups \cup {f.ts} = {f.ts}
    BY EmptyQueueType
  <2>4. QED
    BY <1>1, <2>1, <2>2, <2>3, EmptyQueueOrder, InsertOrder
<1>4. QED
  BY <1>2, <1>3

LEMMA StreamInit == Init => StreamInv
  BY LayoutInit, EmptyQueueOrder DEF Init, StreamInv

LEMMA StreamStep == StreamInv /\ NotWrapped /\ [Next]_vars => StreamInv'
<1> SUFFICES ASSUME StreamInv, NotWrapped, [Next]_vars PROVE StreamInv'
  OBVIOUS
<1>1. LayoutInv'
  BY LayoutStep DEF StreamInv
<1>2. QueueType(groups, last_drained_ts, decodes)
  BY DEF StreamInv, LayoutInv, TypeOK
<1>3. CASE SendFrame
  <2>1. \A f \in net' : 2 * f.ts < TsMod
    BY <1>3 DEF SendFrame, NotWrapped, StreamInv
  <2>2. QED
    BY <1>1, <1>3, <2>1 DEF SendFrame, StreamInv, QueueOrder
<1>4. CASE RestartPeer
  BY <1>1, <1>4 DEF RestartPeer, StreamInv, QueueOrder
<1>5. CASE Receive
  <2>1. PICK f \in net, ch \in Chan : Accept(f, ch) \/ Refuse(f, ch) \/ AcceptRestart(f, ch)
    BY <1>5 DEF Receive
  <2>2. net' = net
    BY <2>1 DEF Accept, Refuse, AcceptRestart, sender
  <2>3. QueueOrder(groups, last_drained_ts, decodes)'
    <3>1. CASE Accept(f, ch)
      BY <3>1, DrainedQueue, DrainOrder DEF Accept
    <3>2. CASE Refuse(f, ch)
      BY <3>2 DEF Refuse, StreamInv, QueueOrder
    <3>3. CASE AcceptRestart(f, ch)
      BY <3>3, DrainedQueue, DrainOrder DEF AcceptRestart
    <3>4. QED
      BY <2>1, <3>1, <3>2, <3>3
  <2>4. QED
    BY <1>1, <2>2, <2>3 DEF StreamInv
<1>6. ASSUME NEW t \in Ts, TimeOut(t)
      PROVE  StreamInv'
  BY <1>1, <1>6 DEF TimeOut, StreamInv, QueueOrder, sender
<1>7. CASE IdlePoll
  <2>1. QueueOrder(groups, last_drained_ts, decodes)'
    BY <1>2, <1>7, DrainOrder DEF IdlePoll, StreamInv
  <2>2. QED
    BY <1>1, <1>7, <2>1 DEF IdlePoll, StreamInv, sender
<1>8. ASSUME NEW n \in 1..MaxChannels, Metadata(n)
      PROVE  StreamInv'
  <2>1. CASE reset_session
    BY <1>1, <1>8, <2>1, EmptyQueueOrder DEF Metadata, reset_session, StreamInv, sender
  <2>2. CASE ~reset_session
    BY <1>1, <1>8, <2>2 DEF Metadata, StreamInv, QueueOrder, sender
  <2>3. QED
    BY <2>1, <2>2
<1>9. CASE ResetSession
  BY <1>1, <1>9, EmptyQueueOrder DEF ResetSession, reset_session, StreamInv, sender
<1>10. CASE UNCHANGED vars
  BY <1>1, <1>10 DEF vars, sender, StreamInv, QueueOrder
<1>11. QED
  BY <1>3, <1>4, <1>5, <1>6, <1>7, <1>8, <1>9, <1>10 DEF Next

\* While the peer's timestamps have not reached half their space, the
\* watermark does what its comment says: nothing is decoded twice.
THEOREM DecodedAtMostOnce == Spec /\ []NotWrapped => []NoDoubleDecode
<1>1. StreamInv => NoDoubleDecode
  BY DEF StreamInv, QueueOrder, NoDoubleDecode
<1>2. QED
  BY <1>1, StreamInit, StreamStep, PTL DEF Spec

-----------------------------------------------------------------------------
(* The abstract playout *)

\* One drain plays nothing, or frames later than the watermark, each once, and
\* leaves the watermark at the last of them.
LEMMA DrainPlays ==
  ASSUME NEW gs, NEW mark, NEW d,
         QueueType(gs, mark, d), QueueOrder(gs, mark, d),
         drain_phase_locked_groups(gs, mark, d)
  PROVE  /\ decodes' \in [Ts -> Nat]
         /\ Drained(gs) = {} => decodes' = d /\ last_drained_ts' = mark
         /\ Drained(gs) # {} => /\ last_drained_ts' \in Ts
                               /\ decodes'[last_drained_ts'] # d[last_drained_ts']
         /\ \A t \in Ts : decodes'[t] # d[t] =>
              decodes'[t] = d[t] + 1 /\ mark < t /\ t <= last_drained_ts'
<1> DEFINE D == Drained(gs)
<1>1. d \in [Ts -> Nat] /\ mark \in Int /\ \A t \in Ts : t \in Int
  BY ConstantsAssumption DEF QueueType, Ts, None
<1>2. decodes' = [t \in Ts |-> IF t \in D THEN d[t] + 1 ELSE d[t]]
  BY DEF drain_phase_locked_groups
<1>3. last_drained_ts' \in Marks(D, mark)
  BY DEF drain_phase_locked_groups
<1>4. D \subseteq DOMAIN gs /\ DOMAIN gs \subseteq Ts
  BY DEF Drained, QueueType
<1>5. decodes' \in [Ts -> Nat]
  BY DrainType DEF QueueType
<1>6. ASSUME D = {} PROVE decodes' = d /\ last_drained_ts' = mark
  <2>1. decodes' = [t \in Ts |-> d[t]]
    BY <1>2, <1>6
  <2>2. QED
    BY <2>1, <1>1, <1>3, <1>6 DEF Marks
<1>7. ASSUME D # {} PROVE last_drained_ts' \in D /\ \A t \in D : t <= last_drained_ts'
  BY <1>3, <1>7 DEF Marks
<1>8. \A t \in D : mark < t /\ decodes'[t] = d[t] + 1 /\ d[t] + 1 # d[t]
  BY <1>1, <1>2, <1>4 DEF QueueOrder
<1>9. \A t \in Ts \ D : decodes'[t] = d[t]
  BY <1>2
<1> HIDE DEF D
<1>10. QED
  BY <1>4, <1>5, <1>6, <1>7, <1>8, <1>9 DEF D

\* What LooksRestarted says of a packet, while timestamps do not wrap.
LEMMA RestartBehind ==
  ASSUME StreamInv, NEW f \in net, NEW ch \in Chan, LooksRestarted(f, ch)
  PROVE  f.ts \in Ts /\ last_drained_ts \in Ts /\ f.ts + Rollback < last_drained_ts
<1>1. f.ts \in Ts /\ last_drained_ts \in Ts /\ 2 * f.ts < TsMod
  BY DEF LooksRestarted, StreamInv, LayoutInv, TypeOK, PeerType, QueueType, Frame
<1>2. /\ 2 * WrappingSub(last_drained_ts, f.ts, TsMod) < TsMod
      /\ WrappingSub(last_drained_ts, f.ts, TsMod) > Rollback
  BY DEF LooksRestarted, rtp_timestamp_at_or_before
<1>3. QED
  BY <1>1, <1>2, ConstantsAssumption DEF WrappingSub, Ts

LEMMA PlayoutStep ==
  StreamInv /\ NotWrapped /\ [Next]_vars => [Abstract!Next]_<<decodes, last_drained_ts>>
<1> SUFFICES ASSUME StreamInv, NotWrapped, [Next]_vars
             PROVE  Abstract!Next \/ UNCHANGED <<decodes, last_drained_ts>>
  OBVIOUS
<1> DEFINE Same == UNCHANGED <<decodes, last_drained_ts>>
<1>1. QueueType(groups, last_drained_ts, decodes) /\ QueueOrder(groups, last_drained_ts, decodes)
  BY DEF StreamInv, LayoutInv, TypeOK
<1>2. ASSUME NEW gs,
             QueueType(gs, last_drained_ts, decodes), QueueOrder(gs, last_drained_ts, decodes),
             drain_phase_locked_groups(gs, last_drained_ts, decodes)
      PROVE  Abstract!Play \/ Same
  <2>1. CASE Drained(gs) = {}
    BY <1>2, <2>1, DrainPlays
  <2>2. CASE Drained(gs) # {}
    BY <1>2, <2>2, DrainPlays DEF Abstract!Play
  <2>3. QED
    BY <2>1, <2>2
<1>3. ASSUME reset_session
      PROVE  Abstract!Reset
  BY <1>3 DEF reset_session, Silence, Abstract!Reset, Abstract!Silence
<1>4. CASE Receive
  <2>1. PICK f \in net, ch \in Chan : Accept(f, ch) \/ Refuse(f, ch) \/ AcceptRestart(f, ch)
    BY <1>4 DEF Receive
  <2>2. CASE Accept(f, ch)
    BY <1>2, <2>2, DrainedQueue DEF Accept, Abstract!Next
  <2>3. CASE Refuse(f, ch)
    BY <2>3 DEF Refuse
  <2>4. CASE AcceptRestart(f, ch)
    <3> DEFINE gs == Insert(NoGroups, f.ts, ch)
    <3>1. drain_phase_locked_groups(gs, None, Silence)
      BY <2>4 DEF AcceptRestart
    <3>2. /\ QueueType(gs, None, Silence) /\ QueueOrder(gs, None, Silence)
          /\ DOMAIN gs = {f.ts}
      BY DrainedQueue
    <3>3. f.ts \in Ts /\ last_drained_ts \in Ts /\ f.ts + Rollback < last_drained_ts
      BY <2>4, RestartBehind DEF AcceptRestart
    <3>4. CASE Drained(gs) = {}
      <4>1. decodes' = Silence /\ last_drained_ts' = None
        BY <3>1, <3>2, <3>4, DrainPlays
      <4>2. QED
        BY <4>1 DEF Silence, Abstract!Next, Abstract!Reset, Abstract!Silence
    <3>5. CASE Drained(gs) # {}
      <4>1. Drained(gs) = {f.ts}
        BY <3>2, <3>5 DEF Drained
      <4>2. last_drained_ts' = f.ts
        BY <3>1, <4>1 DEF drain_phase_locked_groups, Marks
      <4>3. decodes' = [t \in Ts |-> IF t \in {f.ts} THEN Silence[t] + 1 ELSE Silence[t]]
        BY <3>1, <4>1 DEF drain_phase_locked_groups
      <4>4. decodes' = [Silence EXCEPT ![f.ts] = 1]
        BY <4>3 DEF Silence
      <4>5. last_drained_ts # None
        BY <3>3, ConstantsAssumption DEF Ts, None
      <4>6. Abstract!Restart(f.ts)
        BY <3>3, <4>2, <4>4, <4>5 DEF Abstract!Restart, Abstract!Silence, Silence
      <4>7. QED
        BY <3>3, <4>6 DEF Abstract!Next
    <3>6. QED
      BY <3>4, <3>5
  <2>5. QED
    BY <2>1, <2>2, <2>3, <2>4
<1>5. CASE IdlePoll
  BY <1>1, <1>2, <1>5 DEF IdlePoll, Abstract!Next
<1>6. ASSUME NEW n \in 1..MaxChannels, Metadata(n)
      PROVE  Abstract!Reset \/ Same
  BY <1>3, <1>6 DEF Metadata
<1>7. CASE ResetSession
  BY <1>3, <1>7 DEF ResetSession, Abstract!Next
<1>8. CASE SendFrame \/ RestartPeer \/ (\E t \in Ts : TimeOut(t)) \/ UNCHANGED vars
  BY <1>8 DEF SendFrame, RestartPeer, TimeOut, vars
<1>9. QED
  BY <1>4, <1>5, <1>6, <1>7, <1>8 DEF Next, Abstract!Next

\* Under the same assumption the buffer implements the abstract playout: what it
\* plays is always later than all it has played, and it goes back only by a reset
\* or for a packet more than Rollback behind.
THEOREM PlaysInOrder == Spec /\ []NotWrapped => ImplementsPlayout
<1>1. Init => Abstract!Init
  BY DEF Init, Silence, Abstract!Init, Abstract!Silence
<1>2. QED
  BY <1>1, StreamInit, StreamStep, PlayoutStep, PTL
     DEF Spec, ImplementsPlayout, Abstract!Spec

\* Under the same assumption a packet in the queue stays there until its group is
\* decoded or the session ends, and a packet that is merely late does not end it.
THEOREM NothingLost == Spec /\ []NotWrapped => PacketsKept
<1> DEFINE Kept ==
      \A t \in DOMAIN groups :
        \/ t \in DOMAIN groups' /\ groups[t].packets \subseteq groups'[t].packets
        \/ decodes'[t] > decodes[t]
        \/ BeginsAnew
<1>1. ASSUME StreamInv, NotWrapped, [Next]_vars PROVE Kept \/ UNCHANGED vars
  <2>1. /\ QueueType(groups, last_drained_ts, decodes)
        /\ QueueOrder(groups, last_drained_ts, decodes)
    BY <1>1 DEF StreamInv, LayoutInv, TypeOK
  <2>2. ASSUME NEW gs, QueueType(gs, last_drained_ts, decodes),
               DOMAIN groups \subseteq DOMAIN gs,
               \A u \in DOMAIN groups : groups[u].packets \subseteq gs[u].packets,
               drain_phase_locked_groups(gs, last_drained_ts, decodes)
        PROVE  Kept
    <3>1. /\ DOMAIN groups' = DOMAIN gs \ Drained(gs)
          /\ \A t \in DOMAIN groups' : groups'[t] = gs[t]
      BY <2>2, DrainType
    <3>2. DOMAIN groups \subseteq Ts /\ decodes \in [Ts -> Nat]
      BY <2>1 DEF QueueType
    <3>3. \A t \in Ts : t \in Drained(gs) => decodes'[t] = decodes[t] + 1
      BY <2>2 DEF drain_phase_locked_groups
    <3>4. QED
      BY <2>2, <3>1, <3>2, <3>3
  <2>3. ASSUME reset_session PROVE Kept
    BY <2>3 DEF reset_session, BeginsAnew
  <2>4. CASE Receive
    <3>1. PICK f \in net, ch \in Chan : Accept(f, ch) \/ Refuse(f, ch) \/ AcceptRestart(f, ch)
      BY <2>4 DEF Receive
    <3>2. CASE Accept(f, ch)
      BY <1>1, <2>2, <3>2, DrainedQueue DEF Accept
    <3>3. CASE Refuse(f, ch)
      BY <3>3 DEF Refuse
    <3>4. CASE AcceptRestart(f, ch)
      <4>1. QueueType(Insert(NoGroups, f.ts, ch), None, Silence)
            /\ DOMAIN Insert(NoGroups, f.ts, ch) = {f.ts}
        BY <1>1, DrainedQueue
      <4>2. DOMAIN groups' \subseteq {f.ts}
        BY <3>4, <4>1, DrainType DEF AcceptRestart
      <4>3. f.ts + Rollback < last_drained_ts
        BY <1>1, <3>4, RestartBehind DEF AcceptRestart
      <4>4. QED
        BY <4>2, <4>3 DEF BeginsAnew
    <3>5. QED
      BY <3>1, <3>2, <3>3, <3>4
  <2>5. ASSUME NEW t \in Ts, TimeOut(t) PROVE Kept
    <3>1. /\ DOMAIN groups' = DOMAIN groups
          /\ \A u \in DOMAIN groups : groups'[u].packets = groups[u].packets
      BY <2>1, <2>5 DEF TimeOut, QueueType, FrameGroup
    <3>2. QED
      BY <3>1
  <2>6. CASE IdlePoll
    BY <2>1, <2>2, <2>6 DEF IdlePoll
  <2>7. ASSUME NEW n \in 1..MaxChannels, Metadata(n) PROVE Kept
    <3>1. reset_session \/ UNCHANGED groups
      BY <2>7 DEF Metadata
    <3>2. QED
      BY <3>1, <2>3
  <2>8. CASE ResetSession
    BY <2>3, <2>8 DEF ResetSession
  <2>9. CASE SendFrame \/ RestartPeer
    BY <2>9 DEF SendFrame, RestartPeer
  <2>10. QED
    BY <1>1, <2>4, <2>5, <2>6, <2>7, <2>8, <2>9 DEF Next
<1>2. QED
  BY <1>1, StreamInit, StreamStep, PTL DEF Spec, PacketsKept, Kept
=============================================================================
