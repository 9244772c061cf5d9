---------------------------- MODULE JitterBuffer ----------------------------
(***************************************************************************)
(* The phase-locked jitter buffer of the receive thread: the frame groups  *)
(* of jitter.rs, the drain that turns them into audio, the high-watermark  *)
(* that discards late packets, the detection of a peer that restarted its  *)
(* RTP stream, and the two ways a session is reset (engine.rs, the loop of *)
(* the receive / decode thread, with jitter.phase_lock set).               *)
(*                                                                         *)
(* Timestamps are counted in frames of FRAME_SAMPLES (20 ms) and wrap at   *)
(* TsMod, which stands for 2^32 samples; sequence numbers wrap at SeqMod,  *)
(* which stands for 2^16.  A payload is its frame and channel.  One action *)
(* is one turn of the receive loop: the thread owns all of this state, so  *)
(* nothing runs between a packet and the drain that follows it.            *)
(*                                                                         *)
(* The peer and the network are the environment: a sender that stamps its  *)
(* frames as the send thread does and may be restarted, and a network that *)
(* keeps the last Lag frames and delivers any packet of them in any order, *)
(* any number of times or never.  A media packet the receive thread drops  *)
(* while flush_samples > 0 changes nothing here, like a lost one.          *)
(***************************************************************************)
EXTENDS Integers

CONSTANTS
  TsMod,         \* timestamps are 0..TsMod-1 (2^32 / FRAME_SAMPLES)
  SeqMod,        \* sequence numbers are 0..SeqMod-1 (2^16)
  MaxChannels,   \* MAX_CHANNELS
  NumChannels,   \* num_channels, the first value of remote_channels
  Rollback,      \* RTP_RESTART_ROLLBACK_SAMPLES, in frames
  LowTs,         \* RTP_RESTART_LOW_TS_SAMPLES, in frames
  FirstStamps,   \* bound: timestamps of a stream's first sent frame: a stream
                 \* begins at zero, long before or when the peer is connected
  Gaps,          \* bound: frame times from one sent frame to the next
  MaxFrames,     \* bound: frames the peer sends
  MaxRestarts,   \* bound: times the peer restarts
  Lag,           \* bound: how many frames late a packet may arrive
  Observed       \* bound: the timestamps whose groups QueueDrains follows

ASSUME ConstantsAssumption ==
  /\ TsMod \in Nat \ {0} /\ SeqMod \in Nat \ {0}
  /\ MaxChannels \in Nat \ {0} /\ NumChannels \in 1..MaxChannels
  /\ Rollback \in Nat /\ LowTs \in Nat
  /\ FirstStamps \subseteq 0..(TsMod - 1) /\ Gaps \subseteq 1..(TsMod - 1)
  /\ MaxFrames \in Nat /\ MaxRestarts \in Nat /\ Lag \in Nat
  /\ Observed \subseteq Nat

Ts   == 0..(TsMod - 1)
Seqs == 0..(SeqMod - 1)
Chan == 0..(MaxChannels - 1)
None == -1                        \* Rust's Option::None

VARIABLES
  \* the peer and the network
  ts, seq,           \* timestamp and sequence number of the peer's next frame
  sent,              \* frames sent so far, over all incarnations
  restarts,          \* times the peer restarted
  net,               \* the frames whose packets may still arrive
  \* the receive thread
  groups,            \* BTreeMap<u32, FrameGroup>
  last_drained_ts,   \* the high-watermark
  last_seq,          \* per channel, the last sequence number seen
  remote_channels,   \* the peer's channel count
  last_remote_meta,  \* channel count of the last metadata packet
  \* history of the session
  decodes            \* per timestamp, how often its group was decoded

sender  == <<ts, seq, sent, restarts, net>>
layout  == <<remote_channels, last_remote_meta>>
vars == <<sender, groups, last_drained_ts, last_seq, layout, decodes>>

-----------------------------------------------------------------------------
(* Wrapping arithmetic *)

WrappingSub(a, b, m) == IF a >= b THEN a - b ELSE a - b + m

WrappingAdd(a, b, m) == IF a + b < m THEN a + b ELSE a + b - m

rtp_timestamp_at_or_before(t, reference) ==
  2 * WrappingSub(reference, t, TsMod) < TsMod

rtp_seq_looks_reset(prev, next) ==
  prev # next /\ 2 * WrappingSub(prev, next, SeqMod) < SeqMod

-----------------------------------------------------------------------------
(* Frame groups *)

FrameGroup == [packets : SUBSET Chan, expected : SUBSET Chan, timed_out : BOOLEAN]

\* Mutant: waits for one channel too many.
NewGroupOneMore == [packets |-> {}, expected |-> 0..remote_channels, timed_out |-> FALSE]

NewGroup == [packets |-> {}, expected |-> 0..(remote_channels - 1), timed_out |-> FALSE]

\* groups.entry(t).or_insert_with(new) followed by insert(ch, payload)
Insert(gs, t, ch) ==
  LET g == IF t \in DOMAIN gs THEN gs[t] ELSE NewGroup
  IN  [u \in DOMAIN gs \cup {t} |->
         IF u = t THEN [g EXCEPT !.packets = @ \cup {ch}] ELSE gs[u]]

\* Mutant: the timeout is not looked at.
ReadyComplete(g) == g.expected \subseteq g.packets

Ready(g) == g.expected \subseteq g.packets \/ g.timed_out

\* The groups one call of the drain decodes: it takes the smallest key as
\* long as that group is complete or timed out.  BTreeMap orders the keys as
\* plain integers, not modulo the wrap.
Drained(gs) == {t \in DOMAIN gs : \A u \in DOMAIN gs : u <= t => Ready(gs[u])}

Marks(D, mark) == IF D = {} THEN {mark} ELSE {m \in D : \A d \in D : d <= m}

\* Mutant: the drain skips a head that is not ready; the watermark still never
\* moves back, so that nothing is decoded twice.
DrainSkipping(gs, mark, d) ==
  LET D == {t \in DOMAIN gs : Ready(gs[t])}
  IN  /\ groups' = [t \in DOMAIN gs \ D |-> gs[t]]
      /\ last_drained_ts' \in Marks(D \cup {mark}, mark)
      /\ decodes' = [t \in Ts |-> IF t \in D THEN d[t] + 1 ELSE d[t]]

\* Decode what is ready of gs, in a session whose watermark is `mark` and in
\* which groups were decoded as often as d says.
drain_phase_locked_groups(gs, mark, d) ==
  LET D == Drained(gs)
  IN  /\ groups' = [t \in DOMAIN gs \ D |-> gs[t]]
      /\ last_drained_ts' \in Marks(D, mark)
      /\ decodes' = [t \in Ts |-> IF t \in D THEN d[t] + 1 ELSE d[t]]

-----------------------------------------------------------------------------
(* Resetting the session *)

NoGroups == [t \in {} |-> NewGroup]
NoSeqs   == [ch \in Chan |-> None]
Silence  == [t \in Ts |-> 0]

reset_session ==
  /\ groups' = NoGroups
  /\ last_drained_ts' = None
  /\ last_seq' = NoSeqs
  /\ decodes' = Silence

-----------------------------------------------------------------------------
(* The peer and the network *)

Init ==
  /\ ts \in FirstStamps /\ seq = 0 /\ sent = 0 /\ restarts = 0 /\ net = {}
  /\ groups = NoGroups /\ last_drained_ts = None /\ last_seq = NoSeqs
  /\ remote_channels = NumChannels /\ last_remote_meta = None
  /\ decodes = Silence

\* The send thread of the peer sends a frame on all channels, with one
\* timestamp.  The timestamp advances every 20 ms, sequence numbers with every
\* packet: the gap to the next frame is longer than one frame time while the
\* peer is not connected.
SendFrame ==
  /\ sent < MaxFrames
  /\ sent' = sent + 1
  /\ net' = {f \in net : f.n + Lag > sent} \cup {[n |-> sent, ts |-> ts, seq |-> seq]}
  /\ ts' \in {WrappingAdd(ts, gap, TsMod) : gap \in Gaps}
  /\ seq' = WrappingAdd(seq, 1, SeqMod)
  /\ UNCHANGED <<restarts, groups, last_drained_ts, last_seq, layout, decodes>>

\* The peer's process is restarted, while packets of the old stream may still
\* be on their way.
RestartPeer ==
  /\ restarts < MaxRestarts /\ sent > 0
  /\ restarts' = restarts + 1
  /\ ts' \in FirstStamps /\ seq' = 0
  /\ UNCHANGED <<sent, net, groups, last_drained_ts, last_seq, layout, decodes>>

-----------------------------------------------------------------------------
(* The receive loop *)

\* Mutant: any packet behind the watermark that the sequence numbers or a low
\* timestamp speak for.
LooksRestartedLate(f, ch) ==
  /\ last_drained_ts # None
  /\ rtp_timestamp_at_or_before(f.ts, last_drained_ts)
  /\ \/ last_seq[ch] # None /\ rtp_seq_looks_reset(last_seq[ch], f.seq)
     \/ f.ts <= LowTs

\* A packet so far behind the watermark that the peer must have restarted.
LooksRestarted(f, ch) ==
  /\ last_drained_ts # None
  /\ rtp_timestamp_at_or_before(f.ts, last_drained_ts)
  /\ WrappingSub(last_drained_ts, f.ts, TsMod) > Rollback
  /\ \/ last_seq[ch] # None /\ rtp_seq_looks_reset(last_seq[ch], f.seq)
     \/ f.ts <= LowTs

\* Mutant: late packets are queued.
TooLateNever(f) == FALSE

TooLate(f) ==
  last_drained_ts # None /\ rtp_timestamp_at_or_before(f.ts, last_drained_ts)

\* A packet ahead of the watermark joins the group of its timestamp; the loop
\* then drains what is ready.
Accept(f, ch) ==
  /\ ~TooLate(f)
  /\ last_seq' = [last_seq EXCEPT ![ch] = f.seq]
  /\ drain_phase_locked_groups(Insert(groups, f.ts, ch), last_drained_ts, decodes)
  /\ UNCHANGED <<sender, layout>>

\* A packet at or behind the watermark is dropped and the loop continues
\* without draining; its sequence number has been recorded.
Refuse(f, ch) ==
  /\ TooLate(f) /\ ~LooksRestarted(f, ch)
  /\ last_seq' = [last_seq EXCEPT ![ch] = f.seq]
  /\ UNCHANGED <<sender, groups, last_drained_ts, layout, decodes>>

\* The restarted stream begins a session of its own, with this packet in it.
AcceptRestart(f, ch) ==
  /\ LooksRestarted(f, ch)
  /\ last_seq' = [NoSeqs EXCEPT ![ch] = f.seq]
  /\ drain_phase_locked_groups(Insert(NoGroups, f.ts, ch), None, Silence)
  /\ UNCHANGED <<sender, layout>>

Receive ==
  \E f \in net : \E ch \in Chan :
    Accept(f, ch) \/ Refuse(f, ch) \/ AcceptRestart(f, ch)

\* The clock reaches the timeout of a group.  Each group has its own, taken
\* from the measured jitter when it was created, so any group may be first.
TimeOut(t) ==
  /\ t \in DOMAIN groups /\ ~groups[t].timed_out
  /\ groups' = [groups EXCEPT ![t].timed_out = TRUE]
  /\ UNCHANGED <<sender, last_drained_ts, last_seq, layout, decodes>>

\* recv_timeout gave no packet for 1 ms: the loop only drains.
IdlePoll ==
  /\ Drained(groups) # {}
  /\ drain_phase_locked_groups(groups, last_drained_ts, decodes)
  /\ UNCHANGED <<sender, last_seq, layout>>

\* Mutant: a new layout does not reset the session.
MetadataKeeps(n) ==
  /\ n # last_remote_meta
  /\ remote_channels' = n
  /\ last_remote_meta' = n
  /\ UNCHANGED <<sender, groups, last_drained_ts, last_seq, decodes>>

\* Metadata says the peer has n channels.  The count is stored first; the
\* session is reset if it differs from the last one known.
Metadata(n) ==
  LET old == IF last_remote_meta = None THEN remote_channels ELSE last_remote_meta
  IN  /\ n # last_remote_meta
      /\ remote_channels' = n
      /\ last_remote_meta' = n
      /\ \/ n # old /\ reset_session
         \/ n = old /\ UNCHANGED <<groups, last_drained_ts, last_seq, decodes>>
      /\ UNCHANGED sender

\* A new handshake, or the epoch counter moved (watchdog, interface change).
ResetSession ==
  /\ reset_session
  /\ last_remote_meta' = None
  /\ UNCHANGED <<sender, remote_channels>>

Next ==
  \/ SendFrame \/ RestartPeer
  \/ Receive \/ IdlePoll \/ ResetSession
  \/ \E t \in Ts : TimeOut(t)
  \/ \E n \in 1..MaxChannels : Metadata(n)

\* The receive thread polls at least every millisecond, and clocks advance:
\* while groups wait, some timeout is eventually reached.
Fairness == WF_vars(IdlePoll) /\ WF_vars(\E t \in Ts : TimeOut(t))

Spec == Init /\ [][Next]_vars /\ Fairness

-----------------------------------------------------------------------------
(* Properties *)

\* The peer has not streamed for half the timestamp space (12.4 hours for 2^32
\* samples at 48 kHz): what the theorems about the watermark assume.
NotWrapped == 2 * ts < TsMod

Frame == [n : 0..MaxFrames, ts : Ts, seq : Seqs]

PeerType ==
  /\ ts \in Ts /\ seq \in Seqs
  /\ sent \in 0..MaxFrames /\ restarts \in 0..MaxRestarts
  /\ net \subseteq Frame

QueueType(gs, mark, d) ==
  /\ DOMAIN gs \subseteq Ts
  /\ gs \in [DOMAIN gs -> FrameGroup]
  /\ mark \in Ts \cup {None}
  /\ d \in [Ts -> Nat]

TypeOK ==
  /\ PeerType
  /\ QueueType(groups, last_drained_ts, decodes)
  /\ last_seq \in [Chan -> Seqs \cup {None}]
  /\ remote_channels \in 1..MaxChannels
  /\ last_remote_meta \in (1..MaxChannels) \cup {None}

\* The watermark "prevents double-decode" (jitter.rs, drain_phase_locked_groups):
\* between two resets no timestamp's group is decoded a second time, whatever
\* the network loses, repeats or delays.
NoDoubleDecode == \A t \in Ts : decodes[t] <= 1

\* The drain indexes decoders and rings by remote_channels, while a group
\* waits for the channels that were known when it was created: every queued
\* group waits for exactly the channels the peer has now, because any change
\* of the count empties the queue.
WaitsFor(gs, n) == \A t \in DOMAIN gs : gs[t].expected = 0..(n - 1)

GroupsMatchLayout == WaitsFor(groups, remote_channels)

\* The session begins anew: with nothing, after a handshake, new metadata or
\* an epoch; or with a packet more than Rollback behind the watermark.
BeginsAnew ==
  \/ groups' = NoGroups /\ last_drained_ts' = None /\ last_seq' = NoSeqs
  \/ \E f \in net : f.ts + Rollback < last_drained_ts /\ DOMAIN groups' \subseteq {f.ts}

\* A packet that entered the queue leaves it by being decoded with its group or
\* by the end of the session.  No packet that is merely late, of this stream or
\* of one before a restart, ends the session (engine.rs:634-642): that takes one
\* more than Rollback behind what was played.
PacketsKept ==
  [][\A t \in DOMAIN groups :
       \/ t \in DOMAIN groups' /\ groups[t].packets \subseteq groups'[t].packets
       \/ decodes'[t] > decodes[t]
       \/ BeginsAnew]_vars

\* Frames come out in the order of their timestamps, each at most once, in the
\* turn of a drain as from turn to turn (jitter.rs:106-127), and only a reset or
\* a restart of the peer lets the thread go back: the buffer implements the
\* abstract playout, whose last frame is the watermark.
Abstract == INSTANCE Playout WITH Stamps <- Ts, plays <- decodes, last <- last_drained_ts
ImplementsPlayout == Abstract!Spec

\* Head-of-line blocking ends: a queued group, complete or not, is eventually
\* decoded or discarded by a reset, however many groups are queued before it.
QueueDrains == \A t \in Observed : t \in DOMAIN groups ~> t \notin DOMAIN groups
==============================================================================
