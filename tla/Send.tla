-------------------------------- MODULE Send --------------------------------
(***************************************************************************)
(* The send pipeline (engine.rs): the callback of the input device fills a *)
(* capture ring, the send thread takes a frame of samples out of it every  *)
(* 20 ms, encodes it for each channel and hands the packets to the socket. *)
(* The web-first mode meters its inputs with the same loop (web.rs).       *)
(*                                                                         *)
(* All inputs get the same samples under one lock, so one ring stands for  *)
(* all.  Time passes in ticks; the device captures a unit of samples per   *)
(* tick, and a frame is Dur units.  What the channels mix is the subject   *)
(* of module Routing.                                                      *)
(***************************************************************************)
EXTENDS Integers, FiniteSets

CONSTANTS
  Dur,            \* frame_dur in ticks, FRAME_SAMPLES in units
  CapRing,        \* CAP_RING_SIZE in units
  MaxDelay,       \* the device calls back before it holds more than this
  Channels,       \* channels_to_send of the first remote
  SeqMod,         \* sequence numbers wrap here (2^16)
  MaxTime         \* bound: ticks

ASSUME SendAssumption ==
  /\ Dur \in Nat \ {0} /\ CapRing \in Nat /\ MaxDelay \in Nat /\ MaxTime \in Nat
  /\ SeqMod \in Nat \ {0}

VARIABLES
  now, next_dl,   \* ticks since the thread started
  pc,             \* the send thread: "frame" or "sleep"
  frames,         \* frames sent; ts is this many frames
  pending,        \* units captured but not delivered yet
  ring,           \* input_rings: units queued
  silence,        \* history: units of silence sent for want of samples
  lost,           \* history: units lost when the ring was full
  connected,      \* handshake_connected of the first session
  seqs,           \* per channel, RemoteTxHandle
  handed,         \* the packets of the last frame handed to the socket
  burst           \* history: frames sent since the last tick

input == <<pending, ring>>
vars == <<now, next_dl, pc, frames, input, silence, lost, connected, seqs, handed, burst>>

\* The device has started before the thread.
Init ==
  /\ now = 0 /\ next_dl = Dur /\ pc = "frame" /\ frames = 0
  /\ pending \in 0..MaxDelay /\ ring \in 0..CapRing /\ silence = 0 /\ lost = 0
  /\ connected = FALSE /\ seqs = [ch \in Channels |-> 0] /\ handed = {}
  /\ burst = 0

Least(a, b) == IF a <= b THEN a ELSE b

-----------------------------------------------------------------------------
(* Time, the input device, the handshake *)

Tick ==
  /\ now < MaxTime /\ pending < MaxDelay
  /\ now' = now + 1 /\ pending' = pending + 1 /\ burst' = 0
  /\ UNCHANGED <<next_dl, pc, frames, ring, silence, lost, connected, seqs, handed>>

\* Mutant: the ring grows as long as the thread is delayed.
CaptureUnbounded ==
  \E n \in 1..pending :
    /\ pending' = pending - n
    /\ ring' = ring + n
    /\ UNCHANGED <<now, next_dl, pc, frames, silence, lost, connected, seqs, handed, burst>>

\* The callback pushes what it gets, and the oldest sample out if the ring is full.
Capture ==
  \E n \in 1..pending :
    /\ pending' = pending - n
    /\ ring' = Least(ring + n, CapRing)
    /\ lost' = lost + (ring + n - ring')
    /\ UNCHANGED <<now, next_dl, pc, frames, silence, connected, seqs, handed, burst>>

SetConnected ==
  /\ connected' = ~connected
  /\ UNCHANGED <<now, next_dl, pc, frames, input, silence, lost, seqs, handed, burst>>

-----------------------------------------------------------------------------
(* The send thread *)

Packet(ch) == [seq |-> seqs[ch], ts |-> frames, channel |-> ch]

\* No code path connects the socket, udp_disconnect_socket only disconnects it; the
\* kernel refuses send() on it, and the error is dropped.
SocketPeerKnown == FALSE
Accepted(packets) == IF SocketPeerKnown THEN packets ELSE {}

\* Mutant: what is left of a short ring goes with the silence.
FrameAllOrNothing ==
  /\ pc = "frame" /\ pc' = "sleep"
  /\ LET got == IF ring < Dur THEN 0 ELSE Dur
     IN  ring' = (IF ring < Dur THEN 0 ELSE ring - Dur) /\ silence' = silence + (Dur - got)
  /\ handed' = IF connected THEN {Packet(ch) : ch \in Channels} ELSE {}
  /\ seqs' = IF connected THEN [ch \in Channels |-> (seqs[ch] + 1) % SeqMod] ELSE seqs
  /\ frames' = frames + 1
  /\ burst' = burst + 1
  /\ UNCHANGED <<now, next_dl, pending, lost, connected>>

\* A frame is popped, with silence for what is missing, and fanned out.
Frame ==
  /\ pc = "frame" /\ pc' = "sleep"
  /\ LET got == Least(ring, Dur)
     IN  ring' = ring - got /\ silence' = silence + (Dur - got)
  /\ handed' = IF connected THEN {Packet(ch) : ch \in Channels} ELSE {}
  /\ seqs' = IF connected THEN [ch \in Channels |-> (seqs[ch] + 1) % SeqMod] ELSE seqs
  /\ frames' = frames + 1
  /\ burst' = burst + 1
  /\ UNCHANGED <<now, next_dl, pending, lost, connected>>

\* Mutant: no deadline is skipped.
CaughtUpNever(dl) == dl

\* Deadlines missed by more than a frame are skipped.
CaughtUp(dl) ==
  IF dl + Dur < now THEN dl + Dur * ((now - dl - 1) \div Dur) ELSE dl

\* Mutant: the thread sleeps to the last tick before the deadline and does not spin.
WakeEarly ==
  /\ pc = "sleep" /\ pc' = "frame"
  /\ now + 1 >= next_dl
  /\ next_dl' = CaughtUp(next_dl + Dur)
  /\ UNCHANGED <<now, frames, input, silence, lost, connected, seqs, handed, burst>>

\* sleep_until returns at once if the deadline has passed.
Wake ==
  /\ pc = "sleep" /\ pc' = "frame"
  /\ now >= next_dl
  /\ next_dl' = CaughtUp(next_dl + Dur)
  /\ UNCHANGED <<now, frames, input, silence, lost, connected, seqs, handed, burst>>

-----------------------------------------------------------------------------
Next == Tick \/ Capture \/ SetConnected \/ Frame \/ Wake

Spec == Init /\ [][Next]_vars

-----------------------------------------------------------------------------
(* Properties *)

TypeOK ==
  /\ now \in 0..MaxTime /\ next_dl \in Nat /\ pc \in {"frame", "sleep"} /\ frames \in Nat
  /\ pending \in 0..MaxDelay /\ ring \in 0..CapRing
  /\ silence \in Nat /\ lost \in Nat
  /\ connected \in BOOLEAN /\ seqs \in [Channels -> 0..(SeqMod - 1)]
  /\ handed \subseteq [seq : 0..(SeqMod - 1), ts : Nat, channel : Channels]
  /\ burst \in Nat

\* However the thread is delayed and catches up, the stream never runs ahead of real
\* time by more than the first frame, which is sent at once.
NeverAhead == frames * Dur <= now + Dur

\* After a delay the frames that were not skipped follow at once: the one that was
\* late, the one whose deadline was passed while it was made, and two more.
BurstBounded == burst <= 4

\* The ring starts with no cushion, and the thread sends silence in the middle of the
\* audio when the device delivers late.  But silence sent makes a cushion: in total
\* it is no more than the longest delay of the device and a frame, unless samples
\* are lost.
SilenceBounded == silence <= MaxDelay + Dur + lost

\* README, handshake: once connected, "STREAMING send 09 06 per channel per 20 ms": what
\* is handed to the socket goes out.
MediaGoesOut == Accepted(handed) = handed
=============================================================================
