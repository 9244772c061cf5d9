----------------------------- MODULE SendProofs -----------------------------
(***************************************************************************)
(* The send loop keeps to real time: it never runs ahead, its bursts are   *)
(* short and the silence it adds is bounded, for every frame length, ring  *)
(* and delay of the device.                                                *)
(***************************************************************************)
EXTENDS Send, TLAPS

USE SendAssumption DEF SendAssumption

\* What has been sent fits into the deadlines that have passed.
OnDeadline == frames * Dur <= IF pc = "frame" THEN next_dl - Dur ELSE next_dl

\* The next deadline is at most a frame ahead.
DeadlineNear == next_dl <= now + Dur

\* Every tick since the start was sent, is on its way, or is lost.
Account == now <= frames * Dur - silence + pending + ring + lost

\* Where a burst stands: how far the deadlines have come by its k-th frame.
BurstStage ==
  /\ burst <= 4
  /\ pc = "frame" =>
       /\ burst >= 1 => next_dl + Dur >= now
       /\ burst >= 2 => next_dl >= now
       /\ burst >= 3 => next_dl > now
       /\ burst <= 3
  /\ pc = "sleep" =>
       /\ burst >= 2 => next_dl + Dur >= now
       /\ burst >= 3 => next_dl >= now
       /\ burst >= 4 => next_dl > now

IInv == TypeOK /\ OnDeadline /\ DeadlineNear /\ Account /\ SilenceBounded /\ BurstStage

\* Skipping leaves a deadline that is at most a frame old, and none in the future.
LEMMA CaughtUpBounds ==
  ASSUME now \in Nat, NEW dl \in Nat
  PROVE  /\ CaughtUp(dl) \in Nat /\ CaughtUp(dl) >= dl
         /\ CaughtUp(dl) = dl \/ CaughtUp(dl) < now
         /\ CaughtUp(dl) + Dur >= now
         /\ dl + Dur >= now => CaughtUp(dl) = dl
<1>1. CASE ~(dl + Dur < now)
  BY <1>1 DEF CaughtUp
<1>2. CASE dl + Dur < now
  <2> DEFINE x == now - dl - 1
             q == x \div Dur
  <2>1. x \in Nat /\ x = now - dl - 1
    BY <1>2
  <2>2. q \in Nat /\ Dur * q <= x /\ x < Dur * q + Dur
    <3> HIDE DEF x
    <3>1. q \in Int /\ x % Dur \in 0..(Dur - 1) /\ x = Dur * q + (x % Dur)
      BY <2>1 DEF q
    <3>2. q >= 0
      BY <2>1 DEF q
    <3> HIDE DEF q
    <3>3. Dur * q \in Int
      BY <3>1
    <3> QED BY <3>1, <3>2, <3>3, <2>1
  <2>3. CaughtUp(dl) = dl + Dur * q
    BY <1>2 DEF CaughtUp
  <2> HIDE DEF q, x
  <2>4. Dur * q \in Nat
    BY <2>2
  <2> QED BY <1>2, <2>1, <2>2, <2>3, <2>4
<1> QED BY <1>1, <1>2

\* One more frame is Dur more units.
LEMMA OneMoreFrame ==
  ASSUME frames \in Nat
  PROVE  frames * Dur \in Nat /\ (frames + 1) * Dur = frames * Dur + Dur
OBVIOUS

LEMMA InitIInv == Init => IInv
<1> SUFFICES ASSUME Init PROVE IInv
  OBVIOUS
<1>1. TypeOK
  <2>1. seqs \in [Channels -> 0..(SeqMod - 1)] /\ handed = {} /\ connected \in BOOLEAN
    <3>1. 0 \in 0..(SeqMod - 1)
      OBVIOUS
    <3> QED BY <3>1, Zenon DEF Init
  <2> QED BY <2>1 DEF Init, TypeOK
<1>2. OnDeadline /\ DeadlineNear /\ Account /\ SilenceBounded /\ BurstStage
  BY DEF Init, OnDeadline, DeadlineNear, Account, SilenceBounded, BurstStage
<1> QED BY <1>1, <1>2 DEF IInv

LEMMA TickIInv == IInv /\ Tick => IInv'
<1> SUFFICES ASSUME IInv, Tick PROVE IInv'
  OBVIOUS
<1> frames * Dur \in Nat
  BY OneMoreFrame DEF IInv, TypeOK
<1> QED BY DEF IInv, Tick, TypeOK, OnDeadline, DeadlineNear, Account,
          SilenceBounded, BurstStage

LEMMA CaptureIInv == IInv /\ Capture => IInv'
<1> SUFFICES ASSUME IInv, Capture PROVE IInv'
  OBVIOUS
<1> PICK n \in 1..pending :
         /\ pending' = pending - n
         /\ ring' = Least(ring + n, CapRing)
         /\ lost' = lost + (ring + n - ring')
         /\ UNCHANGED <<now, next_dl, pc, frames, silence, connected, seqs, handed, burst>>
  BY DEF Capture
<1> frames * Dur \in Nat
  BY OneMoreFrame DEF IInv, TypeOK
<1>1. ring' \in 0..CapRing /\ ring' <= ring + n
  BY DEF IInv, TypeOK, Least
<1>2. TypeOK'
  BY <1>1 DEF IInv, TypeOK
<1>3. OnDeadline' /\ DeadlineNear' /\ BurstStage'
  BY DEF IInv, OnDeadline, DeadlineNear, BurstStage
<1>4. Account' /\ SilenceBounded'
  BY <1>1 DEF IInv, TypeOK, Account, SilenceBounded
<1> QED BY <1>2, <1>3, <1>4 DEF IInv

LEMMA SetConnectedIInv == IInv /\ SetConnected => IInv'
BY DEF IInv, SetConnected, input, TypeOK, OnDeadline, DeadlineNear, Account, SilenceBounded,
       BurstStage

LEMMA FrameIInv == IInv /\ Frame => IInv'
<1> SUFFICES ASSUME IInv, Frame PROVE IInv'
  OBVIOUS
<1> DEFINE got == Least(ring, Dur)
<1>1. /\ pc = "frame" /\ pc' = "sleep" /\ frames' = frames + 1 /\ burst' = burst + 1
      /\ ring' = ring - got /\ silence' = silence + (Dur - got)
      /\ UNCHANGED <<now, next_dl, pending, lost, connected>>
  BY DEF Frame
<1>2. got \in Nat /\ got <= ring /\ got <= Dur /\ (got = Dur \/ got = ring)
  BY DEF IInv, TypeOK, Least
<1>3. frames * Dur \in Nat /\ frames' * Dur = frames * Dur + Dur
  BY <1>1, OneMoreFrame DEF IInv, TypeOK
<1>4. /\ seqs' \in [Channels -> 0..(SeqMod - 1)]
      /\ handed' \subseteq [seq : 0..(SeqMod - 1), ts : Nat, channel : Channels]
  <2>1. \A ch \in Channels : (seqs[ch] + 1) % SeqMod \in 0..(SeqMod - 1)
    BY DEF IInv, TypeOK
  <2>2. seqs' \in [Channels -> 0..(SeqMod - 1)]
    BY <2>1 DEF IInv, TypeOK, Frame
  <2>3. \A ch \in Channels :
          Packet(ch) \in [seq : 0..(SeqMod - 1), ts : Nat, channel : Channels]
    BY DEF IInv, TypeOK, Packet
  <2>4. handed' \subseteq [seq : 0..(SeqMod - 1), ts : Nat, channel : Channels]
    BY <2>3 DEF Frame
  <2> QED BY <2>2, <2>4
<1> HIDE DEF got
<1>5. TypeOK'
  BY <1>1, <1>2, <1>4 DEF IInv, TypeOK
<1>6. OnDeadline' /\ DeadlineNear'
  BY <1>1, <1>3, <1>5 DEF IInv, TypeOK, OnDeadline, DeadlineNear
<1>7. Account'
  BY <1>1, <1>2, <1>3 DEF IInv, TypeOK, Account
<1>8. SilenceBounded'
  <2>1. CASE got = Dur
    BY <2>1, <1>1 DEF IInv, TypeOK, SilenceBounded
  <2>2. CASE got = ring
    <3>1. ring' = 0
      BY <2>2, <1>1 DEF IInv, TypeOK
    <3>2. frames' * Dur \in Nat /\ frames' * Dur <= now + Dur
      BY <1>1, <1>3, <1>6 DEF IInv, TypeOK, OnDeadline, DeadlineNear
    <3> QED BY <3>1, <3>2, <1>1, <1>2, <1>3, <1>5, <1>7
            DEF TypeOK, Account, SilenceBounded
  <2> QED BY <2>1, <2>2, <1>2
<1>9. BurstStage'
  BY <1>1 DEF IInv, TypeOK, BurstStage
<1> QED BY <1>5, <1>6, <1>7, <1>8, <1>9 DEF IInv

LEMMA WakeIInv == IInv /\ Wake => IInv'
<1> SUFFICES ASSUME IInv, Wake PROVE IInv'
  OBVIOUS
<1> DEFINE dl == next_dl + Dur
<1>1. /\ pc = "sleep" /\ pc' = "frame" /\ now >= next_dl /\ next_dl' = CaughtUp(dl)
      /\ UNCHANGED <<now, frames, pending, ring, silence, lost, connected, seqs, handed, burst>>
  BY DEF Wake, input
<1>2. now \in Nat /\ dl \in Nat /\ dl = next_dl + Dur
  BY DEF IInv, TypeOK
<1> HIDE DEF dl
<1>3. /\ next_dl' \in Nat /\ next_dl' >= dl
      /\ next_dl' = dl \/ next_dl' < now
      /\ next_dl' + Dur >= now
      /\ dl + Dur >= now => next_dl' = dl
  BY <1>1, <1>2, CaughtUpBounds
<1>4. frames * Dur \in Nat
  BY OneMoreFrame DEF IInv, TypeOK
<1>5. TypeOK' /\ Account' /\ SilenceBounded'
  BY <1>1, <1>3 DEF IInv, TypeOK, Account, SilenceBounded
<1>6. OnDeadline' /\ DeadlineNear'
  BY <1>1, <1>2, <1>3, <1>4 DEF IInv, TypeOK, OnDeadline, DeadlineNear
<1>7. BurstStage'
  BY <1>1, <1>2, <1>3 DEF IInv, TypeOK, BurstStage
<1> QED BY <1>5, <1>6, <1>7 DEF IInv

LEMMA NextIInv == IInv /\ [Next]_vars => IInv'
<1> SUFFICES ASSUME IInv, [Next]_vars PROVE IInv'
  OBVIOUS
<1>1. CASE UNCHANGED vars
  BY <1>1 DEF vars, input, IInv, TypeOK, OnDeadline, DeadlineNear, Account, SilenceBounded,
              BurstStage
<1> QED BY <1>1, TickIInv, CaptureIInv, SetConnectedIInv, FrameIInv, WakeIInv DEF Next

LEMMA Inductive == Spec => []IInv
BY InitIInv, NextIInv, PTL DEF Spec

\* The counters, the ring and the sequence numbers stay in their ranges.
THEOREM TypeCorrect == Spec => []TypeOK
BY Inductive, PTL DEF IInv

\* The stream is never more than one frame ahead of real time (sleep_until and the
\* catching up of the send loop).
THEOREM NeverRunsAhead == Spec => []NeverAhead
<1>1. IInv => NeverAhead
  <2> SUFFICES ASSUME IInv PROVE NeverAhead
    OBVIOUS
  <2>1. frames * Dur \in Nat
    BY OneMoreFrame DEF IInv, TypeOK
  <2> QED BY <2>1
          DEF IInv, TypeOK, OnDeadline, DeadlineNear, NeverAhead
<1> QED BY <1>1, Inductive, PTL

\* However long the thread was delayed, four frames at most leave at once.
THEOREM BurstsBounded == Spec => []BurstBounded
<1>1. IInv => BurstBounded
  BY DEF IInv, BurstStage, BurstBounded
<1> QED BY <1>1, Inductive, PTL

\* Silence is sent for the longest delay of the device and a frame, not more, unless
\* the ring overflows.
THEOREM SilenceIsBounded == Spec => []SilenceBounded
BY Inductive, PTL DEF IInv
=============================================================================
