------------------------------- MODULE Playout -------------------------------
(***************************************************************************)
(* What the phase-locked jitter buffer promises the rest of the receive    *)
(* thread, with the queue, the packets and the clock left out.  A frame is *)
(* named by its RTP timestamp.  The thread plays frames that are later     *)
(* than the last one it played, and nothing else, until a session ends.  A *)
(* session ends in one of two ways: by a reset, after which nothing has    *)
(* been played, or by a frame so far behind the last one that the peer     *)
(* must have restarted its stream, and of the new session no other frame   *)
(* is played in that step.                                                 *)
(*                                                                         *)
(* Nothing here is a translation of code; JitterBuffer.tla is, and it      *)
(* implements this specification (property ImplementsPlayout there).       *)
(***************************************************************************)
EXTENDS Integers

CONSTANTS
  Stamps,          \* the RTP timestamps, a set of naturals
  Rollback,        \* how far behind the last frame a restarted stream begins
  None             \* no frame, less than every timestamp

VARIABLES
  plays,           \* how often each frame was played in this session
  last             \* the frame played last

Silence == [t \in Stamps |-> 0]

Init == plays = Silence /\ last = None

\* Some frames are played, once each, all later than `last`; the last of them
\* is the latest.
Play ==
  LET played == {t \in Stamps : plays'[t] # plays[t]}
  IN  /\ plays' \in [Stamps -> Nat]
      /\ \A t \in played : plays'[t] = plays[t] + 1 /\ last < t /\ t <= last'
      /\ last' \in played

Reset == plays' = Silence /\ last' = None

\* Frame t shows that the peer has restarted, and is played.
Restart(t) ==
  /\ last # None /\ t + Rollback < last
  /\ plays' = [Silence EXCEPT ![t] = 1]
  /\ last' = t

Next == Play \/ Reset \/ (\E t \in Stamps : Restart(t))

Spec == Init /\ [][Next]_<<plays, last>>
==============================================================================
