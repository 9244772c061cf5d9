--------------------------- MODULE PlaybackProofs ---------------------------
(***************************************************************************)
(* What holds of Playback for any number of channels, any capacity of the  *)
(* rings, any prime level and either version of the callback: its types,   *)
(* that a reset accounts for all the audio it leaves behind, and that the  *)
(* channels of a frame are played together.                                *)
(***************************************************************************)
EXTENDS Playback, SequenceTheorems, FiniteSetTheorems, WellOrder

-----------------------------------------------------------------------------
(* Types                                                                   *)

\* The locals of the two threads, which TypeOK leaves open.
Local ==
  /\ c_pc = "flush" => remaining > 0 /\ flush_samples > 0 /\ ~Resampled
  /\ c_pc # "dry" => empty_cb < EmptyMax
  /\ c_pc \in {"idle", "dry"} \/ c_ch = 0 => popped = {}
  /\ r_pc = "push" => r_ch < remote_channels
  /\ r_pc # "push" => r_ch = 0
  /\ ~Resetting => r_next = "top"

TypeInv == TypeOK /\ Local

LEMMA Bounds ==
  ASSUME TypeOK
  PROVE  /\ remote_channels \in 1..NumChannels /\ NumChannels \in Nat /\ Cap \in Nat
         /\ Active \subseteq Chan /\ 0 \in Active /\ InUse \in 1..NumChannels
         /\ \A ch \in Chan : ring[ch] \in Seq(Unit) /\ Len(ring[ch]) \in 0..Cap
         /\ \A ch \in Chan : \A i \in DOMAIN ring[ch] : ring[ch][i] \in Unit /\ i \in 1..Cap
<1>1. remote_channels \in 1..NumChannels
  BY PlaybackAssumption DEF TypeOK
<1>2. \A ch \in Chan : ring[ch] \in Seq(Unit) /\ Len(ring[ch]) \in 0..Cap
  BY PlaybackAssumption DEF TypeOK
<1> QED
  BY <1>1, <1>2, PlaybackAssumption DEF Active, InUse, Chan

\* MaxFill is the fill of the fullest ring.
LEMMA Fullest ==
  ASSUME TypeOK
  PROVE  /\ MaxFill(Active) \in 0..Cap
         /\ \A ch \in Active : Len(ring[ch]) <= MaxFill(Active)
         /\ \E ch \in Active : Len(ring[ch]) = MaxFill(Active)
<1> DEFINE fills == {Len(ring[ch]) : ch \in Active}
<1>1. fills \subseteq 0..Cap /\ fills # {} /\ Cap \in Nat
  BY Bounds
<1>2. \E m \in fills : \A n \in fills : n <= m
  BY <1>1, GreatestNumber
<1>3. \E m \in 0..Cap : /\ \E ch \in Active : Len(ring[ch]) = m
                        /\ \A ch \in Active : Len(ring[ch]) <= m
  BY <1>1, <1>2
<1> QED
  BY <1>3 DEF MaxFill

\* A ring whose units were marked stale.
Marked(s) == [i \in DOMAIN s |-> [s[i] EXCEPT !.stale = TRUE]]

LEMMA MarkedRing ==
  ASSUME NEW s \in Seq(Unit)
  PROVE  /\ Marked(s) \in Seq(Unit) /\ Len(Marked(s)) = Len(s) /\ DOMAIN Marked(s) = DOMAIN s
         /\ \A i \in DOMAIN s : Marked(s)[i] = [s[i] EXCEPT !.stale = TRUE] /\ Marked(s)[i].stale
<1>1. Len(s) \in Nat /\ DOMAIN s = 1..Len(s)
  BY LenProperties
<1>2. ASSUME NEW i \in DOMAIN s
      PROVE  [s[i] EXCEPT !.stale = TRUE] \in Unit /\ [s[i] EXCEPT !.stale = TRUE].stale
  <2>1. s[i] \in Unit
    OBVIOUS
  <2>2. ASSUME NEW u \in Unit PROVE [u EXCEPT !.stale = TRUE] \in Unit /\ [u EXCEPT !.stale = TRUE].stale
    BY DEF Unit
  <2> QED BY <2>1, <2>2
<1>3. Marked(s) \in [1..Len(s) -> Unit] /\ \A i \in DOMAIN s : Marked(s)[i] = [s[i] EXCEPT !.stale = TRUE]
  BY <1>1, <1>2 DEF Marked
<1>4. Marked(s) \in Seq(Unit)
  BY <1>1, <1>3, SeqDef
<1>5. DOMAIN Marked(s) = 1..Len(s)
  BY <1>3
<1>6. Len(Marked(s)) = Len(s)
  BY <1>1, <1>4, <1>5, LenProperties
<1> QED
  BY <1>1, <1>2, <1>3, <1>4, <1>5, <1>6

\* One ring is replaced.
LEMMA OneRing ==
  ASSUME TypeOK, NEW ch \in Chan, NEW s \in Seq(Unit), Len(s) <= Cap,
         ring' = [ring EXCEPT ![ch] = s]
  PROVE  ring' \in [Chan -> Seq(Unit)] /\ \A c \in Chan : Len(ring'[c]) <= Cap
<1>1. ring \in [Chan -> Seq(Unit)] /\ \A c \in Chan : Len(ring[c]) <= Cap
  BY DEF TypeOK
<1>2. ring' \in [Chan -> Seq(Unit)] /\ \A c \in Chan : ring'[c] = IF c = ch THEN s ELSE ring[c]
  BY <1>1
<1> QED
  BY <1>1, <1>2

LEMMA InitTypes == Init => TypeInv
<1> SUFFICES ASSUME Init PROVE TypeInv
  OBVIOUS
<1>1. ring \in [Chan -> Seq(Unit)] /\ \A ch \in Chan : Len(ring[ch]) <= Cap
  BY PlaybackAssumption DEF Init
<1>2. {connected, epoch_moved, started, dropping, c_clean, disturbed, overwritten} \subseteq BOOLEAN
  BY DEF Init
<1>3. /\ remote_channels \in Counts \cup {NumChannels}
      /\ flush_samples \in 0..(Cap + 1) /\ remaining \in 0..(Cap + 1) /\ old_fill \in 0..Cap
      /\ empty_cb \in 0..EmptyMax
      /\ next_frame \in 0..(Frames - 1) /\ others \subseteq {"connected", "started"}
  BY PlaybackAssumption DEF Init
<1>4. /\ r_pc \in {"top", "recv", "read", "stop", "flush", "push", "prime"}
      /\ r_next \in {"top", "recv", "push"} /\ r_ch \in Chan
      /\ c_pc \in {"idle", "play", "dry", "flush"} /\ c_active \in 1..NumChannels
      /\ c_ch \in 0..c_active /\ popped \subseteq Unit
  BY PlaybackAssumption DEF Init, Chan
<1>5. Local
  BY PlaybackAssumption DEF Init, Local, Resetting
<1> QED
  BY <1>1, <1>2, <1>3, <1>4, <1>5 DEF TypeInv, TypeOK

LEMMA ResetTypes ==
  ASSUME TypeInv, ResetReads \/ ResetStops \/ ResetFlushes PROVE TypeInv'
<1>1. CASE ResetReads
  <2>1. old_fill' \in 0..Cap
    BY <1>1, Fullest DEF ResetReads, TypeInv
  <2>2. ring' \in [Chan -> Seq(Unit)] /\ \A ch \in Chan : Len(ring'[ch]) <= Cap
    <3>1. \A ch \in Chan : ring'[ch] \in Seq(Unit) /\ Len(ring'[ch]) = Len(ring[ch])
      <4>1. \A ch \in Chan : ring'[ch] = Marked(ring[ch])
        BY <1>1 DEF ResetReads, Marked
      <4> QED BY <4>1, MarkedRing, Bounds DEF TypeInv
    <3>2. ring' = [ch \in Chan |-> ring'[ch]]
      BY <1>1 DEF ResetReads
    <3> QED BY <3>1, <3>2, Bounds DEF TypeInv
  <2> QED
    BY <1>1, <2>1, <2>2 DEF ResetReads, TypeInv, TypeOK, Local, Resetting, atomics, callback
<1>2. CASE ResetStops
  <2>1. 0 \in 0..EmptyMax /\ 0 < EmptyMax
    BY PlaybackAssumption
  <2>2. TypeOK'
    BY <1>2, <2>1 DEF ResetStops, TypeInv, TypeOK, callback
  <2> QED
    BY <1>2, <2>1, <2>2 DEF ResetStops, TypeInv, Local, Resetting, callback
<1>3. CASE ResetFlushes
  <2>1. r_pc' # "push" \/ 0 < remote_channels
    BY Bounds DEF TypeInv
  <2> QED
    BY <1>3, <2>1, PlaybackAssumption DEF ResetFlushes, TypeInv, TypeOK, Local, Resetting, callback
<1> QED
  BY <1>1, <1>2, <1>3

LEMMA PushTypes == ASSUME TypeInv, Push PROVE TypeInv'
<1> DEFINE unit == [n |-> next_frame, stale |-> FALSE]
<1>1. unit \in Unit
  BY DEF Unit, TypeInv, TypeOK
<1>2. ring' \in [Chan -> Seq(Unit)] /\ \A ch \in Chan : Len(ring'[ch]) <= Cap
  <2>1. r_ch \in Chan /\ ring[r_ch] \in Seq(Unit) /\ Len(ring[r_ch]) \in 0..Cap /\ TypeOK
    BY Bounds DEF TypeInv, TypeOK
  <2>2. CASE Len(ring[r_ch]) = Cap
    BY <2>2 DEF Push, TypeInv, TypeOK
  <2>3. CASE Len(ring[r_ch]) # Cap
    <3>1. ring' = [ring EXCEPT ![r_ch] = Append(ring[r_ch], unit)]
      BY <2>3 DEF Push
    <3> HIDE DEF unit
    <3>2. Append(ring[r_ch], unit) \in Seq(Unit) /\ Len(Append(ring[r_ch], unit)) <= Cap
      BY <1>1, <2>1, <2>3, PlaybackAssumption
    <3> QED BY <2>1, <3>1, <3>2, OneRing
  <2> QED BY <2>2, <2>3
<1>3. r_ch' \in Chan /\ (r_pc' = "push" => r_ch' < remote_channels) /\ (r_pc' # "push" => r_ch' = 0)
      /\ r_pc' \in {"push", "prime"}
  <2>1. remote_channels \in 1..NumChannels /\ NumChannels \in Nat /\ r_ch \in 0..(NumChannels - 1)
    BY Bounds DEF TypeInv, TypeOK, Chan
  <2> QED BY <2>1 DEF Push, NextPush, Chan
<1>4. empty_cb' \in {0, empty_cb} /\ {disturbed', overwritten'} \subseteq BOOLEAN
  BY DEF Push, NextPush, TypeInv, TypeOK
<1> QED
  BY <1>2, <1>3, <1>4, PlaybackAssumption
  DEF Push, TypeInv, TypeOK, Local, Resetting, callback

LEMMA ReceiveTypes == ASSUME TypeInv, Receive PROVE TypeInv'
<1>1. CASE LoopTop
  BY <1>1 DEF LoopTop, ResetThen, TypeInv, TypeOK, Local, Resetting, callback
<1>2. CASE NoPacket
  BY <1>2 DEF NoPacket, TypeInv, TypeOK, Local, Resetting, callback, atomics
<1>3. CASE Handshake
  BY <1>3 DEF Handshake, ResetThen, TypeInv, TypeOK, Local, Resetting, callback
<1>4. ASSUME NEW n \in Counts, Metadata(n) PROVE TypeInv'
  BY <1>4 DEF Metadata, ResetThen, TypeInv, TypeOK, Local, Resetting, callback
<1>5. CASE Media
  <2>1. next_frame' \in 0..(Frames - 1)
    BY <1>5, PlaybackAssumption DEF Media, TypeInv, TypeOK
  <2>2. 0 < remote_channels /\ 0 \in Chan
    BY Bounds DEF TypeInv
  <2> QED
    BY <1>5, <2>1, <2>2 DEF Media, ResetThen, TypeInv, TypeOK, Local, Resetting, callback, atomics
<1>6. CASE PrimeCheck
  BY <1>6 DEF PrimeCheck, TypeInv, TypeOK, Local, Resetting, callback
<1> QED
  BY <1>1, <1>2, <1>3, <1>4, <1>5, <1>6, ResetTypes, PushTypes DEF Receive

LEMMA Returned ==
  ASSUME CallbackReturns
  PROVE  /\ c_pc' = "idle" /\ c_active' = 1 /\ c_ch' = 0 /\ c_ch' \in 0..c_active'
         /\ remaining' = 0 /\ popped' = {} /\ c_clean' = TRUE
  BY DEF CallbackReturns

LEMMA CallbackTypes == ASSUME TypeInv, Callback PROVE TypeInv'
<1>0. 0 \in Chan /\ 1 \in 1..NumChannels
  BY Bounds DEF TypeInv
<1>1. CASE CallbackBegins
  <2>1. c_active' \in 1..NumChannels
    BY <1>1, Bounds DEF CallbackBegins, TypeInv
  <2>2. c_clean' \in BOOLEAN /\ {disturbed', overwritten'} \subseteq BOOLEAN
    BY <1>1 DEF CallbackBegins, TypeInv, TypeOK
  <2>3. remaining' \in 0..(Cap + 1) /\ c_ch' \in 0..c_active' /\ popped' = {}
    BY <1>1, <2>1, PlaybackAssumption DEF CallbackBegins, TypeInv, TypeOK
  <2>4. TypeOK'
    BY <1>1, <2>1, <2>2, <2>3 DEF CallbackBegins, TypeInv, TypeOK, receiver, atomics
  <2> QED
    BY <1>1, <2>4 DEF CallbackBegins, TypeInv, Local, Resetting, receiver, atomics
<1>2. CASE Pop
  <2>1. c_ch \in Chan /\ ring \in [Chan -> Seq(Unit)] /\ ring[c_ch] \in Seq(Unit)
    <3>1. c_active \in 1..NumChannels /\ c_ch \in 0..c_active /\ c_ch < c_active
      BY <1>2 DEF Pop, TypeInv, TypeOK
    <3>2. c_ch \in Chan
      BY <3>1, PlaybackAssumption DEF Chan
    <3> QED BY <3>2 DEF TypeInv, TypeOK
  <2>2. /\ ring' \in [Chan -> Seq(Unit)] /\ \A ch \in Chan : Len(ring'[ch]) <= Len(ring[ch])
        /\ popped' \subseteq Unit /\ {disturbed', overwritten'} \subseteq BOOLEAN
    <3>1. CASE ring[c_ch] = <<>>
      BY <1>2, <3>1 DEF Pop, TypeInv, TypeOK
    <3>2. CASE ring[c_ch] # <<>>
      <4>1. /\ ring' = [ring EXCEPT ![c_ch] = Tail(@)]
            /\ popped' = popped \cup {Head(ring[c_ch])} /\ {disturbed', overwritten'} \subseteq BOOLEAN
        BY <1>2, <3>2 DEF Pop, TypeInv, TypeOK
      <4>2. /\ Tail(ring[c_ch]) \in Seq(Unit) /\ Head(ring[c_ch]) \in Unit
            /\ Len(Tail(ring[c_ch])) = Len(ring[c_ch]) - 1
        BY <2>1, <3>2
      <4> QED BY <2>1, <4>1, <4>2 DEF TypeInv, TypeOK
    <3> QED BY <3>1, <3>2
  <2>3. \A ch \in Chan : Len(ring'[ch]) <= Cap
    BY <2>2, Bounds DEF TypeInv
  <2>4. c_ch' \in 0..c_active /\ c_ch' # 0
    BY <1>2 DEF Pop, TypeInv, TypeOK
  <2> QED
    BY <1>2, <2>2, <2>3, <2>4 DEF Pop, TypeInv, TypeOK, Local, Resetting, receiver, atomics
<1>3. CASE PlayEnds
  <2>1. empty_cb' \in 0..EmptyMax /\ (c_pc' # "dry" => empty_cb' < EmptyMax)
    BY <1>3, PlaybackAssumption DEF PlayEnds, CallbackReturns, Dry, TypeInv, TypeOK, Local
  <2>2. CASE c_pc' = "dry"
    BY <1>3, <2>1, <2>2
    DEF PlayEnds, CallbackReturns, TypeInv, TypeOK, Local, Resetting, receiver
  <2>3. CASE CallbackReturns
    <3>1. {disturbed', overwritten'} \subseteq BOOLEAN
      BY <1>3 DEF PlayEnds, TypeInv, TypeOK
    <3> QED
      BY <1>0, <1>3, <2>1, <2>3, <3>1, Returned, PlaybackAssumption
      DEF PlayEnds, TypeInv, TypeOK, Local, Resetting, receiver
  <2> QED BY <1>3, <2>2, <2>3 DEF PlayEnds
<1>4. CASE Reprime
  <2>1. EmptyMax > 0 /\ 0 \in 0..EmptyMax
    BY PlaybackAssumption
  <2>2. CallbackReturns /\ empty_cb' = 0 /\ started' \in BOOLEAN
    BY <1>4 DEF Reprime
  <2>3. {connected', epoch_moved', started', dropping', c_clean', disturbed', overwritten'} \subseteq BOOLEAN
    BY <1>4, <2>2, Returned DEF Reprime, TypeInv, TypeOK
  <2>4. TypeOK'
    BY <1>0, <1>4, <2>1, <2>2, <2>3, Returned, PlaybackAssumption
    DEF Reprime, TypeInv, TypeOK, receiver
  <2> QED
    BY <1>4, <2>1, <2>2, <2>4, Returned DEF Reprime, TypeInv, Local, Resetting, receiver
<1>5. CASE FlushEnds
  BY <1>0, <1>5, Returned, PlaybackAssumption
  DEF FlushEnds, TypeInv, TypeOK, Local, Resetting, receiver
<1> QED
  BY <1>1, <1>2, <1>3, <1>4, <1>5 DEF Callback

LEMMA NextTypes == TypeInv /\ [Next]_vars => TypeInv'
<1> SUFFICES ASSUME TypeInv, [Next]_vars PROVE TypeInv'
  OBVIOUS
<1>1. CASE DropConnection
  BY <1>1 DEF DropConnection, TypeInv, TypeOK, Local, Resetting, receiver, callback
<1>2. CASE BumpEpoch
  BY <1>2 DEF BumpEpoch, TypeInv, TypeOK, Local, Resetting, receiver, callback
<1>3. CASE OthersMove
  BY <1>3 DEF OthersMove, TypeInv, TypeOK, Local, Resetting, receiver, callback, atomics
<1>4. CASE UNCHANGED vars
  BY <1>4 DEF vars, TypeInv, TypeOK, Local, Resetting, receiver, callback, atomics
<1> QED
  BY <1>1, <1>2, <1>3, <1>4, ReceiveTypes, CallbackTypes DEF Next

\* Every variable keeps its type: the fill of the rings stays within their capacity,
\* the flush count within what a reset can count, the channels of the callback
\* within the rings there are (engine.rs:740-763, 1225-1405).
THEOREM TypeCorrect == Spec => []TypeOK
<1>1. TypeInv => TypeOK
  BY DEF TypeInv
<1> QED
  BY <1>1, InitTypes, NextTypes, PTL DEF Spec

-----------------------------------------------------------------------------
(* What pushes and pops do to a ring                                       *)

Fresh == [n |-> next_frame, stale |-> FALSE]

LEMMA PushRing ==
  ASSUME TypeInv, Push
  PROVE  /\ r_ch \in Active /\ r_ch \in Chan
         /\ \A ch \in Chan : ch # r_ch => ring'[ch] = ring[ch]
         /\ \/ disturbed' /\ ring' = ring
            \/ /\ disturbed' = disturbed
               /\ Len(ring'[r_ch]) = Len(ring[r_ch]) + 1
               /\ DOMAIN ring'[r_ch] = 1..(Len(ring[r_ch]) + 1)
               /\ \A i \in DOMAIN ring[r_ch] : ring'[r_ch][i] = ring[r_ch][i]
               /\ ring'[r_ch][Len(ring[r_ch]) + 1] = Fresh
<1>1. r_ch \in Chan /\ r_ch \in Active
  BY Bounds DEF TypeInv, TypeOK, Local, Push, Active, Chan
<1>2. ring[r_ch] \in Seq(Unit) /\ ring \in [Chan -> Seq(Unit)] /\ disturbed \in BOOLEAN
  BY <1>1, Bounds DEF TypeInv, TypeOK
<1>3. Fresh \in Unit
  BY DEF Fresh, Unit, TypeInv, TypeOK
<1>4. CASE Len(ring[r_ch]) = Cap
  <2>1. ring' = [ring EXCEPT ![r_ch] = ring[r_ch]]
    BY <1>4 DEF Push
  <2>2. ring' = ring
    BY <1>1, <1>2, <2>1
  <2>3. disturbed'
    BY <1>4 DEF Push
  <2> QED BY <1>1, <2>2, <2>3
<1>5. CASE Len(ring[r_ch]) # Cap
  <2>1. ring' = [ring EXCEPT ![r_ch] = Append(ring[r_ch], Fresh)] /\ disturbed' = disturbed
    BY <1>2, <1>5 DEF Push, Fresh
  <2>2. ring'[r_ch] = Append(ring[r_ch], Fresh) /\ \A ch \in Chan : ch # r_ch => ring'[ch] = ring[ch]
    BY <1>1, <1>2, <2>1
  <2>3. /\ Len(Append(ring[r_ch], Fresh)) = Len(ring[r_ch]) + 1
        /\ DOMAIN Append(ring[r_ch], Fresh) = 1..(Len(ring[r_ch]) + 1)
        /\ \A i \in 1..Len(ring[r_ch]) : Append(ring[r_ch], Fresh)[i] = ring[r_ch][i]
        /\ Append(ring[r_ch], Fresh)[Len(ring[r_ch]) + 1] = Fresh
    BY <1>2, <1>3, AppendProperties
  <2>4. DOMAIN ring[r_ch] = 1..Len(ring[r_ch])
    BY <1>2
  <2> QED BY <1>1, <2>1, <2>2, <2>3, <2>4
<1> QED
  BY <1>4, <1>5

LEMMA PopRing ==
  ASSUME TypeInv, Pop
  PROVE  /\ c_ch \in Chan /\ c_ch' = c_ch + 1 /\ c_ch \in Nat /\ c_ch < c_active
         /\ UNCHANGED <<c_pc, c_active, c_clean>>
         /\ \A ch \in Chan : ch # c_ch => ring'[ch] = ring[ch]
         /\ \/ /\ ring[c_ch] = <<>> /\ ring' = ring /\ popped' = popped
               /\ disturbed' = (disturbed \/ popped # {})
            \/ /\ ring[c_ch] # <<>> /\ Len(ring'[c_ch]) = Len(ring[c_ch]) - 1
               /\ \A i \in DOMAIN ring'[c_ch] : i \in Nat /\ i + 1 \in DOMAIN ring[c_ch]
                                                 /\ ring'[c_ch][i] = ring[c_ch][i + 1]
               /\ 1 \in DOMAIN ring[c_ch] /\ popped' = popped \cup {ring[c_ch][1]}
               /\ disturbed' = (disturbed \/ (c_ch > 0 /\ popped = {}))
<1>1. c_active \in 1..NumChannels /\ c_ch \in 0..c_active /\ c_ch < c_active
  BY DEF Pop, TypeInv, TypeOK
<1>2. c_ch \in Chan
  BY <1>1, PlaybackAssumption DEF Chan
<1>3. ring[c_ch] \in Seq(Unit) /\ ring \in [Chan -> Seq(Unit)]
  BY <1>2 DEF TypeInv, TypeOK
<1>4. c_ch' = c_ch + 1 /\ c_ch \in Nat /\ UNCHANGED <<c_pc, c_active, c_clean>>
  BY <1>1 DEF Pop
<1>5. CASE ring[c_ch] = <<>>
  BY <1>1, <1>2, <1>4, <1>5 DEF Pop
<1>6. CASE ring[c_ch] # <<>>
  <2>1. /\ ring' = [ring EXCEPT ![c_ch] = Tail(ring[c_ch])]
        /\ popped' = popped \cup {Head(ring[c_ch])}
        /\ disturbed' = (disturbed \/ (c_ch > 0 /\ popped = {}))
    BY <1>6 DEF Pop
  <2>2. ring'[c_ch] = Tail(ring[c_ch]) /\ \A ch \in Chan : ch # c_ch => ring'[ch] = ring[ch]
    BY <1>2, <1>3, <2>1
  <2>3. /\ Len(Tail(ring[c_ch])) = Len(ring[c_ch]) - 1
        /\ \A i \in DOMAIN Tail(ring[c_ch]) : i \in Nat /\ i + 1 \in DOMAIN ring[c_ch]
                                                /\ Tail(ring[c_ch])[i] = ring[c_ch][i + 1]
        /\ Head(ring[c_ch]) = ring[c_ch][1] /\ 1 \in DOMAIN ring[c_ch]
    BY <1>3, <1>6
  <2> QED BY <1>1, <1>2, <1>4, <1>6, <2>1, <2>2, <2>3
<1> QED
  BY <1>5, <1>6

-----------------------------------------------------------------------------
(* A reset accounts for all it leaves behind                               *)

InTurn == c_pc \in {"play", "flush"}
Clean  == InTurn /\ c_clean

\* No turn stays clean through a reset, a clean turn reads the rings in use unless
\* metadata has just changed their number, a restarted stream resets only when no flush
\* is pending, and an overwritten count is among the races that disturb.
TurnInv ==
  /\ r_pc \in {"stop", "flush"} /\ c_pc # "idle" => ~c_clean
  /\ Clean /\ c_active # InUse => r_pc = "read" /\ r_next = "top"
  /\ InTurn /\ Resampled => c_active = NumChannels
  /\ Resetting /\ r_next = "push" => flush_samples = 0
  /\ overwritten => disturbed

LEMMA TurnStep == TypeInv /\ TurnInv /\ [Next]_vars => TurnInv'
<1> SUFFICES ASSUME TypeInv, TurnInv, [Next]_vars PROVE TurnInv'
  OBVIOUS
<1> USE DEF TurnInv, Clean, InTurn, Resetting, InUse
<1>1. CASE DropConnection \/ BumpEpoch \/ OthersMove \/ UNCHANGED vars
  BY <1>1 DEF DropConnection, BumpEpoch, OthersMove, vars, receiver, callback, atomics
<1>2. CASE ResetReads
  BY <1>2 DEF ResetReads, callback, atomics
<1>3. CASE ResetStops
  BY <1>3 DEF ResetStops, callback
<1>4. CASE ResetFlushes
  BY <1>4 DEF ResetFlushes, callback, TypeInv, TypeOK
<1>5. CASE LoopTop \/ NoPacket \/ Handshake \/ PrimeCheck
  BY <1>5 DEF LoopTop, NoPacket, Handshake, PrimeCheck, ResetThen, callback, atomics, TypeInv, Local
<1>6. ASSUME NEW n \in Counts, Metadata(n) PROVE TurnInv'
  BY <1>6 DEF Metadata, ResetThen, callback, TypeInv, Local
<1>7. CASE Media
  <2>1. flush_samples > 0 \/ flush_samples = 0
    BY PlaybackAssumption DEF TypeInv, TypeOK
  <2> QED BY <1>7, <2>1 DEF Media, ResetThen, callback, atomics, TypeInv, Local
<1>8. CASE Push
  BY <1>8 DEF Push, NextPush, callback
<1>9. CASE CallbackBegins
  BY <1>9 DEF CallbackBegins, receiver, atomics
<1>10. CASE Pop
  BY <1>10 DEF Pop, receiver, atomics
<1>11. CASE PlayEnds
  BY <1>11 DEF PlayEnds, CallbackReturns, receiver
<1>12. CASE Reprime
  BY <1>12 DEF Reprime, CallbackReturns, receiver
<1>13. CASE FlushEnds
  <2>1. overwritten' => disturbed'
    BY <1>13 DEF FlushEnds
  <2> QED
    BY <1>13, <2>1 DEF FlushEnds, CallbackReturns, receiver, TypeInv, Local
<1> QED
  BY <1>1, <1>2, <1>3, <1>4, <1>5, <1>6, <1>7, <1>8, <1>9, <1>10, <1>11, <1>12, <1>13
  DEF Next, Receive, Callback

\* The stale units of a ring are among its first n.
StaleUpTo(ch, n) == \A i \in DOMAIN ring[ch] : ring[ch][i].stale => i <= n

\* Once the fill is read, no stale unit is behind it; once the count is stored, and until
\* it is overwritten, none is behind the count.  A turn that flushes lowers the count by
\* one when it ends: the rings it has popped, all if the reset came in between, have one
\* less.
FlushInv ==
  /\ r_pc \in {"stop", "flush"} => \A ch \in Active : StaleUpTo(ch, old_fill)
  /\ ~Resetting /\ ~overwritten => \A ch \in Active :
       /\ StaleUpTo(ch, flush_samples)
       /\ c_pc = "flush" /\ (~c_clean \/ ch < c_ch) => StaleUpTo(ch, flush_samples - 1)

LEMMA FlushStep == TypeInv /\ TurnInv /\ FlushInv /\ [Next]_vars => FlushInv'
<1> SUFFICES ASSUME TypeInv, TurnInv, FlushInv, [Next]_vars PROVE FlushInv'
  OBVIOUS
<1>0. ASSUME UNCHANGED <<ring, remote_channels, flush_samples, old_fill, c_pc, c_clean, c_ch>>,
             overwritten' = overwritten, r_pc' \in {"stop", "flush"} => r_pc \in {"stop", "flush"},
             Resetting => Resetting'
      PROVE  FlushInv'
  BY <1>0 DEF FlushInv, StaleUpTo, Active
<1>1. CASE DropConnection \/ BumpEpoch \/ OthersMove \/ UNCHANGED vars
  BY <1>0, <1>1 DEF DropConnection, BumpEpoch, OthersMove, vars, receiver, callback, atomics, Resetting
<1>2. CASE ResetReads
  <2>1. \A ch \in Active : DOMAIN ring'[ch] = DOMAIN ring[ch]
    BY <1>2, Bounds DEF ResetReads, TypeInv
  <2>2. \A ch \in Active : \A i \in DOMAIN ring[ch] : i <= MaxFill(Active)
    BY Fullest, Bounds DEF TypeInv
  <2>3. r_pc' = "stop" /\ old_fill' = MaxFill(Active) /\ Active' = Active
    BY <1>2 DEF ResetReads, atomics, Active
  <2> QED BY <2>1, <2>2, <2>3 DEF FlushInv, StaleUpTo, Resetting
<1>3. CASE ResetStops
  BY <1>0, <1>3 DEF ResetStops, callback, Resetting
<1>4. CASE ResetFlushes
  <2>1. \A ch \in Active : StaleUpTo(ch, old_fill)
    BY <1>4 DEF FlushInv, ResetFlushes
  <2>2. old_fill > 0 => flush_samples' = old_fill + 1
    BY <1>4 DEF ResetFlushes
  <2>3. old_fill \in Nat /\ (old_fill > 0 \/ old_fill = 0) /\ flush_samples' \in Nat
    BY <1>4, PlaybackAssumption DEF ResetFlushes, TypeInv, TypeOK
  <2>4. UNCHANGED <<ring, remote_channels>> /\ r_pc' \notin {"stop", "flush"}
    BY <1>4 DEF ResetFlushes, TypeInv, TypeOK
  <2>5. ASSUME NEW ch \in Active, NEW i \in DOMAIN ring[ch], ring[ch][i].stale
        PROVE  i <= flush_samples' /\ i <= flush_samples' - 1
    <3>1. i \in Nat /\ i > 0
      BY Bounds DEF TypeInv
    <3>2. i <= old_fill
      BY <2>1, <2>5 DEF StaleUpTo
    <3>3. old_fill > 0
      BY <2>3, <3>1, <3>2
    <3>4. flush_samples' = old_fill + 1
      BY <2>2, <3>3
    <3> QED BY <2>3, <3>1, <3>2, <3>4
  <2> QED BY <2>4, <2>5 DEF FlushInv, StaleUpTo, Active
<1>5. CASE LoopTop \/ NoPacket \/ Handshake \/ PrimeCheck \/ Media
  BY <1>0, <1>5
  DEF LoopTop, NoPacket, Handshake, PrimeCheck, Media, ResetThen, callback, atomics, Resetting
<1>6. ASSUME NEW n \in Counts, Metadata(n) PROVE FlushInv'
  BY <1>6 DEF Metadata, ResetThen, FlushInv, Resetting
<1>8. CASE Push
  <2>1. ~Resetting /\ Active' = Active /\ ~Resetting'
        /\ UNCHANGED <<flush_samples, c_pc, c_clean, c_ch>>
    BY <1>8 DEF Push, NextPush, callback, Resetting, Active
  <2>2. overwritten' = overwritten
    BY <1>8 DEF Push
  <2>3. \A ch \in Active, n \in Int : StaleUpTo(ch, n) => StaleUpTo(ch, n)'
    <3>1. SUFFICES ASSUME NEW ch \in Active, NEW i \in DOMAIN ring'[ch], ring'[ch][i].stale
                   PROVE  i \in DOMAIN ring[ch] /\ ring[ch][i].stale
      BY DEF StaleUpTo
    <3>2. CASE ch # r_ch
      BY <1>8, <3>1, <3>2, PushRing, Bounds DEF TypeInv
    <3>3. CASE ch = r_ch
      <4>1. ~Fresh.stale
        BY DEF Fresh
      <4>2. DOMAIN ring[ch] = 1..Len(ring[ch]) /\ Len(ring[ch]) \in Nat
        BY Bounds DEF TypeInv
      <4> QED BY <1>8, <3>1, <3>3, <4>1, <4>2, PushRing
    <3> QED BY <3>2, <3>3
  <2>4. flush_samples \in Int /\ flush_samples - 1 \in Int
    BY PlaybackAssumption DEF TypeInv, TypeOK
  <2> QED BY <2>1, <2>2, <2>3, <2>4 DEF FlushInv, Resetting
<1>9. CASE CallbackBegins
  <2>1. /\ UNCHANGED <<ring, remote_channels, r_pc, old_fill, flush_samples, overwritten>> /\ c_ch' = 0
        /\ ~Resetting => c_clean'
    BY <1>9 DEF CallbackBegins, receiver, atomics, Resetting
  <2>2. \A ch \in Active : ~(ch < 0)
    BY Bounds DEF Active, TypeInv
  <2> QED BY <2>1, <2>2 DEF FlushInv, StaleUpTo, Active, Resetting
<1>10. CASE Pop
  <2>1. UNCHANGED <<r_pc, old_fill, flush_samples, overwritten>> /\ Active' = Active
    BY <1>10 DEF Pop, receiver, atomics, Active
  <2>2. \A ch \in Active, n \in Int :
          StaleUpTo(ch, n) => StaleUpTo(ch, n)' /\ (ch = c_ch => StaleUpTo(ch, n - 1)')
    <3>1. SUFFICES ASSUME NEW ch \in Active, NEW n \in Int, StaleUpTo(ch, n),
                          NEW i \in DOMAIN ring'[ch], ring'[ch][i].stale
                   PROVE  i <= n /\ (ch = c_ch => i <= n - 1)
      BY DEF StaleUpTo
    <3>2. CASE ch # c_ch
      BY <1>10, <3>1, <3>2, PopRing, Bounds DEF TypeInv, StaleUpTo
    <3>3. CASE ch = c_ch
      BY <1>10, <3>1, <3>3, PopRing DEF StaleUpTo
    <3> QED BY <3>2, <3>3
  <2>3. flush_samples \in Int /\ flush_samples - 1 \in Int /\ old_fill \in Int
    BY PlaybackAssumption DEF TypeInv, TypeOK
  <2>4. UNCHANGED <<c_pc, c_clean>> /\ \A ch \in Active : ch < c_ch' => ch < c_ch \/ ch = c_ch
    BY <1>10, PopRing, Bounds DEF Active, TypeInv
  <2> QED BY <2>1, <2>2, <2>3, <2>4 DEF FlushInv, Resetting
<1>11. CASE PlayEnds \/ Reprime
  <2>1. UNCHANGED <<ring, remote_channels, r_pc, old_fill, flush_samples>> /\ c_pc' # "flush"
    BY <1>11 DEF PlayEnds, Reprime, CallbackReturns, receiver
  <2>2. overwritten' = overwritten
    BY <1>11 DEF PlayEnds, Reprime
  <2> QED BY <2>1, <2>2 DEF FlushInv, StaleUpTo, Active, Resetting
<1>12. CASE FlushEnds
  <2>1. /\ ~overwritten' =>
             ~overwritten /\ flush_samples = remaining /\ flush_samples' = flush_samples - 1
        /\ UNCHANGED <<ring, remote_channels, r_pc, old_fill>> /\ c_pc' = "idle"
    BY <1>12 DEF FlushEnds, CallbackReturns, receiver
  <2>2. ASSUME ~Resetting, ~overwritten', NEW ch \in Active PROVE StaleUpTo(ch, flush_samples - 1)
    <3>1. ~Resampled /\ c_ch = c_active /\ c_pc = "flush"
      BY <1>12 DEF FlushEnds, TypeInv, Local
    <3>2. c_clean => c_active = remote_channels
      BY <2>2, <3>1 DEF TurnInv, Clean, InTurn, InUse, Resetting
    <3>3. ch < remote_channels
      BY Bounds DEF Active, TypeInv
    <3> QED BY <2>1, <2>2, <3>1, <3>2, <3>3 DEF FlushInv
  <2> QED BY <2>1, <2>2 DEF FlushInv, StaleUpTo, Active, Resetting
<1> QED
  BY <1>1, <1>2, <1>3, <1>4, <1>5, <1>6, <1>8, <1>9, <1>10, <1>11, <1>12
  DEF Next, Receive, Callback

LEMMA InitFlush == Init => TurnInv /\ FlushInv
<1> SUFFICES ASSUME Init PROVE TurnInv /\ FlushInv
  OBVIOUS
<1>1. \A ch \in Chan : ring[ch] = <<>>
  BY DEF Init
<1>2. Active \subseteq Chan
  BY InitTypes, Bounds DEF TypeInv
<1> QED
  BY <1>1, <1>2 DEF Init, TurnInv, FlushInv, StaleUpTo, Clean, InTurn, Resetting

\* A flush never ends before the last stale unit of a ring in use is gone, although a
\* reset counts only once, by the fullest ring, rings may be uneven or full, and the
\* callback pops meanwhile.  Excepted is what follows a turn that flushes and stores its
\* older count over that of a reset, until the next reset (engine.rs:740-763, 1234-1240,
\* 1338-1346).
THEOREM StaleIsCounted == Spec => []FlushCoversStale
<1>1. TypeInv /\ FlushInv => FlushCoversStale
  <2> SUFFICES ASSUME TypeInv, FlushInv, ~Resetting, ~overwritten, NEW ch \in Active,
                      NEW i \in DOMAIN ring[ch], ring[ch][i].stale
               PROVE  flush_samples > 0
    BY DEF FlushCoversStale
  <2>1. i <= flush_samples
    BY DEF FlushInv, StaleUpTo
  <2>2. i \in Nat /\ i > 0 /\ flush_samples \in Nat
    BY Bounds, PlaybackAssumption DEF TypeInv, TypeOK
  <2> QED BY <2>1, <2>2
<1> QED
  BY <1>1, InitTypes, NextTypes, InitFlush, TurnStep, FlushStep, PTL DEF Spec

-----------------------------------------------------------------------------
(* The channels of a frame are played together                             *)

\* A turn that plays and has been crossed by a reset: it disturbs when it ends.
Doomed == c_pc = "play" /\ ~c_clean

\* The rings a turn reads, or would read.
Read == IF Clean THEN c_active ELSE InUse

\* No reset is under way, or one that the frame will follow that caused it.
Normal == ~Resetting \/ r_next = "push"

\* Units of a ring that the turn has taken, and the loop has added, ahead of the other rings.
Popped(ch) == IF Clean /\ ch < c_ch /\ popped # {} THEN 1 ELSE 0
Pushed(ch) == IF r_pc = "push" /\ ch < r_ch THEN 1 ELSE 0

\* The rings of the first k channels hold the same units g[1], g[2], ... up to len, but
\* for what is taken and added; further rings are empty.
Level(k, len, g) ==
  /\ \A ch \in 0..(k - 1) :
       /\ Len(ring[ch]) = len + Pushed(ch) - Popped(ch)
       /\ \A i \in DOMAIN ring[ch] : ring[ch][i] = g[i + Popped(ch)]
  /\ \A ch \in k..(Read - 1) : ring[ch] = <<>>
  /\ Normal => k = remote_channels
  /\ r_pc = "push" => g[len + 1] = Fresh
  /\ Clean => \/ popped \subseteq {g[1]}
              \/ c_ch = c_active /\ \A u \in popped : u.stale

IsLevel == \E k \in 1..Read, len \in Nat, g \in [Nat -> Unit] : Level(k, len, g)

\* After a reset with another channel count the rings are not level, but all they hold
\* is stale, and nothing is added before it is gone.
AllStale ==
  /\ r_pc # "push"
  /\ \A ch \in 0..(Read - 1) : \A i \in DOMAIN ring[ch] : ring[ch][i].stale
  /\ Clean =>
       /\ \A u \in popped : u.stale
       /\ popped # {} => \A ch \in c_ch..(c_active - 1) : ring[ch] # <<>>
       /\ c_ch = 0 => \A a, b \in 0..(c_active - 1) : ring[a] = <<>> => ring[b] = <<>>

MixInv ==
  ~disturbed /\ ~Doomed /\ (Normal \/ Clean) =>
    \/ AllStale /\ ~(Resetting /\ r_next = "push")
    \/ IsLevel /\ ~(c_pc = "flush" /\ ~c_clean)

\* A reset marks every unit.
MarkInv ==
  r_pc \in {"stop", "flush"} => \A ch \in Chan : \A i \in DOMAIN ring[ch] : ring[ch][i].stale

\* The version that resamples reads also rings the peer has no channels for, and never
\* flushes: while no flush is pending there is nothing stale at all.
EmptyInv ==
  Resampled /\ ~disturbed /\ ~Doomed /\ flush_samples = 0 =>
    /\ r_pc \notin {"stop", "flush"} =>
         \A ch \in Chan : \A i \in DOMAIN ring[ch] : ~ring[ch][i].stale
    /\ r_pc = "read" /\ ~InTurn /\ ring[0] = <<>> => \A ch \in Chan : ring[ch] = <<>>
    /\ r_pc \in {"stop", "flush"} /\ old_fill = 0 => \A ch \in Chan : ring[ch] = <<>>

LEMMA ReadRange == ASSUME TypeInv PROVE Read \in 1..NumChannels /\ 0..(Read - 1) \subseteq Chan
<1>1. Read \in 1..NumChannels
  BY Bounds DEF Read, TypeInv, TypeOK
<1> QED
  BY <1>1, PlaybackAssumption DEF Chan

LEMMA MarkStep == TypeInv /\ MarkInv /\ [Next]_vars => MarkInv'
<1> SUFFICES ASSUME TypeInv, MarkInv, [Next]_vars, r_pc' \in {"stop", "flush"} PROVE MarkInv'
  BY DEF MarkInv
<1>1. CASE ResetReads
  <2>1. \A ch \in Chan : ring'[ch] = Marked(ring[ch])
    BY <1>1 DEF ResetReads, Marked
  <2>2. ASSUME NEW ch \in Chan, NEW i \in DOMAIN ring'[ch] PROVE ring'[ch][i].stale
    <3>1. ring[ch] \in Seq(Unit)
      BY Bounds DEF TypeInv
    <3>2. i \in DOMAIN ring[ch] /\ ring'[ch][i] = Marked(ring[ch])[i]
      BY <2>1, <3>1, MarkedRing
    <3> QED BY <3>1, <3>2, MarkedRing
  <2> QED BY <2>2 DEF MarkInv
<1>2. CASE Pop
  <2>1. r_pc' = r_pc
    BY <1>2 DEF Pop, receiver
  <2>2. ASSUME NEW ch \in Chan, NEW i \in DOMAIN ring'[ch] PROVE ring'[ch][i].stale
    <3>1. \A j \in DOMAIN ring[ch] : ring[ch][j].stale
      BY <2>1 DEF MarkInv
    <3> QED BY <1>2, <2>2, <3>1, PopRing
  <2> QED BY <2>2 DEF MarkInv
<1>3. CASE ~ResetReads /\ ~Pop
  <2>1. ring' = ring /\ r_pc \in {"stop", "flush"}
    BY <1>3
    DEF Next, DropConnection, BumpEpoch, OthersMove, Receive, Callback, vars, receiver,
        ResetStops, ResetFlushes, LoopTop, NoPacket, Handshake, Metadata, Media, Push, NextPush,
        PrimeCheck, ResetThen, CallbackBegins, PlayEnds, Reprime, FlushEnds, TypeInv, TypeOK
  <2> QED BY <2>1 DEF MarkInv
<1> QED
  BY <1>1, <1>2, <1>3
\* What leaves the rings, the turn and the frame being pushed alone keeps the rings level.
LEMMA KeepLevel ==
  ASSUME NEW k, NEW len, NEW g, Level(k, len, g),
         ring' = ring, Read' = Read, Clean' <=> Clean,
         Normal' => Normal /\ remote_channels' = remote_channels,
         Clean => UNCHANGED <<c_active, c_ch, popped>>,
         r_pc' = "push" <=> r_pc = "push", r_pc = "push" => UNCHANGED <<r_ch, next_frame>>
  PROVE  Level(k, len, g)'
<1>1. \A ch : Popped(ch)' = Popped(ch) /\ Pushed(ch)' = Pushed(ch)
  BY DEF Popped, Pushed
<1>2. r_pc' = "push" => g[len + 1] = Fresh'
  BY DEF Level, Fresh
<1> QED
  BY <1>1, <1>2 DEF Level

LEMMA Keep ==
  ASSUME MixInv, ring' = ring, Clean' <=> Clean, disturbed' = disturbed, Doomed' <=> Doomed,
         Normal' => Normal /\ remote_channels' = remote_channels,
         Clean => UNCHANGED <<c_active, c_ch, popped>>,
         r_pc' = "push" <=> r_pc = "push", r_pc = "push" => UNCHANGED <<r_ch, next_frame>>,
         Resetting' /\ r_next' = "push" => Resetting /\ r_next = "push",
         c_pc' = "flush" /\ ~c_clean' => c_pc = "flush" /\ ~c_clean
  PROVE  MixInv'
<1> SUFFICES ASSUME ~disturbed, ~Doomed, Normal' \/ Clean' PROVE MixInv'
  BY DEF MixInv
<1>1. Read' = Read
  BY DEF Read, InUse
<1>2. ASSUME AllStale PROVE AllStale'
  BY <1>1, <1>2 DEF AllStale
<1>3. ASSUME IsLevel PROVE IsLevel'
  <2>1. PICK k \in 1..Read, len \in Nat, g \in [Nat -> Unit] : Level(k, len, g)
    BY <1>3 DEF IsLevel
  <2>2. Level(k, len, g)'
    BY <1>1, <2>1, KeepLevel
  <2> QED BY <1>1, <2>2 DEF IsLevel
<1> QED
  BY <1>2, <1>3 DEF MixInv

LEMMA Unmixed ==
  ASSUME TypeInv, MixInv,
         \/ DropConnection \/ BumpEpoch \/ OthersMove \/ UNCHANGED vars \/ ResetStops \/ LoopTop
         \/ NoPacket \/ Handshake \/ PrimeCheck \/ Reprime \/ (\E n \in Counts : Metadata(n))
  PROVE  MixInv'
<1>1. CASE DropConnection \/ BumpEpoch \/ OthersMove \/ UNCHANGED vars
  BY <1>1, Keep DEF DropConnection, BumpEpoch, OthersMove, vars, receiver, callback, atomics,
      Clean, InTurn, Doomed, Normal, Resetting
<1>2. CASE ResetStops \/ LoopTop \/ NoPacket \/ Handshake \/ PrimeCheck
  BY <1>2, Keep
  DEF ResetStops, LoopTop, NoPacket, Handshake, PrimeCheck, ResetThen, callback, atomics,
      Clean, InTurn, Doomed, Normal, Resetting
<1>3. ASSUME NEW n \in Counts, Metadata(n) PROVE MixInv'
  BY <1>3, Keep DEF Metadata, ResetThen, callback, Clean, InTurn, Doomed, Normal, Resetting
<1>4. CASE Reprime
  BY <1>4, Keep DEF Reprime, CallbackReturns, receiver, Clean, InTurn, Doomed, Normal, Resetting
<1> QED
  BY <1>1, <1>2, <1>3, <1>4

LEMMA NoUnit == ASSUME NEW s \in Seq(Unit), \A i \in DOMAIN s : FALSE PROVE s = <<>>
<1>1. Len(s) \in Nat /\ DOMAIN s = 1..Len(s)
  BY LenProperties
<1>2. Len(s) = 0
  BY <1>1
<1> QED
  BY <1>2, EmptySeq

\* Once no flush is pending, what a reset left is gone, and the rings are level again.
LEMMA Emptied ==
  ASSUME TypeInv, TurnInv, FlushInv, EmptyInv, AllStale, ~Resetting, flush_samples = 0,
         ~disturbed, ~Doomed
  PROVE  IsLevel
<1>0. remote_channels \in 1..NumChannels /\ NumChannels \in Nat /\ Read \in 1..NumChannels
  BY Bounds, ReadRange DEF TypeInv
<1>1. Read = InUse
  BY DEF Read, TurnInv, Resetting
<1>2. \A ch \in 0..(Read - 1) : ring[ch] = <<>>
  <2> SUFFICES ASSUME NEW ch \in 0..(Read - 1), NEW i \in DOMAIN ring[ch] PROVE FALSE
    BY ReadRange, NoUnit, Bounds DEF TypeInv
  <2>1. ring[ch][i].stale /\ ch \in Chan
    BY ReadRange DEF AllStale
  <2>2. CASE Resampled
    BY <2>1, <2>2 DEF EmptyInv, Resetting
  <2>3. CASE ~Resampled
    <3>1. ch \in Active
      BY <1>1, <2>3 DEF InUse, Active
    <3>2. i <= 0
      BY <2>1, <3>1 DEF FlushInv, StaleUpTo, TurnInv
    <3>3. i \in 1..Cap
      BY <2>1, Bounds DEF TypeInv
    <3> QED BY <3>2, <3>3
  <2> QED BY <2>2, <2>3
<1>3. remote_channels \in 1..Read
  BY <1>0, <1>1 DEF InUse
<1>4. ASSUME Clean, popped # {} PROVE c_ch = c_active /\ c_active = Read /\ c_active \in Nat
  <2>1. \A ch \in c_ch..(c_active - 1) : ch \notin 0..(Read - 1)
    BY <1>2, <1>4 DEF AllStale
  <2>2. c_ch \in 0..c_active /\ c_active = Read
    BY <1>4 DEF TypeInv, TypeOK, Read
  <2> QED BY <1>0, <2>1, <2>2
<1> DEFINE len == IF Clean /\ popped # {} THEN 1 ELSE 0
           g == [i \in Nat |-> Fresh]
<1>5. Fresh \in Unit
  BY DEF Fresh, Unit, TypeInv, TypeOK
<1>6. g \in [Nat -> Unit] /\ len \in Nat
  BY <1>5
<1>7. r_pc # "push"
  BY DEF AllStale
<1>8. \A ch \in 0..(remote_channels - 1) :
        Pushed(ch) = 0 /\ Popped(ch) = len /\ ring[ch] = <<>>
  <2>1. \A ch \in 0..(remote_channels - 1) : ch \in 0..(Read - 1) /\ ch < Read
    BY <1>0, <1>3
  <2> QED BY <1>2, <1>4, <1>7, <2>1 DEF Pushed, Popped
<1>9. \A ch \in 0..(remote_channels - 1) :
        /\ Len(ring[ch]) = len + Pushed(ch) - Popped(ch)
        /\ \A i \in DOMAIN ring[ch] : ring[ch][i] = g[i + Popped(ch)]
  <2>1. Len(<<>>) = 0 /\ DOMAIN <<>> = {} /\ len + 0 - len = 0
    OBVIOUS
  <2> HIDE DEF len, g
  <2> QED BY <1>8, <2>1
<1>10. \A ch \in remote_channels..(Read - 1) : ring[ch] = <<>>
  BY <1>0, <1>2
<1>11. Clean => popped \subseteq {g[1]} \/ (c_ch = c_active /\ \A u \in popped : u.stale)
  BY <1>4 DEF AllStale
<1> HIDE DEF len, g
<1>12. Level(remote_channels, len, g)
  BY <1>7, <1>9, <1>10, <1>11 DEF Level
<1> QED
  BY <1>3, <1>6, <1>12 DEF IsLevel

\* A frame begins to be pushed: its unit is the next one of all rings.
LEMMA StartPush ==
  ASSUME TypeInv, TypeInv', IsLevel, Normal, r_pc # "push", r_pc' = "push", r_ch' = 0,
         ring' = ring, Read' = Read, Clean' <=> Clean, remote_channels' = remote_channels,
         Clean => UNCHANGED <<c_active, c_ch, popped>>
  PROVE  IsLevel'
<1>1. PICK k \in 1..Read, len \in Nat, g \in [Nat -> Unit] : Level(k, len, g)
  BY DEF IsLevel
<1>0. k = remote_channels /\ k \in Nat /\ k > 0
  BY <1>1, Bounds DEF Level, TypeInv
<1>2. Fresh' \in Unit
  BY DEF Fresh, Unit, TypeInv, TypeOK
<1>3. PICK h \in [Nat -> Unit] : h[len + 1] = Fresh' /\ \A i \in Nat : i <= len => h[i] = g[i]
  <2> DEFINE f == [g EXCEPT ![len + 1] = Fresh']
  <2>1. f \in [Nat -> Unit] /\ f[len + 1] = Fresh' /\ \A i \in Nat : i <= len => f[i] = g[i]
    BY <1>1, <1>2
  <2> HIDE DEF f
  <2> QED BY <2>1
<1>4. \A ch : Pushed(ch) = 0 /\ Popped(ch)' = Popped(ch) /\ Popped(ch) \in {0, 1}
  BY DEF Pushed, Popped
<1>5. \A ch \in 0..(k - 1) : Pushed(ch)' = 0
  BY <1>0 DEF Pushed
<1>6. \A ch \in 0..(k - 1) : Len(ring[ch]) = len - Popped(ch)
  BY <1>1, <1>4 DEF Level
<1>7. \A ch \in 0..(k - 1) : \A i \in DOMAIN ring[ch] : ring[ch][i] = h[i + Popped(ch)]
  <2> SUFFICES ASSUME NEW ch \in 0..(k - 1), NEW i \in DOMAIN ring[ch]
               PROVE  ring[ch][i] = h[i + Popped(ch)]
    OBVIOUS
  <2>1. ch \in Chan
    BY <1>0, Bounds DEF TypeInv, Active
  <2>2. i \in Nat /\ i <= Len(ring[ch])
    BY <2>1, Bounds DEF TypeInv
  <2>3. Popped(ch) \in Nat /\ i + Popped(ch) \in Nat /\ i + Popped(ch) <= len
    BY <1>4, <1>6, <2>2
  <2> QED BY <1>1, <1>3, <2>3 DEF Level
<1>8. ASSUME Clean, popped # {} PROVE h[1] = g[1]
  <2>1. c_ch > 0
    <3>1. c_ch # 0
      BY <1>8 DEF TypeInv, Local
    <3>2. c_ch \in 0..c_active
      BY DEF TypeInv, TypeOK
    <3> QED BY <3>1, <3>2
  <2>2. Popped(0) = 1
    BY <1>8, <2>1 DEF Popped
  <2>3. Len(ring[0]) = len - 1 /\ Len(ring[0]) \in Nat
    BY <1>0, <1>6, <2>2, Bounds DEF TypeInv, Active
  <2> QED BY <1>3, <2>3
<1>9. Clean => popped \subseteq {h[1]} \/ (c_ch = c_active /\ \A u \in popped : u.stale)
  <2>1. CASE popped = {}
    BY <2>1
  <2>2. CASE Clean /\ popped # {}
    <3>1. h[1] = g[1]
      BY <1>8, <2>2
    <3>2. popped \subseteq {g[1]} \/ (c_ch = c_active /\ \A u \in popped : u.stale)
      BY <1>1, <2>2 DEF Level
    <3> QED BY <3>1, <3>2
  <2> QED BY <2>1, <2>2
<1>10. Level(k, len, h)'
  <2>1. \A ch \in 0..(k - 1) :
          /\ Len(ring'[ch]) = len + Pushed(ch)' - Popped(ch)'
          /\ \A i \in DOMAIN ring'[ch] : ring'[ch][i] = h[i + Popped(ch)']
    BY <1>4, <1>5, <1>6, <1>7
  <2>2. \A ch \in k..(Read' - 1) : ring'[ch] = <<>>
    BY <1>1 DEF Level
  <2>3. Clean' => popped' \subseteq {h[1]} \/ (c_ch' = c_active' /\ \A u \in popped' : u.stale)
    BY <1>9
  <2> QED BY <1>0, <1>3, <2>1, <2>2, <2>3 DEF Level
<1>11. k \in 1..Read'
  BY <1>1
<1> QED
  BY <1>3, <1>10, <1>11 DEF IsLevel

LEMMA MixMedia ==
  ASSUME TypeInv, TypeInv', TurnInv, FlushInv, EmptyInv, MixInv, Media PROVE MixInv'
<1>1. CASE r_pc' = "top"
  BY <1>1, Keep DEF Media, ResetThen, callback, atomics, Clean, InTurn, Doomed, Normal, Resetting
<1>2. CASE r_pc' # "top"
  <2> SUFFICES ASSUME ~disturbed, ~Doomed PROVE IsLevel' /\ c_pc' # "flush"
    BY <1>2 DEF MixInv, Media, Doomed, callback
  <2>1. ~Resetting /\ Normal /\ r_pc # "push"
    BY DEF Media, Resetting, Normal
  <2>2. flush_samples = 0
    BY <1>2, PlaybackAssumption DEF Media, TypeInv, TypeOK
  <2>3. c_pc' # "flush"
    BY <2>2 DEF Media, callback, TypeInv, Local
  <2>4. IsLevel
    BY <2>1, <2>2, Emptied DEF MixInv
  <2>5. /\ ring' = ring /\ remote_channels' = remote_channels /\ (Clean' <=> Clean) /\ Read' = Read
        /\ UNCHANGED <<c_active, c_ch, popped>> /\ r_ch' = 0
    BY DEF Media, callback, atomics, Clean, InTurn, Read, InUse
  <2>6. CASE r_pc' = "push"
    BY <2>1, <2>3, <2>4, <2>5, <2>6, StartPush
  <2>7. CASE r_pc' # "push"
    <3>1. PICK k \in 1..Read, len \in Nat, g \in [Nat -> Unit] : Level(k, len, g)
      BY <2>4 DEF IsLevel
    <3>2. Level(k, len, g)'
      BY <2>1, <2>5, <2>7, <3>1, KeepLevel
    <3> QED BY <2>3, <2>5, <3>2 DEF IsLevel
  <2> QED BY <2>6, <2>7
<1> QED
  BY <1>1, <1>2

LEMMA MixPush ==
  ASSUME TypeInv, MixInv, Push PROVE MixInv'
<1> SUFFICES ASSUME ~disturbed', ~Doomed' PROVE IsLevel' /\ ~(c_pc' = "flush" /\ ~c_clean')
  BY DEF MixInv
<1>1. /\ ~disturbed /\ ~Doomed /\ r_pc = "push" /\ Normal /\ (Clean' <=> Clean) /\ Read' = Read
      /\ UNCHANGED <<c_active, c_ch, popped, c_pc, c_clean, remote_channels, next_frame>>
  BY DEF Push, NextPush, callback, Doomed, Normal, Resetting, Clean, InTurn, Read, InUse
<1>2. IsLevel /\ ~(c_pc = "flush" /\ ~c_clean)
  BY <1>1 DEF MixInv, AllStale
<1>3. PICK k \in 1..Read, len \in Nat, g \in [Nat -> Unit] : Level(k, len, g)
  BY <1>2 DEF IsLevel
<1>4. k = remote_channels /\ k \in Nat /\ r_ch \in 0..(k - 1) /\ g[len + 1] = Fresh
  BY <1>1, <1>3, PushRing, Bounds DEF Level, TypeInv, Active
<1>5. \A ch : Popped(ch)' = Popped(ch) /\ Popped(ch) \in {0, 1}
  BY <1>1 DEF Popped
<1>6. \A ch \in 0..(k - 1) : ch \in Chan /\ Len(ring[ch]) \in Nat /\ DOMAIN ring[ch] = 1..Len(ring[ch])
  BY <1>4, Bounds DEF TypeInv, Active
<1>7. \A ch \in 0..(k - 1) : \A i \in DOMAIN ring'[ch] : ring'[ch][i] = g[i + Popped(ch)]
  <2>1. \A i \in DOMAIN ring[r_ch] : ring[r_ch][i] = g[i + Popped(r_ch)]
    BY <1>3, <1>4 DEF Level
  <2>2. Len(ring[r_ch]) + 1 + Popped(r_ch) = len + 1
    <3>1. Pushed(r_ch) = 0
      BY <1>4 DEF Pushed
    <3>2. Len(ring[r_ch]) = len + 0 - Popped(r_ch)
      BY <1>3, <1>4, <3>1 DEF Level
    <3> QED BY <1>4, <1>5, <1>6, <3>2
  <2>3. \A i \in DOMAIN ring'[r_ch] : ring'[r_ch][i] = g[i + Popped(r_ch)]
    <3> SUFFICES ASSUME NEW i \in DOMAIN ring'[r_ch] PROVE ring'[r_ch][i] = g[i + Popped(r_ch)]
      OBVIOUS
    <3>1. i \in DOMAIN ring[r_ch] \/ i = Len(ring[r_ch]) + 1
      BY <1>1, <1>4, <1>6, PushRing
    <3> QED BY <1>1, <1>4, <2>1, <2>2, <3>1, PushRing
  <2> QED BY <1>3, <1>6, <2>3, PushRing DEF Level
<1>8. \A ch \in k..(Read - 1) : ring'[ch] = <<>>
  <2>1. \A ch \in k..(Read - 1) : ch \in Chan /\ ch # r_ch
    BY <1>4, ReadRange
  <2> QED BY <1>3, <2>1, PushRing DEF Level
<1>9. Fresh' = Fresh
  BY <1>1 DEF Fresh
<1>10. \A ch \in 0..(k - 1) :
         /\ ch = r_ch => Len(ring'[ch]) = Len(ring[ch]) + 1
         /\ ch # r_ch => Len(ring'[ch]) = Len(ring[ch])
  <2>1. Len(ring'[r_ch]) = Len(ring[r_ch]) + 1
    BY <1>1, PushRing
  <2>2. \A ch \in 0..(k - 1) : ch # r_ch => ring'[ch] = ring[ch]
    BY <1>6, PushRing
  <2> QED BY <2>1, <2>2
<1>11. CASE r_ch + 1 < remote_channels
  <2>1. r_pc' = "push" /\ r_ch' = r_ch + 1
    BY <1>11 DEF Push, NextPush
  <2>2. \A ch \in 0..(k - 1) : Len(ring'[ch]) = len + Pushed(ch)' - Popped(ch)'
    <3> SUFFICES ASSUME NEW ch \in 0..(k - 1)
                 PROVE  Len(ring'[ch]) = len + Pushed(ch)' - Popped(ch)'
      OBVIOUS
    <3>1. /\ ch = r_ch => Pushed(ch)' = Pushed(ch) + 1
          /\ ch # r_ch => Pushed(ch)' = Pushed(ch)
          /\ Pushed(ch) \in {0, 1}
      BY <1>1, <1>4, <2>1 DEF Pushed
    <3>2. Len(ring[ch]) = len + Pushed(ch) - Popped(ch)
      BY <1>3 DEF Level
    <3>3. Popped(ch)' = Popped(ch) /\ Popped(ch) \in {0, 1} /\ Len(ring[ch]) \in Nat
      BY <1>5, <1>6
    <3>4. Len(ring'[ch]) = IF ch = r_ch THEN Len(ring[ch]) + 1 ELSE Len(ring[ch])
      BY <1>10
    <3> QED BY <3>1, <3>2, <3>3, <3>4
  <2>3. Level(k, len, g)'
    BY <1>1, <1>3, <1>4, <1>5, <1>7, <1>8, <1>9, <2>2 DEF Level
  <2> QED BY <1>1, <1>2, <2>3 DEF IsLevel
<1>12. CASE ~(r_ch + 1 < remote_channels)
  <2>1. r_pc' = "prime" /\ r_ch + 1 = k
    BY <1>4, <1>12 DEF Push, NextPush
  <2>2. \A ch \in 0..(k - 1) : Len(ring'[ch]) = len + 1 + Pushed(ch)' - Popped(ch)'
    <3> SUFFICES ASSUME NEW ch \in 0..(k - 1)
                 PROVE  Len(ring'[ch]) = len + 1 + Pushed(ch)' - Popped(ch)'
      OBVIOUS
    <3>1. Pushed(ch)' = 0 /\ (ch = r_ch => Pushed(ch) = 0) /\ (ch # r_ch => Pushed(ch) = 1)
      BY <1>1, <1>4, <2>1 DEF Pushed
    <3>2. Len(ring[ch]) = len + Pushed(ch) - Popped(ch)
      BY <1>3 DEF Level
    <3>3. Popped(ch)' = Popped(ch) /\ Popped(ch) \in {0, 1} /\ Len(ring[ch]) \in Nat
      BY <1>5, <1>6
    <3>4. Len(ring'[ch]) = IF ch = r_ch THEN Len(ring[ch]) + 1 ELSE Len(ring[ch])
      BY <1>10
    <3> QED BY <3>1, <3>2, <3>3, <3>4
  <2>3. Level(k, len + 1, g)'
    BY <1>1, <1>3, <1>4, <1>5, <1>7, <1>8, <2>1, <2>2 DEF Level
  <2>4. len + 1 \in Nat
    OBVIOUS
  <2> QED BY <1>1, <1>2, <2>3, <2>4 DEF IsLevel
<1> QED
  BY <1>11, <1>12

LEMMA MixPop ==
  ASSUME TypeInv, MixInv, Pop PROVE MixInv'
<1> SUFFICES ASSUME ~disturbed', ~Doomed', Normal' \/ Clean' PROVE MixInv'
  BY DEF MixInv
<1>1. /\ ~disturbed /\ ~Doomed /\ (Clean' <=> Clean) /\ (Normal' <=> Normal) /\ Read' = Read
      /\ UNCHANGED <<c_pc, c_active, c_clean, remote_channels, next_frame, r_pc, r_next, r_ch>>
      /\ (Resetting' <=> Resetting) /\ c_pc \in {"play", "flush"}
  BY DEF Pop, receiver, atomics, Doomed, Normal, Resetting, Clean, InTurn, Read, InUse
<1>2. c_ch \in Chan /\ c_ch \in Nat /\ c_ch < c_active /\ c_ch' = c_ch + 1 /\ c_active \in Nat
      /\ \A ch \in Chan : ch # c_ch => ring'[ch] = ring[ch]
  BY PopRing, Bounds DEF TypeInv, TypeOK
<1>7. ASSUME ring[c_ch] # <<>>
      PROVE  /\ Len(ring'[c_ch]) = Len(ring[c_ch]) - 1
             /\ \A i \in DOMAIN ring'[c_ch] : i \in Nat /\ i + 1 \in DOMAIN ring[c_ch]
                                               /\ ring'[c_ch][i] = ring[c_ch][i + 1]
             /\ 1 \in DOMAIN ring[c_ch] /\ popped' = popped \cup {ring[c_ch][1]}
             /\ popped # {} \/ c_ch = 0
  <2>1. disturbed' = (disturbed \/ (c_ch > 0 /\ popped = {}))
    BY <1>7 DEF Pop
  <2>2. popped # {} \/ ~(c_ch > 0)
    BY <2>1
  <2>3. popped # {} \/ c_ch = 0
    BY <1>2, <2>2
  <2>4. /\ Len(ring'[c_ch]) = Len(ring[c_ch]) - 1
        /\ \A i \in DOMAIN ring'[c_ch] : i \in Nat /\ i + 1 \in DOMAIN ring[c_ch]
                                          /\ ring'[c_ch][i] = ring[c_ch][i + 1]
        /\ 1 \in DOMAIN ring[c_ch] /\ popped' = popped \cup {ring[c_ch][1]}
    BY <1>7, PopRing
  <2> QED BY <2>3, <2>4
<1>3. 0..(Read - 1) \subseteq Chan /\ Read \in Nat
  BY ReadRange, PlaybackAssumption
<1>4. ASSUME AllStale PROVE AllStale'
  <2>1. \A ch \in 0..(Read - 1) : \A i \in DOMAIN ring'[ch] : ring'[ch][i].stale
    <3> SUFFICES ASSUME NEW ch \in 0..(Read - 1), NEW i \in DOMAIN ring'[ch]
                 PROVE  ring'[ch][i].stale
      OBVIOUS
    <3>1. \A j \in DOMAIN ring[ch] : ring[ch][j].stale
      BY <1>4 DEF AllStale
    <3> QED BY <1>2, <1>3, <3>1, PopRing
  <2>2. ASSUME Clean
        PROVE  /\ \A u \in popped' : u.stale
               /\ popped' # {} => \A ch \in c_ch'..(c_active - 1) : ring'[ch] # <<>>
    <3>0. Read = c_active /\ c_ch \in 0..(Read - 1)
      BY <1>2, <2>2 DEF Read
    <3>1. \A ch \in (c_ch + 1)..(c_active - 1) : ring'[ch] = ring[ch] /\ ch \in c_ch..(c_active - 1)
      BY <1>2, <1>3, <3>0
    <3>2. CASE ring[c_ch] = <<>>
      <4>1. popped' = popped /\ popped = {}
        BY <1>1, <3>2, PopRing
      <4> QED BY <4>1
    <3>3. CASE ring[c_ch] # <<>>
      <4>1. popped' = popped \cup {ring[c_ch][1]} /\ 1 \in DOMAIN ring[c_ch] /\ (popped # {} \/ c_ch = 0)
        BY <1>7, <3>3
      <4>2. \A u \in popped' : u.stale
        BY <1>4, <2>2, <3>0, <4>1 DEF AllStale
      <4>3. \A ch \in c_ch..(c_active - 1) : ring[ch] # <<>>
        BY <1>2, <1>4, <2>2, <3>0, <3>3, <4>1 DEF AllStale
      <4> QED BY <1>2, <3>1, <4>2, <4>3
    <3> QED BY <3>2, <3>3
  <2>3. c_ch' # 0 /\ r_pc' # "push"
    BY <1>1, <1>2, <1>4 DEF AllStale
  <2> QED BY <1>1, <2>1, <2>2, <2>3 DEF AllStale
<1>5. ASSUME IsLevel, Clean PROVE IsLevel'
  <2>1. PICK k \in 1..Read, len \in Nat, g \in [Nat -> Unit] : Level(k, len, g)
    BY <1>5 DEF IsLevel
  <2>0. k \in Nat /\ Read = c_active /\ c_ch \in 0..(Read - 1) /\ 0..(k - 1) \subseteq Chan
    BY <1>2, <1>3, <1>5 DEF Read
  <2>2. popped \subseteq {g[1]}
    BY <1>2, <1>5, <2>1 DEF Level
  <2>3. \A ch : Pushed(ch)' = Pushed(ch) /\ Pushed(ch) \in {0, 1}
    BY <1>1 DEF Pushed
  <2>4. Fresh' = Fresh
    BY <1>1 DEF Fresh
  <2>5. CASE ring[c_ch] = <<>>
    <3>1. popped' = {} /\ popped = {} /\ ring' = ring
      BY <1>1, <2>5, PopRing
    <3>2. \A ch : Popped(ch)' = Popped(ch)
      BY <3>1 DEF Popped
    <3>3. Level(k, len, g)'
      BY <1>1, <2>1, <2>3, <2>4, <3>1, <3>2 DEF Level
    <3> QED BY <1>1, <3>3 DEF IsLevel
  <2>6. CASE ring[c_ch] # <<>>
    <3>0. PICK c \in Chan : c = c_ch
      BY <1>2
    <3>1. /\ Len(ring'[c]) = Len(ring[c]) - 1
          /\ \A i \in DOMAIN ring'[c] : i \in Nat /\ i + 1 \in DOMAIN ring[c]
                                         /\ ring'[c][i] = ring[c][i + 1]
          /\ 1 \in DOMAIN ring[c] /\ popped' = popped \cup {ring[c][1]}
          /\ popped # {} \/ c = 0
      BY <1>7, <2>6, <3>0
    <3>2. c < k /\ c \in 0..(k - 1) /\ c \in Nat
      BY <1>2, <2>0, <2>1, <2>6, <3>0 DEF Level
    <3>3. Popped(c) = 0 /\ Popped(c)' = 1
      <4>1. ~(c < c_ch) /\ c < c_ch'
        BY <1>2, <3>0, <3>2
      <4>2. popped' # {}
        BY <3>1
      <4> QED BY <1>1, <1>5, <4>1, <4>2 DEF Popped
    <3>4. \A ch \in 0..(Read - 1) : ch # c => Popped(ch)' = Popped(ch) /\ ring'[ch] = ring[ch]
      <4> SUFFICES ASSUME NEW ch \in 0..(Read - 1), ch # c PROVE Popped(ch)' = Popped(ch)
        BY <1>2, <1>3, <3>0
      <4>1. (ch < c_ch') <=> (ch < c_ch)
        BY <1>2, <1>3, <3>0
      <4>2. popped' # {} /\ (ch < c_ch => popped # {})
        BY <1>2, <1>3, <3>0, <3>1
      <4> QED BY <1>1, <1>5, <4>1, <4>2 DEF Popped
    <3>5. /\ Len(ring[c]) = len + Pushed(c) - 0
          /\ \A i \in DOMAIN ring[c] : ring[c][i] = g[i + 0]
      BY <2>0, <2>1, <3>2, <3>3 DEF Level
    <3>6. popped' \subseteq {g[1]}
      BY <2>2, <3>1, <3>5
    <3>7. /\ Len(ring'[c]) = len + Pushed(c)' - Popped(c)'
          /\ \A i \in DOMAIN ring'[c] : ring'[c][i] = g[i + Popped(c)']
      <4>1. Pushed(c)' = Pushed(c) /\ Pushed(c) \in Nat
        BY <2>3
      <4>2. ASSUME NEW i \in DOMAIN ring'[c] PROVE ring'[c][i] = g[i + 1]
        <5>1. i \in Nat /\ ring'[c][i] = ring[c][i + 1] /\ (i + 1) + 0 = i + 1
          BY <3>1
        <5>2. ring[c][i + 1] = g[(i + 1) + 0]
          BY <3>1, <3>5
        <5> QED BY <5>1, <5>2
      <4> QED BY <3>1, <3>3, <3>5, <4>1, <4>2
    <3>8. \A ch \in 0..(k - 1) :
            /\ Len(ring'[ch]) = len + Pushed(ch)' - Popped(ch)'
            /\ \A i \in DOMAIN ring'[ch] : ring'[ch][i] = g[i + Popped(ch)']
      <4> SUFFICES ASSUME NEW ch \in 0..(k - 1), ch # c
                   PROVE  /\ Len(ring'[ch]) = len + Pushed(ch)' - Popped(ch)'
                          /\ \A i \in DOMAIN ring'[ch] : ring'[ch][i] = g[i + Popped(ch)']
        BY <3>7
      <4>1. ch \in 0..(Read - 1)
        BY <1>3
      <4> QED BY <2>1, <2>3, <3>4, <4>1 DEF Level
    <3>9. \A ch \in k..(Read - 1) : ring'[ch] = <<>>
      <4>1. \A ch \in k..(Read - 1) : ch \in 0..(Read - 1) /\ ch # c
        BY <1>3, <2>0, <3>2
      <4> QED BY <2>1, <3>4, <4>1 DEF Level
    <3>10. Level(k, len, g)'
      BY <1>1, <2>1, <2>4, <3>6, <3>8, <3>9 DEF Level
    <3> QED BY <1>1, <3>10 DEF IsLevel
  <2> QED BY <2>5, <2>6
<1>6. ASSUME IsLevel, ~(c_pc = "flush" /\ ~c_clean) PROVE Clean
  BY <1>1, <1>6 DEF Doomed, Clean, InTurn
<1> QED
  BY <1>1, <1>4, <1>5, <1>6 DEF MixInv

LEMMA MixBegins ==
  ASSUME TypeInv, TurnInv, MixInv, CallbackBegins PROVE MixInv'
<1> SUFFICES ASSUME ~disturbed', ~Doomed', Normal' \/ Clean' PROVE MixInv'
  BY DEF MixInv
<1>1. /\ ~disturbed /\ c_pc = "idle" /\ c_pc' \in {"play", "flush"} /\ popped' = {} /\ c_ch' = 0
      /\ c_active' = InUse /\ (c_clean' <=> ~Resetting) /\ (Resetting' <=> Resetting)
      /\ (Normal' <=> Normal) /\ InUse' = InUse
      /\ UNCHANGED <<ring, r_pc, r_next, r_ch, next_frame, remote_channels>>
  BY DEF CallbackBegins, receiver, atomics, Resetting, Normal, InUse
<1>2. ~Resetting
  <2> SUFFICES ASSUME Resetting PROVE FALSE
    OBVIOUS
  <2>1. ~Clean' /\ Normal /\ r_next = "push"
    BY <1>1 DEF Clean, Normal
  <2>2. c_pc' = "flush"
    BY <1>1 DEF Doomed
  <2>3. flush_samples > 0 /\ flush_samples = 0
    BY <2>1, <2>2 DEF CallbackBegins, TurnInv
  <2> QED BY <2>3
<1>3. ~Doomed /\ Normal /\ ~Clean /\ Clean' /\ Read' = Read /\ c_active' = Read
  BY <1>1, <1>2 DEF Doomed, Normal, Clean, InTurn, Read
<1>4. ASSUME AllStale PROVE AllStale'
  <2>1. \A a, b \in 0..(c_active' - 1) : ring[a] = <<>> => ring[b] = <<>>
    <3>1. Cardinality({ring[ch] = <<>> : ch \in 0..(c_active' - 1)}) # 2
      BY DEF CallbackBegins
    <3>2. ASSUME NEW a \in 0..(c_active' - 1), NEW b \in 0..(c_active' - 1),
                 ring[a] = <<>>, ring[b] # <<>>
          PROVE  FALSE
      <4> DEFINE S == {ring[ch] = <<>> : ch \in 0..(c_active' - 1)}
      <4>1. S = {TRUE, FALSE}
        <5>1. S \subseteq {TRUE, FALSE}
          BY Zenon
        <5>2. (ring[a] = <<>>) \in S /\ (ring[b] = <<>>) \in S
          BY Zenon
        <5>3. (ring[a] = <<>>) = TRUE /\ (ring[b] = <<>>) = FALSE
          BY <3>2, Zenon
        <5> HIDE DEF S
        <5>4. TRUE \in S /\ FALSE \in S
          BY <5>2, <5>3, Zenon
        <5> QED BY <5>1, <5>4, Zenon
      <4>2. Cardinality({TRUE, FALSE}) = 2
        <5>1. IsFiniteSet({TRUE}) /\ Cardinality({TRUE}) = 1
          BY FS_Singleton
        <5>2. FALSE \notin {TRUE} /\ {TRUE} \cup {FALSE} = {TRUE, FALSE}
          BY Zenon
        <5>3. Cardinality({TRUE} \cup {FALSE}) = 1 + 1
          BY <5>1, <5>2, FS_AddElement
        <5>4. 1 + 1 = 2
          OBVIOUS
        <5> QED BY <5>2, <5>3, <5>4, Zenon
      <4> QED BY <3>1, <4>1, <4>2
    <3> QED BY <3>2
  <2> QED BY <1>1, <1>3, <1>4, <2>1 DEF AllStale
<1>5. ASSUME IsLevel PROVE IsLevel'
  <2>1. PICK k \in 1..Read, len \in Nat, g \in [Nat -> Unit] : Level(k, len, g)
    BY <1>5 DEF IsLevel
  <2>2. \A ch : Popped(ch)' = 0 /\ Popped(ch) = 0 /\ Pushed(ch)' = Pushed(ch)
    BY <1>1, <1>3 DEF Popped, Pushed
  <2>3. Fresh' = Fresh
    BY <1>1 DEF Fresh
  <2>4. popped' \subseteq {g[1]}
    BY <1>1
  <2>5. Level(k, len, g)'
    BY <1>1, <1>3, <2>1, <2>2, <2>3, <2>4 DEF Level
  <2> QED BY <1>3, <2>5 DEF IsLevel
<1> QED
  BY <1>1, <1>2, <1>3, <1>4, <1>5 DEF MixInv

\* A turn has ended: what it took is gone from all rings alike.
LEMMA EndLevel ==
  ASSUME TypeInv, TurnInv, IsLevel, Clean, c_ch = c_active, ~Clean', Normal, Normal',
         InUse' = InUse, UNCHANGED <<ring, r_pc, r_ch, next_frame, remote_channels>>
  PROVE  IsLevel'
<1>1. PICK k \in 1..Read, len \in Nat, g \in [Nat -> Unit] : Level(k, len, g)
  BY DEF IsLevel
<1>2. k = remote_channels /\ Read = c_active /\ c_active = InUse /\ Read' = Read /\ Read \in Nat
      /\ k \in Nat /\ k > 0 /\ k <= Read /\ \A ch \in 0..(k - 1) : ch \in Chan
  <2>1. c_active = InUse
    BY DEF TurnInv, Normal, Resetting
  <2>2. Read \in Nat /\ \A ch \in 0..(Read - 1) : ch \in Chan
    BY ReadRange, PlaybackAssumption
  <2> QED BY <1>1, <2>1, <2>2 DEF Level, Read
<1>3. PICK q \in {0, 1} : q = IF popped # {} THEN 1 ELSE 0
  OBVIOUS
<1>4. \A ch \in 0..(k - 1) : Popped(ch) = q /\ Popped(ch)' = 0 /\ Pushed(ch)' = Pushed(ch)
  BY <1>2, <1>3 DEF Popped, Pushed
<1>5. len - q \in Nat
  <2>1. PICK ch \in 0..(k - 1) : Pushed(ch) = 0
    <3>1. r_pc = "push" => r_ch \in 0..(k - 1) /\ ~(r_ch < r_ch)
      BY <1>2 DEF TypeInv, TypeOK, Local, Chan
    <3>2. 0 \in 0..(k - 1)
      BY <1>2
    <3> QED BY <3>1, <3>2 DEF Pushed
  <2>2. Len(ring[ch]) = len + 0 - q /\ Len(ring[ch]) \in Nat
    BY <1>1, <1>2, <1>4, <2>1, Bounds DEF Level, TypeInv
  <2> QED BY <2>2
<1>6. PICK h \in [Nat -> Unit] : \A i \in Nat : h[i] = g[i + q]
  <2> DEFINE f == [i \in Nat |-> g[i + q]]
  <2>1. f \in [Nat -> Unit] /\ \A i \in Nat : f[i] = g[i + q]
    OBVIOUS
  <2> HIDE DEF f
  <2> QED BY <2>1
<1>7. \A ch \in 0..(k - 1) :
        /\ Len(ring'[ch]) = (len - q) + Pushed(ch)' - Popped(ch)'
        /\ \A i \in DOMAIN ring'[ch] : ring'[ch][i] = h[i + Popped(ch)']
  <2> SUFFICES ASSUME NEW ch \in 0..(k - 1)
               PROVE  /\ Len(ring[ch]) = (len - q) + Pushed(ch) - 0
                      /\ \A i \in DOMAIN ring[ch] : ring[ch][i] = h[i + 0]
    BY <1>4
  <2>1. Pushed(ch) \in {0, 1}
    BY DEF Pushed
  <2>2. \A i \in DOMAIN ring[ch] : i \in Nat /\ i + 0 = i
    BY <1>2, Bounds DEF TypeInv
  <2>3. /\ Len(ring[ch]) = len + Pushed(ch) - q
        /\ \A i \in DOMAIN ring[ch] : ring[ch][i] = g[i + q]
    BY <1>1, <1>4 DEF Level
  <2>4. (len - q) + Pushed(ch) - 0 = len + Pushed(ch) - q
    BY <2>1
  <2> QED BY <1>6, <2>2, <2>3, <2>4
<1>8. r_pc' = "push" => h[(len - q) + 1] = Fresh'
  <2>1. (len - q) + 1 \in Nat /\ ((len - q) + 1) + q = len + 1
    BY <1>5
  <2>2. h[(len - q) + 1] = g[len + 1]
    BY <1>6, <2>1
  <2>3. Fresh' = Fresh
    BY DEF Fresh
  <2> QED BY <1>1, <2>2, <2>3 DEF Level
<1>9. Level(k, len - q, h)'
  BY <1>1, <1>2, <1>7, <1>8 DEF Level
<1> QED
  BY <1>2, <1>5, <1>9 DEF IsLevel

LEMMA MixEnds ==
  ASSUME TypeInv, TurnInv, MixInv, PlayEnds \/ FlushEnds PROVE MixInv'
<1> SUFFICES ASSUME ~disturbed', ~Doomed', Normal' \/ Clean' PROVE MixInv'
  BY DEF MixInv
<1>1. /\ c_pc \in {"play", "flush"} /\ c_ch = c_active /\ c_pc' \in {"idle", "dry"}
      /\ UNCHANGED <<ring, r_pc, r_next, r_ch, next_frame, remote_channels>>
      /\ ~disturbed /\ (c_pc = "play" => c_clean)
  BY DEF PlayEnds, FlushEnds, CallbackReturns, receiver
<1>2. /\ ~Clean' /\ Normal' /\ Normal /\ InUse' = InUse /\ ~Doomed /\ (Resetting' <=> Resetting)
      /\ (Clean <=> c_clean)
  BY <1>1 DEF Clean, InTurn, Normal, Resetting, InUse, Doomed
<1>3. ASSUME AllStale PROVE AllStale'
  <2>1. Read' = InUse /\ Read = InUse
    BY <1>1, <1>2 DEF Read, TurnInv, Normal, Resetting
  <2> QED BY <1>1, <1>2, <1>3, <2>1 DEF AllStale
<1>4. ASSUME IsLevel, ~(c_pc = "flush" /\ ~c_clean) PROVE IsLevel'
  BY <1>1, <1>2, <1>4, EndLevel
<1> QED
  BY <1>1, <1>2, <1>3, <1>4 DEF MixInv

LEMMA MixReads ==
  ASSUME TypeInv, TurnInv, MixInv, ResetReads PROVE MixInv'
<1> SUFFICES ASSUME ~disturbed', ~Doomed', Normal' \/ Clean' PROVE MixInv'
  BY DEF MixInv
<1>1. /\ ~disturbed /\ r_pc = "read" /\ r_pc' = "stop" /\ (c_clean' <=> c_pc = "idle")
      /\ UNCHANGED <<c_pc, c_active, r_next, r_ch, remote_channels>>
      /\ Resetting /\ Resetting' /\ ~Clean' /\ InUse' = InUse
  BY DEF ResetReads, callback, atomics, Resetting, Clean, InTurn, InUse
<1>2. r_next = "push" /\ Normal
  BY <1>1 DEF Normal
<1>3. c_pc # "flush"
  BY <1>1, <1>2 DEF TurnInv, TypeInv, Local
<1>4. c_pc \in {"idle", "dry"}
  BY <1>1, <1>3 DEF Doomed, TypeInv, TypeOK
<1>5. ~Clean /\ ~Doomed /\ Read' = InUse /\ Read = InUse
  BY <1>1, <1>4 DEF Clean, InTurn, Doomed, Read
<1>6. PICK k \in 1..Read, len \in Nat, g \in [Nat -> Unit] : Level(k, len, g)
  BY <1>1, <1>2, <1>5 DEF MixInv, IsLevel
<1>7. PICK h \in [Nat -> Unit] : \A i \in Nat : h[i] = [g[i] EXCEPT !.stale = TRUE]
  <2> DEFINE f == [i \in Nat |-> [g[i] EXCEPT !.stale = TRUE]]
  <2>1. ASSUME NEW u \in Unit PROVE [u EXCEPT !.stale = TRUE] \in Unit
    BY DEF Unit
  <2>2. f \in [Nat -> Unit] /\ \A i \in Nat : f[i] = [g[i] EXCEPT !.stale = TRUE]
    BY <2>1
  <2> HIDE DEF f
  <2> QED BY <2>2
<1>8. \A ch \in Chan : ring[ch] \in Seq(Unit) /\ ring'[ch] = Marked(ring[ch])
  BY Bounds DEF ResetReads, Marked, TypeInv
<1>9. \A ch : Popped(ch) = 0 /\ Popped(ch)' = 0 /\ Pushed(ch) = 0 /\ Pushed(ch)' = 0
  BY <1>1, <1>5 DEF Popped, Pushed
<1>10. \A ch \in 0..(k - 1) :
         /\ Len(ring'[ch]) = len + Pushed(ch)' - Popped(ch)'
         /\ \A i \in DOMAIN ring'[ch] : ring'[ch][i] = h[i + Popped(ch)']
  <2> SUFFICES ASSUME NEW ch \in 0..(k - 1)
               PROVE  /\ Len(ring'[ch]) = len + 0 - 0
                      /\ \A i \in DOMAIN ring'[ch] : ring'[ch][i] = h[i + 0]
    BY <1>9
  <2>1. ch \in Chan
    BY ReadRange, PlaybackAssumption
  <2>2. /\ Len(ring'[ch]) = Len(ring[ch]) /\ DOMAIN ring'[ch] = DOMAIN ring[ch]
        /\ \A i \in DOMAIN ring[ch] : ring'[ch][i] = [ring[ch][i] EXCEPT !.stale = TRUE]
    BY <1>8, <2>1, MarkedRing
  <2>3. Len(ring[ch]) = len + 0 - 0 /\ \A i \in DOMAIN ring[ch] : ring[ch][i] = g[i + 0]
    BY <1>6, <1>9 DEF Level
  <2>4. \A i \in DOMAIN ring[ch] : i \in Nat /\ i + 0 = i
    BY <2>1, Bounds DEF TypeInv
  <2> QED BY <1>7, <2>2, <2>3, <2>4
<1>11. \A ch \in k..(Read - 1) : ring'[ch] = <<>>
  <2> SUFFICES ASSUME NEW ch \in k..(Read - 1) PROVE ring'[ch] = <<>>
    OBVIOUS
  <2>1. ch \in Chan /\ ring[ch] = <<>>
    BY <1>6, ReadRange, PlaybackAssumption DEF Level
  <2>2. ring'[ch] \in Seq(Unit) /\ DOMAIN ring'[ch] = {}
    BY <1>8, <2>1, MarkedRing
  <2> QED BY <2>2, NoUnit
<1>12. Level(k, len, h)'
  BY <1>1, <1>2, <1>5, <1>6, <1>10, <1>11 DEF Level
<1> QED
  BY <1>1, <1>3, <1>5, <1>12 DEF MixInv, IsLevel

LEMMA MixFlushes ==
  ASSUME TypeInv, TypeInv', TurnInv, MarkInv, MixInv, ResetFlushes PROVE MixInv'
<1> SUFFICES ASSUME ~disturbed', ~Doomed' PROVE MixInv'
  BY DEF MixInv
<1>1. /\ ~disturbed /\ ~Doomed /\ r_pc = "flush" /\ r_pc' = r_next /\ r_next' = "top"
      /\ UNCHANGED <<ring, callback, c_clean, remote_channels, r_ch, next_frame>>
  BY DEF ResetFlushes, Doomed, callback
<1>2. /\ UNCHANGED <<c_pc, c_active, c_ch, popped>> /\ (Clean' <=> Clean) /\ Read' = Read
      /\ ~Resetting' /\ InUse' = InUse
  BY <1>1 DEF callback, Clean, InTurn, Read, InUse, Resetting, TypeInv, TypeOK
<1>3. CASE r_next = "push"
  <2>1. Normal
    BY <1>3 DEF Normal
  <2>2. IsLevel /\ ~(c_pc = "flush" /\ ~c_clean)
    BY <1>1, <1>3, <2>1 DEF MixInv, Resetting
  <2>3. r_ch' = 0
    BY <1>1 DEF TypeInv, Local
  <2>4. IsLevel'
    BY <1>1, <1>2, <1>3, <2>1, <2>2, <2>3, StartPush
  <2> QED BY <1>1, <1>2, <2>2, <2>4 DEF MixInv
<1>4. CASE r_next # "push"
  <2>1. ~Clean'
    BY <1>1, <1>2 DEF TurnInv, Clean, InTurn
  <2>2. \A ch \in 0..(Read - 1) : \A i \in DOMAIN ring[ch] : ring[ch][i].stale
    BY <1>1, ReadRange DEF MarkInv
  <2>3. AllStale'
    BY <1>1, <1>2, <1>4, <2>1, <2>2 DEF AllStale
  <2> QED BY <1>2, <2>3 DEF MixInv
<1> QED
  BY <1>3, <1>4

LEMMA MixStep ==
  TypeInv /\ TurnInv /\ FlushInv /\ MarkInv /\ EmptyInv /\ MixInv /\ [Next]_vars => MixInv'
<1> SUFFICES ASSUME TypeInv, TurnInv, FlushInv, MarkInv, EmptyInv, MixInv, [Next]_vars PROVE MixInv'
  OBVIOUS
<1>0. TypeInv'
  BY NextTypes
<1>1. CASE DropConnection \/ BumpEpoch \/ OthersMove \/ UNCHANGED vars
  BY <1>1, Unmixed
<1>2. CASE Receive
  BY <1>0, <1>2, Unmixed, MixMedia, MixPush, MixReads, MixFlushes DEF Receive
<1>3. CASE Callback
  BY <1>3, Unmixed, MixPop, MixBegins, MixEnds DEF Callback
<1> QED
  BY <1>1, <1>2, <1>3 DEF Next

\* Between two frames, with nothing stale, the rings are all empty if one is.
LEMMA NowEmpty ==
  ASSUME TypeInv, TurnInv, MixInv, Resampled, ~disturbed, ~Doomed, r_pc # "push",
         \A ch \in Chan : \A i \in DOMAIN ring[ch] : ~ring[ch][i].stale,
         Normal \/ Clean, Clean => c_ch = c_active, ring[0] = <<>>
  PROVE  \A ch \in Chan : ring[ch] = <<>>
<1>1. Read = NumChannels /\ NumChannels \in Nat /\ NumChannels > 0
  BY Bounds DEF Read, InUse, TurnInv, Clean, TypeInv
<1>2. ASSUME AllStale, NEW ch \in Chan PROVE ring[ch] = <<>>
  <2>1. \A i \in DOMAIN ring[ch] : FALSE
    BY <1>1, <1>2 DEF AllStale, Chan
  <2> QED BY <1>2, <2>1, NoUnit, Bounds DEF TypeInv
<1>3. ASSUME IsLevel, NEW ch \in Chan PROVE ring[ch] = <<>>
  <2>1. PICK k \in 1..Read, len \in Nat, g \in [Nat -> Unit] : Level(k, len, g)
    BY <1>3 DEF IsLevel
  <2>2. CASE ch \in 0..(k - 1)
    <3>1. (ch < c_active /\ 0 < c_active) \/ ~Clean
      BY <1>1, <2>1, <2>2 DEF Read
    <3>2. Popped(ch) = Popped(0) /\ Popped(0) \in {0, 1} /\ Pushed(ch) = 0 /\ Pushed(0) = 0
      BY <3>1 DEF Popped, Pushed
    <3>3. 0 \in 0..(k - 1)
      BY <1>1, <2>1
    <3>4. Len(ring[0]) = len + Pushed(0) - Popped(0) /\ Len(ring[ch]) = len + Pushed(ch) - Popped(ch)
      BY <2>1, <2>2, <3>3 DEF Level
    <3>5. Len(ring[0]) = 0
      OBVIOUS
    <3>6. Len(ring[ch]) = 0 /\ ring[ch] \in Seq(Unit)
      BY <1>3, <3>2, <3>4, <3>5, Bounds DEF TypeInv
    <3> QED BY <3>6, EmptySeq
  <2>3. CASE ch \notin 0..(k - 1)
    <3>1. ch \in k..(Read - 1)
      BY <1>1, <1>3, <2>1, <2>3 DEF Chan
    <3> QED BY <2>1, <3>1 DEF Level
  <2> QED BY <2>2, <2>3
<1> QED
  BY <1>2, <1>3 DEF MixInv

LEMMA EmptyStep == TypeInv /\ TurnInv /\ EmptyInv /\ MixInv /\ [Next]_vars => EmptyInv'
<1> SUFFICES ASSUME TypeInv, TurnInv, EmptyInv, MixInv, [Next]_vars,
                    Resampled, ~disturbed', ~Doomed', flush_samples' = 0
             PROVE  EmptyInv'
  BY DEF EmptyInv
<1>a. c_pc # "flush"
  BY DEF TypeInv, Local
<1>b. ~disturbed
  BY DEF Next, DropConnection, BumpEpoch, OthersMove, Receive, Callback, vars, ResetReads,
     ResetStops, ResetFlushes, LoopTop, NoPacket, Handshake, Metadata, Media, Push, PrimeCheck,
     CallbackBegins, Pop, PlayEnds, Reprime, FlushEnds
<1>c. flush_samples = 0
  <2>1. ASSUME ResetFlushes PROVE flush_samples = 0
    <3>1. old_fill \in Nat /\ flush_samples' = IF old_fill > 0 THEN old_fill + 1 ELSE flush_samples
      BY <2>1, PlaybackAssumption DEF ResetFlushes, TypeInv, TypeOK
    <3> QED BY <3>1
  <2> QED
    BY <1>a, <2>1
    DEF Next, DropConnection, BumpEpoch, OthersMove, Receive, Callback, vars, ResetReads,
     ResetStops, LoopTop, NoPacket, Handshake, Metadata, Media, Push, PrimeCheck,
     CallbackBegins, Pop, PlayEnds, Reprime, FlushEnds, atomics
<1>d. ~Doomed
  <2> SUFFICES ASSUME c_pc = "play", ~c_clean PROVE FALSE
    BY DEF Doomed
  <2>1. CASE PlayEnds
    BY <2>1 DEF PlayEnds
  <2>2. CASE ResetReads
    <3>1. c_clean' = (c_pc = "idle") /\ c_pc' = c_pc
      BY <2>2 DEF ResetReads, callback
    <3>2. ~c_clean'
      BY <3>1
    <3> QED BY <3>1, <3>2 DEF Doomed
  <2>3. CASE ~PlayEnds /\ ~ResetReads
    <3>1. c_pc' = c_pc /\ c_clean' = c_clean
      BY <2>3
      DEF Next, DropConnection, BumpEpoch, OthersMove, Receive, Callback, vars,
       ResetStops, ResetFlushes, LoopTop, NoPacket, Handshake, Metadata, Media, Push, PrimeCheck,
       CallbackBegins, Pop, Reprime, FlushEnds, callback
    <3> QED BY <3>1 DEF Doomed
  <2> QED BY <2>1, <2>2, <2>3
<1>e. /\ r_pc \notin {"stop", "flush"} =>
           \A ch \in Chan : \A i \in DOMAIN ring[ch] : ~ring[ch][i].stale
      /\ r_pc = "read" /\ ~InTurn /\ ring[0] = <<>> => \A ch \in Chan : ring[ch] = <<>>
      /\ r_pc \in {"stop", "flush"} /\ old_fill = 0 => \A ch \in Chan : ring[ch] = <<>>
  BY <1>b, <1>c, <1>d DEF EmptyInv
<1>0. ASSUME ring' = ring, old_fill' = old_fill, r_pc' = r_pc, InTurn' \/ ~InTurn PROVE EmptyInv'
  BY <1>e, <1>0 DEF EmptyInv
<1>1. CASE DropConnection \/ BumpEpoch \/ OthersMove \/ UNCHANGED vars \/ CallbackBegins \/ Reprime
  BY <1>0, <1>1
  DEF DropConnection, BumpEpoch, OthersMove, vars, CallbackBegins, Reprime, receiver, callback,
      atomics, InTurn
<1>2. CASE ResetStops
  BY <1>2, <1>e DEF ResetStops, EmptyInv
<1>3. CASE LoopTop \/ NoPacket \/ Handshake \/ (\E n \in Counts : Metadata(n)) \/ Media \/ PrimeCheck
  <2>1. /\ r_pc \in {"top", "recv", "prime"} /\ r_pc' \notin {"stop", "flush"}
        /\ ring' = ring /\ c_pc' = c_pc
    BY <1>3 DEF LoopTop, NoPacket, Handshake, Metadata, Media, PrimeCheck, ResetThen, callback
  <2>2. Normal /\ \A ch \in Chan : \A i \in DOMAIN ring[ch] : ~ring[ch][i].stale
    BY <1>e, <2>1 DEF Normal, Resetting
  <2>3. ~InTurn' => ~Clean
    BY <2>1 DEF Clean, InTurn
  <2>4. ~InTurn' /\ ring[0] = <<>> => \A ch \in Chan : ring[ch] = <<>>
    BY <1>b, <1>d, <2>1, <2>2, <2>3, NowEmpty
  <2> QED BY <2>1, <2>2, <2>4 DEF EmptyInv
<1>4. CASE Push
  <2>1. r_pc = "push" /\ r_pc' \in {"push", "prime"}
    BY <1>4 DEF Push, NextPush
  <2>2. ASSUME NEW ch \in Chan, NEW i \in DOMAIN ring'[ch] PROVE ~ring'[ch][i].stale
    <3>1. \A j \in DOMAIN ring[ch] : ~ring[ch][j].stale
      BY <1>e, <2>1
    <3>2. CASE ch # r_ch
      BY <1>4, <2>2, <3>1, <3>2, PushRing
    <3>3. CASE ch = r_ch
      <4>1. ~Fresh.stale
        BY DEF Fresh
      <4>2. DOMAIN ring[ch] = 1..Len(ring[ch]) /\ Len(ring[ch]) \in Nat
        BY Bounds DEF TypeInv
      <4> QED BY <1>4, <2>2, <3>1, <3>3, <4>1, <4>2, PushRing
    <3> QED BY <3>2, <3>3
  <2> QED BY <2>1, <2>2 DEF EmptyInv
<1>5. CASE Pop
  <2>1. r_pc' = r_pc /\ old_fill' = old_fill /\ InTurn'
    BY <1>5 DEF Pop, receiver, InTurn
  <2>2. ASSUME \A ch \in Chan : \A i \in DOMAIN ring[ch] : ~ring[ch][i].stale,
               NEW ch \in Chan, NEW i \in DOMAIN ring'[ch]
        PROVE  ~ring'[ch][i].stale
    BY <1>5, <2>2, PopRing
  <2>3. ASSUME \A ch \in Chan : ring[ch] = <<>> PROVE ring' = ring
    BY <1>5, <2>3, PopRing
  <2> QED BY <1>e, <2>1, <2>2, <2>3 DEF EmptyInv
<1>6. CASE PlayEnds
  <2>1. ring' = ring /\ old_fill' = old_fill /\ r_pc' = r_pc /\ Clean /\ c_ch = c_active
    BY <1>6 DEF PlayEnds, receiver, Clean, InTurn
  <2>2. r_pc = "read" /\ ring[0] = <<>> => \A ch \in Chan : ring[ch] = <<>>
    BY <1>b, <1>d, <1>e, <2>1, NowEmpty
  <2> QED BY <1>e, <2>1, <2>2 DEF EmptyInv
<1>7. CASE ResetReads
  <2>1. r_pc = "read" /\ r_pc' = "stop" /\ old_fill' = MaxFill(Active) /\ c_pc # "play"
    BY <1>7 DEF ResetReads, Doomed, callback
  <2>2. ASSUME old_fill' = 0, NEW ch \in Chan PROVE ring'[ch] = <<>>
    <3>1. 0 \in Active /\ 0 \in Chan /\ ring[0] \in Seq(Unit) /\ Len(ring[0]) \in Nat /\ ring[ch] \in Seq(Unit)
      BY <2>2, Bounds DEF TypeInv
    <3>2. Len(ring[0]) <= 0
      BY <2>1, <2>2, <3>1, Fullest DEF TypeInv
    <3>3. ring[0] = <<>>
      BY <3>1, <3>2, EmptySeq
    <3>4. ring[ch] = <<>>
      BY <1>a, <1>e, <2>1, <2>2, <3>3 DEF InTurn
    <3>5. ring'[ch] = Marked(ring[ch])
      BY <1>7, <2>2 DEF ResetReads, Marked
    <3>6. Marked(ring[ch]) \in Seq(Unit) /\ DOMAIN Marked(ring[ch]) = DOMAIN ring[ch]
      BY <3>1, MarkedRing
    <3>7. DOMAIN ring[ch] = {}
      BY <3>4
    <3> QED BY <3>5, <3>6, <3>7, NoUnit
  <2> QED BY <2>1, <2>2 DEF EmptyInv
<1>8. CASE ResetFlushes
  <2>1. old_fill = 0
    <3>1. old_fill \in Nat /\ flush_samples' = IF old_fill > 0 THEN old_fill + 1 ELSE flush_samples
      BY <1>8, PlaybackAssumption DEF ResetFlushes, TypeInv, TypeOK
    <3> QED BY <3>1
  <2>2. r_pc = "flush" /\ r_pc' \notin {"read", "stop", "flush"} /\ ring' = ring
    BY <1>8 DEF ResetFlushes, TypeInv, TypeOK
  <2>3. \A ch \in Chan : \A i \in DOMAIN ring'[ch] : ~ring'[ch][i].stale
    BY <1>e, <2>1, <2>2
  <2> QED BY <2>2, <2>3 DEF EmptyInv
<1>9. CASE FlushEnds
  BY <1>9, <1>a DEF FlushEnds
<1> QED
  BY <1>1, <1>2, <1>3, <1>4, <1>5, <1>6, <1>7, <1>8, <1>9 DEF Next, Receive, Callback

LEMMA InitMix == Init => MixInv /\ MarkInv /\ EmptyInv
<1> SUFFICES ASSUME Init PROVE MixInv /\ MarkInv /\ EmptyInv
  OBVIOUS
<1>1. \A ch \in Chan : ring[ch] = <<>>
  BY DEF Init
<1>2. ~Clean /\ r_pc = "top" /\ Read = NumChannels /\ remote_channels = NumChannels
  BY DEF Init, Clean, InTurn, Read, InUse
<1>3. AllStale
  <2>1. \A ch \in 0..(Read - 1) : ring[ch] = <<>>
    BY <1>1, <1>2 DEF Chan
  <2> QED BY <1>2, <2>1 DEF AllStale
<1>4. MixInv
  BY <1>2, <1>3 DEF MixInv, Resetting
<1> QED
  BY <1>1, <1>2, <1>4 DEF MarkInv, EmptyInv

LEMMA MixAlways == Spec => [](TypeInv /\ MixInv)
<1> QED
  BY InitTypes, NextTypes, InitFlush, TurnStep, FlushStep, InitMix, MarkStep, EmptyStep, MixStep,
     PTL DEF Spec

\* Until a race disturbs the rings, what one turn of the callback takes from the rings of
\* the channels comes from one frame of the peer: a frame is pushed channel by channel
\* while the callback pops, resets come between, metadata changes the number of channels,
\* and the rings still move in step (engine.rs:1181-1201, 1225-1405).
THEOREM FramesAligned == Spec => []AlignedUntilSlip
<1>1. TypeInv /\ MixInv => AlignedUntilSlip
  <2> SUFFICES ASSUME TypeInv, MixInv, ~disturbed, c_pc = "play", c_clean,
                      NEW u \in popped, NEW v \in popped, ~u.stale, ~v.stale
               PROVE  u.n = v.n
    BY DEF AlignedUntilSlip
  <2>1. Clean /\ ~Doomed
    BY DEF Clean, InTurn, Doomed
  <2>2. \A w \in popped : w.stale \/ popped \subseteq {w}
    BY <2>1 DEF MixInv, AllStale, IsLevel, Level
  <2> QED BY <2>2
<1> QED
  BY <1>1, MixAlways, PTL

\* Audio from before a reset is never played in one turn with audio from after it
\* (engine.rs:740-763, 1160-1168, 1234-1240).
THEOREM StaleKeptApart == Spec => []StaleNeverMixes
<1>1. TypeInv /\ MixInv => StaleNeverMixes
  <2> SUFFICES ASSUME TypeInv, MixInv, ~disturbed, c_pc = "play", c_clean,
                      NEW u \in popped, NEW v \in popped
               PROVE  u.stale = v.stale
    BY DEF StaleNeverMixes
  <2>1. Clean /\ ~Doomed
    BY DEF Clean, InTurn, Doomed
  <2>2. u.stale \in BOOLEAN /\ v.stale \in BOOLEAN
    BY DEF TypeInv, TypeOK, Unit
  <2>3. (u.stale /\ v.stale) \/ u = v
    BY <2>1 DEF MixInv, AllStale, IsLevel, Level
  <2>4. CASE u = v
    BY <2>4
  <2>5. CASE u.stale /\ v.stale
    BY <2>2, <2>5
  <2> QED BY <2>3, <2>4, <2>5
<1> QED
  BY <1>1, MixAlways, PTL
=============================================================================
