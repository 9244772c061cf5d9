------------------------------ MODULE Playback ------------------------------
(***************************************************************************)
(* The playback path of a session (engine.rs): the receive thread pushes   *)
(* decoded audio into one ring per channel, the output callback of the     *)
(* audio device pops it, and the two agree through atomics on when to play *)
(* (started), when to throw stale audio away (flush_samples) and when the  *)
(* output ran dry (empty_cb).  The output callback has two versions: one   *)
(* for a device at 48 kHz and one that resamples.                          *)
(*                                                                         *)
(* A ring holds units, the audio of one media frame; the callback plays a  *)
(* unit at a time.  A unit carries the stamp of its frame and whether a    *)
(* reset has made it stale.  Receive thread and callback run concurrently: *)
(* each action is one load or store of an atomic, or one push or pop.      *)
(*                                                                         *)
(* The device plays as soon as one session is connected and one has        *)
(* started, but the callback reads the count, the flush and the underruns  *)
(* of the first session only.  The session modelled is the first; of the   *)
(* others the model has what the callback reads of them.                   *)
(*                                                                         *)
(* The jitter buffer is taken as given (module JitterBuffer): a group is   *)
(* drained in the turn of the loop that completes it, all channels of it.  *)
(***************************************************************************)
EXTENDS Integers, Sequences, FiniteSets

CONSTANTS
  NumChannels,   \* num_channels: the rings handed to the session
  Counts,        \* bound: channel counts the peer's metadata announces; the
                 \* receive thread panics on one above num_channels
  Cap,           \* ring_samples, in units
  Prime,         \* prime_samples, in units
  EmptyMax,      \* REPRIME_AFTER_EMPTY_CALLBACKS
  IsInitiator,   \* is_initiator: media counts before the handshake
  Resampled,     \* the output device does not run at 48 kHz
  Others,        \* there are other sessions
  Resets,        \* bound: {"handshake", "drop", "restart"} or part of it
  Frames         \* bound: stamps of frames are counted modulo this

ASSUME PlaybackAssumption ==
  /\ NumChannels \in Nat \ {0} /\ Counts \subseteq 1..NumChannels
  /\ Prime \in Nat \ {0} /\ Cap \in Nat /\ Prime <= Cap
  /\ EmptyMax \in Nat \ {0} /\ Frames \in Nat \ {0}
  /\ IsInitiator \in BOOLEAN /\ Resampled \in BOOLEAN /\ Others \in BOOLEAN
  /\ Resets \subseteq {"handshake", "drop", "restart"}

Chan == 0..(NumChannels - 1)
Unit == [n : 0..(Frames - 1), stale : BOOLEAN]

VARIABLES
  ring,              \* pb_prods and pb_conss: per channel the queued units
  remote_channels, connected, epoch_moved, started, flush_samples, empty_cb,
  dropping,          \* a thread dropped the connection and will bump the epoch
  others,            \* "connected", "started": some other session is
  next_frame,        \* the stamp of the peer's next frame
  r_pc, r_next,      \* the receive thread; where it goes after a reset
  r_ch,              \* the channel it pushes next
  old_fill,          \* its local
  c_pc, c_active, c_ch,   \* the callback; its locals
  remaining,         \* its local, the flush count it loaded
  popped,            \* the units it popped in this turn
  c_clean,           \* no reset has been under way since it began
  disturbed,         \* history: a full ring lost a unit, a turn found some rings
                     \* empty and others not, a reset came in the middle of a
                     \* turn, or the callback overwrote the count of a reset
  overwritten        \* history: the callback overwrote the count of the last reset

atomics  == <<remote_channels, connected, epoch_moved, started, flush_samples, empty_cb>>
receiver == <<r_pc, r_next, r_ch, old_fill>>
callback == <<c_pc, c_active, c_ch, remaining, popped>>
vars == <<ring, atomics, dropping, others, next_frame, receiver, callback, c_clean, disturbed,
          overwritten>>

Init ==
  /\ ring = [ch \in Chan |-> <<>>]
  /\ remote_channels = NumChannels
  /\ connected = FALSE /\ epoch_moved = FALSE /\ dropping = FALSE
  /\ started = FALSE /\ flush_samples = 0 /\ empty_cb = 0
  /\ others = {} /\ next_frame = 0
  /\ r_pc = "top" /\ r_next = "top" /\ r_ch = 0 /\ old_fill = 0
  /\ c_pc = "idle" /\ c_active = 1 /\ c_ch = 0 /\ remaining = 0
  /\ popped = {} /\ c_clean = TRUE
  /\ disturbed = FALSE /\ overwritten = FALSE

Active == 0..(remote_channels - 1)

\* Mutant: the emptiest ring decides how much is flushed.
MinFill(chs) ==
  CHOOSE m \in 0..Cap : /\ \E ch \in chs : Len(ring[ch]) = m
                        /\ \A ch \in chs : Len(ring[ch]) >= m

MaxFill(chs) ==
  CHOOSE m \in 0..Cap : /\ \E ch \in chs : Len(ring[ch]) = m
                        /\ \A ch \in chs : Len(ring[ch]) <= m

-----------------------------------------------------------------------------
(* The watchdog and the interface monitor *)

DropConnection ==
  /\ "drop" \in Resets /\ connected /\ ~dropping
  /\ connected' = FALSE /\ dropping' = TRUE
  /\ UNCHANGED <<ring, remote_channels, epoch_moved, started, flush_samples, empty_cb,
                 others, next_frame, receiver, callback, c_clean, disturbed, overwritten>>

BumpEpoch ==
  /\ dropping
  /\ epoch_moved' = TRUE /\ dropping' = FALSE
  /\ UNCHANGED <<ring, remote_channels, connected, started, flush_samples, empty_cb,
                 others, next_frame, receiver, callback, c_clean, disturbed, overwritten>>

\* The other sessions connect and stop on their own.
OthersMove ==
  /\ Others
  /\ others' \in (SUBSET {"connected", "started"}) \ {others}
  /\ UNCHANGED <<ring, atomics, dropping, next_frame, receiver, callback, c_clean, disturbed,
                 overwritten>>

-----------------------------------------------------------------------------
(* reset_session, in the receive thread *)

\* What was queued before the reset is stale from now on.
ResetReads ==
  /\ r_pc = "read" /\ r_pc' = "stop"
  /\ old_fill' = MaxFill(Active)
  /\ ring' = [ch \in Chan |-> [i \in DOMAIN ring[ch] |-> [ring[ch][i] EXCEPT !.stale = TRUE]]]
  /\ c_clean' = (c_pc = "idle")
  /\ UNCHANGED <<atomics, dropping, others, next_frame, r_next, r_ch, callback, disturbed,
                 overwritten>>

ResetStops ==
  /\ r_pc = "stop" /\ r_pc' = "flush"
  /\ started' = FALSE /\ empty_cb' = 0
  /\ UNCHANGED <<ring, remote_channels, connected, epoch_moved, flush_samples, dropping, others,
                 next_frame, r_next, r_ch, old_fill, callback, c_clean, disturbed, overwritten>>

ResetFlushes ==
  /\ r_pc = "flush" /\ r_pc' = r_next
  /\ flush_samples' = IF old_fill > 0 THEN old_fill + 1 ELSE flush_samples
  /\ old_fill' = 0 /\ r_next' = "top" /\ overwritten' = FALSE
  /\ UNCHANGED <<ring, remote_channels, connected, epoch_moved, started, empty_cb, dropping, others,
                 next_frame, r_ch, callback, c_clean, disturbed>>

ResetThen(pc) == r_pc' = "read" /\ r_next' = pc

-----------------------------------------------------------------------------
(* The receive loop *)

LoopTop ==
  /\ r_pc = "top"
  /\ epoch_moved' = FALSE
  /\ IF epoch_moved THEN ResetThen("recv") ELSE r_pc' = "recv" /\ r_next' = r_next
  /\ UNCHANGED <<ring, remote_channels, connected, started, flush_samples, empty_cb, dropping, others,
                 next_frame, r_ch, old_fill, callback, c_clean, disturbed, overwritten>>

\* recv_timeout gave nothing, or a packet that changes nothing here.
NoPacket ==
  /\ r_pc = "recv" /\ r_pc' = "prime"
  /\ UNCHANGED <<ring, atomics, dropping, others, next_frame, r_next, r_ch, old_fill,
                 callback, c_clean, disturbed, overwritten>>

\* A handshake connects first and resets then; the loop continues at its top.
Handshake ==
  /\ r_pc = "recv" /\ "handshake" \in Resets /\ ~connected
  /\ connected' = TRUE
  /\ ResetThen("top")
  /\ UNCHANGED <<ring, remote_channels, epoch_moved, started, flush_samples, empty_cb,
                 dropping, others, next_frame, r_ch, old_fill, callback, c_clean, disturbed,
                 overwritten>>

\* Metadata with another channel count.
Metadata(n) ==
  /\ r_pc = "recv" /\ connected /\ n # remote_channels
  /\ remote_channels' = n
  /\ ResetThen("top")
  /\ UNCHANGED <<ring, connected, epoch_moved, started, flush_samples, empty_cb,
                 dropping, others, next_frame, r_ch, old_fill, callback, c_clean, disturbed,
                 overwritten>>

\* Mutant: media is queued while the rings are flushed.
MediaDuringFlush ==
  /\ r_pc = "recv" /\ (connected \/ IsInitiator)
  /\ next_frame' = (next_frame + 1) % Frames
  /\ r_ch' = 0
  /\ \/ r_pc' = "push" /\ r_next' = r_next
     \/ "restart" \in Resets /\ ResetThen("push")
  /\ UNCHANGED <<ring, atomics, dropping, others, old_fill, callback, c_clean, disturbed,
                 overwritten>>

\* The last packet of a frame.  It is dropped while a flush is pending;
\* otherwise it is queued and the frame is drained, after a reset if the
\* packet shows that the peer restarted its stream.
Media ==
  /\ r_pc = "recv" /\ (connected \/ IsInitiator)
  /\ next_frame' = (next_frame + 1) % Frames
  /\ r_ch' = 0
  /\ IF flush_samples > 0
     THEN r_pc' = "top" /\ r_next' = r_next
     ELSE \/ r_pc' = "push" /\ r_next' = r_next
          \/ "restart" \in Resets /\ ResetThen("push")
  /\ UNCHANGED <<ring, atomics, dropping, others, old_fill, callback, c_clean, disturbed,
                 overwritten>>

\* Before the first push the loop notes that the output is fed.
NextPush ==
  /\ empty_cb' = IF r_ch = 0 THEN 0 ELSE empty_cb
  /\ IF r_ch + 1 < remote_channels THEN r_pc' = "push" /\ r_ch' = r_ch + 1
                                   ELSE r_pc' = "prime" /\ r_ch' = 0

\* Mutant: a channel whose packet is missing is not concealed.
PushUnconcealed ==
  /\ r_pc = "push"
  /\ LET full == Len(ring[r_ch]) = Cap
         unit == [n |-> next_frame, stale |-> FALSE]
     IN  /\ ring' \in {ring, [ring EXCEPT ![r_ch] = IF full THEN @ ELSE Append(@, unit)]}
         /\ disturbed' = (disturbed \/ full)
  /\ NextPush
  /\ UNCHANGED <<remote_channels, connected, epoch_moved, started, flush_samples, dropping, others,
                 next_frame, r_next, old_fill, callback, c_clean, overwritten>>

\* try_push of one channel's decoded unit; a full ring loses it.
Push ==
  /\ r_pc = "push"
  /\ LET full == Len(ring[r_ch]) = Cap
         unit == [n |-> next_frame, stale |-> FALSE]
     IN  /\ ring' = [ring EXCEPT ![r_ch] = IF full THEN @ ELSE Append(@, unit)]
         /\ disturbed' = (disturbed \/ full)
  /\ NextPush
  /\ UNCHANGED <<remote_channels, connected, epoch_moved, started, flush_samples, dropping, others,
                 next_frame, r_next, old_fill, callback, c_clean, overwritten>>

\* Playback starts when every ring holds prime_samples.
PrimeCheck ==
  /\ r_pc = "prime" /\ r_pc' = "top"
  /\ started' = (started \/ \A ch \in Active : Len(ring[ch]) >= Prime)
  /\ UNCHANGED <<ring, remote_channels, connected, epoch_moved, flush_samples, empty_cb,
                 dropping, others, next_frame, r_next, r_ch, old_fill, callback, c_clean, disturbed,
                 overwritten>>

Receive == \/ ResetReads \/ ResetStops \/ ResetFlushes
           \/ LoopTop \/ NoPacket \/ Handshake \/ (\E n \in Counts : Metadata(n))
           \/ Media \/ Push \/ PrimeCheck

-----------------------------------------------------------------------------
(* The output callback *)

\* Any session may be connected and any other started.
Playing ==
  (connected \/ "connected" \in others) /\ (started \/ "started" \in others)

\* The rings the callback pops: those of the peer's channels, or, resampling,
\* all that sessions were given.
InUse == IF Resampled THEN NumChannels ELSE remote_channels

\* It decides once whether it plays or only pops what is to be flushed.  The
\* resampling version reads all rings in use and flushes nothing.
CallbackBegins ==
  /\ c_pc = "idle"
  /\ \/ Playing /\ c_pc' = "play" /\ remaining' = 0
     \/ /\ ~Playing /\ ~Resampled /\ flush_samples > 0
        /\ c_pc' = "flush" /\ remaining' = flush_samples
  /\ c_active' = InUse
  /\ c_ch' = 0 /\ popped' = {}
  /\ c_clean' = (r_pc \notin {"read", "stop", "flush"})
  /\ disturbed' = (disturbed \/ Cardinality({ring[ch] = <<>> : ch \in 0..(c_active' - 1)}) = 2)
  /\ UNCHANGED <<ring, atomics, dropping, others, next_frame, receiver, overwritten>>

\* try_pop of one channel.
Pop ==
  /\ c_pc \in {"play", "flush"} /\ c_ch < c_active
  /\ c_ch' = c_ch + 1
  /\ IF ring[c_ch] = <<>>
     THEN UNCHANGED <<ring, popped>> /\ disturbed' = (disturbed \/ popped # {})
     ELSE /\ ring' = [ring EXCEPT ![c_ch] = Tail(@)]
          /\ popped' = popped \cup {Head(ring[c_ch])}
          /\ disturbed' = (disturbed \/ (c_ch > 0 /\ popped = {}))
  /\ UNCHANGED <<atomics, dropping, others, next_frame, receiver, c_pc, c_active, remaining, c_clean,
                 overwritten>>

CallbackReturns ==
  /\ c_pc' = "idle" /\ c_active' = 1 /\ c_ch' = 0 /\ remaining' = 0
  /\ popped' = {} /\ c_clean' = TRUE

\* Mutant: off by one.
DryAfterMore(count) == count > EmptyMax

Dry(count) == count >= EmptyMax

\* handle_underrun counts turns without any sample ...
PlayEnds ==
  /\ c_pc = "play" /\ c_ch = c_active
  /\ empty_cb' = IF Resampled THEN empty_cb ELSE IF popped = {} THEN empty_cb + 1 ELSE 0
  /\ IF ~Resampled /\ popped = {} /\ Dry(empty_cb + 1)
     THEN c_pc' = "dry" /\ UNCHANGED <<c_active, c_ch, remaining, popped, c_clean>>
     ELSE CallbackReturns
  /\ disturbed' = (disturbed \/ ~c_clean)
  /\ UNCHANGED <<ring, remote_channels, connected, epoch_moved, started, flush_samples,
                 dropping, others, next_frame, receiver, overwritten>>

\* ... and after EmptyMax of them lets the rings prime again.
Reprime ==
  /\ c_pc = "dry"
  /\ started' = FALSE /\ empty_cb' = 0
  /\ CallbackReturns
  /\ UNCHANGED <<ring, remote_channels, connected, epoch_moved, flush_samples, dropping, others,
                 next_frame, receiver, disturbed, overwritten>>

\* Mutant: the count is not stored.
FlushEndsSame ==
  /\ c_pc = "flush" /\ c_ch = c_active
  /\ CallbackReturns
  /\ UNCHANGED <<ring, atomics, dropping, others, next_frame, receiver, disturbed, overwritten>>

\* The count that was loaded at the start is stored, less one.
FlushEnds ==
  /\ c_pc = "flush" /\ c_ch = c_active
  /\ flush_samples' = remaining - 1
  /\ CallbackReturns
  /\ overwritten' = (overwritten \/ flush_samples # remaining)
  /\ disturbed' = (disturbed \/ flush_samples # remaining)
  /\ UNCHANGED <<ring, remote_channels, connected, epoch_moved, started, empty_cb, dropping, others,
                 next_frame, receiver>>

Callback == CallbackBegins \/ Pop \/ PlayEnds \/ Reprime \/ FlushEnds

-----------------------------------------------------------------------------
Next == DropConnection \/ BumpEpoch \/ OthersMove \/ Receive \/ Callback

\* The device keeps calling back, the receive thread keeps running, and a
\* connected peer streams.
Fairness == WF_vars(Callback) /\ WF_vars(Receive) /\ SF_vars(Media)

Spec == Init /\ [][Next]_vars /\ Fairness

-----------------------------------------------------------------------------
(* Properties *)

TypeOK ==
  /\ ring \in [Chan -> Seq(Unit)] /\ \A ch \in Chan : Len(ring[ch]) <= Cap
  /\ remote_channels \in Counts \cup {NumChannels}
  /\ {connected, epoch_moved, started, dropping, c_clean, disturbed, overwritten} \subseteq BOOLEAN
  /\ flush_samples \in 0..(Cap + 1) /\ remaining \in 0..(Cap + 1) /\ old_fill \in 0..Cap
  /\ empty_cb \in 0..EmptyMax
  /\ next_frame \in 0..(Frames - 1) /\ others \subseteq {"connected", "started"}
  /\ r_pc \in {"top", "recv", "read", "stop", "flush", "push", "prime"}
  /\ r_next \in {"top", "recv", "push"} /\ r_ch \in Chan
  /\ c_pc \in {"idle", "play", "dry", "flush"} /\ c_active \in 1..NumChannels
  /\ c_ch \in 0..c_active /\ popped \subseteq Unit

Resetting == r_pc \in {"read", "stop", "flush"}

\* A reset accounts for all it leaves behind, on every channel in use, though it
\* counts once for rings that may be uneven or full, and the callback may be popping
\* them: a flush never ends before the last stale unit is gone.  The one thing that
\* breaks it is the callback's own store: a turn of flushing that began before the
\* count of a reset was stored ends by storing its older count over it
\* (engine.rs:1346), and stale units may then be left with no count.  That makes the
\* exception, until the next reset counts again.
FlushCoversStale ==
  ~Resetting /\ ~overwritten =>
    \A ch \in Active :
      (\E i \in DOMAIN ring[ch] : ring[ch][i].stale) => flush_samples > 0

\* Phase lock: the units the callback pops in one turn come from one frame.  Pushes,
\* channel counts that change and resets between turns do not break it; the races listed
\* with the variable disturbed do, and after the first of them nothing is claimed.
AlignedUntilSlip ==
  ~disturbed /\ c_pc = "play" /\ c_clean =>
    \A u, v \in popped : ~u.stale /\ ~v.stale => u.n = v.n

\* README: the rings are drained by a reset "so old session audio doesn't mix into
\* the new one".  A callback may still play old audio after it, but never together
\* with new audio, though a restarted stream is pushed in the very turn of its reset.
\* As above, nothing is claimed once a race has disturbed the rings.
StaleNeverMixes ==
  ~disturbed /\ c_pc = "play" /\ c_clean =>
    \A u, v \in popped : u.stale = v.stale

\* README, Staleness watchdog: after a reset the receive thread "re-primes from
\* scratch": when resets are over and the connection holds, what the peer sends
\* is heard again and again.  No other session may keep the device playing: the
\* callback flushes only while nothing plays, and media waits for the flush.
AudioReturns ==
  <>[](connected /\ ~Resetting /\ "started" \notin others)
    => []<>(c_pc = "play" /\ \E u \in popped : ~u.stale)
=============================================================================
