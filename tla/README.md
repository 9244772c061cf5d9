# A TLA+ model of AudioLink

AudioLink (`src/`) carries up to 64 mono channels of audio between endpoints over UDP: RTP-like
media packets, Opus, a phase-locked jitter buffer, a hand-made handshake with a staleness
watchdog, and an optional rendezvous server for NAT traversal. This directory holds TLA+ modules
that model the code, the TLC configurations that check them, and proofs for TLAPS.

Every definition is translated from the source; `PROJECT.json` names for each one the lines it
stands for ("map"), the runs, the mutants (a plausible bug per property, which the property must
catch), the findings and the hazards. Line numbers below refer to `src/src/engine.rs` unless a
file is named.

## 1. The system

### Components, their state and their operations

| component | source | state | operations |
|---|---|---|---|
| packet demux | 54-88 | `addr_map` (source address to session), one bounded queue of 64 per session | receive, match by address or by link token, forward or drop |
| handshake thread and watchdog | 211-263 | shared atomics `handshake_connected`, `last_control_ms`, `last_audio_ms`, `receive_reset_epoch`; mutexes `established_addr`, `punch_target` | every 2.13 s: drop a connection silent for 15 s, or send probe and ping |
| rendezvous client threads | 266-358 | the same, `punch_target` | register every 10 s and ask to be connected; long poll for events; forget the established address when not connected |
| interface monitor | `interfaces.rs` | list of interfaces | on a change: drop the connection, bump the epoch |
| receive thread | 363-815 | the above, `remote_channels`, and its own queue, watermark, sequence numbers, decoders | address filter, handshake packets, metadata, ping and pong, media, drain, drift control, prime check, `reset_session!` |
| jitter buffer | `jitter.rs` | `groups: BTreeMap<u32, FrameGroup>` | insert, complete, time out, drain |
| rings and output callback | 925-1055, 1225-1405, `audio.rs` | one ring per channel, `started`, `flush_samples`, `empty_cb` | push (receive thread), pop, flush, play, underrun and re-prime (callback), with a second version of the callback for devices not at 48 kHz |
| send pipeline | 1412-1640 | capture rings, timestamp, sequence numbers | capture callback, mixing by source masks, encode, fan out to connected remotes |
| routing | `routing.rs` | route list, output and source masks | parse, validate, compile to masks |
| persistence and web UI | `persistence.rs`, `web.rs` | `audiolinkd_config.json`, shared UI state | load, modify and save per handler; `setup_apply` saves and replaces the process |
| rendezvous server | `audiolink-cloud-rendevous/src/main.rs` | registry name to address, age and event channel | register, connect (notify), events (long poll), reaper |
| wire format | `packet.rs` | none | build and parse of probe, accept, confirm, metadata, ping, pong, media; link tokens |

### How they interact

The demux hands packets to a session's receive thread through a bounded queue. Receive thread,
handshake thread, rendezvous threads and interface monitor share a session's atomics, all with
relaxed ordering, and the mutex of the established address; none holds more than one lock, and no
update spans two atomics. The receive thread pushes decoded samples into single-producer rings,
which the output callback of the sound card pops; they agree through `started`, `flush_samples`
and `empty_cb`. The watchdog and the interface monitor ask the receive thread to start over by an
epoch counter it compares at the top of its loop. The web handlers write route masks and gains
the audio threads read, and replace the process to apply a new setup.

### What is hard

* Concurrency without locks: five threads over the same atomics, each read separated from the
  write it decides (watchdog check against a handshake, connected check against the release of
  the address, load of the flush count against its store, prime check against stale fill).
* An unreliable network: loss, duplication and reordering against a watermark; a peer that
  restarts its stream; a peer that comes back from another address.
* Time: the 10 to 40 ms timeout of a frame group, the 15 s of the watchdog, which reads the time of
  day, deadlines of the send loop; timestamps and sequence numbers that wrap.
* Resets: handshake, watchdog, interface change, metadata with another layout and a restarted
  stream all reset the same state, and may overlap.

`PROJECT.json` "hazards" lists each at its line, with the properties that would catch it.

### What makes each component correct

* Jitter buffer: frames come out in the order of their timestamps, each at most once per session;
  nothing queued is lost except by a reset; no group waits for ever or for channels that are gone.
* Session: no packet of another endpoint is handled while the session is locked to one; nothing
  received in one connection is played in the next; silence is noticed; a peer that keeps calling
  is connected at the address it settles on, unless the watchdog is blind to a connection with another.
* Playback: after a reset all stale audio is accounted for; the channels of a frame are played
  together; fresh audio is heard again after every reset.
* Send pipeline: the stream keeps to real time whatever the scheduler does, it is not torn by
  silence again and again, and what is handed to the socket goes out.
* Demux, handshake and metadata: two devices with a token in common connect whatever was lost and
  whoever was restarted, sessions of other remotes do not get in the way, and what a session shows
  of the other side is what the other side has.
* Rendezvous: both sides learn each other's current address; registrations expire.
* Persistence and routing: no save undoes another; what the audio threads use is what the file
  and the UI say.

## 2. The modules

| module | models | extends or instantiates |
|---|---|---|
| `Playout` | abstract: what the buffer promises, frames in order, once per session, and how a session may end | |
| `JitterBuffer` | `jitter.rs` and the parts of the receive loop around it, with a peer and a network | `Playout` (refinement) |
| `JitterBufferProofs` | proofs about it | `JitterBuffer`, `TLAPS` |
| `Session` | connection state of one session and the threads that share it | |
| `SessionProofs` | proofs about it | `Session`, `TLAPS` |
| `Playback` | rings, receive thread and both versions of the output callback | |
| `PlaybackProofs` | proofs about it | `Playback`, `WellOrder` |
| `Wire` | the text of a metadata packet: written, and read back | |
| `Link` | two devices with their demuxes, sessions, handshakes and metadata, and the network between them | `Wire` |
| `MCLink` | devices, setups and labels for TLC | `Link` |
| `LinkProofs` | proofs about `Link` and the reader and writer of `Wire` | `Link`, `WellOrder` |
| `Send` | input callback, capture ring and send thread | |
| `SendProofs` | proofs about it | `Send`, `TLAPS` |
| `Rendezvous` | the server, the threads of the sessions that find each other through it, NATs, moving devices | |
| `MCRendezvous` | sets of sessions for TLC | `Rendezvous` |
| `RendezvousProofs` | proofs about it | `Rendezvous`, `TLAPS` |
| `Routing` | validity of routes, their masks, the rings of the remotes and what an output plays, as operators | |
| `ConfigStore` | the handlers of the web UI, the state file, restarts | `Routing` |
| `MCConfigStore` | remotes, routes and labels for TLC | `ConfigStore` |
| `ConfigStoreProofs` | proofs about `ConfigStore` and the operators of `Routing` | `ConfigStore`, `WellOrder` |
| `WellOrder` | lemmas: least and greatest number of a set | `TLAPS` |

**JitterBuffer.** One action is one turn of the receive loop, since the thread owns this state:
`Accept` (a packet ahead of the watermark is inserted, then the loop drains), `Refuse` (at or
behind it: `continue`), `AcceptRestart` (the restart test resets first), `IdlePoll` (the 1 ms
timeout: drain only), `Metadata`, `ResetSession`. `TimeOut` marks a group's deadline as passed.
The environment is a sender (`SendFrame`, `RestartPeer`) whose frames stay in the network for
`Lag` frames and may be delivered in any order, any number of times or never. Timestamps are
counted in frames and wrap at `TsMod` (for 2^32 samples), sequence numbers at `SeqMod` (for
2^16). `decodes` is history: how often each timestamp was decoded in this session.

**Playout.** The queue, the packets and the clock are left out; what is played (`decodes`) and the frame
played last (`last_drained_ts`) remain. A step plays frames later than the last one, in order and once each,
or ends the session: by a reset, after which nothing is played in the same step, or by a frame more than
`Rollback` behind the last one, which is the first of the new session. `ImplementsPlayout` is the
refinement; `PacketsKept` says the same of the queue: a packet leaves it only when it is decoded or
a session ends in one of these ways, so a late packet of before a restart cannot end the new stream.

**Session.** One program counter per thread; each action is one access to the shared state, or a
run of accesses between which nobody can come to any effect. The watchdog takes six steps
(check, release the address, clear connected, zero the control stamp, zero the audio stamp, bump
the epoch); a rendezvous thread two (check connected, release); the monitor two; the receive
thread takes a packet (filter, late connect, connected test), stamps it, and connects. Time is
three values of a stamp: zero, recent, stale; the program compares times of day, so a stale stamp
may become recent again when the clock is set back (`ClockSetBack`). `content` is history: whether the receive state
holds media of this connection or of an earlier one.

**Playback.** A ring holds units, the audio of one media frame; each push or pop of a unit and
each load or store of an atomic is an action. A reset takes three steps (read the fill, clear
`started` and `empty_cb`, store the flush count), the callback begins, pops channel by channel
and ends (`PlayEnds`, `Reprime` or `FlushEnds`). Units carry the stamp of their frame and whether
a reset has made them stale, so that the properties can tell. The callback plays all sessions as
soon as one of them is connected and one has started, but takes the flush count, the underruns
and, at 48 kHz, the number of rings from the first: the session modelled is the first, and
`others` is what the callback reads of the rest. The jitter buffer is taken as
given: a frame is drained in the turn that completes it. `disturbed` and `overwritten` are history:
`overwritten` is set when the callback stores what is left of a flush over a count that a reset has
stored since it read the old one.

**Wire and Link.** `Wire` is the list of channels and labels as `packet.rs` writes and reads it: an entry
is cut at the first brace and its label at the first quote, no escape is undone, and an entry
without a label lets the next labels move up. In `Link` a device has a setup: the link tokens of
its sessions, which of them call (have an address), whether it receives, its labels. `Start` is
a new process with any of its setups, at any moment, with packets of the old one under way. One
action is the demux and the receive thread on one packet: `Route` is the demux (an address
belongs to its first session for ever), `ReceiveProbe`, `ReceiveAccept`, `ReceiveConfirm` and
`ReceiveMetadata` are the handshake and metadata branches with all they send, `Drop` is a packet
nobody has use for (a dead or missing thread included), `Lose` a loss in the network or a full queue. `Probe` is a round of the handshake threads,
`Stale` the watchdog, `PostLabels` an edit of labels in the web UI. Metadata is sent unasked and never
confirmed; `uninformed` is history and names the ways it is missed. Packets under way are a set
per device: any order, no repetition of what arrived. The races between the threads of one
session are `Session`'s subject; devices keep their addresses, since `Rendezvous` is about those that move.

**Send.** Time is counted in ticks and samples in units, one per tick. `Capture` is the input callback,
which may come up to `MaxDelay` ticks late and pushes the oldest sample out of a full ring; `Frame` takes a frame,
with silence for what is missing, and fans it out to the channels if the first session is
connected; `Wake` is the end of `sleep_until` with the loop that skips missed deadlines. Between any
two of them the thread may be delayed. `silence`, `lost` and `burst` are history. `SocketPeerKnown` is what
`send` on the shared socket needs and no code provides.

**Rendezvous.** Here several devices interact. A session is a pair `<<d, r>>`, the session of device
`d` for remote `r`; the link token matches `<<d, r>>` and `<<r, d>>`. An address is a device, its
location and whether the NAT has mapped the port: what the server registers (`RegAddr`) has the
announced port, what a peer sees (`SrcAddr`) may not. A NAT lets in what comes from a location
the device has sent to, and a device that moves (`Move`) loses the openings; if its own interface
list changed, the interface monitor drops one of its connections in the same step. The server is
`Registered`, `Known`, `Notify`, `Expire` and `Reap`; a request of the register thread and its
answer are separate steps (`Connect`, `Answered`, or `ConnectFails` for either), and so are the
long poll of the events thread (`Subscribe`), its end and the handling of an event. `Probe` and
`Drop` are the handshake thread, `Receive` the handshake packets of the receive thread, with
filter, late connect and replies. One packet per session is under way: a later one takes its
place, which is a loss. The races between the threads of one session are `Session`'s subject: here
each of their steps is one action. The watchdog acts once nothing of the peer can arrive (`Silent`).
`Askers` are devices that ask the server for another one while their own sessions are left out
(`Ask`): to the sessions of the device they ask for, the event is one more address.

**Routing.** The operators of `routing.rs` and the three places of `engine.rs` that decide which ring
belongs to which remote (`HasSession`), how many rings the output callback reads (`RingsRead`) and
what an output mixes (`Heard`). The id of an endpoint is what its text parses to, a mask is the
set of its bits; a list of routes is a set, since masks are unions.

**ConfigStore.** A request starts a handler on one of `Threads`. A post or recall of routes stores
one mask per step (`StoreMask`), replaces the list under its lock (`ReplaceList`) and saves while it
holds the lock; a post of labels changes the labels and saves; an apply loads, renumbers the
routes of remotes that changed their index (`Migrations`, in every order the hash map may have),
and saves. Every save is `Load`, `EmptyFile`, `WriteFile`, as `std::fs::write` truncates and then writes;
two writes that overlap may leave a file that does not parse (`Torn`). `SaveFails` is a file that cannot
be opened, or a write that fails after the file was emptied: it is only logged, and the handler goes on as
after a save. `Exec` is the replacement of
the process 250 ms after an apply, `Restart` an end and a new start at any moment; both go
through `Boot`, which follows `run_bidir_from_args`. `clash` and `mixed` are history. `clash`: two saves got
in each other's way, one failed, or two posts of labels were under way at once, which change the labels in
memory and save in an order of their own. `mixed`: two stores of masks got in each other's way. The code
prevents none of these; the properties say that nothing else goes wrong but what section 5 lists, and
that saves of routes never clash.

## 3. The runs

| run | instance | shows |
|---|---|---|
| `jitter_buffer` | 2 channels, 3 frames, gaps of 1 or 2 frames, 1 restart of the peer, packets up to 2 frames late | types, `NoDoubleDecode`, `GroupsMatchLayout`, `PacketsKept`, the refinement `ImplementsPlayout`, and `QueueDrains` (a queued group is decoded or discarded, however many are before it) |
| `jitter_buffer_wrap` | timestamps modulo 8, a stream that begins at 6 | finding: `NoDoubleDecode` fails across the wrap |
| `session` | 2 addresses, the register thread, all packet kinds, both roles, a clock that is set back | types, `NoCarryOver`, `OnlyPeerHandled`, `BlindOnlyAfterRace`, and `StampedSilenceDetected`, `Reconnects` |
| `playback` | 2 channels, rings of 2 units, all resets, 48 kHz | types, `FlushCoversStale`, `AlignedUntilSlip`, `StaleNeverMixes` |
| `playback_live` | 1 channel, 48 kHz, other sessions that come and go | `AudioReturns` |
| `playback_deaf` | 1 channel, resampling | finding: `AudioReturns` fails |
| `rendezvous` | 2 devices, one an initiator that moves once behind a mapping NAT, 1 expiry, and a third device that asks for the responder | types, `LockedToRemote`, `AimsAtRemoteOrCaller`, and `PeersConnect` |
| `config` | 2 handlers at a time, 4 requests, 4 rings, 1 or 2 remotes, also two swapped with a disabled one, 2 or 3 channels, resampling | types, `MasksMatchList`, `SavedIsShown`, `HeardAsRouted`, `LabelsSurvive`, `ApplyTakesEffect`, `MigrationKeepsNames` |
| `link` | a caller with two remotes, a callee that is one or the other of them or does not receive, 1 restart or edit of labels | types, `OneSessionPerPeer`, `LayoutKnown`, and `LinkComesUp` |
| `link_counts` | the same | finding: `CountsIndependent` fails |
| `send` | frames of 3 ticks, a ring of 2 frames, an input device up to 4 ticks late, 18 ticks | types, `NeverAhead`, `BurstBounded`, `SilenceBounded` |
| `send_unconnected` | the same | finding: `MediaGoesOut` fails |

### Bounds and why they are enough

* `JitterBuffer`: two channels make groups complete, incomplete and timed out; three frames make
  a head, something behind it and a late packet; gaps of two let a watermark lie between two
  queued stamps; `Rollback` 1 and `LowTs` 0 stand for 48 000 and 96 000 samples and keep the
  three cases of the restart test (too little rollback, low timestamp, sequence step) apart; one
  restart gives packets of two incarnations in the network at once. Timestamps never reach
  `TsMod` / 2 except in the wrap run. `Observed` names the groups `QueueDrains` follows.
* `Session`: two addresses are "the peer" and "somewhere else"; the state of time and of the
  epoch is finite without a bound. One rendezvous thread is enough for every way the lock may be
  released by somebody else than the watchdog; the theorems cover both threads.
* `Playback`: rings of two units are empty, half full and full; `Prime` 2 makes a full ring the
  prime level; two dry callbacks re-prime; frames are stamped modulo 2, so a slip by one frame
  shows. Channel counts stay within `NumChannels`: above it the receive thread panics, which
  `link_counts` shows. `playback_live` has one channel, so that all interleavings with other sessions fit.
* `Rendezvous`: one move makes every stored address (registration, answer, event, lock, target,
  source of a packet) old once; one expiry of the device that moves lets the reaper drop a channel with a
  poll on it. The third device asks for the responder at any moment and as often as it likes, so that an
  event may lead the responder's session astray between any two steps, and it has to come back. Asked for by
  it, the initiator would stay astray (section 5).
* `ConfigStore`: four rings are two remotes of two channels, or one of three and one that does not
  fit. Of the three lists of remotes one has a remote alone, one a second remote after it, and one the two
  the other way round with the first of them disabled: applies add, drop, move and swap remotes, and the
  enabled one is left with an index that is not below their number. The routes
  include one from a third channel, which spills when the process has two. Names and indices of a list are
  distinct (`Distinct`), as the page makes
  them (`ui.html` 371) and the map by name needs (`web.rs` 350-353); `MigrationKeepsNames` says so where it is used.
  Two handlers are enough for every overlap, four requests for an
  apply, a post and a recall with the preset it needs, or for two applies with a post between them and one
  more. `InputCount` 1 keeps the input within the bits of a small mask.
* `Link`: the caller's two sessions share the address of the callee, which is what the demux has
  to tell apart; restarts of the callee turn it from one remote into the other, into one that
  does not receive, or into itself, with packets of the old process under way. Labels are plain
  or hold a brace or a quote, with one or two channels on either side, so that layouts differ in
  count, in labels, and in what the reader makes of them. One restart or edit is enough to make
  every stored fact old; the theorems need no bound.
* `Send`: a frame of three ticks has deadlines that are met, missed by less and by more than a frame; a
  device late by more than a frame empties the ring; 18 ticks are six frames, enough for a
  delay, the burst that catches up, and another one. The theorems need no bound.

### Fairness, and why the code justifies it

* The receive loop polls with a timeout of 1 ms and no unbounded wait: weak fairness of its steps.
  Frame groups carry a deadline of at most 40 ms of monotonic clock: weak fairness of "some group
  times out".
* Watchdog, monitor and callback run in loops with a fixed sleep or are called by the sound card:
  weak fairness of each thread's steps.
* `Session` needs a peer that, once it has settled on an address, is heard infinitely often (it
  probes every 2.13 s), hence strong fairness of taking its handshakes; a clock that runs on from
  then; and a responder that stays disconnected gets an answer from the server infinitely often
  (it asks every 10 s), hence strong fairness of `RendezvousAnswers("register")`.
* `Playback` needs a peer that streams: strong fairness of `Media`. `AudioReturns` is about
  behaviours in which the connection holds, resets end and no other session keeps the device
  playing: while one does, the callback drains no flush and the first session hears nothing new.
* `Rendezvous` assumes that the register and handshake threads run (they loop with a fixed sleep),
  and that of requests and probes repeated for ever some get through: strong fairness of
  `Connect`, `Answered` and the receipt of probes. Nothing is assumed of events, so `PeersConnect`
  shows that they are not needed where the initiator is the one that moves. With an initiator
  whose remote moves, only an event can tell it the new address, and whether a poll waits when
  the server sends one depends on their timing (25 s polls, 10 s requests): not claimed.
* `Link` assumes weak fairness of the handshake threads, of the watchdog and of the receipt of what
  the network does not lose. `Settle` ends losses, restarts and edits; before it everything may be
  lost. `LinkComesUp` is about a token of which one side knows where to send, and sessions whose
  thread is there and whose address the demux has not given to another one (`Able`).

## 4. The proofs

All theorems hold for every value of the constants that satisfies the `ASSUME` of the module:
any number of channels, addresses, frames, any modulus, any lag.

* `JitterBufferProofs`. The receive thread changes its queue in one way, "drain some queue gs
  with some watermark and some count", so the lemmas are about such triples: `DrainType` and
  `DrainOrder` say that the drain keeps a queue well-formed and ordered. `LayoutInv` (types, every
  group waits for `0..remote_channels-1`, and `last_remote_meta`, if known, is
  `remote_channels`) is inductive and gives `TypeCorrect` and `LayoutCorrect`; the last conjunct is
  needed because the reset compares with the last metadata, not with the count in use.
  `StreamInv` adds that the timestamps in the network and the queue are below `TsMod / 2`, that
  every queued one is ahead of the watermark and every decoded one at or behind it. It is
  inductive as long as the sender has not used half of the timestamp space (`NotWrapped`, 12.4
  hours), which the theorems `DecodedAtMostOnce`, `PlaysInOrder` (refinement of `Playout`: a drain plays
  only frames later than the watermark, each once, and leaves the watermark at the latest of them) and
  `NothingLost` assume; the run `jitter_buffer_wrap` shows that the first needs it.
* `SessionProofs`. `TypeCorrect`, then three invariants that are inductive with it:
  `OldAudioKeptOut` (`NoCarryOver`), `PeerFiltered` (`OnlyPeerHandled`), and `HandshakeStamped`
  (while a handshake is being connected its stamp is there, unless the watchdog zeroed it),
  from which `BlindByRaceOnly` follows.
* `RendezvousProofs`, for any set of devices, sessions, NATs and moves. `TypeCorrect`; then
  `LockInv`: besides locks, the source of every packet under way is the session's own address,
  since a lock is taken from a packet's source. It gives `LockedCorrect` (`LockedToRemote`).
  `AimInv` follows an address along every way to a target: the registry holds each device's own
  address, and an answer the remote's. An event holds the address of whoever asked for the device, another
  remote's session or a device of `Askers`, so `punch_target` and packets hold the remote's or such a
  caller's (`AskInv` says that no initiator asks), for any number of either: `AimsCorrect`
  (`AimsAtRemoteOrCaller`). Section 5 says what follows from it.
* `PlaybackProofs`, for any number of channels, capacity, prime level and set of channel counts, with and without
  resampling. `TypeInv` adds to the types what the locals of the two threads say at each
  step. `StaleIsCounted` (`FlushCoversStale`) covers resets in the middle of a turn and uneven and full rings, up to the first
  overwritten count; it rests on `FlushInv`: a reset counts by the fullest ring, so once the
  fill is read no stale unit of a ring in use lies deeper than the fill, and once the count is stored
  none lies deeper than the count; a callback that was flushing then has popped some rings and not others,
  and those it popped are one unit ahead. `TurnInv` says what a reset does to a callback in the middle of its
  turn. `FramesAligned` and `StaleKeptApart` need the same invariant, `MixInv`: while no audio has
  slipped, either the rings in use are level (the units at one depth come from one frame and are all stale or
  all fresh, those of a frame being pushed or of a turn being popped accounted for) or all they hold is
  stale and nothing is added before it is gone. The second case is a reset that changed the number of
  channels; that it ends before anything is pushed is `MarkInv` (a reset marks every unit) and, for the version
  that never flushes, `EmptyInv`.
* `ConfigStoreProofs`, for any number of handlers and requests, any lists and any `MaxChannels`.
  `RouteSavesExclude` is mutual exclusion by the list's lock (`LockInv`). `TypeCorrect` follows from the form of the
  handlers' records (`HandlerInv`), of file, copies and requests (`FileInv`) and of the memory (`MemoryInv`).
  `MasksCorrect` strengthens
  `MasksMatchList` with what the handler between masks and list has done so far (`PatchInv`): if
  no two stored masks at once there is at most one such handler, the slots below its own hold the
  masks of its routes, and all others still those of the list. `HeardCorrect` is about any routes and any remotes, and combines it
  with facts about the operators: `FlatBitSpills` (whose channel is a bit: one remote's with a channel below
  the channel count, and otherwise channels beyond it of the remotes before), `BitIsWire` (a bit is set iff
  a route wires it, in either way) and `RingIsRead` (which rings the two callbacks reach).
  `SavedIsShownCorrect`, `LabelsSurviveCorrect` and `ApplyTakesEffectCorrect` have one invariant (`KeepInv`):
  without a clash at most one handler is between its load and its write, and the file is empty when it is
  about to write (`OrderInv`); a handler that saves has in hand what memory holds (`RequestInv`); and whatever
  text is in the file, or about to be written to it, agrees with memory, but for the part that a handler has
  still to save (`KeptInv`). For a restart in the middle of a save, `FoundInv` adds that the file still has the
  labels that the save of another part has loaded, until it empties it.
  `MigrationKeepsNamesCorrect` is about lists of any length. The moves are a finite set taken in some order
  (`OrderOfMoves`); a fold over them is unfolded into its stages (`FoldSteps`); after k moves there is a map of
  indices that says where the routes of each are (`Renumbered`, `OneMoveMore`): an index that nobody leaves
  stays, one that is left ends at the goal of some move, and at its own if no goal is an index that is
  left. With distinct names and indices this is a map of remotes (`MappedRemotes`).
* `LinkProofs`, for any devices, sessions, setups and labels and any losses. `TypeCorrect` with its
  parts (`SetupOK`, `SessionOK`, `OwnOK`, `NetOK`, `RestOK`); `OneSession` (`OneSessionPerPeer`), where
  the point is that the demux never takes an address back (`RouteKeeps`). `LayoutShown` is `LayoutKnown`.
  Its invariant
  is `Fresh`: while a session is in use on either side, or a reply to a probe for it is under way (`InUse`),
  and nothing was missed, an accept that will be answered, the current metadata, or the right
  contents are there (`Covered`). It speaks of both sides because a side that lost its connection
  and gets a bare confirm is not told the channels again, and must have kept them. What the reader makes of
  the text is proved for layouts and labels of any length: the count is right whatever the labels are
  (`CountSurvives`), and labels that need no escape come through unchanged (`PlainSurvives`: the writer leaves them
  alone, `PlainEscaped`, and each entry is cut where the writer closed it, `EntryRead`).
* `SendProofs`, for any frame length, ring, delay and number of channels. `IInv` is inductive: besides types, the
  deadline is never more than a frame ahead (`DeadlineNear`) and the frames sent stand in a fixed
  relation to it (`OnDeadline`), which gives `NeverRunsAhead`; every unit captured is in the device, the
  ring, a frame sent, or lost (`Account`), which gives `SilenceIsBounded`; and how many frames left since
  the last tick is tied to where the deadline is (`BurstStage`), which gives `BurstsBounded`.

The library's induction theorems take an operator as a parameter and cannot be used with these provers. Where a
fold or a recursive function of numbers had to be unfolded, the induction is done on a least
counterexample (`LeastNumber` of `WellOrder`, from the well-foundedness of the naturals): `FoldSteps`, `MigratedWires`,
`FlatSingles`, `PlainSurvives`. The modules declare no RECURSIVE operator, which the provers could not use.

Every invariant and every safety property of a step that a passing run checks is also a theorem. Only
model-checked are the properties of liveness: `QueueDrains`, `StampedSilenceDetected`, `Reconnects`, `AudioReturns`,
`PeersConnect` and `LinkComesUp` (fairness and ENABLED are out of the prover's reach).

## 5. Findings

Shown by a run:

* The BTreeMap of the drain orders timestamps as plain integers: at the wrap frames come out in
  the wrong order, the watermark moves back, a late packet is decoded twice (`jitter_buffer_wrap`).
* With a device that needs resampling nobody drains `flush_samples`, and media is dropped while
  it is not zero: one reset with audio in the rings and the session is deaf (`playback_deaf`).
* The receive thread panics when the peer announces more channels than the session has rings
  (440, 722, 747), while the README promises independent counts (`link_counts`).
* Media is sent with `send` on a socket that no code connects, and the error is discarded (1604,
  `send_unconnected`).

Met while reading; the properties state what holds in spite of them:

* The watchdog may zero the stamp of a handshake that has just connected (240). Such a connection is invisible
  to it; if its address falls silent, a responder stays connected and locked to it and refuses the peer's new
  address for ever. `Reconnects` names this case, `BlindOnlyAfterRace` says that it arises in no other way.
* A reset that stores its flush count while the callback is between its load and its store is overwritten by
  the older, smaller count (1346): stale audio stays in the rings and is played, and new audio is pushed
  behind it. `FlushCoversStale` holds until that has happened once.
* The interface monitor drops a responder's connection but leaves it locked to the old address
  (`interfaces.rs` 70, compare 51); only an answer of the rendezvous server releases it, and without
  a server a peer with a new address is refused for ever. `Reconnects` assumes the answers.
* The prime check counts stale samples (746): after a reset playback may start on the old session's
  audio instead of flushing it, against README 275. `StaleNeverMixes` says no more than that
  it is not mixed with new audio.
* The flush count of any session but the first is drained by nobody (1234-1237, 1338-1346), and the
  first is deaf after a reset while another one keeps the device playing. `AudioReturns` is
  about the first, and excludes the latter.
* The events thread of each session takes every event of the device, whoever sent it (336). With
  several remotes, or when any stranger asks the server for the device, a session's probes go to another
  device: `AimsAtRemoteOrCaller` says no more than that. A session that asks the server itself gets its
  remote's address back with the next answer, and `PeersConnect` holds while a stranger asks all the time. An
  initiator does not ask: its configured address is overridden until another event comes.
* At 48 kHz the output callback reads as many rings as the first remote has channels (1234, 1335,
  compare 1051-1052): a second remote is connected and received but never heard. With resampling it
  reads as many as the enabled remotes have, so one whose index is beyond their number, after a disabled one,
  is silent. And a route from a channel that its remote no longer has, left by an apply with fewer channels,
  is the bit of a channel of the next remote, and plays that (`routing.rs` 77). `HeardAsRouted` says exactly this.
* An apply makes the moves of remotes one after the other (`web.rs` 354-368): when two remotes swap, the routes
  of both end with one of them, in the order the hash map gives; and those of a remote that was removed are
  left to the one that takes its index. `MigrationKeepsNames` says no more than that the
  routes of a remote stay together, unless none moves to an index that another one had.
* The state file is emptied and then written in place (`persistence.rs` 102): a restart in between, or the
  replacement of the process by an apply while another handler saves, finds no settings in the file. `LabelsSurvive`
  has it as its only exception, besides clashes.
* A second apply is accepted in the 250 ms before the first one replaces the process (`web.rs` 276), which then
  has the channel count of the first from its arguments and the remotes of the second from the file.
  `ApplyTakesEffect` excludes it.
* Only the first remote gets media (1421); only connections of the first count (1596).
* With `--no-recv` there is no receive thread (363), so no handshake is handled and nothing is ever
  sent, though README 144 offers it as one-way operation. `Able` in `LinkComesUp` has the condition.
* The demux binds an address for good (69): a peer that comes back as another remote is never
  connected until this side restarts. `LinkComesUp` has the exception.
* A device that restarts within 15 s is answered by confirms alone (535), so neither side learns
  the other's channels; an initiator's edit of labels is not sent (`web.rs` 203-204). Both are
  cases of `uninformed`.
* Labels with braces or quotes are cut, lost or shifted to another channel (`packet.rs` 250-277).
  `LayoutKnown` promises the labels only if they need no escape.
* A post of labels changes them in memory and then saves without a lock (`web.rs` 197-200): of two posts at
  once the one that counts in memory need not be the one whose save comes last, and after a restart
  the labels are the other's. `SavedIsShown` and `LabelsSurvive` exclude it by `clash`.
* What the capture ring has gained while the send thread was delayed stays as a delay.
* The remotes of the command line are ignored if the state file has some (`main.rs` 210-212), though
  the comment at line 74 calls the file a fallback; README names a flag `--web`, the code `--web-port`.
* The integral of the drift control winds up while a connection stays without media (725-744).
  Not modelled; the effect depends on the length of the outage.

## 6. The plan

1. `JitterBuffer`, `Playout`, `JitterBufferProofs`: done.
2. `Session`, `SessionProofs`: done.
3. `Playback`, `PlaybackProofs`: done, for the first session with the others as its environment.
4. `Rendezvous`, `RendezvousProofs`: done. Next the timing of polls against requests, as an abstract
   clock of three ages, to say when an initiator learns that its remote has moved.
5. `Routing`, `ConfigStore`, `ConfigStoreProofs`: done.
6. `Wire`, `Link`, `LinkProofs`: done.
7. `Send`, `SendProofs`: done.
8. The drift control, as an integer model of its integral and the fill of a ring.

## 7. Not modelled

Opus, resampling, drift control, concealment, limiter and mixing arithmetic, meters, device
selection (numeric signal processing and operating-system I/O); logging and statistics; the
status pages and the peer summaries, which only read; the web page; the syntax of arguments;
byte layouts and the hash of link tokens (`Link` takes tokens of different pairs of names to differ);
the mode without phase lock (it keeps no queue). Of the settings: gains and the monitor mode (one
atomic each), the file of an older version. `Heard` takes the
peer to announce as many channels as the device has, and leaves out the passive session of a
device without remotes. `Link` leaves out passive sessions, packets that arrive twice, and addresses
that change.
