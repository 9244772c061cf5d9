------------------------------ MODULE Routing ------------------------------
(***************************************************************************)
(* routing.rs as operators, and the rings engine.rs gives to the remotes:  *)
(* which routes are valid, what they compile to and which channels of      *)
(* which remote an output plays.                                           *)
(*                                                                         *)
(* The id of an endpoint is what its text parses to.  A list of routes is  *)
(* a set: masks are the union of the bits of the routes.  A mask is the    *)
(* set of its bits.                                                        *)
(***************************************************************************)
EXTENDS Integers, Sequences, FiniteSets

CONSTANTS
  MaxChannels,  \* MAX_CHANNELS, the number of rings and the width of a mask
  InputCount,   \* local_input_channels
  Resampled     \* the output device does not run at 48 kHz

ASSUME RoutingAssumption ==
  /\ MaxChannels \in Nat /\ MaxChannels >= 2
  /\ InputCount \in 0..MaxChannels
  /\ Resampled \in BOOLEAN

Channel  == 0..(MaxChannels - 1)
Outputs  == {0, 1}
Endpoint == [kind : {"ebu", "input", "peer", "stream", "output"}, remote : Nat, ch : Channel]
Route    == [source : Endpoint, destination : Endpoint]

Ebu(side)      == [kind |-> "ebu",    remote |-> 0, ch |-> side]
Input(ch)      == [kind |-> "input",  remote |-> 0, ch |-> ch]
Output(o)      == [kind |-> "output", remote |-> 0, ch |-> o]
PeerCh(r, ch)  == [kind |-> "peer",   remote |-> r, ch |-> ch]
Stream(r, ch)  == [kind |-> "stream", remote |-> r, ch |-> ch]
Wire(src, dst) == [source |-> src, destination |-> dst]

\* An id that does not parse is not valid.  The remote of a stream is parsed
\* and not used.
route_valid_for_runtime(route, send_channels) ==
  LET src == route.source
      dst == route.destination
  IN  /\ route \in Route
      /\ \/ /\ dst.kind = "stream" /\ dst.ch < send_channels
            /\ src.kind = "ebu" \/ (src.kind = "input" /\ src.ch < InputCount)
         \/ /\ dst.kind = "output" /\ dst.ch \in Outputs
            /\ src.kind = "peer"

ValidRoutes(routes, send_channels) ==
  {route \in routes : route_valid_for_runtime(route, send_channels)}

-----------------------------------------------------------------------------
(* Masks: slots 0 and 1 are the outputs, slot 2 + ch is transmit channel   *)
(* ch.  None of the functions that fill them looks at the validity of a    *)
(* route.                                                                  *)

MaskSlots == 0..(MaxChannels + 1)

\* Mutant: every remote starts one bit after the one before.
FlatBitDense(remote, ch, channels_per_remote) == remote + ch

\* The bit of a peer's channel.
FlatBit(remote, ch, channels_per_remote) == remote * channels_per_remote + ch

\* Mutant: without the test for the width of a mask.
OutputMaskUnbounded(routes, o, channels_per_remote) ==
  {FlatBit(route.source.remote, route.source.ch, channels_per_remote) :
     route \in {w \in routes : w.source.kind = "peer" /\ w.destination = Output(o)}}

OutputMask(routes, o, channels_per_remote) ==
  {bit \in Channel :
     \E route \in routes :
       /\ route.source.kind = "peer" /\ route.destination = Output(o)
       /\ bit = FlatBit(route.source.remote, route.source.ch, channels_per_remote)}

\* Two bits for the tones; the last two inputs have none.
tx_source_bit(src) == IF src.kind = "ebu" THEN src.ch ELSE 2 + src.ch

TxMask(routes, ch) ==
  {bit \in Channel :
     \E route \in routes :
       /\ route.source.kind \in {"ebu", "input"}
       /\ route.destination.kind = "stream" /\ route.destination.ch = ch
       /\ bit = tx_source_bit(route.source)}

Mask(routes, slot, channels_per_remote) ==
  IF slot \in Outputs THEN OutputMask(routes, slot, channels_per_remote)
                      ELSE TxMask(routes, slot - 2)

-----------------------------------------------------------------------------
(* Remotes and their rings                                                 *)

\* The enabled ones; names in a list differ.
active_remotes(remotes) == {r \in {remotes[i] : i \in DOMAIN remotes} : r.enabled}

\* Those that get a session: their rings lie within the pool.
HasSession(remotes, channels) ==
  {r \in active_remotes(remotes) : r.index * channels + channels <= MaxChannels}

total_rx_slots(remotes, channels) ==
  LET n == Cardinality(active_remotes(remotes)) IN (IF n = 0 THEN 1 ELSE n) * channels

\* The rings the output callback reads are the first so many.  At 48 kHz it
\* takes remote_channels of the first session, which is the number of local
\* channels unless that peer's metadata says otherwise.
RingsRead(remotes, channels) ==
  IF ~Resampled THEN channels
  ELSE IF total_rx_slots(remotes, channels) < MaxChannels
       THEN total_rx_slots(remotes, channels) ELSE MaxChannels

\* The channels <<name, ch>> an output with this mask plays.
Heard(remotes, channels, mask) ==
  {h \in {r.name : r \in HasSession(remotes, channels)} \X (0..(channels - 1)) :
     \E r \in HasSession(remotes, channels) :
       LET ring == r.index * channels + h[2]
       IN  r.name = h[1] /\ ring < RingsRead(remotes, channels) /\ ring \in mask}
=============================================================================
