--------------------------- MODULE MCConfigStore ---------------------------
(* Instances of ConfigStore for TLC. *)
EXTENDS ConfigStore

CONSTANTS b, c           \* names of remotes

\* What the UI makes of a list of names: an index is a place in the list.  Those
\* that are not on are disabled.
Listed(names, on) ==
  [i \in DOMAIN names |-> [name |-> names[i], index |-> i - 1, enabled |-> names[i] \in on]]

\* A remote alone, two, and the two the other way round, of which one is disabled.
SomeRemotes == {Listed(<<c>>, {c}), Listed(<<c, b>>, {b, c}), Listed(<<b, c>>, {c})}

\* Of the second remote alone; of both across, with a channel that the first one
\* may not have, and one to transmit.
SomeRoutes ==
  {{Wire(PeerCh(1, 1), Output(0))},
   {Wire(PeerCh(0, 0), Output(0)), Wire(PeerCh(0, 2), Output(1)), Wire(PeerCh(1, 1), Output(1)),
    Wire(Input(0), Stream(0, 1))}}

\* More than two channels have.
SomeLabels == {<<"ch", "mic", "mic">>}
Texts      == {"mic", "ch"}

\* Handlers differ in nothing.
Handlers == Permutations(Threads)
=============================================================================
