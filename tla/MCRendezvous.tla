---------------------------- MODULE MCRendezvous ----------------------------
(* Instances of Rendezvous for TLC. *)
EXTENDS Rendezvous

CONSTANTS a, b, c        \* devices

\* Two devices, a knows the address of b, and a third that asks for b as well.
Pair == {<<a, b>>, <<b, a>>}
Direct == {<<a, b>>}
Stranger == {<<c, b>>}
=============================================================================
