------------------------------- MODULE MCSeed -------------------------------
(* A small instance of Seed for TLC. *)
EXTENDS Seed, TLC

CONSTANTS a, b, x, y

\* Two positions of a unit each, and each of a file.
OwnPos == [u \in Unit |-> u]
OwnUnit == (a :> 1) @@ (b :> 2)
Symmetry == Permutations({x, y})
=============================================================================
