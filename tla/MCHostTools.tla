---------------------------- MODULE MCHostTools ----------------------------
(* Model values for HostTools' run. *)
EXTENDS HostTools, TLC

CONSTANTS r1, w1, w2

\* No property tells one dialog from another.
Symmetry == Permutations(Splitters)
=============================================================================
