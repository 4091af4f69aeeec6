---------------------------- MODULE MCLogCollect ----------------------------
(* Model values for LogCollect's run. *)
EXTENDS LogCollect, TLC

CONSTANTS p, i, j, log

MCMode == [e \in Entries |-> "filter"]

\* No property tells one collection from another.
Symmetry == Permutations(Ids)
=============================================================================
