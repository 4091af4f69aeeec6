----------------------------- MODULE HostTools -----------------------------
(***************************************************************************)
(* Scheduled recordings and the network overlay of one host.  They are     *)
(* driven through one session and share no state, so that every property   *)
(* of one of them holds of both together exactly when it holds of it at    *)
(* work alone: tool says which of them moves, and the product of their     *)
(* states is spared.                                                       *)
(***************************************************************************)
EXTENDS Recording, Nethogs

VARIABLE tool

vars == <<recVars, nhVars, tool>>

Init == RecInit /\ NhInit /\ tool \in {"recording", "nethogs"}

Records ==
  /\ tool = "recording"
  /\ RecNext
  /\ UNCHANGED <<nhVars, tool>>

Overlays ==
  /\ tool = "nethogs"
  /\ NhNext
  /\ UNCHANGED <<recVars, tool>>

Next == Records \/ Overlays

Spec == Init /\ [][Next]_vars
=============================================================================
