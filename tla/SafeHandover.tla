---------------------------- MODULE SafeHandover ----------------------------
(***************************************************************************)
(* What a log collection promises about the archive it makes on a host     *)
(* (app_logcollect.go:11-15): an archive that is whole on the host leaves  *)
(* it only when one that reads through is on the PC, or because the        *)
(* operator asked for it by a cancel or a deletion.                        *)
(***************************************************************************)
CONSTANT Ids    \* collections

VARIABLES
  place,  \* where each collection's archive is, as a readable whole
  asked   \* collections the operator cancelled or deleted

Init == place = [c \in Ids |-> "nowhere"] /\ asked = {}

Moves(c, from, to) ==
  /\ place[c] = from
  /\ place' = [place EXCEPT ![c] = to]
  /\ asked \subseteq asked'

Archive(c) == Moves(c, "nowhere", "host")
Receive(c) == Moves(c, "host", "both")
Release(c) == Moves(c, "both", "pc")
GiveUp(c)  == c \in asked' /\ Moves(c, "host", "nowhere")

\* A transfer that was under way when the host's copy was deleted may still arrive.
Late(c) == c \in asked' /\ Moves(c, "nowhere", "pc")

Ask(c) == asked' = asked \cup {c} /\ UNCHANGED place

Next == \E c \in Ids : Archive(c) \/ Receive(c) \/ Release(c) \/ GiveUp(c) \/ Late(c) \/ Ask(c)

Spec == Init /\ [][Next]_<<place, asked>>
=============================================================================
