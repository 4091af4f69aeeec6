----------------------------- MODULE MCManage -----------------------------
(* Model values for Manage's run. *)
EXTENDS Manage, TLC

CONSTANTS d, e, x, y, o1, o2

MCEdits == {{<<"point", d>>}, {<<"device", d>>, <<"device", e>>}}

\* No property tells one operation from another.
Symmetry == Permutations(Ops)
=============================================================================
