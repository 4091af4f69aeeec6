----------------------------- MODULE MCRotation -----------------------------
(* Model values and symmetry for Rotation's runs. *)
EXTENDS Rotation, TLC

CONSTANTS c1, c2, p1, p2

PasswordSymmetry == Permutations({p1, p2})
CallSymmetry == Permutations({c1, c2})
=============================================================================
