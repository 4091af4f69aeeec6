---------------------------- MODULE MCRegister ----------------------------
(* Model values and symmetry for Register's runs. *)
EXTENDS Register, TLC

CONSTANTS r1, r2, k1, k2, m1

KeySymmetry == Permutations({k1, k2})
Symmetry == Permutations({r1, r2})
=============================================================================
