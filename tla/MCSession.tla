----------------------------- MODULE MCSession -----------------------------
(* Model values for Session's runs. *)
EXTENDS Session, TLC

CONSTANTS s1, s2, d1, i1
=============================================================================
