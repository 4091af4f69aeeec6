---------------------------- MODULE MCCapture ----------------------------
(* Model values for Capture's runs. *)
EXTENDS Capture

CONSTANTS c1, c2, a, b
=============================================================================
