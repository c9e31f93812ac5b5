----------------------------- MODULE MCStorage -----------------------------
(* Storage for TLC: the configurations give all constants literal values.   *)
EXTENDS Storage
=============================================================================
