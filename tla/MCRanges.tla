------------------------------ MODULE MCRanges ------------------------------
(* Ranges for TLC: the configuration gives all constants literal values.     *)
EXTENDS Ranges
=============================================================================
