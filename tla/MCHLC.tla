------------------------------- MODULE MCHLC -------------------------------
(* Hybrid logical clocks of two nodes for TLC. *)
EXTENDS HLC
=============================================================================
