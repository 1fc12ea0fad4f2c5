---------------------------- MODULE MC_Listener -----------------------------
(* The listener on an L1 of two blocks: see the configuration for the bounds. *)
EXTENDS Listener
=============================================================================
