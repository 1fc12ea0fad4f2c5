---------------------------- MODULE MC_Submitter ----------------------------
(* Values for the constants of Submitter. *)
EXTENDS Submitter

CONSTANTS b1, b2
=============================================================================
