---------------------------- MODULE MC_Pipeline ----------------------------
(* Values for the constants of Pipeline. *)
EXTENDS Pipeline

MCBatchIds == 1 .. LastBatch
=============================================================================
