---------------------------- MODULE MC_Sequencer ----------------------------
(* Values for the constants of Sequencer. *)
EXTENDS Sequencer

CONSTANTS t1, t2, t3, alice

\* t1 and t2 are consecutive transactions of one sender, the second with the higher fee
\* and the larger encoding.  t3 repeats the first nonce and needs more gas than a batch has.
MC_Tx ==
  t1 :> [from |-> alice, nonce |-> 0, cost |-> 2, gas |-> 1, price |-> 1, boost |-> 0,
         time |-> 2, bytes |-> 1, signed |-> TRUE] @@
  t2 :> [from |-> alice, nonce |-> 1, cost |-> 1, gas |-> 2, price |-> 2, boost |-> 1,
         time |-> 1, bytes |-> 2, signed |-> TRUE] @@
  t3 :> [from |-> alice, nonce |-> 0, cost |-> 2, gas |-> 4, price |-> 1, boost |-> 0,
         time |-> 2, bytes |-> 1, signed |-> TRUE]

MC_Scenarios ==
  {[policy |-> p, requests |-> {t1, t2}, crashes |-> IF p = "FeePriority" THEN 1 ELSE 0] :
     p \in Policies}
    \cup {[policy |-> "FCFS", requests |-> {t1, t3}, crashes |-> 0]}

MC_OneRequest == {[policy |-> "FCFS", requests |-> {t1}, crashes |-> 0]}

MC_SameNonce == {[policy |-> "FCFS", requests |-> {t1, t3}, crashes |-> 0]}

MC_SeedBalance == [s \in Senders |-> 3]

MC_Config ==
  [max_batch_size |-> 2, max_gas_limit |-> 3, blob_target_bytes |-> 3,
   adaptive |-> TRUE, low_load |-> 1, medium_load |-> 1,
   small_batch |-> 1, medium_batch |-> 2, large_batch |-> 3,
   blob_mode |-> FALSE, fill_bytes |-> 3]
=============================================================================
