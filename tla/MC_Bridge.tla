----------------------------- MODULE MC_Bridge -----------------------------
(* Small instances of Bridge for TLC. *)
EXTENDS Bridge

CONSTANTS r1, r2, d1

MC_Withdrawals == {[id |-> 1, amount |-> 1], [id |-> 1, amount |-> 2], [id |-> 2, amount |-> 1]}
MC_NoWithdrawals == {}

\* r1 holds withdrawal 1, r2 holds both ids, id 1 with another amount.
MC_Leaves ==
  [r \in Roots |->
     CASE r = r1 -> {[id |-> 1, amount |-> 1]}
       [] r = r2 -> {[id |-> 1, amount |-> 2], [id |-> 2, amount |-> 1]}
       [] OTHER  -> {}]
MC_NoLeaves == [r \in Roots |-> {}]

\* genesis -> r1 -> r2 and back to r1.
MC_Transitions ==
  {<<GenesisRoot, Keccak(d1), r1>>, <<r1, Keccak(d1), r2>>, <<r2, Keccak(d1), r1>>}
=============================================================================
