----------------------------- MODULE MC_Executor -----------------------------
(* Values for the constants of Executor. *)
EXTENDS Executor

CONSTANTS b1, b2, alice, bob

\* b1 and b2 are consecutive transactions of a genesis account.
MC_Sender == [b \in BatchIds |-> alice]
MC_Nonce == [b \in BatchIds |-> IF b = b1 THEN 0 ELSE 1]

\* b2 comes from an account that is not seeded again at start.
MC_OtherSender == [b \in BatchIds |-> IF b = b1 THEN alice ELSE bob]
MC_OtherNonce == [b \in BatchIds |-> 0]
=============================================================================
