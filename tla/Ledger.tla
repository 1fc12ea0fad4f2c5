------------------------------- MODULE Ledger -------------------------------
(***************************************************************************)
(* What the L1 bridge promises whoever deposits into it and withdraws from *)
(* it, without modes, timers, providers, forced transactions or accounts:  *)
(* a growing list of recorded roots, the root that withdrawals are served  *)
(* from, the ids already paid and the ether held.  Bridge implements it.   *)
(***************************************************************************)
EXTENDS Integers, Sequences

CONSTANTS
  Roots, GenesisRoot,
  Transitions,   \* <<old root, commitment, new root>> that can be proved
  Unchecked,     \* some verifier accepts every proof
  Withdrawals,   \* records [id, amount]
  Leaves         \* Leaves[r]: the withdrawals root r commits to

VARIABLES root, recorded, spent, reserve
vars == <<root, recorded, spent, reserve>>

Init == root = GenesisRoot /\ recorded = << >> /\ spent = {} /\ reserve = 0

\* A batch is recorded for later.
Record(r) ==
  /\ recorded' = Append(recorded, r)
  /\ UNCHANGED <<root, spent, reserve>>

\* A batch is recorded and becomes the root at once: it is proved from the root it replaces.
Settle(r) ==
  /\ Unchecked \/ \E t \in Transitions : t[1] = root /\ t[3] = r
  /\ recorded' = Append(recorded, r) /\ root' = r
  /\ UNCHANGED <<spent, reserve>>

\* A batch recorded earlier becomes the root.
Adopt(i) ==
  /\ root' = recorded[i]
  /\ UNCHANGED <<recorded, spent, reserve>>

Receive ==
  /\ reserve' > reserve
  /\ UNCHANGED <<root, recorded, spent>>

\* A withdrawal is paid from the root, once per id, out of what is held.
Pay(w) ==
  /\ w \in Leaves[root] /\ w.id \notin spent /\ w.amount <= reserve
  /\ spent' = spent \cup {w.id} /\ reserve' = reserve - w.amount
  /\ UNCHANGED <<root, recorded>>

Next ==
  \/ \E r \in Roots : Record(r) \/ Settle(r)
  \/ \E i \in DOMAIN recorded : Adopt(i)
  \/ Receive
  \/ \E w \in Withdrawals : Pay(w)

Spec == Init /\ [][Next]_vars
=============================================================================
