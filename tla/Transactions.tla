---------------------------- MODULE Transactions ----------------------------
(***************************************************************************)
(* The user transactions the sequencer is given (sequencer/src/types.rs).  *)
(* A transaction is a model value; Tx holds the fields the sequencer       *)
(* reads.  cost is value + gas_price * gas_limit, bytes the estimated      *)
(* encoded size, signed whether the signature recovers to the sender.  The *)
(* same transaction sent twice is two members of Txs with equal fields.    *)
(***************************************************************************)
EXTENDS Integers

CONSTANTS
  Txs,      \* requests to send a transaction
  Senders,
  Tx        \* the fields of each

Fields == [from : Senders, nonce : Nat, cost : Nat, gas : Nat, price : Nat, boost : Nat,
           time : Nat, bytes : Nat, signed : BOOLEAN]

ASSUME TransactionsAssumption == Tx \in [Txs -> Fields]
=============================================================================
