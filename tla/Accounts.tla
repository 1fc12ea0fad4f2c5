------------------------------ MODULE Accounts ------------------------------
(***************************************************************************)
(* What the executor's engine promises whoever holds an account, without   *)
(* batches, databases, trees, traces or proofs: the accounts, and the      *)
(* transfer whose receiver has still to be credited.  A debit pays with    *)
(* the sender's next nonce for at most one credit, and nothing else        *)
(* changes an account but the genesis seeding and the wipe of a reset.     *)
(* TxEngine implements it.                                                 *)
(***************************************************************************)
EXTENDS Integers

CONSTANTS
  Addresses,
  Genesis,         \* the addresses that are seeded
  GenesisBalance, MaxBalance,
  Transfers        \* the transfers that may be made: [from, to, amount, nonce]

VARIABLES
  accounts,
  owed             \* the transfer that is debited and not yet credited, if any
vars == <<accounts, owed>>

Empty == [a \in Addresses |-> [balance |-> 0, nonce |-> 0]]

Init == accounts = Empty /\ owed = {}

Seed(a) ==
  /\ owed = {}
  /\ accounts' = [accounts EXCEPT ![a] = [balance |-> GenesisBalance, nonce |-> 0]]
  /\ UNCHANGED owed

Wipe == owed = {} /\ accounts' = Empty /\ UNCHANGED owed

Debit(t) ==
  /\ owed = {}
  /\ accounts[t.from].nonce = t.nonce /\ accounts[t.from].balance >= t.amount
  /\ accounts' = [accounts EXCEPT ![t.from] =
                    [balance |-> @.balance - t.amount, nonce |-> @.nonce + 1]]
  /\ owed' = {t}

Capped(n) == IF n > MaxBalance THEN MaxBalance ELSE n

Credit(t) ==
  /\ t \in owed /\ t.from # t.to
  /\ accounts' = [accounts EXCEPT ![t.to].balance = Capped(@ + t.amount)]
  /\ owed' = {}

\* A transfer to oneself is credited to the account as it was before the debit.
CreditSelf(t) ==
  /\ t \in owed /\ t.from = t.to
  /\ accounts' = [accounts EXCEPT ![t.to] =
                    [balance |-> Capped(@.balance + t.amount + t.amount), nonce |-> @.nonce - 1]]
  /\ owed' = {}

\* The credit is never made.
Lose == owed # {} /\ owed' = {} /\ UNCHANGED accounts

Next ==
  \/ \E a \in Genesis : Seed(a)
  \/ Wipe \/ Lose
  \/ \E t \in Transfers : Debit(t) \/ Credit(t) \/ CreditSelf(t)

Spec == Init /\ [][Next]_vars
=============================================================================
