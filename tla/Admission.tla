------------------------------ MODULE Admission ------------------------------
(***************************************************************************)
(* Admission of user transactions: the API handlers (api/server.rs), the   *)
(* validator (validation/validator.rs), the state cache (state/cache.rs)   *)
(* and the transaction pool they feed (pool/tx_pool.rs).                   *)
(*                                                                         *)
(* Every request has a handler of its own.  A handler takes the cache's    *)
(* lock anew for the nonce check, the balance check, the deduction and the *)
(* increment, so handlers interleave between them: at[t] is the next step  *)
(* of t's handler.  The JSON-RPC and the REST handler take the same steps. *)
(* An account that is not cached has balance 0 and nonce 0 to every reader *)
(* and to both writers.                                                    *)
(***************************************************************************)
EXTENDS Transactions, Sequences, Functions

CONSTANT SeedBalance  \* of each sender when the process starts

ASSUME AdmissionAssumption == SeedBalance \in [Senders -> Nat]

VARIABLES
  at,         \* the step each request's handler is at
  balance, nonce,   \* the state cache
  pool,       \* the transaction pool
  overlapped  \* history: senders with two handlers between check and update at once

admissionVars == <<at, balance, nonce, pool, overlapped>>

\* A handler at one of these has read the nonce and not yet incremented it.
Updating == {"check_balance", "deduct", "increment"}
\* "failed": rejected, panicked, cut off by the client or a crash, or never sent.
Ended == {"accepted", "failed"}

AdmissionTypeOK ==
  /\ at \in [Txs -> {"check_nonce", "add"} \cup Updating \cup Ended]
  /\ balance \in [Senders -> Nat] /\ nonce \in [Senders -> Nat]
  /\ pool \in Seq(Txs)
  /\ overlapped \in SUBSET Senders

AdmissionInit(requests) ==
  /\ at = [t \in Txs |-> IF t \in requests THEN "check_nonce" ELSE "failed"]
  /\ balance = SeedBalance /\ nonce = [s \in Senders |-> 0]
  /\ pool = << >>
  /\ overlapped = {}

\* As if a nonce ahead of the account's were let in.
NonceAhead(t) == Tx[t].nonce >= nonce[Tx[t].from]

NonceMatches(t) == Tx[t].nonce = nonce[Tx[t].from]

\* verify_signature reads nothing shared, so it is one step with check_nonce.
CheckNonce(t) ==
  /\ at[t] = "check_nonce"
  /\ at' = [at EXCEPT ![t] =
              IF Tx[t].signed /\ NonceMatches(t) THEN "check_balance" ELSE "failed"]
  /\ overlapped' = overlapped \cup
       {s \in {Tx[t].from} : \E u \in Txs : Tx[u].from = s /\ at[u] \in Updating}
  /\ UNCHANGED <<balance, nonce, pool>>

\* A cost that overflows U256 panics, which ends the handler as a rejection does.
CheckBalance(t) ==
  /\ at[t] = "check_balance"
  /\ at' = [at EXCEPT ![t] = IF balance[Tx[t].from] < Tx[t].cost THEN "failed" ELSE "deduct"]
  /\ UNCHANGED <<balance, nonce, pool, overlapped>>

\* As if only the value, not the gas, were taken.
DeductNothing(t) ==
  /\ at[t] = "deduct"
  /\ at' = [at EXCEPT ![t] = "increment"]
  /\ UNCHANGED <<balance, nonce, pool, overlapped>>

\* saturating_sub: a concurrent handler may have taken the funds since the check.
DeductBalance(t) ==
  /\ at[t] = "deduct"
  /\ balance' = [balance EXCEPT ![Tx[t].from] = IF @ < Tx[t].cost THEN 0 ELSE @ - Tx[t].cost]
  /\ at' = [at EXCEPT ![t] = "increment"]
  /\ UNCHANGED <<nonce, pool, overlapped>>

IncrementNonce(t) ==
  /\ at[t] = "increment"
  /\ nonce' = [nonce EXCEPT ![Tx[t].from] = @ + 1]
  /\ at' = [at EXCEPT ![t] = "add"]
  /\ UNCHANGED <<balance, pool, overlapped>>

\* The pool takes the transaction and the client is told Accepted.
AddToPool(t) ==
  /\ at[t] = "add"
  /\ pool' = Append(pool, t)
  /\ at' = [at EXCEPT ![t] = "accepted"]
  /\ UNCHANGED <<balance, nonce, overlapped>>

\* The client disconnects: the server drops the handler at the lock it waits for.
Disconnect(t) ==
  /\ at[t] \in Updating \cup {"add"}
  /\ at' = [at EXCEPT ![t] = "failed"]
  /\ UNCHANGED <<balance, nonce, pool, overlapped>>

Handle(t) ==
  \/ CheckNonce(t) \/ CheckBalance(t)
  \/ DeductBalance(t) \/ IncrementNonce(t) \/ AddToPool(t) \/ Disconnect(t)

\* The process ends: its memory goes, and so do the requests it was serving.
AdmissionCrash ==
  /\ at' = [t \in Txs |-> IF at[t] = "check_nonce" THEN at[t] ELSE "failed"]
  /\ balance' = SeedBalance /\ nonce' = [s \in Senders |-> 0]
  /\ pool' = << >>
  /\ overlapped' = {}

-----------------------------------------------------------------------------
(* Properties. *)

\* Requests whose cost has been taken.
Charged(s) == {t \in Txs : Tx[t].from = s /\ at[t] \in {"increment", "add", "accepted"}}

TotalCost(S) == SumFunctionOnSet([t \in Txs |-> Tx[t].cost], S)

\* The validator and the pessimistic deduction (api/server.rs:281, state/cache.rs:171):
\* as long as no two handlers of a sender overlapped, what the sequencer admitted from
\* them is covered by the balance they started with, and no nonce was used twice.
SerialAdmissionIsCovered ==
  \A s \in Senders \ overlapped :
    /\ TotalCost(Charged(s)) + balance[s] <= SeedBalance[s]
    /\ \A t, u \in Charged(s) : Tx[t].nonce = Tx[u].nonce => t = u

\* api/server.rs:224 to 227: "This ensures that concurrent requests from the same sender
\* will see the updated balance/nonce and fail validation if they would cause a
\* double-spend."
NoDoubleSpend == \A s \in Senders : TotalCost(Charged(s)) <= SeedBalance[s]
=============================================================================
