------------------------------ MODULE TxEngine ------------------------------
(***************************************************************************)
(* The executor's transaction engine (executor/src/tx_engine.rs) over its  *)
(* RocksDB state (executor/src/state.rs), and the replay of its trace by   *)
(* the prover's guest (risc0_prover/rollup_core, risc0_prover/guest).      *)
(*                                                                         *)
(* set_account makes up to four durable writes in two databases, with no   *)
(* transaction around them: pc names the next one, and an error or a crash *)
(* can fall before each.  Whoever holds the engine's lock (start-up,       *)
(* execute_batch or reset_state) is what pc describes; the proof of the    *)
(* last trace is made without the lock.                                    *)
(*                                                                         *)
(* A hash is the value it hashes.  A root is the tree it commits to and    *)
(* the diffs folded into it: `final_root' is such a fold, while            *)
(* `initial_root' is the root of the tree itself.  Balances are bounded    *)
(* like u64; a nonce counts up from 0 and does not reach the end of u64.   *)
(***************************************************************************)
EXTENDS Integers, FiniteSets, Sequences, Functions

CONSTANTS
  Addresses,
  GenesisAccounts,  \* EXECUTOR_GENESIS_ACCOUNTS, in order
  GenesisBalance,   \* EXECUTOR_GENESIS_BALANCE
  MaxBalance,       \* u64::MAX
  Txs,              \* transactions: [from, to, amount, nonce, signed]
  AllowUnsigned,    \* ALLOW_UNSIGNED_USER_TXS
  Caps,             \* values of max_included
  MaxBatch,         \* bound: transactions of a batch
  MaxTraces,        \* bound: traces
  MaxStops          \* bound: crashes and errors

ASSUME EngineAssumption ==
  /\ IsFiniteSet(Addresses) /\ GenesisAccounts \in Seq(Addresses)
  /\ MaxBalance \in Nat /\ GenesisBalance \in 0 .. MaxBalance
  /\ AllowUnsigned \in BOOLEAN /\ Caps \subseteq Nat
  /\ \A t \in Txs : /\ {t.from, t.to} \subseteq Addresses
                    /\ t.amount \in 0 .. MaxBalance /\ t.nonce \in Nat /\ t.signed \in BOOLEAN
  /\ {MaxBatch, MaxTraces, MaxStops} \subseteq Nat

VARIABLES
  \* durable: the account database and the tree
  account,    \* acct:<address>
  leafIndex,  \* leafidx:<address>; 0: no key
  nextLeaf,   \* meta:next_leaf_index
  tree,       \* the Jellyfish Merkle tree's leaves: [index, account]; index 0: no leaf
  \* the holder of the engine's lock
  pc,
  todo,       \* genesis accounts still to seed
  batch,      \* the batch's remaining transactions, and max_included
  job,        \* its trace so far
  write,      \* the set_account under way
  \* the worker, which proves outside the lock
  worker,
  proving,    \* the trace being proved, if any
  \* history
  traces,     \* every trace, with what the guest said of it
  applied,    \* transfers written since the accounts were seeded
  supply,     \* the sum of balances when they were
  torn,       \* accounts whose last write reached the tree and not the account database
  split,      \* a leaf index was written and the next one was not
  stops

dbVars == <<account, leafIndex, nextLeaf, tree>>
histVars == <<traces, applied, supply, torn, split, stops>>
vars == <<dbVars, pc, todo, batch, job, write, worker, proving, histVars>>

Account == [balance : 0 .. MaxBalance, nonce : Nat]
Default == [balance |-> 0, nonce |-> 0]
NoLeaf == [index |-> 0, account |-> Default]
NoTrace == [initial |-> << >>, final |-> << >>, diffs |-> << >>, executed |-> << >>, torn |-> {}]
NoBatch == [txs |-> << >>, cap |-> 0]
NoWrite == [part |-> "none", address |-> "none", account |-> Default, old |-> Default,
            credit |-> Default]
Writing == {"leaf", "next", "tree", "blob"}

TypeOK ==
  /\ account \in [Addresses -> Account]
  /\ leafIndex \in [Addresses -> Nat] /\ nextLeaf \in Nat \ {0}
  /\ tree \in [Addresses -> [index : Nat, account : Account]]
  /\ pc \in {"down", "seed", "idle", "loop", "closed"} \cup Writing
  /\ pc \in Writing => write.address \in Addresses /\ write.account \in Account
  /\ todo \in Seq(Addresses) /\ batch.txs \in Seq(Txs)
  /\ worker \in {"off", "up", "dead"} /\ (pc = "down" => worker = "off")
  /\ stops \in 0 .. MaxStops /\ Len(traces) <= MaxTraces

\* Mutant: a reset keeps the tree.
NewAccountsOnly ==
  /\ account' = [a \in Addresses |-> Default]
  /\ leafIndex' = [a \in Addresses |-> 0] /\ nextLeaf' = 1 /\ UNCHANGED tree

\* The databases are new.
NewDatabases ==
  /\ account' = [a \in Addresses |-> Default]
  /\ leafIndex' = [a \in Addresses |-> 0] /\ nextLeaf' = 1 /\ tree' = [a \in Addresses |-> NoLeaf]

Init ==
  /\ account = [a \in Addresses |-> Default]
  /\ leafIndex = [a \in Addresses |-> 0] /\ nextLeaf = 1 /\ tree = [a \in Addresses |-> NoLeaf]
  /\ pc = "down" /\ todo = << >> /\ batch = NoBatch /\ job = NoTrace /\ write = NoWrite
  /\ worker = "off" /\ proving = << >>
  /\ traces = << >> /\ applied = << >> /\ supply = 0 /\ torn = {} /\ split = FALSE /\ stops = 0

Balances(acc) == [a \in Addresses |-> acc[a].balance]
Total(acc) == SumFunctionOnSet(Balances(acc), Addresses)

\* The root of the tree, and a root with one more diff folded into it.
CurrentRoot == [tree |-> tree, fold |-> << >>]
Folded(d) == <<d.account, d.old, d.new>>
FoldDiff(root, d) == [root EXCEPT !.fold = Append(@, Folded(d))]

-----------------------------------------------------------------------------
\* The prover's guest: replay the diffs from the initial root, and compare.

\* The guest's root once the first n diffs are folded into it.
GuestRoot(t, n) == [t.initial EXCEPT !.fold = @ \o [i \in 1 .. n |-> Folded(t.diffs[i])]]

\* apply_diff takes the i-th diff.
ApplyDiff(t, i) ==
  LET d == t.diffs[i]
  IN  /\ d.new.nonce >= d.old.nonce
      /\ ~ (d.new.nonce > d.old.nonce /\ d.new.balance > d.old.balance)
      /\ d.witness = GuestRoot(t, i - 1)

GuestAccepts(t) ==
  /\ \A i \in DOMAIN t.diffs : ApplyDiff(t, i)
  /\ GuestRoot(t, Len(t.diffs)) = t.final

-----------------------------------------------------------------------------
\* set_account, one durable write at a time.

SetAccount(part, a, new, credit) ==
  /\ write' = [part |-> part, address |-> a, account |-> new, old |-> account[a],
               credit |-> credit]
  /\ pc' = IF leafIndex[a] = 0 THEN "leaf" ELSE "tree"

PutLeafIndex ==
  /\ pc = "leaf" /\ pc' = "next"
  /\ leafIndex' = [leafIndex EXCEPT ![write.address] = nextLeaf]
  /\ UNCHANGED <<account, nextLeaf, tree, todo, batch, job, write, worker, proving, histVars>>

\* Mutant: the counter is stored as it was.
StoreSameLeafIndex ==
  /\ pc = "next" /\ pc' = "tree"
  /\ nextLeaf' = leafIndex[write.address]
  /\ UNCHANGED <<account, leafIndex, tree, todo, batch, job, write, worker, proving, histVars>>

StoreNextLeafIndex ==
  /\ pc = "next" /\ pc' = "tree"
  /\ nextLeaf' = leafIndex[write.address] + 1
  /\ UNCHANGED <<account, leafIndex, tree, todo, batch, job, write, worker, proving, histVars>>

ExtendTree ==
  /\ pc = "tree" /\ pc' = "blob"
  /\ tree' = [tree EXCEPT ![write.address] = [index |-> leafIndex[write.address],
                                             account |-> write.account]]
  /\ UNCHANGED <<account, leafIndex, nextLeaf, todo, batch, job, write, worker, proving, histVars>>

\* Mutants: every diff is witnessed by the initial root; its old value is the batch's first.
DiffOnInitialRoot == [account |-> write.address, old |-> write.old, new |-> write.account,
                      witness |-> job.initial]
DiffFromInitial == [account |-> write.address, old |-> job.initial.tree[write.address].account,
                    new |-> write.account, witness |-> job.final]

\* The diff of the write that ends, witnessed by the root it is folded into.
Diff == [account |-> write.address, old |-> write.old, new |-> write.account,
         witness |-> job.final]

PersistAccountBlob ==
  /\ pc = "blob"
  /\ account' = [account EXCEPT ![write.address] = write.account]
  /\ torn' = torn \ {write.address}
  /\ UNCHANGED <<leafIndex, nextLeaf, tree>>

\* A genesis account is written.
Seeded ==
  /\ write.part = "seed" /\ PersistAccountBlob
  /\ pc' = "seed" /\ write' = NoWrite
  /\ UNCHANGED <<todo, batch, job, worker, proving, traces, applied, supply, split, stops>>

\* The sender is debited: its diff is folded, and the receiver's write begins.
Debited ==
  /\ write.part = "sender" /\ PersistAccountBlob
  /\ LET tx == Head(batch.txs) IN
       /\ applied' = Append(applied, tx)
       /\ write' = [part |-> "receiver", address |-> tx.to, account |-> write.credit,
                    old |-> account'[tx.to], credit |-> Default]
       /\ pc' = IF leafIndex[tx.to] = 0 THEN "leaf" ELSE "tree"
  /\ job' = [job EXCEPT !.final = FoldDiff(@, Diff), !.diffs = Append(@, Diff)]
  /\ UNCHANGED <<todo, batch, worker, proving, traces, supply, split, stops>>

\* The receiver is credited, and the loop goes on.
Credited ==
  /\ write.part = "receiver" /\ PersistAccountBlob
  /\ job' = [job EXCEPT !.final = FoldDiff(@, Diff), !.diffs = Append(@, Diff),
                        !.executed = Append(@, Head(batch.txs))]
  /\ batch' = [batch EXCEPT !.txs = Tail(@)]
  /\ pc' = "loop" /\ write' = NoWrite
  /\ UNCHANGED <<todo, worker, proving, traces, applied, supply, split, stops>>

-----------------------------------------------------------------------------
\* Start-up, and the seeding it shares with reset_state.

Start ==
  /\ pc = "down" /\ pc' = "seed" /\ todo' = GenesisAccounts
  /\ UNCHANGED <<dbVars, batch, job, write, worker, proving, histVars>>

SeedAccount ==
  /\ pc = "seed" /\ todo # << >>
  /\ SetAccount("seed", Head(todo), [balance |-> GenesisBalance, nonce |-> 0], Default)
  /\ todo' = Tail(todo)
  /\ UNCHANGED <<dbVars, batch, job, worker, proving, histVars>>

\* The lock is released: the accounts are what the next batches start from.
SeedingEnds ==
  /\ pc' = "idle" /\ todo' = << >> /\ write' = NoWrite
  /\ applied' = << >> /\ supply' = Total(account)

SeedDone ==
  /\ pc = "seed" /\ todo = << >> /\ SeedingEnds
  /\ worker' = IF worker = "off" THEN "up" ELSE worker
  /\ UNCHANGED <<dbVars, batch, job, proving, traces, torn, split, stops>>

\* reset_state empties the directories, opens them and seeds them.
ResetToGenesis ==
  /\ pc \in {"idle", "closed"} /\ worker # "off" /\ stops < MaxStops
  /\ NewDatabases /\ pc' = "seed" /\ todo' = GenesisAccounts
  /\ torn' = {} /\ split' = FALSE /\ stops' = stops + 1
  /\ UNCHANGED <<batch, job, write, worker, proving, traces, applied, supply>>

\* It fails having emptied some of them, and leaves the databases closed.
ResetFails(gone) ==
  /\ pc \in {"idle", "closed"} /\ worker # "off" /\ stops < MaxStops
  /\ account' = IF "accounts" \in gone THEN [a \in Addresses |-> Default] ELSE account
  /\ leafIndex' = IF "accounts" \in gone THEN [a \in Addresses |-> 0] ELSE leafIndex
  /\ nextLeaf' = IF "accounts" \in gone THEN 1 ELSE nextLeaf
  /\ tree' = IF "jmt" \in gone THEN [a \in Addresses |-> NoLeaf] ELSE tree
  /\ pc' = "closed" /\ stops' = stops + 1
  /\ torn' = IF gone = {} THEN torn ELSE Addresses
  /\ split' = (split \/ gone = {"accounts"})
  /\ UNCHANGED <<todo, batch, job, write, worker, proving, traces, applied, supply>>

-----------------------------------------------------------------------------
\* execute_batch, and the proof that follows it.

ExecuteBatch(txs, cap) ==
  /\ pc = "idle" /\ worker = "up" /\ proving = << >>
  /\ Len(traces) < MaxTraces
  /\ batch' = [txs |-> txs, cap |-> cap]
  /\ job' = [initial |-> CurrentRoot, final |-> CurrentRoot, diffs |-> << >>,
             executed |-> << >>, torn |-> torn]
  /\ pc' = "loop"
  /\ UNCHANGED <<dbVars, todo, write, worker, proving, histVars>>

\* On closed databases the first read panics, and the worker's task with it.
ExecuteOnClosed ==
  /\ pc = "closed" /\ worker = "up" /\ proving = << >>
  /\ worker' = "dead"
  /\ UNCHANGED <<dbVars, pc, todo, batch, job, write, proving, histVars>>

VerifySignature(tx) == tx.signed \/ AllowUnsigned

\* Mutant: the nonce is not compared.
RejectedWithoutNonce(tx) ==
  \/ ~VerifySignature(tx)
  \/ account[tx.from].balance < tx.amount
  \/ Len(job.executed) >= batch.cap

Rejected(tx) ==
  \/ ~VerifySignature(tx)
  \/ account[tx.from].nonce # tx.nonce
  \/ account[tx.from].balance < tx.amount
  \/ Len(job.executed) >= batch.cap

SkipTx ==
  /\ pc = "loop" /\ batch.txs # << >>
  /\ Rejected(Head(batch.txs))
  /\ batch' = [batch EXCEPT !.txs = Tail(@)]
  /\ UNCHANGED <<dbVars, pc, todo, job, write, worker, proving, histVars>>

\* Mutant: the sum is not bounded.
PlainAdd(x, y) == x + y

SaturatingAdd(x, y) == IF x + y > MaxBalance THEN MaxBalance ELSE x + y

\* Mutant: the sender keeps the amount.
NewSenderUndebited(tx) == [account[tx.from] EXCEPT !.nonce = @ + 1]

NewSender(tx) ==
  [balance |-> account[tx.from].balance - tx.amount, nonce |-> account[tx.from].nonce + 1]

NewReceiver(tx) ==
  [account[tx.to] EXCEPT !.balance = SaturatingAdd(@, tx.amount)]

\* Both accounts were read before either is written.
ApplyTx ==
  /\ pc = "loop" /\ batch.txs # << >>
  /\ LET tx == Head(batch.txs)
     IN  ~Rejected(tx) /\ SetAccount("sender", tx.from, NewSender(tx), NewReceiver(tx))
  /\ UNCHANGED <<dbVars, todo, batch, job, worker, proving, histVars>>

BatchDone ==
  /\ pc = "loop" /\ batch.txs = << >>
  /\ pc' = "idle" /\ proving' = <<job>> /\ job' = NoTrace /\ batch' = NoBatch
  /\ UNCHANGED <<dbVars, todo, write, worker, histVars>>

Prove ==
  /\ proving # << >>
  /\ traces' = Append(traces, [trace |-> proving[1], accepted |-> GuestAccepts(proving[1])])
  /\ proving' = << >>
  /\ UNCHANGED <<dbVars, pc, todo, batch, job, write, worker, applied, supply, torn, split, stops>>

-----------------------------------------------------------------------------
\* A write that does not happen: the database's error, or the end of the process.

Cut ==
  /\ stops < MaxStops /\ stops' = stops + 1
  /\ torn' = IF pc = "blob" THEN torn \cup {write.address} ELSE torn
  /\ split' = (split \/ pc = "next")
  /\ batch' = NoBatch /\ job' = NoTrace
  /\ UNCHANGED <<dbVars, traces>>

\* The error ends the batch or the seeding; at start-up it ends the process.
WriteFails ==
  /\ pc \in Writing /\ Cut
  /\ \/ /\ write.part # "seed"
        /\ pc' = "idle" /\ write' = NoWrite /\ UNCHANGED <<todo, applied, supply>>
     \/ write.part = "seed" /\ worker # "off" /\ SeedingEnds
     \/ /\ write.part = "seed" /\ worker = "off"
        /\ pc' = "down" /\ write' = NoWrite /\ todo' = << >> /\ UNCHANGED <<applied, supply>>
  /\ UNCHANGED <<worker, proving>>

Crash ==
  /\ pc # "down" /\ Cut
  /\ pc' = "down" /\ todo' = << >> /\ write' = NoWrite
  /\ worker' = "off" /\ proving' = << >>
  /\ UNCHANGED <<applied, supply>>

Next ==
  \/ Start \/ SeedAccount \/ SeedDone
  \/ \E n \in 0 .. MaxBatch : \E txs \in [1 .. n -> Txs], cap \in Caps : ExecuteBatch(txs, cap)
  \/ ExecuteOnClosed \/ SkipTx \/ ApplyTx \/ BatchDone \/ Prove
  \/ PutLeafIndex \/ StoreNextLeafIndex \/ ExtendTree \/ Seeded \/ Debited \/ Credited
  \/ ResetToGenesis \/ \E gone \in SUBSET {"accounts", "jmt"} : ResetFails(gone)
  \/ WriteFails \/ Crash

Spec == Init /\ [][Next]_vars

-----------------------------------------------------------------------------
\* Properties

IsSelf(tx) == tx.from = tx.to

\* What a trace's diffs add to the sum of balances.
Change(t) == [i \in DOMAIN t.diffs |-> t.diffs[i].new.balance - t.diffs[i].old.balance]
Net(t) == SumFunctionOnSet(Change(t), DOMAIN t.diffs)

\* An account is v once the first n diffs have been applied to the accounts the trace starts
\* from: the last of them that is about it says so, or none is.
HoldsAfter(t, n, a, v) ==
  \/ v = t.initial.tree[a].account /\ \A i \in 1 .. n : t.diffs[i].account # a
  \/ \E i \in 1 .. n : /\ t.diffs[i].account = a /\ t.diffs[i].new = v
                       /\ \A j \in i + 1 .. n : t.diffs[j].account # a

\* The guest accepts a trace of the engine exactly when it holds no transfer of an account to
\* itself: those are the only ones whose second diff takes the nonce back.
GuestAcceptsAllButSelf ==
  \A i \in DOMAIN traces :
    traces[i].accepted <=> \A t \in Range(traces[i].trace.executed) : ~IsSelf(t)

\* A trace the guest accepts creates no balance, and it loses some only where the receiver's
\* balance saturates.
AcceptedConserves ==
  \A i \in DOMAIN traces :
    LET t == traces[i].trace IN
      traces[i].accepted =>
        Net(t) = 0 \/ (Net(t) < 0 /\ \E d \in Range(t.diffs) : d.new.balance = MaxBalance)

\* The diffs of a batch lead from the accounts its initial root commits to to the accounts of the
\* tree, each from the value the one before it left, unless an earlier write of an account had
\* reached only the tree.
DiffsLeadToTree ==
  /\ \A i \in DOMAIN traces :
       LET t == traces[i].trace IN
         \/ \A n \in DOMAIN t.diffs : HoldsAfter(t, n - 1, t.diffs[n].account, t.diffs[n].old)
         \/ \E n \in DOMAIN t.diffs : t.diffs[n].account \in t.torn
  /\ pc = "loop" =>
       \A a \in Addresses : HoldsAfter(job, Len(job.diffs), a, tree[a].account)

\* Between two writes the tree holds the accounts the database holds, except for an account whose
\* last write was cut short between the two databases; its next write repairs it.
TreeMatchesAccounts ==
  \A a \in Addresses \ torn :
    tree[a].account = account[a] \/ (pc = "blob" /\ write.address = a)

\* No two leaves of the tree have the same index, unless a write was cut short between a leaf's
\* index and the counter, or a reset between the two databases.
LeafIndicesDistinct ==
  split \/ \A a, b \in Addresses : a # b /\ tree[a].index = tree[b].index => tree[a].index = 0

\* Batches, errors, crashes and failed resets never add to the balances the accounts were seeded
\* with, as long as no account transfers to itself.
SupplyNeverGrows ==
  pc \in {"idle", "loop", "closed"} /\ (\A t \in Range(applied) : ~IsSelf(t)) =>
    Total(account) <= supply

\* Between two seedings of the genesis accounts a sender's nonce pays for one transfer to someone
\* else, whatever batch it is in and whatever is cut short.
NonceSpentOnce ==
  \A i, j \in DOMAIN applied :
    /\ i # j /\ ~IsSelf(applied[i]) /\ ~IsSelf(applied[j])
    /\ applied[i].from = applied[j].from
    => applied[i].nonce # applied[j].nonce

-----------------------------------------------------------------------------
\* The abstract accounts.

\* The transfer whose sender is debited and whose receiver's write is under way.
Owed == IF pc \in Writing /\ write.part = "receiver" THEN {Head(batch.txs)} ELSE {}

Abstract == INSTANCE Accounts WITH
  Genesis   <- Range(GenesisAccounts),
  Transfers <- {t \in Txs : VerifySignature(t)},
  accounts  <- account,
  owed      <- Owed

\* execute_batch and set_account, write by write (tx_engine.rs:149 to 166, state.rs:240 to 289):
\* whatever the batches hold and wherever a write is cut short, an account changes only by a
\* transfer that verify_signature, its sender's nonce and its sender's balance allow, by the one
\* credit that belongs to it, and by the genesis seeding and the reset.
ImplementsAccounts == Abstract!Spec
=============================================================================
