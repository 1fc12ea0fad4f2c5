--------------------------- MODULE TxEngineProofs ---------------------------
(***************************************************************************)
(* Proofs about TxEngine, for any accounts, transactions, genesis and      *)
(* bounds.                                                                 *)
(***************************************************************************)
EXTENDS TxEngine, TLAPS

-----------------------------------------------------------------------------
(* Types, and which parts of the state are in use at each pc. *)

Leaf == [index : Nat, account : Account]
Tree == [Addresses -> Leaf]
Root == [tree : Tree, fold : Seq(Addresses \X Account \X Account)]
StateDiff == [account : Addresses, old : Account, new : Account, witness : Root]
Trace == [initial : Root, final : Root, diffs : Seq(StateDiff), executed : Seq(Txs),
          torn : SUBSET Addresses]
Write == [part : {"none", "seed", "sender", "receiver"}, address : Addresses \cup {"none"},
          account : Account, old : Account, credit : Account]

\* execute_batch is under way.
Running == pc = "loop" \/ (pc \in Writing /\ write.part \in {"sender", "receiver"})

StateType ==
  /\ account \in [Addresses -> Account]
  /\ leafIndex \in [Addresses -> Nat] /\ nextLeaf \in Nat \ {0}
  /\ tree \in Tree
  /\ pc \in {"down", "seed", "idle", "loop", "closed"} \cup Writing
  /\ todo \in Seq(Addresses)
  /\ batch \in [txs : Seq(Txs), cap : Nat]
  /\ write \in Write
  /\ pc \in Writing =>
       /\ write.part # "none" /\ write.address \in Addresses
       /\ write.part # "seed" => batch.txs # << >>

TraceType ==
  /\ Running => job \in Trace /\ proving = << >> /\ worker = "up"
  /\ proving \in Seq(Trace) /\ Len(proving) <= 1
  /\ traces \in Seq([trace : Trace, accepted : BOOLEAN])
  /\ Len(traces) <= MaxTraces
  /\ Running \/ proving # << >> => Len(traces) < MaxTraces

HistoryType ==
  /\ worker \in {"off", "up", "dead"} /\ (pc = "down" => worker = "off")
  /\ applied \in Seq(Txs)
  /\ torn \in SUBSET Addresses /\ split \in BOOLEAN /\ stops \in 0 .. MaxStops

TypeInv == StateType /\ TraceType /\ HistoryType

-----------------------------------------------------------------------------
(* The write under way. *)

Tx == Head(batch.txs)

\* What set_account was called with still agrees with the accounts: nobody else writes them
\* while the lock is held.
WriteInv ==
  pc \in Writing =>
    /\ write.old = account[write.address]
    /\ write.part = "sender" =>
         /\ write.address = Tx.from /\ ~Rejected(Tx)
         /\ write.account = NewSender(Tx) /\ write.credit = NewReceiver(Tx)
    /\ write.part = "receiver" =>
         /\ write.address = Tx.to
         /\ IF IsSelf(Tx) THEN write.account.nonce < account[Tx.to].nonce
                          ELSE write.account = NewReceiver(Tx)

TreeInv ==
  /\ TreeMatchesAccounts
  /\ pc = "blob" => tree[write.address].account = write.account

\* The counter is above every index in use, except for the one just taken from it.
LeafInv ==
  ~split =>
    /\ pc = "leaf" => leafIndex[write.address] = 0
    /\ pc = "next" => leafIndex[write.address] = nextLeaf
    /\ \A a \in Addresses : leafIndex[a] < nextLeaf \/ (pc = "next" /\ a = write.address)
    /\ \A a, b \in Addresses : a # b /\ leafIndex[a] = leafIndex[b] => leafIndex[a] = 0
    /\ \A a \in Addresses : tree[a].index \in {0, leafIndex[a]}

-----------------------------------------------------------------------------
(* Nonces and balances. *)

\* The accounts are those the last seeding left and the transfers since.
Open == pc = "idle" \/ Running

\* The nonce of a transfer is below its sender's, and below the one about to be written to it.
NonceInv ==
  /\ Open => \A i \in DOMAIN applied :
               ~IsSelf(applied[i]) => applied[i].nonce < account[applied[i].from].nonce
  /\ pc \in Writing /\ write.part = "receiver" =>
       \A i \in DOMAIN applied : ~IsSelf(applied[i]) /\ applied[i].from = write.address =>
                                   applied[i].nonce < write.account.nonce
  /\ NonceSpentOnce

\* What the receiver has still to get.
Pending == IF pc \in Writing /\ write.part = "receiver" THEN Tx.amount ELSE 0

-----------------------------------------------------------------------------
(* Facts about the constants, and about sequences. *)

LEMMA Constants ==
  /\ MaxBalance \in Nat /\ MaxTraces \in Nat /\ MaxStops \in Nat /\ MaxBatch \in Nat
  /\ GenesisBalance \in 0 .. MaxBalance
  /\ GenesisAccounts \in Seq(Addresses) /\ Caps \subseteq Nat
  /\ Default \in Account /\ [balance |-> GenesisBalance, nonce |-> 0] \in Account
  /\ NoLeaf \in Leaf /\ NoWrite \in Write /\ NoBatch \in [txs : Seq(Txs), cap : Nat]
BY EngineAssumption DEF EngineAssumption, Default, Account, NoLeaf, Leaf, NoWrite, Write, NoBatch

LEMMA TxType ==
  ASSUME NEW t \in Txs
  PROVE  t.from \in Addresses /\ t.to \in Addresses /\ t.amount \in 0 .. MaxBalance /\ t.nonce \in Nat
BY EngineAssumption DEF EngineAssumption

LEMMA AccountType ==
  ASSUME NEW x \in Account
  PROVE  x.balance \in 0 .. MaxBalance /\ x.nonce \in Nat
BY DEF Account

LEMMA Appended ==
  ASSUME NEW S, NEW s \in Seq(S), NEW e \in S
  PROVE  /\ Append(s, e) \in Seq(S)
         /\ Len(s) \in Nat /\ Len(Append(s, e)) = Len(s) + 1
         /\ Append(s, e)[Len(s) + 1] = e
         /\ \A i \in 1 .. Len(s) : Append(s, e)[i] = s[i] /\ s[i] \in S
OBVIOUS

LEMMA HeadTail ==
  ASSUME NEW S, NEW s \in Seq(S), s # << >>
  PROVE  Head(s) \in S /\ Tail(s) \in Seq(S)
OBVIOUS

-----------------------------------------------------------------------------
(* Type correctness. *)

\* NewSender and NewReceiver are accounts: the debit is covered, the credit saturates.
LEMMA TransferTypes ==
  ASSUME StateType, NEW tx \in Txs, ~Rejected(tx)
  PROVE  NewSender(tx) \in Account /\ NewReceiver(tx) \in Account
<1>1. account[tx.from] \in Account /\ account[tx.to] \in Account
  BY TxType DEF StateType
<1>2. tx.amount \in 0 .. MaxBalance /\ account[tx.from].balance >= tx.amount
  BY <1>1, TxType, AccountType, Constants DEF Rejected
<1>3. account[tx.from].balance - tx.amount \in 0 .. MaxBalance /\ account[tx.from].nonce + 1 \in Nat
  BY <1>1, <1>2, AccountType, Constants
<1>4. NewSender(tx) \in Account
  BY <1>3, Zenon DEF NewSender, Account
<1>5. account[tx.to].balance \in 0 .. MaxBalance /\ MaxBalance \in Nat
  BY <1>1, AccountType, Constants
<1>6. SaturatingAdd(account[tx.to].balance, tx.amount) \in 0 .. MaxBalance
  BY <1>2, <1>5 DEF SaturatingAdd
<1>7. NewReceiver(tx) \in Account
  BY <1>1, <1>6 DEF NewReceiver, Account
<1> QED
  BY <1>4, <1>7

LEMMA SetAccountType ==
  ASSUME StateType, NEW part \in {"seed", "sender"}, NEW a \in Addresses, NEW new \in Account,
         NEW credit \in Account, SetAccount(part, a, new, credit)
  PROVE  /\ write' \in Write /\ write'.part = part /\ write'.address = a
         /\ pc' \in {"leaf", "tree"}
<1>1. account[a] \in Account
  BY DEF StateType
<1> QED
  BY <1>1 DEF SetAccount, Write

LEMMA StateTypeStep == TypeInv /\ [Next]_vars => StateType'
<1> SUFFICES ASSUME TypeInv, [Next]_vars PROVE StateType'
  OBVIOUS
<1> USE Constants DEF Writing
<1>0. StateType
  BY DEF TypeInv
<1>1. CASE UNCHANGED vars
  BY <1>0, <1>1 DEF StateType, vars, dbVars
<1>2. CASE Start
  BY <1>0, <1>2 DEF StateType, Start, dbVars
<1>3. CASE SeedAccount
  <2>1. Head(todo) \in Addresses /\ Tail(todo) \in Seq(Addresses)
    BY <1>0, <1>3, HeadTail DEF SeedAccount, StateType
  <2>2. write' \in Write /\ write'.part = "seed" /\ write'.address \in Addresses /\ pc' \in {"leaf", "tree"}
    BY <1>0, <1>3, <2>1, SetAccountType DEF SeedAccount
  <2> QED
    BY <1>0, <1>3, <2>1, <2>2 DEF StateType, SeedAccount, dbVars
<1>4. CASE SeedDone
  BY <1>0, <1>4 DEF StateType, SeedDone, SeedingEnds, dbVars
<1>5. ASSUME NEW n \in 0 .. MaxBatch, NEW txs \in [1 .. n -> Txs], NEW cap \in Caps,
             ExecuteBatch(txs, cap)
      PROVE  StateType'
  <2>1. txs \in Seq(Txs) /\ cap \in Nat
    OBVIOUS
  <2> QED
    BY <1>0, <1>5, <2>1, Zenon DEF StateType, ExecuteBatch, dbVars
<1>6. CASE ExecuteOnClosed
  BY <1>0, <1>6 DEF StateType, ExecuteOnClosed, dbVars
<1>7. CASE SkipTx
  <2>1. Tail(batch.txs) \in Seq(Txs)
    BY <1>0, <1>7, HeadTail DEF SkipTx, StateType
  <2> QED
    BY <1>0, <1>7, <2>1, Zenon DEF StateType, SkipTx, dbVars
<1>8. CASE ApplyTx
  <2>1. Tx \in Txs /\ ~Rejected(Tx) /\ SetAccount("sender", Tx.from, NewSender(Tx), NewReceiver(Tx))
    BY <1>0, <1>8, HeadTail DEF ApplyTx, StateType, Tx
  <2>2. Tx.from \in Addresses /\ NewSender(Tx) \in Account /\ NewReceiver(Tx) \in Account
    BY <1>0, <2>1, TxType, TransferTypes
  <2>3. write' \in Write /\ write'.part = "sender" /\ write'.address \in Addresses /\ pc' \in {"leaf", "tree"}
    BY <1>0, <2>1, <2>2, SetAccountType
  <2> QED
    BY <1>0, <1>8, <2>3, Zenon DEF StateType, ApplyTx, dbVars
<1>9. CASE BatchDone
  BY <1>0, <1>9 DEF StateType, BatchDone, dbVars
<1>10. CASE Prove
  BY <1>0, <1>10, Zenon DEF StateType, Prove, dbVars
<1>11. CASE PutLeafIndex
  BY <1>0, <1>11 DEF StateType, PutLeafIndex
<1>12. CASE StoreNextLeafIndex
  BY <1>0, <1>12 DEF StateType, StoreNextLeafIndex
<1>13. CASE ExtendTree
  <2>1. [index |-> leafIndex[write.address], account |-> write.account] \in Leaf
    BY <1>0, <1>13 DEF StateType, ExtendTree, Leaf, Write
  <2> QED
    BY <1>0, <1>13, <2>1 DEF StateType, ExtendTree, Tree
<1>14. ASSUME PersistAccountBlob
       PROVE  /\ pc = "blob" /\ account' \in [Addresses -> Account] /\ leafIndex' = leafIndex
              /\ nextLeaf' = nextLeaf /\ tree' = tree
  BY <1>0, <1>14 DEF StateType, PersistAccountBlob, Write
<1>15. CASE Seeded
  BY <1>0, <1>14, <1>15 DEF StateType, Seeded
<1>16. CASE Debited
  <2>1. Tx.to \in Addresses
    BY <1>0, <1>16, HeadTail, TxType, Zenon DEF StateType, Tx, Debited, PersistAccountBlob
  <2>2. account'[Tx.to] \in Account /\ write.credit \in Account
    BY <1>0, <1>14, <1>16, <2>1, Zenon DEF StateType, Write, Debited
  <2>3. write' \in Write /\ write'.part = "receiver" /\ write'.address \in Addresses
    BY <1>16, <2>1, <2>2, Zenon DEF Debited, Write, Tx
  <2>4. batch' = batch /\ todo' = todo /\ batch.txs # << >> /\ pc' \in {"leaf", "tree"}
    BY <1>0, <1>14, <1>16 DEF StateType, Debited
  <2> QED
    BY <1>0, <1>14, <1>16, <2>3, <2>4, Zenon DEF StateType, Debited
<1>17. CASE Credited
  <2>1. Tail(batch.txs) \in Seq(Txs)
    BY <1>0, <1>17, HeadTail DEF Credited, StateType, PersistAccountBlob
  <2> QED
    BY <1>0, <1>14, <1>17, <2>1, Zenon DEF StateType, Credited
<1>18. CASE ResetToGenesis
  BY <1>0, <1>18 DEF StateType, ResetToGenesis, NewDatabases, Tree
<1>19. ASSUME NEW gone \in SUBSET {"accounts", "jmt"}, ResetFails(gone)
       PROVE  StateType'
  BY <1>0, <1>19 DEF StateType, ResetFails, Tree
<1>20. CASE WriteFails
  <2>1. /\ UNCHANGED dbVars /\ batch' = NoBatch /\ write' = NoWrite /\ pc' \in {"idle", "down"}
        /\ todo' = todo \/ todo' = << >>
    BY <1>20 DEF WriteFails, Cut, SeedingEnds
  <2>2. todo' \in Seq(Addresses)
    <3>1. << >> \in Seq(Addresses) /\ todo \in Seq(Addresses)
      BY <1>0 DEF StateType
    <3> QED
      BY <2>1, <3>1, Zenon
  <2>3. write' \in Write /\ batch' \in [txs : Seq(Txs), cap : Nat] /\ pc' \notin Writing
    BY <2>1
  <2> QED
    BY <1>0, <2>1, <2>2, <2>3, Zenon DEF StateType, dbVars
<1>21. CASE Crash
  BY <1>0, <1>21 DEF StateType, Crash, Cut, dbVars
<1> QED
  BY <1>1, <1>2, <1>3, <1>4, <1>5, <1>6, <1>7, <1>8, <1>9, <1>10, <1>11, <1>12, <1>13, <1>15,
     <1>16, <1>17, <1>18, <1>19, <1>20, <1>21, Zenon DEF Next

\* What a step does to the trace of the batch, to the trace being proved and to the others.
TreeKept ==
  /\ UNCHANGED <<account, tree, torn>>
  /\ pc' = "blob" <=> pc = "blob"
  /\ pc' = "blob" => UNCHANGED write
JobKept ==
  /\ Running /\ Running' /\ UNCHANGED <<job, worker, proving, traces>>
  /\ Pending' = Pending /\ (TreeKept \/ ExtendTree)
JobOver == ~Running' /\ proving' \in {proving, << >>} /\ UNCHANGED traces
JobBegun ==
  /\ ~Running /\ pc' = "loop" /\ worker = "up" /\ proving = << >> /\ Len(traces) < MaxTraces
  /\ job' = [initial |-> CurrentRoot, final |-> CurrentRoot, diffs |-> << >>,
             executed |-> << >>, torn |-> torn]
  /\ UNCHANGED <<dbVars, worker, proving, traces, torn>>
JobGrown(executed) ==
  /\ Running /\ Running' /\ pc = "blob"
  /\ job' = [job EXCEPT !.final = FoldDiff(@, Diff), !.diffs = Append(@, Diff),
                        !.executed = executed]
  /\ UNCHANGED <<worker, proving, traces>>
JobDone == pc = "loop" /\ ~Running' /\ proving' = <<job>> /\ UNCHANGED traces
JobProved == Prove /\ ~Running /\ ~Running'

LEMMA JobSteps ==
  ASSUME TypeInv, [Next]_vars
  PROVE  \/ JobKept \/ JobOver \/ JobBegun \/ JobDone \/ JobProved
         \/ Debited /\ JobGrown(job.executed)
         \/ Credited /\ JobGrown(Append(job.executed, Tx))
<1> USE DEF Writing, Running
<1>1. CASE UNCHANGED vars
  <2>1. UNCHANGED <<account, tree, torn, pc, write, batch, job, worker, proving, traces>>
    BY <1>1 DEF vars, dbVars, histVars
  <2>2. Pending' = Pending
    BY <2>1 DEF Pending, Tx
  <2> QED
    BY <2>1, <2>2, Zenon DEF JobKept, JobOver, TreeKept
<1>2. CASE Start \/ SeedDone \/ ExecuteOnClosed
  BY <1>2 DEF JobOver, Start, SeedDone, SeedingEnds, ExecuteOnClosed, histVars
<1>3. CASE SeedAccount
  BY <1>3 DEF JobOver, SeedAccount, SetAccount, histVars
<1>4. ASSUME NEW txs, NEW cap, ExecuteBatch(txs, cap) PROVE JobBegun
  BY <1>4 DEF JobBegun, ExecuteBatch, histVars
<1>5. CASE SkipTx
  BY <1>5 DEF JobKept, TreeKept, Pending, SkipTx, dbVars, histVars
<1>6. CASE ApplyTx
  <2>1. pc = "loop" /\ pc' \in {"leaf", "tree"} /\ write'.part = "sender"
    BY <1>6 DEF ApplyTx, SetAccount
  <2> QED
    BY <1>6, <2>1 DEF JobKept, TreeKept, Pending, ApplyTx, dbVars, histVars
<1>7. CASE BatchDone
  BY <1>7 DEF JobDone, BatchDone, histVars
<1>8. CASE Prove
  BY <1>8 DEF JobProved, Prove, TypeInv, TraceType
<1>9. CASE PutLeafIndex \/ StoreNextLeafIndex \/ ExtendTree
  <2>1. /\ UNCHANGED <<account, torn, batch, write, job, worker, proving, traces>>
        /\ pc \in Writing /\ pc' \in Writing /\ pc # "blob"
        /\ ExtendTree \/ (tree' = tree /\ pc' # "blob")
    BY <1>9 DEF PutLeafIndex, StoreNextLeafIndex, ExtendTree, histVars
  <2>2. Pending' = Pending /\ (TreeKept \/ ExtendTree)
    BY <2>1 DEF Pending, Tx, TreeKept
  <2> QED
    BY <2>1, <2>2 DEF JobKept, JobOver
<1>10. CASE Seeded
  BY <1>10 DEF JobOver, Seeded
<1>11. CASE Debited
  <2>1. Running /\ Running' /\ pc = "blob"
    BY <1>11 DEF Debited, PersistAccountBlob
  <2>2. job.executed = job.executed /\ job \in Trace
    BY <2>1 DEF TypeInv, TraceType
  <2>3. job' = [job EXCEPT !.final = FoldDiff(@, Diff), !.diffs = Append(@, Diff),
                           !.executed = job.executed]
    BY <1>11, <2>2, Zenon DEF Debited, Trace
  <2> HIDE DEF Running
  <2> QED
    BY <1>11, <2>1, <2>3 DEF JobGrown, Debited
<1>12. CASE Credited
  <2>1. Running /\ Running' /\ pc = "blob"
    BY <1>12 DEF Credited, PersistAccountBlob
  <2>2. job \in Trace
    BY <2>1 DEF TypeInv, TraceType
  <2>3. job' = [job EXCEPT !.final = FoldDiff(@, Diff), !.diffs = Append(@, Diff),
                           !.executed = Append(job.executed, Tx)]
    BY <1>12, <2>2 DEF Credited, Trace, Tx
  <2> HIDE DEF Running
  <2> QED
    BY <1>12, <2>1, <2>3 DEF JobGrown, Credited
<1>13. CASE ResetToGenesis
  BY <1>13 DEF JobOver, ResetToGenesis
<1>14. ASSUME NEW gone, ResetFails(gone) PROVE JobOver
  BY <1>14 DEF JobOver, ResetFails
<1>15. CASE WriteFails \/ Crash
  BY <1>15 DEF JobOver, WriteFails, Crash, Cut, SeedingEnds
<1> QED
  BY <1>1, <1>2, <1>3, <1>4, <1>5, <1>6, <1>7, <1>8, <1>9, <1>10, <1>11, <1>12, <1>13, <1>14,
     <1>15 DEF Next

LEMMA TraceTypeStep == TypeInv /\ [Next]_vars => TraceType'
<1> SUFFICES ASSUME TypeInv, [Next]_vars PROVE TraceType'
  OBVIOUS
<1>0. StateType /\ TraceType /\ HistoryType /\ Len(traces) \in Nat /\ MaxTraces \in Nat
  BY Constants DEF TypeInv, TraceType
<1>1. CASE JobKept
  BY <1>0, <1>1 DEF TraceType, JobKept
<1>2. CASE JobOver
  <2>1. CASE proving' = proving
    BY <1>0, <1>2, <2>1 DEF TraceType, JobOver
  <2>2. CASE proving' = << >>
    BY <1>0, <1>2, <2>2 DEF TraceType, JobOver
  <2> QED
    BY <1>2, <2>1, <2>2 DEF JobOver
<1>3. CASE JobBegun
  <2>1. CurrentRoot \in Root
    BY <1>0 DEF CurrentRoot, Root, StateType
  <2>2. job' \in Trace
    BY <1>0, <1>3, <2>1 DEF JobBegun, Trace, HistoryType
  <2> QED
    BY <1>0, <1>3, <2>2 DEF TraceType, JobBegun
<1>4. CASE JobDone
  <2>1. job \in Trace /\ Len(traces) < MaxTraces
    BY <1>0, <1>4 DEF TraceType, JobDone, Running
  <2> QED
    BY <1>0, <1>4, <2>1 DEF TraceType, JobDone
<1>5. CASE JobProved
  <2>1. proving # << >> /\ proving' = << >> /\ Len(traces) < MaxTraces
    BY <1>0, <1>5 DEF TraceType, JobProved, Prove
  <2>2. proving[1] \in Trace
    BY <1>0, <2>1 DEF TraceType
  <2>3. [trace |-> proving[1], accepted |-> GuestAccepts(proving[1])]
          \in [trace : Trace, accepted : BOOLEAN]
    BY <2>2 DEF GuestAccepts
  <2>4. traces' \in Seq([trace : Trace, accepted : BOOLEAN]) /\ Len(traces') = Len(traces) + 1
    BY <1>0, <1>5, <2>3, Appended DEF JobProved, Prove, TraceType
  <2> QED
    BY <1>0, <1>5, <2>1, <2>4 DEF TraceType, JobProved
<1>6. ASSUME NEW executed \in Seq(Txs), JobGrown(executed) PROVE TraceType'
  <2>1. job \in Trace
    BY <1>0, <1>6 DEF TraceType, JobGrown
  <2>2. Diff \in StateDiff
    BY <1>0, <1>6, <2>1 DEF Diff, StateDiff, Trace, JobGrown, StateType, Write, Writing
  <2>3. FoldDiff(job.final, Diff) \in Root
    <3>1. Folded(Diff) \in Addresses \X Account \X Account
      BY <2>2 DEF Folded, StateDiff
    <3> QED
      BY <2>1, <3>1, Appended, Zenon DEF FoldDiff, Root, Trace
  <2>4. Append(job.diffs, Diff) \in Seq(StateDiff)
    BY <2>1, <2>2, Appended DEF Trace
  <2>5. job' \in Trace
    BY <1>6, <2>1, <2>3, <2>4, Zenon DEF JobGrown, Trace
  <2> QED
    BY <1>0, <1>6, <2>5 DEF TraceType, JobGrown
<1>7. CASE Debited /\ JobGrown(job.executed)
  BY <1>0, <1>6, <1>7, Zenon DEF JobGrown, TraceType, Trace
<1>8. CASE Credited /\ JobGrown(Append(job.executed, Tx))
  <2>1. job \in Trace /\ Tx \in Txs
    BY <1>0, <1>8, HeadTail DEF JobGrown, TraceType, StateType, Tx, Running, Writing
  <2> QED
    BY <1>6, <1>8, <2>1, Appended, Zenon DEF Trace
<1> QED
  BY <1>1, <1>2, <1>3, <1>4, <1>5, <1>7, <1>8, JobSteps

LEMMA HistoryTypeStep == TypeInv /\ [Next]_vars => HistoryType'
<1> SUFFICES ASSUME TypeInv, [Next]_vars PROVE HistoryType'
  OBVIOUS
<1>0. StateType /\ HistoryType /\ MaxStops \in Nat /\ << >> \in Seq(Txs)
  BY Constants DEF TypeInv
<1>1. CASE UNCHANGED vars
  BY <1>0, <1>1 DEF HistoryType, vars, histVars
<1>2. CASE Start \/ SeedAccount
  BY <1>0, <1>2 DEF HistoryType, Start, SeedAccount, SetAccount, histVars
<1>13. CASE SeedDone
  BY <1>0, <1>13 DEF HistoryType, SeedDone, SeedingEnds
<1>3. ASSUME NEW txs, NEW cap, ExecuteBatch(txs, cap) PROVE HistoryType'
  BY <1>0, <1>3 DEF HistoryType, ExecuteBatch, histVars
<1>4. CASE ExecuteOnClosed \/ SkipTx \/ ApplyTx \/ BatchDone \/ Prove
  BY <1>0, <1>4 DEF HistoryType, ExecuteOnClosed, SkipTx, ApplyTx, SetAccount, BatchDone, Prove, histVars
<1>5. CASE PutLeafIndex \/ StoreNextLeafIndex \/ ExtendTree
  BY <1>0, <1>5 DEF HistoryType, PutLeafIndex, StoreNextLeafIndex, ExtendTree, histVars
<1>6. CASE Seeded \/ Credited
  BY <1>0, <1>6 DEF HistoryType, Seeded, Credited, PersistAccountBlob
<1>7. CASE Debited
  <2>1. Tx \in Txs
    BY <1>0, <1>7, HeadTail DEF StateType, Debited, PersistAccountBlob, Tx, Writing
  <2>2. applied' \in Seq(Txs)
    BY <1>0, <1>7, <2>1, Appended DEF HistoryType, Debited, Tx
  <2> QED
    BY <1>0, <1>7, <2>2 DEF HistoryType, Debited, PersistAccountBlob
<1>8. CASE ResetToGenesis
  <2>1. stops' \in 0 .. MaxStops /\ UNCHANGED <<worker, applied, supply>> /\ pc' = "seed"
    BY <1>0, <1>8 DEF HistoryType, ResetToGenesis
  <2>2. torn' \in SUBSET Addresses /\ split' \in BOOLEAN
    BY <1>8, Zenon DEF ResetToGenesis
  <2> QED
    BY <1>0, <2>1, <2>2 DEF HistoryType
<1>9. ASSUME NEW gone, ResetFails(gone) PROVE HistoryType'
  BY <1>0, <1>9 DEF HistoryType, ResetFails
<1>10. ASSUME Cut
       PROVE  torn' \in SUBSET Addresses /\ split' \in BOOLEAN /\ stops' \in 0 .. MaxStops
  BY <1>0, <1>10 DEF StateType, HistoryType, Cut, Writing
<1>11. CASE WriteFails
  <2>1. /\ worker' = worker /\ pc' = "down" => worker = "off"
        /\ applied' = applied \/ applied' = << >>
    BY <1>11 DEF WriteFails, SeedingEnds
  <2>2. applied' \in Seq(Txs)
    BY <1>0, <2>1, Zenon DEF HistoryType
  <2> QED
    BY <1>0, <1>10, <1>11, <2>1, <2>2 DEF HistoryType, WriteFails
<1>12. CASE Crash
  BY <1>0, <1>10, <1>12 DEF HistoryType, Crash
<1> QED
  BY <1>1, <1>2, <1>3, <1>4, <1>5, <1>6, <1>7, <1>8, <1>9, <1>11, <1>12, <1>13 DEF Next

LEMMA TypeInvInit == Init => TypeInv
<1> SUFFICES ASSUME Init PROVE TypeInv
  OBVIOUS
<1>1. ~Running /\ pc \notin Writing
  BY DEF Init, Running, Writing
<1>2. StateType
  BY <1>1, Constants DEF Init, StateType, Tree
<1>3. TraceType
  BY <1>1, Constants DEF Init, TraceType
<1>4. HistoryType
  <2>1. 0 \in 0 .. MaxStops /\ 0 \in Int /\ << >> \in Seq(Txs) /\ {} \in SUBSET Addresses
    BY Constants
  <2> QED
    BY <2>1, Zenon DEF Init, HistoryType
<1> QED
  BY <1>2, <1>3, <1>4 DEF TypeInv

\* The databases, the engine's control state, the traces and the histories have their types in
\* every reachable state; among others, a balance never leaves the range of u64.
THEOREM TypeInvariant == Spec => []TypeInv
<1>1. TypeInv /\ [Next]_vars => TypeInv'
  BY StateTypeStep, TraceTypeStep, HistoryTypeStep DEF TypeInv
<1> QED
  BY <1>1, TypeInvInit, PTL DEF Spec

\* The databases and the engine's control state have the types TypeOK gives them: among others,
\* debits and saturating credits keep every balance in the range of u64.
THEOREM TypeCorrect == Spec => []TypeOK
<1>1. TypeInv => TypeOK
  <2> SUFFICES ASSUME TypeInv PROVE TypeOK
    OBVIOUS
  <2>1. batch.txs \in Seq(Txs) /\ write.account \in Account
    BY DEF TypeInv, StateType, Write
  <2> QED
    BY <2>1, Zenon DEF TypeInv, StateType, TraceType, HistoryType, TypeOK, Tree, Leaf
<1> QED
  BY <1>1, TypeInvariant, PTL

-----------------------------------------------------------------------------
(* The write under way. *)

\* The steps that neither begin nor end a write of the account database, and those that leave
\* none under way.
SameWrite == (pc' \in Writing => pc \in Writing) /\ UNCHANGED <<account, batch, job, write>>
NoneUnderWay == pc' \notin Writing

LEMMA WriteSteps ==
  ASSUME [Next]_vars
  PROVE  SameWrite \/ NoneUnderWay \/ SeedAccount \/ ApplyTx \/ Debited
<1> USE DEF Writing
<1>1. CASE UNCHANGED vars \/ Prove \/ PutLeafIndex \/ StoreNextLeafIndex \/ ExtendTree
  BY <1>1, Zenon DEF SameWrite, vars, dbVars, Prove, PutLeafIndex, StoreNextLeafIndex, ExtendTree
<1>2. CASE Start \/ SeedDone \/ ExecuteOnClosed \/ SkipTx \/ BatchDone \/ Seeded \/ Credited
  BY <1>2 DEF NoneUnderWay, Start, SeedDone, SeedingEnds, ExecuteOnClosed, SkipTx, BatchDone,
              Seeded, Credited
<1>3. CASE ResetToGenesis \/ WriteFails \/ Crash
  BY <1>3 DEF NoneUnderWay, ResetToGenesis, WriteFails, SeedingEnds, Crash
<1>4. ASSUME NEW txs, NEW cap, ExecuteBatch(txs, cap) PROVE NoneUnderWay
  BY <1>4 DEF NoneUnderWay, ExecuteBatch
<1>5. ASSUME NEW gone, ResetFails(gone) PROVE NoneUnderWay
  BY <1>5 DEF NoneUnderWay, ResetFails
<1> QED
  BY <1>1, <1>2, <1>3, <1>4, <1>5 DEF Next

LEMMA WriteInvStep == TypeInv /\ WriteInv /\ [Next]_vars => WriteInv'
<1> SUFFICES ASSUME TypeInv, WriteInv, [Next]_vars PROVE WriteInv'
  OBVIOUS
<1>0. StateType
  BY DEF TypeInv
<1>1. CASE SameWrite
  BY <1>1, Zenon DEF SameWrite, WriteInv, Tx, Rejected, NewSender, NewReceiver
<1>2. CASE NoneUnderWay
  BY <1>2, Zenon DEF NoneUnderWay, WriteInv
<1>3. CASE SeedAccount
  BY <1>3, Zenon DEF SeedAccount, SetAccount, WriteInv, dbVars
<1>4. CASE ApplyTx
  <2>1. ~Rejected(Tx) /\ SetAccount("sender", Tx.from, NewSender(Tx), NewReceiver(Tx))
    BY <1>4, Zenon DEF ApplyTx, Tx
  <2>2. UNCHANGED <<account, batch, job>>
    BY <1>4 DEF ApplyTx, dbVars
  <2>3. ~Rejected(Tx)' /\ NewSender(Tx)' = NewSender(Tx) /\ NewReceiver(Tx)' = NewReceiver(Tx) /\ Tx' = Tx
    BY <2>1, <2>2, Zenon DEF Rejected, NewSender, NewReceiver, Tx
  <2>4. /\ write'.part = "sender" /\ write'.address = Tx.from /\ write'.account = NewSender(Tx)
        /\ write'.old = account[Tx.from] /\ write'.credit = NewReceiver(Tx)
    BY <2>1, Zenon DEF SetAccount
  <2> QED
    BY <2>2, <2>3, <2>4, Zenon DEF WriteInv
<1>5. CASE Debited
  <2>1. /\ pc = "blob" /\ write.part = "sender" /\ batch.txs # << >>
        /\ write.address \in Addresses /\ write.account \in Account
    BY <1>0, <1>5 DEF Debited, PersistAccountBlob, StateType, Writing, Write
  <2>2. /\ Tx \in Txs /\ write.address = Tx.from /\ ~Rejected(Tx)
        /\ write.account = NewSender(Tx) /\ write.credit = NewReceiver(Tx)
    BY <1>0, <2>1, HeadTail, Zenon DEF WriteInv, Writing, StateType, Tx
  <2>3. /\ account' = [account EXCEPT ![Tx.from] = write.account]
        /\ Tx' = Tx
    BY <1>5, <2>2 DEF Debited, PersistAccountBlob, Tx
  <2>4. /\ write'.part = "receiver" /\ write'.address = Tx.to /\ write'.account = write.credit
        /\ write'.old = account'[Tx.to]
    BY <1>5 DEF Debited, Tx
  <2>5. Tx.from \in Addresses /\ Tx.to \in Addresses
    BY <2>2, TxType
  <2>6. CASE IsSelf(Tx)
    <3>1. account'[Tx.to].nonce = account[Tx.to].nonce + 1 /\ write'.account.nonce = account[Tx.to].nonce
      BY <1>0, <2>2, <2>3, <2>4, <2>5, <2>6 DEF IsSelf, NewSender, NewReceiver, StateType, Account
    <3>2. account[Tx.to].nonce \in Nat
      BY <1>0, <2>5, Zenon DEF StateType, Account
    <3>3. write'.account.nonce < account'[Tx.to].nonce
      BY <3>1, <3>2
    <3> QED
      BY <2>3, <2>4, <2>6, <3>3, Zenon DEF WriteInv
  <2>7. CASE ~IsSelf(Tx)
    <3>1. account'[Tx.to] = account[Tx.to]
      BY <1>0, <2>3, <2>5, <2>7, Zenon DEF IsSelf, StateType
    <3>2. NewReceiver(Tx)' = NewReceiver(Tx)
      BY <2>3, <3>1 DEF NewReceiver
    <3> QED
      BY <2>2, <2>3, <2>4, <2>7, <3>2, Zenon DEF WriteInv
  <2> QED
    BY <2>6, <2>7
<1> QED
  BY <1>1, <1>2, <1>3, <1>4, <1>5, WriteSteps

LEMMA WriteInvariant == Spec => []WriteInv
<1>1. Init => WriteInv
  BY Zenon DEF Init, WriteInv, Writing
<1> QED
  BY <1>1, WriteInvStep, TypeInvariant, PTL DEF Spec

-----------------------------------------------------------------------------
(* The tree and the accounts. *)

LEMMA TreeInvStep == TypeInv /\ TreeInv /\ [Next]_vars => TreeInv'
<1> SUFFICES ASSUME TypeInv, TreeInv, [Next]_vars PROVE TreeInv'
  BY Zenon
<1> USE DEF TreeInv, TreeMatchesAccounts
<1>0. StateType
  BY DEF TypeInv
<1>1. CASE UNCHANGED vars
  BY <1>1, Zenon DEF vars, dbVars, histVars
<1>2. CASE Start \/ SeedDone \/ ExecuteOnClosed \/ SkipTx \/ BatchDone
  BY <1>2 DEF Start, SeedDone, SeedingEnds, ExecuteOnClosed, SkipTx, BatchDone, dbVars, histVars
<1>3. CASE SeedAccount \/ ApplyTx
  BY <1>3, Zenon DEF SeedAccount, ApplyTx, SetAccount, dbVars, histVars
<1>4. ASSUME NEW txs, NEW cap, ExecuteBatch(txs, cap) PROVE TreeInv'
  BY <1>4, Zenon DEF ExecuteBatch, dbVars, histVars
<1>5. CASE Prove
  BY <1>5, Zenon DEF Prove, dbVars
<1>6. CASE PutLeafIndex \/ StoreNextLeafIndex
  BY <1>6, Zenon DEF PutLeafIndex, StoreNextLeafIndex, histVars
<1>7. CASE ExtendTree
  BY <1>0, <1>7 DEF ExtendTree, histVars, StateType, Tree, Writing
<1>8. CASE Seeded \/ Debited \/ Credited
  <2>1. /\ PersistAccountBlob /\ pc' # "blob"
    BY <1>8 DEF Seeded, Debited, Credited
  <2>2. /\ account' = [account EXCEPT ![write.address] = write.account] /\ tree' = tree
        /\ torn' = torn \ {write.address} /\ write.address \in Addresses
        /\ tree[write.address].account = write.account
    BY <1>0, <2>1, Zenon DEF PersistAccountBlob, StateType, Writing
  <2> QED
    BY <1>0, <2>1, <2>2, Zenon DEF StateType
<1>9. CASE ResetToGenesis
  BY <1>9, Zenon DEF ResetToGenesis, NewDatabases, NoLeaf
<1>10. ASSUME NEW gone \in SUBSET {"accounts", "jmt"}, ResetFails(gone) PROVE TreeInv'
  BY <1>10 DEF ResetFails
<1>11. CASE WriteFails \/ Crash
  <2>1. Cut /\ pc' # "blob"
    BY <1>11 DEF WriteFails, Crash, SeedingEnds
  <2> QED
    BY <2>1 DEF Cut, dbVars
<1> QED
  BY <1>1, <1>2, <1>3, <1>4, <1>5, <1>6, <1>7, <1>8, <1>9, <1>10, <1>11, Zenon DEF Next

LEMMA TreeInvariant == Spec => []TreeInv
<1>1. Init => TreeInv
  BY DEF Init, TreeInv, TreeMatchesAccounts, NoLeaf
<1> QED
  BY <1>1, TreeInvStep, TypeInvariant, PTL DEF Spec

\* Between two writes the tree holds the accounts the database holds, except for an account whose
\* last write set_account did not finish: extend_tree comes before persist_account_blob.
THEOREM TreeIsTheAccounts == Spec => []TreeMatchesAccounts
<1>1. TreeInv => TreeMatchesAccounts
  BY Zenon DEF TreeInv
<1> QED
  BY <1>1, TreeInvariant, PTL

-----------------------------------------------------------------------------
(* Leaf indices. *)

LEMMA LeafInvStep == TypeInv /\ LeafInv /\ [Next]_vars => LeafInv'
<1> SUFFICES ASSUME TypeInv, LeafInv, [Next]_vars PROVE LeafInv'
  OBVIOUS
<1>0. /\ StateType /\ leafIndex \in [Addresses -> Nat] /\ nextLeaf \in Nat
      /\ pc \in Writing => write.address \in Addresses
  BY Zenon DEF TypeInv, StateType
<1>1. CASE UNCHANGED vars
  BY <1>1, Zenon DEF LeafInv, vars, dbVars, histVars
<1>2. CASE Start \/ SeedDone \/ ExecuteOnClosed \/ SkipTx \/ BatchDone \/ Prove
  BY <1>2 DEF LeafInv, Start, SeedDone, SeedingEnds, ExecuteOnClosed, SkipTx, BatchDone, Prove,
              dbVars, histVars
<1>3. CASE SeedAccount \/ ApplyTx
  BY <1>3 DEF LeafInv, SeedAccount, ApplyTx, SetAccount, dbVars, histVars
<1>4. ASSUME NEW txs, NEW cap, ExecuteBatch(txs, cap) PROVE LeafInv'
  BY <1>4, Zenon DEF LeafInv, ExecuteBatch, dbVars, histVars
<1>5. CASE PutLeafIndex
  BY <1>0, <1>5 DEF LeafInv, PutLeafIndex, histVars, Writing
<1>6. CASE StoreNextLeafIndex
  BY <1>0, <1>6 DEF LeafInv, StoreNextLeafIndex, histVars, Writing
<1>7. CASE ExtendTree
  BY <1>0, <1>7, Zenon DEF LeafInv, ExtendTree, histVars, StateType, Tree, Writing
<1>8. CASE Seeded \/ Credited
  BY <1>8 DEF LeafInv, Seeded, Credited, PersistAccountBlob
<1>9. CASE Debited
  BY <1>9 DEF LeafInv, Debited, PersistAccountBlob
<1>10. CASE ResetToGenesis
  BY <1>10 DEF LeafInv, ResetToGenesis, NewDatabases, NoLeaf
<1>11. ASSUME NEW gone \in SUBSET {"accounts", "jmt"}, ResetFails(gone) PROVE LeafInv'
  <2>1. CASE "accounts" \notin gone /\ "jmt" \notin gone
    BY <1>11, <2>1, Zenon DEF LeafInv, ResetFails
  <2>2. CASE "accounts" \in gone /\ "jmt" \notin gone
    BY <1>11, <2>2, Zenon DEF LeafInv, ResetFails
  <2>3. CASE "accounts" \notin gone /\ "jmt" \in gone
    BY <1>11, <2>3, Zenon DEF LeafInv, ResetFails, NoLeaf
  <2>4. CASE "accounts" \in gone /\ "jmt" \in gone
    BY <1>11, <2>4 DEF LeafInv, ResetFails, NoLeaf
  <2> QED
    BY <2>1, <2>2, <2>3, <2>4
<1>12. CASE WriteFails \/ Crash
  <2>1. Cut /\ pc' \notin {"leaf", "next"}
    BY <1>12 DEF WriteFails, Crash, SeedingEnds
  <2> QED
    BY <2>1, Zenon DEF LeafInv, Cut, dbVars
<1> QED
  BY <1>1, <1>2, <1>3, <1>4, <1>5, <1>6, <1>7, <1>8, <1>9, <1>10, <1>11, <1>12 DEF Next

\* No two leaves of the tree have the same index, unless a crash or a failed reset fell between
\* the two writes of get_or_assign_leaf_index or between the two databases.
THEOREM LeavesDistinct == Spec => []LeafIndicesDistinct
<1>1. Init => LeafInv
  BY DEF Init, LeafInv, NoLeaf
<1>2. LeafInv => LeafIndicesDistinct
  BY DEF LeafInv, LeafIndicesDistinct
<1> QED
  BY <1>1, <1>2, LeafInvStep, TypeInvariant, PTL DEF Spec

-----------------------------------------------------------------------------
(* Nonces. *)

\* Steps that write no account and append no transfer, and steps after which nothing relies on
\* the accounts.
SameApplied ==
  /\ (Open' => Open) /\ (pc' = "closed" => pc = "closed")
  /\ pc' \in Writing /\ write'.part = "receiver" =>
       pc \in Writing /\ write.part = "receiver" /\ UNCHANGED <<batch, write>>
  /\ UNCHANGED <<account, applied, supply>>
Reseeded == ~Running' /\ applied' = << >> /\ supply' = Total(account) /\ UNCHANGED account
Closed == ~Open' /\ pc' # "closed" /\ UNCHANGED <<applied, supply>>

LEMMA AppliedSteps ==
  ASSUME TypeInv, [Next]_vars
  PROVE  \/ SameApplied \/ Reseeded \/ Closed \/ Debited \/ Credited
         \/ \E gone \in SUBSET {"accounts", "jmt"} : ResetFails(gone)
<1> USE DEF Writing, Running, Open
<1>0. pc \in Writing => write.part \in {"seed", "sender", "receiver"}
  BY Zenon DEF TypeInv, StateType, Write
<1>1. CASE UNCHANGED vars \/ Prove \/ PutLeafIndex \/ StoreNextLeafIndex \/ ExtendTree
  BY <1>1, Zenon DEF SameApplied, vars, dbVars, histVars, Prove, PutLeafIndex, StoreNextLeafIndex, ExtendTree
<1>2. CASE ExecuteOnClosed \/ SkipTx \/ BatchDone
  BY <1>2 DEF SameApplied, dbVars, histVars, ExecuteOnClosed, SkipTx, BatchDone
<1>3. CASE Start \/ Seeded \/ ResetToGenesis \/ Crash
  BY <1>3 DEF Closed, Start, Seeded, ResetToGenesis, Crash, histVars
<1>4. CASE SeedAccount
  BY <1>4, Zenon DEF Closed, SeedAccount, SetAccount, histVars
<1>5. CASE SeedDone
  BY <1>5 DEF Reseeded, SeedDone, SeedingEnds, dbVars
<1>6. ASSUME NEW txs, NEW cap, ExecuteBatch(txs, cap) PROVE SameApplied
  BY <1>6, Zenon DEF SameApplied, ExecuteBatch, dbVars, histVars
<1>7. CASE ApplyTx
  <2>1. pc = "loop" /\ pc' # "closed" /\ write'.part = "sender" /\ UNCHANGED <<account, applied, supply>>
    BY <1>7, Zenon DEF ApplyTx, SetAccount, dbVars, histVars
  <2> QED
    BY <2>1 DEF SameApplied
<1>8. CASE WriteFails
  BY <1>0, <1>8, Zenon DEF SameApplied, Reseeded, Closed, WriteFails, Cut, SeedingEnds, dbVars
<1> QED
  BY <1>1, <1>2, <1>3, <1>4, <1>5, <1>6, <1>7, <1>8 DEF Next

\* The two account writes of a transfer, by their effect on the accounts.
LEMMA DebitedEffect ==
  ASSUME TypeInv, WriteInv, Debited
  PROVE  /\ Tx \in Txs /\ Tx' = Tx /\ ~Rejected(Tx) /\ Running
         /\ ~ (pc \in Writing /\ write.part = "receiver")
         /\ account' = [account EXCEPT ![Tx.from] = NewSender(Tx)]
         /\ NewSender(Tx) \in Account
         /\ applied' = Append(applied, Tx) /\ supply' = supply
         /\ pc' \in Writing /\ write'.part = "receiver" /\ write'.address = Tx.to
         /\ write'.account = NewReceiver(Tx)
<1>1. pc = "blob" /\ write.part = "sender" /\ batch.txs # << >>
  BY Zenon DEF Debited, PersistAccountBlob, TypeInv, StateType, Writing
<1>2. Tx \in Txs /\ Tx' = Tx
  BY <1>1, HeadTail DEF Debited, TypeInv, StateType, Tx
<1>3. /\ write.address = Tx.from /\ ~Rejected(Tx) /\ write.account = NewSender(Tx)
      /\ write.credit = NewReceiver(Tx)
  BY <1>1, Zenon DEF WriteInv, Writing
<1>4. NewSender(Tx) \in Account
  BY <1>2, <1>3, TransferTypes, Zenon DEF TypeInv
<1>5. pc' \in Writing /\ write'.part = "receiver" /\ write'.address = Tx.to /\ write'.account = write.credit
  BY DEF Debited, Tx, Writing
<1> QED
  BY <1>1, <1>2, <1>3, <1>4, <1>5 DEF Debited, PersistAccountBlob, Running, Writing, Tx

LEMMA CreditedEffect ==
  ASSUME TypeInv, WriteInv, Credited
  PROVE  /\ Tx \in Txs /\ Running /\ pc \in Writing /\ write.part = "receiver"
         /\ write.address = Tx.to /\ write.account \in Account
         /\ account' = [account EXCEPT ![Tx.to] = write.account]
         /\ UNCHANGED <<applied, supply>> /\ pc' = "loop"
<1>1. pc = "blob" /\ write.part = "receiver" /\ batch.txs # << >> /\ write.account \in Account
  BY DEF Credited, PersistAccountBlob, TypeInv, StateType, Writing, Write
<1>2. Tx \in Txs /\ write.address = Tx.to
  BY <1>1, HeadTail, Zenon DEF TypeInv, StateType, Tx, WriteInv, Writing
<1> QED
  BY <1>1, <1>2 DEF Credited, PersistAccountBlob, Running, Writing

LEMMA NonceInvStep == TypeInv /\ WriteInv /\ NonceInv /\ [Next]_vars => NonceInv'
<1> SUFFICES ASSUME TypeInv, WriteInv, NonceInv, [Next]_vars PROVE NonceInv'
  OBVIOUS
<1>0. /\ applied \in Seq(Txs) /\ account \in [Addresses -> Account]
  BY DEF TypeInv, HistoryType, StateType
<1>1. CASE SameApplied
  BY <1>1 DEF SameApplied, NonceInv, NonceSpentOnce
<1>2. CASE Reseeded
  <2>1. applied' = << >> /\ ~ (pc' \in Writing /\ write'.part = "receiver")
    BY <1>2 DEF Reseeded, Running
  <2> QED
    BY <2>1 DEF NonceInv, NonceSpentOnce
<1>3. CASE Closed \/ \E gone \in SUBSET {"accounts", "jmt"} : ResetFails(gone)
  <2>1. ~Open' /\ applied' = applied
    BY <1>3, Zenon DEF Closed, ResetFails, Open, Running, Writing
  <2>2. ~ (pc' \in Writing /\ write'.part = "receiver")
    BY <2>1 DEF Open, Running
  <2> QED
    BY <2>1, <2>2 DEF NonceInv, NonceSpentOnce
<1>4. CASE Debited
  <2> DEFINE n == Len(applied)
  <2>1. /\ n \in Nat /\ Tx \in Txs /\ applied' = Append(applied, Tx)
        /\ DOMAIN applied = 1 .. n /\ DOMAIN applied' = 1 .. n + 1
        /\ applied'[n + 1] = Tx /\ \A i \in 1 .. n : applied'[i] = applied[i] /\ applied[i] \in Txs
    BY <1>0, <1>4, DebitedEffect, Appended
  <2>2. Tx.from \in Addresses /\ Tx.to \in Addresses /\ Tx.nonce \in Nat
    BY <2>1, TxType, Zenon
  <2>3. /\ account'[Tx.from].nonce = Tx.nonce + 1 /\ account[Tx.from].nonce = Tx.nonce
        /\ \A a \in Addresses \ {Tx.from} : account'[a] = account[a]
    BY <1>0, <1>4, <2>2, DebitedEffect DEF NewSender, Rejected
  <2>4. \A i \in 1 .. n : ~IsSelf(applied[i]) => applied[i].nonce < account[applied[i].from].nonce
    BY <1>4, <2>1, DebitedEffect, Zenon DEF NonceInv, Open
  <2>5. \A i \in 1 .. n : applied[i].nonce \in Nat /\ applied[i].from \in Addresses
    BY <2>1, TxType, Zenon
  <2>6. \A i \in 1 .. n + 1 : ~IsSelf(applied'[i]) => applied'[i].nonce < account'[applied'[i].from].nonce
    BY <2>1, <2>2, <2>3, <2>4, <2>5
  <2>7. write'.part = "receiver" /\ write'.address = Tx.to /\ write'.account.nonce = account[Tx.to].nonce
    BY <1>0, <1>4, <2>2, DebitedEffect, Zenon DEF NewReceiver, Account
  <2>8. \A i \in 1 .. n + 1 : ~IsSelf(applied'[i]) /\ applied'[i].from = write'.address =>
                                applied'[i].nonce < write'.account.nonce
    BY <2>1, <2>4, <2>7 DEF IsSelf
  <2>9. NonceSpentOnce'
    <3>1. \A i, j \in 1 .. n : /\ i # j /\ ~IsSelf(applied[i]) /\ ~IsSelf(applied[j])
                               /\ applied[i].from = applied[j].from
                               => applied[i].nonce # applied[j].nonce
      BY <2>1, Zenon DEF NonceInv, NonceSpentOnce
    <3>2. \A i \in 1 .. n : ~IsSelf(applied[i]) /\ applied[i].from = Tx.from => applied[i].nonce # Tx.nonce
      BY <2>2, <2>3, <2>4, <2>5
    <3> QED
      BY <2>1, <3>1, <3>2 DEF NonceSpentOnce
  <2> QED
    BY <2>1, <2>6, <2>8, <2>9, Zenon DEF NonceInv
<1>5. CASE Credited
  <2>1. /\ applied' = applied /\ DOMAIN applied = 1 .. Len(applied) /\ pc' = "loop"
        /\ \A i \in 1 .. Len(applied) : applied[i] \in Txs
    BY <1>0, <1>5, CreditedEffect
  <2>2. /\ Tx.to \in Addresses
    BY <1>5, CreditedEffect, TxType, Zenon
  <2>3. /\ account'[Tx.to] = write.account
        /\ \A a \in Addresses \ {Tx.to} : account'[a] = account[a]
    BY <1>0, <1>5, <2>2, CreditedEffect, Zenon
  <2>4. \A i \in 1 .. Len(applied) : ~IsSelf(applied[i]) =>
          /\ applied[i].nonce < account[applied[i].from].nonce
          /\ applied[i].from = Tx.to => applied[i].nonce < write.account.nonce
    BY <1>5, <2>1, CreditedEffect, Zenon DEF NonceInv, Open
  <2>5. \A i \in 1 .. Len(applied) : applied[i].from \in Addresses
    BY <2>1, TxType, Zenon
  <2>6. \A i \in 1 .. Len(applied) : ~IsSelf(applied[i]) => applied[i].nonce < account'[applied[i].from].nonce
    BY <2>3, <2>4, <2>5, Zenon
  <2> QED
    BY <2>1, <2>6 DEF NonceInv, NonceSpentOnce, Writing
<1> QED
  BY <1>1, <1>2, <1>3, <1>4, <1>5, AppliedSteps

\* Between two seedings a sender's nonce pays for one transfer to someone else, whatever batch it
\* is in and whatever error or crash cuts the writes short: the nonce is stored with the debit.
THEOREM NoncePaysOnce == Spec => []NonceSpentOnce
<1>1. Init => NonceInv
  BY DEF Init, NonceInv, NonceSpentOnce, Open, Running, Writing
<1>2. NonceInv => NonceSpentOnce
  BY DEF NonceInv
<1> QED
  BY <1>1, <1>2, NonceInvStep, TypeInvariant, WriteInvariant, PTL DEF Spec

-----------------------------------------------------------------------------
(* TxEngine implements Accounts, for every value of the constants. *)

GenesisAccount == [balance |-> GenesisBalance, nonce |-> 0]
CreditedSelf(tx) ==
  [balance |-> SaturatingAdd(account[tx.to].balance + tx.amount, tx.amount),
   nonce |-> account[tx.to].nonce - 1]

\* What is seeded is of genesis, and what the receiver's write undoes of the sender's when the
\* two are one account.
AccountsInv ==
  /\ todo \in Seq(Range(GenesisAccounts))
  /\ pc \in Writing =>
       /\ write.part = "seed" =>
            write.address \in Range(GenesisAccounts) /\ write.account = GenesisAccount
       /\ write.part = "receiver" =>
            VerifySignature(Tx) /\ (IsSelf(Tx) => write.account = CreditedSelf(Tx))

LEMMA GenesisSequence ==
  GenesisAccounts \in Seq(Range(GenesisAccounts)) /\ << >> \in Seq(Range(GenesisAccounts))
<1>1. ASSUME NEW S, NEW T, NEW s \in Seq(S), \A i \in DOMAIN s : s[i] \in T
      PROVE  s \in Seq(T)
  BY <1>1
<1>2. \A i \in DOMAIN GenesisAccounts : GenesisAccounts[i] \in Range(GenesisAccounts)
  BY Zenon DEF Range
<1> QED
  BY <1>1, <1>2, Constants

LEMMA TodoSteps ==
  ASSUME [Next]_vars
  PROVE  \/ todo' \in {todo, << >>, GenesisAccounts}
         \/ SeedAccount /\ todo' = Tail(todo)
<1>1. CASE UNCHANGED vars \/ Prove \/ PutLeafIndex \/ StoreNextLeafIndex \/ ExtendTree
  BY <1>1, Zenon DEF vars, Prove, PutLeafIndex, StoreNextLeafIndex, ExtendTree
<1>2. CASE Start \/ SeedAccount \/ SeedDone \/ ExecuteOnClosed \/ SkipTx \/ ApplyTx \/ BatchDone
  BY <1>2, Zenon DEF Start, SeedAccount, SeedDone, SeedingEnds, ExecuteOnClosed, SkipTx, ApplyTx,
                     BatchDone
<1>3. CASE Seeded \/ Debited \/ Credited \/ ResetToGenesis
  BY <1>3, Zenon DEF Seeded, Debited, Credited, ResetToGenesis
<1>4. CASE WriteFails \/ Crash
  BY <1>4, Zenon DEF WriteFails, SeedingEnds, Crash
<1>5. ASSUME NEW txs, NEW cap, ExecuteBatch(txs, cap) PROVE todo' = todo
  BY <1>5, Zenon DEF ExecuteBatch
<1>6. ASSUME NEW gone, ResetFails(gone) PROVE todo' = todo
  BY <1>6, Zenon DEF ResetFails
<1> QED
  BY <1>1, <1>2, <1>3, <1>4, <1>5, <1>6 DEF Next

\* What a debit leaves for the credit, when the sender is the receiver.
LEMMA DebitedSelf ==
  ASSUME StateType, WriteInv, Debited, IsSelf(Tx)
  PROVE  write.credit = [balance |-> SaturatingAdd(account'[Tx.to].balance + Tx.amount, Tx.amount),
                         nonce |-> account'[Tx.to].nonce - 1]
<1>1. /\ pc = "blob" /\ write.part = "sender" /\ batch.txs # << >>
      /\ account' = [account EXCEPT ![write.address] = write.account]
  BY DEF Debited, PersistAccountBlob, StateType, Writing
<1>2. /\ Tx \in Txs /\ write.address = Tx.from /\ ~Rejected(Tx)
      /\ write.account = NewSender(Tx) /\ write.credit = NewReceiver(Tx)
  BY <1>1, HeadTail, Zenon DEF WriteInv, Writing, StateType, Tx
<1>3. Tx.to \in Addresses /\ Tx.amount \in Int /\ Tx.from = Tx.to
  BY <1>2, TxType DEF IsSelf
<1>4. PICK x \in Account : x = account[Tx.to]
  BY <1>3, Zenon DEF StateType
<1>5. account'[Tx.to] = [balance |-> x.balance - Tx.amount, nonce |-> x.nonce + 1]
  BY <1>1, <1>2, <1>3, <1>4, Zenon DEF StateType, NewSender
<1>6. account'[Tx.to].balance = x.balance - Tx.amount /\ account'[Tx.to].nonce = x.nonce + 1
  BY <1>5
<1>7. x.balance \in Int /\ x.nonce \in Int /\ x \in [balance : 0 .. MaxBalance, nonce : Nat]
  BY <1>4, AccountType DEF Account
<1>8. account'[Tx.to].balance + Tx.amount = x.balance /\ account'[Tx.to].nonce - 1 = x.nonce
  BY <1>3, <1>6, <1>7
<1>9. NewReceiver(Tx) = [x EXCEPT !.balance = SaturatingAdd(@, Tx.amount)]
  BY <1>4, Zenon DEF NewReceiver
<1>10. \A b : [x EXCEPT !.balance = b] = [balance |-> b, nonce |-> x.nonce]
  BY <1>7
<1> QED
  BY <1>2, <1>7, <1>8, <1>9, <1>10, Zenon

LEMMA AccountsInvStep == TypeInv /\ WriteInv /\ AccountsInv /\ [Next]_vars => AccountsInv'
<1> SUFFICES ASSUME TypeInv, WriteInv, AccountsInv, [Next]_vars PROVE AccountsInv'
  OBVIOUS
<1>0. StateType
  BY DEF TypeInv
<1>1. todo' \in Seq(Range(GenesisAccounts))
  <2>1. SeedAccount => Tail(todo) \in Seq(Range(GenesisAccounts))
    BY HeadTail, Zenon DEF SeedAccount, AccountsInv
  <2> QED
    BY <2>1, TodoSteps, GenesisSequence, Zenon DEF AccountsInv
<1>2. CASE SameWrite
  BY <1>1, <1>2, Zenon DEF SameWrite, AccountsInv, Tx, CreditedSelf
<1>3. CASE NoneUnderWay
  BY <1>1, <1>3, Zenon DEF NoneUnderWay, AccountsInv
<1>4. CASE SeedAccount
  <2>1. Head(todo) \in Range(GenesisAccounts)
    BY <1>4, HeadTail, Zenon DEF SeedAccount, AccountsInv
  <2>2. write'.part = "seed" /\ write'.address = Head(todo) /\ write'.account = GenesisAccount
    BY <1>4, Zenon DEF SeedAccount, SetAccount, GenesisAccount
  <2> QED
    BY <1>1, <2>1, <2>2, Zenon DEF AccountsInv
<1>5. CASE ApplyTx
  <2>1. write'.part = "sender"
    BY <1>5, Zenon DEF ApplyTx, SetAccount
  <2> QED
    BY <1>1, <2>1, Zenon DEF AccountsInv
<1>6. CASE Debited
  <2>1. write'.part = "receiver" /\ write'.account = write.credit /\ Tx' = Tx
    BY <1>6, Zenon DEF Debited, Tx
  <2>2. VerifySignature(Tx)
    BY <1>6, Zenon DEF Debited, PersistAccountBlob, Writing, WriteInv, Rejected
  <2>3. IsSelf(Tx) => write'.account = CreditedSelf(Tx)'
    BY <1>0, <1>6, <2>1, DebitedSelf, Zenon DEF CreditedSelf
  <2> QED
    BY <1>1, <2>1, <2>2, <2>3, Zenon DEF AccountsInv
<1> QED
  BY <1>2, <1>3, <1>4, <1>5, <1>6, WriteSteps

LEMMA AccountsInvariant == Spec => []AccountsInv
<1>1. Init => AccountsInv
  BY GenesisSequence, Zenon DEF Init, AccountsInv, Writing
<1> QED
  BY <1>1, AccountsInvStep, TypeInvariant, WriteInvariant, PTL DEF Spec

LEMMA AccountsInit == Init => Abstract!Init
<1> SUFFICES ASSUME Init PROVE Abstract!Init
  OBVIOUS
<1>1. Owed = {}
  BY DEF Init, Owed, Writing
<1> QED
  BY <1>1, Zenon DEF Init, Abstract!Init, Abstract!Empty, Default

\* What a step does to the accounts, and to the transfer that is owed.
Unmoved == account' = account /\ Owed' = Owed
Forgotten == account' = account /\ Owed' = {}
Wiped == account' = [a \in Addresses |-> Default] /\ Owed = {} /\ Owed' = {}

LEMMA AccountSteps ==
  ASSUME [Next]_vars
  PROVE  Unmoved \/ Forgotten \/ Wiped \/ Seeded \/ Debited \/ Credited
<1> USE DEF Writing
<1>1. CASE UNCHANGED vars
  <2>1. UNCHANGED <<account, pc, write, batch>>
    BY <1>1, Zenon DEF vars, dbVars
  <2> QED
    BY <2>1, Zenon DEF Unmoved, Owed
<1>2. CASE PutLeafIndex \/ StoreNextLeafIndex \/ ExtendTree
  <2>1. UNCHANGED <<account, write, batch>> /\ pc \in Writing /\ pc' \in Writing
    BY <1>2, Zenon DEF PutLeafIndex, StoreNextLeafIndex, ExtendTree
  <2> QED
    BY <2>1, Zenon DEF Unmoved, Owed
<1>3. CASE Prove
  <2>1. UNCHANGED <<account, pc, write, batch>>
    BY <1>3, Zenon DEF Prove, dbVars
  <2> QED
    BY <2>1, Zenon DEF Unmoved, Owed
<1>4. CASE Start \/ SeedDone \/ ExecuteOnClosed \/ SkipTx \/ BatchDone
  BY <1>4 DEF Forgotten, Owed, Start, SeedDone, SeedingEnds, ExecuteOnClosed, SkipTx, BatchDone,
              dbVars
<1>5. CASE SeedAccount \/ ApplyTx
  <2>1. account' = account /\ write'.part \in {"seed", "sender"}
    BY <1>5 DEF SeedAccount, ApplyTx, SetAccount, dbVars
  <2> QED
    BY <2>1, Zenon DEF Forgotten, Owed
<1>6. ASSUME NEW txs, NEW cap, ExecuteBatch(txs, cap) PROVE Forgotten
  BY <1>6 DEF Forgotten, Owed, ExecuteBatch, dbVars
<1>7. CASE ResetToGenesis
  BY <1>7 DEF Wiped, Owed, ResetToGenesis, NewDatabases
<1>8. ASSUME NEW gone, ResetFails(gone) PROVE Wiped \/ Forgotten
  BY <1>8 DEF Wiped, Forgotten, Owed, ResetFails
<1>9. CASE WriteFails \/ Crash
  BY <1>9 DEF Forgotten, Owed, WriteFails, Crash, Cut, SeedingEnds, dbVars
<1> QED
  BY <1>1, <1>2, <1>3, <1>4, <1>5, <1>6, <1>7, <1>8, <1>9 DEF Next

LEMMA AccountsStep ==
  ASSUME TypeInv, WriteInv, AccountsInv, [Next]_vars
  PROVE  Abstract!Next \/ UNCHANGED Abstract!vars
<1>0. StateType
  BY DEF TypeInv
<1>1. CASE Unmoved
  BY <1>1, Zenon DEF Unmoved, Abstract!vars
<1>2. CASE Forgotten
  <2>1. CASE Owed = {}
    BY <1>2, <2>1, Zenon DEF Forgotten, Abstract!vars
  <2>2. CASE Owed # {}
    BY <1>2, <2>2, Zenon DEF Forgotten, Abstract!Lose, Abstract!Next
  <2> QED
    BY <2>1, <2>2
<1>3. CASE Wiped
  BY <1>3, Zenon DEF Wiped, Abstract!Wipe, Abstract!Empty, Abstract!Next, Default
<1>4. ASSUME PersistAccountBlob
      PROVE  /\ pc = "blob" /\ pc \in Writing
             /\ account' = [account EXCEPT ![write.address] = write.account]
  BY <1>4, Zenon DEF PersistAccountBlob, Writing
<1>5. CASE Seeded
  <2>1. write.part = "seed" /\ PersistAccountBlob /\ pc' \notin Writing
    BY <1>5 DEF Seeded, Writing
  <2>2. write.address \in Range(GenesisAccounts) /\ write.account = GenesisAccount
    BY <1>4, <2>1, Zenon DEF AccountsInv
  <2>3. Owed = {} /\ Owed' = {}
    BY <2>1, Zenon DEF Owed
  <2>4. Abstract!Seed(write.address)
    BY <1>4, <2>1, <2>2, <2>3, Zenon DEF Abstract!Seed, GenesisAccount
  <2> QED
    BY <2>2, <2>4, Zenon DEF Abstract!Next
<1>6. CASE Debited
  <2>1. /\ write.part = "sender" /\ PersistAccountBlob /\ pc' \in Writing
        /\ write'.part = "receiver" /\ batch' = batch
    BY <1>6 DEF Debited, Writing
  <2>2. /\ write.address = Tx.from /\ ~Rejected(Tx) /\ write.account = NewSender(Tx)
    BY <1>4, <2>1, Zenon DEF WriteInv
  <2>3. Tx \in {t \in Txs : VerifySignature(t)}
    BY <1>0, <1>4, <2>1, <2>2, HeadTail, Zenon DEF StateType, Tx, Rejected
  <2>4. Owed = {} /\ Owed' = {Tx}
    BY <2>1, Zenon DEF Owed, Tx
  <2>5. account[Tx.from].nonce = Tx.nonce /\ account[Tx.from].balance >= Tx.amount
    <3>1. account[Tx.from] \in Account
      BY <1>0, <2>3, TxType, Zenon DEF StateType
    <3>2. account[Tx.from].balance \in Int /\ Tx.amount \in Int
      BY <2>3, <3>1, TxType, AccountType
    <3>3. account[Tx.from].nonce = Tx.nonce /\ ~(account[Tx.from].balance < Tx.amount)
      BY <2>2, Zenon DEF Rejected
    <3> QED
      BY <3>2, <3>3
  <2>6. Abstract!Debit(Tx)
    BY <1>4, <2>1, <2>2, <2>4, <2>5, Zenon DEF Abstract!Debit, NewSender
  <2> QED
    BY <2>3, <2>6, Zenon DEF Abstract!Next
<1>7. CASE Credited
  <2>1. write.part = "receiver" /\ PersistAccountBlob /\ pc' \notin Writing
    BY <1>7 DEF Credited, Writing
  <2>2. /\ write.address = Tx.to /\ (~IsSelf(Tx) => write.account = NewReceiver(Tx))
        /\ (IsSelf(Tx) => write.account = CreditedSelf(Tx))
    BY <1>4, <2>1, Zenon DEF WriteInv, AccountsInv
  <2>3. Tx \in {t \in Txs : VerifySignature(t)}
    BY <1>0, <1>4, <2>1, HeadTail, Zenon DEF StateType, Tx, AccountsInv
  <2>4. Owed = {Tx} /\ Owed' = {}
    BY <1>4, <2>1, Zenon DEF Owed, Tx
  <2>5. \A x, y : SaturatingAdd(x, y) = Abstract!Capped(x + y)
    BY Zenon DEF SaturatingAdd, Abstract!Capped
  <2>6. CASE IsSelf(Tx)
    <3>1. Abstract!CreditSelf(Tx)
      BY <1>4, <2>1, <2>2, <2>4, <2>5, <2>6, Zenon DEF Abstract!CreditSelf, CreditedSelf, IsSelf
    <3> QED
      BY <2>3, <3>1, Zenon DEF Abstract!Next
  <2>7. CASE ~IsSelf(Tx)
    <3>1. account' = [account EXCEPT ![Tx.to] =
                        [account[Tx.to] EXCEPT !.balance = Abstract!Capped(@ + Tx.amount)]]
      BY <1>4, <2>1, <2>2, <2>5, <2>7, Zenon DEF NewReceiver
    <3>2. account' = [account EXCEPT ![Tx.to].balance = Abstract!Capped(@ + Tx.amount)]
      BY <3>1, Zenon
    <3>3. Abstract!Credit(Tx)
      BY <2>4, <2>7, <3>2, Zenon DEF Abstract!Credit, IsSelf
    <3> QED
      BY <2>3, <3>3, Zenon DEF Abstract!Next
  <2> QED
    BY <2>6, <2>7
<1> QED
  BY <1>1, <1>2, <1>3, <1>5, <1>6, <1>7, AccountSteps

\* The engine implements the accounts: for any addresses, transfers, genesis and batches, each
\* durable write, error, crash and reset is one of the steps of Accounts or leaves the accounts
\* and what is owed as they were.
THEOREM EngineImplementsAccounts == Spec => ImplementsAccounts
<1>1. Init => Abstract!Init
  BY AccountsInit
<1>2. TypeInv /\ WriteInv /\ AccountsInv /\ [Next]_vars => [Abstract!Next]_(Abstract!vars)
  BY AccountsStep
<1> QED
  BY <1>1, <1>2, TypeInvariant, WriteInvariant, AccountsInvariant, PTL
  DEF Spec, ImplementsAccounts, Abstract!Spec
=============================================================================
