----------------------------- MODULE Submitter -----------------------------
(***************************************************************************)
(* The submitter daemon (submitter/src/daemon.rs), its SQLite outbox       *)
(* (submitter/src/saga.rs) and the data availability strategies that       *)
(* broadcast a batch (submitter/src/infrastructure/da_*.rs).               *)
(*                                                                         *)
(* The daemon is one task.  It is modelled at the granularity of its       *)
(* awaits and of its durable writes, because a crash can fall between any  *)
(* two of them: pc names the next one.  The outbox rows and the batch      *)
(* files survive a crash; everything else the daemon holds does not.       *)
(*                                                                         *)
(* The L1 node is external.  A wallet sends with the nonce the chain       *)
(* expects next, so at most one transaction of the daemon waits in the     *)
(* pool, and a transaction with a used nonce is refused.                   *)
(***************************************************************************)
EXTENDS Integers, Sequences

CONSTANTS
  BatchIds,       \* ids the executor's stream gives to its batches
  NoBatch,        \* the daemon works on no batch
  GasPrice,       \* price of a first submission
  OutboxMayFail,  \* an outbox statement may return an error
  DiskMayFail,    \* the batch file may not be written or removed
  MaxSubmissions, \* bound: transactions broadcast before the last submission
  MaxTxs,         \* bound: transactions broadcast, gas bumps included
  MaxReorgs       \* bound: L1 blocks taken back

ASSUME SubmitterAssumption ==
  /\ NoBatch \notin BatchIds
  /\ GasPrice \in Nat \ {0}
  /\ {OutboxMayFail, DiskMayFail} \subseteq BOOLEAN
  /\ {MaxSubmissions, MaxTxs, MaxReorgs} \subseteq Nat /\ MaxSubmissions <= MaxTxs

VARIABLES
  \* batch_outbox, one row per batch id, and the batch files
  state,     \* SagaState, or "none" when there is no row
  txHash,    \* the row's transaction; 0: NULL, or the unparsable simulated hash
  price,     \* original_gas_price; 0: NULL
  stale,     \* last_updated is more than five minutes ago
  older,     \* pairs of rows, the first with the smaller last_updated
  files,     \* batches whose batch_{id}.bin exists
  offChainOnly, \* the configuration says VerificationMode::OffChainOnly
  \* the daemon's volatile state
  pc, cur, tx,
  todo,      \* unconfirmed rows the recovery loop has still to look at
  resume,    \* batches_to_resume
  \* L1
  sent,      \* every transaction broadcast, in order
  pool,      \* the one waiting to be included, or 0
  mined,     \* the included ones: [tx, ok]
  reorgs,
  \* history
  lifeStart,  \* transactions broadcast before the daemon's last crash
  everMined   \* transactions that have been in a block

rowVars == <<state, txHash, price, stale, older>>
daemonVars == <<pc, cur, tx, todo, resume>>
l1Vars == <<sent, pool, mined, reorgs, everMined>>
vars == <<rowVars, files, offChainOnly, daemonVars, l1Vars, lifeStart>>

SagaStates == {"ReceivedFromExecutor", "Compressed", "SubmittedToL1", "ConfirmedOnL1", "Failed"}
TxIds == 1 .. MaxTxs
\* bump: a gas bump rather than a submission.
Tx == [batch : BatchIds, gas : Nat, nonce : Nat, bump : BOOLEAN]
Pcs == {"down", "recover", "bumped", "resume", "resumeAwait", "resumeRecord",
        "resumeConfirm", "idle", "write", "compress",
        "offchain", "submit", "await", "record", "confirm", "cleanup"}

TypeOK ==
  /\ state \in [BatchIds -> SagaStates \cup {"none"}]
  /\ txHash \in [BatchIds -> 0 .. MaxTxs]
  /\ price \in [BatchIds -> Nat]
  /\ stale \in [BatchIds -> BOOLEAN]
  /\ older \in SUBSET (BatchIds \X BatchIds)
  /\ files \in SUBSET BatchIds /\ offChainOnly \in BOOLEAN
  /\ pc \in Pcs
  /\ cur \in BatchIds \cup {NoBatch}
  /\ pc \in Pcs \ {"down", "recover", "resume", "idle"} => cur \in BatchIds
  /\ tx \in 0 .. MaxTxs
  /\ todo \in SUBSET BatchIds /\ resume \in Seq(BatchIds)
  /\ sent \in Seq(Tx) /\ Len(sent) <= MaxTxs
  /\ pool \in 0 .. Len(sent) /\ tx <= Len(sent)
  /\ \A b \in BatchIds : txHash[b] <= Len(sent)
  /\ mined \in Seq([tx : 1 .. Len(sent), ok : BOOLEAN])
  /\ reorgs \in 0 .. MaxReorgs
  /\ lifeStart \in 0 .. Len(sent)
  /\ everMined \subseteq 1 .. Len(sent)

Init ==
  /\ state = [b \in BatchIds |-> "none"]
  /\ txHash = [b \in BatchIds |-> 0]
  /\ price = [b \in BatchIds |-> 0]
  /\ stale = [b \in BatchIds |-> FALSE]
  /\ older = {}
  /\ files = {} /\ offChainOnly \in BOOLEAN
  /\ pc = "down" /\ cur = NoBatch /\ tx = 0
  /\ todo = {} /\ resume = << >>
  /\ sent = << >> /\ pool = 0 /\ mined = << >> /\ reorgs = 0 /\ everMined = {}
  /\ lifeStart = 0

-----------------------------------------------------------------------------
(* The outbox (saga.rs).  A key that is no row's updates nothing. *)

Touch(key) ==
  older' = {p \in older : p[1] # key}
             \cup ({b \in BatchIds \ {key} : state[b] # "none"} \X {key})

\* As if the statement were INSERT OR REPLACE.
InsertReplacing(key) ==
  /\ state' = [state EXCEPT ![key] = "ReceivedFromExecutor"]
  /\ txHash' = [txHash EXCEPT ![key] = 0]
  /\ price' = [price EXCEPT ![key] = 0]
  /\ stale' = [stale EXCEPT ![key] = FALSE]
  /\ Touch(key)
  /\ pc' = "write" /\ cur' = key

\* insert_or_ignore, and what the daemon does with its answer: go on with a new
\* row, skip the batch when the row was there.
InsertOrIgnore(key) ==
  \/ /\ state[key] = "none"
     /\ state' = [state EXCEPT ![key] = "ReceivedFromExecutor"]
     /\ Touch(key)
     /\ pc' = "write" /\ cur' = key
     /\ UNCHANGED <<txHash, price, stale>>
  \/ /\ state[key] # "none"
     /\ UNCHANGED <<rowVars, pc, cur>>

UpdateState(key, s) ==
  IF key \in BatchIds /\ state[key] # "none"
    THEN /\ state' = [state EXCEPT ![key] = s]
         /\ stale' = [stale EXCEPT ![key] = FALSE]
         /\ Touch(key)
         /\ UNCHANGED <<txHash, price>>
    ELSE UNCHANGED rowVars

\* update_submission: a price of 0 (None) keeps the stored one.
UpdateSubmission(key, t, p) ==
  IF key \in BatchIds /\ state[key] # "none"
    THEN /\ state' = [state EXCEPT ![key] = "SubmittedToL1"]
         /\ txHash' = [txHash EXCEPT ![key] = t]
         /\ price' = [price EXCEPT ![key] = IF p = 0 THEN @ ELSE p]
         /\ stale' = [stale EXCEPT ![key] = FALSE]
         /\ Touch(key)
    ELSE UNCHANGED rowVars

GetUnconfirmedBatches ==
  {b \in BatchIds : state[b] \in {"ReceivedFromExecutor", "Compressed", "SubmittedToL1"}}

-----------------------------------------------------------------------------
(* L1 (external): one wallet, one transaction per nonce. *)

Included(t) == \E i \in 1 .. Len(mined) : mined[i].tx = t
NextNonce == Len(mined) + 1

\* eth_sendRawTransaction takes the transaction; one waiting with that nonce is
\* replaced.
Broadcast(b, gas, bump) ==
  /\ Len(sent) < IF bump THEN MaxTxs ELSE MaxSubmissions
  /\ sent' = Append(sent, [batch |-> b, gas |-> gas, nonce |-> NextNonce,
                           bump |-> bump])
  /\ pool' = Len(sent) + 1
  /\ tx' = Len(sent) + 1
  /\ UNCHANGED <<mined, reorgs, everMined>>

\* The waiting transaction is included; commitBatch may revert.
Mine(ok) ==
  /\ pool # 0
  /\ mined' = Append(mined, [tx |-> pool, ok |-> ok])
  /\ everMined' = everMined \cup {pool}
  /\ pool' = 0
  /\ UNCHANGED <<rowVars, files, daemonVars, sent, reorgs, offChainOnly, lifeStart>>

\* The node forgets the waiting transaction.
Evict ==
  /\ pool # 0
  /\ pool' = 0
  /\ UNCHANGED <<rowVars, files, daemonVars, sent, mined, reorgs, everMined, offChainOnly, lifeStart>>

\* The newest block is taken back; its transaction waits again.
Reorg ==
  /\ mined # << >> /\ pool = 0 /\ reorgs < MaxReorgs
  /\ pool' = mined[Len(mined)].tx
  /\ mined' = SubSeq(mined, 1, Len(mined) - 1)
  /\ reorgs' = reorgs + 1
  /\ UNCHANGED <<rowVars, files, daemonVars, sent, everMined, offChainOnly, lifeStart>>

\* Five minutes pass since a row was submitted.
Age(b) ==
  /\ state[b] = "SubmittedToL1" /\ ~stale[b]
  /\ stale' = [stale EXCEPT ![b] = TRUE]
  /\ UNCHANGED <<state, txHash, price, older, files, daemonVars, l1Vars, offChainOnly, lifeStart>>

-----------------------------------------------------------------------------
(* The main loop (daemon.rs, run). *)

\* next_batch delivers b, perhaps again.  A known row is skipped: get_record sees it,
\* or insert_or_ignore does when that query fails.  When the insert fails the batch
\* is dropped, which changes nothing.
Fetch(b) ==
  /\ pc = "idle"
  /\ InsertOrIgnore(b)
  /\ UNCHANGED <<files, tx, todo, resume, l1Vars, offChainOnly, lifeStart>>

\* continue: the batch is left as it is.
Abandon == pc' = "idle" /\ cur' = NoBatch /\ tx' = 0

WriteFile ==
  /\ pc = "write"
  /\ \/ files' = files \cup {cur} /\ pc' = "compress" /\ UNCHANGED <<cur, tx>>
     \/ DiskMayFail /\ Abandon /\ UNCHANGED files
  /\ UNCHANGED <<rowVars, todo, resume, l1Vars, offChainOnly, lifeStart>>

\* An outbox update whose error is only logged.
OrLogged(update) == update \/ (OutboxMayFail /\ UNCHANGED rowVars)

Compress ==
  /\ pc = "compress"
  /\ OrLogged(UpdateState(cur, "Compressed"))
  /\ pc' = IF offChainOnly THEN "offchain" ELSE "submit"
  /\ UNCHANGED <<files, cur, tx, todo, resume, l1Vars, offChainOnly, lifeStart>>

SubmitOffChain ==
  /\ pc = "offchain"
  /\ OrLogged(UpdateSubmission(cur, 0, 0))
  /\ pc' = "confirm"
  /\ UNCHANGED <<files, cur, tx, todo, resume, l1Vars, offChainOnly, lifeStart>>

\* DaStrategy::submit up to the broadcast: the file is read, the call sent.
Submit ==
  /\ pc = "submit" /\ cur \in files
  /\ Broadcast(cur, GasPrice, FALSE)
  /\ pc' = "await"
  /\ UNCHANGED <<rowVars, files, cur, todo, resume, offChainOnly, lifeStart>>

\* Any error before the broadcast: unreadable file, archiver, gas estimation, node.
SubmitError ==
  /\ pc = "submit"
  /\ Abandon
  /\ UNCHANGED <<rowVars, files, todo, resume, l1Vars, offChainOnly, lifeStart>>

\* As if the transaction hash were taken for a receipt.
AwaitReceiptUnmined ==
  /\ pc = "await"
  /\ pc' = "record"
  /\ UNCHANGED <<rowVars, files, cur, tx, todo, resume, l1Vars, offChainOnly, lifeStart>>

\* pending.await gives a receipt; its status is not looked at.
AwaitReceipt ==
  /\ pc = "await" /\ Included(tx)
  /\ pc' = "record"
  /\ UNCHANGED <<rowVars, files, cur, tx, todo, resume, l1Vars, offChainOnly, lifeStart>>

\* As if a dropped transaction were polled for for ever.
AwaitDroppedPolls ==
  /\ pc = "await" /\ ~Included(tx) /\ pool # tx
  /\ UNCHANGED vars

\* "Dropped": the transaction is unknown to the node.
AwaitDropped ==
  /\ pc = "await" /\ ~Included(tx) /\ pool # tx
  /\ Abandon
  /\ UNCHANGED <<rowVars, files, todo, resume, l1Vars, offChainOnly, lifeStart>>

\* As if the error path cleaned up like the other one.
AwaitErrorCleansUp ==
  /\ pc = "await"
  /\ Abandon
  /\ files' = files \ {cur}
  /\ UNCHANGED <<rowVars, todo, resume, l1Vars, offChainOnly, lifeStart>>

\* "Receipt failed": the node answers a poll with an error.
AwaitError ==
  /\ pc = "await"
  /\ Abandon
  /\ UNCHANGED <<rowVars, files, todo, resume, l1Vars, offChainOnly, lifeStart>>

\* get_transaction may not answer: then no original price is stored.
Record ==
  /\ pc = "record"
  /\ \E known \in BOOLEAN :
       OrLogged(UpdateSubmission(cur, tx, IF known THEN sent[tx].gas ELSE 0))
  /\ pc' = "confirm"
  /\ UNCHANGED <<files, cur, tx, todo, resume, l1Vars, offChainOnly, lifeStart>>

Confirm ==
  /\ pc = "confirm"
  /\ OrLogged(UpdateState(cur, "ConfirmedOnL1"))
  /\ pc' = "cleanup"
  /\ UNCHANGED <<files, cur, tx, todo, resume, l1Vars, offChainOnly, lifeStart>>

Cleanup ==
  /\ pc = "cleanup"
  /\ files' = files \ {cur} \/ (DiskMayFail /\ UNCHANGED files)
  /\ Abandon
  /\ UNCHANGED <<rowVars, todo, resume, l1Vars, offChainOnly, lifeStart>>

-----------------------------------------------------------------------------
(* Start-up and recovery (daemon.rs, run). *)

\* get_unconfirmed_batches; an error skips recovery.
Start ==
  /\ pc = "down"
  /\ pc' = "recover"
  /\ todo' = GetUnconfirmedBatches \/ (OutboxMayFail /\ todo' = {})
  /\ UNCHANGED <<rowVars, files, cur, tx, resume, l1Vars, offChainOnly, lifeStart>>

\* As if the rows came ORDER BY last_updated DESC.
Newest(b) == b \in todo /\ \A c \in todo : <<b, c>> \notin older

\* The record the loop is at: the rows come ORDER BY last_updated.
Oldest(b) == b \in todo /\ \A c \in todo : <<c, b>> \notin older

\* As if only a fresh row were queued.
RecoverReceivedOnly(b) ==
  /\ pc = "recover" /\ Oldest(b)
  /\ state[b] \in {"ReceivedFromExecutor", "Compressed"}
  /\ resume' = IF state[b] = "Compressed" THEN resume ELSE Append(resume, b)
  /\ todo' = todo \ {b}
  /\ UNCHANGED <<rowVars, files, pc, cur, tx, l1Vars, offChainOnly, lifeStart>>

\* A fresh row or a compressed one is queued for submission.
RecoverInterrupted(b) ==
  /\ pc = "recover" /\ Oldest(b)
  /\ state[b] \in {"ReceivedFromExecutor", "Compressed"}
  /\ resume' = Append(resume, b)
  /\ todo' = todo \ {b}
  /\ UNCHANGED <<rowVars, files, pc, cur, tx, l1Vars, offChainOnly, lifeStart>>

\* The row names a transaction the node knows, and is more than five minutes old.
Stuck(b) == /\ state[b] = "SubmittedToL1" /\ stale[b] /\ txHash[b] # 0
            /\ txHash[b] = pool \/ Included(txHash[b])

\* As if there were no cap.
BumpedPriceUncapped(current, original) == current + current \div 5

\* 20% more, but no more than three times the original price where it is known.
BumpedPrice(current, original) ==
  LET p == current + current \div 5
  IN  IF original # 0 /\ p > 3 * original THEN 3 * original ELSE p

AtCap(current, original) ==
  /\ original # 0 /\ current + current \div 5 > 3 * original
  /\ current >= (3 * original * 99) \div 100

\* The cap was reached before: the batch is given up.
RecoverGiveUp(b) ==
  /\ pc = "recover" /\ Oldest(b) /\ Stuck(b)
  /\ AtCap(sent[txHash[b]].gas, price[b])
  /\ OrLogged(UpdateState(b, "Failed"))
  /\ todo' = todo \ {b}
  /\ UNCHANGED <<files, pc, cur, tx, resume, l1Vars, offChainOnly, lifeStart>>

\* As if the wallet chose the nonce of a bump.
RecoverBumpFreshNonce(b) ==
  LET t == txHash[b]
      p == BumpedPrice(sent[t].gas, price[b])
  IN  /\ pc = "recover" /\ Oldest(b) /\ Stuck(b)
      /\ ~AtCap(sent[t].gas, price[b])
      /\ p > sent[t].gas
      /\ Broadcast(b, p, TRUE)
      /\ pc' = "bumped" /\ cur' = b
      /\ todo' = todo \ {b}
      /\ UNCHANGED <<rowVars, files, resume, offChainOnly, lifeStart>>

\* The node takes the replacement: the nonce is still free and it pays more.
RecoverBump(b) ==
  LET t == txHash[b]
      p == BumpedPrice(sent[t].gas, price[b])
  IN  /\ pc = "recover" /\ Oldest(b) /\ Stuck(b)
      /\ ~AtCap(sent[t].gas, price[b])
      /\ sent[t].nonce = NextNonce /\ p > sent[t].gas
      /\ Broadcast(b, p, TRUE)
      /\ pc' = "bumped" /\ cur' = b
      /\ todo' = todo \ {b}
      /\ UNCHANGED <<rowVars, files, resume, offChainOnly, lifeStart>>

\* Nothing is done: the row is young, its transaction is unknown, or the node
\* refuses the replacement (the nonce of an included transaction is used).
RecoverSkip(b) ==
  /\ pc = "recover" /\ Oldest(b) /\ state[b] = "SubmittedToL1"
  /\ Stuck(b) => ~AtCap(sent[txHash[b]].gas, price[b])
  /\ todo' = todo \ {b}
  /\ UNCHANGED <<rowVars, files, pc, cur, tx, resume, l1Vars, offChainOnly, lifeStart>>

\* The bump is stored, with no price.
RecordBump ==
  /\ pc = "bumped"
  /\ OrLogged(UpdateSubmission(cur, tx, 0))
  /\ pc' = "recover" /\ cur' = NoBatch /\ tx' = 0
  /\ UNCHANGED <<files, todo, resume, l1Vars, offChainOnly, lifeStart>>

RecoverDone ==
  /\ pc = "recover" /\ todo = {}
  /\ pc' = "resume"
  /\ UNCHANGED <<rowVars, files, cur, tx, todo, resume, l1Vars, offChainOnly, lifeStart>>

\* A queued batch is submitted again, from its stored proof and its file.
Resubmit ==
  /\ pc = "resume" /\ resume # << >> /\ Head(resume) \in files
  /\ cur' = Head(resume)
  /\ Broadcast(Head(resume), GasPrice, FALSE)
  /\ pc' = "resumeAwait"
  /\ resume' = Tail(resume)
  /\ UNCHANGED <<rowVars, files, todo, offChainOnly, lifeStart>>

ResubmitError ==
  /\ pc = "resume" /\ resume # << >>
  /\ resume' = Tail(resume)
  /\ UNCHANGED <<rowVars, files, pc, cur, tx, todo, l1Vars, offChainOnly, lifeStart>>

\* The id stored in the batch is a fresh UUID, not the row's key.
ResumedKey(b) == NoBatch

ResubmitReceipt ==
  /\ pc = "resumeAwait" /\ Included(tx)
  /\ pc' = "resumeRecord"
  /\ UNCHANGED <<rowVars, files, cur, tx, todo, resume, l1Vars, offChainOnly, lifeStart>>

ResubmitRecord ==
  /\ pc = "resumeRecord"
  /\ UpdateSubmission(ResumedKey(cur), tx, sent[tx].gas)
  /\ pc' = "resumeConfirm"
  /\ UNCHANGED <<files, cur, tx, todo, resume, l1Vars, offChainOnly, lifeStart>>

\* The next resumed batch is taken up.
NextResumed == pc' = "resume" /\ cur' = NoBatch /\ tx' = 0

ResubmitConfirm ==
  /\ pc = "resumeConfirm"
  /\ UpdateState(ResumedKey(cur), "ConfirmedOnL1")
  /\ NextResumed
  /\ UNCHANGED <<files, todo, resume, l1Vars, offChainOnly, lifeStart>>

ResubmitDropped ==
  /\ pc = "resumeAwait" /\ ~Included(tx) /\ pool # tx
  /\ NextResumed
  /\ UNCHANGED <<rowVars, files, todo, resume, l1Vars, offChainOnly, lifeStart>>

ResubmitAwaitError ==
  /\ pc = "resumeAwait"
  /\ NextResumed
  /\ UNCHANGED <<rowVars, files, todo, resume, l1Vars, offChainOnly, lifeStart>>

\* "Waiting for batches..."
ResumeDone ==
  /\ pc = "resume" /\ resume = << >>
  /\ pc' = "idle"
  /\ UNCHANGED <<rowVars, files, cur, tx, todo, resume, l1Vars, offChainOnly, lifeStart>>

\* The process dies: what it held in memory is gone.
Crash ==
  /\ pc # "down"
  /\ lifeStart' = Len(sent)
  /\ pc' = "down" /\ cur' = NoBatch /\ tx' = 0 /\ todo' = {} /\ resume' = << >>
  /\ UNCHANGED <<rowVars, files, offChainOnly, l1Vars>>

\* Everything the daemon's task does of its own accord.
Daemon ==
  \/ WriteFile \/ Compress \/ SubmitOffChain \/ Submit \/ SubmitError
  \/ AwaitReceipt \/ AwaitDropped \/ Record \/ Confirm \/ Cleanup
  \/ RecordBump \/ RecoverDone
  \/ Resubmit \/ ResubmitError \/ ResubmitReceipt \/ ResubmitRecord \/ ResubmitConfirm
  \/ ResubmitDropped \/ ResumeDone
  \/ \E b \in BatchIds : \/ RecoverInterrupted(b) \/ RecoverGiveUp(b)
                         \/ RecoverBump(b) \/ RecoverSkip(b)

Next ==
  \/ Daemon
  \/ \E b \in BatchIds : Fetch(b) \/ Age(b)
  \/ AwaitError \/ ResubmitAwaitError \/ Crash \/ Start
  \/ (\E ok \in BOOLEAN : Mine(ok)) \/ Evict \/ Reorg

Spec == Init /\ [][Next]_vars

\* The daemon's task keeps running while the process is up, and L1 includes what
\* waits.  Nothing obliges anyone to start the daemon again, the stream to deliver,
\* or the node to fail.
FairSpec == Spec /\ WF_vars(Daemon) /\ WF_vars(\E ok \in BOOLEAN : Mine(ok))

-----------------------------------------------------------------------------
(* Properties. *)

Rank(s) == CASE s = "none" -> 0 [] s = "ReceivedFromExecutor" -> 1 [] s = "Compressed" -> 2
             [] s = "SubmittedToL1" -> 3 [] OTHER -> 4

Forward ==
  \A b \in BatchIds : Rank(state'[b]) > Rank(state[b]) \/ state'[b] = state[b]

\* The saga only moves forward: whatever is delivered again, bumped or resumed
\* after a crash, no row is lost, reopened or set back, and CONFIRMED_ON_L1 and
\* FAILED are final.
SagaForward == [][Forward]_vars

\* Within one life of the daemon a batch is submitted at most once, however often
\* the stream delivers it: the dedup check, insert_or_ignore and the recovery
\* queue never both pick it up.
OneSubmissionPerLife ==
  \A s, t \in lifeStart + 1 .. Len(sent) :
    /\ sent[s].batch = sent[t].batch
    /\ ~sent[s].bump /\ ~sent[t].bump
    => s = t

\* A row is CONFIRMED_ON_L1 only after a transaction of that batch was in a block
\* (unless nothing goes on chain): the state follows the receipt.
ConfirmedWasIncluded ==
  \A b \in BatchIds :
    state[b] = "ConfirmedOnL1" /\ ~offChainOnly => \E t \in everMined : sent[t].batch = b

\* No data is lost before it is on L1: a COMPRESSED row has its batch file, so that
\* recovery can submit it, unless a transaction of the batch was in a block and only
\* the outbox updates that follow the receipt failed.
CompressedHasFile ==
  \A b \in BatchIds :
    state[b] = "Compressed" /\ ~offChainOnly /\ b \notin files =>
      \E t \in everMined : sent[t].batch = b

\* Bumping never takes a batch past three times its original gas price, over any
\* number of restarts.
GasCapped ==
  \A b \in BatchIds : \A t \in 1 .. Len(sent) :
    price[b] # 0 /\ sent[t].batch = b => sent[t].gas <= 3 * price[b]

\* A bump replaces, it never adds: it carries the nonce of the submission it speeds
\* up, so L1 includes at most one of them, also when the stuck transaction turns out
\* to be in a block already.
BumpsShareNonce ==
  \A t \in 1 .. Len(sent) : sent[t].bump =>
    \E s \in 1 .. t - 1 : /\ ~sent[s].bump /\ sent[s].batch = sent[t].batch
                          /\ sent[s].nonce = sent[t].nonce

\* While it is up the daemon always gets back to polling for batches: neither the
\* recovery loop nor a submission that is dropped, refused or reverted holds it.
BackToPolling == pc # "down" ~> pc \in {"idle", "down"}

\* docs/e2e-flow.md:42 of the outbox: it "prevents duplicate submissions".
NoDuplicateSubmission ==
  \A i, j \in 1 .. Len(mined) :
    mined[i].ok /\ mined[j].ok /\ sent[mined[i].tx].batch = sent[mined[j].tx].batch => i = j
=============================================================================
