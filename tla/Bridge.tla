------------------------------- MODULE Bridge -------------------------------
(***************************************************************************)
(* The L1 contract ZKRollupBridge.sol with its DA providers.               *)
(*                                                                         *)
(* One action per external function.  A call that reverts leaves the L1    *)
(* state as it was, so a revert is a guard that is false.  This includes   *)
(* the overdue branch of commitBatch, which assigns isFrozen and emits an  *)
(* event before it reverts: the revert takes both back.  block.number and  *)
(* block.timestamp advance together: `block' is both, one unit per block.  *)
(* A nested call made by the receiver of a withdrawal comes after all of   *)
(* withdraw's own writes, so it is a later step of this model.             *)
(***************************************************************************)
EXTENDS Integers, FiniteSets, Sequences

CONSTANTS
  Accounts,            \* senders of L1 transactions
  Owner,               \* the account that deployed the bridge
  NoAddress,           \* address(0)
  Roots,               \* bytes32 state roots, ZeroRoot among them
  ZeroRoot,            \* bytes32(0)
  GenesisRoot,         \* constructor argument _genesisRoot
  Data,                \* batch payloads
  DaIds,               \* DA provider ids in use
  Providers,           \* deployed DA providers, a subset of ProviderKinds
  VerifierIds,         \* verifier ids in use
  SoundVerifiers,      \* verifiers that accept exactly the proofs of ValidTransitions
  MockVerifiers,       \* verifiers that accept every proof
  ValidTransitions,    \* <<oldRoot, daCommitment, newRoot>> the circuit can prove
  ForcedHashes,        \* hashes users may force
  ForcedInclusionDelay,\* constructor argument _forcedInclusionDelay, in blocks
  DefaultChallengePeriod, \* the initializer of challengePeriod (7 days)
  ChallengePeriods,    \* values the owner gives challengePeriod
  Withdrawals,         \* records [id, amount]; the receiver is abstracted
  Leaves,              \* Leaves[r]: the withdrawals in the Merkle tree of root r
  Amounts,             \* deposit values
  MaxBatches, MaxBlock, MaxForced, MaxDeposited   \* bounds

Zero == [keccak |-> "zero"]
Keccak(d) == [keccak |-> d]
Commitments == {Keccak(d) : d \in Data} \cup {Zero}
ProviderKinds == {"CalldataDA", "BlobDA", "OffChainDA"}
Verifiers == SoundVerifiers \cup MockVerifiers
BatchIds == 1 .. MaxBatches

ASSUME AccountsAssumption == Owner \in Accounts /\ NoAddress \notin Accounts
ASSUME RootsAssumption == {ZeroRoot, GenesisRoot} \subseteq Roots
ASSUME ContractsAssumption ==
  /\ Providers \subseteq ProviderKinds /\ NoAddress \notin ProviderKinds
  /\ NoAddress \notin Verifiers /\ 0 \in VerifierIds
  /\ SoundVerifiers \cap MockVerifiers = {}
ASSUME TransitionsAssumption ==
  ValidTransitions \subseteq Roots \X Commitments \X Roots
ASSUME BoundsAssumption ==
  /\ ForcedInclusionDelay \in Nat
  /\ ChallengePeriods \subseteq Nat /\ DefaultChallengePeriod \in Nat
  /\ MaxBatches \in Nat /\ MaxBlock \in Nat /\ MaxForced \in Nat /\ MaxDeposited \in Nat
ASSUME WithdrawalsAssumption ==
  /\ \A w \in Withdrawals : w.amount \in Nat
  /\ Leaves \in [Roots -> SUBSET Withdrawals]
  /\ Amounts \subseteq Nat

WithdrawalIds == {w.id : w \in Withdrawals}

VARIABLES
  block,
  latestStateRoot, nextBatchId, batchCommitment, batchNewRoot,
  optimisticMode, challengePeriod, pendingStateRoot, pendingTimestamp,
  sequencer, daProviders, daEnabled, verifiers,
  forcedTxQueue, forcedHead, forcedTxTimestamps, isFrozen,
  nullifiers, balance, tokenBalance,
  \* History: the BatchCommitted events, the batches that latestStateRoot and
  \* pendingStateRoot come from (0: genesis), every batch latestStateRoot came
  \* from so far, and the withdrawals paid.
  event, latestBatch, pendingBatch, settled, paid

rootVars == <<latestStateRoot, nextBatchId, batchCommitment, batchNewRoot,
              pendingStateRoot, pendingTimestamp, event, latestBatch, pendingBatch, settled>>
modeVars == <<optimisticMode, challengePeriod>>
adminVars == <<sequencer, daProviders, daEnabled, verifiers>>
forcedVars == <<forcedTxQueue, forcedHead, forcedTxTimestamps>>
fundVars == <<nullifiers, balance, tokenBalance, paid>>
vars == <<block, rootVars, modeVars, adminVars, forcedVars, isFrozen, fundVars>>

NoEvent == [oldRoot |-> ZeroRoot, verifier |-> NoAddress, optimistic |-> FALSE, at |-> 0]
Event == [oldRoot : Roots, verifier : Verifiers \cup {NoAddress},
          optimistic : BOOLEAN, at : Nat]

RootOf(id) == IF id = 0 THEN GenesisRoot ELSE batchNewRoot[id]

TypeOK ==
  /\ block \in Nat
  /\ latestStateRoot \in Roots /\ pendingStateRoot \in Roots
  /\ nextBatchId \in 1 .. MaxBatches + 1
  /\ batchCommitment \in [BatchIds -> Commitments]
  /\ batchNewRoot \in [BatchIds -> Roots]
  /\ optimisticMode \in BOOLEAN /\ isFrozen \in BOOLEAN
  /\ challengePeriod \in Nat /\ pendingTimestamp \in Nat
  /\ sequencer \in Accounts \cup {NoAddress}
  /\ daProviders \in [DaIds -> Providers \cup {NoAddress}]
  /\ daEnabled \in [DaIds -> BOOLEAN]
  /\ verifiers \in [VerifierIds -> Verifiers \cup {NoAddress}]
  /\ forcedTxQueue \in Seq(ForcedHashes) /\ forcedHead \in Nat
  /\ forcedTxTimestamps \in [ForcedHashes -> Nat]
  /\ nullifiers \in [WithdrawalIds -> BOOLEAN]
  /\ balance \in Nat /\ tokenBalance \in Nat
  /\ event \in [BatchIds -> Event]
  /\ latestBatch \in 0 .. MaxBatches /\ pendingBatch \in 0 .. MaxBatches
  /\ settled \subseteq 0 .. MaxBatches
  /\ paid \in Seq(Withdrawals)

-----------------------------------------------------------------------------
(* State after the constructor.  The owner's later configuration calls are   *)
(* ordinary steps.                                                           *)
Init ==
  /\ block = 0
  /\ latestStateRoot = GenesisRoot
  /\ nextBatchId = 1
  /\ batchCommitment = [i \in BatchIds |-> Zero]
  /\ batchNewRoot = [i \in BatchIds |-> ZeroRoot]
  /\ optimisticMode = FALSE
  /\ challengePeriod = DefaultChallengePeriod
  /\ pendingStateRoot = ZeroRoot /\ pendingTimestamp = 0
  /\ sequencer = NoAddress
  /\ daProviders = [i \in DaIds |-> NoAddress]
  /\ daEnabled = [i \in DaIds |-> FALSE]
  /\ \E v \in Verifiers \cup {NoAddress} :
       verifiers = [i \in VerifierIds |-> IF i = 0 THEN v ELSE NoAddress]
  /\ forcedTxQueue = <<>> /\ forcedHead = 0
  /\ forcedTxTimestamps = [h \in ForcedHashes |-> 0]
  /\ isFrozen = FALSE
  /\ nullifiers = [i \in WithdrawalIds |-> FALSE]
  /\ balance = 0 /\ tokenBalance = 0
  /\ event = [i \in BatchIds |-> NoEvent]
  /\ latestBatch = 0 /\ pendingBatch = 0 /\ settled = {0}
  /\ paid = <<>>

(***************************************************************************)
(* Bridging.                                                               *)
(***************************************************************************)
Deposit(value) ==
  /\ value > 0
  /\ balance + tokenBalance + value <= MaxDeposited
  /\ balance' = balance + value
  /\ UNCHANGED <<block, rootVars, modeVars, adminVars, forcedVars, isFrozen,
                 nullifiers, tokenBalance, paid>>

DepositERC20(amount) ==
  /\ amount > 0
  /\ balance + tokenBalance + amount <= MaxDeposited
  /\ tokenBalance' = tokenBalance + amount
  /\ UNCHANGED <<block, rootVars, modeVars, adminVars, forcedVars, isFrozen,
                 nullifiers, balance, paid>>

\* A mutant of Withdraw: the proof is checked against the pending root too.
WithdrawFromPending(w) ==
  /\ ~nullifiers[w.id]
  /\ w \in Leaves[latestStateRoot] \cup Leaves[pendingStateRoot]
  /\ w.amount <= balance
  /\ nullifiers' = [nullifiers EXCEPT ![w.id] = TRUE]
  /\ balance' = balance - w.amount
  /\ paid' = Append(paid, w)
  /\ UNCHANGED <<block, rootVars, modeVars, adminVars, forcedVars, isFrozen,
                 tokenBalance>>

\* MerkleProof.verify is membership in the tree of the latest root; a transfer
\* the bridge cannot fund fails, and TransferFailed undoes the nullifier.
Withdraw(w) ==
  /\ ~nullifiers[w.id]
  /\ w \in Leaves[latestStateRoot]
  /\ w.amount <= balance
  /\ nullifiers' = [nullifiers EXCEPT ![w.id] = TRUE]
  /\ balance' = balance - w.amount
  /\ paid' = Append(paid, w)
  /\ UNCHANGED <<block, rootVars, modeVars, adminVars, forcedVars, isFrozen,
                 tokenBalance>>

-----------------------------------------------------------------------------
(***************************************************************************)
(* Administration, by the owner.                                           *)
(***************************************************************************)
SetOptimisticMode(caller, mode) ==
  /\ caller = Owner
  /\ optimisticMode' = mode
  /\ UNCHANGED <<block, rootVars, challengePeriod, adminVars, forcedVars,
                 isFrozen, fundVars>>

SetChallengePeriod(caller, period) ==
  /\ caller = Owner
  /\ challengePeriod' = period
  /\ UNCHANGED <<block, rootVars, optimisticMode, adminVars, forcedVars,
                 isFrozen, fundVars>>

SetSequencer(caller, newSequencer) ==
  /\ caller = Owner
  /\ sequencer' = newSequencer
  /\ UNCHANGED <<block, rootVars, modeVars, daProviders, daEnabled, verifiers,
                 forcedVars, isFrozen, fundVars>>

SetDAProvider(caller, daId, provider, enabled) ==
  /\ caller = Owner
  /\ ~ (daProviders[daId] # NoAddress /\ daEnabled[daId] /\ daProviders[daId] # provider)
  /\ daProviders' = [daProviders EXCEPT ![daId] = provider]
  /\ daEnabled' = [daEnabled EXCEPT ![daId] = enabled]
  /\ UNCHANGED <<block, rootVars, modeVars, sequencer, verifiers, forcedVars,
                 isFrozen, fundVars>>

SetVerifier(caller, verifierId, verifier) ==
  /\ caller = Owner
  /\ verifiers' = [verifiers EXCEPT ![verifierId] = verifier]
  /\ UNCHANGED <<block, rootVars, modeVars, sequencer, daProviders, daEnabled,
                 forcedVars, isFrozen, fundVars>>

-----------------------------------------------------------------------------
(***************************************************************************)
(* Forced inclusion and the freeze.  No function of the contract assigns    *)
(* forcedHead.                                                             *)
(***************************************************************************)
Overdue(hash) == block > forcedTxTimestamps[hash]

HeadOverdue ==
  /\ Len(forcedTxQueue) > forcedHead
  /\ Overdue(forcedTxQueue[forcedHead + 1])

Freeze ==
  /\ HeadOverdue
  /\ isFrozen' = TRUE
  /\ UNCHANGED <<block, rootVars, modeVars, adminVars, forcedVars, fundVars>>

Unfreeze(caller) ==
  /\ caller = Owner
  /\ isFrozen
  /\ isFrozen' = FALSE
  /\ UNCHANGED <<block, rootVars, modeVars, adminVars, forcedVars, fundVars>>

\* A mutant of ForceTransaction: the newest request goes to the front.
ForceTransactionInFront(hash) ==
  /\ ~isFrozen
  /\ Len(forcedTxQueue) < MaxForced
  /\ forcedTxTimestamps' =
       [forcedTxTimestamps EXCEPT ![hash] = block + ForcedInclusionDelay]
  /\ forcedTxQueue' = <<hash>> \o forcedTxQueue
  /\ UNCHANGED <<block, rootVars, modeVars, adminVars, forcedHead, isFrozen,
                 fundVars>>

ForceTransaction(hash) ==
  /\ ~isFrozen
  /\ Len(forcedTxQueue) < MaxForced
  /\ forcedTxTimestamps' =
       [forcedTxTimestamps EXCEPT ![hash] = block + ForcedInclusionDelay]
  /\ forcedTxQueue' = Append(forcedTxQueue, hash)
  /\ UNCHANGED <<block, rootVars, modeVars, adminVars, forcedHead, isFrozen,
                 fundVars>>

-----------------------------------------------------------------------------
(***************************************************************************)
(* Committing a batch.                                                     *)
(***************************************************************************)
RequireSequencer(caller) ==
  /\ ~isFrozen
  /\ sequencer # NoAddress => caller = sequencer

\* IDAProvider.computeCommitment: calldata is hashed, the other two providers
\* read the commitment from daMeta.
ComputeCommitment(provider, batchData, daMeta) ==
  IF provider = "CalldataDA" THEN Keccak(batchData) ELSE daMeta

\* IDAProvider.validateDA: only BlobDA checks anything, that a blob with the
\* announced versioned hash travels with the transaction.
ValidDA(provider, daMeta, blob) ==
  provider = "BlobDA" => daMeta # Zero /\ blob = daMeta

\* A proof is its length and the statement it proves, if any.
Proofs == [length : {32, 256}, proves : {{}} \cup {{t} : t \in ValidTransitions}]

\* Only verifier 0 has its proof bytes decoded; the others are called with zeros.
Decoded(verifierId, proof) == IF verifierId = 0 THEN proof.proves ELSE {}

\* A mutant of VerifyProof: the old root is not among the public inputs.
VerifyProofAnyOldRoot(verifier, statement, inputs) ==
  verifier \in MockVerifiers \/ \E t \in statement : t[2] = inputs[2] /\ t[3] = inputs[3]

VerifyProof(verifier, statement, inputs) ==
  verifier \in MockVerifiers \/ inputs \in statement

\* The arguments of commitBatch, its sender, and the blob of its transaction
\* (Zero: none).  A daMeta that does not decode reverts and is left out.
Calls == [caller : Accounts, daId : DaIds, verifierId : VerifierIds, batchData : Data,
          daMeta : Commitments, blob : Commitments, newRoot : Roots, proof : Proofs]

RecordBatch(commitment, newRoot, verifier) ==
  /\ nextBatchId' = nextBatchId + 1
  /\ batchCommitment' = [batchCommitment EXCEPT ![nextBatchId] = commitment]
  /\ batchNewRoot' = [batchNewRoot EXCEPT ![nextBatchId] = newRoot]
  /\ event' = [event EXCEPT ![nextBatchId] =
       [oldRoot |-> latestStateRoot, verifier |-> verifier,
        optimistic |-> optimisticMode, at |-> block]]

\* _finalizeBatch
FinalizeBatch(commitment, newRoot, verifier) ==
  /\ latestStateRoot' = newRoot
  /\ latestBatch' = nextBatchId
  /\ settled' = settled \cup {nextBatchId}
  /\ RecordBatch(commitment, newRoot, verifier)
  /\ UNCHANGED <<pendingStateRoot, pendingTimestamp, pendingBatch>>

\* A mutant of PendBatch: the timer of an earlier pending root keeps running.
PendBatchOldTimer(commitment, newRoot, verifier) ==
  /\ pendingStateRoot' = newRoot
  /\ pendingTimestamp' = IF pendingStateRoot = ZeroRoot THEN block ELSE pendingTimestamp
  /\ pendingBatch' = nextBatchId
  /\ RecordBatch(commitment, newRoot, verifier)
  /\ UNCHANGED <<latestStateRoot, latestBatch, settled>>

\* A mutant of PendBatch: with a root already pending, the next one settles at once.
PendBatchSkipsAhead(commitment, newRoot, verifier) ==
  /\ RecordBatch(commitment, newRoot, verifier)
  /\ IF pendingStateRoot # ZeroRoot
     THEN /\ latestStateRoot' = newRoot
          /\ latestBatch' = nextBatchId
          /\ settled' = settled \cup {nextBatchId}
          /\ UNCHANGED <<pendingStateRoot, pendingTimestamp, pendingBatch>>
     ELSE /\ pendingStateRoot' = newRoot
          /\ pendingTimestamp' = block
          /\ pendingBatch' = nextBatchId
          /\ UNCHANGED <<latestStateRoot, latestBatch, settled>>

\* The optimistic branch: the root replaces whatever root was pending.
PendBatch(commitment, newRoot, verifier) ==
  /\ pendingStateRoot' = newRoot
  /\ pendingTimestamp' = block
  /\ pendingBatch' = nextBatchId
  /\ RecordBatch(commitment, newRoot, verifier)
  /\ UNCHANGED <<latestStateRoot, latestBatch, settled>>

CommitBatch(call) ==
  LET provider   == daProviders[call.daId]
      commitment == ComputeCommitment(provider, call.batchData, call.daMeta)
      verifier   == verifiers[call.verifierId]
      inputs     == <<latestStateRoot, commitment, call.newRoot>>
  IN
  /\ RequireSequencer(call.caller)
  /\ ~HeadOverdue
  /\ provider # NoAddress /\ daEnabled[call.daId]
  /\ ValidDA(provider, call.daMeta, call.blob)
  /\ verifier # NoAddress
  /\ call.verifierId = 0 => call.proof.length = 256
  /\ call.newRoot # ZeroRoot
  /\ nextBatchId <= MaxBatches
  /\ \/ /\ ~optimisticMode
        /\ VerifyProof(verifier, Decoded(call.verifierId, call.proof), inputs)
        /\ FinalizeBatch(commitment, call.newRoot, verifier)
     \/ /\ optimisticMode
        /\ PendBatch(commitment, call.newRoot, verifier)
  /\ UNCHANGED <<block, modeVars, adminVars, forcedVars, isFrozen, fundVars>>

FinalizeOptimisticRoot ==
  /\ optimisticMode
  /\ pendingStateRoot # ZeroRoot
  /\ block >= pendingTimestamp + challengePeriod
  /\ latestStateRoot' = pendingStateRoot
  /\ latestBatch' = pendingBatch
  /\ settled' = settled \cup {pendingBatch}
  /\ pendingStateRoot' = ZeroRoot
  /\ UNCHANGED <<block, nextBatchId, batchCommitment, batchNewRoot,
                 pendingTimestamp, pendingBatch, event, modeVars, adminVars,
                 forcedVars, isFrozen, fundVars>>

\* L1 produces a block.
Mine ==
  /\ block < MaxBlock
  /\ block' = block + 1
  /\ UNCHANGED <<rootVars, modeVars, adminVars, forcedVars, isFrozen, fundVars>>

-----------------------------------------------------------------------------
Next ==
  \/ \E v \in Amounts : Deposit(v)
  \/ \E v \in Amounts : DepositERC20(v)
  \/ \E w \in Withdrawals : Withdraw(w)
  \/ \E c \in Accounts, m \in BOOLEAN : SetOptimisticMode(c, m)
  \/ \E c \in Accounts, p \in ChallengePeriods : SetChallengePeriod(c, p)
  \/ \E c \in Accounts, s \in Accounts \cup {NoAddress} : SetSequencer(c, s)
  \/ \E c \in Accounts, i \in DaIds, p \in Providers \cup {NoAddress}, e \in BOOLEAN :
       SetDAProvider(c, i, p, e)
  \/ \E c \in Accounts, i \in VerifierIds, v \in Verifiers \cup {NoAddress} :
       SetVerifier(c, i, v)
  \/ Freeze
  \/ \E c \in Accounts : Unfreeze(c)
  \/ \E h \in ForcedHashes : ForceTransaction(h)
  \/ \E call \in Calls : CommitBatch(call)
  \/ FinalizeOptimisticRoot
  \/ Mine

Spec == Init /\ [][Next]_vars

-----------------------------------------------------------------------------
(***************************************************************************)
(* Properties.                                                             *)
(***************************************************************************)
Committed == 1 .. nextBatchId - 1

\* The root the bridge serves withdrawals from, and the root waiting out its
\* challenge period, are roots the bridge recorded: commitBatch, _finalizeBatch
\* and finalizeOptimisticRoot never leave latestStateRoot, pendingStateRoot and
\* batchNewRoot telling different stories.
RootsAreRecorded ==
  /\ latestBatch \in {0} \cup Committed
  /\ latestStateRoot = RootOf(latestBatch)
  /\ pendingStateRoot # ZeroRoot =>
       /\ pendingBatch \in Committed
       /\ pendingStateRoot = batchNewRoot[pendingBatch]
  /\ \A i \in BatchIds : batchNewRoot[i] # ZeroRoot <=> i \in Committed

\* As long as no batch was committed in optimistic mode, the batches form one
\* chain from genesis: each starts from the root its predecessor recorded, and
\* where its verifier was sound it is a transition the circuit can prove.  The
\* owner may meanwhile have switched modes, verifiers and providers.
VerifiedChain ==
  (\A i \in Committed : ~event[i].optimistic) =>
    \A i \in Committed :
      /\ event[i].oldRoot = RootOf(i - 1)
      /\ event[i].verifier \in SoundVerifiers =>
           <<RootOf(i - 1), batchCommitment[i], batchNewRoot[i]>> \in ValidTransitions

\* A committed batch is never renumbered, rewritten or forgotten, in whichever
\* mode later batches are committed or finalized.
BatchesAreFinal ==
  [][/\ nextBatchId' >= nextBatchId
     /\ \A i \in Committed :
          /\ batchNewRoot'[i] = batchNewRoot[i]
          /\ batchCommitment'[i] = batchCommitment[i]]_vars

\* finalizeOptimisticRoot adopts only the latest optimistic batch, and only when
\* the challenge period has passed since that very batch was committed.
FinalizesAgedRoot ==
  [][latestBatch' # latestBatch /\ nextBatchId' = nextBatchId =>
       \E i \in Committed :
         /\ event[i].optimistic
         /\ \A j \in Committed : j > i => ~event[j].optimistic
         /\ block >= event[i].at + challengePeriod
         /\ latestStateRoot' = batchNewRoot[i]]_vars

\* The settled root goes back to an older batch only when a root left pending is
\* finalized after a proof-verified batch overtook it (setOptimisticMode does not
\* clear pendingStateRoot): between the two there is always a verified batch.
RollsBackOnlyOverVerified ==
  [][latestBatch' < latestBatch =>
       \E i \in latestBatch' + 1 .. latestBatch : ~event[i].optimistic]_vars

\* A withdrawal id is paid at most once, whichever roots came and went and even
\* if two trees hold the same id with different amounts.
PaidOnce == \A j, k \in 1 .. Len(paid) : paid[j].id = paid[k].id => j = k

\* Every payment was proven under a root that had been settled, never under one
\* that was only waiting out its challenge period.
PaidFromSettledRoot ==
  \A k \in 1 .. Len(paid) : \E i \in settled : paid[k] \in Leaves[RootOf(i)]

\* A frozen bridge always has an overdue forced transaction at the head of its
\* queue: freeze() asks for one, and while the bridge is frozen nobody can force
\* the same hash again to push its deadline out.
FrozenOnlyIfOverdue == isFrozen => HeadOverdue

\* Looking only at the head of the forced queue is enough, as freeze() and
\* commitBatch do, as long as no hash is forced twice: no request behind the
\* head can be overdue before the head is.
HeadIsOldest ==
  (\A j, k \in 1 .. Len(forcedTxQueue) : forcedTxQueue[j] = forcedTxQueue[k] => j = k) =>
    \A k \in forcedHead + 1 .. Len(forcedTxQueue) : Overdue(forcedTxQueue[k]) => HeadOverdue

-----------------------------------------------------------------------------
(***************************************************************************)
(* The abstract ledger.                                                    *)
(***************************************************************************)
Abstract == INSTANCE Ledger WITH
  Transitions <- ValidTransitions,
  Unchecked   <- MockVerifiers # {},
  root        <- latestStateRoot,
  recorded    <- [i \in Committed |-> batchNewRoot[i]],
  spent       <- {i \in WithdrawalIds : nullifiers[i]},
  reserve     <- balance

\* Every call of the bridge's functions is a step of the ledger or changes nothing
\* in it: in both modes and across their switches, roots are only appended, the
\* served root is proved from the one it replaces or was recorded before, and ether
\* leaves only against an unspent withdrawal of the served root.
ImplementsLedger == Abstract!Spec

=============================================================================
