---------------------------- MODULE BridgeProofs ----------------------------
(***************************************************************************)
(* Proofs about Bridge, for every set of accounts, roots, providers,       *)
(* verifiers and every value of the bounds.                                *)
(***************************************************************************)
EXTENDS Bridge, TLAPS

USE DEF BatchIds, Committed, RootOf

-----------------------------------------------------------------------------
(* Type correctness. *)

LEMMA InitType == Init => TypeOK
<1> SUFFICES ASSUME Init PROVE TypeOK
  OBVIOUS
<1>1. NoEvent \in Event
  BY RootsAssumption DEF NoEvent, Event
<1>2. Zero \in Commitments
  BY DEF Commitments
<1>3. verifiers \in [VerifierIds -> Verifiers \cup {NoAddress}]
  BY DEF Init
<1>4. /\ block \in Nat /\ latestStateRoot \in Roots /\ pendingStateRoot \in Roots
      /\ nextBatchId \in 1 .. MaxBatches + 1
      /\ challengePeriod \in Nat /\ pendingTimestamp \in Nat
      /\ balance \in Nat /\ tokenBalance \in Nat /\ forcedHead \in Nat
      /\ latestBatch \in 0 .. MaxBatches /\ pendingBatch \in 0 .. MaxBatches
      /\ settled \subseteq 0 .. MaxBatches
  BY RootsAssumption, BoundsAssumption DEF Init
<1>5. /\ optimisticMode \in BOOLEAN /\ isFrozen \in BOOLEAN
      /\ sequencer \in Accounts \cup {NoAddress}
      /\ daProviders \in [DaIds -> Providers \cup {NoAddress}]
      /\ daEnabled \in [DaIds -> BOOLEAN]
      /\ nullifiers \in [WithdrawalIds -> BOOLEAN]
  BY Zenon DEF Init
<1>6. /\ forcedTxQueue \in Seq(ForcedHashes) /\ paid \in Seq(Withdrawals)
      /\ forcedTxTimestamps \in [ForcedHashes -> Nat]
  BY DEF Init
<1>7. /\ batchCommitment \in [BatchIds -> Commitments]
      /\ batchNewRoot \in [BatchIds -> Roots]
      /\ event \in [BatchIds -> Event]
  BY <1>1, <1>2, RootsAssumption DEF Init
<1> QED
  BY <1>3, <1>4, <1>5, <1>6, <1>7 DEF TypeOK

\* What a successful commitBatch does to the recorded batches.
LEMMA CommitEffect ==
  ASSUME TypeOK, NEW call \in Calls, CommitBatch(call)
  PROVE  \E c \in Commitments, v \in Verifiers :
           /\ nextBatchId <= MaxBatches
           /\ call.newRoot \in Roots \ {ZeroRoot}
           /\ \/ /\ ~optimisticMode
                 /\ v \in SoundVerifiers =>
                      <<latestStateRoot, c, call.newRoot>> \in ValidTransitions
                 /\ FinalizeBatch(c, call.newRoot, v)
              \/ optimisticMode /\ PendBatch(c, call.newRoot, v)
<1> DEFINE provider == daProviders[call.daId]
           c == ComputeCommitment(provider, call.batchData, call.daMeta)
           v == verifiers[call.verifierId]
<1>1. /\ call.daId \in DaIds /\ call.verifierId \in VerifierIds
      /\ call.batchData \in Data /\ call.daMeta \in Commitments
      /\ call.newRoot \in Roots /\ call.proof \in Proofs
  BY DEF Calls
<1>2. c \in Commitments
  BY <1>1 DEF ComputeCommitment, Commitments
<1>3. v \in Verifiers
  BY <1>1 DEF TypeOK, CommitBatch
<1>4. /\ nextBatchId <= MaxBatches
      /\ call.newRoot # ZeroRoot
  BY DEF CommitBatch
<1>5. CASE optimisticMode
  BY <1>1, <1>2, <1>3, <1>4, <1>5 DEF CommitBatch
<1>6. CASE ~optimisticMode
  <2>1. /\ VerifyProof(v, Decoded(call.verifierId, call.proof),
                       <<latestStateRoot, c, call.newRoot>>)
        /\ FinalizeBatch(c, call.newRoot, v)
    BY <1>6 DEF CommitBatch
  <2>2. call.proof.proves \subseteq ValidTransitions
    BY <1>1 DEF Proofs
  <2>3. v \in SoundVerifiers => <<latestStateRoot, c, call.newRoot>> \in ValidTransitions
    BY <2>1, <2>2, ContractsAssumption DEF VerifyProof, Decoded
  <2> QED
    BY <1>1, <1>2, <1>3, <1>4, <1>6, <2>1, <2>3
<1> QED
  BY <1>5, <1>6, Zenon

LEMMA StepType == TypeOK /\ [Next]_vars => TypeOK'
<1> SUFFICES ASSUME TypeOK, [Next]_vars PROVE TypeOK'
  OBVIOUS
<1> USE DEF TypeOK, rootVars, modeVars, adminVars, forcedVars, fundVars
<1>1. ASSUME NEW v \in Amounts, Deposit(v) \/ DepositERC20(v) PROVE TypeOK'
  <2>1. v \in Nat
    BY WithdrawalsAssumption
  <2>2. CASE Deposit(v)
    BY <2>1, <2>2 DEF Deposit
  <2>3. CASE DepositERC20(v)
    BY <2>1, <2>3 DEF DepositERC20
  <2> QED
    BY <1>1, <2>2, <2>3, Zenon
<1>2. ASSUME NEW w \in Withdrawals, Withdraw(w) PROVE TypeOK'
  <2>1. w.amount \in Nat /\ w.id \in WithdrawalIds
    BY WithdrawalsAssumption DEF WithdrawalIds
  <2>2. balance' \in Nat
    BY <1>2, <2>1 DEF Withdraw
  <2>3. nullifiers' \in [WithdrawalIds -> BOOLEAN] /\ paid' \in Seq(Withdrawals)
    BY <1>2, <2>1 DEF Withdraw
  <2> QED
    BY <1>2, <2>2, <2>3 DEF Withdraw
<1>3. ASSUME NEW c \in Accounts, NEW m \in BOOLEAN, SetOptimisticMode(c, m) PROVE TypeOK'
  BY <1>3 DEF SetOptimisticMode
<1>4. ASSUME NEW c \in Accounts, NEW p \in ChallengePeriods, SetChallengePeriod(c, p)
      PROVE TypeOK'
  BY <1>4, BoundsAssumption DEF SetChallengePeriod
<1>5. ASSUME NEW c \in Accounts, NEW s \in Accounts \cup {NoAddress}, SetSequencer(c, s)
      PROVE TypeOK'
  BY <1>5 DEF SetSequencer
<1>6. ASSUME NEW c \in Accounts, NEW i \in DaIds, NEW p \in Providers \cup {NoAddress},
             NEW e \in BOOLEAN, SetDAProvider(c, i, p, e)
      PROVE TypeOK'
  BY <1>6 DEF SetDAProvider
<1>7. ASSUME NEW c \in Accounts, NEW i \in VerifierIds,
             NEW v \in Verifiers \cup {NoAddress}, SetVerifier(c, i, v)
      PROVE TypeOK'
  BY <1>7 DEF SetVerifier
<1>8. CASE Freeze
  BY <1>8 DEF Freeze
<1>9. ASSUME NEW c \in Accounts, Unfreeze(c) PROVE TypeOK'
  BY <1>9, Zenon DEF Unfreeze
<1>10. ASSUME NEW h \in ForcedHashes, ForceTransaction(h) PROVE TypeOK'
  BY <1>10, BoundsAssumption DEF ForceTransaction
<1>11. ASSUME NEW call \in Calls, CommitBatch(call) PROVE TypeOK'
  <2>1. PICK c \in Commitments, v \in Verifiers :
           /\ nextBatchId <= MaxBatches
           /\ call.newRoot \in Roots \ {ZeroRoot}
           /\ FinalizeBatch(c, call.newRoot, v) \/ PendBatch(c, call.newRoot, v)
    BY <1>11, CommitEffect, Zenon
  <2>2. UNCHANGED <<block, modeVars, adminVars, forcedVars, isFrozen, fundVars>>
    BY <1>11 DEF CommitBatch
  <2>3. [oldRoot |-> latestStateRoot, verifier |-> v,
         optimistic |-> optimisticMode, at |-> block] \in Event
    BY DEF Event
  <2>4. /\ nextBatchId' \in 1 .. MaxBatches + 1 /\ nextBatchId \in 1 .. MaxBatches
        /\ batchCommitment' \in [BatchIds -> Commitments]
        /\ batchNewRoot' \in [BatchIds -> Roots]
        /\ event' \in [BatchIds -> Event]
    <3>1. RecordBatch(c, call.newRoot, v)
      BY <2>1 DEF FinalizeBatch, PendBatch
    <3>2. nextBatchId' \in 1 .. MaxBatches + 1 /\ nextBatchId \in 1 .. MaxBatches
      BY <2>1, <3>1, BoundsAssumption DEF RecordBatch
    <3> QED
      BY <2>1, <2>3, <3>1, <3>2 DEF RecordBatch
  <2>5. /\ latestStateRoot' \in Roots /\ pendingStateRoot' \in Roots
        /\ pendingTimestamp' \in Nat
        /\ latestBatch' \in 0 .. MaxBatches /\ pendingBatch' \in 0 .. MaxBatches
        /\ settled' \subseteq 0 .. MaxBatches
    <3>1. CASE FinalizeBatch(c, call.newRoot, v)
      BY <2>1, <2>4, <3>1 DEF FinalizeBatch
    <3>2. CASE PendBatch(c, call.newRoot, v)
      BY <2>1, <2>4, <3>2 DEF PendBatch
    <3> QED
      BY <2>1, <3>1, <3>2
  <2> QED
    BY <2>2, <2>4, <2>5
<1>12. CASE FinalizeOptimisticRoot
  BY <1>12, RootsAssumption DEF FinalizeOptimisticRoot
<1>13. CASE Mine
  BY <1>13 DEF Mine
<1>14. CASE UNCHANGED vars
  BY <1>14 DEF vars
<1> HIDE DEF TypeOK, rootVars, modeVars, adminVars, forcedVars, fundVars
<1> QED
  BY <1>1, <1>2, <1>3, <1>4, <1>5, <1>6, <1>7, <1>8, <1>9, <1>10, <1>11,
     <1>12, <1>13, <1>14 DEF Next

\* Every reachable state of the bridge is well typed.
THEOREM TypeCorrect == Spec => []TypeOK
BY InitType, StepType, PTL DEF Spec

-----------------------------------------------------------------------------
(* Settlement.  Only commitBatch and finalizeOptimisticRoot touch the roots. *)

\* The steps that move the roots, and what they leave alone.
LEMMA RootSteps ==
  ASSUME TypeOK, [Next]_vars
  PROVE  \/ \E c \in Commitments, v \in Verifiers, r \in Roots \ {ZeroRoot} :
              /\ nextBatchId <= MaxBatches
              /\ \/ /\ ~optimisticMode
                    /\ v \in SoundVerifiers =>
                         <<latestStateRoot, c, r>> \in ValidTransitions
                    /\ FinalizeBatch(c, r, v)
                 \/ optimisticMode /\ PendBatch(c, r, v)
         \/ FinalizeOptimisticRoot
         \/ UNCHANGED rootVars
<1>1. ASSUME NEW call \in Calls, CommitBatch(call)
      PROVE  \E c \in Commitments, v \in Verifiers, r \in Roots \ {ZeroRoot} :
              /\ nextBatchId <= MaxBatches
              /\ \/ /\ ~optimisticMode
                    /\ v \in SoundVerifiers =>
                         <<latestStateRoot, c, r>> \in ValidTransitions
                    /\ FinalizeBatch(c, r, v)
                 \/ optimisticMode /\ PendBatch(c, r, v)
  BY <1>1, CommitEffect, Zenon
<1>2. CASE \E call \in Calls : CommitBatch(call)
  BY <1>1, <1>2
<1>3. CASE ~ \E call \in Calls : CommitBatch(call)
  BY <1>3 DEF Next, vars, Deposit, DepositERC20, Withdraw, SetOptimisticMode,
     SetChallengePeriod, SetSequencer, SetDAProvider, SetVerifier, Freeze, Unfreeze,
     ForceTransaction, Mine
<1> QED
  BY <1>2, <1>3

LEMMA RecordedStep ==
  TypeOK /\ RootsAreRecorded /\ [Next]_vars => RootsAreRecorded'
<1> SUFFICES ASSUME TypeOK, RootsAreRecorded, [Next]_vars PROVE RootsAreRecorded'
  OBVIOUS
<1> USE DEF TypeOK
<1>1. ASSUME NEW c \in Commitments, NEW v \in Verifiers, NEW r \in Roots \ {ZeroRoot},
             nextBatchId <= MaxBatches, FinalizeBatch(c, r, v)
      PROVE  RootsAreRecorded'
  BY <1>1, BoundsAssumption DEF RootsAreRecorded, FinalizeBatch, RecordBatch
<1>2. ASSUME NEW c \in Commitments, NEW v \in Verifiers, NEW r \in Roots \ {ZeroRoot},
             nextBatchId <= MaxBatches, PendBatch(c, r, v)
      PROVE  RootsAreRecorded'
  BY <1>2, BoundsAssumption DEF RootsAreRecorded, PendBatch, RecordBatch
<1>3. CASE FinalizeOptimisticRoot
  BY <1>3 DEF RootsAreRecorded, FinalizeOptimisticRoot
<1>4. CASE UNCHANGED rootVars
  BY <1>4 DEF RootsAreRecorded, rootVars
<1> QED
  BY <1>1, <1>2, <1>3, <1>4, RootSteps, Zenon

LEMMA RecordedInit == Init => RootsAreRecorded
BY BoundsAssumption DEF Init, RootsAreRecorded

\* The bridge's current and pending roots are always roots it recorded.
THEOREM RecordedCorrect == Spec => []RootsAreRecorded
BY RecordedInit, RecordedStep, TypeCorrect, PTL DEF Spec

\* VerifiedChain is not inductive: it does not say which batch the next one will
\* start from.  While every batch was verified that is the last one, and no root
\* can be pending.
ChainInv ==
  (\A i \in Committed : ~event[i].optimistic) =>
    /\ latestBatch = nextBatchId - 1
    /\ pendingStateRoot = ZeroRoot

LEMMA ChainStep ==
  TypeOK /\ RootsAreRecorded /\ ChainInv /\ VerifiedChain /\ [Next]_vars
    => ChainInv' /\ VerifiedChain'
<1> SUFFICES ASSUME TypeOK, RootsAreRecorded, ChainInv, VerifiedChain, [Next]_vars
             PROVE  ChainInv' /\ VerifiedChain'
  OBVIOUS
<1>1. ASSUME NEW c \in Commitments, NEW v \in Verifiers, NEW r \in Roots \ {ZeroRoot},
             nextBatchId <= MaxBatches, ~optimisticMode,
             v \in SoundVerifiers => <<latestStateRoot, c, r>> \in ValidTransitions,
             FinalizeBatch(c, r, v)
      PROVE  ChainInv' /\ VerifiedChain'
  <2> SUFFICES ASSUME \A i \in Committed' : ~event'[i].optimistic
               PROVE  /\ latestBatch' = nextBatchId' - 1
                      /\ pendingStateRoot' = ZeroRoot
                      /\ VerifiedChain'
    BY DEF ChainInv, VerifiedChain
  <2>1. nextBatchId \in BatchIds /\ Committed' = Committed \cup {nextBatchId}
    BY <1>1, BoundsAssumption DEF TypeOK, FinalizeBatch, RecordBatch
  <2>2. \A i \in Committed : /\ i \in BatchIds /\ i # nextBatchId
                             /\ event'[i] = event[i]
                             /\ batchNewRoot'[i] = batchNewRoot[i]
                             /\ batchCommitment'[i] = batchCommitment[i]
    BY <1>1, BoundsAssumption DEF TypeOK, FinalizeBatch, RecordBatch
  <2>3. \A i \in Committed : ~event[i].optimistic
    BY <2>1, <2>2
  <2>4. latestBatch = nextBatchId - 1 /\ pendingStateRoot = ZeroRoot
    BY <2>3 DEF ChainInv
  <2>5. latestBatch' = nextBatchId' - 1 /\ pendingStateRoot' = ZeroRoot
    BY <1>1, <2>4 DEF TypeOK, FinalizeBatch, RecordBatch
  <2>6. latestStateRoot = RootOf(nextBatchId - 1)
    BY <2>4 DEF RootsAreRecorded
  <2>7. ASSUME NEW i \in Committed' PROVE RootOf(i - 1)' = RootOf(i - 1)
    <3>1. i - 1 = 0 \/ i - 1 \in Committed
      BY <1>1 DEF TypeOK, FinalizeBatch, RecordBatch
    <3> QED
      BY <2>2, <3>1
  <2>8. /\ event'[nextBatchId].oldRoot = latestStateRoot
        /\ event'[nextBatchId].verifier = v
        /\ batchCommitment'[nextBatchId] = c /\ batchNewRoot'[nextBatchId] = r
    BY <1>1, <2>1 DEF TypeOK, FinalizeBatch, RecordBatch
  <2>9. ASSUME NEW i \in Committed'
        PROVE  /\ event'[i].oldRoot = RootOf(i - 1)'
               /\ event'[i].verifier \in SoundVerifiers =>
                    <<RootOf(i - 1)', batchCommitment'[i], batchNewRoot'[i]>>
                      \in ValidTransitions
    <3>1. CASE i = nextBatchId
      BY <1>1, <2>6, <2>7, <2>8, <3>1
    <3>2. CASE i \in Committed
      BY <2>2, <2>3, <2>7, <3>2 DEF VerifiedChain
    <3> QED
      BY <2>1, <3>1, <3>2
  <2> QED
    BY <2>5, <2>9 DEF VerifiedChain
<1>2. ASSUME NEW c \in Commitments, NEW v \in Verifiers, NEW r \in Roots \ {ZeroRoot},
             nextBatchId <= MaxBatches, optimisticMode, PendBatch(c, r, v)
      PROVE  ChainInv' /\ VerifiedChain'
  <2>1. nextBatchId \in Committed' /\ event'[nextBatchId].optimistic
    BY <1>2, BoundsAssumption DEF TypeOK, PendBatch, RecordBatch
  <2>2. ~ \A i \in Committed' : ~event'[i].optimistic
    BY <2>1
  <2> QED
    BY <2>2 DEF ChainInv, VerifiedChain
<1>3. CASE FinalizeOptimisticRoot
  BY <1>3 DEF ChainInv, VerifiedChain, FinalizeOptimisticRoot
<1>4. CASE UNCHANGED rootVars
  BY <1>4 DEF ChainInv, VerifiedChain, rootVars
<1> QED
  BY <1>1, <1>2, <1>3, <1>4, RootSteps, Zenon

LEMMA ChainInit == Init => ChainInv /\ VerifiedChain
BY DEF Init, ChainInv, VerifiedChain

\* Batches committed without optimistic mode form one chain from genesis, every
\* link of which a sound verifier accepted is a provable transition.
THEOREM ChainCorrect == Spec => []VerifiedChain
BY ChainInit, ChainStep, RecordedCorrect, TypeCorrect, PTL DEF Spec

-----------------------------------------------------------------------------
(* The pending root. *)

\* What the bridge relies on when it finalizes a pending root: the root belongs to
\* the last optimistic batch, the timer was started by that batch, and if the
\* settled root is already past it then a verified batch overtook it.
PendingInv ==
  pendingStateRoot # ZeroRoot =>
    /\ event[pendingBatch].optimistic
    /\ event[pendingBatch].at = pendingTimestamp
    /\ \A j \in Committed : j > pendingBatch => ~event[j].optimistic
    /\ \/ latestBatch < pendingBatch
       \/ \E i \in pendingBatch + 1 .. latestBatch : ~event[i].optimistic

LEMMA PendingStep ==
  TypeOK /\ RootsAreRecorded /\ PendingInv /\ [Next]_vars => PendingInv'
<1> SUFFICES ASSUME TypeOK, RootsAreRecorded, PendingInv, [Next]_vars
             PROVE  PendingInv'
  OBVIOUS
<1>1. ASSUME NEW c \in Commitments, NEW v \in Verifiers, NEW r \in Roots \ {ZeroRoot},
             nextBatchId <= MaxBatches, ~optimisticMode, FinalizeBatch(c, r, v)
      PROVE  PendingInv'
  <2> SUFFICES ASSUME pendingStateRoot' # ZeroRoot
               PROVE  PendingInv'
    BY DEF PendingInv
  <2>1. pendingStateRoot # ZeroRoot /\ pendingBatch' = pendingBatch
        /\ pendingTimestamp' = pendingTimestamp
        /\ pendingBatch \in Committed
    BY <1>1 DEF FinalizeBatch, RootsAreRecorded
  <2>2. /\ nextBatchId \in BatchIds
        /\ nextBatchId' = nextBatchId + 1 /\ latestBatch' = nextBatchId
        /\ ~event'[nextBatchId].optimistic
        /\ \A i \in Committed : event'[i] = event[i]
    <3>1. nextBatchId \in BatchIds /\ nextBatchId' = nextBatchId + 1
      BY <1>1, BoundsAssumption DEF TypeOK, FinalizeBatch, RecordBatch
    <3>2. \A i \in Committed : i \in BatchIds /\ i # nextBatchId
      BY <1>1, BoundsAssumption DEF TypeOK
    <3> QED
      BY <1>1, <3>1, <3>2 DEF TypeOK, FinalizeBatch, RecordBatch
  <2>3. \A j \in Committed' : j \in Committed \/ j = nextBatchId
    BY <2>2 DEF TypeOK
  <2>4. nextBatchId \in pendingBatch' + 1 .. latestBatch'
    BY <2>1, <2>2 DEF TypeOK
  <2> QED
    BY <2>1, <2>2, <2>3, <2>4 DEF PendingInv
<1>2. ASSUME NEW c \in Commitments, NEW v \in Verifiers, NEW r \in Roots \ {ZeroRoot},
             nextBatchId <= MaxBatches, optimisticMode, PendBatch(c, r, v)
      PROVE  PendingInv'
  <2>1. /\ nextBatchId \in BatchIds
        /\ nextBatchId' = nextBatchId + 1
        /\ pendingBatch' = nextBatchId /\ pendingTimestamp' = block
        /\ event'[nextBatchId].optimistic /\ event'[nextBatchId].at = block
        /\ latestBatch' = latestBatch /\ latestBatch < nextBatchId
    BY <1>2, BoundsAssumption DEF TypeOK, PendBatch, RecordBatch, RootsAreRecorded
  <2>2. \A j \in Committed' : ~ (j > pendingBatch')
    <3>1. nextBatchId \in Nat
      BY <2>1, BoundsAssumption DEF TypeOK
    <3>2. \A j \in Committed' : j \in 0..nextBatchId
      BY <2>1, <3>1
    <3> QED
      BY <2>1, <3>1, <3>2
  <2> QED
    BY <2>1, <2>2 DEF PendingInv
<1>3. CASE FinalizeOptimisticRoot
  BY <1>3 DEF PendingInv, FinalizeOptimisticRoot
<1>4. CASE UNCHANGED rootVars
  BY <1>4 DEF PendingInv, rootVars
<1> QED
  BY <1>1, <1>2, <1>3, <1>4, RootSteps, Zenon

THEOREM PendingCorrect == Spec => []PendingInv
<1>1. Init => PendingInv
  BY DEF Init, PendingInv
<1> QED
  BY <1>1, PendingStep, RecordedCorrect, TypeCorrect, PTL DEF Spec

\* A recorded batch keeps its number, commitment and root for ever.
THEOREM BatchesCorrect == Spec => BatchesAreFinal
<1>1. TypeOK /\ [Next]_vars =>
        [/\ nextBatchId' >= nextBatchId
         /\ \A i \in Committed : /\ batchNewRoot'[i] = batchNewRoot[i]
                                 /\ batchCommitment'[i] = batchCommitment[i]]_vars
  <2> SUFFICES ASSUME TypeOK, [Next]_vars
               PROVE  /\ nextBatchId' >= nextBatchId
                      /\ \A i \in Committed : /\ batchNewRoot'[i] = batchNewRoot[i]
                                              /\ batchCommitment'[i] = batchCommitment[i]
    OBVIOUS
  <2>1. ASSUME NEW c \in Commitments, NEW v \in Verifiers, NEW r \in Roots,
               FinalizeBatch(c, r, v) \/ PendBatch(c, r, v)
        PROVE  /\ nextBatchId' >= nextBatchId
               /\ \A i \in Committed : /\ batchNewRoot'[i] = batchNewRoot[i]
                                       /\ batchCommitment'[i] = batchCommitment[i]
    <3>1. RecordBatch(c, r, v)
      BY <2>1 DEF FinalizeBatch, PendBatch
    <3> QED
      BY <3>1 DEF TypeOK, RecordBatch
  <2>2. CASE FinalizeOptimisticRoot
    BY <2>2 DEF TypeOK, FinalizeOptimisticRoot
  <2>3. CASE UNCHANGED rootVars
    BY <2>3 DEF TypeOK, rootVars
  <2> QED
    BY <2>1, <2>2, <2>3, RootSteps, Zenon
<1> QED
  BY <1>1, TypeCorrect, PTL DEF Spec, BatchesAreFinal

\* An optimistic root settles only when its own challenge period has passed.
THEOREM AgedCorrect == Spec => FinalizesAgedRoot
<1> DEFINE Aged ==
      latestBatch' # latestBatch /\ nextBatchId' = nextBatchId =>
       \E i \in Committed :
         /\ event[i].optimistic
         /\ \A j \in Committed : j > i => ~event[j].optimistic
         /\ block >= event[i].at + challengePeriod
         /\ latestStateRoot' = batchNewRoot[i]
<1>1. TypeOK /\ RootsAreRecorded /\ PendingInv /\ [Next]_vars => [Aged]_vars
  <2> SUFFICES ASSUME TypeOK, RootsAreRecorded, PendingInv, [Next]_vars PROVE Aged
    OBVIOUS
  <2>1. ASSUME NEW c \in Commitments, NEW v \in Verifiers, NEW r \in Roots,
               FinalizeBatch(c, r, v) \/ PendBatch(c, r, v)
        PROVE  Aged
    <3>1. RecordBatch(c, r, v)
      BY <2>1 DEF FinalizeBatch, PendBatch
    <3>2. nextBatchId' # nextBatchId
      BY <3>1 DEF TypeOK, RecordBatch
    <3> QED
      BY <3>2
  <2>2. CASE FinalizeOptimisticRoot
    BY <2>2 DEF FinalizeOptimisticRoot, RootsAreRecorded, PendingInv
  <2>3. CASE UNCHANGED rootVars
    BY <2>3 DEF rootVars
  <2> QED
    BY <2>1, <2>2, <2>3, RootSteps, Zenon
<1> QED
  BY <1>1, TypeCorrect, RecordedCorrect, PendingCorrect, PTL DEF Spec, FinalizesAgedRoot

\* The settled root moves back only over a verified batch.
THEOREM RollbackCorrect == Spec => RollsBackOnlyOverVerified
<1> DEFINE Back ==
      latestBatch' < latestBatch =>
       \E i \in latestBatch' + 1 .. latestBatch : ~event[i].optimistic
<1>1. TypeOK /\ RootsAreRecorded /\ PendingInv /\ [Next]_vars => [Back]_vars
  <2> SUFFICES ASSUME TypeOK, RootsAreRecorded, PendingInv, [Next]_vars PROVE Back
    OBVIOUS
  <2>1. ASSUME NEW c \in Commitments, NEW v \in Verifiers, NEW r \in Roots,
               FinalizeBatch(c, r, v) \/ PendBatch(c, r, v)
        PROVE  Back
    BY <2>1 DEF TypeOK, FinalizeBatch, PendBatch, RootsAreRecorded
  <2>2. CASE FinalizeOptimisticRoot
    BY <2>2 DEF TypeOK, FinalizeOptimisticRoot, PendingInv
  <2>3. CASE UNCHANGED rootVars
    BY <2>3 DEF TypeOK, rootVars
  <2> QED
    BY <2>1, <2>2, <2>3, RootSteps, Zenon
<1> QED
  BY <1>1, TypeCorrect, RecordedCorrect, PendingCorrect, PTL
     DEF Spec, RollsBackOnlyOverVerified

-----------------------------------------------------------------------------
(* Withdrawals. *)

LEMMA FundSteps ==
  ASSUME [Next]_vars
  PROVE  \/ \E w \in Withdrawals : Withdraw(w)
         \/ UNCHANGED <<paid, nullifiers>>
BY Zenon DEF Next, vars, fundVars, Deposit, DepositERC20, SetOptimisticMode,
   SetChallengePeriod, SetSequencer, SetDAProvider, SetVerifier, Freeze, Unfreeze,
   ForceTransaction, CommitBatch, FinalizeOptimisticRoot, Mine

\* PaidOnce needs that the nullifier of everything paid is set.
LEMMA PaidStep ==
  TypeOK /\ PaidOnce /\ (\A k \in 1 .. Len(paid) : nullifiers[paid[k].id]) /\ [Next]_vars
    => PaidOnce' /\ (\A k \in 1 .. Len(paid) : nullifiers[paid[k].id])'
<1> SUFFICES ASSUME TypeOK, PaidOnce, \A k \in 1 .. Len(paid) : nullifiers[paid[k].id],
                    [Next]_vars
             PROVE  PaidOnce' /\ (\A k \in 1 .. Len(paid) : nullifiers[paid[k].id])'
  OBVIOUS
<1>1. ASSUME NEW w \in Withdrawals, Withdraw(w)
      PROVE  PaidOnce' /\ (\A k \in 1 .. Len(paid) : nullifiers[paid[k].id])'
  <2>1. /\ w.id \in WithdrawalIds
        /\ \A k \in 1 .. Len(paid) : paid[k] \in Withdrawals /\ paid[k].id \in WithdrawalIds
    BY DEF TypeOK, WithdrawalIds
  <2>2. /\ ~nullifiers[w.id] /\ paid' = Append(paid, w)
        /\ nullifiers' = [nullifiers EXCEPT ![w.id] = TRUE]
    BY <1>1 DEF Withdraw
  <2>3. /\ Len(paid') = Len(paid) + 1 /\ Len(paid) \in Nat
        /\ \A k \in 1 .. Len(paid) : paid'[k] = paid[k]
        /\ paid'[Len(paid) + 1] = w
    <3>1. paid \in Seq(Withdrawals)
      BY DEF TypeOK
    <3> QED
      BY <2>2, <3>1
  <2>4. \A k \in 1 .. Len(paid) : paid[k].id # w.id
    BY <2>2
  <2>5. \A k \in 1 .. Len(paid') : k \in 1 .. Len(paid) \/ k = Len(paid) + 1
    BY <2>3
  <2>6. PaidOnce'
    BY <2>3, <2>4, <2>5 DEF PaidOnce
  <2>7. nullifiers'[w.id] /\ \A k \in 1 .. Len(paid) : nullifiers'[paid[k].id]
    BY <2>1, <2>2 DEF TypeOK
  <2> QED
    BY <2>3, <2>5, <2>6, <2>7
<1>2. CASE UNCHANGED <<paid, nullifiers>>
  BY <1>2 DEF PaidOnce
<1> QED
  BY <1>1, <1>2, FundSteps, Zenon

\* No withdrawal id is ever paid twice.
THEOREM PaidOnceCorrect == Spec => []PaidOnce
<1>1. Init => PaidOnce /\ (\A k \in 1 .. Len(paid) : nullifiers[paid[k].id])
  BY DEF Init, PaidOnce
<1> QED
  BY <1>1, PaidStep, TypeCorrect, PTL DEF Spec

\* Payment from a settled root needs that the current root is settled, and that
\* settled batches keep their roots.
LEMMA SettledStep ==
  ASSUME TypeOK, RootsAreRecorded, PaidFromSettledRoot, latestBatch \in settled,
         settled \subseteq {0} \cup Committed, [Next]_vars
  PROVE  /\ PaidFromSettledRoot' /\ latestBatch' \in settled'
         /\ settled' \subseteq {0} \cup Committed'
<1> DEFINE Kept == /\ latestBatch' \in settled' /\ settled \subseteq settled'
                   /\ settled' \subseteq {0} \cup Committed'
                   /\ \A i \in settled : RootOf(i)' = RootOf(i)
<1>1. Kept
  <2>1. ASSUME NEW c \in Commitments, NEW v \in Verifiers, NEW r \in Roots,
               nextBatchId <= MaxBatches, FinalizeBatch(c, r, v)
        PROVE  Kept
    <3>1. nextBatchId \in BatchIds /\ batchNewRoot \in [BatchIds -> Roots]
      BY <2>1, BoundsAssumption DEF TypeOK
    <3>2. /\ nextBatchId' = nextBatchId + 1
          /\ latestBatch' = nextBatchId /\ settled' = settled \cup {nextBatchId}
          /\ \A i \in BatchIds : i # nextBatchId => batchNewRoot'[i] = batchNewRoot[i]
      BY <2>1, <3>1 DEF FinalizeBatch, RecordBatch
    <3>3. /\ \A i \in Committed : i \in BatchIds /\ i # nextBatchId /\ i \in Committed'
          /\ nextBatchId \in Committed' /\ nextBatchId # 0 /\ 0 \notin BatchIds
      BY <3>1, <3>2, BoundsAssumption
    <3> QED
      BY <3>1, <3>2, <3>3
  <2>2. ASSUME NEW c \in Commitments, NEW v \in Verifiers, NEW r \in Roots,
               nextBatchId <= MaxBatches, PendBatch(c, r, v)
        PROVE  Kept
    <3>1. nextBatchId \in BatchIds /\ batchNewRoot \in [BatchIds -> Roots]
      BY <2>2, BoundsAssumption DEF TypeOK
    <3>2. /\ nextBatchId' = nextBatchId + 1
          /\ latestBatch' = latestBatch /\ settled' = settled
          /\ \A i \in BatchIds : i # nextBatchId => batchNewRoot'[i] = batchNewRoot[i]
      BY <2>2, <3>1 DEF PendBatch, RecordBatch
    <3>3. /\ \A i \in Committed : i \in BatchIds /\ i # nextBatchId /\ i \in Committed'
          /\ nextBatchId \in Committed' /\ nextBatchId # 0 /\ 0 \notin BatchIds
      BY <3>1, <3>2, BoundsAssumption
    <3> QED
      BY <3>1, <3>2, <3>3
  <2>3. CASE FinalizeOptimisticRoot
    BY <2>3, Zenon DEF FinalizeOptimisticRoot, RootsAreRecorded
  <2>4. CASE UNCHANGED rootVars
    BY <2>4 DEF rootVars
  <2> QED
    BY <2>1, <2>2, <2>3, <2>4, RootSteps, Zenon
<1>2. PaidFromSettledRoot'
  <2>1. ASSUME NEW w \in Withdrawals, Withdraw(w) PROVE PaidFromSettledRoot'
    <3>1. w \in Leaves[RootOf(latestBatch)] /\ paid' = Append(paid, w)
      BY <2>1 DEF Withdraw, RootsAreRecorded
    <3>2. /\ \A k \in 1 .. Len(paid') : k \in 1 .. Len(paid) \/ k = Len(paid) + 1
          /\ \A k \in 1 .. Len(paid) : paid'[k] = paid[k]
          /\ paid'[Len(paid) + 1] = w
      <4>1. paid \in Seq(Withdrawals)
        BY DEF TypeOK
      <4> QED
        BY <3>1, <4>1
    <3>3. ASSUME NEW k \in 1 .. Len(paid)
          PROVE  \E i \in settled' : paid'[k] \in Leaves[RootOf(i)']
      <4>1. PICK i \in settled : paid[k] \in Leaves[RootOf(i)]
        BY DEF PaidFromSettledRoot
      <4>2. i \in settled' /\ RootOf(i)' = RootOf(i)
        BY <1>1
      <4> HIDE DEF RootOf
      <4> QED
        BY <3>2, <4>1, <4>2
    <3>4. \E i \in settled' : w \in Leaves[RootOf(i)']
      <4>1. PICK i \in settled : i = latestBatch
        OBVIOUS
      <4>2. i \in settled' /\ RootOf(i)' = RootOf(i)
        BY <1>1
      <4> HIDE DEF RootOf
      <4> QED
        BY <3>1, <4>1, <4>2
    <3>5. ASSUME NEW k \in 1 .. Len(paid')
          PROVE  \E i \in settled' : paid'[k] \in Leaves[RootOf(i)']
      BY <3>2, <3>3, <3>4
    <3> QED
      BY <3>5 DEF PaidFromSettledRoot
  <2>2. CASE UNCHANGED <<paid, nullifiers>>
    BY <1>1, <2>2 DEF PaidFromSettledRoot
  <2> QED
    BY <2>1, <2>2, FundSteps
<1> QED
  BY <1>1, <1>2

\* Every payment was proven under a settled root.
THEOREM SettledCorrect == Spec => []PaidFromSettledRoot
<1> DEFINE Settled == latestBatch \in settled /\ settled \subseteq {0} \cup Committed
<1>1. Init => PaidFromSettledRoot /\ Settled
  <2> SUFFICES ASSUME Init PROVE PaidFromSettledRoot /\ Settled
    OBVIOUS
  <2>1. paid = << >> /\ latestBatch = 0 /\ settled = {0}
    BY DEF Init
  <2> QED
    BY <2>1 DEF PaidFromSettledRoot
<1>2. TypeOK /\ RootsAreRecorded /\ PaidFromSettledRoot /\ Settled /\ [Next]_vars
        => PaidFromSettledRoot' /\ Settled'
  BY SettledStep
<1> QED
  BY <1>1, <1>2, TypeCorrect, RecordedCorrect, PTL DEF Spec

-----------------------------------------------------------------------------
(* Forced inclusion. *)

LEMMA ForcedSteps ==
  ASSUME [Next]_vars
  PROVE  \/ \E h \in ForcedHashes : ForceTransaction(h)
         \/ Freeze
         \/ /\ UNCHANGED forcedVars
            /\ block' = block \/ block' = block + 1
            /\ isFrozen' = isFrozen \/ isFrozen' = FALSE
BY Zenon DEF Next, vars, Deposit, DepositERC20, Withdraw, SetOptimisticMode,
   SetChallengePeriod, SetSequencer, SetDAProvider, SetVerifier, Unfreeze,
   CommitBatch, FinalizeOptimisticRoot, Mine

\* The bridge is frozen only while the head of the forced queue is overdue.
THEOREM FrozenCorrect == Spec => []FrozenOnlyIfOverdue
<1>1. Init => FrozenOnlyIfOverdue
  BY DEF Init, FrozenOnlyIfOverdue
<1>2. TypeOK /\ FrozenOnlyIfOverdue /\ [Next]_vars => FrozenOnlyIfOverdue'
  <2> SUFFICES ASSUME TypeOK, FrozenOnlyIfOverdue, [Next]_vars
               PROVE  FrozenOnlyIfOverdue'
    OBVIOUS
  <2>1. ASSUME NEW h \in ForcedHashes, ForceTransaction(h) PROVE FrozenOnlyIfOverdue'
    BY <2>1 DEF ForceTransaction, FrozenOnlyIfOverdue
  <2>2. CASE Freeze
    BY <2>2 DEF Freeze, FrozenOnlyIfOverdue, HeadOverdue, Overdue, forcedVars
  <2>3. CASE /\ UNCHANGED forcedVars
             /\ block' = block \/ block' = block + 1
             /\ isFrozen' = isFrozen \/ isFrozen' = FALSE
    <3>1. HeadOverdue => HeadOverdue'
      BY <2>3 DEF TypeOK, HeadOverdue, Overdue, forcedVars
    <3> QED
      BY <2>3, <3>1, Zenon DEF FrozenOnlyIfOverdue
  <2> QED
    BY <2>1, <2>2, <2>3, ForcedSteps, Zenon
<1> QED
  BY <1>1, <1>2, TypeCorrect, PTL DEF Spec

\* HeadIsOldest says nothing of how deadlines compare along the queue: they never
\* exceed the deadline a request would get now, and without repeats they grow.
NoRepeats ==
  \A j, k \in 1 .. Len(forcedTxQueue) : forcedTxQueue[j] = forcedTxQueue[k] => j = k

DeadlinesInv ==
  /\ \A k \in 1 .. Len(forcedTxQueue) :
       forcedTxTimestamps[forcedTxQueue[k]] <= block + ForcedInclusionDelay
  /\ NoRepeats => \A j, k \in 1 .. Len(forcedTxQueue) :
       j <= k => forcedTxTimestamps[forcedTxQueue[j]] <= forcedTxTimestamps[forcedTxQueue[k]]

\* What queueing one more request leaves where it was.
LEMMA Appended ==
  ASSUME NEW S, NEW s \in Seq(S), NEW e \in S
  PROVE  /\ Len(s) \in Nat /\ Len(Append(s, e)) = Len(s) + 1
         /\ \A k \in 1 .. Len(s) : Append(s, e)[k] = s[k] /\ s[k] \in S
         /\ Append(s, e)[Len(s) + 1] = e
<1>1. Len(s) \in Nat /\ Len(Append(s, e)) = Len(s) + 1
  OBVIOUS
<1>2. \A k \in 1 .. Len(s) : Append(s, e)[k] = s[k]
  OBVIOUS
<1>3. \A k \in 1 .. Len(s) : s[k] \in S
  OBVIOUS
<1>4. Append(s, e)[Len(s) + 1] = e
  OBVIOUS
<1> QED
  BY <1>1, <1>2, <1>3, <1>4

LEMMA DeadlinesStep == TypeOK /\ DeadlinesInv /\ [Next]_vars => DeadlinesInv'
<1> SUFFICES ASSUME TypeOK, DeadlinesInv, [Next]_vars PROVE DeadlinesInv'
  OBVIOUS
<1> USE BoundsAssumption
<1>1. ASSUME NEW h \in ForcedHashes, ForceTransaction(h) PROVE DeadlinesInv'
  <2> DEFINE n == Len(forcedTxQueue)
  <2>1. /\ n \in Nat /\ Len(forcedTxQueue') = n + 1
        /\ \A k \in 1 .. n : /\ forcedTxQueue'[k] = forcedTxQueue[k]
                             /\ forcedTxQueue[k] \in ForcedHashes
        /\ forcedTxQueue'[n + 1] = h
        /\ block' = block
    <3>1. forcedTxQueue \in Seq(ForcedHashes)
      BY DEF TypeOK
    <3>2. forcedTxQueue' = Append(forcedTxQueue, h) /\ block' = block
      BY <1>1 DEF ForceTransaction
    <3>3. /\ n \in Nat /\ Len(Append(forcedTxQueue, h)) = n + 1
          /\ \A k \in 1 .. n : /\ Append(forcedTxQueue, h)[k] = forcedTxQueue[k]
                               /\ forcedTxQueue[k] \in ForcedHashes
          /\ Append(forcedTxQueue, h)[n + 1] = h
      BY <3>1, Appended
    <3> QED
      BY <3>2, <3>3, Zenon
  <2>2. /\ forcedTxTimestamps'[h] = block + ForcedInclusionDelay
        /\ \A g \in ForcedHashes : g # h => forcedTxTimestamps'[g] = forcedTxTimestamps[g]
    BY <1>1 DEF TypeOK, ForceTransaction
  <2>3. \A k \in 1 .. n + 1 : k \in 1 .. n \/ k = n + 1
    BY <2>1
  <2>4. \A k \in 1 .. n + 1 :
          forcedTxTimestamps'[forcedTxQueue'[k]] <= block + ForcedInclusionDelay
    <3>1. ASSUME NEW k \in 1 .. n, forcedTxQueue[k] # h
          PROVE  forcedTxTimestamps'[forcedTxQueue'[k]] <= block + ForcedInclusionDelay
      BY <2>1, <2>2, <3>1 DEF DeadlinesInv
    <3>2. block + ForcedInclusionDelay <= block + ForcedInclusionDelay
      BY DEF TypeOK
    <3> QED
      BY <2>1, <2>2, <2>3, <3>1, <3>2
  <2>5. ASSUME NoRepeats', NEW j \in 1 .. n + 1, NEW k \in 1 .. n + 1, j <= k
        PROVE  forcedTxTimestamps'[forcedTxQueue'[j]] <= forcedTxTimestamps'[forcedTxQueue'[k]]
    <3>1. CASE k = n + 1
      BY <2>1, <2>2, <2>4, <3>1
    <3>2. CASE k \in 1 .. n
      <4>1. j \in 1 .. n
        BY <2>1, <2>5, <3>2
      <4>2. \A i \in 1 .. n : forcedTxQueue[i] # h
        BY <2>1, <2>5 DEF NoRepeats
      <4>3. NoRepeats
        BY <2>1, <2>5 DEF NoRepeats
      <4>4. forcedTxTimestamps[forcedTxQueue[j]] <= forcedTxTimestamps[forcedTxQueue[k]]
        BY <2>5, <3>2, <4>1, <4>3 DEF DeadlinesInv
      <4> QED
        BY <2>1, <2>2, <3>2, <4>1, <4>2, <4>4
    <3> QED
      BY <2>3, <3>1, <3>2
  <2> QED
    BY <2>1, <2>4, <2>5 DEF DeadlinesInv
<1>2. CASE UNCHANGED forcedVars /\ (block' = block \/ block' = block + 1)
  <2>1. \A k \in 1 .. Len(forcedTxQueue) : forcedTxTimestamps[forcedTxQueue[k]] \in Nat
    BY DEF TypeOK
  <2>2. block \in Nat /\ ForcedInclusionDelay \in Nat
    BY DEF TypeOK
  <2>3. /\ forcedTxQueue' = forcedTxQueue /\ forcedTxTimestamps' = forcedTxTimestamps
        /\ block' = block \/ block' = block + 1
    BY <1>2 DEF forcedVars
  <2>4. ASSUME NEW k \in 1 .. Len(forcedTxQueue)
        PROVE  forcedTxTimestamps[forcedTxQueue[k]] <= block' + ForcedInclusionDelay
    <3>1. /\ forcedTxTimestamps[forcedTxQueue[k]] <= block + ForcedInclusionDelay
          /\ forcedTxTimestamps[forcedTxQueue[k]] \in Nat
      BY <2>1 DEF DeadlinesInv
    <3>2. ASSUME NEW d \in Nat, NEW b \in Nat, NEW i \in Nat, d <= b + i
          PROVE  d <= (b + 1) + i
      BY <3>2
    <3> QED
      BY <2>2, <2>3, <3>1, <3>2
  <2> QED
    BY <2>3, <2>4 DEF DeadlinesInv, NoRepeats
<1>3. CASE Freeze
  BY <1>3 DEF Freeze, DeadlinesInv, NoRepeats, forcedVars
<1> QED
  BY <1>1, <1>2, <1>3, ForcedSteps, Zenon

\* Unless a hash was forced twice, the head of the queue is overdue whenever any
\* request is, so freeze() and commitBatch need not look further.
THEOREM OldestCorrect == Spec => []HeadIsOldest
<1>1. Init => DeadlinesInv
  BY DEF Init, DeadlinesInv
<1>2. TypeOK /\ DeadlinesInv => HeadIsOldest
  <2> SUFFICES ASSUME TypeOK, DeadlinesInv, NoRepeats,
                      NEW k \in forcedHead + 1 .. Len(forcedTxQueue),
                      Overdue(forcedTxQueue[k])
               PROVE  HeadOverdue
    BY DEF HeadIsOldest, NoRepeats
  <2>1. /\ forcedHead + 1 \in 1 .. Len(forcedTxQueue) /\ k \in 1 .. Len(forcedTxQueue)
        /\ Len(forcedTxQueue) > forcedHead /\ forcedHead + 1 <= k
        /\ forcedTxQueue[k] \in ForcedHashes
        /\ forcedTxQueue[forcedHead + 1] \in ForcedHashes
    BY DEF TypeOK
  <2>2. /\ block \in Nat /\ forcedTxTimestamps[forcedTxQueue[k]] \in Nat
        /\ forcedTxTimestamps[forcedTxQueue[forcedHead + 1]] \in Nat
    BY <2>1 DEF TypeOK
  <2>3. forcedTxTimestamps[forcedTxQueue[forcedHead + 1]] <= forcedTxTimestamps[forcedTxQueue[k]]
    BY <2>1 DEF DeadlinesInv
  <2> QED
    BY <2>1, <2>2, <2>3 DEF Overdue, HeadOverdue
<1> QED
  BY <1>1, <1>2, DeadlinesStep, TypeCorrect, PTL DEF Spec

-----------------------------------------------------------------------------
(* Bridge implements Ledger, for every value of the constants. *)

recordedRoots == [i \in Committed |-> batchNewRoot[i]]
spentIds == {i \in WithdrawalIds : nullifiers[i]}

LEMMA LedgerInit == Init => Abstract!Init
<1> SUFFICES ASSUME Init PROVE Abstract!Init
  OBVIOUS
<1>1. recordedRoots = << >>
  BY DEF Init, recordedRoots, Committed
<1>2. spentIds = {}
  BY DEF Init, spentIds
<1> QED
  BY <1>1, <1>2 DEF Init, Abstract!Init, recordedRoots, spentIds

\* A sequence with one element appended, as a function.
LEMMA AppendAsFunction ==
  ASSUME NEW S, NEW s \in Seq(S), NEW e \in S, NEW n \in Nat, Len(s) = n - 1
  PROVE  Append(s, e) = [i \in 1 .. n |-> IF i = n THEN e ELSE s[i]]
<1> DEFINE t == Append(s, e)
           f == [i \in 1 .. n |-> IF i = n THEN e ELSE s[i]]
<1>1. t \in Seq(S) /\ Len(t) = n
  BY Appended
<1>2. t \in [1 .. n -> S]
  <2>1. ASSUME NEW u \in Seq(S) PROVE u \in [1 .. Len(u) -> S]
    OBVIOUS
  <2> QED
    BY <1>1, <2>1, Zenon
<1>3. \A i \in 1 .. n : t[i] = f[i]
  <2> SUFFICES ASSUME NEW i \in 1 .. n PROVE t[i] = f[i]
    OBVIOUS
  <2>1. CASE i = n
    BY <2>1, Appended
  <2>2. CASE i # n
    BY <2>2, Appended
  <2> QED
    BY <2>1, <2>2
<1>4. f \in [1 .. n -> S]
  BY <1>2, <1>3
<1> HIDE DEF t, f
<1>5. t = f
  BY <1>2, <1>3, <1>4
<1> QED
  BY <1>5 DEF t, f

\* RecordBatch appends the new root to the recorded ones.
LEMMA RecordAppends ==
  ASSUME TypeOK, NEW r \in Roots, NEW c, NEW v, nextBatchId <= MaxBatches, RecordBatch(c, r, v)
  PROVE  recordedRoots' = Append(recordedRoots, r)
<1> DEFINE n == nextBatchId
<1>1. n \in Nat /\ n >= 1 /\ n \in BatchIds /\ nextBatchId' = n + 1
  BY BoundsAssumption DEF TypeOK, RecordBatch, BatchIds
<1>2. /\ batchNewRoot \in [BatchIds -> Roots]
      /\ batchNewRoot' = [batchNewRoot EXCEPT ![n] = r]
  BY DEF TypeOK, RecordBatch
<1>3. Committed = 1 .. n - 1 /\ Committed' = 1 .. n /\ Committed' \subseteq BatchIds
  BY <1>1, BoundsAssumption DEF Committed, BatchIds
<1>4. recordedRoots \in Seq(Roots) /\ Len(recordedRoots) = n - 1
  BY <1>1, <1>2, <1>3 DEF recordedRoots
<1>5. Append(recordedRoots, r) =
        [i \in 1 .. n |-> IF i = n THEN r ELSE recordedRoots[i]]
  BY <1>1, <1>4, AppendAsFunction
<1>6. recordedRoots' = [i \in 1 .. n |-> batchNewRoot'[i]]
  BY <1>3 DEF recordedRoots
<1>7. \A i \in 1 .. n : batchNewRoot'[i] = IF i = n THEN r ELSE recordedRoots[i]
  BY <1>1, <1>2, <1>3 DEF recordedRoots
<1> QED
  BY <1>5, <1>6, <1>7

\* A step that leaves the abstract variables' sources alone leaves them alone.
LEMMA LedgerStutter ==
  ASSUME UNCHANGED <<latestStateRoot, nextBatchId, batchNewRoot, nullifiers, balance>>
  PROVE  UNCHANGED Abstract!vars
BY DEF Abstract!vars, Committed

LEMMA LedgerStep ==
  ASSUME TypeOK, RootsAreRecorded, [Next]_vars
  PROVE  Abstract!Next \/ UNCHANGED Abstract!vars
<1> DEFINE RootsSame == latestStateRoot' = latestStateRoot /\ nextBatchId' = nextBatchId
                        /\ batchNewRoot' = batchNewRoot
           FundsSame == nullifiers' = nullifiers /\ balance' = balance
<1>1. ASSUME NEW a \in Amounts, Deposit(a) PROVE Abstract!Next
  <2>1. balance' > balance
    BY <1>1, WithdrawalsAssumption DEF Deposit, TypeOK
  <2>2. RootsSame /\ nullifiers' = nullifiers
    BY <1>1 DEF Deposit, rootVars
  <2>3. Abstract!Receive
    BY <2>1, <2>2 DEF Abstract!Receive, Committed
  <2> QED
    BY <2>3 DEF Abstract!Next
<1>2. ASSUME NEW w \in Withdrawals, Withdraw(w) PROVE Abstract!Next
  <2>1. RootsSame
    BY <1>2, Zenon DEF Withdraw, rootVars
  <2>2. w.id \in WithdrawalIds
    BY DEF WithdrawalIds
  <2>3. w.id \notin spentIds /\ spentIds' = spentIds \cup {w.id}
    BY <1>2, <2>2 DEF Withdraw, spentIds, TypeOK
  <2>4. Abstract!Pay(w)
    BY <1>2, <2>1, <2>3, Zenon DEF Withdraw, Abstract!Pay, Committed, spentIds
  <2> QED
    BY <2>4 DEF Abstract!Next
<1>3. ASSUME NEW c \in Commitments, NEW v \in Verifiers, NEW r \in Roots,
             nextBatchId <= MaxBatches, FundsSame,
             v \in SoundVerifiers => <<latestStateRoot, c, r>> \in ValidTransitions,
             FinalizeBatch(c, r, v)
      PROVE  Abstract!Next
  <2>1. recordedRoots' = Append(recordedRoots, r)
    BY <1>3, RecordAppends DEF FinalizeBatch
  <2>2. \/ MockVerifiers # {}
        \/ \E t \in ValidTransitions : t[1] = latestStateRoot /\ t[3] = r
    BY <1>3 DEF Verifiers
  <2>3. Abstract!Settle(r)
    BY <1>3, <2>1, <2>2, Zenon DEF FinalizeBatch, Abstract!Settle, recordedRoots
  <2> QED
    BY <2>3 DEF Abstract!Next
<1>4. ASSUME NEW c \in Commitments, NEW v \in Verifiers, NEW r \in Roots,
             nextBatchId <= MaxBatches, FundsSame, PendBatch(c, r, v)
      PROVE  Abstract!Next
  <2>1. recordedRoots' = Append(recordedRoots, r)
    BY <1>4, RecordAppends DEF PendBatch
  <2>2. Abstract!Record(r)
    BY <1>4, <2>1, Zenon DEF PendBatch, Abstract!Record, recordedRoots
  <2> QED
    BY <2>2 DEF Abstract!Next
<1>5. CASE FinalizeOptimisticRoot
  <2>1. pendingBatch \in Committed /\ latestStateRoot' = batchNewRoot[pendingBatch]
    BY <1>5 DEF FinalizeOptimisticRoot, RootsAreRecorded
  <2>2. /\ nextBatchId' = nextBatchId /\ batchNewRoot' = batchNewRoot /\ FundsSame
    BY <1>5 DEF FinalizeOptimisticRoot, fundVars
  <2>3. Abstract!Adopt(pendingBatch)
    BY <2>1, <2>2 DEF Abstract!Adopt, Committed
  <2> QED
    BY <2>1, <2>3 DEF Abstract!Next
<1>6. ASSUME NEW call \in Calls, CommitBatch(call) PROVE Abstract!Next
  <2>1. FundsSame
    BY <1>6, Zenon DEF CommitBatch, fundVars
  <2> QED
    BY <1>3, <1>4, <1>6, <2>1, CommitEffect, Zenon
<1>7. CASE \/ \E a \in Amounts : DepositERC20(a)
           \/ \E c \in Accounts, m \in BOOLEAN : SetOptimisticMode(c, m)
           \/ \E c \in Accounts, p \in ChallengePeriods : SetChallengePeriod(c, p)
           \/ \E c \in Accounts, s \in Accounts \cup {NoAddress} : SetSequencer(c, s)
           \/ \E c \in Accounts, i \in DaIds, p \in Providers \cup {NoAddress}, e \in BOOLEAN :
                SetDAProvider(c, i, p, e)
           \/ \E c \in Accounts, i \in VerifierIds, v \in Verifiers \cup {NoAddress} :
                SetVerifier(c, i, v)
           \/ Freeze
           \/ \E c \in Accounts : Unfreeze(c)
           \/ \E h \in ForcedHashes : ForceTransaction(h)
           \/ Mine
           \/ UNCHANGED vars
  <2>1. RootsSame /\ FundsSame
    BY <1>7, Zenon DEF vars, rootVars, fundVars, DepositERC20, SetOptimisticMode,
       SetChallengePeriod, SetSequencer, SetDAProvider, SetVerifier, Freeze, Unfreeze,
       ForceTransaction, Mine
  <2> QED
    BY <2>1, LedgerStutter
<1> QED
  BY <1>1, <1>2, <1>5, <1>6, <1>7 DEF Next

\* The bridge implements the ledger: for every set of roots, verifiers, providers and withdrawals,
\* each call of its functions is one of the ledger's steps or leaves the ledger as it was.
THEOREM BridgeImplementsLedger == Spec => ImplementsLedger
<1>1. Init => Abstract!Init
  BY LedgerInit
<1>2. TypeOK /\ RootsAreRecorded /\ [Next]_vars => [Abstract!Next]_(Abstract!vars)
  BY LedgerStep
<1> QED
  BY <1>1, <1>2, TypeCorrect, RecordedCorrect, PTL DEF Spec, ImplementsLedger, Abstract!Spec
=============================================================================
