-------------------------- MODULE SubmitterProofs --------------------------
(***************************************************************************)
(* Proofs about Submitter, for every set of batches, gas price and bounds, *)
(* and whether or not the outbox and the disk may fail; and about Pipeline *)
(* for every channel, number of faults and of batches.  A step of Pipeline *)
(* is a step of Submitter or leaves its variables alone, so what is proved *)
(* of the daemon holds of the pipeline, whose own theorems add the order   *)
(* in which batches reach it.                                              *)
(***************************************************************************)
EXTENDS Pipeline, TLAPS

-----------------------------------------------------------------------------
(* Type correctness, with what the daemon knows at each await. *)

Submitting == {"ReceivedFromExecutor", "Compressed"}

\* What pc says of the row of the batch the daemon is at, and of its transaction.
Control ==
  /\ pc = "offchain" => offChainOnly
  /\ pc \in {"write", "compress"} => state[cur] = "ReceivedFromExecutor"
  /\ pc \in {"offchain", "submit", "await", "record"} => state[cur] \in Submitting
  /\ pc = "confirm" => state[cur] \in Submitting \cup {"SubmittedToL1"}
  /\ pc = "bumped" => state[cur] = "SubmittedToL1"
  /\ \/ pc \in {"await", "record", "resumeAwait", "resumeRecord", "bumped"}
     \/ pc \in {"confirm", "cleanup"} /\ ~offChainOnly
     => tx # 0 /\ sent[tx].batch = cur
  /\ pc \in {"await", "record"} => ~sent[tx].bump

TypeInv == TypeOK /\ Control

RowType ==
  /\ state \in [BatchIds -> SagaStates \cup {"none"}]
  /\ txHash \in [BatchIds -> 0 .. MaxTxs]
  /\ price \in [BatchIds -> Nat]
  /\ stale \in [BatchIds -> BOOLEAN]
  /\ older \in SUBSET (BatchIds \X BatchIds)
  /\ \A b \in BatchIds : txHash[b] <= Len(sent)

DaemonType ==
  /\ files \in SUBSET BatchIds /\ offChainOnly \in BOOLEAN
  /\ pc \in Pcs
  /\ cur \in BatchIds \cup {NoBatch}
  /\ pc \in Pcs \ {"down", "recover", "resume", "idle"} => cur \in BatchIds
  /\ tx \in 0 .. MaxTxs /\ tx <= Len(sent)
  /\ todo \in SUBSET BatchIds /\ resume \in Seq(BatchIds)

L1Type ==
  /\ sent \in Seq(Tx) /\ Len(sent) <= MaxTxs
  /\ pool \in 0 .. Len(sent)
  /\ mined \in Seq([tx : 1 .. Len(sent), ok : BOOLEAN])
  /\ reorgs \in 0 .. MaxReorgs
  /\ lifeStart \in 0 .. Len(sent)
  /\ everMined \subseteq 1 .. Len(sent)

LEMMA TypeParts ==
  /\ TypeOK <=> RowType /\ DaemonType /\ L1Type
  /\ TypeOK' <=> RowType' /\ DaemonType' /\ L1Type'
<1>1. TypeOK <=> RowType /\ DaemonType /\ L1Type
  BY Zenon DEF TypeOK, RowType, DaemonType, L1Type
<1>2. TypeOK' <=> RowType' /\ DaemonType' /\ L1Type'
  BY Zenon DEF TypeOK, RowType, DaemonType, L1Type
<1> QED
  BY <1>1, <1>2

LEMMA Bounds ==
  /\ MaxTxs \in Nat /\ MaxSubmissions \in Nat /\ MaxReorgs \in Nat
  /\ MaxSubmissions <= MaxTxs
  /\ GasPrice \in Nat \ {0} /\ NoBatch \notin BatchIds
  BY SubmitterAssumption

\* A sequence with one element appended.
LEMMA Appended ==
  ASSUME NEW S, NEW s \in Seq(S), NEW e \in S
  PROVE  /\ Append(s, e) \in Seq(S)
         /\ Len(Append(s, e)) = Len(s) + 1
         /\ Append(s, e)[Len(s) + 1] = e
         /\ \A i \in 1 .. Len(s) : Append(s, e)[i] = s[i]
  OBVIOUS

LEMMA SeqOfLarger ==
  ASSUME NEW S, NEW T, S \subseteq T, NEW s \in Seq(S)
  PROVE  s \in Seq(T)
  OBVIOUS

LEMMA TailOf ==
  ASSUME NEW S, NEW s \in Seq(S), s # << >>
  PROVE  /\ Head(s) \in S /\ Tail(s) \in Seq(S) /\ Len(Tail(s)) = Len(s) - 1
         /\ Head(s) = s[1]
         /\ \A i \in 1 .. Len(s) - 1 : Tail(s)[i] = s[i + 1]
  OBVIOUS

LEMMA FrontOf ==
  ASSUME NEW S, NEW s \in Seq(S), s # << >>
  PROVE  /\ s[Len(s)] \in S
         /\ SubSeq(s, 1, Len(s) - 1) \in Seq(S)
         /\ Len(SubSeq(s, 1, Len(s) - 1)) = Len(s) - 1
         /\ \A i \in 1 .. Len(s) - 1 : SubSeq(s, 1, Len(s) - 1)[i] = s[i]
<1>1. Len(s) \in Nat /\ Len(s) >= 1 /\ \A i \in 1 .. Len(s) : s[i] \in S
  OBVIOUS
<1> DEFINE n == Len(s) - 1
<1>2. n \in Nat /\ n <= Len(s)
  BY <1>1
<1> HIDE DEF n
<1>3. /\ SubSeq(s, 1, n) \in Seq(S) /\ Len(SubSeq(s, 1, n)) = n
      /\ \A i \in 1 .. n : SubSeq(s, 1, n)[i] = s[i]
  BY <1>2
<1> QED
  BY <1>1, <1>3 DEF n

LEMMA InitType == Init => TypeInv
<1> SUFFICES ASSUME Init PROVE TypeInv
  OBVIOUS
<1>1. RowType
  BY Bounds DEF Init, RowType
<1>2. DaemonType
  BY Bounds DEF Init, DaemonType, Pcs
<1>3. L1Type
  BY Bounds DEF Init, L1Type
<1>4. Control
  BY DEF Init, Control
<1> QED
  BY <1>1, <1>2, <1>3, <1>4, TypeParts DEF TypeInv

-----------------------------------------------------------------------------
(* The outbox. *)

LEMMA UpdateStateType ==
  ASSUME RowType, UNCHANGED sent, NEW key, NEW s \in SagaStates, UpdateState(key, s)
  PROVE  /\ RowType'
         /\ \A b \in BatchIds : state'[b] = IF b = key /\ state[b] # "none" THEN s ELSE state[b]
<1>1. CASE key \in BatchIds /\ state[key] # "none"
  <2>1. state' \in [BatchIds -> SagaStates \cup {"none"}] /\ stale' \in [BatchIds -> BOOLEAN]
    BY <1>1, Zenon DEF RowType, UpdateState
  <2>2. older' \in SUBSET (BatchIds \X BatchIds)
    BY <1>1 DEF RowType, UpdateState, Touch
  <2>3. \A b \in BatchIds : state'[b] = IF b = key /\ state[b] # "none" THEN s ELSE state[b]
    BY <1>1 DEF RowType, UpdateState
  <2>4. UNCHANGED <<txHash, price>>
    BY <1>1 DEF UpdateState
  <2> QED
    BY <2>1, <2>2, <2>3, <2>4 DEF RowType
<1>2. CASE ~(key \in BatchIds /\ state[key] # "none")
  BY <1>2 DEF RowType, UpdateState, rowVars
<1> QED
  BY <1>1, <1>2

LEMMA UpdateSubmissionType ==
  ASSUME RowType, L1Type, UNCHANGED sent, NEW key, NEW t \in 0 .. Len(sent), NEW p \in Nat,
         UpdateSubmission(key, t, p)
  PROVE  /\ RowType'
         /\ \A b \in BatchIds :
              state'[b] = IF b = key /\ state[b] # "none" THEN "SubmittedToL1" ELSE state[b]
<1>1. CASE key \in BatchIds /\ state[key] # "none"
  <2>1. t \in 0 .. MaxTxs
    BY Bounds DEF L1Type
  <2>2. state' \in [BatchIds -> SagaStates \cup {"none"}] /\ stale' \in [BatchIds -> BOOLEAN]
    BY <1>1, Zenon DEF RowType, UpdateSubmission, SagaStates
  <2>3. txHash' \in [BatchIds -> 0 .. MaxTxs] /\ \A b \in BatchIds : txHash'[b] <= Len(sent)
    <3>1. txHash' = [txHash EXCEPT ![key] = t]
      BY <1>1 DEF UpdateSubmission
    <3>2. t <= Len(sent)
      BY DEF L1Type
    <3> QED
      BY <1>1, <2>1, <3>1, <3>2 DEF RowType
  <2>4. price' \in [BatchIds -> Nat]
    BY <1>1, Zenon DEF RowType, UpdateSubmission
  <2>5. older' \in SUBSET (BatchIds \X BatchIds)
    BY <1>1 DEF RowType, UpdateSubmission, Touch
  <2>6. \A b \in BatchIds :
          state'[b] = IF b = key /\ state[b] # "none" THEN "SubmittedToL1" ELSE state[b]
    BY <1>1 DEF RowType, UpdateSubmission
  <2> QED
    BY <2>2, <2>3, <2>4, <2>5, <2>6, Zenon DEF RowType
<1>2. CASE ~(key \in BatchIds /\ state[key] # "none")
  BY <1>2, Zenon DEF RowType, UpdateSubmission, rowVars
<1> QED
  BY <1>1, <1>2

-----------------------------------------------------------------------------
(* The steps, one lemma for each kind. *)

LEMMA RowFrame ==
  ASSUME RowType, UNCHANGED <<rowVars, sent>>
  PROVE  RowType'
  BY DEF RowType, rowVars

LEMMA L1Frame ==
  ASSUME L1Type, UNCHANGED <<l1Vars, lifeStart>>
  PROVE  L1Type'
  BY DEF L1Type, l1Vars

\* The daemon gets to a place where it works on no batch.
LEMMA AtRest ==
  ASSUME DaemonType, L1Type, UNCHANGED <<sent, offChainOnly>>,
         files' \in SUBSET BatchIds, todo' \in SUBSET BatchIds, resume' \in Seq(BatchIds),
         pc' \in {"down", "recover", "resume", "idle"},
         UNCHANGED <<cur, tx>> \/ (cur' = NoBatch /\ tx' = 0)
  PROVE  DaemonType' /\ Control'
<1>1. tx' \in 0 .. MaxTxs /\ tx' <= Len(sent') /\ cur' \in BatchIds \cup {NoBatch}
  BY Bounds DEF DaemonType, L1Type
<1>2. pc' \in Pcs /\ offChainOnly' \in BOOLEAN
  BY DEF DaemonType, Pcs
<1>3. DaemonType'
  BY <1>1, <1>2 DEF DaemonType, Pcs
<1>4. Control'
  BY DEF Control
<1> QED
  BY <1>3, <1>4

LEMMA LoopType ==
  ASSUME TypeInv,
         WriteFile \/ SubmitError \/ AwaitReceipt \/ AwaitDropped \/ AwaitError \/ Cleanup
  PROVE  TypeInv'
<1>1. UNCHANGED <<rowVars, l1Vars, lifeStart, offChainOnly, todo, resume>>
  BY Zenon DEF WriteFile, SubmitError, AwaitReceipt, AwaitDropped, AwaitError, Cleanup
<1>2. RowType /\ DaemonType /\ L1Type /\ Control /\ UNCHANGED sent
  BY <1>1, TypeParts DEF TypeInv, l1Vars
<1>3. RowType' /\ L1Type'
  BY <1>1, <1>2, RowFrame, L1Frame
<1> SUFFICES DaemonType' /\ Control'
  BY <1>3, TypeParts DEF TypeInv
<1>4. CASE Abandon /\ files' \subseteq files
  <2>1. pc' \in {"down", "recover", "resume", "idle"} /\ cur' = NoBatch /\ tx' = 0
    BY <1>4 DEF Abandon
  <2>2. /\ files' \in SUBSET BatchIds /\ todo' \in SUBSET BatchIds /\ resume' \in Seq(BatchIds)
        /\ UNCHANGED <<sent, offChainOnly>>
    BY <1>1, <1>2, <1>4 DEF DaemonType
  <2> QED
    BY <1>2, <2>1, <2>2, AtRest
<1>5. CASE pc = "write" /\ files' = files \cup {cur} /\ pc' = "compress" /\ UNCHANGED <<cur, tx>>
  <2>1. cur \in BatchIds /\ state[cur] = "ReceivedFromExecutor" /\ state' = state
    BY <1>1, <1>2, <1>5 DEF DaemonType, Control, Pcs, rowVars
  <2>2. DaemonType'
    BY <1>1, <1>2, <1>5, <2>1 DEF DaemonType, Pcs
  <2>3. Control'
    BY <1>1, <1>2, <1>5, <2>1, Zenon DEF Control
  <2> QED
    BY <2>2, <2>3
<1>6. CASE AwaitReceipt
  <2>1. pc = "await" /\ pc' = "record" /\ UNCHANGED <<cur, tx, files>> /\ state' = state
    BY <1>1, <1>6 DEF AwaitReceipt, rowVars
  <2>2. DaemonType'
    BY <1>1, <1>2, <2>1 DEF DaemonType, Pcs
  <2>3. Control'
    BY <1>1, <1>2, <2>1, Zenon DEF Control
  <2> QED
    BY <2>2, <2>3
<1>7. CASE SubmitError \/ AwaitDropped \/ AwaitError \/ Cleanup
  <2>1. Abandon /\ (files' = files \ {cur} \/ files' = files)
    BY <1>7, Zenon DEF SubmitError, AwaitDropped, AwaitError, Cleanup
  <2> QED
    BY <1>4, <2>1
<1>8. CASE WriteFile
  BY <1>4, <1>5, <1>8 DEF WriteFile
<1> QED
  BY <1>6, <1>7, <1>8

LEMMA RecoverType ==
  ASSUME TypeInv,
         \/ Start \/ RecoverDone \/ ResumeDone
         \/ \E b \in BatchIds : RecoverInterrupted(b) \/ RecoverSkip(b)
  PROVE  TypeInv'
<1>1. UNCHANGED <<rowVars, l1Vars, lifeStart, offChainOnly, files, cur, tx>>
  BY Zenon DEF Start, RecoverDone, ResumeDone, RecoverInterrupted, RecoverSkip
<1>2. RowType /\ DaemonType /\ L1Type /\ UNCHANGED sent
  BY <1>1, TypeParts DEF TypeInv, l1Vars
<1>3. RowType' /\ L1Type'
  BY <1>1, <1>2, RowFrame, L1Frame
<1>4. files' \in SUBSET BatchIds /\ todo \in SUBSET BatchIds /\ resume \in Seq(BatchIds)
  BY <1>1, <1>2 DEF DaemonType
<1>5. ASSUME NEW b \in BatchIds, RecoverInterrupted(b) \/ RecoverSkip(b)
      PROVE  /\ pc' = "recover" /\ todo' \in SUBSET BatchIds /\ resume' \in Seq(BatchIds)
  <2>1. /\ pc' = "recover" /\ todo' = todo \ {b}
        /\ resume' = Append(resume, b) \/ resume' = resume
    BY <1>5, Zenon DEF RecoverInterrupted, RecoverSkip
  <2> QED
    BY <1>4, <2>1, Appended
<1>6. CASE Start
  <2>1. pc' = "recover" /\ resume' = resume /\ (todo' = GetUnconfirmedBatches \/ todo' = {})
    BY <1>6, Zenon DEF Start
  <2>2. GetUnconfirmedBatches \in SUBSET BatchIds
    BY DEF GetUnconfirmedBatches
  <2> QED
    BY <1>1, <1>2, <1>3, <1>4, <2>1, <2>2, AtRest, TypeParts DEF TypeInv
<1>7. CASE RecoverDone \/ ResumeDone
  <2>1. pc' \in {"resume", "idle"} /\ todo' = todo /\ resume' = resume
    BY <1>7, Zenon DEF RecoverDone, ResumeDone
  <2> QED
    BY <1>1, <1>2, <1>3, <1>4, <2>1, AtRest, TypeParts DEF TypeInv
<1>8. CASE \E b \in BatchIds : RecoverInterrupted(b) \/ RecoverSkip(b)
  <2>1. pc' = "recover" /\ todo' \in SUBSET BatchIds /\ resume' \in Seq(BatchIds)
    BY <1>5, <1>8, Zenon
  <2> QED
    BY <1>1, <1>2, <1>3, <1>4, <2>1, AtRest, TypeParts, Zenon DEF TypeInv
<1> QED
  BY <1>6, <1>7, <1>8

LEMMA ResumeType ==
  ASSUME TypeInv,
         \/ ResubmitError \/ ResubmitReceipt \/ ResubmitRecord \/ ResubmitConfirm
         \/ ResubmitDropped \/ ResubmitAwaitError
  PROVE  TypeInv'
<1>1. UNCHANGED <<rowVars, l1Vars, lifeStart, offChainOnly, files, todo>>
  BY Bounds, Zenon DEF ResubmitError, ResubmitReceipt, ResubmitRecord, ResubmitConfirm,
     ResubmitDropped, ResubmitAwaitError, ResumedKey, UpdateSubmission, UpdateState
<1>2. RowType /\ DaemonType /\ L1Type /\ Control /\ UNCHANGED sent
  BY <1>1, TypeParts DEF TypeInv, l1Vars
<1>3. RowType' /\ L1Type'
  BY <1>1, <1>2, RowFrame, L1Frame
<1> SUFFICES DaemonType' /\ Control'
  BY <1>3, TypeParts DEF TypeInv
<1>4. /\ files' \in SUBSET BatchIds /\ todo' \in SUBSET BatchIds /\ resume \in Seq(BatchIds)
  BY <1>1, <1>2 DEF DaemonType
<1>5. CASE ResubmitError
  <2>1. pc' = "resume" /\ resume' = Tail(resume) /\ resume # << >> /\ UNCHANGED <<cur, tx>>
    BY <1>5, Zenon DEF ResubmitError
  <2>2. resume' \in Seq(BatchIds)
    BY <1>4, <2>1, TailOf
  <2> QED
    BY <1>1, <1>2, <1>4, <2>1, <2>2, AtRest
<1>6. CASE ResubmitConfirm \/ ResubmitDropped \/ ResubmitAwaitError
  <2>1. pc' = "resume" /\ cur' = NoBatch /\ tx' = 0 /\ resume' = resume
    BY <1>6, Zenon DEF ResubmitConfirm, ResubmitDropped, ResubmitAwaitError, NextResumed
  <2> QED
    BY <1>1, <1>2, <1>4, <2>1, AtRest
<1>7. CASE ResubmitReceipt \/ ResubmitRecord
  <2>1. /\ \/ pc = "resumeAwait" /\ pc' = "resumeRecord"
           \/ pc = "resumeRecord" /\ pc' = "resumeConfirm"
        /\ UNCHANGED <<cur, tx, resume>>
    BY <1>7, Zenon DEF ResubmitReceipt, ResubmitRecord
  <2>2. DaemonType'
    BY <1>1, <1>2, <2>1, Zenon DEF DaemonType, Pcs
  <2>3. Control'
    BY <1>1, <1>2, <2>1, Zenon DEF Control
  <2> QED
    BY <2>2, <2>3
<1> QED
  BY <1>5, <1>6, <1>7

\* The steps that write a row.
LEMMA RowStepType ==
  ASSUME TypeInv,
         \/ Compress \/ SubmitOffChain \/ Record \/ Confirm \/ RecordBump
         \/ \E b \in BatchIds : Fetch(b) \/ Age(b) \/ RecoverGiveUp(b)
  PROVE  TypeInv'
<1>1. UNCHANGED <<l1Vars, lifeStart, offChainOnly, files, resume>>
  BY Zenon DEF Compress, SubmitOffChain, Record, Confirm, RecordBump, Fetch, Age, RecoverGiveUp,
     daemonVars
<1>2. RowType /\ DaemonType /\ L1Type /\ Control
  BY TypeParts DEF TypeInv
<1>3. L1Type' /\ UNCHANGED sent
  BY <1>1, <1>2 DEF L1Type, l1Vars
<1> SUFFICES RowType' /\ DaemonType' /\ Control'
  BY <1>3, TypeParts DEF TypeInv
<1>4. CASE Compress
  <2>1. \/ UpdateState(cur, "Compressed")
        \/ UNCHANGED rowVars
    BY <1>4 DEF Compress, OrLogged
  <2>2. RowType' /\ state'[cur] \in Submitting
    <3>1. cur \in BatchIds /\ state[cur] = "ReceivedFromExecutor"
      BY <1>2, <1>4, Zenon DEF Compress, DaemonType, Control, Pcs
    <3>2. CASE UpdateState(cur, "Compressed")
      BY <1>2, <1>3, <3>1, <3>2, UpdateStateType, Zenon DEF SagaStates, Submitting
    <3>3. CASE UNCHANGED rowVars
      BY <1>2, <1>3, <3>1, <3>3, Zenon DEF RowType, rowVars, Submitting
    <3> QED
      BY <2>1, <3>2, <3>3
  <2>3. DaemonType'
    BY <1>1, <1>2, <1>3, <1>4, Zenon DEF Compress, DaemonType, Pcs
  <2>4. Control'
    BY <1>1, <1>4, <2>2 DEF Compress, Control
  <2> QED
    BY <2>2, <2>3, <2>4
<1>5. CASE SubmitOffChain
  <2>1. cur \in BatchIds /\ state[cur] \in Submitting /\ offChainOnly
    BY <1>2, <1>5, Zenon DEF SubmitOffChain, DaemonType, Control, Pcs
  <2>2. CASE UpdateSubmission(cur, 0, 0)
    <3>1. RowType' /\ state'[cur] = "SubmittedToL1"
      BY <1>2, <1>3, <2>1, <2>2, UpdateSubmissionType DEF Submitting, L1Type
    <3> QED
      BY <1>1, <1>2, <1>3, <1>5, <2>1, <3>1 DEF SubmitOffChain, DaemonType, Control, Pcs
  <2>3. CASE UNCHANGED rowVars
    BY <1>1, <1>2, <1>3, <1>5, <2>1, <2>3
       DEF SubmitOffChain, RowType, DaemonType, Control, Pcs, rowVars
  <2> QED
    BY <1>5, <2>2, <2>3, Zenon DEF SubmitOffChain, OrLogged
<1>6. CASE Record
  <2>1. /\ cur \in BatchIds /\ state[cur] \in Submitting
        /\ tx \in 1 .. Len(sent) /\ sent[tx] \in Tx /\ sent[tx].batch = cur
    BY <1>2, <1>6 DEF Record, DaemonType, Control, Pcs, L1Type
  <2>2. pc' = "confirm" /\ UNCHANGED <<cur, tx, todo>>
    BY <1>6, Zenon DEF Record
  <2>3. DaemonType'
    BY <1>1, <1>2, <1>3, <2>1, <2>2, Zenon DEF DaemonType, Pcs
  <2>4. ASSUME NEW p \in Nat, UpdateSubmission(cur, tx, p) PROVE RowType' /\ Control'
    <3>1. tx \in 0 .. Len(sent)
      BY <2>1
    <3>2. RowType' /\ state'[cur] = "SubmittedToL1"
      BY <1>2, <1>3, <2>1, <2>4, <3>1, UpdateSubmissionType, Zenon DEF Submitting
    <3> QED
      BY <1>1, <1>3, <2>1, <2>2, <3>2 DEF Control
  <2>5. CASE UNCHANGED rowVars
    BY <1>1, <1>2, <1>3, <2>1, <2>2, <2>3, <2>5 DEF RowType, Control, rowVars
  <2>6. sent[tx].gas \in Nat
    BY <2>1, Zenon DEF Tx
  <2> QED
    BY <1>6, <2>3, <2>4, <2>5, <2>6, Zenon DEF Record, OrLogged
<1>7. CASE Confirm
  <2>1. cur \in BatchIds /\ pc' = "cleanup" /\ UNCHANGED <<cur, tx, todo>>
    BY <1>2, <1>7, Zenon DEF Confirm, DaemonType, Pcs
  <2>2. DaemonType'
    BY <1>1, <1>2, <1>3, <2>1, Zenon DEF DaemonType, Pcs
  <2>3. Control'
    BY <1>1, <1>2, <1>3, <1>7, <2>1 DEF Confirm, Control
  <2>4. CASE UpdateState(cur, "ConfirmedOnL1")
    BY <1>2, <1>3, <2>2, <2>3, <2>4, UpdateStateType, Zenon DEF SagaStates
  <2>5. CASE UNCHANGED rowVars
    BY <1>2, <1>3, <2>2, <2>3, <2>5, Zenon DEF RowType, rowVars
  <2> QED
    BY <1>7, <2>2, <2>3, <2>4, <2>5, Zenon DEF Confirm, OrLogged
<1>8. CASE RecordBump
  <2>1. pc' = "recover" /\ cur' = NoBatch /\ tx' = 0 /\ UNCHANGED todo
    BY <1>8, Zenon DEF RecordBump
  <2>2. DaemonType' /\ Control'
    BY <1>1, <1>2, <1>3, <2>1, Bounds DEF DaemonType, Control, Pcs, L1Type
  <2>3. tx \in 0 .. Len(sent)
    BY <1>2 DEF DaemonType, L1Type
  <2>4. CASE UpdateSubmission(cur, tx, 0)
    BY <1>2, <1>3, <2>2, <2>3, <2>4, UpdateSubmissionType, Zenon
  <2>5. CASE UNCHANGED rowVars
    BY <1>2, <1>3, <2>2, <2>5, Zenon DEF RowType, rowVars
  <2> QED
    BY <1>8, <2>2, <2>4, <2>5, Zenon DEF RecordBump, OrLogged
<1>9. ASSUME NEW b \in BatchIds, Fetch(b) PROVE RowType' /\ DaemonType' /\ Control'
  <2>1. CASE state[b] = "none"
    <3>1. /\ state' = [state EXCEPT ![b] = "ReceivedFromExecutor"]
          /\ Touch(b) /\ pc' = "write" /\ cur' = b /\ UNCHANGED <<txHash, price, stale>>
      BY <1>9, <2>1, Zenon DEF Fetch, InsertOrIgnore
    <3>2. RowType' /\ state'[b] = "ReceivedFromExecutor"
      BY <1>2, <1>3, <3>1, Zenon DEF RowType, Touch, SagaStates
    <3> QED
      BY <1>1, <1>2, <1>3, <1>9, <3>1, <3>2, Zenon DEF Fetch, DaemonType, Control, Pcs
  <2>2. CASE state[b] # "none"
    BY <1>1, <1>2, <1>3, <1>9, <2>2, Zenon
       DEF Fetch, InsertOrIgnore, RowType, DaemonType, Control, rowVars
  <2> QED
    BY <2>1, <2>2, Zenon
<1>10. ASSUME NEW b \in BatchIds, Age(b) PROVE RowType' /\ DaemonType' /\ Control'
  BY <1>1, <1>2, <1>3, <1>10 DEF Age, RowType, DaemonType, Control, daemonVars
<1>11. ASSUME NEW b \in BatchIds, RecoverGiveUp(b) PROVE RowType' /\ DaemonType' /\ Control'
  <2>1. pc = "recover" /\ todo' = todo \ {b} /\ UNCHANGED <<pc, cur, tx>>
    BY <1>11, Zenon DEF RecoverGiveUp
  <2>2. DaemonType' /\ Control'
    BY <1>1, <1>2, <1>3, <2>1, Zenon DEF DaemonType, Control
  <2>3. CASE UpdateState(b, "Failed")
    BY <1>2, <1>3, <2>2, <2>3, UpdateStateType, Zenon DEF SagaStates
  <2>4. CASE UNCHANGED rowVars
    BY <1>2, <1>3, <2>2, <2>4, Zenon DEF RowType, rowVars
  <2> QED
    BY <1>11, <2>2, <2>3, <2>4, Zenon DEF RecoverGiveUp, OrLogged
<1> QED
  BY <1>4, <1>5, <1>6, <1>7, <1>8, <1>9, <1>10, <1>11, Zenon

\* What a broadcast adds to L1.
LEMMA BroadcastEffect ==
  ASSUME TypeInv, NEW b \in BatchIds, NEW gas \in Nat, NEW bump \in BOOLEAN,
         Broadcast(b, gas, bump), UNCHANGED <<rowVars, lifeStart>>
  PROVE  /\ L1Type' /\ RowType'
         /\ tx' = Len(sent) + 1 /\ Len(sent') = Len(sent) + 1 /\ Len(sent) \in Nat
         /\ tx' \in 1 .. MaxTxs
         /\ \A t \in 1 .. Len(sent) : sent'[t] = sent[t] /\ sent[t] \in Tx
         /\ sent'[Len(sent) + 1] = [batch |-> b, gas |-> gas, nonce |-> NextNonce, bump |-> bump]
<1> DEFINE r == [batch |-> b, gas |-> gas, nonce |-> NextNonce, bump |-> bump]
<1>1. mined \in Seq([tx : 1 .. Len(sent), ok : BOOLEAN]) /\ sent \in Seq(Tx)
  BY Zenon DEF TypeInv, TypeOK
<1>2. NextNonce \in Nat
  BY <1>1 DEF NextNonce
<1>3. r \in Tx
  BY <1>2, Zenon DEF Tx
<1>4. sent' = Append(sent, r) /\ tx' = Len(sent) + 1 /\ pool' = Len(sent) + 1
  BY Zenon DEF Broadcast
<1> HIDE DEF r
<1>5. /\ sent' \in Seq(Tx) /\ Len(sent') = Len(sent) + 1 /\ sent'[Len(sent) + 1] = r
      /\ \A t \in 1 .. Len(sent) : sent'[t] = sent[t]
  BY <1>1, <1>3, <1>4, Appended
<1>6. \A t \in 1 .. Len(sent) : sent[t] \in Tx
  BY <1>1
<1>7. Len(sent) \in Nat /\ Len(sent) < MaxTxs
  BY <1>1, Bounds DEF Broadcast
<1>8. mined' \in Seq([tx : 1 .. Len(sent'), ok : BOOLEAN])
  <2>1. mined' = mined
    BY Zenon DEF Broadcast
  <2> DEFINE A == [tx : 1 .. Len(sent), ok : BOOLEAN]
             B == [tx : 1 .. Len(sent'), ok : BOOLEAN]
  <2>2. A \subseteq B
    BY <1>5, <1>7
  <2>3. mined \in Seq(A)
    BY <1>1, Zenon
  <2> HIDE DEF A, B
  <2>4. mined' \in Seq(B)
    BY <2>1, <2>2, <2>3, SeqOfLarger, Zenon
  <2> QED
    BY <2>4, Zenon DEF B
<1>9. L1Type'
  <2>1. /\ reorgs \in 0 .. MaxReorgs /\ lifeStart \in 0 .. Len(sent) /\ everMined \subseteq 1 .. Len(sent)
        /\ UNCHANGED <<reorgs, lifeStart, everMined>>
    BY Zenon DEF Broadcast, TypeInv, TypeOK
  <2>2. \A n \in Nat : /\ 0 .. n \subseteq 0 .. n + 1 /\ 1 .. n \subseteq 1 .. n + 1
                      /\ n + 1 \in 0 .. n + 1 /\ (n < MaxTxs => n + 1 <= MaxTxs)
    BY Bounds
  <2> QED
    BY <1>4, <1>5, <1>7, <1>8, <2>1, <2>2, Zenon DEF L1Type
<1>10. RowType'
  <2>1. RowType /\ UNCHANGED <<state, txHash, price, stale, older>>
    BY TypeParts, Zenon DEF TypeInv, rowVars
  <2>2. ASSUME NEW c \in BatchIds PROVE txHash[c] <= Len(sent')
    <3>1. txHash[c] \in 0 .. MaxTxs /\ txHash[c] <= Len(sent) /\ txHash' = txHash
      BY <2>1, Zenon DEF RowType
    <3>2. \A m \in 0 .. MaxTxs, n \in Nat : m <= n => m <= n + 1
      BY Bounds
    <3> QED
      BY <1>5, <1>7, <3>1, <3>2, Zenon
  <2> QED
    BY <2>1, <2>2, Zenon DEF RowType
<1>11. tx' \in 1 .. MaxTxs
  BY <1>4, <1>7, Bounds
<1>12. sent'[Len(sent) + 1] = [batch |-> b, gas |-> gas, nonce |-> NextNonce, bump |-> bump]
  BY <1>5, Zenon DEF r
<1> QED
  BY <1>4, <1>5, <1>6, <1>7, <1>9, <1>10, <1>11, <1>12, Zenon

\* The price of a bump.
LEMMA BumpedPriceBounds ==
  ASSUME NEW current \in Nat, NEW original \in Nat
  PROVE  /\ BumpedPrice(current, original) \in Nat
         /\ original # 0 => BumpedPrice(current, original) <= 3 * original
  BY DEF BumpedPrice

LEMMA SendType ==
  ASSUME TypeInv, Submit \/ Resubmit \/ \E b \in BatchIds : RecoverBump(b)
  PROVE  TypeInv'
<1>1. RowType /\ DaemonType /\ L1Type /\ Control
  BY TypeParts DEF TypeInv
<1>2. CASE Submit
  <2>1. cur \in BatchIds /\ state[cur] \in Submitting
    BY <1>1, <1>2, Zenon DEF Submit, DaemonType, Control, Pcs
  <2>2. /\ Broadcast(cur, GasPrice, FALSE) /\ pc' = "await"
        /\ UNCHANGED <<rowVars, files, cur, todo, resume, offChainOnly, lifeStart>>
    BY <1>2, Zenon DEF Submit
  <2>3. /\ L1Type' /\ RowType'
        /\ tx' = Len(sent) + 1 /\ Len(sent') = Len(sent) + 1 /\ Len(sent) \in Nat
        /\ tx' \in 1 .. MaxTxs
        /\ sent'[Len(sent) + 1] =
             [batch |-> cur, gas |-> GasPrice, nonce |-> NextNonce, bump |-> FALSE]
    <3>1. FALSE \in BOOLEAN /\ GasPrice \in Nat /\ UNCHANGED <<rowVars, lifeStart>>
      BY <2>2, Bounds, Zenon
    <3> QED
      BY <2>1, <2>2, <3>1, BroadcastEffect, Zenon
  <2>4. DaemonType'
    <3>1. tx' \in 0 .. MaxTxs /\ tx' <= Len(sent')
      BY <2>3, Bounds
    <3>2. pc' \in Pcs
      BY <2>2, Zenon DEF Pcs
    <3> QED
      BY <1>1, <2>1, <2>2, <3>1, <3>2, Zenon DEF DaemonType
  <2>5. Control'
    <3>1. state'[cur'] \in Submitting /\ pc' = "await"
      BY <2>1, <2>2, Zenon DEF rowVars
    <3>2. tx' # 0 /\ sent'[tx'].batch = cur' /\ ~sent'[tx'].bump
      <4>1. tx' # 0
        BY <2>3
      <4>2. PICK r : r = [batch |-> cur, gas |-> GasPrice, nonce |-> NextNonce, bump |-> FALSE]
        BY Zenon
      <4>3. r.batch = cur /\ ~r.bump
        BY <4>2
      <4>4. sent'[tx'] = r
        BY <2>3, <4>2, Zenon
      <4> QED
        BY <2>2, <4>1, <4>3, <4>4, Zenon
    <3> QED
      BY <3>1, <3>2, Zenon DEF Control
  <2> QED
    BY <2>3, <2>4, <2>5, TypeParts, Zenon DEF TypeInv
<1>3. CASE Resubmit
  <2>1. resume # << >> /\ Head(resume) \in BatchIds /\ Tail(resume) \in Seq(BatchIds)
    BY <1>1, <1>3 DEF Resubmit, DaemonType
  <2>2. /\ Broadcast(Head(resume), GasPrice, FALSE) /\ pc' = "resumeAwait"
        /\ cur' = Head(resume) /\ resume' = Tail(resume)
        /\ UNCHANGED <<rowVars, files, todo, offChainOnly, lifeStart>>
    BY <1>3, Zenon DEF Resubmit
  <2>3. /\ L1Type' /\ RowType'
        /\ tx' = Len(sent) + 1 /\ Len(sent') = Len(sent) + 1 /\ Len(sent) \in Nat
        /\ tx' \in 1 .. MaxTxs
        /\ sent'[Len(sent) + 1] =
             [batch |-> Head(resume), gas |-> GasPrice, nonce |-> NextNonce, bump |-> FALSE]
    <3>1. FALSE \in BOOLEAN /\ GasPrice \in Nat /\ UNCHANGED <<rowVars, lifeStart>>
      BY <2>2, Bounds, Zenon
    <3> QED
      BY <2>1, <2>2, <3>1, BroadcastEffect, Zenon
  <2>4. DaemonType'
    BY <1>1, <2>1, <2>2, <2>3, Bounds DEF DaemonType, Pcs
  <2>5. Control'
    BY <2>1, <2>2, <2>3 DEF Control
  <2> QED
    BY <2>3, <2>4, <2>5, TypeParts, Zenon DEF TypeInv
<1>4. ASSUME NEW b \in BatchIds, RecoverBump(b) PROVE TypeInv'
  <2> DEFINE p == BumpedPrice(sent[txHash[b]].gas, price[b])
  <2>1. txHash[b] \in 1 .. Len(sent) /\ state[b] = "SubmittedToL1" /\ price[b] \in Nat
    <3>1. Stuck(b)
      BY <1>4, Zenon DEF RecoverBump
    <3>2. state[b] = "SubmittedToL1" /\ txHash[b] # 0
      BY <3>1, Zenon DEF Stuck
    <3>3. txHash[b] \in Nat /\ txHash[b] <= Len(sent) /\ price[b] \in Nat /\ Len(sent) \in Nat
      BY <1>1 DEF RowType, L1Type
    <3> QED
      BY <3>2, <3>3
  <2>2. sent[txHash[b]].gas \in Nat
    <3>1. sent[txHash[b]] \in Tx
      BY <1>1, <2>1 DEF L1Type
    <3> QED
      BY <3>1, Zenon DEF Tx
  <2>3. p \in Nat
    BY <2>1, <2>2, BumpedPriceBounds, Zenon
  <2>4. /\ Broadcast(b, p, TRUE) /\ pc' = "bumped" /\ cur' = b /\ todo' = todo \ {b}
        /\ UNCHANGED <<rowVars, files, resume, offChainOnly, lifeStart>>
    BY <1>4, Zenon DEF RecoverBump
  <2> HIDE DEF p
  <2>5. /\ L1Type' /\ RowType'
        /\ tx' = Len(sent) + 1 /\ Len(sent') = Len(sent) + 1 /\ Len(sent) \in Nat
        /\ tx' \in 1 .. MaxTxs
        /\ sent'[Len(sent) + 1] =
             [batch |-> b, gas |-> p, nonce |-> NextNonce, bump |-> TRUE]
    <3>1. TRUE \in BOOLEAN /\ UNCHANGED <<rowVars, lifeStart>>
      BY <2>4, Zenon
    <3> QED
      BY <2>3, <2>4, <3>1, BroadcastEffect, Zenon
  <2>6. DaemonType'
    <3>1. /\ files' \in SUBSET BatchIds /\ offChainOnly' \in BOOLEAN
          /\ todo' \in SUBSET BatchIds /\ resume' \in Seq(BatchIds)
      BY <1>1, <2>4, Zenon DEF DaemonType
    <3>2. pc' \in Pcs /\ cur' \in BatchIds /\ tx' \in 0 .. MaxTxs /\ tx' <= Len(sent')
      BY <2>4, <2>5, Bounds DEF Pcs
    <3> QED
      BY <3>1, <3>2, Zenon DEF DaemonType
  <2>7. Control'
    BY <2>1, <2>4, <2>5 DEF Control, rowVars
  <2> QED
    BY <2>5, <2>6, <2>7, TypeParts, Zenon DEF TypeInv
<1> QED
  BY <1>2, <1>3, <1>4

\* The daemon does nothing while L1 moves on.
LEMMA DaemonFrame ==
  ASSUME DaemonType, Control, UNCHANGED <<files, offChainOnly, daemonVars, sent, state>>
  PROVE  DaemonType' /\ Control'
  BY Zenon DEF DaemonType, Control, daemonVars

LEMMA ChainType ==
  ASSUME TypeInv, Evict \/ Reorg \/ Crash \/ \E ok \in BOOLEAN : Mine(ok)
  PROVE  TypeInv'
<1> DEFINE R == [tx : 1 .. Len(sent), ok : BOOLEAN]
<1>1. RowType /\ DaemonType /\ L1Type /\ Control
  BY TypeParts, Zenon DEF TypeInv
<1>2. /\ mined \in Seq(R) /\ Len(sent) \in Nat /\ pool \in 0 .. Len(sent)
      /\ reorgs \in 0 .. MaxReorgs /\ everMined \subseteq 1 .. Len(sent)
  BY <1>1 DEF L1Type
<1>3. CASE Crash
  <2>1. /\ lifeStart' = Len(sent) /\ pc' = "down" /\ cur' = NoBatch /\ tx' = 0
        /\ todo' = {} /\ resume' = << >>
        /\ UNCHANGED <<rowVars, files, offChainOnly, l1Vars>>
    BY <1>3, Zenon DEF Crash
  <2>2. L1Type' /\ UNCHANGED sent
    BY <1>1, <2>1 DEF L1Type, l1Vars
  <2>3. files' \in SUBSET BatchIds /\ todo' \in SUBSET BatchIds /\ resume' \in Seq(BatchIds)
    BY <1>1, <2>1 DEF DaemonType
  <2>4. DaemonType' /\ Control'
    BY <1>1, <2>1, <2>2, <2>3, AtRest, Zenon
  <2> QED
    BY <1>1, <2>1, <2>2, <2>4, RowFrame, TypeParts, Zenon DEF TypeInv
<1>4. ASSUME UNCHANGED <<rowVars, files, daemonVars, sent, offChainOnly, lifeStart>>,
             mined' \in Seq(R), pool' \in 0 .. Len(sent), reorgs' \in 0 .. MaxReorgs,
             everMined' \subseteq 1 .. Len(sent)
      PROVE  TypeInv'
  <2>1. L1Type'
    BY <1>1, <1>4, Zenon DEF L1Type
  <2>2. DaemonType' /\ Control'
    BY <1>1, <1>4, DaemonFrame, Zenon DEF rowVars
  <2> QED
    BY <1>1, <1>4, <2>1, <2>2, RowFrame, TypeParts, Zenon DEF TypeInv
<1>5. CASE Evict
  <2>1. /\ UNCHANGED <<rowVars, files, daemonVars, sent, offChainOnly, lifeStart>>
        /\ pool' = 0 /\ UNCHANGED <<mined, reorgs, everMined>>
    BY <1>5, Zenon DEF Evict
  <2> QED
    BY <1>2, <1>4, <2>1
<1>6. CASE Reorg
  <2>1. /\ UNCHANGED <<rowVars, files, daemonVars, sent, offChainOnly, lifeStart, everMined>>
        /\ mined # << >> /\ mined' = SubSeq(mined, 1, Len(mined) - 1)
        /\ pool' = mined[Len(mined)].tx /\ reorgs < MaxReorgs /\ reorgs' = reorgs + 1
    BY <1>6, Zenon DEF Reorg
  <2>2. mined' \in Seq(R) /\ mined[Len(mined)] \in R
    BY <1>2, <2>1, FrontOf, Zenon
  <2>3. pool' \in 0 .. Len(sent) /\ reorgs' \in 0 .. MaxReorgs
    BY <1>2, <2>1, <2>2, Bounds
  <2> QED
    BY <1>2, <1>4, <2>1, <2>2, <2>3, Zenon
<1>7. ASSUME NEW ok \in BOOLEAN, Mine(ok) PROVE TypeInv'
  <2>1. /\ UNCHANGED <<rowVars, files, daemonVars, sent, offChainOnly, lifeStart, reorgs>>
        /\ pool # 0 /\ mined' = Append(mined, [tx |-> pool, ok |-> ok])
        /\ everMined' = everMined \cup {pool} /\ pool' = 0
    BY <1>7, Zenon DEF Mine
  <2>2. pool \in 1 .. Len(sent) /\ [tx |-> pool, ok |-> ok] \in R
    BY <1>2, <2>1
  <2>3. mined' \in Seq(R)
    BY <1>2, <2>1, <2>2, Appended, Zenon
  <2>4. everMined' \subseteq 1 .. Len(sent) /\ pool' \in 0 .. Len(sent)
    BY <1>2, <2>1, <2>2
  <2> QED
    BY <1>2, <1>4, <2>1, <2>3, <2>4, Zenon
<1> QED
  BY <1>3, <1>5, <1>6, <1>7

LEMMA StepType == TypeInv /\ [Next]_vars => TypeInv'
<1> SUFFICES ASSUME TypeInv, [Next]_vars PROVE TypeInv'
  OBVIOUS
<1>1. CASE UNCHANGED vars
  <2>1. RowType /\ DaemonType /\ L1Type /\ Control
    BY TypeParts, Zenon DEF TypeInv
  <2>2. UNCHANGED <<rowVars, l1Vars, lifeStart, files, offChainOnly, daemonVars, sent, state>>
    BY <1>1, Zenon DEF vars, l1Vars, rowVars
  <2> QED
    BY <2>1, <2>2, RowFrame, L1Frame, DaemonFrame, TypeParts, Zenon DEF TypeInv
<1>2. CASE Next
  BY <1>2, LoopType, RecoverType, ResumeType, RowStepType, SendType, ChainType, Zenon
     DEF Next, Daemon
<1> QED
  BY <1>1, <1>2, Zenon

LEMMA TypeInvariant == Spec => []TypeInv
  BY InitType, StepType, PTL DEF Spec

\* Every reachable state of the daemon, its outbox and its transactions is well typed.
THEOREM TypeCorrect == Spec => []TypeOK
<1>1. TypeInv => TypeOK
  BY DEF TypeInv
<1> QED
  BY <1>1, TypeInvariant, PTL

-----------------------------------------------------------------------------
(* What a step does to the rows and to the list of transactions. *)

Inserted(b) ==
  /\ state[b] = "none"
  /\ state' = [state EXCEPT ![b] = "ReceivedFromExecutor"]
  /\ UNCHANGED <<txHash, price, sent>>

Moved(b, s) ==
  /\ \/ state[b] = "ReceivedFromExecutor" /\ s = "Compressed"
     \/ state[b] \in Submitting \cup {"SubmittedToL1"} /\ s \in {"ConfirmedOnL1", "Failed"}
  /\ state' = [state EXCEPT ![b] = s]
  /\ UNCHANGED <<txHash, price, sent>>

\* p is the price to store, or 0.
Submitted(b, t, p) ==
  /\ state[b] \in Submitting \cup {"SubmittedToL1"}
  /\ t # 0 => sent[t].batch = b
  /\ p # 0 => state[b] \in Submitting /\ t # 0 /\ ~sent[t].bump /\ p = sent[t].gas
  /\ state' = [state EXCEPT ![b] = "SubmittedToL1"]
  /\ txHash' = [txHash EXCEPT ![b] = t]
  /\ price' = [price EXCEPT ![b] = IF p = 0 THEN @ ELSE p]
  /\ UNCHANGED sent

Sent(b, gas, bump) ==
  /\ sent' = Append(sent, [batch |-> b, gas |-> gas, nonce |-> NextNonce, bump |-> bump])
  /\ ~bump => /\ gas = GasPrice
              /\ \/ pc = "submit" /\ b = cur
                 \/ pc = "resume" /\ resume # << >> /\ b = Head(resume)
  /\ bump => /\ state[b] = "SubmittedToL1" /\ txHash[b] # 0
             /\ sent[txHash[b]].nonce = NextNonce
             /\ gas = BumpedPrice(sent[txHash[b]].gas, price[b])
  /\ UNCHANGED <<state, txHash, price>>

LEMMA RowSteps ==
  ASSUME TypeInv, [Next]_vars
  PROVE  \/ UNCHANGED <<state, txHash, price, sent>>
         \/ \E b \in BatchIds : Inserted(b)
         \/ \E b \in BatchIds, s \in SagaStates : Moved(b, s)
         \/ \E b \in BatchIds, t \in 0 .. Len(sent), p \in Nat : Submitted(b, t, p)
         \/ \E b \in BatchIds, gas \in Nat, bump \in BOOLEAN : Sent(b, gas, bump)
<1> DEFINE Same == UNCHANGED <<state, txHash, price, sent>>
<1>1. RowType /\ DaemonType /\ L1Type /\ Control
  BY TypeParts DEF TypeInv
<1>2. ASSUME \/ UNCHANGED vars \/ Start \/ RecoverDone \/ ResumeDone
             \/ WriteFile \/ SubmitError \/ AwaitReceipt \/ AwaitDropped \/ AwaitError \/ Cleanup
             \/ ResubmitError \/ ResubmitReceipt \/ ResubmitDropped \/ ResubmitAwaitError
             \/ Evict \/ Reorg \/ Crash \/ \E ok \in BOOLEAN : Mine(ok)
             \/ \E b \in BatchIds : RecoverInterrupted(b) \/ RecoverSkip(b) \/ Age(b)
      PROVE  Same
  BY <1>2, Zenon DEF vars, rowVars, l1Vars, Start, RecoverDone, ResumeDone, WriteFile, SubmitError,
     AwaitReceipt, AwaitDropped, AwaitError, Cleanup, ResubmitError, ResubmitReceipt,
     ResubmitDropped, ResubmitAwaitError, Evict, Reorg, Crash, Mine, RecoverInterrupted,
     RecoverSkip, Age
<1>3. ASSUME ResubmitRecord \/ ResubmitConfirm PROVE Same
  BY <1>3, Bounds, Zenon DEF ResubmitRecord, ResubmitConfirm, ResumedKey, UpdateSubmission,
     UpdateState, rowVars, l1Vars
<1>4. ASSUME NEW b \in BatchIds, Fetch(b) PROVE Same \/ Inserted(b)
  BY <1>4, Zenon DEF Fetch, InsertOrIgnore, Inserted, rowVars, l1Vars
<1>5. CASE Compress
  <2>1. cur \in BatchIds /\ state[cur] = "ReceivedFromExecutor"
    BY <1>1, <1>5, Zenon DEF Compress, DaemonType, Control, Pcs
  <2>2. Same \/ Moved(cur, "Compressed")
    BY <1>5, <2>1, Zenon DEF Compress, OrLogged, UpdateState, Moved, rowVars, l1Vars
  <2> QED
    BY <2>1, <2>2, Zenon DEF SagaStates
<1>6. CASE Confirm
  <2>1. cur \in BatchIds /\ state[cur] \in Submitting \cup {"SubmittedToL1"}
    BY <1>1, <1>6, Zenon DEF Confirm, DaemonType, Control, Pcs
  <2>2. Same \/ Moved(cur, "ConfirmedOnL1")
    BY <1>6, <2>1, Zenon DEF Confirm, OrLogged, UpdateState, Moved, Submitting, rowVars, l1Vars
  <2> QED
    BY <2>1, <2>2, Zenon DEF SagaStates
<1>7. ASSUME NEW b \in BatchIds, RecoverGiveUp(b) PROVE Same \/ Moved(b, "Failed")
  BY <1>7, Zenon DEF RecoverGiveUp, Stuck, OrLogged, UpdateState, Moved, rowVars, l1Vars
<1>8. CASE SubmitOffChain
  <2>1. cur \in BatchIds /\ state[cur] \in Submitting
    BY <1>1, <1>8, Zenon DEF SubmitOffChain, DaemonType, Control, Pcs
  <2>2. Same \/ Submitted(cur, 0, 0)
    BY <1>8, <2>1, Zenon
       DEF SubmitOffChain, OrLogged, UpdateSubmission, Submitted, Submitting, rowVars, l1Vars
  <2>3. 0 \in 0 .. Len(sent) /\ 0 \in Nat
    BY <1>1 DEF L1Type
  <2> QED
    BY <2>1, <2>2, <2>3, Zenon
<1>9. CASE Record
  <2>1. /\ cur \in BatchIds /\ state[cur] \in Submitting
        /\ tx \in 1 .. Len(sent) /\ sent[tx] \in Tx /\ sent[tx].batch = cur /\ ~sent[tx].bump
    BY <1>1, <1>9 DEF Record, DaemonType, Control, Pcs, L1Type
  <2>2. PICK p \in {0, sent[tx].gas} : UpdateSubmission(cur, tx, p) \/ UNCHANGED rowVars
    BY <1>9, Zenon DEF Record, OrLogged
  <2>3. UNCHANGED sent
    BY <1>9, Zenon DEF Record, l1Vars
  <2>4. Same \/ Submitted(cur, tx, p)
    BY <2>1, <2>2, <2>3 DEF UpdateSubmission, Submitted, Submitting, rowVars
  <2>5. p \in Nat /\ tx \in 0 .. Len(sent)
    BY <2>1, <2>2 DEF Tx
  <2> QED
    BY <2>1, <2>4, <2>5, Zenon
<1>10. CASE RecordBump
  <2>1. /\ cur \in BatchIds /\ state[cur] = "SubmittedToL1"
        /\ tx \in 0 .. Len(sent) /\ sent[tx].batch = cur
    BY <1>1, <1>10 DEF RecordBump, DaemonType, Control, Pcs, L1Type
  <2>2. Same \/ Submitted(cur, tx, 0)
    BY <1>10, <2>1, Zenon DEF RecordBump, OrLogged, UpdateSubmission, Submitted, rowVars, l1Vars
  <2> QED
    BY <2>1, <2>2, Zenon
<1>11. CASE Submit
  <2>1. cur \in BatchIds /\ GasPrice \in Nat /\ FALSE \in BOOLEAN
    BY <1>1, <1>11, Bounds, Zenon DEF Submit, DaemonType, Pcs
  <2>2. Sent(cur, GasPrice, FALSE)
    BY <1>11, Zenon DEF Submit, Broadcast, Sent, rowVars
  <2> QED
    BY <2>1, <2>2, Zenon
<1>12. CASE Resubmit
  <2>1. Head(resume) \in BatchIds /\ GasPrice \in Nat /\ FALSE \in BOOLEAN
    BY <1>1, <1>12, Bounds, TailOf, Zenon DEF Resubmit, DaemonType
  <2>2. Sent(Head(resume), GasPrice, FALSE)
    BY <1>12, Zenon DEF Resubmit, Broadcast, Sent, rowVars
  <2> QED
    BY <2>1, <2>2, Zenon
<1>13. ASSUME NEW b \in BatchIds, RecoverBump(b)
       PROVE  \E gas \in Nat, bump \in BOOLEAN : Sent(b, gas, bump)
  <2> DEFINE p == BumpedPrice(sent[txHash[b]].gas, price[b])
  <2>1. txHash[b] \in 1 .. Len(sent) /\ price[b] \in Nat
    BY <1>1, <1>13 DEF RecoverBump, Stuck, RowType, L1Type
  <2>2. sent[txHash[b]] \in Tx
    BY <1>1, <2>1 DEF L1Type
  <2>3. p \in Nat
    BY <2>1, <2>2, BumpedPriceBounds, Zenon DEF Tx
  <2>4. Sent(b, p, TRUE)
    BY <1>13, <2>1, Zenon DEF RecoverBump, Stuck, Broadcast, Sent, rowVars
  <2> QED
    BY <2>3, <2>4, Zenon
<1>14. CASE UNCHANGED vars
  BY <1>2, <1>14, Zenon
<1>15. CASE Next
  BY <1>2, <1>3, <1>4, <1>5, <1>6, <1>7, <1>8, <1>9, <1>10, <1>11, <1>12, <1>13, <1>15, Zenon
     DEF Next, Daemon, SagaStates
<1> QED
  BY <1>14, <1>15, Zenon

\* The states of the saga (saga.rs, SagaState) are only ever left for later ones, by
\* whatever the stream delivers again, bumps or recovers.
THEOREM SagaMovesForward == Spec => SagaForward
<1>1. TypeInv /\ [Next]_vars => [Forward]_vars
  <2> SUFFICES ASSUME TypeInv, [Next]_vars, NEW c \in BatchIds
               PROVE  Rank(state'[c]) > Rank(state[c]) \/ state'[c] = state[c]
    BY Zenon DEF Forward
  <2>1. state \in [BatchIds -> SagaStates \cup {"none"}]
    BY Zenon DEF TypeInv, TypeOK
  <2>2. CASE UNCHANGED <<state, txHash, price, sent>>
    BY <2>2, Zenon
  <2>3. CASE \E b \in BatchIds : Inserted(b)
    BY <2>1, <2>3 DEF Inserted, Rank
  <2>4. CASE \E b \in BatchIds, s \in SagaStates : Moved(b, s)
    BY <2>1, <2>4 DEF Moved, Submitting, Rank
  <2>5. CASE \E b \in BatchIds, t \in 0 .. Len(sent), p \in Nat : Submitted(b, t, p)
    BY <2>1, <2>5 DEF Submitted, Submitting, Rank
  <2>6. CASE \E b \in BatchIds, gas \in Nat, bump \in BOOLEAN : Sent(b, gas, bump)
    BY <2>6, Zenon DEF Sent
  <2> QED
    BY <2>2, <2>3, <2>4, <2>5, <2>6, RowSteps, Zenon
<1> QED
  BY <1>1, TypeInvariant, PTL DEF Spec, SagaForward

-----------------------------------------------------------------------------
(* Gas bumps. *)

\* A row names a transaction of its own batch; only a submitted row was ever bumped;
\* a stored price is that of a submission.
BumpInv ==
  /\ \A b \in BatchIds : txHash[b] # 0 => sent[txHash[b]].batch = b
  /\ \A b \in BatchIds : price[b] \in {0, GasPrice}
  /\ \A t \in 1 .. Len(sent) : ~sent[t].bump => sent[t].gas = GasPrice
  /\ \A t \in 1 .. Len(sent) : sent[t].bump =>
       state[sent[t].batch] \in {"SubmittedToL1", "ConfirmedOnL1", "Failed"}

\* What the list of transactions keeps when it grows.
LEMMA SentGrows ==
  ASSUME TypeInv, NEW b \in BatchIds, NEW gas \in Nat, NEW bump \in BOOLEAN, Sent(b, gas, bump)
  PROVE  /\ Len(sent) \in Nat /\ Len(sent') = Len(sent) + 1
         /\ sent'[Len(sent) + 1] = [batch |-> b, gas |-> gas, nonce |-> NextNonce, bump |-> bump]
         /\ \A t \in 1 .. Len(sent) : sent'[t] = sent[t] /\ sent[t] \in Tx
<1>1. sent \in Seq(Tx) /\ NextNonce \in Nat
  BY DEF TypeInv, TypeOK, NextNonce
<1>2. [batch |-> b, gas |-> gas, nonce |-> NextNonce, bump |-> bump] \in Tx
  BY <1>1, Zenon DEF Tx
<1>3. sent' = Append(sent, [batch |-> b, gas |-> gas, nonce |-> NextNonce, bump |-> bump])
  BY Zenon DEF Sent
<1> QED
  BY <1>1, <1>2, <1>3, Appended

LEMMA BumpInvStep ==
  ASSUME TypeInv, BumpInv, [Next]_vars
  PROVE  BumpInv'
<1>1. /\ state \in [BatchIds -> SagaStates \cup {"none"}]
      /\ txHash \in [BatchIds -> 0 .. MaxTxs] /\ \A b \in BatchIds : txHash[b] <= Len(sent)
      /\ price \in [BatchIds -> Nat] /\ sent \in Seq(Tx)
  BY Zenon DEF TypeInv, TypeOK
<1>2. \A t \in 1 .. Len(sent) : sent[t].batch \in BatchIds
  <2>1. \A t \in 1 .. Len(sent) : sent[t] \in Tx
    BY <1>1
  <2> QED
    BY <2>1, Zenon DEF Tx
<1>3. CASE UNCHANGED <<state, txHash, price, sent>>
  BY <1>3, Zenon DEF BumpInv
<1>4. CASE \E b \in BatchIds : Inserted(b)
  <2>1. PICK b \in BatchIds : Inserted(b)
    BY <1>4, Zenon
  <2> QED
    BY <1>1, <1>2, <2>1, Zenon DEF Inserted, BumpInv
<1>5. CASE \E b \in BatchIds, s \in SagaStates : Moved(b, s)
  <2>1. PICK b \in BatchIds, s \in SagaStates : Moved(b, s)
    BY <1>5, Zenon
  <2> QED
    BY <1>1, <1>2, <2>1, Zenon DEF Moved, Submitting, BumpInv
<1>6. CASE \E b \in BatchIds, t \in 0 .. Len(sent), p \in Nat : Submitted(b, t, p)
  <2>1. PICK b \in BatchIds, t \in 0 .. Len(sent), p \in Nat : Submitted(b, t, p)
    BY <1>6, Zenon
  <2>2. \A c \in BatchIds : txHash'[c] # 0 => sent'[txHash'[c]].batch = c
    BY <1>1, <2>1, Zenon DEF Submitted, BumpInv
  <2>3. p # 0 => p = GasPrice
    BY <1>1, <2>1 DEF Submitted, BumpInv
  <2>4. \A c \in BatchIds : price'[c] \in {0, GasPrice}
    BY <1>1, <2>1, <2>3, Zenon DEF Submitted, BumpInv
  <2>5. \A u \in 1 .. Len(sent') : sent'[u].bump =>
          state'[sent'[u].batch] \in {"SubmittedToL1", "ConfirmedOnL1", "Failed"}
    BY <1>1, <1>2, <2>1, Zenon DEF Submitted, BumpInv
  <2> QED
    BY <2>1, <2>2, <2>4, <2>5, Zenon DEF Submitted, BumpInv
<1>7. CASE \E b \in BatchIds, gas \in Nat, bump \in BOOLEAN : Sent(b, gas, bump)
  <2>1. PICK b \in BatchIds, gas \in Nat, bump \in BOOLEAN : Sent(b, gas, bump)
    BY <1>7, Zenon
  <2> DEFINE n == Len(sent)
  <2>2. /\ n \in Nat /\ Len(sent') = n + 1
        /\ sent'[n + 1].batch = b /\ sent'[n + 1].gas = gas /\ sent'[n + 1].bump = bump
        /\ \A t \in 1 .. n : sent'[t] = sent[t]
    <3>1. /\ n \in Nat /\ Len(sent') = n + 1
          /\ sent'[n + 1] = [batch |-> b, gas |-> gas, nonce |-> NextNonce, bump |-> bump]
          /\ \A t \in 1 .. n : sent'[t] = sent[t]
      BY <2>1, SentGrows, Zenon
    <3> QED
      BY <3>1
  <2>3. UNCHANGED <<state, txHash, price>>
    BY <2>1, Zenon DEF Sent
  <2>4. \A c \in BatchIds : txHash'[c] # 0 => sent'[txHash'[c]].batch = c
    <3>1. \A c \in BatchIds : txHash[c] # 0 => txHash[c] \in 1 .. n /\ sent[txHash[c]].batch = c
      BY <1>1, <2>2 DEF BumpInv
    <3> QED
      BY <2>2, <2>3, <3>1, Zenon
  <2>5. (~bump => gas = GasPrice) /\ (bump => state[b] = "SubmittedToL1")
    BY <2>1, Zenon DEF Sent
  <2>6. \A t \in 1 .. n + 1 : ~sent'[t].bump => sent'[t].gas = GasPrice
    BY <2>2, <2>5 DEF BumpInv
  <2>7. \A t \in 1 .. n + 1 : sent'[t].bump =>
          state'[sent'[t].batch] \in {"SubmittedToL1", "ConfirmedOnL1", "Failed"}
    BY <2>2, <2>3, <2>5 DEF BumpInv
  <2> QED
    BY <2>2, <2>3, <2>4, <2>6, <2>7, Zenon DEF BumpInv
<1> QED
  BY <1>3, <1>4, <1>5, <1>6, <1>7, RowSteps, Zenon

LEMMA BumpInvariant == Spec => [](TypeInv /\ BumpInv)
<1>1. Init => BumpInv
  BY DEF Init, BumpInv
<1>2. TypeInv /\ BumpInv /\ [Next]_vars => BumpInv'
  BY BumpInvStep
<1> QED
  BY <1>1, <1>2, TypeInvariant, PTL DEF Spec

LEMMA GasCappedStep ==
  ASSUME TypeInv, BumpInv, GasCapped, [Next]_vars
  PROVE  GasCapped'
<1>1. /\ price \in [BatchIds -> Nat] /\ sent \in Seq(Tx) /\ GasPrice \in Nat
  BY Bounds, Zenon DEF TypeInv, TypeOK
<1>2. \A t \in 1 .. Len(sent) : sent[t] \in Tx /\ sent[t].gas \in Nat
  <2>1. \A t \in 1 .. Len(sent) : sent[t] \in Tx
    BY <1>1
  <2> QED
    BY <2>1, Zenon DEF Tx
<1>3. CASE UNCHANGED <<price, sent>>
  BY <1>3, Zenon DEF GasCapped
<1>4. CASE \E b \in BatchIds, t \in 0 .. Len(sent), p \in Nat : Submitted(b, t, p)
  <2>1. PICK b \in BatchIds, t \in 0 .. Len(sent), p \in Nat : Submitted(b, t, p)
    BY <1>4, Zenon
  <2>2. p # 0 => p = GasPrice /\ state[b] \in Submitting
    BY <1>1, <2>1 DEF Submitted, BumpInv
  <2>3. p # 0 => \A u \in 1 .. Len(sent) : sent[u].batch = b => sent[u].gas = GasPrice
    BY <2>2, Zenon DEF BumpInv, Submitting
  <2>4. sent' = sent /\ \A c \in BatchIds :
          price'[c] = price[c] \/ (c = b /\ p # 0 /\ price'[c] = GasPrice)
    BY <1>1, <2>1, <2>2, Zenon DEF Submitted
  <2>5. ASSUME NEW c \in BatchIds, NEW u \in 1 .. Len(sent), price'[c] # 0, sent[u].batch = c
        PROVE  sent[u].gas <= 3 * price'[c]
    <3>1. CASE price'[c] = price[c]
      BY <2>5, <3>1, Zenon DEF GasCapped
    <3>2. CASE c = b /\ p # 0 /\ price'[c] = GasPrice
      BY <1>1, <2>3, <2>5, <3>2
    <3> QED
      BY <2>4, <3>1, <3>2, Zenon
  <2> QED
    BY <2>4, <2>5, Zenon DEF GasCapped
<1>5. CASE \E b \in BatchIds, gas \in Nat, bump \in BOOLEAN : Sent(b, gas, bump)
  <2>1. PICK b \in BatchIds, gas \in Nat, bump \in BOOLEAN : Sent(b, gas, bump)
    BY <1>5, Zenon
  <2> DEFINE n == Len(sent)
  <2>2. /\ n \in Nat /\ Len(sent') = n + 1
        /\ sent'[n + 1] = [batch |-> b, gas |-> gas, nonce |-> NextNonce, bump |-> bump]
        /\ \A t \in 1 .. n : sent'[t] = sent[t]
    BY <2>1, SentGrows, Zenon
  <2>3. price' = price /\ sent'[n + 1].batch = b /\ sent'[n + 1].gas = gas
    BY <2>1, <2>2 DEF Sent
  <2>4. ASSUME price[b] # 0 PROVE gas <= 3 * price[b]
    <3>1. CASE ~bump
      <4>1. gas = GasPrice /\ price[b] = GasPrice
        BY <2>1, <2>4, <3>1, Zenon DEF Sent, BumpInv
      <4> QED
        BY <1>1, <4>1
    <3>2. CASE bump
      <4>1. txHash[b] \in 1 .. n /\ gas = BumpedPrice(sent[txHash[b]].gas, price[b])
        BY <2>1, <3>2 DEF Sent, TypeInv, TypeOK
      <4>2. sent[txHash[b]].gas \in Nat /\ price[b] \in Nat
        BY <1>1, <1>2, <4>1, Zenon
      <4> QED
        BY <2>4, <4>1, <4>2, BumpedPriceBounds, Zenon
    <3> QED
      BY <3>1, <3>2, Zenon
  <2>5. ASSUME NEW c \in BatchIds, NEW u \in 1 .. n + 1, price[c] # 0, sent'[u].batch = c
        PROVE  sent'[u].gas <= 3 * price[c]
    <3>1. CASE u = n + 1
      BY <2>3, <2>4, <2>5, <3>1, Zenon
    <3>2. CASE u \in 1 .. n
      BY <2>2, <2>5, <3>2, Zenon DEF GasCapped
    <3> QED
      BY <2>2, <3>1, <3>2, SMTT(20)
  <2> QED
    BY <2>2, <2>3, <2>5, Zenon DEF GasCapped
<1> QED
  BY <1>3, <1>4, <1>5, RowSteps, Zenon DEF Inserted, Moved

\* No transaction of a batch pays more than three times the price its row stores,
\* over any number of bumps and restarts (daemon.rs, the recovery loop).
THEOREM GasStaysCapped == Spec => []GasCapped
<1>1. Init => GasCapped
  BY Zenon DEF Init, GasCapped
<1>2. TypeInv /\ BumpInv /\ GasCapped /\ [Next]_vars => GasCapped'
  BY GasCappedStep
<1> QED
  BY <1>1, <1>2, BumpInvariant, PTL DEF Spec

LEMMA BumpsShareNonceStep ==
  ASSUME TypeInv, BumpInv, BumpsShareNonce, [Next]_vars
  PROVE  BumpsShareNonce'
<1>1. CASE UNCHANGED sent
  BY <1>1, Zenon DEF BumpsShareNonce
<1>2. CASE \E b \in BatchIds, gas \in Nat, bump \in BOOLEAN : Sent(b, gas, bump)
  <2>1. PICK b \in BatchIds, gas \in Nat, bump \in BOOLEAN : Sent(b, gas, bump)
    BY <1>2
  <2> DEFINE n == Len(sent)
             Shared(q, t, s) == /\ ~q[s].bump /\ q[s].batch = q[t].batch
                                /\ q[s].nonce = q[t].nonce
  <2>2. /\ n \in Nat /\ Len(sent') = n + 1
        /\ sent'[n + 1] = [batch |-> b, gas |-> gas, nonce |-> NextNonce, bump |-> bump]
        /\ \A t \in 1 .. n : sent'[t] = sent[t]
    BY <2>1, SentGrows, Zenon
  <2>3. ASSUME NEW t \in 1 .. n, sent[t].bump
        PROVE  \E s \in 1 .. t - 1 : Shared(sent, t, s)
    BY <2>3, Zenon DEF BumpsShareNonce
  <2>4. ASSUME NEW t \in 1 .. n, sent'[t].bump
        PROVE  \E s \in 1 .. t - 1 : Shared(sent', t, s)
    <3>1. PICK s \in 1 .. t - 1 : Shared(sent, t, s)
      BY <2>2, <2>3, <2>4, Zenon
    <3>2. s \in 1 .. n
      BY <2>2, SMTT(20)
    <3>3. Shared(sent', t, s)
      BY <2>2, <3>1, <3>2, Zenon
    <3> QED
      BY <3>3, Zenon
  <2>5. ASSUME bump PROVE \E s \in 1 .. n : Shared(sent', n + 1, s)
    <3> DEFINE t == txHash[b]
    <3>1. t \in 1 .. n /\ sent[t].nonce = NextNonce /\ sent[t].batch = b
      BY <2>1, <2>5, SMTT(20) DEF Sent, BumpInv, TypeInv, TypeOK
    <3> HIDE DEF t
    <3>2. \E s \in 1 .. n : /\ ~sent[s].bump /\ sent[s].batch = sent[t].batch
                            /\ sent[s].nonce = sent[t].nonce
      <4>1. CASE ~sent[t].bump
        BY <3>1, <4>1, Zenon
      <4>2. CASE sent[t].bump
        <5>1. PICK s \in 1 .. t - 1 : Shared(sent, t, s)
          BY <2>3, <3>1, <4>2, Zenon
        <5>2. s \in 1 .. n
          BY <2>2, <3>1
        <5> QED
          BY <5>1, <5>2, Zenon
      <4> QED
        BY <4>1, <4>2, Zenon
    <3>3. PICK s \in 1 .. n : /\ ~sent[s].bump /\ sent[s].batch = b /\ sent[s].nonce = NextNonce
      BY <3>1, <3>2, Zenon
    <3>4. sent'[s] = sent[s] /\ sent'[n + 1].batch = b /\ sent'[n + 1].nonce = NextNonce
      BY <2>2
    <3>5. Shared(sent', n + 1, s)
      BY <3>3, <3>4, Zenon
    <3> QED
      BY <3>5, Zenon
  <2>6. ASSUME NEW t \in 1 .. n + 1, sent'[t].bump
        PROVE  \E s \in 1 .. t - 1 : Shared(sent', t, s)
    <3>1. CASE t \in 1 .. n
      BY <2>4, <2>6, <3>1, Zenon
    <3>2. CASE t = n + 1
      <4>1. bump
        BY <2>2, <2>6, <3>2
      <4>2. 1 .. t - 1 = 1 .. n
        BY <2>2, <3>2
      <4> QED
        BY <2>5, <3>2, <4>1, <4>2, Zenon
    <3> QED
      BY <2>2, <3>1, <3>2, SMTT(20)
  <2> QED
    BY <2>2, <2>6, Zenon DEF BumpsShareNonce
<1> QED
  BY <1>1, <1>2, RowSteps, Zenon DEF Inserted, Moved, Submitted

\* Every gas bump the recovery loop sends carries the nonce of a submission of the
\* same batch, so that L1 includes at most one of the two.
THEOREM BumpsReplace == Spec => []BumpsShareNonce
<1>1. Init => BumpsShareNonce
  BY DEF Init, BumpsShareNonce
<1>2. TypeInv /\ BumpInv /\ BumpsShareNonce /\ [Next]_vars => BumpsShareNonce'
  BY BumpsShareNonceStep
<1> QED
  BY <1>1, <1>2, BumpInvariant, PTL DEF Spec

-----------------------------------------------------------------------------
(* Inclusion, and the batch files. *)

Landed(b) == \E t \in everMined : sent[t].batch = b

\* A row becomes COMPRESSED or CONFIRMED_ON_L1 in one place of the main loop each.
LEMMA StateSteps ==
  ASSUME TypeInv, [Next]_vars, NEW b \in BatchIds
  PROVE  \/ state'[b] = state[b]
         \/ state'[b] \in {"ReceivedFromExecutor", "SubmittedToL1", "Failed"}
         \/ Compress /\ b = cur /\ state'[b] = "Compressed"
         \/ Confirm /\ b = cur /\ state'[b] = "ConfirmedOnL1"
<1>1. RowType /\ DaemonType
  BY TypeParts, Zenon DEF TypeInv
<1>2. state \in [BatchIds -> SagaStates \cup {"none"}]
  BY <1>1, Zenon DEF RowType
<1>3. CASE UNCHANGED state
  BY <1>3
<1>4. CASE Compress
  BY <1>2, <1>4, Zenon DEF Compress, OrLogged, UpdateState, rowVars
<1>5. CASE Confirm
  BY <1>2, <1>5, Zenon DEF Confirm, OrLogged, UpdateState, rowVars
<1>6. ASSUME NEW c \in BatchIds, Fetch(c) \/ RecoverGiveUp(c)
      PROVE  state'[b] = state[b] \/ state'[b] \in {"ReceivedFromExecutor", "Failed"}
  BY <1>2, <1>6, Zenon DEF Fetch, InsertOrIgnore, RecoverGiveUp, OrLogged, UpdateState, rowVars
<1>7. CASE SubmitOffChain \/ Record \/ RecordBump
  BY <1>2, <1>7, Zenon DEF SubmitOffChain, Record, RecordBump, OrLogged, UpdateSubmission, rowVars
<1>8. CASE ResubmitRecord \/ ResubmitConfirm
  BY <1>8, Bounds, Zenon DEF ResubmitRecord, ResubmitConfirm, ResumedKey, UpdateSubmission,
     UpdateState, rowVars
<1>9. CASE Submit \/ Resubmit \/ \E c \in BatchIds : RecoverBump(c)
  BY <1>9, Zenon DEF Submit, Resubmit, RecoverBump, rowVars
<1>10. CASE \/ UNCHANGED vars \/ Start \/ RecoverDone \/ ResumeDone
            \/ WriteFile \/ SubmitError \/ AwaitReceipt \/ AwaitDropped \/ AwaitError \/ Cleanup
            \/ ResubmitError \/ ResubmitReceipt \/ ResubmitDropped \/ ResubmitAwaitError
            \/ Evict \/ Reorg \/ Crash \/ \E ok \in BOOLEAN : Mine(ok)
            \/ \E c \in BatchIds : RecoverInterrupted(c) \/ RecoverSkip(c) \/ Age(c)
  BY <1>10, Zenon DEF vars, rowVars, Start, RecoverDone, ResumeDone, WriteFile, SubmitError,
     AwaitReceipt, AwaitDropped, AwaitError, Cleanup, ResubmitError, ResubmitReceipt,
     ResubmitDropped, ResubmitAwaitError, Evict, Reorg, Crash, Mine, RecoverInterrupted,
     RecoverSkip, Age
<1> QED
  BY <1>4, <1>5, <1>6, <1>7, <1>8, <1>9, <1>10, Zenon DEF Next, Daemon

LEMMA BlocksGrow ==
  ASSUME [Next]_vars
  PROVE  /\ everMined \subseteq everMined' /\ UNCHANGED offChainOnly
         /\ \/ UNCHANGED mined
            \/ \E ok \in BOOLEAN : Mine(ok)
            \/ Reorg
  BY Zenon DEF Next, Daemon, vars, l1Vars, Broadcast, Start, RecoverDone, ResumeDone, WriteFile,
     SubmitError, AwaitReceipt, AwaitDropped, AwaitError, Cleanup, ResubmitError,
     ResubmitReceipt, ResubmitDropped, ResubmitAwaitError, Evict, Reorg, Crash, Mine,
     RecoverInterrupted, RecoverSkip, Age, Fetch, RecoverGiveUp, RecoverBump, RecordBump,
     Submit, Resubmit, SubmitOffChain, Compress, Record, Confirm, ResubmitRecord,
     ResubmitConfirm

LEMMA LandedStable ==
  ASSUME TypeInv, [Next]_vars, NEW b, Landed(b)
  PROVE  Landed(b)'
<1>1. sent \in Seq(Tx) /\ everMined \subseteq 1 .. Len(sent)
  BY Zenon DEF TypeInv, TypeOK
<1>2. \A t \in 1 .. Len(sent) : sent'[t] = sent[t]
  <2>1. CASE UNCHANGED sent
    BY <2>1, Zenon
  <2>2. CASE \E c \in BatchIds, gas \in Nat, bump \in BOOLEAN : Sent(c, gas, bump)
    BY <2>2, SentGrows, Zenon
  <2> QED
    BY <2>1, <2>2, RowSteps, Zenon DEF Inserted, Moved, Submitted
<1>3. everMined \subseteq everMined'
  BY BlocksGrow, Zenon
<1> QED
  BY <1>1, <1>2, <1>3, Zenon DEF Landed

\* What the daemon knows once it has a receipt, and before it says COMPRESSED.
LandedInv ==
  /\ \A i \in 1 .. Len(mined) : mined[i].tx \in everMined
  /\ pc = "record" \/ (pc \in {"confirm", "cleanup"} /\ ~offChainOnly) => tx \in everMined
  /\ pc = "compress" => cur \in files

LEMMA LandedInvStep ==
  ASSUME TypeInv, LandedInv, [Next]_vars
  PROVE  LandedInv'
<1>1. DaemonType /\ L1Type /\ Control
  BY TypeParts, Zenon DEF TypeInv
<1>2. everMined \subseteq everMined' /\ offChainOnly' = offChainOnly
  BY BlocksGrow, Zenon
<1>3. \A i \in 1 .. Len(mined') : mined'[i].tx \in everMined'
  <2>1. CASE UNCHANGED mined
    BY <1>2, <2>1, Zenon DEF LandedInv
  <2>2. CASE \E ok \in BOOLEAN : Mine(ok)
    <3>1. PICK ok \in BOOLEAN : Mine(ok)
      BY <2>2, Zenon
    <3> DEFINE e == [tx |-> pool, ok |-> ok]
    <3>2. /\ mined \in Seq([tx : 1 .. Len(sent), ok : BOOLEAN])
          /\ e \in [tx : 1 .. Len(sent), ok : BOOLEAN]
      BY <1>1, <3>1 DEF L1Type, Mine
    <3>3. mined' = Append(mined, e) /\ pool \in everMined'
      BY <3>1, Zenon DEF Mine
    <3>4. /\ Len(mined) \in Nat /\ Len(mined') = Len(mined) + 1
          /\ mined'[Len(mined) + 1] = e
          /\ \A i \in 1 .. Len(mined) : mined'[i] = mined[i]
      BY <3>2, <3>3, Appended
    <3>5. mined'[Len(mined) + 1].tx = pool
      BY <3>4
    <3>6. \A i \in 1 .. Len(mined) : mined'[i].tx \in everMined'
      BY <1>2, <3>4, Zenon DEF LandedInv
    <3> QED
      BY <3>3, <3>4, <3>5, <3>6
  <2>3. CASE Reorg
    <3>1. /\ mined \in Seq([tx : 1 .. Len(sent), ok : BOOLEAN]) /\ mined # << >>
          /\ mined' = SubSeq(mined, 1, Len(mined) - 1)
      BY <1>1, <2>3, Zenon DEF L1Type, Reorg
    <3>2. /\ Len(mined') = Len(mined) - 1 /\ Len(mined) \in Nat
          /\ \A i \in 1 .. Len(mined) - 1 : mined'[i] = mined[i]
      BY <3>1, FrontOf
    <3> QED
      BY <1>2, <3>2 DEF LandedInv
  <2> QED
    BY <2>1, <2>2, <2>3, BlocksGrow, Zenon
<1> DEFINE Knows == /\ pc = "record" \/ (pc \in {"confirm", "cleanup"} /\ ~offChainOnly)
                         => tx \in everMined
                    /\ pc = "compress" => cur \in files
<1>4. CASE UNCHANGED <<pc, cur, tx, files>>
  <2>1. Knows'
    BY <1>2, <1>4, Zenon DEF LandedInv
  <2> QED
    BY <1>3, <2>1, Zenon DEF LandedInv
<1>5. CASE AwaitReceipt
  <2>1. tx \in everMined
    BY <1>5, Zenon DEF AwaitReceipt, Included, LandedInv
  <2>2. Knows'
    BY <1>2, <1>5, <2>1, Zenon DEF AwaitReceipt
  <2> QED
    BY <1>3, <2>2 DEF LandedInv
<1>6. CASE SubmitOffChain \/ Record \/ Confirm
  <2>1. Knows'
    BY <1>1, <1>2, <1>6, Zenon DEF SubmitOffChain, Record, Confirm, Control, LandedInv
  <2> QED
    BY <1>3, <2>1 DEF LandedInv
<1>7. CASE WriteFile
  <2>1. Knows'
    BY <1>7, Zenon DEF WriteFile, Abandon
  <2> QED
    BY <1>3, <2>1 DEF LandedInv
<1>8. CASE pc' \notin {"record", "confirm", "cleanup", "compress"}
  BY <1>3, <1>8, Zenon DEF LandedInv
<1>9. \/ UNCHANGED <<pc, cur, tx, files>>
      \/ AwaitReceipt \/ SubmitOffChain \/ Record \/ Confirm \/ WriteFile
      \/ pc' \notin {"record", "confirm", "cleanup", "compress"}
  BY Zenon DEF Next, Daemon, vars, daemonVars, Start, RecoverDone, ResumeDone, SubmitError,
     AwaitDropped, AwaitError, Cleanup, Abandon, NextResumed, ResubmitError,
     ResubmitReceipt, ResubmitDropped, ResubmitAwaitError, Evict, Reorg, Crash, Mine,
     RecoverInterrupted, RecoverSkip, Age, Fetch, InsertOrIgnore, RecoverGiveUp, RecoverBump,
     RecordBump, Submit, Resubmit, Compress, ResubmitRecord, ResubmitConfirm
<1> QED
  BY <1>4, <1>5, <1>6, <1>7, <1>8, <1>9, Zenon

LEMMA LandedInvariant == Spec => [](TypeInv /\ LandedInv)
<1>1. Init => LandedInv
  BY DEF Init, LandedInv
<1>2. TypeInv /\ LandedInv /\ [Next]_vars => LandedInv'
  BY LandedInvStep
<1> QED
  BY <1>1, <1>2, TypeInvariant, PTL DEF Spec

\* The main loop says CONFIRMED_ON_L1 only of a batch a transaction of which was in a
\* block: every path to that update passes the receipt.
THEOREM ConfirmedCorrect == Spec => []ConfirmedWasIncluded
<1>1. Init => ConfirmedWasIncluded
  BY Zenon DEF Init, ConfirmedWasIncluded
<1>2. TypeInv /\ LandedInv /\ ConfirmedWasIncluded /\ [Next]_vars => ConfirmedWasIncluded'
  <2> SUFFICES ASSUME TypeInv, LandedInv, ConfirmedWasIncluded, [Next]_vars,
                      NEW b \in BatchIds, state'[b] = "ConfirmedOnL1", ~offChainOnly'
               PROVE  Landed(b)'
    BY Zenon DEF ConfirmedWasIncluded, Landed
  <2>1. ~offChainOnly
    BY BlocksGrow, Zenon
  <2>2. CASE state'[b] = state[b]
    <3>1. Landed(b)
      BY <2>1, <2>2, Zenon DEF ConfirmedWasIncluded, Landed
    <3> QED
      BY <3>1, LandedStable, Zenon
  <2>3. CASE Confirm /\ b = cur
    <3>1. tx \in everMined /\ sent[tx].batch = cur
      BY <2>1, <2>3, Zenon DEF Confirm, LandedInv, TypeInv, Control
    <3>2. Landed(b)
      BY <2>3, <3>1, Zenon DEF Landed
    <3> QED
      BY <3>2, LandedStable
  <2> QED
    BY <2>2, <2>3, StateSteps, Zenon
<1> QED
  BY <1>1, <1>2, LandedInvariant, PTL DEF Spec

\* The batch file outlives every state in which recovery would read it: the clean-up of
\* the main loop is reached only over the receipt.
THEOREM FilesCorrect == Spec => []CompressedHasFile
<1>1. Init => CompressedHasFile
  BY Zenon DEF Init, CompressedHasFile
<1>2. TypeInv /\ LandedInv /\ CompressedHasFile /\ [Next]_vars => CompressedHasFile'
  <2> SUFFICES ASSUME TypeInv, LandedInv, CompressedHasFile, [Next]_vars,
                      NEW b \in BatchIds, state'[b] = "Compressed", ~offChainOnly',
                      b \notin files'
               PROVE  Landed(b)'
    BY Zenon DEF CompressedHasFile, Landed
  <2>1. ~offChainOnly
    BY BlocksGrow, Zenon
  <2>2. CASE Compress /\ b = cur
    BY <2>2, Zenon DEF Compress, LandedInv
  <2>3. CASE state'[b] = state[b] /\ b \notin files
    <3>1. Landed(b)
      BY <2>1, <2>3, Zenon DEF CompressedHasFile, Landed
    <3> QED
      BY <3>1, LandedStable, Zenon
  <2>4. CASE Cleanup /\ b = cur
    <3>1. tx \in everMined /\ sent[tx].batch = cur
      BY <2>1, <2>4, Zenon DEF Cleanup, LandedInv, TypeInv, Control
    <3>2. Landed(b)
      BY <2>4, <3>1, Zenon DEF Landed
    <3> QED
      BY <3>2, LandedStable
  <2>5. b \in files => Cleanup /\ b = cur
    BY Zenon DEF Next, Daemon, vars, WriteFile, Start, RecoverDone, ResumeDone, SubmitError,
       AwaitReceipt, AwaitDropped, AwaitError, Cleanup, ResubmitError,
       ResubmitReceipt, ResubmitDropped, ResubmitAwaitError, Evict, Reorg, Crash, Mine,
       RecoverInterrupted, RecoverSkip, Age, Fetch, RecoverGiveUp, RecoverBump, RecordBump,
       Submit, Resubmit, SubmitOffChain, Compress, Record, Confirm, ResubmitRecord,
       ResubmitConfirm
  <2> QED
    BY <2>2, <2>3, <2>4, <2>5, StateSteps, Zenon
<1> QED
  BY <1>1, <1>2, LandedInvariant, PTL DEF Spec

-----------------------------------------------------------------------------
(* One submission of a batch per life of the daemon. *)

Recovering == {"down", "recover", "bumped"}
Resuming == {"resume", "resumeAwait", "resumeRecord", "resumeConfirm"}
Preparing == {"write", "compress", "submit"}

\* What is left to recover and to resume: rows of the outbox, each in one place, once.
QueueInv ==
  /\ \A b \in todo : state[b] # "none"
  /\ \A i \in 1 .. Len(resume) : state[resume[i]] # "none" /\ resume[i] \notin todo
  /\ \A i, j \in 1 .. Len(resume) : resume[i] = resume[j] => i = j
  /\ pc = "down" => todo = {} /\ resume = << >>

LEMMA RowsStay ==
  ASSUME TypeInv, [Next]_vars, NEW b \in BatchIds, state[b] # "none"
  PROVE  state'[b] # "none"
<1>1. state \in [BatchIds -> SagaStates \cup {"none"}]
  BY Zenon DEF TypeInv, TypeOK
<1>2. \A s \in SagaStates : s # "none"
  BY Zenon DEF SagaStates
<1> QED
  BY <1>1, <1>2, RowSteps, Zenon DEF Inserted, Moved, Submitted, Sent

\* The recovery loop takes rows off todo, some of them for resume.
LEMMA QueueSteps ==
  ASSUME TypeInv, [Next]_vars
  PROVE  \/ UNCHANGED <<todo, resume>> /\ (pc' = "down" => pc = "down")
         \/ pc = "down" /\ todo' \subseteq GetUnconfirmedBatches /\ resume' = resume /\ pc' # "down"
         \/ /\ pc' # "down"
            /\ \E b \in todo : /\ todo' = todo \ {b}
                               /\ resume' = resume \/ resume' = Append(resume, b)
         \/ pc' # "down" /\ resume # << >> /\ resume' = Tail(resume) /\ todo' = todo
         \/ todo' = {} /\ resume' = << >>
<1>1. CASE Start
  BY <1>1, Zenon DEF Start
<1>2. ASSUME NEW b \in BatchIds,
             RecoverInterrupted(b) \/ RecoverGiveUp(b) \/ RecoverBump(b) \/ RecoverSkip(b)
      PROVE  /\ pc' # "down" /\ b \in todo /\ todo' = todo \ {b}
             /\ resume' = resume \/ resume' = Append(resume, b)
  BY <1>2, Zenon DEF RecoverInterrupted, RecoverGiveUp, RecoverBump, RecoverSkip, Oldest
<1>3. CASE Resubmit \/ ResubmitError
  BY <1>3, Zenon DEF Resubmit, ResubmitError
<1>4. CASE Crash
  BY <1>4, Zenon DEF Crash
<1>5. CASE \/ UNCHANGED vars \/ RecoverDone \/ ResumeDone
           \/ WriteFile \/ SubmitError \/ AwaitReceipt \/ AwaitDropped \/ AwaitError \/ Cleanup
           \/ ResubmitReceipt \/ ResubmitDropped \/ ResubmitAwaitError
           \/ ResubmitRecord \/ ResubmitConfirm \/ RecordBump
           \/ Compress \/ SubmitOffChain \/ Submit \/ Record \/ Confirm
           \/ Evict \/ Reorg \/ (\E ok \in BOOLEAN : Mine(ok))
           \/ \E b \in BatchIds : Fetch(b) \/ Age(b)
  BY <1>5, Zenon DEF vars, daemonVars, RecoverDone, ResumeDone, WriteFile, SubmitError,
     AwaitReceipt, AwaitDropped, AwaitError, Cleanup, Abandon, NextResumed, ResubmitReceipt,
     ResubmitDropped, ResubmitAwaitError, ResubmitRecord, ResubmitConfirm, RecordBump,
     Compress, SubmitOffChain, Submit, Record, Confirm, Evict, Reorg, Mine, Fetch,
     InsertOrIgnore, Age
<1> QED
  BY <1>1, <1>2, <1>3, <1>4, <1>5, Zenon DEF Next, Daemon

LEMMA QueueInvStep ==
  ASSUME TypeInv, QueueInv, [Next]_vars
  PROVE  QueueInv'
<1>1. todo \subseteq BatchIds /\ resume \in Seq(BatchIds)
  BY Zenon DEF TypeInv, TypeOK
<1>2. \A b \in BatchIds : state[b] # "none" => state'[b] # "none"
  BY RowsStay, Zenon
<1>3. \A i \in 1 .. Len(resume) : resume[i] \in BatchIds
  BY <1>1
<1>4. CASE UNCHANGED <<todo, resume>> /\ (pc' = "down" => pc = "down")
  BY <1>1, <1>2, <1>3, <1>4 DEF QueueInv
<1>5. CASE pc = "down" /\ todo' \subseteq GetUnconfirmedBatches /\ resume' = resume /\ pc' # "down"
  <2>1. resume' = << >>
    BY <1>5, Zenon DEF QueueInv
  <2>2. \A b \in todo' : b \in BatchIds /\ state[b] # "none"
    BY <1>5, Zenon DEF GetUnconfirmedBatches
  <2>3. 1 .. Len(resume') = {}
    BY <2>1
  <2> QED
    BY <1>2, <1>5, <2>2, <2>3, Zenon DEF QueueInv
<1>6. CASE pc' # "down" /\ \E b \in todo : /\ todo' = todo \ {b}
                                           /\ resume' = resume \/ resume' = Append(resume, b)
  <2>1. PICK b \in todo : todo' = todo \ {b} /\ (resume' = resume \/ resume' = Append(resume, b))
    BY <1>6, Zenon
  <2>2. CASE resume' = resume
    BY <1>1, <1>2, <1>3, <1>6, <2>1, <2>2, Zenon DEF QueueInv
  <2>3. CASE resume' = Append(resume, b)
    <3>1. /\ Len(resume) \in Nat /\ Len(resume') = Len(resume) + 1
          /\ resume'[Len(resume) + 1] = b
          /\ \A i \in 1 .. Len(resume) : resume'[i] = resume[i]
      BY <1>1, <2>3, Appended
    <3>2. \A i \in 1 .. Len(resume) : resume'[i] # b
      BY <2>1, <3>1, Zenon DEF QueueInv
    <3>3. \A i \in 1 .. Len(resume') : state'[resume'[i]] # "none" /\ resume'[i] \notin todo'
      BY <1>1, <1>2, <1>3, <2>1, <3>1 DEF QueueInv
    <3>4. \A i, j \in 1 .. Len(resume') : resume'[i] = resume'[j] => i = j
      BY <3>1, <3>2 DEF QueueInv
    <3> QED
      BY <1>1, <1>2, <1>6, <2>1, <3>3, <3>4, Zenon DEF QueueInv
  <2> QED
    BY <2>1, <2>2, <2>3, Zenon
<1>7. CASE pc' # "down" /\ resume # << >> /\ resume' = Tail(resume) /\ todo' = todo
  <2>1. /\ Len(resume') = Len(resume) - 1 /\ Len(resume) \in Nat
        /\ \A i \in 1 .. Len(resume) - 1 : resume'[i] = resume[i + 1]
    BY <1>1, <1>7, TailOf
  <2>2. \A i \in 1 .. Len(resume') : state'[resume'[i]] # "none" /\ resume'[i] \notin todo'
    BY <1>2, <1>3, <1>7, <2>1 DEF QueueInv
  <2>3. \A i, j \in 1 .. Len(resume') : resume'[i] = resume'[j] => i = j
    BY <2>1 DEF QueueInv
  <2> QED
    BY <1>1, <1>2, <1>7, <2>2, <2>3, Zenon DEF QueueInv
<1>8. CASE todo' = {} /\ resume' = << >>
  <2>1. 1 .. Len(resume') = {}
    BY <1>8
  <2> QED
    BY <1>8, <2>1, Zenon DEF QueueInv
<1> QED
  BY <1>4, <1>5, <1>6, <1>7, <1>8, QueueSteps, Zenon

\* The submissions of this life.
Fresh(t) == t \in lifeStart + 1 .. Len(sent) /\ ~sent[t].bump

\* A batch submitted in this life has a row, is not waiting to be resumed, and is not the
\* one being prepared.
LifeInv ==
  \A t \in 1 .. Len(sent) : Fresh(t) =>
    /\ state[sent[t].batch] # "none"
    /\ pc \notin Recovering
    /\ pc \in Resuming => \A i \in 1 .. Len(resume) : resume[i] # sent[t].batch
    /\ pc \in Preparing => cur # sent[t].batch

\* How the daemon gets on when it neither sends nor dies.
LEMMA LocalSteps ==
  ASSUME TypeInv, [Next]_vars, pc \notin Recovering,
         ~Submit, ~Resubmit, ~Crash
  PROVE  /\ UNCHANGED <<sent, lifeStart>>
         /\ pc' \notin Recovering
         /\ pc' \in Resuming =>
              /\ pc \in Resuming
              /\ resume' = resume \/ (resume # << >> /\ resume' = Tail(resume))
         /\ pc' \in Preparing => \/ pc \in Preparing /\ cur' = cur
                                 \/ state[cur'] = "none"
<1>1. CASE \/ UNCHANGED vars \/ Evict \/ Reorg \/ (\E ok \in BOOLEAN : Mine(ok))
           \/ \E b \in BatchIds : Age(b)
  BY <1>1, Zenon DEF vars, daemonVars, l1Vars, Evict, Reorg, Mine, Age
<1>2. CASE \E b \in BatchIds : Fetch(b)
  BY <1>2, Zenon DEF Fetch, InsertOrIgnore, l1Vars, Recovering, Resuming, Preparing
<1>3. CASE \/ WriteFile \/ Compress \/ SubmitOffChain \/ SubmitError \/ AwaitReceipt
           \/ AwaitDropped \/ AwaitError \/ Record \/ Confirm \/ Cleanup
  BY <1>3, Zenon DEF WriteFile, Compress, SubmitOffChain, SubmitError, AwaitReceipt, AwaitDropped,
     AwaitError, Record, Confirm, Cleanup, Abandon, l1Vars, Recovering, Resuming, Preparing
<1>4. CASE \/ ResubmitError \/ ResubmitReceipt \/ ResubmitRecord \/ ResubmitConfirm
           \/ ResubmitDropped \/ ResubmitAwaitError \/ ResumeDone
  BY <1>4, Zenon DEF ResubmitError, ResubmitReceipt, ResubmitRecord, ResubmitConfirm,
     ResubmitDropped, ResubmitAwaitError, ResumeDone, NextResumed, l1Vars, Recovering,
     Resuming, Preparing
<1>5. CASE \/ Start \/ RecordBump \/ RecoverDone
           \/ \E b \in BatchIds : \/ RecoverInterrupted(b) \/ RecoverGiveUp(b)
                                  \/ RecoverBump(b) \/ RecoverSkip(b)
  BY <1>5, Zenon DEF Start, RecordBump, RecoverDone, RecoverInterrupted, RecoverGiveUp, RecoverBump,
     RecoverSkip, Recovering
<1> QED
  BY <1>1, <1>2, <1>3, <1>4, <1>5, Zenon DEF Next, Daemon

\* A life begins with no submission, and recovery before it resumes only bumps.
LEMMA NoneFresh ==
  ASSUME TypeInv, LifeInv, [Next]_vars, Crash \/ pc \in Recovering
  PROVE  /\ lifeStart' \in Nat /\ Len(sent') \in Nat
         /\ \A t \in 1 .. Len(sent') : ~Fresh(t)'
<1> DEFINE n == Len(sent)
<1>1. sent \in Seq(Tx) /\ n \in Nat /\ lifeStart \in 0 .. n
  BY DEF TypeInv, TypeOK
<1>2. CASE Crash
  <2>1. lifeStart' = n /\ sent' = sent
    BY <1>2, Zenon DEF Crash, l1Vars
  <2> QED
    BY <1>1, <2>1 DEF Fresh
<1>3. CASE pc \in Recovering /\ ~Crash
  <2>1. lifeStart' = lifeStart
    BY <1>3, Zenon DEF Next, Daemon, vars, Start, RecoverDone, ResumeDone, WriteFile,
       SubmitError, AwaitReceipt, AwaitDropped, AwaitError, Cleanup, ResubmitError,
       ResubmitReceipt, ResubmitDropped, ResubmitAwaitError, Evict, Reorg, Mine,
       RecoverInterrupted, RecoverSkip, Age, Fetch, RecoverGiveUp, RecoverBump, RecordBump,
       Submit, Resubmit, SubmitOffChain, Compress, Record, Confirm, ResubmitRecord,
       ResubmitConfirm
  <2>2. \A t \in 1 .. n : ~Fresh(t)
    BY <1>3, Zenon DEF LifeInv
  <2>3. CASE UNCHANGED sent
    BY <1>1, <2>1, <2>2, <2>3 DEF Fresh
  <2>4. CASE \E b \in BatchIds, gas \in Nat, bump \in BOOLEAN : Sent(b, gas, bump)
    <3>1. PICK b \in BatchIds, gas \in Nat, bump \in BOOLEAN : Sent(b, gas, bump)
      BY <2>4, Zenon
    <3>2. bump
      BY <1>3, <3>1, Zenon DEF Sent, Recovering
    <3>3. /\ Len(sent') = n + 1
          /\ sent'[n + 1] = [batch |-> b, gas |-> gas, nonce |-> NextNonce, bump |-> bump]
          /\ \A t \in 1 .. n : sent'[t] = sent[t]
      BY <3>1, SentGrows, Zenon
    <3>4. sent'[n + 1].bump
      BY <3>2, <3>3
    <3> QED
      BY <1>1, <2>1, <2>2, <3>3, <3>4 DEF Fresh
  <2> QED
    BY <2>3, <2>4, RowSteps, Zenon DEF Inserted, Moved, Submitted
<1> QED
  BY <1>2, <1>3

LEMMA LifeStep ==
  ASSUME TypeInv, QueueInv, LifeInv, OneSubmissionPerLife, [Next]_vars
  PROVE  LifeInv' /\ OneSubmissionPerLife'
<1> DEFINE n == Len(sent)
<1>1. /\ sent \in Seq(Tx) /\ n \in Nat /\ lifeStart \in 0 .. n /\ resume \in Seq(BatchIds)
      /\ state \in [BatchIds -> SagaStates \cup {"none"}]
  BY DEF TypeInv, TypeOK
<1>2. \A t \in 1 .. n : sent[t].batch \in BatchIds
  <2>1. \A t \in 1 .. n : sent[t] \in Tx
    BY <1>1
  <2> QED
    BY <2>1, Zenon DEF Tx
<1>3. \A b \in BatchIds : state[b] # "none" => state'[b] # "none"
  BY RowsStay, Zenon
<1>4. \A s, t \in 1 .. n : Fresh(s) /\ Fresh(t) /\ sent[s].batch = sent[t].batch => s = t
  BY Zenon DEF Fresh, OneSubmissionPerLife
\* A new submission, of a batch that has none yet in this life.
<1>5. ASSUME NEW b \in BatchIds, Sent(b, GasPrice, FALSE), UNCHANGED lifeStart,
             state[b] # "none", pc' \notin Recovering \cup Preparing,
             \A t \in 1 .. n : Fresh(t) => sent[t].batch # b,
             pc' \in Resuming => \A i \in 1 .. Len(resume') :
               resume'[i] # b /\ \A t \in 1 .. n : Fresh(t) => resume'[i] # sent[t].batch
      PROVE  LifeInv' /\ OneSubmissionPerLife'
  <2>1. GasPrice \in Nat /\ FALSE \in BOOLEAN
    BY Bounds, Zenon
  <2>2. /\ Len(sent') = n + 1
        /\ sent'[n + 1] = [batch |-> b, gas |-> GasPrice, nonce |-> NextNonce, bump |-> FALSE]
        /\ \A t \in 1 .. n : sent'[t] = sent[t]
    BY <1>5, <2>1, SentGrows, Zenon
  <2>3. sent'[n + 1].batch = b /\ ~sent'[n + 1].bump
    BY <2>2
  <2>4. \A t \in 1 .. n + 1 : Fresh(t)' => t = n + 1 \/ (t \in 1 .. n /\ Fresh(t))
    <3>1. lifeStart' = lifeStart
      BY <1>5, Zenon
    <3>2. \A t \in 1 .. n + 1 : t = n + 1 \/ t \in 1 .. n
      BY <1>1
    <3>3. \A t \in 1 .. n : t \in lifeStart + 1 .. n + 1 => t \in lifeStart + 1 .. n
      BY <1>1
    <3>4. \A t \in 1 .. n : Fresh(t)' => Fresh(t)
      BY <2>2, <3>1, <3>3, Zenon DEF Fresh
    <3> QED
      BY <3>2, <3>4, Zenon
  <2>5. \A t \in 1 .. n + 1 : Fresh(t)' => state'[sent'[t].batch] # "none"
    BY <1>2, <1>3, <1>5, <2>2, <2>3, <2>4, Zenon DEF LifeInv
  <2>6. \A t \in 1 .. n + 1 : Fresh(t)' =>
          (pc' \in Resuming => \A i \in 1 .. Len(resume') : resume'[i] # sent'[t].batch)
    BY <1>5, <2>2, <2>3, <2>4, Zenon
  <2>7. \A s, t \in 1 .. n + 1 : Fresh(s)' /\ Fresh(t)' /\ sent'[s].batch = sent'[t].batch => s = t
    BY <1>4, <1>5, <2>2, <2>3, <2>4, Zenon
  <2>8. LifeInv'
    BY <1>5, <2>2, <2>5, <2>6, Zenon DEF LifeInv
  <2>9. OneSubmissionPerLife'
    BY <1>1, <1>5, <2>2, <2>7 DEF OneSubmissionPerLife, Fresh
  <2> QED
    BY <2>8, <2>9
<1>6. CASE Submit
  <2>1. cur \in BatchIds /\ state[cur] # "none"
    BY <1>6, Zenon DEF Submit, TypeInv, TypeOK, Control, Pcs, Submitting
  <2>2. Sent(cur, GasPrice, FALSE) /\ pc = "submit" /\ pc' = "await" /\ UNCHANGED lifeStart
    BY <1>6, Zenon DEF Submit, Broadcast, Sent, rowVars
  <2>3. \A t \in 1 .. n : Fresh(t) => sent[t].batch # cur
    BY <2>2, Zenon DEF LifeInv, Preparing
  <2>4. pc' \notin Recovering \cup Preparing /\ pc' \notin Resuming
    BY <2>2, Zenon DEF Recovering, Preparing, Resuming
  <2> QED
    BY <1>5, <2>1, <2>2, <2>3, <2>4, Zenon
<1>7. CASE Resubmit
  <2> DEFINE b == Head(resume)
  <2>1. resume # << >> /\ resume' = Tail(resume)
    BY <1>7, Zenon DEF Resubmit
  <2>2. /\ b \in BatchIds /\ b = resume[1] /\ 1 \in 1 .. Len(resume)
        /\ Len(resume) \in Nat /\ Len(resume') = Len(resume) - 1
        /\ \A i \in 1 .. Len(resume) - 1 : resume'[i] = resume[i + 1]
    BY <1>1, <2>1, TailOf
  <2>3. Sent(b, GasPrice, FALSE) /\ pc = "resume" /\ pc' = "resumeAwait" /\ UNCHANGED lifeStart
    BY <1>7, Zenon DEF Resubmit, Broadcast, Sent, rowVars
  <2>4. state[b] # "none"
    BY <2>2, Zenon DEF QueueInv
  <2>5. \A t \in 1 .. n : Fresh(t) => \A i \in 1 .. Len(resume) : resume[i] # sent[t].batch
    BY <2>3, Zenon DEF LifeInv, Resuming
  <2>6. \A t \in 1 .. n : Fresh(t) => sent[t].batch # b
    BY <2>2, <2>5, Zenon
  <2>7. \A i \in 1 .. Len(resume') : i + 1 \in 1 .. Len(resume) /\ resume'[i] = resume[i + 1]
    BY <2>2
  <2>8. \A i \in 1 .. Len(resume') :
          resume'[i] # b /\ \A t \in 1 .. n : Fresh(t) => resume'[i] # sent[t].batch
    <3>1. \A i \in 1 .. Len(resume') : i + 1 # 1 /\ i \in Nat
      BY <2>2
    <3>2. \A i \in 1 .. Len(resume') : resume[i + 1] # resume[1]
      BY <2>2, <2>7, <3>1, Zenon DEF QueueInv
    <3> QED
      BY <2>2, <2>5, <2>7, <3>2
  <2>9. pc' \notin Recovering \cup Preparing
    BY <2>3, Zenon DEF Recovering, Preparing
  <2> HIDE DEF b
  <2> QED
    BY <1>5, <2>2, <2>3, <2>4, <2>6, <2>8, <2>9, Zenon
<1>8. ASSUME \A t \in 1 .. Len(sent') : ~Fresh(t)', lifeStart' \in Nat, Len(sent') \in Nat
      PROVE  LifeInv' /\ OneSubmissionPerLife'
  <2>1. \A m, k \in Nat : m + 1 .. k \subseteq 1 .. k
    OBVIOUS
  <2> QED
    BY <1>8, <2>1, Zenon DEF LifeInv, OneSubmissionPerLife, Fresh
<1>9. CASE Crash \/ pc \in Recovering
  BY <1>8, <1>9, NoneFresh, Zenon
<1>11. CASE pc \notin Recovering /\ ~Submit /\ ~Resubmit /\ ~Crash
  <2>1. /\ sent' = sent /\ lifeStart' = lifeStart /\ pc' \notin Recovering
        /\ pc' \in Resuming =>
              /\ pc \in Resuming
              /\ resume' = resume \/ (resume # << >> /\ resume' = Tail(resume))
        /\ pc' \in Preparing => (pc \in Preparing /\ cur' = cur) \/ state[cur'] = "none"
    BY <1>11, LocalSteps, Zenon
  <2>2. OneSubmissionPerLife'
    BY <2>1 DEF OneSubmissionPerLife
  <2> SUFFICES ASSUME NEW t \in 1 .. n, Fresh(t)
               PROVE  /\ state'[sent[t].batch] # "none"
                      /\ pc' \in Resuming => \A i \in 1 .. Len(resume') : resume'[i] # sent[t].batch
                      /\ pc' \in Preparing => cur' # sent[t].batch
    BY <2>1, <2>2, Zenon DEF LifeInv, Fresh
  <2>3. state[sent[t].batch] # "none"
    BY Zenon DEF LifeInv
  <2>4. ASSUME pc' \in Resuming
        PROVE  \A i \in 1 .. Len(resume') : resume'[i] # sent[t].batch
    <3>1. \A i \in 1 .. Len(resume) : resume[i] # sent[t].batch
      BY <2>1, <2>4, Zenon DEF LifeInv
    <3>2. CASE resume # << >> /\ resume' = Tail(resume)
      <4>1. /\ Len(resume) \in Nat /\ Len(resume') = Len(resume) - 1
            /\ \A i \in 1 .. Len(resume) - 1 : resume'[i] = resume[i + 1]
        BY <1>1, <3>2, TailOf
      <4>2. \A i \in 1 .. Len(resume') : i + 1 \in 1 .. Len(resume) /\ resume'[i] = resume[i + 1]
        BY <4>1
      <4> QED
        BY <3>1, <4>2, Zenon
    <3> QED
      BY <2>1, <2>4, <3>1, <3>2, Zenon
  <2>5. pc' \in Preparing => cur' # sent[t].batch
    BY <2>1, <2>3, Zenon DEF LifeInv
  <2> QED
    BY <1>2, <1>3, <2>3, <2>4, <2>5, Zenon
<1> QED
  BY <1>6, <1>7, <1>9, <1>11, Zenon

LEMMA LivesInvariant == Spec => [](QueueInv /\ LifeInv /\ OneSubmissionPerLife)
<1>1. Init => QueueInv /\ LifeInv /\ OneSubmissionPerLife
  <2> SUFFICES ASSUME Init PROVE QueueInv /\ LifeInv /\ OneSubmissionPerLife
    BY Zenon
  <2>1. sent = << >> /\ resume = << >> /\ todo = {} /\ lifeStart = 0
    BY Zenon DEF Init
  <2>2. 1 .. Len(sent) = {} /\ 1 .. Len(resume) = {} /\ lifeStart + 1 .. Len(sent) = {}
    BY <2>1
  <2> QED
    BY <2>1, <2>2, Zenon DEF QueueInv, LifeInv, OneSubmissionPerLife
<1>2. TypeInv /\ QueueInv /\ LifeInv /\ OneSubmissionPerLife /\ [Next]_vars
        => QueueInv' /\ LifeInv' /\ OneSubmissionPerLife'
  BY QueueInvStep, LifeStep, Zenon
<1> QED
  BY <1>1, <1>2, TypeInvariant, PTL DEF Spec

\* The dedup check, insert_or_ignore and the recovery queue never submit a batch twice
\* in one life of the daemon.
THEOREM SubmittedOncePerLife == Spec => []OneSubmissionPerLife
  BY LivesInvariant, PTL

-----------------------------------------------------------------------------
(* The pipeline: the stream. *)

StreamType ==
  /\ executed \in 0 .. LastBatch /\ forgotten \in BOOLEAN
  /\ forgotten = FALSE \/ executed # 0
  /\ link \in {"none", "up", "broken"} /\ inflight \in Seq(BatchIds)

\* What is on its way comes in order, and after the rows the outbox has; a stream that is
\* opened, or on which a batch may be published again, is empty.
StreamInv ==
  /\ link = "none" \/ (link = "up" /\ forgotten) => inflight = << >>
  /\ \A i \in 1 .. Len(inflight) : inflight[i] <= executed
  /\ \A i, j \in 1 .. Len(inflight) : i < j => inflight[i] < inflight[j]
  /\ \A b \in BatchIds : state[b] # "none" =>
       b <= executed /\ \A i \in 1 .. Len(inflight) : b <= inflight[i]

\* No row is newer than the one being prepared.
IsNewest(b) == \A c \in BatchIds : state[c] # "none" => c <= b

\* The rows to submit are in the order of their batches, and so is what is left to resume.
OlderInv ==
  \A b, c \in BatchIds :
    b < c /\ state[b] \in Submitting /\ state[c] \in Submitting => <<b, c>> \in older

QueueOrder ==
  /\ \A i, j \in 1 .. Len(resume) : i < j => resume[i] < resume[j]
  /\ \A i \in 1 .. Len(resume) : \A b \in todo : state[b] \in Submitting => resume[i] < b

\* What this life has submitted comes before what it has still to submit.
FreshInv ==
  \A t \in 1 .. Len(sent) : Fresh(t) =>
    /\ \A i \in 1 .. Len(resume) : sent[t].batch < resume[i]
    /\ pc \in Preparing => sent[t].batch < cur

OrderInv ==
  /\ pc \in Preparing => IsNewest(cur)
  /\ OlderInv /\ QueueOrder /\ FreshInv
  /\ pc \notin Recovering => todo = {}
  /\ pc \notin Recovering \cup Resuming => resume = << >>

\* s and t were sent in the same life of the daemon.
SameLife(s, t) == \A n \in starts : ~ (s <= n /\ n < t)

\* The lives so far: each sent its batches in order.
HistInv ==
  /\ starts \subseteq 0 .. lifeStart /\ (lifeStart # 0 => lifeStart \in starts)
  /\ \A s, t \in 1 .. Len(sent) :
       s < t /\ SameLife(s, t) /\ ~sent[s].bump /\ ~sent[t].bump => sent[s].batch < sent[t].batch

\* Before any reorg: L1 has included the transactions in the order they were sent, the one that
\* waits is the last one sent, and an included one has used its nonce.
CalmL1 ==
  /\ pool \in {0, Len(sent)}
  /\ \A t \in 1 .. Len(sent) : sent[t].nonce <= Len(mined) + 1
  /\ \A i \in 1 .. Len(mined) : sent[mined[i].tx].nonce <= Len(mined)
  /\ \A i, j \in 1 .. Len(mined) : i < j => mined[i].tx < mined[j].tx
  /\ pool # 0 => \A i \in 1 .. Len(mined) : mined[i].tx < pool

\* So a row only ever names an included transaction, and there is nothing to bump.
CalmRows ==
  /\ pc # "bumped"
  /\ pc = "record" => Included(tx)
  /\ \A b \in BatchIds : txHash[b] # 0 => Included(txHash[b])
  /\ \A t \in 1 .. Len(sent) : ~sent[t].bump

CalmInv == reorgs = 0 => CalmL1 /\ CalmRows

LEMMA ElementOf ==
  ASSUME NEW S, NEW s \in Seq(S), NEW i \in 1 .. Len(s)
  PROVE  s[i] \in S
  OBVIOUS

LEMMA PipelineBounds ==
  /\ LastBatch \in Nat /\ BatchIds = 1 .. LastBatch /\ StreamCapacity \in Nat \ {0}
  BY PipelineAssumption

\* The channel drops its oldest payload at most.
LEMMA Pushed ==
  ASSUME inflight \in Seq(BatchIds), NEW b \in BatchIds
  PROVE  /\ Push(b) \in Seq(BatchIds)
         /\ \E k \in {0, 1} :
              /\ Len(inflight) - k \in Nat /\ Len(Push(b)) = Len(inflight) - k + 1
              /\ Push(b)[Len(inflight) - k + 1] = b
              /\ \A i \in 1 .. Len(inflight) - k : Push(b)[i] = inflight[i + k]
<1>1. CASE Len(inflight) < StreamCapacity
  <2>1. Push(b) = Append(inflight, b)
    BY <1>1, Zenon DEF Push
  <2>2. Len(inflight) \in Nat
    OBVIOUS
  <2>3. /\ Push(b) \in Seq(BatchIds) /\ Len(Push(b)) = Len(inflight) + 1
        /\ Push(b)[Len(inflight) + 1] = b
        /\ \A i \in 1 .. Len(inflight) : Push(b)[i] = inflight[i]
    BY <2>1, Appended
  <2>4. Len(inflight) - 0 = Len(inflight) /\ \A i \in 1 .. Len(inflight) : i + 0 = i
    BY <2>2
  <2> QED
    BY <2>2, <2>3, <2>4, Zenon
<1>2. CASE ~ (Len(inflight) < StreamCapacity)
  <2>1. inflight # << >> /\ Len(inflight) \in Nat /\ Len(inflight) # 0
    BY <1>2, PipelineBounds
  <2> DEFINE q == Tail(inflight)
  <2>2. /\ q \in Seq(BatchIds) /\ Len(q) = Len(inflight) - 1
        /\ \A i \in 1 .. Len(inflight) - 1 : q[i] = inflight[i + 1]
    BY <2>1, TailOf, Zenon
  <2>3. Push(b) = Append(q, b)
    BY <1>2, Zenon DEF Push
  <2> HIDE DEF q
  <2>4. /\ Push(b) \in Seq(BatchIds) /\ Len(Push(b)) = Len(q) + 1
        /\ Push(b)[Len(q) + 1] = b
        /\ \A i \in 1 .. Len(q) : Push(b)[i] = q[i]
    BY <2>2, <2>3, Appended
  <2>5. Len(inflight) - 1 \in Nat
    BY <2>1
  <2> QED
    BY <2>2, <2>4, <2>5, Zenon
<1> QED
  BY <1>1, <1>2

\* Part of a sequence from the front.
LEMMA PrefixOf ==
  ASSUME NEW S, NEW s \in Seq(S), NEW n \in 0 .. Len(s)
  PROVE  /\ SubSeq(s, 1, n) \in Seq(S) /\ Len(SubSeq(s, 1, n)) = n
         /\ \A i \in 1 .. n : SubSeq(s, 1, n)[i] = s[i]
  OBVIOUS

\* What a step does to the stream.
Sends(b) ==
  /\ b \in BatchIds /\ executed' = b /\ forgotten' = FALSE
  /\ b = executed + 1 \/ (forgotten /\ b = executed)
  /\ inflight' = inflight \/ (link = "up" /\ inflight' = Push(b))
  /\ link' = link /\ UNCHANGED state
Breaks ==
  /\ executed' = executed /\ (forgotten' = forgotten \/ (executed > 0 /\ forgotten' = TRUE))
  /\ LinkBreaks /\ (link = "none" \/ link' = "broken") /\ UNCHANGED state
Opens ==
  /\ UNCHANGED <<executed, forgotten, state>> /\ link = "none" /\ link' = "up"
  /\ inflight' = inflight
Drops ==
  /\ UNCHANGED <<executed, forgotten, state>> /\ link' = "none" /\ inflight' = << >>
StreamKept ==
  /\ UNCHANGED <<executed, forgotten, link, inflight>>
  /\ \A b \in BatchIds : state[b] = "none" => state'[b] = "none"

\* The daemon's own steps add no row to the outbox.
LEMMA NoNewRow ==
  ASSUME TypeInv, Work \/ NodeError \/ Settle \/ Wait \/ DaemonCrash, NEW b \in BatchIds,
         state[b] = "none"
  PROVE  state'[b] = "none"
<1>1. state \in [BatchIds -> SagaStates \cup {"none"}]
  BY Zenon DEF TypeInv, TypeOK
<1>2. CASE Settle \/ Wait \/ DaemonCrash \/ NodeError
  BY <1>2, Zenon DEF Settle, Wait, DaemonCrash, NodeError, Start, Age, Crash, SubmitError, AwaitError,
     ResubmitAwaitError, ResubmitError, Mine, Evict, Reorg, rowVars
<1>3. CASE \/ WriteFile \/ Submit \/ AwaitReceipt \/ AwaitDropped \/ Cleanup \/ RecoverDone
           \/ Resubmit \/ ResubmitReceipt \/ ResubmitDropped \/ ResumeDone \/ ResubmitError
           \/ \E c \in BatchIds : RecoverInterrupted(c) \/ RecoverBump(c) \/ RecoverSkip(c)
  BY <1>3, Zenon DEF WriteFile, Submit, AwaitReceipt, AwaitDropped, Cleanup, RecoverDone, Resubmit,
     ResubmitReceipt, ResubmitDropped, ResumeDone, ResubmitError, RecoverInterrupted,
     RecoverBump, RecoverSkip, rowVars
<1>4. CASE \/ Compress \/ SubmitOffChain \/ Record \/ Confirm \/ RecordBump
           \/ ResubmitRecord \/ ResubmitConfirm \/ \E c \in BatchIds : RecoverGiveUp(c)
  BY <1>1, <1>4, Zenon DEF Compress, SubmitOffChain, Record, Confirm, RecordBump, ResubmitRecord,
     ResubmitConfirm, RecoverGiveUp, OrLogged, UpdateState, UpdateSubmission, rowVars
<1> QED
  BY <1>2, <1>3, <1>4, Zenon DEF Work

\* Every step of the pipeline is a step of the daemon or of L1, or leaves both alone.
LEMMA PipelineSteps ==
  ASSUME StreamType, [PipelineNext]_pipeVars
  PROVE  [Next]_vars
<1>1. CASE \/ UNCHANGED pipeVars \/ Publish \/ JobFails \/ ExecutorCrash \/ PublishAgain
           \/ GetStream \/ Break \/ StreamEnded
  BY <1>1, Zenon DEF pipeVars, Publish, JobFails, ExecutorCrash, PublishAgain, GetStream, Break,
     StreamEnded
<1>2. CASE Receive
  <2>1. Head(inflight) \in BatchIds
    BY <1>2, TailOf, Zenon DEF StreamType, Receive
  <2> QED
    BY <1>2, <2>1, Zenon DEF Receive, Next
<1>3. CASE Work \/ NodeError \/ Settle \/ Wait \/ DaemonCrash
  BY <1>3, Zenon DEF Work, NodeError, Settle, Wait, DaemonCrash, Next, Daemon
<1> QED
  BY <1>1, <1>2, <1>3, Zenon DEF PipelineNext

LEMMA StreamSteps ==
  ASSUME StreamType, TypeInv, [PipelineNext]_pipeVars
  PROVE  (\E b \in BatchIds : Sends(b)) \/ Breaks \/ Opens \/ Drops \/ StreamKept \/ Receive
<1>1. ASSUME executed < LastBatch PROVE executed + 1 \in BatchIds
  BY <1>1, PipelineBounds DEF StreamType
<1>2. ASSUME forgotten PROVE executed \in BatchIds
  BY <1>2, PipelineBounds DEF StreamType
<1>3. CASE Publish
  BY <1>1, <1>3, Zenon DEF Publish, Send, Sends, vars, rowVars
<1>4. CASE JobFails
  BY <1>1, <1>4, Zenon DEF JobFails, Sends, vars, rowVars
<1>5. CASE PublishAgain
  BY <1>2, <1>5, Zenon DEF PublishAgain, Send, Sends, vars, rowVars
<1>6. CASE ExecutorCrash
  <2>1. link = "none" \/ link' = "broken"
    BY <1>6, Zenon DEF ExecutorCrash, LinkBreaks, StreamType
  <2> QED
    BY <1>6, <2>1, Zenon DEF ExecutorCrash, Breaks, vars, rowVars
<1>7. CASE Break
  <2>1. link = "none" \/ link' = "broken"
    BY <1>7, Zenon DEF Break, LinkBreaks, StreamType
  <2> QED
    BY <1>7, <2>1, Zenon DEF Break, Breaks, vars, rowVars
<1>8. CASE GetStream
  BY <1>8, Zenon DEF GetStream, Opens, vars, rowVars
<1>9. CASE StreamEnded
  BY <1>9, Zenon DEF StreamEnded, Drops, vars, rowVars
<1>10. CASE DaemonCrash
  BY <1>10, Zenon DEF DaemonCrash, Drops, Crash, rowVars
<1>11. CASE Work \/ NodeError \/ Settle \/ Wait
  BY <1>11, NoNewRow, Zenon DEF Work, NodeError, Settle, Wait, StreamKept, streamVars
<1>12. CASE UNCHANGED pipeVars
  BY <1>12, Zenon DEF pipeVars, vars, rowVars, StreamKept
<1> QED
  BY <1>3, <1>4, <1>5, <1>6, <1>7, <1>8, <1>9, <1>10, <1>11, <1>12, Zenon DEF PipelineNext

LEMMA StreamTypeStep ==
  ASSUME StreamType, TypeInv, [PipelineNext]_pipeVars
  PROVE  StreamType'
<1>1. ASSUME NEW b \in BatchIds, Sends(b) PROVE StreamType'
  <2>1. b \in 0 .. LastBatch /\ b # 0
    BY PipelineBounds
  <2>2. Push(b) \in Seq(BatchIds)
    BY Pushed, Zenon DEF StreamType
  <2> QED
    BY <1>1, <2>1, <2>2, Zenon DEF Sends, StreamType
<1>2. CASE Breaks
  <2>1. PICK n \in 0 .. Len(inflight) : inflight' = SubSeq(inflight, 1, n)
    BY <1>2, Zenon DEF Breaks, LinkBreaks
  <2>2. inflight' \in Seq(BatchIds)
    BY <2>1, PrefixOf, Zenon DEF StreamType
  <2>3. (forgotten' = FALSE \/ executed # 0) /\ forgotten' \in BOOLEAN
    <3>1. executed > 0 => executed # 0
      BY DEF StreamType
    <3> QED
      BY <1>2, <3>1, Zenon DEF Breaks, StreamType
  <2>4. link' \in {"none", "up", "broken"}
    BY <1>2, Zenon DEF Breaks, LinkBreaks, StreamType
  <2> QED
    BY <1>2, <2>2, <2>3, <2>4, Zenon DEF Breaks, StreamType
<1>3. CASE Opens \/ Drops \/ StreamKept
  <2>1. << >> \in Seq(BatchIds)
    OBVIOUS
  <2> QED
    BY <1>3, <2>1, Zenon DEF Opens, Drops, StreamKept, StreamType
<1>4. CASE Receive
  <2>1. Tail(inflight) \in Seq(BatchIds)
    BY <1>4, TailOf, Zenon DEF StreamType, Receive
  <2> QED
    BY <1>4, <2>1, Zenon DEF StreamType, Receive
<1> QED
  BY <1>1, <1>2, <1>3, <1>4, StreamSteps, Zenon

LEMMA StreamInvStep ==
  ASSUME StreamType, TypeInv, StreamInv, [PipelineNext]_pipeVars
  PROVE  StreamInv'
<1>0. /\ executed \in Nat /\ inflight \in Seq(BatchIds) /\ Len(inflight) \in Nat
      /\ \A i \in 1 .. Len(inflight) : inflight[i] \in Int
      /\ \A b \in BatchIds : b \in Int
      /\ state \in [BatchIds -> SagaStates \cup {"none"}]
  <2>1. executed \in Nat /\ \A b \in BatchIds : b \in Int
    BY PipelineBounds DEF StreamType
  <2>2. inflight \in Seq(BatchIds) /\ state \in [BatchIds -> SagaStates \cup {"none"}]
    BY Zenon DEF StreamType, TypeInv, TypeOK
  <2>3. Len(inflight) \in Nat /\ \A i \in 1 .. Len(inflight) : inflight[i] \in BatchIds
    BY <2>2
  <2> QED
    BY <2>1, <2>2, <2>3, Zenon
<1>1. ASSUME NEW b \in BatchIds, Sends(b) PROVE StreamInv'
  <2>1. /\ executed' = b /\ link' = link /\ state' = state /\ forgotten' = FALSE
        /\ b = executed + 1 \/ (link = "up" /\ inflight' # inflight => inflight = << >> /\ b = executed)
    BY <1>1, Zenon DEF Sends, StreamInv
  <2>2. b >= executed /\ b \in Int
    BY <1>0, <1>1 DEF Sends
  <2>3. \A c \in BatchIds : state[c] # "none" => c <= b
    BY <1>0, <2>2 DEF StreamInv
  <2>4. CASE inflight' = inflight
    <3>1. \A i \in 1 .. Len(inflight) : inflight[i] <= b
      BY <1>0, <2>2 DEF StreamInv
    <3>2. link' = "none" \/ (link' = "up" /\ forgotten') => inflight' = << >>
      BY <2>1, <2>4, Zenon DEF StreamInv
    <3> QED
      BY <2>1, <2>3, <2>4, <3>1, <3>2, Zenon DEF StreamInv
  <2>5. CASE link = "up" /\ inflight' = Push(b)
    <3>1. PICK k \in {0, 1} :
            /\ Len(inflight) - k \in Nat /\ Len(inflight') = Len(inflight) - k + 1
            /\ inflight'[Len(inflight) - k + 1] = b
            /\ \A i \in 1 .. Len(inflight) - k : inflight'[i] = inflight[i + k]
      BY <1>0, <2>5, Pushed, Zenon
    <3>2. \A i \in 1 .. Len(inflight) : inflight[i] < b
      <4>1. CASE b = executed + 1
        BY <1>0, <4>1 DEF StreamInv
      <4>2. CASE inflight = << >>
        BY <4>2
      <4> QED
        BY <1>1, <2>5, <4>1, <4>2, Zenon DEF Sends, StreamInv
    <3> DEFINE m == Len(inflight) - k
    <3>3. /\ m \in Nat /\ Len(inflight') = m + 1 /\ inflight'[m + 1] = b
          /\ \A i \in 1 .. m : i + k \in 1 .. Len(inflight) /\ inflight'[i] = inflight[i + k]
      BY <1>0, <3>1
    <3> HIDE DEF m
    <3>4. \A i \in 1 .. m + 1 : inflight'[i] <= b
      BY <1>0, <2>2, <3>2, <3>3
    <3>5. \A i, j \in 1 .. m + 1 : i < j => inflight'[i] < inflight'[j]
      <4> SUFFICES ASSUME NEW i \in 1 .. m + 1, NEW j \in 1 .. m + 1, i < j
                   PROVE  inflight'[i] < inflight'[j]
        OBVIOUS
      <4>1. i \in 1 .. m /\ i + k \in 1 .. Len(inflight) /\ inflight'[i] = inflight[i + k]
        BY <3>3
      <4>2. CASE j = m + 1
        BY <3>2, <3>3, <4>1, <4>2
      <4>3. CASE j \in 1 .. m
        <5>1. j + k \in 1 .. Len(inflight) /\ inflight'[j] = inflight[j + k] /\ i + k < j + k
          <6>1. j + k \in 1 .. Len(inflight) /\ inflight'[j] = inflight[j + k]
            BY <3>3, <4>3, Zenon
          <6>2. k \in Int /\ i \in Int /\ j \in Int
            OBVIOUS
          <6>3. i + k < j + k
            BY <6>2
          <6> QED
            BY <6>1, <6>3
        <5> QED
          BY <4>1, <5>1, Zenon DEF StreamInv
      <4> QED
        BY <3>3, <4>2, <4>3
    <3>6. \A c \in BatchIds : state[c] # "none" => \A i \in 1 .. m + 1 : c <= inflight'[i]
      <4>1. \A c \in BatchIds : state[c] # "none" => \A i \in 1 .. m : c <= inflight'[i]
        BY <3>3, Zenon DEF StreamInv
      <4>2. \A i \in 1 .. m + 1 : i \in 1 .. m \/ i = m + 1
        BY <3>3
      <4> QED
        BY <2>3, <3>3, <4>1, <4>2, Zenon
    <3>7. ~ (link' = "none" \/ (link' = "up" /\ forgotten'))
      BY <2>1, <2>5, Zenon
    <3> QED
      BY <2>1, <2>3, <3>3, <3>4, <3>5, <3>6, <3>7, Zenon DEF StreamInv
  <2> QED
    BY <1>1, <2>4, <2>5, Zenon DEF Sends
<1>2. ASSUME executed' = executed, state' = state,
             link' = "none" \/ (link' = "up" /\ forgotten') => inflight' = << >>,
             NEW n \in 0 .. Len(inflight), Len(inflight') = n,
             \A i \in 1 .. n : inflight'[i] = inflight[i]
      PROVE  StreamInv'
  <2>1. \A i \in 1 .. n : i \in 1 .. Len(inflight)
    BY <1>0
  <2> QED
    BY <1>2, <2>1, Zenon DEF StreamInv
<1>3. CASE Breaks
  <2>1. PICK n \in 0 .. Len(inflight) : inflight' = SubSeq(inflight, 1, n)
    BY <1>3, Zenon DEF Breaks, LinkBreaks
  <2>2. Len(inflight') = n /\ \A i \in 1 .. n : inflight'[i] = inflight[i]
    BY <1>0, <2>1, PrefixOf, Zenon
  <2>3. link' = "none" => link = "none"
    BY <1>3, Zenon DEF Breaks
  <2>4. link' # "up"
    BY <1>3, Zenon DEF Breaks, LinkBreaks
  <2>5. link = "none" => inflight' = << >>
    <3>1. link = "none" => Len(inflight) = 0 /\ n = 0
      BY <1>0 DEF StreamInv
    <3> QED
      BY <2>1, <3>1
  <2> QED
    BY <1>2, <1>3, <2>2, <2>3, <2>4, <2>5, Zenon DEF Breaks
<1>4. CASE Opens
  <2>1. inflight' = << >> /\ inflight = << >>
    BY <1>4, Zenon DEF Opens, StreamInv
  <2>2. Len(inflight') = 0 /\ 0 \in 0 .. Len(inflight) /\ \A i \in 1 .. 0 : inflight'[i] = inflight[i]
    BY <2>1
  <2> QED
    BY <1>2, <1>4, <2>1, <2>2, Zenon DEF Opens
<1>5. CASE Drops
  <2>1. /\ Len(inflight') = 0 /\ 0 \in 0 .. Len(inflight)
        /\ \A i \in 1 .. 0 : inflight'[i] = inflight[i]
    BY <1>0, <1>5 DEF Drops
  <2> QED
    BY <1>2, <1>5, <2>1, Zenon DEF Drops
<1>6. CASE StreamKept
  BY <1>6, Zenon DEF StreamKept, StreamInv
<1>7. CASE Receive
  <2> DEFINE b == Head(inflight)
  <2>1. /\ inflight # << >> /\ inflight' = Tail(inflight) /\ UNCHANGED <<executed, link, forgotten>>
        /\ \A c \in BatchIds : state'[c] # "none" => state[c] # "none" \/ c = b
    BY <1>0, <1>7, Zenon DEF Receive, Fetch, InsertOrIgnore, rowVars
  <2>2. /\ b = inflight[1] /\ 1 \in 1 .. Len(inflight) /\ Len(inflight') = Len(inflight) - 1
        /\ \A i \in 1 .. Len(inflight) - 1 : inflight'[i] = inflight[i + 1]
    BY <1>0, <2>1, TailOf
  <2>3. \A i \in 1 .. Len(inflight') : i + 1 \in 1 .. Len(inflight) /\ 1 < i + 1
                                       /\ inflight'[i] = inflight[i + 1]
    BY <1>0, <2>2
  <2> HIDE DEF b
  <2>4. \A i \in 1 .. Len(inflight') : inflight'[i] <= executed /\ b < inflight'[i]
    BY <2>2, <2>3, Zenon DEF StreamInv
  <2>5. \A i, j \in 1 .. Len(inflight') : i < j => inflight'[i] < inflight'[j]
    <3>1. \A i, j \in 1 .. Len(inflight') : i < j => i + 1 < j + 1
      BY <1>0, <2>2
    <3> QED
      BY <2>3, <3>1, Zenon DEF StreamInv
  <2>6. b <= executed /\ \A i \in 1 .. Len(inflight') : b <= inflight'[i]
    <3>1. b \in Int /\ \A i \in 1 .. Len(inflight') : inflight'[i] \in Int
      BY <1>0, <2>2, <2>3, Zenon
    <3>2. \A x, y \in Int : x < y => x <= y
      OBVIOUS
    <3> QED
      BY <2>2, <2>4, <3>1, <3>2, Zenon DEF StreamInv
  <2>7. \A c \in BatchIds : state'[c] # "none" =>
          c <= executed /\ \A i \in 1 .. Len(inflight') : c <= inflight'[i]
    BY <2>1, <2>3, <2>6, Zenon DEF StreamInv
  <2>8. ~ (link' = "none" \/ (link' = "up" /\ forgotten'))
    BY <2>1, Zenon DEF StreamInv
  <2> QED
    BY <2>1, <2>4, <2>5, <2>7, <2>8, Zenon DEF StreamInv
<1> QED
  BY <1>1, <1>3, <1>4, <1>5, <1>6, <1>7, StreamSteps, Zenon

LEMMA PipelineTypes == PipelineSpec => [](StreamType /\ TypeInv)
<1>1. PipelineInit => StreamType /\ TypeInv
  <2> SUFFICES ASSUME PipelineInit PROVE StreamType /\ TypeInv
    BY Zenon
  <2>1. 0 \in 0 .. LastBatch /\ << >> \in Seq(BatchIds)
    BY PipelineBounds
  <2> QED
    BY <2>1, InitType, Zenon DEF PipelineInit, StreamType
<1>2. StreamType /\ TypeInv /\ [PipelineNext]_pipeVars => (StreamType /\ TypeInv)'
  BY StreamTypeStep, PipelineSteps, StepType, Zenon
<1> QED
  BY <1>1, <1>2, PTL DEF PipelineSpec

\* The daemon behind the stream is the daemon of Submitter, so what is proved of its saga, its
\* files, its gas prices and its submissions holds in the pipeline.
THEOREM PipelineRunsTheDaemon == PipelineSpec => Spec
<1>1. PipelineInit => Init
  BY Zenon DEF PipelineInit
<1>2. StreamType /\ [PipelineNext]_pipeVars => [Next]_vars
  BY PipelineSteps
<1> QED
  BY <1>1, <1>2, PipelineTypes, PTL DEF PipelineSpec, Spec

-----------------------------------------------------------------------------
(* The order of the rows. *)

\* A row that is written becomes the newest; only a new row, or the one at hand, is written
\* without being past its submission.
LEMMA OlderSteps ==
  ASSUME TypeInv, [Next]_vars
  PROVE  \/ UNCHANGED <<state, older>>
         \/ \E b \in BatchIds, s \in SagaStates :
              /\ state' = [state EXCEPT ![b] = s] /\ Touch(b)
              /\ \/ s \notin Submitting
                 \/ state[b] = "none"
                 \/ pc = "compress" /\ b = cur
<1>1. state \in [BatchIds -> SagaStates \cup {"none"}]
  BY Zenon DEF TypeInv, TypeOK
<1>2. pc \in Pcs \ {"down", "recover", "resume", "idle"} => cur \in BatchIds
  BY Zenon DEF TypeInv, TypeOK
<1>3. /\ {"ReceivedFromExecutor", "Compressed", "SubmittedToL1", "ConfirmedOnL1", "Failed"} \subseteq SagaStates
      /\ "SubmittedToL1" \notin Submitting /\ "ConfirmedOnL1" \notin Submitting
      /\ "Failed" \notin Submitting
  BY Zenon DEF SagaStates, Submitting
<1>4. ASSUME NEW b \in BatchIds, Fetch(b)
      PROVE  \/ UNCHANGED <<state, older>>
             \/ state[b] = "none" /\ state' = [state EXCEPT ![b] = "ReceivedFromExecutor"] /\ Touch(b)
  BY <1>4, Zenon DEF Fetch, InsertOrIgnore, rowVars
<1>5. CASE Compress
  <2>1. pc = "compress" /\ cur \in BatchIds
    BY <1>2, <1>5, Zenon DEF Compress, Pcs
  <2>2. \/ UNCHANGED <<state, older>>
        \/ state' = [state EXCEPT ![cur] = "Compressed"] /\ Touch(cur)
    BY <1>5, Zenon DEF Compress, OrLogged, UpdateState, rowVars
  <2> QED
    BY <1>3, <2>1, <2>2, Zenon
<1>6. CASE Confirm
  <2>1. cur \in BatchIds
    BY <1>2, <1>6, Zenon DEF Confirm, Pcs
  <2>2. \/ UNCHANGED <<state, older>>
        \/ state' = [state EXCEPT ![cur] = "ConfirmedOnL1"] /\ Touch(cur)
    BY <1>6, Zenon DEF Confirm, OrLogged, UpdateState, rowVars
  <2> QED
    BY <1>3, <2>1, <2>2, Zenon
<1>7. ASSUME NEW b \in BatchIds, RecoverGiveUp(b)
      PROVE  \/ UNCHANGED <<state, older>>
             \/ state' = [state EXCEPT ![b] = "Failed"] /\ Touch(b)
  BY <1>7, Zenon DEF RecoverGiveUp, OrLogged, UpdateState, rowVars
<1>8. CASE SubmitOffChain \/ Record \/ RecordBump
  <2>1. cur \in BatchIds
    BY <1>2, <1>8, Zenon DEF SubmitOffChain, Record, RecordBump, Pcs
  <2>2. \/ UNCHANGED <<state, older>>
        \/ state' = [state EXCEPT ![cur] = "SubmittedToL1"] /\ Touch(cur)
    BY <1>8, Zenon DEF SubmitOffChain, Record, RecordBump, OrLogged, UpdateSubmission, rowVars
  <2> QED
    BY <1>3, <2>1, <2>2, Zenon
<1>9. CASE ResubmitRecord \/ ResubmitConfirm
  BY <1>9, Bounds, Zenon DEF ResubmitRecord, ResubmitConfirm, ResumedKey, UpdateSubmission,
     UpdateState, rowVars
<1>10. CASE \/ UNCHANGED vars \/ Start \/ RecoverDone \/ ResumeDone
            \/ WriteFile \/ SubmitError \/ AwaitReceipt \/ AwaitDropped \/ AwaitError \/ Cleanup
            \/ ResubmitError \/ ResubmitReceipt \/ ResubmitDropped \/ ResubmitAwaitError
            \/ Submit \/ Resubmit \/ Evict \/ Reorg \/ Crash \/ \E ok \in BOOLEAN : Mine(ok)
            \/ \E c \in BatchIds : \/ RecoverInterrupted(c) \/ RecoverSkip(c) \/ RecoverBump(c)
                                   \/ Age(c)
  BY <1>10, Zenon DEF vars, rowVars, Start, RecoverDone, ResumeDone, WriteFile, SubmitError,
     AwaitReceipt, AwaitDropped, AwaitError, Cleanup, ResubmitError, ResubmitReceipt,
     ResubmitDropped, ResubmitAwaitError, Submit, Resubmit, Evict, Reorg, Crash, Mine,
     RecoverInterrupted, RecoverSkip, RecoverBump, Age
<1>11. CASE \E b \in BatchIds : Fetch(b) \/ RecoverGiveUp(b)
  BY <1>3, <1>4, <1>7, <1>11, Zenon
<1> QED
  BY <1>5, <1>6, <1>8, <1>9, <1>10, <1>11, Zenon DEF Next, Daemon

\* The new rows of this step are newer than all others.
NewRowsNewest ==
  \A b \in BatchIds : state[b] = "none" /\ state'[b] # "none" => IsNewest(b)

LEMMA OlderInvStep ==
  ASSUME TypeInv, OrderInv, NewRowsNewest, [Next]_vars
  PROVE  OlderInv'
<1>1. OlderInv /\ (pc \in Preparing => IsNewest(cur))
  BY Zenon DEF OrderInv
<1>2. state \in [BatchIds -> SagaStates \cup {"none"}] /\ BatchIds \subseteq Int
  BY PipelineBounds DEF TypeInv, TypeOK
<1>3. CASE UNCHANGED <<state, older>>
  BY <1>1, <1>3, Zenon DEF OlderInv
<1>4. ASSUME NEW b \in BatchIds, NEW s \in SagaStates,
             state' = [state EXCEPT ![b] = s], Touch(b),
             s \notin Submitting \/ state[b] = "none" \/ (pc = "compress" /\ b = cur)
      PROVE  OlderInv'
  <2> SUFFICES ASSUME NEW x \in BatchIds, NEW y \in BatchIds, x < y,
                      state'[x] \in Submitting, state'[y] \in Submitting
               PROVE  <<x, y>> \in older'
    BY Zenon DEF OlderInv
  <2>1. x # y
    BY <1>2
  <2>2. state'[b] = s /\ \A c \in BatchIds : c # b => state'[c] = state[c]
    BY <1>2, <1>4, Zenon
  <2>3. "none" \notin Submitting /\ s # "none"
    BY Zenon DEF Submitting, SagaStates
  <2>4. CASE y = b
    BY <1>4, <2>1, <2>2, <2>3, <2>4, Zenon DEF Touch
  <2>5. CASE x = b
    <3>1. IsNewest(b)
      BY <1>1, <1>4, <2>2, <2>3, <2>5, Zenon DEF NewRowsNewest, Preparing
    <3>2. y <= x
      BY <2>1, <2>2, <2>3, <2>5, <3>1, Zenon DEF IsNewest
    <3> QED
      BY <1>2, <3>2
  <2>6. CASE x # b /\ y # b
    <3>1. <<x, y>> \in older
      BY <1>1, <2>2, <2>6, Zenon DEF OlderInv
    <3>2. <<x, y>>[1] = x
      OBVIOUS
    <3> QED
      BY <1>4, <2>6, <3>1, <3>2, Zenon DEF Touch
  <2> QED
    BY <2>4, <2>5, <2>6
<1> QED
  BY <1>3, <1>4, OlderSteps, Zenon

LEMMA NewestStep ==
  ASSUME TypeInv, OrderInv, NewRowsNewest, [Next]_vars, pc' \in Preparing
  PROVE  /\ IsNewest(cur)'
         /\ \/ pc \in Preparing /\ cur' = cur
            \/ pc = "idle" /\ cur' \in BatchIds /\ state[cur'] = "none" /\ IsNewest(cur')
<1>1. state \in [BatchIds -> SagaStates \cup {"none"}] /\ BatchIds \subseteq Int
  BY PipelineBounds DEF TypeInv, TypeOK
<1>2. \/ pc \in Preparing /\ cur' = cur /\ \A c \in BatchIds : state[c] = "none" => state'[c] = "none"
      \/ /\ pc = "idle" /\ cur' \in BatchIds /\ state[cur'] = "none"
         /\ state' = [state EXCEPT ![cur'] = "ReceivedFromExecutor"]
  <2>1. CASE \/ UNCHANGED vars \/ Evict \/ Reorg \/ (\E ok \in BOOLEAN : Mine(ok)) \/ WriteFile
             \/ \E b \in BatchIds : Age(b)
    BY <2>1, Zenon DEF vars, rowVars, daemonVars, Evict, Reorg, Mine, WriteFile, Age, Abandon, Preparing
  <2>2. CASE Compress
    BY <1>1, <2>2, Zenon DEF Compress, OrLogged, UpdateState, rowVars, Preparing
  <2>3. CASE \E b \in BatchIds : Fetch(b)
    BY <1>1, <2>3, Zenon DEF Fetch, InsertOrIgnore, Preparing
  <2>4. CASE \/ SubmitOffChain \/ Submit \/ SubmitError \/ AwaitReceipt \/ AwaitDropped \/ AwaitError
             \/ Record \/ Confirm \/ Cleanup \/ RecordBump \/ RecoverDone \/ Resubmit
             \/ ResubmitError \/ ResubmitReceipt \/ ResubmitRecord \/ ResubmitConfirm
             \/ ResubmitDropped \/ ResubmitAwaitError \/ ResumeDone \/ Crash \/ Start
             \/ \E b \in BatchIds : \/ RecoverInterrupted(b) \/ RecoverGiveUp(b)
                                    \/ RecoverBump(b) \/ RecoverSkip(b)
    BY <2>4, Zenon DEF SubmitOffChain, Submit, SubmitError, AwaitReceipt, AwaitDropped, AwaitError,
       Record, Confirm, Cleanup, RecordBump, RecoverDone, Resubmit, ResubmitError,
       ResubmitReceipt, ResubmitRecord, ResubmitConfirm, ResubmitDropped, ResubmitAwaitError,
       ResumeDone, Crash, Start, RecoverInterrupted, RecoverGiveUp, RecoverBump, RecoverSkip,
       Abandon, NextResumed, Preparing
  <2> QED
    BY <2>1, <2>2, <2>3, <2>4, Zenon DEF Next, Daemon
<1>3. CASE pc \in Preparing /\ cur' = cur /\ \A c \in BatchIds : state[c] = "none" => state'[c] = "none"
  BY <1>3, Zenon DEF OrderInv, IsNewest
<1>4. CASE /\ pc = "idle" /\ cur' \in BatchIds /\ state[cur'] = "none"
           /\ state' = [state EXCEPT ![cur'] = "ReceivedFromExecutor"]
  <2>1. IsNewest(cur')
    BY <1>1, <1>4, Zenon DEF NewRowsNewest
  <2>2. cur' <= cur'
    BY <1>1, <1>4
  <2>3. \A c \in BatchIds : c # cur' => state'[c] = state[c]
    BY <1>1, <1>4, Zenon
  <2> QED
    BY <1>4, <2>1, <2>2, <2>3, Zenon DEF IsNewest
<1> QED
  BY <1>2, <1>3, <1>4

\* How recovery and resumption go through their queues.
LEMMA QueueOrderSteps ==
  ASSUME TypeInv, [Next]_vars
  PROVE  \/ UNCHANGED <<todo, resume>>
         \/ pc = "down" /\ resume' = resume
         \/ \E b \in todo :
              /\ todo' = todo \ {b}
              /\ \/ resume' = resume
                 \/ /\ resume' = Append(resume, b) /\ Oldest(b)
                    /\ state[b] \in Submitting /\ state' = state
         \/ todo' = todo /\ resume # << >> /\ resume' = Tail(resume)
         \/ todo' = {} /\ resume' = << >>
<1>1. CASE Start
  BY <1>1, Zenon DEF Start
<1>2. ASSUME NEW b \in BatchIds, RecoverGiveUp(b) \/ RecoverBump(b) \/ RecoverSkip(b)
      PROVE  b \in todo /\ todo' = todo \ {b} /\ resume' = resume
  BY <1>2, Zenon DEF RecoverGiveUp, RecoverBump, RecoverSkip, Oldest
<1>3. ASSUME NEW b \in BatchIds, RecoverInterrupted(b)
      PROVE  /\ b \in todo /\ todo' = todo \ {b} /\ resume' = Append(resume, b) /\ Oldest(b)
             /\ state[b] \in Submitting /\ state' = state
  BY <1>3, Zenon DEF RecoverInterrupted, Oldest, Submitting, rowVars
<1>4. CASE Resubmit \/ ResubmitError
  BY <1>4, Zenon DEF Resubmit, ResubmitError
<1>5. CASE Crash
  BY <1>5, Zenon DEF Crash
<1>6. CASE \/ UNCHANGED vars \/ RecoverDone \/ ResumeDone
           \/ WriteFile \/ SubmitError \/ AwaitReceipt \/ AwaitDropped \/ AwaitError \/ Cleanup
           \/ ResubmitReceipt \/ ResubmitDropped \/ ResubmitAwaitError
           \/ ResubmitRecord \/ ResubmitConfirm \/ RecordBump
           \/ Compress \/ SubmitOffChain \/ Submit \/ Record \/ Confirm
           \/ Evict \/ Reorg \/ (\E ok \in BOOLEAN : Mine(ok))
           \/ \E b \in BatchIds : Fetch(b) \/ Age(b)
  <2>1. UNCHANGED <<todo, resume>>
    BY <1>6, Zenon DEF vars, daemonVars, RecoverDone, ResumeDone, WriteFile, SubmitError,
       AwaitReceipt, AwaitDropped, AwaitError, Cleanup, ResubmitReceipt,
       ResubmitDropped, ResubmitAwaitError, ResubmitRecord, ResubmitConfirm, RecordBump,
       Compress, SubmitOffChain, Submit, Record, Confirm, Evict, Reorg, Mine, Fetch, Age
  <2> QED
    BY <2>1, Zenon
<1> QED
  BY <1>1, <1>2, <1>3, <1>4, <1>5, <1>6, Zenon DEF Next, Daemon

LEMMA QueueOrderStep ==
  ASSUME TypeInv, QueueInv, OrderInv, [Next]_vars
  PROVE  QueueOrder'
<1>1. QueueOrder /\ OlderInv
  BY Zenon DEF OrderInv
<1>2. /\ todo \subseteq BatchIds /\ resume \in Seq(BatchIds) /\ Len(resume) \in Nat
      /\ BatchIds \subseteq Int
  BY PipelineBounds DEF TypeInv, TypeOK
<1>3. \A b \in todo : state'[b] \in Submitting => state[b] \in Submitting
  <2>1. state \in [BatchIds -> SagaStates \cup {"none"}]
    BY Zenon DEF TypeInv, TypeOK
  <2>2. \A b \in todo : b \in BatchIds /\ state[b] # "none"
    BY <1>2, Zenon DEF QueueInv
  <2> QED
    BY <2>1, <2>2, RowSteps, Zenon DEF Inserted, Moved, Submitted, Sent, Submitting
<1>4. CASE UNCHANGED <<todo, resume>>
  BY <1>1, <1>3, <1>4, Zenon DEF QueueOrder
<1>5. CASE resume' = << >>
  <2>1. 1 .. Len(resume') = {}
    BY <1>5
  <2> QED
    BY <2>1, Zenon DEF QueueOrder
<1>6. CASE pc = "down" /\ resume' = resume
  <2>1. resume' = << >>
    BY <1>6, Zenon DEF QueueInv
  <2> QED
    BY <1>5, <2>1
<1>7. ASSUME NEW b \in todo, todo' = todo \ {b}, resume' = resume
      PROVE  QueueOrder'
  BY <1>1, <1>3, <1>7, Zenon DEF QueueOrder
<1>8. ASSUME NEW b \in todo, todo' = todo \ {b}, resume' = Append(resume, b), Oldest(b),
             state[b] \in Submitting, state' = state
      PROVE  QueueOrder'
  <2> DEFINE n == Len(resume)
  <2>1. /\ Len(resume') = n + 1 /\ resume'[n + 1] = b
        /\ \A i \in 1 .. n : resume'[i] = resume[i]
    BY <1>2, <1>8, Appended
  <2>2. \A i \in 1 .. n : resume'[i] < b
    BY <1>1, <1>8, <2>1, Zenon DEF QueueOrder
  <2>3. \A i \in 1 .. n + 1 : i = n + 1 \/ i \in 1 .. n
    BY <1>2
  <2>4. \A i, j \in 1 .. n + 1 : i < j => i \in 1 .. n
    BY <1>2
  <2>5. \A i, j \in 1 .. n + 1 : i < j => resume'[i] < resume'[j]
    BY <1>1, <2>1, <2>2, <2>3, <2>4, Zenon DEF QueueOrder
  <2>6. ASSUME NEW c \in todo', state'[c] \in Submitting PROVE b < c
    <3>1. c \in todo /\ c # b /\ state[c] \in Submitting /\ c \in BatchIds /\ b \in BatchIds
      BY <1>2, <1>8, <2>6, Zenon
    <3>2. ~ (c < b)
      BY <1>1, <1>8, <3>1, Zenon DEF OlderInv, Oldest
    <3> QED
      BY <1>2, <3>1, <3>2
  <2>7. \A i \in 1 .. n + 1 : \A c \in todo' : state'[c] \in Submitting => resume'[i] < c
    BY <1>1, <1>8, <2>1, <2>3, <2>6, Zenon DEF QueueOrder
  <2> QED
    BY <2>1, <2>5, <2>7, Zenon DEF QueueOrder
<1>9. CASE todo' = todo /\ resume # << >> /\ resume' = Tail(resume)
  <2>1. /\ Len(resume') = Len(resume) - 1
        /\ \A i \in 1 .. Len(resume) - 1 : resume'[i] = resume[i + 1]
    BY <1>2, <1>9, TailOf
  <2>2. \A i \in 1 .. Len(resume') : i + 1 \in 1 .. Len(resume) /\ resume'[i] = resume[i + 1]
    BY <1>2, <2>1
  <2>3. \A i, j \in 1 .. Len(resume') : i < j => i + 1 < j + 1
    BY <1>2, <2>1
  <2> QED
    BY <1>1, <1>3, <1>9, <2>2, <2>3, Zenon DEF QueueOrder
<1> QED
  BY <1>4, <1>5, <1>6, <1>7, <1>8, <1>9, QueueOrderSteps, Zenon

\* Recovery ends with nothing left to recover, resumption with nothing left to resume.
LEMMA QueuesEnd ==
  ASSUME TypeInv, OrderInv, [Next]_vars
  PROVE  /\ pc' \notin Recovering => todo' = {}
         /\ pc' \notin Recovering \cup Resuming => resume' = << >>
<1>1. /\ pc \notin Recovering => todo = {}
      /\ pc \notin Recovering \cup Resuming => resume = << >>
  BY Zenon DEF OrderInv
<1>2. CASE Crash \/ RecoverDone \/ ResumeDone \/ Start
  BY <1>1, <1>2, Zenon DEF Crash, RecoverDone, ResumeDone, Start, Recovering, Resuming
<1>3. CASE \E b \in BatchIds : \/ RecoverInterrupted(b) \/ RecoverGiveUp(b)
                               \/ RecoverBump(b) \/ RecoverSkip(b)
  BY <1>3, Zenon DEF RecoverInterrupted, RecoverGiveUp, RecoverBump, RecoverSkip, Recovering
<1>4. CASE RecordBump \/ UNCHANGED vars \/ Evict \/ Reorg \/ (\E ok \in BOOLEAN : Mine(ok))
           \/ \E b \in BatchIds : Age(b)
  BY <1>1, <1>4, Zenon DEF RecordBump, vars, daemonVars, Evict, Reorg, Mine, Age, Recovering
<1>5. CASE \/ Resubmit \/ ResubmitError \/ ResubmitReceipt \/ ResubmitRecord \/ ResubmitConfirm
           \/ ResubmitDropped \/ ResubmitAwaitError
  BY <1>1, <1>5, Zenon DEF Resubmit, ResubmitError, ResubmitReceipt, ResubmitRecord, ResubmitConfirm,
     ResubmitDropped, ResubmitAwaitError, NextResumed, Recovering, Resuming
<1>6. CASE \/ WriteFile \/ Compress \/ SubmitOffChain \/ Submit \/ SubmitError \/ AwaitReceipt
           \/ AwaitDropped \/ AwaitError \/ Record \/ Confirm \/ Cleanup \/ \E b \in BatchIds : Fetch(b)
  BY <1>1, <1>6, Zenon DEF WriteFile, Compress, SubmitOffChain, Submit, SubmitError, AwaitReceipt,
     AwaitDropped, AwaitError, Record, Confirm, Cleanup, Fetch, Recovering, Resuming
<1> QED
  BY <1>2, <1>3, <1>4, <1>5, <1>6, Zenon DEF Next, Daemon

\* A batch that is submitted is newer than those submitted before in this life, and older than
\* those still to be resumed.
LEMMA NextInOrder ==
  ASSUME TypeInv, OrderInv, [Next]_vars, NEW b \in BatchIds,
         (Submit /\ b = cur) \/ (Resubmit /\ b = Head(resume))
  PROVE  /\ \A t \in 1 .. Len(sent) : Fresh(t) => sent[t].batch < b
         /\ \A i \in 1 .. Len(resume') : b < resume'[i]
         /\ \A t \in 1 .. Len(sent) : Fresh(t) => \A i \in 1 .. Len(resume') : sent[t].batch < resume'[i]
         /\ pc' \notin Preparing /\ lifeStart' = lifeStart
<1>1. FreshInv /\ QueueOrder /\ (pc \notin Recovering \cup Resuming => resume = << >>)
  BY Zenon DEF OrderInv
<1>2. resume \in Seq(BatchIds) /\ Len(resume) \in Nat
  BY DEF TypeInv, TypeOK
<1>3. CASE Submit /\ b = cur
  <2>1. pc = "submit" /\ pc' = "await" /\ resume' = resume /\ lifeStart' = lifeStart
    BY <1>3, Zenon DEF Submit
  <2>2. resume' = << >>
    BY <1>1, <2>1, Zenon DEF Recovering, Resuming
  <2>3. 1 .. Len(resume') = {}
    BY <2>2
  <2> QED
    BY <1>1, <1>3, <2>1, <2>3, Zenon DEF FreshInv, Preparing
<1>4. CASE Resubmit /\ b = Head(resume)
  <2>1. /\ pc' = "resumeAwait" /\ resume # << >> /\ resume' = Tail(resume)
        /\ lifeStart' = lifeStart
    BY <1>4, Zenon DEF Resubmit
  <2>2. /\ b = resume[1] /\ 1 \in 1 .. Len(resume) /\ Len(resume') = Len(resume) - 1
        /\ \A i \in 1 .. Len(resume) - 1 : resume'[i] = resume[i + 1]
    BY <1>2, <1>4, <2>1, TailOf
  <2>3. \A i \in 1 .. Len(resume') : i + 1 \in 1 .. Len(resume) /\ resume'[i] = resume[i + 1] /\ 1 < i + 1
    BY <1>2, <2>2
  <2>4. pc' \notin Preparing
    BY <2>1, Zenon DEF Preparing
  <2> QED
    BY <1>1, <2>1, <2>2, <2>3, <2>4, Zenon DEF FreshInv, QueueOrder
<1> QED
  BY <1>3, <1>4

LEMMA FreshInvStep ==
  ASSUME TypeInv, LifeInv, OrderInv, NewRowsNewest, [Next]_vars
  PROVE  FreshInv'
<1> DEFINE n == Len(sent)
<1>1. /\ FreshInv /\ sent \in Seq(Tx) /\ n \in Nat /\ lifeStart \in 0 .. n
      /\ resume \in Seq(BatchIds) /\ Len(resume) \in Nat
  BY DEF TypeInv, TypeOK, OrderInv
<1>2. \A t \in 1 .. n : sent[t].batch \in BatchIds
  <2>1. \A t \in 1 .. n : sent[t] \in Tx
    BY <1>1
  <2> QED
    BY <2>1, Zenon DEF Tx
<1>3. CASE Crash \/ pc \in Recovering
  BY <1>3, NoneFresh, Zenon DEF FreshInv
<1>4. ASSUME NEW b \in BatchIds, (Submit /\ b = cur) \/ (Resubmit /\ b = Head(resume)),
             Sent(b, GasPrice, FALSE)
      PROVE  FreshInv'
  <2>1. GasPrice \in Nat /\ FALSE \in BOOLEAN
    BY Bounds, Zenon
  <2>2. /\ Len(sent') = n + 1
        /\ sent'[n + 1] = [batch |-> b, gas |-> GasPrice, nonce |-> NextNonce, bump |-> FALSE]
        /\ \A t \in 1 .. n : sent'[t] = sent[t]
    BY <1>4, <2>1, SentGrows, Zenon
  <2>3. sent'[n + 1].batch = b
    BY <2>2
  <2>4. /\ \A i \in 1 .. Len(resume') : b < resume'[i]
        /\ \A t \in 1 .. n : Fresh(t) => \A i \in 1 .. Len(resume') : sent[t].batch < resume'[i]
        /\ pc' \notin Preparing /\ lifeStart' = lifeStart
    BY <1>4, NextInOrder, Zenon
  <2>5. \A t \in 1 .. n + 1 : t = n + 1 \/ t \in 1 .. n
    BY <1>1
  <2>6. \A t \in 1 .. n : t \in lifeStart + 1 .. n + 1 => t \in lifeStart + 1 .. n
    BY <1>1
  <2>7. \A t \in 1 .. n : Fresh(t)' => Fresh(t)
    BY <2>2, <2>4, <2>6, Zenon DEF Fresh
  <2> QED
    BY <2>2, <2>3, <2>4, <2>5, <2>7, Zenon DEF FreshInv
<1>5. CASE Submit
  <2>1. cur \in BatchIds
    BY <1>5, Zenon DEF Submit, TypeInv, TypeOK, Pcs
  <2>2. Sent(cur, GasPrice, FALSE)
    BY <1>5, Zenon DEF Submit, Broadcast, Sent, rowVars
  <2>3. PICK b \in BatchIds : b = cur
    BY <2>1, Zenon
  <2> QED
    BY <1>4, <1>5, <2>2, <2>3, Zenon
<1>6. CASE Resubmit
  <2>1. Head(resume) \in BatchIds
    BY <1>1, <1>6, TailOf, Zenon DEF Resubmit
  <2>2. Sent(Head(resume), GasPrice, FALSE)
    BY <1>6, Zenon DEF Resubmit, Broadcast, Sent, rowVars
  <2> QED
    BY <1>4, <1>6, <2>1, <2>2, Zenon
<1>7. CASE pc \notin Recovering /\ ~Submit /\ ~Resubmit /\ ~Crash
  <2>1. sent' = sent /\ lifeStart' = lifeStart /\ pc' \notin Recovering
    BY <1>7, LocalSteps, Zenon
  <2>2. \A t \in 1 .. n : Fresh(t) => \A i \in 1 .. Len(resume') : sent[t].batch < resume'[i]
    <3>1. CASE pc' \in Resuming
      <4>1. resume' = resume \/ (resume # << >> /\ resume' = Tail(resume))
        BY <1>7, <3>1, LocalSteps, Zenon
      <4>2. CASE resume # << >> /\ resume' = Tail(resume)
        <5>1. /\ Len(resume') = Len(resume) - 1
              /\ \A i \in 1 .. Len(resume) - 1 : resume'[i] = resume[i + 1]
          BY <1>1, <4>2, TailOf
        <5>2. \A i \in 1 .. Len(resume') : i + 1 \in 1 .. Len(resume) /\ resume'[i] = resume[i + 1]
          BY <1>1, <5>1
        <5> QED
          BY <1>1, <5>2, Zenon DEF FreshInv
      <4> QED
        BY <1>1, <4>1, <4>2, Zenon DEF FreshInv
    <3>2. CASE pc' \notin Resuming
      <4>1. resume' = << >>
        BY <2>1, <3>2, QueuesEnd, Zenon
      <4>2. 1 .. Len(resume') = {}
        BY <4>1
      <4> QED
        BY <4>2, Zenon
    <3> QED
      BY <3>1, <3>2
  <2>3. ASSUME pc' \in Preparing, NEW t \in 1 .. n, Fresh(t)
        PROVE  sent[t].batch < cur'
    <3>1. CASE pc \in Preparing /\ cur' = cur
      BY <1>1, <2>3, <3>1, Zenon DEF FreshInv
    <3>2. CASE cur' \in BatchIds /\ state[cur'] = "none" /\ IsNewest(cur')
      <4>1. sent[t].batch \in BatchIds /\ sent[t].batch <= cur' /\ sent[t].batch # cur'
        BY <1>2, <2>3, <3>2, Zenon DEF IsNewest, LifeInv
      <4>2. BatchIds \subseteq Int
        BY PipelineBounds
      <4>3. sent[t].batch \in Int /\ cur' \in Int
        BY <3>2, <4>1, <4>2, Zenon
      <4> QED
        BY <4>1, <4>3
    <3> QED
      BY <2>3, <3>1, <3>2, NewestStep, Zenon
  <2> QED
    BY <2>1, <2>2, <2>3, Zenon DEF FreshInv, Fresh
<1> QED
  BY <1>3, <1>5, <1>6, <1>7, Zenon

LEMMA OrderInvStep ==
  ASSUME TypeInv, QueueInv, LifeInv, OrderInv, NewRowsNewest, [Next]_vars
  PROVE  OrderInv'
<1>1. pc' \in Preparing => IsNewest(cur)'
  BY NewestStep, Zenon
<1>2. OlderInv' /\ QueueOrder' /\ FreshInv'
  BY OlderInvStep, QueueOrderStep, FreshInvStep, Zenon
<1>3. /\ pc' \notin Recovering => todo' = {}
      /\ pc' \notin Recovering \cup Resuming => resume' = << >>
  BY QueuesEnd, Zenon
<1> QED
  BY <1>1, <1>2, <1>3, Zenon DEF OrderInv

-----------------------------------------------------------------------------
(* The lives of the daemon. *)

LEMMA StartsSteps ==
  ASSUME [PipelineNext]_pipeVars
  PROVE  \/ UNCHANGED <<lifeStart, starts>>
         \/ lifeStart' = Len(sent) /\ starts' = starts \cup {Len(sent)} /\ sent' = sent
<1>1. CASE DaemonCrash
  BY <1>1, Zenon DEF DaemonCrash, Crash, l1Vars
<1>2. CASE \/ UNCHANGED pipeVars \/ Publish \/ JobFails \/ ExecutorCrash \/ PublishAgain
           \/ GetStream \/ Break \/ StreamEnded
  BY <1>2, Zenon DEF pipeVars, vars, Publish, JobFails, ExecutorCrash, PublishAgain, GetStream,
     Break, StreamEnded
<1>3. CASE Receive \/ Settle \/ Wait \/ NodeError
  BY <1>3, Zenon DEF Receive, Settle, Wait, NodeError, Fetch, Mine, Start, Age, SubmitError,
     AwaitError, ResubmitAwaitError, ResubmitError, Evict, Reorg
<1>4. CASE Work
  BY <1>4, Zenon DEF Work, WriteFile, Compress, SubmitOffChain, Submit, AwaitReceipt, AwaitDropped,
     Record, Confirm, Cleanup, RecordBump, RecoverDone, Resubmit, ResubmitReceipt,
     ResubmitRecord, ResubmitConfirm, ResubmitDropped, ResumeDone, ResubmitError,
     RecoverInterrupted, RecoverGiveUp, RecoverBump, RecoverSkip
<1> QED
  BY <1>1, <1>2, <1>3, <1>4, Zenon DEF PipelineNext

LEMMA FreshBefore ==
  ASSUME TypeInv, OrderInv, NEW b,
         \/ pc = "submit" /\ b = cur
         \/ pc = "resume" /\ resume # << >> /\ b = Head(resume)
  PROVE  \A t \in 1 .. Len(sent) : Fresh(t) => sent[t].batch < b
<1>1. FreshInv
  BY Zenon DEF OrderInv
<1>2. CASE pc = "submit" /\ b = cur
  BY <1>1, <1>2, Zenon DEF FreshInv, Preparing
<1>3. CASE pc = "resume" /\ resume # << >> /\ b = Head(resume)
  <2>1. resume \in Seq(BatchIds)
    BY Zenon DEF TypeInv, TypeOK
  <2>2. b = resume[1] /\ 1 \in 1 .. Len(resume)
    BY <1>3, <2>1
  <2> QED
    BY <1>1, <2>2, Zenon DEF FreshInv
<1> QED
  BY <1>2, <1>3

LEMMA HistInvStep ==
  ASSUME TypeInv, OrderInv, HistInv, [Next]_vars, [PipelineNext]_pipeVars
  PROVE  HistInv'
<1> DEFINE n == Len(sent)
<1>1. sent \in Seq(Tx) /\ n \in Nat /\ lifeStart \in 0 .. n
  BY DEF TypeInv, TypeOK
<1>2. CASE lifeStart' = Len(sent) /\ starts' = starts \cup {Len(sent)} /\ sent' = sent
  <2>1. \A s, t \in 1 .. n : SameLife(s, t)' => SameLife(s, t)
    BY <1>2, Zenon DEF SameLife
  <2>2. starts' \subseteq 0 .. lifeStart' /\ lifeStart' \in starts'
    <3>1. 0 .. lifeStart \subseteq 0 .. n /\ n \in 0 .. n
      BY <1>1
    <3> QED
      BY <1>2, <3>1, Zenon DEF HistInv
  <2> QED
    BY <1>2, <2>1, <2>2, Zenon DEF HistInv
<1>3. CASE UNCHANGED <<lifeStart, starts>> /\ UNCHANGED sent
  BY <1>3, Zenon DEF HistInv, SameLife
<1>4. ASSUME UNCHANGED <<lifeStart, starts>>,
             NEW b \in BatchIds, NEW gas \in Nat, NEW bump \in BOOLEAN, Sent(b, gas, bump)
      PROVE  HistInv'
  <2>1. /\ Len(sent') = n + 1
        /\ sent'[n + 1] = [batch |-> b, gas |-> gas, nonce |-> NextNonce, bump |-> bump]
        /\ \A t \in 1 .. n : sent'[t] = sent[t]
    BY <1>4, SentGrows, Zenon
  <2>2. sent'[n + 1].batch = b /\ sent'[n + 1].bump = bump
    BY <2>1
  <2>3. \A t \in 1 .. n + 1 : t = n + 1 \/ t \in 1 .. n
    BY <1>1
  <2>4. \A s, t \in 1 .. n + 1 : s < t => s \in 1 .. n
    BY <1>1
  <2>5. ASSUME ~bump, NEW s \in 1 .. n, SameLife(s, n + 1), ~sent[s].bump
        PROVE  sent[s].batch < b
    <3>1. lifeStart < s
      <4>1. CASE lifeStart # 0
        <5>1. ~ (s <= lifeStart /\ lifeStart < n + 1)
          BY <2>5, <4>1, Zenon DEF SameLife, HistInv
        <5> QED
          BY <1>1, <5>1
      <4> QED
        BY <1>1, <4>1
    <3>2. Fresh(s)
      BY <1>1, <2>5, <3>1 DEF Fresh
    <3> QED
      BY <1>4, <2>5, <3>2, FreshBefore, Zenon DEF Sent
  <2>6. \A s, t \in 1 .. n + 1 : SameLife(s, t)' => SameLife(s, t)
    BY <1>4, Zenon DEF SameLife
  <2> SUFFICES ASSUME NEW s \in 1 .. n + 1, NEW t \in 1 .. n + 1,
                      s < t, SameLife(s, t), ~sent'[s].bump, ~sent'[t].bump
               PROVE  sent'[s].batch < sent'[t].batch
    BY <1>4, <2>1, <2>6, Zenon DEF HistInv
  <2>7. s \in 1 .. n /\ sent'[s] = sent[s]
    BY <2>1, <2>4, Zenon
  <2>8. CASE t = n + 1
    BY <2>2, <2>5, <2>7, <2>8, Zenon
  <2>9. CASE t \in 1 .. n
    BY <2>1, <2>7, <2>9, Zenon DEF HistInv
  <2> QED
    BY <2>3, <2>8, <2>9, Zenon
<1>5. sent' = sent \/ \E b \in BatchIds, gas \in Nat, bump \in BOOLEAN : Sent(b, gas, bump)
  BY RowSteps, Zenon DEF Inserted, Moved, Submitted
<1> QED
  BY <1>2, <1>3, <1>4, <1>5, StartsSteps, Zenon

\* What Receive inserts is newer than every row.
LEMMA ReceivedIsNewest ==
  ASSUME StreamType, TypeInv, StreamInv, [PipelineNext]_pipeVars
  PROVE  NewRowsNewest
<1> SUFFICES ASSUME NEW b \in BatchIds, state[b] = "none", state'[b] # "none" PROVE IsNewest(b)
  BY Zenon DEF NewRowsNewest
<1>1. state \in [BatchIds -> SagaStates \cup {"none"}] /\ inflight \in Seq(BatchIds)
  BY Zenon DEF TypeInv, TypeOK, StreamType
<1>2. Receive
  BY StreamSteps, Zenon DEF Sends, Breaks, Opens, Drops, StreamKept
<1>3. inflight # << >> /\ b = Head(inflight)
  BY <1>1, <1>2, Zenon DEF Receive, Fetch, InsertOrIgnore, rowVars
<1>4. b = inflight[1] /\ 1 \in 1 .. Len(inflight)
  BY <1>1, <1>3
<1> QED
  BY <1>4, Zenon DEF StreamInv, IsNewest

LEMMA PipelineOrder == PipelineSpec => [](TypeInv /\ OrderInv /\ HistInv)
<1> DEFINE Inv == QueueInv /\ LifeInv /\ OneSubmissionPerLife
           Ord == StreamInv /\ OrderInv /\ HistInv
<1>1. PipelineInit => Ord
  <2> SUFFICES ASSUME PipelineInit PROVE Ord
    BY Zenon
  <2>1. /\ sent = << >> /\ resume = << >> /\ todo = {} /\ lifeStart = 0 /\ starts = {}
        /\ inflight = << >> /\ pc = "down" /\ state = [b \in BatchIds |-> "none"]
    BY Zenon DEF PipelineInit, Init
  <2>2. 1 .. Len(sent) = {} /\ 1 .. Len(resume) = {} /\ 1 .. Len(inflight) = {}
    BY <2>1
  <2>3. StreamInv
    BY <2>1, <2>2, Zenon DEF StreamInv
  <2>4. OrderInv
    BY <2>1, <2>2, Zenon DEF OrderInv, OlderInv, QueueOrder, FreshInv, Preparing, Recovering, Resuming, Submitting
  <2>5. HistInv
    BY <2>1, <2>2, Zenon DEF HistInv
  <2> QED
    BY <2>3, <2>4, <2>5
<1>2. StreamType /\ TypeInv /\ Inv /\ Ord /\ [PipelineNext]_pipeVars => Ord'
  <2> SUFFICES ASSUME StreamType, TypeInv, Inv, Ord, [PipelineNext]_pipeVars PROVE Ord'
    BY Zenon
  <2>1. [Next]_vars /\ NewRowsNewest
    BY PipelineSteps, ReceivedIsNewest, Zenon
  <2> QED
    BY <2>1, StreamInvStep, OrderInvStep, HistInvStep, Zenon
<1>3. Spec => []Inv
  BY LivesInvariant, PTL
<1> QED
  BY <1>1, <1>2, <1>3, PipelineTypes, PipelineRunsTheDaemon, PTL DEF PipelineSpec

\* Within one life of the daemon the batches go to L1 in the order the executor proved them:
\* for any number of batches and faults, and any capacity of the channel.
THEOREM LivesInOrder == PipelineSpec => []LifeInOrder
<1>1. TypeInv /\ HistInv => LifeInOrder
  <2> SUFFICES ASSUME TypeInv, HistInv, NEW s \in lifeStart + 1 .. Len(sent),
                      NEW t \in lifeStart + 1 .. Len(sent), s < t, ~sent[s].bump, ~sent[t].bump
               PROVE  sent[s].batch < sent[t].batch
    BY Zenon DEF LifeInOrder
  <2>1. lifeStart \in Nat /\ Len(sent) \in Nat
    BY DEF TypeInv, TypeOK
  <2>2. s \in 1 .. Len(sent) /\ t \in 1 .. Len(sent) /\ \A n \in 0 .. lifeStart : ~ (s <= n)
    BY <2>1
  <2>3. SameLife(s, t)
    BY <2>2, Zenon DEF SameLife, HistInv
  <2> QED
    BY <2>2, <2>3, Zenon DEF HistInv
<1> QED
  BY <1>1, PipelineOrder, PTL

-----------------------------------------------------------------------------
(* Before any reorg. *)

LEMMA L1Steps ==
  ASSUME [Next]_vars
  PROVE  \/ UNCHANGED <<sent, pool, mined, reorgs>>
         \/ UNCHANGED reorgs /\ \E ok \in BOOLEAN : Mine(ok)
         \/ UNCHANGED reorgs /\ Evict
         \/ reorgs' = reorgs + 1
         \/ /\ UNCHANGED <<mined, reorgs>> /\ pool' = Len(sent) + 1
            /\ Submit \/ Resubmit \/ \E b \in BatchIds : RecoverBump(b)
<1>1. CASE Reorg \/ Evict \/ \E ok \in BOOLEAN : Mine(ok)
  BY <1>1, Zenon DEF Reorg, Evict, Mine
<1>2. CASE Submit \/ Resubmit \/ \E b \in BatchIds : RecoverBump(b)
  BY <1>2, Zenon DEF Submit, Resubmit, RecoverBump, Broadcast
<1>3. CASE \/ UNCHANGED vars \/ WriteFile \/ Compress \/ SubmitOffChain \/ SubmitError \/ AwaitReceipt
           \/ AwaitDropped \/ AwaitError \/ Record \/ Confirm \/ Cleanup \/ RecordBump
           \/ RecoverDone \/ ResubmitError \/ ResubmitReceipt \/ ResubmitRecord
           \/ ResubmitConfirm \/ ResubmitDropped \/ ResubmitAwaitError \/ ResumeDone
           \/ Crash \/ Start
           \/ \E b \in BatchIds : \/ RecoverInterrupted(b) \/ RecoverGiveUp(b)
                                  \/ RecoverSkip(b) \/ Fetch(b) \/ Age(b)
  BY <1>3, Zenon DEF vars, l1Vars, WriteFile, Compress, SubmitOffChain, SubmitError, AwaitReceipt,
     AwaitDropped, AwaitError, Record, Confirm, Cleanup, RecordBump, RecoverDone,
     ResubmitError, ResubmitReceipt, ResubmitRecord, ResubmitConfirm, ResubmitDropped,
     ResubmitAwaitError, ResumeDone, Crash, Start, RecoverInterrupted, RecoverGiveUp,
     RecoverSkip, Fetch, Age
<1> QED
  BY <1>1, <1>2, <1>3, Zenon DEF Next, Daemon

\* The hash of a row comes from a receipt, or from a bump.
LEMMA HashSteps ==
  ASSUME TypeInv, [Next]_vars, NEW b \in BatchIds
  PROVE  txHash'[b] = txHash[b] \/ txHash'[b] = 0 \/ (pc = "record" /\ txHash'[b] = tx) \/ pc = "bumped"
<1>1. txHash \in [BatchIds -> 0 .. MaxTxs]
  BY Zenon DEF TypeInv, TypeOK
<1>2. CASE SubmitOffChain \/ Record \/ RecordBump
  BY <1>1, <1>2, Zenon DEF SubmitOffChain, Record, RecordBump, OrLogged, UpdateSubmission, rowVars
<1>3. CASE ResubmitRecord \/ ResubmitConfirm
  BY <1>3, Bounds, Zenon DEF ResubmitRecord, ResubmitConfirm, ResumedKey, UpdateSubmission,
     UpdateState, rowVars
<1>4. CASE Compress \/ Confirm \/ \E c \in BatchIds : RecoverGiveUp(c) \/ Fetch(c)
  BY <1>4, Zenon DEF Compress, Confirm, RecoverGiveUp, Fetch, InsertOrIgnore, OrLogged, UpdateState, rowVars
<1>5. CASE \/ UNCHANGED vars \/ Start \/ RecoverDone \/ ResumeDone
           \/ WriteFile \/ SubmitError \/ AwaitReceipt \/ AwaitDropped \/ AwaitError \/ Cleanup
           \/ ResubmitError \/ ResubmitReceipt \/ ResubmitDropped \/ ResubmitAwaitError
           \/ Submit \/ Resubmit \/ Evict \/ Reorg \/ Crash \/ \E ok \in BOOLEAN : Mine(ok)
           \/ \E c \in BatchIds : \/ RecoverInterrupted(c) \/ RecoverSkip(c) \/ RecoverBump(c)
                                  \/ Age(c)
  BY <1>5, Zenon DEF vars, rowVars, Start, RecoverDone, ResumeDone, WriteFile, SubmitError,
     AwaitReceipt, AwaitDropped, AwaitError, Cleanup, ResubmitError, ResubmitReceipt,
     ResubmitDropped, ResubmitAwaitError, Submit, Resubmit, Evict, Reorg, Crash, Mine,
     RecoverInterrupted, RecoverSkip, RecoverBump, Age
<1> QED
  BY <1>2, <1>3, <1>4, <1>5, Zenon DEF Next, Daemon

\* How the daemon comes to bump and to record.
LEMMA ReceiptSteps ==
  ASSUME TypeInv, [Next]_vars
  PROVE  /\ pc' = "bumped" => pc = "bumped" \/ \E b \in BatchIds : RecoverBump(b)
         /\ pc' = "record" => tx' = tx /\ (pc = "record" \/ Included(tx))
<1>1. CASE \/ UNCHANGED vars \/ Evict \/ Reorg \/ (\E ok \in BOOLEAN : Mine(ok))
           \/ \E b \in BatchIds : \/ Age(b) \/ RecoverInterrupted(b) \/ RecoverGiveUp(b)
                                  \/ RecoverSkip(b)
  BY <1>1, Zenon DEF vars, daemonVars, Evict, Reorg, Mine, Age, RecoverInterrupted, RecoverGiveUp,
     RecoverSkip
<1>2. CASE \/ WriteFile \/ Compress \/ SubmitOffChain \/ Submit \/ SubmitError \/ AwaitReceipt
           \/ AwaitDropped \/ AwaitError \/ Record \/ Confirm \/ Cleanup
           \/ \E b \in BatchIds : Fetch(b)
  BY <1>2, Zenon DEF WriteFile, Compress, SubmitOffChain, Submit, SubmitError, AwaitReceipt,
     AwaitDropped, AwaitError, Record, Confirm, Cleanup, Fetch, InsertOrIgnore, Abandon
<1>3. CASE \/ RecordBump \/ RecoverDone \/ Resubmit \/ ResubmitError \/ ResubmitReceipt
           \/ ResubmitRecord \/ ResubmitConfirm \/ ResubmitDropped \/ ResubmitAwaitError
           \/ ResumeDone \/ Crash \/ Start
  BY <1>3, Zenon DEF RecordBump, RecoverDone, Resubmit, ResubmitError, ResubmitReceipt, ResubmitRecord,
     ResubmitConfirm, ResubmitDropped, ResubmitAwaitError, ResumeDone, Crash, Start,
     NextResumed
<1>4. CASE \E b \in BatchIds : RecoverBump(b)
  BY <1>4, Zenon DEF RecoverBump
<1> QED
  BY <1>1, <1>2, <1>3, <1>4, Zenon DEF Next, Daemon

\* A row whose transaction is included has no nonce left to bump.
LEMMA NothingToBump ==
  ASSUME TypeInv, CalmL1, CalmRows, NEW b \in BatchIds
  PROVE  ~RecoverBump(b)
<1> SUFFICES ASSUME RecoverBump(b) PROVE FALSE
  BY Zenon
<1>1. txHash[b] # 0 /\ sent[txHash[b]].nonce = Len(mined) + 1
  BY Zenon DEF RecoverBump, Stuck, NextNonce
<1>2. PICK i \in 1 .. Len(mined) : mined[i].tx = txHash[b]
  BY <1>1, Zenon DEF CalmRows, Included
<1>3. sent[txHash[b]].nonce <= Len(mined)
  BY <1>2, Zenon DEF CalmL1
<1>4. Len(mined) \in Nat
  BY DEF TypeInv, TypeOK
<1> QED
  BY <1>1, <1>3, <1>4

LEMMA CalmL1Step ==
  ASSUME TypeInv, CalmL1, CalmRows, [Next]_vars, reorgs' = reorgs
  PROVE  CalmL1'
<1> DEFINE n == Len(sent)
           m == Len(mined)
<1>1. /\ sent \in Seq(Tx) /\ n \in Nat /\ m \in Nat /\ pool \in 0 .. n
      /\ mined \in Seq([tx : 1 .. n, ok : BOOLEAN]) /\ reorgs \in Nat
  BY Bounds DEF TypeInv, TypeOK
<1>2. /\ \A i \in 1 .. m : mined[i].tx \in 1 .. n
      /\ \A t \in 1 .. n : sent[t].nonce \in Nat
  <2>1. \A i \in 1 .. m : mined[i] \in [tx : 1 .. n, ok : BOOLEAN]
    BY <1>1, ElementOf, Zenon
  <2>2. \A t \in 1 .. n : sent[t] \in Tx
    BY <1>1, ElementOf, Zenon
  <2>3. \A i \in 1 .. m : mined[i].tx \in 1 .. n
    BY <2>1
  <2> QED
    BY <2>2, <2>3, Zenon DEF Tx
<1>3. CASE UNCHANGED <<sent, pool, mined, reorgs>>
  BY <1>3, Zenon DEF CalmL1
<1>4. CASE Evict
  <2>1. pool' = 0 /\ UNCHANGED <<sent, mined>>
    BY <1>4, Zenon DEF Evict
  <2> QED
    BY <2>1, Zenon DEF CalmL1
<1>5. CASE \E ok \in BOOLEAN : Mine(ok)
  <2>1. PICK ok \in BOOLEAN : Mine(ok)
    BY <1>5, Zenon
  <2>2. /\ pool # 0 /\ pool' = 0 /\ sent' = sent /\ mined' = Append(mined, [tx |-> pool, ok |-> ok])
    BY <2>1, Zenon DEF Mine
  <2>3. pool \in 1 .. n
    BY <1>1, <2>2
  <2>4. [tx |-> pool, ok |-> ok] \in [tx : 1 .. n, ok : BOOLEAN]
    BY <2>3, Zenon
  <2>5. /\ Len(mined') = m + 1 /\ mined'[m + 1] = [tx |-> pool, ok |-> ok]
        /\ \A i \in 1 .. m : mined'[i] = mined[i]
    BY <1>1, <2>2, <2>4, Appended
  <2>6. mined'[m + 1].tx = pool
    BY <2>5
  <2>7. \A i \in 1 .. m + 1 : i = m + 1 \/ i \in 1 .. m
    BY <1>1
  <2>8. \A i, j \in 1 .. m + 1 : i < j => i \in 1 .. m
    BY <1>1
  <2>9. \A x \in Nat : (x <= m + 1 => x <= m + 1 + 1) /\ (x <= m => x <= m + 1)
    BY <1>1
  <2>10. \A t \in 1 .. n : sent[t].nonce <= m + 1 + 1
    BY <1>2, <2>9, Zenon DEF CalmL1
  <2>11. \A i \in 1 .. m + 1 : sent[mined'[i].tx].nonce <= m + 1
    <3>1. \A i \in 1 .. m : sent[mined[i].tx].nonce <= m + 1
      BY <1>2, <2>9, Zenon DEF CalmL1
    <3>2. sent[pool].nonce <= m + 1
      BY <2>3, Zenon DEF CalmL1
    <3> QED
      BY <2>5, <2>6, <2>7, <3>1, <3>2, Zenon
  <2>12. \A i, j \in 1 .. m + 1 : i < j => mined'[i].tx < mined'[j].tx
    BY <2>2, <2>5, <2>6, <2>7, <2>8, Zenon DEF CalmL1
  <2> QED
    BY <2>2, <2>5, <2>10, <2>11, <2>12, Zenon DEF CalmL1
<1>6. ASSUME NEW b \in BatchIds, NEW gas \in Nat, NEW bump \in BOOLEAN, Sent(b, gas, bump),
             pool' = n + 1, mined' = mined
      PROVE  CalmL1'
  <2>1. /\ Len(sent') = n + 1
        /\ sent'[n + 1] = [batch |-> b, gas |-> gas, nonce |-> NextNonce, bump |-> bump]
        /\ \A t \in 1 .. n : sent'[t] = sent[t]
    BY <1>6, SentGrows, Zenon
  <2>2. sent'[n + 1].nonce = m + 1 /\ m + 1 <= m + 1
    BY <1>1, <2>1 DEF NextNonce
  <2>3. \A t \in 1 .. n + 1 : t = n + 1 \/ t \in 1 .. n
    BY <1>1
  <2>4. \A t \in 1 .. n : t < n + 1
    BY <1>1
  <2>5. \A t \in 1 .. n + 1 : sent'[t].nonce <= m + 1
    BY <2>1, <2>2, <2>3, Zenon DEF CalmL1
  <2> QED
    BY <1>2, <1>6, <2>1, <2>4, <2>5, Zenon DEF CalmL1
<1>7. CASE /\ mined' = mined /\ pool' = n + 1
           /\ Submit \/ Resubmit \/ \E b \in BatchIds : RecoverBump(b)
  <2>1. CASE UNCHANGED sent
    <3>1. \A r : Append(sent, r) # sent
      BY <1>1
    <3> QED
      BY <1>7, <2>1, <3>1, Zenon DEF Submit, Resubmit, RecoverBump, Broadcast
  <2>2. CASE \E b \in BatchIds, gas \in Nat, bump \in BOOLEAN : Sent(b, gas, bump)
    BY <1>6, <1>7, <2>2, Zenon
  <2> QED
    BY <2>1, <2>2, RowSteps, Zenon DEF Inserted, Moved, Submitted
<1>8. reorgs' # reorgs + 1
  BY <1>1
<1> QED
  BY <1>3, <1>4, <1>5, <1>7, <1>8, L1Steps, Zenon

LEMMA CalmRowsStep ==
  ASSUME TypeInv, CalmL1, CalmRows, [Next]_vars, reorgs' = reorgs
  PROVE  CalmRows'
<1> DEFINE n == Len(sent)
<1>1. sent \in Seq(Tx) /\ n \in Nat /\ reorgs \in Nat /\ Len(mined) \in Nat
  BY Bounds DEF TypeInv, TypeOK
<1>2. \A t : Included(t) => Included(t)'
  <2>1. ~Reorg
    BY <1>1 DEF Reorg
  <2>2. CASE mined' = mined
    BY <2>2, Zenon DEF Included
  <2>3. CASE \E ok \in BOOLEAN : Mine(ok)
    <3>1. PICK r : mined' = Append(mined, r)
      BY <2>3, Zenon DEF Mine
    <3>2. /\ Len(mined') = Len(mined) + 1
          /\ \A i \in 1 .. Len(mined) : i \in 1 .. Len(mined') /\ mined'[i] = mined[i]
      <4>1. PICK S : mined \in Seq(S)
        BY Zenon DEF TypeInv, TypeOK
      <4>2. mined \in Seq(S \cup {r})
        BY <4>1, SeqOfLarger, Zenon
      <4>3. /\ Len(mined') = Len(mined) + 1
            /\ \A i \in 1 .. Len(mined) : mined'[i] = mined[i]
        BY <3>1, <4>2, Appended
      <4> QED
        BY <1>1, <4>3
    <3> QED
      BY <3>2, Zenon DEF Included
  <2> QED
    BY <2>1, <2>2, <2>3, BlocksGrow, Zenon
<1>3. \A b \in BatchIds : ~RecoverBump(b)
  BY NothingToBump, Zenon
<1>4. pc' # "bumped" /\ (pc' = "record" => Included(tx)')
  BY <1>2, <1>3, ReceiptSteps, Zenon DEF CalmRows, Included
<1>5. \A b \in BatchIds : txHash'[b] # 0 => Included(txHash[b])'
  <2> SUFFICES ASSUME NEW b \in BatchIds, txHash'[b] # 0 PROVE Included(txHash[b])'
    BY Zenon
  <2>1. PICK h : h = txHash'[b]
    BY Zenon
  <2>2. h = txHash[b] \/ (pc = "record" /\ h = tx)
    BY <2>1, HashSteps, Zenon DEF CalmRows
  <2>3. Included(h)
    BY <2>1, <2>2, Zenon DEF CalmRows
  <2>4. Included(h)'
    BY <1>2, <2>3, Zenon
  <2> QED
    BY <2>1, <2>4, Zenon DEF Included
<1>6. \A t \in 1 .. Len(sent') : ~sent'[t].bump
  <2>1. CASE UNCHANGED sent
    BY <2>1, Zenon DEF CalmRows
  <2>2. CASE \E b \in BatchIds, gas \in Nat, bump \in BOOLEAN : Sent(b, gas, bump)
    <3>1. PICK b \in BatchIds, gas \in Nat, bump \in BOOLEAN : Sent(b, gas, bump)
      BY <2>2, Zenon
    <3>2. /\ Len(sent') = n + 1
          /\ sent'[n + 1] = [batch |-> b, gas |-> gas, nonce |-> NextNonce, bump |-> bump]
          /\ \A t \in 1 .. n : sent'[t] = sent[t]
      BY <3>1, SentGrows, Zenon
    <3>3. ~bump
      <4>1. bump => txHash[b] # 0 /\ sent[txHash[b]].nonce = Len(mined) + 1
        BY <3>1, Zenon DEF Sent, NextNonce
      <4>2. ASSUME txHash[b] # 0 PROVE sent[txHash[b]].nonce <= Len(mined)
        BY <4>2, Zenon DEF CalmRows, CalmL1, Included
      <4>3. Len(mined) + 1 # Len(mined) /\ ~ (Len(mined) + 1 <= Len(mined))
        BY <1>1
      <4> QED
        BY <4>1, <4>2, <4>3, Zenon
    <3>4. \A t \in 1 .. n + 1 : t = n + 1 \/ t \in 1 .. n
      BY <1>1
    <3>5. ~sent'[n + 1].bump
      BY <3>2, <3>3
    <3> QED
      BY <3>2, <3>4, <3>5, Zenon DEF CalmRows
  <2> QED
    BY <2>1, <2>2, RowSteps, Zenon DEF Inserted, Moved, Submitted
<1> QED
  BY <1>4, <1>5, <1>6, Zenon DEF CalmRows, Included

LEMMA CalmInvariant == Spec => [](TypeInv /\ CalmInv)
<1>1. Init => CalmInv
  <2> SUFFICES ASSUME Init PROVE CalmL1 /\ CalmRows
    BY Zenon DEF CalmInv
  <2>1. sent = << >> /\ mined = << >> /\ pool = 0 /\ pc = "down" /\ txHash = [b \in BatchIds |-> 0]
    BY Zenon DEF Init
  <2>2. 1 .. Len(sent) = {} /\ 1 .. Len(mined) = {}
    BY <2>1
  <2> QED
    BY <2>1, <2>2, Zenon DEF CalmL1, CalmRows
<1>2. TypeInv /\ CalmInv /\ [Next]_vars => CalmInv'
  <2> SUFFICES ASSUME TypeInv, CalmInv, [Next]_vars, reorgs' = 0 PROVE CalmL1' /\ CalmRows'
    BY Zenon DEF CalmInv
  <2>1. reorgs \in Nat
    BY Bounds DEF TypeInv, TypeOK
  <2>2. reorgs' # reorgs + 1
    BY <2>1
  <2>3. reorgs' = reorgs
    BY <2>2, L1Steps, Zenon
  <2> QED
    BY <2>3, CalmL1Step, CalmRowsStep, Zenon DEF CalmInv
<1> QED
  BY <1>1, <1>2, TypeInvariant, PTL DEF Spec

\* Short of an L1 reorg, an older batch is accepted after a newer one only when the daemon
\* restarted between the two submissions: nothing but recovery brings a batch up again.
THEOREM SetBackIsFromRestart == PipelineSpec => []SetBackNeedsRestart
<1>1. TypeInv /\ HistInv /\ CalmInv => SetBackNeedsRestart
  <2> SUFFICES ASSUME TypeInv, HistInv, CalmInv, reorgs = 0,
                      NEW i \in 1 .. Len(mined), NEW j \in 1 .. Len(mined), i < j,
                      BatchOf(j) <= BatchOf(i)
               PROVE  \E n \in starts : mined[i].tx <= n /\ n < mined[j].tx
    BY Zenon DEF SetBackNeedsRestart
  <2> DEFINE s == mined[i].tx
             t == mined[j].tx
  <2>1. CalmL1 /\ CalmRows
    BY Zenon DEF CalmInv
  <2>2. s < t
    BY <2>1, Zenon DEF CalmL1
  <2>3. s \in 1 .. Len(sent) /\ t \in 1 .. Len(sent)
    <3>1. mined \in Seq([tx : 1 .. Len(sent), ok : BOOLEAN])
      BY Zenon DEF TypeInv, TypeOK
    <3>2. mined[i] \in [tx : 1 .. Len(sent), ok : BOOLEAN] /\ mined[j] \in [tx : 1 .. Len(sent), ok : BOOLEAN]
      BY <3>1, ElementOf, Zenon
    <3> QED
      BY <3>2
  <2>4. ~sent[s].bump /\ ~sent[t].bump
    BY <2>1, <2>3, Zenon DEF CalmRows
  <2>5. sent[t].batch <= sent[s].batch
    BY Zenon DEF BatchOf
  <2>6. ~ (sent[s].batch < sent[t].batch)
    <3>1. sent[s] \in Tx /\ sent[t] \in Tx
      BY <2>3, ElementOf, Zenon DEF TypeInv, TypeOK
    <3>2. sent[s].batch \in BatchIds /\ sent[t].batch \in BatchIds
      BY <3>1, Zenon DEF Tx
    <3>3. \A x, y \in BatchIds : y <= x => ~ (x < y)
      BY PipelineBounds
    <3> QED
      BY <2>5, <3>2, <3>3, Zenon
  <2>7. ~SameLife(s, t)
    BY <2>2, <2>3, <2>4, <2>6, Zenon DEF HistInv
  <2> QED
    BY <2>7, Zenon DEF SameLife
<1> QED
  BY <1>1, PipelineOrder, CalmInvariant, PipelineRunsTheDaemon, PTL
=============================================================================
