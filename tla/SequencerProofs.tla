-------------------------- MODULE SequencerProofs --------------------------
(***************************************************************************)
(* The sequencer, for every policy, configuration, set of requests and     *)
(* forced transactions, number of crashes and of publish attempts.         *)
(*                                                                         *)
(* IdInv    the batch ids against the registry and what the executor has.  *)
(* SeqInv   the types; where every transaction is (QueueInv): none at two  *)
(*          places, none twice at one, no accepted one at none, and what   *)
(*          is in hand within the gas limit; and what every sealed batch   *)
(*          satisfies (BatchesGood).                                       *)
(* AdmissionInv  the account of a sender whose handlers never overlapped.  *)
(*                                                                         *)
(* The loops of produce_batch (Accepted, Only) and the sums over a batch   *)
(* (TotalGas, TotalCost) are reasoned about with the lemmas of             *)
(* Collections.  Steps are first sorted by what they do to the variables   *)
(* of an invariant (ScalarSteps, QueueSteps, SealedSteps), then each kind  *)
(* of step has its lemma.                                                  *)
(***************************************************************************)
EXTENDS Sequencer, Collections

-----------------------------------------------------------------------------
(* Batch ids. *)

\* Appending keeps the elements and adds one.
LEMMA Appended ==
  ASSUME NEW S, NEW s \in Seq(S), NEW e
  PROVE  /\ Append(s, e) \in Seq(S \cup {e})
         /\ Len(s) \in Nat /\ Len(Append(s, e)) = Len(s) + 1
         /\ Append(s, e)[Len(s) + 1] = e
         /\ \A i \in 1 .. Len(s) : Append(s, e)[i] = s[i]
<1>1. s \in Seq(S \cup {e}) /\ e \in S \cup {e}
  OBVIOUS
<1> QED
  BY <1>1

\* The batch in production has been sealed and is not yet given up.
InHand == {"store", "metrics", "publish"}

\* Ids are numbers, the registry has a largest one, and only sealed batches arrive.
IdType ==
  /\ \E S : sealed \in Seq(S)
  /\ \A i \in 1 .. Len(sealed) : sealed[i].id \in Nat
  /\ nextBatchId \in Nat \ {0}
  /\ registry \in SUBSET Nat
  /\ registry # {} => \E m \in registry : \A r \in registry : r <= m
  /\ arrived \in SUBSET (1 .. Len(sealed))
  /\ step \in InHand => Len(sealed) # 0
  /\ step \in {"store", "metrics"} => Len(sealed) \notin arrived

\* Every id at the executor is in the registry, and the next id is above the registry:
\* so the batch in hand has an id of its own, before and after it is stored.
Ids ==
  /\ step # "down" => \A r \in registry : r < nextBatchId
  /\ \A i \in arrived : sealed[i].id \in registry
  /\ step = "store" => Current.id \notin registry /\ Current.id < nextBatchId
  /\ step \in {"metrics", "publish"} =>
       /\ Current.id \in registry
       /\ \A i \in arrived : i # Len(sealed) => sealed[i].id # Current.id
  /\ \A i, j \in arrived : sealed[i].id = sealed[j].id => i = j

IdInv == IdType /\ (~registryFailed => Ids)

idVars == <<step, nextBatchId, registry, sealed, arrived, registryFailed>>

\* A step that leaves the variables of the ids alone.
LEMMA IdFrame == ASSUME IdInv, UNCHANGED idVars PROVE IdInv'
<1>1. IdType'
  BY DEF IdInv, IdType, idVars
<1>2. Ids => Ids'
  BY DEF Ids, Current, idVars
<1> QED
  BY <1>1, <1>2 DEF IdInv, idVars

\* A step between two points of the orchestrator that hold no sealed batch.
LEMMA IdIdle ==
  ASSUME IdInv, step' \notin InHand \cup {"down"}, step # "down",
         UNCHANGED <<nextBatchId, registry, sealed, arrived, registryFailed>>
  PROVE  IdInv'
<1>1. IdType'
  BY Zenon DEF IdInv, IdType, InHand
<1>2. Ids => Ids'
  BY DEF Ids, Current, InHand
<1> QED
  BY <1>1, <1>2 DEF IdInv

\* create_batch gives the batch next_batch_id, which is above the registry.
LEMMA IdSeal == ASSUME IdInv, SealBatch PROVE IdInv'
<1>1. PICK e : e.id = nextBatchId /\ sealed' = Append(sealed, e)
  <2>1. PICK txs \in Schedule(takenForced, takenNormal) :
           sealed' = Append(sealed, [id |-> nextBatchId, txs |-> txs])
    BY Zenon DEF SealBatch
  <2>2. [id |-> nextBatchId, txs |-> txs].id = nextBatchId
    OBVIOUS
  <2> QED
    BY <2>1, <2>2, Zenon
<1>2. /\ step = "defer_normal" /\ step' = "store" /\ nextBatchId' = nextBatchId + 1
      /\ UNCHANGED <<registry, arrived, registryFailed>>
  BY DEF SealBatch
<1>3. PICK S : sealed \in Seq(S)
  BY DEF IdInv, IdType
<1>4. /\ sealed' \in Seq(S \cup {e})
      /\ Len(sealed) \in Nat /\ Len(sealed') = Len(sealed) + 1
      /\ sealed'[Len(sealed) + 1] = e
      /\ \A i \in 1 .. Len(sealed) : sealed'[i] = sealed[i]
  BY <1>1, <1>3, Appended
<1>5. arrived \in SUBSET (1 .. Len(sealed)) /\ nextBatchId \in Nat \ {0}
  BY DEF IdInv, IdType
<1>6. \A i \in 1 .. Len(sealed') : i = Len(sealed) + 1 \/ i \in 1 .. Len(sealed)
  BY <1>4
<1>7. IdType'
  <2>1. \A i \in 1 .. Len(sealed') : sealed'[i].id \in Nat
    BY <1>1, <1>4, <1>5, <1>6 DEF IdInv, IdType
  <2>2. arrived' \in SUBSET (1 .. Len(sealed')) /\ Len(sealed') \notin arrived' /\ Len(sealed') # 0
    BY <1>2, <1>4, <1>5
  <2>3. nextBatchId' \in Nat \ {0}
    BY <1>2, <1>5
  <2>4. \E T : sealed' \in Seq(T)
    BY <1>4
  <2>5. /\ registry' \in SUBSET Nat
        /\ registry' # {} => \E m \in registry' : \A r \in registry' : r <= m
    BY <1>2 DEF IdInv, IdType
  <2> QED
    BY <2>1, <2>2, <2>3, <2>4, <2>5 DEF IdType
<1>8. ASSUME Ids PROVE Ids'
  <2>1. registry \in SUBSET Nat /\ \A r \in registry : r < nextBatchId
    BY <1>2, <1>8 DEF Ids, IdInv, IdType
  <2>2. \A r \in registry' : r < nextBatchId'
    BY <1>2, <1>5, <2>1
  <2>3. \A i \in arrived' : sealed'[i] = sealed[i] /\ sealed'[i].id \in registry'
    BY <1>2, <1>4, <1>5, <1>8 DEF Ids
  <2>4. Current'.id = nextBatchId
    BY <1>1, <1>4 DEF Current
  <2>5. Current'.id \notin registry' /\ Current'.id < nextBatchId'
    BY <1>2, <1>5, <2>1, <2>4
  <2>6. \A i, j \in arrived' : sealed'[i].id = sealed'[j].id => i = j
    BY <1>2, <1>8, <2>3 DEF Ids
  <2> QED
    BY <1>2, <2>2, <2>3, <2>5, <2>6 DEF Ids
<1> QED
  BY <1>2, <1>7, <1>8 DEF IdInv

\* store_batch puts the id of the batch in hand into the registry.
LEMMA IdStore == ASSUME IdInv, Store PROVE IdInv'
<1>1. /\ step = "store" /\ step' = "metrics" /\ registry' = registry \cup {Current.id}
      /\ UNCHANGED <<nextBatchId, sealed, arrived, registryFailed>>
  BY DEF Store, histVars
<1>2. PICK S : sealed \in Seq(S)
  BY DEF IdInv, IdType
<1>3. Len(sealed) \in 1 .. Len(sealed)
  BY <1>1, <1>2 DEF IdInv, IdType, InHand
<1>4. Current.id \in Nat /\ Current' = Current
  BY <1>1, <1>3 DEF IdInv, IdType, Current
<1>5. registry \in SUBSET Nat
  BY DEF IdInv, IdType
<1>6. \E m \in registry' : \A r \in registry' : r <= m
  <2>1. CASE registry = {}
    BY <1>1, <1>4, <2>1
  <2>2. CASE registry # {}
    <3>1. PICK m \in registry : \A r \in registry : r <= m
      BY <2>2 DEF IdInv, IdType
    <3>2. CASE m <= Current.id
      BY <1>1, <1>4, <1>5, <3>1, <3>2
    <3>3. CASE ~(m <= Current.id)
      BY <1>1, <1>4, <1>5, <3>1, <3>3
    <3> QED
      BY <3>2, <3>3
  <2> QED
    BY <2>1, <2>2
<1>7. IdType'
  <2>1. registry' \in SUBSET Nat
    BY <1>1, <1>4, <1>5, Zenon
  <2> QED
    BY <1>1, <1>6, <2>1 DEF IdInv, IdType, InHand
<1>8. ASSUME Ids PROVE Ids'
  <2>1. Current.id \notin registry /\ Current.id < nextBatchId
    BY <1>1, <1>8 DEF Ids
  <2>2. \A r \in registry' : r < nextBatchId'
    BY <1>1, <1>8, <2>1 DEF Ids
  <2>3. \A i \in arrived : sealed[i].id # Current.id
    BY <1>8, <2>1 DEF Ids
  <2> QED
    BY <1>1, <1>4, <1>8, <2>2, <2>3 DEF Ids
<1> QED
  BY <1>1, <1>7, <1>8 DEF IdInv

\* The batch in hand, stored, reaches the executor, or this attempt does not.
LEMMA IdPublish == ASSUME IdInv, PublishAnswered \/ PublishFails PROVE IdInv'
<1>1. /\ step = "publish" /\ step' \in {"publish", "idle"}
      /\ arrived' \in {arrived, arrived \cup {Len(sealed)}}
      /\ UNCHANGED <<nextBatchId, registry, sealed, registryFailed>>
  BY DEF PublishAnswered, PublishFails, NextAttempt
<1>2. PICK S : sealed \in Seq(S)
  BY DEF IdInv, IdType
<1>3. Len(sealed) \in 1 .. Len(sealed)
  BY <1>1, <1>2 DEF IdInv, IdType, InHand
<1>4. IdType'
  BY <1>1, <1>3 DEF IdInv, IdType, InHand
<1>5. ASSUME Ids PROVE Ids'
  <2>1. /\ Current.id \in registry /\ Current' = Current /\ Current = sealed[Len(sealed)]
        /\ \A i \in arrived : i # Len(sealed) => sealed[i].id # Current.id
    BY <1>1, <1>5 DEF Ids, Current
  <2>2. \A i \in arrived' : i \in arrived \/ i = Len(sealed)
    BY <1>1
  <2>3. \A i \in arrived' : sealed'[i].id \in registry'
    BY <1>1, <1>5, <2>1, <2>2 DEF Ids
  <2>4. \A i, j \in arrived' : sealed'[i].id = sealed'[j].id => i = j
    BY <1>1, <1>5, <2>1, <2>2 DEF Ids
  <2>5. \A i \in arrived' : i # Len(sealed') => sealed'[i].id # Current'.id
    BY <1>1, <2>1, <2>2
  <2> QED
    BY <1>1, <1>5, <2>1, <2>3, <2>4, <2>5 DEF Ids
<1> QED
  BY <1>1, <1>4, <1>5 DEF IdInv

\* get_next_batch_id after a restart: one above the largest id of the registry.
LEMMA IdStart == ASSUME IdInv, Start PROVE IdInv'
<1>1. /\ step = "down" /\ step' = "idle" /\ nextBatchId' = GetNextBatchId
      /\ UNCHANGED <<registry, sealed, arrived, registryFailed>>
  BY DEF Start, histVars
<1>2. GetNextBatchId \in Nat \ {0} /\ \A r \in registry : r < GetNextBatchId
  <2>1. CASE registry = {}
    BY <2>1 DEF GetNextBatchId
  <2>2. CASE registry # {}
    <3>1. registry \in SUBSET Nat /\ \E m \in registry : \A r \in registry : m >= r
      BY <2>2 DEF IdInv, IdType
    <3> DEFINE last == Max(registry)
    <3>2. last \in registry /\ \A r \in registry : last >= r
      BY <3>1, Zenon DEF Max
    <3>3. GetNextBatchId = last + 1
      BY <2>2 DEF GetNextBatchId
    <3> HIDE DEF last
    <3> QED
      BY <3>1, <3>2, <3>3
  <2> QED
    BY <2>1, <2>2
<1>3. IdType'
  BY <1>1, <1>2 DEF IdInv, IdType, InHand
<1>4. Ids => Ids'
  BY <1>1, <1>2 DEF Ids
<1> QED
  BY <1>1, <1>3, <1>4 DEF IdInv

\* IdInv is inductive.
LEMMA IdStep == IdInv /\ [Next]_vars => IdInv'
<1> SUFFICES ASSUME IdInv, [Next]_vars PROVE IdInv'
  OBVIOUS
<1>1. CASE StartUnrecovered
  <2>1. /\ step' = "idle" /\ nextBatchId' = 1 /\ registryFailed'
        /\ UNCHANGED <<registry, sealed, arrived>>
    BY <1>1 DEF StartUnrecovered
  <2>2. IdType'
    BY <2>1 DEF IdInv, IdType, InHand
  <2> QED
    BY <2>1, <2>2 DEF IdInv
<1>2. CASE Crash
  <2>1. /\ step' = "down" /\ nextBatchId' = 1
        /\ UNCHANGED <<registry, sealed, arrived, registryFailed>>
    BY <1>2 DEF Crash
  <2>2. IdType'
    BY <2>1 DEF IdInv, IdType, InHand
  <2>3. Ids => Ids'
    BY <2>1 DEF Ids
  <2> QED
    BY <2>1, <2>2, <2>3 DEF IdInv
<1>3. CASE Expire \/ L1Event \/ (\E t \in Txs : ApiStep(t)) \/ UNCHANGED vars
  <2>1. UNCHANGED idVars
    BY <1>3 DEF Expire, L1Event, ApiStep, vars, idVars, orchestratorVars, histVars
  <2> QED
    BY <2>1, IdFrame
<1>4. CASE TakeForced \/ DeferForced \/ CountPool \/ TakeNormal \/ DeferNormal \/ SealNothing
  <2>1. /\ step \notin InHand \cup {"down"} /\ step' \notin InHand \cup {"down"}
        /\ UNCHANGED <<nextBatchId, registry, sealed, arrived, registryFailed>>
    BY <1>4 DEF TakeForced, DeferForced, CountPool, TakeNormal, DeferNormal, SealNothing,
       InHand, histVars
  <2> QED
    BY <2>1, IdIdle
<1>5. CASE StoreDuplicate
  <2>1. /\ step = "store" /\ step' = "metrics" /\ Current.id \in registry
        /\ UNCHANGED <<nextBatchId, registry, sealed, arrived, registryFailed>>
    BY <1>5 DEF StoreDuplicate, histVars
  <2>2. IdType'
    BY <2>1 DEF IdInv, IdType, InHand
  <2>3. ~Ids
    BY <2>1 DEF Ids
  <2> QED
    BY <2>1, <2>2, <2>3 DEF IdInv
<1>6. CASE StoreFails
  <2>1. /\ step = "store" /\ step' = "metrics" /\ registryFailed'
        /\ UNCHANGED <<nextBatchId, registry, sealed, arrived>>
    BY <1>6 DEF StoreFails
  <2>2. IdType'
    BY <2>1 DEF IdInv, IdType, InHand
  <2> QED
    BY <2>1, <2>2 DEF IdInv
<1>7. CASE AppendMetrics
  <2>1. /\ step = "metrics" /\ step' = "publish"
        /\ UNCHANGED <<nextBatchId, registry, sealed, arrived, registryFailed>>
    BY <1>7 DEF AppendMetrics, histVars
  <2>2. IdType'
    BY <2>1 DEF IdInv, IdType, InHand
  <2>3. Ids => Ids'
    BY <2>1 DEF Ids, Current
  <2> QED
    BY <2>1, <2>2, <2>3 DEF IdInv
<1> QED
  BY <1>1, <1>2, <1>3, <1>4, <1>5, <1>6, <1>7, IdStart, IdSeal, IdStore, IdPublish
  DEF Next, Orchestrate

\* IdInv holds of every behaviour.
LEMMA IdInvariant == Spec => []IdInv
<1>1. Init => IdInv
  <2> SUFFICES ASSUME Init PROVE IdInv
    OBVIOUS
  <2>1. /\ sealed = << >> /\ arrived = {} /\ registry = {} /\ nextBatchId = 1
        /\ step = "down"
    BY DEF Init
  <2>2. << >> \in Seq({}) /\ Len(<< >>) = 0
    OBVIOUS
  <2>3. IdType
    BY <2>1, <2>2 DEF IdType, InHand
  <2>4. Ids
    BY <2>1 DEF Ids
  <2> QED
    BY <2>3, <2>4 DEF IdInv
<1> QED
  BY <1>1, IdStep, PTL DEF Spec

\* Two batches reach the executor under one id only if a registry read or write had
\* failed: whenever the process crashes, between sealing and storing or between storing
\* and publishing, get_next_batch_id starts above every id that can have gone out.
THEOREM IdsNameOneBatch == Spec => []IdNamesOneBatch
<1>1. IdInv => IdNamesOneBatch
  BY DEF IdInv, Ids, IdNamesOneBatch
<1> QED
  BY <1>1, IdInvariant, PTL

-----------------------------------------------------------------------------
(* Types. *)

\* A step does nothing to the accounts, is one of a handler, or is the restart.
AdmissionSteps ==
  \/ UNCHANGED <<at, balance, nonce, overlapped>>
  \/ \E t \in Txs : Handle(t)
  \/ AdmissionCrash

\* What a step does to the variables that are not queues.
LEMMA ScalarSteps ==
  ASSUME [Next]_vars
  PROVE  /\ AdmissionSteps
         /\ policy' = policy
         /\ emitted' \subseteq emitted
         /\ received' = received \/ received' = {}
              \/ (\E f \in emitted : received' = received \cup {f})
         /\ limit' = limit \/ limit' = 0 \/ limit' = MaxNormal(Len(pool))
         /\ expired' = expired \/ expired' = TRUE \/ expired' = FALSE
         /\ registryFailed' = registryFailed \/ registryFailed' = TRUE
         /\ attempt' = attempt \/ attempt' = 0 \/ attempt' = 1
              \/ (attempt < PublishAttempts /\ attempt' = attempt + 1)
         /\ crashesLeft' = crashesLeft \/ (crashesLeft > 0 /\ crashesLeft' = crashesLeft - 1)
<1>1. CASE \E t \in Txs : ApiStep(t)
  BY <1>1, Zenon DEF ApiStep, AdmissionSteps, orchestratorVars, batchVars, histVars
<1>2. CASE Crash
  BY <1>2, Zenon DEF Crash, AdmissionSteps
<1>3. CASE L1Event
  <2>1. emitted # {} => (CHOOSE e \in emitted : TRUE) \in emitted
    BY Zenon
  <2> QED
    BY <1>3, <2>1, Zenon DEF L1Event, AdmissionSteps, admissionVars, orchestratorVars, batchVars
<1>4. CASE Start \/ StartUnrecovered \/ Expire \/ UNCHANGED vars
  BY <1>4, Zenon DEF Start, StartUnrecovered, Expire, vars, AdmissionSteps, admissionVars,
     orchestratorVars, batchVars, histVars
<1>5. CASE TakeForced \/ DeferForced \/ CountPool
  BY <1>5, Zenon DEF TakeForced, DeferForced, CountPool, AdmissionSteps, admissionVars, histVars
<1>6. CASE TakeNormal \/ DeferNormal \/ SealNothing \/ SealBatch
  BY <1>6, Zenon DEF TakeNormal, DeferNormal, SealNothing, SealBatch, AdmissionSteps, admissionVars,
     histVars
<1>7. CASE Store \/ StoreDuplicate \/ StoreFails \/ AppendMetrics
  BY <1>7, Zenon DEF Store, StoreDuplicate, StoreFails, AppendMetrics, AdmissionSteps, admissionVars,
     batchVars, histVars
<1>8. CASE PublishAnswered \/ PublishFails
  BY <1>8, Zenon DEF PublishAnswered, PublishFails, NextAttempt, AdmissionSteps, admissionVars, batchVars
<1> QED
  BY <1>1, <1>2, <1>3, <1>4, <1>5, <1>6, <1>7, <1>8, Zenon DEF Next, Orchestrate

\* The handlers and the account cache.
HandlerType ==
  /\ at \in [Txs -> {"check_nonce", "add"} \cup Updating \cup Ended]
  /\ balance \in [Senders -> Nat] /\ nonce \in [Senders -> Nat]
  /\ overlapped \in SUBSET Senders

\* The fields of a request.
LEMMA TxFields ==
  ASSUME NEW t \in Txs
  PROVE  Tx[t].from \in Senders /\ Tx[t].nonce \in Nat /\ Tx[t].cost \in Nat /\ Tx[t].gas \in Nat
<1>1. Tx[t] \in Fields
  BY TransactionsAssumption, Zenon
<1> QED
  BY <1>1 DEF Fields

\* The handlers and the restart keep the types of the account cache.
LEMMA HandlerTypeStep == ASSUME HandlerType, AdmissionSteps PROVE HandlerType'
<1> DEFINE Places0 == {"check_nonce", "add"} \cup Updating \cup Ended
<1>1. /\ at \in [Txs -> Places0] /\ balance \in [Senders -> Nat]
      /\ nonce \in [Senders -> Nat] /\ overlapped \in SUBSET Senders
  BY Zenon DEF HandlerType
<1>2. CASE UNCHANGED <<at, balance, nonce, overlapped>>
  BY <1>1, <1>2, Zenon DEF HandlerType
<1>3. ASSUME NEW t \in Txs, Handle(t) PROVE HandlerType'
  <2>1. Tx[t].from \in Senders /\ Tx[t].cost \in Nat
    BY TxFields, Zenon
  <2>2. PICK v : v \in Places0 /\ at' = [at EXCEPT ![t] = v]
    <3>1. \E v : v \in {"check_balance", "failed", "deduct", "increment", "add", "accepted"}
                  /\ at' = [at EXCEPT ![t] = v]
      BY <1>3, Zenon DEF Handle, CheckNonce, CheckBalance, DeductBalance, IncrementNonce, AddToPool,
         Disconnect
    <3> QED
      BY <3>1, Zenon DEF Updating, Ended
  <2> HIDE DEF Places0
  <2>3. at' \in [Txs -> Places0]
    BY <1>1, <2>2, Zenon
  <2>4. nonce' \in [Senders -> Nat]
    <3>1. nonce' = nonce \/ nonce' = [nonce EXCEPT ![Tx[t].from] = @ + 1]
      BY <1>3, Zenon DEF Handle, CheckNonce, CheckBalance, DeductBalance, IncrementNonce, AddToPool,
         Disconnect
    <3>2. nonce[Tx[t].from] + 1 \in Nat
      BY <1>1, <2>1
    <3> QED
      BY <1>1, <2>1, <3>1, <3>2, Zenon
  <2>5. balance' \in [Senders -> Nat]
    <3> DEFINE w == IF balance[Tx[t].from] < Tx[t].cost THEN 0 ELSE balance[Tx[t].from] - Tx[t].cost
    <3>1. balance' = balance \/ balance' = [balance EXCEPT ![Tx[t].from] = w]
      BY <1>3, Zenon DEF Handle, CheckNonce, CheckBalance, DeductBalance, IncrementNonce, AddToPool,
         Disconnect
    <3>2. w \in Nat
      BY <1>1, <2>1
    <3> HIDE DEF w
    <3> QED
      BY <1>1, <2>1, <3>1, <3>2, Zenon
  <2>6. overlapped' \in SUBSET Senders
    <3>1. overlapped' = overlapped \/ overlapped' = overlapped \cup
            {s \in {Tx[t].from} : \E u \in Txs : Tx[u].from = s /\ at[u] \in Updating}
      BY <1>3, Zenon DEF Handle, CheckNonce, CheckBalance, DeductBalance, IncrementNonce, AddToPool,
         Disconnect
    <3> QED
      BY <1>1, <2>1, <3>1, Zenon
  <2> QED
    BY <2>3, <2>4, <2>5, <2>6, Zenon DEF HandlerType, Places0
<1>4. CASE AdmissionCrash
  <2>1. \A t \in Txs : at'[t] \in Places0 /\ DOMAIN at' = Txs
    BY <1>1, <1>4, Zenon DEF AdmissionCrash, Ended
  <2>2. at' = [t \in Txs |-> at'[t]]
    BY <1>4, Zenon DEF AdmissionCrash
  <2>3. at' \in [Txs -> Places0]
    BY <2>1, <2>2, Zenon
  <2>4. balance' \in [Senders -> Nat]
    BY <1>4, AdmissionAssumption, Zenon DEF AdmissionCrash
  <2>5. nonce' \in [Senders -> Nat]
    BY <1>4 DEF AdmissionCrash
  <2>6. overlapped' = {}
    BY <1>4, Zenon DEF AdmissionCrash
  <2> QED
    BY <2>3, <2>4, <2>5, <2>6, Zenon DEF HandlerType
<1> QED
  BY <1>2, <1>3, <1>4, Zenon DEF AdmissionSteps

-----------------------------------------------------------------------------
(* Admission: a sender whose handlers never overlapped. *)

\* A sum of costs is a number.
LEMMA CostType == ASSUME NEW S, S \subseteq Txs, IsFiniteSet(S) PROVE TotalCost(S) \in Nat
<1> DEFINE f == [t \in Txs |-> Tx[t].cost]
<1>1. \A x \in S : f[x] \in Nat
  BY TxFields, Zenon
<1> QED
  BY <1>1, SumNat, Zenon DEF TotalCost

\* One more request adds its cost.
LEMMA CostOfMore ==
  ASSUME NEW S, S \subseteq Txs, IsFiniteSet(S), NEW t \in Txs, t \notin S
  PROVE  TotalCost(S \cup {t}) = TotalCost(S) + Tx[t].cost
<1> DEFINE f == [u \in Txs |-> Tx[u].cost]
           R == S \cup {t}
<1>1. IsFiniteSet(R)
  BY FS_AddElement, Zenon
<1>2. R \ {t} = S /\ t \in R
  BY Zenon
<1>3. \A x \in R : f[x] \in Nat
  BY TxFields, Zenon
<1>4. \A x \in R : f[x] \in Int
  <2>1. \A k \in Nat : k \in Int
    OBVIOUS
  <2> QED
    BY <1>3, <2>1, Zenon
<1>5. SumFunctionOnSet(f, R) = f[t] + SumFunctionOnSet(f, R \ {t})
  BY <1>1, <1>2, <1>4, SumRemove, Zenon
<1>6. f[t] = Tx[t].cost /\ Tx[t].cost \in Nat /\ TotalCost(S) \in Nat
  BY TxFields, CostType, Zenon
<1>7. TotalCost(R) = Tx[t].cost + TotalCost(S)
  BY <1>2, <1>5, <1>6, Zenon DEF TotalCost
<1> HIDE DEF R
<1>8. TotalCost(R) = TotalCost(S) + Tx[t].cost
  BY <1>6, <1>7
<1> QED
  BY <1>8, Zenon DEF R

\* Of sender s, whose handlers are at the steps A: the requests that are charged.
ChargedAt(s, A) == {t \in Txs : Tx[t].from = s /\ A[t] \in {"increment", "add", "accepted"}}

\* At most one handler of s is between its nonce check and its increment.
OneUpdates(s, A) ==
  \A t, u \in Txs :
    Tx[t].from = s /\ Tx[u].from = s /\ A[t] \in Updating /\ A[u] \in Updating => t = u

\* A handler between check and increment has the account's nonce, and can pay when it
\* deducts; one that incremented it has a smaller one.
UpToDate(s, A, b, n) ==
  \A t \in Txs : Tx[t].from = s =>
    /\ A[t] \in Updating => Tx[t].nonce = n
    /\ A[t] \in {"add", "accepted"} => Tx[t].nonce < n
    /\ A[t] = "deduct" => Tx[t].cost <= b

\* No two charged requests of s have one nonce.
OwnNonce(s, A) == \A t, u \in ChargedAt(s, A) : Tx[t].nonce = Tx[u].nonce => t = u

\* What is charged and what is left are within the seeded balance.
Covered(s, A, b) ==
  IsFiniteSet(ChargedAt(s, A)) /\ TotalCost(ChargedAt(s, A)) + b <= SeedBalance[s]

Serial(s, A, b, n) == OneUpdates(s, A) /\ UpToDate(s, A, b, n) /\ OwnNonce(s, A) /\ Covered(s, A, b)

\* Steps of other handlers leave what is said of sender s.
LEMMA SerialSame ==
  ASSUME NEW s, NEW A, NEW B, NEW b, NEW n, Serial(s, A, b, n),
         \A t \in Txs : Tx[t].from = s => B[t] = A[t]
  PROVE  Serial(s, B, b, n)
<1>1. ChargedAt(s, B) = ChargedAt(s, A)
  BY Zenon DEF ChargedAt
<1>2. OneUpdates(s, B)
  BY Zenon DEF Serial, OneUpdates
<1>3. UpToDate(s, B, b, n)
  BY Zenon DEF Serial, UpToDate
<1> QED
  BY <1>1, <1>2, <1>3, Zenon DEF Serial, OwnNonce, Covered

\* Handler t of s moves to step v.
Moves(A, B, t, v) == B[t] = v /\ \A u \in Txs : u # t => B[u] = A[u]

\* A request of s fails, having been charged or not.
LEMMA SerialFails ==
  ASSUME NEW s \in Senders, NEW A, NEW B, NEW b \in Nat, NEW n \in Nat, Serial(s, A, b, n),
         NEW t \in Txs, Tx[t].from = s, Moves(A, B, t, "failed")
  PROVE  Serial(s, B, b, n)
<1>1. ChargedAt(s, B) = ChargedAt(s, A) \ {t}
  BY Zenon DEF ChargedAt, Moves
<1>2. OneUpdates(s, B)
  BY Zenon DEF Serial, OneUpdates, Moves, Updating
<1>3. UpToDate(s, B, b, n)
  BY Zenon DEF Serial, UpToDate, Moves, Updating
<1>4. OwnNonce(s, B)
  BY <1>1, Zenon DEF Serial, OwnNonce
<1>5. Covered(s, B, b)
  <2>1. IsFiniteSet(ChargedAt(s, A)) /\ TotalCost(ChargedAt(s, A)) + b <= SeedBalance[s]
    BY Zenon DEF Serial, Covered
  <2>2. CASE t \notin ChargedAt(s, A)
    <3>1. ChargedAt(s, B) = ChargedAt(s, A)
      BY <1>1, <2>2, Zenon
    <3> QED
      BY <2>1, <3>1, Zenon DEF Covered
  <2>3. CASE t \in ChargedAt(s, A)
    <3> DEFINE R == ChargedAt(s, A) \ {t}
    <3>1. R \subseteq Txs /\ t \notin R /\ R \cup {t} = ChargedAt(s, A)
      BY <2>3, Zenon DEF ChargedAt
    <3>2. IsFiniteSet(R)
      BY <2>1, FS_RemoveElement, Zenon
    <3>3. TotalCost(R \cup {t}) = TotalCost(R) + Tx[t].cost
      BY <3>1, <3>2, CostOfMore, Zenon
    <3>4. TotalCost(R) \in Nat /\ Tx[t].cost \in Nat /\ SeedBalance[s] \in Nat
      BY <3>1, <3>2, CostType, TxFields, AdmissionAssumption, Zenon
    <3>5. TotalCost(R) + Tx[t].cost + b <= SeedBalance[s]
      BY <2>1, <3>1, <3>3, Zenon
    <3> HIDE DEF R
    <3>6. TotalCost(R) + b <= SeedBalance[s]
      BY <3>4, <3>5
    <3> QED
      BY <1>1, <3>2, <3>6, Zenon DEF Covered, R
  <2> QED
    BY <2>2, <2>3, Zenon
<1> QED
  BY <1>2, <1>3, <1>4, <1>5, Zenon DEF Serial

\* The step from the nonce check, when no other handler of s is between check and update.
LEMMA SerialEnters ==
  ASSUME NEW s, NEW A, NEW B, NEW b, NEW n, Serial(s, A, b, n),
         NEW t \in Txs, Tx[t].from = s, A[t] = "check_nonce", Moves(A, B, t, "check_balance"),
         Tx[t].nonce = n, \A u \in Txs : Tx[u].from = s => A[u] \notin Updating
  PROVE  Serial(s, B, b, n)
<1>1. ChargedAt(s, B) = ChargedAt(s, A)
  BY Zenon DEF ChargedAt, Moves
<1>2. OneUpdates(s, B)
  BY Zenon DEF OneUpdates, Moves
<1>3. UpToDate(s, B, b, n)
  BY Zenon DEF Serial, UpToDate, Moves, Updating
<1> QED
  BY <1>1, <1>2, <1>3, Zenon DEF Serial, OwnNonce, Covered

\* check_balance, passed: the cost is within the balance.
LEMMA SerialCanPay ==
  ASSUME NEW s, NEW A, NEW B, NEW b, NEW n, Serial(s, A, b, n),
         NEW t \in Txs, Tx[t].from = s, A[t] = "check_balance", Moves(A, B, t, "deduct"),
         Tx[t].cost <= b
  PROVE  Serial(s, B, b, n)
<1>1. ChargedAt(s, B) = ChargedAt(s, A)
  BY Zenon DEF ChargedAt, Moves
<1>2. OneUpdates(s, B)
  BY Zenon DEF Serial, OneUpdates, Moves, Updating
<1>3. UpToDate(s, B, b, n)
  BY Zenon DEF Serial, UpToDate, Moves, Updating
<1> QED
  BY <1>1, <1>2, <1>3, Zenon DEF Serial, OwnNonce, Covered

\* deduct_balance: the cost moves from the balance to what is charged.
LEMMA SerialPays ==
  ASSUME NEW s \in Senders, NEW A, NEW B, NEW b \in Nat, NEW n \in Nat, Serial(s, A, b, n),
         NEW t \in Txs, Tx[t].from = s, A[t] = "deduct", Moves(A, B, t, "increment")
  PROVE  Tx[t].cost <= b /\ Serial(s, B, b - Tx[t].cost, n)
<1> DEFINE c == b - Tx[t].cost
<1>1. A[t] \in Updating /\ Tx[t].cost <= b /\ Tx[t].nonce = n /\ Tx[t].cost \in Nat
  BY TxFields, Zenon DEF Serial, UpToDate, Updating
<1>2. ChargedAt(s, B) = ChargedAt(s, A) \cup {t} /\ t \notin ChargedAt(s, A)
  BY Zenon DEF ChargedAt, Moves
<1>3. OneUpdates(s, B)
  BY <1>1, Zenon DEF Serial, OneUpdates, Moves
<1>4. \A u \in Txs : Tx[u].from = s /\ u # t => B[u] \notin Updating
  BY <1>1, Zenon DEF Serial, OneUpdates, Moves
<1>5. UpToDate(s, B, c, n)
  BY <1>1, <1>4, Zenon DEF Serial, UpToDate, Moves, Updating
<1>6. \A u \in ChargedAt(s, A) : Tx[u].nonce < n
  BY <1>1, Zenon DEF Serial, UpToDate, OneUpdates, ChargedAt, Updating
<1>7. \A u \in ChargedAt(s, A) : Tx[u].nonce # n
  <2>1. \A u \in ChargedAt(s, A) : Tx[u].nonce \in Nat
    BY TxFields, Zenon DEF ChargedAt
  <2> QED
    BY <1>6, <2>1
<1>8. OwnNonce(s, B)
  BY <1>1, <1>2, <1>7, Zenon DEF Serial, OwnNonce
<1>9. Covered(s, B, c)
  <2> DEFINE R == ChargedAt(s, A)
  <2>1. IsFiniteSet(R) /\ TotalCost(R) + b <= SeedBalance[s]
    BY Zenon DEF Serial, Covered
  <2>2. R \subseteq Txs
    BY Zenon DEF ChargedAt
  <2>3. TotalCost(R \cup {t}) = TotalCost(R) + Tx[t].cost
    BY <1>2, <2>1, <2>2, CostOfMore, Zenon
  <2>4. TotalCost(R) \in Nat /\ SeedBalance[s] \in Nat
    BY <2>1, <2>2, CostType, AdmissionAssumption, Zenon
  <2>5. IsFiniteSet(R \cup {t})
    BY <2>1, FS_AddElement, Zenon
  <2> HIDE DEF R
  <2>6. TotalCost(R) + Tx[t].cost + (b - Tx[t].cost) <= SeedBalance[s]
    BY <1>1, <2>1, <2>4
  <2> QED
    BY <1>2, <2>3, <2>5, <2>6, Zenon DEF Covered, R
<1> QED
  BY <1>1, <1>3, <1>5, <1>8, <1>9, Zenon DEF Serial

\* increment_nonce: the nonces charged so far are below the new one.
LEMMA SerialIncrements ==
  ASSUME NEW s \in Senders, NEW A, NEW B, NEW b \in Nat, NEW n \in Nat, Serial(s, A, b, n),
         NEW t \in Txs, Tx[t].from = s, A[t] = "increment", Moves(A, B, t, "add")
  PROVE  Serial(s, B, b, n + 1)
<1>1. A[t] \in Updating /\ Tx[t].nonce = n
  BY Zenon DEF Serial, UpToDate, Updating
<1>2. ChargedAt(s, B) = ChargedAt(s, A)
  BY Zenon DEF ChargedAt, Moves
<1>3. OneUpdates(s, B)
  BY Zenon DEF Serial, OneUpdates, Moves, Updating
<1>4. \A u \in Txs : Tx[u].from = s => B[u] \notin Updating
  BY <1>1, Zenon DEF Serial, OneUpdates, Moves, Updating
<1>5. UpToDate(s, B, b, n + 1)
  <2>1. \A u \in Txs : Tx[u].nonce \in Nat
    BY TxFields, Zenon
  <2>2. \A u \in Txs : Tx[u].nonce < n \/ Tx[u].nonce = n => Tx[u].nonce < n + 1
    BY <2>1
  <2>3. \A u \in Txs : Tx[u].from = s /\ B[u] \in {"add", "accepted"} =>
                         Tx[u].nonce < n \/ Tx[u].nonce = n
    BY <1>1, Zenon DEF Serial, UpToDate, Moves
  <2> QED
    BY <1>4, <2>2, <2>3, Zenon DEF UpToDate, Updating
<1> QED
  BY <1>2, <1>3, <1>5, Zenon DEF Serial, OwnNonce, Covered

\* add_transaction changes nothing of the account.
LEMMA SerialAccepted ==
  ASSUME NEW s, NEW A, NEW B, NEW b, NEW n, Serial(s, A, b, n),
         NEW t \in Txs, Tx[t].from = s, A[t] = "add", Moves(A, B, t, "accepted")
  PROVE  Serial(s, B, b, n)
<1>1. ChargedAt(s, B) = ChargedAt(s, A)
  BY Zenon DEF ChargedAt, Moves
<1>2. OneUpdates(s, B)
  BY Zenon DEF Serial, OneUpdates, Moves, Updating
<1>3. UpToDate(s, B, b, n)
  BY Zenon DEF Serial, UpToDate, Moves, Updating
<1> QED
  BY <1>1, <1>2, <1>3, Zenon DEF Serial, OwnNonce, Covered

\* A cache just seeded, after start or restart, with no request charged.
LEMMA SerialStart ==
  ASSUME NEW s \in Senders, NEW A, \A t \in Txs : A[t] \in {"check_nonce", "failed"}
  PROVE  Serial(s, A, SeedBalance[s], 0)
<1>1. \A t \in Txs : A[t] \notin Updating /\ A[t] \notin {"increment", "add", "accepted"}
                     /\ A[t] # "deduct"
  BY Zenon DEF Updating
<1>2. ChargedAt(s, A) = {}
  BY <1>1, Zenon DEF ChargedAt
<1>3. OneUpdates(s, A) /\ UpToDate(s, A, SeedBalance[s], 0)
  BY <1>1, Zenon DEF OneUpdates, UpToDate
<1>4. TotalCost({}) + SeedBalance[s] <= SeedBalance[s]
  <2>1. TotalCost({}) = 0 /\ SeedBalance[s] \in Nat
    BY SumEmpty, AdmissionAssumption, Zenon DEF TotalCost
  <2> QED
    BY <2>1
<1> QED
  BY <1>2, <1>3, <1>4, FS_EmptySet, Zenon DEF Serial, OwnNonce, Covered

\* It holds of every sender whose handlers never overlapped.
AdmissionInv == \A s \in Senders \ overlapped : Serial(s, at, balance[s], nonce[s])

\* AdmissionInv is inductive, given the types.
LEMMA AdmissionStep ==
  ASSUME AdmissionInv, HandlerType, AdmissionSteps
  PROVE  AdmissionInv'
<1>1. /\ at \in [Txs -> {"check_nonce", "add"} \cup Updating \cup Ended]
      /\ balance \in [Senders -> Nat] /\ nonce \in [Senders -> Nat]
  BY Zenon DEF HandlerType
<1>2. CASE UNCHANGED <<at, balance, nonce, overlapped>>
  BY <1>2, Zenon DEF AdmissionInv
<1>3. CASE AdmissionCrash
  <2>1. /\ \A t \in Txs : at'[t] \in {"check_nonce", "failed"}
        /\ \A s \in Senders : balance'[s] = SeedBalance[s] /\ nonce'[s] = 0
    BY <1>3, Zenon DEF AdmissionCrash
  <2> QED
    BY <2>1, SerialStart, Zenon DEF AdmissionInv
<1>4. ASSUME NEW t \in Txs, Handle(t), NEW s \in Senders \ overlapped'
      PROVE  Serial(s, at', balance'[s], nonce'[s])
  <2>1. overlapped \subseteq overlapped'
    BY <1>4, Zenon DEF Handle, CheckNonce, CheckBalance, DeductBalance, IncrementNonce, AddToPool,
                       Disconnect
  <2>2. /\ Serial(s, at, balance[s], nonce[s]) /\ s \in Senders
        /\ balance[s] \in Nat /\ nonce[s] \in Nat
    BY <1>1, <1>4, <2>1, Zenon DEF AdmissionInv
  <2>3. ASSUME NEW v, at' = [at EXCEPT ![t] = v] PROVE Moves(at, at', t, v)
    BY <1>1, <2>3, Zenon DEF Moves
  <2>4. CASE Tx[t].from # s
    <3>1. \E v : at' = [at EXCEPT ![t] = v]
      BY <1>4, Zenon DEF Handle, CheckNonce, CheckBalance, DeductBalance, IncrementNonce,
                         AddToPool, Disconnect
    <3>2. \A u \in Txs : Tx[u].from = s => at'[u] = at[u]
      BY <2>3, <2>4, <3>1, Zenon DEF Moves
    <3>3. balance'[s] = balance[s] /\ nonce'[s] = nonce[s]
      BY <1>1, <1>4, <2>4, Zenon DEF Handle, CheckNonce, CheckBalance, DeductBalance,
                                     IncrementNonce, AddToPool, Disconnect
    <3> QED
      BY <2>2, <3>2, <3>3, SerialSame, Zenon
  <2>5. CASE Tx[t].from = s
    <3>1. CASE CheckNonce(t)
      <4>1. /\ at[t] = "check_nonce" /\ UNCHANGED <<balance, nonce>>
            /\ at' = [at EXCEPT ![t] =
                        IF Tx[t].signed /\ NonceMatches(t) THEN "check_balance" ELSE "failed"]
            /\ overlapped' = overlapped \cup
                 {r \in {Tx[t].from} : \E u \in Txs : Tx[u].from = r /\ at[u] \in Updating}
        BY <3>1, Zenon DEF CheckNonce
      <4>2. \A u \in Txs : Tx[u].from = s => at[u] \notin Updating
        BY <1>4, <2>5, <4>1, Zenon
      <4>3. CASE Tx[t].signed /\ NonceMatches(t)
        <5>1. Moves(at, at', t, "check_balance") /\ Tx[t].nonce = nonce[s]
          BY <2>3, <2>5, <4>1, <4>3, Zenon DEF NonceMatches
        <5> QED
          BY <2>2, <2>5, <4>1, <4>2, <5>1, SerialEnters, Zenon
      <4>4. CASE ~ (Tx[t].signed /\ NonceMatches(t))
        <5>1. Moves(at, at', t, "failed")
          BY <2>3, <4>1, <4>4, Zenon
        <5> QED
          BY <2>2, <2>5, <4>1, <5>1, SerialFails, Zenon
      <4> QED
        BY <4>3, <4>4, Zenon
    <3>2. CASE CheckBalance(t)
      <4>1. /\ at[t] = "check_balance" /\ UNCHANGED <<balance, nonce>>
            /\ at' = [at EXCEPT ![t] = IF balance[s] < Tx[t].cost THEN "failed" ELSE "deduct"]
        BY <2>5, <3>2, Zenon DEF CheckBalance
      <4>2. CASE balance[s] < Tx[t].cost
        <5>1. Moves(at, at', t, "failed")
          BY <2>3, <4>1, <4>2, Zenon
        <5> QED
          BY <2>2, <2>5, <4>1, <5>1, SerialFails, Zenon
      <4>3. CASE ~ (balance[s] < Tx[t].cost)
        <5>1. Moves(at, at', t, "deduct")
          BY <2>3, <4>1, <4>3, Zenon
        <5>2. Tx[t].cost \in Nat
          BY TxFields, Zenon
        <5>3. Tx[t].cost <= balance[s]
          BY <2>2, <4>3, <5>2
        <5> QED
          BY <2>2, <2>5, <4>1, <5>1, <5>3, SerialCanPay, Zenon
      <4> QED
        BY <4>2, <4>3, Zenon
    <3>3. CASE DeductBalance(t)
      <4>1. /\ at[t] = "deduct" /\ at' = [at EXCEPT ![t] = "increment"] /\ nonce' = nonce
            /\ balance'[s] = IF balance[s] < Tx[t].cost THEN 0 ELSE balance[s] - Tx[t].cost
        BY <1>1, <2>2, <2>5, <3>3, Zenon DEF DeductBalance
      <4>2. Tx[t].cost <= balance[s] /\ Serial(s, at', balance[s] - Tx[t].cost, nonce[s])
        BY <2>2, <2>3, <2>5, <4>1, SerialPays, Zenon
      <4>3. Tx[t].cost \in Nat
        BY TxFields, Zenon
      <4>4. ~ (balance[s] < Tx[t].cost)
        BY <2>2, <4>2, <4>3
      <4> QED
        BY <4>1, <4>2, <4>4, Zenon
    <3>4. CASE IncrementNonce(t)
      <4>1. /\ at[t] = "increment" /\ at' = [at EXCEPT ![t] = "add"] /\ balance' = balance
            /\ nonce'[s] = nonce[s] + 1
        BY <1>1, <2>2, <2>5, <3>4, Zenon DEF IncrementNonce
      <4> QED
        BY <2>2, <2>3, <2>5, <4>1, SerialIncrements, Zenon
    <3>5. CASE AddToPool(t)
      <4>1. /\ at[t] = "add" /\ at' = [at EXCEPT ![t] = "accepted"] /\ UNCHANGED <<balance, nonce>>
        BY <3>5, Zenon DEF AddToPool
      <4> QED
        BY <2>2, <2>3, <2>5, <4>1, SerialAccepted, Zenon
    <3>6. CASE Disconnect(t)
      <4>1. at' = [at EXCEPT ![t] = "failed"] /\ UNCHANGED <<balance, nonce>>
        BY <3>6, Zenon DEF Disconnect
      <4> QED
        BY <2>2, <2>3, <2>5, <4>1, SerialFails, Zenon
    <3> QED
      BY <1>4, <3>1, <3>2, <3>3, <3>4, <3>5, <3>6, Zenon DEF Handle
  <2> QED
    BY <2>4, <2>5, Zenon
<1> QED
  BY <1>2, <1>3, <1>4, Zenon DEF AdmissionSteps, AdmissionInv

\* F[n] is what Only(s, S) has kept after n elements.
OnlyRun(F, s, S) ==
  /\ Only(s, S) = F[Len(s)] /\ F[0] = << >>
  /\ \A n \in 1 .. Len(s) : F[n] = IF s[n] \in S THEN Append(F[n - 1], s[n]) ELSE F[n - 1]

\* The recursive function in Only is what its equations say.
LEMMA OnlyLoop == ASSUME NEW U, NEW s \in Seq(U), NEW S PROVE \E F : OnlyRun(F, s, S)
<1> DEFINE Eq(F) == F = [n \in 0 .. Len(s) |->
                           IF n = 0 THEN << >>
                           ELSE IF s[n] \in S THEN Append(F[n - 1], s[n]) ELSE F[n - 1]]
           C == CHOOSE F : Eq(F)
<1>1. Only(s, S) = C[Len(s)]
  BY Zenon DEF Only
<1>2. PICK F : LoopOf(F, s, Seq(U) \X S)
  BY LoopExists, Zenon
<1>3. /\ \A n \in 0 .. Len(s) : n = 0 \/ n \in 1 .. Len(s)
      /\ \A n \in 1 .. Len(s) : n - 1 \in 0 .. Len(s) /\ n # 0 /\ n \in 0 .. Len(s)
      /\ 0 \in 0 .. Len(s)
  OBVIOUS
<1>4. Loop(F, s)
  BY <1>2, Zenon DEF Loop, LoopOf
<1>5. \A n \in 0 .. Len(s) : F[n] \in Seq(U)
  BY <1>4, LoopOutcome, Zenon
<1>6. \A n \in 1 .. Len(s) : <<F[n - 1], s[n]>> \in Seq(U) \X S <=> s[n] \in S
  BY <1>3, <1>5, Zenon
<1>7. Eq(F)
  <2> DEFINE G == [n \in 0 .. Len(s) |->
                     IF n = 0 THEN << >>
                     ELSE IF s[n] \in S THEN Append(F[n - 1], s[n]) ELSE F[n - 1]]
  <2>1. \A n \in 0 .. Len(s) : F[n] = G[n]
    BY <1>2, <1>3, <1>6, Zenon DEF LoopOf
  <2> QED
    BY <1>2, <2>1, Zenon DEF LoopOf
<1>8. Eq(C)
  BY <1>7, Zenon
<1> HIDE DEF C
<1>9. C[0] = << >> /\ \A n \in 1 .. Len(s) :
        C[n] = IF s[n] \in S THEN Append(C[n - 1], s[n]) ELSE C[n - 1]
  BY <1>3, <1>8, Zenon
<1> QED
  BY <1>1, <1>9, Zenon DEF OnlyRun

\* Only(s, S) keeps what is in S and nothing else, and no more often than s has it.
LEMMA OnlyOutcome ==
  ASSUME NEW U, NEW s \in Seq(U), NEW S
  PROVE  /\ Only(s, S) \in Seq(U) /\ Range(Only(s, S)) = Range(s) \cap S
         /\ IsInjective(s) => IsInjective(Only(s, S))
<1>0. PICK F : OnlyRun(F, s, S)
  BY OnlyLoop, Zenon
<1>1. /\ Only(s, S) = F[Len(s)] /\ F[0] = << >>
      /\ \A n \in 1 .. Len(s) : F[n] = IF s[n] \in S THEN Append(F[n - 1], s[n]) ELSE F[n - 1]
  BY <1>0, Zenon DEF OnlyRun
<1>2. Loop(F, s)
  BY <1>1, Zenon DEF Loop
<1>3. Len(s) \in Nat /\ DOMAIN s = 1 .. Len(s) /\ Len(s) \in 0 .. Len(s)
  OBVIOUS
<1>4. \A n \in 0 .. Len(s) : F[n] \in Seq(U) /\ Range(F[n]) \subseteq {s[i] : i \in 1 .. n}
                               /\ (IsInjective(s) => IsInjective(F[n]))
  BY <1>2, LoopOutcome, Zenon
<1> DEFINE T == {n \in 0 .. Len(s) : Range(F[n]) = {s[i] : i \in 1 .. n} \cap S}
<1>5. 0 \in T
  <2>1. 0 \in 0 .. Len(s) /\ DOMAIN << >> = {} /\ 1 .. 0 = {}
    BY <1>3
  <2>2. Range(<< >>) = {}
    BY <2>1, Zenon DEF Range
  <2> QED
    BY <1>1, <2>1, <2>2, Zenon
<1>6. ASSUME NEW m \in 0 .. Len(s), m < Len(s), m \in T PROVE m + 1 \in T
  <2>1. /\ m + 1 \in 1 .. Len(s) /\ m + 1 \in 0 .. Len(s) /\ (m + 1) - 1 = m
        /\ m + 1 \in 1 .. m + 1 /\ 1 .. m \subseteq 1 .. m + 1
        /\ \A i \in 1 .. m + 1 : i \in 1 .. m \/ i = m + 1
    BY <1>3, <1>6
  <2>2. s[m + 1] \in U
    BY <2>1
  <2>3. {s[i] : i \in 1 .. m + 1} = {s[i] : i \in 1 .. m} \cup {s[m + 1]}
    BY <2>1, Zenon
  <2>4. F[m + 1] = IF s[m + 1] \in S THEN Append(F[m], s[m + 1]) ELSE F[m]
    BY <1>1, <2>1, Zenon
  <2>5. Range(Append(F[m], s[m + 1])) = Range(F[m]) \cup {s[m + 1]}
    BY <1>4, <2>2, ExtendedSet
  <2>6. Range(F[m]) = {s[i] : i \in 1 .. m} \cap S
    BY <1>6, Zenon
  <2>7. CASE s[m + 1] \in S
    BY <2>1, <2>3, <2>4, <2>5, <2>6, <2>7, Zenon
  <2>8. CASE s[m + 1] \notin S
    BY <2>1, <2>3, <2>4, <2>6, <2>8, Zenon
  <2> QED
    BY <2>7, <2>8
<1>7. Len(s) \in T
  <2> HIDE DEF T
  <2> QED
    BY <1>3, <1>5, <1>6, UpTo, Zenon
<1>8. Range(F[Len(s)]) = Range(s) \cap S
  BY <1>3, <1>7, Zenon DEF Range
<1> QED
  BY <1>1, <1>3, <1>4, <1>8, Zenon

\* F[n] is what the orchestrator has accepted behind current after n transactions of s.
AcceptedRun(F, current, s) ==
  /\ Accepted(current, s) = F[Len(s)] /\ F[0] = << >>
  /\ \A n \in 1 .. Len(s) :
       F[n] = IF CanAddTransaction(current \o F[n - 1], s[n])
              THEN Append(F[n - 1], s[n]) ELSE F[n - 1]

\* The recursive function in Accepted is what its equations say.
LEMMA AcceptedLoop ==
  ASSUME NEW U, NEW s \in Seq(U), NEW current
  PROVE  \E F : AcceptedRun(F, current, s)
<1> DEFINE Eq(F) == F = [n \in 0 .. Len(s) |->
                           IF n = 0 THEN << >>
                           ELSE IF CanAddTransaction(current \o F[n - 1], s[n])
                                THEN Append(F[n - 1], s[n]) ELSE F[n - 1]]
           C == CHOOSE F : Eq(F)
           R == {p \in Seq(U) \X U : CanAddTransaction(current \o p[1], p[2])}
<1>1. Accepted(current, s) = C[Len(s)]
  BY Zenon DEF Accepted
<1>2. PICK F : LoopOf(F, s, R)
  <2> HIDE DEF R
  <2> QED
    BY LoopExists, Zenon
<1>3. /\ \A n \in 0 .. Len(s) : n = 0 \/ n \in 1 .. Len(s)
      /\ \A n \in 1 .. Len(s) : n - 1 \in 0 .. Len(s) /\ n # 0 /\ n \in 0 .. Len(s)
      /\ \A n \in 1 .. Len(s) : s[n] \in U
      /\ 0 \in 0 .. Len(s)
  OBVIOUS
<1>4. Loop(F, s)
  BY <1>2, Zenon DEF Loop, LoopOf
<1>5. \A n \in 0 .. Len(s) : F[n] \in Seq(U)
  BY <1>4, LoopOutcome, Zenon
<1>6. \A n \in 1 .. Len(s) : <<F[n - 1], s[n]>> \in R <=> CanAddTransaction(current \o F[n - 1], s[n])
  BY <1>3, <1>5, Zenon
<1>7. Eq(F)
  <2> DEFINE G == [n \in 0 .. Len(s) |->
                     IF n = 0 THEN << >>
                     ELSE IF CanAddTransaction(current \o F[n - 1], s[n])
                          THEN Append(F[n - 1], s[n]) ELSE F[n - 1]]
  <2> HIDE DEF R
  <2>1. \A n \in 0 .. Len(s) : F[n] = G[n]
    BY <1>2, <1>3, <1>6, Zenon DEF LoopOf
  <2> QED
    BY <1>2, <2>1, Zenon DEF LoopOf
<1>8. Eq(C)
  BY <1>7, Zenon
<1> HIDE DEF C
<1>9. C[0] = << >> /\ \A n \in 1 .. Len(s) :
        C[n] = IF CanAddTransaction(current \o C[n - 1], s[n])
               THEN Append(C[n - 1], s[n]) ELSE C[n - 1]
  BY <1>3, <1>8, Zenon
<1> QED
  BY <1>1, <1>9, Zenon DEF AcceptedRun

-----------------------------------------------------------------------------
(* The gas of a batch. *)

All == Forced \cup Txs

\* The gas of a transaction is a number.
LEMMA GasIsNat == \A t \in All : GasLimit(t) \in Nat
<1> SUFFICES ASSUME NEW t \in All PROVE GasLimit(t) \in Nat
  OBVIOUS
<1>1. CASE t \in Forced
  BY <1>1, SequencerAssumption, Zenon DEF GasLimit
<1>2. CASE t \notin Forced
  BY <1>2, TxFields, Zenon DEF GasLimit, All
<1> QED
  BY <1>1, <1>2, Zenon

\* An empty batch has no gas.
LEMMA GasOfEmpty == TotalGas(<< >>) = 0
<1>1. DOMAIN << >> = {}
  OBVIOUS
<1>2. TotalGas(<< >>) = SumFunctionOnSet([i \in {} |-> GasLimit(<< >>[i])], {})
  BY <1>1, Zenon DEF TotalGas, SumFunction
<1> QED
  BY <1>2, SumEmpty, Zenon

\* The gas of a batch is a number.
LEMMA GasType == ASSUME NEW s \in Seq(All) PROVE TotalGas(s) \in Nat
<1> DEFINE f == [i \in DOMAIN s |-> GasLimit(s[i])]
<1>1. DOMAIN s = 1 .. Len(s) /\ 1 \in Int /\ Len(s) \in Int /\ \A i \in DOMAIN s : s[i] \in All
  OBVIOUS
<1>2. IsFiniteSet(DOMAIN s)
  BY <1>1, FS_Interval, Zenon
<1>3. DOMAIN f = DOMAIN s /\ \A i \in DOMAIN s : f[i] \in Nat
  BY <1>1, GasIsNat, Zenon
<1>4. TotalGas(s) = SumFunctionOnSet(f, DOMAIN s)
  BY <1>3, Zenon DEF TotalGas, SumFunction
<1> HIDE DEF f
<1> QED
  BY <1>2, <1>3, <1>4, SumNat, Zenon

\* One more transaction adds its gas.
LEMMA GasOfAppend ==
  ASSUME NEW s \in Seq(All), NEW t \in All
  PROVE  TotalGas(Append(s, t)) = TotalGas(s) + GasLimit(t)
<1> DEFINE r == Append(s, t)
           n == Len(s)
           f == [i \in DOMAIN s |-> GasLimit(s[i])]
           h == [i \in DOMAIN r |-> GasLimit(r[i])]
<1>1. /\ r \in Seq(All) /\ n \in Nat /\ r[n + 1] = t /\ \A i \in 1 .. n : r[i] = s[i]
      /\ DOMAIN s = 1 .. n /\ DOMAIN r = 1 .. n + 1
      /\ n + 1 \in 1 .. n + 1 /\ 1 .. n \subseteq 1 .. n + 1
  BY Extended
<1>2. /\ TotalGas(s) = SumFunctionOnSet(f, 1 .. n)
      /\ TotalGas(r) = SumFunctionOnSet(h, 1 .. n + 1)
  <2>1. DOMAIN f = DOMAIN s /\ DOMAIN h = DOMAIN r
    BY Zenon
  <2> QED
    BY <1>1, <2>1, Zenon DEF TotalGas, SumFunction
<1> HIDE DEF r, n
<1>3. h[n + 1] = GasLimit(t) /\ \A i \in 1 .. n : f[i] = h[i]
  BY <1>1, Zenon
<1>4. \A i \in 1 .. n + 1 : h[i] \in Int
  <2>1. \A i \in 1 .. n + 1 : r[i] \in All
    BY <1>1
  <2>2. \A i \in 1 .. n + 1 : h[i] \in Nat
    BY <1>1, <2>1, GasIsNat, Zenon
  <2> QED
    BY <2>2
<1>5. IsFiniteSet(1 .. n + 1) /\ IsFiniteSet(1 .. n) /\ (1 .. n + 1) \ {n + 1} = 1 .. n
  <2>1. 1 \in Int /\ n + 1 \in Int /\ n \in Int /\ (1 .. n + 1) \ {n + 1} = 1 .. n
    BY <1>1
  <2> QED
    BY <2>1, FS_Interval, Zenon
<1> HIDE DEF f, h
<1>6. SumFunctionOnSet(h, 1 .. n + 1) = h[n + 1] + SumFunctionOnSet(h, 1 .. n)
  <2>1. SumFunctionOnSet(h, 1 .. n + 1) = h[n + 1] + SumFunctionOnSet(h, (1 .. n + 1) \ {n + 1})
    BY <1>1, <1>4, <1>5, SumRemove, Zenon
  <2> QED
    BY <1>5, <2>1, Zenon
<1>7. SumFunctionOnSet(h, 1 .. n) = SumFunctionOnSet(f, 1 .. n)
  BY <1>3, <1>5, SumSame, Zenon
<1>8. TotalGas(r) = GasLimit(t) + TotalGas(s)
  BY <1>2, <1>3, <1>6, <1>7, Zenon
<1>9. GasLimit(t) \in Nat /\ TotalGas(s) \in Nat
  BY GasIsNat, GasType, Zenon
<1>10. GasLimit(t) + TotalGas(s) = TotalGas(s) + GasLimit(t)
  BY <1>9
<1> QED
  BY <1>8, <1>10, Zenon DEF r

\* The gas of a batch without repetition does not depend on its order.
LEMMA GasOfSet ==
  ASSUME NEW w \in Seq(All), IsInjective(w)
  PROVE  TotalGas(w) = SumFunctionOnSet([t \in All |-> GasLimit(t)], Range(w))
<1> DEFINE G == [t \in All |-> GasLimit(t)]
           f == [i \in DOMAIN w |-> GasLimit(w[i])]
           Im(D) == {w[i] : i \in D}
           T == {D \in SUBSET DOMAIN w : SumFunctionOnSet(f, D) # SumFunctionOnSet(G, Im(D))}
<1>1. DOMAIN w = 1 .. Len(w) /\ 1 \in Int /\ Len(w) \in Int /\ \A i \in DOMAIN w : w[i] \in All
  OBVIOUS
<1>2. IsFiniteSet(DOMAIN w)
  BY <1>1, FS_Interval, Zenon
<1>3. T = {}
  <2> SUFFICES ASSUME T # {} PROVE FALSE
    BY Zenon
  <2>1. PICK D \in T : \A E \in T : E \subseteq D => E = D
    <3>1. T \subseteq SUBSET DOMAIN w
      BY Zenon
    <3> HIDE DEF T
    <3> QED
      BY <1>2, <3>1, LeastSubset
  <2>2. D \subseteq DOMAIN w /\ SumFunctionOnSet(f, D) # SumFunctionOnSet(G, Im(D))
    BY <2>1, Zenon
  <2>3. D # {}
    <3>1. Im({}) = {}
      BY Zenon
    <3> HIDE DEF f, G
    <3> QED
      BY <2>2, <3>1, SumEmpty, Zenon
  <2>4. PICK d : d \in D
    BY <2>3, Zenon
  <2> DEFINE E == D \ {d}
  <2>5. E \subseteq D /\ E # D /\ E \subseteq DOMAIN w
    BY <2>2, <2>4, Zenon
  <2>6. SumFunctionOnSet(f, E) = SumFunctionOnSet(G, Im(E))
    <3>1. E \notin T
      <4> HIDE DEF T, E
      <4> QED
        BY <2>1, <2>5, Zenon
    <3> HIDE DEF E
    <3> QED
      BY <2>5, <3>1, Zenon
  <2>7. w[d] \in Im(D) /\ Im(E) = Im(D) \ {w[d]}
    <3>1. \A i \in D : w[i] = w[d] => i = d
      BY <2>2, <2>4, Zenon DEF IsInjective
    <3> QED
      BY <2>4, <3>1, Zenon
  <2>8. f[d] = GasLimit(w[d]) /\ G[w[d]] = GasLimit(w[d])
    BY <1>1, <2>2, <2>4, Zenon
  <2>9. (\A i \in D : f[i] \in Int) /\ (\A t \in Im(D) : G[t] \in Int)
    <3>1. \A t \in All : GasLimit(t) \in Int
      BY GasIsNat
    <3> QED
      BY <1>1, <2>2, <3>1, Zenon
  <2>10. IsFiniteSet(D) /\ IsFiniteSet(Im(D))
    <3>1. IsFiniteSet(D)
      BY <1>2, <2>2, FS_Subset, Zenon
    <3> DEFINE g == [i \in D |-> w[i]]
    <3>2. g \in Surjection(D, Im(D))
      BY Zenon DEF Surjection
    <3> HIDE DEF g
    <3> QED
      BY <3>1, <3>2, FS_Surjection, Zenon
  <2> HIDE DEF f, G, T, E
  <2>11. SumFunctionOnSet(f, D) = f[d] + SumFunctionOnSet(f, E)
    BY <2>4, <2>9, <2>10, SumRemove, Zenon DEF E
  <2>12. SumFunctionOnSet(G, Im(D)) = G[w[d]] + SumFunctionOnSet(G, Im(E))
    <3> HIDE DEF Im
    <3>1. SumFunctionOnSet(G, Im(D)) = G[w[d]] + SumFunctionOnSet(G, Im(D) \ {w[d]})
      BY <2>7, <2>9, <2>10, SumRemove, Zenon
    <3> QED
      BY <2>7, <3>1, Zenon
  <2> QED
    BY <2>2, <2>6, <2>8, <2>11, <2>12, Zenon
<1>4. SumFunctionOnSet(f, DOMAIN w) = SumFunctionOnSet(G, Im(DOMAIN w))
  BY <1>3, Zenon
<1>5. TotalGas(w) = SumFunctionOnSet(f, DOMAIN w)
  <2>1. DOMAIN f = DOMAIN w
    BY Zenon
  <2> QED
    BY <2>1, Zenon DEF TotalGas, SumFunction
<1>6. Im(DOMAIN w) = Range(w)
  BY Zenon DEF Range
<1> QED
  BY <1>4, <1>5, <1>6, Zenon

\* produce_batch's two loops: what they accept is taken from s, and fits behind current.
LEMMA AcceptedOutcome ==
  ASSUME NEW V, V \subseteq All, NEW s \in Seq(V), NEW current \in Seq(All),
         TotalGas(current) <= Config.max_gas_limit
  PROVE  /\ Accepted(current, s) \in Seq(V) /\ Range(Accepted(current, s)) \subseteq Range(s)
         /\ IsInjective(s) => IsInjective(Accepted(current, s))
         /\ TotalGas(current \o Accepted(current, s)) <= Config.max_gas_limit
<1>0. PICK F : AcceptedRun(F, current, s)
  BY AcceptedLoop, Zenon
<1>1. /\ Accepted(current, s) = F[Len(s)] /\ F[0] = << >>
      /\ \A n \in 1 .. Len(s) :
           F[n] = IF CanAddTransaction(current \o F[n - 1], s[n])
                  THEN Append(F[n - 1], s[n]) ELSE F[n - 1]
  BY <1>0, Zenon DEF AcceptedRun
<1>2. Loop(F, s)
  BY <1>1, Zenon DEF Loop
<1>3. /\ Len(s) \in Nat /\ DOMAIN s = 1 .. Len(s) /\ 0 \in 0 .. Len(s) /\ Len(s) \in 0 .. Len(s)
      /\ current \o << >> = current /\ \A n \in 1 .. Len(s) : s[n] \in V
  OBVIOUS
<1>4. \A n \in 0 .. Len(s) : F[n] \in Seq(V) /\ Range(F[n]) \subseteq {s[i] : i \in 1 .. n}
                               /\ (IsInjective(s) => IsInjective(F[n]))
  BY <1>2, LoopOutcome, Zenon
<1> DEFINE T == {n \in 0 .. Len(s) : TotalGas(current \o F[n]) <= Config.max_gas_limit}
<1>5. 0 \in T
  BY <1>1, <1>3, Zenon
<1>6. ASSUME NEW m \in 0 .. Len(s), m < Len(s), m \in T PROVE m + 1 \in T
  <2>1. m + 1 \in 1 .. Len(s) /\ m + 1 \in 0 .. Len(s) /\ (m + 1) - 1 = m
    BY <1>3, <1>6
  <2>2. F[m + 1] = IF CanAddTransaction(current \o F[m], s[m + 1])
                   THEN Append(F[m], s[m + 1]) ELSE F[m]
    BY <1>1, <2>1, Zenon
  <2>3. CASE CanAddTransaction(current \o F[m], s[m + 1])
    <3>1. F[m] \in Seq(All) /\ s[m + 1] \in All
      <4>1. F[m] \in Seq(V) /\ s[m + 1] \in V
        BY <1>3, <1>4, <2>1, Zenon
      <4> QED
        BY <4>1
    <3>2. current \o F[m] \in Seq(All)
          /\ current \o Append(F[m], s[m + 1]) = Append(current \o F[m], s[m + 1])
      BY <3>1, SMTT(30)
    <3>3. TotalGas(current \o F[m + 1]) = TotalGas(current \o F[m]) + GasLimit(s[m + 1])
      BY <2>2, <2>3, <3>1, <3>2, GasOfAppend, Zenon
    <3>4. TotalGas(current \o F[m]) + GasLimit(s[m + 1]) <= Config.max_gas_limit
      BY <2>3, Zenon DEF CanAddTransaction
    <3> QED
      BY <2>1, <3>3, <3>4, Zenon
  <2>4. CASE ~CanAddTransaction(current \o F[m], s[m + 1])
    BY <1>6, <2>1, <2>2, <2>4, Zenon
  <2> QED
    BY <2>3, <2>4
<1>7. Len(s) \in T
  <2> HIDE DEF T
  <2> QED
    BY <1>3, <1>5, <1>6, UpTo, Zenon
<1>8. Range(F[Len(s)]) \subseteq Range(s)
  BY <1>3, <1>4, Zenon DEF Range
<1> QED
  BY <1>1, <1>3, <1>4, <1>7, <1>8, Zenon

\* The policies that group by sender.
Grouping == {"FeePriority", "TimeBoost", "BlobPacking"}

InNonceOrder(o) ==
  \A j, k \in DOMAIN o : j < k /\ Tx[o[j]].from = Tx[o[k]].from => Tx[o[j]].nonce <= Tx[o[k]].nonce

\* FeePriority, TimeBoost and BlobPacking: the order of each sender is kept by nonce.
LEMMA GroupedOrder ==
  ASSUME NEW key, NEW s \in Seq(Txs), NEW o \in BestFirst(key, s)
  PROVE  InNonceOrder(o)
<1> SUFFICES ASSUME NEW j \in DOMAIN o, NEW k \in DOMAIN o, j < k, Tx[o[j]].from = Tx[o[k]].from
             PROVE  Tx[o[j]].nonce <= Tx[o[k]].nonce
  BY Zenon DEF InNonceOrder
<1>1. IsFiniteSet(Range(s)) /\ Range(s) \subseteq Txs
  BY FiniteElements, Zenon
<1>2. o \in Bijection(1 .. Cardinality(Range(s)), Range(s))
  BY Zenon DEF BestFirst, Orders
<1>3. o \in Seq(Txs)
  BY <1>1, <1>2, Arranged, Zenon
<1>4. j \in 1 .. Len(o) /\ k \in j .. Len(o) /\ o[j] \in Txs /\ o[k] \in Txs
  BY <1>3
<1>5. o[j] \in FirstOnes(s, {o[i] : i \in j .. Len(o)})
  BY Zenon DEF BestFirst
<1>6. o[k] = o[j] \/ Tx[o[j]].nonce < Tx[o[k]].nonce \/ Tx[o[j]].nonce = Tx[o[k]].nonce
  BY <1>4, <1>5, Zenon DEF FirstOnes, FirstOfSender
<1>7. Tx[o[j]].nonce \in Nat /\ Tx[o[k]].nonce \in Nat
  BY <1>4, TxFields, Zenon
<1>8. CASE o[k] = o[j]
  BY <1>7, <1>8
<1>9. CASE o[k] # o[j]
  BY <1>6, <1>7, <1>9
<1> QED
  BY <1>8, <1>9

\* Every policy arranges what it is given, and those that group by sender keep nonce order.
LEMMA OrderOutcome ==
  ASSUME NEW p \in Policies, NEW s \in Seq(Txs), IsInjective(s), NEW o \in OrderTransactions(p, s)
  PROVE  /\ o \in Seq(Txs) /\ IsInjective(o) /\ Range(o) = Range(s)
         /\ p \in Grouping => InNonceOrder(o)
<1>1. p = "FCFS" => o = s
  BY Zenon DEF OrderTransactions
<1>2. p = "FairBFT" => o \in ByTime(s)
  BY DEF OrderTransactions
<1>3. p \in Grouping => \E key : o \in BestFirst(key, s)
  <2>1. p \in Grouping => o \in BestFirst(FeeKey, s) \/ o \in BestFirst(TimeBoostKey, s)
                            \/ o \in BestFirst(BlobKey, s)
    BY DEF OrderTransactions, Grouping
  <2> QED
    BY <2>1, Zenon
<1>4. p \in Grouping => InNonceOrder(o)
  BY <1>3, GroupedOrder, Zenon
<1>5. p # "FCFS" => o \in Bijection(1 .. Cardinality(Range(s)), Range(s))
  <2>1. p = "FCFS" \/ p = "FairBFT" \/ p \in Grouping
    BY Zenon DEF Policies, Grouping
  <2> QED
    BY <1>2, <1>3, <2>1, Zenon DEF BestFirst, ByTime, Orders
<1>6. IsFiniteSet(Range(s)) /\ Range(s) \subseteq Txs
  BY FiniteElements, Zenon
<1>7. o \in Seq(Txs) /\ IsInjective(o) /\ Range(o) = Range(s)
  BY <1>1, <1>5, <1>6, Arranged, Zenon
<1> QED
  BY <1>4, <1>7, Zenon

\* The variables that are neither queues nor accounts.
ScalarType ==
  /\ policy \in Policies
  /\ emitted \in SUBSET Forced /\ received \in SUBSET Forced
  /\ limit \in 0 .. Config.max_batch_size
  /\ expired \in BOOLEAN /\ registryFailed \in BOOLEAN
  /\ attempt \in 0 .. PublishAttempts
  /\ crashesLeft \in Nat

\* The fields of the configuration.
LEMMA ConfigTypes ==
  /\ Config.max_batch_size \in Nat /\ Config.max_gas_limit \in Nat
  /\ Config.small_batch \in Nat /\ Config.medium_batch \in Nat /\ Config.large_batch \in Nat
  /\ Config.adaptive \in BOOLEAN
<1>1. Config \in ConfigFields
  BY SequencerAssumption, Zenon
<1> QED
  BY <1>1 DEF ConfigFields

\* The adaptive size less the forced transactions taken, saturating, is within the maximum.
LEMMA MaxNormalBound ==
  ASSUME NEW depth \in Nat, Len(takenForced) \in Nat
  PROVE  MaxNormal(depth) \in 0 .. Config.max_batch_size
<1> DEFINE target == TargetBatchSize(depth)
<1>1. target \in Nat /\ target <= Config.max_batch_size
  <2>1. PICK chosen \in Nat : target = Min({chosen, Config.max_batch_size})
    <3>1. target \in {Min({Config.max_batch_size, Config.max_batch_size}),
                      Min({Config.small_batch, Config.max_batch_size}),
                      Min({Config.medium_batch, Config.max_batch_size}),
                      Min({Config.large_batch, Config.max_batch_size})}
      BY Zenon DEF TargetBatchSize
    <3> HIDE DEF target
    <3> QED
      BY <3>1, ConfigTypes, Zenon
  <2> HIDE DEF target
  <2>2. chosen \in Int /\ Config.max_batch_size \in Int
    BY ConfigTypes
  <2>3. target = IF chosen <= Config.max_batch_size THEN chosen ELSE Config.max_batch_size
    BY <2>1, <2>2, MinOfTwo, Zenon
  <2> QED
    BY <2>3, ConfigTypes
<1> HIDE DEF target
<1>2. target - Len(takenForced) \in Int /\ 0 \in Int
  BY <1>1
<1>3. MaxNormal(depth) =
        IF target - Len(takenForced) >= 0 THEN target - Len(takenForced) ELSE 0
  BY <1>2, MaxOfTwo, Zenon DEF MaxNormal, target
<1> QED
  BY <1>1, <1>3, ConfigTypes

\* The types of the variables that are not queues.
LEMMA ScalarTypeStep ==
  ASSUME ScalarType, [Next]_vars, Len(pool) \in Nat, Len(takenForced) \in Nat
  PROVE  ScalarType'
<1>1. policy' \in Policies /\ emitted' \in SUBSET Forced
  BY ScalarSteps, Zenon DEF ScalarType
<1>2. received' \in SUBSET Forced
  BY ScalarSteps, Zenon DEF ScalarType
<1>3. limit' \in 0 .. Config.max_batch_size
  <2>1. 0 \in 0 .. Config.max_batch_size
    BY ConfigTypes
  <2> QED
    BY <2>1, ScalarSteps, MaxNormalBound, Zenon DEF ScalarType
<1>4. expired' \in BOOLEAN
  BY ScalarSteps, Zenon DEF ScalarType
<1>5. registryFailed' \in BOOLEAN
  BY ScalarSteps, Zenon DEF ScalarType
<1>6. attempt' \in 0 .. PublishAttempts
  <2>1. PublishAttempts \in Nat /\ PublishAttempts > 0
    BY SequencerAssumption, Zenon
  <2>2. attempt' = attempt \/ attempt' = 0 \/ attempt' = 1
          \/ (attempt < PublishAttempts /\ attempt' = attempt + 1)
    BY ScalarSteps, Zenon
  <2> QED
    BY <2>1, <2>2 DEF ScalarType
<1>7. crashesLeft' \in Nat
  <2>1. crashesLeft' = crashesLeft \/ (crashesLeft > 0 /\ crashesLeft' = crashesLeft - 1)
    BY ScalarSteps, Zenon
  <2> QED
    BY <2>1 DEF ScalarType
<1> QED
  BY <1>1, <1>2, <1>3, <1>4, <1>5, <1>6, <1>7, Zenon DEF ScalarType

-----------------------------------------------------------------------------
(* The queues and the batches. *)

QueueType ==
  /\ forcedQueue \in Seq(Forced) /\ pool \in Seq(Txs)
  /\ takenForced \in Seq(Forced) /\ takenNormal \in Seq(Txs) /\ deferred \in Seq(All)
  /\ sealed \in Seq([id : Nat, txs : Seq(All)])
  /\ step \in Steps

\* What the orchestrator has in hand at each of its steps.
Hands ==
  /\ step \notin {"defer_forced", "take_normal", "defer_normal"} =>
       takenForced = << >> /\ takenNormal = << >> /\ deferred = << >>
  /\ step = "defer_forced" => takenNormal = << >> /\ deferred \in Seq(Forced)
  /\ step = "take_normal" => takenNormal = << >> /\ deferred = << >>
  /\ step = "defer_normal" => deferred \in Seq(Txs)

\* Transactions on their way: to come, queued, in the batch in production.
Coming == emitted \cup {t \in Txs : at[t] \notin Ended}

Queued == Range(forcedQueue) \cup Range(pool)

Picked == Range(takenForced) \cup Range(takenNormal)

\* Five sets without a common element.
AllApart(C, Q, D, P, S) ==
  /\ C \cap Q = {} /\ C \cap D = {} /\ C \cap P = {} /\ C \cap S = {}
  /\ Q \cap D = {} /\ Q \cap P = {} /\ Q \cap S = {}
  /\ D \cap P = {} /\ D \cap S = {} /\ P \cap S = {}

\* None is at two of these, to be put back as well, or in a batch as well.
Apart == AllApart(Coming, Queued, Range(deferred), Picked, SealedTxs)

\* None is twice in one queue or batch, or in two batches.
Distinct ==
  /\ IsInjective(forcedQueue) /\ IsInjective(pool) /\ IsInjective(deferred)
  /\ IsInjective(takenForced) /\ IsInjective(takenNormal)
  /\ \A i \in DOMAIN sealed : IsInjective(sealed[i].txs)
  /\ \A i, j \in DOMAIN sealed : i # j => Range(sealed[i].txs) \cap Range(sealed[j].txs) = {}

\* An accepted transaction is queued, to be put back, in hand or in a batch.
Kept ==
  \A t \in Txs : at[t] = "accepted" => t \in Queued \cup Range(deferred) \cup Picked \cup SealedTxs

\* What is in hand fits into a batch.
Fits == TotalGas(takenForced \o takenNormal) <= Config.max_gas_limit

QueueInv == QueueType /\ Hands /\ Apart /\ Distinct /\ Kept /\ Fits

queueVars == <<forcedQueue, pool, takenForced, takenNormal, deferred, sealed>>

\* The steps by what they do to these variables.
Still ==
  /\ UNCHANGED <<queueVars, emitted>>
  /\ \/ step' = step
     \/ /\ takenNormal = << >> /\ deferred = << >>
        /\ \/ step' = "take_normal"
           \/ takenForced = << >> /\ step' \in {"idle", "store", "metrics", "publish"}
  /\ \/ at' = at
     \/ \E t \in Txs, v \in {"check_balance", "deduct", "increment", "add", "failed"} :
          at[t] \notin Ended /\ at' = [at EXCEPT ![t] = v]

Cleared ==
  /\ step = "metrics" /\ step' = "publish" /\ forcedQueue' = << >>
  /\ UNCHANGED <<pool, takenForced, takenNormal, deferred, sealed, emitted, at>>

Restarted ==
  /\ forcedQueue' = << >> /\ pool' = << >> /\ takenForced' = << >> /\ takenNormal' = << >>
  /\ deferred' = << >> /\ step' = "down"
  /\ UNCHANGED <<sealed, emitted>>
  /\ \A t \in Txs : (at'[t] = "check_nonce" /\ at[t] = "check_nonce") \/ at'[t] = "failed"

ForcedArrives ==
  /\ \E f \in emitted : emitted' = emitted \ {f} /\ forcedQueue' = Append(forcedQueue, f)
  /\ UNCHANGED <<pool, takenForced, takenNormal, deferred, sealed, at, step>>

TxArrives ==
  /\ \E t \in Txs : at[t] = "add" /\ at' = [at EXCEPT ![t] = "accepted"] /\ pool' = Append(pool, t)
  /\ UNCHANGED <<forcedQueue, takenForced, takenNormal, deferred, sealed, emitted, step>>

\* A step of a handler ends in the pool, or moves the request on and leaves the pool.
LEMMA HandlerStep ==
  ASSUME NEW t \in Txs, Handle(t)
  PROVE  \/ at[t] = "add" /\ at' = [at EXCEPT ![t] = "accepted"] /\ pool' = Append(pool, t)
         \/ /\ pool' = pool /\ at[t] \notin Ended
            /\ \E v \in {"check_balance", "deduct", "increment", "add", "failed"} :
                 at' = [at EXCEPT ![t] = v]
<1>1. CASE AddToPool(t)
  BY <1>1, Zenon DEF AddToPool
<1>2. CASE CheckNonce(t)
  <2>1. pool' = pool /\ at[t] = "check_nonce"
        /\ \E v \in {"check_balance", "failed"} : at' = [at EXCEPT ![t] = v]
    BY <1>2, Zenon DEF CheckNonce
  <2> QED
    BY <2>1, Zenon DEF Ended
<1>3. CASE CheckBalance(t)
  <2>1. pool' = pool /\ at[t] = "check_balance"
        /\ \E v \in {"deduct", "failed"} : at' = [at EXCEPT ![t] = v]
    BY <1>3, Zenon DEF CheckBalance
  <2> QED
    BY <2>1, Zenon DEF Ended
<1>4. CASE DeductBalance(t) \/ IncrementNonce(t)
  <2>1. pool' = pool /\ at[t] \in {"deduct", "increment"}
        /\ \E v \in {"increment", "add"} : at' = [at EXCEPT ![t] = v]
    BY <1>4, Zenon DEF DeductBalance, IncrementNonce
  <2> QED
    BY <2>1, Zenon DEF Ended
<1>5. CASE Disconnect(t)
  <2>1. pool' = pool /\ at[t] \in Updating \cup {"add"} /\ at' = [at EXCEPT ![t] = "failed"]
    BY <1>5, Zenon DEF Disconnect
  <2> QED
    BY <2>1, Zenon DEF Ended, Updating
<1> QED
  BY <1>1, <1>2, <1>3, <1>4, <1>5, Zenon DEF Handle

\* Every step is one of these kinds.
LEMMA QueueSteps ==
  ASSUME [Next]_vars, QueueType, Hands
  PROVE  \/ Still \/ Cleared \/ Restarted \/ ForcedArrives \/ TxArrives
         \/ TakeForced \/ DeferForced \/ TakeNormal \/ DeferNormal \/ SealBatch
<1>1. CASE \E t \in Txs : ApiStep(t)
  <2>1. PICK t \in Txs : ApiStep(t)
    BY <1>1, Zenon
  <2>2. Handle(t) /\ UNCHANGED <<emitted, forcedQueue, orchestratorVars, sealed>>
    BY <2>1, Zenon DEF ApiStep, histVars
  <2>3. UNCHANGED <<forcedQueue, takenForced, takenNormal, deferred, sealed, emitted, step>>
    BY <2>2, Zenon DEF orchestratorVars, batchVars
  <2>4. CASE at[t] = "add" /\ at' = [at EXCEPT ![t] = "accepted"] /\ pool' = Append(pool, t)
    BY <2>3, <2>4, Zenon DEF TxArrives
  <2>5. CASE /\ pool' = pool /\ at[t] \notin Ended
             /\ \E v \in {"check_balance", "deduct", "increment", "add", "failed"} :
                  at' = [at EXCEPT ![t] = v]
    BY <2>3, <2>5, Zenon DEF Still, queueVars
  <2> QED
    BY <2>2, <2>4, <2>5, HandlerStep, Zenon
<1>2. CASE Crash
  <2>1. /\ forcedQueue' = << >> /\ pool' = << >> /\ takenForced' = << >> /\ takenNormal' = << >>
        /\ deferred' = << >> /\ step' = "down" /\ UNCHANGED <<sealed, emitted>>
        /\ at' = [t \in Txs |-> IF at[t] = "check_nonce" THEN at[t] ELSE "failed"]
    BY <1>2, Zenon DEF Crash, AdmissionCrash
  <2> QED
    BY <2>1, Zenon DEF Restarted
<1>3. CASE L1Event
  <2>1. emitted # {} => (CHOOSE e \in emitted : TRUE) \in emitted
    BY Zenon
  <2> QED
    BY <1>3, <2>1, Zenon DEF L1Event, ForcedArrives, admissionVars, orchestratorVars, batchVars
<1>4. CASE Start \/ StartUnrecovered
  <2>1. /\ step = "down" /\ step' = "idle"
        /\ UNCHANGED <<admissionVars, emitted, forcedQueue, batchVars, sealed>>
    BY <1>4, Zenon DEF Start, StartUnrecovered, histVars
  <2> QED
    BY <2>1, Zenon DEF Hands, Still, queueVars, admissionVars, batchVars
<1>5. CASE Expire \/ UNCHANGED vars
  BY <1>5, Zenon DEF Expire, vars, Still, queueVars, admissionVars, orchestratorVars, batchVars,
     histVars
<1>6. CASE CountPool
  BY <1>6, Zenon DEF CountPool, Hands, Still, queueVars, admissionVars, histVars
<1>7. CASE SealNothing
  <2>1. step = "defer_normal" /\ deferred = << >> /\ Taken = << >> /\ step' = "idle"
        /\ UNCHANGED <<admissionVars, emitted, forcedQueue, takenForced, takenNormal, deferred, sealed>>
    BY <1>7, Zenon DEF SealNothing, histVars
  <2>2. takenForced = << >> /\ takenNormal = << >>
    <3>1. takenForced \in Seq(All) /\ takenNormal \in Seq(All)
      <4>1. takenForced \in Seq(Forced) /\ takenNormal \in Seq(Txs)
        BY Zenon DEF QueueType
      <4> QED
        BY <4>1 DEF All
    <3>2. Len(Taken) = Len(takenForced) + Len(takenNormal)
      BY <3>1 DEF Taken
    <3>3. Len(Taken) = 0
      BY <2>1
    <3>4. Len(takenForced) = 0 /\ Len(takenNormal) = 0
      BY <3>1, <3>2, <3>3
    <3> QED
      BY <3>1, <3>4
  <2> QED
    BY <2>1, <2>2, Zenon DEF Still, queueVars, admissionVars
<1>8. CASE Store \/ StoreDuplicate \/ StoreFails
  <2>1. /\ step = "store" /\ step' = "metrics"
        /\ UNCHANGED <<admissionVars, emitted, forcedQueue, batchVars, sealed>>
    BY <1>8, Zenon DEF Store, StoreDuplicate, StoreFails, histVars
  <2> QED
    BY <2>1, Zenon DEF Hands, Still, queueVars, admissionVars, batchVars
<1>9. CASE AppendMetrics
  BY <1>9, Zenon DEF AppendMetrics, Cleared, admissionVars, batchVars, histVars
<1>10. CASE PublishAnswered \/ PublishFails
  <2>1. /\ step = "publish" /\ step' \in {"publish", "idle"}
        /\ UNCHANGED <<admissionVars, emitted, forcedQueue, batchVars, sealed>>
    BY <1>10, Zenon DEF PublishAnswered, PublishFails, NextAttempt
  <2> QED
    BY <2>1, Zenon DEF Hands, Still, queueVars, admissionVars, batchVars
<1> QED
  BY <1>1, <1>2, <1>3, <1>4, <1>5, <1>6, <1>7, <1>8, <1>9, <1>10, Zenon DEF Next, Orchestrate

\* Forced transactions are no requests.
LEMMA ForcedIsNotTx == Forced \cap Txs = {}
  BY SequencerAssumption, Zenon

\* Each queue holds transactions of its kind.
LEMMA QueueTypes ==
  ASSUME QueueType
  PROVE  /\ Range(forcedQueue) \subseteq Forced /\ Range(pool) \subseteq Txs
         /\ Range(takenForced) \subseteq Forced /\ Range(takenNormal) \subseteq Txs
         /\ takenForced \in Seq(All) /\ takenNormal \in Seq(All)
<1>1. /\ forcedQueue \in Seq(Forced) /\ pool \in Seq(Txs)
      /\ takenForced \in Seq(Forced) /\ takenNormal \in Seq(Txs)
  BY Zenon DEF QueueType
<1>2. takenForced \in Seq(All) /\ takenNormal \in Seq(All)
  BY <1>1 DEF All
<1> QED
  BY <1>1, <1>2, FiniteElements

\* get_all and the first loop: the queue is split into what is accepted and what is put back.
LEMMA TakeForcedEffect ==
  ASSUME QueueInv, TakeForced
  PROVE  /\ takenForced = << >> /\ takenNormal = << >> /\ deferred = << >>
         /\ takenForced' \in Seq(Forced) /\ IsInjective(takenForced')
         /\ Range(takenForced') \subseteq Range(forcedQueue)
         /\ deferred' \in Seq(Forced) /\ IsInjective(deferred')
         /\ Range(deferred') = Range(forcedQueue) \ Range(takenForced')
         /\ TotalGas(takenForced') <= Config.max_gas_limit
         /\ forcedQueue' = << >> /\ step' = "defer_forced"
         /\ UNCHANGED <<pool, takenNormal, sealed, at, emitted>>
<1>1. /\ takenForced' = Accepted(<< >>, forcedQueue)
      /\ deferred' = Without(forcedQueue, Range(takenForced'))
      /\ step = "idle" /\ forcedQueue' = << >> /\ step' = "defer_forced"
      /\ UNCHANGED <<pool, takenNormal, sealed, at, emitted>>
  BY Zenon DEF TakeForced, admissionVars, histVars
<1>2. forcedQueue \in Seq(Forced) /\ IsInjective(forcedQueue)
  BY Zenon DEF QueueInv, QueueType, Distinct
<1>3. takenForced = << >> /\ takenNormal = << >> /\ deferred = << >>
  BY <1>1, Zenon DEF QueueInv, Hands
<1>4. Forced \subseteq All /\ << >> \in Seq(All) /\ TotalGas(<< >>) <= Config.max_gas_limit
  <2>1. 0 <= Config.max_gas_limit
    BY ConfigTypes
  <2> QED
    BY <2>1, GasOfEmpty, EmptyOutcome, Zenon DEF All
<1> DEFINE a == Accepted(<< >>, forcedQueue)
<1>5. /\ a \in Seq(Forced) /\ Range(a) \subseteq Range(forcedQueue) /\ IsInjective(a)
      /\ TotalGas(<< >> \o a) <= Config.max_gas_limit
  BY <1>2, <1>4, AcceptedOutcome, Zenon
<1>6. a \in Seq(All) /\ << >> \o a = a
  BY <1>4, <1>5
<1> HIDE DEF a
<1>7. a = takenForced'
  BY <1>1, Zenon DEF a
<1> DEFINE d == Only(forcedQueue, Range(forcedQueue) \ Range(a))
<1>8. d \in Seq(Forced) /\ IsInjective(d) /\ Range(d) = Range(forcedQueue) \cap (Range(forcedQueue) \ Range(a))
  BY <1>2, OnlyOutcome
<1>9. deferred' = d
  BY <1>1, <1>7, Zenon DEF Without
<1> HIDE DEF d
<1> QED
  BY <1>1, <1>3, <1>5, <1>6, <1>7, <1>8, <1>9, Zenon

\* get_pending or take_blob_packed and the second loop: the pool is split into what is
\* accepted, what is put back and what stays.
LEMMA TakeNormalEffect ==
  ASSUME QueueInv, TakeNormal
  PROVE  /\ takenNormal = << >> /\ deferred = << >>
         /\ takenNormal' \in Seq(Txs) /\ IsInjective(takenNormal')
         /\ deferred' \in Seq(Txs) /\ IsInjective(deferred')
         /\ pool' \in Seq(Txs) /\ IsInjective(pool')
         /\ Range(takenNormal') \cap Range(deferred') = {}
         /\ (Range(takenNormal') \cup Range(deferred')) \cap Range(pool') = {}
         /\ Range(takenNormal') \cup Range(deferred') \cup Range(pool') = Range(pool)
         /\ TotalGas(takenForced \o takenNormal') <= Config.max_gas_limit
         /\ step' = "defer_normal"
         /\ UNCHANGED <<forcedQueue, takenForced, sealed, at, emitted>>
<1>1. PICK taken, c : /\ c = Only(pool, taken)
                      /\ takenNormal' = Accepted(takenForced, c)
                      /\ deferred' = Without(c, Range(takenNormal'))
                      /\ pool' = Without(pool, taken)
  <2>1. PICK taken : taken = TakeFromPool(policy, pool, limit, BlobBytesLeft)
    BY Zenon
  <2>2. PICK c : c = Only(pool, taken)
    BY Zenon
  <2> QED
    BY <2>1, <2>2, Zenon DEF TakeNormal, RestOfPool
<1>2. /\ step = "take_normal" /\ step' = "defer_normal"
      /\ UNCHANGED <<forcedQueue, takenForced, sealed, at, emitted>>
  BY Zenon DEF TakeNormal, histVars
<1>3. pool \in Seq(Txs) /\ IsInjective(pool) /\ takenForced \in Seq(All)
  BY QueueTypes, Zenon DEF QueueInv, QueueType, Distinct
<1>4. takenNormal = << >> /\ deferred = << >>
  BY <1>2, Zenon DEF QueueInv, Hands
<1>5. takenForced \o takenNormal = takenForced
  BY <1>3, <1>4
<1>6. TotalGas(takenForced) <= Config.max_gas_limit /\ Txs \subseteq All
  BY <1>5, Zenon DEF QueueInv, Fits, All
<1>7. c \in Seq(Txs) /\ IsInjective(c) /\ Range(c) = Range(pool) \cap taken
  BY <1>1, <1>3, OnlyOutcome
<1> DEFINE a == Accepted(takenForced, c)
<1>8. /\ a \in Seq(Txs) /\ Range(a) \subseteq Range(c) /\ IsInjective(a)
      /\ TotalGas(takenForced \o a) <= Config.max_gas_limit
  BY <1>3, <1>6, <1>7, AcceptedOutcome, Zenon
<1> HIDE DEF a
<1> DEFINE d == Only(c, Range(c) \ Range(a))
           r == Only(pool, Range(pool) \ taken)
<1>9. d \in Seq(Txs) /\ IsInjective(d) /\ Range(d) = Range(c) \cap (Range(c) \ Range(a))
  BY <1>7, OnlyOutcome
<1>10. r \in Seq(Txs) /\ IsInjective(r) /\ Range(r) = Range(pool) \cap (Range(pool) \ taken)
  BY <1>3, OnlyOutcome
<1>11. takenNormal' = a /\ deferred' = d /\ pool' = r
  BY <1>1, Zenon DEF Without, a
<1> HIDE DEF d, r
<1>12. /\ Range(a) \cap Range(d) = {} /\ (Range(a) \cup Range(d)) \cap Range(r) = {}
       /\ Range(a) \cup Range(d) \cup Range(r) = Range(pool)
  BY <1>7, <1>8, <1>9, <1>10, Zenon
<1> QED
  BY <1>2, <1>4, <1>8, <1>9, <1>10, <1>11, <1>12, Zenon

\* schedule and create_batch: what was accepted is the batch, in another order.
LEMMA SealEffect ==
  ASSUME QueueInv, SealBatch, policy \in Policies
  PROVE  \E b, o : /\ sealed' = Append(sealed, b) /\ b.id = nextBatchId /\ b.txs = takenForced \o o
                   /\ b = [id |-> nextBatchId, txs |-> takenForced \o o]
                   /\ o \in Seq(Txs) /\ IsInjective(o) /\ Range(o) = Range(takenNormal)
                   /\ policy \in Grouping => InNonceOrder(o)
                   /\ deferred = << >> /\ takenForced' = << >> /\ takenNormal' = << >>
                   /\ step' = "store"
                   /\ UNCHANGED <<forcedQueue, pool, deferred, at, emitted>>
<1>1. PICK txs \in Schedule(takenForced, takenNormal) :
         sealed' = Append(sealed, [id |-> nextBatchId, txs |-> txs])
  BY Zenon DEF SealBatch
<1>2. PICK o \in OrderTransactions(policy, takenNormal) : txs = takenForced \o o
  BY Zenon DEF Schedule
<1>3. takenNormal \in Seq(Txs) /\ IsInjective(takenNormal)
  BY Zenon DEF QueueInv, QueueType, Distinct
<1>4. /\ o \in Seq(Txs) /\ IsInjective(o) /\ Range(o) = Range(takenNormal)
      /\ policy \in Grouping => InNonceOrder(o)
  BY <1>3, OrderOutcome, Zenon
<1>5. PICK b : b = [id |-> nextBatchId, txs |-> txs]
  BY Zenon
<1>6. b.id = nextBatchId /\ b.txs = txs
  BY <1>5
<1>7. /\ deferred = << >> /\ takenForced' = << >> /\ takenNormal' = << >> /\ step' = "store"
      /\ UNCHANGED <<forcedQueue, pool, deferred, at, emitted>>
  BY Zenon DEF SealBatch, admissionVars
<1> QED
  BY <1>1, <1>2, <1>4, <1>5, <1>6, <1>7, Zenon

\* The places lose some of what they hold.
LEMMA ApartShrinks ==
  ASSUME NEW C, NEW Q, NEW D, NEW P, NEW S, NEW C1, NEW Q1, NEW D1, NEW P1, AllApart(C, Q, D, P, S),
         C1 \subseteq C, Q1 \subseteq Q, D1 \subseteq D, P1 \subseteq P
  PROVE  AllApart(C1, Q1, D1, P1, S)
  BY Zenon DEF AllApart

\* A transaction to come is queued.
LEMMA ApartArrives ==
  ASSUME NEW C, NEW Q, NEW D, NEW P, NEW S, NEW C1, NEW x \in C, AllApart(C, Q, D, P, S),
         C1 \subseteq C \ {x}
  PROVE  AllApart(C1, Q \cup {x}, D, P, S)
  BY Zenon DEF AllApart

\* A queue is split into what stays, what is put back and what is picked.
LEMMA ApartSplit ==
  ASSUME NEW C, NEW Q, NEW P, NEW S, NEW Q1, NEW D1, NEW N, AllApart(C, Q, {}, P, S),
         Q1 \subseteq Q, D1 \subseteq Q, N \subseteq Q, Q1 \cap D1 = {}, Q1 \cap N = {}, D1 \cap N = {}
  PROVE  AllApart(C, Q1, D1, P \cup N, S)
  BY Zenon DEF AllApart

\* A deferred transaction is queued again.
LEMMA ApartBack ==
  ASSUME NEW C, NEW Q, NEW D, NEW P, NEW S, NEW x \in D, AllApart(C, Q, D, P, S)
  PROVE  AllApart(C, Q \cup {x}, D \ {x}, P, S)
  BY Zenon DEF AllApart

\* What was picked is sealed.
LEMMA ApartSealed ==
  ASSUME NEW C, NEW Q, NEW D, NEW P, NEW S, AllApart(C, Q, D, P, S)
  PROVE  AllApart(C, Q, D, {}, S \cup P)
  BY Zenon DEF AllApart

\* Steps that move no transaction.
LEMMA StillInv == ASSUME QueueInv, HandlerType, Still PROVE QueueInv'
<1>1. UNCHANGED <<forcedQueue, pool, takenForced, takenNormal, deferred, sealed, emitted>>
  BY Zenon DEF Still, queueVars
<1>2. QueueType' /\ Hands'
  <2>1. step' \in Steps
    BY Zenon DEF Still, QueueInv, QueueType, Steps
  <2>2. Hands'
    <3>1. CASE step' = step
      BY <1>1, <3>1, Zenon DEF QueueInv, Hands
    <3>2. CASE takenNormal = << >> /\ deferred = << >> /\ step' = "take_normal"
      BY <1>1, <3>2, Zenon DEF Hands
    <3>3. CASE /\ takenNormal = << >> /\ deferred = << >> /\ takenForced = << >>
               /\ step' \in {"idle", "store", "metrics", "publish"}
      BY <1>1, <3>3, Zenon DEF Hands
    <3> QED
      BY <3>1, <3>2, <3>3, Zenon DEF Still
  <2> QED
    BY <1>1, <2>1, <2>2, Zenon DEF QueueInv, QueueType
<1>3. \A t \in Txs : (at'[t] \notin Ended => at[t] \notin Ended) /\ (at'[t] = "accepted" => at[t] = "accepted")
  <2>1. CASE at' = at
    BY <2>1, Zenon
  <2>2. CASE at' # at
    <3>1. PICK t \in Txs, v \in {"check_balance", "deduct", "increment", "add", "failed"} :
            at[t] \notin Ended /\ at' = [at EXCEPT ![t] = v]
      BY <2>2, Zenon DEF Still
    <3>2. DOMAIN at = Txs
      BY Zenon DEF HandlerType
    <3>3. \A u \in Txs : at'[u] = IF u = t THEN v ELSE at[u]
      BY <3>1, <3>2, Zenon
    <3>4. v # "accepted"
      BY Zenon
    <3> QED
      BY <3>1, <3>3, <3>4, Zenon
  <2> QED
    BY <2>1, <2>2
<1>4. /\ Coming' \subseteq Coming /\ Queued' = Queued /\ Range(deferred') = Range(deferred)
      /\ Picked' = Picked /\ SealedTxs' = SealedTxs
  BY <1>1, <1>3, Zenon DEF Coming, Queued, Picked, SealedTxs
<1>5. Apart'
  BY <1>4, ApartShrinks, Zenon DEF QueueInv, Apart
<1>6. Distinct' /\ Fits'
  BY <1>1, Zenon DEF QueueInv, Distinct, Fits
<1>7. Kept'
  BY <1>3, <1>4, Zenon DEF QueueInv, Kept
<1> QED
  BY <1>2, <1>5, <1>6, <1>7, Zenon DEF QueueInv

\* Empty hands fit into a batch.
LEMMA NoGas == TotalGas(<< >> \o << >>) <= Config.max_gas_limit
<1>1. << >> \o << >> = << >> /\ 0 <= Config.max_gas_limit
  BY ConfigTypes
<1> QED
  BY <1>1, GasOfEmpty, Zenon

\* A crash empties the queues and ends every request that had begun.
LEMMA RestartInv == ASSUME QueueInv, Restarted PROVE QueueInv'
<1>1. /\ forcedQueue' = << >> /\ pool' = << >> /\ takenForced' = << >> /\ takenNormal' = << >>
      /\ deferred' = << >> /\ step' = "down" /\ sealed' = sealed /\ emitted' = emitted
      /\ \A t \in Txs : (at'[t] = "check_nonce" /\ at[t] = "check_nonce") \/ at'[t] = "failed"
  BY Zenon DEF Restarted
<1>2. QueueType' /\ Hands'
  BY <1>1, EmptyOutcome, Zenon DEF QueueInv, QueueType, Hands, Steps
<1>3. Range(<< >>) = {} /\ IsInjective(<< >>)
  BY EmptyOutcome, Zenon
<1>4. Coming' \subseteq Coming
  BY <1>1, Zenon DEF Coming, Ended
<1>5. Queued' = {} /\ Range(deferred') = {} /\ Picked' = {} /\ SealedTxs' = SealedTxs
  BY <1>1, <1>3, Zenon DEF Queued, Picked, SealedTxs
<1>6. Apart'
  <2>1. Queued' \subseteq Queued /\ Range(deferred') \subseteq Range(deferred) /\ Picked' \subseteq Picked
    BY <1>5, Zenon
  <2> QED
    BY <1>4, <1>5, <2>1, ApartShrinks, Zenon DEF QueueInv, Apart
<1>7. Distinct'
  BY <1>1, <1>3, Zenon DEF QueueInv, Distinct
<1>8. Kept'
  BY <1>1, Zenon DEF Kept
<1>9. Fits'
  BY <1>1, NoGas, Zenon DEF Fits
<1> QED
  BY <1>2, <1>6, <1>7, <1>8, <1>9, Zenon DEF QueueInv

\* The metrics row: forced transactions are lost, user transactions are not.
LEMMA ClearedInv == ASSUME QueueInv, Cleared PROVE QueueInv'
<1>1. /\ forcedQueue' = << >> /\ step = "metrics" /\ step' = "publish"
      /\ UNCHANGED <<pool, takenForced, takenNormal, deferred, sealed, emitted, at>>
  BY Zenon DEF Cleared
<1>2. Range(<< >>) = {} /\ IsInjective(<< >>) /\ << >> \in Seq(Forced)
  BY EmptyOutcome, Zenon
<1>3. QueueType' /\ Hands'
  BY <1>1, <1>2, Zenon DEF QueueInv, QueueType, Hands, Steps
<1>4. /\ Coming' = Coming /\ Queued' = Range(pool) /\ Range(deferred') = Range(deferred)
      /\ Picked' = Picked /\ SealedTxs' = SealedTxs
  BY <1>1, <1>2, Zenon DEF Coming, Queued, Picked, SealedTxs
<1>5. Apart'
  <2>1. Queued' \subseteq Queued /\ Coming \subseteq Coming /\ Range(deferred) \subseteq Range(deferred)
        /\ Picked \subseteq Picked
    BY <1>4, Zenon DEF Queued
  <2> QED
    BY <1>4, <2>1, ApartShrinks, Zenon DEF QueueInv, Apart
<1>6. Distinct' /\ Fits'
  BY <1>1, <1>2, Zenon DEF QueueInv, Distinct, Fits
<1>7. Range(forcedQueue) \cap Txs = {}
  BY QueueTypes, ForcedIsNotTx, Zenon DEF QueueInv
<1>8. Kept'
  BY <1>1, <1>4, <1>7, Zenon DEF QueueInv, Kept, Queued
<1> QED
  BY <1>3, <1>5, <1>6, <1>8, Zenon DEF QueueInv

\* The listener queues a forced transaction.
LEMMA ForcedArrivesInv == ASSUME QueueInv, ScalarType, ForcedArrives PROVE QueueInv'
<1>1. PICK f \in emitted : emitted' = emitted \ {f} /\ forcedQueue' = Append(forcedQueue, f)
  BY Zenon DEF ForcedArrives
<1>2. UNCHANGED <<pool, takenForced, takenNormal, deferred, sealed, at, step>>
  BY Zenon DEF ForcedArrives
<1>3. f \in Forced /\ f \notin Txs /\ f \in Coming
  BY <1>1, ForcedIsNotTx, Zenon DEF ScalarType, Coming
<1>4. forcedQueue \in Seq(Forced) /\ IsInjective(forcedQueue)
  BY Zenon DEF QueueInv, QueueType, Distinct
<1>5. f \notin Range(forcedQueue)
  BY <1>3, Zenon DEF QueueInv, Apart, AllApart, Queued
<1>6. /\ forcedQueue' \in Seq(Forced) /\ IsInjective(forcedQueue')
      /\ Range(forcedQueue') = Range(forcedQueue) \cup {f}
  BY <1>1, <1>3, <1>4, <1>5, Extended, ExtendedSet
<1>7. QueueType' /\ Hands'
  BY <1>2, <1>6, Zenon DEF QueueInv, QueueType, Hands
<1>8. /\ Coming' \subseteq Coming \ {f} /\ Queued' = Queued \cup {f} /\ Range(deferred') = Range(deferred)
      /\ Picked' = Picked /\ SealedTxs' = SealedTxs
  BY <1>1, <1>2, <1>3, <1>6, Zenon DEF Coming, Queued, Picked, SealedTxs
<1>9. Apart'
  BY <1>3, <1>8, ApartArrives, Zenon DEF QueueInv, Apart
<1>10. Distinct' /\ Fits'
  BY <1>2, <1>6, Zenon DEF QueueInv, Distinct, Fits
<1>11. Kept'
  BY <1>2, <1>8, Zenon DEF QueueInv, Kept
<1> QED
  BY <1>7, <1>9, <1>10, <1>11, Zenon DEF QueueInv

\* A handler adds its request to the pool.
LEMMA TxArrivesInv == ASSUME QueueInv, HandlerType, ScalarType, TxArrives PROVE QueueInv'
<1>1. PICK t \in Txs : at[t] = "add" /\ at' = [at EXCEPT ![t] = "accepted"] /\ pool' = Append(pool, t)
  BY Zenon DEF TxArrives
<1>2. UNCHANGED <<forcedQueue, takenForced, takenNormal, deferred, sealed, emitted, step>>
  BY Zenon DEF TxArrives
<1>3. \A u \in Txs : at'[u] = IF u = t THEN "accepted" ELSE at[u]
  BY <1>1, Zenon DEF HandlerType
<1>4. t \in Coming /\ pool \in Seq(Txs) /\ IsInjective(pool)
  BY <1>1, Zenon DEF Coming, Ended, QueueInv, QueueType, Distinct
<1>6. t \notin Range(pool)
  BY <1>4, Zenon DEF QueueInv, Apart, AllApart, Queued
<1>7. pool' \in Seq(Txs) /\ IsInjective(pool') /\ Range(pool') = Range(pool) \cup {t}
  BY <1>1, <1>4, <1>6, Extended, ExtendedSet
<1>8. QueueType' /\ Hands'
  BY <1>2, <1>7, Zenon DEF QueueInv, QueueType, Hands
<1>9. /\ Queued' = Queued \cup {t} /\ Range(deferred') = Range(deferred)
      /\ Picked' = Picked /\ SealedTxs' = SealedTxs
  BY <1>2, <1>7, Zenon DEF Queued, Picked, SealedTxs
<1>10. Coming' \subseteq Coming \ {t}
  <2>1. t \notin emitted
    BY ForcedIsNotTx, Zenon DEF ScalarType
  <2> QED
    BY <1>2, <1>3, <2>1, Zenon DEF Coming, Ended
<1>11. Apart'
  BY <1>4, <1>9, <1>10, ApartArrives, Zenon DEF QueueInv, Apart
<1>12. Distinct' /\ Fits'
  BY <1>2, <1>7, Zenon DEF QueueInv, Distinct, Fits
<1>13. Kept'
  BY <1>3, <1>9, Zenon DEF QueueInv, Kept
<1> QED
  BY <1>8, <1>11, <1>12, <1>13, Zenon DEF QueueInv

\* get_all and the loop over the forced queue.
LEMMA TakeForcedInv == ASSUME QueueInv, TakeForced PROVE QueueInv'
<1>1. /\ takenForced = << >> /\ takenNormal = << >> /\ deferred = << >>
      /\ takenForced' \in Seq(Forced) /\ IsInjective(takenForced')
      /\ Range(takenForced') \subseteq Range(forcedQueue)
      /\ deferred' \in Seq(Forced) /\ IsInjective(deferred')
      /\ Range(deferred') = Range(forcedQueue) \ Range(takenForced')
      /\ TotalGas(takenForced') <= Config.max_gas_limit
      /\ forcedQueue' = << >> /\ step' = "defer_forced"
      /\ UNCHANGED <<pool, takenNormal, sealed, at, emitted>>
  BY TakeForcedEffect, Zenon
<1>2. Range(<< >>) = {} /\ IsInjective(<< >>) /\ << >> \in Seq(Forced)
  BY EmptyOutcome, Zenon
<1>3. deferred' \in Seq(All) /\ takenForced' \o << >> = takenForced'
  BY <1>1 DEF All
<1>4. QueueType' /\ Hands'
  BY <1>1, <1>2, <1>3, Zenon DEF QueueInv, QueueType, Hands, Steps
<1>5. /\ Coming' = Coming /\ Queued' = Range(pool) /\ Range(deferred) = {} /\ Picked = {}
      /\ Picked' = Picked \cup Range(takenForced') /\ SealedTxs' = SealedTxs
  BY <1>1, <1>2, Zenon DEF Coming, Queued, Picked, SealedTxs
<1>6. Apart'
  <2>1. Range(forcedQueue) \cap Range(pool) = {}
    BY QueueTypes, ForcedIsNotTx, Zenon DEF QueueInv
  <2>2. /\ Range(pool) \subseteq Queued /\ Range(deferred') \subseteq Queued
        /\ Range(takenForced') \subseteq Queued
        /\ Range(pool) \cap Range(deferred') = {} /\ Range(pool) \cap Range(takenForced') = {}
        /\ Range(deferred') \cap Range(takenForced') = {}
    BY <1>1, <2>1, Zenon DEF Queued
  <2>3. AllApart(Coming, Queued, {}, Picked, SealedTxs)
    BY <1>5, Zenon DEF QueueInv, Apart
  <2>4. AllApart(Coming, Range(pool), Range(deferred'), Picked \cup Range(takenForced'), SealedTxs)
    BY <2>2, <2>3, ApartSplit, Zenon
  <2> QED
    BY <1>5, <2>4, Zenon DEF Apart
<1>7. Distinct'
  BY <1>1, <1>2, Zenon DEF QueueInv, Distinct
<1>8. Fits'
  BY <1>1, <1>3, Zenon DEF Fits
<1>9. Kept'
  <2>1. Queued \cup Range(deferred) \cup Picked \cup SealedTxs \subseteq
        Queued' \cup Range(deferred') \cup Picked' \cup SealedTxs'
    BY <1>1, <1>5, Zenon DEF Queued
  <2> QED
    BY <1>1, <2>1, Zenon DEF QueueInv, Kept
<1> QED
  BY <1>4, <1>6, <1>7, <1>8, <1>9, Zenon DEF QueueInv

\* get_pending or take_blob_packed, and the loop over the candidates.
LEMMA TakeNormalInv == ASSUME QueueInv, TakeNormal PROVE QueueInv'
<1>1. /\ takenNormal = << >> /\ deferred = << >>
      /\ takenNormal' \in Seq(Txs) /\ IsInjective(takenNormal')
      /\ deferred' \in Seq(Txs) /\ IsInjective(deferred')
      /\ pool' \in Seq(Txs) /\ IsInjective(pool')
      /\ Range(takenNormal') \cap Range(deferred') = {}
      /\ (Range(takenNormal') \cup Range(deferred')) \cap Range(pool') = {}
      /\ Range(takenNormal') \cup Range(deferred') \cup Range(pool') = Range(pool)
      /\ TotalGas(takenForced \o takenNormal') <= Config.max_gas_limit
      /\ step' = "defer_normal"
      /\ UNCHANGED <<forcedQueue, takenForced, sealed, at, emitted>>
  BY TakeNormalEffect, Zenon
<1>2. Range(<< >>) = {}
  BY EmptyOutcome, Zenon
<1>3. deferred' \in Seq(All)
  BY <1>1 DEF All
<1>4. QueueType' /\ Hands'
  BY <1>1, <1>3, Zenon DEF QueueInv, QueueType, Hands, Steps
<1>5. /\ Coming' = Coming /\ Queued' = Range(forcedQueue) \cup Range(pool') /\ Range(deferred) = {}
      /\ Picked' = Picked \cup Range(takenNormal') /\ SealedTxs' = SealedTxs
  BY <1>1, <1>2, Zenon DEF Coming, Queued, Picked, SealedTxs
<1>6. Apart'
  <2>1. Range(forcedQueue) \cap Range(pool) = {}
    BY QueueTypes, ForcedIsNotTx, Zenon DEF QueueInv
  <2> DEFINE R == Range(forcedQueue) \cup Range(pool')
  <2>2. Range(pool') \subseteq Range(pool) /\ Range(deferred') \subseteq Range(pool)
        /\ Range(takenNormal') \subseteq Range(pool)
    BY <1>1, Zenon
  <2>3. /\ R \subseteq Queued /\ Range(deferred') \subseteq Queued /\ Range(takenNormal') \subseteq Queued
        /\ R \cap Range(deferred') = {} /\ R \cap Range(takenNormal') = {}
        /\ Range(deferred') \cap Range(takenNormal') = {}
    BY <1>1, <2>1, <2>2, Zenon DEF Queued
  <2>4. AllApart(Coming, Queued, {}, Picked, SealedTxs)
    BY <1>5, Zenon DEF QueueInv, Apart
  <2> HIDE DEF R
  <2>5. AllApart(Coming, R, Range(deferred'), Picked \cup Range(takenNormal'), SealedTxs)
    BY <2>3, <2>4, ApartSplit, Zenon
  <2> QED
    BY <1>5, <2>5, Zenon DEF Apart, R
<1>7. Distinct'
  BY <1>1, Zenon DEF QueueInv, Distinct
<1>8. Fits'
  BY <1>1, Zenon DEF Fits
<1>9. Kept'
  <2>1. Queued \cup Range(deferred) \cup Picked \cup SealedTxs \subseteq
        Queued' \cup Range(deferred') \cup Picked' \cup SealedTxs'
    BY <1>1, <1>5, Zenon DEF Queued
  <2> QED
    BY <1>1, <2>1, Zenon DEF QueueInv, Kept
<1> QED
  BY <1>4, <1>6, <1>7, <1>8, <1>9, Zenon DEF QueueInv

\* One deferred transaction goes back to its queue.
LEMMA DeferInv == ASSUME QueueInv, DeferForced \/ DeferNormal PROVE QueueInv'
<1> DEFINE x == Head(deferred)
<1>1. /\ deferred # << >> /\ deferred' = Tail(deferred) /\ step' = step
      /\ UNCHANGED <<takenForced, takenNormal, sealed, at, emitted>>
      /\ \/ step = "defer_forced" /\ forcedQueue' = Append(forcedQueue, x) /\ pool' = pool
         \/ step = "defer_normal" /\ pool' = Append(pool, x) /\ forcedQueue' = forcedQueue
  BY Zenon DEF DeferForced, DeferNormal, admissionVars, histVars
<1>2. /\ forcedQueue \in Seq(Forced) /\ pool \in Seq(Txs) /\ deferred \in Seq(All)
      /\ IsInjective(forcedQueue) /\ IsInjective(pool) /\ IsInjective(deferred)
      /\ (step = "defer_forced" => deferred \in Seq(Forced) /\ takenNormal = << >>)
      /\ (step = "defer_normal" => deferred \in Seq(Txs))
  BY Zenon DEF QueueInv, QueueType, Hands, Distinct
<1>3. \A U : deferred \in Seq(U) => x \in U /\ deferred' \in Seq(U)
  BY <1>1, <1>2, TailOutcome
<1>4. /\ IsInjective(deferred') /\ x \in Range(deferred) /\ Range(deferred') = Range(deferred) \ {x}
  BY <1>1, <1>2, TailOutcome
<1>5. x \notin Queued
  BY <1>4, Zenon DEF QueueInv, Apart, AllApart
<1> HIDE DEF x
<1>6. /\ forcedQueue' \in Seq(Forced) /\ pool' \in Seq(Txs)
      /\ IsInjective(forcedQueue') /\ IsInjective(pool')
      /\ Queued' = Queued \cup {x}
  <2>1. x \notin Range(forcedQueue) /\ x \notin Range(pool)
    BY <1>5, Zenon DEF Queued
  <2>2. CASE step = "defer_forced" /\ forcedQueue' = Append(forcedQueue, x) /\ pool' = pool
    <3>1. x \in Forced
      BY <1>2, <1>3, <2>2, Zenon
    <3>2. /\ forcedQueue' \in Seq(Forced) /\ IsInjective(forcedQueue')
          /\ Range(forcedQueue') = Range(forcedQueue) \cup {x}
      BY <1>2, <2>1, <2>2, <3>1, Extended, ExtendedSet
    <3> QED
      BY <1>2, <2>2, <3>2, Zenon DEF Queued
  <2>3. CASE step = "defer_normal" /\ pool' = Append(pool, x) /\ forcedQueue' = forcedQueue
    <3>1. x \in Txs
      BY <1>2, <1>3, <2>3, Zenon
    <3>2. /\ pool' \in Seq(Txs) /\ IsInjective(pool') /\ Range(pool') = Range(pool) \cup {x}
      BY <1>2, <2>1, <2>3, <3>1, Extended, ExtendedSet
    <3> QED
      BY <1>2, <2>3, <3>2, Zenon DEF Queued
  <2> QED
    BY <1>1, <2>2, <2>3, Zenon
<1>7. QueueType' /\ Hands'
  BY <1>1, <1>2, <1>3, <1>6, Zenon DEF QueueInv, QueueType, Hands
<1>8. Coming' = Coming /\ Picked' = Picked /\ SealedTxs' = SealedTxs
  BY <1>1, Zenon DEF Coming, Picked, SealedTxs
<1>9. Apart'
  <2>1. AllApart(Coming, Queued, Range(deferred), Picked, SealedTxs)
    BY Zenon DEF QueueInv, Apart
  <2>2. AllApart(Coming, Queued \cup {x}, Range(deferred) \ {x}, Picked, SealedTxs)
    BY <1>4, <2>1, ApartBack, Zenon
  <2> QED
    BY <1>4, <1>6, <1>8, <2>2, Zenon DEF Apart
<1>10. Distinct' /\ Fits'
  BY <1>1, <1>4, <1>6, Zenon DEF QueueInv, Distinct, Fits
<1>11. Kept'
  BY <1>1, <1>4, <1>6, <1>8, Zenon DEF QueueInv, Kept
<1> QED
  BY <1>7, <1>9, <1>10, <1>11, Zenon DEF QueueInv

\* schedule and create_batch.
LEMMA SealInv == ASSUME QueueInv, SealBatch, policy \in Policies, nextBatchId \in Nat PROVE QueueInv'
<1>1. PICK b, o : /\ sealed' = Append(sealed, b) /\ b.id = nextBatchId /\ b.txs = takenForced \o o
                  /\ b = [id |-> nextBatchId, txs |-> takenForced \o o]
                  /\ o \in Seq(Txs) /\ IsInjective(o) /\ Range(o) = Range(takenNormal)
                  /\ policy \in Grouping => InNonceOrder(o)
                  /\ deferred = << >> /\ takenForced' = << >> /\ takenNormal' = << >>
                  /\ step' = "store"
                  /\ UNCHANGED <<forcedQueue, pool, deferred, at, emitted>>
  BY SealEffect, Zenon
<1>2. Range(<< >>) = {} /\ IsInjective(<< >>) /\ \A U : << >> \in Seq(U)
  BY EmptyOutcome, Zenon
<1> DEFINE B == [id : Nat, txs : Seq(All)]
           n == Len(sealed)
<1>3. /\ takenForced \in Seq(All) /\ o \in Seq(All) /\ IsInjective(takenForced)
      /\ Range(takenForced) \cap Range(o) = {}
  <2>1. o \in Seq(All)
    BY <1>1 DEF All
  <2> QED
    BY <1>1, <2>1, QueueTypes, ForcedIsNotTx, Zenon DEF QueueInv, Distinct
<1>4. b.txs \in Seq(All) /\ Range(b.txs) = Picked /\ IsInjective(b.txs)
  <2> DEFINE w == takenForced \o o
  <2>1. w \in Seq(All) /\ Range(w) = Range(takenForced) \cup Range(o) /\ IsInjective(w)
    BY <1>1, <1>3, Joined
  <2> HIDE DEF w
  <2>2. b.txs = w
    BY <1>1, Zenon DEF w
  <2> QED
    BY <1>1, <2>1, <2>2, Zenon DEF Picked
<1>5. b \in B
  <2>1. takenForced \o o \in Seq(All)
    BY <1>1, <1>4, Zenon
  <2>2. PICK w : w = takenForced \o o
    BY Zenon
  <2>3. b = [id |-> nextBatchId, txs |-> w] /\ w \in Seq(All)
    BY <1>1, <2>1, <2>2, Zenon
  <2> QED
    BY <2>3
<1>6. sealed \in Seq(B)
  BY Zenon DEF QueueInv, QueueType
<1> HIDE DEF B
<1>7. /\ sealed' \in Seq(B) /\ n \in Nat /\ sealed'[n + 1] = b
      /\ \A i \in 1 .. n : sealed'[i] = sealed[i]
      /\ \A i \in 1 .. n + 1 : i \in 1 .. n \/ i = n + 1
      /\ DOMAIN sealed = 1 .. n /\ DOMAIN sealed' = 1 .. n + 1
      /\ n + 1 \in 1 .. n + 1 /\ 1 .. n \subseteq 1 .. n + 1
  BY <1>1, <1>5, <1>6, Extended
<1> HIDE DEF n
<1>8. QueueType' /\ Hands'
  BY <1>1, <1>2, <1>7, Zenon DEF QueueInv, QueueType, Hands, Steps, B
<1>9. SealedTxs' = SealedTxs \cup Picked
  <2>1. ASSUME NEW y \in SealedTxs' PROVE y \in SealedTxs \cup Picked
    <3>1. PICK i \in 1 .. n + 1 : y \in Range(sealed'[i].txs)
      BY <1>7, <2>1, Zenon DEF SealedTxs
    <3>2. CASE i = n + 1
      BY <1>4, <1>7, <3>1, <3>2, Zenon
    <3>3. CASE i \in 1 .. n
      BY <1>7, <3>1, <3>3, Zenon DEF SealedTxs
    <3> QED
      BY <1>7, <3>2, <3>3, Zenon
  <2>2. ASSUME NEW y \in SealedTxs PROVE y \in SealedTxs'
    <3>1. PICK i \in 1 .. n : y \in Range(sealed[i].txs)
      BY <1>7, <2>2, Zenon DEF SealedTxs
    <3>2. i \in DOMAIN sealed' /\ y \in Range(sealed'[i].txs)
      BY <1>7, <3>1, Zenon
    <3> QED
      BY <3>2, Zenon DEF SealedTxs
  <2>3. ASSUME NEW y \in Picked PROVE y \in SealedTxs'
    <3>1. n + 1 \in DOMAIN sealed' /\ y \in Range(sealed'[n + 1].txs)
      BY <1>4, <1>7, <2>3, Zenon
    <3> QED
      BY <3>1, Zenon DEF SealedTxs
  <2> QED
    BY <2>1, <2>2, <2>3, Zenon
<1>10. Coming' = Coming /\ Queued' = Queued /\ Range(deferred') = Range(deferred) /\ Picked' = {}
  BY <1>1, <1>2, Zenon DEF Coming, Queued, Picked
<1>11. Apart'
  <2>1. AllApart(Coming, Queued, Range(deferred), {}, SealedTxs \cup Picked)
    BY ApartSealed, Zenon DEF QueueInv, Apart
  <2> QED
    BY <1>9, <1>10, <2>1, Zenon DEF Apart
<1>12. Distinct'
  <2>1. \A i \in DOMAIN sealed' : IsInjective(sealed'[i].txs)
    <3>1. \A i \in 1 .. n : IsInjective(sealed[i].txs)
      BY <1>7, Zenon DEF QueueInv, Distinct
    <3> QED
      BY <1>4, <1>7, <3>1, Zenon
  <2>2. \A i \in 1 .. n : Range(sealed[i].txs) \subseteq SealedTxs
    BY <1>7, Zenon DEF SealedTxs
  <2>3. SealedTxs \cap Picked = {}
    BY Zenon DEF QueueInv, Apart, AllApart
  <2>4. \A i \in 1 .. n : Range(sealed'[i].txs) \cap Range(b.txs) = {}
    BY <1>4, <1>7, <2>2, <2>3, Zenon
  <2>5. \A i, j \in 1 .. n : i # j => Range(sealed'[i].txs) \cap Range(sealed'[j].txs) = {}
    BY <1>7, Zenon DEF QueueInv, Distinct
  <2>6. ASSUME NEW i \in 1 .. n + 1, NEW j \in 1 .. n + 1, i # j
        PROVE  Range(sealed'[i].txs) \cap Range(sealed'[j].txs) = {}
    <3>1. CASE i = n + 1 /\ j \in 1 .. n
      BY <1>7, <2>4, <3>1, Zenon
    <3>2. CASE j = n + 1 /\ i \in 1 .. n
      BY <1>7, <2>4, <3>2, Zenon
    <3>3. CASE i \in 1 .. n /\ j \in 1 .. n
      BY <2>5, <2>6, <3>3, Zenon
    <3> QED
      BY <1>7, <2>6, <3>1, <3>2, <3>3, Zenon
  <2>7. /\ IsInjective(forcedQueue') /\ IsInjective(pool') /\ IsInjective(deferred')
        /\ IsInjective(takenForced') /\ IsInjective(takenNormal')
    BY <1>1, <1>2, Zenon DEF QueueInv, Distinct
  <2> QED
    BY <1>7, <2>1, <2>6, <2>7, Zenon DEF Distinct
<1>13. Kept'
  BY <1>1, <1>9, <1>10, Zenon DEF QueueInv, Kept
<1>14. Fits'
  BY <1>1, NoGas, Zenon DEF Fits
<1> QED
  BY <1>8, <1>11, <1>12, <1>13, <1>14, Zenon DEF QueueInv

\* QueueInv is inductive, given the types.
LEMMA QueueInvStep ==
  ASSUME QueueInv, HandlerType, ScalarType, nextBatchId \in Nat, [Next]_vars
  PROVE  QueueInv'
<1>1. QueueType /\ Hands /\ policy \in Policies
  BY Zenon DEF QueueInv, ScalarType
<1> QED
  BY <1>1, QueueSteps, StillInv, ClearedInv, RestartInv, ForcedArrivesInv, TxArrivesInv,
     TakeForcedInv, DeferInv, TakeNormalInv, SealInv, Zenon

-----------------------------------------------------------------------------
(* The batches that were sealed. *)

\* Only SealBatch adds a batch, and no step changes one.
LEMMA SealedSteps ==
  ASSUME [Next]_vars, QueueType, Hands
  PROVE  sealed' = sealed \/ SealBatch
<1>1. Still \/ Cleared \/ Restarted \/ ForcedArrives \/ TxArrives => sealed' = sealed
  BY Zenon DEF Still, Cleared, Restarted, ForcedArrives, TxArrives, queueVars
<1>2. TakeForced \/ DeferForced \/ TakeNormal \/ DeferNormal => sealed' = sealed
  BY Zenon DEF TakeForced, DeferForced, TakeNormal, DeferNormal, histVars
<1> QED
  BY <1>1, <1>2, QueueSteps, Zenon

\* What is true of every sealed batch stays so if it is true of the new one.
Good(p, w) ==
  /\ TotalGas(w) <= Config.max_gas_limit
  /\ p \in Grouping =>
       \A j, k \in DOMAIN w :
         j < k /\ w[j] \in Txs /\ w[k] \in Txs /\ Tx[w[j]].from = Tx[w[k]].from
           => Tx[w[j]].nonce <= Tx[w[k]].nonce

BatchesGood == \A i \in DOMAIN sealed : Good(policy, sealed[i].txs)

\* The batch that schedule makes is within the limit and, grouped, in nonce order.
LEMMA NewBatchGood ==
  ASSUME QueueInv, NEW o \in Seq(Txs), IsInjective(o), Range(o) = Range(takenNormal),
         policy \in Grouping => InNonceOrder(o)
  PROVE  Good(policy, takenForced \o o)
<1> DEFINE w == takenForced \o o
           v == takenForced \o takenNormal
           m == Len(takenForced)
<1>1. /\ takenForced \in Seq(Forced) /\ takenForced \in Seq(All) /\ takenNormal \in Seq(All)
      /\ IsInjective(takenForced) /\ IsInjective(takenNormal)
      /\ Range(takenForced) \cap Range(takenNormal) = {}
  BY QueueTypes, ForcedIsNotTx, Zenon DEF QueueInv, QueueType, Distinct
<1>2. o \in Seq(All)
  BY DEF All
<1>3. w \in Seq(All) /\ Range(w) = Range(takenForced) \cup Range(o) /\ IsInjective(w)
  BY <1>1, <1>2, Joined
<1>4. v \in Seq(All) /\ Range(v) = Range(takenForced) \cup Range(takenNormal) /\ IsInjective(v)
  BY <1>1, Joined
<1>5. TotalGas(w) = TotalGas(v)
  <2>1. Range(w) = Range(v)
    BY <1>3, <1>4, Zenon
  <2> HIDE DEF w, v
  <2>2. /\ TotalGas(w) = SumFunctionOnSet([t \in All |-> GasLimit(t)], Range(w))
        /\ TotalGas(v) = SumFunctionOnSet([t \in All |-> GasLimit(t)], Range(v))
    BY <1>3, <1>4, GasOfSet, Zenon
  <2> QED
    BY <2>1, <2>2, Zenon
<1>6. TotalGas(w) <= Config.max_gas_limit
  BY <1>5, Zenon DEF QueueInv, Fits
<1>7. ASSUME policy \in Grouping, NEW j \in DOMAIN w, NEW k \in DOMAIN w,
             j < k, w[j] \in Txs, w[k] \in Txs, Tx[w[j]].from = Tx[w[k]].from
      PROVE  Tx[w[j]].nonce <= Tx[w[k]].nonce
  <2>1. /\ m \in Nat /\ DOMAIN o = 1 .. Len(o) /\ \A i \in 1 .. m : takenForced[i] \in Forced
        /\ DOMAIN w = 1 .. m + Len(o)
        /\ \A i \in 1 .. m : w[i] = takenForced[i]
        /\ \A i \in 1 .. m + Len(o) : i \notin 1 .. m => i - m \in 1 .. Len(o) /\ w[i] = o[i - m]
    <3>1. m \in Nat /\ \A i \in 1 .. m : takenForced[i] \in Forced
      BY <1>1
    <3> QED
      BY <1>1, <1>2, <3>1, JoinedAt
  <2>2. w[j] \notin Forced /\ w[k] \notin Forced
    BY <1>7, ForcedIsNotTx, Zenon
  <2> HIDE DEF w, m
  <2>3. /\ j - m \in DOMAIN o /\ k - m \in DOMAIN o /\ w[j] = o[j - m] /\ w[k] = o[k - m]
    BY <1>7, <2>1, <2>2, Zenon
  <2>4. j - m < k - m
    <3>1. j \in Int /\ k \in Int
      BY <1>3
    <3> QED
      BY <1>7, <2>1, <3>1
  <2> QED
    BY <1>7, <2>3, <2>4, Zenon DEF InNonceOrder
<1> QED
  BY <1>6, <1>7, Zenon DEF Good

\* BatchesGood is inductive, given QueueInv.
LEMMA BatchesGoodStep ==
  ASSUME BatchesGood, QueueInv, [Next]_vars, policy \in Policies
  PROVE  BatchesGood'
<1>1. policy' = policy
  BY ScalarSteps, Zenon
<1>3. CASE sealed' = sealed
  BY <1>1, <1>3, Zenon DEF BatchesGood
<1>4. CASE SealBatch
  <2>1. PICK b, o : /\ sealed' = Append(sealed, b) /\ b.txs = takenForced \o o
                    /\ o \in Seq(Txs) /\ IsInjective(o) /\ Range(o) = Range(takenNormal)
                    /\ policy \in Grouping => InNonceOrder(o)
    BY <1>4, SealEffect, Zenon
  <2>2. Good(policy, b.txs)
    BY <2>1, NewBatchGood, Zenon
  <2>3. PICK n \in Nat : /\ DOMAIN sealed' = 1 .. n + 1 /\ DOMAIN sealed = 1 .. n
                         /\ sealed'[n + 1] = b /\ \A i \in 1 .. n : sealed'[i] = sealed[i]
                         /\ \A i \in 1 .. n + 1 : i \in 1 .. n \/ i = n + 1
    <3>1. PICK B : B = [id : Nat, txs : Seq(All)]
      BY Zenon
    <3>2. sealed \in Seq(B) /\ sealed \in Seq(B \cup {b}) /\ b \in B \cup {b}
      <4>1. sealed \in Seq(B)
        BY <3>1, Zenon DEF QueueInv, QueueType
      <4> QED
        BY <4>1
    <3> QED
      BY <2>1, <3>2, Extended
  <2>4. \A i \in 1 .. n : Good(policy, sealed[i].txs)
    BY <2>3, Zenon DEF BatchesGood
  <2>5. \A i \in DOMAIN sealed' : Good(policy, sealed'[i].txs)
    BY <2>2, <2>3, <2>4, Zenon
  <2> QED
    BY <1>1, <2>5, Zenon DEF BatchesGood
<1> QED
  BY <1>3, <1>4, SealedSteps, Zenon DEF QueueInv

-----------------------------------------------------------------------------
(* The whole invariant, and the theorems. *)

SeqInv == HandlerType /\ ScalarType /\ QueueInv /\ BatchesGood

\* SeqInv holds initially.
LEMMA SeqInit == ASSUME Init PROVE SeqInv
<1>1. PICK scenario \in Scenarios :
         AdmissionInit(scenario.requests) /\ policy = scenario.policy /\ crashesLeft = scenario.crashes
  BY Zenon DEF Init
<1>2. scenario.policy \in Policies /\ scenario.crashes \in Nat
  <2>1. scenario \in [policy : Policies, requests : SUBSET Txs, crashes : Nat]
    BY SequencerAssumption, Zenon
  <2> QED
    BY <2>1
<1>3. /\ emitted = Forced /\ forcedQueue = << >> /\ step = "down"
      /\ takenForced = << >> /\ takenNormal = << >> /\ deferred = << >> /\ limit = 0
      /\ expired = FALSE /\ nextBatchId = 1 /\ attempt = 0
      /\ sealed = << >> /\ received = {} /\ registryFailed = FALSE
  BY Zenon DEF Init
<1>4. /\ at = [t \in Txs |-> IF t \in scenario.requests THEN "check_nonce" ELSE "failed"]
      /\ balance = SeedBalance /\ nonce = [s \in Senders |-> 0]
      /\ pool = << >> /\ overlapped = {}
  BY <1>1, Zenon DEF AdmissionInit
<1>5. HandlerType
  <2>1. 0 \in Nat
    OBVIOUS
  <2> QED
    BY <1>4, <2>1, AdmissionAssumption, Zenon DEF HandlerType, Ended
<1>6. ScalarType
  <2>1. 0 \in 0 .. Config.max_batch_size /\ 0 \in 0 .. PublishAttempts
    <3>1. PublishAttempts \in Nat
      BY SequencerAssumption, Zenon
    <3> QED
      BY <3>1, ConfigTypes
  <2> QED
    BY <1>1, <1>2, <1>3, <2>1, Zenon DEF ScalarType
<1>7. /\ Range(<< >>) = {} /\ IsInjective(<< >>) /\ DOMAIN << >> = {}
      /\ << >> \in Seq(Forced) /\ << >> \in Seq(Txs) /\ << >> \in Seq(All)
      /\ << >> \in Seq([id : Nat, txs : Seq(All)])
  <2>1. DOMAIN << >> = {}
    OBVIOUS
  <2> QED
    BY <2>1, EmptyOutcome, Zenon
<1>8. QueueType /\ Hands /\ Distinct
  BY <1>3, <1>4, <1>7, Zenon DEF QueueType, Hands, Distinct, Steps
<1>9. Queued = {} /\ Picked = {} /\ Range(deferred) = {} /\ SealedTxs = {}
  BY <1>3, <1>4, <1>7, Zenon DEF Queued, Picked, SealedTxs
<1>10. Apart
  BY <1>9, Zenon DEF Apart, AllApart
<1>11. Kept
  BY <1>4, Zenon DEF Kept
<1>12. Fits
  BY <1>3, NoGas, Zenon DEF Fits
<1>13. BatchesGood
  BY <1>3, <1>7, Zenon DEF BatchesGood
<1> QED
  BY <1>5, <1>6, <1>8, <1>10, <1>11, <1>12, <1>13, Zenon DEF SeqInv, QueueInv

\* SeqInv is inductive, given IdInv.
LEMMA SeqStep == ASSUME SeqInv, IdInv, [Next]_vars PROVE SeqInv'
<1>1. HandlerType /\ ScalarType /\ QueueInv /\ BatchesGood
  BY Zenon DEF SeqInv
<1>2. nextBatchId \in Nat
  <2>1. nextBatchId \in Nat \ {0}
    BY Zenon DEF IdInv, IdType
  <2> QED
    BY <2>1
<1>3. Len(pool) \in Nat /\ Len(takenForced) \in Nat
  <2>1. pool \in Seq(Txs) /\ takenForced \in Seq(Forced)
    BY <1>1, Zenon DEF QueueInv, QueueType
  <2> QED
    BY <2>1
<1>4. policy \in Policies /\ AdmissionSteps
  BY <1>1, ScalarSteps, Zenon DEF ScalarType
<1> QED
  BY <1>1, <1>2, <1>3, <1>4, HandlerTypeStep, ScalarTypeStep, QueueInvStep, BatchesGoodStep, Zenon
     DEF SeqInv

\* SeqInv holds of every behaviour.
LEMMA SeqInvariant == Spec => []SeqInv
<1>1. Init => SeqInv
  BY SeqInit
<1>2. SeqInv /\ IdInv /\ [Next]_vars => SeqInv'
  BY SeqStep
<1> QED
  BY <1>1, <1>2, IdInvariant, PTL DEF Spec

\* The list of places: five of the process, then the sealed batches.
LEMMA PlacesAt ==
  ASSUME QueueType, NEW n, n = Len(sealed)
  PROVE  /\ n \in Nat /\ DOMAIN sealed = 1 .. n /\ DOMAIN Places = 1 .. 5 + n
         /\ Places[1] = forcedQueue /\ Places[2] = pool /\ Places[3] = deferred
         /\ Places[4] = takenForced /\ Places[5] = takenNormal
         /\ \A p \in 1 .. 5 + n :
              p \in {1, 2, 3, 4, 5} \/ (p - 5 \in 1 .. n /\ Places[p] = sealed[p - 5].txs)
         /\ \A i \in 1 .. n : i + 5 \in 1 .. 5 + n /\ Places[i + 5] = sealed[i].txs
         /\ \A p \in {1, 2, 3, 4, 5} : p \in 1 .. 5 + n
<1> DEFINE a == <<forcedQueue, pool, deferred, takenForced, takenNormal>>
           b == [i \in DOMAIN sealed |-> sealed[i].txs]
<1>1. sealed \in Seq([id : Nat, txs : Seq(All)])
  BY Zenon DEF QueueType
<1>2. n \in Nat /\ DOMAIN sealed = 1 .. n
  BY <1>1
<1>3. PICK U : U = {forcedQueue, pool, deferred, takenForced, takenNormal}
                     \cup {sealed[i].txs : i \in 1 .. n}
  BY Zenon
<1>4. a \in Seq(U) /\ Len(a) = 5 /\ a[1] = forcedQueue /\ a[2] = pool /\ a[3] = deferred
      /\ a[4] = takenForced /\ a[5] = takenNormal
  <2>1. forcedQueue \in U /\ pool \in U /\ deferred \in U /\ takenForced \in U /\ takenNormal \in U
    BY <1>3, Zenon
  <2> QED
    BY <2>1
<1>5. b \in Seq(U) /\ Len(b) = n /\ \A i \in 1 .. n : b[i] = sealed[i].txs
  <2>1. \A i \in 1 .. n : sealed[i].txs \in U
    BY <1>3, Zenon
  <2>2. b = [i \in 1 .. n |-> sealed[i].txs]
    BY <1>2, Zenon
  <2>3. b \in [1 .. n -> U] /\ DOMAIN b = 1 .. n
    BY <2>1, <2>2, Zenon
  <2>4. \A i \in 1 .. n : b[i] = sealed[i].txs
    BY <2>2, Zenon
  <2> HIDE DEF b
  <2> QED
    BY <1>2, <2>3, <2>4
<1>6. Places = a \o b
  BY Zenon DEF Places
<1> HIDE DEF a, b
<1>7. /\ DOMAIN (a \o b) = 1 .. 5 + n
      /\ \A i \in 1 .. 5 : (a \o b)[i] = a[i]
      /\ \A i \in 1 .. 5 + n : i \notin 1 .. 5 => i - 5 \in 1 .. n /\ (a \o b)[i] = b[i - 5]
      /\ \A i \in 1 .. n : i + 5 \in 1 .. 5 + n /\ (a \o b)[i + 5] = b[i]
      /\ 1 .. 5 \subseteq 1 .. 5 + n
  <2>1. PICK m : m = 5
    BY Zenon
  <2>2. m = Len(a) /\ n = Len(b) /\ a \in Seq(U) /\ b \in Seq(U)
    BY <1>4, <1>5, <2>1, Zenon
  <2>3. /\ DOMAIN (a \o b) = 1 .. m + n
        /\ \A i \in 1 .. m : (a \o b)[i] = a[i]
        /\ \A i \in 1 .. m + n : i \notin 1 .. m => i - m \in 1 .. n /\ (a \o b)[i] = b[i - m]
        /\ \A i \in 1 .. n : i + m \in 1 .. m + n /\ (a \o b)[i + m] = b[i]
        /\ 1 .. m \subseteq 1 .. m + n
    BY <2>2, JoinedAt, SMTT(30)
  <2> QED
    BY <2>1, <2>3, Zenon
<1>8. 1 .. 5 = {1, 2, 3, 4, 5}
  OBVIOUS
<1>9. /\ Places[1] = forcedQueue /\ Places[2] = pool /\ Places[3] = deferred
      /\ Places[4] = takenForced /\ Places[5] = takenNormal
  BY <1>4, <1>6, <1>7, <1>8, Zenon
<1> QED
  BY <1>2, <1>5, <1>6, <1>7, <1>8, <1>9, Zenon

\* What is queued, to be put back, in hand or sealed is held.
LEMMA HeldIs ==
  ASSUME QueueType
  PROVE  Queued \cup Range(deferred) \cup Picked \cup SealedTxs \subseteq Held
<1>1. PICK n : n = Len(sealed)
  BY Zenon
<1>2. /\ Range(forcedQueue) \subseteq Held /\ Range(pool) \subseteq Held
      /\ Range(deferred) \subseteq Held
      /\ Range(takenForced) \subseteq Held /\ Range(takenNormal) \subseteq Held
  BY <1>1, PlacesAt, Zenon DEF Held
<1>3. ASSUME NEW t \in SealedTxs PROVE t \in Held
  <2>1. PICK i \in 1 .. n : t \in Range(sealed[i].txs)
    BY <1>1, <1>3, PlacesAt, Zenon DEF SealedTxs
  <2>2. i + 5 \in DOMAIN Places /\ t \in Range(Places[i + 5])
    BY <1>1, <2>1, PlacesAt, Zenon
  <2> QED
    BY <2>2, Zenon DEF Held
<1> QED
  BY <1>2, <1>3, Zenon DEF Queued, Picked

\* No transaction is at two places.
LEMMA PlacesDisjoint ==
  ASSUME QueueInv, NEW p \in DOMAIN Places, NEW q \in DOMAIN Places, p # q
  PROVE  Range(Places[p]) \cap Range(Places[q]) = {}
<1>1. PICK n : n = Len(sealed)
  BY Zenon
<1>2. QueueType
  BY Zenon DEF QueueInv
<1> DEFINE F == {1, 2, 3, 4, 5}
           X(r) == Range(Places[r])
<1>3. /\ X(1) \cap X(2) = {} /\ X(1) \cap X(3) = {} /\ X(1) \cap X(4) = {} /\ X(1) \cap X(5) = {}
      /\ X(2) \cap X(3) = {} /\ X(2) \cap X(4) = {} /\ X(2) \cap X(5) = {}
      /\ X(3) \cap X(4) = {} /\ X(3) \cap X(5) = {} /\ X(4) \cap X(5) = {}
  <2>1. AllApart(Coming, Queued, Range(deferred), Picked, SealedTxs)
    BY Zenon DEF QueueInv, Apart
  <2>2. /\ Queued \cap Range(deferred) = {} /\ Queued \cap Picked = {}
        /\ Range(deferred) \cap Picked = {}
    BY <2>1, Zenon DEF AllApart
  <2>3. /\ Range(forcedQueue) \cap Range(pool) = {}
        /\ Range(takenForced) \cap Range(takenNormal) = {}
    BY <1>2, QueueTypes, ForcedIsNotTx, Zenon
  <2>4. /\ X(1) = Range(forcedQueue) /\ X(2) = Range(pool) /\ X(3) = Range(deferred)
        /\ X(4) = Range(takenForced) /\ X(5) = Range(takenNormal)
    BY <1>1, <1>2, PlacesAt, Zenon
  <2>5. /\ X(1) \subseteq Queued /\ X(2) \subseteq Queued
        /\ X(4) \subseteq Picked /\ X(5) \subseteq Picked
    BY <2>4, Zenon DEF Queued, Picked
  <2> HIDE DEF X
  <2>6. X(1) \cap X(2) = {} /\ X(4) \cap X(5) = {}
    BY <2>3, <2>4, Zenon
  <2>7. X(1) \cap X(3) = {} /\ X(2) \cap X(3) = {}
    BY <2>2, <2>4, <2>5, Zenon
  <2>8. X(3) \cap X(4) = {} /\ X(3) \cap X(5) = {}
    BY <2>2, <2>4, <2>5, Zenon
  <2>9. /\ X(1) \cap X(4) = {} /\ X(1) \cap X(5) = {} /\ X(2) \cap X(4) = {} /\ X(2) \cap X(5) = {}
    BY <2>2, <2>5, Zenon
  <2> QED
    BY <2>6, <2>7, <2>8, <2>9, Zenon
<1>4. \A r \in F : X(r) \cap SealedTxs = {}
  <2>1. /\ Queued \cap SealedTxs = {} /\ Range(deferred) \cap SealedTxs = {}
        /\ Picked \cap SealedTxs = {}
    BY Zenon DEF QueueInv, Apart, AllApart
  <2>2. /\ X(1) \subseteq Queued /\ X(2) \subseteq Queued /\ X(3) = Range(deferred)
        /\ X(4) \subseteq Picked /\ X(5) \subseteq Picked
    BY <1>1, <1>2, PlacesAt, Zenon DEF Queued, Picked
  <2> HIDE DEF X
  <2>3. /\ X(1) \cap SealedTxs = {} /\ X(2) \cap SealedTxs = {} /\ X(3) \cap SealedTxs = {}
        /\ X(4) \cap SealedTxs = {} /\ X(5) \cap SealedTxs = {}
    BY <2>1, <2>2, Zenon
  <2> QED
    BY <2>3, Zenon
<1>5. \A r \in DOMAIN Places : r \in F \/ (r - 5 \in DOMAIN sealed /\ Places[r] = sealed[r - 5].txs)
  BY <1>1, <1>2, PlacesAt, Zenon
<1>6. \A r \in DOMAIN Places : r \notin F => X(r) \subseteq SealedTxs
  BY <1>5, Zenon DEF SealedTxs
<1>7. CASE p \in F /\ q \in F
  <2> HIDE DEF X
  <2>1. X(p) \cap X(q) = {}
    <3>1. CASE p = 1
      BY <1>3, <1>7, <3>1, Zenon
    <3>2. CASE p = 2
      BY <1>3, <1>7, <3>2, Zenon
    <3>3. CASE p = 3
      BY <1>3, <1>7, <3>3, Zenon
    <3>4. CASE p = 4
      BY <1>3, <1>7, <3>4, Zenon
    <3>5. CASE p = 5
      BY <1>3, <1>7, <3>5, Zenon
    <3> QED
      BY <1>7, <3>1, <3>2, <3>3, <3>4, <3>5, Zenon
  <2> QED
    BY <2>1, Zenon DEF X
<1>8. CASE p \notin F /\ q \notin F
  <2>1. p - 5 # q - 5
    <3>1. p \in Int /\ q \in Int
      <4>1. n \in Nat /\ DOMAIN Places = 1 .. 5 + n
        BY <1>1, <1>2, PlacesAt, Zenon
      <4>2. p \in 1 .. 5 + n /\ q \in 1 .. 5 + n
        BY <4>1, Zenon
      <4> QED
        BY <4>1, <4>2
    <3> QED
      BY <3>1
  <2>2. /\ p - 5 \in DOMAIN sealed /\ Places[p] = sealed[p - 5].txs
        /\ q - 5 \in DOMAIN sealed /\ Places[q] = sealed[q - 5].txs
    BY <1>5, <1>8, Zenon
  <2> QED
    BY <2>1, <2>2, Zenon DEF QueueInv, Distinct
<1>9. CASE p \in F /\ q \notin F
  BY <1>4, <1>6, <1>9, Zenon
<1>10. CASE p \notin F /\ q \in F
  BY <1>4, <1>6, <1>10, Zenon
<1> QED
  BY <1>7, <1>8, <1>9, <1>10, Zenon

\* No transaction is twice at one place.
LEMMA PlacesInjective ==
  ASSUME QueueInv, NEW p \in DOMAIN Places
  PROVE  IsInjective(Places[p])
<1>1. PICK n : n = Len(sealed)
  BY Zenon
<1>2. QueueType /\ Distinct
  BY Zenon DEF QueueInv
<1>3. p \in {1, 2, 3, 4, 5} \/ (p - 5 \in DOMAIN sealed /\ Places[p] = sealed[p - 5].txs)
  BY <1>1, <1>2, PlacesAt, Zenon
<1>4. /\ IsInjective(Places[1]) /\ IsInjective(Places[2]) /\ IsInjective(Places[3])
      /\ IsInjective(Places[4]) /\ IsInjective(Places[5])
  BY <1>1, <1>2, PlacesAt, Zenon DEF Distinct
<1> QED
  BY <1>2, <1>3, <1>4, Zenon DEF Distinct

\* Type correctness of the sequencer: in particular the adaptive size, less the forced
\* transactions taken, stays a count between 0 and max_batch_size (orchestrator.rs:299).
THEOREM TypeCorrect == Spec => []TypeOK
<1>1. SeqInv /\ IdInv => TypeOK
  <2> SUFFICES ASSUME SeqInv, IdInv PROVE TypeOK
    OBVIOUS
  <2>1. HandlerType /\ ScalarType /\ QueueType /\ IdType
    BY Zenon DEF SeqInv, QueueInv, IdInv
  <2>2. AdmissionTypeOK
    BY <2>1, Zenon DEF HandlerType, QueueType, AdmissionTypeOK
  <2> QED
    BY <2>1, <2>2, Zenon DEF ScalarType, QueueType, IdType, TypeOK, All
<1> QED
  BY <1>1, SeqInvariant, IdInvariant, PTL

\* No transaction the sequencer accepted is lost by the lock-by-lock moves between pool,
\* hands, deferral and batch (orchestrator.rs:277 to 327), for every policy and load.
THEOREM NoAcceptedIsLost == Spec => []AcceptedIsHeld
<1>1. SeqInv => AcceptedIsHeld
  <2> SUFFICES ASSUME SeqInv PROVE AcceptedIsHeld
    OBVIOUS
  <2>1. QueueType /\ Kept
    BY Zenon DEF SeqInv, QueueInv
  <2> QED
    BY <2>1, HeldIs, Zenon DEF Kept, AcceptedIsHeld
<1> QED
  BY <1>1, SeqInvariant, PTL

\* No transaction is at two places of the sequencer or twice at one, batches included,
\* across deferrals, concurrent arrivals and restarts (orchestrator.rs:277 to 327).
THEOREM NothingIsBatchedTwice == Spec => []BatchedOnce
<1>1. SeqInv => BatchedOnce
  <2> SUFFICES ASSUME SeqInv,
                      NEW p \in DOMAIN Places, NEW q \in DOMAIN Places,
                      NEW i \in DOMAIN Places[p], NEW j \in DOMAIN Places[q],
                      Places[p][i] = Places[q][j]
               PROVE  p = q /\ i = j
    BY Zenon DEF BatchedOnce
  <2>1. QueueInv
    BY Zenon DEF SeqInv
  <2>2. p = q
    <3>1. Places[p][i] \in Range(Places[p]) /\ Places[p][i] \in Range(Places[q])
      BY Zenon DEF Range
    <3> QED
      BY <2>1, <3>1, PlacesDisjoint, Zenon
  <2>3. IsInjective(Places[p])
    BY <2>1, PlacesInjective, Zenon
  <2> QED
    BY <2>2, <2>3, Zenon DEF IsInjective
<1> QED
  BY <1>1, SeqInvariant, PTL

\* can_add_transaction (orchestrator.rs:283, 315) keeps every batch within max_gas_limit,
\* whatever the scheduler then does to the order.
THEOREM BatchesWithinGasLimit == Spec => []WithinGasLimit
<1>1. SeqInv => WithinGasLimit
  BY Zenon DEF SeqInv, BatchesGood, Good, WithinGasLimit
<1> QED
  BY <1>1, SeqInvariant, PTL

\* The grouping by sender of policies.rs keeps each sender's nonces in order within a
\* batch, for any fees, boosts, sizes and times.
THEOREM NoncesInOrder == Spec => []NonceOrderInBatch
<1>1. SeqInv => NonceOrderInBatch
  <2> SUFFICES ASSUME SeqInv, policy \in Grouping,
                      NEW i \in DOMAIN sealed,
                      NEW j \in DOMAIN sealed[i].txs, NEW k \in DOMAIN sealed[i].txs,
                      j < k, {sealed[i].txs[j], sealed[i].txs[k]} \subseteq Txs,
                      Tx[sealed[i].txs[j]].from = Tx[sealed[i].txs[k]].from
               PROVE  Tx[sealed[i].txs[j]].nonce <= Tx[sealed[i].txs[k]].nonce
    BY Zenon DEF NonceOrderInBatch, Grouping
  <2>1. Good(policy, sealed[i].txs)
    BY Zenon DEF SeqInv, BatchesGood
  <2>2. sealed[i].txs[j] \in Txs /\ sealed[i].txs[k] \in Txs
    BY Zenon
  <2> QED
    BY <2>1, <2>2, Zenon DEF Good
<1> QED
  BY <1>1, SeqInvariant, PTL

\* The validator and the pessimistic deduction (api/server.rs:281, state/cache.rs:171): a
\* sender whose handlers never overlapped is admitted no more than it can pay for, and no
\* nonce twice, for any amounts, any number of requests and any disconnects.
THEOREM AdmissionIsCovered == Spec => []SerialAdmissionIsCovered
<1>1. Init => AdmissionInv
  <2> SUFFICES ASSUME Init PROVE AdmissionInv
    OBVIOUS
  <2>1. PICK scenario \in Scenarios : AdmissionInit(scenario.requests)
    BY Zenon DEF Init
  <2>2. /\ \A t \in Txs : at[t] \in {"check_nonce", "failed"}
        /\ \A s \in Senders : balance[s] = SeedBalance[s] /\ nonce[s] = 0
    BY <2>1, Zenon DEF AdmissionInit
  <2> QED
    BY <2>2, SerialStart, Zenon DEF AdmissionInv
<1>2. AdmissionInv /\ SeqInv /\ [Next]_vars => AdmissionInv'
  BY AdmissionStep, ScalarSteps, Zenon DEF SeqInv
<1>3. AdmissionInv => SerialAdmissionIsCovered
  <2>1. \A s : Charged(s) = ChargedAt(s, at)
    BY Zenon DEF Charged, ChargedAt
  <2> QED
    BY <2>1, Zenon DEF AdmissionInv, Serial, OwnNonce, Covered, SerialAdmissionIsCovered
<1> QED
  BY <1>1, <1>2, <1>3, SeqInvariant, PTL DEF Spec
=============================================================================
