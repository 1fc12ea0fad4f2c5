------------------------------ MODULE Sequencer ------------------------------
(***************************************************************************)
(* The sequencer process: the API handlers of Admission, the L1 listener   *)
(* and its forced queue (l1/listener.rs, pool/forced_queue.rs), and the    *)
(* batch orchestrator with its trigger, engine, scheduler and registry     *)
(* (batch/, scheduler/, registry/database.rs).                             *)
(*                                                                         *)
(* The orchestrator is one task; step is the next point at which it takes  *)
(* a lock, writes the registry or calls the executor, and the handlers and *)
(* the listener run between those points.  Only the registry survives a    *)
(* crash.  The executor is external: a batch arrives there or not, and the *)
(* call is answered or not.                                                *)
(***************************************************************************)
EXTENDS Admission, Scheduler

CONSTANTS
  Forced,           \* deposits and forced exits the bridge emits
  ForcedGas, ForcedBytes,   \* the gas limit the listener gives each, its encoded size
  Config,           \* BatchConfig
  Scenarios,        \* bound: the combinations of policy, requests and crashes
  PublishAttempts   \* SEQUENCER_EXECUTOR_PUBLISH_RETRIES

ConfigFields == [max_batch_size : Nat, max_gas_limit : Nat, blob_target_bytes : Nat,
                 adaptive : BOOLEAN, low_load : Nat, medium_load : Nat,
                 small_batch : Nat, medium_batch : Nat, large_batch : Nat,
                 blob_mode : BOOLEAN, fill_bytes : Nat]

ASSUME SequencerAssumption ==
  /\ Forced \cap Txs = {}
  /\ {ForcedGas, ForcedBytes, PublishAttempts} \subseteq Nat
  /\ PublishAttempts > 0
  /\ Config \in ConfigFields
  /\ Scenarios \subseteq [policy : Policies, requests : SUBSET Txs, crashes : Nat]

VARIABLES
  policy,       \* the configured scheduling policy
  emitted,      \* forced events the bridge has still to emit
  forcedQueue,
  step,         \* of the orchestrator
  takenForced, takenNormal,  \* accepted for the batch in production
  deferred,     \* taken from a queue and still to be put back
  limit,        \* max_normal_txs
  expired,      \* the batch timeout has passed since last_batch_time
  nextBatchId,
  attempt,
  registry,     \* durable: batch ids in the batches table
  \* history
  sealed,       \* every batch sealed
  arrived,      \* those that reached the executor, by position in sealed
  received,     \* forced transactions queued since the last start
  registryFailed,  \* a registry read or write has failed
  crashesLeft

batchVars == <<takenForced, takenNormal, deferred, limit>>
histVars == <<sealed, arrived, received, registryFailed, crashesLeft>>
orchestratorVars == <<step, batchVars, expired, nextBatchId, attempt>>
vars == <<admissionVars, policy, emitted, forcedQueue, orchestratorVars, registry, histVars>>

Steps == {"down", "idle", "defer_forced", "take_normal", "defer_normal", "store", "metrics",
          "publish"}

TypeOK ==
  /\ AdmissionTypeOK
  /\ policy \in Policies
  /\ emitted \in SUBSET Forced /\ received \in SUBSET Forced
  /\ forcedQueue \in Seq(Forced)
  /\ step \in Steps
  /\ takenForced \in Seq(Forced) /\ takenNormal \in Seq(Txs)
  /\ deferred \in Seq(Forced \cup Txs)
  /\ limit \in 0 .. Config.max_batch_size
  /\ expired \in BOOLEAN /\ registryFailed \in BOOLEAN
  /\ nextBatchId \in Nat \ {0}
  /\ attempt \in 0 .. PublishAttempts
  /\ registry \in SUBSET Nat
  /\ sealed \in Seq([id : Nat, txs : Seq(Forced \cup Txs)])
  /\ arrived \in SUBSET (1 .. Len(sealed))
  /\ crashesLeft \in Nat

Init ==
  /\ \E scenario \in Scenarios :
       /\ AdmissionInit(scenario.requests)
       /\ policy = scenario.policy
       /\ crashesLeft = scenario.crashes
  /\ emitted = Forced /\ forcedQueue = << >>
  /\ step = "down"
  /\ takenForced = << >> /\ takenNormal = << >> /\ deferred = << >> /\ limit = 0
  /\ expired = FALSE /\ nextBatchId = 1 /\ attempt = 0
  /\ registry = {}
  /\ sealed = << >> /\ arrived = {} /\ received = {} /\ registryFailed = FALSE

-----------------------------------------------------------------------------
(* Start and crash. *)

\* As if the largest stored id were handed out again.
LatestBatchId == IF registry = {} THEN 1 ELSE Max(registry)

GetNextBatchId == IF registry = {} THEN 1 ELSE Max(registry) + 1

Start ==
  /\ step = "down"
  /\ step' = "idle" /\ nextBatchId' = GetNextBatchId
  /\ UNCHANGED <<admissionVars, policy, emitted, forcedQueue, batchVars, expired, attempt,
                 registry, histVars>>

\* The registry cannot be read: the ids start from 1 again.
StartUnrecovered ==
  /\ step = "down"
  /\ step' = "idle" /\ nextBatchId' = 1 /\ registryFailed' = TRUE
  /\ UNCHANGED <<admissionVars, policy, emitted, forcedQueue, batchVars, expired, attempt,
                 registry, sealed, arrived, received, crashesLeft>>

Crash ==
  /\ step # "down" /\ crashesLeft > 0
  /\ AdmissionCrash
  /\ forcedQueue' = << >> /\ received' = {}
  /\ step' = "down"
  /\ takenForced' = << >> /\ takenNormal' = << >> /\ deferred' = << >> /\ limit' = 0
  /\ expired' = FALSE /\ attempt' = 0 /\ nextBatchId' = 1
  /\ crashesLeft' = crashesLeft - 1
  /\ UNCHANGED <<policy, emitted, registry, sealed, arrived, registryFailed>>

-----------------------------------------------------------------------------
(* The API handlers and the L1 listener. *)

ApiStep(t) ==
  /\ step # "down"
  /\ Handle(t)
  /\ UNCHANGED <<policy, emitted, forcedQueue, orchestratorVars, registry, histVars>>

\* handle_deposit_event and handle_forced_exit_event.  The two event streams are not
\* ordered with each other, and an event emitted while the listener is not subscribed is
\* never taken: a new subscription starts at the chain's head.  The sequencer treats all
\* forced transactions alike, so which one comes next is a matter of naming.
L1Event ==
  LET f == CHOOSE e \in emitted : TRUE
  IN /\ step # "down" /\ emitted # {}
     /\ emitted' = emitted \ {f}
     /\ forcedQueue' = Append(forcedQueue, f)
     /\ received' = received \cup {f}
     /\ UNCHANGED <<admissionVars, policy, orchestratorVars, registry, sealed, arrived,
                    registryFailed, crashesLeft>>

-----------------------------------------------------------------------------
(* The orchestrator. *)

TargetBatchSize(depth) ==
  LET chosen == CASE ~Config.adaptive -> Config.max_batch_size
                  [] Config.adaptive /\ depth < Config.low_load -> Config.small_batch
                  [] Config.adaptive /\ depth >= Config.low_load
                       /\ depth <= Config.medium_load -> Config.medium_batch
                  [] OTHER -> Config.large_batch
  IN Min({chosen, Config.max_batch_size})

\* As if a pool below min_batch_size were left waiting when the timeout passes.
ShouldSealFull ==
  forcedQueue # << >> \/ Len(pool) >= TargetBatchSize(Len(pool))

\* What holds here still holds when the queues are read: only the orchestrator takes.
ShouldSeal ==
  \/ forcedQueue # << >>
  \/ Len(pool) >= TargetBatchSize(Len(pool))
  \/ Config.blob_mode /\ pool # << >> /\ TotalBytes(Range(pool)) >= Config.fill_bytes
  \/ expired /\ pool # << >>

\* timeout_for_depth milliseconds since last_batch_time; how many is left open.
Expire ==
  /\ step = "idle" /\ ~expired
  /\ expired' = TRUE
  /\ UNCHANGED <<admissionVars, policy, emitted, forcedQueue, step, batchVars, nextBatchId,
                 attempt, registry, histVars>>

GasLimit(t) == IF t \in Forced THEN ForcedGas ELSE Tx[t].gas

TotalGas(s) == SumFunction([i \in DOMAIN s |-> GasLimit(s[i])])

\* As if the gas of what is already in the batch were left out.
CanAddAlone(current, t) == GasLimit(t) <= Config.max_gas_limit

CanAddTransaction(current, t) == TotalGas(current) + GasLimit(t) <= Config.max_gas_limit

\* The transactions of s that fit behind those in current, in order.
Accepted(current, s) ==
  LET kept[n \in 0 .. Len(s)] ==
        IF n = 0 THEN << >>
        ELSE LET before == kept[n - 1]
             IN IF CanAddTransaction(current \o before, s[n]) THEN Append(before, s[n]) ELSE before
  IN kept[Len(s)]

\* The transactions of s that are in S, in order.
Only(s, S) ==
  LET kept[n \in 0 .. Len(s)] ==
        IF n = 0 THEN << >>
        ELSE IF s[n] \in S THEN Append(kept[n - 1], s[n]) ELSE kept[n - 1]
  IN kept[Len(s)]

Without(s, S) == Only(s, Range(s) \ S)

TakeForced ==
  /\ step = "idle" /\ ShouldSeal
  /\ takenForced' = Accepted(<< >>, forcedQueue)
  /\ deferred' = Without(forcedQueue, Range(takenForced'))
  /\ forcedQueue' = << >>
  /\ step' = "defer_forced"
  /\ UNCHANGED <<admissionVars, policy, emitted, takenNormal, limit, expired, nextBatchId,
                 attempt, registry, histVars>>

DeferForced ==
  /\ step = "defer_forced" /\ deferred # << >>
  /\ forcedQueue' = Append(forcedQueue, Head(deferred))
  /\ deferred' = Tail(deferred)
  /\ UNCHANGED <<admissionVars, policy, emitted, step, takenForced, takenNormal, limit, expired,
                 nextBatchId, attempt, registry, histVars>>

MaxNormal(depth) == Max({TargetBatchSize(depth) - Len(takenForced), 0})

CountPool ==
  /\ step = "defer_forced" /\ deferred = << >>
  /\ limit' = MaxNormal(Len(pool))
  /\ step' = "take_normal"
  /\ UNCHANGED <<admissionVars, policy, emitted, forcedQueue, takenForced, takenNormal, deferred,
                 expired, nextBatchId, attempt, registry, histVars>>

BlobBytesLeft == Max({Config.blob_target_bytes - Len(takenForced) * ForcedBytes, 0})

\* As if get_pending copied from the pool.
PoolUntouched(taken) == pool

RestOfPool(taken) == Without(pool, taken)

TakeNormal ==
  LET taken == TakeFromPool(policy, pool, limit, BlobBytesLeft)
      candidates == Only(pool, taken)
  IN /\ step = "take_normal"
     /\ takenNormal' = Accepted(takenForced, candidates)
     /\ deferred' = Without(candidates, Range(takenNormal'))
     /\ pool' = RestOfPool(taken)
     /\ step' = "defer_normal"
     /\ UNCHANGED <<at, balance, nonce, overlapped, policy, emitted, forcedQueue, takenForced,
                    limit, expired, nextBatchId, attempt, registry, histVars>>

\* As if the transactions that exceed the gas limit were not put back.
DeferNever ==
  /\ step = "defer_normal" /\ deferred # << >>
  /\ deferred' = << >>
  /\ UNCHANGED <<admissionVars, policy, emitted, forcedQueue, step, takenForced, takenNormal,
                 limit, expired, nextBatchId, attempt, registry, histVars>>

\* Back to the end of the pool, behind what the API added meanwhile.
DeferNormal ==
  /\ step = "defer_normal" /\ deferred # << >>
  /\ pool' = Append(pool, Head(deferred))
  /\ deferred' = Tail(deferred)
  /\ UNCHANGED <<at, balance, nonce, overlapped, policy, emitted, forcedQueue, step, takenForced,
                 takenNormal, limit, expired, nextBatchId, attempt, registry, histVars>>

Taken == takenForced \o takenNormal

\* Nothing fitted: no batch, and last_batch_time stays.
SealNothing ==
  /\ step = "defer_normal" /\ deferred = << >> /\ Taken = << >>
  /\ step' = "idle" /\ limit' = 0
  /\ UNCHANGED <<admissionVars, policy, emitted, forcedQueue, takenForced, takenNormal, deferred,
                 expired, nextBatchId, attempt, registry, histVars>>

Schedule(forced, normal) == {forced \o o : o \in OrderTransactions(policy, normal)}

\* schedule, create_batch.
SealBatch ==
  /\ step = "defer_normal" /\ deferred = << >> /\ Taken # << >>
  /\ \E txs \in Schedule(takenForced, takenNormal) :
       sealed' = Append(sealed, [id |-> nextBatchId, txs |-> txs])
  /\ nextBatchId' = nextBatchId + 1
  /\ takenForced' = << >> /\ takenNormal' = << >> /\ limit' = 0
  /\ step' = "store"
  /\ UNCHANGED <<admissionVars, policy, emitted, forcedQueue, deferred, expired, attempt,
                 registry, arrived, received, registryFailed, crashesLeft>>

Current == sealed[Len(sealed)]

Store ==
  /\ step = "store" /\ Current.id \notin registry
  /\ registry' = registry \cup {Current.id}
  /\ step' = "metrics"
  /\ UNCHANGED <<admissionVars, policy, emitted, forcedQueue, batchVars, expired, nextBatchId,
                 attempt, histVars>>

\* The id is the primary key; the error is logged and the batch published all the same.
StoreDuplicate ==
  /\ step = "store" /\ Current.id \in registry
  /\ step' = "metrics"
  /\ UNCHANGED <<admissionVars, policy, emitted, forcedQueue, batchVars, expired, nextBatchId,
                 attempt, registry, histVars>>

\* The insert fails for another reason, which is logged as well.
StoreFails ==
  /\ step = "store"
  /\ registryFailed' = TRUE
  /\ step' = "metrics"
  /\ UNCHANGED <<admissionVars, policy, emitted, forcedQueue, batchVars, expired, nextBatchId,
                 attempt, registry, sealed, arrived, received, crashesLeft>>

\* The metrics row and the timer.  forced_queue_depth is the length of get_all(), which
\* empties the queue.
AppendMetrics ==
  /\ step = "metrics"
  /\ forcedQueue' = << >>
  /\ expired' = FALSE /\ attempt' = 1
  /\ step' = "publish"
  /\ UNCHANGED <<admissionVars, policy, emitted, batchVars, nextBatchId, registry, histVars>>

\* The executor answers the call.
PublishAnswered ==
  /\ step = "publish"
  /\ arrived' = arrived \cup {Len(sealed)}
  /\ step' = "idle" /\ attempt' = 0
  /\ UNCHANGED <<admissionVars, policy, emitted, forcedQueue, batchVars, expired, nextBatchId,
                 registry, sealed, received, registryFailed, crashesLeft>>

\* As if the attempts were counted from zero.
NextAttemptOneMore ==
  IF attempt <= PublishAttempts THEN step' = step /\ attempt' = attempt + 1
  ELSE step' = "idle" /\ attempt' = 0

\* The next attempt after a pause, or the batch is given up with an error in the log.
NextAttempt ==
  IF attempt < PublishAttempts THEN step' = step /\ attempt' = attempt + 1
  ELSE step' = "idle" /\ attempt' = 0

\* The call fails or times out, and the batch may have arrived all the same.
PublishFails ==
  /\ step = "publish"
  /\ arrived' \in {arrived, arrived \cup {Len(sealed)}}
  /\ NextAttempt
  /\ UNCHANGED <<admissionVars, policy, emitted, forcedQueue, batchVars, expired, nextBatchId,
                 registry, sealed, received, registryFailed, crashesLeft>>

Orchestrate ==
  \/ TakeForced \/ DeferForced \/ CountPool \/ TakeNormal \/ DeferNormal
  \/ SealNothing \/ SealBatch \/ Store \/ StoreDuplicate \/ StoreFails \/ AppendMetrics
  \/ PublishAnswered \/ PublishFails

Next ==
  \/ Start \/ StartUnrecovered \/ Crash \/ Expire \/ Orchestrate
  \/ L1Event \/ \E t \in Txs : ApiStep(t)

Spec == Init /\ [][Next]_vars

\* The orchestrator's task is scheduled, its calls end or time out, and time passes.
FairSpec == Spec /\ WF_vars(Orchestrate) /\ WF_vars(Expire)

-----------------------------------------------------------------------------
(* Properties. *)

SealedTxs == UNION {Range(sealed[i].txs) : i \in DOMAIN sealed}

\* Where the sequencer keeps transactions: its queues, its hands and the batches.
Places ==
  <<forcedQueue, pool, deferred, takenForced, takenNormal>> \o [i \in DOMAIN sealed |-> sealed[i].txs]

Held == UNION {Range(Places[p]) : p \in DOMAIN Places}

\* get_all, get_pending and the deferrals (orchestrator.rs:277 to 327): a transaction that
\* was accepted is, until a crash, in the pool, in the orchestrator's hands or in a batch.
AcceptedIsHeld == \A t \in Txs : at[t] = "accepted" => t \in Held

\* The same code: nothing is in two queues or in two batches, however often it was
\* deferred and whenever the process restarted.
BatchedOnce ==
  \A p, q \in DOMAIN Places : \A i \in DOMAIN Places[p], j \in DOMAIN Places[q] :
    Places[p][i] = Places[q][j] => <<p, i>> = <<q, j>>

\* can_add_transaction (orchestrator.rs:283, 315): no batch exceeds the gas limit, forced
\* and normal transactions together.
WithinGasLimit == \A i \in DOMAIN sealed : TotalGas(sealed[i].txs) <= Config.max_gas_limit

\* The grouping by sender in policies.rs: under the policies that reorder by fee, boost or
\* size, a sender's transactions are in nonce order within a batch.
NonceOrderInBatch ==
  policy \in {"FeePriority", "TimeBoost", "BlobPacking"} =>
    \A i \in DOMAIN sealed : \A j, k \in DOMAIN sealed[i].txs :
      LET t == sealed[i].txs[j]
          u == sealed[i].txs[k]
      IN j < k /\ {t, u} \subseteq Txs /\ Tx[t].from = Tx[u].from => Tx[t].nonce <= Tx[u].nonce

\* get_next_batch_id and the order store, publish (orchestrator.rs:180, 260): two batches
\* reach the executor under one id only if a registry read or write had failed.
IdNamesOneBatch ==
  \A i, j \in arrived : sealed[i].id = sealed[j].id => i = j \/ registryFailed

\* should_seal with its timeout (trigger.rs:143): a transaction in the pool that fits into
\* an empty batch is sealed some time, unless the process ends.  BlobPacking selects by
\* size before it looks at the gas, and is not covered.
PooledIsSealed ==
  \A t \in Txs :
    policy # "BlobPacking" /\ Tx[t].gas <= Config.max_gas_limit /\ t \in Range(pool)
      ~> t \in SealedTxs \/ step = "down"

\* pool/forced_queue.rs:18: "These transactions bypass normal validation and MUST be
\* included in batches."  So one that was queued is, until a crash, queued, in the
\* orchestrator's hands or in a batch.
ForcedIsHeld == \A f \in received : f \in Held
=============================================================================
