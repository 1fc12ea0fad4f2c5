------------------------------ MODULE Executor ------------------------------
(***************************************************************************)
(* The executor's gRPC service and its worker (executor/src/service.rs),   *)
(* with the trace store (trace.rs) and the part of the transaction engine  *)
(* (tx_engine.rs) that a repeated batch depends on.                        *)
(*                                                                         *)
(* RPC handlers run concurrently with one worker task that takes jobs from *)
(* a bounded queue.  The account database and the trace store survive a    *)
(* crash; batch_states, the queue and the broadcast channel do not.        *)
(*                                                                         *)
(* A batch is abstracted to one transaction: its sender and its nonce.     *)
(* The worker is cut at its awaits and its durable writes; pc names the    *)
(* next one.  A payload that does not parse is refused before any state is *)
(* touched and is left out.                                                *)
(***************************************************************************)
EXTENDS Integers, Sequences

CONSTANTS
  BatchIds, NoBatch,
  Senders,        \* accounts that sign the batches
  Genesis,        \* those named by EXECUTOR_GENESIS_ACCOUNTS
  Sender, Nonce,  \* of a batch's transaction
  Calls,          \* publish_batch calls that can wait at the same time
  Subscribers,    \* clients of stream_batches
  QueueCapacity, StreamCapacity,
  MaxTraces       \* bound: executions

ASSUME ExecutorAssumption ==
  /\ NoBatch \notin BatchIds
  /\ Genesis \subseteq Senders
  /\ Sender \in [BatchIds -> Senders] /\ Nonce \in [BatchIds -> Nat]
  /\ {QueueCapacity, StreamCapacity} \subseteq Nat \ {0}
  /\ MaxTraces \in Nat

VARIABLES
  \* durable
  nonce,      \* of each sender, in the account database
  files,      \* persisted traces
  index,      \* index.jsonl: pairs of a trace and a lifecycle status
  \* the service
  dbOpen,     \* the database handles are there
  states,     \* batch_states
  queue,      \* the job queue
  waiting,    \* the batch a call waits to queue, if any
  buffer,     \* payloads a subscriber has not taken yet
  client,     \* of a stream: "none", "connected", or "gone" before the server knows
  \* the worker
  pc, job, included, trace,
  \* history
  traces,     \* every execution that produced a trace
  published,  \* traces broadcast, in order
  lifeStart,  \* executions before the last start
  genesisAt   \* executions before the last start or reset

diskVars == <<nonce, files, index>>
workerVars == <<pc, job, included, trace>>
streamVars == <<buffer, client>>
histVars == <<traces, published, lifeStart, genesisAt>>
vars == <<diskVars, dbOpen, states, queue, waiting, streamVars, workerVars, histVars>>

Statuses == {"generated", "persisted", "proved", "published"}
BatchStates == {"none", "Pending", "InProgress", "Completed", "Failed"}
Busy == {"execute", "credit", "generated", "persist", "persisted", "prove", "publish",
         "published"}
Pcs == {"down", "dead", "idle"} \cup Busy
TraceIds == 1 .. MaxTraces

TypeOK ==
  /\ nonce \in [Senders -> Nat]
  /\ files \in SUBSET TraceIds
  /\ index \in SUBSET (TraceIds \X Statuses)
  /\ dbOpen \in BOOLEAN
  /\ states \in [BatchIds -> BatchStates]
  /\ queue \in Seq(BatchIds) /\ Len(queue) <= QueueCapacity
  /\ waiting \in [Calls -> BatchIds \cup {NoBatch}]
  /\ buffer \in [Subscribers -> Seq(TraceIds)]
  /\ client \in [Subscribers -> {"none", "connected", "gone"}]
  /\ pc \in Pcs
  /\ job \in BatchIds \cup {NoBatch}
  /\ pc \in Busy => job \in BatchIds
  /\ included \in BOOLEAN
  /\ trace \in 0 .. MaxTraces
  /\ traces \in Seq([batch : BatchIds, included : BOOLEAN]) /\ Len(traces) <= MaxTraces
  /\ published \in Seq(TraceIds)
  /\ lifeStart \in 0 .. Len(traces) /\ genesisAt \in 0 .. Len(traces)

Init ==
  /\ nonce = [s \in Senders |-> 0] /\ files = {} /\ index = {}
  /\ dbOpen = FALSE /\ states = [b \in BatchIds |-> "none"]
  /\ queue = << >> /\ waiting = [c \in Calls |-> NoBatch]
  /\ buffer = [s \in Subscribers |-> << >>] /\ client = [s \in Subscribers |-> "none"]
  /\ pc = "down" /\ job = NoBatch /\ included = FALSE /\ trace = 0
  /\ traces = << >> /\ published = << >> /\ lifeStart = 0 /\ genesisAt = 0

-----------------------------------------------------------------------------
(* Start and crash. *)

SeedGenesisAccounts(accounts) ==
  [s \in Senders |-> IF s \in Genesis THEN 0 ELSE accounts[s]]

\* run_server_from_env: the genesis accounts are written again at every start.
Start ==
  /\ pc = "down"
  /\ pc' = "idle" /\ dbOpen' = TRUE
  /\ nonce' = SeedGenesisAccounts(nonce)
  /\ lifeStart' = Len(traces) /\ genesisAt' = Len(traces)
  /\ UNCHANGED <<files, index, states, queue, waiting, streamVars, job, included, trace,
                 traces, published>>

Crash ==
  /\ pc # "down"
  /\ pc' = "down" /\ job' = NoBatch /\ included' = FALSE /\ trace' = 0
  /\ dbOpen' = FALSE
  /\ states' = [b \in BatchIds |-> "none"]
  /\ queue' = << >> /\ waiting' = [c \in Calls |-> NoBatch]
  /\ buffer' = [s \in Subscribers |-> << >>] /\ client' = [s \in Subscribers |-> "none"]
  /\ UNCHANGED <<diskVars, histVars>>

-----------------------------------------------------------------------------
(* publish_batch. *)

\* As if a batch the worker is at could be queued again.
AdmissibleInProgress(b) == states[b] \in {"none", "InProgress", "Failed"}

\* A batch that is new, or failed before, is taken; the others are only answered.
Admissible(b) == states[b] \in {"none", "Failed"}

Serving == pc \notin {"down", "dead"}
Free == Len(queue) < QueueCapacity /\ \A c \in Calls : waiting[c] = NoBatch

\* There is room in the queue: the handler does not wait.
PublishBatch(b) ==
  /\ Serving /\ Admissible(b) /\ Free
  /\ states' = [states EXCEPT ![b] = "Pending"]
  /\ queue' = Append(queue, b)
  /\ UNCHANGED <<diskVars, dbOpen, waiting, streamVars, workerVars, histVars>>

\* The queue is full: the state is Pending already and job_tx.send waits.
PublishWaits(c, b) ==
  /\ Serving /\ Admissible(b) /\ ~Free /\ waiting[c] = NoBatch
  /\ states' = [states EXCEPT ![b] = "Pending"]
  /\ waiting' = [waiting EXCEPT ![c] = b]
  /\ UNCHANGED <<diskVars, dbOpen, queue, streamVars, workerVars, histVars>>

\* job_tx.send gets its place.  Which waiting call comes first is left open.
Admit(c) ==
  /\ Serving /\ waiting[c] # NoBatch /\ Len(queue) < QueueCapacity
  /\ queue' = Append(queue, waiting[c])
  /\ waiting' = [waiting EXCEPT ![c] = NoBatch]
  /\ UNCHANGED <<diskVars, dbOpen, states, streamVars, workerVars, histVars>>

\* The client gives up while its call waits: the handler is dropped where it is.
Cancel(c) ==
  /\ waiting[c] # NoBatch
  /\ waiting' = [waiting EXCEPT ![c] = NoBatch]
  /\ UNCHANGED <<diskVars, dbOpen, states, queue, streamVars, workerVars, histVars>>

\* The worker is gone, so the send fails.
PublishUnavailable(b) ==
  /\ pc = "dead" /\ Admissible(b)
  /\ states' = [states EXCEPT ![b] = "Failed"]
  /\ UNCHANGED <<diskVars, dbOpen, queue, waiting, streamVars, workerVars, histVars>>

-----------------------------------------------------------------------------
(* stream_batches: a broadcast channel that overwrites what is not taken. *)

Subscribe(s) ==
  /\ pc # "down" /\ client[s] = "none"
  /\ client' = [client EXCEPT ![s] = "connected"]
  /\ UNCHANGED <<diskVars, dbOpen, states, queue, waiting, buffer, workerVars, histVars>>

Deliver(s) ==
  /\ client[s] = "connected" /\ buffer[s] # << >>
  /\ buffer' = [buffer EXCEPT ![s] = Tail(@)]
  /\ UNCHANGED <<diskVars, dbOpen, states, queue, waiting, client, workerVars, histVars>>

\* The client is gone; until the server notices, its receiver still counts.
Disconnect(s) ==
  /\ client[s] = "connected"
  /\ client' = [client EXCEPT ![s] = "gone"]
  /\ UNCHANGED <<diskVars, dbOpen, states, queue, waiting, buffer, workerVars, histVars>>

Reap(s) ==
  /\ client[s] = "gone"
  /\ client' = [client EXCEPT ![s] = "none"]
  /\ buffer' = [buffer EXCEPT ![s] = << >>]
  /\ UNCHANGED <<diskVars, dbOpen, states, queue, waiting, workerVars, histVars>>

-----------------------------------------------------------------------------
(* reset_state.  It needs the engine's lock, which execute_batch holds. *)

ResetState ==
  /\ pc \notin {"down", "credit"}
  /\ dbOpen' = TRUE
  /\ nonce' = [s \in Senders |-> 0]
  /\ genesisAt' = Len(traces)
  /\ UNCHANGED <<files, index, states, queue, waiting, streamVars, workerVars,
                 traces, published, lifeStart>>

\* reset_to_genesis fails after it took the handles; the accounts may be gone.
ResetStateFails ==
  /\ pc \notin {"down", "credit"}
  /\ dbOpen' = FALSE
  /\ \/ UNCHANGED <<nonce, genesisAt>>
     \/ nonce' = [s \in Senders |-> 0] /\ genesisAt' = Len(traces)
  /\ UNCHANGED <<files, index, states, queue, waiting, streamVars, workerVars,
                 traces, published, lifeStart>>

-----------------------------------------------------------------------------
(* The worker: process_batch_job. *)

Take ==
  /\ pc = "idle" /\ queue # << >>
  /\ job' = Head(queue) /\ queue' = Tail(queue)
  /\ states' = [states EXCEPT ![Head(queue)] = "InProgress"]
  /\ pc' = "execute"
  /\ UNCHANGED <<diskVars, dbOpen, waiting, streamVars, included, trace, histVars>>

\* The handles are missing: unwrap panics, the task ends and its queue with it.
Panic ==
  /\ pc = "execute" /\ ~dbOpen
  /\ pc' = "dead"
  /\ queue' = << >>
  /\ states' = [b \in BatchIds |-> IF \E c \in Calls : waiting[c] = b THEN "Failed"
                                   ELSE states[b]]
  /\ waiting' = [c \in Calls |-> NoBatch]
  /\ UNCHANGED <<diskVars, dbOpen, streamVars, job, included, trace, histVars>>

\* As if the nonce were not compared.
NonceAny(b) == TRUE

NonceMatches(b) == nonce[Sender[b]] = Nonce[b]

\* execute_batch up to the sender's write; a rejected transaction writes nothing.
Debit ==
  /\ pc = "execute" /\ dbOpen /\ Len(traces) < MaxTraces
  /\ included' = NonceMatches(job)
  /\ nonce' = IF NonceMatches(job) THEN [nonce EXCEPT ![Sender[job]] = @ + 1] ELSE nonce
  /\ pc' = "credit"
  /\ UNCHANGED <<files, index, dbOpen, states, queue, waiting, streamVars, job, trace,
                 histVars>>

\* The receiver's write, and the trace.
Credit ==
  /\ pc = "credit"
  /\ traces' = Append(traces, [batch |-> job, included |-> included])
  /\ trace' = Len(traces) + 1
  /\ pc' = "generated"
  /\ UNCHANGED <<diskVars, dbOpen, states, queue, waiting, streamVars, job, included,
                 published, lifeStart, genesisAt>>

\* append_lifecycle for a trace that was generated, or persisted.
AppendLifecycle ==
  /\ pc \in {"generated", "persisted"}
  /\ index' = index \cup {<<trace, pc>>}
  /\ pc' = IF pc = "generated" THEN "persist" ELSE "prove"
  /\ UNCHANGED <<nonce, files, dbOpen, states, queue, waiting, streamVars, job, included,
                 trace, histVars>>

\* As if the trace were written after its line.
PersistTraceLate ==
  /\ pc = "persist"
  /\ index' = index \cup {<<trace, "persisted">>}
  /\ pc' = "persisted"
  /\ UNCHANGED <<nonce, files, dbOpen, states, queue, waiting, streamVars, job, included,
                 trace, histVars>>

\* persist_trace and verify_trace_hash
PersistTrace ==
  /\ pc = "persist"
  /\ files' = files \cup {trace}
  /\ pc' = "persisted"
  /\ UNCHANGED <<nonce, index, dbOpen, states, queue, waiting, streamVars, job, included,
                 trace, histVars>>

\* generate_artifacts, the check of the proof mode, and the proved line.
GenerateArtifacts ==
  /\ pc = "prove"
  /\ index' = index \cup {<<trace, "proved">>}
  /\ pc' = "publish"
  /\ UNCHANGED <<nonce, files, dbOpen, states, queue, waiting, streamVars, job, included,
                 trace, histVars>>

\* The next payload goes into a subscriber's buffer, over the oldest if it is full.
Push(buf, t) ==
  Append(IF Len(buf) < StreamCapacity THEN buf ELSE Tail(buf), t)

Listening == {s \in Subscribers : client[s] # "none"}

Publish ==
  /\ pc = "publish" /\ Listening # {}
  /\ buffer' = [s \in Subscribers |-> IF s \in Listening THEN Push(buffer[s], trace)
                                      ELSE buffer[s]]
  /\ published' = Append(published, trace)
  /\ pc' = "published"
  /\ UNCHANGED <<diskVars, dbOpen, states, queue, waiting, client, job, included, trace,
                 traces, lifeStart, genesisAt>>

\* The job ends: its outcome is stored and the worker takes the next one.
Finish(outcome) ==
  /\ states' = [states EXCEPT ![job] = outcome]
  /\ pc' = "idle" /\ job' = NoBatch /\ included' = FALSE /\ trace' = 0

\* As if the send waited for a subscriber.
PublishUnheardWaits ==
  /\ pc = "publish" /\ Listening = {}
  /\ UNCHANGED vars

\* "no stream subscribers available to receive batch"
PublishUnheard ==
  /\ pc = "publish" /\ Listening = {}
  /\ Finish("Failed")
  /\ UNCHANGED <<diskVars, dbOpen, queue, waiting, streamVars, histVars>>

Complete ==
  /\ pc = "published"
  /\ index' = index \cup {<<trace, "published">>}
  /\ Finish("Completed")
  /\ UNCHANGED <<nonce, files, dbOpen, queue, waiting, streamVars, histVars>>

\* Any other error of the job: a database write, the trace store, the prover.
JobError ==
  /\ pc \in Busy \ {"publish"} /\ (pc = "execute" => dbOpen)
  /\ Finish("Failed")
  /\ UNCHANGED <<diskVars, dbOpen, queue, waiting, streamVars, histVars>>

Worker ==
  \/ Take \/ Panic \/ Debit \/ Credit \/ AppendLifecycle \/ PersistTrace
  \/ GenerateArtifacts \/ Publish \/ PublishUnheard \/ Complete \/ JobError

Next ==
  \/ Worker \/ Start \/ Crash \/ ResetState \/ ResetStateFails
  \/ \E b \in BatchIds : PublishBatch(b) \/ PublishUnavailable(b)
  \/ \E c \in Calls, b \in BatchIds : PublishWaits(c, b)
  \/ \E c \in Calls : Admit(c) \/ Cancel(c)
  \/ \E s \in Subscribers : Subscribe(s) \/ Deliver(s) \/ Disconnect(s) \/ Reap(s)

Spec == Init /\ [][Next]_vars

\* The worker task keeps running while the process is up.
FairSpec == Spec /\ WF_vars(Worker)

-----------------------------------------------------------------------------
(* Properties. *)

\* A batch is never worked on twice at the same time: whatever is retried, waits,
\* fails or is cancelled, it is in at most one place of the pipeline (a waiting
\* call, the queue, the worker), and batch_states says which.
OneJobPerBatch ==
  /\ \A i, j \in 1 .. Len(queue) : queue[i] = queue[j] => i = j
  /\ \A i \in 1 .. Len(queue) : states[queue[i]] = "Pending"
  /\ \A c, d \in Calls : waiting[c] # NoBatch /\ waiting[c] = waiting[d] => c = d
  /\ \A c \in Calls : waiting[c] # NoBatch =>
       /\ states[waiting[c]] = "Pending"
       /\ \A i \in 1 .. Len(queue) : queue[i] # waiting[c]
  /\ \A b \in BatchIds : states[b] = "InProgress" <=> pc \in Busy \cup {"dead"} /\ job = b

\* A batch is reported Completed only if its payload was broadcast, and recorded as
\* published, since the service started.
CompletedWasPublished ==
  \A b \in BatchIds : states[b] = "Completed" =>
    \E i \in 1 .. Len(published) :
      /\ published[i] > lifeStart
      /\ traces[published[i]].batch = b
      /\ <<published[i], "published">> \in index

\* The trace index tells the truth also after a crash: a line follows the lines of
\* the earlier stages, a persisted line its file, a published line the broadcast.
IndexIsHonest ==
  \A e \in index :
    /\ e[2] # "generated" => <<e[1], "generated">> \in index /\ e[1] \in files
    /\ e[2] \in {"proved", "published"} => <<e[1], "persisted">> \in index
    /\ e[2] = "published" =>
         /\ <<e[1], "proved">> \in index
         /\ \E i \in 1 .. Len(published) : published[i] = e[1]

\* Retrying a failed batch never applies its transactions a second time, as long as
\* the accounts are not put back to genesis by a reset or a restart.
AppliedOnce ==
  \A s, t \in genesisAt + 1 .. Len(traces) :
    /\ traces[s].batch = traces[t].batch
    /\ traces[s].included /\ traces[t].included
    => s = t

\* A queued job always gets an outcome while the worker lives: it never waits for a
\* subscriber, and no error of an earlier job stops the queue.
JobResolves ==
  \A b \in BatchIds :
    (\E i \in 1 .. Len(queue) : queue[i] = b)
      ~> (states[b] \in {"Completed", "Failed"} \/ pc \in {"down", "dead"})

\* docs/executor.md:52: "The Executor maintains a strict cryptographic link between
\* the input batch, the internal state transitions, and the final ZK proof."  So
\* when a batch is Completed, the payload that carries its transactions is out.
TransitionsArePublished ==
  \A b \in BatchIds : \A t \in lifeStart + 1 .. Len(traces) :
    states[b] = "Completed" /\ traces[t].batch = b /\ traces[t].included =>
      \E i \in 1 .. Len(published) : published[i] = t
=============================================================================
