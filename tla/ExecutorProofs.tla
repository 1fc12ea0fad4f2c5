--------------------------- MODULE ExecutorProofs ---------------------------
(***************************************************************************)
(* Proofs about Executor, for any batches, accounts, numbers of calls and  *)
(* subscribers, capacities of the queue and of the stream, and bound.      *)
(***************************************************************************)
EXTENDS Executor, TLAPS

-----------------------------------------------------------------------------
(* Sequences. *)

LEMMA Appended ==
  ASSUME NEW S, NEW s \in Seq(S), NEW e \in S
  PROVE  /\ Append(s, e) \in Seq(S)
         /\ Len(s) \in Nat /\ Len(Append(s, e)) = Len(s) + 1
         /\ Append(s, e)[Len(s) + 1] = e
         /\ \A i \in 1 .. Len(s) : Append(s, e)[i] = s[i] /\ s[i] \in S
  OBVIOUS

LEMMA TailOf ==
  ASSUME NEW S, NEW s \in Seq(S), s # << >>
  PROVE  /\ Head(s) \in S /\ Tail(s) \in Seq(S)
         /\ Len(s) \in Nat \ {0} /\ Len(Tail(s)) = Len(s) - 1
         /\ Head(s) = s[1]
         /\ \A i \in 1 .. Len(s) - 1 : Tail(s)[i] = s[i + 1]
  OBVIOUS

-----------------------------------------------------------------------------
(* Type correctness. *)

DiskType ==
  /\ nonce \in [Senders -> Nat]
  /\ files \in SUBSET TraceIds
  /\ index \in SUBSET (TraceIds \X Statuses)

ServiceType ==
  /\ dbOpen \in BOOLEAN
  /\ states \in [BatchIds -> BatchStates]
  /\ queue \in Seq(BatchIds) /\ Len(queue) <= QueueCapacity
  /\ waiting \in [Calls -> BatchIds \cup {NoBatch}]

StreamType ==
  /\ buffer \in [Subscribers -> Seq(TraceIds)]
  /\ client \in [Subscribers -> {"none", "connected", "gone"}]

WorkerType ==
  /\ pc \in Pcs
  /\ job \in BatchIds \cup {NoBatch}
  /\ pc \in Busy => job \in BatchIds
  /\ included \in BOOLEAN
  /\ trace \in 0 .. MaxTraces

HistType ==
  /\ traces \in Seq([batch : BatchIds, included : BOOLEAN]) /\ Len(traces) <= MaxTraces
  /\ published \in Seq(TraceIds)
  /\ lifeStart \in 0 .. Len(traces) /\ genesisAt \in 0 .. Len(traces)

\* What a job that has its trace knows of it.
Traced == {"generated", "persist", "persisted", "prove", "publish", "published"}

HasTrace ==
  /\ pc \in Traced =>
       trace \in 1 .. Len(traces) /\ trace > lifeStart /\ traces[trace].batch = job
  /\ pc = "credit" => Len(traces) < MaxTraces

TypeInv == TypeOK /\ HasTrace

LEMMA TypeParts ==
  /\ TypeOK <=> DiskType /\ ServiceType /\ StreamType /\ WorkerType /\ HistType
  /\ TypeOK' <=> DiskType' /\ ServiceType' /\ StreamType' /\ WorkerType' /\ HistType'
<1>1. TypeOK <=> DiskType /\ ServiceType /\ StreamType /\ WorkerType /\ HistType
  BY Zenon DEF TypeOK, DiskType, ServiceType, StreamType, WorkerType, HistType
<1>2. TypeOK' <=> DiskType' /\ ServiceType' /\ StreamType' /\ WorkerType' /\ HistType'
  BY Zenon DEF TypeOK, DiskType, ServiceType, StreamType, WorkerType, HistType
<1> QED
  BY <1>1, <1>2

LEMMA Bounds ==
  /\ QueueCapacity \in Nat \ {0} /\ StreamCapacity \in Nat \ {0} /\ MaxTraces \in Nat
  /\ NoBatch \notin BatchIds
  /\ Sender \in [BatchIds -> Senders] /\ Nonce \in [BatchIds -> Nat]
  BY ExecutorAssumption DEF ExecutorAssumption

\* The part of the state a step leaves alone keeps its type.
LEMMA Frames ==
  /\ DiskType /\ UNCHANGED diskVars => DiskType'
  /\ ServiceType /\ UNCHANGED <<dbOpen, states, queue, waiting>> => ServiceType'
  /\ StreamType /\ UNCHANGED streamVars => StreamType'
  /\ WorkerType /\ UNCHANGED workerVars => WorkerType'
  /\ HistType /\ UNCHANGED histVars => HistType'
  /\ HasTrace /\ UNCHANGED <<pc, job, trace, traces, lifeStart>> => HasTrace'
<1>1. DiskType /\ UNCHANGED diskVars => DiskType'
  BY Zenon DEF DiskType, diskVars
<1>2. ServiceType /\ UNCHANGED <<dbOpen, states, queue, waiting>> => ServiceType'
  BY Zenon DEF ServiceType
<1>3. StreamType /\ UNCHANGED streamVars => StreamType'
  BY Zenon DEF StreamType, streamVars
<1>4. WorkerType /\ UNCHANGED workerVars => WorkerType'
  BY Zenon DEF WorkerType, workerVars
<1>5. HistType /\ UNCHANGED histVars => HistType'
  BY Zenon DEF HistType, histVars
<1>6. HasTrace /\ UNCHANGED <<pc, job, trace, traces, lifeStart>> => HasTrace'
  BY Zenon DEF HasTrace
<1> QED
  BY <1>1, <1>2, <1>3, <1>4, <1>5, <1>6

\* The handlers of publish_batch, and of stream_batches.
Handlers ==
  \/ \E b \in BatchIds : PublishBatch(b) \/ PublishUnavailable(b)
  \/ \E c \in Calls, b \in BatchIds : PublishWaits(c, b)
  \/ \E c \in Calls : Admit(c) \/ Cancel(c)

Streams == \E s \in Subscribers : Subscribe(s) \/ Deliver(s) \/ Disconnect(s) \/ Reap(s)

Resets == ResetState \/ ResetStateFails

LEMMA NextParts == Next <=> Worker \/ Start \/ Crash \/ Resets \/ Handlers \/ Streams
  BY Zenon DEF Next, Resets, Handlers, Streams

LEMMA HandlersType ==
  ASSUME TypeInv, Handlers
  PROVE  TypeInv' /\ UNCHANGED <<diskVars, dbOpen, streamVars, workerVars, histVars>>
<1>1. DiskType /\ ServiceType /\ StreamType /\ WorkerType /\ HistType /\ HasTrace
  BY TypeParts DEF TypeInv
<1>2. UNCHANGED <<diskVars, dbOpen, streamVars, workerVars, histVars>>
  BY DEF Handlers, PublishBatch, PublishUnavailable, PublishWaits, Admit, Cancel
<1>3. ASSUME NEW b \in BatchIds, PublishBatch(b) PROVE ServiceType'
  <2>1. Append(queue, b) \in Seq(BatchIds) /\ Len(Append(queue, b)) = Len(queue) + 1
    BY <1>1, Appended DEF ServiceType
  <2> QED
    BY <1>1, <1>3, <2>1, Bounds DEF PublishBatch, Free, ServiceType, BatchStates
<1>4. ASSUME NEW b \in BatchIds, PublishUnavailable(b) PROVE ServiceType'
  BY <1>1, <1>4 DEF PublishUnavailable, ServiceType, BatchStates
<1>5. ASSUME NEW c \in Calls, NEW b \in BatchIds, PublishWaits(c, b) PROVE ServiceType'
  BY <1>1, <1>5 DEF PublishWaits, ServiceType, BatchStates
<1>6. ASSUME NEW c \in Calls, Admit(c) PROVE ServiceType'
  <2>1. waiting[c] \in BatchIds
    BY <1>1, <1>6 DEF Admit, ServiceType
  <2>2. /\ Append(queue, waiting[c]) \in Seq(BatchIds)
        /\ Len(Append(queue, waiting[c])) = Len(queue) + 1
    BY <1>1, <2>1, Appended DEF ServiceType
  <2> QED
    BY <1>1, <1>6, <2>2, Bounds DEF Admit, ServiceType
<1>7. ASSUME NEW c \in Calls, Cancel(c) PROVE ServiceType'
  BY <1>1, <1>7 DEF Cancel, ServiceType
<1>8. ServiceType'
  BY <1>3, <1>4, <1>5, <1>6, <1>7, Zenon DEF Handlers
<1>9. UNCHANGED <<pc, job, trace, traces, lifeStart>>
  BY <1>2 DEF workerVars, histVars
<1> QED
  BY <1>1, <1>2, <1>8, <1>9, Frames, TypeParts DEF TypeInv

LEMMA StreamsType ==
  ASSUME TypeInv, Streams
  PROVE  TypeInv' /\ UNCHANGED <<diskVars, dbOpen, states, queue, waiting, workerVars, histVars>>
<1>1. DiskType /\ ServiceType /\ StreamType /\ WorkerType /\ HistType /\ HasTrace
  BY TypeParts DEF TypeInv
<1>2. UNCHANGED <<diskVars, dbOpen, states, queue, waiting, workerVars, histVars>>
  BY DEF Streams, Subscribe, Deliver, Disconnect, Reap
<1>3. ASSUME NEW s \in Subscribers, Subscribe(s) \/ Disconnect(s) \/ Reap(s)
      PROVE  StreamType'
  <2>1. client' \in [Subscribers -> {"none", "connected", "gone"}]
    BY <1>1, <1>3, Zenon DEF StreamType, Subscribe, Disconnect, Reap
  <2>2. buffer' = buffer \/ buffer' = [buffer EXCEPT ![s] = << >>]
    BY <1>3 DEF Subscribe, Disconnect, Reap
  <2>3. buffer' \in [Subscribers -> Seq(TraceIds)]
    <3> DEFINE S == Seq(TraceIds)
    <3>1. << >> \in S /\ buffer \in [Subscribers -> S]
      BY <1>1 DEF StreamType
    <3> HIDE DEF S
    <3>2. buffer' \in [Subscribers -> S]
      BY <2>2, <3>1
    <3> QED
      BY <3>2 DEF S
  <2> QED
    BY <2>1, <2>3 DEF StreamType
<1>4. ASSUME NEW s \in Subscribers, Deliver(s) PROVE StreamType'
  <2>1. Tail(buffer[s]) \in Seq(TraceIds)
    BY <1>1, <1>4, TailOf DEF StreamType, Deliver
  <2> QED
    BY <1>1, <1>4, <2>1 DEF StreamType, Deliver
<1>5. StreamType'
  BY <1>3, <1>4, Zenon DEF Streams
<1>6. UNCHANGED <<pc, job, trace, traces, lifeStart>>
  BY <1>2 DEF workerVars, histVars
<1> QED
  BY <1>1, <1>2, <1>5, <1>6, Frames, TypeParts DEF TypeInv

\* A worker that has no job.
LEMMA AtRest ==
  ASSUME pc' \in {"down", "idle"}, job' = NoBatch, included' = FALSE, trace' = 0
  PROVE  WorkerType' /\ HasTrace'
<1>1. pc' \in Pcs /\ pc' \notin Busy /\ pc' \notin Traced /\ pc' # "credit"
  BY DEF Pcs, Busy, Traced
<1>2. trace' \in 0 .. MaxTraces
  BY Bounds
<1>3. included' \in BOOLEAN /\ job' \in BatchIds \cup {NoBatch}
  BY Zenon
<1>4. WorkerType'
  BY <1>1, <1>2, <1>3, Zenon DEF WorkerType
<1>5. HasTrace'
  BY <1>1, Zenon DEF HasTrace
<1> QED
  BY <1>4, <1>5

LEMMA LifeType ==
  ASSUME TypeInv, Start \/ Crash \/ Resets
  PROVE  TypeInv'
<1>1. DiskType /\ ServiceType /\ StreamType /\ WorkerType /\ HistType /\ HasTrace
  BY TypeParts DEF TypeInv
<1>2. Len(traces) \in Nat
  BY <1>1 DEF HistType
<1>3. CASE Start
  <2>1. DiskType'
    BY <1>1, <1>3 DEF Start, DiskType, SeedGenesisAccounts
  <2>2. ServiceType' /\ StreamType'
    BY <1>1, <1>3 DEF Start, ServiceType, StreamType, streamVars
  <2>3. WorkerType' /\ HasTrace'
    BY <1>1, <1>3 DEF Start, WorkerType, HasTrace, Pcs, Busy, Traced
  <2>4. HistType'
    BY <1>1, <1>2, <1>3 DEF Start, HistType
  <2> QED
    BY <2>1, <2>2, <2>3, <2>4, TypeParts DEF TypeInv
<1>4. CASE Crash
  <2>1. DiskType' /\ HistType'
    BY <1>1, <1>4, Frames DEF Crash
  <2>2. ServiceType'
    <3>1. << >> \in Seq(BatchIds) /\ Len(<< >>) = 0
      OBVIOUS
    <3>2. queue' \in Seq(BatchIds) /\ Len(queue') <= QueueCapacity
      BY <1>4, <3>1, Bounds DEF Crash
    <3>3. states' \in [BatchIds -> BatchStates]
      BY <1>4 DEF Crash, BatchStates
    <3> QED
      BY <1>4, <3>2, <3>3, Zenon DEF Crash, ServiceType
  <2>3. StreamType'
    BY <1>4 DEF Crash, StreamType
  <2>4. WorkerType' /\ HasTrace'
    <3>1. pc' = "down" /\ job' = NoBatch /\ included' = FALSE /\ trace' = 0
      BY <1>4 DEF Crash
    <3> QED
      BY <3>1, AtRest, Zenon
  <2> QED
    BY <2>1, <2>2, <2>3, <2>4, TypeParts DEF TypeInv
<1>5. CASE Resets
  <2>1. /\ UNCHANGED <<files, index, states, queue, waiting, streamVars, workerVars,
                       traces, published, lifeStart>>
        /\ dbOpen' \in BOOLEAN
        /\ nonce' \in {nonce, [s \in Senders |-> 0]}
        /\ genesisAt' \in {genesisAt, Len(traces)}
    BY <1>5, Zenon DEF Resets, ResetState, ResetStateFails
  <2>2. DiskType'
    BY <1>1, <2>1 DEF DiskType
  <2>3. ServiceType' /\ StreamType'
    BY <1>1, <2>1 DEF ServiceType, StreamType, streamVars
  <2>4. WorkerType' /\ HasTrace'
    BY <1>1, <2>1, Frames DEF workerVars
  <2>5. HistType'
    BY <1>1, <1>2, <2>1 DEF HistType
  <2> QED
    BY <2>2, <2>3, <2>4, <2>5, TypeParts DEF TypeInv
<1> QED
  BY <1>3, <1>4, <1>5

LEMMA FinishType ==
  ASSUME TypeInv, pc \in Busy, NEW o \in {"Completed", "Failed"}, Finish(o),
         UNCHANGED <<dbOpen, queue, waiting>>
  PROVE  ServiceType' /\ WorkerType' /\ HasTrace'
<1>1. ServiceType
  BY TypeParts DEF TypeInv
<1>2. WorkerType' /\ HasTrace'
  BY AtRest, Zenon DEF Finish
<1>3. states' \in [BatchIds -> BatchStates]
  BY <1>1, Zenon DEF Finish, ServiceType, BatchStates
<1> QED
  BY <1>1, <1>2, <1>3 DEF ServiceType

LEMMA WorkerStepType == ASSUME TypeInv, Worker PROVE TypeInv'
<1>1. DiskType /\ ServiceType /\ StreamType /\ WorkerType /\ HistType /\ HasTrace
  BY TypeParts DEF TypeInv
<1>2. Len(traces) \in Nat
  BY <1>1 DEF HistType
<1>3. CASE Take
  <2>1. /\ Head(queue) \in BatchIds /\ Tail(queue) \in Seq(BatchIds)
        /\ Len(queue) \in Nat /\ Len(Tail(queue)) = Len(queue) - 1
    BY <1>1, <1>3, TailOf DEF Take, ServiceType
  <2>2. states' \in [BatchIds -> BatchStates]
    BY <1>1, <1>3, <2>1 DEF Take, ServiceType, BatchStates
  <2>3. queue' \in Seq(BatchIds) /\ Len(queue') <= QueueCapacity
    BY <1>1, <1>3, <2>1, Bounds DEF Take, ServiceType
  <2>4. ServiceType'
    BY <1>1, <1>3, <2>2, <2>3 DEF Take, ServiceType
  <2>5. pc' = "execute" /\ job' \in BatchIds /\ UNCHANGED <<included, trace>>
    BY <1>3, <2>1 DEF Take
  <2>6. WorkerType' /\ HasTrace'
    BY <1>1, <2>5 DEF WorkerType, HasTrace, Pcs, Busy, Traced
  <2> QED
    BY <1>1, <1>3, <2>4, <2>6, Frames, TypeParts DEF TypeInv, Take
<1>4. CASE Panic
  <2>1. states' \in [BatchIds -> BatchStates]
    BY <1>1, <1>4 DEF Panic, ServiceType, BatchStates
  <2>2. << >> \in Seq(BatchIds) /\ Len(<< >>) = 0
    OBVIOUS
  <2>3. queue' \in Seq(BatchIds) /\ Len(queue') <= QueueCapacity
    BY <1>4, <2>2, Bounds DEF Panic
  <2>4. ServiceType'
    BY <1>1, <1>4, <2>1, <2>3 DEF Panic, ServiceType
  <2>5. pc' = "dead" /\ UNCHANGED <<job, included, trace>>
    BY <1>4 DEF Panic
  <2>6. WorkerType' /\ HasTrace'
    BY <1>1, <2>5 DEF WorkerType, HasTrace, Pcs, Busy, Traced
  <2> QED
    BY <1>1, <1>4, <2>4, <2>6, Frames, TypeParts DEF TypeInv, Panic
<1>5. CASE Debit
  <2>1. job \in BatchIds
    BY <1>1, <1>5 DEF Debit, WorkerType, Busy
  <2>2. nonce' \in [Senders -> Nat]
    <3>1. Sender[job] \in Senders
      BY <2>1, Bounds
    <3>2. nonce[Sender[job]] + 1 \in Nat
      BY <1>1, <3>1 DEF DiskType
    <3> QED
      BY <1>1, <1>5, <3>2, Zenon DEF Debit, DiskType
  <2>3. DiskType'
    BY <1>1, <1>5, <2>2 DEF Debit, DiskType
  <2>4. pc' = "credit" /\ included' \in BOOLEAN /\ UNCHANGED <<job, trace, histVars>>
    BY <1>5 DEF Debit, NonceMatches
  <2>5. Len(traces') < MaxTraces
    BY <1>5, <2>4 DEF Debit, histVars
  <2>6. WorkerType' /\ HasTrace'
    BY <1>1, <2>1, <2>4, <2>5 DEF WorkerType, HasTrace, Pcs, Busy, Traced
  <2> QED
    BY <1>1, <1>5, <2>3, <2>6, Frames, TypeParts DEF TypeInv, Debit
<1>6. CASE Credit
  <2> DEFINE T == [batch : BatchIds, included : BOOLEAN]
             e == [batch |-> job, included |-> included]
  <2>1. e \in T /\ e.batch = job /\ job \in BatchIds
    BY <1>1, <1>6 DEF Credit, WorkerType, Busy
  <2>2. traces \in Seq(T) /\ Len(traces) < MaxTraces
    BY <1>1, <1>6 DEF Credit, HistType, HasTrace
  <2>3. traces' = Append(traces, e) /\ trace' = Len(traces) + 1 /\ pc' = "generated"
        /\ UNCHANGED <<job, included, published, lifeStart, genesisAt>>
    BY <1>6 DEF Credit
  <2> HIDE DEF T, e
  <2>4. /\ traces' \in Seq(T) /\ Len(traces') = Len(traces) + 1
        /\ traces'[Len(traces) + 1] = e
    BY <2>1, <2>2, <2>3, Appended
  <2>5. lifeStart \in 0 .. Len(traces) /\ genesisAt \in 0 .. Len(traces)
    BY <1>1 DEF HistType
  <2>6. lifeStart \in 0 .. Len(traces') /\ genesisAt \in 0 .. Len(traces') /\ lifeStart < trace'
    BY <1>2, <2>3, <2>4, <2>5
  <2>7. HistType'
    BY <1>1, <1>2, <2>2, <2>3, <2>4, <2>6, Bounds DEF HistType, T
  <2>8. trace' \in 1 .. Len(traces') /\ trace' \in 0 .. MaxTraces
    BY <1>2, <2>2, <2>3, <2>4, Bounds
  <2>9. WorkerType'
    BY <1>1, <2>1, <2>3, <2>8 DEF WorkerType, Pcs, Busy
  <2>10. HasTrace'
    BY <2>1, <2>3, <2>4, <2>6, <2>8 DEF HasTrace, Traced
  <2> QED
    BY <1>1, <1>6, <2>7, <2>9, <2>10, Frames, TypeParts DEF TypeInv, Credit
<1>7. CASE AppendLifecycle \/ PersistTrace \/ GenerateArtifacts
  <2>1. pc \in {"generated", "persisted", "persist", "prove"} /\ pc' \in {"persist", "prove", "persisted", "publish"}
    BY <1>7 DEF AppendLifecycle, PersistTrace, GenerateArtifacts
  <2>2. trace \in TraceIds
    BY <1>1, <1>2, <2>1, Bounds DEF HasTrace, HistType, Traced, TraceIds
  <2>3. DiskType'
    BY <1>1, <1>7, <2>2 DEF DiskType, Statuses, AppendLifecycle, PersistTrace, GenerateArtifacts
  <2>4. UNCHANGED <<job, included, trace, histVars, dbOpen, states, queue, waiting, streamVars>>
    BY <1>7 DEF AppendLifecycle, PersistTrace, GenerateArtifacts
  <2>5. WorkerType'
    BY <1>1, <2>1, <2>4 DEF WorkerType, Pcs, Busy
  <2>6. HasTrace'
    BY <1>1, <2>1, <2>4 DEF HasTrace, Traced, histVars
  <2> QED
    BY <1>1, <2>3, <2>4, <2>5, <2>6, Frames, TypeParts DEF TypeInv
<1>8. CASE Publish
  <2>1. pc = "publish" /\ pc' = "published"
    BY <1>8 DEF Publish
  <2>2. trace \in TraceIds
    BY <1>1, <1>2, <2>1, Bounds DEF HasTrace, HistType, Traced, TraceIds
  <2>3. ASSUME NEW s \in Subscribers PROVE Push(buffer[s], trace) \in Seq(TraceIds)
    <3>1. buffer[s] \in Seq(TraceIds) /\ Len(buffer[s]) \in Nat
      BY <1>1 DEF StreamType
    <3>2. ~(Len(buffer[s]) < StreamCapacity) => buffer[s] # << >>
      BY <3>1, Bounds
    <3>3. ~(Len(buffer[s]) < StreamCapacity) => Tail(buffer[s]) \in Seq(TraceIds)
      BY <3>1, <3>2, TailOf
    <3> QED
      BY <2>2, <3>1, <3>3, Appended DEF Push
  <2>4. StreamType'
    <3>1. buffer' \in [Subscribers -> Seq(TraceIds)]
      BY <1>1, <1>8, <2>3 DEF StreamType, Publish
    <3> QED
      BY <1>1, <1>8, <3>1 DEF StreamType, Publish
  <2>5. published' \in Seq(TraceIds)
    BY <1>1, <1>8, <2>2, Appended DEF Publish, HistType
  <2>6. HistType'
    BY <1>1, <1>8, <2>5 DEF HistType, Publish
  <2>7. WorkerType'
    BY <1>1, <1>8, <2>1 DEF WorkerType, Publish, Pcs, Busy
  <2>8. HasTrace'
    BY <1>1, <1>8, <2>1 DEF HasTrace, Traced, Publish
  <2> QED
    BY <1>1, <1>8, <2>4, <2>6, <2>7, <2>8, Frames, TypeParts DEF TypeInv, Publish
<1>9. CASE PublishUnheard \/ JobError
  <2>1. /\ pc \in Busy /\ Finish("Failed")
        /\ UNCHANGED <<diskVars, dbOpen, queue, waiting, streamVars, histVars>>
    BY <1>9 DEF PublishUnheard, JobError, Busy
  <2>2. ServiceType' /\ WorkerType' /\ HasTrace'
    BY <2>1, FinishType
  <2> QED
    BY <1>1, <2>1, <2>2, Frames, TypeParts DEF TypeInv
<1>10. CASE Complete
  <2>1. /\ pc \in Busy /\ pc = "published" /\ Finish("Completed")
        /\ UNCHANGED <<nonce, files, dbOpen, queue, waiting, streamVars, histVars>>
        /\ index' = index \cup {<<trace, "published">>}
    BY <1>10 DEF Complete, Busy
  <2>2. ServiceType' /\ WorkerType' /\ HasTrace'
    BY <2>1, FinishType
  <2>3. trace \in TraceIds
    BY <1>1, <1>2, <2>1, Bounds DEF HasTrace, HistType, Traced, TraceIds
  <2>4. DiskType'
    BY <1>1, <2>1, <2>3 DEF DiskType, Statuses
  <2> QED
    BY <1>1, <2>1, <2>2, <2>4, Frames, TypeParts DEF TypeInv
<1> QED
  BY <1>3, <1>4, <1>5, <1>6, <1>7, <1>8, <1>9, <1>10 DEF Worker

LEMMA StutterType == TypeInv /\ UNCHANGED vars => TypeInv'
<1> SUFFICES ASSUME TypeInv, UNCHANGED vars PROVE TypeInv'
  OBVIOUS
<1>1. /\ UNCHANGED diskVars /\ UNCHANGED streamVars /\ UNCHANGED workerVars /\ UNCHANGED histVars
      /\ UNCHANGED <<dbOpen, states, queue, waiting>>
  BY DEF vars
<1>2. UNCHANGED <<pc, job, trace, traces, lifeStart>>
  BY <1>1 DEF workerVars, histVars
<1> QED
  BY <1>1, <1>2, Frames, TypeParts DEF TypeInv

LEMMA StepType == TypeInv /\ [Next]_vars => TypeInv'
<1> SUFFICES ASSUME TypeInv, [Next]_vars PROVE TypeInv'
  OBVIOUS
<1>1. CASE Next
  BY <1>1, NextParts, WorkerStepType, LifeType, HandlersType, StreamsType, Zenon
<1> QED
  BY <1>1, StutterType

LEMMA InitType == Init => TypeInv
<1> SUFFICES ASSUME Init PROVE TypeInv
  OBVIOUS
<1>1. DiskType
  BY DEF Init, DiskType
<1>2. ServiceType
  <2>1. << >> \in Seq(BatchIds) /\ Len(<< >>) = 0
    OBVIOUS
  <2>2. queue \in Seq(BatchIds) /\ Len(queue) <= QueueCapacity
    BY <2>1, Bounds DEF Init
  <2>3. states \in [BatchIds -> BatchStates]
    BY DEF Init, BatchStates
  <2> QED
    BY <2>2, <2>3, Zenon DEF Init, ServiceType
<1>3. StreamType
  BY DEF Init, StreamType
<1>4. pc = "down" /\ job = NoBatch /\ included = FALSE /\ trace = 0
  BY DEF Init
<1>5. WorkerType /\ HasTrace
  <2>1. WorkerType
    <3>1. trace \in 0 .. MaxTraces
      BY <1>4, Bounds
    <3>2. pc \in Pcs /\ pc \notin Busy
      BY <1>4 DEF Pcs, Busy
    <3> QED
      BY <1>4, <3>1, <3>2, Zenon DEF WorkerType
  <2>2. HasTrace
    BY <1>4 DEF HasTrace, Traced
  <2> QED
    BY <2>1, <2>2
<1>6. HistType
  BY Bounds DEF Init, HistType
<1> QED
  BY <1>1, <1>2, <1>3, <1>5, <1>6, TypeParts DEF TypeInv

LEMMA TypeInvariant == Spec => []TypeInv
  BY InitType, StepType, PTL DEF Spec

\* The executor's state keeps its type: the queue stays within its capacity, and a
\* worker that is not idle has a job.
THEOREM TypeCorrect == Spec => []TypeOK
<1>1. TypeInv => TypeOK
  BY DEF TypeInv
<1> QED
  BY <1>1, TypeInvariant, PTL

-----------------------------------------------------------------------------
(* A batch's transactions are applied once. *)

\* The executions since the accounts were last put back to genesis.
Recent == genesisAt + 1 .. Len(traces)

\* A nonce that was used stays used, also by a batch that is between its two writes.
NonceInv ==
  /\ \A t \in Recent : traces[t].included =>
       nonce[Sender[traces[t].batch]] > Nonce[traces[t].batch]
  /\ pc = "credit" /\ included =>
       /\ nonce[Sender[job]] > Nonce[job]
       /\ \A t \in Recent : traces[t].batch = job => ~traces[t].included

LEMMA NonceSteps ==
  ASSUME TypeInv, [Next]_vars
  PROVE  \/ genesisAt' = Len(traces) /\ traces' = traces /\ pc' # "credit"
         \/ Debit \/ Credit
         \/ /\ UNCHANGED <<nonce, traces, genesisAt>>
            /\ pc' # "credit" \/ UNCHANGED <<pc, job, included>>
<1>1. CASE Worker
  BY <1>1 DEF Worker, Take, Panic, AppendLifecycle, PersistTrace, GenerateArtifacts, Publish,
     PublishUnheard, Complete, JobError, Finish, diskVars, histVars
<1>2. CASE Start \/ Crash \/ Resets \/ UNCHANGED vars
  BY <1>2 DEF Start, Crash, Resets, ResetState, ResetStateFails, vars, diskVars, workerVars, histVars
<1> QED
  BY <1>1, <1>2, NextParts, HandlersType, StreamsType DEF diskVars, workerVars, histVars

LEMMA NonceStep ==
  TypeInv /\ NonceInv /\ AppliedOnce /\ [Next]_vars => NonceInv' /\ AppliedOnce'
<1> SUFFICES ASSUME TypeInv, NonceInv, AppliedOnce, [Next]_vars PROVE NonceInv' /\ AppliedOnce'
  OBVIOUS
<1>1. DiskType /\ WorkerType /\ HistType
  BY TypeParts DEF TypeInv
<1>2. Len(traces) \in Nat /\ genesisAt \in 0 .. Len(traces)
  BY <1>1 DEF HistType
<1>3. \A t \in Recent : traces[t].batch \in BatchIds /\ traces[t].included \in BOOLEAN
  <2>1. \A t \in 1 .. Len(traces) : traces[t] \in [batch : BatchIds, included : BOOLEAN]
    <3> DEFINE T == [batch : BatchIds, included : BOOLEAN]
    <3>1. traces \in Seq(T)
      BY <1>1 DEF HistType
    <3> HIDE DEF T
    <3>2. \A t \in 1 .. Len(traces) : traces[t] \in T
      BY <3>1
    <3> QED
      BY <3>2 DEF T
  <2>2. Recent \subseteq 1 .. Len(traces)
    BY <1>2 DEF Recent
  <2> QED
    BY <2>1, <2>2
<1>4. CASE genesisAt' = Len(traces) /\ traces' = traces /\ pc' # "credit"
  <2>1. \A t : t \notin Recent'
    BY <1>2, <1>4 DEF Recent
  <2>2. \A s \in genesisAt' + 1 .. Len(traces') : FALSE
    BY <1>2, <1>4
  <2> QED
    BY <1>4, <2>1, <2>2 DEF NonceInv, AppliedOnce
<1>5. CASE Debit
  <2>1. /\ job' = job /\ UNCHANGED <<traces, genesisAt>>
        /\ included' = (nonce[Sender[job]] = Nonce[job])
        /\ nonce' = IF nonce[Sender[job]] = Nonce[job] THEN [nonce EXCEPT ![Sender[job]] = @ + 1]
                    ELSE nonce
    BY <1>5 DEF Debit, NonceMatches, histVars
  <2>2. job \in BatchIds /\ Sender[job] \in Senders /\ nonce[Sender[job]] \in Nat
    BY <1>1, <1>5, Bounds DEF Debit, WorkerType, Busy, DiskType
  <2>3. \A s \in Senders : nonce'[s] \in Nat /\ nonce[s] \in Nat /\ nonce'[s] >= nonce[s]
    BY <1>1, <2>1, <2>2 DEF DiskType
  <2>4. \A b \in BatchIds : Sender[b] \in Senders /\ Nonce[b] \in Nat
    BY Bounds
  <2>5. \A t \in Recent : traces[t].included =>
          nonce'[Sender[traces[t].batch]] > Nonce[traces[t].batch]
    BY <1>3, <2>3, <2>4 DEF NonceInv
  <2> DEFINE used == nonce[Sender[job]]
  <2>6. ASSUME included'
        PROVE  /\ nonce'[Sender[job]] > Nonce[job]
               /\ \A t \in Recent : traces[t].batch = job => ~traces[t].included
    <3>1. used = Nonce[job]
      BY <2>1, <2>6, Zenon
    <3>2. nonce'[Sender[job]] = used + 1
      BY <1>1, <2>1, <2>2, <3>1 DEF DiskType
    <3>3. nonce'[Sender[job]] > Nonce[job]
      BY <2>2, <3>1, <3>2
    <3>4. ~(nonce[Sender[job]] > Nonce[job])
      BY <2>2, <3>1
    <3>5. \A t \in Recent : traces[t].batch = job => ~traces[t].included
      BY <3>4, Zenon DEF NonceInv
    <3> QED
      BY <3>3, <3>5
  <2>8. Recent' = Recent
    BY <2>1 DEF Recent
  <2> HIDE DEF used
  <2>9. NonceInv'
    BY <2>1, <2>5, <2>6, <2>8 DEF NonceInv
  <2>10. AppliedOnce'
    BY <2>1 DEF AppliedOnce
  <2> QED
    BY <2>9, <2>10
<1>6. CASE Credit
  <2> DEFINE T == [batch : BatchIds, included : BOOLEAN]
             e == [batch |-> job, included |-> included]
             n == Len(traces) + 1
  <2>1. e \in T /\ e.batch = job /\ e.included = included
    BY <1>1, <1>6 DEF Credit, WorkerType, Busy
  <2>2. /\ pc = "credit" /\ pc' = "generated" /\ traces' = Append(traces, e)
        /\ UNCHANGED <<nonce, genesisAt>>
    BY <1>6 DEF Credit, diskVars
  <2>3. traces \in Seq(T)
    BY <1>1 DEF HistType
  <2> HIDE DEF T, e
  <2>4. /\ Len(traces') = n /\ traces'[n] = e
        /\ \A t \in 1 .. Len(traces) : traces'[t] = traces[t]
    BY <2>1, <2>2, <2>3, Appended
  <2>5. \A t \in Recent' : t = n \/ t \in Recent
    BY <1>2, <2>2, <2>4 DEF Recent
  <2>6. \A t \in Recent : t \in 1 .. Len(traces) /\ traces'[t] = traces[t]
    BY <1>2, <2>4 DEF Recent
  <2>7. included => /\ nonce[Sender[job]] > Nonce[job]
                    /\ \A t \in Recent : traces[t].batch = job => ~traces[t].included
    BY <2>2 DEF NonceInv
  <2>8. \A t \in Recent : traces[t].included =>
          nonce[Sender[traces[t].batch]] > Nonce[traces[t].batch]
    BY DEF NonceInv
  <2> HIDE DEF n
  <2>9. \A t \in Recent' : traces'[t].included =>
          nonce[Sender[traces'[t].batch]] > Nonce[traces'[t].batch]
    BY <2>1, <2>4, <2>5, <2>6, <2>7, <2>8
  <2>10. NonceInv'
    BY <2>2, <2>9, Zenon DEF NonceInv
  <2>11. ASSUME NEW s \in Recent', NEW t \in Recent', traces'[s].batch = traces'[t].batch,
                traces'[s].included, traces'[t].included
         PROVE  s = t
    <3>1. CASE s = n /\ t \in Recent
      BY <2>1, <2>4, <2>6, <2>7, <2>11, <3>1
    <3>2. CASE t = n /\ s \in Recent
      BY <2>1, <2>4, <2>6, <2>7, <2>11, <3>2
    <3>3. CASE s \in Recent /\ t \in Recent
      BY <2>6, <2>11, <3>3 DEF AppliedOnce, Recent
    <3> QED
      BY <2>5, <3>1, <3>2, <3>3
  <2>12. AppliedOnce'
    BY <2>11 DEF AppliedOnce, Recent
  <2> QED
    BY <2>10, <2>12
<1>7. CASE /\ UNCHANGED <<nonce, traces, genesisAt>>
           /\ pc' # "credit" \/ UNCHANGED <<pc, job, included>>
  <2>1. Recent' = Recent
    BY <1>7 DEF Recent
  <2>2. NonceInv'
    BY <1>7, <2>1 DEF NonceInv
  <2>3. AppliedOnce'
    BY <1>7 DEF AppliedOnce
  <2> QED
    BY <2>2, <2>3
<1> QED
  BY <1>4, <1>5, <1>6, <1>7, NonceSteps

\* However often a failed or interrupted batch is retried, its transaction is included
\* once between two returns to genesis: the sender's nonce, written by execute_batch
\* before the trace exists, refuses it the second time.
THEOREM AppliedOnceCorrect == Spec => []AppliedOnce
<1>1. Init => NonceInv /\ AppliedOnce
  <2> SUFFICES ASSUME Init PROVE NonceInv /\ AppliedOnce
    OBVIOUS
  <2>1. genesisAt = 0 /\ Len(traces) = 0 /\ pc = "down"
    BY DEF Init
  <2>2. \A t : t \notin 0 + 1 .. 0
    OBVIOUS
  <2>3. NonceInv
    BY <2>1, <2>2 DEF NonceInv, Recent
  <2>4. AppliedOnce
    BY <2>1, <2>2 DEF AppliedOnce
  <2> QED
    BY <2>3, <2>4
<1> QED
  BY <1>1, TypeInvariant, NonceStep, PTL DEF Spec

-----------------------------------------------------------------------------
(* A batch is in one place of the pipeline. *)

\* The parts of OneJobPerBatch: the queue, the waiting calls, and the worker.
QueueDistinct ==
  /\ \A i, j \in 1 .. Len(queue) : queue[i] = queue[j] => i = j
  /\ \A i \in 1 .. Len(queue) : states[queue[i]] = "Pending"

CallsDistinct ==
  /\ \A c, d \in Calls : waiting[c] # NoBatch /\ waiting[c] = waiting[d] => c = d
  /\ \A c \in Calls : waiting[c] # NoBatch =>
       /\ states[waiting[c]] = "Pending"
       /\ \A i \in 1 .. Len(queue) : queue[i] # waiting[c]

AtWork == pc \in Busy \cup {"dead"}

WorkerDistinct == \A b \in BatchIds : states[b] = "InProgress" <=> AtWork /\ job = b

LEMMA JobParts ==
  /\ OneJobPerBatch <=> QueueDistinct /\ CallsDistinct /\ WorkerDistinct
  /\ OneJobPerBatch' <=> QueueDistinct' /\ CallsDistinct' /\ WorkerDistinct'
<1>1. OneJobPerBatch <=> QueueDistinct /\ CallsDistinct /\ WorkerDistinct
  BY Zenon DEF OneJobPerBatch, QueueDistinct, CallsDistinct, WorkerDistinct, AtWork
<1>2. OneJobPerBatch' <=> QueueDistinct' /\ CallsDistinct' /\ WorkerDistinct'
  BY Zenon DEF OneJobPerBatch, QueueDistinct, CallsDistinct, WorkerDistinct, AtWork
<1> QED
  BY <1>1, <1>2

LEMMA JobFrame ==
  OneJobPerBatch /\ UNCHANGED <<states, queue, waiting>> /\ (AtWork' <=> AtWork) /\ job' = job
    => OneJobPerBatch'
<1> SUFFICES ASSUME OneJobPerBatch, UNCHANGED <<states, queue, waiting>>, AtWork' <=> AtWork,
                    job' = job
             PROVE  OneJobPerBatch'
  OBVIOUS
<1>1. QueueDistinct'
  BY JobParts DEF QueueDistinct
<1>2. CallsDistinct'
  BY JobParts DEF CallsDistinct
<1>3. WorkerDistinct'
  BY JobParts DEF WorkerDistinct
<1> QED
  BY <1>1, <1>2, <1>3, JobParts

LEMMA JobHandlers ==
  ASSUME TypeInv, OneJobPerBatch, Handlers
  PROVE  OneJobPerBatch'
<1>1. ServiceType /\ QueueDistinct /\ CallsDistinct /\ WorkerDistinct
  BY TypeParts, JobParts DEF TypeInv
<1>2. AtWork' = AtWork /\ job' = job
  BY HandlersType DEF AtWork, workerVars
<1>3. Len(queue) \in Nat /\ \A i \in 1 .. Len(queue) : queue[i] \in BatchIds
  BY <1>1 DEF ServiceType
<1>4. ASSUME NEW b \in BatchIds, PublishBatch(b) PROVE OneJobPerBatch'
  <2>1. /\ Len(queue') = Len(queue) + 1 /\ queue'[Len(queue) + 1] = b
        /\ \A i \in 1 .. Len(queue) : queue'[i] = queue[i]
    BY <1>1, <1>4, Appended DEF PublishBatch, ServiceType
  <2>2. \A i \in 1 .. Len(queue') : i = Len(queue) + 1 \/ i \in 1 .. Len(queue)
    BY <1>3, <2>1
  <2>3. states[b] \in {"none", "Failed"} /\ \A c \in Calls : waiting[c] = NoBatch
    BY <1>4 DEF PublishBatch, Admissible, Free
  <2>4. states' = [states EXCEPT ![b] = "Pending"] /\ waiting' = waiting
    BY <1>4 DEF PublishBatch
  <2>5. \A i \in 1 .. Len(queue) : queue[i] # b
    BY <1>1, <2>3 DEF QueueDistinct
  <2>6. QueueDistinct'
    <3>1. \A i, j \in 1 .. Len(queue') : queue'[i] = queue'[j] => i = j
      BY <1>1, <2>1, <2>2, <2>5 DEF QueueDistinct
    <3>2. \A i \in 1 .. Len(queue') : states'[queue'[i]] = "Pending"
      BY <1>1, <1>3, <2>1, <2>2, <2>4 DEF QueueDistinct, ServiceType
    <3> QED
      BY <3>1, <3>2 DEF QueueDistinct
  <2>7. CallsDistinct'
    BY <2>3, <2>4 DEF CallsDistinct
  <2>8. WorkerDistinct'
    BY <1>1, <1>2, <2>3, <2>4 DEF WorkerDistinct, ServiceType
  <2> QED
    BY <2>6, <2>7, <2>8, JobParts
<1>5. ASSUME NEW b \in BatchIds, PublishUnavailable(b) PROVE OneJobPerBatch'
  <2>1. /\ states[b] \in {"none", "Failed"} /\ states' = [states EXCEPT ![b] = "Failed"]
        /\ UNCHANGED <<queue, waiting>>
    BY <1>5 DEF PublishUnavailable, Admissible
  <2>2. QueueDistinct'
    BY <1>1, <1>3, <2>1 DEF QueueDistinct, ServiceType
  <2>3. CallsDistinct'
    BY <1>1, <2>1 DEF CallsDistinct, ServiceType
  <2>4. WorkerDistinct'
    BY <1>1, <1>2, <2>1 DEF WorkerDistinct, ServiceType
  <2> QED
    BY <2>2, <2>3, <2>4, JobParts
<1>6. ASSUME NEW c \in Calls, NEW b \in BatchIds, PublishWaits(c, b) PROVE OneJobPerBatch'
  <2>1. /\ states[b] \in {"none", "Failed"} /\ states' = [states EXCEPT ![b] = "Pending"]
        /\ waiting[c] = NoBatch /\ waiting' = [waiting EXCEPT ![c] = b] /\ queue' = queue
    BY <1>6 DEF PublishWaits, Admissible
  <2>2. QueueDistinct'
    BY <1>1, <1>3, <2>1 DEF QueueDistinct, ServiceType
  <2>3. \A d \in Calls : waiting[d] # b
    BY <1>1, <2>1, Bounds DEF CallsDistinct
  <2>4. \A i \in 1 .. Len(queue) : queue[i] # b
    BY <1>1, <2>1 DEF QueueDistinct
  <2>5. \A d \in Calls : waiting'[d] = IF d = c THEN b ELSE waiting[d]
    BY <1>1, <2>1 DEF ServiceType
  <2>6. \A d \in Calls : waiting[d] # NoBatch => waiting[d] \in BatchIds
    BY <1>1 DEF ServiceType
  <2>7. CallsDistinct'
    <3>1. \A d, e \in Calls : waiting'[d] # NoBatch /\ waiting'[d] = waiting'[e] => d = e
      BY <1>1, <2>3, <2>5 DEF CallsDistinct
    <3>2. \A d \in Calls : waiting'[d] # NoBatch => states'[waiting'[d]] = "Pending"
      BY <1>1, <2>1, <2>5, <2>6 DEF CallsDistinct, ServiceType
    <3>3. \A d \in Calls : waiting'[d] # NoBatch =>
            \A i \in 1 .. Len(queue') : queue'[i] # waiting'[d]
      BY <1>1, <2>1, <2>4, <2>5 DEF CallsDistinct
    <3> QED
      BY <3>1, <3>2, <3>3 DEF CallsDistinct
  <2>8. WorkerDistinct'
    BY <1>1, <1>2, <2>1 DEF WorkerDistinct, ServiceType
  <2> QED
    BY <2>2, <2>7, <2>8, JobParts
<1>7. ASSUME NEW c \in Calls, Admit(c) PROVE OneJobPerBatch'
  <2> DEFINE b == waiting[c]
  <2>1. b \in BatchIds /\ b # NoBatch
    BY <1>1, <1>7, Bounds DEF Admit, ServiceType
  <2>2. /\ Len(queue') = Len(queue) + 1 /\ queue'[Len(queue) + 1] = b
        /\ \A i \in 1 .. Len(queue) : queue'[i] = queue[i]
    BY <1>1, <1>7, <2>1, Appended DEF Admit, ServiceType
  <2>3. \A i \in 1 .. Len(queue') : i = Len(queue) + 1 \/ i \in 1 .. Len(queue)
    BY <1>3, <2>2
  <2>4. states[b] = "Pending" /\ \A i \in 1 .. Len(queue) : queue[i] # b
    BY <1>1, <2>1 DEF CallsDistinct
  <2>5. states' = states /\ waiting' = [waiting EXCEPT ![c] = NoBatch]
    BY <1>7 DEF Admit
  <2>6. \A d \in Calls : waiting'[d] = IF d = c THEN NoBatch ELSE waiting[d]
    BY <1>1, <2>5 DEF ServiceType
  <2>7. \A d \in Calls : d # c => waiting[d] # b
    BY <1>1, <2>1 DEF CallsDistinct
  <2> HIDE DEF b
  <2>8. QueueDistinct'
    <3>1. \A i, j \in 1 .. Len(queue') : queue'[i] = queue'[j] => i = j
      BY <1>1, <2>2, <2>3, <2>4 DEF QueueDistinct
    <3>2. \A i \in 1 .. Len(queue') : states'[queue'[i]] = "Pending"
      BY <1>1, <2>2, <2>3, <2>4, <2>5 DEF QueueDistinct
    <3> QED
      BY <3>1, <3>2 DEF QueueDistinct
  <2>9. CallsDistinct'
    <3>1. \A d, e \in Calls : waiting'[d] # NoBatch /\ waiting'[d] = waiting'[e] => d = e
      BY <1>1, <2>6 DEF CallsDistinct
    <3>2. \A d \in Calls : waiting'[d] # NoBatch => states'[waiting'[d]] = "Pending"
      BY <1>1, <2>5, <2>6 DEF CallsDistinct
    <3>3. \A d \in Calls : waiting'[d] # NoBatch =>
            \A i \in 1 .. Len(queue') : queue'[i] # waiting'[d]
      BY <1>1, <2>2, <2>3, <2>6, <2>7 DEF CallsDistinct
    <3> QED
      BY <3>1, <3>2, <3>3 DEF CallsDistinct
  <2>10. WorkerDistinct'
    BY <1>1, <1>2, <2>5 DEF WorkerDistinct
  <2> QED
    BY <2>8, <2>9, <2>10, JobParts
<1>8. ASSUME NEW c \in Calls, Cancel(c) PROVE OneJobPerBatch'
  <2>1. UNCHANGED <<states, queue>> /\ waiting' = [waiting EXCEPT ![c] = NoBatch]
    BY <1>8 DEF Cancel
  <2>2. \A d \in Calls : waiting'[d] = IF d = c THEN NoBatch ELSE waiting[d]
    BY <1>1, <2>1 DEF ServiceType
  <2>3. QueueDistinct'
    BY <1>1, <2>1 DEF QueueDistinct
  <2>4. CallsDistinct'
    BY <1>1, <2>1, <2>2 DEF CallsDistinct
  <2>5. WorkerDistinct'
    BY <1>1, <1>2, <2>1 DEF WorkerDistinct
  <2> QED
    BY <2>3, <2>4, <2>5, JobParts
<1> QED
  BY <1>4, <1>5, <1>6, <1>7, <1>8, Zenon DEF Handlers

LEMMA JobFinish ==
  ASSUME TypeInv, OneJobPerBatch, pc \in Busy, NEW o \in {"Completed", "Failed"}, Finish(o),
         UNCHANGED <<queue, waiting>>
  PROVE  OneJobPerBatch'
<1>1. ServiceType /\ WorkerType /\ QueueDistinct /\ CallsDistinct /\ WorkerDistinct
  BY TypeParts, JobParts DEF TypeInv
<1>2. job \in BatchIds /\ states[job] = "InProgress"
  BY <1>1 DEF WorkerType, WorkerDistinct, AtWork
<1>3. /\ states' = [states EXCEPT ![job] = o] /\ pc' = "idle"
  BY DEF Finish
<1>4. \A b \in BatchIds : states'[b] = IF b = job THEN o ELSE states[b]
  BY <1>1, <1>3 DEF ServiceType
<1>5. \A i \in 1 .. Len(queue) : queue[i] \in BatchIds /\ queue[i] # job
  BY <1>1, <1>2 DEF ServiceType, QueueDistinct
<1>6. \A c \in Calls : waiting[c] # NoBatch => waiting[c] \in BatchIds /\ waiting[c] # job
  BY <1>1, <1>2 DEF ServiceType, CallsDistinct
<1>7. QueueDistinct'
  BY <1>1, <1>4, <1>5 DEF QueueDistinct
<1>8. CallsDistinct'
  BY <1>1, <1>4, <1>6 DEF CallsDistinct
<1>9. WorkerDistinct'
  BY <1>1, <1>3, <1>4 DEF WorkerDistinct, AtWork, Busy
<1> QED
  BY <1>7, <1>8, <1>9, JobParts

LEMMA JobWorker ==
  ASSUME TypeInv, OneJobPerBatch, Worker
  PROVE  OneJobPerBatch'
<1>1. ServiceType /\ WorkerType /\ QueueDistinct /\ CallsDistinct /\ WorkerDistinct
  BY TypeParts, JobParts DEF TypeInv
<1>2. Len(queue) \in Nat /\ \A i \in 1 .. Len(queue) : queue[i] \in BatchIds
  BY <1>1 DEF ServiceType
<1>3. CASE Take
  <2> DEFINE b == Head(queue)
  <2>1. /\ b \in BatchIds /\ Len(queue) \in Nat \ {0} /\ Len(queue') = Len(queue) - 1
        /\ b = queue[1]
        /\ \A i \in 1 .. Len(queue) - 1 : queue'[i] = queue[i + 1]
    BY <1>1, <1>3, TailOf DEF Take, ServiceType
  <2>2. /\ pc = "idle" /\ pc' = "execute" /\ job' = b /\ waiting' = waiting
        /\ states' = [states EXCEPT ![b] = "InProgress"]
    BY <1>3 DEF Take
  <2> HIDE DEF b
  <2>3. \A d \in BatchIds : states'[d] = IF d = b THEN "InProgress" ELSE states[d]
    BY <1>1, <2>2 DEF ServiceType
  <2>4. \A i \in 1 .. Len(queue') : i + 1 \in 1 .. Len(queue) /\ i + 1 # 1 /\ queue'[i] = queue[i + 1]
    BY <2>1
  <2>5. 1 \in 1 .. Len(queue)
    BY <2>1
  <2>6. \A i \in 1 .. Len(queue') : queue'[i] # b
    BY <1>1, <2>1, <2>4, <2>5 DEF QueueDistinct
  <2>7. QueueDistinct'
    <3>1. ASSUME NEW i \in 1 .. Len(queue'), NEW j \in 1 .. Len(queue'), queue'[i] = queue'[j]
          PROVE  i = j
      <4>1. i + 1 = j + 1
        BY <1>1, <2>4, <3>1 DEF QueueDistinct
      <4> QED
        BY <4>1
    <3>2. \A i \in 1 .. Len(queue') : states'[queue'[i]] = "Pending"
      BY <1>1, <1>2, <2>3, <2>4, <2>6 DEF QueueDistinct
    <3> QED
      BY <3>1, <3>2 DEF QueueDistinct
  <2>8. \A c \in Calls : waiting[c] # NoBatch => waiting[c] \in BatchIds /\ waiting[c] # b
    BY <1>1, <2>1, <2>5 DEF CallsDistinct, ServiceType
  <2>9. CallsDistinct'
    <3>1. \A c, d \in Calls : waiting'[c] # NoBatch /\ waiting'[c] = waiting'[d] => c = d
      BY <1>1, <2>2 DEF CallsDistinct
    <3>2. \A c \in Calls : waiting'[c] # NoBatch => states'[waiting'[c]] = "Pending"
      BY <1>1, <2>2, <2>3, <2>8 DEF CallsDistinct
    <3>3. \A c \in Calls : waiting'[c] # NoBatch =>
            \A i \in 1 .. Len(queue') : queue'[i] # waiting'[c]
      BY <1>1, <2>2, <2>4 DEF CallsDistinct
    <3> QED
      BY <3>1, <3>2, <3>3 DEF CallsDistinct
  <2>10. AtWork' /\ ~AtWork
    BY <2>2 DEF AtWork, Busy
  <2>11. WorkerDistinct'
    BY <1>1, <2>2, <2>3, <2>10 DEF WorkerDistinct
  <2> QED
    BY <2>7, <2>9, <2>11, JobParts
<1>4. CASE Panic
  <2>1. /\ pc = "execute" /\ pc' = "dead" /\ queue' = << >> /\ job' = job
        /\ \A c \in Calls : waiting'[c] = NoBatch
        /\ states' = [b \in BatchIds |-> IF \E c \in Calls : waiting[c] = b THEN "Failed"
                                         ELSE states[b]]
    BY <1>4 DEF Panic
  <2>2. QueueDistinct'
    BY <2>1 DEF QueueDistinct
  <2>3. CallsDistinct'
    BY <2>1 DEF CallsDistinct
  <2>4. \A b \in BatchIds : (\E c \in Calls : waiting[c] = b) => states[b] = "Pending"
    BY <1>1, Bounds DEF CallsDistinct
  <2>5. AtWork' /\ AtWork
    BY <2>1 DEF AtWork, Busy
  <2>6. \A b \in BatchIds : states'[b] = "InProgress" <=> states[b] = "InProgress"
    BY <2>1, <2>4
  <2>7. WorkerDistinct'
    BY <1>1, <2>1, <2>5, <2>6 DEF WorkerDistinct
  <2> QED
    BY <2>2, <2>3, <2>7, JobParts
<1>5. CASE Debit \/ Credit \/ AppendLifecycle \/ PersistTrace \/ GenerateArtifacts \/ Publish
  <2>1. pc \in Busy /\ pc' \in Busy /\ UNCHANGED <<states, queue, waiting, job>>
    BY <1>5 DEF Debit, Credit, AppendLifecycle, PersistTrace, GenerateArtifacts, Publish, Busy
  <2> QED
    BY <2>1, JobFrame DEF AtWork
<1>6. CASE PublishUnheard \/ JobError
  <2>1. pc \in Busy /\ Finish("Failed") /\ UNCHANGED <<queue, waiting>>
    BY <1>6 DEF PublishUnheard, JobError, Busy
  <2> QED
    BY <2>1, JobFinish
<1>7. CASE Complete
  <2>1. pc \in Busy /\ Finish("Completed") /\ UNCHANGED <<queue, waiting>>
    BY <1>7 DEF Complete, Busy
  <2> QED
    BY <2>1, JobFinish
<1> QED
  BY <1>3, <1>4, <1>5, <1>6, <1>7 DEF Worker

LEMMA JobStep == TypeInv /\ OneJobPerBatch /\ [Next]_vars => OneJobPerBatch'
<1> SUFFICES ASSUME TypeInv, OneJobPerBatch, [Next]_vars PROVE OneJobPerBatch'
  OBVIOUS
<1>1. CASE Start
  <2>1. UNCHANGED <<states, queue, waiting, job>> /\ pc = "down" /\ pc' = "idle"
    BY <1>1 DEF Start
  <2> QED
    BY <2>1, JobFrame DEF AtWork, Busy
<1>2. CASE Crash
  <2>1. /\ pc' = "down" /\ queue' = << >>
        /\ \A b \in BatchIds : states'[b] = "none"
        /\ \A c \in Calls : waiting'[c] = NoBatch
    BY <1>2 DEF Crash
  <2>2. QueueDistinct' /\ CallsDistinct'
    BY <2>1 DEF QueueDistinct, CallsDistinct
  <2>3. WorkerDistinct'
    BY <2>1 DEF WorkerDistinct, AtWork, Busy
  <2> QED
    BY <2>2, <2>3, JobParts
<1>3. CASE Resets \/ Streams \/ UNCHANGED vars
  <2>1. UNCHANGED <<states, queue, waiting, job, pc>>
    BY <1>3, StreamsType DEF Resets, ResetState, ResetStateFails, vars, workerVars
  <2> QED
    BY <2>1, JobFrame DEF AtWork
<1> QED
  BY <1>1, <1>2, <1>3, JobHandlers, JobWorker, NextParts

\* No batch is ever worked on twice at the same time, whatever is retried, waits, fails
\* or is cancelled: publish_batch takes a batch only when batch_states has it nowhere
\* in the pipeline.
THEOREM OneJob == Spec => []OneJobPerBatch
<1>1. Init => OneJobPerBatch
  <2> SUFFICES ASSUME Init PROVE OneJobPerBatch
    OBVIOUS
  <2>1. QueueDistinct /\ CallsDistinct
    BY DEF Init, QueueDistinct, CallsDistinct
  <2>2. WorkerDistinct
    BY Zenon DEF Init, WorkerDistinct, AtWork, Busy
  <2> QED
    BY <2>1, <2>2, JobParts
<1> QED
  BY <1>1, TypeInvariant, JobStep, PTL DEF Spec

-----------------------------------------------------------------------------
(* The trace index and the payloads that went out. *)

Out(t) == \E i \in 1 .. Len(published) : published[i] = t

\* Whatever a step does, it takes back no trace, file, line or broadcast.
LEMMA Grows ==
  ASSUME TypeInv, [Next]_vars
  PROVE  /\ index \subseteq index' /\ files \subseteq files'
         /\ Len(published) \in Nat /\ Len(published') \in Nat /\ Len(published) <= Len(published')
         /\ \A i \in 1 .. Len(published) : published'[i] = published[i]
         /\ Len(traces) \in Nat /\ Len(traces') \in Nat /\ Len(traces) <= Len(traces')
         /\ \A t \in 1 .. Len(traces) : traces'[t] = traces[t]
<1>1. HistType /\ WorkerType /\ HasTrace
  BY TypeParts DEF TypeInv
<1>2. index \subseteq index' /\ files \subseteq files'
  <2>1. CASE Worker
    BY <2>1 DEF Worker, Take, Panic, Debit, Credit, AppendLifecycle, PersistTrace,
       GenerateArtifacts, Publish, PublishUnheard, Complete, JobError, diskVars
  <2>2. CASE Start \/ Crash \/ Resets \/ UNCHANGED vars
    BY <2>2 DEF Start, Crash, Resets, ResetState, ResetStateFails, vars, diskVars
  <2> QED
    BY <2>1, <2>2, NextParts, HandlersType, StreamsType DEF diskVars
<1>3. \/ published' = published
      \/ pc = "publish" /\ published' = Append(published, trace)
  <2>1. CASE Worker
    BY <2>1 DEF Worker, Take, Panic, Debit, Credit, AppendLifecycle, PersistTrace,
       GenerateArtifacts, Publish, PublishUnheard, Complete, JobError, histVars
  <2>2. CASE Start \/ Crash \/ Resets \/ UNCHANGED vars
    BY <2>2 DEF Start, Crash, Resets, ResetState, ResetStateFails, vars, histVars
  <2> QED
    BY <2>1, <2>2, NextParts, HandlersType, StreamsType DEF histVars
<1>4. \/ traces' = traces
      \/ pc = "credit" /\ traces' = Append(traces, [batch |-> job, included |-> included])
  <2>1. CASE Worker
    BY <2>1 DEF Worker, Take, Panic, Debit, Credit, AppendLifecycle, PersistTrace,
       GenerateArtifacts, Publish, PublishUnheard, Complete, JobError, histVars
  <2>2. CASE Start \/ Crash \/ Resets \/ UNCHANGED vars
    BY <2>2 DEF Start, Crash, Resets, ResetState, ResetStateFails, vars, histVars
  <2> QED
    BY <2>1, <2>2, NextParts, HandlersType, StreamsType DEF histVars
<1>5. /\ Len(published) \in Nat /\ Len(published') \in Nat /\ Len(published) <= Len(published')
      /\ \A i \in 1 .. Len(published) : published'[i] = published[i]
  <2>1. published \in Seq(TraceIds) /\ Len(published) \in Nat
    BY <1>1 DEF HistType
  <2>2. pc = "publish" => trace \in TraceIds
    BY <1>1, Bounds DEF HasTrace, HistType, Traced, TraceIds
  <2>3. ASSUME trace \in TraceIds, published' = Append(published, trace)
        PROVE  /\ Len(published') = Len(published) + 1
               /\ \A i \in 1 .. Len(published) : published'[i] = published[i]
    BY <2>1, <2>3, Appended
  <2> QED
    BY <1>3, <2>1, <2>2, <2>3
<1>6. /\ Len(traces) \in Nat /\ Len(traces') \in Nat /\ Len(traces) <= Len(traces')
      /\ \A t \in 1 .. Len(traces) : traces'[t] = traces[t]
  <2> DEFINE T == [batch : BatchIds, included : BOOLEAN]
             e == [batch |-> job, included |-> included]
  <2>1. traces \in Seq(T) /\ Len(traces) \in Nat
    BY <1>1 DEF HistType
  <2>2. pc = "credit" => e \in T
    BY <1>1 DEF WorkerType, Busy
  <2>3. traces' = traces \/ (pc = "credit" /\ traces' = Append(traces, e))
    BY <1>4
  <2> HIDE DEF T, e
  <2>4. ASSUME e \in T, traces' = Append(traces, e)
        PROVE  /\ Len(traces') = Len(traces) + 1
               /\ \A t \in 1 .. Len(traces) : traces'[t] = traces[t]
    BY <2>1, <2>4, Appended
  <2> QED
    BY <2>1, <2>2, <2>3, <2>4
<1> QED
  BY <1>2, <1>5, <1>6

\* What a line of the index says, and what the worker has written when it is at pc.
Backed(e) ==
  /\ e[2] # "generated" => <<e[1], "generated">> \in index /\ e[1] \in files
  /\ e[2] \in {"proved", "published"} => <<e[1], "persisted">> \in index
  /\ e[2] = "published" => <<e[1], "proved">> \in index /\ Out(e[1])

Written ==
  /\ pc \in Traced \ {"generated"} => <<trace, "generated">> \in index
  /\ pc \in {"persisted", "prove", "publish", "published"} => trace \in files
  /\ pc \in {"prove", "publish", "published"} => <<trace, "persisted">> \in index
  /\ pc \in {"publish", "published"} => <<trace, "proved">> \in index
  /\ pc = "published" => Out(trace)

IndexInv == (\A e \in index : Backed(e)) /\ Written

LEMMA OutStays == ASSUME TypeInv, [Next]_vars, NEW t, Out(t) PROVE Out(t)'
<1>1. PICK i \in 1 .. Len(published) : published[i] = t
  BY DEF Out
<1>2. i \in 1 .. Len(published') /\ published'[i] = t
  BY <1>1, Grows
<1> QED
  BY <1>2 DEF Out

LEMMA BackedStays == ASSUME TypeInv, [Next]_vars, NEW e, Backed(e) PROVE Backed(e)'
<1>1. index \subseteq index' /\ files \subseteq files'
  BY Grows
<1>2. Out(e[1]) => Out(e[1])'
  BY OutStays
<1> QED
  BY <1>1, <1>2 DEF Backed

LEMMA IndexSteps ==
  ASSUME [Next]_vars
  PROVE  \/ /\ index' = index
            /\ \/ pc' \notin Traced \ {"generated"} \/ (pc' = pc /\ trace' = trace)
               \/ PersistTrace \/ Publish
         \/ AppendLifecycle \/ GenerateArtifacts \/ Complete
<1>1. CASE Worker
  BY <1>1 DEF Worker, Take, Panic, Debit, Credit, PublishUnheard, JobError, Finish,
     PersistTrace, Publish, diskVars, Traced
<1>2. CASE Start \/ Crash \/ Resets \/ UNCHANGED vars
  BY <1>2 DEF Start, Crash, Resets, ResetState, ResetStateFails, vars, diskVars, workerVars, Traced
<1>3. CASE Handlers
  BY <1>3 DEF Handlers, PublishBatch, PublishUnavailable, PublishWaits, Admit, Cancel,
     diskVars, workerVars
<1>4. CASE Streams
  BY <1>4 DEF Streams, Subscribe, Deliver, Disconnect, Reap, diskVars, workerVars
<1> QED
  BY <1>1, <1>2, <1>3, <1>4, NextParts

LEMMA IndexStep == TypeInv /\ IndexInv /\ [Next]_vars => IndexInv'
<1> SUFFICES ASSUME TypeInv, IndexInv, [Next]_vars PROVE IndexInv'
  OBVIOUS
<1>1. \A e \in index : Backed(e)'
  BY BackedStays DEF IndexInv
<1>2. index \subseteq index' /\ files \subseteq files' /\ \A t : Out(t) => Out(t)'
  BY Grows, OutStays
<1>3. Written
  BY DEF IndexInv
<1>4. CASE index' = index /\ pc' \notin Traced \ {"generated"}
  BY <1>1, <1>4 DEF IndexInv, Written, Traced
<1>5. CASE index' = index /\ pc' = pc /\ trace' = trace
  <2>1. Written'
    BY <1>2, <1>3, <1>5 DEF Written
  <2> QED
    BY <1>1, <1>5, <2>1 DEF IndexInv
<1>6. CASE PersistTrace
  <2>1. /\ pc = "persist" /\ pc' = "persisted" /\ index' = index /\ trace' = trace
        /\ trace \in files'
    BY <1>6 DEF PersistTrace
  <2>2. Written'
    BY <1>3, <2>1 DEF Written, Traced
  <2> QED
    BY <1>1, <2>1, <2>2 DEF IndexInv
<1>7. CASE Publish
  <2>1. /\ pc = "publish" /\ pc' = "published" /\ index' = index /\ trace' = trace
        /\ files' = files /\ published' = Append(published, trace)
    BY <1>7 DEF Publish, diskVars
  <2>2. Out(trace)'
    <3>1. HistType /\ WorkerType /\ HasTrace
      BY TypeParts DEF TypeInv
    <3>2. trace \in TraceIds /\ published \in Seq(TraceIds)
      BY <2>1, <3>1, Bounds DEF HasTrace, HistType, Traced, TraceIds
    <3>3. Len(published) \in Nat /\ Len(published') = Len(published) + 1
          /\ published'[Len(published) + 1] = trace
      BY <2>1, <3>2, Appended
    <3>4. Len(published) + 1 \in 1 .. Len(published')
      BY <3>3
    <3> QED
      BY <2>1, <3>3, <3>4 DEF Out
  <2>3. Written'
    BY <1>3, <2>1, <2>2 DEF Written, Traced
  <2> QED
    BY <1>1, <2>1, <2>3 DEF IndexInv
<1>8. CASE AppendLifecycle
  <2>1. /\ pc \in {"generated", "persisted"} /\ trace' = trace /\ files' = files
        /\ index' = index \cup {<<trace, pc>>}
        /\ pc' = IF pc = "generated" THEN "persist" ELSE "prove"
    BY <1>8 DEF AppendLifecycle
  <2>2. ASSUME NEW e, e = <<trace, pc>> PROVE Backed(e)'
    BY <1>3, <2>1, <2>2 DEF Backed, Written, Traced
  <2>3. Written'
    BY <1>3, <2>1 DEF Written, Traced
  <2> QED
    BY <1>1, <2>1, <2>2, <2>3 DEF IndexInv
<1>9. CASE GenerateArtifacts
  <2>1. /\ pc = "prove" /\ pc' = "publish" /\ trace' = trace /\ files' = files
        /\ index' = index \cup {<<trace, "proved">>}
    BY <1>9 DEF GenerateArtifacts
  <2>2. ASSUME NEW e, e = <<trace, "proved">> PROVE Backed(e)'
    BY <1>3, <2>1, <2>2 DEF Backed, Written, Traced
  <2>3. Written'
    BY <1>3, <2>1 DEF Written, Traced
  <2> QED
    BY <1>1, <2>1, <2>2, <2>3 DEF IndexInv
<1>10. CASE Complete
  <2>1. /\ pc = "published" /\ pc' = "idle" /\ files' = files
        /\ index' = index \cup {<<trace, "published">>}
    BY <1>10 DEF Complete, Finish
  <2>2. ASSUME NEW e, e = <<trace, "published">> PROVE Backed(e)'
    BY <1>2, <1>3, <2>1, <2>2 DEF Backed, Written, Traced
  <2>3. Written'
    BY <2>1 DEF Written, Traced
  <2> QED
    BY <1>1, <2>1, <2>2, <2>3 DEF IndexInv
<1> QED
  BY <1>4, <1>5, <1>6, <1>7, <1>8, <1>9, <1>10, IndexSteps

LEMMA IndexInvariant == Spec => []IndexInv
<1>1. Init => IndexInv
  BY DEF Init, IndexInv, Written, Traced
<1> QED
  BY <1>1, TypeInvariant, IndexStep, PTL DEF Spec

\* The trace index tells the truth at every instant, so also after a crash anywhere in
\* process_batch_job: each line follows the lines, the file and the broadcast it implies.
THEOREM IndexCorrect == Spec => []IndexIsHonest
<1>1. IndexInv => IndexIsHonest
  BY Zenon DEF IndexInv, Backed, Out, IndexIsHonest
<1> QED
  BY <1>1, IndexInvariant, PTL

-----------------------------------------------------------------------------
(* What Completed means. *)

Done(b) ==
  \E i \in 1 .. Len(published) :
    /\ published[i] > lifeStart
    /\ traces[published[i]].batch = b
    /\ <<published[i], "published">> \in index

\* Only executed traces go out, and a service that is down remembers no batch.
DoneInv ==
  /\ \A b \in BatchIds : states[b] = "Completed" => Done(b)
  /\ \A i \in 1 .. Len(published) : published[i] \in 1 .. Len(traces)
  /\ pc = "down" => \A b \in BatchIds : states[b] = "none"

LEMMA DoneStays ==
  ASSUME TypeInv, DoneInv, [Next]_vars, lifeStart' = lifeStart, NEW b \in BatchIds, Done(b)
  PROVE  Done(b)'
<1>1. PICK i \in 1 .. Len(published) : /\ published[i] > lifeStart
                                       /\ traces[published[i]].batch = b
                                       /\ <<published[i], "published">> \in index
  BY DEF Done
<1>2. i \in 1 .. Len(published') /\ published'[i] = published[i]
  BY <1>1, Grows
<1>3. traces'[published[i]] = traces[published[i]] /\ <<published[i], "published">> \in index'
  BY <1>1, Grows DEF DoneInv
<1> QED
  BY <1>1, <1>2, <1>3 DEF Done

\* A step that completes no batch keeps what the completed ones had.
LEMMA DoneFrame ==
  ASSUME TypeInv, DoneInv, [Next]_vars, lifeStart' = lifeStart,
         \A b \in BatchIds : states'[b] = "Completed" => states[b] = "Completed"
  PROVE  \A b \in BatchIds : states'[b] = "Completed" => Done(b)'
  BY DoneStays DEF DoneInv

LEMMA DoneSteps ==
  ASSUME TypeInv, [Next]_vars
  PROVE  \/ Start \/ Complete
         \/ /\ lifeStart' = lifeStart
            /\ \A b \in BatchIds : states'[b] = "Completed" => states[b] = "Completed"
<1>1. ServiceType
  BY TypeParts DEF TypeInv
<1>2. CASE Worker
  <2>1. CASE Take
    <3>1. /\ states' = [states EXCEPT ![Head(queue)] = "InProgress"]
          /\ lifeStart' = lifeStart
      BY <2>1 DEF Take, histVars
    <3> QED
      BY <1>1, <3>1 DEF ServiceType
  <2>2. CASE Panic
    BY <2>2 DEF Panic, histVars
  <2>3. CASE Debit \/ Credit \/ AppendLifecycle \/ PersistTrace \/ GenerateArtifacts \/ Publish
    BY <2>3 DEF Debit, Credit, AppendLifecycle, PersistTrace, GenerateArtifacts, Publish, histVars
  <2>4. CASE PublishUnheard \/ JobError
    <3>1. states' = [states EXCEPT ![job] = "Failed"] /\ lifeStart' = lifeStart
      BY <2>4 DEF PublishUnheard, JobError, Finish, histVars
    <3> QED
      BY <1>1, <3>1 DEF ServiceType
  <2> QED
    BY <1>2, <2>1, <2>2, <2>3, <2>4 DEF Worker
<1>3. CASE Crash \/ Resets \/ UNCHANGED vars
  BY <1>3 DEF Crash, Resets, ResetState, ResetStateFails, vars, histVars
<1>4. CASE Handlers
  <2>1. lifeStart' = lifeStart
    BY <1>4, HandlersType DEF histVars
  <2>2. \/ states' = states
        \/ \E b \in BatchIds : \E v \in {"Pending", "Failed"} : states' = [states EXCEPT ![b] = v]
    BY <1>4 DEF Handlers, PublishBatch, PublishUnavailable, PublishWaits, Admit, Cancel
  <2> QED
    BY <1>1, <2>1, <2>2 DEF ServiceType
<1>5. CASE Streams
  BY <1>5, StreamsType DEF histVars
<1> QED
  BY <1>2, <1>3, <1>4, <1>5, NextParts

LEMMA DownSteps ==
  ASSUME TypeInv, DoneInv, [Next]_vars, pc' = "down"
  PROVE  \A b \in BatchIds : states'[b] = "none"
<1>1. ~Worker /\ ~Start
  BY DEF Worker, Take, Panic, Debit, Credit, AppendLifecycle, PersistTrace,
     GenerateArtifacts, Publish, PublishUnheard, Complete, JobError, Finish, Start
<1>2. CASE Crash
  BY <1>2 DEF Crash
<1>3. CASE Handlers
  <2>1. pc = "down"
    BY <1>3, HandlersType DEF workerVars
  <2>2. states' = states
    BY <1>3, <2>1 DEF Handlers, PublishBatch, PublishUnavailable, PublishWaits, Admit, Cancel, Serving
  <2> QED
    BY <2>1, <2>2 DEF DoneInv
<1>4. CASE Resets \/ Streams \/ UNCHANGED vars
  <2>1. states' = states /\ pc' = pc
    BY <1>4, StreamsType DEF Resets, ResetState, ResetStateFails, vars, workerVars
  <2> QED
    BY <2>1 DEF DoneInv
<1> QED
  BY <1>1, <1>2, <1>3, <1>4, NextParts

LEMMA SentTracesExist ==
  ASSUME TypeInv, DoneInv, [Next]_vars
  PROVE  \A i \in 1 .. Len(published') : published'[i] \in 1 .. Len(traces')
<1>1. HistType /\ WorkerType /\ HasTrace
  BY TypeParts DEF TypeInv
<1>2. CASE Publish
  <2>1. pc = "publish" /\ published' = Append(published, trace) /\ traces' = traces
    BY <1>2 DEF Publish
  <2>2. trace \in TraceIds /\ published \in Seq(TraceIds) /\ trace \in 1 .. Len(traces)
    BY <1>1, <2>1, Bounds DEF HasTrace, HistType, Traced, TraceIds
  <2>3. /\ Len(published) \in Nat /\ Len(published') = Len(published) + 1
        /\ published'[Len(published) + 1] = trace
        /\ \A i \in 1 .. Len(published) : published'[i] = published[i]
    BY <2>1, <2>2, Appended
  <2>4. \A i \in 1 .. Len(published') : i = Len(published) + 1 \/ i \in 1 .. Len(published)
    BY <2>3
  <2> QED
    BY <2>1, <2>2, <2>3, <2>4 DEF DoneInv
<1>3. CASE published' = published
  BY <1>3, Grows DEF DoneInv
<1>4. Publish \/ published' = published
  <2>1. CASE Worker
    BY <2>1 DEF Worker, Take, Panic, Debit, Credit, AppendLifecycle, PersistTrace,
       GenerateArtifacts, PublishUnheard, Complete, JobError, histVars
  <2>2. CASE Start \/ Crash \/ Resets \/ UNCHANGED vars
    BY <2>2 DEF Start, Crash, Resets, ResetState, ResetStateFails, vars, histVars
  <2> QED
    BY <2>1, <2>2, NextParts, HandlersType, StreamsType DEF histVars
<1> QED
  BY <1>2, <1>3, <1>4

LEMMA DoneStep == TypeInv /\ IndexInv /\ DoneInv /\ [Next]_vars => DoneInv'
<1> SUFFICES ASSUME TypeInv, IndexInv, DoneInv, [Next]_vars PROVE DoneInv'
  OBVIOUS
<1>1. \A b \in BatchIds : states'[b] = "Completed" => Done(b)'
  <2>1. CASE Start
    BY <2>1 DEF Start, DoneInv
  <2>2. CASE Complete
    <3>1. ServiceType /\ HasTrace
      BY TypeParts DEF TypeInv
    <3>2. /\ pc = "published" /\ states' = [states EXCEPT ![job] = "Completed"]
          /\ index' = index \cup {<<trace, "published">>}
          /\ UNCHANGED <<traces, published, lifeStart>>
      BY <2>2 DEF Complete, Finish, histVars
    <3>3. Out(trace) /\ trace > lifeStart /\ traces[trace].batch = job
      BY <3>1, <3>2 DEF IndexInv, Written, HasTrace, Traced
    <3>4. PICK i \in 1 .. Len(published) : published[i] = trace
      BY <3>3 DEF Out
    <3>5. ASSUME NEW b \in BatchIds, b = job PROVE Done(b)'
      BY <3>2, <3>3, <3>4, <3>5 DEF Done
    <3>6. ASSUME NEW b \in BatchIds, b # job, states'[b] = "Completed" PROVE Done(b)'
      <4>1. states[b] = "Completed"
        BY <3>1, <3>2, <3>6 DEF ServiceType
      <4> QED
        BY <3>2, <4>1, DoneStays DEF DoneInv
    <3> QED
      BY <3>5, <3>6
  <2> QED
    BY <2>1, <2>2, DoneSteps, DoneFrame
<1>2. \A i \in 1 .. Len(published') : published'[i] \in 1 .. Len(traces')
  BY SentTracesExist
<1>3. pc' = "down" => \A b \in BatchIds : states'[b] = "none"
  BY DownSteps
<1> QED
  BY <1>1, <1>2, <1>3, Zenon DEF DoneInv

\* A batch reported Completed had its payload broadcast, and recorded as published,
\* since the service started: batch_states is only ever set after the send returned.
THEOREM CompletedCorrect == Spec => []CompletedWasPublished
<1>1. Init => DoneInv
  BY DEF Init, DoneInv
<1>2. DoneInv => CompletedWasPublished
  BY DEF DoneInv, Done, CompletedWasPublished
<1> QED
  BY <1>1, <1>2, TypeInvariant, IndexInvariant, DoneStep, PTL DEF Spec
=============================================================================
