------------------------------ MODULE Pipeline ------------------------------
(***************************************************************************)
(* The way of a batch from the executor to L1: the executor's worker and   *)
(* its stream (executor/src/service.rs), the submitter's gRPC batch source *)
(* (submitter/src/infrastructure/batch_source.rs) and the daemon of module *)
(* Submitter, of which every action is taken over.                         *)
(*                                                                         *)
(* One worker executes and publishes the batches one after another, so     *)
(* they are numbered in the order of the state changes they prove, and     *)
(* ZKRollupBridge.sol takes over the root of whatever batch it accepts     *)
(* last.                                                                   *)
(*                                                                         *)
(* A fault is a step the code survives but nobody wants: a crash of either *)
(* side, a failed job, a broken connection, an error of the node, an       *)
(* eviction, a revert or a reorg.                                          *)
(***************************************************************************)
EXTENDS Submitter

CONSTANTS
  LastBatch,       \* bound: batches executed
  StreamCapacity,  \* of the broadcast channel
  MaxFaults        \* bound: faults

ASSUME PipelineAssumption ==
  /\ LastBatch \in Nat /\ BatchIds = 1 .. LastBatch
  /\ StreamCapacity \in Nat \ {0} /\ MaxFaults \in Nat
  /\ ~OutboxMayFail /\ ~DiskMayFail

VARIABLES
  executed,   \* batches the executor's worker has finished with
  forgotten,  \* the executor restarted since, and batch_states is empty
  link,       \* the source's stream: "none", "up", or "broken" before it notices
  inflight,   \* payloads on their way to the source
  \* history
  faults,
  starts      \* the lengths sent had when the daemon crashed

pipeVars == <<vars, executed, forgotten, link, inflight, faults, starts>>

PipelineInit ==
  /\ Init
  /\ executed = 0 /\ forgotten = FALSE /\ link = "none" /\ inflight = << >>
  /\ faults = 0 /\ starts = {}

Fault == faults < MaxFaults /\ faults' = faults + 1

-----------------------------------------------------------------------------
(* The executor's side. *)

\* As if the payload were put in front.
PushFirst(b) == <<b>> \o IF Len(inflight) < StreamCapacity THEN inflight
                         ELSE SubSeq(inflight, 1, Len(inflight) - 1)

\* The broadcast channel overwrites the oldest payload it holds.
Push(b) == Append(IF Len(inflight) < StreamCapacity THEN inflight ELSE Tail(inflight), b)

\* self.tx.send: the payload is for those who listen, and is not kept for others.
Send(b) == inflight' = IF link = "up" THEN Push(b) ELSE inflight

\* The worker executes and proves the next batch and publishes it.
Publish ==
  /\ executed < LastBatch
  /\ executed' = executed + 1 /\ forgotten' = FALSE
  /\ Send(executed + 1)
  /\ UNCHANGED <<vars, link, faults, starts>>

\* The job fails after execute_batch: the state has moved, nothing is published.
JobFails ==
  /\ executed < LastBatch /\ Fault
  /\ executed' = executed + 1 /\ forgotten' = FALSE
  /\ UNCHANGED <<vars, link, inflight, starts>>

\* The connection breaks; what had arrived can still be read.
LinkBreaks ==
  /\ link' = IF link = "up" THEN "broken" ELSE link
  /\ \E n \in 0 .. Len(inflight) : inflight' = SubSeq(inflight, 1, n)

ExecutorCrash ==
  /\ executed > 0 /\ Fault /\ LinkBreaks
  /\ forgotten' = TRUE
  /\ UNCHANGED <<vars, executed, starts>>

\* The sequencer got no answer to its last publish_batch and repeats it: the
\* restarted executor does not know the batch and publishes it again.
PublishAgain ==
  /\ forgotten
  /\ Send(executed)
  /\ forgotten' = FALSE
  /\ UNCHANGED <<vars, executed, link, faults, starts>>

-----------------------------------------------------------------------------
(* The batch source: next_batch runs only while the daemon is idle. *)

\* connect and get_stream.  Only what is published from now on comes.
GetStream ==
  /\ pc = "idle" /\ link = "none"
  /\ link' = "up"
  /\ UNCHANGED <<vars, executed, forgotten, inflight, faults, starts>>

Break ==
  /\ link = "up" /\ Fault /\ LinkBreaks
  /\ UNCHANGED <<vars, executed, forgotten, starts>>

\* As if the stream were read again after it ended.
StreamEndedKeepsStream ==
  /\ pc = "idle" /\ link = "broken" /\ inflight = << >>
  /\ UNCHANGED pipeVars

\* message() returns None or an error: the stream and the client are dropped.
StreamEnded ==
  /\ pc = "idle" /\ link = "broken" /\ inflight = << >>
  /\ link' = "none"
  /\ UNCHANGED <<vars, executed, forgotten, inflight, faults, starts>>

\* next_batch returns the next payload.
Receive ==
  /\ inflight # << >>
  /\ Fetch(Head(inflight))
  /\ inflight' = Tail(inflight)
  /\ UNCHANGED <<executed, forgotten, link, faults, starts>>

-----------------------------------------------------------------------------
(* The daemon and L1. *)

streamVars == <<executed, forgotten, link, inflight>>

\* What the daemon does when nothing goes wrong, and what it cannot but do.
Work ==
  /\ \/ WriteFile \/ Compress \/ SubmitOffChain \/ Submit
     \/ AwaitReceipt \/ AwaitDropped \/ Record \/ Confirm \/ Cleanup
     \/ RecordBump \/ RecoverDone \/ Resubmit \/ ResubmitReceipt \/ ResubmitRecord
     \/ ResubmitConfirm \/ ResubmitDropped \/ ResumeDone
     \/ resume # << >> /\ Head(resume) \notin files /\ ResubmitError
     \/ \E b \in BatchIds : \/ RecoverInterrupted(b) \/ RecoverGiveUp(b)
                            \/ RecoverBump(b) \/ RecoverSkip(b)
  /\ UNCHANGED <<streamVars, faults, starts>>

NodeError ==
  /\ Fault
  /\ \/ SubmitError \/ AwaitError \/ ResubmitAwaitError
     \/ resume # << >> /\ Head(resume) \in files /\ ResubmitError
     \/ Mine(FALSE) \/ Evict \/ Reorg
  /\ UNCHANGED <<streamVars, starts>>

Settle == Mine(TRUE) /\ UNCHANGED <<streamVars, faults, starts>>

Wait ==
  /\ Start \/ \E b \in BatchIds : Age(b)
  /\ UNCHANGED <<streamVars, faults, starts>>

\* The stream dies with the daemon.
DaemonCrash ==
  /\ Crash /\ Fault
  /\ link' = "none" /\ inflight' = << >>
  /\ starts' = starts \cup {Len(sent)}
  /\ UNCHANGED <<executed, forgotten>>

PipelineNext ==
  \/ Publish \/ JobFails \/ ExecutorCrash \/ PublishAgain
  \/ GetStream \/ Break \/ StreamEnded \/ Receive
  \/ Work \/ NodeError \/ Settle \/ Wait \/ DaemonCrash

\* The daemon's task runs while it is up, and L1 includes what waits.  Nothing
\* obliges the executor to publish or anyone to start the daemon.
PipelineSpec ==
  /\ PipelineInit /\ [][PipelineNext]_pipeVars
  /\ WF_pipeVars(GetStream) /\ WF_pipeVars(StreamEnded) /\ WF_pipeVars(Receive)
  /\ WF_pipeVars(Work) /\ WF_pipeVars(Settle)

-----------------------------------------------------------------------------
(* Properties. *)

BatchOf(i) == sent[mined[i].tx].batch

\* Within one life of the daemon the batches go to L1 in the order the executor
\* proved them, those that recovery takes up before polling included: the rows come
\* ordered by last_updated, the loop takes one batch at a time, and the stream
\* neither reorders nor replays.
LifeInOrder ==
  \A s, t \in lifeStart + 1 .. Len(sent) :
    s < t /\ ~sent[s].bump /\ ~sent[t].bump => sent[s].batch < sent[t].batch

\* The bridge takes the root of whatever comes last, so an older batch accepted after
\* a newer one sets the rollup back.  Short of an L1 reorg that takes a restart: a
\* batch left behind by an error is overtaken, and only recovery brings it up again.
SetBackNeedsRestart ==
  \A i, j \in 1 .. Len(mined) :
    /\ reorgs = 0 /\ i < j /\ mined[i].ok /\ mined[j].ok
    /\ BatchOf(j) <= BatchOf(i)
    => \E n \in starts : mined[i].tx <= n /\ n < mined[j].tx

Waits(b) == \E i \in 1 .. Len(inflight) : inflight[i] = b

\* A payload that waits for a running daemon, or a compressed row that recovery has
\* still to look at.
Held(b) ==
  \/ Waits(b) /\ state[b] = "none"
  \/ pc = "recover" /\ b \in todo /\ state[b] = "Compressed" /\ b \in files

Settled(b) == \E i \in 1 .. Len(mined) : mined[i].ok /\ BatchOf(i) = b

\* A batch the daemon is offered, or finds again at its start, gets to L1 unless
\* something new goes wrong: neither earlier faults nor the batches before it hold it
\* up.  Only a full channel may drop it.
HeldIsSettled ==
  \A b \in BatchIds : \A f \in 0 .. MaxFaults :
    Held(b) /\ ~offChainOnly /\ faults = f
      ~> Settled(b) \/ faults > f \/ (state[b] = "none" /\ ~Waits(b))

\* A broken stream is noticed and opened again while the daemon runs, whatever
\* batches it has to work off first.
StreamComesBack ==
  \A f \in 0 .. MaxFaults : link = "broken" /\ faults = f ~> link = "up" \/ faults > f
=============================================================================
