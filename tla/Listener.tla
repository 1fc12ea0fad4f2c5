------------------------------ MODULE Listener ------------------------------
(***************************************************************************)
(* The sequencer's L1 listener (sequencer/src/l1/listener.rs): the         *)
(* reconnection loop, the two log subscriptions it merges into the forced  *)
(* queue, and its block counter.                                           *)
(*                                                                         *)
(* The node is external.  A subscription delivers the logs that are        *)
(* emitted while it is live, and a log that a reorganisation takes back    *)
(* once more, marked removed; it does not replay older blocks, whatever    *)
(* from_block says.  Logs already delivered to a stream are still read     *)
(* from it after the connection is lost.                                   *)
(***************************************************************************)
EXTENDS Integers, Sequences, Functions

CONSTANTS
  StartBlock,                               \* config.start_block
  MaxLogs, MaxBlock, MaxReorgs, MaxStops    \* bounds

ASSUME ListenerAssumption == {StartBlock, MaxLogs, MaxBlock, MaxReorgs, MaxStops} \subseteq Nat

Kinds == {"Deposit", "ForcedExit"}

VARIABLES
  \* L1 and its node
  block,
  chain,          \* the bridge's logs on the canonical chain: [id, kind, block]
  takenBack,      \* logs of transactions to be mined again
  \* the listener
  conn,
  stream,         \* per kind, the logs delivered and not yet handled
  currentBlock,
  lastProcessed,  \* last_processed_block
  \* history
  queue,          \* every transaction added to the forced queue, in order
  emitted,        \* logs so far
  reorged,        \* ids of logs a reorganisation took back
  reorgs, stops

l1Vars == <<block, chain, takenBack, emitted, reorged, reorgs>>
listenerVars == <<conn, currentBlock, lastProcessed>>
vars == <<l1Vars, listenerVars, stream, queue, stops>>

Log == [id : Nat, kind : Kinds, block : Nat]

TypeOK ==
  /\ block \in 0 .. MaxBlock /\ chain \in Seq(Log) /\ takenBack \subseteq Log
  /\ conn \in {"down", "connected", "half", "up", "ending"}
  /\ stream \in [Kinds -> Seq(Log)] /\ queue \in Seq(Log)
  /\ currentBlock >= StartBlock /\ lastProcessed >= StartBlock
  /\ \A k \in Kinds : \A l \in Range(stream[k]) : l.kind = k
  /\ conn \in {"down", "connected"} => stream = [k \in Kinds |-> << >>]

NoLogs == [k \in Kinds |-> << >>]

Init ==
  /\ block = 0 /\ chain = << >> /\ takenBack = {}
  /\ conn = "down" /\ stream = NoLogs
  /\ currentBlock = StartBlock /\ lastProcessed = StartBlock
  /\ queue = << >> /\ emitted = 0 /\ reorged = {} /\ reorgs = 0 /\ stops = 0

-----------------------------------------------------------------------------
\* L1.

Live(k) == conn = "up" \/ (conn = "half" /\ k = "Deposit")

Deliver(l) ==
  stream' = IF Live(l.kind) THEN [stream EXCEPT ![l.kind] = Append(@, l)] ELSE stream

Emit(l) == chain' = Append(chain, l) /\ Deliver(l)

MineBlock ==
  /\ block < MaxBlock /\ block' = block + 1
  /\ UNCHANGED <<chain, takenBack, emitted, reorged, reorgs, listenerVars, stream, queue, stops>>

EmitNew(k) ==
  /\ emitted < MaxLogs /\ emitted' = emitted + 1
  /\ Emit([id |-> emitted + 1, kind |-> k, block |-> block])
  /\ UNCHANGED <<block, takenBack, reorged, reorgs, listenerVars, queue, stops>>

\* The last log is taken back, and delivered once more as removed.
Reorg ==
  /\ chain # << >> /\ reorgs < MaxReorgs /\ reorgs' = reorgs + 1
  /\ LET l == chain[Len(chain)] IN
       /\ chain' = SubSeq(chain, 1, Len(chain) - 1) /\ takenBack' = takenBack \cup {l}
       /\ reorged' = reorged \cup {l.id}
       /\ Deliver(l)
  /\ UNCHANGED <<block, emitted, listenerVars, queue, stops>>

EmitAgain(l) ==
  /\ takenBack' = takenBack \ {l}
  /\ Emit([l EXCEPT !.block = block])
  /\ UNCHANGED <<block, emitted, reorged, reorgs, listenerVars, queue, stops>>

-----------------------------------------------------------------------------
\* listen_for_events, called in a loop by start.

Connect ==
  /\ conn = "down" /\ conn' = "connected"
  /\ UNCHANGED <<l1Vars, stream, currentBlock, lastProcessed, queue, stops>>

SubscribeDeposits ==
  /\ conn = "connected" /\ conn' = "half"
  /\ UNCHANGED <<l1Vars, stream, currentBlock, lastProcessed, queue, stops>>

SubscribeForcedExits ==
  /\ conn = "half" /\ conn' = "up" /\ lastProcessed' = currentBlock
  /\ UNCHANGED <<l1Vars, stream, currentBlock, queue, stops>>

\* The connection or a subscription fails: the error drops both streams, and the
\* next attempt starts from the same block.
ListenError ==
  /\ conn \in {"connected", "half"} /\ conn' = "down" /\ stream' = NoLogs
  /\ stops < MaxStops /\ stops' = stops + 1
  /\ UNCHANGED <<l1Vars, currentBlock, lastProcessed, queue>>

\* Mutant: the log stays in the stream until the next one is handled.
HandleWithoutPop(k) ==
  /\ conn \in {"up", "ending"} /\ stream[k] # << >>
  /\ Len(queue) < 2 * MaxLogs
  /\ queue' = Append(queue, Head(stream[k]))
  /\ lastProcessed' = lastProcessed + 1
  /\ UNCHANGED <<l1Vars, conn, currentBlock, stream, stops>>

\* Mutant: the second stream is never polled.
HandleDepositsOnly(k) ==
  /\ conn \in {"up", "ending"} /\ stream[k] # << >>
  /\ k = "Deposit"
  /\ queue' = Append(queue, Head(stream[k]))
  /\ stream' = [stream EXCEPT ![k] = Tail(@)]
  /\ lastProcessed' = lastProcessed + 1
  /\ UNCHANGED <<l1Vars, conn, currentBlock, stops>>

\* handle_deposit_event and handle_forced_exit_event: select! takes a log of either
\* stream, removed or not, and counts it as a block.
Handle(k) ==
  /\ conn \in {"up", "ending"} /\ stream[k] # << >>
  /\ queue' = Append(queue, Head(stream[k]))
  /\ stream' = [stream EXCEPT ![k] = Tail(@)]
  /\ lastProcessed' = lastProcessed + 1
  /\ UNCHANGED <<l1Vars, conn, currentBlock, stops>>

LoseConnection ==
  /\ conn = "up" /\ conn' = "ending"
  /\ stops < MaxStops /\ stops' = stops + 1
  /\ UNCHANGED <<l1Vars, stream, currentBlock, lastProcessed, queue>>

\* Mutant: the loop ends with the first of the two streams.
FirstStreamEnded ==
  /\ conn = "ending" /\ \E k \in Kinds : stream[k] = << >>
  /\ conn' = "down" /\ stream' = NoLogs
  /\ currentBlock' = lastProcessed + 1
  /\ UNCHANGED <<l1Vars, lastProcessed, queue, stops>>

\* The loop ends when both streams have.
StreamsEnded ==
  /\ conn = "ending" /\ stream = NoLogs
  /\ conn' = "down" /\ currentBlock' = lastProcessed + 1
  /\ UNCHANGED <<l1Vars, stream, lastProcessed, queue, stops>>

Restart ==
  /\ stops < MaxStops /\ stops' = stops + 1
  /\ conn' = "down" /\ stream' = NoLogs
  /\ currentBlock' = StartBlock /\ lastProcessed' = StartBlock
  /\ UNCHANGED <<l1Vars, queue>>

Next ==
  \/ MineBlock \/ \E k \in Kinds : EmitNew(k)
  \/ Reorg \/ \E l \in takenBack : EmitAgain(l)
  \/ Connect \/ SubscribeDeposits \/ SubscribeForcedExits \/ ListenError
  \/ \E k \in Kinds : Handle(k)
  \/ LoseConnection \/ StreamsEnded \/ Restart

\* The task is polled, so each log that waits is handled, and ended streams are noticed.
Fairness == (\A k \in Kinds : WF_vars(Handle(k))) /\ WF_vars(StreamsEnded)

Spec == Init /\ [][Next]_vars /\ Fairness

-----------------------------------------------------------------------------
\* Properties

\* Across reconnections and restarts an event enters the forced queue at most once, unless a
\* reorganisation took it back: the handlers do not look at `removed'.
QueuedOnce ==
  \A i, j \in DOMAIN queue : i # j /\ queue[i].id = queue[j].id => queue[i].id \in reorged

\* The events of one kind enter the forced queue in the order the bridge emitted them, although
\* select! merges the two kinds in any order.
KindInOrder ==
  \A i, j \in DOMAIN queue :
    i < j /\ queue[i].kind = queue[j].kind /\ reorged = {} => queue[i].id < queue[j].id

Kept ==
  stops' = stops /\ conn \in {"up", "ending"} =>
    \A k \in Kinds : Range(stream[k]) \subseteq Range(stream'[k] \o queue')

\* Once both subscriptions are made, a delivered log leaves its stream only into the forced queue:
\* the end of one stream, or of the connection, does not lose what the other holds.
DeliveredIsKept == [][Kept]_vars

\* A log delivered to a listener that has both subscriptions is queued, unless the sequencer
\* stops: however many logs of the other kind arrive.
DeliveredIsQueued ==
  \A n \in 1 .. MaxLogs :
    (conn \in {"up", "ending"} /\ \E k \in Kinds : \E l \in Range(stream[k]) : l.id = n)
      ~> (conn \in {"down", "connected", "half"} \/ \E l \in Range(queue) : l.id = n)
=============================================================================
