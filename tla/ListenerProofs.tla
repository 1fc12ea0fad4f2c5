--------------------------- MODULE ListenerProofs ---------------------------
(***************************************************************************)
(* Proofs about Listener, for every number of events, blocks,              *)
(* reorganisations, lost connections and restarts.                         *)
(***************************************************************************)
EXTENDS Listener, TLAPS

-----------------------------------------------------------------------------
(* Sequences. *)

LEMMA Appended ==
  ASSUME NEW S, NEW s \in Seq(S), NEW e \in S
  PROVE  /\ Append(s, e) \in Seq(S)
         /\ Len(s) \in Nat /\ Len(Append(s, e)) = Len(s) + 1
         /\ Append(s, e)[Len(s) + 1] = e
         /\ \A i \in 1 .. Len(s) : Append(s, e)[i] = s[i]
  OBVIOUS

LEMMA TailOf ==
  ASSUME NEW S, NEW s \in Seq(S), s # << >>
  PROVE  /\ Head(s) \in S /\ Tail(s) \in Seq(S)
         /\ Len(s) \in Nat \ {0} /\ Len(Tail(s)) = Len(s) - 1
         /\ Head(s) = s[1]
         /\ \A i \in 1 .. Len(s) - 1 : Tail(s)[i] = s[i + 1]
  OBVIOUS

LEMMA FrontOf ==
  ASSUME NEW S, NEW s \in Seq(S), s # << >>
  PROVE  /\ s[Len(s)] \in S /\ SubSeq(s, 1, Len(s) - 1) \in Seq(S) /\ Len(s) \in Nat \ {0}
         /\ Len(SubSeq(s, 1, Len(s) - 1)) = Len(s) - 1
         /\ \A i \in 1 .. Len(s) - 1 : SubSeq(s, 1, Len(s) - 1)[i] = s[i]
<1>1. Len(s) \in Nat /\ Len(s) >= 1 /\ \A i \in 1 .. Len(s) : s[i] \in S
  OBVIOUS
<1> DEFINE n == Len(s) - 1
<1>2. n \in Nat /\ n <= Len(s)
  BY <1>1
<1> HIDE DEF n
<1>3. /\ SubSeq(s, 1, n) \in Seq(S) /\ Len(SubSeq(s, 1, n)) = n
      /\ \A i \in 1 .. n : SubSeq(s, 1, n)[i] = s[i]
  BY <1>2
<1> QED
  BY <1>1, <1>3 DEF n

-----------------------------------------------------------------------------
(* Type correctness. *)

L1Type ==
  /\ block \in 0 .. MaxBlock /\ chain \in Seq(Log) /\ takenBack \subseteq Log
  /\ emitted \in Nat /\ reorged \subseteq Nat

StreamType ==
  /\ stream \in [Kinds -> Seq(Log)]
  /\ \A k \in Kinds : \A i \in 1 .. Len(stream[k]) : stream[k][i].kind = k

ConnType ==
  /\ conn \in {"down", "connected", "half", "up", "ending"}
  /\ conn \in {"down", "connected"} => stream = NoLogs
  /\ currentBlock \in Nat /\ lastProcessed \in Nat
  /\ currentBlock >= StartBlock /\ lastProcessed >= StartBlock

TypeInv == L1Type /\ StreamType /\ ConnType /\ queue \in Seq(Log)

LEMMA Bounds == StartBlock \in Nat /\ MaxBlock \in Nat
  BY ListenerAssumption DEF ListenerAssumption

LEMMA NoLogsType ==
  /\ NoLogs \in [Kinds -> Seq(Log)]
  /\ \A k \in Kinds : NoLogs[k] = << >> /\ Len(NoLogs[k]) = 0
<1>1. << >> \in Seq(Log) /\ Len(<< >>) = 0
  OBVIOUS
<1> QED
  BY <1>1 DEF NoLogs

\* What a stream holds after a log was, or was not, delivered.
Extended(l) ==
  /\ stream' \in [Kinds -> Seq(Log)]
  /\ \A k \in Kinds :
       /\ Len(stream[k]) \in Nat
       /\ \/ Len(stream'[k]) = Len(stream[k])
          \/ k = l.kind /\ Len(stream'[k]) = Len(stream[k]) + 1 /\ stream'[k][Len(stream[k]) + 1] = l
       /\ \A i \in 1 .. Len(stream[k]) : stream'[k][i] = stream[k][i]

LEMMA DeliverEffect ==
  ASSUME StreamType, NEW l \in Log, Deliver(l)
  PROVE  Extended(l) /\ StreamType' /\ (~Live(l.kind) => stream' = stream)
<1>1. l.kind \in Kinds
  BY DEF Log
<1>2. stream[l.kind] \in Seq(Log) /\ stream \in [Kinds -> Seq(Log)]
  BY <1>1 DEF StreamType
<1>3. \A k \in Kinds : Len(stream[k]) \in Nat
  BY DEF StreamType
<1>4. CASE stream' = stream
  BY <1>3, <1>4, Zenon DEF Extended, StreamType, Deliver
<1>5. CASE Live(l.kind) /\ stream' = [stream EXCEPT ![l.kind] = Append(stream[l.kind], l)]
  <2> DEFINE s == Append(stream[l.kind], l)
  <2>1. /\ s \in Seq(Log) /\ Len(s) = Len(stream[l.kind]) + 1
        /\ s[Len(stream[l.kind]) + 1] = l
        /\ \A i \in 1 .. Len(stream[l.kind]) : s[i] = stream[l.kind][i]
    BY <1>2, Appended
  <2>2. stream' = [stream EXCEPT ![l.kind] = s]
    BY <1>5
  <2> HIDE DEF s
  <2>3. stream' \in [Kinds -> Seq(Log)] /\ stream'[l.kind] = s
        /\ \A k \in Kinds : k # l.kind => stream'[k] = stream[k]
    BY <1>1, <1>2, <2>1, <2>2
  <2>4. Extended(l)
    BY <1>1, <1>3, <2>1, <2>3 DEF Extended
  <2>5. \A k \in Kinds : \A i \in 1 .. Len(stream'[k]) : stream'[k][i].kind = k
    <3>1. SUFFICES ASSUME NEW k \in Kinds, NEW i \in 1 .. Len(stream'[k])
                   PROVE  stream'[k][i].kind = k
      OBVIOUS
    <3>2. CASE k = l.kind
      <4>1. i \in 1 .. Len(stream[l.kind]) \/ i = Len(stream[l.kind]) + 1
        BY <1>1, <1>3, <2>1, <2>3, <3>2
      <4> QED
        BY <1>1, <2>1, <2>3, <3>2, <4>1, Zenon DEF StreamType
    <3>3. CASE k # l.kind
      BY <2>3, <3>3 DEF StreamType
    <3> QED
      BY <3>2, <3>3
  <2> QED
    BY <1>5, <2>3, <2>4, <2>5 DEF StreamType
<1> QED
  BY <1>4, <1>5 DEF Deliver

LEMMA DeliverConn ==
  ASSUME StreamType, ConnType, NEW l \in Log, Deliver(l), UNCHANGED listenerVars
  PROVE  ConnType'
<1>1. conn \in {"down", "connected"} => ~Live(l.kind)
  BY DEF Live
<1>2. conn \in {"down", "connected"} => stream' = stream
  BY <1>1, DeliverEffect
<1> QED
  BY <1>2 DEF ConnType, listenerVars

\* What a stream holds after its first log was handled.
Popped(k) ==
  /\ stream[k] # << >> /\ Head(stream[k]) \in Log /\ Head(stream[k]) = stream[k][1]
  /\ stream' \in [Kinds -> Seq(Log)] /\ Len(stream[k]) \in Nat \ {0}
  /\ Len(stream'[k]) = Len(stream[k]) - 1
  /\ \A i \in 1 .. Len(stream[k]) - 1 : stream'[k][i] = stream[k][i + 1]
  /\ \A m \in Kinds : m # k => stream'[m] = stream[m]

LEMMA HandleEffect ==
  ASSUME StreamType, NEW k \in Kinds, Handle(k)
  PROVE  Popped(k) /\ StreamType'
<1>1. stream[k] # << >> /\ stream' = [stream EXCEPT ![k] = Tail(stream[k])]
  BY DEF Handle
<1>2. stream[k] \in Seq(Log) /\ stream \in [Kinds -> Seq(Log)]
  BY DEF StreamType
<1> DEFINE s == Tail(stream[k])
<1>3. /\ Head(stream[k]) \in Log /\ s \in Seq(Log) /\ Head(stream[k]) = stream[k][1]
      /\ Len(stream[k]) \in Nat \ {0} /\ Len(s) = Len(stream[k]) - 1
      /\ \A i \in 1 .. Len(stream[k]) - 1 : s[i] = stream[k][i + 1]
  BY <1>1, <1>2, TailOf
<1>4. stream' = [stream EXCEPT ![k] = s]
  BY <1>1
<1> HIDE DEF s
<1>5. stream' \in [Kinds -> Seq(Log)] /\ stream'[k] = s
      /\ \A m \in Kinds : m # k => stream'[m] = stream[m]
  BY <1>2, <1>3, <1>4
<1>6. Popped(k)
  BY <1>1, <1>3, <1>5 DEF Popped
<1>7. \A i \in 1 .. Len(stream[k]) - 1 : i + 1 \in 1 .. Len(stream[k])
  BY <1>3
<1>8. \A m \in Kinds : \A i \in 1 .. Len(stream'[m]) : stream'[m][i].kind = m
  <2>1. \A i \in 1 .. Len(stream'[k]) : stream'[k][i].kind = k
    BY <1>3, <1>5, <1>7 DEF StreamType
  <2>2. \A m \in Kinds : m # k => \A i \in 1 .. Len(stream'[m]) : stream'[m][i].kind = m
    BY <1>5 DEF StreamType
  <2> QED
    BY <2>1, <2>2
<1> QED
  BY <1>5, <1>6, <1>8 DEF StreamType

LEMMA InitType == Init => TypeInv
<1> SUFFICES ASSUME Init PROVE TypeInv
  OBVIOUS
<1>1. L1Type /\ queue \in Seq(Log)
  BY Bounds DEF Init, L1Type
<1>2. StreamType
  BY NoLogsType DEF Init, StreamType
<1>3. ConnType
  BY Bounds DEF Init, ConnType
<1> QED
  BY <1>1, <1>2, <1>3 DEF TypeInv

LEMMA TypeStep == TypeInv /\ [Next]_vars => TypeInv'
<1> SUFFICES ASSUME TypeInv, [Next]_vars PROVE TypeInv'
  OBVIOUS
<1>1. L1Type /\ StreamType /\ ConnType /\ queue \in Seq(Log)
  BY DEF TypeInv
<1>2. CASE MineBlock
  <2>1. L1Type'
    BY <1>1, <1>2, Bounds DEF MineBlock, L1Type
  <2>2. StreamType' /\ ConnType' /\ queue' \in Seq(Log)
    BY <1>1, <1>2 DEF MineBlock, StreamType, ConnType, listenerVars
  <2> QED
    BY <2>1, <2>2 DEF TypeInv
<1>3. ASSUME NEW l \in Log, Emit(l), emitted' \in Nat, takenBack' \subseteq Log,
             UNCHANGED <<block, reorged, listenerVars, queue>>
      PROVE  TypeInv'
  <2>1. Deliver(l) /\ chain' = Append(chain, l)
    BY <1>3 DEF Emit
  <2>2. chain' \in Seq(Log)
    BY <1>1, <2>1, Appended DEF L1Type
  <2>3. StreamType' /\ ConnType'
    BY <1>1, <1>3, <2>1, DeliverEffect, DeliverConn
  <2>4. L1Type'
    BY <1>1, <1>3, <2>2 DEF L1Type
  <2> QED
    BY <1>1, <1>3, <2>3, <2>4 DEF TypeInv
<1>4. ASSUME NEW k \in Kinds, EmitNew(k) PROVE TypeInv'
  <2> DEFINE l == [id |-> emitted + 1, kind |-> k, block |-> block]
  <2>1. l \in Log /\ emitted + 1 \in Nat
    BY <1>1 DEF L1Type, Log
  <2>2. Emit(l) /\ emitted' = emitted + 1
        /\ UNCHANGED <<block, takenBack, reorged, listenerVars, queue>>
    BY <1>4 DEF EmitNew
  <2>3. takenBack' \subseteq Log
    BY <1>1, <2>2 DEF L1Type
  <2> HIDE DEF l
  <2> QED
    BY <1>3, <2>1, <2>2, <2>3
<1>5. ASSUME NEW l \in takenBack, EmitAgain(l) PROVE TypeInv'
  <2> DEFINE m == [l EXCEPT !.block = block]
  <2>1. l \in Log /\ block \in Nat /\ emitted \in Nat
    BY <1>1, Bounds DEF L1Type
  <2>2. m \in Log
    BY <2>1 DEF Log
  <2>3. Emit(m) /\ emitted' = emitted /\ takenBack' = takenBack \ {l}
        /\ UNCHANGED <<block, reorged, listenerVars, queue>>
    BY <1>5 DEF EmitAgain
  <2>4. takenBack' \subseteq Log
    BY <1>1, <2>3 DEF L1Type
  <2> HIDE DEF m
  <2> QED
    BY <1>3, <2>1, <2>2, <2>3, <2>4
<1>6. CASE Reorg
  <2> DEFINE l == chain[Len(chain)]
  <2>1. /\ chain # << >> /\ chain' = SubSeq(chain, 1, Len(chain) - 1) /\ takenBack' = takenBack \cup {l}
        /\ reorged' = reorged \cup {l.id} /\ Deliver(l)
        /\ UNCHANGED <<block, emitted, listenerVars, queue>>
    BY <1>6 DEF Reorg
  <2>2. l \in Log /\ chain' \in Seq(Log)
    BY <1>1, <2>1, FrontOf DEF L1Type
  <2> HIDE DEF l
  <2>3. l.id \in Nat
    BY <2>2 DEF Log
  <2>4. L1Type'
    BY <1>1, <2>1, <2>2, <2>3, Zenon DEF L1Type
  <2>5. StreamType' /\ ConnType'
    BY <1>1, <2>1, <2>2, DeliverEffect, DeliverConn
  <2> QED
    BY <1>1, <2>1, <2>4, <2>5 DEF TypeInv
<1>7. CASE Connect \/ SubscribeDeposits \/ SubscribeForcedExits \/ LoseConnection \/ StreamsEnded
  <2>1. UNCHANGED <<l1Vars, stream, queue>>
    BY <1>7 DEF Connect, SubscribeDeposits, SubscribeForcedExits, LoseConnection, StreamsEnded
  <2>2. L1Type' /\ StreamType' /\ queue' \in Seq(Log)
    BY <1>1, <2>1 DEF L1Type, StreamType, l1Vars
  <2>3. ConnType'
    BY <1>1, <1>7, Bounds DEF ConnType, Connect, SubscribeDeposits, SubscribeForcedExits,
       LoseConnection, StreamsEnded
  <2> QED
    BY <2>2, <2>3 DEF TypeInv
<1>8. CASE ListenError \/ Restart
  <2>1. UNCHANGED <<l1Vars, queue>> /\ stream' = NoLogs
    BY <1>8 DEF ListenError, Restart
  <2>2. L1Type' /\ queue' \in Seq(Log)
    BY <1>1, <2>1 DEF L1Type, l1Vars
  <2>3. StreamType'
    BY <2>1, NoLogsType DEF StreamType
  <2>4. ConnType'
    BY <1>1, <1>8, <2>1, Bounds DEF ConnType, ListenError, Restart
  <2> QED
    BY <2>2, <2>3, <2>4 DEF TypeInv
<1>9. ASSUME NEW k \in Kinds, Handle(k) PROVE TypeInv'
  <2>1. /\ queue' = Append(queue, Head(stream[k])) /\ conn \in {"up", "ending"}
        /\ lastProcessed' = lastProcessed + 1
        /\ UNCHANGED <<l1Vars, conn, currentBlock>>
    BY <1>9 DEF Handle
  <2>2. StreamType' /\ Head(stream[k]) \in Log
    BY <1>1, <1>9, HandleEffect DEF Popped
  <2>3. queue' \in Seq(Log)
    BY <1>1, <2>1, <2>2, Appended
  <2>4. L1Type'
    BY <1>1, <2>1 DEF L1Type, l1Vars
  <2>5. ConnType'
    BY <1>1, <2>1, Bounds DEF ConnType
  <2> QED
    BY <2>2, <2>3, <2>4, <2>5 DEF TypeInv
<1>10. CASE UNCHANGED vars
  BY <1>1, <1>10 DEF TypeInv, L1Type, StreamType, ConnType, vars, l1Vars, listenerVars
<1> QED
  BY <1>2, <1>4, <1>5, <1>6, <1>7, <1>8, <1>9, <1>10 DEF Next

LEMMA TypeInvariant == Spec => []TypeInv
  BY InitType, TypeStep, PTL DEF Spec

\* The listener's state keeps its type: each stream holds logs of its own kind, and a
\* listener without subscriptions holds none.
THEOREM TypeCorrect == Spec => []TypeOK
<1>1. TypeInv => TypeOK
  <2> SUFFICES ASSUME TypeInv PROVE TypeOK
    OBVIOUS
  <2>1. \A k \in Kinds : \A l \in Range(stream[k]) : l.kind = k
    <3>1. \A k \in Kinds : DOMAIN stream[k] = 1 .. Len(stream[k])
      BY DEF TypeInv, StreamType
    <3> QED
      BY <3>1 DEF TypeInv, StreamType, Range
  <2> QED
    BY <2>1 DEF TypeInv, L1Type, StreamType, ConnType, TypeOK, NoLogs
<1> QED
  BY <1>1, TypeInvariant, PTL

-----------------------------------------------------------------------------
(* Each event once, and each kind in order. *)

\* Every log anywhere was emitted, and those to be mined again were taken back.
Known ==
  /\ \A i \in 1 .. Len(chain) : chain[i].id <= emitted
  /\ \A l \in takenBack : l.id \in reorged /\ l.id <= emitted
  /\ \A k \in Kinds : \A i \in 1 .. Len(stream[k]) : stream[k][i].id <= emitted
  /\ \A i \in 1 .. Len(queue) : queue[i].id <= emitted

\* A log that no reorganisation touched is in one place of one stream or of the queue.
Unique ==
  /\ \A k, m \in Kinds : \A i \in 1 .. Len(stream[k]), j \in 1 .. Len(stream[m]) :
       (k # m \/ i # j) /\ stream[k][i].id = stream[m][j].id => stream[k][i].id \in reorged
  /\ \A k \in Kinds : \A i \in 1 .. Len(stream[k]), j \in 1 .. Len(queue) :
       stream[k][i].id = queue[j].id => queue[j].id \in reorged
  /\ \A i, j \in 1 .. Len(queue) :
       i # j /\ queue[i].id = queue[j].id => queue[i].id \in reorged

\* Without reorganisations a stream is in the order of emission, behind what was queued
\* of its kind.
Ordered ==
  reorged = {} =>
    /\ \A k \in Kinds : \A i, j \in 1 .. Len(stream[k]) : i < j => stream[k][i].id < stream[k][j].id
    /\ \A k \in Kinds : \A i \in 1 .. Len(stream[k]), j \in 1 .. Len(queue) :
         queue[j].kind = k => queue[j].id < stream[k][i].id
    /\ \A i, j \in 1 .. Len(queue) :
         i < j /\ queue[i].kind = queue[j].kind => queue[i].id < queue[j].id

OnceInv == Known /\ Unique /\ Ordered

\* The logs that are anywhere have numbers, so the provers can compare them.
LEMMA IdsAreNumbers ==
  ASSUME TypeInv
  PROVE  /\ \A k \in Kinds : \A i \in 1 .. Len(stream[k]) : stream[k][i].id \in Nat
         /\ \A i \in 1 .. Len(queue) : queue[i].id \in Nat
         /\ \A i \in 1 .. Len(chain) : chain[i].id \in Nat
         /\ Len(queue) \in Nat /\ Len(chain) \in Nat /\ emitted \in Nat
         /\ \A k \in Kinds : Len(stream[k]) \in Nat
<1>1. /\ \A k \in Kinds : stream[k] \in Seq(Log)
      /\ queue \in Seq(Log) /\ chain \in Seq(Log) /\ emitted \in Nat
  BY DEF TypeInv, StreamType, L1Type
<1>2. /\ \A k \in Kinds : \A i \in 1 .. Len(stream[k]) : stream[k][i] \in Log
      /\ \A i \in 1 .. Len(queue) : queue[i] \in Log
      /\ \A i \in 1 .. Len(chain) : chain[i] \in Log
      /\ Len(queue) \in Nat /\ Len(chain) \in Nat
      /\ \A k \in Kinds : Len(stream[k]) \in Nat
  BY <1>1
<1> QED
  BY <1>1, <1>2 DEF Log

\* A log delivered to a stream is a place of its own there.
LEMMA Places ==
  ASSUME TypeInv, NEW l \in Log, Extended(l)
  PROVE  \A k \in Kinds : \A i \in 1 .. Len(stream'[k]) :
           \/ i \in 1 .. Len(stream[k]) /\ stream'[k][i] = stream[k][i]
           \/ i = Len(stream[k]) + 1 /\ k = l.kind /\ stream'[k][i] = l
  BY DEF Extended

\* A new log: its id is larger than every other.
LEMMA OnceEmit == ASSUME TypeInv, OnceInv, NEW k \in Kinds, EmitNew(k) PROVE OnceInv'
<1>1. PICK l : l = [id |-> emitted + 1, kind |-> k, block |-> block]
  BY Zenon
<1>2. /\ chain' = Append(chain, l) /\ Deliver(l) /\ emitted' = emitted + 1
      /\ UNCHANGED <<takenBack, reorged, queue>>
  BY <1>1 DEF EmitNew, Emit
<1>3. l \in Log /\ l.id = emitted + 1 /\ l.kind = k
  BY <1>1 DEF TypeInv, L1Type, Log
<1>4. Extended(l)
  BY <1>2, <1>3, DeliverEffect DEF TypeInv
<1>5. \A n \in Kinds : \A i \in 1 .. Len(stream'[n]) :
        \/ i \in 1 .. Len(stream[n]) /\ stream'[n][i] = stream[n][i]
        \/ i = Len(stream[n]) + 1 /\ n = k /\ stream'[n][i] = l
  BY <1>3, <1>4, Places
<1>6. Known
  BY DEF OnceInv
<1>7. /\ \A n \in Kinds : \A i \in 1 .. Len(stream[n]) :
           stream[n][i].id \in Nat /\ stream[n][i].id < l.id
      /\ \A i \in 1 .. Len(queue) : queue[i].id \in Nat /\ queue[i].id < l.id
  BY <1>3, <1>6, IdsAreNumbers DEF Known
<1>8. Known'
  <2>1. \A i \in 1 .. Len(chain') : chain'[i].id <= emitted'
    <3>1. /\ Len(chain') = Len(chain) + 1 /\ chain'[Len(chain) + 1] = l
          /\ \A i \in 1 .. Len(chain) : chain'[i] = chain[i]
      BY <1>2, <1>3, Appended DEF TypeInv, L1Type
    <3>2. \A i \in 1 .. Len(chain') : i \in 1 .. Len(chain) \/ i = Len(chain) + 1
      BY <3>1, IdsAreNumbers
    <3>3. \A i \in 1 .. Len(chain) : chain[i].id \in Nat /\ chain[i].id <= emitted
      BY <1>6, IdsAreNumbers DEF Known
    <3> QED
      BY <1>2, <1>3, <3>1, <3>2, <3>3, IdsAreNumbers
  <2>2. \A n \in Kinds : \A i \in 1 .. Len(stream'[n]) : stream'[n][i].id <= emitted'
    <3> SUFFICES ASSUME NEW n \in Kinds, NEW i \in 1 .. Len(stream'[n])
                 PROVE  stream'[n][i].id <= emitted'
      OBVIOUS
    <3>1. CASE i \in 1 .. Len(stream[n]) /\ stream'[n][i] = stream[n][i]
      <4>1. stream[n][i].id \in Nat /\ stream[n][i].id < l.id
        BY <1>7, <3>1
      <4> QED
        BY <1>2, <1>3, <3>1, <4>1, IdsAreNumbers
    <3>2. CASE stream'[n][i] = l
      BY <1>2, <1>3, <3>2, IdsAreNumbers
    <3> QED
      BY <1>5, <3>1, <3>2
  <2>3. \A i \in 1 .. Len(queue') : queue'[i].id <= emitted'
    BY <1>2, <1>3, <1>7, IdsAreNumbers
  <2>4. \A t \in takenBack : t.id \in Nat
    BY DEF TypeInv, L1Type, Log
  <2>5. \A t \in takenBack' : t.id \in reorged' /\ t.id <= emitted'
    BY <1>2, <1>6, <2>4, IdsAreNumbers DEF Known
  <2> QED
    BY <2>1, <2>2, <2>3, <2>5 DEF Known
<1>9. Unique'
  <2>1. \A n, m \in Kinds : \A i \in 1 .. Len(stream'[n]), j \in 1 .. Len(stream'[m]) :
          (n # m \/ i # j) /\ stream'[n][i].id = stream'[m][j].id => stream'[n][i].id \in reorged'
    <3> SUFFICES ASSUME NEW n \in Kinds, NEW m \in Kinds,
                        NEW i \in 1 .. Len(stream'[n]), NEW j \in 1 .. Len(stream'[m]),
                        n # m \/ i # j, stream'[n][i].id = stream'[m][j].id
                 PROVE  stream'[n][i].id \in reorged'
      OBVIOUS
    <3>1. i \in 1 .. Len(stream[n]) /\ j \in 1 .. Len(stream[m])
      <4>1. CASE stream'[n][i] = l /\ stream'[m][j] = l /\ n = k /\ m = k
                 /\ i = Len(stream[n]) + 1 /\ j = Len(stream[m]) + 1
        BY <4>1
      <4>2. CASE stream'[n][i] = l /\ j \in 1 .. Len(stream[m]) /\ stream'[m][j] = stream[m][j]
        <5>1. stream[m][j].id \in Nat /\ stream[m][j].id < l.id /\ l.id = stream[m][j].id
          BY <1>7, <4>2
        <5> QED
          BY <5>1
      <4>3. CASE stream'[m][j] = l /\ i \in 1 .. Len(stream[n]) /\ stream'[n][i] = stream[n][i]
        <5>1. stream[n][i].id \in Nat /\ stream[n][i].id < l.id /\ l.id = stream[n][i].id
          BY <1>7, <4>3
        <5> QED
          BY <5>1
      <4> QED
        BY <1>5, <4>1, <4>2, <4>3
    <3>2. stream'[n][i] = stream[n][i] /\ stream'[m][j] = stream[m][j]
      BY <1>4, <3>1 DEF Extended
    <3> QED
      BY <1>2, <3>1, <3>2 DEF OnceInv, Unique
  <2>2. \A n \in Kinds : \A i \in 1 .. Len(stream'[n]), j \in 1 .. Len(queue') :
          stream'[n][i].id = queue'[j].id => queue'[j].id \in reorged'
    <3> SUFFICES ASSUME NEW n \in Kinds, NEW i \in 1 .. Len(stream'[n]), NEW j \in 1 .. Len(queue'),
                        stream'[n][i].id = queue'[j].id
                 PROVE  queue'[j].id \in reorged'
      OBVIOUS
    <3>1. i \in 1 .. Len(stream[n]) /\ stream'[n][i] = stream[n][i]
      <4>1. queue[j].id \in Nat /\ queue[j].id < l.id
        BY <1>2, <1>7
      <4>2. stream'[n][i] # l
        BY <1>2, <4>1
      <4> QED
        BY <1>5, <4>2
    <3> QED
      BY <1>2, <3>1 DEF OnceInv, Unique
  <2> QED
    BY <1>2, <2>1, <2>2 DEF OnceInv, Unique
<1>10. Ordered'
  <2> SUFFICES ASSUME reorged = {} PROVE Ordered'
    BY <1>2 DEF Ordered
  <2>1. \A n \in Kinds : \A i, j \in 1 .. Len(stream'[n]) :
          i < j => stream'[n][i].id < stream'[n][j].id
    <3> SUFFICES ASSUME NEW n \in Kinds, NEW i \in 1 .. Len(stream'[n]),
                        NEW j \in 1 .. Len(stream'[n]), i < j
                 PROVE  stream'[n][i].id < stream'[n][j].id
      OBVIOUS
    <3>1. i \in 1 .. Len(stream[n]) /\ stream'[n][i] = stream[n][i]
      BY <1>4, <1>5, IdsAreNumbers DEF Extended
    <3>2. CASE j \in 1 .. Len(stream[n]) /\ stream'[n][j] = stream[n][j]
      BY <3>1, <3>2 DEF OnceInv, Ordered
    <3>3. CASE stream'[n][j] = l
      BY <1>7, <3>1, <3>3
    <3> QED
      BY <1>5, <3>2, <3>3
  <2>2. \A n \in Kinds : \A i \in 1 .. Len(stream'[n]), j \in 1 .. Len(queue) :
          queue[j].kind = n => queue[j].id < stream'[n][i].id
    <3> SUFFICES ASSUME NEW n \in Kinds, NEW i \in 1 .. Len(stream'[n]), NEW j \in 1 .. Len(queue),
                        queue[j].kind = n
                 PROVE  queue[j].id < stream'[n][i].id
      OBVIOUS
    <3>1. CASE i \in 1 .. Len(stream[n]) /\ stream'[n][i] = stream[n][i]
      BY <3>1 DEF OnceInv, Ordered
    <3>2. CASE stream'[n][i] = l
      BY <1>7, <3>2
    <3> QED
      BY <1>5, <3>1, <3>2
  <2> QED
    BY <1>2, <2>1, <2>2 DEF OnceInv, Ordered
<1> QED
  BY <1>8, <1>9, <1>10 DEF OnceInv

\* A log that a reorganisation took back, delivered again.
LEMMA OnceAgain ==
  ASSUME TypeInv, OnceInv, NEW l \in Log, Deliver(l), l.id \in reorged', l.id <= emitted,
         reorged \subseteq reorged', UNCHANGED <<emitted, queue>>,
         \A i \in 1 .. Len(chain') : chain'[i].id <= emitted,
         \A t \in takenBack' : t.id \in reorged' /\ t.id <= emitted
  PROVE  OnceInv'
<1>1. Extended(l)
  BY DeliverEffect DEF TypeInv
<1>2. \A n \in Kinds : \A i \in 1 .. Len(stream'[n]) :
        \/ i \in 1 .. Len(stream[n]) /\ stream'[n][i] = stream[n][i]
        \/ i = Len(stream[n]) + 1 /\ n = l.kind /\ stream'[n][i] = l
  BY <1>1, Places
<1>3. Known'
  BY <1>2 DEF OnceInv, Known
<1>4. Unique'
  <2>1. \A n, m \in Kinds : \A i \in 1 .. Len(stream'[n]), j \in 1 .. Len(stream'[m]) :
          (n # m \/ i # j) /\ stream'[n][i].id = stream'[m][j].id => stream'[n][i].id \in reorged'
    <3> SUFFICES ASSUME NEW n \in Kinds, NEW m \in Kinds,
                        NEW i \in 1 .. Len(stream'[n]), NEW j \in 1 .. Len(stream'[m]),
                        n # m \/ i # j, stream'[n][i].id = stream'[m][j].id
                 PROVE  stream'[n][i].id \in reorged'
      OBVIOUS
    <3>1. CASE stream'[n][i] = l \/ stream'[m][j] = l
      BY <3>1
    <3>2. CASE /\ i \in 1 .. Len(stream[n]) /\ stream'[n][i] = stream[n][i]
               /\ j \in 1 .. Len(stream[m]) /\ stream'[m][j] = stream[m][j]
      BY <3>2 DEF OnceInv, Unique
    <3> QED
      BY <1>2, <3>1, <3>2
  <2>2. \A n \in Kinds : \A i \in 1 .. Len(stream'[n]), j \in 1 .. Len(queue') :
          stream'[n][i].id = queue'[j].id => queue'[j].id \in reorged'
    <3> SUFFICES ASSUME NEW n \in Kinds, NEW i \in 1 .. Len(stream'[n]), NEW j \in 1 .. Len(queue'),
                        stream'[n][i].id = queue'[j].id
                 PROVE  queue'[j].id \in reorged'
      OBVIOUS
    <3>1. CASE stream'[n][i] = l
      BY <3>1
    <3>2. CASE i \in 1 .. Len(stream[n]) /\ stream'[n][i] = stream[n][i]
      BY <3>2 DEF OnceInv, Unique
    <3> QED
      BY <1>2, <3>1, <3>2
  <2>3. \A i, j \in 1 .. Len(queue') :
          i # j /\ queue'[i].id = queue'[j].id => queue'[i].id \in reorged'
    BY DEF OnceInv, Unique
  <2> QED
    BY <2>1, <2>2, <2>3 DEF Unique
<1>5. Ordered'
  BY DEF Ordered
<1> QED
  BY <1>3, <1>4, <1>5 DEF OnceInv

\* The first log of a stream goes to the end of the queue.
LEMMA OnceHandle == ASSUME TypeInv, OnceInv, NEW k \in Kinds, Handle(k) PROVE OnceInv'
<1>1. /\ queue' = Append(queue, Head(stream[k]))
      /\ UNCHANGED <<chain, takenBack, emitted, reorged>>
  BY DEF Handle, l1Vars
<1>2. Popped(k)
  BY HandleEffect DEF TypeInv
<1>3. PICK h : h = Head(stream[k])
  OBVIOUS
<1>4. h \in Log /\ h = stream[k][1] /\ 1 \in 1 .. Len(stream[k]) /\ h.kind = k
  BY <1>2, <1>3 DEF Popped, TypeInv, StreamType
<1>5. /\ Len(queue') = Len(queue) + 1 /\ queue'[Len(queue) + 1] = h
      /\ \A j \in 1 .. Len(queue) : queue'[j] = queue[j]
  BY <1>1, <1>3, <1>4, Appended DEF TypeInv
<1>6. \A j \in 1 .. Len(queue') :
        \/ j \in 1 .. Len(queue) /\ queue'[j] = queue[j]
        \/ j = Len(queue) + 1 /\ queue'[j] = h
  BY <1>5, IdsAreNumbers
\* Where a log that is still in a stream was before.
<1>7. \A n \in Kinds : \A i \in 1 .. Len(stream'[n]) :
        \/ n = k /\ i + 1 \in 1 .. Len(stream[n]) /\ i + 1 # 1 /\ stream'[n][i] = stream[n][i + 1]
        \/ n # k /\ i \in 1 .. Len(stream[n]) /\ stream'[n][i] = stream[n][i]
  <2>1. \A i \in 1 .. Len(stream'[k]) :
          i + 1 \in 1 .. Len(stream[k]) /\ i + 1 # 1 /\ stream'[k][i] = stream[k][i + 1]
    BY <1>2 DEF Popped
  <2>2. \A n \in Kinds : n # k => stream'[n] = stream[n]
    BY <1>2 DEF Popped
  <2> QED
    BY <2>1, <2>2
<1>8. Known /\ Unique /\ Ordered
  BY DEF OnceInv
<1>9. Known'
  <2>1. \A n \in Kinds : \A i \in 1 .. Len(stream'[n]) : stream'[n][i].id <= emitted
    BY <1>7, <1>8 DEF Known
  <2>2. \A j \in 1 .. Len(queue') : queue'[j].id <= emitted
    BY <1>4, <1>6, <1>8 DEF Known
  <2> QED
    BY <1>1, <1>8, <2>1, <2>2 DEF Known
<1>10. Unique'
  <2>1. \A n, m \in Kinds : \A i \in 1 .. Len(stream'[n]), j \in 1 .. Len(stream'[m]) :
          (n # m \/ i # j) /\ stream'[n][i].id = stream'[m][j].id => stream'[n][i].id \in reorged
    <3> SUFFICES ASSUME NEW n \in Kinds, NEW m \in Kinds,
                        NEW i \in 1 .. Len(stream'[n]), NEW j \in 1 .. Len(stream'[m]),
                        n # m \/ i # j, stream'[n][i].id = stream'[m][j].id
                 PROVE  stream'[n][i].id \in reorged
      OBVIOUS
    <3>1. PICK a \in 1 .. Len(stream[n]) : a = (IF n = k THEN i + 1 ELSE i) /\ stream'[n][i] = stream[n][a]
      BY <1>7
    <3>2. PICK b \in 1 .. Len(stream[m]) : b = (IF m = k THEN j + 1 ELSE j) /\ stream'[m][j] = stream[m][b]
      BY <1>7
    <3>3. n # m \/ a # b
      BY <3>1, <3>2
    <3> QED
      BY <1>8, <3>1, <3>2, <3>3 DEF Unique
  <2>2. \A n \in Kinds : \A i \in 1 .. Len(stream'[n]) : stream'[n][i].id = h.id => h.id \in reorged
    <3> SUFFICES ASSUME NEW n \in Kinds, NEW i \in 1 .. Len(stream'[n]), stream'[n][i].id = h.id
                 PROVE  h.id \in reorged
      OBVIOUS
    <3>1. PICK a \in 1 .. Len(stream[n]) : (n # k \/ a # 1) /\ stream'[n][i] = stream[n][a]
      BY <1>7
    <3>2. stream[n][a].id = stream[k][1].id => stream[n][a].id \in reorged
      BY <1>4, <1>8, <3>1 DEF Unique
    <3> QED
      BY <1>4, <3>1, <3>2
  <2>3. \A n \in Kinds : \A i \in 1 .. Len(stream'[n]), j \in 1 .. Len(queue') :
          stream'[n][i].id = queue'[j].id => queue'[j].id \in reorged
    <3>1. \A n \in Kinds : \A i \in 1 .. Len(stream'[n]), j \in 1 .. Len(queue) :
            stream'[n][i].id = queue[j].id => queue[j].id \in reorged
      <4>1. \A n \in Kinds : \A i \in 1 .. Len(stream'[n]) :
              \E a \in 1 .. Len(stream[n]) : stream'[n][i] = stream[n][a]
        BY <1>7
      <4>2. \A n \in Kinds : \A a \in 1 .. Len(stream[n]), j \in 1 .. Len(queue) :
              stream[n][a].id = queue[j].id => queue[j].id \in reorged
        BY <1>8 DEF Unique
      <4> QED
        BY <4>1, <4>2
    <3> QED
      BY <1>6, <2>2, <3>1
  <2>4. \A j \in 1 .. Len(queue) : queue[j].id = h.id => h.id \in reorged
    BY <1>4, <1>8 DEF Unique
  <2>5. \A i, j \in 1 .. Len(queue') :
          i # j /\ queue'[i].id = queue'[j].id => queue'[i].id \in reorged
    <3>1. \A i, j \in 1 .. Len(queue) :
            i # j /\ queue[i].id = queue[j].id => queue[i].id \in reorged
      BY <1>8 DEF Unique
    <3> QED
      BY <1>6, <2>4, <3>1
  <2> QED
    BY <1>1, <2>1, <2>3, <2>5 DEF Unique
<1>11. Ordered'
  <2> SUFFICES ASSUME reorged = {} PROVE Ordered'
    BY <1>1 DEF Ordered
  <2>1. \A n \in Kinds : \A i, j \in 1 .. Len(stream'[n]) :
          i < j => stream'[n][i].id < stream'[n][j].id
    <3>1. \A n \in Kinds : \A i, j \in 1 .. Len(stream[n]) :
            i < j => stream[n][i].id < stream[n][j].id
      BY <1>8 DEF Ordered
    <3> SUFFICES ASSUME NEW n \in Kinds, NEW i \in 1 .. Len(stream'[n]),
                        NEW j \in 1 .. Len(stream'[n]), i < j
                 PROVE  stream'[n][i].id < stream'[n][j].id
      OBVIOUS
    <3>2. CASE n = k
      <4>1. /\ i + 1 \in 1 .. Len(stream[n]) /\ stream'[n][i] = stream[n][i + 1]
            /\ j + 1 \in 1 .. Len(stream[n]) /\ stream'[n][j] = stream[n][j + 1]
        BY <1>7, <3>2
      <4> QED
        BY <3>1, <4>1
    <3>3. CASE n # k
      BY <1>7, <3>1, <3>3
    <3> QED
      BY <3>2, <3>3
  <2>2. \A i \in 1 .. Len(stream'[k]) : h.id < stream'[k][i].id
    <3>1. \A i \in 1 .. Len(stream[k]) : 1 < i => stream[k][1].id < stream[k][i].id
      BY <1>4, <1>8 DEF Ordered
    <3> QED
      BY <1>4, <1>7, <3>1
  <2>3. \A n \in Kinds : \A i \in 1 .. Len(stream'[n]), j \in 1 .. Len(queue') :
          queue'[j].kind = n => queue'[j].id < stream'[n][i].id
    <3>1. \A n \in Kinds : \A i \in 1 .. Len(stream'[n]), j \in 1 .. Len(queue) :
            queue[j].kind = n => queue[j].id < stream'[n][i].id
      BY <1>7, <1>8, Zenon DEF Ordered
    <3> QED
      BY <1>4, <1>6, <2>2, <3>1
  <2>4. \A j \in 1 .. Len(queue) : queue[j].kind = k => queue[j].id < h.id
    BY <1>4, <1>8 DEF Ordered
  <2>5. \A i, j \in 1 .. Len(queue') :
          i < j /\ queue'[i].kind = queue'[j].kind => queue'[i].id < queue'[j].id
    <3>1. \A i, j \in 1 .. Len(queue) :
            i < j /\ queue[i].kind = queue[j].kind => queue[i].id < queue[j].id
      BY <1>8 DEF Ordered
    <3> SUFFICES ASSUME NEW i \in 1 .. Len(queue'), NEW j \in 1 .. Len(queue'), i < j,
                        queue'[i].kind = queue'[j].kind
                 PROVE  queue'[i].id < queue'[j].id
      OBVIOUS
    <3>2. i \in 1 .. Len(queue) /\ queue'[i] = queue[i]
      BY <1>5, IdsAreNumbers
    <3> QED
      BY <1>4, <1>6, <2>4, <3>1, <3>2
  <2> QED
    BY <2>1, <2>3, <2>5 DEF Ordered
<1> QED
  BY <1>9, <1>10, <1>11 DEF OnceInv

LEMMA OnceStep == TypeInv /\ OnceInv /\ [Next]_vars => OnceInv'
<1> SUFFICES ASSUME TypeInv, OnceInv, [Next]_vars PROVE OnceInv'
  OBVIOUS
<1>1. Known /\ Unique /\ Ordered /\ L1Type
  BY DEF OnceInv, TypeInv
<1>2. ASSUME NEW t \in takenBack, EmitAgain(t) PROVE OnceInv'
  <2>1. PICK l : l = [t EXCEPT !.block = block]
    BY Zenon
  <2>2. /\ chain' = Append(chain, l) /\ Deliver(l) /\ takenBack' = takenBack \ {t}
        /\ UNCHANGED <<emitted, reorged, queue>>
    BY <1>2, <2>1 DEF EmitAgain, Emit
  <2>3. t \in Log /\ block \in Nat
    BY <1>1, Bounds DEF L1Type
  <2>4. l \in Log /\ l.id = t.id
    BY <2>1, <2>3 DEF Log
  <2>5. l.id \in reorged /\ l.id <= emitted
    BY <1>1, <2>4 DEF Known
  <2>6. \A i \in 1 .. Len(chain') : chain'[i].id <= emitted
    <3>1. /\ Len(chain') = Len(chain) + 1 /\ chain'[Len(chain) + 1] = l
          /\ \A i \in 1 .. Len(chain) : chain'[i] = chain[i]
      BY <1>1, <2>2, <2>4, Appended DEF L1Type
    <3>2. \A i \in 1 .. Len(chain') : i \in 1 .. Len(chain) \/ i = Len(chain) + 1
      BY <3>1, IdsAreNumbers
    <3> QED
      BY <1>1, <2>5, <3>1, <3>2 DEF Known
  <2>7. \A u \in takenBack' : u.id \in reorged' /\ u.id <= emitted
    BY <1>1, <2>2 DEF Known
  <2> QED
    BY <2>2, <2>4, <2>5, <2>6, <2>7, OnceAgain
<1>3. CASE Reorg
  <2>1. PICK l : l = chain[Len(chain)]
    OBVIOUS
  <2>2. /\ chain # << >> /\ chain' = SubSeq(chain, 1, Len(chain) - 1) /\ takenBack' = takenBack \cup {l}
        /\ reorged' = reorged \cup {l.id} /\ Deliver(l) /\ UNCHANGED <<emitted, queue>>
    BY <1>3, <2>1 DEF Reorg
  <2>3. /\ l \in Log /\ l = chain[Len(chain)] /\ Len(chain) \in Nat \ {0}
        /\ Len(chain') = Len(chain) - 1
        /\ \A i \in 1 .. Len(chain) - 1 : chain'[i] = chain[i]
    BY <1>1, <2>1, <2>2, FrontOf DEF L1Type
  <2>4. l.id <= emitted
    BY <1>1, <2>3 DEF Known
  <2>5. \A i \in 1 .. Len(chain') : chain'[i].id <= emitted
    BY <1>1, <2>3 DEF Known
  <2>6. \A t \in takenBack' : t.id \in reorged' /\ t.id <= emitted
    BY <1>1, <2>2, <2>4 DEF Known
  <2> QED
    BY <2>2, <2>3, <2>4, <2>5, <2>6, OnceAgain
<1>4. CASE ListenError \/ Restart
  <2>1. /\ stream' = NoLogs
        /\ UNCHANGED <<chain, takenBack, emitted, reorged, queue>>
    BY <1>4 DEF ListenError, Restart, l1Vars
  <2>2. \A k \in Kinds : Len(stream'[k]) = 0
    BY <2>1, NoLogsType
  <2>3. \A k \in Kinds : \A i \in 1 .. Len(stream'[k]) : FALSE
    BY <2>2
  <2>4. Known'
    BY <1>1, <2>1, <2>3 DEF Known
  <2>5. Unique'
    BY <1>1, <2>1, <2>3 DEF Unique
  <2>6. Ordered'
    BY <1>1, <2>1, <2>3 DEF Ordered
  <2> QED
    BY <2>4, <2>5, <2>6 DEF OnceInv
<1>5. CASE \/ MineBlock \/ Connect \/ SubscribeDeposits \/ SubscribeForcedExits
           \/ LoseConnection \/ StreamsEnded \/ UNCHANGED vars
  <2>1. UNCHANGED <<chain, takenBack, emitted, reorged, stream, queue>>
    BY <1>5 DEF MineBlock, Connect, SubscribeDeposits, SubscribeForcedExits, LoseConnection,
       StreamsEnded, vars, l1Vars
  <2>2. Known' /\ Unique' /\ Ordered'
    BY <1>1, <2>1 DEF Known, Unique, Ordered
  <2> QED
    BY <2>2 DEF OnceInv
<1> QED
  BY <1>2, <1>3, <1>4, <1>5, OnceEmit, OnceHandle DEF Next

LEMMA OnceInvariant == Spec => []OnceInv
<1>1. Init => OnceInv
  <2> SUFFICES ASSUME Init PROVE OnceInv
    OBVIOUS
  <2>1. /\ Len(chain) = 0 /\ takenBack = {} /\ stream = NoLogs /\ Len(queue) = 0
    BY DEF Init
  <2>2. \A k \in Kinds : Len(stream[k]) = 0
    BY <2>1, NoLogsType
  <2> QED
    BY <2>1, <2>2 DEF OnceInv, Known, Unique, Ordered
<1> QED
  BY <1>1, TypeInvariant, OnceStep, PTL DEF Spec

LEMMA QueueDomain == TypeInv => DOMAIN queue = 1 .. Len(queue)
  BY DEF TypeInv

\* An L1 event enters the forced queue at most once, however often the listener
\* reconnects or restarts, unless a reorganisation took it back.
THEOREM QueuedOnceCorrect == Spec => []QueuedOnce
<1>1. TypeInv /\ OnceInv => QueuedOnce
  BY QueueDomain DEF OnceInv, Unique, QueuedOnce
<1> QED
  BY <1>1, TypeInvariant, OnceInvariant, PTL

\* Without reorganisations, the events of one kind enter the forced queue in the order the
\* bridge emitted them.
THEOREM KindInOrderCorrect == Spec => []KindInOrder
<1>1. TypeInv /\ OnceInv => KindInOrder
  BY QueueDomain DEF OnceInv, Ordered, KindInOrder
<1> QED
  BY <1>1, TypeInvariant, OnceInvariant, PTL

-----------------------------------------------------------------------------
(* Nothing delivered is dropped. *)

LEMMA Elements ==
  ASSUME NEW S, NEW a \in Seq(S), NEW b \in Seq(S)
  PROVE  /\ \A i \in 1 .. Len(a) : a[i] \in Range(a \o b)
         /\ \A j \in 1 .. Len(b) : b[j] \in Range(a \o b)
<1>1. /\ a \o b \in Seq(S) /\ Len(a \o b) = Len(a) + Len(b)
      /\ Len(a) \in Nat /\ Len(b) \in Nat
  OBVIOUS
<1>2. DOMAIN (a \o b) = 1 .. Len(a) + Len(b)
  BY <1>1
<1>3. ASSUME NEW i \in 1 .. Len(a) PROVE a[i] \in Range(a \o b)
  <2>1. (a \o b)[i] = a[i] /\ i \in 1 .. Len(a) + Len(b)
    BY <1>1
  <2> QED
    BY <1>2, <2>1 DEF Range
<1>4. ASSUME NEW j \in 1 .. Len(b) PROVE b[j] \in Range(a \o b)
  <2>1. (a \o b)[Len(a) + j] = b[j] /\ Len(a) + j \in 1 .. Len(a) + Len(b)
    BY <1>1
  <2> QED
    BY <1>2, <2>1 DEF Range
<1> QED
  BY <1>3, <1>4

StopsType == stops \in Nat

LEMMA StopsInvariant == Spec => []StopsType
<1>1. Init => StopsType
  BY DEF Init, StopsType
<1>2. StopsType /\ [Next]_vars => StopsType'
  <2> SUFFICES ASSUME StopsType, [Next]_vars PROVE stops' \in {stops, stops + 1}
    BY DEF StopsType
  <2> QED
    BY Zenon DEF Next, MineBlock, EmitNew, Reorg, EmitAgain, Connect, SubscribeDeposits,
       SubscribeForcedExits, ListenError, Handle, LoseConnection, StreamsEnded, Restart, vars
<1> QED
  BY <1>1, <1>2, PTL DEF Spec

LEMMA KeptStep == TypeInv /\ StopsType /\ [Next]_vars => Kept
<1> SUFFICES ASSUME TypeInv, StopsType, [Next]_vars, stops' = stops,
                    conn \in {"up", "ending"}, NEW k \in Kinds
             PROVE  Range(stream[k]) \subseteq Range(stream'[k] \o queue')
  BY DEF Kept
<1>1. TypeInv' /\ StreamType /\ stream[k] \in Seq(Log)
  BY TypeStep DEF TypeInv, StreamType
<1>2. stream'[k] \in Seq(Log) /\ queue' \in Seq(Log)
  BY <1>1 DEF TypeInv, StreamType
<1>3. SUFFICES ASSUME NEW i \in 1 .. Len(stream[k])
               PROVE  \/ \E j \in 1 .. Len(stream'[k]) : stream'[k][j] = stream[k][i]
                      \/ \E j \in 1 .. Len(queue') : queue'[j] = stream[k][i]
  <2>1. /\ \A j \in 1 .. Len(stream'[k]) : stream'[k][j] \in Range(stream'[k] \o queue')
        /\ \A j \in 1 .. Len(queue') : queue'[j] \in Range(stream'[k] \o queue')
    BY <1>2, Elements
  <2>2. \A l \in Range(stream[k]) : \E i \in 1 .. Len(stream[k]) : l = stream[k][i]
    BY <1>1 DEF Range
  <2> QED
    BY <1>3, <2>1, <2>2
<1>4. ASSUME NEW l \in Log, Deliver(l) PROVE i \in 1 .. Len(stream'[k]) /\ stream'[k][i] = stream[k][i]
  BY <1>1, <1>4, DeliverEffect DEF Extended
<1>5. ASSUME NEW n \in Kinds, EmitNew(n)
      PROVE  \E j \in 1 .. Len(stream'[k]) : stream'[k][j] = stream[k][i]
  <2>1. PICK l : l = [id |-> emitted + 1, kind |-> n, block |-> block]
    BY Zenon
  <2>2. l \in Log /\ Deliver(l)
    BY <1>5, <2>1 DEF EmitNew, Emit, TypeInv, L1Type, Log
  <2> QED
    BY <1>4, <2>2
<1>6. ASSUME NEW t \in takenBack, EmitAgain(t)
      PROVE  \E j \in 1 .. Len(stream'[k]) : stream'[k][j] = stream[k][i]
  <2>1. PICK l : l = [t EXCEPT !.block = block]
    BY Zenon
  <2>2. t \in Log /\ block \in Nat
    BY Bounds DEF TypeInv, L1Type
  <2>3. l \in Log /\ Deliver(l)
    BY <1>6, <2>1, <2>2 DEF EmitAgain, Emit, Log
  <2> QED
    BY <1>4, <2>3
<1>7. CASE Reorg
  <2>1. PICK l : l = chain[Len(chain)]
    OBVIOUS
  <2>2. l \in Log /\ Deliver(l)
    BY <1>7, <2>1, FrontOf DEF Reorg, TypeInv, L1Type
  <2> QED
    BY <1>4, <2>2
<1>8. ASSUME NEW n \in Kinds, Handle(n)
      PROVE  \/ \E j \in 1 .. Len(stream'[k]) : stream'[k][j] = stream[k][i]
             \/ \E j \in 1 .. Len(queue') : queue'[j] = stream[k][i]
  <2>1. Popped(n)
    BY <1>1, <1>8, HandleEffect
  <2>2. CASE n # k
    BY <2>1, <2>2 DEF Popped
  <2>3. CASE n = k /\ i = 1
    <3>1. queue' = Append(queue, Head(stream[k])) /\ queue \in Seq(Log)
      BY <1>8, <2>3 DEF Handle, TypeInv
    <3>2. /\ Len(queue) \in Nat /\ Len(queue') = Len(queue) + 1
          /\ queue'[Len(queue) + 1] = stream[k][1]
      BY <2>1, <2>3, <3>1, Appended DEF Popped
    <3> QED
      BY <2>3, <3>2
  <2>4. CASE n = k /\ i # 1
    <3>1. i - 1 \in 1 .. Len(stream[k]) - 1 /\ (i - 1) + 1 = i
      BY <2>1, <2>4 DEF Popped
    <3>2. i - 1 \in 1 .. Len(stream'[k])
      BY <2>1, <2>4, <3>1 DEF Popped
    <3>3. stream'[k][i - 1] = stream[k][(i - 1) + 1]
      BY <2>1, <2>4, <3>1 DEF Popped
    <3> QED
      BY <3>1, <3>2, <3>3
  <2> QED
    BY <2>2, <2>3, <2>4
<1>9. CASE \/ MineBlock \/ Connect \/ SubscribeDeposits \/ SubscribeForcedExits
           \/ LoseConnection \/ StreamsEnded \/ UNCHANGED vars
  <2>1. stream' = stream
    BY <1>9 DEF MineBlock, Connect, SubscribeDeposits, SubscribeForcedExits, LoseConnection,
       StreamsEnded, vars
  <2> QED
    BY <2>1
<1>10. ~ListenError /\ ~Restart
  BY DEF ListenError, Restart, StopsType
<1> QED
  BY <1>5, <1>6, <1>7, <1>8, <1>9, <1>10 DEF Next

\* Once both subscriptions are made, a delivered log leaves its stream only into the
\* forced queue: the loop does not end before both streams are read to their end.
THEOREM KeptCorrect == Spec => DeliveredIsKept
  BY TypeInvariant, StopsInvariant, KeptStep, PTL DEF Spec, DeliveredIsKept
=============================================================================
