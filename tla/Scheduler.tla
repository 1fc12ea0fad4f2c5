------------------------------ MODULE Scheduler ------------------------------
(***************************************************************************)
(* The scheduling policies (scheduler/policies.rs) and the selection from  *)
(* the pool that BlobPacking makes (pool/tx_pool.rs).                      *)
(*                                                                         *)
(* FeePriority, TimeBoost and BlobPacking group the transactions by sender *)
(* and repeatedly take the best of the groups' first ones.  The groups are *)
(* kept in a HashMap, so a tie goes to whichever sender the map iterates   *)
(* first: an order is therefore a set of sequences, all that the code may  *)
(* return.                                                                 *)
(***************************************************************************)
EXTENDS Transactions, Sequences, FiniteSetsExt, TLC

CONSTANT TimeWindow   \* time_window_ms

ASSUME SchedulerAssumption == TimeWindow \in Nat \ {0}

Policies == {"FCFS", "FeePriority", "TimeBoost", "FairBFT", "BlobPacking"}

Position(s, t) == CHOOSE i \in DOMAIN s : s[i] = t

\* The transaction a sender's queue has first: lowest nonce, then earliest in s.
FirstOfSender(s, left, t) ==
  \A u \in left : u = t \/ Tx[u].from # Tx[t].from \/ Tx[t].nonce < Tx[u].nonce
                    \/ (Tx[t].nonce = Tx[u].nonce /\ Position(s, t) < Position(s, u))

\* As if the transactions were not grouped by sender.
AnyOfSender(s, left) == left

FirstOnes(s, left) == {t \in left : FirstOfSender(s, left, t)}

\* Lexicographic comparison of two sequences of numbers of the same length.
Exceeds(a, b) ==
  \E i \in DOMAIN a : a[i] > b[i] /\ \A j \in 1 .. i - 1 : a[j] = b[j]

\* The elements of s, each once, in every order.
Orders(s) == Bijection(1 .. Cardinality(Range(s)), Range(s))

\* The outcomes of taking, again and again, a first one whose key no other exceeds.
BestFirst(key, s) ==
  {o \in Orders(s) :
     \A i \in DOMAIN o :
       LET firsts == FirstOnes(s, {o[j] : j \in i .. Len(o)})
       IN o[i] \in firsts /\ \A t \in firsts : ~Exceeds(key[t], key[o[i]])}

FeeKey == [t \in Txs |-> <<Tx[t].price, -Tx[t].time>>]

TimeBoostKey ==
  [t \in Txs |-> <<-(Tx[t].time \div TimeWindow), Tx[t].boost, Tx[t].price, -Tx[t].time>>]

BlobKey == [t \in Txs |-> <<Tx[t].bytes, Tx[t].price, -Tx[t].time>>]

\* FairBFT's sort is stable and does not group by sender.
ByTime(s) ==
  {o \in Orders(s) :
     \A i, j \in DOMAIN o : i < j =>
       Exceeds(<<Tx[o[j]].time, Position(s, o[j])>>, <<Tx[o[i]].time, Position(s, o[i])>>)}

OrderTransactions(policy, s) ==
  CASE policy = "FCFS" -> {s}
    [] policy = "FeePriority" -> BestFirst(FeeKey, s)
    [] policy = "TimeBoost" -> BestFirst(TimeBoostKey, s)
    [] policy = "FairBFT" -> ByTime(s)
    [] policy = "BlobPacking" -> BestFirst(BlobKey, s)

TotalBytes(S) == FoldSet(LAMBDA t, n : n + Tx[t].bytes, 0, S)

\* take_blob_packed: candidates by size, then price, then arrival, each taken if it fits.
BlobPacked(s, maxCount, maxBytes) ==
  LET key(t) == <<Tx[t].bytes, Tx[t].price, -Position(s, t)>>
      candidates == SortSeq(s, LAMBDA t, u : Exceeds(key(t), key(u)))
      fits(S, t) == Cardinality(S) < maxCount /\ TotalBytes(S) + Tx[t].bytes <= maxBytes
      taken[n \in 0 .. Len(candidates)] ==
        IF n = 0 THEN {}
        ELSE LET before == taken[n - 1]
             IN IF fits(before, candidates[n]) THEN before \cup {candidates[n]} ELSE before
  IN taken[Len(candidates)]

\* The transactions taken out of the pool for a batch.
TakeFromPool(policy, s, maxCount, maxBytes) ==
  IF policy = "BlobPacking" THEN BlobPacked(s, maxCount, maxBytes)
  ELSE {s[i] : i \in {j \in DOMAIN s : j <= maxCount}}
=============================================================================
