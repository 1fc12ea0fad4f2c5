---------------------------- MODULE TxTraceProofs ----------------------------
(***************************************************************************)
(* What TxEngine's batches do to the sum of the balances, and what the     *)
(* traces they hand to the prover hold, for any accounts, transactions,    *)
(* genesis and bounds: the diffs of a trace chain up to the tree, the      *)
(* guest accepts every trace without a transfer to oneself, and a trace it *)
(* accepts neither makes nor loses balance below the saturation bound.     *)
(***************************************************************************)
EXTENDS TxEngineProofs, Collections

-----------------------------------------------------------------------------
(* The sum of the balances. *)

NoSelf == \A t \in Range(applied) : ~IsSelf(t)

SupplyInv ==
  /\ supply \in Int
  /\ Open \/ pc = "closed" => (NoSelf => Total(account) + Pending <= supply)
  /\ pc \in Writing /\ write.part = "receiver" => Tx \in Range(applied)

-----------------------------------------------------------------------------
(* The trace of the batch under way. *)

\* Each diff starts from the value the one before it left, as far as the two databases agreed
\* when the batch began.
Chained(t) ==
  \/ \A n \in DOMAIN t.diffs : HoldsAfter(t, n - 1, t.diffs[n].account, t.diffs[n].old)
  \/ \E n \in DOMAIN t.diffs : t.diffs[n].account \in t.torn

ChainInv ==
  /\ Running =>
       /\ torn \subseteq job.torn
       /\ Chained(job)
       /\ \A a \in Addresses :
            IF pc = "blob" /\ a = write.address
              THEN a \in torn \/ HoldsAfter(job, Len(job.diffs), a, account[a])
              ELSE HoldsAfter(job, Len(job.diffs), a, tree[a].account)
  /\ \A i \in DOMAIN proving : Chained(proving[i])
  /\ \A i \in DOMAIN traces : Chained(traces[i].trace)

\* Every diff is witnessed by the root it is folded into, and the guest's two comparisons of
\* nonces and balances fail only for the second diff of a transfer to oneself.
Witnessed(t) ==
  /\ \A n \in DOMAIN t.diffs : t.diffs[n].witness = GuestRoot(t, n - 1)
  /\ t.final = GuestRoot(t, Len(t.diffs))
Compared(d) ==
  /\ d.new.nonce >= d.old.nonce
  /\ ~ (d.new.nonce > d.old.nonce /\ d.new.balance > d.old.balance)
Replayed(t) ==
  /\ Witnessed(t)
  /\ (\A n \in DOMAIN t.diffs : Compared(t.diffs[n])) <=> \A x \in Range(t.executed) : ~IsSelf(x)

GuestInv ==
  /\ Running => Replayed(job)
  /\ \A i \in DOMAIN proving : Replayed(proving[i])
  /\ \A i \in DOMAIN traces : Replayed(traces[i].trace)
  /\ GuestAcceptsAllButSelf

\* What the diffs have added, and what the receiver under way has still to get.
Balanced(t, pending) ==
  (\A x \in Range(t.executed) : ~IsSelf(x)) =>
    \/ Net(t) + pending = 0
    \/ Net(t) + pending < 0 /\ \E d \in Range(t.diffs) : d.new.balance = MaxBalance

BalanceInv ==
  /\ Running => Balanced(job, Pending)
  /\ \A i \in DOMAIN proving : Balanced(proving[i], 0)
  /\ \A i \in DOMAIN traces : Balanced(traces[i].trace, 0)

-----------------------------------------------------------------------------
(* Sums of balances. *)

LEMMA BalancesType ==
  ASSUME NEW acc \in [Addresses -> Account]
  PROVE  /\ IsFiniteSet(Addresses)
         /\ \A a \in Addresses : Balances(acc)[a] = acc[a].balance /\ Balances(acc)[a] \in Nat
BY EngineAssumption DEF EngineAssumption, Balances, Account

LEMMA TotalType ==
  ASSUME NEW acc \in [Addresses -> Account]
  PROVE  Total(acc) \in Nat
BY BalancesType, SumNat DEF Total

LEMMA SumOfBalances ==
  ASSUME NEW f, NEW h, NEW a \in Addresses, \A b \in Addresses : f[b] \in Int /\ h[b] \in Int,
         \A b \in Addresses \ {a} : h[b] = f[b]
  PROVE  SumFunctionOnSet(h, Addresses) = SumFunctionOnSet(f, Addresses) - f[a] + h[a]
<1>1. IsFiniteSet(Addresses)
  BY EngineAssumption DEF EngineAssumption
<1> QED
  BY <1>1, SumUpdate

\* Writing one account moves the total by the difference of its balances.
LEMMA TotalUpdate ==
  ASSUME NEW acc \in [Addresses -> Account], NEW a \in Addresses, NEW new \in Account
  PROVE  Total([acc EXCEPT ![a] = new]) = Total(acc) - acc[a].balance + new.balance
<1> DEFINE upd == [acc EXCEPT ![a] = new]
<1>1. upd \in [Addresses -> Account] /\ upd[a] = new /\ \A b \in Addresses \ {a} : upd[b] = acc[b]
  OBVIOUS
<1> HIDE DEF upd
<1>2. /\ \A b \in Addresses : Balances(acc)[b] \in Int /\ Balances(upd)[b] \in Int
      /\ \A b \in Addresses \ {a} : Balances(upd)[b] = Balances(acc)[b]
      /\ Balances(acc)[a] = acc[a].balance /\ Balances(upd)[a] = new.balance
  BY <1>1, BalancesType
<1>3. SumFunctionOnSet(Balances(upd), Addresses)
        = SumFunctionOnSet(Balances(acc), Addresses) - Balances(acc)[a] + Balances(upd)[a]
  <2>1. IsFiniteSet(Addresses)
    BY BalancesType
  <2>2. PICK f, h : f = Balances(acc) /\ h = Balances(upd)
    BY Zenon
  <2>3. \A y \in Addresses : f[y] \in Int /\ h[y] \in Int
    BY <1>2, <2>2
  <2>4. \A y \in Addresses \ {a} : h[y] = f[y]
    BY <1>2, <2>2
  <2>5. SumFunctionOnSet(h, Addresses) = SumFunctionOnSet(f, Addresses) - f[a] + h[a]
    BY <2>3, <2>4, SumOfBalances
  <2> QED
    BY <2>2, <2>5
<1> QED
  BY <1>2, <1>3 DEF Total, upd

LEMMA TotalOfNothing == Total([a \in Addresses |-> Default]) = 0
<1> DEFINE acc == [a \in Addresses |-> Default]
           zero == [a \in Addresses |-> 0]
<1>1. \A a \in Addresses : Balances(acc)[a] = 0
  BY DEF Balances, Default
<1>2. IsFiniteSet(Addresses)
  BY EngineAssumption DEF EngineAssumption
<1> HIDE DEF acc
<1> QED
  BY <1>1, <1>2, SumZero DEF Total, acc

-----------------------------------------------------------------------------
(* The sum of balances. *)

LEMMA SaturatingAddBound ==
  ASSUME NEW x \in 0 .. MaxBalance, NEW y \in 0 .. MaxBalance
  PROVE  /\ SaturatingAdd(x, y) \in 0 .. MaxBalance
         /\ SaturatingAdd(x, y) = x + y
            \/ (SaturatingAdd(x, y) < x + y /\ SaturatingAdd(x, y) = MaxBalance)
<1>1. MaxBalance \in Nat
  BY Constants
<1> QED
  BY <1>1 DEF SaturatingAdd

LEMMA SaturatingAddAtMost ==
  ASSUME NEW x \in 0 .. MaxBalance, NEW y \in 0 .. MaxBalance
  PROVE  SaturatingAdd(x, y) <= x + y
<1>1. MaxBalance \in Nat
  BY Constants
<1>2. x \in Int /\ y \in Int
  BY <1>1
<1>3. PICK z : z = SaturatingAdd(x, y)
  BY Zenon
<1>4. z \in 0 .. MaxBalance /\ (z = x + y \/ z < x + y)
  BY <1>3, SaturatingAddBound, Zenon
<1> QED
  BY <1>1, <1>2, <1>3, <1>4

LEMMA CreditAtMost ==
  ASSUME NEW total \in Int, NEW old \in Int, NEW new \in Int, NEW amount \in Int,
         new <= old + amount
  PROVE  (total - old + new) + 0 <= total + amount
  OBVIOUS

LEMMA PendingType ==
  ASSUME TypeInv
  PROVE  Pending \in Nat
<1>1. CASE pc \in Writing /\ write.part = "receiver"
  <2>1. Tx \in Txs
    BY <1>1, HeadTail, Zenon DEF TypeInv, StateType, Tx
  <2>2. MaxBalance \in Nat
    BY Constants
  <2> QED
    BY <1>1, <2>1, <2>2, TxType DEF Pending
<1>2. CASE ~ (pc \in Writing /\ write.part = "receiver")
  BY <1>2 DEF Pending
<1> QED
  BY <1>1, <1>2

LEMMA SupplyInvStep == TypeInv /\ WriteInv /\ SupplyInv /\ [Next]_vars => SupplyInv'
<1> SUFFICES ASSUME TypeInv, WriteInv, SupplyInv, [Next]_vars PROVE SupplyInv'
  OBVIOUS
<1> DEFINE Receiving == pc \in Writing /\ write.part = "receiver"
<1>0. /\ applied \in Seq(Txs) /\ account \in [Addresses -> Account] /\ supply \in Int
      /\ Total(account) \in Nat /\ Pending \in Nat
  BY TotalType, PendingType, Zenon DEF SupplyInv, TypeInv, HistoryType, StateType
<1>1. CASE SameApplied
  <2>1. /\ account' = account /\ applied' = applied /\ supply' = supply /\ (Open' => Open)
        /\ Receiving' => Receiving /\ batch' = batch /\ write' = write
    BY <1>1, Zenon DEF SameApplied
  <2>2. Total(account') = Total(account) /\ (NoSelf' <=> NoSelf)
    BY <2>1 DEF NoSelf
  <2>3. Pending' = Pending \/ Pending' = 0
    BY <2>1 DEF Pending, Tx
  <2>4. Receiving' => Tx' \in Range(applied')
    BY <2>1 DEF SupplyInv, Tx
  <2>5. pc' = "closed" => Open \/ pc = "closed"
    BY <1>1 DEF SameApplied
  <2> QED
    BY <1>0, <2>1, <2>2, <2>3, <2>4, <2>5 DEF SupplyInv
<1>2. CASE Reseeded
  <2>1. ~Receiving' /\ Total(account') = Total(account) /\ supply' = Total(account)
    BY <1>2 DEF Reseeded, Running
  <2>2. Pending' = 0
    BY <2>1 DEF Pending
  <2> QED
    BY <1>0, <2>1, <2>2 DEF SupplyInv
<1>3. CASE Closed
  BY <1>3 DEF Closed, Open, Running, SupplyInv
<1>4. ASSUME NEW gone \in SUBSET {"accounts", "jmt"}, ResetFails(gone) PROVE SupplyInv'
  <2>1. /\ pc' = "closed" /\ pc \in {"idle", "closed"} /\ UNCHANGED <<applied, supply>>
        /\ account' = account \/ account' = [a \in Addresses |-> Default]
    BY <1>4, Zenon DEF ResetFails
  <2>2. ~Receiving' /\ ~Receiving /\ (Open \/ pc = "closed")
    BY <2>1 DEF Open, Writing
  <2>3. Pending' = 0 /\ Pending = 0
    BY <2>1 DEF Pending, Writing
  <2>4. Total(account') <= Total(account) /\ Total(account') \in Nat
    BY <1>0, <2>1, TotalOfNothing
  <2>5. NoSelf' <=> NoSelf
    BY <2>1 DEF NoSelf
  <2> QED
    BY <1>0, <2>1, <2>2, <2>3, <2>4, <2>5 DEF SupplyInv, Writing
<1>5. CASE Debited
  <2>1. /\ Tx \in Txs /\ Tx' = Tx /\ ~Rejected(Tx) /\ Running /\ ~Receiving /\ Receiving'
        /\ account' = [account EXCEPT ![Tx.from] = NewSender(Tx)] /\ NewSender(Tx) \in Account
        /\ applied' = Append(applied, Tx) /\ supply' = supply
    BY <1>5, DebitedEffect, Zenon
  <2>2. Tx.from \in Addresses /\ Tx.amount \in 0 .. MaxBalance /\ MaxBalance \in Nat
    BY <2>1, TxType, Constants, Zenon
  <2>3. Pending = 0 /\ Pending' = Tx.amount
    BY <2>1, Zenon DEF Pending
  <2>4. account[Tx.from].balance \in Nat /\ NewSender(Tx).balance = account[Tx.from].balance - Tx.amount
    BY <1>0, <2>2 DEF NewSender, Account
  <2>5. Total(account') = Total(account) - account[Tx.from].balance + NewSender(Tx).balance
    BY <1>0, <2>1, <2>2, TotalUpdate, Zenon
  <2>6. Total(account') + Pending' = Total(account) + Pending
    BY <1>0, <2>2, <2>3, <2>4, <2>5
  <2>7. (NoSelf' => NoSelf) /\ Tx' \in Range(applied')
    BY <1>0, <2>1 DEF NoSelf, Range
  <2> QED
    BY <2>1, <2>6, <2>7 DEF SupplyInv, Open
<1>6. CASE Credited
  <2>1. /\ Tx \in Txs /\ Running /\ Receiving /\ pc' = "loop"
        /\ write.address = Tx.to /\ write.account \in Account
        /\ account' = [account EXCEPT ![Tx.to] = write.account]
        /\ UNCHANGED <<applied, supply>>
    BY <1>6, CreditedEffect, Zenon
  <2>2. Tx.to \in Addresses /\ Tx.amount \in 0 .. MaxBalance /\ MaxBalance \in Nat
    BY <2>1, TxType, Constants, Zenon
  <2>3. Pending = Tx.amount /\ Pending' = 0 /\ ~Receiving'
    BY <2>1, Zenon DEF Pending, Writing
  <2>4. Total(account') = Total(account) - account[Tx.to].balance + write.account.balance
    BY <1>0, <2>1, <2>2, TotalUpdate, Zenon
  <2>5. (NoSelf' <=> NoSelf) /\ (NoSelf => ~IsSelf(Tx))
    BY <2>1, Zenon DEF NoSelf, SupplyInv
  <2>6. account[Tx.to].balance \in 0 .. MaxBalance /\ write.account.balance \in 0 .. MaxBalance
    BY <1>0, <2>1, <2>2, AccountType, Zenon
  <2>7. ASSUME ~IsSelf(Tx) PROVE write.account.balance <= account[Tx.to].balance + Tx.amount
    <3>1. write.account.balance = SaturatingAdd(account[Tx.to].balance, Tx.amount)
      BY <1>0, <2>1, <2>2, <2>7, Zenon DEF WriteInv, NewReceiver, Account
    <3> QED
      BY <2>2, <2>6, <3>1, SaturatingAddAtMost, Zenon
  <2>8. NoSelf => Total(account') + Pending' <= Total(account) + Pending
    <3> SUFFICES ASSUME NoSelf PROVE Total(account') + Pending' <= Total(account) + Pending
      BY Zenon
    <3>1. write.account.balance <= account[Tx.to].balance + Tx.amount
      BY <2>5, <2>7, Zenon
    <3>2. /\ Total(account) \in Int /\ Tx.amount \in Int
          /\ account[Tx.to].balance \in Int /\ write.account.balance \in Int
      BY <1>0, <2>2, <2>6
    <3> QED
      BY <2>3, <2>4, <3>1, <3>2, CreditAtMost, Zenon
  <2>9. Total(account') \in Int
    BY <1>0, <2>4, <2>6
  <2> QED
    BY <1>0, <2>1, <2>3, <2>5, <2>8, <2>9 DEF SupplyInv, Open
<1> QED
  BY <1>1, <1>2, <1>3, <1>4, <1>5, <1>6, AppliedSteps

\* Batches, errors, crashes and failed resets never add to the balances the accounts were seeded
\* with, as long as no account transfers to itself: execute_batch debits before it credits.
THEOREM NoBalanceFromNothing == Spec => []SupplyNeverGrows
<1>1. Init => SupplyInv
  BY DEF Init, SupplyInv, Open, Running, Writing
<1>2. TypeInv /\ SupplyInv => SupplyNeverGrows
  <2> SUFFICES ASSUME TypeInv, SupplyInv, pc \in {"idle", "loop", "closed"}, NoSelf
               PROVE  Total(account) <= supply
    BY Zenon DEF SupplyNeverGrows, NoSelf
  <2>1. Total(account) + Pending <= supply
    BY DEF SupplyInv, Open, Running
  <2>2. Pending = 0
    BY DEF Pending, Writing
  <2>3. Total(account) \in Nat /\ supply \in Int
    BY TotalType, Zenon DEF SupplyInv, TypeInv, StateType
  <2> QED
    BY <2>1, <2>2, <2>3
<1> QED
  BY <1>1, <1>2, SupplyInvStep, TypeInvariant, WriteInvariant, PTL DEF Spec

-----------------------------------------------------------------------------
(* The diffs of a trace. *)

LEMMA HoldsAppend ==
  ASSUME NEW S, NEW t, NEW u, NEW d \in S, t.diffs \in Seq(S), u.diffs = Append(t.diffs, d),
         u.initial = t.initial, NEW a, NEW v
  PROVE  /\ \A n \in 0 .. Len(t.diffs) : HoldsAfter(t, n, a, v) => HoldsAfter(u, n, a, v)
         /\ a # d.account /\ HoldsAfter(t, Len(t.diffs), a, v) => HoldsAfter(u, Len(u.diffs), a, v)
         /\ a = d.account /\ v = d.new => HoldsAfter(u, Len(u.diffs), a, v)
<1>1. /\ Len(t.diffs) \in Nat /\ Len(u.diffs) = Len(t.diffs) + 1
      /\ u.diffs[Len(t.diffs) + 1] = d
      /\ \A i \in 1 .. Len(t.diffs) : u.diffs[i] = t.diffs[i]
  BY Appended
<1>2. ASSUME NEW n \in 0 .. Len(t.diffs), HoldsAfter(t, n, a, v) PROVE HoldsAfter(u, n, a, v)
  <2>1. \A i \in 1 .. n : u.diffs[i] = t.diffs[i]
    BY <1>1
  <2>2. CASE v = t.initial.tree[a].account /\ \A i \in 1 .. n : t.diffs[i].account # a
    BY <2>1, <2>2, Zenon DEF HoldsAfter
  <2>3. ASSUME NEW i \in 1 .. n, t.diffs[i].account = a, t.diffs[i].new = v,
               \A j \in i + 1 .. n : t.diffs[j].account # a
        PROVE  HoldsAfter(u, n, a, v)
    <3>1. \A j \in i + 1 .. n : u.diffs[j].account # a
      BY <2>1, <2>3
    <3> QED
      BY <2>1, <2>3, <3>1, Zenon DEF HoldsAfter
  <2> QED
    BY <1>2, <2>2, <2>3, Zenon DEF HoldsAfter
<1>3. ASSUME a # d.account, HoldsAfter(u, Len(t.diffs), a, v)
      PROVE  HoldsAfter(u, Len(t.diffs) + 1, a, v)
  <2>1. CASE v = u.initial.tree[a].account /\ \A i \in 1 .. Len(t.diffs) : u.diffs[i].account # a
    <3>1. \A i \in 1 .. Len(t.diffs) + 1 : u.diffs[i].account # a
      BY <1>1, <1>3, <2>1
    <3> QED
      BY <2>1, <3>1, Zenon DEF HoldsAfter
  <2>2. ASSUME NEW i \in 1 .. Len(t.diffs), u.diffs[i].account = a, u.diffs[i].new = v,
               \A j \in i + 1 .. Len(t.diffs) : u.diffs[j].account # a
        PROVE  HoldsAfter(u, Len(t.diffs) + 1, a, v)
    <3>1. \A j \in i + 1 .. Len(t.diffs) + 1 : u.diffs[j].account # a
      BY <1>1, <1>3, <2>2
    <3>2. i \in 1 .. Len(t.diffs) + 1
      BY <1>1
    <3> QED
      BY <2>2, <3>1, <3>2, Zenon DEF HoldsAfter
  <2> QED
    BY <1>3, <2>1, <2>2, Zenon DEF HoldsAfter
<1>4. ASSUME a = d.account, v = d.new PROVE HoldsAfter(u, Len(t.diffs) + 1, a, v)
  <2>1. Len(t.diffs) + 1 \in 1 .. Len(t.diffs) + 1
    BY <1>1
  <2>2. \A j \in Len(t.diffs) + 1 + 1 .. Len(t.diffs) + 1 : u.diffs[j].account # a
    BY <1>1
  <2> QED
    BY <1>1, <1>4, <2>1, <2>2, Zenon DEF HoldsAfter
<1> QED
  BY <1>1, <1>2, <1>3, <1>4

LEMMA HoldsLast ==
  ASSUME NEW S, NEW t, NEW u, NEW d \in S, t.diffs \in Seq(S), u.diffs = Append(t.diffs, d),
         u.initial = t.initial, NEW a, NEW v, a = d.account, v = d.new
  PROVE  HoldsAfter(u, Len(u.diffs), a, v)
BY HoldsAppend, Zenon

LEMMA HoldsOther ==
  ASSUME NEW S, NEW t, NEW u, NEW d \in S, t.diffs \in Seq(S), u.diffs = Append(t.diffs, d),
         u.initial = t.initial, NEW a, NEW v, a # d.account, HoldsAfter(t, Len(t.diffs), a, v)
  PROVE  HoldsAfter(u, Len(u.diffs), a, v)
BY HoldsAppend, Zenon

LEMMA ChainedAppend ==
  ASSUME NEW S, NEW t, NEW u, NEW d \in S, t.diffs \in Seq(S), u.diffs = Append(t.diffs, d),
         u.initial = t.initial, u.torn = t.torn, Chained(t),
         d.account \in t.torn \/ HoldsAfter(t, Len(t.diffs), d.account, d.old)
  PROVE  Chained(u)
<1>1. /\ Len(t.diffs) \in Nat /\ u.diffs[Len(t.diffs) + 1] = d
      /\ \A i \in 1 .. Len(t.diffs) : u.diffs[i] = t.diffs[i]
      /\ DOMAIN t.diffs = 1 .. Len(t.diffs) /\ DOMAIN u.diffs = 1 .. Len(t.diffs) + 1
  BY Appended
<1>2. CASE \E n \in DOMAIN t.diffs : t.diffs[n].account \in t.torn
  BY <1>1, <1>2 DEF Chained
<1>3. CASE d.account \in t.torn
  <2>1. Len(t.diffs) + 1 \in DOMAIN u.diffs
    BY <1>1
  <2> QED
    BY <1>1, <1>3, <2>1, Zenon DEF Chained
<1>4. ASSUME HoldsAfter(t, Len(t.diffs), d.account, d.old),
             \A n \in DOMAIN t.diffs : HoldsAfter(t, n - 1, t.diffs[n].account, t.diffs[n].old)
      PROVE  Chained(u)
  <2>1. ASSUME NEW n \in 1 .. Len(t.diffs)
        PROVE  HoldsAfter(u, n - 1, u.diffs[n].account, u.diffs[n].old)
    <3>1. n - 1 \in 0 .. Len(t.diffs)
      BY <1>1
    <3>2. u.diffs[n] = t.diffs[n] /\ HoldsAfter(t, n - 1, t.diffs[n].account, t.diffs[n].old)
      BY <1>1, <1>4, Zenon
    <3> QED
      BY <3>1, <3>2, HoldsAppend, Zenon
  <2>2. HoldsAfter(u, Len(t.diffs), d.account, d.old)
    <3>1. Len(t.diffs) \in 0 .. Len(t.diffs)
      BY <1>1
    <3> QED
      BY <1>4, <3>1, HoldsAppend, Zenon
  <2>3. ASSUME NEW n \in DOMAIN u.diffs
        PROVE  HoldsAfter(u, n - 1, u.diffs[n].account, u.diffs[n].old)
    <3>1. CASE n = Len(t.diffs) + 1
      <4>1. n - 1 = Len(t.diffs) /\ u.diffs[n] = d
        BY <1>1, <3>1
      <4> QED
        BY <2>2, <4>1, Zenon
    <3>2. CASE n \in 1 .. Len(t.diffs)
      BY <2>1, <3>2, Zenon
    <3> QED
      BY <1>1, <3>1, <3>2
  <2> QED
    BY <2>3, Zenon DEF Chained
<1> QED
  BY <1>2, <1>3, <1>4, Zenon DEF Chained

-----------------------------------------------------------------------------
(* The traces handed on: what is true of the trace of every batch under way is true of all. *)

HandedOn(G) ==
  /\ \A i \in DOMAIN proving : proving[i] \in G
  /\ \A i \in DOMAIN traces : traces[i].trace \in G

LEMMA TracesType ==
  ASSUME TypeInv
  PROVE  /\ \A i \in DOMAIN proving : proving[i] \in Trace
         /\ \A i \in DOMAIN traces : traces[i].trace \in Trace
<1>1. proving \in Seq(Trace) /\ traces \in Seq([trace : Trace, accepted : BOOLEAN])
  BY DEF TypeInv, TraceType
<1>2. ASSUME NEW S, NEW s \in Seq(S), NEW i \in DOMAIN s PROVE s[i] \in S
  OBVIOUS
<1>3. \A i \in DOMAIN traces : traces[i] \in [trace : Trace, accepted : BOOLEAN]
  BY <1>1, <1>2, Zenon
<1> QED
  BY <1>1, <1>2, <1>3, Zenon

LEMMA HandedOnStep ==
  ASSUME NEW G, TypeInv, [Next]_vars, pc = "loop" => job \in G, HandedOn(G)
  PROVE  HandedOn(G)'
<1>0. TraceType
  BY Zenon DEF TypeInv
<1>1. CASE UNCHANGED <<proving, traces>>
  BY <1>1 DEF HandedOn
<1>2. CASE JobOver
  <2>1. CASE proving' = proving
    BY <1>2, <2>1 DEF HandedOn, JobOver
  <2>2. CASE proving' = << >>
    BY <1>2, <2>2 DEF HandedOn, JobOver
  <2> QED
    BY <1>2, <2>1, <2>2 DEF JobOver
<1>3. CASE JobDone
  <2>1. pc = "loop" /\ proving' = <<job>> /\ traces' = traces
    BY <1>3 DEF JobDone
  <2> QED
    BY <2>1 DEF HandedOn
<1>4. CASE JobProved
  <2>1. proving # << >> /\ proving' = << >>
    BY <1>4, Zenon DEF JobProved, Prove
  <2>2. PICK e : e = [trace |-> proving[1], accepted |-> GuestAccepts(proving[1])]
    BY Zenon
  <2>3. proving[1] \in Trace /\ proving[1] \in G
    BY <1>0, <2>1 DEF TraceType, HandedOn
  <2>4. e \in [trace : Trace, accepted : BOOLEAN] /\ e.trace \in G
    BY <2>2, <2>3, Zenon DEF GuestAccepts
  <2>5. traces' = Append(traces, e)
    BY <1>4, <2>2, Zenon DEF JobProved, Prove
  <2>6. /\ DOMAIN traces' = 1 .. Len(traces) + 1 /\ DOMAIN traces = 1 .. Len(traces) /\ Len(traces) \in Nat
        /\ traces'[Len(traces) + 1] = e /\ \A i \in DOMAIN traces : traces'[i] = traces[i]
    BY <1>0, <2>4, <2>5, Appended DEF TraceType
  <2> QED
    BY <2>1, <2>4, <2>6 DEF HandedOn
<1> QED
  BY <1>1, <1>2, <1>3, <1>4, JobSteps DEF JobKept, JobBegun, JobGrown

\* The trace a finished account write leaves, by its parts.
LEMMA JobGrownParts ==
  ASSUME TypeInv, NEW executed, JobGrown(executed)
  PROVE  /\ job \in Trace /\ Diff \in StateDiff /\ pc \in Writing /\ write.address \in Addresses
         /\ job'.diffs = Append(job.diffs, Diff) /\ job'.executed = executed
         /\ job'.final = FoldDiff(job.final, Diff)
         /\ job'.initial = job.initial /\ job'.torn = job.torn
<1>1. job \in Trace /\ pc = "blob" /\ pc \in Writing
  BY DEF TypeInv, TraceType, JobGrown, Writing
<1>2. Diff \in StateDiff
  BY <1>1, Zenon DEF Diff, StateDiff, Trace, TypeInv, StateType, Write
<1>3. write.address \in Addresses
  BY <1>1 DEF TypeInv, StateType
<1> QED
  BY <1>1, <1>2, <1>3, Zenon DEF JobGrown, Trace

-----------------------------------------------------------------------------
(* The chain of diffs. *)

LEMMA ChainInvStep ==
  TypeInv /\ TypeInv' /\ WriteInv /\ TreeInv /\ ChainInv /\ [Next]_vars => ChainInv'
<1> SUFFICES ASSUME TypeInv, TypeInv', WriteInv, TreeInv, ChainInv, [Next]_vars PROVE ChainInv'
  BY Zenon
<1> DEFINE G == {t \in Trace : Chained(t)}
           At(a) == IF pc = "blob" /\ a = write.address
                      THEN a \in torn \/ HoldsAfter(job, Len(job.diffs), a, account[a])
                      ELSE HoldsAfter(job, Len(job.diffs), a, tree[a].account)
           Chain == torn \subseteq job.torn /\ Chained(job) /\ \A a \in Addresses : At(a)
<1>0. StateType
  BY DEF TypeInv
<1>1. HandedOn(G)
  <2>1. /\ \A i \in DOMAIN proving : proving[i] \in Trace
        /\ \A i \in DOMAIN traces : traces[i].trace \in Trace
    BY TracesType
  <2> QED
    BY <2>1, Zenon DEF HandedOn, ChainInv
<1>2. Running => Chain /\ job \in G
  BY Zenon DEF ChainInv, TypeInv, TraceType
<1>3. HandedOn(G)'
  <2> HIDE DEF G
  <2> QED
    BY <1>1, <1>2, HandedOnStep, Zenon DEF Running
<1>4. CASE ~Running'
  BY <1>3, <1>4, Zenon DEF HandedOn, ChainInv
<1>5. ASSUME Running', Chain' PROVE ChainInv'
  BY <1>3, <1>5, Zenon DEF HandedOn, ChainInv
<1>6. CASE JobKept
  <2>1. Chain /\ job' = job /\ Running'
    BY <1>2, <1>6, Zenon DEF JobKept
  <2>2. CASE TreeKept
    BY <1>5, <2>1, <2>2, Zenon DEF TreeKept
  <2>3. CASE ExtendTree
    <3>1. /\ pc' = "blob" /\ pc # "blob" /\ UNCHANGED <<account, torn, write>>
          /\ \A a \in Addresses : a # write.address => tree'[a] = tree[a]
      BY <1>0, <2>3, Zenon DEF ExtendTree, StateType, Tree, histVars
    <3>2. \A a \in Addresses : a \in torn \/ tree[a].account = account[a]
      BY <3>1, Zenon DEF TreeInv, TreeMatchesAccounts
    <3>3. ASSUME NEW a \in Addresses PROVE At(a)'
      <4>1. HoldsAfter(job', Len(job'.diffs), a, tree[a].account)
        BY <2>1, <3>1, Zenon
      <4>2. CASE a = write.address
        BY <2>1, <3>1, <3>2, <4>1, <4>2, Zenon
      <4>3. CASE a # write.address
        BY <2>1, <3>1, <4>1, <4>3, Zenon
      <4> QED
        BY <4>2, <4>3, Zenon
    <3> QED
      BY <1>5, <2>1, <3>1, <3>3, Zenon
  <2> QED
    BY <1>6, <2>2, <2>3 DEF JobKept
<1>7. CASE JobBegun
  <2>1. /\ pc' = "loop" /\ tree' = tree /\ torn' = torn /\ Running'
        /\ job'.diffs = << >> /\ job'.torn = torn /\ job'.initial.tree = tree
    BY <1>7, Zenon DEF JobBegun, CurrentRoot, dbVars, Running
  <2>2. Chained(job')
    BY <2>1 DEF Chained
  <2>3. ASSUME NEW a \in Addresses PROVE HoldsAfter(job', Len(job'.diffs), a, tree'[a].account)
    BY <2>1 DEF HoldsAfter
  <2> QED
    BY <1>5, <2>1, <2>2, <2>3, Zenon
<1>8. ASSUME NEW executed, JobGrown(executed), PersistAccountBlob, pc' # "blob" PROVE ChainInv'
  <2>1. /\ job \in Trace /\ Diff \in StateDiff /\ pc \in Writing /\ write.address \in Addresses
        /\ job'.diffs = Append(job.diffs, Diff)
        /\ job'.initial = job.initial /\ job'.torn = job.torn
    BY <1>8, JobGrownParts, Zenon
  <2>2. job.diffs \in Seq(StateDiff)
    BY <2>1, Zenon DEF Trace
  <2>3. Running /\ Running' /\ Chain /\ pc = "blob"
    BY <1>2, <1>8 DEF JobGrown
  <2>4. torn' = torn \ {write.address} /\ tree' = tree
    BY <1>8 DEF PersistAccountBlob
  <2>5. /\ Diff.account = write.address /\ Diff.new = write.account
        /\ Diff.old = account[write.address] /\ tree[write.address].account = write.account
    BY <2>1, <2>3, Zenon DEF Diff, WriteInv, TreeInv
  <2>6. Diff.account \in job.torn \/ HoldsAfter(job, Len(job.diffs), Diff.account, Diff.old)
    BY <2>1, <2>3, <2>5, Zenon
  <2>7. Chained(job')
    BY <2>1, <2>2, <2>3, <2>6, ChainedAppend, Zenon
  <2>8. ASSUME NEW a \in Addresses PROVE HoldsAfter(job', Len(job'.diffs), a, tree'[a].account)
    <3>1. CASE a = write.address
      <4>1. a = Diff.account /\ tree'[a].account = Diff.new
        BY <2>4, <2>5, <3>1, Zenon
      <4>2. PICK v : v = tree'[a].account
        BY Zenon
      <4>3. HoldsAfter(job', Len(job'.diffs), a, v)
        BY <2>1, <2>2, <4>1, <4>2, HoldsLast, Zenon
      <4> QED
        BY <4>2, <4>3
    <3>2. CASE a # write.address
      <4>1. a # Diff.account /\ HoldsAfter(job, Len(job.diffs), a, tree'[a].account)
        BY <2>3, <2>4, <2>5, <3>2, Zenon
      <4>2. PICK v : v = tree'[a].account
        BY Zenon
      <4>3. HoldsAfter(job', Len(job'.diffs), a, v)
        <5>1. HoldsAfter(job, Len(job.diffs), a, v)
          BY <4>1, <4>2, Zenon
        <5> QED
          BY <2>1, <2>2, <4>1, <5>1, HoldsOther, Zenon
      <4> QED
        BY <4>2, <4>3
    <3> QED
      BY <3>1, <3>2, Zenon
  <2> QED
    BY <1>5, <1>8, <2>1, <2>3, <2>4, <2>7, <2>8, Zenon
<1>9. CASE Debited /\ JobGrown(job.executed)
  BY <1>8, <1>9 DEF Debited
<1>10. CASE Credited /\ JobGrown(Append(job.executed, Tx))
  BY <1>8, <1>10 DEF Credited
<1> QED
  BY <1>4, <1>6, <1>7, <1>9, <1>10, JobSteps DEF JobOver, JobDone, JobProved

\* The diffs of execute_batch lead from the accounts under the initial root to the accounts of
\* the tree, each from the value the one before it left, unless an earlier set_account had
\* reached only the tree.
THEOREM DiffsLead == Spec => []DiffsLeadToTree
<1>1. Init => ChainInv
  BY DEF Init, ChainInv, Running, Writing
<1>2. ChainInv => DiffsLeadToTree
  BY Zenon DEF ChainInv, DiffsLeadToTree, Chained, Running
<1> QED
  BY <1>1, <1>2, ChainInvStep, TypeInvariant, WriteInvariant, TreeInvariant, PTL DEF Spec

-----------------------------------------------------------------------------
(* The guest's replay. *)

LEMMA AppendConcat ==
  ASSUME NEW X, NEW f \in Seq(X), NEW g \in Seq(X), NEW h \in Seq(X), NEW e \in X,
         Len(h) = Len(g) + 1, \A i \in 1 .. Len(g) : h[i] = g[i], h[Len(g) + 1] = e
  PROVE  f \o h = Append(f \o g, e)
<1>1. h = Append(g, e)
  OBVIOUS
<1>2. f \o Append(g, e) = Append(f \o g, e)
  OBVIOUS
<1> QED
  BY <1>1, <1>2, Zenon

LEMMA GuestRootAppend ==
  ASSUME NEW t, NEW u, NEW d \in StateDiff, t.diffs \in Seq(StateDiff),
         u.diffs = Append(t.diffs, d), t.initial \in Root, u.initial = t.initial
  PROVE  /\ \A n \in 0 .. Len(t.diffs) : GuestRoot(u, n) = GuestRoot(t, n)
         /\ GuestRoot(u, Len(u.diffs)) = FoldDiff(GuestRoot(t, Len(t.diffs)), d)
<1> DEFINE X == Addresses \X Account \X Account
           len == Len(t.diffs)
           g == [i \in 1 .. len |-> Folded(t.diffs[i])]
           h == [i \in 1 .. len + 1 |-> Folded(u.diffs[i])]
<1>1. /\ len \in Nat /\ Len(u.diffs) = len + 1 /\ u.diffs[len + 1] = d
      /\ \A i \in 1 .. len : u.diffs[i] = t.diffs[i] /\ t.diffs[i] \in StateDiff
  BY Appended
<1>2. \A e \in StateDiff : Folded(e) \in X
  BY Zenon DEF Folded, StateDiff
<1>3. ASSUME NEW n \in 0 .. len PROVE GuestRoot(u, n) = GuestRoot(t, n)
  <2>1. [i \in 1 .. n |-> Folded(u.diffs[i])] = [i \in 1 .. n |-> Folded(t.diffs[i])]
    BY <1>1
  <2> QED
    BY <2>1, Zenon DEF GuestRoot
<1>4. t.initial.fold \in Seq(X)
  BY DEF Root
<1>5. g \in Seq(X) /\ Len(g) = len /\ \A i \in 1 .. len : g[i] = Folded(t.diffs[i])
  BY <1>1, <1>2
<1>6. h \in Seq(X) /\ Len(h) = len + 1 /\ \A i \in 1 .. len + 1 : h[i] = Folded(u.diffs[i])
  BY <1>1, <1>2
<1>7. t.initial.fold \o h = Append(t.initial.fold \o g, Folded(d))
  <2>1. (\A i \in 1 .. Len(g) : h[i] = g[i]) /\ h[Len(g) + 1] = Folded(d) /\ Len(h) = Len(g) + 1
    BY <1>1, <1>5, <1>6
  <2>2. Folded(d) \in X
    BY <1>2, Zenon
  <2> HIDE DEF g, h, X, len
  <2>3. PICK f, e : f = t.initial.fold /\ e = Folded(d)
    BY Zenon
  <2>4. /\ f \in Seq(X) /\ g \in Seq(X) /\ h \in Seq(X) /\ e \in X
        /\ Len(h) = Len(g) + 1 /\ (\A i \in 1 .. Len(g) : h[i] = g[i]) /\ h[Len(g) + 1] = e
    BY <1>4, <1>5, <1>6, <2>1, <2>2, <2>3, Zenon
  <2>5. f \o h = Append(f \o g, e)
    BY <2>4, AppendConcat
  <2> QED
    BY <2>3, <2>5, Zenon
<1>8. GuestRoot(t, len) = [t.initial EXCEPT !.fold = t.initial.fold \o g]
  BY DEF GuestRoot, Root
<1>9. GuestRoot(u, len + 1) = [t.initial EXCEPT !.fold = t.initial.fold \o h]
  BY DEF GuestRoot, Root
<1>10. FoldDiff(GuestRoot(t, len), d)
         = [t.initial EXCEPT !.fold = Append(t.initial.fold \o g, Folded(d))]
  <2> HIDE DEF g
  <2> QED
    BY <1>8, Zenon DEF FoldDiff, Root
<1> QED
  BY <1>1, <1>3, <1>7, <1>9, <1>10, Zenon

LEMMA WitnessedAppend ==
  ASSUME NEW t, NEW u, NEW d \in StateDiff, t.diffs \in Seq(StateDiff),
         u.diffs = Append(t.diffs, d), t.initial \in Root, u.initial = t.initial,
         Witnessed(t), d.witness = t.final, u.final = FoldDiff(t.final, d)
  PROVE  Witnessed(u)
<1>1. /\ Len(t.diffs) \in Nat /\ u.diffs[Len(t.diffs) + 1] = d
      /\ \A i \in 1 .. Len(t.diffs) : u.diffs[i] = t.diffs[i]
      /\ DOMAIN t.diffs = 1 .. Len(t.diffs) /\ DOMAIN u.diffs = 1 .. Len(t.diffs) + 1
  BY Appended
<1>2. /\ \A n \in 0 .. Len(t.diffs) : GuestRoot(u, n) = GuestRoot(t, n)
      /\ GuestRoot(u, Len(u.diffs)) = FoldDiff(GuestRoot(t, Len(t.diffs)), d)
  BY GuestRootAppend, Zenon
<1>3. ASSUME NEW n \in DOMAIN u.diffs PROVE u.diffs[n].witness = GuestRoot(u, n - 1)
  <2>1. CASE n \in 1 .. Len(t.diffs)
    <3>1. n - 1 \in 0 .. Len(t.diffs) /\ t.diffs[n].witness = GuestRoot(t, n - 1)
      BY <1>1, <2>1 DEF Witnessed
    <3> QED
      BY <1>1, <1>2, <2>1, <3>1, Zenon
  <2>2. CASE n = Len(t.diffs) + 1
    <3>1. n - 1 = Len(t.diffs) /\ n - 1 \in 0 .. Len(t.diffs) /\ u.diffs[n] = d
      BY <1>1, <2>2
    <3> QED
      BY <1>2, <3>1, Zenon DEF Witnessed
  <2> QED
    BY <1>1, <1>3, <2>1, <2>2
<1> QED
  BY <1>2, <1>3, Zenon DEF Witnessed

LEMMA RangeAppend ==
  ASSUME NEW S, NEW s \in Seq(S), NEW e \in S
  PROVE  Range(Append(s, e)) = Range(s) \cup {e}
<1>1. /\ Len(s) \in Nat /\ Append(s, e)[Len(s) + 1] = e
      /\ \A i \in 1 .. Len(s) : Append(s, e)[i] = s[i]
      /\ DOMAIN s = 1 .. Len(s) /\ DOMAIN Append(s, e) = 1 .. Len(s) + 1
  BY Appended
<1>2. ASSUME NEW x \in Range(Append(s, e)) PROVE x \in Range(s) \cup {e}
  BY <1>1 DEF Range
<1>3. ASSUME NEW x \in Range(s) PROVE x \in Range(Append(s, e))
  BY <1>1 DEF Range
<1>4. e \in Range(Append(s, e))
  BY <1>1 DEF Range
<1> QED
  BY <1>2, <1>3, <1>4

\* The guest's comparisons, for the two diffs of a transfer.
LEMMA ComparedDiff ==
  ASSUME TypeInv, WriteInv, pc \in Writing, write.part \in {"sender", "receiver"}
  PROVE  Compared(Diff) <=> ~ (write.part = "receiver" /\ IsSelf(Tx))
<1>1. /\ Tx \in Txs /\ write.account \in Account /\ write.address \in Addresses
      /\ account \in [Addresses -> Account]
  BY HeadTail, Zenon DEF TypeInv, StateType, Tx, Write
<1>2. /\ Tx.from \in Addresses /\ Tx.to \in Addresses /\ Tx.amount \in 0 .. MaxBalance
      /\ MaxBalance \in Nat
  BY <1>1, TxType, Constants, Zenon
<1>3. Diff.old = account[write.address] /\ Diff.new = write.account
  BY Zenon DEF Diff, WriteInv
<1>4. account[write.address].balance \in Nat /\ account[write.address].nonce \in Nat
  BY <1>1, <1>2 DEF Account
<1>5. CASE write.part = "sender"
  <2>1. write.account.balance = account[write.address].balance - Tx.amount
        /\ write.account.nonce = account[write.address].nonce + 1
    BY <1>5 DEF WriteInv, NewSender
  <2> QED
    BY <1>2, <1>3, <1>4, <1>5, <2>1 DEF Compared
<1>6. CASE write.part = "receiver" /\ IsSelf(Tx)
  <2>1. write.account.nonce < account[write.address].nonce
    BY <1>6, Zenon DEF WriteInv
  <2> QED
    BY <1>1, <1>3, <1>4, <1>6, <2>1, AccountType DEF Compared
<1>7. CASE write.part = "receiver" /\ ~IsSelf(Tx)
  <2>1. write.account.nonce = account[write.address].nonce
    BY <1>1, <1>2, <1>7 DEF WriteInv, NewReceiver, Account
  <2> QED
    BY <1>3, <1>4, <1>7, <2>1 DEF Compared
<1> QED
  BY <1>5, <1>6, <1>7

LEMMA ReplayedAccepted ==
  ASSUME NEW t \in Trace, Replayed(t)
  PROVE  GuestAccepts(t) <=> \A x \in Range(t.executed) : ~IsSelf(x)
<1>1. GuestAccepts(t) <=> \A n \in DOMAIN t.diffs : Compared(t.diffs[n])
  BY Zenon DEF Replayed, Witnessed, GuestAccepts, ApplyDiff, Compared
<1> QED
  BY <1>1, Zenon DEF Replayed

LEMMA ReplayedAppend ==
  ASSUME NEW t, NEW u, NEW d \in StateDiff, t.diffs \in Seq(StateDiff),
         u.diffs = Append(t.diffs, d), t.initial \in Root, u.initial = t.initial,
         Replayed(t), d.witness = t.final, u.final = FoldDiff(t.final, d),
         NEW S, Range(u.executed) = Range(t.executed) \cup S,
         Compared(d) <=> \A x \in S : ~IsSelf(x)
  PROVE  Replayed(u)
<1>1. Witnessed(u)
  BY WitnessedAppend, Zenon DEF Replayed
<1>2. /\ Len(t.diffs) \in Nat /\ u.diffs[Len(t.diffs) + 1] = d
      /\ \A i \in 1 .. Len(t.diffs) : u.diffs[i] = t.diffs[i]
      /\ DOMAIN t.diffs = 1 .. Len(t.diffs) /\ DOMAIN u.diffs = 1 .. Len(t.diffs) + 1
  BY Appended
<1>3. (\A n \in DOMAIN u.diffs : Compared(u.diffs[n]))
        <=> (\A n \in DOMAIN t.diffs : Compared(t.diffs[n])) /\ Compared(d)
  BY <1>2
<1>4. (\A x \in Range(u.executed) : ~IsSelf(x))
        <=> (\A x \in Range(t.executed) : ~IsSelf(x)) /\ \A x \in S : ~IsSelf(x)
  BY Zenon
<1> QED
  BY <1>1, <1>3, <1>4, Zenon DEF Replayed

LEMMA GuestInvStep == TypeInv /\ TypeInv' /\ WriteInv /\ GuestInv /\ [Next]_vars => GuestInv'
<1> SUFFICES ASSUME TypeInv, TypeInv', WriteInv, GuestInv, [Next]_vars PROVE GuestInv'
  BY Zenon
<1> DEFINE G == {t \in Trace : Replayed(t)}
<1>1. HandedOn(G)
  BY TracesType, Zenon DEF HandedOn, GuestInv
<1>2. Running => job \in G
  BY Zenon DEF GuestInv, TypeInv, TraceType
<1>3. HandedOn(G)'
  <2> HIDE DEF G
  <2> QED
    BY <1>1, <1>2, HandedOnStep DEF Running
<1>4. GuestAcceptsAllButSelf'
  <2>1. CASE traces' = traces
    BY <2>1, Zenon DEF GuestInv, GuestAcceptsAllButSelf
  <2>2. CASE JobProved
    <3>1. proving # << >> /\ proving \in Seq(Trace)
      BY <2>2, Zenon DEF JobProved, Prove, TypeInv, TraceType
    <3>2. PICK t : t = proving[1]
      BY Zenon
    <3>3. t \in Trace /\ Replayed(t)
      BY <3>1, <3>2 DEF GuestInv
    <3>4. PICK e : e = [trace |-> t, accepted |-> GuestAccepts(t)]
      BY Zenon
    <3>5. /\ e \in [trace : Trace, accepted : BOOLEAN]
          /\ e.accepted <=> \A x \in Range(e.trace.executed) : ~IsSelf(x)
      BY <3>3, <3>4, ReplayedAccepted, Zenon DEF GuestAccepts
    <3>6. traces' = Append(traces, e)
      BY <2>2, <3>2, <3>4, Zenon DEF JobProved, Prove
    <3>7. /\ DOMAIN traces' = 1 .. Len(traces) + 1 /\ DOMAIN traces = 1 .. Len(traces)
          /\ Len(traces) \in Nat /\ traces'[Len(traces) + 1] = e
          /\ \A i \in DOMAIN traces : traces'[i] = traces[i]
      BY <3>5, <3>6, Appended DEF TypeInv, TraceType
    <3>8. ASSUME NEW i \in DOMAIN traces'
          PROVE  traces'[i].accepted <=> \A x \in Range(traces'[i].trace.executed) : ~IsSelf(x)
      <4>1. CASE i = Len(traces) + 1
        BY <3>5, <3>7, <4>1, Zenon
      <4>2. CASE i \in DOMAIN traces
        BY <3>7, <4>2, Zenon DEF GuestInv, GuestAcceptsAllButSelf
      <4> QED
        BY <3>7, <3>8, <4>1, <4>2
    <3> QED
      BY <3>8, Zenon DEF GuestAcceptsAllButSelf
  <2> QED
    BY <2>1, <2>2, JobSteps DEF JobKept, JobOver, JobBegun, JobDone, JobGrown
<1>5. CASE ~Running'
  BY <1>3, <1>4, <1>5, Zenon DEF HandedOn, GuestInv
<1>6. ASSUME Replayed(job') PROVE GuestInv'
  BY <1>3, <1>4, <1>6, Zenon DEF HandedOn, GuestInv
<1>7. CASE JobKept
  BY <1>2, <1>6, <1>7, Zenon DEF JobKept
<1>8. CASE JobBegun
  <2>1. /\ job'.diffs = << >> /\ job'.executed = << >>
        /\ job'.initial = CurrentRoot /\ job'.final = CurrentRoot
    BY <1>8, Zenon DEF JobBegun
  <2>2. << >> \o [i \in 1 .. 0 |-> Folded(job'.diffs[i])] = << >>
    OBVIOUS
  <2>3. GuestRoot(job', 0) = CurrentRoot
    BY <2>1, <2>2 DEF GuestRoot, CurrentRoot
  <2> QED
    BY <1>6, <2>1, <2>3 DEF Replayed, Witnessed, Range
<1>9. ASSUME NEW executed, JobGrown(executed), NEW S, Range(executed) = Range(job.executed) \cup S,
             Compared(Diff) <=> \A x \in S : ~IsSelf(x)
      PROVE  GuestInv'
  <2>1. /\ job \in Trace /\ Diff \in StateDiff
        /\ job'.diffs = Append(job.diffs, Diff) /\ job'.executed = executed
        /\ job'.final = FoldDiff(job.final, Diff) /\ job'.initial = job.initial
    BY <1>9, JobGrownParts, Zenon
  <2>2. job.diffs \in Seq(StateDiff) /\ job.initial \in Root /\ Diff.witness = job.final
    BY <2>1, Zenon DEF Trace, Diff
  <2>3. Replayed(job)
    BY <1>2, <1>9 DEF JobGrown
  <2>4. Replayed(job')
    BY <1>9, <2>1, <2>2, <2>3, ReplayedAppend, Zenon
  <2> QED
    BY <1>6, <2>4, Zenon
<1>10. CASE Debited /\ JobGrown(job.executed)
  <2>1. write.part = "sender" /\ pc \in Writing
    BY <1>10, Zenon DEF Debited, PersistAccountBlob, Writing
  <2>2. Compared(Diff)
    BY <2>1, ComparedDiff
  <2>3. PICK S : S = {}
    BY Zenon
  <2>4. Range(job.executed) = Range(job.executed) \cup S /\ (Compared(Diff) <=> \A x \in S : ~IsSelf(x))
    BY <2>2, <2>3
  <2> QED
    BY <1>9, <1>10, <2>4, Zenon
<1>11. CASE Credited /\ JobGrown(Append(job.executed, Tx))
  <2>1. write.part = "receiver" /\ pc \in Writing
    BY <1>11, Zenon DEF Credited, PersistAccountBlob, Writing
  <2>2. Compared(Diff) <=> ~IsSelf(Tx)
    BY <2>1, ComparedDiff
  <2>3. Tx \in Txs /\ job.executed \in Seq(Txs)
    BY <1>11, CreditedEffect, JobGrownParts, Zenon DEF Trace
  <2>4. Range(Append(job.executed, Tx)) = Range(job.executed) \cup {Tx}
    BY <2>3, RangeAppend
  <2>5. Compared(Diff) <=> \A x \in {Tx} : ~IsSelf(x)
    BY <2>2
  <2> QED
    BY <1>9, <1>11, <2>4, <2>5, Zenon
<1> QED
  BY <1>5, <1>7, <1>8, <1>10, <1>11, JobSteps DEF JobOver, JobDone, JobProved

LEMMA GuestInvariant == Spec => []GuestInv
<1>1. Init => GuestInv
  BY DEF Init, GuestInv, GuestAcceptsAllButSelf, Running, Writing
<1> QED
  BY <1>1, GuestInvStep, TypeInvariant, WriteInvariant, PTL DEF Spec

\* The guest accepts a trace of execute_batch exactly when it holds no transfer of an account to
\* itself: the roots it folds are the engine's, and apply_diff's comparisons fail only for the
\* second diff of such a transfer.
THEOREM GuestAcceptance == Spec => []GuestAcceptsAllButSelf
<1>1. GuestInv => GuestAcceptsAllButSelf
  BY Zenon DEF GuestInv
<1> QED
  BY <1>1, GuestInvariant, PTL

-----------------------------------------------------------------------------
(* What the diffs add to the balances. *)

LEMMA NetType ==
  ASSUME NEW t, t.diffs \in Seq(StateDiff)
  PROVE  Net(t) \in Int
<1>1. DOMAIN t.diffs = 1 .. Len(t.diffs) /\ Len(t.diffs) \in Nat
  OBVIOUS
<1>2. IsFiniteSet(DOMAIN t.diffs)
  BY <1>1, FS_Interval
<1>3. \A i \in DOMAIN t.diffs : t.diffs[i].new \in Account /\ t.diffs[i].old \in Account
  <2>1. \A i \in DOMAIN t.diffs : t.diffs[i] \in StateDiff
    OBVIOUS
  <2>2. \A e \in StateDiff : e.new \in Account /\ e.old \in Account
    BY DEF StateDiff
  <2> QED
    BY <2>1, <2>2, Zenon
<1>4. MaxBalance \in Nat
  BY Constants, Zenon
<1>5. \A i \in DOMAIN t.diffs : Change(t)[i] \in Int
  BY <1>3, <1>4, AccountType DEF Change
<1> QED
  BY <1>2, <1>5, SumInt, Zenon DEF Net

LEMMA NetAppend ==
  ASSUME NEW t, NEW u, NEW d \in StateDiff, t.diffs \in Seq(StateDiff),
         u.diffs = Append(t.diffs, d)
  PROVE  Net(u) = Net(t) + (d.new.balance - d.old.balance)
<1> DEFINE len == Len(t.diffs)
<1>1. /\ len \in Nat /\ u.diffs[len + 1] = d
      /\ \A i \in 1 .. len : u.diffs[i] = t.diffs[i]
      /\ DOMAIN t.diffs = 1 .. len /\ DOMAIN u.diffs = 1 .. len + 1
      /\ u.diffs \in Seq(StateDiff)
  BY Appended
<1>2. \A e \in StateDiff : e.new.balance \in Int /\ e.old.balance \in Int
  <2>1. MaxBalance \in Nat
    BY Constants, Zenon
  <2>2. \A e \in StateDiff : e.new \in Account /\ e.old \in Account
    BY DEF StateDiff
  <2> QED
    BY <2>1, <2>2, AccountType
<1>3. \A i \in 1 .. len + 1 : Change(u)[i] = u.diffs[i].new.balance - u.diffs[i].old.balance
  BY <1>1, Zenon DEF Change
<1>4. \A i \in 1 .. len : Change(t)[i] = Change(u)[i]
  BY <1>1 DEF Change
<1>5. \A i \in 1 .. len + 1 : Change(u)[i] \in Int
  <2>1. \A i \in 1 .. len + 1 : u.diffs[i] \in StateDiff
    BY <1>1
  <2> QED
    BY <1>2, <1>3, <2>1
<1>6. IsFiniteSet(1 .. len) /\ IsFiniteSet(1 .. len + 1) /\ len + 1 \in 1 .. len + 1
  BY <1>1, FS_Interval
<1>7. (1 .. len + 1) \ {len + 1} = 1 .. len
  BY <1>1
<1> HIDE DEF len
<1>8. PICK f, h, n : f = Change(u) /\ h = Change(t) /\ n = len + 1
  BY Zenon
<1>9. SumFunctionOnSet(f, 1 .. n) = f[n] + SumFunctionOnSet(f, (1 .. n) \ {n})
  <2>1. PICK I : I = 1 .. n
    BY Zenon
  <2>2. IsFiniteSet(I) /\ n \in I /\ \A i \in I : f[i] \in Int
    BY <1>5, <1>6, <1>8, <2>1, Zenon
  <2>3. SumFunctionOnSet(f, I) = f[n] + SumFunctionOnSet(f, I \ {n})
    BY <2>2, SumRemove, Zenon
  <2> QED
    BY <2>1, <2>3
<1>10. SumFunctionOnSet(h, 1 .. len) = SumFunctionOnSet(f, 1 .. len)
  BY <1>4, <1>6, <1>8, SumSame, Zenon
<1>11. Net(u) = SumFunctionOnSet(f, 1 .. n) /\ Net(t) = SumFunctionOnSet(h, 1 .. len)
  BY <1>1, <1>8, Zenon DEF Net
<1>12. f[n] = d.new.balance - d.old.balance
  BY <1>1, <1>3, <1>6, <1>8, Zenon
<1>13. Net(t) \in Int /\ d.new.balance \in Int /\ d.old.balance \in Int
  BY <1>2, NetType, Zenon
<1>14. Net(u) = f[n] + Net(t)
  BY <1>7, <1>8, <1>9, <1>10, <1>11, Zenon
<1> QED
  BY <1>12, <1>13, <1>14

LEMMA BalancedAppend ==
  ASSUME NEW t, NEW u, NEW d \in StateDiff, t.diffs \in Seq(StateDiff),
         u.diffs = Append(t.diffs, d), NEW p \in Int, NEW q \in Int, Balanced(t, p),
         Range(t.executed) \subseteq Range(u.executed),
         (\A x \in Range(u.executed) : ~IsSelf(x)) =>
           \/ d.new.balance - d.old.balance + q = p
           \/ d.new.balance - d.old.balance + q < p /\ d.new.balance = MaxBalance
  PROVE  Balanced(u, q)
<1> SUFFICES ASSUME \A x \in Range(u.executed) : ~IsSelf(x)
             PROVE  \/ Net(u) + q = 0
                    \/ Net(u) + q < 0 /\ \E e \in Range(u.diffs) : e.new.balance = MaxBalance
  BY Zenon DEF Balanced
<1>1. Net(u) = Net(t) + (d.new.balance - d.old.balance) /\ Net(t) \in Int
  BY NetAppend, NetType, Zenon
<1>2. d.new.balance \in Int /\ d.old.balance \in Int
  <2>1. MaxBalance \in Nat /\ d.new \in Account /\ d.old \in Account
    BY Constants, Zenon DEF StateDiff
  <2> QED
    BY <2>1, AccountType
<1>3. Range(u.diffs) = Range(t.diffs) \cup {d}
  BY RangeAppend
<1>4. \/ Net(t) + p = 0
      \/ Net(t) + p < 0 /\ \E e \in Range(t.diffs) : e.new.balance = MaxBalance
  BY Zenon DEF Balanced
<1> QED
  BY <1>1, <1>2, <1>3, <1>4

LEMMA BalanceInvStep == TypeInv /\ TypeInv' /\ WriteInv /\ BalanceInv /\ [Next]_vars => BalanceInv'
<1> SUFFICES ASSUME TypeInv, TypeInv', WriteInv, BalanceInv, [Next]_vars PROVE BalanceInv'
  BY Zenon
<1> DEFINE G == {t \in Trace : Balanced(t, 0)}
<1>1. HandedOn(G)
  BY TracesType, Zenon DEF HandedOn, BalanceInv
<1>2. pc = "loop" => job \in G
  BY Zenon DEF BalanceInv, TypeInv, TraceType, Running, Pending, Writing
<1>3. HandedOn(G)'
  <2> HIDE DEF G
  <2> QED
    BY <1>1, <1>2, HandedOnStep
<1>4. CASE ~Running'
  BY <1>3, <1>4, Zenon DEF HandedOn, BalanceInv
<1>5. ASSUME Balanced(job', Pending') PROVE BalanceInv'
  BY <1>3, <1>5, Zenon DEF HandedOn, BalanceInv
<1>6. CASE JobKept
  BY <1>5, <1>6, Zenon DEF JobKept, BalanceInv
<1>7. CASE JobBegun
  <2>1. job'.diffs = << >> /\ Pending' = 0
    BY <1>7, Zenon DEF JobBegun, Pending, Writing
  <2>2. DOMAIN job'.diffs = {}
    BY <2>1
  <2>3. Net(job') = 0
    BY <2>2, SumEmpty, Zenon DEF Net
  <2> QED
    BY <1>5, <2>1, <2>3 DEF Balanced
<1>8. ASSUME NEW executed, JobGrown(executed), NEW p \in Int, NEW q \in Int,
             p = Pending, q = Pending', Range(job.executed) \subseteq Range(executed),
             (\A x \in Range(executed) : ~IsSelf(x)) =>
               \/ Diff.new.balance - Diff.old.balance + q = p
               \/ Diff.new.balance - Diff.old.balance + q < p /\ Diff.new.balance = MaxBalance
      PROVE  BalanceInv'
  <2>1. /\ job \in Trace /\ Diff \in StateDiff
        /\ job'.diffs = Append(job.diffs, Diff) /\ job'.executed = executed
    BY <1>8, JobGrownParts, Zenon
  <2>2. job.diffs \in Seq(StateDiff) /\ Balanced(job, p)
    BY <1>8, <2>1 DEF Trace, BalanceInv, JobGrown
  <2>3. Balanced(job', q)
    BY <1>8, <2>1, <2>2, BalancedAppend, Zenon
  <2> QED
    BY <1>5, <1>8, <2>3, Zenon
<1>9. /\ Diff.new = write.account /\ (pc \in Writing => Diff.old = account[write.address])
      /\ account \in [Addresses -> Account] /\ MaxBalance \in Nat
  BY Constants, Zenon DEF Diff, WriteInv, TypeInv, StateType
<1>10. CASE Debited /\ JobGrown(job.executed)
  <2>1. /\ Tx \in Txs /\ Tx' = Tx /\ ~ (pc \in Writing /\ write.part = "receiver")
        /\ pc' \in Writing /\ write'.part = "receiver"
    BY <1>10, DebitedEffect, Zenon
  <2>2. Tx.from \in Addresses /\ Tx.amount \in 0 .. MaxBalance
    BY <2>1, TxType, Zenon
  <2>3. Pending = 0 /\ Pending' = Tx.amount
    BY <2>1, Zenon DEF Pending
  <2>4. pc \in Writing /\ write.part = "sender"
    BY <1>10 DEF Debited, PersistAccountBlob, Writing
  <2>5. Diff.new.balance = account[Tx.from].balance - Tx.amount /\ Diff.old = account[Tx.from]
    BY <1>9, <2>4 DEF WriteInv, NewSender
  <2>6. account[Tx.from].balance \in 0 .. MaxBalance
    BY <1>9, <2>2, AccountType, Zenon
  <2>7. PICK p, q : p = Pending /\ q = Pending'
    BY Zenon
  <2>8. p \in Int /\ q \in Int /\ Diff.new.balance - Diff.old.balance + q = p
    BY <1>9, <2>2, <2>3, <2>5, <2>6, <2>7
  <2> QED
    BY <1>8, <1>10, <2>7, <2>8, Zenon
<1>11. CASE Credited /\ JobGrown(Append(job.executed, Tx))
  <2>1. /\ Tx \in Txs /\ pc \in Writing /\ write.part = "receiver" /\ pc' = "loop"
        /\ write.address = Tx.to /\ write.account \in Account
    BY <1>11, CreditedEffect, Zenon
  <2>2. Tx.to \in Addresses /\ Tx.amount \in 0 .. MaxBalance
    BY <2>1, TxType, Zenon
  <2>3. Pending = Tx.amount /\ Pending' = 0
    BY <2>1, Zenon DEF Pending, Writing
  <2>4. job.executed \in Seq(Txs)
    BY <1>11, JobGrownParts, Zenon DEF Trace
  <2>5. Range(Append(job.executed, Tx)) = Range(job.executed) \cup {Tx}
    BY <2>1, <2>4, RangeAppend
  <2>6. account[Tx.to].balance \in 0 .. MaxBalance
    BY <1>9, <2>2, AccountType, Zenon
  <2>7. PICK p, q, b : p = Pending /\ q = Pending' /\ b = account[Tx.to].balance
    BY Zenon
  <2>8. ASSUME ~IsSelf(Tx)
        PROVE  \/ Diff.new.balance - Diff.old.balance + q = p
               \/ Diff.new.balance - Diff.old.balance + q < p /\ Diff.new.balance = MaxBalance
    <3>1. write.account = NewReceiver(Tx)
      BY <2>1, <2>8, Zenon DEF WriteInv
    <3>2. Diff.new.balance = SaturatingAdd(b, Tx.amount) /\ Diff.old.balance = b
      BY <1>9, <2>1, <2>2, <2>7, <3>1, Zenon DEF NewReceiver, Account
    <3>3. /\ SaturatingAdd(b, Tx.amount) \in 0 .. MaxBalance
          /\ SaturatingAdd(b, Tx.amount) = b + Tx.amount
             \/ (SaturatingAdd(b, Tx.amount) < b + Tx.amount /\ SaturatingAdd(b, Tx.amount) = MaxBalance)
      BY <2>2, <2>6, <2>7, SaturatingAddBound, Zenon
    <3> QED
      BY <1>9, <2>2, <2>3, <2>6, <2>7, <3>2, <3>3
  <2>9. p \in Int /\ q \in Int
    BY <2>2, <2>3, <2>7
  <2> QED
    BY <1>8, <1>11, <2>5, <2>7, <2>8, <2>9, Zenon
<1> QED
  BY <1>4, <1>6, <1>7, <1>10, <1>11, JobSteps DEF JobOver, JobDone, JobProved

\* A trace the guest accepts creates no balance, and it loses some only where saturating_add
\* stops at the end of u64.
THEOREM AcceptedTracesConserve == Spec => []AcceptedConserves
<1>1. Init => BalanceInv
  BY DEF Init, BalanceInv, Running, Writing
<1>2. TypeInv /\ GuestInv /\ BalanceInv => AcceptedConserves
  <2> SUFFICES ASSUME TypeInv, GuestInv, BalanceInv, NEW i \in DOMAIN traces, traces[i].accepted
               PROVE  LET t == traces[i].trace IN
                        Net(t) = 0 \/ (Net(t) < 0 /\ \E d \in Range(t.diffs) : d.new.balance = MaxBalance)
    BY Zenon DEF AcceptedConserves
  <2>1. traces[i].trace.diffs \in Seq(StateDiff)
    BY TracesType, Zenon DEF Trace
  <2>2. Net(traces[i].trace) \in Int
    BY <2>1, NetType, Zenon
  <2>3. \A x \in Range(traces[i].trace.executed) : ~IsSelf(x)
    BY Zenon DEF GuestInv, GuestAcceptsAllButSelf
  <2>4. Balanced(traces[i].trace, 0)
    BY Zenon DEF BalanceInv
  <2> QED
    BY <2>2, <2>3, <2>4 DEF Balanced
<1> QED
  BY <1>1, <1>2, BalanceInvStep, GuestInvariant, TypeInvariant, WriteInvariant, PTL DEF Spec
==============================================================================
