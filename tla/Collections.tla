---------------------------- MODULE Collections ----------------------------
(***************************************************************************)
(* Facts about sums over finite sets and about sequences built by a loop,  *)
(* which the proofs about balances, costs, gas and queues rest on.  They   *)
(* are proved by induction: over a finite set in the form "every non-empty *)
(* set of subsets has a least one", over a bound in the form of UpTo.      *)
(***************************************************************************)
EXTENDS Integers, Sequences, FiniteSetsExt, FiniteSetTheorems, TLAPS

\* The element a fold over a set takes first.
Pick(s) == CHOOSE x \in s : TRUE

\* g[s] is the sum of f over s, for every subset s of S.
IsIter(g, f, S) ==
  g = [s \in SUBSET S |-> IF s = {} THEN 0 ELSE f[Pick(s)] + g[s \ {Pick(s)}]]

\* The library's sum is such a g, if there is one.
LEMMA SumIsIter ==
  ASSUME NEW f, NEW S
  PROVE  SumFunctionOnSet(f, S) = (CHOOSE g : IsIter(g, f, S))[S]
BY DEF SumFunctionOnSet, FoldFunctionOnSet, MapThenFoldSet, IsIter, Pick

\* A non-empty set has an element to take.
LEMMA PickIn == ASSUME NEW s, s # {} PROVE Pick(s) \in s
BY DEF Pick

\* Induction over a finite set: a non-empty set of its subsets has a least one.
LEMMA LeastSubset ==
  ASSUME NEW S, IsFiniteSet(S), NEW T, T \subseteq SUBSET S, T # {}
  PROVE  \E s \in T : \A u \in T : u \subseteq s => u = s
<1>1. IsWellFoundedOn(StrictSubsetOrdering(S), FiniteSubsetsOf(S))
  BY FS_StrictSubsetOrderingWellFounded
<1>2. T \subseteq FiniteSubsetsOf(S)
  BY FS_FiniteSubsetsOfFinite
<1>3. PICK s \in T : \A u \in T : ~ (<<u, s>> \in StrictSubsetOrdering(S))
  BY <1>1, <1>2, WFMin
<1>4. ASSUME NEW u \in T, u \subseteq s, u # s
      PROVE  <<u, s>> \in StrictSubsetOrdering(S)
  BY <1>4 DEF StrictSubsetOrdering
<1>5. \A u \in T : u \subseteq s => u = s
  BY <1>3, <1>4
<1> QED
  BY <1>5

\* The equation of g at a subset.
LEMMA IterAt ==
  ASSUME NEW f, NEW S, NEW g, IsIter(g, f, S), NEW s, s \subseteq S
  PROVE  g[s] = IF s = {} THEN 0 ELSE f[Pick(s)] + g[s \ {Pick(s)}]
<1>1. s \in SUBSET S
  OBVIOUS
<1> QED
  BY <1>1, Zenon DEF IsIter

\* Two such functions agree where both are defined.
LEMMA IterUnique ==
  ASSUME NEW f, NEW A, NEW B, NEW g, NEW h, IsIter(g, f, A), IsIter(h, f, B),
         NEW S, S \subseteq A, S \subseteq B, IsFiniteSet(S)
  PROVE  g[S] = h[S]
<1> DEFINE T == {s \in SUBSET S : g[s] # h[s]}
<1>1. SUFFICES ASSUME T # {} PROVE FALSE
  OBVIOUS
<1>2. PICK s \in T : \A u \in T : u \subseteq s => u = s
  <2>1. T \subseteq SUBSET S
    OBVIOUS
  <2> HIDE DEF T
  <2> QED
    BY <1>1, <2>1, LeastSubset
<1>3. s \subseteq S /\ g[s] # h[s]
  OBVIOUS
<1>4. /\ g[s] = IF s = {} THEN 0 ELSE f[Pick(s)] + g[s \ {Pick(s)}]
      /\ h[s] = IF s = {} THEN 0 ELSE f[Pick(s)] + h[s \ {Pick(s)}]
  <2>1. s \subseteq A /\ s \subseteq B
    BY <1>3
  <2> QED
    BY <2>1, IterAt
<1>5. s # {} /\ g[s \ {Pick(s)}] # h[s \ {Pick(s)}]
  BY <1>3, <1>4
<1>6. s \ {Pick(s)} # s
  BY <1>5, PickIn
<1>7. s \ {Pick(s)} \in T
  BY <1>3, <1>5
<1>8. s \ {Pick(s)} \subseteq s
  OBVIOUS
<1> QED
  BY <1>2, <1>6, <1>7, <1>8

\* There is one for every finite set.
LEMMA IterExists ==
  ASSUME NEW f, NEW S, IsFiniteSet(S)
  PROVE  \E g : IsIter(g, f, S)
<1> DEFINE T == {s \in SUBSET S : ~ \E g : IsIter(g, f, s)}
<1>1. SUFFICES ASSUME T # {} PROVE FALSE
  OBVIOUS
<1>2. PICK s \in T : \A u \in T : u \subseteq s => u = s
  <2>1. T \subseteq SUBSET S
    OBVIOUS
  <2> HIDE DEF T
  <2> QED
    BY <1>1, <2>1, LeastSubset
<1>3. s \subseteq S /\ ~ \E g : IsIter(g, f, s)
  OBVIOUS
<1> DEFINE G(u) == CHOOSE g : IsIter(g, f, u)
<1>4. ASSUME NEW u, u \subseteq s, u # s PROVE IsIter(G(u), f, u)
  <2>1. u \notin T /\ u \in SUBSET S
    BY <1>2, <1>3, <1>4
  <2>2. \E g : IsIter(g, f, u)
    BY <2>1
  <2> QED
    BY <2>2, Zenon
<1> HIDE DEF G
<1> DEFINE g == [u \in SUBSET s |-> IF u = {} THEN 0
                                   ELSE f[Pick(u)] + G(u \ {Pick(u)})[u \ {Pick(u)}]]
<1>5. ASSUME NEW v, v \subseteq s, v # s PROVE g[v] = G(v)[v]
  <2>1. IsIter(G(v), f, v)
    BY <1>4, <1>5
  <2>2. G(v)[v] = IF v = {} THEN 0 ELSE f[Pick(v)] + G(v)[v \ {Pick(v)}]
    BY <2>1, IterAt
  <2>3. g[v] = IF v = {} THEN 0 ELSE f[Pick(v)] + G(v \ {Pick(v)})[v \ {Pick(v)}]
    BY <1>5
  <2>4. CASE v = {}
    BY <2>2, <2>3, <2>4
  <2>5. CASE v # {}
    <3> DEFINE w == v \ {Pick(v)}
    <3>1. w \subseteq v /\ w \subseteq s /\ w # s
      BY <1>5, <2>5, PickIn
    <3>2. IsIter(G(w), f, w)
      BY <3>1, <1>4
    <3>3. IsFiniteSet(w)
      BY <3>1, <1>3, FS_Subset
    <3>4. G(w)[w] = G(v)[w]
      <4> HIDE DEF w
      <4> QED
        BY <3>1, <3>2, <2>1, <3>3, IterUnique
    <3> QED
      BY <2>2, <2>3, <2>5, <3>4
  <2> QED
    BY <2>4, <2>5
<1>6. ASSUME NEW u, u \subseteq s, u # {}
      PROVE  G(u \ {Pick(u)})[u \ {Pick(u)}] = g[u \ {Pick(u)}]
  <2>1. u \ {Pick(u)} \subseteq s /\ u \ {Pick(u)} # s
    BY <1>6, PickIn
  <2> HIDE DEF g
  <2> QED
    BY <2>1, <1>5
<1>7. g = [u \in SUBSET s |-> IF u = {} THEN 0 ELSE f[Pick(u)] + g[u \ {Pick(u)}]]
  <2> DEFINE h == [u \in SUBSET s |-> IF u = {} THEN 0 ELSE f[Pick(u)] + g[u \ {Pick(u)}]]
  <2>1. \A u \in SUBSET s : g[u] = h[u]
    <3> SUFFICES ASSUME NEW u \in SUBSET s PROVE g[u] = h[u]
      OBVIOUS
    <3>1. g[u] = IF u = {} THEN 0 ELSE f[Pick(u)] + G(u \ {Pick(u)})[u \ {Pick(u)}]
      OBVIOUS
    <3> HIDE DEF g
    <3>2. h[u] = IF u = {} THEN 0 ELSE f[Pick(u)] + g[u \ {Pick(u)}]
      OBVIOUS
    <3> QED
      BY <3>1, <3>2, <1>6
  <2>2. DOMAIN g = SUBSET s /\ DOMAIN h = SUBSET s
    OBVIOUS
  <2>3. g = [u \in DOMAIN g |-> g[u]] /\ h = [u \in DOMAIN h |-> h[u]]
    OBVIOUS
  <2> HIDE DEF g, h
  <2>4. g = h
    BY <2>1, <2>2, <2>3
  <2> QED
    BY <2>4 DEF h
<1>8. IsIter(g, f, s)
  <2> HIDE DEF g
  <2> QED
    BY <1>7 DEF IsIter
<1> HIDE DEF g
<1> QED
  BY <1>3, <1>8

\* So the library's sum satisfies the equations.
LEMMA SumIter ==
  ASSUME NEW f, NEW S, IsFiniteSet(S)
  PROVE  \E g : IsIter(g, f, S) /\ SumFunctionOnSet(f, S) = g[S]
<1>1. IsIter(CHOOSE g : IsIter(g, f, S), f, S)
  BY IterExists, Zenon
<1> QED
  BY <1>1, SumIsIter

\* The sum over no elements.
LEMMA SumEmpty ==
  ASSUME NEW f
  PROVE  SumFunctionOnSet(f, {}) = 0
<1>1. PICK g : IsIter(g, f, {}) /\ SumFunctionOnSet(f, {}) = g[{}]
  BY SumIter, FS_EmptySet
<1> QED
  BY <1>1, IterAt

\* One step of the fold.
LEMMA SumPick ==
  ASSUME NEW f, NEW S, IsFiniteSet(S), S # {}
  PROVE  SumFunctionOnSet(f, S) = f[Pick(S)] + SumFunctionOnSet(f, S \ {Pick(S)})
<1>1. PICK g : IsIter(g, f, S) /\ SumFunctionOnSet(f, S) = g[S]
  BY SumIter
<1>2. g[S] = f[Pick(S)] + g[S \ {Pick(S)}]
  BY <1>1, IterAt
<1> DEFINE R == S \ {Pick(S)}
<1>3. IsFiniteSet(R) /\ R \subseteq S
  BY FS_Subset
<1> HIDE DEF R
<1>4. PICK h : IsIter(h, f, R) /\ SumFunctionOnSet(f, R) = h[R]
  BY <1>3, SumIter
<1>5. g[R] = h[R]
  BY <1>1, <1>3, <1>4, IterUnique
<1> QED
  BY <1>1, <1>2, <1>4, <1>5 DEF R

\* A set that holds 0 and takes up each term holds the sum.
LEMMA SumIn ==
  ASSUME NEW S, IsFiniteSet(S), NEW f, NEW D, 0 \in D, \A x \in S : \A d \in D : f[x] + d \in D
  PROVE  SumFunctionOnSet(f, S) \in D
<1> DEFINE T == {s \in SUBSET S : SumFunctionOnSet(f, s) \notin D}
<1>1. SUFFICES ASSUME T # {} PROVE FALSE
  OBVIOUS
<1>2. PICK s \in T : \A u \in T : u \subseteq s => u = s
  <2>1. T \subseteq SUBSET S
    OBVIOUS
  <2> HIDE DEF T
  <2> QED
    BY <1>1, <2>1, LeastSubset
<1>3. s \subseteq S /\ SumFunctionOnSet(f, s) \notin D /\ IsFiniteSet(s)
  BY FS_Subset
<1>4. s # {}
  BY <1>3, SumEmpty
<1>5. Pick(s) \in s
  BY <1>4, PickIn
<1>6. SumFunctionOnSet(f, s) = f[Pick(s)] + SumFunctionOnSet(f, s \ {Pick(s)})
  BY <1>3, <1>4, SumPick
<1>7. s \ {Pick(s)} \notin T /\ s \ {Pick(s)} \in SUBSET S
  BY <1>2, <1>3, <1>5
<1>8. SumFunctionOnSet(f, s \ {Pick(s)}) \in D
  BY <1>7
<1>9. Pick(s) \in S
  BY <1>3, <1>5
<1> QED
  BY <1>3, <1>6, <1>8, <1>9, Zenon

\* A sum of integers is an integer.
LEMMA SumInt ==
  ASSUME NEW S, IsFiniteSet(S), NEW f, \A x \in S : f[x] \in Int
  PROVE  SumFunctionOnSet(f, S) \in Int
<1>1. 0 \in Int /\ \A x \in S : \A d \in Int : f[x] + d \in Int
  OBVIOUS
<1> QED
  BY <1>1, SumIn

\* A sum of naturals is a natural.
LEMMA SumNat ==
  ASSUME NEW S, IsFiniteSet(S), NEW f, \A x \in S : f[x] \in Nat
  PROVE  SumFunctionOnSet(f, S) \in Nat
<1>1. 0 \in Nat /\ \A x \in S : \A d \in Nat : f[x] + d \in Nat
  OBVIOUS
<1> QED
  BY <1>1, SumIn

\* A sum of zeros is zero.
LEMMA SumZero ==
  ASSUME NEW S, IsFiniteSet(S), NEW f, \A x \in S : f[x] = 0
  PROVE  SumFunctionOnSet(f, S) = 0
<1>1. 0 \in {0} /\ \A x \in S : \A d \in {0} : f[x] + d \in {0}
  OBVIOUS
<1>2. SumFunctionOnSet(f, S) \in {0}
  BY <1>1, SumIn
<1> QED
  BY <1>2

\* Any element can be summed first: the order of the fold does not matter.
LEMMA SumRemove ==
  ASSUME NEW S, IsFiniteSet(S), NEW f, \A x \in S : f[x] \in Int, NEW x \in S
  PROVE  SumFunctionOnSet(f, S) = f[x] + SumFunctionOnSet(f, S \ {x})
<1> DEFINE Sum(s) == SumFunctionOnSet(f, s)
           T == {s \in SUBSET S : \E y \in s : Sum(s) # f[y] + Sum(s \ {y})}
<1>1. SUFFICES ASSUME T # {} PROVE FALSE
  OBVIOUS
<1>2. PICK s \in T : \A u \in T : u \subseteq s => u = s
  <2>1. T \subseteq SUBSET S
    OBVIOUS
  <2> HIDE DEF T
  <2> QED
    BY <1>1, <2>1, LeastSubset
<1>3. s \subseteq S /\ IsFiniteSet(s)
  BY FS_Subset
<1>4. PICK y \in s : Sum(s) # f[y] + Sum(s \ {y})
  OBVIOUS
<1> DEFINE p == Pick(s)
<1>5. p \in s
  BY <1>4, PickIn
<1>6. Sum(s) = f[p] + Sum(s \ {p})
  BY <1>3, <1>4, SumPick
<1>7. \A u : u \subseteq s => Sum(u) \in Int
  <2> SUFFICES ASSUME NEW u, u \subseteq s PROVE Sum(u) \in Int
    OBVIOUS
  <2>1. IsFiniteSet(u) /\ \A z \in u : f[z] \in Int
    BY <1>3, FS_Subset
  <2> QED
    BY <2>1, SumInt
<1> HIDE DEF Sum, p
<1>8. y # p
  BY <1>4, <1>6
<1>9. s \ {p} \notin T /\ s \ {y} \notin T
  BY <1>2, <1>4, <1>5
<1>10. Sum(s \ {p}) = f[y] + Sum((s \ {p}) \ {y})
  BY <1>9, <1>8, <1>4, <1>3
<1>11. Sum(s \ {y}) = f[p] + Sum((s \ {y}) \ {p})
  BY <1>9, <1>8, <1>5, <1>3
<1>12. (s \ {y}) \ {p} = (s \ {p}) \ {y} /\ (s \ {p}) \ {y} \subseteq s
  OBVIOUS
<1>13. f[p] \in Int /\ f[y] \in Int /\ Sum((s \ {p}) \ {y}) \in Int
  BY <1>3, <1>4, <1>5, <1>7, <1>12
<1>14. f[p] + (f[y] + Sum((s \ {p}) \ {y})) = f[y] + (f[p] + Sum((s \ {p}) \ {y}))
  BY <1>13
<1>15. Sum(s) = f[y] + Sum(s \ {y})
  BY <1>6, <1>10, <1>11, <1>12, <1>14, Zenon
<1> QED
  BY <1>4, <1>15

\* Functions that agree have one sum.
LEMMA SumSame ==
  ASSUME NEW S, IsFiniteSet(S), NEW f, NEW h, \A x \in S : f[x] = h[x]
  PROVE  SumFunctionOnSet(f, S) = SumFunctionOnSet(h, S)
<1> DEFINE T == {s \in SUBSET S : SumFunctionOnSet(f, s) # SumFunctionOnSet(h, s)}
<1>1. SUFFICES ASSUME T # {} PROVE FALSE
  OBVIOUS
<1>2. PICK s \in T : \A u \in T : u \subseteq s => u = s
  <2>1. T \subseteq SUBSET S
    OBVIOUS
  <2> HIDE DEF T
  <2> QED
    BY <1>1, <2>1, LeastSubset
<1>3. s \subseteq S /\ SumFunctionOnSet(f, s) # SumFunctionOnSet(h, s) /\ IsFiniteSet(s)
  BY FS_Subset
<1>4. s # {}
  BY <1>3, SumEmpty
<1>5. Pick(s) \in s
  BY <1>4, PickIn
<1>6. /\ SumFunctionOnSet(f, s) = f[Pick(s)] + SumFunctionOnSet(f, s \ {Pick(s)})
      /\ SumFunctionOnSet(h, s) = h[Pick(s)] + SumFunctionOnSet(h, s \ {Pick(s)})
  BY <1>3, <1>4, SumPick
<1>7. s \ {Pick(s)} \notin T /\ s \ {Pick(s)} \in SUBSET S
  BY <1>2, <1>3, <1>5
<1>8. SumFunctionOnSet(f, s \ {Pick(s)}) = SumFunctionOnSet(h, s \ {Pick(s)})
  BY <1>7
<1>9. f[Pick(s)] = h[Pick(s)]
  BY <1>3, <1>5
<1> QED
  BY <1>3, <1>6, <1>8, <1>9

\* Changing one term changes the sum by the difference.
LEMMA SumUpdate ==
  ASSUME NEW S, IsFiniteSet(S), NEW f, NEW h, NEW x \in S,
         \A y \in S : f[y] \in Int /\ h[y] \in Int,
         \A y \in S \ {x} : h[y] = f[y]
  PROVE  SumFunctionOnSet(h, S) = SumFunctionOnSet(f, S) - f[x] + h[x]
<1>1. /\ SumFunctionOnSet(f, S) = f[x] + SumFunctionOnSet(f, S \ {x})
      /\ SumFunctionOnSet(h, S) = h[x] + SumFunctionOnSet(h, S \ {x})
  BY SumRemove
<1>2. IsFiniteSet(S \ {x})
  BY FS_Subset
<1>3. SumFunctionOnSet(h, S \ {x}) = SumFunctionOnSet(f, S \ {x})
  BY <1>2, SumSame
<1>4. SumFunctionOnSet(f, S \ {x}) \in Int
  BY <1>2, SumInt
<1> QED
  BY <1>1, <1>3, <1>4

-----------------------------------------------------------------------------
(* Sequences. *)

\* Induction up to a bound, on a set.
LEMMA UpTo ==
  ASSUME NEW N \in Nat, NEW T, 0 \in T, \A n \in 0 .. N : n < N /\ n \in T => n + 1 \in T
  PROVE  \A n \in 0 .. N : n \in T
<1> DEFINE B == {n \in 0 .. N : n \notin T}
<1>1. SUFFICES ASSUME B # {} PROVE FALSE
  OBVIOUS
<1>2. IsWellFoundedOn(OpToRel(<, Nat), Nat)
  BY NatLessThanWellFounded
<1>3. B \subseteq Nat
  OBVIOUS
<1>4. PICK b \in B : \A c \in B : ~ (<<c, b>> \in OpToRel(<, Nat))
  <2> HIDE DEF B
  <2> QED
    BY <1>1, <1>2, <1>3, WFMin
<1>5. b \in 0 .. N /\ b \notin T /\ b # 0
  OBVIOUS
<1>6. b - 1 \in 0 .. N /\ b - 1 < N /\ b - 1 + 1 = b
  BY <1>5
<1>7. b - 1 \in B
  BY <1>5, <1>6
<1>8. <<b - 1, b>> \in OpToRel(<, Nat)
  BY <1>5 DEF OpToRel
<1> QED
  BY <1>4, <1>7, <1>8

\* A loop over s that appends the current element to the outcome or skips it.
Loop(F, s) ==
  /\ F[0] = << >>
  /\ \A n \in 1 .. Len(s) : F[n] = Append(F[n - 1], s[n]) \/ F[n] = F[n - 1]

\* What Append adds and keeps.
LEMMA Extended ==
  ASSUME NEW U, NEW s \in Seq(U), NEW e \in U
  PROVE  /\ Append(s, e) \in Seq(U) /\ Len(s) \in Nat /\ Len(Append(s, e)) = Len(s) + 1
         /\ Append(s, e)[Len(s) + 1] = e
         /\ \A i \in 1 .. Len(s) : Append(s, e)[i] = s[i]
         /\ \A i \in 1 .. Len(s) + 1 : i \in 1 .. Len(s) \/ i = Len(s) + 1
         /\ DOMAIN s = 1 .. Len(s) /\ DOMAIN Append(s, e) = 1 .. Len(s) + 1
         /\ Len(s) + 1 \in 1 .. Len(s) + 1 /\ 1 .. Len(s) \subseteq 1 .. Len(s) + 1
  OBVIOUS

\* The elements after Append.
LEMMA ExtendedSet ==
  ASSUME NEW U, NEW s \in Seq(U), NEW e \in U
  PROVE  /\ Range(Append(s, e)) = Range(s) \cup {e}
         /\ IsInjective(s) /\ e \notin Range(s) => IsInjective(Append(s, e))
<1> DEFINE r == Append(s, e)
<1>0. /\ r[Len(s) + 1] = e
      /\ \A i \in 1 .. Len(s) : r[i] = s[i]
      /\ \A i \in 1 .. Len(s) + 1 : i \in 1 .. Len(s) \/ i = Len(s) + 1
      /\ DOMAIN s = 1 .. Len(s) /\ DOMAIN r = 1 .. Len(s) + 1
      /\ Len(s) + 1 \in 1 .. Len(s) + 1 /\ 1 .. Len(s) \subseteq 1 .. Len(s) + 1
  BY Extended
<1> HIDE DEF r
<1>1. \A x \in Range(r) : x \in Range(s) \cup {e}
  BY <1>0, Zenon DEF Range
<1>2. \A x \in Range(s) \cup {e} : x \in Range(r)
  BY <1>0, Zenon DEF Range
<1>3. ASSUME IsInjective(s), e \notin Range(s) PROVE IsInjective(r)
  <2> SUFFICES ASSUME NEW i \in 1 .. Len(s) + 1, NEW j \in 1 .. Len(s) + 1,
                      r[i] = r[j]
               PROVE  i = j
    BY <1>0, Zenon DEF IsInjective
  <2>1. CASE i = Len(s) + 1 /\ j = Len(s) + 1
    BY <2>1, Zenon
  <2>2. CASE i = Len(s) + 1 /\ j \in 1 .. Len(s)
    BY <2>2, <1>3, <1>0, Zenon DEF Range
  <2>3. CASE j = Len(s) + 1 /\ i \in 1 .. Len(s)
    BY <2>3, <1>3, <1>0, Zenon DEF Range
  <2>4. CASE i \in 1 .. Len(s) /\ j \in 1 .. Len(s)
    BY <2>4, <1>3, <1>0, Zenon DEF IsInjective
  <2> QED
    BY <2>1, <2>2, <2>3, <2>4, <1>0, Zenon
<1> QED
  BY <1>1, <1>2, <1>3, Zenon DEF r

\* Every outcome is made of elements the loop has seen, each as often as it was seen.
LEMMA LoopOutcome ==
  ASSUME NEW U, NEW s \in Seq(U), NEW F, Loop(F, s), NEW n \in 0 .. Len(s)
  PROVE  /\ F[n] \in Seq(U) /\ Range(F[n]) \subseteq {s[i] : i \in 1 .. n}
         /\ IsInjective(s) => IsInjective(F[n])
<1> DEFINE T == {m \in 0 .. Len(s) : /\ F[m] \in Seq(U) /\ Range(F[m]) \subseteq {s[i] : i \in 1 .. m}
                                     /\ IsInjective(s) => IsInjective(F[m])}
<1>1. Len(s) \in Nat /\ DOMAIN s = 1 .. Len(s)
  OBVIOUS
<1>2. 0 \in T
  <2>1. F[0] = << >> /\ << >> \in Seq(U) /\ 0 \in 0 .. Len(s) /\ DOMAIN << >> = {}
    BY <1>1 DEF Loop
  <2>2. Range(<< >>) = {} /\ IsInjective(<< >>)
    BY <2>1, Zenon DEF Range, IsInjective
  <2> QED
    BY <2>1, <2>2, Zenon
<1>3. ASSUME NEW m \in 0 .. Len(s), m < Len(s), m \in T PROVE m + 1 \in T
  <2>1. m + 1 \in 1 .. Len(s) /\ m + 1 \in 0 .. Len(s) /\ (m + 1) - 1 = m
        /\ m + 1 \in 1 .. m + 1 /\ 1 .. m \subseteq 1 .. m + 1 /\ m + 1 \notin 1 .. m
        /\ 1 .. m \subseteq 1 .. Len(s)
    BY <1>1, <1>3
  <2>2. s[m + 1] \in U
    BY <2>1
  <2>3. /\ F[m] \in Seq(U) /\ Range(F[m]) \subseteq {s[i] : i \in 1 .. m}
        /\ IsInjective(s) => IsInjective(F[m])
    BY <1>3, Zenon
  <2>4. {s[i] : i \in 1 .. m} \cup {s[m + 1]} \subseteq {s[i] : i \in 1 .. m + 1}
    BY <2>1, Zenon
  <2>5. CASE F[m + 1] = F[m]
    BY <2>1, <2>3, <2>4, <2>5, Zenon
  <2>6. CASE F[m + 1] = Append(F[m], s[m + 1])
    <3>1. F[m + 1] \in Seq(U) /\ Range(F[m + 1]) = Range(F[m]) \cup {s[m + 1]}
      BY <2>2, <2>3, <2>6, Extended, ExtendedSet
    <3>2. ASSUME IsInjective(s) PROVE IsInjective(F[m + 1])
      <4>1. s[m + 1] \notin {s[i] : i \in 1 .. m}
        BY <1>1, <2>1, <3>2, Zenon DEF IsInjective
      <4> QED
        BY <4>1, <2>2, <2>3, <2>6, <3>2, ExtendedSet
    <3> QED
      BY <3>1, <3>2, <2>1, <2>3, <2>4, Zenon
  <2> QED
    BY <2>1, <2>5, <2>6, Zenon DEF Loop
<1>4. n \in T
  <2> HIDE DEF T
  <2> QED
    BY <1>1, <1>2, <1>3, UpTo, Zenon
<1> QED
  BY <1>4, Zenon

\* The loop that appends the elements which, with what it has, are in R.
LoopOf(F, s, R) ==
  /\ DOMAIN F = 0 .. Len(s) /\ F = [n \in 0 .. Len(s) |-> F[n]]
  /\ F[0] = << >>
  /\ \A n \in 1 .. Len(s) :
       F[n] = IF <<F[n - 1], s[n]>> \in R THEN Append(F[n - 1], s[n]) ELSE F[n - 1]

\* There is such a loop for every s and R.
LEMMA LoopExists == ASSUME NEW U, NEW s \in Seq(U), NEW R PROVE \E F : LoopOf(F, s, R)
<1> DEFINE Upto(F, m) ==
             /\ DOMAIN F = 0 .. m /\ F = [n \in 0 .. m |-> F[n]]
             /\ F[0] = << >>
             /\ \A n \in 1 .. m :
                  F[n] = IF <<F[n - 1], s[n]>> \in R THEN Append(F[n - 1], s[n]) ELSE F[n - 1]
           T == {m \in 0 .. Len(s) : \E F : Upto(F, m)}
<1>1. Len(s) \in Nat
  OBVIOUS
<1>2. 0 \in T
  <2> DEFINE G == [n \in 0 .. 0 |-> << >>]
  <2>1. DOMAIN G = 0 .. 0 /\ G = [n \in 0 .. 0 |-> G[n]] /\ G[0] = << >> /\ 1 .. 0 = {}
        /\ 0 \in 0 .. Len(s)
    BY <1>1
  <2> HIDE DEF G
  <2>2. Upto(G, 0)
    BY <2>1, Zenon
  <2> QED
    BY <2>1, <2>2, Zenon
<1>3. ASSUME NEW m \in 0 .. Len(s), m < Len(s), m \in T PROVE m + 1 \in T
  <2>1. PICK F : Upto(F, m)
    BY <1>3, Zenon
  <2>2. /\ m + 1 \in 0 .. Len(s) /\ \A n \in 0 .. m + 1 : n \in 0 .. m \/ n = m + 1
        /\ \A n \in 1 .. m + 1 : (n \in 1 .. m /\ n \in 0 .. m /\ n # m + 1) \/ n = m + 1
        /\ \A n \in 1 .. m + 1 : n - 1 \in 0 .. m /\ n - 1 # m + 1 /\ n - 1 \in 0 .. m + 1
                                   /\ n \in 0 .. m + 1
        /\ m + 1 - 1 = m /\ 0 # m + 1 /\ 0 \in 0 .. m + 1 /\ 0 \in 0 .. m
    BY <1>1, <1>3
  <2> DEFINE last == IF <<F[m], s[m + 1]>> \in R THEN Append(F[m], s[m + 1]) ELSE F[m]
             G == [n \in 0 .. m + 1 |-> IF n = m + 1 THEN last ELSE F[n]]
  <2>3. DOMAIN G = 0 .. m + 1 /\ \A n \in 0 .. m + 1 : G[n] = IF n = m + 1 THEN last ELSE F[n]
    BY Zenon
  <2>4. G = [n \in 0 .. m + 1 |-> G[n]]
    OBVIOUS
  <2> HIDE DEF G
  <2>5. G[0] = << >>
    BY <2>1, <2>2, <2>3, Zenon
  <2>6. ASSUME NEW n \in 1 .. m + 1
        PROVE  G[n] = IF <<G[n - 1], s[n]>> \in R THEN Append(G[n - 1], s[n]) ELSE G[n - 1]
    <3>1. G[n - 1] = F[n - 1]
      BY <2>2, <2>3, Zenon
    <3>2. CASE n = m + 1
      <4>1. n - 1 = m /\ n \in 0 .. m + 1
        BY <1>1, <3>2
      <4>2. G[n] = last
        BY <2>3, <3>2, <4>1, Zenon
      <4>3. G[n - 1] = F[m]
        BY <3>1, <4>1, Zenon
      <4> QED
        BY <3>2, <4>2, <4>3, Zenon
    <3>3. CASE n \in 1 .. m /\ n # m + 1
      <4>1. G[n] = F[n]
        BY <2>2, <2>3, <3>3, Zenon
      <4> QED
        BY <2>1, <3>1, <3>3, <4>1, Zenon
    <3> QED
      BY <2>2, <3>2, <3>3, Zenon
  <2>7. Upto(G, m + 1)
    BY <2>3, <2>4, <2>5, <2>6, Zenon
  <2> QED
    BY <2>2, <2>7, Zenon
<1>4. Len(s) \in T
  <2>1. Len(s) \in 0 .. Len(s)
    BY <1>1
  <2> HIDE DEF T
  <2> QED
    BY <1>1, <1>2, <1>3, <2>1, UpTo, Zenon
<1> QED
  BY <1>4, Zenon DEF LoopOf

\* The empty sequence.
LEMMA EmptyOutcome == Range(<< >>) = {} /\ IsInjective(<< >>) /\ \A S : << >> \in Seq(S)
<1>1. DOMAIN << >> = {} /\ \A S : << >> \in Seq(S)
  OBVIOUS
<1> QED
  BY <1>1, Zenon DEF Range, IsInjective

\* Taking the head off a sequence without repetition.
LEMMA TailOutcome ==
  ASSUME NEW U, NEW s \in Seq(U), s # << >>, IsInjective(s)
  PROVE  /\ Head(s) \in U /\ Tail(s) \in Seq(U) /\ IsInjective(Tail(s))
         /\ Head(s) \in Range(s) /\ Range(Tail(s)) = Range(s) \ {Head(s)}
<1> DEFINE h == Head(s)
           r == Tail(s)
           n == Len(s)
<1>1. /\ h \in U /\ r \in Seq(U) /\ n \in Nat /\ DOMAIN s = 1 .. n /\ DOMAIN r = 1 .. n - 1
      /\ h = s[1] /\ 1 \in 1 .. n
      /\ \A i \in 1 .. n - 1 : r[i] = s[i + 1]
  OBVIOUS
<1>2. /\ \A i \in 1 .. n - 1 : i + 1 \in 1 .. n /\ i + 1 # 1
      /\ \A i \in 1 .. n : i = 1 \/ (i - 1 \in 1 .. n - 1 /\ i - 1 + 1 = i)
      /\ \A i, j \in 1 .. n - 1 : i + 1 = j + 1 => i = j
  BY <1>1
<1> HIDE DEF h, r, n
<1>0. \A i, j \in 1 .. n : s[i] = s[j] => i = j
  BY <1>1, Zenon DEF IsInjective
<1>3. IsInjective(r)
  <2> SUFFICES ASSUME NEW i \in 1 .. n - 1, NEW j \in 1 .. n - 1, r[i] = r[j] PROVE i = j
    BY <1>1, Zenon DEF IsInjective
  <2>1. s[i + 1] = s[j + 1] /\ i + 1 \in 1 .. n /\ j + 1 \in 1 .. n
    BY <1>1, <1>2, Zenon
  <2>2. i + 1 = j + 1
    BY <1>0, <2>1, Zenon
  <2> QED
    BY <1>2, <2>2, Zenon
<1>4. ASSUME NEW x \in Range(r) PROVE x \in Range(s) /\ x # h
  <2>1. PICK i \in 1 .. n - 1 : x = r[i]
    BY <1>1, <1>4, Zenon DEF Range
  <2>2. x = s[i + 1] /\ i + 1 \in 1 .. n /\ i + 1 # 1
    BY <1>1, <1>2, <2>1, Zenon
  <2>3. x # h
    BY <1>0, <1>1, <2>2, Zenon
  <2> QED
    BY <1>1, <2>2, <2>3, Zenon DEF Range
<1>5. ASSUME NEW x \in Range(s), x # h PROVE x \in Range(r)
  <2>1. PICK i \in 1 .. n : x = s[i]
    BY <1>1, <1>5, Zenon DEF Range
  <2>2. i # 1
    BY <1>1, <1>5, <2>1, Zenon
  <2>3. i - 1 \in 1 .. n - 1 /\ r[i - 1] = s[i]
    BY <1>1, <1>2, <2>2, Zenon
  <2> QED
    BY <1>1, <2>1, <2>3, Zenon DEF Range
<1>6. h \in Range(s)
  BY <1>1, Zenon DEF Range
<1> QED
  BY <1>1, <1>3, <1>4, <1>5, <1>6, Zenon DEF h, r

\* Where the elements of a concatenation are.
LEMMA JoinedAt ==
  ASSUME NEW U, NEW a \in Seq(U), NEW b \in Seq(U), NEW m, m = Len(a), NEW n, n = Len(b)
  PROVE  /\ a \o b \in Seq(U) /\ m \in Nat /\ n \in Nat /\ DOMAIN a = 1 .. m /\ DOMAIN b = 1 .. n
         /\ DOMAIN (a \o b) = 1 .. m + n
         /\ \A i \in 1 .. m : (a \o b)[i] = a[i]
         /\ \A i \in 1 .. m + n : i \notin 1 .. m => i - m \in 1 .. n /\ (a \o b)[i] = b[i - m]
         /\ \A i \in 1 .. n : i + m \in 1 .. m + n /\ (a \o b)[i + m] = b[i]
         /\ 1 .. m \subseteq 1 .. m + n
<1>1. m \in Nat /\ n \in Nat /\ DOMAIN a = 1 .. m /\ DOMAIN b = 1 .. n
  OBVIOUS
<1>2. a \o b \in Seq(U)
  OBVIOUS
<1>3. Len(a \o b) = m + n
  OBVIOUS
<1>4. \A i \in 1 .. m + n : (a \o b)[i] = IF i <= m THEN a[i] ELSE b[i - m]
  BY <1>1
<1> DEFINE c == a \o b
<1>5. DOMAIN c = 1 .. m + n
  BY <1>2, <1>3
<1> HIDE DEF c
<1>6. /\ \A i \in 1 .. m : c[i] = a[i]
      /\ \A i \in 1 .. m + n : i \notin 1 .. m => i - m \in 1 .. n /\ c[i] = b[i - m]
      /\ \A i \in 1 .. n : i + m \in 1 .. m + n /\ c[i + m] = b[i]
      /\ 1 .. m \subseteq 1 .. m + n
  BY <1>1, <1>4 DEF c
<1> QED
  BY <1>1, <1>2, <1>5, <1>6 DEF c

\* The elements of a concatenation.
LEMMA Joined ==
  ASSUME NEW U, NEW a \in Seq(U), NEW b \in Seq(U)
  PROVE  /\ a \o b \in Seq(U) /\ Range(a \o b) = Range(a) \cup Range(b)
         /\ IsInjective(a) /\ IsInjective(b) /\ Range(a) \cap Range(b) = {} => IsInjective(a \o b)
<1> DEFINE c == a \o b
           m == Len(a)
           n == Len(b)
<1>1. /\ c \in Seq(U) /\ m \in Nat /\ n \in Nat /\ DOMAIN a = 1 .. m /\ DOMAIN b = 1 .. n
      /\ DOMAIN c = 1 .. m + n
      /\ \A i \in 1 .. m : c[i] = a[i]
      /\ \A i \in 1 .. m + n : i \notin 1 .. m => i - m \in 1 .. n /\ c[i] = b[i - m]
      /\ \A i \in 1 .. n : i + m \in 1 .. m + n /\ c[i + m] = b[i]
      /\ 1 .. m \subseteq 1 .. m + n
  BY JoinedAt
<1> HIDE DEF c, m, n
<1>2. \A y \in Range(c) : y \in Range(a) \cup Range(b)
  BY <1>1, Zenon DEF Range
<1>3. \A y \in Range(a) : y \in Range(c)
  BY <1>1, Zenon DEF Range
<1>4. ASSUME NEW y \in Range(b) PROVE y \in Range(c)
  <2>1. PICK i \in 1 .. n : y = b[i]
    BY <1>1, <1>4, Zenon DEF Range
  <2>2. i + m \in DOMAIN c /\ c[i + m] = y
    BY <1>1, <2>1, Zenon
  <2> QED
    BY <2>2, Zenon DEF Range
<1>5. ASSUME IsInjective(a), IsInjective(b), Range(a) \cap Range(b) = {} PROVE IsInjective(c)
  <2> SUFFICES ASSUME NEW i \in 1 .. m + n, NEW j \in 1 .. m + n, c[i] = c[j] PROVE i = j
    BY <1>1, Zenon DEF IsInjective
  <2>1. CASE i \in 1 .. m /\ j \in 1 .. m
    BY <1>1, <1>5, <2>1, Zenon DEF IsInjective
  <2>2. CASE i \notin 1 .. m /\ j \notin 1 .. m
    <3>1. i - m \in DOMAIN b /\ j - m \in DOMAIN b /\ b[i - m] = b[j - m]
      BY <1>1, <2>2, Zenon
    <3>2. i - m = j - m
      BY <1>5, <3>1, Zenon DEF IsInjective
    <3> QED
      BY <1>1, <3>2
  <2>3. CASE i \in 1 .. m /\ j \notin 1 .. m
    BY <1>1, <1>5, <2>3, Zenon DEF Range
  <2>4. CASE i \notin 1 .. m /\ j \in 1 .. m
    BY <1>1, <1>5, <2>4, Zenon DEF Range
  <2> QED
    BY <2>1, <2>2, <2>3, <2>4, Zenon
<1> QED
  BY <1>1, <1>2, <1>3, <1>4, <1>5, Zenon DEF c

\* A sequence has finitely many elements.
LEMMA FiniteElements ==
  ASSUME NEW U, NEW s \in Seq(U)
  PROVE  IsFiniteSet(Range(s)) /\ Range(s) \subseteq U
<1>1. DOMAIN s = 1 .. Len(s) /\ 1 \in Int /\ Len(s) \in Int /\ \A i \in DOMAIN s : s[i] \in U
  OBVIOUS
<1>2. IsFiniteSet(DOMAIN s)
  BY <1>1, FS_Interval, Zenon
<1> DEFINE g == [i \in DOMAIN s |-> s[i]]
<1>3. g \in Surjection(DOMAIN s, Range(s))
  BY Zenon DEF Surjection, Range
<1>4. IsFiniteSet(Range(s))
  <2> HIDE DEF g
  <2> QED
    BY <1>2, <1>3, FS_Surjection, Zenon
<1> QED
  BY <1>1, <1>4, Zenon DEF Range

\* A bijection from 1 .. n is an arrangement without loss or repetition.
LEMMA Arranged ==
  ASSUME NEW U, NEW S, S \subseteq U, IsFiniteSet(S), NEW o \in Bijection(1 .. Cardinality(S), S)
  PROVE  o \in Seq(U) /\ IsInjective(o) /\ Range(o) = S
<1> DEFINE D == 1 .. Cardinality(S)
<1>1. o \in [D -> S] /\ IsInjective(o) /\ \A x \in S : \E i \in D : o[i] = x
  BY Zenon DEF Bijection, Injection, Surjection
<1>2. Cardinality(S) \in Nat
  BY FS_CardinalityType, Zenon
<1>3. Range(o) = S
  BY <1>1, Zenon DEF Range
<1>4. o \in Seq(S)
  BY <1>1, <1>2
<1>5. o \in Seq(U)
  BY <1>4
<1> QED
  BY <1>1, <1>3, <1>5, Zenon

\* The larger of two.
LEMMA MaxOfTwo ==
  ASSUME NEW a \in Int, NEW b \in Int
  PROVE  Max({a, b}) = IF a >= b THEN a ELSE b
<1> DEFINE m == Max({a, b})
<1>1. \E x \in {a, b} : \A y \in {a, b} : x >= y
  <2>1. a >= b \/ b >= a
    OBVIOUS
  <2> QED
    BY <2>1
<1>2. m \in {a, b} /\ \A y \in {a, b} : m >= y
  BY <1>1, Zenon DEF Max
<1> HIDE DEF m
<1>3. m = IF a >= b THEN a ELSE b
  BY <1>2
<1> QED
  BY <1>3 DEF m

\* The smaller of two.
LEMMA MinOfTwo ==
  ASSUME NEW a \in Int, NEW b \in Int
  PROVE  Min({a, b}) = IF a <= b THEN a ELSE b
<1> DEFINE m == Min({a, b})
<1>1. \E x \in {a, b} : \A y \in {a, b} : x <= y
  <2>1. a <= b \/ b <= a
    OBVIOUS
  <2> QED
    BY <2>1
<1>2. m \in {a, b} /\ \A y \in {a, b} : m <= y
  BY <1>1, Zenon DEF Min
<1> HIDE DEF m
<1>3. m = IF a <= b THEN a ELSE b
  BY <1>2
<1> QED
  BY <1>3 DEF m
=============================================================================
