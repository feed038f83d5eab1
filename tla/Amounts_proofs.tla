---------------------------- MODULE Amounts_proofs ---------------------------
(***************************************************************************)
(* Facts about the arithmetic of wallet.service.ts, for every amount and   *)
(* every integer limit, and about sums of amounts, for every finite set.   *)
(***************************************************************************)
EXTENDS Amounts, FiniteSetsExt, FiniteSetTheorems, WellFoundedInduction, TLAPS

\* Math.round(n / 20) is the multiple of 20 nearest to n, halves upwards.
LEMMA FeeReserveRounds ==
    ASSUME NEW n \in Int
    PROVE  /\ FeeReserve(n) \in Int
           /\ 20 * FeeReserve(n) <= n + 10
           /\ n + 10 < 20 * FeeReserve(n) + 20
BY DEF FeeReserve

\* What a withdrawal takes is never less than what it pays out, and grows with it.
LEMMA TotalCovers ==
    ASSUME NEW n \in Int, n >= 0
    PROVE  /\ Total(n) \in Int
           /\ Total(n) >= n
           /\ 20 * Total(n) <= 21 * n + 10
BY FeeReserveRounds DEF Total

(***************************************************************************)
(* A zero-value invoice sweeps a wallet (wallet.service.ts:446-453): the   *)
(* amount left after reserving the fee of the whole balance, together with *)
(* the fee that is then reserved for that amount, never exceeds the        *)
(* balance, so the sweep of a wallet is never refused for its fee.         *)
(***************************************************************************)
THEOREM SweepIsCovered ==
    ASSUME NEW b \in Nat
    PROVE  Covers(b, Total(SweepAmount(b)))
<1> DEFINE s == SweepAmount(b)
<1>1. FeeReserve(b) \in Int /\ 20 * FeeReserve(b) <= b + 10 /\ b + 10 < 20 * FeeReserve(b) + 20
  BY FeeReserveRounds
<1>2. s \in Int /\ s = b - FeeReserve(b)
  BY <1>1 DEF SweepAmount
<1>3. FeeReserve(s) \in Int /\ 20 * FeeReserve(s) <= s + 10 /\ s + 10 < 20 * FeeReserve(s) + 20
  BY <1>2, FeeReserveRounds
<1>4. FeeReserve(b) >= 0
  BY <1>1
<1>5. FeeReserve(s) <= FeeReserve(b)
  <2> HIDE DEF s
  <2> QED BY <1>1, <1>2, <1>3, <1>4
<1> HIDE DEF s
<1>6. Total(s) = s + FeeReserve(s)
  BY DEF Total
<1>7. b >= Total(s)
  BY <1>1, <1>2, <1>3, <1>5, <1>6
<1> QED BY <1>7 DEF Covers, s

\* What the sweep leaves in the wallet, the fee reserve of the fee reserve, is at
\* most a 400th of it and one satoshi (wallet.service.ts:446-453).
THEOREM SweepLeavesLittle ==
    ASSUME NEW b \in Nat
    PROVE  400 * (b - Total(SweepAmount(b))) <= b + 400
<1> DEFINE s == SweepAmount(b)
<1>1. FeeReserve(b) \in Int /\ 20 * FeeReserve(b) <= b + 10 /\ b + 10 < 20 * FeeReserve(b) + 20
  BY FeeReserveRounds
<1>2. s \in Int /\ s = b - FeeReserve(b)
  BY <1>1 DEF SweepAmount
<1>3. FeeReserve(s) \in Int /\ 20 * FeeReserve(s) <= s + 10 /\ s + 10 < 20 * FeeReserve(s) + 20
  BY <1>2, FeeReserveRounds
<1>6. Total(s) = s + FeeReserve(s)
  BY DEF Total
<1> HIDE DEF s
<1>7. 400 * (b - Total(s)) <= b + 400
  BY <1>1, <1>2, <1>3, <1>6
<1> QED BY <1>7 DEF s

-----------------------------------------------------------------------------
(* Sums over finite sets: what adding a row to a ledger does to its total. *)
(* Each fact is proved by induction over the subsets of the set, with the  *)
(* sets for which it holds in the place of the induction hypothesis.       *)

\* A set of subsets of a finite set that contains every set whose members it
\* contains without one element contains them all.
LEMMA SubsetInduction ==
    ASSUME NEW A, IsFiniteSet(A), NEW Q,
           \A s \in SUBSET A : (\A x \in s : s \ {x} \in Q) => s \in Q
    PROVE  \A s \in SUBSET A : s \in Q
<1> DEFINE Bad == {s \in SUBSET A : s \notin Q}
<1>1. SUFFICES ASSUME Bad # {} PROVE FALSE
  OBVIOUS
<1>2. IsWellFoundedOn(StrictSubsetOrdering(A), SUBSET A)
  BY FS_StrictSubsetOrderingWellFounded, FS_FiniteSubsetsOfFinite
<1>3. PICK s \in Bad : \A t \in Bad : <<t, s>> \notin StrictSubsetOrdering(A)
  <2> HIDE DEF Bad
  <2>1. Bad \subseteq SUBSET A
    BY DEF Bad
  <2> QED BY <1>1, <1>2, <2>1, WFMin
<1>4. ASSUME NEW x \in s
      PROVE  s \ {x} \in Q
  <2>1. s \ {x} \subseteq s /\ s \ {x} # s /\ s \ {x} \in SUBSET A
    BY <1>3
  <2>2. <<s \ {x}, s>> \in StrictSubsetOrdering(A)
    BY <1>3, <2>1 DEF StrictSubsetOrdering
  <2> QED BY <1>3, <2>1, <2>2
<1> QED BY <1>3, <1>4

\* The recursion behind SumFunctionOnSet, and the element it takes out next.
Pick(s) == CHOOSE x \in s : TRUE
IsSum(g, f, S) ==
    g = [s \in SUBSET S |-> IF s = {} THEN 0 ELSE f[Pick(s)] + g[s \ {Pick(s)}]]

\* SumFunctionOnSet chooses a function that satisfies the recursion.
LEMMA SumIsRecursive ==
    ASSUME NEW f, NEW S
    PROVE  SumFunctionOnSet(f, S) = (CHOOSE g : IsSum(g, f, S))[S]
BY Zenon DEF SumFunctionOnSet, FoldFunctionOnSet, MapThenFoldSet, IsSum, Pick

\* A set that is not empty has something to pick.
LEMMA PickIn == ASSUME NEW s, s # {} PROVE Pick(s) \in s
BY DEF Pick

\* The recursion determines the function, and on a subset determines the same.
LEMMA SumUnique ==
    ASSUME NEW f, NEW S, IsFiniteSet(S), NEW T \in SUBSET S,
           NEW g, IsSum(g, f, S), NEW h, IsSum(h, f, T)
    PROVE  \A s \in SUBSET T : g[s] = h[s]
<1> DEFINE Q == {s \in SUBSET T : g[s] = h[s]}
<1>1. ASSUME NEW s \in SUBSET T, \A x \in s : s \ {x} \in Q
      PROVE  s \in Q
  <2>1. CASE s = {}
    BY <2>1 DEF IsSum
  <2>2. CASE s # {}
    <3>1. Pick(s) \in s
      BY <2>2, PickIn
    <3>2. g[s \ {Pick(s)}] = h[s \ {Pick(s)}]
      BY <1>1, <3>1
    <3>3. g[s] = f[Pick(s)] + g[s \ {Pick(s)}]
      BY <2>2, s \in SUBSET S DEF IsSum
    <3>4. h[s] = f[Pick(s)] + h[s \ {Pick(s)}]
      BY <2>2 DEF IsSum
    <3> QED BY <3>2, <3>3, <3>4
  <2> QED BY <2>1, <2>2
<1>2. IsFiniteSet(T)
  BY FS_Subset
<1>3. \A s \in SUBSET T : s \in Q
  <2> HIDE DEF Q
  <2> QED BY <1>1, <1>2, SubsetInduction
<1> QED BY <1>3

\* There is one: the values found for the smaller sets satisfy the recursion.
LEMMA SumExists ==
    ASSUME NEW f, NEW S, IsFiniteSet(S)
    PROVE  \A s \in SUBSET S : \E g : IsSum(g, f, s)
<1> DEFINE Q == {s \in SUBSET S : \E g : IsSum(g, f, s)}
           val(t) == (CHOOSE g : IsSum(g, f, t))[t]
<1>1. ASSUME NEW s \in SUBSET S, \A x \in s : s \ {x} \in Q
      PROVE  s \in Q
  <2> DEFINE G == [t \in SUBSET s |-> IF t = {} THEN 0 ELSE f[Pick(t)] + val(t \ {Pick(t)})]
  <2>1. ASSUME NEW t \in SUBSET s, t # s
        PROVE  G[t] = val(t)
    <3>1. PICK x \in s : x \notin t
      BY <2>1
    <3>2. PICK g : IsSum(g, f, s \ {x})
      BY <1>1
    <3>3. \A u \in SUBSET t : IsSum([v \in SUBSET u |-> g[v]], f, u)
      <4> TAKE u \in SUBSET t
      <4>1. \A v \in SUBSET u : v # {} => v \ {Pick(v)} \in SUBSET u
        OBVIOUS
      <4>2. \A v \in SUBSET u : v \in SUBSET (s \ {x})
        BY <3>1
      <4> QED BY <3>2, <4>1, <4>2 DEF IsSum
    <3>4. \A u \in SUBSET t : val(u) = g[u]
      <4> TAKE u \in SUBSET t
      <4> DEFINE h == CHOOSE g1 : IsSum(g1, f, u)
      <4>1. IsSum(h, f, u)
        <5>1. \E g1 : IsSum(g1, f, u)
          BY <3>3
        <5> HIDE DEF IsSum
        <5> QED BY <5>1, Zenon
      <4>2. IsFiniteSet(s \ {x}) /\ u \in SUBSET (s \ {x})
        BY FS_Subset, <3>1
      <4> HIDE DEF h
      <4>3. g[u] = h[u]
        BY <3>2, <4>1, <4>2, SumUnique
      <4> QED BY <4>3 DEF h
    <3>5. t \in SUBSET (s \ {x})
      BY <3>1
    <3>6. CASE t = {}
      BY <3>2, <3>4, <3>5, <3>6 DEF IsSum
    <3>7. CASE t # {}
      <4>1. G[t] = f[Pick(t)] + g[t \ {Pick(t)}]
        BY <3>4, <3>7
      <4>2. g[t] = f[Pick(t)] + g[t \ {Pick(t)}]
        BY <3>2, <3>5, <3>7 DEF IsSum
      <4> QED BY <3>4, <4>1, <4>2
    <3> QED BY <3>6, <3>7
  <2>2. IsSum(G, f, s)
    <3>1. \A t \in SUBSET s : t # {} => G[t \ {Pick(t)}] = val(t \ {Pick(t)})
      BY <2>1, PickIn
    <3> HIDE DEF val
    <3> QED BY <3>1 DEF IsSum
  <2> QED BY <2>2
<1> HIDE DEF Q
<1>2. \A s \in SUBSET S : s \in Q
  BY <1>1, SubsetInduction
<1> QED BY <1>2 DEF Q
\* The sum over nothing.
LEMMA SumEmpty ==
    ASSUME NEW f
    PROVE  SumFunctionOnSet(f, {}) = 0
<1>1. PICK g : IsSum(g, f, {})
  <2>1. IsFiniteSet({}) /\ {} \in SUBSET {}
    BY FS_EmptySet
  <2> QED BY <2>1, SumExists
<1>2. IsSum(CHOOSE k : IsSum(k, f, {}), f, {})
  <2> HIDE DEF IsSum
  <2> QED BY <1>1, Zenon
<1> QED BY <1>2, SumIsRecursive DEF IsSum

\* The recursion, for the sums themselves.
LEMMA SumPicked ==
    ASSUME NEW f, NEW S, IsFiniteSet(S), S # {}
    PROVE  SumFunctionOnSet(f, S)
             = f[Pick(S)] + SumFunctionOnSet(f, S \ {Pick(S)})
<1> DEFINE T == S \ {Pick(S)}
           g == CHOOSE k : IsSum(k, f, S)
           h == CHOOSE k : IsSum(k, f, T)
<1>1. IsSum(g, f, S) /\ IsSum(h, f, T)
  <2>1. (\E k : IsSum(k, f, S)) /\ (\E k : IsSum(k, f, T))
    BY SumExists
  <2> HIDE DEF IsSum
  <2> QED BY <2>1, Zenon
<1>2. SumFunctionOnSet(f, S) = g[S] /\ SumFunctionOnSet(f, T) = h[T]
  BY SumIsRecursive
<1> HIDE DEF g, h
<1>3. g[S] = f[Pick(S)] + g[T]
  BY <1>1 DEF IsSum
<1>4. g[T] = h[T]
  <2>1. T \in SUBSET S /\ T \in SUBSET T
    OBVIOUS
  <2> HIDE DEF T
  <2> QED BY <1>1, <2>1, SumUnique
<1> QED BY <1>2, <1>3, <1>4

\* A sum of integers is one.
LEMMA SumInt ==
    ASSUME NEW f, NEW S, IsFiniteSet(S), \A x \in S : f[x] \in Int
    PROVE  \A s \in SUBSET S : SumFunctionOnSet(f, s) \in Int
<1> DEFINE Q == {s \in SUBSET S : SumFunctionOnSet(f, s) \in Int}
<1>1. ASSUME NEW s \in SUBSET S, \A x \in s : s \ {x} \in Q
      PROVE  s \in Q
  <2>1. CASE s = {}
    BY <2>1, SumEmpty
  <2>2. CASE s # {}
    <3>1. Pick(s) \in s
      BY <2>2, PickIn
    <3>2. SumFunctionOnSet(f, s) = f[Pick(s)] + SumFunctionOnSet(f, s \ {Pick(s)})
      BY <2>2, SumPicked, FS_Subset
    <3>3. SumFunctionOnSet(f, s \ {Pick(s)}) \in Int /\ f[Pick(s)] \in Int
      BY <1>1, <3>1
    <3> QED BY <3>2, <3>3
  <2> QED BY <2>1, <2>2
<1> HIDE DEF Q
<1>2. \A s \in SUBSET S : s \in Q
  BY <1>1, SubsetInduction
<1> QED BY <1>2 DEF Q

\* Any element may be taken out first, whatever CHOOSE prefers.
LEMMA SumRemove ==
    ASSUME NEW f, NEW S, IsFiniteSet(S), \A x \in S : f[x] \in Int
    PROVE  \A s \in SUBSET S : \A a \in s :
             SumFunctionOnSet(f, s) = f[a] + SumFunctionOnSet(f, s \ {a})
<1> DEFINE Sum(s) == SumFunctionOnSet(f, s)
           Q == {s \in SUBSET S : \A a \in s : Sum(s) = f[a] + Sum(s \ {a})}
<1>1. \A s \in SUBSET S : Sum(s) \in Int /\ IsFiniteSet(s)
  BY SumInt, FS_Subset
<1>2. \A s \in SUBSET S : s # {} => Pick(s) \in s /\ Sum(s) = f[Pick(s)] + Sum(s \ {Pick(s)})
  BY <1>1, SumPicked, PickIn
<1> HIDE DEF Sum
<1>3. ASSUME NEW s \in SUBSET S, \A x \in s : s \ {x} \in Q
      PROVE  s \in Q
  <2> SUFFICES ASSUME NEW a \in s PROVE Sum(s) = f[a] + Sum(s \ {a})
    OBVIOUS
  <2> DEFINE b == Pick(s)
  <2>1. b \in s /\ Sum(s) = f[b] + Sum(s \ {b})
    BY <1>2
  <2> HIDE DEF b
  <2>2. CASE a = b
    BY <2>1, <2>2
  <2>3. CASE a # b
    <3>1. a \in s \ {b} /\ b \in s \ {a} /\ (s \ {b}) \ {a} = (s \ {a}) \ {b}
      BY <2>1, <2>3
    <3>2. Sum(s \ {b}) = f[a] + Sum((s \ {a}) \ {b})
      BY <1>3, <2>1, <3>1
    <3>3. Sum(s \ {a}) = f[b] + Sum((s \ {a}) \ {b})
      BY <1>3, <3>1
    <3>4. f[a] \in Int /\ f[b] \in Int /\ Sum((s \ {a}) \ {b}) \in Int
      BY <1>1, <2>1
    <3> QED BY <2>1, <3>2, <3>3, <3>4
  <2> QED BY <2>2, <2>3
<1> HIDE DEF Q
<1>4. \A s \in SUBSET S : s \in Q
  BY <1>3, SubsetInduction
<1> QED BY <1>4 DEF Q, Sum

\* A sum depends on the values of its members only.
LEMMA SumAgrees ==
    ASSUME NEW f, NEW g, NEW S, IsFiniteSet(S), \A x \in S : f[x] = g[x]
    PROVE  \A s \in SUBSET S : SumFunctionOnSet(f, s) = SumFunctionOnSet(g, s)
<1> DEFINE Q == {s \in SUBSET S : SumFunctionOnSet(f, s) = SumFunctionOnSet(g, s)}
<1>1. ASSUME NEW s \in SUBSET S, \A x \in s : s \ {x} \in Q
      PROVE  s \in Q
  <2>1. CASE s = {}
    BY <2>1, SumEmpty
  <2>2. CASE s # {}
    <3>1. Pick(s) \in s
      BY <2>2, PickIn
    <3>2. /\ SumFunctionOnSet(f, s) = f[Pick(s)] + SumFunctionOnSet(f, s \ {Pick(s)})
          /\ SumFunctionOnSet(g, s) = g[Pick(s)] + SumFunctionOnSet(g, s \ {Pick(s)})
      BY <2>2, SumPicked, FS_Subset
    <3> QED BY <1>1, <3>1, <3>2
  <2> QED BY <2>1, <2>2
<1> HIDE DEF Q
<1>2. \A s \in SUBSET S : s \in Q
  BY <1>1, SubsetInduction
<1> QED BY <1>2 DEF Q

\* One more element adds its value.
LEMMA SumAdd ==
    ASSUME NEW f, NEW S, IsFiniteSet(S), NEW a, a \notin S,
           \A x \in S \cup {a} : f[x] \in Int
    PROVE  SumFunctionOnSet(f, S \cup {a}) = f[a] + SumFunctionOnSet(f, S)
<1>1. IsFiniteSet(S \cup {a}) /\ (S \cup {a}) \ {a} = S
  BY FS_AddElement
<1>2. S \cup {a} \in SUBSET (S \cup {a}) /\ a \in S \cup {a}
  OBVIOUS
<1>3. SumFunctionOnSet(f, S \cup {a}) = f[a] + SumFunctionOnSet(f, (S \cup {a}) \ {a})
  BY <1>1, <1>2, SumRemove
<1> QED BY <1>1, <1>3
==============================================================================
