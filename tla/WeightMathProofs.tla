-------------------------- MODULE WeightMathProofs --------------------------
(***************************************************************************)
(* What WeightMath's operators compute, for every configuration and every  *)
(* finite map of weights: the weight of a new endpoint lies among those    *)
(* that exist, the median is the one of the ranks whatever order the sort  *)
(* leaves equal weights in, the adjustment centres the weights on the      *)
(* middle of the range and keeps their order, a busier pod gets less, and  *)
(* no weight leaves the range.                                             *)
(*                                                                         *)
(* The sum is a recursive function over the subsets of the addresses.  The *)
(* library's induction theorems take the property as an operator; here it  *)
(* is a set, so that the facts about sums follow from well-founded minima. *)
(* Products of two variables are beyond the solver when they come with     *)
(* anything else, so the facts about them that the bounds need stand alone.*)
(***************************************************************************)
EXTENDS WeightMath, FiniteSetTheorems, TLAPS


-----------------------------------------------------------------------------
(***************************************************************************)
(* Sums over finite sets.                                                  *)
(***************************************************************************)

\* Induction over the subsets of a finite set, with the property as a set: the
\* library's theorems take it as an operator.
LEMMA SubsetInduction ==
  ASSUME NEW S, IsFiniteSet(S), NEW T,
         \A s \in SUBSET S : (\A u \in SUBSET s : u # s => u \in T) => s \in T
  PROVE  SUBSET S \subseteq T
<1> SUFFICES ASSUME (SUBSET S) \ T # {}
             PROVE  FALSE
  OBVIOUS
<1> DEFINE R == StrictSubsetOrdering(S)
           rest == (SUBSET S) \ T
<1>1. FiniteSubsetsOf(S) = SUBSET S
  BY FS_FiniteSubsetsOfFinite
<1>2. IsWellFoundedOn(R, FiniteSubsetsOf(S))
  BY FS_StrictSubsetOrderingWellFounded
<1>3. rest \subseteq FiniteSubsetsOf(S) /\ rest # {}
  BY <1>1
<1> HIDE DEF R, rest
<1>4. PICK s \in rest : \A u \in rest : <<u, s>> \notin R
  BY <1>2, <1>3, WFMin
<1> USE DEF rest
<1>5. ASSUME NEW u \in SUBSET s, u # s
      PROVE  u \in T
  BY <1>4, <1>5 DEF R, StrictSubsetOrdering
<1> QED
  BY <1>4, <1>5

\* Induction over the natural numbers, in the same form.
LEMMA NatSetInduction ==
  ASSUME NEW T, 0 \in T, \A n \in Nat : n \in T => n + 1 \in T
  PROVE  Nat \subseteq T
<1> SUFFICES ASSUME Nat \ T # {}
             PROVE  FALSE
  OBVIOUS
<1>1. Nat \ T \subseteq Nat
  OBVIOUS
<1>2. PICK n \in Nat \ T : \A m \in Nat \ T : <<m, n>> \notin OpToRel(<, Nat)
  BY <1>1, NatLessThanWellFounded, WFMin, Zenon
<1>3. \A m \in Nat \ T : ~(m < n)
  BY <1>2 DEF OpToRel
<1>4. n # 0 /\ n - 1 \in Nat /\ n - 1 < n
  BY SMT
<1> QED
  BY <1>3, <1>4, SMT

-----------------------------------------------------------------------------
\* What SumFunctionOnSet unfolds to, for the table g of the sums of the subsets.
Chosen(s) == CHOOSE x \in s : TRUE

SumStep(fun, g, s) == IF s = {} THEN 0 ELSE fun[Chosen(s)] + g[s \ {Chosen(s)}]

IsSumTable(fun, S, g) == g = [s \in SUBSET S |-> SumStep(fun, g, s)]

LEMMA ChosenInSet ==
  ASSUME NEW s, s # {}
  PROVE  Chosen(s) \in s
BY Zenon DEF Chosen

\* Two tables agree where they overlap.
LEMMA SumTablesAgree ==
  ASSUME NEW fun, NEW S, NEW U, NEW g, NEW h, IsFiniteSet(U), U \subseteq S,
         IsSumTable(fun, S, g), IsSumTable(fun, U, h)
  PROVE  \A u \in SUBSET U : g[u] = h[u]
<1> DEFINE T == {u \in SUBSET U : g[u] = h[u]}
<1>1. ASSUME NEW s \in SUBSET U, \A u \in SUBSET s : u # s => u \in T
      PROVE  s \in T
  <2>1. g[s] = SumStep(fun, g, s) /\ h[s] = SumStep(fun, h, s)
    <3>1. s \in SUBSET S
      BY <1>1
    <3> QED
      BY <3>1, Zenon DEF IsSumTable
  <2>2. CASE s = {}
    BY <2>1, <2>2 DEF SumStep
  <2>3. CASE s # {}
    <3>1. s \ {Chosen(s)} \in T
      BY <1>1, <2>3, ChosenInSet
    <3> QED
      BY <2>1, <2>3, <3>1 DEF SumStep
  <2> QED
    BY <2>2, <2>3
<1> HIDE DEF T
<1>2. SUBSET U \subseteq T
  BY <1>1, SubsetInduction, Zenon
<1> QED
  BY <1>2 DEF T

\* Every finite set has a table.
LEMMA SumTableExists ==
  ASSUME NEW fun, NEW S, IsFiniteSet(S)
  PROVE  \E g : IsSumTable(fun, S, g)
<1> DEFINE T == {s \in SUBSET S : \E g : IsSumTable(fun, s, g)}
<1>1. ASSUME NEW s \in SUBSET S, \A u \in SUBSET s : u # s => u \in T
      PROVE  s \in T
  <2> DEFINE G(u) == CHOOSE g : IsSumTable(fun, u, g)
             K == [u \in SUBSET s |-> G(u)[u]]
             h == [u \in SUBSET s |-> IF u = s THEN SumStep(fun, K, s) ELSE G(u)[u]]
  <2>1. ASSUME NEW u \in SUBSET s, u # s
        PROVE  IsSumTable(fun, u, G(u))
    <3>1. \E g : IsSumTable(fun, u, g)
      BY <1>1, <2>1
    <3> QED
      BY <3>1, Zenon
  <2> HIDE DEF G
  <2>2. ASSUME NEW u \in SUBSET s
        PROVE  h[u] = SumStep(fun, h, u)
    <3>1. CASE u = {} /\ u = s
      BY <3>1 DEF SumStep
    <3>2. CASE u # {} /\ u = s
      <4>1. s \ {Chosen(s)} \in SUBSET s /\ s \ {Chosen(s)} # s
        BY <3>2, ChosenInSet
      <4>2. h[s \ {Chosen(s)}] = K[s \ {Chosen(s)}]
        BY <4>1
      <4>3. h[u] = SumStep(fun, K, u)
        BY <3>2
      <4> HIDE DEF h, K
      <4> QED
        BY <3>2, <4>2, <4>3 DEF SumStep
    <3>3. CASE u # s
      <4>1. h[u] = G(u)[u]
        BY <3>3
      <4>2. G(u)[u] = SumStep(fun, G(u), u)
        BY <2>1, <3>3, Zenon DEF IsSumTable
      <4>3. CASE u = {}
        BY <4>1, <4>2, <4>3 DEF SumStep
      <4>4. CASE u # {}
        <5> DEFINE v == u \ {Chosen(u)}
        <5>1. v \in SUBSET s /\ v # s /\ v \subseteq u
          BY <4>4, ChosenInSet
        <5>2. h[v] = G(v)[v]
          BY <5>1
        <5>3. IsFiniteSet(v)
          BY <5>1, FS_Subset
        <5>4. G(u)[v] = G(v)[v]
          <6>1. IsSumTable(fun, u, G(u)) /\ IsSumTable(fun, v, G(v))
            BY <2>1, <3>3, <5>1
          <6> HIDE DEF v
          <6>2. \A w \in SUBSET v : G(u)[w] = G(v)[w]
            BY <5>1, <5>3, <6>1, SumTablesAgree
          <6> QED
            BY <6>2
        <5> HIDE DEF h
        <5> QED
          BY <4>1, <4>2, <4>4, <5>2, <5>4 DEF SumStep
      <4> QED
        BY <4>3, <4>4
    <3> QED
      BY <3>1, <3>2, <3>3
  <2>3. IsSumTable(fun, s, h)
    <3>1. h = [u \in SUBSET s |-> h[u]]
      OBVIOUS
    <3> HIDE DEF h
    <3>2. h = [u \in SUBSET s |-> SumStep(fun, h, u)]
      BY <2>2, <3>1, Zenon
    <3> QED
      BY <3>2 DEF IsSumTable
  <2> QED
    BY <2>3
<1> HIDE DEF T
<1>2. SUBSET S \subseteq T
  BY <1>1, SubsetInduction, Zenon
<1>3. S \in T
  BY <1>2
<1> QED
  BY <1>3 DEF T

\* The sum is the entry of such a table.
LEMMA SumIsInTable ==
  ASSUME NEW fun, NEW S, IsFiniteSet(S)
  PROVE  \E g : IsSumTable(fun, S, g) /\ SumFunctionOnSet(fun, S) = g[S]
<1>1. SumFunctionOnSet(fun, S) = (CHOOSE g : IsSumTable(fun, S, g))[S]
  BY Zenon DEF SumFunctionOnSet, FoldFunctionOnSet, MapThenFoldSet, IsSumTable, SumStep, Chosen
<1>2. \E g : IsSumTable(fun, S, g)
  BY SumTableExists
<1> QED
  BY <1>1, <1>2, Zenon

\* The sum over no index.
LEMMA SumEmpty ==
  ASSUME NEW fun
  PROVE  SumFunctionOnSet(fun, {}) = 0
<1>1. PICK g : IsSumTable(fun, {}, g) /\ SumFunctionOnSet(fun, {}) = g[{}]
  BY FS_EmptySet, SumIsInTable
<1> QED
  BY <1>1, Zenon DEF IsSumTable, SumStep

\* The sum takes the index that CHOOSE picks first.
LEMMA SumChosen ==
  ASSUME NEW fun, NEW S, IsFiniteSet(S), S # {}
  PROVE  SumFunctionOnSet(fun, S) = fun[Chosen(S)] + SumFunctionOnSet(fun, S \ {Chosen(S)})
<1> DEFINE U == S \ {Chosen(S)}
<1>1. IsFiniteSet(U) /\ U \subseteq S
  BY FS_Subset
<1>2. PICK g : IsSumTable(fun, S, g) /\ SumFunctionOnSet(fun, S) = g[S]
  BY SumIsInTable
<1>3. PICK h : IsSumTable(fun, U, h) /\ SumFunctionOnSet(fun, U) = h[U]
  BY <1>1, SumIsInTable
<1>4. g[U] = h[U]
  <2> HIDE DEF U
  <2>1. \A u \in SUBSET U : g[u] = h[u]
    BY <1>1, <1>2, <1>3, SumTablesAgree
  <2> QED
    BY <2>1
<1>5. g[S] = SumStep(fun, g, S)
  <2>1. S \in SUBSET S
    OBVIOUS
  <2> QED
    BY <1>2, <2>1, Zenon DEF IsSumTable
<1> QED
  BY <1>2, <1>3, <1>4, <1>5 DEF SumStep

\* Natural numbers add up to a natural number.
LEMMA SumType ==
  ASSUME NEW fun, NEW S, IsFiniteSet(S), \A x \in S : fun[x] \in Nat
  PROVE  SumFunctionOnSet(fun, S) \in Nat
<1> DEFINE T == {s \in SUBSET S : SumFunctionOnSet(fun, s) \in Nat}
<1>1. ASSUME NEW s \in SUBSET S, \A u \in SUBSET s : u # s => u \in T
      PROVE  s \in T
  <2>1. CASE s = {}
    BY <2>1, SumEmpty
  <2>2. CASE s # {}
    <3>1. Chosen(s) \in s /\ s \ {Chosen(s)} \in T
      BY <1>1, <2>2, ChosenInSet
    <3>2. IsFiniteSet(s)
      BY FS_Subset
    <3>3. SumFunctionOnSet(fun, s) = fun[Chosen(s)] + SumFunctionOnSet(fun, s \ {Chosen(s)})
      BY <2>2, <3>2, SumChosen
    <3> QED
      BY <3>1, <3>3
  <2> QED
    BY <2>1, <2>2
<1> HIDE DEF T
<1>2. SUBSET S \subseteq T
  BY <1>1, SubsetInduction, Zenon
<1>3. S \in T
  BY <1>2
<1> QED
  BY <1>3 DEF T

\* The sum does not depend on the order CHOOSE takes the indices in.
LEMMA SumRemove ==
  ASSUME NEW fun, NEW S, IsFiniteSet(S), \A x \in S : fun[x] \in Nat, NEW a \in S
  PROVE  SumFunctionOnSet(fun, S) = fun[a] + SumFunctionOnSet(fun, S \ {a})
<1> DEFINE Sum(s) == SumFunctionOnSet(fun, s)
           T == {s \in SUBSET S : \A x \in s : Sum(s) = fun[x] + Sum(s \ {x})}
<1>0. \A s \in SUBSET S : IsFiniteSet(s) /\ Sum(s) \in Nat
  BY FS_Subset, SumType
<1>1. ASSUME NEW s \in SUBSET S, \A u \in SUBSET s : u # s => u \in T, NEW x \in s
      PROVE  Sum(s) = fun[x] + Sum(s \ {x})
  <2> DEFINE c == Chosen(s)
             r == s \ {c, x}
  <2>1. c \in s
    BY <1>1, ChosenInSet
  <2>2. Sum(s) = fun[c] + Sum(s \ {c})
    BY <1>0, <1>1, SumChosen
  <2>3. CASE c = x
    BY <2>2, <2>3
  <2>4. CASE c # x
    <3>1. s \ {c} \in T /\ s \ {x} \in T
      BY <1>1, <2>1
    <3>2. (s \ {c}) \ {x} = r /\ (s \ {x}) \ {c} = r
      OBVIOUS
    <3>3. Sum(s \ {c}) = fun[x] + Sum(r)
      <4>1. x \in s \ {c}
        BY <1>1, <2>4
      <4> HIDE DEF Sum, r
      <4> QED
        BY <3>1, <3>2, <4>1
    <3>4. Sum(s \ {x}) = fun[c] + Sum(r)
      <4>1. c \in s \ {x}
        BY <2>1, <2>4
      <4> HIDE DEF Sum, r
      <4> QED
        BY <3>1, <3>2, <4>1
    <3>5. fun[c] \in Nat /\ fun[x] \in Nat /\ Sum(r) \in Nat
      <4>1. r \in SUBSET S
        OBVIOUS
      <4> QED
        BY <1>0, <1>1, <2>1, <4>1
    <3> HIDE DEF Sum, r, c
    <3> QED
      BY <2>2, <3>3, <3>4, <3>5
  <2> QED
    BY <2>3, <2>4
<1>2. ASSUME NEW s \in SUBSET S, \A u \in SUBSET s : u # s => u \in T
      PROVE  s \in T
  BY <1>1, <1>2
<1> HIDE DEF T
<1>3. SUBSET S \subseteq T
  BY <1>2, SubsetInduction, Zenon
<1>4. S \in T
  BY <1>3
<1> QED
  BY <1>4 DEF T

\* The sum depends on the values at the indices only.
LEMMA SumAgrees ==
  ASSUME NEW f, NEW g, NEW S, IsFiniteSet(S), \A x \in S : f[x] = g[x]
  PROVE  SumFunctionOnSet(f, S) = SumFunctionOnSet(g, S)
<1> DEFINE T == {s \in SUBSET S : SumFunctionOnSet(f, s) = SumFunctionOnSet(g, s)}
<1>1. ASSUME NEW s \in SUBSET S, \A u \in SUBSET s : u # s => u \in T
      PROVE  s \in T
  <2>1. CASE s = {}
    BY <2>1, SumEmpty
  <2>2. CASE s # {}
    <3>1. Chosen(s) \in s /\ s \ {Chosen(s)} \in T
      BY <1>1, <2>2, ChosenInSet
    <3>2. IsFiniteSet(s)
      BY FS_Subset
    <3>3. /\ SumFunctionOnSet(f, s) = f[Chosen(s)] + SumFunctionOnSet(f, s \ {Chosen(s)})
          /\ SumFunctionOnSet(g, s) = g[Chosen(s)] + SumFunctionOnSet(g, s \ {Chosen(s)})
      BY <2>2, <3>2, SumChosen
    <3>4. f[Chosen(s)] = g[Chosen(s)]
      BY <3>1
    <3> QED
      BY <3>1, <3>3, <3>4
  <2> QED
    BY <2>1, <2>2
<1> HIDE DEF T
<1>2. SUBSET S \subseteq T
  BY <1>1, SubsetInduction, Zenon
<1>3. S \in T
  BY <1>2
<1> QED
  BY <1>3 DEF T

\* One more of x.
LEMMA ProductStep ==
  ASSUME NEW x \in Nat, NEW y \in Nat
  PROVE  x * (y + 1) = x * y + x /\ x * y \in Nat
BY SMT

\* Bounds of the summands bound the sum.
LEMMA SumBounds ==
  ASSUME NEW fun, NEW S, IsFiniteSet(S), NEW lo \in Nat, NEW hi \in Nat,
         \A x \in S : fun[x] \in lo..hi
  PROVE  /\ SumFunctionOnSet(fun, S) \in Nat
         /\ lo * Cardinality(S) <= SumFunctionOnSet(fun, S)
         /\ SumFunctionOnSet(fun, S) <= hi * Cardinality(S)
<1> DEFINE Sum(s) == SumFunctionOnSet(fun, s)
           T == {s \in SUBSET S : lo * Cardinality(s) <= Sum(s) /\ Sum(s) <= hi * Cardinality(s)}
<1>0. \A s \in SUBSET S : IsFiniteSet(s) /\ Cardinality(s) \in Nat /\ Sum(s) \in Nat
  BY FS_Subset, FS_CardinalityType, SumType
<1>1. ASSUME NEW s \in SUBSET S, \A u \in SUBSET s : u # s => u \in T
      PROVE  s \in T
  <2>1. CASE s = {}
    BY <2>1, SumEmpty, FS_EmptySet
  <2>2. CASE s # {}
    <3> DEFINE c == Chosen(s)
               r == s \ {c}
    <3>1. c \in s /\ r \in T /\ fun[c] \in lo..hi
      BY <1>1, <2>2, ChosenInSet
    <3>2. Sum(s) = fun[c] + Sum(r)
      BY <1>0, <2>2, SumChosen
    <3>3. Cardinality(s) = Cardinality(r) + 1 /\ Cardinality(r) \in Nat /\ Sum(r) \in Nat
      BY <1>0, <3>1, FS_RemoveElement
    <3>4. lo * Cardinality(r) <= Sum(r) /\ Sum(r) <= hi * Cardinality(r)
      BY <3>1
    <3> HIDE DEF Sum, r, c
    <3>5. /\ lo * (Cardinality(r) + 1) = lo * Cardinality(r) + lo
          /\ hi * (Cardinality(r) + 1) = hi * Cardinality(r) + hi
          /\ lo * Cardinality(r) \in Nat /\ hi * Cardinality(r) \in Nat
      BY <3>3, ProductStep
    <3>6. lo * Cardinality(s) <= Sum(s) /\ Sum(s) <= hi * Cardinality(s)
      BY <3>1, <3>2, <3>3, <3>4, <3>5
    <3> QED
      BY <3>6
  <2> QED
    BY <2>1, <2>2
<1> HIDE DEF T
<1>2. SUBSET S \subseteq T
  BY <1>1, SubsetInduction, Zenon
<1>3. S \in T
  BY <1>2
<1> QED
  BY <1>0, <1>3 DEF T

\* The sum over two disjoint sets.
LEMMA SumUnion ==
  ASSUME NEW fun, NEW A, NEW B, IsFiniteSet(A), IsFiniteSet(B), A \cap B = {},
         \A x \in A \cup B : fun[x] \in Nat
  PROVE  SumFunctionOnSet(fun, A \cup B) = SumFunctionOnSet(fun, A) + SumFunctionOnSet(fun, B)
<1> DEFINE Sum(s) == SumFunctionOnSet(fun, s)
           T == {s \in SUBSET B : Sum(A \cup s) = Sum(A) + Sum(s)}
<1>0. \A s \in SUBSET (A \cup B) : IsFiniteSet(s) /\ Sum(s) \in Nat
  BY FS_Union, FS_Subset, SumType
<1>1. ASSUME NEW s \in SUBSET B, \A u \in SUBSET s : u # s => u \in T
      PROVE  s \in T
  <2>1. CASE s = {}
    <3>1. A \cup s = A /\ Sum(s) = 0 /\ Sum(A) \in Nat
      BY <1>0, <2>1, SumEmpty
    <3>2. Sum(A \cup s) = Sum(A) + Sum(s)
      <4>1. Sum(A \cup s) = Sum(A)
        BY <3>1, Zenon
      <4> HIDE DEF Sum
      <4> QED
        BY <3>1, <4>1
    <3> QED
      BY <3>2
  <2>2. CASE s # {}
    <3> DEFINE c == Chosen(s)
               r == s \ {c}
    <3>1. c \in s /\ r \in T
      BY <1>1, <2>2, ChosenInSet
    <3>2. Sum(s) = fun[c] + Sum(r)
      BY <1>0, <2>2, SumChosen
    <3>3. Sum(A \cup s) = fun[c] + Sum(A \cup r)
      <4>1. (A \cup s) \ {c} = A \cup r /\ c \in A \cup s
        BY <3>1
      <4>2. IsFiniteSet(A \cup s) /\ \A x \in A \cup s : fun[x] \in Nat
        BY <1>0
      <4> QED
        BY <4>1, <4>2, SumRemove
    <3>4. Sum(A \cup r) = Sum(A) + Sum(r)
      BY <3>1
    <3>5. fun[c] \in Nat /\ Sum(r) \in Nat /\ Sum(A) \in Nat
      BY <1>0, <3>1
    <3> HIDE DEF Sum, r, c
    <3> QED
      BY <3>2, <3>3, <3>4, <3>5
  <2> QED
    BY <2>1, <2>2
<1> HIDE DEF T
<1>2. SUBSET B \subseteq T
  BY <1>1, SubsetInduction, Zenon
<1>3. B \in T
  BY <1>2
<1> QED
  BY <1>3 DEF T

-----------------------------------------------------------------------------
(***************************************************************************)
(* Sorted orders of a map of weights, and the average of their first places.*)
(***************************************************************************)

\* The weights a map of a controller may hold.
Counted(weights) == IsFiniteSet(DOMAIN weights) /\ \A a \in DOMAIN weights : weights[a] \in Nat

\* Some address has the greatest weight.
LEMMA GreatestWeightExists ==
  ASSUME NEW weights, NEW S, IsFiniteSet(S), S # {}, \A a \in S : weights[a] \in Nat
  PROVE  \E a \in S : \A b \in S : weights[b] <= weights[a]
<1> DEFINE T == {s \in SUBSET S : s = {} \/ \E a \in s : \A b \in s : weights[b] <= weights[a]}
<1>1. ASSUME NEW s \in SUBSET S, \A u \in SUBSET s : u # s => u \in T
      PROVE  s \in T
  <2>1. CASE s = {}
    BY <2>1
  <2>2. CASE s # {}
    <3>1. PICK c \in s : TRUE
      BY <2>2
    <3>2. s \ {c} \in T
      BY <1>1
    <3>3. CASE s \ {c} = {}
      <4>1. \A b \in s : weights[b] <= weights[c]
        <5>1. s = {c}
          BY <3>3
        <5>2. weights[c] \in Nat
          BY <3>1
        <5> QED
          BY <5>1, <5>2
      <4> QED
        BY <4>1
    <3>4. CASE s \ {c} # {}
      <4>1. PICK a \in s \ {c} : \A b \in s \ {c} : weights[b] <= weights[a]
        BY <3>2, <3>4
      <4>2. CASE weights[c] <= weights[a]
        <5>1. \A b \in s : weights[b] <= weights[a]
          BY <4>1, <4>2
        <5> QED
          BY <4>1, <5>1
      <4>3. CASE weights[a] <= weights[c]
        <5>1. \A b \in s : weights[b] <= weights[c]
          BY <4>1, <4>3
        <5> QED
          BY <5>1
      <4>4. weights[a] \in Nat /\ weights[c] \in Nat
        BY <4>1
      <4> QED
        BY <4>2, <4>3, <4>4
    <3> QED
      BY <3>3, <3>4
  <2> QED
    BY <2>1, <2>2
<1> HIDE DEF T
<1>2. SUBSET S \subseteq T
  BY <1>1, SubsetInduction, Zenon
<1>3. S \in T
  BY <1>2
<1> QED
  BY <1>3 DEF T

\* sort.Slice has an order to leave the entries in.
SortedOrdersOf(weights, s) ==
  {order \in [1..Cardinality(s) -> s] :
     /\ IsInjective(order)
     /\ \A i, j \in 1..Cardinality(s) : i < j => weights[order[i]] <= weights[order[j]]}

LEMMA SortedOrderExists ==
  ASSUME NEW weights, Counted(weights)
  PROVE  \E order : order \in SortedOrders(weights)
<1> DEFINE D == DOMAIN weights
           T == {s \in SUBSET D : SortedOrdersOf(weights, s) # {}}
<1>1. ASSUME NEW s \in SUBSET D, \A u \in SUBSET s : u # s => u \in T
      PROVE  s \in T
  <2>0. IsFiniteSet(s) /\ Cardinality(s) \in Nat /\ \A a \in s : weights[a] \in Nat
    BY FS_Subset, FS_CardinalityType DEF Counted
  <2>1. CASE s = {}
    <3> DEFINE empty == [i \in 1..0 |-> 0]
    <3>1. Cardinality(s) = 0
      BY <2>1, FS_EmptySet
    <3>2. 1..Cardinality(s) = {}
      BY <3>1
    <3>3. empty \in [1..Cardinality(s) -> s] /\ DOMAIN empty = {}
      BY <3>2
    <3>4. empty \in SortedOrdersOf(weights, s)
      BY <3>2, <3>3 DEF SortedOrdersOf, IsInjective
    <3> QED
      BY <3>4
  <2>2. CASE s # {}
    <3>1. PICK a \in s : \A b \in s : weights[b] <= weights[a]
      BY <2>0, <2>2, GreatestWeightExists
    <3> DEFINE u == s \ {a}
               m == Cardinality(u)
    <3>2. u \in T
      BY <1>1
    <3>3. PICK o \in [1..m -> u] :
             /\ IsInjective(o)
             /\ \A i, j \in 1..m : i < j => weights[o[i]] <= weights[o[j]]
      BY <3>2 DEF SortedOrdersOf
    <3>4. m \in Nat /\ Cardinality(s) = m + 1
      <4>1. IsFiniteSet(u) /\ m = Cardinality(s) - 1
        BY <2>0, FS_RemoveElement
      <4>2. m \in Nat
        BY <4>1, FS_CardinalityType
      <4> HIDE DEF m
      <4> QED
        BY <2>0, <4>1, <4>2
    <3> DEFINE order == [i \in 1..m + 1 |-> IF i = m + 1 THEN a ELSE o[i]]
    <3> HIDE DEF m
    <3>5. \A i \in 1..m + 1 : i # m + 1 => i \in 1..m
      BY <3>4
    <3>6. \A i \in 1..m + 1 : order[i] \in s
      BY <3>3, <3>5
    <3>7. order \in [1..m + 1 -> s]
      <4> HIDE DEF order
      <4>1. order = [i \in 1..m + 1 |-> order[i]]
        BY DEF order
      <4> QED
        BY <3>6, <4>1
    <3>8. IsInjective(order)
      <4>1. SUFFICES ASSUME NEW i \in 1..m + 1, NEW j \in 1..m + 1, order[i] = order[j]
                     PROVE  i = j
        BY DEF IsInjective
      <4>2. \A k \in 1..m : o[k] # a /\ order[k] = o[k]
        BY <3>3, <3>4
      <4>3. order[m + 1] = a
        BY <3>4
      <4>4. \A k, l \in 1..m : o[k] = o[l] => k = l
        BY <3>3 DEF IsInjective
      <4> HIDE DEF order
      <4> QED
        BY <3>5, <4>1, <4>2, <4>3, <4>4
    <3>9. ASSUME NEW i \in 1..m + 1, NEW j \in 1..m + 1, i < j
          PROVE  weights[order[i]] <= weights[order[j]]
      <4>1. CASE j = m + 1
        BY <3>1, <3>6, <3>9, <4>1
      <4>2. CASE j # m + 1
        <5>1. i \in 1..m /\ j \in 1..m
          BY <3>4, <3>9, <4>2
        <5>2. order[i] = o[i] /\ order[j] = o[j]
          BY <3>4, <5>1
        <5> QED
          BY <3>3, <3>9, <5>1, <5>2
      <4> QED
        BY <4>1, <4>2
    <3>10. order \in SortedOrdersOf(weights, s)
      <4> HIDE DEF order
      <4> QED
        BY <3>4, <3>7, <3>8, <3>9 DEF SortedOrdersOf
    <3> QED
      BY <3>10
  <2> QED
    BY <2>1, <2>2
<1> HIDE DEF T
<1>2. SUBSET D \subseteq T
  <2> HIDE DEF D
  <2>1. IsFiniteSet(D)
    BY DEF Counted, D
  <2> QED
    BY <1>1, <2>1, SubsetInduction, Zenon
<1>3. D \in T
  BY <1>2
<1>4. PICK order : order \in SortedOrdersOf(weights, D)
  BY <1>3 DEF T
<1>5. DOMAIN order = 1..Cardinality(D)
  BY <1>4 DEF SortedOrdersOf
<1> QED
  BY <1>4, <1>5 DEF SortedOrdersOf, SortedOrders

\* A sorted order lists every address once, in the order of their weights.
LEMMA SortedOrderListsAll ==
  ASSUME NEW weights, Counted(weights), NEW order \in SortedOrders(weights)
  PROVE  LET n == Cardinality(DOMAIN weights)
         IN  /\ n \in Nat
             /\ order \in [1..n -> DOMAIN weights]
             /\ \A i, j \in 1..n : order[i] = order[j] => i = j
             /\ \A i, j \in 1..n : i <= j => weights[order[i]] <= weights[order[j]]
             /\ \A a \in DOMAIN weights : \E i \in 1..n : order[i] = a
<1> DEFINE D == DOMAIN weights
           n == Cardinality(D)
<1>1. n \in Nat /\ IsFiniteSet(D)
  BY FS_CardinalityType DEF Counted
<1>2. /\ order \in [1..n -> D]
      /\ IsInjective(order)
      /\ \A i, j \in 1..n : i < j => weights[order[i]] <= weights[order[j]]
  BY DEF SortedOrders
<1>3. \A i, j \in 1..n : order[i] = order[j] => i = j
  BY <1>2 DEF IsInjective
<1>4. \A i \in 1..n : weights[order[i]] \in Nat
  BY <1>2 DEF Counted
<1>5. \A i, j \in 1..n : i <= j => weights[order[i]] <= weights[order[j]]
  <2> HIDE DEF n, D
  <2> SUFFICES ASSUME NEW i \in 1..n, NEW j \in 1..n, i <= j
               PROVE  weights[order[i]] <= weights[order[j]]
    OBVIOUS
  <2>1. CASE i = j
    BY <1>4, <2>1
  <2>2. CASE i < j
    BY <1>2, <2>2
  <2> QED
    BY <1>1, <2>1, <2>2
<1>6. order \in Surjection(1..n, D)
  <2>1. order \in Injection(1..n, D)
    BY <1>2 DEF Injection
  <2>2. Cardinality(1..n) = n
    BY <1>1, FS_Interval
  <2> HIDE DEF n
  <2> QED
    BY <1>1, <2>1, <2>2, FS_Injection DEF n
<1>7. \A a \in D : \E i \in 1..n : order[i] = a
  BY <1>6 DEF Surjection
<1> QED
  BY <1>1, <1>2, <1>3, <1>5, <1>7

\* The addresses of the first k places of an order.
FirstPlaces(order, k) == {order[i] : i \in 1..k}

\* The first k places hold k addresses.
LEMMA FirstPlacesCount ==
  ASSUME NEW weights, Counted(weights), NEW order \in SortedOrders(weights),
         NEW k \in 0..Cardinality(DOMAIN weights)
  PROVE  /\ FirstPlaces(order, k) \subseteq DOMAIN weights
         /\ IsFiniteSet(FirstPlaces(order, k))
         /\ Cardinality(FirstPlaces(order, k)) = k
<1> DEFINE n == Cardinality(DOMAIN weights)
           P == FirstPlaces(order, k)
           f == [i \in 1..k |-> order[i]]
<1>1. /\ n \in Nat
      /\ order \in [1..n -> DOMAIN weights]
      /\ \A i, j \in 1..n : order[i] = order[j] => i = j
  BY SortedOrderListsAll
<1>2. k \in Nat /\ 1..k \subseteq 1..n
  <2> HIDE DEF n
  <2>1. k \in 0..n
    BY DEF n
  <2> QED
    BY <1>1, <2>1
<1>3. P \subseteq DOMAIN weights
  BY <1>1, <1>2 DEF FirstPlaces
<1>4. IsFiniteSet(P)
  BY <1>3, FS_Subset DEF Counted
<1>5. f \in Bijection(1..k, P)
  BY <1>1, <1>2 DEF Bijection, Injection, Surjection, IsInjective, FirstPlaces
<1>6. Cardinality(P) = k
  <2>1. ExistsBijection(1..k, P)
    BY <1>5 DEF ExistsBijection
  <2> QED
    BY <1>2, <2>1, FS_CountingElements
<1> QED
  BY <1>3, <1>4, <1>6

\* The sum of a prefix of the sorted weights is the sum over its addresses.
LEMMA PrefixSum ==
  ASSUME NEW weights, Counted(weights), NEW order \in SortedOrders(weights),
         NEW k \in 0..Cardinality(DOMAIN weights)
  PROVE  SumFunctionOnSet([i \in 1..Cardinality(DOMAIN weights) |-> weights[order[i]]], 1..k)
           = SumFunctionOnSet(weights, FirstPlaces(order, k))
<1> DEFINE n == Cardinality(DOMAIN weights)
           f == [i \in 1..n |-> weights[order[i]]]
           T == {j \in Nat : j <= n => SumFunctionOnSet(f, 1..j) = SumFunctionOnSet(weights, FirstPlaces(order, j))}
<1>1. /\ n \in Nat
      /\ order \in [1..n -> DOMAIN weights]
      /\ \A i, j \in 1..n : order[i] = order[j] => i = j
  BY SortedOrderListsAll
<1>2. \A i \in 1..n : f[i] = weights[order[i]] /\ f[i] \in Nat
  BY <1>1 DEF Counted
<1>3. 0 \in T
  <2>1. 1..0 = {} /\ FirstPlaces(order, 0) = {}
    BY DEF FirstPlaces
  <2>2. SumFunctionOnSet(f, {}) = 0 /\ SumFunctionOnSet(weights, {}) = 0
    BY SumEmpty
  <2> QED
    BY <2>1, <2>2
<1>4. ASSUME NEW j \in Nat, j \in T
      PROVE  j + 1 \in T
  <2> HIDE DEF f, n
  <2> SUFFICES ASSUME j + 1 <= n
               PROVE  SumFunctionOnSet(f, 1..(j + 1)) = SumFunctionOnSet(weights, FirstPlaces(order, j + 1))
    BY DEF T
  <2>1. j + 1 \in 1..n /\ 1..j \subseteq 1..n /\ 1..(j + 1) \subseteq 1..n /\ j + 1 \in 0..n /\ j <= n
    BY <1>1
  <2>2. SumFunctionOnSet(f, 1..(j + 1)) = f[j + 1] + SumFunctionOnSet(f, 1..j)
    <3>1. IsFiniteSet(1..(j + 1)) /\ j + 1 \in 1..(j + 1)
      BY FS_Interval
    <3>2. (1..(j + 1)) \ {j + 1} = 1..j
      OBVIOUS
    <3>3. \A i \in 1..(j + 1) : f[i] \in Nat
      BY <1>2, <2>1
    <3>4. SumFunctionOnSet(f, 1..(j + 1)) = f[j + 1] + SumFunctionOnSet(f, (1..(j + 1)) \ {j + 1})
      BY <3>1, <3>3, SumRemove
    <3> QED
      BY <3>2, <3>4
  <2> DEFINE P == FirstPlaces(order, j + 1)
  <2>3. SumFunctionOnSet(weights, P) = weights[order[j + 1]] + SumFunctionOnSet(weights, FirstPlaces(order, j))
    <3>1. P \subseteq DOMAIN weights /\ IsFiniteSet(P)
      BY <2>1, FirstPlacesCount DEF n
    <3>2. \A a \in P : weights[a] \in Nat
      BY <3>1 DEF Counted
    <3>3. order[j + 1] \in P
      BY DEF FirstPlaces
    <3>4. P \ {order[j + 1]} = FirstPlaces(order, j)
      <4>1. 1..(j + 1) = (1..j) \cup {j + 1} /\ j + 1 \notin 1..j
        OBVIOUS
      <4>2. \A i \in 1..j : order[i] # order[j + 1]
        BY <1>1, <2>1, <4>1
      <4> QED
        BY <4>1, <4>2 DEF FirstPlaces
    <3> HIDE DEF P
    <3>5. SumFunctionOnSet(weights, P) = weights[order[j + 1]] + SumFunctionOnSet(weights, P \ {order[j + 1]})
      BY <3>1, <3>2, <3>3, SumRemove
    <3> QED
      BY <3>4, <3>5
  <2>4. SumFunctionOnSet(f, 1..j) = SumFunctionOnSet(weights, FirstPlaces(order, j))
    BY <1>4, <2>1 DEF T
  <2> QED
    BY <1>2, <2>1, <2>2, <2>3, <2>4
<1> HIDE DEF T
<1>5. Nat \subseteq T
  BY <1>3, <1>4, NatSetInduction
<1>6. k \in Nat /\ k <= n
  <2> HIDE DEF n
  <2>1. k \in 0..n
    BY DEF n
  <2> QED
    BY <1>1, <2>1
<1> QED
  BY <1>5, <1>6 DEF T

\* No other set of as many addresses has a smaller sum.
LEMMA PrefixSumLeast ==
  ASSUME NEW weights, Counted(weights), NEW order \in SortedOrders(weights),
         NEW Q \in SUBSET DOMAIN weights
  PROVE  SumFunctionOnSet(weights, FirstPlaces(order, Cardinality(Q))) <= SumFunctionOnSet(weights, Q)
<1> DEFINE D == DOMAIN weights
           n == Cardinality(D)
           k == Cardinality(Q)
           P == FirstPlaces(order, k)
           Sum(s) == SumFunctionOnSet(weights, s)
<1>1. IsFiniteSet(D) /\ IsFiniteSet(Q) /\ k \in 0..n
  <2>1. IsFiniteSet(D)
    BY DEF Counted
  <2>2. IsFiniteSet(Q) /\ k <= n
    BY <2>1, FS_Subset
  <2>3. k \in Nat /\ n \in Nat
    BY <2>1, <2>2, FS_CardinalityType
  <2> HIDE DEF D, n, k
  <2> QED
    BY <2>1, <2>2, <2>3
<1>2. P \subseteq D /\ IsFiniteSet(P) /\ Cardinality(P) = k
  BY <1>1, FirstPlacesCount
<1>3. \A s \in SUBSET D : IsFiniteSet(s) /\ (\A a \in s : weights[a] \in Nat) /\ Sum(s) \in Nat /\ Cardinality(s) \in Nat
  BY FS_Subset, SumType, FS_CardinalityType DEF Counted
<1>4. Sum(P) = Sum(P \cap Q) + Sum(P \ Q) /\ Sum(Q) = Sum(P \cap Q) + Sum(Q \ P)
  <2>1. P = (P \cap Q) \cup (P \ Q) /\ Q = (P \cap Q) \cup (Q \ P)
    OBVIOUS
  <2>2. /\ IsFiniteSet(P \cap Q) /\ IsFiniteSet(P \ Q) /\ IsFiniteSet(Q \ P)
        /\ \A a \in P \cup Q : weights[a] \in Nat
    BY <1>2, <1>3
  <2>3. SumFunctionOnSet(weights, (P \cap Q) \cup (P \ Q))
          = SumFunctionOnSet(weights, P \cap Q) + SumFunctionOnSet(weights, P \ Q)
    <3> HIDE DEF P
    <3>1. (P \cap Q) \cap (P \ Q) = {} /\ \A a \in (P \cap Q) \cup (P \ Q) : weights[a] \in Nat
      BY <2>2
    <3> QED
      BY <2>2, <3>1, SumUnion
  <2>4. SumFunctionOnSet(weights, (P \cap Q) \cup (Q \ P))
          = SumFunctionOnSet(weights, P \cap Q) + SumFunctionOnSet(weights, Q \ P)
    <3> HIDE DEF P
    <3>1. (P \cap Q) \cap (Q \ P) = {} /\ \A a \in (P \cap Q) \cup (Q \ P) : weights[a] \in Nat
      BY <2>2
    <3> QED
      BY <2>2, <3>1, SumUnion
  <2> HIDE DEF P
  <2> QED
    BY <2>1, <2>3, <2>4
<1>5. Cardinality(P \ Q) = Cardinality(Q \ P)
  <2>1. /\ Cardinality(P \ Q) = Cardinality(P) - Cardinality(P \cap Q)
        /\ Cardinality(Q \ P) = Cardinality(Q) - Cardinality(Q \cap P)
    BY <1>1, <1>2, FS_Difference
  <2>2. P \cap Q = Q \cap P
    OBVIOUS
  <2> HIDE DEF P, k
  <2> QED
    BY <1>2, <2>1, <2>2 DEF k
<1>6. CASE k = 0
  <2>1. P = {}
    BY <1>2, <1>6, FS_EmptySet
  <2>2. Sum(P) = 0
    BY <2>1, SumEmpty
  <2>3. Sum(Q) \in Nat
    BY <1>3
  <2> QED
    BY <2>2, <2>3
<1>7. CASE k # 0
  <2> DEFINE v == weights[order[k]]
  <2>1. /\ n \in Nat
        /\ order \in [1..n -> D]
        /\ \A i, j \in 1..n : i <= j => weights[order[i]] <= weights[order[j]]
        /\ \A a \in D : \E i \in 1..n : order[i] = a
    BY SortedOrderListsAll
  <2>2. k \in 1..n /\ v \in Nat
    <3>1. k \in 1..n
      <4> HIDE DEF n, k
      <4> QED
        BY <1>1, <1>7, <2>1
    <3>2. order[k] \in D
      BY <2>1, <3>1
    <3> QED
      BY <1>3, <3>1, <3>2 DEF Counted
  <2>3. \A a \in P \ Q : weights[a] \in 0..v
    <3>1. \A i \in 1..k : i \in 1..n /\ weights[order[i]] <= v
      <4> HIDE DEF n, k
      <4> QED
        BY <2>1, <2>2
    <3> HIDE DEF k, v
    <3>2. \A a \in P : weights[a] <= v
      BY <3>1 DEF FirstPlaces
    <3>3. \A a \in P : weights[a] \in Nat
      BY <1>2 DEF Counted
    <3> QED
      BY <2>2, <3>2, <3>3
  <2>4. \A a \in Q \ P : v <= weights[a] /\ weights[a] \in Nat
    <3> SUFFICES ASSUME NEW a \in Q \ P
                 PROVE  v <= weights[a] /\ weights[a] \in Nat
      OBVIOUS
    <3>1. PICK i \in 1..n : order[i] = a
      BY <2>1
    <3>2. i \notin 1..k
      <4> HIDE DEF k
      <4> QED
        BY <3>1 DEF FirstPlaces
    <3>3. k <= i
      <4> HIDE DEF k, n
      <4> QED
        BY <2>1, <2>2, <3>1, <3>2
    <3>4. weights[a] \in Nat
      BY DEF Counted
    <3> HIDE DEF k, n
    <3> QED
      BY <2>1, <2>2, <3>1, <3>3, <3>4
  <2>5. Sum(P \ Q) <= v * Cardinality(P \ Q)
    <3>1. IsFiniteSet(P \ Q)
      BY <1>2, <1>3
    <3> HIDE DEF P, v
    <3> QED
      BY <2>2, <2>3, <3>1, SumBounds
  <2>6. v * Cardinality(Q \ P) <= Sum(Q \ P)
    <3>1. IsFiniteSet(Q \ P)
      BY <1>3
    <3>2. CASE Q \ P = {}
      <4>1. Cardinality(Q \ P) = 0 /\ Sum(Q \ P) = 0
        BY <3>2, FS_EmptySet, SumEmpty
      <4> HIDE DEF v, P, Sum
      <4> QED
        BY <2>2, <4>1
    <3>3. CASE Q \ P # {}
      <4>1. PICK top \in Q \ P : \A b \in Q \ P : weights[b] <= weights[top]
        <5> HIDE DEF P
        <5> QED
          BY <2>4, <3>1, <3>3, GreatestWeightExists
      <4>2. weights[top] \in Nat /\ \A b \in Q \ P : weights[b] \in v..weights[top]
        <5> HIDE DEF v, P
        <5> QED
          BY <2>2, <2>4, <4>1
      <4> HIDE DEF v, P
      <4> QED
        BY <2>2, <3>1, <4>2, SumBounds
    <3> QED
      BY <3>2, <3>3
  <2>7. Sum(P \ Q) <= Sum(Q \ P)
    <3>1. v * Cardinality(P \ Q) = v * Cardinality(Q \ P)
      BY <1>5
    <3>2. Sum(P \ Q) \in Nat /\ Sum(Q \ P) \in Nat /\ Cardinality(Q \ P) \in Nat
      BY <1>2, <1>3
    <3>3. v * Cardinality(Q \ P) \in Nat
      <4> HIDE DEF v, P
      <4> QED
        BY <2>2, <3>2
    <3> HIDE DEF Sum, v, P
    <3> QED
      BY <2>5, <2>6, <3>1, <3>2, <3>3
  <2>8. Sum(P \cap Q) \in Nat /\ Sum(P \ Q) \in Nat /\ Sum(Q \ P) \in Nat
    BY <1>2, <1>3
  <2>9. Sum(P) <= Sum(Q)
    <3> HIDE DEF Sum, P
    <3> QED
      BY <1>4, <2>7, <2>8
  <2> QED
    BY <2>9
<1> QED
  BY <1>6, <1>7

\* A share of the weights is at least one and at most all of them.
LEMMA SharedWeightsRange ==
  ASSUME NEW size \in Nat, size > 0
  PROVE  SharedWeights(size) \in 1..size
<1>1. NewEndpointsPercentileWeight \in Nat /\ NewEndpointsPercentileWeight <= 100
  BY PercentAssumption
<1>2. size * NewEndpointsPercentileWeight \in Nat /\ size * NewEndpointsPercentileWeight <= size * 100
  BY <1>1, SMT
<1> DEFINE p == size * NewEndpointsPercentileWeight
<1> HIDE DEF p
<1>3. p \div 100 \in 0..size
  BY <1>2, SMT DEF p
<1> QED
  BY <1>3 DEF SharedWeights, p

\* Bounds of a sum bound its average.
LEMMA AverageBounds ==
  ASSUME NEW sum \in Nat, NEW n \in Nat, n > 0, NEW lo \in Nat, NEW hi \in Nat,
         lo * n <= sum, sum <= hi * n
  PROVE  sum \div n \in lo..hi
<1> DEFINE q == sum \div n
<1>1. q \in Nat /\ q * n <= sum /\ sum < (q + 1) * n
  BY SMT
<1> HIDE DEF q
<1>2. lo <= q
  <2> SUFFICES ASSUME q + 1 <= lo
               PROVE  FALSE
    BY <1>1
  <2>1. (q + 1) * n <= lo * n
    BY <1>1, SMT
  <2>2. (q + 1) * n \in Nat /\ lo * n \in Nat
    BY <1>1, SMT
  <2> QED
    BY <1>1, <2>1, <2>2
<1>3. q <= hi
  <2> SUFFICES ASSUME hi + 1 <= q
               PROVE  FALSE
    BY <1>1
  <2>1. (hi + 1) * n <= q * n
    BY <1>1, SMT
  <2>2. (hi + 1) * n = hi * n + n
    BY SMT
  <2>3. hi * n \in Nat /\ q * n \in Nat
    BY <1>1, SMT
  <2> QED
    BY <1>1, <2>1, <2>2, <2>3
<1> QED
  BY <1>1, <1>2, <1>3 DEF q

-----------------------------------------------------------------------------
(***************************************************************************)
(* The weight of a new endpoint.                                           *)
(***************************************************************************)

\* A new endpoint gets the average of the first places of a sorted order.
LEMMA NewcomerAverage ==
  ASSUME NEW weights, Counted(weights), DOMAIN weights # {}
  PROVE  LET n == SharedWeights(Cardinality(DOMAIN weights))
         IN  /\ Cardinality(DOMAIN weights) \in Nat
             /\ n \in 1..Cardinality(DOMAIN weights)
             /\ \E order \in SortedOrders(weights) :
                  CreateDefaultWeightForNewEndpoints(weights)
                    = SumFunctionOnSet(weights, FirstPlaces(order, n)) \div n
<1> DEFINE size == Cardinality(DOMAIN weights)
           n == SharedWeights(size)
           order == CHOOSE o \in SortedOrders(weights) : TRUE
<1>1. size \in Nat /\ size # 0
  BY FS_CardinalityType, FS_EmptySet DEF Counted
<1>2. n \in 1..size
  <2> HIDE DEF size
  <2>1. size > 0
    BY <1>1
  <2> QED
    BY <1>1, <2>1, SharedWeightsRange
<1>3. order \in SortedOrders(weights)
  BY SortedOrderExists, Zenon
<1>4. CreateDefaultWeightForNewEndpoints(weights)
        = SumFunctionOnSet([i \in 1..size |-> weights[order[i]]], 1..n) \div n
  BY <1>1 DEF CreateDefaultWeightForNewEndpoints
<1> HIDE DEF order, n
<1>5. n \in 0..size
  BY <1>1, <1>2
<1>6. SumFunctionOnSet([i \in 1..size |-> weights[order[i]]], 1..n)
        = SumFunctionOnSet(weights, FirstPlaces(order, n))
  BY <1>3, <1>5, PrefixSum
<1> QED
  BY <1>1, <1>2, <1>3, <1>4, <1>6 DEF n

\* A set of weights without gaps.
Convex(W) == W \subseteq Nat /\ \A x, y \in W : x..y \subseteq W

\* A new endpoint starts between the smallest and the greatest existing weight,
\* or in the middle when there is none (createDefaultWeightForNewEndpoints).
THEOREM NewcomerWithinExisting ==
  ASSUME NEW weights, IsFiniteSet(DOMAIN weights), NEW W, Convex(W), Middle \in W,
         \A a \in DOMAIN weights : weights[a] \in W
  PROVE  CreateDefaultWeightForNewEndpoints(weights) \in W
<1>1. Counted(weights)
  BY DEF Counted, Convex
<1>2. CASE DOMAIN weights = {}
  BY <1>2, FS_EmptySet DEF CreateDefaultWeightForNewEndpoints
<1>3. CASE DOMAIN weights # {}
  <2> DEFINE size == Cardinality(DOMAIN weights)
             n == SharedWeights(size)
  <2>1. PICK order \in SortedOrders(weights) :
          CreateDefaultWeightForNewEndpoints(weights) = SumFunctionOnSet(weights, FirstPlaces(order, n)) \div n
    BY <1>1, <1>3, NewcomerAverage
  <2>2. size \in Nat /\ n \in 1..size
    BY <1>1, <1>3, NewcomerAverage
  <2>3. /\ order \in [1..size -> DOMAIN weights]
        /\ \A i, j \in 1..size : i <= j => weights[order[i]] <= weights[order[j]]
    BY <1>1, SortedOrderListsAll
  <2> DEFINE P == FirstPlaces(order, n)
             lo == weights[order[1]]
             hi == weights[order[size]]
  <2>4. IsFiniteSet(P) /\ Cardinality(P) = n
    <3>1. n \in 0..size
      <4> HIDE DEF size, n
      <4> QED
        BY <2>2
    <3> QED
      BY <1>1, <3>1, FirstPlacesCount
  <2>5. 1 \in 1..size /\ size \in 1..size
    <3> HIDE DEF size, n
    <3> QED
      BY <2>2
  <2>6. lo \in W /\ hi \in W /\ lo \in Nat /\ hi \in Nat
    BY <2>3, <2>5 DEF Convex
  <2>7. \A a \in P : weights[a] \in lo..hi
    <3> SUFFICES ASSUME NEW i \in 1..n
                 PROVE  weights[order[i]] \in lo..hi
      BY DEF FirstPlaces
    <3>1. i \in 1..size /\ 1 <= i /\ i <= size
      <4> HIDE DEF size, n
      <4> QED
        BY <2>2
    <3>2. lo <= weights[order[i]] /\ weights[order[i]] <= hi
      BY <2>3, <2>5, <3>1
    <3>3. weights[order[i]] \in Nat
      BY <1>1, <2>3, <3>1 DEF Counted
    <3> HIDE DEF lo, hi
    <3> QED
      BY <2>6, <3>2, <3>3
  <2> HIDE DEF P, lo, hi
  <2>8. /\ SumFunctionOnSet(weights, P) \in Nat
        /\ lo * n <= SumFunctionOnSet(weights, P) /\ SumFunctionOnSet(weights, P) <= hi * n
    BY <2>4, <2>6, <2>7, SumBounds
  <2>9. n \in Nat /\ n > 0
    <3> HIDE DEF size, n
    <3> QED
      BY <2>2
  <2>10. SumFunctionOnSet(weights, P) \div n \in lo..hi
    <3> HIDE DEF n
    <3> QED
      BY <2>6, <2>8, <2>9, AverageBounds
  <2> QED
    BY <2>1, <2>6, <2>10 DEF Convex, P
<1> QED
  BY <1>2, <1>3

\* Division keeps the order.
LEMMA DivMonotone ==
  ASSUME NEW x \in Nat, NEW y \in Nat, NEW n \in Nat, n > 0, x <= y
  PROVE  x \div n <= y \div n
<1> DEFINE p == x \div n
           q == y \div n
<1>1. p \in Nat /\ p * n <= x
  BY SMT
<1>2. q \in Nat /\ y < (q + 1) * n
  BY SMT
<1> HIDE DEF p, q
<1> SUFFICES ASSUME q + 1 <= p
             PROVE  FALSE
  BY <1>1, <1>2 DEF p, q
<1>3. (q + 1) * n <= p * n
  BY <1>1, <1>2, SMT
<1>4. (q + 1) * n \in Nat /\ p * n \in Nat
  BY <1>1, <1>2, SMT
<1> QED
  BY <1>1, <1>2, <1>3, <1>4

\* No other addresses, as many of them, have a lower average.
LEMMA NewcomerLeastAverage ==
  ASSUME NEW weights, Counted(weights), DOMAIN weights # {},
         NEW Q \in SUBSET DOMAIN weights, Cardinality(Q) = SharedWeights(Cardinality(DOMAIN weights))
  PROVE  CreateDefaultWeightForNewEndpoints(weights) <= SumFunctionOnSet(weights, Q) \div Cardinality(Q)
<1> DEFINE size == Cardinality(DOMAIN weights)
           n == SharedWeights(size)
<1>1. PICK order \in SortedOrders(weights) :
        CreateDefaultWeightForNewEndpoints(weights) = SumFunctionOnSet(weights, FirstPlaces(order, n)) \div n
  BY NewcomerAverage
<1>2. size \in Nat /\ n \in 1..size
  BY NewcomerAverage
<1> DEFINE P == FirstPlaces(order, n)
<1>3. SumFunctionOnSet(weights, P) <= SumFunctionOnSet(weights, Q)
  BY PrefixSumLeast
<1>4. n \in Nat /\ n > 0 /\ n \in 0..size
  <2> HIDE DEF size, n
  <2> QED
    BY <1>2
<1>5. P \subseteq DOMAIN weights /\ IsFiniteSet(P) /\ IsFiniteSet(Q)
  BY <1>4, FirstPlacesCount, FS_Subset DEF Counted
<1>6. SumFunctionOnSet(weights, P) \in Nat /\ SumFunctionOnSet(weights, Q) \in Nat
  <2> HIDE DEF P
  <2>1. (\A a \in P : weights[a] \in Nat) /\ (\A a \in Q : weights[a] \in Nat)
    BY <1>5 DEF Counted
  <2> QED
    BY <1>5, <2>1, SumType
<1>7. SumFunctionOnSet(weights, P) \div n <= SumFunctionOnSet(weights, Q) \div n
  <2> HIDE DEF P, n
  <2> QED
    BY <1>3, <1>4, <1>6, DivMonotone
<1> QED
  BY <1>1, <1>7

\* Some addresses, as many of them, have that average.
LEMMA NewcomerIsAverage ==
  ASSUME NEW weights, Counted(weights), DOMAIN weights # {}
  PROVE  \E Q \in SUBSET DOMAIN weights :
           /\ Cardinality(Q) = SharedWeights(Cardinality(DOMAIN weights))
           /\ CreateDefaultWeightForNewEndpoints(weights) = SumFunctionOnSet(weights, Q) \div Cardinality(Q)
           /\ CreateDefaultWeightForNewEndpoints(weights) \in Nat
<1> DEFINE size == Cardinality(DOMAIN weights)
           n == SharedWeights(size)
<1>1. PICK order \in SortedOrders(weights) :
        CreateDefaultWeightForNewEndpoints(weights) = SumFunctionOnSet(weights, FirstPlaces(order, n)) \div n
  BY NewcomerAverage
<1>2. size \in Nat /\ n \in 1..size
  BY NewcomerAverage
<1> DEFINE P == FirstPlaces(order, n)
<1>3. n \in Nat /\ n > 0 /\ n \in 0..size
  <2> HIDE DEF size, n
  <2> QED
    BY <1>2
<1>4. P \subseteq DOMAIN weights /\ IsFiniteSet(P) /\ Cardinality(P) = n
  BY <1>3, FirstPlacesCount
<1>5. SumFunctionOnSet(weights, P) \in Nat
  <2> HIDE DEF P
  <2>1. \A a \in P : weights[a] \in Nat
    BY <1>4 DEF Counted
  <2> QED
    BY <1>4, <2>1, SumType
<1>6. SumFunctionOnSet(weights, P) \div n \in Nat
  <2> DEFINE s == SumFunctionOnSet(weights, P)
  <2> HIDE DEF s, n
  <2> QED
    BY <1>3, <1>5, SMT DEF s
<1> QED
  BY <1>1, <1>4, <1>6

-----------------------------------------------------------------------------
(***************************************************************************)
(* The range of the weights.                                               *)
(***************************************************************************)

\* What the weights between calculateNewWeight and adjustWeightsToMedian are.
Clamped(weights) == \A a \in DOMAIN weights : weights[a] \in MinimumWeight..MaximumWeight

\* Multiplication by a natural number keeps the order.
LEMMA ProductMonotone ==
  ASSUME NEW x \in Nat, NEW y \in Nat, NEW z \in Nat, x <= y
  PROVE  x * z <= y * z
BY SMT

\* What div truncates: the defining inequalities and the exact case.
LEMMA Truncated ==
  ASSUME NEW p \in Nat, NEW d \in Nat, d > 0
  PROVE  /\ p \div d \in Nat
         /\ (p \div d) * d <= p
         /\ p < (p \div d + 1) * d
         /\ p % d = 0 => (p \div d) * d = p
BY SMT

\* The middle of the range lies in the range.
LEMMA MiddleInRange == Middle \in MinimumWeight..MaximumWeight
BY WeightRangeAssumption, SMT DEF Middle

\* Clamp answers with a weight between the flags (calculateNewWeight).
LEMMA ClampBounds == \A n \in Int : Clamp(n) \in MinimumWeight..MaximumWeight
BY WeightRangeAssumption, SMT DEF Clamp

\* A truncated product is an integer, whatever the sign of the multiplier.
LEMMA TruncationsInt ==
  ASSUME NEW weight \in Nat, NEW num \in Int, NEW den \in Nat, den > 0
  PROVE  Truncations(weight, num, den) \subseteq Int
<1>1. weight * num \in Int
  BY SMT
<1>2. \A x \in Int : x \div den \in Int
  BY SMT
<1> QED
  BY <1>1, <1>2, SMT DEF Truncations

\* calculateNewWeight never leaves the range of the flags.
THEOREM NewWeightWithinFlags ==
  ASSUME NEW weight \in Nat, NEW m \in Multiplier
  PROVE  CalculateNewWeight(weight, m) \subseteq MinimumWeight..MaximumWeight
<1>1. m.num \in Int /\ m.den \in Nat /\ m.den > 0
  BY DEF Multiplier
<1>2. Truncations(weight, m.num, m.den) \subseteq Int
  BY <1>1, TruncationsInt
<1> QED
  BY <1>2, ClampBounds DEF CalculateNewWeight

\* The median of clamped weights is 0, without any, or a weight between the flags.
LEMMA MedianBounds ==
  ASSUME NEW weights, IsFiniteSet(DOMAIN weights), Clamped(weights),
         NEW median \in MedianWeights(weights)
  PROVE  median = 0 \/ median \in MinimumWeight..MaximumWeight
<1> DEFINE n == Cardinality(DOMAIN weights)
           mid == n \div 2
<1>1. n \in Nat
  BY FS_CardinalityType
<1>2. ASSUME NEW order \in SortedOrders(weights), NEW i \in 1..n
      PROVE  weights[order[i]] \in MinimumWeight..MaximumWeight
  BY <1>2 DEF SortedOrders, Clamped
<1>3. CASE n = 0
  BY <1>3 DEF MedianWeights
<1>4. CASE n # 0 /\ n % 2 = 0
  <2>1. mid \in 1..n /\ mid + 1 \in 1..n
    BY <1>1, <1>4, SMT
  <2>2. PICK order \in SortedOrders(weights) :
          median = (weights[order[mid]] + weights[order[mid + 1]]) \div 2
    BY <1>4 DEF MedianWeights
  <2>3. /\ weights[order[mid]] \in MinimumWeight..MaximumWeight
        /\ weights[order[mid + 1]] \in MinimumWeight..MaximumWeight
    BY <1>2, <2>1
  <2> QED
    BY <2>2, <2>3, WeightRangeAssumption, SMT
<1>5. CASE n # 0 /\ n % 2 # 0
  <2>1. mid + 1 \in 1..n
    BY <1>1, <1>5, SMT
  <2>2. PICK order \in SortedOrders(weights) : median = weights[order[mid + 1]]
    BY <1>5 DEF MedianWeights
  <2> QED
    BY <2>1, <2>2, <1>2
<1> QED
  BY <1>3, <1>4, <1>5

\* One weight rescaled by the middle over the median stays in the stretched range.
LEMMA ScaledBounds ==
  ASSUME NEW w \in MinimumWeight..MaximumWeight, NEW median \in MinimumWeight..MaximumWeight,
         NEW t \in Scaled(w, median)
  PROVE  t \in Nat /\ InAdjustedRange(t)
<1> DEFINE p == w * Middle
           q == p \div median
<1>1. /\ MinimumWeight \in Nat /\ MaximumWeight \in Nat /\ MinimumWeight > 0
      /\ w \in Nat /\ median \in Nat /\ median > 0 /\ Middle \in Nat
      /\ MinimumWeight <= w /\ w <= MaximumWeight
      /\ MinimumWeight <= median /\ median <= MaximumWeight
  BY WeightRangeAssumption, MiddleInRange, SMT
<1>2. p \in Nat
  BY <1>1, SMT
<1>3. /\ q \in Nat /\ q * median <= p /\ p < (q + 1) * median
      /\ p % median = 0 => q * median = p
  <2> HIDE DEF p
  <2> QED
    BY <1>1, <1>2, Truncated
<1>4. t = q \/ (t = q - 1 /\ p % median = 0 /\ p > 0)
  BY DEF Scaled, Truncations
<1> HIDE DEF q
<1>5. t \in Nat /\ t * median <= p /\ p <= (t + 1) * median
  <2>1. CASE t = q
    <3> HIDE DEF p
    <3>1. q * median \in Nat /\ (q + 1) * median \in Nat
      BY <1>1, <1>3, SMT
    <3> QED
      BY <1>2, <1>3, <2>1, <3>1, SMT
  <2>2. CASE t = q - 1 /\ p % median = 0 /\ p > 0
    <3> HIDE DEF p
    <3>1. q # 0
      BY <1>1, <1>2, <1>3, <2>2, SMT
    <3>2. t \in Nat /\ t + 1 = q
      BY <1>3, <2>2, <3>1, SMT
    <3>3. t * median <= q * median
      BY <1>1, <1>3, <3>2, ProductMonotone, SMT
    <3> QED
      BY <1>3, <2>2, <3>2, <3>3, SMT
  <2> QED
    BY <1>4, <2>1, <2>2
<1>6. p <= MaximumWeight * Middle /\ MinimumWeight * Middle <= p
  BY <1>1, ProductMonotone DEF p
<1> HIDE DEF p
<1>7. t * MinimumWeight <= t * median
  BY <1>1, <1>5, SMT
<1>8. (t + 1) * median <= (t + 1) * MaximumWeight
  BY <1>1, <1>5, SMT
<1>9. /\ t * MinimumWeight \in Nat /\ t * median \in Nat /\ (t + 1) * median \in Nat
      /\ (t + 1) * MaximumWeight \in Nat /\ MaximumWeight * Middle \in Nat /\ MinimumWeight * Middle \in Nat
  BY <1>1, <1>5, SMT
<1> QED
  BY <1>2, <1>5, <1>6, <1>7, <1>8, <1>9, SMT DEF InAdjustedRange

\* A clamped weight is in the stretched range as it is.
LEMMA ClampedIsInAdjustedRange ==
  ASSUME NEW w \in MinimumWeight..MaximumWeight
  PROVE  w \in Nat /\ InAdjustedRange(w)
<1>1. /\ MinimumWeight \in Nat /\ MaximumWeight \in Nat /\ w \in Nat /\ Middle \in Nat
      /\ MinimumWeight <= w /\ w <= MaximumWeight
      /\ MinimumWeight <= Middle /\ Middle <= MaximumWeight
  BY WeightRangeAssumption, MiddleInRange, SMT
<1>2. w * MinimumWeight <= MaximumWeight * MinimumWeight
  BY <1>1, ProductMonotone
<1>3. MaximumWeight * MinimumWeight <= MaximumWeight * Middle
  BY <1>1, SMT
<1>4. MinimumWeight * Middle <= (w + 1) * Middle
  BY <1>1, SMT
<1>5. (w + 1) * Middle <= (w + 1) * MaximumWeight
  BY <1>1, SMT
<1> QED
  BY <1>1, <1>2, <1>3, <1>4, <1>5, SMT DEF InAdjustedRange

\* Clamped weights adjusted to their median stay in the stretched range: the bound
\* on what an optimization may publish (calculateNewWeights).
THEOREM AdjustedWeightsBounded ==
  ASSUME NEW weights, IsFiniteSet(DOMAIN weights), Clamped(weights),
         NEW median \in MedianWeights(weights),
         NEW f \in AdjustWeightsToMedian(weights, median),
         NEW a \in DOMAIN weights
  PROVE  f[a] \in Nat /\ InAdjustedRange(f[a])
<1>1. weights[a] \in MinimumWeight..MaximumWeight
  BY DEF Clamped
<1>2. CASE median \in {0, Middle}
  BY <1>1, <1>2, ClampedIsInAdjustedRange DEF AdjustWeightsToMedian
<1>3. CASE median \notin {0, Middle}
  <2>1. median \in MinimumWeight..MaximumWeight
    BY <1>3, MedianBounds
  <2>2. f[a] \in Scaled(weights[a], median)
    BY <1>3 DEF AdjustWeightsToMedian
  <2> QED
    BY <1>1, <2>1, <2>2, ScaledBounds
<1> QED
  BY <1>2, <1>3

-----------------------------------------------------------------------------
(***************************************************************************)
(* The median, by rank.                                                    *)
(***************************************************************************)

\* One pod fewer than k weighs less than v, and k weigh at most v: v is the k-th
\* smallest weight.
HasRank(weights, v, k) ==
  /\ Cardinality({a \in DOMAIN weights : weights[a] < v}) < k
  /\ Cardinality({a \in DOMAIN weights : weights[a] <= v}) >= k

\* The weight in the k-th place of a sorted order is the k-th smallest.
LEMMA PlaceHasRank ==
  ASSUME NEW weights, Counted(weights), NEW order \in SortedOrders(weights),
         NEW k \in 1..Cardinality(DOMAIN weights)
  PROVE  /\ order[k] \in DOMAIN weights
         /\ weights[order[k]] \in Nat
         /\ HasRank(weights, weights[order[k]], k)
<1> DEFINE D == DOMAIN weights
           n == Cardinality(D)
           v == weights[order[k]]
           Below == {a \in D : weights[a] < v}
           UpTo == {a \in D : weights[a] <= v}
<1>1. /\ n \in Nat
      /\ order \in [1..n -> D]
      /\ \A i, j \in 1..n : i <= j => weights[order[i]] <= weights[order[j]]
      /\ \A a \in D : \E i \in 1..n : order[i] = a
  BY SortedOrderListsAll
<1>2. k \in Nat /\ k \in 0..n /\ k - 1 \in 0..n /\ k >= 1 /\ k <= n
  <2> HIDE DEF n
  <2>1. k \in 1..n
    BY DEF n
  <2> QED
    BY <1>1, <2>1
<1>3. order[k] \in D /\ v \in Nat
  BY <1>1 DEF Counted
<1>4. IsFiniteSet(Below) /\ IsFiniteSet(UpTo) /\ Cardinality(Below) \in Nat /\ Cardinality(UpTo) \in Nat
  <2>1. IsFiniteSet(Below) /\ IsFiniteSet(UpTo)
    BY FS_Subset DEF Counted
  <2> HIDE DEF Below, UpTo
  <2> QED
    BY <2>1, FS_CardinalityType
<1>5. Cardinality(Below) <= k - 1
  <2>1. Below \subseteq FirstPlaces(order, k - 1)
    <3> SUFFICES ASSUME NEW a \in D, weights[a] < v
                 PROVE  a \in FirstPlaces(order, k - 1)
      OBVIOUS
    <3>1. PICK i \in 1..n : order[i] = a
      BY <1>1
    <3>2. ~(k <= i)
      <4> SUFFICES ASSUME k <= i
                   PROVE  FALSE
        OBVIOUS
      <4>1. v <= weights[a]
        BY <1>1, <3>1
      <4>2. weights[a] \in Nat
        BY DEF Counted
      <4> HIDE DEF v
      <4> QED
        BY <1>3, <4>1, <4>2
    <3>3. i \in 1..(k - 1)
      <4> HIDE DEF n
      <4> QED
        BY <1>1, <1>2, <3>1, <3>2
    <3> QED
      BY <3>1, <3>3 DEF FirstPlaces
  <2>2. IsFiniteSet(FirstPlaces(order, k - 1)) /\ Cardinality(FirstPlaces(order, k - 1)) = k - 1
    BY <1>2, FirstPlacesCount
  <2> HIDE DEF Below
  <2> QED
    BY <2>1, <2>2, FS_Subset
<1>6. k <= Cardinality(UpTo)
  <2>1. FirstPlaces(order, k) \subseteq UpTo
    <3>1. \A i \in 1..k : i \in 1..n /\ i <= k
      <4> HIDE DEF n
      <4> QED
        BY <1>1, <1>2
    <3>2. \A i \in 1..k : order[i] \in D /\ weights[order[i]] <= v
      BY <1>1, <3>1
    <3> QED
      BY <3>2 DEF FirstPlaces
  <2>2. Cardinality(FirstPlaces(order, k)) = k
    BY <1>2, FirstPlacesCount
  <2> HIDE DEF UpTo
  <2> QED
    BY <1>4, <2>1, <2>2, FS_Subset
<1>7. HasRank(weights, v, k)
  <2>1. Cardinality(Below) < k
    <3> HIDE DEF Below
    <3> QED
      BY <1>2, <1>4, <1>5
  <2> QED
    BY <1>2, <1>4, <1>6, <2>1 DEF HasRank
<1> QED
  BY <1>3, <1>7

\* There is one k-th smallest weight.
LEMMA RankIsUnique ==
  ASSUME NEW weights, Counted(weights), NEW k \in Nat, NEW u \in Nat, NEW v \in Nat,
         HasRank(weights, u, k), HasRank(weights, v, k)
  PROVE  ~(u < v)
<1> SUFFICES ASSUME u < v
             PROVE  FALSE
  OBVIOUS
<1> DEFINE UpTo == {a \in DOMAIN weights : weights[a] <= u}
           Below == {a \in DOMAIN weights : weights[a] < v}
<1>1. UpTo \subseteq Below
  BY DEF Counted
<1>2. IsFiniteSet(Below)
  BY FS_Subset DEF Counted
<1>3. Cardinality(UpTo) <= Cardinality(Below) /\ Cardinality(Below) \in Nat /\ Cardinality(UpTo) \in Nat
  <2> HIDE DEF UpTo, Below
  <2>1. IsFiniteSet(UpTo)
    BY <1>1, <1>2, FS_Subset
  <2> QED
    BY <1>1, <1>2, <2>1, FS_Subset, FS_CardinalityType
<1>4. k <= Cardinality(UpTo) /\ Cardinality(Below) < k
  BY DEF HasRank
<1> HIDE DEF UpTo, Below
<1> QED
  BY <1>3, <1>4

\* The ranks the median is made of.
LowerMiddle(n) == (n + 1) \div 2
UpperMiddle(n) == n \div 2 + 1

LEMMA MiddleRanks ==
  ASSUME NEW n \in Nat, n # 0
  PROVE  /\ LowerMiddle(n) \in 1..n /\ UpperMiddle(n) \in 1..n
         /\ n % 2 = 0 => LowerMiddle(n) = n \div 2
         /\ n % 2 # 0 => LowerMiddle(n) = UpperMiddle(n)
BY SMT DEF LowerMiddle, UpperMiddle

\* Whatever order sort.Slice leaves equal weights in, the median is made of the
\* same two places.
LEMMA MedianByPlaces ==
  ASSUME NEW weights, Counted(weights), DOMAIN weights # {}
  PROVE  LET n == Cardinality(DOMAIN weights)
         IN  MedianWeights(weights)
               = {(weights[order[LowerMiddle(n)]] + weights[order[UpperMiddle(n)]]) \div 2 :
                    order \in SortedOrders(weights)}
<1> DEFINE n == Cardinality(DOMAIN weights)
<1>1. n \in Nat /\ n # 0
  BY FS_CardinalityType, FS_EmptySet DEF Counted
<1>2. CASE n % 2 = 0
  <2>1. LowerMiddle(n) = n \div 2 /\ UpperMiddle(n) = n \div 2 + 1
    BY <1>1, <1>2, MiddleRanks DEF UpperMiddle
  <2> QED
    BY <1>1, <1>2, <2>1 DEF MedianWeights
<1>3. CASE n % 2 # 0
  <2>1. LowerMiddle(n) = UpperMiddle(n) /\ UpperMiddle(n) = n \div 2 + 1 /\ UpperMiddle(n) \in 1..n
    BY <1>1, <1>3, MiddleRanks DEF UpperMiddle
  <2>2. ASSUME NEW order \in SortedOrders(weights)
        PROVE  (weights[order[LowerMiddle(n)]] + weights[order[UpperMiddle(n)]]) \div 2 = weights[order[n \div 2 + 1]]
    <3> DEFINE w == weights[order[n \div 2 + 1]]
    <3>1. w \in Nat
      BY <2>1, PlaceHasRank
    <3>2. weights[order[LowerMiddle(n)]] = w /\ weights[order[UpperMiddle(n)]] = w
      BY <2>1
    <3> HIDE DEF w
    <3>3. (w + w) \div 2 = w
      BY <3>1
    <3> QED
      BY <3>2, <3>3 DEF w
  <2> QED
    BY <1>1, <1>3, <2>2 DEF MedianWeights
<1> QED
  BY <1>2, <1>3

\* getMedianWeight answers with the median, whatever order it sorts equal weights in.
THEOREM MedianOfRanks ==
  ASSUME NEW weights, Counted(weights), DOMAIN weights # {}, NEW low \in Nat, NEW high \in Nat,
         HasRank(weights, low, LowerMiddle(Cardinality(DOMAIN weights))),
         HasRank(weights, high, UpperMiddle(Cardinality(DOMAIN weights)))
  PROVE  MedianWeights(weights) = {(low + high) \div 2}
<1> DEFINE n == Cardinality(DOMAIN weights)
<1>1. n \in Nat /\ n # 0
  BY FS_CardinalityType, FS_EmptySet DEF Counted
<1>2. LowerMiddle(n) \in 1..n /\ UpperMiddle(n) \in 1..n
  BY <1>1, MiddleRanks
<1>3. LowerMiddle(n) \in Nat /\ UpperMiddle(n) \in Nat
  <2> HIDE DEF n
  <2> QED
    BY <1>2
<1>4. ASSUME NEW order \in SortedOrders(weights)
      PROVE  weights[order[LowerMiddle(n)]] = low /\ weights[order[UpperMiddle(n)]] = high
  <2>1. /\ weights[order[LowerMiddle(n)]] \in Nat
        /\ HasRank(weights, weights[order[LowerMiddle(n)]], LowerMiddle(n))
    BY <1>2, PlaceHasRank
  <2>2. /\ weights[order[UpperMiddle(n)]] \in Nat
        /\ HasRank(weights, weights[order[UpperMiddle(n)]], UpperMiddle(n))
    BY <1>2, PlaceHasRank
  <2> DEFINE u == weights[order[LowerMiddle(n)]]
             v == weights[order[UpperMiddle(n)]]
  <2>3. ~(u < low) /\ ~(low < u)
    BY <1>3, <2>1, RankIsUnique
  <2>4. ~(v < high) /\ ~(high < v)
    BY <1>3, <2>2, RankIsUnique
  <2> HIDE DEF u, v
  <2>5. u = low /\ v = high
    BY <2>1, <2>2, <2>3, <2>4 DEF u, v
  <2> QED
    BY <2>5 DEF u, v
<1>5. \E order : order \in SortedOrders(weights)
  BY SortedOrderExists
<1>6. MedianWeights(weights)
        = {(weights[order[LowerMiddle(n)]] + weights[order[UpperMiddle(n)]]) \div 2 : order \in SortedOrders(weights)}
  BY MedianByPlaces
<1> HIDE DEF n
<1> QED
  BY <1>4, <1>5, <1>6

\* A rescaled weight is at most one below the exact ratio.
LEMMA ScaledTruncates ==
  ASSUME NEW w \in Nat, NEW median \in Nat, median > 0, NEW t \in Scaled(w, median)
  PROVE  t \in Nat /\ t * median <= w * Middle /\ w * Middle <= (t + 1) * median
<1> DEFINE p == w * Middle
           q == p \div median
<1>1. Middle \in Nat /\ p \in Nat
  <2>1. Middle \in Nat
    BY WeightRangeAssumption, MiddleInRange, SMT
  <2> QED
    BY <2>1, SMT
<1>2. /\ q \in Nat /\ q * median <= p /\ p < (q + 1) * median
      /\ p % median = 0 => q * median = p
  <2> HIDE DEF p
  <2> QED
    BY <1>1, Truncated
<1>3. t = q \/ (t = q - 1 /\ p % median = 0 /\ p > 0)
  BY DEF Scaled, Truncations
<1> HIDE DEF p, q
<1>4. CASE t = q
  <2>1. q * median \in Nat /\ (q + 1) * median \in Nat
    BY <1>2, SMT
  <2> QED
    BY <1>1, <1>2, <1>4, <2>1 DEF p
<1>5. CASE t = q - 1 /\ p % median = 0 /\ p > 0
  <2>1. q # 0
    BY <1>1, <1>2, <1>5, SMT
  <2>2. t \in Nat /\ t + 1 = q
    BY <1>2, <1>5, <2>1, SMT
  <2>3. t * median <= q * median
    BY <1>2, <2>2, ProductMonotone, SMT
  <2> QED
    BY <1>1, <1>2, <1>5, <2>2, <2>3 DEF p
<1> QED
  BY <1>3, <1>4, <1>5

\* The smaller of two weights is not the greater one after the rescaling.
LEMMA ScaledKeepsOrder ==
  ASSUME NEW u \in Nat, NEW w \in Nat, u < w, NEW median \in Nat, median > 0,
         NEW s \in Scaled(u, median), NEW t \in Scaled(w, median)
  PROVE  s <= t
<1>1. Middle \in Nat /\ Middle > 0
  BY WeightRangeAssumption, MiddleInRange, SMT
<1>2. s \in Nat /\ s * median <= u * Middle
  BY ScaledTruncates
<1>3. t \in Nat /\ w * Middle <= (t + 1) * median
  BY ScaledTruncates
<1>4. u * Middle < w * Middle
  BY <1>1, SMT
<1> DEFINE p == u * Middle
           q == w * Middle
<1>5. p \in Nat /\ q \in Nat
  BY <1>1, SMT
<1>6. s * median \in Nat /\ (t + 1) * median \in Nat
  BY <1>2, <1>3, SMT
<1>7. s * median < (t + 1) * median
  <2> HIDE DEF p, q
  <2>1. s * median <= p /\ q <= (t + 1) * median /\ p < q
    BY <1>2, <1>3, <1>4 DEF p, q
  <2> QED
    BY <1>5, <1>6, <2>1
<1> SUFFICES ASSUME t + 1 <= s
             PROVE  FALSE
  BY <1>2, <1>3
<1>8. (t + 1) * median <= s * median
  BY <1>2, <1>3, ProductMonotone
<1> QED
  BY <1>6, <1>7, <1>8

\* Every place of a sorted order is at least as far on as one of the first k places
\* of another order.
LEMMA LaterPlaceExists ==
  ASSUME NEW weights, Counted(weights), NEW order \in SortedOrders(weights),
         NEW S \in SUBSET DOMAIN weights, NEW k \in 1..Cardinality(DOMAIN weights), k <= Cardinality(S)
  PROVE  \E a \in S : weights[order[k]] <= weights[a]
<1> DEFINE n == Cardinality(DOMAIN weights)
           P == FirstPlaces(order, k - 1)
<1>1. /\ n \in Nat
      /\ \A i, j \in 1..n : i <= j => weights[order[i]] <= weights[order[j]]
      /\ \A a \in DOMAIN weights : \E i \in 1..n : order[i] = a
  BY SortedOrderListsAll
<1>2. k \in 1..n /\ k - 1 \in 0..n
  <2> HIDE DEF n
  <2>1. k \in 1..n
    BY DEF n
  <2> QED
    BY <1>1, <2>1
<1>3. IsFiniteSet(P) /\ Cardinality(P) = k - 1
  BY <1>2, FirstPlacesCount
<1>4. PICK a \in S : a \notin P
  <2> SUFFICES ASSUME S \subseteq P
               PROVE  FALSE
    OBVIOUS
  <2>1. IsFiniteSet(S) /\ Cardinality(S) <= k - 1
    <3> HIDE DEF P
    <3> QED
      BY <1>3, FS_Subset
  <2>2. Cardinality(S) \in Nat
    BY <2>1, FS_CardinalityType
  <2> HIDE DEF n, P
  <2> QED
    BY <1>2, <2>1, <2>2
<1>5. PICK i \in 1..n : order[i] = a
  BY <1>1
<1>6. k <= i
  <2> HIDE DEF n
  <2> QED
    BY <1>1, <1>2, <1>4, <1>5 DEF FirstPlaces
<1>7. weights[order[k]] <= weights[a]
  BY <1>1, <1>2, <1>5, <1>6
<1> QED
  BY <1>4, <1>7

\* The k-th smallest rescaled weight is the k-th smallest weight rescaled, or one
\* less, although truncation may make rescaled weights equal or part equal ones.
LEMMA ScaledPlace ==
  ASSUME NEW weights, Counted(weights), NEW median \in Nat, median > 0,
         NEW f, DOMAIN f = DOMAIN weights, \A a \in DOMAIN weights : f[a] \in Scaled(weights[a], median),
         NEW order \in SortedOrders(weights), NEW scaledOrder \in SortedOrders(f),
         NEW k \in 1..Cardinality(DOMAIN weights)
  PROVE  /\ f[scaledOrder[k]] \in Nat
         /\ f[scaledOrder[k]] * median <= weights[order[k]] * Middle
         /\ weights[order[k]] * Middle <= (f[scaledOrder[k]] + 1) * median
<1> DEFINE D == DOMAIN weights
           n == Cardinality(D)
           v == weights[order[k]]
           t == f[scaledOrder[k]]
<1>1. Middle \in Nat
  BY WeightRangeAssumption, MiddleInRange, SMT
<1>2. \A a \in D : /\ f[a] \in Nat
                   /\ f[a] * median <= weights[a] * Middle
                   /\ weights[a] * Middle <= (f[a] + 1) * median
  BY ScaledTruncates DEF Counted
<1>3. Counted(f)
  BY <1>2 DEF Counted
<1>4. /\ n \in Nat
      /\ order \in [1..n -> D]
      /\ \A i, j \in 1..n : i <= j => weights[order[i]] <= weights[order[j]]
  BY SortedOrderListsAll
<1>5. /\ scaledOrder \in [1..n -> D]
      /\ \A i, j \in 1..n : i <= j => f[scaledOrder[i]] <= f[scaledOrder[j]]
  BY <1>3, SortedOrderListsAll
<1>6. /\ k \in Nat /\ k \in 1..n /\ k \in 0..n /\ \A i \in 1..k : i \in 1..n /\ i <= k
  <2> HIDE DEF n
  <2>1. k \in 1..n
    BY DEF n
  <2> QED
    BY <1>4, <2>1
<1>7. v \in Nat /\ t \in Nat
  BY <1>2, <1>4, <1>5, <1>6 DEF Counted
<1>8. t * median <= v * Middle
  <2> DEFINE P == FirstPlaces(order, k)
  <2>1. P \subseteq D /\ Cardinality(P) = k
    BY <1>6, FirstPlacesCount
  <2>2. PICK a \in P : t <= f[a]
    <3> HIDE DEF P
    <3> QED
      BY <1>3, <1>6, <2>1, LaterPlaceExists
  <2>3. weights[a] <= v
    BY <1>4, <1>6, <2>2 DEF FirstPlaces
  <2>4. weights[a] \in Nat /\ f[a] \in Nat /\ f[a] * median <= weights[a] * Middle
    BY <1>2, <2>1, <2>2 DEF Counted
  <2> HIDE DEF v, t, P
  <2>5. t * median <= f[a] * median
    BY <1>7, <2>2, <2>4, ProductMonotone
  <2>6. weights[a] * Middle <= v * Middle
    BY <1>1, <1>7, <2>3, <2>4, ProductMonotone
  <2>7. t * median \in Nat /\ f[a] * median \in Nat /\ weights[a] * Middle \in Nat /\ v * Middle \in Nat
    BY <1>1, <1>7, <2>4, SMT
  <2> QED
    BY <2>4, <2>5, <2>6, <2>7
<1>9. v * Middle <= (t + 1) * median
  <2> DEFINE P == FirstPlaces(scaledOrder, k)
  <2>1. P \subseteq D /\ Cardinality(P) = k
    BY <1>3, <1>6, FirstPlacesCount
  <2>2. PICK a \in P : v <= weights[a]
    <3> HIDE DEF P
    <3> QED
      BY <1>6, <2>1, LaterPlaceExists
  <2>3. f[a] <= t
    BY <1>5, <1>6, <2>2 DEF FirstPlaces
  <2>4. weights[a] \in Nat /\ f[a] \in Nat /\ weights[a] * Middle <= (f[a] + 1) * median
    BY <1>2, <2>1, <2>2 DEF Counted
  <2> HIDE DEF v, t, P
  <2>5. (f[a] + 1) * median <= (t + 1) * median
    BY <1>7, <2>3, <2>4, ProductMonotone
  <2>6. v * Middle <= weights[a] * Middle
    BY <1>1, <1>7, <2>2, <2>4, ProductMonotone
  <2>7. /\ (t + 1) * median \in Nat /\ (f[a] + 1) * median \in Nat
        /\ weights[a] * Middle \in Nat /\ v * Middle \in Nat
    BY <1>1, <1>7, <2>4, SMT
  <2> QED
    BY <2>4, <2>5, <2>6, <2>7
<1> QED
  BY <1>7, <1>8, <1>9

-----------------------------------------------------------------------------
(***************************************************************************)
(* What the adjustment to the median does to the median and to the order.  *)
(***************************************************************************)

\* From the two middle places of the rescaled weights to their median.
LEMMA CentredPlaces ==
  ASSUME NEW low \in Nat, NEW high \in Nat, NEW s \in Nat, NEW t \in Nat, NEW mid \in Nat, NEW median \in Nat,
         median > 0, median = (low + high) \div 2,
         s * median <= low * mid, low * mid <= (s + 1) * median,
         t * median <= high * mid, high * mid <= (t + 1) * median
  PROVE  (s + t) \div 2 \in mid - 1 .. mid + mid \div (2 * median)
<1> DEFINE m == (s + t) \div 2
<1>1. m \in Nat /\ 2 * m <= s + t /\ s + t <= 2 * m + 1
  BY SMT
<1>2. 2 * median <= low + high /\ low + high <= 2 * median + 1
  BY SMT
<1>3. /\ (s + t) * median = s * median + t * median
      /\ (s + t + 2) * median = (s + 1) * median + (t + 1) * median
      /\ (low + high) * mid = low * mid + high * mid
  BY SMT
<1>4. /\ s * median \in Nat /\ t * median \in Nat /\ (s + 1) * median \in Nat /\ (t + 1) * median \in Nat
      /\ low * mid \in Nat /\ high * mid \in Nat
  BY SMT
<1> HIDE DEF m
<1>5. (s + t) * median <= (low + high) * mid /\ (low + high) * mid <= (s + t + 2) * median
  BY <1>3, <1>4
<1>6. mid - 1 <= m
  <2>1. (2 * median) * mid <= (low + high) * mid
    BY <1>2, ProductMonotone
  <2>2. (s + t + 2) * median <= (2 * m + 3) * median
    BY <1>1, ProductMonotone
  <2>3. (2 * median) * mid = (2 * mid) * median
    BY SMT
  <2>4. /\ (low + high) * mid \in Nat /\ (s + t + 2) * median \in Nat
        /\ (2 * m + 3) * median \in Nat /\ (2 * mid) * median \in Nat
    BY <1>1, SMT
  <2>5. (2 * mid) * median <= (2 * m + 3) * median
    BY <1>5, <2>1, <2>2, <2>3, <2>4
  <2>6. 2 * mid <= 2 * m + 3
    <3> SUFFICES ASSUME 2 * m + 4 <= 2 * mid
                 PROVE  FALSE
      BY <1>1
    <3>1. (2 * m + 4) * median <= (2 * mid) * median
      BY <1>1, ProductMonotone
    <3>2. (2 * m + 4) * median = (2 * m + 3) * median + median
      BY <1>1, SMT
    <3> QED
      BY <2>4, <2>5, <3>1, <3>2
  <2> QED
    BY <1>1, <2>6
<1>7. m <= mid + mid \div (2 * median)
  <2> DEFINE d == m - mid
             b == 2 * median
  <2>1. CASE m <= mid
    <3>1. mid \div b \in Nat
      BY SMT
    <3> HIDE DEF b
    <3> QED
      BY <1>1, <2>1, <3>1 DEF b
  <2>2. CASE mid < m
    <3>1. d \in Nat /\ m = mid + d
      BY <1>1, <2>2
    <3>2. (2 * m) * median <= (s + t) * median
      BY <1>1, ProductMonotone
    <3>3. (low + high) * mid <= (2 * median + 1) * mid
      BY <1>2, ProductMonotone
    <3>4. /\ (2 * m) * median = m * b
          /\ (2 * median + 1) * mid = mid * b + mid
      BY <1>1, SMT
    <3> HIDE DEF d
    <3>5. m * b = mid * b + d * b
      BY <3>1, SMT
    <3>6. /\ (2 * m) * median \in Nat /\ (s + t) * median \in Nat /\ (low + high) * mid \in Nat
          /\ (2 * median + 1) * mid \in Nat /\ mid * b \in Nat /\ d * b \in Nat
      BY <1>1, <3>1, SMT
    <3>7. d * b <= mid
      <4> HIDE DEF b
      <4> QED
        BY <1>5, <3>2, <3>3, <3>4, <3>5, <3>6
    <3>8. b \in Nat /\ b > 0
      BY SMT
    <3>9. d <= mid \div b
      <4> HIDE DEF b
      <4>1. mid <= (mid + d) * b
        BY <3>1, <3>8, SMT
      <4>2. mid \div b \in d..(mid + d)
        BY <3>1, <3>7, <3>8, <4>1, AverageBounds
      <4> QED
        BY <3>1, <4>2
    <3>10. mid \div b \in Nat
      <4> HIDE DEF b
      <4> QED
        BY <3>8, SMT
    <3> HIDE DEF b
    <3> QED
      BY <3>1, <3>9, <3>10 DEF b
  <2> QED
    BY <1>1, <2>1, <2>2
<1>8. mid \div (2 * median) \in Nat
  <2> DEFINE b == 2 * median
  <2>1. b \in Nat /\ b > 0
    BY SMT
  <2> HIDE DEF b
  <2> QED
    BY <2>1, SMT DEF b
<1> QED
  BY <1>1, <1>6, <1>7, <1>8 DEF m

\* adjustWeightsToMedian brings the median to the middle of the range.
THEOREM AdjustedMedianIsCentred ==
  ASSUME NEW weights, Counted(weights), DOMAIN weights # {},
         NEW median \in MedianWeights(weights), median # 0,
         NEW f \in AdjustWeightsToMedian(weights, median),
         NEW m \in MedianWeights(f)
  PROVE  m \in Middle - 1 .. Middle + Middle \div (2 * median)
<1> DEFINE n == Cardinality(DOMAIN weights)
           lower == LowerMiddle(n)
           upper == UpperMiddle(n)
<1>1. n \in Nat /\ n # 0
  BY FS_CardinalityType, FS_EmptySet DEF Counted
<1>2. lower \in 1..n /\ upper \in 1..n
  BY <1>1, MiddleRanks
<1>3. Middle \in Nat
  BY WeightRangeAssumption, MiddleInRange, SMT
<1>4. PICK order \in SortedOrders(weights) : median = (weights[order[lower]] + weights[order[upper]]) \div 2
  BY MedianByPlaces
<1>5. weights[order[lower]] \in Nat /\ weights[order[upper]] \in Nat
  BY <1>2, PlaceHasRank
<1>6. median \in Nat /\ median > 0
  <2> DEFINE sum == weights[order[lower]] + weights[order[upper]]
  <2>1. sum \in Nat /\ median = sum \div 2
    BY <1>4, <1>5
  <2> HIDE DEF sum
  <2> QED
    BY <2>1, SMT
<1>7. Middle \div (2 * median) \in Nat
  <2> DEFINE b == 2 * median
  <2>1. b \in Nat /\ b > 0
    BY <1>6, SMT
  <2> HIDE DEF b
  <2> QED
    BY <1>3, <2>1, SMT DEF b
<1>8. CASE median = Middle
  <2>1. f = weights
    BY <1>8 DEF AdjustWeightsToMedian
  <2>2. m = Middle
    <3>1. MedianWeights(weights) = {median}
      <4>1. PICK low, high \in Nat :
              /\ HasRank(weights, low, LowerMiddle(n)) /\ HasRank(weights, high, UpperMiddle(n))
              /\ median = (low + high) \div 2
        BY <1>2, <1>4, PlaceHasRank
      <4> QED
        BY <4>1, MedianOfRanks
    <3> QED
      BY <1>8, <2>1, <3>1
  <2> QED
    BY <1>3, <1>7, <2>2
<1>9. CASE median # Middle
  <2>1. DOMAIN f = DOMAIN weights /\ \A a \in DOMAIN weights : f[a] \in Scaled(weights[a], median)
    BY <1>9 DEF AdjustWeightsToMedian
  <2>2. Counted(f)
    BY <1>6, <2>1, ScaledTruncates DEF Counted
  <2>3. PICK scaledOrder \in SortedOrders(f) : m = (f[scaledOrder[lower]] + f[scaledOrder[upper]]) \div 2
    BY <2>1, <2>2, MedianByPlaces
  <2> DEFINE low == weights[order[lower]]
             high == weights[order[upper]]
             s == f[scaledOrder[lower]]
             t == f[scaledOrder[upper]]
  <2>4. s \in Nat /\ s * median <= low * Middle /\ low * Middle <= (s + 1) * median
    <3> HIDE DEF lower
    <3> QED
      BY <1>2, <1>6, <2>1, ScaledPlace
  <2>5. t \in Nat /\ t * median <= high * Middle /\ high * Middle <= (t + 1) * median
    <3> HIDE DEF upper
    <3> QED
      BY <1>2, <1>6, <2>1, ScaledPlace
  <2> HIDE DEF low, high, s, t
  <2>6. low \in Nat /\ high \in Nat /\ median = (low + high) \div 2 /\ m = (s + t) \div 2
    BY <1>4, <1>5, <2>3 DEF low, high, s, t
  <2> QED
    BY <1>3, <1>6, <2>4, <2>5, <2>6, CentredPlaces
<1> QED
  BY <1>8, <1>9

\* The adjustment never swaps two weights.
THEOREM AdjustmentKeepsOrder ==
  ASSUME NEW weights, Counted(weights), NEW median \in Nat,
         NEW f \in AdjustWeightsToMedian(weights, median),
         NEW a \in DOMAIN weights, NEW b \in DOMAIN weights, weights[a] < weights[b]
  PROVE  f[a] <= f[b]
<1>1. weights[a] \in Nat /\ weights[b] \in Nat
  BY DEF Counted
<1>2. CASE median \in {0, Middle}
  BY <1>1, <1>2 DEF AdjustWeightsToMedian
<1>3. CASE median \notin {0, Middle}
  <2>1. f[a] \in Scaled(weights[a], median) /\ f[b] \in Scaled(weights[b], median)
    BY <1>3 DEF AdjustWeightsToMedian
  <2>2. median > 0
    BY <1>3
  <2> QED
    BY <1>1, <2>1, <2>2, ScaledKeepsOrder
<1> QED
  BY <1>2, <1>3

-----------------------------------------------------------------------------
\* div rounds down, below zero too.
LEMMA Floor ==
  ASSUME NEW p \in Int, NEW d \in Nat, d > 0
  PROVE  /\ p \div d \in Int
         /\ (p \div d) * d <= p
         /\ p < (p \div d + 1) * d
         /\ p % d = 0 => (p \div d) * d = p
BY SMT

\* The smaller multiplier gives the smaller product: truncation of an exact
\* product to one below it does not turn the two around.
LEMMA TruncationsKeepOrder ==
  ASSUME NEW weight \in Nat, NEW less \in Int, NEW more \in Int, NEW den \in Nat, den > 0,
         less < more \/ (less = den /\ more = den),
         NEW x \in Truncations(weight, less, den), NEW y \in Truncations(weight, more, den)
  PROVE  x <= y
<1> DEFINE p == weight * less
           q == weight * more
<1>1. p \in Int /\ q \in Int
  BY SMT
<1>2. /\ p \div den \in Int /\ (p \div den) * den <= p /\ p < (p \div den + 1) * den
      /\ q \div den \in Int /\ (q \div den) * den <= q /\ q < (q \div den + 1) * den
      /\ q % den = 0 => (q \div den) * den = q
  <2> HIDE DEF p, q
  <2> QED
    BY <1>1, Floor
<1>3. x = p \div den \/ (x = p \div den - 1 /\ less # den)
  BY DEF Truncations
<1>4. y = q \div den \/ (y = q \div den - 1 /\ q % den = 0 /\ q > 0 /\ more # den)
  BY DEF Truncations
<1>5. CASE less = den /\ more = den
  <2>1. p = q
    BY <1>5
  <2> HIDE DEF p, q
  <2> QED
    BY <1>2, <1>3, <1>4, <1>5, <2>1
<1>6. CASE less < more
  <2>1. p <= q /\ (q > 0 => p < q)
    <3>1. CASE weight = 0
      <4>1. p = 0 /\ q = 0
        BY <3>1, SMT
      <4> QED
        BY <4>1
    <3>2. CASE weight # 0
      <4>1. p < q
        <5>1. PICK d \in Nat : more = less + d /\ d > 0
          BY <1>6
        <5>2. q = p + weight * d
          BY <5>1, SMT
        <5>3. weight * d > 0 /\ weight * d \in Nat
          BY <3>2, <5>1, SMT
        <5> HIDE DEF p, q
        <5> QED
          BY <1>1, <5>2, <5>3
      <4> HIDE DEF p, q
      <4> QED
        BY <1>1, <4>1
    <3> QED
      BY <3>1, <3>2
  <2> DEFINE u == p \div den
             v == q \div den
  <2> HIDE DEF p, q
  <2>2. u \in Int /\ v \in Int /\ u * den \in Int /\ (v + 1) * den \in Int /\ v * den \in Int
    <3>1. u \in Int /\ v \in Int
      BY <1>2
    <3> HIDE DEF u, v
    <3> QED
      BY <3>1, SMT
  <2>3. u <= v
    <3> SUFFICES ASSUME v + 1 <= u
                 PROVE  FALSE
      BY <2>2
    <3>1. (v + 1) * den <= u * den
      <4> HIDE DEF u, v
      <4> QED
        BY <2>2, SMT
    <3>2. u * den <= p /\ p <= q /\ q < (v + 1) * den
      BY <1>2, <2>1
    <3> HIDE DEF u, v
    <3> QED
      BY <1>1, <2>2, <3>1, <3>2
  <2>4. CASE y = v
    BY <1>3, <2>2, <2>3, <2>4
  <2>5. CASE y = v - 1 /\ q % den = 0 /\ q > 0
    <3>1. v * den = q /\ p < q /\ u * den <= p
      BY <1>2, <2>1, <2>5
    <3>2. u < v
      <4> SUFFICES ASSUME v <= u
                   PROVE  FALSE
        BY <2>2
      <4>1. v * den <= u * den
        <5> HIDE DEF u, v
        <5> QED
          BY <2>2, SMT
      <4> HIDE DEF u, v
      <4> QED
        BY <1>1, <2>2, <3>1, <4>1
    <3> QED
      BY <1>3, <2>2, <2>5, <3>2
  <2> QED
    BY <1>4, <2>4, <2>5
<1> QED
  BY <1>5, <1>6

-----------------------------------------------------------------------------
(***************************************************************************)
(* What a busier pod gets.                                                 *)
(***************************************************************************)

\* A multiplier of 1 is exact, whatever it is written over.
LEMMA UnitTruncations ==
  ASSUME NEW weight \in Nat, NEW den \in Nat, den > 0
  PROVE  Truncations(weight, 1, 1) = Truncations(weight, den, den)
<1>1. weight * 1 = weight /\ weight \div 1 = weight
  BY SMT
<1> DEFINE p == weight * den
           q == p \div den
<1>2. p \in Nat
  BY SMT
<1>3. p % den = 0
  BY SMT
<1>4. q \in Nat /\ q * den = p
  <2>1. q \in Nat /\ (p % den = 0 => q * den = p)
    <3> HIDE DEF p
    <3> QED
      BY <1>2, Truncated
  <2> HIDE DEF p, q
  <2> QED
    BY <1>3, <2>1 DEF p
<1>5. q = weight
  <2> HIDE DEF q
  <2>1. q * den = weight * den
    BY <1>4
  <2>2. CASE q < weight
    <3>1. (q + 1) * den <= weight * den
      BY <1>4, <2>2, ProductMonotone
    <3>2. (q + 1) * den = q * den + den /\ q * den \in Nat
      BY <1>4, SMT
    <3> QED
      BY <2>1, <3>1, <3>2
  <2>3. CASE weight < q
    <3>1. (weight + 1) * den <= q * den
      BY <1>4, <2>3, ProductMonotone
    <3>2. (weight + 1) * den = weight * den + den /\ weight * den \in Nat
      BY SMT
    <3> QED
      BY <2>1, <3>1, <3>2
  <2> QED
    BY <1>4, <2>2, <2>3
<1>6. Truncations(weight, 1, 1) = {weight}
  BY <1>1 DEF Truncations
<1>7. Truncations(weight, den, den) = {q}
  BY DEF Truncations
<1> QED
  BY <1>5, <1>6, <1>7

\* The clamp keeps the order.
LEMMA ClampKeepsOrder ==
  ASSUME NEW x \in Int, NEW y \in Int, x <= y
  PROVE  Clamp(x) <= Clamp(y)
BY WeightRangeAssumption, SMT DEF Clamp

\* The numerator of a pod's multiplier over 100 times the total, from n times its
\* distance from the mean.
Numerator(distance, total) ==
  LET size == IF distance < 0 THEN -distance ELSE distance
  IN  IF size * 100 < MinOptimizeCpuDistancePercent * total \/ distance = 0 THEN 100 * total
      ELSE 100 * total - CpuDistanceMultiplierPercent * distance

\* A greater distance from the mean never brings a greater numerator.
LEMMA NumeratorsDecrease ==
  ASSUME NEW total \in Nat, NEW c \in Int, NEW d \in Int, c < d
  PROVE  /\ Numerator(c, total) \in Int /\ Numerator(d, total) \in Int
         /\ \/ Numerator(d, total) < Numerator(c, total)
            \/ Numerator(d, total) = 100 * total /\ Numerator(c, total) = 100 * total
<1> DEFINE C == CpuDistanceMultiplierPercent
           h == 100 * total
           bound == MinOptimizeCpuDistancePercent * total
           Near(x) == (IF x < 0 THEN -x ELSE x) * 100 < bound
<1>1. C \in Nat /\ bound \in Nat /\ h \in Nat
  BY PercentAssumption, SMT
<1>2. /\ Numerator(c, total) = IF Near(c) \/ c = 0 THEN h ELSE h - C * c
      /\ Numerator(d, total) = IF Near(d) \/ d = 0 THEN h ELSE h - C * d
  BY DEF Numerator
<1>3. /\ C * c \in Int /\ C * d \in Int
      /\ c <= 0 => C * c <= 0
      /\ d >= 0 => C * d >= 0
      /\ C # 0 => C * c < C * d
      /\ C = 0 => C * c = 0 /\ C * d = 0
  <2>1. C * c \in Int /\ C * d \in Int
    BY <1>1, SMT
  <2>2. (c <= 0 => C * c <= 0) /\ (d >= 0 => C * d >= 0)
    BY <1>1, SMT
  <2>3. C # 0 => C * c < C * d
    <3> SUFFICES ASSUME C # 0
                 PROVE  C * c < C * d
      OBVIOUS
    <3>1. PICK e \in Nat : d = c + e /\ e > 0
      <4> DEFINE e == d - c
      <4>1. e \in Nat /\ e > 0 /\ d = c + e
        OBVIOUS
      <4> QED
        BY <4>1
    <3> HIDE DEF C
    <3>2. C * d = C * c + C * e
      BY <1>1, <3>1, SMT
    <3>3. C * e > 0 /\ C * e \in Int
      BY <1>1, <3>1, SMT
    <3> QED
      BY <2>1, <3>2, <3>3
  <2>4. C = 0 => C * c = 0 /\ C * d = 0
    BY SMT
  <2> QED
    BY <2>1, <2>2, <2>3, <2>4
<1>4. (Near(c) /\ ~Near(d) => d >= 0) /\ (Near(d) /\ ~Near(c) => c <= 0)
  <2> HIDE DEF bound
  <2> QED
    BY <1>1, SMT
<1>5. /\ Numerator(c, total) \in Int /\ Numerator(d, total) \in Int
      /\ \/ Numerator(d, total) < Numerator(c, total)
         \/ Numerator(d, total) = h /\ Numerator(c, total) = h
  <2> DEFINE X == C * c
             Y == C * d
  <2>1. /\ X \in Int /\ Y \in Int /\ (c <= 0 => X <= 0) /\ (d >= 0 => Y >= 0)
        /\ X < Y \/ (X = 0 /\ Y = 0)
    BY <1>3
  <2>2. /\ Numerator(c, total) = IF Near(c) \/ c = 0 THEN h ELSE h - X
        /\ Numerator(d, total) = IF Near(d) \/ d = 0 THEN h ELSE h - Y
    BY <1>2
  <2> HIDE DEF X, Y, h, Near, C, bound
  <2>3. CASE Near(c) \/ c = 0
    <3>1. Numerator(c, total) = h
      BY <2>2, <2>3
    <3>2. CASE Near(d) \/ d = 0
      <4>1. Numerator(d, total) = h
        BY <2>2, <3>2
      <4> QED
        BY <1>1, <3>1, <4>1
    <3>3. CASE ~(Near(d) \/ d = 0)
      <4>1. Numerator(d, total) = h - Y
        BY <2>2, <3>3
      <4>2. Y >= 0
        BY <1>4, <2>1, <2>3, <3>3
      <4> QED
        BY <1>1, <2>1, <3>1, <4>1, <4>2
    <3> QED
      BY <3>2, <3>3
  <2>4. CASE ~(Near(c) \/ c = 0)
    <3>1. Numerator(c, total) = h - X
      BY <2>2, <2>4
    <3>2. CASE Near(d) \/ d = 0
      <4>1. Numerator(d, total) = h
        BY <2>2, <3>2
      <4>2. X <= 0
        BY <1>4, <2>1, <2>4, <3>2
      <4> QED
        BY <1>1, <2>1, <3>1, <4>1, <4>2
    <3>3. CASE ~(Near(d) \/ d = 0)
      <4>1. Numerator(d, total) = h - Y
        BY <2>2, <3>3
      <4> QED
        BY <1>1, <2>1, <3>1, <4>1
    <3> QED
      BY <3>2, <3>3
  <2> QED
    BY <2>3, <2>4
<1> QED
  BY <1>5

\* A pod with a reading has a total to divide by.
LEMMA MeasuredTotal ==
  ASSUME NEW cpu, NEW S, IsFiniteSet(S), \A x \in S : cpu[x] \in Nat,
         NEW a \in S, cpu[a] > 0
  PROVE  SumFunctionOnSet(cpu, S) \in Nat /\ SumFunctionOnSet(cpu, S) > 0
<1>1. SumFunctionOnSet(cpu, S) = cpu[a] + SumFunctionOnSet(cpu, S \ {a})
  BY SumRemove
<1>2. IsFiniteSet(S \ {a}) /\ \A x \in S \ {a} : cpu[x] \in Nat
  BY FS_Subset
<1>3. SumFunctionOnSet(cpu, S \ {a}) \in Nat
  BY <1>2, SumType
<1> QED
  BY <1>1, <1>3

\* Whatever the readings, every multiplier is a fraction with a denominator: the
\* code divides by the mean only where it is not 0 (updatePodMetrics).
THEOREM MultipliersDefined ==
  ASSUME NEW cpu, IsFiniteSet(DOMAIN cpu), \A x \in DOMAIN cpu : cpu[x] \in Nat,
         NEW a \in DOMAIN cpu
  PROVE  UpdatePodMetrics(cpu).multipliers[a] \in Multiplier
<1> DEFINE measured == {x \in DOMAIN cpu : cpu[x] # 0}
           n == Cardinality(measured)
           total == SumFunctionOnSet(cpu, measured)
           d == IF a \in measured THEN cpu[a] * n - total ELSE 0
           M == UpdatePodMetrics(cpu).multipliers[a]
<1>1. M = One \/ (d # 0 /\ M = CpuMultiplier(d, total))
  <2> HIDE DEF CpuMultiplier, One
  <2> QED
    BY DEF UpdatePodMetrics, Measured
<1>2. CASE M = One
  BY <1>2 DEF One, Multiplier
<1>3. CASE d # 0 /\ M = CpuMultiplier(d, total)
  <2>1. a \in measured /\ cpu[a] \in Nat /\ cpu[a] > 0
    BY <1>3
  <2>2. IsFiniteSet(measured) /\ \A x \in measured : cpu[x] \in Nat
    BY FS_Subset
  <2> HIDE DEF measured
  <2>3. n \in Nat
    BY <2>2, FS_CardinalityType
  <2>4. total \in Nat /\ total > 0
    BY <2>1, <2>2, MeasuredTotal
  <2> HIDE DEF n, total
  <2>5. d \in Int
    <3>1. cpu[a] * n \in Nat
      BY <2>1, <2>3, SMT
    <3> QED
      BY <2>1, <2>4, <3>1
  <2> HIDE DEF d
  <2>6. CpuDistanceMultiplierPercent * d \in Int
    BY <2>5, PercentAssumption, SMT
  <2>7. 100 * total - CpuDistanceMultiplierPercent * d \in Int /\ 100 * total \in Nat \ {0}
    BY <2>4, <2>6
  <2> QED
    BY <1>3, <2>7 DEF CpuMultiplier, Multiplier
<1> QED
  BY <1>1, <1>2, <1>3

\* A pod without a reading gets the multiplier 1 and changes no other pod's
\* (updatePodMetrics).
THEOREM MissingReadingIsNeutral ==
  ASSUME NEW cpu, IsFiniteSet(DOMAIN cpu), \A x \in DOMAIN cpu : cpu[x] \in Nat,
         NEW alone, alone = [x \in Measured(cpu) |-> cpu[x]],
         NEW a \in DOMAIN cpu
  PROVE  UpdatePodMetrics(cpu).multipliers[a] =
           IF a \in Measured(cpu) THEN UpdatePodMetrics(alone).multipliers[a] ELSE One
<1> DEFINE measured == Measured(cpu)
           n == Cardinality(measured)
           Total(f) == SumFunctionOnSet(f, measured)
           Distance(x, total) == IF x \in measured THEN cpu[x] * n - total ELSE 0
           Near(d, total) == (IF d < 0 THEN -d ELSE d) * 100 < MinOptimizeCpuDistancePercent * total
           M(d, total) == IF n = 0 \/ Near(d, total) \/ d = 0 THEN One ELSE CpuMultiplier(d, total)
<1>1. IsFiniteSet(measured) /\ DOMAIN alone = measured /\ \A x \in measured : alone[x] = cpu[x]
  BY FS_Subset DEF Measured
<1>2. Measured(alone) = measured
  BY <1>1 DEF Measured
<1>3. Total(alone) = Total(cpu)
  <2> HIDE DEF measured
  <2> QED
    BY <1>1, SumAgrees
<1> HIDE DEF CpuMultiplier, One
<1>4. UpdatePodMetrics(cpu).multipliers[a] = M(Distance(a, Total(cpu)), Total(cpu))
  BY Zenon DEF UpdatePodMetrics
<1>5. ASSUME a \in measured
      PROVE  UpdatePodMetrics(alone).multipliers[a] = M(Distance(a, Total(cpu)), Total(cpu))
  BY <1>1, <1>2, <1>3, <1>5, Zenon DEF UpdatePodMetrics
<1>6. ASSUME a \notin measured
      PROVE  M(Distance(a, Total(cpu)), Total(cpu)) = One
  BY <1>6, Zenon
<1> QED
  BY <1>4, <1>5, <1>6

\* Of two pods with the same weight and a reading each, the busier one does not
\* get the higher weight (updatePodMetrics, calculateNewWeight).
THEOREM BusierGetsLess ==
  ASSUME NEW cpu, IsFiniteSet(DOMAIN cpu), \A x \in DOMAIN cpu : cpu[x] \in Nat,
         NEW weight \in Nat, NEW a \in DOMAIN cpu, NEW b \in DOMAIN cpu, 0 < cpu[a], cpu[a] < cpu[b],
         NEW v \in CalculateNewWeight(weight, UpdatePodMetrics(cpu).multipliers[a]),
         NEW w \in CalculateNewWeight(weight, UpdatePodMetrics(cpu).multipliers[b])
  PROVE  w <= v
<1> DEFINE measured == {x \in DOMAIN cpu : cpu[x] # 0}
           n == Cardinality(measured)
           total == SumFunctionOnSet(cpu, measured)
           distance(x) == cpu[x] * n - total
           den == 100 * total
           M(x) == UpdatePodMetrics(cpu).multipliers[x]
<1>1. a \in measured /\ b \in measured /\ IsFiniteSet(measured) /\ \A x \in measured : cpu[x] \in Nat
  BY FS_Subset
<1>2. n \in Nat /\ n # 0
  <2> HIDE DEF measured
  <2> QED
    BY <1>1, FS_CardinalityType, FS_EmptySet
<1>3. total \in Nat /\ total > 0
  <2> HIDE DEF measured
  <2> QED
    BY <1>1, MeasuredTotal
<1>4. distance(a) \in Int /\ distance(b) \in Int /\ distance(a) < distance(b)
  <2> HIDE DEF n, total
  <2>1. cpu[a] \in Nat /\ cpu[b] \in Nat
    BY <1>1
  <2>2. cpu[a] * n \in Nat /\ cpu[b] * n \in Nat
    BY <1>2, <2>1, SMT
  <2>3. (cpu[a] + 1) * n <= cpu[b] * n
    BY <1>2, <2>1, ProductMonotone
  <2>4. (cpu[a] + 1) * n = cpu[a] * n + n
    BY <1>2, <2>1, SMT
  <2> QED
    BY <1>2, <1>3, <2>2, <2>3, <2>4
<1>5. ASSUME NEW x \in measured
      PROVE  Truncations(weight, M(x).num, M(x).den) = Truncations(weight, Numerator(distance(x), total), den)
  <2> DEFINE d == distance(x)
             size == IF d < 0 THEN -d ELSE d
             close == size * 100 < MinOptimizeCpuDistancePercent * total
  <2>1. M(x) = IF n = 0 \/ close \/ d = 0 THEN One ELSE CpuMultiplier(d, total)
    <3> HIDE DEF CpuMultiplier, One
    <3> QED
      BY <1>5 DEF UpdatePodMetrics, Measured
  <2>2. den \in Nat /\ den > 0
    <3> HIDE DEF total
    <3> QED
      BY <1>3
  <2> HIDE DEF d, den, n
  <2>3. CASE close \/ d = 0
    <3>1. M(x) = One
      BY <2>1, <2>3
    <3>2. Numerator(d, total) = den
      BY <2>3 DEF Numerator, den
    <3> QED
      BY <2>2, <3>1, <3>2, UnitTruncations DEF One, d
  <2>4. CASE ~(close \/ d = 0)
    <3>1. M(x) = CpuMultiplier(d, total)
      BY <1>2, <2>1, <2>4
    <3>2. M(x).num = Numerator(d, total) /\ M(x).den = den
      BY <2>4, <3>1 DEF CpuMultiplier, Numerator, den
    <3> QED
      BY <3>2 DEF d
  <2> QED
    BY <2>3, <2>4
<1> HIDE DEF measured, n, total, distance, M
<1>6. /\ Numerator(distance(a), total) \in Int /\ Numerator(distance(b), total) \in Int
      /\ \/ Numerator(distance(b), total) < Numerator(distance(a), total)
         \/ Numerator(distance(b), total) = den /\ Numerator(distance(a), total) = den
  BY <1>3, <1>4, NumeratorsDecrease
<1>7. den \in Nat /\ den > 0
  BY <1>3
<1>8. PICK x \in Truncations(weight, Numerator(distance(b), total), den) : w = Clamp(x)
  BY <1>1, <1>5 DEF CalculateNewWeight, M
<1>9. PICK y \in Truncations(weight, Numerator(distance(a), total), den) : v = Clamp(y)
  BY <1>1, <1>5 DEF CalculateNewWeight, M
<1> HIDE DEF den
<1>10. x <= y
  BY <1>6, <1>7, TruncationsKeepOrder
<1>11. x \in Int /\ y \in Int
  BY <1>6, <1>7, TruncationsInt
<1> QED
  BY <1>8, <1>9, <1>10, <1>11, ClampKeepsOrder
=============================================================================
