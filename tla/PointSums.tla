----------------------------- MODULE PointSums -----------------------------
(***************************************************************************)
(* Sums of points over a finite set of users, stakes or markets: lemmas    *)
(* about SumFunctionOnSet of the community modules, which picks the        *)
(* elements of the set one by one.  The induction they need is stated with  *)
(* a set of subsets in place of a predicate, so that the provers can        *)
(* instantiate it.                                                          *)
(***************************************************************************)
EXTENDS Integers, FiniteSets, Functions, FiniteSetTheorems, TLAPS

(* Induction over the finite set S, phrased with the set of its subsets     *)
(* that have the property.                                                  *)
LEMMA SubsetInduction ==
  ASSUME NEW S, IsFiniteSet(S), NEW Good \in SUBSET SUBSET S,
         ASSUME NEW T \in SUBSET S, \A U \in SUBSET T : U # T => U \in Good
         PROVE  T \in Good
  PROVE  S \in Good
  <1> DEFINE Bad == (SUBSET S) \ Good
             R == StrictSubsetOrdering(S)
  <1> SUFFICES ASSUME Bad # {} PROVE FALSE
    OBVIOUS
  <1>1. IsWellFoundedOn(R, SUBSET S)
    <2>1. IsWellFoundedOn(R, FiniteSubsetsOf(S))
      BY FS_StrictSubsetOrderingWellFounded, Zenon
    <2>2. FiniteSubsetsOf(S) = SUBSET S
      BY FS_FiniteSubsetsOfFinite, Zenon
    <2> QED
      BY <2>1, <2>2, Zenon
  <1>2. \E T \in Bad : \A U \in Bad : ~ (<<U, T>> \in R)
    <2>1. Bad \subseteq SUBSET S /\ Bad # {}
      OBVIOUS
    <2> HIDE DEF R, Bad
    <2>2. \A A, O, B : IsWellFoundedOn(O, A) /\ B \subseteq A /\ B # {}
                          => \E x \in B : \A y \in B : ~ (<<y, x>> \in O)
      BY WFMin
    <2> QED BY <1>1, <2>1, <2>2, SMT
  <1> PICK T \in Bad : \A U \in Bad : ~ (<<U, T>> \in R)
    BY <1>2
  <1>3. \A U \in SUBSET T : U # T => U \in Good
    BY DEF StrictSubsetOrdering
  <1> QED
    BY <1>3

-----------------------------------------------------------------------------
(* A finite set of integers with a member has a highest one.                 *)
LEMMA HighestExists ==
  ASSUME NEW S, IsFiniteSet(S), S \subseteq Int, S # {}
  PROVE  \E x \in S : \A y \in S : x >= y
  <1> DEFINE Good == {T \in SUBSET S : T # {} => \E x \in T : \A y \in T : x >= y}
  <1>1. ASSUME NEW T \in SUBSET S, \A U \in SUBSET T : U # T => U \in Good
        PROVE  T \in Good
    <2> SUFFICES ASSUME T # {} PROVE \E x \in T : \A y \in T : x >= y
      OBVIOUS
    <2> PICK z \in T : TRUE
      OBVIOUS
    <2>1. CASE T = {z}
      BY <2>1
    <2>2. CASE T # {z}
      <3>1. T \ {z} \in Good /\ T \ {z} # {}
        BY <1>1, <2>2
      <3>2. PICK x \in T \ {z} : \A y \in T \ {z} : x >= y
        BY <3>1
      <3>3. x \in Int /\ z \in Int /\ T \subseteq Int
        OBVIOUS
      <3> QED
        <4>1. CASE x >= z
          <5>1. \A y \in T : x >= y
            BY <3>2, <4>1
          <5> QED BY <5>1
        <4>2. CASE z >= x
          <5>1. \A y \in T : z >= y
            BY <3>2, <3>3, <4>2
          <5> QED BY <5>1
        <4> QED BY <3>3, <4>1, <4>2
    <2> QED BY <2>1, <2>2
  <1>2. S \in Good
    <2>1. Good \in SUBSET SUBSET S
      OBVIOUS
    <2> HIDE DEF Good
    <2> QED BY <1>1, <2>1, SubsetInduction
  <1> QED BY <1>2

(* The element the community fold takes next.                                 *)
Pick(s) == CHOOSE x \in s : TRUE

(* g holds the sum of f over every subset of S, as that fold computes it.      *)
IsPartialSum(g, f, S) ==
  g = [s \in SUBSET S |-> IF s = {} THEN 0 ELSE f[Pick(s)] + g[s \ {Pick(s)}]]

(* The community operator is the value at S of such a function.               *)
LEMMA SumIsPartialSum ==
  ASSUME NEW f, NEW S
  PROVE  SumFunctionOnSet(f, S) = (CHOOSE g : IsPartialSum(g, f, S))[S]
  BY DEF SumFunctionOnSet, FoldFunctionOnSet, MapThenFoldSet, IsPartialSum, Pick

(* What is picked from a set is in it.                                        *)
LEMMA PickInSet == ASSUME NEW s, s # {} PROVE Pick(s) \in s
  BY DEF Pick

(* The recursion equation of a partial sum at one subset.                     *)
LEMMA PartialSumAt ==
  ASSUME NEW f, NEW g, NEW S, IsPartialSum(g, f, S), NEW s \in SUBSET S
  PROVE  g[s] = IF s = {} THEN 0 ELSE f[Pick(s)] + g[s \ {Pick(s)}]
  BY DEF IsPartialSum

(* Two partial sums of f agree on every finite set they both cover.           *)
LEMMA PartialSumUnique ==
  ASSUME NEW f, NEW g, NEW h, NEW S, NEW T, IsPartialSum(g, f, S),
         IsPartialSum(h, f, T), NEW U, IsFiniteSet(U), U \subseteq S, U \subseteq T
  PROVE  g[U] = h[U]
  <1> DEFINE Good == {s \in SUBSET U : g[s] = h[s]}
  <1>1. ASSUME NEW V \in SUBSET U, \A W \in SUBSET V : W # V => W \in Good
        PROVE  V \in Good
    <2>1. /\ g[V] = IF V = {} THEN 0 ELSE f[Pick(V)] + g[V \ {Pick(V)}]
          /\ h[V] = IF V = {} THEN 0 ELSE f[Pick(V)] + h[V \ {Pick(V)}]
      <3>1. V \in SUBSET S /\ V \in SUBSET T
        OBVIOUS
      <3>2. g[V] = IF V = {} THEN 0 ELSE f[Pick(V)] + g[V \ {Pick(V)}]
        BY <3>1 DEF IsPartialSum
      <3>3. h[V] = IF V = {} THEN 0 ELSE f[Pick(V)] + h[V \ {Pick(V)}]
        BY <3>1 DEF IsPartialSum
      <3> QED BY <3>2, <3>3
    <2>2. CASE V = {}
      BY <2>1, <2>2
    <2>3. CASE V # {}
      <3>1. V \ {Pick(V)} \in SUBSET V /\ V \ {Pick(V)} # V
        BY <2>3, PickInSet
      <3>2. g[V \ {Pick(V)}] = h[V \ {Pick(V)}]
        BY <3>1, <1>1
      <3> QED BY <2>1, <2>3, <3>2
    <2> QED BY <2>2, <2>3
  <1>2. U \in Good
    <2>1. Good \in SUBSET SUBSET U
      OBVIOUS
    <2> HIDE DEF Good
    <2> QED BY <1>1, <2>1, SubsetInduction
  <1> QED BY <1>2

(* A partial sum over a finite set exists.                                    *)
LEMMA PartialSumExists ==
  ASSUME NEW f, NEW S, IsFiniteSet(S)
  PROVE  \E g : IsPartialSum(g, f, S)
  <1> DEFINE Good == {s \in SUBSET S : \E g : IsPartialSum(g, f, s)}
  <1>1. ASSUME NEW T \in SUBSET S, \A U \in SUBSET T : U # T => U \in Good
        PROVE  T \in Good
    <2> DEFINE G(s) == CHOOSE g : IsPartialSum(g, f, s)
               h == [s \in SUBSET T |->
                       IF s = T
                       THEN IF T = {} THEN 0 ELSE f[Pick(T)] + G(T \ {Pick(T)})[T \ {Pick(T)}]
                       ELSE G(s)[s]]
    <2>1. ASSUME NEW s \in SUBSET T, s # T PROVE IsPartialSum(G(s), f, s)
      BY <1>1, <2>1
    <2>2. ASSUME NEW s \in SUBSET T
          PROVE  h[s] = IF s = {} THEN 0 ELSE f[Pick(s)] + h[s \ {Pick(s)}]
      <3>1. CASE s = {}
        <4>1. CASE s = T
          BY <3>1, <4>1
        <4>2. CASE s # T
          <5>1. IsPartialSum(G(s), f, s) /\ s \in SUBSET s
            BY <2>1, <4>2
          <5>2. G(s)[s] = 0
            <6> HIDE DEF G
            <6> QED BY <5>1, <3>1, PartialSumAt
          <5> QED BY <3>1, <4>2, <5>2
        <4> QED BY <4>1, <4>2
      <3>2. CASE s # {}
        <4> DEFINE r == s \ {Pick(s)}
        <4>1. r \in SUBSET T /\ r # T /\ r # s /\ r \in SUBSET s
          BY <3>2, PickInSet
        <4>2. h[r] = G(r)[r]
          BY <4>1
        <4>3. CASE s = T
          BY <3>2, <4>2, <4>3
        <4>4. CASE s # T
          <5>1. G(s)[s] = f[Pick(s)] + G(s)[r]
            <6>1. IsPartialSum(G(s), f, s) /\ s \in SUBSET s
              BY <2>1, <4>4
            <6> HIDE DEF G
            <6> QED BY <6>1, <3>2, PartialSumAt
          <5>2. G(s)[r] = G(r)[r]
            <6>1. IsPartialSum(G(s), f, s) /\ IsPartialSum(G(r), f, r)
              BY <2>1, <4>1, <4>4
            <6>2. IsFiniteSet(r)
              BY <4>1, FS_Subset
            <6> HIDE DEF G, r
            <6> QED BY <6>1, <6>2, <4>1, PartialSumUnique
          <5> QED BY <4>2, <4>4, <5>1, <5>2, <3>2
        <4> QED BY <4>3, <4>4
      <3> QED BY <3>1, <3>2
    <2>3. IsPartialSum(h, f, T)
      <3>1. h = [s \in SUBSET T |-> h[s]]
        OBVIOUS
      <3>2. h = [s \in SUBSET T |-> IF s = {} THEN 0 ELSE f[Pick(s)] + h[s \ {Pick(s)}]]
        <4> HIDE DEF h
        <4> QED BY <2>2, <3>1, Zenon
      <3> QED BY <3>2 DEF IsPartialSum
    <2> QED BY <2>3
  <1>2. S \in Good
    <2>1. Good \in SUBSET SUBSET S
      OBVIOUS
    <2> HIDE DEF Good
    <2> QED BY <1>1, <2>1, SubsetInduction
  <1> QED BY <1>2

(* The community fold, unfolded once: the sum over a finite set adds the     *)
(* picked element to the sum over the rest.                                  *)
LEMMA SumUnfold ==
  ASSUME NEW f, NEW S, IsFiniteSet(S)
  PROVE  /\ SumFunctionOnSet(f, {}) = 0
         /\ S # {} => SumFunctionOnSet(f, S) = f[Pick(S)] + SumFunctionOnSet(f, S \ {Pick(S)})
  <1> DEFINE G(s) == CHOOSE g : IsPartialSum(g, f, s)
  <1>1. \A s : IsFiniteSet(s) => IsPartialSum(G(s), f, s)
    BY PartialSumExists
  <1>2. SumFunctionOnSet(f, {}) = 0
    <2>1. IsPartialSum(G({}), f, {})
      BY <1>1, FS_EmptySet
    <2>2. G({})[{}] = 0
      <3> HIDE DEF G
      <3> QED BY <2>1, PartialSumAt
    <2> QED BY <2>2, SumIsPartialSum
  <1>3. ASSUME S # {}
        PROVE  SumFunctionOnSet(f, S) = f[Pick(S)] + SumFunctionOnSet(f, S \ {Pick(S)})
    <2> DEFINE r == S \ {Pick(S)}
    <2>1. IsFiniteSet(r) /\ r \subseteq S
      BY FS_Subset
    <2>2. G(S)[S] = f[Pick(S)] + G(S)[r]
      <3>1. IsPartialSum(G(S), f, S) /\ S \in SUBSET S
        BY <1>1
      <3> HIDE DEF G
      <3> QED BY <3>1, <1>3, PartialSumAt
    <2>3. G(S)[r] = G(r)[r]
      <3>1. IsPartialSum(G(S), f, S) /\ IsPartialSum(G(r), f, r)
        BY <1>1, <2>1
      <3> HIDE DEF G, r
      <3> QED BY <3>1, <2>1, PartialSumUnique
    <2> QED BY <2>2, <2>3, SumIsPartialSum
  <1> QED BY <1>2, <1>3

-----------------------------------------------------------------------------
(* A sum of integers is an integer.                                           *)
LEMMA SumType ==
  ASSUME NEW S, IsFiniteSet(S), NEW f, \A x \in S : f[x] \in Int
  PROVE  SumFunctionOnSet(f, S) \in Int
  <1> DEFINE Good == {T \in SUBSET S : SumFunctionOnSet(f, T) \in Int}
  <1>1. ASSUME NEW T \in SUBSET S, \A U \in SUBSET T : U # T => U \in Good
        PROVE  T \in Good
    <2>1. IsFiniteSet(T)
      BY FS_Subset
    <2>2. CASE T = {}
      BY <2>1, <2>2, SumUnfold
    <2>3. CASE T # {}
      <3> DEFINE r == T \ {Pick(T)}
      <3>1. Pick(T) \in S /\ r \in SUBSET T /\ r # T
        BY <2>3, PickInSet
      <3>2. SumFunctionOnSet(f, r) \in Int
        BY <1>1, <3>1
      <3>3. SumFunctionOnSet(f, T) = f[Pick(T)] + SumFunctionOnSet(f, r)
        BY <2>1, <2>3, SumUnfold
      <3> QED BY <3>1, <3>2, <3>3
    <2> QED BY <2>2, <2>3
  <1>2. S \in Good
    <2>1. Good \in SUBSET SUBSET S
      OBVIOUS
    <2> HIDE DEF Good
    <2> QED BY <1>1, <2>1, SubsetInduction
  <1> QED BY <1>2

(* The sum does not depend on the order in which the elements are picked.    *)
LEMMA SumRemove ==
  ASSUME NEW S, IsFiniteSet(S), NEW f, \A x \in S : f[x] \in Int, NEW x \in S
  PROVE  SumFunctionOnSet(f, S) = f[x] + SumFunctionOnSet(f, S \ {x})
  <1> DEFINE Good == {T \in SUBSET S :
                        \A y \in T : SumFunctionOnSet(f, T) = f[y] + SumFunctionOnSet(f, T \ {y})}
  <1>1. ASSUME NEW T \in SUBSET S, \A U \in SUBSET T : U # T => U \in Good
        PROVE  T \in Good
    <2> SUFFICES ASSUME NEW y \in T
                 PROVE  SumFunctionOnSet(f, T) = f[y] + SumFunctionOnSet(f, T \ {y})
      OBVIOUS
    <2> DEFINE p == Pick(T)
    <2>1. IsFiniteSet(T) /\ T # {} /\ p \in T
      BY FS_Subset, PickInSet
    <2>2. SumFunctionOnSet(f, T) = f[p] + SumFunctionOnSet(f, T \ {p})
      BY <2>1, SumUnfold
    <2>3. CASE y = p
      BY <2>2, <2>3
    <2>4. CASE y # p
      <3> HIDE DEF p
      <3> DEFINE r == (T \ {p}) \ {y}
      <3>1. T \ {p} \in Good /\ T \ {y} \in Good
        BY <1>1, <2>1
      <3>2. SumFunctionOnSet(f, T \ {p}) = f[y] + SumFunctionOnSet(f, r)
        BY <3>1, <2>4
      <3>3. SumFunctionOnSet(f, T \ {y}) = f[p] + SumFunctionOnSet(f, r)
        <4>1. r = (T \ {y}) \ {p}
          OBVIOUS
        <4> QED BY <3>1, <2>1, <2>4, <4>1
      <3>4. f[y] \in Int /\ f[p] \in Int
        BY <2>1
      <3>5. SumFunctionOnSet(f, r) \in Int
        <4>1. IsFiniteSet(r) /\ \A z \in r : f[z] \in Int
          BY FS_Subset, r \in SUBSET S
        <4> HIDE DEF r
        <4> QED BY <4>1, SumType
      <3> HIDE DEF r, Good
      <3> QED BY <2>2, <3>2, <3>3, <3>4, <3>5
    <2> QED BY <2>3, <2>4
  <1>2. S \in Good
    <2>1. Good \in SUBSET SUBSET S
      OBVIOUS
    <2> HIDE DEF Good
    <2> QED BY <1>1, <2>1, SubsetInduction
  <1> QED BY <1>2

(* A sum over nothing is zero.                                                *)
LEMMA SumEmpty == ASSUME NEW f PROVE SumFunctionOnSet(f, {}) = 0
  BY SumUnfold, FS_EmptySet

(* Two functions that agree on S have the same sum over S.                    *)
LEMMA SumCong ==
  ASSUME NEW S, IsFiniteSet(S), NEW f, NEW g, \A x \in S : f[x] = g[x]
  PROVE  SumFunctionOnSet(f, S) = SumFunctionOnSet(g, S)
  <1> DEFINE Good == {T \in SUBSET S : SumFunctionOnSet(f, T) = SumFunctionOnSet(g, T)}
  <1>1. ASSUME NEW T \in SUBSET S, \A U \in SUBSET T : U # T => U \in Good
        PROVE  T \in Good
    <2>1. IsFiniteSet(T)
      BY FS_Subset
    <2>2. CASE T = {}
      BY <2>2, SumEmpty
    <2>3. CASE T # {}
      <3> DEFINE r == T \ {Pick(T)}
      <3>1. Pick(T) \in S /\ r \in SUBSET T /\ r # T
        BY <2>3, PickInSet
      <3>2. SumFunctionOnSet(f, r) = SumFunctionOnSet(g, r)
        BY <1>1, <3>1
      <3>3. SumFunctionOnSet(f, T) = f[Pick(T)] + SumFunctionOnSet(f, r)
        BY <2>1, <2>3, SumUnfold
      <3>4. SumFunctionOnSet(g, T) = g[Pick(T)] + SumFunctionOnSet(g, r)
        BY <2>1, <2>3, SumUnfold
      <3> QED BY <3>1, <3>2, <3>3, <3>4
    <2> QED BY <2>2, <2>3
  <1>2. S \in Good
    <2>1. Good \in SUBSET SUBSET S
      OBVIOUS
    <2> HIDE DEF Good
    <2> QED BY <1>1, <2>1, SubsetInduction
  <1> QED BY <1>2

(* Changing one entry changes the sum by the difference of that entry.        *)
LEMMA SumUpdate ==
  ASSUME NEW S, IsFiniteSet(S), NEW f, NEW g, NEW x \in S,
         \A y \in S : f[y] \in Int, \A y \in S : g[y] \in Int,
         \A y \in S \ {x} : g[y] = f[y]
  PROVE  SumFunctionOnSet(g, S) = SumFunctionOnSet(f, S) + (g[x] - f[x])
  <1> DEFINE r == S \ {x}
  <1>1. IsFiniteSet(r)
    BY FS_Subset
  <1>2. SumFunctionOnSet(g, r) = SumFunctionOnSet(f, r)
    <2>1. \A y \in r : g[y] = f[y]
      OBVIOUS
    <2> HIDE DEF r
    <2> QED BY <1>1, <2>1, SumCong
  <1>3. SumFunctionOnSet(f, S) = f[x] + SumFunctionOnSet(f, r)
    BY SumRemove
  <1>4. SumFunctionOnSet(g, S) = g[x] + SumFunctionOnSet(g, r)
    BY SumRemove
  <1>5. SumFunctionOnSet(f, r) \in Int
    <2>1. \A y \in r : f[y] \in Int
      OBVIOUS
    <2> HIDE DEF r
    <2> QED BY <1>1, <2>1, SumType
  <1>6. f[x] \in Int /\ g[x] \in Int
    OBVIOUS
  <1> HIDE DEF r
  <1> QED BY <1>2, <1>3, <1>4, <1>5, <1>6

(* Sums are additive: adding two functions pointwise adds their sums.          *)
LEMMA SumAdd ==
  ASSUME NEW S, IsFiniteSet(S), NEW f, NEW g, NEW h,
         \A x \in S : f[x] \in Int /\ g[x] \in Int /\ h[x] = f[x] + g[x]
  PROVE  SumFunctionOnSet(h, S) = SumFunctionOnSet(f, S) + SumFunctionOnSet(g, S)
  <1> DEFINE Good == {T \in SUBSET S :
        SumFunctionOnSet(h, T) = SumFunctionOnSet(f, T) + SumFunctionOnSet(g, T)}
  <1>1. ASSUME NEW T \in SUBSET S, \A U \in SUBSET T : U # T => U \in Good
        PROVE  T \in Good
    <2>1. IsFiniteSet(T)
      BY FS_Subset
    <2>2. CASE T = {}
      BY <2>2, SumEmpty
    <2>3. CASE T # {}
      <3> DEFINE p == Pick(T)
                 r == T \ {p}
      <3>1. p \in S /\ r \in SUBSET T /\ r # T
        BY <2>3, PickInSet
      <3>2. SumFunctionOnSet(h, r) = SumFunctionOnSet(f, r) + SumFunctionOnSet(g, r)
        BY <1>1, <3>1
      <3>3. SumFunctionOnSet(f, T) = f[p] + SumFunctionOnSet(f, r)
        BY <2>1, <2>3, SumUnfold
      <3>4. SumFunctionOnSet(g, T) = g[p] + SumFunctionOnSet(g, r)
        BY <2>1, <2>3, SumUnfold
      <3>5. SumFunctionOnSet(h, T) = h[p] + SumFunctionOnSet(h, r)
        BY <2>1, <2>3, SumUnfold
      <3>6. SumFunctionOnSet(f, r) \in Int /\ SumFunctionOnSet(g, r) \in Int
        <4>1. IsFiniteSet(r) /\ \A x \in r : f[x] \in Int /\ g[x] \in Int
          BY <2>1, <3>1, FS_Subset
        <4> HIDE DEF r
        <4> QED BY <4>1, SumType
      <3>7. f[p] \in Int /\ g[p] \in Int /\ h[p] = f[p] + g[p]
        BY <3>1
      <3> HIDE DEF p, r
      <3>8. SumFunctionOnSet(h, T) = SumFunctionOnSet(f, T) + SumFunctionOnSet(g, T)
        BY <3>2, <3>3, <3>4, <3>5, <3>6, <3>7
      <3> QED BY <3>8
    <2> QED BY <2>2, <2>3
  <1>2. S \in Good
    <2>1. Good \in SUBSET SUBSET S
      OBVIOUS
    <2> HIDE DEF Good
    <2> QED BY <1>1, <2>1, SubsetInduction
  <1> QED BY <1>2

(* A sum of zeros is zero.                                                    *)
LEMMA SumOfZeros ==
  ASSUME NEW S, IsFiniteSet(S), NEW f, \A x \in S : f[x] = 0
  PROVE  SumFunctionOnSet(f, S) = 0
  <1>1. \A x \in S : f[x] \in Int /\ f[x] = f[x] + f[x]
    OBVIOUS
  <1>2. SumFunctionOnSet(f, S) = SumFunctionOnSet(f, S) + SumFunctionOnSet(f, S)
    BY <1>1, SumAdd, SMT
  <1>3. SumFunctionOnSet(f, S) \in Int
    BY <1>1, SumType
  <1>4. \A n \in Int : n = n + n => n = 0
    OBVIOUS
  <1> QED BY <1>2, <1>3, <1>4

(* A sum of non-negative values is non-negative.                               *)
LEMMA SumNonNegative ==
  ASSUME NEW S, IsFiniteSet(S), NEW f, \A x \in S : f[x] \in Nat
  PROVE  SumFunctionOnSet(f, S) \in Nat
  <1> DEFINE Good == {T \in SUBSET S : SumFunctionOnSet(f, T) \in Nat}
  <1>1. ASSUME NEW T \in SUBSET S, \A U \in SUBSET T : U # T => U \in Good
        PROVE  T \in Good
    <2>1. IsFiniteSet(T)
      BY FS_Subset
    <2>2. CASE T = {}
      BY <2>2, SumEmpty
    <2>3. CASE T # {}
      <3> DEFINE r == T \ {Pick(T)}
      <3>1. Pick(T) \in S /\ r \in SUBSET T /\ r # T
        BY <2>3, PickInSet
      <3>2. SumFunctionOnSet(f, r) \in Nat
        BY <1>1, <3>1
      <3>3. SumFunctionOnSet(f, T) = f[Pick(T)] + SumFunctionOnSet(f, r)
        BY <2>1, <2>3, SumUnfold
      <3> QED BY <3>1, <3>2, <3>3
    <2> QED BY <2>2, <2>3
  <1>2. S \in Good
    <2>1. Good \in SUBSET SUBSET S
      OBVIOUS
    <2> HIDE DEF Good
    <2> QED BY <1>1, <2>1, SubsetInduction
  <1> QED BY <1>2

(* A sum over a part of S is the sum over S of what is zero elsewhere.         *)
LEMMA SumRestrict ==
  ASSUME NEW S, IsFiniteSet(S), NEW R \in SUBSET S, NEW f, NEW g,
         \A x \in R : f[x] \in Int /\ g[x] = f[x], \A x \in S \ R : g[x] = 0
  PROVE  SumFunctionOnSet(g, S) = SumFunctionOnSet(f, R)
  <1> DEFINE Good == {T \in SUBSET S : SumFunctionOnSet(g, T) = SumFunctionOnSet(f, T \cap R)}
  <1>1. ASSUME NEW T \in SUBSET S, \A U \in SUBSET T : U # T => U \in Good
        PROVE  T \in Good
    <2>1. IsFiniteSet(T)
      BY FS_Subset
    <2>2. CASE T = {}
      <3>1. T \cap R = {}
        BY <2>2
      <3> QED BY <2>2, <3>1, SumEmpty
    <2>3. CASE T # {}
      <3> DEFINE x == Pick(T)
                 r == T \ {x}
                 p == T \cap R
      <3>1. x \in T /\ x \in S /\ r \in SUBSET T /\ r # T
        BY <2>3, PickInSet
      <3>2. SumFunctionOnSet(g, r) = SumFunctionOnSet(f, r \cap R)
        BY <1>1, <3>1
      <3>3. SumFunctionOnSet(g, T) = g[x] + SumFunctionOnSet(g, r)
        BY <2>1, <2>3, SumUnfold
      <3>4. IsFiniteSet(p) /\ \A y \in p : f[y] \in Int
        BY <2>1, FS_Subset
      <3>5. CASE x \in R
        <4>1. x \in p /\ r \cap R = p \ {x}
          BY <3>1, <3>5
        <4>2. SumFunctionOnSet(f, p) = f[x] + SumFunctionOnSet(f, p \ {x})
          <5> HIDE DEF p, x
          <5> QED BY <3>4, <4>1, SumRemove
        <4> QED BY <3>2, <3>3, <3>5, <4>1, <4>2
      <3>6. CASE x \notin R
        <4>1. g[x] = 0 /\ r \cap R = p
          BY <3>1, <3>6
        <4>2. SumFunctionOnSet(f, p) \in Int
          <5> HIDE DEF p, x
          <5> QED BY <3>4, SumType
        <4>3. SumFunctionOnSet(g, T) = 0 + SumFunctionOnSet(f, p)
          BY <3>2, <3>3, <4>1
        <4>4. SumFunctionOnSet(g, T) = SumFunctionOnSet(f, p)
          <5> HIDE DEF p
          <5> QED BY <4>2, <4>3
        <4> QED BY <4>4
      <3> QED BY <3>5, <3>6
    <2> QED BY <2>2, <2>3
  <1>2. S \in Good
    <2>1. Good \in SUBSET SUBSET S
      OBVIOUS
    <2> HIDE DEF Good
    <2> QED BY <1>1, <2>1, SubsetInduction
  <1>3. S \cap R = R
    OBVIOUS
  <1> QED BY <1>2, <1>3

(* Shares: if what each element gets is at most its part of p, in proportion to   *)
(* its part of f in the sum w of f, all of them get at most p together.            *)
LEMMA SumOfShares ==
  ASSUME NEW S, IsFiniteSet(S), NEW f, NEW g, NEW p \in Nat, NEW w \in Nat, w > 0,
         w = SumFunctionOnSet(f, S),
         \A x \in S : f[x] \in Nat /\ g[x] \in Nat /\ w * g[x] <= p * f[x]
  PROVE  SumFunctionOnSet(g, S) <= p
  <1> DEFINE Good == {T \in SUBSET S :
        w * SumFunctionOnSet(g, T) <= p * SumFunctionOnSet(f, T)}
  <1>0. \A T \in SUBSET S : SumFunctionOnSet(f, T) \in Int /\ SumFunctionOnSet(g, T) \in Int
    <2> SUFFICES ASSUME NEW T \in SUBSET S
                 PROVE  SumFunctionOnSet(f, T) \in Int /\ SumFunctionOnSet(g, T) \in Int
      OBVIOUS
    <2>1. IsFiniteSet(T) /\ \A x \in T : f[x] \in Int /\ g[x] \in Int
      BY FS_Subset
    <2> QED BY <2>1, SumType
  <1>1. ASSUME NEW T \in SUBSET S, \A U \in SUBSET T : U # T => U \in Good
        PROVE  T \in Good
    <2>1. IsFiniteSet(T)
      BY FS_Subset
    <2>2. CASE T = {}
      <3>1. SumFunctionOnSet(g, T) = 0 /\ SumFunctionOnSet(f, T) = 0
        BY <2>2, SumEmpty
      <3> QED BY <3>1
    <2>3. CASE T # {}
      <3> DEFINE x == Pick(T)
                 r == T \ {x}
      <3>1. x \in S /\ r \in SUBSET T /\ r # T
        BY <2>3, PickInSet
      <3>2. PICK a \in Int, b \in Int : a = SumFunctionOnSet(f, r) /\ b = SumFunctionOnSet(g, r)
        BY <1>0, <3>1
      <3>3. w * b <= p * a
        BY <1>1, <3>1, <3>2
      <3>4. SumFunctionOnSet(f, T) = f[x] + a /\ SumFunctionOnSet(g, T) = g[x] + b
        BY <2>1, <2>3, <3>2, SumUnfold
      <3>5. PICK c \in Nat, d \in Nat : c = f[x] /\ d = g[x] /\ w * d <= p * c
        BY <3>1
      <3>6. w * (d + b) <= p * (c + a)
        <4>1. w * (d + b) = w * d + w * b /\ p * (c + a) = p * c + p * a
          OBVIOUS
        <4>2. w * d \in Int /\ w * b \in Int /\ p * c \in Int /\ p * a \in Int
          OBVIOUS
        <4> QED BY <3>3, <3>5, <4>1, <4>2
      <3> QED BY <3>4, <3>5, <3>6
    <2> QED BY <2>2, <2>3
  <1>2. S \in Good
    <2>1. Good \in SUBSET SUBSET S
      OBVIOUS
    <2> HIDE DEF Good
    <2> QED BY <1>1, <2>1, SubsetInduction
  <1>3. PICK t \in Int : t = SumFunctionOnSet(g, S)
    BY <1>0
  <1>4. w * t <= p * w
    BY <1>2, <1>3
  <1>5. w * t <= w * p => t <= p
    OBVIOUS
  <1> QED BY <1>3, <1>4, <1>5

(* One part of a sum of non-negative values is at most the sum.                  *)
LEMMA SumBoundsPart ==
  ASSUME NEW S, IsFiniteSet(S), NEW f, \A x \in S : f[x] \in Nat, NEW x \in S
  PROVE  f[x] <= SumFunctionOnSet(f, S)
  <1> DEFINE r == S \ {x}
  <1>1. IsFiniteSet(r) /\ \A y \in r : f[y] \in Nat
    BY FS_Subset
  <1>2. SumFunctionOnSet(f, S) = f[x] + SumFunctionOnSet(f, r)
    BY SumRemove
  <1> HIDE DEF r
  <1>3. SumFunctionOnSet(f, r) \in Nat
    BY <1>1, SumNonNegative
  <1> QED BY <1>2, <1>3

(* As many ones as there are elements add up to their number.                     *)
LEMMA SumOfOnes ==
  ASSUME NEW S, IsFiniteSet(S), NEW f, \A x \in S : f[x] = 1
  PROVE  SumFunctionOnSet(f, S) = Cardinality(S)
  <1> DEFINE Good == {T \in SUBSET S : SumFunctionOnSet(f, T) = Cardinality(T)}
  <1>1. ASSUME NEW T \in SUBSET S, \A U \in SUBSET T : U # T => U \in Good
        PROVE  T \in Good
    <2>1. IsFiniteSet(T)
      BY FS_Subset
    <2>2. CASE T = {}
      BY <2>2, SumEmpty, FS_EmptySet
    <2>3. CASE T # {}
      <3> DEFINE x == Pick(T)
                 r == T \ {x}
      <3>1. x \in T /\ r \in SUBSET T /\ r # T
        BY <2>3, PickInSet
      <3>2. SumFunctionOnSet(f, r) = Cardinality(r)
        BY <1>1, <3>1
      <3>3. SumFunctionOnSet(f, T) = 1 + SumFunctionOnSet(f, r)
        BY <2>1, <2>3, <3>1, SumUnfold
      <3>4. Cardinality(r) = Cardinality(T) - 1 /\ Cardinality(T) \in Nat
        BY <2>1, <3>1, FS_RemoveElement, FS_CardinalityType
      <3> HIDE DEF r
      <3>5. SumFunctionOnSet(f, T) = Cardinality(T)
        BY <3>2, <3>3, <3>4
      <3> QED BY <3>5
    <2> QED BY <2>2, <2>3
  <1>2. S \in Good
    <2>1. Good \in SUBSET SUBSET S
      OBVIOUS
    <2> HIDE DEF Good
    <2> QED BY <1>1, <2>1, SubsetInduction
  <1> QED BY <1>2

(* Shares from below: if what each element gets is less than one short of its      *)
(* part of p, all of them together get p but for less than one for each that has    *)
(* a part of it.                                                                   *)
LEMMA SumOfRoundedShares ==
  ASSUME NEW S, IsFiniteSet(S), NEW f, NEW g, NEW p \in Nat, NEW w \in Nat, w > 0,
         w = SumFunctionOnSet(f, S),
         \A x \in S : f[x] \in Nat /\ g[x] \in Nat
                        /\ (f[x] > 0 => w * g[x] + w > p * f[x])
  PROVE  p - SumFunctionOnSet(g, S) < Cardinality({x \in S : f[x] > 0})
  <1> DEFINE P == {x \in S : f[x] > 0}
             e == [x \in S |-> IF x \in P THEN 1 ELSE 0]
             Good == {T \in SUBSET S :
               w * SumFunctionOnSet(g, T) + w * SumFunctionOnSet(e, T)
                 >= p * SumFunctionOnSet(f, T) + SumFunctionOnSet(e, T)}
  <1>0. ASSUME NEW T \in SUBSET S
        PROVE  /\ SumFunctionOnSet(f, T) \in Int /\ SumFunctionOnSet(g, T) \in Int
               /\ SumFunctionOnSet(e, T) \in Int
    <2>1. /\ IsFiniteSet(T)
          /\ \A x \in T : f[x] \in Int /\ g[x] \in Int /\ e[x] \in Int
      BY FS_Subset
    <2> HIDE DEF e
    <2> QED BY <2>1, SumType
  <1>1. ASSUME NEW T \in SUBSET S, \A U \in SUBSET T : U # T => U \in Good
        PROVE  T \in Good
    <2>1. IsFiniteSet(T)
      BY FS_Subset
    <2>2. CASE T = {}
      <3>1. /\ SumFunctionOnSet(g, T) = 0 /\ SumFunctionOnSet(f, T) = 0
            /\ SumFunctionOnSet(e, T) = 0
        <4> HIDE DEF e
        <4> QED BY <2>2, SumEmpty
      <3>2. w * 0 + w * 0 >= p * 0 + 0
        OBVIOUS
      <3> HIDE DEF e
      <3> QED BY <3>1, <3>2
    <2>3. CASE T # {}
      <3> DEFINE x == Pick(T)
                 r == T \ {x}
      <3>1. x \in S /\ r \in SUBSET T /\ r # T /\ r \in SUBSET S
        BY <2>3, PickInSet
      <3>2. PICK a \in Int, b \in Int, n \in Int :
              /\ a = SumFunctionOnSet(f, r) /\ b = SumFunctionOnSet(g, r)
              /\ n = SumFunctionOnSet(e, r)
        <4> HIDE DEF e, r
        <4> QED BY <1>0, <3>1
      <3>3. w * b + w * n >= p * a + n
        <4> HIDE DEF e, r
        <4> QED BY <1>1, <3>1, <3>2
      <3>4. /\ SumFunctionOnSet(f, T) = f[x] + a /\ SumFunctionOnSet(g, T) = g[x] + b
            /\ SumFunctionOnSet(e, T) = e[x] + n
        <4> HIDE DEF e
        <4> QED BY <2>1, <2>3, <3>2, SumUnfold
      <3>5. PICK c \in Nat, d \in Nat, i \in Nat :
              /\ c = f[x] /\ d = g[x] /\ i = e[x]
              /\ w * d + w * i >= p * c + i
        <4> HIDE DEF x
        <4>1. PICK c \in Nat, d \in Nat : c = f[x] /\ d = g[x]
          BY <3>1
        <4>2. c > 0 => w * d + w > p * c
          BY <3>1, <4>1
        <4>3. CASE c > 0
          <5>1. e[x] = 1
            BY <3>1, <4>1, <4>3
          <5>2. p * c \in Int /\ w * d \in Int /\ w * 1 = w
            OBVIOUS
          <5>3. w * d + w * 1 >= p * c + 1
            BY <4>2, <4>3, <5>2
          <5> HIDE DEF e
          <5> QED BY <4>1, <5>1, <5>3
        <4>4. CASE ~ (c > 0)
          <5>1. e[x] = 0
            BY <3>1, <4>1, <4>4
          <5>2. c = 0
            BY <4>4
          <5>3. w * d \in Nat /\ w * 0 = 0 /\ p * 0 = 0
            OBVIOUS
          <5>4. w * d + w * 0 >= p * c + 0
            BY <5>2, <5>3
          <5> HIDE DEF e
          <5> QED BY <4>1, <5>1, <5>4
        <4> HIDE DEF e
        <4> QED BY <4>3, <4>4
      <3>6. w * (d + b) + w * (i + n) >= p * (c + a) + (i + n)
        <4>1. /\ w * (d + b) = w * d + w * b /\ p * (c + a) = p * c + p * a
              /\ w * (i + n) = w * i + w * n
          OBVIOUS
        <4>2. PICK k1 \in Int, k2 \in Int, k3 \in Int, k4 \in Int, k5 \in Int, k6 \in Int :
                /\ k1 = w * d /\ k2 = w * b /\ k3 = p * c /\ k4 = p * a
                /\ k5 = w * i /\ k6 = w * n
          OBVIOUS
        <4>3. k2 + k6 >= k4 + n /\ k1 + k5 >= k3 + i
          BY <3>3, <3>5, <4>2
        <4>4. (k1 + k2) + (k5 + k6) >= (k3 + k4) + (i + n)
          BY <4>3
        <4> QED BY <4>1, <4>2, <4>4
      <3> HIDE DEF e, x
      <3> QED BY <3>4, <3>5, <3>6
    <2> QED BY <2>2, <2>3
  <1>2. S \in Good
    <2>1. Good \in SUBSET SUBSET S
      OBVIOUS
    <2> HIDE DEF Good
    <2> QED BY <1>1, <2>1, SubsetInduction
  <1>3. SumFunctionOnSet(e, S) = Cardinality(P)
    <2> DEFINE ones == [x \in S |-> 1]
    <2>1. IsFiniteSet(P) /\ P \in SUBSET S
      BY FS_Subset
    <2>2. /\ \A x \in P : ones[x] = 1 /\ ones[x] \in Int /\ e[x] = ones[x]
          /\ \A x \in S \ P : e[x] = 0
      OBVIOUS
    <2> HIDE DEF e, ones, P
    <2>3. SumFunctionOnSet(e, S) = SumFunctionOnSet(ones, P)
      BY <2>1, <2>2, SumRestrict
    <2>4. SumFunctionOnSet(ones, P) = Cardinality(P)
      BY <2>1, <2>2, SumOfOnes
    <2> QED BY <2>3, <2>4
  <1>4. PICK n \in Nat : n = Cardinality(P)
    BY FS_Subset, FS_CardinalityType
  <1>5. n > 0
    <2> SUFFICES ASSUME n = 0 PROVE FALSE
      BY <1>4
    <2>1. P = {}
      BY <1>4, FS_Subset, FS_EmptySet
    <2>2. \A x \in S : f[x] = 0
      BY <2>1
    <2> QED BY <2>2, SumOfZeros
  <1>6. PICK t \in Int : t = SumFunctionOnSet(g, S)
    BY <1>0
  <1>7. w * t + w * n >= p * w + n
    <2> HIDE DEF e
    <2> QED BY <1>2, <1>3, <1>4, <1>6
  <1>8. w * (t + n) > w * p
    <2>1. w * (t + n) = w * t + w * n /\ w * p = p * w /\ w * t \in Int /\ w * n \in Int
          /\ p * w \in Int
      OBVIOUS
    <2> QED BY <1>5, <1>7, <2>1
  <1>9. t + n > p
    BY <1>8
  <1> QED BY <1>4, <1>6, <1>9
=============================================================================
