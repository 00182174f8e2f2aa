---------------------------- MODULE SumTheorems ----------------------------
(***************************************************************************)
(* Facts about SumFunctionOnSet, the sum of f[x] over a finite set: what   *)
(* the models need of it to account for money, inventory and exposure.     *)
(* The fold behind it is a recursive function on sets.  Induction is over  *)
(* the size of a set and by the least counterexample, which is stated of   *)
(* a set of numbers or of sets and so needs no operator as a parameter.    *)
(***************************************************************************)
EXTENDS FiniteSetsExt, FiniteSetTheorems, WellFoundedInduction, TLAPS

---------------------------------------------------------------------------
(* Induction over sets.                                                    *)

\* A non-empty set of naturals has a least element.
LEMMA LeastExists ==
  ASSUME NEW S, S \subseteq Nat, S # {}
  PROVE  \E x \in S : \A y \in S : x <= y
<1> DEFINE R == OpToRel(<, Nat)
<1>1. PICK x \in S : \A y \in S : ~(<<y, x>> \in R)
  BY NatLessThanWellFounded, WFMin
<1>2. \A y \in Nat, z \in Nat : y < z => <<y, z>> \in R
  BY DEF OpToRel
<1>3. \A y \in S : ~(y < x)
  <2> HIDE DEF R
  <2> QED BY <1>1, <1>2
<1> QED
  BY <1>3

\* Numbers that hold zero and with each number the next are all numbers.
LEMMA NatBySteps ==
  ASSUME NEW G, 0 \in G, \A n \in Nat : n \in G => n + 1 \in G
  PROVE  Nat \subseteq G
<1> DEFINE B == Nat \ G
<1> SUFFICES ASSUME B # {} PROVE FALSE
  OBVIOUS
<1>1. PICK m \in B : \A y \in B : m <= y
  BY LeastExists
<1>2. m \in Nat /\ m # 0 /\ m - 1 \notin B
  BY <1>1
<1>3. m - 1 \in Nat /\ (m - 1) + 1 = m
  BY <1>2
<1> QED
  BY <1>1, <1>2, <1>3

\* Sets that hold a subset of S whenever they hold its proper subsets hold S.
LEMMA SetInduction ==
  ASSUME NEW S, IsFiniteSet(S), NEW G,
         \A s \in SUBSET S : (\A t \in SUBSET s : t # s => t \in G) => s \in G
  PROVE  S \in G
<1> DEFINE B == (SUBSET S) \ G
           N == {Cardinality(s) : s \in B}
<1> SUFFICES ASSUME S \notin G PROVE FALSE
  OBVIOUS
<1>1. \A s \in SUBSET S : IsFiniteSet(s) /\ Cardinality(s) \in Nat
  BY FS_Subset, FS_CardinalityType
<1>2. PICK s \in B : \A t \in B : Cardinality(s) <= Cardinality(t)
  <2>1. N \subseteq Nat /\ N # {}
    BY <1>1
  <2>2. PICK m \in N : \A n \in N : m <= n
    <3> HIDE DEF N
    <3> QED BY <2>1, LeastExists
  <2> QED
    BY <2>2
<1>3. ASSUME NEW t \in SUBSET s, t # s
      PROVE  t \in G
  <2>1. t \in SUBSET S /\ IsFiniteSet(s)
    BY <1>1
  <2>2. Cardinality(t) <= Cardinality(s) /\ Cardinality(t) # Cardinality(s)
    BY <1>3, <2>1, FS_Subset
  <2> QED
    BY <1>1, <1>2, <2>1, <2>2
<1> QED
  BY <1>2, <1>3

---------------------------------------------------------------------------
(* The recursion is well-founded.                                          *)

First(s) == CHOOSE x \in s : TRUE

\* One unfolding of the sum of f over s.
Step(f, it, s) == IF s = {} THEN 0 ELSE f[First(s)] + it[s \ {First(s)}]

\* The function it sums f over each of the sets in D.
Sums(f, it, D) == it = [s \in D |-> Step(f, it, s)]

LEMMA FirstIsMember ==
  ASSUME NEW s, s # {}
  PROVE  First(s) \in s
BY DEF First

\* The subsets of S with at most n elements.
UpTo(S, n) == {s \in SUBSET S : Cardinality(s) <= n}

LEMMA SubsetFinite ==
  ASSUME NEW S, IsFiniteSet(S), NEW s \in SUBSET S
  PROVE  /\ IsFiniteSet(s) /\ Cardinality(s) \in Nat
         /\ Cardinality(s) <= Cardinality(S)
         /\ s # {} => /\ Cardinality(s \ {First(s)}) = Cardinality(s) - 1
                      /\ Cardinality(s) > 0
BY FS_Subset, FS_CardinalityType, FS_RemoveElement, FS_EmptySet, FirstIsMember

LEMMA SumsExist ==
  ASSUME NEW f, NEW S, IsFiniteSet(S)
  PROVE  \E it : Sums(f, it, SUBSET S)
<1> DEFINE G == {n \in Nat : \E it : Sums(f, it, UpTo(S, n))}
<1>1. 0 \in G
  <2> DEFINE it == [s \in UpTo(S, 0) |-> 0]
  <2>1. \A s \in UpTo(S, 0) : s = {}
    <3> SUFFICES ASSUME NEW s \in UpTo(S, 0) PROVE s = {}
      OBVIOUS
    <3>1. s \in SUBSET S /\ Cardinality(s) <= 0
      BY DEF UpTo
    <3>2. IsFiniteSet(s) /\ Cardinality(s) \in Nat
      BY <3>1, SubsetFinite
    <3>3. Cardinality(s) = 0
      BY <3>1, <3>2
    <3> QED
      BY <3>2, <3>3, FS_EmptySet
  <2>2. Sums(f, it, UpTo(S, 0))
    BY <2>1 DEF Sums, Step
  <2> QED
    BY <2>2
<1>2. ASSUME NEW n \in Nat, n \in G
      PROVE  n + 1 \in G
  <2>1. PICK it : Sums(f, it, UpTo(S, n))
    BY <1>2
  <2> DEFINE next == [s \in UpTo(S, n + 1) |-> Step(f, it, s)]
  <2>2. ASSUME NEW s \in UpTo(S, n + 1), s # {}
        PROVE  s \ {First(s)} \in UpTo(S, n)
    BY <2>2, SubsetFinite DEF UpTo
  <2>3. UpTo(S, n) \subseteq UpTo(S, n + 1)
    <3>1. \A s \in SUBSET S : Cardinality(s) \in Nat
      BY SubsetFinite
    <3> QED
      BY <3>1 DEF UpTo
  <2>4. ASSUME NEW s \in UpTo(S, n) PROVE next[s] = it[s]
    BY <2>1, <2>3 DEF Sums
  <2>5. ASSUME NEW s \in UpTo(S, n + 1)
        PROVE  Step(f, it, s) = Step(f, next, s)
    BY <2>2, <2>4 DEF Step
  <2>6. Sums(f, next, UpTo(S, n + 1))
    BY <2>5 DEF Sums
  <2> QED
    BY <2>6
<1>3. Cardinality(S) \in G
  <2> HIDE DEF G
  <2> QED BY <1>1, <1>2, NatBySteps, FS_CardinalityType
<1>4. UpTo(S, Cardinality(S)) = SUBSET S
  BY SubsetFinite DEF UpTo
<1> QED
  BY <1>3, <1>4

\* The function the fold chooses is such a function.
LEMMA SumIsStep ==
  ASSUME NEW f, NEW S, IsFiniteSet(S)
  PROVE  \E it : /\ Sums(f, it, SUBSET S)
                 /\ SumFunctionOnSet(f, S) = it[S]
<1> DEFINE it == CHOOSE g : g = [s \in SUBSET S |-> Step(f, g, s)]
<1>1. it = [s \in SUBSET S |-> Step(f, it, s)]
  BY SumsExist DEF Sums
<1>2. SumFunctionOnSet(f, S) = it[S]
  BY DEF SumFunctionOnSet, FoldFunctionOnSet, MapThenFoldSet, Step, First
<1> QED
  BY <1>1, <1>2 DEF Sums

\* Two such functions agree where both are defined, whatever sets they are
\* defined on.
LEMMA SumsAgree ==
  ASSUME NEW f, NEW S, IsFiniteSet(S), NEW T \in SUBSET S, NEW g, NEW h,
         Sums(f, g, SUBSET S), Sums(f, h, SUBSET T)
  PROVE  g[T] = h[T]
<1> DEFINE G == {s \in SUBSET T : g[s] = h[s]}
<1>1. ASSUME NEW s \in SUBSET T, \A t \in SUBSET s : t # s => t \in G
      PROVE  s \in G
  <2>1. s \in SUBSET S /\ g[s] = Step(f, g, s) /\ h[s] = Step(f, h, s)
    BY DEF Sums
  <2>2. CASE s = {}
    BY <2>1, <2>2 DEF Step
  <2>3. CASE s # {}
    <3>1. g[s \ {First(s)}] = h[s \ {First(s)}]
      BY <1>1, <2>3, FirstIsMember
    <3> QED
      BY <2>1, <2>3, <3>1 DEF Step
  <2> QED
    BY <2>2, <2>3
<1>2. T \in G
  <2>1. IsFiniteSet(T)
    BY FS_Subset
  <2> HIDE DEF G
  <2> QED BY <1>1, <2>1, SetInduction
<1> QED
  BY <1>2

---------------------------------------------------------------------------
(* Sums.                                                                   *)

LEMMA SumEmpty ==
  ASSUME NEW f
  PROVE  SumFunctionOnSet(f, {}) = 0
<1>1. PICK it : /\ Sums(f, it, SUBSET {})
                /\ SumFunctionOnSet(f, {}) = it[{}]
  BY SumIsStep, FS_EmptySet
<1> QED
  BY <1>1 DEF Sums, Step

\* The defining equation: the first element and the sum of the others.
LEMMA SumUnfolds ==
  ASSUME NEW f, NEW S, IsFiniteSet(S), S # {}
  PROVE  SumFunctionOnSet(f, S)
           = f[First(S)] + SumFunctionOnSet(f, S \ {First(S)})
<1> DEFINE T == S \ {First(S)}
<1>1. PICK g : Sums(f, g, SUBSET S) /\ SumFunctionOnSet(f, S) = g[S]
  BY SumIsStep
<1>2. IsFiniteSet(T) /\ T \in SUBSET S
  BY FS_RemoveElement
<1>3. PICK h : Sums(f, h, SUBSET T) /\ SumFunctionOnSet(f, T) = h[T]
  BY <1>2, SumIsStep
<1>4. g[T] = h[T]
  <2> HIDE DEF T
  <2> QED BY <1>1, <1>2, <1>3, SumsAgree
<1>5. g[S] = f[First(S)] + g[T]
  BY <1>1 DEF Sums, Step
<1> QED
  BY <1>1, <1>3, <1>4, <1>5

\* A sum of integers is one.
LEMMA SumTyped ==
  ASSUME NEW S, IsFiniteSet(S), NEW f, \A x \in S : f[x] \in Int
  PROVE  SumFunctionOnSet(f, S) \in Int
<1> DEFINE G == {s \in SUBSET S : SumFunctionOnSet(f, s) \in Int}
<1>1. ASSUME NEW s \in SUBSET S, \A t \in SUBSET s : t # s => t \in G
      PROVE  s \in G
  <2>1. CASE s = {}
    BY <2>1, SumEmpty
  <2>2. CASE s # {}
    <3>1. IsFiniteSet(s) /\ f[First(s)] \in Int
      BY <2>2, FS_Subset, FirstIsMember
    <3>2. SumFunctionOnSet(f, s \ {First(s)}) \in Int
      BY <1>1, <2>2, FirstIsMember
    <3> QED
      BY <2>2, <3>1, <3>2, SumUnfolds
  <2> QED
    BY <2>1, <2>2
<1>2. S \in G
  <2> HIDE DEF G
  <2> QED BY <1>1, SetInduction
<1> QED
  BY <1>2

\* Any element may be taken first, since addition does not mind the order.
LEMMA SumTakes ==
  ASSUME NEW S, IsFiniteSet(S), NEW f, \A x \in S : f[x] \in Int, NEW a \in S
  PROVE  SumFunctionOnSet(f, S) = f[a] + SumFunctionOnSet(f, S \ {a})
<1> DEFINE Total(s) == SumFunctionOnSet(f, s)
           G == {s \in SUBSET S : \A x \in s : Total(s) = f[x] + Total(s \ {x})}
<1>1. ASSUME NEW s \in SUBSET S, \A t \in SUBSET s : t # s => t \in G
      PROVE  s \in G
  <2> SUFFICES ASSUME NEW x \in s PROVE Total(s) = f[x] + Total(s \ {x})
    OBVIOUS
  <2> DEFINE y == First(s)
             rest == s \ {x, y}
  <2>1. IsFiniteSet(s) /\ y \in s /\ Total(s) = f[y] + Total(s \ {y})
    BY FS_Subset, FirstIsMember, SumUnfolds
  <2>2. CASE x = y
    BY <2>1, <2>2
  <2>3. CASE x # y
    <3>1. /\ s \ {x} \in SUBSET s /\ s \ {x} # s /\ y \in s \ {x}
          /\ s \ {y} \in SUBSET s /\ s \ {y} # s /\ x \in s \ {y}
          /\ (s \ {x}) \ {y} = rest /\ (s \ {y}) \ {x} = rest
      BY <2>1, <2>3
    <3>2. Total(s \ {x}) = f[y] + Total(rest)
      <4> HIDE DEF Total, y, rest
      <4> QED BY <1>1, <3>1
    <3>3. Total(s \ {y}) = f[x] + Total(rest)
      <4> HIDE DEF Total, y, rest
      <4> QED BY <1>1, <3>1
    <3>4. Total(rest) \in Int /\ f[x] \in Int /\ f[y] \in Int
      <4>1. rest \in SUBSET S /\ y \in S
        BY <2>1
      <4>2. IsFiniteSet(rest)
        BY <4>1, FS_Subset
      <4> HIDE DEF rest
      <4> QED BY <4>1, <4>2, SumTyped
    <3> HIDE DEF Total, rest, y
    <3> QED BY <2>1, <3>2, <3>3, <3>4
  <2> QED
    BY <2>2, <2>3
<1>2. S \in G
  <2> HIDE DEF G
  <2> QED BY <1>1, SetInduction
<1> QED
  BY <1>2

\* One element more.
LEMMA SumAdds ==
  ASSUME NEW S, IsFiniteSet(S), NEW f, \A x \in S : f[x] \in Int,
         NEW a, a \notin S, f[a] \in Int
  PROVE  SumFunctionOnSet(f, S \union {a}) = SumFunctionOnSet(f, S) + f[a]
<1> DEFINE T == S \union {a}
<1>1. /\ IsFiniteSet(T) /\ a \in T /\ T \ {a} = S
      /\ \A x \in T : f[x] \in Int
  BY FS_AddElement
<1>2. SumFunctionOnSet(f, T) = f[a] + SumFunctionOnSet(f, S)
  <2> HIDE DEF T
  <2> QED BY <1>1, SumTakes
<1>3. SumFunctionOnSet(f, S) \in Int
  BY SumTyped
<1> HIDE DEF T
<1>4. SumFunctionOnSet(f, T) = SumFunctionOnSet(f, S) + f[a]
  BY <1>2, <1>3
<1> QED
  BY <1>4 DEF T

\* A sum depends on the values of its elements and on nothing else.
LEMMA SumCongruent ==
  ASSUME NEW S, IsFiniteSet(S), NEW f, NEW g, \A x \in S : f[x] = g[x]
  PROVE  SumFunctionOnSet(f, S) = SumFunctionOnSet(g, S)
<1> DEFINE G == {s \in SUBSET S : SumFunctionOnSet(f, s) = SumFunctionOnSet(g, s)}
<1>1. ASSUME NEW s \in SUBSET S, \A t \in SUBSET s : t # s => t \in G
      PROVE  s \in G
  <2>1. CASE s = {}
    BY <2>1, SumEmpty
  <2>2. CASE s # {}
    <3>1. IsFiniteSet(s) /\ f[First(s)] = g[First(s)]
      BY <2>2, FS_Subset, FirstIsMember
    <3>2. SumFunctionOnSet(f, s \ {First(s)}) = SumFunctionOnSet(g, s \ {First(s)})
      BY <1>1, <2>2, FirstIsMember
    <3> QED
      BY <2>2, <3>1, <3>2, SumUnfolds
  <2> QED
    BY <2>1, <2>2
<1>2. S \in G
  <2> HIDE DEF G
  <2> QED BY <1>1, SetInduction
<1> QED
  BY <1>2

---------------------------------------------------------------------------
(* The same of SumFunction, the sum of all values of a function.           *)

LEMMA FcnSumEmpty ==
  ASSUME NEW f, DOMAIN f = {}
  PROVE  SumFunction(f) = 0
BY SumEmpty DEF SumFunction

LEMMA FcnSumTyped ==
  ASSUME NEW S, IsFiniteSet(S), NEW f \in [S -> Int]
  PROVE  SumFunction(f) \in Int
BY SumTyped DEF SumFunction

\* f has one argument more than g.
LEMMA FcnSumAdds ==
  ASSUME NEW S, IsFiniteSet(S), NEW a, a \notin S,
         NEW f \in [S \union {a} -> Int], NEW g \in [S -> Int],
         \A x \in S : f[x] = g[x]
  PROVE  SumFunction(f) = SumFunction(g) + f[a]
<1>1. SumFunctionOnSet(f, S \union {a}) = SumFunctionOnSet(f, S) + f[a]
  BY SumAdds
<1>2. SumFunctionOnSet(f, S) = SumFunctionOnSet(g, S)
  BY SumCongruent
<1> QED
  BY <1>1, <1>2 DEF SumFunction

\* Of two functions the one with the larger values has the larger sum.
LEMMA FcnSumMonotone ==
  ASSUME NEW S, IsFiniteSet(S), NEW f \in [S -> Int], NEW g \in [S -> Int],
         \A x \in S : f[x] <= g[x]
  PROVE  SumFunction(f) <= SumFunction(g)
<1> DEFINE G == {s \in SUBSET S : SumFunctionOnSet(f, s) <= SumFunctionOnSet(g, s)}
<1>1. ASSUME NEW s \in SUBSET S, \A t \in SUBSET s : t # s => t \in G
      PROVE  s \in G
  <2>1. CASE s = {}
    BY <2>1, SumEmpty
  <2>2. CASE s # {}
    <3> DEFINE t == s \ {First(s)}
    <3>1. IsFiniteSet(s) /\ First(s) \in s /\ IsFiniteSet(t)
      BY <2>2, FS_Subset, FirstIsMember
    <3>2. SumFunctionOnSet(f, t) <= SumFunctionOnSet(g, t)
      BY <1>1, <3>1
    <3>3. /\ SumFunctionOnSet(f, t) \in Int /\ SumFunctionOnSet(g, t) \in Int
          /\ f[First(s)] \in Int /\ g[First(s)] \in Int
      BY <3>1, SumTyped
    <3>4. /\ SumFunctionOnSet(f, s) = f[First(s)] + SumFunctionOnSet(f, t)
          /\ SumFunctionOnSet(g, s) = g[First(s)] + SumFunctionOnSet(g, t)
      BY <2>2, <3>1, SumUnfolds
    <3>5. f[First(s)] <= g[First(s)]
      BY <3>1
    <3> HIDE DEF t
    <3> QED
      BY <3>2, <3>3, <3>4, <3>5
  <2> QED
    BY <2>1, <2>2
<1>2. S \in G
  <2> HIDE DEF G
  <2> QED BY <1>1, SetInduction
<1> QED
  BY <1>2 DEF SumFunction
=============================================================================
