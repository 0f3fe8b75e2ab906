----------------------------- MODULE SumTheorems -----------------------------
(***************************************************************************)
(* Sums of requests: what SumFunction of the community modules computes    *)
(* for a function with a finite domain.  The fold it is defined by chooses *)
(* the elements in an order of its own; the lemmas show that the order     *)
(* does not matter, so that a total can be kept up to date one pod at a    *)
(* time.                                                                   *)
(***************************************************************************)
EXTENDS Integers, Functions, FiniteSetTheorems, TLAPS

-----------------------------------------------------------------------------
(* Induction over the subsets of a finite set, in a form without operator  *)
(* parameters.                                                             *)

\* A set that contains 0 and with every number its successor contains the naturals.
LEMMA NatSetInduction ==
    ASSUME NEW A, 0 \in A, \A n \in Nat : n \in A => n + 1 \in A
    PROVE  \A n \in Nat : n \in A
<1> DEFINE B == {n \in Nat : n \notin A}
           R == OpToRel(<, Nat)
<1>1. SUFFICES ASSUME B # {} PROVE FALSE
  OBVIOUS
<1>2. PICK n \in B : \A m \in B : ~(<<m, n>> \in R)
  <2>1. B \subseteq Nat
    OBVIOUS
  <2> HIDE DEF B, R
  <2> QED
    BY <1>1, <2>1, WFMin, NatLessThanWellFounded DEF R
<1>3. n \in Nat /\ n # 0
  BY <1>2
<1>3a. n - 1 \in Nat /\ (n - 1) + 1 = n
  BY <1>3
<1>4. n - 1 \in B
  BY <1>2, <1>3, <1>3a
<1>5. <<n - 1, n>> \in R
  BY <1>3, <1>3a DEF OpToRel
<1> QED
  BY <1>2, <1>4, <1>5

\* A collection that contains a subset whenever it contains the subset without any one
\* of its elements contains every subset of a finite set.
LEMMA SubsetInduction ==
    ASSUME NEW S, IsFiniteSet(S), NEW A,
           \A T \in SUBSET S : (\A x \in T : T \ {x} \in A) => T \in A
    PROVE  \A T \in SUBSET S : T \in A
<1> DEFINE B == {n \in Nat : \A T \in SUBSET S : Cardinality(T) = n => T \in A}
<1>1. ASSUME NEW T \in SUBSET S
      PROVE  IsFiniteSet(T) /\ Cardinality(T) \in Nat
  BY FS_Subset, FS_CardinalityType
<1>2. 0 \in B
  <2>1. ASSUME NEW T \in SUBSET S, Cardinality(T) = 0
        PROVE  T \in A
    BY <1>1, <2>1, FS_EmptySet
  <2> QED
    BY <2>1
<1>3. ASSUME NEW n \in Nat, n \in B
      PROVE  n + 1 \in B
  <2>1. ASSUME NEW T \in SUBSET S, Cardinality(T) = n + 1, NEW x \in T
        PROVE  T \ {x} \in A
    <3>1. Cardinality(T \ {x}) = n
      BY <1>1, <2>1, FS_RemoveElement
    <3> QED
      BY <1>3, <3>1
  <2>2. \A T \in SUBSET S : Cardinality(T) = n + 1 => T \in A
    BY <2>1
  <2> QED
    BY <2>2
<1>4. \A n \in Nat : n \in B
  <2> HIDE DEF B
  <2> QED
    BY <1>2, <1>3, NatSetInduction
<1> QED
  BY <1>1, <1>4

-----------------------------------------------------------------------------
(* The fold.                                                               *)

Pick(s) == CHOOSE x \in s : TRUE

\* g is the partial sums of f over the subsets of S.
IsSum(g, f, S) ==
    g = [s \in SUBSET S |-> IF s = {} THEN 0 ELSE f[Pick(s)] + g[s \ {Pick(s)}]]

\* The same, with its type.
IsIntSum(g, f, S) == g \in [SUBSET S -> Int] /\ IsSum(g, f, S)

\* The chosen element is one of the set.
LEMMA PickIn == \A s : s # {} => Pick(s) \in s
BY DEF Pick

\* What IsSum says of one subset.
LEMMA SumAt ==
    ASSUME NEW g, NEW f, NEW S, IsSum(g, f, S), NEW s \in SUBSET S
    PROVE  g[s] = IF s = {} THEN 0 ELSE f[Pick(s)] + g[s \ {Pick(s)}]
<1> DEFINE h == [t \in SUBSET S |-> IF t = {} THEN 0 ELSE f[Pick(t)] + g[t \ {Pick(t)}]]
<1>1. g = h
  BY DEF IsSum
<1>2. h[s] = IF s = {} THEN 0 ELSE f[Pick(s)] + g[s \ {Pick(s)}]
  OBVIOUS
<1> HIDE DEF h
<1> QED
  BY <1>1, <1>2

\* A function on a finite set has partial sums.
LEMMA SumExists ==
    ASSUME NEW S, IsFiniteSet(S), NEW f, \A x \in S : f[x] \in Int
    PROVE  \E g \in [SUBSET S -> Int] : IsSum(g, f, S)
<1> DEFINE Step(g, s) == IF s = {} THEN 0 ELSE f[Pick(s)] + g[s \ {Pick(s)}]
           UpTo(g, n) == \A s \in SUBSET S : Cardinality(s) <= n => g[s] = Step(g, s)
           A == {n \in Nat : \E g \in [SUBSET S -> Int] : UpTo(g, n)}
<1>1. ASSUME NEW s \in SUBSET S
      PROVE  /\ IsFiniteSet(s) /\ Cardinality(s) \in Nat
             /\ Cardinality(s) = 0 <=> s = {}
             /\ Cardinality(s) <= Cardinality(S)
  BY FS_Subset, FS_CardinalityType, FS_EmptySet
<1>2. ASSUME NEW s \in SUBSET S, s # {}
      PROVE  /\ Pick(s) \in s
             /\ s \ {Pick(s)} \in SUBSET S
             /\ Cardinality(s \ {Pick(s)}) = Cardinality(s) - 1
  BY <1>1, <1>2, PickIn, FS_RemoveElement
<1>3. 0 \in A
  <2> DEFINE g == [s \in SUBSET S |-> 0]
  <2>1. g \in [SUBSET S -> Int]
    OBVIOUS
  <2>2. ASSUME NEW s \in SUBSET S, Cardinality(s) <= 0
        PROVE  g[s] = Step(g, s)
    BY <1>1, <2>2
  <2> HIDE DEF g
  <2>3. UpTo(g, 0)
    BY <2>2
  <2> QED
    BY <2>1, <2>3
<1>4. ASSUME NEW n \in Nat, n \in A
      PROVE  n + 1 \in A
  <2>1. PICK g \in [SUBSET S -> Int] : UpTo(g, n)
    BY <1>4
  <2> DEFINE h == [s \in SUBSET S |-> IF Cardinality(s) = n + 1 THEN Step(g, s) ELSE g[s]]
  <2>2. ASSUME NEW s \in SUBSET S
        PROVE  Step(g, s) \in Int
    <3>1. CASE s = {}
      BY <3>1
    <3>2. CASE s # {}
      <4>1. Pick(s) \in S /\ s \ {Pick(s)} \in SUBSET S
        BY <1>2, <3>2
      <4>2. f[Pick(s)] \in Int /\ g[s \ {Pick(s)}] \in Int
        BY <4>1
      <4> QED
        BY <3>2, <4>2
    <3> QED
      BY <3>1, <3>2
  <2>3. h \in [SUBSET S -> Int]
    BY <2>2
  <2>4. ASSUME NEW s \in SUBSET S
        PROVE  h[s] = IF Cardinality(s) = n + 1 THEN Step(g, s) ELSE g[s]
    OBVIOUS
  <2> HIDE DEF h
  <2>5. ASSUME NEW s \in SUBSET S, Cardinality(s) <= n + 1
        PROVE  h[s] = Step(h, s)
    <3>1. h[s] = Step(g, s)
      BY <1>1, <2>1, <2>4, <2>5
    <3>2. CASE s = {}
      BY <3>1, <3>2
    <3>3. CASE s # {}
      <4>1. h[s \ {Pick(s)}] = g[s \ {Pick(s)}]
        <5>1. Cardinality(s) \in Nat
          BY <1>1
        <5>2. s \ {Pick(s)} \in SUBSET S /\ Cardinality(s \ {Pick(s)}) = Cardinality(s) - 1
          BY <1>2, <3>3
        <5>3. Cardinality(s \ {Pick(s)}) # n + 1
          BY <2>5, <5>1, <5>2
        <5> QED
          BY <2>4, <5>2, <5>3
      <4> QED
        BY <3>1, <3>3, <4>1
    <3> QED
      BY <3>2, <3>3
  <2>6. UpTo(h, n + 1)
    BY <2>5
  <2> HIDE DEF UpTo
  <2> QED
    BY <2>3, <2>6
<1>5. Cardinality(S) \in A
  <2> HIDE DEF A
  <2> QED
    BY <1>3, <1>4, NatSetInduction, FS_CardinalityType
<1>6. PICK g \in [SUBSET S -> Int] : UpTo(g, Cardinality(S))
  BY <1>5
<1>7. \A s \in SUBSET S : g[s] = Step(g, s)
  BY <1>1, <1>6
<1>8. g = [s \in SUBSET S |-> Step(g, s)]
  BY <1>7
<1> QED
  BY <1>8 DEF IsSum

\* Partial sums of two functions agree on the sets the functions agree on.
LEMMA SumUnique ==
    ASSUME NEW S1, NEW S2, NEW f1, NEW f2, NEW g1, NEW g2,
           IsSum(g1, f1, S1), IsSum(g2, f2, S2),
           NEW T, IsFiniteSet(T), T \subseteq S1, T \subseteq S2,
           \A x \in T : f1[x] = f2[x]
    PROVE  g1[T] = g2[T]
<1> DEFINE A == {s \in SUBSET T : g1[s] = g2[s]}
<1>1. ASSUME NEW s \in SUBSET T, \A x \in s : s \ {x} \in A
      PROVE  s \in A
  <2>1. /\ g1[s] = IF s = {} THEN 0 ELSE f1[Pick(s)] + g1[s \ {Pick(s)}]
        /\ g2[s] = IF s = {} THEN 0 ELSE f2[Pick(s)] + g2[s \ {Pick(s)}]
    <3>1. s \in SUBSET S1 /\ s \in SUBSET S2
      OBVIOUS
    <3>2. g1[s] = IF s = {} THEN 0 ELSE f1[Pick(s)] + g1[s \ {Pick(s)}]
      BY <3>1, SumAt
    <3>3. g2[s] = IF s = {} THEN 0 ELSE f2[Pick(s)] + g2[s \ {Pick(s)}]
      BY <3>1, SumAt
    <3> QED
      BY <3>2, <3>3
  <2>2. CASE s = {}
    BY <2>1, <2>2
  <2>3. CASE s # {}
    <3>1. Pick(s) \in s
      BY <2>3, PickIn
    <3>2. f1[Pick(s)] = f2[Pick(s)] /\ g1[s \ {Pick(s)}] = g2[s \ {Pick(s)}]
      BY <1>1, <3>1
    <3> QED
      BY <2>1, <2>3, <3>2
  <2> QED
    BY <2>2, <2>3
<1>2. \A s \in SUBSET T : s \in A
  <2> HIDE DEF A
  <2> QED
    BY <1>1, SubsetInduction
<1> QED
  BY <1>2

\* The order of the elements does not matter: any one of them can be added last.
LEMMA SumAnyOrder ==
    ASSUME NEW S, IsFiniteSet(S), NEW f, \A x \in S : f[x] \in Int,
           NEW g, IsIntSum(g, f, S), NEW y \in S
    PROVE  g[S] = f[y] + g[S \ {y}]
<1>0. g \in [SUBSET S -> Int] /\ IsSum(g, f, S)
  BY DEF IsIntSum
<1> DEFINE A == {s \in SUBSET S : \A x \in s : g[s] = f[x] + g[s \ {x}]}
<1>1. ASSUME NEW s \in SUBSET S, \A x \in s : s \ {x} \in A, NEW x \in s
      PROVE  g[s] = f[x] + g[s \ {x}]
  <2> DEFINE z == Pick(s)
  <2>1. z \in s /\ g[s] = f[z] + g[s \ {z}]
    BY <1>0, PickIn, SumAt
  <2> HIDE DEF z
  <2>2. CASE x = z
    BY <2>1, <2>2
  <2>3. CASE x # z
    <3>1. g[s \ {z}] = f[x] + g[(s \ {z}) \ {x}]
      BY <1>1, <2>1, <2>3
    <3>2. g[s \ {x}] = f[z] + g[(s \ {x}) \ {z}]
      BY <1>1, <2>1, <2>3
    <3>3. (s \ {x}) \ {z} = (s \ {z}) \ {x}
      OBVIOUS
    <3>4. (s \ {x}) \ {z} \in SUBSET S /\ x \in S /\ z \in S
      BY <2>1
    <3>5. g[(s \ {x}) \ {z}] \in Int /\ f[x] \in Int /\ f[z] \in Int
      BY <1>0, <3>4
    <3> QED
      <4>1. g[s] = f[z] + (f[x] + g[(s \ {x}) \ {z}])
        BY <2>1, <3>1, <3>3
      <4>2. f[x] + g[s \ {x}] = f[x] + (f[z] + g[(s \ {x}) \ {z}])
        BY <3>2
      <4> QED
        BY <3>5, <4>1, <4>2
  <2> QED
    BY <2>2, <2>3
<1>2. \A s \in SUBSET S : (\A x \in s : s \ {x} \in A) => s \in A
  BY <1>1
<1>3. \A s \in SUBSET S : s \in A
  <2> HIDE DEF A
  <2> QED
    BY <1>2, SubsetInduction
<1> QED
  BY <1>3

-----------------------------------------------------------------------------
(* SumFunction.                                                            *)

\* SumFunction is the last of the partial sums.
LEMMA SumFunctionIs ==
    ASSUME NEW f, IsFiniteSet(DOMAIN f), \A x \in DOMAIN f : f[x] \in Int
    PROVE  \E g \in [SUBSET DOMAIN f -> Int] :
              IsSum(g, f, DOMAIN f) /\ SumFunction(f) = g[DOMAIN f]
<1> DEFINE S == DOMAIN f
<1>1. PICK h \in [SUBSET S -> Int] : IsSum(h, f, S)
  BY SumExists
<1> DEFINE g == CHOOSE k : IsSum(k, f, S)
<1>2. IsSum(g, f, S)
  BY <1>1
<1>3. SumFunction(f) = g[S]
  BY Zenon DEF SumFunction, SumFunctionOnSet, FoldFunctionOnSet, MapThenFoldSet, IsSum, Pick
<1> HIDE DEF g
<1>4. ASSUME NEW s \in SUBSET S
      PROVE  g[s] = h[s]
  <2>1. IsFiniteSet(s)
    BY FS_Subset
  <2> HIDE DEF S
  <2> QED
    BY <1>1, <1>2, <2>1, SumUnique
<1>5. g \in [SUBSET S -> Int]
  <2>1. g = [s \in SUBSET S |-> IF s = {} THEN 0 ELSE f[Pick(s)] + g[s \ {Pick(s)}]]
    BY <1>2 DEF IsSum
  <2>2. DOMAIN g = SUBSET S /\ g = [s \in SUBSET S |-> g[s]]
    BY <2>1
  <2> HIDE DEF S
  <2> QED
    BY <1>1, <1>4, <2>2
<1> QED
  BY <1>2, <1>3, <1>5

\* The total of a finite number of integers is an integer.
LEMMA SumType ==
    ASSUME NEW f, IsFiniteSet(DOMAIN f), \A x \in DOMAIN f : f[x] \in Int
    PROVE  SumFunction(f) \in Int
<1>1. PICK g \in [SUBSET DOMAIN f -> Int] : SumFunction(f) = g[DOMAIN f]
  BY SumFunctionIs
<1> QED
  BY <1>1

\* The total of nothing is 0.
LEMMA SumEmpty ==
    ASSUME NEW f, DOMAIN f = {}
    PROVE  SumFunction(f) = 0
<1>1. PICK g \in [SUBSET DOMAIN f -> Int] :
         IsSum(g, f, DOMAIN f) /\ SumFunction(f) = g[DOMAIN f]
  BY SumFunctionIs, FS_EmptySet
<1> QED
  BY <1>1, SumAt

\* The total with one more element.
LEMMA SumAdd ==
    ASSUME NEW f, NEW h, IsFiniteSet(DOMAIN f), \A x \in DOMAIN f : f[x] \in Int,
           NEW y, y \notin DOMAIN f, DOMAIN h = DOMAIN f \cup {y}, h[y] \in Int,
           \A x \in DOMAIN f : h[x] = f[x]
    PROVE  SumFunction(h) = SumFunction(f) + h[y]
<1> DEFINE S == DOMAIN f
           U == DOMAIN h
<1>1. IsFiniteSet(U) /\ (\A x \in U : h[x] \in Int) /\ y \in U /\ U \ {y} = S
  BY FS_AddElement
<1>2. PICK g \in [SUBSET S -> Int] : IsSum(g, f, S) /\ SumFunction(f) = g[S]
  BY SumFunctionIs
<1>3. PICK k \in [SUBSET U -> Int] : IsSum(k, h, U) /\ SumFunction(h) = k[U]
  BY <1>1, SumFunctionIs
<1>4. k[U] = h[y] + k[U \ {y}]
  <2> HIDE DEF S, U
  <2>1. IsFiniteSet(U) /\ (\A x \in U : h[x] \in Int) /\ y \in U
    BY <1>1
  <2>2. IsIntSum(k, h, U)
    BY <1>3 DEF IsIntSum
  <2> QED
    BY <2>1, <2>2, SumAnyOrder
<1>5. k[S] = g[S]
  <2>1. S \subseteq S /\ S \subseteq U /\ \A x \in S : h[x] = f[x]
    OBVIOUS
  <2> HIDE DEF S, U
  <2> QED
    BY <1>2, <1>3, <2>1, SumUnique DEF S
<1>6. g[S] \in Int /\ h[y] \in Int
  BY <1>2
<1>7. k[U] = h[y] + g[S]
  BY <1>1, <1>4, <1>5
<1> QED
  BY <1>2, <1>3, <1>6, <1>7

\* Two functions that agree on their finite domain have the same total.
LEMMA SumEqual ==
    ASSUME NEW f, NEW h, IsFiniteSet(DOMAIN f), DOMAIN f = DOMAIN h,
           \A x \in DOMAIN f : f[x] \in Int /\ f[x] = h[x]
    PROVE  SumFunction(f) = SumFunction(h)
<1>1. PICK g \in [SUBSET DOMAIN f -> Int] : IsSum(g, f, DOMAIN f) /\ SumFunction(f) = g[DOMAIN f]
  BY SumFunctionIs
<1>2. PICK k \in [SUBSET DOMAIN f -> Int] : IsSum(k, h, DOMAIN f) /\ SumFunction(h) = k[DOMAIN f]
  BY SumFunctionIs
<1> QED
  BY <1>1, <1>2, SumUnique

-----------------------------------------------------------------------------
(* Totals over parts of a domain, and comparisons.                         *)

On(f, T) == [x \in T |-> f[x]]

\* One element can be taken out of the total.
LEMMA SumSplit ==
    ASSUME NEW f, NEW T, IsFiniteSet(T), \A x \in T : f[x] \in Int, NEW y \in T
    PROVE  /\ SumFunction(On(f, T \ {y})) \in Int
           /\ SumFunction(On(f, T)) = SumFunction(On(f, T \ {y})) + f[y]
<1> DEFINE a == On(f, T \ {y})
           b == On(f, T)
<1>1. /\ IsFiniteSet(DOMAIN a) /\ \A x \in DOMAIN a : a[x] \in Int
      /\ y \notin DOMAIN a /\ DOMAIN b = DOMAIN a \cup {y}
      /\ b[y] \in Int /\ b[y] = f[y] /\ \A x \in DOMAIN a : b[x] = a[x]
  BY FS_RemoveElement DEF On
<1> HIDE DEF a, b
<1>2. SumFunction(b) = SumFunction(a) + b[y]
  BY <1>1, SumAdd
<1>3. SumFunction(a) \in Int
  BY <1>1, SumType
<1> QED
  BY <1>1, <1>2, <1>3 DEF a, b

\* The total of natural numbers is one.
LEMMA SumNat ==
    ASSUME NEW f, NEW T, IsFiniteSet(T), \A x \in T : f[x] \in Nat
    PROVE  SumFunction(On(f, T)) \in Nat
<1> DEFINE A == {U \in SUBSET T : SumFunction(On(f, U)) \in Nat}
<1>1. ASSUME NEW U \in SUBSET T, \A x \in U : U \ {x} \in A
      PROVE  U \in A
  <2>1. CASE U = {}
    <3>1. SumFunction(On(f, U)) = 0
      BY <2>1, SumEmpty DEF On
    <3> QED
      BY <3>1
  <2>2. CASE U # {}
    <3>1. PICK y \in U : TRUE
      BY <2>2
    <3>2. IsFiniteSet(U) /\ \A x \in U : f[x] \in Int
      BY FS_Subset
    <3>3. SumFunction(On(f, U)) = SumFunction(On(f, U \ {y})) + f[y]
      BY <3>2, SumSplit
    <3>4. SumFunction(On(f, U \ {y})) \in Nat /\ f[y] \in Nat
      BY <1>1
    <3>5. SumFunction(On(f, U)) \in Nat
      BY <3>3, <3>4
    <3> QED
      BY <3>5
  <2> QED
    BY <2>1, <2>2
<1>2. \A U \in SUBSET T : U \in A
  <2> HIDE DEF A
  <2> QED
    BY <1>1, SubsetInduction
<1> QED
  BY <1>2

\* A total is at most another one if every element is at most one of the other's,
\* each of which is used once.
LEMMA SumAtMost ==
    ASSUME NEW S, NEW V, IsFiniteSet(S), IsFiniteSet(V), NEW f, NEW h, NEW b \in [S -> V],
           \A x \in S : f[x] \in Int, \A y \in V : h[y] \in Nat,
           \A x, y \in S : b[x] = b[y] => x = y,
           \A x \in S : f[x] <= h[b[x]]
    PROVE  SumFunction(On(f, S)) <= SumFunction(On(h, V))
<1> DEFINE Under(T, U) == SumFunction(On(f, T)) <= SumFunction(On(h, U))
           A == {T \in SUBSET S :
                   \A U \in SUBSET V : (\A x \in T : b[x] \in U) => Under(T, U)}
<1>1. ASSUME NEW T \in SUBSET S, \A x \in T : T \ {x} \in A,
             NEW U \in SUBSET V, \A x \in T : b[x] \in U
      PROVE  Under(T, U)
  <2>1. IsFiniteSet(T) /\ IsFiniteSet(U)
    BY FS_Subset
  <2>2. CASE T = {}
    <3>1. SumFunction(On(f, T)) = 0
      BY <2>2, SumEmpty DEF On
    <3>2. SumFunction(On(h, U)) \in Nat
      BY <2>1, SumNat
    <3> QED
      BY <3>1, <3>2
  <2>3. CASE T # {}
    <3>1. PICK x \in T : TRUE
      BY <2>3
    <3> DEFINE y == b[x]
    <3>2. y \in U /\ \A z \in T \ {x} : b[z] \in U \ {y}
      BY <1>1, <3>1
    <3>3. Under(T \ {x}, U \ {y})
      BY <1>1, <3>1, <3>2
    <3>4. /\ SumFunction(On(f, T \ {x})) \in Int
          /\ SumFunction(On(f, T)) = SumFunction(On(f, T \ {x})) + f[x]
      BY <2>1, <3>1, SumSplit
    <3>5. /\ SumFunction(On(h, U \ {y})) \in Int
          /\ SumFunction(On(h, U)) = SumFunction(On(h, U \ {y})) + h[y]
      <4>1. \A z \in U : h[z] \in Int
        OBVIOUS
      <4> HIDE DEF y
      <4> QED
        BY <2>1, <3>2, <4>1, SumSplit
    <3>6. f[x] \in Int /\ h[y] \in Int /\ f[x] <= h[y]
      BY <3>1, <3>2
    <3> HIDE DEF y
    <3> QED
      BY <3>3, <3>4, <3>5, <3>6
  <2> QED
    BY <2>2, <2>3
<1>2. \A T \in SUBSET S : (\A x \in T : T \ {x} \in A) => T \in A
  <2> HIDE DEF Under
  <2> QED
    BY <1>1
<1>3. \A T \in SUBSET S : T \in A
  <2> HIDE DEF A
  <2> QED
    BY <1>2, SubsetInduction
<1>4. \A x \in S : b[x] \in V
  OBVIOUS
<1> QED
  BY <1>3, <1>4
\* A total exceeds another one by no more than the number of the elements that exceed
\* the other's, each by no more than 1.
LEMMA SumSlack ==
    ASSUME NEW S, IsFiniteSet(S), NEW R \in SUBSET S, NEW f, NEW h,
           \A x \in S : f[x] \in Int /\ h[x] \in Int,
           \A x \in R : f[x] <= h[x] + 1,
           \A x \in S \ R : f[x] <= h[x]
    PROVE  SumFunction(On(f, S)) <= SumFunction(On(h, S)) + Cardinality(R)
<1> DEFINE Over(T) == SumFunction(On(f, T)) <= SumFunction(On(h, T)) + Cardinality(T \cap R)
           A == {T \in SUBSET S : Over(T)}
<1>1. ASSUME NEW T \in SUBSET S, \A x \in T : T \ {x} \in A
      PROVE  Over(T)
  <2>1. IsFiniteSet(T) /\ IsFiniteSet(T \cap R)
    BY FS_Subset
  <2>2. CASE T = {}
    <3>1. SumFunction(On(f, T)) = 0 /\ SumFunction(On(h, T)) = 0
      BY <2>2, SumEmpty DEF On
    <3>2. T \cap R = {}
      BY <2>2
    <3>3. Cardinality(T \cap R) = 0
      BY <3>2, FS_EmptySet
    <3> QED
      BY <3>1, <3>3
  <2>3. CASE T # {}
    <3>1. PICK x \in T : TRUE
      BY <2>3
    <3>2. Over(T \ {x})
      BY <1>1, <3>1
    <3>3. /\ SumFunction(On(f, T \ {x})) \in Int
          /\ SumFunction(On(f, T)) = SumFunction(On(f, T \ {x})) + f[x]
      BY <2>1, <3>1, SumSplit
    <3>4. /\ SumFunction(On(h, T \ {x})) \in Int
          /\ SumFunction(On(h, T)) = SumFunction(On(h, T \ {x})) + h[x]
      BY <2>1, <3>1, SumSplit
    <3>5. Cardinality(T \cap R) \in Nat
      BY <2>1, FS_CardinalityType
    <3>6. CASE x \in R
      <4>1. (T \ {x}) \cap R = (T \cap R) \ {x} /\ x \in T \cap R
        BY <3>1, <3>6
      <4>2. Cardinality((T \ {x}) \cap R) = Cardinality(T \cap R) - 1
        <5> DEFINE U == T \cap R
        <5>1. IsFiniteSet(U) /\ x \in U /\ (T \ {x}) \cap R = U \ {x}
          BY <2>1, <4>1
        <5> HIDE DEF U
        <5>2. Cardinality(U \ {x}) = Cardinality(U) - 1
          BY <5>1, FS_RemoveElement
        <5> QED
          BY <5>1, <5>2 DEF U
      <4>3. f[x] \in Int /\ h[x] \in Int /\ f[x] <= h[x] + 1
        BY <3>1, <3>6
      <4> QED
        BY <3>2, <3>3, <3>4, <3>5, <4>2, <4>3
    <3>7. CASE x \notin R
      <4>1. Cardinality((T \ {x}) \cap R) = Cardinality(T \cap R)
        <5>1. (T \ {x}) \cap R = T \cap R
          BY <3>7
        <5> QED
          BY <5>1, Zenon
      <4>2. f[x] \in Int /\ h[x] \in Int /\ f[x] <= h[x]
        BY <3>1, <3>7
      <4> QED
        BY <3>2, <3>3, <3>4, <3>5, <4>1, <4>2
    <3> QED
      BY <3>6, <3>7
  <2> QED
    BY <2>2, <2>3
<1>2. \A T \in SUBSET S : T \in A
  <2>1. \A T \in SUBSET S : (\A x \in T : T \ {x} \in A) => T \in A
    <3> HIDE DEF Over
    <3> QED
      BY <1>1
  <2> HIDE DEF A
  <2> QED
    BY <2>1, SubsetInduction
<1>3. Over(S)
  BY <1>2
<1>4. S \cap R = R
  OBVIOUS
<1> QED
  BY <1>3, <1>4

=============================================================================
