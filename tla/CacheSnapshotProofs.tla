------------------------- MODULE CacheSnapshotProofs -------------------------
(***************************************************************************)
(* A snapshot is the cache, for every set of pods, nodes, zones and images.*)
(***************************************************************************)
EXTENDS CacheSnapshot, SchedulerCacheProofs, SumTheorems, SequenceTheorems

allVars == <<vars, snapVars>>

-----------------------------------------------------------------------------
(* The cache under the list.                                               *)

\* RemoveNode of a node the cache does not know changes nothing.
LEMMA NothingRemoved ==
    ASSUME NEW n \in Nodes, SnapRemoveUnknownNode(n)
    PROVE  UNCHANGED allVars
  BY DEF SnapRemoveUnknownNode, RemoveNode, allVars, vars, snapVars

\* Every step is a step of SchedulerCache, or leaves its variables alone.
LEMMA CacheStep ==
    ASSUME IInv, [SnapNext]_allVars
    PROVE  [Next]_vars
<1>1. nodeTree \subseteq Nodes
  BY DEF IInv, TypeOK
<1>2. ASSUME ~fatal, SnapPodOperation
      PROVE  ~fatal /\ PodOperation
  BY <1>2 DEF SnapPodOperation, PodOperation, SnapAssumePod, SnapForgetPod, SnapAddPod,
              SnapRemovePod, SnapUpdatePod, SnapFinishBinding, SnapExpirePod
<1>3. ASSUME ~fatal, SnapNodeOperation
      PROVE  ~fatal /\ NodeOperation
  BY <1>1, <1>3 DEF SnapNodeOperation, NodeOperation, SnapAddNode, SnapUpdateNode,
                    SnapRemoveNode, SnapRemoveUnknownNode
<1>4. ASSUME UpdateSnapshot
      PROVE  UNCHANGED vars
  BY <1>4 DEF UpdateSnapshot
<1>5. ASSUME SnapRestart
      PROVE  Restart
  BY <1>5 DEF SnapRestart
<1> QED
  BY <1>2, <1>3, <1>4, <1>5 DEF SnapNext, Next, allVars

\* The cache's invariant holds here too.
LEMMA CacheInvariant == SnapSpec => []IInv
<1>1. SnapInit => IInv
  BY EmptyCache DEF SnapInit
<1>2. IInv /\ [SnapNext]_allVars => IInv'
  BY CacheStep, Inductive
<1> QED
  BY <1>1, <1>2, PTL DEF SnapSpec, allVars

\* The v1.Node of a node, or Nil.
NodeOf(ns, n) == InfoOf(ns, n).node

\* The nodes with a v1.Node.
LEMMA KnownNodes ==
    ASSUME IInv
    PROVE  /\ nodeTree = {n \in Nodes : NodeOf(nodes, n) # Nil}
           /\ \A n \in Nodes : NodeOf(nodes, n) \in NodeObjects \cup {Nil}
           /\ \A n \in Nodes : NodeOf(nodes, n) # Nil =>
                 nodes[n] # Nil /\ nodes[n].node = NodeOf(nodes, n)
<1>1. nodeTree \subseteq Nodes
  BY DEF IInv, TypeOK
<1>2. \A n \in Nodes : n \in nodeTree <=> (nodes[n] # Nil /\ nodes[n].node # Nil)
  BY DEF IInv, TreeMatchesNodes
<1>3. \A n \in Nodes : NodeOf(nodes, n) = IF nodes[n] = Nil THEN Nil ELSE nodes[n].node
  BY DEF NodeOf, InfoOf, NewNodeInfo
<1>4. \A n \in Nodes : NodeOf(nodes, n) \in NodeObjects \cup {Nil}
  BY <1>3 DEF IInv, TypeOK, NodeInfo
<1> QED
  BY <1>1, <1>2, <1>3, <1>4

\* addPod and removePod touch the NodeInfo of the pod's node and leave its v1.Node alone.
LEMMA PodsKeepNodes ==
    ASSUME NEW ns \in NodesMap, NEW pod \in PodObjects
    PROVE  /\ addPod(ns, pod) \in NodesMap /\ removePod(ns, pod) \in NodesMap
           /\ addPod(ns, pod)[pod.node] # Nil
           /\ \A n \in Nodes : n # pod.node =>
                 addPod(ns, pod)[n] = ns[n] /\ removePod(ns, pod)[n] = ns[n]
           /\ \A n \in Nodes : /\ NodeOf(addPod(ns, pod), n) = NodeOf(ns, n)
                               /\ NodeOf(removePod(ns, pod), n) = NodeOf(ns, n)
<1>1. pod.node \in Nodes
  BY ObjectsAssumption
<1> DEFINE ni == InfoOf(ns, pod.node)
           added == InfoAddPod(ni, pod)
<1>2. ni \in NodeInfo
  BY <1>1, InfoOfType
<1>3. added \in NodeInfo /\ added.node = ni.node /\ added # Nil
  BY <1>2, InfoFields, NilAssumption
<1>4. /\ addPod(ns, pod) \in NodesMap
      /\ addPod(ns, pod)[pod.node] = added
      /\ \A n \in Nodes : n # pod.node => addPod(ns, pod)[n] = ns[n]
  BY <1>1, <1>3 DEF addPod, NodesMap
<1>5. \A n \in Nodes : NodeOf(addPod(ns, pod), n) = NodeOf(ns, n)
  <2> HIDE DEF added
  <2> SUFFICES ASSUME NEW n \in Nodes
               PROVE  NodeOf(addPod(ns, pod), n) = NodeOf(ns, n)
    OBVIOUS
  <2>1. CASE n = pod.node
    BY <2>1, <1>3, <1>4 DEF NodeOf, InfoOf
  <2>2. CASE n # pod.node
    BY <2>2, <1>4 DEF NodeOf, InfoOf
  <2> QED
    BY <2>1, <2>2
<1>6. CASE ns[pod.node] = Nil
  <2>1. removePod(ns, pod) = ns
    BY <1>6 DEF removePod
  <2> QED
    BY <1>3, <1>4, <1>5, <2>1
<1>7. CASE ns[pod.node] # Nil
  <2> DEFINE left == InfoRemovePod(ns[pod.node], pod)
  <2>1. ns[pod.node] \in NodeInfo
    BY <1>1, <1>7 DEF NodesMap
  <2>2. left \in NodeInfo /\ left.node = ns[pod.node].node /\ left # Nil
    BY <2>1, InfoFields, NilAssumption
  <2>3. removePod(ns, pod) = [ns EXCEPT ![pod.node] = KeepOrDrop(left)]
    BY <1>7 DEF removePod
  <2> HIDE DEF left
  <2>4. KeepOrDrop(left) = left \/ (KeepOrDrop(left) = Nil /\ left.node = Nil)
    BY DEF KeepOrDrop
  <2>5. /\ removePod(ns, pod) \in NodesMap
        /\ removePod(ns, pod)[pod.node] = KeepOrDrop(left)
        /\ \A n \in Nodes : n # pod.node => removePod(ns, pod)[n] = ns[n]
    BY <1>1, <2>2, <2>3, <2>4 DEF NodesMap
  <2>6. \A n \in Nodes : NodeOf(removePod(ns, pod), n) = NodeOf(ns, n)
    <3> SUFFICES ASSUME NEW n \in Nodes
                 PROVE  NodeOf(removePod(ns, pod), n) = NodeOf(ns, n)
      OBVIOUS
    <3>1. CASE n = pod.node
      BY <3>1, <1>7, <2>2, <2>4, <2>5 DEF NodeOf, InfoOf, NewNodeInfo
    <3>2. CASE n # pod.node
      BY <3>2, <2>5 DEF NodeOf, InfoOf
    <3> QED
      BY <3>1, <3>2
  <2> QED
    BY <1>3, <1>4, <1>5, <2>5, <2>6
<1> QED
  BY <1>6, <1>7

-----------------------------------------------------------------------------
(* Generations.                                                            *)

\* A subset with one element less is smaller.
LEMMA FewerBelow ==
    ASSUME NEW S, NEW T, IsFiniteSet(T), S \subseteq T, NEW x \in T, x \notin S
    PROVE  /\ Cardinality(S) \in Nat /\ Cardinality(T) \in Nat
           /\ Cardinality(S) < Cardinality(T)
<1>1. IsFiniteSet(S) /\ IsFiniteSet(S \cup {x}) /\ S \cup {x} \subseteq T
  BY FS_Subset
<1>2. Cardinality(S \cup {x}) = Cardinality(S) + 1
  BY <1>1, FS_AddElement
<1>3. Cardinality(S \cup {x}) <= Cardinality(T)
  BY <1>1, FS_Subset
<1> QED
  BY <1>1, <1>2, <1>3, FS_CardinalityType

\* Renumbering keeps the order.
LEMMA RenumberedOrder ==
    ASSUME NEW D, IsFiniteSet(D), NEW g \in [D -> Nat]
    PROVE  /\ Renumbered(g) \in [D -> Nat]
           /\ \A a \in D : Renumbered(g)[a] <= Cardinality(D)
           /\ \A a, b \in D : Renumbered(g)[a] < Renumbered(g)[b] <=> g[a] < g[b]
<1> DEFINE R == Range(g) \cup {0}
           Lower(a) == {x \in R : x < g[a]}
<1>1. /\ IsFiniteSet(Range(g)) /\ Cardinality(Range(g)) <= Cardinality(D)
      /\ Range(g) \subseteq Nat
  <2>1. Range(g) = {g[x] : x \in D}
    BY DEF Range
  <2>2. g \in Surjection(D, Range(g))
    BY <2>1 DEF Surjection
  <2>3. IsFiniteSet(Range(g)) /\ Cardinality(Range(g)) <= Cardinality(D)
    BY <2>2, FS_Surjection
  <2> QED
    BY <2>1, <2>3
<1>2. IsFiniteSet(R) /\ Cardinality(R) <= Cardinality(D) + 1 /\ R \subseteq Nat
  BY <1>1, FS_AddElement, FS_CardinalityType
<1>3. \A a \in D : g[a] \in R /\ g[a] \in Nat
  BY DEF Range
<1>4. \A a \in D : Renumbered(g)[a] = Cardinality(Lower(a))
  BY DEF Renumbered
<1>5. DOMAIN Renumbered(g) = D /\ Renumbered(g) = [a \in D |-> Cardinality(Lower(a))]
  BY DEF Renumbered
<1> HIDE DEF R
<1>6. \A a \in D : IsFiniteSet(Lower(a)) /\ Cardinality(Lower(a)) \in Nat
  BY <1>2, FS_Subset, FS_CardinalityType
<1>7. ASSUME NEW a \in D
      PROVE  Cardinality(Lower(a)) <= Cardinality(D)
  <2>1. Lower(a) \subseteq R /\ g[a] \notin Lower(a)
    BY <1>3
  <2>2. Cardinality(Lower(a)) < Cardinality(R) /\ Cardinality(R) \in Nat
    BY <1>2, <1>3, <2>1, FewerBelow
  <2> QED
    BY <1>2, <1>6, <2>2, FS_CardinalityType
<1>8. ASSUME NEW a \in D, NEW b \in D, g[a] < g[b]
      PROVE  Cardinality(Lower(a)) < Cardinality(Lower(b))
  <2>1. Lower(a) \subseteq Lower(b) /\ g[a] \in Lower(b) /\ g[a] \notin Lower(a)
    <3>1. \A x \in R : x \in Nat /\ (x < g[a] => x < g[b])
      BY <1>2, <1>3, <1>8
    <3> QED
      BY <1>3, <1>8, <3>1
  <2> QED
    BY <1>6, <2>1, FewerBelow
<1>9. ASSUME NEW a \in D, NEW b \in D
      PROVE  Cardinality(Lower(a)) < Cardinality(Lower(b)) <=> g[a] < g[b]
  <2> HIDE DEF Lower
  <2>1. CASE g[a] < g[b]
    BY <1>8, <2>1
  <2>2. CASE g[a] = g[b]
    <3>1. Lower(a) = Lower(b)
      BY <2>2 DEF Lower
    <3> QED
      BY <1>3, <1>6, <2>2, <3>1
  <2>3. CASE g[b] < g[a]
    <3>1. Cardinality(Lower(b)) < Cardinality(Lower(a))
      BY <1>8, <2>3
    <3> QED
      BY <1>3, <1>6, <2>3, <3>1
  <2> QED
    BY <1>3, <2>1, <2>2, <2>3
<1> QED
  BY <1>4, <1>5, <1>6, <1>7, <1>9

Items == Nodes \cup {Nil}

\* Every generation fits, so that the next one is larger than all.
MaxGen == Cardinality(Nodes) + 1

ListType ==
    [head : Items, next : [Nodes -> Items], prev : [Nodes -> Items],
     gen : [Items -> 0 .. MaxGen]]

\* nextGeneration puts a node above all others, whose order stays.
LEMMA NextGeneration ==
    ASSUME NEW l \in ListType, NEW n \in Nodes
    PROVE  LET m == nextGeneration(l, n)
           IN  /\ m \in ListType
               /\ m.head = l.head /\ m.next = l.next /\ m.prev = l.prev
               /\ \A a \in Items \ {n} : m.gen[a] < m.gen[n]
               /\ \A a, b \in Items \ {n} : m.gen[a] < m.gen[b] <=> l.gen[a] < l.gen[b]
<1> DEFINE top == Cardinality(Nodes) + 2
           g == [l.gen EXCEPT ![n] = top]
           m == nextGeneration(l, n)
<1>1. /\ IsFiniteSet(Items) /\ Cardinality(Items) = Cardinality(Nodes) + 1
      /\ Cardinality(Nodes) \in Nat
  BY SnapshotAssumption, FS_AddElement, FS_CardinalityType DEF Items
<1>2. l.gen \in [Items -> 0 .. MaxGen] /\ n \in Items
  BY DEF ListType, Items
<1>3. /\ g \in [Items -> Nat] /\ g[n] = top
      /\ \A a \in Items \ {n} : g[a] = l.gen[a] /\ g[a] < top
  BY <1>1, <1>2 DEF MaxGen
<1>4. m = [l EXCEPT !.gen = Renumbered(g)]
  BY DEF nextGeneration
<1> HIDE DEF g, m
<1>5. /\ Renumbered(g) \in [Items -> Nat]
      /\ \A a \in Items : Renumbered(g)[a] <= Cardinality(Items)
      /\ \A a, b \in Items : Renumbered(g)[a] < Renumbered(g)[b] <=> g[a] < g[b]
  BY <1>1, <1>3, RenumberedOrder
<1>6. Renumbered(g) \in [Items -> 0 .. MaxGen]
  BY <1>1, <1>5 DEF MaxGen
<1>7. /\ m \in ListType /\ m.gen = Renumbered(g)
      /\ m.head = l.head /\ m.next = l.next /\ m.prev = l.prev
  BY <1>4, <1>6 DEF ListType
<1>8. \A a \in Items \ {n} : m.gen[a] < m.gen[n]
  BY <1>2, <1>3, <1>5, <1>7
<1>9. \A a, b \in Items \ {n} : m.gen[a] < m.gen[b] <=> l.gen[a] < l.gen[b]
  BY <1>3, <1>5, <1>7
<1> QED
  BY <1>7, <1>8, <1>9 DEF m

-----------------------------------------------------------------------------
(* The list, said without walking it: next and prev lead to the neighbours *)
(* in the order of the generations.                                        *)

\* The next newer and the next older of the nodes P, and the newest.
After(g, P, a, c) ==
    IF \E b \in P : g[b] < g[a]
    THEN c \in P /\ g[c] < g[a] /\ \A b \in P : g[b] < g[a] => g[b] <= g[c]
    ELSE c = Nil

Before(g, P, a, c) ==
    IF \E b \in P : g[a] < g[b]
    THEN c \in P /\ g[a] < g[c] /\ \A b \in P : g[a] < g[b] => g[c] <= g[b]
    ELSE c = Nil

First(g, P, c) ==
    IF P = {} THEN c = Nil ELSE c \in P /\ \A b \in P : g[b] <= g[c]

Distinct(g, P) == \A a, b \in P : g[a] = g[b] => a = b

Linked(l, P) == \A a \in P : After(l.gen, P, a, l.next[a]) /\ Before(l.gen, P, a, l.prev[a])

Unlinked(l, P) == \A a \in Nodes \ P : l.next[a] = Nil /\ l.prev[a] = Nil

\* The list holds exactly the nodes P, the newest first.
Sorted(l, P) ==
    /\ l \in ListType /\ P \subseteq Nodes
    /\ Distinct(l.gen, P) /\ First(l.gen, P, l.head) /\ Linked(l, P) /\ Unlinked(l, P)

\* Types of what the list is made of.
LEMMA ListTypes ==
    ASSUME NEW l \in ListType
    PROVE  /\ l.head \in Items /\ l.next \in [Nodes -> Items] /\ l.prev \in [Nodes -> Items]
           /\ l.gen \in [Items -> 0 .. MaxGen]
           /\ \A a \in Items : l.gen[a] \in Int
           /\ Nil \notin Nodes /\ Nodes \subseteq Items
<1>1. l.head \in Items /\ l.next \in [Nodes -> Items] /\ l.prev \in [Nodes -> Items]
      /\ l.gen \in [Items -> 0 .. MaxGen]
  BY DEF ListType
<1> QED
  BY <1>1, SnapshotAssumption DEF Items

\* next and prev are inverse to each other.
LEMMA Neighbours ==
    ASSUME NEW l, NEW P, Sorted(l, P), NEW a \in P, NEW b \in P
    PROVE  l.next[a] = b <=> l.prev[b] = a
<1>1. /\ \A x \in P : l.gen[x] \in Int /\ x # Nil
      /\ Distinct(l.gen, P)
  BY ListTypes DEF Sorted
<1>2. /\ After(l.gen, P, a, l.next[a]) /\ Before(l.gen, P, a, l.prev[a])
      /\ After(l.gen, P, b, l.next[b]) /\ Before(l.gen, P, b, l.prev[b])
  BY DEF Sorted, Linked
<1>3. ASSUME l.next[a] = b
      PROVE  l.prev[b] = a
  <2>1. l.gen[b] < l.gen[a] /\ \A x \in P : l.gen[x] < l.gen[a] => l.gen[x] <= l.gen[b]
    BY <1>1, <1>2, <1>3 DEF After
  <2>2. /\ l.prev[b] \in P /\ l.gen[b] < l.gen[l.prev[b]]
        /\ l.gen[l.prev[b]] <= l.gen[a]
    BY <1>2, <2>1 DEF Before
  <2>3. l.gen[l.prev[b]] = l.gen[a]
    BY <1>1, <2>1, <2>2
  <2> QED
    BY <1>1, <2>2, <2>3 DEF Distinct
<1>4. ASSUME l.prev[b] = a
      PROVE  l.next[a] = b
  <2>1. l.gen[b] < l.gen[a] /\ \A x \in P : l.gen[b] < l.gen[x] => l.gen[a] <= l.gen[x]
    BY <1>1, <1>2, <1>4 DEF Before
  <2>2. /\ l.next[a] \in P /\ l.gen[l.next[a]] < l.gen[a]
        /\ l.gen[b] <= l.gen[l.next[a]]
    BY <1>2, <2>1 DEF After
  <2>3. l.gen[l.next[a]] = l.gen[b]
    BY <1>1, <2>1, <2>2
  <2> QED
    BY <1>1, <2>2, <2>3 DEF Distinct
<1> QED
  BY <1>3, <1>4

\* A node is taken out of the links: what its neighbours, or the head, refer to then.
\* g is any numbering that orders the others as before.
LEMMA Unlink ==
    ASSUME NEW l, NEW P, Sorted(l, P), NEW n \in P, NEW a \in P, a # n
    PROVE  /\ After(l.gen, P \ {n}, a, IF a = l.prev[n] THEN l.next[n] ELSE l.next[a])
           /\ Before(l.gen, P \ {n}, a, IF a = l.next[n] THEN l.prev[n] ELSE l.prev[a])
<1> DEFINE g == l.gen
<1>1. /\ \A x \in P : g[x] \in Int /\ x # Nil
      /\ \A x, y \in P : g[x] = g[y] => x = y
  BY ListTypes DEF Sorted, Distinct
<1>2. /\ After(g, P, a, l.next[a]) /\ Before(g, P, a, l.prev[a])
      /\ After(g, P, n, l.next[n]) /\ Before(g, P, n, l.prev[n])
  BY DEF Sorted, Linked
<1>3. l.next[a] = n <=> l.prev[n] = a
  BY Neighbours
<1>4. l.next[n] = a <=> l.prev[a] = n
  BY Neighbours
<1> HIDE DEF g
<1>5. ASSUME a = l.prev[n]
      PROVE  After(g, P \ {n}, a, l.next[n])
  <2>1. g[n] < g[a] /\ \A b \in P : g[n] < g[b] => g[a] <= g[b]
    BY <1>1, <1>2, <1>5 DEF Before
  <2>2. \A b \in P \ {n} : g[b] < g[a] <=> g[b] < g[n]
    BY <1>1, <2>1
  <2>3. After(g, P \ {n}, a, l.next[n])
    <3>1. CASE \E b \in P : g[b] < g[n]
      <4>1. /\ l.next[n] \in P /\ g[l.next[n]] < g[n]
            /\ \A b \in P : g[b] < g[n] => g[b] <= g[l.next[n]]
        BY <1>2, <3>1 DEF After
      <4>2. l.next[n] \in P \ {n} /\ g[l.next[n]] < g[a]
        BY <1>1, <2>1, <4>1
      <4> QED
        BY <2>2, <4>1, <4>2 DEF After
    <3>2. CASE ~\E b \in P : g[b] < g[n]
      BY <1>2, <2>2, <3>2 DEF After
    <3> QED
      BY <3>1, <3>2
  <2> QED
    BY <2>3
<1>6. ASSUME a # l.prev[n]
      PROVE  After(g, P \ {n}, a, l.next[a])
  <2>1. l.next[a] # n
    BY <1>3, <1>6
  <2>2. After(g, P \ {n}, a, l.next[a])
    <3>1. CASE \E b \in P : g[b] < g[a]
      <4>1. /\ l.next[a] \in P \ {n} /\ g[l.next[a]] < g[a]
            /\ \A b \in P : g[b] < g[a] => g[b] <= g[l.next[a]]
        BY <1>2, <2>1, <3>1 DEF After
      <4> QED
        BY <4>1 DEF After
    <3>2. CASE ~\E b \in P : g[b] < g[a]
      BY <1>2, <3>2 DEF After
    <3> QED
      BY <3>1, <3>2
  <2> QED
    BY <2>2
<1>7. ASSUME a = l.next[n]
      PROVE  Before(g, P \ {n}, a, l.prev[n])
  <2>1. g[a] < g[n] /\ \A b \in P : g[b] < g[n] => g[b] <= g[a]
    BY <1>1, <1>2, <1>7 DEF After
  <2>2. \A b \in P \ {n} : g[a] < g[b] <=> g[n] < g[b]
    BY <1>1, <2>1
  <2>3. Before(g, P \ {n}, a, l.prev[n])
    <3>1. CASE \E b \in P : g[n] < g[b]
      <4>1. /\ l.prev[n] \in P /\ g[n] < g[l.prev[n]]
            /\ \A b \in P : g[n] < g[b] => g[l.prev[n]] <= g[b]
        BY <1>2, <3>1 DEF Before
      <4>2. l.prev[n] \in P \ {n} /\ g[a] < g[l.prev[n]]
        BY <1>1, <2>1, <4>1
      <4> QED
        BY <2>2, <4>1, <4>2 DEF Before
    <3>2. CASE ~\E b \in P : g[n] < g[b]
      BY <1>2, <2>2, <3>2 DEF Before
    <3> QED
      BY <3>1, <3>2
  <2> QED
    BY <2>3
<1>8. ASSUME a # l.next[n]
      PROVE  Before(g, P \ {n}, a, l.prev[a])
  <2>1. l.prev[a] # n
    BY <1>4, <1>8
  <2>2. Before(g, P \ {n}, a, l.prev[a])
    <3>1. CASE \E b \in P : g[a] < g[b]
      <4>1. /\ l.prev[a] \in P \ {n} /\ g[a] < g[l.prev[a]]
            /\ \A b \in P : g[a] < g[b] => g[l.prev[a]] <= g[b]
        BY <1>2, <2>1, <3>1 DEF Before
      <4> QED
        BY <4>1 DEF Before
    <3>2. CASE ~\E b \in P : g[a] < g[b]
      BY <1>2, <3>2 DEF Before
    <3> QED
      BY <3>1, <3>2
  <2> QED
    BY <2>2
<1> QED
  BY <1>5, <1>6, <1>7, <1>8 DEF g

\* Only the order of the generations matters.
LEMMA SameOrder ==
    ASSUME NEW g, NEW h, NEW Q, \A a \in Q : g[a] \in Int /\ h[a] \in Int,
           \A a, b \in Q : g[a] < g[b] <=> h[a] < h[b]
    PROVE  /\ Distinct(g, Q) => Distinct(h, Q)
           /\ \A c : First(g, Q, c) => First(h, Q, c)
           /\ \A a \in Q : \A c : After(g, Q, a, c) => After(h, Q, a, c)
           /\ \A a \in Q : \A c : Before(g, Q, a, c) => Before(h, Q, a, c)
<1>1. \A a, b \in Q : (g[a] <= g[b] <=> h[a] <= h[b]) /\ (g[a] = g[b] <=> h[a] = h[b])
  <2> SUFFICES ASSUME NEW a \in Q, NEW b \in Q
               PROVE  (g[a] <= g[b] <=> h[a] <= h[b]) /\ (g[a] = g[b] <=> h[a] = h[b])
    OBVIOUS
  <2>1. (g[a] < g[b] <=> h[a] < h[b]) /\ (g[b] < g[a] <=> h[b] < h[a])
    OBVIOUS
  <2> QED
    BY <2>1
<1>2. Distinct(g, Q) => Distinct(h, Q)
  BY <1>1 DEF Distinct
<1>3. ASSUME NEW c, First(g, Q, c)
      PROVE  First(h, Q, c)
  BY <1>1, <1>3 DEF First
<1>4. ASSUME NEW a \in Q, NEW c, After(g, Q, a, c)
      PROVE  After(h, Q, a, c)
  <2>1. CASE \E b \in Q : g[b] < g[a]
    BY <1>1, <1>4, <2>1 DEF After
  <2>2. CASE ~\E b \in Q : g[b] < g[a]
    BY <1>4, <2>2 DEF After
  <2> QED
    BY <2>1, <2>2
<1>5. ASSUME NEW a \in Q, NEW c, Before(g, Q, a, c)
      PROVE  Before(h, Q, a, c)
  <2>1. CASE \E b \in Q : g[a] < g[b]
    BY <1>1, <1>5, <2>1 DEF Before
  <2>2. CASE ~\E b \in Q : g[a] < g[b]
    BY <1>5, <2>2 DEF Before
  <2> QED
    BY <2>1, <2>2
<1> QED
  BY <1>2, <1>3, <1>4, <1>5

\* A node that is newer than all others comes before them.
LEMMA NewFirst ==
    ASSUME NEW g, NEW Q, NEW n, n \notin Q, n # Nil, Nil \notin Q,
           g[n] \in Int, \A a \in Q : g[a] \in Int /\ g[a] < g[n],
           Distinct(g, Q), NEW f, First(g, Q, f)
    PROVE  /\ Distinct(g, Q \cup {n}) /\ First(g, Q \cup {n}, n)
           /\ After(g, Q \cup {n}, n, f) /\ Before(g, Q \cup {n}, n, Nil)
           /\ \A a \in Q : \A c : After(g, Q, a, c) => After(g, Q \cup {n}, a, c)
           /\ \A a \in Q : \A c : Before(g, Q, a, c) =>
                 Before(g, Q \cup {n}, a, IF a = f THEN n ELSE c)
<1>1. Distinct(g, Q \cup {n}) /\ First(g, Q \cup {n}, n)
  <2>1. Distinct(g, Q \cup {n})
    BY DEF Distinct
  <2>2. First(g, Q \cup {n}, n)
    BY DEF First
  <2> QED
    BY <2>1, <2>2
<1>2. After(g, Q \cup {n}, n, f)
  <2>1. CASE Q = {}
    BY <2>1 DEF After, First
  <2>2. CASE Q # {}
    <3>1. f \in Q /\ g[f] < g[n] /\ \A b \in Q : g[b] <= g[f]
      BY <2>2 DEF First
    <3>2. ~(g[n] < g[n])
      OBVIOUS
    <3> QED
      BY <3>1, <3>2 DEF After
  <2> QED
    BY <2>1, <2>2
<1>3. Before(g, Q \cup {n}, n, Nil)
  <2>1. \A b \in Q \cup {n} : ~(g[n] < g[b])
    OBVIOUS
  <2> QED
    BY <2>1 DEF Before
<1>4. ASSUME NEW a \in Q, NEW c, After(g, Q, a, c)
      PROVE  After(g, Q \cup {n}, a, c)
  <2>1. ~(g[n] < g[a])
    OBVIOUS
  <2>2. CASE \E b \in Q : g[b] < g[a]
    BY <1>4, <2>1, <2>2 DEF After
  <2>3. CASE ~\E b \in Q : g[b] < g[a]
    BY <1>4, <2>1, <2>3 DEF After
  <2> QED
    BY <2>2, <2>3
<1>5. ASSUME NEW a \in Q, NEW c, Before(g, Q, a, c), a = f
      PROVE  Before(g, Q \cup {n}, a, n)
  <2>1. \A b \in Q : ~(g[a] < g[b])
    BY <1>5 DEF First
  <2>2. g[a] < g[n] /\ g[n] <= g[n]
    OBVIOUS
  <2> QED
    BY <2>1, <2>2 DEF Before
<1>6. ASSUME NEW a \in Q, NEW c, Before(g, Q, a, c), a # f
      PROVE  Before(g, Q \cup {n}, a, c)
  <2>1. f \in Q /\ g[a] <= g[f]
    BY DEF First
  <2>2. g[a] < g[f]
    BY <1>6, <2>1 DEF Distinct
  <2>3. c \in Q /\ g[a] < g[c] /\ \A b \in Q : g[a] < g[b] => g[c] <= g[b]
    BY <1>6, <2>1, <2>2 DEF Before
  <2>4. g[c] <= g[n]
    BY <2>3
  <2> QED
    BY <2>3, <2>4 DEF Before
<1> QED
  BY <1>1, <1>2, <1>3, <1>4, <1>5, <1>6

\* removeNodeInfoFromList takes the node out and leaves the others in their order.
LEMMA DropSorted ==
    ASSUME NEW l, NEW P, Sorted(l, P), NEW n \in P
    PROVE  LET m == removeNodeInfoFromList(l, n)
           IN  /\ Sorted(m, P \ {n})
               /\ \A a \in Items \ {n} : m.gen[a] = l.gen[a]
<1> DEFINE m == removeNodeInfoFromList(l, n)
           Q == P \ {n}
           nx == Through(l.next, l.prev[n], l.next[n])
           pv == Through(l.prev, l.next[n], l.prev[n])
<1>1. l \in ListType /\ P \subseteq Nodes /\ n \in Nodes
  BY DEF Sorted
<1>2. /\ l.head \in Items /\ l.next \in [Nodes -> Items] /\ l.prev \in [Nodes -> Items]
      /\ l.gen \in [Items -> 0 .. MaxGen]
      /\ \A a \in Items : l.gen[a] \in Int
      /\ Nil \notin Nodes /\ Nodes \subseteq Items /\ Nil \in Items
  BY <1>1, ListTypes DEF Items
<1>3. /\ nx \in [Nodes -> Items] /\ pv \in [Nodes -> Items]
      /\ \A a \in Nodes : nx[a] = IF a = l.prev[n] THEN l.next[n] ELSE l.next[a]
      /\ \A a \in Nodes : pv[a] = IF a = l.next[n] THEN l.prev[n] ELSE l.prev[a]
  <2> DEFINE nexts == l.next
             prevs == l.prev
             below == nexts[n]
             above == prevs[n]
  <2>1. /\ nexts \in [Nodes -> Items] /\ prevs \in [Nodes -> Items]
        /\ above \in Items /\ below \in Items
    BY <1>1, <1>2
  <2> HIDE DEF nexts, prevs, below, above
  <2>2. /\ Through(nexts, above, below) \in [Nodes -> Items]
        /\ \A a \in Nodes :
              Through(nexts, above, below)[a] = IF a = above THEN below ELSE nexts[a]
    BY <2>1, SnapshotAssumption DEF Through, Items
  <2>3. /\ Through(prevs, below, above) \in [Nodes -> Items]
        /\ \A a \in Nodes :
              Through(prevs, below, above)[a] = IF a = below THEN above ELSE prevs[a]
    BY <2>1, SnapshotAssumption DEF Through, Items
  <2> QED
    BY <2>2, <2>3 DEF nexts, prevs, below, above
<1>4. /\ m = [l EXCEPT !.next = [nx EXCEPT ![n] = Nil], !.prev = [pv EXCEPT ![n] = Nil],
                       !.head = IF l.head = n THEN l.next[n] ELSE l.head,
                       !.gen = [l.gen EXCEPT ![n] = 0]]
  BY <1>1 DEF removeNodeInfoFromList, ListType
<1> HIDE DEF nx, pv, m
<1>5. Cardinality(Nodes) \in Nat
  BY SnapshotAssumption, FS_CardinalityType
<1>6. /\ [nx EXCEPT ![n] = Nil] \in [Nodes -> Items]
      /\ [pv EXCEPT ![n] = Nil] \in [Nodes -> Items]
      /\ [l.gen EXCEPT ![n] = 0] \in [Items -> 0 .. MaxGen]
      /\ (IF l.head = n THEN l.next[n] ELSE l.head) \in Items
  BY <1>1, <1>2, <1>3, <1>5 DEF MaxGen
<1>7. /\ m \in ListType
      /\ m.next = [nx EXCEPT ![n] = Nil] /\ m.prev = [pv EXCEPT ![n] = Nil]
      /\ m.head = (IF l.head = n THEN l.next[n] ELSE l.head)
      /\ m.gen = [l.gen EXCEPT ![n] = 0]
  BY <1>1, <1>4, <1>6 DEF ListType
<1>8. \A a \in Items \ {n} : m.gen[a] = l.gen[a]
  BY <1>2, <1>7
<1>9. \A a, b \in Q : /\ l.gen[a] \in Int /\ m.gen[a] \in Int
                      /\ m.gen[a] = l.gen[a] /\ m.gen[b] = l.gen[b]
  BY <1>1, <1>2, <1>8
<1>10. Distinct(l.gen, Q) /\ First(l.gen, Q, m.head)
  <2>1. Distinct(l.gen, P) /\ First(l.gen, P, l.head) /\ After(l.gen, P, n, l.next[n])
    BY DEF Sorted, Linked
  <2>2. Distinct(l.gen, Q)
    BY <2>1 DEF Distinct
  <2>3. CASE l.head # n
    BY <1>7, <2>1, <2>2, <2>3 DEF First
  <2>4. CASE l.head = n
    <3>1. m.head = l.next[n]
      BY <1>7, <2>4
    <3>2. \A b \in Q : l.gen[b] < l.gen[n]
      <4>1. \A b \in Q : l.gen[b] <= l.gen[n] /\ l.gen[b] # l.gen[n]
        BY <2>1, <2>4 DEF First, Distinct
      <4> QED
        BY <1>1, <1>2, <4>1
    <3>3. ~(l.gen[n] < l.gen[n])
      BY <1>1, <1>2
    <3>4. CASE Q = {}
      <4>1. ~\E b \in P : l.gen[b] < l.gen[n]
        BY <3>3, <3>4
      <4> QED
        BY <2>1, <2>2, <3>1, <3>4, <4>1 DEF After, First
    <3>5. CASE Q # {}
      <4>1. \E b \in P : l.gen[b] < l.gen[n]
        BY <3>2, <3>5
      <4>2. /\ l.next[n] \in P /\ l.gen[l.next[n]] < l.gen[n]
            /\ \A b \in P : l.gen[b] < l.gen[n] => l.gen[b] <= l.gen[l.next[n]]
        BY <2>1, <4>1 DEF After
      <4> QED
        BY <2>2, <3>1, <3>2, <3>3, <3>5, <4>2 DEF First
    <3> QED
      BY <2>2, <3>4, <3>5
  <2> QED
    BY <2>2, <2>3, <2>4
<1>11. \A a \in Q : /\ m.next[a] = (IF a = l.prev[n] THEN l.next[n] ELSE l.next[a])
                    /\ m.prev[a] = (IF a = l.next[n] THEN l.prev[n] ELSE l.prev[a])
  BY <1>1, <1>3, <1>7
<1>12. \A a \in Q : After(l.gen, Q, a, m.next[a]) /\ Before(l.gen, Q, a, m.prev[a])
  BY <1>11, Unlink
<1>13. /\ Distinct(m.gen, Q) /\ First(m.gen, Q, m.head)
       /\ \A a \in Q : After(m.gen, Q, a, m.next[a]) /\ Before(m.gen, Q, a, m.prev[a])
  <2>1. /\ \A a \in Q : l.gen[a] \in Int /\ m.gen[a] \in Int
        /\ \A a, b \in Q : l.gen[a] < l.gen[b] <=> m.gen[a] < m.gen[b]
    BY <1>9
  <2> HIDE DEF Q
  <2> QED
    BY <1>10, <1>12, <2>1, SameOrder
<1>14. Unlinked(m, Q)
  <2> SUFFICES ASSUME NEW a \in Nodes \ Q
               PROVE  m.next[a] = Nil /\ m.prev[a] = Nil
    BY DEF Unlinked
  <2>1. CASE a = n
    BY <1>1, <1>3, <1>7, <2>1
  <2>2. CASE a # n
    <3>1. a \notin P /\ l.next[a] = Nil /\ l.prev[a] = Nil
      BY <2>2 DEF Sorted, Unlinked
    <3>2. l.next[n] \in P \cup {Nil} /\ l.prev[n] \in P \cup {Nil}
      BY DEF Sorted, Linked, After, Before
    <3>3. a # l.next[n] /\ a # l.prev[n]
      BY <1>2, <3>1, <3>2
    <3> QED
      BY <1>3, <1>7, <2>2, <3>1, <3>3
  <2> QED
    BY <2>1, <2>2
<1>15. Sorted(m, Q)
  BY <1>1, <1>7, <1>13, <1>14 DEF Sorted, Linked
<1> QED
  BY <1>8, <1>15 DEF m

\* The links moveNodeInfoToHead sets, when the node is not the head.
LEMMA MovedLinks ==
    ASSUME NEW k \in ListType, NEW n \in Nodes, k.head # n
    PROVE  LET m == moveNodeInfoToHead(k, n)
           IN  /\ m \in ListType /\ m.gen = k.gen /\ m.head = n
               /\ m.next[n] = k.head /\ m.prev[n] = Nil
               /\ \A a \in Nodes \ {n} :
                     /\ m.next[a] = IF a = k.prev[n] THEN k.next[n] ELSE k.next[a]
                     /\ m.prev[a] = IF a = k.head THEN n
                                    ELSE IF a = k.next[n] THEN k.prev[n] ELSE k.prev[a]
<1> DEFINE nexts == k.next
           prevs == k.prev
           head == k.head
           below == nexts[n]
           above == prevs[n]
           nx == [Through(nexts, above, below) EXCEPT ![n] = head]
           pv == [Through(Through(prevs, below, above), head, n) EXCEPT ![n] = Nil]
           m == moveNodeInfoToHead(k, n)
<1>1. /\ nexts \in [Nodes -> Items] /\ prevs \in [Nodes -> Items] /\ head \in Items
      /\ above \in Items /\ below \in Items /\ n \in Items /\ Nil \in Items /\ Nil \notin Nodes
  BY ListTypes DEF Items
<1>2. m = [k EXCEPT !.next = nx, !.prev = pv, !.head = n]
  BY DEF moveNodeInfoToHead
<1>3. nx \in [Nodes -> Items] /\ pv \in [Nodes -> Items]
      /\ nx[n] = head /\ pv[n] = Nil
      /\ \A a \in Nodes \ {n} :
            /\ nx[a] = IF a = above THEN below ELSE nexts[a]
            /\ pv[a] = IF a = head THEN n ELSE IF a = below THEN above ELSE prevs[a]
  <2> HIDE DEF nexts, prevs, head, below, above
  <2>1. /\ Through(nexts, above, below) \in [Nodes -> Items]
        /\ \A a \in Nodes :
              Through(nexts, above, below)[a] = IF a = above THEN below ELSE nexts[a]
    BY <1>1, SnapshotAssumption DEF Through, Items
  <2> DEFINE mid == Through(prevs, below, above)
  <2>2. /\ mid \in [Nodes -> Items]
        /\ \A a \in Nodes : mid[a] = IF a = below THEN above ELSE prevs[a]
    BY <1>1, SnapshotAssumption DEF Through, Items
  <2> HIDE DEF mid
  <2>3. /\ Through(mid, head, n) \in [Nodes -> Items]
        /\ \A a \in Nodes : Through(mid, head, n)[a] = IF a = head THEN n ELSE mid[a]
    BY <1>1, <2>2, SnapshotAssumption DEF Through, Items
  <2>4. nx \in [Nodes -> Items] /\ nx[n] = head
        /\ \A a \in Nodes \ {n} : nx[a] = IF a = above THEN below ELSE nexts[a]
    BY <1>1, <2>1
  <2>5. pv = [Through(mid, head, n) EXCEPT ![n] = Nil]
    BY DEF mid
  <2> HIDE DEF pv
  <2>6. pv \in [Nodes -> Items] /\ pv[n] = Nil
        /\ \A a \in Nodes \ {n} : pv[a] = IF a = head THEN n ELSE mid[a]
    BY <1>1, <2>3, <2>5
  <2> QED
    BY <2>2, <2>4, <2>6
<1> HIDE DEF nx, pv, m
<1>4. m \in ListType /\ m.gen = k.gen /\ m.head = n /\ m.next = nx /\ m.prev = pv
  BY <1>1, <1>2, <1>3 DEF ListType
<1> QED
  BY <1>3, <1>4 DEF m

\* Touched puts the node in front of the others, whose order stays.
LEMMA TouchSorted ==
    ASSUME NEW l, NEW P, Sorted(l, P), NEW n \in Nodes
    PROVE  LET m == Touched(l, n)
           IN  /\ Sorted(m, P \cup {n})
               /\ \A a \in Items \ {n} : m.gen[a] < m.gen[n]
               /\ \A a, b \in Items \ {n} : m.gen[a] < m.gen[b] <=> l.gen[a] < l.gen[b]
<1> DEFINE k == nextGeneration(l, n)
           m == Touched(l, n)
           Q == P \ {n}
           f == IF l.head = n THEN l.next[n] ELSE l.head
           nx(a) == IF a = l.prev[n] THEN l.next[n] ELSE l.next[a]
           pv(a) == IF a = l.next[n] THEN l.prev[n] ELSE l.prev[a]
<1>1. l \in ListType /\ P \subseteq Nodes /\ Q \subseteq Nodes \ {n} /\ Q \cup {n} = P \cup {n}
  BY DEF Sorted
<1>2. /\ k \in ListType
      /\ k.head = l.head /\ k.next = l.next /\ k.prev = l.prev
      /\ \A a \in Items \ {n} : k.gen[a] < k.gen[n]
      /\ \A a, b \in Items \ {n} : k.gen[a] < k.gen[b] <=> l.gen[a] < l.gen[b]
  BY <1>1, NextGeneration
<1>3. m = moveNodeInfoToHead(k, n)
  BY DEF Touched
<1> HIDE DEF k, m
<1>4. /\ \A a \in Items : l.gen[a] \in Int /\ k.gen[a] \in Int
      /\ l.head \in Items /\ Nodes \subseteq Items /\ Nil \notin Nodes /\ Nil \in Items
  BY <1>1, <1>2, ListTypes DEF Items
\* In both cases, the node is put before the first of the others.
<1>5. First(l.gen, Q, f)
  <2>1. First(l.gen, P, l.head)
    BY DEF Sorted
  <2>2. CASE l.head # n
    BY <2>1, <2>2 DEF First
  <2>3. CASE l.head = n
    <3>1. n \in P
      BY <1>4, <2>1, <2>3 DEF First
    <3>2. LET d == removeNodeInfoFromList(l, n)
          IN  Sorted(d, Q) /\ \A a \in Items \ {n} : d.gen[a] = l.gen[a]
      BY <3>1, DropSorted
    <3> DEFINE d == removeNodeInfoFromList(l, n)
    <3>3. d.head = l.next[n]
      BY <1>1, <2>3 DEF removeNodeInfoFromList, ListType
    <3>4. First(d.gen, Q, l.next[n]) /\ \A a \in Q : d.gen[a] = l.gen[a]
      BY <1>1, <1>4, <3>2, <3>3 DEF Sorted
    <3> QED
      BY <2>3, <3>4 DEF First
  <2> QED
    BY <2>2, <2>3
<1>6. /\ Distinct(l.gen, Q)
      /\ \A a \in Q : After(l.gen, Q, a, nx(a)) /\ Before(l.gen, Q, a, pv(a))
  <2>1. Distinct(l.gen, Q)
    BY DEF Sorted, Distinct
  <2>2. CASE n \in P
    BY <2>1, <2>2, Unlink
  <2>3. CASE n \notin P
    <3>1. Q = P /\ l.prev[n] = Nil /\ l.next[n] = Nil
      BY <2>3 DEF Sorted, Unlinked
    <3>2. \A a \in Q : nx(a) = l.next[a] /\ pv(a) = l.prev[a]
      BY <1>1, <1>4, <3>1
    <3> QED
      BY <2>1, <3>1, <3>2 DEF Sorted, Linked
  <2> QED
    BY <2>2, <2>3
<1>7. /\ m \in ListType /\ m.gen = k.gen /\ m.head = n
      /\ m.next[n] = f /\ m.prev[n] = Nil
      /\ \A a \in Q : m.next[a] = nx(a) /\ m.prev[a] = IF a = f THEN n ELSE pv(a)
      /\ \A a \in Nodes \ (Q \cup {n}) : m.next[a] = Nil /\ m.prev[a] = Nil
  <2>1. /\ l.next[n] \in P \cup {Nil} /\ l.prev[n] \in P \cup {Nil}
        /\ \A a \in Nodes \ P : l.next[a] = Nil /\ l.prev[a] = Nil
    <3>1. CASE n \in P
      BY <3>1 DEF Sorted, Linked, Unlinked, After, Before
    <3>2. CASE n \notin P
      BY <3>2 DEF Sorted, Unlinked
    <3> QED
      BY <3>1, <3>2
  <2>2. First(l.gen, P, l.head)
    BY DEF Sorted
  <2>3. CASE l.head # n
    <3>1. /\ m \in ListType /\ m.gen = k.gen /\ m.head = n
          /\ m.next[n] = l.head /\ m.prev[n] = Nil
          /\ \A a \in Nodes \ {n} :
                /\ m.next[a] = IF a = l.prev[n] THEN l.next[n] ELSE l.next[a]
                /\ m.prev[a] = IF a = l.head THEN n
                               ELSE IF a = l.next[n] THEN l.prev[n] ELSE l.prev[a]
      BY <1>2, <1>3, <2>3, MovedLinks
    <3>2. \A a \in Nodes \ (Q \cup {n}) : a # l.head /\ a # l.next[n] /\ a # l.prev[n]
      BY <1>4, <2>1, <2>2 DEF First
    <3>3. f = l.head
      BY <2>3
    <3> QED
      BY <1>1, <2>1, <3>1, <3>2, <3>3
  <2>4. CASE l.head = n
    <3>1. n \in P /\ \A b \in P : l.gen[b] <= l.gen[n]
      BY <1>4, <2>2, <2>4 DEF First
    <3>2. l.prev[n] = Nil
      <4>1. \A b \in P : ~(l.gen[n] < l.gen[b])
        BY <1>1, <1>4, <3>1
      <4> QED
        BY <3>1, <4>1 DEF Sorted, Linked, Before
    <3>3. m = k
      BY <1>2, <1>3, <2>4 DEF moveNodeInfoToHead
    <3>4. f = l.next[n]
      BY <2>4
    <3>5. ASSUME NEW a \in Q
          PROVE  l.next[a] = nx(a) /\ l.prev[a] = IF a = f THEN n ELSE pv(a)
      <4>1. a # l.prev[n]
        BY <1>1, <1>4, <3>2
      <4>2. a = l.next[n] => l.prev[a] = n
        BY <3>1, Neighbours
      <4> QED
        BY <3>4, <4>1, <4>2
    <3> QED
      BY <1>2, <2>1, <2>4, <3>2, <3>3, <3>4, <3>5
  <2> QED
    BY <2>3, <2>4
<1> HIDE DEF Q, f, nx, pv
<1>8. \A a \in Q : a \in Items \ {n}
  BY <1>1, <1>4
<1>9. /\ Distinct(k.gen, Q) /\ First(k.gen, Q, f)
      /\ \A a \in Q : After(k.gen, Q, a, nx(a)) /\ Before(k.gen, Q, a, pv(a))
  <2>1. /\ \A a \in Q : l.gen[a] \in Int /\ k.gen[a] \in Int
        /\ \A a, b \in Q : l.gen[a] < l.gen[b] <=> k.gen[a] < k.gen[b]
    BY <1>2, <1>4, <1>8
  <2> QED
    BY <1>5, <1>6, <2>1, SameOrder
<1>10. /\ n \notin Q /\ n # Nil /\ Nil \notin Q /\ k.gen[n] \in Int
       /\ \A a \in Q : k.gen[a] \in Int /\ k.gen[a] < k.gen[n]
  BY <1>1, <1>2, <1>4, <1>8
<1>11. /\ Distinct(k.gen, Q \cup {n}) /\ First(k.gen, Q \cup {n}, n)
       /\ After(k.gen, Q \cup {n}, n, f) /\ Before(k.gen, Q \cup {n}, n, Nil)
       /\ \A a \in Q : /\ After(k.gen, Q \cup {n}, a, nx(a))
                       /\ Before(k.gen, Q \cup {n}, a, IF a = f THEN n ELSE pv(a))
  BY <1>9, <1>10, NewFirst
<1>12. Linked(m, Q \cup {n})
  BY <1>7, <1>11 DEF Linked
<1>13. Unlinked(m, Q \cup {n})
  BY <1>7 DEF Unlinked
<1>14. Sorted(m, Q \cup {n})
  BY <1>1, <1>7, <1>11, <1>12, <1>13 DEF Sorted
<1> QED
  BY <1>1, <1>2, <1>7, <1>14 DEF m

-----------------------------------------------------------------------------
(* The list follows the cache, and tells what a snapshot has missed.       *)

Present(ns) == {n \in Nodes : ns[n] # Nil}

\* A node that is not newer than the snapshot is in the snapshot as it is.
Current(ns, l, map) ==
    \A n \in Nodes : ns[n] # Nil /\ l.gen[n] <= l.gen[Nil] =>
        map[n] = IF ns[n].node = Nil THEN Nil ELSE ns[n]

Tracks(ns, l, map) == Sorted(l, Present(ns)) /\ Current(ns, l, map)

\* A node changes and is moved to the head.
LEMMA TouchTracks ==
    ASSUME NEW ns, NEW l, NEW map, Tracks(ns, l, map), NEW n \in Nodes,
           NEW new, new[n] # Nil, \A a \in Nodes : a # n => new[a] = ns[a]
    PROVE  Tracks(new, Touched(l, n), map)
<1> DEFINE m == Touched(l, n)
<1>1. /\ Sorted(m, Present(ns) \cup {n})
      /\ \A a \in Items \ {n} : m.gen[a] < m.gen[n]
      /\ \A a, b \in Items \ {n} : m.gen[a] < m.gen[b] <=> l.gen[a] < l.gen[b]
  BY TouchSorted DEF Tracks
<1> HIDE DEF m
<1>2. Present(new) = Present(ns) \cup {n}
  BY DEF Present
<1>3. l \in ListType /\ m \in ListType
  BY <1>1 DEF Sorted, Tracks
<1>4. /\ \A a \in Items : l.gen[a] \in Int /\ m.gen[a] \in Int
      /\ Nodes \subseteq Items /\ Nil \in Items /\ Nil # n
  BY <1>3, ListTypes DEF Items
<1>5. ASSUME NEW a \in Nodes, new[a] # Nil, m.gen[a] <= m.gen[Nil]
      PROVE  map[a] = IF new[a].node = Nil THEN Nil ELSE new[a]
  <2>1. a # n
    BY <1>1, <1>4, <1>5
  <2>2. l.gen[a] <= l.gen[Nil]
    <3>1. ~(m.gen[Nil] < m.gen[a])
      BY <1>4, <1>5
    <3>2. ~(l.gen[Nil] < l.gen[a])
      BY <1>1, <1>4, <2>1, <3>1
    <3> QED
      BY <1>4, <3>2
  <2> QED
    BY <1>5, <2>1, <2>2 DEF Tracks, Current
<1> QED
  BY <1>1, <1>2, <1>5 DEF Tracks, Current, m

\* A node leaves the cache and the list.
LEMMA DropTracks ==
    ASSUME NEW ns, NEW l, NEW map, Tracks(ns, l, map), NEW n \in Nodes, ns[n] # Nil,
           NEW new, new[n] = Nil, \A a \in Nodes : a # n => new[a] = ns[a]
    PROVE  Tracks(new, removeNodeInfoFromList(l, n), map)
<1> DEFINE m == removeNodeInfoFromList(l, n)
<1>1. n \in Present(ns)
  BY DEF Present
<1>2. /\ Sorted(m, Present(ns) \ {n})
      /\ \A a \in Items \ {n} : m.gen[a] = l.gen[a]
  BY <1>1, DropSorted DEF Tracks
<1> HIDE DEF m
<1>3. Present(new) = Present(ns) \ {n}
  BY DEF Present
<1>4. Nodes \subseteq Items /\ Nil \in Items /\ Nil # n
  BY SnapshotAssumption DEF Items
<1>5. ASSUME NEW a \in Nodes, new[a] # Nil, m.gen[a] <= m.gen[Nil]
      PROVE  map[a] = IF new[a].node = Nil THEN Nil ELSE new[a]
  <2>1. a # n /\ l.gen[a] <= l.gen[Nil] /\ new[a] = ns[a]
    BY <1>2, <1>4, <1>5
  <2> QED
    BY <1>5, <2>1 DEF Tracks, Current
<1> QED
  BY <1>2, <1>3, <1>5 DEF Tracks, Current, m

\* addPod and removePod with what they do to the list.
LEMMA PodTracks ==
    ASSUME NEW ns \in NodesMap, NEW l, NEW map, Tracks(ns, l, map), NEW pod \in PodObjects
    PROVE  /\ Tracks(addPod(ns, pod), Touched(l, pod.node), map)
           /\ Tracks(removePod(ns, pod), ReducedByPod(l, ns, pod), map)
<1>1. pod.node \in Nodes
  BY ObjectsAssumption
<1>2. /\ addPod(ns, pod)[pod.node] # Nil
      /\ \A n \in Nodes : n # pod.node =>
            addPod(ns, pod)[n] = ns[n] /\ removePod(ns, pod)[n] = ns[n]
  BY PodsKeepNodes
<1>3. Tracks(addPod(ns, pod), Touched(l, pod.node), map)
  BY <1>1, <1>2, TouchTracks
<1> DEFINE left == removePod(ns, pod)
<1>4. \A n \in Nodes : n # pod.node => left[n] = ns[n]
  BY <1>2
<1>5. CASE ns[pod.node] = Nil
  BY <1>3, <1>5 DEF removePod, ReducedByPod
<1>6. CASE ns[pod.node] # Nil
  <2> HIDE DEF left
  <2>1. ReducedByPod(l, ns, pod) =
           IF left[pod.node] = Nil THEN removeNodeInfoFromList(l, pod.node)
           ELSE Touched(l, pod.node)
    BY <1>6 DEF ReducedByPod, Reduced, left
  <2>2. CASE left[pod.node] = Nil
    <3>1. Tracks(left, removeNodeInfoFromList(l, pod.node), map)
      BY <1>1, <1>4, <1>6, <2>2, DropTracks
    <3> QED
      BY <1>3, <2>1, <2>2, <3>1 DEF left
  <2>3. CASE left[pod.node] # Nil
    <3>1. Tracks(left, Touched(l, pod.node), map)
      BY <1>1, <1>4, <2>3, TouchTracks
    <3> QED
      BY <1>3, <2>1, <2>3, <3>1 DEF left
  <2> QED
    BY <2>2, <2>3
<1> QED
  BY <1>5, <1>6

\* What an operation on pods does to nodes and list, together.
LEMMA PodChange ==
    ASSUME IInv, SnapPodOperation
    PROVE  /\ UNCHANGED <<nodeTree, zoneTree, imageStates, snapshot>>
           /\ \/ nodes' = nodes /\ items' = items
              \/ \E pod \in PodObjects :
                    nodes' = addPod(nodes, pod) /\ items' = Touched(items, pod.node)
              \/ \E pod \in PodObjects :
                    nodes' = removePod(nodes, pod) /\ items' = ReducedByPod(items, nodes, pod)
              \/ \E old, new \in PodObjects :
                    /\ nodes' = addPod(removePod(nodes, old), new)
                    /\ items' = Touched(ReducedByPod(items, nodes, old), new.node)
<1> DEFINE Change ==
      /\ UNCHANGED <<nodeTree, zoneTree, imageStates, snapshot>>
      /\ \/ nodes' = nodes /\ items' = items
         \/ \E pod \in PodObjects :
               nodes' = addPod(nodes, pod) /\ items' = Touched(items, pod.node)
         \/ \E pod \in PodObjects :
               nodes' = removePod(nodes, pod) /\ items' = ReducedByPod(items, nodes, pod)
         \/ \E old, new \in PodObjects :
               /\ nodes' = addPod(removePod(nodes, old), new)
               /\ items' = Touched(ReducedByPod(items, nodes, old), new.node)
<1>1. ASSUME NEW o \in PodObjects, SnapAssumePod(o)
      PROVE  Change
  BY <1>1 DEF SnapAssumePod, AssumePod, vars
<1>2. ASSUME NEW o \in PodObjects, SnapForgetPod(o)
      PROVE  Change
  BY <1>2 DEF SnapForgetPod, ForgetPod, vars
<1>3. ASSUME NEW o \in PodObjects, SnapAddPod(o)
      PROVE  Change
  <2> DEFINE ps == podStates[o.uid]
  <2>1. o.uid \in Pods
    BY ObjectsAssumption
  <2>2. UNCHANGED <<nodeTree, zoneTree, imageStates, snapshot>>
    BY <1>3 DEF SnapAddPod, AddPod, ConfirmPod, vars
  <2>3. CASE ps = Nil
    <3>1. nodes' = addPod(nodes, o)
      BY <1>3, <2>3 DEF SnapAddPod, AddPod, ConfirmPod, IsAddedPod
    <3>2. items' = Touched(items, o.node)
      BY <1>3, <2>3 DEF SnapAddPod
    <3> QED
      BY <2>2, <3>1, <3>2
  <2>4. CASE ps # Nil /\ IsAssumedPod(o.uid) /\ ps.pod.node # o.node
    <3>1. ps.pod \in PodObjects /\ ps.pod.uid = o.uid /\ ps.pod.node \in Nodes
      BY <2>1, <2>4, CachedObject
    <3>2. Removable(nodes, ps.pod)
      BY <2>1, <2>4, <3>1, InvOfMap DEF Removable, Holds
    <3>3. nodes' = addPod(removePod(nodes, ps.pod), o)
      BY <1>3, <2>4, <3>2 DEF SnapAddPod, AddPod, ConfirmPod, IsAddedPod, IsAssumedPod
    <3>4. items' = Touched(ReducedByPod(items, nodes, ps.pod), o.node)
      BY <1>3, <2>4, <3>2 DEF SnapAddPod
    <3> QED
      BY <2>2, <3>1, <3>3, <3>4
  <2>5. CASE ps # Nil /\ ~(IsAssumedPod(o.uid) /\ ps.pod.node # o.node)
    <3>1. nodes' = nodes
      BY <1>3, <2>5 DEF SnapAddPod, AddPod, ConfirmPod, vars
    <3>2. items' = items
      BY <1>3, <2>5 DEF SnapAddPod
    <3> QED
      BY <2>2, <3>1, <3>2
  <2> QED
    BY <2>3, <2>4, <2>5
<1>4. ASSUME NEW o \in PodObjects, SnapRemovePod(o)
      PROVE  Change
  <2>1. CASE Deletable(o)
    <3>1. podStates[o.uid] # Nil /\ ~NamesOtherNode(o)
      BY <2>1 DEF Deletable, IsAddedPod, NamesOtherNode
    <3>2. podStates[o.uid].pod \in PodObjects
      BY <3>1, ObjectsAssumption, CachedObject
    <3>3. /\ nodes' = removePod(nodes, podStates[o.uid].pod)
          /\ UNCHANGED <<nodeTree, zoneTree, imageStates, snapshot>>
          /\ items' = ReducedByPod(items, nodes, podStates[o.uid].pod)
      BY <1>4, <2>1, <3>1 DEF SnapRemovePod, RemovePod, CorruptedBy
    <3> QED
      BY <3>2, <3>3
  <2>2. CASE ~Deletable(o)
    BY <1>4, <2>2 DEF SnapRemovePod, RemovePod, CorruptedBy, vars
  <2> QED
    BY <2>1, <2>2
<1>5. ASSUME NEW old \in PodObjects, NEW new \in PodObjects, old.uid = new.uid,
             old.node = new.node, SnapUpdatePod(old, new)
      PROVE  Change
  <2>1. CASE Updatable(old, new)
    <3>1. ~NamesOtherNode(new)
      BY <1>5, <2>1 DEF Updatable, NamesOtherNode
    <3>2. /\ nodes' = addPod(removePod(nodes, old), new)
          /\ UNCHANGED <<nodeTree, zoneTree, imageStates, snapshot>>
          /\ items' = Touched(ReducedByPod(items, nodes, old), new.node)
      BY <1>5, <2>1, <3>1 DEF SnapUpdatePod, UpdatePod, CorruptedBy, updatePod
    <3> QED
      BY <3>2
  <2>2. CASE ~Updatable(old, new)
    BY <1>5, <2>2 DEF SnapUpdatePod, UpdatePod, CorruptedBy, vars
  <2> QED
    BY <2>1, <2>2
<1>6. ASSUME NEW uid \in Pods, SnapFinishBinding(uid)
      PROVE  Change
  BY <1>6 DEF SnapFinishBinding, FinishBinding, vars, snapVars
<1>7. ASSUME NEW uid \in Pods, SnapExpirePod(uid)
      PROVE  Change
  <2>1. podStates[uid].pod \in PodObjects
    BY <1>7, CachedObject DEF SnapExpirePod, ExpirePod
  <2> QED
    BY <1>7, <2>1 DEF SnapExpirePod, ExpirePod
<1> QED
  BY <1>1, <1>2, <1>3, <1>4, <1>5, <1>6, <1>7 DEF SnapPodOperation

\* Operations on pods keep the list and leave the v1.Nodes alone.
LEMMA PodsTracked ==
    ASSUME IInv, SnapPodOperation, NEW map, Tracks(nodes, items, map)
    PROVE  /\ UNCHANGED <<nodeTree, zoneTree, imageStates, snapshot>>
           /\ Tracks(nodes', items', map)
           /\ \A n \in Nodes : NodeOf(nodes', n) = NodeOf(nodes, n)
<1>1. nodes \in NodesMap
  BY InvOfMap
<1>2. UNCHANGED <<nodeTree, zoneTree, imageStates, snapshot>>
  BY PodChange
<1>3. CASE nodes' = nodes /\ items' = items
  BY <1>2, <1>3
<1>4. ASSUME NEW pod \in PodObjects,
             nodes' = addPod(nodes, pod), items' = Touched(items, pod.node)
      PROVE  Tracks(nodes', items', map) /\ \A n \in Nodes : NodeOf(nodes', n) = NodeOf(nodes, n)
  BY <1>1, <1>4, PodTracks, PodsKeepNodes
<1>5. ASSUME NEW pod \in PodObjects,
             nodes' = removePod(nodes, pod), items' = ReducedByPod(items, nodes, pod)
      PROVE  Tracks(nodes', items', map) /\ \A n \in Nodes : NodeOf(nodes', n) = NodeOf(nodes, n)
  BY <1>1, <1>5, PodTracks, PodsKeepNodes
<1>6. ASSUME NEW old \in PodObjects, NEW new \in PodObjects,
             nodes' = addPod(removePod(nodes, old), new),
             items' = Touched(ReducedByPod(items, nodes, old), new.node)
      PROVE  Tracks(nodes', items', map) /\ \A n \in Nodes : NodeOf(nodes', n) = NodeOf(nodes, n)
  <2> DEFINE cleaned == removePod(nodes, old)
             shorter == ReducedByPod(items, nodes, old)
  <2>1. /\ cleaned \in NodesMap /\ Tracks(cleaned, shorter, map)
        /\ \A n \in Nodes : NodeOf(cleaned, n) = NodeOf(nodes, n)
    BY <1>1, PodTracks, PodsKeepNodes
  <2>2. nodes' = addPod(cleaned, new) /\ items' = Touched(shorter, new.node)
    BY <1>6
  <2> HIDE DEF cleaned, shorter
  <2>3. Tracks(addPod(cleaned, new), Touched(shorter, new.node), map)
    BY <2>1, PodTracks
  <2>4. \A n \in Nodes : NodeOf(addPod(cleaned, new), n) = NodeOf(cleaned, n)
    BY <2>1, PodsKeepNodes
  <2> QED
    BY <2>1, <2>2, <2>3, <2>4
<1> QED
  BY <1>2, <1>3, <1>4, <1>5, <1>6, PodChange

\* A node is added or updated.
LEMMA SetTracked ==
    ASSUME IInv, NEW map, Tracks(nodes, items, map), NEW n \in Nodes, NEW obj \in NodeObjects,
           nodes' = [nodes EXCEPT ![n] = InfoSetNode(InfoOf(nodes, n), obj)],
           items' = Touched(items, n)
    PROVE  /\ Tracks(nodes', items', map)
           /\ NodeOf(nodes', n) = obj /\ obj # Nil
           /\ \A a \in Nodes : a # n => NodeOf(nodes', a) = NodeOf(nodes, a)
<1> DEFINE new == InfoSetNode(InfoOf(nodes, n), obj)
<1>1. InfoOf(nodes, n) \in NodeInfo /\ nodes \in NodesMap
  BY InvOfMap, InfoOfType
<1>2. new \in NodeInfo /\ new.node = obj
  BY <1>1 DEF InfoSetNode, NodeInfo
<1>3. new # Nil /\ obj # Nil
  BY <1>2, NilAssumption, ObjectsAssumption
<1> HIDE DEF new
<1>4. nodes'[n] = new /\ \A a \in Nodes : a # n => nodes'[a] = nodes[a]
  BY <1>1 DEF NodesMap, new
<1>5. Tracks(nodes', items', map)
  BY <1>3, <1>4, TouchTracks
<1> QED
  BY <1>2, <1>3, <1>4, <1>5 DEF NodeOf, InfoOf

\* A node is removed: its ghost moves to the head, or it leaves the list.
LEMMA RemoveTracked ==
    ASSUME IInv, NEW map, Tracks(nodes, items, map), NEW n \in nodeTree,
           RemoveNode(n), items' = Reduced(items, n, nodes')
    PROVE  /\ Tracks(nodes', items', map)
           /\ NodeOf(nodes', n) = Nil
           /\ \A a \in Nodes : a # n => NodeOf(nodes', a) = NodeOf(nodes, a)
<1>1. n \in Nodes /\ nodes[n] # Nil /\ nodes \in NodesMap
  BY InvOfMap DEF IInv, TypeOK, TreeMatchesNodes
<1> DEFINE bare == InfoSetNode(nodes[n], Nil)
<1>2. nodes[n] \in NodeInfo
  BY <1>1 DEF NodesMap
<1>3. bare \in NodeInfo /\ bare.node = Nil
  BY <1>2 DEF InfoSetNode, NodeInfo
<1>4. bare # Nil
  BY <1>3, NilAssumption
<1>5. nodes' = [nodes EXCEPT ![n] = KeepOrDrop(bare)]
  BY <1>1 DEF RemoveNode
<1> HIDE DEF bare
<1>6. nodes'[n] = KeepOrDrop(bare) /\ \A a \in Nodes : a # n => nodes'[a] = nodes[a]
  BY <1>1, <1>5 DEF NodesMap
<1>7. KeepOrDrop(bare) \in {Nil, bare}
  BY DEF KeepOrDrop
<1>8. NodeOf(nodes', n) = Nil
  BY <1>3, <1>6, <1>7 DEF NodeOf, InfoOf, NewNodeInfo
<1>9. \A a \in Nodes : a # n => NodeOf(nodes', a) = NodeOf(nodes, a)
  BY <1>6 DEF NodeOf, InfoOf
<1>10. CASE nodes'[n] = Nil
  BY <1>1, <1>6, <1>8, <1>9, <1>10, DropTracks DEF Reduced
<1>11. CASE nodes'[n] # Nil
  BY <1>1, <1>6, <1>8, <1>9, <1>11, TouchTracks DEF Reduced
<1> QED
  BY <1>10, <1>11

-----------------------------------------------------------------------------
(* Image states.                                                           *)

\* What ImagesWhereTheyAre says in terms of the v1.Nodes.
ImagesOn(states, ns) ==
    \A i \in Images :
        states[i] = {n \in Nodes : NodeOf(ns, n) # Nil /\ i \in ImagesOf(NodeOf(ns, n))}

LEMMA ImagesMeaning ==
    ASSUME IInv
    PROVE  ImagesWhereTheyAre <=> ImagesOn(imageStates, nodes)
<1>1. \A i \in Images :
         {n \in nodeTree : i \in ImagesOf(nodes[n].node)}
            = {n \in Nodes : NodeOf(nodes, n) # Nil /\ i \in ImagesOf(NodeOf(nodes, n))}
  BY KnownNodes
<1> QED
  BY <1>1 DEF ImagesWhereTheyAre, ImagesOn

\* The v1.Node of one node changes, and the image states with it.
LEMMA ImagesFollow ==
    ASSUME NEW states, NEW ns, NEW new, ImagesOn(states, ns), NEW n \in Nodes,
           \A a \in Nodes : a # n => NodeOf(new, a) = NodeOf(ns, a)
    PROVE  /\ NodeOf(new, n) = Nil =>
                 ImagesOn(removeNodeImageStates(states, n, NodeOf(ns, n)), new)
           /\ NodeOf(new, n) # Nil =>
                 ImagesOn(addNodeImageStates(removeNodeImageStates(states, n, NodeOf(ns, n)),
                                             n, NodeOf(new, n)), new)
<1> DEFINE without == removeNodeImageStates(states, n, NodeOf(ns, n))
           On1(i, m, a) == NodeOf(m, a) # Nil /\ i \in ImagesOf(NodeOf(m, a))
<1>1. ASSUME NEW i \in Images
      PROVE  without[i] = {a \in Nodes : a # n /\ On1(i, ns, a)}
  <2>1. states[i] = {a \in Nodes : On1(i, ns, a)}
    BY DEF ImagesOn
  <2>2. CASE On1(i, ns, n)
    <3>1. without[i] = states[i] \ {n}
      BY <2>2 DEF removeNodeImageStates
    <3> QED
      BY <2>1, <3>1
  <2>3. CASE ~On1(i, ns, n)
    <3>1. without[i] = states[i]
      BY <2>3 DEF removeNodeImageStates
    <3> QED
      BY <2>1, <2>3, <3>1
  <2> QED
    BY <2>2, <2>3
<1> HIDE DEF without
<1>2. \A a \in Nodes : a # n => \A i \in Images : On1(i, new, a) <=> On1(i, ns, a)
  OBVIOUS
<1>3. ASSUME NodeOf(new, n) = Nil
      PROVE  ImagesOn(without, new)
  <2>1. ASSUME NEW i \in Images
        PROVE  without[i] = {a \in Nodes : On1(i, new, a)}
    BY <1>1, <1>2, <1>3
  <2> QED
    BY <2>1 DEF ImagesOn
<1>4. ASSUME NodeOf(new, n) # Nil
      PROVE  ImagesOn(addNodeImageStates(without, n, NodeOf(new, n)), new)
  <2>1. ASSUME NEW i \in Images
        PROVE  addNodeImageStates(without, n, NodeOf(new, n))[i]
                  = {a \in Nodes : On1(i, new, a)}
    <3>1. addNodeImageStates(without, n, NodeOf(new, n))[i]
             = IF i \in ImagesOf(NodeOf(new, n)) THEN without[i] \cup {n} ELSE without[i]
      BY DEF addNodeImageStates
    <3> QED
      BY <1>1, <1>2, <1>4, <3>1
  <2> QED
    BY <2>1 DEF ImagesOn
<1> QED
  BY <1>3, <1>4 DEF without

-----------------------------------------------------------------------------
(* The list and the image states, step by step.                            *)

ListSorted == Sorted(items, Present(nodes))

ImagesRight == ImagesOn(imageStates, nodes)

\* The empty list.
LEMMA NoItemsSorted == Sorted(NoItems, {})
<1>1. Cardinality(Nodes) \in Nat
  BY SnapshotAssumption, FS_CardinalityType
<1>2. NoItems \in ListType
  <2>1. 0 \in 0 .. MaxGen
    BY <1>1 DEF MaxGen
  <2> QED
    BY <2>1 DEF NoItems, ListType, Items
<1>3. NoItems.head = Nil /\ \A a \in Nodes : NoItems.next[a] = Nil /\ NoItems.prev[a] = Nil
  BY DEF NoItems
<1> QED
  BY <1>2, <1>3 DEF Sorted, Distinct, First, Linked, Unlinked

\* What UpdateSnapshot does to the list: it only takes over the newest generation.
LEMMA TakenSorted ==
    ASSUME NEW l, NEW P, Sorted(l, P), l.head # Nil
    PROVE  LET m == [l EXCEPT !.gen[Nil] = l.gen[l.head]]
           IN  /\ Sorted(m, P) /\ m.gen[Nil] = l.gen[l.head]
               /\ \A a \in Nodes : m.gen[a] = l.gen[a]
<1> DEFINE m == [l EXCEPT !.gen[Nil] = l.gen[l.head]]
<1>1. l \in ListType /\ P \subseteq Nodes
  BY DEF Sorted
<1>2. /\ l.head \in Items /\ l.gen \in [Items -> 0 .. MaxGen] /\ Nil \notin Nodes
      /\ Nodes \subseteq Items /\ Nil \in Items
  BY <1>1, ListTypes DEF Items
<1>3. /\ m \in ListType /\ m.head = l.head /\ m.next = l.next /\ m.prev = l.prev
      /\ m.gen = [l.gen EXCEPT ![Nil] = l.gen[l.head]]
  BY <1>1, <1>2 DEF ListType
<1>4. /\ m.gen[Nil] = l.gen[l.head] /\ \A a \in Nodes : m.gen[a] = l.gen[a]
  BY <1>2, <1>3
<1> HIDE DEF m
<1>5. \A a \in P : m.gen[a] = l.gen[a]
  BY <1>1, <1>4
<1>6. Distinct(m.gen, P)
  BY <1>5 DEF Sorted, Distinct
<1>7. First(m.gen, P, m.head)
  BY <1>3, <1>5 DEF Sorted, First
<1>8. ASSUME NEW a \in P
      PROVE  After(m.gen, P, a, m.next[a]) /\ Before(m.gen, P, a, m.prev[a])
  <2>1. After(l.gen, P, a, l.next[a]) /\ Before(l.gen, P, a, l.prev[a])
    BY DEF Sorted, Linked
  <2>2. After(m.gen, P, a, l.next[a])
    BY <1>5, <2>1 DEF After
  <2>3. Before(m.gen, P, a, l.prev[a])
    BY <1>5, <2>1 DEF Before
  <2> QED
    BY <1>3, <2>2, <2>3
<1>9. Unlinked(m, P)
  BY <1>3 DEF Sorted, Unlinked
<1> QED
  BY <1>1, <1>3, <1>4, <1>6, <1>7, <1>8, <1>9 DEF Sorted, Linked, m

\* At the start, and after a restart.
LEMMA NothingCached ==
    ASSUME NEW ns, ns = [n \in Nodes |-> Nil]
    PROVE  Present(ns) = {} /\ \A n \in Nodes : NodeOf(ns, n) = Nil
BY DEF Present, NodeOf, InfoOf, NewNodeInfo

\* Every step keeps the order of the list and the image states.
LEMMA ListStep ==
    ASSUME IInv, ListSorted, ImagesRight, [SnapNext]_allVars
    PROVE  ListSorted' /\ ImagesRight'
<1> DEFINE map == [n \in Nodes |-> IF nodes[n] = Nil THEN Nil
                                  ELSE IF nodes[n].node = Nil THEN Nil ELSE nodes[n]]
<1>1. Tracks(nodes, items, map)
  BY DEF ListSorted, Tracks, Current
<1> HIDE DEF map
<1>2. nodeTree \subseteq Nodes
  BY DEF IInv, TypeOK
<1>3. ASSUME SnapPodOperation
      PROVE  ListSorted' /\ ImagesRight'
  <2>1. /\ Tracks(nodes', items', map) /\ imageStates' = imageStates
        /\ \A n \in Nodes : NodeOf(nodes', n) = NodeOf(nodes, n)
    BY <1>1, <1>3, PodsTracked
  <2>2. ImagesOn(imageStates', nodes')
    BY <2>1 DEF ImagesRight, ImagesOn
  <2> QED
    BY <2>1, <2>2 DEF Tracks, ListSorted, ImagesRight
<1>4. ASSUME NEW n \in Nodes, NEW node \in NodeObjects, SnapAddNode(n, node)
      PROVE  ListSorted' /\ ImagesRight'
  <2>1. /\ Tracks(nodes', items', map)
        /\ NodeOf(nodes', n) = node /\ node # Nil
        /\ \A a \in Nodes : a # n => NodeOf(nodes', a) = NodeOf(nodes, a)
    BY <1>1, <1>4, SetTracked DEF SnapAddNode, AddNode
  <2>2. imageStates' = addNodeImageStates(
                         removeNodeImageStates(imageStates, n, NodeOf(nodes, n)), n, node)
    BY <1>4 DEF SnapAddNode, NodeOf
  <2>3. ImagesOn(imageStates', nodes')
    BY <2>1, <2>2, ImagesFollow DEF ImagesRight
  <2> QED
    BY <2>1, <2>3 DEF Tracks, ListSorted, ImagesRight
<1>5. ASSUME NEW n \in nodeTree, NEW node \in NodeObjects, SnapUpdateNode(n, node)
      PROVE  ListSorted' /\ ImagesRight'
  <2>1. n \in Nodes /\ nodes[n].node = NodeOf(nodes, n)
    BY KnownNodes
  <2>2. /\ Tracks(nodes', items', map)
        /\ NodeOf(nodes', n) = node /\ node # Nil
        /\ \A a \in Nodes : a # n => NodeOf(nodes', a) = NodeOf(nodes, a)
    BY <1>1, <1>5, <2>1, SetTracked DEF SnapUpdateNode, UpdateNode
  <2>3. imageStates' = addNodeImageStates(
                         removeNodeImageStates(imageStates, n, NodeOf(nodes, n)), n, node)
    BY <1>5, <2>1 DEF SnapUpdateNode
  <2>4. ImagesOn(imageStates', nodes')
    BY <2>1, <2>2, <2>3, ImagesFollow DEF ImagesRight
  <2> QED
    BY <2>2, <2>4 DEF Tracks, ListSorted, ImagesRight
<1>6. ASSUME NEW n \in nodeTree, SnapRemoveNode(n)
      PROVE  ListSorted' /\ ImagesRight'
  <2>1. n \in Nodes /\ nodes[n].node = NodeOf(nodes, n)
    BY KnownNodes
  <2>2. /\ Tracks(nodes', items', map)
        /\ NodeOf(nodes', n) = Nil
        /\ \A a \in Nodes : a # n => NodeOf(nodes', a) = NodeOf(nodes, a)
    BY <1>1, <1>6, RemoveTracked DEF SnapRemoveNode
  <2>3. imageStates' = removeNodeImageStates(imageStates, n, NodeOf(nodes, n))
    BY <1>6, <2>1 DEF SnapRemoveNode
  <2>4. ImagesOn(imageStates', nodes')
    BY <2>1, <2>2, <2>3, ImagesFollow DEF ImagesRight
  <2> QED
    BY <2>2, <2>4 DEF Tracks, ListSorted, ImagesRight
<1>7. ASSUME UpdateSnapshot
      PROVE  ListSorted' /\ ImagesRight'
  <2>1. nodes' = nodes /\ imageStates' = imageStates
    BY <1>7 DEF UpdateSnapshot, vars
  <2>2. Sorted(items', Present(nodes))
    <3>1. CASE items.head = Nil
      BY <1>7, <3>1 DEF UpdateSnapshot, ListSorted
    <3>2. CASE items.head # Nil
      BY <1>7, <3>2, TakenSorted DEF UpdateSnapshot, ListSorted
    <3> QED
      BY <3>1, <3>2
  <2> QED
    BY <2>1, <2>2 DEF ListSorted, ImagesRight
<1>8. ASSUME SnapRestart
      PROVE  ListSorted' /\ ImagesRight'
  <2>1. nodes' = [n \in Nodes |-> Nil] /\ items' = NoItems /\ imageStates' = NoImages
    BY <1>8 DEF SnapRestart, Restart
  <2>2. Present(nodes') = {} /\ \A n \in Nodes : NodeOf(nodes', n) = Nil
    BY <2>1, NothingCached
  <2> QED
    BY <2>1, <2>2, NoItemsSorted DEF ListSorted, ImagesRight, ImagesOn, NoImages
<1>9. ASSUME UNCHANGED allVars
      PROVE  ListSorted' /\ ImagesRight'
  BY <1>9 DEF allVars, vars, snapVars, ListSorted, ImagesRight
<1> QED
  BY <1>2, <1>3, <1>4, <1>5, <1>6, <1>7, <1>8, <1>9, NothingRemoved
     DEF SnapNext, SnapNodeOperation

LEMMA ListInvariant == SnapSpec => [](IInv /\ ListSorted /\ ImagesRight)
<1>1. SnapInit => ListSorted /\ ImagesRight
  <2> SUFFICES ASSUME SnapInit PROVE ListSorted /\ ImagesRight
    OBVIOUS
  <2>1. nodes = [n \in Nodes |-> Nil] /\ items = NoItems /\ imageStates = NoImages
    BY DEF SnapInit, Init
  <2>2. Present(nodes) = {} /\ \A n \in Nodes : NodeOf(nodes, n) = Nil
    BY <2>1, NothingCached
  <2> QED
    BY <2>1, <2>2, NoItemsSorted DEF ListSorted, ImagesRight, ImagesOn, NoImages
<1>2. IInv /\ ListSorted /\ ImagesRight /\ [SnapNext]_allVars => ListSorted' /\ ImagesRight'
  BY ListStep
<1> QED
  BY <1>1, <1>2, CacheInvariant, PTL DEF SnapSpec, allVars

\* addNodeImageStates and removeNodeImageStates count an image on exactly the nodes that
\* report it: AddNode and UpdateNode first take the node out of the images of the object
\* that the cache holds, which for a node that comes back over its ghost is none.
THEOREM ImagesAreWhereTheyAre == SnapSpec => []ImagesWhereTheyAre
<1>1. IInv /\ ImagesRight => ImagesWhereTheyAre
  BY ImagesMeaning DEF ImagesRight
<1> QED
  BY <1>1, ListInvariant, PTL

-----------------------------------------------------------------------------
(* Walking the list.                                                       *)

\* A recursion over numbers has a value at every step.
Iterates(f, k, h, step) ==
    f[0] = h /\ \A j \in 1 .. k : f[j] = step[j][f[j - 1]]

LEMMA Iteration ==
    ASSUME NEW S, NEW h \in S, NEW step \in [Nat -> [S -> S]]
    PROVE  \A k \in Nat : \E f \in [0 .. k -> S] : Iterates(f, k, h, step)
<1> DEFINE A == {k \in Nat : \E f \in [0 .. k -> S] : Iterates(f, k, h, step)}
<1>1. 0 \in A
  <2> DEFINE f == [j \in 0 .. 0 |-> h]
  <2>1. f \in [0 .. 0 -> S] /\ Iterates(f, 0, h, step)
    BY DEF Iterates
  <2> QED
    BY <2>1
<1>2. ASSUME NEW k \in Nat, k \in A
      PROVE  k + 1 \in A
  <2>1. PICK f \in [0 .. k -> S] : Iterates(f, k, h, step)
    BY <1>2
  <2> DEFINE g == [j \in 0 .. k + 1 |-> IF j <= k THEN f[j] ELSE step[j][f[k]]]
  <2>2. f[k] \in S /\ k + 1 \in Nat
    OBVIOUS
  <2>3. step[k + 1][f[k]] \in S
    BY <2>2
  <2>4. g \in [0 .. k + 1 -> S]
    BY <2>3
  <2>5. g[k + 1] = step[k + 1][f[k]] /\ \A j \in 0 .. k : g[j] = f[j]
    OBVIOUS
  <2> HIDE DEF g
  <2>6. g[0] = h
    BY <2>1, <2>5 DEF Iterates
  <2>7. ASSUME NEW j \in 1 .. k + 1
        PROVE  g[j] = step[j][g[j - 1]]
    <3>1. CASE j = k + 1
      BY <2>5, <3>1
    <3>2. CASE j # k + 1
      <4>1. j \in 1 .. k /\ j \in 0 .. k /\ j - 1 \in 0 .. k
        BY <3>2
      <4> QED
        BY <2>1, <2>5, <4>1 DEF Iterates
    <3> QED
      BY <3>1, <3>2
  <2>8. Iterates(g, k + 1, h, step)
    BY <2>6, <2>7 DEF Iterates
  <2> QED
    BY <2>4, <2>8
<1> HIDE DEF A
<1>3. \A k \in Nat : k \in A
  BY <1>1, <1>2, NatSetInduction
<1> QED
  BY <1>3 DEF A

\* And one only.
LEMMA OneIteration ==
    ASSUME NEW h, NEW step, NEW k \in Nat, NEW m \in Nat, k <= m, NEW f, NEW g,
           Iterates(f, k, h, step), Iterates(g, m, h, step)
    PROVE  \A j \in 0 .. k : f[j] = g[j]
<1> DEFINE A == {j \in Nat : j <= k => f[j] = g[j]}
<1>1. 0 \in A
  BY DEF Iterates
<1>2. ASSUME NEW j \in Nat, j \in A
      PROVE  j + 1 \in A
  <2>1. SUFFICES ASSUME j + 1 <= k PROVE f[j + 1] = g[j + 1]
    OBVIOUS
  <2>2. j + 1 \in 1 .. k /\ j + 1 \in 1 .. m /\ (j + 1) - 1 = j /\ f[j] = g[j]
    BY <1>2, <2>1
  <2>3. f[j + 1] = step[j + 1][f[(j + 1) - 1]] /\ g[j + 1] = step[j + 1][g[(j + 1) - 1]]
    BY <2>2 DEF Iterates
  <2> QED
    BY <2>2, <2>3
<1> HIDE DEF A
<1>3. \A j \in Nat : j \in A
  BY <1>1, <1>2, NatSetInduction
<1> QED
  BY <1>3 DEF A

\* ItemAt starts at the head and follows next.
LEMMA WalkSteps ==
    ASSUME NEW l \in ListType
    PROVE  /\ \A k \in Nat : ItemAt(l, k) \in Items
           /\ ItemAt(l, 0) = l.head
           /\ \A k \in Nat : ItemAt(l, k + 1) =
                 IF ItemAt(l, k) = Nil THEN Nil ELSE l.next[ItemAt(l, k)]
<1> DEFINE follow == [x \in Items |-> IF x = Nil THEN Nil ELSE l.next[x]]
           step == [j \in Nat |-> follow]
<1>1. l.head \in Items /\ \A x \in Items : x # Nil => l.next[x] \in Items
  BY ListTypes DEF Items
<1>2. follow \in [Items -> Items]
  BY <1>1 DEF Items
<1>3. step \in [Nat -> [Items -> Items]] /\ \A j \in Nat : step[j] = follow
  BY <1>2
<1>4. \A x \in Items : follow[x] = IF x = Nil THEN Nil ELSE l.next[x]
  OBVIOUS
<1> HIDE DEF follow, step
<1>5. ASSUME NEW k \in Nat
      PROVE  \E f \in [0 .. k -> Items] : Iterates(f, k, l.head, step) /\ ItemAt(l, k) = f[k]
  <2> DEFINE Body(f) == [j \in 0 .. k |-> IF j = 0 THEN l.head
                                          ELSE IF f[j - 1] = Nil THEN Nil ELSE l.next[f[j - 1]]]
             at == CHOOSE f : f = Body(f)
  <2>1. PICK f \in [0 .. k -> Items] : Iterates(f, k, l.head, step)
    BY <1>1, <1>3, Iteration
  <2>2. \A j \in 0 .. k : f[j] = Body(f)[j]
    <3> SUFFICES ASSUME NEW j \in 0 .. k PROVE f[j] = Body(f)[j]
      OBVIOUS
    <3>1. CASE j = 0
      BY <2>1, <3>1 DEF Iterates
    <3>2. CASE j # 0
      <4>1. j \in 1 .. k /\ j \in Nat /\ f[j - 1] \in Items
        BY <3>2
      <4>2. f[j] = follow[f[j - 1]]
        BY <1>3, <2>1, <4>1 DEF Iterates
      <4> QED
        BY <1>4, <3>2, <4>1, <4>2
    <3> QED
      BY <3>1, <3>2
  <2>3. f = Body(f)
    BY <2>2
  <2>4. at = Body(at)
    BY <2>3
  <2>5. ItemAt(l, k) = at[k]
    BY DEF ItemAt
  <2>6. /\ at[0] = l.head
        /\ \A j \in 1 .. k : at[j] = IF at[j - 1] = Nil THEN Nil ELSE l.next[at[j - 1]]
    <3>1. \A j \in 0 .. k : at[j] = Body(at)[j]
      BY <2>4
    <3>2. \A j \in 0 .. k : Body(at)[j] = IF j = 0 THEN l.head
                              ELSE IF at[j - 1] = Nil THEN Nil ELSE l.next[at[j - 1]]
      OBVIOUS
    <3> HIDE DEF at, Body
    <3> QED
      BY <3>1, <3>2
  <2> HIDE DEF at
  <2>7. \A j \in 0 .. k : at[j] = f[j]
    <3> DEFINE A == {j \in Nat : j <= k => at[j] = f[j]}
    <3>1. 0 \in A
      BY <2>1, <2>6 DEF Iterates
    <3>2. ASSUME NEW j \in Nat, j \in A
          PROVE  j + 1 \in A
      <4>1. SUFFICES ASSUME j + 1 <= k PROVE at[j + 1] = f[j + 1]
        OBVIOUS
      <4>2. j + 1 \in 1 .. k /\ (j + 1) - 1 = j /\ at[j] = f[j] /\ f[j] \in Items
        BY <3>2, <4>1
      <4>3. f[j + 1] = follow[f[j]]
        BY <1>3, <2>1, <4>2 DEF Iterates
      <4> QED
        BY <1>4, <2>6, <4>2, <4>3
    <3> HIDE DEF A
    <3>3. \A j \in Nat : j \in A
      BY <3>1, <3>2, NatSetInduction
    <3> QED
      BY <3>3 DEF A
  <2> QED
    BY <2>1, <2>5, <2>7
<1>6. ASSUME NEW k \in Nat
      PROVE  ItemAt(l, k + 1) = IF ItemAt(l, k) = Nil THEN Nil ELSE l.next[ItemAt(l, k)]
  <2>1. PICK f \in [0 .. k -> Items] : Iterates(f, k, l.head, step) /\ ItemAt(l, k) = f[k]
    BY <1>5
  <2>2. PICK g \in [0 .. k + 1 -> Items] :
            Iterates(g, k + 1, l.head, step) /\ ItemAt(l, k + 1) = g[k + 1]
    BY <1>5
  <2>3. f[k] = g[k] /\ f[k] \in Items
    BY <2>1, <2>2, OneIteration
  <2>4. k + 1 \in 1 .. k + 1 /\ (k + 1) - 1 = k /\ k + 1 \in Nat
    OBVIOUS
  <2>5. g[k + 1] = follow[g[k]]
    BY <1>3, <2>2, <2>4 DEF Iterates
  <2> QED
    BY <1>4, <2>1, <2>2, <2>3, <2>5
<1>7. \A k \in Nat : ItemAt(l, k) \in Items
  BY <1>5
<1>8. ItemAt(l, 0) = l.head
  BY <1>5 DEF Iterates
<1> QED
  BY <1>6, <1>7, <1>8

\* The nodes of P that are newer than a: as many as there are steps from the head to a.
Above(l, P, a) == {b \in P : l.gen[a] < l.gen[b]}

Rank(l, P, a) == Cardinality(Above(l, P, a))

\* Ranks are ordered as the generations are.
LEMMA Ranks ==
    ASSUME NEW l, NEW P, Sorted(l, P)
    PROVE  /\ IsFiniteSet(P) /\ Cardinality(P) \in Nat /\ Cardinality(P) <= Cardinality(Nodes)
           /\ \A a \in P : Rank(l, P, a) \in Nat /\ Rank(l, P, a) < Cardinality(P)
           /\ \A a, b \in P : l.gen[a] < l.gen[b] => Rank(l, P, b) < Rank(l, P, a)
           /\ \A a, b \in P : Rank(l, P, a) = Rank(l, P, b) => a = b
           /\ \A a, b \in P : Rank(l, P, a) <= Rank(l, P, b) => l.gen[b] <= l.gen[a]
<1>1. /\ P \subseteq Nodes /\ \A a \in P : l.gen[a] \in Int
      /\ Distinct(l.gen, P)
  BY ListTypes DEF Sorted
<1>2. /\ IsFiniteSet(P) /\ Cardinality(P) \in Nat /\ Cardinality(P) <= Cardinality(Nodes)
  BY <1>1, SnapshotAssumption, FS_Subset, FS_CardinalityType
<1>3. \A a \in P : Above(l, P, a) \subseteq P /\ a \notin Above(l, P, a)
  BY <1>1 DEF Above
<1>4. ASSUME NEW a \in P
      PROVE  Rank(l, P, a) \in Nat /\ Rank(l, P, a) < Cardinality(P)
  BY <1>2, <1>3, FewerBelow DEF Rank
<1>5. ASSUME NEW a \in P, NEW b \in P, l.gen[a] < l.gen[b]
      PROVE  Rank(l, P, b) < Rank(l, P, a)
  <2>1. Above(l, P, b) \subseteq Above(l, P, a) /\ b \in Above(l, P, a) /\ b \notin Above(l, P, b)
    BY <1>1, <1>5 DEF Above
  <2>2. IsFiniteSet(Above(l, P, a))
    BY <1>2, <1>3, FS_Subset
  <2> QED
    BY <2>1, <2>2, FewerBelow DEF Rank
<1>6. ASSUME NEW a \in P, NEW b \in P, Rank(l, P, a) <= Rank(l, P, b)
      PROVE  l.gen[b] <= l.gen[a]
  BY <1>1, <1>4, <1>5, <1>6
<1>7. ASSUME NEW a \in P, NEW b \in P, Rank(l, P, a) = Rank(l, P, b)
      PROVE  a = b
  <2>1. l.gen[a] = l.gen[b]
    BY <1>1, <1>4, <1>6, <1>7
  <2> QED
    BY <1>1, <2>1 DEF Distinct
<1> QED
  BY <1>2, <1>4, <1>5, <1>6, <1>7

\* The item k steps from the head is the node with rank k.
LEMMA WalkRanks ==
    ASSUME NEW l, NEW P, Sorted(l, P)
    PROVE  \A k \in Nat :
              IF k < Cardinality(P) THEN ItemAt(l, k) \in P /\ Rank(l, P, ItemAt(l, k)) = k
              ELSE ItemAt(l, k) = Nil
<1> DEFINE Good(k) ==
             IF k < Cardinality(P) THEN ItemAt(l, k) \in P /\ Rank(l, P, ItemAt(l, k)) = k
             ELSE ItemAt(l, k) = Nil
           A == {k \in Nat : Good(k)}
<1>1. /\ l \in ListType /\ P \subseteq Nodes /\ Nil \notin P
      /\ \A a \in P : l.gen[a] \in Int
      /\ \A a, b \in P : l.gen[a] = l.gen[b] => a = b
  BY ListTypes DEF Sorted, Distinct
<1>2. IsFiniteSet(P) /\ Cardinality(P) \in Nat
  BY Ranks
<1>3. /\ ItemAt(l, 0) = l.head
      /\ \A k \in Nat : ItemAt(l, k + 1) =
            IF ItemAt(l, k) = Nil THEN Nil ELSE l.next[ItemAt(l, k)]
  BY <1>1, WalkSteps
<1>4. 0 \in A
  <2>1. CASE P = {}
    <3>1. Cardinality(P) = 0 /\ l.head = Nil
      BY <2>1, FS_EmptySet DEF Sorted, First
    <3> QED
      BY <1>3, <3>1
  <2>2. CASE P # {}
    <3>1. l.head \in P /\ \A b \in P : l.gen[b] <= l.gen[l.head]
      BY <2>2 DEF Sorted, First
    <3>2. Above(l, P, l.head) = {}
      BY <1>1, <3>1 DEF Above
    <3>3. Rank(l, P, l.head) = 0
      BY <3>2, FS_EmptySet DEF Rank
    <3>4. 0 < Cardinality(P)
      BY <1>2, <2>2, FS_EmptySet
    <3> QED
      BY <1>3, <3>1, <3>3, <3>4
  <2> QED
    BY <2>1, <2>2
<1>5. ASSUME NEW k \in Nat, k \in A
      PROVE  k + 1 \in A
  <2> DEFINE a == ItemAt(l, k)
  <2>1. CASE k >= Cardinality(P)
    <3>1. ~(k < Cardinality(P)) /\ ~(k + 1 < Cardinality(P))
      BY <1>2, <2>1
    <3>2. ItemAt(l, k) = Nil
      BY <1>5, <3>1
    <3> QED
      BY <1>3, <3>1, <3>2
  <2>2. CASE k < Cardinality(P)
    <3>1. a \in P /\ Rank(l, P, a) = k /\ ItemAt(l, k + 1) = l.next[a]
      BY <1>1, <1>3, <1>5, <2>2
    <3> HIDE DEF a
    <3>2. After(l.gen, P, a, l.next[a])
      BY <3>1 DEF Sorted, Linked
    <3> DEFINE U == Above(l, P, a) \cup {a}
    <3>3. /\ U \subseteq P /\ IsFiniteSet(U) /\ Cardinality(U) = k + 1
          /\ \A b \in P : b \in U <=> ~(l.gen[b] < l.gen[a])
      <4>1. Above(l, P, a) \subseteq P /\ a \notin Above(l, P, a)
        BY <1>1, <3>1 DEF Above
      <4>2. IsFiniteSet(Above(l, P, a))
        BY <1>2, <4>1, FS_Subset
      <4>3. IsFiniteSet(U) /\ Cardinality(U) = k + 1
        BY <3>1, <4>1, <4>2, FS_AddElement DEF Rank
      <4>4. \A b \in P : b \in U <=> ~(l.gen[b] < l.gen[a])
        BY <1>1, <3>1 DEF Above
      <4> QED
        BY <3>1, <4>1, <4>3, <4>4
    <3> HIDE DEF U
    <3>4. CASE k + 1 < Cardinality(P)
      <4>1. PICK b \in P : b \notin U
        BY <3>3, <3>4, <1>2
      <4>2. /\ l.next[a] \in P /\ l.gen[l.next[a]] < l.gen[a]
            /\ \A x \in P : l.gen[x] < l.gen[a] => l.gen[x] <= l.gen[l.next[a]]
        BY <3>2, <3>3, <4>1 DEF After
      <4>3. Above(l, P, l.next[a]) = U
        <5>1. \A x \in P : x \in U <=> l.gen[l.next[a]] < l.gen[x]
          BY <1>1, <3>1, <3>3, <4>2
        <5> QED
          BY <3>3, <5>1 DEF Above
      <4>4. Rank(l, P, l.next[a]) = k + 1
        BY <3>3, <4>3 DEF Rank
      <4> QED
        BY <3>1, <3>4, <4>2, <4>4
    <3>5. CASE ~(k + 1 < Cardinality(P))
      <4>1. Cardinality(P) = k + 1
        BY <1>2, <2>2, <3>5
      <4>2. U = P
        BY <1>2, <3>3, <4>1, FS_Subset
      <4>3. l.next[a] = Nil
        BY <3>2, <3>3, <4>2 DEF After
      <4> QED
        BY <3>1, <3>5, <4>3
    <3> QED
      BY <3>4, <3>5
  <2> QED
    BY <1>2, <2>1, <2>2
<1> HIDE DEF A
<1>6. \A k \in Nat : k \in A
  BY <1>4, <1>5, NatSetInduction
<1> QED
  BY <1>6 DEF A

\* moveNodeInfoToHead and removeNodeInfoFromList, in any sequence of operations of the
\* cache, leave a list that holds every NodeInfo once, the most recently changed first.
\* The loop of UpdateSnapshot relies on it when it stops at the first old generation.
THEOREM ListIsRecentFirst == SnapSpec => []RecentFirst
<1>1. ASSUME ListSorted PROVE RecentFirst
  <2> DEFINE P == Present(nodes)
             length == Cardinality(P)
             walk == Walk(items)
  <2>1. Sorted(items, P) /\ P = {n \in Nodes : nodes[n] # Nil}
    BY <1>1 DEF ListSorted, Present
  <2>2. /\ length \in Nat /\ length <= Cardinality(Nodes) /\ Cardinality(Nodes) \in Nat
        /\ \A a \in P : Rank(items, P, a) \in Nat /\ Rank(items, P, a) < length
        /\ \A a, b \in P : Rank(items, P, a) = Rank(items, P, b) => a = b
    BY <2>1, Ranks, SnapshotAssumption, FS_CardinalityType
  <2>3. \A k \in 0 .. Cardinality(Nodes) : walk[k] = ItemAt(items, k)
    BY DEF Walk
  <2>4. \A k \in Nat :
           IF k < length THEN ItemAt(items, k) \in P /\ Rank(items, P, ItemAt(items, k)) = k
           ELSE ItemAt(items, k) = Nil
    BY <2>1, WalkRanks
  <2>5. items \in ListType /\ P \subseteq Nodes /\ Nil \notin P
    BY <2>1, ListTypes DEF Sorted
  <2> HIDE DEF P, walk
  <2>6. {walk[k] : k \in 0 .. length - 1} = P
    <3>1. \A k \in 0 .. length - 1 : walk[k] \in P
      BY <2>2, <2>3, <2>4
    <3>2. ASSUME NEW a \in P
          PROVE  \E k \in 0 .. length - 1 : walk[k] = a
      <4> DEFINE k == Rank(items, P, a)
      <4>1. k \in 0 .. length - 1 /\ k \in Nat /\ k < length /\ k \in 0 .. Cardinality(Nodes)
        BY <2>2
      <4>2. walk[k] \in P /\ Rank(items, P, walk[k]) = k
        BY <2>3, <2>4, <4>1
      <4>3. walk[k] = a
        BY <2>2, <4>2
      <4> QED
        BY <4>1, <4>3
    <3> QED
      BY <3>1, <3>2
  <2>7. \A k \in length .. Cardinality(Nodes) : walk[k] = Nil
    BY <2>2, <2>3, <2>4
  <2>8. ASSUME NEW k \in 1 .. length - 1
        PROVE  /\ items.gen[walk[k]] < items.gen[walk[k - 1]]
               /\ items.prev[walk[k]] = walk[k - 1]
    <3>1. /\ k - 1 \in Nat /\ (k - 1) + 1 = k /\ k \in Nat /\ k < length /\ k - 1 < length
          /\ k \in 0 .. Cardinality(Nodes) /\ k - 1 \in 0 .. Cardinality(Nodes)
      BY <2>2
    <3>2. walk[k] \in P /\ walk[k - 1] \in P
      BY <2>3, <2>4, <3>1
    <3>3. walk[k] = items.next[walk[k - 1]]
      <4>1. ItemAt(items, (k - 1) + 1) = IF ItemAt(items, k - 1) = Nil THEN Nil
                                         ELSE items.next[ItemAt(items, k - 1)]
        BY <2>5, <3>1, WalkSteps
      <4> QED
        BY <2>3, <2>5, <3>1, <3>2, <4>1
    <3>4. After(items.gen, P, walk[k - 1], walk[k])
      BY <2>1, <3>2, <3>3 DEF Sorted, Linked
    <3>5. items.gen[walk[k]] < items.gen[walk[k - 1]]
      BY <2>5, <3>2, <3>4 DEF After
    <3>6. items.prev[walk[k]] = walk[k - 1]
      BY <2>1, <3>2, <3>3, Neighbours
    <3> QED
      BY <3>5, <3>6
  <2>9. ASSUME length > 0
        PROVE  items.prev[items.head] = Nil
    <3>1. P # {}
      BY <2>9, FS_EmptySet
    <3>2. items.head \in P /\ \A b \in P : items.gen[b] <= items.gen[items.head]
      BY <2>1, <3>1 DEF Sorted, First
    <3>3. Before(items.gen, P, items.head, items.prev[items.head])
      BY <2>1, <3>2 DEF Sorted, Linked
    <3>4. \A b \in P : items.gen[b] \in Int
      BY <2>5, ListTypes
    <3> QED
      BY <3>2, <3>3, <3>4 DEF Before
  <2> QED
    BY <2>1, <2>6, <2>7, <2>8, <2>9 DEF RecentFirst, walk
<1>2. ListSorted => RecentFirst
  BY <1>1
<1> QED
  BY <1>2, ListInvariant, PTL

\* The items the loop of UpdateSnapshot visits: all that are newer than the snapshot.
LEMMA NewerAre ==
    ASSUME NEW l, NEW P, Sorted(l, P)
    PROVE  Newer(l) = {n \in P : l.gen[Nil] < l.gen[n]}
<1> DEFINE walk == Walk(l)
           visited == {j \in DOMAIN walk :
                         \A i \in 0 .. j : walk[i] # Nil /\ l.gen[walk[i]] > l.gen[Nil]}
<1>1. /\ Cardinality(P) \in Nat /\ Cardinality(P) <= Cardinality(Nodes)
      /\ Cardinality(Nodes) \in Nat
      /\ \A a \in P : Rank(l, P, a) \in Nat /\ Rank(l, P, a) < Cardinality(P)
      /\ \A a, b \in P : Rank(l, P, a) = Rank(l, P, b) => a = b
      /\ \A a, b \in P : Rank(l, P, a) <= Rank(l, P, b) => l.gen[b] <= l.gen[a]
  BY Ranks, SnapshotAssumption, FS_CardinalityType
<1>2. /\ DOMAIN walk = 0 .. Cardinality(Nodes)
      /\ \A k \in 0 .. Cardinality(Nodes) : walk[k] = ItemAt(l, k)
  BY DEF Walk
<1>3. \A k \in Nat :
         IF k < Cardinality(P) THEN ItemAt(l, k) \in P /\ Rank(l, P, ItemAt(l, k)) = k
         ELSE ItemAt(l, k) = Nil
  BY WalkRanks
<1>4. Nil \notin P /\ l.gen[Nil] \in Int /\ \A a \in P : l.gen[a] \in Int
  BY ListTypes DEF Sorted, Items
<1>5. Newer(l) = {walk[k] : k \in visited}
  BY DEF Newer
<1> HIDE DEF walk
<1>6. ASSUME NEW k \in visited
      PROVE  walk[k] \in P /\ l.gen[Nil] < l.gen[walk[k]]
  <2>1. k \in 0 .. Cardinality(Nodes) /\ k \in 0 .. k
    BY <1>1, <1>2
  <2>2. walk[k] # Nil /\ l.gen[walk[k]] > l.gen[Nil]
    BY <2>1
  <2>3. walk[k] \in P
    BY <1>1, <1>2, <1>3, <2>1, <2>2
  <2> QED
    BY <1>4, <2>2, <2>3
<1>7. ASSUME NEW a \in P, l.gen[Nil] < l.gen[a]
      PROVE  \E k \in visited : walk[k] = a
  <2> DEFINE k == Rank(l, P, a)
  <2>1. k \in Nat /\ k < Cardinality(P) /\ k \in 0 .. Cardinality(Nodes)
    BY <1>1
  <2>2. ASSUME NEW i \in 0 .. k
        PROVE  walk[i] \in P /\ Rank(l, P, walk[i]) = i
    <3>1. i \in Nat /\ i < Cardinality(P) /\ i \in 0 .. Cardinality(Nodes)
      BY <1>1, <2>1
    <3> QED
      BY <1>2, <1>3, <3>1
  <2>3. walk[k] = a
    BY <1>1, <2>1, <2>2
  <2>4. ASSUME NEW i \in 0 .. k
        PROVE  walk[i] # Nil /\ l.gen[walk[i]] > l.gen[Nil]
    <3>1. walk[i] \in P /\ Rank(l, P, walk[i]) <= Rank(l, P, a)
      BY <2>1, <2>2
    <3>2. l.gen[a] <= l.gen[walk[i]]
      BY <1>1, <3>1
    <3> QED
      BY <1>4, <1>7, <3>1, <3>2
  <2>5. k \in visited
    BY <1>2, <2>1, <2>4
  <2> QED
    BY <2>3, <2>5
<1> HIDE DEF visited
<1> QED
  BY <1>5, <1>6, <1>7

-----------------------------------------------------------------------------
(* Sequences without repetitions.                                          *)

NoRepeats(s) == \A i, j \in 1 .. Len(s) : s[i] = s[j] => i = j

\* Such a sequence is as long as its range is large.
LEMMA LengthIsSize ==
    ASSUME NEW S, NEW s \in Seq(S), NoRepeats(s)
    PROVE  /\ IsFiniteSet(Range(s)) /\ Len(s) = Cardinality(Range(s)) /\ Len(s) \in Nat
           /\ s = <<>> <=> Range(s) = {}
<1>1. Len(s) \in Nat /\ DOMAIN s = 1 .. Len(s) /\ s \in [1 .. Len(s) -> S]
  BY LenProperties
<1>2. Range(s) = {s[i] : i \in 1 .. Len(s)}
  BY RangeEquality
<1>3. s \in Surjection(1 .. Len(s), Range(s)) /\ s \in Injection(1 .. Len(s), Range(s))
  BY <1>1, <1>2 DEF Surjection, Injection, IsInjective, NoRepeats
<1>4. IsFiniteSet(1 .. Len(s)) /\ Cardinality(1 .. Len(s)) = Len(s)
  BY <1>1, FS_Interval
<1>5. IsFiniteSet(Range(s)) /\ Len(s) = Cardinality(Range(s))
  BY <1>3, <1>4, FS_Surjection
<1>6. s = <<>> <=> Len(s) = 0
  BY <1>1, EmptySeq
<1> QED
  BY <1>1, <1>5, <1>6, FS_EmptySet

\* Sequences that share no element are joined.
LEMMA JoinedApart ==
    ASSUME NEW S, NEW s \in Seq(S), NEW t \in Seq(S), NoRepeats(s), NoRepeats(t),
           \A x \in Range(s) : x \notin Range(t)
    PROVE  /\ s \o t \in Seq(S) /\ NoRepeats(s \o t)
           /\ Range(s \o t) = Range(s) \cup Range(t)
<1>1. /\ s \o t \in Seq(S) /\ Len(s \o t) = Len(s) + Len(t)
      /\ \A i \in 1 .. Len(s) + Len(t) : (s \o t)[i] =
            IF i <= Len(s) THEN s[i] ELSE t[i - Len(s)]
  BY ConcatProperties
<1>2. /\ Len(s) \in Nat /\ Len(t) \in Nat
      /\ Range(s) = {s[i] : i \in 1 .. Len(s)} /\ Range(t) = {t[i] : i \in 1 .. Len(t)}
  BY LenProperties, RangeEquality
<1> DEFINE u == s \o t
<1>3. ASSUME NEW i \in 1 .. Len(s) + Len(t)
      PROVE  \/ i \in 1 .. Len(s) /\ u[i] = s[i] /\ u[i] \in Range(s)
             \/ /\ i - Len(s) \in 1 .. Len(t) /\ u[i] = t[i - Len(s)] /\ u[i] \in Range(t)
                /\ ~(i <= Len(s))
  BY <1>1, <1>2
<1> HIDE DEF u
<1>4. ASSUME NEW i \in 1 .. Len(s) + Len(t), NEW j \in 1 .. Len(s) + Len(t), u[i] = u[j]
      PROVE  i = j
  <2>1. CASE i \in 1 .. Len(s) /\ u[i] = s[i] /\ u[i] \in Range(s)
    <3>1. j \in 1 .. Len(s) /\ u[j] = s[j]
      BY <1>3, <1>4, <2>1
    <3> QED
      BY <1>4, <2>1, <3>1 DEF NoRepeats
  <2>2. CASE i - Len(s) \in 1 .. Len(t) /\ u[i] = t[i - Len(s)] /\ u[i] \in Range(t)
    <3>1. j - Len(s) \in 1 .. Len(t) /\ u[j] = t[j - Len(s)]
      BY <1>3, <1>4, <2>2
    <3>2. i - Len(s) = j - Len(s)
      BY <1>4, <2>2, <3>1 DEF NoRepeats
    <3> QED
      BY <1>2, <3>2
  <2> QED
    BY <1>3, <2>1, <2>2
<1> QED
  BY <1>1, <1>4, RangeConcatenation DEF u, NoRepeats

\* No name, and one name.
LEMMA FewNames ==
    ASSUME NEW S, NEW x \in S
    PROVE  /\ <<>> \in Seq(S) /\ NoRepeats(<<>>) /\ Range(<<>>) = {}
           /\ <<x>> \in Seq(S) /\ NoRepeats(<<x>>) /\ Range(<<x>>) = {x}
<1>1. <<>> \in Seq(S) /\ NoRepeats(<<>>)
  BY EmptySeq DEF NoRepeats
<1>2. Range(<<>>) = {}
  BY <1>1, LengthIsSize
<1> DEFINE t == <<x>>
<1>3. t \in Seq(S) /\ Len(t) = 1 /\ t[1] = x
  OBVIOUS
<1> HIDE DEF t
<1>4. NoRepeats(t)
  BY <1>3 DEF NoRepeats
<1>5. Range(t) = {x}
  <2>1. Range(t) = {t[i] : i \in 1 .. Len(t)}
    BY <1>3, RangeEquality
  <2>2. 1 \in 1 .. Len(t) /\ \A i \in 1 .. Len(t) : t[i] = x
    BY <1>3
  <2> QED
    BY <1>3, <2>1, <2>2
<1> QED
  BY <1>1, <1>2, <1>3, <1>4, <1>5 DEF t

\* A name is appended.
LEMMA AppendApart ==
    ASSUME NEW S, NEW s \in Seq(S), NoRepeats(s), NEW x \in S, x \notin Range(s)
    PROVE  /\ Append(s, x) \in Seq(S) /\ NoRepeats(Append(s, x))
           /\ Range(Append(s, x)) = Range(s) \cup {x}
<1> DEFINE t == <<x>>
<1>1. t \in Seq(S) /\ NoRepeats(t) /\ Range(t) = {x}
  BY FewNames
<1>2. Append(s, x) = s \o t
  BY AppendIsConcat
<1> HIDE DEF t, NoRepeats
<1>3. \A y \in Range(s) : y \notin Range(t)
  BY <1>1
<1>4. /\ s \o t \in Seq(S) /\ NoRepeats(s \o t)
      /\ Range(s \o t) = Range(s) \cup Range(t)
  BY <1>1, <1>3, JoinedApart
<1> QED
  BY <1>1, <1>2, <1>4

\* The first occurrence of a name is removed.
LEMMA RemoveApart ==
    ASSUME NEW S, NEW s \in Seq(S), NoRepeats(s), NEW x \in Range(s)
    PROVE  /\ RemoveFirst(s, x) \in Seq(S) /\ NoRepeats(RemoveFirst(s, x))
           /\ Range(RemoveFirst(s, x)) = Range(s) \ {x}
<1>1. /\ Len(s) \in Nat /\ Range(s) = {s[i] : i \in 1 .. Len(s)}
      /\ \A i \in 1 .. Len(s) : s[i] \in S
  BY LenProperties, RangeEquality
<1>2. PICK p \in 1 .. Len(s) : s[p] = x
  BY <1>1
<1>3. {i \in 1 .. Len(s) : s[i] = x} = {p}
  BY <1>2 DEF NoRepeats
<1>4. RemoveFirst(s, x) = SubSeq(s, 1, p - 1) \o SubSeq(s, p + 1, Len(s))
  <2>1. SelectInSeq(s, LAMBDA v : v = x) = p
    <3>1. Min({p}) = p
      BY DEF Min
    <3> QED
      BY <1>3, <3>1 DEF SelectInSeq
  <2> QED
    BY <1>2, <2>1 DEF RemoveFirst, RemoveAt
<1> DEFINE a == SubSeq(s, 1, p - 1)
           b == SubSeq(s, p + 1, Len(s))
<1>5. a \in Seq(S) /\ Len(a) = p - 1 /\ \A i \in 1 .. p - 1 : a[i] = s[i]
  <2>1. 1 \in Int /\ p - 1 \in Int /\ \A i \in 1 .. p - 1 : s[i] \in S
    BY <1>1
  <2>2. /\ a \in Seq(S) /\ Len(a) = (IF 1 <= p - 1 THEN (p - 1) - 1 + 1 ELSE 0)
        /\ \A i \in 1 .. (p - 1) - 1 + 1 : a[i] = s[1 + i - 1]
    BY <2>1, SubSeqProperties
  <2> HIDE DEF a
  <2>3. Len(a) = p - 1
    BY <2>2
  <2>4. \A i \in 1 .. p - 1 : 1 + i - 1 = i /\ i \in 1 .. (p - 1) - 1 + 1
    OBVIOUS
  <2> QED
    BY <2>2, <2>3, <2>4
<1>6. b \in Seq(S) /\ Len(b) = Len(s) - p /\ \A i \in 1 .. Len(s) - p : b[i] = s[p + i]
  <2>1. p + 1 \in Int /\ Len(s) \in Int /\ \A i \in p + 1 .. Len(s) : s[i] \in S
    BY <1>1
  <2>2. /\ b \in Seq(S)
        /\ Len(b) = (IF p + 1 <= Len(s) THEN Len(s) - (p + 1) + 1 ELSE 0)
        /\ \A i \in 1 .. Len(s) - (p + 1) + 1 : b[i] = s[(p + 1) + i - 1]
    BY <2>1, SubSeqProperties
  <2> HIDE DEF b
  <2>3. Len(b) = Len(s) - p
    BY <1>1, <2>2
  <2>4. \A i \in 1 .. Len(s) - p : (p + 1) + i - 1 = p + i /\ i \in 1 .. Len(s) - (p + 1) + 1
    BY <1>1
  <2> QED
    BY <2>2, <2>3, <2>4
<1> HIDE DEF a, b
<1>7. NoRepeats(a)
  BY <1>1, <1>5 DEF NoRepeats
<1>8. NoRepeats(b)
  <2> SUFFICES ASSUME NEW i \in 1 .. Len(b), NEW j \in 1 .. Len(b), b[i] = b[j]
               PROVE  i = j
    BY DEF NoRepeats
  <2>1. p + i \in 1 .. Len(s) /\ p + j \in 1 .. Len(s) /\ s[p + i] = s[p + j]
    BY <1>1, <1>6
  <2>2. p + i = p + j
    BY <2>1 DEF NoRepeats
  <2> QED
    BY <1>6, <2>2
<1>9. Range(a) = {s[i] : i \in 1 .. p - 1}
  <2>1. Range(a) = {a[i] : i \in 1 .. Len(a)}
    BY <1>5, RangeEquality
  <2> QED
    BY <1>5, <2>1
<1>10. Range(b) = {s[i] : i \in p + 1 .. Len(s)}
  <2>0. Range(b) = {b[i] : i \in 1 .. Len(b)}
    BY <1>6, RangeEquality
  <2>1. Range(b) = {b[i] : i \in 1 .. Len(s) - p}
    BY <1>6, <2>0
  <2>2. \A i \in p + 1 .. Len(s) : i - p \in 1 .. Len(s) - p /\ b[i - p] = s[i]
    BY <1>1, <1>6
  <2>3. \A i \in 1 .. Len(s) - p : p + i \in p + 1 .. Len(s) /\ b[i] = s[p + i]
    BY <1>1, <1>6
  <2>4. ASSUME NEW y \in Range(b)
        PROVE  y \in {s[i] : i \in p + 1 .. Len(s)}
    <3>1. PICK i \in 1 .. Len(s) - p : y = b[i]
      BY <2>1
    <3> QED
      BY <2>3, <3>1
  <2>5. ASSUME NEW i \in p + 1 .. Len(s)
        PROVE  s[i] \in Range(b)
    BY <2>1, <2>2
  <2> QED
    BY <2>4, <2>5
<1>11. \A y \in Range(a) : y \notin Range(b)
  BY <1>1, <1>9, <1>10 DEF NoRepeats
<1>12. Range(a) \cup Range(b) = Range(s) \ {x}
  <2>1. ASSUME NEW y \in Range(a) \cup Range(b)
        PROVE  y \in Range(s) /\ y # x
    BY <1>1, <1>2, <1>9, <1>10 DEF NoRepeats
  <2>2. ASSUME NEW y \in Range(s), y # x
        PROVE  y \in Range(a) \cup Range(b)
    <3>1. PICK i \in 1 .. Len(s) : y = s[i]
      BY <1>1
    <3>2. i # p
      BY <1>2, <2>2, <3>1
    <3>3. i \in 1 .. p - 1 \/ i \in p + 1 .. Len(s)
      BY <1>1, <3>2
    <3> QED
      BY <1>9, <1>10, <3>1, <3>3
  <2> QED
    BY <2>1, <2>2
<1>13. RemoveFirst(s, x) = a \o b
  BY <1>4 DEF a, b
<1> HIDE DEF NoRepeats
<1> QED
  BY <1>5, <1>6, <1>7, <1>8, <1>11, <1>12, <1>13, JoinedApart

\* Sequences without repetitions that share no element.
ApartFrom(seqs, m, S) ==
    /\ m \in Nat /\ seqs \in [1 .. m -> Seq(S)]
    /\ \A i \in 1 .. m : NoRepeats(seqs[i])
    /\ \A i, j \in 1 .. m : \A x \in Range(seqs[i]) : x \in Range(seqs[j]) => i = j

\* What FlattenSeq makes of them.
LEMMA FlattenApart ==
    ASSUME NEW S, NEW m, NEW seqs, ApartFrom(seqs, m, S)
    PROVE  /\ FlattenSeq(seqs) \in Seq(S) /\ NoRepeats(FlattenSeq(seqs))
           /\ \A x : x \in Range(FlattenSeq(seqs)) <=> \E i \in 1 .. m : x \in Range(seqs[i])
<1> USE DEF ApartFrom
<1>1. seqs \in Seq(Seq(S)) /\ Len(seqs) = m
  OBVIOUS
<1>2. CASE m = 0
  <2>1. FlattenSeq(seqs) = seqs /\ Len(seqs) = 0
    BY <1>1, <1>2 DEF FlattenSeq
  <2>2. seqs = <<>>
    BY <1>1, <1>2, EmptySeq
  <2>3. seqs \in Seq(S) /\ NoRepeats(seqs)
    BY <2>1, <2>2, EmptySeq DEF NoRepeats
  <2>4. Range(seqs) = {}
    BY <2>3, LengthIsSize, <2>2
  <2> QED
    BY <1>2, <2>1, <2>3, <2>4
<1>3. CASE m # 0
  <2> DEFINE Body(f) == [i \in 1 .. Len(seqs) |->
                           IF i = 1 THEN seqs[i] ELSE f[i - 1] \o seqs[i]]
             flat == CHOOSE f : f = Body(f)
             step == [j \in Nat |-> [s \in Seq(S) |-> IF j \in 1 .. m THEN s \o seqs[j] ELSE s]]
  <2>1. FlattenSeq(seqs) = flat[m]
    BY <1>1, <1>3 DEF FlattenSeq
  <2>2. \A j \in 1 .. m : seqs[j] \in Seq(S)
    OBVIOUS
  <2>3. /\ step \in [Nat -> [Seq(S) -> Seq(S)]]
        /\ \A j \in 1 .. m : \A s \in Seq(S) : step[j][s] = s \o seqs[j]
    <3>1. \A j \in Nat : \A s \in Seq(S) :
             (IF j \in 1 .. m THEN s \o seqs[j] ELSE s) \in Seq(S)
      BY <2>2, ConcatProperties
    <3>2. \A j \in Nat :
             [s \in Seq(S) |-> IF j \in 1 .. m THEN s \o seqs[j] ELSE s] \in [Seq(S) -> Seq(S)]
      BY <3>1, Zenon
    <3>3. step \in [Nat -> [Seq(S) -> Seq(S)]]
      BY <3>2, Zenon
    <3>4. \A j \in 1 .. m : \A s \in Seq(S) : step[j][s] = s \o seqs[j]
      OBVIOUS
    <3> QED
      BY <3>3, <3>4
  <2>4. <<>> \in Seq(S)
    BY EmptySeq
  <2> HIDE DEF step
  <2>5. PICK f \in [0 .. m -> Seq(S)] : Iterates(f, m, <<>>, step)
    BY <2>3, <2>4, Iteration
  <2>6. f[1] = seqs[1] /\ \A j \in 1 .. m : f[j] = f[j - 1] \o seqs[j]
    <3>1. \A j \in 1 .. m : f[j] = f[j - 1] \o seqs[j]
      <4> SUFFICES ASSUME NEW j \in 1 .. m PROVE f[j] = f[j - 1] \o seqs[j]
        OBVIOUS
      <4>1. f[j - 1] \in Seq(S)
        OBVIOUS
      <4>2. f[j] = step[j][f[j - 1]]
        BY <2>5 DEF Iterates
      <4> QED
        BY <2>3, <4>1, <4>2
    <3>2. 1 \in 1 .. m /\ f[0] = <<>>
      BY <1>3, <2>5 DEF Iterates
    <3>3. f[1] = <<>> \o seqs[1]
      <4>1. f[1] = f[1 - 1] \o seqs[1]
        BY <3>1, <3>2, Zenon
      <4>2. 1 - 1 = 0
        OBVIOUS
      <4> QED
        BY <3>2, <4>1, <4>2, Zenon
    <3>4. <<>> \o seqs[1] = seqs[1]
      BY <2>2, <3>2, ConcatEmptySeq
    <3> QED
      BY <3>1, <3>3, <3>4
  <2> DEFINE g == [i \in 1 .. Len(seqs) |-> f[i]]
  <2>7. g = Body(g)
    <3>1. \A i \in 1 .. m : g[i] = f[i]
      BY <1>1
    <3> HIDE DEF g
    <3>2. ASSUME NEW i \in 1 .. m
          PROVE  f[i] = IF i = 1 THEN seqs[i] ELSE g[i - 1] \o seqs[i]
      <4>1. CASE i = 1
        BY <2>6, <4>1
      <4>2. CASE i # 1
        <5>1. i - 1 \in 1 .. m
          BY <4>2
        <5>2. f[i - 1] = g[i - 1]
          BY <3>1, <5>1
        <5>3. f[i] = f[i - 1] \o seqs[i]
          BY <2>6, Zenon
        <5> QED
          BY <4>2, <5>2, <5>3, Zenon
      <4> QED
        BY <4>1, <4>2
    <3>3. Body(g) = [i \in 1 .. Len(seqs) |-> f[i]]
      BY <1>1, <3>2
    <3> QED
      BY <3>3 DEF g
  <2>8. flat = Body(flat)
    <3> HIDE DEF g
    <3> QED
      BY <2>7
  <2>9. flat[1] = seqs[1] /\ \A i \in 2 .. m : flat[i] = flat[i - 1] \o seqs[i]
    <3>1. \A i \in 1 .. m : flat[i] = Body(flat)[i]
      BY <2>8
    <3>2. \A i \in 1 .. m : Body(flat)[i] =
             IF i = 1 THEN seqs[i] ELSE flat[i - 1] \o seqs[i]
      BY <1>1
    <3> HIDE DEF flat, Body
    <3>3. 1 \in 1 .. m /\ \A i \in 2 .. m : i \in 1 .. m /\ i # 1
      BY <1>3
    <3>4. flat[1] = seqs[1]
      BY <3>1, <3>2, <3>3
    <3>5. ASSUME NEW i \in 2 .. m
          PROVE  flat[i] = flat[i - 1] \o seqs[i]
      BY <3>1, <3>2, <3>3, Zenon
    <3> QED
      BY <3>4, <3>5
  <2> HIDE DEF flat
  <2> DEFINE Merged(k) == /\ flat[k] \in Seq(S) /\ NoRepeats(flat[k])
                          /\ \A x : x \in Range(flat[k]) <=>
                                      \E i \in 1 .. k : x \in Range(seqs[i])
             A == {k \in Nat : k + 1 <= m => Merged(k + 1)}
  <2>10. Merged(1)
    <3>1. 1 \in 1 .. m
      BY <1>3
    <3>2. flat[1] \in Seq(S) /\ NoRepeats(flat[1])
      BY <2>9, <3>1
    <3> HIDE DEF NoRepeats
    <3>3. \A x : x \in Range(flat[1]) <=> \E i \in 1 .. 1 : x \in Range(seqs[i])
      BY <2>9
    <3> QED
      BY <3>2, <3>3
  <2>11. ASSUME NEW k \in Nat, k \in A
         PROVE  k + 1 \in A
    <3>1. SUFFICES ASSUME (k + 1) + 1 <= m PROVE Merged((k + 1) + 1)
      OBVIOUS
    <3> DEFINE q == k + 1
    <3>2. q \in Nat /\ q \in 1 .. m /\ q + 1 \in 2 .. m /\ q + 1 \in 1 .. m /\ (q + 1) - 1 = q
      BY <3>1
    <3>3. Merged(q)
      BY <1>3, <3>1, <2>11
    <3> HIDE DEF q
    <3>4. flat[q + 1] = flat[q] \o seqs[q + 1]
      BY <2>9, <3>2
    <3>5. \A x \in Range(flat[q]) : x \notin Range(seqs[q + 1])
      <4> SUFFICES ASSUME NEW x \in Range(flat[q]), x \in Range(seqs[q + 1]) PROVE FALSE
        OBVIOUS
      <4>1. PICK i \in 1 .. q : x \in Range(seqs[i])
        BY <3>3
      <4>2. i \in 1 .. m /\ i # q + 1
        BY <3>2, <4>1
      <4> QED
        BY <3>2, <4>1, <4>2
    <3>6. seqs[q + 1] \in Seq(S) /\ NoRepeats(seqs[q + 1])
      BY <3>2
    <3> HIDE DEF NoRepeats
    <3>7. /\ flat[q + 1] \in Seq(S) /\ NoRepeats(flat[q + 1])
          /\ Range(flat[q + 1]) = Range(flat[q]) \cup Range(seqs[q + 1])
      BY <3>3, <3>4, <3>5, <3>6, JoinedApart
    <3>8. \A x : x \in Range(flat[q + 1]) <=> \E i \in 1 .. q + 1 : x \in Range(seqs[i])
      <4>1. 1 .. q + 1 = (1 .. q) \cup {q + 1}
        BY <3>2
      <4> QED
        BY <3>3, <3>7, <4>1
    <3>9. Merged(q + 1)
      BY <3>7, <3>8
    <3> HIDE DEF Merged
    <3> QED
      BY <3>9 DEF q
  <2>12. 0 \in A
    <3> HIDE DEF Merged
    <3> QED
      BY <2>10
  <2>13. \A k \in Nat : k \in A
    <3> HIDE DEF A
    <3> QED
      BY <2>11, <2>12, NatSetInduction
  <2>14. Merged(m)
    <3> HIDE DEF Merged
    <3>1. m - 1 \in Nat /\ (m - 1) + 1 = m
      BY <1>3
    <3>2. (m - 1) + 1 <= m => Merged((m - 1) + 1)
      BY <2>13, <3>1
    <3> QED
      BY <3>1, <3>2
  <2> QED
    BY <2>1, <2>14
<1> QED
  BY <1>2, <1>3

-----------------------------------------------------------------------------
(* The node tree.                                                          *)

\* M[z] are the nodes of zone z; a node is in one zone.
Apart(M) ==
    /\ M \in [Zones -> SUBSET Nodes]
    /\ \A y, z \in Zones : \A n \in M[y] : n \in M[z] => y = z

All(M) == {n \in Nodes : \E z \in Zones : n \in M[z]}

\* The tree holds the nodes of each zone once, and names the zones that have nodes.
TreeOf(nt, M) ==
    /\ nt.tree \in [Zones -> Seq(Nodes)] /\ nt.zones \in Seq(Zones)
    /\ \A z \in Zones : NoRepeats(nt.tree[z]) /\ Range(nt.tree[z]) = M[z]
    /\ NoRepeats(nt.zones) /\ Range(nt.zones) = {z \in Zones : M[z] # {}}
    /\ nt.numNodes = Cardinality(All(M))

\* What a zone holds, by position.
LEMMA Positions ==
    ASSUME NEW nt, NEW M, TreeOf(nt, M), Apart(M)
    PROVE  /\ \A z \in Zones : /\ Len(nt.tree[z]) \in Nat
                               /\ \A i \in 1 .. Len(nt.tree[z]) :
                                     nt.tree[z][i] \in Nodes /\ nt.tree[z][i] \in M[z]
                               /\ M[z] # {} <=> Len(nt.tree[z]) > 0
                               /\ \A n \in M[z] : \E i \in 1 .. Len(nt.tree[z]) : nt.tree[z][i] = n
                               /\ Len(nt.tree[z]) <= nt.numNodes
           /\ \A y, z \in Zones : \A i \in 1 .. Len(nt.tree[y]), j \in 1 .. Len(nt.tree[z]) :
                 nt.tree[y][i] = nt.tree[z][j] => y = z /\ i = j
           /\ IsFiniteSet(All(M)) /\ nt.numNodes \in Nat
<1>1. IsFiniteSet(All(M)) /\ nt.numNodes \in Nat
  <2>1. All(M) \subseteq Nodes
    BY DEF All
  <2> QED
    BY <2>1, SnapshotAssumption, FS_Subset, FS_CardinalityType DEF TreeOf
<1>2. ASSUME NEW z \in Zones
      PROVE  /\ Len(nt.tree[z]) \in Nat
             /\ \A i \in 1 .. Len(nt.tree[z]) : nt.tree[z][i] \in Nodes /\ nt.tree[z][i] \in M[z]
             /\ M[z] # {} <=> Len(nt.tree[z]) > 0
             /\ \A n \in M[z] : \E i \in 1 .. Len(nt.tree[z]) : nt.tree[z][i] = n
             /\ Len(nt.tree[z]) <= nt.numNodes
  <2> DEFINE s == nt.tree[z]
  <2>1. s \in Seq(Nodes) /\ NoRepeats(s) /\ Range(s) = M[z]
    BY DEF TreeOf
  <2> HIDE DEF s, NoRepeats
  <2>2. /\ Len(s) \in Nat /\ Range(s) = {s[i] : i \in 1 .. Len(s)}
        /\ \A i \in 1 .. Len(s) : s[i] \in Nodes
    BY <2>1, LenProperties, RangeEquality
  <2>3. IsFiniteSet(M[z]) /\ Len(s) = Cardinality(M[z])
    BY <2>1, LengthIsSize
  <2>4. M[z] \subseteq All(M)
    BY DEF Apart, All
  <2>5. Cardinality(M[z]) <= Cardinality(All(M))
    BY <1>1, <2>4, FS_Subset
  <2>6. M[z] # {} <=> Len(s) > 0
    BY <2>2, <2>3, FS_EmptySet
  <2>7. Len(s) <= nt.numNodes
    BY <2>3, <2>5 DEF TreeOf
  <2>8. \A n \in M[z] : \E i \in 1 .. Len(s) : s[i] = n
    BY <2>1, <2>2
  <2>9. \A i \in 1 .. Len(s) : s[i] \in M[z]
    BY <2>1, <2>2
  <2> QED
    BY <2>2, <2>6, <2>7, <2>8, <2>9 DEF s
<1>3. ASSUME NEW y \in Zones, NEW z \in Zones,
             NEW i \in 1 .. Len(nt.tree[y]), NEW j \in 1 .. Len(nt.tree[z]),
             nt.tree[y][i] = nt.tree[z][j]
      PROVE  y = z /\ i = j
  <2>1. nt.tree[y][i] \in M[y] /\ nt.tree[z][j] \in M[z]
    BY <1>2
  <2>2. y = z
    BY <1>3, <2>1 DEF Apart
  <2>3. NoRepeats(nt.tree[y])
    BY DEF TreeOf
  <2> QED
    BY <1>3, <2>2, <2>3 DEF NoRepeats
<1> QED
  BY <1>1, <1>2, <1>3

\* One turn of list() finds the nodes at one position.
LEMMA RoundFinds ==
    ASSUME NEW nt, NEW M, TreeOf(nt, M), Apart(M), NEW i \in Nat
    PROVE  /\ Round(nt, i) \in Seq(Nodes) /\ NoRepeats(Round(nt, i))
           /\ \A n : n \in Range(Round(nt, i)) <=>
                \E z \in Zones : i < Len(nt.tree[z]) /\ nt.tree[z][i + 1] = n
<1> DEFINE m == Len(nt.zones)
           Turn(z) == IF i < Len(nt.tree[z]) THEN <<nt.tree[z][i + 1]>> ELSE <<>>
           seqs == [k \in 1 .. m |-> Turn(nt.zones[k])]
<1>1. /\ m \in Nat /\ DOMAIN nt.zones = 1 .. m
      /\ \A k \in 1 .. m : nt.zones[k] \in Zones
      /\ Range(nt.zones) = {nt.zones[k] : k \in 1 .. m}
  BY LenProperties, RangeEquality DEF TreeOf
<1>2. Round(nt, i) = FlattenSeq(seqs)
  BY <1>1 DEF Round
<1>3. /\ \A z \in Zones : Len(nt.tree[z]) \in Nat
      /\ \A z \in Zones : \A j \in 1 .. Len(nt.tree[z]) : nt.tree[z][j] \in Nodes
      /\ \A z \in Zones : M[z] # {} <=> Len(nt.tree[z]) > 0
      /\ \A y, z \in Zones : \A j \in 1 .. Len(nt.tree[y]), k \in 1 .. Len(nt.tree[z]) :
            nt.tree[y][j] = nt.tree[z][k] => y = z /\ j = k
  BY Positions
<1>4. \A z \in Zones : i < Len(nt.tree[z]) => i + 1 \in 1 .. Len(nt.tree[z])
  BY <1>3
<1>5. ASSUME NEW z \in Zones
      PROVE  /\ Turn(z) \in Seq(Nodes) /\ NoRepeats(Turn(z))
             /\ \A n : n \in Range(Turn(z)) <=> i < Len(nt.tree[z]) /\ nt.tree[z][i + 1] = n
  <2>1. CASE i < Len(nt.tree[z])
    <3>1. nt.tree[z][i + 1] \in Nodes /\ Turn(z) = <<nt.tree[z][i + 1]>>
      BY <1>3, <1>4, <2>1
    <3> HIDE DEF Turn, NoRepeats
    <3>2. /\ Turn(z) \in Seq(Nodes) /\ NoRepeats(Turn(z))
          /\ Range(Turn(z)) = {nt.tree[z][i + 1]}
      BY <3>1, FewNames
    <3> QED
      BY <2>1, <3>2
  <2>2. CASE ~(i < Len(nt.tree[z]))
    <3>1. Turn(z) = <<>>
      BY <2>2
    <3>2. <<>> \in Seq(Nodes) /\ NoRepeats(<<>>)
      BY EmptySeq DEF NoRepeats
    <3>3. Range(<<>>) = {}
      BY <3>2, LengthIsSize
    <3> HIDE DEF Turn, NoRepeats
    <3> QED
      BY <2>2, <3>1, <3>2, <3>3
  <2> QED
    BY <2>1, <2>2
<1>6. \A k \in 1 .. m : seqs[k] = Turn(nt.zones[k])
  OBVIOUS
<1> HIDE DEF Turn, m, NoRepeats
<1>7. seqs \in [1 .. m -> Seq(Nodes)] /\ \A k \in 1 .. m : NoRepeats(seqs[k])
  BY <1>1, <1>5
<1> HIDE DEF seqs
<1>8. ASSUME NEW j \in 1 .. m, NEW k \in 1 .. m, NEW x \in Range(seqs[j]), x \in Range(seqs[k])
      PROVE  j = k
  <2>1. nt.zones[j] \in Zones /\ nt.zones[k] \in Zones
    BY <1>1
  <2>2. /\ i < Len(nt.tree[nt.zones[j]]) /\ nt.tree[nt.zones[j]][i + 1] = x
        /\ i < Len(nt.tree[nt.zones[k]]) /\ nt.tree[nt.zones[k]][i + 1] = x
    BY <1>5, <1>6, <1>8, <2>1
  <2>3. nt.zones[j] = nt.zones[k]
    BY <1>3, <1>4, <2>1, <2>2
  <2> QED
    BY <2>3 DEF TreeOf, NoRepeats, m
<1>9. /\ FlattenSeq(seqs) \in Seq(Nodes) /\ NoRepeats(FlattenSeq(seqs))
      /\ \A x : x \in Range(FlattenSeq(seqs)) <=> \E k \in 1 .. m : x \in Range(seqs[k])
  <2>1. \A j, k \in 1 .. m : \A x \in Range(seqs[j]) : x \in Range(seqs[k]) => j = k
    BY <1>8
  <2>2. m \in Nat
    BY <1>1
  <2>3. ApartFrom(seqs, m, Nodes)
    BY <1>7, <2>1, <2>2 DEF ApartFrom
  <2> QED
    BY <2>3, FlattenApart
<1>10. ASSUME NEW n
       PROVE  n \in Range(FlattenSeq(seqs)) <=>
                \E z \in Zones : i < Len(nt.tree[z]) /\ nt.tree[z][i + 1] = n
  <2>1. ASSUME NEW k \in 1 .. m, n \in Range(seqs[k])
        PROVE  \E z \in Zones : i < Len(nt.tree[z]) /\ nt.tree[z][i + 1] = n
    BY <1>1, <1>5, <1>6, <2>1
  <2>2. ASSUME NEW z \in Zones, i < Len(nt.tree[z]), nt.tree[z][i + 1] = n
        PROVE  \E k \in 1 .. m : n \in Range(seqs[k])
    <3>1. M[z] # {}
      BY <1>3, <2>2
    <3>2. z \in Range(nt.zones)
      BY <3>1 DEF TreeOf
    <3>3. PICK k \in 1 .. m : z = nt.zones[k]
      BY <1>1, <3>2
    <3>4. n \in Range(Turn(z))
      BY <1>5, <2>2
    <3> QED
      BY <1>6, <3>3, <3>4
  <2> QED
    BY <1>9, <2>1, <2>2
<1> QED
  BY <1>2, <1>9, <1>10

\* list() names every node of the tree once.
LEMMA ListFindsAll ==
    ASSUME NEW nt, NEW M, TreeOf(nt, M), Apart(M)
    PROVE  /\ list(nt) \in Seq(Nodes) /\ NoRepeats(list(nt)) /\ Range(list(nt)) = All(M)
           /\ Len(list(nt)) = nt.numNodes
<1> DEFINE total == nt.numNodes
           Stop(s, i) == Len(s) >= total \/ Exhausted(nt, i - 1)
           Body(f) == [i \in 0 .. total + 1 |->
                         IF i = 0 THEN <<>>
                         ELSE IF Len(f[i - 1]) >= nt.numNodes \/ Exhausted(nt, i - 1)
                              THEN f[i - 1] ELSE f[i - 1] \o Round(nt, i - 1)]
           after == CHOOSE f : f = Body(f)
           Found(i) == {n \in Nodes : \E z \in Zones : \E j \in 1 .. Len(nt.tree[z]) :
                                         j <= i /\ nt.tree[z][j] = n}
<1>1. /\ \A z \in Zones : /\ Len(nt.tree[z]) \in Nat /\ Len(nt.tree[z]) <= total
                          /\ \A j \in 1 .. Len(nt.tree[z]) :
                                nt.tree[z][j] \in Nodes /\ nt.tree[z][j] \in M[z]
                          /\ M[z] # {} <=> Len(nt.tree[z]) > 0
                          /\ \A n \in M[z] : \E j \in 1 .. Len(nt.tree[z]) : nt.tree[z][j] = n
      /\ \A y, z \in Zones : \A j \in 1 .. Len(nt.tree[y]), k \in 1 .. Len(nt.tree[z]) :
            nt.tree[y][j] = nt.tree[z][k] => y = z /\ j = k
      /\ IsFiniteSet(All(M)) /\ total \in Nat /\ total = Cardinality(All(M))
  <2>1. total = Cardinality(All(M))
    BY DEF TreeOf
  <2> QED
    BY <2>1, Positions
<1>2. \A i \in Nat : Round(nt, i) \in Seq(Nodes) /\ NoRepeats(Round(nt, i))
  BY RoundFinds
<1>3. \A i \in Nat : \A n : n \in Range(Round(nt, i)) <=>
                       \E z \in Zones : i < Len(nt.tree[z]) /\ nt.tree[z][i + 1] = n
  BY RoundFinds
<1>4. list(nt) = after[total + 1]
  BY DEF list
<1> HIDE DEF NoRepeats
<1>5. after = Body(after)
  <2> DEFINE Grown(s, i) == IF Stop(s, i) THEN s ELSE s \o Round(nt, i - 1)
             step == [i \in Nat |-> [s \in Seq(Nodes) |-> IF i = 0 THEN s ELSE Grown(s, i)]]
  <2>1. \A i \in Nat : \A s \in Seq(Nodes) : (IF i = 0 THEN s ELSE Grown(s, i)) \in Seq(Nodes)
    <3> SUFFICES ASSUME NEW i \in Nat, NEW s \in Seq(Nodes), i # 0
                 PROVE  Grown(s, i) \in Seq(Nodes)
      OBVIOUS
    <3>1. Round(nt, i - 1) \in Seq(Nodes)
      BY <1>2
    <3>2. s \o Round(nt, i - 1) \in Seq(Nodes)
      BY <3>1, ConcatProperties
    <3> QED
      BY <3>2
  <2> HIDE DEF Grown
  <2>2. /\ step \in [Nat -> [Seq(Nodes) -> Seq(Nodes)]]
        /\ \A i \in Nat : \A s \in Seq(Nodes) : i # 0 => step[i][s] = Grown(s, i)
    BY <2>1
  <2> HIDE DEF step
  <2>3. total + 1 \in Nat /\ <<>> \in Seq(Nodes)
    BY <1>1, EmptySeq
  <2>4. PICK f \in [0 .. total + 1 -> Seq(Nodes)] : Iterates(f, total + 1, <<>>, step)
    BY <2>2, <2>3, Iteration
  <2>5. ASSUME NEW i \in 0 .. total + 1
        PROVE  f[i] = IF i = 0 THEN <<>> ELSE Grown(f[i - 1], i)
    <3>1. CASE i = 0
      BY <2>4, <3>1 DEF Iterates
    <3>2. CASE i # 0
      <4>1. i \in 1 .. total + 1 /\ i \in Nat /\ i - 1 \in 0 .. total + 1
        BY <1>1, <3>2
      <4>2. f[i - 1] \in Seq(Nodes)
        BY <4>1
      <4>3. f[i] = step[i][f[i - 1]]
        BY <2>4, <4>1 DEF Iterates
      <4> QED
        BY <2>2, <3>2, <4>1, <4>2, <4>3
    <3> QED
      BY <3>1, <3>2
  <2>6. \A i \in 0 .. total + 1 : f[i] = Body(f)[i]
    BY <2>5 DEF Grown
  <2>7. f = Body(f)
    BY <2>6
  <2> QED
    BY <2>7
<1>6. /\ after[0] = <<>>
      /\ \A i \in 1 .. total + 1 : after[i] = IF Stop(after[i - 1], i) THEN after[i - 1]
                                              ELSE after[i - 1] \o Round(nt, i - 1)
  <2>1. \A i \in 0 .. total + 1 : after[i] = Body(after)[i]
    BY <1>5
  <2>2. \A i \in 0 .. total + 1 : Body(after)[i] =
           IF i = 0 THEN <<>> ELSE IF Stop(after[i - 1], i) THEN after[i - 1]
                                   ELSE after[i - 1] \o Round(nt, i - 1)
    OBVIOUS
  <2> HIDE DEF after, Body, Stop
  <2>3. 0 \in 0 .. total + 1 /\ \A i \in 1 .. total + 1 : i \in 0 .. total + 1 /\ i # 0
    BY <1>1
  <2>4. after[0] = <<>>
    BY <2>1, <2>2, <2>3
  <2>5. ASSUME NEW i \in 1 .. total + 1
        PROVE  after[i] = IF Stop(after[i - 1], i) THEN after[i - 1]
                          ELSE after[i - 1] \o Round(nt, i - 1)
    BY <2>1, <2>2, <2>3, Zenon
  <2> QED
    BY <2>4, <2>5
<1> HIDE DEF after, Body
<1>7. Found(0) = {}
  OBVIOUS
<1>8. Found(total + 1) = All(M) /\ \A i \in Nat : Found(i) \subseteq All(M)
  <2>1. ASSUME NEW i \in Nat, NEW n \in Found(i)
        PROVE  n \in All(M)
    <3>1. PICK z \in Zones : \E j \in 1 .. Len(nt.tree[z]) : nt.tree[z][j] = n
      OBVIOUS
    <3>2. n \in M[z]
      BY <1>1, <3>1
    <3> QED
      BY <3>2 DEF All
  <2>2. ASSUME NEW n \in All(M)
        PROVE  n \in Found(total + 1)
    <3>1. PICK z \in Zones : n \in M[z] /\ n \in Nodes
      BY DEF All
    <3>2. PICK j \in 1 .. Len(nt.tree[z]) : nt.tree[z][j] = n
      BY <1>1, <3>1
    <3>3. j <= total + 1
      <4>1. Len(nt.tree[z]) \in Nat /\ Len(nt.tree[z]) <= total /\ total \in Nat
        BY <1>1
      <4> QED
        BY <4>1
    <3> QED
      BY <3>1, <3>2, <3>3
  <2>3. total + 1 \in Nat
    BY <1>1
  <2> QED
    BY <2>1, <2>2, <2>3
<1> DEFINE Good(i) == /\ after[i] \in Seq(Nodes) /\ NoRepeats(after[i])
                      /\ Range(after[i]) = Found(i)
           A == {i \in Nat : i <= total + 1 => Good(i)}
<1>9. 0 \in A
  <2>1. <<>> \in Seq(Nodes) /\ NoRepeats(<<>>)
    BY EmptySeq DEF NoRepeats
  <2>2. Range(<<>>) = {}
    BY <2>1, LengthIsSize
  <2> HIDE DEF Found
  <2> QED
    BY <1>6, <1>7, <2>1, <2>2
<1>10. ASSUME NEW i \in Nat, i \in A
       PROVE  i + 1 \in A
  <2>1. SUFFICES ASSUME i + 1 <= total + 1 PROVE Good(i + 1)
    OBVIOUS
  <2>2. Good(i)
    BY <1>1, <1>10, <2>1
  <2>3. i + 1 \in 1 .. total + 1 /\ (i + 1) - 1 = i
    BY <1>1, <2>1
  <2>4. after[i + 1] = IF Stop(after[i], i + 1) THEN after[i] ELSE after[i] \o Round(nt, i)
    <3> HIDE DEF Stop
    <3>1. after[i + 1] = IF Stop(after[(i + 1) - 1], i + 1) THEN after[(i + 1) - 1]
                         ELSE after[(i + 1) - 1] \o Round(nt, (i + 1) - 1)
      BY <1>6, <2>3, Zenon
    <3> QED
      BY <2>3, <3>1, Zenon
  <2>5. Found(i) \subseteq Found(i + 1)
    BY <1>1
  <2>6. CASE Len(after[i]) >= total
    <3>1. Len(after[i]) = Cardinality(Found(i)) /\ IsFiniteSet(Found(i)) /\ Len(after[i]) \in Nat
      BY <2>2, LengthIsSize
    <3>2. Found(i) \subseteq All(M)
      BY <1>8
    <3> HIDE DEF Found
    <3>3. Cardinality(Found(i)) = Cardinality(All(M))
      <4>1. Cardinality(Found(i)) <= Cardinality(All(M))
        BY <1>1, <3>2, FS_Subset
      <4> QED
        BY <1>1, <2>6, <3>1, <4>1
    <3>4. Found(i) = All(M)
      BY <1>1, <3>2, <3>3, FS_Subset
    <3>5. Found(i + 1) = Found(i)
      BY <1>8, <2>5, <3>4
    <3> QED
      BY <2>2, <2>4, <2>6, <3>5
  <2>7. CASE Exhausted(nt, i)
    <3>1. ASSUME NEW z \in Zones
          PROVE  Len(nt.tree[z]) < i \/ Len(nt.tree[z]) = 0
      <4>1. CASE M[z] = {}
        BY <1>1, <4>1
      <4>2. CASE M[z] # {}
        <5>1. z \in Range(nt.zones)
          BY <4>2 DEF TreeOf
        <5> QED
          BY <2>7, <5>1 DEF Exhausted
      <4> QED
        BY <4>1, <4>2
    <3>2. \A z \in Zones : \A j \in 1 .. Len(nt.tree[z]) : j <= i
      BY <1>1, <3>1
    <3>3. Found(i + 1) \subseteq Found(i)
      BY <3>2
    <3>4. Found(i + 1) = Found(i) /\ Stop(after[i], i + 1)
      BY <2>3, <2>5, <2>7, <3>3
    <3> HIDE DEF Found, Stop
    <3> QED
      BY <2>2, <2>4, <3>4
  <2>8. CASE ~Stop(after[i], i + 1)
    <3>1. after[i + 1] = after[i] \o Round(nt, i)
      BY <2>4, <2>8
    <3>2. \A x \in Range(after[i]) : x \notin Range(Round(nt, i))
      <4> SUFFICES ASSUME NEW x \in Found(i), x \in Range(Round(nt, i)) PROVE FALSE
        BY <2>2
      <4>0. PICK z \in Zones : \E j \in 1 .. Len(nt.tree[z]) : j <= i /\ nt.tree[z][j] = x
        OBVIOUS
      <4>1. PICK j \in 1 .. Len(nt.tree[z]) : j <= i /\ nt.tree[z][j] = x
        BY <4>0
      <4>2. PICK y \in Zones : i < Len(nt.tree[y]) /\ nt.tree[y][i + 1] = x
        BY <1>3
      <4>3. i + 1 \in 1 .. Len(nt.tree[y])
        <5>1. Len(nt.tree[y]) \in Nat
          BY <1>1
        <5> QED
          BY <4>2, <5>1
      <4>4. j = i + 1
        BY <1>1, <4>1, <4>2, <4>3
      <4> QED
        BY <4>1, <4>4
    <3>3. Found(i + 1) = Found(i) \cup Range(Round(nt, i))
      <4>1. ASSUME NEW n \in Found(i + 1), n \notin Found(i)
            PROVE  n \in Range(Round(nt, i))
        <5>0. PICK z \in Zones : \E j \in 1 .. Len(nt.tree[z]) : j <= i + 1 /\ nt.tree[z][j] = n
          OBVIOUS
        <5>1. PICK j \in 1 .. Len(nt.tree[z]) : j <= i + 1 /\ nt.tree[z][j] = n
          BY <5>0
        <5>2. ~(j <= i)
          BY <4>1, <5>1
        <5>3. j = i + 1 /\ i < Len(nt.tree[z])
          <6>1. Len(nt.tree[z]) \in Nat
            BY <1>1
          <6> QED
            BY <5>1, <5>2, <6>1
        <5> QED
          BY <1>3, <5>1, <5>3
      <4>2. ASSUME NEW n \in Range(Round(nt, i))
            PROVE  n \in Found(i + 1)
        <5>1. PICK z \in Zones : i < Len(nt.tree[z]) /\ nt.tree[z][i + 1] = n
          BY <1>3
        <5>2. i + 1 \in 1 .. Len(nt.tree[z]) /\ i + 1 <= i + 1
          <6>1. Len(nt.tree[z]) \in Nat
            BY <1>1
          <6> QED
            BY <5>1, <6>1
        <5>3. n \in Nodes
          BY <1>1, <5>1, <5>2
        <5> QED
          BY <5>1, <5>2, <5>3
      <4> HIDE DEF Found
      <4> QED
        BY <2>5, <4>1, <4>2
    <3> HIDE DEF Found, Stop
    <3>4. Round(nt, i) \in Seq(Nodes) /\ NoRepeats(Round(nt, i))
      BY <1>2
    <3>5. /\ after[i] \o Round(nt, i) \in Seq(Nodes) /\ NoRepeats(after[i] \o Round(nt, i))
          /\ Range(after[i] \o Round(nt, i)) = Range(after[i]) \cup Range(Round(nt, i))
      BY <2>2, <3>2, <3>4, JoinedApart
    <3> QED
      BY <2>2, <3>1, <3>3, <3>5
  <2>9. Stop(after[i], i + 1) <=> Len(after[i]) >= total \/ Exhausted(nt, i)
    BY <2>3
  <2> HIDE DEF Stop
  <2> QED
    BY <2>6, <2>7, <2>8, <2>9
<1> HIDE DEF A
<1>11. \A i \in Nat : i \in A
  BY <1>9, <1>10, NatSetInduction
<1> HIDE DEF Found
<1>12. Good(total + 1)
  BY <1>1, <1>11 DEF A
<1>13. Range(list(nt)) = All(M) /\ list(nt) \in Seq(Nodes) /\ NoRepeats(list(nt))
  BY <1>4, <1>8, <1>12
<1>14. Len(list(nt)) = total
  BY <1>1, <1>13, LengthIsSize
<1> QED
  BY <1>13, <1>14

\* addNode: a node that is in no zone enters one.
LEMMA AddToTree ==
    ASSUME NEW nt, NEW M, TreeOf(nt, M), Apart(M), NEW n \in Nodes, NEW z \in Zones,
           n \notin All(M)
    PROVE  LET N == [M EXCEPT ![z] = @ \cup {n}]
           IN  TreeOf(addNode(nt, n, z), N) /\ Apart(N) /\ All(N) = All(M) \cup {n}
<1> DEFINE N == [M EXCEPT ![z] = @ \cup {n}]
           new == addNode(nt, n, z)
<1>1. /\ M \in [Zones -> SUBSET Nodes]
      /\ \A y \in Zones : n \notin M[y]
  BY DEF Apart, All
<1>2. /\ N \in [Zones -> SUBSET Nodes] /\ N[z] = M[z] \cup {n}
      /\ \A y \in Zones : y # z => N[y] = M[y]
  BY <1>1
<1> HIDE DEF N
<1>3. Apart(N)
  <2> SUFFICES ASSUME NEW x \in Zones, NEW y \in Zones, NEW a \in N[x], a \in N[y]
               PROVE  x = y
    BY <1>2 DEF Apart
  <2>1. CASE a = n
    BY <1>1, <1>2, <2>1
  <2>2. CASE a # n
    <3>1. a \in M[x] /\ a \in M[y]
      BY <1>2, <2>2
    <3> QED
      BY <3>1 DEF Apart
  <2> QED
    BY <2>1, <2>2
<1>4. All(N) = All(M) \cup {n}
  BY <1>1, <1>2 DEF All
<1>5. Cardinality(All(N)) = Cardinality(All(M)) + 1
  <2>1. IsFiniteSet(All(M))
    BY Positions
  <2> QED
    BY <1>4, <2>1, FS_AddElement
<1> DEFINE s == nt.tree[z]
<1>6. /\ nt.tree \in [Zones -> Seq(Nodes)] /\ nt.zones \in Seq(Zones)
      /\ \A y \in Zones : NoRepeats(nt.tree[y]) /\ Range(nt.tree[y]) = M[y]
      /\ NoRepeats(nt.zones) /\ Range(nt.zones) = {y \in Zones : M[y] # {}}
      /\ nt.numNodes = Cardinality(All(M))
  BY DEF TreeOf
<1>7. s \in Seq(Nodes) /\ NoRepeats(s) /\ Range(s) = M[z] /\ n \notin Range(s)
  BY <1>1, <1>6
<1>8. new = [tree |-> [nt.tree EXCEPT ![z] = Append(s, n)],
             zones |-> IF s = <<>> THEN Append(nt.zones, z) ELSE nt.zones,
             numNodes |-> nt.numNodes + 1]
  BY <1>7 DEF addNode
<1> HIDE DEF new, s, NoRepeats
<1>9. /\ Append(s, n) \in Seq(Nodes) /\ NoRepeats(Append(s, n))
      /\ Range(Append(s, n)) = N[z]
  BY <1>2, <1>7, AppendApart
<1>10. /\ new.tree \in [Zones -> Seq(Nodes)] /\ new.tree[z] = Append(s, n)
       /\ \A y \in Zones : y # z => new.tree[y] = nt.tree[y]
  BY <1>6, <1>8, <1>9
<1>11. ASSUME NEW y \in Zones
       PROVE  NoRepeats(new.tree[y]) /\ Range(new.tree[y]) = N[y]
  BY <1>2, <1>6, <1>9, <1>10
<1>12. {y \in Zones : N[y] # {}} = {y \in Zones : M[y] # {}} \cup {z}
  BY <1>2
<1>13. /\ new.zones \in Seq(Zones) /\ NoRepeats(new.zones)
       /\ Range(new.zones) = {y \in Zones : N[y] # {}}
  <2>1. s = <<>> <=> M[z] = {}
    BY <1>7, LengthIsSize
  <2>2. CASE s = <<>>
    <3>1. z \notin Range(nt.zones)
      BY <1>6, <2>1, <2>2
    <3>2. /\ Append(nt.zones, z) \in Seq(Zones) /\ NoRepeats(Append(nt.zones, z))
          /\ Range(Append(nt.zones, z)) = Range(nt.zones) \cup {z}
      BY <1>6, <3>1, AppendApart
    <3> QED
      BY <1>6, <1>8, <1>12, <2>2, <3>2
  <2>3. CASE s # <<>>
    BY <1>6, <1>8, <1>12, <2>1, <2>3
  <2> QED
    BY <2>2, <2>3
<1>14. new.numNodes = Cardinality(All(N))
  BY <1>5, <1>6, <1>8
<1>15. TreeOf(new, N)
  BY <1>10, <1>11, <1>13, <1>14 DEF TreeOf
<1> QED
  BY <1>3, <1>4, <1>15 DEF N, new

\* removeNode: a node leaves its zone, and the zone the tree when it was the last.
LEMMA RemoveFromTree ==
    ASSUME NEW nt, NEW M, TreeOf(nt, M), Apart(M), NEW z \in Zones, NEW n \in M[z]
    PROVE  LET N == [M EXCEPT ![z] = @ \ {n}]
           IN  TreeOf(removeNode(nt, n, z), N) /\ Apart(N) /\ All(N) = All(M) \ {n}
<1> DEFINE N == [M EXCEPT ![z] = @ \ {n}]
           new == removeNode(nt, n, z)
<1>1. /\ M \in [Zones -> SUBSET Nodes] /\ n \in Nodes
      /\ \A y \in Zones : n \in M[y] => y = z
  BY DEF Apart
<1>2. /\ N \in [Zones -> SUBSET Nodes] /\ N[z] = M[z] \ {n}
      /\ \A y \in Zones : y # z => N[y] = M[y]
  BY <1>1
<1> HIDE DEF N
<1>3. Apart(N)
  <2> SUFFICES ASSUME NEW x \in Zones, NEW y \in Zones, NEW a \in N[x], a \in N[y]
               PROVE  x = y
    BY <1>2 DEF Apart
  <2>1. a \in M[x] /\ a \in M[y]
    BY <1>2
  <2> QED
    BY <2>1 DEF Apart
<1>4. All(N) = All(M) \ {n}
  BY <1>1, <1>2 DEF All
<1>5. Cardinality(All(N)) = Cardinality(All(M)) - 1
  <2>1. IsFiniteSet(All(M)) /\ n \in All(M)
    BY <1>1, Positions DEF All
  <2> QED
    BY <1>4, <2>1, FS_RemoveElement
<1> DEFINE s == nt.tree[z]
           rest == RemoveFirst(s, n)
<1>6. /\ nt.tree \in [Zones -> Seq(Nodes)] /\ nt.zones \in Seq(Zones)
      /\ \A y \in Zones : NoRepeats(nt.tree[y]) /\ Range(nt.tree[y]) = M[y]
      /\ NoRepeats(nt.zones) /\ Range(nt.zones) = {y \in Zones : M[y] # {}}
      /\ nt.numNodes = Cardinality(All(M))
  BY DEF TreeOf
<1>7. s \in Seq(Nodes) /\ NoRepeats(s) /\ Range(s) = M[z] /\ n \in Range(s)
  BY <1>6
<1>8. new = [tree |-> [nt.tree EXCEPT ![z] = rest],
             zones |-> IF rest = <<>> THEN RemoveFirst(nt.zones, z) ELSE nt.zones,
             numNodes |-> nt.numNodes - 1]
  BY <1>7 DEF removeNode
<1>9. rest \in Seq(Nodes) /\ NoRepeats(rest) /\ Range(rest) = N[z]
  <2> HIDE DEF s, NoRepeats
  <2> QED
    BY <1>2, <1>7, RemoveApart
<1> HIDE DEF new, s, rest, NoRepeats
<1>10. /\ new.tree \in [Zones -> Seq(Nodes)] /\ new.tree[z] = rest
       /\ \A y \in Zones : y # z => new.tree[y] = nt.tree[y]
  BY <1>6, <1>8, <1>9
<1>11. ASSUME NEW y \in Zones
       PROVE  NoRepeats(new.tree[y]) /\ Range(new.tree[y]) = N[y]
  BY <1>2, <1>6, <1>9, <1>10
<1>12. /\ new.zones \in Seq(Zones) /\ NoRepeats(new.zones)
       /\ Range(new.zones) = {y \in Zones : N[y] # {}}
  <2>1. rest = <<>> <=> N[z] = {}
    BY <1>9, LengthIsSize
  <2>2. CASE rest = <<>>
    <3>1. z \in Range(nt.zones)
      BY <1>6
    <3>2. /\ RemoveFirst(nt.zones, z) \in Seq(Zones) /\ NoRepeats(RemoveFirst(nt.zones, z))
          /\ Range(RemoveFirst(nt.zones, z)) = Range(nt.zones) \ {z}
      BY <1>6, <3>1, RemoveApart
    <3>3. {y \in Zones : N[y] # {}} = {y \in Zones : M[y] # {}} \ {z}
      BY <1>2, <2>1, <2>2
    <3> QED
      BY <1>6, <1>8, <2>2, <3>2, <3>3
  <2>3. CASE rest # <<>>
    <3>1. {y \in Zones : N[y] # {}} = {y \in Zones : M[y] # {}}
      BY <1>2, <2>1, <2>3
    <3> QED
      BY <1>6, <1>8, <2>3, <3>1
  <2> QED
    BY <2>2, <2>3
<1>13. new.numNodes = Cardinality(All(N))
  BY <1>5, <1>6, <1>8
<1>14. TreeOf(new, N)
  BY <1>10, <1>11, <1>12, <1>13 DEF TreeOf
<1> QED
  BY <1>3, <1>4, <1>14 DEF N, new

\* The nodes of each zone, by the v1.Nodes of the cache.
ZoneMembers(ns) ==
    [z \in Zones |-> {n \in Nodes : NodeOf(ns, n) # Nil /\ ZoneOf(NodeOf(ns, n)) = z}]

TreeRight == TreeOf(zoneTree, ZoneMembers(nodes))

LEMMA MembersApart ==
    ASSUME NEW ns, \A n \in Nodes : NodeOf(ns, n) \in NodeObjects \cup {Nil}
    PROVE  /\ Apart(ZoneMembers(ns))
           /\ All(ZoneMembers(ns)) = {n \in Nodes : NodeOf(ns, n) # Nil}
<1>1. \A n \in Nodes : NodeOf(ns, n) # Nil => ZoneOf(NodeOf(ns, n)) \in Zones
  BY SnapshotAssumption
<1> QED
  BY <1>1 DEF Apart, All, ZoneMembers

\* The tree at the start, and after a restart.
LEMMA EmptyTree ==
    ASSUME NEW ns, ns = [n \in Nodes |-> Nil]
    PROVE  TreeOf(newNodeTree(Zones), ZoneMembers(ns))
<1> DEFINE nt == newNodeTree(Zones)
           M == ZoneMembers(ns)
<1>1. \A n \in Nodes : NodeOf(ns, n) = Nil
  BY NothingCached
<1>2. \A z \in Zones : M[z] = {}
  BY <1>1 DEF ZoneMembers
<1>3. All(M) = {}
  BY <1>2 DEF All
<1>4. <<>> \in Seq(Nodes) /\ <<>> \in Seq(Zones) /\ NoRepeats(<<>>)
  BY EmptySeq DEF NoRepeats
<1>5. Range(<<>>) = {}
  BY <1>4, LengthIsSize
<1>6. nt.tree = [z \in Zones |-> <<>>] /\ nt.zones = <<>> /\ nt.numNodes = 0
  BY DEF newNodeTree
<1> HIDE DEF nt, M, NoRepeats
<1>7. nt.tree \in [Zones -> Seq(Nodes)] /\ \A z \in Zones : nt.tree[z] = <<>>
  BY <1>4, <1>6
<1>8. nt.numNodes = Cardinality(All(M))
  BY <1>3, <1>6, FS_EmptySet
<1> QED
  BY <1>2, <1>4, <1>5, <1>6, <1>7, <1>8 DEF TreeOf, nt, M

\* Every step keeps the tree.
LEMMA TreeStep ==
    ASSUME IInv, ListSorted, TreeRight, [SnapNext]_allVars
    PROVE  TreeRight'
<1> DEFINE map == [n \in Nodes |-> IF nodes[n] = Nil THEN Nil
                                  ELSE IF nodes[n].node = Nil THEN Nil ELSE nodes[n]]
           M == ZoneMembers(nodes)
<1>1. Tracks(nodes, items, map)
  BY DEF ListSorted, Tracks, Current
<1> HIDE DEF map
<1>2. /\ nodeTree = {n \in Nodes : NodeOf(nodes, n) # Nil}
      /\ \A n \in Nodes : NodeOf(nodes, n) \in NodeObjects \cup {Nil}
      /\ \A n \in Nodes : NodeOf(nodes, n) # Nil => nodes[n].node = NodeOf(nodes, n)
  BY KnownNodes
<1>3. Apart(M) /\ All(M) = nodeTree /\ TreeOf(zoneTree, M)
  BY <1>2, MembersApart DEF TreeRight
<1>4. \A n \in Nodes : NodeOf(nodes, n) # Nil =>
         ZoneOf(NodeOf(nodes, n)) \in Zones /\ n \in M[ZoneOf(NodeOf(nodes, n))]
  BY <1>2, SnapshotAssumption DEF ZoneMembers
<1>5. ASSUME SnapPodOperation
      PROVE  TreeRight'
  <2>1. zoneTree' = zoneTree /\ \A n \in Nodes : NodeOf(nodes', n) = NodeOf(nodes, n)
    BY <1>1, <1>5, PodsTracked
  <2>2. ZoneMembers(nodes') = M
    BY <2>1 DEF ZoneMembers
  <2> HIDE DEF M
  <2> QED
    BY <1>3, <2>1, <2>2 DEF TreeRight
<1>6. ASSUME NEW n \in Nodes \ nodeTree, NEW node \in NodeObjects, SnapAddNode(n, node)
      PROVE  TreeRight'
  <2> DEFINE z == ZoneOf(node)
  <2>1. /\ NodeOf(nodes', n) = node /\ node # Nil
        /\ \A a \in Nodes : a # n => NodeOf(nodes', a) = NodeOf(nodes, a)
    BY <1>1, <1>6, SetTracked DEF SnapAddNode, AddNode
  <2>2. z \in Zones /\ n \notin All(M)
    BY <1>3, SnapshotAssumption
  <2>3. ZoneMembers(nodes') = [M EXCEPT ![z] = @ \cup {n}]
    BY <1>2, <2>1, <2>2 DEF ZoneMembers
  <2>4. zoneTree' = addNode(zoneTree, n, z)
    BY <1>6 DEF SnapAddNode
  <2> HIDE DEF M, z
  <2>5. TreeOf(addNode(zoneTree, n, z), [M EXCEPT ![z] = @ \cup {n}])
    BY <1>3, <2>2, AddToTree
  <2> QED
    BY <2>3, <2>4, <2>5 DEF TreeRight
<1>7. ASSUME NEW n \in nodeTree, NEW node \in NodeObjects, SnapUpdateNode(n, node)
      PROVE  TreeRight'
  <2> DEFINE y == ZoneOf(NodeOf(nodes, n))
             z == ZoneOf(node)
             N == [M EXCEPT ![y] = @ \ {n}]
  <2>1. n \in Nodes /\ NodeOf(nodes, n) # Nil /\ nodes[n].node = NodeOf(nodes, n)
    BY <1>2
  <2>2. /\ NodeOf(nodes', n) = node /\ node # Nil
        /\ \A a \in Nodes : a # n => NodeOf(nodes', a) = NodeOf(nodes, a)
    BY <1>1, <1>7, <2>1, SetTracked DEF SnapUpdateNode, UpdateNode
  <2>3. y \in Zones /\ z \in Zones /\ n \in M[y]
    BY <1>4, <2>1, SnapshotAssumption
  <2>4. zoneTree' = IF y = z THEN zoneTree ELSE addNode(removeNode(zoneTree, n, y), n, z)
    BY <1>7, <2>1 DEF SnapUpdateNode, updateNode
  <2>5. CASE y = z
    <3>1. ZoneMembers(nodes') = M
      BY <2>1, <2>2, <2>5 DEF ZoneMembers
    <3> HIDE DEF M
    <3> QED
      BY <1>3, <2>4, <2>5, <3>1 DEF TreeRight
  <2>6. CASE y # z
    <3>1. ZoneMembers(nodes') = [N EXCEPT ![z] = @ \cup {n}]
      <4>1. \A x \in Zones : M[x] =
               {a \in Nodes : NodeOf(nodes, a) # Nil /\ ZoneOf(NodeOf(nodes, a)) = x}
        BY DEF ZoneMembers
      <4>2. M \in [Zones -> SUBSET Nodes]
        BY <1>3 DEF Apart
      <4> HIDE DEF M
      <4>3. /\ N \in [Zones -> SUBSET Nodes] /\ N[y] = M[y] \ {n}
            /\ \A x \in Zones : x # y => N[x] = M[x]
        BY <2>3, <4>2
      <4> HIDE DEF N
      <4>4. ASSUME NEW x \in Zones
            PROVE  {a \in Nodes : NodeOf(nodes', a) # Nil /\ ZoneOf(NodeOf(nodes', a)) = x}
                     = [N EXCEPT ![z] = @ \cup {n}][x]
        <5>1. CASE x = y
          <6>1. [N EXCEPT ![z] = @ \cup {n}][x] = M[y] \ {n}
            BY <2>6, <4>3, <5>1
          <6> QED
            BY <2>1, <2>2, <2>6, <4>1, <5>1, <6>1
        <5>2. CASE x = z
          <6>1. [N EXCEPT ![z] = @ \cup {n}][x] = M[z] \cup {n}
            BY <2>3, <2>6, <4>3, <5>2
          <6> QED
            BY <2>1, <2>2, <4>1, <5>2, <6>1
        <5>3. CASE x # y /\ x # z
          <6>1. [N EXCEPT ![z] = @ \cup {n}][x] = M[x]
            BY <4>3, <5>3
          <6> QED
            BY <2>1, <2>2, <4>1, <5>3, <6>1
        <5> QED
          BY <5>1, <5>2, <5>3
      <4> QED
        BY <4>3, <4>4 DEF ZoneMembers
    <3> HIDE DEF M, y, z
    <3>2. TreeOf(removeNode(zoneTree, n, y), N)
      BY <1>3, <2>3, RemoveFromTree
    <3>3. Apart(N)
      BY <1>3, <2>3, RemoveFromTree
    <3>4. All(N) = All(M) \ {n}
      BY <1>3, <2>3, RemoveFromTree
    <3> HIDE DEF N
    <3>5. n \notin All(N)
      BY <3>4
    <3>6. TreeOf(addNode(removeNode(zoneTree, n, y), n, z), [N EXCEPT ![z] = @ \cup {n}])
      BY <2>1, <2>3, <3>2, <3>3, <3>5, AddToTree
    <3> QED
      BY <2>4, <2>6, <3>1, <3>6 DEF TreeRight
  <2> QED
    BY <2>5, <2>6
<1>8. ASSUME NEW n \in nodeTree, SnapRemoveNode(n)
      PROVE  TreeRight'
  <2> DEFINE y == ZoneOf(NodeOf(nodes, n))
  <2>1. n \in Nodes /\ NodeOf(nodes, n) # Nil /\ nodes[n].node = NodeOf(nodes, n)
    BY <1>2
  <2>2. /\ NodeOf(nodes', n) = Nil
        /\ \A a \in Nodes : a # n => NodeOf(nodes', a) = NodeOf(nodes, a)
    BY <1>1, <1>8, RemoveTracked DEF SnapRemoveNode
  <2>3. y \in Zones /\ n \in M[y]
    BY <1>4, <2>1
  <2>4. ZoneMembers(nodes') = [M EXCEPT ![y] = @ \ {n}]
    BY <2>1, <2>2, <2>3 DEF ZoneMembers
  <2>5. zoneTree' = removeNode(zoneTree, n, y)
    BY <1>8, <2>1 DEF SnapRemoveNode
  <2> HIDE DEF M, y
  <2>6. TreeOf(removeNode(zoneTree, n, y), [M EXCEPT ![y] = @ \ {n}])
    BY <1>3, <2>3, RemoveFromTree
  <2> QED
    BY <2>4, <2>5, <2>6 DEF TreeRight
<1>9. ASSUME UpdateSnapshot \/ UNCHANGED allVars
      PROVE  TreeRight'
  BY <1>9 DEF UpdateSnapshot, TreeRight, allVars, vars, snapVars
<1>10. ASSUME SnapRestart
       PROVE  TreeRight'
  BY <1>10, EmptyTree DEF SnapRestart, Restart, TreeRight
<1> QED
  BY <1>5, <1>6, <1>7, <1>8, <1>9, <1>10, NothingRemoved DEF SnapNext, SnapNodeOperation

LEMMA TreeInvariant == SnapSpec => []TreeRight
<1>1. SnapInit => TreeRight
  BY EmptyTree DEF SnapInit, Init, TreeRight
<1>2. IInv /\ ListSorted /\ TreeRight /\ [SnapNext]_allVars => TreeRight'
  BY TreeStep
<1> QED
  BY <1>1, <1>2, ListInvariant, PTL DEF SnapSpec, allVars

\* What the invariant says of the tree.
LEMMA TreeLists ==
    ASSUME IInv, TreeRight
    PROVE  TreeListsEveryNode
<1> DEFINE M == ZoneMembers(nodes)
<1>1. /\ nodeTree = {n \in Nodes : NodeOf(nodes, n) # Nil}
      /\ \A n \in Nodes : NodeOf(nodes, n) \in NodeObjects \cup {Nil}
  BY KnownNodes
<1>2. Apart(M) /\ All(M) = nodeTree /\ TreeOf(zoneTree, M)
  BY <1>1, MembersApart DEF TreeRight
<1> HIDE DEF M
<1>3. Range(list(zoneTree)) = nodeTree /\ Len(list(zoneTree)) = zoneTree.numNodes
  BY <1>2, ListFindsAll
<1>4. ToSet(list(zoneTree)) = nodeTree
  BY <1>3 DEF ToSet, Range
<1>5. zoneTree.numNodes = Cardinality(nodeTree)
  BY <1>2 DEF TreeOf
<1>6. ASSUME NEW z \in Range(zoneTree.zones)
      PROVE  zoneTree.tree[z] # <<>>
  <2>1. z \in Zones /\ M[z] # {}
    BY <1>2 DEF TreeOf
  <2>2. /\ zoneTree.tree[z] \in Seq(Nodes) /\ NoRepeats(zoneTree.tree[z])
        /\ Range(zoneTree.tree[z]) # {}
    BY <1>2, <2>1 DEF TreeOf
  <2> HIDE DEF NoRepeats
  <2> QED
    BY <2>2, LengthIsSize
<1> QED
  BY <1>3, <1>4, <1>5, <1>6 DEF TreeListsEveryNode

\* addNode, updateNode and removeNode keep a tree whose list() names every node of the
\* cache exactly once and never ends with "all zones exhausted", through changes of zone
\* and the disappearance and return of zones.
THEOREM TreeIsComplete == SnapSpec => []TreeListsEveryNode
<1>1. IInv /\ TreeRight => TreeListsEveryNode
  BY TreeLists
<1> QED
  BY <1>1, ListInvariant, TreeInvariant, PTL

-----------------------------------------------------------------------------
(* The snapshot.                                                           *)

Held(map) == {n \in Nodes : map[n] # Nil}

EntriesOf(map, N) == {[name |-> n, info |-> map[n]] : n \in N}

\* The lists of a snapshot say what its map says.
SnapshotSelf ==
    /\ DOMAIN snapshot = {"nodeInfoMap", "nodeInfoList", "withAffinity"}
    /\ snapshot.nodeInfoList = EntriesOf(snapshot.nodeInfoMap, Held(snapshot.nodeInfoMap))
    /\ snapshot.withAffinity = {n \in Nodes : Affine(snapshot.nodeInfoMap[n])}

SnapshotCurrent == Current(nodes, items, snapshot.nodeInfoMap)

\* What a snapshot of the cache is.
FullMap == [n \in Nodes |-> IF n \in nodeTree THEN nodes[n] ELSE Nil]

\* Entries are as many as their nodes.
LEMMA EntriesCount ==
    ASSUME NEW map, NEW N, IsFiniteSet(N)
    PROVE  Cardinality(EntriesOf(map, N)) = Cardinality(N)
<1> DEFINE f == [n \in N |-> [name |-> n, info |-> map[n]]]
<1>1. f \in [N -> EntriesOf(map, N)] /\ \A n \in N : f[n].name = n
  BY DEF EntriesOf
<1>2. \A e \in EntriesOf(map, N) : \E n \in N : f[n] = e
  BY DEF EntriesOf
<1> HIDE DEF f
<1>3. f \in Surjection(N, EntriesOf(map, N))
  BY <1>1, <1>2 DEF Surjection
<1>4. f \in Injection(N, EntriesOf(map, N))
  <2>1. \A a, b \in N : f[a] = f[b] => a = b
    BY <1>1
  <2> QED
    BY <1>1, <2>1 DEF Injection, IsInjective
<1> QED
  BY <1>3, <1>4, FS_Surjection

\* What the copying loop leaves in the map: the present NodeInfos of all nodes that are
\* there, and what the snapshot held of the others.
LEMMA CopiedMap ==
    ASSUME IInv, ListSorted, SnapshotCurrent
    PROVE  /\ \A n \in nodeTree : n \in Nodes /\ MapAfterCopy[n] = nodes[n] /\ nodes[n] # Nil
           /\ \A n \in Nodes : n \notin Copied => MapAfterCopy[n] = snapshot.nodeInfoMap[n]
           /\ \A n \in Nodes : n \in nodeTree <=> ~(nodes[n] = Nil \/ nodes[n].node = Nil)
           /\ Copied \subseteq nodeTree /\ nodeTree \subseteq Nodes
<1>1. /\ nodeTree \subseteq Nodes
      /\ \A n \in Nodes : n \in nodeTree <=> (nodes[n] # Nil /\ nodes[n].node # Nil)
  BY DEF IInv, TypeOK, TreeMatchesNodes
<1>2. Newer(items) = {n \in Present(nodes) : items.gen[Nil] < items.gen[n]}
  BY NewerAre DEF ListSorted
<1>3. Copied = {n \in nodeTree : items.gen[Nil] < items.gen[n]}
  BY <1>1, <1>2 DEF Copied, Present
<1>4. \A n \in Nodes : MapAfterCopy[n] = IF n \in Copied THEN nodes[n] ELSE snapshot.nodeInfoMap[n]
  BY DEF MapAfterCopy
<1>5. ASSUME NEW n \in nodeTree
      PROVE  MapAfterCopy[n] = nodes[n] /\ nodes[n] # Nil
  <2>1. n \in Nodes /\ nodes[n] # Nil /\ nodes[n].node # Nil
    BY <1>1
  <2>2. CASE n \in Copied
    BY <1>4, <2>1, <2>2
  <2>3. CASE n \notin Copied
    <3>1. items.gen[Nil] \in Int /\ items.gen[n] \in Int
      BY <2>1, ListTypes DEF ListSorted, Sorted, Items
    <3>2. items.gen[n] <= items.gen[Nil]
      BY <1>3, <2>3, <3>1
    <3>3. snapshot.nodeInfoMap[n] = nodes[n]
      BY <2>1, <3>2 DEF SnapshotCurrent, Current
    <3> QED
      BY <1>4, <2>1, <2>3, <3>3
  <2> QED
    BY <2>2, <2>3
<1> QED
  BY <1>1, <1>3, <1>4, <1>5

\* removeDeletedNodesFromSnapshot has no choice: exactly the nodes that are gone leave.
LEMMA DeletedAreGone ==
    ASSUME IInv, ListSorted, TreeRight, SnapshotCurrent
    PROVE  LET gone == Held(MapAfterCopy) \ nodeTree
           IN  /\ \A deleted \in Deleted(MapAfterCopy) : deleted = gone
               /\ Cardinality(Held(MapAfterCopy)) > zoneTree.numNodes <=> gone # {}
               /\ zoneTree.numNodes = Cardinality(nodeTree)
               /\ ToSet(list(zoneTree)) = nodeTree
               /\ IsFiniteSet(nodeTree) /\ nodeTree \subseteq Held(MapAfterCopy)
<1> DEFINE K == Held(MapAfterCopy)
           gone == K \ nodeTree
           toDelete == Cardinality(K) - zoneTree.numNodes
<1>1. /\ \A n \in nodeTree : n \in Nodes /\ MapAfterCopy[n] = nodes[n] /\ nodes[n] # Nil
      /\ \A n \in Nodes : n \in nodeTree <=> ~(nodes[n] = Nil \/ nodes[n].node = Nil)
      /\ nodeTree \subseteq Nodes
  BY CopiedMap
<1>2. nodeTree \subseteq K /\ K \subseteq Nodes
  BY <1>1 DEF Held
<1>3. IsFiniteSet(K) /\ IsFiniteSet(nodeTree) /\ IsFiniteSet(gone)
  BY <1>2, SnapshotAssumption, FS_Subset, FS_Difference
<1>4. /\ Cardinality(K) \in Nat /\ Cardinality(nodeTree) \in Nat /\ Cardinality(gone) \in Nat
      /\ Cardinality(gone) = Cardinality(K) - Cardinality(nodeTree)
      /\ Cardinality(gone) = 0 <=> gone = {}
  <2>1. K \cap nodeTree = nodeTree
    BY <1>2
  <2>2. Cardinality(gone) = Cardinality(K) - Cardinality(K \cap nodeTree)
    BY <1>3, FS_Difference
  <2> QED
    BY <1>3, <2>1, <2>2, FS_CardinalityType, FS_EmptySet
<1>5. zoneTree.numNodes = Cardinality(nodeTree) /\ ToSet(list(zoneTree)) = nodeTree
  BY TreeLists DEF TreeListsEveryNode
<1>6. gone = {n \in Nodes : /\ MapAfterCopy[n] # Nil
                            /\ nodes[n] = Nil \/ nodes[n].node = Nil}
  BY <1>1 DEF Held
<1>7. K = {n \in Nodes : MapAfterCopy[n] # Nil}
  BY DEF Held
<1>8. Deleted(MapAfterCopy) =
         IF toDelete <= 0 THEN {{}}
         ELSE {D \in SUBSET gone : \/ Cardinality(D) = toDelete
                                   \/ D = gone /\ Cardinality(gone) < toDelete}
  BY <1>6, <1>7 DEF Deleted
<1> HIDE DEF K, gone
<1>9. toDelete = Cardinality(gone)
  BY <1>4, <1>5
<1>10. ASSUME NEW deleted \in Deleted(MapAfterCopy)
       PROVE  deleted = gone
  <2>1. CASE Cardinality(gone) = 0
    BY <1>4, <1>8, <1>9, <1>10, <2>1
  <2>2. CASE Cardinality(gone) # 0
    <3>1. deleted \in SUBSET gone /\ (Cardinality(deleted) = Cardinality(gone) \/ deleted = gone)
      BY <1>4, <1>8, <1>9, <1>10, <2>2
    <3> QED
      BY <1>3, <3>1, FS_Subset
  <2> QED
    BY <2>1, <2>2
<1>11. Cardinality(K) > zoneTree.numNodes <=> gone # {}
  BY <1>4, <1>5
<1> QED
  BY <1>2, <1>3, <1>5, <1>10, <1>11 DEF K, gone

\* UpdateSnapshot makes the snapshot the cache.
LEMMA Refreshed ==
    ASSUME IInv, ListSorted, TreeRight, SnapshotCurrent, SnapshotSelf,
           NEW deleted \in Deleted(MapAfterCopy)
    PROVE  /\ Updated(deleted).nodeInfoMap = FullMap
           /\ Updated(deleted).nodeInfoList = EntriesOf(nodes, nodeTree)
           /\ Updated(deleted).withAffinity = {n \in nodeTree : Affine(nodes[n])}
           /\ ~Updated(deleted).err
<1> DEFINE K == Held(MapAfterCopy)
           gone == K \ nodeTree
           old == snapshot.nodeInfoMap
           map == [n \in Nodes |-> IF n \in deleted THEN Nil ELSE MapAfterCopy[n]]
           infos == IF ListsToUpdate THEN ListOf(map) ELSE ListAfterCopy
           affine == IF ListsToUpdate \/ AffinityChanged
                     THEN AffineOf(infos) ELSE snapshot.withAffinity
           consistent == Cardinality(infos) = zoneTree.numNodes
<1>1. /\ \A n \in nodeTree : n \in Nodes /\ MapAfterCopy[n] = nodes[n] /\ nodes[n] # Nil
      /\ \A n \in Nodes : n \notin Copied => MapAfterCopy[n] = old[n]
      /\ Copied \subseteq nodeTree /\ nodeTree \subseteq Nodes
  BY CopiedMap
<1>2. /\ deleted = gone
      /\ Cardinality(K) > zoneTree.numNodes <=> gone # {}
      /\ zoneTree.numNodes = Cardinality(nodeTree) /\ ToSet(list(zoneTree)) = nodeTree
      /\ IsFiniteSet(nodeTree) /\ nodeTree \subseteq K
  BY DeletedAreGone
<1>3. map = FullMap
  BY <1>1, <1>2 DEF FullMap, Held
<1>4. \A n \in nodeTree : map[n] = nodes[n]
  BY <1>1, <1>3 DEF FullMap
<1>5. Updated(deleted) =
         [nodeInfoMap |-> map,
          nodeInfoList |-> IF consistent THEN infos ELSE ListOf(map),
          withAffinity |-> IF consistent THEN affine ELSE AffineOf(ListOf(map)),
          err |-> ~consistent]
  BY DEF Updated
<1> HIDE DEF map, infos, affine, consistent
<1>6. ListOf(map) = EntriesOf(nodes, nodeTree)
  <2>1. {m \in ToSet(list(zoneTree)) : map[m] # Nil} = nodeTree
    BY <1>1, <1>2, <1>4
  <2>2. ListOf(map) = {[name |-> n, info |-> map[n]] : n \in nodeTree}
    BY <2>1 DEF ListOf
  <2> QED
    BY <1>4, <2>2 DEF EntriesOf
<1>7. AffineOf(EntriesOf(nodes, nodeTree)) = {n \in nodeTree : Affine(nodes[n])}
  <2> DEFINE E == EntriesOf(nodes, nodeTree)
  <2>1. \A e \in E : e.name \in nodeTree /\ e.info = nodes[e.name]
    BY DEF EntriesOf
  <2>2. \A n \in nodeTree : \E e \in E : e.name = n /\ e.info = nodes[n]
    <3> SUFFICES ASSUME NEW n \in nodeTree
                 PROVE  \E e \in E : e.name = n /\ e.info = nodes[n]
      OBVIOUS
    <3> DEFINE e == [name |-> n, info |-> nodes[n]]
    <3>1. e \in E
      BY DEF EntriesOf
    <3>2. e.name = n /\ e.info = nodes[n]
      OBVIOUS
    <3> HIDE DEF e, E
    <3> QED
      BY <3>1, <3>2
  <2> HIDE DEF E
  <2>3. AffineOf(E) = {e.name : e \in {f \in E : Affine(f.info)}}
    BY DEF AffineOf
  <2>4. ASSUME NEW x \in AffineOf(E)
        PROVE  x \in nodeTree /\ Affine(nodes[x])
    <3>1. PICK e \in E : Affine(e.info) /\ x = e.name
      BY <2>3
    <3> QED
      BY <2>1, <3>1
  <2>5. ASSUME NEW n \in nodeTree, Affine(nodes[n])
        PROVE  n \in AffineOf(E)
    <3>1. PICK e \in E : e.name = n /\ e.info = nodes[n]
      BY <2>2
    <3>2. Affine(e.info)
      BY <2>5, <3>1
    <3> QED
      BY <2>3, <3>1, <3>2
  <2> QED
    BY <2>4, <2>5 DEF E
<1>8. ASSUME ~ListsToUpdate
      PROVE  /\ K = nodeTree /\ Held(old) = nodeTree
             /\ ListAfterCopy = EntriesOf(nodes, nodeTree)
  <2>1. /\ \A n \in Copied : old[n] # Nil
        /\ ~(Cardinality(K) > zoneTree.numNodes)
    BY <1>8 DEF ListsToUpdate, Held
  <2>2. K = nodeTree
    BY <1>2, <2>1
  <2>3. Held(old) = nodeTree
    <3>1. \A n \in Nodes : n \in K <=> MapAfterCopy[n] # Nil
      BY DEF Held
    <3>2. \A n \in Nodes : old[n] # Nil <=> n \in nodeTree
      BY <1>1, <2>1, <2>2, <3>1
    <3> QED
      BY <1>1, <3>2 DEF Held
  <2>4. snapshot.nodeInfoList = EntriesOf(old, nodeTree)
    BY <2>3 DEF SnapshotSelf
  <2> DEFINE New(e) == IF e.name \in Copied THEN [e EXCEPT !.info = nodes[e.name]] ELSE e
  <2>5. ASSUME NEW n \in nodeTree
        PROVE  New([name |-> n, info |-> old[n]]) = [name |-> n, info |-> nodes[n]]
    <3>1. CASE n \in Copied
      BY <3>1
    <3>2. CASE n \notin Copied
      <4>1. old[n] = nodes[n]
        BY <1>1, <3>2
      <4> QED
        BY <3>2, <4>1
    <3> QED
      BY <3>1, <3>2
  <2>6. ListAfterCopy = {New(e) : e \in EntriesOf(old, nodeTree)}
    BY <2>4 DEF ListAfterCopy
  <2> HIDE DEF New
  <2>7. {New(e) : e \in EntriesOf(old, nodeTree)} = EntriesOf(nodes, nodeTree)
    <3>1. ASSUME NEW x \in {New(e) : e \in EntriesOf(old, nodeTree)}
          PROVE  x \in EntriesOf(nodes, nodeTree)
      <4>1. PICK e \in EntriesOf(old, nodeTree) : x = New(e)
        OBVIOUS
      <4>2. PICK n \in nodeTree : e = [name |-> n, info |-> old[n]]
        BY DEF EntriesOf
      <4>3. x = [name |-> n, info |-> nodes[n]]
        BY <2>5, <4>1, <4>2
      <4> QED
        BY <4>3 DEF EntriesOf
    <3>2. ASSUME NEW n \in nodeTree
          PROVE  [name |-> n, info |-> nodes[n]] \in {New(e) : e \in EntriesOf(old, nodeTree)}
      <4>1. [name |-> n, info |-> old[n]] \in EntriesOf(old, nodeTree)
        BY DEF EntriesOf
      <4> QED
        BY <2>5, <4>1
    <3> QED
      BY <3>1, <3>2 DEF EntriesOf
  <2> QED
    BY <2>2, <2>3, <2>6, <2>7
<1>9. infos = EntriesOf(nodes, nodeTree)
  BY <1>6, <1>8 DEF infos
<1>10. consistent
  BY <1>2, <1>9, EntriesCount DEF consistent
<1>11. affine = {n \in nodeTree : Affine(nodes[n])}
  <2>1. CASE ListsToUpdate \/ AffinityChanged
    BY <1>7, <1>9, <2>1 DEF affine
  <2>2. CASE ~ListsToUpdate /\ ~AffinityChanged
    <3>1. affine = {n \in Nodes : Affine(old[n])}
      BY <2>2 DEF affine, SnapshotSelf
    <3>2. Held(old) = nodeTree
      BY <1>8, <2>2
    <3>3. ASSUME NEW n \in Nodes, n \notin nodeTree
          PROVE  ~Affine(old[n])
      BY <3>2, <3>3 DEF Held, Affine
    <3>4. ASSUME NEW n \in nodeTree
          PROVE  Affine(old[n]) <=> Affine(nodes[n])
      <4>1. CASE n \in Copied
        BY <2>2, <4>1 DEF AffinityChanged, Affine
      <4>2. CASE n \notin Copied
        <5>1. old[n] = nodes[n]
          BY <1>1, <4>2
        <5> QED
          BY <5>1
      <4> QED
        BY <4>1, <4>2
    <3> QED
      BY <1>1, <3>1, <3>3, <3>4
  <2> QED
    BY <2>1, <2>2
<1>12. Updated(deleted).err = ~consistent
  BY <1>5
<1>13. ~Updated(deleted).err
  BY <1>10, <1>12
<1>14. /\ Updated(deleted).nodeInfoMap = map
       /\ Updated(deleted).nodeInfoList = infos
       /\ Updated(deleted).withAffinity = affine
  BY <1>5, <1>10
<1> QED
  BY <1>3, <1>9, <1>11, <1>13, <1>14

\* The empty snapshot.
LEMMA EmptySnapshot ==
    /\ DOMAIN NewEmptySnapshot = {"nodeInfoMap", "nodeInfoList", "withAffinity"}
    /\ NewEmptySnapshot.nodeInfoList =
          EntriesOf(NewEmptySnapshot.nodeInfoMap, Held(NewEmptySnapshot.nodeInfoMap))
    /\ NewEmptySnapshot.withAffinity = {n \in Nodes : Affine(NewEmptySnapshot.nodeInfoMap[n])}
<1> DEFINE e == NewEmptySnapshot
<1>1. /\ DOMAIN e = {"nodeInfoMap", "nodeInfoList", "withAffinity"}
      /\ e.nodeInfoList = {} /\ e.withAffinity = {}
      /\ \A n \in Nodes : e.nodeInfoMap[n] = Nil
  BY DEF NewEmptySnapshot
<1> HIDE DEF e
<1>2. Held(e.nodeInfoMap) = {}
  BY <1>1 DEF Held
<1>3. EntriesOf(e.nodeInfoMap, {}) = {}
  BY DEF EntriesOf
<1>4. {n \in Nodes : Affine(e.nodeInfoMap[n])} = {}
  BY <1>1 DEF Affine
<1> QED
  BY <1>1, <1>2, <1>3, <1>4 DEF e

\* Every step keeps the snapshot consistent, and current where it is not older.
LEMMA SnapshotStep ==
    ASSUME IInv, ListSorted, TreeRight, SnapshotCurrent, SnapshotSelf, [SnapNext]_allVars
    PROVE  SnapshotCurrent' /\ SnapshotSelf'
<1> DEFINE map == snapshot.nodeInfoMap
<1>1. Tracks(nodes, items, map)
  BY DEF ListSorted, SnapshotCurrent, Tracks
<1>2. ASSUME UNCHANGED snapshot, Tracks(nodes', items', map)
      PROVE  SnapshotCurrent' /\ SnapshotSelf'
  BY <1>2 DEF Tracks, SnapshotCurrent, SnapshotSelf
<1> HIDE DEF map
<1>3. ASSUME SnapPodOperation
      PROVE  UNCHANGED snapshot /\ Tracks(nodes', items', map)
  BY <1>1, <1>3, PodsTracked
<1>4. ASSUME NEW n \in Nodes, NEW node \in NodeObjects, SnapAddNode(n, node)
      PROVE  UNCHANGED snapshot /\ Tracks(nodes', items', map)
  BY <1>1, <1>4, SetTracked DEF SnapAddNode, AddNode
<1>5. ASSUME NEW n \in nodeTree, NEW node \in NodeObjects, SnapUpdateNode(n, node)
      PROVE  UNCHANGED snapshot /\ Tracks(nodes', items', map)
  <2>1. n \in Nodes
    BY KnownNodes
  <2> QED
    BY <1>1, <1>5, <2>1, SetTracked DEF SnapUpdateNode, UpdateNode
<1>6. ASSUME NEW n \in nodeTree, SnapRemoveNode(n)
      PROVE  UNCHANGED snapshot /\ Tracks(nodes', items', map)
  BY <1>1, <1>6, RemoveTracked DEF SnapRemoveNode
<1>7. ASSUME UpdateSnapshot
      PROVE  SnapshotCurrent' /\ SnapshotSelf'
  <2>1. PICK deleted \in Deleted(MapAfterCopy) :
            snapshot' = [field \in DOMAIN snapshot |-> Updated(deleted)[field]]
    BY <1>7 DEF UpdateSnapshot
  <2>2. nodes' = nodes
    BY <1>7 DEF UpdateSnapshot, vars
  <2>3. /\ Updated(deleted).nodeInfoMap = FullMap
        /\ Updated(deleted).nodeInfoList = EntriesOf(nodes, nodeTree)
        /\ Updated(deleted).withAffinity = {n \in nodeTree : Affine(nodes[n])}
    BY Refreshed
  <2>4. /\ DOMAIN snapshot' = {"nodeInfoMap", "nodeInfoList", "withAffinity"}
        /\ snapshot'.nodeInfoMap = FullMap
        /\ snapshot'.nodeInfoList = EntriesOf(nodes, nodeTree)
        /\ snapshot'.withAffinity = {n \in nodeTree : Affine(nodes[n])}
    BY <2>1, <2>3 DEF SnapshotSelf
  <2>5. /\ nodeTree \subseteq Nodes
        /\ \A n \in Nodes : n \in nodeTree <=> (nodes[n] # Nil /\ nodes[n].node # Nil)
        /\ \A n \in Nodes : FullMap[n] = IF n \in nodeTree THEN nodes[n] ELSE Nil
    BY DEF IInv, TypeOK, TreeMatchesNodes, FullMap
  <2>6. Current(nodes, items', FullMap)
    BY <2>5 DEF Current
  <2>7. Held(FullMap) = nodeTree
    BY <2>5 DEF Held
  <2>8. EntriesOf(FullMap, nodeTree) = EntriesOf(nodes, nodeTree)
    BY <2>5 DEF EntriesOf
  <2>9. {n \in Nodes : Affine(FullMap[n])} = {n \in nodeTree : Affine(nodes[n])}
    <3>1. ~Affine(Nil)
      BY DEF Affine
    <3> QED
      BY <2>5, <3>1
  <2>10. SnapshotCurrent'
    BY <2>2, <2>4, <2>6 DEF SnapshotCurrent
  <2>11. SnapshotSelf'
    BY <2>4, <2>7, <2>8, <2>9 DEF SnapshotSelf
  <2> QED
    BY <2>10, <2>11
<1>8. ASSUME SnapRestart
      PROVE  SnapshotCurrent' /\ SnapshotSelf'
  <2>1. nodes' = [n \in Nodes |-> Nil] /\ snapshot' = NewEmptySnapshot
    BY <1>8 DEF SnapRestart, Restart
  <2> QED
    BY <2>1, EmptySnapshot DEF SnapshotCurrent, SnapshotSelf, Current
<1>9. ASSUME UNCHANGED allVars
      PROVE  SnapshotCurrent' /\ SnapshotSelf'
  BY <1>9 DEF allVars, vars, snapVars, SnapshotCurrent, SnapshotSelf
<1>10. ASSUME SnapNodeOperation
       PROVE  \/ UNCHANGED snapshot /\ Tracks(nodes', items', map)
              \/ UNCHANGED allVars
  BY <1>4, <1>5, <1>6, <1>10, NothingRemoved DEF SnapNodeOperation
<1> QED
  BY <1>2, <1>3, <1>7, <1>8, <1>9, <1>10 DEF SnapNext

LEMMA SnapshotInvariant == SnapSpec => [](SnapshotCurrent /\ SnapshotSelf)
<1>1. SnapInit => SnapshotCurrent /\ SnapshotSelf
  <2> SUFFICES ASSUME SnapInit PROVE SnapshotCurrent /\ SnapshotSelf
    OBVIOUS
  <2>1. nodes = [n \in Nodes |-> Nil] /\ snapshot = NewEmptySnapshot
    BY DEF SnapInit, Init
  <2> QED
    BY <2>1, EmptySnapshot DEF SnapshotCurrent, SnapshotSelf, Current
<1>2. /\ IInv /\ ListSorted /\ TreeRight /\ SnapshotCurrent /\ SnapshotSelf
      /\ [SnapNext]_allVars
      => SnapshotCurrent' /\ SnapshotSelf'
  BY SnapshotStep
<1> QED
  BY <1>1, <1>2, ListInvariant, TreeInvariant, PTL DEF SnapSpec, allVars

\* UpdateSnapshot, called at any time, gives the scheduling cycle the nodes of the cache
\* as they are, although it copies only what is newer than the last snapshot, counts how
\* many entries to delete instead of looking for them, and rebuilds its lists only when it
\* has to; "snapshot state is not consistent" is never reported.
THEOREM SnapshotsAreCurrent == SnapSpec => []SnapshotIsCurrent
<1>1. ASSUME IInv, ListSorted, TreeRight, SnapshotCurrent, SnapshotSelf
      PROVE  SnapshotIsCurrent
  <2> SUFFICES ASSUME NEW deleted \in Deleted(MapAfterCopy)
               PROVE  LET after == Updated(deleted)
                      IN  /\ ~after.err
                          /\ after.nodeInfoMap =
                                [n \in Nodes |-> IF n \in nodeTree THEN nodes[n] ELSE Nil]
                          /\ after.nodeInfoList =
                                {[name |-> n, info |-> nodes[n]] : n \in nodeTree}
                          /\ after.withAffinity = {n \in nodeTree : Affine(nodes[n])}
    BY DEF SnapshotIsCurrent
  <2>1. /\ Updated(deleted).nodeInfoMap = FullMap
        /\ Updated(deleted).nodeInfoList = EntriesOf(nodes, nodeTree)
        /\ Updated(deleted).withAffinity = {n \in nodeTree : Affine(nodes[n])}
        /\ ~Updated(deleted).err
    BY <1>1, Refreshed
  <2> QED
    BY <2>1 DEF FullMap, EntriesOf
<1>2. IInv /\ ListSorted /\ TreeRight /\ SnapshotCurrent /\ SnapshotSelf => SnapshotIsCurrent
  BY <1>1
<1> QED
  BY <1>2, ListInvariant, TreeInvariant, SnapshotInvariant, PTL
=============================================================================
