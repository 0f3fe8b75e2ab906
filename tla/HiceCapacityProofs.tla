-------------------------- MODULE HiceCapacityProofs -------------------------
(***************************************************************************)
(* The capacity guarantee of Hicev2: however requests are converted, and   *)
(* however many bindings are in flight, the pods of a node never ask for   *)
(* more CPU than it has, but for one milli-CPU for each pod whose total    *)
(* float64 rounded off.                                                    *)
(***************************************************************************)
EXTENDS HiceBindingProofs

\* What the theorems assume of the pods and of others, besides Timely: nobody gives a
\* pod annotations, which Hicev2 takes for the mark of a converted request; nobody
\* changes the performance of a node; and what Bind leaves as it is, the init containers
\* and the overhead, is no more than what Filter charged for it.  That is so on nodes no
\* faster than the pod's reference node; on faster ones the pod must have no overhead and
\* no init container that asks for more than the pod is charged.
Plain ==
    /\ Annotated = {}
    /\ "annotate" \notin Others /\ "relabel" \notin Others
    /\ \A p \in Pods, n \in Nodes :
          \/ Kb[p] >= InitialKj[n]
          \/ /\ Overhead[p] = 0
             /\ InitCpu[p] <= Quotient(Request(NewPod(p)), Kb[p], InitialKj[n])

-----------------------------------------------------------------------------
(* The inductive invariant.                                                *)

\* An object with the requests the pod's owner wrote.
Raw(p, o) == o.containers = Containers[p] /\ o.init = InitCpu[p] /\ ~o.annotated

\* An object with the requests Bind converted for a node.
Converted(p, o, n) ==
    /\ o.containers = ConvertPodCpu(Containers[p], Kb[p], InitialKj[n])
    /\ o.init = InitCpu[p] /\ o.annotated

\* What the stores may hold of a pod: it is converted exactly when it is bound.
StoredOf(p) ==
    {o \in ObjectsOf(p) :
        o # Nil => IF o.node = Nil THEN Raw(p, o) ELSE Converted(p, o, o.node)}

StoredInv ==
    \A p \in Pods :
        /\ etcd[p] \in StoredOf(p) /\ informer[p] \in StoredOf(p) /\ queue[p] \in StoredOf(p)
        /\ watch[p] \in Seq(StoredOf(p))

\* What the scheduler works on is not converted yet, but for what Bind converted.
WorkInv ==
    /\ cycle # Nil => Raw(cycle.uid, cycle)
    /\ \A p \in assumedPods : Raw(p, podStates[p].pod)
    /\ \A p \in Pods : binding[p] # Nil =>
          /\ Raw(p, binding[p].pod)
          /\ binding[p].read \in StoredOf(p)
          /\ binding[p].pc \in {"get", "put"} =>
                binding[p].containers =
                    ConvertPodCpu(Containers[p], Kb[p], InitialKj[binding[p].pod.node])

\* The nodes keep their performance.  What they list is not converted, or it is no
\* longer assumed: the confirmation of an assumed pod leaves the assumed object there.
NodesInv ==
    \A n \in Nodes : nodes[n] # Nil =>
        /\ nodes[n].node \in {Nil, InitialKj[n]}
        /\ \A o \in nodes[n].pods :
              Raw(o.uid, o) \/ (Converted(o.uid, o, o.node) /\ o.uid \notin assumedPods)

LabelInv == \A n \in Nodes : snapshot[n] # Nil => snapshot[n].node = InitialKj[n]

\* What a pod is charged by Filter, and what it asks for once Bind has converted it.
RawCpu(p, n) ==
    Scale(ComputePodResourceRequest(Containers[p], InitCpu[p], Overhead[p]), Kb[p], InitialKj[n])
ConvertedCpu(p, n) ==
    ComputePodResourceRequest(ConvertPodCpu(Containers[p], Kb[p], InitialKj[n]), InitCpu[p],
                              Overhead[p])

\* What of an object on a node was charged for: what fitsRequest counts for it, but for
\* what float64 rounded off when the pod was charged.
Weight(o, n) ==
    IF RequestedBy(o, InitialKj[n]) <= RawCpu(o.uid, n)
    THEN RequestedBy(o, InitialKj[n])
    ELSE RawCpu(o.uid, n)

\* The pods the cache has on a node, and what they are counted for.
OnNode(n) == {p \in Pods : podStates[p] # Nil /\ podStates[p].pod.node = n}
Counted(n) == [p \in OnNode(n) |-> Weight(podStates[p].pod, n)]

\* The cache never counts more on a node than the node has.
FitInv == \A n \in Nodes : SumFunction(Counted(n)) <= Allocatable[n]

\* During a cycle the snapshot counts every pod of the cache, for as much or for more.
SnapshotCovers ==
    cycle # Nil => \A n \in Nodes : snapshot[n] # Nil =>
        /\ IsFiniteSet(snapshot[n].pods)
        /\ \A p \in OnNode(n) : \E o \in snapshot[n].pods :
              o.uid = p /\ Weight(podStates[p].pod, n) <= Weight(o, n)

CInv == StoredInv /\ WorkInv /\ NodesInv /\ LabelInv /\ FitInv /\ SnapshotCovers

-----------------------------------------------------------------------------
(* Conversion.                                                             *)

\* Rounding down twice loses no less than rounding down once.
LEMMA DivAdd ==
    ASSUME NEW a \in Nat, NEW b \in Nat, NEW k \in Nat \ {0}
    PROVE  (a \div k) + (b \div k) <= (a + b) \div k
OBVIOUS

\* Converting two requests one by one never gives more than converting their sum, if
\* there are no rounding errors.
LEMMA QuotientAdd ==
    ASSUME NEW x \in Nat, NEW y \in Nat, NEW kb \in Nat, NEW kj \in Nat \ {0}
    PROVE  Quotient(x, kb, kj) + Quotient(y, kb, kj) <= Quotient(x + y, kb, kj)
<1> DEFINE a == x * kb
           b == y * kb
<1>1. a \in Nat /\ b \in Nat /\ (x + y) * kb = a + b
  OBVIOUS
<1> HIDE DEF a, b
<1>2. (a \div kj) + (b \div kj) <= (a + b) \div kj
  BY <1>1, DivAdd
<1> QED
  BY <1>1, <1>2 DEF Quotient, a, b

\* ConvertPodCpu rounds every container by itself: its total is at most the exact
\* conversion of the total.
LEMMA SumScaled ==
    ASSUME NEW cs \in Seq(Nat), NEW kb \in Nat, NEW kj \in Nat \ {0}
    PROVE  SumFunction(ConvertPodCpu(cs, kb, kj)) <= Quotient(SumFunction(cs), kb, kj)
<1> DEFINE D == DOMAIN cs
           g == ConvertPodCpu(cs, kb, kj)
           A == {T \in SUBSET D : SumFunction(On(g, T)) <= Quotient(SumFunction(On(cs, T)), kb, kj)}
<1>1. IsFiniteSet(D) /\ \A i \in D : cs[i] \in Nat
  BY FS_Interval
<1>2. DOMAIN g = D /\ \A i \in D : g[i] = Scale(cs[i], kb, kj)
  BY DEF ConvertPodCpu
<1>3. \A i \in D : g[i] \in Nat
  BY <1>1, <1>2, ScaleNat
<1> HIDE DEF D, g
<1>4. ASSUME NEW T \in SUBSET D, \A x \in T : T \ {x} \in A
      PROVE  T \in A
  <2>1. CASE T = {}
    <3>1. SumFunction(On(g, T)) = 0 /\ SumFunction(On(cs, T)) = 0
      BY <2>1, SumEmpty DEF On
    <3>2. Quotient(0, kb, kj) \in Nat
      BY ScaleQuotient
    <3> QED
      BY <3>1, <3>2
  <2>2. CASE T # {}
    <3>1. PICK y \in T : TRUE
      BY <2>2
    <3>2. IsFiniteSet(T) /\ (\A i \in T : cs[i] \in Int) /\ (\A i \in T : g[i] \in Int)
      BY <1>1, <1>3, FS_Subset
    <3>3. /\ SumFunction(On(g, T)) = SumFunction(On(g, T \ {y})) + g[y]
          /\ SumFunction(On(g, T \ {y})) \in Int
      BY <3>1, <3>2, SumSplit
    <3>4. SumFunction(On(cs, T)) = SumFunction(On(cs, T \ {y})) + cs[y]
      BY <3>1, <3>2, SumSplit
    <3>5. SumFunction(On(cs, T \ {y})) \in Nat
      <4>1. IsFiniteSet(T \ {y}) /\ \A i \in T \ {y} : cs[i] \in Nat
        BY <1>1, <3>2, FS_Subset
      <4> QED
        BY <4>1, SumNat
    <3>6. SumFunction(On(g, T \ {y})) <= Quotient(SumFunction(On(cs, T \ {y})), kb, kj)
      BY <1>4, <3>1
    <3>7. /\ cs[y] \in Nat /\ g[y] \in Nat /\ Quotient(cs[y], kb, kj) \in Nat
          /\ g[y] <= Quotient(cs[y], kb, kj)
      <4>1. cs[y] \in Nat /\ g[y] = Scale(cs[y], kb, kj) /\ g[y] \in Nat
        BY <1>1, <1>2, <1>3, <3>1
      <4> QED
        BY <4>1, ScaleQuotient
    <3> DEFINE a == SumFunction(On(cs, T \ {y}))
               b == SumFunction(On(g, T \ {y}))
    <3>8. Quotient(a, kb, kj) + Quotient(cs[y], kb, kj) <= Quotient(a + cs[y], kb, kj)
      BY <3>5, <3>7, QuotientAdd
    <3>9. Quotient(a, kb, kj) \in Nat /\ Quotient(a + cs[y], kb, kj) \in Nat
      <4>1. a + cs[y] \in Nat
        BY <3>5, <3>7
      <4> QED
        BY <3>5, <4>1, ScaleQuotient
    <3>10. SumFunction(On(g, T)) = b + g[y] /\ SumFunction(On(cs, T)) = a + cs[y] /\ b \in Int
      BY <3>3, <3>4
    <3>11. b <= Quotient(a, kb, kj)
      BY <3>6
    <3> HIDE DEF a, b
    <3>12. b + g[y] <= Quotient(a + cs[y], kb, kj)
      BY <3>7, <3>8, <3>9, <3>10, <3>11
    <3> QED
      BY <3>10, <3>12
  <2> QED
    BY <2>1, <2>2
<1>5. D \in A
  <2>1. \A T \in SUBSET D : (\A x \in T : T \ {x} \in A) => T \in A
    BY <1>4
  <2> HIDE DEF A
  <2>2. \A T \in SUBSET D : T \in A
    BY <1>1, <2>1, SubsetInduction
  <2> QED
    BY <2>2
<1>6. On(g, D) = g /\ On(cs, D) = cs
  <2>1. cs = [i \in D |-> cs[i]]
    BY DEF D
  <2>2. g = [i \in D |-> g[i]]
    BY DEF g, D, ConvertPodCpu
  <2> QED
    BY <2>1, <2>2 DEF On
<1> QED
  BY <1>5, <1>6 DEF g

\* Exact conversion is monotone, and adds to a request on a node that is no faster than
\* the reference node.
LEMMA QuotientGrows ==
    ASSUME NEW x \in Nat, NEW m \in Nat, x <= m, NEW kb \in Nat, NEW kj \in Nat \ {0}
    PROVE  Quotient(x, kb, kj) <= Quotient(m, kb, kj)
<1> DEFINE d == m - x
<1>1. d \in Nat /\ x + d = m
  OBVIOUS
<1> HIDE DEF d
<1>2. Quotient(x, kb, kj) + Quotient(d, kb, kj) <= Quotient(m, kb, kj)
  BY <1>1, QuotientAdd
<1>3. Quotient(x, kb, kj) \in Nat /\ Quotient(d, kb, kj) \in Nat /\ Quotient(m, kb, kj) \in Nat
  BY <1>1, ScaleQuotient
<1> QED
  BY <1>2, <1>3

LEMMA DivAtLeast ==
    ASSUME NEW x \in Nat, NEW y \in Nat, NEW k \in Nat \ {0}, x * k <= y
    PROVE  x <= y \div k
OBVIOUS

LEMMA QuotientSlow ==
    ASSUME NEW x \in Nat, NEW kb \in Nat, NEW kj \in Nat \ {0}, kb >= kj
    PROVE  x <= Quotient(x, kb, kj)
<1> DEFINE y == x * kb
<1>1. y \in Nat /\ x * kj <= y
  OBVIOUS
<1> HIDE DEF y
<1>2. x <= y \div kj
  BY <1>1, DivAtLeast
<1> QED
  BY <1>2 DEF Quotient, y

\* The pods whose total falls short on a node.
Short(p, n) ==
    <<ComputePodResourceRequest(Containers[p], InitCpu[p], Overhead[p]), Kb[p], InitialKj[n]>>
        \in FallsShort

\* What is left of the converted request if what was rounded off is left out.
KeptCpu(p, n) ==
    IF ConvertedCpu(p, n) <= RawCpu(p, n) THEN ConvertedCpu(p, n) ELSE RawCpu(p, n)

\* Conversion adds no more to what the pod was admitted with than what was rounded off.
LEMMA ConvertedAtMost ==
    ASSUME Plain, NEW p \in Pods, NEW n \in Nodes
    PROVE  /\ RawCpu(p, n) \in Nat /\ ConvertedCpu(p, n) \in Nat /\ KeptCpu(p, n) \in Nat
           /\ KeptCpu(p, n) <= RawCpu(p, n)
           /\ ConvertedCpu(p, n) <= KeptCpu(p, n) + 1
           /\ ~Short(p, n) => ConvertedCpu(p, n) = KeptCpu(p, n)
<1> DEFINE cs == Containers[p]
           kb == Kb[p]
           kj == InitialKj[n]
           ds == ConvertPodCpu(cs, kb, kj)
           x == SumFunction(cs)
           y == SumFunction(ds)
           i == InitCpu[p]
           v == Overhead[p]
           m == Max({x, i})
           t == m + v
           q == Quotient(t, kb, kj)
<1>1. cs \in Seq(Nat) /\ kb \in Nat /\ kj \in Nat \ {0} /\ i \in Nat /\ v \in Nat
  BY SchedulerAssumption
<1>2. x \in Nat
  BY <1>1, ContainersNat
<1>3. y \in Nat
  <2> HIDE DEF cs, kb, kj
  <2>1. ds \in Seq(Nat)
    BY <1>1, ConvertedSeq
  <2> QED
    BY <2>1, ContainersNat
<1>4. y <= Quotient(x, kb, kj)
  <2> HIDE DEF cs, kb, kj
  <2> QED
    BY <1>1, SumScaled
<1>5. kb >= kj \/ (v = 0 /\ i <= q)
  <2>1. kb >= kj \/ (v = 0 /\ i <= Quotient(Request(NewPod(p)), kb, kj))
    BY DEF Plain
  <2>2. Request(NewPod(p)) = t
    BY DEF Request, NewPod, ComputePodResourceRequest
  <2> QED
    BY <2>1, <2>2
<1>6. /\ RawCpu(p, n) = Scale(t, kb, kj) /\ ConvertedCpu(p, n) = Max({y, i}) + v
      /\ Short(p, n) <=> <<t, kb, kj>> \in FallsShort
  BY DEF RawCpu, ConvertedCpu, ComputePodResourceRequest, Short
<1> HIDE DEF cs, kb, kj, ds, x, y, i, v
<1>7. m \in Nat /\ m >= x /\ m >= i /\ Max({y, i}) \in {y, i}
  <2>0. x \in Int /\ y \in Int /\ i \in Int
    BY <1>1, <1>2, <1>3
  <2>1. Max({x, i}) \in {x, i} /\ Max({x, i}) >= x /\ Max({x, i}) >= i
    BY <2>0, MaxOfTwo
  <2>2. Max({y, i}) \in {y, i}
    BY <2>0, MaxOfTwo
  <2> QED
    BY <1>1, <1>2, <2>1, <2>2
<1> HIDE DEF m
<1>8. t \in Nat
  BY <1>1, <1>7
<1>9. /\ q \in Nat /\ Scale(t, kb, kj) \in Nat /\ q <= Scale(t, kb, kj) + 1
      /\ Scale(t, kb, kj) <= q
      /\ <<t, kb, kj>> \notin FallsShort => Scale(t, kb, kj) = q
  BY <1>1, <1>8, ScaleQuotient
<1>10. y <= Quotient(m, kb, kj) /\ Quotient(m, kb, kj) \in Nat
  <2>1. Quotient(x, kb, kj) <= Quotient(m, kb, kj)
    BY <1>1, <1>2, <1>7, QuotientGrows
  <2>2. Quotient(x, kb, kj) \in Nat /\ Quotient(m, kb, kj) \in Nat
    BY <1>1, <1>2, <1>7, ScaleQuotient
  <2> QED
    BY <1>3, <1>4, <2>1, <2>2
<1>11. Max({y, i}) + v <= q
  <2>1. CASE kb >= kj
    <3>1. m <= Quotient(m, kb, kj) /\ v <= Quotient(v, kb, kj)
      BY <1>1, <1>7, <2>1, QuotientSlow
    <3>2. Quotient(m, kb, kj) + Quotient(v, kb, kj) <= q
      BY <1>1, <1>7, QuotientAdd
    <3>3. Quotient(v, kb, kj) \in Nat
      BY <1>1, ScaleQuotient
    <3> HIDE DEF q
    <3> QED
      BY <1>1, <1>3, <1>7, <1>9, <1>10, <3>1, <3>2, <3>3
  <2>2. CASE v = 0 /\ i <= q
    <3>1. t = m
      BY <1>7, <2>2
    <3> HIDE DEF t
    <3>2. y <= q
      BY <1>10, <3>1
    <3> HIDE DEF q
    <3> QED
      BY <1>1, <1>3, <1>7, <1>9, <2>2, <3>2
  <2> QED
    BY <1>5, <2>1, <2>2
<1>12. Max({y, i}) + v \in Nat
  BY <1>1, <1>3, <1>7
<1> DEFINE c == Max({y, i}) + v
           r == Scale(t, kb, kj)
<1>13. /\ c \in Nat /\ r \in Nat /\ q \in Nat /\ c <= q /\ q <= r + 1
       /\ ~Short(p, n) => r = q
  BY <1>6, <1>9, <1>11, <1>12
<1>14. ConvertedCpu(p, n) = c /\ RawCpu(p, n) = r
  BY <1>6
<1> HIDE DEF c, r, q, t
<1> QED
  BY <1>13, <1>14 DEF KeptCpu

\* What was charged for the objects of a pod.
LEMMA WeightOf ==
    ASSUME Plain, NEW p \in Pods, NEW n \in Nodes, NEW o, o.uid = p
    PROVE  /\ Raw(p, o) => Weight(o, n) = RawCpu(p, n)
           /\ Converted(p, o, n) => /\ Weight(o, n) = KeptCpu(p, n)
                                    /\ Request(o) = ConvertedCpu(p, n)
<1>1. Raw(p, o) => RequestedBy(o, InitialKj[n]) = RawCpu(p, n)
  BY DEF Raw, RequestedBy, Request, RawCpu
<1>2. Converted(p, o, n) => /\ RequestedBy(o, InitialKj[n]) = ConvertedCpu(p, n)
                            /\ Request(o) = ConvertedCpu(p, n)
  BY DEF Converted, RequestedBy, Request, ConvertedCpu
<1> QED
  BY <1>1, <1>2, Zenon DEF Weight, KeptCpu

-----------------------------------------------------------------------------
(* The stores.                                                             *)

\* The steps that are left under the assumptions.
LEMMA Steps ==
    ASSUME Plain, Timely, [Next]_vars
    PROVE  \/ StartScheduler
           \/ \E p \in Pods : \E n \in Nodes : AssumeOn(p, n)
           \/ \E p \in Pods : \/ PopPod(p) \/ ScheduleFails(p) \/ BindConvert(p) \/ BindGet(p)
                              \/ BindPut(p) \/ BindDone(p) \/ BindFailed(p) \/ BindError(p)
                              \/ Deliver(p) \/ Relist(p) \/ ExpireAssumed(p)
                              \/ MarkDeleted(p) \/ RemoveDeleted(p) \/ RunPod(p)
           \/ \E n \in Nodes : LeaveCluster(n) \/ JoinCluster(n)
           \/ UNCHANGED vars
<1>1. \A p \in Pods : ~BindPutApplied(p) /\ ~Annotate(p) /\ (Panic(p) => StartScheduler)
  BY DEF Timely, BindPutApplied, Plain, Annotate, Panic
<1>2. \A n \in Nodes, kj \in KjValues : ~Relabel(n, kj)
  BY DEF Plain, Relabel
<1>3. Fatal \/ Crash => StartScheduler
  BY DEF Fatal, Crash
<1> QED
  BY <1>1, <1>2, <1>3, Zenon DEF Next, SchedulerStep, OthersStep

\* An object that has the requests of a stored one may be stored.
LEMMA SameRequests ==
    ASSUME NEW p \in Pods, NEW o \in StoredOf(p), o # Nil, NEW c \in ObjectsOf(p), c # Nil,
           c.node = o.node, c.containers = o.containers, c.init = o.init,
           c.annotated = o.annotated
    PROVE  c \in StoredOf(p)
BY DEF StoredOf, Raw, Converted

\* So may one that is marked, started or patched.
LEMMA ChangedStored ==
    ASSUME NEW p \in Pods, NEW o \in StoredOf(p), o # Nil
    PROVE  /\ [o EXCEPT !.deleting = TRUE] \in StoredOf(p)
           /\ [o EXCEPT !.running = TRUE] \in StoredOf(p)
           /\ PatchScheduledFalse(o) \in StoredOf(p)
<1>1. o \in ObjectsOf(p) /\ o \in PodObject
  BY DEF StoredOf, ObjectsOf
<1>2. [o EXCEPT !.deleting = TRUE] \in StoredOf(p)
  <2> DEFINE c == [o EXCEPT !.deleting = TRUE]
  <2>1. /\ c.node = o.node /\ c.containers = o.containers /\ c.init = o.init
        /\ c.annotated = o.annotated
    BY <1>1 DEF PodObject
  <2>2. c \in ObjectsOf(p) /\ c # Nil
    BY <1>1, ChangedObject
  <2> HIDE DEF c
  <2>3. c \in StoredOf(p)
    BY <2>1, <2>2, SameRequests
  <2> QED
    BY <2>3 DEF c
<1>3. [o EXCEPT !.running = TRUE] \in StoredOf(p)
  <2> DEFINE c == [o EXCEPT !.running = TRUE]
  <2>1. /\ c.node = o.node /\ c.containers = o.containers /\ c.init = o.init
        /\ c.annotated = o.annotated
    BY <1>1 DEF PodObject
  <2>2. c \in ObjectsOf(p) /\ c # Nil
    BY <1>1, ChangedObject
  <2> HIDE DEF c
  <2>3. c \in StoredOf(p)
    BY <2>1, <2>2, SameRequests
  <2> QED
    BY <2>3 DEF c
<1>4. PatchScheduledFalse(o) \in StoredOf(p)
  <2> DEFINE c == PatchScheduledFalse(o)
  <2>1. /\ c.node = o.node /\ c.containers = o.containers /\ c.init = o.init
        /\ c.annotated = o.annotated
    BY <1>1 DEF PodObject, PatchScheduledFalse
  <2>2. c \in ObjectsOf(p) /\ c # Nil
    BY <1>1, ChangedObject
  <2> HIDE DEF c
  <2>3. c \in StoredOf(p)
    BY <2>1, <2>2, SameRequests
  <2> QED
    BY <2>3 DEF c
<1> QED
  BY <1>2, <1>3, <1>4

\* What Bind writes is converted and bound.
LEMMA BoundStored ==
    ASSUME IInv, WorkInv, NEW p \in Pods, At(p, "put")
    PROVE  BoundPod(binding[p]) \in StoredOf(p)
<1> DEFINE b == binding[p]
           o == b.read
<1>1. b # Nil /\ b \in BindingOf(p) /\ b.pc = "put" /\ o # Nil
  BY DEF At, IInv, BindingInv
<1>2. /\ o \in StoredOf(p)
      /\ b.containers = ConvertPodCpu(Containers[p], Kb[p], InitialKj[b.pod.node])
  BY <1>1 DEF WorkInv
<1>3. b.pod.node # Nil
  BY <1>1 DEF BindingOf, AssignedObject
<1> HIDE DEF b
<1>4. BoundPod(b) \in ObjectsOf(p) /\ BoundPod(b) # Nil /\ BoundPod(b).node = b.pod.node
  BY <1>1, BoundObject
<1>5. o \in PodObject /\ o.init = InitCpu[p]
  BY <1>1, <1>2 DEF StoredOf, ObjectsOf, Raw, Converted
<1>6. BoundPod(b).containers = b.containers /\ BoundPod(b).init = o.init /\ BoundPod(b).annotated
  BY <1>5 DEF BoundPod, PodObject
<1>7. BoundPod(b) \in StoredOf(p)
  BY <1>2, <1>3, <1>4, <1>5, <1>6 DEF StoredOf, Converted
<1> QED
  BY <1>7 DEF b

\* A write to etcd and its event.
LEMMA WriteStored ==
    ASSUME StoreInv, StoredInv, NEW p \in Pods, NEW o \in StoredOf(p), WriteEtcd(p, o)
    PROVE  \A q \in Pods : etcd'[q] \in StoredOf(q) /\ watch'[q] \in Seq(StoredOf(q))
<1>1. Append(watch[p], o) \in Seq(StoredOf(p))
  BY DEF StoredInv
<1> QED
  BY <1>1 DEF StoreInv, StoredInv, WriteEtcd

\* The record of a failure.
LEMMA RecordStored ==
    ASSUME StoreInv, StoredInv, NEW p \in Pods, RecordSchedulingFailure(p), UNCHANGED informer
    PROVE  StoredInv'
<1>1. \A q \in Pods : queue'[q] \in StoredOf(q)
  BY DEF RecordSchedulingFailure, StoreInv, StoredInv
<1>2. \A q \in Pods : etcd'[q] \in StoredOf(q) /\ watch'[q] \in Seq(StoredOf(q))
  <2>1. CASE etcd[p] = Nil
    BY <2>1 DEF RecordSchedulingFailure, apiVars, StoredInv
  <2>2. CASE etcd[p] # Nil
    <3>1. PatchScheduledFalse(etcd[p]) \in StoredOf(p)
      BY <2>2, ChangedStored DEF StoredInv
    <3> QED
      BY <2>2, <3>1, WriteStored DEF RecordSchedulingFailure
  <2> QED
    BY <2>1, <2>2
<1> QED
  BY <1>1, <1>2 DEF StoredInv

\* An event is handled, or skipped by a relist.
LEMMA DeliverStored ==
    ASSUME StoreInv, StoredInv, NEW p \in Pods, Deliver(p) \/ Relist(p)
    PROVE  StoredInv'
<1>0. watch[p] \in Seq(StoredOf(p)) /\ watch[p] # <<>>
  BY DEF StoredInv, Deliver, Relist
<1>1. Head(watch[p]) \in StoredOf(p) /\ Tail(watch[p]) \in Seq(StoredOf(p))
  BY <1>0
<1>2. \A q \in Pods : watch'[q] \in Seq(StoredOf(q))
  BY <1>1 DEF Deliver, Relist, StoredInv, StoreInv
<1>3. \A q \in Pods : informer'[q] \in StoredOf(q) /\ etcd'[q] \in StoredOf(q)
  BY <1>1 DEF Deliver, Relist, StoredInv, StoreInv
<1>4. Nil \in StoredOf(p)
  BY DEF StoredOf, ObjectsOf
<1>5. \A q \in Pods : queue'[q] \in StoredOf(q)
  BY <1>1, <1>4 DEF Deliver, Relist, QueueHandler, StoredInv, StoreInv
<1> QED
  BY <1>2, <1>3, <1>5 DEF StoredInv

\* In every store a pod is converted exactly when it is bound.
LEMMA StoredStep ==
    ASSUME Plain, Timely, IInv, StoredInv, WorkInv, [Next]_vars
    PROVE  StoredInv'
<1>1. StoreInv /\ \A p \in Pods : Nil \in StoredOf(p)
  BY DEF IInv, StoredOf, ObjectsOf
<1>2. ASSUME NEW p \in Pods, NEW o \in StoredOf(p), WriteEtcd(p, o), UNCHANGED <<informer, queue>>
      PROVE  StoredInv'
  BY <1>1, <1>2, WriteStored DEF StoredInv
<1>3. CASE StartScheduler
  <2>1. /\ informer' = etcd /\ etcd' = etcd /\ watch' = [p \in Pods |-> <<>>]
        /\ queue' = [p \in Pods |-> IF PendingPod(etcd[p]) THEN etcd[p] ELSE Nil]
    BY <1>3 DEF StartScheduler, Timely
  <2>2. \A p \in Pods : watch'[p] = <<>> /\ queue'[p] \in {etcd[p], Nil}
    BY <2>1
  <2>3. \A p \in Pods : <<>> \in Seq(StoredOf(p))
    OBVIOUS
  <2> QED
    BY <1>1, <2>1, <2>2, <2>3 DEF StoredInv
<1>4. CASE \E p \in Pods : PopPod(p)
  BY <1>1, <1>4 DEF PopPod, apiVars, StoredInv, StoreInv
<1>5. CASE \E p \in Pods : ScheduleFails(p) \/ BindFailed(p)
  BY <1>1, <1>5, RecordStored DEF ScheduleFails, BindFailed
<1>6. CASE \E p \in Pods : BindPut(p)
  BY <1>2, <1>6, BoundStored DEF BindPut
<1>7. CASE \E p \in Pods : Deliver(p) \/ Relist(p)
  BY <1>1, <1>7, DeliverStored
<1>8. CASE \E p \in Pods : MarkDeleted(p) \/ RemoveDeleted(p) \/ RunPod(p)
  <2>1. PICK p \in Pods : MarkDeleted(p) \/ RemoveDeleted(p) \/ RunPod(p)
    BY <1>8
  <2>2. etcd[p] \in StoredOf(p) /\ etcd[p] # Nil
    BY <2>1 DEF StoredInv, MarkDeleted, RemoveDeleted, RunPod, AssignedPod
  <2>3. \E o \in StoredOf(p) : WriteEtcd(p, o)
    BY <1>1, <2>1, <2>2, ChangedStored DEF MarkDeleted, RemoveDeleted, RunPod
  <2>4. UNCHANGED <<informer, queue>>
    BY <2>1 DEF MarkDeleted, RemoveDeleted, RunPod
  <2> QED
    BY <1>2, <2>3, <2>4
<1>9. CASE UNCHANGED <<etcd, watch, informer, queue>>
  BY <1>9 DEF StoredInv
<1>10. CASE \/ \E p \in Pods : \E n \in Nodes : AssumeOn(p, n)
            \/ \E p \in Pods : BindConvert(p) \/ BindGet(p) \/ BindDone(p) \/ BindError(p)
                               \/ ExpireAssumed(p)
            \/ \E n \in Nodes : LeaveCluster(n) \/ JoinCluster(n)
            \/ UNCHANGED vars
  BY <1>9, <1>10 DEF AssumeOn, BindConvert, BindGet, BindDone, BindError, ExpireAssumed,
       LeaveCluster, JoinCluster, vars, apiVars
<1> QED
  BY <1>3, <1>4, <1>5, <1>6, <1>7, <1>8, <1>10, Steps, Zenon

-----------------------------------------------------------------------------
(* What the scheduler works on.                                            *)

\* No operation but AssumePod makes a pod assumed or touches the object of one.
LEMMA AssumedKept ==
    ASSUME CacheInv,
           \/ \E o \in AssignedObject :
                 Cache!ForgetPod(o) \/ Cache!AddPod(o) \/ Cache!RemovePod(o)
           \/ \E old, new \in AssignedObject :
                 old.uid = new.uid /\ old.node = new.node /\ Cache!UpdatePod(old, new)
           \/ \E uid \in Pods : Cache!FinishBinding(uid) \/ Cache!ExpirePod(uid)
    PROVE  assumedPods' \subseteq assumedPods
           /\ \A q \in assumedPods' : podStates'[q].pod = podStates[q].pod
<1>1. podStates \in [Pods -> Cache!PodState \cup {Nil}] /\ assumedPods \subseteq Pods
  BY CacheFacts
<1>2. \A q \in assumedPods : podStates[q] # Nil
  BY AssumedIsCached
<1>3. ASSUME NEW o \in AssignedObject, Cache!ForgetPod(o) \/ Cache!AddPod(o) \/ Cache!RemovePod(o)
      PROVE  assumedPods' \subseteq assumedPods
             /\ \A q \in assumedPods' : podStates'[q] = podStates[q]
  <2>1. o.uid \in Pods
    BY CacheObjects
  <2>2. CASE Cache!ForgetPod(o)
    BY <1>1, <2>1, <2>2 DEF Cache!ForgetPod, Cache!vars
  <2>3. CASE Cache!AddPod(o)
    BY <1>1, <1>2, <2>1, <2>3 DEF Cache!AddPod, Cache!ConfirmPod, Cache!vars
  <2>4. CASE Cache!RemovePod(o)
    BY <1>1, <2>1, <2>4 DEF Cache!RemovePod, Cache!Deletable, Cache!IsAddedPod,
         Cache!CorruptedBy, Cache!vars
  <2> QED
    BY <1>3, <2>2, <2>3, <2>4
<1>4. ASSUME NEW old \in AssignedObject, NEW new \in AssignedObject, Cache!UpdatePod(old, new)
      PROVE  assumedPods' \subseteq assumedPods
             /\ \A q \in assumedPods' : podStates'[q] = podStates[q]
  <2>1. old.uid \in Pods
    BY CacheObjects
  <2> QED
    BY <1>1, <1>4, <2>1 DEF Cache!UpdatePod, Cache!Updatable, Cache!IsAddedPod,
         Cache!CorruptedBy, Cache!vars
<1>5. ASSUME NEW uid \in Pods, Cache!FinishBinding(uid)
      PROVE  assumedPods' \subseteq assumedPods
             /\ \A q \in assumedPods' : podStates'[q].pod = podStates[q].pod
  <2>1. CASE UNCHANGED Cache!vars
    BY <2>1 DEF Cache!vars
  <2>2. CASE ~(UNCHANGED Cache!vars)
    <3>1. /\ podStates[uid] # Nil /\ assumedPods' = assumedPods
          /\ podStates' = [podStates EXCEPT ![uid] =
                [podStates[uid] EXCEPT !.deadline = TRUE, !.bindingFinished = TRUE]]
      BY <1>5, <2>2 DEF Cache!FinishBinding
    <3>2. [podStates[uid] EXCEPT !.deadline = TRUE, !.bindingFinished = TRUE].pod
             = podStates[uid].pod
      BY <1>1, <3>1 DEF Cache!PodState
    <3> QED
      BY <1>1, <3>1, <3>2
  <2> QED
    BY <2>1, <2>2
<1>6. ASSUME NEW uid \in Pods, Cache!ExpirePod(uid)
      PROVE  assumedPods' \subseteq assumedPods
             /\ \A q \in assumedPods' : podStates'[q] = podStates[q]
  BY <1>1, <1>6 DEF Cache!ExpirePod
<1> QED
  BY <1>3, <1>4, <1>5, <1>6

\* What a delivery calls.
LEMMA DeliverCalls ==
    ASSUME StoreInv, AddedIsSeen, BInv, NEW p \in Pods, Deliver(p)
    PROVE  \/ \E o \in AssignedObject : o = Head(watch[p]) /\ Cache!AddPod(o)
           \/ \E o \in AssignedObject : Cache!RemovePod(o)
           \/ \E old, new \in AssignedObject :
                 /\ old.uid = new.uid /\ old.node = new.node /\ new = Head(watch[p])
                 /\ Cache!UpdatePod(old, new)
           \/ UNCHANGED cacheVars
<1> DEFINE old == informer[p]
           new == Head(watch[p])
<1>1. CacheHandler(old, new) /\ watch[p] # <<>>
  BY DEF Deliver
<1>2. PodInv(p)
  BY DEF BInv
<1>3. old = Event(p, 0) /\ new = Event(p, 1) /\ LastEvent(p) \in Nat /\ LastEvent(p) >= 1
  <2>1. watch[p] \in Seq(ObjectsOf(p))
    BY DEF StoreInv
  <2>2. new = watch[p][1] /\ Len(watch[p]) \in Nat /\ Len(watch[p]) >= 1
    BY <1>1, <2>1
  <2> QED
    BY <2>2 DEF Event, LastEvent
<1>4. old \in ObjectsOf(p) /\ new \in ObjectsOf(p)
  <2>1. 0 \in 0..LastEvent(p) /\ 1 \in 0..LastEvent(p)
    BY <1>3
  <2> QED
    BY <1>3, <2>1, EventTypes
<1>5. AssignedPod(old) /\ AssignedPod(new) => old.node = new.node
  <2>1. 0 \in 0..LastEvent(p) /\ 1 \in 0..LastEvent(p)
    BY <1>3
  <2> QED
    BY <1>2, <1>3, <2>1 DEF PodInv, EventsCached
<1> HIDE DEF old, new
<1>6. /\ AssignedPod(old) => old \in AssignedObject /\ old.uid = p
      /\ AssignedPod(new) => new \in AssignedObject /\ new.uid = p
  BY <1>4 DEF AssignedPod, AssignedObject, ObjectsOf
<1> QED
  BY <1>1, <1>5, <1>6, Zenon DEF CacheHandler, new

\* What is assumed or being bound has the requests its owner wrote, but for what the
\* goroutine converted.
LEMMA WorkStep ==
    ASSUME Plain, Timely, IInv, BInv, StoredInv, WorkInv, LabelInv, [Next]_vars
    PROVE  WorkInv'
<1>0. StoreInv /\ CacheInv /\ BindingInv /\ SnapshotInv
  BY DEF IInv
<1> DEFINE CycleRaw == cycle # Nil => Raw(cycle.uid, cycle)
           AssumedRaw == \A p \in assumedPods : Raw(p, podStates[p].pod)
           Good(p, b) == b # Nil => /\ Raw(p, b.pod)
                                    /\ b.read \in StoredOf(p)
                                    /\ b.pc \in {"get", "put"} =>
                                          b.containers = ConvertPodCpu(Containers[p], Kb[p],
                                                                       InitialKj[b.pod.node])
<1>1. WorkInv <=> CycleRaw /\ AssumedRaw /\ \A p \in Pods : Good(p, binding[p])
  BY DEF WorkInv
<1>2. WorkInv' <=> CycleRaw' /\ AssumedRaw' /\ \A p \in Pods : Good(p, binding'[p])
  BY DEF WorkInv, StoredOf, ObjectsOf, Raw, Converted
<1>3. ASSUME NEW p \in Pods, NEW b, Good(p, b), binding' = [binding EXCEPT ![p] = b]
      PROVE  \A q \in Pods : Good(q, binding'[q])
  BY <1>0, <1>1, <1>3 DEF BindingInv
<1>4. ASSUME UNCHANGED cacheVars
      PROVE  AssumedRaw'
  BY <1>1, <1>4 DEF cacheVars, Raw
<1>5. ASSUME assumedPods' \subseteq assumedPods,
             \A q \in assumedPods' : podStates'[q].pod = podStates[q].pod
      PROVE  AssumedRaw'
  BY <1>1, <1>5 DEF Raw
<1> HIDE DEF Good
<1>6. CASE StartScheduler
  <2>1. cycle' = Nil /\ assumedPods' = {} /\ \A p \in Pods : binding'[p] = Nil
    BY <1>6 DEF StartScheduler
  <2> QED
    BY <1>2, <2>1 DEF Good
<1>7. ASSUME NEW p \in Pods, NEW n \in Nodes, AssumeOn(p, n)
      PROVE  WorkInv'
  <2> DEFINE o == [cycle EXCEPT !.node = n]
             b == [pc |-> "convert", pod |-> o, containers |-> <<>>, read |-> Nil]
  <2>1. cycle # Nil /\ cycle.uid = p /\ podStates[p] = Nil /\ cycle \in PodObject /\ cycle' = Nil
    BY <1>0, <1>7 DEF AssumeOn, SnapshotInv, Objects
  <2>2. o.uid = p /\ Raw(p, o)
    BY <1>1, <2>1 DEF PodObject, Raw
  <2>3. binding' = [binding EXCEPT ![p] = b]
    BY <1>7 DEF AssumeOn
  <2>4. podStates' = [podStates EXCEPT ![p] = Cache!NewPodState(o)]
        /\ assumedPods' = assumedPods \cup {p}
    BY <1>7, <2>1, <2>2 DEF AssumeOn, Cache!AssumePod
  <2> HIDE DEF o
  <2>5. Good(p, b)
    BY <2>2 DEF Good, StoredOf, ObjectsOf
  <2>6. Cache!NewPodState(o).pod = o
    BY DEF Cache!NewPodState
  <2>7. podStates'[p].pod = o /\ \A q \in Pods : q # p => podStates'[q] = podStates[q]
    BY <1>0, <2>4, <2>6, CacheFacts
  <2>8. AssumedRaw'
    <3>1. assumedPods \subseteq Pods
      BY <1>0, CacheFacts
    <3>2. ASSUME NEW q \in assumedPods'
          PROVE  Raw(q, podStates'[q].pod)
      BY <1>1, <2>2, <2>4, <2>7, <3>1, <3>2
    <3> QED
      BY <3>2 DEF Raw
  <2> HIDE DEF b
  <2> QED
    BY <1>2, <1>3, <2>1, <2>3, <2>5, <2>8
<1>8. ASSUME NEW p \in Pods, PopPod(p)
      PROVE  WorkInv'
  <2>1. UNCHANGED <<cacheVars, binding>> /\ queue[p] # Nil
    BY <1>8 DEF PopPod
  <2>2. CycleRaw'
    <3>1. CASE cycle' = cycle
      BY <1>1, <3>1 DEF Raw
    <3>2. CASE cycle' = queue[p] /\ p \notin assumedPods
      <4>1. queue[p].node = Nil
        BY <2>1, <3>2, QueuedIsFree DEF PendingPod
      <4>2. queue[p].uid = p
        BY <1>0, <2>1 DEF StoreInv, ObjectsOf
      <4>3. Raw(p, queue[p])
        BY <2>1, <4>1 DEF StoredInv, StoredOf
      <4> QED
        BY <3>2, <4>2, <4>3 DEF Raw
    <3> QED
      BY <1>8, <3>1, <3>2 DEF PopPod, Cache!IsAssumedPod
  <2> QED
    BY <1>1, <1>2, <1>4, <2>1, <2>2
<1>9. ASSUME NEW p \in Pods, BindConvert(p) \/ BindGet(p) \/ BindPut(p) \/ BindError(p)
      PROVE  WorkInv'
  <2> DEFINE b == binding[p]
  <2>1. b # Nil /\ b \in BindingOf(p) /\ Good(p, b) /\ UNCHANGED <<cacheVars, cycle>>
    BY <1>0, <1>1, <1>9 DEF BindConvert, BindGet, BindPut, BindError, At, BindingInv
  <2>2. ASSUME NEW c, binding' = [binding EXCEPT ![p] = c], Good(p, c)
        PROVE  WorkInv'
    <3>1. CycleRaw'
      BY <1>1, <2>1 DEF Raw
    <3> QED
      BY <1>2, <1>3, <1>4, <2>1, <2>2, <3>1
  <2>3. CASE \E pc \in {"done", "failed"} : binding' = [binding EXCEPT ![p].pc = pc]
    <3>1. PICK pc \in {"done", "failed"} : binding' = [binding EXCEPT ![p] = [b EXCEPT !.pc = pc]]
      BY <2>3
    <3> DEFINE c == [b EXCEPT !.pc = pc]
    <3> HIDE DEF b
    <3>2. c.pc = pc /\ c.pod = b.pod /\ c.read = b.read
      BY <2>1 DEF BindingOf
    <3>3. binding' = [binding EXCEPT ![p] = c]
      BY <3>1
    <3> HIDE DEF c
    <3>4. Good(p, c)
      BY <2>1, <3>1, <3>2 DEF Good
    <3> QED
      BY <2>2, <3>3, <3>4
  <2>4. CASE BindGet(p)
    <3> DEFINE r == etcd[p]
               c == [b EXCEPT !.pc = "put", !.read = r]
    <3>1. binding' = [binding EXCEPT ![p] = c]
      BY <2>4 DEF BindGet
    <3>2. b.pc = "get" /\ r \in StoredOf(p)
      BY <2>4 DEF BindGet, At, StoredInv
    <3> HIDE DEF b, r
    <3>3. c.pc = "put" /\ c.pod = b.pod /\ c.read = r /\ c.containers = b.containers
      BY <2>1 DEF BindingOf
    <3> HIDE DEF c
    <3>4. Good(p, c)
      BY <2>1, <3>2, <3>3 DEF Good
    <3> QED
      BY <2>2, <3>1, <3>4
  <2>5. CASE BindConvert(p) /\ snapshot[b.pod.node] # Nil
    <3> DEFINE n == b.pod.node
               k == ConvertPodCpu(b.pod.containers, Kb[p], snapshot[n].node)
               c == [b EXCEPT !.pc = "get", !.containers = k]
    <3>1. binding' = [binding EXCEPT ![p] = c]
      BY <2>5 DEF BindConvert
    <3>2. n \in Nodes
      BY <2>1, CacheObjects DEF BindingOf
    <3>3. snapshot[n].node = InitialKj[n]
      BY <2>5, <3>2 DEF LabelInv
    <3>4. b.pod.containers = Containers[p]
      BY <2>1 DEF Good, Raw
    <3>5. k = ConvertPodCpu(Containers[p], Kb[p], InitialKj[n])
      BY <3>3, <3>4
    <3> HIDE DEF b, k
    <3>6. c.pc = "get" /\ c.pod = b.pod /\ c.read = b.read /\ c.containers = k
      BY <2>1 DEF BindingOf
    <3> HIDE DEF c
    <3>7. Good(p, c)
      BY <2>1, <3>5, <3>6 DEF Good
    <3> QED
      BY <2>2, <3>1, <3>7
  <2> QED
    BY <1>9, <2>3, <2>4, <2>5 DEF BindConvert, BindPut, BindError
<1>10. ASSUME NEW p \in Pods, BindDone(p) \/ BindFailed(p) \/ Deliver(p) \/ ExpireAssumed(p)
       PROVE  WorkInv'
  <2>1. cycle' = cycle /\ (binding' = binding \/ binding' = [binding EXCEPT ![p] = Nil])
    BY <1>10 DEF BindDone, BindFailed, Deliver, ExpireAssumed, schedVars
  <2>2. AssumedRaw'
    <3>1. CASE UNCHANGED cacheVars
      BY <1>4, <3>1
    <3>2. CASE BindDone(p) \/ ExpireAssumed(p)
      BY <1>0, <1>5, <3>2, AssumedKept DEF BindDone, ExpireAssumed
    <3>3. CASE BindFailed(p)
      <4>1. binding[p].pod \in AssignedObject
        BY <1>0, <3>3 DEF BindFailed, At, BindingInv, BindingOf
      <4> QED
        BY <1>0, <1>5, <3>3, <4>1, AssumedKept DEF BindFailed
    <3>4. CASE Deliver(p)
      <4>1. AddedIsSeen
        BY DEF IInv
      <4> QED
        BY <1>0, <1>5, <3>1, <3>4, <4>1, DeliverCalls, AssumedKept
    <3> QED
      BY <1>10, <3>2, <3>3, <3>4
  <2>3. Good(p, Nil)
    BY DEF Good
  <2>4. CycleRaw'
    BY <1>1, <2>1 DEF Raw
  <2> QED
    BY <1>1, <1>2, <1>3, <2>1, <2>2, <2>3, <2>4
<1>11. CASE UNCHANGED <<podStates, assumedPods, binding>> /\ (cycle' = cycle \/ cycle' = Nil)
  <2>1. AssumedRaw' /\ CycleRaw'
    BY <1>1, <1>11 DEF Raw
  <2> QED
    BY <1>1, <1>2, <1>11, <2>1
<1>12. CASE \/ \E p \in Pods : ScheduleFails(p) \/ Relist(p) \/ MarkDeleted(p)
                               \/ RemoveDeleted(p) \/ RunPod(p)
            \/ \E n \in Nodes : LeaveCluster(n) \/ JoinCluster(n)
            \/ UNCHANGED vars
  BY <1>11, <1>12 DEF ScheduleFails, Relist, MarkDeleted, RemoveDeleted, RunPod, LeaveCluster,
       JoinCluster, Cache!RemoveNode, Cache!AddNode, Cache!vars, vars, cacheVars, schedVars
<1> QED
  BY <1>6, <1>7, <1>8, <1>9, <1>10, <1>12, Steps, Zenon

-----------------------------------------------------------------------------
(* What the nodes list.                                                    *)

\* The NodeInfos ms are made from the NodeInfos ns and the objects in S.
From(ms, ns, S) ==
    \A n \in Nodes :
        /\ Cache!InfoOf(ms, n).node = Cache!InfoOf(ns, n).node
        /\ Cache!InfoOf(ms, n).pods \subseteq Cache!InfoOf(ns, n).pods \cup S

NodeInfos == [Nodes -> Cache!NodeInfo \cup {Nil}]

\* What addPod and removePod make of them.
LEMMA NodesFrom ==
    ASSUME NEW ns \in NodeInfos, NEW o \in AssignedObject
    PROVE  /\ Cache!addPod(ns, o) \in NodeInfos /\ From(Cache!addPod(ns, o), ns, {o})
           /\ Cache!removePod(ns, o) \in NodeInfos /\ From(Cache!removePod(ns, o), ns, {})
<1> DEFINE m == o.node
           ni == Cache!InfoOf(ns, m)
           added == Cache!InfoAddPod(ni, o)
           removed == Cache!InfoRemovePod(ns[m], o)
           r == Request(o)
<1>1. m \in Nodes /\ r \in Int
  BY CacheObjects
<1>2. ni \in Cache!NodeInfo
  BY <1>1 DEF NodeInfos, Cache!InfoOf, Cache!NewNodeInfo, Cache!NodeInfo
<1>3. added \in Cache!NodeInfo /\ added.node = ni.node /\ added.pods = ni.pods \cup {o}
  <2>1. added = [ni EXCEPT !.pods = @ \cup {o}, !.requested = @ + r]
    BY DEF Cache!InfoAddPod
  <2> HIDE DEF ni, added, r
  <2>2. /\ ni.pods \cup {o} \in SUBSET AssignedObject /\ ni.requested + r \in Int
        /\ ni.node \in KjValues \cup {Nil}
    BY <1>1, <1>2 DEF Cache!NodeInfo
  <2>3. added = [node |-> ni.node, pods |-> ni.pods \cup {o}, requested |-> ni.requested + r]
    BY <1>2, <2>1 DEF Cache!NodeInfo
  <2> QED
    BY <2>2, <2>3 DEF Cache!NodeInfo
<1>4. ns[m] # Nil => /\ removed \in Cache!NodeInfo /\ removed.node = ns[m].node
                     /\ removed.pods \subseteq ns[m].pods
  <2>1. removed = [ns[m] EXCEPT !.pods = {x \in @ : x.uid # o.uid}, !.requested = @ - r]
    BY DEF Cache!InfoRemovePod
  <2>2. ns[m] # Nil => ns[m] \in Cache!NodeInfo
    BY <1>1 DEF NodeInfos
  <2> DEFINE ps == {x \in ns[m].pods : x.uid # o.uid}
             k == ns[m]
  <2>3. removed = [k EXCEPT !.pods = ps, !.requested = @ - r]
    BY <2>1
  <2>4. k # Nil => k \in Cache!NodeInfo
    BY <2>2
  <2>5. ps \subseteq k.pods
    OBVIOUS
  <2> HIDE DEF removed, r, m, ps, k
  <2>6. ASSUME k # Nil
        PROVE  removed = [node |-> k.node, pods |-> ps, requested |-> k.requested - r]
               /\ k.node \in KjValues \cup {Nil} /\ ps \in SUBSET AssignedObject
               /\ k.requested - r \in Int
    <3>1. /\ k.pods \in SUBSET AssignedObject /\ k.requested \in Int
          /\ k.node \in KjValues \cup {Nil}
          /\ k = [node |-> k.node, pods |-> k.pods, requested |-> k.requested]
      BY <2>4, <2>6 DEF Cache!NodeInfo
    <3>2. removed = [node |-> k.node, pods |-> ps, requested |-> k.requested - r]
      BY <2>3, <3>1
    <3> QED
      BY <1>1, <2>5, <3>1, <3>2
  <2>7. k # Nil => removed \in Cache!NodeInfo /\ removed.node = k.node /\ removed.pods \subseteq k.pods
    BY <2>5, <2>6 DEF Cache!NodeInfo
  <2> QED
    BY <2>7 DEF k
<1>5. Cache!addPod(ns, o) = [ns EXCEPT ![m] = added]
  BY DEF Cache!addPod
<1>6. Cache!removePod(ns, o) = IF ns[m] = Nil THEN ns
                               ELSE [ns EXCEPT ![m] = Cache!KeepOrDrop(removed)]
  BY DEF Cache!removePod
<1> HIDE DEF m, added, removed
<1>7. Cache!addPod(ns, o) \in NodeInfos /\ From(Cache!addPod(ns, o), ns, {o})
  <2>1. /\ Cache!addPod(ns, o) \in NodeInfos /\ Cache!addPod(ns, o)[m] = added /\ added # Nil
        /\ \A n \in Nodes : n # m => Cache!addPod(ns, o)[n] = ns[n]
    BY <1>1, <1>3, <1>5, NilAssumption DEF NodeInfos
  <2> QED
    BY <1>3, <2>1 DEF From, Cache!InfoOf
<1>8. Cache!removePod(ns, o) \in NodeInfos /\ From(Cache!removePod(ns, o), ns, {})
  <2>1. CASE ns[m] = Nil
    BY <1>6, <2>1 DEF From
  <2>2. CASE ns[m] # Nil
    <3> DEFINE k == Cache!KeepOrDrop(removed)
    <3>1. k = removed \/ (k = Nil /\ removed.node = Nil)
      BY DEF Cache!KeepOrDrop
    <3>2. Cache!removePod(ns, o) = [ns EXCEPT ![m] = k]
      BY <1>6, <2>2
    <3> HIDE DEF k
    <3>3. removed # Nil
      BY <1>4, <2>2, NilAssumption
    <3>4. /\ Cache!removePod(ns, o) \in NodeInfos /\ Cache!removePod(ns, o)[m] = k
          /\ \A n \in Nodes : n # m => Cache!removePod(ns, o)[n] = ns[n]
      BY <1>1, <1>4, <2>2, <3>1, <3>2 DEF NodeInfos
    <3> QED
      BY <1>4, <2>2, <3>1, <3>3, <3>4 DEF From, Cache!InfoOf, Cache!NewNodeInfo
  <2> QED
    BY <2>1, <2>2
<1> QED
  BY <1>7, <1>8

\* Objects may be added in two steps.
LEMMA FromTwice ==
    ASSUME NEW ns, NEW ms, NEW ls, NEW S, NEW T, From(ms, ns, S), From(ls, ms, T)
    PROVE  From(ls, ns, S \cup T)
BY DEF From

\* What the operations on pods make of the nodes.
LEMMA CallsFrom ==
    ASSUME CacheInv, NEW S,
           \/ \E o \in AssignedObject :
                 \/ Cache!ForgetPod(o) \/ Cache!RemovePod(o)
                 \/ o \in S /\ (Cache!AssumePod(o) \/ Cache!AddPod(o))
           \/ \E old, new \in AssignedObject : new \in S /\ Cache!UpdatePod(old, new)
           \/ \E uid \in Pods : Cache!FinishBinding(uid) \/ Cache!ExpirePod(uid)
    PROVE  From(nodes', nodes, S)
<1>1. nodes \in NodeInfos /\ podStates \in [Pods -> Cache!PodState \cup {Nil}]
  BY CacheFacts DEF NodeInfos
<1>2. \A ns, ms, T : From(ns, ns, S) /\ (T \subseteq S /\ From(ms, ns, T) => From(ms, ns, S))
  BY DEF From
<1>3. ASSUME NEW o \in AssignedObject, nodes' = Cache!removePod(nodes, o)
      PROVE  From(nodes', nodes, S)
  <2>1. From(nodes', nodes, {}) /\ {} \subseteq S
    BY <1>1, <1>3, NodesFrom
  <2> QED
    BY <1>2, <2>1
<1>4. ASSUME NEW o \in AssignedObject, o \in S, nodes' = Cache!addPod(nodes, o)
      PROVE  From(nodes', nodes, S)
  <2>1. From(nodes', nodes, {o}) /\ {o} \subseteq S
    BY <1>1, <1>4, NodesFrom
  <2> QED
    BY <1>2, <2>1
<1>5. ASSUME NEW old \in AssignedObject, NEW new \in AssignedObject, new \in S,
             nodes' = Cache!addPod(Cache!removePod(nodes, old), new)
      PROVE  From(nodes', nodes, S)
  <2> DEFINE ms == Cache!removePod(nodes, old)
  <2>1. ms \in NodeInfos /\ From(ms, nodes, {})
    BY <1>1, NodesFrom
  <2>2. From(nodes', ms, {new})
    <3> HIDE DEF ms
    <3> QED
      BY <1>5, <2>1, NodesFrom DEF ms
  <2> HIDE DEF ms
  <2>3. From(nodes', nodes, {} \cup {new})
    BY <2>1, <2>2, FromTwice
  <2> QED
    BY <1>2, <1>5, <2>3
<1>6. ASSUME nodes' = nodes
      PROVE  From(nodes', nodes, S)
  BY <1>2, <1>6
<1>7. \A uid \in Pods : podStates[uid] # Nil => podStates[uid].pod \in AssignedObject
  BY CacheFacts
<1>8. ASSUME NEW o \in AssignedObject, Cache!ForgetPod(o) \/ Cache!RemovePod(o)
      PROVE  From(nodes', nodes, S)
  <2>1. o.uid \in Pods
    BY CacheObjects
  <2>2. CASE Cache!ForgetPod(o)
    BY <1>3, <1>6, <2>2 DEF Cache!ForgetPod, Cache!vars
  <2>3. CASE Cache!RemovePod(o)
    BY <1>3, <1>6, <1>7, <2>1, <2>3 DEF Cache!RemovePod, Cache!Deletable, Cache!IsAddedPod,
         Cache!CorruptedBy, Cache!vars
  <2> QED
    BY <1>8, <2>2, <2>3
<1>9. ASSUME NEW o \in AssignedObject, o \in S, Cache!AssumePod(o) \/ Cache!AddPod(o)
      PROVE  From(nodes', nodes, S)
  <2>1. o.uid \in Pods
    BY CacheObjects
  <2>2. CASE Cache!AssumePod(o)
    BY <1>4, <1>6, <1>9, <2>2 DEF Cache!AssumePod, Cache!vars
  <2>3. CASE Cache!ConfirmPod(o)
    <3> DEFINE current == podStates[o.uid].pod
    <3>1. current \in AssignedObject
      BY <1>7, <2>1, <2>3 DEF Cache!ConfirmPod
    <3>2. \/ nodes' = nodes
          \/ nodes' = Cache!addPod(nodes, o)
          \/ nodes' = Cache!addPod(Cache!removePod(nodes, current), o)
      <4>1. CASE Cache!Removable(nodes, current)
        BY <2>3, <4>1, Zenon DEF Cache!ConfirmPod
      <4>2. CASE ~Cache!Removable(nodes, current)
        BY <2>3, <4>2, Zenon DEF Cache!ConfirmPod
      <4> QED
        BY <4>1, <4>2
    <3> HIDE DEF current
    <3> QED
      BY <1>4, <1>5, <1>6, <1>9, <3>1, <3>2
  <2>4. CASE Cache!AddPod(o) /\ ~Cache!ConfirmPod(o)
    <3>1. nodes' = nodes \/ nodes' = Cache!addPod(nodes, o)
      BY <2>4, Zenon DEF Cache!AddPod, Cache!vars
    <3> QED
      BY <1>4, <1>6, <1>9, <3>1
  <2> QED
    BY <1>9, <2>2, <2>3, <2>4
<1>10. ASSUME NEW old \in AssignedObject, NEW new \in AssignedObject, new \in S,
              Cache!UpdatePod(old, new)
       PROVE  From(nodes', nodes, S)
  BY <1>5, <1>6, <1>10 DEF Cache!UpdatePod, Cache!updatePod, Cache!CorruptedBy, Cache!vars
<1>11. ASSUME NEW uid \in Pods, Cache!FinishBinding(uid) \/ Cache!ExpirePod(uid)
       PROVE  From(nodes', nodes, S)
  BY <1>3, <1>6, <1>7, <1>11 DEF Cache!FinishBinding, Cache!ExpirePod, Cache!vars
<1> QED
  BY <1>8, <1>9, <1>10, <1>11

\* What is made of such NodeInfos is of the same kind.
LEMMA FromGood ==
    ASSUME NodesInv, NEW S, From(nodes', nodes, S),
           \A n \in Nodes : \A o \in Cache!InfoOf(nodes, n).pods :
              o.uid \in assumedPods' => o.uid \in assumedPods,
           \A o \in S :
              Raw(o.uid, o) \/ (Converted(o.uid, o, o.node) /\ o.uid \notin assumedPods')
    PROVE  NodesInv'
<1>1. ASSUME NEW n \in Nodes, nodes'[n] # Nil
      PROVE  /\ nodes'[n].node \in {Nil, InitialKj[n]}
             /\ \A o \in nodes'[n].pods :
                   Raw(o.uid, o) \/ (Converted(o.uid, o, o.node) /\ o.uid \notin assumedPods')
  <2>1. Cache!InfoOf(nodes', n) = nodes'[n]
    BY <1>1 DEF Cache!InfoOf
  <2>2. /\ Cache!InfoOf(nodes, n).node \in {Nil, InitialKj[n]}
        /\ \A o \in Cache!InfoOf(nodes, n).pods :
              Raw(o.uid, o) \/ (Converted(o.uid, o, o.node) /\ o.uid \notin assumedPods)
    BY DEF NodesInv, Cache!InfoOf, Cache!NewNodeInfo
  <2>3. /\ nodes'[n].node = Cache!InfoOf(nodes, n).node
        /\ nodes'[n].pods \subseteq Cache!InfoOf(nodes, n).pods \cup S
    BY <2>1 DEF From
  <2>4. nodes'[n].node \in {Nil, InitialKj[n]}
    BY <2>2, <2>3
  <2>5. ASSUME NEW o \in nodes'[n].pods
        PROVE  Raw(o.uid, o) \/ (Converted(o.uid, o, o.node) /\ o.uid \notin assumedPods')
    BY <2>2, <2>3, <2>5
  <2> QED
    BY <2>4, <2>5
<1> QED
  BY <1>1, Zenon DEF NodesInv, Raw, Converted

\* What the invariant of the cache says of the pods a node lists.
LEMMA ListedFacts ==
    ASSUME CacheInv, NEW n \in Nodes, nodes[n] # Nil
    PROVE  /\ nodes[n] \in Cache!NodeInfo
           /\ \A o \in nodes[n].pods :
                 /\ o \in AssignedObject /\ o.uid \in Pods /\ o.node = n
                 /\ podStates[o.uid] # Nil /\ podStates[o.uid].pod.node = n
           /\ \A o1, o2 \in nodes[n].pods : o1.uid = o2.uid => o1 = o2
<1>1. nodes[n] \in Cache!NodeInfo
  BY CacheFacts
<1>2. CacheProofs!ListedIffCached /\ CacheProofs!ListedOnce
  BY DEF CacheInv, CacheProofs!IInv, CacheProofs!PodsWhereTheyAre
<1>3. ASSUME NEW o \in nodes[n].pods
      PROVE  o \in AssignedObject /\ o.uid \in Pods
  BY <1>1, CacheObjects DEF Cache!NodeInfo
<1> QED
  BY <1>1, <1>2, <1>3 DEF CacheProofs!ListedIffCached, CacheProofs!ListedOnce, CacheProofs!Listed

\* The nodes list what was assumed, until its event replaces it.
LEMMA NodesStep ==
    ASSUME Plain, Timely, IInv, BInv, BInv', StoredInv, WorkInv, NodesInv, [Next]_vars
    PROVE  NodesInv'
<1>0. StoreInv /\ CacheInv /\ BindingInv /\ SnapshotInv /\ AddedIsSeen
  BY DEF IInv
<1>1. CASE UNCHANGED <<nodes, assumedPods>>
  BY <1>1, Zenon DEF NodesInv, Raw, Converted
<1>2. ASSUME NEW S, From(nodes', nodes, S), assumedPods' \subseteq assumedPods,
             \A o \in S : Converted(o.uid, o, o.node) /\ o.uid \notin assumedPods'
      PROVE  NodesInv'
  BY <1>2, FromGood
<1>3. CASE StartScheduler
  <2> DEFINE kjOf(n) == IF nodes[n] = Nil THEN Nil ELSE nodes[n].node
             info(n) == [node |-> kjOf(n), pods |-> Bound(n),
                         requested |-> SumFunction([o \in Bound(n) |-> Request(o)])]
  <2>1. nodes' = [n \in Nodes |-> Cache!KeepOrDrop(info(n))] /\ assumedPods' = {}
    BY <1>3, Zenon DEF Timely, StartScheduler, Bound
  <2>2. ASSUME NEW n \in Nodes, nodes'[n] # Nil
        PROVE  /\ nodes'[n].node \in {Nil, InitialKj[n]}
               /\ \A o \in nodes'[n].pods :
                     Raw(o.uid, o) \/ (Converted(o.uid, o, o.node) /\ o.uid \notin assumedPods')
    <3>1. nodes'[n] = info(n)
      BY <2>1, <2>2, Zenon DEF Cache!KeepOrDrop
    <3>2. nodes'[n].node = kjOf(n) /\ nodes'[n].pods = Bound(n)
      BY <3>1
    <3>3. kjOf(n) \in {Nil, InitialKj[n]}
      BY DEF NodesInv
    <3>4. ASSUME NEW o \in Bound(n)
          PROVE  Converted(o.uid, o, o.node)
      <4>1. PICK q \in Pods : o = etcd[q] /\ AssignedPod(etcd[q])
        BY DEF Bound
      <4>2. o \in StoredOf(q) /\ o # Nil /\ o.node # Nil
        BY <4>1 DEF StoredInv, AssignedPod
      <4> QED
        BY <4>2 DEF StoredOf, ObjectsOf
    <3> QED
      BY <2>1, <3>2, <3>3, <3>4
  <2> QED
    BY <2>2, Zenon DEF NodesInv, Raw, Converted
<1>4. ASSUME NEW p \in Pods, NEW n \in Nodes, AssumeOn(p, n)
      PROVE  NodesInv'
  <2> DEFINE o == [cycle EXCEPT !.node = n]
  <2>1. cycle # Nil /\ cycle.uid = p /\ podStates[p] = Nil /\ cycle \in PodObject
    BY <1>0, <1>4 DEF AssumeOn, SnapshotInv, Objects
  <2>2. o \in AssignedObject /\ o.uid = p
    <3>1. n # Nil
      BY NilAssumption
    <3> QED
      BY <2>1, <3>1 DEF PodObject, AssignedObject
  <2>3. Raw(p, o)
    BY <2>1 DEF PodObject, WorkInv, Raw
  <2>4. Cache!AssumePod(o)
    BY <1>4 DEF AssumeOn
  <2> HIDE DEF o
  <2>5. From(nodes', nodes, {o})
    BY <1>0, <2>2, <2>4, CallsFrom
  <2>6. assumedPods' = assumedPods \cup {p}
    BY <2>1, <2>2, <2>4 DEF Cache!AssumePod
  <2>7. ASSUME NEW m \in Nodes, NEW x \in Cache!InfoOf(nodes, m).pods
        PROVE  x.uid # p
    <3>1. nodes[m] # Nil /\ x \in nodes[m].pods
      BY <2>7 DEF Cache!InfoOf, Cache!NewNodeInfo
    <3> QED
      BY <1>0, <2>1, <3>1, ListedFacts
  <2> QED
    BY <2>2, <2>3, <2>5, <2>6, <2>7, FromGood
<1>5. ASSUME NEW p \in Pods, Deliver(p)
      PROVE  NodesInv'
  <2> DEFINE new == Head(watch[p])
  <2>1. watch[p] # <<>> /\ informer'[p] = new
    BY <1>0, <1>5 DEF Deliver, StoreInv
  <2>2. new \in StoredOf(p)
    <3>1. watch[p] \in Seq(StoredOf(p))
      BY DEF StoredInv
    <3> QED
      BY <2>1, <3>1
  <2> DEFINE S == {o \in {new} : AssignedPod(o)}
  <2>3. AssignedPod(new) => /\ new.uid = p /\ Converted(p, new, new.node)
                            /\ new \in AssignedObject
    BY <2>2 DEF StoredOf, ObjectsOf, AssignedPod, AssignedObject
  <2>4. AssignedPod(new) => p \notin assumedPods'
    BY <2>1 DEF BInv, PodInv, SeenIsAdded, Cache!IsAddedPod
  <2>5. CASE UNCHANGED cacheVars
    BY <1>1, <2>5 DEF cacheVars
  <2>6. CASE ~UNCHANGED cacheVars
    <3>1. \/ \E o \in AssignedObject : o = new /\ Cache!AddPod(o)
          \/ \E o \in AssignedObject : Cache!RemovePod(o)
          \/ \E old, nu \in AssignedObject :
                /\ old.uid = nu.uid /\ old.node = nu.node /\ nu = new
                /\ Cache!UpdatePod(old, nu)
      BY <1>0, <1>5, <2>6, DeliverCalls, Zenon
    <3>2. \A o \in AssignedObject : o # Nil /\ o.node # Nil
      BY NilAssumption DEF AssignedObject
    <3> HIDE DEF new
    <3>3. new \in AssignedObject => new \in S
      BY <3>2 DEF AssignedPod
    <3> HIDE DEF S
    <3>4. From(nodes', nodes, S)
      BY <1>0, <3>1, <3>3, CallsFrom
    <3>5. assumedPods' \subseteq assumedPods
      BY <1>0, <3>1, AssumedKept
    <3>6. \A o \in S : Converted(o.uid, o, o.node) /\ o.uid \notin assumedPods'
      BY <2>3, <2>4 DEF S
    <3> QED
      BY <1>2, <3>4, <3>5, <3>6
  <2> QED
    BY <2>5, <2>6
<1>6. ASSUME NEW p \in Pods, BindDone(p) \/ BindFailed(p) \/ ExpireAssumed(p)
      PROVE  NodesInv'
  <2>1. \/ \E o \in AssignedObject : Cache!ForgetPod(o)
        \/ \E uid \in Pods : Cache!FinishBinding(uid) \/ Cache!ExpirePod(uid)
    <3>1. BindFailed(p) => binding[p].pod \in AssignedObject
      BY <1>0 DEF BindFailed, At, BindingInv, BindingOf
    <3> QED
      BY <1>6, <3>1, Zenon DEF BindDone, BindFailed, ExpireAssumed
  <2>2. From(nodes', nodes, {})
    BY <1>0, <2>1, CallsFrom
  <2>3. assumedPods' \subseteq assumedPods
    BY <1>0, <2>1, AssumedKept
  <2> QED
    BY <1>2, <2>2, <2>3
<1>7. ASSUME NEW m \in Nodes, LeaveCluster(m) \/ JoinCluster(m)
      PROVE  NodesInv'
  <2> DEFINE ni == Cache!InfoOf(nodes, m)
  <2>1. /\ nodes \in NodeInfos /\ m \in Nodes
        /\ ni \in Cache!NodeInfo
    BY <1>0, CacheFacts DEF NodeInfos, Cache!InfoOf, Cache!NewNodeInfo, Cache!NodeInfo
  <2>2. assumedPods' = assumedPods
    BY <1>7 DEF LeaveCluster, JoinCluster, Cache!RemoveNode, Cache!AddNode, Cache!vars
  <2>3. \/ nodes' = nodes
        \/ nodes' = [nodes EXCEPT ![m] = [ni EXCEPT !.node = InitialKj[m]]]
        \/ nodes' = [nodes EXCEPT ![m] = [ni EXCEPT !.node = Nil]]
        \/ nodes' = [nodes EXCEPT ![m] = Nil]
    BY <1>7 DEF LeaveCluster, JoinCluster, Cache!RemoveNode, Cache!AddNode, Cache!vars,
         Cache!InfoSetNode, Cache!KeepOrDrop, Cache!InfoOf
  <2>4. \A o \in ni.pods :
          Raw(o.uid, o) \/ (Converted(o.uid, o, o.node) /\ o.uid \notin assumedPods)
    BY DEF NodesInv, Cache!InfoOf, Cache!NewNodeInfo
  <2> HIDE DEF ni
  <2>5. \A k : [ni EXCEPT !.node = k].pods = ni.pods /\ [ni EXCEPT !.node = k].node = k
    BY <2>1 DEF Cache!NodeInfo
  <2>6. ASSUME NEW n \in Nodes, nodes'[n] # Nil
        PROVE  /\ nodes'[n].node \in {Nil, InitialKj[n]}
               /\ \A o \in nodes'[n].pods :
                     Raw(o.uid, o) \/ (Converted(o.uid, o, o.node) /\ o.uid \notin assumedPods')
    <3>1. CASE n # m \/ nodes' = nodes
      <4>1. nodes'[n] = nodes[n]
        BY <2>1, <2>3, <3>1 DEF NodeInfos
      <4> QED
        BY <2>2, <2>6, <4>1 DEF NodesInv
    <3>2. CASE n = m /\ nodes' # nodes
      <4>1. \E k \in {Nil, InitialKj[m]} : nodes'[m] = [ni EXCEPT !.node = k]
        BY <2>1, <2>3, <2>6, <3>2 DEF NodeInfos
      <4>2. nodes'[m].node \in {Nil, InitialKj[m]} /\ nodes'[m].pods = ni.pods
        BY <2>5, <4>1
      <4> QED
        BY <2>2, <2>4, <3>2, <4>2
    <3> QED
      BY <3>1, <3>2
  <2> QED
    BY <2>6, Zenon DEF NodesInv, Raw, Converted
<1>8. CASE \/ \E p \in Pods : \/ PopPod(p) \/ ScheduleFails(p) \/ BindConvert(p) \/ BindGet(p)
                               \/ BindPut(p) \/ BindError(p) \/ Relist(p)
                               \/ MarkDeleted(p) \/ RemoveDeleted(p) \/ RunPod(p)
           \/ UNCHANGED vars
  BY <1>1, <1>8 DEF PopPod, ScheduleFails, BindConvert, BindGet, BindPut, BindError, Relist,
       MarkDeleted, RemoveDeleted, RunPod, vars, cacheVars
<1> QED
  BY <1>3, <1>4, <1>5, <1>6, <1>7, <1>8, Steps, Zenon

\* A snapshot has the performance the nodes have.
LEMMA LabelStep ==
    ASSUME Plain, Timely, IInv, NodesInv, LabelInv, [Next]_vars
    PROVE  LabelInv'
<1>1. CASE snapshot' = snapshot
  BY <1>1 DEF LabelInv
<1>2. CASE snapshot' = [n \in Nodes |-> Nil]
  BY <1>2 DEF LabelInv
<1>3. CASE snapshot' = CacheSnapshot
  BY <1>3 DEF LabelInv, CacheSnapshot, NodesInv
<1>4. CASE StartScheduler \/ \E p \in Pods : PopPod(p)
  BY <1>1, <1>2, <1>3, <1>4 DEF StartScheduler, PopPod
<1>5. CASE \/ \E p \in Pods : \E n \in Nodes : AssumeOn(p, n)
           \/ \E p \in Pods : \/ ScheduleFails(p) \/ BindConvert(p) \/ BindGet(p)
                              \/ BindPut(p) \/ BindDone(p) \/ BindFailed(p) \/ BindError(p)
                              \/ Deliver(p) \/ Relist(p) \/ ExpireAssumed(p)
                              \/ MarkDeleted(p) \/ RemoveDeleted(p) \/ RunPod(p)
           \/ \E n \in Nodes : LeaveCluster(n) \/ JoinCluster(n)
           \/ UNCHANGED vars
  BY <1>1, <1>5 DEF AssumeOn, ScheduleFails, BindConvert, BindGet, BindPut, BindDone, BindFailed,
       BindError, Deliver, Relist, ExpireAssumed, MarkDeleted, RemoveDeleted, RunPod,
       LeaveCluster, JoinCluster, vars, schedVars
<1> QED
  BY <1>4, <1>5, Steps, Zenon

-----------------------------------------------------------------------------
(* What the cache counts never grows but by AssumePod.                     *)

\* An assumed pod has its owner's requests, an added one the converted ones.
LEMMA CachedShape ==
    ASSUME IInv, BInv, StoredInv, WorkInv, NEW p \in Pods, podStates[p] # Nil
    PROVE  \/ p \in assumedPods /\ Raw(p, podStates[p].pod)
           \/ p \notin assumedPods /\ Converted(p, podStates[p].pod, podStates[p].pod.node)
<1>1. CASE p \in assumedPods
  BY <1>1 DEF WorkInv
<1>2. CASE p \notin assumedPods
  <2>1. AssignedPod(informer[p])
    BY <1>2 DEF IInv, AddedIsSeen, BInv, Cache!IsAddedPod
  <2>2. podStates[p].pod = informer[p] /\ informer[p] \in StoredOf(p)
    BY <2>1 DEF BInv, PodInv, SeenIsAdded, StoredInv
  <2> QED
    BY <1>2, <2>1, <2>2 DEF StoredOf, AssignedPod
<1> QED
  BY <1>1, <1>2

\* What an object of the cache is counted for lies between the converted request and
\* the one its owner wrote.
LEMMA CachedWeight ==
    ASSUME Plain, IInv, BInv, StoredInv, WorkInv, NEW p \in Pods, podStates[p] # Nil
    PROVE  LET n == podStates[p].pod.node
               w == Weight(podStates[p].pod, n)
           IN  n \in Nodes /\ w \in Nat /\ KeptCpu(p, n) <= w /\ w <= RawCpu(p, n)
               /\ (p \notin assumedPods => w = KeptCpu(p, n))
<1> DEFINE o == podStates[p].pod
           n == o.node
<1>1. o.uid = p /\ n \in Nodes
  BY CacheFacts DEF IInv
<1>2. \/ p \in assumedPods /\ Raw(p, o)
      \/ p \notin assumedPods /\ Converted(p, o, n)
  BY CachedShape
<1> HIDE DEF o
<1>3. /\ Raw(p, o) => Weight(o, n) = RawCpu(p, n)
      /\ Converted(p, o, n) => Weight(o, n) = KeptCpu(p, n)
  BY <1>1, WeightOf
<1>4. /\ RawCpu(p, n) \in Nat /\ KeptCpu(p, n) \in Nat
      /\ KeptCpu(p, n) <= RawCpu(p, n)
  BY <1>1, ConvertedAtMost
<1>5. /\ Weight(o, n) \in Nat /\ KeptCpu(p, n) <= Weight(o, n) /\ Weight(o, n) <= RawCpu(p, n)
      /\ (p \notin assumedPods => Weight(o, n) = KeptCpu(p, n))
  <2> DEFINE w == Weight(o, n)
             c == KeptCpu(p, n)
             r == RawCpu(p, n)
  <2> HIDE DEF w, c, r
  <2>1. w = r \/ w = c
    BY <1>2, <1>3 DEF w, c, r
  <2>2. w \in Nat /\ c <= w /\ w <= r
    BY <1>4, <2>1 DEF c, r
  <2> QED
    BY <1>2, <1>3, <2>2 DEF w, c, r
<1> QED
  BY <1>1, <1>5 DEF o

\* A step leaves a pod of the cache as it is, removes it, or has its converted object
\* replace the one that was there.
Shrinks(p) ==
    podStates'[p] # Nil =>
        /\ podStates[p] # Nil /\ podStates'[p].pod.node = podStates[p].pod.node
        /\ \/ podStates'[p].pod = podStates[p].pod
           \/ Converted(p, podStates'[p].pod, podStates'[p].pod.node)

\* Then it is counted for no more than before.
LEMMA ShrunkWeight ==
    ASSUME Plain, IInv, BInv, StoredInv, WorkInv, IInv', NEW p \in Pods, Shrinks(p),
           podStates'[p] # Nil
    PROVE  LET n == podStates[p].pod.node
           IN  /\ podStates[p] # Nil /\ podStates'[p].pod.node = n /\ n \in Nodes
               /\ Weight(podStates'[p].pod, n) \in Nat
               /\ Weight(podStates'[p].pod, n) <= Weight(podStates[p].pod, n)
<1> DEFINE o == podStates[p].pod
           c == podStates'[p].pod
           n == o.node
<1>1. podStates[p] # Nil /\ c.node = n /\ (c = o \/ Converted(p, c, n))
  BY DEF Shrinks
<1>2. c.uid = p
  <2>1. CacheProofs!KeyedByUid'
    BY DEF IInv, CacheInv, CacheProofs!IInv
  <2> QED
    BY <2>1 DEF CacheProofs!KeyedByUid
<1>3. n \in Nodes /\ Weight(o, n) \in Nat /\ KeptCpu(p, n) <= Weight(o, n)
  BY <1>1, CachedWeight
<1>4. KeptCpu(p, n) \in Nat
  BY <1>3, ConvertedAtMost
<1> HIDE DEF o, c
<1>5. Converted(p, c, n) => Weight(c, n) = KeptCpu(p, n)
  BY <1>2, <1>3, WeightOf
<1>6. Weight(c, n) \in Nat /\ Weight(c, n) <= Weight(o, n)
  <2>1. CASE c = o
    BY <1>3, <2>1
  <2>2. CASE Converted(p, c, n)
    BY <1>3, <1>4, <1>5, <2>2
  <2> QED
    BY <1>1, <2>1, <2>2
<1> QED
  BY <1>1, <1>3, <1>6 DEF o, c

\* The operations that only take pods from the cache.
LEMMA CallsShrink ==
    ASSUME CacheInv,
           \/ \E o \in AssignedObject : Cache!ForgetPod(o) \/ Cache!RemovePod(o)
           \/ \E uid \in Pods : Cache!FinishBinding(uid) \/ Cache!ExpirePod(uid),
           NEW q \in Pods
    PROVE  Shrinks(q)
<1>1. podStates \in [Pods -> Cache!PodState \cup {Nil}]
  BY CacheFacts
<1>2. ASSUME podStates' = podStates
      PROVE  Shrinks(q)
  BY <1>2 DEF Shrinks
<1>3. ASSUME NEW p \in Pods, podStates' = [podStates EXCEPT ![p] = Nil]
      PROVE  Shrinks(q)
  BY <1>1, <1>3 DEF Shrinks
<1>4. ASSUME NEW o \in AssignedObject, Cache!ForgetPod(o) \/ Cache!RemovePod(o)
      PROVE  Shrinks(q)
  <2>1. o.uid \in Pods
    BY CacheObjects
  <2>2. podStates' = podStates \/ podStates' = [podStates EXCEPT ![o.uid] = Nil]
    BY <1>4, Zenon DEF Cache!ForgetPod, Cache!RemovePod, Cache!CorruptedBy, Cache!vars
  <2> QED
    BY <1>2, <1>3, <2>1, <2>2
<1>5. ASSUME NEW uid \in Pods, Cache!ExpirePod(uid)
      PROVE  Shrinks(q)
  BY <1>3, <1>5 DEF Cache!ExpirePod
<1>6. ASSUME NEW uid \in Pods, Cache!FinishBinding(uid)
      PROVE  Shrinks(q)
  <2>1. CASE podStates' = podStates
    BY <1>2, <2>1
  <2>2. CASE podStates' # podStates
    <3> DEFINE s == [podStates[uid] EXCEPT !.deadline = TRUE, !.bindingFinished = TRUE]
    <3>1. podStates[uid] # Nil /\ podStates' = [podStates EXCEPT ![uid] = s]
      BY <1>6, <2>2 DEF Cache!FinishBinding, Cache!vars
    <3>2. s.pod = podStates[uid].pod
      BY <1>1, <3>1 DEF Cache!PodState
    <3> HIDE DEF s
    <3>3. podStates'[q] = IF q = uid THEN s ELSE podStates[q]
      BY <1>1, <3>1
    <3> QED
      BY <3>1, <3>2, <3>3 DEF Shrinks
  <2> QED
    BY <2>1, <2>2
<1> QED
  BY <1>4, <1>5, <1>6

\* Every step but AssumeOn shrinks what is counted.
LEMMA ShrinkStep ==
    ASSUME Plain, Timely, IInv, BInv, BInv', StoredInv, [Next]_vars,
           ~\E p \in Pods : \E n \in Nodes : AssumeOn(p, n),
           NEW q \in Pods
    PROVE  Shrinks(q)
<1>0. StoreInv /\ CacheInv /\ BindingInv /\ SnapshotInv /\ AddedIsSeen
  BY DEF IInv
<1>1. CASE podStates'[q] = podStates[q]
  BY <1>1 DEF Shrinks
<1>2. CASE StartScheduler
  <2>1. podStates'[q] = IF AssignedPod(etcd[q]) THEN Cache!NewPodState(etcd[q]) ELSE Nil
    BY <1>2 DEF Timely, StartScheduler
  <2>2. CASE AssignedPod(etcd[q])
    <3>1. podStates'[q].pod = etcd[q]
      BY <2>1, <2>2 DEF Cache!NewPodState
    <3>2. Converted(q, etcd[q], etcd[q].node)
      BY <2>2 DEF StoredInv, StoredOf, AssignedPod
    <3>3. LastEvent(q) \in 0..LastEvent(q) /\ Event(q, LastEvent(q)) = etcd[q]
      BY <1>0, EventTypes DEF BInv, PodInv, EventsCurrent
    <3>4. podStates[q] # Nil /\ podStates[q].pod.node = etcd[q].node
      BY <2>2, <3>3 DEF BInv, PodInv, EventsCached
    <3> QED
      BY <3>1, <3>2, <3>4 DEF Shrinks
  <2> QED
    BY <2>1, <2>2 DEF Shrinks
<1>3. ASSUME NEW p \in Pods, Deliver(p)
      PROVE  Shrinks(q)
  <2> DEFINE new == Head(watch[p])
  <2>1. watch[p] # <<>> /\ informer'[p] = new /\ new \in StoredOf(p)
    <3>1. watch[p] \in Seq(StoredOf(p))
      BY DEF StoredInv
    <3> QED
      BY <1>0, <1>3, <3>1 DEF Deliver, StoreInv
  <2>2. CASE \E o \in AssignedObject : Cache!RemovePod(o)
    BY <1>0, <2>2, CallsShrink
  <2>3. CASE UNCHANGED cacheVars
    BY <1>1, <2>3 DEF cacheVars
  <2>4. CASE new \in AssignedObject /\ (\A r \in Pods : r # p => podStates'[r] = podStates[r])
    <3>1. AssignedPod(new) /\ Converted(p, new, new.node)
      <4>1. new # Nil /\ new.node # Nil
        BY <2>4, NilAssumption DEF AssignedObject
      <4> QED
        BY <2>1, <4>1 DEF StoredOf, AssignedPod
    <3>2. podStates'[p].pod = new
      BY <2>1, <3>1 DEF BInv, PodInv, SeenIsAdded
    <3>3. 1 \in 0..LastEvent(p) /\ Event(p, 1) = new
      <4>1. watch[p] \in Seq(ObjectsOf(p))
        BY <1>0 DEF StoreInv
      <4>2. new = watch[p][1] /\ Len(watch[p]) \in Nat /\ Len(watch[p]) >= 1
        BY <2>1, <4>1
      <4> QED
        BY <4>2 DEF Event, LastEvent
    <3>4. podStates[p] # Nil /\ podStates[p].pod.node = new.node
      BY <3>1, <3>3 DEF BInv, PodInv, EventsCached
    <3> HIDE DEF new
    <3>5. Shrinks(p)
      BY <3>1, <3>2, <3>4 DEF Shrinks
    <3> QED
      BY <1>1, <2>4, <3>5
  <2>5. ASSUME NEW o \in AssignedObject, o = new, Cache!AddPod(o)
        PROVE  \A r \in Pods : r # p => podStates'[r] = podStates[r]
    <3>1. o.uid = p
      <4>1. o # Nil
        BY NilAssumption DEF AssignedObject
      <4> QED
        BY <2>1, <2>5, <4>1 DEF StoredOf, ObjectsOf
    <3>2. podStates \in [Pods -> Cache!PodState \cup {Nil}]
      BY <1>0, CacheFacts
    <3> QED
      BY <2>5, <3>1, <3>2 DEF Cache!AddPod, Cache!ConfirmPod, Cache!vars
  <2>6. ASSUME NEW o \in AssignedObject, NEW x \in AssignedObject, o.uid = x.uid, x = new,
               Cache!UpdatePod(o, x)
        PROVE  \A r \in Pods : r # p => podStates'[r] = podStates[r]
    <3>1. o.uid = p
      <4>1. x # Nil
        BY NilAssumption DEF AssignedObject
      <4> QED
        BY <2>1, <2>6, <4>1 DEF StoredOf, ObjectsOf
    <3>2. podStates \in [Pods -> Cache!PodState \cup {Nil}]
      BY <1>0, CacheFacts
    <3> QED
      BY <2>6, <3>1, <3>2 DEF Cache!UpdatePod, Cache!CorruptedBy, Cache!vars
  <2> QED
    <3>1. \/ \E o \in AssignedObject : o = new /\ Cache!AddPod(o)
          \/ \E o \in AssignedObject : Cache!RemovePod(o)
          \/ \E old, nu \in AssignedObject :
                /\ old.uid = nu.uid /\ old.node = nu.node /\ nu = new
                /\ Cache!UpdatePod(old, nu)
          \/ UNCHANGED cacheVars
      BY <1>0, <1>3, DeliverCalls, Zenon
    <3> HIDE DEF new
    <3> QED
      BY <2>2, <2>3, <2>4, <2>5, <2>6, <3>1
<1>4. ASSUME NEW p \in Pods, BindDone(p) \/ BindFailed(p) \/ ExpireAssumed(p)
      PROVE  Shrinks(q)
  <2>1. BindFailed(p) => binding[p].pod \in AssignedObject
    BY <1>0 DEF BindFailed, At, BindingInv, BindingOf
  <2>2. \/ \E o \in AssignedObject : Cache!ForgetPod(o)
        \/ \E uid \in Pods : Cache!FinishBinding(uid) \/ Cache!ExpirePod(uid)
    BY <1>4, <2>1, Zenon DEF BindDone, BindFailed, ExpireAssumed
  <2> QED
    BY <1>0, <2>2, CallsShrink
<1>5. CASE \/ \E p \in Pods : \/ PopPod(p) \/ ScheduleFails(p) \/ BindConvert(p) \/ BindGet(p)
                              \/ BindPut(p) \/ BindError(p) \/ Relist(p)
                              \/ MarkDeleted(p) \/ RemoveDeleted(p) \/ RunPod(p)
           \/ \E n \in Nodes : LeaveCluster(n) \/ JoinCluster(n)
           \/ UNCHANGED vars
  BY <1>1, <1>5 DEF PopPod, ScheduleFails, BindConvert, BindGet, BindPut, BindError, Relist,
       MarkDeleted, RemoveDeleted, RunPod, vars, cacheVars, LeaveCluster, JoinCluster,
       Cache!RemoveNode, Cache!AddNode, Cache!vars
<1> QED
  BY <1>2, <1>3, <1>4, <1>5, Steps, Zenon

-----------------------------------------------------------------------------
(* Totals.                                                                 *)

\* The pods the cache has on a node are finitely many, each counted for a number.
LEMMA CountedNat ==
    ASSUME Plain, IInv, BInv, StoredInv, WorkInv, NEW n \in Nodes
    PROVE  /\ IsFiniteSet(OnNode(n)) /\ DOMAIN Counted(n) = OnNode(n)
           /\ On(Counted(n), OnNode(n)) = Counted(n)
           /\ \A p \in OnNode(n) : /\ Counted(n)[p] = Weight(podStates[p].pod, n)
                                   /\ Counted(n)[p] \in Nat
<1>1. IsFiniteSet(OnNode(n))
  BY SchedulerAssumption, FS_Subset DEF OnNode
<1>2. DOMAIN Counted(n) = OnNode(n) /\ On(Counted(n), OnNode(n)) = Counted(n)
  BY DEF Counted, On
<1>3. ASSUME NEW p \in OnNode(n)
      PROVE  Counted(n)[p] = Weight(podStates[p].pod, n) /\ Counted(n)[p] \in Nat
  <2>1. p \in Pods /\ podStates[p] # Nil /\ podStates[p].pod.node = n
    BY DEF OnNode
  <2>2. Weight(podStates[p].pod, n) \in Nat
    BY <2>1, CachedWeight
  <2> QED
    BY <2>2 DEF Counted
<1> QED
  BY <1>1, <1>2, <1>3

\* The pods of a NodeInfo are finitely many, for they have different UIDs.
LEMMA ListedFinite ==
    ASSUME CacheInv, NEW n \in Nodes, nodes[n] # Nil
    PROVE  IsFiniteSet(nodes[n].pods)
<1> DEFINE S == nodes[n].pods
           f == [o \in S |-> o.uid]
<1>1. f \in [S -> Pods] /\ \A x, y \in S : f[x] = f[y] => x = y
  BY ListedFacts
<1> HIDE DEF S, f
<1>2. f \in Injection(S, Pods)
  BY <1>1 DEF Injection, IsInjective
<1>3. IsFiniteSet(Pods)
  BY SchedulerAssumption
<1> QED
  BY <1>2, <1>3, FS_Injection DEF S

\* What was charged for an object is a number, and no more than what fitsRequest counts.
LEMMA WeightNat ==
    ASSUME Plain, NEW o \in AssignedObject, NEW n \in Nodes
    PROVE  /\ Weight(o, n) \in Nat /\ RequestedBy(o, InitialKj[n]) \in Nat
           /\ Weight(o, n) <= RequestedBy(o, InitialKj[n])
<1>1. o \in PodObject /\ Request(o) \in Nat
  BY RequestNat DEF AssignedObject
<1>2. o.uid \in Pods /\ Kb[o.uid] \in Nat /\ InitialKj[n] \in Nat \ {0}
  BY <1>1, SchedulerAssumption DEF PodObject
<1>3. Scale(Request(o), Kb[o.uid], InitialKj[n]) \in Nat
  BY <1>1, <1>2, ScaleNat
<1>4. RequestedBy(o, InitialKj[n]) \in Nat
  BY <1>1, <1>3 DEF RequestedBy
<1>5. RawCpu(o.uid, n) \in Nat
  BY <1>2, ConvertedAtMost
<1> QED
  BY <1>4, <1>5 DEF Weight

\* A step that shrinks what is counted keeps the total within the node.
LEMMA FitShrinks ==
    ASSUME Plain, IInv, BInv, StoredInv, WorkInv, IInv', FitInv, \A p \in Pods : Shrinks(p)
    PROVE  FitInv'
<1>1. ASSUME NEW n \in Nodes
      PROVE  SumFunction(Counted(n)') <= Allocatable[n]
  <2> DEFINE S == OnNode(n)'
             V == OnNode(n)
             f == Counted(n)'
             h == Counted(n)
             b == [p \in S |-> p]
  <2>1. /\ IsFiniteSet(V) /\ DOMAIN h = V /\ On(h, V) = h
        /\ \A p \in V : h[p] = Weight(podStates[p].pod, n) /\ h[p] \in Nat
    BY CountedNat
  <2>2. ASSUME NEW p \in S
        PROVE  p \in V /\ f[p] \in Nat /\ f[p] <= h[p]
    <3>1. p \in Pods /\ podStates'[p] # Nil /\ podStates'[p].pod.node = n
      BY DEF OnNode
    <3>2. /\ podStates[p] # Nil /\ podStates[p].pod.node = n
          /\ Weight(podStates'[p].pod, n) \in Nat
          /\ Weight(podStates'[p].pod, n) <= Weight(podStates[p].pod, n)
      BY <3>1, ShrunkWeight
    <3>3. p \in V
      BY <3>1, <3>2 DEF OnNode
    <3>4. f[p] = Weight(podStates'[p].pod, n)
      BY DEF Counted, Weight, RequestedBy, Request, RawCpu
    <3> QED
      BY <2>1, <3>2, <3>3, <3>4
  <2>3. On(f, S) = f
    BY DEF Counted, On
  <2>4. SumFunction(h) <= Allocatable[n]
    BY DEF FitInv
  <2> HIDE DEF S, V, f, h
  <2>5. IsFiniteSet(S)
    BY <2>1, <2>2, FS_Subset
  <2>6. b \in [S -> V] /\ (\A x, y \in S : b[x] = b[y] => x = y) /\ \A x \in S : f[x] <= h[b[x]]
    BY <2>2
  <2> HIDE DEF b
  <2>7. SumFunction(On(f, S)) <= SumFunction(On(h, V))
    <3>1. (\A x \in S : f[x] \in Int) /\ \A y \in V : h[y] \in Nat
      BY <2>1, <2>2
    <3> QED
      BY <2>1, <2>5, <2>6, <3>1, SumAtMost
  <2>8. SumFunction(f) \in Int /\ SumFunction(h) \in Int /\ Allocatable[n] \in Int
    <3>1. (\A x \in DOMAIN f : f[x] \in Int) /\ IsFiniteSet(DOMAIN f)
      <4>1. DOMAIN f = S
        BY DEF f, S, Counted
      <4> QED
        BY <2>2, <2>5, <4>1
    <3>2. (\A x \in DOMAIN h : h[x] \in Int) /\ IsFiniteSet(DOMAIN h)
      BY <2>1
    <3> QED
      BY <3>1, <3>2, SumType, SchedulerAssumption
  <2>9. SumFunction(f) <= Allocatable[n]
    BY <2>1, <2>3, <2>4, <2>7, <2>8
  <2> QED
    BY <2>9 DEF f
<1>2. \A n \in Nodes : SumFunction(Counted(n))' = SumFunction(Counted(n)')
  OBVIOUS
<1> QED
  BY <1>1 DEF FitInv

\* What fitsRequest finds on a node during a cycle covers what the cache counts there.
LEMMA SnapshotTotal ==
    ASSUME Plain, IInv, BInv, StoredInv, WorkInv, LabelInv, SnapshotCovers, cycle # Nil,
           NEW n \in Nodes, snapshot[n] # Nil
    PROVE  /\ SumFunction(Counted(n)) <= HiceNodeRequestedMilliCPU(snapshot[n])
           /\ HiceNodeRequestedMilliCPU(snapshot[n]) \in Int
<1> DEFINE S == OnNode(n)
           V == snapshot[n].pods
           f == Counted(n)
           h == [o \in V |-> RequestedBy(o, InitialKj[n])]
           Fits(p, o) == o.uid = p /\ Weight(podStates[p].pod, n) <= Weight(o, n)
           b == [p \in S |-> CHOOSE o \in V : Fits(p, o)]
<1>1. /\ IsFiniteSet(S) /\ On(f, S) = f
      /\ \A p \in S : f[p] = Weight(podStates[p].pod, n) /\ f[p] \in Nat
  BY CountedNat
<1>2. IsFiniteSet(V) /\ \A p \in S : \E o \in V : Fits(p, o)
  BY DEF SnapshotCovers
<1>3. V \subseteq AssignedObject
  BY DEF IInv, SnapshotInv, Cache!NodeInfo
<1>4. \A o \in V : h[o] \in Nat /\ Weight(o, n) \in Nat /\ Weight(o, n) <= h[o]
  BY <1>3, WeightNat
<1>5. ASSUME NEW p \in S
      PROVE  b[p] \in V /\ Fits(p, b[p])
  BY <1>2, <1>5, Zenon
<1>6. HiceNodeRequestedMilliCPU(snapshot[n]) = SumFunction(h) /\ On(h, V) = h
  <2>1. snapshot[n].node = InitialKj[n]
    BY DEF LabelInv
  <2> QED
    BY <2>1 DEF HiceNodeRequestedMilliCPU, On
<1>7. b \in [S -> V] /\ (\A x, y \in S : b[x] = b[y] => x = y) /\ \A x \in S : f[x] <= h[b[x]]
  <2>1. b = [p \in S |-> b[p]]
    OBVIOUS
  <2> HIDE DEF S, V, f, h, b
  <2> QED
    BY <1>1, <1>4, <1>5, <2>1
<1>8. DOMAIN h = V
  OBVIOUS
<1> HIDE DEF S, V, f, h, b
<1>9. SumFunction(On(f, S)) <= SumFunction(On(h, V))
  <2>1. (\A x \in S : f[x] \in Int) /\ \A y \in V : h[y] \in Nat
    BY <1>1, <1>4
  <2> QED
    BY <1>1, <1>2, <1>7, <2>1, SumAtMost
<1>10. SumFunction(h) \in Int
  <2>1. IsFiniteSet(DOMAIN h) /\ \A x \in DOMAIN h : h[x] \in Int
    BY <1>2, <1>4, <1>8
  <2> QED
    BY <2>1, SumType
<1> QED
  BY <1>1, <1>6, <1>9, <1>10 DEF f

\* Filter lets a pod be assumed only where it fits beside what the cache counts.
LEMMA FitAssumes ==
    ASSUME Plain, IInv, BInv, StoredInv, WorkInv, LabelInv, FitInv, SnapshotCovers,
           NEW p \in Pods, NEW n \in Nodes, AssumeOn(p, n)
    PROVE  FitInv'
<1> DEFINE o == [cycle EXCEPT !.node = n]
<1>0. CacheInv /\ SnapshotInv
  BY DEF IInv
<1>1. /\ cycle # Nil /\ cycle.uid = p /\ podStates[p] = Nil /\ cycle \in PodObject
      /\ snapshot[n] # Nil /\ FitsRequest(Scale(Request(cycle), Kb[p], snapshot[n].node), snapshot[n], n)
  BY <1>0 DEF AssumeOn, SnapshotInv, Objects, FeasibleNodes, Filter
<1>2. o \in AssignedObject /\ o.uid = p /\ o.node = n /\ Raw(p, o) /\ Raw(p, cycle)
  <2>1. n # Nil
    BY NilAssumption
  <2> QED
    BY <1>1, <2>1 DEF PodObject, AssignedObject, WorkInv, Raw
<1>3. podStates' = [podStates EXCEPT ![p] = Cache!NewPodState(o)]
  BY <1>1, <1>2 DEF AssumeOn, Cache!AssumePod
<1> HIDE DEF o
<1>4. /\ podStates'[p] # Nil /\ podStates'[p].pod = o
      /\ \A q \in Pods : q # p => podStates'[q] = podStates[q]
  BY <1>0, <1>2, <1>3, CacheFacts, NewStateType
<1>5. Weight(o, n) = RawCpu(p, n) /\ RawCpu(p, n) \in Nat
  BY <1>2, WeightOf, ConvertedAtMost
<1>6. Scale(Request(cycle), Kb[p], snapshot[n].node) = RawCpu(p, n)
  BY <1>1, <1>2 DEF LabelInv, RawCpu, Raw, Request
<1>7. ASSUME NEW m \in Nodes
      PROVE  SumFunction(Counted(m)') <= Allocatable[m]
  <2>1. /\ IsFiniteSet(OnNode(m)) /\ DOMAIN Counted(m) = OnNode(m)
        /\ \A q \in OnNode(m) : /\ Counted(m)[q] = Weight(podStates[q].pod, m)
                                /\ Counted(m)[q] \in Nat
    BY CountedNat
  <2>2. SumFunction(Counted(m)) <= Allocatable[m]
    BY DEF FitInv
  <2>3. p \notin OnNode(m)
    BY <1>1 DEF OnNode
  <2>4. /\ DOMAIN (Counted(m)') = OnNode(m)'
        /\ \A q \in OnNode(m)' : Counted(m)'[q] = Weight(podStates'[q].pod, m)
    BY DEF Counted, Weight, RequestedBy, Request, RawCpu
  <2>5. OnNode(m)' = IF m = n THEN OnNode(m) \cup {p} ELSE OnNode(m)
    <3>1. ASSUME NEW q \in Pods
          PROVE  q \in OnNode(m)' <=> q \in OnNode(m) \/ (q = p /\ m = n)
      <4>1. CASE q = p
        BY <1>2, <1>4, <2>3, <4>1 DEF OnNode
      <4>2. CASE q # p
        BY <1>4, <4>2 DEF OnNode
      <4> QED
        BY <4>1, <4>2
    <3>2. OnNode(m) \subseteq Pods /\ OnNode(m)' \subseteq Pods
      BY DEF OnNode
    <3> QED
      BY <3>1, <3>2
  <2>6. \A q \in OnNode(m) : q \in Pods /\ q # p /\ podStates'[q] = podStates[q]
    BY <1>4, <2>3 DEF OnNode
  <2> DEFINE f == Counted(m)
             h == Counted(m)'
             S == OnNode(m)
             a == SumFunction(f)
  <2>7. ASSUME NEW q \in S
        PROVE  h[q] = f[q]
    <3>1. q \in OnNode(m)' /\ podStates'[q] = podStates[q]
      BY <2>5, <2>6, <2>7
    <3>2. h[q] = Weight(podStates'[q].pod, m)
      BY <2>4, <3>1
    <3>3. f[q] = Weight(podStates[q].pod, m)
      BY <2>1, <2>7
    <3> QED
      BY <3>1, <3>2, <3>3
  <2>8. CASE m # n
    <3>1. DOMAIN h = S
      BY <2>4, <2>5, <2>8
    <3> HIDE DEF f, h, S
    <3>2. SumFunction(f) = SumFunction(h)
      <4>1. IsFiniteSet(DOMAIN f) /\ DOMAIN f = DOMAIN h
            /\ \A x \in DOMAIN f : f[x] \in Int /\ f[x] = h[x]
        BY <2>1, <2>7, <3>1 DEF f, S
      <4> QED
        BY <4>1, SumEqual
    <3> QED
      BY <2>2, <3>2 DEF f, h
  <2>9. CASE m = n
    <3>1. DOMAIN h = S \cup {p} /\ h[p] = Weight(o, n)
      BY <1>4, <2>4, <2>5, <2>9
    <3> HIDE DEF f, h, S
    <3>2. SumFunction(h) = a + h[p] /\ a \in Int
      <4>1. IsFiniteSet(DOMAIN f) /\ DOMAIN f = S /\ \A x \in DOMAIN f : f[x] \in Int
        BY <2>1 DEF f, S
      <4>2. p \notin DOMAIN f /\ DOMAIN h = DOMAIN f \cup {p} /\ h[p] \in Int
            /\ \A x \in DOMAIN f : h[x] = f[x]
        BY <1>5, <2>3, <2>7, <3>1, <4>1 DEF S
      <4> QED
        BY <4>1, <4>2, SumAdd, SumType
    <3> DEFINE r == RawCpu(p, n)
               t == HiceNodeRequestedMilliCPU(snapshot[n])
    <3>3. a <= t /\ t \in Int
      BY <1>1, <2>9, SnapshotTotal DEF f
    <3>4. r # 0 => r + t <= Allocatable[n]
      BY <1>1, <1>6 DEF FitsRequest
    <3>5. a <= Allocatable[n] /\ Allocatable[n] \in Int
      BY <2>2, <2>9, SchedulerAssumption DEF f
    <3>6. h[p] = r /\ r \in Nat
      BY <1>5, <3>1
    <3> HIDE DEF a, r, t
    <3>7. a + h[p] <= Allocatable[n]
      BY <3>2, <3>3, <3>4, <3>5, <3>6
    <3> QED
      BY <2>9, <3>2, <3>7 DEF h
  <2> QED
    BY <2>8, <2>9
<1> QED
  BY <1>7 DEF FitInv

\* The totals stay within the nodes.
LEMMA FitStep ==
    ASSUME Plain, Timely, IInv, BInv, IInv', BInv', StoredInv, WorkInv, LabelInv, FitInv,
           SnapshotCovers, [Next]_vars
    PROVE  FitInv'
<1>1. CASE \E p \in Pods : \E n \in Nodes : AssumeOn(p, n)
  BY <1>1, FitAssumes
<1>2. CASE ~\E p \in Pods : \E n \in Nodes : AssumeOn(p, n)
  BY <1>2, ShrinkStep, FitShrinks
<1> QED
  BY <1>1, <1>2

\* During a cycle the snapshot keeps covering the cache.
LEMMA CoverStep ==
    ASSUME Plain, Timely, IInv, BInv, IInv', BInv', StoredInv, WorkInv, NodesInv,
           SnapshotCovers, [Next]_vars
    PROVE  SnapshotCovers'
<1>0. CacheInv
  BY DEF IInv
<1>1. CASE cycle' = Nil
  BY <1>1 DEF SnapshotCovers
<1>2. CASE UNCHANGED <<cycle, snapshot>> /\ \A p \in Pods : Shrinks(p)
  <2> SUFFICES ASSUME cycle' # Nil, NEW n \in Nodes, snapshot'[n] # Nil
               PROVE  /\ IsFiniteSet(snapshot'[n].pods)
                      /\ \A p \in OnNode(n)' : \E o \in snapshot'[n].pods :
                            o.uid = p /\ Weight(podStates'[p].pod, n) <= Weight(o, n)
    BY Zenon DEF SnapshotCovers, Weight, RequestedBy, Request, RawCpu
  <2>1. /\ IsFiniteSet(snapshot[n].pods) /\ snapshot'[n] = snapshot[n]
        /\ \A p \in OnNode(n) : \E o \in snapshot[n].pods :
              o.uid = p /\ Weight(podStates[p].pod, n) <= Weight(o, n)
    BY <1>2 DEF SnapshotCovers
  <2>2. snapshot[n].pods \subseteq AssignedObject
    BY <1>2 DEF IInv, SnapshotInv, Cache!NodeInfo
  <2>3. ASSUME NEW p \in OnNode(n)'
        PROVE  \E o \in snapshot[n].pods :
                  o.uid = p /\ Weight(podStates'[p].pod, n) <= Weight(o, n)
    <3>1. p \in Pods /\ podStates'[p] # Nil /\ podStates'[p].pod.node = n
      BY DEF OnNode
    <3>2. /\ podStates[p] # Nil /\ podStates[p].pod.node = n
          /\ Weight(podStates'[p].pod, n) \in Nat
          /\ Weight(podStates'[p].pod, n) <= Weight(podStates[p].pod, n)
      BY <1>2, <3>1, ShrunkWeight
    <3>3. PICK o \in snapshot[n].pods : o.uid = p /\ Weight(podStates[p].pod, n) <= Weight(o, n)
      BY <2>1, <3>1, <3>2 DEF OnNode
    <3>4. Weight(podStates[p].pod, n) \in Nat /\ Weight(o, n) \in Nat
      BY <1>0, <2>2, <3>1, <3>2, CacheFacts, WeightNat
    <3>5. Weight(podStates'[p].pod, n) <= Weight(o, n)
      BY <3>2, <3>3, <3>4
    <3> QED
      BY <3>3, <3>5
  <2> QED
    BY <2>1, <2>3
<1>3. CASE snapshot' = CacheSnapshot /\ podStates' = podStates
  <2> SUFFICES ASSUME NEW n \in Nodes, snapshot'[n] # Nil
               PROVE  /\ IsFiniteSet(snapshot'[n].pods)
                      /\ \A p \in OnNode(n)' : \E o \in snapshot'[n].pods :
                            o.uid = p /\ Weight(podStates'[p].pod, n) <= Weight(o, n)
    BY Zenon DEF SnapshotCovers, Weight, RequestedBy, Request, RawCpu
  <2>1. snapshot'[n] = nodes[n] /\ nodes[n] # Nil
    BY <1>3 DEF CacheSnapshot
  <2>2. IsFiniteSet(nodes[n].pods)
    BY <1>0, <2>1, ListedFinite
  <2>3. ASSUME NEW p \in OnNode(n)'
        PROVE  \E o \in nodes[n].pods :
                  o.uid = p /\ Weight(podStates[p].pod, n) <= Weight(o, n)
    <3>1. p \in Pods /\ podStates[p] # Nil /\ podStates[p].pod.node = n
      BY <1>3 DEF OnNode
    <3>2. PICK o \in nodes[n].pods : o.uid = p
      <4>1. CacheProofs!ListedIffCached
        BY <1>0 DEF CacheInv, CacheProofs!IInv, CacheProofs!PodsWhereTheyAre
      <4> QED
        BY <3>1, <4>1 DEF CacheProofs!ListedIffCached, CacheProofs!Listed
    <3>3. o.node = n
      <4>1. \A x \in nodes[n].pods : x.node = n
        BY <1>0, <2>1, ListedFacts
      <4> QED
        BY <3>2, <4>1
    <3>4. Raw(p, o) \/ (Converted(p, o, n) /\ p \notin assumedPods)
      BY <2>1, <3>2, <3>3 DEF NodesInv
    <3> DEFINE w == Weight(podStates[p].pod, n)
    <3>5. w \in Nat /\ w <= RawCpu(p, n) /\ (p \notin assumedPods => w = KeptCpu(p, n))
      BY <3>1, CachedWeight
    <3>6. /\ Raw(p, o) => Weight(o, n) = RawCpu(p, n)
          /\ Converted(p, o, n) => Weight(o, n) = KeptCpu(p, n)
      BY <3>1, <3>2, WeightOf
    <3> HIDE DEF w
    <3>7. w <= Weight(o, n)
      BY <3>4, <3>5, <3>6
    <3> QED
      BY <3>2, <3>7 DEF w
  <2> QED
    BY <1>3, <2>1, <2>2, <2>3
<1>4. CASE \E p \in Pods : \E n \in Nodes : AssumeOn(p, n)
  BY <1>1, <1>4 DEF AssumeOn
<1>5. CASE ~\E p \in Pods : \E n \in Nodes : AssumeOn(p, n)
  <2>1. \A p \in Pods : Shrinks(p)
    BY <1>5, ShrinkStep
  <2>2. CASE StartScheduler
    BY <1>1, <2>2 DEF StartScheduler
  <2>3. CASE \E p \in Pods : PopPod(p)
    BY <1>2, <1>3, <2>1, <2>3 DEF PopPod, cacheVars
  <2>4. CASE \E p \in Pods : ScheduleFails(p)
    BY <1>1, <2>4 DEF ScheduleFails
  <2>5. CASE \/ \E p \in Pods : \/ BindConvert(p) \/ BindGet(p)
                                \/ BindPut(p) \/ BindDone(p) \/ BindFailed(p) \/ BindError(p)
                                \/ Deliver(p) \/ Relist(p) \/ ExpireAssumed(p)
                                \/ MarkDeleted(p) \/ RemoveDeleted(p) \/ RunPod(p)
             \/ \E n \in Nodes : LeaveCluster(n) \/ JoinCluster(n)
             \/ UNCHANGED vars
    <3>1. UNCHANGED <<cycle, snapshot>>
      BY <2>5 DEF BindConvert, BindGet, BindPut, BindDone, BindFailed, BindError, Deliver, Relist,
           ExpireAssumed, MarkDeleted, RemoveDeleted, RunPod, LeaveCluster, JoinCluster, vars,
           schedVars
    <3> QED
      BY <1>2, <2>1, <3>1
  <2> QED
    BY <1>5, <2>2, <2>3, <2>4, <2>5, Steps, Zenon
<1> QED
  BY <1>4, <1>5

-----------------------------------------------------------------------------
(* The theorems.                                                           *)

\* The first state: no pod is bound, assumed or queued.
LEMMA InitCapacity ==
    ASSUME Plain
    PROVE  Init => CInv
<1> SUFFICES ASSUME Init PROVE CInv
  OBVIOUS
<1>1. /\ etcd = [p \in Pods |-> NewPod(p)] /\ watch = [p \in Pods |-> <<NewPod(p)>>]
      /\ informer = [p \in Pods |-> Nil] /\ queue = [p \in Pods |-> Nil]
      /\ podStates = [p \in Pods |-> Nil] /\ assumedPods = {} /\ cycle = Nil
      /\ nodes = [n \in Nodes |-> [node |-> InitialKj[n], pods |-> {}, requested |-> 0]]
      /\ snapshot = [n \in Nodes |-> Nil] /\ binding = [p \in Pods |-> Nil]
  BY DEF Init
<1>2. StoredInv
  <2>1. ASSUME NEW p \in Pods
        PROVE  NewPod(p) \in StoredOf(p) /\ Nil \in StoredOf(p)
    <3>1. NewPod(p) \in ObjectsOf(p)
      BY NewPodType
    <3>2. NewPod(p).node = Nil /\ Raw(p, NewPod(p))
      BY DEF NewPod, Raw, Plain
    <3> QED
      BY <3>1, <3>2 DEF StoredOf, ObjectsOf
  <2> HIDE DEF NewPod
  <2>2. ASSUME NEW p \in Pods
        PROVE  /\ etcd[p] \in StoredOf(p) /\ informer[p] \in StoredOf(p)
               /\ queue[p] \in StoredOf(p) /\ watch[p] \in Seq(StoredOf(p))
    BY <1>1, <2>1
  <2> QED
    BY <2>2 DEF StoredInv
<1>3. WorkInv /\ LabelInv /\ SnapshotCovers
  BY <1>1 DEF WorkInv, LabelInv, SnapshotCovers
<1>4. NodesInv
  BY <1>1 DEF NodesInv
<1>5. FitInv
  <2>1. ASSUME NEW n \in Nodes
        PROVE  SumFunction(Counted(n)) <= Allocatable[n]
    <3>1. DOMAIN Counted(n) = {}
      BY <1>1 DEF Counted, OnNode
    <3>2. SumFunction(Counted(n)) = 0
      BY <3>1, SumEmpty
    <3> QED
      BY <3>2, SchedulerAssumption
  <2> QED
    BY <2>1 DEF FitInv
<1> QED
  BY <1>2, <1>3, <1>4, <1>5 DEF CInv

\* All the invariants hold in every state.
LEMMA CapacityInvariant ==
    ASSUME Timely, Plain
    PROVE  Spec => [](IInv /\ BInv /\ CInv)
<1>1. IInv /\ IInv' /\ BInv /\ BInv' /\ CInv /\ [Next]_vars => CInv'
  BY StoredStep, WorkStep, NodesStep, LabelStep, FitStep, CoverStep DEF CInv
<1> QED
  BY <1>1, BindingInvariant, InitCapacity, PTL DEF Spec

\* A pod that is bound in etcd is in the cache, on its node.
LEMMA BoundIsCached ==
    ASSUME Plain, IInv, BInv, CInv, NEW n \in Nodes, NEW p \in BoundTo(n)
    PROVE  /\ p \in OnNode(n)
           /\ Request(etcd[p]) = ConvertedCpu(p, n) /\ Request(etcd[p]) \in Nat
           /\ KeptCpu(p, n) <= Weight(podStates[p].pod, n)
<1>1. p \in Pods /\ AssignedPod(etcd[p]) /\ etcd[p].node = n
  BY DEF BoundTo
<1>2. StoreInv /\ StoredInv /\ WorkInv
  BY DEF IInv, CInv
<1>3. LastEvent(p) \in 0..LastEvent(p) /\ Event(p, LastEvent(p)) = etcd[p]
  BY <1>1, <1>2, EventTypes DEF BInv, PodInv, EventsCurrent
<1>4. podStates[p] # Nil /\ podStates[p].pod.node = n
  BY <1>1, <1>3 DEF BInv, PodInv, EventsCached
<1>5. Converted(p, etcd[p], n) /\ etcd[p].uid = p
  BY <1>1, <1>2 DEF StoredInv, StoredOf, ObjectsOf, AssignedPod
<1>6. Request(etcd[p]) = ConvertedCpu(p, n) /\ ConvertedCpu(p, n) \in Nat
  BY <1>1, <1>5, WeightOf, ConvertedAtMost
<1>7. KeptCpu(p, n) <= Weight(podStates[p].pod, n)
  BY <1>1, <1>2, <1>4, CachedWeight
<1> QED
  BY <1>1, <1>4, <1>6, <1>7 DEF OnNode

\* What is kept of the requests of the pods that are bound to a node.
KeptOn(n) == [p \in BoundTo(n) |-> KeptCpu(p, n)]

\* What the bound pods of a node ask for exceeds what was charged for them by at most
\* what was rounded off.
LEMMA BoundOverCharge ==
    ASSUME Plain, IInv, BInv, CInv, NEW n \in Nodes
    PROVE  /\ IsFiniteSet(BoundTo(n)) /\ On(KeptOn(n), BoundTo(n)) = KeptOn(n)
           /\ \A p \in BoundTo(n) : KeptOn(n)[p] \in Nat
           /\ SumFunction(KeptOn(n)) \in Int /\ BoundRequests(n) \in Int
           /\ Cardinality(RoundedOff(n)) \in Nat
           /\ BoundRequests(n) <= SumFunction(KeptOn(n)) + Cardinality(RoundedOff(n))
<1> DEFINE S == BoundTo(n)
           R == RoundedOff(n)
           f == [p \in S |-> Request(etcd[p])]
           g == KeptOn(n)
<1>1. S \subseteq Pods /\ R \in SUBSET S
  BY DEF BoundTo, RoundedOff
<1>2. IsFiniteSet(S) /\ IsFiniteSet(R)
  BY <1>1, SchedulerAssumption, FS_Subset
<1>3. ASSUME NEW p \in S
      PROVE  /\ f[p] \in Nat /\ g[p] \in Nat /\ f[p] <= g[p] + 1
             /\ p \notin R => f[p] <= g[p]
  <2>1. f[p] = ConvertedCpu(p, n) /\ g[p] = KeptCpu(p, n) /\ p \in Pods
    BY <1>1, <1>3, BoundIsCached DEF KeptOn
  <2>2. Short(p, n) <=> p \in R
    <3>1. Request(NewPod(p)) = ComputePodResourceRequest(Containers[p], InitCpu[p], Overhead[p])
      BY DEF Request, NewPod
    <3> QED
      BY <1>3, <3>1 DEF Short, RoundedOff
  <2>3. /\ ConvertedCpu(p, n) \in Nat /\ KeptCpu(p, n) \in Nat
        /\ ConvertedCpu(p, n) <= KeptCpu(p, n) + 1
        /\ ~Short(p, n) => ConvertedCpu(p, n) = KeptCpu(p, n)
    BY <2>1, ConvertedAtMost
  <2> QED
    BY <2>1, <2>2, <2>3
<1>4. BoundRequests(n) = SumFunction(f) /\ On(f, S) = f /\ On(g, S) = g
  BY DEF BoundRequests, On, KeptOn
<1>5. DOMAIN f = S /\ DOMAIN g = S
  BY DEF KeptOn
<1> HIDE DEF S, R, f, g
<1>6. SumFunction(On(f, S)) <= SumFunction(On(g, S)) + Cardinality(R)
  <2>1. \A x \in S : f[x] \in Int /\ g[x] \in Int
    BY <1>3
  <2>2. (\A x \in R : f[x] <= g[x] + 1) /\ \A x \in S \ R : f[x] <= g[x]
    BY <1>1, <1>3
  <2> QED
    BY <1>1, <1>2, <2>1, <2>2, SumSlack
<1>7. SumFunction(f) \in Int /\ SumFunction(g) \in Int
  BY <1>2, <1>3, <1>5, SumType
<1>8. Cardinality(R) \in Nat
  BY <1>2, FS_CardinalityType
<1> QED
  BY <1>2, <1>3, <1>4, <1>6, <1>7, <1>8 DEF S, R, g

\* A listed pod is counted for at least what is kept of its converted request.
LEMMA ListedWeight ==
    ASSUME Plain, IInv, BInv, CInv, NEW n \in Nodes, NEW p \in OnNode(n)
    PROVE  /\ nodes[n] # Nil
           /\ \E o \in nodes[n].pods : o.uid = p /\ KeptCpu(p, n) <= RequestedBy(o, InitialKj[n])
<1>1. CacheInv /\ NodesInv
  BY DEF IInv, CInv
<1>2. p \in Pods /\ podStates[p] # Nil /\ podStates[p].pod.node = n
  BY DEF OnNode
<1>3. nodes[n] # Nil /\ \E o \in nodes[n].pods : o.uid = p
  <2>1. CacheProofs!ListedIffCached
    BY <1>1 DEF CacheInv, CacheProofs!IInv, CacheProofs!PodsWhereTheyAre
  <2> QED
    BY <1>2, <2>1 DEF CacheProofs!ListedIffCached, CacheProofs!Listed
<1>4. PICK o \in nodes[n].pods : o.uid = p
  BY <1>3
<1>5. \A x \in nodes[n].pods : x.node = n /\ x \in AssignedObject
  BY <1>1, <1>3, ListedFacts
<1>6. o.node = n /\ o \in AssignedObject
  BY <1>4, <1>5
<1>7. Raw(p, o) \/ Converted(p, o, n)
  BY <1>1, <1>3, <1>4, <1>6 DEF NodesInv
<1>8. /\ Raw(p, o) => Weight(o, n) = RawCpu(p, n)
      /\ Converted(p, o, n) => Weight(o, n) = KeptCpu(p, n)
  BY <1>2, <1>4, WeightOf
<1>9. RawCpu(p, n) \in Nat /\ KeptCpu(p, n) \in Nat /\ KeptCpu(p, n) <= RawCpu(p, n)
  BY <1>2, ConvertedAtMost
<1>10. KeptCpu(p, n) <= Weight(o, n)
  BY <1>7, <1>8, <1>9
<1>11. /\ Weight(o, n) \in Nat /\ RequestedBy(o, InitialKj[n]) \in Nat
       /\ Weight(o, n) <= RequestedBy(o, InitialKj[n])
  BY <1>6, WeightNat
<1>12. KeptCpu(p, n) <= RequestedBy(o, InitialKj[n])
  BY <1>9, <1>10, <1>11
<1> QED
  BY <1>3, <1>4, <1>12

\* What fitsRequest would read off the cache covers what etcd holds, but for one
\* milli-CPU for each pod whose total float64 rounded off, at every moment between a
\* write of etcd and its event, for any number of pods, nodes and bindings in flight.
\* Timely and Plain are what the code relies on without ensuring it.
THEOREM CacheCountsEnough ==
    ASSUME Timely, Plain
    PROVE  Spec => []CacheNeverUndercounts
<1>1. IInv /\ BInv /\ CInv => CacheNeverUndercounts
  <2> SUFFICES ASSUME IInv, BInv, CInv, NEW n \in nodeTree
               PROVE  BoundRequests(n) <= HiceNodeRequestedMilliCPU(nodes[n])
                                          + Cardinality(RoundedOff(n))
    BY DEF CacheNeverUndercounts
  <2>0. CacheInv /\ NodesInv
    BY DEF IInv, CInv
  <2>1. n \in Nodes /\ nodes[n] # Nil /\ nodes[n].node # Nil
    BY <2>0, CacheFacts
  <2>2. nodes[n].node = InitialKj[n]
    BY <2>0, <2>1 DEF NodesInv
  <2> DEFINE S == BoundTo(n)
             V == nodes[n].pods
             f == KeptOn(n)
             h == [o \in V |-> RequestedBy(o, InitialKj[n])]
             Fits(p, o) == o.uid = p /\ KeptCpu(p, n) <= RequestedBy(o, InitialKj[n])
             b == [p \in S |-> CHOOSE o \in V : Fits(p, o)]
  <2>3. /\ IsFiniteSet(S) /\ On(f, S) = f /\ \A p \in S : f[p] \in Nat
        /\ SumFunction(f) \in Int /\ BoundRequests(n) \in Int
        /\ Cardinality(RoundedOff(n)) \in Nat
        /\ BoundRequests(n) <= SumFunction(f) + Cardinality(RoundedOff(n))
    BY <2>1, BoundOverCharge
  <2>4. \A p \in S : \E o \in V : Fits(p, o)
    <3>1. \A p \in S : p \in OnNode(n)
      BY <2>1, BoundIsCached
    <3> QED
      BY <2>1, <3>1, ListedWeight
  <2>5. IsFiniteSet(V)
    BY <2>0, <2>1, ListedFinite
  <2>6. \A o \in V : h[o] = RequestedBy(o, InitialKj[n]) /\ h[o] \in Nat
    BY <2>0, <2>1, ListedFacts, WeightNat
  <2>7. ASSUME NEW p \in S
        PROVE  b[p] \in V /\ Fits(p, b[p])
    BY <2>4, <2>7, Zenon
  <2>8. /\ HiceNodeRequestedMilliCPU(nodes[n]) = SumFunction(h) /\ On(h, V) = h
        /\ DOMAIN h = V /\ \A p \in S : f[p] = KeptCpu(p, n)
    BY <2>2 DEF HiceNodeRequestedMilliCPU, On, KeptOn
  <2>9. b = [p \in S |-> b[p]]
    OBVIOUS
  <2> HIDE DEF S, V, f, h, b
  <2>10. /\ b \in [S -> V] /\ (\A x, y \in S : b[x] = b[y] => x = y)
         /\ \A x \in S : f[x] <= h[b[x]]
    BY <2>6, <2>7, <2>8, <2>9
  <2>11. SumFunction(On(f, S)) <= SumFunction(On(h, V))
    <3>1. (\A x \in S : f[x] \in Int) /\ \A y \in V : h[y] \in Nat
      BY <2>3, <2>6
    <3> QED
      BY <2>3, <2>5, <2>10, <3>1, SumAtMost
  <2>12. SumFunction(h) \in Int
    <3>1. IsFiniteSet(DOMAIN h) /\ \A x \in DOMAIN h : h[x] \in Int
      BY <2>5, <2>6, <2>8
    <3> QED
      BY <3>1, SumType
  <2> QED
    BY <2>3, <2>8, <2>11, <2>12
<1> QED
  BY <1>1, CapacityInvariant, PTL

\* What the guarantee the README gives for Hicev2 comes to: the pods bound to a node
\* request no more CPU than it has to give, but for one milli-CPU for each pod whose total
\* float64 rounded off, although Bind converts requests after Filter counted them,
\* several bindings are in flight at once, and etcd errors, crashes, relists, deletions
\* and changes of the cluster interfere.
THEOREM CapacityIsKept ==
    ASSUME Timely, Plain
    PROVE  Spec => []CapacityKept
<1>1. IInv /\ BInv /\ CInv => CapacityKept
  <2> SUFFICES ASSUME IInv, BInv, CInv, NEW n \in Nodes
               PROVE  BoundRequests(n) <= Allocatable[n] + Cardinality(RoundedOff(n))
    BY DEF CapacityKept
  <2>0. StoredInv /\ WorkInv /\ FitInv
    BY DEF CInv
  <2> DEFINE S == BoundTo(n)
             V == OnNode(n)
             f == KeptOn(n)
             h == Counted(n)
             b == [p \in S |-> p]
  <2>1. /\ IsFiniteSet(V) /\ DOMAIN h = V /\ On(h, V) = h
        /\ \A p \in V : h[p] = Weight(podStates[p].pod, n) /\ h[p] \in Nat
    BY <2>0, CountedNat
  <2>2. /\ IsFiniteSet(S) /\ On(f, S) = f /\ \A p \in S : f[p] \in Nat
        /\ SumFunction(f) \in Int /\ BoundRequests(n) \in Int
        /\ Cardinality(RoundedOff(n)) \in Nat
        /\ BoundRequests(n) <= SumFunction(f) + Cardinality(RoundedOff(n))
    BY BoundOverCharge
  <2>3. \A p \in S : p \in V /\ f[p] <= Weight(podStates[p].pod, n)
    BY BoundIsCached DEF KeptOn
  <2>4. SumFunction(h) <= Allocatable[n]
    BY <2>0 DEF FitInv
  <2> HIDE DEF S, V, f, h
  <2>5. b \in [S -> V] /\ (\A x, y \in S : b[x] = b[y] => x = y) /\ \A x \in S : f[x] <= h[b[x]]
    BY <2>1, <2>3
  <2> HIDE DEF b
  <2>6. (\A x \in S : f[x] \in Int) /\ \A y \in V : h[y] \in Nat
    BY <2>1, <2>2
  <2>7. SumFunction(On(f, S)) <= SumFunction(On(h, V))
    BY <2>1, <2>2, <2>5, <2>6, SumAtMost
  <2>8. SumFunction(h) \in Int /\ Allocatable[n] \in Int
    <3>1. IsFiniteSet(DOMAIN h) /\ \A x \in DOMAIN h : h[x] \in Int
      BY <2>1
    <3> QED
      BY <3>1, SumType, SchedulerAssumption
  <2> QED
    BY <2>1, <2>2, <2>4, <2>7, <2>8
<1> QED
  BY <1>1, CapacityInvariant, PTL
=============================================================================
