------------------------- MODULE HiceSchedulerProofs -------------------------
(***************************************************************************)
(* The scheduler as a whole, for every cluster, whatever fails and whatever*)
(* others do: types, and the coherence of the cache.                       *)
(***************************************************************************)
EXTENDS HiceScheduler, SumTheorems, SequenceTheorems

\* The cache's own proofs, for the objects of this module.
CacheProofs == INSTANCE SchedulerCacheProofs
                  WITH PodObjects <- AssignedObject, NodeObjects <- KjValues, Cpu <- Request

-----------------------------------------------------------------------------
(* What the cache's proofs assume of its objects holds for these objects.  *)

\* The larger of two numbers.
LEMMA MaxOfTwo ==
    ASSUME NEW a \in Int, NEW b \in Int
    PROVE  /\ Max({a, b}) \in {a, b}
           /\ Max({a, b}) >= a /\ Max({a, b}) >= b
<1>1. \E x \in {a, b} : \A y \in {a, b} : x >= y
  <2>1. CASE a >= b
    BY <2>1
  <2>2. CASE b >= a
    BY <2>2
  <2> QED
    BY <2>1, <2>2
<1> DEFINE m == CHOOSE x \in {a, b} : \A y \in {a, b} : x >= y
<1>2. m \in {a, b} /\ \A y \in {a, b} : m >= y
  BY <1>1
<1>3. Max({a, b}) = m
  BY DEF Max
<1> QED
  BY <1>2, <1>3

\* The total request of a sequence of containers.
LEMMA ContainersNat ==
    ASSUME NEW cs \in Seq(Nat)
    PROVE  SumFunction(cs) \in Nat
<1>1. IsFiniteSet(DOMAIN cs) /\ \A i \in DOMAIN cs : cs[i] \in Nat
  BY FS_Interval
<1>2. On(cs, DOMAIN cs) = cs
  BY DEF On
<1> QED
  BY <1>1, <1>2, SumNat

\* The request of a pod is a natural number.
LEMMA RequestNat ==
    ASSUME NEW o \in PodObject
    PROVE  Request(o) \in Nat
<1>1. o.containers \in Seq(Nat) /\ o.init \in Nat /\ Overhead[o.uid] \in Nat
  BY SchedulerAssumption DEF PodObject
<1>2. SumFunction(o.containers) \in Nat
  BY <1>1, ContainersNat
<1>3. Max({SumFunction(o.containers), o.init}) \in {SumFunction(o.containers), o.init}
  <2>1. SumFunction(o.containers) \in Int /\ o.init \in Int
    BY <1>1, <1>2
  <2> QED
    BY <2>1, MaxOfTwo
<1> QED
  BY <1>1, <1>2, <1>3 DEF Request, ComputePodResourceRequest

\* SchedulerCache's ObjectsAssumption.
LEMMA CacheObjects ==
    /\ \A o \in AssignedObject : o.uid \in Pods /\ o.node \in Nodes /\ Request(o) \in Int
    /\ Nil \notin KjValues
<1>1. ASSUME NEW o \in AssignedObject
      PROVE  o.uid \in Pods /\ o.node \in Nodes /\ Request(o) \in Int
  <2>1. o \in PodObject /\ o.node # Nil
    BY DEF AssignedObject
  <2>2. o.uid \in Pods /\ o.node \in Nodes
    BY <2>1 DEF PodObject
  <2>3. Request(o) \in Nat
    BY <2>1, RequestNat
  <2> QED
    BY <2>2, <2>3
<1> QED
  BY <1>1, NilAssumption

\* Both instances of the cache are the same.
LEMMA SameState ==
    /\ Cache!PodState = CacheProofs!PodState
    /\ Cache!NodeInfo = CacheProofs!NodeInfo
    /\ Cache!TypeOK <=> CacheProofs!TypeOK
    /\ Cache!PodsWhereTheyAre <=> CacheProofs!PodsWhereTheyAre
    /\ Cache!AssumedCanExpire <=> CacheProofs!AssumedCanExpire
    /\ Cache!TreeMatchesNodes <=> CacheProofs!TreeMatchesNodes
BY DEF Cache!PodState, CacheProofs!PodState, Cache!NodeInfo, CacheProofs!NodeInfo,
       Cache!TypeOK, CacheProofs!TypeOK, Cache!OnlyAssumedExpire, CacheProofs!OnlyAssumedExpire,
       Cache!PodsWhereTheyAre, CacheProofs!PodsWhereTheyAre,
       Cache!ListedIffCached, CacheProofs!ListedIffCached, Cache!Listed, CacheProofs!Listed,
       Cache!ListedOnce, CacheProofs!ListedOnce, Cache!AssumedCanExpire,
       CacheProofs!AssumedCanExpire, Cache!TreeMatchesNodes, CacheProofs!TreeMatchesNodes

\* ... and so are their operations.
LEMMA SamePodOperations ==
    ASSUME NEW o, NEW o2, NEW uid
    PROVE  /\ Cache!AssumePod(o) <=> CacheProofs!AssumePod(o)
           /\ Cache!ForgetPod(o) <=> CacheProofs!ForgetPod(o)
           /\ Cache!AddPod(o) <=> CacheProofs!AddPod(o)
           /\ Cache!RemovePod(o) <=> CacheProofs!RemovePod(o)
           /\ Cache!UpdatePod(o, o2) <=> CacheProofs!UpdatePod(o, o2)
           /\ Cache!FinishBinding(uid) <=> CacheProofs!FinishBinding(uid)
           /\ Cache!ExpirePod(uid) <=> CacheProofs!ExpirePod(uid)
<1> USE DEF Cache!InfoOf, Cache!NewNodeInfo, Cache!InfoAddPod, Cache!InfoRemovePod,
       Cache!KeepOrDrop, Cache!addPod, Cache!removePod, Cache!updatePod, Cache!Removable,
       Cache!Listed, Cache!NewPodState, Cache!IsAssumedPod, Cache!IsAddedPod, Cache!vars,
       CacheProofs!InfoOf, CacheProofs!NewNodeInfo, CacheProofs!InfoAddPod,
       CacheProofs!InfoRemovePod, CacheProofs!KeepOrDrop, CacheProofs!addPod,
       CacheProofs!removePod, CacheProofs!updatePod, CacheProofs!Removable, CacheProofs!Listed,
       CacheProofs!NewPodState, CacheProofs!IsAssumedPod, CacheProofs!IsAddedPod,
       CacheProofs!vars
<1>1. Cache!AssumePod(o) <=> CacheProofs!AssumePod(o)
  BY DEF Cache!AssumePod, CacheProofs!AssumePod
<1>2. Cache!ForgetPod(o) <=> CacheProofs!ForgetPod(o)
  BY DEF Cache!ForgetPod, CacheProofs!ForgetPod, Cache!Forgettable, CacheProofs!Forgettable
<1>3. Cache!AddPod(o) <=> CacheProofs!AddPod(o)
  BY DEF Cache!AddPod, CacheProofs!AddPod, Cache!ConfirmPod, CacheProofs!ConfirmPod
<1>4. Cache!RemovePod(o) <=> CacheProofs!RemovePod(o)
  BY DEF Cache!RemovePod, CacheProofs!RemovePod, Cache!Deletable, CacheProofs!Deletable,
     Cache!CorruptedBy, CacheProofs!CorruptedBy, Cache!NamesOtherNode, CacheProofs!NamesOtherNode
<1>5. Cache!UpdatePod(o, o2) <=> CacheProofs!UpdatePod(o, o2)
  BY DEF Cache!UpdatePod, CacheProofs!UpdatePod, Cache!Updatable, CacheProofs!Updatable,
     Cache!CorruptedBy, CacheProofs!CorruptedBy, Cache!NamesOtherNode, CacheProofs!NamesOtherNode
<1>6. Cache!FinishBinding(uid) <=> CacheProofs!FinishBinding(uid)
  BY DEF Cache!FinishBinding, CacheProofs!FinishBinding
<1>7. Cache!ExpirePod(uid) <=> CacheProofs!ExpirePod(uid)
  BY DEF Cache!ExpirePod, CacheProofs!ExpirePod
<1> QED
  BY <1>1, <1>2, <1>3, <1>4, <1>5, <1>6, <1>7

\* The operations on nodes are the same in the two instances of the cache.
LEMMA SameNodeOperations ==
    ASSUME NEW n, NEW obj
    PROVE  /\ Cache!AddNode(n, obj) <=> CacheProofs!AddNode(n, obj)
           /\ Cache!UpdateNode(n, obj) <=> CacheProofs!UpdateNode(n, obj)
           /\ Cache!RemoveNode(n) <=> CacheProofs!RemoveNode(n)
BY DEF Cache!AddNode, CacheProofs!AddNode, Cache!UpdateNode, CacheProofs!UpdateNode,
       Cache!RemoveNode, CacheProofs!RemoveNode, Cache!InfoSetNode, CacheProofs!InfoSetNode,
       Cache!InfoOf, CacheProofs!InfoOf, Cache!NewNodeInfo, CacheProofs!NewNodeInfo,
       Cache!KeepOrDrop, CacheProofs!KeepOrDrop, Cache!vars, CacheProofs!vars

\* SchedulerCache's NilAssumption.
LEMMA CacheNil == Nil \notin CacheProofs!PodState /\ Nil \notin CacheProofs!NodeInfo
BY NilAssumption, SameState

-----------------------------------------------------------------------------
(* The inductive invariant, in parts.                                      *)

Objects == PodObject \cup {Nil}

\* The values of the key of a pod.
ObjectsOf(p) == {o \in PodObject : o.uid = p} \cup {Nil}

\* Every store holds objects of the pod under its key.
StoreInv ==
    /\ etcd \in [Pods -> Objects] /\ informer \in [Pods -> Objects] /\ queue \in [Pods -> Objects]
    /\ DOMAIN watch = Pods
    /\ \A p \in Pods :
          /\ etcd[p] \in ObjectsOf(p) /\ informer[p] \in ObjectsOf(p) /\ queue[p] \in ObjectsOf(p)
          /\ watch[p] \in Seq(ObjectsOf(p))

\* The goroutines of a pod.
BindingOf(p) ==
    [pc : {"convert", "get", "put", "done", "failed"},
     pod : {o \in AssignedObject : o.uid = p}, containers : Seq(Nat), read : ObjectsOf(p)]

SnapshotInv ==
    /\ snapshot \in [Nodes -> Cache!NodeInfo \cup {Nil}]
    /\ \A n \in Nodes : snapshot[n] # Nil => snapshot[n].node # Nil
    /\ cycle \in Objects
    /\ faults \in 0..MaxFaults

BindingInv ==
    /\ binding \in [Pods -> Goroutine \cup {Nil}]
    /\ \A p \in Pods : binding[p] # Nil =>
          /\ binding[p] \in BindingOf(p)
          /\ binding[p].pc = "put" => binding[p].read # Nil

CacheInv == CacheProofs!IInv

\* An added pod is on the node its last event named: the old object of an update is
\* the one the cache has, as far as its node goes.
AddedIsSeen ==
    ~fatal => \A p \in Pods : Cache!IsAddedPod(p) =>
        AssignedPod(informer[p]) /\ informer[p].node = podStates[p].pod.node

IInv == StoreInv /\ SnapshotInv /\ BindingInv /\ CacheInv /\ AddedIsSeen

-----------------------------------------------------------------------------
(* The stores.                                                             *)

\* A goroutine of a pod is a goroutine.
LEMMA GoroutineType ==
    ASSUME NEW p \in Pods, NEW b \in BindingOf(p)
    PROVE  b \in Goroutine /\ b # Nil
<1>1. ObjectsOf(p) \subseteq PodObject \cup {Nil}
  BY DEF ObjectsOf
<1>2. b \in Goroutine
  BY <1>1 DEF BindingOf, Goroutine
<1> QED
  BY <1>2, NilAssumption

\* A pod as it is created.
LEMMA NewPodType ==
    ASSUME NEW p \in Pods
    PROVE  NewPod(p) \in PodObject /\ NewPod(p).uid = p /\ NewPod(p) \in ObjectsOf(p)
<1>1. Containers[p] \in Seq(Nat) /\ InitCpu[p] \in Nat
  BY SchedulerAssumption
<1>2. NewPod(p) \in PodObject
  <2>1. (p \in Annotated) \in BOOLEAN /\ FALSE \in BOOLEAN /\ Nil \in Nodes \cup {Nil}
        /\ <<>> \in Seq(BOOLEAN)
    OBVIOUS
  <2> QED
    BY <1>1, <2>1, Zenon DEF NewPod, PodObject
<1>3. NewPod(p).uid = p
  BY DEF NewPod
<1> QED
  BY <1>2, <1>3 DEF ObjectsOf

\* What the writes to a pod change.
LEMMA ChangedObject ==
    ASSUME NEW p \in Pods, NEW o \in ObjectsOf(p), o # Nil
    PROVE  /\ [o EXCEPT !.deleting = TRUE] \in ObjectsOf(p)
           /\ [o EXCEPT !.annotated = TRUE] \in ObjectsOf(p)
           /\ [o EXCEPT !.running = TRUE] \in ObjectsOf(p)
           /\ PatchScheduledFalse(o) \in ObjectsOf(p)
           /\ [o EXCEPT !.deleting = TRUE].node = o.node
           /\ [o EXCEPT !.annotated = TRUE].node = o.node
           /\ [o EXCEPT !.running = TRUE].node = o.node
           /\ PatchScheduledFalse(o).node = o.node
           /\ Nil \notin {[o EXCEPT !.deleting = TRUE], [o EXCEPT !.annotated = TRUE],
                          [o EXCEPT !.running = TRUE], PatchScheduledFalse(o)}
<1>1. o \in PodObject /\ o.uid = p
  BY DEF ObjectsOf
<1>2. /\ [o EXCEPT !.deleting = TRUE] \in PodObject
      /\ [o EXCEPT !.deleting = TRUE].uid = p /\ [o EXCEPT !.deleting = TRUE].node = o.node
  BY <1>1 DEF PodObject
<1>3. /\ [o EXCEPT !.annotated = TRUE] \in PodObject
      /\ [o EXCEPT !.annotated = TRUE].uid = p /\ [o EXCEPT !.annotated = TRUE].node = o.node
  BY <1>1 DEF PodObject
<1>4. /\ [o EXCEPT !.running = TRUE] \in PodObject
      /\ [o EXCEPT !.running = TRUE].uid = p /\ [o EXCEPT !.running = TRUE].node = o.node
  BY <1>1 DEF PodObject
<1>5. /\ PatchScheduledFalse(o) \in PodObject
      /\ PatchScheduledFalse(o).uid = p /\ PatchScheduledFalse(o).node = o.node
  <2> DEFINE c == IF o.scheduled = <<>> THEN <<FALSE>> ELSE [o.scheduled EXCEPT ![1] = FALSE]
  <2>1. o.scheduled \in Seq(BOOLEAN)
    BY <1>1 DEF PodObject
  <2>2. c \in Seq(BOOLEAN)
    <3>1. CASE o.scheduled = <<>>
      BY <3>1
    <3>2. CASE o.scheduled # <<>>
      BY <2>1, <3>2
    <3> QED
      BY <3>1, <3>2
  <2>3. PatchScheduledFalse(o) = [o EXCEPT !.scheduled = c]
    BY DEF PatchScheduledFalse
  <2> HIDE DEF c
  <2> QED
    BY <1>1, <2>2, <2>3 DEF PodObject
<1> QED
  BY <1>1, <1>2, <1>3, <1>4, <1>5, NilAssumption DEF ObjectsOf

\* The object a goroutine writes.
LEMMA BoundObject ==
    ASSUME NEW p \in Pods, NEW b \in BindingOf(p), b.read # Nil
    PROVE  BoundPod(b) \in ObjectsOf(p) /\ BoundPod(b) # Nil /\ BoundPod(b).node = b.pod.node
<1>1. b.read \in PodObject /\ b.read.uid = p /\ b.containers \in Seq(Nat)
  BY DEF BindingOf, ObjectsOf
<1>2. b.pod.node \in Nodes
  BY CacheObjects DEF BindingOf
<1>3. Append(b.read.scheduled, TRUE) \in Seq(BOOLEAN)
  BY <1>1 DEF PodObject
<1> DEFINE c == Append(b.read.scheduled, TRUE)
           n == b.pod.node
           k == b.containers
           o == b.read
<1>4. BoundPod(b) = [o EXCEPT !.containers = k, !.node = n, !.scheduled = c, !.annotated = TRUE]
  BY DEF BoundPod
<1> HIDE DEF c, n, k, o
<1>5. /\ o \in PodObject /\ o.uid = p /\ n \in Nodes \cup {Nil} /\ k \in Seq(Nat)
      /\ c \in Seq(BOOLEAN)
  BY <1>1, <1>2, <1>3 DEF o, n, k, c
<1>6. /\ BoundPod(b) \in PodObject /\ BoundPod(b).uid = p /\ BoundPod(b).node = n
  BY <1>4, <1>5 DEF PodObject
<1> QED
  BY <1>6, NilAssumption DEF ObjectsOf, n

\* A write to etcd and its event keep the stores well formed.
LEMMA WriteKeeps ==
    ASSUME StoreInv, NEW p \in Pods, NEW o \in ObjectsOf(p), WriteEtcd(p, o),
           UNCHANGED informer,
           queue' = queue \/ (\E v \in ObjectsOf(p) : queue' = [queue EXCEPT ![p] = v])
    PROVE  StoreInv'
<1>1. ObjectsOf(p) \subseteq Objects
  BY DEF ObjectsOf, Objects
<1>2. etcd' \in [Pods -> Objects] /\ \A q \in Pods : etcd'[q] \in ObjectsOf(q)
  BY <1>1 DEF StoreInv, WriteEtcd
<1>3. queue' \in [Pods -> Objects] /\ \A q \in Pods : queue'[q] \in ObjectsOf(q)
  BY <1>1 DEF StoreInv
<1>4. Append(watch[p], o) \in Seq(ObjectsOf(p))
  BY DEF StoreInv
<1>5. DOMAIN watch' = Pods /\ \A q \in Pods : watch'[q] \in Seq(ObjectsOf(q))
  BY <1>4 DEF StoreInv, WriteEtcd
<1> QED
  BY <1>2, <1>3, <1>5 DEF StoreInv

\* Recording a failure keeps them well formed.
LEMMA RecordKeeps ==
    ASSUME StoreInv, NEW p \in Pods, RecordSchedulingFailure(p), UNCHANGED informer
    PROVE  StoreInv'
<1>1. queue' = queue \/ (\E v \in ObjectsOf(p) : queue' = [queue EXCEPT ![p] = v])
  BY DEF RecordSchedulingFailure, StoreInv
<1>2. CASE etcd[p] = Nil
  <2>1. queue' \in [Pods -> Objects] /\ \A q \in Pods : queue'[q] \in ObjectsOf(q)
    BY <1>1 DEF StoreInv, ObjectsOf, Objects
  <2> QED
    BY <1>2, <2>1 DEF StoreInv, RecordSchedulingFailure, apiVars
<1>3. CASE etcd[p] # Nil
  <2>1. PatchScheduledFalse(etcd[p]) \in ObjectsOf(p)
    BY <1>3, ChangedObject DEF StoreInv
  <2> QED
    BY <1>1, <1>3, <2>1, WriteKeeps DEF RecordSchedulingFailure
<1> QED
  BY <1>2, <1>3

-----------------------------------------------------------------------------
(* The cache.                                                              *)

\* A call of an operation on pods keeps the cache's invariant.
LEMMA PodCall ==
    ASSUME CacheInv,
           \/ \E o \in AssignedObject :
                 \/ Cache!AssumePod(o) \/ Cache!ForgetPod(o)
                 \/ Cache!AddPod(o) \/ Cache!RemovePod(o)
           \/ \E old, new \in AssignedObject :
                 old.uid = new.uid /\ old.node = new.node /\ Cache!UpdatePod(old, new)
           \/ \E uid \in Pods : Cache!FinishBinding(uid) \/ Cache!ExpirePod(uid)
    PROVE  CacheInv'
<1>1. CacheProofs!PodOperation
  BY SamePodOperations, Zenon DEF CacheProofs!PodOperation
<1> QED
  BY <1>1, CacheProofs!PodOperationStep, CacheObjects, CacheNil DEF CacheInv

\* A call of an operation on nodes keeps it.
LEMMA NodeCall ==
    ASSUME CacheInv, NEW n \in Nodes,
           \/ \E obj \in KjValues : Cache!AddNode(n, obj)
           \/ \E obj \in KjValues : n \in nodeTree /\ Cache!UpdateNode(n, obj)
           \/ Cache!RemoveNode(n)
    PROVE  CacheInv'
<1>1. CacheProofs!NodeOperation
  BY SameNodeOperations, Zenon DEF CacheProofs!NodeOperation
<1> QED
  BY <1>1, CacheProofs!NodeOperationStep, CacheObjects, CacheNil DEF CacheInv

\* A step without a call keeps it.
LEMMA CacheUntouched ==
    ASSUME CacheInv, UNCHANGED cacheVars
    PROVE  CacheInv'
BY CacheProofs!Stutter, CacheObjects, CacheNil DEF CacheInv, cacheVars, CacheProofs!vars

\* What the invariant says of the entries of the cache.
LEMMA CacheFacts ==
    ASSUME CacheInv
    PROVE  /\ podStates \in [Pods -> Cache!PodState \cup {Nil}]
           /\ nodes \in [Nodes -> Cache!NodeInfo \cup {Nil}]
           /\ nodeTree \subseteq Nodes /\ assumedPods \subseteq Pods /\ fatal \in BOOLEAN
           /\ \A n \in Nodes : n \in nodeTree <=> (nodes[n] # Nil /\ nodes[n].node # Nil)
           /\ \A p \in Pods : podStates[p] # Nil =>
                 /\ podStates[p].pod \in AssignedObject
                 /\ podStates[p].pod.uid = p /\ podStates[p].pod.node \in Nodes
<1>1. /\ podStates \in [Pods -> Cache!PodState \cup {Nil}]
      /\ nodes \in [Nodes -> Cache!NodeInfo \cup {Nil}]
      /\ nodeTree \subseteq Nodes /\ assumedPods \subseteq Pods /\ fatal \in BOOLEAN
  BY SameState DEF CacheInv, CacheProofs!IInv, CacheProofs!TypeOK
<1>2. \A n \in Nodes : n \in nodeTree <=> (nodes[n] # Nil /\ nodes[n].node # Nil)
  BY DEF CacheInv, CacheProofs!IInv, CacheProofs!TreeMatchesNodes
<1>3. ASSUME NEW p \in Pods, podStates[p] # Nil
      PROVE  /\ podStates[p].pod \in AssignedObject
             /\ podStates[p].pod.uid = p /\ podStates[p].pod.node \in Nodes
  BY <1>1, <1>3, CacheObjects
     DEF CacheInv, CacheProofs!IInv, CacheProofs!KeyedByUid, Cache!PodState
<1> QED
  BY <1>1, <1>2, <1>3

\* The pods a restarted scheduler finds bound to a node.
Bound(n) == {etcd[p] : p \in {q \in Pods : AssignedPod(etcd[q]) /\ etcd[q].node = n}}

\* They are a finite set of objects with a node, and their total is a number.
LEMMA BoundTotal ==
    ASSUME StoreInv, NEW n \in Nodes
    PROVE  /\ Bound(n) \subseteq AssignedObject
           /\ IsFiniteSet(Bound(n))
           /\ SumFunction([o \in Bound(n) |-> Request(o)]) \in Int
<1> DEFINE S == {q \in Pods : AssignedPod(etcd[q]) /\ etcd[q].node = n}
           f == [q \in S |-> etcd[q]]
           r == [o \in Bound(n) |-> Request(o)]
<1>1. Bound(n) \subseteq AssignedObject
  BY DEF Bound, StoreInv, ObjectsOf, AssignedPod, AssignedObject
<1>2. IsFiniteSet(S)
  BY SchedulerAssumption, FS_Subset
<1>3. f \in Surjection(S, Bound(n))
  BY DEF Bound, Surjection
<1>4. IsFiniteSet(Bound(n))
  <2> HIDE DEF f, S
  <2> QED
    BY <1>2, <1>3, FS_Surjection
<1>5. DOMAIN r = Bound(n) /\ \A o \in DOMAIN r : r[o] \in Int
  BY <1>1, CacheObjects
<1> QED
  BY <1>1, <1>4, <1>5, SumType

\* The cache of a restarted scheduler satisfies the cache's invariant.
LEMMA StartedCache ==
    ASSUME StoreInv, CacheInv, StartScheduler
    PROVE  CacheInv' /\ AddedIsSeen'
<1> DEFINE kjOf(n)  == IF nodes[n] = Nil THEN Nil ELSE nodes[n].node
<1>1. ASSUME NEW n \in Nodes
      PROVE  /\ kjOf(n) \in KjValues \cup {Nil}
             /\ kjOf(n) # Nil <=> n \in nodeTree
  BY CacheFacts DEF Cache!NodeInfo
<1>2. nodeTree \subseteq Nodes /\ nodeTree' = nodeTree /\ assumedPods' = {} /\ fatal' = FALSE
  BY CacheFacts DEF StartScheduler
<1>3. CASE "unsynced" \in Faults
  <2>1. podStates' = [p \in Pods |-> Nil]
    BY <1>3 DEF StartScheduler
  <2>2. nodes' = [n \in Nodes |-> IF kjOf(n) = Nil THEN Nil
                               ELSE [node |-> kjOf(n), pods |-> {}, requested |-> 0]]
    BY <1>3 DEF StartScheduler
  <2>3. ASSUME NEW n \in Nodes
        PROVE  /\ nodes'[n] \in Cache!NodeInfo \cup {Nil}
               /\ nodes'[n] # Nil => nodes'[n].pods = {} /\ nodes'[n].node # Nil
               /\ nodes'[n] # Nil <=> n \in nodeTree
    <3> DEFINE ni == [node |-> kjOf(n), pods |-> {}, requested |-> 0]
    <3>1. CASE kjOf(n) = Nil
      BY <1>1, <2>2, <3>1
    <3>2. CASE kjOf(n) # Nil
      <4>1. nodes'[n] = ni
        BY <2>2, <3>2
      <4>2. ni \in Cache!NodeInfo /\ ni.pods = {} /\ ni.node = kjOf(n)
        BY <1>1 DEF Cache!NodeInfo
      <4> HIDE DEF ni
      <4> QED
        BY <1>1, <3>2, <4>1, <4>2, NilAssumption
    <3> QED
      BY <3>1, <3>2
  <2>4. nodes' \in [Nodes -> Cache!NodeInfo \cup {Nil}]
    BY <2>2, <2>3
  <2>5. CacheProofs!TypeOK'
    BY <1>2, <2>1, <2>4, SameState DEF CacheProofs!TypeOK, CacheProofs!OnlyAssumedExpire
  <2>6. CacheProofs!KeyedByUid' /\ CacheProofs!AssumedCanExpire'
    BY <1>2, <2>1 DEF CacheProofs!KeyedByUid, CacheProofs!AssumedCanExpire
  <2>7. CacheProofs!PodsWhereTheyAre'
    BY <2>1, <2>3 DEF CacheProofs!PodsWhereTheyAre, CacheProofs!ListedIffCached,
         CacheProofs!ListedOnce, CacheProofs!Listed
  <2>8. CacheProofs!TreeMatchesNodes'
    BY <1>2, <2>3 DEF CacheProofs!TreeMatchesNodes
  <2>9. AddedIsSeen'
    BY <2>1 DEF AddedIsSeen, Cache!IsAddedPod
  <2> QED
    BY <2>5, <2>6, <2>7, <2>8, <2>9 DEF CacheInv, CacheProofs!IInv
<1>4. CASE "unsynced" \notin Faults
  <2>1. /\ podStates' = [p \in Pods |->
                IF AssignedPod(etcd[p]) THEN Cache!NewPodState(etcd[p]) ELSE Nil]
        /\ informer' = etcd
    BY <1>4 DEF StartScheduler
  <2> DEFINE total(n) == SumFunction([o \in Bound(n) |-> Request(o)])
             info(n) == [node |-> kjOf(n), pods |-> Bound(n), requested |-> total(n)]
  <2>2. nodes' = [n \in Nodes |-> IF Bound(n) = {} /\ kjOf(n) = Nil THEN Nil ELSE info(n)]
    BY <1>4, Zenon DEF StartScheduler, Cache!KeepOrDrop, Bound
  <2>3. ASSUME NEW n \in Nodes
        PROVE  /\ nodes'[n] \in Cache!NodeInfo \cup {Nil}
               /\ nodes'[n] # Nil => nodes'[n].pods = Bound(n) /\ nodes'[n].node = kjOf(n)
               /\ nodes'[n] = Nil <=> Bound(n) = {} /\ kjOf(n) = Nil
    <3>1. info(n) \in Cache!NodeInfo
      BY <1>1, BoundTotal DEF Cache!NodeInfo
    <3>2. info(n).pods = Bound(n) /\ info(n).node = kjOf(n)
      OBVIOUS
    <3>3. info(n) # Nil
      BY <3>1, NilAssumption
    <3>4. nodes'[n] = IF Bound(n) = {} /\ kjOf(n) = Nil THEN Nil ELSE info(n)
      BY <2>2
    <3> HIDE DEF info, kjOf
    <3> QED
      BY <3>1, <3>2, <3>3, <3>4
  <2> HIDE DEF info
  <2>4. nodes' \in [Nodes -> Cache!NodeInfo \cup {Nil}]
    BY <2>2, <2>3
  <2>5. ASSUME NEW p \in Pods
        PROVE  /\ podStates'[p] \in Cache!PodState \cup {Nil}
               /\ podStates'[p] # Nil <=> AssignedPod(etcd[p])
               /\ podStates'[p] # Nil => podStates'[p].pod = etcd[p]
    <3>1. podStates'[p] = IF AssignedPod(etcd[p]) THEN Cache!NewPodState(etcd[p]) ELSE Nil
      BY <2>1
    <3>2. ASSUME AssignedPod(etcd[p])
          PROVE  /\ Cache!NewPodState(etcd[p]) \in Cache!PodState
                 /\ Cache!NewPodState(etcd[p]).pod = etcd[p]
      <4>1. etcd[p] \in AssignedObject
        BY <3>2 DEF AssignedPod, AssignedObject, StoreInv, ObjectsOf
      <4> QED
        BY <4>1, Zenon DEF Cache!NewPodState, Cache!PodState
    <3> QED
      BY <3>1, <3>2, NilAssumption
  <2>6. CacheProofs!TypeOK'
    <3>1. podStates' \in [Pods -> Cache!PodState \cup {Nil}]
      BY <2>1, <2>5
    <3>2. CacheProofs!OnlyAssumedExpire'
      <4>1. ASSUME NEW p \in Pods, podStates'[p] # Nil
            PROVE  ~podStates'[p].deadline
        <5>1. podStates'[p] = Cache!NewPodState(etcd[p])
          BY <2>1, <4>1
        <5>2. Cache!NewPodState(etcd[p]).deadline = FALSE
          BY DEF Cache!NewPodState
        <5> QED
          BY <5>1, <5>2, Zenon
      <4> QED
        BY <4>1 DEF CacheProofs!OnlyAssumedExpire
    <3> QED
      BY <1>2, <2>4, <3>1, <3>2, SameState DEF CacheProofs!TypeOK
  <2>7. CacheProofs!KeyedByUid' /\ CacheProofs!AssumedCanExpire'
    BY <1>2, <2>5 DEF CacheProofs!KeyedByUid, CacheProofs!AssumedCanExpire, StoreInv, ObjectsOf,
         AssignedPod
  <2>8. ASSUME NEW n \in Nodes, NEW uid \in Pods
        PROVE  (\E o \in Bound(n) : o.uid = uid) <=> (AssignedPod(etcd[uid]) /\ etcd[uid].node = n)
    BY DEF Bound, StoreInv, ObjectsOf, AssignedPod
  <2>9. ASSUME NEW n \in Nodes
        PROVE  /\ \A o \in Bound(n) : o.node = n
               /\ \A o1, o2 \in Bound(n) : o1.uid = o2.uid => o1 = o2
    <3>1. \A o \in Bound(n) : o.node = n /\ o = etcd[o.uid]
      BY DEF Bound, StoreInv, ObjectsOf, AssignedPod
    <3> QED
      BY <3>1
  <2>10. CacheProofs!PodsWhereTheyAre'
    <3>1. CacheProofs!ListedIffCached'
      <4> SUFFICES ASSUME NEW n \in Nodes, NEW uid \in Pods
                   PROVE  (nodes'[n] # Nil /\ \E o \in nodes'[n].pods : o.uid = uid)
                             <=> (podStates'[uid] # Nil /\ podStates'[uid].pod.node = n)
        BY DEF CacheProofs!ListedIffCached, CacheProofs!Listed
      <4> QED
        BY <2>3, <2>5, <2>8
    <3>2. CacheProofs!ListedOnce'
      BY <2>3, <2>9 DEF CacheProofs!ListedOnce
    <3> QED
      BY <3>1, <3>2 DEF CacheProofs!PodsWhereTheyAre
  <2>11. CacheProofs!TreeMatchesNodes'
    BY <1>1, <1>2, <2>3 DEF CacheProofs!TreeMatchesNodes
  <2>12. AddedIsSeen'
    BY <2>1, <2>5 DEF AddedIsSeen, Cache!IsAddedPod
  <2> QED
    BY <2>6, <2>7, <2>10, <2>11, <2>12 DEF CacheInv, CacheProofs!IInv
<1> QED
  BY <1>3, <1>4

-----------------------------------------------------------------------------
(* The steps.                                                              *)

\* A step that makes no call and handles no event keeps what it does not touch.
LEMMA NoCall ==
    ASSUME IInv, UNCHANGED <<cacheVars, informer>>,
           StoreInv', SnapshotInv', BindingInv'
    PROVE  IInv'
<1>1. CacheInv'
  BY CacheUntouched DEF IInv
<1>2. AddedIsSeen'
  BY DEF IInv, AddedIsSeen, cacheVars, Cache!IsAddedPod
<1> QED
  BY <1>1, <1>2 DEF IInv

\* Starting the scheduler again establishes the invariant from what the API server has.
LEMMA StartKeeps ==
    ASSUME IInv, StartScheduler, faults' \in 0..MaxFaults
    PROVE  IInv'
<1>1. CacheInv' /\ AddedIsSeen'
  BY StartedCache DEF IInv
<1>2. SnapshotInv'
  <2>1. snapshot' = [n \in Nodes |-> Nil] /\ cycle' = Nil
    BY DEF StartScheduler
  <2> QED
    BY <2>1 DEF SnapshotInv, Objects
<1>3. BindingInv'
  <2>1. binding' = [p \in Pods |-> Nil]
    BY DEF StartScheduler
  <2> QED
    BY <2>1 DEF BindingInv
<1>4. StoreInv'
  <2>1. StoreInv /\ etcd' = etcd
    BY DEF IInv, StartScheduler
  <2>2. CASE "unsynced" \in Faults
    <3>1. /\ informer' = [p \in Pods |-> Nil] /\ queue' = [p \in Pods |-> Nil]
          /\ watch' = [p \in Pods |-> IF etcd[p] = Nil THEN <<>> ELSE <<etcd[p]>>]
      BY <2>2 DEF StartScheduler
    <3>2. ASSUME NEW p \in Pods
          PROVE  watch'[p] \in Seq(ObjectsOf(p))
      <4>1. watch'[p] = IF etcd[p] = Nil THEN <<>> ELSE <<etcd[p]>>
        BY <3>1
      <4>2. etcd[p] \in ObjectsOf(p)
        BY <2>1 DEF StoreInv
      <4>3. <<>> \in Seq(ObjectsOf(p)) /\ <<etcd[p]>> \in Seq(ObjectsOf(p))
        BY <4>2
      <4> QED
        BY <4>1, <4>3
    <3>3. \A p \in Pods : informer'[p] \in ObjectsOf(p) /\ queue'[p] \in ObjectsOf(p)
      BY <3>1 DEF ObjectsOf
    <3>4. informer' \in [Pods -> Objects] /\ queue' \in [Pods -> Objects] /\ DOMAIN watch' = Pods
      BY <3>1 DEF Objects
    <3> QED
      BY <2>1, <3>2, <3>3, <3>4 DEF StoreInv
  <2>3. CASE "unsynced" \notin Faults
    <3>1. /\ informer' = etcd /\ watch' = [p \in Pods |-> <<>>]
          /\ queue' = [p \in Pods |-> IF PendingPod(etcd[p]) THEN etcd[p] ELSE Nil]
      BY <2>3 DEF StartScheduler
    <3>2. ASSUME NEW p \in Pods
          PROVE  watch'[p] \in Seq(ObjectsOf(p)) /\ queue'[p] \in ObjectsOf(p)
      <4>1. watch'[p] = <<>> /\ (queue'[p] = etcd[p] \/ queue'[p] = Nil)
        BY <3>1
      <4>2. etcd[p] \in ObjectsOf(p) /\ Nil \in ObjectsOf(p)
        BY <2>1 DEF StoreInv, ObjectsOf
      <4> QED
        BY <4>1, <4>2
    <3>3. queue' \in [Pods -> Objects]
      BY <2>1, <3>1 DEF StoreInv, Objects
    <3> QED
      BY <2>1, <3>1, <3>2, <3>3 DEF StoreInv
  <2> QED
    BY <2>2, <2>3
<1> QED
  BY <1>1, <1>2, <1>3, <1>4 DEF IInv

\* The scheduling cycle.
LEMMA CycleKeeps ==
    ASSUME IInv, NEW p \in Pods,
           PopPod(p) \/ (\E n \in Nodes : AssumeOn(p, n)) \/ ScheduleFails(p)
    PROVE  IInv'
<1>1. StoreInv /\ SnapshotInv /\ BindingInv /\ CacheInv
  BY DEF IInv
<1>2. CASE PopPod(p)
  <2>1. StoreInv'
    BY <1>1, <1>2 DEF PopPod, StoreInv, ObjectsOf, Objects, apiVars
  <2>2. BindingInv' /\ UNCHANGED <<cacheVars, informer>>
    BY <1>1, <1>2 DEF PopPod, BindingInv
  <2>3. SnapshotInv'
    <3>1. ASSUME NEW n \in Nodes
          PROVE  /\ CacheSnapshot[n] \in Cache!NodeInfo \cup {Nil}
                 /\ CacheSnapshot[n] # Nil => CacheSnapshot[n].node # Nil
      BY <1>1, CacheFacts DEF CacheSnapshot
    <3>2. CacheSnapshot \in [Nodes -> Cache!NodeInfo \cup {Nil}]
      BY <3>1 DEF CacheSnapshot
    <3>3. queue[p] \in Objects
      BY <1>1 DEF StoreInv
    <3> QED
      BY <1>1, <1>2, <3>1, <3>2, <3>3 DEF PopPod, SnapshotInv
  <2> QED
    BY <2>1, <2>2, <2>3, NoCall
<1>3. ASSUME NEW n \in Nodes, AssumeOn(p, n)
      PROVE  IInv'
  <2> DEFINE assumed == [cycle EXCEPT !.node = n]
             b == [pc |-> "convert", pod |-> assumed, containers |-> <<>>, read |-> Nil]
  <2>1. cycle \in PodObject /\ cycle.uid = p
    BY <1>1, <1>3 DEF AssumeOn, SnapshotInv, Objects
  <2>2. assumed \in AssignedObject /\ assumed.uid = p
    BY <2>1, NilAssumption DEF PodObject, AssignedObject
  <2>3. Cache!AssumePod(assumed) /\ podStates[p] = Nil
    BY <1>3 DEF AssumeOn
  <2>4. binding' = [binding EXCEPT ![p] = b]
    BY <1>3 DEF AssumeOn
  <2>5. /\ cycle' = Nil /\ UNCHANGED <<apiVars, informer, queue, snapshot, faults>>
    BY <1>3 DEF AssumeOn
  <2> HIDE DEF assumed
  <2>6. b \in BindingOf(p) /\ b.pc # "put"
    BY <2>2 DEF BindingOf, ObjectsOf
  <2> HIDE DEF b
  <2>7. BindingInv'
    BY <1>1, <2>4, <2>6, GoroutineType DEF BindingInv
  <2>8. SnapshotInv' /\ StoreInv'
    BY <1>1, <2>5 DEF SnapshotInv, StoreInv, apiVars, Objects
  <2>9. CacheInv'
    BY <1>1, <2>2, <2>3, PodCall
  <2>10. AddedIsSeen'
    <3>1. /\ podStates' = [podStates EXCEPT ![p] = Cache!NewPodState(assumed)]
          /\ assumedPods' = assumedPods \cup {p} /\ UNCHANGED fatal
      BY <2>2, <2>3 DEF Cache!AssumePod
    <3>2. \A q \in Pods : q # p => podStates'[q] = podStates[q]
      BY <1>1, <3>1, CacheFacts
    <3> QED
      BY <2>5, <3>1, <3>2 DEF IInv, AddedIsSeen, Cache!IsAddedPod
  <2> QED
    BY <2>7, <2>8, <2>9, <2>10 DEF IInv
<1>4. CASE ScheduleFails(p)
  <2>1. StoreInv'
    BY <1>1, <1>4, RecordKeeps DEF ScheduleFails
  <2>2. BindingInv' /\ SnapshotInv'
    BY <1>1, <1>4 DEF ScheduleFails, BindingInv, SnapshotInv, Objects
  <2> QED
    BY <1>4, <2>1, <2>2, NoCall DEF ScheduleFails
<1> QED
  BY <1>2, <1>3, <1>4

\* The goroutine of a pod changes its own state only.
LEMMA GoroutineMoves ==
    ASSUME BindingInv, NEW p \in Pods, NEW b \in BindingOf(p), b.pc = "put" => b.read # Nil,
           binding' = [binding EXCEPT ![p] = b]
    PROVE  BindingInv'
BY GoroutineType DEF BindingInv

\* Division of natural numbers.
LEMMA DivNat ==
    ASSUME NEW y \in Nat, NEW k \in Nat \ {0}
    PROVE  y \div k \in Nat
OBVIOUS

\* Division grows with its dividend, and by at most 1 if that grows by 1.
LEMMA DivStep ==
    ASSUME NEW y \in Nat \ {0}, NEW k \in Nat \ {0}
    PROVE  /\ (y - 1) \div k \in Nat
           /\ (y - 1) \div k <= y \div k
           /\ y \div k <= (y - 1) \div k + 1
OBVIOUS

\* A converted request, exact or as float64 gives it, is a natural number, and float64
\* loses at most one milli-CPU.
LEMMA ScaleQuotient ==
    ASSUME NEW x \in Nat, NEW kb \in Nat, NEW kj \in Nat \ {0}
    PROVE  /\ Quotient(x, kb, kj) \in Nat /\ Scale(x, kb, kj) \in Nat
           /\ Scale(x, kb, kj) <= Quotient(x, kb, kj)
           /\ Quotient(x, kb, kj) <= Scale(x, kb, kj) + 1
           /\ <<x, kb, kj>> \notin FallsShort => Scale(x, kb, kj) = Quotient(x, kb, kj)
<1> DEFINE y == x * kb
<1>1. y \in Nat
  OBVIOUS
<1>2. <<x, kb, kj>> \in FallsShort => y # 0
  <2>1. <<x, kb, kj>> \in FallsShort => x \in Nat \ {0} /\ kb \in Nat \ {0}
    BY FloatAssumption DEF Positive
  <2> QED
    BY <2>1
<1> HIDE DEF y
<1>3. y \div kj \in Nat
  BY <1>1, DivNat
<1>4. CASE <<x, kb, kj>> \in FallsShort
  <2>1. y \in Nat \ {0}
    BY <1>1, <1>2, <1>4
  <2>2. /\ (y - 1) \div kj \in Nat /\ (y - 1) \div kj <= y \div kj
        /\ y \div kj <= (y - 1) \div kj + 1
    BY <2>1, DivStep
  <2> QED
    BY <1>3, <1>4, <2>2 DEF Scale, Quotient, y
<1>5. CASE <<x, kb, kj>> \notin FallsShort
  BY <1>3, <1>5 DEF Scale, Quotient, y
<1> QED
  BY <1>4, <1>5

LEMMA ScaleNat ==
    ASSUME NEW x \in Nat, NEW kb \in Nat, NEW kj \in Nat \ {0}
    PROVE  Scale(x, kb, kj) \in Nat
BY ScaleQuotient

\* So is that of every container.
LEMMA ConvertedSeq ==
    ASSUME NEW cs \in Seq(Nat), NEW kb \in Nat, NEW kj \in Nat \ {0}
    PROVE  ConvertPodCpu(cs, kb, kj) \in Seq(Nat)
<1>1. ASSUME NEW i \in DOMAIN cs
      PROVE  Scale(cs[i], kb, kj) \in Nat
  <2>1. cs[i] \in Nat
    OBVIOUS
  <2> QED
    BY <2>1, ScaleNat
<1>2. ConvertPodCpu(cs, kb, kj) \in [DOMAIN cs -> Nat]
  BY <1>1, Zenon DEF ConvertPodCpu
<1>3. DOMAIN cs = 1 .. Len(cs) /\ Len(cs) \in Nat
  OBVIOUS
<1> QED
  BY <1>2, <1>3, SeqDef

\* What the goroutine does to its own state while it works on the pod.
LEMMA GoroutineWorks ==
    ASSUME IInv, NEW p \in Pods, BindConvert(p) \/ BindGet(p) \/ BindError(p)
    PROVE  \E b \in BindingOf(p) :
              /\ binding' = [binding EXCEPT ![p] = b]
              /\ b.pc # "done" /\ b.pod = binding[p].pod
              /\ b.pc = "put" => b.read # Nil
<1> DEFINE b == binding[p]
<1>1. b # Nil /\ b \in BindingOf(p)
  BY DEF IInv, BindConvert, BindGet, BindError, At, BindingInv
<1>2. ASSUME binding' = [binding EXCEPT ![p].pc = "failed"]
      PROVE  \E c \in BindingOf(p) :
                /\ binding' = [binding EXCEPT ![p] = c]
                /\ c.pc = "failed" /\ c.pod = b.pod
  <2> DEFINE c == [b EXCEPT !.pc = "failed"]
  <2>1. c \in BindingOf(p) /\ c.pc = "failed" /\ c.pod = b.pod
    BY <1>1 DEF BindingOf
  <2>2. binding' = [binding EXCEPT ![p] = c]
    BY <1>2
  <2> QED
    BY <2>1, <2>2
<1>3. CASE BindError(p)
  BY <1>2, <1>3 DEF BindError
<1>4. CASE BindGet(p)
  <2> DEFINE c == [b EXCEPT !.pc = "put", !.read = etcd[p]]
  <2>1. etcd[p] \in ObjectsOf(p) /\ etcd[p] # Nil
    BY <1>4 DEF IInv, StoreInv, BindGet
  <2>2. c \in BindingOf(p) /\ c.pc = "put" /\ c.pod = b.pod /\ c.read = etcd[p]
    BY <1>1, <2>1 DEF BindingOf
  <2>3. binding' = [binding EXCEPT ![p].pc = "put", ![p].read = etcd[p]]
    BY <1>4 DEF BindGet
  <2>4. binding' = [binding EXCEPT ![p] = c]
    BY <2>3
  <2> HIDE DEF c
  <2> QED
    BY <2>1, <2>2, <2>4
<1>5. CASE BindConvert(p)
  <2>1. CASE snapshot[b.pod.node] = Nil
    BY <1>2, <1>5, <2>1 DEF BindConvert
  <2>2. CASE snapshot[b.pod.node] # Nil
    <3> DEFINE ni == snapshot[b.pod.node]
               cs == ConvertPodCpu(b.pod.containers, Kb[p], ni.node)
               c == [b EXCEPT !.pc = "get", !.containers = cs]
    <3>1. /\ b.pod \in PodObject /\ b.pod.node \in Nodes
      BY <1>1, CacheObjects DEF BindingOf, AssignedObject
    <3>2. ni \in Cache!NodeInfo /\ ni.node # Nil
      BY <2>2, <3>1 DEF IInv, SnapshotInv
    <3>3. ni.node \in KjValues
      BY <3>2 DEF Cache!NodeInfo
    <3>4. b.pod.containers \in Seq(Nat)
      BY <3>1 DEF PodObject
    <3>5. cs \in Seq(Nat)
      BY <3>3, <3>4, ConvertedSeq, SchedulerAssumption
    <3>6. binding' = [binding EXCEPT ![p].pc = "get", ![p].containers = cs]
      BY <1>5, <2>2 DEF BindConvert
    <3> HIDE DEF cs
    <3>7. binding' = [binding EXCEPT ![p] = c]
      BY <3>6
    <3>8. c \in BindingOf(p) /\ c.pc = "get" /\ c.pod = b.pod
      BY <1>1, <3>5 DEF BindingOf
    <3> HIDE DEF c
    <3> QED
      BY <3>7, <3>8
  <2> QED
    BY <2>1, <2>2
<1> QED
  BY <1>3, <1>4, <1>5

\* The binding goroutine up to the end of Bind.
LEMMA BindKeeps ==
    ASSUME IInv, NEW p \in Pods,
           BindConvert(p) \/ BindGet(p) \/ BindPut(p) \/ BindError(p) \/ BindPutApplied(p)
    PROVE  IInv'
<1>1. StoreInv /\ SnapshotInv /\ BindingInv /\ CacheInv
  BY DEF IInv
<1> DEFINE b == binding[p]
<1>2. CASE BindConvert(p) \/ BindGet(p) \/ BindError(p)
  <2>1. BindingInv'
    <3>1. PICK c \in BindingOf(p) :
             /\ binding' = [binding EXCEPT ![p] = c]
             /\ c.pc = "put" => c.read # Nil
      BY <1>2, GoroutineWorks, Zenon
    <3> QED
      BY <1>1, <3>1, GoroutineMoves
  <2>2. StoreInv' /\ UNCHANGED <<cacheVars, informer>>
    BY <1>1, <1>2 DEF BindConvert, BindGet, BindError, StoreInv, apiVars
  <2>3. SnapshotInv'
    BY <1>1, <1>2, SchedulerAssumption DEF BindConvert, BindGet, BindError, SnapshotInv
  <2> QED
    BY <2>1, <2>2, <2>3, NoCall
<1>3. ASSUME WriteEtcd(p, BoundPod(b)), At(p, "put"), NEW pc \in {"done", "failed"},
             binding' = [binding EXCEPT ![p].pc = pc],
             UNCHANGED <<informer, queue, cacheVars, snapshot, cycle>>, faults' \in 0..MaxFaults
      PROVE  IInv'
  <2>1. b # Nil /\ b \in BindingOf(p) /\ b.read # Nil
    BY <1>1, <1>3 DEF At, BindingInv
  <2>2. BoundPod(b) \in ObjectsOf(p)
    BY <2>1, BoundObject
  <2>3. StoreInv'
    BY <1>1, <1>3, <2>2, WriteKeeps
  <2>4. binding' = [binding EXCEPT ![p] = [b EXCEPT !.pc = pc]]
    BY <1>3
  <2>5. [b EXCEPT !.pc = pc] \in BindingOf(p) /\ [b EXCEPT !.pc = pc].pc = pc
    BY <2>1 DEF BindingOf
  <2>6. BindingInv'
    BY <1>1, <2>4, <2>5, GoroutineMoves
  <2>7. SnapshotInv'
    BY <1>1, <1>3 DEF SnapshotInv
  <2> QED
    BY <1>3, <2>3, <2>6, <2>7, NoCall
<1>4. CASE BindPut(p)
  <2>1. faults' \in 0..MaxFaults
    BY <1>1, <1>4 DEF BindPut, SnapshotInv
  <2> QED
    BY <1>3, <1>4, <2>1 DEF BindPut
<1>5. CASE BindPutApplied(p)
  <2>1. faults' \in 0..MaxFaults
    BY <1>1, <1>5, SchedulerAssumption DEF BindPutApplied, SnapshotInv
  <2> QED
    BY <1>3, <1>5, <2>1 DEF BindPutApplied
<1> QED
  BY <1>2, <1>4, <1>5

\* The end of a binding goroutine.
LEMMA BindEndKeeps ==
    ASSUME IInv, NEW p \in Pods, BindDone(p) \/ BindFailed(p)
    PROVE  IInv'
<1>1. StoreInv /\ SnapshotInv /\ BindingInv /\ CacheInv
  BY DEF IInv
<1>2. binding[p] # Nil /\ binding[p] \in BindingOf(p)
  BY <1>1 DEF BindDone, BindFailed, At, BindingInv
<1>3. binding[p].pod \in AssignedObject /\ binding[p].pod.uid = p
  BY <1>2 DEF BindingOf
<1>4. BindingInv'
  <2>1. binding' = [binding EXCEPT ![p] = Nil]
    BY DEF BindDone, BindFailed
  <2> QED
    BY <1>1, <2>1 DEF BindingInv
<1>5. SnapshotInv' /\ UNCHANGED informer
  BY <1>1 DEF BindDone, BindFailed, SnapshotInv
<1>6. StoreInv'
  <2>1. CASE BindDone(p)
    BY <1>1, <2>1 DEF BindDone, StoreInv, apiVars
  <2>2. CASE BindFailed(p)
    BY <1>1, <2>2, RecordKeeps DEF BindFailed
  <2> QED
    BY <2>1, <2>2
<1>7. CacheInv'
  <2>1. Cache!FinishBinding(p) \/ Cache!ForgetPod(binding[p].pod)
    BY DEF BindDone, BindFailed
  <2> QED
    BY <1>1, <1>3, <2>1, PodCall
<1>8. AddedIsSeen'
  <2>1. UNCHANGED fatal /\ \A q \in Pods : Cache!IsAddedPod(q)' =>
             Cache!IsAddedPod(q) /\ podStates'[q] = podStates[q]
    <3>1. CASE BindDone(p)
      <4>1. Cache!FinishBinding(p)
        BY <3>1 DEF BindDone
      <4>2. \A q \in Pods : q # p => podStates'[q] = podStates[q]
        BY <1>1, <4>1, CacheFacts DEF Cache!FinishBinding, Cache!vars
      <4> QED
        BY <4>1, <4>2 DEF Cache!FinishBinding, Cache!vars, Cache!IsAddedPod, Cache!IsAssumedPod
    <3>2. CASE BindFailed(p)
      <4>1. Cache!ForgetPod(binding[p].pod)
        BY <3>2 DEF BindFailed
      <4>2. /\ podStates' = [podStates EXCEPT ![p] = Nil] \/ podStates' = podStates
            /\ assumedPods' = assumedPods \ {p} \/ UNCHANGED cacheVars
            /\ UNCHANGED fatal
        BY <1>3, <4>1 DEF Cache!ForgetPod, Cache!vars, cacheVars
      <4>3. podStates' = [podStates EXCEPT ![p] = Nil] \/ UNCHANGED cacheVars
        BY <1>3, <4>1 DEF Cache!ForgetPod, Cache!vars, cacheVars
      <4> QED
        BY <1>1, <4>2, <4>3, CacheFacts DEF Cache!IsAddedPod, cacheVars
    <3> QED
      BY <3>1, <3>2
  <2> QED
    BY <1>5, <2>1 DEF IInv, AddedIsSeen
<1> QED
  BY <1>1, <1>4, <1>5, <1>6, <1>7, <1>8 DEF IInv

\* A pod the cache has is listed on its node: its entry can be removed.
LEMMA CachedIsRemovable ==
    ASSUME CacheInv, NEW p \in Pods, podStates[p] # Nil
    PROVE  Cache!Removable(nodes, podStates[p].pod)
<1>1. podStates[p].pod.node \in Nodes /\ podStates[p].pod.uid = p
  BY CacheFacts
<1>2. CacheProofs!ListedIffCached
  BY DEF CacheInv, CacheProofs!IInv, CacheProofs!PodsWhereTheyAre
<1> QED
  BY <1>1, <1>2 DEF CacheProofs!ListedIffCached, CacheProofs!Listed, Cache!Removable, Cache!Listed

\* The handlers of an event.
LEMMA DeliverKeeps ==
    ASSUME IInv, ~fatal, NEW p \in Pods, Deliver(p)
    PROVE  IInv'
<1> DEFINE old == informer[p]
           new == Head(watch[p])
<1>1. StoreInv /\ SnapshotInv /\ BindingInv /\ CacheInv /\ AddedIsSeen
  BY DEF IInv
<1>2. watch[p] \in Seq(ObjectsOf(p)) /\ watch[p] # <<>> /\ old \in ObjectsOf(p)
  BY <1>1 DEF StoreInv, Deliver
<1>3. new \in ObjectsOf(p) /\ Tail(watch[p]) \in Seq(ObjectsOf(p))
  BY <1>2
<1>4. informer' = [informer EXCEPT ![p] = new] /\ watch' = [watch EXCEPT ![p] = Tail(watch[p])]
  BY DEF Deliver
<1>5. QueueHandler(p, old, new) /\ CacheHandler(old, new)
  BY DEF Deliver
<1>6. UNCHANGED <<etcd, schedVars, faults>>
  BY DEF Deliver
<1> HIDE DEF old, new
<1>7. SnapshotInv' /\ BindingInv'
  BY <1>1, <1>6 DEF SnapshotInv, BindingInv, schedVars
<1>8. StoreInv'
  <2>1. Nil \in ObjectsOf(p) /\ ObjectsOf(p) \subseteq Objects
    BY DEF ObjectsOf, Objects
  <2>2. queue' = queue \/ (\E v \in ObjectsOf(p) : queue' = [queue EXCEPT ![p] = v])
    BY <1>3, <1>5, <2>1 DEF QueueHandler
  <2>3. queue' \in [Pods -> Objects] /\ \A q \in Pods : queue'[q] \in ObjectsOf(q)
    BY <1>1, <2>1, <2>2 DEF StoreInv
  <2>4. informer' \in [Pods -> Objects] /\ \A q \in Pods : informer'[q] \in ObjectsOf(q)
    BY <1>1, <1>3, <1>4, <2>1 DEF StoreInv
  <2>5. DOMAIN watch' = Pods /\ \A q \in Pods : watch'[q] \in Seq(ObjectsOf(q))
    BY <1>1, <1>3, <1>4 DEF StoreInv
  <2> QED
    BY <1>1, <1>6, <2>3, <2>4, <2>5 DEF StoreInv
<1>9. /\ AssignedPod(new) => new \in AssignedObject /\ new.uid = p
      /\ AssignedPod(old) => old \in AssignedObject /\ old.uid = p
  BY <1>2, <1>3 DEF AssignedPod, ObjectsOf, AssignedObject
<1>10. Cache!IsAddedPod(p) => AssignedPod(old) /\ old.node = podStates[p].pod.node
  BY <1>1 DEF AddedIsSeen, old
<1>11. ASSUME fatal' = fatal \/ fatal' = TRUE,
              \A q \in Pods : q # p => podStates'[q] = podStates[q]
                                      /\ (q \in assumedPods' <=> q \in assumedPods),
              ~fatal' /\ Cache!IsAddedPod(p)' => AssignedPod(new) /\ new.node = podStates'[p].pod.node
       PROVE  AddedIsSeen'
  <2>1. informer'[p] = new /\ \A q \in Pods : q # p => informer'[q] = informer[q]
    BY <1>1, <1>4 DEF StoreInv
  <2> QED
    BY <1>1, <1>11, <2>1 DEF AddedIsSeen, Cache!IsAddedPod
<1>12. podStates \in [Pods -> Cache!PodState \cup {Nil}] /\ podStates[p] \in Cache!PodState \cup {Nil}
  BY <1>1, CacheFacts
<1>13. CASE ~AssignedPod(old) /\ AssignedPod(new) /\ Cache!AddPod(new)
  <2>1. CacheInv'
    BY <1>1, <1>9, <1>13, PodCall
  <2>2. ~Cache!IsAddedPod(p)
    BY <1>10, <1>13
  <2>3. new.uid = p
    BY <1>9, <1>13
  <2>4. \/ Cache!ConfirmPod(new)
        \/ /\ podStates' = [podStates EXCEPT ![p] = Cache!NewPodState(new)]
           /\ UNCHANGED <<assumedPods, fatal>>
    BY <1>13, <2>2, <2>3 DEF Cache!AddPod
  <2>5. AddedIsSeen'
    <3>1. CASE Cache!ConfirmPod(new)
      <4> DEFINE s == [podStates[p] EXCEPT !.deadline = FALSE, !.pod = new]
      <4>1. /\ podStates' = [podStates EXCEPT ![p].deadline = FALSE, ![p].pod = new]
            /\ assumedPods' = assumedPods \ {p} /\ podStates[p] # Nil /\ UNCHANGED fatal
        BY <2>3, <3>1 DEF Cache!ConfirmPod
      <4>2. podStates' = [podStates EXCEPT ![p] = s]
        BY <4>1
      <4>3. s.pod = new
        BY <1>12, <4>1 DEF Cache!PodState
      <4> HIDE DEF s
      <4>4. podStates'[p].pod = new /\ \A q \in Pods : q # p => podStates'[q] = podStates[q]
        BY <1>12, <4>2, <4>3
      <4> QED
        BY <1>11, <1>13, <4>1, <4>4
    <3>2. CASE /\ podStates' = [podStates EXCEPT ![p] = Cache!NewPodState(new)]
               /\ UNCHANGED <<assumedPods, fatal>>
      <4>1. podStates'[p].pod = new /\ \A q \in Pods : q # p => podStates'[q] = podStates[q]
        BY <1>12, <3>2 DEF Cache!NewPodState
      <4> QED
        BY <1>11, <1>13, <3>2, <4>1
    <3> QED
      BY <2>4, <3>1, <3>2
  <2> QED
    BY <1>7, <1>8, <2>1, <2>5 DEF IInv
<1>14. CASE AssignedPod(old) /\ AssignedPod(new) /\ Cache!UpdatePod(old, new)
  <2>1. old.uid = p /\ new.uid = p /\ old \in AssignedObject /\ new \in AssignedObject
    BY <1>9, <1>14
  <2>2. CASE Cache!Updatable(old, new)
    <3>1. old.node = new.node /\ Cache!IsAddedPod(p)
      BY <1>10, <2>1, <2>2 DEF Cache!Updatable
    <3>2. CacheInv'
      BY <1>1, <1>14, <2>1, <3>1, PodCall
    <3>3. ~Cache!NamesOtherNode(new)
      BY <2>1, <2>2 DEF Cache!Updatable, Cache!NamesOtherNode
    <3>4. podStates' = [podStates EXCEPT ![p].pod = new] /\ UNCHANGED <<assumedPods, fatal>>
      BY <1>14, <2>1, <2>2, <3>3 DEF Cache!UpdatePod, Cache!CorruptedBy
    <3>5. podStates[p] # Nil
      BY <3>1 DEF Cache!IsAddedPod
    <3>6. podStates'[p].pod = new /\ \A q \in Pods : q # p => podStates'[q] = podStates[q]
      BY <1>12, <3>4, <3>5 DEF Cache!PodState
    <3>7. AddedIsSeen'
      BY <1>11, <1>14, <3>4, <3>6
    <3> QED
      BY <1>7, <1>8, <3>2, <3>7 DEF IInv
  <2>3. CASE Cache!CorruptedBy(new)
    <3>1. CacheInv'
      BY <1>1, <2>1, <2>3, PodCall DEF Cache!RemovePod
    <3>2. AddedIsSeen'
      BY <2>3 DEF AddedIsSeen, Cache!CorruptedBy
    <3> QED
      BY <1>7, <1>8, <3>1, <3>2 DEF IInv
  <2>4. CASE ~Cache!Updatable(old, new) /\ ~Cache!NamesOtherNode(new) /\ UNCHANGED Cache!vars
    <3>1. UNCHANGED cacheVars
      BY <2>4 DEF Cache!vars, cacheVars
    <3>2. CacheInv'
      BY <1>1, <3>1, CacheUntouched
    <3>3. AddedIsSeen'
      BY <1>11, <1>14, <2>1, <2>4, <3>1 DEF Cache!NamesOtherNode, Cache!IsAddedPod, cacheVars
    <3> QED
      BY <1>7, <1>8, <3>2, <3>3 DEF IInv
  <2> QED
    BY <1>14, <2>2, <2>3, <2>4 DEF Cache!UpdatePod
<1>15. CASE AssignedPod(old) /\ ~AssignedPod(new) /\ Cache!RemovePod(old)
  <2>1. old.uid = p /\ old \in AssignedObject
    BY <1>9, <1>15
  <2>2. CacheInv'
    BY <1>1, <1>15, <2>1, PodCall
  <2>3. CASE /\ podStates' = [podStates EXCEPT ![p] = Nil]
             /\ UNCHANGED <<assumedPods, fatal>>
    BY <1>7, <1>8, <1>11, <1>12, <2>2, <2>3 DEF IInv, Cache!IsAddedPod
  <2>4. CASE Cache!CorruptedBy(old)
    <3>1. AddedIsSeen'
      BY <2>4 DEF AddedIsSeen, Cache!CorruptedBy
    <3> QED
      BY <1>7, <1>8, <2>2, <3>1 DEF IInv
  <2>5. CASE ~Cache!Deletable(old) /\ ~Cache!NamesOtherNode(old) /\ UNCHANGED Cache!vars
    <3>1. ~Cache!IsAddedPod(p)
      <4> SUFFICES ASSUME Cache!IsAddedPod(p) PROVE FALSE
        OBVIOUS
      <4>1. podStates[p] # Nil
        BY DEF Cache!IsAddedPod
      <4>2. Cache!Removable(nodes, podStates[p].pod)
        BY <1>1, <4>1, CachedIsRemovable
      <4> QED
        BY <1>10, <2>1, <2>5, <4>2 DEF Cache!Deletable
    <3>2. AddedIsSeen'
      BY <1>11, <2>5, <3>1 DEF Cache!vars, Cache!IsAddedPod
    <3> QED
      BY <1>7, <1>8, <2>2, <3>2 DEF IInv
  <2> QED
    BY <1>15, <2>1, <2>3, <2>4, <2>5 DEF Cache!RemovePod
<1>16. CASE ~AssignedPod(old) /\ ~AssignedPod(new) /\ UNCHANGED cacheVars
  <2>1. CacheInv'
    BY <1>1, <1>16, CacheUntouched
  <2>2. ~Cache!IsAddedPod(p)
    BY <1>10, <1>16
  <2>3. AddedIsSeen'
    BY <1>11, <1>16, <2>2 DEF Cache!IsAddedPod, cacheVars
  <2> QED
    BY <1>7, <1>8, <2>1, <2>3 DEF IInv
<1> QED
  BY <1>5, <1>13, <1>14, <1>15, <1>16 DEF CacheHandler

\* A relist and the expiry of an assumed pod.
LEMMA RelistExpireKeeps ==
    ASSUME IInv, NEW p \in Pods, Relist(p) \/ ExpireAssumed(p)
    PROVE  IInv'
<1>1. StoreInv /\ SnapshotInv /\ BindingInv /\ CacheInv
  BY DEF IInv
<1>2. SnapshotInv' /\ BindingInv' /\ UNCHANGED informer
  BY <1>1 DEF Relist, ExpireAssumed, SnapshotInv, BindingInv, schedVars
<1>3. CASE Relist(p)
  <2>1. watch[p] \in Seq(ObjectsOf(p)) /\ Len(watch[p]) > 1
    BY <1>1, <1>3 DEF StoreInv, Relist
  <2>2. Tail(watch[p]) \in Seq(ObjectsOf(p))
    BY <2>1
  <2>3. /\ watch' = [watch EXCEPT ![p] = Tail(watch[p])]
        /\ UNCHANGED <<etcd, informer, queue, cacheVars>>
    BY <1>3 DEF Relist
  <2>4. StoreInv'
    BY <1>1, <2>2, <2>3 DEF StoreInv
  <2> QED
    BY <1>2, <2>3, <2>4, NoCall
<1>4. CASE ExpireAssumed(p)
  <2>1. StoreInv' /\ Cache!ExpirePod(p)
    BY <1>1, <1>4 DEF StoreInv, ExpireAssumed, apiVars
  <2>2. CacheInv'
    BY <1>1, <2>1, PodCall
  <2>3. /\ podStates' = [podStates EXCEPT ![p] = Nil] /\ assumedPods' = assumedPods \ {p}
        /\ UNCHANGED fatal
    BY <2>1 DEF Cache!ExpirePod
  <2>4. AddedIsSeen'
    BY <1>1, <1>2, <2>3, CacheFacts DEF IInv, AddedIsSeen, Cache!IsAddedPod
  <2> QED
    BY <1>2, <2>1, <2>2, <2>4 DEF IInv
<1> QED
  BY <1>3, <1>4

\* The writes of users and of the kubelet.
LEMMA OthersWriteKeeps ==
    ASSUME IInv, NEW p \in Pods,
           MarkDeleted(p) \/ RemoveDeleted(p) \/ Annotate(p) \/ RunPod(p)
    PROVE  IInv'
<1>1. StoreInv /\ SnapshotInv /\ BindingInv /\ CacheInv
  BY DEF IInv
<1>2. UNCHANGED <<informer, queue, cacheVars, schedVars, faults>>
  BY DEF MarkDeleted, RemoveDeleted, Annotate, RunPod
<1>3. etcd[p] # Nil /\ etcd[p] \in ObjectsOf(p)
  BY <1>1 DEF MarkDeleted, RemoveDeleted, Annotate, RunPod, AssignedPod, StoreInv
<1>4. \E o \in ObjectsOf(p) : WriteEtcd(p, o)
  <2>1. CASE MarkDeleted(p)
    BY <1>3, <2>1, ChangedObject DEF MarkDeleted
  <2>2. CASE RemoveDeleted(p)
    BY <2>2 DEF RemoveDeleted, ObjectsOf
  <2>3. CASE Annotate(p)
    BY <1>3, <2>3, ChangedObject DEF Annotate
  <2>4. CASE RunPod(p)
    BY <1>3, <2>4, ChangedObject DEF RunPod
  <2> QED
    BY <2>1, <2>2, <2>3, <2>4
<1>5. StoreInv'
  BY <1>1, <1>2, <1>4, WriteKeeps
<1>6. SnapshotInv' /\ BindingInv'
  BY <1>1, <1>2 DEF SnapshotInv, BindingInv, schedVars
<1> QED
  BY <1>2, <1>5, <1>6, NoCall

\* The changes of the cluster's administrators.
LEMMA ClusterKeeps ==
    ASSUME IInv, NEW n \in Nodes,
           LeaveCluster(n) \/ JoinCluster(n) \/ \E kj \in KjValues : Relabel(n, kj)
    PROVE  IInv'
<1>1. StoreInv /\ SnapshotInv /\ BindingInv /\ CacheInv
  BY DEF IInv
<1>2. UNCHANGED <<apiVars, informer, queue, schedVars, faults>>
  BY DEF LeaveCluster, JoinCluster, Relabel
<1>3. StoreInv' /\ SnapshotInv' /\ BindingInv'
  BY <1>1, <1>2 DEF StoreInv, SnapshotInv, BindingInv, apiVars, schedVars
<1>4. InitialKj[n] \in KjValues
  BY SchedulerAssumption
<1>5. CacheInv'
  <2>1. CASE LeaveCluster(n)
    BY <1>1, <2>1, NodeCall DEF LeaveCluster
  <2>2. CASE JoinCluster(n)
    BY <1>1, <1>4, <2>2, NodeCall DEF JoinCluster
  <2>3. ASSUME NEW kj \in KjValues, Relabel(n, kj)
        PROVE  CacheInv'
    <3>1. n \in nodeTree
      BY <1>1, <2>3, CacheFacts DEF Relabel
    <3> QED
      BY <1>1, <2>3, <3>1, NodeCall DEF Relabel
  <2> QED
    BY <2>1, <2>2, <2>3
<1>6. UNCHANGED <<podStates, assumedPods, fatal>>
  BY DEF LeaveCluster, JoinCluster, Relabel, Cache!RemoveNode, Cache!AddNode, Cache!UpdateNode,
         Cache!vars
<1>7. AddedIsSeen'
  BY <1>2, <1>6 DEF IInv, AddedIsSeen, Cache!IsAddedPod
<1> QED
  BY <1>3, <1>5, <1>7 DEF IInv

-----------------------------------------------------------------------------
(* The theorems.                                                           *)

\* The invariant holds when the scheduler starts on a new cluster.
LEMMA InitInvariant == Init => IInv
<1> SUFFICES ASSUME Init PROVE IInv
  OBVIOUS
<1>1. StoreInv
  <2>1. /\ etcd = [p \in Pods |-> NewPod(p)] /\ watch = [p \in Pods |-> <<NewPod(p)>>]
        /\ informer = [p \in Pods |-> Nil] /\ queue = [p \in Pods |-> Nil]
    BY DEF Init
  <2>2. ASSUME NEW p \in Pods
        PROVE  /\ etcd[p] \in ObjectsOf(p) /\ informer[p] \in ObjectsOf(p)
               /\ queue[p] \in ObjectsOf(p)
    BY <2>1, NewPodType DEF ObjectsOf
  <2>3. ASSUME NEW p \in Pods
        PROVE  watch[p] \in Seq(ObjectsOf(p))
    <3>1. NewPod(p) \in ObjectsOf(p) /\ watch[p] = <<NewPod(p)>>
      BY <2>1, NewPodType
    <3> QED
      BY <3>1
  <2>4. \A p \in Pods : ObjectsOf(p) \subseteq Objects
    BY DEF ObjectsOf, Objects
  <2>5. /\ etcd \in [Pods -> Objects] /\ informer \in [Pods -> Objects]
        /\ queue \in [Pods -> Objects] /\ DOMAIN watch = Pods
    BY <2>1, <2>2, <2>4
  <2> QED
    BY <2>2, <2>3, <2>5 DEF StoreInv
<1>2. SnapshotInv /\ BindingInv
  BY SchedulerAssumption DEF Init, SnapshotInv, BindingInv, Objects
<1>3. AddedIsSeen
  BY DEF Init, AddedIsSeen, Cache!IsAddedPod
<1>4. CacheInv
  <2>1. /\ podStates = [p \in Pods |-> Nil] /\ assumedPods = {} /\ nodeTree = Nodes
        /\ fatal = FALSE
        /\ nodes = [n \in Nodes |-> [node |-> InitialKj[n], pods |-> {}, requested |-> 0]]
    BY DEF Init
  <2>2. ASSUME NEW n \in Nodes
        PROVE  /\ nodes[n] \in Cache!NodeInfo
               /\ nodes[n].pods = {} /\ nodes[n].node = InitialKj[n] /\ nodes[n].node # Nil
    <3>1. InitialKj[n] \in KjValues /\ InitialKj[n] # Nil
      BY SchedulerAssumption, NilAssumption
    <3>2. nodes[n] = [node |-> InitialKj[n], pods |-> {}, requested |-> 0]
      BY <2>1
    <3> QED
      BY <3>1, <3>2 DEF Cache!NodeInfo
  <2>3. nodes \in [Nodes -> Cache!NodeInfo \cup {Nil}]
    BY <2>1, <2>2
  <2>4. CacheProofs!TypeOK
    BY <2>1, <2>3, SameState DEF CacheProofs!TypeOK, CacheProofs!OnlyAssumedExpire
  <2>5. \A n \in Nodes : nodes[n] # Nil
    BY <2>2, NilAssumption
  <2>6. CacheProofs!PodsWhereTheyAre
    BY <2>1, <2>2 DEF CacheProofs!PodsWhereTheyAre, CacheProofs!ListedIffCached,
         CacheProofs!ListedOnce, CacheProofs!Listed
  <2>7. CacheProofs!KeyedByUid /\ CacheProofs!AssumedCanExpire /\ CacheProofs!TreeMatchesNodes
    BY <2>1, <2>2, <2>5
       DEF CacheProofs!KeyedByUid, CacheProofs!AssumedCanExpire, CacheProofs!TreeMatchesNodes
  <2> QED
    BY <2>4, <2>6, <2>7 DEF CacheInv, CacheProofs!IInv
<1> QED
  BY <1>1, <1>2, <1>3, <1>4 DEF IInv

\* Every step keeps it.
LEMMA NextInvariant == IInv /\ [Next]_vars => IInv'
<1> SUFFICES ASSUME IInv, [Next]_vars PROVE IInv'
  OBVIOUS
<1>1. CASE UNCHANGED vars
  <2>1. StoreInv' /\ SnapshotInv' /\ BindingInv'
    BY <1>1 DEF vars, IInv, StoreInv, SnapshotInv, BindingInv
  <2> QED
    BY <1>1, <2>1, NoCall DEF vars, cacheVars
<1>2. CASE Fatal \/ Crash \/ \E p \in Pods : Panic(p)
  <2>1. StartScheduler
    BY <1>2 DEF Fatal, Crash, Panic
  <2>2. faults' \in 0..MaxFaults
    BY <1>2, SchedulerAssumption DEF Fatal, Crash, Panic, IInv, SnapshotInv
  <2> QED
    BY <2>1, <2>2, StartKeeps
<1>3. ASSUME ~fatal, NEW p \in Pods, SchedulerStep(p), ~Panic(p)
      PROVE  IInv'
  <2>1. CASE PopPod(p) \/ (\E n \in Nodes : AssumeOn(p, n)) \/ ScheduleFails(p)
    BY <2>1, CycleKeeps
  <2>2. CASE BindConvert(p) \/ BindGet(p) \/ BindPut(p) \/ BindError(p) \/ BindPutApplied(p)
    BY <2>2, BindKeeps
  <2>3. CASE BindDone(p) \/ BindFailed(p)
    BY <2>3, BindEndKeeps
  <2>4. CASE Deliver(p)
    BY <1>3, <2>4, DeliverKeeps
  <2>5. CASE Relist(p) \/ ExpireAssumed(p)
    BY <2>5, RelistExpireKeeps
  <2> QED
    BY <1>3, <2>1, <2>2, <2>3, <2>4, <2>5 DEF SchedulerStep
<1>4. CASE OthersStep
  BY <1>4, OthersWriteKeeps, ClusterKeeps DEF OthersStep
<1> QED
  BY <1>1, <1>2, <1>3, <1>4 DEF Next

\* The strengthened invariant holds in every state.
LEMMA Invariant == Spec => []IInv
BY InitInvariant, NextInvariant, PTL DEF Spec

\* Whatever fails, is late or is written by others, every object that reaches a store,
\* the cache or a goroutine is a whole pod under its own key (Bind's rewriting of what
\* it read from etcd, recordSchedulingFailure's patch and the handlers included).
THEOREM SchedulerTypeCorrect == Spec => []TypeOK
<1>1. IInv => TypeOK
  <2> SUFFICES ASSUME IInv PROVE TypeOK
    OBVIOUS
  <2>1. /\ etcd \in [Pods -> PodObject \cup {Nil}] /\ informer \in [Pods -> PodObject \cup {Nil}]
        /\ queue \in [Pods -> PodObject \cup {Nil}]
    BY DEF IInv, StoreInv, Objects
  <2>2. ASSUME NEW p \in Pods
        PROVE  watch[p] \in Seq(PodObject \cup {Nil})
    <3>1. watch[p] \in Seq(ObjectsOf(p)) /\ ObjectsOf(p) \subseteq PodObject \cup {Nil}
      BY DEF IInv, StoreInv, ObjectsOf
    <3> QED
      BY <3>1
  <2>3. Cache!TypeOK
    BY SameState DEF IInv, CacheInv, CacheProofs!IInv
  <2>4. /\ snapshot \in [Nodes -> Cache!NodeInfo \cup {Nil}] /\ cycle \in PodObject \cup {Nil}
        /\ faults \in 0..MaxFaults
    BY DEF IInv, SnapshotInv, Objects
  <2>5. ASSUME NEW p \in Pods, binding[p] # Nil
        PROVE  binding[p].pod.uid = p
    BY <2>5 DEF IInv, BindingInv, BindingOf
  <2>6. binding \in [Pods -> Goroutine \cup {Nil}]
    BY DEF IInv, BindingInv
  <2> QED
    BY <2>1, <2>2, <2>3, <2>4, <2>5, <2>6 DEF TypeOK
<1> QED
  BY <1>1, Invariant, PTL

\* Whatever fails, is late or is written by others, the cache's NodeInfos list exactly
\* the pods of podStates, each once and on its own node, and cleanupAssumedPods meets no
\* broken entry: the calls scheduleOne, its goroutines and the informer handlers make
\* are ones the cache is made for.
THEOREM CacheIsCoherent == Spec => []CacheStaysCoherent
<1>1. IInv => CacheStaysCoherent
  BY SameState DEF IInv, CacheInv, CacheProofs!IInv, CacheStaysCoherent
<1> QED
  BY <1>1, Invariant, PTL
=============================================================================
