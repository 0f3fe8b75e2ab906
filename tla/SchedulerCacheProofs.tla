------------------------ MODULE SchedulerCacheProofs ------------------------
(***************************************************************************)
(* The cache's invariants and its refinement of PodLifecycle, for every    *)
(* set of pods, nodes and objects.                                         *)
(***************************************************************************)
EXTENDS SchedulerCache, FiniteSetTheorems, TLAPS

-----------------------------------------------------------------------------
(* The invariants of the nodes map, as predicates of the map, so that the  *)
(* effect of addPod and removePod can be stated once.                      *)

NodesMap == [Nodes -> NodeInfo \cup {Nil}]

Holds(ns, n, uid) == ns[n] # Nil /\ Listed(ns[n], uid)

Once(ns) ==
    \A n \in Nodes : ns[n] # Nil =>
        /\ \A o \in ns[n].pods : o.node = n
        /\ \A o1, o2 \in ns[n].pods : o1.uid = o2.uid => o1 = o2

Ghosts(ns, tree) ==
    \A n \in Nodes :
        /\ n \in tree <=> (ns[n] # Nil /\ ns[n].node # Nil)
        /\ (ns[n] # Nil /\ ns[n].node = Nil) => ns[n].pods # {}

\* The key of a podState is the UID of its object (the inductive strengthening that
\* the operations using podStates[uid].pod need).
KeyedByUid == \A uid \in Pods : podStates[uid] # Nil => podStates[uid].pod.uid = uid

\* The inductive invariant.
IInv == TypeOK /\ KeyedByUid /\ AssumedCanExpire /\ PodsWhereTheyAre /\ TreeMatchesNodes

\* A new NodeInfo, or the one of the map, is a NodeInfo.
LEMMA InfoOfType ==
    ASSUME NEW ns \in NodesMap, NEW n \in Nodes
    PROVE  InfoOf(ns, n) \in NodeInfo
  BY DEF NodesMap, InfoOf, NewNodeInfo, NodeInfo

\* What InfoAddPod and InfoRemovePod change of a NodeInfo.
LEMMA InfoFields ==
    ASSUME NEW ni \in NodeInfo, NEW pod \in PodObjects
    PROVE  /\ InfoAddPod(ni, pod) \in NodeInfo
           /\ InfoAddPod(ni, pod).pods = ni.pods \cup {pod}
           /\ InfoAddPod(ni, pod).node = ni.node
           /\ InfoRemovePod(ni, pod) \in NodeInfo
           /\ InfoRemovePod(ni, pod).pods = {o \in ni.pods : o.uid # pod.uid}
           /\ InfoRemovePod(ni, pod).node = ni.node
<1>1. ASSUME NEW ps \in SUBSET PodObjects, NEW total \in Int
      PROVE  /\ [ni EXCEPT !.pods = ps, !.requested = total] \in NodeInfo
             /\ [ni EXCEPT !.pods = ps, !.requested = total].pods = ps
             /\ [ni EXCEPT !.pods = ps, !.requested = total].node = ni.node
  BY DEF NodeInfo
<1>2. ni.pods \in SUBSET PodObjects /\ ni.requested \in Int /\ Cpu(pod) \in Int
  BY ObjectsAssumption DEF NodeInfo
<1>3. /\ ni.pods \cup {pod} \in SUBSET PodObjects
      /\ {o \in ni.pods : o.uid # pod.uid} \in SUBSET PodObjects
  BY <1>2
<1>4. ni.requested + Cpu(pod) \in Int /\ ni.requested - Cpu(pod) \in Int
  BY <1>2
<1> QED
  BY <1>1, <1>3, <1>4, Zenon DEF InfoAddPod, InfoRemovePod

\* addPod adds the pod to the list of its node and to no other list.
LEMMA AddPodEffect ==
    ASSUME NEW ns \in NodesMap, NEW pod \in PodObjects, NEW tree,
           Once(ns), Ghosts(ns, tree), ~Holds(ns, pod.node, pod.uid)
    PROVE  /\ addPod(ns, pod) \in NodesMap
           /\ Once(addPod(ns, pod))
           /\ Ghosts(addPod(ns, pod), tree)
           /\ \A n \in Nodes, uid \in Pods :
                Holds(addPod(ns, pod), n, uid)
                    <=> (Holds(ns, n, uid) \/ (n = pod.node /\ uid = pod.uid))
<1> DEFINE ni == InfoOf(ns, pod.node)
           added == InfoAddPod(ni, pod)
           after == addPod(ns, pod)
<1>1. pod.uid \in Pods /\ pod.node \in Nodes /\ Cpu(pod) \in Int
  BY ObjectsAssumption
<1>2. ni \in NodeInfo
  BY <1>1, InfoOfType
<1>3. /\ added \in NodeInfo
      /\ added.pods = ni.pods \cup {pod}
      /\ added.node = ni.node
  BY <1>2, InfoFields
<1>4. added # Nil
  BY <1>3, NilAssumption
<1>5. /\ after[pod.node] = added
      /\ \A n \in Nodes : n # pod.node => after[n] = ns[n]
      /\ after \in NodesMap
  BY <1>1, <1>3 DEF addPod, NodesMap
<1>6. \A o \in ni.pods : o.node = pod.node /\ o.uid # pod.uid
  BY <1>1 DEF InfoOf, NewNodeInfo, Once, Holds, Listed
<1>7. \A o1, o2 \in ni.pods : o1.uid = o2.uid => o1 = o2
  BY <1>1 DEF InfoOf, NewNodeInfo, Once
<1>8. Once(after)
  <2> SUFFICES ASSUME NEW n \in Nodes, after[n] # Nil
               PROVE  /\ \A o \in after[n].pods : o.node = n
                      /\ \A o1, o2 \in after[n].pods : o1.uid = o2.uid => o1 = o2
    BY DEF Once
  <2>1. CASE n = pod.node
    BY <2>1, <1>3, <1>5, <1>6, <1>7
  <2>2. CASE n # pod.node
    BY <2>2, <1>5 DEF Once
  <2> QED
    BY <2>1, <2>2
<1>9. Ghosts(after, tree)
  <2> SUFFICES ASSUME NEW n \in Nodes
               PROVE  /\ n \in tree <=> (after[n] # Nil /\ after[n].node # Nil)
                      /\ (after[n] # Nil /\ after[n].node = Nil) => after[n].pods # {}
    BY DEF Ghosts
  <2>1. CASE n = pod.node
    BY <2>1, <1>1, <1>3, <1>4, <1>5 DEF Ghosts, InfoOf, NewNodeInfo
  <2>2. CASE n # pod.node
    BY <2>2, <1>5 DEF Ghosts
  <2> QED
    BY <2>1, <2>2
<1>10. ASSUME NEW n \in Nodes, NEW uid \in Pods
       PROVE  Holds(after, n, uid) <=> (Holds(ns, n, uid) \/ (n = pod.node /\ uid = pod.uid))
  <2>1. CASE n = pod.node
    <3>1. Holds(after, n, uid) <=> (uid = pod.uid \/ \E o \in ni.pods : o.uid = uid)
      BY <2>1, <1>3, <1>4, <1>5 DEF Holds, Listed
    <3>2. (\E o \in ni.pods : o.uid = uid) <=> Holds(ns, n, uid)
      BY <2>1 DEF InfoOf, NewNodeInfo, Holds, Listed
    <3> QED
      BY <2>1, <3>1, <3>2
  <2>2. CASE n # pod.node
    BY <2>2, <1>5 DEF Holds
  <2> QED
    BY <2>1, <2>2
<1> QED
  BY <1>5, <1>8, <1>9, <1>10

\* removePod takes the pod off the list of its node and off no other list.
LEMMA RemovePodEffect ==
    ASSUME NEW ns \in NodesMap, NEW pod \in PodObjects, NEW tree,
           Once(ns), Ghosts(ns, tree)
    PROVE  /\ removePod(ns, pod) \in NodesMap
           /\ Once(removePod(ns, pod))
           /\ Ghosts(removePod(ns, pod), tree)
           /\ \A n \in Nodes, uid \in Pods :
                Holds(removePod(ns, pod), n, uid)
                    <=> (Holds(ns, n, uid) /\ ~(n = pod.node /\ uid = pod.uid))
<1> DEFINE ni == ns[pod.node]
           left == InfoRemovePod(ni, pod)
           after == removePod(ns, pod)
<1>1. pod.uid \in Pods /\ pod.node \in Nodes /\ Cpu(pod) \in Int
  BY ObjectsAssumption
<1>2. CASE ni = Nil
  <2>1. after = ns
    BY <1>2 DEF removePod
  <2>2. \A uid \in Pods : ~Holds(ns, pod.node, uid)
    BY <1>2 DEF Holds
  <2> QED
    BY <2>1, <2>2
<1>3. CASE ni # Nil
  <2>1. ni \in NodeInfo
    BY <1>1, <1>3 DEF NodesMap
  <2>2. /\ left \in NodeInfo
        /\ left.pods = {o \in ni.pods : o.uid # pod.uid}
        /\ left.node = ni.node
    BY <2>1, InfoFields
  <2>3. left # Nil
    BY <2>2, NilAssumption
  <2>4. /\ after[pod.node] = KeepOrDrop(left)
        /\ \A n \in Nodes : n # pod.node => after[n] = ns[n]
        /\ after \in NodesMap
    BY <1>1, <1>3, <2>2 DEF removePod, KeepOrDrop, NodesMap
  <2>5. Once(after)
    <3> SUFFICES ASSUME NEW n \in Nodes, after[n] # Nil
                 PROVE  /\ \A o \in after[n].pods : o.node = n
                        /\ \A o1, o2 \in after[n].pods : o1.uid = o2.uid => o1 = o2
      BY DEF Once
    <3>1. CASE n = pod.node
      BY <3>1, <1>1, <1>3, <2>2, <2>4 DEF Once, KeepOrDrop
    <3>2. CASE n # pod.node
      BY <3>2, <2>4 DEF Once
    <3> QED
      BY <3>1, <3>2
  <2>6. Ghosts(after, tree)
    <3> SUFFICES ASSUME NEW n \in Nodes
                 PROVE  /\ n \in tree <=> (after[n] # Nil /\ after[n].node # Nil)
                        /\ (after[n] # Nil /\ after[n].node = Nil) => after[n].pods # {}
      BY DEF Ghosts
    <3>1. CASE n = pod.node
      BY <3>1, <1>1, <1>3, <2>2, <2>3, <2>4 DEF Ghosts, KeepOrDrop
    <3>2. CASE n # pod.node
      BY <3>2, <2>4 DEF Ghosts
    <3> QED
      BY <3>1, <3>2
  <2>7. ASSUME NEW n \in Nodes, NEW uid \in Pods
        PROVE  Holds(after, n, uid)
                 <=> (Holds(ns, n, uid) /\ ~(n = pod.node /\ uid = pod.uid))
    <3>1. CASE n = pod.node
      BY <3>1, <1>3, <2>2, <2>3, <2>4 DEF Holds, Listed, KeepOrDrop
    <3>2. CASE n # pod.node
      BY <3>2, <2>4 DEF Holds
    <3> QED
      BY <3>1, <3>2
  <2> QED
    BY <2>4, <2>5, <2>6, <2>7
<1> QED
  BY <1>2, <1>3

-----------------------------------------------------------------------------
(* The invariant is inductive.                                             *)

\* The parts of the invariant about the nodes map are the predicates above.
LEMMA InvOfMap ==
    ASSUME IInv
    PROVE  /\ nodes \in NodesMap
           /\ Once(nodes)
           /\ Ghosts(nodes, nodeTree)
           /\ \A n \in Nodes, uid \in Pods :
                Holds(nodes, n, uid) <=> (podStates[uid] # Nil /\ podStates[uid].pod.node = n)
  BY DEF IInv, TypeOK, NodesMap, PodsWhereTheyAre, ListedOnce, Once, TreeMatchesNodes,
         Ghosts, ListedIffCached, Holds

\* What has to be shown of a step that changes the pods of the cache.
LEMMA PodStep ==
    ASSUME IInv,
           podStates' \in [Pods -> PodState \cup {Nil}],
           assumedPods' \in SUBSET Pods,
           nodes' \in NodesMap, Once(nodes'), Ghosts(nodes', nodeTree),
           UNCHANGED nodeTree, UNCHANGED fatal,
           KeyedByUid', AssumedCanExpire', OnlyAssumedExpire',
           \A n \in Nodes, uid \in Pods :
              Holds(nodes', n, uid) <=> (podStates'[uid] # Nil /\ podStates'[uid].pod.node = n)
    PROVE  IInv'
  BY DEF IInv, TypeOK, NodesMap, PodsWhereTheyAre, ListedOnce, Once, TreeMatchesNodes,
         Ghosts, ListedIffCached, Holds

\* The podState of a new entry.
LEMMA NewPodStateFacts ==
    ASSUME NEW pod \in PodObjects
    PROVE  /\ NewPodState(pod) \in PodState
           /\ NewPodState(pod) # Nil
           /\ NewPodState(pod).pod = pod
           /\ ~NewPodState(pod).bindingFinished /\ ~NewPodState(pod).deadline
<1>1. NewPodState(pod) \in PodState
  BY Zenon DEF NewPodState, PodState
<1>2. /\ NewPodState(pod).pod = pod
      /\ ~NewPodState(pod).bindingFinished /\ ~NewPodState(pod).deadline
  BY Zenon DEF NewPodState
<1> QED
  BY <1>1, <1>2, NilAssumption

\* A step that leaves every variable alone keeps the invariant.
LEMMA Stutter ==
    ASSUME IInv, UNCHANGED vars
    PROVE  IInv'
  BY DEF IInv, vars, TypeOK, OnlyAssumedExpire, KeyedByUid, AssumedCanExpire, PodsWhereTheyAre, ListedIffCached,
         ListedOnce, TreeMatchesNodes, Listed

\* A pod that is in no NodeInfo is added to the cache, assumed or not.
LEMMA EnterStep ==
    ASSUME IInv, NEW pod \in PodObjects,
           podStates[pod.uid] = Nil,
           nodes' = addPod(nodes, pod),
           podStates' = [podStates EXCEPT ![pod.uid] = NewPodState(pod)],
           assumedPods' = assumedPods \cup {pod.uid} \/ assumedPods' = assumedPods,
           UNCHANGED <<nodeTree, fatal>>
    PROVE  IInv'
<1>1. pod.uid \in Pods /\ pod.node \in Nodes
  BY ObjectsAssumption
<1>2. /\ nodes' \in NodesMap
      /\ Once(nodes')
      /\ Ghosts(nodes', nodeTree)
      /\ \A n \in Nodes, uid \in Pods :
            Holds(nodes', n, uid)
                <=> (Holds(nodes, n, uid) \/ (n = pod.node /\ uid = pod.uid))
  BY <1>1, InvOfMap, AddPodEffect
<1>3. /\ podStates' \in [Pods -> PodState \cup {Nil}]
      /\ podStates'[pod.uid] = NewPodState(pod)
      /\ \A uid \in Pods : uid # pod.uid => podStates'[uid] = podStates[uid]
  BY <1>1, NewPodStateFacts DEF IInv, TypeOK
<1>4. assumedPods' \in SUBSET Pods
  BY <1>1 DEF IInv, TypeOK
<1>5. KeyedByUid'
  BY <1>3, NewPodStateFacts DEF IInv, KeyedByUid
<1>6. AssumedCanExpire'
  <2> SUFFICES ASSUME NEW uid \in assumedPods'
               PROVE  /\ podStates'[uid] # Nil
                      /\ podStates'[uid].bindingFinished => podStates'[uid].deadline
    BY DEF AssumedCanExpire
  <2>1. CASE uid = pod.uid
    BY <2>1, <1>3, NewPodStateFacts
  <2>2. CASE uid # pod.uid
    <3>1. uid \in assumedPods /\ podStates'[uid] = podStates[uid]
      BY <2>2, <1>3 DEF IInv, TypeOK
    <3> QED
      BY <3>1 DEF IInv, AssumedCanExpire
  <2> QED
    BY <2>1, <2>2
<1>7. \A n \in Nodes, uid \in Pods :
         Holds(nodes', n, uid) <=> (podStates'[uid] # Nil /\ podStates'[uid].pod.node = n)
  <2> SUFFICES ASSUME NEW n \in Nodes, NEW uid \in Pods
               PROVE  Holds(nodes', n, uid)
                        <=> (podStates'[uid] # Nil /\ podStates'[uid].pod.node = n)
    OBVIOUS
  <2>1. Holds(nodes, n, uid) <=> (podStates[uid] # Nil /\ podStates[uid].pod.node = n)
    BY InvOfMap
  <2>2. CASE uid = pod.uid
    BY <2>1, <2>2, <1>2, <1>3, NewPodStateFacts
  <2>3. CASE uid # pod.uid
    BY <2>1, <2>3, <1>2, <1>3
  <2> QED
    BY <2>2, <2>3
<1>8. OnlyAssumedExpire'
  BY <1>3, NewPodStateFacts DEF IInv, TypeOK, OnlyAssumedExpire
<1> QED
  BY <1>2, <1>3, <1>4, <1>5, <1>6, <1>7, <1>8, PodStep

\* A pod leaves the cache: it is taken off the node its podState names.
LEMMA LeaveStep ==
    ASSUME IInv, NEW uid0 \in Pods, NEW pod \in PodObjects,
           podStates[uid0] # Nil,
           pod.uid = uid0, pod.node = podStates[uid0].pod.node,
           nodes' = removePod(nodes, pod),
           podStates' = [podStates EXCEPT ![uid0] = Nil],
           assumedPods' = assumedPods \ {uid0},
           UNCHANGED <<nodeTree, fatal>>
    PROVE  IInv'
<1>1. /\ nodes' \in NodesMap
      /\ Once(nodes')
      /\ Ghosts(nodes', nodeTree)
      /\ \A n \in Nodes, uid \in Pods :
            Holds(nodes', n, uid)
                <=> (Holds(nodes, n, uid) /\ ~(n = pod.node /\ uid = pod.uid))
  BY InvOfMap, RemovePodEffect
<1>2. /\ podStates' \in [Pods -> PodState \cup {Nil}]
      /\ podStates'[uid0] = Nil
      /\ \A uid \in Pods : uid # uid0 => podStates'[uid] = podStates[uid]
  BY DEF IInv, TypeOK
<1>3. assumedPods' \in SUBSET Pods
  BY DEF IInv, TypeOK
<1>4. KeyedByUid'
  BY <1>2 DEF IInv, KeyedByUid
<1>5. AssumedCanExpire'
  BY <1>2 DEF IInv, AssumedCanExpire, TypeOK
<1>6. \A n \in Nodes, uid \in Pods :
         Holds(nodes', n, uid) <=> (podStates'[uid] # Nil /\ podStates'[uid].pod.node = n)
  BY <1>1, <1>2, InvOfMap
<1>7. OnlyAssumedExpire'
  BY <1>2 DEF IInv, TypeOK, OnlyAssumedExpire
<1> QED
  BY <1>1, <1>2, <1>3, <1>4, <1>5, <1>6, <1>7, PodStep

\* The object of a cached pod is an object, and its UID is the key.
LEMMA CachedObject ==
    ASSUME IInv, NEW uid \in Pods, podStates[uid] # Nil
    PROVE  /\ podStates[uid] \in PodState
           /\ podStates[uid].pod \in PodObjects
           /\ podStates[uid].pod.uid = uid
           /\ podStates[uid].pod.node \in Nodes
  BY ObjectsAssumption DEF IInv, TypeOK, KeyedByUid, PodState

\* The object of a cached pod is replaced, on its node or by moving it; the pod is
\* not assumed any more.
LEMMA ReplaceStep ==
    ASSUME IInv, NEW pod \in PodObjects, NEW st \in PodState,
           podStates[pod.uid] # Nil,
           st.pod = pod, ~st.deadline,
           podStates' = [podStates EXCEPT ![pod.uid] = st],
           assumedPods' = assumedPods \ {pod.uid},
           UNCHANGED <<nodeTree, fatal>>,
           \/ nodes' = nodes /\ podStates[pod.uid].pod.node = pod.node
           \/ \E old \in PodObjects :
                 /\ old.uid = pod.uid
                 /\ old.node = podStates[pod.uid].pod.node
                 /\ nodes' = addPod(removePod(nodes, old), pod)
    PROVE  IInv'
<1>1. pod.uid \in Pods /\ pod.node \in Nodes /\ st # Nil
  BY ObjectsAssumption, NilAssumption
<1>2. /\ podStates' \in [Pods -> PodState \cup {Nil}]
      /\ podStates'[pod.uid] = st
      /\ \A uid \in Pods : uid # pod.uid => podStates'[uid] = podStates[uid]
  BY <1>1 DEF IInv, TypeOK
<1>3. assumedPods' \in SUBSET Pods
  BY DEF IInv, TypeOK
<1>4. KeyedByUid'
  BY <1>2 DEF IInv, KeyedByUid
<1>5. AssumedCanExpire' /\ OnlyAssumedExpire'
  BY <1>2 DEF IInv, AssumedCanExpire, TypeOK, OnlyAssumedExpire
<1> DEFINE Replaced ==
             /\ nodes' \in NodesMap
             /\ Once(nodes')
             /\ Ghosts(nodes', nodeTree)
             /\ \A n \in Nodes, uid \in Pods :
                   Holds(nodes', n, uid)
                     <=> (IF uid = pod.uid THEN n = pod.node ELSE Holds(nodes, n, uid))
<1>6. Replaced
  <2>1. CASE nodes' = nodes /\ podStates[pod.uid].pod.node = pod.node
    BY <2>1, InvOfMap
  <2>2. ASSUME NEW old \in PodObjects,
               old.uid = pod.uid,
               old.node = podStates[pod.uid].pod.node,
               nodes' = addPod(removePod(nodes, old), pod)
        PROVE  Replaced
    <3> DEFINE cleaned == removePod(nodes, old)
    <3>1. /\ cleaned \in NodesMap
          /\ Once(cleaned)
          /\ Ghosts(cleaned, nodeTree)
          /\ \A n \in Nodes, uid \in Pods :
                Holds(cleaned, n, uid)
                    <=> (Holds(nodes, n, uid) /\ ~(n = old.node /\ uid = old.uid))
      BY InvOfMap, RemovePodEffect
    <3>2. \A n \in Nodes : ~Holds(cleaned, n, pod.uid)
      BY <1>1, <2>2, <3>1, InvOfMap
    <3> HIDE DEF cleaned
    <3>3. /\ addPod(cleaned, pod) \in NodesMap
          /\ Once(addPod(cleaned, pod))
          /\ Ghosts(addPod(cleaned, pod), nodeTree)
          /\ \A n \in Nodes, uid \in Pods :
                Holds(addPod(cleaned, pod), n, uid)
                    <=> (Holds(cleaned, n, uid) \/ (n = pod.node /\ uid = pod.uid))
      BY <1>1, <3>1, <3>2, AddPodEffect
    <3>4. nodes' = addPod(cleaned, pod)
      BY <2>2 DEF cleaned
    <3>5. ASSUME NEW n \in Nodes, NEW uid \in Pods
          PROVE  Holds(nodes', n, uid)
                   <=> (IF uid = pod.uid THEN n = pod.node ELSE Holds(nodes, n, uid))
      BY <2>2, <3>1, <3>2, <3>3, <3>4
    <3> QED
      BY <3>3, <3>4, <3>5
  <2> QED
    BY <2>1, <2>2
<1>7. ASSUME NEW n \in Nodes, NEW uid \in Pods
      PROVE  Holds(nodes', n, uid)
               <=> (podStates'[uid] # Nil /\ podStates'[uid].pod.node = n)
  <2>1. Holds(nodes, n, uid) <=> (podStates[uid] # Nil /\ podStates[uid].pod.node = n)
    BY InvOfMap
  <2>2. CASE uid = pod.uid
    BY <2>2, <1>1, <1>2, <1>6
  <2>3. CASE uid # pod.uid
    BY <2>1, <2>3, <1>2, <1>6
  <2> QED
    BY <2>2, <2>3
<1> QED
  BY <1>2, <1>3, <1>4, <1>5, <1>6, <1>7, PodStep

\* Operations on pods keep the invariant.
LEMMA PodOperationStep ==
    ASSUME IInv, PodOperation
    PROVE  IInv'
<1>1. ASSUME NEW o \in PodObjects, AssumePod(o)
      PROVE  IInv'
  BY <1>1, EnterStep, Stutter DEF AssumePod
<1>2. ASSUME NEW o \in PodObjects, ForgetPod(o)
      PROVE  IInv'
  <2>1. o.uid \in Pods
    BY ObjectsAssumption
  <2> QED
    BY <1>2, <2>1, LeaveStep, Stutter DEF ForgetPod, Forgettable
<1>3. ASSUME NEW o \in PodObjects, CorruptedBy(o)
      PROVE  IInv'
  BY <1>3 DEF CorruptedBy, IInv, TypeOK, OnlyAssumedExpire, KeyedByUid, AssumedCanExpire, PodsWhereTheyAre,
              ListedIffCached, ListedOnce, TreeMatchesNodes, Listed
<1>4. ASSUME NEW o \in PodObjects, RemovePod(o)
      PROVE  IInv'
  <2>1. o.uid \in Pods
    BY ObjectsAssumption
  <2>2. CASE /\ Deletable(o)
             /\ nodes' = removePod(nodes, podStates[o.uid].pod)
             /\ podStates' = [podStates EXCEPT ![o.uid] = Nil]
             /\ UNCHANGED <<assumedPods, nodeTree, fatal>>
    <3>1. podStates[o.uid] # Nil /\ o.uid \notin assumedPods
      BY <2>2 DEF Deletable, IsAddedPod
    <3>2. assumedPods' = assumedPods \ {o.uid}
      BY <2>2, <3>1
    <3> QED
      BY <2>1, <2>2, <3>1, <3>2, CachedObject, LeaveStep
  <2> QED
    BY <1>3, <1>4, <2>2, Stutter DEF RemovePod
<1>5. ASSUME NEW o \in PodObjects, AddPod(o)
      PROVE  IInv'
  <2>1. o.uid \in Pods
    BY ObjectsAssumption
  <2>2. CASE ConfirmPod(o)
    <3> DEFINE st == [podStates[o.uid] EXCEPT !.deadline = FALSE, !.pod = o]
    <3>1. podStates[o.uid] # Nil
      BY <2>2 DEF ConfirmPod
    <3>2. podStates[o.uid] \in PodState
      BY <2>1, <3>1, CachedObject
    <3>3. st \in PodState /\ st.pod = o /\ ~st.deadline
      BY <3>2 DEF PodState
    <3>4. podStates' = [podStates EXCEPT ![o.uid] = st]
      BY <2>1, <2>2 DEF ConfirmPod, IInv, TypeOK
    <3>5. assumedPods' = assumedPods \ {o.uid} /\ UNCHANGED <<nodeTree, fatal>>
      BY <2>2 DEF ConfirmPod
    <3>6. \/ nodes' = nodes /\ podStates[o.uid].pod.node = o.node
          \/ nodes' = addPod(removePod(nodes, podStates[o.uid].pod), o)
      <4>1. Removable(nodes, podStates[o.uid].pod)
        BY <2>1, <3>1, CachedObject, InvOfMap DEF Removable, Holds
      <4> QED
        BY <2>2, <4>1 DEF ConfirmPod
    <3> HIDE DEF st
    <3> QED
      BY <2>1, <3>1, <3>3, <3>4, <3>5, <3>6, CachedObject, ReplaceStep
  <2> QED
    BY <1>5, <2>2, EnterStep, Stutter DEF AddPod
<1>6. ASSUME NEW old \in PodObjects, NEW new \in PodObjects,
             old.uid = new.uid, old.node = new.node, UpdatePod(old, new)
      PROVE  IInv'
  <2>1. new.uid \in Pods
    BY ObjectsAssumption
  <2>2. CASE /\ Updatable(old, new)
             /\ nodes' = updatePod(nodes, old, new)
             /\ podStates' = [podStates EXCEPT ![old.uid].pod = new]
             /\ UNCHANGED <<assumedPods, nodeTree, fatal>>
    <3> DEFINE st == [podStates[new.uid] EXCEPT !.pod = new]
    <3>1. podStates[new.uid] # Nil /\ new.uid \notin assumedPods
      BY <1>6, <2>2 DEF Updatable, IsAddedPod
    <3>2. podStates[new.uid] \in PodState
      BY <2>1, <3>1, CachedObject
    <3>3. st \in PodState /\ st.pod = new /\ ~st.deadline
      BY <2>1, <3>1, <3>2 DEF PodState, IInv, TypeOK, OnlyAssumedExpire
    <3>4. podStates' = [podStates EXCEPT ![new.uid] = st]
      BY <1>6, <2>2
    <3>5. assumedPods' = assumedPods \ {new.uid}
      BY <2>2, <3>1
    <3>6. /\ old.node = podStates[new.uid].pod.node
          /\ nodes' = addPod(removePod(nodes, old), new)
      BY <1>6, <2>2 DEF Updatable, updatePod
    <3> HIDE DEF st
    <3> QED
      BY <1>6, <2>2, <3>1, <3>3, <3>4, <3>5, <3>6, ReplaceStep
  <2> QED
    BY <1>3, <1>6, <2>2, Stutter DEF UpdatePod
<1>7. ASSUME NEW uid \in Pods, FinishBinding(uid)
      PROVE  IInv'
  <2>1. CASE /\ podStates[uid] # Nil /\ uid \in assumedPods
             /\ podStates' = [podStates EXCEPT ![uid].deadline = TRUE,
                                               ![uid].bindingFinished = TRUE]
             /\ UNCHANGED <<assumedPods, nodes, nodeTree, fatal>>
    <3> DEFINE st == [podStates[uid] EXCEPT !.deadline = TRUE, !.bindingFinished = TRUE]
    <3>1. podStates[uid] \in PodState
      BY <2>1, CachedObject
    <3>2. st \in PodState /\ st.pod = podStates[uid].pod /\ st.deadline
      BY <3>1 DEF PodState
    <3>3. st # Nil
      BY <3>2, NilAssumption
    <3>4. podStates' = [podStates EXCEPT ![uid] = st]
      BY <2>1 DEF IInv, TypeOK
    <3> HIDE DEF st
    <3>5. /\ podStates' \in [Pods -> PodState \cup {Nil}]
          /\ podStates'[uid] = st
          /\ \A u \in Pods : u # uid => podStates'[u] = podStates[u]
      BY <3>2, <3>4 DEF IInv, TypeOK
    <3>6. KeyedByUid'
      BY <2>1, <3>2, <3>5 DEF IInv, KeyedByUid
    <3>7. AssumedCanExpire'
      <4> SUFFICES ASSUME NEW u \in assumedPods'
                   PROVE  /\ podStates'[u] # Nil
                          /\ podStates'[u].bindingFinished => podStates'[u].deadline
        BY DEF AssumedCanExpire
      <4>1. CASE u = uid
        BY <4>1, <3>2, <3>3, <3>5
      <4>2. CASE u # uid
        <5>1. u \in assumedPods /\ podStates'[u] = podStates[u]
          BY <4>2, <2>1, <3>5 DEF IInv, TypeOK
        <5> QED
          BY <5>1 DEF IInv, AssumedCanExpire
      <4> QED
        BY <4>1, <4>2
    <3>8. ASSUME NEW n \in Nodes, NEW u \in Pods
          PROVE  Holds(nodes', n, u)
                   <=> (podStates'[u] # Nil /\ podStates'[u].pod.node = n)
      <4>1. Holds(nodes, n, u) <=> (podStates[u] # Nil /\ podStates[u].pod.node = n)
        BY InvOfMap
      <4> QED
        BY <4>1, <2>1, <3>2, <3>3, <3>5
    <3>9. assumedPods' \in SUBSET Pods /\ nodes' \in NodesMap /\ Once(nodes')
             /\ Ghosts(nodes', nodeTree) /\ UNCHANGED nodeTree /\ UNCHANGED fatal
      BY <2>1, InvOfMap DEF IInv, TypeOK
    <3>10. OnlyAssumedExpire'
      BY <2>1, <3>5 DEF IInv, TypeOK, OnlyAssumedExpire
    <3> QED
      BY <3>5, <3>6, <3>7, <3>8, <3>9, <3>10, PodStep
  <2> QED
    BY <1>7, <2>1, Stutter DEF FinishBinding, IsAssumedPod
<1>8. ASSUME NEW uid \in Pods, ExpirePod(uid)
      PROVE  IInv'
  BY <1>8, CachedObject, LeaveStep DEF ExpirePod
<1> QED
  BY <1>1, <1>2, <1>4, <1>5, <1>6, <1>7, <1>8 DEF PodOperation

\* Operations on nodes keep the invariant: they leave the pods of a NodeInfo alone.
LEMMA NodeOperationStep ==
    ASSUME IInv, NodeOperation
    PROVE  IInv'
<1>1. PICK n \in Nodes :
         \/ \E obj \in NodeObjects : AddNode(n, obj)
         \/ \E obj \in NodeObjects : n \in nodeTree /\ UpdateNode(n, obj)
         \/ RemoveNode(n)
  BY DEF NodeOperation
<1> DEFINE SetTo(ni, obj) ==
             /\ nodes' = [nodes EXCEPT ![n] = InfoSetNode(ni, obj)]
             /\ nodeTree' = nodeTree \cup {n}
             /\ UNCHANGED <<podStates, assumedPods, fatal>>
<1>2. ASSUME NEW obj \in NodeObjects, SetTo(InfoOf(nodes, n), obj)
      PROVE  IInv'
  <2> DEFINE ni == InfoOf(nodes, n)
             new == InfoSetNode(ni, obj)
  <2>1. ni \in NodeInfo
    BY InvOfMap, InfoOfType
  <2>2. new \in NodeInfo /\ new.node = obj /\ new.pods = ni.pods
    BY <2>1 DEF InfoSetNode, NodeInfo
  <2>3. new # Nil /\ obj # Nil
    BY <2>2, NilAssumption, ObjectsAssumption
  <2>4. ni.pods = IF nodes[n] = Nil THEN {} ELSE nodes[n].pods
    BY DEF InfoOf, NewNodeInfo
  <2> HIDE DEF ni, new
  <2>5. /\ nodes' \in [Nodes -> NodeInfo \cup {Nil}]
        /\ nodes'[n] = new
        /\ \A m \in Nodes : m # n => nodes'[m] = nodes[m]
    BY <1>2, <2>2 DEF IInv, TypeOK, ni, new
  <2>6. TypeOK' /\ KeyedByUid' /\ AssumedCanExpire'
    BY <1>2, <2>5 DEF IInv, TypeOK, OnlyAssumedExpire, KeyedByUid, AssumedCanExpire
  <2>7. ListedIffCached'
    <3> SUFFICES ASSUME NEW m \in Nodes, NEW uid \in Pods
                 PROVE  (nodes'[m] # Nil /\ Listed(nodes'[m], uid))
                            <=> (podStates'[uid] # Nil /\ podStates'[uid].pod.node = m)
      BY DEF ListedIffCached, Listed
    <3>1. (nodes[m] # Nil /\ Listed(nodes[m], uid))
             <=> (podStates'[uid] # Nil /\ podStates'[uid].pod.node = m)
      BY <1>2 DEF IInv, PodsWhereTheyAre, ListedIffCached
    <3>2. (nodes'[m] # Nil /\ Listed(nodes'[m], uid)) <=> (nodes[m] # Nil /\ Listed(nodes[m], uid))
      BY <2>2, <2>3, <2>4, <2>5 DEF Listed
    <3> QED
      BY <3>1, <3>2
  <2>8. ListedOnce'
    BY <2>2, <2>3, <2>4, <2>5 DEF IInv, PodsWhereTheyAre, ListedOnce
  <2>9. TreeMatchesNodes'
    BY <1>2, <2>2, <2>3, <2>4, <2>5 DEF IInv, TreeMatchesNodes
  <2> QED
    BY <2>6, <2>7, <2>8, <2>9 DEF IInv, PodsWhereTheyAre
<1>3. ASSUME NEW obj \in NodeObjects, n \in nodeTree, UpdateNode(n, obj)
      PROVE  SetTo(InfoOf(nodes, n), obj)
  BY <1>3 DEF UpdateNode
<1>4. CASE RemoveNode(n) /\ nodes[n] # Nil
  <2> DEFINE bare == InfoSetNode(nodes[n], Nil)
  <2>1. nodes[n] \in NodeInfo
    BY <1>4 DEF IInv, TypeOK
  <2>2. bare \in NodeInfo /\ bare.node = Nil /\ bare.pods = nodes[n].pods
    BY <2>1 DEF InfoSetNode, NodeInfo
  <2>3. bare # Nil
    BY <2>2, NilAssumption
  <2>4. /\ nodes' = [nodes EXCEPT ![n] = KeepOrDrop(bare)]
        /\ nodeTree' = nodeTree \ {n}
        /\ UNCHANGED <<podStates, assumedPods, fatal>>
    BY <1>4 DEF RemoveNode
  <2> HIDE DEF bare
  <2>5. KeepOrDrop(bare) = IF nodes[n].pods = {} THEN Nil ELSE bare
    BY <2>2 DEF KeepOrDrop
  <2>6. /\ nodes' \in [Nodes -> NodeInfo \cup {Nil}]
        /\ nodes'[n] = IF nodes[n].pods = {} THEN Nil ELSE bare
        /\ \A m \in Nodes : m # n => nodes'[m] = nodes[m]
    BY <2>2, <2>4, <2>5 DEF IInv, TypeOK
  <2>7. TypeOK' /\ KeyedByUid' /\ AssumedCanExpire'
    BY <2>4, <2>6 DEF IInv, TypeOK, OnlyAssumedExpire, KeyedByUid, AssumedCanExpire
  <2>8. ListedIffCached'
    <3> SUFFICES ASSUME NEW m \in Nodes, NEW uid \in Pods
                 PROVE  (nodes'[m] # Nil /\ Listed(nodes'[m], uid))
                            <=> (podStates'[uid] # Nil /\ podStates'[uid].pod.node = m)
      BY DEF ListedIffCached, Listed
    <3>1. (nodes[m] # Nil /\ Listed(nodes[m], uid))
             <=> (podStates'[uid] # Nil /\ podStates'[uid].pod.node = m)
      BY <2>4 DEF IInv, PodsWhereTheyAre, ListedIffCached
    <3>2. (nodes'[m] # Nil /\ Listed(nodes'[m], uid)) <=> (nodes[m] # Nil /\ Listed(nodes[m], uid))
      BY <1>4, <2>2, <2>3, <2>6 DEF Listed
    <3> QED
      BY <3>1, <3>2
  <2>9. ListedOnce'
    BY <1>4, <2>2, <2>3, <2>6 DEF IInv, PodsWhereTheyAre, ListedOnce
  <2>10. TreeMatchesNodes'
    BY <2>2, <2>3, <2>4, <2>6 DEF IInv, TreeMatchesNodes
  <2> QED
    BY <2>7, <2>8, <2>9, <2>10 DEF IInv, PodsWhereTheyAre
<1>5. CASE RemoveNode(n) /\ nodes[n] = Nil
  BY <1>5, Stutter DEF RemoveNode
<1> QED
  BY <1>1, <1>2, <1>3, <1>4, <1>5 DEF AddNode

\* An empty cache satisfies the invariant, at the start and after a restart.
LEMMA EmptyCache ==
    ASSUME Init
    PROVE  IInv
  BY DEF Init, IInv, TypeOK, OnlyAssumedExpire, KeyedByUid, AssumedCanExpire,
         PodsWhereTheyAre, ListedIffCached, ListedOnce, TreeMatchesNodes

\* klog.Fatal is followed by an empty cache.
LEMMA RestartStep ==
    ASSUME Restart
    PROVE  IInv'
  BY DEF Restart, IInv, TypeOK, OnlyAssumedExpire, KeyedByUid, AssumedCanExpire,
         PodsWhereTheyAre, ListedIffCached, ListedOnce, TreeMatchesNodes

\* Every step of the cache keeps the invariant.
LEMMA Inductive == IInv /\ [Next]_vars => IInv'
  BY Stutter, RestartStep, PodOperationStep, NodeOperationStep DEF Next

\* The invariant holds in every reachable state.
LEMMA InvariantHolds == Spec => []IInv
  BY EmptyCache, Inductive, PTL DEF Spec

-----------------------------------------------------------------------------
(* Theorems.                                                               *)

\* The cache's data structures have their types in every reachable state: in
\* particular no NodeInfo or podState is half built by any operation.
THEOREM TypeCorrect == Spec => []TypeOK
  BY InvariantHolds, PTL DEF IInv

\* Pods are where they are: for any pods, nodes and order of calls to cache.go, the
\* NodeInfos list exactly the pods of podStates, each once and on its own node.
THEOREM PodsAreWhereTheyAre == Spec => []PodsWhereTheyAre
  BY InvariantHolds, PTL DEF IInv

\* cleanupAssumedPods never meets an assumed key without a podState, nor a finished
\* binding without a deadline.
THEOREM JanitorIsSafe == Spec => []AssumedCanExpire
  BY InvariantHolds, PTL DEF IInv

\* The node tree and the nodes map agree, and ghosts of removed nodes have pods.
THEOREM TreeIsRight == Spec => []TreeMatchesNodes
  BY InvariantHolds, PTL DEF IInv

\* An added pod stays added on its node until it is removed.
LEMMA AddedStep ==
    ASSUME IInv, [Next]_vars, NEW uid \in Pods, ~fatal, IsAddedPod(uid)
    PROVE  \/ podStates'[uid] = Nil
           \/ /\ uid \notin assumedPods'
              /\ podStates'[uid].pod.node = podStates[uid].pod.node
<1> DEFINE Stable == /\ uid \notin assumedPods'
                     /\ podStates'[uid].pod.node = podStates[uid].pod.node
<1>1. uid \notin assumedPods /\ podStates[uid] # Nil
  BY DEF IsAddedPod
<1>2. podStates \in [Pods -> PodState \cup {Nil}] /\ podStates[uid] \in PodState
  BY <1>1, CachedObject DEF IInv, TypeOK
<1>3. CASE UNCHANGED vars
  BY <1>1, <1>3 DEF vars
<1>4. ASSUME NEW o \in PodObjects, AssumePod(o) \/ ForgetPod(o) \/ AddPod(o) \/ RemovePod(o)
      PROVE  podStates'[uid] = Nil \/ Stable
  <2>1. o.uid \in Pods
    BY ObjectsAssumption
  <2>2. CASE o.uid = uid
    BY <1>1, <1>2, <1>3, <1>4, <2>2 DEF AssumePod, ForgetPod, Forgettable, AddPod, ConfirmPod, RemovePod,
        CorruptedBy, IsAssumedPod
  <2>3. CASE o.uid # uid
    <3>1. podStates'[uid] = podStates[uid]
      BY <1>2, <1>4, <2>3 DEF AssumePod, ForgetPod, AddPod, ConfirmPod, RemovePod, CorruptedBy, vars
    <3>2. uid \notin assumedPods'
      BY <1>1, <1>4, <2>3 DEF AssumePod, ForgetPod, AddPod, ConfirmPod, RemovePod, CorruptedBy, vars
    <3> QED
      BY <3>1, <3>2
  <2> QED
    BY <2>2, <2>3
<1>5. ASSUME NEW old \in PodObjects, NEW new \in PodObjects,
             old.uid = new.uid, old.node = new.node, UpdatePod(old, new)
      PROVE  Stable
  <2>1. CASE UNCHANGED <<podStates, assumedPods>>
    BY <1>1, <2>1
  <2>2. CASE /\ podStates[old.uid].pod.node = new.node
             /\ podStates' = [podStates EXCEPT ![old.uid].pod = new]
             /\ UNCHANGED assumedPods
    <3>1. CASE uid = old.uid
      <4>1. podStates'[uid] = [podStates[uid] EXCEPT !.pod = new]
        BY <1>2, <2>2, <3>1
      <4>2. podStates'[uid].pod = new
        BY <1>2, <4>1 DEF PodState
      <4> QED
        BY <1>1, <2>2, <3>1, <4>2
    <3>2. CASE uid # old.uid
      BY <1>1, <1>2, <2>2, <3>2
    <3> QED
      BY <3>1, <3>2
  <2> QED
    BY <1>5, <2>1, <2>2 DEF UpdatePod, Updatable, CorruptedBy, vars
<1>6. ASSUME NEW u \in Pods, FinishBinding(u) \/ ExpirePod(u)
      PROVE  Stable
  BY <1>1, <1>2, <1>6 DEF FinishBinding, ExpirePod, IsAssumedPod, vars
<1>7. CASE NodeOperation
  BY <1>1, <1>7 DEF NodeOperation, AddNode, UpdateNode, RemoveNode, vars
<1> QED
  BY <1>3, <1>4, <1>5, <1>6, <1>7 DEF Next, Restart, PodOperation

\* No operation moves an added pod to another node or back to the assumed state
\* while the process lives (cache.go: UpdatePod and RemovePod call klog.Fatal first).
THEOREM AddedPodsAreStable == Spec => AddedIsStable
<1>1. IInv /\ [Next]_vars =>
        [\A uid \in Pods :
          (~fatal /\ IsAddedPod(uid)) =>
            \/ podStates'[uid] = Nil
            \/ /\ uid \notin assumedPods'
               /\ podStates'[uid].pod.node = podStates[uid].pod.node]_vars
  BY AddedStep
<1> QED
  BY <1>1, InvariantHolds, PTL DEF Spec, AddedIsStable

-----------------------------------------------------------------------------
(* Refinement.                                                             *)

\* The abstract state of a pod, read off podStates alone.
StateOf(uid) ==
    IF podStates[uid] = Nil THEN Nil
    ELSE IF uid \in assumedPods THEN Lifecycle!Assumed(podStates[uid].pod.node)
    ELSE Lifecycle!Added(podStates[uid].pod.node)

\* Because the two structures agree, the refinement mapping computes the same state
\* from the NodeInfos.
MappingIsStateOf == \A uid \in Pods : LifeOf(uid) = StateOf(uid)

\* Under the invariant the two readings agree, before a step ...
LEMMA MappingHolds == IInv => MappingIsStateOf
<1> SUFFICES ASSUME IInv, NEW uid \in Pods
             PROVE  LifeOf(uid) = StateOf(uid)
  BY DEF MappingIsStateOf
<1>1. \A n \in Nodes :
         CountedOn(uid, n) <=> (podStates[uid] # Nil /\ podStates[uid].pod.node = n)
  BY DEF IInv, PodsWhereTheyAre, ListedIffCached, CountedOn
<1>2. CASE podStates[uid] = Nil
  BY <1>1, <1>2 DEF LifeOf, StateOf
<1>3. CASE podStates[uid] # Nil
  <2>1. podStates[uid].pod.node \in Nodes
    BY <1>3, CachedObject
  <2>2. (CHOOSE n \in Nodes : CountedOn(uid, n)) = podStates[uid].pod.node
    BY <1>1, <1>3, <2>1
  <2> QED
    BY <1>1, <1>3, <2>1, <2>2 DEF LifeOf, StateOf, Lifecycle!Assumed, Lifecycle!Added
<1> QED
  BY <1>2, <1>3

\* ... and after it.
LEMMA MappingHoldsNext == IInv' => MappingIsStateOf'
  BY MappingHolds, PTL

\* What a step of the cache may do to one pod.
Allowed(old, new) ==
    \/ old = Nil /\ \E n \in Nodes : new = Lifecycle!Assumed(n) \/ new = Lifecycle!Added(n)
    \/ (\E n \in Nodes : old = Lifecycle!Assumed(n))
          /\ (new = Nil \/ \E n \in Nodes : new = Lifecycle!Added(n))
    \/ (\E n \in Nodes : old = Lifecycle!Added(n)) /\ new = Nil

\* A step that changes one pod in an allowed way is a step of PodLifecycle.
LEMMA OnePodStep ==
    ASSUME IInv, IInv', NEW uid \in Pods,
           Allowed(StateOf(uid), StateOf(uid)'),
           \A u \in Pods : u # uid => StateOf(u)' = StateOf(u)
    PROVE  Lifecycle!Next
<1> DEFINE life == [u \in Pods |-> LifeOf(u)]
<1>1. MappingIsStateOf /\ MappingIsStateOf'
  BY MappingHolds, MappingHoldsNext
<1>2. /\ life' = [life EXCEPT ![uid] = StateOf(uid)']
      /\ life[uid] = StateOf(uid)
  BY <1>1 DEF MappingIsStateOf
<1> SUFFICES \/ Lifecycle!Assume(uid) \/ Lifecycle!Drop(uid)
             \/ Lifecycle!Add(uid) \/ Lifecycle!Remove(uid)
  BY DEF Lifecycle!Next
<1>3. CASE StateOf(uid) = Nil /\ \E n \in Nodes : StateOf(uid)' = Lifecycle!Assumed(n)
  BY <1>2, <1>3 DEF Lifecycle!Assume
<1>4. CASE /\ StateOf(uid) = Nil \/ \E n \in Nodes : StateOf(uid) = Lifecycle!Assumed(n)
           /\ \E n \in Nodes : StateOf(uid)' = Lifecycle!Added(n)
  BY <1>2, <1>4 DEF Lifecycle!Add, Lifecycle!AssumedStates
<1>5. CASE (\E n \in Nodes : StateOf(uid) = Lifecycle!Assumed(n)) /\ StateOf(uid)' = Nil
  BY <1>2, <1>5 DEF Lifecycle!Drop, Lifecycle!AssumedStates
<1>6. CASE (\E n \in Nodes : StateOf(uid) = Lifecycle!Added(n)) /\ StateOf(uid)' = Nil
  BY <1>2, <1>6 DEF Lifecycle!Remove, Lifecycle!AddedStates
<1> QED
  BY <1>3, <1>4, <1>5, <1>6 DEF Allowed

\* The effect of a step on the abstract states: none, or an allowed one on one pod.
NoEffect == \A u \in Pods : StateOf(u)' = StateOf(u)

OneEffect(uid) ==
    /\ Allowed(StateOf(uid), StateOf(uid)')
    /\ \A u \in Pods : u # uid => StateOf(u)' = StateOf(u)

\* Only the entries of podStates and assumedPods matter.
LEMMA SameEntries ==
    ASSUME UNCHANGED <<podStates, assumedPods>>
    PROVE  NoEffect
  BY DEF NoEffect, StateOf

\* Every operation on pods moves at most one pod, along an arrow of the diagram.
LEMMA PodOperationEffect ==
    ASSUME IInv, PodOperation
    PROVE  NoEffect \/ \E uid \in Pods : OneEffect(uid)
<1>1. podStates \in [Pods -> PodState \cup {Nil}]
  BY DEF IInv, TypeOK
<1>2. ASSUME NEW o \in PodObjects, podStates[o.uid] = Nil,
             podStates' = [podStates EXCEPT ![o.uid] = NewPodState(o)],
             assumedPods' = assumedPods \cup {o.uid} \/ assumedPods' = assumedPods
      PROVE  OneEffect(o.uid)
  <2>1. o.uid \in Pods /\ o.node \in Nodes
    BY ObjectsAssumption
  <2>2. /\ podStates'[o.uid] # Nil
        /\ podStates'[o.uid].pod.node = o.node
        /\ \A u \in Pods : u # o.uid => podStates'[u] = podStates[u]
    BY <1>1, <1>2, <2>1, NewPodStateFacts
  <2>3. StateOf(o.uid) = Nil
    BY <1>2 DEF StateOf
  <2>4. StateOf(o.uid)' = Lifecycle!Assumed(o.node) \/ StateOf(o.uid)' = Lifecycle!Added(o.node)
    BY <2>2 DEF StateOf
  <2>5. \A u \in Pods : u # o.uid => StateOf(u)' = StateOf(u)
    BY <1>2, <2>2 DEF StateOf
  <2> QED
    BY <2>1, <2>3, <2>4, <2>5 DEF OneEffect, Allowed
<1>3. ASSUME NEW uid \in Pods, podStates[uid] # Nil,
             podStates' = [podStates EXCEPT ![uid] = Nil],
             assumedPods' = assumedPods \ {uid} \/ assumedPods' = assumedPods
      PROVE  OneEffect(uid)
  <2>1. podStates[uid].pod.node \in Nodes
    BY <1>3, CachedObject
  <2>2. /\ podStates'[uid] = Nil
        /\ \A u \in Pods : u # uid => podStates'[u] = podStates[u]
    BY <1>1, <1>3
  <2>3. \E n \in Nodes : StateOf(uid) = Lifecycle!Assumed(n) \/ StateOf(uid) = Lifecycle!Added(n)
    BY <1>3, <2>1 DEF StateOf
  <2>4. StateOf(uid)' = Nil
    BY <2>2 DEF StateOf
  <2>5. \A u \in Pods : u # uid => StateOf(u)' = StateOf(u)
    BY <1>3, <2>2 DEF StateOf
  <2> QED
    BY <2>3, <2>4, <2>5 DEF OneEffect, Allowed
<1>4. ASSUME NEW o \in PodObjects, ConfirmPod(o)
      PROVE  OneEffect(o.uid)
  <2>1. o.uid \in Pods /\ o.node \in Nodes
    BY ObjectsAssumption
  <2>2. podStates[o.uid] # Nil /\ o.uid \in assumedPods
    BY <1>4 DEF ConfirmPod, IsAssumedPod
  <2>3. podStates[o.uid] \in PodState /\ podStates[o.uid].pod.node \in Nodes
    BY <2>1, <2>2, CachedObject
  <2> DEFINE st == [podStates[o.uid] EXCEPT !.deadline = FALSE, !.pod = o]
  <2>4. st \in PodState /\ st.pod = o
    BY <2>3 DEF PodState
  <2>5. podStates' = [podStates EXCEPT ![o.uid] = st] /\ assumedPods' = assumedPods \ {o.uid}
    BY <1>1, <1>4, <2>1 DEF ConfirmPod
  <2> HIDE DEF st
  <2>6. /\ podStates'[o.uid] # Nil
        /\ podStates'[o.uid].pod.node = o.node
        /\ \A u \in Pods : u # o.uid => podStates'[u] = podStates[u]
    BY <1>1, <2>1, <2>4, <2>5, NilAssumption
  <2>7. StateOf(o.uid) = Lifecycle!Assumed(podStates[o.uid].pod.node)
    BY <2>2 DEF StateOf
  <2>8. StateOf(o.uid)' = Lifecycle!Added(o.node)
    BY <2>5, <2>6 DEF StateOf
  <2>9. \A u \in Pods : u # o.uid => StateOf(u)' = StateOf(u)
    BY <2>5, <2>6 DEF StateOf
  <2> QED
    BY <2>1, <2>3, <2>7, <2>8, <2>9 DEF OneEffect, Allowed
<1>5. ASSUME NEW uid \in Pods, NEW st \in PodState,
             podStates[uid] # Nil,
             st.pod.node = podStates[uid].pod.node,
             podStates' = [podStates EXCEPT ![uid] = st],
             UNCHANGED assumedPods
      PROVE  NoEffect
  <2>1. /\ podStates'[uid] = st
        /\ st # Nil
        /\ \A u \in Pods : u # uid => podStates'[u] = podStates[u]
    BY <1>1, <1>5, NilAssumption
  <2>2. ASSUME NEW u \in Pods
        PROVE  StateOf(u)' = StateOf(u)
    <3>1. CASE u = uid
      BY <1>5, <2>1, <3>1 DEF StateOf
    <3>2. CASE u # uid
      BY <1>5, <2>1, <3>2 DEF StateOf
    <3> QED
      BY <3>1, <3>2
  <2> QED
    BY <2>2 DEF NoEffect
<1>6. ASSUME NEW o \in PodObjects, AssumePod(o) \/ ForgetPod(o) \/ AddPod(o) \/ RemovePod(o)
      PROVE  NoEffect \/ OneEffect(o.uid)
  <2>1. o.uid \in Pods
    BY ObjectsAssumption
  <2>2. CASE AssumePod(o)
    BY <1>2, <2>2, SameEntries DEF AssumePod, vars
  <2>3. CASE ForgetPod(o)
    BY <1>3, <2>1, <2>3, SameEntries DEF ForgetPod, Forgettable, vars
  <2>4. CASE AddPod(o)
    BY <1>2, <1>4, <2>4, SameEntries DEF AddPod, vars
  <2>5. CASE RemovePod(o)
    BY <1>3, <2>1, <2>5, SameEntries DEF RemovePod, Deletable, IsAddedPod, CorruptedBy, vars
  <2> QED
    BY <1>6, <2>2, <2>3, <2>4, <2>5
<1>7. ASSUME NEW old \in PodObjects, NEW new \in PodObjects,
             old.uid = new.uid, old.node = new.node, UpdatePod(old, new)
      PROVE  NoEffect
  <2>1. new.uid \in Pods
    BY ObjectsAssumption
  <2>2. CASE /\ Updatable(old, new)
             /\ podStates' = [podStates EXCEPT ![old.uid].pod = new]
             /\ UNCHANGED assumedPods
    <3> DEFINE st == [podStates[new.uid] EXCEPT !.pod = new]
    <3>1. podStates[new.uid] # Nil /\ podStates[new.uid].pod.node = new.node
      BY <1>7, <2>2 DEF Updatable, IsAddedPod
    <3>2. podStates[new.uid] \in PodState
      BY <2>1, <3>1, CachedObject
    <3>3. st \in PodState /\ st.pod = new
      BY <3>2 DEF PodState
    <3>4. podStates' = [podStates EXCEPT ![new.uid] = st]
      BY <1>7, <2>2
    <3> HIDE DEF st
    <3> QED
      BY <1>5, <2>1, <2>2, <3>1, <3>3, <3>4
  <2> QED
    BY <1>7, <2>2, SameEntries DEF UpdatePod, CorruptedBy, vars
<1>8. ASSUME NEW uid \in Pods, FinishBinding(uid)
      PROVE  NoEffect
  <2>1. CASE /\ podStates[uid] # Nil
             /\ podStates' = [podStates EXCEPT ![uid].deadline = TRUE,
                                               ![uid].bindingFinished = TRUE]
             /\ UNCHANGED assumedPods
    <3> DEFINE st == [podStates[uid] EXCEPT !.deadline = TRUE, !.bindingFinished = TRUE]
    <3>1. podStates[uid] \in PodState
      BY <2>1, CachedObject
    <3>2. st \in PodState /\ st.pod = podStates[uid].pod
      BY <3>1 DEF PodState
    <3>3. podStates' = [podStates EXCEPT ![uid] = st]
      BY <1>1, <2>1
    <3> HIDE DEF st
    <3> QED
      BY <1>5, <2>1, <3>2, <3>3
  <2> QED
    BY <1>8, <2>1, SameEntries DEF FinishBinding, vars
<1>9. ASSUME NEW uid \in Pods, ExpirePod(uid)
      PROVE  OneEffect(uid)
  BY <1>3, <1>9 DEF ExpirePod
<1>10. \A o \in PodObjects : o.uid \in Pods
  BY ObjectsAssumption
<1> QED
  BY <1>6, <1>7, <1>8, <1>9, <1>10 DEF PodOperation

\* The cache implements the state machine its interface documents, for any number of
\* pods and nodes: the pod states one reads off the NodeInfos, which is what the
\* filters see, change only along the arrows of the diagram in interface.go.
THEOREM CacheImplementsLifecycle == Spec => ImplementsLifecycle
<1> DEFINE life == [uid \in Pods |-> LifeOf(uid)]
<1>1. Init => Lifecycle!Init
  <2> HAVE Init
  <2>1. MappingIsStateOf
    BY EmptyCache, MappingHolds
  <2>2. \A u \in Pods : StateOf(u) = Nil
    BY DEF Init, StateOf
  <2> QED
    BY <2>1, <2>2 DEF Lifecycle!Init, MappingIsStateOf
<1>2. IInv /\ IInv' /\ [Next]_vars => [Lifecycle!Next]_life
  <2> HAVE IInv /\ IInv' /\ [Next]_vars
  <2>1. MappingIsStateOf /\ MappingIsStateOf'
    BY MappingHolds, MappingHoldsNext
  <2>2. CASE NoEffect
    BY <2>1, <2>2 DEF NoEffect, MappingIsStateOf
  <2>3. CASE Restart
    <3>1. \A u \in Pods : StateOf(u)' = Nil
      BY <2>3 DEF Restart, StateOf
    <3>2. life' = [u \in Pods |-> Nil]
      BY <2>1, <3>1 DEF MappingIsStateOf
    <3> QED
      BY <3>2 DEF Lifecycle!Next, Lifecycle!Restart
  <2>4. CASE PodOperation
    <3>1. CASE \E uid \in Pods : OneEffect(uid)
      BY <3>1, OnePodStep DEF OneEffect
    <3> QED
      BY <2>2, <2>4, <3>1, PodOperationEffect
  <2>5. CASE NodeOperation
    BY <2>2, <2>5, SameEntries DEF NodeOperation, AddNode, UpdateNode, RemoveNode, vars
  <2>6. CASE UNCHANGED vars
    BY <2>2, <2>6, SameEntries DEF vars
  <2> QED
    BY <2>3, <2>4, <2>5, <2>6 DEF Next
<1> QED
  BY <1>1, <1>2, InvariantHolds, PTL DEF Spec, ImplementsLifecycle, Lifecycle!Spec
=============================================================================
