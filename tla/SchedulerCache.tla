--------------------------- MODULE SchedulerCache ---------------------------
(***************************************************************************)
(* The scheduler's cache of pods and nodes                                 *)
(* (pkg/scheduler/internal/cache/cache.go and NodeInfo in                  *)
(* pkg/scheduler/framework/types.go).  Every operation runs under the      *)
(* cache's mutex, so each one is a single action; the error returns of an  *)
(* operation, which change nothing, are a disjunct of its action.          *)
(*                                                                         *)
(* Of a pod object the cache looks at its UID, its Spec.NodeName and the   *)
(* CPU request calculateResource computes.  Memory, ports, volumes and     *)
(* affinity terms are counted the same way as CPU and are left out; so are *)
(* image states.  The linked list and the generations that make            *)
(* UpdateSnapshot incremental do not influence these operations.           *)
(***************************************************************************)
EXTENDS Integers, FiniteSets, Functions

CONSTANTS
    Pods,          \* UIDs of pods, the keys of podStates (GetPodKey)
    Nodes,         \* names of nodes, the keys of nodes
    PodObjects,    \* v1.Pod values with a node name: records with a uid and a node
    NodeObjects,   \* v1.Node values
    Cpu(_),        \* calculateResource(pod).MilliCPU
    Nil            \* an absent map entry, or a nil pointer

\* What the cache needs to know of the objects it stores.
ASSUME ObjectsAssumption ==
    /\ \A o \in PodObjects : o.uid \in Pods /\ o.node \in Nodes /\ Cpu(o) \in Int
    /\ Nil \notin NodeObjects

VARIABLES
    podStates,     \* UID -> podState, or Nil when the key is not in the map
    assumedPods,   \* UIDs that are assumed and not confirmed yet
    nodes,         \* node name -> NodeInfo, or Nil when the key is not in the map
    nodeTree,      \* names of the nodes whose v1.Node is known
    fatal          \* klog.Fatal was called: the process is about to exit

vars == <<podStates, assumedPods, nodes, nodeTree, fatal>>

PodState == [pod : PodObjects, deadline : BOOLEAN, bindingFinished : BOOLEAN]

NodeInfo == [node : NodeObjects \cup {Nil}, pods : SUBSET PodObjects, requested : Int]

ASSUME NilAssumption == Nil \notin PodState /\ Nil \notin NodeInfo

-----------------------------------------------------------------------------
(* NodeInfo: the pods of a node and the total of their requests.           *)

NewNodeInfo == [node |-> Nil, pods |-> {}, requested |-> 0]

\* The pod is in the Pods slice of the node.
Listed(ni, uid) == \E o \in ni.pods : o.uid = uid

\* NodeInfo.AddPodInfo appends without looking for the pod first.
InfoAddPod(ni, pod) ==
    [ni EXCEPT !.pods = @ \cup {pod}, !.requested = @ + Cpu(pod)]

\* NodeInfo.RemovePod finds the entry by UID, but subtracts the request of its
\* argument, which need not be the object that was added.
InfoRemovePod(ni, pod) ==
    [ni EXCEPT !.pods = {o \in @ : o.uid # pod.uid}, !.requested = @ - Cpu(pod)]

\* SetNode and RemoveNode leave the pods and their total alone.
InfoSetNode(ni, node) == [ni EXCEPT !.node = node]

-----------------------------------------------------------------------------
(* The helpers that run with the lock held, as functions of the nodes map. *)

InfoOf(ns, n) == IF ns[n] = Nil THEN NewNodeInfo ELSE ns[n]

\* A NodeInfo without a node object is kept for as long as it has pods.
KeepOrDrop(ni) == IF ni.pods = {} /\ ni.node = Nil THEN Nil ELSE ni

addPod(ns, pod) ==
    [ns EXCEPT ![pod.node] = InfoAddPod(InfoOf(ns, pod.node), pod)]

\* removePod succeeds, without doing anything when the node is unknown.
Removable(ns, pod) == ns[pod.node] = Nil \/ Listed(ns[pod.node], pod.uid)

removePod(ns, pod) ==
    IF ns[pod.node] = Nil
    THEN ns
    ELSE [ns EXCEPT ![pod.node] = KeepOrDrop(InfoRemovePod(@, pod))]

\* updatePod(oldPod, newPod)
updatePod(ns, old, new) == addPod(removePod(ns, old), new)

NewPodState(pod) == [pod |-> pod, deadline |-> FALSE, bindingFinished |-> FALSE]

IsAssumedPod(uid) == uid \in assumedPods

\* The state the cache operations call "Added".
IsAddedPod(uid) == podStates[uid] # Nil /\ uid \notin assumedPods

-----------------------------------------------------------------------------
(* Operations on pods.                                                     *)

\* Mutant of AssumePod: the key may be in the cache already.
AssumePodAgain(pod) ==
    /\ nodes' = addPod(nodes, pod)
    /\ podStates' = [podStates EXCEPT ![pod.uid] = NewPodState(pod)]
    /\ assumedPods' = assumedPods \cup {pod.uid}
    /\ UNCHANGED <<nodeTree, fatal>>

AssumePod(pod) ==
    \/ /\ podStates[pod.uid] = Nil
       /\ nodes' = addPod(nodes, pod)
       /\ podStates' = [podStates EXCEPT ![pod.uid] = NewPodState(pod)]
       /\ assumedPods' = assumedPods \cup {pod.uid}
       /\ UNCHANGED <<nodeTree, fatal>>
    \/ /\ podStates[pod.uid] # Nil
       /\ UNCHANGED vars

\* Mutant of FinishBinding: the deadline is forgotten.
FinishBindingNoDeadline(uid) ==
    /\ podStates[uid] # Nil
    /\ IsAssumedPod(uid)
    /\ podStates' = [podStates EXCEPT ![uid].bindingFinished = TRUE]
    /\ UNCHANGED <<assumedPods, nodes, nodeTree, fatal>>

\* The deadline is set here and not when the pod is assumed, so that a binding
\* that is still running never expires.
FinishBinding(uid) ==
    \/ /\ podStates[uid] # Nil
       /\ IsAssumedPod(uid)
       /\ podStates' = [podStates EXCEPT ![uid].deadline = TRUE,
                                         ![uid].bindingFinished = TRUE]
       /\ UNCHANGED <<assumedPods, nodes, nodeTree, fatal>>
    \/ /\ podStates[uid] = Nil \/ ~IsAssumedPod(uid)
       /\ UNCHANGED vars

\* Only an assumed pod can be forgotten, and only from the node it is assumed on.
Forgettable(pod) ==
    /\ podStates[pod.uid] # Nil
    /\ podStates[pod.uid].pod.node = pod.node
    /\ IsAssumedPod(pod.uid)
    /\ Removable(nodes, pod)

ForgetPod(pod) ==
    \/ /\ Forgettable(pod)
       /\ nodes' = removePod(nodes, pod)
       /\ podStates' = [podStates EXCEPT ![pod.uid] = Nil]
       /\ assumedPods' = assumedPods \ {pod.uid}
       /\ UNCHANGED <<nodeTree, fatal>>
    \/ /\ ~Forgettable(pod)
       /\ UNCHANGED vars

\* Mutant of ConfirmPod: the pod is not taken off the node it was assumed on.
ConfirmPodCopies(pod) ==
    /\ podStates[pod.uid] # Nil
    /\ IsAssumedPod(pod.uid)
    /\ nodes' = IF podStates[pod.uid].pod.node = pod.node THEN nodes ELSE addPod(nodes, pod)
    /\ assumedPods' = assumedPods \ {pod.uid}
    /\ podStates' = [podStates EXCEPT ![pod.uid].deadline = FALSE,
                                      ![pod.uid].pod = pod]
    /\ UNCHANGED <<nodeTree, fatal>>

\* Mutant of ConfirmPod: the deadline of the assumed pod is not cleared.
ConfirmPodKeepsDeadline(pod) ==
    /\ podStates[pod.uid] # Nil
    /\ IsAssumedPod(pod.uid)
    /\ podStates[pod.uid].pod.node = pod.node
    /\ assumedPods' = assumedPods \ {pod.uid}
    /\ podStates' = [podStates EXCEPT ![pod.uid].pod = pod]
    /\ UNCHANGED <<nodes, nodeTree, fatal>>

\* The event of an assumed pod confirms it.  On the node it was assumed on, the
\* object in the NodeInfo stays the assumed one; on another node it is moved.
ConfirmPod(pod) ==
    /\ podStates[pod.uid] # Nil
    /\ IsAssumedPod(pod.uid)
    /\ \/ /\ podStates[pod.uid].pod.node = pod.node
          /\ UNCHANGED nodes
       \/ /\ podStates[pod.uid].pod.node # pod.node
          /\ LET current == podStates[pod.uid].pod
                 cleaned == IF Removable(nodes, current)
                            THEN removePod(nodes, current) ELSE nodes
             IN  nodes' = addPod(cleaned, pod)
    /\ assumedPods' = assumedPods \ {pod.uid}
    /\ podStates' = [podStates EXCEPT ![pod.uid].deadline = FALSE,
                                      ![pod.uid].pod = pod]
    /\ UNCHANGED <<nodeTree, fatal>>

AddPod(pod) ==
    \/ ConfirmPod(pod)
    \/ /\ podStates[pod.uid] = Nil          \* expired, or scheduled by someone else
       /\ nodes' = addPod(nodes, pod)
       /\ podStates' = [podStates EXCEPT ![pod.uid] = NewPodState(pod)]
       /\ UNCHANGED <<assumedPods, nodeTree, fatal>>
    \/ /\ IsAddedPod(pod.uid)               \* "was already in added state"
       /\ UNCHANGED vars

\* An event names another node than the one the pod was added to: klog.Fatalf.
NamesOtherNode(pod) ==
    IsAddedPod(pod.uid) /\ podStates[pod.uid].pod.node # pod.node

CorruptedBy(pod) ==
    /\ NamesOtherNode(pod)
    /\ fatal' = TRUE
    /\ UNCHANGED <<podStates, assumedPods, nodes, nodeTree>>

\* Mutant of Updatable: the node of the event is not compared.
UpdatableAnywhere(old, new) == IsAddedPod(old.uid) /\ Removable(nodes, old)

Updatable(old, new) ==
    /\ IsAddedPod(old.uid)
    /\ podStates[old.uid].pod.node = new.node
    /\ Removable(nodes, old)

UpdatePod(old, new) ==
    \/ /\ Updatable(old, new)
       /\ nodes' = updatePod(nodes, old, new)
       /\ podStates' = [podStates EXCEPT ![old.uid].pod = new]
       /\ UNCHANGED <<assumedPods, nodeTree, fatal>>
    \/ CorruptedBy(new)
    \/ /\ ~Updatable(old, new) /\ ~NamesOtherNode(new)
       /\ UNCHANGED vars

\* removePod is given the object of podStates, not the event's.
Deletable(pod) ==
    /\ IsAddedPod(pod.uid)
    /\ podStates[pod.uid].pod.node = pod.node
    /\ Removable(nodes, podStates[pod.uid].pod)

RemovePod(pod) ==
    \/ /\ Deletable(pod)
       /\ nodes' = removePod(nodes, podStates[pod.uid].pod)
       /\ podStates' = [podStates EXCEPT ![pod.uid] = Nil]
       /\ UNCHANGED <<assumedPods, nodeTree, fatal>>
    \/ CorruptedBy(pod)
    \/ /\ ~Deletable(pod) /\ ~NamesOtherNode(pod)
       /\ UNCHANGED vars

\* One iteration of cleanupAssumedPods, for a key whose deadline has passed.
\* Deadlines are set by separate calls, so any of them may have passed.
ExpirePod(uid) ==
    /\ IsAssumedPod(uid)
    /\ podStates[uid] # Nil
    /\ podStates[uid].bindingFinished
    /\ Removable(nodes, podStates[uid].pod)
    /\ nodes' = removePod(nodes, podStates[uid].pod)
    /\ assumedPods' = assumedPods \ {uid}
    /\ podStates' = [podStates EXCEPT ![uid] = Nil]
    /\ UNCHANGED <<nodeTree, fatal>>

-----------------------------------------------------------------------------
(* Operations on nodes.                                                    *)

AddNode(n, node) ==
    /\ nodes' = [nodes EXCEPT ![n] = InfoSetNode(InfoOf(nodes, n), node)]
    /\ nodeTree' = nodeTree \cup {n}
    /\ UNCHANGED <<podStates, assumedPods, fatal>>

\* A node the cache has no entry for is added to the tree as well; the tree is
\* left alone for a node that has an entry.
UpdateNode(n, node) ==
    /\ nodes' = [nodes EXCEPT ![n] = InfoSetNode(InfoOf(nodes, n), node)]
    /\ nodeTree' = IF nodes[n] = Nil THEN nodeTree \cup {n} ELSE nodeTree
    /\ UNCHANGED <<podStates, assumedPods, fatal>>

\* Mutant of RemoveNode: the tree is not told.
RemoveNodeFromMap(n) ==
    /\ nodes[n] # Nil
    /\ nodes' = [nodes EXCEPT ![n] = KeepOrDrop(InfoSetNode(@, Nil))]
    /\ UNCHANGED <<podStates, assumedPods, nodeTree, fatal>>

\* Pods whose deletion is still to be heard of keep a ghost entry alive.
RemoveNode(n) ==
    \/ /\ nodes[n] # Nil
       /\ nodes' = [nodes EXCEPT ![n] = KeepOrDrop(InfoSetNode(@, Nil))]
       /\ nodeTree' = nodeTree \ {n}
       /\ UNCHANGED <<podStates, assumedPods, fatal>>
    \/ /\ nodes[n] = Nil
       /\ UNCHANGED vars

-----------------------------------------------------------------------------

Init ==
    /\ podStates = [p \in Pods |-> Nil]
    /\ assumedPods = {}
    /\ nodes = [n \in Nodes |-> Nil]
    /\ nodeTree = {}
    /\ fatal = FALSE

\* The process exits after klog.Fatal and is started again with an empty cache.
Restart ==
    /\ fatal
    /\ podStates' = [p \in Pods |-> Nil]
    /\ assumedPods' = {}
    /\ nodes' = [n \in Nodes |-> Nil]
    /\ nodeTree' = {}
    /\ fatal' = FALSE

\* The calls the scheduler and the informers make, in any order, with any
\* objects, except that an informer updates a pod in place (Spec.NodeName is
\* immutable once set) and updates a node only after adding it.
PodOperation ==
    \/ \E o \in PodObjects : \/ AssumePod(o)
                             \/ ForgetPod(o)
                             \/ AddPod(o)
                             \/ RemovePod(o)
    \/ \E old, new \in PodObjects :
          old.uid = new.uid /\ old.node = new.node /\ UpdatePod(old, new)
    \/ \E uid \in Pods : FinishBinding(uid) \/ ExpirePod(uid)

NodeOperation ==
    \E n \in Nodes : \/ \E obj \in NodeObjects : AddNode(n, obj)
                     \/ \E obj \in NodeObjects : n \in nodeTree /\ UpdateNode(n, obj)
                     \/ RemoveNode(n)

Next == Restart \/ (~fatal /\ (PodOperation \/ NodeOperation))

Spec == Init /\ [][Next]_vars

-----------------------------------------------------------------------------
(* Properties.                                                             *)

\* The deadline of a podState, "used by assumedPod to determinate expiration", is nil once
\* the pod is confirmed.
OnlyAssumedExpire ==
    \A uid \in Pods : podStates[uid] # Nil /\ podStates[uid].deadline => uid \in assumedPods

\* Type correctness of schedulerCache: maps, podStates and NodeInfos are well formed, and
\* only an assumed pod has a deadline.
TypeOK ==
    /\ podStates \in [Pods -> PodState \cup {Nil}]
    /\ assumedPods \in SUBSET Pods
    /\ OnlyAssumedExpire
    /\ nodes \in [Nodes -> NodeInfo \cup {Nil}]
    /\ nodeTree \in SUBSET Nodes
    /\ fatal \in BOOLEAN

\* cleanupAssumedPods calls klog.Fatal on an assumed key without a podState and
\* dereferences the deadline of one whose binding has finished: neither fails.
AssumedCanExpire ==
    \A uid \in assumedPods :
        /\ podStates[uid] # Nil
        /\ podStates[uid].bindingFinished => podStates[uid].deadline

\* A node lists the pods whose podState names it ...
ListedIffCached ==
    \A n \in Nodes, uid \in Pods :
        (nodes[n] # Nil /\ Listed(nodes[n], uid))
            <=> (podStates[uid] # Nil /\ podStates[uid].pod.node = n)

\* ... once, with an object that names the node.
ListedOnce ==
    \A n \in Nodes : nodes[n] # Nil =>
        /\ \A o \in nodes[n].pods : o.node = n
        /\ \A o1, o2 \in nodes[n].pods : o1.uid = o2.uid => o1 = o2

\* The pods of the NodeInfos are exactly those of podStates, each on the node its
\* podState names and nowhere else: no operation, in any order, leaks a pod's
\* request on a node or forgets one that is there.
PodsWhereTheyAre == ListedIffCached /\ ListedOnce

\* The tree UpdateSnapshot counts holds exactly the nodes with a v1.Node, and a
\* NodeInfo without one lives only as long as it has pods (the ghost of RemoveNode).
TreeMatchesNodes ==
    \A n \in Nodes :
        /\ n \in nodeTree <=> (nodes[n] # Nil /\ nodes[n].node # Nil)
        /\ (nodes[n] # Nil /\ nodes[n].node = Nil) => nodes[n].pods # {}

\* "Total requested resources of all pods on this node" (types.go): the running
\* total of a NodeInfo is the sum over the pods it lists.  It would need the request of
\* a pod to be the same in every object the cache is given for it, which Hicev2's Bind
\* does not respect (module HiceScheduler): RemovePod subtracts another request than
\* AddPodInfo added.
RequestedIsTotal ==
    \A n \in Nodes : nodes[n] # Nil =>
        nodes[n].requested = SumFunction([o \in nodes[n].pods |-> Cpu(o)])

\* While nothing fails, an added pod changes neither its node nor its state but
\* by being removed: no operation turns it back into an assumed pod.
AddedIsStable ==
    [][ \A uid \in Pods :
          (~fatal /\ IsAddedPod(uid)) =>
            \/ podStates'[uid] = Nil
            \/ /\ uid \notin assumedPods'
               /\ podStates'[uid].pod.node = podStates[uid].pod.node ]_vars

-----------------------------------------------------------------------------
(* The cache implements the state machine its interface documents.         *)

CountedOn(uid, n) == nodes[n] # Nil /\ Listed(nodes[n], uid)

\* Where a pod is comes from the NodeInfos, its phase from assumedPods: the
\* mapping makes sense only if the two structures agree.
LifeOf(uid) ==
    IF \E n \in Nodes : CountedOn(uid, n)
    THEN [phase |-> IF uid \in assumedPods THEN "assumed" ELSE "added",
          node |-> CHOOSE n \in Nodes : CountedOn(uid, n)]
    ELSE Nil

Lifecycle == INSTANCE PodLifecycle
                WITH Absent <- Nil, life <- [uid \in Pods |-> LifeOf(uid)]

\* Every operation of the cache moves a pod along one arrow of the diagram in
\* interface.go, or leaves it where it is.
ImplementsLifecycle == Lifecycle!Spec
=============================================================================
