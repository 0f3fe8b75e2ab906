--------------------------- MODULE CacheSnapshot ---------------------------
(***************************************************************************)
(* How the cache hands its nodes to a scheduling cycle (UpdateSnapshot in  *)
(* pkg/scheduler/internal/cache/cache.go, snapshot.go): every operation of *)
(* SchedulerCache gives the NodeInfos it touches a new generation and      *)
(* moves them to the head of a doubly linked list, so that UpdateSnapshot  *)
(* copies only what is newer than the previous snapshot and stops at the   *)
(* first item that is not.  The node tree with its zones and the image     *)
(* states, which SchedulerCache leaves out, are here too.                  *)
(*                                                                         *)
(* Generations are only compared, so they are renumbered from 0 whenever a *)
(* new one is drawn; that of the snapshot is kept with them, under Nil.    *)
(* The order of the snapshot's list is left out: it holds the set of its   *)
(* entries, that is, of the pointers into nodeInfoMap.                     *)
(***************************************************************************)
EXTENDS SchedulerCache, NodeTree

CONSTANTS
    Zones,           \* zone keys
    Images,          \* names of images
    ZoneOf(_),       \* GetZoneKey(node)
    ImagesOf(_),     \* the names in node.Status.Images
    HasAffinity(_)   \* the pod has affinity terms

\* Nodes are finitely many, and every node has a zone key, if only the empty one.
ASSUME SnapshotAssumption ==
    /\ IsFiniteSet(Nodes) /\ Nil \notin Nodes
    /\ \A node \in NodeObjects : ZoneOf(node) \in Zones

VARIABLES
    items,           \* the list: headNode, next and prev, and the generations
    zoneTree,        \* the nodeTree with its zones
    imageStates,     \* image -> nodes that have it; {} when the key is not in the map
    snapshot         \* the Snapshot of the scheduling cycles

snapVars == <<items, zoneTree, imageStates, snapshot>>

-----------------------------------------------------------------------------
(* The linked list.  An item is named by its node.                         *)

NoItems ==
    [head |-> Nil, next |-> [n \in Nodes |-> Nil], prev |-> [n \in Nodes |-> Nil],
     gen |-> [n \in Nodes \cup {Nil} |-> 0]]

\* Assignment through a pointer that may be nil.
Through(f, item, value) == IF item = Nil THEN f ELSE [f EXCEPT ![item] = value]

\* Mutant of moveNodeInfoToHead: the old head does not learn of the new one.
moveToHeadOneWay(l, n) ==
    IF l.head = n THEN l
    ELSE [l EXCEPT
            !.next = [Through(@, l.prev[n], l.next[n]) EXCEPT ![n] = l.head],
            !.prev = [Through(@, l.next[n], l.prev[n]) EXCEPT ![n] = Nil],
            !.head = n]

moveNodeInfoToHead(l, n) ==
    IF l.head = n THEN l
    ELSE [l EXCEPT
            !.next = [Through(@, l.prev[n], l.next[n]) EXCEPT ![n] = l.head],
            !.prev = [Through(Through(@, l.next[n], l.prev[n]), l.head, n) EXCEPT ![n] = Nil],
            !.head = n]

removeNodeInfoFromList(l, n) ==
    [l EXCEPT
        !.next = [Through(@, l.prev[n], l.next[n]) EXCEPT ![n] = Nil],
        !.prev = [Through(@, l.next[n], l.prev[n]) EXCEPT ![n] = Nil],
        !.head = IF @ = n THEN l.next[n] ELSE @,
        !.gen[n] = 0]

Renumbered(gen) ==
    [n \in DOMAIN gen |-> Cardinality({g \in Range(gen) \cup {0} : g < gen[n]})]

\* A generation larger than all that were drawn before.
nextGeneration(l, n) ==
    [l EXCEPT !.gen = Renumbered([@ EXCEPT ![n] = Cardinality(Nodes) + 2])]

\* addPod, AddNode and UpdateNode, for the node they touch.
Touched(l, n) == moveNodeInfoToHead(nextGeneration(l, n), n)

\* removePod and RemoveNode, which may leave the node without an entry.
Reduced(l, n, ns) ==
    IF ns[n] = Nil THEN removeNodeInfoFromList(l, n) ELSE Touched(l, n)

ReducedByPod(l, ns, pod) ==
    IF ns[pod.node] = Nil THEN l ELSE Reduced(l, pod.node, removePod(ns, pod))

-----------------------------------------------------------------------------
(* Image states.                                                           *)

addNodeImageStates(states, n, node) ==
    [i \in Images |-> IF i \in ImagesOf(node) THEN states[i] \cup {n} ELSE states[i]]

\* Mutant of removeNodeImageStates: the node is not taken out.
keepNodeImageStates(states, n, node) == states

removeNodeImageStates(states, n, node) ==
    IF node = Nil
    THEN states
    ELSE [i \in Images |-> IF i \in ImagesOf(node) THEN states[i] \ {n} ELSE states[i]]

-----------------------------------------------------------------------------
(* The operations of the cache.                                            *)

SnapAssumePod(pod) ==
    /\ AssumePod(pod)
    /\ items' = IF podStates[pod.uid] = Nil THEN Touched(items, pod.node) ELSE items
    /\ UNCHANGED <<zoneTree, imageStates, snapshot>>

SnapForgetPod(pod) ==
    /\ ForgetPod(pod)
    /\ items' = IF Forgettable(pod) THEN ReducedByPod(items, nodes, pod) ELSE items
    /\ UNCHANGED <<zoneTree, imageStates, snapshot>>

\* A pod that was assumed on another node touches both.
SnapAddPod(pod) ==
    LET ps == podStates[pod.uid]
    IN  /\ AddPod(pod)
        /\ items' = CASE ps = Nil -> Touched(items, pod.node)
                      [] ps # Nil /\ IsAssumedPod(pod.uid) /\ ps.pod.node # pod.node ->
                            Touched(IF Removable(nodes, ps.pod)
                                    THEN ReducedByPod(items, nodes, ps.pod) ELSE items,
                                    pod.node)
                      [] OTHER -> items
        /\ UNCHANGED <<zoneTree, imageStates, snapshot>>

SnapUpdatePod(old, new) ==
    /\ UpdatePod(old, new)
    /\ items' = IF Updatable(old, new)
                THEN Touched(ReducedByPod(items, nodes, old), new.node) ELSE items
    /\ UNCHANGED <<zoneTree, imageStates, snapshot>>

SnapRemovePod(pod) ==
    /\ RemovePod(pod)
    /\ items' = IF Deletable(pod)
                THEN ReducedByPod(items, nodes, podStates[pod.uid].pod) ELSE items
    /\ UNCHANGED <<zoneTree, imageStates, snapshot>>

SnapFinishBinding(uid) == FinishBinding(uid) /\ UNCHANGED snapVars

SnapExpirePod(uid) ==
    /\ ExpirePod(uid)
    /\ items' = ReducedByPod(items, nodes, podStates[uid].pod)
    /\ UNCHANGED <<zoneTree, imageStates, snapshot>>

SnapAddNode(n, node) ==
    /\ AddNode(n, node)
    /\ items' = Touched(items, n)
    /\ zoneTree' = addNode(zoneTree, n, ZoneOf(node))
    /\ imageStates' = addNodeImageStates(
                        removeNodeImageStates(imageStates, n, InfoOf(nodes, n).node), n, node)
    /\ UNCHANGED snapshot

\* The old object of an update is the one the cache was given last.
SnapUpdateNode(n, node) ==
    /\ UpdateNode(n, node)
    /\ items' = Touched(items, n)
    /\ zoneTree' = updateNode(zoneTree, n, ZoneOf(nodes[n].node), ZoneOf(node))
    /\ imageStates' = addNodeImageStates(
                        removeNodeImageStates(imageStates, n, nodes[n].node), n, node)
    /\ UNCHANGED snapshot

SnapRemoveNode(n) ==
    /\ RemoveNode(n)
    /\ items' = Reduced(items, n, nodes')
    /\ zoneTree' = removeNode(zoneTree, n, ZoneOf(nodes[n].node))
    /\ imageStates' = removeNodeImageStates(imageStates, n, nodes[n].node)
    /\ UNCHANGED snapshot

\* The event of a node that is not in the cache: RemoveNode returns "not found".
SnapRemoveUnknownNode(n) == nodes[n] = Nil /\ RemoveNode(n) /\ UNCHANGED snapVars

-----------------------------------------------------------------------------
(* Taking a snapshot.                                                      *)

NewEmptySnapshot ==
    [nodeInfoMap |-> [n \in Nodes |-> Nil], nodeInfoList |-> {}, withAffinity |-> {}]

\* The item k steps from the head, or Nil past the end.
ItemAt(l, k) ==
    LET at[j \in 0 .. k] ==
            IF j = 0 THEN l.head ELSE IF at[j - 1] = Nil THEN Nil ELSE l.next[at[j - 1]]
    IN  at[k]

Walk(l) == [k \in 0 .. Cardinality(Nodes) |-> ItemAt(l, k)]

\* The items the loop visits before it ends or breaks.
Newer(l) ==
    LET walk == Walk(l)
    IN  {walk[k] : k \in {j \in DOMAIN walk :
                            \A i \in 0 .. j : walk[i] # Nil /\ l.gen[walk[i]] > l.gen[Nil]}}

Affine(ni) == ni # Nil /\ \E o \in ni.pods : HasAffinity(o)

\* removeDeletedNodesFromSnapshot: toDelete entries whose node is gone, in the random
\* order of the map.
Deleted(map) ==
    LET toDelete == Cardinality({n \in Nodes : map[n] # Nil}) - zoneTree.numNodes
        gone == {n \in Nodes : map[n] # Nil /\ (nodes[n] = Nil \/ nodes[n].node = Nil)}
    IN  IF toDelete <= 0 THEN {{}}
        ELSE {D \in SUBSET gone : \/ Cardinality(D) = toDelete
                                  \/ D = gone /\ Cardinality(gone) < toDelete}

\* The nodeInfoList of updateNodeInfoSnapshotList with updateAll.
ListOf(map) ==
    {[name |-> n, info |-> map[n]] : n \in {m \in ToSet(list(zoneTree)) : map[m] # Nil}}

AffineOf(infos) == {e.name : e \in {f \in infos : Affine(f.info)}}

\* What the loop copies: NodeInfos of nodes that are there, newer than the snapshot.
Copied == {n \in Newer(items) : nodes[n].node # Nil}

\* The copy is made in place: nodeInfoList holds pointers to the same NodeInfos.
MapAfterCopy ==
    LET copied == Copied
    IN  [n \in Nodes |-> IF n \in copied THEN nodes[n] ELSE snapshot.nodeInfoMap[n]]

ListAfterCopy ==
    LET copied == Copied
    IN  {IF e.name \in copied THEN [e EXCEPT !.info = nodes[e.name]] ELSE e :
            e \in snapshot.nodeInfoList}

\* Mutant of ListsToUpdate: the lists are rebuilt for new nodes only.
ListsToUpdateIfAdded == \E n \in Copied : snapshot.nodeInfoMap[n] = Nil

\* updateAllLists
ListsToUpdate ==
    \/ \E n \in Copied : snapshot.nodeInfoMap[n] = Nil
    \/ LET map == MapAfterCopy
       IN  Cardinality({n \in Nodes : map[n] # Nil}) > zoneTree.numNodes

\* updateNodesHavePodsWithAffinity
AffinityChanged == \E n \in Copied : Affine(snapshot.nodeInfoMap[n]) # Affine(nodes[n])

\* The snapshot and the error of UpdateSnapshot, when `deleted` leaves the map.
Updated(deleted) ==
    LET copies == MapAfterCopy
        map == [n \in Nodes |-> IF n \in deleted THEN Nil ELSE copies[n]]
        updateAllLists == ListsToUpdate
        infos == IF updateAllLists THEN ListOf(map) ELSE ListAfterCopy
        affine == IF updateAllLists \/ AffinityChanged
                  THEN AffineOf(infos) ELSE snapshot.withAffinity
        consistent == Cardinality(infos) = zoneTree.numNodes
    IN  [nodeInfoMap |-> map,
         nodeInfoList |-> IF consistent THEN infos ELSE ListOf(map),
         withAffinity |-> IF consistent THEN affine ELSE AffineOf(ListOf(map)),
         err |-> ~consistent]

UpdateSnapshot ==
    /\ \E deleted \in Deleted(MapAfterCopy) :
          LET result == Updated(deleted)
          IN  snapshot' = [field \in DOMAIN snapshot |-> result[field]]
    /\ items' = IF items.head = Nil THEN items
                ELSE [items EXCEPT !.gen[Nil] = items.gen[items.head]]
    /\ UNCHANGED <<vars, zoneTree, imageStates>>

-----------------------------------------------------------------------------

NoImages == [i \in Images |-> {}]

SnapInit ==
    /\ Init
    /\ items = NoItems
    /\ zoneTree = newNodeTree(Zones)
    /\ imageStates = NoImages
    /\ snapshot = NewEmptySnapshot

SnapRestart ==
    /\ Restart
    /\ items' = NoItems
    /\ zoneTree' = newNodeTree(Zones)
    /\ imageStates' = NoImages
    /\ snapshot' = NewEmptySnapshot

SnapPodOperation ==
    \/ \E o \in PodObjects : \/ SnapAssumePod(o)
                             \/ SnapForgetPod(o)
                             \/ SnapAddPod(o)
                             \/ SnapRemovePod(o)
    \/ \E old, new \in PodObjects :
          old.uid = new.uid /\ old.node = new.node /\ SnapUpdatePod(old, new)
    \/ \E uid \in Pods : SnapFinishBinding(uid) \/ SnapExpirePod(uid)

\* The informer adds a node once, and updates and removes the node it added.
SnapNodeOperation ==
    \/ \E n \in Nodes \ nodeTree, node \in NodeObjects : SnapAddNode(n, node)
    \/ \E n \in nodeTree : \/ \E node \in NodeObjects : SnapUpdateNode(n, node)
                           \/ SnapRemoveNode(n)
    \/ \E n \in Nodes : SnapRemoveUnknownNode(n)

SnapNext ==
    \/ SnapRestart
    \/ ~fatal /\ (SnapPodOperation \/ SnapNodeOperation \/ UpdateSnapshot)

SnapSpec == SnapInit /\ [][SnapNext]_<<vars, snapVars>>

-----------------------------------------------------------------------------
(* Properties.                                                             *)

\* Walking the list from headNode meets every NodeInfo of the cache once, the most
\* recently changed first, and prev is the inverse of next: only then may the loop of
\* UpdateSnapshot stop at the first old generation.
RecentFirst ==
    LET present == {n \in Nodes : nodes[n] # Nil}
        walk == Walk(items)
        length == Cardinality(present)
    IN  /\ {walk[k] : k \in 0 .. length - 1} = present
        /\ \A k \in length .. Cardinality(Nodes) : walk[k] = Nil
        /\ \A k \in 1 .. length - 1 :
              items.gen[walk[k]] < items.gen[walk[k - 1]] /\ items.prev[walk[k]] = walk[k - 1]
        /\ length > 0 => items.prev[items.head] = Nil

\* Whatever happened since the last call, UpdateSnapshot makes the snapshot equal to the
\* cache: map and list hold the nodes with a v1.Node, with their present NodeInfos, the
\* affinity list those with such pods, and "snapshot state is not consistent" is never
\* reported.
SnapshotIsCurrent ==
    \A deleted \in Deleted(MapAfterCopy) :
        LET after == Updated(deleted)
        IN  /\ ~after.err
            /\ after.nodeInfoMap = [n \in Nodes |-> IF n \in nodeTree THEN nodes[n] ELSE Nil]
            /\ after.nodeInfoList = {[name |-> n, info |-> nodes[n]] : n \in nodeTree}
            /\ after.withAffinity = {n \in nodeTree : Affine(nodes[n])}

\* The zones list every node the cache knows exactly once, in turns that do not leave a
\* node out, and name no empty zone, although nodes change zone and come back.
TreeListsEveryNode ==
    /\ ToSet(list(zoneTree)) = nodeTree
    /\ zoneTree.numNodes = Cardinality(nodeTree)
    /\ Len(list(zoneTree)) = zoneTree.numNodes
    /\ \A z \in Range(zoneTree.zones) : zoneTree.tree[z] # <<>>

\* An image is counted on exactly the nodes that report it, through updates and removals
\* of nodes and the return of a node whose ghost is still there.
ImagesWhereTheyAre ==
    \A i \in Images :
        imageStates[i] = {n \in nodeTree : i \in ImagesOf(nodes[n].node)}
=============================================================================
