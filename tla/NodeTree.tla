------------------------------ MODULE NodeTree ------------------------------
(***************************************************************************)
(* The tree of node names by zone (pkg/scheduler/internal/cache/           *)
(* node_tree.go), as operators on its value: the cache owns one and calls  *)
(* it with its mutex held.  A zone without nodes is not a key of the map,  *)
(* so an absent entry is the empty sequence here.                          *)
(***************************************************************************)
EXTENDS Integers, SequencesExt

newNodeTree(zones) ==
    [tree |-> [z \in zones |-> <<>>], zones |-> <<>>, numNodes |-> 0]

addNode(nt, n, zone) ==
    IF n \in Range(nt.tree[zone])
    THEN nt
    ELSE [tree |-> [nt.tree EXCEPT ![zone] = Append(@, n)],
          zones |-> IF nt.tree[zone] = <<>> THEN Append(nt.zones, zone) ELSE nt.zones,
          numNodes |-> nt.numNodes + 1]

\* Mutant of removeNode: a zone stays listed when its last node leaves.
removeNodeKeepsZone(nt, n, zone) ==
    IF n \in Range(nt.tree[zone])
    THEN [nt EXCEPT !.tree[zone] = RemoveFirst(@, n), !.numNodes = @ - 1]
    ELSE nt

removeNode(nt, n, zone) ==
    IF n \in Range(nt.tree[zone])
    THEN LET rest == RemoveFirst(nt.tree[zone], n)
         IN  [tree |-> [nt.tree EXCEPT ![zone] = rest],
              zones |-> IF rest = <<>> THEN RemoveFirst(nt.zones, zone) ELSE nt.zones,
              numNodes |-> nt.numNodes - 1]
    ELSE nt

\* The error of removing a node that is not there is ignored.
updateNode(nt, n, oldZone, newZone) ==
    IF oldZone = newZone THEN nt ELSE addNode(removeNode(nt, n, oldZone), n, newZone)

\* One turn of the outer loop of list(): the nodes with index i, zone by zone.
Round(nt, i) ==
    FlattenSeq([z \in DOMAIN nt.zones |->
        LET na == nt.tree[nt.zones[z]] IN IF i < Len(na) THEN <<na[i + 1]>> ELSE <<>>])

\* Every zone was found exhausted in one of the first i turns.
Exhausted(nt, i) == \A z \in Range(nt.zones) : Len(nt.tree[z]) < i

\* list(): zones in turn until numNodes names are found, or all are exhausted.
list(nt) ==
    LET after[i \in 0 .. nt.numNodes + 1] ==
            IF i = 0 THEN <<>>
            ELSE IF Len(after[i - 1]) >= nt.numNodes \/ Exhausted(nt, i - 1)
                 THEN after[i - 1]
                 ELSE after[i - 1] \o Round(nt, i - 1)
    IN  after[nt.numNodes + 1]
=============================================================================
