-------------------------- MODULE MCCacheSnapshot --------------------------
(***************************************************************************)
(* An instance of CacheSnapshot for TLC.                                   *)
(***************************************************************************)
EXTENDS CacheSnapshot

CONSTANTS p1, n1, n2, n3, i1

\* One pod, three nodes: the list has a middle.
OnePod == {p1}
ThreeNodes == {n1, n2, n3}

MCPodObjects == {[uid |-> p, node |-> n] : p \in Pods, n \in Nodes}
MCNodeObjects == {[zone |-> "a", images |-> {}], [zone |-> "b", images |-> {i1}]}
MCCpu(o) == 1
MCZoneOf(node) == node.zone
MCImagesOf(node) == node.images
MCHasAffinity(o) == o.uid = p1

\* No definition tells one node from another.
NodeSymmetry == Permutations(ThreeNodes)
=============================================================================
