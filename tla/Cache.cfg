SPECIFICATION SnapSpec
CONSTANTS
    p1 = p1
    n1 = n1
    n2 = n2
    n3 = n3
    i1 = i1
    Nil = Nil
    Pods <- OnePod
    Nodes <- ThreeNodes
    NodeObjects <- MCNodeObjects
    PodObjects <- MCPodObjects
    Cpu <- MCCpu
    Zones = {"a", "b"}
    Images = {i1}
    ZoneOf <- MCZoneOf
    ImagesOf <- MCImagesOf
    HasAffinity <- MCHasAffinity
SYMMETRY NodeSymmetry
INVARIANTS
    TypeOK
    AssumedCanExpire
    PodsWhereTheyAre
    TreeMatchesNodes
    RecentFirst
    SnapshotIsCurrent
    TreeListsEveryNode
    ImagesWhereTheyAre
PROPERTIES
    AddedIsStable
    ImplementsLifecycle
