SPECIFICATION FairSpec
CONSTANTS
    p1 = p1
    fit = fit
    podAdd = podAdd
    podDelete = podDelete
    Nil = Nil
    Pods <- OnePod
    Plugins <- MCPlugins
    Events <- MCEvents
    AssignedPodAdd = podAdd
    AssignedPodUpdate = podAdd
    AssignedPodDelete = podDelete
    EventPlugins <- MCEventPlugins
    Affine <- OnePod
    ToActivate <- OnePod
    Changing <- OnePod
    MaxSpec = 1
    MaxEvents = 2
    MaxTasks = 3
INVARIANTS
    TypeOK
    InOneQueue
    NoLostWakeup
    NoPodLost
PROPERTIES
    NoMissedMove
    ImplementsPendingPods
    EventuallyPopped
    GhostsLeave
