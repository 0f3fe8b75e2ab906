SPECIFICATION Spec
CONSTANTS
    p1 = p1
    p2 = p2
    n1 = n1
    n2 = n2
    Nil = Nil
    FallsShort <- Float64Falls
    Exceeds <- Float64Exceeds
    Pods <- MCPods
    Nodes <- TwoNodes
    Containers <- ContainersOver
    InitCpu <- LargeInit
    Overhead <- SandboxOverhead
    Kb <- Kb3
    Annotated = {}
    ArchNodes <- AnyArch
    KjValues <- SlowSlowerValues
    InitialKj <- SlowSlower
    Allocatable <- RoomAfterwards
    AllowedPods <- MCAllowedPods
    Others = {"delete"}
    Faults = {"error", "crash", "relist"}
    MaxFaults = 1
INVARIANTS
    CapacityKept
    ConsistentWhenQuiet
    NeverFatal
CHECK_DEADLOCK FALSE
