SPECIFICATION Spec
CONSTANTS
    p1 = p1
    p2 = p2
    n1 = n1
    n2 = n2
    Nil = Nil
    FallsShort <- Float64Falls
    Exceeds <- Float64Exceeds
    Pods <- OnePod
    Nodes <- TwoNodes
    Containers <- Containers512
    InitCpu <- SmallInit
    Overhead <- NoOverhead
    Kb <- Kb3
    Annotated = {}
    ArchNodes <- AnyArch
    KjValues <- SlowFastValues
    InitialKj <- SlowFast
    Allocatable <- RoomForOne
    AllowedPods <- MCAllowedPods
    Others = {"run"}
    Faults = {}
    MaxFaults = 0
INVARIANT
    RequestedIsTotal
CHECK_DEADLOCK FALSE
