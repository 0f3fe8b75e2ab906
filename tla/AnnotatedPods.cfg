SPECIFICATION Spec
CONSTANTS
    p1 = p1
    p2 = p2
    n1 = n1
    n2 = n2
    Nil = Nil
    FallsShort <- Float64Falls
    Exceeds <- Float64Exceeds
    Pods <- MCPods
    Nodes <- OneNode
    Containers <- Containers500
    InitCpu <- NoInit
    Overhead <- NoOverhead
    Kb <- Kb10
    Annotated = {p1}
    ArchNodes <- AnyArch
    KjValues <- SlowValues
    InitialKj <- Slow
    Allocatable <- Room1500
    AllowedPods <- MCAllowedPods
    Others = {}
    Faults = {}
    MaxFaults = 0
INVARIANT
    NoOvercommit
CHECK_DEADLOCK FALSE
