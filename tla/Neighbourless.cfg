SPECIFICATION FairSpec
CONSTANTS
    Vertex <- MCVertex
    Strangers = {0}
    Edge <- MCEdge
CHECK_DEADLOCK FALSE
PROPERTIES
    WaitsForNeighbours
