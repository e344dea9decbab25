SPECIFICATION Spec
CONSTANTS
    None = None
    Genesis = "g"
    Block <- MCBlock
    Parent <- MCParent
    Height <- MCHeight
    Weight <- MCWeight
    Node <- MCNode
    Edges <- MCEdges
    StartTip <- MCStartTip
    Arrivals <- MCArrivals
    MaxBlocks = 2
    MaxHeaders = 3
    Dense = 1
    MaxServing = 1
    MaxFaults = 1
CHECK_DEADLOCK FALSE
PROPERTIES
    CatchesUp
    FallsSilent
