SPECIFICATION Spec
CONSTANTS
    None = None
    Genesis = "g"
    Block <- MCBlock
    Parent <- MCParent
    Height <- MCHeight
    Weight <- MCForkWeight
    Node <- MCNode
    Edges <- MCEdges
    StartTip <- MCForkTip
    Arrivals <- MCNoArrivals
    MaxBlocks = 2
    MaxHeaders = 3
    Dense = 1
    MaxServing = 1
    MaxFaults = 0
CHECK_DEADLOCK FALSE
PROPERTY
    CatchesUp
