SPECIFICATION Spec
CONSTANTS
    Allocation <- MCAllocation
    Policy <- MCPolicy
    Schedules <- MCSchedules
    Maturity = 1
    MinFee = 1
    MaxSize = 2
    MaxReplacements = 1
    CoinPool = 3
    MaxSplit = 2
    r1 = r1
    r2 = r2
    Records <- MCRecords
    Amounts = {4}
    Fees = {1, 2}
    Recipients = {"op"}
    Shortfalls = {0, 1}
    MaxHeight = 3
    MaxTxs = 3
    MaxEvents = 2
    MaxReorg = 2
    EmissionHeights = 24
SYMMETRY MCSymmetry
INVARIANTS
    EmissionExact
    
    PaidOnceUnlessForgotten
    BumpKeepsPayment
PROPERTIES
    AnchorAdmitted
CHECK_DEADLOCK FALSE
