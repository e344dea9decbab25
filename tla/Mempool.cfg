SPECIFICATION Spec
CONSTANTS
    Pending <- MCPending
    Spends <- MCSpends
    Fee <- MCFee
    MaxSize = 4
    MinFee = 2
    MaxReplacements = 2
INVARIANTS
    ClaimsExact
PROPERTIES
    RefusalIsFree
    FeesRise
