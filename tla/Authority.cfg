SPECIFICATION Spec
CONSTANTS
    N = 4
    MaxHeight = 3
CHECK_DEADLOCK FALSE
INVARIANTS
    MajorityBehind
    MajorityCanSign
