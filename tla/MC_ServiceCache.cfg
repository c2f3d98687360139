CONSTANTS
    o1 = o1
    o2 = o2
    b1 = b1
    b2 = b2
    Operators <- MC_Operators
    Blocks <- MC_Blocks
    ExitedAt <- MC_ExitedAt
    RecordedAt <- MC_RecordedAt
    MaxCalls = 5
SPECIFICATION Spec
CHECK_DEADLOCK FALSE
INVARIANT ReturnedValuesStable
