SPECIFICATION Spec
CONSTANTS
    Power <- MCPower
    MaxPower = 1
    MaxGap = 2
    NoSample = NoSample
    NoFile = NoFile
    Nothing = Nothing
    Horizon = 2
    FaultBound = 1
    RestartBound = 0
INVARIANTS
    TickLeavesNothingBehind
CHECK_DEADLOCK FALSE
