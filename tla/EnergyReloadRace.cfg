SPECIFICATION Spec
CONSTANTS
    Power <- MCPower
    MaxPower = 1
    MaxGap = 2
    NoSample = NoSample
    NoFile = NoFile
    Nothing = Nothing
    Horizon = 2
    FaultBound = 0
    RestartBound = 1
INVARIANTS
    ReloadRestoresShownTotals
CHECK_DEADLOCK FALSE
