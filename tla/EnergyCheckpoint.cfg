SPECIFICATION FairSpec
CONSTANTS
    Power <- MCPower
    MaxPower = 1
    MaxGap = 2
    NoSample = NoSample
    NoFile = NoFile
    Nothing = Nothing
    Horizon = 3
    FaultBound = 1
    RestartBound = 2
INVARIANTS
    TypeOK
    NeverInflated
    OrderlyRestartKeepsTotals
    DiskHoldsLastTick
PROPERTIES
    FileNeverRegresses
    CountedEnergyIsSaved
    IntegratesObservedPower
CHECK_DEADLOCK FALSE
