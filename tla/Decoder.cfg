SPECIFICATION Spec
CONSTANTS
    CellKeys <- MCCellKeys
    MaxFailures = 1
INVARIANTS
    TypeOK
    NothingStaleIsPublished
    OnlyConditionalSensorsGoStale
    ComputedSensorsHaveTheirOperands
    EverySensorIsDescribed
    EnergyIntervalsAreObserved
    OneWarningPerFailure
PROPERTIES
    OnlyCompleteFramesAreShown
