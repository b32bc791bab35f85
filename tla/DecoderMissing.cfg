SPECIFICATION Spec
CONSTANTS
    CellKeys <- MCCellKeys
    MaxFailures = 1
INVARIANT
    MissingMeasurementsAreUnavailable
