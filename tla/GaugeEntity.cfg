SPECIFICATION Spec
CONSTANTS
    CellKeys <- MCCellKeys
    quiet = quiet
    low = low
    Value <- MCValue
    None = None
    Unavailable = Unavailable
    NoEntity = NoEntity
INVARIANTS
    TypeOK
    DriftIsShown
    OnlyMeasurementsAreHeldBack
PROPERTIES
    DitherIsNotWritten
    BandEndsWithUnavailability
