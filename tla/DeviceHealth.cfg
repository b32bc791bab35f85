SPECIFICATION FairSpec
CONSTANTS
    Key = {k1, k2}
    Nothing = Nothing
    Garbled = Garbled
    Unrelated = Unrelated
    Fresh = 2
    Cap = 2
    MaxFailures = 1
    MaxReloads = 2
INVARIANTS
    TypeOK
    ReportIsCoherent
    OneWarningPerOutage
PROPERTIES
    KeyTakesEffect
