SPECIFICATION Spec
CONSTANTS
    Flow = {f1, f2}
    Address = {shunt, solar}
    k1 = k1
    k2 = k2
    k3 = k3
    b1 = b1
    b2 = b2
    Key = {k1, k2, k3}
    Byte = {b1, b2}
    CheckByte <- MCCheckByte
    Malformed = Malformed
    Option = {0, 5}
    MinThrottle = 1
    MaxThrottle = 60
    Unset = Unset
    Nothing = Nothing
    MaxReloads = 2
SYMMETRY Symmetry
INVARIANTS
    TypeOK
    CoordinatorsFollowEntries
PROPERTIES
    RefutedKeysAreNotSaved
    SetupNeverReplacesAnEntry
