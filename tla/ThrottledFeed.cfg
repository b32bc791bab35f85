SPECIFICATION Spec
CONSTANTS
    auxMode = auxMode
    voltage = voltage
    energy = energy
    midpoint = midpoint
    atMidpoint = atMidpoint
    atStarter = atStarter
    Key = {auxMode, voltage, energy, midpoint}
    SlowKey = {energy}
    Number = {1, 2}
    Label = {atMidpoint, atStarter}
    Missing = Missing
    Absent = Absent
    Unsent = Unsent
    NoFrame = NoFrame
    Frame <- MCFrame
    Window = 2
    SlowInterval = 5
    Cap = 8
INVARIANTS
    TypeOK
    StatesAreCurrent
    GaugesAreRecent
    SlowKeysAreRecent
PROPERTIES
    AlarmsDoNotAccelerateSlowKeys
