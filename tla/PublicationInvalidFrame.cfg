SPECIFICATION Spec
CONSTANTS
    alarm = alarm
    voltage = voltage
    energy = energy
    Key = {alarm, voltage, energy}
    SlowKey = {energy}
    Number = {0, 2, 5}
    Label = {quiet, low}
    Missing = Missing
    Absent = Absent
    Unsent = Unsent
    NoFrame = NoFrame
    Unavailable = Unavailable
    NoEntity = NoEntity
    Frame <- MCFrame
    Step <- MCStep
    Band <- MCBand
    Window = 2
    SlowInterval = 4
    Fresh = 3
    CheckPeriod = 2
    Cap = 6
PROPERTIES
    OnlyValidFramesRevive
