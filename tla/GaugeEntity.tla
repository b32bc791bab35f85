------------------------------ MODULE GaugeEntity ------------------------------
(***************************************************************************)
(* The sensor entity of each row of the description table: the readings it *)
(* rounds and holds back are those its row says.                           *)
(***************************************************************************)
EXTENDS SensorTable, SensorEntity

ASSUME ValueAssumption ==
    /\ None \in Value \ Int
    /\ {Unavailable, NoEntity} \cap (Value \cup Int) = {}
    /\ Unavailable # NoEntity

VARIABLE description   \* the row of the table; never changes

vars == <<description, entityVars>>

\* A row is of numbers or of labels.
Readings(row) == {value \in Value : value = None \/ (value \in Int <=> ~IsLabel(row))}

Init ==
    /\ description \in SENSOR_DESCRIPTIONS
    /\ step = Step(description)
    /\ band = Deadband(description)
    /\ EntityInit

Next ==
    /\ \/ \E value \in Readings(description) : Receive(value)
       \/ ReceiveNothing
       \/ BleUnavailable
       \/ Expire
       \/ CheckFreshness
       \/ Add
    /\ UNCHANGED description

Spec == Init /\ [][Next]_vars

--------------------------------------------------------------------------------
(* Properties                                                              *)

TypeOK ==
    /\ description \in SENSOR_DESCRIPTIONS
    /\ step = Step(description) /\ band = Deadband(description)
    /\ available \in BOOLEAN
    /\ lastAvailable \in BOOLEAN
    /\ data \in Readings(description)
    /\ published \in Int \cup {None}
    /\ written \in Int \cup Value \cup {Unavailable, NoEntity}
    /\ IsLabel(description) => published = None

\* A gauge follows slow drift (comment at sensor.py:551): however the readings
\* crept there and whatever happened to the device meanwhile, a number that is
\* shown is off by a band and half a step at most.
DriftIsShown ==
    /\ available /\ data \in Int /\ written # NoEntity => written \in Int
    /\ written \in Int =>
          /\ data \in Int
          /\ 2 * Distance(data, written) <= 2 * band + step

\* Only a measurement is ever held back: counters, whose statistics would stall,
\* cells and labels always show the value at hand (comment at sensor.py:554).
OnlyMeasurementsAreHeldBack ==
    available /\ written # NoEntity /\ StateClass(description) # "MEASUREMENT" =>
        written = StateOf(data, TRUE)

\* Dither that stays within the band less half a step of the state shown writes
\* nothing, wherever it lies between two steps (comment at sensor.py:548).  A
\* current has a band of half its step, so for it this promises nothing.
DitherIsNotWritten ==
    [][\A value \in Readings(description) \cap Int :
          /\ published # None /\ lastAvailable
          /\ Receive(value)
          /\ 2 * Distance(value, written) < 2 * band - step
        => UNCHANGED written]_vars

\* The band never reaches across a state the user has seen to be unavailable: a
\* reading is shown as it is unless it is within the band of a number that is
\* shown already.  An expiry that nobody was told of before the next reading flushes
\* nothing, and there the band goes on, although the docstring at sensor.py:709 has the
\* first reading after a recovery publish.
BandEndsWithUnavailability ==
    [][available' /\ written # NoEntity =>
          \/ written' = StateOf(data', TRUE)
          \/ /\ written \in Int /\ written' = written
             /\ data' \in Int
             /\ Distance(NativeValue(data'), written) < band]_vars
================================================================================
