------------------------------ MODULE SensorEntity ------------------------------
(***************************************************************************)
(* One sensor entity of sensor.py, with the rounding step and the deadband *)
(* of its row, and all it is ever told: data arrives, the processor stops  *)
(* or starts being available, the freshness check runs.  When and why is   *)
(* left open.  Publication is this entity once per key, GaugeEntity this   *)
(* entity with the rows of the description table.                          *)
(***************************************************************************)
EXTENDS Rounding

CONSTANTS
    Value,        \* the values entity_data may hold: numbers, labels, None
    None,
    Unavailable,  \* state of an entity that is not available
    NoEntity      \* no state: the entity is not added yet

VARIABLES
    step, band,     \* what the row says, a band of 0 for none; never change
    available,      \* the processor is available
    lastAvailable,  \* the coordinator's last answer
    data,           \* entity_data of the entity's key, None if it has none
    published,      \* _published_value
    written         \* what the state machine holds

stateVars == <<published, written>>
entityVars == <<step, band, available, lastAvailable, data, published, written>>

NativeValue(value) == IF value \in Int THEN Round(value, step) ELSE value

StateOf(value, isAvailable) ==
    IF isAvailable /\ value # None THEN NativeValue(value) ELSE Unavailable

\* Seeded bug: labels are remembered as published numbers.
BugNumeric(value) == NativeValue(value)

\* _numeric(native_value): a number, or None for labels and None.
Numeric(value) == IF value \in Int THEN NativeValue(value) ELSE None

\* Seeded bug: the value is compared with the reading before it.
BugInBand(value) ==
    /\ band > 0
    /\ Numeric(value) # None
    /\ Numeric(data) # None
    /\ published # None
    /\ Distance(Numeric(value), Numeric(data)) < band

InBand(value) ==
    /\ band > 0
    /\ Numeric(value) # None
    /\ published # None
    /\ Distance(Numeric(value), published) < band

EntityInit ==
    /\ available = FALSE
    /\ lastAvailable = FALSE
    /\ data = None
    /\ published = None
    /\ written = NoEntity

\* Seeded bug: the band follows the readings it holds back.
BugHandle(value, isAvailable, flush) ==
    IF written # NoEntity /\ (flush \/ ~InBand(value))
      THEN /\ published' = IF flush THEN None ELSE Numeric(value)
           /\ written' = StateOf(value, isAvailable)
      ELSE published' = Numeric(value) /\ UNCHANGED written

\* Seeded bug: the availability path leaves the band in place.
BugHandleKeepsBand(value, isAvailable, flush) ==
    IF written # NoEntity /\ (flush \/ ~InBand(value))
      THEN /\ published' = IF flush THEN published ELSE Numeric(value)
           /\ written' = StateOf(value, isAvailable)
      ELSE UNCHANGED stateVars

\* _handle_processor_update: a state is written and remembered for the band
\* unless it is within the band; a flush (new_data is None), which may follow
\* data in the same step, always writes, and forgets the band.
Handle(value, isAvailable, flush) ==
    IF written # NoEntity /\ (flush \/ ~InBand(value))
      THEN /\ published' = IF flush THEN None ELSE Numeric(value)
           /\ written' = StateOf(value, isAvailable)
      ELSE UNCHANGED stateVars

\* Data, new or kept, while the processor is or becomes available.
Receive(value) ==
    /\ data' = value
    /\ available' = TRUE
    /\ lastAvailable' = TRUE
    /\ Handle(value, TRUE, ~lastAvailable)
    /\ UNCHANGED <<step, band>>

\* An advertisement that did not decode, while nothing else makes the processor
\* available: the entity is called with the data it has.
ReceiveNothing ==
    /\ ~available
    /\ lastAvailable' = FALSE
    /\ Handle(data, FALSE, lastAvailable)
    /\ UNCHANGED <<step, band, available, data>>

\* Bluetooth has lost the device; the coordinator's own answer is not renewed.
BleUnavailable ==
    /\ available' = FALSE
    /\ Handle(data, FALSE, TRUE)
    /\ UNCHANGED <<step, band, lastAvailable, data>>

\* The data has expired, which nobody is told yet.
Expire ==
    /\ available
    /\ available' = FALSE
    /\ UNCHANGED <<step, band, lastAvailable, data, stateVars>>

CheckFreshness ==
    /\ lastAvailable' = available
    /\ IF available # lastAvailable THEN Handle(data, available, TRUE) ELSE UNCHANGED stateVars
    /\ UNCHANGED <<step, band, available, data>>

\* The first state does not pass through _handle_processor_update.
Add ==
    /\ written = NoEntity
    /\ written' = StateOf(data, available)
    /\ UNCHANGED <<step, band, available, lastAvailable, data, published>>

EntityNext ==
    \/ \E value \in Value : Receive(value)
    \/ ReceiveNothing
    \/ BleUnavailable
    \/ Expire
    \/ CheckFreshness
    \/ Add

EntitySpec == EntityInit /\ [][EntityNext]_entityVars
================================================================================
