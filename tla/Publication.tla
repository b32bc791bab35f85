------------------------------ MODULE Publication ------------------------------
(***************************************************************************)
(* From an advertisement to the states of one device: the throttle, the    *)
(* coordinator that keeps Bluetooth reception and successful decoding      *)
(* apart (VictronCoordinator), Home Assistant's passive Bluetooth          *)
(* processor, and the sensor entities with their rounding and deadband     *)
(* (sensor.py).                                                            *)
(*                                                                         *)
(* All of it runs on the event loop without suspending, so an              *)
(* advertisement is one step, from the Bluetooth callback to the states    *)
(* it writes.  Numbers are integers in the finest resolution a device      *)
(* reports.                                                                *)
(***************************************************************************)
EXTENDS Throttle, Rounding

CONSTANTS
    Frame,        \* the valid frames of the device
    NoFrame,
    Fresh,        \* a decoded frame counts for this long (120 s)
    CheckPeriod,  \* period of the check_freshness timer (15 s)
    Step,         \* per key: the rounding step
    Band,         \* per key: the deadband, 0 for none
    Unavailable,  \* state of an entity that is not available
    NoEntity      \* no state: the entity is not added yet

ASSUME FrameAssumption == Frame \subseteq FrameValues /\ NoFrame \notin Frame
ASSUME NumberAssumption == Number \subseteq Int /\ Missing \notin Int /\ Label \cap Int = {}
ASSUME PeriodAssumption ==
    /\ Fresh \in Nat \ {0} /\ CheckPeriod \in Nat \ {0}
    /\ Cap >= Fresh + CheckPeriod
ASSUME GaugeAssumption == Step \in [Key -> Nat \ {0}] /\ Band \in [Key -> Nat]
ASSUME StateAssumption ==
    /\ {Unavailable, NoEntity} \cap (Int \cup Label \cup {Missing}) = {}
    /\ Unavailable # NoEntity

None == Missing

VARIABLES
    bleAvailable,   \* the Bluetooth integration hears the device
    sinceSuccess,   \* now - last_success_monotonic; Cap before the first success
    lastAvailable,  \* coordinator._last_available
    sinceCheck,     \* age of the last run of the check_freshness timer
    entityData,     \* processor.entity_data
    described,      \* keys whose entity description was handed over
    published,      \* per entity: _published_value
    written,        \* per entity: what the state machine holds
    frame           \* history: the last valid frame

coordinatorVars == <<bleAvailable, sinceSuccess, lastAvailable, sinceCheck>>
entityVars == <<entityData, described, published, written>>
vars == <<throttleVars, coordinatorVars, entityVars, frame>>

Added == {k \in Key : written[k] # NoEntity}

\* VictronCoordinator.available
Available == sinceSuccess < Fresh /\ bleAvailable

--------------------------------------------------------------------------------
(* One entity                                                              *)

NativeValue(k, data) == IF data[k] \in Number THEN Round(data[k], Step[k]) ELSE data[k]

\* What a state write puts into the state machine.
StateOf(k, data, available) ==
    IF available /\ data[k] \notin {Absent, None} THEN NativeValue(k, data) ELSE Unavailable

\* Seeded bug: labels are remembered as published numbers.
BugNumeric(k, data) == NativeValue(k, data)

\* _published_value after a write: labels and None count as nothing published.
Numeric(k, data) == IF data[k] \in Number THEN NativeValue(k, data) ELSE None

InBand(k, data) ==
    /\ Band[k] > 0
    /\ Numeric(k, data) # None
    /\ published[k] # None
    /\ Distance(Numeric(k, data), published[k]) < Band[k]

\* Seeded bug: the band follows the readings, so slow drift never leaves it.
BugUpdateEntities(touched, data, available, flush) ==
    LET writes(k) == k \in Added /\ (flush \/ (k \in touched /\ ~InBand(k, data)))
    IN  /\ published' = [k \in Key |->
               IF flush THEN None ELSE IF k \in touched THEN Numeric(k, data) ELSE published[k]]
        /\ written' = [k \in Key |->
               IF writes(k) THEN StateOf(k, data, available) ELSE written[k]]

(***************************************************************************)
(* _handle_processor_update of the entities: those in "touched" receive    *)
(* data and write unless the value is in the band; a flush (new_data is    *)
(* None) comes last and makes every entity write and forget its band.      *)
(***************************************************************************)
UpdateEntities(touched, data, available, flush) ==
    LET writes(k) == k \in Added /\ (flush \/ (k \in touched /\ ~InBand(k, data)))
    IN  /\ published' = [k \in Key |->
               IF ~writes(k) THEN published[k] ELSE IF flush THEN None ELSE Numeric(k, data)]
        /\ written' = [k \in Key |->
               IF writes(k) THEN StateOf(k, data, available) ELSE written[k]]

\* The entity of a key described before is added; its first state is written
\* without passing through _handle_processor_update.
AddEntity(k) ==
    /\ k \in described \ Added
    /\ written' = [written EXCEPT ![k] = StateOf(k, entityData, Available)]
    /\ UNCHANGED <<throttleVars, coordinatorVars, entityData, described, published, frame>>

--------------------------------------------------------------------------------
(* The coordinator                                                         *)

Init ==
    /\ ThrottleInit
    /\ bleAvailable = FALSE
    /\ sinceSuccess = Cap
    /\ lastAvailable = FALSE
    /\ sinceCheck = 0
    /\ entityData = [k \in Key |-> Absent]
    /\ described = {}
    /\ published = [k \in Key |-> None]
    /\ written = [k \in Key |-> NoEntity]
    /\ frame = NoFrame

Merge(old, new) == [k \in Key |-> IF new[k] # Absent THEN new[k] ELSE old[k]]

\* Seeded bug: the entities are called before the new data is merged.
BugProcessUpdate(data) ==
    LET available == sinceSuccess' < Fresh
        touched == IF Available THEN {k \in Key : data[k] # entityData[k]} ELSE Key
    IN  /\ entityData' = data
        /\ lastAvailable' = available
        /\ UpdateEntities(touched, entityData, available, available # lastAvailable)

\* The processor hands data on to every entity after an unavailability, and
\* otherwise to those whose value changed; check_freshness follows.
ProcessUpdate(data) ==
    LET available == sinceSuccess' < Fresh
        touched == IF Available THEN {k \in Key : data[k] # entityData[k]} ELSE Key
    IN  /\ entityData' = data
        /\ lastAvailable' = available
        /\ UpdateEntities(touched, data, available, available # lastAvailable)

\* Seeded bug: only a lost Bluetooth signal counts as something to recover from.
BugReceiveFrame(f) ==
    LET recovery == ~bleAvailable
    IN  /\ bleAvailable' = TRUE
        /\ sinceSuccess' = 0
        /\ frame' = f
        /\ \/ /\ Send(f, recovery)
              /\ described' = described \cup {k \in Key : f[k] # Absent}
              /\ ProcessUpdate(Merge(entityData, Forwarded(f, recovery)))
           \/ /\ Suppress(f, recovery)
              /\ UNCHANGED described
              /\ ProcessUpdate(entityData)
        /\ UNCHANGED sinceCheck

\* An advertisement that decodes.  force() sees the reception just recorded but
\* not yet the success of this frame.
ReceiveFrame(f) ==
    LET recovery == sinceSuccess >= Fresh
    IN  /\ bleAvailable' = TRUE
        /\ sinceSuccess' = 0
        /\ frame' = f
        /\ \/ /\ Send(f, recovery)
              /\ described' = described \cup {k \in Key : f[k] # Absent}
              /\ ProcessUpdate(Merge(entityData, Forwarded(f, recovery)))
           \/ /\ Suppress(f, recovery)
              /\ UNCHANGED described
              /\ ProcessUpdate(entityData)
        /\ UNCHANGED sinceCheck

\* An advertisement that does not decode: update() returns an empty update,
\* which the processor handles like any other.
ReceiveInvalid ==
    /\ bleAvailable' = TRUE
    /\ UNCHANGED sinceSuccess
    /\ ProcessUpdate(entityData)
    /\ UNCHANGED <<throttleVars, sinceCheck, described, frame>>

\* The Bluetooth integration has lost the device.
BleUnavailable ==
    /\ bleAvailable
    /\ bleAvailable' = FALSE
    /\ UpdateEntities({}, entityData, FALSE, TRUE)
    /\ UNCHANGED <<throttleVars, sinceSuccess, lastAvailable, sinceCheck,
                   entityData, described, frame>>

\* Seeded bug: the timer notes the change but tells no processor.
BugCheckFreshness ==
    /\ sinceCheck' = 0
    /\ lastAvailable' = Available
    /\ UNCHANGED <<throttleVars, bleAvailable, sinceSuccess, entityVars, frame>>

\* The check_freshness timer.
CheckFreshness ==
    /\ sinceCheck' = 0
    /\ lastAvailable' = Available
    /\ UpdateEntities({}, entityData, Available, Available # lastAvailable)
    /\ UNCHANGED <<throttleVars, bleAvailable, sinceSuccess, entityData, described, frame>>

\* Time passes, but a due timer is not skipped.
Clock ==
    /\ sinceCheck < CheckPeriod
    /\ sinceCheck' = sinceCheck + 1
    /\ sinceSuccess' = Older(sinceSuccess)
    /\ ThrottleElapse
    /\ UNCHANGED <<bleAvailable, lastAvailable, entityVars, frame>>

Next ==
    \/ \E f \in Frame : ReceiveFrame(f)
    \/ ReceiveInvalid
    \/ BleUnavailable
    \/ CheckFreshness
    \/ \E k \in Key : AddEntity(k)
    \/ Clock

Spec == Init /\ [][Next]_vars

--------------------------------------------------------------------------------
(* Properties                                                              *)

TypeOK ==
    /\ ThrottleTypeOK
    /\ bleAvailable \in BOOLEAN
    /\ sinceSuccess \in Ages
    /\ lastAvailable \in BOOLEAN
    /\ sinceCheck \in 0..CheckPeriod
    /\ entityData \in FrameValues
    /\ described \subseteq Key
    /\ published \in [Key -> Int \cup {None}]
    /\ written \in [Key -> Int \cup Label \cup {Unavailable, NoEntity}]
    /\ frame \in Frame \cup {NoFrame}

Carried == {k \in Key : \A f \in Frame : f[k] # Absent}

\* A state stands for a value: equal to it, or a number within the deadband.
StandsFor(state, k, data) ==
    LET value == StateOf(k, data, TRUE)
    IN  \/ state = value
        \/ state \in Int /\ value \in Int /\ Distance(state, value) < Band[k]

\* While the device is available every state stands for the value its entity
\* holds: no order of frames, lost devices, expiries and late additions leaves
\* an entity behind a value the deadband was not allowed to swallow.
StatesFollowData ==
    Available => \A k \in Added : StandsFor(written[k], k, entityData)

\* No measurement outlives its freshness by more than one timer period, whatever
\* undecodable advertisements keep arriving (README: two minutes).
ExpiredDataIsNotShown ==
    sinceSuccess >= Fresh + CheckPeriod => \A k \in Added : written[k] = Unavailable

\* An alarm or a mode of the last valid frame is in the state machine as soon as
\* the frame was handled, through throttle, processor and entity.
AlarmsReachTheStateMachine ==
    Available =>
        \A k \in (Added \cap Carried) \ SlowKey :
            (StateLike(frame[k]) => written[k] = StateOf(k, frame, TRUE))

\* README.md:45: "measurements become unavailable and recover on the next valid
\* frame": the frame that ends an expiry is shown whole, slow keys included.
ExpiryEndsWithWholeFrame ==
    [][sinceSuccess >= Fresh /\ sinceSuccess' = 0 =>
          \A k \in Key : (frame'[k] # Absent =>
              /\ entityData'[k] = frame'[k]
              /\ k \in Added => StandsFor(written'[k], k, frame'))]_vars

\* CHANGELOG.md:35: "Invalid frames cannot publish stale or partially decoded
\* data": a value returns to the state machine only with a valid frame.
OnlyValidFramesRevive ==
    [][\A k \in Added :
          written[k] = Unavailable /\ written'[k] # Unavailable => sinceSuccess' = 0]_vars

\* "Between throttle windows [...] writes no states" (docstring of
\* _make_throttled_update): while a device is available a state only changes when
\* the window is over or a state-like value differs from the frame before, that of
\* a slow key only at its own interval; for nobody else wakes an entity then.
StatesAreWrittenAtTheirPace ==
    [][\A k \in Added :
          Available /\ Available' /\ written'[k] # written[k] =>
              /\ sinceSent >= Window \/ States(frame') # States(frame)
              /\ k \in SlowKey => sinceSlow[k] >= SlowInterval]_vars

\* A valid frame is shown when it arrives, unless the device was fresh and the
\* window runs without a change of a state-like value, or the interval of a slow
\* key runs: nothing but the throttle's own intervals keeps a value from the user.
StatesKeepUpWithFrames ==
    [][sinceSuccess' = 0 =>
          \A k \in Added : (frame'[k] # Absent =>
              \/ StandsFor(written'[k], k, frame')
              \/ /\ sinceSuccess < Fresh
                 /\ \/ sinceSent < Window /\ States(frame') = States(frame)
                    \/ k \in SlowKey /\ sinceSlow[k] < SlowInterval)]_vars

\* What the entity of a key reads: a key without data reads as None.
Held(k) == IF entityData[k] = Absent THEN None ELSE entityData[k]

Entity(k) == INSTANCE SensorEntity WITH
    step <- Step[k], band <- Band[k], available <- Available, data <- Held(k),
    published <- published[k], written <- written[k]

\* Every key has an entity of its own that behaves as SensorEntity says: through one
\* coordinator and one list of calls, no entity is touched by the data of another
\* key, misses an answer of the coordinator or is called in a way of its own
\* (the conjuncts of \A k \in Key : Entity(k)!EntitySpec, which TLC reads like this).
EntitiesSeeOnlyTheirCalls ==
    /\ \A k \in Key : Entity(k)!EntityInit
    /\ [][\A k \in Key : [Entity(k)!EntityNext]_(Entity(k)!entityVars)]_vars
================================================================================
