-------------------------------- MODULE Decoder --------------------------------
(***************************************************************************)
(* Decoding of one device's advertisements (VictronBluetoothDeviceData,    *)
(* device.py), the conversion by the description table (sensor.py) and the *)
(* processor's merged view of the results, one sensor key at a time.       *)
(*                                                                         *)
(* A value is known by its origin: "fresh" from the last advertisement     *)
(* that decoded, "stale" from an older one, "none" for None, "absent"      *)
(* before the first.  The throttle between update() and the processor has  *)
(* a model of its own (ThrottledFeed); here every update is forwarded.     *)
(***************************************************************************)
EXTENDS DeviceLayouts

CONSTANT MaxFailures   \* bound: consecutive_failures is counted up to here

ASSUME BoundAssumption == MaxFailures \in Nat \ {0}

VARIABLES
    kind,         \* the device behind the entry's address
    collected,    \* _sensor_values_updates and _sensor_descriptions_updates
    failures,     \* consecutive_failures
    anchor,       \* the energy accumulator holds a power sample
    warned,       \* the address is in _WARNED_PARSE_FAILURES
    entityData,   \* processor.entity_data
    \* history
    unreadable,   \* unreadable fields of the last decoded advertisement
    aux,          \* auxiliary mode of the last decoded advertisement
    broken,       \* an advertisement failed to parse since the last decoded one
    warnings      \* warnings logged since the last decoded advertisement

history == <<unreadable, aux, broken, warnings>>
vars == <<kind, collected, failures, anchor, warned, entityData, history>>

RowsOf(rows) == {rows[i] : i \in DOMAIN rows}
AuxModesOf(k) == IF k = "BatteryMonitor" THEN AuxModes ELSE {"disabled"}
AllRows(k) == UNION {RowsOf(Layout(k, a)) : a \in AuxModesOf(k)}

\* Added by the parent class to every update, decoded or not.
Rssi == Row("signal_strength", "dBm", {}, "none")

KeysOf(k) == {row.key : row \in AllRows(k) \cup {Rssi}}
Fields(k, a) == UNION {row.inputs : row \in RowsOf(Layout(k, a))}
Lacks(row, bad) == row.inputs \cap bad # {}

--------------------------------------------------------------------------------
(* One advertisement                                                       *)

Raises(row, bad) == row.unreadable = "raise" /\ Lacks(row, bad)

\* Seeded bug: the tests for None and for infinite voltages are dropped.
BugSkips(row, bad) == FALSE

Skips(row, bad) == row.unreadable = "skip" /\ Lacks(row, bad)

\* Seeded bug: a computed sensor is None only if all its operands are.
BugValue(row, bad) == IF row.inputs = bad THEN row.unreadable ELSE "fresh"

Value(row, bad) == IF Lacks(row, bad) THEN row.unreadable ELSE "fresh"

Decodes(rows, bad) == \A row \in RowsOf(rows) : ~Raises(row, bad)

\* The rows reached before an exception.
Reached(rows, bad) ==
    {rows[i] : i \in {i \in DOMAIN rows : \A j \in 1..i : ~Raises(rows[j], bad)}}

Entry(row, value) == [row |-> row, value |-> value]

\* Seeded bug: None is taken for "no update" and left out.
BugCollect(rows, bad) ==
    {Entry(row, Value(row, bad)) : row \in {r \in rows : ~Lacks(r, bad)}}
        \cup {Entry(Rssi, "fresh")}

Collect(rows, bad) ==
    {Entry(row, Value(row, bad)) : row \in {r \in rows : ~Skips(r, bad)}}
        \cup {Entry(Rssi, "fresh")}

\* Seeded bug: the dictionaries are not cleared before the next advertisement.
BugCleared(entries) == entries

\* update() clears the dictionaries in place before it parses.
Cleared(entries) == {}

\* The dictionaries of the parent class outlive an advertisement: what is not
\* cleared and not collected again would be handed out a second time.
Updates(entries) ==
    entries \cup {Entry(e.row, "stale") :
                     e \in {e \in Cleared(collected) : \A n \in entries : n.row # e.row}}

\* sensor_update_to_bluetooth_data_update: what the table does not describe is dropped.
Known(entries) == {e \in entries : Described(e.row)}

\* The processor merges an update key by key.
Merged(entries) ==
    LET known == Known(entries)
        of(key) == {e.value : e \in {e \in known : e.row.key = key}}
    IN  [key \in KeysOf(kind) |->
            IF of(key) # {} THEN CHOOSE v \in of(key) : TRUE
            ELSE IF entityData[key] = "fresh" THEN "stale" ELSE entityData[key]]

\* Seeded bug: a frame that breaks off is published as far as it went.
BugFail(entries) ==
    /\ collected' = Updates(entries)
    /\ failures' = IF failures < MaxFailures THEN failures + 1 ELSE failures
    /\ anchor' = FALSE
    /\ entityData' = Merged(collected')
    /\ UNCHANGED <<kind, unreadable, aux>>

\* Seeded bug: the power sample survives an advertisement that does not decode.
BugFailKeepsSample(entries) ==
    /\ collected' = Updates(entries)
    /\ failures' = IF failures < MaxFailures THEN failures + 1 ELSE failures
    /\ UNCHANGED <<kind, anchor, entityData, unreadable, aux>>

\* update() without a valid frame: nothing is published, the sample is forgotten.
Fail(entries) ==
    /\ collected' = Updates(entries)
    /\ failures' = IF failures < MaxFailures THEN failures + 1 ELSE failures
    /\ anchor' = FALSE
    /\ UNCHANGED <<kind, entityData, unreadable, aux>>

\* Seeded bug: warns for every advertisement.
BugWarn ==
    /\ warned' = TRUE
    /\ broken' = TRUE
    /\ warnings' = IF warnings < 2 THEN warnings + 1 ELSE warnings

\* _warn_parse_failure
Warn ==
    /\ warned' = TRUE
    /\ broken' = TRUE
    /\ warnings' = IF warned THEN warnings ELSE warnings + 1

\* An advertisement whose fields can all be published.
ReceiveFrame(a, bad) ==
    LET rows == Layout(kind, a) IN
    /\ Decodes(rows, bad)
    /\ collected' = Updates(Collect(RowsOf(rows), bad))
    /\ failures' = 0
    /\ anchor' = IF kind = "BatteryMonitor" THEN bad \cap Product = {} ELSE anchor
    /\ entityData' = Merged(collected')
    /\ warned' = FALSE
    /\ unreadable' = bad
    /\ aux' = a
    /\ broken' = FALSE
    /\ warnings' = 0
    /\ UNCHANGED kind

\* One that raises on the way: the sensors before that point stay collected.
ReceiveBrokenFrame(a, bad) ==
    LET rows == Layout(kind, a) IN
    /\ ~Decodes(rows, bad)
    /\ Fail(Collect(Reached(rows, bad), bad))
    /\ Warn

\* One the library does not parse: an unknown model, a wrong key, a bad frame.
ReceiveUnparsable ==
    /\ Fail({Entry(Rssi, "fresh")})
    /\ Warn

\* One without instant readout data of Victron.
ReceiveUnrelated ==
    /\ Fail({Entry(Rssi, "fresh")})
    /\ UNCHANGED <<warned, broken, warnings>>

--------------------------------------------------------------------------------

Init ==
    /\ kind \in Kinds
    /\ collected = {}
    /\ failures = 0
    /\ anchor = FALSE
    /\ warned = FALSE
    /\ entityData = [key \in KeysOf(kind) |-> "absent"]
    /\ unreadable = {}
    /\ aux = "disabled"
    /\ broken = FALSE
    /\ warnings = 0

\* Bound: at most two fields of an advertisement are unreadable.
Unreadable(a) == {{}} \cup {{f, g} : f \in Fields(kind, a), g \in Fields(kind, a)}

Next ==
    \/ \E a \in AuxModesOf(kind) : \E bad \in Unreadable(a) :
           ReceiveFrame(a, bad) \/ ReceiveBrokenFrame(a, bad)
    \/ ReceiveUnparsable
    \/ ReceiveUnrelated

Spec == Init /\ [][Next]_vars

--------------------------------------------------------------------------------
(* Properties                                                              *)

\* What update() collects are values or None, never the placeholder of a sensor
\* that had to be skipped (an infinite cell voltage), and keys of the device.
TypeOK ==
    /\ kind \in Kinds
    /\ collected \subseteq
           {Entry(row, v) : row \in AllRows(kind) \cup {Rssi}, v \in {"fresh", "none", "stale"}}
    /\ failures \in 0..MaxFailures
    /\ anchor \in BOOLEAN /\ warned \in BOOLEAN /\ broken \in BOOLEAN
    /\ entityData \in [KeysOf(kind) -> {"absent", "none", "fresh", "stale"}]
    /\ aux \in AuxModesOf(kind) /\ unreadable \subseteq Fields(kind, aux)
    /\ warnings \in 0..2

\* device.py:106, "never refresh stale data": an update holds no value of an
\* earlier advertisement, neither of one that decoded nor of one that broke off.
NothingStaleIsPublished == \A e \in collected : e.value # "stale"

\* device.py:106, "Publish only complete decoded frames; never refresh stale data":
\* while advertisements fail, everything the processor shows still belongs to the
\* last frame that decoded, although the failing ones collect part of theirs.
OnlyCompleteFramesAreShown ==
    [][failures' # 0 => entityData' = entityData]_vars

\* A sensor falls behind the last decoded frame only where the code leaves it out
\* of a frame: a skipped optional field, or another auxiliary mode.
ConditionalSensors ==
    {row.key : row \in {r \in AllRows(kind) : r.unreadable = "skip"}}
        \cup {row.key : row \in UNION {RowsOf(Auxiliary(a)) : a \in AuxModes \ {aux}}}

OnlyConditionalSensorsGoStale ==
    {key \in KeysOf(kind) : entityData[key] = "stale"} \subseteq ConditionalSensors

\* A computed sensor shows a value of the last frame only if every operand did:
\* power, deficit and the energy counters disappear together with the voltage.
ComputedSensorsHaveTheirOperands ==
    \A row \in AllRows(kind) :
        entityData[row.key] = "fresh" /\ row.inputs \subseteq KeysOf(kind) =>
            \A field \in row.inputs : entityData[field] = "fresh"

\* The table of sensor.py describes every (key, unit) pair the decoder produces
\* for any device, so no sensor is dropped silently.
EverySensorIsDescribed == Known(collected) = collected

\* A power sample is integrated from only when the very last advertisement
\* decoded and shows that power and both counters.
EnergyIntervalsAreObserved ==
    anchor => /\ failures = 0
              /\ \A key \in {"output_power", "charged_kwh", "discharged_kwh"} :
                     entityData[key] = "fresh"

\* device.py:85-87: one log line per device, and a failure after the device has
\* parsed again is reported anew.
OneWarningPerFailure == warnings = IF broken THEN 1 ELSE 0

\* CHANGELOG.md:37: "Missing numeric measurements are unavailable": the sensor of a
\* field the last frame lacks does not keep a value of an older frame.
MissingMeasurementsAreUnavailable ==
    \A key \in unreadable \cap KeysOf(kind) : entityData[key] # "stale"
================================================================================
