------------------------------- MODULE SensorTable -------------------------------
(***************************************************************************)
(* How sensor.py treats the values of each row of SENSOR_DESCRIPTIONS: its *)
(* device and state class, the precision it is rounded to and the deadband *)
(* it has to leave.  A description is the (key, unit) pair of the table.   *)
(* Numbers are in thousandths of the unit, the finest resolution used.     *)
(***************************************************************************)
EXTENDS DeviceLayouts

\* A unit belongs to one device class.  Without a unit there is a charge, the
\* load of a solar charger, which the table gives one, and the labels.
DeviceClass(description) ==
    LET key == description[1]
        unit == description[2]
    IN  CASE unit = "V" -> "VOLTAGE"
          [] unit = "A" \/ description = <<"external_device_load", "-">> -> "CURRENT"
          [] unit = "W" -> "POWER"
          [] unit = "VA" -> "APPARENT_POWER"
          [] unit \in {"Wh", "kWh"} -> "ENERGY"
          [] unit = "C" -> "TEMPERATURE"
          [] unit = "%" -> "BATTERY"
          [] unit = "min" -> "DURATION"
          [] unit = "dBm" -> "SIGNAL_STRENGTH"
          [] key = "consumed_ah" -> "none"
          [] OTHER -> "ENUM"

\* Cells and the signal lose their state class in a loop after the table.
StateClass(description) ==
    LET key == description[1]
    IN  IF key \in {"yield_today", "charged_kwh", "discharged_kwh"} THEN "TOTAL_INCREASING"
        ELSE IF \/ key \in {"time_remaining", "remaining_mins", "consumed_energy", "signal_strength"}
                \/ description \in CellDescriptions \cup LabelDescriptions
             THEN "none"
             ELSE "MEASUREMENT"

IsLabel(description) == DeviceClass(description) = "ENUM"

--------------------------------------------------------------------------------
(* Rounding: by key, else by class and unit, else by class                 *)

_PRECISION_BY_KEY ==
    [key \in {"charged_kwh", "discharged_kwh", "consumed_ah", "consumed_energy", "output_power"}
        |-> IF key \in {"charged_kwh", "discharged_kwh"} THEN 3 ELSE 0]

_PRECISION_BY_DEVICE_CLASS_UNIT ==
    [pair \in {"ENERGY"} \X {"Wh", "kWh"} |-> IF pair[2] = "Wh" THEN 0 ELSE 3]

_PRECISION_BY_DEVICE_CLASS ==
    [class \in {"VOLTAGE", "CURRENT", "POWER", "APPARENT_POWER", "TEMPERATURE", "BATTERY",
                "DURATION"}
        |-> IF class \in {"VOLTAGE", "TEMPERATURE", "BATTERY"} THEN 1 ELSE 0]

\* A row without a precision keeps its value: all decimals that are modelled.
Precision(description) ==
    LET key == description[1]
        class == DeviceClass(description)
        pair == <<class, description[2]>>
    IN  IF key \in DOMAIN _PRECISION_BY_KEY THEN _PRECISION_BY_KEY[key]
        ELSE IF pair \in DOMAIN _PRECISION_BY_DEVICE_CLASS_UNIT
             THEN _PRECISION_BY_DEVICE_CLASS_UNIT[pair]
        ELSE IF class \in DOMAIN _PRECISION_BY_DEVICE_CLASS
             THEN _PRECISION_BY_DEVICE_CLASS[class]
        ELSE 3

Step(description) ==
    CASE Precision(description) = 0 -> 1000
      [] Precision(description) = 1 -> 100
      [] Precision(description) = 3 -> 1

--------------------------------------------------------------------------------
(* Deadbands: only for measurements, by class                              *)

_DEADBAND_BY_DEVICE_CLASS ==
    [class \in {"VOLTAGE", "CURRENT", "POWER"} |->
        CASE class = "VOLTAGE" -> 200
          [] class = "CURRENT" -> 500
          [] class = "POWER" -> 25000]

\* Seeded bug: the class alone decides, whatever the statistics are built from.
BugDeadband(description) ==
    IF DeviceClass(description) \in DOMAIN _DEADBAND_BY_DEVICE_CLASS
      THEN _DEADBAND_BY_DEVICE_CLASS[DeviceClass(description)]
      ELSE 0

\* 0 stands for None.
Deadband(description) ==
    IF /\ StateClass(description) = "MEASUREMENT"
       /\ DeviceClass(description) \in DOMAIN _DEADBAND_BY_DEVICE_CLASS
      THEN _DEADBAND_BY_DEVICE_CLASS[DeviceClass(description)]
      ELSE 0
================================================================================
