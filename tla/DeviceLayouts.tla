----------------------------- MODULE DeviceLayouts -----------------------------
(***************************************************************************)
(* What _process_mfr_data (device.py) publishes for each kind of device,   *)
(* and what the description table of sensor.py knows.                      *)
(*                                                                         *)
(* A layout is the sequence of sensor updates of one branch, in program    *)
(* order.  A row names the sensor key, its unit, the fields of the frame   *)
(* it reads, and what happens when one of those fields is unreadable       *)
(* (None, an unknown enumeration value or, for a cell, an infinite         *)
(* voltage):                                                               *)
(*   "none"   the sensor is published with the value None                  *)
(*   "skip"   the sensor is not published                                  *)
(*   "raise"  the frame fails: .name of None, or a product with None       *)
(* A row whose key is the field it reads repeats that name.                *)
(***************************************************************************)
EXTENDS Naturals, Sequences

CONSTANT CellKeys   \* cell_voltage_keys; 16 in the code

ASSUME CellAssumption == CellKeys \in Seq(STRING)

Row(key, unit, inputs, unreadable) ==
    [key |-> key, unit |-> unit, inputs |-> inputs, unreadable |-> unreadable]

Gauge(key, unit) == Row(key, unit, {key}, "none")
Optional(key, unit) == Row(key, unit, {key}, "skip")
Label(key) == Row(key, "-", {key}, "raise")

Product == {"voltage", "current"}   \* the operands of a computed power

DcEnergyMeter == <<Gauge("voltage", "V"), Gauge("current", "A")>>

AcCharger ==
    <<Label("operation_mode"), Label("charger_error"),
      Gauge("output_voltage", "V"), Gauge("output_current", "A"),
      Gauge("temperature", "C"), Gauge("current", "A"),
      Row("output_power", "W", {"output_voltage", "output_current"}, "raise")>>

Inverter ==
    <<Label("operation_mode"), Gauge("input_voltage", "V"), Gauge("output_voltage", "V"),
      Gauge("output_current", "A"), Gauge("output_power", "W"),
      Row("alarm_reason", "-", {"alarm_reason"}, "none")>>

OrionXS ==
    <<Label("operation_mode"), Gauge("input_voltage", "V"), Gauge("input_current", "A"),
      Gauge("output_voltage", "V"), Gauge("output_current", "A"),
      Label("off_reason"), Label("charger_error")>>

VEBus ==
    <<Label("operation_mode"), Gauge("battery_voltage", "V"), Gauge("battery_current", "A"),
      Gauge("battery_temperature", "C"), Gauge("battery", "%"), Label("ac_input_state"),
      Gauge("ac_input_power", "W"), Gauge("ac_output_power", "W"),
      Label("alarm_notification")>>

SmartBatteryProtect ==
    <<Label("device_state"), Label("output_state"), Label("charger_error"),
      Label("alarm_reason"), Label("warning_reason"),
      Gauge("input_voltage", "V"), Gauge("output_voltage", "V"), Label("off_reason")>>

\* The auxiliary input of a battery monitor measures one of three things.
AuxModes == {"midpoint_voltage", "starter_voltage", "temperature", "disabled"}

Auxiliary(aux) ==
    CASE aux = "midpoint_voltage" -> <<Gauge("midpoint_voltage", "V")>>
      [] aux = "starter_voltage" -> <<Gauge("starter_battery_voltage", "V")>>
      [] aux = "temperature" -> <<Gauge("temperature", "C")>>
      [] aux = "disabled" -> <<>>

BatteryMonitor(aux) ==
    <<Gauge("voltage", "V"), Gauge("current", "A"), Gauge("battery", "%"),
      Label("alarm_reason"), Gauge("time_remaining", "min"), Gauge("consumed_ah", "Ah"),
      Label("aux_mode")>>
    \o Auxiliary(aux) \o
    <<Row("output_power", "W", Product, "none"),
      Row("consumed_energy", "Wh", {"voltage", "consumed_ah"}, "none"),
      Row("charged_kwh", "kWh", Product, "none"),
      Row("discharged_kwh", "kWh", Product, "none")>>

BatterySense == <<Gauge("temperature", "C"), Gauge("voltage", "V")>>

SolarCharger ==
    <<Gauge("power", "W"), Gauge("voltage", "V"), Gauge("current", "A"),
      Gauge("yield_today", "Wh"), Label("operation_mode"), Label("charger_error"),
      Optional("external_device_load", "A")>>

MultiRS ==
    <<Gauge("voltage", "V"), Gauge("current", "A"), Gauge("ac_input_power", "W"),
      Gauge("ac_output_power", "W"), Gauge("power", "W"), Gauge("yield_today", "kWh"),
      Label("device_state"), Label("charger_error"), Label("ac_input_state")>>

DcDcConverter ==
    <<Label("operation_mode"), Gauge("input_voltage", "V"), Gauge("output_voltage", "V"),
      Label("off_reason"), Label("charger_error")>>

SmartLithium ==
    <<Optional("voltage", "V"), Gauge("temperature", "C")>>
    \o [i \in DOMAIN CellKeys |-> Optional(CellKeys[i], "V")] \o
    <<Optional("balancer_status", "-")>>

LynxSmartBMS ==
    <<Optional("voltage", "V"), Gauge("current", "A"), Gauge("battery", "%"),
      Gauge("remaining_mins", "min"), Gauge("consumed_ah", "-"),
      Row("output_power", "W", Product, "skip")>>

\* The branch taken; only a battery monitor has an auxiliary input.
Kinds ==
    {"DcEnergyMeter", "AcCharger", "Inverter", "OrionXS", "VEBus", "SmartBatteryProtect",
     "BatteryMonitor", "BatterySense", "SolarCharger", "MultiRS", "DcDcConverter",
     "SmartLithium", "LynxSmartBMS"}

Layout(kind, aux) ==
    CASE kind = "DcEnergyMeter" -> DcEnergyMeter
      [] kind = "AcCharger" -> AcCharger
      [] kind = "Inverter" -> Inverter
      [] kind = "OrionXS" -> OrionXS
      [] kind = "VEBus" -> VEBus
      [] kind = "SmartBatteryProtect" -> SmartBatteryProtect
      [] kind = "BatteryMonitor" -> BatteryMonitor(aux)
      [] kind = "BatterySense" -> BatterySense
      [] kind = "SolarCharger" -> SolarCharger
      [] kind = "MultiRS" -> MultiRS
      [] kind = "DcDcConverter" -> DcDcConverter
      [] kind = "SmartLithium" -> SmartLithium
      [] kind = "LynxSmartBMS" -> LynxSmartBMS

--------------------------------------------------------------------------------
(* SENSOR_DESCRIPTIONS, by the unit the (key, unit) pairs share            *)

CellDescriptions == {CellKeys[i] : i \in DOMAIN CellKeys} \X {"V"}

CounterDescriptions == {"charged_kwh", "discharged_kwh"} \X {"kWh"}

LabelDescriptions ==
    {"aux_mode", "operation_mode", "off_reason", "charger_error", "ac_input_state",
     "alarm_reason", "alarm_notification", "warning_reason", "device_state",
     "output_state", "balancer_status"} \X {"-"}

GaugeDescriptions ==
    ({"voltage", "input_voltage", "output_voltage", "starter_battery_voltage",
      "midpoint_voltage", "battery_voltage", "ac_voltage"} \X {"V"})
    \cup ({"current", "input_current", "output_current", "battery_current",
           "ac_current", "external_device_load"} \X {"A"})
    \cup ({"power", "output_power", "ac_input_power", "ac_output_power"} \X {"W"})
    \cup ({"temperature", "battery_temperature"} \X {"C"})
    \cup ({"time_remaining", "remaining_mins"} \X {"min"})
    \cup {<<"battery", "%">>, <<"signal_strength", "dBm">>, <<"ac_apparent_power", "VA">>,
          <<"yield_today", "Wh">>, <<"yield_today", "kWh">>, <<"consumed_energy", "Wh">>,
          <<"consumed_ah", "Ah">>, <<"consumed_ah", "-">>, <<"external_device_load", "-">>}

SENSOR_DESCRIPTIONS ==
    GaugeDescriptions \cup LabelDescriptions \cup CounterDescriptions \cup CellDescriptions

\* Seeded bug: the load current is only described without a unit.
BugDescribed(row) ==
    <<row.key, row.unit>> \in SENSOR_DESCRIPTIONS \ {<<"external_device_load", "A">>}

Described(row) == <<row.key, row.unit>> \in SENSOR_DESCRIPTIONS
================================================================================
