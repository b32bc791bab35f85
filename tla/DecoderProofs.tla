----------------------------- MODULE DecoderProofs -----------------------------
(***************************************************************************)
(* What the decoder publishes, for any number of battery cells and any     *)
(* sequence of advertisements.  The layouts contribute finitely many facts *)
(* about rows (LayoutIsSound, OtherModes, ComputedRows); from them follow  *)
(* the properties of one merged frame, and with the latch and the sample   *)
(* those of all behaviours.                                                *)
(***************************************************************************)
EXTENDS Decoder, SequenceTheorems, TLAPS

--------------------------------------------------------------------------------
(* Rows of the layouts                                                     *)

\* The rows of a concatenation, of two parts and of three.
LEMMA RowsOfConcatenation ==
    ASSUME NEW S, NEW s \in Seq(S), NEW t \in Seq(S)
    PROVE  s \o t \in Seq(S) /\ RowsOf(s \o t) = RowsOf(s) \cup RowsOf(t)
<1>1. RowsOf(s \o t) \subseteq RowsOf(s) \cup RowsOf(t)
    BY ConcatProperties, LenProperties DEF RowsOf
<1>2. RowsOf(s) \subseteq RowsOf(s \o t)
    BY ConcatProperties, LenProperties DEF RowsOf
<1>3. RowsOf(t) \subseteq RowsOf(s \o t)
  <2> SUFFICES ASSUME NEW i \in DOMAIN t PROVE t[i] \in RowsOf(s \o t)
      BY DEF RowsOf
  <2>1. Len(s) + i \in 1..Len(s \o t) /\ (s \o t)[Len(s) + i] = t[i]
      BY ConcatProperties, LenProperties
  <2> QED
      BY <2>1, ConcatProperties, LenProperties DEF RowsOf
<1> QED
    BY <1>1, <1>2, <1>3, ConcatProperties

LEMMA RowsOfThreeParts ==
    ASSUME NEW S, NEW s \in Seq(S), NEW t \in Seq(S), NEW u \in Seq(S)
    PROVE  /\ DOMAIN (s \o t \o u) \subseteq Nat \ {0}
           /\ RowsOf(s \o t \o u) = RowsOf(s) \cup RowsOf(t) \cup RowsOf(u)
<1> DEFINE st == s \o t
<1>1. st \in Seq(S) /\ RowsOf(st) = RowsOf(s) \cup RowsOf(t)
    BY RowsOfConcatenation
<1> HIDE DEF st
<1>2. st \o u \in Seq(S) /\ RowsOf(st \o u) = RowsOf(st) \cup RowsOf(u)
    BY <1>1, RowsOfConcatenation
<1>3. DOMAIN (st \o u) \subseteq Nat \ {0}
    BY <1>2, LenProperties
<1>4. st \o u = s \o t \o u
    BY DEF st
<1> QED
    BY <1>1, <1>2, <1>3, <1>4

\* A battery monitor's rows before and after its auxiliary input.
MonitorHead ==
    {Gauge("voltage", "V"), Gauge("current", "A"), Gauge("battery", "%"),
     Label("alarm_reason"), Gauge("time_remaining", "min"), Gauge("consumed_ah", "Ah"),
     Label("aux_mode")}

MonitorTail ==
    {Row("output_power", "W", Product, "none"),
     Row("consumed_energy", "Wh", {"voltage", "consumed_ah"}, "none"),
     Row("charged_kwh", "kWh", Product, "none"),
     Row("discharged_kwh", "kWh", Product, "none")}

LEMMA MonitorRows ==
    ASSUME NEW a \in AuxModes
    PROVE  /\ DOMAIN BatteryMonitor(a) \subseteq Nat \ {0}
           /\ RowsOf(BatteryMonitor(a)) = MonitorHead \cup RowsOf(Auxiliary(a)) \cup MonitorTail
<1> DEFINE head == <<Gauge("voltage", "V"), Gauge("current", "A"), Gauge("battery", "%"),
                     Label("alarm_reason"), Gauge("time_remaining", "min"),
                     Gauge("consumed_ah", "Ah"), Label("aux_mode")>>
           tail == <<Row("output_power", "W", Product, "none"),
                     Row("consumed_energy", "Wh", {"voltage", "consumed_ah"}, "none"),
                     Row("charged_kwh", "kWh", Product, "none"),
                     Row("discharged_kwh", "kWh", Product, "none")>>
           S == MonitorHead \cup RowsOf(Auxiliary(a)) \cup MonitorTail
<1>1. head \in Seq(S)
    BY DEF MonitorHead
<1>2. tail \in Seq(S)
    BY DEF MonitorTail
<1>3. Auxiliary(a) \in Seq(S)
  <2>1. CASE a = "midpoint_voltage"
      BY <2>1 DEF Auxiliary, RowsOf
  <2>2. CASE a = "starter_voltage"
      BY <2>2 DEF Auxiliary, RowsOf
  <2>3. CASE a = "temperature"
      BY <2>3 DEF Auxiliary, RowsOf
  <2>4. CASE a = "disabled"
      BY <2>4 DEF Auxiliary, RowsOf
  <2> QED
      BY <2>1, <2>2, <2>3, <2>4 DEF AuxModes
<1>4. RowsOf(head) = MonitorHead
    BY DEF MonitorHead, RowsOf
<1>5. RowsOf(tail) = MonitorTail
    BY DEF MonitorTail, RowsOf
<1>6. BatteryMonitor(a) = (head \o Auxiliary(a)) \o tail
    BY DEF BatteryMonitor
<1> HIDE DEF head, tail, S
<1>7. /\ DOMAIN (head \o Auxiliary(a) \o tail) \subseteq Nat \ {0}
      /\ RowsOf(head \o Auxiliary(a) \o tail) = RowsOf(head) \cup RowsOf(Auxiliary(a)) \cup RowsOf(tail)
    BY <1>1, <1>2, <1>3, RowsOfThreeParts
<1> QED
    BY <1>4, <1>5, <1>6, <1>7

LithiumRows ==
    {Optional("voltage", "V"), Gauge("temperature", "C"), Optional("balancer_status", "-")}
        \cup {Optional(CellKeys[i], "V") : i \in DOMAIN CellKeys}

LEMMA LithiumLayout ==
    DOMAIN SmartLithium \subseteq Nat \ {0} /\ RowsOf(SmartLithium) = LithiumRows
<1> DEFINE head == <<Optional("voltage", "V"), Gauge("temperature", "C")>>
           cells == [i \in DOMAIN CellKeys |-> Optional(CellKeys[i], "V")]
           tail == <<Optional("balancer_status", "-")>>
<1>1. head \in Seq(LithiumRows) /\ tail \in Seq(LithiumRows)
    BY DEF LithiumRows
<1>2. cells \in Seq(LithiumRows)
  <2>1. Len(CellKeys) \in Nat /\ DOMAIN CellKeys = 1..Len(CellKeys)
      BY CellAssumption, LenProperties
  <2>2. cells \in [1..Len(CellKeys) -> LithiumRows]
      BY <2>1 DEF LithiumRows
  <2> QED
      BY <2>1, <2>2, SeqDef
<1>3. RowsOf(head) = {Optional("voltage", "V"), Gauge("temperature", "C")}
    BY DEF RowsOf
<1>4. RowsOf(tail) = {Optional("balancer_status", "-")}
    BY DEF RowsOf
<1>5. RowsOf(cells) = {Optional(CellKeys[i], "V") : i \in DOMAIN CellKeys}
    BY DEF RowsOf
<1>6. SmartLithium = (head \o cells) \o tail
    BY DEF SmartLithium
<1> HIDE DEF head, cells, tail
<1>7. /\ DOMAIN (head \o cells \o tail) \subseteq Nat \ {0}
      /\ RowsOf(head \o cells \o tail) = RowsOf(head) \cup RowsOf(cells) \cup RowsOf(tail)
    BY <1>1, <1>2, RowsOfThreeParts
<1> QED
    BY <1>3, <1>4, <1>5, <1>6, <1>7 DEF LithiumRows

LEMMA LayoutIsASequence ==
    ASSUME NEW k \in Kinds, NEW a \in AuxModesOf(k)
    PROVE  DOMAIN Layout(k, a) \subseteq Nat \ {0}
<1>1. CASE k = "DcEnergyMeter"
    BY <1>1 DEF Layout, DcEnergyMeter
<1>2. CASE k = "AcCharger"
    BY <1>2 DEF Layout, AcCharger
<1>3. CASE k = "Inverter"
    BY <1>3 DEF Layout, Inverter
<1>4. CASE k = "OrionXS"
    BY <1>4 DEF Layout, OrionXS
<1>5. CASE k = "VEBus"
    BY <1>5 DEF Layout, VEBus
<1>6. CASE k = "SmartBatteryProtect"
    BY <1>6 DEF Layout, SmartBatteryProtect
<1>7. CASE k = "BatterySense"
    BY <1>7 DEF Layout, BatterySense
<1>8. CASE k = "SolarCharger"
    BY <1>8 DEF Layout, SolarCharger
<1>9. CASE k = "MultiRS"
    BY <1>9 DEF Layout, MultiRS
<1>10. CASE k = "DcDcConverter"
    BY <1>10 DEF Layout, DcDcConverter
<1>11. CASE k = "LynxSmartBMS"
    BY <1>11 DEF Layout, LynxSmartBMS
<1>12. CASE k = "SmartLithium"
    BY <1>12, LithiumLayout DEF LithiumRows, Layout
<1>13. CASE k = "BatteryMonitor"
    BY <1>13, MonitorRows DEF Layout, AuxModesOf
<1> QED
    BY <1>1, <1>2, <1>3, <1>4, <1>5, <1>6, <1>7, <1>8, <1>9, <1>10, <1>11, <1>12, <1>13
    DEF Kinds

\* What every row of every layout satisfies.
Sound(row) == row.unreadable \in {"none", "skip", "raise"} /\ Described(row)

LEMMA LayoutIsSound ==
    ASSUME NEW k \in Kinds, NEW a \in AuxModesOf(k), NEW row \in RowsOf(Layout(k, a))
    PROVE  Sound(row)
<1> USE DEF Sound, Described, SENSOR_DESCRIPTIONS, GaugeDescriptions, LabelDescriptions,
            CounterDescriptions, CellDescriptions, Row, Gauge, Optional, Label
<1>1. CASE k = "DcEnergyMeter"
    BY <1>1 DEF Layout, DcEnergyMeter, RowsOf
<1>2. CASE k = "AcCharger"
    BY <1>2 DEF Layout, AcCharger, RowsOf
<1>3. CASE k = "Inverter"
    BY <1>3 DEF Layout, Inverter, RowsOf
<1>4. CASE k = "OrionXS"
    BY <1>4 DEF Layout, OrionXS, RowsOf
<1>5. CASE k = "VEBus"
    BY <1>5 DEF Layout, VEBus, RowsOf
<1>6. CASE k = "SmartBatteryProtect"
    BY <1>6 DEF Layout, SmartBatteryProtect, RowsOf
<1>7. CASE k = "BatterySense"
    BY <1>7 DEF Layout, BatterySense, RowsOf
<1>8. CASE k = "SolarCharger"
    BY <1>8 DEF Layout, SolarCharger, RowsOf
<1>9. CASE k = "MultiRS"
    BY <1>9 DEF Layout, MultiRS, RowsOf
<1>10. CASE k = "DcDcConverter"
    BY <1>10 DEF Layout, DcDcConverter, RowsOf
<1>11. CASE k = "LynxSmartBMS"
    BY <1>11 DEF Layout, LynxSmartBMS, RowsOf
<1>12. CASE k = "SmartLithium"
    BY <1>12, LithiumLayout DEF LithiumRows, Layout
<1>13. CASE k = "BatteryMonitor"
  <2>1. a \in AuxModes
      BY <1>13 DEF AuxModesOf
  <2>2. row \in MonitorHead \cup RowsOf(Auxiliary(a)) \cup MonitorTail
      BY <1>13, <2>1, MonitorRows DEF Layout
  <2>3. CASE row \in MonitorHead
      BY <2>3 DEF MonitorHead
  <2>4. CASE row \in MonitorTail
      BY <2>4 DEF MonitorTail
  <2>5. CASE row \in RowsOf(Auxiliary(a))
      BY <2>1, <2>5 DEF Auxiliary, AuxModes, RowsOf
  <2> QED
      BY <2>2, <2>3, <2>4, <2>5
<1> QED
    BY <1>1, <1>2, <1>3, <1>4, <1>5, <1>6, <1>7, <1>8, <1>9, <1>10, <1>11, <1>12, <1>13
    DEF Kinds

\* What one mode of the auxiliary input has and another has not is the row of
\* that mode.
LEMMA OtherModes ==
    ASSUME NEW k \in Kinds, NEW a \in AuxModesOf(k), NEW b \in AuxModesOf(k),
           NEW row \in RowsOf(Layout(k, b)), row \notin RowsOf(Layout(k, a))
    PROVE  b \in AuxModes \ {a} /\ row \in RowsOf(Auxiliary(b))
<1>1. a # b
    OBVIOUS
<1>2. k = "BatteryMonitor" /\ a \in AuxModes /\ b \in AuxModes
    BY <1>1 DEF AuxModesOf
<1>3. /\ RowsOf(Layout(k, a)) = MonitorHead \cup RowsOf(Auxiliary(a)) \cup MonitorTail
      /\ RowsOf(Layout(k, b)) = MonitorHead \cup RowsOf(Auxiliary(b)) \cup MonitorTail
    BY <1>2, MonitorRows DEF Layout
<1> QED
    BY <1>1, <1>2, <1>3

\* A row that reads other fields than its own: rows of its key read the same fields,
\* and each operand has rows, which read nothing else.
Computed(row, rows) ==
    /\ row.key # Rssi.key
    /\ \A r \in rows : r.key = row.key => r.inputs = row.inputs
    /\ \A field \in row.inputs :
           /\ field # Rssi.key
           /\ \E r \in rows : r.key = field
           /\ \A r \in rows : r.key = field => r.inputs = {field}

LEMMA ComputedRows ==
    ASSUME NEW k \in Kinds, NEW a \in AuxModesOf(k), NEW b \in AuxModesOf(k),
           NEW row \in RowsOf(Layout(k, b)), row.inputs # {row.key}
    PROVE  Computed(row, RowsOf(Layout(k, a)))
<1> USE DEF Computed, Rssi, Row, Gauge, Optional, Label, Product
<1>1. CASE k \in {"DcEnergyMeter", "Inverter", "OrionXS", "VEBus", "SmartBatteryProtect"}
  <2>1. CASE k = "DcEnergyMeter"
      BY <2>1 DEF Layout, DcEnergyMeter, RowsOf
  <2>2. CASE k = "Inverter"
      BY <2>2 DEF Layout, Inverter, RowsOf
  <2>3. CASE k = "OrionXS"
      BY <2>3 DEF Layout, OrionXS, RowsOf
  <2>4. CASE k = "VEBus"
      BY <2>4 DEF Layout, VEBus, RowsOf
  <2>5. CASE k = "SmartBatteryProtect"
      BY <2>5 DEF Layout, SmartBatteryProtect, RowsOf
  <2> QED
      BY <1>1, <2>1, <2>2, <2>3, <2>4, <2>5
<1>2. CASE k \in {"BatterySense", "SolarCharger", "MultiRS", "DcDcConverter"}
  <2>1. CASE k = "BatterySense"
      BY <2>1 DEF Layout, BatterySense, RowsOf
  <2>2. CASE k = "SolarCharger"
      BY <2>2 DEF Layout, SolarCharger, RowsOf
  <2>3. CASE k = "MultiRS"
      BY <2>3 DEF Layout, MultiRS, RowsOf
  <2>4. CASE k = "DcDcConverter"
      BY <2>4 DEF Layout, DcDcConverter, RowsOf
  <2> QED
      BY <1>2, <2>1, <2>2, <2>3, <2>4
<1>3. CASE k = "AcCharger"
    BY <1>3 DEF Layout, AcCharger, RowsOf
<1>4. CASE k = "LynxSmartBMS"
    BY <1>4 DEF Layout, LynxSmartBMS, RowsOf
<1>5. CASE k = "SmartLithium"
    BY <1>5, LithiumLayout DEF LithiumRows, Layout
<1>6. CASE k = "BatteryMonitor"
  <2>1. a \in AuxModes /\ b \in AuxModes
      BY <1>6 DEF AuxModesOf
  <2>2. /\ RowsOf(Layout(k, a)) = MonitorHead \cup RowsOf(Auxiliary(a)) \cup MonitorTail
        /\ RowsOf(Layout(k, b)) = MonitorHead \cup RowsOf(Auxiliary(b)) \cup MonitorTail
      BY <1>6, <2>1, MonitorRows DEF Layout
  <2>3. \A m \in AuxModes : RowsOf(Auxiliary(m)) \subseteq
            {Gauge("midpoint_voltage", "V"), Gauge("starter_battery_voltage", "V"),
             Gauge("temperature", "C")}
      BY DEF Auxiliary, AuxModes, RowsOf
  <2>4. row \in MonitorTail
      BY <2>1, <2>2, <2>3 DEF MonitorHead
  <2> DEFINE others ==
          {Gauge("midpoint_voltage", "V"), Gauge("starter_battery_voltage", "V"),
           Gauge("temperature", "C")}
  <2>5. ASSUME NEW rows, MonitorHead \cup MonitorTail \subseteq rows,
               rows \subseteq MonitorHead \cup MonitorTail \cup others
        PROVE  Computed(row, rows)
    <3>1. row.key # Rssi.key
        BY <2>4 DEF MonitorTail
    <3>2. \A r \in rows : r.key = row.key => r.inputs = row.inputs
      <4> SUFFICES ASSUME NEW r \in rows, r.key = row.key PROVE r.inputs = row.inputs
          OBVIOUS
      <4>1. row.key \in {"output_power", "consumed_energy", "charged_kwh", "discharged_kwh"}
          BY <2>4 DEF MonitorTail
      <4>2. r \notin MonitorHead \cup others
          BY <4>1 DEF MonitorHead
      <4>3. r \in MonitorTail
          BY <2>5, <4>2
      <4> QED
          BY <2>4, <4>3 DEF MonitorTail
    <3>3. row.inputs \subseteq {"voltage", "current", "consumed_ah"}
        BY <2>4 DEF MonitorTail
    <3>4. \A field \in {"voltage", "current", "consumed_ah"} :
              field # Rssi.key /\ \E r \in rows : r.key = field
        BY <2>5 DEF MonitorHead
    <3>5. \A field \in {"voltage", "current", "consumed_ah"} :
              \A r \in rows : r.key = field => r.inputs = {field}
        BY <2>5 DEF MonitorHead, MonitorTail
    <3> QED
        BY <3>1, <3>2, <3>3, <3>4, <3>5
  <2> QED
      BY <2>1, <2>2, <2>3, <2>5
<1> QED
    BY <1>1, <1>2, <1>3, <1>4, <1>5, <1>6 DEF Kinds

--------------------------------------------------------------------------------
(* One frame                                                               *)

\* What update() may collect for the device.
Collectable ==
    {Entry(row, v) : row \in AllRows(kind) \cup {Rssi}, v \in {"fresh", "none"}}

LEMMA CollectableIsSound ==
    ASSUME kind \in Kinds, NEW e \in Collectable
    PROVE  /\ e.value \in {"fresh", "none"}
           /\ e.row \in AllRows(kind) \cup {Rssi} /\ e = Entry(e.row, e.value)
           /\ Described(e.row)
           /\ e.row.key \in KeysOf(kind)
<1>1. PICK row \in AllRows(kind) \cup {Rssi}, v \in {"fresh", "none"} : e = Entry(row, v)
    BY DEF Collectable
<1>2. e.row = row /\ e.value = v
    BY <1>1 DEF Entry
<1>3. Described(Rssi)
    BY DEF Described, Rssi, Row, SENSOR_DESCRIPTIONS, GaugeDescriptions
<1>4. \A r \in AllRows(kind) : Described(r)
    BY LayoutIsSound DEF AllRows, Sound
<1> QED
    BY <1>1, <1>2, <1>3, <1>4 DEF KeysOf

\* The dictionaries are empty before an advertisement.
LEMMA NothingIsLeft == ASSUME NEW entries PROVE Updates(entries) = entries
BY DEF Updates, Cleared

\* Of a frame's rows up to the first that raises, values and None are collected.
LEMMA CollectIsCollectable ==
    ASSUME kind \in Kinds, NEW a \in AuxModesOf(kind), NEW bad,
           NEW rows \in SUBSET RowsOf(Layout(kind, a)),
           \A row \in rows : ~Raises(row, bad)
    PROVE  Collect(rows, bad) \subseteq Collectable
<1>1. \A row \in rows : row \in AllRows(kind) /\ row.unreadable \in {"none", "skip", "raise"}
    BY LayoutIsSound DEF AllRows, Sound
<1>2. \A row \in rows : ~Skips(row, bad) => Value(row, bad) \in {"fresh", "none"}
    BY <1>1 DEF Skips, Raises, Value
<1> QED
    BY <1>1, <1>2 DEF Collect, Collectable

\* A merged key has the value of an entry, or keeps its older one.
LEMMA MergedValue ==
    ASSUME kind \in Kinds, NEW entries \in SUBSET Collectable, NEW key \in KeysOf(kind)
    PROVE  \/ \E e \in entries : e.row.key = key /\ Merged(entries)[key] = e.value
           \/ /\ \A e \in entries : e.row.key # key
              /\ Merged(entries)[key] =
                     IF entityData[key] = "fresh" THEN "stale" ELSE entityData[key]
<1>1. Known(entries) = entries
    BY CollectableIsSound DEF Known
<1> DEFINE of == {e.value : e \in {e \in entries : e.row.key = key}}
<1>2. Merged(entries)[key] =
          IF of # {} THEN CHOOSE v \in of : TRUE
          ELSE IF entityData[key] = "fresh" THEN "stale" ELSE entityData[key]
    BY <1>1 DEF Merged
<1>3. CASE of # {}
  <2>1. (CHOOSE v \in of : TRUE) \in of
      BY <1>3
  <2> QED
      BY <1>2, <1>3, <2>1
<1>4. CASE of = {}
    BY <1>2, <1>4
<1> QED
    BY <1>3, <1>4

LEMMA MergedType ==
    ASSUME kind \in Kinds, NEW entries \in SUBSET Collectable,
           entityData \in [KeysOf(kind) -> {"absent", "none", "fresh", "stale"}]
    PROVE  Merged(entries) \in [KeysOf(kind) -> {"absent", "none", "fresh", "stale"}]
<1>1. \A key \in KeysOf(kind) : Merged(entries)[key] \in {"absent", "none", "fresh", "stale"}
    BY MergedValue, CollectableIsSound
<1>2. Merged(entries) = [key \in KeysOf(kind) |-> Merged(entries)[key]]
    BY DEF Merged
<1> QED
    BY <1>1, <1>2

--------------------------------------------------------------------------------
(* Initial states and steps                                                *)

CollectedInv == collected \subseteq Collectable

WarnedInv == (warned <=> broken) /\ OneWarningPerFailure

SampleInv == EnergyIntervalsAreObserved /\ (anchor => kind = "BatteryMonitor")

IInv ==
    /\ TypeOK /\ CollectedInv /\ WarnedInv /\ SampleInv
    /\ OnlyConditionalSensorsGoStale /\ ComputedSensorsHaveTheirOperands

LEMMA InitInv == ASSUME Init PROVE IInv
<1>1. "disabled" \in AuxModesOf(kind)
    BY DEF AuxModesOf, AuxModes
<1>2. TypeOK
  <2>1. failures \in 0..MaxFailures /\ warnings \in 0..2
      BY BoundAssumption DEF Init
  <2>2. entityData \in [KeysOf(kind) -> {"absent", "none", "fresh", "stale"}]
      BY DEF Init
  <2>3. anchor \in BOOLEAN /\ warned \in BOOLEAN /\ broken \in BOOLEAN
      BY Zenon DEF Init
  <2>4. kind \in Kinds /\ collected = {} /\ unreadable = {} /\ aux \in AuxModesOf(kind)
      BY <1>1 DEF Init
  <2> QED
      BY <2>1, <2>2, <2>3, <2>4 DEF TypeOK
<1>3. CollectedInv /\ WarnedInv /\ SampleInv
    BY DEF Init, CollectedInv, WarnedInv, OneWarningPerFailure, SampleInv, EnergyIntervalsAreObserved
<1>4. OnlyConditionalSensorsGoStale
    BY DEF Init, OnlyConditionalSensorsGoStale
<1>5. ComputedSensorsHaveTheirOperands
  <2>1. \A row \in AllRows(kind) : row.key \in KeysOf(kind)
      BY DEF KeysOf
  <2> QED
      BY <2>1 DEF Init, ComputedSensorsHaveTheirOperands
<1> QED
    BY <1>2, <1>3, <1>4, <1>5 DEF IInv

\* What a decoded frame does to dictionaries and processor.
LEMMA FrameStep ==
    ASSUME IInv, NEW a \in AuxModesOf(kind), NEW bad \in Unreadable(a), ReceiveFrame(a, bad)
    PROVE  /\ collected' = Collect(RowsOf(Layout(kind, a)), bad)
           /\ collected' \in SUBSET Collectable
           /\ entityData' = Merged(collected')
           /\ \A row \in RowsOf(Layout(kind, a)) : ~Raises(row, bad)
           /\ kind' = kind /\ aux' = a /\ unreadable' = bad /\ failures' = 0
<1>1. /\ \A row \in RowsOf(Layout(kind, a)) : ~Raises(row, bad)
      /\ collected' = Collect(RowsOf(Layout(kind, a)), bad)
      /\ entityData' = Merged(collected')
      /\ kind' = kind /\ aux' = a /\ unreadable' = bad /\ failures' = 0
    BY NothingIsLeft DEF ReceiveFrame, Decodes
<1>2. Collect(RowsOf(Layout(kind, a)), bad) \subseteq Collectable
    BY <1>1, CollectIsCollectable DEF IInv, TypeOK
<1> QED
    BY <1>1, <1>2

\* A decoded row whose fields are readable shows a fresh value if all rows of its
\* key are readable; a fresh value is one of such a row.
LEMMA FreshKeys ==
    ASSUME IInv, NEW a \in AuxModesOf(kind), NEW bad \in Unreadable(a), ReceiveFrame(a, bad),
           NEW key \in KeysOf(kind), key # Rssi.key
    PROVE  /\ /\ \E row \in RowsOf(Layout(kind, a)) : row.key = key
              /\ \A row \in RowsOf(Layout(kind, a)) : row.key = key => ~Lacks(row, bad)
              => entityData'[key] = "fresh"
           /\ entityData'[key] = "fresh" =>
                  \E row \in RowsOf(Layout(kind, a)) : row.key = key /\ ~Lacks(row, bad)
<1> DEFINE rows == RowsOf(Layout(kind, a))
<1>1. /\ kind \in Kinds
      /\ collected' \in SUBSET Collectable /\ entityData' = Merged(collected')
      /\ collected' = Collect(rows, bad)
    BY FrameStep DEF IInv, TypeOK
<1>2. \A row \in rows : row.unreadable # "fresh"
    BY <1>1, LayoutIsSound DEF Sound
<1>3. \A e \in collected' : e.row.key = key =>
          e.row \in rows /\ e.value = Value(e.row, bad)
  <2>1. \A row, v : Entry(row, v).row = row /\ Entry(row, v).value = v
      BY DEF Entry
  <2> QED
      BY <1>1, <2>1 DEF Collect
<1>4. \A row \in rows : ~Lacks(row, bad) => \E e \in collected' : e.row = row
  <2>1. \A row, v : Entry(row, v).row = row
      BY DEF Entry
  <2>2. \A row \in rows : ~Lacks(row, bad) => Entry(row, Value(row, bad)) \in collected'
      BY <1>1 DEF Collect, Skips
  <2> QED
      BY <2>1, <2>2
<1> HIDE DEF rows
<1>5. \/ \E e \in collected' : e.row.key = key /\ entityData'[key] = e.value
      \/ /\ \A e \in collected' : e.row.key # key
         /\ entityData'[key] # "fresh"
    BY <1>1, MergedValue
<1>6. ASSUME NEW row \in rows, row.key = key,
             \A r \in rows : r.key = key => ~Lacks(r, bad)
      PROVE  entityData'[key] = "fresh"
    BY <1>3, <1>4, <1>5, <1>6 DEF Value
<1>7. ASSUME entityData'[key] = "fresh"
      PROVE  \E row \in rows : row.key = key /\ ~Lacks(row, bad)
    BY <1>2, <1>3, <1>5, <1>7 DEF Value
<1> QED
    BY <1>6, <1>7 DEF rows

LEMMA FrameKeepsTypes ==
    ASSUME IInv, NEW a \in AuxModesOf(kind), NEW bad \in Unreadable(a), ReceiveFrame(a, bad)
    PROVE  TypeOK' /\ CollectedInv' /\ WarnedInv'
<1>1. /\ kind' = kind /\ aux' = a /\ unreadable' = bad /\ failures' = 0
      /\ collected' \in SUBSET Collectable /\ entityData' = Merged(collected')
    BY FrameStep
<1>2. entityData' \in [KeysOf(kind) -> {"absent", "none", "fresh", "stale"}]
    BY <1>1, MergedType DEF IInv, TypeOK
<1>3. collected' \subseteq
          {Entry(row, v) : row \in AllRows(kind) \cup {Rssi}, v \in {"fresh", "none", "stale"}}
    BY <1>1 DEF Collectable
<1>4. 0 \in 0..MaxFailures /\ 0 \in 0..2
    BY BoundAssumption
<1>5. warned' = FALSE /\ broken' = FALSE /\ warnings' = 0
    BY DEF ReceiveFrame
<1>6. warned' \in BOOLEAN /\ broken' \in BOOLEAN
    BY <1>5, Zenon
<1>7. anchor' \in BOOLEAN
  <2>1. anchor' = IF kind = "BatteryMonitor" THEN bad \cap Product = {} ELSE anchor
      BY DEF ReceiveFrame
  <2>2. anchor \in BOOLEAN
      BY DEF IInv, TypeOK
  <2> QED
      BY <2>1, <2>2, Zenon
<1>8. bad \subseteq Fields(kind, a)
    BY DEF Unreadable
<1>9. TypeOK'
    BY <1>1, <1>2, <1>3, <1>4, <1>5, <1>6, <1>7, <1>8 DEF IInv, TypeOK
<1>10. CollectedInv'
    BY <1>1 DEF CollectedInv, Collectable
<1>11. WarnedInv'
    BY <1>5 DEF WarnedInv, OneWarningPerFailure
<1> QED
    BY <1>9, <1>10, <1>11

\* A key a decoded frame does not touch belongs to a skipped row or to another
\* mode of the auxiliary input.
LEMMA FrameLeavesConditionalSensors ==
    ASSUME IInv, NEW a \in AuxModesOf(kind), NEW bad \in Unreadable(a), ReceiveFrame(a, bad)
    PROVE  OnlyConditionalSensorsGoStale'
<1> DEFINE rows == RowsOf(Layout(kind, a))
<1>1. /\ kind \in Kinds /\ kind' = kind /\ aux' = a
      /\ collected' \in SUBSET Collectable /\ entityData' = Merged(collected')
      /\ collected' = Collect(rows, bad)
    BY FrameStep DEF IInv, TypeOK
<1> SUFFICES ASSUME NEW key \in KeysOf(kind), entityData'[key] = "stale"
             PROVE  \/ \E row \in AllRows(kind) : row.key = key /\ row.unreadable = "skip"
                    \/ \E m \in AuxModes \ {a} : \E row \in RowsOf(Auxiliary(m)) : row.key = key
    BY <1>1 DEF OnlyConditionalSensorsGoStale, ConditionalSensors
<1>2. \A e \in collected' : e.row.key # key
  <2>1. \A e \in collected' : e.value # "stale"
      BY <1>1, CollectableIsSound
  <2> QED
      BY <1>1, <2>1, MergedValue
<1>3. \A row, v : Entry(row, v).row = row
    BY DEF Entry
<1>4. key # Rssi.key
    BY <1>1, <1>2, <1>3 DEF Collect
<1>5. PICK b \in AuxModesOf(kind) : \E r \in RowsOf(Layout(kind, b)) : r.key = key
    BY <1>4 DEF KeysOf, AllRows
<1>6. PICK row \in RowsOf(Layout(kind, b)) : row.key = key
    BY <1>5
<1>7. CASE row \in rows
  <2>1. Skips(row, bad)
      BY <1>1, <1>2, <1>3, <1>6, <1>7 DEF Collect
  <2>2. row \in AllRows(kind)
      BY <1>6 DEF AllRows
  <2> QED
      BY <1>6, <2>1, <2>2 DEF Skips
<1>8. CASE row \notin rows
    BY <1>1, <1>6, <1>8, OtherModes
<1> QED
    BY <1>7, <1>8

\* The operands of a computed sensor are published with it.
LEMMA FrameKeepsOperands ==
    ASSUME IInv, NEW a \in AuxModesOf(kind), NEW bad \in Unreadable(a), ReceiveFrame(a, bad)
    PROVE  ComputedSensorsHaveTheirOperands'
<1> DEFINE rows == RowsOf(Layout(kind, a))
<1>1. kind \in Kinds /\ kind' = kind
    BY FrameStep DEF IInv, TypeOK
<1> SUFFICES ASSUME NEW row \in AllRows(kind), entityData'[row.key] = "fresh",
                    NEW field \in row.inputs, field \in KeysOf(kind)
             PROVE  entityData'[field] = "fresh"
    BY <1>1 DEF ComputedSensorsHaveTheirOperands
<1>2. CASE row.inputs = {row.key}
    BY <1>2
<1>3. CASE row.inputs # {row.key}
  <2>1. PICK b \in AuxModesOf(kind) : row \in RowsOf(Layout(kind, b))
      BY DEF AllRows
  <2>2. Computed(row, rows)
      BY <1>1, <1>3, <2>1, ComputedRows
  <2>3. row.key \in KeysOf(kind)
      BY DEF KeysOf
  <2>4. PICK r \in rows : r.key = row.key /\ ~Lacks(r, bad)
      BY <2>2, <2>3, FreshKeys DEF Computed
  <2>5. row.inputs \cap bad = {}
      BY <2>2, <2>4 DEF Computed, Lacks
  <2>6. \A f \in rows : f.key = field => ~Lacks(f, bad)
      BY <2>2, <2>5 DEF Computed, Lacks
  <2> QED
      BY <2>2, <2>6, FreshKeys DEF Computed
<1> QED
    BY <1>2, <1>3

\* A sample is taken from a frame that shows the power and both counters.
LEMMA FrameSamples ==
    ASSUME IInv, NEW a \in AuxModesOf(kind), NEW bad \in Unreadable(a), ReceiveFrame(a, bad)
    PROVE  SampleInv'
<1> DEFINE rows == RowsOf(Layout(kind, a))
           counters == {"output_power", "charged_kwh", "discharged_kwh"}
<1>1. kind \in Kinds /\ kind' = kind /\ failures' = 0
    BY FrameStep DEF IInv, TypeOK
<1>2. anchor' = IF kind = "BatteryMonitor" THEN bad \cap Product = {} ELSE anchor
    BY DEF ReceiveFrame
<1>3. CASE kind # "BatteryMonitor"
    BY <1>1, <1>2, <1>3 DEF IInv, SampleInv, EnergyIntervalsAreObserved
<1>4. CASE kind = "BatteryMonitor"
  <2>1. a \in AuxModes
      BY <1>4 DEF AuxModesOf
  <2>2. MonitorTail \subseteq rows
      BY <1>4, <2>1, MonitorRows DEF Layout
  <2>3. \A key \in counters : \E row \in MonitorTail : row.key = key /\ row.inputs = Product
      BY DEF MonitorTail, Row
  <2>4. ASSUME NEW key \in counters, bad \cap Product = {}
        PROVE  entityData'[key] = "fresh"
    <3>1. PICK row \in rows : row.key = key /\ row.inputs = Product
        BY <2>2, <2>3
    <3>2. Product # {key}
        BY DEF Product
    <3>3. Computed(row, rows)
        BY <1>1, <3>1, <3>2, ComputedRows
    <3>4. key \in KeysOf(kind) /\ key # Rssi.key
        BY <3>1, <3>3 DEF KeysOf, AllRows, Computed
    <3>5. \A r \in rows : r.key = key => ~Lacks(r, bad)
        BY <2>4, <3>1, <3>3 DEF Computed, Lacks
    <3> QED
        BY <3>1, <3>4, <3>5, FreshKeys
  <2> QED
      BY <1>1, <1>2, <1>4, <2>4 DEF SampleInv, EnergyIntervalsAreObserved
<1> QED
    BY <1>3, <1>4

\* An advertisement without a valid frame changes nothing that is shown.
LEMMA FailKeepsInv ==
    ASSUME IInv, NEW entries \in SUBSET Collectable, Fail(entries),
           Warn \/ UNCHANGED <<warned, broken, warnings>>
    PROVE  IInv'
<1>1. /\ collected' = entries /\ anchor' = FALSE
      /\ failures' = IF failures < MaxFailures THEN failures + 1 ELSE failures
      /\ UNCHANGED <<kind, entityData, unreadable, aux>>
    BY NothingIsLeft DEF Fail
<1>2. WarnedInv'
    BY DEF IInv, TypeOK, WarnedInv, OneWarningPerFailure, Warn
<1>3. TypeOK'
  <2>1. failures' \in 0..MaxFailures
      BY <1>1, BoundAssumption DEF IInv, TypeOK
  <2>2. anchor' \in BOOLEAN
      BY <1>1, Zenon
  <2>3. warned' \in BOOLEAN /\ broken' \in BOOLEAN
    <3>1. warned \in BOOLEAN /\ broken \in BOOLEAN
        BY DEF IInv, TypeOK
    <3> QED
        BY <3>1, Zenon DEF Warn
  <2>4. warnings' \in 0..2
      BY <1>2 DEF WarnedInv, OneWarningPerFailure
  <2>5. entries \subseteq
            {Entry(row, v) : row \in AllRows(kind) \cup {Rssi}, v \in {"fresh", "none", "stale"}}
      BY DEF Collectable
  <2> QED
      BY <1>1, <2>1, <2>2, <2>3, <2>4, <2>5 DEF IInv, TypeOK
<1>4. CollectedInv'
    BY <1>1 DEF CollectedInv, Collectable
<1>5. SampleInv'
    BY <1>1 DEF SampleInv, EnergyIntervalsAreObserved
<1>6. OnlyConditionalSensorsGoStale'
    BY <1>1 DEF IInv, OnlyConditionalSensorsGoStale, ConditionalSensors
<1>7. ComputedSensorsHaveTheirOperands'
    BY <1>1 DEF IInv, ComputedSensorsHaveTheirOperands
<1> QED
    BY <1>2, <1>3, <1>4, <1>5, <1>6, <1>7 DEF IInv

LEMMA NextKeepsInv == ASSUME IInv, Next PROVE IInv'
<1>1. ASSUME NEW a \in AuxModesOf(kind), NEW bad \in Unreadable(a), ReceiveFrame(a, bad)
      PROVE  IInv'
    BY <1>1, FrameKeepsTypes, FrameLeavesConditionalSensors, FrameKeepsOperands, FrameSamples
    DEF IInv
<1>2. ASSUME NEW a \in AuxModesOf(kind), NEW bad \in Unreadable(a), ReceiveBrokenFrame(a, bad)
      PROVE  IInv'
  <2> DEFINE entries == Collect(Reached(Layout(kind, a), bad), bad)
  <2>1. /\ Reached(Layout(kind, a), bad) \in SUBSET RowsOf(Layout(kind, a))
        /\ \A row \in Reached(Layout(kind, a), bad) : ~Raises(row, bad)
    <3>1. kind \in Kinds
        BY DEF IInv, TypeOK
    <3>2. \A i \in DOMAIN Layout(kind, a) : i \in 1..i
        BY <3>1, LayoutIsASequence
    <3> QED
        BY <3>2 DEF Reached, RowsOf
  <2>2. entries \in SUBSET Collectable
      BY <2>1, CollectIsCollectable DEF IInv, TypeOK
  <2>3. Fail(entries) /\ Warn
      BY <1>2 DEF ReceiveBrokenFrame
  <2> HIDE DEF entries
  <2> QED
      BY <2>2, <2>3, FailKeepsInv
<1>3. {Entry(Rssi, "fresh")} \in SUBSET Collectable
    BY DEF Collectable
<1>4. CASE ReceiveUnparsable
    BY <1>3, <1>4, FailKeepsInv DEF ReceiveUnparsable
<1>5. CASE ReceiveUnrelated
    BY <1>3, <1>5, FailKeepsInv DEF ReceiveUnrelated
<1> QED
    BY <1>1, <1>2, <1>4, <1>5 DEF Next

LEMMA StutterKeepsInv == ASSUME IInv, UNCHANGED vars PROVE IInv'
<1>1. /\ UNCHANGED <<kind, collected, failures, anchor, warned, entityData>>
      /\ UNCHANGED <<unreadable, aux, broken, warnings>>
    BY DEF vars, history
<1>2. TypeOK' /\ CollectedInv' /\ WarnedInv' /\ SampleInv'
    BY <1>1 DEF IInv, TypeOK, CollectedInv, Collectable, WarnedInv, OneWarningPerFailure,
        SampleInv, EnergyIntervalsAreObserved
<1>3. OnlyConditionalSensorsGoStale' /\ ComputedSensorsHaveTheirOperands'
    BY <1>1 DEF IInv, OnlyConditionalSensorsGoStale, ConditionalSensors,
        ComputedSensorsHaveTheirOperands
<1> QED
    BY <1>2, <1>3 DEF IInv

--------------------------------------------------------------------------------
(* Theorems                                                                *)

\* The inductive invariant: what is collected, warned about, sampled and merged
\* stays within what the layouts allow.
THEOREM Invariance == Spec => []IInv
<1>1. Init => IInv
    BY InitInv
<1>2. IInv /\ [Next]_vars => IInv'
    BY NextKeepsInv, StutterKeepsInv
<1> QED
    BY <1>1, <1>2, PTL DEF Spec

\* Decoded and merged values keep their types: update() never collects the
\* placeholder of a sensor that had to be skipped, for any number of cells.
THEOREM TypeCorrect == Spec => []TypeOK
<1>1. IInv => TypeOK
    BY DEF IInv
<1> QED
    BY <1>1, Invariance, PTL

\* update() hands out no value of an earlier advertisement (device.py:110).
THEOREM UpdatesAreFresh == Spec => []NothingStaleIsPublished
<1>1. IInv => NothingStaleIsPublished
    BY CollectableIsSound DEF IInv, TypeOK, CollectedInv, NothingStaleIsPublished
<1> QED
    BY <1>1, Invariance, PTL

\* sensor.py describes every pair the decoder produces, for any number of cells.
THEOREM NoSensorIsDropped == Spec => []EverySensorIsDescribed
<1>1. IInv => EverySensorIsDescribed
    BY CollectableIsSound DEF IInv, TypeOK, CollectedInv, EverySensorIsDescribed, Known
<1> QED
    BY <1>1, Invariance, PTL

\* Only a skipped field or another auxiliary mode leaves a sensor behind the
\* last decoded frame.
THEOREM OthersFollowTheFrame == Spec => []OnlyConditionalSensorsGoStale
<1>1. IInv => OnlyConditionalSensorsGoStale
    BY DEF IInv
<1> QED
    BY <1>1, Invariance, PTL

\* A computed sensor has a fresh value only together with its operands.
THEOREM ComputedSensorsAreCovered == Spec => []ComputedSensorsHaveTheirOperands
<1>1. IInv => ComputedSensorsHaveTheirOperands
    BY DEF IInv
<1> QED
    BY <1>1, Invariance, PTL

\* The accumulator integrates only from a frame that shows power and counters, and
\* only if the next one decodes too (device.py:115).
THEOREM SamplesAreObserved == Spec => []EnergyIntervalsAreObserved
<1>1. IInv => EnergyIntervalsAreObserved
    BY DEF IInv, SampleInv
<1> QED
    BY <1>1, Invariance, PTL

\* From one decoded frame to the next, failures are reported exactly once.
THEOREM FailuresAreReportedOnce == Spec => []OneWarningPerFailure
<1>1. IInv => OneWarningPerFailure
    BY DEF IInv, WarnedInv
<1> QED
    BY <1>1, Invariance, PTL

\* A failing advertisement, broken off or not parsed at all, leaves what the
\* processor shows as it was.
THEOREM FramesAreShownWhole == Spec => OnlyCompleteFramesAreShown
<1>1. [Next]_vars => [failures' # 0 => entityData' = entityData]_vars
    BY DEF Next, ReceiveFrame, ReceiveBrokenFrame, ReceiveUnparsable, ReceiveUnrelated, Fail
<1> QED
    BY <1>1, PTL DEF Spec, OnlyCompleteFramesAreShown
================================================================================
