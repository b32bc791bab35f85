--------------------------- MODULE GaugeEntityProofs ---------------------------
(***************************************************************************)
(* What the deadband holds back and what it lets through, for every row of *)
(* the table and all values.  The argument needs that whoever may compare  *)
(* with a remembered value shows it (BandInv) and, of rounding, only that  *)
(* it moves a number by at most half a step; how halves are decided does   *)
(* not matter.                                                             *)
(***************************************************************************)
EXTENDS GaugeEntity, TLAPS

--------------------------------------------------------------------------------
(* The table and rounding                                                  *)

\* Every row has one of three steps.
LEMMA Steps == ASSUME NEW row PROVE Step(row) \in {1, 100, 1000}
<1>1. Precision(row) \in {0, 1, 3}
  <2>1. \A k \in DOMAIN _PRECISION_BY_KEY : _PRECISION_BY_KEY[k] \in {0, 3}
      BY DEF _PRECISION_BY_KEY
  <2>2. \A p \in DOMAIN _PRECISION_BY_DEVICE_CLASS_UNIT :
            _PRECISION_BY_DEVICE_CLASS_UNIT[p] \in {0, 3}
      BY DEF _PRECISION_BY_DEVICE_CLASS_UNIT
  <2>3. \A c \in DOMAIN _PRECISION_BY_DEVICE_CLASS : _PRECISION_BY_DEVICE_CLASS[c] \in {0, 1}
      BY DEF _PRECISION_BY_DEVICE_CLASS
  <2> QED
      BY <2>1, <2>2, <2>3 DEF Precision
<1> QED
    BY <1>1 DEF Step

\* Every row has a band that is a natural number, and a row that is no
\* measurement has none.
LEMMA Deadbands ==
    ASSUME NEW row
    PROVE  /\ Deadband(row) \in Nat
           /\ StateClass(row) # "MEASUREMENT" => Deadband(row) = 0
<1>1. \A c \in DOMAIN _DEADBAND_BY_DEVICE_CLASS : _DEADBAND_BY_DEVICE_CLASS[c] \in Nat
    BY DEF _DEADBAND_BY_DEVICE_CLASS
<1> QED
    BY <1>1 DEF Deadband

\* Rounding to any step moves a number by at most half a step.
LEMMA RoundIsNear ==
    ASSUME NEW v \in Int, NEW s \in Nat \ {0}
    PROVE  /\ Round(v, s) \in Int
           /\ 2 * Distance(Round(v, s), v) <= s
<1> DEFINE q == v \div s
           r == v % s
<1>1. q \in Int /\ r \in 0..(s - 1) /\ v = s * q + r
    OBVIOUS
<1>2. q * s \in Int /\ (q + 1) * s = q * s + s /\ s * q = q * s
    BY <1>1
<1>3. Round(v, s) = IF 2 * r > s \/ (2 * r = s /\ q % 2 = 1) THEN q * s + s ELSE q * s
    BY <1>2 DEF Round
<1> HIDE DEF q, r
<1> DEFINE p == q * s
<1>4. p \in Int /\ v = p + r
    BY <1>1, <1>2
<1>5. Round(v, s) = IF 2 * r > s \/ (2 * r = s /\ q % 2 = 1) THEN p + s ELSE p
    BY <1>3
<1> HIDE DEF p
<1>6. CASE Round(v, s) = p + s /\ 2 * r >= s
    BY <1>1, <1>4, <1>6 DEF Distance
<1>7. CASE Round(v, s) = p /\ 2 * r <= s
    BY <1>1, <1>4, <1>7 DEF Distance
<1> QED
    BY <1>1, <1>5, <1>6, <1>7

\* The step of a row can be rounded to, its band compared with.
LEMMA RowIsUsable == TypeOK => step \in Nat \ {0} /\ band \in Nat
BY Steps, Deadbands DEF TypeOK

--------------------------------------------------------------------------------
(* The inductive invariant                                                 *)

\* Whoever has a remembered value to compare with, and is not about to be
\* flushed, shows that value and is within the band of it; whoever has none
\* shows its data, or nothing.
BandInv ==
    /\ available => lastAvailable
    /\ written = NoEntity => published = None
    /\ written # NoEntity /\ ~lastAvailable => written = Unavailable
    /\ written # NoEntity /\ lastAvailable /\ published # None =>
          /\ data \in Int
          /\ written = published
          /\ written = NativeValue(data) \/ InBand(data)
    /\ written # NoEntity /\ published = None =>
          written = StateOf(data, TRUE) \/ (written = Unavailable /\ ~available)

\* What is written and remembered for a value of the row.
LEMMA ValueTypes ==
    ASSUME TypeOK, NEW value \in Readings(description), NEW isAvailable
    PROVE  /\ value \in Value
           /\ NativeValue(value) \in Int \cup Value
           /\ StateOf(value, isAvailable) \in Int \cup Value \cup {Unavailable}
           /\ StateOf(value, isAvailable) # NoEntity
           /\ Numeric(value) \in Int \cup {None}
           /\ Numeric(value) # None <=> value \in Int
           /\ value \in Int => NativeValue(value) \in Int /\ StateOf(value, TRUE) = Numeric(value)
           /\ ~isAvailable => StateOf(value, isAvailable) = Unavailable
           /\ isAvailable => StateOf(value, isAvailable) = StateOf(value, TRUE)
           /\ IsLabel(description) => Numeric(value) = None
<1>1. value \in Int => Round(value, step) \in Int
    BY RowIsUsable, RoundIsNear
<1>2. value \in Value /\ (IsLabel(description) => value \notin Int)
    BY ValueAssumption DEF Readings
<1> QED
    BY <1>1, <1>2, ValueAssumption DEF NativeValue, StateOf, Numeric

\* The initial state is well typed, and nothing is remembered.
LEMMA InitBand == Init => TypeOK /\ BandInv
<1> SUFFICES ASSUME Init PROVE TypeOK /\ BandInv
    OBVIOUS
<1>1. None \in Readings(description)
    BY ValueAssumption DEF Readings
<1> QED
    BY <1>1 DEF Init, EntityInit, TypeOK, BandInv

\* What one call of the entity's handler does to states and memory.
LEMMA HandleStep ==
    ASSUME TypeOK, NEW value \in Readings(description), NEW isAvailable \in BOOLEAN,
           NEW flush \in BOOLEAN, Handle(value, isAvailable, flush)
    PROVE  /\ published' \in Int \cup {None}
           /\ written' \in Int \cup Value \cup {Unavailable, NoEntity}
           /\ IsLabel(description) => published' = None
           /\ written' = NoEntity <=> written = NoEntity
           /\ written = NoEntity => published' = published
           /\ written # NoEntity /\ flush =>
                  published' = None /\ written' = StateOf(value, isAvailable)
           /\ written # NoEntity /\ ~flush /\ ~InBand(value) =>
                  published' = Numeric(value) /\ written' = StateOf(value, isAvailable)
           /\ ~flush /\ InBand(value) => UNCHANGED stateVars
<1>1. CASE written # NoEntity /\ (flush \/ ~InBand(value))
  <2>1. /\ published' = IF flush THEN None ELSE Numeric(value)
        /\ written' = StateOf(value, isAvailable)
      BY <1>1 DEF Handle
  <2>2. /\ Numeric(value) \in Int \cup {None}
        /\ IsLabel(description) => Numeric(value) = None
        /\ StateOf(value, isAvailable) \in Int \cup Value \cup {Unavailable}
        /\ StateOf(value, isAvailable) # NoEntity
      BY ValueTypes
  <2> QED
      BY <1>1, <2>1, <2>2
<1>2. CASE ~(written # NoEntity /\ (flush \/ ~InBand(value)))
    BY <1>2 DEF Handle, TypeOK, stateVars
<1> QED
    BY <1>1, <1>2

\* A flush leaves nothing remembered, and shows what is at hand.
LEMMA FlushKeepsBand ==
    ASSUME TypeOK, BandInv, NEW isAvailable \in BOOLEAN, Handle(data, isAvailable, TRUE),
           UNCHANGED <<step, data>>, available' = isAvailable, isAvailable => lastAvailable'
    PROVE  BandInv'
<1>1. data \in Readings(description)
    BY DEF TypeOK
<1>2. CASE written = NoEntity
    BY <1>1, <1>2, HandleStep DEF BandInv
<1>3. CASE written # NoEntity
  <2>1. published' = None /\ written' = StateOf(data, isAvailable) /\ written' # NoEntity
      BY <1>1, <1>3, HandleStep
  <2>2. StateOf(data, TRUE)' = StateOf(data, TRUE)
      BY DEF StateOf, NativeValue
  <2> QED
      BY <1>1, <2>1, <2>2, ValueTypes DEF BandInv
<1> QED
    BY <1>2, <1>3

\* Data that arrives is shown and remembered, or is within the band of what is.
LEMMA ReceiveKeepsBand ==
    ASSUME TypeOK, BandInv, NEW value \in Readings(description), Receive(value)
    PROVE  BandInv'
<1>1. /\ data' = value /\ available' = TRUE /\ lastAvailable' = TRUE
      /\ Handle(value, TRUE, ~lastAvailable)
      /\ UNCHANGED <<step, band>>
    BY DEF Receive
<1>2. /\ NativeValue(data)' = NativeValue(value)
      /\ StateOf(data, TRUE)' = StateOf(value, TRUE)
      /\ Numeric(data)' = Numeric(value)
    BY <1>1 DEF StateOf, NativeValue, Numeric
<1>3. CASE written = NoEntity
    BY <1>1, <1>3, HandleStep DEF BandInv, TypeOK
<1>4. CASE written # NoEntity /\ ~lastAvailable
  <2>1. published' = None /\ written' = StateOf(value, TRUE)
      BY <1>1, <1>4, HandleStep
  <2> QED
      BY <1>1, <1>2, <2>1, ValueTypes DEF BandInv
<1>5. CASE written # NoEntity /\ lastAvailable /\ ~InBand(value)
  <2>1. published' = Numeric(value) /\ written' = StateOf(value, TRUE)
      BY <1>1, <1>5, HandleStep
  <2>2. CASE value \in Int
      BY <1>1, <1>2, <2>1, <2>2, ValueTypes DEF BandInv, Numeric
  <2>3. CASE value \notin Int
      BY <1>1, <1>2, <2>1, <2>3, ValueTypes DEF BandInv
  <2> QED
      BY <2>2, <2>3
<1>6. CASE written # NoEntity /\ lastAvailable /\ InBand(value)
  <2>1. UNCHANGED <<published, written>> /\ published # None
      BY <1>1, <1>6, HandleStep DEF InBand, stateVars
  <2>2. InBand(data)' /\ value \in Int
      BY <1>1, <1>2, <1>6, <2>1, ValueTypes DEF InBand
  <2> QED
      BY <1>1, <1>6, <2>1, <2>2 DEF BandInv
<1> QED
    BY <1>3, <1>4, <1>5, <1>6 DEF TypeOK

\* An advertisement that does not decode finds an entity about to be flushed.
LEMMA ReceiveNothingKeepsBand ==
    ASSUME TypeOK, BandInv, ReceiveNothing PROVE BandInv'
<1>1. /\ ~available /\ lastAvailable' = FALSE
      /\ Handle(data, FALSE, lastAvailable)
      /\ UNCHANGED <<step, band, available, data>>
    BY DEF ReceiveNothing
<1>2. data \in Readings(description) /\ lastAvailable \in BOOLEAN
    BY DEF TypeOK
<1>3. CASE lastAvailable
  <2>1. Handle(data, FALSE, TRUE)
      BY <1>1, <1>2, <1>3
  <2>2. available' = FALSE
      BY <1>1, Zenon DEF TypeOK
  <2>3. FALSE \in BOOLEAN /\ UNCHANGED <<step, data>>
      BY <1>1
  <2> QED
      BY <2>1, <2>2, <2>3, FlushKeepsBand, Zenon
<1>4. CASE ~lastAvailable
  <2>1. \/ UNCHANGED <<published, written>>
        \/ written # NoEntity /\ published' = Numeric(data) /\ written' = StateOf(data, FALSE)
      BY <1>1, <1>4 DEF Handle, stateVars
  <2>2. StateOf(data, TRUE)' = StateOf(data, TRUE)
      BY <1>1 DEF StateOf, NativeValue
  <2> QED
      BY <1>1, <1>2, <1>4, <2>1, <2>2, ValueTypes DEF BandInv
<1> QED
    BY <1>2, <1>3, <1>4

\* Every step keeps types.
LEMMA NextType == TypeOK /\ BandInv /\ [Next]_vars => TypeOK'
<1> SUFFICES ASSUME TypeOK, BandInv, [Next]_vars PROVE TypeOK'
    OBVIOUS
<1>1. UNCHANGED <<description, step, band>>
    BY DEF Next, vars, entityVars, Receive, ReceiveNothing, BleUnavailable, Expire,
           CheckFreshness, Add
<1>2. /\ data \in Readings(description) /\ available \in BOOLEAN /\ lastAvailable \in BOOLEAN
      /\ TRUE \in BOOLEAN /\ FALSE \in BOOLEAN
    BY DEF TypeOK
<1>3. ASSUME NEW value \in Readings(description), NEW isAvailable \in BOOLEAN,
             NEW flush \in BOOLEAN, Handle(value, isAvailable, flush),
             data' \in Readings(description), available' \in BOOLEAN, lastAvailable' \in BOOLEAN
      PROVE  TypeOK'
    BY <1>1, <1>3, HandleStep DEF TypeOK
<1>4. ASSUME NEW value \in Readings(description), Receive(value) PROVE TypeOK'
  <2>1. (~lastAvailable) \in BOOLEAN
      OBVIOUS
  <2>2. available' \in BOOLEAN /\ lastAvailable' \in BOOLEAN
      BY <1>4, Zenon DEF Receive
  <2> QED
      BY <1>2, <1>3, <1>4, <2>1, <2>2 DEF Receive
<1>5. CASE ReceiveNothing
  <2>1. available' \in BOOLEAN /\ lastAvailable' \in BOOLEAN
      BY <1>2, <1>5, Zenon DEF ReceiveNothing
  <2> QED
      BY <1>2, <1>3, <1>5, <2>1 DEF ReceiveNothing
<1>6. CASE BleUnavailable
  <2>1. available' \in BOOLEAN /\ lastAvailable' \in BOOLEAN
      BY <1>2, <1>6, Zenon DEF BleUnavailable
  <2> QED
      BY <1>2, <1>3, <1>6, <2>1 DEF BleUnavailable
<1>7. CASE CheckFreshness
  <2>1. available' \in BOOLEAN /\ lastAvailable' \in BOOLEAN
      BY <1>2, <1>7, Zenon DEF CheckFreshness
  <2>2. CASE available # lastAvailable
      BY <1>2, <1>3, <1>7, <2>1, <2>2 DEF CheckFreshness
  <2>3. CASE available = lastAvailable
      BY <1>1, <1>2, <1>7, <2>1, <2>3 DEF CheckFreshness, TypeOK, stateVars
  <2> QED
      BY <2>2, <2>3
<1>8. CASE Expire
  <2>1. available' \in BOOLEAN
      BY <1>8, Zenon DEF Expire
  <2> QED
      BY <1>1, <1>8, <2>1 DEF Expire, TypeOK, stateVars
<1>9. CASE Add
    BY <1>1, <1>2, <1>9, ValueTypes DEF Add, TypeOK
<1>10. CASE UNCHANGED vars
    BY <1>10 DEF vars, entityVars, TypeOK
<1> QED
    BY <1>4, <1>5, <1>6, <1>7, <1>8, <1>9, <1>10 DEF Next

\* Every step keeps the band.
LEMMA NextBand == TypeOK /\ BandInv /\ [Next]_vars => BandInv'
<1> SUFFICES ASSUME TypeOK, BandInv, [Next]_vars PROVE BandInv'
    OBVIOUS
<1>1. data \in Readings(description) /\ available \in BOOLEAN /\ lastAvailable \in BOOLEAN
    BY DEF TypeOK
<1>2. ASSUME UNCHANGED <<step, band, data, published, lastAvailable>>
      PROVE  /\ StateOf(data, TRUE)' = StateOf(data, TRUE)
             /\ NativeValue(data)' = NativeValue(data)
             /\ InBand(data)' <=> InBand(data)
    BY <1>2 DEF StateOf, NativeValue, InBand, Numeric
<1>3. CASE BleUnavailable
    BY <1>3, FlushKeepsBand DEF BleUnavailable
<1>4. CASE Expire
    BY <1>2, <1>4 DEF Expire, BandInv, stateVars
<1>5. CASE CheckFreshness
  <2>1. CASE available # lastAvailable
      BY <1>1, <1>5, <2>1, FlushKeepsBand DEF CheckFreshness
  <2>2. CASE available = lastAvailable
      BY <1>2, <1>5, <2>2 DEF CheckFreshness, BandInv, stateVars
  <2> QED
      BY <2>1, <2>2
<1>6. CASE Add
  <2>1. /\ UNCHANGED <<step, band, available, lastAvailable, data, published>>
        /\ written = NoEntity /\ written' = StateOf(data, available)
      BY <1>6 DEF Add
  <2> QED
      BY <1>1, <1>2, <2>1, ValueTypes DEF BandInv
<1>7. CASE UNCHANGED vars
    BY <1>2, <1>7 DEF vars, entityVars, BandInv
<1> QED
    BY <1>3, <1>4, <1>5, <1>6, <1>7, ReceiveKeepsBand, ReceiveNothingKeepsBand DEF Next

\* Types and band hold in every reachable state.
LEMMA BandInvariant == Spec => [](TypeOK /\ BandInv)
BY InitBand, NextType, NextBand, PTL DEF Spec

\* Every reachable state is well typed, whatever the readings.
THEOREM TypeCorrect == Spec => []TypeOK
BY BandInvariant, PTL

--------------------------------------------------------------------------------
(* What gets through                                                       *)

\* A number that is shown is off by a band and half a step at most, for every row,
\* all readings and every order of calls (sensor.py:722).
THEOREM DriftGetsThrough == Spec => []DriftIsShown
<1>1. TypeOK /\ BandInv => DriftIsShown
  <2> SUFFICES ASSUME TypeOK, BandInv PROVE DriftIsShown
      OBVIOUS
  <2>1. data \in Readings(description) /\ step \in Nat \ {0} /\ band \in Nat
      BY RowIsUsable DEF TypeOK
  <2>2. ASSUME available, data \in Int, written # NoEntity PROVE written \in Int
    <3>1. CASE published = None
      <4>1. written = StateOf(data, TRUE)
          BY <2>2, <3>1 DEF BandInv
      <4>2. StateOf(data, TRUE) = NativeValue(data) /\ NativeValue(data) \in Int
          BY <2>1, <2>2, RoundIsNear, ValueAssumption DEF StateOf, NativeValue
      <4> QED
          BY <4>1, <4>2
    <3>2. CASE published # None
        BY <2>2, <3>2 DEF BandInv, TypeOK
    <3> QED
        BY <3>1, <3>2
  <2>3. ASSUME written \in Int
        PROVE  data \in Int /\ 2 * Distance(data, written) <= 2 * band + step
    <3>1. written # NoEntity /\ written # Unavailable
        BY <2>3, ValueAssumption
    <3>2. /\ data \in Int
          /\ written = NativeValue(data) \/ Distance(NativeValue(data), written) < band
      <4>1. CASE published = None
        <5>1. written = StateOf(data, TRUE)
            BY <3>1, <4>1 DEF BandInv
        <5> QED
            BY <2>3, <3>1, <5>1, ValueAssumption DEF StateOf, NativeValue
      <4>2. CASE published # None
        <5>1. lastAvailable
            BY <3>1 DEF BandInv
        <5> QED
            BY <3>1, <4>2, <5>1 DEF BandInv, InBand, Numeric
      <4> QED
          BY <4>1, <4>2
    <3>3. NativeValue(data) \in Int /\ 2 * Distance(NativeValue(data), data) <= step
        BY <2>1, <3>2, RoundIsNear DEF NativeValue
    <3> QED
        BY <2>1, <2>3, <3>2, <3>3 DEF Distance
  <2> QED
      BY <2>2, <2>3 DEF DriftIsShown
<1> QED
    BY <1>1, BandInvariant, PTL

\* No row but a measurement is ever held back (sensor.py:571).
THEOREM OnlyMeasurementsWait == Spec => []OnlyMeasurementsAreHeldBack
<1>1. TypeOK /\ BandInv => OnlyMeasurementsAreHeldBack
  <2> SUFFICES ASSUME TypeOK, BandInv, available, written # NoEntity,
                      StateClass(description) # "MEASUREMENT"
               PROVE  written = StateOf(data, TRUE)
      BY DEF OnlyMeasurementsAreHeldBack
  <2>1. ~InBand(data)
      BY Deadbands DEF InBand, TypeOK
  <2>2. CASE published = None
      BY <2>2 DEF BandInv
  <2>3. CASE published # None
      BY <2>1, <2>3, ValueAssumption DEF BandInv, StateOf
  <2> QED
      BY <2>2, <2>3
<1> QED
    BY <1>1, BandInvariant, PTL

\* Dither within the band less half a step of the state shown writes nothing
\* (sensor.py:722).
THEOREM DitherIsAbsorbed == Spec => DitherIsNotWritten
<1>1. ASSUME TypeOK, BandInv, NEW value \in Readings(description) \cap Int,
             published # None, lastAvailable, Receive(value),
             2 * Distance(value, written) < 2 * band - step
      PROVE  UNCHANGED written
  <2>1. step \in Nat \ {0} /\ band \in Nat
      BY <1>1, RowIsUsable
  <2>2. written \in Int /\ written = published
      BY <1>1 DEF BandInv, TypeOK
  <2>3. NativeValue(value) \in Int /\ 2 * Distance(NativeValue(value), value) <= step
      BY <2>1, RoundIsNear DEF NativeValue
  <2>4. Distance(NativeValue(value), written) < band /\ band > 0
      BY <1>1, <2>1, <2>2, <2>3 DEF Distance
  <2>5. InBand(value)
      BY <1>1, <2>2, <2>3, <2>4, ValueAssumption DEF InBand, Numeric
  <2> QED
      BY <1>1, <2>5 DEF Receive, Handle, stateVars
<1>2. TypeOK /\ BandInv /\ [Next]_vars =>
        [\A value \in Readings(description) \cap Int :
            /\ published # None /\ lastAvailable
            /\ Receive(value)
            /\ 2 * Distance(value, written) < 2 * band - step
          => UNCHANGED written]_vars
    BY <1>1
<1> QED
    BY <1>2, BandInvariant, PTL DEF Spec, DitherIsNotWritten

\* A reading is shown as it is, or is within the band of a number shown already:
\* what has been shown as unavailable leaves no band behind (sensor.py:713).
THEOREM BandIsForgotten == Spec => BandEndsWithUnavailability
<1> DEFINE Shown ==
        available' /\ written # NoEntity =>
            \/ written' = StateOf(data', TRUE)
            \/ /\ written \in Int /\ written' = written
               /\ data' \in Int
               /\ Distance(NativeValue(data'), written) < band
<1>1. TypeOK /\ BandInv /\ [Next]_vars => Shown
  <2> SUFFICES ASSUME TypeOK, BandInv, [Next]_vars, available', written # NoEntity,
                      written' # StateOf(data', TRUE)
               PROVE  /\ written \in Int /\ written' = written
                      /\ data' \in Int
                      /\ Distance(NativeValue(data'), written) < band
      OBVIOUS
  <2>1. TypeOK' /\ BandInv' /\ UNCHANGED <<step, band>>
    <3>1. TypeOK' /\ BandInv'
        BY NextType, NextBand
    <3>2. UNCHANGED <<step, band>>
        BY DEF Next, vars, entityVars, Receive, ReceiveNothing, BleUnavailable, Expire,
               CheckFreshness, Add
    <3> QED
        BY <3>1, <3>2
  <2>2. /\ StateOf(data, TRUE)' = StateOf(data', TRUE)
        /\ NativeValue(data)' = NativeValue(data')
        /\ Numeric(data)' = Numeric(data')
      BY <2>1 DEF StateOf, NativeValue, Numeric
  <2>3. written' = written
    <3>1. ASSUME NEW value, Receive(value) PROVE written' = written
        BY <3>1 DEF Receive, Handle, stateVars
    <3>2. CASE CheckFreshness
        BY <3>2 DEF CheckFreshness, Handle, stateVars, TypeOK
    <3>3. CASE Expire \/ UNCHANGED vars
        BY <3>3 DEF Expire, stateVars, vars, entityVars
    <3> QED
        BY <3>1, <3>2, <3>3 DEF Next, ReceiveNothing, BleUnavailable, Add
  <2>4. published' # None
      BY <2>1, <2>2, <2>3 DEF BandInv
  <2>5. /\ lastAvailable' /\ data' \in Int /\ written' = published'
        /\ written' = NativeValue(data') \/ InBand(data)'
      BY <2>1, <2>2, <2>3, <2>4 DEF BandInv
  <2>6. NativeValue(data') = StateOf(data', TRUE) /\ Numeric(data') = NativeValue(data')
      BY <2>5, ValueAssumption DEF StateOf, Numeric
  <2>7. Distance(NativeValue(data'), written) < band
      BY <2>1, <2>2, <2>3, <2>5, <2>6 DEF InBand
  <2> QED
      BY <2>1, <2>3, <2>4, <2>5, <2>7 DEF TypeOK
<1>2. TypeOK /\ BandInv /\ [Next]_vars => [Shown]_vars
    BY <1>1
<1> QED
    BY <1>2, BandInvariant, PTL DEF Spec, BandEndsWithUnavailability
================================================================================
