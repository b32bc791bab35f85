--------------------------- MODULE PublicationProofs ---------------------------
(***************************************************************************)
(* What reaches the state machine, for every set of keys and frames, all   *)
(* rounding steps and bands, every window and every pair of freshness      *)
(* limit and timer period.                                                 *)
(*                                                                         *)
(* The properties speak of available devices; that they hold when a device *)
(* comes back depends on what its entities remembered meanwhile.  ShownInv *)
(* says it for one entity: whoever may still compare with a remembered     *)
(* value shows that value.  TimerInv relates the coordinator's last        *)
(* answer to time, FrameInv the throttle's memory to the last frame.       *)
(***************************************************************************)
EXTENDS Publication, ThrottleProofs

ShownInv ==
    \A k \in Key :
        /\ k \notin Added => published[k] = None
        /\ k \in Added /\ (~lastAvailable \/ ~bleAvailable) => written[k] = Unavailable
        /\ ~bleAvailable => published[k] = None
        /\ k \in Added /\ lastAvailable /\ published[k] # None => written[k] = published[k]
        /\ k \in Added /\ Available => StandsFor(written[k], k, entityData)

TimerInv ==
    /\ Available => lastAvailable
    /\ lastAvailable /\ sinceSuccess >= Fresh => sinceSuccess < Fresh + sinceCheck

FrameInv ==
    /\ frame = NoFrame => lastStates = Unsent /\ sinceSuccess >= Fresh
    /\ frame # NoFrame =>
         /\ lastStates = States(frame)
         /\ \A k \in Carried \ SlowKey : StateLike(frame[k]) => entityData[k] = frame[k]

IInv == TypeOK /\ ShownInv /\ TimerInv /\ FrameInv

--------------------------------------------------------------------------------
(* One entity                                                              *)

LEMMA RoundType == ASSUME NEW v \in Int, NEW step \in Nat \ {0} PROVE Round(v, step) \in Int
<1>1. v \div step \in Int /\ v % step \in Int
    OBVIOUS
<1>2. (v \div step) * step \in Int /\ ((v \div step) + 1) * step \in Int
    BY <1>1
<1> QED
    BY <1>2 DEF Round

\* The values an entity may hold.
LEMMA EntityValues ==
    ASSUME NEW data \in FrameValues, NEW k \in Key
    PROVE  /\ data[k] \in Number => NativeValue(k, data) \in Int
           /\ data[k] \notin Number => NativeValue(k, data) = data[k]
           /\ data[k] \in Number \cup Label \cup {None, Absent}
<1>1. data[k] \in Number => NativeValue(k, data) \in Int
    BY RoundType, NumberAssumption, GaugeAssumption DEF NativeValue
<1> QED
    BY <1>1 DEF NativeValue, FrameValues, Value, None

LEMMA StateType ==
    ASSUME NEW data \in FrameValues, NEW k \in Key, NEW available
    PROVE  /\ StateOf(k, data, available) \in Int \cup Label \cup {Unavailable}
           /\ Numeric(k, data) \in Int \cup {None}
           /\ Numeric(k, data) # None <=> data[k] \in Number
           /\ Numeric(k, data) # None => StateOf(k, data, TRUE) = Numeric(k, data)
           /\ ~available => StateOf(k, data, available) = Unavailable
           /\ available => StateOf(k, data, available) = StateOf(k, data, TRUE)
<1>1. /\ data[k] \in Number => NativeValue(k, data) \in Int
      /\ data[k] \notin Number => NativeValue(k, data) = data[k]
      /\ data[k] \in Number \cup Label \cup {None, Absent}
    BY EntityValues
<1>2. None \notin Int /\ (data[k] \in Number => data[k] \notin {Absent, None})
    BY NumberAssumption, ValueAssumption DEF None
<1> QED
    BY <1>1, <1>2 DEF StateOf, Numeric

\* A state only depends on the value of its own entity.
LEMMA SameValueSameState ==
    ASSUME NEW k, NEW data, NEW other, data[k] = other[k], NEW available
    PROVE  /\ StateOf(k, data, available) = StateOf(k, other, available)
           /\ \A state : StandsFor(state, k, data) <=> StandsFor(state, k, other)
<1>1. NativeValue(k, data) = NativeValue(k, other)
    BY DEF NativeValue
<1> QED
    BY <1>1 DEF StateOf, StandsFor

\* A value in the band is stood for by the value remembered.
LEMMA InBandStandsFor ==
    ASSUME TypeOK, NEW data \in FrameValues, NEW k \in Key, InBand(k, data)
    PROVE  StandsFor(published[k], k, data)
<1>1. Numeric(k, data) \in Int /\ published[k] \in Int
    BY StateType DEF InBand, TypeOK
<1>2. StateOf(k, data, TRUE) = Numeric(k, data)
    BY StateType DEF InBand
<1>3. Distance(published[k], Numeric(k, data)) = Distance(Numeric(k, data), published[k])
    BY <1>1 DEF Distance
<1> QED
    BY <1>1, <1>2, <1>3 DEF InBand, StandsFor

--------------------------------------------------------------------------------
(* The entities together                                                   *)

\* What an update does to the entity of one key.
LEMMA UpdateStep ==
    ASSUME TypeOK, NEW touched \in SUBSET Key, NEW data \in FrameValues,
           NEW available \in BOOLEAN, NEW flush \in BOOLEAN,
           UpdateEntities(touched, data, available, flush)
    PROVE  /\ published' \in [Key -> Int \cup {None}]
           /\ written' \in [Key -> Int \cup Label \cup {Unavailable, NoEntity}]
           /\ Added' = Added
           /\ \A k \in Key :
                 /\ k \in Added /\ flush =>
                       published'[k] = None /\ written'[k] = StateOf(k, data, available)
                 /\ k \in Added /\ ~flush /\ k \in touched /\ ~InBand(k, data) =>
                       /\ published'[k] = Numeric(k, data)
                       /\ written'[k] = StateOf(k, data, available)
                 /\ k \notin Added \/ (~flush /\ (k \notin touched \/ InBand(k, data))) =>
                       published'[k] = published[k] /\ written'[k] = written[k]
<1> DEFINE writes(k) == k \in Added /\ (flush \/ (k \in touched /\ ~InBand(k, data)))
<1>1. /\ published' = [k \in Key |->
             IF ~writes(k) THEN published[k] ELSE IF flush THEN None ELSE Numeric(k, data)]
      /\ written' = [k \in Key |->
             IF writes(k) THEN StateOf(k, data, available) ELSE written[k]]
    BY DEF UpdateEntities
<1>2. \A k \in Key : /\ Numeric(k, data) \in Int \cup {None}
                     /\ StateOf(k, data, available) \in Int \cup Label \cup {Unavailable}
    BY StateType
<1>3. published' \in [Key -> Int \cup {None}]
    BY <1>1, <1>2 DEF TypeOK
<1>4. written' \in [Key -> Int \cup Label \cup {Unavailable, NoEntity}]
    BY <1>1, <1>2 DEF TypeOK
<1>5. \A k \in Key : written'[k] # NoEntity <=> written[k] # NoEntity
    BY <1>1, <1>2, StateAssumption DEF Added
<1>6. Added' = Added
    BY <1>5 DEF Added
<1> QED
    BY <1>1, <1>3, <1>4, <1>6

\* The processor's update of the entities, whichever advertisement caused it.
LEMMA ProcessUpdateKeepsShown ==
    ASSUME TypeOK, ShownInv, TimerInv, NEW data \in FrameValues, ProcessUpdate(data),
           bleAvailable' = TRUE
    PROVE  ShownInv' /\ (Available' <=> lastAvailable')
<1> DEFINE available == sinceSuccess' < Fresh
           touched == IF Available THEN {k \in Key : data[k] # entityData[k]} ELSE Key
           flush == available # lastAvailable
<1>1. /\ entityData' = data
      /\ lastAvailable' = available
      /\ UpdateEntities(touched, data, available, flush)
    BY DEF ProcessUpdate
<1>2. touched \in SUBSET Key /\ available \in BOOLEAN /\ flush \in BOOLEAN
    OBVIOUS
<1>3. (flush /\ available /\ ~lastAvailable) \/ (flush /\ ~available /\ lastAvailable)
          \/ (~flush /\ available /\ lastAvailable) \/ (~flush /\ ~available /\ ~lastAvailable)
  <2>1. available \in BOOLEAN /\ lastAvailable \in BOOLEAN
      BY DEF TypeOK
  <2> QED
      BY <2>1, Zenon
<1>4. Available' <=> available
    BY DEF Available
<1>5. \A k \in Key : k \notin touched => Available /\ data[k] = entityData[k]
    OBVIOUS
<1>6. lastAvailable' <=> available
    BY <1>1
<1> HIDE DEF available, touched, flush
<1>7. /\ Added' = Added
      /\ \A k \in Key :
            /\ k \in Added /\ flush =>
                  published'[k] = None /\ written'[k] = StateOf(k, data, available)
            /\ k \in Added /\ ~flush /\ k \in touched /\ ~InBand(k, data) =>
                  published'[k] = Numeric(k, data) /\ written'[k] = StateOf(k, data, available)
            /\ k \notin Added \/ (~flush /\ (k \notin touched \/ InBand(k, data))) =>
                  published'[k] = published[k] /\ written'[k] = written[k]
    BY <1>1, <1>2, UpdateStep, Zenon
<1>8. ASSUME NEW k \in Key
      PROVE  /\ k \notin Added' => published'[k] = None
             /\ k \in Added' /\ ~lastAvailable' => written'[k] = Unavailable
             /\ k \in Added' /\ lastAvailable' /\ published'[k] # None =>
                    written'[k] = published'[k]
             /\ k \in Added' /\ Available' => StandsFor(written'[k], k, entityData')
  <2>1. /\ Numeric(k, data) # None => StateOf(k, data, TRUE) = Numeric(k, data)
        /\ StandsFor(StateOf(k, data, TRUE), k, data)
        /\ StateOf(k, data, FALSE) = Unavailable
      BY StateType DEF StandsFor
  <2>2. /\ k \notin Added => published[k] = None
        /\ k \in Added /\ ~lastAvailable => written[k] = Unavailable
        /\ k \in Added /\ lastAvailable /\ published[k] # None => written[k] = published[k]
        /\ k \in Added /\ Available => StandsFor(written[k], k, entityData)
      BY DEF ShownInv
  <2>3. Added' = Added
      BY <1>7
  <2>4. CASE k \in Added /\ flush
    <3>1. published'[k] = None /\ written'[k] = StateOf(k, data, available)
        BY <1>7, <2>4
    <3>2. CASE available
        BY <1>1, <1>4, <1>6, <2>1, <2>3, <2>4, <3>1, <3>2
    <3>3. CASE ~available
        BY <1>4, <1>6, <2>3, <2>4, <3>1, <3>3, StateType
    <3> QED
        BY <3>2, <3>3
  <2>5. CASE k \in Added /\ ~flush /\ k \in touched /\ ~InBand(k, data)
    <3>1. published'[k] = Numeric(k, data) /\ written'[k] = StateOf(k, data, available)
        BY <1>7, <2>5
    <3>2. CASE available
        BY <1>1, <1>2, <1>4, <1>6, <2>1, <2>3, <2>5, <3>1, <3>2
    <3>3. CASE ~available
        BY <1>4, <1>6, <2>3, <2>5, <3>1, <3>3, StateType
    <3> QED
        BY <3>2, <3>3
  <2>6. CASE k \notin Added \/ (~flush /\ (k \notin touched \/ InBand(k, data)))
    <3>1. published'[k] = published[k] /\ written'[k] = written[k]
        BY <1>7, <2>6
    <3>2. CASE k \notin Added
        BY <2>2, <2>3, <3>1, <3>2
    <3>3. CASE k \in Added /\ ~available
        BY <1>3, <1>4, <1>6, <2>2, <2>3, <2>6, <3>1, <3>3
    <3>4. CASE k \in Added /\ available /\ k \notin touched
      <4>1. Available /\ data[k] = entityData[k]
          BY <1>5, <3>4
      <4>2. StandsFor(written[k], k, data)
          BY <2>2, <3>4, <4>1, SameValueSameState
      <4> QED
          BY <1>1, <1>3, <2>2, <2>3, <2>6, <3>1, <3>4, <4>2
    <3>5. CASE k \in Added /\ available /\ InBand(k, data)
      <4>1. StandsFor(published[k], k, data) /\ published[k] # None
          BY <3>5, InBandStandsFor DEF InBand
      <4> QED
          BY <1>1, <1>3, <2>2, <2>3, <2>6, <3>1, <3>5, <4>1
    <3> QED
        BY <2>6, <3>2, <3>3, <3>4, <3>5
  <2> QED
      BY <2>4, <2>5, <2>6
<1>9. Available' <=> lastAvailable'
    BY <1>4, <1>6
<1> QED
    BY <1>8, <1>9 DEF ShownInv

\* A flush, or none, while the data stays.
LEMMA FlushKeepsShown ==
    ASSUME TypeOK, ShownInv, NEW available \in BOOLEAN, NEW flush \in BOOLEAN,
           UpdateEntities({}, entityData, available, flush), entityData' = entityData,
           Available' <=> available,
           Available' => Available,
           ~flush => /\ lastAvailable' <=> lastAvailable
                     /\ bleAvailable' <=> bleAvailable,
           flush /\ available => lastAvailable' /\ bleAvailable'
    PROVE  ShownInv'
<1> SUFFICES ASSUME NEW k \in Key
    PROVE  /\ k \notin Added' => published'[k] = None
           /\ k \in Added' /\ (~lastAvailable' \/ ~bleAvailable') => written'[k] = Unavailable
           /\ ~bleAvailable' => published'[k] = None
           /\ k \in Added' /\ lastAvailable' /\ published'[k] # None =>
                  written'[k] = published'[k]
           /\ k \in Added' /\ Available' => StandsFor(written'[k], k, entityData')
    BY DEF ShownInv
<1>1. /\ k \notin Added => published[k] = None
      /\ k \in Added /\ (~lastAvailable \/ ~bleAvailable) => written[k] = Unavailable
      /\ ~bleAvailable => published[k] = None
      /\ k \in Added /\ lastAvailable /\ published[k] # None => written[k] = published[k]
      /\ k \in Added /\ Available => StandsFor(written[k], k, entityData)
    BY DEF ShownInv
<1>2. Added' = Added /\ entityData \in FrameValues
    BY UpdateStep DEF TypeOK
<1>3. /\ k \in Added /\ flush =>
            published'[k] = None /\ written'[k] = StateOf(k, entityData, available)
      /\ k \notin Added \/ ~flush => published'[k] = published[k] /\ written'[k] = written[k]
  <2>1. {} \in SUBSET Key /\ k \notin {}
      OBVIOUS
  <2> QED
      BY <1>2, <2>1, UpdateStep, Zenon
<1>4. CASE k \in Added /\ flush
  <2>1. published'[k] = None /\ written'[k] = StateOf(k, entityData, available)
      BY <1>3, <1>4
  <2>2. CASE available
      BY <1>2, <1>4, <2>1, <2>2, StateType DEF StandsFor
  <2>3. CASE ~available
      BY <1>2, <1>4, <2>1, <2>3, StateType
  <2> QED
      BY <2>2, <2>3
<1>5. CASE k \notin Added \/ ~flush
    BY <1>1, <1>2, <1>3, <1>5
<1> QED
    BY <1>4, <1>5

--------------------------------------------------------------------------------
(* Steps                                                                   *)

LEMMA MergeType ==
    ASSUME NEW old \in FrameValues, NEW new \in FrameValues
    PROVE  Merge(old, new) \in FrameValues
BY DEF Merge, FrameValues

LEMMA SendType ==
    ASSUME TypeOK, NEW f \in FrameValues, NEW recovery, Send(f, recovery)
    PROVE  ThrottleTypeOK'
<1>1. 0 \in Ages
    BY IntervalAssumption DEF Ages
<1>2. sinceSent' \in Ages /\ sinceSlow' \in [SlowKey -> Ages]
    BY <1>1 DEF Send, TypeOK, ThrottleTypeOK
<1>3. lastStates' \in {Unsent} \cup UNION {[K -> Label \cup {Missing}] : K \in SUBSET Key}
    BY StatesType DEF Send
<1> QED
    BY <1>2, <1>3 DEF ThrottleTypeOK

\* The two ways a valid frame goes.
LEMMA ReceiveFrameCases ==
    ASSUME NEW f \in Frame, ReceiveFrame(f)
    PROVE  /\ bleAvailable' = TRUE /\ sinceSuccess' = 0 /\ frame' = f
           /\ UNCHANGED sinceCheck
           /\ \/ /\ Send(f, sinceSuccess >= Fresh)
                 /\ described' = described \cup {k \in Key : f[k] # Absent}
                 /\ ProcessUpdate(Merge(entityData, Forwarded(f, sinceSuccess >= Fresh)))
              \/ /\ Suppress(f, sinceSuccess >= Fresh)
                 /\ UNCHANGED described
                 /\ ProcessUpdate(entityData)
BY DEF ReceiveFrame

\* The types and the coordinator's answer after an advertisement.
LEMMA ProcessUpdateStep ==
    ASSUME TypeOK, NEW data \in FrameValues, ProcessUpdate(data)
    PROVE  /\ entityData' = data
           /\ lastAvailable' \in BOOLEAN
           /\ lastAvailable' <=> sinceSuccess' < Fresh
           /\ published' \in [Key -> Int \cup {None}]
           /\ written' \in [Key -> Int \cup Label \cup {Unavailable, NoEntity}]
           /\ Added' = Added
<1> DEFINE available == sinceSuccess' < Fresh
           touched == IF Available THEN {k \in Key : data[k] # entityData[k]} ELSE Key
           flush == available # lastAvailable
<1>1. /\ entityData' = data
      /\ lastAvailable' = available
      /\ UpdateEntities(touched, data, available, flush)
    BY DEF ProcessUpdate
<1>2. touched \in SUBSET Key /\ available \in BOOLEAN /\ flush \in BOOLEAN
    OBVIOUS
<1>3. lastAvailable' \in BOOLEAN
    BY <1>1, <1>2, Zenon
<1>4. lastAvailable' <=> sinceSuccess' < Fresh
    BY <1>1
<1> HIDE DEF available, touched, flush
<1>5. /\ published' \in [Key -> Int \cup {None}]
      /\ written' \in [Key -> Int \cup Label \cup {Unavailable, NoEntity}]
      /\ Added' = Added
    BY <1>1, <1>2, UpdateStep, Zenon
<1> QED
    BY <1>1, <1>3, <1>4, <1>5

\* An advertisement wakes an available entity only with a value that differs.
LEMMA UpdateReachesEntity ==
    ASSUME TypeOK, NEW data \in FrameValues, ProcessUpdate(data), lastAvailable, Available,
           sinceSuccess' < Fresh, NEW k \in Key, data[k] = entityData[k]
    PROVE  published'[k] = published[k] /\ written'[k] = written[k]
<1> DEFINE available == sinceSuccess' < Fresh
           touched == IF Available THEN {j \in Key : data[j] # entityData[j]} ELSE Key
           flush == available # lastAvailable
<1>1. UpdateEntities(touched, data, available, flush)
    BY DEF ProcessUpdate
<1>2. /\ touched \in SUBSET Key /\ available \in BOOLEAN /\ flush \in BOOLEAN
      /\ k \notin touched
    OBVIOUS
<1>3. ~flush
  <2>1. lastAvailable = TRUE /\ available = TRUE
      BY DEF TypeOK
  <2> QED
      BY <2>1
<1> HIDE DEF available, touched, flush
<1> QED
    BY <1>1, <1>2, <1>3, UpdateStep, Zenon

LEMMA ReceiveFrameKeepsInv == ASSUME IInv, NEW f \in Frame, ReceiveFrame(f) PROVE IInv'
<1> DEFINE recovery == sinceSuccess >= Fresh
<1>1. f \in FrameValues /\ entityData \in FrameValues /\ TypeOK
    BY FrameAssumption DEF IInv, TypeOK
<1>2. /\ bleAvailable' = TRUE /\ sinceSuccess' = 0 /\ frame' = f
      /\ UNCHANGED sinceCheck
    BY ReceiveFrameCases
<1>3. 0 \in Ages /\ 0 < Fresh
    BY PeriodAssumption, IntervalAssumption DEF Ages
<1>4. bleAvailable' \in BOOLEAN
    BY <1>2, Zenon
<1>5. CASE /\ Send(f, recovery)
           /\ described' = described \cup {k \in Key : f[k] # Absent}
           /\ ProcessUpdate(Merge(entityData, Forwarded(f, recovery)))
  <2> DEFINE data == Merge(entityData, Forwarded(f, recovery))
  <2>1. data \in FrameValues
      BY <1>1, ForwardedType, MergeType
  <2>2. ThrottleTypeOK'
      BY <1>1, <1>5, SendType
  <2>3. \A k \in Carried \ SlowKey : data[k] = f[k]
      BY DEF Merge, Forwarded, SlowKeyDue, Carried
  <2>4. lastStates' = States(f)
      BY <1>5 DEF Send
  <2>5. ProcessUpdate(data)
      BY <1>5
  <2> HIDE DEF data
  <2>6. /\ entityData' = data
        /\ lastAvailable' \in BOOLEAN
        /\ lastAvailable' <=> sinceSuccess' < Fresh
        /\ published' \in [Key -> Int \cup {None}]
        /\ written' \in [Key -> Int \cup Label \cup {Unavailable, NoEntity}]
      BY <1>1, <2>1, <2>5, ProcessUpdateStep
  <2>7. TypeOK'
      BY <1>1, <1>2, <1>3, <1>4, <1>5, <2>1, <2>2, <2>6 DEF TypeOK
  <2>8. ShownInv' /\ (Available' <=> lastAvailable')
      BY <1>2, <2>1, <2>5, ProcessUpdateKeepsShown DEF IInv
  <2>9. TimerInv'
      BY <1>2, <2>8, PeriodAssumption DEF TimerInv
  <2>10. FrameInv'
    <3>1. f # NoFrame
        BY FrameAssumption
    <3> QED
        BY <1>2, <2>3, <2>4, <2>6, <3>1 DEF FrameInv
  <2> QED
      BY <2>7, <2>8, <2>9, <2>10 DEF IInv
<1>6. CASE Suppress(f, recovery) /\ UNCHANGED described /\ ProcessUpdate(entityData)
  <2>1. UNCHANGED throttleVars /\ States(f) = lastStates
      BY <1>6 DEF Suppress, Due
  <2>2. /\ entityData' = entityData
        /\ lastAvailable' \in BOOLEAN
        /\ lastAvailable' <=> sinceSuccess' < Fresh
        /\ published' \in [Key -> Int \cup {None}]
        /\ written' \in [Key -> Int \cup Label \cup {Unavailable, NoEntity}]
      BY <1>1, <1>6, ProcessUpdateStep
  <2>3. ThrottleTypeOK'
      BY <1>1, <2>1 DEF TypeOK, ThrottleTypeOK, throttleVars
  <2>4. TypeOK'
      BY <1>1, <1>2, <1>3, <1>4, <1>6, <2>2, <2>3 DEF TypeOK
  <2>5. ShownInv' /\ (Available' <=> lastAvailable')
      BY <1>1, <1>2, <1>6, ProcessUpdateKeepsShown DEF IInv
  <2>6. TimerInv'
      BY <1>2, <2>5, PeriodAssumption DEF TimerInv
  <2>7. FrameInv'
    <3>1. f # NoFrame
        BY FrameAssumption
    <3>2. frame # NoFrame
      <4>1. States(f) # Unsent
          BY <1>1, StatesType, UnsentAssumption
      <4> QED
          BY <2>1, <4>1 DEF IInv, FrameInv
    <3>3. frame \in FrameValues /\ States(f) = States(frame)
        BY <1>1, <2>1, <3>2, FrameAssumption DEF TypeOK, IInv, FrameInv
    <3>4. ASSUME NEW k \in Carried \ SlowKey, StateLike(f[k]) PROVE entityData[k] = f[k]
      <4>1. k \in Key
          BY DEF Carried
      <4>2. frame[k] = f[k]
          BY <1>1, <3>3, <3>4, <4>1, SameStates
      <4> QED
          BY <3>2, <3>4, <4>2 DEF IInv, FrameInv
    <3>5. lastStates' = States(f)
        BY <2>1 DEF throttleVars
    <3> QED
        BY <1>2, <2>2, <3>1, <3>4, <3>5 DEF FrameInv
  <2> QED
      BY <2>4, <2>5, <2>6, <2>7 DEF IInv
<1> QED
    BY <1>5, <1>6, ReceiveFrameCases

LEMMA ReceiveInvalidKeepsInv == ASSUME IInv, ReceiveInvalid PROVE IInv'
<1>1. entityData \in FrameValues /\ TypeOK
    BY DEF IInv, TypeOK
<1>2. /\ bleAvailable' = TRUE /\ UNCHANGED <<sinceSuccess, throttleVars, sinceCheck, described, frame>>
      /\ ProcessUpdate(entityData)
    BY DEF ReceiveInvalid
<1>3. bleAvailable' \in BOOLEAN
    BY <1>2, Zenon
<1>4. /\ entityData' = entityData
      /\ lastAvailable' \in BOOLEAN
      /\ lastAvailable' <=> sinceSuccess' < Fresh
      /\ published' \in [Key -> Int \cup {None}]
      /\ written' \in [Key -> Int \cup Label \cup {Unavailable, NoEntity}]
    BY <1>1, <1>2, ProcessUpdateStep
<1>5. TypeOK'
    BY <1>1, <1>2, <1>3, <1>4 DEF TypeOK, ThrottleTypeOK, throttleVars
<1>6. ShownInv' /\ (Available' <=> lastAvailable')
    BY <1>1, <1>2, ProcessUpdateKeepsShown DEF IInv
<1>7. TimerInv'
  <2>1. sinceSuccess' \in Nat
      BY <1>1, <1>2, IntervalAssumption DEF TypeOK, Ages
  <2> QED
      BY <1>4, <1>6, <2>1, PeriodAssumption DEF TimerInv
<1>8. FrameInv'
    BY <1>2, <1>4 DEF IInv, FrameInv, throttleVars
<1> QED
    BY <1>5, <1>6, <1>7, <1>8 DEF IInv

LEMMA BleUnavailableKeepsInv == ASSUME IInv, BleUnavailable PROVE IInv'
<1>1. entityData \in FrameValues /\ TypeOK
    BY DEF IInv, TypeOK
<1>2. /\ bleAvailable' = FALSE
      /\ UpdateEntities({}, entityData, FALSE, TRUE)
      /\ UNCHANGED <<throttleVars, sinceSuccess, lastAvailable, sinceCheck, entityData, described, frame>>
    BY DEF BleUnavailable
<1>3. bleAvailable' \in BOOLEAN
    BY <1>2, Zenon
<1>4. /\ published' \in [Key -> Int \cup {None}]
      /\ written' \in [Key -> Int \cup Label \cup {Unavailable, NoEntity}]
  <2>1. {} \in SUBSET Key /\ TRUE \in BOOLEAN /\ FALSE \in BOOLEAN
      OBVIOUS
  <2> QED
      BY <1>1, <1>2, <2>1, UpdateStep, Zenon
<1>5. TypeOK'
    BY <1>1, <1>2, <1>3, <1>4 DEF TypeOK, ThrottleTypeOK, throttleVars
<1>6. ~Available'
    BY <1>2 DEF Available
<1>7. ShownInv'
  <2>1. TRUE \in BOOLEAN /\ FALSE \in BOOLEAN
      OBVIOUS
  <2> QED
      BY <1>1, <1>2, <1>6, <2>1, FlushKeepsShown, Zenon DEF IInv
<1>8. TimerInv'
    BY <1>2, <1>6 DEF IInv, TimerInv
<1>9. FrameInv'
    BY <1>2 DEF IInv, FrameInv, throttleVars
<1> QED
    BY <1>5, <1>7, <1>8, <1>9 DEF IInv

LEMMA CheckFreshnessKeepsInv == ASSUME IInv, CheckFreshness PROVE IInv'
<1> DEFINE flush == Available # lastAvailable
<1>1. entityData \in FrameValues /\ TypeOK
    BY DEF IInv, TypeOK
<1>2. /\ sinceCheck' = 0
      /\ lastAvailable' = Available
      /\ UpdateEntities({}, entityData, Available, flush)
      /\ UNCHANGED <<throttleVars, bleAvailable, sinceSuccess, entityData, described, frame>>
    BY DEF CheckFreshness
<1>3. {} \in SUBSET Key /\ Available \in BOOLEAN /\ flush \in BOOLEAN
    BY DEF Available
<1>4. lastAvailable' \in BOOLEAN
    BY <1>2, <1>3, Zenon
<1>5. lastAvailable' <=> Available
    BY <1>2
<1>6. Available' <=> Available
    BY <1>2 DEF Available
<1>7. Available => lastAvailable
    BY DEF IInv, TimerInv
<1>8. ~flush => (lastAvailable' <=> lastAvailable)
    BY <1>5
<1>9. Available => bleAvailable'
    BY <1>2 DEF Available
<1> HIDE DEF flush
<1>10. /\ published' \in [Key -> Int \cup {None}]
       /\ written' \in [Key -> Int \cup Label \cup {Unavailable, NoEntity}]
    BY <1>1, <1>2, <1>3, UpdateStep, Zenon
<1>11. TypeOK'
  <2>1. sinceCheck' \in 0..CheckPeriod
      BY <1>2, PeriodAssumption
  <2> QED
      BY <1>1, <1>2, <1>4, <1>10, <2>1 DEF TypeOK, ThrottleTypeOK, throttleVars
<1>12. ShownInv'
    BY <1>1, <1>2, <1>3, <1>5, <1>6, <1>8, <1>9, FlushKeepsShown, Zenon DEF IInv
<1>13. TimerInv'
  <2>1. sinceSuccess' \in Nat /\ Fresh \in Nat
      BY <1>1, <1>2, IntervalAssumption, PeriodAssumption DEF TypeOK, Ages
  <2>2. lastAvailable' => sinceSuccess' < Fresh
      BY <1>2, <1>5 DEF Available
  <2> QED
      BY <1>5, <1>6, <2>1, <2>2 DEF TimerInv
<1>14. FrameInv'
    BY <1>2 DEF IInv, FrameInv, throttleVars
<1> QED
    BY <1>11, <1>12, <1>13, <1>14 DEF IInv

\* The first state of an entity is written while nothing is remembered for it.
LEMMA AddEntityKeepsInv == ASSUME IInv, NEW k \in Key, AddEntity(k) PROVE IInv'
<1>1. entityData \in FrameValues /\ TypeOK
    BY DEF IInv, TypeOK
<1>2. /\ k \notin Added
      /\ written' = [written EXCEPT ![k] = StateOf(k, entityData, Available)]
      /\ UNCHANGED <<throttleVars, coordinatorVars, entityData, described, published, frame>>
    BY DEF AddEntity
<1>3. /\ StateOf(k, entityData, Available) \in Int \cup Label \cup {Unavailable}
      /\ ~Available => StateOf(k, entityData, Available) = Unavailable
      /\ Available => StateOf(k, entityData, Available) = StateOf(k, entityData, TRUE)
    BY <1>1, StateType
<1>4. TypeOK'
    BY <1>1, <1>2, <1>3 DEF TypeOK, ThrottleTypeOK, throttleVars, coordinatorVars
<1>5. Available' <=> Available
    BY <1>2 DEF Available, coordinatorVars
<1>6. ShownInv'
  <2>1. ASSUME NEW j \in Key
        PROVE  /\ j \notin Added' => published'[j] = None
               /\ j \in Added' /\ (~lastAvailable' \/ ~bleAvailable') => written'[j] = Unavailable
               /\ ~bleAvailable' => published'[j] = None
               /\ j \in Added' /\ lastAvailable' /\ published'[j] # None =>
                      written'[j] = published'[j]
               /\ j \in Added' /\ Available' => StandsFor(written'[j], j, entityData')
    <3>1. /\ j \notin Added => published[j] = None
          /\ j \in Added /\ (~lastAvailable \/ ~bleAvailable) => written[j] = Unavailable
          /\ ~bleAvailable => published[j] = None
          /\ j \in Added /\ lastAvailable /\ published[j] # None => written[j] = published[j]
          /\ j \in Added /\ Available => StandsFor(written[j], j, entityData)
        BY DEF IInv, ShownInv
    <3>2. CASE j = k
      <4>1. written'[j] = StateOf(k, entityData, Available)
          BY <1>1, <1>2, <3>2 DEF TypeOK
      <4>2. published'[j] = None
          BY <1>2, <3>1, <3>2
      <4>3. ~lastAvailable' \/ ~bleAvailable' => ~Available
          BY <1>2 DEF IInv, TimerInv, Available, coordinatorVars
      <4>4. Available => StandsFor(written'[j], j, entityData')
          BY <1>2, <1>3, <3>2, <4>1 DEF StandsFor
      <4> QED
          BY <1>3, <1>5, <4>1, <4>2, <4>3, <4>4
    <3>3. CASE j # k
      <4>1. written'[j] = written[j]
          BY <1>1, <1>2, <3>3 DEF TypeOK
      <4>2. j \in Added' <=> j \in Added
          BY <4>1 DEF Added
      <4> QED
          BY <1>2, <1>5, <3>1, <4>1, <4>2 DEF coordinatorVars
    <3> QED
        BY <3>2, <3>3
  <2> QED
      BY <2>1 DEF ShownInv
<1>7. TimerInv'
    BY <1>2, <1>5 DEF IInv, TimerInv, coordinatorVars
<1>8. FrameInv'
    BY <1>2 DEF IInv, FrameInv, throttleVars, coordinatorVars
<1> QED
    BY <1>4, <1>6, <1>7, <1>8 DEF IInv

LEMMA ClockKeepsInv == ASSUME IInv, Clock PROVE IInv'
<1>1. /\ sinceCheck < CheckPeriod /\ sinceCheck' = sinceCheck + 1
      /\ sinceSuccess' = Older(sinceSuccess)
      /\ ThrottleElapse
      /\ UNCHANGED <<bleAvailable, lastAvailable, entityVars, frame>>
    BY DEF Clock
<1>2. TypeOK /\ sinceSuccess \in Ages /\ sinceCheck \in 0..CheckPeriod
    BY DEF IInv, TypeOK
<1>3. /\ sinceSuccess' \in Ages /\ sinceSuccess <= sinceSuccess'
      /\ sinceSuccess' <= sinceSuccess + 1
    BY <1>1, <1>2, OlderType
<1>4. sinceSuccess \in Nat /\ sinceSuccess' \in Nat /\ Fresh \in Nat /\ sinceCheck \in Nat
    BY <1>2, <1>3, PeriodAssumption, IntervalAssumption DEF Ages
<1>5. Available' => Available
    BY <1>1, <1>3, <1>4 DEF Available
<1>6. TypeOK'
  <2>1. ThrottleTypeOK'
      BY <1>1, <1>2, OlderType DEF ThrottleElapse, TypeOK, ThrottleTypeOK
  <2>2. sinceCheck' \in 0..CheckPeriod
      BY <1>1, <1>2, PeriodAssumption
  <2> QED
      BY <1>1, <1>2, <1>3, <2>1, <2>2 DEF TypeOK, entityVars
<1>7. ShownInv'
    BY <1>1, <1>5 DEF IInv, ShownInv, Added, entityVars, StandsFor, StateOf, NativeValue
<1>8. TimerInv'
    BY <1>1, <1>3, <1>4, <1>5 DEF IInv, TimerInv
<1>9. FrameInv'
    BY <1>1, <1>3, <1>4 DEF IInv, FrameInv, ThrottleElapse, entityVars
<1> QED
    BY <1>6, <1>7, <1>8, <1>9 DEF IInv

--------------------------------------------------------------------------------
(* Every step keeps the invariant                                          *)

LEMMA InitInv == ASSUME Init PROVE IInv
<1>1. 0 \in Ages /\ Cap \in Ages /\ Cap >= Fresh /\ 0 \in 0..CheckPeriod
    BY IntervalAssumption, PeriodAssumption DEF Ages
<1>2. entityData \in FrameValues /\ ThrottleTypeOK
    BY <1>1 DEF Init, FrameValues, ThrottleInit, ThrottleTypeOK
<1>3. TypeOK
    BY <1>1, <1>2 DEF Init, TypeOK
<1>4. ShownInv /\ Added = {}
    BY DEF Init, ShownInv, Added
<1>5. ~Available
    BY DEF Init, Available
<1>6. TimerInv /\ FrameInv
    BY <1>1, <1>5 DEF Init, TimerInv, FrameInv, ThrottleInit
<1> QED
    BY <1>3, <1>4, <1>6 DEF IInv

LEMMA NextInv == ASSUME IInv, [Next]_vars PROVE IInv'
<1>1. CASE UNCHANGED vars
  <2>1. Added' = Added /\ (Available' <=> Available)
      BY <1>1 DEF vars, coordinatorVars, entityVars, Added, Available
  <2> QED
      BY <1>1, <2>1
      DEF vars, throttleVars, coordinatorVars, entityVars, IInv, TypeOK, ThrottleTypeOK,
          ShownInv, TimerInv, FrameInv, StandsFor, StateOf, NativeValue
<1>2. CASE Next
    BY <1>2, ReceiveFrameKeepsInv, ReceiveInvalidKeepsInv, BleUnavailableKeepsInv,
       CheckFreshnessKeepsInv, AddEntityKeepsInv, ClockKeepsInv DEF Next
<1> QED
    BY <1>1, <1>2

LEMMA Invariance == Spec => []IInv
BY InitInv, NextInv, PTL DEF Spec

--------------------------------------------------------------------------------
(* Theorems                                                                *)

\* Every variable of throttle, coordinator and entities keeps its type.
THEOREM TypeCorrect == Spec => []TypeOK
<1>1. IInv => TypeOK
    BY DEF IInv
<1> QED
    BY <1>1, Invariance, PTL

\* While the device is available every state stands for the data of its entity,
\* after any order of frames, lost devices, expiries and late additions
\* (sensor.py:713, sensor.py:722).
THEOREM StatesStayWithData == Spec => []StatesFollowData
<1>1. IInv => StatesFollowData
    BY DEF IInv, ShownInv, StatesFollowData, Added
<1> QED
    BY <1>1, Invariance, PTL

\* Nothing is shown longer than the freshness limit and one period of the timer
\* (__init__.py:168).
THEOREM ExpiredDataIsWithdrawn == Spec => []ExpiredDataIsNotShown
<1>1. IInv => ExpiredDataIsNotShown
  <2> SUFFICES ASSUME IInv, sinceSuccess >= Fresh + CheckPeriod, NEW k \in Added
               PROVE  written[k] = Unavailable
      BY DEF ExpiredDataIsNotShown
  <2>1. sinceSuccess \in Nat /\ sinceCheck \in 0..CheckPeriod
      BY IntervalAssumption DEF IInv, TypeOK, Ages
  <2>2. ~lastAvailable
      BY <2>1, PeriodAssumption DEF IInv, TimerInv
  <2> QED
      BY <2>2 DEF IInv, ShownInv, Added
<1> QED
    BY <1>1, Invariance, PTL

\* Alarms and modes of the last valid frame are in the state machine, through
\* throttle, processor and entity (__init__.py:119).
THEOREM AlarmsArrive == Spec => []AlarmsReachTheStateMachine
<1>1. IInv => AlarmsReachTheStateMachine
  <2> SUFFICES ASSUME IInv, Available, NEW k \in (Added \cap Carried) \ SlowKey,
                      StateLike(frame[k])
               PROVE  written[k] = StateOf(k, frame, TRUE)
      BY DEF AlarmsReachTheStateMachine
  <2>1. frame \in Frame /\ frame \in FrameValues
    <3>1. sinceSuccess \in Nat /\ sinceSuccess < Fresh
        BY IntervalAssumption DEF IInv, TypeOK, Ages, Available
    <3>2. frame # NoFrame
        BY <3>1, PeriodAssumption DEF IInv, FrameInv
    <3> QED
        BY <3>2, FrameAssumption DEF IInv, TypeOK
  <2>2. entityData[k] = frame[k]
      BY <2>1, FrameAssumption DEF IInv, FrameInv
  <2>3. k \in Key /\ frame[k] \in Label \cup {None}
    <3>1. k \in Key
        BY DEF Added
    <3> QED
        BY <2>1, <3>1 DEF StateLike, FrameValues, Value, None
  <2>4. StateOf(k, frame, TRUE) \notin Int
    <3>1. frame[k] \notin Number
        BY <2>3, ValueAssumption DEF None
    <3> QED
        BY <2>3, <3>1, NumberAssumption, StateAssumption DEF StateOf, NativeValue
  <2>5. StandsFor(written[k], k, frame)
    <3>1. StandsFor(written[k], k, entityData)
        BY <2>3 DEF IInv, ShownInv
    <3> QED
        BY <2>2, <3>1, SameValueSameState
  <2> QED
      BY <2>4, <2>5 DEF StandsFor
<1> QED
    BY <1>1, Invariance, PTL

\* The frame that ends an expiry is shown whole: its slow keys are released and
\* every entity stands for its value (README.md:45, __init__.py:124).
THEOREM RecoveryIsWhole == Spec => ExpiryEndsWithWholeFrame
<1> DEFINE Whole ==
        sinceSuccess >= Fresh /\ sinceSuccess' = 0 =>
            \A k \in Key : (frame'[k] # Absent =>
                /\ entityData'[k] = frame'[k]
                /\ k \in Added => StandsFor(written'[k], k, frame'))
<1>1. IInv /\ IInv' /\ [Next]_vars => Whole
  <2> SUFFICES ASSUME IInv, IInv', [Next]_vars, sinceSuccess >= Fresh, sinceSuccess' = 0,
                      NEW k \in Key, frame'[k] # Absent
               PROVE  /\ entityData'[k] = frame'[k]
                      /\ k \in Added => StandsFor(written'[k], k, frame')
      OBVIOUS
  <2>1. sinceSuccess \in Ages /\ sinceSuccess \in Nat /\ Fresh \in Nat \ {0}
      BY IntervalAssumption, PeriodAssumption DEF IInv, TypeOK, Ages
  <2>2. PICK f \in Frame : ReceiveFrame(f)
    <3>1. sinceSuccess' # sinceSuccess
        BY <2>1
    <3>2. ~Clock
        BY <2>1, OlderType DEF Clock, Ages
    <3> QED
        BY <3>1, <3>2
        DEF Next, vars, coordinatorVars, ReceiveInvalid, BleUnavailable, CheckFreshness, AddEntity
  <2>3. Send(f, TRUE) /\ ProcessUpdate(Merge(entityData, Forwarded(f, sinceSuccess >= Fresh)))
      BY <2>2, ReceiveFrameCases DEF Suppress, Due, Send, Forwarded, SlowKeyDue
  <2>4. entityData'[k] = frame'[k]
    <3>1. frame' = f /\ entityData' = Merge(entityData, Forwarded(f, sinceSuccess >= Fresh))
        BY <2>2, <2>3, ReceiveFrameCases DEF ProcessUpdate
    <3> QED
        BY <3>1 DEF Merge, Forwarded, SlowKeyDue
  <2>5. ASSUME k \in Added PROVE StandsFor(written'[k], k, frame')
    <3>1. Available' /\ k \in Added'
      <4>1. bleAvailable' = TRUE
          BY <2>2, ReceiveFrameCases
      <4>2. k \in Added'
        <5>1. Merge(entityData, Forwarded(f, sinceSuccess >= Fresh)) \in FrameValues
            BY FrameAssumption, ForwardedType, MergeType DEF IInv, TypeOK
        <5> QED
            BY <2>3, <2>5, <5>1, ProcessUpdateStep DEF IInv
      <4> QED
          BY <2>1, <4>1, <4>2 DEF Available
    <3>2. StandsFor(written'[k], k, entityData')
        BY <3>1 DEF IInv, ShownInv
    <3> QED
        BY <2>4, <3>2, SameValueSameState
  <2> QED
      BY <2>4, <2>5
<1> QED
    BY <1>1, Invariance, PTL DEF Spec, ExpiryEndsWithWholeFrame

\* The last frame came less than a window after the last one that was forwarded.
LagInv == frame # NoFrame => sinceSent < Window + sinceSuccess

LEMMA LagStep == IInv /\ LagInv /\ [Next]_vars => LagInv'
<1> SUFFICES ASSUME IInv, LagInv, [Next]_vars, frame' # NoFrame
             PROVE  sinceSent' < Window + sinceSuccess'
    BY DEF LagInv
<1>1. TypeOK /\ entityData \in FrameValues
    BY DEF IInv, TypeOK
<1>2. sinceSent \in 0..Cap /\ sinceSuccess \in 0..Cap /\ Cap \in Nat /\ Window \in Nat \ {0}
    BY <1>1, IntervalAssumption DEF TypeOK, ThrottleTypeOK, Ages
<1>3. ASSUME NEW f \in Frame, ReceiveFrame(f) PROVE sinceSent' < Window + sinceSuccess'
  <2> DEFINE recovery == sinceSuccess >= Fresh
  <2> sinceSuccess' = 0
      BY <1>3, ReceiveFrameCases
  <2>1. CASE Send(f, recovery)
      BY <1>2, <2>1 DEF Send
  <2>2. CASE Suppress(f, recovery)
    <3>1. sinceSent' = sinceSent /\ ~(sinceSent >= Window)
        BY <2>2 DEF Suppress, Due, throttleVars
    <3> QED
        BY <1>2, <3>1
  <2> QED
      BY <1>3, <2>1, <2>2, ReceiveFrameCases
<1>4. CASE Clock
    BY <1>2, <1>4 DEF LagInv, Clock, entityVars, ThrottleElapse, Older
<1>5. CASE UNCHANGED <<sinceSent, sinceSuccess, frame>>
    BY <1>5 DEF LagInv
<1> QED
    BY <1>3, <1>4, <1>5
    DEF Next, ReceiveInvalid, BleUnavailable, CheckFreshness, AddEntity, throttleVars,
        coordinatorVars, vars

\* Only the intervals of the throttle keep a value of a valid frame from the state
\* machine (__init__.py:124).
THEOREM LagIsBounded == Spec => StatesKeepUpWithFrames
<1> DEFINE Allowed(k) ==
        \/ StandsFor(written'[k], k, frame')
        \/ /\ sinceSuccess < Fresh
           /\ \/ sinceSent < Window /\ States(frame') = States(frame)
              \/ k \in SlowKey /\ sinceSlow[k] < SlowInterval
<1>1. IInv /\ IInv' /\ LagInv /\ [Next]_vars =>
        (sinceSuccess' = 0 => \A k \in Added : (frame'[k] # Absent => Allowed(k)))
  <2> SUFFICES ASSUME IInv, IInv', LagInv, [Next]_vars, sinceSuccess' = 0,
                      NEW k \in Added, frame'[k] # Absent
               PROVE  Allowed(k)
      OBVIOUS
  <2>1. /\ TypeOK /\ entityData \in FrameValues /\ k \in Key
        /\ sinceSuccess \in Nat /\ sinceSent \in Nat
        /\ Fresh \in Nat \ {0} /\ Window \in Nat \ {0} /\ Cap \in Nat \ {0}
      BY PeriodAssumption, IntervalAssumption
      DEF IInv, TypeOK, ThrottleTypeOK, Ages, Added
  <2>2. k \in SlowKey => sinceSlow[k] \in Nat /\ SlowInterval \in Nat
      BY <2>1, IntervalAssumption DEF TypeOK, ThrottleTypeOK, Ages
  <2>3. ASSUME NEW f \in Frame, ReceiveFrame(f) PROVE Allowed(k)
    <3> DEFINE recovery == sinceSuccess >= Fresh
               data == Merge(entityData, Forwarded(f, recovery))
    <3>1. frame' = f /\ f \in FrameValues /\ f[k] # Absent /\ bleAvailable'
        BY <2>3, FrameAssumption, ReceiveFrameCases
    <3>2. CASE Send(f, recovery) /\ ProcessUpdate(data)
      <4>1. CASE SlowKeyDue(k, recovery)
        <5>1. entityData'[k] = f[k]
            BY <2>1, <3>1, <3>2, <4>1 DEF ProcessUpdate, Merge, Forwarded
        <5>2. k \in Added'
          <6>1. data \in FrameValues
              BY <2>1, <3>1, ForwardedType, MergeType
          <6> QED
              BY <2>1, <3>2, <6>1, ProcessUpdateStep
        <5>3. StandsFor(written'[k], k, entityData')
            BY <2>1, <3>1, <5>2 DEF IInv, ShownInv, Available
        <5> QED
            BY <3>1, <5>1, <5>3, SameValueSameState
      <4>2. CASE ~SlowKeyDue(k, recovery)
          BY <2>1, <2>2, <4>2 DEF SlowKeyDue
      <4> QED
          BY <4>1, <4>2
    <3>3. CASE Suppress(f, recovery)
      <4>1. ~recovery /\ States(f) = lastStates /\ ~(sinceSent >= Window)
          BY <3>3 DEF Suppress, Due
      <4>2. lastStates = States(frame)
          BY <2>1, <4>1 DEF IInv, FrameInv
      <4> QED
          BY <2>1, <3>1, <4>1, <4>2
    <3> QED
        BY <2>3, <3>2, <3>3, ReceiveFrameCases
  <2>4. ASSUME sinceSuccess' = sinceSuccess, frame' = frame PROVE Allowed(k)
    <3>1. frame # NoFrame
        BY <2>1, <2>4 DEF IInv, FrameInv
    <3> QED
        BY <2>1, <2>4, <3>1 DEF LagInv
  <2>5. ~Clock
      BY <2>1 DEF Clock, Older
  <2> QED
      BY <2>3, <2>4, <2>5
      DEF Next, ReceiveInvalid, BleUnavailable, CheckFreshness, AddEntity, coordinatorVars, vars
<1>2. Init => LagInv
    BY DEF Init, LagInv
<1> QED
    BY <1>1, <1>2, LagStep, Invariance, PTL DEF Spec, StatesKeepUpWithFrames

\* Between the windows nothing is written, and a slow key only at its interval, from
\* the Bluetooth callback to the state machine (__init__.py:86).
THEOREM StatesArePaced == Spec => StatesAreWrittenAtTheirPace
<1> DEFINE Paced ==
        \A k \in Added :
            Available /\ Available' /\ written'[k] # written[k] =>
                /\ sinceSent >= Window \/ States(frame') # States(frame)
                /\ k \in SlowKey => sinceSlow[k] >= SlowInterval
<1>1. IInv /\ [Next]_vars => Paced
  <2> SUFFICES ASSUME IInv, [Next]_vars, NEW k \in Added, Available, Available',
                      written'[k] # written[k]
               PROVE  /\ sinceSent >= Window \/ States(frame') # States(frame)
                      /\ k \in SlowKey => sinceSlow[k] >= SlowInterval
      OBVIOUS
  <2>1. TypeOK /\ k \in Key /\ entityData \in FrameValues
      BY DEF IInv, TypeOK, Added
  <2>2. lastAvailable /\ lastAvailable \in BOOLEAN /\ ~(sinceSuccess >= Fresh)
      BY PeriodAssumption, IntervalAssumption DEF IInv, TimerInv, TypeOK, Ages, Available
  <2>3. ASSUME NEW data \in FrameValues, ProcessUpdate(data) PROVE data[k] # entityData[k]
      BY <2>1, <2>2, <2>3, UpdateReachesEntity DEF Available
  <2>4. PICK f \in Frame : ReceiveFrame(f)
    <3>1. ~ReceiveInvalid
        BY <2>1, <2>3 DEF ReceiveInvalid
    <3>2. ~BleUnavailable
        BY DEF BleUnavailable, Available
    <3>3. ASSUME CheckFreshness PROVE FALSE
      <4>1. Available = lastAvailable
          BY <2>2 DEF Available
      <4>2. UpdateEntities({}, entityData, TRUE, FALSE)
          BY <2>2, <3>3, <4>1 DEF CheckFreshness
      <4>3. {} \in SUBSET Key /\ TRUE \in BOOLEAN /\ FALSE \in BOOLEAN /\ k \notin {}
          OBVIOUS
      <4>4. written'[k] = written[k]
          BY <2>1, <4>2, <4>3, UpdateStep, Zenon
      <4> QED
          BY <4>4
    <3>4. ASSUME NEW j \in Key, AddEntity(j) PROVE FALSE
        BY <2>1, <3>4 DEF AddEntity, TypeOK
    <3>5. ~Clock /\ ~UNCHANGED vars
        BY DEF Clock, vars, entityVars
    <3> QED
        BY <3>1, <3>2, <3>3, <3>4, <3>5 DEF Next
  <2>5. f \in FrameValues /\ frame' = f
      BY <2>4, FrameAssumption DEF ReceiveFrame
  <2>6. lastStates = States(frame)
      BY <2>2 DEF IInv, FrameInv
  <2>7. /\ Send(f, FALSE)
        /\ ProcessUpdate(Merge(entityData, Forwarded(f, FALSE)))
    <3>1. /\ Send(f, sinceSuccess >= Fresh)
          /\ ProcessUpdate(Merge(entityData, Forwarded(f, sinceSuccess >= Fresh)))
        BY <2>1, <2>3, <2>4, ReceiveFrameCases
    <3>2. (sinceSuccess >= Fresh) = FALSE
        BY <2>2
    <3> QED
        BY <3>1, <3>2
  <2>8. Merge(entityData, Forwarded(f, FALSE))[k] # entityData[k]
      BY <2>1, <2>3, <2>5, <2>7, ForwardedType, MergeType
  <2>9. SlowKeyDue(k, FALSE)
      BY <2>1, <2>8 DEF Merge, Forwarded
  <2> QED
      BY <2>5, <2>6, <2>7, <2>9 DEF Send, Due, SlowKeyDue
<1> QED
    BY <1>1, Invariance, PTL DEF Spec, StatesAreWrittenAtTheirPace

--------------------------------------------------------------------------------
(* Every key has an entity of its own                                      *)

\* What the entity of key k reads in the data of all keys.
Reading(k, data) == IF data[k] = Absent THEN None ELSE data[k]

\* Both modules round, compare and show a value alike.
LEMMA EntityReads ==
    ASSUME NEW data \in FrameValues, NEW k \in Key, NEW available
    PROVE  /\ Reading(k, data) \in Value
           /\ Entity(k)!Numeric(Reading(k, data)) = Numeric(k, data)
           /\ Entity(k)!StateOf(Reading(k, data), available) = StateOf(k, data, available)
           /\ Entity(k)!InBand(Reading(k, data)) <=> InBand(k, data)
<1>1. data[k] \in Number \cup Label \cup {None, Absent}
    BY EntityValues
<1>2. /\ Reading(k, data) \in Int <=> data[k] \in Number
      /\ Reading(k, data) # None => Reading(k, data) = data[k] /\ data[k] \notin {Absent, None}
      /\ Reading(k, data) = None => data[k] \in {Absent, None}
    BY <1>1, ValueAssumption, NumberAssumption DEF Reading, None
<1>3. Reading(k, data) \in Value
    BY <1>1 DEF Reading, Value, None
<1>4. Reading(k, data) # None => Entity(k)!NativeValue(Reading(k, data)) = NativeValue(k, data)
    BY <1>2 DEF NativeValue, Entity!NativeValue, Round, Entity!Round
<1>5. Entity(k)!Numeric(Reading(k, data)) = Numeric(k, data)
    BY <1>2, <1>4, NumberAssumption DEF Numeric, Entity!Numeric, None
<1>6. Entity(k)!StateOf(Reading(k, data), available) = StateOf(k, data, available)
    BY <1>2, <1>4 DEF StateOf, Entity!StateOf
<1>7. Entity(k)!InBand(Reading(k, data)) <=> InBand(k, data)
    BY <1>5 DEF InBand, Entity!InBand, Distance, Entity!Distance
<1> QED
    BY <1>3, <1>5, <1>6, <1>7

\* The one loop over the entities calls each of them, or not, as if it were alone.
LEMMA UpdateIsHandle ==
    ASSUME TypeOK, NEW touched \in SUBSET Key, NEW data \in FrameValues,
           NEW available \in BOOLEAN, NEW flush \in BOOLEAN,
           UpdateEntities(touched, data, available, flush), NEW k \in Key
    PROVE  /\ flush \/ k \in touched =>
                  Entity(k)!Handle(Reading(k, data), available, flush)
           /\ ~flush /\ k \notin touched => UNCHANGED <<published[k], written[k]>>
<1>1. /\ k \in Added /\ flush =>
            published'[k] = None /\ written'[k] = StateOf(k, data, available)
      /\ k \in Added /\ ~flush /\ k \in touched /\ ~InBand(k, data) =>
            /\ published'[k] = Numeric(k, data)
            /\ written'[k] = StateOf(k, data, available)
      /\ k \notin Added \/ (~flush /\ (k \notin touched \/ InBand(k, data))) =>
            published'[k] = published[k] /\ written'[k] = written[k]
    BY UpdateStep
<1>2. /\ Entity(k)!Numeric(Reading(k, data)) = Numeric(k, data)
      /\ Entity(k)!StateOf(Reading(k, data), available) = StateOf(k, data, available)
      /\ Entity(k)!InBand(Reading(k, data)) <=> InBand(k, data)
    BY EntityReads
<1>3. k \in Added <=> written[k] # NoEntity
    BY DEF Added
<1> QED
    BY <1>1, <1>2, <1>3 DEF Entity!Handle, Entity!stateVars

\* The processor's update is, for each entity, data it receives, an advertisement
\* that brings nothing, or nothing at all.
LEMMA ProcessUpdateIsEntityStep ==
    ASSUME IInv, NEW data \in FrameValues, ProcessUpdate(data), bleAvailable' = TRUE,
           sinceSuccess' < Fresh \/ (sinceSuccess' = sinceSuccess /\ data = entityData),
           NEW k \in Key
    PROVE  [Entity(k)!EntityNext]_(Entity(k)!entityVars)
<1> DEFINE available == sinceSuccess' < Fresh
           touched == IF Available THEN {j \in Key : data[j] # entityData[j]} ELSE Key
           flush == available # lastAvailable
<1>1. /\ entityData' = data
      /\ lastAvailable' = available
      /\ UpdateEntities(touched, data, available, flush)
    BY DEF ProcessUpdate
<1>2. /\ touched \in SUBSET Key /\ available \in BOOLEAN /\ flush \in BOOLEAN
      /\ TypeOK /\ lastAvailable \in BOOLEAN
    BY DEF IInv, TypeOK
<1>3. Available' = available
    BY DEF Available
<1>4. Held(k)' = Reading(k, data) /\ Held(k) = Reading(k, entityData)
    BY <1>1 DEF Held, Reading
<1>5. /\ k \notin touched => Available /\ data[k] = entityData[k]
      /\ ~Available => k \in touched
    OBVIOUS
<1>6. /\ Available => lastAvailable
      /\ ~available => ~Available /\ data = entityData
    BY DEF IInv, TimerInv, Available
<1>7. /\ flush \/ k \in touched => Entity(k)!Handle(Reading(k, data), available, flush)
      /\ ~flush /\ k \notin touched => UNCHANGED <<published[k], written[k]>>
  <2> HIDE DEF available, touched, flush
  <2> QED
      BY <1>1, <1>2, UpdateIsHandle, Zenon
<1>8. /\ available => flush = ~lastAvailable
      /\ ~available => flush = lastAvailable
    BY <1>2
<1> HIDE DEF available, touched, flush
<1>9. CASE available /\ (flush \/ k \in touched)
  <2>1. available = TRUE
      BY <1>2, <1>9
  <2>2. Entity(k)!Handle(Reading(k, data), TRUE, ~lastAvailable)
      BY <1>7, <1>8, <1>9, <2>1
  <2>3. Entity(k)!Receive(Reading(k, data))
      BY <1>1, <1>3, <1>4, <2>1, <2>2 DEF Entity!Receive
  <2>4. Reading(k, data) \in Value
      BY EntityReads
  <2> QED
      BY <2>3, <2>4 DEF Entity!EntityNext
<1>10. CASE available /\ ~flush /\ k \notin touched
  <2>1. UNCHANGED <<published[k], written[k]>> /\ Available /\ Reading(k, data) = Reading(k, entityData)
      BY <1>5, <1>7, <1>10 DEF Reading
  <2>2. Available' = Available
      BY <1>2, <1>3, <1>10, <2>1 DEF Available
  <2>3. lastAvailable' = lastAvailable
      BY <1>1, <1>2, <1>6, <1>10, <2>1
  <2> QED
      BY <1>4, <2>1, <2>2, <2>3 DEF Entity!entityVars, Entity!stateVars
<1>11. CASE ~available
  <2>1. available = FALSE /\ ~Available /\ data = entityData
      BY <1>2, <1>6, <1>11
  <2>2. Available' = Available
      BY <1>3, <2>1 DEF Available
  <2>3. Entity(k)!Handle(Reading(k, entityData), FALSE, lastAvailable)
      BY <1>5, <1>7, <1>8, <1>11, <2>1
  <2>4. Entity(k)!ReceiveNothing
      BY <1>1, <1>4, <2>1, <2>2, <2>3 DEF Entity!ReceiveNothing
  <2> QED
      BY <2>4 DEF Entity!EntityNext
<1> QED
    BY <1>9, <1>10, <1>11

\* Each step of the device is one step of every entity, or none.
LEMMA NextIsEntityStep ==
    ASSUME IInv, [Next]_vars, NEW k \in Key
    PROVE  [Entity(k)!EntityNext]_(Entity(k)!entityVars)
<1> DEFINE Goal == [Entity(k)!EntityNext]_(Entity(k)!entityVars)
<1>1. TypeOK /\ entityData \in FrameValues /\ lastAvailable \in BOOLEAN /\ Available \in BOOLEAN
    BY DEF IInv, TypeOK, Available
<1>2. Held(k) = Reading(k, entityData)
    BY DEF Held, Reading
<1>3. {} \in SUBSET Key /\ k \notin {} /\ TRUE \in BOOLEAN /\ FALSE \in BOOLEAN
    OBVIOUS
<1>4. ASSUME NEW f \in Frame, ReceiveFrame(f) PROVE Goal
  <2>1. bleAvailable' = TRUE /\ sinceSuccess' < Fresh
      BY <1>4, PeriodAssumption DEF ReceiveFrame
  <2>2. PICK data \in FrameValues : ProcessUpdate(data)
    <3>1. Merge(entityData, Forwarded(f, sinceSuccess >= Fresh)) \in FrameValues
        BY <1>1, FrameAssumption, ForwardedType, MergeType
    <3> QED
        BY <1>1, <1>4, <3>1, ReceiveFrameCases
  <2> QED
      BY <2>1, <2>2, ProcessUpdateIsEntityStep
<1>5. CASE ReceiveInvalid
    BY <1>1, <1>5, ProcessUpdateIsEntityStep DEF ReceiveInvalid
<1>6. CASE BleUnavailable
  <2>1. Entity(k)!Handle(Reading(k, entityData), FALSE, TRUE)
      BY <1>1, <1>3, <1>6, UpdateIsHandle DEF BleUnavailable
  <2>2. Available' = FALSE /\ UNCHANGED <<lastAvailable, Held(k)>>
      BY <1>6 DEF BleUnavailable, Available, Held
  <2> QED
      BY <1>2, <2>1, <2>2 DEF Entity!EntityNext, Entity!BleUnavailable
<1>7. CASE CheckFreshness
  <2>1. /\ lastAvailable' = Available
        /\ UpdateEntities({}, entityData, Available, Available # lastAvailable)
      BY <1>7 DEF CheckFreshness
  <2>2. UNCHANGED <<Available, Held(k)>>
      BY <1>7 DEF CheckFreshness, Available, Held
  <2>3. (Available # lastAvailable) \in BOOLEAN
      OBVIOUS
  <2>4. /\ Available # lastAvailable =>
               Entity(k)!Handle(Reading(k, entityData), Available, Available # lastAvailable)
        /\ Available = lastAvailable => UNCHANGED <<published[k], written[k]>>
      BY <1>1, <1>3, <2>1, <2>3, UpdateIsHandle
  <2>5. Available # lastAvailable => (Available # lastAvailable) = TRUE
      OBVIOUS
  <2> QED
      BY <1>2, <2>1, <2>2, <2>4, <2>5
      DEF Entity!EntityNext, Entity!CheckFreshness, Entity!stateVars
<1>8. ASSUME NEW j \in Key, AddEntity(j) PROVE Goal
  <2>1. /\ j \notin Added
        /\ written' = [written EXCEPT ![j] = StateOf(j, entityData, Available)]
        /\ UNCHANGED <<lastAvailable, Available, Held(k), published>>
      BY <1>8 DEF AddEntity, coordinatorVars, Available, Held
  <2>2. CASE j = k
    <3>1. written[k] = NoEntity /\ written'[k] = StateOf(k, entityData, Available)
        BY <1>1, <2>1, <2>2 DEF Added, TypeOK
    <3>2. Entity(k)!StateOf(Held(k), Available) = StateOf(k, entityData, Available)
        BY <1>1, <1>2, EntityReads
    <3> QED
        BY <2>1, <3>1, <3>2 DEF Entity!EntityNext, Entity!Add
  <2>3. CASE j # k
    <3>1. written'[k] = written[k]
        BY <1>1, <2>1, <2>3 DEF TypeOK
    <3> QED
        BY <2>1, <3>1 DEF Entity!entityVars, Entity!stateVars
  <2> QED
      BY <2>2, <2>3
<1>9. CASE Clock
  <2>1. UNCHANGED <<lastAvailable, Held(k), published[k], written[k], bleAvailable>>
      BY <1>9 DEF Clock, entityVars, Held
  <2>2. Available' => Available
    <3>1. sinceSuccess \in Ages /\ sinceSuccess' = Older(sinceSuccess)
        BY <1>1, <1>9 DEF Clock, TypeOK
    <3>2. sinceSuccess <= sinceSuccess' /\ sinceSuccess \in Nat /\ sinceSuccess' \in Nat
        BY <3>1, OlderType, IntervalAssumption DEF Ages
    <3> QED
        BY <2>1, <3>2, PeriodAssumption DEF Available
  <2>3. CASE Available /\ ~Available'
    <3>1. Available' = FALSE
        BY <2>3 DEF Available
    <3> QED
        BY <2>1, <2>3, <3>1 DEF Entity!EntityNext, Entity!Expire, Entity!stateVars
  <2>4. CASE Available' <=> Available
    <3>1. Available' = Available
        BY <2>4 DEF Available
    <3> QED
        BY <2>1, <3>1 DEF Entity!entityVars, Entity!stateVars
  <2> QED
      BY <2>2, <2>3, <2>4
<1>10. CASE UNCHANGED vars
  <2>1. UNCHANGED <<lastAvailable, Available, Held(k), published[k], written[k]>>
      BY <1>10 DEF vars, coordinatorVars, entityVars, Available, Held
  <2> QED
      BY <2>1 DEF Entity!entityVars, Entity!stateVars
<1> QED
    BY <1>4, <1>5, <1>6, <1>7, <1>8, <1>9, <1>10 DEF Next

\* One coordinator with its list of calls implements an entity per key, each of which
\* behaves as SensorEntity says (__init__.py:153, sensor.py:705).
THEOREM EntitiesAreIndependent == Spec => EntitiesSeeOnlyTheirCalls
<1>1. Init => \A k \in Key : Entity(k)!EntityInit
    BY DEF Init, Entity!EntityInit, Available, Held, ThrottleInit
<1>2. IInv /\ [Next]_vars =>
          [\A k \in Key : [Entity(k)!EntityNext]_(Entity(k)!entityVars)]_vars
    BY NextIsEntityStep
<1> QED
    BY <1>1, <1>2, Invariance, PTL DEF Spec, EntitiesSeeOnlyTheirCalls

\* The same as an implementation of the specification of one entity.
THEOREM ImplementsSensorEntity == ASSUME NEW k \in Key PROVE Spec => Entity(k)!EntitySpec
<1>1. Init => Entity(k)!EntityInit
    BY DEF Init, Entity!EntityInit, Available, Held, ThrottleInit
<1>2. IInv /\ [Next]_vars => [Entity(k)!EntityNext]_(Entity(k)!entityVars)
    BY NextIsEntityStep
<1> QED
    BY <1>1, <1>2, Invariance, PTL DEF Spec, Entity!EntitySpec
================================================================================
