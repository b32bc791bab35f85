------------------------- MODULE EnergyCheckpointProofs -------------------------
(***************************************************************************)
(* The safety properties of EnergyCheckpoint for every set of powers,      *)
(* every gap and every bound.                                              *)
(*                                                                         *)
(* NeverInflated is not inductive: the interval still open and every copy  *)
(* of the totals on its way to the file have to stay within the same       *)
(* budget (InflationInv).  The restart properties rest on one fact about   *)
(* the stores, that the newest copy on its way to the file IS saved_energy *)
(* (SavedInv).  That the life cycle implements the ideal meter of          *)
(* MeteredEnergy needs no invariant but the types.                         *)
(***************************************************************************)
EXTENDS EnergyCheckpoint, TLAPS

--------------------------------------------------------------------------------
(* The inductive invariants                                                *)

\* The counters belong to the entry's present set-up and not to one gone by.
Loaded == Listening \/ phase = "starting"

\* Ticks of the interval that the next frame may still credit.
OpenTicks == IF sample # NoSample /\ age <= MaxGap THEN age ELSE 0

WithinBudget(copy) == copy.charged + copy.discharged <= MaxPower * observed

CopiesWithinBudget ==
    /\ disk # NoFile => WithinBudget(disk)
    /\ \A s \in Slot : pending[s] # Nothing => WithinBudget(pending[s])
    /\ \A s \in Slot : writing[s] # Nothing => WithinBudget(writing[s])

InflationInv ==
    /\ NeverInflated
    /\ Loaded => charged + discharged + MaxPower * OpenTicks <= MaxPower * observed
    /\ phase = "starting" => sample = NoSample
    /\ CopiesWithinBudget

\* What the file will hold once the current store has nothing left to do.
Newest ==
    IF pending["current"] # Nothing THEN pending["current"]
    ELSE IF writing["current"] # Nothing THEN writing["current"]
    ELSE Accepted(disk)

Intact == ~raced /\ faults = 0

SavedInv ==
    /\ ~raced => Idle("superseded")
    /\ ~damaged => faults = 0
    /\ ours => phase = "flushing"
    /\ Loaded => Covers(Totals, saved)
    /\ Intact /\ (phase = "off" => ~damaged) => Newest = saved
    /\ Intact /\ Loaded => Covers(saved, ticked)
    /\ ~raced /\ ~damaged => Covers(Totals, shown)
    /\ ~raced /\ ~damaged /\ phase \notin {"running", "platforms"} => Covers(saved, shown)

\* Without a race the copies of the current store are in the order of their age.
OrderInv ==
    ~raced =>
      LET p == pending["current"]
          w == writing["current"]
          d == Accepted(disk)
      IN  /\ w # Nothing => Covers(w, d)
          /\ p # Nothing => Covers(p, d)
          /\ p # Nothing /\ w # Nothing => Covers(p, w)
          /\ Loaded => /\ Covers(Totals, d)
                       /\ p # Nothing => Covers(Totals, p)
                       /\ w # Nothing => Covers(Totals, w)

--------------------------------------------------------------------------------
(* Types                                                                   *)

\* The credit of a frame is an integer and its two halves are natural.
LEMMA HeldType ==
    ASSUME AccumulatorTypeOK
    PROVE  Held \in Int /\ Positive(Held) \in Nat /\ Positive(-Held) \in Nat
<1>1. Held \in Int
    BY PowerAssumption DEF AccumulatorTypeOK, Held
<1> QED
    BY <1>1 DEF Positive

\* What restore() accepts is a pair of natural numbers.
LEMMA AcceptedType ==
    ASSUME NEW payload \in Checkpoint \cup {NoFile}
    PROVE  Accepted(payload) \in Checkpoint
BY DEF Accepted, NoTotals, Checkpoint

\* The initial state is well typed.
LEMMA InitType == Init => TypeOK
<1> SUFFICES ASSUME Init PROVE TypeOK
    OBVIOUS
<1>1. AccumulatorTypeOK
    BY MaxGapAssumption DEF Init, AccumulatorInit, AccumulatorTypeOK
<1>2. NoTotals \in Checkpoint
    BY DEF NoTotals, Checkpoint
<1> QED
    BY <1>1, <1>2 DEF Init, TypeOK, Phase

\* Every step keeps the types.
LEMMA NextType == TypeOK /\ [Next]_vars => TypeOK'
<1> SUFFICES ASSUME TypeOK, [Next]_vars PROVE TypeOK'
    OBVIOUS
<1> USE DEF TypeOK, AccumulatorTypeOK, Phase
<1>t. Totals \in Checkpoint
    BY DEF Totals, Checkpoint
<1>a. Accepted(disk) \in Checkpoint
    BY AcceptedType
<1>1. ASSUME NEW p \in Power, ReceivePower(p) PROVE TypeOK'
    BY <1>1, HeldType, MaxGapAssumption
       DEF ReceivePower, Measure, storeVars, boundVars, historyVars
<1>2. CASE ReceiveNoPower
    BY <1>2, MaxGapAssumption DEF ReceiveNoPower, Forget, storeVars, boundVars, historyVars
<1>3. CASE Publish
    BY <1>3, <1>t DEF Publish, accumulatorVars, storeVars, boundVars
<1>4. CASE Clock
    BY <1>4, MaxGapAssumption DEF Clock, Elapse, storeVars
<1>5. CASE SaveTick
    BY <1>5, <1>t DEF SaveTick, accumulatorVars, storeVars, boundVars
<1>6. ASSUME NEW s \in Slot, DelayedWrite(s) PROVE TypeOK'
    BY <1>6 DEF DelayedWrite, accumulatorVars, boundVars, historyVars
<1>7. ASSUME NEW s \in Slot, EndWrite(s) PROVE TypeOK'
    BY <1>7 DEF EndWrite, Returned, accumulatorVars, boundVars, historyVars
<1>8. ASSUME NEW s \in Slot, FailWrite(s) PROVE TypeOK'
    BY <1>8 DEF FailWrite, Returned, accumulatorVars
<1>9. ASSUME NEW s \in Slot, FinalWrite(s) PROVE TypeOK'
    BY <1>9 DEF FinalWrite, accumulatorVars, boundVars, historyVars
<1>10. CASE BeginUnload \/ UnloadRefused \/ Start \/ SetUpFails \/ StopUnloaded
    BY <1>10 DEF BeginUnload, UnloadRefused, Start, SetUpFails, StopUnloaded,
                 accumulatorVars, storeVars, boundVars, historyVars
<1>11. CASE PlatformsUnloaded
    BY <1>11, <1>t DEF PlatformsUnloaded, accumulatorVars, boundVars, historyVars
<1>12. CASE UnloadWrites
    BY <1>12 DEF UnloadWrites, accumulatorVars, boundVars, historyVars
<1>13. CASE SetUp
    BY <1>13, <1>a, MaxGapAssumption DEF SetUp, Restore, Slot, Checkpoint
<1>14. CASE Stop
    BY <1>14, <1>t DEF Stop, accumulatorVars, boundVars, historyVars
<1>15. CASE Exit
    BY <1>15 DEF Exit, Discard, accumulatorVars, boundVars, historyVars
<1>16. CASE Crash
    BY <1>16 DEF Crash, Discard, accumulatorVars, boundVars
<1>17. CASE UNCHANGED vars
    BY <1>17 DEF vars, accumulatorVars, storeVars, boundVars, historyVars
<1> QED
    BY <1>1, <1>2, <1>3, <1>4, <1>5, <1>6, <1>7, <1>8, <1>9, <1>10, <1>11, <1>12,
       <1>13, <1>14, <1>15, <1>16, <1>17 DEF Next

\* Every reachable state is well typed, whatever the powers, gaps and bounds.
THEOREM TypeCorrect == Spec => []TypeOK
BY InitType, NextType, PTL DEF Spec

--------------------------------------------------------------------------------
(* Energy is never invented                                                *)

\* One frame credits at most the strongest power for the ticks still open.
LEMMA HeldBound ==
    ASSUME AccumulatorTypeOK
    PROVE  Positive(Held) + Positive(-Held) <= MaxPower * OpenTicks
<1>1. CASE sample # NoSample /\ 0 < age /\ age <= MaxGap
  <2>1. Held = sample * age /\ OpenTicks = age
      BY <1>1 DEF Held, OpenTicks
  <2>2. sample \in Int /\ -MaxPower <= sample /\ sample <= MaxPower /\ MaxPower \in Nat
      BY <1>1, PowerAssumption, MaxPowerAssumption DEF AccumulatorTypeOK
  <2>3. age \in Nat
      BY MaxGapAssumption DEF AccumulatorTypeOK
  <2>4. \A x, y, a \in Int : x <= y /\ a >= 0 => x * a <= y * a
      OBVIOUS
  <2>5. sample * age <= MaxPower * age
      BY <2>2, <2>3, <2>4
  <2>6. (-sample) * age <= MaxPower * age
      BY <2>2, <2>3, <2>4
  <2>7. (-sample) * age = -(sample * age)
      BY <2>2, <2>3
  <2>8. 0 <= MaxPower * age
      BY <2>2, <2>3
  <2>9. sample * age \in Int /\ MaxPower * age \in Int
      BY <2>2, <2>3
  <2> QED
      BY <2>1, <2>5, <2>6, <2>7, <2>8, <2>9 DEF Positive
<1>2. CASE ~(sample # NoSample /\ 0 < age /\ age <= MaxGap)
  <2>1. Held = 0
      BY <1>2 DEF Held
  <2>2. OpenTicks \in Nat
      BY MaxGapAssumption DEF OpenTicks, AccumulatorTypeOK
  <2> QED
      BY <2>1, <2>2, MaxPowerAssumption DEF Positive
<1> QED
    BY <1>1, <1>2

\* The budget MaxPower * observed only grows, one observed tick at a time.
LEMMA BudgetGrows ==
    ASSUME NEW n \in Nat
    PROVE  /\ MaxPower * n \in Nat
           /\ MaxPower * (n + 1) = MaxPower * n + MaxPower
BY MaxPowerAssumption

\* No step takes the counters or a copy of them over the budget.
LEMMA NextInflation == TypeOK /\ InflationInv /\ [Next]_vars => InflationInv'
<1> SUFFICES ASSUME TypeOK, InflationInv, [Next]_vars PROVE InflationInv'
    OBVIOUS
<1> USE MaxGapAssumption, MaxPowerAssumption, NothingAssumption
<1> USE DEF TypeOK, AccumulatorTypeOK, Checkpoint
<1>b. MaxPower * observed \in Nat
    BY BudgetGrows
<1>z. MaxPower * 0 = 0
    OBVIOUS
<1>o. WithinBudget(NoTotals) /\ WithinBudget(Totals) /\ WithinBudget(Accepted(disk))
    BY <1>b DEF WithinBudget, NoTotals, Totals, Accepted, InflationInv, NeverInflated,
                CopiesWithinBudget
<1>h. Held \in Int /\ Positive(Held) \in Nat /\ Positive(-Held) \in Nat
    BY HeldType
<1>1. ASSUME NEW p \in Power, ReceivePower(p) PROVE InflationInv'
  <2>1. charged' + discharged' = charged + discharged + (Positive(Held) + Positive(-Held))
      BY <1>1, <1>h DEF ReceivePower, Measure
  <2>2. charged' + discharged' <= MaxPower * observed
    <3>1. charged + discharged + MaxPower * OpenTicks <= MaxPower * observed
        BY <1>1 DEF ReceivePower, InflationInv, Loaded
    <3>2. OpenTicks \in Nat
        BY DEF OpenTicks
    <3>3. MaxPower * OpenTicks \in Nat
        BY <3>2, BudgetGrows
    <3> QED
        BY <2>1, <1>h, <1>b, <3>1, <3>3, HeldBound
  <2>3. OpenTicks' = 0
      BY <1>1 DEF ReceivePower, Measure, OpenTicks
  <2>4. observed' = observed /\ phase' = phase
      BY <1>1 DEF ReceivePower, historyVars
  <2>5. CopiesWithinBudget'
      BY <1>1 DEF ReceivePower, storeVars, historyVars, InflationInv, CopiesWithinBudget, WithinBudget
  <2>6. charged' \in Nat /\ discharged' \in Nat
      BY <1>1, <1>h DEF ReceivePower, Measure
  <2>7. MaxPower * OpenTicks' = 0
      BY <2>3, <1>z
  <2>8. NeverInflated'
      BY <2>2, <2>4 DEF NeverInflated
  <2>9. charged' + discharged' + MaxPower * OpenTicks' <= MaxPower * observed'
      BY <2>6, <2>7, <2>8 DEF NeverInflated
  <2> QED
      BY <1>1, <2>4, <2>5, <2>8, <2>9 DEF ReceivePower, InflationInv, Listening
<1>2. CASE ReceiveNoPower
  <2>1. OpenTicks' = 0
      BY <1>2 DEF ReceiveNoPower, Forget, OpenTicks
  <2>2. UNCHANGED <<charged, discharged, observed, storeVars>>
      BY <1>2 DEF ReceiveNoPower, Forget, storeVars, historyVars
  <2>3. phase' = phase /\ sample' = NoSample
      BY <1>2 DEF ReceiveNoPower, Forget
  <2> QED
      BY <2>1, <2>2, <2>3, <1>z
      DEF InflationInv, Loaded, Listening, NeverInflated, CopiesWithinBudget, WithinBudget, storeVars
<1>3. CASE Clock
  <2>1. UNCHANGED <<charged, discharged, phase, storeVars>>
      BY <1>3 DEF Clock, Elapse, storeVars
  <2>2. observed' \in {observed, observed + 1}
      BY <1>3 DEF Clock
  <2>g. MaxPower * (observed + 1) = MaxPower * observed + MaxPower
      BY BudgetGrows
  <2>h. \/ MaxPower * observed' = MaxPower * observed
        \/ MaxPower * observed' = MaxPower * observed + MaxPower
      BY <2>2, <2>g
  <2>3. MaxPower * observed <= MaxPower * observed'
      BY <2>h, <1>b
  <2>4. MaxPower * observed' \in Nat
      BY <2>h, <1>b
  <2>5. ASSUME Loaded
        PROVE  charged + discharged + MaxPower * OpenTicks' <= MaxPower * observed'
    <3>1. CASE sample # NoSample /\ age < MaxGap
      <4>1. OpenTicks = age /\ OpenTicks' = age + 1 /\ observed' = observed + 1
          BY <1>3, <2>5, <3>1 DEF Clock, Elapse, OpenTicks, InflationInv, Loaded
      <4>2. MaxPower * (age + 1) = MaxPower * age + MaxPower /\ MaxPower * age \in Nat
          BY BudgetGrows
      <4> QED
          BY <4>1, <4>2, <2>5, <1>b, BudgetGrows DEF InflationInv
    <3>2. CASE ~(sample # NoSample /\ age < MaxGap)
      <4>1. OpenTicks' = 0 /\ observed' = observed
          BY <1>3, <3>2 DEF Clock, Elapse, OpenTicks
      <4> QED
          BY <4>1, <1>z, <1>b DEF InflationInv, NeverInflated
    <3> QED
        BY <3>1, <3>2
  <2>6. NeverInflated' /\ CopiesWithinBudget'
      BY <2>1, <2>3, <2>4, <1>b
      DEF InflationInv, NeverInflated, CopiesWithinBudget, WithinBudget, storeVars
  <2> QED
      BY <1>3, <2>1, <2>5, <2>6 DEF Clock, Elapse, InflationInv, Loaded, Listening
<1>4. CASE SetUp
  <2>1. OpenTicks' = 0 /\ observed' = observed /\ disk' = disk
      BY <1>4 DEF SetUp, Restore, OpenTicks
  <2>2. charged' + discharged' <= MaxPower * observed
      BY <1>4, <1>o DEF SetUp, Restore, WithinBudget
  <2>3. charged' \in Nat /\ discharged' \in Nat
      BY <1>4, AcceptedType DEF SetUp, Restore
  <2>4. CopiesWithinBudget'
      BY <1>4, <2>1 DEF SetUp, InflationInv, CopiesWithinBudget, WithinBudget, Slot
  <2>5. MaxPower * OpenTicks' = 0
      BY <2>1, <1>z
  <2>6. NeverInflated'
      BY <2>1, <2>2 DEF NeverInflated
  <2>7. charged' + discharged' + MaxPower * OpenTicks' <= MaxPower * observed'
      BY <2>3, <2>5, <2>6 DEF NeverInflated
  <2>8. sample' = NoSample
      BY <1>4 DEF SetUp, Restore
  <2> QED
      BY <2>4, <2>6, <2>7, <2>8 DEF InflationInv
<1>5. ASSUME UNCHANGED <<accumulatorVars, observed>>,
             Loaded' => Loaded,
             phase' = "starting" => phase = "starting",
             CopiesWithinBudget'
      PROVE  InflationInv'
    BY <1>5 DEF InflationInv, NeverInflated, accumulatorVars, OpenTicks
<1> USE DEF Listening, Loaded
<1>6. ASSUME SaveTick \/ PlatformsUnloaded \/ Stop PROVE InflationInv'
  <2>1. UNCHANGED <<accumulatorVars, observed, disk, writing>> /\ (Loaded' => Loaded)
        /\ (phase' = "starting" => phase = "starting")
      BY <1>6 DEF SaveTick, PlatformsUnloaded, Stop, storeVars, historyVars
  <2>2. pending' \in {pending, [pending EXCEPT !["current"] = Totals]}
      BY <1>6 DEF SaveTick, PlatformsUnloaded, Stop, storeVars
  <2>3. CopiesWithinBudget'
      BY <2>1, <2>2, <1>o DEF InflationInv, CopiesWithinBudget, WithinBudget, Slot
  <2> QED
      BY <2>1, <2>3, <1>5
<1>7. ASSUME NEW s \in Slot, DelayedWrite(s) \/ FinalWrite(s) \/ UnloadWrites
      PROVE  InflationInv'
  <2>1. UNCHANGED <<accumulatorVars, observed, disk>> /\ (Loaded' => Loaded)
        /\ (phase' = "starting" => phase = "starting")
      BY <1>7 DEF DelayedWrite, FinalWrite, UnloadWrites, historyVars
  <2>2. CopiesWithinBudget'
      BY <1>7, <2>1
      DEF DelayedWrite, FinalWrite, UnloadWrites, InflationInv, CopiesWithinBudget,
          WithinBudget, Slot
  <2> QED
      BY <2>1, <2>2, <1>5
<1>8. ASSUME NEW s \in Slot, EndWrite(s) \/ FailWrite(s) PROVE InflationInv'
  <2>1. UNCHANGED <<accumulatorVars, observed>> /\ (Loaded' => Loaded)
        /\ (phase' = "starting" => phase = "starting")
      BY <1>8 DEF EndWrite, FailWrite, historyVars
  <2>2. CopiesWithinBudget'
      BY <1>8, <2>1
      DEF EndWrite, FailWrite, InflationInv, CopiesWithinBudget, WithinBudget, Slot
  <2> QED
      BY <2>1, <2>2, <1>5
<1>9. ASSUME Exit \/ Crash PROVE InflationInv'
  <2>1. UNCHANGED <<accumulatorVars, observed, disk>> /\ (Loaded' => Loaded)
        /\ (phase' = "starting" => phase = "starting")
      BY <1>9 DEF Exit, Crash, historyVars
  <2>2. CopiesWithinBudget'
      BY <1>9, <2>1
      DEF Exit, Crash, Discard, InflationInv, CopiesWithinBudget, WithinBudget, Slot
  <2> QED
      BY <2>1, <2>2, <1>5
<1>10. ASSUME Publish \/ BeginUnload \/ UnloadRefused \/ Start \/ SetUpFails \/ StopUnloaded
               \/ UNCHANGED vars
       PROVE  InflationInv'
  <2>1. UNCHANGED <<accumulatorVars, observed, storeVars>> /\ (Loaded' => Loaded)
        /\ (phase' = "starting" => phase = "starting")
      BY <1>10
      DEF Publish, BeginUnload, UnloadRefused, Start, SetUpFails, StopUnloaded, vars, historyVars
  <2>2. CopiesWithinBudget'
      BY <2>1 DEF InflationInv, CopiesWithinBudget, WithinBudget, storeVars
  <2> QED
      BY <2>1, <2>2, <1>5
<1> QED
    BY <1>1, <1>2, <1>3, <1>4, <1>6, <1>7, <1>8, <1>9, <1>10 DEF Next, Slot

\* The counters never hold more than the strongest power could have moved while
\* a usable reading was held, through every restart, crash, race and failed
\* write.
THEOREM EnergyNeverInflated == Spec => []NeverInflated
<1>1. Init => InflationInv
  <2> SUFFICES ASSUME Init PROVE InflationInv
      OBVIOUS
  <2>1. MaxPower * observed = 0 /\ OpenTicks = 0 /\ MaxPower * OpenTicks = 0
      BY MaxPowerAssumption DEF Init, AccumulatorInit, OpenTicks
  <2>2. charged = 0 /\ discharged = 0 /\ sample = NoSample
      BY DEF Init, AccumulatorInit
  <2>3. CopiesWithinBudget
      BY DEF Init, CopiesWithinBudget
  <2> QED
      BY <2>1, <2>2, <2>3 DEF InflationInv, NeverInflated
<1>2. TypeOK /\ TypeOK' /\ InflationInv /\ [Next]_vars => InflationInv'
    BY NextInflation
<1>3. InflationInv => NeverInflated
    BY DEF InflationInv
<1> QED
    BY <1>1, <1>2, <1>3, TypeCorrect, PTL DEF Spec

--------------------------------------------------------------------------------
(* Orderly restarts and checkpoints keep the totals                        *)

LEMMA CoversIsOrder ==
    ASSUME NEW a \in Checkpoint, NEW b \in Checkpoint, NEW c \in Checkpoint
    PROVE  /\ Covers(a, a)
           /\ Covers(a, b) /\ Covers(b, c) => Covers(a, c)
BY DEF Covers, Checkpoint

\* A frame only adds to the counters.
LEMMA MeasureGrows ==
    ASSUME TypeOK, NEW p \in Power, Measure(p), NEW c \in Checkpoint, Covers(Totals, c)
    PROVE  Covers(Totals', c)
<1>1. Positive(Held) \in Nat /\ Positive(-Held) \in Nat
    BY HeldType DEF TypeOK
<1>2. charged' >= charged /\ discharged' >= discharged
    BY <1>1 DEF Measure, TypeOK, AccumulatorTypeOK
<1>3. charged \in Nat /\ discharged \in Nat /\ charged' \in Nat /\ discharged' \in Nat
    BY <1>1 DEF Measure, TypeOK, AccumulatorTypeOK
<1> QED
    BY <1>2, <1>3 DEF Covers, Totals, Checkpoint

\* Every step keeps the newest copy equal to saved_energy and the order
\* shown <= saved <= counted.
LEMMA NextSaved == TypeOK /\ TypeOK' /\ SavedInv /\ [Next]_vars => SavedInv'
<1> SUFFICES ASSUME TypeOK, TypeOK', SavedInv, [Next]_vars PROVE SavedInv'
    OBVIOUS
<1> USE NothingAssumption, BoundsAssumption
<1> USE DEF TypeOK, AccumulatorTypeOK, SavedInv, Listening, Loaded, Intact, Newest, Idle
<1>t. Totals \in Checkpoint /\ Totals # Nothing
    BY DEF Totals, Checkpoint
<1>a. Accepted(disk) \in Checkpoint
    BY AcceptedType
<1>n. \A c \in Checkpoint : c # Nothing
    BY DEF Checkpoint
<1>1. ASSUME NEW p \in Power, ReceivePower(p) PROVE SavedInv'
  <2>1. UNCHANGED <<phase, saved, disk, pending, writing, ours, faults, shown, ticked,
                    damaged, raced>>
      BY <1>1 DEF ReceivePower, storeVars, boundVars, historyVars
  <2>2. \A c \in Checkpoint : Covers(Totals, c) => Covers(Totals', c)
      BY <1>1, MeasureGrows DEF ReceivePower
  <2>3. (Loaded => Covers(Totals, saved))'
      BY <2>1, <2>2
  <2>4. (~raced /\ ~damaged => Covers(Totals, shown))'
      BY <2>1, <2>2
  <2> QED
      BY <2>1, <2>3, <2>4 DEF Accepted, Covers
<1>2. CASE ReceiveNoPower
    BY <1>2 DEF ReceiveNoPower, Forget, storeVars, boundVars, historyVars, Totals, Covers, Accepted
<1>3. CASE Publish
    BY <1>3, <1>t, CoversIsOrder
    DEF Publish, accumulatorVars, storeVars, boundVars, Totals, Accepted, Covers
<1>4. CASE Clock
    BY <1>4 DEF Clock, Elapse, storeVars, Totals, Accepted, Covers
<1>5. CASE SaveTick
  <2>1. UNCHANGED <<accumulatorVars, phase, faults, damaged, raced, shown, disk, writing, ours>>
      BY <1>5 DEF SaveTick, boundVars, storeVars
  <2>2. saved' = Totals /\ ticked' = Totals
      BY <1>5 DEF SaveTick
  <2>3. Totals' = Totals
      BY <2>1 DEF Totals, accumulatorVars
  <2>4. Covers(Totals, Totals)
      BY <1>t, CoversIsOrder
  <2>5. pending' \in {pending, [pending EXCEPT !["current"] = Totals]}
      BY <1>5 DEF SaveTick, storeVars
  <2>6. pending'["superseded"] = pending["superseded"]
      BY <2>5 DEF Slot
  <2>7. Intact /\ (phase = "off" => ~damaged) => Newest' = saved'
      BY <1>5, <1>t, <2>1, <2>2 DEF SaveTick, storeVars, Slot, Accepted
  <2> QED
      BY <2>1, <2>2, <2>3, <2>4, <2>6, <2>7 DEF Covers
<1>6. ASSUME NEW s \in Slot, DelayedWrite(s) \/ FinalWrite(s) \/ UnloadWrites
      PROVE  SavedInv'
    BY <1>6
    DEF DelayedWrite, FinalWrite, UnloadWrites, accumulatorVars, boundVars, historyVars,
        Slot, Totals, Accepted, Covers
<1>7. ASSUME NEW s \in Slot, EndWrite(s) PROVE SavedInv'
  <2>1. UNCHANGED <<accumulatorVars, saved, pending, faults, shown, ticked, damaged, raced>>
      BY <1>7 DEF EndWrite, boundVars, historyVars
  <2>2. Totals' = Totals
      BY <2>1 DEF Totals, accumulatorVars
  <2>3. /\ phase' = phase \/ (phase = "flushing" /\ phase' = "down")
        /\ ours' => ours /\ phase' = phase
      BY <1>7 DEF EndWrite, Returned
  <2>4. CASE s = "current"
    <3>1. /\ disk' = writing["current"]
          /\ writing'["current"] = Nothing
          /\ writing'["superseded"] = writing["superseded"]
        BY <1>7, <2>4 DEF EndWrite, Slot
    <3>2. disk' # NoFile
        BY <3>1, <1>7, <2>4, NoFileAssumption DEF EndWrite, Checkpoint
    <3>3. Newest' = Newest
        BY <3>1, <3>2, <2>1, <1>7, <2>4 DEF EndWrite, Accepted
    <3> QED
        BY <2>1, <2>2, <2>3, <3>1, <3>3 DEF Covers
  <2>5. CASE s = "superseded"
    <3>1. raced
        BY <1>7, <2>5 DEF EndWrite
    <3> QED
        BY <2>1, <2>2, <2>3, <3>1 DEF Covers
  <2> QED
      BY <2>4, <2>5 DEF Slot
<1>8. ASSUME NEW s \in Slot, FailWrite(s) PROVE SavedInv'
  <2>1. UNCHANGED <<accumulatorVars, saved, pending, shown, ticked, raced>>
        /\ damaged' = TRUE /\ faults' # 0
      BY <1>8 DEF FailWrite
  <2>2. Totals' = Totals
      BY <2>1 DEF Totals, accumulatorVars
  <2>3. /\ phase' = phase \/ (phase = "flushing" /\ phase' = "down")
        /\ ours' => ours /\ phase' = phase
      BY <1>8 DEF FailWrite, Returned
  <2>4. ~raced => writing'["superseded"] = Nothing
      BY <1>8 DEF FailWrite, Slot
  <2> QED
      BY <2>1, <2>2, <2>3, <2>4 DEF Covers
<1>9. CASE BeginUnload \/ UnloadRefused \/ Start \/ SetUpFails
    BY <1>9
    DEF BeginUnload, UnloadRefused, Start, SetUpFails, accumulatorVars, storeVars, boundVars, historyVars,
        Totals, Accepted, Covers
<1>10. CASE StopUnloaded
    BY <1>10
    DEF StopUnloaded, accumulatorVars, storeVars, boundVars, historyVars,
        Totals, Accepted, Covers
<1>11. CASE PlatformsUnloaded \/ Stop
  <2>1. UNCHANGED <<accumulatorVars, faults, damaged, raced, shown, ticked, disk, writing>>
      BY <1>11 DEF PlatformsUnloaded, Stop, boundVars, historyVars
  <2>2. saved' = Totals /\ Listening /\ phase' \in {"saving", "down", "stopping"}
        /\ ~ours'
      BY <1>11 DEF PlatformsUnloaded, Stop
  <2>3. Totals' = Totals
      BY <2>1 DEF Totals, accumulatorVars
  <2>4. Covers(Totals, Totals)
      BY <1>t, CoversIsOrder
  <2>5. pending'["superseded"] = pending["superseded"]
      BY <1>11 DEF PlatformsUnloaded, Stop, Slot
  <2>6. Intact => Newest' = saved'
      BY <1>11, <1>t, <2>1, <2>2 DEF PlatformsUnloaded, Stop, Slot, Accepted
  <2>7. Listening /\ Intact => Covers(Totals, ticked)
      BY <1>t, CoversIsOrder
  <2> QED
      BY <2>1, <2>2, <2>3, <2>4, <2>5, <2>6, <2>7 DEF Covers
<1>12. CASE SetUp
  <2>1. /\ UNCHANGED <<disk, faults, damaged, shown, ours>>
        /\ phase' = "starting" /\ phase \in {"down", "off"}
      BY <1>12 DEF SetUp
  <2>2. Totals' = Accepted(disk) /\ saved' = Accepted(disk) /\ ticked' = Accepted(disk)
      BY <1>12, <1>a DEF SetUp, Restore, Totals, Checkpoint
  <2>3. Covers(Accepted(disk), Accepted(disk))
      BY <1>a, CoversIsOrder
  <2>4. ~raced' => ~raced /\ Idle("current")
      BY <1>12 DEF SetUp
  <2>5. pending'["current"] = Nothing /\ writing'["current"] = Nothing
      BY <1>12 DEF SetUp, Slot
  <2>6. /\ pending'["superseded"] = pending["current"]
        /\ writing'["superseded"] = writing["current"]
      BY <1>12 DEF SetUp, Slot
  <2>7. ~raced' /\ ~damaged => Covers(Accepted(disk), shown)
      BY <1>12, <2>4 DEF SetUp
  <2> QED
      BY <2>1, <2>2, <2>3, <2>4, <2>5, <2>6, <2>7 DEF Accepted, Covers
<1>13. CASE Exit
    BY <1>13
    DEF Exit, Discard, accumulatorVars, boundVars, historyVars, Slot, Totals, Accepted, Covers
<1>14. CASE Crash
    BY <1>14 DEF Crash, Discard, accumulatorVars, boundVars, Slot, Totals, Accepted, Covers
<1>15. CASE UNCHANGED vars
    BY <1>15
    DEF vars, accumulatorVars, storeVars, boundVars, historyVars, Totals, Accepted, Covers
<1> QED
    BY <1>1, <1>2, <1>3, <1>4, <1>5, <1>6, <1>7, <1>8, <1>9, <1>10, <1>11, <1>12,
       <1>13, <1>14, <1>15 DEF Next, Slot

\* The invariant behind the three theorems below.
LEMMA SavedInvariant == Spec => []SavedInv
<1>1. Init => SavedInv
  <2> SUFFICES ASSUME Init PROVE SavedInv
      OBVIOUS
  <2>1. Totals = NoTotals /\ Accepted(disk) = NoTotals /\ Covers(NoTotals, NoTotals)
      BY DEF Init, AccumulatorInit, Totals, NoTotals, Accepted, Covers
  <2> QED
      BY <2>1 DEF Init, SavedInv, Idle, Intact, Newest, Slot
<1>2. TypeOK /\ TypeOK' /\ SavedInv /\ [Next]_vars => SavedInv'
    BY NextSaved
<1> QED
    BY <1>1, <1>2, TypeCorrect, PTL DEF Spec

\* Whatever was shown survives every restart in which no process died, no
\* write failed and no set-up overtook a write.
THEOREM TotalsSurviveOrderlyRestart == Spec => []OrderlyRestartKeepsTotals
<1>1. SavedInv => OrderlyRestartKeepsTotals
    BY DEF SavedInv, OrderlyRestartKeepsTotals
<1> QED
    BY <1>1, SavedInvariant, PTL

\* With the stores at rest the file covers the last save tick.
THEOREM CheckpointCoversLastTick == Spec => []DiskHoldsLastTick
<1>1. SavedInv => DiskHoldsLastTick
    BY DEF SavedInv, DiskHoldsLastTick, Intact, Idle, Newest, Listening, Loaded
<1> QED
    BY <1>1, SavedInvariant, PTL

--------------------------------------------------------------------------------
(* The file never goes back                                                *)

\* Every step keeps the copies of the current store in the order of their age.
LEMMA NextOrder == TypeOK /\ TypeOK' /\ SavedInv /\ OrderInv /\ [Next]_vars => OrderInv'
<1> SUFFICES ASSUME TypeOK, TypeOK', SavedInv, OrderInv, [Next]_vars, ~raced' PROVE OrderInv'
    BY DEF OrderInv
<1> USE NothingAssumption
<1> USE DEF TypeOK, AccumulatorTypeOK, OrderInv, Listening, Loaded
<1>r. ~raced /\ Idle("superseded")
    BY DEF Next, vars, SavedInv, ReceivePower, ReceiveNoPower, Publish, Clock, SaveTick,
           DelayedWrite, EndWrite, FailWrite, FinalWrite, BeginUnload, UnloadRefused,
           PlatformsUnloaded, UnloadWrites, SetUp, Start, SetUpFails, Stop, StopUnloaded, Exit, Crash, historyVars
<1>t. Totals \in Checkpoint /\ Totals # Nothing /\ Covers(Totals, Totals)
    BY CoversIsOrder DEF Totals, Checkpoint
<1>a. Accepted(disk) \in Checkpoint
    BY AcceptedType
<1>c. Covers(Accepted(disk), Accepted(disk))
    BY <1>a, CoversIsOrder
<1>1. ASSUME NEW p \in Power, ReceivePower(p) PROVE OrderInv'
  <2>1. UNCHANGED <<phase, disk, pending, writing>>
      BY <1>1 DEF ReceivePower, storeVars
  <2>2. \A c \in Checkpoint : Covers(Totals, c) => Covers(Totals', c)
      BY <1>1, MeasureGrows DEF ReceivePower
  <2>3. \A s \in Slot : /\ pending[s] # Nothing => pending[s] \in Checkpoint
                       /\ writing[s] # Nothing => writing[s] \in Checkpoint
      OBVIOUS
  <2> QED
      BY <1>r, <1>a, <2>1, <2>2, <2>3 DEF Accepted, Covers, Slot
<1>2. ASSUME UNCHANGED <<charged, discharged, disk, pending, writing>>,
             Loaded' => Loaded
      PROVE  OrderInv'
    BY <1>2, <1>r DEF Totals, Accepted, Covers
<1>3. CASE ReceiveNoPower \/ Publish \/ Clock \/ BeginUnload \/ UnloadRefused \/ Start \/ SetUpFails
           \/ StopUnloaded \/ UNCHANGED vars
    BY <1>2, <1>3
    DEF ReceiveNoPower, Forget, Publish, Clock, Elapse, BeginUnload, UnloadRefused,
        Start, SetUpFails, StopUnloaded, vars, accumulatorVars, storeVars
<1>4. CASE SaveTick \/ PlatformsUnloaded \/ Stop
  <2>1. UNCHANGED <<accumulatorVars, disk, writing>> /\ Loaded /\ (Loaded' => Loaded)
      BY <1>4 DEF SaveTick, PlatformsUnloaded, Stop, storeVars
  <2>2. pending'["current"] \in {pending["current"], Totals}
      BY <1>4 DEF SaveTick, PlatformsUnloaded, Stop, storeVars, Slot
  <2> QED
      BY <1>r, <1>t, <2>1, <2>2 DEF Totals, accumulatorVars, Accepted, Covers
<1>5. ASSUME NEW s \in Slot, DelayedWrite(s) \/ FinalWrite(s) \/ UnloadWrites
      PROVE  OrderInv'
  <2>1. UNCHANGED <<accumulatorVars, disk>> /\ (Loaded' => Loaded)
      BY <1>5 DEF DelayedWrite, FinalWrite, UnloadWrites
  <2>2. \/ UNCHANGED <<pending["current"], writing["current"]>>
        \/ /\ writing["current"] = Nothing
           /\ writing'["current"] = pending["current"]
           /\ pending'["current"] = Nothing
      BY <1>5 DEF DelayedWrite, FinalWrite, UnloadWrites, Slot
  <2> QED
      BY <1>r, <2>1, <2>2 DEF Totals, accumulatorVars, Accepted, Covers
<1>6. ASSUME NEW s \in Slot, EndWrite(s) PROVE OrderInv'
  <2>1. s = "current"
      BY <1>6, <1>r DEF EndWrite, Idle, Slot
  <2>2. /\ disk' = writing["current"] /\ writing["current"] # Nothing
        /\ writing'["current"] = Nothing
        /\ UNCHANGED <<accumulatorVars, pending>>
        /\ Loaded' => Loaded
      BY <1>6, <2>1 DEF EndWrite, Slot
  <2>3. Accepted(disk') = writing["current"]
      BY <2>2, NoFileAssumption DEF Accepted, Checkpoint, Slot
  <2> QED
      BY <1>r, <2>2, <2>3 DEF Totals, accumulatorVars, Accepted, Covers
<1>7. ASSUME NEW s \in Slot, FailWrite(s) PROVE OrderInv'
  <2>1. /\ UNCHANGED <<accumulatorVars, pending, disk>> /\ (Loaded' => Loaded)
        /\ writing'["current"] \in {Nothing, writing["current"]}
      BY <1>7 DEF FailWrite, Slot
  <2> QED
      BY <1>r, <2>1 DEF Totals, accumulatorVars, Accepted, Covers
<1>8. CASE SetUp
  <2>1. Totals' = Accepted(disk) /\ disk' = disk
      BY <1>8, <1>a DEF SetUp, Restore, Totals, Checkpoint
  <2>2. pending'["current"] = Nothing /\ writing'["current"] = Nothing
      BY <1>8 DEF SetUp, Slot
  <2> QED
      BY <1>c, <2>1, <2>2 DEF Accepted, Covers
<1>9. CASE Exit \/ Crash
  <2>1. /\ ~Loaded' /\ disk' = disk
        /\ pending'["current"] = Nothing /\ writing'["current"] = Nothing
      BY <1>9 DEF Exit, Crash, Discard, Slot
  <2> QED
      BY <2>1
<1> QED
    BY <1>1, <1>3, <1>4, <1>5, <1>6, <1>7, <1>8, <1>9 DEF Next, Slot

\* Unless a set-up overtook a write, the file never goes back to older totals,
\* whatever fails in between.
THEOREM CheckpointNeverRegresses == Spec => FileNeverRegresses
<1>1. Init => OrderInv
  <2> SUFFICES ASSUME Init PROVE OrderInv
      OBVIOUS
  <2>1. Totals = NoTotals /\ Accepted(disk) = NoTotals /\ Covers(NoTotals, NoTotals)
      BY DEF Init, AccumulatorInit, Totals, NoTotals, Accepted, Covers
  <2> QED
      BY <2>1 DEF Init, OrderInv, Slot
<1>2. TypeOK /\ TypeOK' /\ SavedInv /\ OrderInv /\ [Next]_vars => OrderInv'
    BY NextOrder
<1>3. TypeOK /\ SavedInv /\ OrderInv /\ [Next]_vars
        => [~raced => Covers(Accepted(disk'), Accepted(disk))]_vars
  <2> SUFFICES ASSUME TypeOK, SavedInv, OrderInv, Next, ~raced
               PROVE  Covers(Accepted(disk'), Accepted(disk))
      OBVIOUS
  <2>1. Accepted(disk) \in Checkpoint
      BY AcceptedType DEF TypeOK
  <2>2. Covers(Accepted(disk), Accepted(disk))
      BY <2>1, CoversIsOrder
  <2>3. ASSUME NEW s \in Slot, EndWrite(s)
        PROVE  Covers(Accepted(disk'), Accepted(disk))
    <3>1. s = "current" /\ writing[s] # Nothing
        BY <2>3 DEF EndWrite, SavedInv, Idle, Slot
    <3>2. Covers(writing[s], Accepted(disk))
        BY <3>1 DEF OrderInv
    <3>3. Accepted(disk') = writing[s]
        BY <2>3, <3>1, NoFileAssumption DEF EndWrite, Accepted, TypeOK, Checkpoint
    <3> QED
        BY <3>2, <3>3
  <2>4. CASE disk' = disk
      BY <2>2, <2>4
  <2>5. disk' = disk \/ \E s \in Slot : EndWrite(s)
      BY DEF Next, ReceivePower, ReceiveNoPower, Publish, Clock, SaveTick,
             DelayedWrite, FailWrite, FinalWrite, BeginUnload, UnloadRefused,
             PlatformsUnloaded, UnloadWrites, SetUp, Start, SetUpFails, Stop, StopUnloaded, Exit, Crash, storeVars
  <2> QED
      BY <2>3, <2>4, <2>5
<1> QED
    BY <1>1, <1>2, <1>3, TypeCorrect, SavedInvariant, PTL DEF Spec, FileNeverRegresses

--------------------------------------------------------------------------------
(* The meter: each step maps to a step of it or to a stutter               *)

\* What a frame credits is what the meter holds as provisional.
LEMMA HeldIsProvisional ==
    ASSUME AccumulatorTypeOK
    PROVE  Held = IF Flowing THEN sample * age ELSE 0
<1>1. CASE Flowing /\ age = 0
  <2>1. sample \in Int
      BY <1>1, PowerAssumption DEF AccumulatorTypeOK, Flowing
  <2> QED
      BY <1>1, <2>1 DEF Held, Flowing
<1>2. CASE ~(Flowing /\ age = 0)
    BY <1>2, MaxGapAssumption DEF Held, Flowing, AccumulatorTypeOK
<1> QED
    BY <1>1, <1>2

\* A frame with power books the provisional energy.
LEMMA FrameBooks ==
    ASSUME TypeOK, NEW p \in Power, ReceivePower(p)
    PROVE  Meter!Next
<1> USE MaxGapAssumption, NoSampleAssumption, PowerAssumption
<1>1. AccumulatorTypeOK /\ Held \in Int
    BY HeldType DEF TypeOK
<1>2. Flowing' /\ sample' = p /\ age' = 0 /\ p \in Int
    BY DEF ReceivePower, Measure, Flowing
<1>3. sample' * age' = 0
    BY <1>2
<1>4. Positive(Held) = Meter!In(Held) /\ Positive(-Held) = Meter!Out(Held)
    BY <1>1 DEF Positive, Meter!In, Meter!Out
<1>5. UNCHANGED <<Underway, disk>>
    BY DEF ReceivePower, storeVars, Underway
<1>6. Meter!Book(p)
    BY <1>1, <1>2, <1>3, <1>4, <1>5, HeldIsProvisional
    DEF ReceivePower, Measure, Meter!Book, Meter!copyVars
<1> QED
    BY <1>6 DEF Meter!Next

\* A tick of the clock is a tick of the meter while a reading flows.
LEMMA ClockTicks ==
    ASSUME TypeOK, Clock
    PROVE  Meter!Next \/ UNCHANGED <<Meter!meterVars, Meter!copyVars>>
<1> USE MaxGapAssumption, NoSampleAssumption, PowerAssumption DEF TypeOK, AccumulatorTypeOK
<1>1. UNCHANGED <<charged, discharged, sample, Underway, disk>>
    BY DEF Clock, Elapse, storeVars, Underway
<1>2. CASE ~Flowing
  <2>1. age' = age /\ ~Flowing'
      BY <1>2 DEF Clock, Elapse, Flowing
  <2> QED
      BY <1>1, <1>2, <2>1 DEF Meter!meterVars, Meter!copyVars
<1>3. CASE Flowing
  <2>1. age' = age + 1 /\ sample \in Int /\ age \in Int /\ sample # NoSample
      BY <1>3 DEF Clock, Elapse, Flowing
  <2>2. sample * (age + 1) = sample * age + sample
      BY <2>1
  <2>3. Flowing' <=> age < MaxGap
      BY <1>1, <1>3, <2>1 DEF Flowing
  <2>4. Meter!Tick
      BY <1>1, <1>3, <2>1, <2>2, <2>3 DEF Meter!Tick, Meter!copyVars
  <2> QED
      BY <2>4 DEF Meter!Next
<1> QED
    BY <1>2, <1>3

\* Steps that leave the accumulator alone, put no copy but the present totals
\* on its way and bring no copy to the file but one that was on its way.
LEMMA StoreCopies ==
    ASSUME UNCHANGED accumulatorVars,
           Underway' \subseteq Underway \cup {Totals},
           disk' \in Underway \cup {disk}
    PROVE  Meter!Next
<1>1. Totals = Meter!Booked
    BY DEF Totals, Meter!Booked
<1>2. UNCHANGED Meter!meterVars
    BY DEF Meter!meterVars, accumulatorVars, Flowing
<1>3. Meter!Copy
    BY <1>1, <1>2 DEF Meter!Copy
<1> QED
    BY <1>3 DEF Meter!Next

\* Every step is a step of the meter or leaves it alone.
LEMMA StepMeters ==
    TypeOK /\ [Next]_vars => [Meter!Next]_<<Meter!meterVars, Meter!copyVars>>
<1> SUFFICES ASSUME TypeOK, [Next]_vars
             PROVE  Meter!Next \/ UNCHANGED <<Meter!meterVars, Meter!copyVars>>
    BY DEF Meter!Next, Meter!meterVars, Meter!copyVars
<1> USE DEF Slot
<1>t. Totals # Nothing
    BY NothingAssumption DEF TypeOK, AccumulatorTypeOK, Totals
<1>p. /\ DOMAIN pending = Slot /\ DOMAIN writing = Slot
      /\ pending = [s \in Slot |-> pending[s]] /\ writing = [s \in Slot |-> writing[s]]
    BY DEF TypeOK
<1>1. ASSUME NEW p \in Power, ReceivePower(p) PROVE Meter!Next
    BY <1>1, FrameBooks
<1>2. CASE ReceiveNoPower
  <2>1. ~Flowing' /\ UNCHANGED <<charged, discharged, Underway, disk>> /\ age' = 0
      BY <1>2 DEF ReceiveNoPower, Forget, Flowing, storeVars, Underway
  <2>2. Meter!Void
      BY <2>1 DEF Meter!Void, Meter!Interrupt, Meter!copyVars
  <2> QED
      BY <2>2 DEF Meter!Next
<1>3. CASE Clock
    BY <1>3, ClockTicks
<1>4. CASE \/ Publish \/ BeginUnload \/ UnloadRefused \/ Start \/ SetUpFails
           \/ StopUnloaded \/ UNCHANGED vars
  <2>1. UNCHANGED <<accumulatorVars, storeVars>>
      BY <1>4 DEF Publish, BeginUnload, UnloadRefused, Start, SetUpFails, StopUnloaded, vars
  <2> QED
      BY <2>1 DEF accumulatorVars, storeVars, Meter!meterVars, Meter!copyVars, Flowing, Underway
<1>5. CASE SaveTick \/ PlatformsUnloaded \/ Stop
  <2>1. UNCHANGED <<accumulatorVars, disk, writing>>
      BY <1>5 DEF SaveTick, PlatformsUnloaded, Stop, storeVars
  <2>2. \A s \in Slot : pending'[s] \in {pending[s], Totals}
      BY <1>5, <1>p DEF SaveTick, PlatformsUnloaded, Stop, storeVars
  <2>3. Underway' \subseteq Underway \cup {Totals}
      BY <2>1, <2>2 DEF Underway
  <2> QED
      BY <2>1, <2>3, StoreCopies
<1>6. ASSUME NEW s \in Slot, DelayedWrite(s) \/ FinalWrite(s) \/ UnloadWrites \/ FailWrite(s)
      PROVE  Meter!Next
  <2>1. UNCHANGED <<accumulatorVars, disk>>
      BY <1>6 DEF DelayedWrite, FinalWrite, UnloadWrites, FailWrite
  <2>2. \A r \in Slot : /\ pending'[r] \in {pending[r], Nothing}
                       /\ writing'[r] \in {writing[r], pending[r], Nothing}
      BY <1>6, <1>p DEF DelayedWrite, FinalWrite, UnloadWrites, FailWrite
  <2>3. Underway' \subseteq Underway
      BY <2>2 DEF Underway
  <2> QED
      BY <2>1, <2>3, StoreCopies
<1>7. ASSUME NEW s \in Slot, EndWrite(s) PROVE Meter!Next
  <2>1. UNCHANGED accumulatorVars /\ disk' = writing[s] /\ writing[s] # Nothing
      BY <1>7 DEF EndWrite
  <2>2. \A r \in Slot : pending'[r] = pending[r] /\ writing'[r] \in {writing[r], Nothing}
      BY <1>7, <1>p DEF EndWrite
  <2>3. Underway' \subseteq Underway /\ disk' \in Underway
      BY <2>1, <2>2 DEF Underway
  <2> QED
      BY <2>1, <2>3, StoreCopies
<1>8. CASE Exit \/ Crash
  <2>1. UNCHANGED <<accumulatorVars, disk>> /\ Underway' = {}
      BY <1>8 DEF Exit, Crash, Discard, Underway
  <2> QED
      BY <2>1, StoreCopies
<1>9. CASE SetUp
  <2>1. UNCHANGED disk /\ sample' = NoSample /\ age' = 0
      BY <1>9 DEF SetUp, Restore
  <2>2. charged' = Accepted(disk).charged /\ discharged' = Accepted(disk).discharged
      BY <1>9 DEF SetUp, Restore
  <2>3. Idle("superseded")
      BY <1>9 DEF SetUp
  <2>4. \A r \in Slot : /\ pending'[r] = IF r = "current" THEN Nothing ELSE pending["current"]
                       /\ writing'[r] = IF r = "current" THEN Nothing ELSE writing["current"]
      BY <1>9 DEF SetUp
  <2>5. UNCHANGED Underway
      BY <2>3, <2>4 DEF Underway, Idle
  <2>6. Meter!Resume
      BY <2>1, <2>2, <2>5
      DEF Meter!Resume, Meter!Interrupt, Meter!copyVars, Accepted, NoTotals, Flowing
  <2> QED
      BY <2>6 DEF Meter!Next
<1> QED
    BY <1>1, <1>2, <1>3, <1>4, <1>5, <1>6, <1>7, <1>8, <1>9 DEF Next

\* The counters implement the ideal meter through every reload, shutdown, crash
\* and failed write.
THEOREM LifeCycleImplementsMeter == Spec => IntegratesObservedPower
<1>1. Init => Meter!Init
    BY DEF Init, AccumulatorInit, Meter!Init, Flowing, Underway
<1> QED
    BY <1>1, StepMeters, TypeCorrect, PTL DEF Spec, IntegratesObservedPower, Meter!Spec
================================================================================
