--------------------------- MODULE EnergyAccumulator ---------------------------
(***************************************************************************)
(* The lifetime charge and discharge counters of one battery monitor       *)
(* (energy.py).  Every decoded frame carries the battery power, or no      *)
(* power at all; the counters are credited with the power of the PREVIOUS  *)
(* frame for the time it was held, unless that time is an outage.          *)
(*                                                                         *)
(* Only differences of the monotonic clock matter, so the time stored in   *)
(* _sample is represented by its age.  The unit of time is a tick, the     *)
(* unit of energy is power * tick (the code divides by 3 600 000).         *)
(***************************************************************************)
EXTENDS Integers

CONSTANTS
    Power,      \* the finite battery powers a frame can report, in watts
    MaxGap,     \* longest time one reading may stand for (10 s in the code)
    NoSample,   \* the value of _sample before a frame and after an outage
    NoFile      \* no checkpoint yet, or a payload restore() refuses

ASSUME PowerAssumption == Power \subseteq Int
ASSUME MaxGapAssumption == MaxGap \in Nat \ {0}
ASSUME NoSampleAssumption == NoSample \notin Int
ASSUME NoFileAssumption == NoFile \notin [charged : Nat, discharged : Nat]

VARIABLES
    charged,     \* charged_kwh
    discharged,  \* discharged_kwh
    sample,      \* the power half of _sample, or NoSample
    age          \* now - previous_time, saturated just above MaxGap

accumulatorVars == <<charged, discharged, sample, age>>

\* Seeded bug: without max(..., 0) a discharge is booked as negative charge.
BugSigned(x) == x

Positive(x) == IF x > 0 THEN x ELSE 0

\* as_dict(): what is checkpointed and what the two sensors report.
Totals == [charged |-> charged, discharged |-> discharged]

NoTotals == [charged |-> 0, discharged |-> 0]

AccumulatorInit ==
    /\ charged = 0
    /\ discharged = 0
    /\ sample = NoSample
    /\ age = 0

\* Seeded bug: an outage is extrapolated.
BugAnyGap == IF sample # NoSample THEN sample * age ELSE 0

\* The previous reading stands for the time it was held: none for a second
\* frame at the same instant, none across an outage.
Held == IF sample # NoSample /\ 0 < age /\ age <= MaxGap THEN sample * age ELSE 0

\* update(power, now) with a finite power.
Measure(p) ==
    /\ charged' = charged + Positive(Held)
    /\ discharged' = discharged + Positive(-Held)
    /\ sample' = p
    /\ age' = 0

\* update(None, now): a frame without power, or one that did not decode.
Forget ==
    /\ sample' = NoSample
    /\ age' = 0
    /\ UNCHANGED <<charged, discharged>>

\* restore(payload) in a new accumulator: both counters or neither.
Accepted(payload) == IF payload = NoFile THEN NoTotals ELSE payload

Restore(payload) ==
    /\ charged' = Accepted(payload).charged
    /\ discharged' = Accepted(payload).discharged
    /\ sample' = NoSample
    /\ age' = 0

\* One tick of the monotonic clock.
Elapse ==
    /\ age' = IF sample = NoSample \/ age > MaxGap THEN age ELSE age + 1
    /\ UNCHANGED <<charged, discharged, sample>>

AccumulatorTypeOK ==
    /\ charged \in Nat
    /\ discharged \in Nat
    /\ sample \in Power \cup {NoSample}
    /\ age \in 0..(MaxGap + 1)
================================================================================
