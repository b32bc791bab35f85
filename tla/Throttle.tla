-------------------------------- MODULE Throttle --------------------------------
(***************************************************************************)
(* _make_throttled_update (__init__.py): every advertisement is decoded,   *)
(* but Home Assistant is handed a decoded frame only when the throttle     *)
(* window is over, when a state-like value changed, or on recovery; slow   *)
(* keys keep a longer interval of their own.                               *)
(*                                                                         *)
(* A frame maps every key to its native value, or to Absent when the       *)
(* frame's entity_values lack the key.  Times of the monotonic clock are   *)
(* represented by ages saturated at Cap, above every interval compared     *)
(* with.                                                                   *)
(***************************************************************************)
EXTENDS Integers

CONSTANTS
    Key,           \* entity keys of one device
    SlowKey,       \* SLOW_KEYS among them
    Number,        \* int and float values
    Label,         \* every other value: enumeration members, flags
    Missing,       \* None, for a measurement the device does not know
    Absent,        \* the key is not in entity_values
    Unsent,        \* _last_states before the first frame
    Window,        \* throttle_seconds
    SlowInterval,  \* SLOW_KEY_INTERVAL
    Cap            \* ages stop counting here

ASSUME KeyAssumption == SlowKey \subseteq Key
ASSUME ValueAssumption ==
    /\ Missing # Absent
    /\ {Missing, Absent} \cap (Number \cup Label) = {}
    /\ Number \cap Label = {}
ASSUME UnsentAssumption == Unsent \notin UNION {[K -> Label \cup {Missing}] : K \in SUBSET Key}
ASSUME IntervalAssumption ==
    /\ Window \in Nat \ {0}
    /\ SlowInterval \in Nat \ {0}
    /\ Cap \in Nat /\ Cap >= SlowInterval + Window

Value == Number \cup Label \cup {Missing}
FrameValues == [Key -> Value \cup {Absent}]
Ages == 0..Cap

VARIABLES
    sinceSent,   \* now - _last_sent
    lastStates,  \* _last_states: the state-like values of the last frame sent
    sinceSlow    \* now - slow_sent[key], for slow keys

throttleVars == <<sinceSent, lastStates, sinceSlow>>

Older(a) == IF a < Cap THEN a + 1 ELSE a

ThrottleInit ==
    /\ sinceSent = Cap
    /\ lastStates = Unsent
    /\ sinceSlow = [k \in SlowKey |-> Cap]

\* None is no number, so a missing measurement counts as state-like.
StateLike(v) == v \notin Number \cup {Absent}

States(f) == [k \in {j \in Key : StateLike(f[j])} |-> f[k]]

SlowKeyDue(k, recovery) ==
    k \in SlowKey => recovery \/ sinceSlow[k] >= SlowInterval

\* Seeded bug: alarms wait for the window.
BugDue(f, recovery) == recovery \/ sinceSent >= Window

\* Seeded bug: off by one at the end of the window.
BugDueLate(f, recovery) == recovery \/ States(f) # lastStates \/ sinceSent > Window

Due(f, recovery) == recovery \/ States(f) # lastStates \/ sinceSent >= Window

\* Seeded bug: a forwarded frame carries its slow keys.
BugForwarded(f, recovery) == f

\* What of frame f is handed over; a key held back looks like a key not there.
Forwarded(f, recovery) ==
    [k \in Key |-> IF SlowKeyDue(k, recovery) THEN f[k] ELSE Absent]

\* Seeded bug: the whole frame is remembered as its states.
BugSend(f, recovery) ==
    /\ Due(f, recovery)
    /\ sinceSent' = 0
    /\ lastStates' = f
    /\ sinceSlow' = [k \in SlowKey |->
           IF Forwarded(f, recovery)[k] # Absent THEN 0 ELSE sinceSlow[k]]

\* Seeded bug: a slow key is stamped as sent although it was held back.
BugSendStamps(f, recovery) ==
    /\ Due(f, recovery)
    /\ sinceSent' = 0
    /\ lastStates' = States(f)
    /\ sinceSlow' = [k \in SlowKey |-> 0]

Send(f, recovery) ==
    /\ Due(f, recovery)
    /\ sinceSent' = 0
    /\ lastStates' = States(f)
    /\ sinceSlow' = [k \in SlowKey |->
           IF Forwarded(f, recovery)[k] # Absent THEN 0 ELSE sinceSlow[k]]

Suppress(f, recovery) ==
    /\ ~Due(f, recovery)
    /\ UNCHANGED throttleVars

ThrottleElapse ==
    /\ sinceSent' = Older(sinceSent)
    /\ sinceSlow' = [k \in SlowKey |-> Older(sinceSlow[k])]
    /\ UNCHANGED lastStates

ThrottleTypeOK ==
    /\ sinceSent \in Ages
    /\ lastStates \in {Unsent} \cup UNION {[K -> Label \cup {Missing}] : K \in SUBSET Key}
    /\ sinceSlow \in [SlowKey -> Ages]
================================================================================
