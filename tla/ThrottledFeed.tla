----------------------------- MODULE ThrottledFeed -----------------------------
(***************************************************************************)
(* The throttle between a stream of decoded frames and the data the        *)
(* passive Bluetooth processor holds for the entities.  The processor      *)
(* merges what it is handed into entity_data and never drops a key         *)
(* (Home Assistant's, modelled from how the sensors read it).              *)
(***************************************************************************)
EXTENDS Throttle

CONSTANTS
    Frame,     \* the frames this device can broadcast
    NoFrame

ASSUME FrameAssumption == Frame \subseteq FrameValues
ASSUME NoFrameAssumption == NoFrame \notin Frame

VARIABLE entityData   \* processor.entity_data; Absent is a key never received

VARIABLES             \* history, read by properties only
    frame,       \* the last valid frame
    forced,      \* it was received as a recovery
    sinceFrame,  \* age of that frame
    sinceShown   \* per key: age of the last value handed over

feedVars == <<throttleVars, entityData, frame, forced, sinceFrame, sinceShown>>

Merge(old, new) == [k \in Key |-> IF new[k] # Absent THEN new[k] ELSE old[k]]

Init ==
    /\ ThrottleInit
    /\ entityData = [k \in Key |-> Absent]
    /\ frame = NoFrame
    /\ forced = FALSE
    /\ sinceFrame = 0
    /\ sinceShown = [k \in Key |-> 0]

Deliver(f, recovery) ==
    /\ Send(f, recovery)
    /\ entityData' = Merge(entityData, Forwarded(f, recovery))
    /\ sinceShown' = [k \in Key |->
           IF Forwarded(f, recovery)[k] # Absent THEN 0 ELSE sinceShown[k]]

Hold(f, recovery) ==
    /\ Suppress(f, recovery)
    /\ UNCHANGED <<entityData, sinceShown>>

\* A frame may be a recovery at any time: whether it is depends on when the
\* device was last heard and decoded, which Publication models.
Receive(f, recovery) ==
    /\ Deliver(f, recovery) \/ Hold(f, recovery)
    /\ frame' = f
    /\ forced' = recovery
    /\ sinceFrame' = 0

Elapse ==
    /\ ThrottleElapse
    /\ sinceFrame' = IF frame = NoFrame THEN sinceFrame ELSE Older(sinceFrame)
    /\ sinceShown' = [k \in Key |->
           IF entityData[k] = Absent THEN sinceShown[k] ELSE Older(sinceShown[k])]
    /\ UNCHANGED <<entityData, frame, forced>>

Next == (\E f \in Frame, recovery \in BOOLEAN : Receive(f, recovery)) \/ Elapse

Spec == Init /\ [][Next]_feedVars

--------------------------------------------------------------------------------
(* Properties                                                              *)

TypeOK ==
    /\ ThrottleTypeOK
    /\ entityData \in FrameValues
    /\ frame \in Frame \cup {NoFrame}
    /\ forced \in BOOLEAN
    /\ sinceFrame \in Ages
    /\ sinceShown \in [Key -> Ages]

\* Keys that no frame of this device leaves out.
Carried == {k \in Key : \A f \in Frame : f[k] # Absent}

\* Alarms, modes and missing measurements are never behind: a key outside
\* SLOW_KEYS whose latest or shown value is state-like shows the latest value,
\* although most frames are suppressed.
StatesAreCurrent ==
    frame # NoFrame =>
        \A k \in Carried \ SlowKey :
            (StateLike(frame[k]) \/ StateLike(entityData[k]) => entityData[k] = frame[k])

\* No gauge is older than one window when the latest frame arrived: the bypass
\* of an alarm restarts the window but never keeps a gauge waiting longer.
GaugesAreRecent ==
    frame # NoFrame =>
        \A k \in Carried \ SlowKey : sinceShown[k] < Window + sinceFrame

\* A slow key waits for its own interval AND for a frame that is forwarded, so
\* it may be late by one window, and by no more.
SlowKeysAreRecent ==
    frame # NoFrame =>
        \A k \in Carried \cap SlowKey : sinceShown[k] < SlowInterval + Window + sinceFrame

\* A recovery shows the whole frame, slow keys included.
RecoveryShowsWholeFrame ==
    forced => \A k \in Key : (frame[k] # Absent => entityData[k] = frame[k])

\* README.md:42: "Alarms remain immediate; they do not accelerate energy-counter
\* or time-estimate publication": outside a recovery no slow key is handed over
\* before its interval is over, however often state-like values change.
AlarmsDoNotAccelerateSlowKeys ==
    [][\A k \in SlowKey :
          entityData[k] # Absent /\ entityData'[k] # entityData[k] /\ ~forced'
              => sinceShown[k] >= SlowInterval]_feedVars

\* _make_throttled_update, "so HA receives a real update at most once per window":
\* outside a recovery a gauge that was shown less than a window ago changes only with
\* a frame in which some state-like value differs from the frame before, which may be
\* a measurement that became None or ceased to be.
NumbersArePaced ==
    [][\A k \in Carried \ SlowKey :
          /\ entityData[k] # Absent /\ entityData'[k] # entityData[k] /\ ~forced'
          /\ sinceShown[k] < Window
          => \E j \in Key : /\ frame'[j] # frame[j]
                            /\ StateLike(frame[j]) \/ StateLike(frame'[j])]_feedVars
================================================================================
