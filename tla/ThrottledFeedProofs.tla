-------------------------- MODULE ThrottledFeedProofs --------------------------
(***************************************************************************)
(* What the throttle guarantees the entities, for every set of keys and    *)
(* frames and for every window, interval and cap.                          *)
(*                                                                         *)
(* The properties are about the last frame, most of which are suppressed.  *)
(* They follow from FeedInv: the remembered states are those of the last   *)
(* frame whether or not it was sent, and the age of what an entity was     *)
(* given is the age the throttle keeps.                                    *)
(***************************************************************************)
EXTENDS ThrottledFeed, ThrottleProofs

FeedInv ==
    /\ frame = NoFrame =>
         /\ lastStates = Unsent
         /\ \A k \in SlowKey : sinceSlow[k] = Cap
    /\ frame # NoFrame =>
         /\ lastStates = States(frame)
         /\ sinceSent < Window + sinceFrame
         /\ \A k \in Carried : entityData[k] # Absent
         /\ \A k \in Carried \ SlowKey :
              /\ StateLike(frame[k]) => entityData[k] = frame[k]
              /\ StateLike(entityData[k]) => entityData[k] = frame[k]
              /\ sinceShown[k] = sinceSent
         /\ \A k \in Carried \cap SlowKey :
              /\ sinceShown[k] = sinceSlow[k]
              /\ sinceSlow[k] < SlowInterval + sinceSent

--------------------------------------------------------------------------------
(* Types                                                                   *)

LEMMA NextType == TypeOK /\ [Next]_feedVars => TypeOK'
<1> SUFFICES ASSUME TypeOK, [Next]_feedVars PROVE TypeOK'
    OBVIOUS
<1> USE DEF TypeOK, ThrottleTypeOK
<1>0. 0 \in Ages
    BY IntervalAssumption DEF Ages
<1>1. ASSUME NEW f \in Frame, NEW recovery \in BOOLEAN, Receive(f, recovery) PROVE TypeOK'
  <2>1. f \in FrameValues
      BY FrameAssumption
  <2>2. frame' \in Frame \cup {NoFrame} /\ forced' \in BOOLEAN /\ sinceFrame' \in Ages
      BY <1>1, <1>0 DEF Receive
  <2>3. CASE Deliver(f, recovery)
    <3>1. Forwarded(f, recovery) \in FrameValues
        BY <2>1, ForwardedType
    <3>2. entityData' \in FrameValues
        BY <2>3, <3>1 DEF Deliver, Merge, FrameValues
    <3>3. sinceShown' \in [Key -> Ages]
        BY <2>3, <1>0 DEF Deliver
    <3>4. sinceSent' \in Ages /\ sinceSlow' \in [SlowKey -> Ages]
        BY <2>3, <1>0 DEF Deliver, Send
    <3>5. lastStates' \in {Unsent} \cup UNION {[K -> Label \cup {Missing}] : K \in SUBSET Key}
        BY <2>1, <2>3, StatesType DEF Deliver, Send
    <3> QED
        BY <2>2, <3>2, <3>3, <3>4, <3>5
  <2>4. CASE Hold(f, recovery)
      BY <2>2, <2>4 DEF Hold, Suppress, throttleVars
  <2> QED
      BY <1>1, <2>3, <2>4 DEF Receive
<1>2. CASE Elapse
    BY <1>2, OlderType DEF Elapse, ThrottleElapse
<1>3. CASE UNCHANGED feedVars
    BY <1>3 DEF feedVars, throttleVars
<1> QED
    BY <1>1, <1>2, <1>3 DEF Next

\* Every reachable state is well typed.
THEOREM TypeCorrect == Spec => []TypeOK
<1>1. Init => TypeOK
  <2> SUFFICES ASSUME Init PROVE TypeOK
      OBVIOUS
  <2>1. 0 \in Ages /\ Cap \in Ages
      BY IntervalAssumption DEF Ages
  <2>2. ThrottleTypeOK
      BY <2>1 DEF Init, ThrottleInit, ThrottleTypeOK
  <2>3. entityData \in FrameValues
      BY DEF Init, FrameValues
  <2> QED
      BY <2>1, <2>2, <2>3 DEF Init, TypeOK
<1> QED
    BY <1>1, NextType, PTL DEF Spec

--------------------------------------------------------------------------------
(* The invariant                                                           *)

LEMMA NextFeed == TypeOK /\ TypeOK' /\ FeedInv /\ [Next]_feedVars => FeedInv'
<1> SUFFICES ASSUME TypeOK, TypeOK', FeedInv, [Next]_feedVars PROVE FeedInv'
    OBVIOUS
<1> USE IntervalAssumption, KeyAssumption, NoFrameAssumption
<1> USE DEF TypeOK, ThrottleTypeOK, Ages
<1>c. \A k \in Carried : k \in Key /\ \A f \in Frame : f[k] # Absent
    BY DEF Carried
<1>1. ASSUME NEW f \in Frame, NEW recovery \in BOOLEAN, Receive(f, recovery) PROVE FeedInv'
  <2>1. f \in FrameValues /\ frame' = f /\ frame' # NoFrame /\ sinceFrame' = 0
      BY <1>1, FrameAssumption DEF Receive
  <2>2. CASE Deliver(f, recovery)
    <3>1. lastStates' = States(f) /\ sinceSent' = 0
        BY <2>2 DEF Deliver, Send
    <3>2. ASSUME NEW k \in Carried \ SlowKey
          PROVE  entityData'[k] = f[k] /\ f[k] # Absent /\ sinceShown'[k] = 0
        BY <2>2, <1>c DEF Deliver, Merge, Forwarded, SlowKeyDue
    <3>3. ASSUME NEW k \in Carried \cap SlowKey
          PROVE  /\ entityData'[k] # Absent
                 /\ sinceShown'[k] = sinceSlow'[k]
                 /\ sinceSlow'[k] < SlowInterval
      <4>1. CASE SlowKeyDue(k, recovery)
          BY <2>2, <1>c, <4>1 DEF Deliver, Send, Merge, Forwarded
      <4>2. CASE ~SlowKeyDue(k, recovery)
        <5>1. frame # NoFrame /\ sinceSlow[k] < SlowInterval
            BY <4>2 DEF SlowKeyDue, FeedInv
        <5>2. /\ entityData'[k] = entityData[k]
              /\ sinceShown'[k] = sinceShown[k]
              /\ sinceSlow'[k] = sinceSlow[k]
            BY <2>2, <1>c, <4>2 DEF Deliver, Send, Merge, Forwarded
        <5> QED
            BY <5>1, <5>2 DEF FeedInv
      <4> QED
          BY <4>1, <4>2
    <3> QED
        BY <2>1, <3>1, <3>2, <3>3 DEF FeedInv
  <2>3. CASE Hold(f, recovery)
    <3>1. /\ UNCHANGED <<throttleVars, entityData, sinceShown>>
          /\ States(f) = lastStates
          /\ sinceSent < Window
        BY <2>3 DEF Hold, Suppress, Due
    <3>2. frame # NoFrame
        BY <2>1, <3>1, StatesType, UnsentAssumption DEF FeedInv
    <3>3. frame \in FrameValues /\ States(frame) = States(f)
        BY <3>1, <3>2, FrameAssumption DEF FeedInv
    <3>4. \A k \in Carried \ SlowKey :
             /\ StateLike(f[k]) => entityData[k] = f[k]
             /\ StateLike(entityData[k]) => entityData[k] = f[k]
        BY <1>c, <2>1, <3>2, <3>3, SameStates DEF FeedInv
    <3> QED
        BY <2>1, <3>1, <3>2, <3>4 DEF FeedInv, throttleVars
  <2> QED
      BY <1>1, <2>2, <2>3 DEF Receive
<1>2. CASE Elapse
  <2>1. UNCHANGED <<lastStates, entityData, frame>> /\ sinceSent' = Older(sinceSent)
      BY <1>2 DEF Elapse, ThrottleElapse
  <2>2. \A k \in SlowKey : sinceSlow'[k] = Older(sinceSlow[k])
      BY <1>2 DEF Elapse, ThrottleElapse
  <2>3. CASE frame = NoFrame
      BY <2>1, <2>2, <2>3 DEF FeedInv, Older
  <2>4. CASE frame # NoFrame
    <3>1. sinceFrame' = Older(sinceFrame)
        BY <1>2, <2>4 DEF Elapse
    <3>2. \A k \in Carried : sinceShown'[k] = Older(sinceShown[k])
        BY <1>2, <1>c, <2>4 DEF Elapse, FeedInv
    <3>3. sinceSent' < Window + sinceFrame'
        BY <2>1, <2>4, <3>1 DEF FeedInv, Older
    <3>4. ASSUME NEW k \in Carried \cap SlowKey
          PROVE  sinceSlow'[k] < SlowInterval + sinceSent'
      <4>1. sinceSlow[k] \in 0..Cap /\ sinceSlow[k] < SlowInterval + sinceSent
          BY <2>4 DEF FeedInv
      <4> QED
          BY <2>1, <2>2, <4>1 DEF Older
    <3> QED
        BY <2>1, <2>2, <2>4, <3>2, <3>3, <3>4 DEF FeedInv
  <2> QED
      BY <2>3, <2>4
<1>3. CASE UNCHANGED feedVars
    BY <1>3 DEF feedVars, throttleVars, FeedInv
<1> QED
    BY <1>1, <1>2, <1>3 DEF Next

LEMMA FeedInvariant == Spec => []FeedInv
<1>1. Init => FeedInv
    BY DEF Init, ThrottleInit, FeedInv
<1>2. TypeOK /\ TypeOK' /\ FeedInv /\ [Next]_feedVars => FeedInv'
    BY NextFeed
<1> QED
    BY <1>1, <1>2, TypeCorrect, PTL DEF Spec

--------------------------------------------------------------------------------
(* What the entities can rely on                                           *)

\* Suppressing frames never hides an alarm, a mode or a missing measurement.
THEOREM SuppressionHidesNoState == Spec => []StatesAreCurrent
<1>1. FeedInv => StatesAreCurrent
    BY DEF FeedInv, StatesAreCurrent
<1> QED
    BY <1>1, FeedInvariant, PTL

\* A gauge is never older than one window when the last frame arrived.
THEOREM GaugeAgeIsBounded == Spec => []GaugesAreRecent
<1>1. FeedInv => GaugesAreRecent
    BY DEF FeedInv, GaugesAreRecent
<1> QED
    BY <1>1, FeedInvariant, PTL

\* A slow key is never older than its interval and one window.
THEOREM SlowKeyAgeIsBounded == Spec => []SlowKeysAreRecent
<1>1. TypeOK /\ FeedInv => SlowKeysAreRecent
  <2> SUFFICES ASSUME TypeOK, FeedInv, frame # NoFrame, NEW k \in Carried \cap SlowKey
               PROVE  sinceShown[k] < SlowInterval + Window + sinceFrame
      BY DEF SlowKeysAreRecent
  <2>1. sinceShown[k] = sinceSlow[k] /\ sinceSlow[k] < SlowInterval + sinceSent
      BY DEF FeedInv
  <2>2. sinceSent < Window + sinceFrame
      BY DEF FeedInv
  <2>3. sinceSlow[k] \in Int /\ sinceSent \in Int /\ sinceFrame \in Int
      BY DEF TypeOK, ThrottleTypeOK, Ages
  <2> QED
      BY <2>1, <2>2, <2>3, IntervalAssumption
<1> QED
    BY <1>1, FeedInvariant, TypeCorrect, PTL

--------------------------------------------------------------------------------
(* Recovery and pace                                                       *)

\* A recovery is never suppressed, and lets every slow key pass.
THEOREM RecoveryHandsOverFrame == Spec => []RecoveryShowsWholeFrame
<1>1. Init => RecoveryShowsWholeFrame
    BY DEF Init, RecoveryShowsWholeFrame
<1>2. RecoveryShowsWholeFrame /\ [Next]_feedVars => RecoveryShowsWholeFrame'
  <2> SUFFICES ASSUME RecoveryShowsWholeFrame, [Next]_feedVars PROVE RecoveryShowsWholeFrame'
      OBVIOUS
  <2>1. ASSUME NEW f \in Frame, NEW recovery \in BOOLEAN, Receive(f, recovery)
        PROVE  RecoveryShowsWholeFrame'
    <3>1. CASE recovery
      <4>1. Deliver(f, recovery)
          BY <2>1, <3>1 DEF Receive, Hold, Suppress, Due
      <4>2. \A k \in Key : f[k] # Absent => entityData'[k] = f[k]
          BY <3>1, <4>1 DEF Deliver, Merge, Forwarded, SlowKeyDue
      <4>3. frame' = f
          BY <2>1 DEF Receive
      <4> QED
          BY <4>2, <4>3 DEF RecoveryShowsWholeFrame
    <3>2. CASE ~recovery
      <4>1. ~forced'
          BY <2>1, <3>2 DEF Receive
      <4> QED
          BY <4>1 DEF RecoveryShowsWholeFrame
    <3> QED
        BY <3>1, <3>2
  <2>2. CASE Elapse
      BY <2>2 DEF Elapse, RecoveryShowsWholeFrame
  <2>3. CASE UNCHANGED feedVars
      BY <2>3 DEF feedVars, RecoveryShowsWholeFrame
  <2> QED
      BY <2>1, <2>2, <2>3 DEF Next
<1> QED
    BY <1>1, <1>2, PTL DEF Spec

\* The throttle's stamp of a slow key is the age of the value shown.
SlowInv == \A k \in SlowKey : entityData[k] # Absent => sinceShown[k] = sinceSlow[k]

LEMMA SlowInvariant == Spec => []SlowInv
<1> USE KeyAssumption
<1>1. Init => SlowInv
    BY DEF Init, SlowInv
<1>2. SlowInv /\ [Next]_feedVars => SlowInv'
  <2> SUFFICES ASSUME SlowInv, [Next]_feedVars, NEW k \in SlowKey, entityData'[k] # Absent
               PROVE  sinceShown'[k] = sinceSlow'[k]
      BY DEF SlowInv
  <2>1. ASSUME NEW f \in Frame, NEW recovery \in BOOLEAN, Receive(f, recovery)
        PROVE  sinceShown'[k] = sinceSlow'[k]
    <3>1. CASE Deliver(f, recovery)
        BY <3>1 DEF Deliver, Send, Merge, SlowInv
    <3>2. CASE Hold(f, recovery)
        BY <3>2 DEF Hold, Suppress, throttleVars, SlowInv
    <3> QED
        BY <2>1, <3>1, <3>2 DEF Receive
  <2>2. CASE Elapse
      BY <2>2 DEF Elapse, ThrottleElapse, SlowInv
  <2>3. CASE UNCHANGED feedVars
      BY <2>3 DEF feedVars, throttleVars, SlowInv
  <2> QED
      BY <2>1, <2>2, <2>3 DEF Next
<1> QED
    BY <1>1, <1>2, PTL DEF Spec

\* README.md:42, alarms do not accelerate slow keys, for every set of frames.
THEOREM AlarmsLeaveSlowKeysAlone == Spec => AlarmsDoNotAccelerateSlowKeys
<1> DEFINE Patient ==
        \A k \in SlowKey :
            entityData[k] # Absent /\ entityData'[k] # entityData[k] /\ ~forced'
                => sinceShown[k] >= SlowInterval
<1>1. SlowInv /\ [Next]_feedVars => [Patient]_feedVars
  <2> SUFFICES ASSUME SlowInv, Next, NEW k \in SlowKey,
                      entityData[k] # Absent, entityData'[k] # entityData[k], ~forced'
               PROVE  sinceShown[k] >= SlowInterval
      OBVIOUS
  <2>1. k \in Key
      BY KeyAssumption
  <2>2. PICK f \in Frame, recovery \in BOOLEAN : Receive(f, recovery)
      BY DEF Next, Elapse
  <2>3. Deliver(f, recovery) /\ ~recovery
      BY <2>2 DEF Receive, Hold
  <2>4. SlowKeyDue(k, recovery)
      BY <2>1, <2>3 DEF Deliver, Merge, Forwarded
  <2>5. sinceSlow[k] >= SlowInterval
      BY <2>3, <2>4 DEF SlowKeyDue
  <2> QED
      BY <2>5 DEF SlowInv
<1>2. Spec => [][Patient]_feedVars
    BY <1>1, SlowInvariant, PTL DEF Spec
<1> QED
    BY <1>2 DEF AlarmsDoNotAccelerateSlowKeys

\* _make_throttled_update: readings alone never beat the window.
THEOREM ReadingsKeepPace == Spec => NumbersArePaced
<1> DEFINE Paced ==
        \A k \in Carried \ SlowKey :
            /\ entityData[k] # Absent /\ entityData'[k] # entityData[k] /\ ~forced'
            /\ sinceShown[k] < Window
            => \E j \in Key : /\ frame'[j] # frame[j]
                              /\ StateLike(frame[j]) \/ StateLike(frame'[j])
<1>1. TypeOK /\ FeedInv /\ (frame = NoFrame => \A k \in Key : entityData[k] = Absent)
          /\ [Next]_feedVars => [Paced]_feedVars
  <2> SUFFICES ASSUME TypeOK, FeedInv, frame = NoFrame => \A k \in Key : entityData[k] = Absent,
                      Next, NEW k \in Carried \ SlowKey,
                      entityData[k] # Absent, entityData'[k] # entityData[k], ~forced',
                      sinceShown[k] < Window,
                      \A j \in Key : frame'[j] # frame[j] =>
                                         ~StateLike(frame[j]) /\ ~StateLike(frame'[j])
               PROVE  FALSE
      OBVIOUS
  <2>1. k \in Key /\ frame # NoFrame
      BY DEF Carried
  <2>2. PICK f \in Frame, recovery \in BOOLEAN : Receive(f, recovery)
      BY DEF Next, Elapse
  <2>3. Deliver(f, recovery) /\ ~recovery /\ frame' = f
      BY <2>2 DEF Receive, Hold
  <2>4. \A j \in Key : (StateLike(frame[j]) <=> StateLike(f[j]))
                       /\ (StateLike(f[j]) => frame[j] = f[j])
      BY <2>3
  <2>5. States(f) = States(frame)
    <3>1. {j \in Key : StateLike(f[j])} = {j \in Key : StateLike(frame[j])}
        BY <2>4
    <3> QED
        BY <2>4, <3>1 DEF States
  <2>6. sinceSent >= Window
      BY <2>1, <2>3, <2>5 DEF Deliver, Send, Due, FeedInv
  <2>7. sinceShown[k] = sinceSent /\ sinceSent \in Int
      BY <2>1 DEF FeedInv, TypeOK, ThrottleTypeOK, Ages
  <2> QED
      BY <2>6, <2>7, IntervalAssumption
<1>2. Spec => [](frame = NoFrame => \A k \in Key : entityData[k] = Absent)
  <2> DEFINE Blank == frame = NoFrame => \A k \in Key : entityData[k] = Absent
  <2>1. Init => Blank
      BY DEF Init
  <2>2. Blank /\ [Next]_feedVars => Blank'
      BY NoFrameAssumption DEF Next, Receive, Elapse, feedVars
  <2> HIDE DEF Blank
  <2>3. Spec => []Blank
      BY <2>1, <2>2, PTL DEF Spec
  <2> QED
      BY <2>3 DEF Blank
<1>3. Spec => [][Paced]_feedVars
    BY <1>1, <1>2, FeedInvariant, TypeCorrect, PTL DEF Spec
<1> QED
    BY <1>3 DEF NumbersArePaced
================================================================================
