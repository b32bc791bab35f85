----------------------------- MODULE ThrottleProofs -----------------------------
(***************************************************************************)
(* Facts about frames and ages that hold wherever the throttle is used.    *)
(***************************************************************************)
EXTENDS Throttle, TLAPS

\* The state-like values of a frame are labels and None.
LEMMA StatesType ==
    ASSUME NEW f \in FrameValues
    PROVE  States(f) \in UNION {[K -> Label \cup {Missing}] : K \in SUBSET Key}
<1> DEFINE K == {j \in Key : StateLike(f[j])}
<1>1. K \in SUBSET Key
    OBVIOUS
<1>2. \A k \in K : f[k] \in Label \cup {Missing}
    BY DEF FrameValues, Value, StateLike
<1>3. States(f) \in [K -> Label \cup {Missing}]
    BY <1>2 DEF States
<1> QED
    BY <1>1, <1>3

\* Two frames with the same states agree on every key that is state-like in one.
LEMMA SameStates ==
    ASSUME NEW f \in FrameValues, NEW g \in FrameValues, States(f) = States(g), NEW k \in Key
    PROVE  /\ StateLike(f[k]) => g[k] = f[k]
           /\ StateLike(g[k]) => g[k] = f[k]
<1>1. {j \in Key : StateLike(f[j])} = {j \in Key : StateLike(g[j])}
    BY DEF States
<1>2. StateLike(f[k]) <=> StateLike(g[k])
    BY <1>1
<1>3. ASSUME StateLike(f[k]) PROVE States(f)[k] = f[k] /\ States(g)[k] = g[k]
    BY <1>2, <1>3 DEF States
<1> QED
    BY <1>2, <1>3

\* What is handed over is a frame again.
LEMMA ForwardedType ==
    ASSUME NEW f \in FrameValues, NEW recovery
    PROVE  Forwarded(f, recovery) \in FrameValues
BY DEF Forwarded, FrameValues

\* Ages grow by at most one and stay ages.
LEMMA OlderType == \A a \in Ages : Older(a) \in Ages /\ a <= Older(a) /\ Older(a) <= a + 1
BY IntervalAssumption DEF Older, Ages
================================================================================
