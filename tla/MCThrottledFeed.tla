---------------------------- MODULE MCThrottledFeed ----------------------------
(***************************************************************************)
(* A battery monitor with one mode, two gauges and one energy counter.     *)
(* As in device.py, a frame whose power is unknown reports the counters    *)
(* as None too; the auxiliary input's key comes and goes with its mode.    *)
(***************************************************************************)
EXTENDS ThrottledFeed

CONSTANTS auxMode, voltage, energy, midpoint, atMidpoint, atStarter

MCFrame ==
    {f \in [{auxMode, voltage, energy, midpoint} -> Value \cup {Absent}] :
        /\ f[auxMode] \in Label
        /\ f[voltage] \in Number \cup {Missing}
        /\ f[energy] \in Number \cup {Missing}
        /\ f[voltage] = Missing <=> f[energy] = Missing
        /\ f[midpoint] \in IF f[auxMode] = atMidpoint THEN Number \cup {Missing} ELSE {Absent}}
================================================================================
