----------------------------- MODULE MCPublication -----------------------------
(***************************************************************************)
(* One alarm without band, one voltage with rounding and deadband, one     *)
(* slow energy counter.  As in device.py the counter is None when the      *)
(* voltage is.                                                             *)
(***************************************************************************)
EXTENDS Publication

CONSTANTS alarm, voltage, energy

MCFrame ==
    {f \in [{alarm, voltage, energy} -> Value] :
        /\ f[alarm] \in Label
        /\ f[voltage] \in Number \cup {Missing}
        /\ f[energy] \in {0, Missing}
        /\ f[voltage] = Missing <=> f[energy] = Missing}

MCStep == [k \in {alarm, voltage, energy} |-> IF k = voltage THEN 2 ELSE 1]
MCBand == [k \in {alarm, voltage, energy} |-> IF k = voltage THEN 4 ELSE 0]
================================================================================
