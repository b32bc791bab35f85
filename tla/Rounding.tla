-------------------------------- MODULE Rounding --------------------------------
(***************************************************************************)
(* Numbers as the sensors of sensor.py treat them: rounded to a step and   *)
(* compared by their distance.  Both are exact here; the slack of 1e-9     *)
(* that the code allows a comparison is for the floats it computes with.   *)
(***************************************************************************)
EXTENDS Integers

\* round() to a step, a half going to the even multiple.
Round(v, step) ==
    LET q == v \div step
        r == v % step
    IN  IF 2 * r > step \/ (2 * r = step /\ q % 2 = 1) THEN (q + 1) * step ELSE q * step

Distance(a, b) == IF a < b THEN b - a ELSE a - b
================================================================================
