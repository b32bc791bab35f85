------------------------------ MODULE MCConfigFlow -----------------------------
(***************************************************************************)
(* Two dialogues that may be about either of two devices.  Time is counted *)
(* in minutes: an option of 0 was accepted by earlier versions, 1 is the   *)
(* default, 5 another legal choice.  Two of the keys cannot be told apart   *)
(* by their key-check byte.                                                *)
(***************************************************************************)
EXTENDS ConfigFlow, TLC

CONSTANTS k1, k2, k3, b1, b2

MCCheckByte == [k \in {k1, k2, k3} |-> IF k = k3 THEN b2 ELSE b1]

Symmetry == Permutations(Flow) \cup Permutations({k1, k2}) \cup Permutations(Address)
================================================================================
