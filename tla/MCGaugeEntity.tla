----------------------------- MODULE MCGaugeEntity -----------------------------
(***************************************************************************)
(* Every row of the table, one cell standing for the sixteen.  The         *)
(* readings lie on both sides of each rounding boundary and band edge of   *)
(* the three classes that have a band; halves are those binary floats      *)
(* represent exactly.                                                      *)
(***************************************************************************)
EXTENDS GaugeEntity

CONSTANTS quiet, low

MCCellKeys == <<"cell_voltage_1">>

MCValue ==
    {quiet, low, None} \cup
    {-520, -480, -60, -40, 0, 40, 60, 140, 160, 240, 250, 260, 340, 480, 500, 520,
     1480, 1500, 1520, 24480, 24520, 25480, 25520, 26520}
================================================================================
