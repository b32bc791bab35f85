--------------------------- MODULE MCEnergyCheckpoint ---------------------------
(* A battery that charges or discharges at one power; see README.md for the bounds. *)
EXTENDS EnergyCheckpoint

MCPower == {-1, 1}
================================================================================
