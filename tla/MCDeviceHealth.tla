---------------------------- MODULE MCDeviceHealth -----------------------------
(***************************************************************************)
(* Two keys, the old one and the new one.  A tick of the clock is a        *)
(* minute, so data is fresh for two of them.                               *)
(***************************************************************************)
EXTENDS DeviceHealth, TLC
================================================================================
