------------------------------- MODULE MCDecoder -------------------------------
(***************************************************************************)
(* All kinds of device, a smart lithium battery with two cells.            *)
(***************************************************************************)
EXTENDS Decoder

MCCellKeys == <<"cell_voltage_1", "cell_voltage_2">>
================================================================================
