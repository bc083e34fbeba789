---------------------------- MODULE MCFirmwareDhcp ----------------------------
(* Small instances of FirmwareDhcp for TLC.                                *)
EXTENDS FirmwareDhcp

MCSourceOf == [s \in Servers |-> s]
===============================================================================
