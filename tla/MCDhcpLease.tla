------------------------------ MODULE MCDhcpLease ------------------------------
(* A small instance of DhcpLease for TLC.                                  *)
EXTENDS DhcpLease

MCSourceOf == [s \in Servers |-> s]
===============================================================================
