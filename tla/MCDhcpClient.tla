----------------------------- MODULE MCDhcpClient -----------------------------
(* A small instance of DhcpClient for TLC.                                 *)
EXTENDS DhcpClient

CONSTANTS s1, s2, relay

\* s1 answers directly, s2 through a relay.
MCSourceOf == [s \in Servers |-> IF s = s1 THEN s1 ELSE relay]
===============================================================================
