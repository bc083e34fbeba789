----------------------------- MODULE MCDnsClient ------------------------------
\* Two names with an address each.
EXTENDS DnsClient

CONSTANTS n1, n2, ip1, ip2

MCAddrsOf == [n \in Names |-> IF n = n1 THEN {ip1} ELSE {ip2}]
===============================================================================
