------------------------------- MODULE DnsClient -------------------------------
(***************************************************************************)
(* DNS_run of src/Ethernet_W5500/DNS/dns.c over a UDP socket of socket.c:  *)
(* one query is sent from a port of its own, and the first datagram that   *)
(* comes to that port is taken for the answer.  Neither its id nor its     *)
(* question is compared; sock_any_port, which gives every socket another   *)
(* port, is all that keeps a late answer away.                             *)
(*                                                                         *)
(* The network loses, repeats, delays and reorders: any query sent may be  *)
(* answered, any number of times, until Lifetime sockets were opened after *)
(* its own.  In the code a port is used again after 16368 openings.        *)
(***************************************************************************)
EXTENDS Integers, Sequences

CONSTANTS
    Names,         \* the host names asked for
    Ips, AddrsOf,  \* the addresses, and those of each name
    NumPorts,      \* SOCK_ANY_PORT_NUM to 0xFFEF, numbered from 0
    MAX_DNS_RETRY, DNS_WAIT_TIME,
    Lifetime,      \* how many openings later an answer may still come
    RxCap,         \* datagrams that the socket's buffer holds
    None

ASSUME ConstantsOK ==
    /\ Names # {} /\ None \notin Names \cup Ips \cup 0..NumPorts
    /\ AddrsOf \in [Names -> SUBSET Ips] /\ Ips \cap {"none", "error", "odd"} = {}
    /\ NumPorts \in Nat /\ Lifetime \in Nat /\ Lifetime < NumPorts
    /\ RxCap \in Nat \ {0}
    /\ MAX_DNS_RETRY \in Nat /\ DNS_WAIT_TIME \in Nat \ {0}

VARIABLES
    stage,         \* of DNS_run: sendto waits for the ARP, DNS_run for a datagram
    name,          \* the name asked for last
    port,          \* the port of the socket, None when it is closed
    sock_any_port, \* the port of the next socket
    rxq,           \* the answers in the socket's buffer
    sent,          \* the queries that may still be answered, each with its age
    ip_from_dns, ret,
    dns_1s_tick, retry_count

socketVars == <<port, sock_any_port, rxq>>
timer      == <<dns_1s_tick, retry_count>>
vars       == <<stage, name, socketVars, sent, ip_from_dns, ret, timer>>

Ports == 0..(NumPorts - 1)

\* What an answer says: an address of the name, that it has none, or an error; or it is
\* longer than the buffer, or has a record that dns_answer does not skip.
Answers(n) == AddrsOf[n] \cup {"none", "error", "odd"}

Queries  == [port : Ports, name : Names, age : 0..Lifetime]
Received == [name : Names, says : Ips \cup {"none", "error", "odd"}]

-------------------------------------------------------------------------------
(* DNS_run.                                                                *)

\* Mutant: the query is sent from the port used before.
NextPort_Fixed(p) == p

\* sock_any_port++, which starts again after the last.
NextPort(p) == IF p + 1 = NumPorts THEN 0 ELSE p + 1

Older(Q) == {[q EXCEPT !.age = @ + 1] : q \in {p \in Q : p.age < Lifetime}}

\* socket() closes the old socket and opens one at the next port; sendto hands the
\* query to the chip, which looks for the server's hardware address.
DNS_run(n) ==
    /\ stage = "idle"
    /\ stage' = "arp"
    /\ name' = n
    /\ port' = sock_any_port
    /\ sock_any_port' = NextPort(sock_any_port)
    /\ rxq' = <<>>
    /\ sent' = Older(sent)
    /\ retry_count' = 0 /\ dns_1s_tick' = 0
    /\ UNCHANGED <<ip_from_dns, ret>>

SendOk ==
    /\ stage = "arp"
    /\ stage' = "wait"
    /\ sent' = sent \cup {[port |-> port, name |-> name, age |-> 0]}
    /\ UNCHANGED <<name, socketVars, ip_from_dns, ret, timer>>

\* sendto returns SOCKERR_TIMEOUT, which nobody looks at.
ArpTimeout ==
    /\ stage = "arp"
    /\ stage' = "wait"
    /\ UNCHANGED <<name, socketVars, sent, ip_from_dns, ret, timer>>

\* The outcomes of parseDNSMSG.  An answer without address is a success that leaves the
\* caller's address as it was.  Reading past an answer that is longer than the buffer,
\* or past a record that is not skipped, finds anything.
Parsed(answer, r, ip) ==
    \/ answer.says \in Ips /\ r = 1 /\ ip = answer.says
    \/ answer.says = "none" /\ r = 1 /\ ip = ip_from_dns
    \/ answer.says = "error" /\ r = 0 /\ ip = ip_from_dns
    \/ answer.says = "odd" /\ \/ r \in {0, 1} /\ ip \in Ips \cup {ip_from_dns}
                              \/ r = -1 /\ ip \in Ips \cup {ip_from_dns}

close ==
    /\ port' = None
    /\ rxq' = <<>>
    /\ UNCHANGED sock_any_port

\* DNS_run takes the first datagram and closes the socket.
Receive ==
    /\ stage = "wait" /\ rxq # <<>>
    /\ \E r \in {0, 1, -1}, ip \in Ips \cup {None} :
           Parsed(Head(rxq), r, ip) /\ ret' = r /\ ip_from_dns' = ip
    /\ close
    /\ stage' = "idle"
    /\ UNCHANGED <<name, sent, timer>>

Expired == stage = "wait" /\ rxq = <<>> /\ dns_1s_tick >= DNS_WAIT_TIME

\* Mutant: check_DNS_timeout forgets how often it has run out.
Retry_Uncounted ==
    /\ Expired /\ retry_count < MAX_DNS_RETRY
    /\ dns_1s_tick' = 0
    /\ UNCHANGED <<stage, name, socketVars, sent, ip_from_dns, ret, retry_count>>

\* Mutant: check_DNS_timeout allows one timeout more.
Retry_OnceMore ==
    /\ Expired /\ retry_count <= MAX_DNS_RETRY
    /\ dns_1s_tick' = 0
    /\ retry_count' = retry_count + 1
    /\ UNCHANGED <<stage, name, socketVars, sent, ip_from_dns, ret>>

\* getSn_RX_RSR has left 0 in len, and sendto refuses a datagram of length 0: nothing
\* is sent again.
Retry ==
    /\ Expired /\ retry_count < MAX_DNS_RETRY
    /\ dns_1s_tick' = 0
    /\ retry_count' = retry_count + 1
    /\ UNCHANGED <<stage, name, socketVars, sent, ip_from_dns, ret>>

GiveUp ==
    /\ Expired /\ retry_count >= MAX_DNS_RETRY
    /\ dns_1s_tick' = 0 /\ retry_count' = 0
    /\ ret' = 0
    /\ close
    /\ stage' = "idle"
    /\ UNCHANGED <<name, sent, ip_from_dns>>

\* dns_1s_tick matters up to DNS_WAIT_TIME.
DNS_time_handler ==
    /\ dns_1s_tick < DNS_WAIT_TIME
    /\ dns_1s_tick' = dns_1s_tick + 1
    /\ UNCHANGED <<stage, name, socketVars, sent, ip_from_dns, ret, retry_count>>

-------------------------------------------------------------------------------
(* The server, over the network.                                           *)

\* An answer comes to the port its query was sent from; the chip drops it when its
\* buffer is full.
Answer ==
    /\ \E q \in sent : \E says \in Answers(q.name) :
           /\ q.port = port /\ Len(rxq) < RxCap
           /\ rxq' = Append(rxq, [name |-> q.name, says |-> says])
    /\ UNCHANGED <<stage, name, port, sock_any_port, sent, ip_from_dns, ret, timer>>

Init ==
    /\ stage = "idle" /\ name = None
    /\ port = None /\ sock_any_port = 0 /\ rxq = <<>>
    /\ sent = {}
    /\ ip_from_dns = None /\ ret = 0
    /\ dns_1s_tick = 0 /\ retry_count = 0

Running == SendOk \/ ArpTimeout \/ Receive \/ Retry \/ GiveUp

Next == \/ \E n \in Names : DNS_run(n)
        \/ Running \/ DNS_time_handler
        \/ Answer

Spec == Init /\ [][Next]_vars

\* DNS_run goes round its loop, and a timer calls DNS_time_handler.
FairSpec == Spec /\ WF_vars(Running) /\ WF_vars(DNS_time_handler)

-------------------------------------------------------------------------------
(* Properties.                                                             *)

\* Every variable keeps its type; the retries stay within their limit.
TypeOK ==
    /\ stage \in {"idle", "arp", "wait"}
    /\ name \in Names \cup {None}
    /\ port \in Ports \cup {None} /\ sock_any_port \in Ports
    /\ rxq \in Seq(Received) /\ Len(rxq) <= RxCap
    /\ sent \subseteq Queries
    /\ ip_from_dns \in Ips \cup {None} /\ ret \in {0, 1, -1}
    /\ dns_1s_tick \in 0..DNS_WAIT_TIME /\ retry_count \in 0..MAX_DNS_RETRY
    /\ stage # "idle" => name \in Names /\ port \in Ports

\* An address that was read from an answer is one of the name asked for, however late the
\* answers to earlier calls arrive.
AnswerIsForQuery ==
    [][Receive /\ Head(rxq).says \in Ips => ret' = 1 /\ ip_from_dns' \in AddrsOf[name]]_vars

\* DNS_run returns, whatever is lost.
Returns == stage # "idle" ~> stage = "idle"
===============================================================================
