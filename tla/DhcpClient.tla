------------------------------ MODULE DhcpClient ------------------------------
(***************************************************************************)
(* The DHCP client of Ethernet_W5500/DHCP/dhcp.c: the automaton DHCP_run   *)
(* steps through, the one-second tick that runs beside it, and the calls   *)
(* DHCP_init and DHCP_stop that a main loop makes.                         *)
(*                                                                         *)
(* The servers and the wire are external.  Every datagram the client sent  *)
(* stays in "sent" and a server may answer any of them, any number of      *)
(* times, in any order, or never: that is loss, duplication, delay and     *)
(* reordering in both directions.  The chip keeps the received datagrams   *)
(* of the DHCP socket in "rxq" until DHCP_run reads them.                  *)
(*                                                                         *)
(* DHCP_run is one step, except where it blocks, which splits it in two    *)
(* (pc): in sendto until the ARP request before a REQUEST to the server    *)
(* itself is answered or times out, in the same way in the ARP probe of a  *)
(* leased address, and in the wait after a DECLINE.  Ticks and datagrams   *)
(* arrive meanwhile.                                                       *)
(***************************************************************************)
EXTENDS Integers, Sequences, FiniteSets

CONSTANTS
    Servers,            \* DHCP servers, named by their server identifier
    SourceOf,           \* the address a server's datagrams come from: its own, or a relay's
    Addrs,              \* addresses the servers hand out
    LeaseTimes,         \* lease times they grant, in seconds
    INFINITE_LEASETIME, \* the lease time that means "for ever"
    MAX_DHCP_RETRY,
    DHCP_WAIT_TIME,
    DefaultCallbacks,   \* TRUE: reg_dhcp_cbfunc installed no callback of the application
    None,               \* the all-zero address
    XidMod,             \* DHCP_XID is counted modulo this
    RxCap,              \* datagrams the chip holds for the DHCP socket
    TickMax             \* dhcp_tick_1s stops counting here, beyond every threshold

ASSUME ConstantsOK ==
    /\ SourceOf \in [Servers -> {SourceOf[s] : s \in Servers}]
    /\ None \notin Servers \cup Addrs \cup {SourceOf[s] : s \in Servers}
    /\ LeaseTimes \subseteq Nat /\ INFINITE_LEASETIME \in Nat
    /\ MAX_DHCP_RETRY \in Nat /\ DHCP_WAIT_TIME \in Nat
    /\ DefaultCallbacks \in BOOLEAN
    /\ XidMod \in Nat \ {0} /\ RxCap \in Nat \ {0}

ASSUME TickMaxOK ==
    /\ TickMax \in Nat
    /\ DHCP_WAIT_TIME < TickMax
    /\ \A l \in LeaseTimes : l # INFINITE_LEASETIME => l \div 2 < TickMax

VARIABLES
    dhcp_state, dhcp_retry_count, dhcp_tick_1s, dhcp_lease_time, DHCP_XID,
    DHCP_SIP, DHCP_REAL_SIP,
    DHCP_allocated_ip, OLD_allocated_ip,
    DHCP_allocated_opts, \* gateway, mask and DNS: the server that supplied them
    sipr,                \* the chip's source address register
    sock,                \* TRUE when the DHCP socket is open in UDP mode
    rxq,                 \* datagrams received and not yet read
    sent,                \* every request the client has sent
    pc,                  \* where DHCP_run is: "idle" between calls
    waited,              \* seconds since the DECLINE, while pc = "declined"
    ret                  \* what DHCP_run last returned

timeout == <<dhcp_retry_count, dhcp_tick_1s>>
server  == <<DHCP_SIP, DHCP_REAL_SIP>>
params  == <<dhcp_lease_time, DHCP_allocated_opts>>
chip    == <<sipr, sock, rxq>>
vars == <<dhcp_state, timeout, params, DHCP_XID, server, DHCP_allocated_ip,
          OLD_allocated_ip, chip, sent, pc, waited, ret>>

States   == {"INIT", "DISCOVER", "REQUEST", "LEASED", "REREQUEST", "STOP"}
Waiting  == {"DISCOVER", "REQUEST", "REREQUEST"}
Returns  == {"DHCP_FAILED", "DHCP_RUNNING", "DHCP_IP_ASSIGN", "DHCP_IP_CHANGED",
             "DHCP_IP_LEASED", "DHCP_STOPPED"}
Sources  == {SourceOf[s] : s \in Servers}
Leases   == LeaseTimes \cup {INFINITE_LEASETIME}

Discover        == [type |-> "DISCOVER", ip |-> None, sid |-> None]
Request(ip, s)  == [type |-> "REQUEST", ip |-> ip, sid |-> s]
Requests        == {Discover} \cup {Request(ip, s) : ip \in Addrs, s \in Servers}

\* A server's datagram.  A NAK carries its server identifier and nothing else
\* the client reads.
Reply(t, s, ip, l) == [type |-> t, sid |-> s, src |-> SourceOf[s], yip |-> ip, lease |-> l]
Nak(s)             == Reply("NAK", s, None, INFINITE_LEASETIME)
Replies == {Reply(t, s, ip, l) : t \in {"OFFER", "ACK"}, s \in Servers,
                                 ip \in Addrs, l \in LeaseTimes}
           \cup {Nak(s) : s \in Servers}

-------------------------------------------------------------------------------
(* parseDHCPMSG: one datagram is read at the start of every DHCP_run.      *)

\* Any server will do until one is known; then the datagram must come from it.
\* Neither the transaction id nor the message type is looked at here.
Received_AnyServer == rxq # <<>> \* mutant: the comparison is missing

Received == /\ rxq # <<>>
            /\ DHCP_SIP # None => Head(rxq).src \in {DHCP_SIP, DHCP_REAL_SIP}

type == IF Received THEN Head(rxq).type ELSE "none"

ParsedSIP == IF Received THEN Head(rxq).sid ELSE DHCP_SIP

\* The options overwrite the lease's parameters whatever the state.
parseDHCPMSG ==
    IF type \in {"OFFER", "ACK"}
    THEN /\ dhcp_lease_time' = Head(rxq).lease
         /\ DHCP_allocated_opts' = Head(rxq).sid
    ELSE UNCHANGED params

parseServer == /\ DHCP_SIP' = ParsedSIP
               /\ DHCP_REAL_SIP' = IF Received THEN Head(rxq).src ELSE DHCP_REAL_SIP

-------------------------------------------------------------------------------
reset_DHCP_timeout == dhcp_tick_1s' = 0 /\ dhcp_retry_count' = 0

\* mutant: the server of the last transaction is not forgotten
send_DHCP_DISCOVER_KeepsServer == /\ parseServer
                                  /\ sent' = sent \cup {Discover}

send_DHCP_DISCOVER == /\ DHCP_SIP' = None
                      /\ DHCP_REAL_SIP' = None
                      /\ sent' = sent \cup {Discover}

\* Broadcast, while no lease is held.
send_DHCP_REQUEST(ip) == /\ parseServer
                         /\ sent' = sent \cup {Request(ip, ParsedSIP)}

\* With a lease it is sent to the server itself: sendto waits for the server's
\* hardware address, and what follows waits with it (Requested).
send_DHCP_REQUEST_Unicast == /\ parseServer
                             /\ pc' = "request"
                             /\ UNCHANGED sent

\* The callbacks: the default ones write the chip, the application's own
\* (wizchip_port.c: they set a flag) leave it alone.
\* mutant: the wrong one of the two saved addresses
dhcp_ip_assign_Old == /\ sipr' = IF DefaultCallbacks THEN OLD_allocated_ip ELSE sipr
                      /\ UNCHANGED <<sock, rxq>>

dhcp_ip_assign == /\ sipr' = IF DefaultCallbacks THEN DHCP_allocated_ip ELSE sipr
                  /\ UNCHANGED <<sock, rxq>>

\* The default handlers of a conflict and of a changed address reset the whole
\* chip, which closes every socket.
ChipReset == sock' = FALSE /\ rxq' = <<>>

dhcp_ip_conflict == IF DefaultCallbacks THEN ChipReset /\ sipr' = None
                                        ELSE UNCHANGED chip

-------------------------------------------------------------------------------
(* DHCP_run.  Every call reopens the socket if it is not open, then reads  *)
(* one datagram.                                                           *)
Call == /\ pc = "idle"
        /\ dhcp_state # "STOP"
        /\ parseDHCPMSG
        /\ UNCHANGED waited

ReadSocket == /\ sock' = TRUE
              /\ rxq' = IF rxq = <<>> THEN rxq ELSE Tail(rxq)

Run == Call /\ ReadSocket

dhcp_ip_update == IF DefaultCallbacks THEN ChipReset /\ sipr' = DHCP_allocated_ip
                                      ELSE ReadSocket /\ UNCHANGED sipr

RunStopped ==
    /\ pc = "idle"
    /\ dhcp_state = "STOP"
    /\ ret' = "DHCP_STOPPED"
    /\ UNCHANGED <<dhcp_state, timeout, params, DHCP_XID, server, DHCP_allocated_ip,
                   OLD_allocated_ip, chip, sent, pc, waited>>

RunInit ==
    /\ Run
    /\ dhcp_state = "INIT"
    /\ DHCP_allocated_ip' = None
    /\ send_DHCP_DISCOVER
    /\ dhcp_state' = "DISCOVER"
    /\ ret' = "DHCP_RUNNING"
    /\ UNCHANGED <<timeout, DHCP_XID, OLD_allocated_ip, sipr, pc>>

RunOffer ==
    /\ Run
    /\ dhcp_state = "DISCOVER"
    /\ type = "OFFER"
    /\ DHCP_allocated_ip' = Head(rxq).yip
    /\ send_DHCP_REQUEST(DHCP_allocated_ip')
    /\ dhcp_state' = "REQUEST"
    /\ ret' = "DHCP_RUNNING"
    /\ UNCHANGED <<timeout, DHCP_XID, OLD_allocated_ip, sipr, pc>>

\* The address that was offered is taken, whatever address the ACK carries.
\* check_DHCP_leasedIP then blocks in sendto until its ARP request is answered
\* or times out.
RunAck ==
    /\ Run
    /\ dhcp_state = "REQUEST"
    /\ type = "ACK"
    /\ parseServer
    /\ pc' = "probe"
    /\ UNCHANGED <<dhcp_state, timeout, DHCP_XID, DHCP_allocated_ip, OLD_allocated_ip,
                   sipr, sent, ret>>

RunNak ==
    /\ Run
    /\ dhcp_state \in {"REQUEST", "REREQUEST"}
    /\ type = "NAK"
    /\ parseServer
    /\ reset_DHCP_timeout
    /\ dhcp_state' = "DISCOVER"
    /\ ret' = IF dhcp_state = "REREQUEST" THEN "DHCP_IP_LEASED" ELSE "DHCP_RUNNING"
    /\ UNCHANGED <<DHCP_XID, DHCP_allocated_ip, OLD_allocated_ip, sipr, sent, pc>>

\* The lease time compared is the one just parsed.
RenewalDue_FullLease == /\ dhcp_lease_time' # INFINITE_LEASETIME \* mutant: not halved
                        /\ dhcp_lease_time' < dhcp_tick_1s

RenewalDue_Infinite == /\ dhcp_lease_time' = INFINITE_LEASETIME \* mutant: inverted test
                       /\ dhcp_lease_time' \div 2 < dhcp_tick_1s

RenewalDue == /\ dhcp_lease_time' # INFINITE_LEASETIME
              /\ dhcp_lease_time' \div 2 < dhcp_tick_1s

RunLeased ==
    /\ Run
    /\ dhcp_state = "LEASED"
    /\ ~RenewalDue
    /\ parseServer
    /\ ret' = "DHCP_IP_LEASED"
    /\ UNCHANGED <<dhcp_state, timeout, DHCP_XID, DHCP_allocated_ip, OLD_allocated_ip,
                   sipr, sent, pc>>

RunRenew ==
    /\ Run
    /\ dhcp_state = "LEASED"
    /\ RenewalDue
    /\ OLD_allocated_ip' = DHCP_allocated_ip
    /\ DHCP_XID' = (DHCP_XID + 1) % XidMod
    /\ send_DHCP_REQUEST_Unicast
    /\ UNCHANGED <<dhcp_state, timeout, DHCP_allocated_ip, sipr, ret>>

\* The address is compared with the one saved when the renewal began; the
\* ACK's own address is not read.
RunRenewAck ==
    /\ Call
    /\ dhcp_state = "REREQUEST"
    /\ type = "ACK"
    /\ parseServer
    /\ IF OLD_allocated_ip # DHCP_allocated_ip
       THEN ret' = "DHCP_IP_CHANGED" /\ dhcp_ip_update
       ELSE ret' = "DHCP_IP_LEASED" /\ ReadSocket /\ UNCHANGED sipr
    /\ reset_DHCP_timeout
    /\ dhcp_state' = "LEASED"
    /\ UNCHANGED <<DHCP_XID, DHCP_allocated_ip, OLD_allocated_ip, sent, pc>>

-------------------------------------------------------------------------------
(* check_DHCP_timeout, reached from a waiting state when the datagram read *)
(* is not the one waited for.                                              *)
Unanswered ==
    /\ dhcp_state \in Waiting
    /\ dhcp_state = "DISCOVER" => type # "OFFER"
    /\ dhcp_state # "DISCOVER" => type \notin {"ACK", "NAK"}

RetriesLeft_OneMore == dhcp_retry_count <= MAX_DHCP_RETRY \* mutant: off by one

RetriesLeft == dhcp_retry_count < MAX_DHCP_RETRY

RunWait ==
    /\ Run
    /\ Unanswered
    /\ RetriesLeft
    /\ dhcp_tick_1s <= DHCP_WAIT_TIME
    /\ parseServer
    /\ ret' = "DHCP_RUNNING"
    /\ UNCHANGED <<dhcp_state, timeout, DHCP_XID, DHCP_allocated_ip, OLD_allocated_ip,
                   sipr, sent, pc>>

TimedOut == RetriesLeft /\ DHCP_WAIT_TIME < dhcp_tick_1s

RunResend ==
    /\ Run
    /\ Unanswered
    /\ dhcp_state # "REREQUEST"
    /\ TimedOut
    /\ IF dhcp_state = "DISCOVER" THEN send_DHCP_DISCOVER
                                  ELSE send_DHCP_REQUEST(DHCP_allocated_ip)
    /\ dhcp_tick_1s' = 0
    /\ dhcp_retry_count' = dhcp_retry_count + 1
    /\ ret' = "DHCP_RUNNING"
    /\ UNCHANGED <<dhcp_state, DHCP_XID, DHCP_allocated_ip, OLD_allocated_ip, sipr, pc>>

RunRerequest ==
    /\ Run
    /\ Unanswered
    /\ dhcp_state = "REREQUEST"
    /\ TimedOut
    /\ send_DHCP_REQUEST_Unicast
    /\ UNCHANGED <<dhcp_state, timeout, DHCP_XID, DHCP_allocated_ip, OLD_allocated_ip,
                   sipr, ret>>

\* The retries used up, the next call gives up at once.
RunGiveUp ==
    /\ Run
    /\ Unanswered
    /\ ~RetriesLeft
    /\ \/ /\ dhcp_state = "DISCOVER"
          /\ dhcp_state' = "INIT"
          /\ ret' = "DHCP_FAILED"
          /\ parseServer
          /\ UNCHANGED sent
       \/ /\ dhcp_state # "DISCOVER"
          /\ dhcp_state' = "DISCOVER"
          /\ ret' = "DHCP_RUNNING"
          /\ send_DHCP_DISCOVER
    /\ reset_DHCP_timeout
    /\ UNCHANGED <<DHCP_XID, DHCP_allocated_ip, OLD_allocated_ip, sipr, pc>>

-------------------------------------------------------------------------------
(* The rest of a call that sent a REQUEST to the server itself.            *)

\* The ticks counted while sendto waited are erased, in both places.
Requested ==
    /\ pc = "request"
    /\ dhcp_tick_1s' = 0
    /\ \/ /\ dhcp_state = "LEASED"
          /\ dhcp_retry_count' = 0
          /\ dhcp_state' = "REREQUEST"
          /\ ret' = "DHCP_IP_LEASED"
       \/ /\ dhcp_state = "REREQUEST"
          /\ dhcp_retry_count' = dhcp_retry_count + 1
          /\ ret' = "DHCP_RUNNING"
          /\ UNCHANGED dhcp_state
    /\ pc' = "idle"
    /\ UNCHANGED <<params, DHCP_XID, server, DHCP_allocated_ip, OLD_allocated_ip, chip, waited>>

SendOk ==
    /\ Requested
    /\ sent' = sent \cup {Request(DHCP_allocated_ip, DHCP_SIP)}

\* Nobody answered the ARP request: the REQUEST did not go out.  What sendto
\* returned is not looked at.
SendTimeout == Requested /\ UNCHANGED sent

-------------------------------------------------------------------------------
(* check_DHCP_leasedIP, and the rest of the call that entered it.          *)

\* The ARP request timed out: nobody else has the address.
ProbeUnique ==
    /\ pc = "probe"
    /\ dhcp_ip_assign
    /\ reset_DHCP_timeout
    /\ dhcp_state' = "LEASED"
    /\ ret' = "DHCP_RUNNING"
    /\ pc' = "idle"
    /\ UNCHANGED <<params, DHCP_XID, server, DHCP_allocated_ip, OLD_allocated_ip, sent, waited>>

\* Somebody answered.  The DECLINE draws no answer, so "sent" leaves it out.
ProbeConflict ==
    /\ pc = "probe"
    /\ pc' = "declined"
    /\ waited' = 0
    /\ UNCHANGED <<dhcp_state, timeout, params, DHCP_XID, server, DHCP_allocated_ip,
                   OLD_allocated_ip, chip, sent, ret>>

\* The busy wait on dhcp_tick_1s is over.
Declined ==
    /\ pc = "declined"
    /\ waited >= 2
    /\ reset_DHCP_timeout
    /\ dhcp_ip_conflict
    /\ dhcp_state' = "INIT"
    /\ ret' = "DHCP_RUNNING"
    /\ pc' = "idle"
    /\ waited' = 0
    /\ UNCHANGED <<params, DHCP_XID, server, DHCP_allocated_ip, OLD_allocated_ip, sent>>

DHCP_run == \/ RunStopped \/ RunInit \/ RunOffer \/ RunAck \/ RunNak \/ RunLeased
            \/ RunRenew \/ RunRenewAck \/ RunWait \/ RunResend \/ RunRerequest \/ RunGiveUp
            \/ Declined

\* What sendto waits for: the address resolved or not.
ChipReports == ProbeUnique \/ ProbeConflict \/ SendOk \/ SendTimeout

-------------------------------------------------------------------------------
(* The other calls of the main loop, the tick, and the servers.            *)

DHCP_stop ==
    /\ pc = "idle"
    /\ dhcp_state # "STOP"
    /\ dhcp_state' = "STOP"
    /\ sock' = FALSE
    /\ rxq' = <<>>
    /\ UNCHANGED <<timeout, params, DHCP_XID, server, DHCP_allocated_ip, OLD_allocated_ip,
                   sipr, sent, pc, waited, ret>>

\* Called again to restart a client that failed or was stopped.  What the last
\* lease left in the other variables stays.
DHCP_init ==
    /\ pc = "idle"
    /\ dhcp_state = "STOP" \/ ret = "DHCP_FAILED"
    /\ DHCP_XID' = 0
    /\ sipr' = None
    /\ reset_DHCP_timeout
    /\ dhcp_state' = "INIT"
    /\ UNCHANGED <<params, server, DHCP_allocated_ip, OLD_allocated_ip, sock, rxq, sent,
                   pc, waited, ret>>

Ticked_Frozen == dhcp_tick_1s \* mutant: the counter is never advanced

Ticked == IF dhcp_tick_1s < TickMax THEN dhcp_tick_1s + 1 ELSE TickMax

DHCP_time_handler ==
    /\ dhcp_tick_1s' = Ticked
    /\ waited' = IF pc = "declined" /\ waited < 2 THEN waited + 1 ELSE waited
    /\ UNCHANGED <<dhcp_state, dhcp_retry_count, params, DHCP_XID, server, DHCP_allocated_ip,
                   OLD_allocated_ip, chip, sent, pc, ret>>

\* A datagram reaches the open socket; with the socket closed or its buffer
\* full the chip drops it.
Deliver(m) ==
    /\ sock
    /\ Len(rxq) < RxCap
    /\ rxq' = Append(rxq, m)
    /\ UNCHANGED <<dhcp_state, timeout, params, DHCP_XID, server, DHCP_allocated_ip,
                   OLD_allocated_ip, sipr, sock, sent, pc, waited, ret>>

ServerOffer(s) == /\ Discover \in sent
                  /\ \E ip \in Addrs, l \in LeaseTimes : Deliver(Reply("OFFER", s, ip, l))

ServerAck(s) == \E ip \in Addrs, l \in LeaseTimes :
                   /\ Request(ip, s) \in sent
                   /\ Deliver(Reply("ACK", s, ip, l))

ServerNak(s) == /\ \E ip \in Addrs : Request(ip, s) \in sent
                /\ Deliver(Nak(s))

-------------------------------------------------------------------------------
\* DHCP_init has just been called for the first time.
Init ==
    /\ dhcp_state = "INIT"
    /\ dhcp_retry_count = 0
    /\ dhcp_tick_1s = 0
    /\ dhcp_lease_time = INFINITE_LEASETIME
    /\ DHCP_XID = 0
    /\ DHCP_SIP = None
    /\ DHCP_REAL_SIP = None
    /\ DHCP_allocated_ip = None
    /\ OLD_allocated_ip = None
    /\ DHCP_allocated_opts = None
    /\ sipr = None
    /\ sock = FALSE
    /\ rxq = <<>>
    /\ sent = {}
    /\ pc = "idle"
    /\ waited = 0
    /\ ret = "DHCP_RUNNING"

Next == \/ DHCP_run \/ ChipReports
        \/ DHCP_stop \/ DHCP_init \/ DHCP_time_handler
        \/ \E s \in Servers : ServerOffer(s) \/ ServerAck(s) \/ ServerNak(s)

Spec == Init /\ [][Next]_vars

\* The main loop keeps calling DHCP_run, the timer keeps ticking (dhcp.h asks
\* for both), the chip's ARP requests end, and an address is not taken for ever.
Fairness == /\ WF_vars(DHCP_run)
            /\ WF_vars(DHCP_time_handler)
            /\ WF_vars(ChipReports)
            /\ SF_vars(ProbeUnique)

\* A server that goes on answering: again and again its answer is the next
\* thing the client reads.
Answering(s) ==
    /\ SF_vars(dhcp_state = "DISCOVER" /\ rxq = <<>> /\ ServerOffer(s))
    /\ SF_vars(dhcp_state = "REQUEST" /\ rxq = <<>> /\ ServerAck(s))

FairSpec == Spec /\ Fairness

-------------------------------------------------------------------------------
(* Properties.                                                             *)

\* The client's own variables, whatever the chip's address register holds.
ClientTypes ==
    /\ dhcp_state \in States
    /\ dhcp_retry_count \in 0..MAX_DHCP_RETRY
    /\ dhcp_tick_1s \in 0..TickMax
    /\ dhcp_lease_time \in Leases
    /\ DHCP_XID \in 0..(XidMod - 1)
    /\ DHCP_SIP \in Servers \cup {None}
    /\ DHCP_REAL_SIP \in Sources \cup {None}
    /\ DHCP_allocated_ip \in Addrs \cup {None}
    /\ OLD_allocated_ip \in Addrs \cup {None}
    /\ DHCP_allocated_opts \in Servers \cup {None}
    /\ sock \in BOOLEAN
    /\ rxq \in Seq(Replies)
    /\ sent \subseteq Requests
    /\ pc \in {"idle", "request", "probe", "declined"}
    /\ waited \in 0..2
    /\ ret \in Returns

\* Every variable keeps its type; the retry counter never passes its maximum.
TypeOK == ClientTypes /\ sipr \in Addrs \cup {None}

\* No two servers are heard from one address.
DistinctSources == \A s, t \in Servers : SourceOf[s] \in {t, SourceOf[t]} => s = t

\* The client holds an address, or asks for one, from one server: it sent that
\* server a REQUEST for exactly this address, and its gateway, mask and DNS come
\* from the same server, whatever other servers answer late or twice
\* (parseDHCPMSG's comparison with DHCP_SIP and DHCP_REAL_SIP).
RequestPinned ==
    dhcp_state \in {"REQUEST", "LEASED", "REREQUEST"} =>
        /\ DHCP_SIP # None
        /\ Request(DHCP_allocated_ip, DHCP_SIP) \in sent
        /\ DHCP_allocated_opts = DHCP_SIP

\* While a lease is held the chip uses the leased address (default_ip_assign),
\* through renewals, conflicts, failures and restarts of the client.
LeasedIpApplied ==
    DefaultCallbacks /\ dhcp_state \in {"LEASED", "REREQUEST"} => sipr = DHCP_allocated_ip

\* As long as a lease is held, renewed or being renewed, it stays with the server
\* that granted it, and its address, on which sockets are bound, changes only if
\* the call says so: the application that sees no DHCP_IP_CHANGED need not look
\* (dhcp.h: "New IP address is assigned", dhcp_ip_update).
LeaseKeepsServer ==
    [][/\ dhcp_state \in {"LEASED", "REREQUEST"}
       /\ dhcp_state' \in {"LEASED", "REREQUEST"}
       => /\ UNCHANGED DHCP_SIP
          /\ UNCHANGED <<DHCP_allocated_ip, sipr>> \/ ret' = "DHCP_IP_CHANGED"]_vars

\* No wait for a server is for ever: with the calls and the tick, whatever the
\* servers do, the client leaves every waiting state (check_DHCP_timeout), and
\* every call of DHCP_run that blocks returns.
WaitingEnds == /\ \A st \in Waiting : dhcp_state = st ~> dhcp_state # st
               /\ pc # "idle" ~> pc = "idle"

\* A finite lease is renewed in time or given up; it is not kept silently.
LeaseIsRenewed ==
    dhcp_state = "LEASED" /\ dhcp_lease_time # INFINITE_LEASETIME
        ~> dhcp_state # "LEASED" \/ dhcp_lease_time = INFINITE_LEASETIME

\* When one server goes on answering and the others have fallen silent, the
\* client gets a lease again and again, even if it was pinned to one of the
\* others before, unless it is stopped (the DISCOVER that forgets DHCP_SIP, and
\* the fall-backs of check_DHCP_timeout).
Acquires ==
    \A s \in Servers :
        /\ Answering(s)
        /\ <>[][\A t \in Servers \ {s} : ~(ServerOffer(t) \/ ServerAck(t) \/ ServerNak(t))]_vars
        => []<>(dhcp_state \in {"LEASED", "STOP"})
===============================================================================
