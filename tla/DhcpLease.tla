------------------------------- MODULE DhcpLease -------------------------------
(***************************************************************************)
(* DhcpClient under the timing dhcp.h asks for: the tick comes once a      *)
(* second, and the main loop calls DHCP_run at least once between two      *)
(* ticks, unless a call is blocked.  "age" is the time since the client    *)
(* read the ACK of the lease it holds, "grant" the lease time of that ACK, *)
(* "blocked" the ticks since sendto began to wait.                         *)
(***************************************************************************)
EXTENDS DhcpClient

CONSTANTS
    SendTicks, \* ticks that may pass until sendto gives up: the chip's ARP timeout
    AgeMax     \* age stops counting here, beyond every lease time

VARIABLES age, grant, polled, blocked

timedVars == <<vars, age, grant, polled, blocked>>

ASSUME SendTicksOK == SendTicks \in Nat

ASSUME AgeMaxOK == AgeMax \in Nat /\ \A l \in LeaseTimes : l < AgeMax

Held == dhcp_state \in {"LEASED", "REREQUEST"}

\* A call of the main loop.  The ACK that is acted on starts a new term.
LoopCall ==
    /\ DHCP_run \/ ChipReports \/ DHCP_stop \/ DHCP_init
    /\ polled' = TRUE
    /\ blocked' = 0
    /\ IF RunAck \/ RunRenewAck
       THEN age' = 0 /\ grant' = Head(rxq).lease
       ELSE UNCHANGED <<age, grant>>

\* The loop is late while a call is blocked: in sendto, for as long as the chip
\* repeats its ARP request (nine times 200 ms with the values of its reset), and
\* in the busy wait after a DECLINE.  The ARP probe (RCR set to 3, so four times
\* 200 ms) ends within a tick.
Second ==
    /\ DHCP_time_handler
    /\ IF pc = "request" THEN blocked < SendTicks ELSE polled \/ pc = "declined"
    /\ polled' = FALSE
    /\ blocked' = IF pc = "request" THEN blocked + 1 ELSE blocked
    /\ age' = IF age < AgeMax THEN age + 1 ELSE AgeMax
    /\ UNCHANGED grant

Network ==
    /\ \E s \in Servers : ServerOffer(s) \/ ServerAck(s) \/ ServerNak(s)
    /\ UNCHANGED <<age, grant, polled, blocked>>

TimedInit == /\ Init
             /\ age = 0
             /\ grant = INFINITE_LEASETIME
             /\ polled = FALSE
             /\ blocked = 0

TimedNext == LoopCall \/ Second \/ Network

TimedSpec == TimedInit /\ [][TimedNext]_timedVars

-------------------------------------------------------------------------------
\* The seconds of one more try of a renewal: the wait, the tick the comparison rounds
\* up, and the ticks its sendto blocks, which the client forgets.
Try == DHCP_WAIT_TIME + 1 + SendTicks

\* The longest a lease of l seconds is held without a new ACK: half of it, the
\* seconds the comparisons round up, the first REQUEST's sendto, and
\* MAX_DHCP_RETRY more tries.
Overrun(l) == l \div 2 + 3 + SendTicks + MAX_DHCP_RETRY * Try

\* Every lease granted is long enough for that, also when an answer that comes
\* late leaves the lease time of another grant in dhcp_lease_time.
LeasesFit == /\ INFINITE_LEASETIME \notin LeaseTimes
             /\ \A l, m \in LeaseTimes : Overrun(m) <= l

\* A lease is never held past its time: before it ends the client has renewed it
\* or has fallen back to DISCOVER (the renewal at half the lease in DHCP_run and
\* the retry limit of check_DHCP_timeout, taken together), although the ticks
\* counted while a REQUEST blocks are erased each time.
LeaseNotOverrun == LeasesFit /\ Held => age <= grant

\* Why: the tick, the retry counter and the time blocked bound the age of a lease
\* that is held, and the time of a lease is known once it is asked for.
LeasedBound ==
    dhcp_state = "LEASED" =>
        IF pc = "request"
        THEN \E l \in LeaseTimes : age <= l \div 2 + 2 + blocked
        ELSE /\ age <= dhcp_tick_1s + 1
             /\ dhcp_tick_1s <= dhcp_lease_time \div 2 + IF polled THEN 0 ELSE 1

RenewingBound ==
    dhcp_state = "REREQUEST" =>
        /\ \E l \in LeaseTimes :
              age <= l \div 2 + 2 + SendTicks + dhcp_retry_count * Try
                      + IF pc = "request" THEN DHCP_WAIT_TIME + 1 + blocked ELSE dhcp_tick_1s
        /\ IF pc = "request"
           THEN RetriesLeft
           ELSE dhcp_tick_1s <= (IF RetriesLeft THEN DHCP_WAIT_TIME ELSE 0)
                                  + IF polled THEN 0 ELSE 1

AgeBound ==
    LeasesFit =>
        /\ dhcp_state \in {"REQUEST", "LEASED", "REREQUEST"} => dhcp_lease_time \in LeaseTimes
        /\ pc = "probe" \/ Held => grant \in LeaseTimes
        /\ pc = "probe" => age <= IF polled THEN 0 ELSE 1
        /\ blocked \in 0..SendTicks
        /\ LeasedBound
        /\ RenewingBound
===============================================================================
