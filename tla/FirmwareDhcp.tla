----------------------------- MODULE FirmwareDhcp -----------------------------
(***************************************************************************)
(* How the firmware uses the DHCP client: W5500_Init of                    *)
(* Ethernet_W5500/wizchip_port.c polls it while the board starts, and the  *)
(* loop of threadYield (MQTT_Example.c) calls it for ever after.           *)
(*                                                                         *)
(* The callbacks are wizchip_port.c's own, which set a flag and leave the  *)
(* chip alone, and nothing in the firmware calls DHCP_time_handler: the    *)
(* client's tick stands still.                                             *)
(***************************************************************************)
EXTENDS DhcpClient

CONSTANTS
    StaticIP,  \* netInfo's address, used when no lease was had in time
    PollMax    \* calls of DHCP_run W5500_Init makes

ASSUME FirmwareOK == /\ StaticIP \notin Addrs \cup {None}
                     /\ PollMax \in Nat
                     /\ MAX_DHCP_RETRY > 0
                     /\ ~DefaultCallbacks

VARIABLES
    boot,        \* where the thread is in W5500_Init, or in its loop
    retries,     \* W5500_Init's
    link,        \* the cable is plugged in
    ip_assigned  \* the flag of wizchip_port.c

firmware == <<boot, retries, link, ip_assigned>>
allVars  == <<vars, firmware>>

-------------------------------------------------------------------------------
(* W5500_Init.                                                             *)

\* The cable is waited for a while; then the start is abandoned, and threadYield
\* does not look at what W5500_Init returned.
NoCable ==
    /\ boot = "start"
    /\ ~link
    /\ boot' = "abandoned"
    /\ UNCHANGED <<vars, retries, link, ip_assigned>>

\* DHCP_init: DhcpClient's Init is the state it leaves.
StartClient ==
    /\ boot = "start"
    /\ link
    /\ boot' = "poll"
    /\ UNCHANGED <<vars, retries, link, ip_assigned>>

\* A step of DHCP_run, and the callback it makes.
ClientStep ==
    /\ DHCP_run \/ ChipReports
    /\ ip_assigned' = IF ProbeUnique THEN TRUE ELSE IF Declined THEN FALSE ELSE ip_assigned

Poll ==
    /\ boot = "poll"
    /\ ClientStep
    /\ pc # "idle" \/ (~ip_assigned /\ retries > 0)
    /\ retries' = IF pc = "idle" THEN retries - 1 ELSE retries
    /\ UNCHANGED <<boot, link>>

LeaseInHand_AnyAddress == DHCP_allocated_ip # None \* mutant: any address known will do

LeaseInHand_Assumed == TRUE \* mutant: no fall-back

LeaseInHand == ip_assigned

\* The lease's address, or the static one, is written to the chip, once.
PollEnds ==
    /\ boot = "poll"
    /\ pc = "idle"
    /\ ip_assigned \/ retries = 0
    /\ boot' = "loop"
    /\ sipr' = IF LeaseInHand THEN DHCP_allocated_ip ELSE StaticIP
    /\ UNCHANGED <<dhcp_state, timeout, params, DHCP_XID, server, DHCP_allocated_ip,
                   OLD_allocated_ip, sock, rxq, sent, pc, waited, ret,
                   retries, link, ip_assigned>>

-------------------------------------------------------------------------------
(* threadYield's loop.                                                     *)

\* Without the cable DHCP_run is not called.  DHCP_stop is not called either: the
\* flag the loop tests for it is one of its own that nothing sets.  The restart
\* after DHCP_FAILED is left out: without the tick no retry is counted, so that
\* result is never returned.
LoopRun ==
    /\ boot = "loop"
    /\ pc = "idle" => link
    /\ ClientStep
    /\ UNCHANGED <<boot, retries, link>>

\* After an abandoned start the loop calls a client that was never given a
\* buffer.  What that does is undefined; the model goes no further.
RunUninitialised ==
    /\ boot = "abandoned"
    /\ link
    /\ boot' = "undefined"
    /\ UNCHANGED <<vars, retries, link, ip_assigned>>

Cable == link' = ~link /\ UNCHANGED <<vars, boot, retries, ip_assigned>>

ServersAnswer == /\ link
                 /\ \E s \in Servers : ServerOffer(s) \/ ServerAck(s) \/ ServerNak(s)
                 /\ UNCHANGED firmware

-------------------------------------------------------------------------------
FirmwareInit == /\ Init
                /\ boot = "start"
                /\ retries = PollMax
                /\ link \in BOOLEAN
                /\ ip_assigned = FALSE

FirmwareNext == \/ NoCable \/ StartClient \/ Poll \/ PollEnds
                \/ LoopRun \/ RunUninitialised \/ Cable \/ ServersAnswer

FirmwareSpec == FirmwareInit /\ [][FirmwareNext]_allVars

\* The thread is never stopped: it takes its next step whenever there is one.
FirmwareFair ==
    /\ FirmwareSpec
    /\ WF_allVars(NoCable \/ StartClient \/ Poll \/ PollEnds \/ LoopRun \/ RunUninitialised)

-------------------------------------------------------------------------------
(* Properties.                                                             *)

\* Once the board has started the chip has an address, leased or static, and
\* keeps one, whatever the client goes through later: a NAK, a conflict, the cable
\* pulled before or after the address was had.
AddressAfterBoot == boot = "loop" => sipr # None

\* A leased address is on the chip only while the client holds the lease of that
\* address: W5500_Init reads it between two calls of DHCP_run, after the callback.
ChipBackedByLease ==
    sipr \in Addrs => dhcp_state = "LEASED" /\ sipr = DHCP_allocated_ip

\* check_DHCP_leasedIP: "wait for 1s over; wait to complete to send DECLINE message".
\* The call that found an address conflict goes on after that wait; dhcp.h counts on
\* a timer handler that drives its tick.
ConflictWaitEnds == pc = "declined" ~> pc # "declined"
===============================================================================
