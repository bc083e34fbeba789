---------------------------- MODULE DhcpUse_proofs ----------------------------
(***************************************************************************)
(* Proofs about the two ways the DHCP client is used: ticked and polled as *)
(* dhcp.h asks (DhcpLease), where no lease is held past its time, for      *)
(* every lease time, wait and retry limit that fit; and as the firmware    *)
(* does it (FirmwareDhcp), where the chip has an address after the start   *)
(* and, when it is a leased one, the lease behind it.                      *)
(***************************************************************************)
EXTENDS DhcpLease, FirmwareDhcp, DhcpClient_proofs

-------------------------------------------------------------------------------
(* The lease and time.                                                     *)

\* The timed client is the client of DhcpClient, with less freedom.
LEMMA TimedRefines == TimedSpec => Spec
  <1>1. TimedInit => Init
    BY DEF TimedInit
  <1>2. [TimedNext]_timedVars => [Next]_vars
    BY DEF TimedNext, LoopCall, Second, Network, Next, timedVars
  <1> QED
    BY <1>1, <1>2, PTL DEF TimedSpec, Spec

\* A try is a number of seconds.
LEMMA TryTime == Try \in Nat /\ Try = DHCP_WAIT_TIME + 1 + SendTicks
  BY ConstantsOK, SendTicksOK DEF Try

\* The product that bounds the time spent in retries grows with the retries.
LEMMA RetryTime ==
    ASSUME NEW r \in Nat
    PROVE  /\ r * Try \in Nat
           /\ (r + 1) * Try = r * Try + Try
           /\ r < MAX_DHCP_RETRY => (r + 1) * Try <= MAX_DHCP_RETRY * Try
  <1>1. Try \in Nat /\ MAX_DHCP_RETRY \in Nat
    BY ConstantsOK, TryTime
  <1>2. ASSUME NEW w \in Nat PROVE r * w \in Nat /\ (r + 1) * w = r * w + w
    BY <1>2
  <1>3. ASSUME NEW w \in Nat, NEW m \in Nat, r < m PROVE (r + 1) * w <= m * w
    <2>1. PICK d \in Nat : m = r + 1 + d
      <3>1. m - (r + 1) \in Nat /\ m = r + 1 + (m - (r + 1))
        BY <1>3
      <3> QED
        BY <3>1
    <2>2. m * w = (r + 1) * w + d * w /\ d * w \in Nat /\ (r + 1) * w \in Nat
      BY <2>1
    <2> QED
      BY <2>2
  <1> QED
    BY <1>1, <1>2, <1>3

\* What a call of DHCP_run does to the lease time.
LEMMA ParsedLease ==
    ASSUME IInv, parseDHCPMSG
    PROVE  /\ type \in {"OFFER", "ACK"} => /\ dhcp_lease_time' = Head(rxq).lease
                                           /\ dhcp_lease_time' \in LeaseTimes
           /\ type \notin {"OFFER", "ACK"} => dhcp_lease_time' = dhcp_lease_time
  <1>1. Received => Head(rxq) \in Replies
    BY HeadReply DEF IInv, ClientTypes, Received
  <1>2. type \in {"OFFER", "ACK"} => Received /\ Head(rxq).type = type
    BY CallTypes DEF IInv, type
  <1> QED
    BY <1>1, <1>2, ReplyFields DEF parseDHCPMSG, params

\* The bound on the age is inductive.
LEMMA AgeStep ==
    ASSUME LeasesFit, IInv, age \in Nat, AgeBound, [TimedNext]_timedVars
    PROVE  AgeBound' /\ age' \in Nat
  <1>a. /\ LeaseTimes \subseteq Nat
        /\ INFINITE_LEASETIME \notin LeaseTimes
        /\ dhcp_tick_1s \in Nat /\ dhcp_retry_count \in Nat
        /\ DHCP_WAIT_TIME \in Nat /\ MAX_DHCP_RETRY \in Nat
        /\ \A l \in LeaseTimes : l \div 2 \in Nat /\ l \div 2 < TickMax
        /\ TickMax \in Nat /\ DHCP_WAIT_TIME < TickMax
        /\ AgeMax \in Nat /\ SendTicks \in Nat
        /\ Try \in Nat /\ Try = DHCP_WAIT_TIME + 1 + SendTicks
    <2>1. dhcp_tick_1s \in Nat /\ dhcp_retry_count \in Nat
      BY ConstantsOK, TickMaxOK DEF IInv, ClientTypes
    <2>2. LeaseTimes \subseteq Nat /\ INFINITE_LEASETIME \notin LeaseTimes
      BY ConstantsOK DEF LeasesFit
    <2>3. \A l \in LeaseTimes : l \div 2 \in Nat /\ l \div 2 < TickMax
      BY <2>2, TickMaxOK
    <2>4. DHCP_WAIT_TIME \in Nat /\ MAX_DHCP_RETRY \in Nat
      BY ConstantsOK
    <2> QED
      BY <2>1, <2>2, <2>3, <2>4, TickMaxOK, AgeMaxOK, SendTicksOK, TryTime
  <1>b. /\ dhcp_state \in {"REQUEST", "LEASED", "REREQUEST"} => dhcp_lease_time \in LeaseTimes
        /\ pc \in {"probe", "declined"} => dhcp_state = "REQUEST"
        /\ pc = "request" => dhcp_state \in {"LEASED", "REREQUEST"}
        /\ pc \in {"idle", "request", "probe", "declined"}
        /\ pc = "probe" \/ Held => grant \in LeaseTimes
        /\ pc = "probe" => age <= IF polled THEN 0 ELSE 1
        /\ blocked \in 0..SendTicks
    BY DEF AgeBound, IInv, Bound, ClientTypes
  <1>c. dhcp_state = "LEASED" =>
             /\ pc = "request" => \E l \in LeaseTimes : age <= l \div 2 + 2 + blocked
             /\ pc = "idle" => /\ age <= dhcp_tick_1s + 1
                               /\ dhcp_tick_1s <= dhcp_lease_time \div 2 + IF polled THEN 0 ELSE 1
    BY DEF AgeBound, LeasedBound
  <1>d. dhcp_state = "REREQUEST" =>
             /\ \E l \in LeaseTimes :
                   age <= l \div 2 + 2 + SendTicks + dhcp_retry_count * Try
                            + IF pc = "request" THEN DHCP_WAIT_TIME + 1 + blocked ELSE dhcp_tick_1s
             /\ pc = "request" => RetriesLeft
             /\ pc = "idle" => dhcp_tick_1s <= (IF RetriesLeft THEN DHCP_WAIT_TIME ELSE 0)
                                                 + IF polled THEN 0 ELSE 1
    BY DEF AgeBound, RenewingBound
  <1>e. /\ parseDHCPMSG /\ type \in {"OFFER", "ACK"} => /\ dhcp_lease_time' = Head(rxq).lease
                                                       /\ dhcp_lease_time' \in LeaseTimes
        /\ parseDHCPMSG /\ type \notin {"OFFER", "ACK"} => dhcp_lease_time' = dhcp_lease_time
    BY ParsedLease
  <1>f. dhcp_retry_count * Try \in Nat /\ (dhcp_retry_count + 1) * Try = dhcp_retry_count * Try + Try
    BY <1>a, RetryTime
  \* A second passes.
  <1>1. CASE Second
    <2>1. /\ age' \in Nat /\ age' <= age + 1
          /\ dhcp_tick_1s' = Ticked
          /\ ~polled'
      BY <1>1, <1>a DEF Second, DHCP_time_handler
    <2>2. UNCHANGED <<dhcp_state, dhcp_retry_count, dhcp_lease_time, pc, grant>>
      BY <1>1 DEF Second, DHCP_time_handler, params
    <2>3. /\ pc = "request" => blocked' = blocked + 1 /\ blocked' <= SendTicks
          /\ pc # "request" => blocked' = blocked
          /\ pc \in {"idle", "probe"} => polled
          /\ blocked' \in 0..SendTicks
      BY <1>1, <1>a, <1>b DEF Second
    <2>4. pc = "probe" => age' <= 1
      BY <2>1, <2>3, <1>b
    <2>5. LeasedBound'
      <3>1. CASE dhcp_state = "LEASED" /\ pc = "idle"
        <4>1. PICK h \in Nat : h = dhcp_lease_time \div 2 /\ h < TickMax
          BY <3>1, <1>a, <1>b
        <4>2. dhcp_tick_1s <= h /\ age <= dhcp_tick_1s + 1
          BY <3>1, <4>1, <2>3, <1>a, <1>c
        <4>3. dhcp_tick_1s' = dhcp_tick_1s + 1
          BY <2>1, <4>1, <4>2, <1>a DEF Ticked
        <4>4. age' <= dhcp_tick_1s' + 1 /\ dhcp_tick_1s' <= h + 1
          BY <2>1, <4>2, <4>3, <1>a
        <4> QED
          BY <2>1, <2>2, <3>1, <4>1, <4>4 DEF LeasedBound
      <3>2. CASE dhcp_state = "LEASED" /\ pc = "request"
        <4>1. PICK l \in LeaseTimes : age <= l \div 2 + 2 + blocked
          BY <3>2, <1>c
        <4>2. age' <= l \div 2 + 2 + blocked'
          BY <4>1, <3>2, <2>1, <2>3, <1>a, <1>b
        <4> QED
          BY <2>2, <3>2, <4>2 DEF LeasedBound
      <3> QED
        BY <3>1, <3>2, <2>2, <1>b DEF LeasedBound
    <2>6. RenewingBound'
      <3>1. CASE dhcp_state = "REREQUEST" /\ pc = "idle"
        <4>1. dhcp_tick_1s <= IF RetriesLeft THEN DHCP_WAIT_TIME ELSE 0
          BY <3>1, <2>3, <1>a, <1>d
        <4>2. dhcp_tick_1s' = dhcp_tick_1s + 1
          BY <2>1, <4>1, <1>a DEF Ticked
        <4>3. PICK l \in LeaseTimes :
                 age <= l \div 2 + 2 + SendTicks + dhcp_retry_count * Try + dhcp_tick_1s
          BY <3>1, <1>d
        <4>4. age' <= l \div 2 + 2 + SendTicks + dhcp_retry_count * Try + dhcp_tick_1s'
          BY <2>1, <4>2, <4>3, <1>a, <1>f
        <4>5. dhcp_tick_1s' <= (IF RetriesLeft THEN DHCP_WAIT_TIME ELSE 0) + 1
          BY <4>1, <4>2, <1>a
        <4> QED
          BY <2>1, <2>2, <3>1, <4>4, <4>5 DEF RenewingBound, RetriesLeft
      <3>2. CASE dhcp_state = "REREQUEST" /\ pc = "request"
        <4>1. PICK l \in LeaseTimes :
                 age <= l \div 2 + 2 + SendTicks + dhcp_retry_count * Try
                          + (DHCP_WAIT_TIME + 1 + blocked)
          BY <3>2, <1>d
        <4>2. age' <= l \div 2 + 2 + SendTicks + dhcp_retry_count * Try
                          + (DHCP_WAIT_TIME + 1 + blocked')
          BY <4>1, <3>2, <2>1, <2>3, <1>a, <1>b, <1>f
        <4> QED
          BY <2>2, <3>2, <4>2, <1>d DEF RenewingBound, RetriesLeft
      <3> QED
        BY <3>1, <3>2, <2>2, <1>b DEF RenewingBound
    <2> QED
      BY <2>1, <2>2, <2>3, <2>4, <2>5, <2>6, <1>b DEF AgeBound, Held
  \* The network delivers, or nothing happens.
  <1>2. CASE Network \/ UNCHANGED timedVars
    <2>1. UNCHANGED <<dhcp_state, dhcp_retry_count, dhcp_tick_1s, dhcp_lease_time, pc,
                      age, grant, polled, blocked>>
      BY <1>2 DEF Network, ServerOffer, ServerAck, ServerNak, Deliver, timedVars, vars,
                  timeout, params
    <2> QED
      BY <2>1 DEF AgeBound, LeasedBound, RenewingBound, Held, RetriesLeft
  \* A call of the main loop, or the end of one.
  <1>3. CASE LoopCall
    <2>a. /\ polled' /\ blocked' = 0 /\ blocked' \in 0..SendTicks
          /\ RunAck \/ RunRenewAck => age' = 0 /\ grant' = Head(rxq).lease
          /\ ~(RunAck \/ RunRenewAck) => age' = age /\ grant' = grant
          /\ age' \in Nat
      BY <1>3, <1>a DEF LoopCall
    <2>b. ASSUME dhcp_state' \in {"INIT", "DISCOVER", "STOP"}, pc' # "probe" PROVE AgeBound'
      BY <2>a, <2>b DEF AgeBound, LeasedBound, RenewingBound, Held
    <2>c. ASSUME pc' \in {"idle", "probe", "declined"}, dhcp_state' \notin {"LEASED", "REREQUEST"}
          PROVE  LeasedBound' /\ RenewingBound'
      BY <2>c DEF LeasedBound, RenewingBound
    <2>1. CASE RunStopped \/ DHCP_stop \/ RunInit \/ RunNak \/ RunGiveUp \/ Declined \/ DHCP_init
      <3>1. dhcp_state' \in {"INIT", "DISCOVER", "STOP"} /\ pc' # "probe"
        BY <2>1 DEF RunStopped, DHCP_stop, RunInit, RunNak, RunGiveUp, Declined, DHCP_init, Run,
                    Call, Unanswered, Waiting
      <3> QED
        BY <3>1, <2>b, <2>a
    <2>2. CASE RunOffer
      BY <2>2, <2>a, <2>c, <1>e DEF RunOffer, Run, Call, AgeBound, Held
    <2>3. CASE RunAck
      <3>1. dhcp_state' = "REQUEST" /\ dhcp_lease_time' \in LeaseTimes
        BY <2>3, <1>e DEF RunAck, Run, Call
      <3> QED
        BY <3>1, <2>3, <2>a, <2>c, <1>e DEF RunAck, Run, Call, AgeBound, Held
    <2>4. CASE ProbeConflict
      BY <2>4, <2>a, <2>c, <1>b DEF ProbeConflict, params, AgeBound, Held
    <2>5. CASE ProbeUnique
      <3>1. /\ dhcp_state' = "LEASED" /\ pc' = "idle" /\ dhcp_tick_1s' = 0
            /\ dhcp_lease_time' = dhcp_lease_time /\ dhcp_lease_time \in LeaseTimes
            /\ ~(RunAck \/ RunRenewAck)
        BY <2>5, <1>b DEF ProbeUnique, reset_DHCP_timeout, params, RunAck, RunRenewAck, Run, Call
      <3>2. age <= 1
        BY <2>5, <1>b DEF ProbeUnique
      <3> QED
        BY <3>1, <3>2, <2>5, <2>a, <1>a, <1>b
        DEF ProbeUnique, AgeBound, LeasedBound, RenewingBound, Held
    <2>6. CASE RunLeased
      <3>1. /\ dhcp_state = "LEASED" /\ dhcp_state' = "LEASED" /\ pc = "idle" /\ pc' = "idle"
            /\ dhcp_tick_1s' = dhcp_tick_1s
            /\ dhcp_lease_time' \in LeaseTimes
            /\ ~(RunAck \/ RunRenewAck)
        BY <2>6, <1>b, <1>e DEF RunLeased, Run, Call, timeout, RunAck, RunRenewAck
      <3>2. PICK h \in Nat : h = dhcp_lease_time' \div 2
        BY <3>1, <1>a
      <3>3. ~(h < dhcp_tick_1s)
        BY <2>6, <3>1, <3>2, <1>a DEF RunLeased, RenewalDue
      <3>4. dhcp_tick_1s' <= dhcp_lease_time' \div 2 + IF polled' THEN 0 ELSE 1
        <4>1. dhcp_tick_1s' <= h + 0
          BY <3>1, <3>3, <1>a
        <4> QED
          BY <4>1, <3>2, <2>a
      <3>5. age' <= dhcp_tick_1s' + 1
        BY <3>1, <2>a, <1>c
      <3> QED
        BY <3>1, <3>4, <3>5, <2>a, <1>b DEF AgeBound, LeasedBound, RenewingBound, Held
    <2>7. CASE RunRenew
      <3>1. /\ dhcp_state = "LEASED" /\ dhcp_state' = "LEASED" /\ pc = "idle" /\ pc' = "request"
            /\ dhcp_lease_time' \in LeaseTimes
            /\ ~(RunAck \/ RunRenewAck)
        BY <2>7, <1>b, <1>e
        DEF RunRenew, Run, Call, send_DHCP_REQUEST_Unicast, RunAck, RunRenewAck
      <3>2. age <= dhcp_lease_time \div 2 + 2 + 0
        <4>1. PICK h \in Nat : h = dhcp_lease_time \div 2
          BY <3>1, <1>a, <1>b
        <4>2. age <= dhcp_tick_1s + 1 /\ dhcp_tick_1s <= h + 1
          BY <3>1, <4>1, <1>a, <1>c
        <4> QED
          BY <4>1, <4>2, <1>a
      <3>3. \E l \in LeaseTimes : age' <= l \div 2 + 2 + blocked'
        BY <3>1, <3>2, <2>a, <1>b
      <3> QED
        BY <3>1, <3>3, <2>a, <1>b DEF AgeBound, LeasedBound, RenewingBound, Held
    <2>8. CASE RunRenewAck
      <3>1. /\ dhcp_state' = "LEASED" /\ pc' = "idle" /\ dhcp_tick_1s' = 0
            /\ dhcp_lease_time' \in LeaseTimes /\ dhcp_lease_time' = Head(rxq).lease
        BY <2>8, <1>e DEF RunRenewAck, Call, reset_DHCP_timeout
      <3> QED
        BY <3>1, <2>8, <2>a, <1>a DEF AgeBound, LeasedBound, RenewingBound, Held
    <2>9. CASE RunWait
      <3>1. /\ dhcp_state' = dhcp_state /\ dhcp_state \in Waiting /\ pc = "idle" /\ pc' = "idle"
            /\ dhcp_tick_1s' = dhcp_tick_1s /\ dhcp_retry_count' = dhcp_retry_count
            /\ dhcp_tick_1s <= DHCP_WAIT_TIME /\ RetriesLeft
            /\ dhcp_state # "DISCOVER" => dhcp_lease_time' \in LeaseTimes
            /\ ~(RunAck \/ RunRenewAck)
        BY <2>9, <1>b, <1>e
        DEF RunWait, Run, Call, timeout, Unanswered, Waiting, RunAck, RunRenewAck
      <3> QED
        BY <3>1, <2>a, <1>a, <1>b, <1>d
        DEF AgeBound, LeasedBound, RenewingBound, Held, RetriesLeft, Waiting
    <2>10. CASE RunResend
      <3>1. /\ dhcp_state' \in {"DISCOVER", "REQUEST"} /\ pc' = "idle"
            /\ dhcp_state' = "REQUEST" => dhcp_lease_time' \in LeaseTimes
        BY <2>10, <1>b, <1>e DEF RunResend, Run, Call, Unanswered, Waiting
      <3> QED
        BY <3>1, <2>a, <2>c DEF AgeBound, Held
    <2>11. CASE RunRerequest
      <3>1. /\ dhcp_state = "REREQUEST" /\ dhcp_state' = "REREQUEST"
            /\ pc = "idle" /\ pc' = "request"
            /\ dhcp_retry_count' = dhcp_retry_count /\ RetriesLeft
            /\ dhcp_lease_time' \in LeaseTimes
            /\ ~(RunAck \/ RunRenewAck)
        BY <2>11, <1>b, <1>e
        DEF RunRerequest, Run, Call, timeout, TimedOut, Unanswered, send_DHCP_REQUEST_Unicast,
            RunAck, RunRenewAck
      <3>2. PICK l \in LeaseTimes :
               age <= l \div 2 + 2 + SendTicks + dhcp_retry_count * Try + dhcp_tick_1s
        BY <3>1, <1>d
      <3>3. dhcp_tick_1s <= DHCP_WAIT_TIME + 1
        BY <3>1, <1>a, <1>d
      <3>4. age' <= l \div 2 + 2 + SendTicks + dhcp_retry_count * Try
                      + (DHCP_WAIT_TIME + 1 + blocked')
        BY <3>1, <3>2, <3>3, <2>a, <1>a, <1>f
      <3> QED
        BY <3>1, <3>4, <2>a, <1>b DEF AgeBound, LeasedBound, RenewingBound, Held, RetriesLeft
    <2>12. CASE SendOk \/ SendTimeout
      <3>1. /\ pc = "request" /\ pc' = "idle" /\ dhcp_tick_1s' = 0
            /\ dhcp_state' = "REREQUEST" /\ dhcp_state \in {"LEASED", "REREQUEST"}
            /\ dhcp_state = "LEASED" => dhcp_retry_count' = 0
            /\ dhcp_state = "REREQUEST" => dhcp_retry_count' = dhcp_retry_count + 1
            /\ dhcp_lease_time' = dhcp_lease_time
            /\ ~(RunAck \/ RunRenewAck)
        BY <2>12 DEF SendOk, SendTimeout, Requested, params, RunAck, RunRenewAck, Run, Call
      <3>2. \E l \in LeaseTimes :
               age' <= l \div 2 + 2 + SendTicks + dhcp_retry_count' * Try + dhcp_tick_1s'
        <4>1. CASE dhcp_state = "LEASED"
          <5>1. PICK l \in LeaseTimes : age <= l \div 2 + 2 + blocked
            BY <3>1, <4>1, <1>c
          <5>2. 0 * Try = 0
            BY <1>a
          <5>3. age' <= l \div 2 + 2 + SendTicks + 0 * Try + 0
            BY <5>1, <5>2, <3>1, <2>a, <1>a, <1>b
          <5> QED
            BY <5>3, <3>1, <4>1
        <4>2. CASE dhcp_state = "REREQUEST"
          <5>1. PICK l \in LeaseTimes :
                   age <= l \div 2 + 2 + SendTicks + dhcp_retry_count * Try
                            + (DHCP_WAIT_TIME + 1 + blocked)
            BY <3>1, <4>2, <1>d
          <5>2. age' <= l \div 2 + 2 + SendTicks + (dhcp_retry_count + 1) * Try + 0
            BY <5>1, <3>1, <2>a, <1>a, <1>b, <1>f
          <5> QED
            BY <5>2, <3>1, <4>2
        <4> QED
          BY <4>1, <4>2, <3>1
      <3> QED
        BY <3>1, <3>2, <2>a, <1>a, <1>b DEF AgeBound, LeasedBound, RenewingBound, Held, RetriesLeft
    <2> QED
      BY <1>3, <2>a, <2>1, <2>2, <2>3, <2>4, <2>5, <2>6, <2>7, <2>8, <2>9, <2>10, <2>11, <2>12
      DEF LoopCall, DHCP_run, ChipReports
  <1> QED
    BY <1>1, <1>2, <1>3 DEF TimedNext, Second

\* The age stays within the bound, and the bound within the lease.
LEMMA AgeInvariance == LeasesFit => (TimedSpec => [](IInv /\ AgeBound /\ age \in Nat))
  <1> SUFFICES ASSUME LeasesFit PROVE TimedSpec => [](IInv /\ AgeBound /\ age \in Nat)
    OBVIOUS
  <1>1. TimedInit => AgeBound /\ age \in Nat
    BY SendTicksOK DEF TimedInit, Init, AgeBound, LeasedBound, RenewingBound, Held
  <1>2. IInv /\ AgeBound /\ age \in Nat /\ [TimedNext]_timedVars => AgeBound' /\ (age \in Nat)'
    BY AgeStep
  <1> QED
    BY <1>1, <1>2, TimedRefines, IInvariance, PTL DEF TimedSpec

\* The bound on the age of a lease, for any retry limit, wait and lease times.
THEOREM AgeIsBound == TimedSpec => []AgeBound
  <1>1. CASE LeasesFit
    <2>1. TimedSpec => [](IInv /\ AgeBound /\ age \in Nat)
      BY <1>1, AgeInvariance
    <2> QED
      BY <2>1, PTL
  <1>2. CASE ~LeasesFit
    <2>1. AgeBound
      BY <1>2 DEF AgeBound
    <2> QED
      BY <2>1, PTL
  <1> QED
    BY <1>1, <1>2

\* A client that is ticked once a second and polled between two ticks never holds
\* a lease past its time, though each REQUEST of a renewal may block for SendTicks ticks
\* that it forgets, when every lease time is at least half of every other plus
\* 3 + SendTicks seconds plus MAX_DHCP_RETRY tries.  With the code's 2 and 10 and the
\* chip's 2 that is 62 seconds for leases of one length.
THEOREM NeverOverrun == LeasesFit => (TimedSpec => []LeaseNotOverrun)
  <1> SUFFICES ASSUME LeasesFit PROVE TimedSpec => []LeaseNotOverrun
    OBVIOUS
  <1>1. ASSUME IInv, AgeBound, age \in Nat, Held PROVE age <= grant
    <2>a. /\ LeaseTimes \subseteq Nat
          /\ dhcp_tick_1s \in Nat /\ dhcp_retry_count \in 0..MAX_DHCP_RETRY
          /\ DHCP_WAIT_TIME \in Nat /\ MAX_DHCP_RETRY \in Nat
          /\ \A l \in LeaseTimes : l \div 2 \in Nat
          /\ grant \in LeaseTimes /\ dhcp_lease_time \in LeaseTimes
          /\ blocked \in 0..SendTicks /\ SendTicks \in Nat
          /\ Try \in Nat /\ Try = DHCP_WAIT_TIME + 1 + SendTicks
          /\ pc \in {"idle", "request"}
      <3>1. LeaseTimes \subseteq Nat /\ DHCP_WAIT_TIME \in Nat /\ MAX_DHCP_RETRY \in Nat
        BY ConstantsOK
      <3>2. \A l \in LeaseTimes : l \div 2 \in Nat
        BY <3>1
      <3>3. /\ dhcp_tick_1s \in Nat /\ dhcp_retry_count \in 0..MAX_DHCP_RETRY
            /\ pc \in {"idle", "request"}
        BY <1>1 DEF IInv, ClientTypes, Bound, Held
      <3>4. /\ grant \in LeaseTimes /\ dhcp_lease_time \in LeaseTimes
            /\ blocked \in 0..SendTicks
        BY <1>1 DEF AgeBound, Held
      <3> QED
        BY <3>1, <3>2, <3>3, <3>4, SendTicksOK, TryTime
    <2>b. MAX_DHCP_RETRY * Try \in Nat
      BY <2>a, RetryTime
    <2>c. \A m \in LeaseTimes : m \div 2 + 3 + SendTicks + MAX_DHCP_RETRY * Try <= grant
      BY <2>a DEF LeasesFit, Overrun
    <2>1. CASE dhcp_state = "LEASED"
      <3>1. CASE pc = "idle"
        <4>1. PICK h \in Nat : h = dhcp_lease_time \div 2
          BY <2>a
        <4>2. age <= dhcp_tick_1s + 1 /\ dhcp_tick_1s <= h + 1
          BY <1>1, <2>1, <2>a, <3>1, <4>1 DEF AgeBound, LeasedBound
        <4> QED
          BY <1>1, <2>a, <2>b, <2>c, <4>1, <4>2
      <3>2. CASE pc = "request"
        <4>1. PICK l \in LeaseTimes : age <= l \div 2 + 2 + blocked
          BY <1>1, <2>1, <3>2 DEF AgeBound, LeasedBound
        <4>2. l \div 2 + 3 + SendTicks + MAX_DHCP_RETRY * Try <= grant
          BY <2>c
        <4> QED
          BY <1>1, <2>a, <2>b, <4>1, <4>2
      <3> QED
        BY <3>1, <3>2, <2>a
    <2>2. CASE dhcp_state = "REREQUEST"
      <3> DEFINE spent == dhcp_retry_count * Try
                 all == MAX_DHCP_RETRY * Try
      <3>1. PICK l \in LeaseTimes :
               age <= l \div 2 + 2 + SendTicks + spent
                        + IF pc = "request" THEN DHCP_WAIT_TIME + 1 + blocked ELSE dhcp_tick_1s
        BY <1>1, <2>2 DEF AgeBound, RenewingBound
      <3>2. /\ spent \in Nat /\ all \in Nat
            /\ RetriesLeft => spent + Try <= all
            /\ ~RetriesLeft => spent = all
        BY <2>a, <2>b, RetryTime DEF RetriesLeft
      <3>3. l \div 2 + 3 + SendTicks + all <= grant
        BY <2>c
      <3> HIDE DEF spent, all
      <3>4. CASE pc = "request"
        <4>1. RetriesLeft
          BY <1>1, <2>2, <3>4 DEF AgeBound, RenewingBound
        <4> QED
          BY <1>1, <2>a, <3>1, <3>2, <3>3, <3>4, <4>1
      <3>5. CASE pc = "idle"
        <4>1. dhcp_tick_1s <= (IF RetriesLeft THEN DHCP_WAIT_TIME ELSE 0) + 1
          BY <1>1, <2>2, <2>a, <3>5 DEF AgeBound, RenewingBound
        <4> QED
          BY <1>1, <2>a, <3>1, <3>2, <3>3, <3>5, <4>1
      <3> QED
        BY <3>4, <3>5, <2>a
    <2> QED
      BY <1>1, <2>1, <2>2 DEF Held
  <1>2. IInv /\ AgeBound /\ age \in Nat => LeaseNotOverrun
    BY <1>1 DEF LeaseNotOverrun
  <1> QED
    BY <1>2, AgeInvariance, PTL

-------------------------------------------------------------------------------
(* The firmware.                                                           *)

\* The client's strengthening says nothing of the chip's address register, so it
\* holds with an address W5500_Init wrote, too.  The tick stands still and no retry is
\* counted, which keeps a lease for ever; the flag of the callbacks stands for a lease that is held.
ChipAddress ==
    /\ boot # "loop" => sipr = None
    /\ boot = "loop" => \/ sipr = StaticIP
                        \/ dhcp_state = "LEASED" /\ sipr = DHCP_allocated_ip

FInv == /\ IInv
        /\ dhcp_tick_1s = 0 /\ dhcp_retry_count = 0 /\ waited = 0 /\ ret # "DHCP_FAILED"
        /\ pc # "request"
        /\ ip_assigned => dhcp_state = "LEASED"
        /\ ChipAddress

\* Without a tick no renewal is ever due.
LEMMA NeverDue == ASSUME IInv, dhcp_tick_1s = 0, parseDHCPMSG PROVE ~RenewalDue
  <1>1. dhcp_lease_time' \in Leases
    BY CallTypes DEF IInv
  <1>2. dhcp_lease_time' # INFINITE_LEASETIME => dhcp_lease_time' \div 2 \in Nat
    BY <1>1, ConstantsOK DEF Leases
  <1> QED
    BY <1>2 DEF RenewalDue

\* A step of DHCP_run or of the probe in it: a lease that is held stays as it is, the
\* chip's address is left alone, and the counters stay at zero.
LEMMA ClientKeeps ==
    ASSUME FInv, ClientStep
    PROVE  /\ UNCHANGED <<sipr, dhcp_tick_1s, dhcp_retry_count, waited>> /\ ret' # "DHCP_FAILED"
           /\ dhcp_state = "LEASED" => dhcp_state' = "LEASED" /\ DHCP_allocated_ip' = DHCP_allocated_ip
           /\ pc = "declined" => pc' = "declined"
           /\ pc' # "request"
           /\ ip_assigned' => dhcp_state' = "LEASED"
           /\ [Next]_vars
  <1>a. /\ ~DefaultCallbacks /\ pc # "request" /\ (pc # "idle" => dhcp_state = "REQUEST")
        /\ dhcp_tick_1s = 0 /\ dhcp_retry_count = 0 /\ waited = 0 /\ ret # "DHCP_FAILED"
        /\ ip_assigned => dhcp_state = "LEASED"
        /\ MAX_DHCP_RETRY \in Nat /\ MAX_DHCP_RETRY > 0 /\ DHCP_WAIT_TIME \in Nat
    BY FirmwareOK, ConstantsOK DEF FInv, IInv, ClientTypes, Bound
  <1>0. [Next]_vars
    BY DEF ClientStep, Next
  <1>1. CASE RunStopped \/ RunInit \/ RunOffer \/ RunAck \/ RunNak
    BY <1>0, <1>1, <1>a
    DEF RunStopped, RunInit, RunOffer, RunAck, RunNak, reset_DHCP_timeout, timeout, chip,
        Run, Call, ClientStep, ProbeUnique, Declined
  <1>2. CASE RunWait
    BY <1>0, <1>2, <1>a
    DEF RunWait, Unanswered, Waiting, timeout, Run, Call, ClientStep, ProbeUnique, Declined
  <1>3. CASE RunLeased
    BY <1>0, <1>3, <1>a DEF RunLeased, timeout, Run, Call, ClientStep, ProbeUnique, Declined
  <1>4. ~RunRenew
    BY <1>a, NeverDue DEF RunRenew, Run, Call, FInv
  <1>5. CASE RunRenewAck
    BY <1>0, <1>5, <1>a
    DEF RunRenewAck, dhcp_ip_update, reset_DHCP_timeout, Call, ClientStep, ProbeUnique, Declined
  <1>6. ~RunResend /\ ~RunRerequest /\ ~RunGiveUp /\ ~Declined /\ ~SendOk /\ ~SendTimeout
    BY <1>a DEF RunResend, RunRerequest, TimedOut, RunGiveUp, RetriesLeft, Declined,
                SendOk, SendTimeout, Requested
  <1>7. CASE ProbeUnique
    BY <1>0, <1>7, <1>a DEF ProbeUnique, dhcp_ip_assign, reset_DHCP_timeout, ClientStep
  <1>8. CASE ProbeConflict
    BY <1>0, <1>8, <1>a DEF ProbeConflict, timeout, chip, ClientStep, ProbeUnique, Declined
  <1> QED
    BY <1>1, <1>2, <1>3, <1>4, <1>5, <1>6, <1>7, <1>8 DEF ClientStep, DHCP_run, ChipReports

LEMMA FInvInit == FirmwareInit => FInv
  BY IInvInit DEF FirmwareInit, FInv, ChipAddress, Init

LEMMA FInvStep == FInv /\ [FirmwareNext]_allVars => FInv'
  <1> SUFFICES ASSUME FInv, [FirmwareNext]_allVars PROVE FInv'
    OBVIOUS
  <1>a. IInv
    BY DEF FInv
  <1>1. CASE ClientStep /\ UNCHANGED boot
    <2>1. /\ UNCHANGED <<sipr, dhcp_tick_1s, dhcp_retry_count, waited>> /\ ret' # "DHCP_FAILED"
          /\ [Next]_vars
          /\ dhcp_state = "LEASED" => dhcp_state' = "LEASED" /\ DHCP_allocated_ip' = DHCP_allocated_ip
          /\ ip_assigned' => dhcp_state' = "LEASED"
          /\ pc' # "request"
      BY <1>1, ClientKeeps
    <2>2. IInv'
      BY <1>a, <2>1, IInvStep
    <2> QED
      BY <1>1, <2>1, <2>2 DEF FInv, ChipAddress
  <1>2. CASE PollEnds
    <2>1. IInv'
      BY <1>a, <1>2
      DEF PollEnds, IInv, ClientTypes, Bound, timeout, params, server
    <2> QED
      BY <1>2, <2>1 DEF PollEnds, LeaseInHand, FInv, ChipAddress, timeout
  <1>3. CASE ServersAnswer
    <2>1. [Next]_vars
      BY <1>3 DEF ServersAnswer, Next
    <2>2. IInv'
      BY <1>a, <2>1, IInvStep
    <2>3. UNCHANGED <<dhcp_state, timeout, waited, ret, pc, DHCP_allocated_ip, sipr, boot, ip_assigned>>
      BY <1>3 DEF ServersAnswer, ServerOffer, ServerAck, ServerNak, Deliver, timeout, firmware
    <2> QED
      BY <2>2, <2>3 DEF FInv, ChipAddress, timeout
  <1>4. CASE UNCHANGED <<vars, ip_assigned>> /\ (boot' = "loop" <=> boot = "loop")
    <2>1. IInv'
      BY <1>a, <1>4, IInvStep
    <2>2. UNCHANGED <<dhcp_state, timeout, waited, ret, pc, DHCP_allocated_ip, sipr, ip_assigned>>
      BY <1>4 DEF vars, timeout, chip
    <2> QED
      BY <1>4, <2>1, <2>2 DEF FInv, ChipAddress, timeout
  <1>5. NoCable \/ StartClient \/ RunUninitialised \/ Cable \/ UNCHANGED allVars =>
            UNCHANGED <<vars, ip_assigned>> /\ (boot' = "loop" <=> boot = "loop")
    BY DEF NoCable, StartClient, RunUninitialised, Cable, allVars, firmware
  <1> QED
    BY <1>1, <1>2, <1>3, <1>4, <1>5 DEF FirmwareNext, Poll, LoopRun

LEMMA FirmwareInvariance == FirmwareSpec => []FInv
  BY FInvInit, FInvStep, PTL DEF FirmwareSpec

-------------------------------------------------------------------------------
\* Whatever the client goes through in W5500_Init and in the loop of threadYield, the
\* chip has an address from the end of the start on.
THEOREM AddressIsKept == FirmwareSpec => []AddressAfterBoot
  <1>1. FInv => AddressAfterBoot
    BY FirmwareOK DEF FInv, ChipAddress, AddressAfterBoot, IInv, Bound
  <1> QED
    BY <1>1, FirmwareInvariance, PTL

\* An address from a server is on the chip only while the client holds its lease.
THEOREM LeaseIsBehind == FirmwareSpec => []ChipBackedByLease
  <1>1. FInv => ChipBackedByLease
    BY FirmwareOK, ConstantsOK DEF FInv, ChipAddress, ChipBackedByLease
  <1> QED
    BY <1>1, FirmwareInvariance, PTL

\* Nothing drives the tick, so nothing runs out: a lease is kept as it is whatever its time,
\* an address conflict is waited out for ever, and the client never fails, so that the
\* restart that LoopRun leaves out would never come.
NothingExpires ==
    [][/\ dhcp_state = "LEASED" => dhcp_state' = "LEASED" /\ UNCHANGED DHCP_allocated_ip
       /\ pc = "declined" => pc' = "declined"
       /\ ret' # "DHCP_FAILED"]_allVars

\* On every board and with any servers: why ConflictWaitEnds is violated.
THEOREM NothingRunsOut == FirmwareSpec => NothingExpires
  <1>1. ASSUME FInv, [FirmwareNext]_allVars
        PROVE  [/\ dhcp_state = "LEASED" => dhcp_state' = "LEASED" /\ UNCHANGED DHCP_allocated_ip
                /\ pc = "declined" => pc' = "declined"
                /\ ret' # "DHCP_FAILED"]_allVars
    <2>1. CASE ClientStep
      BY <1>1, <2>1, ClientKeeps
    <2>2. CASE UNCHANGED <<dhcp_state, DHCP_allocated_ip, pc, ret>>
      BY <1>1, <2>2 DEF FInv
    <2>3. PollEnds \/ NoCable \/ StartClient \/ RunUninitialised \/ Cable \/ ServersAnswer
            => UNCHANGED <<dhcp_state, DHCP_allocated_ip, pc, ret>>
      BY DEF PollEnds, NoCable, StartClient, RunUninitialised, Cable, ServersAnswer, vars,
             ServerOffer, ServerAck, ServerNak, Deliver
    <2> QED
      BY <1>1, <2>1, <2>2, <2>3 DEF FirmwareNext, Poll, LoopRun
  <1> QED
    BY <1>1, FirmwareInvariance, PTL DEF FirmwareSpec, NothingExpires

\* On the board, too, a lease is held or asked for from one server.
THEOREM BoardLeaseFromOneServer == DistinctSources => (FirmwareSpec => []RequestPinned)
  <1> SUFFICES ASSUME DistinctSources PROVE FirmwareSpec => []RequestPinned
    OBVIOUS
  <1>1. FirmwareInit => Pinned
    BY DEF FirmwareInit, Init, Pinned, RequestPinned
  <1>2. FInv /\ Pinned /\ [FirmwareNext]_allVars => Pinned'
    <2> SUFFICES ASSUME FInv, Pinned, [FirmwareNext]_allVars PROVE Pinned'
      OBVIOUS
    <2>1. CASE [Next]_vars
      BY <2>1, PinnedStep DEF FInv
    <2>2. CASE PollEnds
      BY <2>2 DEF PollEnds, Pinned, RequestPinned, params, server
    <2>3. ~PollEnds => [Next]_vars
      BY ClientKeeps
      DEF FirmwareNext, Poll, LoopRun, NoCable, StartClient, RunUninitialised, Cable, ServersAnswer,
          Next, allVars
    <2> QED
      BY <2>1, <2>2, <2>3
  <1>3. Pinned => RequestPinned
    BY DEF Pinned
  <1> QED
    BY <1>1, <1>2, <1>3, FirmwareInvariance, PTL DEF FirmwareSpec
===============================================================================
