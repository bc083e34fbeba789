--------------------------- MODULE DhcpClient_proofs ---------------------------
(***************************************************************************)
(* Proofs about DhcpClient: its types, that a lease stays with the server  *)
(* it was asked from, and that the chip uses the leased address.           *)
(***************************************************************************)
EXTENDS DhcpClient, TLAPS

-------------------------------------------------------------------------------
\* What a server's datagram carries.
LEMMA ReplyFields ==
    ASSUME NEW m \in Replies
    PROVE  /\ m.sid \in Servers
           /\ m.src = SourceOf[m.sid] /\ m.src \in Sources
           /\ m.type \in {"OFFER", "ACK", "NAK"}
           /\ m.type # "NAK" => m.yip \in Addrs /\ m.lease \in LeaseTimes
  BY DEF Replies, Reply, Nak, Sources

\* The datagram parseDHCPMSG reads.
LEMMA HeadReply ==
    ASSUME rxq \in Seq(Replies), rxq # <<>>
    PROVE  Head(rxq) \in Replies /\ Tail(rxq) \in Seq(Replies)
  OBVIOUS

\* What a call of DHCP_run leaves of the variables parseDHCPMSG writes.
LEMMA CallTypes ==
    ASSUME ClientTypes
    PROVE  /\ type \in {"OFFER", "ACK", "NAK", "none"}
           /\ type # "none" => Received
           /\ ParsedSIP \in Servers \cup {None}
           /\ parseServer => /\ DHCP_SIP' \in Servers \cup {None}
                             /\ DHCP_REAL_SIP' \in Sources \cup {None}
           /\ parseDHCPMSG => /\ dhcp_lease_time' \in Leases
                              /\ DHCP_allocated_opts' \in Servers \cup {None}
           /\ ReadSocket => sock' \in BOOLEAN /\ rxq' \in Seq(Replies)
  <1>1. rxq \in Seq(Replies)
    BY DEF ClientTypes
  <1>2. Received => Head(rxq) \in Replies
    BY <1>1, HeadReply DEF Received
  <1>3. type \in {"OFFER", "ACK", "NAK", "none"} /\ (type # "none" => Received)
    BY <1>2, ReplyFields DEF type
  <1>4. ParsedSIP \in Servers \cup {None}
    BY <1>2, ReplyFields DEF ParsedSIP, ClientTypes
  <1>5. parseServer => DHCP_REAL_SIP' \in Sources \cup {None}
    BY <1>2, ReplyFields DEF parseServer, ClientTypes
  <1>6. parseDHCPMSG => dhcp_lease_time' \in Leases /\ DHCP_allocated_opts' \in Servers \cup {None}
    BY <1>2, <1>3, ReplyFields DEF parseDHCPMSG, type, params, ClientTypes, Leases
  <1>7. ReadSocket => sock' \in BOOLEAN /\ rxq' \in Seq(Replies)
    BY <1>1, HeadReply DEF ReadSocket
  <1> QED
    BY <1>3, <1>4, <1>5, <1>6, <1>7 DEF parseServer
\* The strengthening ClientTypes needs to be inductive: a client that asks for or holds
\* an address knows which address and from which server, so that what it sends
\* is a REQUEST for an address to a server, and it blocks only where DHCP_run does.
Bound == /\ dhcp_state \in {"REQUEST", "LEASED", "REREQUEST"} =>
               DHCP_allocated_ip # None /\ DHCP_SIP # None /\ DHCP_REAL_SIP # None
         /\ pc \in {"probe", "declined"} => dhcp_state = "REQUEST"
         /\ pc = "request" => dhcp_state \in {"LEASED", "REREQUEST"}
         /\ pc = "request" /\ dhcp_state = "REREQUEST" => RetriesLeft

IInv == ClientTypes /\ Bound

\* The type of everything a call of DHCP_run in a state with a server leaves.
LEMMA BoundParse ==
    ASSUME IInv
    PROVE  /\ type \in {"OFFER", "ACK"} => Head(rxq).yip \in Addrs
           /\ dhcp_state \in {"REQUEST", "LEASED", "REREQUEST"} \/ type # "none" =>
                 /\ ParsedSIP \in Servers
                 /\ parseServer => /\ DHCP_SIP' \in Servers
                                   /\ DHCP_REAL_SIP' \in Sources
  <1>1. /\ rxq \in Seq(Replies)
        /\ Received => rxq # <<>>
        /\ type # "none" => Received
    BY CallTypes DEF IInv, ClientTypes, Received
  <1>2. Received => Head(rxq) \in Replies
    BY <1>1, HeadReply
  <1>3. type \in {"OFFER", "ACK"} => Head(rxq).yip \in Addrs
    BY <1>1, <1>2, ReplyFields DEF type
  <1>4. Received => Head(rxq).sid \in Servers /\ Head(rxq).src \in Sources
    BY <1>2, ReplyFields
  <1>5. dhcp_state \in {"REQUEST", "LEASED", "REREQUEST"} =>
            DHCP_SIP \in Servers /\ DHCP_REAL_SIP \in Sources
    BY DEF IInv, Bound, ClientTypes
  <1> QED
    BY <1>1, <1>3, <1>4, <1>5 DEF ParsedSIP, parseServer
\* Every step preserves the strengthening.
LEMMA IInvStep == IInv /\ [Next]_vars => IInv'
  <1> SUFFICES ASSUME IInv, [Next]_vars PROVE IInv'
    OBVIOUS
  <1>a. IInv
    OBVIOUS
  <1>b. /\ type \in {"OFFER", "ACK", "NAK", "none"}
        /\ parseServer => DHCP_SIP' \in Servers \cup {None} /\ DHCP_REAL_SIP' \in Sources \cup {None}
        /\ parseDHCPMSG => /\ dhcp_lease_time' \in Leases
                           /\ DHCP_allocated_opts' \in Servers \cup {None}
        /\ ReadSocket => sock' \in BOOLEAN /\ rxq' \in Seq(Replies)
    BY CallTypes DEF IInv
  <1>c. /\ 0 \in 0..MAX_DHCP_RETRY /\ 0 \in 0..TickMax /\ 0 \in 0..(XidMod - 1)
        /\ (DHCP_XID + 1) % XidMod \in 0..(XidMod - 1)
        /\ <<>> \in Seq(Replies)
        /\ MAX_DHCP_RETRY \in Nat
    BY <1>a, ConstantsOK, TickMaxOK DEF IInv, ClientTypes
  <1>d. /\ None \notin Servers /\ None \notin Sources /\ None \notin Addrs
        /\ type \in {"OFFER", "ACK"} => Head(rxq).yip \in Addrs
        /\ dhcp_state \in {"REQUEST", "LEASED", "REREQUEST"} \/ type # "none" =>
              /\ ParsedSIP \in Servers
              /\ parseServer => DHCP_SIP' \in Servers /\ DHCP_REAL_SIP' \in Sources
    BY BoundParse, ConstantsOK DEF Sources
  <1>RunStopped. ASSUME RunStopped PROVE IInv'
    BY <1>a, <1>b, <1>c, <1>d, <1>RunStopped
    DEF IInv, ClientTypes, Bound, States, Returns,
        RunStopped, timeout, params, server, chip
  <1>RunInit. ASSUME RunInit PROVE IInv'
    BY <1>a, <1>b, <1>c, <1>d, <1>RunInit
    DEF IInv, ClientTypes, Bound, States, Returns,
        RunInit, Run, Call, timeout, send_DHCP_DISCOVER, Requests
  <1>RunOffer. ASSUME RunOffer PROVE IInv'
    BY <1>a, <1>b, <1>c, <1>d, <1>RunOffer
    DEF IInv, ClientTypes, Bound, States, Returns,
        RunOffer, Run, Call, timeout, send_DHCP_REQUEST, Requests
  <1>RunAck. ASSUME RunAck PROVE IInv'
    BY <1>a, <1>b, <1>c, <1>d, <1>RunAck
    DEF IInv, ClientTypes, Bound, States, Returns,
        RunAck, Run, Call, timeout
  <1>RunNak. ASSUME RunNak PROVE IInv'
    BY <1>a, <1>b, <1>c, <1>d, <1>RunNak
    DEF IInv, ClientTypes, Bound, States, Returns,
        RunNak, Run, Call, reset_DHCP_timeout
  <1>RunLeased. ASSUME RunLeased PROVE IInv'
    BY <1>a, <1>b, <1>c, <1>d, <1>RunLeased
    DEF IInv, ClientTypes, Bound, States, Returns,
        RunLeased, Run, Call, timeout
  <1>RunRenew. ASSUME RunRenew PROVE IInv'
    BY <1>a, <1>b, <1>c, <1>d, <1>RunRenew
    DEF IInv, ClientTypes, Bound, States, Returns,
        RunRenew, Run, Call, timeout, send_DHCP_REQUEST_Unicast
  <1>RunRenewAck. ASSUME RunRenewAck PROVE IInv'
    BY <1>a, <1>b, <1>c, <1>d, <1>RunRenewAck
    DEF IInv, ClientTypes, Bound, States, Returns,
        RunRenewAck, Call, reset_DHCP_timeout, dhcp_ip_update, ChipReset
  <1>RunWait. ASSUME RunWait PROVE IInv'
    BY <1>a, <1>b, <1>c, <1>d, <1>RunWait
    DEF IInv, ClientTypes, Bound, States, Returns,
        RunWait, Run, Call, timeout, Unanswered, Waiting
  <1>RunResend. ASSUME RunResend PROVE IInv'
    <2>1. dhcp_retry_count' \in 0..MAX_DHCP_RETRY
      BY <1>a, <1>c, <1>RunResend DEF IInv, ClientTypes, RunResend, TimedOut, RetriesLeft
    <2>2. /\ sent' \subseteq Requests
          /\ DHCP_SIP' \in Servers \cup {None} /\ DHCP_REAL_SIP' \in Sources \cup {None}
          /\ dhcp_state # "DISCOVER" => DHCP_SIP' \in Servers /\ DHCP_REAL_SIP' \in Sources
      <3>1. CASE dhcp_state = "DISCOVER"
        BY <1>a, <3>1, <1>RunResend
        DEF IInv, ClientTypes, RunResend, send_DHCP_DISCOVER, Requests
      <3>2. CASE dhcp_state # "DISCOVER"
        <4>1. DHCP_allocated_ip \in Addrs /\ ParsedSIP \in Servers
          BY <1>a, <1>d, <3>2, <1>RunResend
          DEF IInv, ClientTypes, Bound, RunResend, Unanswered, Waiting
        <4> QED
          BY <1>a, <1>b, <1>d, <3>2, <4>1, <1>RunResend
          DEF IInv, ClientTypes, RunResend, send_DHCP_REQUEST, Requests, Unanswered, Waiting
      <3> QED
        BY <3>1, <3>2
    <2> QED
      BY <1>a, <1>b, <1>c, <1>d, <2>1, <2>2, <1>RunResend
      DEF IInv, ClientTypes, Bound, RunResend, Run, Call, Unanswered, Waiting, Returns
  <1>RunRerequest. ASSUME RunRerequest PROVE IInv'
    BY <1>a, <1>b, <1>c, <1>d, <1>RunRerequest
    DEF IInv, ClientTypes, Bound, States, Returns,
        RunRerequest, Run, Call, timeout, TimedOut, RetriesLeft, send_DHCP_REQUEST_Unicast
  <1>Requested. ASSUME Requested, sent' \subseteq Requests PROVE IInv'
    <2>1. dhcp_retry_count' \in 0..MAX_DHCP_RETRY
      BY <1>a, <1>c, <1>Requested DEF IInv, ClientTypes, Bound, Requested, RetriesLeft
    <2> QED
      BY <1>a, <1>c, <2>1, <1>Requested
      DEF IInv, ClientTypes, Bound, States, Returns, Requested, params, server, chip
  <1>SendOk. ASSUME SendOk PROVE IInv'
    <2>1. DHCP_allocated_ip \in Addrs /\ DHCP_SIP \in Servers
      BY <1>a, <1>SendOk DEF IInv, ClientTypes, Bound, SendOk, Requested
    <2>2. sent' \subseteq Requests
      BY <1>a, <2>1, <1>SendOk DEF IInv, ClientTypes, SendOk, Requests
    <2> QED
      BY <2>2, <1>SendOk, <1>Requested DEF SendOk
  <1>SendTimeout. ASSUME SendTimeout PROVE IInv'
    BY <1>a, <1>SendTimeout, <1>Requested DEF SendTimeout, IInv, ClientTypes
  <1>RunGiveUp. ASSUME RunGiveUp PROVE IInv'
    BY <1>a, <1>b, <1>c, <1>d, <1>RunGiveUp
    DEF IInv, ClientTypes, Bound, States, Returns,
        RunGiveUp, Run, Call, Unanswered, Waiting, reset_DHCP_timeout, send_DHCP_DISCOVER, Requests
  <1>Declined. ASSUME Declined PROVE IInv'
    <2>1. sock' \in BOOLEAN /\ rxq' \in Seq(Replies)
      BY <1>a, <1>c, <1>Declined
      DEF IInv, ClientTypes, Declined, dhcp_ip_conflict, ChipReset, chip
    <2> QED
      BY <1>a, <1>c, <2>1, <1>Declined
      DEF IInv, ClientTypes, Bound, States, Returns, Declined, reset_DHCP_timeout, params, server
  <1>ProbeUnique. ASSUME ProbeUnique PROVE IInv'
    BY <1>a, <1>b, <1>c, <1>d, <1>ProbeUnique
    DEF IInv, ClientTypes, Bound, States, Returns,
        ProbeUnique, reset_DHCP_timeout, dhcp_ip_assign, params, server
  <1>ProbeConflict. ASSUME ProbeConflict PROVE IInv'
    BY <1>a, <1>b, <1>c, <1>d, <1>ProbeConflict
    DEF IInv, ClientTypes, Bound, States, Returns,
        ProbeConflict, timeout, params, server, chip
  <1>DHCP_stop. ASSUME DHCP_stop PROVE IInv'
    BY <1>a, <1>b, <1>c, <1>d, <1>DHCP_stop
    DEF IInv, ClientTypes, Bound, States, Returns,
        DHCP_stop, timeout, params, server
  <1>DHCP_init. ASSUME DHCP_init PROVE IInv'
    BY <1>a, <1>b, <1>c, <1>d, <1>DHCP_init
    DEF IInv, ClientTypes, Bound, States, Returns,
        DHCP_init, reset_DHCP_timeout, params, server
  <1>Tick. ASSUME DHCP_time_handler PROVE IInv'
    <2>1. dhcp_tick_1s' \in 0..TickMax
      BY <1>a, <1>Tick, TickMaxOK DEF IInv, ClientTypes, DHCP_time_handler, Ticked
    <2> QED
      BY <1>a, <1>Tick, <2>1 DEF IInv, ClientTypes, Bound, RetriesLeft, DHCP_time_handler, params, server, chip
  <1>Deliver. ASSUME NEW m \in Replies, Deliver(m) PROVE IInv'
    <2>1. rxq' \in Seq(Replies)
      BY <1>a, <1>Deliver DEF IInv, ClientTypes, Deliver
    <2> QED
      BY <1>a, <1>Deliver, <2>1 DEF IInv, ClientTypes, Bound, RetriesLeft, Deliver, timeout, params, server
  <1>Server. ASSUME NEW s \in Servers, ServerOffer(s) \/ ServerAck(s) \/ ServerNak(s) PROVE IInv'
    BY <1>Server, <1>Deliver DEF ServerOffer, ServerAck, ServerNak, Replies
  <1>Stutter. ASSUME UNCHANGED vars PROVE IInv'
    BY <1>a, <1>Stutter DEF IInv, ClientTypes, Bound, RetriesLeft, vars, timeout, params, server, chip
  <1> QED
    BY <1>Server, <1>Tick, <1>Stutter, <1>RunStopped, <1>RunInit, <1>RunOffer, <1>RunAck, <1>RunNak, <1>RunLeased,
       <1>RunRenew, <1>RunRenewAck, <1>RunWait, <1>RunResend, <1>RunRerequest, <1>RunGiveUp, <1>Declined,
       <1>SendOk, <1>SendTimeout,
       <1>ProbeUnique, <1>ProbeConflict, <1>DHCP_stop, <1>DHCP_init
    DEF Next, DHCP_run, ChipReports

\* The start satisfies the strengthening.
LEMMA IInvInit == Init => IInv
  <1> SUFFICES ASSUME Init PROVE IInv
    OBVIOUS
  <1>1. /\ 0 \in 0..MAX_DHCP_RETRY /\ 0 \in 0..TickMax /\ 0 \in 0..(XidMod - 1)
        /\ INFINITE_LEASETIME \in Leases /\ <<>> \in Seq(Replies)
    BY ConstantsOK, TickMaxOK DEF Leases
  <1>2. rxq \in Seq(Replies) /\ sent \subseteq Requests
    BY <1>1 DEF Init
  <1>3. sock \in BOOLEAN
    BY Zenon DEF Init
  <1>4. ClientTypes
    BY <1>1, <1>2, <1>3 DEF Init, ClientTypes, States, Returns
  <1> QED
    BY <1>4 DEF Init, IInv, Bound

\* The strengthening holds in every reachable state.
LEMMA IInvariance == Spec => []IInv
  BY IInvInit, IInvStep, PTL DEF Spec

\* What the client ever writes to the chip's address register.
LEMMA SiprWritten == [Next]_vars => sipr' \in {sipr, None, DHCP_allocated_ip}
  <1>1. DHCP_run => sipr' \in {sipr, None, DHCP_allocated_ip}
    <2>1. RunRenewAck => sipr' \in {sipr, None, DHCP_allocated_ip}
      BY DEF RunRenewAck, dhcp_ip_update
    <2>2. Declined => sipr' \in {sipr, None, DHCP_allocated_ip}
      BY DEF Declined, dhcp_ip_conflict, chip
    <2>3. \/ RunStopped \/ RunInit \/ RunOffer \/ RunAck \/ RunNak \/ RunLeased
          \/ RunRenew \/ RunWait \/ RunResend \/ RunRerequest \/ RunGiveUp
          => sipr' = sipr
      BY DEF RunStopped, RunInit, RunOffer, RunAck, RunNak, RunLeased, RunRenew, RunWait,
             RunResend, RunRerequest, RunGiveUp, chip
    <2> QED
      BY <2>1, <2>2, <2>3 DEF DHCP_run
  <1>2. ChipReports => sipr' \in {sipr, None, DHCP_allocated_ip}
    BY DEF ChipReports, ProbeUnique, ProbeConflict, SendOk, SendTimeout, Requested,
           dhcp_ip_assign, chip
  <1>3. DHCP_stop \/ DHCP_init \/ DHCP_time_handler => sipr' \in {sipr, None, DHCP_allocated_ip}
    BY DEF DHCP_stop, DHCP_init, DHCP_time_handler, chip
  <1>4. ASSUME NEW s \in Servers, ServerOffer(s) \/ ServerAck(s) \/ ServerNak(s) PROVE sipr' = sipr
    BY <1>4 DEF ServerOffer, ServerAck, ServerNak, Deliver
  <1>5. UNCHANGED vars => sipr' = sipr
    BY DEF vars, chip
  <1> QED
    BY <1>1, <1>2, <1>3, <1>4, <1>5 DEF Next

\* The types hold for every set of servers and addresses, every retry limit,
\* wait and lease time, and every buffer size.
THEOREM TypeCorrect == Spec => []TypeOK
  <1>1. Init => sipr \in Addrs \cup {None}
    BY DEF Init
  <1>2. IInv /\ sipr \in Addrs \cup {None} /\ [Next]_vars => (sipr \in Addrs \cup {None})'
    BY SiprWritten DEF IInv, ClientTypes
  <1>3. IInv /\ sipr \in Addrs \cup {None} => TypeOK
    BY DEF IInv, TypeOK
  <1> QED
    BY IInvariance, <1>1, <1>2, <1>3, PTL DEF Spec
-------------------------------------------------------------------------------
(* The lease stays with its server.                                        *)

\* The strengthening of RequestPinned: DHCP_REAL_SIP is where the datagrams of
\* DHCP_SIP come from.
Pinned == /\ RequestPinned
          /\ DHCP_SIP # None => DHCP_REAL_SIP = SourceOf[DHCP_SIP]

\* Once a server is known, no other server's datagram passes parseDHCPMSG.
LEMMA OnlyTheServer ==
    ASSUME DistinctSources, IInv, Pinned
    PROVE  /\ Received => Head(rxq).sid \in Servers /\ Head(rxq).src = SourceOf[Head(rxq).sid]
           /\ Received /\ DHCP_SIP # None => Head(rxq).sid = DHCP_SIP
           /\ DHCP_SIP # None => ParsedSIP = DHCP_SIP
           /\ parseServer => (DHCP_SIP' # None => DHCP_REAL_SIP' = SourceOf[DHCP_SIP'])
           /\ parseServer /\ DHCP_SIP # None =>
                 DHCP_SIP' = DHCP_SIP /\ DHCP_REAL_SIP' = DHCP_REAL_SIP
           /\ parseDHCPMSG /\ DHCP_SIP # None /\ DHCP_allocated_opts = DHCP_SIP =>
                 DHCP_allocated_opts' = DHCP_SIP
  <1>1. Received => Head(rxq).sid \in Servers /\ Head(rxq).src = SourceOf[Head(rxq).sid]
    <2>1. Received => Head(rxq) \in Replies
      BY HeadReply DEF IInv, ClientTypes, Received
    <2> QED
      BY <2>1, ReplyFields
  <1>2. Received /\ DHCP_SIP # None => Head(rxq).sid = DHCP_SIP
    BY <1>1 DEF IInv, ClientTypes, Pinned, Received, DistinctSources
  <1>3. type # "none" => Received
    BY CallTypes DEF IInv
  <1> QED
    BY <1>1, <1>2, <1>3 DEF ParsedSIP, parseServer, parseDHCPMSG, params, Pinned

\* Every step keeps the lease with its server.
LEMMA PinnedStep == DistinctSources /\ IInv /\ Pinned /\ [Next]_vars => Pinned'
  <1> SUFFICES ASSUME DistinctSources, IInv, Pinned, [Next]_vars PROVE Pinned'
    OBVIOUS
  <1>a. IInv /\ Pinned
    OBVIOUS
  <1>b. /\ Received => Head(rxq).sid \in Servers /\ Head(rxq).src = SourceOf[Head(rxq).sid]
        /\ DHCP_SIP # None => ParsedSIP = DHCP_SIP
        /\ parseServer => (DHCP_SIP' # None => DHCP_REAL_SIP' = SourceOf[DHCP_SIP'])
        /\ parseServer /\ DHCP_SIP # None =>
              DHCP_SIP' = DHCP_SIP /\ DHCP_REAL_SIP' = DHCP_REAL_SIP
        /\ parseDHCPMSG /\ DHCP_SIP # None /\ DHCP_allocated_opts = DHCP_SIP =>
              DHCP_allocated_opts' = DHCP_SIP
        /\ None \notin Servers
    BY OnlyTheServer, ConstantsOK
  <1>RunStopped. ASSUME RunStopped PROVE Pinned'
    BY <1>a, <1>b, <1>RunStopped DEF IInv, ClientTypes, Bound, Pinned, RequestPinned,
       RunStopped, params, server
  <1>RunInit. ASSUME RunInit PROVE Pinned'
    BY <1>a, <1>b, <1>RunInit DEF IInv, ClientTypes, Bound, Pinned, RequestPinned,
       RunInit, Call, Run, send_DHCP_DISCOVER
  <1>RunOffer. ASSUME RunOffer PROVE Pinned'
    BY <1>a, <1>b, <1>RunOffer DEF IInv, ClientTypes, Bound, Pinned, RequestPinned,
       RunOffer, Call, Run, send_DHCP_REQUEST, parseServer, parseDHCPMSG, ParsedSIP, type
  <1>RunAck. ASSUME RunAck PROVE Pinned'
    BY <1>a, <1>b, <1>RunAck DEF IInv, ClientTypes, Bound, Pinned, RequestPinned,
       RunAck, Call, Run
  <1>RunNak. ASSUME RunNak PROVE Pinned'
    BY <1>a, <1>b, <1>RunNak DEF IInv, ClientTypes, Bound, Pinned, RequestPinned,
       RunNak, Call, Run
  <1>RunLeased. ASSUME RunLeased PROVE Pinned'
    BY <1>a, <1>b, <1>RunLeased DEF IInv, ClientTypes, Bound, Pinned, RequestPinned,
       RunLeased, Call, Run
  <1>RunRenew. ASSUME RunRenew PROVE Pinned'
    BY <1>a, <1>b, <1>RunRenew DEF IInv, ClientTypes, Bound, Pinned, RequestPinned,
       RunRenew, Call, Run, send_DHCP_REQUEST_Unicast
  <1>RunRenewAck. ASSUME RunRenewAck PROVE Pinned'
    BY <1>a, <1>b, <1>RunRenewAck DEF IInv, ClientTypes, Bound, Pinned, RequestPinned,
       RunRenewAck, Call
  <1>RunWait. ASSUME RunWait PROVE Pinned'
    BY <1>a, <1>b, <1>RunWait DEF IInv, ClientTypes, Bound, Pinned, RequestPinned,
       RunWait, Call, Run, Unanswered, Waiting
  <1>RunResend. ASSUME RunResend PROVE Pinned'
    BY <1>a, <1>b, <1>RunResend DEF IInv, ClientTypes, Bound, Pinned, RequestPinned,
       RunResend, Call, Run, Unanswered, Waiting, send_DHCP_DISCOVER, send_DHCP_REQUEST
  <1>RunRerequest. ASSUME RunRerequest PROVE Pinned'
    BY <1>a, <1>b, <1>RunRerequest DEF IInv, ClientTypes, Bound, Pinned, RequestPinned,
       RunRerequest, Call, Run, send_DHCP_REQUEST_Unicast
  <1>SendOk. ASSUME SendOk PROVE Pinned'
    BY <1>a, <1>b, <1>SendOk DEF IInv, ClientTypes, Bound, Pinned, RequestPinned,
       SendOk, Requested, params, server
  <1>SendTimeout. ASSUME SendTimeout PROVE Pinned'
    BY <1>a, <1>b, <1>SendTimeout DEF IInv, ClientTypes, Bound, Pinned, RequestPinned,
       SendTimeout, Requested, params, server
  <1>RunGiveUp. ASSUME RunGiveUp PROVE Pinned'
    BY <1>a, <1>b, <1>RunGiveUp DEF IInv, ClientTypes, Bound, Pinned, RequestPinned,
       RunGiveUp, Call, Run, Unanswered, Waiting, send_DHCP_DISCOVER
  <1>Declined. ASSUME Declined PROVE Pinned'
    BY <1>a, <1>b, <1>Declined DEF IInv, ClientTypes, Bound, Pinned, RequestPinned,
       Declined, params, server
  <1>ProbeUnique. ASSUME ProbeUnique PROVE Pinned'
    BY <1>a, <1>b, <1>ProbeUnique DEF IInv, ClientTypes, Bound, Pinned, RequestPinned,
       ProbeUnique, params, server
  <1>ProbeConflict. ASSUME ProbeConflict PROVE Pinned'
    BY <1>a, <1>b, <1>ProbeConflict DEF IInv, ClientTypes, Bound, Pinned, RequestPinned,
       ProbeConflict, params, server
  <1>DHCP_stop. ASSUME DHCP_stop PROVE Pinned'
    BY <1>a, <1>b, <1>DHCP_stop DEF IInv, ClientTypes, Bound, Pinned, RequestPinned,
       DHCP_stop, params, server
  <1>DHCP_init. ASSUME DHCP_init PROVE Pinned'
    BY <1>a, <1>b, <1>DHCP_init DEF IInv, ClientTypes, Bound, Pinned, RequestPinned,
       DHCP_init, params, server
  <1>DHCP_time_handler. ASSUME DHCP_time_handler PROVE Pinned'
    BY <1>a, <1>b, <1>DHCP_time_handler DEF IInv, ClientTypes, Bound, Pinned, RequestPinned,
       DHCP_time_handler, params, server
  <1>Server. ASSUME NEW s \in Servers, ServerOffer(s) \/ ServerAck(s) \/ ServerNak(s) PROVE Pinned'
    BY <1>a, <1>Server
    DEF Pinned, RequestPinned, ServerOffer, ServerAck, ServerNak, Deliver, params, server
  <1>Stutter. ASSUME UNCHANGED vars PROVE Pinned'
    BY <1>a, <1>Stutter DEF Pinned, RequestPinned, vars, params, server
  <1> QED
    BY <1>Server, <1>Stutter, <1>RunStopped, <1>RunInit, <1>RunOffer, <1>RunAck, <1>RunNak, <1>RunLeased,
       <1>RunRenew, <1>RunRenewAck, <1>RunWait, <1>RunResend, <1>RunRerequest, <1>RunGiveUp, <1>Declined,
       <1>SendOk, <1>SendTimeout,
       <1>ProbeUnique, <1>ProbeConflict, <1>DHCP_stop, <1>DHCP_init, <1>DHCP_time_handler
    DEF Next, DHCP_run, ChipReports

\* When no two servers share a source address, an address and its parameters
\* come from the one server the client asked for them: late, repeated and foreign
\* answers change nothing, without any check of the transaction id.
THEOREM LeaseFromOneServer == DistinctSources => (Spec => []RequestPinned)
  <1> SUFFICES ASSUME DistinctSources PROVE Spec => []RequestPinned
    OBVIOUS
  <1>1. Init => Pinned
    BY DEF Init, Pinned, RequestPinned
  <1>2. IInv /\ Pinned /\ [Next]_vars => Pinned'
    BY PinnedStep
  <1>3. Pinned => RequestPinned
    BY DEF Pinned
  <1> QED
    BY <1>1, <1>2, <1>3, IInvariance, PTL DEF Spec
-------------------------------------------------------------------------------
(* The chip uses the leased address.                                       *)

\* Every step keeps the chip's address that of the lease.
LEMMA AppliedStep == IInv /\ LeasedIpApplied /\ [Next]_vars => LeasedIpApplied'
  <1> SUFFICES ASSUME IInv, LeasedIpApplied, [Next]_vars PROVE LeasedIpApplied'
    OBVIOUS
  <1>a. LeasedIpApplied /\ (pc = "declined" => dhcp_state = "REQUEST")
    BY DEF IInv, Bound
  <1>RunStopped. ASSUME RunStopped PROVE LeasedIpApplied'
    BY <1>a, <1>RunStopped DEF LeasedIpApplied, RunStopped, chip
  <1>RunInit. ASSUME RunInit PROVE LeasedIpApplied'
    BY <1>a, <1>RunInit DEF LeasedIpApplied, RunInit
  <1>RunOffer. ASSUME RunOffer PROVE LeasedIpApplied'
    BY <1>a, <1>RunOffer DEF LeasedIpApplied, RunOffer
  <1>RunAck. ASSUME RunAck PROVE LeasedIpApplied'
    BY <1>a, <1>RunAck DEF LeasedIpApplied, RunAck
  <1>RunNak. ASSUME RunNak PROVE LeasedIpApplied'
    BY <1>a, <1>RunNak DEF LeasedIpApplied, RunNak
  <1>RunLeased. ASSUME RunLeased PROVE LeasedIpApplied'
    BY <1>a, <1>RunLeased DEF LeasedIpApplied, RunLeased
  <1>RunRenew. ASSUME RunRenew PROVE LeasedIpApplied'
    BY <1>a, <1>RunRenew DEF LeasedIpApplied, RunRenew
  <1>RunRenewAck. ASSUME RunRenewAck PROVE LeasedIpApplied'
    BY <1>a, <1>RunRenewAck DEF LeasedIpApplied, RunRenewAck, dhcp_ip_update
  <1>RunWait. ASSUME RunWait PROVE LeasedIpApplied'
    BY <1>a, <1>RunWait DEF LeasedIpApplied, RunWait
  <1>RunResend. ASSUME RunResend PROVE LeasedIpApplied'
    BY <1>a, <1>RunResend DEF LeasedIpApplied, RunResend
  <1>RunRerequest. ASSUME RunRerequest PROVE LeasedIpApplied'
    BY <1>a, <1>RunRerequest DEF LeasedIpApplied, RunRerequest
  <1>SendOk. ASSUME SendOk PROVE LeasedIpApplied'
    BY <1>a, <1>SendOk DEF LeasedIpApplied, SendOk, Requested, chip
  <1>SendTimeout. ASSUME SendTimeout PROVE LeasedIpApplied'
    BY <1>a, <1>SendTimeout DEF LeasedIpApplied, SendTimeout, Requested, chip
  <1>RunGiveUp. ASSUME RunGiveUp PROVE LeasedIpApplied'
    BY <1>a, <1>RunGiveUp DEF LeasedIpApplied, RunGiveUp, Unanswered, Waiting
  <1>Declined. ASSUME Declined PROVE LeasedIpApplied'
    BY <1>a, <1>Declined DEF LeasedIpApplied, Declined
  <1>ProbeUnique. ASSUME ProbeUnique PROVE LeasedIpApplied'
    BY <1>a, <1>ProbeUnique DEF LeasedIpApplied, ProbeUnique, dhcp_ip_assign
  <1>ProbeConflict. ASSUME ProbeConflict PROVE LeasedIpApplied'
    BY <1>a, <1>ProbeConflict DEF LeasedIpApplied, ProbeConflict, chip
  <1>DHCP_stop. ASSUME DHCP_stop PROVE LeasedIpApplied'
    BY <1>a, <1>DHCP_stop DEF LeasedIpApplied, DHCP_stop
  <1>DHCP_init. ASSUME DHCP_init PROVE LeasedIpApplied'
    BY <1>a, <1>DHCP_init DEF LeasedIpApplied, DHCP_init
  <1>DHCP_time_handler. ASSUME DHCP_time_handler PROVE LeasedIpApplied'
    BY <1>a, <1>DHCP_time_handler DEF LeasedIpApplied, DHCP_time_handler, chip
  <1>Server. ASSUME NEW s \in Servers, ServerOffer(s) \/ ServerAck(s) \/ ServerNak(s)
             PROVE  LeasedIpApplied'
    BY <1>a, <1>Server DEF LeasedIpApplied, ServerOffer, ServerAck, ServerNak, Deliver
  <1>Stutter. ASSUME UNCHANGED vars PROVE LeasedIpApplied'
    BY <1>a, <1>Stutter DEF LeasedIpApplied, vars, chip
  <1> QED
    BY <1>Server, <1>Stutter, <1>RunStopped, <1>RunInit, <1>RunOffer, <1>RunAck, <1>RunNak, <1>RunLeased,
       <1>RunRenew, <1>RunRenewAck, <1>RunWait, <1>RunResend, <1>RunRerequest, <1>RunGiveUp, <1>Declined,
       <1>SendOk, <1>SendTimeout,
       <1>ProbeUnique, <1>ProbeConflict, <1>DHCP_stop, <1>DHCP_init, <1>DHCP_time_handler
    DEF Next, DHCP_run, ChipReports

\* With the default callbacks the chip's source address is the leased address for
\* as long as the lease is held.
THEOREM AppliedWhileLeased == Spec => []LeasedIpApplied
  <1>1. Init => LeasedIpApplied
    BY DEF Init, LeasedIpApplied
  <1> QED
    BY <1>1, AppliedStep, IInvariance, PTL DEF Spec

-------------------------------------------------------------------------------
\* A step that keeps the lease keeps its server, and its address unless it says
\* that the address has changed.
LEMMA HeldStep ==
    ASSUME DistinctSources, IInv, Pinned, LeasedIpApplied, [Next]_vars,
           dhcp_state \in {"LEASED", "REREQUEST"}, dhcp_state' \in {"LEASED", "REREQUEST"}
    PROVE  /\ UNCHANGED DHCP_SIP
           /\ UNCHANGED <<DHCP_allocated_ip, sipr>> \/ ret' = "DHCP_IP_CHANGED"
  <1>a. /\ pc \notin {"probe", "declined"}
        /\ DHCP_SIP # None
        /\ DefaultCallbacks => sipr = DHCP_allocated_ip
    BY DEF IInv, Bound, LeasedIpApplied
  <1>b. parseServer => DHCP_SIP' = DHCP_SIP
    BY <1>a, OnlyTheServer
  <1> DEFINE Keeps == /\ UNCHANGED DHCP_SIP
                      /\ UNCHANGED <<DHCP_allocated_ip, sipr>> \/ ret' = "DHCP_IP_CHANGED"
  <1>RunStopped. ASSUME RunStopped PROVE Keeps
    BY <1>a, <1>b, <1>RunStopped DEF RunStopped, server, chip
  <1>RunInit. ASSUME RunInit PROVE Keeps
    BY <1>a, <1>b, <1>RunInit DEF RunInit
  <1>RunOffer. ASSUME RunOffer PROVE Keeps
    BY <1>a, <1>b, <1>RunOffer DEF RunOffer
  <1>RunAck. ASSUME RunAck PROVE Keeps
    BY <1>a, <1>b, <1>RunAck DEF RunAck
  <1>RunNak. ASSUME RunNak PROVE Keeps
    BY <1>a, <1>b, <1>RunNak DEF RunNak
  <1>RunLeased. ASSUME RunLeased PROVE Keeps
    BY <1>a, <1>b, <1>RunLeased DEF RunLeased, Run, Call
  <1>RunRenew. ASSUME RunRenew PROVE Keeps
    BY <1>a, <1>b, <1>RunRenew DEF RunRenew, Run, Call, send_DHCP_REQUEST_Unicast
  <1>RunRenewAck. ASSUME RunRenewAck PROVE Keeps
    BY <1>a, <1>b, <1>RunRenewAck DEF RunRenewAck, Call, dhcp_ip_update
  <1>RunWait. ASSUME RunWait PROVE Keeps
    BY <1>a, <1>b, <1>RunWait DEF RunWait, Run, Call
  <1>RunResend. ASSUME RunResend PROVE Keeps
    BY <1>a, <1>b, <1>RunResend DEF RunResend, Run, Call, send_DHCP_REQUEST
  <1>RunRerequest. ASSUME RunRerequest PROVE Keeps
    BY <1>a, <1>b, <1>RunRerequest DEF RunRerequest, Run, Call, send_DHCP_REQUEST_Unicast
  <1>SendOk. ASSUME SendOk PROVE Keeps
    BY <1>SendOk DEF SendOk, Requested, server, chip
  <1>SendTimeout. ASSUME SendTimeout PROVE Keeps
    BY <1>SendTimeout DEF SendTimeout, Requested, server, chip
  <1>RunGiveUp. ASSUME RunGiveUp PROVE Keeps
    BY <1>a, <1>b, <1>RunGiveUp DEF RunGiveUp, Unanswered, Waiting
  <1>Declined. ASSUME Declined PROVE Keeps
    BY <1>a, <1>b, <1>Declined DEF Declined
  <1>ProbeUnique. ASSUME ProbeUnique PROVE Keeps
    BY <1>a, <1>b, <1>ProbeUnique DEF ProbeUnique
  <1>ProbeConflict. ASSUME ProbeConflict PROVE Keeps
    BY <1>a, <1>b, <1>ProbeConflict DEF ProbeConflict, server, chip
  <1>DHCP_stop. ASSUME DHCP_stop PROVE Keeps
    BY <1>a, <1>b, <1>DHCP_stop DEF DHCP_stop
  <1>DHCP_init. ASSUME DHCP_init PROVE Keeps
    BY <1>a, <1>b, <1>DHCP_init DEF DHCP_init
  <1>DHCP_time_handler. ASSUME DHCP_time_handler PROVE Keeps
    BY <1>a, <1>b, <1>DHCP_time_handler DEF DHCP_time_handler, server, chip
  <1>Server. ASSUME NEW s \in Servers, ServerOffer(s) \/ ServerAck(s) \/ ServerNak(s)
             PROVE  Keeps
    BY <1>Server DEF ServerOffer, ServerAck, ServerNak, Deliver, server
  <1>Stutter. ASSUME UNCHANGED vars PROVE Keeps
    BY <1>Stutter DEF vars, server, chip
  <1> QED
    BY <1>Server, <1>Stutter, <1>RunStopped, <1>RunInit, <1>RunOffer, <1>RunAck, <1>RunNak, <1>RunLeased,
       <1>RunRenew, <1>RunRenewAck, <1>RunWait, <1>RunResend, <1>RunRerequest, <1>RunGiveUp, <1>Declined,
       <1>SendOk, <1>SendTimeout,
       <1>ProbeUnique, <1>ProbeConflict, <1>DHCP_stop, <1>DHCP_init, <1>DHCP_time_handler
    DEF Next, DHCP_run, ChipReports

\* A lease that is renewed keeps its server, and no step changes its address, or the
\* chip's, without returning DHCP_IP_CHANGED.
THEOREM LeaseIsStable == DistinctSources => (Spec => LeaseKeepsServer)
  <1> SUFFICES ASSUME DistinctSources PROVE Spec => LeaseKeepsServer
    OBVIOUS
  <1>1. Init => Pinned /\ LeasedIpApplied
    BY DEF Init, Pinned, RequestPinned, LeasedIpApplied
  <1>2. IInv /\ Pinned /\ LeasedIpApplied /\ [Next]_vars => (Pinned /\ LeasedIpApplied)'
    BY PinnedStep, AppliedStep
  <1>3. IInv /\ Pinned /\ LeasedIpApplied /\ [Next]_vars
          => [/\ dhcp_state \in {"LEASED", "REREQUEST"}
              /\ dhcp_state' \in {"LEASED", "REREQUEST"}
              => /\ UNCHANGED DHCP_SIP
                 /\ UNCHANGED <<DHCP_allocated_ip, sipr>> \/ ret' = "DHCP_IP_CHANGED"]_vars
    BY HeldStep
  <1> QED
    BY <1>1, <1>2, <1>3, IInvariance, PTL DEF Spec, LeaseKeepsServer

-------------------------------------------------------------------------------
(* How a wait ends.                                                        *)

\* What is left of a wait: the retries, the ticks until the counter stops, and the
\* sendto of a renewal still to come.
Patience == (MAX_DHCP_RETRY - dhcp_retry_count) * (TickMax + 2) + (TickMax - dhcp_tick_1s)
              + IF pc = "idle" THEN 1 ELSE 0

Patient == Patience \in Nat

\* A product grows with its factor by the other.
LEMMA OneFewer ==
    ASSUME NEW r \in Nat
    PROVE  /\ r * (TickMax + 2) \in Nat
           /\ (r + 1) * (TickMax + 2) = r * (TickMax + 2) + TickMax + 2
  <1>1. TickMax + 2 \in Nat
    BY TickMaxOK
  <1>2. \A x, y \in Nat : x * y \in Nat /\ (x + 1) * y = x * y + y
    OBVIOUS
  <1> QED
    BY <1>1, <1>2, TickMaxOK

LEMMA IsPatient == IInv => Patient
  <1> SUFFICES ASSUME IInv PROVE Patience \in Nat
    BY DEF Patient
  <1> DEFINE r == MAX_DHCP_RETRY - dhcp_retry_count
  <1>1. r \in Nat /\ TickMax - dhcp_tick_1s \in Nat
    BY ConstantsOK, TickMaxOK DEF IInv, ClientTypes
  <1>2. r * (TickMax + 2) \in Nat
    BY <1>1, OneFewer
  <1> HIDE DEF r
  <1> QED
    BY <1>1, <1>2 DEF Patience, r

\* A retry uses up more patience than the ticks it gives back.
LEMMA RetryCosts ==
    ASSUME IInv, dhcp_retry_count < MAX_DHCP_RETRY,
           dhcp_retry_count' = dhcp_retry_count + 1, dhcp_tick_1s' = 0
    PROVE  Patience' < Patience
  <1> DEFINE r == MAX_DHCP_RETRY - dhcp_retry_count
             k == MAX_DHCP_RETRY - (dhcp_retry_count + 1)
  <1>1. /\ k \in Nat /\ r = k + 1 /\ TickMax \in Nat
        /\ TickMax - dhcp_tick_1s \in Nat /\ TickMax - 0 = TickMax
    BY ConstantsOK, TickMaxOK DEF IInv, ClientTypes
  <1>2. k * (TickMax + 2) \in Nat /\ (k + 1) * (TickMax + 2) = k * (TickMax + 2) + TickMax + 2
    BY <1>1, OneFewer
  <1>3. Patience' = k * (TickMax + 2) + TickMax + IF pc' = "idle" THEN 1 ELSE 0
    BY <1>1 DEF Patience
  <1>4. Patience = (k + 1) * (TickMax + 2) + (TickMax - dhcp_tick_1s) + IF pc = "idle" THEN 1 ELSE 0
    BY <1>1 DEF Patience
  <1> DEFINE m == k * (TickMax + 2)
  <1>5. /\ m \in Nat
        /\ Patience = m + TickMax + 2 + (TickMax - dhcp_tick_1s) + IF pc = "idle" THEN 1 ELSE 0
        /\ Patience' = m + TickMax + IF pc' = "idle" THEN 1 ELSE 0
    BY <1>2, <1>3, <1>4
  <1> HIDE DEF m, k, r
  <1> QED
    BY <1>1, <1>5

\* A step that keeps the client waiting in the same state, in a call or between calls.
Waits == /\ dhcp_state \in Waiting /\ dhcp_state' = dhcp_state
         /\ pc \in {"idle", "request"} /\ pc' \in {"idle", "request"}

RunsDown ==
    /\ Patience \in Nat /\ Patience' \in Nat /\ Patience' <= Patience
    /\ DHCP_run => dhcp_tick_1s < TickMax \/ Patience' < Patience
    /\ ChipReports => Patience' < Patience
    /\ DHCP_time_handler => dhcp_tick_1s = TickMax \/ Patience' < Patience

\* While the client waits in one state nothing gives it more patience, no datagram and no
\* retry; a tick uses some up, and so does a call of DHCP_run that finds the tick stopped
\* or that blocks in sendto.
THEOREM WaitsRunDown == Spec => [][Waits => RunsDown]_vars
  <1>1. ASSUME IInv, Patient, Patient', [Next]_vars PROVE [Waits => RunsDown]_vars
    <2> SUFFICES ASSUME Next, Waits PROVE RunsDown
      BY <1>1
    <2> DEFINE r == MAX_DHCP_RETRY - dhcp_retry_count
    <2>1. /\ r \in Nat /\ TickMax \in Nat /\ DHCP_WAIT_TIME < TickMax /\ DHCP_WAIT_TIME \in Nat
          /\ dhcp_tick_1s \in 0..TickMax /\ dhcp_retry_count \in 0..MAX_DHCP_RETRY
          /\ MAX_DHCP_RETRY \in Nat
      BY <1>1, ConstantsOK, TickMaxOK DEF IInv, ClientTypes
    <2>2. /\ Patience = r * (TickMax + 2) + (TickMax - dhcp_tick_1s) + IF pc = "idle" THEN 1 ELSE 0
          /\ r * (TickMax + 2) \in Nat
      BY <2>1, OneFewer DEF Patience
    <2>3. Patience \in Nat /\ Patience' \in Nat
      BY <1>1 DEF Patient
    <2>4. RunResend => Patience' < Patience
      BY <1>1, RetryCosts DEF RunResend, TimedOut, RetriesLeft
    <2>5. SendOk \/ SendTimeout => Patience' < Patience
      <3>1. SendOk \/ SendTimeout => /\ dhcp_retry_count < MAX_DHCP_RETRY
                                     /\ dhcp_retry_count' = dhcp_retry_count + 1
                                     /\ dhcp_tick_1s' = 0
        BY <1>1 DEF SendOk, SendTimeout, Requested, Waits, Waiting, IInv, Bound, RetriesLeft
      <3> QED
        BY <1>1, <3>1, RetryCosts
    <2>6. RunRerequest => Patience' < Patience
      <3> DEFINE m == r * (TickMax + 2)
      <3>1. RunRerequest => /\ Patience' = m + (TickMax - dhcp_tick_1s) + 0
                            /\ Patience = m + (TickMax - dhcp_tick_1s) + 1
        BY <2>2 DEF RunRerequest, Run, Call, send_DHCP_REQUEST_Unicast, timeout, Patience
      <3>2. m \in Nat /\ TickMax - dhcp_tick_1s \in Nat
        BY <2>1, <2>2
      <3> HIDE DEF m
      <3> QED
        BY <3>1, <3>2
    <2>7. ASSUME DHCP_time_handler
          PROVE  Patience' <= Patience /\ (Patience' < Patience \/ dhcp_tick_1s = TickMax)
      <3>1. dhcp_retry_count' = dhcp_retry_count /\ dhcp_tick_1s' = Ticked /\ pc' = pc
        BY <2>7 DEF DHCP_time_handler
      <3> DEFINE m == r * (TickMax + 2)
                 i == IF pc = "idle" THEN 1 ELSE 0
      <3>2. Patience' = m + (TickMax - Ticked) + i
        BY <3>1 DEF Patience
      <3>3. /\ TickMax - Ticked <= TickMax - dhcp_tick_1s
            /\ TickMax - Ticked < TickMax - dhcp_tick_1s \/ dhcp_tick_1s = TickMax
            /\ TickMax - Ticked \in Nat /\ TickMax - dhcp_tick_1s \in Nat
        BY <2>1 DEF Ticked
      <3>4. m \in Nat /\ i \in Nat /\ Patience = m + (TickMax - dhcp_tick_1s) + i
        BY <2>2
      <3> HIDE DEF m, i
      <3> QED
        BY <3>2, <3>3, <3>4
    <2>8. ASSUME UNCHANGED <<timeout, pc>> PROVE Patience' = Patience
      BY <2>8 DEF timeout, Patience
    <2>9. DHCP_run => RunWait \/ RunResend \/ RunRerequest
      BY DEF DHCP_run, RunStopped, RunInit, RunOffer, RunAck, RunNak, RunLeased, RunRenew,
             RunRenewAck, RunGiveUp, Declined, Waits, Waiting
    <2>10. RunWait => UNCHANGED <<timeout, pc>> /\ dhcp_tick_1s < TickMax
      BY <2>1 DEF RunWait
    <2>11. ~ProbeUnique /\ ~ProbeConflict /\ ~DHCP_stop /\ ~DHCP_init
      BY DEF ProbeUnique, ProbeConflict, DHCP_stop, DHCP_init, Waits, Waiting
    <2>12. \/ RunResend \/ RunRerequest \/ SendOk \/ SendTimeout \/ DHCP_time_handler
           \/ UNCHANGED <<timeout, pc>>
      <3>1. (\E s \in Servers : ServerOffer(s) \/ ServerAck(s) \/ ServerNak(s))
              => UNCHANGED <<timeout, pc>>
        BY DEF ServerOffer, ServerAck, ServerNak, Deliver
      <3> QED
        BY <2>9, <2>10, <2>11, <3>1 DEF Next, ChipReports
    <2>13. Patience' <= Patience
      BY <2>3, <2>4, <2>5, <2>6, <2>7, <2>8, <2>12
    <2> QED
      BY <2>3, <2>4, <2>5, <2>6, <2>7, <2>9, <2>10, <2>11, <2>13 DEF RunsDown, ChipReports
  <1>2. Spec => [](IInv /\ Patient)
    BY IInvariance, IsPatient, PTL
  <1> QED
    BY <1>1, <1>2, PTL DEF Spec
===============================================================================
