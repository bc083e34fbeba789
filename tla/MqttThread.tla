------------------------------ MODULE MqttThread ------------------------------
(***************************************************************************)
(* The firmware's thread: threadYield of Ethernet_W5500/MQTT_Example.c     *)
(* after W5500_Init has brought the chip up, with the calls it makes into  *)
(* MQTT/MQTTClient.c, MQTT/mqtt_interface.c and socket.c.                  *)
(*                                                                         *)
(* The chip changes the state of the MQTT socket (sr) on its own, the      *)
(* cable is pulled, and the broker answers, closes, dies and comes back,   *)
(* between any two steps of the thread.  The two streams of the connection *)
(* hold whole packets.  A call that blocks on the chip or waits for an     *)
(* answer is a location of its own (pc).                                   *)
(*                                                                         *)
(* DHCP_run, which the loop also calls, uses another socket; DhcpClient    *)
(* models it.                                                              *)
(***************************************************************************)
EXTENDS Naturals, Sequences

CONSTANTS
    QueueMax,     \* packets the socket's send buffer holds, and messages under way to the client
    PublishEvery  \* rounds of the loop between two publications

ASSUME BoundsOK == QueueMax \in Nat \ {0} /\ PublishEvery \in Nat \ {0}

VARIABLES
    pc, ms,              \* where the thread is, and the time since it last published
    started,             \* the loop has been entered
    isconnected, ping_outstanding,
    ping_expired,        \* the ping timer has run out
    handler,             \* messageHandlers holds the subscription's handler
    sr,                  \* the state register of MQTT_SOCKET
    toBroker, toClient,  \* the two directions of the TCP connection
    link,                \* PHYCFGR: the cable is plugged in
    broker,              \* TRUE while the broker is up
    session,             \* the broker's side of the connection
    subscribed           \* the session has the subscription

thread  == <<pc, ms, started>>
client  == <<isconnected, ping_outstanding, ping_expired, handler>>
streams == <<toBroker, toClient>>
remote  == <<session, subscribed>>
world   == <<link, broker>>
vars    == <<thread, client, sr, streams, world, remote>>

Locations == {"open", "connect", "login", "connack", "subscribe", "suback",
              "loop", "disconnect", "disconnecting", "yield", "mqtt_yield", "publish"}
Sent      == {"CONNECT", "SUBSCRIBE", "PUBLISH", "PINGREQ"}
Answers   == {"CONNACK", "REFUSED", "SUBACK", "SUBFAIL", "PUBLISH", "PINGRESP"}

-------------------------------------------------------------------------------
(* The network interface.                                                  *)

\* w5x00_read: a packet can be read.
Readable == sr = "ESTABLISHED" /\ toClient # <<>>

\* w5x00_write and send: outside ESTABLISHED nothing is written, and while the
\* packet before is not acknowledged the socket is busy; sendPacket tries until
\* its timer ends.
CanSend_NoRoom == sr = "ESTABLISHED" \* mutant: the free size is not looked at

CanSend == sr = "ESTABLISHED" /\ Len(toBroker) < QueueMax

CannotSend == sr # "ESTABLISHED" \/ toBroker # <<>>

\* sendPacket succeeded: the packet is under way and the ping timer starts anew.
sendPacket(p) == CanSend /\ toBroker' = Append(toBroker, p) /\ ping_expired' = FALSE

sendFails == CannotSend /\ UNCHANGED <<toBroker, ping_expired>>

\* A socket that is closed, or opened again, has no connection.
ConnectionGone == toBroker' = <<>> /\ toClient' = <<>> /\ session' = "none" /\ subscribed' = FALSE

-------------------------------------------------------------------------------
(* cycle: read one packet if there is one, act on it, keep the session     *)
(* alive.                                                                  *)

Packet == IF Readable THEN Head(toClient) ELSE "none"

\* The answer to the ping has not come, this packet included.
pingWaits == ping_outstanding /\ Packet # "PINGRESP"

keepalive ==
    IF ping_expired /\ ~pingWaits
    THEN \/ sendPacket("PINGREQ") /\ ping_outstanding' = TRUE
         \/ sendFails /\ ping_outstanding' = pingWaits
    ELSE ping_outstanding' = pingWaits /\ UNCHANGED <<toBroker, ping_expired>>

cycle == /\ toClient' = IF Readable THEN Tail(toClient) ELSE toClient
         /\ keepalive

-------------------------------------------------------------------------------
(* Opening a connection: mqtt_network_init, mqtt_connect_broker.           *)

\* socket() closes what was open; connect() gives its command and waits.
Open ==
    /\ pc = "open"
    /\ pc' = "connect"
    /\ sr' = "SYNSENT"
    /\ ConnectionGone
    /\ UNCHANGED <<ms, started, client, world>>

\* connect() reads the state of the socket until it is one of these two: a connection
\* that the broker closed before it was seen to be ESTABLISHED is waited for on.  The
\* result of mqtt_network_init is not looked at.
ConnectReturns ==
    /\ pc = "connect"
    /\ sr \in {"ESTABLISHED", "CLOSED"}
    /\ pc' = "login"
    /\ UNCHANGED <<ms, started, client, sr, streams, world, remote>>

\* Where the thread goes on after mqtt_connect_broker.
AfterLogin == IF started THEN "mqtt_yield" ELSE "subscribe"

\* MQTTClientInit, called for every connection, and the start of MQTTConnect.
\* mutant: the flag of the last connection's ping survives
MQTTClientInit_KeepsPing == /\ isconnected' = FALSE
                            /\ handler' = FALSE
                            /\ UNCHANGED ping_outstanding

MQTTClientInit == /\ isconnected' = FALSE
                  /\ ping_outstanding' = FALSE
                  /\ handler' = FALSE

\* The ping timer is set whether the CONNECT can be sent or not.
Login ==
    /\ pc = "login"
    /\ MQTTClientInit
    /\ ping_expired' = FALSE
    /\ \/ CanSend /\ toBroker' = Append(toBroker, "CONNECT") /\ pc' = "connack"
       \/ CannotSend /\ pc' = AfterLogin /\ UNCHANGED toBroker
    /\ UNCHANGED <<ms, started, sr, toClient, world, remote>>

\* waitfor(CONNACK): other packets are read past.
Connack_AnyCode == Packet \in {"CONNACK", "REFUSED"} \* mutant: the code is not read

Connack == Packet = "CONNACK"

WaitConnack ==
    /\ pc = "connack"
    /\ cycle
    /\ isconnected' = Connack
    /\ pc' = IF Packet \in {"CONNACK", "REFUSED"} THEN AfterLogin ELSE pc
    /\ UNCHANGED <<ms, started, handler, sr, world, remote>>

ConnackTimeout ==
    /\ pc = "connack"
    /\ pc' = AfterLogin
    /\ isconnected' = FALSE
    /\ UNCHANGED <<ms, started, ping_outstanding, ping_expired, handler, sr, streams, world, remote>>

-------------------------------------------------------------------------------
(* mqtt_subscribe, called once, before the loop.                           *)

Subscribe ==
    /\ pc = "subscribe"
    /\ started' = TRUE
    /\ \/ isconnected /\ sendPacket("SUBSCRIBE") /\ pc' = "suback"
       \/ isconnected /\ sendFails /\ pc' = "loop"
       \/ ~isconnected /\ pc' = "loop" /\ UNCHANGED <<toBroker, ping_expired>>
    /\ UNCHANGED <<ms, isconnected, ping_outstanding, handler, sr, toClient, world, remote>>

WaitSuback ==
    /\ pc = "suback"
    /\ cycle
    /\ handler' = (Packet = "SUBACK")
    /\ pc' = IF Packet \in {"SUBACK", "SUBFAIL"} THEN "loop" ELSE pc
    /\ UNCHANGED <<ms, started, isconnected, sr, world, remote>>

SubackTimeout ==
    /\ pc = "suback"
    /\ pc' = "loop"
    /\ UNCHANGED <<ms, started, client, sr, streams, world, remote>>

-------------------------------------------------------------------------------
(* The loop.                                                               *)

\* The chip's word on the socket overrides the client's flag.
SocketDead_ClosedOnly == sr = "CLOSED" \* mutant: a connection the broker closed passes

SocketDead == sr \in {"CLOSED", "CLOSE_WAIT"}

\* Without the cable the loop does nothing.
CheckSocket ==
    /\ pc = "loop"
    /\ link
    /\ IF SocketDead
       THEN isconnected' = FALSE /\ sr' = "CLOSED" /\ ConnectionGone
       ELSE UNCHANGED <<isconnected, sr, streams, remote>>
    /\ pc' = IF isconnected' THEN "yield" ELSE "disconnect"
    /\ UNCHANGED <<ms, started, ping_outstanding, ping_expired, handler, world>>

\* mutant: the login alone is tried again
Disconnect_LoginAgain ==
    /\ pc = "disconnect"
    /\ pc' = IF sr = "ESTABLISHED" THEN "login" ELSE "open"
    /\ UNCHANGED <<ms, started, client, sr, streams, world, remote>>

\* disconnect(): an open connection is told to close.
Disconnect ==
    /\ pc = "disconnect"
    /\ IF sr = "CLOSED"
       THEN pc' = "open" /\ UNCHANGED sr
       ELSE /\ pc' = "disconnecting"
            /\ sr' = IF sr = "ESTABLISHED" THEN "FIN_WAIT" ELSE "LAST_ACK"
    /\ UNCHANGED <<ms, started, client, streams, world, remote>>

\* It waits until the socket is closed: by the broker, or by the chip when nobody
\* acknowledges its FIN.
Disconnected ==
    /\ pc = "disconnecting"
    /\ sr = "CLOSED"
    /\ pc' = "open"
    /\ UNCHANGED <<ms, started, client, sr, streams, world, remote>>

\* MQTTYield(&client, 150), then mqtt_yield: one cycle each.
Yield ==
    /\ pc \in {"yield", "mqtt_yield"}
    /\ cycle
    /\ pc' = IF pc = "yield" THEN "mqtt_yield" ELSE "publish"
    /\ UNCHANGED <<ms, started, isconnected, handler, sr, world, remote>>

Due == ms >= PublishEvery

\* MQTTPublish at QOS0; its result is not looked at.
Publish ==
    /\ pc = "publish"
    /\ pc' = "loop"
    /\ \/ Due /\ isconnected /\ sendPacket("PUBLISH")
       \/ Due /\ isconnected /\ sendFails
       \/ ~(Due /\ isconnected) /\ UNCHANGED <<toBroker, ping_expired>>
    /\ ms' = IF Due THEN 1 ELSE ms + 1
    /\ UNCHANGED <<started, isconnected, ping_outstanding, handler, sr, toClient, world, remote>>

Thread == \/ Open \/ ConnectReturns \/ Login \/ WaitConnack \/ Subscribe \/ WaitSuback
          \/ CheckSocket \/ Disconnect \/ Disconnected \/ Yield \/ Publish

Timeout == ConnackTimeout \/ SubackTimeout

-------------------------------------------------------------------------------
(* What the thread does not control.                                       *)

\* The ping timer is twice as long as any wait for an answer, so it runs out
\* only while the client is connected.
PingTimer ==
    /\ isconnected
    /\ ping_expired' = TRUE
    /\ UNCHANGED <<thread, isconnected, ping_outstanding, handler, sr, streams, world, remote>>

Cable == link' = ~link /\ UNCHANGED <<thread, client, sr, streams, broker, remote>>

\* The chip's connection request is answered, or refused or not answered.
BrokerAccepts ==
    /\ sr = "SYNSENT"
    /\ link /\ broker
    /\ sr' = "ESTABLISHED"
    /\ session' = "accepted"
    /\ UNCHANGED <<thread, client, streams, world, subscribed>>

ConnectFails ==
    /\ sr = "SYNSENT"
    /\ sr' = "CLOSED"
    /\ UNCHANGED <<thread, client, streams, world, remote>>

Reply(s) == toClient' = s /\ UNCHANGED <<thread, client, sr, world>>

\* The broker reads a packet.  CONNECT must come first and once; it closes the
\* connection of a client that does otherwise.
BrokerReads ==
    /\ link
    /\ session # "none"
    /\ toBroker # <<>>
    /\ toBroker' = Tail(toBroker)
    /\ LET p == Head(toBroker) IN
       \/ /\ p = "CONNECT" /\ session = "accepted"
          /\ \/ session' = "open" /\ Reply(Append(toClient, "CONNACK"))
             \/ session' = "refused" /\ Reply(Append(toClient, "REFUSED"))
          /\ UNCHANGED subscribed
       \/ /\ p = "SUBSCRIBE" /\ session = "open"
          /\ \/ subscribed' = TRUE /\ Reply(Append(toClient, "SUBACK"))
             \/ UNCHANGED subscribed /\ Reply(Append(toClient, "SUBFAIL"))
          /\ UNCHANGED session
       \/ p = "PINGREQ" /\ session = "open" /\ Reply(Append(toClient, "PINGRESP")) /\ UNCHANGED remote
       \/ p = "PUBLISH" /\ session = "open" /\ Reply(toClient) /\ UNCHANGED remote

BrokerPublishes ==
    /\ link
    /\ session = "open"
    /\ subscribed
    /\ Len(toClient) < QueueMax
    /\ Reply(Append(toClient, "PUBLISH"))
    /\ UNCHANGED <<toBroker, remote>>

\* The broker closes the connection: a restart, a session taken over, a client
\* that was silent or refused.
BrokerCloses ==
    /\ link
    /\ session # "none"
    /\ sr = "ESTABLISHED"
    /\ session' = "none"
    /\ subscribed' = FALSE
    /\ sr' = "CLOSE_WAIT"
    /\ UNCHANGED <<thread, client, streams, world>>

\* The broker's side acknowledges the FIN of the chip at once, and the broker closes
\* its own side when it gets to it.  The register says FIN_WAIT before and after.
FinAcked ==
    /\ link
    /\ session # "none"
    /\ sr = "FIN_WAIT"
    /\ sr' = "FIN_ACKED"
    /\ UNCHANGED <<thread, client, streams, world, remote>>

BrokerFinishes ==
    /\ link
    /\ session # "none"
    /\ sr \in {"FIN_WAIT", "FIN_ACKED"}
    /\ session' = "none"
    /\ subscribed' = FALSE
    /\ sr' = "CLOSED"
    /\ UNCHANGED <<thread, client, streams, world>>

\* The broker disappears without a word, and comes back knowing nothing.
BrokerDies ==
    /\ broker
    /\ broker' = FALSE
    /\ session' = "none"
    /\ subscribed' = FALSE
    /\ UNCHANGED <<thread, client, sr, streams, link>>

BrokerStarts == ~broker /\ broker' = TRUE /\ UNCHANGED <<thread, client, sr, streams, link, remote>>

\* What the chip sent is not acknowledged, or is answered by a reset.
ChipGivesUp ==
    /\ \/ sr = "ESTABLISHED" /\ toBroker # <<>>
       \/ sr \in {"FIN_WAIT", "LAST_ACK"}
    /\ ~link \/ session = "none"
    /\ sr' = "CLOSED"
    /\ session' = "none"
    /\ subscribed' = FALSE
    /\ UNCHANGED <<thread, client, streams, world>>

World == \/ PingTimer \/ Cable \/ BrokerAccepts \/ ConnectFails \/ BrokerReads
         \/ BrokerPublishes \/ BrokerCloses \/ FinAcked \/ BrokerFinishes
         \/ BrokerDies \/ BrokerStarts \/ ChipGivesUp

-------------------------------------------------------------------------------
\* W5500_Init has returned with the cable plugged in and an address set.
Init ==
    /\ pc = "open"
    /\ ms = 0
    /\ started = FALSE
    /\ isconnected = FALSE
    /\ ping_outstanding = FALSE
    /\ ping_expired = FALSE
    /\ handler = FALSE
    /\ sr = "CLOSED"
    /\ toBroker = <<>>
    /\ toClient = <<>>
    /\ link = TRUE
    /\ broker \in BOOLEAN
    /\ session = "none"
    /\ subscribed = FALSE

Next == Thread \/ Timeout \/ World

Spec == Init /\ [][Next]_vars

\* The thread runs, and waits for an answer end; the chip reports a connection that
\* fails or is lost; a broker that is up serves its clients and closes with them; and
\* a broker that is reachable is reached in the end.  That connect() and disconnect()
\* return is not assumed.
Fairness == /\ WF_vars(Thread \/ Timeout)
            /\ WF_vars(BrokerReads)
            /\ WF_vars(BrokerFinishes)
            /\ WF_vars(ConnectFails)
            /\ WF_vars(ChipGivesUp)
            /\ SF_vars(BrokerAccepts)

FairSpec == Spec /\ Fairness

-------------------------------------------------------------------------------
(* Properties.                                                             *)

\* How often a packet is in a stream.
Absent(p, s) == \A i \in 1..Len(s) : s[i] # p
Once(p, s)   == \E i \in 1..Len(s) : s[i] = p /\ \A j \in 1..Len(s) : s[j] = p => j = i

\* Every variable keeps its type, and the thread never writes more than the socket's
\* buffer has room for.
TypeOK ==
    /\ pc \in Locations
    /\ ms \in 0..PublishEvery
    /\ started \in BOOLEAN /\ isconnected \in BOOLEAN /\ handler \in BOOLEAN
    /\ ping_outstanding \in BOOLEAN /\ ping_expired \in BOOLEAN
    /\ link \in BOOLEAN /\ broker \in BOOLEAN /\ subscribed \in BOOLEAN
    /\ sr \in {"CLOSED", "SYNSENT", "ESTABLISHED", "CLOSE_WAIT",
              "FIN_WAIT", "FIN_ACKED", "LAST_ACK"}
    /\ toBroker \in Seq(Sent) /\ Len(toBroker) <= QueueMax
    /\ toClient \in Seq(Answers)
    /\ session \in {"none", "accepted", "refused", "open"}

\* What the broker reads on a connection is CONNECT first, and CONNECT once,
\* however often the thread failed to log in and tried again (a client that sends
\* it twice, or something else before it, is thrown out).
ConnectFirst ==
    /\ session = "accepted" /\ toBroker # <<>> =>
          Head(toBroker) = "CONNECT" /\ Once("CONNECT", toBroker)
    /\ session \in {"open", "refused"} => Absent("CONNECT", toBroker)

\* A client that is connected, over a connection that lives, has been let in by
\* the broker on this very connection; the flag is not left over from another, and
\* a refusal is not taken for a welcome.
SessionAgreed ==
    isconnected /\ session # "none" => session = "open"

\* While a ping is outstanding, either it or its answer is under way on the
\* connection, if that still exists; so an answer will clear the flag and pings
\* can go on.
PingUnderWay ==
    ping_outstanding /\ session = "open" =>
        \/ Once("PINGREQ", toBroker) /\ Absent("PINGRESP", toClient)
        \/ Absent("PINGREQ", toBroker) /\ Once("PINGRESP", toClient)

\* From some time on the cable is in, the broker is up, admits the client, answers
\* in time, takes what it publishes in time and does not close its connection.
Stable ==
    /\ <>[](link /\ broker)
    /\ <>[][/\ ~BrokerCloses
            /\ session' = "refused" => session = "refused"
            /\ session # "none" => ~Timeout
            /\ session = "open" /\ Publish /\ Due /\ isconnected => ~sendFails]_vars

\* The two loops of socket.c that have no bound: connect() on a connection closed
\* before it was seen, and disconnect() when its FIN was acknowledged by a broker that
\* is gone since.
EndlessWait == \/ pc = "connect" /\ sr = "CLOSE_WAIT"
               \/ pc = "disconnecting" /\ sr = "FIN_ACKED" /\ session = "none"

\* After any sequence of cuts, resets, refusals and restarts, once things are
\* stable again the broker reads the client's periodic message again and again:
\* the thread finds out that its connection is gone, also when nobody told it,
\* drops it and logs in anew; unless it was caught in one of the endless waits.
Heartbeat ==
    Stable => \/ []<>(session = "open" /\ toBroker # <<>> /\ Head(toBroker) = "PUBLISH")
              \/ <>[]EndlessWait

\* MQTT_Example.c, on the branch that reconnects: "If it dropped, handle full
\* initialization".  After it, unless the thread never gets out of the branch, the
\* client should have what it had before: the subscription it made at the start.
SubscriptionRestored ==
    Stable /\ <>(session = "open" /\ subscribed /\ handler)
        => []<>(session = "open" /\ subscribed /\ handler) \/ <>[]EndlessWait
===============================================================================
