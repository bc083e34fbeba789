--------------------------- MODULE MqttThread_proofs ---------------------------
(***************************************************************************)
(* Proofs about MqttThread: its types, that every connection begins with   *)
(* one CONNECT, that the client's flag speaks of the connection it has,    *)
(* and that an outstanding ping or its answer is under way.                *)
(***************************************************************************)
EXTENDS MqttThread, TLAPS

-------------------------------------------------------------------------------
\* What appending a packet to a stream does to the number of packets in it.
LEMMA Appended ==
    ASSUME NEW S, NEW s \in Seq(S), NEW q \in S, NEW p
    PROVE  /\ Append(s, q) \in Seq(S) /\ Append(s, q) # <<>>
           /\ s # <<>> => Head(Append(s, q)) = Head(s)
           /\ s = <<>> => Head(Append(s, q)) = q
           /\ Absent(p, s) /\ q # p => Absent(p, Append(s, q))
           /\ Absent(p, s) /\ q = p => Once(p, Append(s, q))
           /\ Once(p, s) /\ q # p => Once(p, Append(s, q))
  <1> DEFINE t == Append(s, q)
  <1>1. /\ t \in Seq(S) /\ Len(s) \in Nat /\ Len(t) = Len(s) + 1
        /\ \A i \in 1..Len(s) : t[i] = s[i]
        /\ t[Len(s) + 1] = q
    OBVIOUS
  <1>2. t # <<>> /\ (s # <<>> => Head(t) = Head(s)) /\ (s = <<>> => Head(t) = q)
    BY <1>1
  <1>3. \A i \in 1..Len(t) : i \in 1..Len(s) \/ i = Len(s) + 1
    BY <1>1
  <1>4. \A i \in 1..Len(s) : i \in 1..Len(t) /\ i # Len(s) + 1
    BY <1>1
  <1>5. Len(s) + 1 \in 1..Len(t)
    BY <1>1
  <1> HIDE DEF t
  <1>6. Absent(p, s) /\ q # p => Absent(p, t)
    BY <1>1, <1>3 DEF Absent
  <1>7. Absent(p, s) /\ q = p => Once(p, t)
    BY <1>1, <1>3, <1>4, <1>5 DEF Absent, Once
  <1>8. Once(p, s) /\ q # p => Once(p, t)
    BY <1>1, <1>3, <1>4, <1>5 DEF Once
  <1> QED
    BY <1>1, <1>2, <1>6, <1>7, <1>8 DEF t

\* What reading a packet from a stream does to the number of packets in it.
LEMMA Removed ==
    ASSUME NEW S, NEW s \in Seq(S), s # <<>>, NEW p
    PROVE  /\ Head(s) \in S /\ Tail(s) \in Seq(S) /\ Len(Tail(s)) <= Len(s)
           /\ Absent(p, s) => Absent(p, Tail(s)) /\ Head(s) # p
           /\ Once(p, s) /\ Head(s) = p => Absent(p, Tail(s))
           /\ Once(p, s) /\ Head(s) # p => Once(p, Tail(s))
  <1> DEFINE t == Tail(s)
  <1>1. /\ Head(s) \in S /\ t \in Seq(S)
        /\ Len(s) \in Nat /\ Len(s) >= 1 /\ Len(t) = Len(s) - 1 /\ Head(s) = s[1]
        /\ \A i \in 1..Len(t) : t[i] = s[i + 1]
    OBVIOUS
  <1> HIDE DEF t
  <1>2. Len(t) \in Nat /\ Len(t) <= Len(s)
    BY <1>1
  <1>3. \A i \in 1..Len(t) : i + 1 \in 1..Len(s) /\ i + 1 # 1
    BY <1>1, <1>2
  <1>4. 1 \in 1..Len(s)
    BY <1>1
  <1>5. Absent(p, s) => Absent(p, t) /\ Head(s) # p
    BY <1>1, <1>3, <1>4 DEF Absent
  <1>6. Once(p, s) /\ Head(s) = p => Absent(p, t)
    BY <1>1, <1>3, <1>4 DEF Absent, Once
  <1>7. ASSUME Once(p, s), Head(s) # p PROVE Once(p, t)
    <2>1. PICK i \in 1..Len(s) : s[i] = p /\ \A j \in 1..Len(s) : s[j] = p => j = i
      BY <1>7 DEF Once
    <2>2. i # 1 /\ i - 1 \in 1..Len(t) /\ (i - 1) + 1 = i
      BY <2>1, <1>7, <1>1, <1>2
    <2>3. t[i - 1] = p
      BY <2>1, <2>2, <1>1
    <2>4. \A j \in 1..Len(t) : t[j] = p => j = i - 1
      BY <2>1, <2>2, <1>1, <1>3
    <2> QED
      BY <2>2, <2>3, <2>4 DEF Once
  <1> QED
    BY <1>1, <1>2, <1>5, <1>6, <1>7 DEF t

-------------------------------------------------------------------------------
\* Where the thread is tells what it knows: a connection that the broker has is
\* ESTABLISHED, or being closed by disconnect(); before the login nothing has been
\* written or read; the flag is down while the thread reconnects, and without it no
\* ping is due.
Stage ==
    /\ session # "none" => sr \in {"ESTABLISHED", "FIN_WAIT", "FIN_ACKED"}
    /\ sr \in {"FIN_WAIT", "FIN_ACKED", "LAST_ACK"} => pc = "disconnecting"
    /\ sr = "SYNSENT" => pc = "connect" /\ session = "none"
    /\ pc \in {"connect", "login"} =>
          toBroker = <<>> /\ toClient = <<>> /\ session \in {"none", "accepted"}
    /\ pc \in {"open", "connect", "login", "connack", "disconnect", "disconnecting"} => ~isconnected
    /\ ~isconnected /\ pc \notin {"open", "connect", "login", "disconnect", "disconnecting"} => ~ping_expired

\* Until the broker has let the client in there is no CONNACK to be read, and
\* until it has read the CONNECT nothing at all.
Opening ==
    /\ session = "accepted" => toClient = <<>>
    /\ session = "accepted" /\ pc \notin {"connect", "login"} => toBroker # <<>>
    /\ session = "refused" => Absent("CONNACK", toClient)

\* Without an outstanding ping none is under way, and none is outstanding on a
\* connection that is not open yet.
Pings ==
    /\ session \in {"accepted", "refused"} /\ pc \notin {"connect", "login"} => ~ping_outstanding
    /\ session # "none" /\ ~(session = "open" /\ ping_outstanding) =>
          Absent("PINGREQ", toBroker) /\ Absent("PINGRESP", toClient)

IInv == TypeOK /\ Stage /\ Opening /\ Pings /\ ConnectFirst /\ SessionAgreed /\ PingUnderWay

-------------------------------------------------------------------------------
\* What a packet that was sent changes.
LEMMA SentOne ==
    ASSUME TypeOK, NEW p \in Sent, sendPacket(p), NEW q
    PROVE  /\ toBroker' \in Seq(Sent) /\ Len(toBroker') <= QueueMax /\ toBroker' # <<>>
           /\ toBroker # <<>> => Head(toBroker') = Head(toBroker)
           /\ toBroker = <<>> => Head(toBroker') = p
           /\ Absent(q, toBroker) /\ q # p => Absent(q, toBroker')
           /\ Absent(q, toBroker) /\ q = p => Once(q, toBroker')
           /\ Once(q, toBroker) /\ q # p => Once(q, toBroker')
           /\ sr = "ESTABLISHED" /\ ping_expired' = FALSE
  <1>1. toBroker \in Seq(Sent) /\ Len(toBroker) + 1 <= QueueMax
    BY BoundsOK DEF TypeOK, sendPacket, CanSend
  <1>2. toBroker' = Append(toBroker, p) /\ Len(toBroker') = Len(toBroker) + 1
    BY <1>1 DEF sendPacket
  <1> QED
    BY <1>1, <1>2, Appended DEF sendPacket, CanSend

\* What cycle leaves of the streams and the ping, when the broker has the
\* connection: one packet fewer to read, perhaps a PINGREQ more to send.
LEMMA Cycled ==
    ASSUME IInv, cycle, pc \notin {"connect", "login"}
    PROVE  /\ toBroker' \in Seq(Sent) /\ Len(toBroker') <= QueueMax
           /\ toClient' \in Seq(Answers)
           /\ ping_outstanding' \in BOOLEAN /\ ping_expired' \in BOOLEAN
           /\ toClient = <<>> => toClient' = <<>>
           /\ toBroker # <<>> => toBroker' # <<>> /\ Head(toBroker') = Head(toBroker)
           /\ ~ping_expired => ~ping_expired'
           /\ ~ping_expired => toBroker' = toBroker
           /\ ~ping_expired /\ ~ping_outstanding => ~ping_outstanding'
           /\ Absent("CONNECT", toBroker) => Absent("CONNECT", toBroker')
           /\ Once("CONNECT", toBroker) => Once("CONNECT", toBroker')
           /\ Absent("CONNACK", toClient) => Absent("CONNACK", toClient')
           /\ Absent("CONNACK", toClient) => Packet # "CONNACK"
           /\ session = "open" => IF ping_outstanding'
                 THEN \/ Once("PINGREQ", toBroker') /\ Absent("PINGRESP", toClient')
                      \/ Absent("PINGREQ", toBroker') /\ Once("PINGRESP", toClient')
                 ELSE Absent("PINGREQ", toBroker') /\ Absent("PINGRESP", toClient')
           /\ session \in {"accepted", "refused"} /\ ~ping_expired =>
                 Absent("PINGREQ", toBroker') /\ Absent("PINGRESP", toClient')
  <1>0. TypeOK
    BY DEF IInv
  <1>1. /\ toClient' \in Seq(Answers)
        /\ toClient = <<>> => toClient' = <<>>
        /\ Absent("CONNACK", toClient) => Absent("CONNACK", toClient') /\ Packet # "CONNACK"
        /\ Absent("PINGRESP", toClient) => Absent("PINGRESP", toClient') /\ Packet # "PINGRESP"
        /\ Once("PINGRESP", toClient) =>
              IF Packet = "PINGRESP" THEN Absent("PINGRESP", toClient') ELSE Once("PINGRESP", toClient')
    <2>1. CASE Readable
      BY <2>1, <1>0, Removed DEF cycle, Packet, Readable, TypeOK
    <2>2. CASE ~Readable
      BY <2>2, <1>0 DEF cycle, Packet, TypeOK
    <2> QED
      BY <2>1, <2>2
  <1>2. CASE sendPacket("PINGREQ") /\ ping_outstanding' = TRUE /\ ping_expired /\ ~pingWaits
    <2>1. "PINGREQ" \in Sent
      BY DEF Sent
    <2>2. session # "none" => ~ping_outstanding \/ Packet = "PINGRESP"
      BY <1>2, <1>0 DEF pingWaits, TypeOK
    <2>3. session = "open" => Absent("PINGREQ", toBroker) /\ Absent("PINGRESP", toClient')
      BY <2>2, <1>1 DEF IInv, Pings, PingUnderWay
    <2> QED
      BY <1>0, <1>1, <1>2, <2>1, <2>3, SentOne
  <1>3. CASE ping_outstanding' = pingWaits /\ UNCHANGED toBroker
             /\ ping_expired' = ping_expired
    <2>1. pingWaits \in BOOLEAN
      BY <1>0 DEF pingWaits, TypeOK
    <2>2. session = "open" => IF ping_outstanding'
                 THEN \/ Once("PINGREQ", toBroker') /\ Absent("PINGRESP", toClient')
                      \/ Absent("PINGREQ", toBroker') /\ Once("PINGRESP", toClient')
                 ELSE Absent("PINGREQ", toBroker') /\ Absent("PINGRESP", toClient')
      BY <1>0, <1>1, <1>3 DEF IInv, Pings, PingUnderWay, pingWaits, TypeOK
    <2>3. session \in {"accepted", "refused"} =>
                 Absent("PINGREQ", toBroker') /\ Absent("PINGRESP", toClient')
      BY <1>1, <1>3 DEF IInv, Pings
    <2> QED
      BY <1>0, <1>1, <1>3, <2>1, <2>2, <2>3 DEF pingWaits, TypeOK
  <1> QED
    BY <1>2, <1>3 DEF cycle, keepalive, sendFails, CannotSend
\* A connection that is gone leaves both streams empty.
LEMMA Gone ==
    ASSUME ConnectionGone
    PROVE  /\ toBroker' = <<>> /\ toClient' = <<>> /\ session' = "none" /\ subscribed' = FALSE
           /\ toBroker' \in Seq(Sent) /\ Len(toBroker') <= QueueMax
           /\ toClient' \in Seq(Answers)
  BY BoundsOK DEF ConnectionGone

-------------------------------------------------------------------------------
\* Every step of the thread, the chip and the broker preserves the strengthening.
LEMMA IInvStep == IInv /\ [Next]_vars => IInv'
  <1> SUFFICES ASSUME IInv, [Next]_vars PROVE IInv'
    OBVIOUS
  <1> USE DEF IInv, Locations
  <1>e. /\ <<>> \in Seq(Sent) /\ <<>> \in Seq(Answers) /\ Len(<<>>) = 0
        /\ QueueMax \in Nat \ {0} /\ PublishEvery \in Nat \ {0}
        /\ \A p : Absent(p, <<>>)
    BY BoundsOK DEF Absent
  <1>1. CASE Open
    <2>1. TypeOK'
      BY <1>1, Gone DEF Open, TypeOK, vars, thread, client, streams, world, remote
    <2>2. (Stage /\ Opening /\ SessionAgreed)'
      BY <1>1, Gone DEF Open, TypeOK, Stage, Opening, SessionAgreed, vars, thread, client, streams, world, remote
    <2>3. ConnectFirst'
      BY <1>1, Gone DEF Open, Stage, Opening, ConnectFirst, vars, thread, client, streams, world, remote
    <2>4. (Pings /\ PingUnderWay)'
      BY <1>1, Gone DEF Open, TypeOK, Stage, Opening, Pings, PingUnderWay, vars, thread, client, streams, world, remote
    <2> QED
      BY <2>1, <2>2, <2>3, <2>4
  <1>2. CASE ConnectReturns
    <2>1. TypeOK'
      BY <1>2 DEF ConnectReturns, TypeOK, vars, thread, client, streams, world, remote
    <2>2. (Stage /\ Opening /\ SessionAgreed)'
      BY <1>2 DEF ConnectReturns, TypeOK, Stage, Opening, SessionAgreed, vars, thread, client, streams, world, remote
    <2>3. ConnectFirst'
      BY <1>2 DEF ConnectReturns, Stage, Opening, ConnectFirst, vars, thread, client, streams, world, remote
    <2>4. (Pings /\ PingUnderWay)'
      BY <1>2 DEF ConnectReturns, TypeOK, Stage, Opening, Pings, PingUnderWay, vars, thread, client, streams, world, remote
    <2> QED
      BY <2>1, <2>2, <2>3, <2>4
  <1>3. CASE ConnectFails
    <2>1. TypeOK'
      BY <1>3 DEF ConnectFails, TypeOK, vars, thread, client, streams, world, remote
    <2>2. (Stage /\ Opening /\ SessionAgreed)'
      BY <1>3 DEF ConnectFails, TypeOK, Stage, Opening, SessionAgreed, vars, thread, client, streams, world, remote
    <2>3. ConnectFirst'
      BY <1>3 DEF ConnectFails, Stage, Opening, ConnectFirst, vars, thread, client, streams, world, remote
    <2>4. (Pings /\ PingUnderWay)'
      BY <1>3 DEF ConnectFails, TypeOK, Stage, Opening, Pings, PingUnderWay, vars, thread, client, streams, world, remote
    <2> QED
      BY <2>1, <2>2, <2>3, <2>4
  <1>4. CASE CheckSocket
    <2>1. TypeOK'
      BY <1>4, Gone DEF CheckSocket, TypeOK, vars, thread, client, streams, world, remote
    <2>2. (Stage /\ Opening /\ SessionAgreed)'
      BY <1>4, Gone DEF CheckSocket, TypeOK, Stage, Opening, SessionAgreed, vars, thread, client, streams, world, remote
    <2>3. ConnectFirst'
      BY <1>4, Gone DEF CheckSocket, Stage, Opening, ConnectFirst, vars, thread, client, streams, world, remote
    <2>4. (Pings /\ PingUnderWay)'
      BY <1>4, Gone DEF CheckSocket, TypeOK, Stage, Opening, Pings, PingUnderWay, vars, thread, client, streams, world, remote
    <2> QED
      BY <2>1, <2>2, <2>3, <2>4
  <1>5. CASE Disconnect
    <2>1. TypeOK'
      BY <1>5 DEF Disconnect, TypeOK, vars, thread, client, streams, world, remote
    <2>2. (Stage /\ Opening /\ SessionAgreed)'
      BY <1>5 DEF Disconnect, TypeOK, Stage, Opening, SessionAgreed, vars, thread, client, streams, world, remote
    <2>3. ConnectFirst'
      BY <1>5 DEF Disconnect, Stage, Opening, ConnectFirst, vars, thread, client, streams, world, remote
    <2>4. (Pings /\ PingUnderWay)'
      BY <1>5 DEF Disconnect, TypeOK, Stage, Opening, Pings, PingUnderWay, vars, thread, client, streams, world, remote
    <2> QED
      BY <2>1, <2>2, <2>3, <2>4
  <1>6. CASE ConnackTimeout
    <2>1. TypeOK'
      BY <1>6 DEF ConnackTimeout, AfterLogin, TypeOK, vars, thread, client, streams, world, remote
    <2>2. (Stage /\ Opening /\ SessionAgreed)'
      BY <1>6 DEF ConnackTimeout, AfterLogin, TypeOK, Stage, Opening, SessionAgreed, vars, thread, client, streams, world, remote
    <2>3. ConnectFirst'
      BY <1>6 DEF ConnackTimeout, AfterLogin, Stage, Opening, ConnectFirst, vars, thread, client, streams, world, remote
    <2>4. (Pings /\ PingUnderWay)'
      BY <1>6 DEF ConnackTimeout, AfterLogin, TypeOK, Stage, Opening, Pings, PingUnderWay, vars, thread, client, streams, world, remote
    <2> QED
      BY <2>1, <2>2, <2>3, <2>4
  <1>7. CASE SubackTimeout
    <2>1. TypeOK'
      BY <1>7 DEF SubackTimeout, TypeOK, vars, thread, client, streams, world, remote
    <2>2. (Stage /\ Opening /\ SessionAgreed)'
      BY <1>7 DEF SubackTimeout, TypeOK, Stage, Opening, SessionAgreed, vars, thread, client, streams, world, remote
    <2>3. ConnectFirst'
      BY <1>7 DEF SubackTimeout, Stage, Opening, ConnectFirst, vars, thread, client, streams, world, remote
    <2>4. (Pings /\ PingUnderWay)'
      BY <1>7 DEF SubackTimeout, TypeOK, Stage, Opening, Pings, PingUnderWay, vars, thread, client, streams, world, remote
    <2> QED
      BY <2>1, <2>2, <2>3, <2>4
  <1>8. CASE PingTimer
    <2>1. TypeOK'
      BY <1>8 DEF PingTimer, TypeOK, vars, thread, client, streams, world, remote
    <2>2. (Stage /\ Opening /\ SessionAgreed)'
      BY <1>8 DEF PingTimer, TypeOK, Stage, Opening, SessionAgreed, vars, thread, client, streams, world, remote
    <2>3. ConnectFirst'
      BY <1>8 DEF PingTimer, Stage, Opening, ConnectFirst, vars, thread, client, streams, world, remote
    <2>4. (Pings /\ PingUnderWay)'
      BY <1>8 DEF PingTimer, TypeOK, Stage, Opening, Pings, PingUnderWay, vars, thread, client, streams, world, remote
    <2> QED
      BY <2>1, <2>2, <2>3, <2>4
  <1>9. CASE Cable
    <2>1. TypeOK'
      BY <1>9 DEF Cable, TypeOK, vars, thread, client, streams, world, remote
    <2>2. (Stage /\ Opening /\ SessionAgreed)'
      BY <1>9 DEF Cable, TypeOK, Stage, Opening, SessionAgreed, vars, thread, client, streams, world, remote
    <2>3. ConnectFirst'
      BY <1>9 DEF Cable, Stage, Opening, ConnectFirst, vars, thread, client, streams, world, remote
    <2>4. (Pings /\ PingUnderWay)'
      BY <1>9 DEF Cable, TypeOK, Stage, Opening, Pings, PingUnderWay, vars, thread, client, streams, world, remote
    <2> QED
      BY <2>1, <2>2, <2>3, <2>4
  <1>10. CASE BrokerCloses
    <2>1. TypeOK'
      BY <1>10 DEF BrokerCloses, TypeOK, vars, thread, client, streams, world, remote
    <2>2. (Stage /\ Opening /\ SessionAgreed)'
      BY <1>10 DEF BrokerCloses, TypeOK, Stage, Opening, SessionAgreed, vars, thread, client, streams, world, remote
    <2>3. ConnectFirst'
      BY <1>10 DEF BrokerCloses, Stage, Opening, ConnectFirst, vars, thread, client, streams, world, remote
    <2>4. (Pings /\ PingUnderWay)'
      BY <1>10 DEF BrokerCloses, TypeOK, Stage, Opening, Pings, PingUnderWay, vars, thread, client, streams, world, remote
    <2> QED
      BY <2>1, <2>2, <2>3, <2>4
  <1>11. CASE BrokerDies
    <2>1. TypeOK'
      BY <1>11 DEF BrokerDies, TypeOK, vars, thread, client, streams, world, remote
    <2>2. (Stage /\ Opening /\ SessionAgreed)'
      BY <1>11 DEF BrokerDies, TypeOK, Stage, Opening, SessionAgreed, vars, thread, client, streams, world, remote
    <2>3. ConnectFirst'
      BY <1>11 DEF BrokerDies, Stage, Opening, ConnectFirst, vars, thread, client, streams, world, remote
    <2>4. (Pings /\ PingUnderWay)'
      BY <1>11 DEF BrokerDies, TypeOK, Stage, Opening, Pings, PingUnderWay, vars, thread, client, streams, world, remote
    <2> QED
      BY <2>1, <2>2, <2>3, <2>4
  <1>12. CASE BrokerStarts
    <2>1. TypeOK'
      BY <1>12 DEF BrokerStarts, TypeOK, vars, thread, client, streams, world, remote
    <2>2. (Stage /\ Opening /\ SessionAgreed)'
      BY <1>12 DEF BrokerStarts, TypeOK, Stage, Opening, SessionAgreed, vars, thread, client, streams, world, remote
    <2>3. ConnectFirst'
      BY <1>12 DEF BrokerStarts, Stage, Opening, ConnectFirst, vars, thread, client, streams, world, remote
    <2>4. (Pings /\ PingUnderWay)'
      BY <1>12 DEF BrokerStarts, TypeOK, Stage, Opening, Pings, PingUnderWay, vars, thread, client, streams, world, remote
    <2> QED
      BY <2>1, <2>2, <2>3, <2>4
  <1>13. CASE ChipGivesUp
    <2>1. TypeOK'
      BY <1>13 DEF ChipGivesUp, TypeOK, vars, thread, client, streams, world, remote
    <2>2. (Stage /\ Opening /\ SessionAgreed)'
      BY <1>13 DEF ChipGivesUp, TypeOK, Stage, Opening, SessionAgreed, vars, thread, client, streams, world, remote
    <2>3. ConnectFirst'
      BY <1>13 DEF ChipGivesUp, Stage, Opening, ConnectFirst, vars, thread, client, streams, world, remote
    <2>4. (Pings /\ PingUnderWay)'
      BY <1>13 DEF ChipGivesUp, TypeOK, Stage, Opening, Pings, PingUnderWay, vars, thread, client, streams, world, remote
    <2> QED
      BY <2>1, <2>2, <2>3, <2>4
  <1>14. CASE Login
    <2>1. toBroker = <<>> /\ toClient = <<>> /\ session \in {"none", "accepted"}
      BY <1>14 DEF Login, Stage
    <2>2. CASE toBroker' = Append(toBroker, "CONNECT") /\ pc' = "connack" /\ CanSend
      <3>1. toBroker' = Append(<<>>, "CONNECT") /\ toBroker' \in Seq(Sent)
        BY <2>1, <2>2, <1>e DEF Sent
      <3>2. /\ toBroker' # <<>> /\ Head(toBroker') = "CONNECT" /\ Len(toBroker') <= QueueMax
            /\ Once("CONNECT", toBroker') /\ Absent("PINGREQ", toBroker')
        <4>1. "CONNECT" \in Sent /\ "PINGREQ" # "CONNECT"
          BY DEF Sent
        <4>2. toBroker' # <<>> /\ Head(toBroker') = "CONNECT" /\ Len(toBroker') = 1
          BY <3>1, <4>1
        <4>3. Once("CONNECT", toBroker')
          BY <3>1, <4>1, <4>2 DEF Once
        <4>4. Absent("PINGREQ", toBroker')
          BY <3>1, <4>1, <4>2 DEF Absent
        <4> QED
          BY <4>2, <4>3, <4>4, <1>e
      <3>3. TypeOK'
        BY <1>14, <2>2, <3>1, <3>2 DEF Login, MQTTClientInit, TypeOK, world, remote
      <3>4. (Stage /\ Opening /\ SessionAgreed)'
        BY <1>14, <2>1, <2>2, <3>2 DEF Login, MQTTClientInit, Stage, Opening, SessionAgreed, world, remote
      <3>5. (ConnectFirst /\ Pings /\ PingUnderWay)'
        BY <1>14, <2>1, <2>2, <3>2, <1>e DEF Login, MQTTClientInit, ConnectFirst, Pings, PingUnderWay, world, remote
      <3> QED
        BY <3>3, <3>4, <3>5
    <2>3. CASE UNCHANGED toBroker /\ pc' = AfterLogin /\ CannotSend
      <3>1. session = "none"
        BY <1>14, <2>1, <2>3 DEF Login, CannotSend, Stage
      <3>2. TypeOK'
        BY <1>14, <2>3 DEF Login, MQTTClientInit, AfterLogin, TypeOK, world, remote
      <3>3. (Stage /\ Opening /\ SessionAgreed /\ ConnectFirst /\ Pings /\ PingUnderWay)'
        BY <1>14, <2>1, <2>3, <3>1 DEF Login, MQTTClientInit, AfterLogin, Stage, Opening,
             SessionAgreed, ConnectFirst, Pings, PingUnderWay, world, remote
      <3> QED
        BY <3>2, <3>3
    <2> QED
      BY <1>14, <2>2, <2>3 DEF Login
  <1>15. CASE WaitConnack
    <2>0. cycle /\ pc \notin {"connect", "login"}
      BY <1>15 DEF WaitConnack
    <2>1. TypeOK'
      BY <1>15, <2>0, Cycled DEF WaitConnack, Connack, AfterLogin, TypeOK, world, remote
    <2>c. Packet = "CONNACK" => session \in {"open", "none"}
      BY <2>0, <1>e, Cycled DEF Opening, TypeOK
    <2>2. (Stage /\ Opening /\ SessionAgreed)'
      <3>1. Stage'
        BY <1>15, <2>0, Cycled DEF WaitConnack, Connack, AfterLogin, TypeOK, Stage, remote
      <3>2. Opening'
        BY <1>15, <2>0, Cycled DEF WaitConnack, Opening, AfterLogin, remote
      <3>3. SessionAgreed'
        BY <1>15, <2>c DEF WaitConnack, Connack, SessionAgreed, remote
      <3> QED
        BY <3>1, <3>2, <3>3
    <2>3. ConnectFirst'
      BY <1>15, <2>0, Cycled DEF WaitConnack, TypeOK, Opening, ConnectFirst, remote
    <2>4. (Pings /\ PingUnderWay)'
      BY <1>15, <2>0, Cycled DEF WaitConnack, Connack, AfterLogin, TypeOK, Stage, SessionAgreed, Pings, PingUnderWay, remote
    <2> QED
      BY <2>1, <2>2, <2>3, <2>4
  <1>16. CASE WaitSuback
    <2>0. cycle /\ pc \notin {"connect", "login"}
      BY <1>16 DEF WaitSuback
    <2>1. TypeOK'
      BY <1>16, <2>0, Cycled DEF WaitSuback, TypeOK, world, remote
    <2>2. (Stage /\ Opening /\ SessionAgreed)'
      BY <1>16, <2>0, Cycled DEF WaitSuback, TypeOK, Stage, Opening, SessionAgreed, remote
    <2>3. ConnectFirst'
      BY <1>16, <2>0, Cycled DEF WaitSuback, TypeOK, Opening, ConnectFirst, remote
    <2>4. (Pings /\ PingUnderWay)'
      BY <1>16, <2>0, Cycled DEF WaitSuback, TypeOK, Stage, SessionAgreed, Pings, PingUnderWay, remote
    <2> QED
      BY <2>1, <2>2, <2>3, <2>4
  <1>17. CASE Yield
    <2>0. cycle /\ pc \notin {"connect", "login"}
      BY <1>17 DEF Yield
    <2>1. TypeOK'
      BY <1>17, <2>0, Cycled DEF Yield, TypeOK, world, remote
    <2>2. (Stage /\ Opening /\ SessionAgreed)'
      BY <1>17, <2>0, Cycled DEF Yield, TypeOK, Stage, Opening, SessionAgreed, remote
    <2>3. ConnectFirst'
      BY <1>17, <2>0, Cycled DEF Yield, TypeOK, Opening, ConnectFirst, remote
    <2>4. (Pings /\ PingUnderWay)'
      BY <1>17, <2>0, Cycled DEF Yield, TypeOK, Stage, SessionAgreed, Pings, PingUnderWay, remote
    <2> QED
      BY <2>1, <2>2, <2>3, <2>4
  <1>18. CASE Subscribe
    <2>0. "SUBSCRIBE" \in Sent /\ "SUBSCRIBE" \notin {"CONNECT", "PINGREQ"}
      BY DEF Sent
    <2>m. ms' \in 0..PublishEvery
      BY <1>18, <1>e DEF Subscribe, Due, TypeOK
    <2>1. CASE isconnected /\ sendPacket("SUBSCRIBE")
      <3>0. TypeOK /\ toBroker' \in Seq(Sent) /\ Len(toBroker') <= QueueMax /\ ping_expired' = FALSE
        BY <2>0, <2>1, SentOne
      <3>1. TypeOK'
        BY <1>18, <3>0, <2>m DEF Subscribe, TypeOK, world, remote
      <3>2. (Stage /\ Opening /\ SessionAgreed)'
        BY <1>18, <2>0, <2>1, SentOne DEF Subscribe, TypeOK, Stage, Opening, SessionAgreed, remote
      <3>3. (ConnectFirst /\ Pings /\ PingUnderWay)'
        BY <1>18, <2>0, <2>1, SentOne DEF Subscribe, TypeOK, SessionAgreed, Opening, ConnectFirst, Pings, PingUnderWay, remote
      <3> QED
        BY <3>1, <3>2, <3>3
    <2>2. CASE UNCHANGED <<toBroker, ping_expired>>
      <3>1. TypeOK'
        BY <1>18, <2>2, <1>e DEF Subscribe, Due, TypeOK, world, remote
      <3>2. (Stage /\ Opening /\ SessionAgreed /\ ConnectFirst /\ Pings /\ PingUnderWay)'
        BY <1>18, <2>2 DEF Subscribe, TypeOK, Stage, Opening, SessionAgreed, ConnectFirst, Pings,
             PingUnderWay, remote
      <3> QED
        BY <3>1, <3>2
    <2> QED
      BY <1>18, <2>1, <2>2 DEF Subscribe, sendFails
  <1>19. CASE Publish
    <2>0. "PUBLISH" \in Sent /\ "PUBLISH" \notin {"CONNECT", "PINGREQ"}
      BY DEF Sent
    <2>m. ms' \in 0..PublishEvery
      BY <1>19, <1>e DEF Publish, Due, TypeOK
    <2>1. CASE isconnected /\ sendPacket("PUBLISH")
      <3>0. TypeOK /\ toBroker' \in Seq(Sent) /\ Len(toBroker') <= QueueMax /\ ping_expired' = FALSE
        BY <2>0, <2>1, SentOne
      <3>1. TypeOK'
        BY <1>19, <3>0, <2>m DEF Publish, TypeOK, world, remote
      <3>2. (Stage /\ Opening /\ SessionAgreed)'
        BY <1>19, <2>0, <2>1, SentOne DEF Publish, TypeOK, Stage, Opening, SessionAgreed, remote
      <3>3. (ConnectFirst /\ Pings /\ PingUnderWay)'
        BY <1>19, <2>0, <2>1, SentOne DEF Publish, TypeOK, SessionAgreed, Opening, ConnectFirst, Pings, PingUnderWay, remote
      <3> QED
        BY <3>1, <3>2, <3>3
    <2>2. CASE UNCHANGED <<toBroker, ping_expired>>
      <3>1. TypeOK'
        BY <1>19, <2>2, <1>e DEF Publish, Due, TypeOK, world, remote
      <3>2. (Stage /\ Opening /\ SessionAgreed /\ ConnectFirst /\ Pings /\ PingUnderWay)'
        BY <1>19, <2>2 DEF Publish, TypeOK, Stage, Opening, SessionAgreed, ConnectFirst, Pings,
             PingUnderWay, remote
      <3> QED
        BY <3>1, <3>2
    <2> QED
      BY <1>19, <2>1, <2>2 DEF Publish, sendFails
  <1>20. CASE BrokerReads
    <2> DEFINE p == Head(toBroker)
    <2>1. /\ p \in Sent /\ toBroker' = Tail(toBroker) /\ toBroker' \in Seq(Sent)
          /\ Len(toBroker') <= QueueMax
          /\ \A q : Absent(q, toBroker) => Absent(q, toBroker') /\ p # q
          /\ \A q : Once(q, toBroker) => IF p = q THEN Absent(q, toBroker') ELSE Once(q, toBroker')
      BY <1>20, <1>e, Removed DEF BrokerReads, TypeOK
    <2>2. ASSUME NEW a \in Answers, toClient' = Append(toClient, a)
          PROVE  /\ toClient' \in Seq(Answers)
                 /\ \A q : Absent(q, toClient) =>
                               IF a = q THEN Once(q, toClient') ELSE Absent(q, toClient')
                 /\ \A q : Once(q, toClient) /\ q # a => Once(q, toClient')
      BY <2>2, Appended DEF TypeOK
    <2>3. "CONNACK" \in Answers /\ "REFUSED" \in Answers /\ "SUBACK" \in Answers
          /\ "SUBFAIL" \in Answers /\ "PINGRESP" \in Answers
      BY DEF Answers
    <2>4. UNCHANGED <<thread, client, sr, world>>
      BY <1>20 DEF BrokerReads, Reply
    <2> HIDE DEF p
    <2>5. CASE p = "CONNECT" /\ session = "accepted"
      <3>1. pc \notin {"connect", "login"} /\ toClient = <<>> /\ ~ping_outstanding
        BY <1>20, <2>5 DEF BrokerReads, Stage, Opening, Pings
      <3>2. /\ Absent("PINGREQ", toBroker') /\ Absent("CONNECT", toBroker')
        BY <1>20, <2>1, <2>5 DEF BrokerReads, Pings, ConnectFirst
      <3>3. PICK a \in {"CONNACK", "REFUSED"} :
               /\ toClient' = Append(toClient, a)
               /\ session' = IF a = "CONNACK" THEN "open" ELSE "refused"
               /\ UNCHANGED subscribed
        BY <1>20, <2>5 DEF BrokerReads, Reply, p
      <3>4. /\ toClient' \in Seq(Answers) /\ Absent("PINGRESP", toClient')
            /\ a # "CONNACK" => Absent("CONNACK", toClient')
        BY <3>1, <3>3, <2>2, <2>3, <1>e
      <3>5. TypeOK'
        BY <2>1, <2>4, <3>3, <3>4 DEF TypeOK, thread, client, world
      <3>6. (Stage /\ Opening /\ SessionAgreed)'
        BY <2>4, <2>5, <3>1, <3>3, <3>4 DEF Stage, Opening, SessionAgreed, thread, client
      <3>7. (ConnectFirst /\ Pings /\ PingUnderWay)'
        BY <2>4, <3>1, <3>2, <3>3, <3>4 DEF ConnectFirst, Pings, PingUnderWay, thread, client
      <3> QED
        BY <3>5, <3>6, <3>7
    <2>6. CASE p # "CONNECT" /\ session = "open" /\ session' = "open"
      <3>1. /\ Absent("CONNECT", toBroker') /\ pc \notin {"connect", "login"}
            /\ subscribed' \in BOOLEAN
        BY <1>20, <2>1, <2>6 DEF BrokerReads, Stage, ConnectFirst, TypeOK, remote
      <3>2. /\ toClient' \in Seq(Answers)
            /\ p = "PINGREQ" => toClient' = Append(toClient, "PINGRESP")
            /\ p # "PINGREQ" => \/ toClient' = toClient
                                \/ \E a \in {"SUBACK", "SUBFAIL"} : toClient' = Append(toClient, a)
        BY <1>20, <2>2, <2>3, <2>6 DEF BrokerReads, Reply, p, TypeOK
      <3>3. /\ Absent("PINGRESP", toClient) /\ p = "PINGREQ" => Once("PINGRESP", toClient')
            /\ Absent("PINGRESP", toClient) /\ p # "PINGREQ" => Absent("PINGRESP", toClient')
            /\ Once("PINGRESP", toClient) /\ p # "PINGREQ" => Once("PINGRESP", toClient')
        BY <3>2, <2>2, <2>3
      <3>4. TypeOK'
        BY <2>1, <2>4, <2>6, <3>1, <3>2 DEF TypeOK, thread, client, world
      <3>5. (Stage /\ Opening /\ SessionAgreed /\ ConnectFirst)'
        BY <2>4, <2>6, <3>1 DEF Stage, Opening, SessionAgreed, ConnectFirst, thread, client
      <3>6. (Pings /\ PingUnderWay)'
        BY <2>1, <2>4, <2>6, <3>3 DEF Pings, PingUnderWay, thread, client, TypeOK
      <3> QED
        BY <3>4, <3>5, <3>6
    <2> QED
      BY <1>20, <2>5, <2>6 DEF BrokerReads, remote, p
  <1>21. CASE BrokerPublishes
    <2>1. "PUBLISH" \in Answers /\ toClient' = Append(toClient, "PUBLISH")
      BY <1>21 DEF BrokerPublishes, Reply, Answers
    <2>2. /\ toClient' \in Seq(Answers)
          /\ Absent("PINGRESP", toClient) => Absent("PINGRESP", toClient')
          /\ Once("PINGRESP", toClient) => Once("PINGRESP", toClient')
      BY <2>1, Appended DEF TypeOK
    <2>3. session = "open" /\ UNCHANGED <<thread, client, sr, world, toBroker, remote>>
      BY <1>21 DEF BrokerPublishes, Reply
    <2>4. TypeOK'
      BY <2>2, <2>3 DEF TypeOK, thread, client, world, remote
    <2>5. (Stage /\ Opening /\ SessionAgreed /\ ConnectFirst)'
      BY <2>3 DEF Stage, Opening, SessionAgreed, ConnectFirst, thread, client, remote
    <2>6. (Pings /\ PingUnderWay)'
      BY <2>2, <2>3 DEF Pings, PingUnderWay, thread, client, remote
    <2> QED
      BY <2>4, <2>5, <2>6
  <1>22. CASE Disconnected
    <2>1. TypeOK'
      BY <1>22 DEF Disconnected, TypeOK, vars, thread, client, streams, world, remote
    <2>2. (Stage /\ Opening /\ SessionAgreed)'
      BY <1>22 DEF Disconnected, TypeOK, Stage, Opening, SessionAgreed, vars, thread, client, streams, world, remote
    <2>3. ConnectFirst'
      BY <1>22 DEF Disconnected, Stage, Opening, ConnectFirst, vars, thread, client, streams, world, remote
    <2>4. (Pings /\ PingUnderWay)'
      BY <1>22 DEF Disconnected, TypeOK, Stage, Opening, Pings, PingUnderWay, vars, thread, client, streams, world, remote
    <2> QED
      BY <2>1, <2>2, <2>3, <2>4
  <1>23. CASE BrokerAccepts
    <2>1. TypeOK'
      BY <1>23 DEF BrokerAccepts, TypeOK, vars, thread, client, streams, world, remote
    <2>2. (Stage /\ Opening /\ SessionAgreed)'
      BY <1>23 DEF BrokerAccepts, TypeOK, Stage, Opening, SessionAgreed, vars, thread, client, streams, world, remote
    <2>3. ConnectFirst'
      BY <1>23 DEF BrokerAccepts, Stage, Opening, ConnectFirst, vars, thread, client, streams, world, remote
    <2>4. (Pings /\ PingUnderWay)'
      BY <1>23, <1>e DEF BrokerAccepts, TypeOK, Stage, Opening, Pings, PingUnderWay, vars, thread, client, streams, world, remote
    <2> QED
      BY <2>1, <2>2, <2>3, <2>4
  <1>24. CASE FinAcked
    <2>1. TypeOK'
      BY <1>24 DEF FinAcked, TypeOK, vars, thread, client, streams, world, remote
    <2>2. (Stage /\ Opening /\ SessionAgreed)'
      BY <1>24 DEF FinAcked, TypeOK, Stage, Opening, SessionAgreed, vars, thread, client, streams, world, remote
    <2>3. ConnectFirst'
      BY <1>24 DEF FinAcked, Stage, Opening, ConnectFirst, vars, thread, client, streams, world, remote
    <2>4. (Pings /\ PingUnderWay)'
      BY <1>24 DEF FinAcked, TypeOK, Stage, Opening, Pings, PingUnderWay, vars, thread, client, streams, world, remote
    <2> QED
      BY <2>1, <2>2, <2>3, <2>4
  <1>25. CASE BrokerFinishes
    <2>1. TypeOK'
      BY <1>25 DEF BrokerFinishes, TypeOK, vars, thread, client, streams, world, remote
    <2>2. (Stage /\ Opening /\ SessionAgreed)'
      BY <1>25 DEF BrokerFinishes, TypeOK, Stage, Opening, SessionAgreed, vars, thread, client, streams, world, remote
    <2>3. ConnectFirst'
      BY <1>25 DEF BrokerFinishes, Stage, Opening, ConnectFirst, vars, thread, client, streams, world, remote
    <2>4. (Pings /\ PingUnderWay)'
      BY <1>25 DEF BrokerFinishes, TypeOK, Stage, Opening, Pings, PingUnderWay, vars, thread, client, streams, world, remote
    <2> QED
      BY <2>1, <2>2, <2>3, <2>4
  <1>26. CASE UNCHANGED vars
    BY <1>26 DEF vars, thread, client, streams, world, remote, TypeOK, Stage, Opening, Pings,
       ConnectFirst, SessionAgreed, PingUnderWay
  <1> QED
    BY <1>1, <1>2, <1>3, <1>4, <1>5, <1>6, <1>7, <1>8, <1>9, <1>10, <1>11, <1>12, <1>13,
       <1>14, <1>15, <1>16, <1>17, <1>18, <1>19, <1>20, <1>21, <1>22, <1>23, <1>24, <1>25, <1>26
    DEF Next, Thread, Timeout, World

\* The start satisfies the strengthening: there is no connection and no ping.
LEMMA IInvInit == Init => IInv
  <1> SUFFICES ASSUME Init PROVE IInv
    OBVIOUS
  <1>1. <<>> \in Seq(Sent) /\ <<>> \in Seq(Answers) /\ Len(<<>>) <= QueueMax
    BY BoundsOK
  <1>2. TypeOK
    <2>1. toBroker \in Seq(Sent) /\ Len(toBroker) <= QueueMax /\ toClient \in Seq(Answers)
      BY <1>1 DEF Init
    <2>2. 0 \in 0..PublishEvery
      BY BoundsOK
    <2> QED
      BY <2>1, <2>2 DEF Init, TypeOK, Locations
  <1>3. Stage /\ Opening /\ Pings /\ ConnectFirst /\ SessionAgreed /\ PingUnderWay
    BY DEF Init, Stage, Opening, Pings, ConnectFirst, SessionAgreed, PingUnderWay
  <1> QED
    BY <1>2, <1>3 DEF IInv

\* The strengthening holds in every reachable state.
LEMMA IInvariance == Spec => []IInv
  BY IInvInit, IInvStep, PTL DEF Spec

-------------------------------------------------------------------------------
\* Every reachable state is type correct, and the send buffer never overflows, for
\* every size of the buffer.
THEOREM TypeCorrect == Spec => []TypeOK
  <1>1. IInv => TypeOK
    BY DEF IInv
  <1> QED
    BY <1>1, IInvariance, PTL

\* Whatever fails and whenever, no broker is sent a second CONNECT on a connection,
\* or anything before the first.
THEOREM OneConnect == Spec => []ConnectFirst
  <1>1. IInv => ConnectFirst
    BY DEF IInv
  <1> QED
    BY <1>1, IInvariance, PTL

\* The flag isconnected, on a connection that lives, is the broker's word.
THEOREM FlagIsAgreed == Spec => []SessionAgreed
  <1>1. IInv => SessionAgreed
    BY DEF IInv
  <1> QED
    BY <1>1, IInvariance, PTL

\* A ping is never outstanding in vain on a connection that lives.
THEOREM PingIsUnderWay == Spec => []PingUnderWay
  <1>1. IInv => PingUnderWay
    BY DEF IInv
  <1> QED
    BY <1>1, IInvariance, PTL
===============================================================================
