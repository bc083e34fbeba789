--------------------------- MODULE MqttClient_proofs ---------------------------
(***************************************************************************)
(* Proofs about MqttClient, for any filters and topics, table size, number *)
(* of ids and length of the queues: the client that compares no ids takes  *)
(* its own answers as long as no call gives up, client and broker then     *)
(* agree on the subscriptions, and messages go to the handlers whose       *)
(* filters match.                                                          *)
(***************************************************************************)
EXTENDS MqttClient, SequenceTheorems, WellFoundedInduction, TLAPS

-------------------------------------------------------------------------------
(* Queues.                                                                 *)

\* What is in a queue after a packet is written.
LEMMA Written ==
    ASSUME NEW S, NEW s \in Seq(S), NEW e
    PROVE  /\ Len(Append(s, e)) = Len(s) + 1
           /\ DOMAIN Append(s, e) = DOMAIN s \cup {Len(s) + 1}
           /\ Append(s, e)[Len(s) + 1] = e
           /\ \A i \in DOMAIN s : Append(s, e)[i] = s[i]
           /\ \A i \in DOMAIN s : i # Len(s) + 1
           /\ e \in S => Append(s, e) \in Seq(S)
  OBVIOUS

\* What is in it after one is read.
LEMMA Read ==
    ASSUME NEW S, NEW s \in Seq(S), s # <<>>
    PROVE  /\ Tail(s) \in Seq(S) /\ Len(Tail(s)) = Len(s) - 1
           /\ Head(s) \in S /\ Head(s) = s[1] /\ 1 \in DOMAIN s
           /\ \A i \in DOMAIN Tail(s) : /\ i + 1 \in DOMAIN s /\ i + 1 # 1
                                        /\ Tail(s)[i] = s[i + 1]
  OBVIOUS

\* The elements of a sequence that another is appended to.
LEMMA Listed ==
    ASSUME NEW S, NEW s \in Seq(S), NEW e
    PROVE  ToSet(Append(s, e)) = ToSet(s) \cup {e}
  BY Written DEF ToSet

-------------------------------------------------------------------------------
(* Types.                                                                  *)

\* A call waits for an answer with an id that is not 0, or for the CONNACK with none.
Calls ==
    {c \in [awaits : {"nothing", "CONNACK"} \cup Acks, id : 0..MAX_PACKET_ID,
            topic : Filters \cup {<<>>}] :
        /\ c.awaits = "nothing" => c = Idle
        /\ c.awaits \in Acks <=> c.id # 0
        /\ c.awaits # "PUBREC"
        /\ c.awaits \in {"SUBACK", "UNSUBACK"} => c.topic \in Filters}

\* What the client writes and what the broker writes.
UpPackets ==
    {p \in Packets : /\ p.type \in {"SUBSCRIBE", "UNSUBSCRIBE"} => p.topic \in Filters
                     /\ p.type = "PUBLISH" => p.code \in 0..2 /\ (p.code = 0 <=> p.id = 0)}
DownPackets ==
    {p \in Packets : /\ p.type = "PUBLISH" => p.topic \in Topics
                     /\ p.type = "SUBACK" => p.code \in {0, 128}}

Typed ==
    /\ isconnected \in BOOLEAN
    /\ next_packetid \in 1..MAX_PACKET_ID
    /\ messageHandlers \in Seq(Filters) /\ Len(messageHandlers) <= MAX_MESSAGE_HANDLERS
    /\ call \in Calls
    /\ up \in Seq(UpPackets) /\ Len(up) <= UpMax
    /\ down \in Seq(DownPackets) /\ Len(down) <= DownMax
    /\ subscribed \subseteq Filters /\ granted \subseteq Filters
    /\ dropped \subseteq Filters
    /\ gaveUp \in BOOLEAN

LEMMA IdleIsCall == Idle \in Calls
  BY ConstantsOK DEF Idle, Calls, Acks

\* The packets that the client writes.
LEMMA UpPacket ==
    ASSUME NEW n \in 0..MAX_PACKET_ID
    PROVE  /\ \A t \in {"CONNECT", "DISCONNECT", "PUBACK", "PUBREC", "PUBREL"} :
                  Packet(t, n) \in UpPackets
           /\ Packet("PUBLISH", 0) \in UpPackets
           /\ n # 0 => \A c \in {1, 2} : Message("PUBLISH", n, <<>>, c) \in UpPackets
           /\ \A t \in {"SUBSCRIBE", "UNSUBSCRIBE"}, f \in Filters :
                  Message(t, n, f, 0) \in UpPackets
  BY ConstantsOK DEF UpPackets, Packets, Types, Requests, Acks, Message, Packet

\* What the broker replies.
LEMMA Replied ==
    ASSUME NEW q \in UpPackets, NEW r \in Replies(q)
    PROVE  /\ r \in DownPackets
           /\ r.type = "CONNACK" => q.type = "CONNECT" /\ q.id \in Nat /\ r.id = 0
           /\ r.type = "SUBACK" => q.type = "SUBSCRIBE" /\ r.id = q.id
           /\ r.type = "UNSUBACK" => q.type = "UNSUBSCRIBE" /\ r.id = q.id
           /\ r.type = "PUBACK" => q.type = "PUBLISH" /\ q.code = 1 /\ r.id = q.id
           /\ r.type = "PUBREC" => q.type = "PUBLISH" /\ q.code = 2 /\ r.id = q.id
           /\ r.type = "PUBCOMP" => q.type = "PUBREL" /\ r.id = q.id
           /\ r.type \in {"CONNACK", "SUBACK", "UNSUBACK", "PUBACK", "PUBREC", "PUBCOMP", "PUBREL"}
           /\ r.type = "PUBREL" => q.type = "PUBREC"
  <1>1. q \in Packets
    BY DEF UpPackets
  <1>2. CASE q.type = "CONNECT"
    BY <1>1, <1>2, ConstantsOK DEF Replies, Packet, Message, DownPackets, Packets, Types, Requests, Acks
  <1>3. CASE q.type = "SUBSCRIBE"
    BY <1>1, <1>3, ConstantsOK DEF Replies, Packet, Message, DownPackets, Packets, Types, Requests, Acks
  <1>4. CASE q.type \in {"UNSUBSCRIBE", "PUBREL", "PUBREC"}
    BY <1>1, <1>4, ConstantsOK DEF Replies, Packet, Message, DownPackets, Packets, Types, Requests, Acks
  <1>5. CASE q.type = "PUBLISH" /\ q.code \in {1, 2}
    BY <1>1, <1>5, ConstantsOK DEF Replies, Packet, Message, DownPackets, Packets, Types, Requests, Acks
  <1>6. CASE \/ q.type \notin {"CONNECT", "SUBSCRIBE", "UNSUBSCRIBE", "PUBREL", "PUBREC", "PUBLISH"}
             \/ q.type = "PUBLISH" /\ q.code \notin {1, 2}
    BY <1>6 DEF Replies
  <1> QED
    BY <1>2, <1>3, <1>4, <1>5, <1>6

\* What cycle answers.
LEMMA Answered ==
    ASSUME NEW p \in DownPackets, NEW a \in Answers(p)
    PROVE  /\ Packet(a, p.id) \in UpPackets
           /\ a \in {"PUBACK", "PUBREC", "PUBREL"}
           /\ a = "PUBREL" => p.type = "PUBREC"
           /\ Packet(a, p.id).type = a /\ Packet(a, p.id).id = p.id
  <1>1. p.id \in 0..MAX_PACKET_ID
    BY DEF DownPackets, Packets
  <1>2. a \in {"PUBACK", "PUBREC", "PUBREL"} /\ (a = "PUBREL" => p.type = "PUBREC")
    BY DEF Answers
  <1> QED
    BY <1>1, <1>2, UpPacket DEF Packet, Message

\* A packet that is written keeps the queue typed.
LEMMA SendTyped ==
    ASSUME Typed, NEW p \in UpPackets, sendPacket(p) \/ sendFails
    PROVE  up' \in Seq(UpPackets) /\ Len(up') <= UpMax
  <1>1. CASE sendPacket(p)
    BY <1>1, Written, ConstantsOK DEF Typed, sendPacket
  <1>2. CASE sendFails
    BY <1>2 DEF Typed, sendFails
  <1> QED
    BY <1>1, <1>2

LEMMA NextIdType == Typed => getNextPacketId \in 1..MAX_PACKET_ID
  BY ConstantsOK DEF Typed, getNextPacketId

LEMMA RequestTyped ==
    ASSUME Typed, NEW t, NEW a \in Acks \ {"PUBREC"}, NEW f \in Filters \cup {<<>>}, NEW c,
           a \in {"SUBACK", "UNSUBACK"} => f \in Filters,
           \A n \in 1..MAX_PACKET_ID : Message(t, n, f, c) \in UpPackets,
           Request(t, a, f, c)
    PROVE  Typed'
  <1>1. getNextPacketId \in 1..MAX_PACKET_ID
    BY NextIdType
  <1> DEFINE p == Message(t, getNextPacketId, f, c)
             asks == [awaits |-> a, id |-> getNextPacketId, topic |-> f]
  <1>2. p \in UpPackets
    BY <1>1
  <1>3. asks \in Calls
    BY <1>1, ConstantsOK DEF Calls, Acks, Idle
  <1>4. /\ sendPacket(p) \/ sendFails
        /\ call' = asks \/ call' = call
        /\ next_packetid' = getNextPacketId
        /\ UNCHANGED <<isconnected, messageHandlers, down, subscribed, granted, dropped, gaveUp>>
    BY DEF Request
  <1> HIDE DEF p, asks
  <1>5. up' \in Seq(UpPackets) /\ Len(up') <= UpMax
    BY <1>2, <1>4, SendTyped
  <1> QED
    BY <1>1, <1>3, <1>4, <1>5 DEF Typed

\* The end of a call.
LEMMA EndTyped ==
    ASSUME Typed, NEW p \in DownPackets, p.type = call.awaits, Ended(p)
    PROVE  /\ isconnected' \in BOOLEAN
           /\ messageHandlers' \in Seq(Filters) /\ Len(messageHandlers') <= MAX_MESSAGE_HANDLERS
           /\ granted' \subseteq Filters /\ dropped' \subseteq Filters
           /\ call' = Idle
  <1>1. p.type = "SUBACK" => call.topic \in Filters
    BY DEF Typed, Calls
  <1>2. isconnected' \in BOOLEAN
    BY DEF Typed, Ended, Refused
  <1>3. messageHandlers' \in Seq(Filters) /\ Len(messageHandlers') <= MAX_MESSAGE_HANDLERS
    BY <1>1, Written, ConstantsOK DEF Typed, Ended
  <1>4. granted' \subseteq Filters /\ dropped' \subseteq Filters
    BY <1>1 DEF Typed, Ended
  <1> QED
    BY <1>2, <1>3, <1>4 DEF Ended

LEMMA CycleTyped == ASSUME Typed, Cycle PROVE Typed'
  <1> DEFINE p == Head(down)
  <1>1. down' = Tail(down) /\ down' \in Seq(DownPackets) /\ Len(down') <= DownMax /\ p \in DownPackets
    BY Read, ConstantsOK DEF Cycle, Typed
  <1>2. /\ (\E a \in Answers(p) : sendPacket(Packet(a, p.id))) \/ sendFails
        /\ IF p.type = call.awaits THEN Ended(p)
           ELSE UNCHANGED <<call, isconnected, messageHandlers, granted, dropped>>
        /\ UNCHANGED <<next_packetid, subscribed, gaveUp>>
    BY DEF Cycle, Ends
  <1> HIDE DEF p
  <1>3. up' \in Seq(UpPackets) /\ Len(up') <= UpMax
    <2>1. CASE sendFails
      BY <2>1 DEF Typed, sendFails
    <2>2. ASSUME NEW a \in Answers(p), sendPacket(Packet(a, p.id))
          PROVE up' \in Seq(UpPackets) /\ Len(up') <= UpMax
      BY <1>1, <2>2, Answered, SendTyped
    <2> QED
      BY <1>2, <2>1, <2>2
  <1>4. /\ isconnected' \in BOOLEAN
        /\ messageHandlers' \in Seq(Filters) /\ Len(messageHandlers') <= MAX_MESSAGE_HANDLERS
        /\ granted' \subseteq Filters /\ dropped' \subseteq Filters
        /\ call' \in Calls
    <2>1. CASE p.type = call.awaits
      BY <1>1, <1>2, <2>1, EndTyped, IdleIsCall
    <2>2. CASE p.type # call.awaits
      BY <1>2, <2>2 DEF Typed
    <2> QED
      BY <2>1, <2>2
  <1> QED
    BY <1>1, <1>2, <1>3, <1>4 DEF Typed

LEMMA BrokerReadsTyped == ASSUME Typed, BrokerReads PROVE Typed'
  <1> DEFINE q == Head(up)
  <1>1. up' = Tail(up) /\ up' \in Seq(UpPackets) /\ Len(up') <= UpMax /\ q \in UpPackets
    BY Read, ConstantsOK DEF BrokerReads, Typed
  <1>2. /\ Len(down) < DownMax
        /\ \/ UNCHANGED <<down, subscribed>>
           \/ \E r \in Replies(q) :
                 /\ down' = Append(down, r)
                 /\ \/ subscribed' = subscribed \cup {q.topic} /\ r.type = "SUBACK"
                    \/ subscribed' = subscribed \ {q.topic}
                    \/ subscribed' = subscribed
        /\ UNCHANGED <<isconnected, next_packetid, messageHandlers, call, granted, dropped, gaveUp>>
    BY DEF BrokerReads
  <1> HIDE DEF q
  <1>3. down' \in Seq(DownPackets) /\ Len(down') <= DownMax /\ subscribed' \subseteq Filters
    <2>1. CASE UNCHANGED <<down, subscribed>>
      BY <2>1 DEF Typed
    <2>2. ASSUME NEW r \in Replies(q),
                 /\ down' = Append(down, r)
                 /\ \/ subscribed' = subscribed \cup {q.topic} /\ r.type = "SUBACK"
                    \/ subscribed' = subscribed \ {q.topic}
                    \/ subscribed' = subscribed
          PROVE down' \in Seq(DownPackets) /\ Len(down') <= DownMax /\ subscribed' \subseteq Filters
      <3>1. r \in DownPackets /\ (r.type = "SUBACK" => q.type = "SUBSCRIBE")
        BY <1>1, Replied
      <3>2. q.type = "SUBSCRIBE" => q.topic \in Filters
        BY <1>1 DEF UpPackets
      <3>3. subscribed' \subseteq Filters
        BY <2>2, <3>1, <3>2 DEF Typed
      <3> QED
        BY <1>2, <2>2, <3>1, <3>3, Written, ConstantsOK DEF Typed
    <2> QED
      BY <1>2, <2>1, <2>2
  <1> QED
    BY <1>1, <1>2, <1>3 DEF Typed

\* What the broker publishes.
LEMMA PublishedType ==
    ASSUME NEW t \in Topics, NEW qos \in 0..2
    PROVE  Message("PUBLISH", IF qos = 0 THEN 0 ELSE 1, t, qos) \in DownPackets
  <1>1. (IF qos = 0 THEN 0 ELSE 1) \in 0..MAX_PACKET_ID /\ qos \in {0, 1, 2, 5, 128}
    BY ConstantsOK
  <1> QED
    BY <1>1 DEF Message, DownPackets, Packets, Types, Requests, Acks

LEMMA NoneQueued == \A S : <<>> \in Seq(S) /\ Len(<<>>) = 0
  OBVIOUS

LEMMA TypedInit == Init => Typed
  <1> SUFFICES ASSUME Init PROVE Typed
    OBVIOUS
  <1>1. isconnected \in BOOLEAN /\ gaveUp \in BOOLEAN
    BY DEF Init
  <1>2. Len(messageHandlers) <= MAX_MESSAGE_HANDLERS /\ Len(up) <= UpMax /\ Len(down) <= DownMax
    BY NoneQueued, ConstantsOK DEF Init
  <1> QED
    BY <1>1, <1>2, NoneQueued, IdleIsCall, ConstantsOK DEF Init, Typed

LEMMA TypedStep == Typed /\ [Next]_vars => Typed'
  <1> SUFFICES ASSUME Typed, [Next]_vars PROVE Typed'
    OBVIOUS
  <1>1. CASE mqtt_connect_broker
    <2> DEFINE asks == [Idle EXCEPT !.awaits = "CONNACK"]
    <2>1. asks \in Calls
      BY ConstantsOK DEF Idle, Calls, Acks
    <2>2. Packet("CONNECT", 0) \in UpPackets
      BY UpPacket, ConstantsOK
    <2>3. (up' = <<Packet("CONNECT", 0)>> /\ call' = asks) \/ (up' = <<>> /\ call' = call)
      BY <1>1 DEF mqtt_connect_broker
    <2> HIDE DEF asks
    <2>4. up' \in Seq(UpPackets) /\ Len(up') <= UpMax /\ call' \in Calls
      <3>1. \A S, x : x \in S => <<x>> \in Seq(S) /\ Len(<<x>>) = 1
        OBVIOUS
      <3>2. UpMax \in Nat /\ 1 <= UpMax /\ call \in Calls
        BY ConstantsOK DEF Typed
      <3>3. CASE up' = <<Packet("CONNECT", 0)>> /\ call' = asks
        BY <2>1, <2>2, <3>1, <3>2, <3>3
      <3>4. CASE up' = <<>> /\ call' = call
        BY NoneQueued, <3>2, <3>4
      <3> QED
        BY <2>3, <3>3, <3>4
    <2>5. isconnected' \in BOOLEAN /\ gaveUp' \in BOOLEAN
      BY <1>1 DEF mqtt_connect_broker
    <2>6. Len(messageHandlers') <= MAX_MESSAGE_HANDLERS /\ Len(down') <= DownMax
      BY <1>1, NoneQueued, ConstantsOK DEF mqtt_connect_broker
    <2> QED
      BY <1>1, <2>4, <2>5, <2>6, NoneQueued, ConstantsOK DEF mqtt_connect_broker, Typed
  <1>2. CASE MQTTDisconnect \/ PublishAtMostOnce
    <2>1. Packet("DISCONNECT", 0) \in UpPackets /\ Packet("PUBLISH", 0) \in UpPackets
      BY UpPacket, ConstantsOK
    <2>2. up' \in Seq(UpPackets) /\ Len(up') <= UpMax
      BY <1>2, <2>1, SendTyped DEF MQTTDisconnect, PublishAtMostOnce
    <2> QED
      BY <1>2, <2>2 DEF MQTTDisconnect, PublishAtMostOnce, Typed
  <1>3. CASE GiveUp
    BY <1>3, IdleIsCall DEF GiveUp, Typed
  <1>4. CASE Cycle
    BY <1>4, CycleTyped
  <1>5. ASSUME NEW f \in Filters, MQTTSubscribe(f) PROVE Typed'
    <2>1. \A n \in 1..MAX_PACKET_ID : Message("SUBSCRIBE", n, f, 0) \in UpPackets
      BY UpPacket
    <2> QED
      BY <1>5, <2>1, RequestTyped DEF MQTTSubscribe, Acks
  <1>6. ASSUME NEW f \in Filters, MQTTUnsubscribe(f) PROVE Typed'
    <2>1. \A n \in 1..MAX_PACKET_ID : Message("UNSUBSCRIBE", n, f, 0) \in UpPackets
      BY UpPacket
    <2> QED
      BY <1>6, <2>1, RequestTyped DEF MQTTUnsubscribe, Acks
  <1>7. CASE PublishAtLeastOnce
    <2>1. \A n \in 1..MAX_PACKET_ID : Message("PUBLISH", n, <<>>, 1) \in UpPackets
      BY UpPacket
    <2> QED
      BY <1>7, <2>1, RequestTyped DEF PublishAtLeastOnce, Acks
  <1>8. CASE PublishExactlyOnce
    <2>1. \A n \in 1..MAX_PACKET_ID : Message("PUBLISH", n, <<>>, 2) \in UpPackets
      BY UpPacket
    <2> QED
      BY <1>8, <2>1, RequestTyped DEF PublishExactlyOnce, Acks
  <1>9. CASE BrokerReads
    BY <1>9, BrokerReadsTyped
  <1>10. CASE BrokerPublishes
    <2>1. PICK t \in Topics, qos \in 0..2 :
             down' = Append(down, Message("PUBLISH", IF qos = 0 THEN 0 ELSE 1, t, qos))
      BY <1>10 DEF BrokerPublishes
    <2>2. down' \in Seq(DownPackets) /\ Len(down') <= DownMax
      BY <1>10, <2>1, PublishedType, Written, ConstantsOK DEF BrokerPublishes, Typed
    <2> QED
      BY <1>10, <2>2 DEF BrokerPublishes, Typed
  <1>11. CASE UNCHANGED vars
    BY <1>11 DEF vars, Typed
  <1> QED
    BY <1>1, <1>2, <1>3, <1>4, <1>5, <1>6, <1>7, <1>8, <1>9, <1>10, <1>11 DEF Next

LEMMA TypedIsTypeOK == Typed => TypeOK
  <1>1. UpPackets \subseteq Packets /\ DownPackets \subseteq Packets
    BY DEF UpPackets, DownPackets
  <1>2. Typed => up \in Seq(Packets) /\ down \in Seq(Packets)
    BY <1>1 DEF Typed
  <1>3. call \in Calls => call \in [awaits : {"nothing", "CONNACK"} \cup Acks,
                                    id : 0..MAX_PACKET_ID, topic : Filters \cup {<<>>}]
    BY DEF Calls
  <1> QED
    BY <1>2, <1>3 DEF Typed, TypeOK

-------------------------------------------------------------------------------
(* One exchange at a time.                                                 *)

\* A packet of the client that the broker replies to or that begins an exchange, and
\* a packet of the broker that belongs to one.
Asks(p) == \/ p.type \in {"CONNECT", "SUBSCRIBE", "UNSUBSCRIBE", "PUBREL"}
           \/ p.type = "PUBLISH" /\ p.code # 0
Answer(p) == p.type \in Acks \cup {"CONNACK"}

\* They are of the call c.
OwnRequest(p, c) ==
    /\ p.id = c.id
    /\ \/ p.type = "CONNECT" /\ c.awaits = "CONNACK"
       \/ p.type = "SUBSCRIBE" /\ c.awaits = "SUBACK" /\ p.topic = c.topic
       \/ p.type = "UNSUBSCRIBE" /\ c.awaits = "UNSUBACK" /\ p.topic = c.topic
       \/ p.type = "PUBLISH" /\ p.code = 1 /\ c.awaits = "PUBACK"
       \/ p.type = "PUBLISH" /\ p.code = 2 /\ c.awaits = "PUBCOMP"
       \/ p.type = "PUBREL" /\ c.awaits = "PUBCOMP"
OwnAnswer(p, c) ==
    /\ p.id = c.id
    /\ \/ p.type = c.awaits
       \/ p.type = "PUBREC" /\ c.awaits = "PUBCOMP"

\* There is one at most, on the way to the broker or from it.
Single ==
    /\ \A i \in DOMAIN up : Asks(up[i]) => OwnRequest(up[i], call)
    /\ \A i \in DOMAIN down : Answer(down[i]) => OwnAnswer(down[i], call)
    /\ \A i, j \in DOMAIN up : Asks(up[i]) /\ Asks(up[j]) => i = j
    /\ \A i, j \in DOMAIN down : Answer(down[i]) /\ Answer(down[j]) => i = j
    /\ \A i \in DOMAIN up, j \in DOMAIN down : ~(Asks(up[i]) /\ Answer(down[j]))

\* Without a call there is none.
LEMMA Quiet ==
    ASSUME Single, call = Idle
    PROVE  /\ \A i \in DOMAIN up : ~Asks(up[i])
           /\ \A i \in DOMAIN down : ~Answer(down[i])
  <1>1. call.awaits = "nothing"
    BY DEF Idle
  <1>2. \A p : ~OwnRequest(p, call)
    BY <1>1 DEF OwnRequest
  <1>3. \A p : Answer(p) => ~OwnAnswer(p, call)
    BY <1>1 DEF OwnAnswer, Answer, Acks
  <1> QED
    BY <1>2, <1>3 DEF Single

\* A packet that asks nothing changes nothing.
LEMMA SentAside ==
    ASSUME Typed, Single, NEW p, ~Asks(p), sendPacket(p) \/ sendFails, UNCHANGED <<call, down>>
    PROVE  Single'
  <1>1. CASE up' = up
    BY <1>1 DEF Single, OwnRequest, OwnAnswer
  <1>2. CASE up' = Append(up, p)
    <2>1. \A i \in DOMAIN up' : Asks(up'[i]) => i \in DOMAIN up /\ up'[i] = up[i]
      BY <1>2, Written DEF Typed
    <2> HIDE DEF Asks
    <2> QED
      BY <2>1 DEF Single, OwnRequest, OwnAnswer
  <1> QED
    BY <1>1, <1>2 DEF sendPacket, sendFails

Exchanges == {<<"SUBSCRIBE", "SUBACK", 0>>, <<"UNSUBSCRIBE", "UNSUBACK", 0>>,
              <<"PUBLISH", "PUBACK", 1>>, <<"PUBLISH", "PUBCOMP", 2>>}

LEMMA RequestSingle ==
    ASSUME Typed, Single, NEW t, NEW a, NEW f, NEW c, <<t, a, c>> \in Exchanges,
           Request(t, a, f, c)
    PROVE  Single'
  <1> DEFINE p == Message(t, getNextPacketId, f, c)
  <1>1. down' = down /\ (\A i \in DOMAIN up : ~Asks(up[i])) /\ (\A i \in DOMAIN down : ~Answer(down[i]))
    BY Quiet DEF Request
  <1>2. CASE up' = Append(up, p) /\ call' = [awaits |-> a, id |-> getNextPacketId, topic |-> f]
    <2>1. OwnRequest(p, call')
      <3>1. p.type = t /\ p.id = getNextPacketId /\ p.topic = f /\ p.code = c
        BY DEF Message
      <3>2. call'.awaits = a /\ call'.id = getNextPacketId /\ call'.topic = f
        BY <1>2
      <3> QED
        BY <3>1, <3>2 DEF OwnRequest, Exchanges
    <2>2. \A i \in DOMAIN up' : Asks(up'[i]) => i = Len(up) + 1 /\ up'[i] = p
      BY <1>1, <1>2, Written DEF Typed
    <2> HIDE DEF p, Asks, Answer, OwnRequest
    <2> QED
      BY <1>1, <2>1, <2>2 DEF Single
  <1>3. CASE up' = up /\ call' = call
    BY <1>1, <1>3 DEF Single
  <1> QED
    BY <1>2, <1>3 DEF Request, sendPacket, sendFails

\* What the broker serves is what the calls returned, but for an answer that is on its way.
Granting == \E i \in DOMAIN down : down[i].type = "SUBACK" /\ down[i].code = 0
Ending   == \E i \in DOMAIN down : down[i].type = "UNSUBACK"
Agreed ==
    /\ Granting => subscribed = granted \cup {call.topic}
    /\ Ending => subscribed = granted \ {call.topic}
    /\ ~Granting /\ ~Ending => subscribed = granted

LEMMA ConnectExchange == ASSUME mqtt_connect_broker PROVE Single' /\ Agreed'
  <1> DEFINE p == Packet("CONNECT", 0)
  <1>1. down' = <<>> /\ subscribed' = {} /\ granted' = {}
    BY DEF mqtt_connect_broker
  <1>2. DOMAIN down' = {}
    BY <1>1
  <1>3. Agreed'
    BY <1>1, <1>2 DEF Agreed, Granting, Ending
  <1>4. CASE up' = <<p>> /\ call' = [Idle EXCEPT !.awaits = "CONNACK"]
    <2>1. OwnRequest(p, call')
      BY <1>4 DEF OwnRequest, Packet, Message, Idle
    <2>2. \A i \in DOMAIN up' : i = 1 /\ up'[i] = p
      BY <1>4
    <2> HIDE DEF p
    <2> QED
      BY <1>2, <1>3, <2>1, <2>2 DEF Single
  <1>5. CASE up' = <<>>
    <2>1. DOMAIN up' = {}
      BY <1>5
    <2> QED
      BY <1>2, <1>3, <2>1 DEF Single
  <1> QED
    BY <1>4, <1>5 DEF mqtt_connect_broker

LEMMA RequestExchange ==
    ASSUME Typed, Single, Agreed, NEW t, NEW a, NEW f, NEW c, <<t, a, c>> \in Exchanges,
           Request(t, a, f, c)
    PROVE  Single' /\ Agreed'
  <1>1. Single'
    BY RequestSingle
  <1>2. UNCHANGED <<down, subscribed, granted>>
    BY DEF Request
  <1>3. \A i \in DOMAIN down : ~Answer(down[i])
    BY Quiet DEF Request
  <1>4. ~Granting /\ ~Ending
    BY <1>3 DEF Granting, Ending, Answer, Acks
  <1> QED
    BY <1>1, <1>2, <1>4 DEF Agreed, Granting, Ending

\* A packet from the broker that belongs to no exchange changes nothing.
LEMMA BrokerAside ==
    ASSUME Typed, Single, Agreed, NEW r, ~Answer(r), down' = Append(down, r),
           UNCHANGED <<call, subscribed, granted>>,
           \A i \in DOMAIN up' : Asks(up'[i]) => \E k \in DOMAIN up : Asks(up[k]) /\ up'[i] = up[k],
           \A i, j \in DOMAIN up' : Asks(up'[i]) /\ Asks(up'[j]) => i = j
    PROVE  Single' /\ Agreed'
  <1>1. \A i \in DOMAIN down' : Answer(down'[i]) => i \in DOMAIN down /\ down'[i] = down[i]
    BY Written DEF Typed
  <1>2. \A i \in DOMAIN down : i \in DOMAIN down' /\ down'[i] = down[i]
    BY Written DEF Typed
  <1>3. Single'
    <2> HIDE DEF Asks, Answer, OwnRequest, OwnAnswer
    <2> QED
      BY <1>1 DEF Single
  <1>4. (Granting' <=> Granting) /\ (Ending' <=> Ending)
    BY <1>1, <1>2 DEF Granting, Ending, Answer, Acks
  <1> QED
    BY <1>3, <1>4 DEF Agreed

LEMMA PublishExchange == ASSUME Typed, Single, Agreed, BrokerPublishes PROVE Single' /\ Agreed'
  <1>1. PICK r : r.type = "PUBLISH" /\ down' = Append(down, r)
    BY DEF BrokerPublishes, Message
  <1>2. ~Answer(r) /\ UNCHANGED <<call, up, subscribed, granted>>
    BY <1>1 DEF Answer, Acks, BrokerPublishes
  <1>3. \A i, j \in DOMAIN up : Asks(up[i]) /\ Asks(up[j]) => i = j
    BY DEF Single
  <1> HIDE DEF Asks
  <1> QED
    BY <1>1, <1>2, <1>3, BrokerAside

LEMMA ReadsExchange == ASSUME Typed, Single, Agreed, BrokerReads PROVE Single' /\ Agreed'
  <1> DEFINE q == Head(up)
  <1>1. /\ up' = Tail(up) /\ q \in UpPackets /\ q = up[1] /\ 1 \in DOMAIN up
        /\ \A i \in DOMAIN up' : i + 1 \in DOMAIN up /\ i + 1 # 1 /\ up'[i] = up[i + 1]
        /\ \A i \in DOMAIN up' : i \in Nat
    BY Read DEF BrokerReads, Typed
  <1>2. /\ UNCHANGED <<call, granted>>
        /\ \/ UNCHANGED <<down, subscribed>>
           \/ \E r \in Replies(q) :
                 /\ down' = Append(down, r)
                 /\ r.type = "SUBACK" /\ r.code = 0 => subscribed' = subscribed \cup {q.topic}
                 /\ r.type = "UNSUBACK" => subscribed' = subscribed \ {q.topic}
                 /\ ~(r.type = "SUBACK" /\ r.code = 0) /\ r.type # "UNSUBACK" =>
                        subscribed' = subscribed
    BY DEF BrokerReads
  <1> HIDE DEF q
  <1> HIDE DEF Asks, Answer, OwnRequest, OwnAnswer
  <1>3. /\ \A i \in DOMAIN up' : Asks(up'[i]) => \E k \in DOMAIN up : Asks(up[k]) /\ up'[i] = up[k]
        /\ \A i, j \in DOMAIN up' : Asks(up'[i]) /\ Asks(up'[j]) => i = j
    BY <1>1 DEF Single
  <1>4. CASE UNCHANGED <<down, subscribed>>
    <2>1. Single'
      BY <1>2, <1>3, <1>4 DEF Single
    <2> QED
      BY <1>2, <1>4, <2>1 DEF Agreed, Granting, Ending
  <1>5. ASSUME NEW r \in Replies(q), down' = Append(down, r),
               r.type = "SUBACK" /\ r.code = 0 => subscribed' = subscribed \cup {q.topic},
               r.type = "UNSUBACK" => subscribed' = subscribed \ {q.topic},
               ~(r.type = "SUBACK" /\ r.code = 0) /\ r.type # "UNSUBACK" => subscribed' = subscribed
        PROVE Single' /\ Agreed'
    <2>1. CASE ~Answer(r)
      <3>1. r.type \notin {"SUBACK", "UNSUBACK"}
        BY <2>1 DEF Answer, Acks
      <3> QED
        BY <1>2, <1>3, <1>5, <2>1, <3>1, BrokerAside
    <2>2. CASE Answer(r)
      <3>1. Asks(q)
        BY <1>1, <1>5, <2>2, Replied DEF Answer, Acks, Asks
      <3>2. OwnRequest(q, call)
        BY <1>1, <3>1 DEF Single
      <3>3. OwnAnswer(r, call)
        <4>1. call.awaits = "CONNACK" => call.id = 0
          BY DEF Typed, Calls, Acks
        <4>2. r.id = call.id
          BY <1>1, <1>5, <2>2, <3>2, <4>1, Replied DEF Answer, Acks, OwnRequest
        <4>3. r.type = call.awaits \/ (r.type = "PUBREC" /\ call.awaits = "PUBCOMP")
          BY <1>1, <1>5, <2>2, <3>2, Replied DEF Answer, Acks, OwnRequest
        <4> QED
          BY <4>2, <4>3 DEF OwnAnswer
      <3>4. (\A i \in DOMAIN up' : ~Asks(up'[i])) /\ (\A i \in DOMAIN down : ~Answer(down[i]))
        BY <1>1, <3>1 DEF Single
      <3>5. /\ \A i \in DOMAIN down' : Answer(down'[i]) => i = Len(down) + 1 /\ down'[i] = r
            /\ Len(down) + 1 \in DOMAIN down' /\ down'[Len(down) + 1] = r
        BY <1>5, <3>4, Written DEF Typed
      <3>6. Single'
        BY <1>2, <3>3, <3>4, <3>5 DEF Single
      <3>7. ~Granting /\ ~Ending
        BY <3>4 DEF Granting, Ending, Answer, Acks
      <3>8. Granting' <=> r.type = "SUBACK" /\ r.code = 0
        BY <3>5 DEF Granting, Answer, Acks
      <3>9. Ending' <=> r.type = "UNSUBACK"
        BY <3>5 DEF Ending, Answer, Acks
      <3>10. r.type \in {"SUBACK", "UNSUBACK"} => q.topic = call.topic
        BY <1>1, <1>5, <3>2, Replied DEF OwnRequest
      <3> QED
        BY <1>2, <1>5, <3>6, <3>7, <3>8, <3>9, <3>10 DEF Agreed
    <2> QED
      BY <2>1, <2>2
  <1> QED
    BY <1>2, <1>4, <1>5

LEMMA CycleExchange == ASSUME Typed, Single, Agreed, Cycle PROVE Single' /\ Agreed'
  <1> DEFINE p == Head(down)
  <1>1. /\ p \in DownPackets /\ p = down[1] /\ 1 \in DOMAIN down
        /\ \A i \in DOMAIN down' : i + 1 \in DOMAIN down /\ i + 1 # 1 /\ down'[i] = down[i + 1]
        /\ \A i \in DOMAIN down' : i \in Nat
        /\ \A i \in DOMAIN down : i = 1 \/ (i - 1 \in DOMAIN down' /\ down'[i - 1] = down[i])
    BY Read DEF Cycle, Typed
  <1>2. /\ subscribed' = subscribed
        /\ IF p.type = call.awaits THEN Ended(p)
           ELSE UNCHANGED <<call, isconnected, messageHandlers, granted>>
    BY DEF Cycle, Ends
  <1>3. up' = up \/ \E a \in Answers(p) : up' = Append(up, Packet(a, p.id))
    BY DEF Cycle, sendPacket, sendFails
  <1> HIDE DEF p
  <1> HIDE DEF Asks, Answer, OwnRequest, OwnAnswer
  <1>4. /\ \A i \in DOMAIN down' : Answer(down'[i]) =>
               \E k \in DOMAIN down : k # 1 /\ Answer(down[k]) /\ down'[i] = down[k]
        /\ \A i, j \in DOMAIN down' : Answer(down'[i]) /\ Answer(down'[j]) => i = j
    BY <1>1 DEF Single
  <1>5. \A k \in DOMAIN down : k # 1 => ~(Answer(p) /\ Answer(down[k]))
    BY <1>1 DEF Single
  <1>6. ASSUME \A i \in DOMAIN up' : Asks(up'[i]) => i \in DOMAIN up /\ up'[i] = up[i]
        PROVE  Single' /\ Agreed'
    <2>1. CASE p.type = call.awaits
      <3>1. Ended(p)
        BY <1>2, <2>1
      <3>2. Answer(p) /\ call' = Idle /\ p.type # "PUBREC"
        BY <1>1, <2>1, <3>1 DEF Ended, Typed, Calls, Idle, Answer, Acks, DownPackets, Packets, Types, Requests
      <3>3. (\A i \in DOMAIN up' : ~Asks(up'[i])) /\ (\A i \in DOMAIN down' : ~Answer(down'[i]))
        BY <1>1, <1>4, <1>5, <1>6, <3>2 DEF Single
      <3>4. Single'
        BY <3>3 DEF Single
      <3>5. ~Granting' /\ ~Ending'
        BY <3>3 DEF Granting, Ending, Answer, Acks
      <3>6. \A i \in DOMAIN down : i # 1 => down[i].type \notin {"SUBACK", "UNSUBACK"}
        BY <1>5, <3>2 DEF Answer, Acks
      <3>7. /\ Granting <=> p.type = "SUBACK" /\ p.code = 0
            /\ Ending <=> p.type = "UNSUBACK"
        BY <1>1, <3>6 DEF Granting, Ending
      <3>8. granted' = IF p.type = "SUBACK" /\ p.code = 0 THEN granted \cup {call.topic}
                       ELSE IF p.type = "UNSUBACK" THEN granted \ {call.topic} ELSE granted
        BY <3>1 DEF Ended, Refused
      <3> QED
        BY <1>2, <3>4, <3>5, <3>7, <3>8 DEF Agreed
    <2>2. CASE p.type # call.awaits
      <3>1. UNCHANGED <<call, granted, subscribed>>
        BY <1>2, <2>2
      <3>2. Single'
        BY <1>4, <1>6, <3>1 DEF Single
      <3>3. p.type \notin {"SUBACK", "UNSUBACK"}
        BY <1>1, <2>2 DEF Single, Answer, OwnAnswer, Acks
      <3>4. (Granting' <=> Granting) /\ (Ending' <=> Ending)
        BY <1>1, <3>3 DEF Granting, Ending
      <3> QED
        BY <3>1, <3>2, <3>4 DEF Agreed
    <2> QED
      BY <2>1, <2>2
  \* The PUBREL is the one answer of cycle that asks for an answer itself.
  <1>7. ASSUME p.type = "PUBREC", up' = Append(up, Packet("PUBREL", p.id))
        PROVE  Single' /\ Agreed'
    <2>1. Answer(p) /\ p.id = call.id /\ call.awaits = "PUBCOMP"
      BY <1>1, <1>7 DEF Single, Answer, OwnAnswer, Acks, Typed, Calls
    <2>2. UNCHANGED <<call, granted, subscribed>>
      BY <1>2, <1>7, <2>1
    <2>3. OwnRequest(Packet("PUBREL", p.id), call)
      BY <2>1 DEF OwnRequest, Packet, Message
    <2>4. (\A i \in DOMAIN up : ~Asks(up[i])) /\ (\A i \in DOMAIN down' : ~Answer(down'[i]))
      BY <1>1, <1>4, <1>5, <2>1 DEF Single
    <2>5. \A i \in DOMAIN up' : Asks(up'[i]) => i = Len(up) + 1 /\ up'[i] = Packet("PUBREL", p.id)
      BY <1>7, <2>4, Written DEF Typed
    <2>6. Single'
      BY <2>2, <2>3, <2>4, <2>5 DEF Single
    <2>7. (Granting' <=> Granting) /\ (Ending' <=> Ending)
      BY <1>1, <1>7 DEF Granting, Ending
    <2> QED
      BY <2>2, <2>6, <2>7 DEF Agreed
  <1>8. ASSUME NEW a \in Answers(p), up' = Append(up, Packet(a, p.id))
        PROVE  Single' /\ Agreed'
    <2>1. CASE a = "PUBREL"
      BY <1>1, <1>7, <1>8, <2>1, Answered
    <2>2. CASE a # "PUBREL"
      <3>1. ~Asks(Packet(a, p.id))
        BY <1>1, <2>2, Answered DEF Asks
      <3>2. \A i \in DOMAIN up' : Asks(up'[i]) => i \in DOMAIN up /\ up'[i] = up[i]
        BY <1>8, <3>1, Written DEF Typed
      <3> QED
        BY <1>6, <3>2
    <2> QED
      BY <2>1, <2>2
  <1>9. CASE up' = up
    BY <1>6, <1>9
  <1> QED
    BY <1>3, <1>8, <1>9

LEMMA ExchangeStep ==
    ASSUME Typed, ~gaveUp => Single /\ Agreed, [Next]_vars
    PROVE  ~gaveUp' => Single' /\ Agreed'
  <1>1. CASE mqtt_connect_broker
    BY <1>1, ConnectExchange
  <1>2. CASE gaveUp /\ ~mqtt_connect_broker
    BY <1>2
    DEF Next, vars, MQTTDisconnect, GiveUp, Cycle, MQTTSubscribe, MQTTUnsubscribe,
        PublishAtMostOnce, PublishAtLeastOnce, PublishExactlyOnce, Request, BrokerReads,
        BrokerPublishes
  <1> SUFFICES ASSUME Single, Agreed, ~mqtt_connect_broker, ~gaveUp'
               PROVE  Single' /\ Agreed'
    BY <1>1, <1>2
  <1>3. CASE MQTTDisconnect \/ PublishAtMostOnce
    <2>1. PICK t \in {"DISCONNECT", "PUBLISH"} : sendPacket(Packet(t, 0)) \/ sendFails
      BY <1>3 DEF MQTTDisconnect, PublishAtMostOnce
    <2>2. ~Asks(Packet(t, 0))
      BY DEF Asks, Packet, Message
    <2>3. UNCHANGED <<call, down, subscribed, granted>>
      BY <1>3 DEF MQTTDisconnect, PublishAtMostOnce
    <2>4. Single'
      BY <2>1, <2>2, <2>3, SentAside
    <2> QED
      BY <2>3, <2>4 DEF Agreed, Granting, Ending
  <1>4. CASE GiveUp
    BY <1>4 DEF GiveUp
  <1>5. CASE Cycle
    BY <1>5, CycleExchange
  <1>6. ASSUME NEW f \in Filters, MQTTSubscribe(f) \/ MQTTUnsubscribe(f)
        PROVE  Single' /\ Agreed'
    BY <1>6, RequestExchange DEF MQTTSubscribe, MQTTUnsubscribe, Exchanges
  <1>7. CASE PublishAtLeastOnce \/ PublishExactlyOnce
    BY <1>7, RequestExchange DEF PublishAtLeastOnce, PublishExactlyOnce, Exchanges
  <1>8. CASE BrokerReads
    BY <1>8, ReadsExchange
  <1>9. CASE BrokerPublishes
    BY <1>9, PublishExchange
  <1>10. CASE UNCHANGED vars
    BY <1>10 DEF vars, Single, Agreed, Granting, Ending
  <1> QED
    BY <1>3, <1>4, <1>5, <1>6, <1>7, <1>8, <1>9, <1>10 DEF Next

-------------------------------------------------------------------------------
(* The table of handlers.                                                  *)

\* Every filter granted is in the table, or found it full.
Tabled == granted \subseteq ToSet(messageHandlers) \cup dropped

LEMMA TabledStep == ASSUME Typed, Tabled, [Next]_vars PROVE Tabled'
  <1>1. CASE mqtt_connect_broker
    BY <1>1 DEF mqtt_connect_broker, Tabled
  <1>2. CASE UNCHANGED <<messageHandlers, granted, dropped>>
    BY <1>2 DEF Tabled
  <1>3. ASSUME NEW p, Ended(p) PROVE Tabled'
    <2>1. CASE p.type = "SUBACK" /\ ~Refused(p)
      <3>1. granted' = granted \cup {call.topic}
        BY <1>3, <2>1 DEF Ended
      <3>2. CASE Len(messageHandlers) < MAX_MESSAGE_HANDLERS
        <4>1. messageHandlers' = Append(messageHandlers, call.topic) /\ dropped' = dropped
          BY <1>3, <2>1, <3>2 DEF Ended
        <4>2. ToSet(messageHandlers') = ToSet(messageHandlers) \cup {call.topic}
          BY <4>1, Listed DEF Typed
        <4> QED
          BY <3>1, <4>1, <4>2 DEF Tabled
      <3>3. CASE ~(Len(messageHandlers) < MAX_MESSAGE_HANDLERS)
        <4>1. messageHandlers' = messageHandlers /\ dropped' = dropped \cup {call.topic}
          BY <1>3, <2>1, <3>3 DEF Ended
        <4> QED
          BY <3>1, <4>1 DEF Tabled
      <3> QED
        BY <3>2, <3>3
    <2>2. CASE ~(p.type = "SUBACK" /\ ~Refused(p))
      <3>1. messageHandlers' = messageHandlers /\ granted' \subseteq granted /\ dropped' = dropped
        BY <1>3, <2>2 DEF Ended
      <3> QED
        BY <3>1 DEF Tabled
    <2> QED
      BY <2>1, <2>2
  <1>4. CASE Cycle
    BY <1>2, <1>3, <1>4 DEF Cycle
  <1> QED
    BY <1>1, <1>2, <1>4
    DEF Next, vars, MQTTDisconnect, GiveUp, MQTTSubscribe, MQTTUnsubscribe, PublishAtMostOnce,
        PublishAtLeastOnce, PublishExactlyOnce, Request, BrokerReads, BrokerPublishes

-------------------------------------------------------------------------------
(* The invariant, and what follows from it.                                *)

IInv == Typed /\ (~gaveUp => Single /\ Agreed) /\ Tabled

LEMMA IInvInit == Init => IInv
  <1> SUFFICES ASSUME Init PROVE IInv
    OBVIOUS
  <1>1. Typed
    BY TypedInit
  <1>2. DOMAIN up = {} /\ DOMAIN down = {}
    BY DEF Init
  <1>3. Single
    BY <1>2 DEF Single
  <1>4. Agreed
    BY <1>2 DEF Init, Agreed, Granting, Ending
  <1>5. Tabled
    BY DEF Init, Tabled
  <1> QED
    BY <1>1, <1>3, <1>4, <1>5 DEF IInv

LEMMA IInvStep == IInv /\ [Next]_vars => IInv'
  <1> SUFFICES ASSUME IInv, [Next]_vars PROVE IInv'
    OBVIOUS
  <1>1. Typed'
    BY TypedStep DEF IInv
  <1>2. ~gaveUp' => Single' /\ Agreed'
    BY ExchangeStep DEF IInv
  <1>3. Tabled'
    BY TabledStep DEF IInv
  <1> QED
    BY <1>1, <1>2, <1>3 DEF IInv

LEMMA Invariance == Spec => []IInv
  BY IInvInit, IInvStep, PTL DEF Spec

\* Every variable keeps its type, no request has the id 0, and the table and the queues
\* keep their size.
THEOREM TypeCorrect == Spec => []TypeOK
  <1>1. IInv => TypeOK
    BY TypedIsTypeOK DEF IInv
  <1> QED
    BY <1>1, Invariance, PTL

\* While no call has given up, what is on the way in either direction has the id of the
\* call that waits.
LEMMA SingleIsOutstanding == IInv => OneOutstanding
  <1> SUFFICES ASSUME IInv, ~gaveUp PROVE OneOutstanding
    BY DEF OneOutstanding
  <1>1. ASSUME NEW i \in DOMAIN up, up[i].type \in Requests, up[i].id # 0
        PROVE  up[i].id = call.id
    <2>1. up[i] \in UpPackets
      BY DEF IInv, Typed
    <2>2. Asks(up[i])
      BY <1>1, <2>1 DEF Asks, UpPackets, Requests
    <2> QED
      BY <2>2 DEF IInv, Single, OwnRequest
  <1>2. ASSUME NEW i \in DOMAIN down, down[i].type \in Acks PROVE down[i].id = call.id
    BY <1>2 DEF IInv, Single, Answer, OwnAnswer
  <1> QED
    BY <1>1, <1>2 DEF OneOutstanding

THEOREM OutstandingIsOwn == Spec => []OneOutstanding
  BY SingleIsOutstanding, Invariance, PTL

\* A call that ends before any gave up ends with the answer that has its id.
THEOREM AnswerIsOfCall == Spec => AnswerIsOwn
  <1>1. ASSUME IInv, [Next]_vars
        PROVE  [call.id # 0 /\ call' = Idle /\ ~gaveUp' => Head(down).id = call.id]_vars
    <2> SUFFICES ASSUME Next, call.id # 0, call' = Idle, ~gaveUp'
                 PROVE  Head(down).id = call.id
      BY <1>1
    <2>1. call # Idle /\ ~GiveUp
      BY DEF Idle, GiveUp
    <2>2. Cycle
      BY <2>1
      DEF Next, mqtt_connect_broker, MQTTDisconnect, MQTTSubscribe, MQTTUnsubscribe, Request,
          PublishAtMostOnce, PublishAtLeastOnce, PublishExactlyOnce, BrokerReads, BrokerPublishes
    <2>3. Head(down).type = call.awaits /\ down # <<>> /\ ~gaveUp
      BY <2>1, <2>2 DEF Cycle, Ends
    <2>4. call.awaits \in Acks
      BY <1>1 DEF IInv, Typed, Calls
    <2>5. Head(down) = down[1] /\ 1 \in DOMAIN down
      BY <1>1, <2>3, Read DEF IInv, Typed
    <2> QED
      BY <1>1, <2>3, <2>4, <2>5, SingleIsOutstanding DEF OneOutstanding
  <1> QED
    BY <1>1, Invariance, PTL DEF Spec, AnswerIsOwn

\* While no call has given up, what the calls returned and what the broker serves differ in
\* the topic of the call at most.
THEOREM ClientAndBrokerAgree == Spec => []SubscriptionsAgree
  <1>1. IInv => SubscriptionsAgree
    BY DEF IInv, Agreed, SubscriptionsAgree
  <1> QED
    BY <1>1, Invariance, PTL

-------------------------------------------------------------------------------
(* Topics: what isTopicMatched computes.                                   *)

\* A set of naturals has a least element.  With it, an induction over naturals is the
\* argument that the counterexamples have none.
LEMMA LeastNat ==
    ASSUME NEW T, T \subseteq Nat, T # {}
    PROVE  \E x \in T : \A y \in T : x <= y
  <1> DEFINE R == OpToRel(<, Nat)
  <1>1. IsWellFoundedOn(R, Nat)
    BY NatLessThanWellFounded
  <1>2. \A x, y \in Nat : <<y, x>> \in R <=> y < x
    BY DEF OpToRel
  <1> HIDE DEF R
  <1>3. PICK x \in T : \A y \in T : ~ (<<y, x>> \in R)
    BY WFMin, <1>1
  <1>4. ASSUME NEW y \in T PROVE x <= y
    <2>1. x \in Nat /\ y \in Nat /\ ~ (y < x)
      BY <1>2, <1>3
    <2> QED
      BY <2>1
  <1> QED
    BY <1>3, <1>4

\* Induction from a to b, over the members of a set.
LEMMA Upwards ==
    ASSUME NEW a \in Nat, NEW b \in Nat, NEW T, a \in T,
           \A k \in a..b : k \in T /\ k < b => k + 1 \in T
    PROVE  \A k \in a..b : k \in T
  <1> SUFFICES ASSUME NEW k \in a..b, k \notin T PROVE FALSE
    OBVIOUS
  <1> DEFINE Bad == {i \in a..b : i \notin T}
  <1>1. Bad \subseteq Nat /\ Bad # {}
    OBVIOUS
  <1>2. PICK x \in Bad : \A y \in Bad : x <= y
    BY <1>1, LeastNat
  <1>3. x \in a..b /\ x # a /\ x - 1 \in a..b /\ x - 1 \notin Bad
    BY <1>2
  <1> QED
    BY <1>2, <1>3

\* The end of the level in which position c of n is, and where '+' goes on.
EndsLevel(n, c, e) ==
    /\ e \in (c + 1)..(Len(n) + 1)
    /\ e <= Len(n) => n[e] = "/"
    /\ \A k \in (c + 1)..(e - 1) : n[k] # "/"

LEMMA AfterLevelEnds ==
    ASSUME NEW S, NEW n \in Seq(S), NEW c \in 1..Len(n)
    PROVE  /\ EndsLevel(n, c, AfterLevel(n, c))
           /\ \A e : EndsLevel(n, c, e) => AfterLevel(n, c) = e
  <1>1. AfterLevel(n, c) = CHOOSE e \in (c + 1)..(Len(n) + 1) : EndsLevel(n, c, e)
    BY DEF AfterLevel, EndsLevel
  <1> DEFINE Here == {e \in (c + 1)..(Len(n) + 1) : e <= Len(n) => n[e] = "/"}
  <1>2. Here \subseteq Nat /\ Len(n) + 1 \in Here
    OBVIOUS
  <1>3. PICK e \in Here : \A y \in Here : e <= y
    BY <1>2, LeastNat
  <1>4. EndsLevel(n, c, e)
    BY <1>3 DEF EndsLevel
  <1>5. EndsLevel(n, c, AfterLevel(n, c))
    BY <1>1, <1>4 DEF EndsLevel
  <1>6. ASSUME NEW d, NEW g, EndsLevel(n, c, d), EndsLevel(n, c, g) PROVE ~ (d < g)
    BY <1>6 DEF EndsLevel
  <1>7. ASSUME NEW d, EndsLevel(n, c, d) PROVE AfterLevel(n, c) = d
    <2>1. AfterLevel(n, c) \in Nat /\ d \in Nat
      BY <1>5, <1>7 DEF EndsLevel
    <2>2. ~ (AfterLevel(n, c) < d)
      BY <1>5, <1>6, <1>7
    <2>3. ~ (d < AfterLevel(n, c))
      BY <1>5, <1>6, <1>7
    <2> QED
      BY <2>1, <2>2, <2>3
  <1> QED
    BY <1>5, <1>7

\* g is what isTopicMatched computes from each pair of positions.
Computes(f, n, g) ==
    g = [p \in (1..Len(f) + 1) \X (1..Len(n) + 1) |->
            LET cf == p[1] cn == p[2] IN
            IF cf <= Len(f) /\ cn <= Len(n)
            THEN ~Differ(f[cf], n[cn]) /\ g[<<cf + 1, Step(f, n, cf, cn)>>]
            ELSE cf > Len(f) /\ cn > Len(n)]

\* p leads to q by steps of R, within D.
Path(R, s, p, q) ==
    /\ s # <<>> /\ s[1] = p /\ s[Len(s)] = q
    /\ \A i \in 1..(Len(s) - 1) : <<s[i], s[i + 1]>> \in R
Leads(R, D, p, q) == \E s \in Seq(D) : Path(R, s, p, q)

LEMMA LeadsByStep ==
    ASSUME NEW D, NEW R, NEW p \in D, NEW q \in D
    PROVE  Leads(R, D, p, q) <=> \/ p = q
                                 \/ \E r \in D : <<p, r>> \in R /\ Leads(R, D, r, q)
  <1>1. ASSUME NEW s \in Seq(D), Path(R, s, p, q), p # q
        PROVE  \E r \in D : <<p, r>> \in R /\ Leads(R, D, r, q)
    <2>1. Len(s) \in Nat /\ Len(s) # 0 /\ Len(s) # 1
      BY <1>1 DEF Path
    <2>2. s[2] \in D /\ <<p, s[2]>> \in R
      BY <1>1, <2>1 DEF Path
    <2>3. /\ Tail(s) \in Seq(D) /\ Tail(s) # <<>> /\ Len(Tail(s)) = Len(s) - 1
          /\ \A i \in 1..(Len(s) - 1) : Tail(s)[i] = s[i + 1]
      BY <2>1
    <2> HIDE DEF Path
    <2>4. Path(R, Tail(s), s[2], q)
      BY <1>1, <2>1, <2>3 DEF Path
    <2> QED
      BY <2>2, <2>3, <2>4 DEF Leads
  <1>2. ASSUME p = q PROVE Leads(R, D, p, q)
    <2>1. <<p>> \in Seq(D) /\ Len(<<p>>) = 1 /\ <<p>>[1] = p /\ <<p>> # <<>>
      OBVIOUS
    <2>2. Path(R, <<p>>, p, q)
      BY <1>2, <2>1 DEF Path
    <2> QED
      BY <2>1, <2>2 DEF Leads
  <1>3. ASSUME NEW r \in D, <<p, r>> \in R, NEW s \in Seq(D), Path(R, s, r, q)
        PROVE  Leads(R, D, p, q)
    <2> DEFINE z == <<p>> \o s
    <2>1. Len(s) \in Nat \ {0}
      BY <1>3 DEF Path
    <2>2. /\ z \in Seq(D) /\ z # <<>> /\ Len(z) = Len(s) + 1 /\ z[1] = p
          /\ \A i \in 1..Len(s) : z[i + 1] = s[i]
      BY <2>1
    <2> HIDE DEF z
    <2>3. z[Len(z)] = q
      BY <1>3, <2>1, <2>2 DEF Path
    <2>4. ASSUME NEW i \in 1..Len(s) PROVE <<z[i], z[i + 1]>> \in R
      <3>1. CASE i = 1
        BY <1>3, <2>1, <2>2, <3>1 DEF Path
      <3>2. CASE i # 1
        <4>1. i - 1 \in 1..(Len(s) - 1) /\ i - 1 \in 1..Len(s) /\ (i - 1) + 1 = i
          BY <2>1, <3>2
        <4>2. z[i] = s[i - 1] /\ z[i + 1] = s[i]
          BY <2>2, <4>1
        <4> QED
          BY <1>3, <4>1, <4>2 DEF Path
      <3> QED
        BY <3>1, <3>2
    <2>5. Len(z) - 1 = Len(s)
      BY <2>1, <2>2
    <2>6. Path(R, z, p, q)
      BY <2>2, <2>3, <2>4, <2>5 DEF Path
    <2> QED
      BY <2>2, <2>6 DEF Leads
  <1> QED
    BY <1>1, <1>2, <1>3 DEF Leads

\* The recursion of isTopicMatched has a solution: whether the comparisons lead from a
\* pair of positions to both ends.
LEMMA Computed ==
    ASSUME NEW S, NEW f \in Seq(S), NEW n \in Seq(S)
    PROVE  \E g : Computes(f, n, g)
  <1> DEFINE D == (1..Len(f) + 1) \X (1..Len(n) + 1)
             last == <<Len(f) + 1, Len(n) + 1>>
             Inside(p) == p[1] <= Len(f) /\ p[2] <= Len(n)
             next(p) == <<p[1] + 1, Step(f, n, p[1], p[2])>>
             R == {<<p, next(p)>> : p \in {k \in D : Inside(k) /\ ~Differ(f[k[1]], n[k[2]])}}
             g == [p \in D |-> Leads(R, D, p, last)]
  <1>1. ASSUME NEW p \in D, Inside(p) PROVE next(p) \in D /\ p # last
    <2>1. AfterLevel(n, p[2]) \in 1..(Len(n) + 1)
      BY <1>1, AfterLevelEnds DEF EndsLevel
    <2> QED
      BY <1>1, <2>1 DEF Step
  <1>2. last \in D /\ \A p \in D : p[1] > Len(f) /\ p[2] > Len(n) <=> p = last
    OBVIOUS
  <1>3. \A p, q : <<p, q>> \in R <=> p \in D /\ Inside(p) /\ ~Differ(f[p[1]], n[p[2]]) /\ q = next(p)
    OBVIOUS
  <1> HIDE DEF D, last, next, R
  <1>4. ASSUME NEW p \in D, Inside(p)
        PROVE  g[p] <=> ~Differ(f[p[1]], n[p[2]]) /\ g[next(p)]
    BY <1>1, <1>2, <1>3, <1>4, LeadsByStep
  <1>5. ASSUME NEW p \in D, ~Inside(p)
        PROVE  g[p] <=> p[1] > Len(f) /\ p[2] > Len(n)
    BY <1>2, <1>3, <1>5, LeadsByStep
  <1>6. \A p \in D : g[p] = IF Inside(p) THEN ~Differ(f[p[1]], n[p[2]]) /\ g[next(p)]
                            ELSE p[1] > Len(f) /\ p[2] > Len(n)
    <2>1. \A p \in D : g[p] \in BOOLEAN
      BY DEF Leads
    <2> HIDE DEF g
    <2> QED
      BY <1>4, <1>5, <2>1
  <1>7. g = [p \in D |-> g[p]]
    OBVIOUS
  <1> HIDE DEF g
  <1>8. Computes(f, n, g)
    BY <1>6, <1>7 DEF Computes, D, next
  <1> QED
    BY <1>8

\* h[i] is the first i sequences in one.
Flattens(seqs, m, h) ==
    h = [i \in 1..m |-> IF i = 1 THEN seqs[i] ELSE h[i - 1] \o seqs[i]]

LEMMA Flattened ==
    ASSUME NEW seqs, NEW m \in Nat \ {0}
    PROVE  \E h : Flattens(seqs, m, h)
  <1> DEFINE T == {k \in Nat : \E h : Flattens(seqs, k, h)}
  <1>1. 1 \in T
    <2>1. Flattens(seqs, 1, [i \in 1..1 |-> seqs[1]])
      BY DEF Flattens
    <2> QED
      BY <2>1
  <1>2. ASSUME NEW k \in 1..m, k \in T PROVE k + 1 \in T
    <2>1. PICK h : Flattens(seqs, k, h)
      BY <1>2
    <2> DEFINE z == [i \in 1..(k + 1) |-> IF i <= k THEN h[i] ELSE h[k] \o seqs[k + 1]]
    <2>2. \A i \in 1..k : h[i] = IF i = 1 THEN seqs[i] ELSE h[i - 1] \o seqs[i]
      BY <2>1 DEF Flattens
    <2>3. ASSUME NEW i \in 1..(k + 1)
          PROVE  z[i] = IF i = 1 THEN seqs[i] ELSE z[i - 1] \o seqs[i]
      <3>1. CASE i <= k
        <4>1. i \in 1..k /\ (i # 1 => i - 1 \in 1..k)
          BY <3>1
        <4> QED
          BY <2>2, <4>1
      <3>2. CASE i = k + 1
        BY <3>2
      <3> QED
        BY <3>1, <3>2
    <2>4. z = [i \in 1..(k + 1) |-> z[i]]
      OBVIOUS
    <2> HIDE DEF z
    <2>5. Flattens(seqs, k + 1, z)
      BY <2>3, <2>4 DEF Flattens
    <2> QED
      BY <2>5
  <1> HIDE DEF T
  <1>3. m \in T
    BY <1>1, <1>2, Upwards
  <1> QED
    BY <1>3 DEF T

\* The first m levels of l are in the string c: level k at position s[k], with a separator
\* before it, but for the first.
LaidTo(m, l, c, s) ==
    \A k \in 1..m : /\ s[k] \in Nat \ {0} /\ s[k + 1] = s[k] + Len(l[k]) + 1
                    /\ s[k] + Len(l[k]) <= Len(c) + 1
                    /\ \A j \in 1..Len(l[k]) : c[s[k] + j - 1] = l[k][j]
                    /\ k # 1 => s[k] # 1 /\ c[s[k] - 1] = "/"

\* s[Len(l) + 1] is where a further level would begin.
Laid(S, l, c, s) ==
    /\ c \in Seq(S) /\ LaidTo(Len(l), l, c, s)
    /\ s[1] = 1 /\ s[Len(l) + 1] = Len(c) + 2

LEMMA Appended ==
    ASSUME NEW S, "/" \in S, NEW a \in Seq(S), NEW b \in Seq(S)
    PROVE  LET z == a \o (<<"/">> \o b)
           IN  /\ z \in Seq(S) /\ Len(z) = Len(a) + Len(b) + 1 /\ z[Len(a) + 1] = "/"
               /\ \A i \in 1..Len(a) : z[i] = a[i]
               /\ \A i \in 1..Len(b) : z[Len(a) + 1 + i] = b[i]
  OBVIOUS

\* The positions of a level of length w at position x in a string of length n.
LEMMA Within ==
    ASSUME NEW x \in Nat \ {0}, NEW w \in Nat, NEW n \in Nat, x + w <= n + 1
    PROVE  /\ \A j \in 1..w : x + j - 1 \in 1..n
           /\ x # 1 => x - 1 \in 1..n
  OBVIOUS

LEMMA LaidFurther ==
    ASSUME NEW S, "/" \in S, NEW m \in Nat \ {0}, NEW l, NEW s,
           NEW a \in Seq(S), NEW z, \A k \in 1..(m + 1) : l[k] \in Seq(S),
           z = a \o (<<"/">> \o l[m + 1]),
           LaidTo(m, l, a, s), s[m + 1] = Len(a) + 2, s[m + 2] = Len(z) + 2
    PROVE  LaidTo(m + 1, l, z, s)
  <1> DEFINE b == l[m + 1]
  <1>0. b \in Seq(S) /\ z = a \o (<<"/">> \o b)
    OBVIOUS
  <1>1. /\ Len(z) = Len(a) + Len(b) + 1 /\ z[Len(a) + 1] = "/"
        /\ \A i \in 1..Len(a) : z[i] = a[i]
        /\ \A i \in 1..Len(b) : z[Len(a) + 1 + i] = b[i]
    BY <1>0, Appended
  <1>2. Len(a) \in Nat /\ Len(b) \in Nat
    BY <1>0
  <1>3. ASSUME NEW k \in 1..m
        PROVE  /\ s[k] \in Nat \ {0} /\ s[k + 1] = s[k] + Len(l[k]) + 1
               /\ s[k] + Len(l[k]) <= Len(z) + 1
               /\ \A j \in 1..Len(l[k]) : z[s[k] + j - 1] = l[k][j]
               /\ k # 1 => s[k] # 1 /\ z[s[k] - 1] = "/"
    <2> DEFINE x == s[k]
               w == Len(l[k])
    <2>1. x \in Nat \ {0} /\ x + w <= Len(a) + 1
      BY DEF LaidTo
    <2>2. s[k + 1] = x + w + 1
      BY DEF LaidTo
    <2>3. \A j \in 1..w : a[x + j - 1] = l[k][j]
      BY DEF LaidTo
    <2>4. k # 1 => x # 1 /\ a[x - 1] = "/"
      BY DEF LaidTo
    <2>5. w \in Nat
      OBVIOUS
    <2> HIDE DEF x, w, b
    <2>6. /\ \A j \in 1..w : x + j - 1 \in 1..Len(a)
          /\ x # 1 => x - 1 \in 1..Len(a)
      BY <1>2, <2>1, <2>5, Within
    <2>7. x + w <= Len(z) + 1
      BY <1>1, <1>2, <2>1, <2>5
    <2>8. \A j \in 1..w : z[x + j - 1] = l[k][j]
      BY <1>1, <2>3, <2>6
    <2>9. k # 1 => x # 1 /\ z[x - 1] = "/"
      BY <1>1, <2>4, <2>6
    <2> QED
      BY <2>1, <2>2, <2>7, <2>8, <2>9 DEF x, w
  <1>4. LET x == s[m + 1]
        IN  /\ x \in Nat \ {0} /\ s[(m + 1) + 1] = x + Len(b) + 1
            /\ x + Len(b) <= Len(z) + 1
            /\ \A j \in 1..Len(b) : z[x + j - 1] = b[j]
            /\ x # 1 /\ z[x - 1] = "/"
    <2> DEFINE x == s[m + 1]
    <2>1. x = Len(a) + 2 /\ s[(m + 1) + 1] = Len(z) + 2
      <3>1. (m + 1) + 1 = m + 2
        OBVIOUS
      <3> QED
        BY <3>1
    <2> HIDE DEF x, b
    <2>2. \A j \in 1..Len(b) : x + j - 1 = Len(a) + 1 + j
      BY <1>2, <2>1
    <2>3. x - 1 = Len(a) + 1 /\ x # 1 /\ x \in Nat \ {0}
      BY <1>2, <2>1
    <2>4. x + Len(b) + 1 = Len(z) + 2 /\ x + Len(b) <= Len(z) + 1
      <3>1. Len(z) = Len(a) + Len(b) + 1
        BY <1>1
      <3>2. \A p, q \in Nat : (p + 2) + q + 1 = (p + q + 1) + 2 /\ (p + 2) + q <= (p + q + 1) + 1
        OBVIOUS
      <3> QED
        BY ONLY <1>2, <2>1, <3>1, <3>2
    <2>5. \A j \in 1..Len(b) : z[x + j - 1] = b[j]
      BY <1>1, <2>2
    <2> QED
      BY <1>1, <2>1, <2>3, <2>4, <2>5 DEF x
  <1>5. \A k \in 1..(m + 1) : k \in 1..m \/ k = m + 1
    OBVIOUS
  <1> QED
    BY <1>3, <1>4, <1>5 DEF LaidTo

\* Chars lays the levels out.
LEMMA CharsLaid ==
    ASSUME NEW S, "/" \in S, NEW l \in Seq(Seq(S)), l # <<>>
    PROVE  \E s : Laid(S, l, Chars(l), s)
  <1> DEFINE K == Len(l)
             part == [i \in DOMAIN l |-> IF i = 1 THEN l[i] ELSE <<"/">> \o l[i]]
  <1>1. K \in Nat \ {0} /\ DOMAIN l = 1..K /\ Len(part) = K /\ \A k \in 1..K : l[k] \in Seq(S)
    OBVIOUS
  <1>2. /\ \A i \in 1..K : part[i] = IF i = 1 THEN l[i] ELSE <<"/">> \o l[i]
        /\ Chars(l) = FlattenSeq(part)
    BY DEF Chars
  <1> HIDE DEF K, part
  <1>3. PICK h : Flattens(part, K, h) /\ Chars(l) = h[K]
    <2>1. FlattenSeq(part) = (CHOOSE h : Flattens(part, K, h))[K]
      BY <1>1 DEF FlattenSeq, Flattens
    <2> QED
      BY <1>1, <1>2, <2>1, Flattened
  <1>4. h[1] = l[1] /\ \A m \in 1..K : m < K => h[m + 1] = h[m] \o (<<"/">> \o l[m + 1])
    <2>1. \A i \in 1..K : h[i] = IF i = 1 THEN part[i] ELSE h[i - 1] \o part[i]
      BY <1>3 DEF Flattens
    <2>2. 1 \in 1..K /\ \A m \in 1..K : m < K => m + 1 \in 1..K /\ (m + 1) - 1 = m /\ m + 1 # 1
      BY <1>1
    <2> QED
      BY <1>2, <2>1, <2>2
  <1> DEFINE s == [k \in 1..(K + 1) |-> IF k = 1 THEN 1 ELSE Len(h[k - 1]) + 2]
             T == {m \in Nat : h[m] \in Seq(S) /\ LaidTo(m, l, h[m], s)}
  <1>5. s[1] = 1 /\ \A k \in 1..K : s[k + 1] = Len(h[k]) + 2
    BY <1>1
  <1> HIDE DEF s
  <1>6. h[1] \in Seq(S) /\ LaidTo(1, l, h[1], s)
    <2>1. h[1] = l[1] /\ l[1] \in Seq(S) /\ s[1] = 1 /\ s[2] = Len(h[1]) + 2 /\ Len(l[1]) \in Nat
      BY <1>1, <1>4, <1>5
    <2>2. \A k \in 1..1 : k = 1
      OBVIOUS
    <2>3. \A j \in 1..Len(l[1]) : 1 + j - 1 = j
      OBVIOUS
    <2> QED
      BY <2>1, <2>2, <2>3 DEF LaidTo
  <1>7. ASSUME NEW m \in 1..K, h[m] \in Seq(S), LaidTo(m, l, h[m], s), m < K
        PROVE  h[m + 1] \in Seq(S) /\ LaidTo(m + 1, l, h[m + 1], s)
    <2>1. m + 1 \in 1..K /\ m \in Nat \ {0} /\ \A k \in 1..(m + 1) : k \in 1..K
      BY <1>1, <1>7
    <2>2. l[m + 1] \in Seq(S) /\ \A k \in 1..(m + 1) : l[k] \in Seq(S)
      BY <1>1, <2>1
    <2>3. h[m + 1] = h[m] \o (<<"/">> \o l[m + 1])
      BY <1>4, <1>7
    <2>4. s[m + 1] = Len(h[m]) + 2 /\ s[m + 2] = Len(h[m + 1]) + 2
      BY <1>5, <2>1
    <2>5. h[m + 1] \in Seq(S)
      BY <1>7, <2>2, <2>3
    <2> QED
      BY <1>7, <2>1, <2>2, <2>3, <2>4, <2>5, LaidFurther
  <1>8. K \in T
    <2>1. 1 \in T /\ \A m \in 1..K : m \in T /\ m < K => m + 1 \in T
      BY <1>6, <1>7
    <2> HIDE DEF T
    <2>2. K \in 1..K
      BY <1>1
    <2> QED
      BY <1>1, <2>1, <2>2, Upwards
  <1>9. Laid(S, l, Chars(l), s)
    BY <1>1, <1>3, <1>5, <1>8 DEF Laid, K
  <1> QED
    BY <1>9

\* A is the set of positions from which the comparisons reach both ends.
Accepts(f, n, A) ==
    \A cf \in 1..(Len(f) + 1), cn \in 1..(Len(n) + 1) :
        /\ cf <= Len(f) /\ cn <= Len(n) =>
               (<<cf, cn>> \in A <=> /\ ~Differ(f[cf], n[cn])
                                     /\ <<cf + 1, Step(f, n, cf, cn)>> \in A)
        /\ ~(cf <= Len(f) /\ cn <= Len(n)) =>
               (<<cf, cn>> \in A <=> cf > Len(f) /\ cn > Len(n))

LEMMA Accepted ==
    ASSUME NEW S, NEW f \in Seq(S), NEW n \in Seq(S)
    PROVE  \E A : Accepts(f, n, A) /\ (isTopicMatched(f, n) <=> <<1, 1>> \in A)
  <1> DEFINE D == (1..Len(f) + 1) \X (1..Len(n) + 1)
  <1>1. PICK g : Computes(f, n, g) /\ isTopicMatched(f, n) = g[<<1, 1>>]
    <2>1. isTopicMatched(f, n) = (CHOOSE g : Computes(f, n, g))[<<1, 1>>]
      BY DEF isTopicMatched, Computes
    <2>2. PICK g : g = (CHOOSE h : Computes(f, n, h))
      OBVIOUS
    <2>3. Computes(f, n, g)
      BY <2>2, Computed
    <2> QED
      BY <2>1, <2>2, <2>3
  <1> DEFINE A == {p \in D : g[p]}
  <1>2. Len(f) \in Nat /\ Len(n) \in Nat /\ <<1, 1>> \in D
    OBVIOUS
  <1>3. ASSUME NEW cf \in 1..(Len(f) + 1), NEW cn \in 1..(Len(n) + 1), cf <= Len(f), cn <= Len(n)
        PROVE  <<cf, cn>> \in A <=> ~Differ(f[cf], n[cn]) /\ <<cf + 1, Step(f, n, cf, cn)>> \in A
    <2>1. AfterLevel(n, cn) \in 1..(Len(n) + 1)
      BY <1>2, <1>3, AfterLevelEnds DEF EndsLevel
    <2>2. <<cf, cn>> \in D /\ <<cf + 1, Step(f, n, cf, cn)>> \in D /\ <<cf, cn>>[1] = cf /\ <<cf, cn>>[2] = cn
      BY <1>2, <1>3, <2>1 DEF Step
    <2>3. g[<<cf, cn>>] = (~Differ(f[cf], n[cn]) /\ g[<<cf + 1, Step(f, n, cf, cn)>>])
      BY <1>1, <1>3, <2>2 DEF Computes
    <2> QED
      BY <2>2, <2>3
  <1>4. ASSUME NEW cf \in 1..(Len(f) + 1), NEW cn \in 1..(Len(n) + 1), ~(cf <= Len(f) /\ cn <= Len(n))
        PROVE  <<cf, cn>> \in A <=> cf > Len(f) /\ cn > Len(n)
    <2>1. <<cf, cn>> \in D /\ <<cf, cn>>[1] = cf /\ <<cf, cn>>[2] = cn
      OBVIOUS
    <2>2. g[<<cf, cn>>] = (cf > Len(f) /\ cn > Len(n))
      BY <1>1, <1>4, <2>1 DEF Computes
    <2> QED
      BY <2>1, <2>2
  <1>5. isTopicMatched(f, n) <=> <<1, 1>> \in A
    BY <1>1, <1>2
  <1> HIDE DEF A
  <1>6. Accepts(f, n, A)
    BY <1>3, <1>4 DEF Accepts
  <1> QED
    BY <1>5, <1>6

\* One round of the loop of isTopicMatched, and its end.
LEMMA Round ==
    ASSUME NEW f, NEW n, NEW A, Accepts(f, n, A), Len(f) \in Nat, Len(n) \in Nat,
           NEW cf \in 1..Len(f), NEW cn \in 1..Len(n)
    PROVE  <<cf, cn>> \in A <=> ~Differ(f[cf], n[cn]) /\ <<cf + 1, Step(f, n, cf, cn)>> \in A
  <1>1. cf \in 1..(Len(f) + 1) /\ cn \in 1..(Len(n) + 1) /\ cf <= Len(f) /\ cn <= Len(n)
    OBVIOUS
  <1> QED
    BY <1>1 DEF Accepts

LEMMA Stopped ==
    ASSUME NEW f, NEW n, NEW A, Accepts(f, n, A), Len(f) \in Nat, Len(n) \in Nat,
           NEW cf \in 1..(Len(f) + 1), NEW cn \in 1..(Len(n) + 1),
           cf = Len(f) + 1 \/ cn = Len(n) + 1
    PROVE  <<cf, cn>> \in A <=> cf = Len(f) + 1 /\ cn = Len(n) + 1
  <1>1. ~(cf <= Len(f) /\ cn <= Len(n))
    OBVIOUS
  <1>2. <<cf, cn>> \in A <=> cf > Len(f) /\ cn > Len(n)
    BY <1>1 DEF Accepts
  <1>3. (cf > Len(f) <=> cf = Len(f) + 1) /\ (cn > Len(n) <=> cn = Len(n) + 1)
    OBVIOUS
  <1> QED
    BY <1>2, <1>3

\* The level w is in the string c at position x.
At(c, x, w) ==
    /\ x \in Nat \ {0} /\ x + Len(w) <= Len(c) + 1
    /\ \A j \in 1..Len(w) : c[x + j - 1] = w[j]
    /\ x + Len(w) <= Len(c) => c[x + Len(w)] = "/"

\* Two characters that are neither separators nor wildcards.
LEMMA PlainRound ==
    ASSUME NEW f, NEW n, NEW A, Accepts(f, n, A), Len(f) \in Nat, Len(n) \in Nat,
           NEW cf \in 1..Len(f), NEW cn \in 1..Len(n),
           f[cf] \notin {"/", "+", "#"}, n[cn] \notin {"/", "+", "#"}
    PROVE  <<cf, cn>> \in A <=> f[cf] = n[cn] /\ <<cf + 1, cn + 1>> \in A
  <1>1. Differ(f[cf], n[cn]) <=> f[cf] # n[cn]
    BY DEF Differ
  <1>2. Step(f, n, cf, cn) = cn + 1
    BY DEF Step
  <1> QED
    BY <1>1, <1>2, Round

\* Two plain levels are compared character by character.
LEMMA PlainLevel ==
    ASSUME NEW f \in Seq(Characters), NEW n \in Seq(Characters), NEW A, Accepts(f, n, A),
           NEW w \in Seq(Characters), NEW v \in Seq(Characters), Plain(w), Plain(v),
           NEW p, NEW q, At(f, p, w), At(n, q, v)
    PROVE  <<p, q>> \in A <=> w = v /\ <<p + Len(w), q + Len(v)>> \in A
  <1> DEFINE Same(j) == \A k \in 1..j : w[k] = v[k]
             Holds(j) == <<p, q>> \in A <=> Same(j) /\ <<p + j, q + j>> \in A
  <1>1. /\ p \in Nat \ {0} /\ q \in Nat \ {0} /\ p + Len(w) <= Len(f) + 1 /\ q + Len(v) <= Len(n) + 1
        /\ Len(w) \in Nat /\ Len(v) \in Nat /\ Len(f) \in Nat /\ Len(n) \in Nat
    BY DEF At
  <1>2. Holds(0)
    <2>1. p + 0 = p /\ q + 0 = q /\ Same(0)
      BY <1>1
    <2> QED
      BY <2>1
  <1>3. ASSUME NEW j \in Nat, j < Len(w), j < Len(v), Holds(j) PROVE Holds(j + 1)
    <2>1. PICK i \in 1..Len(w) : i = j + 1 /\ i \in 1..Len(v)
      BY <1>1, <1>3
    <2>2. PICK a \in 1..Len(f), b \in 1..Len(n) : /\ a = p + j /\ a + 1 = p + i /\ a = p + i - 1
                                                  /\ b = q + j /\ b + 1 = q + i /\ b = q + i - 1
      <3>1. p + j \in 1..Len(f) /\ q + j \in 1..Len(n)
        BY <1>1, <1>3
      <3>2. (p + j) + 1 = p + i /\ p + j = p + i - 1 /\ (q + j) + 1 = q + i /\ q + j = q + i - 1
        BY <1>1, <2>1
      <3> QED
        BY <3>1, <3>2
    <2>3. f[a] = w[i] /\ n[b] = v[i]
      BY <2>1, <2>2 DEF At
    <2>4. w[i] \notin {"/", "+", "#"} /\ v[i] \notin {"/", "+", "#"}
      BY <2>1 DEF Plain
    <2>5. <<a, b>> \in A <=> w[i] = v[i] /\ <<a + 1, b + 1>> \in A
      <3>1. /\ Len(f) \in Nat /\ Len(n) \in Nat
            /\ f[a] \notin {"/", "+", "#"} /\ n[b] \notin {"/", "+", "#"}
        BY <1>1, <2>3, <2>4
      <3> HIDE DEF Same, Holds
      <3>2. <<a, b>> \in A <=> f[a] = n[b] /\ <<a + 1, b + 1>> \in A
        BY <3>1, PlainRound
      <3> QED
        BY <2>3, <3>2
    <2>6. Same(i) <=> Same(j) /\ w[i] = v[i]
      <3>1. \A k \in 1..i : k \in 1..j \/ k = i
        BY <2>1
      <3>2. i \in 1..i /\ \A k \in 1..j : k \in 1..i
        BY <2>1
      <3> QED
        BY <3>1, <3>2
    <2> HIDE DEF Same
    <2>7. <<p, q>> \in A <=> Same(j) /\ <<a, b>> \in A
      BY <1>3, <2>2
    <2>8. <<p, q>> \in A <=> Same(i) /\ <<a + 1, b + 1>> \in A
      BY <2>5, <2>6, <2>7
    <2> QED
      BY <2>1, <2>2, <2>8
  <1> HIDE DEF Same
  <1>4. ASSUME NEW m \in Nat, m <= Len(w), m <= Len(v) PROVE Holds(m)
    <2> DEFINE T == {j \in Nat : Holds(j)}
    <2>1. 0 \in T
      BY <1>2
    <2>2. ASSUME NEW j \in 0..m, j \in T, j < m PROVE j + 1 \in T
      <3>1. j \in Nat /\ j < Len(w) /\ j < Len(v)
        BY <1>1, <1>4, <2>2
      <3>2. Holds(j)
        BY <2>2
      <3> HIDE DEF Holds
      <3>3. j + 1 \in Nat /\ Holds(j + 1)
        BY <1>3, <3>1, <3>2
      <3> QED
        BY <3>3
    <2> HIDE DEF T
    <2>3. 0 \in Nat /\ m \in 0..m
      BY <1>4
    <2>4. \A k \in 0..m : k \in T
      BY <1>4, <2>1, <2>2, <2>3, Upwards
    <2>5. m \in T
      BY <2>3, <2>4
    <2> QED
      BY <2>5 DEF T
  <1>5. CASE Len(w) = Len(v)
    <2>1. w = v <=> Same(Len(w))
      BY <1>5, SeqEqual DEF Same
    <2>2. Holds(Len(w))
      <3> HIDE DEF Holds
      <3>1. Len(w) \in Nat /\ Len(w) <= Len(w) /\ Len(w) <= Len(v)
        BY <1>1, <1>5
      <3> QED
        BY <1>4, <3>1
    <2> QED
      BY <1>5, <2>1, <2>2
  <1>6. CASE Len(w) < Len(v)
    <2>1. PICK a \in 1..(Len(f) + 1), b \in 1..Len(n) : a = p + Len(w) /\ b = q + Len(w)
      <3>1. p + Len(w) \in 1..(Len(f) + 1) /\ q + Len(w) \in 1..Len(n)
        BY <1>1, <1>6
      <3> QED
        BY <3>1
    <2>2. <<p, q>> \in A => <<a, b>> \in A
      <3>1. Len(w) \in Nat /\ Len(w) <= Len(w) /\ Len(w) <= Len(v)
        BY <1>1, <1>6
      <3>2. Holds(Len(w))
        <4> HIDE DEF Holds
        <4> QED
          BY <1>4, <3>1
      <3> QED
        BY <2>1, <3>2
    <2>3. n[b] # "/"
      <3>1. Len(w) + 1 \in 1..Len(v) /\ q + (Len(w) + 1) - 1 = b
        BY <1>1, <1>6, <2>1
      <3> QED
        BY <3>1 DEF At, Plain
    <2>4. <<a, b>> \notin A
      <3>1. CASE a \in 1..Len(f)
        <4>1. f[a] = "/"
          BY <2>1, <3>1 DEF At
        <4>2. Differ(f[a], n[b])
          BY <2>3, <4>1 DEF Differ
        <4> QED
          BY <1>1, <3>1, <4>2, Round
      <3>2. CASE a = Len(f) + 1
        <4>1. b \in 1..(Len(n) + 1) /\ b # Len(n) + 1
          <5>1. \A k \in Nat : \A c \in 1..k : c \in 1..(k + 1) /\ c # k + 1
            OBVIOUS
          <5>2. b \in 1..Len(n) /\ Len(n) \in Nat
            BY <1>1, <2>1
          <5> QED
            BY ONLY <5>1, <5>2
        <4>2. a \in 1..(Len(f) + 1) /\ Len(f) \in Nat /\ Len(n) \in Nat
          BY <1>1, <2>1
        <4>3. <<a, b>> \in A <=> a = Len(f) + 1 /\ b = Len(n) + 1
          BY <3>2, <4>1, <4>2, Stopped
        <4> QED
          BY <4>1, <4>3
      <3> QED
        BY <1>1, <3>1, <3>2
    <2>5. w # v
      BY <1>6
    <2> QED
      BY <2>2, <2>4, <2>5
  <1>7. CASE Len(v) < Len(w)
    <2>1. PICK a \in 1..Len(f), b \in 1..(Len(n) + 1) : a = p + Len(v) /\ b = q + Len(v)
      <3>1. p + Len(v) \in 1..Len(f) /\ q + Len(v) \in 1..(Len(n) + 1)
        BY <1>1, <1>7
      <3> QED
        BY <3>1
    <2>2. <<p, q>> \in A => <<a, b>> \in A
      <3>1. Len(v) \in Nat /\ Len(v) <= Len(w) /\ Len(v) <= Len(v)
        BY <1>1, <1>7
      <3>2. Holds(Len(v))
        <4> HIDE DEF Holds
        <4> QED
          BY <1>4, <3>1
      <3> QED
        BY <2>1, <3>2
    <2>3. f[a] # "/" /\ f[a] \notin {"+", "#"}
      <3>1. Len(v) + 1 \in 1..Len(w) /\ p + (Len(v) + 1) - 1 = a
        BY <1>1, <1>7, <2>1
      <3> QED
        BY <3>1 DEF At, Plain
    <2>4. <<a, b>> \notin A
      <3>1. CASE b \in 1..Len(n)
        <4>1. n[b] = "/"
          BY <2>1, <3>1 DEF At
        <4>2. Differ(f[a], n[b])
          BY <2>3, <4>1 DEF Differ
        <4> QED
          BY <1>1, <3>1, <4>2, Round
      <3>2. CASE b = Len(n) + 1
        <4>1. a \in 1..(Len(f) + 1) /\ a # Len(f) + 1
          <5>1. \A k \in Nat : \A c \in 1..k : c \in 1..(k + 1) /\ c # k + 1
            OBVIOUS
          <5> QED
            BY ONLY <1>1, <2>1, <5>1
        <4> QED
          BY <1>1, <3>2, <4>1, Stopped
      <3> QED
        BY <1>1, <3>1, <3>2
    <2>5. w # v
      BY <1>7
    <2> QED
      BY <2>2, <2>4, <2>5
  <1> QED
    BY <1>1, <1>5, <1>6, <1>7

\* A wildcard takes a level that is not empty, or all that is left.
LEMMA WildLevel ==
    ASSUME NEW f \in Seq(Characters), NEW n \in Seq(Characters), NEW A, Accepts(f, n, A),
           NEW x \in {"+", "#"}, NEW v \in Seq(Characters), Plain(v),
           NEW p, NEW q, At(f, p, <<x>>), At(n, q, v), x = "#" => p = Len(f)
    PROVE  <<p, q>> \in A <=> v # <<>> /\ (x = "#" \/ <<p + 1, q + Len(v)>> \in A)
  <1>1. /\ p \in 1..Len(f) /\ q \in 1..(Len(n) + 1) /\ q + Len(v) <= Len(n) + 1
        /\ Len(v) \in Nat /\ Len(f) \in Nat /\ Len(n) \in Nat
    BY DEF At
  <1>2. f[p] = x
    BY DEF At
  <1>3. CASE v = <<>>
    <2>1. q + Len(v) = q
      BY <1>1, <1>3
    <2>2. CASE q \in 1..Len(n)
      <3>1. Differ(f[p], n[q])
        BY <1>1, <1>2, <2>1, <2>2 DEF At, Differ
      <3> QED
        BY <1>1, <1>3, <2>2, <3>1, Round
    <2>3. CASE q = Len(n) + 1
      <3>1. p \in 1..(Len(f) + 1) /\ p # Len(f) + 1
        BY <1>1
      <3> QED
        BY <1>1, <1>3, <2>3, <3>1, Stopped
    <2>4. q \in 1..Len(n) \/ q = Len(n) + 1
      <3>1. \A k \in Nat : \A c \in 1..(k + 1) : c \in 1..k \/ c = k + 1
        OBVIOUS
      <3> QED
        BY <1>1, <3>1
    <2> QED
      BY <2>2, <2>3, <2>4
  <1>4. CASE v # <<>>
    <2>1. 1 \in 1..Len(v) /\ q + 1 - 1 = q /\ q \in 1..Len(n)
      BY <1>1, <1>4
    <2>2. n[q] # "/"
      BY <2>1 DEF At, Plain
    <2>3. ~Differ(f[p], n[q])
      BY <1>2, <2>2 DEF Differ
    <2>4. CASE x = "+"
      <3>1. EndsLevel(n, q, q + Len(v))
        <4>1. ASSUME NEW k \in (q + 1)..(q + Len(v) - 1) PROVE n[k] # "/"
          <5>1. k - q + 1 \in 1..Len(v) /\ q + (k - q + 1) - 1 = k
            BY <1>1
          <5> QED
            BY <5>1 DEF At, Plain
        <4> QED
          BY <1>1, <2>1, <4>1 DEF At, EndsLevel
      <3>2. Step(f, n, p, q) = q + Len(v)
        BY <1>2, <2>1, <2>4, <3>1, AfterLevelEnds DEF Step
      <3>3. <<p, q>> \in A <=> <<p + 1, q + Len(v)>> \in A
        BY <1>1, <2>1, <2>3, <3>2, Round
      <3> QED
        BY <1>4, <2>4, <3>3
    <2>5. CASE x = "#"
      <3>1. Step(f, n, p, q) = Len(n) + 1
        BY <1>2, <2>5 DEF Step
      <3>2. <<p + 1, Len(n) + 1>> \in A
        <4>1. p + 1 = Len(f) + 1 /\ p + 1 \in 1..(Len(f) + 1) /\ Len(n) + 1 \in 1..(Len(n) + 1)
          BY <1>1, <2>5
        <4> QED
          BY <1>1, <4>1, Stopped
      <3>3. <<p, q>> \in A
        BY <1>1, <2>1, <2>3, <3>1, <3>2, Round
      <3> QED
        BY <1>4, <2>5, <3>3
    <2> QED
      BY <2>4, <2>5
  <1> QED
    BY <1>3, <1>4

\* Between two levels there are two separators, or both strings end.
LEMMA BetweenLevels ==
    ASSUME NEW f \in Seq(Characters), NEW n \in Seq(Characters), NEW A, Accepts(f, n, A),
           NEW p \in 1..(Len(f) + 1), NEW q \in 1..(Len(n) + 1),
           p <= Len(f) => f[p] = "/", q <= Len(n) => n[q] = "/"
    PROVE  <<p, q>> \in A <=> \/ p = Len(f) + 1 /\ q = Len(n) + 1
                              \/ p <= Len(f) /\ q <= Len(n) /\ <<p + 1, q + 1>> \in A
  <1>1. Len(f) \in Nat /\ Len(n) \in Nat
    OBVIOUS
  <1>2. CASE p \in 1..Len(f) /\ q \in 1..Len(n)
    <2>1. ~Differ(f[p], n[q]) /\ Step(f, n, p, q) = q + 1
      BY <1>2 DEF Differ, Step
    <2> QED
      BY <1>1, <1>2, <2>1, Round
  <1>3. CASE p = Len(f) + 1 \/ q = Len(n) + 1
    <2>1. ~(p <= Len(f) /\ q <= Len(n))
      BY <1>1, <1>3
    <2> QED
      BY <1>1, <1>3, <2>1, Stopped
  <1> QED
    BY <1>1, <1>2, <1>3

\* The levels of a string lie in it one after another.
LEMMA LevelAt ==
    ASSUME NEW S, NEW l \in Seq(Seq(S)), NEW c, NEW s, Laid(S, l, c, s), NEW i \in 1..Len(l)
    PROVE  /\ At(c, s[i], l[i])
           /\ s[i] + Len(l[i]) = Len(c) + 1 <=> i = Len(l)
           /\ i # Len(l) => s[i + 1] = s[i] + Len(l[i]) + 1
  <1>1. /\ s[i] \in Nat \ {0} /\ s[i + 1] = s[i] + Len(l[i]) + 1
        /\ s[i] + Len(l[i]) <= Len(c) + 1
        /\ \A j \in 1..Len(l[i]) : c[s[i] + j - 1] = l[i][j]
    BY DEF Laid, LaidTo
  <1>2. Len(c) \in Nat /\ Len(l[i]) \in Nat /\ Len(l) \in Nat
    BY DEF Laid
  <1>3. CASE i = Len(l)
    <2>1. s[i + 1] = Len(c) + 2
      BY <1>3 DEF Laid
    <2>2. \A x, y, z \in Nat : x + y + 1 = z + 2 => x + y = z + 1
      OBVIOUS
    <2>3. s[i] + Len(l[i]) = Len(c) + 1
      BY ONLY <1>1, <1>2, <2>1, <2>2
    <2> QED
      BY <1>1, <1>2, <1>3, <2>3 DEF At
  <1>4. CASE i # Len(l)
    <2>1. i + 1 \in 1..Len(l) /\ i + 1 # 1
      BY <1>2, <1>4
    <2>2. s[i + 1] \in Nat /\ s[i + 1] + Len(l[i + 1]) <= Len(c) + 1 /\ c[s[i + 1] - 1] = "/"
      BY <2>1 DEF Laid, LaidTo
    <2>3. Len(l[i + 1]) \in Nat
      BY <2>1
    <2> DEFINE e == s[i] + Len(l[i])
    <2>4. e \in Nat /\ e = s[i] + Len(l[i]) /\ s[i + 1] = e + 1
      BY <1>1, <1>2
    <2> HIDE DEF e
    <2>5. e <= Len(c) /\ e # Len(c) + 1 /\ s[i + 1] - 1 = e
      <3>1. \A z, m \in Nat : (e + 1) + z <= m + 1 => e <= m /\ e # m + 1
        BY ONLY <2>4
      <3>2. (e + 1) + Len(l[i + 1]) <= Len(c) + 1 /\ (e + 1) - 1 = e
        BY <2>2, <2>4
      <3> QED
        BY <1>2, <2>3, <2>4, <3>1, <3>2
    <2> QED
      BY <1>1, <1>2, <1>4, <2>2, <2>4, <2>5 DEF At
  <1> QED
    BY <1>3, <1>4

\* A level of a filter takes one of a name.
Takes(w, v) == w = v \/ (w = <<"+">> /\ v # <<>>)

\* One level, from its beginning.
LEMMA OneLevel ==
    ASSUME NEW f, NEW t, FilterOK(f), NameOK(t), NEW cf, NEW ct, NEW sf, NEW st,
           Laid(Characters, f, cf, sf), Laid(Characters, t, ct, st), NEW A, Accepts(cf, ct, A),
           NEW i \in 1..Len(f), i \in 1..Len(t)
    PROVE  <<sf[i], st[i]>> \in A <=>
               IF f[i] = <<"#">> THEN t[i] # <<>>
               ELSE /\ Takes(f[i], t[i])
                    /\ IF i = Len(f) \/ i = Len(t) THEN i = Len(f) /\ i = Len(t)
                       ELSE <<sf[i + 1], st[i + 1]>> \in A
  <1> DEFINE p == sf[i]
             q == st[i]
             w == f[i]
             v == t[i]
             a == p + Len(w)
             b == q + Len(v)
  <1>1. /\ At(cf, p, w) /\ At(ct, q, v)
        /\ a = Len(cf) + 1 <=> i = Len(f)
        /\ b = Len(ct) + 1 <=> i = Len(t)
        /\ i # Len(f) => sf[i + 1] = a + 1
        /\ i # Len(t) => st[i + 1] = b + 1
    BY LevelAt DEF FilterOK, NameOK
  <1>2. w \in Seq(Characters) /\ v \in Seq(Characters) /\ Plain(v) /\ cf \in Seq(Characters) /\ ct \in Seq(Characters)
    BY DEF FilterOK, NameOK, Laid
  <1>3. Plain(w) \/ w = <<"+">> \/ (w = <<"#">> /\ i = Len(f))
    BY DEF FilterOK
  <1> HIDE DEF p, q, w, v
  <1>4. /\ a \in 1..(Len(cf) + 1) /\ b \in 1..(Len(ct) + 1)
        /\ a <= Len(cf) => cf[a] = "/"
        /\ b <= Len(ct) => ct[b] = "/"
    BY <1>1, <1>2 DEF At
  <1>5. <<a, b>> \in A <=> \/ a = Len(cf) + 1 /\ b = Len(ct) + 1
                           \/ a <= Len(cf) /\ b <= Len(ct) /\ <<a + 1, b + 1>> \in A
    BY <1>2, <1>4, BetweenLevels
  <1>6. <<a, b>> \in A <=> IF i = Len(f) \/ i = Len(t) THEN i = Len(f) /\ i = Len(t)
                           ELSE <<sf[i + 1], st[i + 1]>> \in A
    <2>1. (a <= Len(cf) <=> a # Len(cf) + 1) /\ (b <= Len(ct) <=> b # Len(ct) + 1)
      <3>1. Len(cf) \in Nat /\ Len(ct) \in Nat
        BY <1>2
      <3> QED
        BY <1>4, <3>1
    <2> HIDE DEF a, b
    <2> QED
      BY <1>1, <1>5, <2>1
  <1>7. CASE Plain(w)
    <2>1. <<p, q>> \in A <=> w = v /\ <<a, b>> \in A
      BY <1>1, <1>2, <1>7, PlainLevel
    <2>2. w # <<"#">> /\ w # <<"+">>
      <3>1. w = <<"#">> \/ w = <<"+">> => 1 \in 1..Len(w) /\ w[1] \in {"#", "+"}
        OBVIOUS
      <3> QED
        BY <1>7, <3>1 DEF Plain
    <2> HIDE DEF a, b
    <2> QED
      BY <1>6, <2>1, <2>2 DEF p, q, w, v, Takes
  <1>8. CASE w = <<"+">> \/ (w = <<"#">> /\ i = Len(f))
    <2>1. PICK x \in {"+", "#"} : w = <<x>> /\ (x = "#" => i = Len(f))
      BY <1>8
    <2>2. a = p + 1
      BY <2>1
    <2>3. x = "#" => p = Len(cf)
      <3>1. p \in Nat /\ Len(cf) \in Nat
        BY <1>1, <1>2 DEF At
      <3>2. i = Len(f) => p + 1 = Len(cf) + 1
        BY <1>1, <2>2
      <3> HIDE DEF a
      <3> QED
        BY <2>1, <3>1, <3>2
    <2>4. At(cf, p, <<x>>)
      BY <1>1, <2>1
    <2>5. <<p, q>> \in A <=> v # <<>> /\ (x = "#" \/ <<p + 1, q + Len(v)>> \in A)
      BY <1>1, <1>2, <2>3, <2>4, WildLevel
    <2>6. <<p, q>> \in A <=> v # <<>> /\ (x = "#" \/ <<a, b>> \in A)
      BY <2>2, <2>5
    <2>7. w = v => Plain(w)
      BY <1>2
    <2>8. ~Plain(w)
      <3>1. 1 \in 1..Len(w) /\ w[1] = x
        BY <2>1
      <3> QED
        BY <3>1 DEF Plain
    <2>9. (w = <<"#">> <=> x = "#") /\ (w = <<"+">> <=> x = "+")
      <3>1. \A y : <<x>> = <<y>> <=> x = y
        <4>1. \A y : <<y>>[1] = y
          OBVIOUS
        <4> QED
          BY <4>1
      <3> QED
        BY <2>1, <3>1
    <2> HIDE DEF a, b
    <2> QED
      BY <1>6, <2>6, <2>7, <2>8, <2>9 DEF p, q, w, v, Takes
  <1> QED
    BY <1>3, <1>7, <1>8

\* No wildcard of the filter would have to take an empty level of the name.
NoneEmptyTaken(f, t) ==
    \A i \in 1..Len(f) : i \in 1..Len(t) /\ f[i] \in {<<"+">>, <<"#">>} => t[i] # <<>>

\* isTopicMatched computes what MQTT defines, level by level, but that the wildcards take no
\* empty level and '#' does not match its parent level.
THEOREM MatcherByLevels ==
    ASSUME NEW f, NEW t, FilterOK(f), NameOK(t)
    PROVE  isTopicMatched(Chars(f), Chars(t)) <=>
               Matches(f, t) /\ NoneEmptyTaken(f, t) /\ ~ParentLevel(f, t)
  <1> DEFINE cf == Chars(f)
             ct == Chars(t)
  <1>0. "/" \in Characters
    BY TopicsOK
  <1>1. PICK sf : Laid(Characters, f, cf, sf)
    <2>1. f \in Seq(Seq(Characters)) /\ f # <<>>
      BY DEF FilterOK
    <2> QED
      BY <1>0, <2>1, CharsLaid
  <1>2. PICK st : Laid(Characters, t, ct, st)
    <2>1. t \in Seq(Seq(Characters)) /\ t # <<>>
      BY DEF NameOK
    <2> QED
      BY <1>0, <2>1, CharsLaid
  <1>3. PICK A : Accepts(cf, ct, A) /\ (isTopicMatched(cf, ct) <=> <<1, 1>> \in A)
    BY <1>1, <1>2, Accepted DEF Laid
  <1> HIDE DEF cf, ct
  <1>4. Len(f) \in Nat \ {0} /\ Len(t) \in Nat \ {0}
    BY DEF FilterOK, NameOK
  <1> DEFINE L(i)      == <<sf[i], st[i]>> \in A
             Before(i) == \A k \in 1..(i - 1) : Takes(f[k], t[k])
             G(i)      == L(1) <=> Before(i) /\ L(i)
             m         == IF Len(f) <= Len(t) THEN Len(f) ELSE Len(t)
             T         == {i \in Nat : G(i)}
  <1>5. m \in Nat \ {0} /\ m <= Len(f) /\ m <= Len(t) /\ (m = Len(f) \/ m = Len(t))
    BY <1>4
  <1>6. ASSUME NEW i \in 1..m
        PROVE  L(i) <=> IF f[i] = <<"#">> THEN t[i] # <<>>
                        ELSE /\ Takes(f[i], t[i])
                             /\ IF i = m THEN m = Len(f) /\ m = Len(t) ELSE L(i + 1)
    <2>1. /\ i \in 1..Len(f) /\ i \in 1..Len(t)
          /\ i = m <=> i = Len(f) \/ i = Len(t)
      BY <1>4, <1>5
    <2>2. L(i) <=> IF f[i] = <<"#">> THEN t[i] # <<>>
                   ELSE /\ Takes(f[i], t[i])
                        /\ IF i = Len(f) \/ i = Len(t) THEN i = Len(f) /\ i = Len(t)
                           ELSE L(i + 1)
      BY <1>1, <1>2, <1>3, <2>1, OneLevel
    <2> HIDE DEF m, L
    <2> QED
      BY <2>1, <2>2
  <1> HIDE DEF m
  <1>11. \A i \in 1..Len(f) : f[i] = <<"#">> => i = Len(f)
    <2>1. <<"#">>[1] = "#" /\ 1 \in 1..Len(<<"#">>) /\ <<"#">> # <<"+">>
      OBVIOUS
    <2> QED
      BY <2>1 DEF FilterOK, Plain
  <1>7. 1 \in T
    <2>1. Before(1)
      OBVIOUS
    <2> QED
      BY <2>1
  <1>8. ASSUME NEW i \in 1..m, i \in T, i < m PROVE i + 1 \in T
    <2>1. G(i)
      BY <1>8
    <2>2. i \in 1..Len(f) /\ i # Len(f)
      BY <1>4, <1>5, <1>8
    <2>3. f[i] # <<"#">>
      BY <1>11, <2>2
    <2>4. L(i) <=> Takes(f[i], t[i]) /\ L(i + 1)
      <3> HIDE DEF L
      <3> QED
        BY <1>5, <1>6, <1>8, <2>3
    <2>5. Before(i + 1) <=> Before(i) /\ Takes(f[i], t[i])
      <3>1. \A k : k \in 1..(i + 1 - 1) <=> k \in 1..(i - 1) \/ k = i
        OBVIOUS
      <3> QED
        BY <3>1
    <2> HIDE DEF L, Before
    <2>6. G(i + 1) /\ i + 1 \in Nat
      BY <2>1, <2>4, <2>5
    <2> QED
      BY <2>6
  <1>9. G(m)
    <2> HIDE DEF T
    <2>1. 1 \in Nat /\ m \in Nat /\ m \in 1..m
      BY <1>5
    <2>2. \A k \in 1..m : k \in T
      BY <1>7, <1>8, <2>1, Upwards
    <2>3. m \in T
      BY <2>1, <2>2
    <2> QED
      BY <2>3 DEF T
  <1>10. L(1) <=> <<1, 1>> \in A
    BY <1>1, <1>2 DEF Laid
  <1> DEFINE all == f[Len(f)] = <<"#">>
  <1>12. \A k \in 1..Len(f) : k \in 1..Len(t) /\ f[k] # <<"#">>
            => (Takes(f[k], t[k]) <=> /\ f[k] \in {<<"+">>, t[k]}
                                      /\ f[k] \in {<<"+">>, <<"#">>} => t[k] # <<>>)
    <2>1. <<"+">> # <<>>
      OBVIOUS
    <2> QED
      BY <2>1 DEF Takes
  <1>13. CASE all /\ Len(t) >= Len(f)
    <2>1. m = Len(f)
      BY <1>4, <1>13 DEF m
    <2>2. L(1) <=> Before(m) /\ t[m] # <<>>
      <3> HIDE DEF L, Before
      <3>1. m \in 1..m /\ f[m] = <<"#">>
        BY <1>5, <1>13, <2>1
      <3> QED
        BY <1>6, <1>9, <3>1
    <2>3. /\ Matches(f, t) <=> \A i \in 1..(m - 1) : f[i] \in {<<"+">>, t[i]}
          /\ ~ParentLevel(f, t)
      BY <1>4, <1>13, <2>1 DEF Matches, ParentLevel
    <2>4. \A i : i \in 1..Len(f) <=> i \in 1..(m - 1) \/ i = m
      BY <1>4, <2>1
    <2>5. \A i \in 1..(m - 1) : i \in 1..Len(f) /\ i \in 1..Len(t) /\ f[i] # <<"#">>
      BY <1>4, <1>11, <1>13, <2>1
    <2>6. m \in 1..Len(t) /\ f[m] = <<"#">>
      BY <1>4, <1>13, <2>1
    <2>7. L(1) <=> Matches(f, t) /\ NoneEmptyTaken(f, t) /\ ~ParentLevel(f, t)
      <3> HIDE DEF L
      <3> QED
        BY <1>12, <2>2, <2>3, <2>4, <2>5, <2>6 DEF NoneEmptyTaken
    <2> QED
      BY <1>3, <1>10, <2>7 DEF cf, ct
  <1>14. CASE all /\ Len(t) < Len(f)
    <2>1. m = Len(t) /\ m # Len(f) /\ m \in 1..m /\ m \in 1..Len(f)
      BY <1>4, <1>14 DEF m
    <2>2. ~L(m)
      <3> HIDE DEF L
      <3> QED
        BY <1>6, <1>11, <2>1
    <2>3. ~Matches(f, t) \/ ParentLevel(f, t)
      BY <1>4, <1>14 DEF Matches, ParentLevel
    <2> HIDE DEF L
    <2> QED
      BY <1>3, <1>9, <1>10, <2>2, <2>3 DEF cf, ct
  <1>15. CASE ~all
    <2>1. m \in 1..m /\ m \in 1..Len(f) /\ m \in 1..Len(t)
      BY <1>4, <1>5
    <2>2. \A i \in 1..Len(f) : f[i] # <<"#">>
      BY <1>11, <1>15
    <2>3. L(1) <=> Before(m) /\ Takes(f[m], t[m]) /\ m = Len(f) /\ m = Len(t)
      <3> HIDE DEF L, Before
      <3> QED
        BY <1>6, <1>9, <2>1, <2>2
    <2>4. /\ Matches(f, t) <=> Len(t) = Len(f) /\ \A i \in 1..Len(f) : f[i] \in {<<"+">>, t[i]}
          /\ ~ParentLevel(f, t)
      BY <1>15 DEF Matches, ParentLevel
    <2>5. \A i : i \in 1..m <=> i \in 1..(m - 1) \/ i = m
      BY <1>5
    <2>6. m = Len(f) /\ m = Len(t) <=> Len(t) = Len(f)
      BY <1>4, <1>5
    <2>7. L(1) <=> Matches(f, t) /\ NoneEmptyTaken(f, t) /\ ~ParentLevel(f, t)
      <3> HIDE DEF L
      <3>1. CASE Len(t) = Len(f)
        <4>1. m = Len(f) /\ m = Len(t)
          BY <2>6, <3>1
        <4> QED
          BY <1>12, <2>2, <2>3, <2>4, <2>5, <3>1, <4>1 DEF NoneEmptyTaken
      <3>2. CASE Len(t) # Len(f)
        BY <2>3, <2>4, <2>6, <3>2
      <3> QED
        BY <3>1, <3>2
    <2> QED
      BY <1>3, <1>10, <2>7 DEF cf, ct
  <1>16. Len(t) >= Len(f) \/ Len(t) < Len(f)
    BY <1>4
  <1> QED
    BY <1>13, <1>14, <1>15, <1>16

-------------------------------------------------------------------------------
(* Messages.                                                               *)

\* A topic that is a filter of the table as well matches it.
LEMMA OwnTopic == ASSUME NEW t, NameOK(t) PROVE Matches(t, t)
  <1>1. t[Len(t)] # <<"#">>
    <2>1. Len(t) \in 1..Len(t) /\ <<"#">>[1] = "#" /\ 1 \in 1..Len(<<"#">>)
      BY DEF NameOK
    <2> QED
      BY <2>1 DEF NameOK, Plain
  <1> QED
    BY <1>1 DEF Matches

\* Where topics have no empty level, a message goes to handlers of matching filters, and to
\* those of all granted but the filters that found the table full and '#' on its parent level.
THEOREM MessagesHanded ==
    ASSUME \A t \in Topics : \A i \in 1..Len(t) : t[i] # <<>>
    PROVE  Spec => []HandedToMatching
  <1>1. ASSUME NEW f \in Filters, NEW t \in Topics
        PROVE  /\ Handles(f, t) => Matches(f, t)
               /\ Matches(f, t) /\ ~ParentLevel(f, t) => Handles(f, t)
    <2>1. FilterOK(f) /\ NameOK(t) /\ NoneEmptyTaken(f, t)
      BY TopicsOK DEF NoneEmptyTaken
    <2>2. isTopicMatched(Chars(f), Chars(t)) <=> Matches(f, t) /\ ~ParentLevel(f, t)
      BY <2>1, MatcherByLevels
    <2> QED
      BY <2>1, <2>2, OwnTopic DEF Handles
  <1>2. IInv => HandedToMatching
    <2> SUFFICES ASSUME IInv, NEW i \in DOMAIN down, down[i].type = "PUBLISH"
                 PROVE  LET topic    == down[i].topic
                            matching == {f \in Filters : Matches(f, topic)}
                            called   == deliverMessage(down[i])
                        IN /\ called \subseteq matching
                           /\ \A f \in (granted \cap matching) \ called :
                                  f \in dropped \/ ParentLevel(f, topic)
      BY DEF HandedToMatching
    <2>1. down[i].topic \in Topics
      BY DEF IInv, Typed, DownPackets
    <2>2. ToSet(messageHandlers) \subseteq Filters
      BY DEF IInv, Typed, ToSet
    <2> QED
      BY <1>1, <2>1, <2>2 DEF IInv, Tabled, deliverMessage
  <1> QED
    BY <1>2, Invariance, PTL

\* Whatever levels the topics have, no handler of a filter that does not match is called.
NoStrangerCalled ==
    \A i \in DOMAIN down :
        down[i].type = "PUBLISH" => \A f \in deliverMessage(down[i]) : Matches(f, down[i].topic)

\* An empty level, or the parent level of '#', can keep a message from its handler; nothing
\* brings one to the handler of a filter that does not match.
THEOREM OnlyMatchingCalled == Spec => []NoStrangerCalled
  <1>1. ASSUME NEW f \in Filters, NEW t \in Topics, Handles(f, t) PROVE Matches(f, t)
    <2>1. FilterOK(f) /\ NameOK(t)
      BY TopicsOK
    <2> QED
      BY <1>1, <2>1, MatcherByLevels, OwnTopic DEF Handles
  <1>2. IInv => NoStrangerCalled
    <2> SUFFICES ASSUME IInv, NEW i \in DOMAIN down, down[i].type = "PUBLISH",
                        NEW f \in deliverMessage(down[i])
                 PROVE  Matches(f, down[i].topic)
      BY DEF NoStrangerCalled
    <2>1. down[i].topic \in Topics
      BY DEF IInv, Typed, DownPackets
    <2>2. f \in Filters /\ Handles(f, down[i].topic)
      BY DEF IInv, Typed, ToSet, deliverMessage
    <2> QED
      BY <1>1, <2>1, <2>2
  <1> QED
    BY <1>2, Invariance, PTL

===============================================================================
