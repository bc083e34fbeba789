------------------------------ MODULE MqttClient -------------------------------
(***************************************************************************)
(* The client of src/Ethernet_W5500/MQTT/MQTTClient.c beyond what the      *)
(* thread of MqttThread uses: requests of all kinds, their packet ids and  *)
(* answers, and the table of message handlers.  A call sends one packet    *)
(* and goes through cycle until a packet of the awaited type comes, or its *)
(* timer expires.  Ids are not compared.                                   *)
(*                                                                         *)
(* Packets arrive whole and keepAliveInterval is 0: MqttThread has the     *)
(* pings.  The broker is external.                                         *)
(***************************************************************************)
EXTENDS Naturals, Sequences, SequencesExt, FiniteSets

CONSTANTS
    Characters,
    Filters, Topics,      \* sequences of levels, a level a sequence of characters
    MAX_MESSAGE_HANDLERS,
    MAX_PACKET_ID,
    UpMax, DownMax        \* bounds: packets on the way, to the broker and from it

ASSUME ConstantsOK ==
    /\ Filters # {} /\ Topics # {}
    /\ MAX_MESSAGE_HANDLERS \in Nat /\ MAX_PACKET_ID \in Nat \ {0}
    /\ UpMax \in Nat \ {0} /\ DownMax \in Nat

VARIABLES
    isconnected, next_packetid,
    messageHandlers,      \* the filters of the table, in the order of their slots
    call,                 \* what the call under way waits for
    up, down,             \* packets to the broker and from it
    subscribed,           \* the filters the broker serves
    granted,              \* those of which a call returned success
    dropped,              \* those that found the table full
    gaveUp                \* a call gave up waiting, on this connection

vars == <<isconnected, next_packetid, messageHandlers, call, up, down, subscribed,
          granted, dropped, gaveUp>>

Idle == [awaits |-> "nothing", id |-> 0, topic |-> <<>>]

\* code is the QoS of a message or the return code of an answer.
Message(t, n, f, c) == [type |-> t, id |-> n, topic |-> f, code |-> c]
Packet(t, n)        == Message(t, n, <<>>, 0)

-------------------------------------------------------------------------------
(* Topics.                                                                 *)

\* The string of a topic or a filter: its levels with a separator between.
Chars(levels) == FlattenSeq([i \in DOMAIN levels |-> IF i = 1 THEN levels[i]
                                                     ELSE <<"/">> \o levels[i]])

\* The character that '+' goes on with: the next separator, or the end.
AfterLevel(n, c) == CHOOSE e \in (c + 1)..(Len(n) + 1) :
                        /\ e <= Len(n) => n[e] = "/"
                        /\ \A k \in (c + 1)..(e - 1) : n[k] # "/"

\* The characters of the name that one of the filter takes.
Step(f, n, cf, cn) ==
    IF f[cf] = "+" THEN AfterLevel(n, cn)
    ELSE IF f[cf] = "#" THEN Len(n) + 1 ELSE cn + 1

Differ(x, y) == \/ y = "/" /\ x # "/"
                \/ x \notin {"+", "#", y}

\* isTopicMatched, from character cf of the filter f and cn of the name n on.
isTopicMatched(f, n) ==
    LET from[p \in (1..Len(f) + 1) \X (1..Len(n) + 1)] ==
            LET cf == p[1] cn == p[2] IN
            IF cf <= Len(f) /\ cn <= Len(n)
            THEN ~Differ(f[cf], n[cn]) /\ from[<<cf + 1, Step(f, n, cf, cn)>>]
            ELSE cf > Len(f) /\ cn > Len(n)
    IN from[<<1, 1>>]

Handles(filter, topic) ==
    filter = topic \/ isTopicMatched(Chars(filter), Chars(topic))

\* The format that isTopicMatched assumes: no wildcard in a name, and in a filter '+' and '#'
\* only for a whole level, '#' for the last.
Plain(w) == \A j \in 1..Len(w) : w[j] \notin {"/", "+", "#"}

NameOK(t) == /\ t \in Seq(Seq(Characters)) /\ t # <<>>
             /\ \A i \in 1..Len(t) : Plain(t[i])

FilterOK(f) == /\ f \in Seq(Seq(Characters)) /\ f # <<>>
               /\ \A i \in 1..Len(f) : \/ Plain(f[i])
                                       \/ f[i] = <<"+">>
                                       \/ f[i] = <<"#">> /\ i = Len(f)

ASSUME TopicsOK ==
    /\ {"/", "+", "#"} \subseteq Characters
    /\ \A f \in Filters : FilterOK(f)
    /\ \A t \in Topics : NameOK(t)

-------------------------------------------------------------------------------
(* Requests.                                                               *)

\* Mutant: the ids do not start again at 1.
getNextPacketId_FromZero == IF next_packetid = MAX_PACKET_ID THEN 0 ELSE next_packetid + 1

getNextPacketId == IF next_packetid = MAX_PACKET_ID THEN 1 ELSE next_packetid + 1

\* sendPacket writes the whole packet, or the socket is busy or gone until the timer
\* expires and nothing is written.
sendPacket(p) == Len(up) < UpMax /\ up' = Append(up, p)
sendFails     == UNCHANGED up

\* A new TCP connection, MQTTClientInit, and the CONNECT packet of MQTTConnect.
mqtt_connect_broker ==
    /\ call = Idle
    /\ isconnected' = FALSE /\ next_packetid' = 1 /\ messageHandlers' = <<>>
    /\ down' = <<>> /\ subscribed' = {} /\ granted' = {}
    /\ dropped' = {} /\ gaveUp' = FALSE
    /\ \/ up' = <<Packet("CONNECT", 0)>> /\ call' = [Idle EXCEPT !.awaits = "CONNACK"]
       \/ up' = <<>> /\ UNCHANGED call

\* A request of type t that an answer of type a ends.
Request(t, a, f, c) ==
    /\ call = Idle /\ isconnected
    /\ next_packetid' = getNextPacketId
    /\ \/ /\ sendPacket(Message(t, getNextPacketId, f, c))
          /\ call' = [awaits |-> a, id |-> getNextPacketId, topic |-> f]
       \/ sendFails /\ UNCHANGED call
    /\ UNCHANGED <<isconnected, messageHandlers, down, subscribed, granted, dropped, gaveUp>>

MQTTSubscribe(f)   == Request("SUBSCRIBE", "SUBACK", f, 0)
MQTTUnsubscribe(f) == Request("UNSUBSCRIBE", "UNSUBACK", f, 0)
PublishAtLeastOnce == Request("PUBLISH", "PUBACK", <<>>, 1)
PublishExactlyOnce == Request("PUBLISH", "PUBCOMP", <<>>, 2)

\* A message of QoS 0 is only sent.
PublishAtMostOnce ==
    /\ call = Idle /\ isconnected
    /\ sendPacket(Packet("PUBLISH", 0)) \/ sendFails
    /\ UNCHANGED <<isconnected, next_packetid, messageHandlers, call, down, subscribed,
                   granted, dropped, gaveUp>>

MQTTDisconnect ==
    /\ call = Idle
    /\ isconnected' = FALSE
    /\ sendPacket(Packet("DISCONNECT", 0)) \/ sendFails
    /\ UNCHANGED <<next_packetid, messageHandlers, call, down, subscribed, granted, dropped, gaveUp>>

\* The timer of waitfor expires.
GiveUp ==
    /\ call # Idle
    /\ call' = Idle
    /\ gaveUp' = TRUE
    /\ UNCHANGED <<isconnected, next_packetid, messageHandlers, up, down, subscribed,
                   granted, dropped>>

-------------------------------------------------------------------------------
(* cycle, called by waitfor and by MQTTYield.                              *)

\* Mutant: the wait for a PUBCOMP ends with the PUBREC before it.
Ends_Early(p) == call.awaits = p.type \/ (call.awaits = "PUBCOMP" /\ p.type = "PUBREC")

\* waitfor looks at the type.
Ends(p) == call.awaits = p.type

\* What cycle answers: a message with a PUBACK or a PUBREC, a PUBREC with a PUBREL.  A
\* PUBREL is not answered, so that a QoS 2 message from the broker never completes.
Answers(p) == CASE p.type = "PUBLISH" /\ p.code = 1 -> {"PUBACK"}
                [] p.type = "PUBLISH" /\ p.code = 2 -> {"PUBREC"}
                [] p.type = "PUBREC" -> {"PUBREL"}
                [] OTHER -> {}

\* Mutant: the search ends at the first handler that matches.
deliverMessage_First(p) ==
    LET called == {i \in DOMAIN messageHandlers : Handles(messageHandlers[i], p.topic)}
    IN {messageHandlers[i] : i \in {k \in called : \A l \in called : k <= l}}

\* The filters whose handlers deliverMessage calls.  What they do is not the client's,
\* and without a default handler a message that none matches is dropped.
deliverMessage(p) == {f \in ToSet(messageHandlers) : Handles(f, p.topic)}

\* Mutant: the code of the SUBACK is not looked at.
Refused_Never(p) == FALSE

Refused(p) == p.code # 0

\* MQTTConnect, MQTTSubscribe and MQTTUnsubscribe after their wait.  A filter that finds
\* the table full is granted as well; no filter ever leaves the table.
Ended(p) ==
    /\ call' = Idle
    /\ isconnected' = IF p.type = "CONNACK" THEN ~Refused(p) ELSE isconnected
    /\ LET new  == p.type = "SUBACK" /\ ~Refused(p)
           room == Len(messageHandlers) < MAX_MESSAGE_HANDLERS
       IN /\ messageHandlers' = IF new /\ room
                                THEN Append(messageHandlers, call.topic) ELSE messageHandlers
          /\ dropped' = IF new /\ ~room THEN dropped \cup {call.topic} ELSE dropped
          /\ granted' = CASE new -> granted \cup {call.topic}
                          [] p.type = "UNSUBACK" -> granted \ {call.topic}
                          [] OTHER -> granted

Cycle ==
    /\ down # <<>>
    /\ down' = Tail(down)
    /\ LET p == Head(down)
       IN /\ \/ \E a \in Answers(p) : sendPacket(Packet(a, p.id))
             \/ sendFails
          /\ IF Ends(p) THEN Ended(p)
             ELSE UNCHANGED <<call, isconnected, messageHandlers, granted, dropped>>
    /\ UNCHANGED <<next_packetid, subscribed, gaveUp>>

-------------------------------------------------------------------------------
(* The broker.                                                             *)

\* A filter matches level by level.  '#' at its end takes all the levels there are, also
\* none: it matches its parent level too.
Matches(filter, topic) ==
    LET all == filter[Len(filter)] = <<"#">>
        n   == IF all THEN Len(filter) - 1 ELSE Len(filter)
    IN /\ IF all THEN Len(topic) >= n ELSE Len(topic) = n
       /\ \A i \in 1..n : filter[i] \in {<<"+">>, topic[i]}

Replies(q) ==
    CASE q.type = "CONNECT" -> {Packet("CONNACK", 0), Message("CONNACK", 0, <<>>, 5)}
      [] q.type = "SUBSCRIBE" -> {Packet("SUBACK", q.id), Message("SUBACK", q.id, <<>>, 128)}
      [] q.type = "UNSUBSCRIBE" -> {Packet("UNSUBACK", q.id)}
      [] q.type = "PUBLISH" /\ q.code = 1 -> {Packet("PUBACK", q.id)}
      [] q.type = "PUBLISH" /\ q.code = 2 -> {Packet("PUBREC", q.id)}
      [] q.type = "PUBREL" -> {Packet("PUBCOMP", q.id)}
      [] q.type = "PUBREC" -> {Packet("PUBREL", q.id)}
      [] OTHER -> {}

BrokerReads ==
    /\ up # <<>> /\ Len(down) < DownMax
    /\ up' = Tail(up)
    /\ LET q == Head(up)
       IN IF Replies(q) = {} THEN UNCHANGED <<down, subscribed>>
          ELSE \E r \in Replies(q) :
                   /\ down' = Append(down, r)
                   /\ subscribed' = CASE r.type = "SUBACK" /\ r.code = 0 -> subscribed \cup {q.topic}
                                      [] r.type = "UNSUBACK" -> subscribed \ {q.topic}
                                      [] OTHER -> subscribed
    /\ UNCHANGED <<isconnected, next_packetid, messageHandlers, call, granted, dropped,
                   gaveUp>>

BrokerPublishes ==
    /\ Len(down) < DownMax
    /\ \E f \in subscribed, t \in Topics, qos \in 0..2 :
           /\ Matches(f, t)
           /\ down' = Append(down, Message("PUBLISH", IF qos = 0 THEN 0 ELSE 1, t, qos))
    /\ UNCHANGED <<isconnected, next_packetid, messageHandlers, call, up, subscribed, granted,
                   dropped, gaveUp>>

\* After MQTTClientInit, over an open connection.
Init ==
    /\ isconnected = FALSE /\ next_packetid = 1 /\ messageHandlers = <<>> /\ call = Idle
    /\ up = <<>> /\ down = <<>> /\ subscribed = {} /\ granted = {}
    /\ dropped = {} /\ gaveUp = FALSE

Next ==
    \/ mqtt_connect_broker \/ MQTTDisconnect \/ GiveUp \/ Cycle
    \/ \E f \in Filters : MQTTSubscribe(f) \/ MQTTUnsubscribe(f)
    \/ PublishAtMostOnce \/ PublishAtLeastOnce \/ PublishExactlyOnce
    \/ BrokerReads \/ BrokerPublishes

Spec == Init /\ [][Next]_vars

-------------------------------------------------------------------------------
(* Properties.                                                             *)

Requests == {"SUBSCRIBE", "UNSUBSCRIBE", "PUBLISH", "PUBREL"}
Acks     == {"SUBACK", "UNSUBACK", "PUBACK", "PUBREC", "PUBCOMP"}
Types    == Requests \cup Acks \cup {"CONNECT", "CONNACK", "DISCONNECT"}

Packets == [type : Types, id : 0..MAX_PACKET_ID, topic : Filters \cup Topics \cup {<<>>},
            code : {0, 1, 2, 5, 128}]

\* Every variable keeps its type, a request never has the id 0 that MQTT reserves, and the
\* table and the queues keep their size.
TypeOK ==
    /\ isconnected \in BOOLEAN
    /\ next_packetid \in 1..MAX_PACKET_ID
    /\ messageHandlers \in Seq(Filters) /\ Len(messageHandlers) <= MAX_MESSAGE_HANDLERS
    /\ call \in [awaits : {"nothing", "CONNACK"} \cup Acks, id : 0..MAX_PACKET_ID,
                 topic : Filters \cup {<<>>}]
    /\ up \in Seq(Packets) /\ Len(up) <= UpMax
    /\ down \in Seq(Packets) /\ Len(down) <= DownMax
    /\ subscribed \subseteq Filters /\ granted \subseteq Filters
    /\ dropped \subseteq Filters
    /\ gaveUp \in BOOLEAN

\* As long as no call has given up, every request on its way and every answer to one is
\* that of the call that waits: what keeps a client that compares no ids right.
OneOutstanding ==
    ~gaveUp =>
        /\ \A i \in DOMAIN up : up[i].type \in Requests /\ up[i].id # 0
                                    => up[i].id = call.id
        /\ \A i \in DOMAIN down : down[i].type \in Acks => down[i].id = call.id

\* Then the answer that ends a call is the answer to its own packet.
AnswerIsOwn ==
    [][call.id # 0 /\ call' = Idle /\ ~gaveUp'
           => Head(down).id = call.id]_vars

\* Then, too, the client and the broker agree on the subscriptions, but for the one that
\* is being made or ended.
SubscriptionsAgree ==
    ~gaveUp => granted \ {call.topic} = subscribed \ {call.topic}

\* The topic is the parent level of a filter that ends in '#': MQTT's filter matches it,
\* isTopicMatched does not.
ParentLevel(filter, topic) ==
    filter[Len(filter)] = <<"#">> /\ Len(topic) = Len(filter) - 1

\* A message goes only to handlers of filters that match its topic, as MQTT defines it; and
\* it goes to those of all such filters granted, with two exceptions that the code makes: a
\* filter that found the table full, and '#' on its parent level.
HandedToMatching ==
    \A i \in DOMAIN down :
        down[i].type = "PUBLISH" =>
            LET topic    == down[i].topic
                matching == {f \in Filters : Matches(f, topic)}
                called   == deliverMessage(down[i])
            IN /\ called \subseteq matching
               /\ \A f \in (granted \cap matching) \ called :
                      f \in dropped \/ ParentLevel(f, topic)
===============================================================================
