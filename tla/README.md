# Verification of the wiznet firmware

The repository holds the firmware of a small board (STM32F411, ChibiOS/RT) that
talks MQTT to a broker over a W5500 Ethernet chip. This directory holds TLA+
modules of its components, TLC configurations that check them on small instances
and theorems that the TLA+ proof system checks for every instance.

## 1. The system

One thread does all the work: `threadYield` of `MQTT_Example.c` brings the chip up
(`W5500_Init`), connects to the broker, subscribes to one topic and then loops,
calling the DHCP client, watching the MQTT socket and yielding to the MQTT client.
`main.c` only creates it and blinks. Everything below runs in that thread, so the
concurrency is between the thread and what it does not control: the tick, the chip
(its sockets change state by themselves), the DHCP servers, the broker, the cable.
Nothing is persisted by the built firmware; the flash library of `variables/` is.

| Component | State it keeps | Operations | Hard behaviour | What makes it correct |
|---|---|---|---|---|
| DHCP client, `DHCP/dhcp.c` | `dhcp_state`, tick and retry counters, lease time, transaction id, server, addresses; the chip's address registers and one UDP socket | `DHCP_init`, `DHCP_run`, `DHCP_stop`, `DHCP_time_handler` | answers lost, late, twice, from several servers; the tick interrupts a blocking ARP probe; retries | one server per lease; the leased address is applied, and a change of it reported; every wait ends; no lease is overrun |
| Firmware thread, `MQTT_Example.c`, `wizchip_port.c`, `main.c` | `ip_assigned` (two of them), `netInfo`, the MQTT client | `W5500_Init`, `mqtt_network_init`, `mqtt_connect_broker`, `mqtt_subscribe`, the loop | cable, chip and broker fail between any two calls; reconnection | reconnects by itself; what it subscribed to is delivered after a reconnection |
| MQTT client, `MQTT/MQTTClient.c`, `mqtt_interface.c` | `isconnected`, `ping_outstanding`, timers, packet id, handlers | connect, subscribe, unsubscribe, publish, yield, keep-alive | packets split by TCP; answers that come late or never; one read buffer for all | CONNECT first and once per connection; an answer is that of its own request; table of handlers and broker agree; a message reaches the handlers it matches |
| MQTT packets, `MQTT/MQTTPacket/src` | none | serialisation and parsing | length limits | round trip |
| Sockets, `socket.c` | `sock_io_mode`, `sock_is_sending`, `sock_remained_size`, `sock_pack_info`, the port counter | `socket`, `close`, `connect`, `disconnect`, `send`, `recv`, `sendto`, `recvfrom` | the chip changes a socket's state under the driver; blocking loops on its registers | the bytes of a connection in order and once; one SEND at a time; every blocking loop ends |
| Chip access, `w5500.c`, `wizchip_conf.c` | callbacks, chip identity | SPI frames, buffer pointers, PHY | 16-bit pointers that wrap | no byte lost or repeated at the ends of a ring |
| DNS client, `DNS/dns.c` | message id, retry and tick counters, answer | `DNS_init`, `DNS_run`, `DNS_time_handler` | late answers, retries, ports that start again | the answer is one to the query; ends |
| Alternative MQTT thread, `mqttTest.c` (not built) | connection state, backoff, `ip_assigned` | state machine over DHCP and MQTT | cable pulled at any step | reaches OPERATIONAL, backs off |
| Flash variables, `variables/varsGestion.cpp` (not built) | 510 sectors (2 to 511), one variable each: type, name, a bit per position used, values | `leeVariable*`, `escribeVar*`, `initVarFlash` | power lost between two programmings; bits only clear; the last position; a full flash | one sector per variable; a read gives the last value written; no mixture of two values |
| Configuration block, `variables/variables.cpp` (not built) | one sector with a key | `leeVariables`, `escribeVariables`, `reseteaEeprom` | power lost while writing | a block with its key is one configuration; RAM and flash agree; a start that halts does so once |
| Flash driver, `w25q16/w25q16.cpp` (not built) | none | read, program, erase, streams | busy chip | |
| Console, `serial.cpp`, `tty/gets.cpp` (not built) | line buffer | menus, line editing, number parsing | limits of buffers and numbers | bounds |
| ADC, heap, USB, version (not built) | | | | |
| ChibiOS wrapper, `wiznet_chibios.c` (not built) | | | | |
| `ioLibrary/` | vendored copy of the WIZnet library, not built | | | |
| `cfg/`, `WEACT_F411RE/` | board and kernel configuration | | | |

## 2. The modules

```
DhcpClient ──> DhcpClient_proofs ──┐
     ├───────> DhcpLease ──────────┼──> DhcpUse_proofs
     └───────> FirmwareDhcp ───────┘
MqttThread ──> MqttThread_proofs         MqttClient ──> MqttClient_proofs
TcpSocket ───> TcpSocket_proofs          DnsClient ───> DnsClient_proofs
FlashVar ────> FlashVar_proofs           ConfigBlock ──> ConfigBlock_proofs
     └ INSTANCE FlashStore (the abstract specification)
```

An arrow leads from a module to one that EXTENDS it. The `MC*` modules give constants
their values for TLC where a configuration file alone cannot.

**DhcpClient** is `dhcp.c`. Its variables are the file's static variables, under
their names, and what the client changes on the chip: `sipr` (the source address),
`sock` and `rxq` (the DHCP socket and the datagrams it holds). `DHCP_run` is one
action per case of its `switch` and per branch of `check_DHCP_timeout`; each of
them begins with `Call`, which reads at most one datagram (`parseDHCPMSG`) and stores
its options, as the function does before it looks at the state. The three places where
the function blocks split it in two steps, with `pc` between them, so that ticks and
datagrams arrive meanwhile: the `sendto` of a REQUEST to the server's own address, which a
renewal and its retries make (`request`; the chip resolves the server's hardware address
first, `SendOk`, or gives up, `SendTimeout`), the ARP probe of `check_DHCP_leasedIP`
(`probe`), and the busy wait after a DECLINE (`declined`). The ticks counted during the
first are erased after it, by `reset_DHCP_timeout` (`dhcp.c:881`) or by the assignment that
follows a retry (`:962`); `Requested` is that. `DHCP_time_handler` is an action of its own, enabled at any time.
`DHCP_init` and `DHCP_stop` are called where a main loop may call them: between two
calls of `DHCP_run`. The default callbacks and the application's own, which leave
the chip alone, are told apart by `DefaultCallbacks`.

The servers are external. Every datagram the client ever sent stays in `sent`, and a
server may answer any of them, any number of times and in any order, or not at all; so
loss, duplication, delay and reordering need no action of their own. A datagram
carries what the client reads of it: type, server identifier, source address, offered
address and lease time. A server may be heard through a relay (`SourceOf`). The
transaction id is not part of a datagram because `parseDHCPMSG` does not compare it.

**DhcpLease** adds time. The tick comes once a second and the loop calls `DHCP_run` at
least once between two ticks (`polled`), which is what `dhcp.h` asks of its user. It can
only be late while a call is blocked: up to `SendTicks` ticks in the `sendto` of a REQUEST
(`blocked` counts them), and in the wait after a DECLINE. `age`
counts the seconds since the ACK of the lease that is held and `grant` is the lease time
that ACK carried; the client itself knows neither, it compares a tick counter, from which
each REQUEST erases the ticks it blocked, with a lease time that a later datagram may have
overwritten. That is what makes the property
of this module worth a proof.

**FirmwareDhcp** is the way this board uses the client: `W5500_Init` polls `DHCP_run` a
number of times while the board starts, then copies the leased address, or the static
one, to the chip, and the loop of `threadYield` goes on calling `DHCP_run` for ever.
There is no tick, because nothing in the firmware calls `DHCP_time_handler`; the
callbacks only set `ip_assigned`; and the start is abandoned when the cable is out. The
restart after `DHCP_FAILED` in the loop is left out: without the tick no retry is
counted, so `DHCP_run` never returns it, which is part of the theorem `NothingRunsOut`.
`FirmwareFair` adds that the thread goes on.

**MqttThread** is the rest of that loop: opening the socket, logging in, subscribing
once, and then watching the socket, yielding to the MQTT client, publishing. `pc` names
the places where the thread blocks or waits (in connect, for CONNACK or SUBACK, in
disconnect) and the calls of one round. `connect` and `disconnect` are waits on the chip's
state register and end only in the states their loops look for: the first may miss a
connection that the broker closed at once, and the second waits for a broker that has to
close its side. `EndlessWait` names the two states in which they wait for ever. `isconnected`, `ping_outstanding`,
`ping_expired` and `handler` are the client's; `cycle` is what every waiting call does:
read one packet if there is one, act on it, and send a ping if one is due. The chip's
socket state `sr` changes without the thread: the connection is made or refused
(SYNSENT), closed by the broker
(CLOSE_WAIT), closed from this side step by step (`FIN_WAIT`, `FIN_ACKED`, `LAST_ACK`), or lost after a packet that nobody acknowledges (CLOSED), or stays
ESTABLISHED over a connection whose other end is gone. The broker is external: it lets
clients in or refuses them, reads packets in order, publishes, closes, dies and comes
back with no memory. Both directions of the connection hold whole packets.
`send`'s wait for the acknowledgement of the packet before is kept: while a packet is
unread by the broker, another may fail to be sent (`sendFails`), although the socket is
ESTABLISHED.

**MqttClient** is the interface of `MQTTClient.c` on one connection, beyond the calls
the thread makes: subscribe, unsubscribe, publish at each QoS, disconnect. A call is one
action that takes an id (`getNextPacketId`, which starts again after its last) and
writes one packet; `Cycle` is `cycle`, which reads a packet, answers it, hands it to the
handlers, and ends the call when the type is the one it waits for (`Ends`); `GiveUp` is
the timer. The broker grants or refuses, answers in order and publishes on what is
subscribed at any time. The table of handlers grows with each granted filter and never
shrinks, as in the code. A topic is a sequence of levels; `Chars` makes it the string
that the code sees and `isTopicMatched` compares the two strings character by character
the way the code does, while `Matches` is the rule of MQTT on levels, by which the broker
delivers: `#` stands for any number of levels, none included, so that a message on the
parent level of a filter is sent and meets an `isTopicMatched` that refuses it
(`ParentLevel`). MQTT's rule for topics that begin with `$` is left out. `TopicsOK` is the format that the comment above it assumes
(`MQTTClient.c:128`): no wildcard in a name, in a filter only as a whole level, `#` as the
last. `granted`, `subscribed`, `dropped` and `gaveUp` are no variables of the
code: what the calls returned, what the broker serves, the filters that were granted when the
table was full, and whether a call gave up.

**TcpSocket** is one TCP socket of `socket.c` as a client uses it: `socket`, `connect`,
`disconnect`, `send`, `recv` and `close`, blocking or not. A call that reads the chip's
registers more than once is a sequence of steps (`call.stage`), one for each read it
decides upon, and the chip works between any two: the connection is made, given up,
reset or closed by the peer, bytes come and are acknowledged, and a SEND ends. `sr` and
`ir` are the socket's registers `Sn_SR` and `Sn_IR`, `tx_wr`, `tx_rd`, `rx_wr`, `rx_rd`
its pointers, which run through the whole of their width (`PtrMod`) while the buffers
are rings of `BufSize`; `Put` and `Got` are `wiz_send_data` and `wiz_recv_data`.
`is_sending` is the bit of `sock_is_sending`. Bytes are numbered so that a byte tells
the connection and the place it belongs to. The peer is external.

**DnsClient** is `DNS_run` over a UDP socket: `socket` gives it the next port, `sendto`
waits for the ARP, and the loop then waits for a datagram or for the tick. A query stays
answerable until `Lifetime` sockets were opened after its own. An answer says an
address of the name, that there is none, an error, or something that `parseDNSMSG` does
not understand.

**FlashVar** is `varsGestion.cpp` over the flash. A sector is its header, the number of
positions marked in its table and the positions; `Program` is what a flash does: bits
only clear, so that a byte programmed twice is `Mixed`. A call (`job`) is the search for
the variable's sector from the one the caller remembers (`hint`), its creation in the
first blank one, the read, and, for a write, the comparison, the mark and the
programming byte by byte, or the erase of a full sector and its creation anew. Every
programming and every erase is a step and `PowerLoss` may come between any two; `hint`
and `job` are RAM. `FitsOK` says that the positions of a type lie in its sector, which the
code does not look at; it is so for all types but VAR50, which the module therefore leaves
out (section 6). **FlashStore** is the abstract specification: a map from names to
values. `FlashVar` instantiates it with `stored` as the values that the search would
reach in `Image`, the flash with the call under way completed, so that a call takes
effect in one step of the store and the programmings after it are stuttering.

**ConfigBlock** is `variables.cpp`: the configuration in RAM and its block in sector 0.
`leeVariables`, `reseteaEeprom` and `escribeVariables` call one another, and the model
keeps that (`nested`): the inner reading stops the SPI that the outer one goes on to
use, where the driver's assertion halts the system.

## 3. What the runs check

| Run | Instance | What it shows |
|---|---|---|
| `dhcp_client` | 2 servers, one behind a relay, 2 addresses, a finite and an infinite lease time, 1 retry, 1 datagram queued | `RequestPinned`: an address is held or asked for from one server, with that server's other parameters. `LeasedIpApplied`: the chip uses it. `LeaseKeepsServer`: while the lease lasts its server stays, and its address changes only with DHCP_IP_CHANGED. `WaitingEnds`, `LeaseIsRenewed`, `Acquires`: no wait is for ever, a call that blocks included; a finite lease is renewed or dropped; the client gets a lease from the server that lives even if it was bound to one that died. `TypeOK`. |
| `dhcp_lease` | lease times 26 and 27 s, 2 retries of 1 s, a `sendto` of up to 2 ticks | `LeaseNotOverrun`: no lease is held past its time, although the ticks of each blocked REQUEST are forgotten. `AgeBound` says why and is the invariant the proof uses. 26 is the shortest lease time for which the hypothesis holds with 27. |
| `firmware_dhcp` | 2 servers, 2 addresses, 4 polls | `AddressAfterBoot`, `ChipBackedByLease`: whatever happens during the start the chip gets an address, and a leased one only while the client holds that lease. |
| `mqtt_thread` | 2 packets in the send buffer, a publication every 2 rounds | `ConnectFirst`, `SessionAgreed`, `PingUnderWay`, `TypeOK`: what the broker reads on a connection is in order, and the client's flags speak of the connection it has. `Heartbeat`: once the faults stop, the broker goes on receiving the periodic message, unless the thread was caught in one of the two endless waits. |
| `mqtt_client` | the filters `a/+` and `a/#`, the topics `a/ab` and `a`, a table of 2, ids 1 and 2, 1 packet up and 2 down | While no call has given up: `OneOutstanding` and `AnswerIsOwn`, the client takes the answers to its own packets although it compares no ids; `SubscriptionsAgree`, what the calls returned is what the broker serves. Always: `HandedToMatching`, messages go to the handlers of filters that match by MQTT's rule only, and to all those granted but for two exceptions of the code, a filter that found the table full and `#` on its parent level. `TypeOK`. |
| `tcp_socket` | rings of 2 bytes with pointers modulo 4, 3 bytes each way, 2 connections | `StreamsKept`: both byte streams, in order, once, unmixed between connections. `SendsInTurn`, `SendingKnown`: one SEND at a time, and the driver knows of it. `ConnectReturns`: a blocking connect ends, but for a peer that closes before it looks. `RecvReturns`: a blocking recv ends once the bytes it asked for are there, or the connection is over. `TypeOK`. |
| `dns` | 2 names, 3 ports, answers up to 2 openings late, 2 retries | `AnswerIsForQuery`: an address read is one of the name asked for. `Returns`: every call ends. `TypeOK`. |
| `flash_var` | 2 variables, 2 values of 2 bytes, one beyond the wrapper's range, 2 sectors, 2 marks, 2 power failures | `ErasedBeyond`, `NoMixture`, `OneSectorEach`, `TypeOK`, and `ImplementsStore`: the flash implements the map of `FlashStore`, which promises nothing of a variable on its last position. |
| `config_block` | 3 fields, 3 values, 3 power failures | `KeyedIsWhole`, `RamIsStored`, `HaltsOnce`, `TypeOK`. |
| `firmware_tick`, `mqtt_subscription`, `flash_datum` | | Section 6: each is expected to find its property violated. |

`MCMqttClient` also evaluates `MatchesByLevels`: for every filter and topic of up to three
levels, none of them empty, `isTopicMatched` agrees with MQTT's match by levels, but for the
parent level of `#`. Section 4 has the theorem for all of them.

**The bounds.** *DHCP.* Two servers are enough for every confusion between servers: the
client remembers one. Two addresses tell the old from the new. Whatever was sent stays in
`sent` and may be answered later, so one datagram in `rxq` (two in `firmware_dhcp`) is enough for
any order of answers. `TickMax` stops the
tick counter beyond every threshold it is compared with (`TickMaxOK`), so stopping loses
nothing. `MAX_DHCP_RETRY` and `DHCP_WAIT_TIME` are 2 and 1 in `dhcp_lease`, whose question is
one of time, 1 and 0 in `dhcp_client` and 1 and 1 on the board, where only the order of the
wait, the retry and the giving up matters, instead of the code's 2 and 10. `SendTicks` of 2
is what the chip needs to give an ARP request up: nine times 200 ms with the values of its
reset. `PollMax` is 4 instead of 20 and is enough for DISCOVER, OFFER,
ACK and a call that finds nothing. *MQTT.* `QueueMax` of 2 holds a packet unread while
another is written. In `mqtt_client` two slots for two filters fill up, because
subscribing again takes another slot; one of the filters is then granted without one, and
messages for both go on. `a` is the parent level of `a/#`. Two ids start again at the second request; two
packets down are a message that crosses an answer. *Socket.* `BufSize` divides `PtrMod`, as
2^11 divides 2^16, and three bytes go around both ends of a ring of two; with two
openings everything that outlives a connection meets the next. `MaxBytes` and `MaxConns`
bound the counters; they are not in the code. *DNS.* Three ports against a lifetime of two
is the closest that the assumption `Lifetime < NumPorts` allows; the code has 16368.
*Flash.* Two marks are one position written, one more, and the full table; two sectors
for two variables leave none over once both exist, and none at all when a sector was lost to a power
failure; two power failures allow one while the damage of another is repaired. `STARTDAT`
and `SectorSize` are the code's 51 and 4096; they only bound the widths.
Only the names of `flash_var` are symmetric, a run with no liveness property. No run uses a state constraint. All runs but
`config_block` check for deadlock: there a board that has halted stays so once its power
failures are used up.

**Fairness.** In `DhcpClient` the loop goes on calling `DHCP_run` and the tick goes on
(weak fairness: `dhcp.h` requires both of the program that uses the client), the chip's
ARP request ends, in a probe or in a `sendto` (its retry counter limits it), and an address is not taken for ever
(strong fairness of `ProbeUnique`, or every lease could be declined for ever). The servers
have no fairness except in `Acquires`, whose hypothesis names one server that answers
again and again and lets the others fall silent. In `firmware_tick` the thread is never
stopped (`FirmwareFair`), which is all its counterexample needs. In `MqttThread` the thread
runs, waits for answers end (they have timers), the chip reports a connection that cannot be
made or whose packets are not acknowledged, and a broker that is up reads and closes its side
after its client did; that `connect` and `disconnect` return is not assumed. The cable and the broker's faults are restricted only in
the hypothesis of the property (`Stable`), from some time on. A connection attempt to a
broker that can be reached again and again succeeds in the end (strong fairness of
`BrokerAccepts`). In `TcpSocket` a call that is under way goes on, and the chip makes a
connection or gives it up, which its retransmission counter guarantees. In `DnsClient` the
loop goes round and the timer runs, which `dns.h` asks of its user; the network has no
fairness. `FlashVar` (`flash_datum` included: an action property), `ConfigBlock`, `MqttClient`,
`DhcpLease` and `firmware_dhcp` are checked for safety only.

## 4. What is proved

All theorems hold for every value of the constants that their assumptions admit.

| Theorem | Module | Says |
|---|---|---|
| `TypeCorrect` | `DhcpClient_proofs` | `Spec => []TypeOK` |
| `LeaseFromOneServer` | `DhcpClient_proofs` | `DistinctSources => (Spec => []RequestPinned)` |
| `AppliedWhileLeased` | `DhcpClient_proofs` | `Spec => []LeasedIpApplied` |
| `LeaseIsStable` | `DhcpClient_proofs` | `DistinctSources => (Spec => LeaseKeepsServer)` |
| `WaitsRunDown` | `DhcpClient_proofs` | the variant of `WaitingEnds`: nothing prolongs a wait, ticks and the calls after them shorten it |
| `NeverOverrun` | `DhcpUse_proofs` | `LeasesFit => (TimedSpec => []LeaseNotOverrun)` |
| `AgeIsBound` | `DhcpUse_proofs` | `TimedSpec => []AgeBound` (which assumes `LeasesFit`) |
| `AddressIsKept` | `DhcpUse_proofs` | `FirmwareSpec => []AddressAfterBoot` |
| `LeaseIsBehind` | `DhcpUse_proofs` | `FirmwareSpec => []ChipBackedByLease` |
| `NothingRunsOut` | `DhcpUse_proofs` | `FirmwareSpec => NothingExpires`: without a tick no lease ends, no conflict wait ends and nothing fails; the reason `firmware_tick` finds what it finds |
| `BoardLeaseFromOneServer` | `DhcpUse_proofs` | `DistinctSources => (FirmwareSpec => []RequestPinned)` |
| `TypeCorrect` | `MqttThread_proofs` | `Spec => []TypeOK` |
| `OneConnect` | `MqttThread_proofs` | `Spec => []ConnectFirst` |
| `FlagIsAgreed` | `MqttThread_proofs` | `Spec => []SessionAgreed` |
| `PingIsUnderWay` | `MqttThread_proofs` | `Spec => []PingUnderWay` |
| `TypeCorrect` | `MqttClient_proofs` | `Spec => []TypeOK` |
| `OutstandingIsOwn` | `MqttClient_proofs` | `Spec => []OneOutstanding` |
| `AnswerIsOfCall` | `MqttClient_proofs` | `Spec => AnswerIsOwn` |
| `ClientAndBrokerAgree` | `MqttClient_proofs` | `Spec => []SubscriptionsAgree` |
| `MatcherByLevels` | `MqttClient_proofs` | `isTopicMatched` on two strings is `Matches`, MQTT's match, on their levels, but that a wildcard takes no empty level and `#` not its parent level |
| `MessagesHanded` | `MqttClient_proofs` | `Spec => []HandedToMatching`, if no topic has an empty level; its two exceptions (table full, parent level) stand in the property |
| `OnlyMatchingCalled` | `MqttClient_proofs` | `Spec => []NoStrangerCalled`: no handler is called whose filter does not match, whatever levels the topics have |
| `TypeCorrect` | `TcpSocket_proofs` | `Spec => []TypeOK` |
| `StreamsAreKept` | `TcpSocket_proofs` | `Spec => []StreamsKept` |
| `SendingIsKnown` | `TcpSocket_proofs` | `Spec => []SendingKnown` |
| `OneSendAtATime` | `TcpSocket_proofs` | `Spec => SendsInTurn` |
| `TypeCorrect` | `DnsClient_proofs` | `Spec => []TypeOK` |
| `AnswerIsOwn` | `DnsClient_proofs` | `Spec => AnswerIsForQuery` |
| `CallsRunDown` | `DnsClient_proofs` | the variant of `Returns`: every step of `DNS_run` and every tick shortens the call, nothing prolongs it |
| `TypeCorrect` | `FlashVar_proofs` | `Spec => []TypeOK` |
| `ProgrammedOnErased` | `FlashVar_proofs` | `Spec => []ErasedBeyond` |
| `ValuesUnmixed` | `FlashVar_proofs` | `Spec => []NoMixture` |
| `OneSectorPerVariable` | `FlashVar_proofs` | `Spec => []OneSectorEach` |
| `StoreIsImplemented` | `FlashVar_proofs` | `Spec => ImplementsStore`, for types whose positions fit their sector (`FitsOK`); nothing is promised of a variable on its last position |
| `TypeCorrect` | `ConfigBlock_proofs` | `Spec => []TypeOK` |
| `KeyedBlockIsWhole` | `ConfigBlock_proofs` | `Spec => []KeyedIsWhole` |
| `RamIsBlock` | `ConfigBlock_proofs` | `Spec => []RamIsStored` |
| `HaltsOnceOnly` | `ConfigBlock_proofs` | `Spec => []HaltsOnce` |

*DHCP.* `TypeOK` is not inductive: a REQUEST is built from `DHCP_allocated_ip` and
`DHCP_SIP`, and only a client that has both sends a well-formed one. `Bound` adds that a
client past DISCOVER knows its address and its server and that the probe runs only in
REQUEST; `IInv` is `Bound` with the types. The chip's address is kept out of `IInv`
(`ClientTypes`), so that `IInv` holds in `FirmwareDhcp`, too, where that address can be the
static one. `RequestPinned` needs, in addition, that the two
addresses a datagram is compared with belong to one server (`Pinned`): then, once a server
is known, only its datagrams pass (`OnlyTheServer`). This is where `DistinctSources` is
needed: no two servers are heard from one address. Two servers behind one relay can mix,
because the code compares source addresses and nothing else; TLC finds that at once when
`MCSourceOf` maps both to the relay. `AppliedWhileLeased` needs no such hypothesis.

`NeverOverrun` follows from `AgeBound`, which relates the age of the lease to the tick and
retry counters and to the ticks the REQUEST under way has blocked: in LEASED the age is at
most one more than the tick, and the tick does not pass half of the lease time by more than
the second that may be missing before the next call; in REREQUEST the age is bounded by half
of some lease time granted, plus the first REQUEST's `sendto`, plus for each retry a wait and
the `sendto` whose ticks it erased, plus the tick or the time blocked. `LeasesFit` says that
every lease time is long enough for that sum (`Overrun`), with the largest half (an answer
that comes late leaves the lease time of another grant behind). With the code's 2 retries of
10 s, 2 ticks for a `sendto` and one lease time it asks for 62 s or more, which every real
lease satisfies; below that the code does hold a lease past its end.

The firmware's invariant `FInv` is the client's `IInv` and three facts: the tick, the retries
and the wait after a DECLINE stand at zero (so no renewal is ever due, a lease that is held
stays as it is, and nothing is given up; `FirmwareOK` has `MAX_DHCP_RETRY > 0`, 2 in
`dhcp.h:65`), the flag of the
callbacks is up only while a lease is held, and the chip has no address before the loop and
in the loop the static one or that of the lease.

*MQTT.* None of the four is inductive by itself. `Stage` says what the thread's location
tells: a connection the broker has is ESTABLISHED or being closed by `disconnect`, before the
login nothing was written or read, while it reconnects the flag is down,
and without the flag no ping is due. `Opening` says that until the broker has let the
client in there is no CONNACK to be read, `Pings` that no ping is under way without the
flag that says so. Together with the four properties they are `IInv`. Two lemmas on
streams (`Appended`, `Removed`) say how often a packet is in a stream after one is written
or read, and two (`SentOne`, `Cycled`) what `sendPacket` and `cycle` do; the rest is one
step per action.

*The MQTT client.* `IInv` has three parts. `Typed` says which packets each side writes and
which ids calls wait for. `Single` is why ids need not be compared: while no call has given
up there is at most one request or answer on the way in both directions together, it is the
waiting call's (`OwnRequest`, `OwnAnswer`), and it carries what the call awaits, or, at QoS 2,
the PUBREC or PUBREL between. `OneOutstanding` alone is not inductive: it allows two answers
with the call's id, of which the second would meet the next call. `Agreed` adds to
`SubscriptionsAgree` what an answer still unread tells of the broker: a SUBACK of code 0 that
the topic is served already, an UNSUBACK that it is not. Both are conditional on `gaveUp`,
since one call that gives up ends them for the rest of the connection. `Tabled`, a filter
that was granted has a slot or found the table full, holds always.

*Topics.* `MatcherByLevels` is about two strings of any length, so it needs inductions. They
are the arguments that a set of naturals has a least member (`LeastNat`), hence that the
counterexamples have none (`Upwards`). `CharsLaid` says where each level lies in the string
that `Chars` builds: after a separator, or first, and before one, or last. `isTopicMatched`
is a recursion along pairs of positions that only grow; `Computed` proves that it has a
solution, and `Accepted` turns that into a set of positions, closed under `Round`, one round
of the loop. A level of the filter is then compared in one go: `PlainLevel` character by
character, `WildLevel` by what the wildcard skips, `BetweenLevels` over the separator;
`OneLevel` joins the three, and the theorem follows level by level. The exact result is
`Matches`, `NoneEmptyTaken` and not `ParentLevel`, the two divergences that section 6 records.
The second is an exception of `HandedToMatching` itself; the first is not, so
`MessagesHanded` has the hypothesis that no topic has an empty level; `OnlyMatchingCalled`, the
half of it that needs none, does not.

*The socket.* `StreamsKept` speaks of the two ends only; inductive is what lies between.
`TxInv` says that the bytes the peer has and the bytes between the two pointers add up to
those `send` took, and that the ring holds from `tx_rd` on exactly the bytes that are
next (`Holds`); `RxInv` says the same of the other direction. `Exact` is the prefix written
with indices. The arithmetic is that a pointer which wraps at `PtrMod` still names the slot
it would have without wrapping, because `BufSize` divides `PtrMod` (`SlotOfPlus`), and that
the pointers' difference is the number of bytes although either may have wrapped. `SendInv`
is `SendingKnown` from the opening of the socket on, with what is known at each place in
`send`: with the flag clear there is no SEND, no byte in the buffer and no SENDOK left
over. `LinkInv` says that a socket about to be connected has carried nothing yet, and that
the count `recv` decided upon is still there when it reads.

*DNS.* A query sent `a` openings ago has the port `a` places before the last
(`PortOfAge`), around the end of the range; since its answers do not outlive `Lifetime <
NumPorts` openings, only the last query has the port of the open socket, so every datagram
in the socket's buffer is an answer to it.

*Flash.* `IInv` adds to the four invariants what the call under way has made of its sector
(`Progress`: at each stage the header it finds; while a value is programmed the position
holds the bytes before the next one and no more) and, for the search, that no sector behind
a blank one is in use except during the erase of a full one and that no other sector has
the name the call is about to program (`OrderInv`). The latter is conditional on `holed`:
one power failure between that erase and the header's first byte ends it for good, which
section 6 records. `StoreIsImplemented` is the refinement. `Image` is a map of sectors in
which each variable has one and all are reached (`Good`), so a change of the call's sector
changes the store at its variable alone (`OthersKeep`, `StoredChanges`); the programmings
of header and bytes leave `Image` as it was, so they stutter (`ImageKept`), and after the
last one the flash itself is the image (`ImageDone`). Each action is then one lemma:
`CallRefines`, `ReadRefines`, `CompareRefines` and so on.

*Configuration.* `StageInv` says which fields each stage of a save has programmed, and
`NestedInv` that a nested call exists only to write the zeros of a first start.

**Only model-checked.** Every liveness property (`WaitingEnds`, `LeaseIsRenewed`, `Acquires`,
`Heartbeat`, `ConnectReturns`, `RecvReturns`, `Returns`), since they rest on fairness, which
the prover does not handle. For `WaitingEnds` and `Returns` the part that does not is proved
(`WaitsRunDown`, `CallsRunDown`). A natural number made of the retries and the ticks that are
left never rises while the wait lasts. `Left`, of the DNS client, falls with every step of
DNS_run and every tick. `Patience`, of the DHCP client, falls with every tick, with every
call of DHCP_run that finds the tick stopped or blocks in `sendto`, and with the end of such
a call.
For `WaitingEnds` this leaves out the wait after a DECLINE. Every safety property of a passing
run is proved.

## 5. What is not modelled

- The layout of messages: DHCP options, MQTT packets, DNS names. What is read from them
  is; so is the order in which it is read and stored. The length of a DNS name and the
  size of the DHCP client's buffer, 512 bytes where its messages have 548, are layout.
- The length of waits. Timers run out at any time in `MqttThread` and `MqttClient`; only
  their order is used: the ping timer is twice a command timeout, both in the ticks of a
  clock that runs ten times faster than `mqtt_interface.c` assumes.
- MQTT packets split over two TCP segments (`MQTTClient.c:107-119`): the rest of the packet
  is taken for the header of the next one and the boundary is never found again. After that
  any byte can be any packet, so no property survives. `sendPacket` repeating the whole
  length instead of the rest (`:34`) cannot happen with the buffers of 1024 bytes the
  firmware has, since `send` takes up to 2048 at once.
- In `MqttClient` the keep-alive, which `MqttThread` has; and the value that `MQTTYield`
  returns: `cycle` keeps a failure to read in an unsigned variable (`:215`), where it is
  no failure any more.
- `DHCP_run` and the MQTT half of the loop are checked apart. They share the thread and
  the chip's address; a DHCP client that blocks (an ARP probe, or for ever after a
  conflict without the tick) also stops MQTT.
- In `socket.c`: `listen` and the server side, raw sockets, `ctlsocket` and `setsockopt` but
  for the mode, IPv6 and the code of the other chips. UDP is in `DnsClient` and in
  `DhcpClient` by what its datagrams do; a datagram longer than the buffer is one that is
  not understood.
- In the flash library, the listing of `volcarFlash.cpp`, and half an erase: an erase is
  done or not. Widths differ between the variants of the calls, and nothing else does; what
  is wrong in one width only stands in section 6.
- The MQTT packets' serialisation, the console, the board services, `mqttTest.c`,
  `wiznet_chibios.c`: not built, or without state of their own.

The models stand for about 2700 lines, most of the state and the decisions of `dhcp.c`,
`dns.c`, `MQTTClient.c`, the thread, the flash library and the TCP half of `socket.c`. The
repository has some 56000. Of these 35000 are `ioLibrary`, a second copy of WIZnet's library
that is not built, nearly all of it register definitions of chips the board does not have
(`Ethernet/W5100` to `W6300`); `w5500.h` and `cfg/` are definitions, too. What remains is
listed above. Register maps, pin tables and serialisation keep no state and decide nothing,
so that a model of them would have nothing to check.

## 6. Where the code and its documents disagree

Three disagreements are a run that finds the property violated:

| Where | What the text says | What the code does | Run |
|---|---|---|---|
| `MQTT_Example.c:233` | `dhcp.h:99`: the tick's handler "SHOULD BE register to your system 1s Tick timer handler"; `dhcp.c:1023`: "wait for 1s over; wait to complete to send DECLINE message" | Nothing calls the handler. After an address conflict the call compares the tick with itself and never returns. | `firmware_tick` |
| `MQTT_Example.c:249` | `MQTT_Example.c:248`: "If it dropped, handle full initialization." | The subscription is not made again. | `mqtt_subscription` |
| `varsGestion.cpp:220` | `varsGestion.cpp:269` places the last valid datum at the position counted; `:285`: "Si coinciden valores, vuelve sin hacer nada; en caso contrario escribe" | With the whole table marked `leePosEnFAT` returns an error with position 0, and `leeVariable` does not look at the error: the variable reads as its first value, and a write of that value is taken for a repetition (`:400`) and dropped. | `flash_datum` |

The others were met while modelling. The models do what the code does.

*DHCP*

- `dhcp.h:85` has DHCP_IP_ASSIGN for the first lease. No statement returns it: the call
  that takes the first lease returns DHCP_RUNNING (`dhcp.c:837`). `mqttTest.c:264` waits
  for it.
- `dhcp.h:86` has DHCP_IP_CHANGED. The address of an ACK is never stored, so that the
  comparison that should notice a new one (`dhcp.c:891`) compares the old one with itself.
  `LeaseKeepsServer` admits the change and asks that it be reported; the code as it is never
  makes it, so the client goes on using the address it had, which the server may have given up.
- `dhcp.h:92`: "DHCP client initialization (outside of the main loop)". Without a cable
  `W5500_Init` returns before `DHCP_init` (`wizchip_port.c:134`) and the loop calls
  `DHCP_run` all the same.
- Without the tick, besides what `firmware_tick` shows, nothing is sent again and nothing is
  renewed (`NothingRunsOut`).
- `wizchip_port.c:84`: the flag the callbacks set is read only during the start, where a leased
  address is copied to the chip ("if IP is allocated, read it", `:159`). A lease that comes
  after the start fell back to the static address is held and never applied.
- `dhcp.c:881`, `:962`: the ticks counted while a REQUEST blocks in `sendto` are erased after
  it. A renewal with a server that is gone takes longer than the client counts; `LeasesFit`
  is how much a lease must leave for that.
- `dhcp.c:178` says of the transaction id "This increase one every DHCP transaction". It
  changes only when a renewal begins.
- Once a tick is connected, the restart after DHCP_FAILED (`MQTT_Example.c:234`) will take
  the static address from the chip: `DHCP_init` clears it and nothing sets it again.

*Sockets*

- `socket.h:340`: in block mode `send` "doesn't return until data send is completed". It
  returns once the data are in the buffer, and SOCK_BUSY while the SEND before is under way
  (`socket.c:548`). Because of that the buffer is empty whenever `send` writes, and
  its loops that wait for room never go round.
- `socket.h:361`: blocking `recv` returns when `len` bytes are there. It returns as soon as
  any byte is (`socket.c:744`). `RecvReturns` therefore asks what both agree on, that it
  returns once `len` bytes are there or none will come any more, and the early return stands here only. Non-blocking it says SOCK_BUSY even when
  data are there (`socket.c:687`; `socket.h:362` has it for too few data).
- `recv` reads how much there is before it reads the status (`socket.c:664`). When the last
  bytes and the FIN come between the two, it closes a socket that still has them. So
  `StreamsKept` says that what is read is in order, not that all of it is read.
- `connect` waits for ever when the peer accepts and closes before it looks (`socket.c:477`:
  CLOSE_WAIT is none of the states it knows). `ConnectReturns` has this one exception.
- `disconnect` waits for ever for a peer that never closes its side (`socket.c:502`).
  `EndlessWait` is the two of them, and the exception of `Heartbeat`.

*DNS*

- `dns.h:73` calls MAX_DNS_RETRY a "Requery Count". No query is sent again: `len` is 0 after
  the loop has looked for a datagram (`dns.c:563`), and `sendto` refuses a length of 0
  (`:602`). The retries only prolong the wait.
- `dns.h:95`: "max time = MAX_DNS_RETRY * DNS_WAIT_TIME". It is one DNS_WAIT_TIME more.
- An answer without an address returns 1, success, and leaves `ip_from_dns` as it was. An
  answer's id and question are not compared; only the port tells two queries apart.
- As in the DHCP client, nothing drives the tick: a lost datagram blocks the thread. The
  firmware calls `DNS_run` only when built with USE_BROKER_HOSTNAME.

*MQTT client*

- `waitfor` compares no packet ids (`MQTTClient.c:330`; the comment at `:475` says "should
  be the same as the packetid above"). After a call that gave up, its late answer ends the
  next call of its kind, and the SUBACK of a subscription that gave up leaves the broker serving
  a filter that has no handler. This is the reason for `gaveUp` in the properties.
- A PUBREL is not answered, so a message of QoS 2 from the broker never completes.
- `MQTTUnsubscribe` leaves the handler in the table; a subscription that is made again takes
  another slot; with the table full a subscription is reported as granted and has no
  handler (`:427-437`); `dropped` in the model.
- The acknowledgement of a message is sent under the timer of the call that read it; in
  `mqtt_yield` that is 0 ms, and an acknowledgement it cuts off is not sent again.
- `#` does not match the level above it, which MQTT has it match (`ParentLevel`), and neither
  wildcard an empty level.

*Flash*

- What `flash_datum` shows is `exhausted` in `FlashStore`, the exception of `ImplementsStore`.
- A power failure between the erase of a full sector and the header's first byte (`:312`)
  leaves a blank sector that stops the search before the sectors behind it, and their
  variables are created anew. `broken` in `FlashStore` and `holed` are this exception.
- A power failure between the mark of a position and its value (`:321`) leaves the variable
  with an erased value; one during the creation of a sector leaves a sector that is lost.
- With all sectors in use the search returns 0, success (`:302`), and the wrapper returns a
  value it never read.
- A variable of 50 bytes has room for its positions up to 79. From position 80 on they reach
  into the next sector (`:324`), where they are programmed over another variable, and the
  erase of the full sector does not clear them. `FitsOK` leaves these types out.
- The wrappers of 32 bits reject values beyond 0xFFFF and so write equal ones again (`:503`).

*Configuration*

- The first start with an empty block does not finish: the nested reading has stopped the
  SPI, and the next read runs into the driver's assertion. The start after it works.
- An interrupted save loses the old configuration as well: the next start writes zeros.

## 7. Plan

Done: the DHCP client and its use by the board, the thread's MQTT loop, the MQTT client's
interface, the TCP socket, the DNS client, the flash variables with their refinement, and the
configuration block. What is left, in this order:

| Module | Models | To be stated |
|---|---|---|
| `MqttTest` | `mqttTest.c`, composing `DhcpClient` | OPERATIONAL is reached and left in order; backoff |
| `Firmware` | the loop with DHCP and MQTT in one thread | a blocked DHCP call delays a reconnection and no more |
| `UdpSocket` | `sendto` and `recvfrom` as TcpSocket has the stream calls | datagrams not mixed by a partial `recvfrom` |
