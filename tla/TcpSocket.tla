------------------------------- MODULE TcpSocket -------------------------------
(***************************************************************************)
(* One TCP socket of src/Ethernet_W5500/socket.c as a client uses it:      *)
(* socket, connect, send, recv, disconnect and close, over the registers   *)
(* and the two ring buffers of a W5500, which works at the same time.  A   *)
(* call reads the registers one by one and the connection may change       *)
(* between two reads, so a call is a sequence of steps.                    *)
(*                                                                         *)
(* Commands to the chip are taken at once (while (getSn_CR(sn))).  What    *)
(* the chip, the network and the peer do is external.                      *)
(***************************************************************************)
EXTENDS Naturals, Sequences, SequencesExt

CONSTANTS
    BufSize,     \* TxMAX and RxMAX
    PtrMod,      \* the buffer pointers are 16 bits wide
    MaxLen,      \* the longest data a caller sends or wants
    MaxBytes,    \* bound: bytes each way on a connection
    MaxConns     \* bound: openings of the socket

ASSUME ConstantsOK ==
    /\ BufSize \in Nat \ {0} /\ PtrMod \in Nat \ {0} /\ BufSize < PtrMod /\ PtrMod % BufSize = 0
    /\ MaxLen \in Nat /\ MaxBytes \in Nat /\ MaxConns \in Nat

VARIABLES
    \* the chip
    sr, ir,              \* Sn_SR, and the bits of Sn_IR that are read
    tx, tx_wr, tx_rd,    \* the ring of bytes to send, Sn_TX_WR and Sn_TX_RD
    rx, rx_wr, rx_rd,
    busy,                \* a SEND is under way
    \* socket.c
    io_nonblock, is_sending,
    call,                \* the call under way
    \* the two ends
    conn,                \* the openings so far
    accepted, peerGot,   \* bytes taken by send, and the bytes the peer has
    peerSent, callerGot  \* bytes sent by the peer, and the bytes recv has returned

txVars == <<tx, tx_wr, tx_rd, busy>>
rxVars == <<rx, rx_wr, rx_rd>>
ends   == <<accepted, peerGot, peerSent, callerGot>>
vars   == <<sr, ir, txVars, rxVars, io_nonblock, is_sending, call, conn, ends>>

Status == {"CLOSED", "INIT", "SYNSENT", "ESTABLISHED", "CLOSE_WAIT", "FIN_WAIT", "LAST_ACK"}
Open   == {"ESTABLISHED", "CLOSE_WAIT"}

\* The bytes of a connection are numbered; 0 is what the buffers hold at the start.
Byte(c, i) == (c - 1) * MaxBytes + i
Stream(n)  == [i \in 1..n |-> Byte(conn, i)]
Bytes      == 0..(MaxConns * MaxBytes)

Idle == [fn |-> "none", stage |-> "none", len |-> 0, size |-> 0]
At(fn, stage) == call.fn = fn /\ call.stage = stage
Call(fn, stage, n) ==
    /\ call = Idle
    /\ call' = [fn |-> fn, stage |-> stage, len |-> n, size |-> 0]
Goto(stage) == call' = [call EXCEPT !.stage = stage]
Return == call' = Idle

\* Mutant: the pointers are wider than the chip's.
Plus_Wide(p, n) == p + n

Plus(p, n) == (p + n) % PtrMod
Used(w, r) == (w + PtrMod - r) % PtrMod
TX_FSR == BufSize - Used(tx_wr, tx_rd)
RX_RSR == Used(rx_wr, rx_rd)

\* n bytes written from pointer p on, the first of them numbered i; and n bytes read.
Put(ring, p, n, i) ==
    [k \in DOMAIN ring |-> LET d == (k + BufSize - (p % BufSize)) % BufSize
                           IN IF d < n THEN Byte(conn, i + d) ELSE ring[k]]
Got(ring, p, n) == [k \in 1..n |-> ring[Plus(p, k - 1) % BufSize]]

\* Mutant: recv returns as many bytes as were asked for.
Least_First(a, b) == a

Least(a, b) == IF a < b THEN a ELSE b

-------------------------------------------------------------------------------
(* close and socket.                                                       *)

\* Mutant: close leaves the interrupts of the connection set.
Cleared_Kept == ir

Cleared == {}

\* What close() does, for itself and for the calls that end with it.
Closed ==
    /\ sr' = "CLOSED" /\ ir' = Cleared /\ busy' = FALSE
    /\ io_nonblock' = FALSE /\ is_sending' = FALSE
    /\ UNCHANGED <<tx, tx_wr, tx_rd, rxVars, conn, ends>>

close ==
    /\ call = Idle /\ sr # "CLOSED"
    /\ Closed
    /\ UNCHANGED call

\* socket closes first, whatever is left of the last connection; opened, the chip's
\* buffers are empty.
socket(nonblock) ==
    /\ call = Idle /\ conn < MaxConns
    /\ conn' = conn + 1
    /\ sr' = "INIT" /\ ir' = Cleared /\ busy' = FALSE
    /\ io_nonblock' = nonblock /\ is_sending' = FALSE
    /\ accepted' = 0 /\ peerGot' = <<>> /\ peerSent' = 0 /\ callerGot' = <<>>
    /\ tx_rd' = tx_wr /\ rx_rd' = rx_wr
    /\ UNCHANGED <<tx, tx_wr, rx, rx_wr, call>>

-------------------------------------------------------------------------------
(* connect and disconnect.                                                 *)

\* A non-blocking connect returns SOCK_BUSY at once.
connect ==
    /\ call = Idle /\ sr = "INIT"
    /\ sr' = "SYNSENT"
    /\ IF io_nonblock THEN UNCHANGED call ELSE Call("connect", "wait", 0)
    /\ UNCHANGED <<ir, txVars, rxVars, io_nonblock, is_sending, conn, ends>>

Connected ==
    /\ At("connect", "wait") /\ sr = "ESTABLISHED"
    /\ Return
    /\ UNCHANGED <<sr, ir, txVars, rxVars, io_nonblock, is_sending, conn, ends>>

ConnectTimeout ==
    /\ At("connect", "wait") /\ sr # "ESTABLISHED" /\ "TIMEOUT" \in ir
    /\ ir' = ir \ {"TIMEOUT"}
    /\ Return
    /\ UNCHANGED <<sr, txVars, rxVars, io_nonblock, is_sending, conn, ends>>

\* Mutant: connect watches for the timeout only.
ConnectClosed_Unseen ==
    /\ At("connect", "wait") /\ sr = "CLOSED"
    /\ UNCHANGED vars

\* The timeout may have come after Sn_IR was read.
ConnectClosed ==
    /\ At("connect", "wait") /\ sr = "CLOSED"
    /\ Return
    /\ UNCHANGED <<sr, ir, txVars, rxVars, io_nonblock, is_sending, conn, ends>>

AfterDiscon == IF sr = "ESTABLISHED" THEN "FIN_WAIT"
               ELSE IF sr = "CLOSE_WAIT" THEN "LAST_ACK"
               ELSE IF sr \in {"INIT", "SYNSENT"} THEN "CLOSED" ELSE sr

disconnect ==
    /\ call = Idle /\ sr # "CLOSED"
    /\ sr' = AfterDiscon
    /\ is_sending' = FALSE
    /\ IF io_nonblock THEN UNCHANGED call ELSE Call("disconnect", "wait", 0)
    /\ UNCHANGED <<ir, txVars, rxVars, io_nonblock, conn, ends>>

Disconnected ==
    /\ At("disconnect", "wait") /\ sr = "CLOSED"
    /\ Return
    /\ UNCHANGED <<sr, ir, txVars, rxVars, io_nonblock, is_sending, conn, ends>>

\* Sn_SR was read before the timeout closed the socket.
DisconnectTimeout ==
    /\ At("disconnect", "wait") /\ "TIMEOUT" \in ir
    /\ Closed
    /\ Return

-------------------------------------------------------------------------------
(* send.                                                                   *)

send(n) ==
    /\ sr \in Open /\ accepted + Least(n, BufSize) <= MaxBytes
    /\ Call("send", IF is_sending THEN "pending" ELSE "space", Least(n, BufSize))
    /\ UNCHANGED <<sr, ir, txVars, rxVars, io_nonblock, is_sending, conn, ends>>

\* Mutant: SENDOK is seen and not cleared.
SendPending_KeepsOk ==
    /\ At("send", "pending") /\ "SENDOK" \in ir
    /\ is_sending' = FALSE
    /\ Goto("space")
    /\ UNCHANGED <<sr, ir, txVars, rxVars, io_nonblock, conn, ends>>

\* The last SEND is done.
SendPending ==
    /\ At("send", "pending") /\ "SENDOK" \in ir
    /\ ir' = ir \ {"SENDOK"}
    /\ is_sending' = FALSE
    /\ Goto("space")
    /\ UNCHANGED <<sr, txVars, rxVars, io_nonblock, conn, ends>>

SendTimeout ==
    /\ At("send", "pending") /\ "SENDOK" \notin ir /\ "TIMEOUT" \in ir
    /\ Closed
    /\ Return

\* SOCK_BUSY, in both modes.
SendBusy ==
    /\ At("send", "pending") /\ ir \cap {"SENDOK", "TIMEOUT"} = {}
    /\ Return
    /\ UNCHANGED <<sr, ir, txVars, rxVars, io_nonblock, is_sending, conn, ends>>

\* Neither the wait for room nor the second wait for SENDOK ever goes round: by
\* SendingKnown the buffer is empty and is_sending is clear.
SendSpace ==
    /\ At("send", "space") /\ sr \in Open /\ call.len <= TX_FSR
    /\ Goto("write")
    /\ UNCHANGED <<sr, ir, txVars, rxVars, io_nonblock, is_sending, conn, ends>>

SendDead ==
    /\ At("send", "space") /\ sr \notin Open
    /\ IF sr = "CLOSED" THEN Closed
       ELSE UNCHANGED <<sr, ir, txVars, rxVars, io_nonblock, is_sending, conn, ends>>
    /\ Return

\* wiz_send_data and the command, which a socket that was closed meanwhile ignores.
Write ==
    /\ At("send", "write")
    /\ tx' = Put(tx, tx_wr, call.len, accepted + 1)
    /\ tx_wr' = Plus(tx_wr, call.len)
    /\ accepted' = accepted + call.len
    /\ busy' = (sr \in Open)
    /\ Return
    /\ UNCHANGED <<sr, ir, tx_rd, rxVars, io_nonblock, conn, peerGot, peerSent, callerGot>>

\* Mutant: nobody remembers that a SEND is under way.
SendWrite_Forgotten == Write /\ is_sending' = FALSE

SendWrite == Write /\ is_sending' = TRUE

-------------------------------------------------------------------------------
(* recv.                                                                   *)

recv(n) ==
    /\ conn > 0
    /\ Call("recv", "count", Least(n, BufSize))
    /\ UNCHANGED <<sr, ir, txVars, rxVars, io_nonblock, is_sending, conn, ends>>

RecvCount ==
    /\ At("recv", "count")
    /\ call' = [call EXCEPT !.stage = "status", !.size = RX_RSR]
    /\ UNCHANGED <<sr, ir, txVars, rxVars, io_nonblock, is_sending, conn, ends>>

\* The bytes are copied and given back to the chip.
RecvRead ==
    /\ At("recv", "status") /\ call.size > 0
    /\ (sr = "ESTABLISHED" /\ ~io_nonblock) \/ sr = "CLOSE_WAIT"
    /\ LET n == Least(call.len, call.size)
       IN /\ callerGot' = callerGot \o Got(rx, rx_rd, n)
          /\ rx_rd' = Plus(rx_rd, n)
    /\ Return
    /\ UNCHANGED <<sr, ir, txVars, rx, rx_wr, io_nonblock, is_sending, conn,
                   accepted, peerGot, peerSent>>

Drained == call.size = 0 /\ TX_FSR = BufSize

\* The connection is over: SOCKERR_SOCKSTATUS.  Bytes that came between the count and
\* the FIN are lost with it.
RecvOver ==
    /\ At("recv", "status")
    /\ sr \notin Open \/ (sr = "CLOSE_WAIT" /\ Drained)
    /\ Closed
    /\ Return

\* SOCK_BUSY, even when there are bytes.
RecvBusy ==
    /\ At("recv", "status") /\ io_nonblock
    /\ sr = "ESTABLISHED" \/ (sr = "CLOSE_WAIT" /\ call.size = 0 /\ ~Drained)
    /\ Return
    /\ UNCHANGED <<sr, ir, txVars, rxVars, io_nonblock, is_sending, conn, ends>>

Waits ==
    /\ At("recv", "status") /\ ~io_nonblock /\ call.size = 0
    /\ sr = "ESTABLISHED" \/ (sr = "CLOSE_WAIT" /\ ~Drained)
    /\ UNCHANGED <<sr, ir, txVars, rxVars, io_nonblock, is_sending, conn, ends>>

\* Mutant: the bytes are counted once.
RecvAgain_SameCount == Waits /\ Goto("status")

RecvAgain == Waits /\ Goto("count")

-------------------------------------------------------------------------------
(* The chip, the network and the peer.                                     *)

Socket == <<io_nonblock, is_sending, call, conn>>

Established ==
    /\ sr = "SYNSENT"
    /\ sr' = "ESTABLISHED"
    /\ \E p \in 0..(PtrMod - 1) : tx_wr' = p /\ tx_rd' = p /\ rx_wr' = p /\ rx_rd' = p
    /\ UNCHANGED <<ir, tx, busy, rx, Socket, ends>>

\* A segment that is never acknowledged: the SYN, the FIN or data.
TimedOut ==
    /\ sr \in {"SYNSENT", "FIN_WAIT", "LAST_ACK"} \/ (sr \in Open /\ busy)
    /\ sr' = "CLOSED" /\ ir' = ir \cup {"TIMEOUT"} /\ busy' = FALSE
    /\ UNCHANGED <<tx, tx_wr, tx_rd, rxVars, Socket, ends>>

Reset ==
    /\ sr \notin {"CLOSED", "INIT"}
    /\ sr' = "CLOSED" /\ busy' = FALSE
    /\ UNCHANGED <<ir, tx, tx_wr, tx_rd, rxVars, Socket, ends>>

Acked ==
    /\ busy /\ tx_rd # tx_wr
    /\ peerGot' = Append(peerGot, tx[tx_rd % BufSize])
    /\ tx_rd' = Plus(tx_rd, 1)
    /\ UNCHANGED <<sr, ir, tx, tx_wr, busy, rxVars, Socket, accepted, peerSent, callerGot>>

SendOk ==
    /\ busy /\ tx_rd = tx_wr
    /\ ir' = ir \cup {"SENDOK"} /\ busy' = FALSE
    /\ UNCHANGED <<sr, tx, tx_wr, tx_rd, rxVars, Socket, ends>>

PeerSends ==
    /\ sr \in {"ESTABLISHED", "FIN_WAIT"}
    /\ RX_RSR < BufSize /\ peerSent < MaxBytes
    /\ rx' = Put(rx, rx_wr, 1, peerSent + 1)
    /\ rx_wr' = Plus(rx_wr, 1)
    /\ peerSent' = peerSent + 1
    /\ UNCHANGED <<sr, ir, txVars, rx_rd, Socket, accepted, peerGot, callerGot>>

PeerCloses ==
    /\ \/ sr = "ESTABLISHED" /\ sr' = "CLOSE_WAIT" /\ UNCHANGED busy
       \/ sr \in {"FIN_WAIT", "LAST_ACK"} /\ sr' = "CLOSED" /\ busy' = FALSE
    /\ UNCHANGED <<ir, tx, tx_wr, tx_rd, rxVars, Socket, ends>>

-------------------------------------------------------------------------------
Init ==
    /\ sr = "CLOSED" /\ ir = {} /\ busy = FALSE
    /\ tx = [i \in 0..(BufSize - 1) |-> 0] /\ tx_wr = 0 /\ tx_rd = 0
    /\ rx = [i \in 0..(BufSize - 1) |-> 0] /\ rx_wr = 0 /\ rx_rd = 0
    /\ io_nonblock = FALSE /\ is_sending = FALSE /\ call = Idle
    /\ conn = 0
    /\ accepted = 0 /\ peerGot = <<>> /\ peerSent = 0 /\ callerGot = <<>>

Caller ==
    \/ Connected \/ ConnectTimeout \/ ConnectClosed \/ Disconnected \/ DisconnectTimeout
    \/ SendPending \/ SendTimeout \/ SendBusy \/ SendSpace \/ SendDead \/ SendWrite
    \/ RecvCount \/ RecvRead \/ RecvOver \/ RecvBusy \/ RecvAgain

Calls ==
    \/ \E nonblock \in BOOLEAN : socket(nonblock)
    \/ close \/ connect \/ disconnect
    \/ \E n \in 1..MaxLen : send(n) \/ recv(n)

Chip == Established \/ TimedOut \/ Reset \/ Acked \/ SendOk \/ PeerSends \/ PeerCloses

Next == Calls \/ Caller \/ Chip

Spec == Init /\ [][Next]_vars

\* A call that is under way goes on, and the chip gives a connection up after its
\* retransmissions if it is not made before.
FairSpec == Spec /\ WF_vars(Caller) /\ WF_vars(sr = "SYNSENT" /\ (Established \/ TimedOut))

-------------------------------------------------------------------------------
(* Properties.                                                             *)

\* Every variable keeps its type; neither buffer holds more than its size.
TypeOK ==
    /\ sr \in Status /\ ir \subseteq {"SENDOK", "TIMEOUT"} /\ busy \in BOOLEAN
    /\ tx \in [0..(BufSize - 1) -> Bytes] /\ rx \in [0..(BufSize - 1) -> Bytes]
    /\ {tx_wr, tx_rd, rx_wr, rx_rd} \subseteq 0..(PtrMod - 1)
    /\ Used(tx_wr, tx_rd) <= BufSize /\ RX_RSR <= BufSize
    /\ io_nonblock \in BOOLEAN /\ is_sending \in BOOLEAN
    /\ call \in [fn : {"none", "connect", "disconnect", "send", "recv"},
                 stage : {"none", "wait", "pending", "space", "write", "count", "status"},
                 len : 0..BufSize, size : 0..BufSize]
    /\ conn \in 0..MaxConns
    /\ accepted \in 0..MaxBytes /\ peerSent \in 0..MaxBytes
    /\ peerGot \in Seq(Bytes) /\ callerGot \in Seq(Bytes)

\* What the peer has is what send took, and what recv returned is what the peer sent, of
\* this connection, in order, with nothing twice and nothing between, around the ends of
\* both buffers.
StreamsKept ==
    /\ IsPrefix(peerGot, Stream(accepted))
    /\ IsPrefix(callerGot, Stream(peerSent))

\* The chip is asked to send only when it is done with the last SEND, on whichever
\* connection and however often the socket was closed and opened in between.
SendsInTurn == [][SendWrite => ~busy]_vars

\* While is_sending is clear an open connection has nothing in its buffer and no SENDOK
\* left over, so that send never waits and never takes one SENDOK for another.
SendingKnown ==
    (sr \in Open /\ ~is_sending) => ~busy /\ tx_wr = tx_rd /\ "SENDOK" \notin ir

\* A blocking connect returns, unless the peer has accepted and closed before connect
\* looks: it waits for neither CLOSE_WAIT nor an end to it.
ConnectReturns == At("connect", "wait") ~> (call = Idle \/ sr = "CLOSE_WAIT")

\* Nothing more will be read: the connection is closed, or the peer has closed it and
\* everything sent was acknowledged.
Over == sr \notin Open \/ (sr = "CLOSE_WAIT" /\ TX_FSR = BufSize)

\* A call of recv ends once as many bytes as it was asked for have come, or the connection
\* is over.  (It also ends before, with the first bytes, which socket.h denies.)
RecvReturns ==
    (call.fn = "recv" /\ (RX_RSR >= call.len \/ Over)) ~> call.fn # "recv"
===============================================================================
