--------------------------- MODULE DnsClient_proofs ----------------------------
(***************************************************************************)
(* Proof that an answer that DNS_run reads is one of the name it asked     *)
(* for, for any number of ports that outlasts the datagrams.               *)
(*                                                                         *)
(* The ports of the queries under way are those just below sock_any_port,  *)
(* in the order of their ages and around the end of the range.  So only    *)
(* the last query has the port of the open socket.                         *)
(***************************************************************************)
EXTENDS DnsClient, TLAPS, SequenceTheorems

\* The port that was given out a openings before the last.
PortOfAge(a) == LET p == sock_any_port - 1 - a IN IF p < 0 THEN p + NumPorts ELSE p

IInv ==
    /\ TypeOK
    /\ \A q \in sent : q.port = PortOfAge(q.age) /\ (q.age = 0 => q.name = name)
    /\ port # None => port = PortOfAge(0)
    /\ \A k \in 1..Len(rxq) : rxq[k].name = name /\ rxq[k].says \in Answers(name)

LEMMA InitInv == Init => IInv
  BY ConstantsOK DEF Init, IInv, TypeOK, Ports

\* A query with the port of the open socket is the last one.
LEMMA LastQuery ==
    ASSUME IInv, NEW q \in sent, q.port = port
    PROVE  q.name = name
  <1>1. q.age \in 0..Lifetime /\ q.port \in Ports
    BY DEF IInv, TypeOK, Queries
  <1>2. sock_any_port \in Ports /\ NumPorts \in Nat /\ Lifetime \in Nat /\ Lifetime < NumPorts
    BY ConstantsOK DEF IInv, TypeOK
  <1>3. PortOfAge(q.age) = PortOfAge(0)
    BY <1>1, ConstantsOK DEF IInv, Ports
  <1>4. q.age = 0
    BY <1>1, <1>2, <1>3 DEF PortOfAge, Ports
  <1> QED
    BY <1>4 DEF IInv

\* Opening a socket makes every query a step older.
LEMMA RunInv == ASSUME IInv, NEW n \in Names, DNS_run(n) PROVE IInv'
  <1>1. sock_any_port \in Ports /\ NumPorts \in Nat /\ Lifetime \in Nat /\ Lifetime < NumPorts
    BY ConstantsOK DEF IInv, TypeOK
  <1>2. sock_any_port' \in Ports /\ PortOfAge(0)' = sock_any_port
    BY <1>1 DEF DNS_run, NextPort, Ports, PortOfAge
  <1>3. ASSUME NEW a \in 0..(Lifetime - 1)
        PROVE  PortOfAge(a + 1)' = PortOfAge(a)
    BY <1>1, <1>3 DEF DNS_run, NextPort, Ports, PortOfAge
  <1>4. ASSUME NEW q \in sent'
        PROVE  q \in Queries /\ q.age # 0 /\ q.port = PortOfAge(q.age)'
    <2>1. PICK p \in sent : p.age < Lifetime /\ q = [p EXCEPT !.age = @ + 1]
      BY <1>4 DEF DNS_run, Older
    <2>2. p \in Queries /\ p.port = PortOfAge(p.age)
      BY DEF IInv, TypeOK
    <2>3. p.age \in 0..(Lifetime - 1)
      BY <1>1, <2>1, <2>2 DEF Queries
    <2>4. q.age = p.age + 1 /\ q.port = p.port /\ q \in Queries
      BY <1>1, <2>1, <2>2, <2>3 DEF Queries
    <2> QED
      BY <1>1, <1>3, <2>2, <2>3, <2>4
  <1>5. TypeOK'
    BY <1>1, <1>2, <1>4, ConstantsOK DEF IInv, TypeOK, DNS_run
  <1> QED
    BY <1>1, <1>2, <1>4, <1>5 DEF IInv, DNS_run

LEMMA SendInv == ASSUME IInv, SendOk PROVE IInv'
  <1> DEFINE q == [port |-> port, name |-> name, age |-> 0]
  <1>1. q \in Queries /\ port # None /\ port = PortOfAge(0)
    BY ConstantsOK DEF IInv, TypeOK, SendOk, Queries, Ports
  <1>2. TypeOK'
    BY <1>1 DEF IInv, TypeOK, SendOk, socketVars, timer
  <1>3. \A p \in sent' : p.port = PortOfAge(p.age)' /\ (p.age = 0 => p.name = name')
    BY <1>1 DEF IInv, SendOk, socketVars, PortOfAge
  <1> QED
    BY <1>2, <1>3 DEF IInv, SendOk, socketVars, PortOfAge, Answers

LEMMA CloseInv == ASSUME IInv, Receive \/ GiveUp PROVE IInv'
  <1>1. /\ rxq' = <<>> /\ port' = None /\ stage' = "idle"
        /\ UNCHANGED <<name, sock_any_port, sent>>
    BY DEF Receive, GiveUp, close
  <1>2. <<>> \in Seq(Received) /\ Len(<<>>) <= RxCap
    BY ConstantsOK
  <1>3. /\ ip_from_dns' \in Ips \cup {None} /\ ret' \in {0, 1, -1}
        /\ dns_1s_tick' \in 0..DNS_WAIT_TIME /\ retry_count' \in 0..MAX_DNS_RETRY
    BY ConstantsOK DEF IInv, TypeOK, Receive, GiveUp, timer
  <1>4. TypeOK'
    BY <1>1, <1>2, <1>3 DEF IInv, TypeOK
  <1> QED
    BY <1>1, <1>4 DEF IInv, PortOfAge

\* Only the last query can be answered, and the answer is one of its name.
LEMMA AnswerInv == ASSUME IInv, Answer PROVE IInv'
  <1>1. PICK q \in sent : \E says \in Answers(q.name) :
             /\ q.port = port /\ Len(rxq) < RxCap
             /\ rxq' = Append(rxq, [name |-> q.name, says |-> says])
    BY DEF Answer
  <1>2. PICK says \in Answers(q.name) :
             /\ q.port = port /\ Len(rxq) < RxCap
             /\ rxq' = Append(rxq, [name |-> q.name, says |-> says])
    BY <1>1
  <1> DEFINE d == [name |-> q.name, says |-> says]
  <1>3. q.name = name /\ q \in Queries /\ q.port \in Ports /\ name \in Names
    BY <1>2, LastQuery DEF IInv, TypeOK, Queries
  <1>4. d \in Received
    BY <1>3, ConstantsOK DEF Answers, Received
  <1>5. rxq \in Seq(Received) /\ RxCap \in Nat
    BY ConstantsOK DEF IInv, TypeOK
  <1>6. rxq' \in Seq(Received) /\ Len(rxq') = Len(rxq) + 1 /\ Len(rxq') <= RxCap
    BY <1>2, <1>4, <1>5
  <1>7. ASSUME NEW k \in 1..Len(rxq')
        PROVE  rxq'[k].name = name /\ rxq'[k].says \in Answers(name)
    BY <1>2, <1>3, <1>4, <1>5, <1>6 DEF IInv
  <1>8. TypeOK'
    BY <1>6 DEF IInv, TypeOK, Answer, timer
  <1> QED
    BY <1>7, <1>8 DEF IInv, Answer, PortOfAge, Answers, timer

LEMMA WaitInv ==
    ASSUME IInv, ArpTimeout \/ Retry \/ DNS_time_handler \/ UNCHANGED vars
    PROVE  IInv'
  <1>1. TypeOK'
    BY ConstantsOK DEF IInv, TypeOK, ArpTimeout, Retry, Expired, DNS_time_handler,
                       vars, socketVars, timer
  <1> QED
    BY <1>1 DEF IInv, ArpTimeout, Retry, DNS_time_handler, vars, socketVars, timer, PortOfAge

LEMMA Invariance == Spec => []IInv
  <1>1. IInv /\ [Next]_vars => IInv'
    BY RunInv, SendInv, CloseInv, AnswerInv, WaitInv DEF Next, Running
  <1> QED
    BY <1>1, InitInv, PTL DEF Spec

\* Types, and the retries stay within their limit, for any limits, ports and buffer.
THEOREM TypeCorrect == Spec => []TypeOK
  <1>1. IInv => TypeOK
    BY DEF IInv
  <1> QED
    BY <1>1, Invariance, PTL

\* If the ports outlast the datagrams, no answer to an earlier call is taken for one
\* to this call, however many calls, losses and repetitions there were.
THEOREM AnswerIsOwn == Spec => AnswerIsForQuery
  <1>1. ASSUME IInv, Receive, Head(rxq).says \in Ips
        PROVE  ret' = 1 /\ ip_from_dns' \in AddrsOf[name]
    <2>1. rxq \in Seq(Received) /\ rxq # <<>> /\ Len(rxq) \in Nat
      BY <1>1 DEF IInv, TypeOK, Receive
    <2>2. Head(rxq) = rxq[1] /\ 1 \in 1..Len(rxq)
      BY <2>1
    <2>3. Head(rxq).says \in AddrsOf[name]
      BY <1>1, <2>2, ConstantsOK DEF IInv, Answers
    <2> QED
      BY <1>1, <2>3, ConstantsOK DEF Receive, Parsed
  <1>2. IInv /\ [Next]_vars
          => [Receive /\ Head(rxq).says \in Ips => ret' = 1 /\ ip_from_dns' \in AddrsOf[name]]_vars
    BY <1>1
  <1> QED
    BY <1>2, Invariance, PTL DEF Spec, AnswerIsForQuery

-------------------------------------------------------------------------------
(* How a call ends.                                                        *)

\* What is left of a call: its stages, the retries, and the ticks of the last.
Left == IF stage = "idle" THEN 0
        ELSE (IF stage = "arp" THEN 2 ELSE 1) + (MAX_DNS_RETRY - retry_count) * (DNS_WAIT_TIME + 1)
                                              + (DNS_WAIT_TIME - dns_1s_tick)

LEMMA RetryTime ==
    ASSUME NEW r \in Nat
    PROVE  /\ r * (DNS_WAIT_TIME + 1) \in Nat
           /\ (r + 1) * (DNS_WAIT_TIME + 1) = r * (DNS_WAIT_TIME + 1) + DNS_WAIT_TIME + 1
  <1>1. DNS_WAIT_TIME + 1 \in Nat
    BY ConstantsOK
  <1>2. \A x, y \in Nat : x * y \in Nat /\ (x + 1) * y = x * y + y
    OBVIOUS
  <1> QED
    BY <1>1, <1>2, ConstantsOK

Measured == Left \in Nat

LEMMA LeftIsNat == TypeOK => Measured
  <1> SUFFICES ASSUME TypeOK PROVE Left \in Nat
    BY DEF Measured
  <1> DEFINE r == MAX_DNS_RETRY - retry_count
  <1>1. r \in Nat /\ DNS_WAIT_TIME - dns_1s_tick \in Nat
    BY ConstantsOK DEF TypeOK
  <1>2. r * (DNS_WAIT_TIME + 1) \in Nat
    BY <1>1, RetryTime
  <1> HIDE DEF r
  <1> QED
    BY <1>1, <1>2 DEF Left, r

RunsDown ==
    /\ stage = "arp" \/ rxq # <<>> \/ Expired \/ dns_1s_tick < DNS_WAIT_TIME
    /\ Left \in Nat /\ Left' \in Nat
    /\ IF Running \/ DNS_time_handler THEN Left' < Left ELSE Left' = Left

\* In a call DNS_run always has a step to take or a tick to wait for, every such step leaves
\* less of it, and nothing leaves more: no datagram, however many come, prolongs it.
THEOREM CallsRunDown == Spec => [][stage # "idle" => RunsDown]_vars
  <1>1. ASSUME TypeOK, Measured, Measured', [Next]_vars PROVE [stage # "idle" => RunsDown]_vars
    <2> SUFFICES ASSUME Next, stage # "idle" PROVE RunsDown
      BY <1>1
    <2> DEFINE r == MAX_DNS_RETRY - retry_count
               w == DNS_WAIT_TIME - dns_1s_tick
               a == IF stage = "arp" THEN 2 ELSE 1
               t == r * (DNS_WAIT_TIME + 1)
    <2>1. /\ r \in Nat /\ w \in Nat /\ a \in {1, 2} /\ DNS_WAIT_TIME \in Nat \ {0}
          /\ stage \in {"arp", "wait"}
      BY <1>1, ConstantsOK DEF TypeOK
    <2>2. t \in Nat
      BY <2>1, RetryTime
    <2>3. Left = a + t + w /\ Left \in Nat /\ Left' \in Nat
      BY <1>1 DEF Left, Measured
    <2>4. stage = "arp" \/ rxq # <<>> \/ Expired \/ dns_1s_tick < DNS_WAIT_TIME
      BY <1>1, ConstantsOK DEF TypeOK, Expired
    <2>5. CASE SendOk \/ ArpTimeout
      <3>1. a = 2 /\ Left' = 1 + t + w
        BY <2>5 DEF SendOk, ArpTimeout, timer, Left
      <3> HIDE DEF a, t, w
      <3>2. Left' < Left
        BY <2>1, <2>2, <2>3, <3>1
      <3> QED
        BY <2>3, <2>4, <2>5, <3>2 DEF RunsDown, Running
    <2>6. CASE Receive \/ GiveUp
      <3>1. Left' = 0
        BY <2>6 DEF Receive, GiveUp, Left
      <3> HIDE DEF a, t, w
      <3>2. Left' < Left
        BY <2>1, <2>2, <2>3, <3>1
      <3> QED
        BY <2>3, <2>4, <2>6, <3>2 DEF RunsDown, Running
    <2>7. CASE Retry
      <3>1. PICK k \in Nat : r = k + 1 /\ MAX_DNS_RETRY - (retry_count + 1) = k
        <4>1. MAX_DNS_RETRY - (retry_count + 1) \in Nat /\ r = MAX_DNS_RETRY - (retry_count + 1) + 1
          BY <1>1, <2>7, ConstantsOK DEF TypeOK, Retry
        <4> QED
          BY <4>1
      <3>2. t = k * (DNS_WAIT_TIME + 1) + DNS_WAIT_TIME + 1 /\ k * (DNS_WAIT_TIME + 1) \in Nat
        BY <3>1, RetryTime
      <3>3. Left' = 1 + k * (DNS_WAIT_TIME + 1) + DNS_WAIT_TIME
        <4>1. stage' = "wait" /\ retry_count' = retry_count + 1 /\ dns_1s_tick' = 0
          BY <2>7 DEF Retry, Expired
        <4>2. DNS_WAIT_TIME - 0 = DNS_WAIT_TIME
          BY <2>1
        <4> QED
          BY <3>1, <4>1, <4>2 DEF Left
      <3> HIDE DEF r, a, t, w
      <3>4. Left' < Left
        <4> DEFINE m == k * (DNS_WAIT_TIME + 1)
        <4>1. m \in Nat /\ t = m + DNS_WAIT_TIME + 1 /\ Left' = 1 + m + DNS_WAIT_TIME
          BY <3>2, <3>3
        <4> HIDE DEF m
        <4> QED
          BY <2>1, <2>3, <4>1
      <3> QED
        BY <2>3, <2>4, <2>7, <3>4 DEF RunsDown, Running
    <2>8. CASE DNS_time_handler
      <3>1. Left' = a + t + (DNS_WAIT_TIME - (dns_1s_tick + 1))
        BY <2>8 DEF DNS_time_handler, Left
      <3>2. DNS_WAIT_TIME - (dns_1s_tick + 1) = w - 1 /\ w - 1 \in Nat
        BY <1>1, <2>8, ConstantsOK DEF TypeOK, DNS_time_handler
      <3> HIDE DEF a, t, w
      <3>3. Left' < Left
        BY <2>1, <2>2, <2>3, <3>1, <3>2
      <3> QED
        BY <2>3, <2>4, <2>8, <3>3 DEF RunsDown
    <2>9. CASE Answer
      <3>1. UNCHANGED <<stage, retry_count, dns_1s_tick>>
        BY <2>9 DEF Answer, timer
      <3>2. Left' = Left
        BY <3>1 DEF Left
      <3>3. stage' # "idle"
        BY <1>1, <2>1, <3>1
      <3>4. ~SendOk /\ ~ArpTimeout
        BY <3>1 DEF SendOk, ArpTimeout
      <3>5. ~Receive /\ ~GiveUp
        BY <3>3 DEF Receive, GiveUp
      <3>6. ~Retry
        BY <1>1, <3>1, ConstantsOK DEF Retry, TypeOK
      <3>7. ~DNS_time_handler
        BY <1>1, <3>1, ConstantsOK DEF DNS_time_handler, TypeOK
      <3> QED
        BY <2>3, <2>4, <3>2, <3>4, <3>5, <3>6, <3>7 DEF RunsDown, Running
    <2> QED
      BY <2>5, <2>6, <2>7, <2>8, <2>9 DEF Next, Running, DNS_run
  <1>2. Spec => [](TypeOK /\ Measured)
    BY TypeCorrect, LeftIsNat, PTL
  <1> QED
    BY <1>1, <1>2, PTL DEF Spec
===============================================================================
