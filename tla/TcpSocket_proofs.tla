--------------------------- MODULE TcpSocket_proofs ----------------------------
(***************************************************************************)
(* Proofs about the TCP socket, for every size of its buffers and          *)
(* pointers and any bounds: the two byte streams are kept, and SENDs are   *)
(* given one by one.                                                       *)
(***************************************************************************)
EXTENDS TcpSocket, Integers, SequenceTheorems, TLAPS

-------------------------------------------------------------------------------
(* Remainders.                                                             *)

LEMMA Modulo ==
    ASSUME NEW a \in Int, NEW b \in Nat, b # 0
    PROVE  a % b \in 0..(b - 1) /\ \E q \in Int : a = b * q + (a % b)
  <1>1. a % b \in 0..(b - 1) /\ a \div b \in Int
    OBVIOUS
  <1>2. a = b * (a \div b) + (a % b)
    OBVIOUS
  <1> QED
    BY <1>1, <1>2

LEMMA ModuloIs ==
    ASSUME NEW a \in Int, NEW b \in Nat, b # 0, NEW q \in Int, NEW r \in 0..(b - 1), a = b * q + r
    PROVE  a % b = r
  OBVIOUS

\* A multiple of the divisor changes nothing.
LEMMA ModuloPlus ==
    ASSUME NEW a \in Int, NEW b \in Nat, b # 0, NEW q \in Int
    PROVE  (a + b * q) % b = a % b
  <1>1. PICK p \in Int : a = b * p + (a % b)
    BY Modulo
  <1>2. a % b \in 0..(b - 1)
    BY Modulo
  <1> DEFINE r == a % b
  <1> HIDE DEF r
  <1>3. a = b * p + r /\ r \in 0..(b - 1)
    BY <1>1, <1>2 DEF r
  <1>4. b * (p + q) = b * p + b * q /\ p + q \in Int /\ b * p \in Int /\ b * q \in Int
    OBVIOUS
  <1>5. a + b * q = b * (p + q) + r /\ a + b * q \in Int
    BY <1>3, <1>4
  <1>6. (a + b * q) % b = r
    BY <1>3, <1>4, <1>5, ModuloIs
  <1> QED
    BY <1>6 DEF r

\* The remainder by a multiple of b has the remainder by b.
LEMMA ModuloTwice ==
    ASSUME NEW a \in Int, NEW b \in Nat, NEW m \in Nat, b # 0, m # 0, m % b = 0
    PROVE  (a % m) % b = a % b
  <1>1. PICK q \in Int : m = b * q + (m % b)
    <2>1. m \in Int
      OBVIOUS
    <2> QED
      BY <2>1, Modulo, Zenon
  <1>2. m = b * q
    BY <1>1
  <1>3. PICK p \in Int : a = m * p + (a % m)
    BY Modulo
  <1>4. a % m \in Int
    BY Modulo
  <1> DEFINE r == a % m
  <1> HIDE DEF r
  <1>5. b * (q * p) = (b * q) * p /\ q * p \in Int /\ (b * q) * p \in Int
    OBVIOUS
  <1>6. a = r + b * (q * p) /\ r \in Int
    BY <1>2, <1>3, <1>4, <1>5 DEF r
  <1>7. a % b = r % b
    BY <1>5, <1>6, ModuloPlus
  <1> QED
    BY <1>7 DEF r

LEMMA Wraps ==
    ASSUME NEW a \in Nat, NEW b \in Nat, b # 0, a < 2 * b
    PROVE  a % b = IF a < b THEN a ELSE a - b
  <1>1. CASE a < b
    <2>1. a = b * 0 + a /\ a \in 0..(b - 1)
      BY <1>1
    <2> QED
      BY <1>1, <2>1, ModuloIs
  <1>2. CASE b <= a
    <2>1. a = b * 1 + (a - b) /\ a - b \in 0..(b - 1)
      BY <1>2
    <2>2. a % b = a - b
      BY <2>1, ModuloIs
    <2> QED
      BY <1>2, <2>2
  <1> QED
    BY <1>1, <1>2

-------------------------------------------------------------------------------
(* The pointers of a buffer: how far one is ahead of the other.            *)

Pointers == 0..(PtrMod - 1)
Slots    == 0..(BufSize - 1)

LEMMA Sizes ==
    /\ BufSize \in Nat /\ BufSize # 0 /\ PtrMod \in Nat /\ PtrMod # 0
    /\ BufSize < PtrMod /\ PtrMod % BufSize = 0
  BY ConstantsOK

LEMMA PlusIs ==
    ASSUME NEW p \in Pointers, NEW n \in 0..BufSize
    PROVE  /\ Plus(p, n) = IF p + n < PtrMod THEN p + n ELSE p + n - PtrMod
           /\ Plus(p, n) \in Pointers
  <1> DEFINE a == p + n
  <1>1. a \in Nat /\ a < 2 * PtrMod
    BY Sizes DEF Pointers
  <1>2. a % PtrMod = IF a < PtrMod THEN a ELSE a - PtrMod
    <2> HIDE DEF a
    <2> QED
      BY <1>1, Sizes, Wraps
  <1> QED
    BY <1>1, <1>2, Sizes DEF Plus, Pointers

LEMMA UsedIs ==
    ASSUME NEW w \in Pointers, NEW r \in Pointers
    PROVE  /\ Used(w, r) = IF w < r THEN w - r + PtrMod ELSE w - r
           /\ Used(w, r) \in Nat
           /\ Used(w, r) = 0 => w = r
           /\ Used(w, w) = 0
  <1>1. ASSUME NEW v \in Pointers
        PROVE  Used(w, v) = IF w < v THEN w - v + PtrMod ELSE w - v
    <2> DEFINE a == w + PtrMod - v
    <2>1. a \in Nat /\ a < 2 * PtrMod
      BY Sizes DEF Pointers
    <2>2. a % PtrMod = IF a < PtrMod THEN a ELSE a - PtrMod
      <3> HIDE DEF a
      <3> QED
        BY <2>1, Sizes, Wraps
    <2> QED
      BY <2>1, <2>2, Sizes DEF Used, Pointers
  <1>2. Used(w, r) = IF w < r THEN w - r + PtrMod ELSE w - r
    BY <1>1
  <1>3. Used(w, w) = 0
    BY <1>1, Sizes DEF Pointers
  <1> QED
    BY <1>2, <1>3, Sizes DEF Pointers

\* The writer goes ahead by n bytes, and the reader catches up by n bytes.
LEMMA Ahead ==
    ASSUME NEW w \in Pointers, NEW r \in Pointers, NEW n \in 0..BufSize
    PROVE  /\ Used(w, r) + n <= BufSize => Used(Plus(w, n), r) = Used(w, r) + n
           /\ n <= Used(w, r) => Used(w, Plus(r, n)) = Used(w, r) - n
  <1>1. /\ Plus(w, n) = IF w + n < PtrMod THEN w + n ELSE w + n - PtrMod
        /\ Plus(r, n) = IF r + n < PtrMod THEN r + n ELSE r + n - PtrMod
        /\ Plus(w, n) \in Pointers /\ Plus(r, n) \in Pointers
    BY PlusIs
  <1> DEFINE wn == Plus(w, n)
             rn == Plus(r, n)
  <1>2. /\ Used(w, r) = IF w < r THEN w - r + PtrMod ELSE w - r
        /\ Used(wn, r) = IF wn < r THEN wn - r + PtrMod ELSE wn - r
        /\ Used(w, rn) = IF w < rn THEN w - rn + PtrMod ELSE w - rn
    BY <1>1, UsedIs
  <1> QED
    BY <1>1, <1>2, Sizes DEF Pointers

-------------------------------------------------------------------------------
(* The rings.                                                              *)

\* n bytes of the connection from pointer p on, the first of them numbered i.
Holds(ring, p, n, i) == \A k \in 0..(n - 1) : ring[(p + k) % BufSize] = Byte(conn, i + k)

LEMMA SlotIn == ASSUME NEW a \in Int PROVE a % BufSize \in Slots
  BY Sizes, Modulo DEF Slots

\* A pointer that was moved stands at the slot it would have without its wrapping.
LEMMA SlotOfPlus ==
    ASSUME NEW p \in Pointers, NEW j \in 0..BufSize, NEW k \in Nat
    PROVE  (Plus(p, j) + k) % BufSize = (p + (j + k)) % BufSize
  <1>1. Plus(p, j) = p + j \/ Plus(p, j) = p + j - PtrMod
    BY PlusIs
  <1>2. PICK q \in Int : PtrMod = BufSize * q
    <2>1. PtrMod \in Int
      BY Sizes
    <2>2. PICK q \in Int : PtrMod = BufSize * q + (PtrMod % BufSize)
      BY <2>1, Sizes, Modulo, Zenon
    <2> QED
      BY <2>2, Sizes
  <1> DEFINE a == p + (j + k)
             m == -q
  <1>3. a \in Int /\ m \in Int /\ (Plus(p, j) + k = a \/ Plus(p, j) + k = a - PtrMod)
    BY <1>1, Sizes DEF Pointers
  <1>4. BufSize * m = -PtrMod /\ BufSize * m \in Int
    BY <1>2, Sizes
  <1> HIDE DEF a, m
  <1>5. Plus(p, j) + k = a \/ Plus(p, j) + k = a + BufSize * m
    BY <1>3, <1>4, Sizes
  <1>6. (a + BufSize * m) % BufSize = a % BufSize
    BY <1>3, Sizes, ModuloPlus
  <1> QED
    BY <1>5, <1>6 DEF a

\* Two bytes less than a buffer apart are in different slots.
LEMMA SlotsDiffer ==
    ASSUME NEW a \in Int, NEW d \in 1..(BufSize - 1)
    PROVE  (a + d) % BufSize # a % BufSize
  <1> DEFINE s == a % BufSize
  <1>1. s \in Slots
    BY SlotIn
  <1>2. PICK q \in Int : a = BufSize * q + s
    BY Sizes, Modulo
  <1> HIDE DEF s
  <1> DEFINE b == s + d
  <1>3. b \in Nat /\ b < 2 * BufSize /\ b > s /\ b - BufSize < s
    BY <1>1, Sizes DEF Slots
  <1>4. a + d = b + BufSize * q
    BY <1>1, <1>2, Sizes DEF Slots
  <1> HIDE DEF b
  <1>5. (b + BufSize * q) % BufSize = b % BufSize
    <2>1. b \in Int /\ BufSize \in Nat /\ BufSize # 0
      BY <1>3, Sizes
    <2> QED
      BY <2>1, ModuloPlus
  <1>6. b % BufSize = IF b < BufSize THEN b ELSE b - BufSize
    BY <1>3, Sizes, Wraps
  <1>7. b % BufSize # s
    BY <1>1, <1>3, <1>6, Sizes DEF Slots
  <1> QED
    BY <1>4, <1>5, <1>7 DEF s

\* What is written is there.
LEMMA PutHolds ==
    ASSUME NEW ring, DOMAIN ring = Slots, NEW p \in Pointers, NEW n \in 0..BufSize, NEW i \in Nat
    PROVE  /\ DOMAIN Put(ring, p, n, i) = Slots
           /\ Holds(Put(ring, p, n, i), p, n, i)
  <1> SUFFICES ASSUME NEW k \in 0..(n - 1)
               PROVE  Put(ring, p, n, i)[(p + k) % BufSize] = Byte(conn, i + k)
    BY DEF Holds, Put
  <1> DEFINE s == (p + k) % BufSize
             t == p % BufSize
             d == (s + BufSize - t) % BufSize
  <1>1. p \in Int /\ p + k \in Int
    BY DEF Pointers
  <1>2. s \in Slots /\ t \in Slots
    BY <1>1, SlotIn
  <1>3. PICK q \in Int : p + k = BufSize * q + s
    <2> DEFINE a == p + k
    <2>1. a \in Int
      BY <1>1
    <2> HIDE DEF a
    <2>2. \E q \in Int : a = BufSize * q + (a % BufSize)
      BY <2>1, Sizes, Modulo
    <2> QED
      BY <2>2 DEF a
  <1>4. PICK r \in Int : p = BufSize * r + t
    BY <1>1, Sizes, Modulo
  <1>5. d = k
    <2> HIDE DEF s, t
    <2> DEFINE a == s + BufSize - t
               m == 1 + r - q
    <2>1. a \in Int /\ m \in Int /\ k \in 0..(BufSize - 1)
      BY <1>2, Sizes DEF Slots
    <2>2. BufSize * m = BufSize + BufSize * r - BufSize * q
      BY Sizes
    <2>3. a = BufSize * m + k
      BY <1>2, <1>3, <1>4, <2>2, Sizes DEF Slots, Pointers
    <2> HIDE DEF a, m
    <2>4. a % BufSize = k
      BY <2>1, <2>3, Sizes, ModuloIs
    <2> QED
      BY <2>4 DEF a
  <1>6. Put(ring, p, n, i)[s] = IF d < n THEN Byte(conn, i + d) ELSE ring[s]
    <2> HIDE DEF s
    <2> QED
      BY <1>2 DEF Put
  <1> HIDE DEF s, d
  <1> QED
    BY <1>5, <1>6 DEF s

\* One byte is written and no other is touched.
LEMMA PutOne ==
    ASSUME NEW ring, DOMAIN ring = Slots, NEW p \in Pointers, NEW i \in Nat, NEW s \in Slots
    PROVE  Put(ring, p, 1, i)[s] = IF s = p % BufSize THEN Byte(conn, i) ELSE ring[s]
  <1> DEFINE t == p % BufSize
             a == s + BufSize - t
  <1>1. t \in Slots
    BY SlotIn DEF Pointers
  <1> HIDE DEF t
  <1>2. a \in Nat /\ a < 2 * BufSize /\ a # 0 /\ (a = BufSize <=> s = t)
    BY <1>1, Sizes DEF Slots
  <1>3. Put(ring, p, 1, i)[s] = IF a % BufSize < 1 THEN Byte(conn, i + (a % BufSize)) ELSE ring[s]
    BY DEF Put, t
  <1> HIDE DEF a
  <1>4. a % BufSize = IF a < BufSize THEN a ELSE a - BufSize
    BY <1>2, Sizes, Wraps
  <1>5. CASE s = t
    BY <1>2, <1>3, <1>4, <1>5, Sizes DEF t
  <1>6. CASE s # t
    BY <1>2, <1>3, <1>4, <1>6, Sizes DEF t
  <1> QED
    BY <1>5, <1>6

\* The writer's pointer is as far ahead as there are bytes.
LEMMA PlusUsed ==
    ASSUME NEW w \in Pointers, NEW r \in Pointers, Used(w, r) <= BufSize
    PROVE  w = Plus(r, Used(w, r))
  <1> DEFINE n == Used(w, r)
  <1>1. n = IF w < r THEN w - r + PtrMod ELSE w - r
    BY UsedIs
  <1>2. n \in 0..BufSize
    BY UsedIs, Sizes
  <1> HIDE DEF n
  <1>3. Plus(r, n) = IF r + n < PtrMod THEN r + n ELSE r + n - PtrMod
    BY <1>2, PlusIs
  <1>4. Plus(r, n) = w
    BY <1>1, <1>2, <1>3, Sizes DEF Pointers
  <1> QED
    BY <1>4 DEF n

LEMMA SlotOfPointer ==
    ASSUME NEW p \in Pointers, NEW j \in 0..BufSize
    PROVE  Plus(p, j) % BufSize = (p + j) % BufSize
  <1> DEFINE a == Plus(p, j)
  <1>1. a \in Int /\ a + 0 = a /\ p + (j + 0) = p + j
    BY PlusIs, Sizes DEF Pointers
  <1>2. (a + 0) % BufSize = (p + (j + 0)) % BufSize
    BY SlotOfPlus
  <1> QED
    BY <1>1, <1>2

\* The reader takes j bytes away.
LEMMA HoldsLess ==
    ASSUME NEW ring, NEW p \in Pointers, NEW n \in 0..BufSize, NEW i \in Nat, Holds(ring, p, n, i),
           NEW j \in 0..n
    PROVE  Holds(ring, Plus(p, j), n - j, i + j)
  <1> SUFFICES ASSUME NEW k \in 0..(n - j - 1)
               PROVE  ring[(Plus(p, j) + k) % BufSize] = Byte(conn, (i + j) + k)
    BY DEF Holds
  <1>1. j \in 0..BufSize /\ k \in Nat /\ j + k \in 0..(n - 1)
    BY Sizes
  <1>2. ring[(p + (j + k)) % BufSize] = Byte(conn, i + (j + k))
    BY <1>1 DEF Holds
  <1>3. i + (j + k) = (i + j) + k
    OBVIOUS
  <1> QED
    BY <1>1, <1>2, <1>3, SlotOfPlus

\* The writer adds a byte.
LEMMA HoldsMore ==
    ASSUME NEW ring, DOMAIN ring = Slots, NEW p \in Pointers, NEW n \in 0..(BufSize - 1), NEW i \in Nat,
           Holds(ring, p, n, i)
    PROVE  Holds(Put(ring, Plus(p, n), 1, i + n), p, n + 1, i)
  <1> DEFINE w == Plus(p, n)
  <1>1. n \in 0..BufSize /\ w \in Pointers /\ i + n \in Nat
    BY Sizes, PlusIs
  <1>2. w % BufSize = (p + n) % BufSize
    BY <1>1, SlotOfPointer
  <1> HIDE DEF w
  <1> SUFFICES ASSUME NEW k \in 0..n
               PROVE  Put(ring, w, 1, i + n)[(p + k) % BufSize] = Byte(conn, i + k)
    BY Sizes DEF Holds, w
  <1> DEFINE t == (p + k) % BufSize
  <1>3. t \in Slots
    <2>1. p + k \in Int
      BY DEF Pointers
    <2> QED
      BY <2>1, SlotIn
  <1>4. CASE k = n
    <2>1. t = w % BufSize
      BY <1>2, <1>4
    <2> HIDE DEF t
    <2> QED
      BY <1>1, <1>3, <1>4, <2>1, PutOne DEF t
  <1>5. CASE k < n
    <2> DEFINE a == p + k
               d == n - k
    <2>1. a \in Int /\ d \in 1..(BufSize - 1) /\ a + d = p + n
      BY <1>5, Sizes DEF Pointers
    <2> HIDE DEF a, d
    <2>2. (a + d) % BufSize # a % BufSize
      BY <2>1, SlotsDiffer
    <2>3. t # w % BufSize
      BY <1>2, <2>1, <2>2 DEF a
    <2>4. ring[t] = Byte(conn, i + k)
      BY <1>5 DEF Holds
    <2> HIDE DEF t
    <2> QED
      BY <1>1, <1>3, <2>3, <2>4, PutOne DEF t
  <1> QED
    BY <1>4, <1>5

-------------------------------------------------------------------------------
(* The streams.                                                            *)

\* The sequence has the first bytes of the connection, and not more than n.
Exact(s, n) ==
    s \in Seq(Bytes) /\ Len(s) <= n /\ \A k \in 1..Len(s) : s[k] = Byte(conn, k)

LEMMA ExactPrefix ==
    ASSUME NEW s, NEW n \in Nat, Exact(s, n)
    PROVE  IsPrefix(s, Stream(n))
  <1>1. Len(s) \in Nat /\ Len(s) <= n /\ Len(Stream(n)) = n
    BY DEF Exact, Stream
  <1>2. Stream(n) \in Seq({Byte(conn, k) : k \in 1..n})
    BY DEF Stream
  <1>3. \A k \in 1..Len(s) : s[k] = Stream(n)[k]
    BY <1>1 DEF Exact, Stream
  <1>4. SubSeq(s, 1, Len(s)) = [k \in 1..Len(s) |-> s[k]]
    BY DEF Exact
  <1>5. SubSeq(Stream(n), 1, Len(s)) = [k \in 1..Len(s) |-> Stream(n)[k]]
    BY <1>1, <1>2
  <1> QED
    BY <1>1, <1>3, <1>4, <1>5 DEF IsPrefix

LEMMA ExactMore ==
    ASSUME NEW s, NEW t \in Seq(Bytes), NEW n \in Nat, Exact(s, n), Len(s) + Len(t) <= n,
           \A k \in 1..Len(t) : t[k] = Byte(conn, Len(s) + k)
    PROVE  Exact(s \o t, n) /\ Len(s \o t) = Len(s) + Len(t)
  <1>1. s \in Seq(Bytes) /\ s \o t \in Seq(Bytes) /\ Len(s \o t) = Len(s) + Len(t)
    BY DEF Exact
  <1>2. ASSUME NEW k \in 1..Len(s \o t) PROVE (s \o t)[k] = Byte(conn, k)
    <2>1. CASE k <= Len(s)
      BY <1>1, <2>1 DEF Exact
    <2>2. CASE k > Len(s)
      <3>1. k - Len(s) \in 1..Len(t) /\ Len(s) + (k - Len(s)) = k
        BY <1>1, <2>2
      <3>2. (s \o t)[k] = t[k - Len(s)]
        BY <1>1, <2>2
      <3> QED
        BY <3>1, <3>2
    <2> QED
      BY <1>1, <2>1, <2>2
  <1> QED
    BY <1>1, <1>2 DEF Exact

LEMMA ByteIn ==
    ASSUME NEW c \in 1..MaxConns, NEW k \in 1..MaxBytes
    PROVE  Byte(c, k) \in Bytes
  <1>1. PICK d \in Nat : MaxConns = c + d
    <2>1. MaxConns - c \in Nat /\ MaxConns = c + (MaxConns - c)
      BY ConstantsOK
    <2> QED
      BY <2>1
  <1>2. /\ MaxConns * MaxBytes = (c - 1) * MaxBytes + MaxBytes + d * MaxBytes
        /\ (c - 1) * MaxBytes \in Nat /\ d * MaxBytes \in Nat
    BY <1>1, ConstantsOK
  <1> QED
    BY <1>2, ConstantsOK DEF Byte, Bytes

-------------------------------------------------------------------------------
(* The invariant: what the chip has to send, what it has received, and how *)
(* the call under way and is_sending stand to them.                        *)

Functions == {"none", "connect", "disconnect", "send", "recv"}
Stages    == {"none", "wait", "pending", "space", "write", "count", "status"}
Calling   == [fn : Functions, stage : Stages, len : 0..BufSize, size : 0..BufSize]

\* A socket that was opened and may become connected.
Fresh == {"INIT", "SYNSENT"}

TxInv ==
    /\ tx \in [Slots -> Bytes] /\ tx_wr \in Pointers /\ tx_rd \in Pointers
    /\ Used(tx_wr, tx_rd) <= BufSize
    /\ accepted \in 0..MaxBytes
    /\ Exact(peerGot, accepted)
    /\ Len(peerGot) + Used(tx_wr, tx_rd) = accepted
    /\ Holds(tx, tx_rd, Used(tx_wr, tx_rd), Len(peerGot) + 1)

RxInv ==
    /\ rx \in [Slots -> Bytes] /\ rx_wr \in Pointers /\ rx_rd \in Pointers
    /\ RX_RSR <= BufSize
    /\ peerSent \in 0..MaxBytes
    /\ Exact(callerGot, peerSent)
    /\ Len(callerGot) + RX_RSR = peerSent
    /\ Holds(rx, rx_rd, RX_RSR, Len(callerGot) + 1)

Types == /\ sr \in Status /\ ir \subseteq {"SENDOK", "TIMEOUT"}
         /\ busy \in BOOLEAN /\ io_nonblock \in BOOLEAN /\ is_sending \in BOOLEAN
         /\ call \in Calling /\ conn \in 0..MaxConns

\* SendingKnown, from the opening of the socket on, and what keeps it true.
SendInv ==
    /\ sr \in Fresh => ~is_sending
    /\ sr \in Fresh \cup Open /\ ~is_sending => ~busy /\ tx_wr = tx_rd /\ "SENDOK" \notin ir
    /\ sr \in Open /\ "SENDOK" \in ir => ~busy /\ tx_wr = tx_rd
    /\ At("send", "space") => ~is_sending
    /\ At("send", "write") => ~is_sending /\ ~busy /\ tx_wr = tx_rd

LinkInv ==
    /\ sr # "CLOSED" => conn > 0
    /\ sr \in Fresh => accepted = 0 /\ peerSent = 0 /\ peerGot = <<>> /\ callerGot = <<>> /\ RX_RSR = 0
    /\ call.fn = "send" => conn > 0 /\ accepted + call.len <= MaxBytes /\ sr \notin Fresh
    /\ At("recv", "status") => call.size <= RX_RSR

IInv == Types /\ TxInv /\ RxInv /\ SendInv /\ LinkInv

LEMMA IdleCall == Idle \in Calling /\ Idle.fn = "none" /\ Idle.stage = "none"
  BY Sizes DEF Idle, Calling, Functions, Stages

LEMMA NextStage ==
    ASSUME NEW c \in Calling, NEW s \in Stages
    PROVE  /\ [c EXCEPT !.stage = s] \in Calling
           /\ [c EXCEPT !.stage = s].fn = c.fn /\ [c EXCEPT !.stage = s].stage = s
           /\ [c EXCEPT !.stage = s].len = c.len
  BY DEF Calling

LEMMA TxSame ==
    ASSUME TxInv, UNCHANGED <<tx, tx_wr, tx_rd, conn, accepted, peerGot>>
    PROVE  TxInv'
  BY DEF TxInv, Exact, Holds, Byte, Used

LEMMA RxSame ==
    ASSUME RxInv, UNCHANGED <<rx, rx_wr, rx_rd, conn, peerSent, callerGot>>
    PROVE  RxInv' /\ RX_RSR' = RX_RSR
  BY DEF RxInv, Exact, Holds, Byte, RX_RSR, Used

\* Nothing under way: both streams as a new connection has them.
LEMMA TxEmpty ==
    ASSUME tx' \in [Slots -> Bytes], tx_wr' \in Pointers, tx_rd' = tx_wr',
           accepted' = 0, peerGot' = <<>>
    PROVE  TxInv'
  <1>1. Used(tx_wr, tx_rd)' = 0 /\ Len(peerGot') = 0
    BY UsedIs DEF Used
  <1>2. Exact(peerGot, accepted)'
    BY <1>1 DEF Exact, Bytes
  <1>3. Holds(tx, tx_rd, Used(tx_wr, tx_rd), Len(peerGot) + 1)'
    BY <1>1 DEF Holds
  <1> QED
    BY <1>1, <1>2, <1>3, Sizes, ConstantsOK DEF TxInv

LEMMA RxEmpty ==
    ASSUME rx' \in [Slots -> Bytes], rx_wr' \in Pointers, rx_rd' = rx_wr',
           peerSent' = 0, callerGot' = <<>>
    PROVE  RxInv' /\ RX_RSR' = 0
  <1>1. RX_RSR' = 0 /\ Len(callerGot') = 0
    BY UsedIs DEF Used, RX_RSR
  <1>2. Exact(callerGot, peerSent)'
    BY <1>1 DEF Exact, Bytes
  <1>3. Holds(rx, rx_rd, RX_RSR, Len(callerGot) + 1)'
    BY <1>1 DEF Holds
  <1> QED
    BY <1>1, <1>2, <1>3, Sizes, ConstantsOK DEF RxInv

LEMMA InitInv == Init => IInv
  <1> SUFFICES ASSUME Init PROVE IInv
    OBVIOUS
  <1>1. 0 \in Bytes /\ 0 \in Pointers
    BY Sizes, ConstantsOK DEF Bytes, Pointers
  <1>2. tx \in [Slots -> Bytes] /\ rx \in [Slots -> Bytes]
    BY <1>1 DEF Init, Slots
  <1>3. Used(0, 0) = 0
    BY <1>1, UsedIs
  <1>4. TxInv
    BY <1>1, <1>2, <1>3, Sizes, ConstantsOK DEF Init, TxInv, Exact, Holds
  <1>5. RxInv
    BY <1>1, <1>2, <1>3, Sizes, ConstantsOK DEF Init, RxInv, Exact, Holds, RX_RSR
  <1>6. Types
    BY IdleCall, ConstantsOK DEF Init, Types, Status
  <1>7. SendInv /\ LinkInv
    BY IdleCall DEF Init, SendInv, LinkInv, At, Fresh, Open
  <1> QED
    BY <1>4, <1>5, <1>6, <1>7 DEF IInv

-------------------------------------------------------------------------------
(* The calls.                                                              *)

\* Both streams stay as they are in a step that touches neither ring nor counters.
Still == UNCHANGED <<tx, tx_wr, tx_rd, rxVars, conn, ends>>

LEMMA StillStreams == ASSUME IInv, Still PROVE TxInv' /\ RxInv' /\ RX_RSR' = RX_RSR
  BY TxSame, RxSame DEF IInv, Still, rxVars, ends

LEMMA ClosedInv ==
    ASSUME IInv, Closed, call' = Idle \/ (call = Idle /\ call' = call)
    PROVE  IInv'
  <1>1. Still /\ call' = Idle /\ sr' = "CLOSED" /\ ir' = {} /\ ~busy' /\ ~is_sending'
    BY DEF Closed, Still, Cleared
  <1>2. TxInv' /\ RxInv'
    BY <1>1, StillStreams
  <1>3. Types'
    BY <1>1, IdleCall DEF IInv, Types, Closed, Still, Status
  <1>4. SendInv' /\ LinkInv'
    BY <1>1, IdleCall DEF SendInv, LinkInv, At, Fresh, Open
  <1> QED
    BY <1>2, <1>3, <1>4 DEF IInv

LEMMA SocketInv == ASSUME IInv, NEW nonblock \in BOOLEAN, socket(nonblock) PROVE IInv'
  <1>1. TxInv'
    BY TxEmpty DEF IInv, TxInv, socket
  <1>2. RxInv' /\ RX_RSR' = 0
    BY RxEmpty DEF IInv, RxInv, socket
  <1>3. /\ call' = Idle /\ sr' = "INIT" /\ ir' = {} /\ ~busy' /\ ~is_sending'
        /\ conn' \in 0..MaxConns /\ conn' > 0
    BY ConstantsOK DEF socket, Cleared, IInv, Types
  <1>4. Types'
    <2>1. busy' \in BOOLEAN /\ io_nonblock' \in BOOLEAN /\ is_sending' \in BOOLEAN
      BY DEF socket
    <2> QED
      BY <1>3, <2>1, IdleCall DEF Types, Status
  <1>5. SendInv'
    BY <1>3, IdleCall DEF SendInv, socket, At, Fresh, Open
  <1>6. LinkInv'
    BY <1>2, <1>3, IdleCall DEF LinkInv, socket, At, Fresh
  <1> QED
    BY <1>1, <1>2, <1>4, <1>5, <1>6 DEF IInv

LEMMA ConnectInv == ASSUME IInv, connect PROVE IInv'
  <1>1. Still /\ UNCHANGED <<ir, busy, io_nonblock, is_sending>> /\ sr = "INIT" /\ sr' = "SYNSENT"
    BY DEF connect, Still, txVars
  <1>2. TxInv' /\ RxInv' /\ RX_RSR' = RX_RSR
    BY <1>1, StillStreams
  <1>3. call' \in Calling /\ call'.fn \in {"none", "connect"}
    BY IdleCall, Sizes DEF connect, Call, Idle, Calling, Functions, Stages
  <1>4. Types'
    BY <1>1, <1>3 DEF IInv, Types, Still, Status
  <1>5. SendInv'
    BY <1>1, <1>3 DEF IInv, SendInv, Still, At, Fresh, Open
  <1>6. LinkInv'
    BY <1>1, <1>2, <1>3 DEF IInv, LinkInv, Still, ends, At, Fresh
  <1> QED
    BY <1>2, <1>4, <1>5, <1>6 DEF IInv

LEMMA DisconnectInv == ASSUME IInv, disconnect PROVE IInv'
  <1>1. Still /\ UNCHANGED <<ir, busy, io_nonblock>> /\ ~is_sending' /\ sr # "CLOSED"
    BY DEF disconnect, Still, txVars
  <1>2. TxInv' /\ RxInv' /\ RX_RSR' = RX_RSR
    BY <1>1, StillStreams
  <1>3. call' \in Calling /\ call'.fn \in {"none", "disconnect"}
    BY IdleCall, Sizes DEF disconnect, Call, Idle, Calling, Functions, Stages
  <1>4. sr' \in Status \ (Fresh \cup Open)
    BY DEF disconnect, AfterDiscon, IInv, Types, Status, Fresh, Open
  <1>5. Types'
    <2>1. is_sending' \in BOOLEAN
      BY DEF disconnect
    <2> QED
      BY <1>1, <1>3, <1>4, <2>1 DEF IInv, Types, Still
  <1>6. SendInv' /\ LinkInv'
    BY <1>1, <1>2, <1>3, <1>4 DEF IInv, SendInv, LinkInv, Still, At
  <1> QED
    BY <1>2, <1>5, <1>6 DEF IInv

LEMMA SendCallInv == ASSUME IInv, NEW n \in 1..MaxLen, send(n) PROVE IInv'
  <1>1. Still /\ UNCHANGED <<sr, ir, busy, io_nonblock, is_sending>> /\ sr \in Open
    BY DEF send, Still, txVars
  <1>2. TxInv' /\ RxInv' /\ RX_RSR' = RX_RSR
    BY <1>1, StillStreams
  <1>3. Least(n, BufSize) \in 0..BufSize
    BY Sizes, ConstantsOK DEF Least
  <1>4. /\ call' \in Calling /\ call'.fn = "send" /\ call'.len = Least(n, BufSize)
        /\ call'.stage = IF is_sending THEN "pending" ELSE "space"
    BY <1>3, Sizes DEF send, Call, Calling, Functions, Stages
  <1>5. accepted' + call'.len <= MaxBytes
    BY <1>1, <1>4 DEF send, Still, ends
  <1>6. Types'
    BY <1>1, <1>4 DEF IInv, Types, Still
  <1>7. SendInv'
    BY <1>1, <1>4 DEF IInv, SendInv, Still, At, Open, Fresh
  <1>8. LinkInv'
    BY <1>1, <1>2, <1>4, <1>5 DEF IInv, LinkInv, Still, ends, At, Open, Fresh
  <1> QED
    BY <1>2, <1>6, <1>7, <1>8 DEF IInv

LEMMA RecvCallInv == ASSUME IInv, NEW n \in 1..MaxLen, recv(n) PROVE IInv'
  <1>1. Still /\ UNCHANGED <<sr, ir, busy, io_nonblock, is_sending>>
    BY DEF recv, Still, txVars
  <1>2. TxInv' /\ RxInv' /\ RX_RSR' = RX_RSR
    BY <1>1, StillStreams
  <1>3. Least(n, BufSize) \in 0..BufSize
    BY Sizes, ConstantsOK DEF Least
  <1>4. call' \in Calling /\ call'.fn = "recv" /\ call'.stage = "count"
    BY <1>3, Sizes DEF recv, Call, Calling, Functions, Stages
  <1>5. Types'
    BY <1>1, <1>4 DEF IInv, Types, Still
  <1>6. SendInv'
    BY <1>1, <1>4 DEF IInv, SendInv, Still, At
  <1>7. LinkInv'
    BY <1>1, <1>2, <1>4 DEF IInv, LinkInv, Still, ends, At
  <1> QED
    BY <1>2, <1>5, <1>6, <1>7 DEF IInv

LEMMA CallsInv == ASSUME IInv, Calls PROVE IInv'
  <1>1. close => IInv'
    BY ClosedInv DEF close
  <1> QED
    BY <1>1, SocketInv, ConnectInv, DisconnectInv, SendCallInv, RecvCallInv DEF Calls

-------------------------------------------------------------------------------
(* The steps of a call under way.                                          *)

\* A step that ends the call and leaves the streams and is_sending alone.
LEMMA ReturnInv ==
    ASSUME IInv, Still, Return, ir' \subseteq ir, UNCHANGED <<sr, busy, io_nonblock, is_sending>>
    PROVE  IInv'
  <1>1. TxInv' /\ RxInv' /\ RX_RSR' = RX_RSR
    BY StillStreams
  <1>2. Types'
    BY IdleCall DEF IInv, Types, Still, Return
  <1>3. SendInv' /\ LinkInv'
    BY <1>1, IdleCall DEF IInv, SendInv, LinkInv, Still, ends, Return, At
  <1> QED
    BY <1>1, <1>2, <1>3 DEF IInv

LEMMA SendPendingInv == ASSUME IInv, SendPending PROVE IInv'
  <1>1. /\ Still /\ UNCHANGED <<sr, busy, io_nonblock>> /\ ~is_sending'
        /\ call.fn = "send" /\ "SENDOK" \in ir /\ ir' = ir \ {"SENDOK"}
    BY DEF SendPending, Still, txVars, At
  <1>2. TxInv' /\ RxInv' /\ RX_RSR' = RX_RSR
    BY <1>1, StillStreams
  <1>3. /\ call' \in Calling /\ call'.fn = "send" /\ call'.stage = "space"
        /\ call'.len = call.len
    <2>1. call \in Calling /\ "space" \in Stages
      BY DEF IInv, Types, Stages
    <2> QED
      BY <1>1, <2>1, NextStage DEF SendPending, Goto
  <1>4. Types'
    <2>1. is_sending' \in BOOLEAN
      BY DEF SendPending
    <2> QED
      BY <1>1, <1>3, <2>1 DEF IInv, Types, Still
  <1>5. SendInv'
    BY <1>1, <1>3 DEF IInv, SendInv, Still, At, Fresh, Open
  <1>6. LinkInv'
    BY <1>1, <1>2, <1>3 DEF IInv, LinkInv, Still, ends, At
  <1> QED
    BY <1>2, <1>4, <1>5, <1>6 DEF IInv

LEMMA SendSpaceInv == ASSUME IInv, SendSpace PROVE IInv'
  <1>1. /\ Still /\ UNCHANGED <<sr, ir, busy, io_nonblock, is_sending>>
        /\ At("send", "space") /\ sr \in Open
    BY DEF SendSpace, Still, txVars
  <1>2. TxInv' /\ RxInv' /\ RX_RSR' = RX_RSR
    BY <1>1, StillStreams
  <1>3. /\ call' \in Calling /\ call'.fn = "send" /\ call'.stage = "write"
        /\ call'.len = call.len
    <2>1. call \in Calling /\ "write" \in Stages
      BY DEF IInv, Types, Stages
    <2> QED
      BY <1>1, <2>1, NextStage DEF SendSpace, Goto, At
  <1>4. Types'
    BY <1>1, <1>3 DEF IInv, Types, Still
  <1>5. SendInv'
    BY <1>1, <1>3 DEF IInv, SendInv, Still, At
  <1>6. LinkInv'
    BY <1>1, <1>2, <1>3 DEF IInv, LinkInv, Still, ends, At
  <1> QED
    BY <1>2, <1>4, <1>5, <1>6 DEF IInv

\* The buffer is empty when send writes: all that is to be sent then is the new bytes.
LEMMA SendWriteInv == ASSUME IInv, SendWrite PROVE IInv'
  <1> DEFINE n == call.len
  <1>1. /\ call \in Calling /\ call.fn = "send" /\ call.stage = "write"
        /\ n \in 0..BufSize /\ conn \in 1..MaxConns
        /\ ~busy /\ tx_wr = tx_rd /\ accepted + n <= MaxBytes
    BY DEF IInv, Types, SendInv, LinkInv, SendWrite, Write, At, Calling
  <1>2. /\ tx' = Put(tx, tx_wr, n, accepted + 1) /\ tx_wr' = Plus(tx_wr, n) /\ tx_rd' = tx_rd
        /\ accepted' = accepted + n /\ call' = Idle /\ is_sending'
        /\ UNCHANGED <<sr, ir, rxVars, io_nonblock, conn, peerGot, peerSent, callerGot>>
    BY DEF SendWrite, Write, Return
  <1>3. /\ tx \in [Slots -> Bytes] /\ tx_wr \in Pointers /\ accepted \in 0..MaxBytes
        /\ Exact(peerGot, accepted) /\ Len(peerGot) = accepted /\ Len(peerGot) \in Nat
    <2>1. Used(tx_wr, tx_rd) = 0
      BY <1>1, UsedIs DEF IInv, TxInv
    <2> QED
      BY <2>1 DEF IInv, TxInv, Exact
  <1> HIDE DEF n
  <1>4. tx_wr' \in Pointers /\ Used(tx_wr', tx_rd') = n
    <2>1. tx_rd \in Pointers /\ Used(tx_wr, tx_rd) = 0
      BY <1>1, <1>3, UsedIs
    <2>2. n \in 0..BufSize /\ Used(tx_wr, tx_rd) + n = n /\ n <= BufSize
      BY <1>1, <2>1, Sizes DEF n
    <2>3. Used(Plus(tx_wr, n), tx_rd) = n
      BY <1>3, <2>1, <2>2, Ahead
    <2> QED
      BY <1>2, <1>3, <2>2, <2>3, PlusIs
  <1>5. tx' \in [Slots -> Bytes]
    <2> SUFFICES ASSUME NEW k \in Slots PROVE tx'[k] \in Bytes
      BY <1>2, <1>3 DEF Put
    <2> DEFINE d == (k + BufSize - (tx_wr % BufSize)) % BufSize
    <2>1. d \in Slots
      <3> DEFINE a == k + BufSize - (tx_wr % BufSize)
      <3>1. tx_wr % BufSize \in Slots
        BY <1>3, SlotIn DEF Pointers
      <3>2. a \in Int
        BY <3>1, Sizes DEF Slots
      <3> HIDE DEF a
      <3>3. a % BufSize \in Slots
        BY <3>2, SlotIn
      <3> QED
        BY <3>3 DEF a
    <2>2. tx'[k] = IF d < n THEN Byte(conn, (accepted + 1) + d) ELSE tx[k]
      BY <1>2, <1>3 DEF Put
    <2> HIDE DEF d
    <2>3. d < n => (accepted + 1) + d \in 1..MaxBytes
      BY <1>1, <1>3, <2>1, ConstantsOK DEF Slots, n
    <2> QED
      BY <1>1, <1>3, <2>2, <2>3, ByteIn
  <1>6. Holds(tx', tx_wr, n, accepted + 1)
    <2>1. DOMAIN tx = Slots /\ accepted + 1 \in Nat
      BY <1>3, ConstantsOK
    <2> QED
      BY <1>1, <1>2, <1>3, <2>1, PutHolds DEF n
  <1>7. TxInv'
    <2>1. Holds(tx, tx_rd, Used(tx_wr, tx_rd), Len(peerGot) + 1)'
      BY <1>1, <1>2, <1>3, <1>4, <1>6 DEF Holds, Byte
    <2>2. Exact(peerGot, accepted)'
      BY <1>1, <1>2, <1>3, ConstantsOK DEF Exact, Byte, n
    <2>3. accepted' \in 0..MaxBytes /\ n <= BufSize
      BY <1>1, <1>2, <1>3, ConstantsOK DEF n
    <2> QED
      BY <1>1, <1>2, <1>3, <1>4, <1>5, <2>1, <2>2, <2>3 DEF TxInv
  <1>8. RxInv' /\ RX_RSR' = RX_RSR
    BY <1>2, RxSame DEF IInv, rxVars
  <1>9. Types'
    <2>1. busy' \in BOOLEAN /\ is_sending' \in BOOLEAN
      BY DEF SendWrite, Write
    <2> QED
      BY <1>2, <2>1, IdleCall DEF IInv, Types
  <1>10. SendInv' /\ LinkInv'
    BY <1>1, <1>2, <1>8, IdleCall DEF IInv, SendInv, LinkInv, At, Fresh, Open
  <1> QED
    BY <1>7, <1>8, <1>9, <1>10 DEF IInv

LEMMA RecvCountInv == ASSUME IInv, RecvCount PROVE IInv'
  <1>1. /\ Still /\ UNCHANGED <<sr, ir, busy, io_nonblock, is_sending>>
        /\ At("recv", "count")
    BY DEF RecvCount, Still, txVars
  <1>2. TxInv' /\ RxInv' /\ RX_RSR' = RX_RSR
    BY <1>1, StillStreams
  <1>3. /\ call' \in Calling /\ call'.fn = "recv" /\ call'.stage = "status"
        /\ call'.size = RX_RSR
    <2>1. RX_RSR \in 0..BufSize
      BY UsedIs, Sizes DEF IInv, RxInv, RX_RSR
    <2> DEFINE size == RX_RSR
    <2>2. size \in 0..BufSize /\ call' = [call EXCEPT !.stage = "status", !.size = size]
      BY <2>1 DEF RecvCount
    <2>3. call \in Calling /\ call.fn = "recv"
      BY <1>1 DEF IInv, Types, At
    <2> HIDE DEF size
    <2>4. call' \in Calling /\ call'.fn = "recv" /\ call'.stage = "status" /\ call'.size = size
      BY <2>2, <2>3 DEF Calling, Stages
    <2> QED
      BY <2>4 DEF size
  <1>4. Types'
    BY <1>1, <1>3 DEF IInv, Types, Still
  <1>5. SendInv'
    BY <1>1, <1>3 DEF IInv, SendInv, Still, At
  <1>6. LinkInv'
    <2>1. call'.size <= RX_RSR'
      BY <1>2, <1>3, UsedIs DEF IInv, RxInv, RX_RSR
    <2> QED
      BY <1>1, <1>2, <1>3, <2>1 DEF IInv, LinkInv, Still, ends, At
  <1> QED
    BY <1>2, <1>4, <1>5, <1>6 DEF IInv

\* recv asks the chip to wait no longer than there is nothing counted.
LEMMA RecvAgainInv == ASSUME IInv, RecvAgain PROVE IInv'
  <1>1. /\ Still /\ UNCHANGED <<sr, ir, busy, io_nonblock, is_sending>>
        /\ call.fn = "recv" /\ call' = [call EXCEPT !.stage = "count"]
    BY DEF RecvAgain, Waits, Still, txVars, At, Goto
  <1>2. TxInv' /\ RxInv' /\ RX_RSR' = RX_RSR
    BY <1>1, StillStreams
  <1>3. call' \in Calling /\ call'.fn = "recv" /\ call'.stage = "count"
    <2>1. call \in Calling /\ "count" \in Stages
      BY DEF IInv, Types, Stages
    <2> QED
      BY <1>1, <2>1, NextStage
  <1>4. Types'
    BY <1>1, <1>3 DEF IInv, Types, Still
  <1>5. SendInv'
    BY <1>1, <1>3 DEF IInv, SendInv, Still, At
  <1>6. LinkInv'
    BY <1>1, <1>2, <1>3 DEF IInv, LinkInv, Still, ends, At
  <1> QED
    BY <1>2, <1>4, <1>5, <1>6 DEF IInv

\* What recv copies are the oldest bytes of the buffer, and no more than it holds.
LEMMA RecvReadInv == ASSUME IInv, RecvRead PROVE IInv'
  <1> DEFINE n == Least(call.len, call.size)
             got == Got(rx, rx_rd, n)
             held == RX_RSR
  <1>1. /\ callerGot' = callerGot \o got /\ rx_rd' = Plus(rx_rd, n) /\ call' = Idle
        /\ UNCHANGED <<sr, ir, txVars, rx, rx_wr, io_nonblock, is_sending, conn,
                       accepted, peerGot, peerSent>>
        /\ sr \notin Fresh
    BY DEF RecvRead, Return, Fresh
  <1>2. held \in 0..BufSize /\ held = Used(rx_wr, rx_rd)
    BY UsedIs, Sizes DEF IInv, RxInv, RX_RSR
  <1>3. n \in 0..held
    <2>1. call.len \in Nat /\ call.size \in Nat /\ call.size <= held
      BY Sizes DEF IInv, Types, Calling, LinkInv, RecvRead
    <2> QED
      BY <1>2, <2>1 DEF Least
  <1>4. /\ rx \in [Slots -> Bytes] /\ rx_wr \in Pointers /\ rx_rd \in Pointers
        /\ peerSent \in 0..MaxBytes /\ Exact(callerGot, peerSent)
        /\ Len(callerGot) + held = peerSent /\ Len(callerGot) \in Nat
        /\ Holds(rx, rx_rd, held, Len(callerGot) + 1)
    BY DEF IInv, RxInv, Exact
  <1> HIDE DEF n, held
  <1>5. n \in 0..BufSize /\ n \in Nat /\ n <= held /\ held \in Nat
    BY <1>2, <1>3, Sizes
  <1>6. got \in Seq(Bytes) /\ Len(got) = n /\ \A k \in 1..n : got[k] = Byte(conn, Len(callerGot) + k)
    <2>1. ASSUME NEW k \in 1..n
          PROVE  /\ rx[Plus(rx_rd, k - 1) % BufSize] = Byte(conn, Len(callerGot) + k)
                 /\ rx[Plus(rx_rd, k - 1) % BufSize] \in Bytes
      <3> DEFINE j == k - 1
      <3>1. j \in 0..BufSize /\ j \in 0..(held - 1) /\ (Len(callerGot) + 1) + j = Len(callerGot) + k
        BY <1>4, <1>5, Sizes
      <3> HIDE DEF j
      <3>2. Plus(rx_rd, j) % BufSize = (rx_rd + j) % BufSize
        BY <1>4, <3>1, SlotOfPointer
      <3>3. rx[(rx_rd + j) % BufSize] = Byte(conn, (Len(callerGot) + 1) + j)
        BY <1>4, <3>1 DEF Holds
      <3>4. Plus(rx_rd, j) % BufSize \in Slots
        <4>1. Plus(rx_rd, j) \in Int
          BY <1>4, <3>1, PlusIs DEF Pointers
        <4> QED
          BY <4>1, SlotIn
      <3>5. rx[Plus(rx_rd, j) % BufSize] \in Bytes
        BY <1>4, <3>4
      <3> QED
        BY <3>1, <3>2, <3>3, <3>5 DEF j
    <2>2. got = [k \in 1..n |-> rx[Plus(rx_rd, k - 1) % BufSize]]
      BY DEF Got
    <2> HIDE DEF got
    <2>3. got \in [1..n -> Bytes]
      BY <2>1, <2>2
    <2>4. got \in Seq(Bytes) /\ Len(got) = n
      BY <1>5, <2>3
    <2> QED
      BY <2>1, <2>2, <2>4
  <1> HIDE DEF got
  <1>7. Exact(callerGot', peerSent') /\ Len(callerGot') = Len(callerGot) + n
    <2>1. Len(callerGot) + Len(got) <= peerSent /\ peerSent \in Nat
      BY <1>4, <1>5, <1>6, ConstantsOK
    <2>2. Exact(callerGot \o got, peerSent) /\ Len(callerGot \o got) = Len(callerGot) + n
      BY <1>4, <1>6, <2>1, ExactMore
    <2> QED
      BY <1>1, <2>2
  <1>8. rx_rd' \in Pointers /\ RX_RSR' = held - n
    <2>1. Used(rx_wr, Plus(rx_rd, n)) = held - n
      BY <1>2, <1>4, <1>5, Ahead
    <2>2. rx_rd' \in Pointers
      BY <1>1, <1>4, <1>5, PlusIs
    <2> QED
      BY <1>1, <2>1, <2>2 DEF RX_RSR
  <1>9. RxInv'
    <2>1. Holds(rx, Plus(rx_rd, n), held - n, (Len(callerGot) + 1) + n)
      <3>1. held \in 0..BufSize /\ Len(callerGot) + 1 \in Nat
        BY <1>2, <1>4
      <3> QED
        BY <1>3, <1>4, <3>1, HoldsLess
    <2>2. Holds(rx, rx_rd, RX_RSR, Len(callerGot) + 1)'
      <3>1. (Len(callerGot) + 1) + n = Len(callerGot') + 1
        BY <1>4, <1>5, <1>7
      <3> QED
        BY <1>1, <1>8, <2>1, <3>1 DEF Holds, Byte
    <2>3. Exact(callerGot, peerSent)'
      BY <1>1, <1>7 DEF Exact, Byte
    <2>4. Len(callerGot') + RX_RSR' = peerSent' /\ RX_RSR' <= BufSize
      BY <1>1, <1>2, <1>4, <1>5, <1>7, <1>8, Sizes
    <2> QED
      BY <1>1, <1>4, <1>8, <2>2, <2>3, <2>4 DEF RxInv
  <1>10. TxInv'
    BY <1>1, TxSame DEF IInv, txVars
  <1>11. Types'
    BY <1>1, IdleCall DEF IInv, Types, txVars
  <1>12. SendInv' /\ LinkInv'
    BY <1>1, IdleCall DEF IInv, SendInv, LinkInv, txVars, At
  <1> QED
    BY <1>9, <1>10, <1>11, <1>12 DEF IInv

LEMMA CallerInv == ASSUME IInv, Caller PROVE IInv'
  <1>1. Connected \/ ConnectTimeout \/ ConnectClosed \/ Disconnected \/ SendBusy \/ RecvBusy => IInv'
    <2>1. Connected => IInv'
      BY ReturnInv DEF Connected, Still, txVars
    <2>2. ConnectTimeout => IInv'
      BY ReturnInv DEF ConnectTimeout, Still, txVars
    <2>3. ConnectClosed => IInv'
      BY ReturnInv DEF ConnectClosed, Still, txVars
    <2>4. Disconnected => IInv'
      BY ReturnInv DEF Disconnected, Still, txVars
    <2>5. SendBusy => IInv'
      BY ReturnInv DEF SendBusy, Still, txVars
    <2>6. RecvBusy => IInv'
      BY ReturnInv DEF RecvBusy, Still, txVars
    <2> QED
      BY <2>1, <2>2, <2>3, <2>4, <2>5, <2>6
  <1>2. DisconnectTimeout \/ SendTimeout \/ RecvOver => IInv'
    BY ClosedInv DEF DisconnectTimeout, SendTimeout, RecvOver, Return
  <1>3. SendDead => IInv'
    <2>1. ASSUME SendDead, sr = "CLOSED" PROVE IInv'
      BY <2>1, ClosedInv DEF SendDead, Return
    <2>2. ASSUME SendDead, sr # "CLOSED" PROVE IInv'
      BY <2>2, ReturnInv DEF SendDead, Still, txVars
    <2> QED
      BY <2>1, <2>2
  <1> QED
    BY <1>1, <1>2, <1>3, SendPendingInv, SendSpaceInv, SendWriteInv, RecvCountInv, RecvReadInv,
       RecvAgainInv DEF Caller

-------------------------------------------------------------------------------
(* The chip and the peer.                                                  *)

\* A new connection gets its pointers from the chip, both pairs equal.
LEMMA EstablishedInv == ASSUME IInv, Established PROVE IInv'
  <1>1. PICK p \in Pointers : tx_wr' = p /\ tx_rd' = p /\ rx_wr' = p /\ rx_rd' = p
    BY DEF Established, Pointers
  <1>2. /\ sr \in Fresh /\ sr' = "ESTABLISHED"
        /\ UNCHANGED <<ir, tx, busy, rx, io_nonblock, is_sending, call, conn,
                       accepted, peerGot, peerSent, callerGot>>
        /\ accepted = 0 /\ peerSent = 0 /\ peerGot = <<>> /\ callerGot = <<>> /\ RX_RSR = 0
    BY DEF Established, Fresh, Socket, ends, IInv, LinkInv
  <1>3. TxInv'
    BY <1>1, <1>2, TxEmpty DEF IInv, TxInv
  <1>4. RxInv' /\ RX_RSR' = 0
    BY <1>1, <1>2, RxEmpty DEF IInv, RxInv
  <1>5. Types'
    BY <1>2 DEF IInv, Types, Status
  <1>6. SendInv'
    BY <1>1, <1>2 DEF IInv, SendInv, At, Fresh, Open
  <1>7. LinkInv'
    BY <1>2, <1>4 DEF IInv, LinkInv, At, Fresh
  <1> QED
    BY <1>3, <1>4, <1>5, <1>6, <1>7 DEF IInv

\* A connection that the chip ends, by a timeout, a reset or the last FIN.
LEMMA EndedInv ==
    ASSUME IInv, Still, sr # "CLOSED", sr' = "CLOSED", ~busy', busy' \in BOOLEAN,
           ir' \subseteq {"SENDOK", "TIMEOUT"},
           UNCHANGED <<io_nonblock, is_sending, call>>
    PROVE  IInv'
  <1>1. TxInv' /\ RxInv' /\ RX_RSR' = RX_RSR
    BY StillStreams
  <1>2. Types'
    BY DEF IInv, Types, Still, Status
  <1>3. SendInv'
    BY DEF IInv, SendInv, Still, At, Fresh, Open
  <1>4. LinkInv'
    BY <1>1 DEF IInv, LinkInv, Still, ends, At, Fresh
  <1> QED
    BY <1>1, <1>2, <1>3, <1>4 DEF IInv

LEMMA PeerClosesInv == ASSUME IInv, PeerCloses PROVE IInv'
  <1>1. Still /\ UNCHANGED <<ir, io_nonblock, is_sending, call>>
    BY DEF PeerCloses, Still, Socket
  <1>2. CASE sr = "ESTABLISHED" /\ sr' = "CLOSE_WAIT" /\ UNCHANGED busy
    <2>1. TxInv' /\ RxInv' /\ RX_RSR' = RX_RSR
      BY <1>1, StillStreams
    <2>2. Types'
      BY <1>1, <1>2 DEF IInv, Types, Still, Status
    <2>3. SendInv'
      BY <1>1, <1>2 DEF IInv, SendInv, Still, At, Fresh, Open
    <2>4. LinkInv'
      BY <1>1, <1>2, <2>1 DEF IInv, LinkInv, Still, ends, At, Fresh
    <2> QED
      BY <2>1, <2>2, <2>3, <2>4 DEF IInv
  <1>3. CASE sr \in {"FIN_WAIT", "LAST_ACK"} /\ sr' = "CLOSED" /\ busy' = FALSE
    <2>1. busy' \in BOOLEAN /\ ir' \subseteq {"SENDOK", "TIMEOUT"}
      BY <1>1, <1>3 DEF IInv, Types
    <2> QED
      BY <1>1, <1>3, <2>1, EndedInv
  <1> QED
    BY <1>2, <1>3 DEF PeerCloses

LEMMA SendOkInv == ASSUME IInv, SendOk PROVE IInv'
  <1>1. /\ Still /\ UNCHANGED <<sr, io_nonblock, is_sending, call>>
        /\ busy /\ tx_wr = tx_rd /\ ir' = ir \cup {"SENDOK"} /\ ~busy'
    BY DEF SendOk, Still, Socket
  <1>2. TxInv' /\ RxInv' /\ RX_RSR' = RX_RSR
    BY <1>1, StillStreams
  <1>3. Types'
    <2>1. busy' \in BOOLEAN
      BY DEF SendOk
    <2> QED
      BY <1>1, <2>1 DEF IInv, Types, Still
  <1>4. SendInv'
    BY <1>1 DEF IInv, SendInv, Still, At, Fresh, Open
  <1>5. LinkInv'
    BY <1>1, <1>2 DEF IInv, LinkInv, Still, ends, At
  <1> QED
    BY <1>2, <1>3, <1>4, <1>5 DEF IInv

LEMMA AckedInv == ASSUME IInv, Acked PROVE IInv'
  <1> DEFINE n == Used(tx_wr, tx_rd)
             b == tx[tx_rd % BufSize]
  <1>1. /\ busy /\ tx_rd # tx_wr /\ peerGot' = Append(peerGot, b) /\ tx_rd' = Plus(tx_rd, 1)
        /\ UNCHANGED <<sr, ir, tx, tx_wr, busy, rxVars, io_nonblock, is_sending, call, conn,
                       accepted, peerSent, callerGot>>
    BY DEF Acked, Socket
  <1>2. /\ tx \in [Slots -> Bytes] /\ tx_wr \in Pointers /\ tx_rd \in Pointers
        /\ n \in 1..BufSize /\ accepted \in 0..MaxBytes /\ Exact(peerGot, accepted)
        /\ Len(peerGot) + n = accepted /\ Len(peerGot) \in Nat
        /\ Holds(tx, tx_rd, n, Len(peerGot) + 1)
    <2>1. tx_wr \in Pointers /\ tx_rd \in Pointers /\ n <= BufSize
      BY DEF IInv, TxInv
    <2>2. n \in Nat /\ n # 0
      BY <1>1, <2>1, UsedIs
    <2> QED
      BY <2>1, <2>2, Sizes DEF IInv, TxInv, Exact
  <1>3. b = Byte(conn, Len(peerGot) + 1) /\ b \in Bytes
    <2>1. tx[(tx_rd + 0) % BufSize] = Byte(conn, (Len(peerGot) + 1) + 0)
      <3> HIDE DEF n
      <3>1. 0 \in 0..(n - 1)
        BY <1>2, Sizes
      <3> QED
        BY <1>2, <3>1 DEF Holds
    <2>2. tx_rd + 0 = tx_rd /\ (Len(peerGot) + 1) + 0 = Len(peerGot) + 1
      BY <1>2 DEF Pointers
    <2>3. tx_rd % BufSize \in Slots
      BY <1>2, SlotIn DEF Pointers
    <2> QED
      BY <1>2, <2>1, <2>2, <2>3
  <1> HIDE DEF n, b
  <1>4. 1 \in 0..BufSize /\ 1 \in 0..n /\ n \in 0..BufSize /\ n \in Nat
    BY <1>2, Sizes
  <1>5. tx_rd' \in Pointers /\ Used(tx_wr, tx_rd') = n - 1
    <2>1. Used(tx_wr, Plus(tx_rd, 1)) = n - 1
      BY <1>2, <1>4, Ahead DEF n
    <2> QED
      BY <1>1, <1>2, <1>4, <2>1, PlusIs
  <1>6. Exact(peerGot', accepted) /\ Len(peerGot') = Len(peerGot) + 1
    <2> DEFINE t == <<b>>
    <2>1. t \in Seq(Bytes) /\ Len(t) = 1 /\ t[1] = b
      BY <1>3
    <2>2. peerGot' = peerGot \o t
      BY <1>1, <1>2, <1>3 DEF Exact
    <2> HIDE DEF t
    <2>3. Len(peerGot) + Len(t) <= accepted /\ accepted \in Nat
      BY <1>2, <2>1, <1>4, ConstantsOK
    <2>4. \A k \in 1..Len(t) : t[k] = Byte(conn, Len(peerGot) + k)
      BY <1>3, <2>1
    <2> QED
      BY <1>2, <2>1, <2>2, <2>3, <2>4, ExactMore
  <1>7. Holds(tx, Plus(tx_rd, 1), n - 1, (Len(peerGot) + 1) + 1)
    <2>1. Len(peerGot) + 1 \in Nat
      BY <1>2
    <2> QED
      BY <1>2, <1>4, <2>1, HoldsLess
  <1>8. TxInv'
    <2>1. Holds(tx, tx_rd, Used(tx_wr, tx_rd), Len(peerGot) + 1)'
      BY <1>1, <1>5, <1>6, <1>7 DEF Holds, Byte
    <2>2. Exact(peerGot, accepted)'
      BY <1>1, <1>6 DEF Exact, Byte
    <2>3. Len(peerGot') + (n - 1) = accepted /\ n - 1 <= BufSize
      BY <1>2, <1>4, <1>6, Sizes
    <2>4. Used(tx_wr, tx_rd)' = n - 1
      BY <1>1, <1>5
    <2> QED
      BY <1>1, <1>2, <1>5, <2>1, <2>2, <2>3, <2>4 DEF TxInv
  <1>9. RxInv' /\ RX_RSR' = RX_RSR
    BY <1>1, RxSame DEF IInv, rxVars
  <1>10. Types'
    BY <1>1 DEF IInv, Types
  <1>11. SendInv' /\ LinkInv'
    <2>1. sr \notin Fresh /\ (sr \in Open => is_sending /\ "SENDOK" \notin ir) /\ ~At("send", "write")
      BY <1>1 DEF IInv, SendInv
    <2> QED
      BY <1>1, <1>9, <2>1 DEF IInv, SendInv, LinkInv, At
  <1> QED
    BY <1>8, <1>9, <1>10, <1>11 DEF IInv

LEMMA PeerSendsInv == ASSUME IInv, PeerSends PROVE IInv'
  <1> DEFINE n == RX_RSR
             i == Len(callerGot) + 1
  <1>1. /\ sr \in {"ESTABLISHED", "FIN_WAIT"} /\ n < BufSize /\ peerSent < MaxBytes
        /\ rx' = Put(rx, rx_wr, 1, peerSent + 1) /\ rx_wr' = Plus(rx_wr, 1) /\ peerSent' = peerSent + 1
        /\ UNCHANGED <<sr, ir, txVars, rx_rd, io_nonblock, is_sending, call, conn,
                       accepted, peerGot, callerGot>>
    BY DEF PeerSends, Socket
  <1>2. /\ rx \in [Slots -> Bytes] /\ rx_wr \in Pointers /\ rx_rd \in Pointers
        /\ n = Used(rx_wr, rx_rd) /\ peerSent \in 0..MaxBytes /\ Exact(callerGot, peerSent)
        /\ Len(callerGot) + n = peerSent /\ Len(callerGot) \in Nat /\ i \in Nat
        /\ Holds(rx, rx_rd, n, i)
    BY DEF IInv, RxInv, RX_RSR, Exact
  <1>3. n \in 0..(BufSize - 1) /\ n \in Nat /\ n \in 0..BufSize
    BY <1>1, <1>2, UsedIs, Sizes
  <1>4. rx_wr = Plus(rx_rd, n) /\ i + n = peerSent + 1 /\ peerSent + 1 \in 1..MaxBytes
    <2>1. rx_wr = Plus(rx_rd, Used(rx_wr, rx_rd))
      BY <1>2, <1>3, Sizes, PlusUsed
    <2>2. i + n = peerSent + 1
      <3> HIDE DEF n
      <3> QED
        BY <1>2, <1>3
    <2> QED
      BY <1>1, <1>2, <2>1, <2>2, ConstantsOK
  <1> HIDE DEF n, i
  <1>5. DOMAIN rx = Slots /\ 1 \in 0..BufSize /\ peerSent + 1 \in Nat
    BY <1>2, <1>4, Sizes
  <1>6. Holds(rx', rx_rd, n + 1, i)
    BY <1>1, <1>2, <1>3, <1>4, <1>5, HoldsMore
  <1>7. rx_wr' \in Pointers /\ Used(rx_wr', rx_rd) = n + 1
    <2>1. Used(rx_wr, rx_rd) + 1 <= BufSize
      BY <1>2, <1>3, Sizes
    <2>2. Used(Plus(rx_wr, 1), rx_rd) = Used(rx_wr, rx_rd) + 1
      BY <1>2, <1>5, <2>1, Ahead
    <2> QED
      BY <1>1, <1>2, <1>5, <2>2, PlusIs
  <1>8. rx' \in [Slots -> Bytes]
    <2>1. rx' = [k \in Slots |-> rx'[k]]
      BY <1>1, <1>5 DEF Put
    <2>2. ASSUME NEW k \in Slots PROVE rx'[k] \in Bytes
      <3>1. rx'[k] = IF k = rx_wr % BufSize THEN Byte(conn, peerSent + 1) ELSE rx[k]
        BY <1>1, <1>2, <1>5, PutOne
      <3>2. conn \in 1..MaxConns
        BY <1>1, ConstantsOK DEF IInv, Types, LinkInv
      <3>3. Byte(conn, peerSent + 1) \in Bytes
        BY <1>4, <3>2, ByteIn
      <3> QED
        BY <1>2, <3>1, <3>3
    <2> QED
      BY <2>1, <2>2
  <1>9. RX_RSR' = n + 1
    BY <1>1, <1>7 DEF RX_RSR
  <1>10. RxInv'
    <2>1. Exact(callerGot, peerSent)'
      BY <1>1, <1>2, ConstantsOK DEF Exact, Byte
    <2>2. Holds(rx, rx_rd, RX_RSR, Len(callerGot) + 1)'
      BY <1>1, <1>6, <1>9 DEF Holds, Byte, i
    <2>3. Len(callerGot) + (n + 1) = peerSent + 1 /\ n + 1 <= BufSize /\ peerSent + 1 \in 0..MaxBytes
      BY <1>2, <1>3, <1>4, Sizes
    <2> QED
      BY <1>1, <1>2, <1>7, <1>8, <1>9, <2>1, <2>2, <2>3 DEF RxInv
  <1>11. TxInv'
    BY <1>1, TxSame DEF IInv, txVars
  <1>12. Types'
    BY <1>1 DEF IInv, Types, txVars
  <1>13. SendInv'
    BY <1>1 DEF IInv, SendInv, txVars, At
  <1>14. LinkInv'
    <2>1. sr \notin Fresh
      BY <1>1 DEF Fresh
    <2>2. At("recv", "status") => call.size <= n + 1
      BY <1>3 DEF IInv, LinkInv, Types, Calling, n
    <2> QED
      BY <1>1, <1>9, <2>1, <2>2 DEF IInv, LinkInv, At
  <1> QED
    BY <1>10, <1>11, <1>12, <1>13, <1>14 DEF IInv

LEMMA ChipInv == ASSUME IInv, Chip PROVE IInv'
  <1>1. TimedOut \/ Reset => IInv'
    <2>1. ASSUME TimedOut PROVE IInv'
      <3>1. Still /\ sr # "CLOSED"
        BY <2>1 DEF TimedOut, Still, Open, Socket
      <3>2. busy' \in BOOLEAN
        BY <2>1 DEF TimedOut
      <3>3. ir' \subseteq {"SENDOK", "TIMEOUT"}
        BY <2>1 DEF TimedOut, IInv, Types
      <3> QED
        BY <2>1, <3>1, <3>2, <3>3, EndedInv DEF TimedOut, Socket
    <2>2. ASSUME Reset PROVE IInv'
      <3>1. Still /\ sr # "CLOSED"
        BY <2>2 DEF Reset, Still, Socket
      <3>2. busy' \in BOOLEAN
        BY <2>2 DEF Reset
      <3>3. ir' \subseteq {"SENDOK", "TIMEOUT"}
        BY <2>2 DEF Reset, IInv, Types
      <3> QED
        BY <2>2, <3>1, <3>2, <3>3, EndedInv DEF Reset, Socket
    <2> QED
      BY <2>1, <2>2
  <1> QED
    BY <1>1, EstablishedInv, AckedInv, SendOkInv, PeerSendsInv, PeerClosesInv DEF Chip

LEMMA StutterInv == ASSUME IInv, UNCHANGED vars PROVE IInv'
  <1>1. Still /\ UNCHANGED <<sr, ir, busy, io_nonblock, is_sending, call>>
    BY DEF vars, txVars, Still
  <1>2. TxInv' /\ RxInv' /\ RX_RSR' = RX_RSR
    BY <1>1, StillStreams
  <1>3. Types'
    BY <1>1 DEF IInv, Types, Still
  <1>4. SendInv' /\ LinkInv'
    BY <1>1, <1>2 DEF IInv, SendInv, LinkInv, Still, ends, At
  <1> QED
    BY <1>2, <1>3, <1>4 DEF IInv

LEMMA Invariance == Spec => []IInv
  <1>1. IInv /\ [Next]_vars => IInv'
    BY CallsInv, CallerInv, ChipInv, StutterInv DEF Next
  <1> QED
    BY <1>1, InitInv, PTL DEF Spec

-------------------------------------------------------------------------------
(* Theorems.                                                               *)

\* Every variable keeps its type and neither ring is ever over its size.
THEOREM TypeCorrect == Spec => []TypeOK
  <1>1. IInv => TypeOK
    BY DEF IInv, Types, TxInv, RxInv, TypeOK, Exact, Slots, Pointers, Calling, Functions, Stages
  <1> QED
    BY <1>1, Invariance, PTL

\* Both ends of a connection have the bytes the other end sent, in order: the rings of
\* socket.c's wiz_send_data and wiz_recv_data lose, repeat and mix nothing.
THEOREM StreamsAreKept == Spec => []StreamsKept
  <1>1. IInv => StreamsKept
    <2>1. IInv => accepted \in Nat /\ peerSent \in Nat
      BY ConstantsOK DEF IInv, TxInv, RxInv
    <2> QED
      BY <2>1, ExactPrefix DEF IInv, TxInv, RxInv, StreamsKept
  <1> QED
    BY <1>1, Invariance, PTL

\* sock_is_sending stands for what the chip is doing: send neither waits for a SENDOK
\* that was seen nor goes on with one that belongs to another SEND.
THEOREM SendingIsKnown == Spec => []SendingKnown
  <1>1. IInv => SendingKnown
    BY DEF IInv, SendInv, SendingKnown
  <1> QED
    BY <1>1, Invariance, PTL

\* No SEND is given to the chip while another is under way.
THEOREM OneSendAtATime == Spec => SendsInTurn
  <1>1. IInv => [SendWrite => ~busy]_vars
    BY DEF IInv, SendInv, SendWrite, Write
  <1> QED
    BY <1>1, Invariance, PTL DEF SendsInTurn
===============================================================================
