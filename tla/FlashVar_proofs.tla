---------------------------- MODULE FlashVar_proofs ----------------------------
(***************************************************************************)
(* Proofs about the flash variables, for any sizes, variables, values and  *)
(* number of power losses: what is programmed comes out as it was meant,   *)
(* every variable has one sector, and the flash implements FlashStore.     *)
(***************************************************************************)
EXTENDS FlashVar, Integers, TLAPS

-------------------------------------------------------------------------------
(* The steps on the flash, each as a change of the sector of the call.     *)

LEMMA Sizes == /\ Width \in Nat /\ Width # 0 /\ Positions \in Nat /\ Positions # 0
               /\ LastSector \in Nat /\ LossMax \in Nat /\ 0 \in Slots
  BY ConstantsOK DEF Slots

\* The first k bytes of a value, and nothing after them.
Partly(v, k) == [i \in 1..Width |-> IF i <= k THEN v[i] ELSE Erased]

\* The next byte of the value goes to position p of the sector.
LEMMA ByteProgrammed ==
    ASSUME TypeOK, job.at # "idle", job.i \in 1..Width, NEW p \in Slots, ProgramByte(p),
           flash[job.sec].cell[p] = Partly(job.val, job.i - 1)
    PROVE  /\ flash' \in [Sectors -> Sector]
           /\ \A s \in Sectors : s # job.sec => flash'[s] = flash[s]
           /\ flash'[job.sec].header = flash[job.sec].header
           /\ flash'[job.sec].used = flash[job.sec].used
           /\ \A q \in Slots : q # p => flash'[job.sec].cell[q] = flash[job.sec].cell[q]
           /\ flash'[job.sec].cell[p] = Partly(job.val, job.i)
  <1> DEFINE sec == job.sec
             old == flash[sec]
             byte == Program(old.cell[p][job.i], job.val[job.i])
             new == [old.cell[p] EXCEPT ![job.i] = byte]
  <1>1. sec \in Sectors /\ flash \in [Sectors -> Sector] /\ old \in Sector /\ job.val \in [1..Width -> Bytes]
    BY ConstantsOK DEF TypeOK, JobOK
  <1>2. flash' = [flash EXCEPT ![sec] = [old EXCEPT !.cell = [old.cell EXCEPT ![p] = new]]]
    BY DEF ProgramByte
  <1>3. byte = job.val[job.i] /\ byte \in Bytes
    BY <1>1, Sizes DEF Partly, Program
  <1>4. new = Partly(job.val, job.i)
    BY <1>1, <1>3, Sizes DEF Partly
  <1>5. new \in Cells
    BY <1>1, <1>4 DEF Partly, Cells
  <1>6. old.cell \in [Slots -> Cells] /\ [old.cell EXCEPT ![p] = new] \in [Slots -> Cells]
    BY <1>1, <1>5 DEF Sector
  <1> HIDE DEF new, byte
  <1> DEFINE cells == [old.cell EXCEPT ![p] = new]
             changed == [old EXCEPT !.cell = cells]
  <1>7. /\ cells \in [Slots -> Cells] /\ cells[p] = new
        /\ \A q \in Slots : q # p => cells[q] = old.cell[q]
    BY <1>6
  <1> HIDE DEF cells
  <1>8. /\ changed \in Sector /\ changed.header = old.header /\ changed.used = old.used
        /\ changed.cell = cells
    BY <1>1, <1>7 DEF Sector
  <1> HIDE DEF changed
  <1>9. flash' = [flash EXCEPT ![sec] = changed]
    BY <1>2 DEF changed, cells
  <1>10. flash' \in [Sectors -> Sector] /\ flash'[sec] = changed
    BY <1>1, <1>8, <1>9
  <1>11. \A s \in Sectors : s # sec => flash'[s] = flash[s]
    BY <1>1, <1>9
  <1> QED
    BY <1>4, <1>7, <1>8, <1>10, <1>11

LEMMA HeaderProgrammed ==
    ASSUME TypeOK, job.at # "idle", NEW h \in Names \cup {Blank, Part},
           flash' = [flash EXCEPT ![job.sec].header = h]
    PROVE  /\ flash' \in [Sectors -> Sector]
           /\ \A s \in Sectors : /\ flash'[s].used = flash[s].used /\ flash'[s].cell = flash[s].cell
                                 /\ s # job.sec => flash'[s].header = flash[s].header
           /\ flash'[job.sec].header = h
  <1> DEFINE changed == [flash[job.sec] EXCEPT !.header = h]
  <1>1. job.sec \in Sectors /\ flash \in [Sectors -> Sector]
    BY DEF TypeOK, JobOK
  <1>2. /\ changed \in Sector /\ changed.header = h
        /\ changed.used = flash[job.sec].used /\ changed.cell = flash[job.sec].cell
    BY <1>1 DEF Sector
  <1>3. flash' = [flash EXCEPT ![job.sec] = changed]
    OBVIOUS
  <1> HIDE DEF changed
  <1> QED
    BY <1>1, <1>2, <1>3

LEMMA UsedProgrammed ==
    ASSUME TypeOK, job.at # "idle", flash[job.sec].used + 1 \in Slots,
           flash' = [flash EXCEPT ![job.sec].used = @ + 1]
    PROVE  /\ flash' \in [Sectors -> Sector]
           /\ \A s \in Sectors : /\ flash'[s].header = flash[s].header /\ flash'[s].cell = flash[s].cell
                                 /\ s # job.sec => flash'[s].used = flash[s].used
           /\ flash'[job.sec].used = flash[job.sec].used + 1
  <1> DEFINE n == flash[job.sec].used + 1
             changed == [flash[job.sec] EXCEPT !.used = n]
  <1>1. job.sec \in Sectors /\ flash \in [Sectors -> Sector] /\ n \in Slots
    BY DEF TypeOK, JobOK
  <1>2. flash' = [flash EXCEPT ![job.sec] = changed]
    OBVIOUS
  <1> HIDE DEF n
  <1>3. /\ changed \in Sector /\ changed.used = n
        /\ changed.header = flash[job.sec].header /\ changed.cell = flash[job.sec].cell
    BY <1>1 DEF Sector
  <1> HIDE DEF changed
  <1> QED
    BY <1>1, <1>2, <1>3 DEF n

LEMMA BlankIs ==
    /\ BlankSector \in Sector
    /\ BlankSector.header = Blank /\ BlankSector.used = 0
    /\ \A p \in Slots : BlankSector.cell[p] = ErasedCell
  BY Sizes DEF BlankSector, Sector, ErasedCell, Cells

-------------------------------------------------------------------------------
(* The invariant.                                                          *)

Jobs == [at : Stages, op : {"lee", "escribe", None}, var : Names \cup {None},
         val : Values \cup {None}, sec : 0..LastSector, i : 0..Width, again : BOOLEAN]

\* What the call under way has found or made of its sector; the position that is being
\* written holds the bytes before the next one, and no more.
Progress(sector) ==
    /\ job.at = "tipo" => sector.header = Blank
    /\ job.at = "name" => sector.header = Part
    /\ job.at \in {"first", "read", "erase", "mark", "data"} => sector.header = job.var
    /\ job.at = "first" =>
         /\ job.i \in 1..Width /\ sector.used = 0
         /\ sector.cell[0] = Partly(job.val, job.i - 1)
    /\ job.at = "mark" => sector.used < Positions
    /\ job.at = "data" =>
         /\ job.i \in 1..Width
         /\ sector.cell[sector.used] = Partly(job.val, job.i - 1)

JobInv == job.at # "idle" => Progress(flash[job.sec])

\* One sector each, and none behind a blank one.  While the call under way has a sector
\* without the name of its variable, no other has it.
OrderInv ==
    ~holed =>
        /\ \A s, t \in Sectors : flash[s].header = flash[t].header /\ flash[s].header \in Names => s = t
        /\ \A s, t \in Sectors : t < s /\ flash[t].header = Blank /\ ~(Hole /\ t = job.sec)
                                 => flash[s].header = Blank
        /\ job.at = "tipo" => \A t \in Sectors : t < job.sec => flash[t].header # Blank
        /\ job.at \in {"tipo", "name"} => \A t \in Sectors : flash[t].header # job.var

IInv == TypeOK /\ ErasedBeyond /\ NoMixture /\ JobInv /\ OrderInv

LEMMA IdleJob == Idle \in Jobs /\ Idle.at = "idle" /\ Idle.again = FALSE
  BY Sizes DEF Idle, Jobs, Stages

LEMMA Constants ==
    /\ Blank \notin Names /\ Part \notin Names /\ None \notin Names /\ Blank # Part
    /\ Values \subseteq [1..Width -> Bytes] /\ Values \subseteq Cells
    /\ ErasedCell \in Cells
    /\ \E v \in Values : ErasedCell \in Torn(v)
    /\ \A v \in Values, k \in 0..Width : Partly(v, k) \in Torn(v)
    /\ \A v \in Values : Partly(v, 0) = ErasedCell
  <1>1. /\ Blank \notin Names /\ Part \notin Names /\ None \notin Names /\ Blank # Part
        /\ Values \subseteq [1..Width -> Bytes] /\ Values \subseteq Cells
        /\ ErasedCell \in Cells
    BY ConstantsOK DEF ErasedCell, Cells
  <1>2. \A v \in Values, k \in 0..Width : Partly(v, k) \in Torn(v)
    BY DEF Partly, Torn
  <1>3. \A v \in Values : Partly(v, 0) = ErasedCell
    BY Sizes DEF Partly, ErasedCell
  <1>4. PICK v \in Values : TRUE
    BY ConstantsOK
  <1>5. 0 \in 0..Width
    BY Sizes
  <1> QED
    BY <1>1, <1>2, <1>3, <1>4, <1>5

\* The next stage of a call, and its end.
LEMMA NextStage ==
    ASSUME TypeOK, job.at # "idle", NEW stage \in Stages \ {"idle"}, Goto(stage)
    PROVE  /\ JobOK' /\ job'.at = stage /\ job'.i = 1
           /\ job'.op = job.op /\ job'.var = job.var /\ job'.val = job.val /\ job'.sec = job.sec
           /\ job'.again = job.again
  <1>1. job \in Jobs /\ 1 \in 0..Width
    BY Sizes DEF TypeOK, JobOK, Jobs
  <1>2. job' \in Jobs /\ job'.at = stage /\ job'.i = 1
        /\ job'.op = job.op /\ job'.var = job.var /\ job'.val = job.val /\ job'.sec = job.sec
        /\ job'.again = job.again
    BY <1>1 DEF Goto, Jobs
  <1> QED
    BY <1>2 DEF TypeOK, JobOK, Jobs

LEMMA CallEnds == ASSUME job' = Idle PROVE JobOK' /\ JobInv' /\ job'.at = "idle" /\ ~Hole'
  BY IdleJob DEF JobOK, JobInv, Jobs, Hole

LEMMA ByteFollows ==
    ASSUME TypeOK, job.at \in {"first", "data"}, job.i \in 1..Width,
           NEW stage \in {"idle", "read"}, NextByte(stage)
    PROVE  /\ JobOK'
           /\ \/ /\ job.i < Width
                 /\ job'.at = job.at /\ job'.i = job.i + 1 /\ job'.i \in 1..Width
                 /\ job'.var = job.var /\ job'.val = job.val /\ job'.sec = job.sec
              \/ job' = Idle
              \/ job'.at = "read" /\ job'.var = job.var /\ job'.sec = job.sec
  <1>1. job \in Jobs /\ job.i + 1 \in Int
    BY Sizes DEF TypeOK, JobOK, Jobs
  <1>2. CASE job.i < Width
    <2>1. job' = [job EXCEPT !.i = @ + 1] /\ job.i + 1 \in 0..Width /\ job.i + 1 \in 1..Width
      BY <1>2, Sizes DEF NextByte
    <2>2. /\ job' \in Jobs /\ job'.at = job.at /\ job'.i = job.i + 1 /\ job'.op = job.op
          /\ job'.var = job.var /\ job'.val = job.val /\ job'.sec = job.sec
      BY <1>1, <2>1 DEF Jobs
    <2>3. JobOK'
      BY <2>1, <2>2 DEF TypeOK, JobOK, Jobs
    <2> QED
      BY <1>2, <2>1, <2>2, <2>3
  <1>3. CASE ~(job.i < Width) /\ stage = "idle"
    BY <1>3, CallEnds DEF NextByte
  <1>4. CASE ~(job.i < Width) /\ stage = "read"
    <2>1. job' = [job EXCEPT !.at = "read", !.i = 0] /\ 0 \in 0..Width /\ "read" \in Stages
      BY <1>4, Sizes DEF NextByte, Stages
    <2>2. /\ job' \in Jobs /\ job'.at = "read" /\ job'.op = job.op
          /\ job'.var = job.var /\ job'.val = job.val /\ job'.sec = job.sec
      BY <1>1, <2>1 DEF Jobs
    <2>3. JobOK'
      BY <2>2 DEF TypeOK, JobOK, Jobs
    <2> QED
      BY <2>2, <2>3
  <1> QED
    BY <1>2, <1>3, <1>4

LEMMA InitInv == Init => IInv
  <1> SUFFICES ASSUME Init PROVE IInv
    OBVIOUS
  <1>1. \A s \in Sectors : flash[s] = BlankSector
    BY DEF Init
  <1>2. TypeOK
    <2>1. flash \in [Sectors -> Sector] /\ hint \in [Names -> 0..(LastSector + 1)]
      BY BlankIs, Sizes DEF Init
    <2>2. JobOK
      BY IdleJob DEF Init, JobOK, Jobs
    <2>3. result \in [var : Names \cup {None}, val : Cells]
      BY Constants DEF Init, NoResult
    <2>4. losses \in 0..LossMax
      BY Sizes DEF Init
    <2>5. holed \in BOOLEAN
      BY DEF Init
    <2> QED
      BY <2>1, <2>2, <2>3, <2>4, <2>5 DEF TypeOK
  <1>3. ErasedBeyond /\ NoMixture
    BY <1>1, BlankIs, Constants, Sizes DEF ErasedBeyond, NoMixture
  <1>4. JobInv /\ OrderInv
    BY <1>1, BlankIs, Constants, IdleJob DEF Init, JobInv, OrderInv
  <1> QED
    BY <1>2, <1>3, <1>4 DEF IInv

-------------------------------------------------------------------------------
(* The steps that leave the flash alone.                                   *)

LEMMA NewJob ==
    ASSUME NEW stage \in {"read", "tipo"}, NEW op \in {"lee", "escribe"}, NEW n \in Names,
           NEW v \in Values, NEW s \in Sectors,
           job' = [Idle EXCEPT !.at = stage, !.op = op, !.var = n, !.val = v, !.sec = s]
    PROVE  /\ JobOK' /\ job'.at = stage /\ job'.var = n /\ job'.sec = s /\ ~job'.again
  <1>1. job' = [at |-> stage, op |-> op, var |-> n, val |-> v, sec |-> s, i |-> 0, again |-> FALSE]
    BY DEF Idle
  <1>2. stage \in Stages /\ s \in 0..LastSector /\ 0 \in 0..Width /\ FALSE \in BOOLEAN
    BY Sizes DEF Stages, Sectors
  <1> DEFINE j == [at |-> stage, op |-> op, var |-> n, val |-> v, sec |-> s, i |-> 0,
                   again |-> FALSE]
  <1>3. j \in Jobs
    BY <1>2 DEF Jobs
  <1>4. j.at = stage /\ j.op = op /\ j.var = n /\ j.val = v /\ j.sec = s
    OBVIOUS
  <1>5. ~j.again
    OBVIOUS
  <1>6. job' = j
    BY <1>1
  <1> HIDE DEF j
  <1> QED
    BY <1>3, <1>4, <1>5, <1>6 DEF JobOK, Jobs

LEMMA FlashSame == ASSUME ErasedBeyond, NoMixture, UNCHANGED flash PROVE ErasedBeyond' /\ NoMixture'
  BY DEF ErasedBeyond, NoMixture

\* The search stops at the variable's own sector, or at the first that is free: then no
\* sector has the variable, because none behind a free one is in use.
LEMMA CallInv ==
    ASSUME IInv, NEW op \in {"lee", "escribe"}, NEW n \in Names, NEW v \in Values, Call(op, n, v)
    PROVE  IInv'
  <1>1. /\ job = Idle /\ ~Hole /\ UNCHANGED <<flash, losses, holed>>
    BY IdleJob DEF Call, Found, Created, Full, power, Hole
  <1>2. ErasedBeyond' /\ NoMixture' /\ NoResult \in [var : Names \cup {None}, val : Cells]
    BY <1>1, FlashSame, Constants DEF IInv, NoResult
  <1>3. ASSUME NEW s \in Sectors, flash[s].header = n, Found(op, n, v, s) PROVE IInv'
    <2>1. JobOK' /\ job'.at = "read" /\ job'.var = n /\ job'.sec = s /\ ~job'.again
      BY <1>3, NewJob DEF Found
    <2>2. hint' \in [Names -> 0..(LastSector + 1)]
      BY <1>3, Sizes DEF Found, Sectors, IInv, TypeOK
    <2>3. TypeOK'
      BY <1>1, <1>2, <1>3, <2>1, <2>2 DEF Found, IInv, TypeOK
    <2>4. JobInv'
      BY <1>1, <1>3, <2>1 DEF JobInv, Progress
    <2>5. OrderInv'
      BY <1>1, <2>1 DEF IInv, OrderInv, Hole
    <2> QED
      BY <1>2, <2>3, <2>4, <2>5 DEF IInv
  <1>4. ASSUME NEW s \in Sectors, IsFirst(s, Stops(n)), flash[s].header = Blank, Created(op, n, v, s)
        PROVE  IInv'
    <2>1. JobOK' /\ job'.at = "tipo" /\ job'.var = n /\ job'.sec = s /\ ~job'.again
      BY <1>4, NewJob DEF Created
    <2>2. hint' \in [Names -> 0..(LastSector + 1)]
      BY <1>4, Sizes DEF Created, Sectors, IInv, TypeOK
    <2>3. TypeOK'
      BY <1>1, <1>2, <1>4, <2>1, <2>2 DEF Created, IInv, TypeOK
    <2>4. JobInv'
      BY <1>1, <1>4, <2>1 DEF JobInv, Progress
    <2>5. \A t \in Sectors : t < s => flash[t].header \notin {Blank, n}
      BY <1>4 DEF IsFirst, Stops, Sectors
    <2>6. ASSUME ~holed, NEW t \in Sectors PROVE flash[t].header # n
      <3>1. t > s => flash[t].header = Blank
        BY <1>1, <1>4, <2>6 DEF IInv, OrderInv
      <3> QED
        BY <1>4, <2>5, <3>1, Constants DEF Sectors
    <2>7. OrderInv'
      BY <1>1, <2>1, <2>5, <2>6 DEF IInv, OrderInv, Hole
    <2> QED
      BY <1>2, <2>3, <2>4, <2>7 DEF IInv
  <1>5. ASSUME Full(op, n) PROVE IInv'
    <2>1. UNCHANGED job
      BY <1>5 DEF Full
    <2>2. hint' \in [Names -> 0..(LastSector + 1)]
      BY <1>5, Sizes DEF Full, IInv, TypeOK
    <2>3. result' \in [var : Names \cup {None}, val : Cells]
      BY <1>2, <1>5, Constants DEF Full
    <2>4. TypeOK'
      BY <1>1, <2>1, <2>2, <2>3 DEF IInv, TypeOK, JobOK
    <2>5. JobInv' /\ OrderInv'
      BY <1>1, <2>1 DEF IInv, JobInv, Progress, OrderInv, Hole
    <2> QED
      BY <1>2, <2>4, <2>5 DEF IInv
  <1>6. Matches(hint[n], n) => hint[n] \in Sectors /\ flash[hint[n]].header = n
    BY DEF Matches
  <1> QED
    BY <1>3, <1>4, <1>5, <1>6 DEF Call

LEMMA LeeReturnsInv == ASSUME IInv, LeeReturns PROVE IInv'
  <1>1. JobOK' /\ JobInv' /\ job'.at = "idle" /\ ~Hole' /\ ~Hole
    BY CallEnds DEF LeeReturns, Hole
  <1>2. UNCHANGED <<flash, hint, losses, holed>>
    BY DEF LeeReturns, power
  <1>3. result' \in [var : Names \cup {None}, val : Cells]
    <2>1. job.sec \in Sectors /\ job.var \in Names
      BY DEF LeeReturns, IInv, TypeOK, JobOK
    <2>2. PosInPage(job.sec) \in Slots /\ flash[job.sec].cell \in [Slots -> Cells]
      BY <2>1, Sizes DEF PosInPage, IInv, TypeOK, Sector
    <2>3. flash[job.sec].cell[PosInPage(job.sec)] \in Cells
      BY <2>2
    <2> QED
      BY <2>1, <2>3 DEF LeeReturns
  <1>4. TypeOK' /\ ErasedBeyond' /\ NoMixture'
    BY <1>1, <1>2, <1>3, FlashSame DEF IInv, TypeOK
  <1>5. OrderInv'
    BY <1>1, <1>2 DEF IInv, OrderInv
  <1> QED
    BY <1>1, <1>4, <1>5 DEF IInv

LEMMA CompareInv == ASSUME IInv, Compare PROVE IInv'
  <1>1. /\ UNCHANGED <<flash, hint, result, losses, holed>> /\ job.at = "read"
        /\ job.sec \in Sectors /\ flash[job.sec].header = job.var
    BY DEF Compare, power, IInv, TypeOK, JobOK, JobInv, Progress
  <1>2. ErasedBeyond' /\ NoMixture'
    BY <1>1, FlashSame DEF IInv
  <1>3. CASE job' = Idle
    <2>1. JobOK' /\ JobInv' /\ job'.at = "idle" /\ ~Hole' /\ ~Hole
      BY <1>1, <1>3, CallEnds DEF Hole
    <2>2. TypeOK' /\ OrderInv'
      BY <1>1, <2>1 DEF IInv, TypeOK, OrderInv
    <2> QED
      BY <1>2, <2>1, <2>2 DEF IInv
  <1>4. ASSUME NEW stage \in {"erase", "mark"}, Goto(stage),
               stage = "mark" => flash[job.sec].used # Positions
        PROVE  IInv'
    <2>1. JobOK' /\ job'.at = stage /\ job'.var = job.var /\ job'.sec = job.sec
      BY <1>1, <1>4, NextStage DEF IInv, Stages
    <2>2. flash[job.sec].used \in 0..Positions
      BY <1>1 DEF IInv, TypeOK, Sector, Slots
    <2>3. JobInv'
      BY <1>1, <1>4, <2>1, <2>2, Sizes DEF JobInv, Progress
    <2>4. TypeOK' /\ OrderInv'
      BY <1>1, <2>1 DEF IInv, TypeOK, OrderInv, Hole
    <2> QED
      BY <1>2, <2>3, <2>4 DEF IInv
  <1> QED
    BY <1>3, <1>4 DEF Compare

LEMMA PowerLossInv == ASSUME IInv, PowerLoss PROVE IInv'
  <1>1. JobOK' /\ JobInv' /\ job'.at = "idle" /\ ~Hole'
    BY CallEnds DEF PowerLoss
  <1>2. UNCHANGED flash /\ (~holed' => ~holed /\ ~Hole)
    BY DEF PowerLoss
  <1>3. TypeOK'
    <2>1. losses' \in 0..LossMax
      BY Sizes DEF PowerLoss, IInv, TypeOK
    <2>2. hint' \in [Names -> 0..(LastSector + 1)]
      BY Sizes DEF PowerLoss
    <2>3. result' \in [var : Names \cup {None}, val : Cells]
      BY Constants DEF PowerLoss, NoResult
    <2>4. holed' \in BOOLEAN
      BY DEF PowerLoss, IInv, TypeOK, Hole
    <2> QED
      BY <1>1, <1>2, <2>1, <2>2, <2>3, <2>4 DEF IInv, TypeOK
  <1>4. ErasedBeyond' /\ NoMixture'
    BY <1>2, FlashSame DEF IInv
  <1>5. OrderInv'
    BY <1>1, <1>2 DEF IInv, OrderInv
  <1> QED
    BY <1>1, <1>3, <1>4, <1>5 DEF IInv

LEMMA StutterInv == ASSUME IInv, UNCHANGED vars PROVE IInv'
  <1>1. UNCHANGED <<flash, hint, job, result, losses, holed>>
    BY DEF vars, power
  <1>2. ErasedBeyond' /\ NoMixture'
    BY <1>1, FlashSame DEF IInv
  <1>3. TypeOK' /\ JobInv' /\ OrderInv'
    BY <1>1 DEF IInv, TypeOK, JobOK, JobInv, Progress, OrderInv, Hole
  <1> QED
    BY <1>2, <1>3 DEF IInv

-------------------------------------------------------------------------------
(* The steps that program or erase.                                        *)

\* What such a step leaves alone, and what is known of its sector before it.
LEMMA AtWork ==
    ASSUME IInv, job.at # "idle"
    PROVE  /\ job.sec \in Sectors /\ job.var \in Names /\ job.val \in Values
           /\ flash[job.sec] \in Sector /\ Progress(flash[job.sec])
  BY DEF IInv, TypeOK, JobOK, JobInv

LEMMA OrderSame ==
    ASSUME OrderInv, UNCHANGED holed, job.at \notin {"tipo", "name"}, job'.at \notin {"tipo", "name"},
           \A s \in Sectors : flash'[s].header = flash[s].header
    PROVE  OrderInv'
  BY DEF OrderInv, Hole

\* The blank sector of a call gets its first byte: it no longer stands before others.
LEMMA ProgramTipoInv == ASSUME IInv, ProgramTipo PROVE IInv'
  <1>1. /\ job.at = "tipo" /\ UNCHANGED <<hint, result, losses, holed>>
        /\ flash' = [flash EXCEPT ![job.sec].header = Part]
    BY DEF ProgramTipo, power
  <1>2. /\ job.sec \in Sectors /\ job.var \in Names /\ flash[job.sec].header = Blank
    BY <1>1, AtWork DEF Progress
  <1>3. /\ flash' \in [Sectors -> Sector]
        /\ \A s \in Sectors : /\ flash'[s].used = flash[s].used /\ flash'[s].cell = flash[s].cell
                              /\ s # job.sec => flash'[s].header = flash[s].header
        /\ flash'[job.sec].header = Part
    BY <1>1, HeaderProgrammed DEF IInv
  <1>4. JobOK' /\ job'.at = "name" /\ job'.var = job.var /\ job'.sec = job.sec
    BY <1>1, NextStage DEF ProgramTipo, IInv, Stages
  <1>5. TypeOK'
    BY <1>1, <1>3, <1>4 DEF IInv, TypeOK
  <1>6. ErasedBeyond' /\ NoMixture'
    BY <1>2, <1>3 DEF IInv, ErasedBeyond, NoMixture
  <1>7. JobInv'
    BY <1>3, <1>4 DEF JobInv, Progress
  <1>8. OrderInv'
    <2> SUFFICES ASSUME ~holed PROVE OrderInv'
      BY <1>1 DEF OrderInv
    <2>1. \A s, t \in Sectors : flash'[s].header = flash'[t].header /\ flash'[s].header \in Names => s = t
      BY <1>3, Constants DEF IInv, OrderInv
    <2>2. ASSUME NEW s \in Sectors, NEW t \in Sectors, t < s, flash'[t].header = Blank
          PROVE  flash'[s].header = Blank
      <3>1. t # job.sec /\ flash[t].header = Blank
        BY <1>3, <2>2, Constants
      <3>2. flash[s].header = Blank
        BY <2>2, <3>1 DEF IInv, OrderInv
      <3>3. s # job.sec
        BY <1>1, <2>2, <3>1 DEF IInv, OrderInv
      <3> QED
        BY <1>3, <3>2, <3>3
    <2>3. \A t \in Sectors : flash'[t].header # job.var
      BY <1>1, <1>2, <1>3, Constants DEF IInv, OrderInv
    <2> QED
      BY <1>4, <2>1, <2>2, <2>3 DEF OrderInv
  <1> QED
    BY <1>5, <1>6, <1>7, <1>8 DEF IInv

\* The header is complete: from here on the search finds the variable.
LEMMA ProgramNameInv == ASSUME IInv, ProgramName PROVE IInv'
  <1>1. /\ job.at = "name" /\ UNCHANGED <<hint, result, losses, holed>>
        /\ flash' = [flash EXCEPT ![job.sec].header = job.var]
    BY DEF ProgramName, power
  <1>2. /\ job.sec \in Sectors /\ job.var \in Names /\ job.val \in Values
        /\ flash[job.sec].header = Part
    BY <1>1, AtWork DEF Progress
  <1>3. /\ flash' \in [Sectors -> Sector]
        /\ \A s \in Sectors : /\ flash'[s].used = flash[s].used /\ flash'[s].cell = flash[s].cell
                              /\ s # job.sec => flash'[s].header = flash[s].header
        /\ flash'[job.sec].header = job.var
    BY <1>1, <1>2, HeaderProgrammed DEF IInv
  <1>4. /\ JobOK' /\ job'.at = "first" /\ job'.i = 1
        /\ job'.var = job.var /\ job'.sec = job.sec /\ job'.val = job.val
    BY <1>1, NextStage DEF ProgramName, IInv, Stages
  <1>5. TypeOK'
    BY <1>1, <1>3, <1>4 DEF IInv, TypeOK
  <1>6. /\ ErasedBeyond' /\ NoMixture'
        /\ flash[job.sec].used = 0 /\ flash[job.sec].cell[0] = ErasedCell
    BY <1>2, <1>3, Constants DEF IInv, ErasedBeyond, NoMixture
  <1>7. JobInv'
    <2>1. Partly(job'.val, job'.i - 1) = ErasedCell /\ job'.i \in 1..Width
      BY <1>2, <1>4, Constants, Sizes
    <2> QED
      BY <1>2, <1>3, <1>4, <1>6, <2>1 DEF JobInv, Progress
  <1>8. OrderInv'
    <2> SUFFICES ASSUME ~holed PROVE OrderInv'
      BY <1>1 DEF OrderInv
    <2>1. \A s, t \in Sectors : flash'[s].header = flash'[t].header /\ flash'[s].header \in Names => s = t
      BY <1>1, <1>3 DEF IInv, OrderInv
    <2>2. ASSUME NEW s \in Sectors, NEW t \in Sectors, t < s, flash'[t].header = Blank
          PROVE  flash'[s].header = Blank
      <3>1. t # job.sec /\ flash[t].header = Blank
        BY <1>2, <1>3, <2>2, Constants
      <3>2. flash[s].header = Blank
        BY <1>1, <2>2, <3>1 DEF IInv, OrderInv
      <3> QED
        BY <1>2, <1>3, <3>2, Constants
    <2> QED
      BY <1>4, <2>1, <2>2 DEF OrderInv
  <1> QED
    BY <1>5, <1>6, <1>7, <1>8 DEF IInv

\* A byte more of the value, at the position the call is writing.
LEMMA ByteInv ==
    ASSUME IInv, job.at \in {"first", "data"}, NEW p \in Slots, p = flash[job.sec].used,
           ProgramByte(p), NEW stage \in {"idle", "read"}, NextByte(stage),
           UNCHANGED <<hint, result, power>>
    PROVE  IInv'
  <1>1. /\ UNCHANGED <<hint, result, losses, holed>> /\ job.at # "idle"
    BY DEF power
  <1>2. /\ job.sec \in Sectors /\ job.var \in Names /\ job.val \in Values
        /\ flash[job.sec].header = job.var /\ job.i \in 1..Width
        /\ flash[job.sec].cell[p] = Partly(job.val, job.i - 1)
        /\ job.at = "first" => flash[job.sec].used = 0
    BY <1>1, AtWork DEF Progress
  <1>3. /\ flash' \in [Sectors -> Sector]
        /\ \A s \in Sectors : s # job.sec => flash'[s] = flash[s]
        /\ flash'[job.sec].header = flash[job.sec].header
        /\ flash'[job.sec].used = flash[job.sec].used
        /\ \A q \in Slots : q # p => flash'[job.sec].cell[q] = flash[job.sec].cell[q]
        /\ flash'[job.sec].cell[p] = Partly(job.val, job.i)
    BY <1>1, <1>2, ByteProgrammed DEF IInv
  <1>4. /\ JobOK'
        /\ \/ /\ job.i < Width
              /\ job'.at = job.at /\ job'.i = job.i + 1 /\ job'.i \in 1..Width
              /\ job'.var = job.var /\ job'.val = job.val /\ job'.sec = job.sec
           \/ job' = Idle
           \/ job'.at = "read" /\ job'.var = job.var /\ job'.sec = job.sec
    BY <1>2, ByteFollows DEF IInv
  <1>5. TypeOK'
    BY <1>1, <1>3, <1>4 DEF IInv, TypeOK
  <1>6. ErasedBeyond'
    <2>1. flash'[job.sec].header \notin {Blank, Part}
      BY <1>2, <1>3, Constants
    <2>2. ASSUME NEW q \in Slots, q > flash[job.sec].used PROVE flash'[job.sec].cell[q] = ErasedCell
      <3>1. q # p
        BY <2>2 DEF Slots
      <3> QED
        BY <1>2, <1>3, <2>2, <3>1 DEF IInv, ErasedBeyond
    <2> QED
      BY <1>3, <2>1, <2>2 DEF IInv, ErasedBeyond
  <1>7. NoMixture'
    <2>1. Partly(job.val, job.i) \in Torn(job.val)
      BY <1>2, Constants
    <2>2. ASSUME NEW q \in Slots PROVE \E v \in Values : flash'[job.sec].cell[q] \in Torn(v)
      BY <1>2, <1>3, <2>1 DEF IInv, NoMixture
    <2> QED
      BY <1>3, <2>2 DEF IInv, NoMixture
  <1>8. JobInv'
    <2>1. CASE /\ job'.at = job.at /\ job'.i = job.i + 1 /\ job'.i \in 1..Width
               /\ job'.var = job.var /\ job'.val = job.val /\ job'.sec = job.sec
      <3>1. job'.i - 1 = job.i
        BY <1>2, <2>1
      <3> QED
        BY <1>2, <1>3, <2>1, <3>1 DEF JobInv, Progress
    <2>2. CASE job' = Idle
      BY <2>2, CallEnds
    <2>3. CASE job'.at = "read" /\ job'.var = job.var /\ job'.sec = job.sec
      BY <1>2, <1>3, <2>3 DEF JobInv, Progress
    <2> QED
      BY <1>4, <2>1, <2>2, <2>3
  <1>9. OrderInv'
    <2>1. job.at \notin {"tipo", "name"} /\ job'.at \notin {"tipo", "name"}
      BY <1>4, IdleJob
    <2>2. \A s \in Sectors : flash'[s].header = flash[s].header
      BY <1>3
    <2> QED
      BY <1>1, <2>1, <2>2, OrderSame DEF IInv
  <1> QED
    BY <1>5, <1>6, <1>7, <1>8, <1>9 DEF IInv

LEMMA ProgramFirstInv == ASSUME IInv, ProgramFirst PROVE IInv'
  <1>1. job.at = "first" /\ flash[job.sec].used = 0
    BY AtWork DEF ProgramFirst, Progress
  <1>2. \E stage \in {"idle", "read"} : NextByte(stage)
    BY DEF ProgramFirst
  <1> QED
    BY <1>1, <1>2, ByteInv, Sizes DEF ProgramFirst

LEMMA ProgramDataInv == ASSUME IInv, ProgramData PROVE IInv'
  <1>1. job.at = "data" /\ flash[job.sec].used \in Slots
    BY AtWork DEF ProgramData, Sector
  <1> QED
    BY <1>1, ByteInv DEF ProgramData

\* The position that is counted is erased, and nothing of the value is in it yet.
LEMMA MarkInv == ASSUME IInv, Mark PROVE IInv'
  <1>1. /\ job.at = "mark" /\ UNCHANGED <<hint, result, losses, holed>>
        /\ flash' = [flash EXCEPT ![job.sec].used = @ + 1]
    BY DEF Mark, power
  <1>2. /\ job.sec \in Sectors /\ job.var \in Names /\ job.val \in Values
        /\ flash[job.sec].header = job.var
        /\ flash[job.sec].used \in Nat /\ flash[job.sec].used + 1 \in Slots
    BY <1>1, AtWork, Sizes DEF Progress, Sector, Slots
  <1>3. /\ flash' \in [Sectors -> Sector]
        /\ \A s \in Sectors : /\ flash'[s].header = flash[s].header /\ flash'[s].cell = flash[s].cell
                              /\ s # job.sec => flash'[s].used = flash[s].used
        /\ flash'[job.sec].used = flash[job.sec].used + 1
    BY <1>1, <1>2, UsedProgrammed DEF IInv
  <1>4. /\ JobOK' /\ job'.at = "data" /\ job'.i = 1
        /\ job'.var = job.var /\ job'.sec = job.sec /\ job'.val = job.val
    BY <1>1, NextStage DEF Mark, IInv, Stages
  <1>5. TypeOK'
    BY <1>1, <1>3, <1>4 DEF IInv, TypeOK
  <1>6. NoMixture'
    BY <1>3 DEF IInv, NoMixture
  <1>7. ErasedBeyond'
    <2>1. ASSUME NEW q \in Slots, q > flash'[job.sec].used PROVE flash'[job.sec].cell[q] = ErasedCell
      <3>1. q > flash[job.sec].used
        BY <1>2, <1>3, <2>1 DEF Slots
      <3> QED
        BY <1>2, <1>3, <3>1 DEF IInv, ErasedBeyond
    <2>2. flash'[job.sec].header \notin {Blank, Part}
      BY <1>2, <1>3, Constants
    <2> QED
      BY <1>3, <2>1, <2>2 DEF IInv, ErasedBeyond
  <1>8. JobInv'
    <2>1. Partly(job'.val, job'.i - 1) = ErasedCell /\ job'.i \in 1..Width
      BY <1>2, <1>4, Constants, Sizes
    <2>2. flash[job.sec].cell[flash[job.sec].used + 1] = ErasedCell
      BY <1>2 DEF IInv, ErasedBeyond
    <2> QED
      BY <1>2, <1>3, <1>4, <2>1, <2>2 DEF JobInv, Progress
  <1>9. OrderInv'
    BY <1>1, <1>3, <1>4, OrderSame DEF IInv
  <1> QED
    BY <1>5, <1>6, <1>7, <1>8, <1>9 DEF IInv

\* A full sector is erased.  For a moment it is a blank one before others in use.
LEMMA SectorEraseInv == ASSUME IInv, SectorErase PROVE IInv'
  <1>1. /\ job.at = "erase" /\ UNCHANGED <<hint, result, losses, holed>>
        /\ flash' = [flash EXCEPT ![job.sec] = BlankSector]
    BY DEF SectorErase, power
  <1>2. job.sec \in Sectors /\ job.var \in Names /\ flash[job.sec].header = job.var
    BY <1>1, AtWork DEF Progress
  <1>3. /\ flash' \in [Sectors -> Sector]
        /\ \A s \in Sectors : s # job.sec => flash'[s] = flash[s]
        /\ flash'[job.sec] = BlankSector
    BY <1>1, <1>2, BlankIs DEF IInv, TypeOK
  <1>4. JobOK' /\ job'.at = "tipo" /\ job'.again /\ job'.var = job.var /\ job'.sec = job.sec
    <2>1. job \in Jobs /\ "tipo" \in Stages
      BY DEF IInv, TypeOK, JobOK, Jobs, Stages
    <2>2. job' = [job EXCEPT !.at = "tipo", !.again = TRUE]
      BY DEF SectorErase
    <2>3. /\ job' \in Jobs /\ job'.at = "tipo" /\ job'.var = job.var /\ job'.sec = job.sec
          /\ job'.op = job.op /\ job'.val = job.val
      BY <2>1, <2>2 DEF Jobs
    <2>4. job'.again
      BY <2>1, <2>2 DEF Jobs
    <2> QED
      BY <1>1, <2>3, <2>4 DEF IInv, TypeOK, JobOK, Jobs
  <1>5. TypeOK'
    BY <1>1, <1>3, <1>4 DEF IInv, TypeOK
  <1>6. ErasedBeyond' /\ NoMixture'
    <2>1. flash'[job.sec].used = 0 /\ \A q \in Slots : flash'[job.sec].cell[q] = ErasedCell
      BY <1>3, BlankIs
    <2>2. ErasedBeyond'
      BY <1>3, <2>1, Sizes DEF IInv, ErasedBeyond
    <2>3. NoMixture'
      BY <1>3, <2>1, Constants DEF IInv, NoMixture
    <2> QED
      BY <2>2, <2>3
  <1>7. JobInv'
    BY <1>3, <1>4, BlankIs DEF JobInv, Progress
  <1>8. OrderInv'
    <2> SUFFICES ASSUME ~holed PROVE OrderInv'
      BY <1>1 DEF OrderInv
    <2>a. ~Hole /\ flash'[job.sec].header = Blank
      BY <1>1, <1>3, BlankIs DEF Hole
    <2>1. \A s, t \in Sectors : flash'[s].header = flash'[t].header /\ flash'[s].header \in Names => s = t
      BY <1>3, <2>a, Constants DEF IInv, OrderInv
    <2>2. ASSUME NEW s \in Sectors, NEW t \in Sectors, t < s, flash'[t].header = Blank, t # job.sec
          PROVE  flash'[s].header = Blank
      BY <1>3, <2>a, <2>2 DEF IInv, OrderInv
    <2>3. Hole' /\ job'.sec = job.sec
      BY <1>4 DEF Hole
    <2>4. ASSUME NEW t \in Sectors, t < job.sec PROVE flash'[t].header # Blank
      <3>1. flash[t].header # Blank
        BY <1>2, <2>a, <2>4, Constants DEF IInv, OrderInv
      <3> QED
        BY <1>3, <2>4, <3>1 DEF Sectors
    <2>5. \A t \in Sectors : flash'[t].header # job.var
      BY <1>2, <1>3, <2>a, Constants DEF IInv, OrderInv
    <2> QED
      BY <1>4, <2>1, <2>2, <2>3, <2>4, <2>5 DEF OrderInv
  <1> QED
    BY <1>5, <1>6, <1>7, <1>8 DEF IInv

LEMMA Invariance == Spec => []IInv
  <1>1. IInv /\ [Next]_vars => IInv'
    BY CallInv, ProgramTipoInv, ProgramNameInv, ProgramFirstInv, LeeReturnsInv, CompareInv,
       SectorEraseInv, MarkInv, ProgramDataInv, PowerLossInv, StutterInv
    DEF Next, Working, Lee, Escribe
  <1> QED
    BY <1>1, InitInv, PTL DEF Spec

-------------------------------------------------------------------------------
(* Theorems.                                                               *)

\* Every variable keeps its type, and a call under way has its sector and its value.
THEOREM TypeCorrect == Spec => []TypeOK
  <1>1. IInv => TypeOK
    BY DEF IInv
  <1> QED
    BY <1>1, Invariance, PTL

\* A byte is only ever programmed where the flash is erased, whenever the power failed.
THEOREM ProgrammedOnErased == Spec => []ErasedBeyond
  <1>1. IInv => ErasedBeyond
    BY DEF IInv
  <1> QED
    BY <1>1, Invariance, PTL

\* No position ever holds bytes of two values: neither the positions of leePosEnFAT nor
\* the sector escribeVar starts again are programmed twice.
THEOREM ValuesUnmixed == Spec => []NoMixture
  <1>1. IInv => NoMixture
    BY DEF IInv
  <1> QED
    BY <1>1, Invariance, PTL

\* Unless the power fails in the hole an erase leaves, a variable has one sector, and
\* encuentraVariable, which stops at the first blank one, reaches every sector in use.
THEOREM OneSectorPerVariable == Spec => []OneSectorEach
  <1>1. IInv => OneSectorEach
    BY DEF IInv, OrderInv, OneSectorEach
  <1> QED
    BY <1>1, Invariance, PTL

-------------------------------------------------------------------------------
(* The refinement: the flash, with the call under way done, is the map of  *)
(* FlashStore.                                                             *)

\* Only a write goes past the read, and only a write starts a sector again.
OpInv ==
    /\ job.again \/ job.at \in {"erase", "mark", "data"} => job.op = "escribe"
    /\ job.again => job.at \in {"tipo", "name", "first"}

LEMMA OpStep == IInv /\ OpInv /\ [Next]_vars => OpInv'
  <1> SUFFICES ASSUME IInv, OpInv, [Next]_vars PROVE OpInv'
    OBVIOUS
  <1>a. job \in Jobs
    BY DEF IInv, TypeOK, JobOK, Jobs
  <1>1. ASSUME NEW op \in {"lee", "escribe"}, NEW n \in Names, NEW v \in Values, Call(op, n, v)
        PROVE  OpInv'
    <2>1. ASSUME NEW s \in Sectors, NEW stage \in {"read", "tipo"},
                 job' = [Idle EXCEPT !.at = stage, !.op = op, !.var = n, !.val = v, !.sec = s]
          PROVE  OpInv'
      BY <2>1, NewJob DEF OpInv
    <2>2. Full(op, n) => OpInv'
      BY DEF Full, OpInv
    <2>3. \A s \in Sectors : Found(op, n, v, s) \/ Created(op, n, v, s) => OpInv'
      BY <2>1 DEF Found, Created
    <2>4. Matches(hint[n], n) => hint[n] \in Sectors
      BY DEF Matches
    <2> QED
      BY <1>1, <2>2, <2>3, <2>4 DEF Call
  <1>2. ASSUME NEW stage \in {"name", "first", "erase", "mark", "data"}, Goto(stage),
               job.at # "idle",
               stage \in {"erase", "mark", "data"} => job.op = "escribe" /\ ~job.again,
               stage \in {"name", "first"} => job.at \in {"tipo", "name"}
        PROVE  OpInv'
    <2>1. stage \in Stages \ {"idle"} /\ TypeOK
      BY DEF Stages, IInv
    <2>2. job'.at = stage /\ job'.op = job.op /\ job'.again = job.again
      BY <1>2, <2>1, NextStage
    <2> QED
      BY <1>2, <2>2 DEF OpInv
  <1>3. job' = Idle => OpInv'
    BY IdleJob DEF OpInv
  <1>4. ASSUME job.at \in {"first", "data"}, job.at = "data" => ~job.again,
               NextByte(IF job.at = "first" /\ ~job.again THEN "read" ELSE "idle")
        PROVE  OpInv'
    <2>1. CASE job' = Idle
      BY <1>3, <2>1
    <2>2. CASE job' = [job EXCEPT !.i = @ + 1]
      <3>1. job'.at = job.at /\ job'.op = job.op /\ job'.again = job.again
        BY <1>a, <2>2 DEF Jobs
      <3> QED
        BY <3>1 DEF OpInv
    <2>3. CASE job.at = "first" /\ ~job.again /\ job' = [job EXCEPT !.at = "read", !.i = 0]
      <3>1. job'.at = "read" /\ job'.again = job.again
        BY <1>a, <2>3 DEF Jobs
      <3> QED
        BY <2>3, <3>1 DEF OpInv
    <2> QED
      BY <1>4, <2>1, <2>2, <2>3 DEF NextByte
  <1>5. SectorErase => OpInv'
    <2> SUFFICES ASSUME SectorErase PROVE OpInv'
      OBVIOUS
    <2>1. job' = [job EXCEPT !.at = "tipo", !.again = TRUE] /\ job.op = "escribe"
      BY DEF SectorErase, OpInv
    <2>2. job'.at = "tipo" /\ job'.op = "escribe"
      BY <1>a, <2>1 DEF Jobs
    <2> QED
      BY <2>2 DEF OpInv
  <1>6. ProgramTipo \/ ProgramName \/ Compare \/ Mark => OpInv'
    BY <1>2, <1>3 DEF ProgramTipo, ProgramName, Compare, Mark, OpInv
  <1>7. ProgramFirst => OpInv'
    BY <1>4 DEF ProgramFirst
  <1>8. ProgramData => OpInv'
    BY <1>4 DEF ProgramData, OpInv
  <1>9. LeeReturns \/ PowerLoss => OpInv'
    BY <1>3 DEF LeeReturns, PowerLoss
  <1>10. UNCHANGED vars => OpInv'
    BY DEF vars, OpInv
  <1> QED
    BY <1>1, <1>5, <1>6, <1>7, <1>8, <1>9, <1>10 DEF Next, Working, Lee, Escribe

LEMMA SameSector ==
    ASSUME NEW r \in Sector, NEW q \in Sector, r.header = q.header, r.used = q.used,
           \A p \in Slots : r.cell[p] = q.cell[p]
    PROVE  r = q
  <1>1. r.cell \in [Slots -> Cells] /\ q.cell \in [Slots -> Cells]
    BY DEF Sector
  <1>2. r.cell = q.cell
    BY <1>1
  <1> QED
    BY <1>2 DEF Sector

LEMMA FreshIs ==
    ASSUME NEW n \in Names, NEW v \in Values
    PROVE  /\ Fresh(n, v) \in Sector /\ Fresh(n, v).header = n /\ Fresh(n, v).used = 0
           /\ Fresh(n, v).cell[0] = v
           /\ \A p \in Slots : p # 0 => Fresh(n, v).cell[p] = ErasedCell
  <1> DEFINE cells == [BlankSector.cell EXCEPT ![0] = v]
             r == [[BlankSector EXCEPT !.header = n] EXCEPT !.cell = cells]
  <1>1. Fresh(n, v) = r
    BY DEF Fresh
  <1>2. BlankSector.cell \in [Slots -> Cells]
    BY BlankIs DEF Sector
  <1>3. /\ cells \in [Slots -> Cells] /\ cells[0] = v
        /\ \A p \in Slots : p # 0 => cells[p] = ErasedCell
    BY <1>2, BlankIs, Constants, Sizes
  <1> HIDE DEF cells
  <1> DEFINE b == [BlankSector EXCEPT !.header = n]
  <1>4. b \in Sector /\ b.header = n /\ b.used = 0
    BY BlankIs DEF Sector
  <1> HIDE DEF b
  <1>5. [b EXCEPT !.cell = cells] \in Sector /\ [b EXCEPT !.cell = cells].header = n
        /\ [b EXCEPT !.cell = cells].used = 0 /\ [b EXCEPT !.cell = cells].cell = cells
    BY <1>3, <1>4 DEF Sector
  <1>6. Fresh(n, v) = [b EXCEPT !.cell = cells]
    BY <1>1 DEF b
  <1> QED
    BY <1>3, <1>5, <1>6

LEMMA WrittenIs ==
    ASSUME NEW r \in Sector, NEW p \in Slots, NEW v \in Values
    PROVE  /\ Written(r, p, v) \in Sector /\ Written(r, p, v).header = r.header
           /\ Written(r, p, v).used = p /\ Written(r, p, v).cell[p] = v
           /\ \A q \in Slots : q # p => Written(r, p, v).cell[q] = r.cell[q]
  <1> DEFINE cells == [r.cell EXCEPT ![p] = v]
             b == [r EXCEPT !.used = p]
  <1>1. r.cell \in [Slots -> Cells]
    BY DEF Sector
  <1>2. /\ cells \in [Slots -> Cells] /\ cells[p] = v
        /\ \A q \in Slots : q # p => cells[q] = r.cell[q]
    BY <1>1, Constants
  <1>3. b \in Sector /\ b.header = r.header /\ b.used = p /\ b.cell = r.cell
    BY DEF Sector
  <1>4. Written(r, p, v) = [b EXCEPT !.cell = cells]
    BY <1>3 DEF Written
  <1> HIDE DEF cells, b
  <1>5. [b EXCEPT !.cell = cells] \in Sector /\ [b EXCEPT !.cell = cells].header = r.header
        /\ [b EXCEPT !.cell = cells].used = p /\ [b EXCEPT !.cell = cells].cell = cells
    BY <1>2, <1>3 DEF Sector
  <1> QED
    BY <1>2, <1>4, <1>5

\* A map of sectors in which every variable has one and the search reaches them all.
Good(f) ==
    /\ f \in [Sectors -> Sector]
    /\ \A s, t \in Sectors : f[s].header = f[t].header /\ f[s].header \in Names => s = t
    /\ \A s, t \in Sectors : t < s /\ f[t].header = Blank => f[s].header = Blank

\* The image of the flash: what it is once the call under way is done.
LEMMA ImageIs ==
    ASSUME IInv
    PROVE  /\ Image \in [Sectors -> Sector]
           /\ \A s \in Sectors : s # job.sec => Image[s] = flash[s]
           /\ job.at \in {"idle", "read"} => Image = flash
           /\ job.at \notin {"idle", "read"} =>
                 /\ Image[job.sec] = Completed /\ Completed \in Sector
                 /\ Completed.header = job.var /\ LastValue(Completed) = job.val
  <1>1. flash \in [Sectors -> Sector]
    BY DEF IInv, TypeOK
  <1>2. CASE job.at \in {"idle", "read"}
    BY <1>1, <1>2 DEF Image
  <1>3. CASE job.at \notin {"idle", "read"}
    <2>1. /\ job.sec \in Sectors /\ job.var \in Names /\ job.val \in Values
          /\ flash[job.sec] \in Sector /\ Progress(flash[job.sec])
          /\ job.at \in Stages
      BY <1>3, AtWork DEF IInv, TypeOK, JobOK
    <2>2. /\ Completed \in Sector /\ Completed.header = job.var /\ LastValue(Completed) = job.val
      <3>1. CASE job.at \in {"erase", "tipo", "name", "first"}
        BY <2>1, <3>1, FreshIs DEF Completed, LastValue
      <3>2. CASE job.at = "mark"
        <4>1. flash[job.sec].used + 1 \in Slots /\ flash[job.sec].header = job.var
          BY <2>1, <3>2, Sizes DEF Progress, Sector, Slots
        <4> QED
          BY <2>1, <3>2, <4>1, WrittenIs DEF Completed, LastValue
      <3>3. CASE job.at = "data"
        <4>1. flash[job.sec].used \in Slots /\ flash[job.sec].header = job.var
          BY <2>1, <3>3 DEF Progress, Sector
        <4> QED
          BY <2>1, <3>3, <4>1, WrittenIs DEF Completed, LastValue
      <3> QED
        BY <1>3, <2>1, <3>1, <3>2, <3>3 DEF Stages
    <2> QED
      BY <1>1, <1>3, <2>1, <2>2 DEF Image
  <1> QED
    BY <1>2, <1>3

LEMMA ImageGood == IInv => (~holed => Good(Image))
  <1> SUFFICES ASSUME IInv, ~holed PROVE Good(Image)
    OBVIOUS
  <1>1. CASE job.at \in {"idle", "read"}
    <2>1. Image = flash /\ ~Hole /\ flash \in [Sectors -> Sector]
      BY <1>1, ImageIs DEF Hole, IInv, TypeOK
    <2> QED
      BY <2>1 DEF Good, IInv, OrderInv
  <1>2. CASE job.at \notin {"idle", "read"}
    <2>1. /\ Image \in [Sectors -> Sector] /\ Image[job.sec].header = job.var
          /\ \A s \in Sectors : s # job.sec => Image[s] = flash[s]
      BY <1>2, ImageIs
    <2>2. /\ job.sec \in Sectors /\ job.var \in Names /\ Progress(flash[job.sec]) /\ job.at \in Stages
      BY <1>2, AtWork DEF IInv, TypeOK, JobOK
    <2>3. \A t \in Sectors : t # job.sec => flash[t].header # job.var
      BY <1>2, <2>2 DEF IInv, OrderInv, Progress, Stages
    <2>4. \A s, t \in Sectors : Image[s].header = Image[t].header /\ Image[s].header \in Names => s = t
      BY <2>1, <2>3 DEF IInv, OrderInv
    <2>5. ASSUME NEW s \in Sectors, NEW t \in Sectors, t < s, Image[t].header = Blank
          PROVE  Image[s].header = Blank
      <3>1. t # job.sec /\ flash[t].header = Blank
        BY <2>1, <2>2, <2>5, Constants
      <3>2. flash[s].header = Blank
        BY <2>5, <3>1 DEF IInv, OrderInv
      <3>3. s # job.sec
        <4>1. SUFFICES ASSUME s = job.sec PROVE FALSE
          OBVIOUS
        <4>2. job.at = "tipo"
          BY <1>2, <2>2, <3>2, <4>1, Constants DEF Progress, Stages
        <4> QED
          BY <2>5, <3>1, <4>1, <4>2 DEF IInv, OrderInv
      <3> QED
        BY <2>1, <3>2, <3>3
    <2> QED
      BY <2>1, <2>4, <2>5 DEF Good
  <1> QED
    BY <1>1, <1>2

\* What the store holds for a name is the last value of its sector.
LEMMA ValueIs ==
    ASSUME NEW f, Good(f), NEW n \in Names
    PROVE  /\ \A s \in Sectors : f[s].header = n =>
                 Value(f, n) = LastValue(f[s]) /\ Value(f, n) \in Cells
           /\ (\A s \in Sectors : f[s].header # n) => Value(f, n) = Absent
  <1>1. ASSUME NEW s \in Sectors, f[s].header = n PROVE Reaches(f, n, s)
    <2>1. ASSUME NEW t \in Sectors, t < s PROVE f[t].header \notin {Blank, n}
      <3>1. f[t].header = n => t = s
        BY <1>1 DEF Good
      <3>2. f[t].header = Blank => f[s].header = Blank
        BY <2>1 DEF Good
      <3> QED
        BY <1>1, <2>1, <3>1, <3>2, Constants DEF Sectors
    <2> QED
      BY <1>1, <2>1 DEF Reaches
  <1>2. ASSUME NEW s \in Sectors, f[s].header = n
        PROVE  Value(f, n) = LastValue(f[s]) /\ Value(f, n) \in Cells
    <2>1. Reaches(f, n, s)
      BY <1>1, <1>2
    <2>2. \A t \in Sectors : Reaches(f, n, t) => t = s
      BY <1>2 DEF Reaches, Good
    <2>3. (CHOOSE t \in Sectors : Reaches(f, n, t)) = s
      BY <2>1, <2>2
    <2>4. Value(f, n) = LastValue(f[s])
      BY <2>1, <2>3 DEF Value
    <2>5. LastValue(f[s]) \in Cells
      BY DEF LastValue, Good, Sector
    <2> QED
      BY <2>4, <2>5
  <1>3. ASSUME \A s \in Sectors : f[s].header # n PROVE Value(f, n) = Absent
    BY <1>3 DEF Value, Reaches
  <1> QED
    BY <1>2, <1>3

\* A change of one sector that has at most one variable's name before and after is a
\* change of that variable only.
LEMMA OthersKeep ==
    ASSUME NEW f, NEW g, Good(f), Good(g), NEW sec \in Sectors, NEW var \in Names,
           \A s \in Sectors : s # sec => g[s] = f[s],
           f[sec].header \in {var, Blank, Part}, g[sec].header \in {var, Blank, Part}
    PROVE  \A n \in Names \ {var} : Value(g, n) = Value(f, n)
  <1> SUFFICES ASSUME NEW n \in Names \ {var} PROVE Value(g, n) = Value(f, n)
    OBVIOUS
  <1>1. \A s \in Sectors : f[s].header = n \/ g[s].header = n => s # sec /\ g[s] = f[s]
    BY Constants
  <1>2. CASE \E s \in Sectors : f[s].header = n
    <2>1. PICK s \in Sectors : f[s].header = n
      BY <1>2
    <2>2. g[s] = f[s] /\ g[s].header = n
      BY <1>1, <2>1
    <2>3. Value(f, n) = LastValue(f[s]) /\ Value(g, n) = LastValue(g[s])
      BY <2>1, <2>2, ValueIs
    <2> QED
      BY <2>2, <2>3
  <1>3. CASE \A s \in Sectors : f[s].header # n
    <2>1. \A s \in Sectors : g[s].header # n
      BY <1>1, <1>3
    <2> QED
      BY <1>3, <2>1, ValueIs
  <1> QED
    BY <1>2, <1>3

Stored == [n \in Names |-> Value(Image, n)]

LEMMA StoredNext == Stored' = [n \in Names |-> Value(Image', n)]
  BY DEF Stored, Value, Reaches, LastValue

LEMMA StoredSame == ASSUME Image' = Image PROVE Stored' = Stored
  BY StoredNext DEF Stored

LEMMA StoredChanges ==
    ASSUME Good(Image), Good(Image'), NEW sec \in Sectors, NEW var \in Names,
           \A s \in Sectors : s # sec => Image'[s] = Image[s],
           Image[sec].header \in {var, Blank, Part}, Image'[sec].header = var
    PROVE  Stored' = [Stored EXCEPT ![var] = LastValue(Image'[sec])]
  <1>1. Value(Image', var) = LastValue(Image'[sec])
    BY ValueIs
  <1>2. \A n \in Names \ {var} : Value(Image', n) = Value(Image, n)
    BY OthersKeep
  <1> QED
    BY <1>1, <1>2, StoredNext DEF Stored

\* The call under way, as FlashStore sees it.
LEMMA CallIs == ASSUME IInv, job.at # "idle" PROVE CallOf(job) # CallOf(Idle)
  BY Constants, AtWork DEF CallOf, Idle

LEMMA CallNext == CallOf(job)' = CallOf(job')
  BY DEF CallOf

\* A step on the flash is no step of the store: the image is the same.
LEMMA Stutters ==
    ASSUME Image' = Image, UNCHANGED <<result, holed>>,
           job'.op = job.op, job'.var = job.var, job'.val = job.val
    PROVE  UNCHANGED Store!vars
  <1>1. Stored' = Stored
    BY StoredSame
  <1>2. CallOf(job') = CallOf(job)
    BY DEF CallOf
  <1> QED
    BY <1>1, <1>2, CallNext DEF Store!vars, Stored

LEMMA CallRefines ==
    ASSUME IInv, ~holed, Good(Image), IInv', Good(Image'),
           NEW op \in {"lee", "escribe"}, NEW n \in Names, NEW v \in Values, Call(op, n, v)
    PROVE  Store!Call(op, n, v) \/ Store!Refuse(op, n)
  <1>1. job = Idle /\ UNCHANGED <<flash, holed>> /\ Image = flash
    BY ImageIs, IdleJob DEF Call, Found, Created, Full, power
  <1>2. ASSUME NEW s \in Sectors, flash[s].header = n, Found(op, n, v, s) PROVE Store!Call(op, n, v)
    <2>1. job'.at = "read" /\ job'.op = op /\ job'.var = n /\ job'.val = v
      BY <1>2, IdleJob DEF Found, Idle
    <2>2. Image' = Image
      <3>1. Image' = flash'
        BY <2>1 DEF Image
      <3> QED
        BY <1>1, <3>1
    <2>3. Stored' = Stored
      BY <2>2, StoredSame
    <2>4. Stored[n] # Absent
      <3>1. Value(Image, n) \in Cells
        BY <1>1, <1>2, ValueIs
      <3> QED
        BY <3>1, ConstantsOK DEF Stored, Cells
    <2>5. CallOf(job)' = [op |-> op, var |-> n, val |-> v]
      BY <2>1, CallNext DEF CallOf
    <2> QED
      BY <1>1, <1>2, <2>3, <2>4, <2>5 DEF Store!Call, Found, Stored
  <1>3. ASSUME NEW s \in Sectors, IsFirst(s, Stops(n)), flash[s].header = Blank, Created(op, n, v, s)
        PROVE  Store!Call(op, n, v)
    <2>1. job'.at = "tipo" /\ job'.op = op /\ job'.var = n /\ job'.val = v /\ job'.sec = s
      BY <1>3, IdleJob DEF Created, Idle
    <2>2. Image' = [flash EXCEPT ![s] = Fresh(n, v)]
      <3>1. Completed' = Fresh(n, v)
        BY <2>1 DEF Completed, Fresh, BlankSector, ErasedCell
      <3>2. Image' = [flash' EXCEPT ![job'.sec] = Completed']
        BY <2>1 DEF Image
      <3> QED
        BY <1>1, <2>1, <3>1, <3>2
    <2>3. /\ \A t \in Sectors : t # s => Image'[t] = Image[t]
          /\ Image'[s] = Fresh(n, v)
      BY <1>1, <2>2 DEF Good
    <2>4. Stored' = [Stored EXCEPT ![n] = v]
      <3>1. Image'[s].header = n /\ LastValue(Image'[s]) = v
        BY <2>3, FreshIs DEF LastValue
      <3> QED
        BY <1>1, <1>3, <2>3, <3>1, StoredChanges
    <2>5. Stored[n] = Absent
      <3>1. \A t \in Sectors : t < s => flash[t].header # n
        BY <1>3 DEF IsFirst, Stops, Sectors
      <3>2. \A t \in Sectors : t > s => flash[t].header = Blank
        BY <1>1, <1>3 DEF Good
      <3>3. \A t \in Sectors : Image[t].header # n
        BY <1>1, <1>3, <3>1, <3>2, Constants DEF Sectors
      <3> QED
        BY <3>3, ValueIs DEF Stored
    <2>6. CallOf(job)' = [op |-> op, var |-> n, val |-> v]
      BY <2>1, CallNext DEF CallOf
    <2> QED
      BY <1>1, <1>3, <2>4, <2>5, <2>6 DEF Store!Call, Created, Stored
  <1>4. ASSUME Full(op, n), Stops(n) = {} PROVE Store!Refuse(op, n)
    <2>1. UNCHANGED job
      BY <1>4 DEF Full
    <2>2. Image' = Image /\ CallOf(job)' = CallOf(job)
      <3>1. Image' = flash'
        BY <1>1, <2>1, IdleJob DEF Image
      <3> QED
        BY <1>1, <2>1, <3>1, CallNext
    <2>3. Stored' = Stored
      BY <2>2, StoredSame
    <2>4. Stored[n] = Absent
      <3>1. \A s \in Sectors : Image[s].header # n
        BY <1>1, <1>4 DEF Stops
      <3> QED
        BY <3>1, ValueIs DEF Stored
    <2>5. \/ result' = NoResult
          \/ op = "lee" /\ \E w \in Values : result' = [var |-> n, val |-> w]
      BY <1>4 DEF Full
    <2> QED
      BY <1>1, <2>2, <2>3, <2>4, <2>5 DEF Store!Refuse, Stored
  <1>5. Matches(hint[n], n) => hint[n] \in Sectors /\ flash[hint[n]].header = n
    BY DEF Matches
  <1> QED
    BY <1>2, <1>3, <1>4, <1>5 DEF Call

\* The image before and after a step that programs or erases: kept while the call goes
\* on, and become the flash itself when its last byte is there.
LEMMA ImageKept ==
    ASSUME IInv, IInv', job.at \notin {"idle", "read"}, job'.sec = job.sec,
           \A s \in Sectors : s # job.sec => flash'[s] = flash[s],
           \/ job'.at \notin {"idle", "read"} /\ Completed' = Completed
           \/ job'.at \in {"idle", "read"} /\ flash'[job.sec] = Completed
    PROVE  Image' = Image
  <1>1. flash \in [Sectors -> Sector] /\ flash' \in [Sectors -> Sector] /\ job.sec \in Sectors
    BY AtWork DEF IInv, TypeOK
  <1>2. Image = [flash EXCEPT ![job.sec] = Completed]
    BY DEF Image
  <1>3. Image' = IF job'.at \in {"idle", "read"} THEN flash'
                 ELSE [flash' EXCEPT ![job'.sec] = Completed']
    BY DEF Image
  <1> QED
    BY <1>1, <1>2, <1>3

LEMMA ImageDone ==
    ASSUME IInv, IInv', job.at \notin {"idle", "read"}, job' = Idle,
           \A s \in Sectors : s # job.sec => flash'[s] = flash[s],
           flash'[job.sec] = Completed
    PROVE  Image' = Image
  <1>1. flash \in [Sectors -> Sector] /\ flash' \in [Sectors -> Sector] /\ job.sec \in Sectors
    BY AtWork DEF IInv, TypeOK
  <1>2. Image = [flash EXCEPT ![job.sec] = Completed]
    BY DEF Image
  <1>3. Image' = flash'
    BY IdleJob DEF Image
  <1> QED
    BY <1>1, <1>2, <1>3

\* The value that a write stores is stored when it returns.
LEMMA WriteReturns ==
    ASSUME IInv, ~holed, Good(Image), job.at # "idle", job.op = "escribe", job' = Idle,
           Image' = Image, UNCHANGED <<result, holed>>,
           \/ Image[job.sec].header = job.var /\ LastValue(Image[job.sec]) = job.val
           \/ job.var \in Exhausted
    PROVE  Store!WriteReturns
  <1>1. Stored' = Stored /\ CallOf(job') = CallOf(Idle) /\ CallOf(job) # CallOf(Idle)
    BY StoredSame, CallIs
  <1>2. CallOf(job).op = "escribe" /\ CallOf(job).var = job.var /\ CallOf(job).val = job.val
    BY DEF CallOf
  <1>3. job.sec \in Sectors /\ job.var \in Names
    BY AtWork
  <1>4. Stored[job.var] = job.val \/ job.var \in Exhausted
    BY <1>3, ValueIs DEF Stored
  <1> QED
    BY <1>1, <1>2, <1>4, CallNext DEF Store!WriteReturns, Stored

LEMMA ReadRefines ==
    ASSUME IInv, ~holed, Good(Image), LeeReturns
    PROVE  Store!ReadReturns
  <1> DEFINE sec == job.sec
             c == flash[sec].cell[PosInPage(sec)]
  <1>1. /\ job.at = "read" /\ job.op = "lee" /\ job' = Idle /\ UNCHANGED <<flash, holed>>
        /\ result' = [var |-> job.var, val |-> c]
    BY DEF LeeReturns, power
  <1>2. /\ sec \in Sectors /\ job.var \in Names /\ flash[sec] \in Sector
        /\ flash[sec].header = job.var
    BY <1>1, AtWork DEF Progress
  <1>3. Image = flash /\ Image' = Image
    <2>1. Image = flash
      BY <1>1, ImageIs
    <2>2. Image' = flash'
      BY <1>1, IdleJob DEF Image
    <2> QED
      BY <1>1, <2>1, <2>2
  <1>4. Stored' = Stored /\ CallOf(job') = CallOf(Idle) /\ CallOf(job) # CallOf(Idle)
    BY <1>1, <1>3, StoredSame, CallIs
  <1>5. CallOf(job).op = "lee" /\ CallOf(job).var = job.var
    BY <1>1 DEF CallOf
  <1>6. c \in Cells
    BY <1>2, Sizes DEF PosInPage, Sector
  <1>7. c = Stored[job.var] \/ job.var \in Exhausted
    <2>1. flash[sec].used = Positions => job.var \in Exhausted
      BY <1>2 DEF Exhausted
    <2>2. flash[sec].used # Positions => c = LastValue(Image[sec])
      BY <1>3 DEF PosInPage, LastValue
    <2>3. Stored[job.var] = LastValue(Image[sec])
      BY <1>2, <1>3, ValueIs DEF Stored
    <2> QED
      BY <2>1, <2>2, <2>3
  <1> HIDE DEF c
  <1> QED
    BY <1>1, <1>4, <1>5, <1>6, <1>7, CallNext DEF Store!ReadReturns, Stored

LEMMA CompareRefines ==
    ASSUME IInv, ~holed, Good(Image), IInv', Good(Image'), OpInv, Compare
    PROVE  Store!WriteReturns \/ Store!Change
  <1>1. /\ job.at = "read" /\ job.op = "escribe" /\ UNCHANGED <<flash, result, holed>>
        /\ job.sec \in Sectors /\ job.var \in Names /\ flash[job.sec] \in Sector
        /\ flash[job.sec].header = job.var /\ job.val \in Values
    BY AtWork DEF Compare, power, Progress
  <1>2. Image = flash
    BY <1>1, ImageIs
  <1>3. CASE Repeated /\ job' = Idle
    <2>1. Image' = Image
      <3>1. Image' = flash'
        BY <1>3, IdleJob DEF Image
      <3> QED
        BY <1>1, <1>2, <3>1
    <2>2. \/ Image[job.sec].header = job.var /\ LastValue(Image[job.sec]) = job.val
          \/ job.var \in Exhausted
      BY <1>1, <1>2, <1>3 DEF Repeated, PosInPage, LastValue, Exhausted
    <2> QED
      BY <1>1, <1>3, <2>1, <2>2, WriteReturns
  <1>4. ASSUME NEW stage \in {"erase", "mark"}, Goto(stage) PROVE Store!Change
    <2>1. /\ job'.at = stage /\ job'.op = job.op /\ job'.var = job.var /\ job'.val = job.val
          /\ job'.sec = job.sec
      BY <1>1, <1>4, NextStage DEF IInv, Stages
    <2>2. /\ \A s \in Sectors : s # job.sec => Image'[s] = Image[s]
          /\ Image'[job.sec].header = job.var /\ LastValue(Image'[job.sec]) = job.val
      <3>1. job'.at \notin {"idle", "read"}
        BY <2>1
      <3>2. /\ \A s \in Sectors : s # job'.sec => Image'[s] = flash'[s]
            /\ Image'[job'.sec] = Completed' /\ Completed'.header = job'.var
        <4>1. Image' = [flash' EXCEPT ![job'.sec] = Completed']
          BY <3>1 DEF Image
        <4>2. Completed' = IF stage = "erase" THEN Fresh(job.var, job.val)
                           ELSE Written(flash[job.sec], flash[job.sec].used + 1, job.val)
          BY <1>1, <2>1
          DEF Completed, Fresh, Written, BlankSector, ErasedCell
        <4>3. stage = "mark" => flash[job.sec].used + 1 \in Slots
          BY <1>1, <1>4, <2>1, Sizes DEF IInv, JobInv, Progress, Sector, Slots
        <4>4. Completed'.header = job.var
          BY <1>1, <4>2, <4>3, FreshIs, WrittenIs
        <4>5. flash' \in [Sectors -> Sector]
          BY DEF IInv, TypeOK
        <4> QED
          BY <1>1, <2>1, <4>1, <4>4, <4>5
      <3>3. LastValue(Completed') = job.val
        <4>1. Completed' = IF stage = "erase" THEN Fresh(job.var, job.val)
                           ELSE Written(flash[job.sec], flash[job.sec].used + 1, job.val)
          BY <1>1, <2>1
          DEF Completed, Fresh, Written, BlankSector, ErasedCell
        <4>2. stage = "mark" => flash[job.sec].used + 1 \in Slots
          BY <1>1, <1>4, <2>1, Sizes DEF IInv, JobInv, Progress, Sector, Slots
        <4> QED
          BY <1>1, <4>1, <4>2, FreshIs, WrittenIs DEF LastValue
      <3> QED
        BY <1>1, <1>2, <2>1, <3>2, <3>3
    <2>3. Stored' = [Stored EXCEPT ![job.var] = job.val]
      BY <1>1, <1>2, <2>2, StoredChanges
    <2>4. CallOf(job') = CallOf(job) /\ CallOf(job) # CallOf(Idle)
      BY <1>1, <2>1, CallIs DEF CallOf
    <2>5. CallOf(job).op = "escribe" /\ CallOf(job).var = job.var /\ CallOf(job).val = job.val
      BY <1>1 DEF CallOf
    <2> QED
      BY <1>1, <2>3, <2>4, <2>5, CallNext DEF Store!Change, Stored
  <1> QED
    BY <1>3, <1>4 DEF Compare

\* The header, the erase and the mark are steps of the flash only.
LEMMA HeaderRefines ==
    ASSUME IInv, IInv', ProgramTipo \/ ProgramName
    PROVE  UNCHANGED Store!vars
  <1>1. /\ job.at \in {"tipo", "name"} /\ UNCHANGED <<result, holed>>
        /\ job.sec \in Sectors /\ job.var \in Names
    BY AtWork DEF ProgramTipo, ProgramName, power
  <1>2. PICK stage \in {"name", "first"} : Goto(stage)
    BY DEF ProgramTipo, ProgramName
  <1>3. /\ job'.at = stage /\ job'.op = job.op /\ job'.var = job.var /\ job'.val = job.val
        /\ job'.sec = job.sec
    BY <1>1, <1>2, NextStage DEF IInv, Stages
  <1>4. \A s \in Sectors : s # job.sec => flash'[s] = flash[s]
    BY <1>1 DEF ProgramTipo, ProgramName, IInv, TypeOK
  <1>5. Completed = Fresh(job.var, job.val) /\ Completed' = Fresh(job.var, job.val)
    BY <1>1, <1>3 DEF Completed, Fresh, BlankSector, ErasedCell
  <1>6. Image' = Image
    BY <1>1, <1>3, <1>4, <1>5, ImageKept
  <1> QED
    BY <1>1, <1>3, <1>6, Stutters

LEMMA EraseRefines == ASSUME IInv, IInv', SectorErase PROVE UNCHANGED Store!vars
  <1>1. /\ job.at = "erase" /\ UNCHANGED <<result, holed>> /\ job.sec \in Sectors
        /\ job' = [job EXCEPT !.at = "tipo", !.again = TRUE] /\ job \in Jobs
    BY AtWork DEF SectorErase, power, IInv, TypeOK, JobOK, Jobs
  <1>2. /\ job'.at = "tipo" /\ job'.op = job.op /\ job'.var = job.var /\ job'.val = job.val
        /\ job'.sec = job.sec
    BY <1>1 DEF Jobs
  <1>3. \A s \in Sectors : s # job.sec => flash'[s] = flash[s]
    BY <1>1 DEF SectorErase, IInv, TypeOK
  <1>4. Completed = Fresh(job.var, job.val) /\ Completed' = Fresh(job.var, job.val)
    BY <1>1, <1>2 DEF Completed, Fresh, BlankSector, ErasedCell
  <1>5. Image' = Image
    BY <1>1, <1>2, <1>3, <1>4, ImageKept
  <1> QED
    BY <1>1, <1>2, <1>5, Stutters

LEMMA MarkRefines == ASSUME IInv, IInv', Mark PROVE UNCHANGED Store!vars
  <1> DEFINE old == flash[job.sec]
             new == flash'[job.sec]
             p   == old.used + 1
  <1>1. /\ job.at = "mark" /\ UNCHANGED <<result, holed>>
        /\ job.sec \in Sectors /\ job.val \in Values /\ old \in Sector
        /\ flash' = [flash EXCEPT ![job.sec].used = @ + 1]
        /\ p \in Slots
    BY AtWork, Sizes DEF Mark, power, Progress, Sector, Slots
  <1>2. /\ job'.at = "data" /\ job'.op = job.op /\ job'.var = job.var /\ job'.val = job.val
        /\ job'.sec = job.sec
    BY <1>1, NextStage DEF Mark, IInv, Stages
  <1>3. /\ new \in Sector /\ new.used = p /\ new.header = old.header /\ new.cell = old.cell
        /\ \A s \in Sectors : s # job.sec => flash'[s] = flash[s]
    <2>1. /\ flash' \in [Sectors -> Sector] /\ new.used = p
          /\ new.header = old.header /\ new.cell = old.cell
      BY <1>1, UsedProgrammed DEF IInv
    <2>2. \A s \in Sectors : s # job.sec => flash'[s] = flash[s]
      BY <1>1 DEF IInv, TypeOK
    <2> QED
      BY <1>1, <2>1, <2>2
  <1>4. Completed = Written(old, p, job.val) /\ Completed' = Written(new, new.used, job.val)
    BY <1>1, <1>2 DEF Completed, Written
  <1> HIDE DEF old, new, p
  <1>5. Written(new, new.used, job.val) = Written(old, p, job.val)
    <2>1. Written(new, p, job.val) \in Sector /\ Written(old, p, job.val) \in Sector
      BY <1>1, <1>3, WrittenIs
    <2>2. /\ Written(new, p, job.val).header = Written(old, p, job.val).header
          /\ Written(new, p, job.val).used = Written(old, p, job.val).used
      BY <1>1, <1>3, WrittenIs
    <2>3. \A q \in Slots : Written(new, p, job.val).cell[q] = Written(old, p, job.val).cell[q]
      BY <1>1, <1>3, WrittenIs
    <2>4. Written(new, p, job.val) = Written(old, p, job.val)
      BY <2>1, <2>2, <2>3, SameSector
    <2> QED
      BY <1>3, <2>4
  <1>6. Image' = Image
    BY <1>1, <1>2, <1>3, <1>4, <1>5, ImageKept
  <1> QED
    BY <1>1, <1>2, <1>6, Stutters

\* A byte of a value: the last one of a write completes it.
LEMMA ByteRefines ==
    ASSUME IInv, OpInv, ~holed, Good(Image), IInv',
           job.at \in {"first", "data"}, NEW p \in Slots, p = flash[job.sec].used,
           ProgramByte(p), NEW stage \in {"idle", "read"}, NextByte(stage),
           stage = "idle" => job.op = "escribe",
           UNCHANGED <<result, power>>
    PROVE  Store!WriteReturns \/ UNCHANGED Store!vars
  <1> DEFINE old == flash[job.sec]
             new == flash'[job.sec]
  <1>1. /\ UNCHANGED <<result, holed>> /\ job.at # "idle" /\ job \in Jobs
        /\ job.sec \in Sectors /\ job.var \in Names /\ job.val \in Values
        /\ old \in Sector /\ old.header = job.var /\ job.i \in 1..Width
        /\ old.cell[p] = Partly(job.val, job.i - 1)
        /\ job.at = "first" => p = 0
    BY AtWork DEF power, Progress, IInv, TypeOK, JobOK, Jobs
  <1>2. /\ flash' \in [Sectors -> Sector]
        /\ \A s \in Sectors : s # job.sec => flash'[s] = flash[s]
        /\ new.header = old.header /\ new.used = old.used
        /\ \A q \in Slots : q # p => new.cell[q] = old.cell[q]
        /\ new.cell[p] = Partly(job.val, job.i)
    BY <1>1, ByteProgrammed DEF IInv
  <1>3. \A q \in Slots : job.at = "first" /\ q # p => old.cell[q] = ErasedCell
    BY <1>1 DEF IInv, ErasedBeyond, Slots
  <1>4. Completed = IF job.at = "first" THEN Fresh(job.var, job.val) ELSE Written(old, p, job.val)
    BY <1>1 DEF Completed
  <1>5. /\ Completed \in Sector /\ Completed.header = new.header /\ Completed.used = new.used
        /\ Completed.cell[p] = job.val
        /\ \A q \in Slots : q # p => Completed.cell[q] = new.cell[q]
    <2>1. CASE job.at = "first"
      BY <1>1, <1>2, <1>3, <1>4, <2>1, FreshIs
    <2>2. CASE job.at = "data"
      BY <1>1, <1>2, <1>4, <2>2, WrittenIs
    <2> QED
      BY <2>1, <2>2
  <1>6. CASE job.i < Width
    <2>1. job' = [job EXCEPT !.i = @ + 1]
      BY <1>6 DEF NextByte
    <2>2. /\ job'.at = job.at /\ job'.op = job.op /\ job'.var = job.var /\ job'.val = job.val
          /\ job'.sec = job.sec
      BY <1>1, <2>1 DEF Jobs
    <2>3. Completed' = Completed
      <3>1. CASE job.at = "first"
        BY <1>4, <2>2, <3>1 DEF Completed, Fresh, BlankSector, ErasedCell
      <3>2. CASE job.at = "data"
        <4>1. Completed' = Written(new, new.used, job.val)
          BY <2>2, <3>2 DEF Completed, Written
        <4> HIDE DEF new, old
        <4>2. new \in Sector /\ new.used = p
          BY <1>1, <1>2 DEF new, old
        <4>3. /\ Completed' \in Sector /\ Completed'.header = new.header /\ Completed'.used = p
              /\ Completed'.cell[p] = job.val
              /\ \A q \in Slots : q # p => Completed'.cell[q] = new.cell[q]
          BY <1>1, <4>1, <4>2, WrittenIs
        <4>4. \A q \in Slots : Completed'.cell[q] = Completed.cell[q]
          BY <1>5, <4>3
        <4> QED
          BY <1>5, <4>2, <4>3, <4>4, SameSector
      <3> QED
        BY <3>1, <3>2
    <2>4. Image' = Image
      BY <1>1, <1>2, <2>2, <2>3, ImageKept
    <2> QED
      BY <1>1, <2>2, <2>4, Stutters
  <1>7. CASE ~(job.i < Width)
    <2>1. Partly(job.val, job.i) = job.val
      <3>1. job.i = Width
        BY <1>1, <1>7, Sizes
      <3>2. job.val \in [1..Width -> Bytes]
        BY <1>1, Constants
      <3> QED
        BY <3>1, <3>2, Sizes DEF Partly
    <2>2. new = Completed
      <3>1. \A q \in Slots : new.cell[q] = Completed.cell[q]
        BY <1>2, <1>5, <2>1
      <3>2. new \in Sector
        BY <1>1, <1>2
      <3> QED
        BY <1>5, <3>1, <3>2, SameSector
    <2>3. CASE stage = "read"
      <3>1. job' = [job EXCEPT !.at = "read", !.i = 0]
        BY <1>7, <2>3 DEF NextByte
      <3>2. /\ job'.at = "read" /\ job'.op = job.op /\ job'.var = job.var /\ job'.val = job.val
            /\ job'.sec = job.sec
        BY <1>1, <3>1 DEF Jobs
      <3>3. Image' = Image
        BY <1>1, <1>2, <2>2, <3>2, ImageKept
      <3> QED
        BY <1>1, <3>2, <3>3, Stutters
    <2>4. CASE stage = "idle"
      <3>1. job' = Idle
        BY <1>7, <2>4 DEF NextByte
      <3>2. Image' = Image
        BY <1>1, <1>2, <2>2, <3>1, ImageDone
      <3>3. Image[job.sec].header = job.var /\ LastValue(Image[job.sec]) = job.val
        BY <1>1, ImageIs
      <3> QED
        BY <1>1, <2>4, <3>1, <3>2, <3>3, WriteReturns
    <2> QED
      BY <2>3, <2>4
  <1> QED
    BY <1>6, <1>7

\* A power loss leaves every other variable as it was, and its own with whatever the
\* flash holds.
LEMMA PowerLossRefines ==
    ASSUME IInv, ~holed, Good(Image), IInv', Good(Image'), PowerLoss
    PROVE  Store!PowerLoss \/ Store!Break
  <1>1. job' = Idle /\ UNCHANGED flash /\ result' = NoResult
    BY DEF PowerLoss
  <1>2. CASE holed'
    <2>1. holed' = TRUE
      <3>1. holed' \in BOOLEAN
        BY DEF IInv, TypeOK
      <3> QED
        BY <1>2, <3>1
    <2> QED
      BY <2>1 DEF Store!Break
  <1>3. CASE ~holed'
    <2>1. holed' = holed /\ Image' = flash
      <3>1. Image' = flash'
        BY <1>1, IdleJob DEF Image
      <3>2. holed \in BOOLEAN /\ holed' \in BOOLEAN
        BY DEF IInv, TypeOK
      <3>3. holed' = holed
        BY <1>3, <3>2
      <3> QED
        BY <1>1, <3>1, <3>3
    <2>2. CASE job.at \in {"idle", "read"}
      <3>1. Image' = Image
        BY <2>1, <2>2, ImageIs
      <3>2. Stored' = Stored
        BY <3>1, StoredSame
      <3> QED
        BY <1>1, <2>1, <3>2, CallNext DEF Store!PowerLoss, Stored
    <2>3. CASE job.at \notin {"idle", "read"}
      <3>1. /\ job.sec \in Sectors /\ job.var \in Names
            /\ flash[job.sec].header \in {job.var, Blank, Part}
            /\ Image[job.sec].header = job.var
            /\ \A s \in Sectors : s # job.sec => Image[s] = flash[s]
        <4>1. job.at \in Stages /\ Progress(flash[job.sec]) /\ job.sec \in Sectors /\ job.var \in Names
          BY <2>3, AtWork DEF IInv, TypeOK, JobOK
        <4>2. flash[job.sec].header \in {job.var, Blank, Part}
          BY <2>3, <4>1 DEF Progress, Stages
        <4> QED
          BY <2>3, <4>1, <4>2, ImageIs
      <3>2. \A n \in Names \ {job.var} : Value(Image', n) = Value(Image, n)
        BY <2>1, <3>1, OthersKeep
      <3>3. Value(Image', job.var) \in Cells \cup {Absent}
        BY <3>1, ValueIs
      <3>4. Stored' = [Stored EXCEPT ![job.var] = Value(Image', job.var)]
        BY <3>1, <3>2, StoredNext DEF Stored
      <3>5. CallOf(job).var = job.var /\ CallOf(job) # CallOf(Idle) /\ CallOf(job)' = CallOf(Idle)
        BY <1>1, <2>3, CallIs, CallNext DEF CallOf
      <3> QED
        BY <1>1, <2>1, <3>3, <3>4, <3>5 DEF Store!PowerLoss, Stored
    <2> QED
      BY <2>2, <2>3
  <1> QED
    BY <1>2, <1>3

\* A store that has had its hole keeps it: no step mends the order of the sectors.
LEMMA HoledForEver == IInv /\ holed /\ [Next]_vars => holed' = TRUE
  <1> SUFFICES ASSUME IInv, holed, [Next]_vars PROVE holed' = TRUE
    OBVIOUS
  <1>1. holed = TRUE
    BY DEF IInv, TypeOK
  <1>2. holed' = holed \/ holed' = (holed \/ Hole)
    BY DEF Next, Working, Lee, Escribe, Call, Found, Created, Full, ProgramTipo, ProgramName,
           ProgramFirst, LeeReturns, Compare, SectorErase, Mark, ProgramData, PowerLoss, vars, power
  <1> QED
    BY <1>1, <1>2

LEMMA InitRefines == Init => Store!Init
  <1> SUFFICES ASSUME Init PROVE Store!Init
    OBVIOUS
  <1>1. flash = [s \in Sectors |-> BlankSector] /\ job = Idle /\ result = NoResult /\ holed = FALSE
    BY DEF Init
  <1>2. Image = flash
    BY <1>1, IdleJob DEF Image
  <1>3. \A s \in Sectors : Image[s].header = Blank
    BY <1>1, <1>2 DEF BlankSector
  <1>4. Stored = [n \in Names |-> Absent]
    <2>1. \A n \in Names : Value(Image, n) = Absent
      BY <1>3, Constants DEF Value, Reaches
    <2> QED
      BY <2>1 DEF Stored
  <1> QED
    BY <1>1, <1>4 DEF Store!Init, Stored

\* Every step of the flash is a step of the store, or none.
LEMMA StepRefines ==
    ASSUME IInv, OpInv, [Next]_vars, IInv', ~holed => Good(Image), ~holed' => Good(Image')
    PROVE  [Store!Next]_(Store!vars)
  <1>1. CASE holed
    BY <1>1, HoledForEver DEF Store!Next, Store!Break
  <1>2. CASE holed' /\ ~holed
    <2>1. holed' = TRUE
      BY <1>2 DEF IInv, TypeOK
    <2> QED
      BY <2>1 DEF Store!Next, Store!Break
  <1>3. CASE ~holed /\ ~holed'
    <2> USE <1>3
    <2>1. Good(Image) /\ Good(Image')
      OBVIOUS
    <2>2. ASSUME NEW op \in {"lee", "escribe"}, NEW n \in Names, NEW v \in Values, Call(op, n, v)
          PROVE  Store!Next
      BY <2>1, <2>2, CallRefines DEF Store!Next
    <2>3. ProgramTipo \/ ProgramName => UNCHANGED Store!vars
      BY HeaderRefines
    <2>4. ProgramFirst => Store!WriteReturns \/ UNCHANGED Store!vars
      <3> SUFFICES ASSUME ProgramFirst PROVE Store!WriteReturns \/ UNCHANGED Store!vars
        OBVIOUS
      <3> DEFINE stage == IF job.again THEN "idle" ELSE "read"
      <3>1. job.at = "first" /\ ProgramByte(0) /\ NextByte(stage) /\ UNCHANGED <<result, power>>
        BY DEF ProgramFirst
      <3>2. stage \in {"idle", "read"} /\ (stage = "idle" => job.op = "escribe")
        BY DEF OpInv
      <3>3. 0 \in Slots /\ flash[job.sec].used = 0
        BY <3>1, AtWork, Sizes DEF IInv, Progress, Slots, BlankSector
      <3> HIDE DEF stage
      <3> QED
        BY <2>1, <3>1, <3>2, <3>3, ByteRefines
    <2>5. ProgramData => Store!WriteReturns \/ UNCHANGED Store!vars
      <3> SUFFICES ASSUME ProgramData PROVE Store!WriteReturns \/ UNCHANGED Store!vars
        OBVIOUS
      <3>1. /\ job.at = "data" /\ ProgramByte(flash[job.sec].used) /\ NextByte("idle")
            /\ UNCHANGED <<result, power>>
        BY DEF ProgramData
      <3>2. flash[job.sec].used \in Slots /\ job.op = "escribe"
        BY <3>1, AtWork DEF IInv, TypeOK, OpInv, Sector
      <3> QED
        BY <2>1, <3>1, <3>2, ByteRefines
    <2>6. LeeReturns => Store!ReadReturns
      BY <2>1, ReadRefines
    <2>7. Compare => Store!WriteReturns \/ Store!Change
      BY <2>1, CompareRefines
    <2>8. SectorErase \/ Mark => UNCHANGED Store!vars
      BY EraseRefines, MarkRefines
    <2>9. PowerLoss => Store!PowerLoss \/ Store!Break
      BY <2>1, PowerLossRefines
    <2>10. UNCHANGED vars => UNCHANGED Store!vars
      <3> SUFFICES ASSUME UNCHANGED vars PROVE UNCHANGED Store!vars
        OBVIOUS
      <3>1. UNCHANGED <<flash, job, result, holed>>
        BY DEF vars, power
      <3>2. Image' = Image
        BY <3>1 DEF Image, Completed
      <3> QED
        BY <3>1, <3>2, Stutters
    <2> QED
      BY <2>2, <2>3, <2>4, <2>5, <2>6, <2>7, <2>8, <2>9, <2>10
      DEF Next, Working, Lee, Escribe, Store!Next
  <1> QED
    BY <1>1, <1>2, <1>3

\* Calls, power losses between any two programmings and restarts included, the library
\* of varsGestion.cpp is a map from names to values: FlashStore.
THEOREM StoreIsImplemented == Spec => ImplementsStore
  <1> DEFINE GoodImage == ~holed => Good(Image)
  <1>1. Init => OpInv
    BY IdleJob DEF Init, OpInv
  <1>2. IInv => GoodImage
    BY ImageGood
  <1>3. IInv' => GoodImage'
    BY <1>2, PTL
  <1>4. IInv /\ OpInv /\ [Next]_vars /\ IInv' => [Store!Next]_(Store!vars)
    <2> SUFFICES ASSUME IInv, OpInv, [Next]_vars, IInv' PROVE [Store!Next]_(Store!vars)
      OBVIOUS
    <2>1. ~holed' => Good(Image')
      BY <1>3 DEF Good
    <2> QED
      BY <1>2, <2>1, StepRefines
  <1> QED
    BY <1>1, <1>4, InitRefines, OpStep, Invariance, PTL DEF Spec, ImplementsStore, Store!Spec
===============================================================================
