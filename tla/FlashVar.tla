------------------------------- MODULE FlashVar -------------------------------
(***************************************************************************)
(* The variables of src/variables/varsGestion.cpp: one sector of the flash *)
(* for each, with a header (type, checksum and name), a table of bits that *)
(* counts the positions used, and the positions, each with a value.        *)
(*                                                                         *)
(* Programming a flash only clears bits; only an erase sets them, for a    *)
(* whole sector.  Each programming and each erase is a step, so the power  *)
(* may fail between any two.  One thread makes all the calls; the sectors  *)
(* its callers remember (hint) are in RAM.                                 *)
(***************************************************************************)
EXTENDS Naturals, FiniteSets, Sequences

CONSTANTS
    Names,      \* variables of the program: a name and a type
    Bytes,      \* the bytes values are made of
    Values,     \* the values written, sequences of Width bytes
    Width,      \* longParam of the type
    LastSector, \* sectors 1 to LastSector stand for SECTORINICIALVARS to 511
    Positions,  \* bits of the table: 8 * LONGFAT
    STARTDAT,   \* where the first position starts
    SectorSize, \* bytes of a sector
    OutOfRange, \* values the wrapper's own read rejects (leeVariable32)
    LossMax,    \* the power failures of a behaviour
    Blank, Part, Erased, Mixed, Absent, None

Sectors == 1..LastSector
Slots   == 0..Positions
Cells   == [1..Width -> Bytes \cup {Erased, Mixed}]

ASSUME ConstantsOK ==
    /\ LossMax \in Nat /\ Width \in Nat \ {0} /\ LastSector \in Nat \ {0} /\ Positions \in Nat \ {0}
    /\ Erased \notin Bytes /\ Mixed \notin Bytes
    /\ Values \subseteq [1..Width -> Bytes]
    /\ OutOfRange \subseteq Values
    /\ Names # {} /\ Values # {}
    /\ {Blank, Part, None} \cap Names = {} /\ Blank # Part
    /\ Absent \notin [1..Width -> Bytes \cup {Erased, Mixed}]

\* Every position of a type lies in the sector of its variable.  The code does not look;
\* it is so for all its types but VAR50, which this module therefore leaves out.
ASSUME FitsOK ==
    /\ STARTDAT \in Nat /\ SectorSize \in Nat
    /\ STARTDAT + (Positions + 1) * Width <= SectorSize

VARIABLES
    flash,   \* the sectors: header, positions used, positions
    hint,    \* sectorParam of the callers: 0, a sector, or one past the last
    job,     \* the call under way
    result,  \* what leeVariable has just read
    losses,  \* the power failures so far
    holed    \* one of them fell between an erase and the header's first byte

power == <<losses, holed>>
vars  == <<flash, hint, job, result, power>>

Stages == {"idle", "tipo", "name", "first", "read", "erase", "mark", "data"}

-------------------------------------------------------------------------------
(* The flash.                                                              *)

ErasedCell  == [i \in 1..Width |-> Erased]
BlankSector == [header |-> Blank, used |-> 0, cell |-> [p \in Slots |-> ErasedCell]]

\* W25Q16_write: a byte that is not erased keeps the bits it has cleared.
Program(old, new) == IF old \in {Erased, new} THEN new ELSE Mixed

\* Mutant: the positions counted from one.
PosInPage_FromOne(s) == IF flash[s].used = 0 THEN 0 ELSE flash[s].used - 1

\* The position leePosEnFAT finds; with all bits used it fails and answers 0.
PosInPage(s) == IF flash[s].used = Positions THEN 0 ELSE flash[s].used

\* The sectors at which encuentraVariable stops: the variable's or a blank one.
Stops(n) == {s \in Sectors : flash[s].header \in {Blank, n}}

\* Mutant: the search starts anywhere.
IsFirst_Any(s, S) == s \in S

IsFirst(s, S) == s \in S /\ \A t \in S : s <= t

\* coincidenciaDatosVar: a header that is not complete matches no variable.
Matches(s, n) == s \in Sectors /\ flash[s].header = n

NoResult == [var |-> None, val |-> ErasedCell]

Idle == [at |-> "idle", op |-> None, var |-> None, val |-> None, sec |-> 0, i |-> 0,
         again |-> FALSE]

-------------------------------------------------------------------------------
(* leeVariable, and escribeVar with the wrapper that reads first.          *)

\* leeVariable looks for the variable, from the sector the caller remembers, and
\* creates it in the first blank sector: with the default, or the value to write.
Found(op, n, v, s) ==
    /\ job' = [Idle EXCEPT !.at = "read", !.op = op, !.var = n, !.val = v, !.sec = s]
    /\ hint' = [hint EXCEPT ![n] = s]
    /\ result' = NoResult
    /\ UNCHANGED <<flash, power>>

Created(op, n, v, s) ==
    /\ job' = [Idle EXCEPT !.at = "tipo", !.op = op, !.var = n, !.val = v, !.sec = s]
    /\ hint' = [hint EXCEPT ![n] = s]
    /\ result' = NoResult
    /\ UNCHANGED <<flash, power>>

\* No sector is left: both return 0, a read without having set its result.
Full(op, n) ==
    /\ hint' = [hint EXCEPT ![n] = LastSector + 1]
    /\ result' \in IF op = "lee" THEN [var : {n}, val : Values] ELSE {NoResult}
    /\ UNCHANGED <<flash, job, power>>

Call(op, n, v) ==
    /\ job = Idle
    /\ \/ Matches(hint[n], n) /\ Found(op, n, v, hint[n])
       \/ /\ ~Matches(hint[n], n)
          /\ \/ \E s \in Sectors : /\ IsFirst(s, Stops(n))
                                   /\ \/ flash[s].header = n /\ Found(op, n, v, s)
                                      \/ flash[s].header = Blank /\ Created(op, n, v, s)
             \/ Stops(n) = {} /\ Full(op, n)

Lee(n, d)     == Call("lee", n, d)
Escribe(n, v) == Call("escribe", n, v)

Goto(stage) == job' = [job EXCEPT !.at = stage, !.i = 1]

\* initVarFlash: the type, then checksum and name, then the value byte by byte.
ProgramTipo ==
    /\ job.at = "tipo"
    /\ flash' = [flash EXCEPT ![job.sec].header = Part]
    /\ Goto("name")
    /\ UNCHANGED <<hint, result, power>>

ProgramName ==
    /\ job.at = "name"
    /\ flash' = [flash EXCEPT ![job.sec].header = job.var]
    /\ Goto("first")
    /\ UNCHANGED <<hint, result, power>>

ProgramByte(p) ==
    flash' = [flash EXCEPT ![job.sec].cell[p][job.i] = Program(@, job.val[job.i])]

NextByte(stage) ==
    job' = IF job.i < Width THEN [job EXCEPT !.i = @ + 1]
           ELSE IF stage = "idle" THEN Idle ELSE [job EXCEPT !.at = stage, !.i = 0]

\* Within leeVariable the value is then read; escribeVar returns.
ProgramFirst ==
    /\ job.at = "first"
    /\ ProgramByte(0)
    /\ NextByte(IF job.again THEN "idle" ELSE "read")
    /\ UNCHANGED <<hint, result, power>>

\* leeVariable reads; the wrapper escribeVarXX then returns if the value is already
\* there, and else escribeVar goes on: with no position left, to erase the sector.
LeeReturns ==
    /\ job.at = "read" /\ job.op = "lee"
    /\ result' = [var |-> job.var, val |-> flash[job.sec].cell[PosInPage(job.sec)]]
    /\ job' = Idle
    /\ UNCHANGED <<flash, hint, power>>

Repeated == flash[job.sec].cell[PosInPage(job.sec)] = job.val /\ job.val \notin OutOfRange

\* Mutant: the error of leePosEnFAT is not looked at.
Compare_NoError ==
    /\ job.at = "read" /\ job.op = "escribe"
    /\ IF Repeated THEN job' = Idle ELSE Goto("mark")
    /\ UNCHANGED <<flash, hint, result, power>>

Compare ==
    /\ job.at = "read" /\ job.op = "escribe"
    /\ \/ Repeated /\ job' = Idle
       \/ ~Repeated /\ flash[job.sec].used = Positions /\ Goto("erase")
       \/ ~Repeated /\ flash[job.sec].used # Positions /\ Goto("mark")
    /\ UNCHANGED <<flash, hint, result, power>>

\* Mutant: a sector that is full is started again without erasing it.
SectorErase_Skipped ==
    /\ job.at = "erase"
    /\ job' = [job EXCEPT !.at = "tipo", !.again = TRUE]
    /\ UNCHANGED <<flash, hint, result, power>>

SectorErase ==
    /\ job.at = "erase"
    /\ flash' = [flash EXCEPT ![job.sec] = BlankSector]
    /\ job' = [job EXCEPT !.at = "tipo", !.again = TRUE]
    /\ UNCHANGED <<hint, result, power>>

\* escribeVar: the position is counted before its value is programmed.
Mark ==
    /\ job.at = "mark"
    /\ flash' = [flash EXCEPT ![job.sec].used = @ + 1]
    /\ Goto("data")
    /\ UNCHANGED <<hint, result, power>>

\* Mutant: the position is incremented twice.
ProgramData_Ahead ==
    /\ job.at = "data"
    /\ ProgramByte((flash[job.sec].used + 1) % (Positions + 1))
    /\ NextByte("idle")
    /\ UNCHANGED <<hint, result, power>>

ProgramData ==
    /\ job.at = "data"
    /\ ProgramByte(flash[job.sec].used)
    /\ NextByte("idle")
    /\ UNCHANGED <<hint, result, power>>

-------------------------------------------------------------------------------
\* The one moment at which a blank sector stands before sectors in use.
Hole == job.at = "tipo" /\ job.again

\* What is in RAM is lost.  A programming or an erase is done or not: what the chip
\* makes of half an erase is not modelled.
PowerLoss ==
    /\ losses < LossMax
    /\ losses' = losses + 1
    /\ job' = Idle
    /\ hint' = [n \in Names |-> 0]
    /\ holed' = (holed \/ Hole)
    /\ result' = NoResult
    /\ UNCHANGED flash

Init ==
    /\ flash = [s \in Sectors |-> BlankSector]
    /\ hint = [n \in Names |-> 0]
    /\ job = Idle
    /\ result = NoResult
    /\ losses = 0
    /\ holed = FALSE

Working == \/ ProgramTipo \/ ProgramName \/ ProgramFirst \/ LeeReturns \/ Compare
           \/ SectorErase \/ Mark \/ ProgramData

Next == \/ \E n \in Names, v \in Values : Lee(n, v) \/ Escribe(n, v)
        \/ Working
        \/ PowerLoss

Spec == Init /\ [][Next]_vars

-------------------------------------------------------------------------------
(* What the store holds for a name: the value at the last position used of *)
(* the sector that the search reaches, once the call under way is done.    *)

Reaches(f, n, s) == f[s].header = n /\ \A t \in Sectors : t < s => f[t].header \notin {Blank, n}

LastValue(sector) == sector.cell[sector.used]

Value(f, n) ==
    IF \E s \in Sectors : Reaches(f, n, s)
    THEN LastValue(f[CHOOSE s \in Sectors : Reaches(f, n, s)])
    ELSE Absent

Fresh(n, v) == [BlankSector EXCEPT !.header = n, !.cell[0] = v]

Written(sector, p, v) == [sector EXCEPT !.used = p, !.cell[p] = v]

Completed ==
    IF job.at \in {"erase", "tipo", "name", "first"} THEN Fresh(job.var, job.val)
    ELSE IF job.at = "mark" THEN Written(flash[job.sec], flash[job.sec].used + 1, job.val)
    ELSE Written(flash[job.sec], flash[job.sec].used, job.val)

Image == IF job.at \in {"idle", "read"} THEN flash ELSE [flash EXCEPT ![job.sec] = Completed]

CallOf(j) == [op |-> j.op, var |-> j.var, val |-> j.val]

Exhausted == {n \in Names : \E s \in Sectors : flash[s].header = n /\ flash[s].used = Positions}

Store == INSTANCE FlashStore
         WITH stored <- [n \in Names |-> Value(Image, n)], call <- CallOf(job),
              exhausted <- Exhausted, broken <- holed, NoCall <- CallOf(Idle)

-------------------------------------------------------------------------------
(* Properties.                                                             *)

Sector == [header : Names \cup {Blank, Part}, used : Slots, cell : [Slots -> Cells]]

JobOK ==
    /\ job \in [at : Stages, op : {"lee", "escribe", None}, var : Names \cup {None},
               val : Values \cup {None}, sec : 0..LastSector, i : 0..Width, again : BOOLEAN]
    /\ job.at = "idle" => job = Idle
    /\ job.at # "idle" => job.op \in {"lee", "escribe"} /\ job.var \in Names /\ job.val \in Values
                           /\ job.sec \in Sectors
    /\ job.at \in {"first", "data"} => job.i # 0

\* Every variable keeps its type; the call under way has a sector and a value.
TypeOK ==
    /\ flash \in [Sectors -> Sector]
    /\ hint \in [Names -> 0..(LastSector + 1)]
    /\ JobOK
    /\ result \in [var : Names \cup {None}, val : Cells]
    /\ losses \in 0..LossMax /\ holed \in BOOLEAN

\* Whenever the power fails, a sector without a header is erased to its end, and so is
\* every position that is not counted yet: what is programmed next finds erased bytes,
\* so it comes out as it was meant.  The position being written is erased from the byte
\* that is next.
ErasedBeyond ==
    \A s \in Sectors :
        /\ flash[s].header \in {Blank, Part} => flash[s].used = 0 /\ flash[s].cell[0] = ErasedCell
        /\ \A p \in Slots : p > flash[s].used => flash[s].cell[p] = ErasedCell

\* A position in use holds a value that was written, or as much of it as was
\* programmed before the power failed: never bytes of two values.
Torn(v) == {[i \in 1..Width |-> IF i <= k THEN v[i] ELSE Erased] : k \in 0..Width}

NoMixture == \A s \in Sectors, p \in Slots : \E v \in Values : flash[s].cell[p] \in Torn(v)

\* "Una variable ocupa 1 sector": no variable has two, and the search reaches every
\* sector in use (unless the power failed in the hole that an erase leaves).
OneSectorEach ==
    ~holed =>
        /\ \A s, t \in Sectors : flash[s].header = flash[t].header /\ flash[s].header \in Names => s = t
        /\ ~Hole => \A s, t \in Sectors : t < s /\ flash[t].header = Blank => flash[s].header = Blank

\* Calls, power losses between any two programmings and restarts included, the flash
\* implements the map of FlashStore.  A call changes no variable but its own, and a power
\* loss damages at most the variable being written.  A write that returns has stored its
\* value and a read returns what is stored, whatever sector its caller remembers, as long
\* as the variable has positions left: on the last one FlashStore promises nothing
\* (LastDatumRead has what the code says of it).
ImplementsStore == Store!Spec

\* varsGestion.cpp on the format and on escribeVar, of every position alike: the last valid
\* value is the one at the position counted, which a read returns; and a write does nothing
\* if the values coincide and writes otherwise, so that it leaves its value there.
LastDatumRead ==
    [][/\ LeeReturns => result'.val = LastValue(flash[job.sec])
       /\ Compare /\ job' = Idle => LastValue(flash[job.sec]) = job.val]_vars
===============================================================================
