------------------------------ MODULE ConfigBlock ------------------------------
(***************************************************************************)
(* The configuration of src/variables/variables.cpp: eleven numbers in RAM *)
(* and, in sector 0 of the flash, a block that keeps them.  The block is   *)
(* erased and written anew each time, its key last; a block without its    *)
(* key is erased and written with what the RAM holds.  The power may fail  *)
(* between any two steps.                                                  *)
(*                                                                         *)
(* leeVariables, reseteaEeprom and escribeVariables call one another: the  *)
(* inner leeVariables stops the SPI, and the outer one goes on reading.    *)
(* The kernel is built with assertions on (chconf.h), so that the driver   *)
(* halts the system there.                                                 *)
(***************************************************************************)
EXTENDS Naturals

CONSTANTS
    NumFields, \* the numbers of the configuration
    Values,    \* what one of them may be
    Zero,      \* a variable without initial value
    Default,   \* leeVariables' value for a board without flash
    LossMax,   \* the power failures of a behaviour
    Erased, Mixed

ASSUME ConstantsOK ==
    /\ NumFields \in Nat \ {0} /\ LossMax \in Nat
    /\ Zero \in Values /\ Default \in Values
    /\ Erased \notin Values /\ Mixed \notin Values

VARIABLES
    key,     \* sector 0: is the key there
    field,   \* sector 0: the fields
    ram,     \* modoRadio, sBeacon, ..., idVacon
    stage,   \* where the call under way is
    i,       \* the field escribeVariables programs next
    nested,  \* leeVariables has called itself
    present, \* W25Q16_start finds the chip
    saved,   \* what the last escribeVariables was given to write
    losses   \* the power failures so far

block == <<key, field>>
vars  == <<block, ram, stage, i, nested, present, saved, losses>>

Fields == 1..NumFields
Stages == {"off", "lee", "reset", "erase", "field", "key", "stopped", "halted", "idle"}

Zeros      == [f \in Fields |-> Zero]
ErasedData == [f \in Fields |-> Erased]

\* W25Q16_write_u16: a byte that is not erased keeps the bits it has cleared.
Program(old, new) == IF old \in {Erased, new} THEN new ELSE Mixed

PowerUp ==
    /\ stage = "off"
    /\ stage' = "lee"
    /\ ram' = Zeros
    /\ present' \in BOOLEAN
    /\ UNCHANGED <<block, i, nested, saved, losses>>

\* leeVariables with a key: it reads the fields, and stops the SPI.
LeeBlock ==
    /\ stage = "lee" /\ present /\ key
    /\ ram' = field
    /\ stage' = IF nested THEN "stopped" ELSE "idle"
    /\ UNCHANGED <<block, i, nested, present, saved, losses>>

LeeDefaults ==
    /\ stage = "lee" /\ ~present
    /\ ram' = [f \in Fields |-> Default]
    /\ stage' = "idle"
    /\ UNCHANGED <<block, i, nested, present, saved, losses>>

\* Mutant: a block without its key is not reset.
LeeNoKey_Ignored ==
    /\ stage = "lee" /\ present /\ ~key
    /\ stage' = "idle"
    /\ UNCHANGED <<block, ram, i, nested, present, saved, losses>>

LeeNoKey ==
    /\ stage = "lee" /\ present /\ ~key
    /\ stage' = "reset"
    /\ nested' = TRUE
    /\ UNCHANGED <<block, ram, i, present, saved, losses>>

\* The leeVariables that called reseteaEeprom reads from an SPI that is stopped.
ReadStopped ==
    /\ stage = "stopped"
    /\ stage' = "halted"
    /\ UNCHANGED <<block, ram, i, nested, present, saved, losses>>

\* Mutant: reseteaEeprom erases and does not write.
Reset_EraseOnly ==
    /\ stage = "reset"
    /\ key' = FALSE /\ field' = ErasedData
    /\ stage' = "stopped"
    /\ UNCHANGED <<ram, i, nested, present, saved, losses>>

Reset ==
    /\ stage = "reset"
    /\ key' = FALSE /\ field' = ErasedData
    /\ stage' = "erase"
    /\ UNCHANGED <<ram, i, nested, present, saved, losses>>

\* The program changes its configuration and calls escribeVariables.
Escribe(c) ==
    /\ stage = "idle"
    /\ ram' = c
    /\ stage' = IF present THEN "erase" ELSE "lee"
    /\ UNCHANGED <<block, i, nested, present, saved, losses>>

\* Mutant: the new configuration is programmed over the old one.
Erase_Skipped ==
    /\ stage = "erase"
    /\ saved' = ram
    /\ stage' = "field" /\ i' = 1
    /\ UNCHANGED <<block, ram, nested, present, losses>>

\* Mutant: the key is written first.
Erase_KeyFirst ==
    /\ stage = "erase"
    /\ key' = TRUE /\ field' = ErasedData
    /\ saved' = ram
    /\ stage' = "field" /\ i' = 1
    /\ UNCHANGED <<ram, nested, present, losses>>

Erase ==
    /\ stage = "erase"
    /\ key' = FALSE /\ field' = ErasedData
    /\ saved' = ram
    /\ stage' = "field" /\ i' = 1
    /\ UNCHANGED <<ram, nested, present, losses>>

ProgramField ==
    /\ stage = "field"
    /\ field' = [field EXCEPT ![i] = Program(@, ram[i])]
    /\ \/ i < NumFields /\ i' = i + 1 /\ stage' = stage
       \/ i = NumFields /\ i' = i /\ stage' = "key"
    /\ UNCHANGED <<key, ram, nested, present, saved, losses>>

ProgramKey ==
    /\ stage = "key"
    /\ key' = TRUE
    /\ stage' = "lee"
    /\ UNCHANGED <<field, ram, i, nested, present, saved, losses>>

\* A programming or an erase is done or not: what the chip makes of half an erase
\* is not modelled.
PowerLoss ==
    /\ stage # "off"
    /\ losses < LossMax
    /\ losses' = losses + 1
    /\ stage' = "off" /\ nested' = FALSE
    /\ UNCHANGED <<block, ram, i, present, saved>>

Init ==
    /\ key = FALSE /\ field = ErasedData
    /\ ram = Zeros /\ saved = Zeros
    /\ stage = "off" /\ i = 1 /\ nested = FALSE
    /\ present = FALSE
    /\ losses = 0

Working == LeeBlock \/ LeeDefaults \/ LeeNoKey \/ ReadStopped \/ Reset \/ Erase
           \/ ProgramField \/ ProgramKey

Next == PowerUp \/ Working \/ (\E c \in [Fields -> Values] : Escribe(c)) \/ PowerLoss

Spec == Init /\ [][Next]_vars

-------------------------------------------------------------------------------
(* Properties.                                                             *)

\* Every variable keeps its type; fields are programmed in erased flash only.
TypeOK ==
    /\ key \in BOOLEAN /\ field \in [Fields -> Values \cup {Erased}]
    /\ ram \in [Fields -> Values] /\ saved \in [Fields -> Values]
    /\ stage \in Stages /\ i \in Fields
    /\ nested \in BOOLEAN /\ present \in BOOLEAN
    /\ losses \in 0..LossMax

\* A block with its key holds one whole configuration, the last that was to be written:
\* no power loss leaves a mixture of two, or one with fields missing.
KeyedIsWhole == key => field = saved

\* Whenever no call is under way, a board that has its flash works with what the flash
\* holds, and the flash will be read at the next start.
RamIsStored == stage = "idle" /\ present => key /\ ram = field

\* A board that halts in the nested leeVariables does so once: its block is written by
\* then, so that the next start reads it.
HaltsOnce == stage \in {"stopped", "halted"} => key /\ ram = saved /\ saved = Zeros
===============================================================================
