-------------------------- MODULE ConfigBlock_proofs ---------------------------
(***************************************************************************)
(* Proofs about the configuration block, for every number of fields, every *)
(* set of values and every number of power failures.  The inductive        *)
(* invariant says what each stage of a call has already done.              *)
(***************************************************************************)
EXTENDS ConfigBlock, TLAPS

\* Fields before i are programmed with the RAM's, the others are erased.
Programmed(n) ==
    /\ ~key
    /\ saved = ram
    /\ \A f \in Fields : field[f] = IF f < n THEN ram[f] ELSE Erased

StageInv ==
    /\ stage = "field" => Programmed(i)
    /\ stage = "key" => Programmed(NumFields + 1)
    /\ stage = "lee" /\ present /\ ~key => ram = Zeros
    /\ stage \in {"reset", "erase", "field", "key", "stopped", "halted"} => present

\* The nested leeVariables is there only to write the zeros of a start.
NestedInv ==
    /\ nested => present /\ ram = Zeros /\ stage \notin {"off", "idle"}
    /\ nested /\ stage \in {"field", "key", "lee"} => saved = Zeros
    /\ nested /\ stage = "lee" => key
    /\ stage \in {"stopped", "halted"} => nested /\ key /\ saved = Zeros

IInv == TypeOK /\ KeyedIsWhole /\ RamIsStored /\ StageInv /\ NestedInv


LEMMA ErasedBlock ==
    /\ ErasedData \in [Fields -> Values \cup {Erased}]
    /\ \A f \in Fields : ErasedData[f] = Erased
  BY DEF ErasedData

LEMMA ZerosOK == Zeros \in [Fields -> Values]
  BY ConstantsOK DEF Zeros

LEMMA InitInv == Init => IInv
  <1> SUFFICES ASSUME Init PROVE IInv
    OBVIOUS
  <1>1. TypeOK
    <2>1. key \in BOOLEAN /\ nested \in BOOLEAN /\ present \in BOOLEAN
      BY DEF Init
    <2>2. /\ field \in [Fields -> Values \cup {Erased}]
          /\ ram \in [Fields -> Values] /\ saved \in [Fields -> Values]
      BY ErasedBlock, ZerosOK DEF Init
    <2>3. i \in Fields /\ losses \in 0..LossMax /\ stage \in Stages
      BY ConstantsOK DEF Init, Fields, Stages
    <2> QED
      BY <2>1, <2>2, <2>3 DEF TypeOK
  <1> QED
    BY <1>1, ErasedBlock DEF Init, IInv, KeyedIsWhole, RamIsStored, StageInv, NestedInv

\* The part of the invariant that speaks of one stage follows once the others are seen
\* to be left.
LEMMA NextInv ==
    ASSUME IInv, [Next]_vars
    PROVE  IInv'
  <1> USE ConstantsOK, ZerosOK DEF IInv, TypeOK, KeyedIsWhole, RamIsStored, StageInv, NestedInv, Programmed,
          Fields, Stages, block
  <1>1. CASE PowerUp
    BY <1>1 DEF PowerUp
  <1>2. CASE LeeBlock
    BY <1>2 DEF LeeBlock
  <1>3. CASE LeeDefaults
    BY <1>3 DEF LeeDefaults
  <1>4. CASE LeeNoKey
    BY <1>4 DEF LeeNoKey
  <1>5. CASE ReadStopped
    BY <1>5 DEF ReadStopped
  <1>6. CASE Reset
    BY <1>6, ErasedBlock DEF Reset
  <1>7. CASE Erase
    <2>1. /\ ~key' /\ saved' = ram' /\ stage' = "field" /\ i' = 1
          /\ \A f \in Fields : field'[f] = Erased
      BY <1>7, ErasedBlock DEF Erase
    <2>2. TypeOK'
      <3>1. key' \in BOOLEAN /\ field' \in [Fields -> Values \cup {Erased}]
        BY <1>7, ErasedBlock DEF Erase
      <3>2. i' \in Fields
        BY <2>1
      <3> QED
        BY <1>7, <3>1, <3>2 DEF Erase
    <2>3. Programmed(i)'
      BY <2>1
    <2>4. StageInv'
      BY <1>7, <2>1, <2>3 DEF Erase
    <2> QED
      BY <1>7, <2>1, <2>2, <2>4 DEF Erase
  <1>8. CASE ProgramField
    <2>1. /\ ~key /\ saved = ram
          /\ \A f \in Fields : field[f] = IF f < i THEN ram[f] ELSE Erased
      BY <1>8 DEF ProgramField
    <2>2. /\ field' = [field EXCEPT ![i] = ram[i]]
          /\ field' \in [Fields -> Values \cup {Erased}]
      BY <1>8, <2>1 DEF ProgramField, Program
    <2>3. \A f \in Fields : field'[f] = IF f < i + 1 THEN ram[f] ELSE Erased
      BY <2>1, <2>2
    <2>4. CASE i < NumFields
      BY <1>8, <2>1, <2>2, <2>3, <2>4 DEF ProgramField
    <2>5. CASE i = NumFields
      BY <1>8, <2>1, <2>2, <2>3, <2>5 DEF ProgramField
    <2> QED
      BY <1>8, <2>4, <2>5 DEF ProgramField
  <1>9. CASE ProgramKey
    <2>1. field = ram
      BY <1>9 DEF ProgramKey
    <2> QED
      BY <1>9, <2>1 DEF ProgramKey
  <1>10. ASSUME NEW c \in [Fields -> Values], Escribe(c) PROVE IInv'
    BY <1>10 DEF Escribe
  <1>11. CASE PowerLoss
    <2>1. losses' \in 0..LossMax
      BY <1>11 DEF PowerLoss
    <2> QED
      BY <1>11, <2>1 DEF PowerLoss
  <1>12. CASE UNCHANGED vars
    BY <1>12 DEF vars
  <1> QED
    BY <1>1, <1>2, <1>3, <1>4, <1>5, <1>6, <1>7, <1>8, <1>9, <1>10, <1>11, <1>12 DEF Next, Working

LEMMA Invariance == Spec => []IInv
  BY InitInv, NextInv, PTL DEF Spec

\* Types; and a field is only ever programmed in erased flash.
THEOREM TypeCorrect == Spec => []TypeOK
  <1>1. IInv => TypeOK
    BY DEF IInv
  <1> QED
    BY <1>1, Invariance, PTL

\* However often the power fails, a block with its key is one whole configuration.
THEOREM KeyedBlockIsWhole == Spec => []KeyedIsWhole
  <1>1. IInv => KeyedIsWhole
    BY DEF IInv
  <1> QED
    BY <1>1, Invariance, PTL

\* Between calls RAM and flash hold the same configuration.
THEOREM RamIsBlock == Spec => []RamIsStored
  <1>1. IInv => RamIsStored
    BY DEF IInv
  <1> QED
    BY <1>1, Invariance, PTL

\* A board that halts at its start has written its block, and does not halt again there.
THEOREM HaltsOnceOnly == Spec => []HaltsOnce
  <1>1. IInv => HaltsOnce
    BY DEF IInv, NestedInv, HaltsOnce
  <1> QED
    BY <1>1, Invariance, PTL
===============================================================================
