------------------------------ MODULE FlashStore ------------------------------
(***************************************************************************)
(* What the flash library of src/variables promises the program: a map     *)
(* from names to values.  A call reads or writes one variable; a variable  *)
(* without a value gets the default of its reader, or the value written.   *)
(* A write that returns has stored its value, and a read returns what is   *)
(* stored.  A power loss ends the call and damages at most its variable.   *)
(*                                                                         *)
(* There are two exceptions, which the code makes.  A variable that has    *)
(* used all its positions (exhausted) may be read with an older value, and *)
(* a write to it may return without effect.  And one power loss at the     *)
(* wrong moment (broken) ends all promises.                                *)
(***************************************************************************)
CONSTANTS Names, Values,
          Cells,    \* what a position of the flash can hold, values among them
          Absent,   \* no value
          NoCall, NoResult

VARIABLES stored,
          call,      \* the call under way: its operation, variable and value
          result,    \* what the last read returned
          exhausted, \* the variables with no position left
          broken

vars == <<stored, call, result, broken>>

Init == /\ stored = [n \in Names |-> Absent]
        /\ call = NoCall /\ result = NoResult
        /\ broken = FALSE

Call(op, n, v) ==
    /\ call = NoCall
    /\ call' = [op |-> op, var |-> n, val |-> v]
    /\ \/ stored[n] # Absent /\ UNCHANGED stored
       \/ stored[n] = Absent /\ stored' = [stored EXCEPT ![n] = v]
    /\ result' = NoResult
    /\ UNCHANGED broken

\* No room for one more variable.
Refuse(op, n) ==
    /\ call = NoCall /\ stored[n] = Absent
    /\ \/ result' = NoResult
       \/ op = "lee" /\ \E v \in Values : result' = [var |-> n, val |-> v]
    /\ UNCHANGED <<stored, call, broken>>

Change ==
    /\ call # NoCall /\ call.op = "escribe"
    /\ stored' = [stored EXCEPT ![call.var] = call.val]
    /\ UNCHANGED <<call, result, broken>>

WriteReturns ==
    /\ call # NoCall /\ call.op = "escribe"
    /\ stored[call.var] = call.val \/ call.var \in exhausted
    /\ call' = NoCall
    /\ UNCHANGED <<stored, result, broken>>

ReadReturns ==
    /\ call # NoCall /\ call.op = "lee"
    /\ \E c \in Cells : /\ c = stored[call.var] \/ call.var \in exhausted
                        /\ result' = [var |-> call.var, val |-> c]
    /\ call' = NoCall
    /\ UNCHANGED <<stored, broken>>

PowerLoss ==
    /\ \/ UNCHANGED stored
       \/ /\ call # NoCall
          /\ \E c \in Cells \cup {Absent} : stored' = [stored EXCEPT ![call.var] = c]
    /\ call' = NoCall /\ result' = NoResult
    /\ UNCHANGED broken

\* The power fails at the one moment that leaves a hole among the sectors.
Break == broken' = TRUE

Next ==
    \/ /\ ~broken
       /\ \/ \E op \in {"lee", "escribe"}, n \in Names :
                Refuse(op, n) \/ \E v \in Values : Call(op, n, v)
          \/ Change \/ WriteReturns \/ ReadReturns \/ PowerLoss
    \/ Break

Spec == Init /\ [][Next]_vars
===============================================================================
