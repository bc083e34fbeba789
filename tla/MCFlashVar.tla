------------------------------ MODULE MCFlashVar ------------------------------
\* Two variables and two values of two bytes each; one value is beyond the range
\* that the wrapper of its type accepts.
EXTENDS FlashVar, TLC

CONSTANTS x, y

MCValues     == {<<x, x>>, <<y, y>>}
MCOutOfRange == {<<y, y>>}
Symm         == Permutations(Names)
===============================================================================
