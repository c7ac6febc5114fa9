-------------------------- MODULE MCModemRecovery --------------------------
(* ModemRecovery with model values for the slots.                           *)
EXTENDS ModemRecovery, TLC

CONSTANTS s1, s2

\* No definition tells the slots apart.
Symmetric == Permutations(Slots)
=============================================================================
