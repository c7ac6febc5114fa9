----------------------------- MODULE MCQmiWwan -----------------------------
(* Instances of QmiWwan for TLC.                                           *)
EXTENDS QmiWwan, TLC

Symmetric == Permutations(Writers)
=============================================================================
