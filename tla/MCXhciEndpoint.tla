--------------------------- MODULE MCXhciEndpoint ---------------------------
(* Instances of XhciEndpoint for TLC.                                      *)
EXTENDS XhciEndpoint, TLC

NoFault == [k \in Faults |-> 0]

AllocAndTimeouts ==
  {[type |-> "bulk", left |-> [NoFault EXCEPT !["alloc"] = 1]],
   [type |-> "control", left |-> [NoFault EXCEPT !["timeout"] = 2, !["mute"] = 1]]}

\* No definition tells the URBs apart.
Symmetric == Permutations(Urbs)
=============================================================================
