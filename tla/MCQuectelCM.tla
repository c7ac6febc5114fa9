---------------------------- MODULE MCQuectelCM ----------------------------
(* Instances of QuectelCM for TLC.                                         *)
EXTENDS QuectelCM, TLC

Ipv4 == {4}
Dual == {4, 6}
Delays == <<1, 2>>
=============================================================================
