---------------------------- MODULE MCAdaptive5G ----------------------------
(* Small instances of the guarded SA/NSA comparison.                       *)
EXTENDS Adaptive5G

OneSlot      == {"4_1"}
AutoBoot     == {[mode |-> "auto", rat |-> "AUTO"]}
AnyBoot      == [mode : Deployments, rat : Rats]
AdaptiveOnly == {"auto_adaptive"}
AnyChoice    == {"auto_adaptive", "nsa"}
AnyEdit      == {"sa"}
OneRat       == {"LTE"}
None         == {}
=============================================================================
