------------------------------- MODULE MCCpsw -------------------------------
(* Cpsw for TLC: the constants are numbers, given in the configurations.   *)
EXTENDS Cpsw

=============================================================================
