------------------------------ MODULE MCCpdma ------------------------------
(* A small instance of Cpdma for TLC.                                      *)
EXTENDS Cpdma, TLC

=============================================================================
