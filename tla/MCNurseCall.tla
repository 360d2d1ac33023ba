---------------------------- MODULE MCNurseCall ----------------------------
(* NurseCall for TLC.                                                      *)
EXTENDS NurseCall

=============================================================================
