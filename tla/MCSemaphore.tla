---------------------------- MODULE MCSemaphore ----------------------------
(* A small instance of Semaphore for TLC.                                  *)
EXTENDS Semaphore, TLC

=============================================================================
