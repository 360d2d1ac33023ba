-------------------------------- MODULE KTask --------------------------------
(***************************************************************************)
(* Task states and signals as the sleeping code of the kernel sees them    *)
(* (include/linux/sched.h).                                                *)
(***************************************************************************)

SleepStates == {"INTERRUPTIBLE", "KILLABLE", "UNINTERRUPTIBLE"}

TaskStates == {"RUNNING"} \cup SleepStates

(* What is pending for a task.                                             *)
Signals == {"none", "signal", "fatal"}

(* Whether pending signal s ends, or wakes, a sleep in the given state.    *)
signal_pending_state(st, s) == \/ st = "INTERRUPTIBLE" /\ s # "none"
                               \/ st = "KILLABLE" /\ s = "fatal"

=============================================================================
