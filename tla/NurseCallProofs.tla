-------------------------- MODULE NurseCallProofs --------------------------
(* Proofs about NurseCall, for every HZ and every order of commands.       *)
EXTENDS NurseCall, TLAPS

Inv == /\ TypeOK /\ ModeInv /\ CorruptOnlyOvertaken /\ PinShowsCall
       /\ ~overtaken /\ pc # "set_mode" => AloneInIoctl

USE DEF Modes, PulseModes, Alarms, RestLevel

(* The initial state of the driver satisfies the invariant.                *)
LEMMA NurseCallInit == Init => Inv
<1> SUFFICES ASSUME Init PROVE Inv
  OBVIOUS
<1>1. TypeOK
  <2>1. left \in 0..HZ
    BY NurseCallAssumption DEF Init
  <2> QED
    BY <2>1, Zenon DEF Init, TypeOK
<1>2. ModeInv /\ CorruptOnlyOvertaken /\ PinShowsCall
  BY DEF Init, ModeInv, CorruptOnlyOvertaken, PinShowsCall, Shown
<1>3. AloneInIoctl
  BY DEF Init, AloneInIoctl
<1> QED
  BY <1>1, <1>2, <1>3 DEF Inv

(* Every statement of an ioctl and every run of the timer preserves it.    *)
LEMMA NurseCallStep ==
  ASSUME Inv, [Next]_vars
  PROVE  Inv'
<1> USE NurseCallAssumption DEF Inv, TypeOK, ModeInv, CorruptOnlyOvertaken, AloneInIoctl, PinShowsCall, Shown
<1>1. ASSUME NEW m \in Modes, select_mode(m) PROVE Inv'
  BY <1>1 DEF select_mode
<1>2. ASSUME NEW a \in Alarms, handle_alarm_task(a) PROVE Inv'
  BY <1>2 DEF handle_alarm_task
<1>3. CASE set_mode
  BY <1>3 DEF set_mode, Return
<1>4. CASE get_pin
  BY <1>4 DEF get_pin
<1>5. CASE set_level
  BY <1>5 DEF set_level, Return
<1>6. CASE set_pulse
  BY <1>6 DEF set_pulse
<1>7. CASE add_timer
  BY <1>7 DEF add_timer, Return
<1>8. CASE call_timer_fn
  BY <1>8 DEF call_timer_fn, Expire
<1>9. CASE tick
  BY <1>9 DEF tick
<1>10. CASE UNCHANGED vars
  BY <1>10 DEF vars
<1> QED
  BY <1>1, <1>2, <1>3, <1>4, <1>5, <1>6, <1>7, <1>8, <1>9, <1>10 DEF Next, Ioctl

(* Whatever commands come in whatever order, and wherever the timer runs   *)
(* between two statements, the pin shows the call between two ioctls: a    *)
(* pulse exactly while its timer runs, or the last alarm.  Only a mode set *)
(* with the timer of an earlier pulse still linked is left wrong.          *)
THEOREM NurseCallPin == Spec => []PinShowsCall
<1>1. Inv /\ [Next]_vars => Inv'
  BY NurseCallStep
<1>2. Inv => PinShowsCall
  BY DEF Inv
<1> QED
  BY NurseCallInit, <1>1, <1>2, PTL DEF Spec

(* Only after a mode was set in the middle of a pulse does                 *)
(* handle_alarm_task initialise a linked timer.                            *)
THEOREM NurseCallTimer == Spec => []CorruptOnlyOvertaken
<1>1. Inv /\ [Next]_vars => Inv'
  BY NurseCallStep
<1>2. Inv => CorruptOnlyOvertaken
  BY DEF Inv
<1> QED
  BY NurseCallInit, <1>1, <1>2, PTL DEF Spec

=============================================================================
