----------------------------- MODULE NurseCall -----------------------------
(***************************************************************************)
(* The nurse-call output of the monitor: drivers/nursecall/nurse_call.c.   *)
(* One GPIO pin shows an alarm, as a level in the continuous modes and as  *)
(* a pulse of one second in the pulse modes.                               *)
(*                                                                         *)
(* The kernel is uniprocessor and not preemptible and no ioctl sleeps, so  *)
(* ioctls do not interleave with each other; the timer softirq runs        *)
(* between any two statements of one.  The driver takes no lock.           *)
(***************************************************************************)
EXTENDS Integers

CONSTANT HZ  \* ticks in a second

ASSUME NurseCallAssumption == HZ \in Nat \ {0}

VARIABLES
  call_status, pulse_status, continuous_status,
  pin,    \* GPIO 3_14
  timer,  \* call_nurse_timer: "off", "pending", or "corrupt" once it was
          \* initialised while linked in the timer wheel
  left,   \* ticks until it expires
  pc,     \* the statement the ioctl is at, "idle" outside
  cmd,    \* its command
  temp,   \* its copy of the pin
  alarm,  \* history: the last alarm command since the mode was selected
  overtaken  \* history: the timer was still linked when the mode was set

vars == <<call_status, pulse_status, continuous_status, pin, timer, left, pc, cmd, temp,
          alarm, overtaken>>

PulseModes == {"PULSE_ON", "PULSE_OFF"}
Modes == PulseModes \cup {"CONTINUOUS_ON", "CONTINUOUS_OFF"}
Alarms == {"ALARM_ON", "ALARM_OFF"}

(* The level of the pin without an alarm.                                  *)
RestLevel(mode) == IF mode \in {"PULSE_ON", "CONTINUOUS_ON"} THEN 0 ELSE 1

Init == /\ call_status = "CONTINUOUS_ON"
        /\ pulse_status = "OFF" /\ continuous_status = 0
        /\ pin = 0
        /\ timer = "off" /\ left = 0
        /\ pc = "idle" /\ cmd = "ALARM_OFF" /\ temp = 0
        /\ alarm = "ALARM_OFF" /\ overtaken = FALSE

(* Back to user space; what was local to the ioctl is forgotten.           *)
Return == pc' = "idle" /\ cmd' = "ALARM_OFF" /\ temp' = 0

(***************************************************************************)
(* nurse_call_ioctl                                                        *)
(***************************************************************************)

(* A mode command up to its gpio_set_value.                                *)
select_mode(m) ==
  /\ pc = "idle"
  /\ call_status' = m
  /\ IF m \in PulseModes
     THEN pulse_status' = "OFF" /\ UNCHANGED continuous_status
     ELSE continuous_status' = RestLevel(m) /\ UNCHANGED pulse_status
  /\ alarm' = "ALARM_OFF"
  /\ pc' = "set_mode" /\ cmd' = m
  /\ UNCHANGED <<pin, timer, left, temp, overtaken>>

set_mode == /\ pc = "set_mode"
            /\ pin' = RestLevel(cmd)
            /\ overtaken' = (timer # "off")
            /\ Return
            /\ UNCHANGED <<call_status, pulse_status, continuous_status, timer, left, alarm>>

(* handle_alarm_task up to gpio_get_value.                                 *)
handle_alarm_task(a) ==
  /\ pc = "idle"
  /\ alarm' = a
  /\ IF call_status \in PulseModes
     THEN IF a = "ALARM_ON" /\ pulse_status # "ON"
          THEN pulse_status' = "ON" /\ pc' = "get" /\ cmd' = a
          ELSE UNCHANGED <<pulse_status, pc, cmd>>
     ELSE pc' = "get" /\ cmd' = a /\ UNCHANGED pulse_status
  /\ UNCHANGED <<call_status, continuous_status, pin, timer, left, temp, overtaken>>

get_pin == /\ pc = "get"
           /\ temp' = pin
           /\ pc' = "set"
           /\ UNCHANGED <<call_status, pulse_status, continuous_status, pin, timer, left, cmd, alarm,
                          overtaken>>

(* Mutant: the level is inverted whatever it is.                           *)
set_level_toggles == /\ pc = "set" /\ call_status \notin PulseModes
                     /\ pin' = 1 - temp
                     /\ Return
                     /\ UNCHANGED <<call_status, pulse_status, continuous_status, timer, left, alarm,
                                    overtaken>>

(* Continuous modes: the pin is inverted if it does not show the alarm.    *)
set_level == /\ pc = "set" /\ call_status \notin PulseModes
             /\ pin' = IF (cmd = "ALARM_ON") = (temp = continuous_status) THEN 1 - temp ELSE pin
             /\ Return
             /\ UNCHANGED <<call_status, pulse_status, continuous_status, timer, left, alarm,
                            overtaken>>

(* Pulse modes: the pulse begins, and its timer is set up.                 *)
set_pulse == /\ pc = "set" /\ call_status \in PulseModes
             /\ pin' = 1 - temp
             /\ pc' = "add_timer"
             /\ UNCHANGED <<call_status, pulse_status, continuous_status, timer, left, cmd, temp, alarm,
                            overtaken>>

(* init_timer forgets that the timer is linked; add_timer then links it a  *)
(* second time.                                                            *)
add_timer == /\ pc = "add_timer"
             /\ timer' = IF timer = "off" THEN "pending" ELSE "corrupt"
             /\ left' = HZ
             /\ Return
             /\ UNCHANGED <<call_status, pulse_status, continuous_status, pin, alarm, overtaken>>

(***************************************************************************)
(* The timer softirq.                                                      *)
(***************************************************************************)

(* The timer expires; one that was linked twice may run at any time.       *)
Expire == \/ timer = "pending" /\ left = 0 /\ timer' = "off"
          \/ timer = "corrupt" /\ UNCHANGED timer

(* Mutant: the end of the pulse is not noted.                              *)
call_timer_fn_keeps_status == /\ Expire
                              /\ pin' = 1 - pin
                              /\ UNCHANGED <<call_status, pulse_status, continuous_status, left,
                                             pc, cmd, temp, alarm, overtaken>>

call_timer_fn == /\ Expire
                 /\ pulse_status' = "OFF"
                 /\ pin' = 1 - pin
                 /\ UNCHANGED <<call_status, continuous_status, left, pc, cmd, temp, alarm, overtaken>>

(* jiffies advances.                                                       *)
tick == /\ timer = "pending" /\ left > 0
        /\ left' = left - 1
        /\ UNCHANGED <<call_status, pulse_status, continuous_status, pin, timer, pc, cmd, temp, alarm,
                       overtaken>>

Ioctl == set_mode \/ get_pin \/ set_level \/ set_pulse \/ add_timer
Next == (\E m \in Modes : select_mode(m)) \/ (\E a \in Alarms : handle_alarm_task(a))
        \/ Ioctl \/ tick \/ call_timer_fn

Spec == Init /\ [][Next]_vars

(* An ioctl runs to its end, time passes, and a timer that is linked       *)
(* properly expires.                                                       *)
FairSpec == Spec /\ WF_vars(Ioctl) /\ WF_vars(timer = "pending" /\ (tick \/ call_timer_fn))

(***************************************************************************)
(* Properties.                                                             *)
(***************************************************************************)

TypeOK == /\ call_status \in Modes
          /\ pulse_status \in {"ON", "OFF"}
          /\ continuous_status \in {0, 1}
          /\ pin \in {0, 1} /\ temp \in {0, 1}
          /\ timer \in {"off", "pending", "corrupt"}
          /\ left \in 0..HZ
          /\ pc \in {"idle", "set_mode", "get", "set", "add_timer"}
          /\ cmd \in Modes \cup Alarms
          /\ alarm \in Alarms /\ overtaken \in BOOLEAN

(* What the pin should show between two ioctls: in a pulse mode, a pulse   *)
(* exactly while the timer runs; in a continuous mode, the last alarm      *)
(* command.                                                                *)
Shown == IF call_status \in PulseModes THEN timer = "pending" ELSE alarm = "ALARM_ON"

(* Between two ioctls the pin is off its rest level exactly if there is    *)
(* something to show, whenever the timer fired during the last ioctl: the  *)
(* one exception is a mode whose level was set with the timer of an        *)
(* earlier pulse still linked, which will invert it.                       *)
PinShowsCall == pc = "idle" /\ ~overtaken => ((pin # RestLevel(call_status)) <=> Shown)

(* The driver breaks the timer wheel in one way only: it is told a mode    *)
(* while a pulse is shown.                                                 *)
CorruptOnlyOvertaken == timer = "corrupt" => overtaken

(* The part of the inductive invariant beside the types.  The first three  *)
(* hold always; the others, of a mode that was set with the timer off:     *)
(* there a running timer means a pulse in a pulse mode, and an ioctl that  *)
(* is past its first statement has the driver to itself.                   *)
ModeInv ==
  /\ call_status \notin PulseModes => continuous_status = RestLevel(call_status)
  /\ pc = "set_mode" => /\ cmd = call_status /\ alarm = "ALARM_OFF"
                        /\ call_status \in PulseModes => pulse_status = "OFF"
  /\ pc \in {"get", "set", "add_timer"} => cmd = alarm

AloneInIoctl ==
  /\ timer = "pending" => pc = "idle" /\ call_status \in PulseModes
  /\ call_status \in PulseModes /\ pc # "idle" => pulse_status = "ON"
  /\ call_status \in PulseModes /\ pc = "idle" => (pulse_status = "ON" <=> timer = "pending")
  /\ pc \in {"get", "set"} /\ call_status \in PulseModes => pin = RestLevel(call_status)
  /\ pc = "set" => temp = pin
  /\ pc = "add_timer" => call_status \in PulseModes /\ pin # RestLevel(call_status)

(* A pulse ends: call_timer_fn runs and allows the next one, unless the    *)
(* timer wheel was broken before.                                          *)
PulseEnds == (pulse_status = "ON") ~> (pulse_status = "OFF" \/ timer = "corrupt")

=============================================================================
