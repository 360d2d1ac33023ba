------------------------------ MODULE Suspend ------------------------------
(***************************************************************************)
(* Suspend to RAM, from user space's write to /sys/power/state back to     *)
(* user space: kernel/power/main.c, suspend.c and process.c, on top of the *)
(* devices (DevicePM), the wakeup counter (Wakeup) and the AM335x          *)
(* callbacks (WkupM3).                                                     *)
(*                                                                         *)
(* One processor without kernel preemption.  A process step is what runs   *)
(* between two points where the process may sleep; interrupts are taken    *)
(* between any two steps as long as the processor accepts them, and        *)
(* nothing else runs while the timer softirq is in a function.             *)
(***************************************************************************)
EXTENDS DevicePM, WkupM3

VARIABLES
  pc,       \* where enter_state is
  user,     \* user space: what it does with wakeup_count, and the value read
  sys       \* what the transition has stopped: frozen tasks, user mode
            \* helpers, the pins in their sleep setting

sysVars == <<pc, user, sys>>
vars == <<wakeupVars, dpmVars, irqVars, m3Vars, sysVars>>

Init ==
  /\ DevicePMInit /\ M3Init
  /\ pc = "user"
  /\ user = [step |-> "idle", count |-> 0]
  /\ sys = [frozen |-> FALSE, usermodehelper_disabled |-> FALSE, pads |-> "normal"]

(***************************************************************************)
(* User space: the attributes wakeup_count and state.                      *)
(***************************************************************************)

wakeup_count_show ==
  /\ pc = "user" /\ user.step = "idle" /\ Inpr(combined_event_count) = 0
  /\ user' = [step |-> "read", count |-> Cnt(combined_event_count)]
  /\ since' = 0
  /\ UNCHANGED <<counters, ws, firing, dpmVars, irqVars, m3Vars, pc, sys>>

(* User space writes the value back and goes on only if that succeeds.     *)
wakeup_count_store ==
  /\ pc = "user" /\ user.step = "read"
  /\ pm_save_wakeup_count(user.count)
  /\ user' = [step |-> IF CountUnchanged(user.count) THEN "armed" ELSE "idle", count |-> 0]
  /\ UNCHANGED <<dpmVars, irqVars, m3Vars, pc, sys>>

(* Writing to state, after wakeup_count or without it; suspend_prepare up  *)
(* to the freezer.  A notifier may refuse.                                 *)
state_store ==
  /\ pc = "user" /\ user.step \in {"idle", "armed"}
  /\ \/ pc' = "freeze_user" /\ sys' = [sys EXCEPT !.usermodehelper_disabled = TRUE]
     \/ UNCHANGED <<pc, sys>>
  /\ user' = [step |-> "idle", count |-> 0]
  /\ UNCHANGED <<wakeupVars, dpmVars, irqVars, m3Vars>>

device_wakeup_store(s) ==
  /\ ~sys.frozen
  /\ device_wakeup_enable(s) \/ device_wakeup_disable(s) \/ wakeup_source_destroy(s)
  /\ UNCHANGED <<dpmVars, irqVars, m3Vars, sysVars>>

(***************************************************************************)
(* suspend_prepare and suspend_finish.                                     *)
(***************************************************************************)

(* try_to_freeze_tasks: all tasks are frozen; or a task is not when the    *)
(* time is up; or one is not and a wakeup event is pending.                *)
try_to_freeze_tasks(here, next) ==
  /\ pc = here
  /\ \/ pc' = next /\ sys' = [sys EXCEPT !.frozen = TRUE] /\ UNCHANGED events_check_enabled
     \/ pc' = "thaw" /\ UNCHANGED <<sys, events_check_enabled>>
     \/ /\ Pending(combined_event_count)
        /\ events_check_enabled' = FALSE
        /\ pc' = "thaw" /\ UNCHANGED sys
  /\ UNCHANGED <<combined_event_count, saved_count, ws, firing, since>>
  /\ UNCHANGED <<dpmVars, irqVars, m3Vars, user>>

freeze_processes == try_to_freeze_tasks("freeze_user", "freeze_kernel")
freeze_kernel_threads == try_to_freeze_tasks("freeze_kernel", "begin")

(* suspend_thaw_processes and usermodehelper_enable.                       *)
suspend_finish ==
  /\ pc = "thaw"
  /\ sys' = [sys EXCEPT !.frozen = FALSE, !.usermodehelper_disabled = FALSE]
  /\ pc' = "user"
  /\ UNCHANGED <<wakeupVars, dpmVars, irqVars, m3Vars, user>>

(***************************************************************************)
(* suspend_devices_and_enter.                                              *)
(***************************************************************************)

Begin ==
  /\ pc = "begin" /\ am33xx_pm_begin
  /\ pc' = "beginning"
  /\ UNCHANGED <<wakeupVars, dpmVars, irqVars, user, sys>>

(* begin has returned: dpm_suspend_start, or Close.                        *)
suspend_devices ==
  /\ pc = "beginning" /\ Returned
  /\ Return
  /\ IF m3call.ret = 0
     THEN pc' = "devices" /\ dpm' = [dpm EXCEPT !.pc = "prepare", !.error = FALSE]
     ELSE pc' = "close" /\ UNCHANGED dpm
  /\ UNCHANGED <<wakeupVars, lists, is_suspended, completion, async_error, usage, thread, irqVars>>
  /\ UNCHANGED <<m3_state, ipc, mbox, a8_m3_sync, m3, hlt, stale, user, sys>>

(* suspend_enter with prepare, or Resume_devices.                          *)
suspend_enter ==
  /\ pc = "devices" /\ At("started")
  /\ IF dpm.error
     THEN pc' = "resume" /\ Goto("resume") /\ UNCHANGED sys
     ELSE pc' = "noirq" /\ Goto("suspend_noirq") /\ sys' = [sys EXCEPT !.pads = "sleep"]
  /\ UNCHANGED <<wakeupVars, lists, is_suspended, completion, async_error, usage, thread, irqVars>>
  /\ UNCHANGED <<m3Vars, user>>

(* Mutant: the interrupts that came since suspend_device_irqs are not      *)
(* looked at.                                                              *)
enter_unchecked ==
  /\ pc = "noirq" /\ At("off")
  /\ LET wakeup == Pending(combined_event_count)
     IN /\ events_check_enabled' = (events_check_enabled /\ ~wakeup)
        /\ IF wakeup THEN pc' = "waking" /\ Goto("resume_noirq")
                     ELSE pc' = "asleep" /\ UNCHANGED dpm
  /\ UNCHANGED <<combined_event_count, saved_count, ws, firing, since>>
  /\ UNCHANGED <<lists, is_suspended, completion, async_error, usage, thread, irqVars, m3Vars, user, sys>>

(* From arch_suspend_disable_irqs on: check_wakeup_irqs, then              *)
(* pm_wakeup_pending, then am33xx_pm_enter.                                *)
syscore_suspend ==
  /\ pc = "noirq" /\ At("off")
  /\ LET wakeup == ~WakeupIrqPending /\ Pending(combined_event_count)
     IN /\ events_check_enabled' = (events_check_enabled /\ ~wakeup)
        /\ IF WakeupIrqPending \/ wakeup
           THEN pc' = "waking" /\ Goto("resume_noirq")
           ELSE pc' = "asleep" /\ UNCHANGED dpm
  /\ UNCHANGED <<combined_event_count, saved_count, ws, firing, since>>
  /\ UNCHANGED <<lists, is_suspended, completion, async_error, usage, thread, irqVars, m3Vars, user, sys>>

(* am33xx_pm_enter returns, woken by an interrupt or without having slept, *)
(* and dpm_resume_noirq follows.                                           *)
am33xx_pm_enter ==
  /\ pc = "asleep"
  /\ events_check_enabled' = FALSE
  /\ pc' = "waking" /\ Goto("resume_noirq")
  /\ UNCHANGED <<combined_event_count, saved_count, ws, firing, since>>
  /\ UNCHANGED <<lists, is_suspended, completion, async_error, usage, thread, irqVars, m3Vars, user, sys>>

(* Platform_finish, after dpm_resume_noirq or after dpm_suspend_noirq has  *)
(* failed and resumed by itself; then dpm_resume_end.                      *)
am33xx_pm_finish ==
  /\ pc \in {"noirq", "waking"} /\ At("woken")
  /\ sys' = [sys EXCEPT !.pads = "normal"]
  /\ pc' = "resume" /\ Goto("resume")
  /\ UNCHANGED <<wakeupVars, lists, is_suspended, completion, async_error, usage, thread, irqVars>>
  /\ UNCHANGED <<m3Vars, user>>

devices_resumed ==
  /\ pc = "resume" /\ At("resumed")
  /\ pc' = "close" /\ Goto("idle")
  /\ UNCHANGED <<wakeupVars, lists, is_suspended, completion, async_error, usage, thread, irqVars>>
  /\ UNCHANGED <<m3Vars, user, sys>>

(* Close                                                                   *)
Close ==
  /\ pc = "close" /\ am33xx_pm_end
  /\ pc' = "ending"
  /\ UNCHANGED <<wakeupVars, dpmVars, irqVars, user, sys>>

Closed ==
  /\ pc = "ending" /\ Returned
  /\ Return
  /\ pc' = "thaw"
  /\ UNCHANGED <<wakeupVars, dpmVars, irqVars, m3_state, ipc, mbox, a8_m3_sync, m3, hlt, stale, user, sys>>

(***************************************************************************)
(* The specification.                                                      *)
(***************************************************************************)

Awake == pc # "asleep"

(* Interrupts and the timer softirq.                                       *)
DeviceIrq(s) == /\ Awake
                /\ handle_level_irq(s) \/ handle_edge_irq(s)
                /\ UNCHANGED <<m3Vars, sysVars>>
M3Irq == Awake /\ wkup_m3_txev_handler /\ UNCHANGED <<wakeupVars, dpmVars, irqVars, sysVars>>
TimerSoftirq(s) == /\ Awake
                   /\ timer_expires(s) \/ (firing = s /\ pm_wakeup_timer_fn)
                   /\ UNCHANGED <<dpmVars, irqVars, m3Vars, sysVars>>

Running == Awake /\ firing = None

Relax(s) == Running /\ pm_relax(s) /\ UNCHANGED <<dpmVars, irqVars, m3Vars, sysVars>>
AsyncThread(d) == Running /\ Thread(d) /\ UNCHANGED <<m3Vars, sysVars>>
DpmStep == Running /\ Dpm /\ UNCHANGED <<m3Vars, sysVars>>
M3Call == /\ Running
          /\ Callback
          /\ UNCHANGED <<wakeupVars, dpmVars, irqVars, sysVars>>

EnterState ==
  /\ Running
  /\ \/ freeze_processes \/ freeze_kernel_threads \/ suspend_finish
     \/ Begin \/ suspend_devices \/ suspend_enter \/ syscore_suspend
     \/ am33xx_pm_finish \/ devices_resumed \/ Close \/ Closed

User == Running /\ (wakeup_count_show \/ wakeup_count_store \/ state_store)
Attribute(s) == Running /\ device_wakeup_store(s)
M3 == M3Answers /\ UNCHANGED <<wakeupVars, dpmVars, irqVars, sysVars>>

Next ==
  \/ \E s \in Sources : Raise(s) /\ UNCHANGED <<m3Vars, sysVars>>
  \/ \E s \in Sources : DeviceIrq(s) \/ TimerSoftirq(s) \/ Relax(s) \/ Attribute(s)
  \/ M3Irq
  \/ \E d \in Device : AsyncThread(d)
  \/ DpmStep \/ M3Call \/ EnterState \/ am33xx_pm_enter \/ User \/ M3

Spec == Init /\ [][Next]_vars

(* The processes, threads and interrupt handlers run when they can, and a  *)
(* wait for the M3 ends, if only because its time runs out.  Nothing is    *)
(* assumed of the M3, of the devices, of user space or of the end of sleep.*)
FairSpec ==
  /\ Spec
  /\ WF_vars(M3Irq) /\ WF_vars(DpmStep) /\ WF_vars(M3Call) /\ WF_vars(EnterState)
  /\ \A d \in Device : WF_vars(AsyncThread(d))
  /\ \A s \in Sources : WF_vars(DeviceIrq(s)) /\ WF_vars(TimerSoftirq(s)) /\ WF_vars(Relax(s))

TypeOK ==
  /\ DevicePMTypeOK /\ M3TypeOK
  /\ pc \in {"user", "freeze_user", "freeze_kernel", "begin", "beginning", "devices",
             "noirq", "asleep", "waking", "resume", "close", "ending", "thaw"}
  /\ user \in [step : {"idle", "read", "armed"}, count : 0..(CountMod - 1)]
  /\ sys \in [frozen : BOOLEAN, usermodehelper_disabled : BOOLEAN, pads : {"normal", "sleep"}]

(***************************************************************************)
(* Properties.                                                             *)
(***************************************************************************)

(* The promise of wakeup_count (kernel/power/main.c): the system is not    *)
(* put to sleep when a wakeup event was detected after the counter was     *)
(* read, when one is still being handled, or when an edge-triggered wakeup *)
(* interrupt is waiting behind its disabled line.                          *)
NoWakeupLost ==
  pc = "asleep" /\ events_check_enabled =>
    /\ since = 0
    /\ \A s \in Sources : ws[s].state = "attached" =>
         ~ws[s].active /\ irq[s] # "pending"

(* The lower half of combined_event_count is the number of sources that    *)
(* are active, whatever the order of events, relaxations, timer functions  *)
(* and a source's removal.                                                 *)
CountBalanced ==
  Inpr(combined_event_count) = Cardinality({s \in Sources : ws[s].active})

(* A parent is suspended only under suspended children, and neither its    *)
(* suspend callback nor a child's resume callback runs while the other     *)
(* device is in the wrong state, with every device in a thread of its own. *)
ChildrenFirst ==
  \A d \in Device : \A c \in Children(d) :
    /\ d \in is_suspended => c \in is_suspended
    /\ thread[d] = "callback" => c \in is_suspended
    /\ thread[c] = "resume_callback" => d \notin is_suspended

(* The system sleeps only when every device has been suspended, in both    *)
(* phases, the lines are disabled, and the M3 has taken the command to     *)
(* bring the system to sleep; the last, unless begin found an answer to an *)
(* earlier message, which it takes for the answer to its own.              *)
AsleepQuiet ==
  pc = "asleep" =>
    /\ lists.noirq = Devices /\ is_suspended = Device
    /\ lines = "suspended" /\ sys.pads = "sleep" /\ sys.frozen
    /\ ~stale => m3.mode = "lp"

(* Answers of the M3 in a8_m3_sync, and the one still to come, if any.     *)
LateAnswers == a8_m3_sync + (IF AnswerDue THEN 1 ELSE 0)

(* However the transition ended, user space finds everything as it was:    *)
(* the devices resumed and in their order on dpm_list, no reference kept,  *)
(* the lines enabled, tasks and helpers running, the pins and the idle     *)
(* loop restored.  Of all the answers that came too late, at most one is   *)
(* left over or still to come.                                             *)
AllRestored ==
  pc = "user" =>
    /\ lists.dpm = Devices
    /\ is_suspended = {} /\ \A d \in Device : usage[d] = 0 /\ thread[d] = "none"
    /\ lines = "enabled" /\ \A s \in Sources : irq[s] \in {"none", "raised"}
    /\ ~sys.frozen /\ ~sys.usermodehelper_disabled /\ sys.pads = "normal"
    /\ hlt = 0 /\ ipc = "reset" /\ LateAnswers <= 1

(* A transition that has begun ends: the system sleeps or user space runs  *)
(* again.                                                                  *)
TransitionEnds == pc \notin {"user", "asleep"} ~> pc \in {"user", "asleep"}

=============================================================================
