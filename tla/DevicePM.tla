------------------------------ MODULE DevicePM ------------------------------
(***************************************************************************)
(* System suspend and resume of the devices: drivers/base/power/main.c,    *)
(* with the interrupt lines as kernel/irq treats them meanwhile.           *)
(*                                                                         *)
(* dpm is the thread that runs the transition; a device with async_suspend *)
(* is suspended and resumed by a thread of its own.  A thread's steps are  *)
(* what it does between two points where it may sleep.  The part of        *)
(* __device_suspend and device_resume for a device without async_suspend   *)
(* is the same: then dpm waits for it.                                     *)
(***************************************************************************)
EXTENDS Wakeup, Sequences, SequencesExt

CONSTANTS
  Devices,   \* in the order of their registration: a sequence
  Parent,    \* the parent of a device, or None
  Async,     \* devices with power.async_suspend
  Level,     \* sources whose interrupt is level-triggered (handle_level_irq)
  Failing    \* devices whose suspend callbacks may fail

Device == ToSet(Devices)

ASSUME DevicePMAssumption ==
  /\ Devices \in Seq(Device) /\ None \notin Device
  /\ \A i, j \in 1..Len(Devices) : Devices[i] = Devices[j] => i = j
  /\ Sources \subseteq Device /\ Async \subseteq Device /\ Level \subseteq Sources
  /\ Failing \subseteq Device
  /\ \A i \in 1..Len(Devices) : Parent[Devices[i]] \in ToSet(SubSeq(Devices, 1, i - 1)) \cup {None}

VARIABLES
  lists,        \* dpm_list, dpm_prepared_list, dpm_suspended_list, dpm_noirq_list
  is_suspended, \* the devices that are
  completion,   \* the devices whose power.completion is done
  async_error,
  usage,        \* runtime PM references that the transition holds
  thread,       \* per device: where __device_suspend or device_resume is
  dpm,          \* where the dpm functions are; the current device; the error
  irq,          \* per source: its interrupt
  lines         \* are the lines enabled, or IRQS_SUSPENDED?

dpmVars == <<lists, is_suspended, completion, async_error, usage, thread, dpm>>
irqVars == <<irq, lines>>

Children(d) == {c \in Device : Parent[c] = d}

DevicePMInit ==
  /\ WakeupInit
  /\ lists = [dpm |-> Devices, prepared |-> <<>>, suspended |-> <<>>, noirq |-> <<>>]
  /\ is_suspended = {} /\ completion = Device /\ async_error = FALSE
  /\ usage = [d \in Device |-> 0]
  /\ thread = [d \in Device |-> "none"]
  /\ dpm = [pc |-> "idle", cur |-> None, error |-> FALSE]
  /\ irq = [s \in Sources |-> "none"] /\ lines = "enabled"

(***************************************************************************)
(* Interrupts.                                                             *)
(***************************************************************************)

(* The bound on events leaves room for one more.                           *)
MoreEvents == since + Cardinality({s \in Sources : irq[s] # "none"}) < MaxEvents

(* A device signals a wakeup event.                                        *)
Raise(s) ==
  /\ irq[s] = "none" /\ MoreEvents
  /\ irq' = [irq EXCEPT ![s] = "raised"]
  /\ UNCHANGED <<wakeupVars, dpmVars, lines>>

(* The CPU takes the interrupt.  On a line that suspend_device_irqs has    *)
(* disabled, the handler of an edge masks it and marks it pending, that of *)
(* a level only masks it.                                                  *)
Handle(s, disabled) ==
  /\ irq[s] = "raised"
  /\ IF lines = "enabled"
     THEN WakeupEvent(s) /\ irq' = [irq EXCEPT ![s] = "none"]
     ELSE irq' = [irq EXCEPT ![s] = disabled] /\ UNCHANGED wakeupVars
  /\ UNCHANGED <<dpmVars, lines>>

handle_level_irq(s) == s \in Level /\ Handle(s, "masked")
handle_edge_irq(s) == s \notin Level /\ Handle(s, "pending")

(* __enable_irq: a pending edge is sent again, a level is still there.     *)
Enabled == [s \in Sources |-> IF irq[s] = "none" THEN "none" ELSE "raised"]

(* check_wakeup_irqs, as syscore_suspend calls it: the drivers enable the  *)
(* wakeup interrupt of a device that may wake the system.                  *)
WakeupIrqPending == \E s \in Sources : ws[s].state = "attached" /\ irq[s] = "pending"

(***************************************************************************)
(* Preparing and suspending.                                               *)
(***************************************************************************)

At(l) == dpm.pc = l
Goto(l) == dpm' = [dpm EXCEPT !.pc = l]

(* dpm_prepare, one device; the callback may fail.                         *)
dpm_prepare ==
  /\ At("prepare") /\ lists.dpm # <<>>
  /\ LET d == Head(lists.dpm)
     IN \/ /\ lists' = [lists EXCEPT !.dpm = Tail(@), !.prepared = Append(@, d)]
           /\ UNCHANGED dpm
        \/ /\ d \in Failing
           /\ dpm' = [dpm EXCEPT !.pc = "started", !.error = TRUE]
           /\ UNCHANGED lists
  /\ UNCHANGED <<wakeupVars, irqVars, is_suspended, completion, async_error, usage, thread>>

dpm_suspend ==
  /\ At("prepare") /\ lists.dpm = <<>>
  /\ async_error' = FALSE
  /\ Goto("suspend")
  /\ UNCHANGED <<wakeupVars, irqVars, lists, is_suspended, completion, usage, thread>>

(* The last device of dpm_prepared_list goes to the head of                *)
(* dpm_suspended_list.                                                     *)
LastSuspended == [lists EXCEPT !.prepared = Front(@),
                               !.suspended = <<Last(lists.prepared)>> \o @]

(* The loop of dpm_suspend up to device_suspend.                           *)
device_suspend ==
  /\ At("suspend") /\ lists.prepared # <<>>
  /\ LET d == Last(lists.prepared)
     IN /\ completion' = completion \ {d}
        /\ thread' = [thread EXCEPT ![d] = "wait_children"]
        /\ IF d \in Async
           THEN /\ lists' = LastSuspended
                /\ Goto(IF async_error THEN "suspend_sync" ELSE "suspend")
           ELSE /\ dpm' = [dpm EXCEPT !.pc = "suspend_dev", !.cur = d]
                /\ UNCHANGED lists
  /\ UNCHANGED <<wakeupVars, irqVars, is_suspended, async_error, usage>>

(* The rest of the loop when device_suspend has returned: cur is still the *)
(* last device of the list.                                                *)
device_suspend_returns ==
  /\ At("suspend_dev") /\ thread[dpm.cur] = "none"
  /\ lists' = IF dpm.error THEN lists ELSE LastSuspended
  /\ dpm' = [dpm EXCEPT !.pc = IF dpm.error \/ async_error THEN "suspend_sync" ELSE "suspend",
                        !.cur = None]
  /\ UNCHANGED <<wakeupVars, irqVars, is_suspended, completion, async_error, usage, thread>>

dpm_suspend_end ==
  /\ At("suspend") /\ lists.prepared = <<>>
  /\ Goto("suspend_sync")
  /\ UNCHANGED <<wakeupVars, irqVars, lists, is_suspended, completion, async_error, usage, thread>>

(* Mutant: the errors of the asynchronous threads are not looked at.       *)
sync_forgets_error ==
  /\ At("suspend_sync") /\ \A d \in Device : thread[d] = "none"
  /\ dpm' = [dpm EXCEPT !.pc = "started"]
  /\ UNCHANGED <<wakeupVars, irqVars, lists, is_suspended, completion, async_error, usage, thread>>

(* async_synchronize_full, and the result of dpm_suspend.                  *)
suspend_sync ==
  /\ At("suspend_sync") /\ \A d \in Device : thread[d] = "none"
  /\ dpm' = [dpm EXCEPT !.pc = "started", !.error = @ \/ async_error]
  /\ UNCHANGED <<wakeupVars, irqVars, lists, is_suspended, completion, async_error, usage, thread>>

(* dpm_wait: whether d, suspended or resumed, waits for e.                 *)
WaitsFor(d, e) == (d \in Async \/ e \in Async) /\ e \notin completion

(* Mutant: the children are not waited for.                                *)
wait_children_not(d) ==
  /\ thread[d] = "wait_children"
  /\ thread' = [thread EXCEPT ![d] = IF async_error THEN "none" ELSE "barrier"]
  /\ usage' = [usage EXCEPT ![d] = IF async_error THEN @ ELSE @ + 1]
  /\ UNCHANGED <<wakeupVars, irqVars, lists, is_suspended, completion, async_error, dpm>>

(* __device_suspend, up to pm_runtime_barrier.  When another device has    *)
(* failed it returns at once: the completion stays open.                   *)
wait_children(d) ==
  /\ thread[d] = "wait_children"
  /\ \A c \in Children(d) : ~WaitsFor(d, c)
  /\ thread' = [thread EXCEPT ![d] = IF async_error THEN "none" ELSE "barrier"]
  /\ usage' = [usage EXCEPT ![d] = IF async_error THEN @ ELSE @ + 1]
  /\ UNCHANGED <<wakeupVars, irqVars, lists, is_suspended, completion, async_error, dpm>>

(* Up to the callback: a runtime resume requested before is a wakeup event *)
(* of its own.                                                             *)
check_pending(d) ==
  /\ thread[d] = "barrier"
  /\ \/ UNCHANGED <<ws, combined_event_count, since>>
     \/ /\ d \in Sources /\ ws[d].state = "attached" /\ MoreEvents
        /\ OnDevice(d, __pm_wakeup_event_now(Source(d)))
        /\ Detected(d)
  /\ LET abort == Pending(combined_event_count')
     IN /\ thread' = [thread EXCEPT ![d] = IF abort THEN "none" ELSE "callback"]
        /\ usage' = [usage EXCEPT ![d] = IF abort THEN @ - 1 ELSE @]
        /\ async_error' = (async_error \/ abort)
        /\ events_check_enabled' = (events_check_enabled /\ ~abort)
  /\ UNCHANGED <<saved_count, firing, irqVars, lists, is_suspended, completion, dpm>>

(* The callback and the end of __device_suspend.                           *)
suspend_callback(d) ==
  /\ thread[d] = "callback"
  /\ thread' = [thread EXCEPT ![d] = "none"]
  /\ completion' = completion \cup {d}
  /\ \/ /\ is_suspended' = is_suspended \cup {d}
        /\ UNCHANGED <<usage, async_error, dpm>>
     \/ /\ d \in Failing
        /\ usage' = [usage EXCEPT ![d] = @ - 1]
        /\ async_error' = TRUE
        /\ dpm' = [dpm EXCEPT !.error = @ \/ dpm.cur = d]
        /\ UNCHANGED is_suspended
  /\ UNCHANGED <<wakeupVars, irqVars, lists>>

(***************************************************************************)
(* The last phase, without device interrupts.                              *)
(***************************************************************************)

(* dpm_suspend_noirq: suspend_device_irqs, then one device after another.  *)
suspend_device_irqs ==
  /\ At("suspend_noirq")
  /\ lines' = "suspended"
  /\ Goto("suspend_noirq_loop")
  /\ UNCHANGED <<wakeupVars, irq, lists, is_suspended, completion, async_error, usage, thread>>

device_suspend_noirq ==
  /\ At("suspend_noirq_loop") /\ lists.suspended # <<>>
  /\ LET d == Last(lists.suspended)
     IN \/ /\ lists' = [lists EXCEPT !.suspended = Front(@), !.noirq = <<d>> \o @]
           /\ UNCHANGED dpm
        \/ /\ d \in Failing
           /\ dpm' = [dpm EXCEPT !.pc = "resume_noirq", !.error = TRUE]
           /\ UNCHANGED lists
  /\ UNCHANGED <<wakeupVars, irqVars, is_suspended, completion, async_error, usage, thread>>

dpm_suspend_noirq_end ==
  /\ At("suspend_noirq_loop") /\ lists.suspended = <<>>
  /\ Goto("off")
  /\ UNCHANGED <<wakeupVars, irqVars, lists, is_suspended, completion, async_error, usage, thread>>

(* dpm_resume_noirq                                                        *)
device_resume_noirq ==
  /\ At("resume_noirq") /\ lists.noirq # <<>>
  /\ lists' = [lists EXCEPT !.noirq = Tail(@), !.suspended = Append(@, Head(lists.noirq))]
  /\ UNCHANGED <<wakeupVars, irqVars, is_suspended, completion, async_error, usage, thread, dpm>>

resume_device_irqs ==
  /\ At("resume_noirq") /\ lists.noirq = <<>>
  /\ lines' = "enabled" /\ irq' = Enabled
  /\ Goto("woken")
  /\ UNCHANGED <<wakeupVars, lists, is_suspended, completion, async_error, usage, thread>>

(***************************************************************************)
(* Resuming.                                                               *)
(***************************************************************************)

(* dpm_resume: the asynchronous threads are all started first.             *)
dpm_resume ==
  /\ At("resume")
  /\ async_error' = FALSE
  /\ completion' = completion \ ToSet(lists.suspended)
  /\ thread' = [d \in Device |-> IF d \in Async \cap ToSet(lists.suspended)
                                 THEN "wait_parent" ELSE thread[d]]
  /\ Goto("resume_loop")
  /\ UNCHANGED <<wakeupVars, irqVars, lists, is_suspended, usage>>

(* The first device of dpm_suspended_list goes to the end of               *)
(* dpm_prepared_list.                                                      *)
FirstResumed == [lists EXCEPT !.suspended = Tail(@),
                              !.prepared = Append(@, Head(lists.suspended))]

resume_next ==
  /\ At("resume_loop") /\ lists.suspended # <<>>
  /\ LET d == Head(lists.suspended)
     IN IF d \in Async
        THEN lists' = FirstResumed /\ UNCHANGED <<thread, dpm>>
        ELSE /\ thread' = [thread EXCEPT ![d] = "wait_parent"]
             /\ dpm' = [dpm EXCEPT !.pc = "resume_dev", !.cur = d]
             /\ UNCHANGED lists
  /\ UNCHANGED <<wakeupVars, irqVars, is_suspended, completion, async_error, usage>>

device_resume_returns ==
  /\ At("resume_dev") /\ thread[dpm.cur] = "none"
  /\ lists' = FirstResumed
  /\ dpm' = [dpm EXCEPT !.pc = "resume_loop", !.cur = None]
  /\ UNCHANGED <<wakeupVars, irqVars, is_suspended, completion, async_error, usage, thread>>

(* device_resume: a device that was not suspended is only completed.       *)
wait_parent(d) ==
  /\ thread[d] = "wait_parent"
  /\ Parent[d] = None \/ ~WaitsFor(d, Parent[d])
  /\ IF d \in is_suspended
     THEN thread' = [thread EXCEPT ![d] = "resume_callback"] /\ UNCHANGED completion
     ELSE thread' = [thread EXCEPT ![d] = "none"] /\ completion' = completion \cup {d}
  /\ UNCHANGED <<wakeupVars, irqVars, lists, is_suspended, async_error, usage, dpm>>

resume_callback(d) ==
  /\ thread[d] = "resume_callback"
  /\ thread' = [thread EXCEPT ![d] = "none"]
  /\ is_suspended' = is_suspended \ {d}
  /\ completion' = completion \cup {d}
  /\ usage' = [usage EXCEPT ![d] = @ - 1]
  /\ UNCHANGED <<wakeupVars, irqVars, lists, async_error, dpm>>

(* Mutant: the completed devices are appended to dpm_list.                 *)
complete_appends ==
  /\ At("resume_loop") /\ lists.suspended = <<>>
  /\ \A d \in Device : thread[d] = "none"
  /\ lists' = [lists EXCEPT !.prepared = <<>>, !.dpm = @ \o lists.prepared]
  /\ Goto("resumed")
  /\ UNCHANGED <<wakeupVars, irqVars, is_suspended, completion, async_error, usage, thread>>

(* async_synchronize_full and dpm_complete.                                *)
dpm_complete ==
  /\ At("resume_loop") /\ lists.suspended = <<>>
  /\ \A d \in Device : thread[d] = "none"
  /\ lists' = [lists EXCEPT !.prepared = <<>>, !.dpm = lists.prepared \o @]
  /\ Goto("resumed")
  /\ UNCHANGED <<wakeupVars, irqVars, is_suspended, completion, async_error, usage, thread>>

Thread(d) == \/ wait_children(d) \/ check_pending(d) \/ suspend_callback(d)
             \/ wait_parent(d) \/ resume_callback(d)

Dpm == \/ dpm_prepare \/ dpm_suspend \/ device_suspend \/ device_suspend_returns
       \/ dpm_suspend_end \/ suspend_sync
       \/ suspend_device_irqs \/ device_suspend_noirq \/ dpm_suspend_noirq_end
       \/ device_resume_noirq \/ resume_device_irqs
       \/ dpm_resume \/ resume_next \/ device_resume_returns \/ dpm_complete

DevicePMTypeOK ==
  /\ WakeupTypeOK
  /\ lists \in [dpm : Seq(Device), prepared : Seq(Device), suspended : Seq(Device),
                noirq : Seq(Device)]
  /\ is_suspended \subseteq Device /\ completion \subseteq Device
  /\ async_error \in BOOLEAN
  /\ usage \in [Device -> 0..1]
  /\ thread \in [Device -> {"none", "wait_children", "barrier", "callback",
                            "wait_parent", "resume_callback"}]
  /\ dpm \in [pc : {"idle", "prepare", "suspend", "suspend_dev", "suspend_sync", "started",
                    "suspend_noirq", "suspend_noirq_loop", "off", "resume_noirq", "woken",
                    "resume", "resume_loop", "resume_dev", "resumed"},
              cur : Device \cup {None}, error : BOOLEAN]
  /\ irq \in [Sources -> {"none", "raised", "pending", "masked"}]
  /\ lines \in {"enabled", "suspended"}

=============================================================================
