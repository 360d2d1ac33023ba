------------------------------ MODULE RuntimePM ------------------------------
(***************************************************************************)
(* Runtime power management of a tree of devices:                          *)
(* drivers/base/power/runtime.c and include/linux/pm_runtime.h.            *)
(*                                                                         *)
(* A step is what happens under one hold of dev->power.lock; the lock is   *)
(* dropped around the subsystem callbacks, in the waiting loops and on the *)
(* way to the parent.  usage_count and child_count are atomic and change   *)
(* outside the lock too.  The rpm_ functions call each other, so an actor  *)
(* has a stack of frames, innermost first.  The actors are the Tasks, a    *)
(* worker of pm_wq for each device (named by it) and the timer softirq.    *)
(* Time is left out: an armed timer may expire, and an autosuspend delay   *)
(* may be over or not, whenever it is looked at.                           *)
(*                                                                         *)
(* Devices with no_callbacks or irq_safe are not modelled.                 *)
(***************************************************************************)
EXTENDS Integers, Sequences, FiniteSets

CONSTANTS Devices, Tasks, SOFTIRQ, NULL,
          Parent,          \* dev->parent, NULL for a root
          IgnoreChildren,  \* the devices with power.ignore_children
          Targets,         \* the devices tasks make calls for
          IdleFlags, SuspendFlags, ResumeFlags,  \* the flags they pass
          CallbackFlags,   \* those of a suspend called by ->runtime_idle()
          Settings,        \* the other calls tasks make
          Driver,          \* the task that probes a device, hence is the
                           \* first to enable runtime PM for it
          SuspendResults, ResumeResults          \* what callbacks return

ASSUME PMAssumption ==
  /\ IsFiniteSet(Devices) /\ IsFiniteSet(Tasks)
  /\ Tasks \cap Devices = {} /\ SOFTIRQ \notin Tasks \cup Devices
  /\ Parent \in [Devices -> Devices \cup {NULL}] /\ \A d \in Devices : Parent[d] # d
  /\ NULL \notin Devices /\ IgnoreChildren \subseteq Devices
  /\ Driver \in [Devices -> Tasks] /\ Targets \subseteq Devices
  /\ IdleFlags \cup SuspendFlags \cup ResumeFlags \subseteq
       SUBSET {"GET_PUT", "ASYNC", "NOWAIT", "AUTO"}
  /\ CallbackFlags \subseteq SUBSET {"ASYNC", "NOWAIT", "AUTO"}
  /\ SuspendResults \subseteq {"ok", "busy", "fail", "nosys"}
  /\ ResumeResults \subseteq {"ok", "fail", "nosys"}

Actors == Tasks \cup Devices \cup {SOFTIRQ}

VARIABLES power,    \* dev->power of each device
          lock,     \* the actor that keeps power.lock across a call
          stack,    \* the calls each actor is in
          asleep,   \* the actors sleeping on the wait queue of their device
          refs,     \* per task: the devices it holds a usage reference on
          held,     \* those it was told are active
          disabled  \* the devices it disabled runtime PM of

vars == <<power, lock, stack, asleep, refs, held, disabled>>

Statuses == {"ACTIVE", "RESUMING", "SUSPENDED", "SUSPENDING"}
Requests == {"NONE", "IDLE", "SUSPEND", "AUTOSUSPEND", "RESUME"}

(* pm_runtime_init.  The task that probes a device is to enable it.  The   *)
(* last two fields are history: a suspend has ended without waking the     *)
(* queue since it was last woken (unwoken), and a barrier has taken the    *)
(* work item of the request away (swallowed).                              *)
Init == /\ power = [d \in Devices |->
             [status |-> "SUSPENDED", usage |-> 0, children |-> 0, depth |-> 1,
              error |-> FALSE, auto |-> TRUE, autosuspend |-> "off",
              request |-> "NONE", pending |-> FALSE, work |-> "off",
              deferred |-> FALSE, idle |-> FALSE, timer |-> "off",
              unwoken |-> FALSE, swallowed |-> FALSE]]
        /\ lock = [d \in Devices |-> NULL]
        /\ stack = [a \in Actors |-> <<>>]
        /\ asleep = {}
        /\ refs = [t \in Tasks |-> {}]
        /\ held = [t \in Tasks |-> {}]
        /\ disabled = [t \in Tasks |-> {d \in Devices : Driver[d] = t}]

(***************************************************************************)
(* Frames and the lock.                                                    *)
(***************************************************************************)

Frame(at, d, flags) == [at |-> at, dev |-> d, flags |-> flags, par |-> FALSE]

Top(a) == Head(stack[a])
Free(a, d) == lock[d] \in {NULL, a}
Running(a, at) == stack[a] # <<>> /\ a \notin asleep /\ Top(a).at = at

(* In the critical section of the device of the innermost call.            *)
Section(a, at) == Running(a, at) /\ Free(a, Top(a).dev)

Async(a) == "ASYNC" \in Top(a).flags
NoWait(a) == Top(a).flags \cap {"ASYNC", "NOWAIT"} # {}

(* Replace the innermost frame; keep its lock or drop it.                  *)
Become(a, f) == stack' = [stack EXCEPT ![a] = <<f>> \o Tail(@)]
Goto(a, at) == Become(a, [Top(a) EXCEPT !.at = at])
Call(a, at, f) == stack' = [stack EXCEPT ![a] =
                              <<f, [Top(a) EXCEPT !.at = at]>> \o Tail(@)]
Keep(a, d) == lock' = [lock EXCEPT ![d] = a]
Drop(d) == lock' = [lock EXCEPT ![d] = NULL]

(* Where a caller goes on under the lock its callee returned with.         *)
LockedAt == {"resume_parent_ret", "barrier", "disable_resumed"}

Return(a) ==
  LET rest == Tail(stack[a])
  IN /\ stack' = [stack EXCEPT ![a] = rest]
     /\ lock' = [lock EXCEPT ![Top(a).dev] =
                   IF rest # <<>> /\ Head(rest).at \in LockedAt THEN a ELSE NULL]

(* wake_up_all(&dev->power.wait_queue)                                     *)
WakeAll(d) == asleep' = {a \in asleep : Top(a).dev # d}

SetPower(d, p) == power' = [power EXCEPT ![d] = p]

(***************************************************************************)
(* Helpers of runtime.c, on the power fields p of device d.                *)
(***************************************************************************)

pm_runtime_cancel_pending(p) == [p EXCEPT !.timer = "off", !.request = "NONE"]

(* Set the request and queue the work unless a request was pending.        *)
QueueRequest(p, r) ==
  [p EXCEPT !.request = r, !.pending = TRUE, !.swallowed = FALSE,
            !.work = IF ~p.pending /\ @ = "off" THEN "queued" ELSE @]

(* Mutant: the usage counter is not looked at.                             *)
SuspendDenied_unused(p, d) ==
  \/ p.error
  \/ p.depth > 0
  \/ p.children > 0 /\ d \notin IgnoreChildren
  \/ p.deferred /\ p.status = "SUSPENDING"
  \/ p.pending /\ p.request = "RESUME"

(* A negative result of rpm_check_suspend_allowed().                       *)
SuspendDenied(p, d) ==
  \/ p.error
  \/ p.depth > 0
  \/ p.usage > 0
  \/ p.children > 0 /\ d \notin IgnoreChildren
  \/ p.deferred /\ p.status = "SUSPENDING"
  \/ p.pending /\ p.request = "RESUME"

rpm_check_suspend_allowed(p, d) == ~SuspendDenied(p, d) /\ p.status # "SUSPENDED"

(* rpm_idle() gets past its tests.                                         *)
MayNotify(p, d) ==
  /\ ~SuspendDenied(p, d)
  /\ p.status = "ACTIVE"
  /\ ~(p.pending /\ p.request \in {"SUSPEND", "AUTOSUSPEND", "RESUME"})
  /\ ~p.idle

(* rpm_idle(dev, RPM_ASYNC)                                                *)
rpm_idle_async(p, d) == IF MayNotify(p, d) THEN QueueRequest(p, "IDLE") ELSE p

(***************************************************************************)
(* rpm_idle.                                                               *)
(***************************************************************************)

rpm_idle(a) ==
  LET d == Top(a).dev p == power[d]
  IN /\ Section(a, "idle")
     /\ \/ /\ Async(a)
           /\ SetPower(d, rpm_idle_async(p, d))
           /\ Return(a)
        \/ /\ ~Async(a) /\ ~MayNotify(p, d)
           /\ UNCHANGED power
           /\ Return(a)
        \/ /\ ~Async(a) /\ MayNotify(p, d)
           /\ SetPower(d, [p EXCEPT !.request = "NONE", !.idle = TRUE])
           /\ Goto(a, "idle_cb") /\ Drop(d)
     /\ UNCHANGED <<asleep, refs, held, disabled>>

(* The ->runtime_idle() callback does nothing or suspends the device.      *)
runtime_idle(a) ==
  /\ Running(a, "idle_cb")
  /\ \/ Goto(a, "idle_end")
     \/ \E flags \in CallbackFlags :
          Call(a, "idle_end", Frame("suspend", Top(a).dev, flags))
  /\ UNCHANGED <<power, lock, asleep, refs, held, disabled>>

rpm_idle_end(a) ==
  LET d == Top(a).dev
  IN /\ Section(a, "idle_end")
     /\ SetPower(d, [power[d] EXCEPT !.idle = FALSE, !.unwoken = FALSE])
     /\ WakeAll(d)
     /\ Return(a)
     /\ UNCHANGED <<refs, held, disabled>>

(***************************************************************************)
(* rpm_suspend.                                                            *)
(***************************************************************************)

(* Past rpm_check_suspend_allowed() and the RPM_RESUMING test.             *)
SuspendGoes(a) ==
  LET d == Top(a).dev
  IN /\ rpm_check_suspend_allowed(power[d], d)
     /\ power[d].status = "RESUMING" => Async(a)

(* pm_runtime_autosuspend_expiration() may be non-zero.                    *)
MayBeUnexpired(a) == /\ "AUTO" \in Top(a).flags
                     /\ power[Top(a).dev].autosuspend = "on"

rpm_suspend(a) ==
  LET d == Top(a).dev
      p == power[d]
      q == pm_runtime_cancel_pending(p)
      req == IF "AUTO" \in Top(a).flags THEN "AUTOSUSPEND" ELSE "SUSPEND"
  IN /\ Section(a, "suspend")
     /\ \/ /\ ~SuspendGoes(a)
           /\ Return(a)
           /\ UNCHANGED <<power, asleep>>
        \/ /\ SuspendGoes(a) /\ p.status # "SUSPENDING" /\ MayBeUnexpired(a)
           /\ SetPower(d, [p EXCEPT !.request = "NONE", !.timer = "auto"])
           /\ Return(a)
           /\ UNCHANGED asleep
        \/ /\ SuspendGoes(a) /\ p.status = "SUSPENDING" /\ NoWait(a)
           /\ SetPower(d, q)
           /\ Return(a)
           /\ UNCHANGED asleep
        \/ /\ SuspendGoes(a) /\ p.status = "SUSPENDING" /\ ~NoWait(a)
           /\ SetPower(d, q)
           /\ asleep' = asleep \cup {a}
           /\ Goto(a, "suspend_wait") /\ Drop(d)
        \/ /\ SuspendGoes(a) /\ p.status # "SUSPENDING" /\ Async(a)
           /\ SetPower(d, QueueRequest([q EXCEPT !.deferred = FALSE], req))
           /\ Return(a)
           /\ UNCHANGED asleep
        \/ /\ SuspendGoes(a) /\ p.status # "SUSPENDING" /\ ~Async(a)
           /\ SetPower(d, [q EXCEPT !.deferred = FALSE, !.status = "SUSPENDING"])
           /\ Goto(a, "suspend_cb") /\ Drop(d)
           /\ UNCHANGED asleep
     /\ UNCHANGED <<refs, held, disabled>>

(* Woken in the waiting loop: look again, then repeat.                     *)
suspend_woken(a) ==
  LET d == Top(a).dev
  IN /\ Section(a, "suspend_wait")
     /\ IF power[d].status = "SUSPENDING"
        THEN asleep' = asleep \cup {a} /\ UNCHANGED <<stack, lock>>
        ELSE Goto(a, "suspend") /\ Keep(a, d) /\ UNCHANGED asleep
     /\ UNCHANGED <<power, refs, held, disabled>>

(* Mutant: a deferred resume is forgotten.                                 *)
suspend_done_forgets(a) ==
  LET d == Top(a).dev
      p == [power[d] EXCEPT !.error = FALSE, !.status = "SUSPENDED", !.timer = "off",
                            !.unwoken = FALSE]
  IN /\ Section(a, "suspend_cb") /\ "ok" \in SuspendResults
     /\ SetPower(d, p)
     /\ WakeAll(d)
     /\ Return(a)
     /\ UNCHANGED <<refs, held, disabled>>

(* The ->runtime_suspend() callback is over: success.                      *)
suspend_done(a) ==
  LET d == Top(a).dev
      u == Parent[d]
      p == [power[d] EXCEPT !.error = FALSE, !.status = "SUSPENDED", !.timer = "off",
                            !.unwoken = FALSE]
  IN /\ Section(a, "suspend_cb") /\ "ok" \in SuspendResults
     /\ power' = [e \in Devices |->
                    IF e = d THEN p
                    ELSE IF e = u /\ power[e].children > 0
                    THEN [power[e] EXCEPT !.children = @ - 1]
                    ELSE power[e]]
     /\ WakeAll(d)
     /\ \/ /\ p.deferred
           /\ Become(a, Frame("resume", d, {})) /\ Keep(a, d)
        \/ /\ ~p.deferred /\ u # NULL /\ u \notin IgnoreChildren
           /\ Goto(a, "suspend_notify") /\ Drop(d)
        \/ /\ ~p.deferred /\ (u = NULL \/ u \in IgnoreChildren)
           /\ Return(a)
     /\ UNCHANGED <<refs, held, disabled>>

(* ... or failure.  -EAGAIN and -EBUSY are not errors, and an autosuspend  *)
(* is tried again when its delay was renewed.                              *)
suspend_failed(a) ==
  LET d == Top(a).dev
      p == [power[d] EXCEPT !.status = "ACTIVE", !.deferred = FALSE, !.unwoken = FALSE]
  IN /\ Section(a, "suspend_cb")
     /\ \/ /\ "busy" \in SuspendResults /\ MayBeUnexpired(a)
           /\ SetPower(d, [p EXCEPT !.error = FALSE, !.unwoken = TRUE])
           /\ Goto(a, "suspend") /\ Keep(a, d)
           /\ UNCHANGED asleep
        \/ /\ "busy" \in SuspendResults
           /\ SetPower(d, [p EXCEPT !.error = FALSE])
           /\ WakeAll(d)
           /\ Return(a)
        \/ /\ "fail" \in SuspendResults
           /\ SetPower(d, pm_runtime_cancel_pending([p EXCEPT !.error = TRUE]))
           /\ WakeAll(d)
           /\ Return(a)
        \/ /\ "nosys" \in SuspendResults
           /\ SetPower(d, pm_runtime_cancel_pending(p))
           /\ WakeAll(d)
           /\ Return(a)
     /\ UNCHANGED <<refs, held, disabled>>

(* Maybe the parent is now able to suspend.                                *)
suspend_notify(a) ==
  LET d == Top(a).dev u == Parent[d]
  IN /\ Section(a, "suspend_notify") /\ Free(a, u)
     /\ SetPower(u, rpm_idle_async(power[u], u))
     /\ Return(a)
     /\ UNCHANGED <<asleep, refs, held, disabled>>

(***************************************************************************)
(* rpm_resume.                                                             *)
(***************************************************************************)

(* Mutant: the parent is put only after success.                           *)
ResumeOut_leak(a, active) ==
  /\ IF Top(a).par /\ active THEN Goto(a, "resume_put") /\ Drop(Top(a).dev) ELSE Return(a)
  /\ held' = IF active /\ "GET_PUT" \in Top(a).flags
             THEN [held EXCEPT ![a] = @ \cup {Top(a).dev}] ELSE held

(* Leave rpm_resume(), giving back the reference on the parent first; a    *)
(* caller that holds a reference on the device learns whether it is active.*)
ResumeOut(a, active) ==
  /\ IF Top(a).par THEN Goto(a, "resume_put") /\ Drop(Top(a).dev) ELSE Return(a)
  /\ held' = IF active /\ "GET_PUT" \in Top(a).flags
             THEN [held EXCEPT ![a] = @ \cup {Top(a).dev}] ELSE held

(* Mutant: only a resume in progress is noticed.                           *)
Changing_up(p) == p.status = "RESUMING"

(* Another thread is in a callback of the device.                          *)
Changing(p) == p.status \in {"RESUMING", "SUSPENDING"}

Quiet(p) == ~Changing(p) /\ p.status # "ACTIVE"

rpm_resume(a) ==
  LET d == Top(a).dev
      u == Parent[d]
      p == power[d]
      q == [p EXCEPT !.request = "NONE", !.timer = IF @ = "suspend" THEN "off" ELSE @]
      refused == p.error \/ p.depth > 0
  IN /\ Section(a, "resume")
     /\ \/ /\ refused
           /\ ResumeOut(a, FALSE)
           /\ UNCHANGED <<power, asleep>>
        \/ /\ ~refused /\ p.status = "ACTIVE"
           /\ SetPower(d, q)
           /\ ResumeOut(a, TRUE)
           /\ UNCHANGED asleep
        \/ /\ ~refused /\ Changing(p) /\ NoWait(a)
           /\ SetPower(d, [q EXCEPT !.deferred = @ \/ p.status = "SUSPENDING"])
           /\ ResumeOut(a, FALSE)
           /\ UNCHANGED asleep
        \/ /\ ~refused /\ Changing(p) /\ ~NoWait(a)
           /\ SetPower(d, q)
           /\ asleep' = asleep \cup {a}
           /\ Goto(a, "resume_wait") /\ Drop(d)
           /\ UNCHANGED held
        \/ /\ ~refused /\ Quiet(p) /\ Async(a)
           /\ SetPower(d, QueueRequest(q, "RESUME"))
           /\ ResumeOut(a, FALSE)
           /\ UNCHANGED asleep
        \/ /\ ~refused /\ Quiet(p) /\ ~Async(a)
           /\ u # NULL /\ ~Top(a).par
           /\ power' = [power EXCEPT ![d] = q, ![u].usage = @ + 1]
           /\ Become(a, [Top(a) EXCEPT !.at = "resume_parent", !.par = TRUE])
           /\ Drop(d)
           /\ UNCHANGED <<asleep, held>>
        \/ /\ ~refused /\ Quiet(p) /\ ~Async(a)
           /\ u = NULL \/ Top(a).par
           /\ SetPower(d, [q EXCEPT !.status = "RESUMING"])
           /\ Goto(a, "resume_cb") /\ Drop(d)
           /\ UNCHANGED <<asleep, held>>
     /\ UNCHANGED <<refs, disabled>>

resume_woken(a) ==
  LET d == Top(a).dev
  IN /\ Section(a, "resume_wait")
     /\ IF Changing(power[d])
        THEN asleep' = asleep \cup {a} /\ UNCHANGED <<stack, lock>>
        ELSE Goto(a, "resume") /\ Keep(a, d) /\ UNCHANGED asleep
     /\ UNCHANGED <<power, refs, held, disabled>>

(* Resume the parent, unless it is disabled or ignores its children ...    *)
resume_parent(a) ==
  LET u == Parent[Top(a).dev]
  IN /\ Running(a, "resume_parent") /\ Free(a, u)
     /\ IF power[u].depth = 0 /\ u \notin IgnoreChildren
        THEN Call(a, "resume_parent_ret", Frame("resume", u, {})) /\ Keep(a, u)
        ELSE Goto(a, "resume") /\ UNCHANGED lock
     /\ UNCHANGED <<power, asleep, refs, held, disabled>>

(* Mutant: the parent's status is not looked at.                           *)
resume_parent_ret_any(a) ==
  /\ Running(a, "resume_parent_ret")
  /\ Goto(a, "resume")
  /\ Drop(Parent[Top(a).dev])
  /\ UNCHANGED <<power, asleep, refs, held, disabled>>

(* ... and give up with -EBUSY if it is not active then.                   *)
resume_parent_ret(a) ==
  LET u == Parent[Top(a).dev]
  IN /\ Running(a, "resume_parent_ret")
     /\ Goto(a, IF power[u].status = "ACTIVE" THEN "resume" ELSE "resume_put")
     /\ Drop(u)
     /\ UNCHANGED <<power, asleep, refs, held, disabled>>

(* Mutant: nobody is woken.                                                *)
resume_done_silent(a) ==
  LET d == Top(a).dev
      u == Parent[d]
      p == [power[d] EXCEPT !.error = FALSE, !.status = "ACTIVE", !.unwoken = FALSE]
  IN /\ Section(a, "resume_cb") /\ "ok" \in ResumeResults
     /\ power' = [e \in Devices |->
                    IF e = d THEN rpm_idle_async(p, d)
                    ELSE IF e = u THEN [power[e] EXCEPT !.children = @ + 1]
                    ELSE power[e]]
     /\ ResumeOut(a, TRUE)
     /\ UNCHANGED <<asleep, refs, disabled>>

(* The ->runtime_resume() callback is over.                                *)
resume_done(a) ==
  LET d == Top(a).dev
      u == Parent[d]
      p == [power[d] EXCEPT !.error = FALSE, !.status = "ACTIVE", !.unwoken = FALSE]
  IN /\ Section(a, "resume_cb") /\ "ok" \in ResumeResults
     /\ power' = [e \in Devices |->
                    IF e = d THEN rpm_idle_async(p, d)
                    ELSE IF e = u THEN [power[e] EXCEPT !.children = @ + 1]
                    ELSE power[e]]
     /\ WakeAll(d)
     /\ ResumeOut(a, TRUE)
     /\ UNCHANGED <<refs, disabled>>

(* Mutant: the parent counts the child although its resume failed.         *)
resume_failed_counted(a) ==
  LET d == Top(a).dev
      u == Parent[d]
      p == pm_runtime_cancel_pending([power[d] EXCEPT !.status = "SUSPENDED",
                                                      !.unwoken = FALSE])
  IN /\ Section(a, "resume_cb")
     /\ power' = [e \in Devices |-> IF e = d THEN [p EXCEPT !.error = TRUE]
                    ELSE IF e = u THEN [power[e] EXCEPT !.children = @ + 1] ELSE power[e]]
     /\ WakeAll(d)
     /\ ResumeOut(a, FALSE)
     /\ UNCHANGED <<refs, disabled>>

resume_failed(a) ==
  LET d == Top(a).dev
      p == pm_runtime_cancel_pending([power[d] EXCEPT !.status = "SUSPENDED",
                                                      !.unwoken = FALSE])
  IN /\ Section(a, "resume_cb")
     /\ \E r \in ResumeResults \ {"ok"} : SetPower(d, [p EXCEPT !.error = r = "fail"])
     /\ WakeAll(d)
     /\ ResumeOut(a, FALSE)
     /\ UNCHANGED <<refs, disabled>>

(* pm_runtime_put(parent): the decrement, then the idle request.           *)
resume_put(a) ==
  LET d == Top(a).dev u == Parent[d]
  IN /\ Section(a, "resume_put")
     /\ power' = [power EXCEPT ![u].usage = @ - 1]
     /\ IF power[u].usage = 1
        THEN /\ Become(a, [Top(a) EXCEPT !.at = "resume_put_idle", !.par = FALSE])
             /\ UNCHANGED lock
        ELSE Return(a)
     /\ UNCHANGED <<asleep, refs, held, disabled>>

resume_put_idle(a) ==
  LET d == Top(a).dev u == Parent[d]
  IN /\ Section(a, "resume_put_idle") /\ Free(a, u)
     /\ SetPower(u, rpm_idle_async(power[u], u))
     /\ Return(a)
     /\ UNCHANGED <<asleep, refs, held, disabled>>

(***************************************************************************)
(* The work item and the timer.                                            *)
(***************************************************************************)

(* A worker of pm_wq takes the work item off the queue.                    *)
work_start(d) ==
  /\ stack[d] = <<>> /\ power[d].work = "queued"
  /\ SetPower(d, [power[d] EXCEPT !.work = "off"])
  /\ stack' = [stack EXCEPT ![d] = <<Frame("work", d, {"NOWAIT"})>>]
  /\ UNCHANGED <<lock, asleep, refs, held, disabled>>

(* The call that a request is for.                                         *)
Requested(d, r) ==
  Frame(IF r = "IDLE" THEN "idle" ELSE IF r = "RESUME" THEN "resume" ELSE "suspend", d,
        IF r = "AUTOSUSPEND" THEN {"NOWAIT", "AUTO"} ELSE {"NOWAIT"})

(* Mutant: request_pending stays set when the request was cancelled.       *)
work_keeps_pending(d) ==
  LET p == power[d]
  IN /\ Section(d, "work")
     /\ IF ~p.pending \/ p.request = "NONE"
        THEN Return(d)
        ELSE /\ Keep(d, d)
             /\ Become(d, Requested(d, p.request))
     /\ SetPower(d, IF p.request # "NONE" THEN [p EXCEPT !.request = "NONE", !.pending = FALSE] ELSE p)
     /\ UNCHANGED <<asleep, refs, held, disabled>>

pm_runtime_work(d) ==
  LET p == power[d]
  IN /\ Section(d, "work")
     /\ IF ~p.pending \/ p.request = "NONE"
        THEN Return(d)
        ELSE /\ Keep(d, d)
             /\ Become(d, Requested(d, p.request))
     /\ SetPower(d, IF p.pending THEN [p EXCEPT !.request = "NONE", !.pending = FALSE] ELSE p)
     /\ UNCHANGED <<asleep, refs, held, disabled>>

pm_suspend_timer_fn(d) ==
  /\ stack[SOFTIRQ] = <<>> /\ lock[d] = NULL
  /\ power[d].timer # "off"
  /\ SetPower(d, [power[d] EXCEPT !.timer = "off"])
  /\ Keep(SOFTIRQ, d)
  /\ stack' = [stack EXCEPT ![SOFTIRQ] = <<Frame("suspend", d,
                 IF power[d].timer = "auto" THEN {"ASYNC", "AUTO"} ELSE {"ASYNC"})>>]
  /\ UNCHANGED <<asleep, refs, held, disabled>>

(***************************************************************************)
(* Entry points.                                                           *)
(***************************************************************************)

Enter(t, f) == stack' = [stack EXCEPT ![t] = <<f>>]

(* Give a usage reference back; go on only if it was the last one.         *)
PutAndCall(t, d, f) ==
  /\ d \in refs[t]
  /\ power' = [power EXCEPT ![d].usage = @ - 1]
  /\ refs' = [refs EXCEPT ![t] = @ \ {d}]
  /\ held' = [held EXCEPT ![t] = @ \ {d}]
  /\ IF power[d].usage = 1 THEN Enter(t, f) ELSE UNCHANGED stack

__pm_runtime_idle(t, d) ==
  /\ stack[t] = <<>>
  /\ \E flags \in IdleFlags :
       IF "GET_PUT" \in flags
       THEN PutAndCall(t, d, Frame("idle", d, flags))
       ELSE Enter(t, Frame("idle", d, flags)) /\ UNCHANGED <<power, refs, held>>
  /\ UNCHANGED <<lock, asleep, disabled>>

__pm_runtime_suspend(t, d) ==
  /\ stack[t] = <<>>
  /\ \E flags \in SuspendFlags :
       IF "GET_PUT" \in flags
       THEN PutAndCall(t, d, Frame("suspend", d, flags))
       ELSE Enter(t, Frame("suspend", d, flags)) /\ UNCHANGED <<power, refs, held>>
  /\ UNCHANGED <<lock, asleep, disabled>>

(* A task takes one reference on a device at a time.                       *)
__pm_runtime_resume(t, d) ==
  /\ stack[t] = <<>>
  /\ \E flags \in ResumeFlags :
       /\ Enter(t, Frame("resume", d, flags))
       /\ IF "GET_PUT" \in flags
          THEN /\ d \notin refs[t]
               /\ power' = [power EXCEPT ![d].usage = @ + 1]
               /\ refs' = [refs EXCEPT ![t] = @ \cup {d}]
          ELSE UNCHANGED <<power, refs>>
  /\ UNCHANGED <<lock, asleep, held, disabled>>

(* With a delay; without one it is __pm_runtime_suspend with RPM_ASYNC.    *)
pm_schedule_suspend(t, d) ==
  /\ "schedule_suspend" \in Settings /\ stack[t] = <<>> /\ lock[d] = NULL
  /\ rpm_check_suspend_allowed(power[d], d)
  /\ SetPower(d, [pm_runtime_cancel_pending(power[d]) EXCEPT !.timer = "suspend"])
  /\ UNCHANGED <<lock, stack, asleep, refs, held, disabled>>

pm_runtime_forbid(t, d) ==
  /\ "forbid" \in Settings /\ stack[t] = <<>> /\ lock[d] = NULL
  /\ power[d].auto
  /\ SetPower(d, [power[d] EXCEPT !.auto = FALSE, !.usage = @ + 1])
  /\ Enter(t, Frame("resume", d, {})) /\ Keep(t, d)
  /\ UNCHANGED <<asleep, refs, held, disabled>>

pm_runtime_allow(t, d) ==
  /\ "forbid" \in Settings /\ stack[t] = <<>> /\ lock[d] = NULL
  /\ ~power[d].auto
  /\ SetPower(d, [power[d] EXCEPT !.auto = TRUE, !.usage = @ - 1])
  /\ IF power[d].usage = 1
     THEN Enter(t, Frame("idle", d, {"AUTO"})) /\ Keep(t, d)
     ELSE UNCHANGED <<stack, lock>>
  /\ UNCHANGED <<asleep, refs, held, disabled>>

(* use_autosuspend and autosuspend_delay change: "off" (not used), "on" or *)
(* "never" (a negative delay, which holds a usage reference).              *)
update_autosuspend(t, d) ==
  /\ "autosuspend" \in Settings /\ stack[t] = <<>> /\ lock[d] = NULL
  /\ \E new \in {"off", "on", "never"} \ {power[d].autosuspend} :
       LET drop == power[d].autosuspend = "never"
       IN IF new = "never"
          THEN /\ SetPower(d, [power[d] EXCEPT !.autosuspend = new, !.usage = @ + 1])
               /\ Enter(t, Frame("resume", d, {}))
          ELSE /\ SetPower(d, [power[d] EXCEPT !.autosuspend = new,
                                               !.usage = IF drop THEN @ - 1 ELSE @])
               /\ Enter(t, Frame("idle", d, {"AUTO"}))
  /\ Keep(t, d)
  /\ UNCHANGED <<asleep, refs, held, disabled>>

(* A rule for callers: "as long as that reflects the actual state of the   *)
(* device", hence not while one of its callbacks runs.                     *)
MaySetStatus(d) == ~Changing(power[d])

(* With runtime PM disabled, or after an error, a driver states the real   *)
(* status.  That it is suspended can always be said: what users were told  *)
(* before ends with it.                                                    *)
__pm_runtime_set_status(t, d) ==
  LET u == Parent[d] p == power[d]
  IN /\ "set_status" \in Settings /\ stack[t] = <<>> /\ lock[d] = NULL
     /\ p.error \/ p.depth > 0
     /\ \/ /\ SetPower(d, [p EXCEPT !.error = FALSE])
           /\ UNCHANGED <<stack, held>>
        \/ /\ p.status # "SUSPENDED"
           /\ power' = [e \in Devices |->
                 IF e = d THEN [p EXCEPT !.status = "SUSPENDED", !.error = FALSE]
                 ELSE IF e = u /\ power[e].children > 0
                 THEN [power[e] EXCEPT !.children = @ - 1]
                 ELSE power[e]]
           /\ IF u # NULL /\ u \notin IgnoreChildren
              THEN Enter(t, Frame("idle", u, {"ASYNC"})) ELSE UNCHANGED stack
           /\ held' = [v \in Tasks |-> held[v] \ {d}]
        \/ /\ p.status # "ACTIVE"
           /\ u # NULL => /\ lock[u] = NULL
                          /\ \/ power[u].depth > 0
                             \/ u \in IgnoreChildren
                             \/ power[u].status = "ACTIVE"
           /\ power' = [e \in Devices |->
                 IF e = d THEN [p EXCEPT !.status = "ACTIVE", !.error = FALSE]
                 ELSE IF e = u /\ p.status = "SUSPENDED"
                 THEN [power[e] EXCEPT !.children = @ + 1]
                 ELSE power[e]]
           /\ UNCHANGED <<stack, held>>
     /\ UNCHANGED <<lock, asleep, refs, disabled>>

(***************************************************************************)
(* Disabling, and the barrier.                                             *)
(***************************************************************************)

(* A rule for callers: enables balance disables, and a device is probed    *)
(* and resumed, hence enabled, after its parent.                           *)
MayEnable(t, d) == /\ d \in disabled[t]
                   /\ Parent[d] # NULL => power[Parent[d]].depth = 0

(* An enable of a device that is enabled only warns.                       *)
pm_runtime_enable(t, d) ==
  /\ stack[t] = <<>> /\ lock[d] = NULL
  /\ SetPower(d, [power[d] EXCEPT !.depth = IF @ > 0 THEN @ - 1 ELSE @])
  /\ disabled' = [disabled EXCEPT ![t] = @ \ {d}]
  /\ UNCHANGED <<lock, stack, asleep, refs, held>>

(* A bound: a task disables a device once before it enables it again.      *)
pm_runtime_disable(t, d) ==
  /\ "disable" \in Settings /\ stack[t] = <<>> /\ d \notin disabled[t]
  /\ \E check \in {{}, {"CHECK_RESUME"}} :
       Enter(t, Frame("disable", d, {"DISABLE"} \cup check))
  /\ UNCHANGED <<power, lock, asleep, refs, held, disabled>>

Disabled(t, d) == disabled' = [disabled EXCEPT ![t] = @ \cup {d}]

__pm_runtime_disable(t) ==
  LET d == Top(t).dev p == power[d]
      wake == "CHECK_RESUME" \in Top(t).flags /\ p.pending /\ p.request = "RESUME"
  IN /\ Section(t, "disable")
     /\ \/ /\ p.depth > 0
           /\ SetPower(d, [p EXCEPT !.depth = @ + 1])
           /\ Return(t) /\ Disabled(t, d)
        \/ /\ p.depth = 0 /\ wake
           /\ SetPower(d, [p EXCEPT !.usage = @ + 1])
           /\ Call(t, "disable_resumed", Frame("resume", d, {})) /\ Keep(t, d)
           /\ UNCHANGED disabled
        \/ /\ p.depth = 0 /\ ~wake
           /\ SetPower(d, [p EXCEPT !.depth = 1])
           /\ Goto(t, "barrier") /\ Keep(t, d)
           /\ UNCHANGED disabled
     /\ UNCHANGED <<asleep, refs, held>>

(* The resume asked for was carried out; the lock was dropped meanwhile.   *)
disable_resumed(t) ==
  LET d == Top(t).dev p == power[d]
  IN /\ Section(t, "disable_resumed")
     /\ SetPower(d, [p EXCEPT !.usage = @ - 1, !.depth = @ + 1])
     /\ IF p.depth = 0 THEN Goto(t, "barrier") /\ Keep(t, d) /\ UNCHANGED disabled
                       ELSE Return(t) /\ Disabled(t, d)
     /\ UNCHANGED <<asleep, refs, held>>

pm_runtime_barrier(t, d) ==
  /\ "barrier" \in Settings /\ stack[t] = <<>>
  /\ power' = [power EXCEPT ![d].usage = @ + 1]
  /\ Enter(t, Frame("barrier_enter", d, {}))
  /\ UNCHANGED <<lock, asleep, refs, held, disabled>>

barrier_enter(t) ==
  LET d == Top(t).dev
  IN /\ Section(t, "barrier_enter")
     /\ IF power[d].pending /\ power[d].request = "RESUME"
        THEN Call(t, "barrier", Frame("resume", d, {}))
        ELSE Goto(t, "barrier")
     /\ Keep(t, d)
     /\ UNCHANGED <<power, asleep, refs, held, disabled>>

(* __pm_runtime_barrier: stop the timer; forget a pending request, with    *)
(* the lock dropped while its work item is cancelled; wait for the rest.   *)
__pm_runtime_barrier(t) ==
  LET d == Top(t).dev p == power[d]
  IN /\ Section(t, "barrier")
     /\ IF p.pending
        THEN /\ SetPower(d, [p EXCEPT !.timer = "off", !.request = "NONE"])
             /\ Goto(t, "cancel") /\ Drop(d)
        ELSE /\ SetPower(d, [p EXCEPT !.timer = "off"])
             /\ Goto(t, "barrier_wait") /\ Keep(t, d)
     /\ UNCHANGED <<asleep, refs, held, disabled>>

(* cancel_work_sync: own the PENDING bit, then wait for a running work     *)
(* function.                                                               *)
cancel_work_sync(t) ==
  LET d == Top(t).dev
  IN /\ Running(t, "cancel") /\ power[d].work # "grabbed"
     /\ SetPower(d, [power[d] EXCEPT !.work = "grabbed"])
     /\ Goto(t, "cancelled")
     /\ UNCHANGED <<lock, asleep, refs, held, disabled>>

barrier_cancelled(t) ==
  LET d == Top(t).dev
  IN /\ Section(t, "cancelled") /\ stack[d] = <<>>
     /\ SetPower(d, [power[d] EXCEPT !.work = "off", !.pending = FALSE,
                                     !.swallowed = @ \/ power[d].request # "NONE"])
     /\ Goto(t, "barrier_wait") /\ Keep(t, d)
     /\ UNCHANGED <<asleep, refs, held, disabled>>

(* Mutant: an idle notification is not waited for.                         *)
Busy_status(p) == Changing(p)

(* A suspend, a resume or an idle notification is in progress.             *)
Busy(p) == Changing(p) \/ p.idle

barrier_wait(t) ==
  LET d == Top(t).dev p == power[d]
  IN /\ Section(t, "barrier_wait")
     /\ \/ /\ Busy(p)
           /\ asleep' = asleep \cup {t} /\ Drop(d)
           /\ UNCHANGED <<power, stack, disabled>>
        \/ /\ ~Busy(p) /\ "DISABLE" \in Top(t).flags
           /\ Return(t) /\ Disabled(t, d)
           /\ UNCHANGED <<power, asleep>>
        \/ /\ ~Busy(p) /\ "DISABLE" \notin Top(t).flags
           /\ SetPower(d, [p EXCEPT !.usage = @ - 1])
           /\ Return(t)
           /\ UNCHANGED <<asleep, disabled>>
     /\ UNCHANGED <<refs, held>>

(***************************************************************************)
(* The specification.                                                      *)
(***************************************************************************)

(* The calls of an actor go on.                                            *)
Run(a) == \/ rpm_idle(a) \/ runtime_idle(a) \/ rpm_idle_end(a)
          \/ rpm_suspend(a) \/ suspend_woken(a) \/ suspend_done(a)
          \/ suspend_failed(a) \/ suspend_notify(a)
          \/ rpm_resume(a) \/ resume_woken(a) \/ resume_parent(a)
          \/ resume_parent_ret(a) \/ resume_done(a) \/ resume_failed(a)
          \/ resume_put(a) \/ resume_put_idle(a)

RunTask(t) == \/ __pm_runtime_disable(t) \/ disable_resumed(t)
              \/ barrier_enter(t) \/ __pm_runtime_barrier(t)
              \/ cancel_work_sync(t) \/ barrier_cancelled(t) \/ barrier_wait(t)

Worker(d) == work_start(d) \/ pm_runtime_work(d)

Start(t, d) == \/ __pm_runtime_idle(t, d) \/ __pm_runtime_suspend(t, d)
               \/ __pm_runtime_resume(t, d) \/ pm_schedule_suspend(t, d)
               \/ pm_runtime_forbid(t, d) \/ pm_runtime_allow(t, d)
               \/ update_autosuspend(t, d)
               \/ MaySetStatus(d) /\ __pm_runtime_set_status(t, d)
               \/ pm_runtime_disable(t, d) \/ pm_runtime_barrier(t, d)

Next == \/ \E a \in Actors : Run(a)
        \/ \E t \in Tasks : RunTask(t)
        \/ \E d \in Devices : Worker(d) \/ pm_suspend_timer_fn(d)
        \/ \E t \in Tasks, d \in Devices : MayEnable(t, d) /\ pm_runtime_enable(t, d)
        \/ \E t \in Tasks, d \in Targets : Start(t, d)

Spec == Init /\ [][Next]_vars

(* Callbacks return and pm_wq runs its work.  Strong fairness: a runnable  *)
(* thread gets the CPU again and again, and on this uniprocessor nobody    *)
(* else is inside power.lock when it does.                                 *)
Fairness == /\ \A a \in Actors : SF_vars(Run(a))
            /\ \A t \in Tasks : SF_vars(RunTask(t))
            /\ \A d \in Devices : SF_vars(Worker(d))

FairSpec == Spec /\ Fairness

(***************************************************************************)
(* Properties.                                                             *)
(***************************************************************************)

PowerType == [status : Statuses, usage : Nat, children : Nat, depth : Nat,
              error : BOOLEAN, auto : BOOLEAN, autosuspend : {"off", "on", "never"},
              request : Requests, pending : BOOLEAN, work : {"off", "queued", "grabbed"},
              deferred : BOOLEAN, idle : BOOLEAN, timer : {"off", "suspend", "auto"},
              unwoken : BOOLEAN, swallowed : BOOLEAN]

FrameType == [at : {"idle", "idle_cb", "idle_end", "suspend", "suspend_wait", "suspend_cb",
                    "suspend_notify", "resume", "resume_wait", "resume_parent",
                    "resume_parent_ret", "resume_cb", "resume_put", "resume_put_idle",
                    "work", "disable", "disable_resumed", "barrier_enter", "barrier",
                    "cancel", "cancelled", "barrier_wait"},
              dev : Devices, par : BOOLEAN,
              flags : SUBSET {"GET_PUT", "ASYNC", "NOWAIT", "AUTO", "DISABLE", "CHECK_RESUME"}]

(* Types; the counters never go below zero.                                *)
TypeOK == /\ power \in [Devices -> PowerType]
          /\ lock \in [Devices -> Actors \cup {NULL}]
          /\ stack \in [Actors -> Seq(FrameType)]
          /\ asleep \subseteq Actors
          /\ refs \in [Tasks -> SUBSET Devices]
          /\ held \in [Tasks -> SUBSET Devices]
          /\ disabled \in [Tasks -> SUBSET Devices]

(* The calls that are under way, numbered for each actor from the first.   *)
Frames == UNION {{a} \X (1 .. Len(stack[a])) : a \in Actors}
FrameAt(f) == stack[f[1]][Len(stack[f[1]]) + 1 - f[2]]

(* What pm_runtime_get_sync() promises: a device a task was told is active *)
(* stays so until the task puts it, whatever suspends, timers, requests    *)
(* and other users do.                                                     *)
HeldIsActive == \A t \in Tasks : \A d \in held[t] : power[d].status = "ACTIVE"

(* No device is powered, or being switched, under a parent that is not     *)
(* active (rpm_suspend's child_count test, rpm_resume's parent reference). *)
ParentActive == \A d \in Devices :
  Parent[d] # NULL /\ Parent[d] \notin IgnoreChildren /\ power[d].status # "SUSPENDED"
    => power[Parent[d]].status = "ACTIVE"

(* child_count is the number of children that are active or on the way     *)
(* down: the increments and decrements of suspend, resume and set_status   *)
(* balance on every path.                                                  *)
ChildCount == \A u \in Devices :
  power[u].children = Cardinality({d \in Devices : /\ Parent[d] = u
                        /\ power[d].status \in {"ACTIVE", "SUSPENDING"}})

(* usage_count is the number of references there are: of users, of         *)
(* resuming children, of barriers, of pm_runtime_forbid() and of a         *)
(* negative autosuspend delay.  No error path leaks or drops one.          *)
UsageBalanced == \A d \in Devices :
  power[d].usage =
    Cardinality({t \in Tasks : d \in refs[t]})
    + Cardinality({f \in Frames : FrameAt(f).par /\ Parent[FrameAt(f).dev] = d})
    + Cardinality({f \in Frames : /\ FrameAt(f).dev = d
                     /\ \/ FrameAt(f).at = "disable_resumed"
                        \/ /\ FrameAt(f).flags = {}
                           /\ FrameAt(f).at \in {"barrier_enter", "barrier", "cancel",
                                                 "cancelled", "barrier_wait"}})
    + (IF power[d].auto THEN 0 ELSE 1)
    + (IF power[d].autosuspend = "never" THEN 1 ELSE 0)

(* The callbacks of a device exclude each other: at most one frame is in   *)
(* ->runtime_suspend() or ->runtime_resume(), and the status says so.      *)
CallbacksExclusive == \A d \in Devices :
  LET In(at) == {f \in Frames : FrameAt(f).dev = d /\ FrameAt(f).at = at}
  IN /\ Cardinality(In("suspend_cb")) = (IF power[d].status = "SUSPENDING" THEN 1 ELSE 0)
     /\ Cardinality(In("resume_cb")) = (IF power[d].status = "RESUMING" THEN 1 ELSE 0)

(* What a task asleep on power.wait_queue waits for.                       *)
WaitingFor(a) ==
  LET p == power[Top(a).dev]
  IN CASE Top(a).at = "suspend_wait" -> p.status = "SUSPENDING"
       [] Top(a).at = "resume_wait" -> p.status \in {"SUSPENDING", "RESUMING"}
       [] Top(a).at = "barrier_wait" -> p.idle \/ p.status \in {"SUSPENDING", "RESUMING"}

(* Whoever ends what a sleeper waits for wakes the queue before it lets go *)
(* of power.lock.  The one exception is an autosuspend that found its      *)
(* callback busy and its delay renewed: it starts again and leaves the     *)
(* sleepers to the next end of a callback.                                 *)
NoLostWakeup == \A a \in asleep :
  lock[Top(a).dev] = NULL => WaitingFor(a) \/ power[Top(a).dev].unwoken

(* A disable that raised disable_depth from zero is in its barrier.        *)
DisableWaits(d) == \E f \in Frames :
  /\ FrameAt(f).dev = d /\ "DISABLE" \in FrameAt(f).flags
  /\ FrameAt(f).at \in {"barrier", "cancel", "cancelled", "barrier_wait"}

(* When pm_runtime_disable() has returned, no callback of the device runs  *)
(* and nothing is left that could start one.  The one exception is a       *)
(* disable that came second, which returns at once: then this holds when   *)
(* the first one has returned, too.                                        *)
DisabledIsQuiet == \A t \in Tasks : \A d \in disabled[t] :
  ~DisableWaits(d) => /\ power[d].status \in {"ACTIVE", "SUSPENDED"} /\ ~power[d].idle
                   /\ ~power[d].pending /\ power[d].timer = "off"

(* A barrier has forgotten the request of d and is cancelling its work.    *)
Cancelling(d) == \E t \in Tasks :
  stack[t] # <<>> /\ Top(t).dev = d /\ Top(t).at \in {"cancel", "cancelled"}

(* A request is marked pending and its work item is queued or about to     *)
(* look.  The exception is one made while a barrier cancels the work item: *)
(* it believes that its work is queued, and the barrier then takes the     *)
(* mark away and leaves the request behind (swallowed), until the next one.*)
RequestHasWork == \A d \in Devices :
  power[d].request # "NONE" =>
    \/ power[d].swallowed
    \/ /\ power[d].pending
       /\ \/ power[d].work = "queued"
          \/ stack[d] # <<>> /\ Top(d).at = "work"
          \/ Cancelling(d)

(* A resume requested asynchronously, or deferred until a suspend in       *)
(* progress is over, takes place, unless the resume of the device or of    *)
(* its parent has failed.                                                  *)
ResumeServed == \A d \in Devices :
  (\/ power[d].request = "RESUME"
   \/ power[d].deferred /\ power[d].status = "SUSPENDING")
    ~> power[d].status = "ACTIVE" \/ \E e \in {d, Parent[d]} \ {NULL} : power[e].error

(* pm_runtime_get() and pm_runtime_get_sync() return: no wake-up is lost,  *)
(* and waiting for the parent or for a suspend in progress ends.           *)
InGet(t) ==
  /\ stack[t] # <<>>
  /\ LET f == stack[t][Len(stack[t])]
     IN /\ "GET_PUT" \in f.flags
        /\ f.at \in {"resume", "resume_wait", "resume_parent", "resume_parent_ret",
                     "resume_cb", "resume_put", "resume_put_idle"}

GetReturns == \A t \in Tasks : InGet(t) ~> stack[t] = <<>>

=============================================================================
