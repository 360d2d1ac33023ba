------------------------------- MODULE Wakeup -------------------------------
(***************************************************************************)
(* Wakeup sources and the wakeup counter: drivers/base/power/wakeup.c.     *)
(*                                                                         *)
(* Every function here takes ws->lock or events_lock with interrupts off,  *)
(* so each is one step.  combined_event_count keeps its layout: the count  *)
(* of registered events above the count of events in progress, in one word *)
(* that wraps.  The statistics are left out, except that active_count and  *)
(* relax_count are compared: only their difference is kept.                *)
(***************************************************************************)
EXTENDS Integers, FiniteSets

CONSTANTS
  Sources,     \* devices with a wakeup source
  Timed,       \* those whose driver calls pm_wakeup_event() with a time; the
               \* others use pm_stay_awake() and pm_relax()
  CountMod,    \* 2^16: the counter of registered events wraps
  InprMod,     \* MAX_IN_PROGRESS + 1
  MaxEvents,   \* bound: events between two reads of wakeup_count
  None

ASSUME WakeupAssumption ==
  /\ IsFiniteSet(Sources) /\ Timed \subseteq Sources /\ None \notin Sources
  /\ CountMod \in Nat \ {0} /\ InprMod \in Nat /\ Cardinality(Sources) < InprMod
  /\ MaxEvents \in 1..(CountMod - 1)

VARIABLES
  combined_event_count,
  saved_count,
  events_check_enabled,
  ws,         \* the sources: active, active_count - relax_count, timer,
              \* and whether dev->power.wakeup points to it
  firing,     \* the source whose timer function has been started (softirq)
  since       \* history: events detected since wakeup_count was last read

counters == <<combined_event_count, saved_count, events_check_enabled>>
wakeupVars == <<counters, ws, firing, since>>

Word == CountMod * InprMod

WakeupInit ==
  /\ combined_event_count = 0 /\ saved_count = 0 /\ events_check_enabled = FALSE
  /\ ws = [s \in Sources |-> [active |-> FALSE, owed |-> 0, timer |-> FALSE,
                              state |-> "attached"]]
  /\ firing = None /\ since = 0

(* split_counters                                                          *)
Cnt(word) == word \div InprMod
Inpr(word) == word % InprMod

(***************************************************************************)
(* The functions on one source.  x holds the source and the counter word.  *)
(***************************************************************************)

wakeup_source_activate(x) ==
  [ws |-> [x.ws EXCEPT !.active = TRUE, !.owed = @ + 1],
   count |-> (x.count + 1) % Word]

(* relax_count is incremented and, if it differs from active_count, put    *)
(* back.  One addition moves an event from "in progress" to "registered".  *)
wakeup_source_deactivate(x) ==
  IF x.ws.owed # 1 THEN x
  ELSE [ws |-> [x.ws EXCEPT !.active = FALSE, !.owed = @ - 1, !.timer = FALSE],
        count |-> (x.count + InprMod - 1) % Word]

__pm_stay_awake(x) == IF x.ws.active THEN x ELSE wakeup_source_activate(x)

__pm_relax(x) == IF x.ws.active THEN wakeup_source_deactivate(x) ELSE x

(* __pm_wakeup_event with a time: its possible results.  The timer is      *)
(* (re)started if its new expiry is after ws->timer_expires, which is not  *)
(* reset when the source is deactivated and is 0 at first, five minutes    *)
(* ahead of the jiffies of a system that has just booted.  Then with none. *)
__pm_wakeup_event(x) == LET y == __pm_stay_awake(x) IN {y, [y EXCEPT !.ws.timer = TRUE]}
__pm_wakeup_event_now(x) == wakeup_source_deactivate(__pm_stay_awake(x))

Source(s) == [ws |-> ws[s], count |-> combined_event_count]

(* The caller's pm_...(dev): nothing happens when the device has no source *)
(* any more.                                                               *)
OnDevice(s, result) ==
  IF ws[s].state = "attached"
  THEN ws' = [ws EXCEPT ![s] = result.ws] /\ combined_event_count' = result.count
  ELSE UNCHANGED <<ws, combined_event_count>>

(* One more event has been detected.                                       *)
Detected(s) == since' = IF ws[s].state = "attached" THEN since + 1 ELSE since

(* The interrupt handler of a wakeup device.                               *)
WakeupEvent(s) ==
  /\ \E result \in IF s \in Timed THEN __pm_wakeup_event(Source(s))
                                  ELSE {__pm_stay_awake(Source(s))} : OnDevice(s, result)
  /\ Detected(s)
  /\ UNCHANGED <<saved_count, events_check_enabled, firing>>

(* The driver has dealt with the event; on a source that is not active, or *)
(* without one, the call does nothing.                                     *)
pm_relax(s) ==
  /\ ws[s].state = "attached" /\ ws[s].active
  /\ OnDevice(s, __pm_relax(Source(s)))
  /\ UNCHANGED <<saved_count, events_check_enabled, firing, since>>

(* The timer softirq takes the timer off its list and, a little later,     *)
(* with interrupts possible in between, the function takes ws->lock.       *)
timer_expires(s) ==
  /\ firing = None /\ ws[s].timer
  /\ ws' = [ws EXCEPT ![s].timer = FALSE]
  /\ firing' = s
  /\ UNCHANGED <<counters, since>>

pm_wakeup_timer_fn ==
  /\ firing # None
  /\ LET x == __pm_relax(Source(firing))
     IN  ws' = [ws EXCEPT ![firing] = x.ws] /\ combined_event_count' = x.count
  /\ firing' = None
  /\ UNCHANGED <<saved_count, events_check_enabled, since>>

(***************************************************************************)
(* Enabling and disabling a source (sysfs attribute power/wakeup).         *)
(***************************************************************************)

device_wakeup_enable(s) ==
  /\ ws[s].state = "none"
  /\ ws' = [ws EXCEPT ![s] = [active |-> FALSE, owed |-> 0, timer |-> FALSE,
                              state |-> "attached"]]
  /\ UNCHANGED <<counters, firing, since>>

device_wakeup_disable(s) ==
  /\ ws[s].state = "attached"
  /\ ws' = [ws EXCEPT ![s].state = "detached"]
  /\ UNCHANGED <<counters, firing, since>>

(* Mutant: an active source is destroyed.                                  *)
destroy_active(s) ==
  /\ ws[s].state = "detached"
  /\ ws' = [ws EXCEPT ![s].state = "none", ![s].active = FALSE, ![s].owed = 0, ![s].timer = FALSE]
  /\ UNCHANGED <<counters, firing, since>>

(* wakeup_source_destroy waits until the source is not active.             *)
wakeup_source_destroy(s) ==
  /\ ws[s].state = "detached" /\ ~ws[s].active
  /\ ws' = [ws EXCEPT ![s].state = "none"]
  /\ UNCHANGED <<counters, firing, since>>

(***************************************************************************)
(* The counter as the suspend code uses it.                                *)
(***************************************************************************)

(* pm_wakeup_pending: its result, with the counter at word.                *)
Pending(word) == /\ events_check_enabled
                 /\ Cnt(word) # saved_count \/ Inpr(word) > 0

(* pm_save_wakeup_count: its result and its effect.                        *)
CountUnchanged(count) == /\ Cnt(combined_event_count) = count
                         /\ Inpr(combined_event_count) = 0

pm_save_wakeup_count(count) ==
  /\ events_check_enabled' = CountUnchanged(count)
  /\ saved_count' = IF CountUnchanged(count) THEN count ELSE saved_count
  /\ UNCHANGED <<combined_event_count, ws, firing, since>>

WakeupTypeOK ==
  /\ combined_event_count \in 0..(Word - 1)
  /\ saved_count \in 0..(CountMod - 1)
  /\ events_check_enabled \in BOOLEAN
  /\ ws \in [Sources -> [active : BOOLEAN, owed : 0..1, timer : BOOLEAN,
                         state : {"attached", "detached", "none"}]]
  /\ firing \in Sources \cup {None}
  /\ since \in 0..MaxEvents

=============================================================================
