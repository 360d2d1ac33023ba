------------------------------ MODULE Semaphore ------------------------------
(***************************************************************************)
(* The counting semaphore of kernel/semaphore.c.                           *)
(*                                                                         *)
(* Everything is done under sem->lock, which __down_common drops only      *)
(* around schedule_timeout(): a step is one stretch of code between taking *)
(* the lock and dropping it.  Signals and the timer of schedule_timeout    *)
(* arrive between those steps.                                             *)
(***************************************************************************)
EXTENDS Integers, Sequences, FiniteSets, KList, KTask

CONSTANTS Tasks,    \* the tasks that use the semaphore
          N,        \* the count sema_init gives it
          MaxTotal  \* bound: no more units than this are ever put in

ASSUME SemAssumption == IsFiniteSet(Tasks) /\ N \in Nat /\ MaxTotal \in Nat

VARIABLES count,      \* sem->count
          wait_list,  \* sem->wait_list, oldest first
          up_flag,    \* waiter.up of each task's on-stack semaphore_waiter
          state,      \* task->state
          how,        \* the variant of down() a task is in
          expired,    \* the local timeout of __down_common is <= 0
          sig,        \* pending signal: "none", "signal" or "fatal"
          pc,         \* "idle", "sleep" (in __down_common) or "held"
          total       \* history: units put into the semaphore so far

vars == <<count, wait_list, up_flag, state, how, expired, sig, pc, total>>

Variants == {"down", "interruptible", "killable", "timeout"}

(* The task state a variant sleeps in.                                     *)
SleepState(v) == CASE v = "interruptible" -> "INTERRUPTIBLE"
                   [] v = "killable"      -> "KILLABLE"
                   [] OTHER               -> "UNINTERRUPTIBLE"

(* sema_init                                                               *)
Init == /\ count = N
        /\ wait_list = <<>>
        /\ up_flag = [t \in Tasks |-> FALSE]
        /\ state = [t \in Tasks |-> "RUNNING"]
        /\ how = [t \in Tasks |-> "down"]
        /\ expired = [t \in Tasks |-> FALSE]
        /\ sig = [t \in Tasks |-> "none"]
        /\ pc = [t \in Tasks |-> "idle"]
        /\ total = N

(***************************************************************************)
(* down() and its variants.                                                *)
(***************************************************************************)

TakeUnit(t) == /\ count > 0
               /\ count' = count - 1
               /\ pc' = [pc EXCEPT ![t] = "held"]
               /\ UNCHANGED <<wait_list, up_flag, state, how, expired, sig, total>>

(* Mutant: list_add instead of list_add_tail.                              *)
BeginWaitInFront(t, v, e) ==
  /\ count = 0
  /\ ~signal_pending_state(SleepState(v), sig[t]) /\ ~e
  /\ wait_list' = <<t>> \o wait_list
  /\ up_flag' = [up_flag EXCEPT ![t] = FALSE]
  /\ how' = [how EXCEPT ![t] = v]
  /\ expired' = [expired EXCEPT ![t] = e]
  /\ state' = [state EXCEPT ![t] = SleepState(v)]
  /\ pc' = [pc EXCEPT ![t] = "sleep"]
  /\ UNCHANGED <<count, sig, total>>

(* The first turn of the loop of __down_common, with the waiter queued.    *)
(* The turn that ends at once (signal pending, no time left) takes the     *)
(* waiter off the list again before the lock is dropped.                   *)
BeginWait(t, v, e) ==
  /\ count = 0
  /\ ~signal_pending_state(SleepState(v), sig[t]) /\ ~e
  /\ wait_list' = Append(wait_list, t)
  /\ up_flag' = [up_flag EXCEPT ![t] = FALSE]
  /\ how' = [how EXCEPT ![t] = v]
  /\ expired' = [expired EXCEPT ![t] = e]
  /\ state' = [state EXCEPT ![t] = SleepState(v)]
  /\ pc' = [pc EXCEPT ![t] = "sleep"]
  /\ UNCHANGED <<count, sig, total>>

down_variant(t, v, e) == /\ pc[t] = "idle"
                         /\ TakeUnit(t) \/ BeginWait(t, v, e)

down(t) == down_variant(t, "down", FALSE)

down_interruptible(t) == down_variant(t, "interruptible", FALSE)

down_killable(t) == down_variant(t, "killable", FALSE)

(* jiffies may already be zero or negative.                                *)
down_timeout(t) == \E e \in BOOLEAN : down_variant(t, "timeout", e)

down_trylock(t) == pc[t] = "idle" /\ TakeUnit(t)

(* __down_common returns: its locals and the waiter are gone.              *)
Leave(t, l) == /\ pc' = [pc EXCEPT ![t] = l]
               /\ up_flag' = [up_flag EXCEPT ![t] = FALSE]
               /\ how' = [how EXCEPT ![t] = "down"]
               /\ expired' = [expired EXCEPT ![t] = FALSE]

(* Back from schedule_timeout() with the lock: waiter.up is tested first,  *)
(* so a unit that was handed over wins over a signal or a timeout.         *)
acquired(t) == /\ pc[t] = "sleep" /\ state[t] = "RUNNING"
               /\ up_flag[t]
               /\ Leave(t, "held")
               /\ UNCHANGED <<count, wait_list, state, sig, total>>

(* Mutant: the signal and the timeout are tested before waiter.up.         *)
give_up_first(t) ==
  /\ pc[t] = "sleep" /\ state[t] = "RUNNING"
  /\ signal_pending_state(SleepState(how[t]), sig[t]) \/ expired[t]
  /\ wait_list' = SelectSeq(wait_list, LAMBDA x : x # t)
  /\ Leave(t, "idle")
  /\ UNCHANGED <<count, state, sig, total>>

(* Mutant: the error paths forget list_del.                                *)
give_up_keeps_waiter(t) ==
  /\ pc[t] = "sleep" /\ state[t] = "RUNNING"
  /\ ~up_flag[t]
  /\ signal_pending_state(SleepState(how[t]), sig[t]) \/ expired[t]
  /\ Leave(t, "idle")
  /\ UNCHANGED <<count, wait_list, state, sig, total>>

(* interrupted: and timed_out:                                             *)
give_up(t) == /\ pc[t] = "sleep" /\ state[t] = "RUNNING"
              /\ ~up_flag[t]
              /\ signal_pending_state(SleepState(how[t]), sig[t]) \/ expired[t]
              /\ wait_list' = list_del(wait_list, t)
              /\ Leave(t, "idle")
              /\ UNCHANGED <<count, state, sig, total>>

(* Woken for nothing: sleep again.                                         *)
sleep_again(t) == /\ pc[t] = "sleep" /\ state[t] = "RUNNING"
                  /\ ~up_flag[t]
                  /\ ~signal_pending_state(SleepState(how[t]), sig[t]) /\ ~expired[t]
                  /\ state' = [state EXCEPT ![t] = SleepState(how[t])]
                  /\ UNCHANGED <<count, wait_list, up_flag, how, expired, sig, pc, total>>

(***************************************************************************)
(* up()                                                                    *)
(***************************************************************************)

(* Mutant: up() always counts, and wakes a waiter to fetch the unit.       *)
PutUnitCounts ==
  /\ count' = count + 1
  /\ IF wait_list = <<>>
     THEN UNCHANGED <<wait_list, up_flag, state>>
     ELSE /\ wait_list' = Tail(wait_list)
          /\ up_flag' = [up_flag EXCEPT ![Head(wait_list)] = TRUE]
          /\ state' = [state EXCEPT ![Head(wait_list)] = "RUNNING"]

(* Mutant: __up forgets wake_up_process.                                   *)
PutUnitNoWake ==
  IF wait_list = <<>>
  THEN count' = count + 1 /\ UNCHANGED <<wait_list, up_flag, state>>
  ELSE /\ wait_list' = Tail(wait_list)
       /\ up_flag' = [up_flag EXCEPT ![Head(wait_list)] = TRUE]
       /\ UNCHANGED <<count, state>>

(* Count the unit, or hand it to the oldest waiter (__up) and wake it.     *)
PutUnit ==
  IF wait_list = <<>>
  THEN count' = count + 1 /\ UNCHANGED <<wait_list, up_flag, state>>
  ELSE /\ wait_list' = Tail(wait_list)
       /\ up_flag' = [up_flag EXCEPT ![Head(wait_list)] = TRUE]
       /\ state' = [state EXCEPT ![Head(wait_list)] = "RUNNING"]
       /\ UNCHANGED count

up(t) == /\ pc[t] = "held"
         /\ PutUnit
         /\ pc' = [pc EXCEPT ![t] = "idle"]
         /\ UNCHANGED <<how, expired, sig, total>>

(* up() may be called by an interrupt or by a task that never called       *)
(* down(): a new unit.                                                     *)
up_by_other == /\ total < MaxTotal
               /\ PutUnit
               /\ total' = total + 1
               /\ UNCHANGED <<how, expired, sig, pc>>

(***************************************************************************)
(* The environment.                                                        *)
(***************************************************************************)

(* signal_wake_up: a signal wakes an interruptible sleep, a fatal one a    *)
(* killable sleep as well.                                                 *)
send_signal(t) == \E s \in {"signal", "fatal"} :
  /\ sig[t] # "fatal" /\ sig[t] # s
  /\ sig' = [sig EXCEPT ![t] = s]
  /\ state' = IF signal_pending_state(state[t], s)
              THEN [state EXCEPT ![t] = "RUNNING"]
              ELSE state
  /\ UNCHANGED <<count, wait_list, up_flag, how, expired, pc, total>>

(* The task acts on its signal when it is back from the call.              *)
take_signal(t) == /\ pc[t] # "sleep" /\ sig[t] # "none"
                  /\ sig' = [sig EXCEPT ![t] = "none"]
                  /\ UNCHANGED <<count, wait_list, up_flag, state, how, expired, pc, total>>

(* The timer of schedule_timeout: no time is left when it returns.         *)
process_timeout(t) == /\ pc[t] = "sleep" /\ how[t] = "timeout" /\ ~expired[t]
                      /\ expired' = [expired EXCEPT ![t] = TRUE]
                      /\ state' = [state EXCEPT ![t] = "RUNNING"]
                      /\ UNCHANGED <<count, wait_list, up_flag, how, sig, pc, total>>

(* A wake-up the task was due from somewhere else.                         *)
spurious_wakeup(t) == /\ pc[t] = "sleep" /\ state[t] # "RUNNING"
                      /\ state' = [state EXCEPT ![t] = "RUNNING"]
                      /\ UNCHANGED <<count, wait_list, up_flag, how, expired, sig, pc, total>>

Down(t) == \/ down(t) \/ down_interruptible(t) \/ down_killable(t)
           \/ down_timeout(t) \/ down_trylock(t)

Resume(t) == acquired(t) \/ give_up(t) \/ sleep_again(t)

Environment(t) == \/ send_signal(t) \/ take_signal(t)
                  \/ process_timeout(t) \/ spurious_wakeup(t)

Next == \/ \E t \in Tasks : Down(t) \/ Resume(t) \/ up(t) \/ Environment(t)
        \/ up_by_other

Spec == Init /\ [][Next]_vars

(* A woken task runs, and who holds a unit gives it back one day.          *)
Fairness == \A t \in Tasks : WF_vars(Resume(t)) /\ WF_vars(up(t))

FairSpec == Spec /\ Fairness

(***************************************************************************)
(* Properties.                                                             *)
(***************************************************************************)

TypeOK == /\ count \in Nat
          /\ wait_list \in Seq(Tasks)
          /\ up_flag \in [Tasks -> BOOLEAN]
          /\ state \in [Tasks -> TaskStates]
          /\ how \in [Tasks -> Variants]
          /\ expired \in [Tasks -> BOOLEAN]
          /\ sig \in [Tasks -> Signals]
          /\ pc \in [Tasks -> {"idle", "sleep", "held"}]
          /\ total \in Nat

(* Who owns a unit: it returned from down(), or __up handed it the unit    *)
(* and it has not run yet.                                                 *)
Owners == {t \in Tasks : pc[t] = "held" \/ (pc[t] = "sleep" /\ up_flag[t])}

(* No unit is lost or made up, whatever signal or timeout meets an up():   *)
(* the units put in are the free ones and the owned ones.                  *)
UnitsConserved == count + Cardinality(Owners) = total

(* Nobody waits while a unit is free.                                      *)
NoIdleUnit == count > 0 => wait_list = <<>>

(* The list holds exactly the on-stack waiters of tasks that are still in  *)
(* __down_common and were given nothing, once each: no pointer to a dead   *)
(* stack frame is left behind.                                             *)
WaitersAlive ==
  /\ \A t \in Tasks : OnList(wait_list, t) <=> (pc[t] = "sleep" /\ ~up_flag[t])
  /\ Distinct(wait_list)

(* The task was given a unit, or its signal or its timeout came.           *)
MustAct(t) == up_flag[t] \/ expired[t] \/ signal_pending_state(SleepState(how[t]), sig[t])

(* A task that must act is not left asleep: neither __up nor a signal nor  *)
(* the timer meets a sleeper that misses it.                               *)
NoLostWakeup == \A t \in Tasks : pc[t] = "sleep" /\ MustAct(t) => state[t] = "RUNNING"

(* down() without a way out gets its unit; every other variant returns.    *)
WaitersServed == \A t \in Tasks :
  /\ (pc[t] = "sleep" /\ how[t] = "down") ~> pc[t] = "held"
  /\ pc[t] = "sleep" ~> pc[t] # "sleep"

=============================================================================
