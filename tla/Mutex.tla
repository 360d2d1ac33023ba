-------------------------------- MODULE Mutex --------------------------------
(***************************************************************************)
(* The sleeping mutex: kernel/mutex.c over the ARMv6+ fast paths of        *)
(* arch/arm/include/asm/mutex.h.                                           *)
(*                                                                         *)
(* lock->count is changed without any lock by the fast paths and inside    *)
(* lock->wait_lock by the slow paths, so a step holds at most one access   *)
(* to count.  The wait list is touched only under wait_lock.  An           *)
(* ldrex/strex pair acts at its strex or, when the exclusive store fails,  *)
(* not at all.                                                             *)
(***************************************************************************)
EXTENDS Integers, Sequences, FiniteSets, KList, KTask

CONSTANTS Tasks, NULL

ASSUME MutexAssumption == IsFiniteSet(Tasks) /\ NULL \notin Tasks

VARIABLES count,      \* lock->count: 1 unlocked, 0 locked, < 0 maybe waiters
          wait_list,  \* lock->wait_list, oldest first
          wait_lock,  \* lock->wait_lock: the task inside, or NULL
          state,      \* task->state
          how,        \* the state __mutex_lock_common was called with
          sig,        \* the pending signal
          pc          \* where each task is

vars == <<count, wait_list, wait_lock, state, how, sig, pc>>

(* "slow": on the way to __mutex_lock_slowpath; "retry": in its loop with  *)
(* wait_lock; "sleep": in schedule(); "got": xchg gave it the lock;        *)
(* "unlock": on the way to the unlock slow path; "wake": in it, count set. *)
PCs == {"idle", "slow", "retry", "sleep", "got", "held", "unlock", "wake"}

(* __mutex_init                                                            *)
Init == /\ count = 1
        /\ wait_list = <<>>
        /\ wait_lock = NULL
        /\ state = [t \in Tasks |-> "RUNNING"]
        /\ how = [t \in Tasks |-> "UNINTERRUPTIBLE"]
        /\ sig = [t \in Tasks |-> "none"]
        /\ pc = [t \in Tasks |-> "idle"]

Goto(t, l) == pc' = [pc EXCEPT ![t] = l]

(***************************************************************************)
(* Locking.                                                                *)
(***************************************************************************)

(* Mutant: the flag of the failed exclusive store is ignored.              *)
fastpath_lock_no_flag(t, st) ==
  /\ pc[t] = "idle"
  /\ how' = [how EXCEPT ![t] = st]
  /\ \/ count' = count - 1 /\ Goto(t, IF count = 1 THEN "held" ELSE "slow")
     \/ UNCHANGED count /\ Goto(t, IF count = 1 THEN "held" ELSE "slow")
  /\ UNCHANGED <<wait_list, wait_lock, state, sig>>

(* One decrement.  Anything but a clean 1 -> 0 goes to the slow path, a    *)
(* failed exclusive store too.                                             *)
fastpath_lock(t, st) ==
  /\ pc[t] = "idle"
  /\ how' = [how EXCEPT ![t] = st]
  /\ \/ count' = count - 1 /\ Goto(t, IF count = 1 THEN "held" ELSE "slow")
     \/ UNCHANGED count /\ Goto(t, "slow")
  /\ UNCHANGED <<wait_list, wait_lock, state, sig>>

mutex_lock(t) == fastpath_lock(t, "UNINTERRUPTIBLE")

mutex_lock_interruptible(t) == fastpath_lock(t, "INTERRUPTIBLE")

mutex_lock_killable(t) == fastpath_lock(t, "KILLABLE")

(* The single value cmpxchg; failing leaves count alone.                   *)
mutex_trylock(t) == /\ pc[t] = "idle" /\ count = 1
                    /\ count' = 0
                    /\ Goto(t, "held")
                    /\ UNCHANGED <<wait_list, wait_lock, state, how, sig>>

(* Take wait_lock, queue, first xchg.                                      *)
lock_enter(t) == /\ pc[t] = "slow" /\ wait_lock = NULL
                 /\ wait_lock' = t
                 /\ wait_list' = Append(wait_list, t)
                 /\ count' = -1
                 /\ Goto(t, IF count = 1 THEN "got" ELSE "retry")
                 /\ UNCHANGED <<state, how, sig>>

(* The loop, at its xchg: already inside wait_lock the first time, taking  *)
(* it again after schedule().                                              *)
InLoop(t) == \/ pc[t] = "retry"
             \/ pc[t] = "sleep" /\ state[t] = "RUNNING" /\ wait_lock = NULL

lock_retry_got(t) == /\ InLoop(t) /\ count = 1
                     /\ count' = -1
                     /\ wait_lock' = t
                     /\ Goto(t, "got")
                     /\ UNCHANGED <<wait_list, state, how, sig>>

(* Mutant: the waiter stays on the list after -EINTR.                      *)
lock_retry_intr_linked(t) ==
  /\ InLoop(t) /\ count # 1
  /\ signal_pending_state(how[t], sig[t])
  /\ count' = -1
  /\ wait_lock' = NULL
  /\ Goto(t, "idle")
  /\ UNCHANGED <<wait_list, state, how, sig>>

(* Not free, and a signal: -EINTR.                                         *)
lock_retry_intr(t) == /\ InLoop(t) /\ count # 1
                      /\ signal_pending_state(how[t], sig[t])
                      /\ count' = -1
                      /\ wait_list' = list_del(wait_list, t)
                      /\ wait_lock' = NULL
                      /\ Goto(t, "idle")
                      /\ UNCHANGED <<state, how, sig>>

(* Not free: sleep, with count left at -1 so that the owner wakes us.      *)
lock_retry_sleep(t) == /\ InLoop(t) /\ count # 1
                       /\ ~signal_pending_state(how[t], sig[t])
                       /\ count' = -1
                       /\ state' = [state EXCEPT ![t] = how[t]]
                       /\ wait_lock' = NULL
                       /\ Goto(t, "sleep")
                       /\ UNCHANGED <<wait_list, how, sig>>

(* Mutant: the waiters mark is dropped with waiters left.                  *)
lock_done_always_zero(t) ==
  /\ pc[t] = "got"
  /\ wait_list' = list_del(wait_list, t)
  /\ count' = 0
  /\ wait_lock' = NULL
  /\ Goto(t, "held")
  /\ UNCHANGED <<state, how, sig>>

(* done: leave the list, and drop the waiters mark when it is empty.       *)
lock_done(t) == /\ pc[t] = "got"
                /\ wait_list' = list_del(wait_list, t)
                /\ count' = IF wait_list' = <<>> THEN 0 ELSE count
                /\ wait_lock' = NULL
                /\ Goto(t, "held")
                /\ UNCHANGED <<state, how, sig>>

(***************************************************************************)
(* Unlocking.                                                              *)
(***************************************************************************)

(* One increment.  It releases the mutex only if it found 0; otherwise, or *)
(* when the exclusive store failed, the mutex is still locked and the slow *)
(* path unlocks it.                                                        *)
mutex_unlock(t) ==
  /\ pc[t] = "held"
  /\ \/ count' = count + 1 /\ Goto(t, IF count = 0 THEN "idle" ELSE "unlock")
     \/ UNCHANGED count /\ Goto(t, "unlock")
  /\ UNCHANGED <<wait_list, wait_lock, state, how, sig>>

(* __mutex_slowpath_needs_to_unlock() is 1 here.                           *)
unlock_set(t) == /\ pc[t] = "unlock" /\ wait_lock = NULL
                 /\ wait_lock' = t
                 /\ count' = 1
                 /\ Goto(t, "wake")
                 /\ UNCHANGED <<wait_list, state, how, sig>>

(* Mutant: nobody is woken.                                                *)
unlock_wake_nobody(t) ==
  /\ pc[t] = "wake"
  /\ wait_lock' = NULL
  /\ Goto(t, "idle")
  /\ UNCHANGED <<count, wait_list, state, how, sig>>

(* Wake the first waiter, which stays on the list and must take the mutex  *)
(* for itself.                                                             *)
unlock_wake(t) == /\ pc[t] = "wake"
                  /\ state' = IF wait_list = <<>> THEN state
                              ELSE [state EXCEPT ![Head(wait_list)] = "RUNNING"]
                  /\ wait_lock' = NULL
                  /\ Goto(t, "idle")
                  /\ UNCHANGED <<count, wait_list, how, sig>>

(***************************************************************************)
(* The environment.                                                        *)
(***************************************************************************)

send_signal(t) == \E s \in {"signal", "fatal"} :
  /\ sig[t] # "fatal" /\ sig[t] # s
  /\ sig' = [sig EXCEPT ![t] = s]
  /\ state' = IF signal_pending_state(state[t], s)
              THEN [state EXCEPT ![t] = "RUNNING"]
              ELSE state
  /\ UNCHANGED <<count, wait_list, wait_lock, how, pc>>

take_signal(t) == /\ pc[t] = "idle" /\ sig[t] # "none"
                  /\ sig' = [sig EXCEPT ![t] = "none"]
                  /\ UNCHANGED <<count, wait_list, wait_lock, state, how, pc>>

spurious_wakeup(t) == /\ pc[t] = "sleep" /\ state[t] # "RUNNING"
                      /\ state' = [state EXCEPT ![t] = "RUNNING"]
                      /\ UNCHANGED <<count, wait_list, wait_lock, how, sig, pc>>

Lock(t) == \/ mutex_lock(t) \/ mutex_lock_interruptible(t) \/ mutex_lock_killable(t)
           \/ mutex_trylock(t)

LockSlow(t) == \/ lock_enter(t) \/ lock_retry_got(t) \/ lock_retry_intr(t)
               \/ lock_retry_sleep(t) \/ lock_done(t)

Unlock(t) == mutex_unlock(t) \/ unlock_set(t) \/ unlock_wake(t)

Environment(t) == send_signal(t) \/ take_signal(t) \/ spurious_wakeup(t)

Next == \E t \in Tasks : Lock(t) \/ LockSlow(t) \/ Unlock(t) \/ Environment(t)

Spec == Init /\ [][Next]_vars

(* A task in a slow path runs on, and an owner unlocks.                    *)
Fairness == \A t \in Tasks : WF_vars(LockSlow(t)) /\ WF_vars(Unlock(t))

FairSpec == Spec /\ Fairness

(***************************************************************************)
(* Properties.                                                             *)
(***************************************************************************)

TypeOK == /\ count \in Int /\ count <= 1
          /\ wait_list \in Seq(Tasks)
          /\ wait_lock \in Tasks \cup {NULL}
          /\ state \in [Tasks -> TaskStates]
          /\ how \in [Tasks -> SleepStates]
          /\ sig \in [Tasks -> Signals]
          /\ pc \in [Tasks -> PCs]

(* The tasks that own the mutex: a release in the slow path takes effect   *)
(* when it sets count to 1.                                                *)
Owners == {t \in Tasks : pc[t] \in {"got", "held", "unlock"}}

(* One owner at a time, however fast and slow paths interleave.            *)
MutualExclusion == \A t, u \in Owners : t = u

(* count is 1 exactly when nobody owns the mutex: the unreliable           *)
(* increments and decrements of the fast paths neither free an owned mutex *)
(* nor lock it for nobody.                                                 *)
FreeMeansOne == count = 1 <=> Owners = {}

(* A sleeper on the list is never forgotten: as long as count does not     *)
(* tell the owner to take the slow path, somebody is about to retry or to  *)
(* wake.                                                                   *)
NoLostWakeup ==
  (\E t \in Tasks : pc[t] = "sleep") /\ count >= 0
    => \E t \in Tasks : \/ pc[t] = "sleep" /\ state[t] = "RUNNING"
                        \/ pc[t] \in {"retry", "unlock", "wake"}

(* Exactly the tasks inside the slow path are on the list.                 *)
WaitersAlive ==
  /\ \A t \in Tasks : OnList(wait_list, t) <=> pc[t] \in {"retry", "sleep", "got"}
  /\ Distinct(wait_list)

(* The mutex does not stay free while somebody waits for it.               *)
FreeIsTaken == (count = 1 /\ wait_list # <<>>) ~> Owners # {}

=============================================================================
