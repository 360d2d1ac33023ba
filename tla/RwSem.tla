-------------------------------- MODULE RwSem --------------------------------
(***************************************************************************)
(* The read/write semaphore of lib/rwsem-spinlock.c, the implementation    *)
(* this kernel is configured with (CONFIG_RWSEM_GENERIC_SPINLOCK=y).       *)
(*                                                                         *)
(* A critical section of sem->wait_lock is one step unless it publishes    *)
(* something a task reads without the lock: the waiter loop polls          *)
(* waiter.task and its own task state with no lock held, so clearing       *)
(* waiter->task and wake_up_process are steps of their own, taken by the   *)
(* waking task while it keeps wait_lock.                                   *)
(***************************************************************************)
EXTENDS Integers, Sequences, FiniteSets

CONSTANTS Tasks,   \* the tasks that use the semaphore
          NULL     \* the null pointer

ASSUME TasksAssumption == IsFiniteSet(Tasks) /\ NULL \notin Tasks

VARIABLES activity,   \* sem->activity: -1 a writer, n > 0 readers, 0 free
          wait_list,  \* sem->wait_list: the tasks queued, oldest first
          wait_lock,  \* sem->wait_lock: the task that is inside, or NULL
          flags,      \* waiter.flags of each task's on-stack rwsem_waiter
          waiting,    \* waiter.task of that waiter is not NULL
          state,      \* task->state
          tsk,        \* local of the waking function: the task to wake up
          woken,      \* local of __rwsem_do_wake
          pc          \* where each task is

vars == <<activity, wait_list, wait_lock, flags, waiting, state, tsk, woken, pc>>

WakePC == {"wake_one_writer", "do_wake", "downgrade", "wake_writer"}

WaitPC == {"check", "schedule"}

PCs == {"idle", "reading", "writing"} \cup WaitPC \cup WakePC

Init == /\ activity = 0
        /\ wait_list = <<>>
        /\ wait_lock = NULL
        /\ flags = [t \in Tasks |-> "READ"]
        /\ waiting = [t \in Tasks |-> FALSE]
        /\ state = [t \in Tasks |-> "RUNNING"]
        /\ tsk = NULL
        /\ woken = 0
        /\ pc = [t \in Tasks |-> "idle"]

Goto(t, l) == pc' = [pc EXCEPT ![t] = l]

(***************************************************************************)
(* Taking the semaphore.                                                   *)
(***************************************************************************)

(* Mutant: a reader overtakes the queued tasks.                            *)
CanReadOvertakes == activity >= 0

(* The tests __down_read, __down_write and the trylocks make under the     *)
(* lock: a newcomer never overtakes a queued task.                         *)
CanRead == activity >= 0 /\ wait_list = <<>>

CanWrite == activity = 0 /\ wait_list = <<>>

(* Queue the on-stack waiter and go to the wait loop.                      *)
Enqueue(t, f) == /\ state' = [state EXCEPT ![t] = "UNINTERRUPTIBLE"]
                 /\ flags' = [flags EXCEPT ![t] = f]
                 /\ waiting' = [waiting EXCEPT ![t] = TRUE]
                 /\ wait_list' = Append(wait_list, t)
                 /\ Goto(t, "check")
                 /\ UNCHANGED <<activity, wait_lock, tsk, woken>>

GrantRead(t) == /\ activity' = activity + 1
                /\ Goto(t, "reading")
                /\ UNCHANGED <<wait_list, wait_lock, flags, waiting, state, tsk, woken>>

GrantWrite(t) == /\ activity' = -1
                 /\ Goto(t, "writing")
                 /\ UNCHANGED <<wait_list, wait_lock, flags, waiting, state, tsk, woken>>

down_read(t) == /\ pc[t] = "idle" /\ wait_lock = NULL
                /\ \/ CanRead /\ GrantRead(t)
                   \/ ~CanRead /\ Enqueue(t, "READ")

down_write(t) == /\ pc[t] = "idle" /\ wait_lock = NULL
                 /\ \/ CanWrite /\ GrantWrite(t)
                    \/ ~CanWrite /\ Enqueue(t, "WRITE")

(* A trylock that fails changes nothing.                                   *)
down_read_trylock(t) == /\ pc[t] = "idle" /\ wait_lock = NULL
                        /\ CanRead /\ GrantRead(t)

down_write_trylock(t) == /\ pc[t] = "idle" /\ wait_lock = NULL
                         /\ CanWrite /\ GrantWrite(t)

(* One turn of the wait loop, without the lock: leave when waiter.task is  *)
(* NULL, otherwise call schedule().                                        *)
check_waiter(t) ==
  /\ pc[t] = "check"
  /\ IF waiting[t]
     THEN Goto(t, "schedule") /\ UNCHANGED state
     ELSE /\ Goto(t, IF flags[t] = "READ" THEN "reading" ELSE "writing")
          /\ state' = [state EXCEPT ![t] = "RUNNING"]
  /\ UNCHANGED <<activity, wait_list, wait_lock, flags, waiting, tsk, woken>>

(* Mutant: the loop sleeps again without another look at waiter.task.      *)
schedule_no_retest(t) ==
  /\ pc[t] = "schedule" /\ state[t] = "RUNNING"
  /\ state' = [state EXCEPT ![t] = "UNINTERRUPTIBLE"]
  /\ Goto(t, "schedule")
  /\ UNCHANGED <<activity, wait_list, wait_lock, flags, waiting, tsk, woken>>

(* schedule() returns once the task has been made RUNNING.                 *)
schedule(t) ==
  /\ pc[t] = "schedule" /\ state[t] = "RUNNING"
  /\ state' = [state EXCEPT ![t] = "UNINTERRUPTIBLE"]
  /\ Goto(t, "check")
  /\ UNCHANGED <<activity, wait_list, wait_lock, flags, waiting, tsk, woken>>

(* A wake-up not meant for this wait: the late wake_up_process of another  *)
(* lock the task already left.  The loop must tolerate it.                 *)
spurious_wakeup(t) ==
  /\ pc[t] \in WaitPC /\ state[t] = "UNINTERRUPTIBLE"
  /\ state' = [state EXCEPT ![t] = "RUNNING"]
  /\ UNCHANGED <<activity, wait_list, wait_lock, flags, waiting, tsk, woken, pc>>

(***************************************************************************)
(* Releasing it.  The task that has to wake others keeps wait_lock.        *)
(***************************************************************************)

(* Leave the critical section, or keep it to run the waking function l.    *)
UnlockOrWake(t, out, wake, l) ==
  /\ Goto(t, IF wake THEN l ELSE out)
  /\ wait_lock' = IF wake THEN t ELSE NULL
  /\ UNCHANGED <<wait_list, flags, waiting, state, tsk, woken>>

up_read(t) == /\ pc[t] = "reading" /\ wait_lock = NULL
              /\ activity' = activity - 1
              /\ UnlockOrWake(t, "idle", activity = 1 /\ wait_list # <<>>, "wake_one_writer")

up_write(t) == /\ pc[t] = "writing" /\ wait_lock = NULL
               /\ activity' = 0
               /\ UnlockOrWake(t, "idle", wait_list # <<>>, "do_wake")

(* Mutant: the downgrade leaves the waiting readers to the next release.   *)
downgrade_write_no_wake(t) ==
  /\ pc[t] = "writing" /\ wait_lock = NULL
  /\ activity' = 1
  /\ UnlockOrWake(t, "reading", FALSE, "downgrade")

downgrade_write(t) == /\ pc[t] = "writing" /\ wait_lock = NULL
                      /\ activity' = 1
                      /\ UnlockOrWake(t, "reading", wait_list # <<>>, "downgrade")

(* list_del(&waiter->list); tsk = waiter->task; waiter->task = NULL        *)
DequeueHead == /\ tsk' = Head(wait_list)
               /\ waiting' = [waiting EXCEPT ![Head(wait_list)] = FALSE]
               /\ wait_list' = Tail(wait_list)

HeadIs(f) == wait_list # <<>> /\ flags[Head(wait_list)] = f

(* Mutant: the downgrade calls __rwsem_do_wake with wakewrite = 1.         *)
wake_grant_writer_on_downgrade(t) ==
  /\ \/ pc[t] = "wake_one_writer"
     \/ pc[t] \in {"do_wake", "downgrade"} /\ tsk = NULL /\ woken = 0 /\ HeadIs("WRITE")
  /\ activity' = -1
  /\ DequeueHead
  /\ Goto(t, IF pc[t] = "downgrade" THEN "downgrade" ELSE "wake_writer")
  /\ UNCHANGED <<wait_lock, flags, state, woken>>

(* __rwsem_wake_one_writer takes the head for a writer without looking;    *)
(* __rwsem_do_wake looks, and never wakes a writer for a downgrade.        *)
wake_grant_writer(t) ==
  /\ \/ pc[t] = "wake_one_writer"
     \/ pc[t] = "do_wake" /\ tsk = NULL /\ woken = 0 /\ HeadIs("WRITE")
  /\ activity' = -1
  /\ DequeueHead
  /\ Goto(t, "wake_writer")
  /\ UNCHANGED <<wait_lock, flags, state, woken>>

wake_grant_reader(t) ==
  /\ pc[t] \in {"do_wake", "downgrade"} /\ tsk = NULL
  /\ HeadIs("READ")
  /\ DequeueHead
  /\ UNCHANGED <<activity, wait_lock, flags, state, woken, pc>>

(* wake_up_process(tsk), then out of the function and of the lock.         *)
wake_up_writer(t) ==
  /\ pc[t] = "wake_writer"
  /\ state' = [state EXCEPT ![tsk] = "RUNNING"]
  /\ tsk' = NULL
  /\ wait_lock' = NULL
  /\ Goto(t, "idle")
  /\ UNCHANGED <<activity, wait_list, flags, waiting, woken>>

wake_up_reader(t) ==
  /\ pc[t] \in {"do_wake", "downgrade"} /\ tsk # NULL
  /\ state' = [state EXCEPT ![tsk] = "RUNNING"]
  /\ tsk' = NULL
  /\ woken' = woken + 1
  /\ UNCHANGED <<activity, wait_list, wait_lock, flags, waiting, pc>>

(* Mutant: the readers woken are assigned to activity, not added.          *)
wake_finish_assigns(t) ==
  /\ pc[t] \in {"do_wake", "downgrade"} /\ tsk = NULL
  /\ ~HeadIs("READ")
  /\ pc[t] = "do_wake" => woken > 0
  /\ activity' = woken
  /\ woken' = 0
  /\ wait_lock' = NULL
  /\ Goto(t, IF pc[t] = "do_wake" THEN "idle" ELSE "reading")
  /\ UNCHANGED <<wait_list, flags, waiting, state, tsk>>

(* The loop stops at a writer or at the end of the list.                   *)
wake_finish(t) ==
  /\ pc[t] \in {"do_wake", "downgrade"} /\ tsk = NULL
  /\ ~HeadIs("READ")
  /\ pc[t] = "do_wake" => woken > 0
  /\ activity' = activity + woken
  /\ woken' = 0
  /\ wait_lock' = NULL
  /\ Goto(t, IF pc[t] = "do_wake" THEN "idle" ELSE "reading")
  /\ UNCHANGED <<wait_list, flags, waiting, state, tsk>>

(***************************************************************************)
(* The specification.                                                      *)
(***************************************************************************)

Wake(t) == \/ wake_grant_writer(t) \/ wake_grant_reader(t)
           \/ wake_up_writer(t) \/ wake_up_reader(t) \/ wake_finish(t)

Down(t) == \/ down_read(t) \/ down_write(t)
           \/ down_read_trylock(t) \/ down_write_trylock(t)

Up(t) == up_read(t) \/ up_write(t) \/ downgrade_write(t)

Wait(t) == check_waiter(t) \/ schedule(t)

Next == \E t \in Tasks :
          Down(t) \/ Up(t) \/ Wait(t) \/ Wake(t) \/ spurious_wakeup(t)

Spec == Init /\ [][Next]_vars

(* A task that is runnable runs on and leaves the wait loop, a waking      *)
(* section ends, and whoever holds the semaphore releases it one day.      *)
Fairness == \A t \in Tasks : /\ WF_vars(Wait(t))
                             /\ WF_vars(Wake(t))
                             /\ WF_vars(Up(t))

FairSpec == Spec /\ Fairness

(***************************************************************************)
(* Properties.                                                             *)
(***************************************************************************)

TypeOK == /\ activity \in Nat \cup {-1}
          /\ wait_list \in Seq(Tasks)
          /\ wait_lock \in Tasks \cup {NULL}
          /\ flags \in [Tasks -> {"READ", "WRITE"}]
          /\ waiting \in [Tasks -> BOOLEAN]
          /\ state \in [Tasks -> {"RUNNING", "UNINTERRUPTIBLE"}]
          /\ tsk \in Tasks \cup {NULL}
          /\ woken \in Nat
          /\ pc \in [Tasks -> PCs]

(* The holders.  A waiter holds the semaphore from the moment its          *)
(* waiter.task is cleared, before it has run: the waker grants, the waiter *)
(* only finds out.                                                         *)
Granted(f) == {t \in Tasks : pc[t] \in WaitPC /\ ~waiting[t] /\ flags[t] = f}

Readers == {t \in Tasks : pc[t] \in {"reading", "downgrade"}} \cup Granted("READ")

Writers == {t \in Tasks : pc[t] = "writing"} \cup Granted("WRITE")

(* A writer holds the semaphore alone: no reader and no second writer,     *)
(* however grants made by __rwsem_do_wake overlap with tasks that have not *)
(* yet left their wait loop.                                               *)
Exclusion == \A w \in Writers : Readers = {} /\ Writers = {w}

(* Outside the critical sections sem->activity is what rwsem.h says it is: *)
(* -1 for one writer, otherwise the number of readers.                     *)
ActivityCounts == wait_lock = NULL =>
                    \/ activity = -1 /\ Cardinality(Writers) = 1
                    \/ activity = Cardinality(Readers) /\ Writers = {}

(* __up_read wakes the head of the list as a writer without looking at its *)
(* flags.  That is right only if, whenever readers hold the semaphore and  *)
(* somebody waits, the first in the list is a writer.                      *)
HeadIsWriter ==
  /\ wait_lock = NULL /\ activity > 0 /\ wait_list # <<>> => HeadIs("WRITE")
  /\ \A t \in Tasks : pc[t] = "wake_one_writer" => HeadIs("WRITE")

(* A free semaphore has no queue: nobody waits for a release that has      *)
(* already happened.                                                       *)
FreeHasNoQueue == wait_lock = NULL /\ activity = 0 => wait_list = <<>>

(* The waker clears waiter->task before it calls wake_up_process, and the  *)
(* sleeper tests waiter.task after it set its state: a granted task is     *)
(* never left asleep unless its wake-up is still to come.                  *)
NoLostWakeup == \A t \in Tasks :
  pc[t] = "schedule" /\ state[t] = "UNINTERRUPTIBLE" /\ ~waiting[t] => tsk = t

(* The requests of the abstract lock.                                      *)
Requests == [i \in DOMAIN wait_list |->
               [task |-> wait_list[i], mode |-> flags[wait_list[i]]]]

Lock == INSTANCE RwLock WITH readers <- Readers, writers <- Writers, queue <- Requests

(* The semaphore implements the abstract first-come-first-served lock.     *)
LockSpec == Lock!Spec

(* Every task that queued in __down_read or __down_write is served.        *)
EveryWaiterServed ==
  \A t \in Tasks : pc[t] \in WaitPC ~> pc[t] \in {"reading", "writing"}

=============================================================================
