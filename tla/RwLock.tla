------------------------------- MODULE RwLock -------------------------------
(***************************************************************************)
(* What a read/write semaphore promises its users: any number of readers   *)
(* or one writer, granted strictly in the order of arrival.  This is the   *)
(* abstract specification that RwSem (lib/rwsem-spinlock.c) implements.    *)
(***************************************************************************)
EXTENDS Sequences, FiniteSets

CONSTANT Tasks

VARIABLES readers,  \* tasks that hold the lock for reading
          writers,  \* tasks that hold it for writing
          queue     \* requests not yet granted, oldest first

lockvars == <<readers, writers, queue>>

Modes == {"READ", "WRITE"}

Request == [task : Tasks, mode : Modes]

(* A request can be granted next to the present holders. *)
Compatible(m) == /\ writers = {}
                 /\ m = "WRITE" => readers = {}

Hold(t, m) == IF m = "READ"
              THEN readers' = readers \cup {t} /\ UNCHANGED writers
              ELSE writers' = writers \cup {t} /\ UNCHANGED readers

Idle(t) == /\ t \notin readers \cup writers
           /\ \A i \in DOMAIN queue : queue[i].task # t

Init == readers = {} /\ writers = {} /\ queue = <<>>

(* A new request overtakes nobody: it is granted at once only when the     *)
(* queue is empty.                                                         *)
Acquire(t, m) == /\ Idle(t)
                 /\ queue = <<>> /\ Compatible(m)
                 /\ Hold(t, m)
                 /\ UNCHANGED queue

Enqueue(t, m) == /\ Idle(t)
                 /\ ~ (queue = <<>> /\ Compatible(m))
                 /\ queue' = Append(queue, [task |-> t, mode |-> m])
                 /\ UNCHANGED <<readers, writers>>

Grant == /\ queue # <<>>
         /\ Compatible(Head(queue).mode)
         /\ Hold(Head(queue).task, Head(queue).mode)
         /\ queue' = Tail(queue)

ReleaseRead(t) == /\ t \in readers
                  /\ readers' = readers \ {t}
                  /\ UNCHANGED <<writers, queue>>

ReleaseWrite(t) == /\ t \in writers
                   /\ writers' = writers \ {t}
                   /\ UNCHANGED <<readers, queue>>

Downgrade(t) == /\ t \in writers
                /\ writers' = writers \ {t}
                /\ readers' = readers \cup {t}
                /\ UNCHANGED queue

Next == \/ Grant
        \/ \E t \in Tasks :
             \/ \E m \in Modes : Acquire(t, m) \/ Enqueue(t, m)
             \/ ReleaseRead(t)
             \/ ReleaseWrite(t)
             \/ Downgrade(t)

Spec == Init /\ [][Next]_lockvars

=============================================================================
