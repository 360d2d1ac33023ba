----------------------------- MODULE RwSemProofs -----------------------------
(***************************************************************************)
(* Proofs about RwSem, for any finite set of tasks.                        *)
(***************************************************************************)
EXTENDS RwSem, FiniteSetTheorems, SequenceTheorems, TLAPS

(***************************************************************************)
(* The inductive invariant.                                                *)
(***************************************************************************)

(* Only the task inside a waking function holds wait_lock across steps.    *)
OwnerInv == /\ \A t \in Tasks : pc[t] \in WakePC <=> wait_lock = t
            /\ wait_lock = NULL => tsk = NULL /\ woken = 0

(* The list holds exactly the tasks whose waiter.task is set, once each.   *)
QueueInv == /\ \A t \in Tasks : waiting[t] <=> \E i \in 1..Len(wait_list) : wait_list[i] = t
            /\ \A t \in Tasks : waiting[t] => pc[t] \in WaitPC
            /\ \A i, j \in 1..Len(wait_list) : wait_list[i] = wait_list[j] => i = j

(* A task granted but not yet woken up in the present waking section.      *)
Pending == IF tsk = NULL THEN 0 ELSE 1

(* What activity counts, at each point of the code.                        *)
FreeInv == wait_lock = NULL =>
  /\ \/ activity = -1 /\ Cardinality(Writers) = 1 /\ Readers = {}
     \/ activity = Cardinality(Readers) /\ Writers = {}
  /\ activity > 0 /\ wait_list # <<>> => HeadIs("WRITE")
  /\ activity = 0 => wait_list = <<>>

OneWriterInv == \A t \in Tasks : pc[t] = "wake_one_writer" =>
  /\ activity = 0 /\ tsk = NULL /\ woken = 0
  /\ Readers = {} /\ Writers = {}
  /\ HeadIs("WRITE")

DoWakeInv == \A t \in Tasks : pc[t] = "do_wake" =>
  /\ activity = 0 /\ Writers = {}
  /\ Cardinality(Readers) = woken + Pending
  /\ tsk = NULL /\ woken = 0 => wait_list # <<>>

DowngradeInv == \A t \in Tasks : pc[t] = "downgrade" =>
  /\ activity = 1 /\ Writers = {}
  /\ Cardinality(Readers) = 1 + woken + Pending

WakeWriterInv == \A t \in Tasks : pc[t] = "wake_writer" =>
  /\ activity = -1 /\ tsk # NULL /\ woken = 0
  /\ Readers = {} /\ Cardinality(Writers) = 1

IInv == /\ TypeOK
        /\ OwnerInv
        /\ QueueInv
        /\ FreeInv
        /\ OneWriterInv
        /\ DoWakeInv
        /\ DowngradeInv
        /\ WakeWriterInv
        /\ NoLostWakeup

(***************************************************************************)
(* How each step changes the holders.                                      *)
(***************************************************************************)

LEMMA HoldersFinite ==
  /\ IsFiniteSet(Readers) /\ Cardinality(Readers) \in Nat
  /\ IsFiniteSet(Writers) /\ Cardinality(Writers) \in Nat
<1>1. Readers \in SUBSET Tasks /\ Writers \in SUBSET Tasks
  BY DEF Readers, Writers, Granted
<1>2. IsFiniteSet(Readers) /\ IsFiniteSet(Writers)
  BY <1>1, FS_Subset, TasksAssumption
<1> QED
  BY <1>2, FS_CardinalityType

(* The head of the list is a waiting task.                                 *)
LEMMA HeadWaits ==
  ASSUME TypeOK, QueueInv, wait_list # <<>>
  PROVE  /\ Head(wait_list) \in Tasks
         /\ Head(wait_list) = wait_list[1]
         /\ Len(wait_list) \in Nat \ {0}
         /\ waiting[Head(wait_list)]
         /\ pc[Head(wait_list)] \in WaitPC
<1>1. /\ Head(wait_list) \in Tasks
      /\ Head(wait_list) = wait_list[1]
      /\ Len(wait_list) \in Nat \ {0}
  BY DEF TypeOK
<1> QED
  BY <1>1 DEF QueueInv

(* A first-come grant in __down_read, or a read trylock.                   *)
LEMMA HoldersGrantRead ==
  ASSUME TypeOK, NEW t \in Tasks, pc[t] = "idle", GrantRead(t)
  PROVE  t \notin Readers /\ Readers' = Readers \cup {t} /\ Writers' = Writers
BY DEF TypeOK, PCs, WaitPC, WakePC, GrantRead, Goto, Readers, Writers, Granted

LEMMA HoldersGrantWrite ==
  ASSUME TypeOK, NEW t \in Tasks, pc[t] = "idle", GrantWrite(t)
  PROVE  t \notin Writers /\ Writers' = Writers \cup {t} /\ Readers' = Readers
BY DEF TypeOK, PCs, WaitPC, WakePC, GrantWrite, Goto, Readers, Writers, Granted

LEMMA HoldersEnqueue ==
  ASSUME TypeOK, NEW t \in Tasks, NEW f \in {"READ", "WRITE"},
         pc[t] = "idle", Enqueue(t, f)
  PROVE  Readers' = Readers /\ Writers' = Writers
BY DEF TypeOK, PCs, WaitPC, WakePC, Enqueue, Goto, Readers, Writers, Granted

LEMMA HoldersWait ==
  ASSUME TypeOK, NEW t \in Tasks,
         check_waiter(t) \/ schedule(t) \/ spurious_wakeup(t)
  PROVE  Readers' = Readers /\ Writers' = Writers
<1> USE DEF TypeOK, PCs, WaitPC, WakePC, Goto, Readers, Writers, Granted
<1>1. CASE check_waiter(t)
  <2>1. CASE waiting[t]
    BY <1>1, <2>1 DEF check_waiter
  <2>2. CASE ~waiting[t]
    BY <1>1, <2>2 DEF check_waiter
  <2> QED
    BY <2>1, <2>2
<1>2. CASE schedule(t)
  BY <1>2 DEF schedule
<1>3. CASE spurious_wakeup(t)
  BY <1>3 DEF spurious_wakeup
<1> QED
  BY <1>1, <1>2, <1>3

LEMMA HoldersUpRead ==
  ASSUME TypeOK, NEW t \in Tasks, up_read(t)
  PROVE  t \in Readers /\ Readers' = Readers \ {t} /\ Writers' = Writers
BY DEF TypeOK, PCs, WaitPC, WakePC, up_read, UnlockOrWake, Goto, Readers, Writers, Granted

LEMMA HoldersUpWrite ==
  ASSUME TypeOK, NEW t \in Tasks, up_write(t)
  PROVE  t \in Writers /\ Writers' = Writers \ {t} /\ Readers' = Readers
BY DEF TypeOK, PCs, WaitPC, WakePC, up_write, UnlockOrWake, Goto, Readers, Writers, Granted

LEMMA HoldersDowngrade ==
  ASSUME TypeOK, NEW t \in Tasks, downgrade_write(t)
  PROVE  /\ t \in Writers /\ Writers' = Writers \ {t}
         /\ t \notin Readers /\ Readers' = Readers \cup {t}
BY DEF TypeOK, PCs, WaitPC, WakePC, downgrade_write, UnlockOrWake, Goto, Readers, Writers, Granted

LEMMA HoldersGrantHead ==
  ASSUME TypeOK, QueueInv, wait_list # <<>>,
         NEW t \in Tasks, NEW f \in {"READ", "WRITE"}, flags[Head(wait_list)] = f,
         DequeueHead, UNCHANGED flags,
         \/ UNCHANGED pc
         \/ /\ pc[t] \in {"wake_one_writer", "do_wake"}
            /\ Goto(t, "wake_writer")
  PROVE  /\ f = "READ" => /\ Head(wait_list) \notin Readers
                          /\ Readers' = Readers \cup {Head(wait_list)}
                          /\ Writers' = Writers
         /\ f = "WRITE" => /\ Head(wait_list) \notin Writers
                           /\ Writers' = Writers \cup {Head(wait_list)}
                           /\ Readers' = Readers
<1> DEFINE h == Head(wait_list)
<1>1. h \in Tasks /\ waiting[h] /\ pc[h] \in WaitPC
  BY HeadWaits
<1>2. /\ \A x \in Tasks : waiting'[x] <=> waiting[x] /\ x # h
      /\ waiting' \in [Tasks -> BOOLEAN]
  BY <1>1 DEF DequeueHead, TypeOK
<1>3. \A x \in Tasks : pc'[x] \in {"reading", "downgrade"} <=> pc[x] \in {"reading", "downgrade"}
  BY DEF TypeOK, Goto, PCs
<1>4. \A x \in Tasks : pc'[x] = "writing" <=> pc[x] = "writing"
  BY DEF TypeOK, Goto, PCs
<1>5. \A x \in Tasks : pc'[x] \in WaitPC <=> pc[x] \in WaitPC
  BY DEF TypeOK, Goto, PCs, WaitPC
<1> HIDE DEF h
<1>6. \A x \in Tasks : x \in Readers' <=> x \in Readers \/ (x = h /\ f = "READ")
  BY <1>1, <1>2, <1>3, <1>5, flags' = flags, flags[h] = f DEF Readers, Granted, h
<1>7. \A x \in Tasks : x \in Writers' <=> x \in Writers \/ (x = h /\ f = "WRITE")
  BY <1>1, <1>2, <1>4, <1>5, flags' = flags, flags[h] = f DEF Writers, Granted, h
<1>8. h \notin Readers /\ h \notin Writers
  BY <1>1 DEF Readers, Writers, Granted, WaitPC
<1>9. /\ Readers \subseteq Tasks /\ Writers \subseteq Tasks
      /\ Readers' \subseteq Tasks /\ Writers' \subseteq Tasks
  BY DEF Readers, Writers, Granted
<1> QED
  BY <1>1, <1>6, <1>7, <1>8, <1>9 DEF h

LEMMA HoldersWakeUp ==
  ASSUME TypeOK, NEW t \in Tasks,
         wake_up_writer(t) \/ wake_up_reader(t) \/ wake_finish(t)
  PROVE  Readers' = Readers /\ Writers' = Writers
<1> USE DEF TypeOK, PCs, WaitPC, WakePC, Goto, Readers, Writers, Granted
<1>1. CASE wake_up_writer(t)
  BY <1>1 DEF wake_up_writer
<1>2. CASE wake_up_reader(t)
  BY <1>2 DEF wake_up_reader
<1>3. CASE wake_finish(t)
  BY <1>3 DEF wake_finish
<1> QED
  BY <1>1, <1>2, <1>3

(***************************************************************************)
(* Every step preserves the invariant.                                     *)
(***************************************************************************)

LEMMA InitInv == Init => IInv
<1> SUFFICES ASSUME Init PROVE IInv
  OBVIOUS
<1>1. Readers = {} /\ Writers = {}
  BY DEF Init, Readers, Writers, Granted, WaitPC
<1>2. TypeOK
  BY DEF Init, TypeOK, PCs
<1> QED
  BY <1>1, <1>2, FS_EmptySet, TasksAssumption
  DEF Init, IInv, OwnerInv, QueueInv, FreeInv, OneWriterInv, DoWakeInv,
      DowngradeInv, WakeWriterInv, NoLostWakeup, WakePC, WaitPC

LEMMA TypeStep ==
  ASSUME TypeOK, OwnerInv, QueueInv, FreeInv, OneWriterInv, DoWakeInv, DowngradeInv,
         WakeWriterInv, NEW t \in Tasks,
         Down(t) \/ Up(t) \/ Wait(t) \/ Wake(t) \/ spurious_wakeup(t)
  PROVE  TypeOK'
<1> USE DEF TypeOK, PCs, WaitPC, WakePC, Goto
<1>1. ASSUME NEW f \in {"READ", "WRITE"}, Enqueue(t, f) PROVE TypeOK'
  BY <1>1, AppendProperties DEF Enqueue
<1>2. CASE GrantRead(t) /\ activity >= 0
  BY <1>2 DEF GrantRead
<1>3. CASE GrantWrite(t)
  BY <1>3 DEF GrantWrite
<1>4. CASE Down(t)
  BY <1>1, <1>2, <1>3, <1>4
  DEF Down, down_read, down_write, down_read_trylock, down_write_trylock, CanRead, CanWrite
<1>5. CASE up_read(t)
  <2>1. activity > 0
    <3>1. t \in Readers /\ wait_lock = NULL
      BY <1>5, HoldersUpRead DEF up_read
    <3>2. Cardinality(Readers) \in Nat \ {0}
      BY <3>1, HoldersFinite, FS_EmptySet
    <3> QED
      BY <3>1, <3>2 DEF FreeInv
  <2> QED
    BY <1>5, <2>1 DEF up_read, UnlockOrWake
<1>6. CASE up_write(t) \/ downgrade_write(t)
  BY <1>6 DEF up_write, downgrade_write, UnlockOrWake
<1>7. CASE Wait(t) \/ spurious_wakeup(t)
  BY <1>7 DEF Wait, check_waiter, schedule, spurious_wakeup
<1>8. CASE wake_grant_writer(t) \/ wake_grant_reader(t)
  <2>1. wait_list # <<>> /\ DequeueHead
    BY <1>8 DEF wake_grant_writer, wake_grant_reader, HeadIs, OneWriterInv
  <2>2. Head(wait_list) \in Tasks /\ Tail(wait_list) \in Seq(Tasks)
    BY <2>1, HeadTailProperties
  <2> QED
    BY <1>8, <2>1, <2>2 DEF wake_grant_writer, wake_grant_reader, DequeueHead
<1>9. CASE wake_up_writer(t) \/ wake_up_reader(t)
  BY <1>9 DEF wake_up_writer, wake_up_reader
<1>10. CASE wake_finish(t)
  BY <1>10 DEF wake_finish, DoWakeInv, DowngradeInv
<1> QED
  BY <1>4, <1>5, <1>6, <1>7, <1>8, <1>9, <1>10 DEF Up, Wake

LEMMA OwnerStep ==
  ASSUME TypeOK, OwnerInv, QueueInv, OneWriterInv, DoWakeInv, DowngradeInv, WakeWriterInv,
         NEW t \in Tasks,
         Down(t) \/ Up(t) \/ Wait(t) \/ Wake(t) \/ spurious_wakeup(t)
  PROVE  OwnerInv'
<1> USE TasksAssumption DEF TypeOK, OwnerInv, PCs, WaitPC, WakePC, Goto
<1>1. CASE Down(t)
  BY <1>1 DEF Down, down_read, down_write, down_read_trylock, down_write_trylock,
              GrantRead, GrantWrite, Enqueue
<1>2. CASE Up(t)
  BY <1>2 DEF Up, up_read, up_write, downgrade_write, UnlockOrWake
<1>3. CASE Wait(t) \/ spurious_wakeup(t)
  BY <1>3 DEF Wait, check_waiter, schedule, spurious_wakeup
<1>4. CASE wake_grant_writer(t) \/ wake_grant_reader(t)
  BY <1>4 DEF wake_grant_writer, wake_grant_reader, DequeueHead
<1>5. CASE wake_up_writer(t)
  BY <1>5 DEF wake_up_writer, WakeWriterInv
<1>6. CASE wake_up_reader(t)
  BY <1>6 DEF wake_up_reader
<1>7. CASE wake_finish(t)
  BY <1>7 DEF wake_finish
<1> QED
  BY <1>1, <1>2, <1>3, <1>4, <1>5, <1>6, <1>7 DEF Wake

LEMMA QueueStep ==
  ASSUME TypeOK, OwnerInv, QueueInv, OneWriterInv,
         NEW t \in Tasks,
         Down(t) \/ Up(t) \/ Wait(t) \/ Wake(t) \/ spurious_wakeup(t)
  PROVE  QueueInv'
<1>1. CASE pc[t] = "idle" /\ \E f \in {"READ", "WRITE"} : Enqueue(t, f)
  <2>1. /\ wait_list' = Append(wait_list, t)
        /\ waiting' = [waiting EXCEPT ![t] = TRUE]
        /\ pc' = [pc EXCEPT ![t] = "check"]
        /\ ~waiting[t]
    BY <1>1 DEF Enqueue, Goto, QueueInv, WaitPC
  <2>2. /\ Len(wait_list') = Len(wait_list) + 1
        /\ Len(wait_list) \in Nat
        /\ \A i \in 1..Len(wait_list) : wait_list'[i] = wait_list[i]
        /\ wait_list'[Len(wait_list) + 1] = t
    BY <2>1, AppendProperties DEF TypeOK
  <2>3. \A x \in Tasks : (\E i \in 1..Len(wait_list') : wait_list'[i] = x)
                           <=> (x = t \/ \E i \in 1..Len(wait_list) : wait_list[i] = x)
    BY <2>2
  <2>4. \A i, j \in 1..Len(wait_list') : wait_list'[i] = wait_list'[j] => i = j
    BY <2>1, <2>2 DEF QueueInv
  <2>5. \A x \in Tasks : waiting'[x] <=> (x = t \/ waiting[x])
    BY <2>1 DEF TypeOK
  <2>6. \A x \in Tasks : waiting'[x] => pc'[x] \in WaitPC
    BY <2>1, <2>5 DEF TypeOK, QueueInv, WaitPC
  <2> QED
    BY <2>3, <2>4, <2>5, <2>6 DEF QueueInv
<1>2. CASE wait_list # <<>> /\ DequeueHead
           /\ \A x \in Tasks : pc[x] \in WaitPC => pc'[x] \in WaitPC
  <2> DEFINE h == Head(wait_list)
  <2>1. h \in Tasks /\ h = wait_list[1] /\ Len(wait_list) \in Nat \ {0}
    BY <1>2, HeadWaits
  <2>2. /\ Len(wait_list') = Len(wait_list) - 1
        /\ \A i \in 1..Len(wait_list') : wait_list'[i] = wait_list[i+1]
    BY <1>2, HeadTailProperties DEF DequeueHead, TypeOK
  <2>3. \A x \in Tasks : waiting'[x] <=> (x # h /\ waiting[x])
    BY <1>2, <2>1 DEF TypeOK, DequeueHead
  <2>4. \A x \in Tasks : (\E i \in 1..Len(wait_list') : wait_list'[i] = x)
                           <=> (x # h /\ \E i \in 1..Len(wait_list) : wait_list[i] = x)
    <3> TAKE x \in Tasks
    <3>1. ASSUME NEW i \in 1..Len(wait_list'), wait_list'[i] = x
          PROVE  x # h /\ \E k \in 1..Len(wait_list) : wait_list[k] = x
      <4>1. i + 1 \in 1..Len(wait_list) /\ 1 \in 1..Len(wait_list) /\ i + 1 # 1
        BY <2>1, <2>2
      <4>2. wait_list[i+1] = x
        BY <2>2, <3>1
      <4> QED
        BY <4>1, <4>2, <2>1 DEF QueueInv
    <3>2. ASSUME x # h, NEW i \in 1..Len(wait_list), wait_list[i] = x
          PROVE  \E k \in 1..Len(wait_list') : wait_list'[k] = x
      <4>1. i # 1
        BY <3>2, <2>1
      <4>2. i - 1 \in 1..Len(wait_list')
        BY <4>1, <2>1, <2>2
      <4>3. wait_list'[i-1] = x
        BY <4>2, <3>2, <2>1, <2>2
      <4> QED
        BY <4>2, <4>3
    <3> QED
      BY <3>1, <3>2
  <2>5. \A i, j \in 1..Len(wait_list') : wait_list'[i] = wait_list'[j] => i = j
    <3> TAKE i, j \in 1..Len(wait_list')
    <3>1. i + 1 \in 1..Len(wait_list) /\ j + 1 \in 1..Len(wait_list)
      BY <2>1, <2>2
    <3> QED
      BY <2>2, <3>1, SMTT(30) DEF QueueInv
  <2> HIDE DEF h
  <2> QED
    BY <1>2, <2>3, <2>4, <2>5 DEF QueueInv
<1>3. CASE /\ UNCHANGED <<wait_list, waiting>>
           /\ \A x \in Tasks : waiting[x] => pc'[x] \in WaitPC
  BY <1>3 DEF QueueInv
<1>4. CASE Down(t)
  <2>1. CASE GrantRead(t) /\ pc[t] = "idle"
    BY <1>3, <2>1 DEF GrantRead, Goto, TypeOK, QueueInv, WaitPC
  <2>2. CASE GrantWrite(t) /\ pc[t] = "idle"
    BY <1>3, <2>2 DEF GrantWrite, Goto, TypeOK, QueueInv, WaitPC
  <2> QED
    BY <1>1, <1>4, <2>1, <2>2
    DEF Down, down_read, down_write, down_read_trylock, down_write_trylock
<1>5. CASE Up(t)
  BY <1>3, <1>5 DEF Up, up_read, up_write, downgrade_write, UnlockOrWake, Goto, TypeOK,
                    QueueInv, WaitPC
<1>6. CASE Wait(t) \/ spurious_wakeup(t)
  BY <1>3, <1>6 DEF Wait, check_waiter, schedule, spurious_wakeup, Goto, TypeOK, QueueInv, WaitPC
<1>7. CASE wake_grant_writer(t)
  <2>1. wait_list # <<>> /\ DequeueHead
    BY <1>7 DEF wake_grant_writer, HeadIs, OneWriterInv
  <2>2. \A x \in Tasks : pc[x] \in WaitPC => pc'[x] \in WaitPC
    BY <1>7 DEF wake_grant_writer, Goto, TypeOK, WaitPC
  <2> QED
    BY <1>2, <2>1, <2>2
<1>8. CASE wake_grant_reader(t)
  BY <1>2, <1>8 DEF wake_grant_reader, HeadIs
<1>9. CASE wake_up_writer(t) \/ wake_up_reader(t) \/ wake_finish(t)
  BY <1>3, <1>9 DEF wake_up_writer, wake_up_reader, wake_finish, Goto, TypeOK, QueueInv, WaitPC
<1> QED
  BY <1>4, <1>5, <1>6, <1>7, <1>8, <1>9 DEF Wake

LEMMA WakeupStep ==
  ASSUME TypeOK, OwnerInv, QueueInv, OneWriterInv, NoLostWakeup,
         NEW t \in Tasks,
         Down(t) \/ Up(t) \/ Wait(t) \/ Wake(t) \/ spurious_wakeup(t)
  PROVE  NoLostWakeup'
<1> USE DEF TypeOK, PCs, NoLostWakeup, Goto
<1>1. CASE Down(t)
  BY <1>1 DEF Down, down_read, down_write, down_read_trylock, down_write_trylock,
              GrantRead, GrantWrite, Enqueue
<1>2. CASE Up(t)
  BY <1>2 DEF Up, up_read, up_write, downgrade_write, UnlockOrWake
<1>3. CASE Wait(t) \/ spurious_wakeup(t)
  BY <1>3 DEF Wait, check_waiter, schedule, spurious_wakeup
<1>4. CASE wake_grant_writer(t) \/ wake_grant_reader(t)
  <2>1. /\ wait_list # <<>> /\ DequeueHead /\ tsk = NULL
        /\ UNCHANGED state
    BY <1>4 DEF wake_grant_writer, wake_grant_reader, HeadIs, OneWriterInv
  <2>2. Head(wait_list) \in Tasks
    BY <2>1, HeadWaits
  <2> QED
    BY <1>4, <2>1, <2>2, TasksAssumption DEF wake_grant_writer, wake_grant_reader, DequeueHead
<1>5. CASE wake_up_writer(t)
  BY <1>5 DEF wake_up_writer
<1>6. CASE wake_up_reader(t)
  BY <1>6 DEF wake_up_reader
<1>7. CASE wake_finish(t)
  BY <1>7 DEF wake_finish
<1> QED
  BY <1>1, <1>2, <1>3, <1>4, <1>5, <1>6, <1>7 DEF Wake

(* The counting parts are read off one waking point at a time: nobody else *)
(* can be inside a waking function.  The lemmas speak of the state after a *)
(* step.                                                                   *)
CountInv == FreeInv /\ OneWriterInv /\ DoWakeInv /\ DowngradeInv /\ WakeWriterInv

LEMMA CountFree ==
  ASSUME OwnerInv', wait_lock' = NULL, FreeInv'
  PROVE  CountInv'
BY TasksAssumption
DEF OwnerInv, WakePC, CountInv, OneWriterInv, DoWakeInv, DowngradeInv, WakeWriterInv

LEMMA CountOwned ==
  ASSUME OwnerInv', NEW t \in Tasks, wait_lock' = t,
         pc'[t] = "wake_one_writer" => OneWriterInv',
         pc'[t] = "do_wake" => DoWakeInv',
         pc'[t] = "downgrade" => DowngradeInv',
         pc'[t] = "wake_writer" => WakeWriterInv'
  PROVE  CountInv'
<1>1. \A x \in Tasks : pc'[x] \in WakePC => x = t
  BY DEF OwnerInv
<1> QED
  BY <1>1, TasksAssumption
  DEF WakePC, CountInv, FreeInv, OneWriterInv, DoWakeInv, DowngradeInv, WakeWriterInv

(* Nothing the counting parts speak of changes.                            *)
LEMMA CountFrame ==
  ASSUME TypeOK, OwnerInv, CountInv, OwnerInv', NEW t \in Tasks,
         UNCHANGED <<activity, wait_list, wait_lock, tsk, woken, flags>>,
         Readers' = Readers, Writers' = Writers,
         pc[t] \notin WakePC, pc' = [pc EXCEPT ![t] = pc'[t]], pc'[t] \notin WakePC
  PROVE  CountInv'
<1>1. \A x \in Tasks : pc'[x] \in WakePC => pc'[x] = pc[x]
  BY DEF TypeOK
<1>2. Pending' = Pending /\ \A f : HeadIs(f)' <=> HeadIs(f)
  BY DEF Pending, HeadIs
<1> QED
  BY <1>1, <1>2
  DEF WakePC, CountInv, FreeInv, OneWriterInv, DoWakeInv, DowngradeInv, WakeWriterInv

LEMMA CountStep ==
  ASSUME TypeOK, OwnerInv, QueueInv, CountInv, TypeOK', OwnerInv', QueueInv',
         NEW t \in Tasks,
         Down(t) \/ Up(t) \/ Wait(t) \/ Wake(t) \/ spurious_wakeup(t)
  PROVE  CountInv'
<1> USE DEF CountInv
<1>1. CASE pc[t] = "idle" /\ wait_lock = NULL /\ CanRead /\ GrantRead(t)
  <2>1. /\ activity >= 0 /\ wait_list = <<>> /\ activity' = activity + 1
        /\ wait_list' = wait_list /\ wait_lock' = NULL
    BY <1>1 DEF CanRead, GrantRead
  <2>2. activity = Cardinality(Readers) /\ Writers = {}
    BY <1>1, <2>1 DEF FreeInv
  <2>3. Cardinality(Readers') = activity + 1 /\ Writers' = {}
    BY <1>1, <2>2, HoldersGrantRead, HoldersFinite, FS_AddElement
  <2> QED
    BY <2>1, <2>3, CountFree DEF FreeInv
<1>2. CASE pc[t] = "idle" /\ wait_lock = NULL /\ CanWrite /\ GrantWrite(t)
  <2>1. /\ activity = 0 /\ wait_list = <<>> /\ activity' = -1
        /\ wait_list' = wait_list /\ wait_lock' = NULL
    BY <1>2 DEF CanWrite, GrantWrite
  <2>2. Readers = {} /\ Writers = {}
    BY <1>2, <2>1, HoldersFinite, FS_EmptySet DEF FreeInv
  <2>3. Readers' = {} /\ Writers' = {t}
    BY <1>2, <2>2, HoldersGrantWrite
  <2>4. Cardinality(Writers') = 1
    BY <2>3, FS_Singleton
  <2> QED
    BY <2>1, <2>3, <2>4, CountFree DEF FreeInv
<1>3. ASSUME NEW f \in {"READ", "WRITE"}, Enqueue(t, f), pc[t] = "idle", wait_lock = NULL,
             f = "READ" => ~CanRead, f = "WRITE" => ~CanWrite
      PROVE  CountInv'
  <2>1. /\ wait_list' = Append(wait_list, t) /\ wait_lock' = NULL
        /\ activity' = activity /\ flags' = [flags EXCEPT ![t] = f]
    BY <1>3 DEF Enqueue
  <2>2. Readers' = Readers /\ Writers' = Writers
    BY <1>3, HoldersEnqueue
  <2>3. activity # 0
    BY <1>3 DEF FreeInv, CanRead, CanWrite
  <2>4. ASSUME activity > 0 PROVE HeadIs("WRITE")'
    <3>1. CASE wait_list = <<>>
      <4>1. f = "WRITE"
        BY <1>3, <2>4, <3>1 DEF CanRead, TypeOK
      <4>2. wait_list' # <<>> /\ Head(wait_list') = t
        BY <2>1, <3>1 DEF TypeOK
      <4> QED
        BY <2>1, <4>1, <4>2 DEF HeadIs, TypeOK
    <3>2. CASE wait_list # <<>>
      <4>1. wait_list' # <<>> /\ Head(wait_list') = Head(wait_list)
        <5>1. wait_list' # <<>> /\ wait_list'[1] = wait_list[1]
          BY <2>1, <3>2, AppendProperties DEF TypeOK
        <5>2. Head(wait_list) = wait_list[1] /\ Head(wait_list') = wait_list'[1]
          BY <3>2, <5>1 DEF TypeOK
        <5> QED
          BY <5>1, <5>2
      <4>2. Head(wait_list) # t /\ Head(wait_list) \in Tasks
        BY <1>3, <3>2, HeadWaits DEF WaitPC
      <4>3. flags[Head(wait_list)] = "WRITE"
        BY <1>3, <2>4, <3>2 DEF FreeInv, HeadIs
      <4> QED
        BY <2>1, <4>1, <4>2, <4>3 DEF HeadIs, TypeOK
    <3> QED
      BY <3>1, <3>2
  <2> QED
    BY <1>3, <2>1, <2>2, <2>3, <2>4, CountFree DEF FreeInv
<1>4. CASE Down(t)
  BY <1>1, <1>2, <1>3, <1>4
  DEF Down, down_read, down_write, down_read_trylock, down_write_trylock
<1>5. CASE Wait(t) \/ spurious_wakeup(t)
  <2>1. /\ UNCHANGED <<activity, wait_list, wait_lock, tsk, woken, flags>>
        /\ pc[t] \notin WakePC /\ pc' = [pc EXCEPT ![t] = pc'[t]] /\ pc'[t] \notin WakePC
    BY <1>5 DEF Wait, check_waiter, schedule, spurious_wakeup, Goto, TypeOK, WaitPC, WakePC
  <2>2. Readers' = Readers /\ Writers' = Writers
    BY <1>5, HoldersWait DEF Wait
  <2> QED
    BY <2>1, <2>2, CountFrame
<1>6. CASE up_read(t)
  <2>1. /\ wait_lock = NULL /\ activity' = activity - 1 /\ wait_list' = wait_list
        /\ flags' = flags /\ tsk' = NULL /\ woken' = 0
    BY <1>6 DEF up_read, UnlockOrWake, OwnerInv
  <2>2. t \in Readers /\ Readers' = Readers \ {t} /\ Writers' = Writers
    BY <1>6, HoldersUpRead
  <2>3. activity = Cardinality(Readers) /\ Writers = {}
    BY <2>1, <2>2 DEF FreeInv
  <2>4. Cardinality(Readers') = activity - 1
    BY <2>2, <2>3, HoldersFinite, FS_RemoveElement
  <2>5. activity \in Nat /\ activity > 0
    BY <2>2, <2>3, HoldersFinite, FS_EmptySet
  <2>6. CASE activity = 1 /\ wait_list # <<>>
    <3>1. wait_lock' = t /\ pc'[t] = "wake_one_writer"
      BY <1>6, <2>6 DEF up_read, UnlockOrWake, Goto, TypeOK
    <3>2. Readers' = {}
      <4>1. IsFiniteSet(Readers')
        BY <2>2, HoldersFinite, FS_RemoveElement
      <4> QED
        BY <2>4, <2>6, <4>1, FS_EmptySet
    <3>3. HeadIs("WRITE")'
      BY <2>1, <2>5, <2>6 DEF FreeInv, HeadIs
    <3>4. OneWriterInv'
      BY <2>1, <2>2, <2>3, <2>6, <3>2, <3>3 DEF OneWriterInv
    <3> QED
      BY <3>1, <3>4, CountOwned
  <2>7. CASE ~(activity = 1 /\ wait_list # <<>>)
    <3>1. wait_lock' = NULL
      BY <1>6, <2>7 DEF up_read, UnlockOrWake
    <3>2. HeadIs("WRITE")' <=> HeadIs("WRITE")
      BY <2>1 DEF HeadIs
    <3> QED
      BY <2>1, <2>2, <2>3, <2>4, <2>5, <2>7, <3>1, <3>2, CountFree DEF FreeInv
  <2> QED
    BY <2>6, <2>7
<1>7. CASE up_write(t)
  <2>1. /\ wait_lock = NULL /\ activity' = 0 /\ wait_list' = wait_list
        /\ flags' = flags /\ tsk' = NULL /\ woken' = 0
    BY <1>7 DEF up_write, UnlockOrWake, OwnerInv
  <2>2. t \in Writers /\ Writers' = Writers \ {t} /\ Readers' = Readers
    BY <1>7, HoldersUpWrite
  <2>3. Readers = {} /\ Cardinality(Writers) = 1
    BY <2>1, <2>2 DEF FreeInv
  <2>4. Writers' = {}
    BY <2>2, <2>3, HoldersFinite, FS_Singleton
  <2>5. Cardinality(Readers') = 0
    BY <2>2, <2>3, FS_EmptySet
  <2>6. CASE wait_list # <<>>
    <3>1. wait_lock' = t /\ pc'[t] = "do_wake"
      BY <1>7, <2>6 DEF up_write, UnlockOrWake, Goto, TypeOK
    <3>2. DoWakeInv'
      BY <2>1, <2>4, <2>5, <2>6 DEF DoWakeInv, Pending
    <3> QED
      BY <3>1, <3>2, CountOwned
  <2>7. CASE wait_list = <<>>
    <3>1. wait_lock' = NULL
      BY <1>7, <2>7 DEF up_write, UnlockOrWake
    <3> QED
      BY <2>1, <2>4, <2>5, <2>7, <3>1, CountFree DEF FreeInv
  <2> QED
    BY <2>6, <2>7
<1>8. CASE downgrade_write(t)
  <2>1. /\ wait_lock = NULL /\ activity' = 1 /\ wait_list' = wait_list
        /\ flags' = flags /\ tsk' = NULL /\ woken' = 0
    BY <1>8 DEF downgrade_write, UnlockOrWake, OwnerInv
  <2>2. /\ t \in Writers /\ Writers' = Writers \ {t}
        /\ t \notin Readers /\ Readers' = Readers \cup {t}
    BY <1>8, HoldersDowngrade
  <2>3. Readers = {} /\ Cardinality(Writers) = 1
    BY <2>1, <2>2 DEF FreeInv
  <2>4. Writers' = {} /\ Readers' = {t}
    BY <2>2, <2>3, HoldersFinite, FS_Singleton
  <2>5. Cardinality(Readers') = 1
    BY <2>4, FS_Singleton
  <2>6. CASE wait_list # <<>>
    <3>1. wait_lock' = t /\ pc'[t] = "downgrade"
      BY <1>8, <2>6 DEF downgrade_write, UnlockOrWake, Goto, TypeOK
    <3>2. DowngradeInv'
      BY <2>1, <2>4, <2>5, <2>6 DEF DowngradeInv, Pending
    <3> QED
      BY <3>1, <3>2, CountOwned
  <2>7. CASE wait_list = <<>>
    <3>1. wait_lock' = NULL
      BY <1>8, <2>7 DEF downgrade_write, UnlockOrWake
    <3> QED
      BY <2>1, <2>4, <2>5, <2>7, <3>1, CountFree DEF FreeInv
  <2> QED
    BY <2>6, <2>7
<1>9. CASE wake_grant_writer(t)
  <2>1. /\ pc[t] \in {"wake_one_writer", "do_wake"} /\ tsk = NULL /\ woken = 0
        /\ HeadIs("WRITE") /\ DequeueHead /\ activity' = -1
        /\ UNCHANGED <<wait_lock, flags, woken>> /\ Goto(t, "wake_writer")
    BY <1>9 DEF wake_grant_writer, OneWriterInv
  <2>2. wait_lock' = t /\ pc'[t] = "wake_writer"
    BY <2>1 DEF OwnerInv, WakePC, Goto, TypeOK
  <2>3. Readers = {} /\ Writers = {}
    BY <2>1, HoldersFinite, FS_EmptySet DEF OneWriterInv, DoWakeInv, Pending
  <2>4. Writers' = {Head(wait_list)} /\ Readers' = {}
    BY <2>1, <2>3, HoldersGrantHead DEF HeadIs
  <2>5. Cardinality(Writers') = 1
    BY <2>4, FS_Singleton
  <2>6. tsk' # NULL
    BY <2>1, HeadWaits, TasksAssumption DEF DequeueHead, HeadIs
  <2> QED
    BY <2>1, <2>2, <2>4, <2>5, <2>6, CountOwned DEF WakeWriterInv
<1>10. CASE wake_grant_reader(t)
  <2>1. /\ pc[t] \in {"do_wake", "downgrade"} /\ tsk = NULL
        /\ HeadIs("READ") /\ DequeueHead
        /\ UNCHANGED <<activity, wait_lock, flags, woken, pc>>
    BY <1>10 DEF wake_grant_reader
  <2>2. wait_lock' = t /\ pc'[t] = pc[t]
    BY <2>1 DEF OwnerInv, WakePC
  <2>3. /\ Head(wait_list) \notin Readers
        /\ Readers' = Readers \cup {Head(wait_list)} /\ Writers' = Writers
    BY <2>1, HoldersGrantHead DEF HeadIs
  <2>4. Cardinality(Readers') = Cardinality(Readers) + 1
    BY <2>3, HoldersFinite, FS_AddElement
  <2>5. tsk' # NULL
    BY <2>1, HeadWaits, TasksAssumption DEF DequeueHead, HeadIs
  <2>6. Pending = 0 /\ Pending' = 1
    BY <2>1, <2>5 DEF Pending
  <2>7. pc[t] = "do_wake" => DoWakeInv'
    BY <2>1, <2>3, <2>4, <2>5, <2>6, HoldersFinite DEF DoWakeInv, TypeOK
  <2>8. pc[t] = "downgrade" => DowngradeInv'
    BY <2>1, <2>3, <2>4, <2>6, HoldersFinite DEF DowngradeInv, TypeOK
  <2> QED
    BY <2>1, <2>2, <2>7, <2>8, CountOwned
<1>11. CASE wake_up_writer(t)
  <2>1. /\ pc[t] = "wake_writer" /\ wait_lock' = NULL
        /\ UNCHANGED <<activity, wait_list, flags>>
    BY <1>11 DEF wake_up_writer
  <2>2. Readers' = Readers /\ Writers' = Writers
    BY <1>11, HoldersWakeUp
  <2> QED
    BY <2>1, <2>2, CountFree DEF WakeWriterInv, FreeInv
<1>12. CASE wake_up_reader(t)
  <2>1. /\ pc[t] \in {"do_wake", "downgrade"} /\ tsk # NULL /\ tsk' = NULL
        /\ woken' = woken + 1 /\ UNCHANGED <<activity, wait_list, wait_lock, flags, pc>>
    BY <1>12 DEF wake_up_reader
  <2>2. wait_lock' = t /\ pc'[t] = pc[t]
    BY <2>1 DEF OwnerInv, WakePC
  <2>3. Readers' = Readers /\ Writers' = Writers
    BY <1>12, HoldersWakeUp
  <2>4. Pending = 1 /\ Pending' = 0
    BY <2>1 DEF Pending
  <2>5. pc[t] = "do_wake" => DoWakeInv'
    BY <2>1, <2>3, <2>4, HoldersFinite DEF DoWakeInv, TypeOK
  <2>6. pc[t] = "downgrade" => DowngradeInv'
    BY <2>1, <2>3, <2>4, HoldersFinite DEF DowngradeInv, TypeOK
  <2> QED
    BY <2>1, <2>2, <2>5, <2>6, CountOwned
<1>13. CASE wake_finish(t)
  <2>1. /\ pc[t] \in {"do_wake", "downgrade"} /\ tsk = NULL /\ ~HeadIs("READ")
        /\ pc[t] = "do_wake" => woken > 0
        /\ activity' = activity + woken /\ wait_lock' = NULL
        /\ UNCHANGED <<wait_list, flags>>
    BY <1>13 DEF wake_finish
  <2>2. Readers' = Readers /\ Writers' = Writers
    BY <1>13, HoldersWakeUp
  <2>3. Pending = 0
    BY <2>1 DEF Pending
  <2>4. activity' = Cardinality(Readers) /\ Writers = {} /\ activity' > 0
    BY <2>1, <2>3, HoldersFinite DEF DoWakeInv, DowngradeInv, TypeOK
  <2>5. wait_list # <<>> => HeadIs("WRITE")'
    BY <2>1, HeadWaits DEF HeadIs, TypeOK
  <2> QED
    BY <2>1, <2>2, <2>4, <2>5, CountFree DEF FreeInv
<1> QED
  BY <1>4, <1>5, <1>6, <1>7, <1>8, <1>9, <1>10, <1>11, <1>12, <1>13 DEF Up, Wake

(***************************************************************************)
(* The theorems.                                                           *)
(***************************************************************************)

(* The invariant holds in every reachable state of the semaphore.          *)
THEOREM Invariance == Spec => []IInv
<1>1. Init => IInv
  BY InitInv
<1>2. IInv /\ [Next]_vars => IInv'
  <2> SUFFICES ASSUME IInv, [Next]_vars PROVE IInv'
    OBVIOUS
  <2>1. CASE UNCHANGED vars
    <3>1. Readers' = Readers /\ Writers' = Writers /\ Pending' = Pending
      BY <2>1 DEF vars, Readers, Writers, Granted, Pending
    <3>2. HeadIs("WRITE")' <=> HeadIs("WRITE")
      BY <2>1 DEF vars, HeadIs
    <3>3. TypeOK' /\ OwnerInv' /\ QueueInv' /\ NoLostWakeup'
      BY <2>1 DEF vars, IInv, TypeOK, OwnerInv, QueueInv, NoLostWakeup
    <3>4. CountInv'
      BY <2>1, <3>1, <3>2 DEF vars, IInv, CountInv, FreeInv, OneWriterInv, DoWakeInv,
                              DowngradeInv, WakeWriterInv
    <3> QED
      BY <3>3, <3>4 DEF IInv, CountInv
  <2>2. CASE Next
    <3>1. PICK t \in Tasks : Down(t) \/ Up(t) \/ Wait(t) \/ Wake(t) \/ spurious_wakeup(t)
      BY <2>2 DEF Next
    <3>2. TypeOK' /\ OwnerInv' /\ QueueInv' /\ NoLostWakeup'
      BY <3>1, TypeStep, OwnerStep, QueueStep, WakeupStep DEF IInv
    <3>3. CountInv'
      BY <3>1, <3>2, CountStep DEF IInv, CountInv
    <3> QED
      BY <3>2, <3>3 DEF IInv, CountInv
  <2> QED
    BY <2>1, <2>2
<1> QED
  BY <1>1, <1>2, PTL DEF Spec

(* Every variable of the semaphore keeps its type; activity never falls    *)
(* below -1.                                                               *)
THEOREM TypeCorrect == Spec => []TypeOK
BY Invariance, PTL DEF IInv

(* A writer is alone, for any number of tasks: __rwsem_do_wake and         *)
(* __rwsem_wake_one_writer never grant next to another holder.             *)
THEOREM MutualExclusion == Spec => []Exclusion
<1>1. IInv => Exclusion
  <2> SUFFICES ASSUME IInv, NEW w \in Writers PROVE Readers = {} /\ Writers = {w}
    BY DEF Exclusion
  <2>1. Cardinality(Writers) = 1 /\ Readers = {}
    <3>1. CASE wait_lock = NULL
      BY <3>1 DEF IInv, FreeInv
    <3>2. CASE wait_lock # NULL
      <4>1. wait_lock \in Tasks /\ pc[wait_lock] \in WakePC
        BY <3>2 DEF IInv, TypeOK, OwnerInv
      <4> QED
        BY <4>1 DEF WakePC, IInv, OneWriterInv, DoWakeInv, DowngradeInv, WakeWriterInv
    <3> QED
      BY <3>1, <3>2
  <2> QED
    BY <2>1, HoldersFinite, FS_Singleton
<1> QED
  BY <1>1, Invariance, PTL

(* Outside the waking sections activity is the number of holders.          *)
THEOREM ActivityCorrect == Spec => []ActivityCounts
<1>1. IInv => ActivityCounts
  BY DEF IInv, FreeInv, ActivityCounts
<1> QED
  BY <1>1, Invariance, PTL

(* __up_read may take the head of the list for a writer.                   *)
THEOREM HeadCorrect == Spec => []HeadIsWriter
<1>1. IInv => HeadIsWriter
  BY DEF IInv, FreeInv, OneWriterInv, HeadIsWriter
<1> QED
  BY <1>1, Invariance, PTL

(* No grant is lost on a task that goes to sleep.                          *)
THEOREM WakeupCorrect == Spec => []NoLostWakeup
BY Invariance, PTL DEF IInv

(* A free semaphore leaves nobody queued.                                  *)
THEOREM NoStrandedQueue == Spec => []FreeHasNoQueue
<1>1. IInv => FreeHasNoQueue
  BY DEF IInv, FreeInv, FreeHasNoQueue
<1> QED
  BY <1>1, Invariance, PTL

(***************************************************************************)
(* Refinement: every step is a step of the abstract lock or a stutter.     *)
(***************************************************************************)

LEMMA RequestsSeq ==
  ASSUME TypeOK
  PROVE  /\ Requests \in Seq(Lock!Request)
         /\ Len(Requests) = Len(wait_list)
         /\ Requests = <<>> <=> wait_list = <<>>
         /\ \A i \in 1..Len(wait_list) :
              Requests[i] = [task |-> wait_list[i], mode |-> flags[wait_list[i]]]
<1>1. DOMAIN wait_list = 1..Len(wait_list) /\ Len(wait_list) \in Nat
  BY DEF TypeOK
<1>2. \A i \in 1..Len(wait_list) : wait_list[i] \in Tasks
  BY DEF TypeOK
<1>3. \A i \in 1..Len(wait_list) :
         [task |-> wait_list[i], mode |-> flags[wait_list[i]]] \in Lock!Request
  BY <1>2 DEF TypeOK, Lock!Request, Lock!Modes
<1>4. Requests \in Seq(Lock!Request) /\ Len(Requests) = Len(wait_list)
  BY <1>1, <1>3, IsASeq DEF Requests
<1>5. Requests = <<>> <=> wait_list = <<>>
  BY <1>4 DEF TypeOK
<1> QED
  BY <1>1, <1>4, <1>5 DEF Requests

LEMMA RequestsSame ==
  ASSUME TypeOK, wait_list' = wait_list, flags' = flags
  PROVE  Requests' = Requests
BY DEF Requests

LEMMA RequestsAppend ==
  ASSUME TypeOK, QueueInv, TypeOK', NEW t \in Tasks, NEW f \in {"READ", "WRITE"},
         pc[t] = "idle", Enqueue(t, f)
  PROVE  Requests' = Append(Requests, [task |-> t, mode |-> f])
<1> DEFINE r == [task |-> t, mode |-> f]
           Q == Append(Requests, r)
           Q2 == Requests'
<1>1. /\ Len(wait_list') = Len(wait_list) + 1
      /\ \A i \in 1..Len(wait_list) : wait_list'[i] = wait_list[i]
      /\ wait_list'[Len(wait_list) + 1] = t
      /\ wait_list' \in Seq(Tasks)
      /\ Len(wait_list) \in Nat
  BY AppendProperties DEF TypeOK, Enqueue
<1>2. flags' = [flags EXCEPT ![t] = f] /\ flags \in [Tasks -> {"READ", "WRITE"}]
  BY DEF Enqueue, TypeOK
<1>3. \A i \in 1..Len(wait_list) : wait_list[i] \in Tasks /\ wait_list[i] # t
  BY DEF TypeOK, QueueInv, WaitPC
<1>4. /\ Q2 = [i \in 1..(Len(wait_list) + 1) |->
                 [task |-> wait_list'[i], mode |-> flags'[wait_list'[i]]]]
  BY <1>1 DEF Requests
<1>5. /\ Requests \in Seq(Lock!Request) /\ Len(Requests) = Len(wait_list)
      /\ \A i \in 1..Len(wait_list) :
           Requests[i] = [task |-> wait_list[i], mode |-> flags[wait_list[i]]]
  BY RequestsSeq
<1>6. r \in Lock!Request
  BY DEF Lock!Request, Lock!Modes
<1> HIDE DEF r
<1>7. /\ Q \in Seq(Lock!Request) /\ Len(Q) = Len(wait_list) + 1
      /\ \A i \in 1..Len(wait_list) : Q[i] = Requests[i]
      /\ Q[Len(wait_list) + 1] = r
  BY <1>5, <1>6, AppendProperties
<1>8. \A i \in 1..(Len(wait_list) + 1) : Q2[i] = Q[i]
  <2> TAKE i \in 1..(Len(wait_list) + 1)
  <2>1. CASE i = Len(wait_list) + 1
    BY <1>1, <1>2, <1>4, <1>7, <2>1 DEF r
  <2>2. CASE i \in 1..Len(wait_list)
    BY <1>1, <1>2, <1>3, <1>4, <1>5, <1>7, <2>2
  <2>3. i = Len(wait_list) + 1 \/ i \in 1..Len(wait_list)
    BY <1>1
  <2> HIDE DEF Q, Q2
  <2> QED
    BY <2>1, <2>2, <2>3
<1>9. \A i \in 1..(Len(wait_list) + 1) : Q[i] \in Lock!Request
  BY <1>7
<1> HIDE DEF Q
<1>10. Q2 \in Seq(Lock!Request) /\ Len(Q2) = Len(wait_list) + 1
  <2> HIDE DEF Q2
  <2>1. Q2 = [i \in 1..(Len(wait_list) + 1) |-> Q2[i]]
    BY <1>4
  <2>2. \A i \in 1..(Len(wait_list) + 1) : Q2[i] \in Lock!Request
    BY <1>8, <1>9
  <2> QED
    BY <1>1, <2>1, <2>2, IsASeq
<1> HIDE DEF Q2
<1>11. Q2 = Q
  BY <1>7, <1>8, <1>10, SeqEqual
<1> QED
  BY <1>11 DEF Q2, Q, r

LEMMA RequestsTail ==
  ASSUME TypeOK, QueueInv, TypeOK', wait_list # <<>>, DequeueHead, UNCHANGED flags
  PROVE  /\ Requests' = Tail(Requests)
         /\ Requests # <<>>
         /\ Head(Requests).task = Head(wait_list)
         /\ Head(Requests).mode = flags[Head(wait_list)]
<1> DEFINE Q == Tail(Requests)
           Q2 == Requests'
<1>1. /\ Len(wait_list') = Len(wait_list) - 1
      /\ \A i \in 1..Len(wait_list') : wait_list'[i] = wait_list[i+1]
      /\ wait_list' \in Seq(Tasks)
      /\ Len(wait_list) \in Nat \ {0}
  BY HeadTailProperties DEF TypeOK, DequeueHead
<1>2. /\ Requests \in Seq(Lock!Request) /\ Len(Requests) = Len(wait_list)
      /\ Requests # <<>>
      /\ \A i \in 1..Len(wait_list) :
           Requests[i] = [task |-> wait_list[i], mode |-> flags[wait_list[i]]]
  BY RequestsSeq
<1>3. /\ Q \in Seq(Lock!Request) /\ Len(Q) = Len(wait_list) - 1
      /\ \A i \in 1..(Len(wait_list) - 1) : Q[i] = Requests[i+1]
  BY <1>2, HeadTailProperties
<1>4. Q2 = [i \in 1..(Len(wait_list) - 1) |->
               [task |-> wait_list'[i], mode |-> flags[wait_list'[i]]]]
  BY <1>1 DEF Requests
<1> HIDE DEF Q, Q2
<1>5. \A i \in 1..(Len(wait_list) - 1) : Q2[i] = Q[i]
  <2> TAKE i \in 1..(Len(wait_list) - 1)
  <2>1. i + 1 \in 1..Len(wait_list)
    BY <1>1
  <2> QED
    BY <1>1, <1>2, <1>3, <1>4, <2>1
<1>6. \A i \in 1..(Len(wait_list) - 1) : Q2[i] \in Lock!Request
  BY <1>3, <1>5
<1>7. Q2 \in Seq(Lock!Request) /\ Len(Q2) = Len(wait_list) - 1
  <2>1. Q2 = [i \in 1..(Len(wait_list) - 1) |-> Q2[i]]
    BY <1>4
  <2> QED
    BY <1>1, <1>6, <2>1, IsASeq
<1>8. Q2 = Q
  BY <1>3, <1>5, <1>7, SeqEqual
<1>9. Head(Requests) = Requests[1] /\ Head(wait_list) = wait_list[1]
  BY <1>2, HeadWaits
<1>10. Requests[1] = [task |-> wait_list[1], mode |-> flags[wait_list[1]]]
  <2>1. 1 \in 1..Len(wait_list)
    BY <1>1
  <2> QED
    BY <1>2, <2>1
<1>11. /\ Head(Requests).task = Head(wait_list)
       /\ Head(Requests).mode = flags[Head(wait_list)]
  BY <1>9, <1>10
<1> QED
  BY <1>2, <1>8, <1>11 DEF Q, Q2

(* The abstract lock has no request of a task that is idle.                *)
LEMMA IdleRefines ==
  ASSUME TypeOK, QueueInv, NEW t \in Tasks, pc[t] = "idle"
  PROVE  Lock!Idle(t)
<1>1. t \notin Readers \cup Writers
  BY DEF Readers, Writers, Granted, WaitPC
<1>2. DOMAIN Requests = 1..Len(wait_list)
  BY DEF Requests, TypeOK
<1>3. \A i \in 1..Len(wait_list) : Requests[i].task = wait_list[i]
  <2> TAKE i \in 1..Len(wait_list)
  <2>1. Requests[i] = [task |-> wait_list[i], mode |-> flags[wait_list[i]]]
    BY RequestsSeq
  <2> QED
    BY <2>1
<1>4. \A i \in 1..Len(wait_list) : wait_list[i] # t
  BY DEF QueueInv, WaitPC
<1> QED
  BY <1>1, <1>2, <1>3, <1>4 DEF Lock!Idle

LEMMA StepRefines ==
  ASSUME IInv, TypeOK', NEW t \in Tasks,
         Down(t) \/ Up(t) \/ Wait(t) \/ Wake(t) \/ spurious_wakeup(t)
  PROVE  Lock!Next \/ UNCHANGED <<Readers, Writers, Requests>>
<1> USE DEF IInv
<1>0. wait_lock = NULL => \/ activity = -1 /\ Writers # {} /\ Readers = {}
                          \/ activity >= 0 /\ Writers = {} /\ (activity = 0 <=> Readers = {})
  BY HoldersFinite, FS_EmptySet DEF FreeInv, TypeOK
<1>1. CASE pc[t] = "idle" /\ wait_lock = NULL /\ CanRead /\ GrantRead(t)
  <2>1. Requests = <<>> /\ Requests' = Requests
    BY <1>1, RequestsSeq, RequestsSame DEF CanRead, GrantRead
  <2>2. Writers = {}
    BY <1>0, <1>1 DEF CanRead
  <2>3. Lock!Acquire(t, "READ")
    BY <1>1, <2>1, <2>2, IdleRefines, HoldersGrantRead
    DEF Lock!Acquire, Lock!Compatible, Lock!Hold
  <2> QED
    BY <2>3 DEF Lock!Next, Lock!Modes
<1>2. CASE pc[t] = "idle" /\ wait_lock = NULL /\ CanWrite /\ GrantWrite(t)
  <2>1. Requests = <<>> /\ Requests' = Requests
    BY <1>2, RequestsSeq, RequestsSame DEF CanWrite, GrantWrite
  <2>2. Writers = {} /\ Readers = {}
    BY <1>0, <1>2 DEF CanWrite
  <2>3. Lock!Acquire(t, "WRITE")
    BY <1>2, <2>1, <2>2, IdleRefines, HoldersGrantWrite
    DEF Lock!Acquire, Lock!Compatible, Lock!Hold
  <2> QED
    BY <2>3 DEF Lock!Next, Lock!Modes
<1>3. ASSUME NEW f \in {"READ", "WRITE"}, Enqueue(t, f), pc[t] = "idle", wait_lock = NULL,
             f = "READ" => ~CanRead, f = "WRITE" => ~CanWrite
      PROVE  Lock!Next
  <2>1. Requests' = Append(Requests, [task |-> t, mode |-> f])
    BY <1>3, RequestsAppend
  <2>2. Readers' = Readers /\ Writers' = Writers
    BY <1>3, HoldersEnqueue
  <2>3. ~ (Requests = <<>> /\ Lock!Compatible(f))
    BY <1>0, <1>3, RequestsSeq DEF Lock!Compatible, CanRead, CanWrite
  <2>4. Lock!Enqueue(t, f)
    BY <1>3, <2>1, <2>2, <2>3, IdleRefines DEF Lock!Enqueue
  <2> QED
    BY <2>4 DEF Lock!Next, Lock!Modes
<1>4. CASE Down(t)
  BY <1>1, <1>2, <1>3, <1>4
  DEF Down, down_read, down_write, down_read_trylock, down_write_trylock
<1>5. CASE Wait(t) \/ spurious_wakeup(t)
  BY <1>5, HoldersWait, RequestsSame DEF Wait, check_waiter, schedule, spurious_wakeup
<1>6. CASE up_read(t)
  <2>1. Lock!ReleaseRead(t)
    BY <1>6, HoldersUpRead, RequestsSame DEF up_read, UnlockOrWake, Lock!ReleaseRead
  <2> QED
    BY <2>1 DEF Lock!Next
<1>7. CASE up_write(t)
  <2>1. Lock!ReleaseWrite(t)
    BY <1>7, HoldersUpWrite, RequestsSame DEF up_write, UnlockOrWake, Lock!ReleaseWrite
  <2> QED
    BY <2>1 DEF Lock!Next
<1>8. CASE downgrade_write(t)
  <2>1. Lock!Downgrade(t)
    BY <1>8, HoldersDowngrade, RequestsSame DEF downgrade_write, UnlockOrWake, Lock!Downgrade
  <2> QED
    BY <2>1 DEF Lock!Next
<1>9. CASE wake_grant_writer(t)
  <2>1. /\ pc[t] \in {"wake_one_writer", "do_wake"} /\ tsk = NULL /\ woken = 0
        /\ HeadIs("WRITE") /\ DequeueHead /\ UNCHANGED flags /\ Goto(t, "wake_writer")
    BY <1>9 DEF wake_grant_writer, OneWriterInv
  <2>2. Readers = {} /\ Writers = {}
    BY <2>1, HoldersFinite, FS_EmptySet DEF OneWriterInv, DoWakeInv, Pending
  <2>3. /\ Requests' = Tail(Requests) /\ Requests # <<>>
        /\ Head(Requests).task = Head(wait_list) /\ Head(Requests).mode = "WRITE"
    BY <2>1, RequestsTail DEF HeadIs
  <2>4. Writers' = Writers \cup {Head(wait_list)} /\ Readers' = Readers
    BY <2>1, HoldersGrantHead DEF HeadIs
  <2>5. Lock!Grant
    BY <2>2, <2>3, <2>4 DEF Lock!Grant, Lock!Compatible, Lock!Hold
  <2> QED
    BY <2>5 DEF Lock!Next
<1>10. CASE wake_grant_reader(t)
  <2>1. /\ pc[t] \in {"do_wake", "downgrade"} /\ HeadIs("READ") /\ DequeueHead
        /\ UNCHANGED <<flags, pc>>
    BY <1>10 DEF wake_grant_reader
  <2>2. Writers = {}
    BY <2>1 DEF DoWakeInv, DowngradeInv
  <2>3. /\ Requests' = Tail(Requests) /\ Requests # <<>>
        /\ Head(Requests).task = Head(wait_list) /\ Head(Requests).mode = "READ"
    BY <2>1, RequestsTail DEF HeadIs
  <2>4. Readers' = Readers \cup {Head(wait_list)} /\ Writers' = Writers
    BY <2>1, HoldersGrantHead DEF HeadIs
  <2>5. Lock!Grant
    BY <2>2, <2>3, <2>4 DEF Lock!Grant, Lock!Compatible, Lock!Hold
  <2> QED
    BY <2>5 DEF Lock!Next
<1>11. CASE wake_up_writer(t) \/ wake_up_reader(t) \/ wake_finish(t)
  BY <1>11, HoldersWakeUp, RequestsSame DEF wake_up_writer, wake_up_reader, wake_finish
<1> QED
  BY <1>4, <1>5, <1>6, <1>7, <1>8, <1>9, <1>10, <1>11 DEF Up, Wake

(* lib/rwsem-spinlock.c implements the abstract lock: many readers or one  *)
(* writer, granted in the order of arrival, for any number of tasks.       *)
THEOREM Refinement == Spec => LockSpec
<1>1. Init => Lock!Init
  BY DEF Init, Lock!Init, Readers, Writers, Granted, WaitPC, Requests
<1>2. IInv /\ IInv' /\ [Next]_vars => [Lock!Next]_(Lock!lockvars)
  <2> SUFFICES ASSUME IInv, IInv', [Next]_vars
               PROVE  Lock!Next \/ UNCHANGED <<Readers, Writers, Requests>>
    BY DEF Lock!lockvars
  <2>1. CASE UNCHANGED vars
    BY <2>1 DEF vars, Readers, Writers, Granted, Requests
  <2>2. CASE Next
    BY <2>2, StepRefines DEF Next, IInv
  <2> QED
    BY <2>1, <2>2
<1> QED
  BY <1>1, <1>2, Invariance, PTL DEF Spec, LockSpec, Lock!Spec

=============================================================================
