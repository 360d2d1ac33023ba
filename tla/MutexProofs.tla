----------------------------- MODULE MutexProofs -----------------------------
(***************************************************************************)
(* Proofs about Mutex, for any finite set of tasks.                        *)
(***************************************************************************)
EXTENDS Mutex, SequenceTheorems, TLAPS

(***************************************************************************)
(* What the list operations do to the set of entries.                      *)
(***************************************************************************)

(* list_del removes its entry and nothing else.                            *)
LEMMA ListDel ==
  ASSUME NEW S, NEW s \in Seq(S), NEW x \in S, OnList(s, x), Distinct(s)
  PROVE  /\ list_del(s, x) \in Seq(S)
         /\ Distinct(list_del(s, x))
         /\ ~OnList(list_del(s, x), x)
         /\ \A y \in S : y # x => (OnList(list_del(s, x), y) <=> OnList(s, y))
<1> DEFINE i == CHOOSE k \in 1..Len(s) : s[k] = x
           n == Len(s) - 1
           r == [j \in 1..n |-> IF j < i THEN s[j] ELSE s[j + 1]]
<1>1. i \in 1..Len(s) /\ s[i] = x
  BY DEF OnList
<1>2. list_del(s, x) = r
  BY DEF list_del
<1> HIDE DEF i
<1>3. n \in Nat /\ Len(s) \in Nat
  BY <1>1
<1>4. \A j \in 1..n : r[j] = IF j < i THEN s[j] ELSE s[j + 1]
  OBVIOUS
<1>5. \A j \in 1..n : r[j] \in S
  BY <1>1, <1>3
<1>6. r \in Seq(S)
  BY <1>3, <1>5, IsASeq
<1>7. Len(r) = n
  BY <1>3, <1>6, LenProperties
<1> HIDE DEF r, n
<1>8. \A y \in S : y # x => (OnList(r, y) <=> OnList(s, y))
  <2> TAKE y \in S
  <2> HAVE y # x
  <2>1. ASSUME NEW j \in 1..n, r[j] = y PROVE OnList(s, y)
    <3>1. j \in 1..Len(s) /\ j + 1 \in 1..Len(s)
      BY <1>3 DEF n
    <3> QED
      BY <1>4, <2>1, <3>1 DEF OnList
  <2>2. ASSUME NEW k \in 1..Len(s), s[k] = y PROVE OnList(r, y)
    <3>1. k # i
      BY <1>1, <2>2
    <3>2. CASE k < i
      <4>1. k \in 1..n
        BY <1>1, <1>3, <3>2 DEF n
      <4> QED
        BY <1>4, <1>7, <2>2, <3>2, <4>1 DEF OnList
    <3>3. CASE k > i
      <4>1. k - 1 \in 1..n /\ ~(k - 1 < i) /\ (k - 1) + 1 = k
        BY <1>1, <1>3, <3>3 DEF n
      <4>2. r[k - 1] = y
        BY <1>4, <2>2, <4>1
      <4> QED
        BY <1>7, <4>1, <4>2 DEF OnList
    <3> QED
      BY <1>1, <3>1, <3>2, <3>3
  <2> QED
    BY <1>7, <2>1, <2>2 DEF OnList
<1>9. ~OnList(r, x)
  <2> SUFFICES ASSUME NEW j \in 1..n PROVE r[j] # x
    BY <1>7 DEF OnList
  <2>1. j \in 1..Len(s) /\ j + 1 \in 1..Len(s)
    BY <1>3 DEF n
  <2>2. CASE j < i
    BY <1>1, <1>4, <2>1, <2>2 DEF Distinct
  <2>3. CASE ~(j < i)
    <3>1. j + 1 # i
      BY <1>1, <2>3
    <3> QED
      BY <1>1, <1>4, <2>1, <2>3, <3>1 DEF Distinct
  <2> QED
    BY <2>2, <2>3
<1>10. Distinct(r)
  <2> SUFFICES ASSUME NEW j \in 1..n, NEW k \in 1..n, r[j] = r[k] PROVE j = k
    BY <1>7 DEF Distinct
  <2>1. /\ j \in 1..Len(s) /\ j + 1 \in 1..Len(s)
        /\ k \in 1..Len(s) /\ k + 1 \in 1..Len(s)
    BY <1>3 DEF n
  <2>2. r[j] = (IF j < i THEN s[j] ELSE s[j + 1]) /\ r[k] = (IF k < i THEN s[k] ELSE s[k + 1])
    BY <1>4
  <2>3. PICK a \in 1..Len(s) : r[j] = s[a] /\ a = (IF j < i THEN j ELSE j + 1)
    BY <2>1, <2>2
  <2>4. PICK b \in 1..Len(s) : r[k] = s[b] /\ b = (IF k < i THEN k ELSE k + 1)
    BY <2>1, <2>2
  <2>5. a = b
    BY <2>3, <2>4 DEF Distinct
  <2> QED
    BY <1>1, <2>3, <2>4, <2>5
<1> QED
  BY <1>2, <1>6, <1>8, <1>9, <1>10

(* list_add_tail of a new entry.                                           *)
LEMMA ListAddTail ==
  ASSUME NEW S, NEW s \in Seq(S), NEW x \in S, ~OnList(s, x), Distinct(s)
  PROVE  /\ Append(s, x) \in Seq(S)
         /\ Append(s, x) # <<>>
         /\ Distinct(Append(s, x))
         /\ OnList(Append(s, x), x)
         /\ \A y \in S : y # x => (OnList(Append(s, x), y) <=> OnList(s, y))
<1> DEFINE r == Append(s, x)
<1>1. /\ r \in Seq(S) /\ r # <<>> /\ Len(r) = Len(s) + 1
      /\ \A k \in 1..Len(s) : r[k] = s[k]
      /\ r[Len(s) + 1] = x
      /\ Len(s) \in Nat
  BY AppendProperties
<1> HIDE DEF r
<1>2. Distinct(r)
  BY <1>1 DEF Distinct, OnList
<1>3. OnList(r, x)
  BY <1>1 DEF OnList
<1>4. \A y \in S : y # x => (OnList(r, y) <=> OnList(s, y))
  BY <1>1 DEF OnList
<1> QED
  BY <1>1, <1>2, <1>3, <1>4 DEF r

(***************************************************************************)
(* The invariant.                                                          *)
(***************************************************************************)

(* Who is inside wait_lock between steps, and what it leaves in count.     *)
LockInv == /\ \A t \in Tasks : pc[t] \in {"retry", "got", "wake"} <=> wait_lock = t
           /\ \A t \in Tasks : pc[t] = "got" => count < 0

IInv == /\ TypeOK
        /\ LockInv
        /\ FreeMeansOne
        /\ MutualExclusion
        /\ WaitersAlive
        /\ NoLostWakeup

Step(t) == Lock(t) \/ LockSlow(t) \/ Unlock(t) \/ Environment(t)

LEMMA MutexInit == Init => IInv
<1> SUFFICES ASSUME Init PROVE IInv
  OBVIOUS
<1>1. TypeOK
  BY DEF Init, TypeOK, TaskStates, SleepStates, Signals, PCs
<1>2. LockInv /\ FreeMeansOne /\ MutualExclusion
  BY MutexAssumption DEF Init, LockInv, FreeMeansOne, MutualExclusion, Owners
<1>3. WaitersAlive /\ NoLostWakeup
  BY DEF Init, WaitersAlive, NoLostWakeup, OnList, Distinct
<1> QED
  BY <1>1, <1>2, <1>3 DEF IInv

(* The list operations of each action.                                     *)
LEMMA ListStep ==
  ASSUME IInv, NEW t \in Tasks, Step(t)
  PROVE  wait_list' \in Seq(Tasks) /\ WaitersAlive'
<1> USE DEF IInv
<1>0. wait_list \in Seq(Tasks) /\ Distinct(wait_list) /\ pc \in [Tasks -> PCs]
  BY DEF TypeOK, WaitersAlive
<1>1. ASSUME wait_list' = wait_list,
             \A u \in Tasks : pc'[u] \in {"retry", "sleep", "got"}
                                <=> pc[u] \in {"retry", "sleep", "got"}
      PROVE  wait_list' \in Seq(Tasks) /\ WaitersAlive'
  BY <1>0, <1>1 DEF WaitersAlive
<1>2. ASSUME wait_list' = list_del(wait_list, t), pc[t] \in {"retry", "sleep", "got"},
             NEW l \in {"idle", "held"}, Goto(t, l)
      PROVE  wait_list' \in Seq(Tasks) /\ WaitersAlive'
  <2>1. OnList(wait_list, t)
    BY <1>2 DEF WaitersAlive
  <2>2. /\ wait_list' \in Seq(Tasks) /\ Distinct(wait_list') /\ ~OnList(wait_list', t)
        /\ \A y \in Tasks : y # t => (OnList(wait_list', y) <=> OnList(wait_list, y))
    BY <1>0, <1>2, <2>1, ListDel
  <2>3. \A u \in Tasks : pc'[u] = IF u = t THEN l ELSE pc[u]
    BY <1>0, <1>2 DEF Goto
  <2> QED
    BY <1>2, <2>2, <2>3 DEF WaitersAlive
<1>3. CASE lock_enter(t)
  <2>1. ~OnList(wait_list, t) /\ wait_list' = Append(wait_list, t)
    BY <1>3 DEF WaitersAlive, lock_enter
  <2>2. /\ wait_list' \in Seq(Tasks) /\ Distinct(wait_list') /\ OnList(wait_list', t)
        /\ \A y \in Tasks : y # t => (OnList(wait_list', y) <=> OnList(wait_list, y))
    BY <1>0, <2>1, ListAddTail
  <2>3. /\ \A u \in Tasks : u # t => pc'[u] = pc[u]
        /\ pc'[t] \in {"got", "retry"}
    BY <1>0, <1>3 DEF lock_enter, Goto
  <2> QED
    BY <2>2, <2>3 DEF WaitersAlive
<1>4. CASE lock_retry_intr(t)
  BY <1>2, <1>4 DEF lock_retry_intr, InLoop
<1>5. CASE lock_done(t)
  BY <1>2, <1>5 DEF lock_done
<1>6. CASE Lock(t)
  BY <1>0, <1>1, <1>6 DEF Lock, mutex_lock, mutex_lock_interruptible, mutex_lock_killable,
     mutex_trylock, fastpath_lock, Goto
<1>7. CASE lock_retry_got(t) \/ lock_retry_sleep(t)
  BY <1>0, <1>1, <1>7 DEF lock_retry_got, lock_retry_sleep, InLoop, Goto
<1>8. CASE Unlock(t)
  BY <1>0, <1>1, <1>8 DEF Unlock, mutex_unlock, unlock_set, unlock_wake, Goto
<1>9. CASE Environment(t)
  BY <1>1, <1>9 DEF Environment, send_signal, take_signal, spurious_wakeup
<1> QED
  BY <1>3, <1>4, <1>5, <1>6, <1>7, <1>8, <1>9 DEF Step, LockSlow

LEMMA TypeStep ==
  ASSUME IInv, NEW t \in Tasks, Step(t)
  PROVE  TypeOK'
<1> USE DEF IInv, TypeOK, PCs, TaskStates, SleepStates, Signals, Goto
<1>0. wait_list' \in Seq(Tasks)
  BY ListStep
<1>1. CASE Lock(t)
  BY <1>0, <1>1 DEF Lock, mutex_lock, mutex_lock_interruptible, mutex_lock_killable,
     mutex_trylock, fastpath_lock
<1>2. CASE lock_enter(t) \/ lock_retry_got(t)
  <2>1. /\ count' = -1 /\ wait_lock' = t
        /\ UNCHANGED <<state, how, sig>>
    BY <1>2 DEF lock_enter, lock_retry_got
  <2>2. pc' \in [Tasks -> PCs]
    <3>1. CASE lock_enter(t)
      BY <3>1 DEF lock_enter
    <3>2. CASE lock_retry_got(t)
      BY <3>2 DEF lock_retry_got
    <3> QED
      BY <1>2, <3>1, <3>2
  <2> QED
    BY <1>0, <2>1, <2>2
<1>3. CASE lock_retry_intr(t) \/ lock_retry_sleep(t)
  BY <1>0, <1>3 DEF lock_retry_intr, lock_retry_sleep
<1>4. CASE lock_done(t)
  BY <1>0, <1>4 DEF lock_done
<1>5. CASE mutex_unlock(t)
  <2>1. t \in Owners
    BY <1>5 DEF mutex_unlock, Owners
  <2>2. count < 1
    BY <2>1 DEF FreeMeansOne
  <2> QED
    BY <1>0, <1>5, <2>2 DEF mutex_unlock
<1>6. CASE unlock_set(t)
  BY <1>0, <1>6 DEF unlock_set
<1>7. CASE unlock_wake(t)
  BY <1>0, <1>7 DEF unlock_wake
<1>8. CASE Environment(t)
  BY <1>0, <1>8 DEF Environment, send_signal, take_signal, spurious_wakeup
<1> QED
  BY <1>1, <1>2, <1>3, <1>4, <1>5, <1>6, <1>7, <1>8 DEF Step, LockSlow, Unlock

LEMMA LockStep ==
  ASSUME IInv, NEW t \in Tasks, Step(t)
  PROVE  LockInv'
<1> USE MutexAssumption DEF IInv, TypeOK, LockInv, PCs, Goto
<1>1. CASE Lock(t)
  BY <1>1 DEF Lock, mutex_lock, mutex_lock_interruptible, mutex_lock_killable,
     mutex_trylock, fastpath_lock
<1>2. CASE lock_enter(t) \/ lock_retry_got(t)
  BY <1>2 DEF lock_enter, lock_retry_got, InLoop
<1>3. CASE lock_retry_intr(t) \/ lock_retry_sleep(t)
  BY <1>3 DEF lock_retry_intr, lock_retry_sleep, InLoop
<1>4. CASE lock_done(t)
  BY <1>4 DEF lock_done
<1>5. CASE mutex_unlock(t)
  <2>1. \A u \in Tasks : pc[u] # "got"
    BY <1>5 DEF mutex_unlock, MutualExclusion, Owners
  <2> QED
    BY <1>5, <2>1 DEF mutex_unlock
<1>6. CASE unlock_set(t)
  BY <1>6 DEF unlock_set
<1>7. CASE unlock_wake(t)
  BY <1>7 DEF unlock_wake
<1>8. CASE Environment(t)
  BY <1>8 DEF Environment, send_signal, take_signal, spurious_wakeup
<1> QED
  BY <1>1, <1>2, <1>3, <1>4, <1>5, <1>6, <1>7, <1>8 DEF Step, LockSlow, Unlock

LEMMA OwnerStep ==
  ASSUME IInv, NEW t \in Tasks, Step(t)
  PROVE  FreeMeansOne' /\ MutualExclusion'
<1> USE DEF IInv, TypeOK, PCs, Goto
<1>0. pc \in [Tasks -> PCs] /\ count \in Int /\ count <= 1
  OBVIOUS
<1>1. ASSUME Owners' = Owners, count' = 1 <=> count = 1
      PROVE  FreeMeansOne' /\ MutualExclusion'
  BY <1>1 DEF FreeMeansOne, MutualExclusion
<1>2. ASSUME count = 1, count' # 1, Owners' = Owners \cup {t}
      PROVE  FreeMeansOne' /\ MutualExclusion'
  BY <1>2 DEF FreeMeansOne, MutualExclusion
<1>3. ASSUME t \in Owners, count' = 1, Owners' = Owners \ {t}
      PROVE  FreeMeansOne' /\ MutualExclusion'
  BY <1>3 DEF FreeMeansOne, MutualExclusion
<1>4. CASE Lock(t)
  <2>1. CASE count = 1 /\ count' = 0 /\ Goto(t, "held")
    <3>1. Owners' = Owners \cup {t}
      BY <2>1 DEF Owners
    <3> QED
      BY <1>2, <2>1, <3>1
  <2>2. CASE pc[t] = "idle" /\ Goto(t, "slow") /\ count # 1 /\ count' = count - 1
    <3>1. Owners' = Owners
      BY <2>2 DEF Owners
    <3> QED
      BY <1>0, <1>1, <2>2, <3>1
  <2>3. CASE pc[t] = "idle" /\ Goto(t, "slow") /\ count' = count
    <3>1. Owners' = Owners
      BY <2>3 DEF Owners
    <3> QED
      BY <1>1, <2>3, <3>1
  <2> QED
    BY <1>4, <2>1, <2>2, <2>3
    DEF Lock, mutex_lock, mutex_lock_interruptible, mutex_lock_killable, mutex_trylock, fastpath_lock
<1>5. CASE lock_enter(t)
  <2>1. CASE count = 1
    <3>1. Owners' = Owners \cup {t}
      BY <1>5, <2>1 DEF lock_enter, Owners
    <3> QED
      BY <1>2, <1>5, <2>1, <3>1 DEF lock_enter
  <2>2. CASE count # 1
    <3>1. Owners' = Owners
      BY <1>5, <2>2 DEF lock_enter, Owners
    <3> QED
      BY <1>1, <1>5, <2>2, <3>1 DEF lock_enter
  <2> QED
    BY <2>1, <2>2
<1>6. CASE lock_retry_got(t)
  <2>1. Owners' = Owners \cup {t}
    BY <1>6 DEF lock_retry_got, Owners
  <2> QED
    BY <1>2, <1>6, <2>1 DEF lock_retry_got
<1>7. CASE lock_retry_intr(t) \/ lock_retry_sleep(t)
  <2>1. Owners' = Owners
    BY <1>7 DEF lock_retry_intr, lock_retry_sleep, InLoop, Owners
  <2> QED
    BY <1>1, <1>7, <2>1 DEF lock_retry_intr, lock_retry_sleep
<1>8. CASE lock_done(t)
  <2>1. Owners' = Owners
    BY <1>8 DEF lock_done, Owners
  <2>2. count # 1 /\ count' # 1
    BY <1>8 DEF lock_done, LockInv
  <2> QED
    BY <1>1, <2>1, <2>2
<1>9. CASE mutex_unlock(t)
  <2>1. t \in Owners /\ count # 1
    BY <1>9 DEF mutex_unlock, Owners, FreeMeansOne
  <2>2. CASE count = 0 /\ count' = 1 /\ Goto(t, "idle")
    <3>1. Owners' = Owners \ {t}
      BY <2>2 DEF Owners
    <3> QED
      BY <1>3, <2>1, <2>2, <3>1
  <2>3. CASE count' # 1 /\ Goto(t, "unlock")
    <3>1. Owners' = Owners
      BY <1>9, <2>3 DEF Owners, mutex_unlock
    <3> QED
      BY <1>1, <2>1, <2>3, <3>1
  <2> QED
    BY <1>0, <1>9, <2>1, <2>2, <2>3 DEF mutex_unlock
<1>10. CASE unlock_set(t)
  <2>1. t \in Owners /\ Owners' = Owners \ {t}
    BY <1>10 DEF unlock_set, Owners
  <2> QED
    BY <1>3, <1>10, <2>1 DEF unlock_set
<1>11. CASE unlock_wake(t)
  <2>1. Owners' = Owners
    BY <1>11 DEF unlock_wake, Owners
  <2> QED
    BY <1>1, <1>11, <2>1 DEF unlock_wake
<1>12. CASE Environment(t)
  <2>1. Owners' = Owners /\ count' = count
    BY <1>12 DEF Environment, send_signal, take_signal, spurious_wakeup, Owners
  <2> QED
    BY <1>1, <2>1
<1> QED
  BY <1>4, <1>5, <1>6, <1>7, <1>8, <1>9, <1>10, <1>11, <1>12 DEF Step, LockSlow, Unlock

(* A task that will retry or wake.                                         *)
Alert(t) == \/ pc[t] = "sleep" /\ state[t] = "RUNNING"
            \/ pc[t] \in {"retry", "unlock", "wake"}

LEMMA WakeupStep ==
  ASSUME IInv, NEW t \in Tasks, Step(t), WaitersAlive', TypeOK'
  PROVE  NoLostWakeup'
<1> USE DEF IInv, TypeOK, PCs, Goto
<1> SUFFICES ASSUME NEW s \in Tasks, pc'[s] = "sleep", count' >= 0
             PROVE  \E u \in Tasks : Alert(u)'
  BY DEF NoLostWakeup, Alert
<1>1. ASSUME pc[s] = "sleep", count >= 0, \A u \in Tasks : Alert(u) => Alert(u)'
      PROVE  \E u \in Tasks : Alert(u)'
  BY <1>1 DEF NoLostWakeup, Alert
<1>2. CASE Lock(t)
  <2>1. pc[s] = "sleep" /\ count >= 0
    BY <1>2 DEF Lock, mutex_lock, mutex_lock_interruptible, mutex_lock_killable,
       mutex_trylock, fastpath_lock
  <2>2. \A u \in Tasks : Alert(u) => Alert(u)'
    BY <1>2 DEF Lock, mutex_lock, mutex_lock_interruptible, mutex_lock_killable,
       mutex_trylock, fastpath_lock, Alert
  <2> QED
    BY <1>1, <2>1, <2>2
<1>3. CASE lock_enter(t) \/ lock_retry_got(t) \/ lock_retry_intr(t) \/ lock_retry_sleep(t)
  BY <1>3 DEF lock_enter, lock_retry_got, lock_retry_intr, lock_retry_sleep
<1>4. CASE lock_done(t)
  <2>1. OnList(wait_list', s)
    BY DEF WaitersAlive
  <2>2. wait_list' # <<>>
    BY <2>1 DEF OnList
  <2> QED
    BY <1>4, <2>2 DEF lock_done, LockInv
<1>5. CASE mutex_unlock(t)
  <2>1. pc[s] = "sleep"
    BY <1>5 DEF mutex_unlock
  <2>2. CASE pc'[t] = "unlock"
    BY <2>2 DEF Alert
  <2>3. CASE pc'[t] = "idle"
    <3>1. count >= 0
      BY <1>5, <2>3 DEF mutex_unlock
    <3>2. \A u \in Tasks : Alert(u) => Alert(u)'
      BY <1>5 DEF mutex_unlock, Alert
    <3> QED
      BY <1>1, <2>1, <3>1, <3>2
  <2> QED
    BY <1>5, <2>2, <2>3 DEF mutex_unlock
<1>6. CASE unlock_set(t)
  BY <1>6 DEF unlock_set, Alert
<1>7. CASE unlock_wake(t)
  <2> DEFINE h == Head(wait_list)
  <2>1. wait_list' = wait_list /\ OnList(wait_list, s)
    BY <1>7 DEF WaitersAlive, unlock_wake
  <2>2. wait_list # <<>>
    BY <2>1 DEF OnList
  <2>3. h \in Tasks /\ OnList(wait_list, h)
    <3>1. wait_list \in Seq(Tasks)
      BY DEF WaitersAlive
    <3>2. h \in Tasks /\ h = wait_list[1] /\ Len(wait_list) \in Nat \ {0}
      BY <2>2, <3>1, HeadTailProperties, EmptySeq
    <3> HIDE DEF h
    <3> QED
      BY <3>2 DEF OnList
  <2> HIDE DEF h
  <2>4. pc[h] = "sleep" /\ h # t
    BY <1>7, <2>3, MutexAssumption DEF WaitersAlive, LockInv, unlock_wake
  <2>5. pc'[h] = "sleep" /\ state'[h] = "RUNNING"
    BY <1>7, <2>2, <2>3, <2>4 DEF unlock_wake, h
  <2> QED
    BY <2>3, <2>5 DEF Alert
<1>8. CASE Environment(t)
  <2>1. pc[s] = "sleep" /\ count >= 0
    BY <1>8 DEF Environment, send_signal, take_signal, spurious_wakeup
  <2>2. \A u \in Tasks : Alert(u) => Alert(u)'
    BY <1>8 DEF Environment, send_signal, take_signal, spurious_wakeup, Alert
  <2> QED
    BY <1>1, <2>1, <2>2
<1> QED
  BY <1>2, <1>3, <1>4, <1>5, <1>6, <1>7, <1>8 DEF Step, LockSlow, Unlock

(***************************************************************************)
(* The theorems.                                                           *)
(***************************************************************************)

(* The invariant holds in every reachable state.                           *)
THEOREM MutexInvariance == Spec => []IInv
<1>1. IInv /\ [Next]_vars => IInv'
  <2> SUFFICES ASSUME IInv, [Next]_vars PROVE IInv'
    OBVIOUS
  <2>1. CASE UNCHANGED vars
    BY <2>1 DEF vars, IInv, TypeOK, LockInv, FreeMeansOne, MutualExclusion, Owners,
                WaitersAlive, NoLostWakeup
  <2>2. ASSUME NEW t \in Tasks, Step(t) PROVE IInv'
    <3>1. TypeOK' /\ LockInv' /\ FreeMeansOne' /\ MutualExclusion' /\ WaitersAlive'
      BY <2>2, TypeStep, LockStep, OwnerStep, ListStep
    <3> QED
      BY <2>2, <3>1, WakeupStep DEF IInv
  <2> QED
    BY <2>1, <2>2 DEF Next, Step
<1> QED
  BY <1>1, MutexInit, PTL DEF Spec

(* Type correctness; count never exceeds 1.                                *)
THEOREM MutexTypeCorrect == Spec => []TypeOK
BY MutexInvariance, PTL DEF IInv

(* At most one task owns the mutex, for any number of tasks and whichever  *)
(* exclusive stores of the fast paths fail.                                *)
THEOREM MutexExclusion == Spec => []MutualExclusion
BY MutexInvariance, PTL DEF IInv

(* count is 1 exactly when the mutex has no owner.                         *)
THEOREM MutexFreeMeansOne == Spec => []FreeMeansOne
BY MutexInvariance, PTL DEF IInv

(* No sleeping waiter is forgotten.                                        *)
THEOREM MutexWakeup == Spec => []NoLostWakeup
BY MutexInvariance, PTL DEF IInv

(* The list holds exactly the waiters inside __mutex_lock_common.          *)
THEOREM MutexWaitersAlive == Spec => []WaitersAlive
BY MutexInvariance, PTL DEF IInv

=============================================================================
