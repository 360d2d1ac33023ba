--------------------------- MODULE SemaphoreProofs ---------------------------
(***************************************************************************)
(* Proofs about Semaphore, for any finite set of tasks and any count.      *)
(***************************************************************************)
EXTENDS Semaphore, SequenceTheorems, FiniteSetTheorems, TLAPS

(***************************************************************************)
(* What the list operations do to the set of entries.                      *)
(***************************************************************************)

(* list_del removes its entry and nothing else.                            *)
LEMMA ListDel ==
  ASSUME NEW S, NEW s \in Seq(S), NEW x \in S, OnList(s, x), Distinct(s)
  PROVE  /\ list_del(s, x) \in Seq(S)
         /\ Distinct(list_del(s, x))
         /\ ~OnList(list_del(s, x), x)
         /\ \A y \in S : y # x => (OnList(list_del(s, x), y) <=> OnList(s, y))
<1> DEFINE i == CHOOSE k \in 1..Len(s) : s[k] = x
           n == Len(s) - 1
           r == [j \in 1..n |-> IF j < i THEN s[j] ELSE s[j + 1]]
<1>1. i \in 1..Len(s) /\ s[i] = x
  BY DEF OnList
<1>2. list_del(s, x) = r
  BY DEF list_del
<1> HIDE DEF i
<1>3. n \in Nat /\ Len(s) \in Nat
  BY <1>1
<1>4. \A j \in 1..n : r[j] = IF j < i THEN s[j] ELSE s[j + 1]
  OBVIOUS
<1>5. \A j \in 1..n : r[j] \in S
  BY <1>1, <1>3
<1>6. r \in Seq(S)
  BY <1>3, <1>5, IsASeq
<1>7. Len(r) = n
  BY <1>3, <1>6, LenProperties
<1> HIDE DEF r, n
<1>8. \A y \in S : y # x => (OnList(r, y) <=> OnList(s, y))
  <2> TAKE y \in S
  <2> HAVE y # x
  <2>1. ASSUME NEW j \in 1..n, r[j] = y PROVE OnList(s, y)
    <3>1. j \in 1..Len(s) /\ j + 1 \in 1..Len(s)
      BY <1>3 DEF n
    <3> QED
      BY <1>4, <2>1, <3>1 DEF OnList
  <2>2. ASSUME NEW k \in 1..Len(s), s[k] = y PROVE OnList(r, y)
    <3>1. k # i
      BY <1>1, <2>2
    <3>2. CASE k < i
      <4>1. k \in 1..n
        BY <1>1, <1>3, <3>2 DEF n
      <4> QED
        BY <1>4, <1>7, <2>2, <3>2, <4>1 DEF OnList
    <3>3. CASE k > i
      <4>1. k - 1 \in 1..n /\ ~(k - 1 < i) /\ (k - 1) + 1 = k
        BY <1>1, <1>3, <3>3 DEF n
      <4>2. r[k - 1] = y
        BY <1>4, <2>2, <4>1
      <4> QED
        BY <1>7, <4>1, <4>2 DEF OnList
    <3> QED
      BY <1>1, <3>1, <3>2, <3>3
  <2> QED
    BY <1>7, <2>1, <2>2 DEF OnList
<1>9. ~OnList(r, x)
  <2> SUFFICES ASSUME NEW j \in 1..n PROVE r[j] # x
    BY <1>7 DEF OnList
  <2>1. j \in 1..Len(s) /\ j + 1 \in 1..Len(s)
    BY <1>3 DEF n
  <2>2. CASE j < i
    BY <1>1, <1>4, <2>1, <2>2 DEF Distinct
  <2>3. CASE ~(j < i)
    <3>1. j + 1 # i
      BY <1>1, <2>3
    <3> QED
      BY <1>1, <1>4, <2>1, <2>3, <3>1 DEF Distinct
  <2> QED
    BY <2>2, <2>3
<1>10. Distinct(r)
  <2> SUFFICES ASSUME NEW j \in 1..n, NEW k \in 1..n, r[j] = r[k] PROVE j = k
    BY <1>7 DEF Distinct
  <2>1. /\ j \in 1..Len(s) /\ j + 1 \in 1..Len(s)
        /\ k \in 1..Len(s) /\ k + 1 \in 1..Len(s)
    BY <1>3 DEF n
  <2>2. r[j] = (IF j < i THEN s[j] ELSE s[j + 1]) /\ r[k] = (IF k < i THEN s[k] ELSE s[k + 1])
    BY <1>4
  <2>3. PICK a \in 1..Len(s) : r[j] = s[a] /\ a = (IF j < i THEN j ELSE j + 1)
    BY <2>1, <2>2
  <2>4. PICK b \in 1..Len(s) : r[k] = s[b] /\ b = (IF k < i THEN k ELSE k + 1)
    BY <2>1, <2>2
  <2>5. a = b
    BY <2>3, <2>4 DEF Distinct
  <2> QED
    BY <1>1, <2>3, <2>4, <2>5
<1> QED
  BY <1>2, <1>6, <1>8, <1>9, <1>10

(* list_add_tail of a new entry.                                           *)
LEMMA ListAddTail ==
  ASSUME NEW S, NEW s \in Seq(S), NEW x \in S, ~OnList(s, x), Distinct(s)
  PROVE  /\ Append(s, x) \in Seq(S)
         /\ Append(s, x) # <<>>
         /\ Distinct(Append(s, x))
         /\ OnList(Append(s, x), x)
         /\ \A y \in S : y # x => (OnList(Append(s, x), y) <=> OnList(s, y))
<1> DEFINE r == Append(s, x)
<1>1. /\ r \in Seq(S) /\ r # <<>> /\ Len(r) = Len(s) + 1
      /\ \A k \in 1..Len(s) : r[k] = s[k]
      /\ r[Len(s) + 1] = x
      /\ Len(s) \in Nat
  BY AppendProperties
<1> HIDE DEF r
<1>2. Distinct(r)
  BY <1>1 DEF Distinct, OnList
<1>3. OnList(r, x)
  BY <1>1 DEF OnList
<1>4. \A y \in S : y # x => (OnList(r, y) <=> OnList(s, y))
  BY <1>1 DEF OnList
<1> QED
  BY <1>1, <1>2, <1>3, <1>4 DEF r

(* Taking the first entry off is list_del of the head.                     *)
LEMMA ListPop ==
  ASSUME NEW S, NEW s \in Seq(S), s # <<>>, Distinct(s)
  PROVE  /\ Head(s) \in S /\ OnList(s, Head(s))
         /\ Tail(s) \in Seq(S)
         /\ Distinct(Tail(s))
         /\ ~OnList(Tail(s), Head(s))
         /\ \A y \in S : y # Head(s) => (OnList(Tail(s), y) <=> OnList(s, y))
<1> DEFINE r == Tail(s)
           h == Head(s)
<1>1. /\ h \in S /\ h = s[1] /\ r \in Seq(S) /\ Len(r) = Len(s) - 1
      /\ \A k \in 1..Len(r) : r[k] = s[k + 1]
      /\ Len(s) \in Nat \ {0}
  BY HeadTailProperties
<1> HIDE DEF r, h
<1>2. \A k \in 1..Len(r) : k + 1 \in 1..Len(s)
  BY <1>1
<1>3. Distinct(r)
  BY <1>1, <1>2 DEF Distinct
<1>4. OnList(s, h) /\ ~OnList(r, h)
  BY <1>1, <1>2 DEF OnList, Distinct
<1>5. ASSUME NEW y \in S, y # h PROVE OnList(r, y) <=> OnList(s, y)
  <2>1. ASSUME NEW k \in 1..Len(s), s[k] = y PROVE OnList(r, y)
    <3>1. k # 1
      BY <1>1, <1>5, <2>1
    <3>2. k - 1 \in 1..Len(r) /\ (k - 1) + 1 = k
      BY <1>1, <3>1
    <3>3. r[k - 1] = y
      BY <1>1, <2>1, <3>2
    <3> QED
      BY <3>2, <3>3 DEF OnList
  <2> QED
    BY <1>1, <1>2, <2>1 DEF OnList
<1> QED
  BY <1>1, <1>3, <1>4, <1>5 DEF r, h

(***************************************************************************)
(* The invariant.                                                          *)
(***************************************************************************)

(* A sleeper's task state is the one its variant of down() asked for.      *)
SleepInv == \A t \in Tasks : pc[t] = "sleep" => state[t] \in {"RUNNING", SleepState(how[t])}

IInv == /\ TypeOK
        /\ UnitsConserved
        /\ NoIdleUnit
        /\ WaitersAlive
        /\ SleepInv
        /\ NoLostWakeup

LEMMA OwnersFinite == IsFiniteSet(Owners) /\ Cardinality(Owners) \in Nat
<1>1. Owners \in SUBSET Tasks
  BY DEF Owners
<1>2. IsFiniteSet(Owners)
  BY <1>1, FS_Subset, SemAssumption
<1> QED
  BY <1>2, FS_CardinalityType

LEMMA SleepStateType == \A v \in Variants : SleepState(v) \in SleepStates
BY DEF Variants, SleepState, SleepStates

LEMMA SemInit == Init => IInv
<1> SUFFICES ASSUME Init PROVE IInv
  OBVIOUS
<1>1. TypeOK
  BY SemAssumption DEF Init, TypeOK, TaskStates, Signals, Variants
<1>2. Owners = {}
  BY DEF Init, Owners
<1>3. UnitsConserved
  BY <1>2, FS_EmptySet, SemAssumption DEF Init, UnitsConserved
<1>4. NoIdleUnit /\ WaitersAlive /\ SleepInv /\ NoLostWakeup
  BY DEF Init, NoIdleUnit, WaitersAlive, SleepInv, NoLostWakeup, MustAct, OnList, Distinct
<1> QED
  BY <1>1, <1>3, <1>4 DEF IInv

(* A step of a task that changes neither the list nor the units.           *)
LEMMA SemFrame ==
  ASSUME IInv, UNCHANGED <<count, wait_list, up_flag, pc, total>>
  PROVE  UnitsConserved' /\ NoIdleUnit' /\ WaitersAlive'
<1>1. Owners' = Owners
  BY DEF Owners
<1> QED
  BY <1>1 DEF IInv, UnitsConserved, NoIdleUnit, WaitersAlive

LEMMA TakeUnitStep ==
  ASSUME IInv, NEW t \in Tasks, pc[t] = "idle", TakeUnit(t)
  PROVE  IInv'
<1>1. TypeOK'
  BY DEF IInv, TypeOK, TakeUnit
<1>2. UnitsConserved'
  <2>1. Owners' = Owners \cup {t} /\ t \notin Owners
    BY DEF IInv, TypeOK, TakeUnit, Owners
  <2>2. Cardinality(Owners') = Cardinality(Owners) + 1
    BY <2>1, OwnersFinite, FS_AddElement
  <2> QED
    BY <2>2, OwnersFinite DEF IInv, TypeOK, UnitsConserved, TakeUnit
<1>3. NoIdleUnit'
  BY DEF IInv, NoIdleUnit, TakeUnit, TypeOK
<1>4. WaitersAlive'
  BY DEF IInv, WaitersAlive, TakeUnit, TypeOK
<1>5. SleepInv' /\ NoLostWakeup'
  BY DEF IInv, SleepInv, NoLostWakeup, MustAct, TakeUnit, TypeOK
<1> QED
  BY <1>1, <1>2, <1>3, <1>4, <1>5 DEF IInv

LEMMA BeginWaitStep ==
  ASSUME IInv, NEW t \in Tasks, NEW v \in Variants, NEW e \in BOOLEAN,
         pc[t] = "idle", BeginWait(t, v, e)
  PROVE  IInv'
<1>1. ~OnList(wait_list, t)
  BY DEF IInv, WaitersAlive
<1>2. /\ wait_list' \in Seq(Tasks) /\ Distinct(wait_list') /\ OnList(wait_list', t)
      /\ \A y \in Tasks : y # t => (OnList(wait_list', y) <=> OnList(wait_list, y))
  BY <1>1, ListAddTail DEF IInv, TypeOK, WaitersAlive, BeginWait
<1>3. TypeOK'
  BY <1>2, SleepStateType DEF SleepStates, IInv, TypeOK, TaskStates, Signals, BeginWait
<1>4. UnitsConserved'
  <2>1. Owners' = Owners
    BY DEF IInv, TypeOK, TaskStates, Signals, BeginWait, Owners
  <2> QED
    BY <2>1 DEF IInv, UnitsConserved, BeginWait
<1>5. NoIdleUnit'
  BY DEF BeginWait, NoIdleUnit
<1>6. WaitersAlive'
  <2>1. \A y \in Tasks : y # t => pc'[y] = pc[y] /\ up_flag'[y] = up_flag[y]
    BY DEF IInv, TypeOK, TaskStates, Signals, BeginWait
  <2>2. pc'[t] = "sleep" /\ ~up_flag'[t]
    BY DEF IInv, TypeOK, TaskStates, Signals, BeginWait
  <2> QED
    BY <1>2, <2>1, <2>2 DEF IInv, WaitersAlive
<1>7. SleepInv' /\ NoLostWakeup'
  <2>1. \A y \in Tasks : y # t => /\ pc'[y] = pc[y] /\ up_flag'[y] = up_flag[y]
                                  /\ state'[y] = state[y] /\ how'[y] = how[y]
                                  /\ expired'[y] = expired[y] /\ sig'[y] = sig[y]
    BY DEF IInv, TypeOK, TaskStates, Signals, BeginWait
  <2>2. /\ ~up_flag'[t] /\ ~expired'[t] /\ ~signal_pending_state(SleepState(how'[t]), sig'[t])
        /\ state'[t] = SleepState(how'[t])
    BY DEF IInv, TypeOK, TaskStates, Signals, BeginWait
  <2> QED
    BY <2>1, <2>2 DEF IInv, SleepInv, NoLostWakeup, MustAct
<1> QED
  BY <1>3, <1>4, <1>5, <1>6, <1>7 DEF IInv

LEMMA ResumeStep ==
  ASSUME IInv, NEW t \in Tasks, Resume(t)
  PROVE  IInv'
<1>1. CASE acquired(t)
  <2>1. TypeOK'
    BY <1>1 DEF IInv, TypeOK, TaskStates, Signals, acquired, Leave, Variants
  <2>2. Owners' = Owners
    BY <1>1 DEF IInv, TypeOK, TaskStates, Signals, acquired, Leave, Owners
  <2>3. UnitsConserved' /\ NoIdleUnit'
    BY <1>1, <2>2 DEF IInv, UnitsConserved, NoIdleUnit, acquired
  <2>4. WaitersAlive' /\ SleepInv' /\ NoLostWakeup'
    BY <1>1 DEF IInv, TypeOK, TaskStates, Signals, acquired, Leave, WaitersAlive, SleepInv, NoLostWakeup, MustAct
  <2> QED
    BY <2>1, <2>3, <2>4 DEF IInv
<1>2. CASE give_up(t)
  <2>1. OnList(wait_list, t) /\ Distinct(wait_list) /\ wait_list \in Seq(Tasks)
    BY <1>2 DEF IInv, WaitersAlive, give_up, TypeOK
  <2>2. /\ wait_list' \in Seq(Tasks) /\ Distinct(wait_list') /\ ~OnList(wait_list', t)
        /\ \A y \in Tasks : y # t => (OnList(wait_list', y) <=> OnList(wait_list, y))
    BY <1>2, <2>1, ListDel DEF give_up
  <2>3. TypeOK'
    BY <1>2, <2>2 DEF IInv, TypeOK, TaskStates, Signals, give_up, Leave, Variants
  <2>4. Owners' = Owners
    BY <1>2 DEF IInv, TypeOK, TaskStates, Signals, give_up, Leave, Owners
  <2>5. UnitsConserved'
    BY <1>2, <2>4 DEF IInv, UnitsConserved, give_up
  <2>6. NoIdleUnit'
    <3>1. wait_list # <<>> /\ count' = count
      BY <1>2, <2>1 DEF OnList, give_up
    <3> QED
      BY <3>1 DEF IInv, NoIdleUnit
  <2>7. \A y \in Tasks : y # t => /\ pc'[y] = pc[y] /\ up_flag'[y] = up_flag[y]
                                  /\ state'[y] = state[y] /\ how'[y] = how[y]
                                  /\ expired'[y] = expired[y] /\ sig'[y] = sig[y]
    BY <1>2 DEF IInv, TypeOK, TaskStates, Signals, give_up, Leave
  <2>8. pc'[t] = "idle"
    BY <1>2 DEF IInv, TypeOK, TaskStates, Signals, give_up, Leave
  <2>9. WaitersAlive' /\ SleepInv' /\ NoLostWakeup'
    BY <2>2, <2>7, <2>8 DEF IInv, WaitersAlive, SleepInv, NoLostWakeup, MustAct
  <2> QED
    BY <2>3, <2>5, <2>6, <2>9 DEF IInv
<1>3. CASE sleep_again(t)
  <2>1. TypeOK'
    BY <1>3, SleepStateType DEF SleepStates, IInv, TypeOK, TaskStates, Signals, sleep_again
  <2>2. UnitsConserved' /\ NoIdleUnit' /\ WaitersAlive'
    BY <1>3, SemFrame DEF sleep_again
  <2>3. SleepInv' /\ NoLostWakeup'
    BY <1>3 DEF IInv, TypeOK, TaskStates, Signals, sleep_again, SleepInv, NoLostWakeup, MustAct
  <2> QED
    BY <2>1, <2>2, <2>3 DEF IInv
<1> QED
  BY <1>1, <1>2, <1>3 DEF Resume

(* What up() does to the list and to the owners, its caller apart.         *)
LEMMA PutUnitStep ==
  ASSUME IInv, PutUnit,
         UNCHANGED <<how, expired, sig>>,
         \/ UNCHANGED pc /\ total' = total + 1
         \/ \E t \in Tasks : /\ pc[t] = "held" /\ pc' = [pc EXCEPT ![t] = "idle"]
                             /\ total' = total
  PROVE  IInv'
<1>1. PICK Out \in SUBSET Tasks :
        /\ \A x \in Out : pc[x] = "held"
        /\ IsFiniteSet(Out)
        /\ \A x \in Tasks : pc'[x] = IF x \in Out THEN "idle" ELSE pc[x]
        /\ pc' \in [Tasks -> {"idle", "sleep", "held"}]
        /\ Cardinality(Out) \in {0, 1}
        /\ total' + Cardinality(Out) = total + 1
        /\ Out = {} \/ \E x \in Tasks : Out = {x}
  <2>1. CASE UNCHANGED pc /\ total' = total + 1
    <3> WITNESS {} \in SUBSET Tasks
    <3> QED
      BY <2>1, FS_EmptySet DEF IInv, TypeOK
  <2>2. ASSUME NEW t \in Tasks, pc[t] = "held", pc' = [pc EXCEPT ![t] = "idle"], total' = total
        PROVE  \E Out \in SUBSET Tasks :
                 /\ \A x \in Out : pc[x] = "held"
                 /\ IsFiniteSet(Out)
                 /\ \A x \in Tasks : pc'[x] = IF x \in Out THEN "idle" ELSE pc[x]
                 /\ pc' \in [Tasks -> {"idle", "sleep", "held"}]
                 /\ Cardinality(Out) \in {0, 1}
                 /\ total' + Cardinality(Out) = total + 1
                 /\ Out = {} \/ \E x \in Tasks : Out = {x}
    <3> WITNESS {t} \in SUBSET Tasks
    <3>1. IsFiniteSet({t}) /\ Cardinality({t}) = 1
      BY FS_Singleton
    <3> QED
      BY <2>2, <3>1 DEF IInv, TypeOK
  <2> QED
    BY <2>1, <2>2
<1>2. Cardinality(Owners \ Out) = Cardinality(Owners) - Cardinality(Out) /\ IsFiniteSet(Owners \ Out)
  <2>1. CASE Out = {}
    <3>1. Owners \ Out = Owners
      BY <2>1
    <3> QED
      BY <2>1, <3>1, FS_EmptySet, OwnersFinite
  <2>2. ASSUME NEW x \in Tasks, Out = {x}
        PROVE  Cardinality(Owners \ Out) = Cardinality(Owners) - Cardinality(Out)
               /\ IsFiniteSet(Owners \ Out)
    <3>1. x \in Owners
      BY <1>1, <2>2 DEF Owners
    <3> QED
      BY <2>2, <3>1, FS_RemoveElement, FS_Singleton, OwnersFinite
  <2> QED
    BY <1>1, <2>1, <2>2
<1>3. CASE wait_list = <<>>
  <2>1. count' = count + 1 /\ UNCHANGED <<wait_list, up_flag, state>>
    BY <1>3 DEF PutUnit
  <2>2. TypeOK'
    BY <1>1, <2>1 DEF IInv, TypeOK
  <2>3. Owners' = Owners \ Out
    BY <1>1, <2>1 DEF Owners
  <2>4. UnitsConserved'
    BY <1>1, <1>2, <2>1, <2>3, OwnersFinite DEF IInv, TypeOK, UnitsConserved
  <2>5. NoIdleUnit' /\ WaitersAlive' /\ SleepInv' /\ NoLostWakeup'
    BY <1>1, <1>3, <2>1 DEF IInv, NoIdleUnit, WaitersAlive, SleepInv, NoLostWakeup, MustAct, OnList
  <2> QED
    BY <2>2, <2>4, <2>5 DEF IInv
<1>4. CASE wait_list # <<>>
  <2> DEFINE h == Head(wait_list)
  <2>1. /\ wait_list' = Tail(wait_list) /\ count' = count
        /\ up_flag' = [up_flag EXCEPT ![h] = TRUE]
        /\ state' = [state EXCEPT ![h] = "RUNNING"]
    BY <1>4 DEF PutUnit
  <2>2. /\ h \in Tasks /\ OnList(wait_list, h)
        /\ wait_list' \in Seq(Tasks) /\ Distinct(wait_list') /\ ~OnList(wait_list', h)
        /\ \A y \in Tasks : y # h => (OnList(wait_list', y) <=> OnList(wait_list, y))
    BY <1>4, <2>1, ListPop DEF IInv, TypeOK, WaitersAlive
  <2> HIDE DEF h
  <2>3. pc[h] = "sleep" /\ ~up_flag[h] /\ pc'[h] = "sleep" /\ h \notin Out
    BY <1>1, <2>2 DEF IInv, WaitersAlive
  <2>4. TypeOK'
    BY <1>1, <2>1, <2>2 DEF IInv, TypeOK, TaskStates
  <2>5. /\ \A y \in Tasks : y # h => up_flag'[y] = up_flag[y] /\ state'[y] = state[y]
        /\ up_flag'[h] /\ state'[h] = "RUNNING"
    BY <2>1, <2>2 DEF IInv, TypeOK
  <2>6. Owners' = (Owners \ Out) \cup {h} /\ h \notin Owners \ Out
    BY <1>1, <2>2, <2>3, <2>5 DEF Owners
  <2>7. Cardinality(Owners') = Cardinality(Owners) - Cardinality(Out) + 1
    BY <1>2, <2>6, FS_AddElement
  <2>8. UnitsConserved'
    BY <1>1, <2>1, <2>7, OwnersFinite DEF IInv, TypeOK, UnitsConserved
  <2>9. NoIdleUnit'
    BY <1>4, <2>1 DEF IInv, NoIdleUnit
  <2>10. WaitersAlive'
    BY <1>1, <2>2, <2>3, <2>5 DEF IInv, WaitersAlive
  <2>11. SleepInv' /\ NoLostWakeup'
    BY <1>1, <2>3, <2>5 DEF IInv, SleepInv, NoLostWakeup, MustAct
  <2> QED
    BY <2>4, <2>8, <2>9, <2>10, <2>11 DEF IInv
<1> QED
  BY <1>3, <1>4

LEMMA EnvironmentStep ==
  ASSUME IInv, NEW t \in Tasks, Environment(t)
  PROVE  IInv'
<1>1. CASE send_signal(t)
  <2>1. PICK s \in {"signal", "fatal"} :
          /\ sig' = [sig EXCEPT ![t] = s]
          /\ state' = IF signal_pending_state(state[t], s)
                      THEN [state EXCEPT ![t] = "RUNNING"]
                      ELSE state
          /\ UNCHANGED <<count, wait_list, up_flag, how, expired, pc, total>>
    BY <1>1 DEF send_signal
  <2>2. TypeOK'
    BY <2>1 DEF IInv, TypeOK, TaskStates, Signals
  <2>3. UnitsConserved' /\ NoIdleUnit' /\ WaitersAlive'
    BY <2>1, SemFrame
  <2>4. \A y \in Tasks : /\ state'[y] \in {state[y], "RUNNING"}
                         /\ y # t => state'[y] = state[y] /\ sig'[y] = sig[y]
    BY <2>1 DEF IInv, TypeOK
  <2>5. SleepInv'
    BY <2>1, <2>4 DEF IInv, SleepInv
  <2>6. pc[t] = "sleep" /\ signal_pending_state(SleepState(how[t]), s) => state'[t] = "RUNNING"
    BY <2>1 DEF IInv, TypeOK, SleepInv, signal_pending_state, SleepState, Variants
  <2>7. sig'[t] = s
    BY <2>1 DEF IInv, TypeOK
  <2>8. NoLostWakeup'
    BY <2>1, <2>4, <2>6, <2>7 DEF IInv, NoLostWakeup, MustAct
  <2> QED
    BY <2>2, <2>3, <2>5, <2>8 DEF IInv
<1>2. CASE take_signal(t)
  <2>1. TypeOK'
    BY <1>2 DEF IInv, TypeOK, TaskStates, Signals, take_signal
  <2>2. UnitsConserved' /\ NoIdleUnit' /\ WaitersAlive'
    BY <1>2, SemFrame DEF take_signal
  <2>3. SleepInv' /\ NoLostWakeup'
    BY <1>2 DEF IInv, TypeOK, TaskStates, Signals, take_signal, SleepInv, NoLostWakeup, MustAct
  <2> QED
    BY <2>1, <2>2, <2>3 DEF IInv
<1>3. CASE process_timeout(t)
  <2>1. TypeOK'
    BY <1>3 DEF IInv, TypeOK, TaskStates, Signals, process_timeout
  <2>2. UnitsConserved' /\ NoIdleUnit' /\ WaitersAlive'
    BY <1>3, SemFrame DEF process_timeout
  <2>3. SleepInv' /\ NoLostWakeup'
    BY <1>3 DEF IInv, TypeOK, TaskStates, Signals, process_timeout, SleepInv, NoLostWakeup, MustAct
  <2> QED
    BY <2>1, <2>2, <2>3 DEF IInv
<1>4. CASE spurious_wakeup(t)
  <2>1. TypeOK'
    BY <1>4 DEF IInv, TypeOK, TaskStates, Signals, spurious_wakeup
  <2>2. UnitsConserved' /\ NoIdleUnit' /\ WaitersAlive'
    BY <1>4, SemFrame DEF spurious_wakeup
  <2>3. SleepInv' /\ NoLostWakeup'
    BY <1>4 DEF IInv, TypeOK, TaskStates, Signals, spurious_wakeup, SleepInv, NoLostWakeup, MustAct
  <2> QED
    BY <2>1, <2>2, <2>3 DEF IInv
<1> QED
  BY <1>1, <1>2, <1>3, <1>4 DEF Environment

(* The invariant holds in every reachable state.                           *)
THEOREM SemInvariance == Spec => []IInv
<1>1. IInv /\ [Next]_vars => IInv'
  <2> SUFFICES ASSUME IInv, [Next]_vars PROVE IInv'
    OBVIOUS
  <2>1. CASE UNCHANGED vars
    <3>1. UnitsConserved' /\ NoIdleUnit' /\ WaitersAlive'
      BY <2>1, SemFrame DEF vars
    <3> QED
      BY <2>1, <3>1 DEF vars, IInv, TypeOK, SleepInv, NoLostWakeup, MustAct
  <2>2. ASSUME NEW t \in Tasks, Down(t) PROVE IInv'
    <3>1. ASSUME NEW v \in Variants, NEW e \in BOOLEAN, down_variant(t, v, e) PROVE IInv'
      BY <3>1, TakeUnitStep, BeginWaitStep DEF down_variant
    <3> QED
      BY <2>2, <3>1, TakeUnitStep
      DEF Down, down, down_interruptible, down_killable, down_timeout, down_trylock, Variants
  <2>3. ASSUME NEW t \in Tasks, up(t) PROVE IInv'
    BY <2>3, PutUnitStep DEF up
  <2>4. CASE up_by_other
    BY <2>4, PutUnitStep DEF up_by_other
  <2> QED
    BY <2>1, <2>2, <2>3, <2>4, ResumeStep, EnvironmentStep DEF Next
<1> QED
  BY <1>1, SemInit, PTL DEF Spec

(* Type correctness; the unsigned count never falls below zero.            *)
THEOREM SemTypeCorrect == Spec => []TypeOK
BY SemInvariance, PTL DEF IInv

(* Whatever signals and timeouts meet an up(), no unit is lost or made up. *)
THEOREM SemUnits == Spec => []UnitsConserved
BY SemInvariance, PTL DEF IInv

(* Nobody queues while a unit is free.                                     *)
THEOREM SemNoIdleUnit == Spec => []NoIdleUnit
BY SemInvariance, PTL DEF IInv

(* The wait list never refers to a waiter whose stack frame is gone.       *)
THEOREM SemWaitersAlive == Spec => []WaitersAlive
BY SemInvariance, PTL DEF IInv

(* Nobody with something to do is left asleep.                             *)
THEOREM SemWakeup == Spec => []NoLostWakeup
BY SemInvariance, PTL DEF IInv

=============================================================================
