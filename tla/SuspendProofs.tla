--------------------------- MODULE SuspendProofs ---------------------------
(***************************************************************************)
(* Proofs about Suspend, for any device tree, any set of wakeup sources,   *)
(* any word size and any bounds.  The invariant has one part for each of   *)
(* the modules that Suspend composes, and one for how they go together.    *)
(***************************************************************************)
EXTENDS Suspend, FiniteSetTheorems, SequenceTheorems, TLAPS

(***************************************************************************)
(* The wakeup counter.                                                     *)
(***************************************************************************)

Active == {s \in Sources : ws[s].active}
Signalled == {s \in Sources : irq[s] # "none"}

(* A source owes the counter one event as long as it is active, and it is  *)
(* not destroyed before.                                                   *)
SourceInv == \A s \in Sources : /\ ws[s].owed = IF ws[s].active THEN 1 ELSE 0
                                /\ ws[s].state = "none" => ~ws[s].active

EventBound == since + Cardinality(Signalled) <= MaxEvents

(* k of the events detected since the counter was read as base are over:   *)
(* the counter has moved by k, and if there were events it has moved or    *)
(* shows one in progress.                                                  *)
Tracks(base) ==
  \E k \in 0..MaxEvents : /\ Cnt(combined_event_count) = (base + k) % CountMod
                          /\ k + Inpr(combined_event_count) <= since
                          /\ since > 0 => k + Inpr(combined_event_count) > 0

(* Which value the history is relative to.                                 *)
TrackInv == /\ user.step = "read" => Tracks(user.count)
            /\ user.step # "read" /\ events_check_enabled => Tracks(saved_count)
            /\ user.step = "read" => pc = "user"

WakeupInv == SourceInv /\ CountBalanced /\ EventBound /\ TrackInv

(***************************************************************************)
(* The devices.                                                            *)
(***************************************************************************)

SuspendPcs == {"suspend", "suspend_dev", "suspend_sync"}
NoirqPcs == {"suspend_noirq_loop", "off", "resume_noirq"}
ResumePcs == {"resume_loop", "resume_dev"}
SuspendStates == {"wait_children", "barrier", "callback"}
ResumeStates == {"wait_parent", "resume_callback"}

(* The four lists are always the registered devices, in their order.       *)
OrderInv == lists.prepared \o lists.suspended \o lists.noirq \o lists.dpm = Devices

(* Which of the lists can hold devices.                                    *)
EmptyInv ==
  /\ dpm.pc \in {"idle", "prepare", "resumed"} => lists.suspended = <<>>
  /\ dpm.pc \in {"idle", "resumed"} => lists.prepared = <<>>
  /\ dpm.pc \notin NoirqPcs => lists.noirq = <<>>
  /\ dpm.pc \in SuspendPcs \cup NoirqPcs \cup {"suspend_noirq"} => lists.dpm = <<>>
  /\ dpm.pc \in NoirqPcs \cup {"suspend_noirq"} => lists.prepared = <<>>
  /\ dpm.pc = "suspend_sync" => lists.prepared = <<>> \/ async_error \/ dpm.error
  /\ dpm.pc = "started" /\ ~dpm.error => lists.prepared = <<>> /\ lists.dpm = <<>>
  /\ dpm.pc = "off" => lists.suspended = <<>>

(* The device that dpm itself works on.                                    *)
CurInv ==
  /\ dpm.pc = "suspend_dev" => /\ lists.prepared # <<>>
                               /\ dpm.cur = Last(lists.prepared) /\ dpm.cur \notin Async
                               /\ dpm.error => thread[dpm.cur] = "none" /\ dpm.cur \notin is_suspended
  /\ dpm.pc = "resume_dev" => /\ lists.suspended # <<>>
                              /\ dpm.cur = Head(lists.suspended) /\ dpm.cur \notin Async
                              /\ thread[dpm.cur] = "none" => dpm.cur \notin is_suspended
  /\ dpm.pc \notin {"suspend_dev", "resume_dev"} => dpm.cur = None
  /\ dpm.pc \in {"prepare", "suspend"} => ~dpm.error

(* Threads run in their phase only; a device without async_suspend has one *)
(* only while dpm waits for it.                                            *)
ThreadInv == \A d \in Device :
  /\ thread[d] \in SuspendStates =>
       /\ dpm.pc \in SuspendPcs
       /\ IF d \in Async THEN d \in ToSet(lists.suspended)
                         ELSE dpm.pc = "suspend_dev" /\ dpm.cur = d
       /\ Children(d) \subseteq ToSet(lists.suspended)
       /\ d \notin completion /\ d \notin is_suspended
  /\ thread[d] \in ResumeStates =>
       /\ dpm.pc \in ResumePcs
       /\ d \notin Async => dpm.pc = "resume_dev" /\ dpm.cur = d
  /\ thread[d] = "resume_callback" => d \in is_suspended

(* Which devices are suspended: in the suspend phase those that were       *)
(* reached, unless something failed; in the resume phase those that are    *)
(* still to come or have a thread.                                         *)
SuspendedInv ==
  /\ dpm.pc \in {"idle", "prepare", "resumed"} => is_suspended = {}
  /\ dpm.pc \notin ResumePcs =>
       is_suspended \subseteq ToSet(lists.suspended) \cup ToSet(lists.noirq) \cup {dpm.cur}
  /\ dpm.pc \in SuspendPcs /\ ~async_error =>
       \A d \in ToSet(lists.suspended) \cup {dpm.cur} :
         d \in Device /\ thread[d] = "none" => d \in is_suspended
  /\ dpm.pc = "started" /\ ~dpm.error => is_suspended = Device
  /\ dpm.pc \in {"suspend_noirq", "suspend_noirq_loop", "off"} => is_suspended = Device
  /\ dpm.pc \in ResumePcs => \A d \in is_suspended :
       /\ d \notin completion
       /\ IF d \in Async THEN thread[d] \in ResumeStates ELSE d \in ToSet(lists.suspended)

(* Parents and children.                                                   *)
TreeInv == \A d \in Device : \A c \in Children(d) :
  /\ d \in is_suspended => c \in is_suspended
  /\ thread[d] \in {"barrier", "callback"} => c \in is_suspended
  /\ thread[c] = "resume_callback" => d \notin is_suspended

(* A runtime PM reference is held for a device from pm_runtime_get to the  *)
(* end of device_resume.                                                   *)
UsageInv == \A d \in Device :
  usage[d] = IF thread[d] \in {"barrier", "callback"} \/ d \in is_suspended THEN 1 ELSE 0

DeviceInv == OrderInv /\ EmptyInv /\ CurInv /\ ThreadInv /\ SuspendedInv /\ TreeInv /\ UsageInv

(***************************************************************************)
(* The M3.                                                                 *)
(***************************************************************************)

ResetPcs == {"reset", "reset_state", "reset_send", "reset_wait"}
SinceBegin == {"devices", "noirq", "asleep", "waking", "resume"}

(* However many answers come too late, one is left over at most, and a     *)
(* second one only while a message of its own is waited for.               *)
AnswerInv == LateAnswers <= IF m3call.pc \in {"lp_wait", "reset_wait"} THEN 2 ELSE 1

(* Where the callbacks can be, and which command they have left.           *)
CallInv ==
  /\ m3call.pc # "none" <=> pc \in {"beginning", "ending"}
  /\ m3call.pc \notin ResetPcs => m3call.next = "none"
  /\ m3call.pc \in {"none", "lp_state", "lp_send"} => m3call.ret = 0
  /\ pc = "beginning" => \/ m3call.pc \in {"lp_state", "lp_send", "lp_wait", "done"}
                         \/ /\ m3call.pc \in ResetPcs /\ m3call.ret = -1
                            /\ m3call.next \in {"lp_wait", "done"}
  /\ pc = "ending" => \/ m3call.pc \in {"end", "done"}
                      \/ m3call.pc \in ResetPcs /\ m3call.next = "end"
  /\ pc \in {"user", "freeze_user", "freeze_kernel", "begin", "thaw"} => ipc = "reset"
  /\ pc = "ending" /\ m3call.pc # "reset" => ipc = "reset"
  /\ hlt = IF \/ pc \in SinceBegin \cup {"beginning", "close"}
              \/ pc = "ending" /\ m3call.pc # "done" THEN 1 ELSE 0

(* A begin that found nothing of an earlier message: the only answer there *)
(* can be is that to its own, so when it has returned 0 the M3 has read    *)
(* the command, and has nothing to answer until end.                       *)
FreshInv == ~stale =>
  /\ m3call.pc \in {"lp_state", "lp_send"} => ipc = "lp" /\ LateAnswers = 0
  /\ m3call.pc = "lp_wait" /\ m3call.ret = 0 =>
       /\ ipc = "lp" /\ LateAnswers <= 1
       /\ m3.txev \/ a8_m3_sync > 0 => m3.mode = "lp"
  /\ pc \in SinceBegin \/ (pc = "beginning" /\ m3call.pc = "done" /\ m3call.ret = 0) =>
       m3.mode = "lp" /\ LateAnswers = 0

(***************************************************************************)
(* The transition.                                                         *)
(***************************************************************************)

PhaseInv ==
  /\ pc \in {"user", "freeze_user", "freeze_kernel", "begin", "beginning", "close", "ending",
             "thaw"} => dpm.pc = "idle"
  /\ pc = "devices" => dpm.pc \in SuspendPcs \cup {"prepare", "started"}
  /\ pc = "noirq" => dpm.pc \in NoirqPcs \cup {"suspend_noirq", "woken"}
  /\ pc = "asleep" => dpm.pc = "off"
  /\ pc = "waking" => dpm.pc \in {"resume_noirq", "woken"}
  /\ pc = "resume" => dpm.pc \in ResumePcs \cup {"resume", "resumed"}

SysInv ==
  /\ sys.pads = "sleep" <=> pc \in {"noirq", "asleep", "waking"}
  /\ pc \notin {"user", "freeze_user", "thaw"} => sys.frozen
  /\ pc \in {"user", "freeze_user"} => ~sys.frozen
  /\ pc = "user" => ~sys.usermodehelper_disabled
  /\ lines = "suspended" <=> dpm.pc \in NoirqPcs
  /\ lines = "enabled" => \A s \in Sources : irq[s] \in {"none", "raised"}

IInv == /\ TypeOK /\ WakeupInv /\ DeviceInv /\ AnswerInv /\ CallInv /\ FreshInv /\ PhaseInv /\ SysInv
        /\ NoWakeupLost

-----------------------------------------------------------------------------
(***************************************************************************)
(* Arithmetic of the counter word.                                         *)
(***************************************************************************)

(* Division with remainder, and its uniqueness.                            *)
LEMMA DivMod ==
  ASSUME NEW I \in Nat, I > 0, NEW w \in Nat
  PROVE  \E q \in Nat : \E r \in 0..(I - 1) : q = w \div I /\ r = w % I /\ w = I * q + r
<1>1. w \div I \in Nat
  OBVIOUS
<1>2. w % I \in 0..(I - 1)
  OBVIOUS
<1>3. ASSUME NEW q \in Int, NEW r \in Int, q = w \div I, r = w % I PROVE w = I * q + r
  BY <1>3
<1> QED
  BY <1>1, <1>2, <1>3

LEMMA DivModUnique ==
  ASSUME NEW I \in Nat, I > 0, NEW q \in Nat, NEW r \in 0..(I - 1), NEW w \in Nat, w = I * q + r
  PROVE  w \div I = q /\ w % I = r
OBVIOUS

LEMMA ProductMonotone ==
  ASSUME NEW I \in Nat, NEW a \in Nat, NEW b \in Nat, a <= b
  PROVE  I * a \in Nat /\ I * b \in Nat /\ I * a <= I * b
<1>1. PICK m \in Nat : b = a + m
  <2>1. b - a \in Nat /\ b = a + (b - a)
    OBVIOUS
  <2> QED
    BY <2>1
<1>2. I * b = I * a + I * m /\ I * m \in Nat /\ I * a \in Nat
  BY <1>1
<1> QED
  BY <1>2

(* The two halves of a word below C * I, which wraps there.                *)
LEMMA WordHalves ==
  ASSUME NEW C \in Nat, NEW I \in Nat, C > 0, I > 0, NEW w \in 0..(C * I - 1)
  PROVE  \E q \in 0..(C - 1) : \E r \in 0..(I - 1) : q = w \div I /\ r = w % I /\ w = I * q + r
<1>1. w \in Nat /\ C * I \in Nat /\ C * I = I * C
  OBVIOUS
<1>2. PICK q \in Nat, r \in 0..(I - 1) : q = w \div I /\ r = w % I /\ w = I * q + r
  BY <1>1, DivMod
<1>3. q < C
  <2> SUFFICES ASSUME C <= q PROVE FALSE
    OBVIOUS
  <2>1. I * C <= I * q
    BY ProductMonotone
  <2> QED
    BY <1>1, <1>2, <2>1
<1> QED
  BY <1>2, <1>3

LEMMA WordBuilt ==
  ASSUME NEW C \in Nat, NEW I \in Nat, C > 0, I > 0,
         NEW q \in 0..(C - 1), NEW r \in 0..(I - 1), NEW w \in Nat, w = I * q + r
  PROVE  w \in 0..(C * I - 1) /\ w % (C * I) = w /\ w \div I = q /\ w % I = r
<1>1. w \div I = q /\ w % I = r
  BY DivModUnique
<1>2. I * (q + 1) <= I * C /\ I * C \in Nat
  BY ProductMonotone
<1>3. I * (q + 1) = I * q + I /\ C * I = I * C
  OBVIOUS
<1>4. w < C * I /\ C * I \in Nat
  BY <1>2, <1>3
<1>5. w % (C * I) = w
  <2>1. C * I > 0 /\ w \in 0..(C * I - 1) /\ w = (C * I) * 0 + w
    BY <1>4
  <2> QED
    BY <1>4, <2>1, DivModUnique
<1> QED
  BY <1>1, <1>4, <1>5

(* Adding one event in progress, and turning one into a registered event.  *)
LEMMA WordUp ==
  ASSUME NEW C \in Nat, NEW I \in Nat, C > 0, I > 0, NEW w \in 0..(C * I - 1), (w % I) + 1 < I
  PROVE  LET v == (w + 1) % (C * I)
         IN  v \in 0..(C * I - 1) /\ v % I = (w % I) + 1 /\ v \div I = w \div I
<1>1. PICK q \in 0..(C - 1), r \in 0..(I - 1) : q = w \div I /\ r = w % I /\ w = I * q + r
  BY WordHalves
<1>2. r + 1 \in 0..(I - 1) /\ w + 1 \in Nat /\ w + 1 = I * q + (r + 1)
  BY <1>1
<1>3. w + 1 \in 0..(C * I - 1) /\ (w + 1) % (C * I) = w + 1 /\ (w + 1) \div I = q /\ (w + 1) % I = r + 1
  BY <1>2, WordBuilt
<1> QED
  BY <1>1, <1>3

LEMMA WordDown ==
  ASSUME NEW C \in Nat, NEW I \in Nat, C > 0, I > 0, NEW w \in 0..(C * I - 1), w % I > 0
  PROVE  LET v == (w + I - 1) % (C * I)
         IN  v \in 0..(C * I - 1) /\ v % I = (w % I) - 1 /\ v \div I = (w \div I + 1) % C
<1>1. PICK q \in 0..(C - 1), r \in 0..(I - 1) : q = w \div I /\ r = w % I /\ w = I * q + r
  BY WordHalves
<1>2. r - 1 \in 0..(I - 1) /\ w + I - 1 \in Nat /\ w + I - 1 = I * (q + 1) + (r - 1)
  BY <1>1
<1>3. CASE q + 1 < C
  <2>1. q + 1 \in 0..(C - 1)
    BY <1>3
  <2>2. /\ w + I - 1 \in 0..(C * I - 1) /\ (w + I - 1) % (C * I) = w + I - 1
        /\ (w + I - 1) \div I = q + 1 /\ (w + I - 1) % I = r - 1
    BY <1>2, <2>1, WordBuilt
  <2>3. (q + 1) % C = q + 1
    <3>1. q + 1 \in Nat /\ q + 1 = C * 0 + (q + 1)
      BY <2>1
    <3> QED
      BY <2>1, <3>1, DivModUnique
  <2> QED
    BY <1>1, <2>2, <2>3
<1>4. CASE q + 1 = C
  <2>1. C * I \in Nat /\ C * I > 0 /\ w + I - 1 = (C * I) * 1 + (r - 1)
    <3>1. C * I = I * (q + 1) /\ I * C \in Nat /\ C * I = I * C
      BY <1>4
    <3>2. I * 1 <= I * C
      BY ProductMonotone
    <3> QED
      BY <1>2, <3>1, <3>2
  <2>2. I * 1 <= I * C /\ C * I = I * C
    BY ProductMonotone
  <2>3. r - 1 \in 0..(C * I - 1)
    BY <1>2, <2>1, <2>2
  <2>4. (w + I - 1) % (C * I) = r - 1
    BY <1>2, <2>1, <2>3, DivModUnique
  <2>5. 0 \in 0..(C - 1) /\ r - 1 \in Nat /\ r - 1 = I * 0 + (r - 1)
    BY <1>2
  <2>6. (r - 1) \div I = 0 /\ (r - 1) % I = r - 1
    BY <1>2, <2>5, DivModUnique
  <2>7. (q + 1) % C = 0
    <3>1. C = C * 1 + 0 /\ 0 \in 0..(C - 1) /\ 1 \in Nat /\ C \in Nat
      OBVIOUS
    <3>2. C % C = 0
      BY <3>1, DivModUnique
    <3> QED
      BY <1>4, <3>2
  <2> QED
    BY <1>1, <2>3, <2>4, <2>6, <2>7
<1> QED
  BY <1>3, <1>4

(* Counting on from a remainder, and telling fewer than C steps apart.     *)
LEMMA ModSucc ==
  ASSUME NEW C \in Nat, C > 0, NEW x \in Nat
  PROVE  ((x % C) + 1) % C = (x + 1) % C
<1>1. PICK q \in Nat, r \in 0..(C - 1) : q = x \div C /\ r = x % C /\ x = C * q + r
  BY DivMod
<1>2. CASE r + 1 < C
  <2>1. r + 1 \in 0..(C - 1) /\ r + 1 \in Nat /\ r + 1 = C * 0 + (r + 1)
        /\ x + 1 \in Nat /\ x + 1 = C * q + (r + 1)
    BY <1>1, <1>2
  <2>2. (r + 1) % C = r + 1
    BY <2>1, DivModUnique
  <2>3. (x + 1) % C = r + 1
    BY <2>1, DivModUnique
  <2> QED
    BY <1>1, <2>2, <2>3
<1>3. CASE r + 1 = C
  <2>1. /\ 0 \in 0..(C - 1) /\ C = C * 1 + 0 /\ 1 \in Nat /\ q + 1 \in Nat
        /\ x + 1 \in Nat /\ x + 1 = C * (q + 1) + 0
    BY <1>1, <1>3
  <2>2. C % C = 0
    BY <2>1, DivModUnique
  <2>3. (x + 1) % C = 0
    BY <2>1, DivModUnique
  <2> QED
    BY <1>1, <1>3, <2>2, <2>3
<1> QED
  BY <1>1, <1>2, <1>3

LEMMA ModSmall ==
  ASSUME NEW C \in Nat, C > 0, NEW b \in 0..(C - 1)
  PROVE  b % C = b
<1>1. b \in Nat /\ b = C * 0 + b
  OBVIOUS
<1> QED
  BY <1>1, DivModUnique

LEMMA ModDistinct ==
  ASSUME NEW C \in Nat, C > 0, NEW b \in 0..(C - 1), NEW k \in 0..(C - 1), (b + k) % C = b
  PROVE  k = 0
<1>1. CASE b + k < C
  <2>1. b + k \in 0..(C - 1)
    BY <1>1
  <2>2. (b + k) % C = b + k
    BY <2>1, ModSmall
  <2> QED
    BY <2>2
<1>2. CASE b + k >= C
  <2>1. b + k - C \in 0..(C - 1) /\ b + k \in Nat /\ b + k = C * 1 + (b + k - C)
    BY <1>2
  <2>2. (b + k) % C = b + k - C
    BY <2>1, DivModUnique
  <2> QED
    BY <2>2
<1> QED
  BY <1>1, <1>2

-----------------------------------------------------------------------------
(***************************************************************************)
(* The functions of one source.                                            *)
(***************************************************************************)

SourceType == [active : BOOLEAN, owed : 0..1, timer : BOOLEAN,
               state : {"attached", "detached", "none"}]

Owes(r) == r.owed = IF r.active THEN 1 ELSE 0

(* What a function of the source s returns: it starts up events and ends   *)
(* down, in the counter as in the source.                                  *)
Settled(s, x, up, down) ==
  /\ x.ws \in SourceType /\ x.ws.state = ws[s].state
  /\ Owes(x.ws) /\ x.ws.owed = ws[s].owed + up - down
  /\ x.count \in 0..(Word - 1)
  /\ Inpr(x.count) = Inpr(combined_event_count) + up - down
  /\ Cnt(x.count) = (Cnt(combined_event_count) + down) % CountMod

(* The counter and the history move by up, down and events.                *)
Moved(up, down, events) ==
  /\ Inpr(combined_event_count)' = Inpr(combined_event_count) + up - down
  /\ Cnt(combined_event_count)' = (Cnt(combined_event_count) + down) % CountMod
  /\ since' = since + events
  /\ up <= events
  /\ events > 0 => up > 0 \/ Inpr(combined_event_count) > 0

LEMMA CounterType ==
  ASSUME WakeupTypeOK
  PROVE  /\ CountMod \in Nat /\ CountMod > 0 /\ InprMod \in Nat /\ InprMod > 0
         /\ IsFiniteSet(Sources) /\ IsFiniteSet(Active) /\ Cardinality(Active) \in Nat
         /\ Cardinality(Active) < InprMod
         /\ Inpr(combined_event_count) \in Nat /\ Cnt(combined_event_count) \in 0..(CountMod - 1)
<1>1. /\ CountMod \in Nat /\ CountMod > 0 /\ InprMod \in Nat /\ IsFiniteSet(Sources)
      /\ Cardinality(Sources) < InprMod
  BY WakeupAssumption
<1>2. Active \in SUBSET Sources
  BY DEF Active
<1>3. IsFiniteSet(Active) /\ Cardinality(Active) <= Cardinality(Sources)
  BY <1>1, <1>2, FS_Subset
<1>4. Cardinality(Active) \in Nat /\ Cardinality(Sources) \in Nat
  BY <1>1, <1>3, FS_CardinalityType
<1>5. InprMod > 0
  BY <1>1, <1>4
<1>6. combined_event_count \in 0..(CountMod * InprMod - 1)
  BY DEF WakeupTypeOK, Word
<1>7. PICK q \in 0..(CountMod - 1), r \in 0..(InprMod - 1) :
        q = combined_event_count \div InprMod /\ r = combined_event_count % InprMod
  BY <1>1, <1>5, <1>6, WordHalves
<1> QED
  BY <1>1, <1>3, <1>4, <1>5, <1>7 DEF Inpr, Cnt

(* An inactive source leaves room for one more event in progress.          *)
LEMMA RoomForOne ==
  ASSUME WakeupTypeOK, CountBalanced, NEW s \in Sources
  PROVE  /\ ~ws[s].active => Inpr(combined_event_count) + 1 < InprMod
         /\ ws[s].active => Inpr(combined_event_count) > 0
<1>1. Inpr(combined_event_count) = Cardinality(Active)
  BY DEF CountBalanced, Active
<1>2. CASE ~ws[s].active
  <2>1. s \notin Active
    BY <1>2 DEF Active
  <2>2. Cardinality(Active \cup {s}) = Cardinality(Active) + 1
    BY <2>1, CounterType, FS_AddElement
  <2>3. Active \cup {s} \in SUBSET Sources
    BY DEF Active
  <2>4. Cardinality(Active \cup {s}) <= Cardinality(Sources)
    BY <2>3, CounterType, FS_Subset
  <2>5. Cardinality(Sources) < InprMod /\ Cardinality(Sources) \in Nat
    BY WakeupAssumption, FS_CardinalityType
  <2> QED
    BY <1>1, <1>2, <2>2, <2>4, <2>5, CounterType
<1>3. CASE ws[s].active
  <2>1. s \in Active
    BY <1>3 DEF Active
  <2>2. Cardinality(Active \ {s}) = Cardinality(Active) - 1 /\ IsFiniteSet(Active \ {s})
    BY <2>1, CounterType, FS_RemoveElement
  <2>3. Cardinality(Active \ {s}) \in Nat
    BY <2>2, FS_CardinalityType
  <2> QED
    BY <1>1, <1>3, <2>2, <2>3, CounterType
<1> QED
  BY <1>2, <1>3

LEMMA Untouched ==
  ASSUME WakeupTypeOK, SourceInv, NEW s \in Sources
  PROVE  Settled(s, Source(s), 0, 0)
<1>1. ws[s] \in SourceType /\ Owes(ws[s])
  BY DEF WakeupTypeOK, SourceInv, SourceType, Owes
<1>2. Source(s).ws = ws[s] /\ Source(s).count = combined_event_count
  BY DEF Source
<1>3. Cnt(combined_event_count) % CountMod = Cnt(combined_event_count)
  BY CounterType, ModSmall
<1>4. ws[s].owed \in Int
  BY <1>1 DEF SourceType
<1> QED
  BY <1>1, <1>2, <1>3, <1>4, CounterType DEF Settled, WakeupTypeOK

LEMMA SourceStarted ==
  ASSUME NEW r \in SourceType, NEW q, q = [r EXCEPT !.active = TRUE, !.owed = 1]
  PROVE  q \in SourceType /\ q.active /\ q.owed = 1 /\ q.state = r.state
<1>1. q = [active |-> TRUE, owed |-> 1, timer |-> r.timer, state |-> r.state]
  BY DEF SourceType
<1>2. r.timer \in BOOLEAN /\ r.state \in {"attached", "detached", "none"}
  BY DEF SourceType
<1>3. 1 \in 0..1 /\ TRUE \in BOOLEAN
  OBVIOUS
<1> QED
  BY <1>1, <1>2, <1>3, Zenon DEF SourceType

LEMMA SourceEnded ==
  ASSUME NEW r \in SourceType, NEW q, q = [r EXCEPT !.active = FALSE, !.owed = 0, !.timer = FALSE]
  PROVE  q \in SourceType /\ ~q.active /\ q.owed = 0 /\ q.state = r.state
<1>1. q = [active |-> FALSE, owed |-> 0, timer |-> FALSE, state |-> r.state]
  BY DEF SourceType
<1>2. r.state \in {"attached", "detached", "none"}
  BY DEF SourceType
<1>3. 0 \in 0..1 /\ FALSE \in BOOLEAN
  OBVIOUS
<1> QED
  BY <1>1, <1>2, <1>3, Zenon DEF SourceType

LEMMA SourceStopped ==
  ASSUME NEW r \in SourceType, NEW q, q = [r EXCEPT !.timer = FALSE]
  PROVE  q = [active |-> r.active, owed |-> r.owed, timer |-> FALSE, state |-> r.state]
BY DEF SourceType

LEMMA StayAwakeSettled ==
  ASSUME WakeupTypeOK, SourceInv, CountBalanced, NEW s \in Sources
  PROVE  /\ ws[s].active => Settled(s, __pm_stay_awake(Source(s)), 0, 0)
         /\ ~ws[s].active => Settled(s, __pm_stay_awake(Source(s)), 1, 0)
         /\ __pm_stay_awake(Source(s)).ws.active
<1>1. ws[s] \in SourceType /\ Owes(ws[s])
  BY DEF WakeupTypeOK, SourceInv, SourceType, Owes
<1>2. Source(s).ws = ws[s] /\ Source(s).count = combined_event_count
  BY DEF Source
<1>3. CASE ws[s].active
  BY <1>2, <1>3, Untouched DEF __pm_stay_awake
<1>4. CASE ~ws[s].active
  <2> DEFINE x == __pm_stay_awake(Source(s))
  <2>1. /\ x.ws = [ws[s] EXCEPT !.active = TRUE, !.owed = @ + 1]
        /\ x.count = (combined_event_count + 1) % Word
    BY <1>2, <1>4 DEF __pm_stay_awake, wakeup_source_activate
  <2>2. /\ x.ws \in SourceType /\ x.ws.active /\ x.ws.owed = 1
        /\ x.ws.state = ws[s].state
    <3>1. ws[s].owed = 0
      BY <1>1, <1>4 DEF Owes
    <3>2. x.ws = [ws[s] EXCEPT !.active = TRUE, !.owed = 1]
      BY <1>1, <2>1, <3>1 DEF SourceType
    <3> HIDE DEF x
    <3> QED
      BY <1>1, <3>2, SourceStarted
  <2>3. combined_event_count \in 0..(CountMod * InprMod - 1) /\ (combined_event_count % InprMod) + 1 < InprMod
    BY <1>4, RoomForOne DEF WakeupTypeOK, Word, Inpr
  <2>4. /\ x.count \in 0..(CountMod * InprMod - 1)
        /\ x.count % InprMod = (combined_event_count % InprMod) + 1
        /\ x.count \div InprMod = combined_event_count \div InprMod
    BY <2>1, <2>3, CounterType, WordUp DEF Word
  <2>5. Cnt(combined_event_count) % CountMod = Cnt(combined_event_count)
    BY CounterType, ModSmall
  <2>6. x.count \in 0..(Word - 1)
    BY <2>4 DEF Word
  <2>7. /\ Inpr(x.count) = Inpr(combined_event_count) + 1 - 0
        /\ Cnt(x.count) = (Cnt(combined_event_count) + 0) % CountMod
    BY <2>4, <2>5, CounterType DEF Inpr, Cnt
  <2> HIDE DEF x
  <2>8. Settled(s, x, 1, 0)
    <3>1. ws[s].owed = 0 /\ x.ws.owed = 0 + 1 - 0 /\ Owes(x.ws)
      BY <1>1, <1>4, <2>2 DEF Owes
    <3> QED
      BY <2>2, <2>6, <2>7, <3>1 DEF Settled
  <2> QED
    BY <1>4, <2>2, <2>8 DEF x
<1> QED
  BY <1>3, <1>4

(* Ending the event of an active source.                                   *)
LEMMA DeactivateSettled ==
  ASSUME WakeupTypeOK, NEW s \in Sources, NEW x, NEW up \in 0..1, Settled(s, x, up, 0),
         x.ws.active, Inpr(combined_event_count) + up > 0
  PROVE  Settled(s, wakeup_source_deactivate(x), up, 1) /\ ~wakeup_source_deactivate(x).ws.active
<1> DEFINE y == wakeup_source_deactivate(x)
<1>1. x.ws \in SourceType /\ x.ws.owed = 1
  BY DEF Settled, Owes
<1>2. /\ y.ws = [x.ws EXCEPT !.active = FALSE, !.owed = @ - 1, !.timer = FALSE]
      /\ y.count = (x.count + InprMod - 1) % Word
  BY <1>1 DEF wakeup_source_deactivate
<1>3. y.ws \in SourceType /\ ~y.ws.active /\ y.ws.owed = 0 /\ y.ws.state = x.ws.state
  <2>1. y.ws = [x.ws EXCEPT !.active = FALSE, !.owed = 0, !.timer = FALSE]
    BY <1>1, <1>2 DEF SourceType
  <2> HIDE DEF y
  <2> QED
    BY <1>1, <2>1, SourceEnded
<1>4. x.count \in 0..(CountMod * InprMod - 1) /\ x.count % InprMod > 0
  BY CounterType DEF Settled, Word, Inpr
<1>5. /\ y.count \in 0..(CountMod * InprMod - 1)
      /\ y.count % InprMod = (x.count % InprMod) - 1
      /\ y.count \div InprMod = (x.count \div InprMod + 1) % CountMod
  BY <1>2, <1>4, CounterType, WordDown DEF Word
<1>6. Cnt(combined_event_count) % CountMod = Cnt(combined_event_count)
  BY CounterType, ModSmall
<1>7. y.count \in 0..(Word - 1)
  BY <1>5 DEF Word
<1>8. /\ Inpr(y.count) = Inpr(combined_event_count) + up - 1
      /\ Cnt(y.count) = (Cnt(combined_event_count) + 1) % CountMod
  BY <1>5, <1>6, CounterType DEF Settled, Inpr, Cnt
<1> HIDE DEF y
<1>9. y.ws.owed = ws[s].owed + up - 1 /\ Owes(y.ws)
  <2>1. ws[s].owed \in Int
    BY DEF WakeupTypeOK
  <2>2. x.ws.owed = ws[s].owed + up - 0
    BY DEF Settled
  <2> QED
    BY <1>1, <1>3, <2>1, <2>2 DEF Owes
<1>10. y.ws.state = ws[s].state
  BY <1>3 DEF Settled
<1> QED
  BY <1>3, <1>7, <1>8, <1>9, <1>10 DEF Settled, y

LEMMA RelaxSettled ==
  ASSUME WakeupTypeOK, SourceInv, CountBalanced, NEW s \in Sources
  PROVE  /\ ~ws[s].active => Settled(s, __pm_relax(Source(s)), 0, 0)
         /\ ws[s].active => Settled(s, __pm_relax(Source(s)), 0, 1)
         /\ ~__pm_relax(Source(s)).ws.active
<1>1. Source(s).ws = ws[s] /\ Settled(s, Source(s), 0, 0)
  BY Untouched DEF Source
<1>2. CASE ~ws[s].active
  BY <1>1, <1>2 DEF __pm_relax
<1>3. CASE ws[s].active
  <2>1. Inpr(combined_event_count) + 0 > 0
    BY <1>3, RoomForOne, CounterType
  <2>2. __pm_relax(Source(s)) = wakeup_source_deactivate(Source(s))
    BY <1>1, <1>3 DEF __pm_relax
  <2>3. /\ Settled(s, wakeup_source_deactivate(Source(s)), 0, 1)
        /\ ~wakeup_source_deactivate(Source(s)).ws.active
    BY <1>1, <1>3, <2>1, DeactivateSettled
  <2> QED
    BY <1>3, <2>2, <2>3
<1> QED
  BY <1>2, <1>3

LEMMA EventNowSettled ==
  ASSUME WakeupTypeOK, SourceInv, CountBalanced, NEW s \in Sources
  PROVE  /\ ws[s].active => Settled(s, __pm_wakeup_event_now(Source(s)), 0, 1)
         /\ ~ws[s].active => Settled(s, __pm_wakeup_event_now(Source(s)), 1, 1)
<1> DEFINE x == __pm_stay_awake(Source(s))
<1>1. x.ws.active /\ __pm_wakeup_event_now(Source(s)) = wakeup_source_deactivate(x)
  BY StayAwakeSettled DEF __pm_wakeup_event_now
<1>2. ws[s].active => Settled(s, x, 0, 0)
  BY StayAwakeSettled
<1>3. ~ws[s].active => Settled(s, x, 1, 0)
  BY StayAwakeSettled
<1> HIDE DEF x
<1>4. CASE ws[s].active
  <2>1. Inpr(combined_event_count) + 0 > 0
    BY <1>4, RoomForOne, CounterType
  <2> QED
    BY <1>1, <1>2, <1>4, <2>1, DeactivateSettled
<1>5. CASE ~ws[s].active
  <2>1. Inpr(combined_event_count) + 1 > 0
    BY CounterType
  <2> QED
    BY <1>1, <1>3, <1>5, <2>1, DeactivateSettled
<1> QED
  BY <1>4, <1>5

(* Starting the timer changes nothing else.                                *)
LEMMA TimerSettled ==
  ASSUME WakeupTypeOK, NEW s \in Sources, NEW x, NEW up \in 0..1, Settled(s, x, up, 0),
         NEW y, y.ws = [x.ws EXCEPT !.timer = TRUE], y.count = x.count
  PROVE  Settled(s, y, up, 0)
<1>1. x.ws \in SourceType
  BY DEF Settled
<1>2. y.ws = [active |-> x.ws.active, owed |-> x.ws.owed, timer |-> TRUE, state |-> x.ws.state]
  BY <1>1 DEF SourceType
<1>3. /\ x.ws.active \in BOOLEAN /\ x.ws.owed \in 0..1 /\ TRUE \in BOOLEAN
      /\ x.ws.state \in {"attached", "detached", "none"}
  BY <1>1 DEF SourceType
<1>4. y.ws \in SourceType
  BY <1>2, <1>3, Zenon DEF SourceType
<1>5. y.ws.owed = x.ws.owed /\ y.ws.state = x.ws.state /\ (y.ws.active <=> x.ws.active)
  BY <1>2
<1> QED
  BY <1>4, <1>5 DEF Settled, Owes

(* A step that replaces the source s and the counter by a settled result.  *)
LEMMA SettledStep ==
  ASSUME WakeupTypeOK, SourceInv, CountBalanced, NEW s \in Sources, NEW x,
         NEW up \in 0..1, NEW down \in 0..1, Settled(s, x, up, down),
         ws[s].state = "none" => ~x.ws.active,
         ws' = [ws EXCEPT ![s] = x.ws], combined_event_count' = x.count
  PROVE  /\ ws' \in [Sources -> SourceType] /\ combined_event_count' \in 0..(Word - 1)
         /\ SourceInv' /\ CountBalanced'
         /\ Inpr(combined_event_count)' = Inpr(combined_event_count) + up - down
         /\ Cnt(combined_event_count)' = (Cnt(combined_event_count) + down) % CountMod
<1>1. ws \in [Sources -> SourceType]
  BY DEF WakeupTypeOK, SourceType
<1>2. \A t \in Sources : ws'[t] = IF t = s THEN x.ws ELSE ws[t]
  BY <1>1
<1>3. x.ws \in SourceType /\ x.ws.state = ws[s].state /\ Owes(x.ws)
  BY DEF Settled
<1>4. ws' \in [Sources -> SourceType]
  BY <1>1, <1>3
<1>5. SourceInv'
  BY <1>2, <1>3 DEF SourceInv, Owes
<1>6. combined_event_count' \in 0..(Word - 1)
  BY DEF Settled
<1>7. /\ Inpr(combined_event_count)' = Inpr(combined_event_count) + up - down
      /\ Cnt(combined_event_count)' = (Cnt(combined_event_count) + down) % CountMod
  BY DEF Settled, Inpr, Cnt
<1>8. Inpr(combined_event_count) = Cardinality(Active)
  BY DEF CountBalanced, Active
<1>9. x.ws.owed = ws[s].owed + up - down
  BY DEF Settled
<1>10. ws[s].owed = IF ws[s].active THEN 1 ELSE 0
  BY DEF SourceInv
<1>11. Cardinality(Active') = Cardinality(Active) + up - down
  <2>1. CASE ~ws[s].active /\ x.ws.active
    <3>1. Active' = Active \cup {s} /\ s \notin Active
      BY <1>2, <2>1 DEF Active
    <3>2. up - down = 1
      BY <1>3, <1>9, <1>10, <2>1 DEF Owes
    <3> QED
      BY <3>1, <3>2, CounterType, FS_AddElement
  <2>2. CASE ws[s].active /\ ~x.ws.active
    <3>1. Active' = Active \ {s} /\ s \in Active
      BY <1>2, <2>2 DEF Active
    <3>2. up - down = -1
      BY <1>3, <1>9, <1>10, <2>2 DEF Owes
    <3> QED
      BY <3>1, <3>2, CounterType, FS_RemoveElement
  <2>3. CASE ws[s].active <=> x.ws.active
    <3>1. Active' = Active
      BY <1>2, <2>3 DEF Active
    <3>2. up - down = 0
      BY <1>3, <1>9, <1>10, <2>3 DEF Owes
    <3> QED
      BY <3>1, <3>2, CounterType
  <2> QED
    BY <2>1, <2>2, <2>3
<1>12. CountBalanced'
  BY <1>7, <1>8, <1>11 DEF CountBalanced, Active
<1> QED
  BY <1>4, <1>5, <1>6, <1>7, <1>12

(* The history stays on the track of the value the counter was read as.    *)
LEMMA TrackStep ==
  ASSUME WakeupTypeOK, NEW base \in 0..(CountMod - 1), Tracks(base), since' <= MaxEvents,
         Inpr(combined_event_count)' \in Nat,
         NEW up \in 0..1, NEW down \in 0..1, NEW events \in 0..1, Moved(up, down, events)
  PROVE  \E k \in 0..MaxEvents : /\ Cnt(combined_event_count)' = (base + k) % CountMod
                                 /\ k + Inpr(combined_event_count)' <= since'
                                 /\ since' > 0 => k + Inpr(combined_event_count)' > 0
<1>1. PICK k \in 0..MaxEvents : /\ Cnt(combined_event_count) = (base + k) % CountMod
                                /\ k + Inpr(combined_event_count) <= since
                                /\ since > 0 => k + Inpr(combined_event_count) > 0
  BY DEF Tracks
<1>2. since \in Nat /\ MaxEvents \in Nat
  BY WakeupAssumption DEF WakeupTypeOK
<1>3. base + k \in Nat
  BY <1>2, CounterType
<1>4. Cnt(combined_event_count)' = (base + (k + down)) % CountMod
  <2>1. CASE down = 0
    <3>1. Cnt(combined_event_count) % CountMod = Cnt(combined_event_count)
      BY CounterType, ModSmall
    <3>2. Cnt(combined_event_count) + 0 = Cnt(combined_event_count) /\ k + 0 = k
      BY CounterType
    <3> QED
      BY <1>1, <2>1, <3>1, <3>2 DEF Moved
  <2>2. CASE down = 1
    <3>1. (((base + k) % CountMod) + 1) % CountMod = (base + k + 1) % CountMod
      BY <1>3, CounterType, ModSucc
    <3>2. base + k + 1 = base + (k + 1)
      BY <1>2, CounterType
    <3> QED
      BY <1>1, <2>2, <3>1, <3>2 DEF Moved
  <2> QED
    BY <2>1, <2>2
<1>5. k + down + Inpr(combined_event_count)' <= since'
  BY <1>1, <1>2, CounterType DEF Moved
<1>6. since' > 0 => k + down + Inpr(combined_event_count)' > 0
  BY <1>1, <1>2, CounterType DEF Moved
<1>7. k + down \in 0..MaxEvents
  <2>1. since' \in Int
    BY <1>2 DEF Moved
  <2> QED
    BY <1>2, <1>5, <2>1
<1> QED
  BY <1>4, <1>5, <1>6, <1>7

-----------------------------------------------------------------------------
(***************************************************************************)
(* The steps of the wakeup counter.                                        *)
(***************************************************************************)

(* A step keeps the sources and the counter in balance.                    *)
Balanced ==
  /\ ws' \in [Sources -> SourceType] /\ combined_event_count' \in 0..(Word - 1)
  /\ SourceInv' /\ CountBalanced'
  /\ \E up, down, events \in 0..1 : Moved(up, down, events)

LEMMA UnchangedBalanced ==
  ASSUME WakeupTypeOK, SourceInv, CountBalanced, UNCHANGED <<combined_event_count, ws, since>>
  PROVE  Balanced
<1>1. Cnt(combined_event_count) % CountMod = Cnt(combined_event_count)
  BY CounterType, ModSmall
<1>2. Moved(0, 0, 0)
  <2>1. since \in Int
    BY DEF WakeupTypeOK
  <2> QED
    BY <1>1, <2>1, CounterType DEF Moved, Inpr, Cnt
<1>3. \E up, down, events \in 0..1 : Moved(up, down, events)
  BY <1>2
<1>4. SourceInv' /\ CountBalanced'
  BY DEF SourceInv, CountBalanced, Inpr
<1> QED
  BY <1>3, <1>4 DEF Balanced, WakeupTypeOK, SourceType

LEMMA SettledBalanced ==
  ASSUME WakeupTypeOK, SourceInv, CountBalanced, NEW s \in Sources, NEW x,
         NEW up \in 0..1, NEW down \in 0..1, Settled(s, x, up, down),
         ws[s].state = "none" => ~x.ws.active,
         ws' = [ws EXCEPT ![s] = x.ws], combined_event_count' = x.count,
         NEW events \in 0..1, since' = since + events, up <= events,
         events > 0 => up > 0 \/ ws[s].active
  PROVE  Balanced
<1>1. Moved(up, down, events)
  BY SettledStep, RoomForOne, ZenonT(30) DEF Moved
<1> QED
  BY <1>1, SettledStep DEF Balanced

(* The source s changes, but neither its being active nor the counter.     *)
LEMMA QuietBalanced ==
  ASSUME WakeupTypeOK, SourceInv, CountBalanced, NEW s \in Sources, NEW r \in SourceType,
         r.active <=> ws[s].active, r.owed = ws[s].owed, r.state = "none" => ~r.active,
         ws' = [ws EXCEPT ![s] = r], UNCHANGED <<combined_event_count, since>>
  PROVE  Balanced
<1>1. ws \in [Sources -> SourceType]
  BY DEF WakeupTypeOK, SourceType
<1>2. \A t \in Sources : ws'[t] = IF t = s THEN r ELSE ws[t]
  BY <1>1
<1>3. SourceInv'
  BY <1>2 DEF SourceInv
<1>4. Active' = Active
  BY <1>2 DEF Active
<1>5. CountBalanced'
  BY <1>4 DEF CountBalanced, Active, Inpr
<1>6. Cnt(combined_event_count) % CountMod = Cnt(combined_event_count)
  BY CounterType, ModSmall
<1>7. Moved(0, 0, 0)
  <2>1. since \in Int
    BY DEF WakeupTypeOK
  <2> QED
    BY <1>6, <2>1, CounterType DEF Moved, Inpr, Cnt
<1>8. \E up, down, events \in 0..1 : Moved(up, down, events)
  BY <1>7
<1>9. ws' \in [Sources -> SourceType]
  BY <1>1
<1> QED
  BY <1>3, <1>5, <1>8, <1>9 DEF Balanced, WakeupTypeOK

LEMMA WakeupEventStep ==
  ASSUME WakeupTypeOK, SourceInv, CountBalanced, NEW s \in Sources, WakeupEvent(s)
  PROVE  Balanced /\ since' \in {since, since + 1}
<1>1. CASE ws[s].state # "attached"
  <2>1. UNCHANGED <<combined_event_count, ws, since>>
    BY <1>1 DEF WakeupEvent, OnDevice, Detected
  <2> QED
    BY <2>1, UnchangedBalanced
<1>2. CASE ws[s].state = "attached"
  <2> DEFINE y == __pm_stay_awake(Source(s))
  <2>1. PICK x \in {y, [y EXCEPT !.ws.timer = TRUE]} :
             ws' = [ws EXCEPT ![s] = x.ws] /\ combined_event_count' = x.count
    BY <1>2 DEF WakeupEvent, OnDevice, __pm_wakeup_event
  <2>2. since' = since + 1
    BY <1>2 DEF WakeupEvent, Detected
  <2>3. y = [ws |-> y.ws, count |-> y.count]
    BY DEF __pm_stay_awake, Source, wakeup_source_activate
  <2> HIDE DEF y
  <2>4. [y EXCEPT !.ws.timer = TRUE].ws = [y.ws EXCEPT !.timer = TRUE]
        /\ [y EXCEPT !.ws.timer = TRUE].count = y.count
    BY <2>3
  <2>5. ASSUME NEW up \in 0..1, Settled(s, y, up, 0) PROVE Settled(s, x, up, 0)
    BY <2>1, <2>4, <2>5, TimerSettled
  <2>6. CASE ws[s].active
    <3>1. Settled(s, x, 0, 0)
      BY <2>5, <2>6, StayAwakeSettled DEF y
    <3>2. 0 \in 0..1 /\ 1 \in 0..1 /\ 0 <= 1 /\ (1 > 0 => 0 > 0 \/ ws[s].active)
      BY <2>6
    <3>3. ws[s].state = "none" => ~x.ws.active
      BY <1>2
    <3> QED
      BY <2>1, <2>2, <3>1, <3>2, <3>3, SettledBalanced, Zenon
  <2>7. CASE ~ws[s].active
    <3>1. Settled(s, x, 1, 0)
      BY <2>5, <2>7, StayAwakeSettled DEF y
    <3>2. 0 \in 0..1 /\ 1 \in 0..1 /\ 1 <= 1 /\ (1 > 0 => 1 > 0 \/ ws[s].active)
      OBVIOUS
    <3>3. ws[s].state = "none" => ~x.ws.active
      BY <1>2
    <3> QED
      BY <2>1, <2>2, <3>1, <3>2, <3>3, SettledBalanced, Zenon
  <2> QED
    BY <2>2, <2>6, <2>7
<1> QED
  BY <1>1, <1>2

LEMMA RelaxStep ==
  ASSUME WakeupTypeOK, SourceInv, CountBalanced, NEW s \in Sources,
         ws' = [ws EXCEPT ![s] = __pm_relax(Source(s)).ws],
         combined_event_count' = __pm_relax(Source(s)).count, since' = since
  PROVE  Balanced
<1> DEFINE x == __pm_relax(Source(s))
<1>1. /\ ~ws[s].active => Settled(s, x, 0, 0)
      /\ ws[s].active => Settled(s, x, 0, 1)
      /\ ~x.ws.active
  BY RelaxSettled
<1>2. since' = since + 0
  BY DEF WakeupTypeOK
<1>3. ws' = [ws EXCEPT ![s] = x.ws] /\ combined_event_count' = x.count
  OBVIOUS
<1> HIDE DEF x
<1>4. 0 \in 0..1 /\ 1 \in 0..1 /\ 0 <= 0 /\ (0 > 0 => 0 > 0 \/ ws[s].active)
  OBVIOUS
<1>5. CASE ws[s].active
  BY <1>1, <1>2, <1>3, <1>4, <1>5, SettledBalanced, Zenon
<1>6. CASE ~ws[s].active
  BY <1>1, <1>2, <1>3, <1>4, <1>6, SettledBalanced, Zenon
<1> QED
  BY <1>5, <1>6

LEMMA TimerStep ==
  ASSUME WakeupTypeOK, SourceInv, CountBalanced, NEW s \in Sources,
         timer_expires(s) \/ (firing = s /\ pm_wakeup_timer_fn)
  PROVE  Balanced
<1>1. CASE timer_expires(s)
  <2>1. ws[s] \in SourceType
    BY DEF WakeupTypeOK, SourceType
  <2> DEFINE r == [ws[s] EXCEPT !.timer = FALSE]
  <2>2. ws' = [ws EXCEPT ![s] = r] /\ UNCHANGED <<combined_event_count, since>>
    BY <1>1 DEF timer_expires, counters
  <2>3. r = [active |-> ws[s].active, owed |-> ws[s].owed, timer |-> FALSE, state |-> ws[s].state]
    BY <2>1, SourceStopped
  <2>4. /\ ws[s].active \in BOOLEAN /\ ws[s].owed \in 0..1 /\ FALSE \in BOOLEAN
        /\ ws[s].state \in {"attached", "detached", "none"}
    BY <2>1 DEF SourceType
  <2> HIDE DEF r
  <2>5. r \in SourceType
    BY <2>3, <2>4, Zenon DEF SourceType
  <2>6. (r.active <=> ws[s].active) /\ r.owed = ws[s].owed /\ (r.state = "none" => ~r.active)
    BY <2>3 DEF SourceInv
  <2> QED
    BY <2>2, <2>5, <2>6, QuietBalanced
<1>2. CASE firing = s /\ pm_wakeup_timer_fn
  BY <1>2, RelaxStep DEF pm_wakeup_timer_fn
<1> QED
  BY <1>1, <1>2

LEMMA AttributeStep ==
  ASSUME WakeupTypeOK, SourceInv, CountBalanced, NEW s \in Sources,
         device_wakeup_enable(s) \/ device_wakeup_disable(s) \/ wakeup_source_destroy(s)
  PROVE  Balanced
<1>1. ws[s] \in SourceType
  BY DEF WakeupTypeOK, SourceType
<1>2. /\ ws[s].active \in BOOLEAN /\ ws[s].owed \in 0..1 /\ ws[s].timer \in BOOLEAN
  BY <1>1 DEF SourceType
<1>3. CASE device_wakeup_enable(s)
  <2> DEFINE r == [active |-> FALSE, owed |-> 0, timer |-> FALSE, state |-> "attached"]
  <2>1. ws' = [ws EXCEPT ![s] = r] /\ UNCHANGED <<combined_event_count, since>>
    BY <1>3 DEF device_wakeup_enable, counters
  <2>2. r \in SourceType
    <3>1. 0 \in 0..1
      OBVIOUS
    <3> QED
      BY <3>1, Zenon DEF SourceType
  <2>3. ~ws[s].active /\ ws[s].owed = 0
    BY <1>3 DEF device_wakeup_enable, SourceInv
  <2>4. (r.active <=> ws[s].active) /\ r.owed = ws[s].owed /\ (r.state = "none" => ~r.active)
    BY <2>3
  <2> HIDE DEF r
  <2> QED
    BY <2>1, <2>2, <2>4, QuietBalanced
<1>4. ASSUME NEW l \in {"detached", "none"}, ws' = [ws EXCEPT ![s].state = l],
             l = "none" => ~ws[s].active, UNCHANGED <<counters, since>>
      PROVE  Balanced
  <2> DEFINE r == [ws[s] EXCEPT !.state = l]
  <2>1. ws' = [ws EXCEPT ![s] = r] /\ UNCHANGED <<combined_event_count, since>>
    BY <1>4 DEF counters
  <2>2. r = [active |-> ws[s].active, owed |-> ws[s].owed, timer |-> ws[s].timer, state |-> l]
    BY <1>1 DEF SourceType
  <2> HIDE DEF r
  <2>3. r \in SourceType
    BY <1>2, <2>2, Zenon DEF SourceType
  <2>4. (r.active <=> ws[s].active) /\ r.owed = ws[s].owed /\ (r.state = "none" => ~r.active)
    BY <1>4, <2>2
  <2> QED
    BY <2>1, <2>3, <2>4, QuietBalanced
<1>5. CASE device_wakeup_disable(s)
  BY <1>4, <1>5 DEF device_wakeup_disable
<1>6. CASE wakeup_source_destroy(s)
  BY <1>4, <1>6 DEF wakeup_source_destroy
<1> QED
  BY <1>3, <1>5, <1>6

LEMMA PendingStep ==
  ASSUME WakeupTypeOK, SourceInv, CountBalanced, NEW d, check_pending(d)
  PROVE  /\ Balanced
         /\ since' = since \/ (since' = since + 1 /\ MoreEvents)
<1>1. CASE UNCHANGED <<ws, combined_event_count, since>>
  BY <1>1, UnchangedBalanced
<1>2. CASE /\ d \in Sources /\ ws[d].state = "attached" /\ MoreEvents
           /\ OnDevice(d, __pm_wakeup_event_now(Source(d)))
           /\ Detected(d)
  <2> DEFINE x == __pm_wakeup_event_now(Source(d))
  <2>1. d \in Sources /\ ws' = [ws EXCEPT ![d] = x.ws] /\ combined_event_count' = x.count
    BY <1>2 DEF OnDevice
  <2>2. since' = since + 1
    BY <1>2 DEF Detected
  <2>3. /\ ws[d].active => Settled(d, x, 0, 1)
        /\ ~ws[d].active => Settled(d, x, 1, 1)
    BY <2>1, EventNowSettled
  <2> HIDE DEF x
  <2>4. 0 \in 0..1 /\ 1 \in 0..1 /\ 0 <= 1 /\ 1 <= 1 /\ (1 > 0 => 1 > 0 \/ ws[d].active)
    OBVIOUS
  <2>5. ws[d].state = "none" => ~x.ws.active
    BY <1>2
  <2>6. ASSUME ws[d].active PROVE Balanced
    <3>1. 1 > 0 => 0 > 0 \/ ws[d].active
      BY <2>6
    <3> QED
      BY <2>1, <2>2, <2>3, <2>4, <2>5, <2>6, <3>1, SettledBalanced, Zenon
  <2>7. ASSUME ~ws[d].active PROVE Balanced
    BY <2>1, <2>2, <2>3, <2>4, <2>5, <2>7, SettledBalanced, Zenon
  <2> QED
    BY <1>2, <2>2, <2>6, <2>7
<1> QED
  BY <1>1, <1>2 DEF check_pending

(* What all the steps but those of user space leave alone.                 *)
Attentive ==
  /\ saved_count' = saved_count /\ user' = user
  /\ events_check_enabled' => events_check_enabled
  /\ events_check_enabled' \in BOOLEAN
  /\ pc = "user" => pc' = "user"

StillCounting == UNCHANGED <<combined_event_count, ws, since, firing>>

LEMMA DpmCounting ==
  ASSUME TypeOK, DpmStep
  PROVE  UNCHANGED wakeupVars /\ UNCHANGED <<m3Vars, sysVars>>
<1>1. UNCHANGED wakeupVars
  <2>1. CASE dpm_prepare \/ dpm_suspend \/ device_suspend \/ device_suspend_returns \/ dpm_suspend_end
    BY <2>1 DEF dpm_prepare, dpm_suspend, device_suspend, device_suspend_returns, dpm_suspend_end
  <2>2. CASE \/ suspend_sync \/ suspend_device_irqs \/ device_suspend_noirq
             \/ dpm_suspend_noirq_end \/ device_resume_noirq
    BY <2>2 DEF suspend_sync, suspend_device_irqs, device_suspend_noirq, dpm_suspend_noirq_end,
                device_resume_noirq
  <2>3. CASE \/ resume_device_irqs \/ dpm_resume \/ resume_next \/ device_resume_returns
             \/ dpm_complete
    BY <2>3 DEF resume_device_irqs, dpm_resume, resume_next, device_resume_returns, dpm_complete
  <2> QED
    BY <2>1, <2>2, <2>3 DEF DpmStep, Dpm
<1> QED
  BY <1>1 DEF DpmStep

LEMMA EnterCounting ==
  ASSUME TypeOK, EnterState \/ am33xx_pm_enter
  PROVE  StillCounting /\ Attentive /\ irq' = irq
<1> USE DEF StillCounting, Attentive, wakeupVars, counters, irqVars
<1>1. events_check_enabled \in BOOLEAN
  BY DEF TypeOK, DevicePMTypeOK, WakeupTypeOK
<1>2. CASE freeze_processes \/ freeze_kernel_threads
  <2>1. events_check_enabled' = events_check_enabled \/ events_check_enabled' = FALSE
    BY <1>2, Zenon DEF freeze_processes, freeze_kernel_threads, try_to_freeze_tasks
  <2>2. StillCounting /\ saved_count' = saved_count /\ user' = user /\ irq' = irq /\ pc # "user"
    BY <1>2 DEF freeze_processes, freeze_kernel_threads, try_to_freeze_tasks
  <2>3. (events_check_enabled' => events_check_enabled) /\ events_check_enabled' \in BOOLEAN
    <3>1. CASE events_check_enabled' = events_check_enabled
      BY <1>1, <3>1
    <3>2. CASE events_check_enabled' = FALSE
      BY <3>2
    <3> QED
      BY <2>1, <3>1, <3>2
  <2> QED
    BY <2>2, <2>3
<1>3. CASE suspend_finish \/ Begin \/ suspend_devices \/ suspend_enter
  BY <1>1, <1>3 DEF suspend_finish, Begin, suspend_devices, suspend_enter
<1>4. CASE syscore_suspend
  BY <1>1, <1>4 DEF syscore_suspend
<1>5. CASE am33xx_pm_finish \/ devices_resumed \/ Close \/ Closed
  BY <1>1, <1>5 DEF am33xx_pm_finish, devices_resumed, Close, Closed
<1>6. CASE am33xx_pm_enter
  BY <1>1, <1>6 DEF am33xx_pm_enter
<1> QED
  BY <1>2, <1>3, <1>4, <1>5, <1>6 DEF EnterState

LEMMA ThreadCounting ==
  ASSUME TypeOK, NEW d \in Device, AsyncThread(d)
  PROVE  /\ Attentive /\ irq' = irq /\ UNCHANGED <<lines, firing>>
         /\ StillCounting \/ check_pending(d)
<1> USE DEF StillCounting, Attentive, wakeupVars, counters, irqVars, sysVars
<1>1. events_check_enabled \in BOOLEAN
  BY DEF TypeOK, DevicePMTypeOK, WakeupTypeOK
<1>2. CASE wait_children(d) \/ suspend_callback(d) \/ wait_parent(d) \/ resume_callback(d)
  BY <1>1, <1>2 DEF wait_children, suspend_callback, wait_parent, resume_callback, AsyncThread
<1>3. CASE check_pending(d)
  BY <1>1, <1>3 DEF check_pending, AsyncThread
<1> QED
  BY <1>2, <1>3 DEF AsyncThread, Thread

LEMMA MoreCounting ==
  ASSUME TypeOK, M3Irq \/ M3Call \/ M3 \/ UNCHANGED vars
  PROVE  StillCounting /\ Attentive /\ irq' = irq
<1> USE DEF StillCounting, Attentive, wakeupVars, counters, irqVars, sysVars
<1>1. events_check_enabled \in BOOLEAN
  BY DEF TypeOK, DevicePMTypeOK, WakeupTypeOK
<1>2. CASE M3Irq \/ M3Call \/ M3
  BY <1>1, <1>2 DEF M3Irq, M3Call, M3
<1>3. CASE UNCHANGED vars
  BY <1>1, <1>3 DEF vars
<1> QED
  BY <1>2, <1>3

(* No step but a read of wakeup_count turns the history back, and then it  *)
(* starts again.                                                           *)
LEMMA CounterSteps ==
  ASSUME TypeOK, WakeupInv, [Next]_vars
  PROVE  /\ Balanced \/ (wakeup_count_show /\ Running)
         /\ Attentive \/ (User /\ StillCounting) \/ (wakeup_count_show /\ Running)
         /\ EventBound'
         /\ firing' \in Sources \cup {None}
<1>1. /\ WakeupTypeOK /\ SourceInv /\ CountBalanced /\ events_check_enabled \in BOOLEAN
      /\ firing \in Sources \cup {None} /\ since \in Nat /\ MaxEvents \in Nat
      /\ irq \in [Sources -> {"none", "raised", "pending", "masked"}]
  BY WakeupAssumption DEF TypeOK, DevicePMTypeOK, WakeupTypeOK, WakeupInv
<1>2. /\ IsFiniteSet(Signalled) /\ Cardinality(Signalled) \in Nat
      /\ since + Cardinality(Signalled) <= MaxEvents
      /\ MoreEvents <=> since + Cardinality(Signalled) < MaxEvents
  <2>1. Signalled \in SUBSET Sources /\ IsFiniteSet(Sources)
    BY WakeupAssumption DEF Signalled
  <2> QED
    BY <2>1, FS_Subset, FS_CardinalityType DEF WakeupInv, EventBound, MoreEvents, Signalled
<1>3. ASSUME Signalled' = Signalled, since' = since \/ (since' = since + 1 /\ MoreEvents)
      PROVE  EventBound'
  <2>1. since' + Cardinality(Signalled) <= MaxEvents
    BY <1>1, <1>2, <1>3
  <2> QED
    BY <1>3, <2>1 DEF EventBound
<1>4. ASSUME StillCounting, irq' = irq
      PROVE  Balanced /\ EventBound' /\ firing' \in Sources \cup {None}
  <2>1. Signalled' = Signalled
    BY <1>4 DEF Signalled
  <2> QED
    BY <1>1, <1>3, <1>4, <2>1, UnchangedBalanced DEF StillCounting
<1>5. ASSUME NEW s \in Sources, Raise(s), UNCHANGED <<m3Vars, sysVars>>
      PROVE  Balanced /\ Attentive /\ EventBound' /\ firing' \in Sources \cup {None}
  <2>1. /\ UNCHANGED <<combined_event_count, ws, since, firing, saved_count, events_check_enabled>>
        /\ UNCHANGED <<pc, user>>
        /\ irq' = [irq EXCEPT ![s] = "raised"] /\ irq[s] = "none" /\ MoreEvents
    BY <1>5 DEF Raise, wakeupVars, counters, sysVars
  <2>2. Signalled' = Signalled \cup {s} /\ s \notin Signalled
    BY <1>1, <2>1 DEF Signalled
  <2>3. Cardinality(Signalled') = Cardinality(Signalled) + 1
    BY <1>2, <2>2, FS_AddElement
  <2>4. since' + Cardinality(Signalled') <= MaxEvents
    BY <1>1, <1>2, <2>1, <2>3
  <2>5. Balanced
    BY <1>1, <2>1, UnchangedBalanced
  <2>6. Attentive /\ firing' \in Sources \cup {None}
    BY <1>1, <2>1 DEF Attentive
  <2> QED
    BY <2>4, <2>5, <2>6 DEF EventBound
<1>6. ASSUME NEW s \in Sources, DeviceIrq(s)
      PROVE  Balanced /\ Attentive /\ EventBound' /\ firing' \in Sources \cup {None}
  <2>1. irq[s] = "raised" /\ s \in Signalled /\ UNCHANGED <<pc, user>>
    BY <1>6 DEF DeviceIrq, handle_level_irq, handle_edge_irq, Handle, Signalled, sysVars
  <2>2. CASE lines = "enabled"
    <3>1. WakeupEvent(s) /\ irq' = [irq EXCEPT ![s] = "none"]
      BY <1>6, <2>2 DEF DeviceIrq, handle_level_irq, handle_edge_irq, Handle
    <3>2. Balanced /\ since' \in {since, since + 1}
      BY <1>1, <3>1, WakeupEventStep
    <3>3. UNCHANGED <<saved_count, events_check_enabled, firing>>
      BY <3>1 DEF WakeupEvent
    <3>4. Signalled' = Signalled \ {s}
      BY <1>1, <3>1 DEF Signalled
    <3>5. Cardinality(Signalled') = Cardinality(Signalled) - 1
      BY <1>2, <2>1, <3>4, FS_RemoveElement
    <3>6. since' + Cardinality(Signalled') <= MaxEvents
      BY <1>1, <1>2, <3>2, <3>5
    <3>7. Attentive /\ firing' \in Sources \cup {None}
      BY <1>1, <2>1, <3>3 DEF Attentive
    <3> QED
      BY <3>2, <3>6, <3>7 DEF EventBound
  <2>3. CASE lines # "enabled"
    <3>1. /\ UNCHANGED wakeupVars
          /\ irq' = [irq EXCEPT ![s] = IF s \in Level THEN "masked" ELSE "pending"]
      BY <1>6, <2>3 DEF DeviceIrq, handle_level_irq, handle_edge_irq, Handle
    <3>2. Signalled' = Signalled
      BY <1>1, <2>1, <3>1 DEF Signalled
    <3>3. EventBound'
      BY <1>3, <3>1, <3>2 DEF wakeupVars
    <3>4. Balanced
      BY <1>1, <3>1, UnchangedBalanced DEF wakeupVars, counters
    <3>5. Attentive /\ firing' \in Sources \cup {None}
      BY <1>1, <2>1, <3>1 DEF Attentive, wakeupVars, counters
    <3> QED
      BY <3>3, <3>4, <3>5
  <2> QED
    BY <2>2, <2>3
<1>7. ASSUME NEW s \in Sources, TimerSoftirq(s) \/ Relax(s) \/ Attribute(s)
      PROVE  Balanced /\ Attentive /\ EventBound' /\ firing' \in Sources \cup {None}
  <2>1. irq' = irq /\ UNCHANGED <<pc, user>>
    BY <1>7 DEF TimerSoftirq, Relax, Attribute, device_wakeup_store, irqVars, sysVars
  <2>2. Signalled' = Signalled
    BY <2>1 DEF Signalled
  <2>3. CASE TimerSoftirq(s)
    <3>1. timer_expires(s) \/ (firing = s /\ pm_wakeup_timer_fn)
      BY <2>3 DEF TimerSoftirq
    <3>2. /\ UNCHANGED <<saved_count, events_check_enabled, since>>
          /\ firing' \in Sources \cup {None}
      BY <3>1 DEF timer_expires, pm_wakeup_timer_fn, counters
    <3>3. Attentive
      BY <1>1, <2>1, <3>2 DEF Attentive
    <3> QED
      BY <1>1, <1>3, <2>2, <3>1, <3>2, <3>3, TimerStep
  <2>4. CASE Relax(s)
    <3>1. /\ UNCHANGED <<saved_count, events_check_enabled, firing, since>>
          /\ ws' = [ws EXCEPT ![s] = __pm_relax(Source(s)).ws]
          /\ combined_event_count' = __pm_relax(Source(s)).count
      BY <2>4 DEF Relax, pm_relax, OnDevice
    <3>2. Balanced
      BY <1>1, <3>1, RelaxStep
    <3>3. Attentive /\ firing' \in Sources \cup {None}
      BY <1>1, <2>1, <3>1 DEF Attentive
    <3> QED
      BY <1>3, <2>2, <3>1, <3>2, <3>3
  <2>5. CASE Attribute(s)
    <3>1. device_wakeup_enable(s) \/ device_wakeup_disable(s) \/ wakeup_source_destroy(s)
      BY <2>5 DEF Attribute, device_wakeup_store
    <3>2. UNCHANGED <<saved_count, events_check_enabled, firing, since>>
      BY <3>1 DEF device_wakeup_enable, device_wakeup_disable, wakeup_source_destroy, counters
    <3>3. Balanced
      BY <1>1, <3>1, AttributeStep
    <3>4. Attentive /\ firing' \in Sources \cup {None}
      BY <1>1, <2>1, <3>2 DEF Attentive
    <3> QED
      BY <1>3, <2>2, <3>2, <3>3, <3>4
  <2> QED
    BY <1>7, <2>3, <2>4, <2>5
<1>8. ASSUME NEW d \in Device, AsyncThread(d)
      PROVE  Balanced /\ Attentive /\ EventBound' /\ firing' \in Sources \cup {None}
  <2>1. /\ Attentive /\ irq' = irq /\ UNCHANGED <<lines, firing>>
        /\ StillCounting \/ check_pending(d)
    BY <1>8, ThreadCounting
  <2>2. CASE check_pending(d)
    <3>1. Balanced /\ (since' = since \/ (since' = since + 1 /\ MoreEvents))
      BY <1>1, <2>2, PendingStep
    <3>2. Signalled' = Signalled
      BY <2>1 DEF Signalled
    <3> QED
      BY <1>1, <1>3, <2>1, <3>1, <3>2
  <2> QED
    BY <1>4, <2>1, <2>2
<1>9. ASSUME DpmStep
      PROVE  Balanced /\ Attentive /\ EventBound' /\ firing' \in Sources \cup {None}
  <2>1. UNCHANGED wakeupVars /\ UNCHANGED sysVars
    BY <1>9, DpmCounting
  <2>2. Attentive /\ firing' \in Sources \cup {None}
    BY <1>1, <2>1 DEF Attentive, wakeupVars, counters, sysVars
  <2>3. Balanced
    BY <1>1, <2>1, UnchangedBalanced DEF wakeupVars, counters
  <2>4. Signalled' = Signalled
    <3>1. CASE resume_device_irqs
      BY <1>1, <3>1 DEF resume_device_irqs, Enabled, Signalled
    <3>2. CASE ~resume_device_irqs
      <4>1. irq' = irq
        BY <1>9, <3>2 DEF DpmStep, Dpm, irqVars, dpm_prepare, dpm_suspend, device_suspend,
           device_suspend_returns, dpm_suspend_end, suspend_sync, suspend_device_irqs,
           device_suspend_noirq, dpm_suspend_noirq_end, device_resume_noirq, dpm_resume,
           resume_next, device_resume_returns, dpm_complete
      <4> QED
        BY <4>1 DEF Signalled
    <3> QED
      BY <3>1, <3>2
  <2> QED
    BY <1>3, <2>1, <2>2, <2>3, <2>4 DEF wakeupVars
<1>10. ASSUME EnterState \/ am33xx_pm_enter \/ M3Irq \/ M3Call \/ M3 \/ UNCHANGED vars
       PROVE  Balanced /\ Attentive /\ EventBound' /\ firing' \in Sources \cup {None}
  BY <1>4, <1>10, EnterCounting, MoreCounting
<1>11. CASE User
  <2>1. CASE wakeup_count_show
    <3>1. since' = 0 /\ irq' = irq /\ firing' = firing
      BY <2>1 DEF wakeup_count_show, irqVars
    <3>2. Signalled' = Signalled
      BY <3>1 DEF Signalled
    <3>3. 0 + Cardinality(Signalled) <= MaxEvents
      BY <1>1, <1>2
    <3>4. EventBound'
      BY <3>1, <3>2, <3>3 DEF EventBound
    <3> QED
      BY <1>1, <1>11, <2>1, <3>1, <3>4 DEF User
  <2>2. CASE wakeup_count_store \/ state_store
    <3>1. StillCounting /\ irq' = irq
      BY <2>2 DEF wakeup_count_store, state_store, pm_save_wakeup_count, StillCounting, wakeupVars,
         counters, irqVars
    <3> QED
      BY <1>4, <1>11, <3>1
  <2> QED
    BY <1>11, <2>1, <2>2 DEF User
<1> QED
  BY <1>5, <1>6, <1>7, <1>8, <1>9, <1>10, <1>11 DEF Next

(* The invariant of the wakeup counter, with its types.                    *)
LEMMA WakeupKept ==
  ASSUME TypeOK, WakeupInv, [Next]_vars
  PROVE  WakeupTypeOK' /\ WakeupInv' /\ user' \in [step : {"idle", "read", "armed"}, count : 0..(CountMod - 1)]
<1>1. /\ WakeupTypeOK /\ SourceInv /\ CountBalanced /\ EventBound /\ TrackInv
      /\ user \in [step : {"idle", "read", "armed"}, count : 0..(CountMod - 1)]
      /\ since \in Nat /\ MaxEvents \in Nat /\ saved_count \in 0..(CountMod - 1)
  BY WakeupAssumption DEF TypeOK, DevicePMTypeOK, WakeupTypeOK, WakeupInv
<1>2. EventBound' /\ firing' \in Sources \cup {None}
  BY CounterSteps
<1>3. Cardinality(Signalled') \in Nat
  <2>1. Signalled' \in SUBSET Sources /\ IsFiniteSet(Sources)
    BY WakeupAssumption DEF Signalled
  <2> QED
    BY <2>1, FS_Subset, FS_CardinalityType
<1>4. ASSUME since' \in Nat PROVE since' \in 0..MaxEvents
  BY <1>1, <1>2, <1>3, <1>4 DEF EventBound
<1>5. CASE wakeup_count_show /\ Running
  <2>1. /\ UNCHANGED <<combined_event_count, saved_count, events_check_enabled, ws, pc>>
        /\ since' = 0 /\ pc = "user" /\ Inpr(combined_event_count) = 0
        /\ user' = [step |-> "read", count |-> Cnt(combined_event_count)]
    BY <1>5 DEF wakeup_count_show, counters
  <2>2. user' \in [step : {"idle", "read", "armed"}, count : 0..(CountMod - 1)]
    BY <1>1, <2>1, CounterType
  <2>3. SourceInv' /\ CountBalanced'
    BY <1>1, <2>1 DEF SourceInv, CountBalanced, Inpr
  <2>4. WakeupTypeOK'
    BY <1>1, <1>2, <1>4, <2>1 DEF WakeupTypeOK
  <2>5. Tracks(user.count)'
    <3>1. (Cnt(combined_event_count) + 0) % CountMod = Cnt(combined_event_count)
      BY <1>1, CounterType, ModSmall
    <3>2. /\ Cnt(combined_event_count)' = (user'.count + 0) % CountMod
          /\ 0 + Inpr(combined_event_count)' <= since' /\ ~(since' > 0)
      BY <2>1, <3>1 DEF Cnt, Inpr
    <3> QED
      BY <1>1, <3>2 DEF Tracks, Cnt, Inpr
  <2>6. TrackInv'
    BY <2>1, <2>5 DEF TrackInv
  <2> QED
    BY <1>2, <2>2, <2>3, <2>4, <2>6 DEF WakeupInv
<1>6. CASE User /\ StillCounting /\ ~wakeup_count_show
  <2>1. UNCHANGED <<combined_event_count, ws, since>>
    BY <1>6 DEF StillCounting
  <2>2. SourceInv' /\ CountBalanced'
    BY <1>1, <2>1 DEF SourceInv, CountBalanced, Inpr
  <2>3. \A b : Tracks(b) => Tracks(b)'
    BY <2>1 DEF Tracks, Inpr, Cnt
  <2>4. CASE wakeup_count_store
    <3>1. /\ pc = "user" /\ pc' = pc /\ user.step = "read"
          /\ events_check_enabled' = CountUnchanged(user.count)
          /\ saved_count' = IF CountUnchanged(user.count) THEN user.count ELSE saved_count
          /\ user' = [step |-> IF CountUnchanged(user.count) THEN "armed" ELSE "idle", count |-> 0]
      BY <2>4 DEF wakeup_count_store, pm_save_wakeup_count
    <3>2. events_check_enabled' \in BOOLEAN /\ saved_count' \in 0..(CountMod - 1)
      BY <1>1, <3>1 DEF CountUnchanged
    <3>3. user' \in [step : {"idle", "read", "armed"}, count : 0..(CountMod - 1)] /\ user'.step # "read"
      BY <1>1, <3>1, CounterType
    <3>4. events_check_enabled' => Tracks(saved_count)'
      <4> SUFFICES ASSUME CountUnchanged(user.count) PROVE Tracks(saved_count)'
        BY <3>1
      <4>1. saved_count' = user.count /\ Tracks(user.count)
        BY <1>1, <3>1 DEF TrackInv
      <4> QED
        BY <2>1, <4>1 DEF Tracks, Inpr, Cnt
    <3>5. TrackInv'
      BY <3>3, <3>4 DEF TrackInv
    <3>6. WakeupTypeOK'
      BY <1>1, <1>2, <2>1, <3>2 DEF WakeupTypeOK
    <3> QED
      BY <1>2, <2>2, <3>3, <3>5, <3>6 DEF WakeupInv
  <2>5. CASE state_store
    <3>1. /\ UNCHANGED <<saved_count, events_check_enabled>> /\ user.step # "read"
          /\ user' = [step |-> "idle", count |-> 0]
      BY <2>5 DEF state_store, wakeupVars, counters
    <3>2. user' \in [step : {"idle", "read", "armed"}, count : 0..(CountMod - 1)] /\ user'.step # "read"
      BY <1>1, <3>1, CounterType
    <3>3. TrackInv'
      BY <1>1, <2>1, <3>1, <3>2 DEF TrackInv, Tracks, Inpr, Cnt
    <3>4. WakeupTypeOK'
      BY <1>1, <1>2, <2>1, <3>1 DEF WakeupTypeOK
    <3> QED
      BY <1>2, <2>2, <3>2, <3>3, <3>4 DEF WakeupInv
  <2> QED
    BY <1>6, <2>4, <2>5 DEF User
<1>7. CASE Balanced /\ Attentive
  <2>1. PICK up, down, events \in 0..1 : Moved(up, down, events)
    BY <1>7 DEF Balanced
  <2>2. since' \in Nat
    BY <1>1, <2>1 DEF Moved
  <2>3. since' <= MaxEvents
    BY <1>1, <1>4, <2>2
  <2>4. /\ saved_count' = saved_count /\ user' = user /\ events_check_enabled' \in BOOLEAN
        /\ events_check_enabled' => events_check_enabled
        /\ pc = "user" => pc' = "user"
    BY <1>7 DEF Attentive
  <2>5. WakeupTypeOK'
    BY <1>1, <1>2, <1>4, <1>7, <2>2, <2>4 DEF WakeupTypeOK, Balanced, SourceType
  <2>6. (WakeupTypeOK => Inpr(combined_event_count) \in Nat)'
    BY CounterType, PTL
  <2>7. ASSUME NEW base \in 0..(CountMod - 1), Tracks(base)
        PROVE  \E k \in 0..MaxEvents : /\ Cnt(combined_event_count)' = (base + k) % CountMod
                                       /\ k + Inpr(combined_event_count)' <= since'
                                       /\ since' > 0 => k + Inpr(combined_event_count)' > 0
    BY <1>1, <2>1, <2>3, <2>5, <2>6, <2>7, TrackStep
  <2>8. user'.step = "read" => Tracks(user.count)'
    BY <1>1, <2>4, <2>7 DEF TrackInv, Tracks, Inpr, Cnt
  <2>9. user'.step # "read" /\ events_check_enabled' => Tracks(saved_count)'
    BY <1>1, <2>4, <2>7 DEF TrackInv, Tracks, Inpr, Cnt
  <2>10. TrackInv'
    BY <1>1, <2>4, <2>8, <2>9 DEF TrackInv
  <2> QED
    BY <1>1, <1>2, <1>7, <2>4, <2>5, <2>10 DEF WakeupInv, Balanced
<1> QED
  BY <1>5, <1>6, <1>7, CounterSteps DEF User

-----------------------------------------------------------------------------
(***************************************************************************)
(* Sequences: moving an element from one list to the next.                 *)
(***************************************************************************)

LEMMA ToSetElement ==
  ASSUME NEW S, NEW q \in Seq(S)
  PROVE  ToSet(q) = {q[i] : i \in 1..Len(q)} /\ ToSet(q) \subseteq S
BY DEF ToSet

LEMMA ToSetEmpty ==
  ToSet(<<>>) = {}
BY DEF ToSet

LEMMA ToSetConcat ==
  ASSUME NEW S, NEW p \in Seq(S), NEW q \in Seq(S)
  PROVE  p \o q \in Seq(S) /\ ToSet(p \o q) = ToSet(p) \cup ToSet(q)
<1>1. /\ p \o q \in Seq(S) /\ Len(p \o q) = Len(p) + Len(q)
      /\ \A i \in 1..(Len(p) + Len(q)) : (p \o q)[i] = IF i <= Len(p) THEN p[i] ELSE q[i - Len(p)]
  BY ConcatProperties
<1>2. Len(p) \in Nat /\ Len(q) \in Nat
  OBVIOUS
<1>3. ToSet(p \o q) = {(p \o q)[i] : i \in 1..(Len(p) + Len(q))}
  BY <1>1, ToSetElement
<1>4. ToSet(p) = {p[i] : i \in 1..Len(p)} /\ ToSet(q) = {q[i] : i \in 1..Len(q)}
  BY ToSetElement
<1>5. ASSUME NEW x, x \in ToSet(p \o q) PROVE x \in ToSet(p) \cup ToSet(q)
  <2>1. PICK i \in 1..(Len(p) + Len(q)) : x = (p \o q)[i]
    BY <1>3, <1>5
  <2>2. CASE i <= Len(p)
    BY <1>1, <1>2, <1>4, <2>1, <2>2
  <2>3. CASE ~(i <= Len(p))
    <3>1. i - Len(p) \in 1..Len(q) /\ x = q[i - Len(p)]
      BY <1>1, <1>2, <2>1, <2>3
    <3> QED
      BY <1>4, <3>1
  <2> QED
    BY <2>2, <2>3
<1>6. ASSUME NEW x \in ToSet(p) PROVE x \in ToSet(p \o q)
  <2>1. PICK i \in 1..Len(p) : x = p[i]
    BY <1>4
  <2>2. i \in 1..(Len(p) + Len(q)) /\ (p \o q)[i] = x
    BY <1>1, <1>2, <2>1
  <2> QED
    BY <1>3, <2>2
<1>7. ASSUME NEW x \in ToSet(q) PROVE x \in ToSet(p \o q)
  <2>1. PICK i \in 1..Len(q) : x = q[i]
    BY <1>4
  <2>2. /\ Len(p) + i \in 1..(Len(p) + Len(q)) /\ ~(Len(p) + i <= Len(p))
        /\ Len(p) + i - Len(p) = i
    BY <1>2
  <2>3. (p \o q)[Len(p) + i] = x
    BY <1>1, <2>1, <2>2
  <2> QED
    BY <1>3, <2>2, <2>3
<1> QED
  BY <1>1, <1>5, <1>6, <1>7

LEMMA ToSetSingle ==
  ASSUME NEW S, NEW x \in S
  PROVE  <<x>> \in Seq(S) /\ ToSet(<<x>>) = {x}
BY DEF ToSet

LEMMA LastSplit ==
  ASSUME NEW S, NEW p \in Seq(S), p # <<>>
  PROVE  /\ Front(p) \in Seq(S) /\ Last(p) \in S /\ p = Front(p) \o <<Last(p)>>
         /\ ToSet(p) = ToSet(Front(p)) \cup {Last(p)}
<1>1. Len(p) \in Nat \ {0} /\ Len(p) \in 1..Len(p) /\ 1 \in 1..Len(p) /\ Len(p) \in 1..Len(p)
  BY EmptySeq
<1>2. Last(p) \in S
  BY <1>1, ElementOfSeq DEF Last
<1>3. Front(p) \in Seq(S)
  <2>1. \A i \in 1..(Len(p) - 1) : p[i] \in S
    BY <1>1, ElementOfSeq
  <2> QED
    BY <1>1, <2>1, SubSeqProperties DEF Front
<1>4. p = Front(p) \o <<Last(p)>>
  <2>1. SubSeq(p, 1, Len(p)) = SubSeq(p, 1, Len(p) - 1) \o <<p[Len(p)]>>
    BY <1>1, SubSeqRecursiveSecond
  <2> QED
    BY <2>1, SubSeqFull DEF Front, Last
<1>5. ToSet(Front(p) \o <<Last(p)>>) = ToSet(Front(p)) \cup {Last(p)}
  <2>1. <<Last(p)>> \in Seq(S)
    BY <1>2, ToSetSingle
  <2>2. ToSet(Front(p) \o <<Last(p)>>) = ToSet(Front(p)) \cup ToSet(<<Last(p)>>)
    BY <1>3, <2>1, ToSetConcat, ZenonT(30)
  <2>3. ToSet(<<Last(p)>>) = {Last(p)}
    BY <1>2, ToSetSingle
  <2> QED
    BY <2>2, <2>3
<1> QED
  BY <1>2, <1>3, <1>4, <1>5

LEMMA HeadSplit ==
  ASSUME NEW S, NEW q \in Seq(S), q # <<>>
  PROVE  /\ Tail(q) \in Seq(S) /\ Head(q) \in S /\ q = <<Head(q)>> \o Tail(q)
         /\ ToSet(q) = {Head(q)} \cup ToSet(Tail(q))
<1>1. Len(q) \in Nat \ {0} /\ 1 \in 1..Len(q) /\ Len(q) \in 1..Len(q)
  BY EmptySeq
<1>2. Tail(q) \in Seq(S) /\ Head(q) \in S
  BY HeadTailProperties
<1>3. q = <<Head(q)>> \o Tail(q)
  <2>1. SubSeq(q, 1, Len(q)) = <<q[1]>> \o SubSeq(q, 2, Len(q))
    BY <1>1, SubSeqRecursiveFirst
  <2>2. q[1] = Head(q)
    OBVIOUS
  <2> QED
    BY <2>1, <2>2, SubSeqFull, TailIsSubSeq
<1>4. ToSet(<<Head(q)>> \o Tail(q)) = {Head(q)} \cup ToSet(Tail(q))
  <2>1. <<Head(q)>> \in Seq(S)
    BY <1>2, ToSetSingle
  <2>2. ToSet(<<Head(q)>> \o Tail(q)) = ToSet(<<Head(q)>>) \cup ToSet(Tail(q))
    BY <1>2, <2>1, ToSetConcat, ZenonT(30)
  <2>3. ToSet(<<Head(q)>>) = {Head(q)}
    BY <1>2, ToSetSingle
  <2> QED
    BY <2>2, <2>3
<1> QED
  BY <1>2, <1>3, <1>4

LEMMA HeadConcat ==
  ASSUME NEW S, NEW p \in Seq(S), NEW q \in Seq(S), p # <<>>
  PROVE  p \o q \in Seq(S) /\ p \o q # <<>> /\ Head(p \o q) = Head(p)
<1>1. Len(p) \in Nat \ {0} /\ Len(q) \in Nat
  BY EmptySeq
<1>2. /\ p \o q \in Seq(S) /\ Len(p \o q) = Len(p) + Len(q)
      /\ \A i \in 1..(Len(p) + Len(q)) : (p \o q)[i] = IF i <= Len(p) THEN p[i] ELSE q[i - Len(p)]
  BY ConcatProperties
<1>3. 1 \in 1..(Len(p) + Len(q)) /\ 1 <= Len(p)
  BY <1>1
<1>4. (p \o q)[1] = p[1]
  BY <1>2, <1>3
<1>5. Len(p \o q) # 0
  BY <1>1, <1>2
<1> DEFINE r == p \o q
<1>6. r \in Seq(S) /\ Len(r) # 0 /\ r[1] = p[1]
  BY <1>2, <1>4, <1>5
<1> HIDE DEF r
<1>7. r # <<>> /\ Head(r) = r[1] /\ Head(p) = p[1]
  BY <1>6
<1> QED
  BY <1>6, <1>7 DEF r

(* The last element of p goes to the front of q.                           *)
LEMMA LastMoved ==
  ASSUME NEW S, NEW p \in Seq(S), NEW q \in Seq(S), p # <<>>
  PROVE  /\ <<Last(p)>> \o q \in Seq(S)
         /\ Front(p) \o (<<Last(p)>> \o q) = p \o q
         /\ ToSet(<<Last(p)>> \o q) = ToSet(q) \cup {Last(p)}
<1>1. Front(p) \in Seq(S) /\ <<Last(p)>> \in Seq(S) /\ p = Front(p) \o <<Last(p)>>
  BY LastSplit, ToSetSingle
<1>2. (Front(p) \o <<Last(p)>>) \o q = Front(p) \o (<<Last(p)>> \o q)
  BY <1>1, ConcatAssociative, SMTT(30)
<1>3. <<Last(p)>> \o q \in Seq(S) /\ ToSet(<<Last(p)>> \o q) = ToSet(<<Last(p)>>) \cup ToSet(q)
  BY <1>1, ToSetConcat, ZenonT(30)
<1>4. ToSet(<<Last(p)>>) = {Last(p)}
  BY LastSplit, ToSetSingle
<1> QED
  BY <1>1, <1>2, <1>3, <1>4

(* The first element of q goes to the end of p.                            *)
LEMMA FirstMoved ==
  ASSUME NEW S, NEW p \in Seq(S), NEW q \in Seq(S), q # <<>>
  PROVE  /\ Append(p, Head(q)) \in Seq(S)
         /\ Append(p, Head(q)) \o Tail(q) = p \o q
         /\ ToSet(Append(p, Head(q))) = ToSet(p) \cup {Head(q)}
<1>1. Tail(q) \in Seq(S) /\ <<Head(q)>> \in Seq(S) /\ q = <<Head(q)>> \o Tail(q)
  BY HeadSplit, ToSetSingle
<1>2. Append(p, Head(q)) = p \o <<Head(q)>>
  BY HeadSplit, AppendIsConcat
<1>3. (p \o <<Head(q)>>) \o Tail(q) = p \o (<<Head(q)>> \o Tail(q))
  BY <1>1, ConcatAssociative
<1>4. p \o <<Head(q)>> \in Seq(S) /\ ToSet(p \o <<Head(q)>>) = ToSet(p) \cup ToSet(<<Head(q)>>)
  BY <1>1, ToSetConcat, ZenonT(30)
<1>5. ToSet(<<Head(q)>>) = {Head(q)}
  BY HeadSplit, ToSetSingle
<1> QED
  BY <1>1, <1>2, <1>3, <1>4, <1>5

-----------------------------------------------------------------------------
(***************************************************************************)
(* The lists and the device tree.                                          *)
(***************************************************************************)

LEMMA PartsApart ==
  ASSUME NEW p \in Seq(Device), NEW r \in Seq(Device), p \o r = Devices
  PROVE  ToSet(p) \cap ToSet(r) = {}
<1> SUFFICES ASSUME NEW x \in ToSet(p), x \in ToSet(r) PROVE FALSE
  OBVIOUS
<1>1. PICK i \in 1..Len(p) : x = p[i]
  BY ToSetElement
<1>2. PICK j \in 1..Len(r) : x = r[j]
  BY ToSetElement
<1>3. Len(p) \in Nat /\ Len(r) \in Nat
  OBVIOUS
<1>4. /\ Len(Devices) = Len(p) + Len(r)
      /\ \A k \in 1..(Len(p) + Len(r)) : Devices[k] = IF k <= Len(p) THEN p[k] ELSE r[k - Len(p)]
  BY ConcatProperties
<1>5. i \in 1..Len(Devices) /\ Devices[i] = x
  BY <1>1, <1>3, <1>4
<1>6. /\ Len(p) + j \in 1..(Len(p) + Len(r)) /\ ~(Len(p) + j <= Len(p))
      /\ Len(p) + j - Len(p) = j
  BY <1>3
<1>7. Len(p) + j \in 1..Len(Devices) /\ Devices[Len(p) + j] = x
  BY <1>2, <1>4, <1>6
<1>8. i = Len(p) + j
  BY <1>5, <1>7, DevicePMAssumption
<1> QED
  BY <1>3, <1>8

(* A parent is registered before its children.                             *)
LEMMA ParentFirst ==
  ASSUME NEW i \in 1..Len(Devices), Parent[Devices[i]] # None
  PROVE  \E j \in 1..(i - 1) : Devices[j] = Parent[Devices[i]]
<1>1. Devices \in Seq(Device) /\ Len(Devices) \in Nat
  BY DevicePMAssumption
<1>2. Parent[Devices[i]] \in ToSet(SubSeq(Devices, 1, i - 1))
  BY DevicePMAssumption
<1>3. \A k \in 1..(i - 1) : Devices[k] \in Device
  BY <1>1, ElementOfSeq
<1>4. /\ SubSeq(Devices, 1, i - 1) \in Seq(Device)
      /\ Len(SubSeq(Devices, 1, i - 1)) = i - 1
      /\ \A k \in 1..(i - 1) : SubSeq(Devices, 1, i - 1)[k] = Devices[k]
  <2>1. /\ SubSeq(Devices, 1, i - 1) \in Seq(Device)
        /\ Len(SubSeq(Devices, 1, i - 1)) = IF 1 <= i - 1 THEN (i - 1) - 1 + 1 ELSE 0
        /\ \A k \in 1..((i - 1) - 1 + 1) : SubSeq(Devices, 1, i - 1)[k] = Devices[1 + k - 1]
    BY <1>1, <1>3, SubSeqProperties
  <2>2. (i - 1) - 1 + 1 = i - 1 /\ \A k \in 1..(i - 1) : 1 + k - 1 = k
    BY <1>1
  <2>3. Len(SubSeq(Devices, 1, i - 1)) = i - 1
    BY <1>1, <2>1
  <2> QED
    BY <2>1, <2>2, <2>3
<1> DEFINE q == SubSeq(Devices, 1, i - 1)
<1> HIDE DEF q
<1>5. ToSet(q) = {q[k] : k \in 1..Len(q)}
  <2>1. q \in Seq(Device)
    BY <1>4 DEF q
  <2> QED
    BY <2>1, ToSetElement
<1> QED
  BY <1>2, <1>4, <1>5 DEF q

LEMMA DeviceIndex ==
  ASSUME NEW d \in Device
  PROVE  \E i \in 1..Len(Devices) : Devices[i] = d
BY DevicePMAssumption, ToSetElement DEF Device

LEMMA ChildrenLater ==
  ASSUME NEW p \in Seq(Device), NEW r \in Seq(Device), p # <<>>, p \o r = Devices
  PROVE  Children(Last(p)) \subseteq ToSet(r)
<1> SUFFICES ASSUME NEW c \in Children(Last(p)) PROVE c \in ToSet(r)
  OBVIOUS
<1>1. Len(p) \in Nat \ {0} /\ Len(r) \in Nat /\ Len(p) \in 1..Len(p)
  BY EmptySeq
<1>2. /\ Len(Devices) = Len(p) + Len(r)
      /\ \A k \in 1..(Len(p) + Len(r)) : Devices[k] = IF k <= Len(p) THEN p[k] ELSE r[k - Len(p)]
  BY ConcatProperties
<1>3. Len(p) \in 1..Len(Devices) /\ Devices[Len(p)] = Last(p)
  BY <1>1, <1>2 DEF Last
<1>4. c \in Device /\ Parent[c] = Last(p) /\ Last(p) \in Device
  BY LastSplit DEF Children
<1>5. PICK i \in 1..Len(Devices) : Devices[i] = c
  BY <1>4, DeviceIndex
<1>6. Parent[Devices[i]] # None
  BY <1>4, <1>5, DevicePMAssumption
<1>7. PICK j \in 1..(i - 1) : Devices[j] = Last(p)
  BY <1>4, <1>5, <1>6, ParentFirst
<1>8. j \in 1..Len(Devices)
  BY <1>1, <1>2
<1>9. j = Len(p)
  BY <1>3, <1>7, <1>8, DevicePMAssumption
<1>10. i - Len(p) \in 1..Len(r) /\ c = r[i - Len(p)]
  BY <1>1, <1>2, <1>5, <1>9
<1> QED
  BY <1>10, ToSetElement

LEMMA ParentEarlier ==
  ASSUME NEW p \in Seq(Device), NEW r \in Seq(Device), r # <<>>, p \o r = Devices,
         Parent[Head(r)] # None
  PROVE  Parent[Head(r)] \in ToSet(p)
<1>1. Len(p) \in Nat /\ Len(r) \in Nat \ {0} /\ Head(r) = r[1]
  BY EmptySeq
<1>2. /\ Len(Devices) = Len(p) + Len(r)
      /\ \A k \in 1..(Len(p) + Len(r)) : Devices[k] = IF k <= Len(p) THEN p[k] ELSE r[k - Len(p)]
  BY ConcatProperties
<1>3. Len(p) + 1 \in 1..Len(Devices) /\ Devices[Len(p) + 1] = Head(r)
  <2>1. Len(p) + 1 \in 1..(Len(p) + Len(r)) /\ ~(Len(p) + 1 <= Len(p)) /\ Len(p) + 1 - Len(p) = 1
    BY <1>1
  <2> QED
    BY <1>1, <1>2, <2>1
<1>4. PICK j \in 1..(Len(p) + 1 - 1) : Devices[j] = Parent[Head(r)]
  BY <1>3, ParentFirst
<1>5. j \in 1..Len(p) /\ Devices[j] = p[j]
  BY <1>1, <1>2
<1> QED
  BY <1>4, <1>5, ToSetElement

-----------------------------------------------------------------------------

ListType == [dpm : Seq(Device), prepared : Seq(Device), suspended : Seq(Device), noirq : Seq(Device)]

DpmPcs == {"idle", "prepare", "suspend", "suspend_dev", "suspend_sync", "started",
           "suspend_noirq", "suspend_noirq_loop", "off", "resume_noirq", "woken",
           "resume", "resume_loop", "resume_dev", "resumed"}

DpmType == [pc : DpmPcs, cur : Device \cup {None}, error : BOOLEAN]

DeviceType ==
  /\ lists \in ListType
  /\ is_suspended \subseteq Device /\ completion \subseteq Device
  /\ async_error \in BOOLEAN
  /\ usage \in [Device -> 0..1]
  /\ thread \in [Device -> {"none"} \cup SuspendStates \cup ResumeStates]
  /\ dpm \in DpmType

(* The lists are the devices, cut in four.                                 *)
LEMMA ListsApart ==
  ASSUME lists \in ListType, OrderInv
  PROVE  /\ lists.prepared \in Seq(Device) /\ lists.suspended \in Seq(Device)
         /\ lists.noirq \in Seq(Device) /\ lists.dpm \in Seq(Device)
         /\ lists.suspended \o lists.noirq \o lists.dpm \in Seq(Device)
         /\ lists.prepared \o (lists.suspended \o lists.noirq \o lists.dpm) = Devices
         /\ ToSet(lists.suspended \o lists.noirq \o lists.dpm)
              = ToSet(lists.suspended) \cup ToSet(lists.noirq) \cup ToSet(lists.dpm)
         /\ ToSet(lists.prepared) \cap (ToSet(lists.suspended) \cup ToSet(lists.noirq)) = {}
         /\ Device = ToSet(lists.prepared) \cup ToSet(lists.suspended) \cup ToSet(lists.noirq)
                       \cup ToSet(lists.dpm)
<1> DEFINE p == lists.prepared
           s == lists.suspended
           n == lists.noirq
           l == lists.dpm
<1>1. p \in Seq(Device) /\ s \in Seq(Device) /\ n \in Seq(Device) /\ l \in Seq(Device)
  BY DEF ListType
<1>2. p \o s \o n \o l = Devices
  BY DEF OrderInv
<1> HIDE DEF p, s, n, l
<1>3. s \o n \in Seq(Device)
  BY <1>1, ToSetConcat
<1>4. s \o n \o l \in Seq(Device)
  BY <1>1, <1>3, ToSetConcat
<1>5. ToSet(s \o n) = ToSet(s) \cup ToSet(n)
  BY <1>1, ToSetConcat
<1>6. ToSet(s \o n \o l) = ToSet(s \o n) \cup ToSet(l)
  BY <1>1, <1>3, ToSetConcat, ZenonT(30)
<1>7. p \o s \in Seq(Device)
  BY <1>1, ToSetConcat
<1>8. p \o (s \o n \o l) = p \o s \o n \o l
  <2>1. p \o (s \o n) = (p \o s) \o n
    BY <1>1, ConcatAssociative, SMTT(30)
  <2>2. p \o ((s \o n) \o l) = (p \o (s \o n)) \o l
    BY <1>1, <1>3, ConcatAssociative, SMTT(30)
  <2> QED
    BY <2>1, <2>2
<1>9. ToSet(p) \cap ToSet(s \o n \o l) = {}
  BY <1>1, <1>2, <1>4, <1>8, PartsApart
<1>10. ToSet(p \o (s \o n \o l)) = ToSet(p) \cup ToSet(s \o n \o l)
  <2>1. \A a, b \in Seq(Device) : ToSet(a \o b) = ToSet(a) \cup ToSet(b)
    BY ToSetConcat
  <2> QED
    BY <1>1, <1>4, <2>1
<1> QED
  BY <1>1, <1>2, <1>4, <1>5, <1>6, <1>8, <1>9, <1>10 DEF p, s, n, l, Device

LEMMA ListsBuilt ==
  ASSUME NEW p \in Seq(Device), NEW s \in Seq(Device), NEW n \in Seq(Device), NEW l \in Seq(Device),
         p \o s \o n \o l = Devices,
         lists' = [dpm |-> l, prepared |-> p, suspended |-> s, noirq |-> n]
  PROVE  /\ lists' \in ListType /\ OrderInv'
         /\ lists'.prepared = p /\ lists'.suspended = s /\ lists'.noirq = n /\ lists'.dpm = l
<1>1. lists'.prepared = p /\ lists'.suspended = s /\ lists'.noirq = n /\ lists'.dpm = l
  OBVIOUS
<1>2. lists' \in ListType
  BY DEF ListType
<1> QED
  BY <1>1, <1>2 DEF OrderInv

(* One lemma for each way a device goes from a list to another.            *)
LEMMA SuspendedMove ==
  ASSUME lists \in ListType, OrderInv, lists.prepared # <<>>, lists' = LastSuspended
  PROVE  /\ lists' \in ListType /\ OrderInv'
         /\ lists'.noirq = lists.noirq /\ lists'.dpm = lists.dpm
         /\ Last(lists.prepared) \in Device
         /\ ToSet(lists.prepared) = ToSet(lists'.prepared) \cup {Last(lists.prepared)}
         /\ ToSet(lists'.suspended) = ToSet(lists.suspended) \cup {Last(lists.prepared)}
<1> DEFINE p == lists.prepared
           s == lists.suspended
<1>1. p \in Seq(Device) /\ s \in Seq(Device) /\ p # <<>>
  BY DEF ListType
<1>2. lists' = [dpm |-> lists.dpm, prepared |-> Front(p), suspended |-> <<Last(p)>> \o s, noirq |-> lists.noirq]
  BY DEF LastSuspended, ListType
<1>3. p \o s \o lists.noirq \o lists.dpm = Devices
  BY DEF OrderInv
<1> HIDE DEF p, s
<1>4. Front(p) \in Seq(Device) /\ Last(p) \in Device /\ ToSet(p) = ToSet(Front(p)) \cup {Last(p)}
  BY <1>1, LastSplit
<1>5. /\ <<Last(p)>> \o s \in Seq(Device) /\ Front(p) \o (<<Last(p)>> \o s) = p \o s
      /\ ToSet(<<Last(p)>> \o s) = ToSet(s) \cup {Last(p)}
  BY <1>1, LastMoved
<1> DEFINE p1 == Front(p)
           s1 == <<Last(p)>> \o s
           n1 == lists.noirq
           l1 == lists.dpm
<1>6. p1 \in Seq(Device) /\ s1 \in Seq(Device) /\ n1 \in Seq(Device) /\ l1 \in Seq(Device)
  BY <1>1, <1>4, <1>5 DEF ListType
<1>7. p1 \o s1 \o n1 \o l1 = Devices
  BY <1>3, <1>5
<1>8. lists' = [dpm |-> l1, prepared |-> p1, suspended |-> s1, noirq |-> n1]
  BY <1>2
<1> HIDE DEF p1, s1, n1, l1
<1>9. /\ lists' \in ListType /\ OrderInv'
      /\ lists'.prepared = p1 /\ lists'.suspended = s1 /\ lists'.noirq = n1 /\ lists'.dpm = l1
  BY <1>6, <1>7, <1>8, ListsBuilt
<1> QED
  BY <1>4, <1>5, <1>9 DEF p, s, p1, s1, n1, l1

LEMMA ResumedMove ==
  ASSUME lists \in ListType, OrderInv, lists.suspended # <<>>, lists' = FirstResumed
  PROVE  /\ lists' \in ListType /\ OrderInv'
         /\ lists'.noirq = lists.noirq /\ lists'.dpm = lists.dpm
         /\ Head(lists.suspended) \in Device
         /\ ToSet(lists.suspended) = ToSet(lists'.suspended) \cup {Head(lists.suspended)}
<1> DEFINE p == lists.prepared
           s == lists.suspended
<1>1. p \in Seq(Device) /\ s \in Seq(Device) /\ s # <<>>
  BY DEF ListType
<1>2. lists' = [dpm |-> lists.dpm, prepared |-> Append(p, Head(s)), suspended |-> Tail(s), noirq |-> lists.noirq]
  BY DEF FirstResumed, ListType
<1>3. p \o s \o lists.noirq \o lists.dpm = Devices
  BY DEF OrderInv
<1> HIDE DEF p, s
<1>4. Tail(s) \in Seq(Device) /\ Head(s) \in Device /\ ToSet(s) = {Head(s)} \cup ToSet(Tail(s))
  BY <1>1, HeadSplit
<1>5. Append(p, Head(s)) \in Seq(Device) /\ Append(p, Head(s)) \o Tail(s) = p \o s
  BY <1>1, FirstMoved
<1> DEFINE p1 == Append(p, Head(s))
           s1 == Tail(s)
           n1 == lists.noirq
           l1 == lists.dpm
<1>6. p1 \in Seq(Device) /\ s1 \in Seq(Device) /\ n1 \in Seq(Device) /\ l1 \in Seq(Device)
  BY <1>1, <1>4, <1>5 DEF ListType
<1>7. p1 \o s1 \o n1 \o l1 = Devices
  BY <1>3, <1>5
<1>8. lists' = [dpm |-> l1, prepared |-> p1, suspended |-> s1, noirq |-> n1]
  BY <1>2
<1> HIDE DEF p1, s1, n1, l1
<1>9. /\ lists' \in ListType /\ OrderInv'
      /\ lists'.prepared = p1 /\ lists'.suspended = s1 /\ lists'.noirq = n1 /\ lists'.dpm = l1
  BY <1>6, <1>7, <1>8, ListsBuilt
<1> QED
  BY <1>4, <1>9 DEF p, s, p1, s1, n1, l1

LEMMA NoirqMove ==
  ASSUME lists \in ListType, OrderInv, lists.suspended # <<>>, lists.prepared = <<>>,
         lists' = [lists EXCEPT !.suspended = Front(@), !.noirq = <<Last(lists.suspended)>> \o @]
  PROVE  /\ lists' \in ListType /\ OrderInv'
         /\ lists'.prepared = lists.prepared /\ lists'.dpm = lists.dpm
         /\ ToSet(lists.suspended) \cup ToSet(lists.noirq)
              = ToSet(lists'.suspended) \cup ToSet(lists'.noirq)
<1> DEFINE n == lists.noirq
           s == lists.suspended
<1>1. n \in Seq(Device) /\ s \in Seq(Device) /\ s # <<>> /\ lists.prepared = <<>>
  BY DEF ListType
<1>2. lists' = [dpm |-> lists.dpm, prepared |-> lists.prepared, suspended |-> Front(s),
                noirq |-> <<Last(s)>> \o n]
  BY DEF ListType
<1>3. lists.prepared \o s \o n \o lists.dpm = Devices
  BY DEF OrderInv
<1> HIDE DEF n, s
<1>4. Front(s) \in Seq(Device) /\ Last(s) \in Device /\ ToSet(s) = ToSet(Front(s)) \cup {Last(s)}
  BY <1>1, LastSplit
<1>5. /\ <<Last(s)>> \o n \in Seq(Device) /\ Front(s) \o (<<Last(s)>> \o n) = s \o n
      /\ ToSet(<<Last(s)>> \o n) = ToSet(n) \cup {Last(s)}
  BY <1>1, LastMoved
<1> DEFINE p1 == lists.prepared
           s1 == Front(s)
           n1 == <<Last(s)>> \o n
           l1 == lists.dpm
<1>6. p1 \in Seq(Device) /\ s1 \in Seq(Device) /\ n1 \in Seq(Device) /\ l1 \in Seq(Device)
  BY <1>1, <1>4, <1>5 DEF ListType
<1>7. p1 \o s1 \o n1 \o l1 = Devices
  <2>1. <<>> \o s = s /\ <<>> \o Front(s) = Front(s)
    BY <1>1, <1>4, <1>5, ConcatEmptySeq
  <2> QED
    BY <1>1, <1>3, <1>5, <2>1
<1>8. lists' = [dpm |-> l1, prepared |-> p1, suspended |-> s1, noirq |-> n1]
  BY <1>2
<1> HIDE DEF p1, s1, n1, l1
<1>9. /\ lists' \in ListType /\ OrderInv'
      /\ lists'.prepared = p1 /\ lists'.suspended = s1 /\ lists'.noirq = n1 /\ lists'.dpm = l1
  BY <1>6, <1>7, <1>8, ListsBuilt
<1> QED
  BY <1>4, <1>5, <1>9 DEF n, s, p1, s1, n1, l1

LEMMA ResumeNoirqMove ==
  ASSUME lists \in ListType, OrderInv, lists.noirq # <<>>, lists.prepared = <<>>,
         lists' = [lists EXCEPT !.noirq = Tail(@), !.suspended = Append(@, Head(lists.noirq))]
  PROVE  /\ lists' \in ListType /\ OrderInv'
         /\ lists'.prepared = lists.prepared /\ lists'.dpm = lists.dpm
         /\ ToSet(lists.suspended) \cup ToSet(lists.noirq)
              = ToSet(lists'.suspended) \cup ToSet(lists'.noirq)
<1> DEFINE n == lists.noirq
           s == lists.suspended
<1>1. n \in Seq(Device) /\ s \in Seq(Device) /\ n # <<>> /\ lists.prepared = <<>>
  BY DEF ListType
<1>2. lists' = [dpm |-> lists.dpm, prepared |-> lists.prepared, suspended |-> Append(s, Head(n)),
                noirq |-> Tail(n)]
  BY DEF ListType
<1>3. lists.prepared \o s \o n \o lists.dpm = Devices
  BY DEF OrderInv
<1> HIDE DEF n, s
<1>4. Tail(n) \in Seq(Device) /\ Head(n) \in Device /\ ToSet(n) = {Head(n)} \cup ToSet(Tail(n))
  BY <1>1, HeadSplit
<1>5. /\ Append(s, Head(n)) \in Seq(Device) /\ Append(s, Head(n)) \o Tail(n) = s \o n
      /\ ToSet(Append(s, Head(n))) = ToSet(s) \cup {Head(n)}
  BY <1>1, FirstMoved
<1> DEFINE p1 == lists.prepared
           s1 == Append(s, Head(n))
           n1 == Tail(n)
           l1 == lists.dpm
<1>6. p1 \in Seq(Device) /\ s1 \in Seq(Device) /\ n1 \in Seq(Device) /\ l1 \in Seq(Device)
  BY <1>1, <1>4, <1>5 DEF ListType
<1>7. p1 \o s1 \o n1 \o l1 = Devices
  <2>1. <<>> \o s = s /\ <<>> \o Append(s, Head(n)) = Append(s, Head(n))
    BY <1>1, <1>4, <1>5, ConcatEmptySeq
  <2> QED
    BY <1>1, <1>3, <1>5, <2>1
<1>8. lists' = [dpm |-> l1, prepared |-> p1, suspended |-> s1, noirq |-> n1]
  BY <1>2
<1> HIDE DEF p1, s1, n1, l1
<1>9. /\ lists' \in ListType /\ OrderInv'
      /\ lists'.prepared = p1 /\ lists'.suspended = s1 /\ lists'.noirq = n1 /\ lists'.dpm = l1
  BY <1>6, <1>7, <1>8, ListsBuilt
<1> QED
  BY <1>4, <1>5, <1>9 DEF n, s, p1, s1, n1, l1

LEMMA PreparedMove ==
  ASSUME lists \in ListType, OrderInv, lists.dpm # <<>>, lists.suspended = <<>>, lists.noirq = <<>>,
         lists' = [lists EXCEPT !.dpm = Tail(@), !.prepared = Append(@, Head(lists.dpm))]
  PROVE  /\ lists' \in ListType /\ OrderInv'
         /\ lists'.suspended = <<>> /\ lists'.noirq = <<>>
<1> DEFINE p == lists.prepared
           l == lists.dpm
<1>1. p \in Seq(Device) /\ l \in Seq(Device) /\ l # <<>>
  BY DEF ListType
<1>2. lists' = [dpm |-> Tail(l), prepared |-> Append(p, Head(l)), suspended |-> <<>>, noirq |-> <<>>]
  BY DEF ListType
<1>3. p \o <<>> \o <<>> \o l = Devices
  BY DEF OrderInv
<1> HIDE DEF p, l
<1>4. Tail(l) \in Seq(Device) /\ Head(l) \in Device
  BY <1>1, HeadSplit
<1>5. Append(p, Head(l)) \in Seq(Device) /\ Append(p, Head(l)) \o Tail(l) = p \o l
  BY <1>1, FirstMoved
<1> DEFINE p1 == Append(p, Head(l))
           s1 == <<>>
           n1 == <<>>
           l1 == Tail(l)
<1>6. p1 \in Seq(Device) /\ s1 \in Seq(Device) /\ n1 \in Seq(Device) /\ l1 \in Seq(Device)
  BY <1>1, <1>4, <1>5 DEF ListType
<1>7. p1 \o s1 \o n1 \o l1 = Devices
  <2>1. p \o <<>> = p /\ Append(p, Head(l)) \o <<>> = Append(p, Head(l))
    BY <1>1, <1>4, <1>5, ConcatEmptySeq
  <2> QED
    BY <1>1, <1>3, <1>5, <2>1
<1>8. lists' = [dpm |-> l1, prepared |-> p1, suspended |-> s1, noirq |-> n1]
  BY <1>2
<1> HIDE DEF p1, s1, n1, l1
<1>9. /\ lists' \in ListType /\ OrderInv'
      /\ lists'.prepared = p1 /\ lists'.suspended = s1 /\ lists'.noirq = n1 /\ lists'.dpm = l1
  BY <1>6, <1>7, <1>8, ListsBuilt
<1> QED
  BY <1>9 DEF s1, n1

LEMMA CompletedMove ==
  ASSUME lists \in ListType, OrderInv, lists.suspended = <<>>, lists.noirq = <<>>,
         lists' = [lists EXCEPT !.prepared = <<>>, !.dpm = lists.prepared \o @]
  PROVE  /\ lists' \in ListType /\ OrderInv'
         /\ lists'.suspended = <<>> /\ lists'.noirq = <<>> /\ lists'.prepared = <<>>
<1> DEFINE p == lists.prepared
           l == lists.dpm
<1>1. p \in Seq(Device) /\ l \in Seq(Device)
  BY DEF ListType
<1>2. lists' = [dpm |-> p \o l, prepared |-> <<>>, suspended |-> <<>>, noirq |-> <<>>]
  BY DEF ListType
<1>3. p \o <<>> \o <<>> \o l = Devices
  BY DEF OrderInv
<1> HIDE DEF p, l
<1>4. p \o l \in Seq(Device)
  BY <1>1, ToSetConcat
<1>5. <<>> \in Seq(Device)
  OBVIOUS
<1> DEFINE p1 == <<>>
           s1 == <<>>
           n1 == <<>>
           l1 == p \o l
<1>6. p1 \in Seq(Device) /\ s1 \in Seq(Device) /\ n1 \in Seq(Device) /\ l1 \in Seq(Device)
  BY <1>1, <1>4, <1>5 DEF ListType
<1>7. p1 \o s1 \o n1 \o l1 = Devices
  <2>1. p \o <<>> = p /\ <<>> \o <<>> = <<>> /\ <<>> \o (p \o l) = p \o l
    BY <1>1, <1>4, <1>5, ConcatEmptySeq
  <2> QED
    BY <1>1, <1>3, <1>5, <2>1
<1>8. lists' = [dpm |-> l1, prepared |-> p1, suspended |-> s1, noirq |-> n1]
  BY <1>2
<1> HIDE DEF p1, s1, n1, l1
<1>9. /\ lists' \in ListType /\ OrderInv'
      /\ lists'.prepared = p1 /\ lists'.suspended = s1 /\ lists'.noirq = n1 /\ lists'.dpm = l1
  BY <1>6, <1>7, <1>8, ListsBuilt
<1> QED
  BY <1>9 DEF p1, s1, n1

-----------------------------------------------------------------------------
(***************************************************************************)
(* The steps of the devices.                                               *)
(***************************************************************************)

LEMMA DpmGoto ==
  ASSUME dpm \in DpmType, NEW l \in DpmPcs, Goto(l)
  PROVE  /\ dpm' \in DpmType /\ dpm'.pc = l /\ dpm'.cur = dpm.cur /\ (dpm'.error <=> dpm.error)
BY DEF DpmType, Goto

(* The steps that only take dpm from one phase to the next.                *)
PhaseChange(l, m) == dpm.pc = l /\ dpm'.pc = m

LEMMA PhaseStep ==
  ASSUME DeviceType, DeviceInv,
         UNCHANGED <<lists, is_suspended, completion, usage, thread>>,
         async_error' \in BOOLEAN, dpm' \in DpmType, dpm'.cur = dpm.cur,
         \/ PhaseChange("idle", "prepare") /\ ~dpm'.error
         \/ PhaseChange("prepare", "started") /\ dpm'.error
         \/ PhaseChange("prepare", "suspend") /\ lists.dpm = <<>> /\ ~dpm'.error
         \/ /\ PhaseChange("suspend", "suspend_sync") /\ lists.prepared = <<>>
            /\ async_error' <=> async_error
         \/ /\ PhaseChange("suspend_sync", "started") /\ \A d \in Device : thread[d] = "none"
            /\ dpm'.error <=> dpm.error \/ async_error
         \/ PhaseChange("started", "resume")
         \/ PhaseChange("started", "suspend_noirq") /\ ~dpm.error
         \/ PhaseChange("suspend_noirq", "suspend_noirq_loop")
         \/ PhaseChange("suspend_noirq_loop", "resume_noirq")
         \/ PhaseChange("suspend_noirq_loop", "off") /\ lists.suspended = <<>>
         \/ PhaseChange("off", "resume_noirq")
         \/ PhaseChange("resume_noirq", "woken") /\ lists.noirq = <<>>
         \/ PhaseChange("woken", "resume")
         \/ PhaseChange("resumed", "idle")
  PROVE  DeviceType' /\ DeviceInv'
<1> USE DEF PhaseChange, SuspendPcs, NoirqPcs, ResumePcs
<1>1. DeviceType'
  BY DEF DeviceType
<1>2. OrderInv'
  BY DEF DeviceInv, OrderInv
<1>3. EmptyInv'
  BY DEF DeviceInv, EmptyInv
<1>4. CurInv'
  BY DEF DeviceInv, CurInv
<1>5. ASSUME NEW d \in Device
      PROVE  /\ thread[d] \in SuspendStates => PhaseChange("suspend", "suspend_sync")
             /\ thread[d] \notin ResumeStates
  BY DEF DeviceInv, ThreadInv, DeviceType, SuspendStates, ResumeStates
<1>6. ThreadInv'
  <2> SUFFICES ASSUME NEW d \in Device
               PROVE  /\ thread[d] \in SuspendStates =>
                           /\ dpm'.pc \in SuspendPcs
                           /\ IF d \in Async THEN d \in ToSet(lists.suspended)
                                             ELSE dpm'.pc = "suspend_dev" /\ dpm'.cur = d
                           /\ Children(d) \subseteq ToSet(lists.suspended)
                           /\ d \notin completion /\ d \notin is_suspended
                      /\ thread[d] \notin ResumeStates
    BY DEF ThreadInv, ResumeStates
  <2> QED
    BY <1>5 DEF DeviceInv, ThreadInv
<1>7. SuspendedInv'
  <2>1. dpm.pc \notin {"suspend_dev", "resume_dev"} /\ dpm.cur = None /\ None \notin Device
    BY DevicePMAssumption DEF DeviceInv, CurInv
  <2>2. CASE PhaseChange("suspend_sync", "started") /\ ~dpm'.error
    <3>1. lists.prepared = <<>> /\ lists.noirq = <<>> /\ lists.dpm = <<>> /\ ~async_error
      BY <2>2 DEF DeviceInv, EmptyInv
    <3>2. Device = ToSet(lists.suspended)
      BY <3>1, ListsApart, ToSetEmpty DEF DeviceType, DeviceInv
    <3>3. Device \subseteq is_suspended
      BY <2>2, <3>1, <3>2 DEF DeviceInv, SuspendedInv
    <3>4. is_suspended = Device
      BY <3>3 DEF DeviceType
    <3> QED
      BY <2>2, <3>2, <3>4 DEF SuspendedInv
  <2>3. CASE PhaseChange("prepare", "suspend")
    <3>1. is_suspended = {} /\ lists.suspended = <<>>
      BY <2>3 DEF DeviceInv, SuspendedInv, EmptyInv
    <3> QED
      BY <2>1, <2>3, <3>1, ToSetEmpty DEF SuspendedInv
  <2>4. CASE ~(PhaseChange("suspend_sync", "started") /\ ~dpm'.error) /\ ~PhaseChange("prepare", "suspend")
    BY <2>1, <2>4 DEF DeviceInv, SuspendedInv
  <2> QED
    BY <2>2, <2>3, <2>4
<1>8. TreeInv' /\ UsageInv'
  BY DEF DeviceInv, TreeInv, UsageInv
<1> QED
  BY <1>1, <1>2, <1>3, <1>4, <1>6, <1>7, <1>8 DEF DeviceInv

(* A thread that suspends a device.                                        *)
LEMMA SuspendThread ==
  ASSUME DeviceType, DeviceInv, NEW d \in Device, thread[d] \in SuspendStates
  PROVE  /\ dpm.pc \in SuspendPcs
         /\ IF d \in Async THEN d \in ToSet(lists.suspended)
                           ELSE dpm.pc = "suspend_dev" /\ dpm.cur = d
         /\ Children(d) \subseteq ToSet(lists.suspended)
         /\ d \notin completion /\ d \notin is_suspended
         /\ \A e \in Device : thread[e] \notin ResumeStates
         /\ dpm.cur = d => ~dpm.error
<1>1. dpm.pc \in SuspendPcs
  BY DEF DeviceInv, ThreadInv
<1>2. \A e \in Device : thread[e] \notin ResumeStates
  BY <1>1 DEF DeviceInv, ThreadInv, SuspendPcs, ResumePcs
<1>3. dpm.cur = d => ~dpm.error
  <2>1. d # None /\ thread[d] # "none"
    BY DevicePMAssumption DEF SuspendStates
  <2> QED
    BY <1>1, <2>1 DEF DeviceInv, CurInv, SuspendPcs
<1> QED
  BY <1>1, <1>2, <1>3 DEF DeviceInv, ThreadInv

(* The parts of the invariant that a thread's step can disturb, when the   *)
(* lists stay as they are.                                                 *)
LEMMA WaitChildrenKept ==
  ASSUME DeviceType, DeviceInv, NEW d \in Device, wait_children(d)
  PROVE  DeviceType' /\ DeviceInv'
<1>1. /\ thread[d] = "wait_children" /\ \A c \in Children(d) : ~WaitsFor(d, c)
      /\ thread' = [thread EXCEPT ![d] = IF async_error THEN "none" ELSE "barrier"]
      /\ usage' = [usage EXCEPT ![d] = IF async_error THEN @ ELSE @ + 1]
      /\ UNCHANGED <<lists, is_suspended, completion, async_error, dpm>>
  BY DEF wait_children
<1>2. thread[d] \in SuspendStates
  BY <1>1 DEF SuspendStates
<1>3. /\ dpm.pc \in SuspendPcs
      /\ IF d \in Async THEN d \in ToSet(lists.suspended)
                        ELSE dpm.pc = "suspend_dev" /\ dpm.cur = d
      /\ Children(d) \subseteq ToSet(lists.suspended)
      /\ d \notin completion /\ d \notin is_suspended
      /\ \A e \in Device : thread[e] \notin ResumeStates
      /\ dpm.cur = d => ~dpm.error
  BY <1>2, SuspendThread
<1>4. \A e \in Device : thread'[e] = IF e = d THEN IF async_error THEN "none" ELSE "barrier" ELSE thread[e]
  BY <1>1 DEF DeviceType
<1>5. usage[d] = 0
  BY <1>1, <1>3 DEF DeviceInv, UsageInv
<1>6. \A e \in Device : usage'[e] = IF e = d /\ ~async_error THEN 1 ELSE usage[e]
  BY <1>1, <1>5 DEF DeviceType
<1>7. DeviceType'
  <2>1. usage' \in [Device -> 0..1]
    BY <1>1, <1>5 DEF DeviceType
  <2>2. thread' \in [Device -> {"none"} \cup SuspendStates \cup ResumeStates]
    BY <1>1 DEF DeviceType, SuspendStates
  <2> QED
    BY <1>1, <2>1, <2>2 DEF DeviceType
<1>8. OrderInv' /\ EmptyInv'
  BY <1>1 DEF DeviceInv, OrderInv, EmptyInv
<1>9. CurInv'
  BY <1>1, <1>3, <1>4 DEF DeviceInv, CurInv, SuspendPcs, DeviceType, DpmType
<1>10. ThreadInv'
  <2> SUFFICES ASSUME NEW e \in Device
               PROVE  /\ thread'[e] \in SuspendStates =>
                           /\ dpm.pc \in SuspendPcs
                           /\ IF e \in Async THEN e \in ToSet(lists.suspended)
                                             ELSE dpm.pc = "suspend_dev" /\ dpm.cur = e
                           /\ Children(e) \subseteq ToSet(lists.suspended)
                           /\ e \notin completion /\ e \notin is_suspended
                      /\ thread'[e] \notin ResumeStates
    BY <1>1 DEF ThreadInv, ResumeStates
  <2>1. CASE e = d
    BY <1>3, <1>4, <2>1 DEF SuspendStates, ResumeStates
  <2>2. CASE e # d
    BY <1>3, <1>4, <2>2 DEF DeviceInv, ThreadInv
  <2> QED
    BY <2>1, <2>2
<1>11. SuspendedInv'
  BY <1>1, <1>3, <1>4 DEF DeviceInv, SuspendedInv, SuspendPcs, ResumePcs
<1>12. ~async_error => Children(d) \subseteq is_suspended
  <2> SUFFICES ASSUME ~async_error, NEW c \in Children(d) PROVE c \in is_suspended
    OBVIOUS
  <2>1. c \in Device /\ c \in ToSet(lists.suspended) /\ ~WaitsFor(d, c)
    BY <1>1, <1>3 DEF Children
  <2>2. thread[c] \notin SuspendStates
    <3> SUFFICES ASSUME thread[c] \in SuspendStates PROVE FALSE
      OBVIOUS
    <3>1. c \notin completion /\ (c \in Async \/ (dpm.pc = "suspend_dev" /\ dpm.cur = c))
      BY <2>1, SuspendThread
    <3>2. c \notin Async
      BY <2>1, <3>1 DEF WaitsFor
    <3>3. c = Last(lists.prepared) /\ lists.prepared # <<>>
      BY <3>1, <3>2 DEF DeviceInv, CurInv
    <3>4. c \in ToSet(lists.prepared)
      <4>1. lists.prepared \in Seq(Device)
        BY DEF DeviceType, ListType
      <4> QED
        BY <3>3, <4>1, LastSplit
    <3> QED
      BY <2>1, <3>4, ListsApart DEF DeviceType, DeviceInv
  <2>3. thread[c] = "none"
    BY <1>3, <2>1, <2>2 DEF DeviceType
  <2> QED
    BY <1>3, <2>1, <2>3 DEF DeviceInv, SuspendedInv
<1>13. TreeInv'
  <2> SUFFICES ASSUME NEW e \in Device, NEW c \in Children(e)
               PROVE  /\ e \in is_suspended => c \in is_suspended
                      /\ thread'[e] \in {"barrier", "callback"} => c \in is_suspended
                      /\ thread'[c] # "resume_callback"
    BY <1>1 DEF TreeInv
  <2>1. c \in Device
    BY DEF Children
  <2>2. thread'[c] # "resume_callback"
    BY <1>3, <1>4, <2>1 DEF ResumeStates
  <2> QED
    BY <1>4, <1>12, <2>2 DEF DeviceInv, TreeInv
<1>14. UsageInv'
  <2> SUFFICES ASSUME NEW e \in Device
               PROVE  usage'[e] = IF thread'[e] \in {"barrier", "callback"} \/ e \in is_suspended THEN 1 ELSE 0
    BY <1>1 DEF UsageInv
  <2> QED
    BY <1>3, <1>4, <1>5, <1>6 DEF DeviceInv, UsageInv
<1> QED
  BY <1>7, <1>8, <1>9, <1>10, <1>11, <1>13, <1>14 DEF DeviceInv

LEMMA CheckPendingKept ==
  ASSUME DeviceType, DeviceInv, NEW d \in Device, check_pending(d)
  PROVE  DeviceType' /\ DeviceInv'
<1> DEFINE abort == Pending(combined_event_count')
<1>1. /\ thread[d] = "barrier"
      /\ thread' = [thread EXCEPT ![d] = IF abort THEN "none" ELSE "callback"]
      /\ usage' = [usage EXCEPT ![d] = IF abort THEN @ - 1 ELSE @]
      /\ async_error' = (async_error \/ abort)
      /\ UNCHANGED <<lists, is_suspended, completion, dpm>>
  BY DEF check_pending
<1>2. thread[d] \in SuspendStates /\ abort \in BOOLEAN
  BY <1>1 DEF SuspendStates, Pending
<1> HIDE DEF abort
<1>3. /\ dpm.pc \in SuspendPcs
      /\ IF d \in Async THEN d \in ToSet(lists.suspended)
                        ELSE dpm.pc = "suspend_dev" /\ dpm.cur = d
      /\ Children(d) \subseteq ToSet(lists.suspended)
      /\ d \notin completion /\ d \notin is_suspended
      /\ \A e \in Device : thread[e] \notin ResumeStates
      /\ dpm.cur = d => ~dpm.error
  BY <1>2, SuspendThread
<1>4. \A e \in Device : thread'[e] = IF e = d THEN IF abort THEN "none" ELSE "callback" ELSE thread[e]
  BY <1>1 DEF DeviceType
<1>5. usage[d] = 1
  BY <1>1 DEF DeviceInv, UsageInv
<1>6. \A e \in Device : usage'[e] = IF e = d /\ abort THEN 0 ELSE usage[e]
  BY <1>1, <1>5 DEF DeviceType
<1>7. DeviceType'
  <2>1. usage' \in [Device -> 0..1]
    BY <1>1, <1>5 DEF DeviceType
  <2>2. thread' \in [Device -> {"none"} \cup SuspendStates \cup ResumeStates]
    BY <1>1 DEF DeviceType, SuspendStates
  <2>3. async_error' \in BOOLEAN
    BY <1>1
  <2> QED
    BY <1>1, <2>1, <2>2, <2>3 DEF DeviceType
<1>8. OrderInv' /\ EmptyInv'
  BY <1>1 DEF DeviceInv, OrderInv, EmptyInv
<1>9. CurInv'
  BY <1>1, <1>3, <1>4 DEF DeviceInv, CurInv, SuspendPcs, DeviceType, DpmType
<1>10. ThreadInv'
  <2> SUFFICES ASSUME NEW e \in Device
               PROVE  /\ thread'[e] \in SuspendStates =>
                           /\ dpm.pc \in SuspendPcs
                           /\ IF e \in Async THEN e \in ToSet(lists.suspended)
                                             ELSE dpm.pc = "suspend_dev" /\ dpm.cur = e
                           /\ Children(e) \subseteq ToSet(lists.suspended)
                           /\ e \notin completion /\ e \notin is_suspended
                      /\ thread'[e] \notin ResumeStates
    BY <1>1 DEF ThreadInv, ResumeStates
  <2>1. CASE e = d
    BY <1>3, <1>4, <2>1 DEF SuspendStates, ResumeStates
  <2>2. CASE e # d
    BY <1>3, <1>4, <2>2 DEF DeviceInv, ThreadInv
  <2> QED
    BY <2>1, <2>2
<1>11. SuspendedInv'
  <2>1. ~async_error' => ~async_error /\ ~abort
    BY <1>1
  <2>2. ASSUME ~async_error', NEW e \in ToSet(lists.suspended) \cup {dpm.cur}, e \in Device, thread'[e] = "none"
        PROVE  e \in is_suspended
    <3>1. e # d /\ thread[e] = "none" /\ ~async_error
      BY <1>4, <2>1, <2>2
    <3> QED
      BY <1>3, <2>2, <3>1 DEF DeviceInv, SuspendedInv
  <2>3. UNCHANGED <<lists, is_suspended, completion, dpm>>
    BY <1>1
  <2> QED
    BY <1>3, <2>2, <2>3 DEF DeviceInv, SuspendedInv, SuspendPcs, ResumePcs
<1>12. TreeInv'
  <2> SUFFICES ASSUME NEW e \in Device, NEW c \in Children(e)
               PROVE  /\ e \in is_suspended => c \in is_suspended
                      /\ thread'[e] \in {"barrier", "callback"} => c \in is_suspended
                      /\ thread'[c] # "resume_callback"
    BY <1>1 DEF TreeInv
  <2>1. c \in Device
    BY DEF Children
  <2>2. thread'[c] # "resume_callback"
    BY <1>3, <1>4, <2>1 DEF ResumeStates
  <2> QED
    BY <1>1, <1>4, <2>2 DEF DeviceInv, TreeInv
<1>13. UsageInv'
  <2> SUFFICES ASSUME NEW e \in Device
               PROVE  usage'[e] = IF thread'[e] \in {"barrier", "callback"} \/ e \in is_suspended THEN 1 ELSE 0
    BY <1>1 DEF UsageInv
  <2> QED
    BY <1>3, <1>4, <1>5, <1>6 DEF DeviceInv, UsageInv
<1> QED
  BY <1>7, <1>8, <1>9, <1>10, <1>11, <1>12, <1>13 DEF DeviceInv

LEMMA SuspendCallbackKept ==
  ASSUME DeviceType, DeviceInv, NEW d \in Device, suspend_callback(d)
  PROVE  DeviceType' /\ DeviceInv'
<1>1. /\ thread[d] = "callback" /\ thread' = [thread EXCEPT ![d] = "none"]
      /\ completion' = completion \cup {d} /\ lists' = lists
  BY DEF suspend_callback
<1>2. thread[d] \in SuspendStates
  BY <1>1 DEF SuspendStates
<1>3. /\ dpm.pc \in SuspendPcs
      /\ IF d \in Async THEN d \in ToSet(lists.suspended)
                        ELSE dpm.pc = "suspend_dev" /\ dpm.cur = d
      /\ Children(d) \subseteq ToSet(lists.suspended)
      /\ d \notin completion /\ d \notin is_suspended
      /\ \A e \in Device : thread[e] \notin ResumeStates
      /\ dpm.cur = d => ~dpm.error
  BY <1>2, SuspendThread
<1>4. \A e \in Device : thread'[e] = IF e = d THEN "none" ELSE thread[e]
  BY <1>1 DEF DeviceType
<1>5. usage[d] = 1 /\ Children(d) \subseteq is_suspended
  BY <1>1 DEF DeviceInv, UsageInv, TreeInv
<1>6. thread' \in [Device -> {"none"} \cup SuspendStates \cup ResumeStates] /\ completion' \subseteq Device
  BY <1>1 DEF DeviceType
<1>7. OrderInv'
  BY <1>1 DEF DeviceInv, OrderInv
<1>8. ASSUME is_suspended \subseteq is_suspended', is_suspended' \subseteq is_suspended \cup {d},
             dpm'.pc = dpm.pc, dpm'.cur = dpm.cur
      PROVE  ThreadInv'
  <2> SUFFICES ASSUME NEW e \in Device
               PROVE  /\ thread'[e] \in SuspendStates =>
                           /\ dpm.pc \in SuspendPcs
                           /\ IF e \in Async THEN e \in ToSet(lists.suspended)
                                             ELSE dpm.pc = "suspend_dev" /\ dpm.cur = e
                           /\ Children(e) \subseteq ToSet(lists.suspended)
                           /\ e \notin completion' /\ e \notin is_suspended'
                      /\ thread'[e] \notin ResumeStates
    BY <1>1, <1>8 DEF ThreadInv, ResumeStates
  <2>1. CASE e = d
    BY <1>4, <2>1 DEF SuspendStates, ResumeStates
  <2>2. CASE e # d
    BY <1>1, <1>3, <1>4, <1>8, <2>2 DEF DeviceInv, ThreadInv
  <2> QED
    BY <2>1, <2>2
<1>9. ASSUME is_suspended \subseteq is_suspended', is_suspended' \subseteq is_suspended \cup {d}
      PROVE  TreeInv'
  <2> SUFFICES ASSUME NEW e \in Device, NEW c \in Children(e)
               PROVE  /\ e \in is_suspended' => c \in is_suspended'
                      /\ thread'[e] \in {"barrier", "callback"} => c \in is_suspended'
                      /\ thread'[c] # "resume_callback"
    BY DEF TreeInv
  <2>1. c \in Device
    BY DEF Children
  <2>2. thread'[c] # "resume_callback"
    BY <1>3, <1>4, <2>1 DEF ResumeStates
  <2>3. e \in is_suspended' => c \in is_suspended'
    BY <1>5, <1>9 DEF DeviceInv, TreeInv
  <2>4. thread'[e] \in {"barrier", "callback"} => c \in is_suspended'
    BY <1>4, <1>9 DEF DeviceInv, TreeInv
  <2> QED
    BY <2>2, <2>3, <2>4
<1>10. CASE is_suspended' = is_suspended \cup {d} /\ UNCHANGED <<usage, async_error, dpm>>
  <2>1. DeviceType'
    BY <1>1, <1>6, <1>10 DEF DeviceType
  <2>2. EmptyInv'
    BY <1>1, <1>10 DEF DeviceInv, EmptyInv
  <2>3. CurInv'
    BY <1>1, <1>3, <1>4, <1>10 DEF DeviceInv, CurInv, SuspendPcs, DeviceType, DpmType
  <2>4. SuspendedInv'
    <3>1. d \in ToSet(lists.suspended) \cup {dpm.cur}
      BY <1>3
    <3> QED
      BY <1>1, <1>3, <1>4, <1>10, <3>1 DEF DeviceInv, SuspendedInv, SuspendPcs, ResumePcs
  <2>5. UsageInv'
    BY <1>4, <1>5, <1>10 DEF DeviceInv, UsageInv
  <2> QED
    BY <1>7, <1>8, <1>9, <1>10, <2>1, <2>2, <2>3, <2>4, <2>5 DEF DeviceInv
<1>11. CASE /\ usage' = [usage EXCEPT ![d] = @ - 1] /\ async_error' = TRUE
            /\ dpm' = [dpm EXCEPT !.error = @ \/ dpm.cur = d] /\ is_suspended' = is_suspended
  <2>1. usage' \in [Device -> 0..1] /\ \A e \in Device : usage'[e] = IF e = d THEN 0 ELSE usage[e]
    BY <1>5, <1>11 DEF DeviceType
  <2>2. /\ dpm' \in DpmType /\ dpm'.pc = dpm.pc /\ dpm'.cur = dpm.cur
        /\ dpm'.error <=> dpm.error \/ dpm.cur = d
    BY <1>11 DEF DeviceType, DpmType
  <2>3. async_error' \in BOOLEAN /\ async_error'
    BY <1>11
  <2>4. DeviceType'
    BY <1>1, <1>6, <1>11, <2>1, <2>2, <2>3 DEF DeviceType
  <2>5. EmptyInv'
    BY <1>1, <1>3, <2>2, <2>3 DEF DeviceInv, EmptyInv, SuspendPcs
  <2>6. CurInv'
    <3>1. dpm.pc = "suspend" => dpm.cur # d
      BY DevicePMAssumption DEF DeviceInv, CurInv
    <3> QED
      BY <1>1, <1>3, <1>4, <1>11, <2>2, <3>1 DEF DeviceInv, CurInv, SuspendPcs
  <2>7. SuspendedInv'
    BY <1>1, <1>3, <1>11, <2>2, <2>3 DEF DeviceInv, SuspendedInv, SuspendPcs, ResumePcs
  <2>8. UsageInv'
    BY <1>3, <1>4, <1>5, <1>11, <2>1 DEF DeviceInv, UsageInv
  <2> QED
    BY <1>7, <1>8, <1>9, <1>11, <2>2, <2>4, <2>5, <2>6, <2>7, <2>8 DEF DeviceInv
<1> QED
  BY <1>10, <1>11 DEF suspend_callback

(* A thread that resumes a device.                                         *)
LEMMA ResumeThread ==
  ASSUME DeviceType, DeviceInv, NEW d \in Device, thread[d] \in ResumeStates
  PROVE  /\ dpm.pc \in ResumePcs
         /\ d \notin Async => dpm.pc = "resume_dev" /\ dpm.cur = d
         /\ \A e \in Device : thread[e] \notin SuspendStates
BY DEF DeviceInv, ThreadInv, SuspendPcs, ResumePcs

(* The parent of the first device that is still suspended is not.          *)
LEMMA ParentResumed ==
  ASSUME DeviceType, DeviceInv, lists.suspended # <<>>, NEW e \in Device,
         Head(lists.suspended) \in Children(e)
  PROVE  e \notin ToSet(lists.suspended)
<1> DEFINE p == lists.prepared
           s == lists.suspended
           r == lists.suspended \o lists.noirq \o lists.dpm
<1>1. /\ p \in Seq(Device) /\ s \in Seq(Device) /\ r \in Seq(Device) /\ p \o r = Devices
      /\ ToSet(p) \cap ToSet(s) = {} /\ s # <<>>
      /\ lists.noirq \in Seq(Device) /\ lists.dpm \in Seq(Device)
  BY ListsApart DEF DeviceType, DeviceInv
<1>2. r # <<>> /\ Head(r) = Head(s)
  <2> DEFINE t == s \o lists.noirq
  <2>1. t \in Seq(Device) /\ t # <<>> /\ Head(t) = Head(s)
    BY <1>1, HeadConcat
  <2>2. r = t \o lists.dpm
    OBVIOUS
  <2> HIDE DEF t, r, s
  <2> QED
    BY <1>1, <2>1, <2>2, HeadConcat
<1>3. Parent[Head(r)] = e /\ e # None
  BY <1>2, DevicePMAssumption DEF Children
<1> HIDE DEF p, s, r
<1>4. e \in ToSet(p)
  BY <1>1, <1>2, <1>3, ParentEarlier
<1> QED
  BY <1>1, <1>4 DEF s

LEMMA WaitParentKept ==
  ASSUME DeviceType, DeviceInv, NEW d \in Device, wait_parent(d)
  PROVE  DeviceType' /\ DeviceInv'
<1>1. /\ thread[d] = "wait_parent" /\ (Parent[d] = None \/ ~WaitsFor(d, Parent[d]))
      /\ UNCHANGED <<lists, is_suspended, async_error, usage, dpm>>
  BY DEF wait_parent
<1>2. thread[d] \in ResumeStates
  BY <1>1 DEF ResumeStates
<1>3. /\ dpm.pc \in ResumePcs
      /\ d \notin Async => dpm.pc = "resume_dev" /\ dpm.cur = d
      /\ \A e \in Device : thread[e] \notin SuspendStates
  BY <1>2, ResumeThread
<1>4. OrderInv' /\ EmptyInv'
  BY <1>1 DEF DeviceInv, OrderInv, EmptyInv
<1>5. CASE d \in is_suspended
  <2>1. thread' = [thread EXCEPT ![d] = "resume_callback"] /\ completion' = completion
    BY <1>5 DEF wait_parent
  <2>2. \A e \in Device : thread'[e] = IF e = d THEN "resume_callback" ELSE thread[e]
    BY <2>1 DEF DeviceType
  <2>3. DeviceType'
    BY <1>1, <2>1 DEF DeviceType, ResumeStates
  <2>4. CurInv'
    BY <1>1, <1>3, <2>1, <2>2 DEF DeviceInv, CurInv, ResumePcs, DeviceType, DpmType
  <2>5. ThreadInv'
    <3> SUFFICES ASSUME NEW e \in Device
                 PROVE  /\ thread'[e] \notin SuspendStates
                        /\ thread'[e] \in ResumeStates =>
                             /\ dpm.pc \in ResumePcs
                             /\ e \notin Async => dpm.pc = "resume_dev" /\ dpm.cur = e
                        /\ thread'[e] = "resume_callback" => e \in is_suspended
      BY <1>1 DEF ThreadInv
    <3>1. CASE e = d
      BY <1>3, <1>5, <2>2, <3>1 DEF SuspendStates
    <3>2. CASE e # d
      BY <1>3, <2>2, <3>2 DEF DeviceInv, ThreadInv
    <3> QED
      BY <3>1, <3>2
  <2>6. SuspendedInv'
    <3>1. ASSUME NEW e \in is_suspended
          PROVE  e \notin completion /\ IF e \in Async THEN thread'[e] \in ResumeStates ELSE e \in ToSet(lists.suspended)
      BY <1>3, <2>2 DEF DeviceInv, SuspendedInv, ResumeStates, DeviceType
    <3> QED
      BY <1>1, <1>3, <2>1, <3>1 DEF DeviceInv, SuspendedInv, SuspendPcs, ResumePcs
  <2>7. ASSUME NEW e \in Device, d \in Children(e) PROVE e \notin is_suspended
    <3> SUFFICES ASSUME e \in is_suspended PROVE FALSE
      OBVIOUS
    <3>1. Parent[d] = e /\ e # None
      BY <2>7, DevicePMAssumption DEF Children
    <3>2. e \notin completion /\ (e \in Async \/ e \in ToSet(lists.suspended))
      BY <1>3 DEF DeviceInv, SuspendedInv
    <3>3. d \notin Async /\ e \notin Async
      BY <1>1, <3>1, <3>2 DEF WaitsFor
    <3>4. d = Head(lists.suspended) /\ lists.suspended # <<>>
      BY <1>3, <3>3 DEF DeviceInv, CurInv
    <3> QED
      BY <2>7, <3>2, <3>3, <3>4, ParentResumed
  <2>8. TreeInv'
    <3> SUFFICES ASSUME NEW e \in Device, NEW c \in Children(e)
                 PROVE  /\ e \in is_suspended => c \in is_suspended
                        /\ thread'[e] \notin {"barrier", "callback"}
                        /\ thread'[c] = "resume_callback" => e \notin is_suspended
      BY <1>1 DEF TreeInv
    <3>1. c \in Device
      BY DEF Children
    <3>2. thread'[e] \notin {"barrier", "callback"}
      BY <1>3, <2>2 DEF SuspendStates
    <3>3. thread'[c] = "resume_callback" => e \notin is_suspended
      BY <2>2, <2>7, <3>1 DEF DeviceInv, TreeInv
    <3> QED
      BY <3>2, <3>3 DEF DeviceInv, TreeInv
  <2>9. UsageInv'
    BY <1>1, <1>5, <2>2 DEF DeviceInv, UsageInv
  <2> QED
    BY <1>4, <2>3, <2>4, <2>5, <2>6, <2>8, <2>9 DEF DeviceInv
<1>6. CASE d \notin is_suspended
  <2>1. thread' = [thread EXCEPT ![d] = "none"] /\ completion' = completion \cup {d}
    BY <1>6 DEF wait_parent
  <2>2. \A e \in Device : thread'[e] = IF e = d THEN "none" ELSE thread[e]
    BY <2>1 DEF DeviceType
  <2>3. DeviceType'
    BY <1>1, <2>1 DEF DeviceType
  <2>4. CurInv'
    BY <1>1, <1>3, <1>6, <2>1, <2>2 DEF DeviceInv, CurInv, ResumePcs, DeviceType, DpmType
  <2>5. ThreadInv'
    <3> SUFFICES ASSUME NEW e \in Device
                 PROVE  /\ thread'[e] \notin SuspendStates
                        /\ thread'[e] \in ResumeStates =>
                             /\ dpm.pc \in ResumePcs
                             /\ e \notin Async => dpm.pc = "resume_dev" /\ dpm.cur = e
                        /\ thread'[e] = "resume_callback" => e \in is_suspended
      BY <1>1 DEF ThreadInv
    <3>1. CASE e = d
      BY <2>2, <3>1 DEF SuspendStates, ResumeStates
    <3>2. CASE e # d
      BY <1>3, <2>2, <3>2 DEF DeviceInv, ThreadInv
    <3> QED
      BY <3>1, <3>2
  <2>6. SuspendedInv'
    <3>1. ASSUME NEW e \in is_suspended
          PROVE  e \notin completion' /\ IF e \in Async THEN thread'[e] \in ResumeStates ELSE e \in ToSet(lists.suspended)
      BY <1>3, <1>6, <2>1, <2>2 DEF DeviceInv, SuspendedInv, DeviceType
    <3> QED
      BY <1>1, <1>3, <3>1 DEF DeviceInv, SuspendedInv, SuspendPcs, ResumePcs
  <2>7. TreeInv'
    <3> SUFFICES ASSUME NEW e \in Device, NEW c \in Children(e)
                 PROVE  /\ e \in is_suspended => c \in is_suspended
                        /\ thread'[e] \notin {"barrier", "callback"}
                        /\ thread'[c] = "resume_callback" => e \notin is_suspended
      BY <1>1 DEF TreeInv
    <3>1. c \in Device
      BY DEF Children
    <3> QED
      BY <1>3, <2>2, <3>1 DEF DeviceInv, TreeInv, SuspendStates
  <2>8. UsageInv'
    BY <1>1, <1>6, <2>2 DEF DeviceInv, UsageInv
  <2> QED
    BY <1>4, <2>3, <2>4, <2>5, <2>6, <2>7, <2>8 DEF DeviceInv
<1> QED
  BY <1>5, <1>6

LEMMA ResumeCallbackKept ==
  ASSUME DeviceType, DeviceInv, NEW d \in Device, resume_callback(d)
  PROVE  DeviceType' /\ DeviceInv'
<1>1. /\ thread[d] = "resume_callback" /\ thread' = [thread EXCEPT ![d] = "none"]
      /\ is_suspended' = is_suspended \ {d} /\ completion' = completion \cup {d}
      /\ usage' = [usage EXCEPT ![d] = @ - 1]
      /\ UNCHANGED <<lists, async_error, dpm>>
  BY DEF resume_callback
<1>2. thread[d] \in ResumeStates
  BY <1>1 DEF ResumeStates
<1>3. /\ dpm.pc \in ResumePcs
      /\ d \notin Async => dpm.pc = "resume_dev" /\ dpm.cur = d
      /\ \A e \in Device : thread[e] \notin SuspendStates
  BY <1>2, ResumeThread
<1>4. OrderInv' /\ EmptyInv'
  BY <1>1 DEF DeviceInv, OrderInv, EmptyInv
<1>5. d \in is_suspended /\ usage[d] = 1
  BY <1>1 DEF DeviceInv, ThreadInv, UsageInv
<1>6. /\ \A e \in Device : thread'[e] = IF e = d THEN "none" ELSE thread[e]
      /\ \A e \in Device : usage'[e] = IF e = d THEN 0 ELSE usage[e]
  BY <1>1, <1>5 DEF DeviceType
<1>7. DeviceType'
  <2>1. usage' \in [Device -> 0..1]
    BY <1>1, <1>5 DEF DeviceType
  <2> QED
    BY <1>1, <2>1 DEF DeviceType
<1>8. CurInv'
  BY <1>1, <1>3, <1>6 DEF DeviceInv, CurInv, ResumePcs, DeviceType, DpmType
<1>9. ThreadInv'
  <2> SUFFICES ASSUME NEW e \in Device
               PROVE  /\ thread'[e] \notin SuspendStates
                      /\ thread'[e] \in ResumeStates =>
                           /\ dpm.pc \in ResumePcs
                           /\ e \notin Async => dpm.pc = "resume_dev" /\ dpm.cur = e
                      /\ thread'[e] = "resume_callback" => e \in is_suspended'
    BY <1>1 DEF ThreadInv
  <2>1. CASE e = d
    BY <1>6, <2>1 DEF SuspendStates, ResumeStates
  <2>2. CASE e # d
    BY <1>1, <1>3, <1>6, <2>2 DEF DeviceInv, ThreadInv
  <2> QED
    BY <2>1, <2>2
<1>10. SuspendedInv'
  <2>1. ASSUME NEW e \in is_suspended'
        PROVE  e \notin completion' /\ IF e \in Async THEN thread'[e] \in ResumeStates ELSE e \in ToSet(lists.suspended)
    BY <1>1, <1>3, <1>6 DEF DeviceInv, SuspendedInv, DeviceType
  <2> QED
    BY <1>1, <1>3, <2>1 DEF SuspendedInv, SuspendPcs, ResumePcs
<1>11. TreeInv'
  <2> SUFFICES ASSUME NEW e \in Device, NEW c \in Children(e)
               PROVE  /\ e \in is_suspended' => c \in is_suspended'
                      /\ thread'[e] \notin {"barrier", "callback"}
                      /\ thread'[c] = "resume_callback" => e \notin is_suspended'
    BY DEF TreeInv
  <2>1. c \in Device
    BY DEF Children
  <2>2. c = d => e \notin is_suspended
    BY <1>1 DEF DeviceInv, TreeInv
  <2>3. e \in is_suspended' => c \in is_suspended'
    BY <1>1, <2>2 DEF DeviceInv, TreeInv
  <2> QED
    BY <1>1, <1>3, <1>6, <2>1, <2>3 DEF DeviceInv, TreeInv, SuspendStates
<1>12. UsageInv'
  BY <1>1, <1>6 DEF DeviceInv, UsageInv
<1> QED
  BY <1>4, <1>7, <1>8, <1>9, <1>10, <1>11, <1>12 DEF DeviceInv

LEMMA DpmCur ==
  ASSUME dpm \in DpmType, NEW l \in DpmPcs, NEW c \in Device \cup {None},
         dpm' = [dpm EXCEPT !.pc = l, !.cur = c]
  PROVE  /\ dpm' \in DpmType /\ dpm'.pc = l /\ dpm'.cur = c /\ (dpm'.error <=> dpm.error)
BY DEF DpmType

LEMMA PrepareKept ==
  ASSUME DeviceType, DeviceInv, dpm_prepare
  PROVE  DeviceType' /\ DeviceInv'
<1>1. /\ dpm.pc = "prepare" /\ lists.dpm # <<>>
      /\ UNCHANGED <<is_suspended, completion, async_error, usage, thread>>
  BY DEF dpm_prepare, At
<1>2. CASE /\ lists' = [lists EXCEPT !.dpm = Tail(@), !.prepared = Append(@, Head(lists.dpm))]
           /\ UNCHANGED dpm
  <2>1. lists.suspended = <<>> /\ lists.noirq = <<>>
    BY <1>1 DEF DeviceInv, EmptyInv, NoirqPcs
  <2>2. lists' \in ListType /\ OrderInv' /\ lists'.suspended = <<>> /\ lists'.noirq = <<>>
    BY <1>1, <1>2, <2>1, PreparedMove DEF DeviceType, DeviceInv
  <2>3. \A d \in Device : thread[d] \notin SuspendStates /\ thread[d] \notin ResumeStates
    BY <1>1 DEF DeviceInv, ThreadInv, SuspendPcs, ResumePcs
  <2>4. DeviceType'
    BY <1>1, <1>2, <2>2 DEF DeviceType
  <2>5. EmptyInv' /\ CurInv'
    BY <1>1, <1>2, <2>2 DEF DeviceInv, EmptyInv, CurInv, SuspendPcs, NoirqPcs
  <2>6. ThreadInv'
    BY <1>1, <2>3 DEF ThreadInv, ResumeStates
  <2>7. SuspendedInv'
    <3>1. is_suspended = {}
      BY <1>1 DEF DeviceInv, SuspendedInv
    <3> QED
      BY <1>1, <1>2, <3>1 DEF SuspendedInv, SuspendPcs, ResumePcs
  <2>8. TreeInv' /\ UsageInv'
    BY <1>1 DEF DeviceInv, TreeInv, UsageInv
  <2> QED
    BY <2>2, <2>4, <2>5, <2>6, <2>7, <2>8 DEF DeviceInv
<1>3. CASE /\ dpm' = [dpm EXCEPT !.pc = "started", !.error = TRUE]
           /\ UNCHANGED lists
  <2>1. dpm' \in DpmType /\ dpm'.pc = "started" /\ dpm'.cur = dpm.cur /\ dpm'.error
    BY <1>3 DEF DeviceType, DpmType, DpmPcs
  <2> QED
    BY <1>1, <1>3, <2>1, PhaseStep DEF PhaseChange, DeviceType
<1> QED
  BY <1>2, <1>3 DEF dpm_prepare

LEMMA DeviceSuspendKept ==
  ASSUME DeviceType, DeviceInv, device_suspend
  PROVE  DeviceType' /\ DeviceInv'
<1> DEFINE d == Last(lists.prepared)
           r == lists.suspended \o lists.noirq \o lists.dpm
<1>1. /\ dpm.pc = "suspend" /\ lists.prepared # <<>>
      /\ completion' = completion \ {d}
      /\ thread' = [thread EXCEPT ![d] = "wait_children"]
      /\ UNCHANGED <<is_suspended, async_error, usage>>
  BY DEF device_suspend, At
<1>2. lists \in ListType /\ OrderInv /\ dpm \in DpmType
  BY DEF DeviceType, DeviceInv
<1>3. lists.noirq = <<>> /\ lists.dpm = <<>> /\ dpm.cur = None /\ ~dpm.error /\ None \notin Device
  BY <1>1, DevicePMAssumption DEF DeviceInv, EmptyInv, CurInv, NoirqPcs, SuspendPcs
<1>4. /\ lists.prepared \in Seq(Device) /\ r \in Seq(Device) /\ lists.prepared \o r = Devices
      /\ ToSet(r) = ToSet(lists.suspended) \cup ToSet(lists.noirq) \cup ToSet(lists.dpm)
      /\ ToSet(lists.prepared) \cap (ToSet(lists.suspended) \cup ToSet(lists.noirq)) = {}
  BY <1>2, ListsApart
<1> HIDE DEF r
<1>5. d \in Device /\ d \in ToSet(lists.prepared)
  <2>1. lists.prepared \in Seq(Device) /\ lists.prepared # <<>>
    BY <1>1, <1>4
  <2> QED
    BY <2>1, LastSplit
<1>6. Children(d) \subseteq ToSet(r)
  BY <1>1, <1>4, ChildrenLater
<1>7. Children(d) \subseteq ToSet(lists.suspended) /\ d \notin ToSet(lists.suspended)
  BY <1>3, <1>4, <1>5, <1>6, ToSetEmpty
<1>8. d \notin is_suspended
  BY <1>1, <1>3, <1>5, <1>7, ToSetEmpty DEF DeviceInv, SuspendedInv, ResumePcs
<1>9. thread[d] \notin {"barrier", "callback"} /\ \A e \in Device : thread[e] \notin ResumeStates
  BY <1>1, <1>5, <1>7 DEF DeviceInv, ThreadInv, SuspendStates, ResumePcs
<1> HIDE DEF d
<1>10. \A e \in Device : thread'[e] = IF e = d THEN "wait_children" ELSE thread[e]
  BY <1>1, <1>5 DEF DeviceType
<1>11. TreeInv'
  <2> SUFFICES ASSUME NEW e \in Device, NEW c \in Children(e)
               PROVE  /\ e \in is_suspended => c \in is_suspended
                      /\ thread'[e] \in {"barrier", "callback"} => c \in is_suspended
                      /\ thread'[c] # "resume_callback"
    BY <1>1 DEF TreeInv
  <2>1. c \in Device
    BY DEF Children
  <2>2. thread'[c] # "resume_callback"
    BY <1>9, <1>10, <2>1 DEF ResumeStates
  <2> QED
    BY <1>10, <2>2 DEF DeviceInv, TreeInv
<1>12. UsageInv'
  BY <1>1, <1>8, <1>9, <1>10 DEF DeviceInv, UsageInv
<1>13. thread' \in [Device -> {"none"} \cup SuspendStates \cup ResumeStates] /\ completion' \subseteq Device
  BY <1>1 DEF DeviceType, SuspendStates
<1>14. ASSUME dpm' \in DpmType, dpm'.pc \in SuspendPcs, ToSet(lists.suspended) \subseteq ToSet(lists'.suspended),
              IF d \in Async THEN d \in ToSet(lists'.suspended) ELSE dpm'.pc = "suspend_dev" /\ dpm'.cur = d
       PROVE  ThreadInv'
  <2> SUFFICES ASSUME NEW e \in Device
               PROVE  /\ thread'[e] \in SuspendStates =>
                           /\ dpm'.pc \in SuspendPcs
                           /\ IF e \in Async THEN e \in ToSet(lists'.suspended)
                                             ELSE dpm'.pc = "suspend_dev" /\ dpm'.cur = e
                           /\ Children(e) \subseteq ToSet(lists'.suspended)
                           /\ e \notin completion' /\ e \notin is_suspended
                      /\ thread'[e] \notin ResumeStates
    BY <1>1 DEF ThreadInv, ResumeStates
  <2>1. CASE e = d
    BY <1>1, <1>7, <1>8, <1>10, <1>14, <2>1 DEF ResumeStates
  <2>2. CASE e # d
    <3>1. thread'[e] = thread[e] /\ thread[e] \notin ResumeStates
      BY <1>9, <1>10, <2>2
    <3>2. ASSUME thread[e] \in SuspendStates
          PROVE  /\ e \in Async /\ e \in ToSet(lists.suspended) /\ e \notin completion
                 /\ Children(e) \subseteq ToSet(lists.suspended) /\ e \notin is_suspended
      BY <1>1, <3>2 DEF DeviceInv, ThreadInv
    <3> QED
      BY <1>1, <1>14, <3>1, <3>2
  <2> QED
    BY <2>1, <2>2
<1>15. CASE d \in Async
  <2>1. /\ lists' = LastSuspended
        /\ Goto(IF async_error THEN "suspend_sync" ELSE "suspend")
    BY <1>15 DEF device_suspend, d
  <2>2. /\ lists' \in ListType /\ OrderInv'
        /\ lists'.noirq = lists.noirq /\ lists'.dpm = lists.dpm
        /\ ToSet(lists'.suspended) = ToSet(lists.suspended) \cup {d}
    BY <1>1, <1>2, <2>1, SuspendedMove DEF d
  <2>3. /\ dpm' \in DpmType /\ dpm'.pc = (IF async_error THEN "suspend_sync" ELSE "suspend")
        /\ dpm'.cur = dpm.cur /\ (dpm'.error <=> dpm.error)
    BY <1>2, <2>1, DpmGoto DEF DpmPcs
  <2>4. DeviceType'
    BY <1>1, <1>13, <2>2, <2>3 DEF DeviceType
  <2>5. EmptyInv'
    BY <1>1, <1>3, <2>2, <2>3 DEF EmptyInv, NoirqPcs, SuspendPcs
  <2>6. CurInv'
    BY <1>3, <2>3 DEF CurInv
  <2>7. ThreadInv'
    BY <1>14, <1>15, <2>2, <2>3 DEF SuspendPcs
  <2>8. SuspendedInv'
    <3>1. is_suspended \subseteq ToSet(lists.suspended)
      BY <1>1, <1>3, ToSetEmpty DEF DeviceInv, SuspendedInv, ResumePcs, DeviceType
    <3>2. ASSUME ~async_error, NEW e \in ToSet(lists'.suspended) \cup {dpm'.cur}, e \in Device, thread'[e] = "none"
          PROVE  e \in is_suspended
      <4>1. e # d /\ thread[e] = "none" /\ e \in ToSet(lists.suspended)
        BY <1>3, <1>10, <2>2, <2>3, <3>2
      <4> QED
        BY <1>1, <3>2, <4>1 DEF DeviceInv, SuspendedInv, SuspendPcs
    <3> QED
      BY <1>1, <2>2, <2>3, <3>1, <3>2 DEF SuspendedInv, SuspendPcs, ResumePcs
  <2> QED
    BY <1>11, <1>12, <2>2, <2>4, <2>5, <2>6, <2>7, <2>8 DEF DeviceInv
<1>16. CASE d \notin Async
  <2>1. dpm' = [dpm EXCEPT !.pc = "suspend_dev", !.cur = d] /\ lists' = lists
    BY <1>16 DEF device_suspend, d
  <2>2. dpm' \in DpmType /\ dpm'.pc = "suspend_dev" /\ dpm'.cur = d /\ (dpm'.error <=> dpm.error)
    BY <1>2, <1>5, <2>1, DpmCur DEF DpmPcs
  <2>3. DeviceType'
    BY <1>1, <1>13, <2>1, <2>2 DEF DeviceType
  <2>4. OrderInv' /\ EmptyInv'
    BY <1>1, <1>2, <1>3, <2>1, <2>2 DEF OrderInv, EmptyInv, NoirqPcs, SuspendPcs
  <2>5. CurInv'
    BY <1>1, <1>3, <1>16, <2>1, <2>2 DEF CurInv, d
  <2>6. ThreadInv'
    BY <1>14, <1>16, <2>1, <2>2 DEF SuspendPcs
  <2>7. SuspendedInv'
    <3>1. is_suspended \subseteq ToSet(lists.suspended)
      BY <1>1, <1>3, ToSetEmpty DEF DeviceInv, SuspendedInv, ResumePcs, DeviceType
    <3>2. ASSUME ~async_error, NEW e \in ToSet(lists'.suspended) \cup {dpm'.cur}, e \in Device, thread'[e] = "none"
          PROVE  e \in is_suspended
      <4>1. e # d /\ thread[e] = "none" /\ e \in ToSet(lists.suspended)
        BY <1>10, <2>1, <2>2, <3>2
      <4> QED
        BY <1>1, <3>2, <4>1 DEF DeviceInv, SuspendedInv, SuspendPcs
    <3> QED
      BY <1>1, <2>1, <2>2, <3>1, <3>2 DEF SuspendedInv, SuspendPcs, ResumePcs
  <2> QED
    BY <1>11, <1>12, <2>3, <2>4, <2>5, <2>6, <2>7 DEF DeviceInv
<1> QED
  BY <1>15, <1>16

LEMMA SuspendReturnsKept ==
  ASSUME DeviceType, DeviceInv, device_suspend_returns
  PROVE  DeviceType' /\ DeviceInv'
<1> DEFINE d == dpm.cur
           failed == dpm.error \/ async_error
<1>1. /\ dpm.pc = "suspend_dev" /\ thread[d] = "none"
      /\ lists' = IF dpm.error THEN lists ELSE LastSuspended
      /\ dpm' = [dpm EXCEPT !.pc = IF failed THEN "suspend_sync" ELSE "suspend", !.cur = None]
      /\ UNCHANGED <<is_suspended, completion, async_error, usage, thread>>
  BY DEF device_suspend_returns, At
<1>2. /\ lists \in ListType /\ OrderInv /\ dpm \in DpmType
      /\ lists.prepared # <<>> /\ d = Last(lists.prepared) /\ d \notin Async
      /\ lists.noirq = <<>> /\ lists.dpm = <<>> /\ None \notin Device
      /\ dpm.error => d \notin is_suspended
  BY <1>1, DevicePMAssumption DEF DeviceType, DeviceInv, CurInv, EmptyInv, NoirqPcs, SuspendPcs
<1>3. /\ dpm' \in DpmType /\ dpm'.pc = (IF failed THEN "suspend_sync" ELSE "suspend")
      /\ dpm'.cur = None /\ (dpm'.error <=> dpm.error)
  BY <1>1, <1>2, DpmCur DEF DpmPcs
<1>4. /\ lists' \in ListType /\ OrderInv' /\ lists'.noirq = <<>> /\ lists'.dpm = <<>>
      /\ ToSet(lists'.suspended) = IF dpm.error THEN ToSet(lists.suspended) ELSE ToSet(lists.suspended) \cup {d}
  <2>1. CASE dpm.error
    BY <1>1, <1>2, <2>1 DEF OrderInv
  <2>2. CASE ~dpm.error
    <3>1. lists' = LastSuspended
      BY <1>1, <2>2
    <3> QED
      BY <1>2, <2>2, <3>1, SuspendedMove
  <2> QED
    BY <2>1, <2>2
<1>5. DeviceType'
  BY <1>1, <1>3, <1>4 DEF DeviceType
<1>6. EmptyInv'
  BY <1>1, <1>3, <1>4 DEF EmptyInv, NoirqPcs, SuspendPcs
<1>7. CurInv'
  BY <1>3 DEF CurInv
<1>8. ThreadInv'
  <2> SUFFICES ASSUME NEW e \in Device
               PROVE  /\ thread[e] \in SuspendStates =>
                           /\ dpm'.pc \in SuspendPcs
                           /\ IF e \in Async THEN e \in ToSet(lists'.suspended)
                                             ELSE dpm'.pc = "suspend_dev" /\ dpm'.cur = e
                           /\ Children(e) \subseteq ToSet(lists'.suspended)
                           /\ e \notin completion /\ e \notin is_suspended
                      /\ thread[e] \notin ResumeStates
    BY <1>1 DEF ThreadInv, ResumeStates
  <2>1. thread[e] \notin ResumeStates
    BY <1>1 DEF DeviceInv, ThreadInv, ResumePcs
  <2>2. ASSUME thread[e] \in SuspendStates
        PROVE  /\ e \in Async /\ e \in ToSet(lists.suspended) /\ e \notin completion
               /\ Children(e) \subseteq ToSet(lists.suspended) /\ e \notin is_suspended
    BY <1>1, <2>2 DEF DeviceInv, ThreadInv, SuspendStates
  <2> QED
    BY <1>3, <1>4, <2>1, <2>2 DEF SuspendPcs
<1>9. SuspendedInv'
  <2>1. is_suspended \subseteq ToSet(lists'.suspended)
    BY <1>1, <1>2, <1>4, ToSetEmpty DEF DeviceInv, SuspendedInv, ResumePcs, DeviceType
  <2>2. ASSUME ~async_error, NEW e \in ToSet(lists'.suspended) \cup {dpm'.cur}, e \in Device, thread[e] = "none"
        PROVE  e \in is_suspended
    <3>1. e \in ToSet(lists.suspended) \cup {d}
      BY <1>2, <1>3, <1>4, <2>2
    <3> QED
      BY <1>1, <2>2, <3>1 DEF DeviceInv, SuspendedInv, SuspendPcs
  <2> QED
    BY <1>1, <1>3, <2>1, <2>2 DEF SuspendedInv, SuspendPcs, ResumePcs
<1>10. TreeInv' /\ UsageInv'
  BY <1>1 DEF DeviceInv, TreeInv, UsageInv
<1> QED
  BY <1>4, <1>5, <1>6, <1>7, <1>8, <1>9, <1>10 DEF DeviceInv

(* The phase without interrupts.                                           *)
LEMMA NoirqKept ==
  ASSUME DeviceType, DeviceInv, device_suspend_noirq \/ device_resume_noirq
  PROVE  DeviceType' /\ DeviceInv'
<1>1. /\ dpm.pc \in {"suspend_noirq_loop", "resume_noirq"}
      /\ UNCHANGED <<is_suspended, completion, async_error, usage, thread>>
  BY DEF device_suspend_noirq, device_resume_noirq, At
<1>2. /\ lists \in ListType /\ OrderInv /\ lists.prepared = <<>> /\ lists.dpm = <<>>
      /\ dpm.cur = None
  BY <1>1 DEF DeviceType, DeviceInv, EmptyInv, CurInv, NoirqPcs
<1>3. ASSUME lists' \in ListType, OrderInv', dpm' = dpm, lists'.prepared = <<>>, lists'.dpm = <<>>,
             ToSet(lists.suspended) \cup ToSet(lists.noirq) = ToSet(lists'.suspended) \cup ToSet(lists'.noirq)
      PROVE  DeviceType' /\ DeviceInv'
  <2>1. DeviceType'
    BY <1>1, <1>3 DEF DeviceType
  <2>2. EmptyInv' /\ CurInv'
    BY <1>1, <1>3 DEF DeviceInv, EmptyInv, CurInv, NoirqPcs, SuspendPcs
  <2>3. \A e \in Device : thread[e] \notin SuspendStates /\ thread[e] \notin ResumeStates
    BY <1>1 DEF DeviceInv, ThreadInv, SuspendPcs, ResumePcs
  <2>4. ThreadInv'
    BY <1>1, <2>3 DEF ThreadInv, ResumeStates
  <2>5. SuspendedInv'
    <3>1. is_suspended \subseteq ToSet(lists'.suspended) \cup ToSet(lists'.noirq) \cup {dpm.cur}
      BY <1>1, <1>3 DEF DeviceInv, SuspendedInv, ResumePcs
    <3> QED
      BY <1>1, <1>3, <3>1 DEF DeviceInv, SuspendedInv, SuspendPcs, ResumePcs
  <2>6. TreeInv' /\ UsageInv'
    BY <1>1 DEF DeviceInv, TreeInv, UsageInv
  <2> QED
    BY <1>3, <2>1, <2>2, <2>4, <2>5, <2>6 DEF DeviceInv
<1>4. CASE device_suspend_noirq
  <2>1. CASE /\ lists' = [lists EXCEPT !.suspended = Front(@), !.noirq = <<Last(lists.suspended)>> \o @]
             /\ UNCHANGED dpm
    <3>1. lists.suspended # <<>>
      BY <1>4 DEF device_suspend_noirq
    <3>2. /\ lists' \in ListType /\ OrderInv'
          /\ lists'.prepared = lists.prepared /\ lists'.dpm = lists.dpm
          /\ ToSet(lists.suspended) \cup ToSet(lists.noirq) = ToSet(lists'.suspended) \cup ToSet(lists'.noirq)
      BY <1>2, <2>1, <3>1, NoirqMove
    <3> QED
      BY <1>2, <1>3, <2>1, <3>2
  <2>2. CASE /\ dpm' = [dpm EXCEPT !.pc = "resume_noirq", !.error = TRUE]
             /\ UNCHANGED lists
    <3>1. dpm' \in DpmType /\ dpm'.pc = "resume_noirq" /\ dpm'.cur = dpm.cur
      BY <2>2 DEF DeviceType, DpmType, DpmPcs
    <3>2. dpm.pc = "suspend_noirq_loop" /\ async_error' \in BOOLEAN
      BY <1>1, <1>4 DEF device_suspend_noirq, At, DeviceType
    <3> QED
      BY <1>1, <2>2, <3>1, <3>2, PhaseStep DEF PhaseChange
  <2> QED
    BY <1>4, <2>1, <2>2 DEF device_suspend_noirq
<1>5. CASE device_resume_noirq
  <2>1. /\ lists.noirq # <<>> /\ dpm' = dpm
        /\ lists' = [lists EXCEPT !.noirq = Tail(@), !.suspended = Append(@, Head(lists.noirq))]
    BY <1>5 DEF device_resume_noirq
  <2>2. /\ lists' \in ListType /\ OrderInv'
        /\ lists'.prepared = lists.prepared /\ lists'.dpm = lists.dpm
        /\ ToSet(lists.suspended) \cup ToSet(lists.noirq) = ToSet(lists'.suspended) \cup ToSet(lists'.noirq)
    BY <1>2, <2>1, ResumeNoirqMove
  <2> QED
    BY <1>2, <1>3, <2>1, <2>2
<1> QED
  BY <1>4, <1>5

LEMMA DpmResumeKept ==
  ASSUME DeviceType, DeviceInv, dpm_resume
  PROVE  DeviceType' /\ DeviceInv'
<1>1. /\ dpm.pc = "resume" /\ async_error' = FALSE /\ completion' = completion \ ToSet(lists.suspended)
      /\ thread' = [d \in Device |-> IF d \in Async \cap ToSet(lists.suspended)
                                     THEN "wait_parent" ELSE thread[d]]
      /\ Goto("resume_loop") /\ UNCHANGED <<lists, is_suspended, usage>>
  BY DEF dpm_resume, At
<1>2. \A d \in Device : thread'[d] = IF d \in Async \cap ToSet(lists.suspended) THEN "wait_parent" ELSE thread[d]
  BY <1>1
<1>3. \A d \in Device : thread[d] = "none"
  BY <1>1 DEF DeviceInv, ThreadInv, SuspendPcs, ResumePcs, DeviceType
<1>4. dpm' \in DpmType /\ dpm'.pc = "resume_loop" /\ dpm'.cur = dpm.cur
  BY <1>1, DpmGoto DEF DeviceType, DpmPcs
<1>5. DeviceType'
  <2>1. thread' \in [Device -> {"none"} \cup SuspendStates \cup ResumeStates]
    BY <1>1, <1>3 DEF ResumeStates
  <2>2. async_error' \in BOOLEAN
    BY <1>1
  <2> QED
    BY <1>1, <1>4, <2>1, <2>2 DEF DeviceType
<1>6. OrderInv' /\ EmptyInv'
  BY <1>1, <1>4 DEF DeviceInv, OrderInv, EmptyInv, NoirqPcs, SuspendPcs
<1>7. CurInv'
  BY <1>1, <1>4 DEF DeviceInv, CurInv
<1>8. ThreadInv'
  BY <1>2, <1>3, <1>4 DEF ThreadInv, SuspendStates, ResumeStates, ResumePcs
<1>9. SuspendedInv'
  <2>1. is_suspended \subseteq ToSet(lists.suspended)
    <3>1. lists.noirq = <<>> /\ dpm.cur = None /\ None \notin Device
      BY <1>1, DevicePMAssumption DEF DeviceInv, EmptyInv, CurInv, NoirqPcs
    <3> QED
      BY <1>1, <3>1, ToSetEmpty DEF DeviceInv, SuspendedInv, ResumePcs, DeviceType
  <2>2. ASSUME NEW e \in is_suspended
        PROVE  e \notin completion' /\ IF e \in Async THEN thread'[e] \in ResumeStates ELSE e \in ToSet(lists.suspended)
    BY <1>1, <1>2, <2>1 DEF ResumeStates, DeviceType
  <2> QED
    BY <1>1, <1>4, <2>2 DEF SuspendedInv, SuspendPcs, ResumePcs
<1>10. TreeInv'
  <2> SUFFICES ASSUME NEW e \in Device, NEW c \in Children(e)
               PROVE  /\ e \in is_suspended => c \in is_suspended
                      /\ thread'[e] \notin {"barrier", "callback"}
                      /\ thread'[c] # "resume_callback"
    BY <1>1 DEF TreeInv
  <2>1. c \in Device
    BY DEF Children
  <2> QED
    BY <1>2, <1>3, <2>1 DEF DeviceInv, TreeInv
<1>11. UsageInv'
  BY <1>1, <1>2, <1>3 DEF DeviceInv, UsageInv
<1> QED
  BY <1>5, <1>6, <1>7, <1>8, <1>9, <1>10, <1>11 DEF DeviceInv

(* The loop of dpm_resume: the first suspended device, which is not        *)
(* suspended any more or has a thread, goes to the other list.             *)
LEMMA ResumedKept ==
  ASSUME DeviceType, DeviceInv, dpm.pc \in ResumePcs, lists.suspended # <<>>, lists' = FirstResumed,
         UNCHANGED <<is_suspended, completion, async_error, usage, thread>>,
         dpm' \in DpmType, dpm'.pc = "resume_loop", dpm'.cur = None,
         LET d == Head(lists.suspended)
         IN  IF dpm.pc = "resume_loop" THEN d \in Async ELSE dpm.cur = d /\ thread[d] = "none"
  PROVE  DeviceType' /\ DeviceInv'
<1> DEFINE d == Head(lists.suspended)
<1>1. /\ lists' \in ListType /\ OrderInv' /\ lists'.noirq = lists.noirq
      /\ ToSet(lists.suspended) = ToSet(lists'.suspended) \cup {d}
  BY ResumedMove DEF DeviceType, DeviceInv
<1>2. d \in Async \/ d \notin is_suspended
  BY DEF DeviceInv, CurInv, ResumePcs
<1>3. DeviceType'
  BY <1>1 DEF DeviceType
<1>4. EmptyInv'
  BY <1>1 DEF DeviceInv, EmptyInv, NoirqPcs, SuspendPcs, ResumePcs
<1>5. CurInv'
  BY DEF CurInv
<1>6. ThreadInv'
  <2> SUFFICES ASSUME NEW e \in Device
               PROVE  /\ thread[e] \notin SuspendStates
                      /\ thread[e] \in ResumeStates => e \in Async
                      /\ thread[e] = "resume_callback" => e \in is_suspended
    BY DEF ThreadInv, ResumePcs
  <2>1. thread[e] \notin SuspendStates
    BY DEF DeviceInv, ThreadInv, SuspendPcs, ResumePcs
  <2>2. thread[e] \in ResumeStates => e \in Async
    <3>1. thread[e] = "none" => thread[e] \notin ResumeStates
      BY DEF ResumeStates
    <3> QED
      BY <3>1 DEF DeviceInv, ThreadInv, ResumePcs
  <2> QED
    BY <2>1, <2>2 DEF DeviceInv, ThreadInv
<1>7. SuspendedInv'
  <2>1. ASSUME NEW e \in is_suspended
        PROVE  e \notin completion /\ IF e \in Async THEN thread[e] \in ResumeStates ELSE e \in ToSet(lists'.suspended)
    BY <1>1, <1>2 DEF DeviceInv, SuspendedInv
  <2> QED
    BY <2>1 DEF SuspendedInv, SuspendPcs, ResumePcs
<1>8. TreeInv' /\ UsageInv'
  BY DEF DeviceInv, TreeInv, UsageInv
<1> QED
  BY <1>1, <1>3, <1>4, <1>5, <1>6, <1>7, <1>8 DEF DeviceInv

LEMMA ResumeNextKept ==
  ASSUME DeviceType, DeviceInv, resume_next \/ device_resume_returns
  PROVE  DeviceType' /\ DeviceInv'
<1> DEFINE d == Head(lists.suspended)
<1>1. CASE device_resume_returns
  <2>1. /\ dpm.pc = "resume_dev" /\ thread[dpm.cur] = "none" /\ lists' = FirstResumed
        /\ dpm' = [dpm EXCEPT !.pc = "resume_loop", !.cur = None]
        /\ UNCHANGED <<is_suspended, completion, async_error, usage, thread>>
    BY <1>1 DEF device_resume_returns, At
  <2>2. lists.suspended # <<>> /\ dpm.cur = d
    BY <2>1 DEF DeviceInv, CurInv
  <2>3. dpm' \in DpmType /\ dpm'.pc = "resume_loop" /\ dpm'.cur = None
    BY <2>1, DpmCur DEF DeviceType, DpmPcs
  <2> QED
    BY <2>1, <2>2, <2>3, ResumedKept DEF ResumePcs
<1>2. CASE resume_next /\ d \in Async
  <2>1. /\ dpm.pc = "resume_loop" /\ lists.suspended # <<>> /\ lists' = FirstResumed
        /\ UNCHANGED <<is_suspended, completion, async_error, usage, thread, dpm>>
    BY <1>2 DEF resume_next, At
  <2>2. dpm' \in DpmType /\ dpm'.pc = "resume_loop" /\ dpm'.cur = None
    BY <2>1 DEF DeviceType, DeviceInv, CurInv
  <2> QED
    BY <1>2, <2>1, <2>2, ResumedKept DEF ResumePcs
<1>3. CASE resume_next /\ d \notin Async
  <2>1. /\ dpm.pc = "resume_loop" /\ lists.suspended # <<>>
        /\ thread' = [thread EXCEPT ![d] = "wait_parent"]
        /\ dpm' = [dpm EXCEPT !.pc = "resume_dev", !.cur = d]
        /\ UNCHANGED <<lists, is_suspended, completion, async_error, usage>>
    BY <1>3 DEF resume_next, At
  <2>2. d \in Device
    <3>1. lists.suspended \in Seq(Device)
      BY DEF DeviceType, ListType
    <3> QED
      BY <2>1, <3>1, HeadSplit
  <2>3. dpm' \in DpmType /\ dpm'.pc = "resume_dev" /\ dpm'.cur = d
    BY <2>1, <2>2, DpmCur DEF DeviceType, DpmPcs
  <2>4. \A e \in Device : thread'[e] = IF e = d THEN "wait_parent" ELSE thread[e]
    BY <2>1, <2>2 DEF DeviceType
  <2>5. \A e \in Device : thread[e] \notin SuspendStates
    BY <2>1 DEF DeviceInv, ThreadInv, SuspendPcs
  <2>6. DeviceType'
    BY <2>1, <2>3 DEF DeviceType, ResumeStates
  <2>7. OrderInv' /\ EmptyInv'
    BY <2>1, <2>3 DEF DeviceInv, OrderInv, EmptyInv, NoirqPcs, SuspendPcs
  <2>8. CurInv'
    BY <1>3, <2>1, <2>2, <2>3, <2>4 DEF CurInv
  <2>9. ThreadInv'
    <3> SUFFICES ASSUME NEW e \in Device
                 PROVE  /\ thread'[e] \notin SuspendStates
                        /\ thread'[e] \in ResumeStates => e \in Async \/ e = d
                        /\ thread'[e] = "resume_callback" => e \in is_suspended
      BY <2>1, <2>3 DEF ThreadInv, ResumePcs
    <3>1. CASE e = d
      BY <2>4, <3>1 DEF SuspendStates
    <3>2. CASE e # d
      BY <2>1, <2>4, <2>5, <3>2 DEF DeviceInv, ThreadInv
    <3> QED
      BY <3>1, <3>2
  <2>10. SuspendedInv'
    <3>1. ASSUME NEW e \in is_suspended
          PROVE  e \notin completion /\ IF e \in Async THEN thread'[e] \in ResumeStates ELSE e \in ToSet(lists.suspended)
      BY <2>1, <2>4 DEF DeviceInv, SuspendedInv, ResumePcs, ResumeStates, DeviceType
    <3> QED
      BY <2>1, <2>3, <3>1 DEF SuspendedInv, SuspendPcs, ResumePcs
  <2>11. TreeInv'
    <3> SUFFICES ASSUME NEW e \in Device, NEW c \in Children(e)
                 PROVE  /\ e \in is_suspended => c \in is_suspended
                        /\ thread'[e] \notin {"barrier", "callback"}
                        /\ thread'[c] = "resume_callback" => e \notin is_suspended
      BY <2>1 DEF TreeInv
    <3>1. c \in Device
      BY DEF Children
    <3> QED
      BY <2>4, <2>5, <3>1 DEF DeviceInv, TreeInv, SuspendStates
  <2>12. UsageInv'
    BY <2>1, <2>4, <2>5 DEF DeviceInv, UsageInv, SuspendStates
  <2> QED
    BY <2>6, <2>7, <2>8, <2>9, <2>10, <2>11, <2>12 DEF DeviceInv
<1> QED
  BY <1>1, <1>2, <1>3

LEMMA CompleteKept ==
  ASSUME DeviceType, DeviceInv, dpm_complete
  PROVE  DeviceType' /\ DeviceInv'
<1>1. /\ dpm.pc = "resume_loop" /\ lists.suspended = <<>> /\ \A d \in Device : thread[d] = "none"
      /\ lists' = [lists EXCEPT !.prepared = <<>>, !.dpm = lists.prepared \o @]
      /\ Goto("resumed")
      /\ UNCHANGED <<is_suspended, completion, async_error, usage, thread>>
  BY DEF dpm_complete, At
<1>2. lists.noirq = <<>>
  BY <1>1 DEF DeviceInv, EmptyInv, NoirqPcs
<1>3. /\ lists' \in ListType /\ OrderInv'
      /\ lists'.suspended = <<>> /\ lists'.noirq = <<>> /\ lists'.prepared = <<>>
  BY <1>1, <1>2, CompletedMove DEF DeviceType, DeviceInv
<1>4. dpm' \in DpmType /\ dpm'.pc = "resumed" /\ dpm'.cur = dpm.cur
  BY <1>1, DpmGoto DEF DeviceType, DpmPcs
<1>5. is_suspended = {}
  <2> SUFFICES ASSUME NEW d \in is_suspended PROVE FALSE
    OBVIOUS
  <2>1. d \in Device /\ thread[d] = "none" /\ d \notin ToSet(lists.suspended)
    BY <1>1, ToSetEmpty DEF DeviceType
  <2> QED
    BY <1>1, <2>1 DEF DeviceInv, SuspendedInv, ResumePcs, ResumeStates
<1>6. DeviceType'
  BY <1>1, <1>3, <1>4 DEF DeviceType
<1>7. EmptyInv' /\ CurInv'
  BY <1>1, <1>3, <1>4 DEF DeviceInv, EmptyInv, CurInv, NoirqPcs, SuspendPcs
<1>8. ThreadInv' /\ SuspendedInv'
  BY <1>1, <1>4, <1>5 DEF ThreadInv, SuspendedInv, SuspendStates, ResumeStates, SuspendPcs, ResumePcs
<1>9. TreeInv' /\ UsageInv'
  BY <1>1 DEF DeviceInv, TreeInv, UsageInv
<1> QED
  BY <1>3, <1>6, <1>7, <1>8, <1>9 DEF DeviceInv

(* The steps of dpm.                                                       *)
LEMMA DpmKept ==
  ASSUME DeviceType, DeviceInv, Dpm
  PROVE  DeviceType' /\ DeviceInv'
<1>1. CASE dpm_suspend
  <2>1. /\ dpm.pc = "prepare" /\ lists.dpm = <<>> /\ async_error' \in BOOLEAN /\ Goto("suspend")
        /\ UNCHANGED <<lists, is_suspended, completion, usage, thread>>
    BY <1>1 DEF dpm_suspend, At
  <2>2. dpm' \in DpmType /\ dpm'.pc = "suspend" /\ dpm'.cur = dpm.cur /\ ~dpm'.error
    BY <2>1, DpmGoto DEF DeviceType, DpmPcs, DeviceInv, CurInv
  <2> QED
    BY <2>1, <2>2, PhaseStep DEF PhaseChange
<1>2. CASE dpm_suspend_end
  <2>1. /\ dpm.pc = "suspend" /\ lists.prepared = <<>> /\ Goto("suspend_sync")
        /\ UNCHANGED <<lists, is_suspended, completion, usage, thread, async_error>>
    BY <1>2 DEF dpm_suspend_end, At
  <2>2. dpm' \in DpmType /\ dpm'.pc = "suspend_sync" /\ dpm'.cur = dpm.cur /\ async_error' \in BOOLEAN
    BY <2>1, DpmGoto DEF DeviceType, DpmPcs
  <2> QED
    BY <2>1, <2>2, PhaseStep DEF PhaseChange
<1>3. CASE suspend_sync
  <2>1. /\ dpm.pc = "suspend_sync" /\ \A d \in Device : thread[d] = "none"
        /\ dpm' = [dpm EXCEPT !.pc = "started", !.error = @ \/ async_error]
        /\ UNCHANGED <<lists, is_suspended, completion, usage, thread, async_error>>
    BY <1>3 DEF suspend_sync, At
  <2>2. /\ dpm' \in DpmType /\ dpm'.pc = "started" /\ dpm'.cur = dpm.cur /\ async_error' \in BOOLEAN
        /\ dpm'.error <=> dpm.error \/ async_error
    BY <2>1 DEF DeviceType, DpmType, DpmPcs
  <2> QED
    BY <2>1, <2>2, PhaseStep DEF PhaseChange
<1>4. CASE suspend_device_irqs
  <2>1. /\ dpm.pc = "suspend_noirq" /\ Goto("suspend_noirq_loop")
        /\ UNCHANGED <<lists, is_suspended, completion, usage, thread, async_error>>
    BY <1>4 DEF suspend_device_irqs, At
  <2>2. dpm' \in DpmType /\ dpm'.pc = "suspend_noirq_loop" /\ dpm'.cur = dpm.cur /\ async_error' \in BOOLEAN
    BY <2>1, DpmGoto DEF DeviceType, DpmPcs
  <2> QED
    BY <2>1, <2>2, PhaseStep DEF PhaseChange
<1>5. CASE dpm_suspend_noirq_end
  <2>1. /\ dpm.pc = "suspend_noirq_loop" /\ lists.suspended = <<>> /\ Goto("off")
        /\ UNCHANGED <<lists, is_suspended, completion, usage, thread, async_error>>
    BY <1>5 DEF dpm_suspend_noirq_end, At
  <2>2. dpm' \in DpmType /\ dpm'.pc = "off" /\ dpm'.cur = dpm.cur /\ async_error' \in BOOLEAN
    BY <2>1, DpmGoto DEF DeviceType, DpmPcs
  <2> QED
    BY <2>1, <2>2, PhaseStep DEF PhaseChange
<1>6. CASE resume_device_irqs
  <2>1. /\ dpm.pc = "resume_noirq" /\ lists.noirq = <<>> /\ Goto("woken")
        /\ UNCHANGED <<lists, is_suspended, completion, usage, thread, async_error>>
    BY <1>6 DEF resume_device_irqs, At
  <2>2. dpm' \in DpmType /\ dpm'.pc = "woken" /\ dpm'.cur = dpm.cur /\ async_error' \in BOOLEAN
    BY <2>1, DpmGoto DEF DeviceType, DpmPcs
  <2> QED
    BY <2>1, <2>2, PhaseStep DEF PhaseChange
<1> QED
  BY <1>1, <1>2, <1>3, <1>4, <1>5, <1>6, PrepareKept, DeviceSuspendKept, SuspendReturnsKept,
     NoirqKept, DpmResumeKept, ResumeNextKept, CompleteKept DEF Dpm

LEMMA ThreadKept ==
  ASSUME DeviceType, DeviceInv, NEW d \in Device, Thread(d)
  PROVE  DeviceType' /\ DeviceInv'
BY WaitChildrenKept, CheckPendingKept, SuspendCallbackKept, WaitParentKept, ResumeCallbackKept
   DEF Thread

LEMMA DeviceUnchanged ==
  ASSUME DeviceType, DeviceInv, UNCHANGED dpmVars
  PROVE  DeviceType' /\ DeviceInv'
<1> USE DEF dpmVars
<1>1. DeviceType' /\ OrderInv' /\ EmptyInv' /\ CurInv'
  BY DEF DeviceType, DeviceInv, OrderInv, EmptyInv, CurInv
<1>2. ThreadInv' /\ SuspendedInv'
  BY DEF DeviceInv, ThreadInv, SuspendedInv
<1>3. TreeInv' /\ UsageInv'
  BY DEF DeviceInv, TreeInv, UsageInv
<1> QED
  BY <1>1, <1>2, <1>3 DEF DeviceInv

(* The steps of enter_state that move dpm on.                              *)
LEMMA EnterKept ==
  ASSUME DeviceType, DeviceInv, PhaseInv, EnterState \/ am33xx_pm_enter
  PROVE  DeviceType' /\ DeviceInv'
<1>1. CASE \/ freeze_processes \/ freeze_kernel_threads \/ suspend_finish \/ Begin \/ Close \/ Closed
  <2>1. UNCHANGED dpmVars
    BY <1>1 DEF freeze_processes, freeze_kernel_threads, try_to_freeze_tasks, suspend_finish, Begin,
       Close, Closed
  <2> QED
    BY <2>1, DeviceUnchanged
<1>2. CASE suspend_devices
  <2>1. CASE m3call.ret = 0
    <3>1. /\ dpm.pc = "idle" /\ dpm' = [dpm EXCEPT !.pc = "prepare", !.error = FALSE]
          /\ UNCHANGED <<lists, is_suspended, completion, usage, thread, async_error>>
      BY <1>2, <2>1 DEF suspend_devices, PhaseInv
    <3>2. /\ dpm' \in DpmType /\ dpm'.pc = "prepare" /\ dpm'.cur = dpm.cur /\ async_error' \in BOOLEAN
          /\ ~dpm'.error
      BY <3>1 DEF DeviceType, DpmType, DpmPcs
    <3> QED
      BY <3>1, <3>2, PhaseStep DEF PhaseChange
  <2>2. CASE m3call.ret # 0
    <3>1. UNCHANGED dpmVars
      BY <1>2, <2>2 DEF suspend_devices, dpmVars
    <3> QED
      BY <3>1, DeviceUnchanged
  <2> QED
    BY <2>1, <2>2
<1>3. CASE suspend_enter
  <2>1. dpm.pc = "started" /\ UNCHANGED <<lists, is_suspended, completion, usage, thread, async_error>>
    BY <1>3 DEF suspend_enter, At
  <2>2. \/ dpm.error /\ Goto("resume")
        \/ ~dpm.error /\ Goto("suspend_noirq")
    BY <1>3 DEF suspend_enter
  <2>3. /\ dpm' \in DpmType /\ dpm'.cur = dpm.cur /\ async_error' \in BOOLEAN
        /\ dpm'.pc = "resume" \/ (~dpm.error /\ dpm'.pc = "suspend_noirq")
    BY <2>1, <2>2, DpmGoto DEF DeviceType, DpmPcs
  <2> QED
    BY <2>1, <2>3, PhaseStep DEF PhaseChange
<1>4. CASE syscore_suspend \/ am33xx_pm_enter
  <2>1. /\ dpm.pc = "off" /\ UNCHANGED <<lists, is_suspended, completion, usage, thread, async_error>>
        /\ Goto("resume_noirq") \/ UNCHANGED dpm
    BY <1>4 DEF syscore_suspend, am33xx_pm_enter, At, PhaseInv
  <2>2. CASE UNCHANGED dpm
    BY <2>1, <2>2, DeviceUnchanged DEF dpmVars
  <2>3. CASE Goto("resume_noirq")
    <3>1. dpm' \in DpmType /\ dpm'.pc = "resume_noirq" /\ dpm'.cur = dpm.cur /\ async_error' \in BOOLEAN
      BY <2>1, <2>3, DpmGoto DEF DeviceType, DpmPcs
    <3> QED
      BY <2>1, <3>1, PhaseStep DEF PhaseChange
  <2> QED
    BY <2>1, <2>2, <2>3
<1>5. CASE am33xx_pm_finish
  <2>1. /\ dpm.pc = "woken" /\ Goto("resume")
        /\ UNCHANGED <<lists, is_suspended, completion, usage, thread, async_error>>
    BY <1>5 DEF am33xx_pm_finish, At
  <2>2. dpm' \in DpmType /\ dpm'.pc = "resume" /\ dpm'.cur = dpm.cur /\ async_error' \in BOOLEAN
    BY <2>1, DpmGoto DEF DeviceType, DpmPcs
  <2> QED
    BY <2>1, <2>2, PhaseStep DEF PhaseChange
<1>6. CASE devices_resumed
  <2>1. /\ dpm.pc = "resumed" /\ Goto("idle")
        /\ UNCHANGED <<lists, is_suspended, completion, usage, thread, async_error>>
    BY <1>6 DEF devices_resumed, At
  <2>2. dpm' \in DpmType /\ dpm'.pc = "idle" /\ dpm'.cur = dpm.cur /\ async_error' \in BOOLEAN
    BY <2>1, DpmGoto DEF DeviceType, DpmPcs
  <2> QED
    BY <2>1, <2>2, PhaseStep DEF PhaseChange
<1> QED
  BY <1>1, <1>2, <1>3, <1>4, <1>5, <1>6 DEF EnterState

LEMMA DeviceKept ==
  ASSUME TypeOK, DeviceInv, PhaseInv, [Next]_vars
  PROVE  DeviceType' /\ DeviceInv'
<1>1. DeviceType
  BY DEF TypeOK, DevicePMTypeOK, DeviceType, ListType, DpmType, DpmPcs, SuspendStates, ResumeStates
<1>2. ASSUME NEW s \in Sources, \/ Raise(s) \/ DeviceIrq(s) \/ TimerSoftirq(s) \/ Relax(s) \/ Attribute(s)
      PROVE  UNCHANGED dpmVars
  BY <1>2 DEF Raise, DeviceIrq, handle_level_irq, handle_edge_irq, Handle, TimerSoftirq, Relax, Attribute, device_wakeup_store
<1>3. ASSUME M3Irq \/ M3Call \/ M3 \/ User \/ UNCHANGED vars
      PROVE  UNCHANGED dpmVars
  BY <1>3 DEF M3Irq, M3Call, M3, User, wakeup_count_show, wakeup_count_store, state_store, vars
<1> QED
  BY <1>1, <1>2, <1>3, DeviceUnchanged, ThreadKept, DpmKept, EnterKept
     DEF Next, AsyncThread, DpmStep

-----------------------------------------------------------------------------
(***************************************************************************)
(* The steps of the M3 and of the callbacks.                               *)
(***************************************************************************)

M3Inv == M3TypeOK /\ AnswerInv /\ CallInv /\ FreshInv

MboxType == [fifo : 0..FifoSize, kfifo : 0..KfifoSize, enabled : BOOLEAN, raised : BOOLEAN]

CallPcs == {"none", "lp_state", "lp_send", "lp_wait", "reset", "reset_state",
            "reset_send", "reset_wait", "end", "done"}
CallType == [pc : CallPcs, next : {"none", "lp_wait", "done", "end"}, ret : {0, -1}]

M3Type == [mode : {"lp", "reset"}, txev : BOOLEAN, eoi : BOOLEAN]

(* The types by parts, and what the count of answers is.                   *)
LEMMA M3Types ==
  M3TypeOK <=> /\ m3_state \in {"UNKNOWN", "INITED", "MSG_FOR_RESET", "MSG_FOR_LP"}
               /\ ipc \in {"lp", "reset"} /\ mbox \in MboxType /\ a8_m3_sync \in Nat
               /\ m3 \in M3Type /\ hlt \in 0..1 /\ m3call \in CallType /\ stale \in BOOLEAN
BY DEF M3TypeOK, MboxType, CallType, CallPcs, M3Type

LEMMA LateCount ==
  ASSUME M3TypeOK
  PROVE  /\ LateAnswers \in Nat
         /\ AnswerDue => LateAnswers = a8_m3_sync + 1
         /\ ~AnswerDue => LateAnswers = a8_m3_sync
BY DEF M3TypeOK, LateAnswers

LEMMA MboxUpdates ==
  ASSUME NEW b \in MboxType, NEW q
  PROVE  /\ \A e \in BOOLEAN : q = [b EXCEPT !.enabled = e] =>
              q \in MboxType /\ (q.raised <=> b.raised) /\ q.kfifo = b.kfifo
         /\ q = [b EXCEPT !.raised = FALSE] =>
              q \in MboxType /\ (q.enabled <=> b.enabled) /\ ~q.raised
         /\ q = [b EXCEPT !.fifo = 0, !.raised = FALSE] =>
              q \in MboxType /\ (q.enabled <=> b.enabled) /\ ~q.raised
<1>1. FifoSize \in Nat
  BY WkupM3Assumption
<1> USE DEF MboxType
<1>2. ASSUME NEW e \in BOOLEAN, q = [b EXCEPT !.enabled = e]
      PROVE  q \in MboxType /\ (q.raised <=> b.raised) /\ q.kfifo = b.kfifo
  BY <1>2
<1>4. ASSUME q = [b EXCEPT !.raised = FALSE]
      PROVE  q \in MboxType /\ (q.enabled <=> b.enabled) /\ ~q.raised
  BY <1>4
<1>5. ASSUME q = [b EXCEPT !.fifo = 0, !.raised = FALSE]
      PROVE  q \in MboxType /\ (q.enabled <=> b.enabled) /\ ~q.raised
  <2>1. q = [fifo |-> 0, kfifo |-> b.kfifo, enabled |-> b.enabled, raised |-> FALSE]
    BY <1>5
  <2>2. 0 \in 0..FifoSize /\ b.kfifo \in 0..KfifoSize /\ b.enabled \in BOOLEAN
    BY <1>1
  <2> QED
    BY <2>1, <2>2, Zenon
<1> QED
  BY <1>2, <1>4, <1>5

LEMMA SentMessage ==
  ASSUME NEW b \in MboxType, b.kfifo < KfifoSize
  PROVE  Sent(b) \in MboxType
<1> DEFINE queued == b.kfifo + 1
           space == FifoSize - b.fifo
           moved == IF queued < space THEN queued ELSE space
           raised == b.raised \/ moved > 0
<1>1. FifoSize \in Nat /\ KfifoSize \in Nat
  BY WkupM3Assumption
<1>2. b.fifo + moved \in 0..FifoSize /\ queued - moved \in 0..KfifoSize
  BY <1>1 DEF MboxType
<1>3. raised \in BOOLEAN
  OBVIOUS
<1>4. Sent(b) = [b EXCEPT !.fifo = b.fifo + moved, !.kfifo = queued - moved, !.raised = raised]
  BY DEF Sent, MboxType
<1> HIDE DEF queued, moved, raised
<1> QED
  BY <1>2, <1>3, <1>4 DEF MboxType

(* The callback moves on to another of its statements.                     *)
LEMMA CallMoves ==
  ASSUME m3call \in CallType
  PROVE  /\ \A w \in CallPcs : Go(w) =>
              m3call' \in CallType /\ m3call'.pc = w /\ m3call'.next = m3call.next
              /\ m3call'.ret = m3call.ret
         /\ \A n \in {"lp_wait", "done", "end"}, r \in {0, -1} : CallReset(n, r) =>
              m3call' \in CallType /\ m3call'.pc = "reset" /\ m3call'.next = n /\ m3call'.ret = r
         /\ m3call' = [m3call EXCEPT !.pc = m3call.next, !.next = "none"] =>
              m3call' \in CallType /\ m3call'.pc = m3call.next /\ m3call'.next = "none"
              /\ m3call'.ret = m3call.ret
<1>1. ASSUME NEW w \in CallPcs, Go(w)
      PROVE  m3call' \in CallType /\ m3call'.pc = w /\ m3call'.next = m3call.next
             /\ m3call'.ret = m3call.ret
  BY <1>1 DEF Go, CallType
<1>2. ASSUME NEW n \in {"lp_wait", "done", "end"}, NEW r \in {0, -1}, CallReset(n, r)
      PROVE  m3call' \in CallType /\ m3call'.pc = "reset" /\ m3call'.next = n /\ m3call'.ret = r
  BY <1>2 DEF CallReset, CallType, CallPcs
<1>3. ASSUME m3call' = [m3call EXCEPT !.pc = m3call.next, !.next = "none"]
      PROVE  m3call' \in CallType /\ m3call'.pc = m3call.next /\ m3call'.next = "none"
             /\ m3call'.ret = m3call.ret
  BY <1>3 DEF CallType, CallPcs
<1> QED
  BY <1>1, <1>2, <1>3

LEMMA M3Answering ==
  ASSUME M3Inv, M3Answers, pc' = pc
  PROVE  M3Inv'
<1>1. /\ mbox.raised /\ mbox.enabled /\ ~m3.txev
      /\ mbox' = [mbox EXCEPT !.raised = FALSE]
      /\ m3' = [m3 EXCEPT !.mode = ipc, !.txev = ~m3.eoi]
      /\ UNCHANGED <<m3_state, ipc, a8_m3_sync, hlt, m3call, stale>>
  BY DEF M3Answers
<1>2. mbox' \in MboxType /\ ~mbox'.raised
  BY <1>1, M3Types, MboxUpdates DEF M3Inv
<1>3. m3' \in M3Type /\ m3'.mode = ipc
  BY <1>1, M3Types DEF M3Inv, M3Type
<1>4. M3TypeOK'
  BY <1>1, <1>2, <1>3 DEF M3Inv, M3TypeOK, MboxType, M3Type
<1>5. LateAnswers' <= LateAnswers /\ LateAnswers > 0
  <2>1. LateAnswers = a8_m3_sync + 1 /\ a8_m3_sync \in Nat
    BY <1>1 DEF LateAnswers, AnswerDue, M3Inv, M3TypeOK
  <2> QED
    BY <1>1, <2>1 DEF LateAnswers
<1>6. LateAnswers \in Nat /\ LateAnswers' \in Nat
  BY <1>1 DEF LateAnswers, M3Inv, M3TypeOK
<1>7. AnswerInv'
  BY <1>1, <1>5, <1>6 DEF M3Inv, AnswerInv
<1>8. CallInv'
  BY <1>1 DEF M3Inv, CallInv
<1>9. FreshInv'
  BY <1>1, <1>3, <1>5, <1>6 DEF M3Inv, FreshInv
<1> QED
  BY <1>4, <1>7, <1>8, <1>9 DEF M3Inv

LEMMA TxevKept ==
  ASSUME M3Inv, wkup_m3_txev_handler, pc' = pc
  PROVE  M3Inv'
<1>1. /\ m3.txev /\ m3' = [m3 EXCEPT !.txev = FALSE, !.eoi = (m3_state = "UNKNOWN")]
      /\ m3_state' = IF m3_state = "MSG_FOR_RESET" THEN "INITED" ELSE m3_state
      /\ a8_m3_sync' = IF m3_state \in {"MSG_FOR_RESET", "MSG_FOR_LP"} THEN a8_m3_sync + 1 ELSE a8_m3_sync
      /\ mbox' = IF m3_state = "INITED" THEN mbox ELSE [mbox EXCEPT !.fifo = 0, !.raised = FALSE]
      /\ UNCHANGED <<ipc, hlt, m3call, stale>>
  BY DEF wkup_m3_txev_handler
<1>2. mbox' \in MboxType /\ (m3_state # "INITED" => ~mbox'.raised)
  <2>1. mbox \in MboxType
    BY M3Types DEF M3Inv
  <2>2. CASE m3_state = "INITED"
    BY <1>1, <2>1, <2>2
  <2>3. CASE m3_state # "INITED"
    BY <1>1, <2>1, <2>3, MboxUpdates, Zenon
  <2> QED
    BY <2>2, <2>3
<1>3. m3' \in M3Type /\ m3'.mode = m3.mode /\ ~m3'.txev
  <2>1. (m3_state = "UNKNOWN") \in BOOLEAN /\ m3 \in M3Type
    BY M3Types DEF M3Inv
  <2> QED
    BY <1>1, <2>1 DEF M3Type
<1>4. M3TypeOK'
  BY <1>1, <1>2, <1>3 DEF M3Inv, M3TypeOK, MboxType, M3Type
<1>5. LateAnswers = a8_m3_sync + 1 /\ a8_m3_sync \in Nat
  BY <1>1 DEF LateAnswers, AnswerDue, M3Inv, M3TypeOK
<1>6. LateAnswers' \in Nat /\ LateAnswers' <= LateAnswers
  <2>1. CASE m3_state = "INITED"
    BY <1>1, <1>5, <2>1 DEF LateAnswers
  <2>2. CASE m3_state # "INITED"
    <3>1. ~AnswerDue'
      BY <1>2, <1>3, <2>2 DEF AnswerDue
    <3>2. LateAnswers' = a8_m3_sync'
      BY <1>1, <1>5, <3>1 DEF LateAnswers
    <3> QED
      BY <1>1, <1>5, <3>2
  <2> QED
    BY <2>1, <2>2
<1>7. AnswerInv'
  BY <1>1, <1>5, <1>6 DEF M3Inv, AnswerInv
<1>8. CallInv'
  BY <1>1 DEF M3Inv, CallInv
<1>9. FreshInv'
  <2>1. LateAnswers > 0 /\ LateAnswers \in Nat
    BY <1>5
  <2> QED
    BY <1>1, <1>3, <1>6, <2>1 DEF M3Inv, FreshInv
<1> QED
  BY <1>4, <1>7, <1>8, <1>9 DEF M3Inv

(* The statements that send no message and wait for none.                  *)
LEMMA StatementKept ==
  ASSUME M3Inv, pc' = pc,
         lp_state \/ am33xx_m3_state_machine_reset \/ reset_state \/ enable_hlt
  PROVE  M3Inv'
<1>1. UNCHANGED <<a8_m3_sync, m3, stale>> /\ m3call \in CallType /\ mbox \in MboxType
  BY M3Types DEF lp_state, am33xx_m3_state_machine_reset, reset_state, enable_hlt, M3Inv
<1>2. mbox' \in MboxType /\ (mbox'.raised <=> mbox.raised)
  <2>1. CASE lp_state
    BY <1>1, <2>1, MboxUpdates DEF lp_state
  <2>2. CASE am33xx_m3_state_machine_reset \/ reset_state \/ enable_hlt
    BY <1>1, <2>2 DEF am33xx_m3_state_machine_reset, reset_state, enable_hlt
  <2> QED
    BY <2>1, <2>2
<1>3. LateAnswers' = LateAnswers /\ LateAnswers \in Nat
  BY <1>1, <1>2, M3Types DEF LateAnswers, AnswerDue, M3Inv
<1>4. ASSUME lp_state PROVE M3Inv'
  <2>1. m3call.pc = "lp_state" /\ m3_state' = "MSG_FOR_LP" /\ UNCHANGED <<ipc, hlt>>
    BY <1>4 DEF lp_state
  <2>2. m3call' \in CallType /\ m3call'.pc = "lp_send" /\ m3call'.next = m3call.next /\ m3call'.ret = m3call.ret
    BY <1>1, <1>4, CallMoves DEF lp_state, CallPcs
  <2>3. M3TypeOK'
    BY <1>1, <1>2, <2>1, <2>2 DEF M3Inv, M3TypeOK, MboxType, CallType, CallPcs
  <2>4. AnswerInv'
    BY <1>3, <2>1, <2>2 DEF M3Inv, AnswerInv
  <2>5. CallInv'
    BY <2>1, <2>2 DEF M3Inv, CallInv, ResetPcs
  <2>6. FreshInv'
    BY <1>1, <1>3, <2>1, <2>2 DEF M3Inv, FreshInv
  <2> QED
    BY <2>3, <2>4, <2>5, <2>6 DEF M3Inv
<1>5. ASSUME am33xx_m3_state_machine_reset PROVE M3Inv'
  <2>1. m3call.pc = "reset" /\ ipc' = "reset" /\ UNCHANGED <<m3_state, hlt>>
    BY <1>5 DEF am33xx_m3_state_machine_reset
  <2>2. m3call' \in CallType /\ m3call'.pc = "reset_state" /\ m3call'.next = m3call.next /\ m3call'.ret = m3call.ret
    BY <1>1, <1>5, CallMoves DEF am33xx_m3_state_machine_reset, CallPcs
  <2>3. M3TypeOK'
    BY <1>1, <1>2, <2>1, <2>2 DEF M3Inv, M3TypeOK, MboxType, CallType, CallPcs
  <2>4. AnswerInv'
    BY <1>3, <2>1, <2>2 DEF M3Inv, AnswerInv
  <2>5. CallInv'
    BY <2>1, <2>2 DEF M3Inv, CallInv, ResetPcs
  <2>6. FreshInv'
    BY <1>1, <1>3, <2>1, <2>2 DEF M3Inv, FreshInv
  <2> QED
    BY <2>3, <2>4, <2>5, <2>6 DEF M3Inv
<1>6. ASSUME reset_state PROVE M3Inv'
  <2>1. m3call.pc = "reset_state" /\ m3_state' = "MSG_FOR_RESET" /\ UNCHANGED <<ipc, hlt>>
    BY <1>6 DEF reset_state
  <2>2. m3call' \in CallType /\ m3call'.pc = "reset_send" /\ m3call'.next = m3call.next /\ m3call'.ret = m3call.ret
    BY <1>1, <1>6, CallMoves DEF reset_state, CallPcs
  <2>3. M3TypeOK'
    BY <1>1, <1>2, <2>1, <2>2 DEF M3Inv, M3TypeOK, MboxType, CallType, CallPcs
  <2>4. AnswerInv'
    BY <1>3, <2>1, <2>2 DEF M3Inv, AnswerInv
  <2>5. CallInv'
    BY <2>1, <2>2 DEF M3Inv, CallInv, ResetPcs
  <2>6. FreshInv'
    BY <1>1, <1>3, <2>1, <2>2 DEF M3Inv, FreshInv
  <2> QED
    BY <2>3, <2>4, <2>5, <2>6 DEF M3Inv
<1>7. ASSUME enable_hlt PROVE M3Inv'
  <2>1. m3call.pc = "end" /\ hlt' = hlt - 1 /\ UNCHANGED <<m3_state, ipc>>
    BY <1>7 DEF enable_hlt
  <2>2. m3call' \in CallType /\ m3call'.pc = "done" /\ m3call'.next = m3call.next /\ m3call'.ret = m3call.ret
    BY <1>1, <1>7, CallMoves DEF enable_hlt, CallPcs
  <2>3. pc = "ending" /\ hlt = 1
    BY <2>1 DEF M3Inv, CallInv, ResetPcs
  <2>4. M3TypeOK'
    BY <1>1, <1>2, <2>1, <2>2, <2>3 DEF M3Inv, M3TypeOK, MboxType, CallType, CallPcs
  <2>5. AnswerInv'
    BY <1>3, <2>1, <2>2 DEF M3Inv, AnswerInv
  <2>6. CallInv'
    BY <2>1, <2>2, <2>3 DEF M3Inv, CallInv, ResetPcs, SinceBegin
  <2>7. FreshInv'
    BY <1>1, <1>3, <2>1, <2>2, <2>3 DEF M3Inv, FreshInv, SinceBegin
  <2> QED
    BY <2>4, <2>5, <2>6, <2>7 DEF M3Inv
<1> QED
  BY <1>4, <1>5, <1>6, <1>7

(* Sending a message: one more answer may come.                            *)
LEMMA SendKept ==
  ASSUME M3Inv, pc' = pc, lp_send \/ reset_send
  PROVE  M3Inv'
<1>1. /\ UNCHANGED <<ipc, a8_m3_sync, m3, hlt, stale>> /\ m3call \in CallType /\ mbox \in MboxType
      /\ a8_m3_sync \in Nat /\ LateAnswers \in Nat
  BY M3Types, LateCount DEF lp_send, reset_send, M3Inv
<1>2. m3call.pc \in {"lp_send", "reset_send"} /\ LateAnswers <= 1
  BY DEF lp_send, reset_send, M3Inv, AnswerInv
<1>3. mbox' \in MboxType /\ (~CanSend => mbox' = mbox)
  BY <1>1, SentMessage DEF lp_send, reset_send, CanSend
<1>4. LateAnswers' \in Nat /\ LateAnswers' <= a8_m3_sync + 1 /\ (~CanSend => LateAnswers' = LateAnswers)
  BY <1>1, <1>3 DEF LateAnswers, AnswerDue
<1>5. a8_m3_sync <= LateAnswers
  BY <1>1 DEF LateAnswers
<1>6. ASSUME lp_send, CanSend PROVE M3Inv'
  <2>1. m3call.pc = "lp_send" /\ UNCHANGED m3_state
    BY <1>6 DEF lp_send
  <2>2. m3call' \in CallType /\ m3call'.pc = "lp_wait" /\ m3call'.next = m3call.next /\ m3call'.ret = m3call.ret
    BY <1>1, <1>6, CallMoves DEF lp_send, CallPcs
  <2>3. M3TypeOK'
    BY <1>1, <1>3, <2>1, <2>2 DEF M3Inv, M3TypeOK, MboxType, CallType, CallPcs
  <2>4. AnswerInv'
    BY <1>1, <1>2, <1>4, <1>5, <2>2 DEF AnswerInv
  <2>5. CallInv'
    BY <1>1, <2>1, <2>2 DEF M3Inv, CallInv, ResetPcs
  <2>6. FreshInv'
    <3>1. ASSUME ~stale PROVE ipc = "lp" /\ a8_m3_sync = 0 /\ ~m3.txev
      <4>1. ipc = "lp" /\ LateAnswers = 0
        BY <2>1, <3>1 DEF M3Inv, FreshInv
      <4> QED
        BY <1>1, <4>1 DEF LateAnswers, AnswerDue
    <3>2. pc = "beginning"
      BY <2>1 DEF M3Inv, CallInv, ResetPcs
    <3> QED
      BY <1>1, <1>4, <2>2, <3>1, <3>2 DEF FreshInv, SinceBegin
  <2> QED
    BY <2>3, <2>4, <2>5, <2>6 DEF M3Inv
<1>7. ASSUME lp_send, ~CanSend PROVE M3Inv'
  <2>1. m3call.pc = "lp_send" /\ UNCHANGED m3_state
    BY <1>7 DEF lp_send
  <2>2. m3call' \in CallType /\ m3call'.pc = "reset" /\ m3call'.next = "lp_wait" /\ m3call'.ret = -1
    <3>1. CallReset("lp_wait", -1)
      BY <1>7 DEF lp_send
    <3> QED
      BY <1>1, <3>1, CallMoves
  <2>3. M3TypeOK'
    BY <1>1, <1>3, <2>1, <2>2 DEF M3Inv, M3TypeOK, MboxType, CallType, CallPcs
  <2>4. AnswerInv'
    BY <1>1, <1>2, <1>4, <1>7, <2>2 DEF AnswerInv
  <2>5. pc = "beginning"
    BY <2>1 DEF M3Inv, CallInv, ResetPcs
  <2>6. CallInv'
    BY <1>1, <2>1, <2>2, <2>5 DEF M3Inv, CallInv, ResetPcs
  <2>7. FreshInv'
    BY <1>1, <2>2, <2>5 DEF FreshInv, SinceBegin
  <2> QED
    BY <2>3, <2>4, <2>6, <2>7 DEF M3Inv
<1>8. ASSUME reset_send, CanSend PROVE M3Inv'
  <2>1. m3call.pc = "reset_send" /\ UNCHANGED m3_state
    BY <1>8 DEF reset_send
  <2>2. m3call' \in CallType /\ m3call'.pc = "reset_wait" /\ m3call'.next = m3call.next /\ m3call'.ret = m3call.ret
    BY <1>1, <1>8, CallMoves DEF reset_send, CallPcs
  <2>3. M3TypeOK'
    BY <1>1, <1>3, <2>1, <2>2 DEF M3Inv, M3TypeOK, MboxType, CallType, CallPcs
  <2>4. AnswerInv'
    BY <1>1, <1>2, <1>4, <1>5, <2>2 DEF AnswerInv
  <2>5. CallInv'
    BY <1>1, <2>1, <2>2 DEF M3Inv, CallInv, ResetPcs
  <2>6. pc \in {"beginning", "ending"}
    BY <2>1 DEF M3Inv, CallInv
  <2>7. FreshInv'
    BY <1>1, <2>2, <2>6 DEF FreshInv, SinceBegin
  <2> QED
    BY <2>3, <2>4, <2>5, <2>7 DEF M3Inv
<1>9. ASSUME reset_send, ~CanSend PROVE M3Inv'
  <2>1. m3call.pc = "reset_send" /\ m3_state' = "UNKNOWN"
    BY <1>9 DEF reset_send
  <2>2. m3call' \in CallType /\ m3call'.pc = m3call.next /\ m3call'.next = "none" /\ m3call'.ret = m3call.ret
    BY <1>1, <1>9, CallMoves DEF reset_send
  <2>3. \/ pc = "beginning" /\ m3call.next \in {"lp_wait", "done"} /\ m3call.ret = -1
        \/ pc = "ending" /\ m3call.next = "end"
    BY <2>1 DEF M3Inv, CallInv, ResetPcs
  <2>4. M3TypeOK'
    BY <1>1, <1>3, <2>1, <2>2 DEF M3Inv, M3TypeOK, MboxType, CallType, CallPcs
  <2>5. AnswerInv'
    BY <1>1, <1>2, <1>4, <1>9, <2>2, <2>3 DEF AnswerInv
  <2>6. CallInv'
    BY <1>1, <2>1, <2>2, <2>3 DEF M3Inv, CallInv, ResetPcs, SinceBegin
  <2>7. FreshInv'
    BY <1>1, <2>2, <2>3 DEF FreshInv, SinceBegin
  <2> QED
    BY <2>4, <2>5, <2>6, <2>7 DEF M3Inv
<1> QED
  BY <1>6, <1>7, <1>8, <1>9

(* The waits: they take an answer, or there is none.                       *)
LEMMA WaitKept ==
  ASSUME M3Inv, pc' = pc, lp_wait \/ reset_wait
  PROVE  M3Inv'
<1>1. /\ UNCHANGED <<m3_state, ipc, m3, hlt, stale>> /\ m3call \in CallType /\ mbox \in MboxType
      /\ a8_m3_sync \in Nat /\ LateAnswers \in Nat /\ LateAnswers <= 2
  BY M3Types, LateCount DEF lp_wait, reset_wait, M3Inv, AnswerInv
<1>2. a8_m3_sync' = IF a8_m3_sync = 0 THEN 0 ELSE a8_m3_sync - 1
  BY DEF lp_wait, reset_wait, TimedOut
<1>3. mbox' \in MboxType /\ (mbox'.raised <=> mbox.raised)
  <2>1. CASE mbox' = mbox
    BY <1>1, <2>1
  <2>2. CASE mbox' = [mbox EXCEPT !.enabled = FALSE]
    BY <1>1, <2>2, MboxUpdates
  <2> QED
    BY <2>1, <2>2 DEF lp_wait, reset_wait
<1>4. LateAnswers' \in Nat /\ LateAnswers' <= 1
      /\ (a8_m3_sync > 0 => LateAnswers' = LateAnswers - 1)
  BY <1>1, <1>2, <1>3 DEF LateAnswers, AnswerDue
<1>5. ASSUME lp_wait, TimedOut PROVE M3Inv'
  <2>1. m3call.pc = "lp_wait"
    BY <1>5 DEF lp_wait
  <2>2. m3call' \in CallType /\ m3call'.pc = "reset" /\ m3call'.next = "done" /\ m3call'.ret = -1
    <3>1. CallReset("done", -1)
      BY <1>5 DEF lp_wait
    <3> QED
      BY <1>1, <3>1, CallMoves
  <2>3. pc = "beginning"
    BY <2>1 DEF M3Inv, CallInv, ResetPcs
  <2>4. M3TypeOK'
    BY <1>1, <1>2, <1>3, <2>2 DEF M3Inv, M3TypeOK, MboxType, CallType, CallPcs
  <2>5. AnswerInv'
    BY <1>4, <2>2 DEF AnswerInv
  <2>6. CallInv'
    BY <1>1, <2>1, <2>2, <2>3 DEF M3Inv, CallInv, ResetPcs
  <2>7. FreshInv'
    BY <1>1, <2>2, <2>3 DEF FreshInv, SinceBegin
  <2> QED
    BY <2>4, <2>5, <2>6, <2>7 DEF M3Inv
<1>6. ASSUME lp_wait, ~TimedOut PROVE M3Inv'
  <2>1. m3call.pc = "lp_wait" /\ a8_m3_sync > 0
    BY <1>1, <1>6 DEF lp_wait, TimedOut
  <2>2. m3call' \in CallType /\ m3call'.pc = "done" /\ m3call'.next = m3call.next /\ m3call'.ret = m3call.ret
    BY <1>1, <1>6, CallMoves DEF lp_wait, CallPcs
  <2>3. pc = "beginning"
    BY <2>1 DEF M3Inv, CallInv, ResetPcs
  <2>4. M3TypeOK'
    BY <1>1, <1>2, <1>3, <2>2 DEF M3Inv, M3TypeOK, MboxType, CallType, CallPcs
  <2>5. AnswerInv'
    BY <1>4, <2>2 DEF AnswerInv
  <2>6. CallInv'
    BY <1>1, <2>1, <2>2, <2>3 DEF M3Inv, CallInv, ResetPcs
  <2>7. ASSUME ~stale, m3call.ret = 0 PROVE m3.mode = "lp" /\ LateAnswers <= 1
    BY <2>1, <2>7 DEF M3Inv, FreshInv
  <2>8. FreshInv'
    BY <1>1, <1>4, <2>1, <2>2, <2>3, <2>7 DEF FreshInv, SinceBegin
  <2> QED
    BY <2>4, <2>5, <2>6, <2>8 DEF M3Inv
<1>7. ASSUME reset_wait PROVE M3Inv'
  <2>1. m3call.pc = "reset_wait"
    BY <1>7 DEF reset_wait
  <2>2. m3call' \in CallType /\ m3call'.pc = m3call.next /\ m3call'.next = "none" /\ m3call'.ret = m3call.ret
    BY <1>1, <1>7, CallMoves DEF reset_wait
  <2>3. \/ pc = "beginning" /\ m3call.next \in {"lp_wait", "done"} /\ m3call.ret = -1
        \/ pc = "ending" /\ m3call.next = "end"
    BY <2>1 DEF M3Inv, CallInv, ResetPcs
  <2>4. M3TypeOK'
    BY <1>1, <1>2, <1>3, <2>2 DEF M3Inv, M3TypeOK, MboxType, CallType, CallPcs
  <2>5. AnswerInv'
    BY <1>4, <2>2, <2>3 DEF AnswerInv
  <2>6. CallInv'
    BY <1>1, <2>1, <2>2, <2>3 DEF M3Inv, CallInv, ResetPcs, SinceBegin
  <2>7. FreshInv'
    BY <1>1, <2>2, <2>3 DEF FreshInv, SinceBegin
  <2> QED
    BY <2>4, <2>5, <2>6, <2>7 DEF M3Inv
<1> QED
  BY <1>5, <1>6, <1>7

(* am33xx_pm_begin and am33xx_pm_end are called.                           *)
LEMMA BeginKept ==
  ASSUME M3Inv, Begin
  PROVE  M3Inv'
<1>1. /\ pc = "begin" /\ pc' = "beginning" /\ m3call.pc = "none" /\ hlt' = hlt + 1 /\ ipc' = "lp"
      /\ stale' = (AnswerDue \/ a8_m3_sync > 0) /\ Go("lp_state")
      /\ UNCHANGED <<m3_state, mbox, a8_m3_sync, m3>>
  BY DEF Begin, am33xx_pm_begin
<1>2. hlt = 0 /\ m3call \in CallType /\ m3call.ret = 0 /\ m3call.next = "none"
  BY <1>1, M3Types DEF M3Inv, CallInv, ResetPcs, SinceBegin
<1>3. m3call' \in CallType /\ m3call'.pc = "lp_state" /\ m3call'.next = "none" /\ m3call'.ret = 0
  BY <1>1, <1>2, CallMoves DEF CallPcs
<1>4. stale' \in BOOLEAN /\ hlt' \in 0..1
  BY <1>1, <1>2
<1>5. M3TypeOK'
  BY <1>1, <1>3, <1>4 DEF M3Inv, M3TypeOK, CallType, CallPcs
<1>6. LateAnswers' = LateAnswers /\ LateAnswers \in Nat /\ a8_m3_sync \in Nat
  BY <1>1, LateCount DEF LateAnswers, AnswerDue, M3Inv, M3TypeOK
<1>7. AnswerInv'
  BY <1>1, <1>3, <1>6 DEF M3Inv, AnswerInv
<1>8. CallInv'
  BY <1>1, <1>2, <1>3 DEF CallInv, ResetPcs, SinceBegin
<1>9. ASSUME ~stale' PROVE LateAnswers = 0
  <2>1. ~AnswerDue /\ ~(a8_m3_sync > 0)
    BY <1>1, <1>9, Zenon
  <2> QED
    BY <1>6, <2>1 DEF LateAnswers
<1>10. FreshInv'
  BY <1>1, <1>3, <1>6, <1>9 DEF FreshInv, SinceBegin
<1> QED
  BY <1>5, <1>7, <1>8, <1>10 DEF M3Inv

LEMMA CloseKept ==
  ASSUME M3Inv, Close
  PROVE  M3Inv'
<1>1. /\ pc = "close" /\ pc' = "ending" /\ m3call.pc = "none" /\ CallReset("end", 0)
      /\ mbox' = [mbox EXCEPT !.enabled = TRUE] /\ stale' = FALSE
      /\ UNCHANGED <<m3_state, ipc, a8_m3_sync, m3, hlt>>
  BY DEF Close, am33xx_pm_end
<1>2. hlt = 1 /\ m3call \in CallType /\ mbox \in MboxType
  BY <1>1, M3Types DEF M3Inv, CallInv
<1>3. m3call' \in CallType /\ m3call'.pc = "reset" /\ m3call'.next = "end" /\ m3call'.ret = 0
  BY <1>1, <1>2, CallMoves
<1>4. mbox' \in MboxType /\ (mbox'.raised <=> mbox.raised)
  BY <1>1, <1>2, MboxUpdates
<1>5. M3TypeOK'
  BY <1>1, <1>3, <1>4 DEF M3Inv, M3TypeOK, CallType, CallPcs, MboxType
<1>6. LateAnswers' = LateAnswers
  BY <1>1, <1>4 DEF LateAnswers, AnswerDue
<1>7. AnswerInv'
  BY <1>1, <1>3, <1>6 DEF M3Inv, AnswerInv
<1>8. CallInv'
  BY <1>1, <1>2, <1>3 DEF CallInv, ResetPcs, SinceBegin
<1>9. FreshInv'
  BY <1>1, <1>3 DEF FreshInv, SinceBegin
<1> QED
  BY <1>5, <1>7, <1>8, <1>9 DEF M3Inv

(* The callback returns, with its result.                                  *)
LEMMA ReturnKept ==
  ASSUME M3Inv, suspend_devices \/ Closed
  PROVE  M3Inv'
<1>1. /\ m3call.pc = "done" /\ UNCHANGED <<m3_state, ipc, mbox, a8_m3_sync, m3, hlt, stale>>
      /\ m3call' = [pc |-> "none", next |-> "none", ret |-> 0]
      /\ \/ pc = "beginning" /\ m3call.ret = 0 /\ pc' = "devices"
         \/ pc = "beginning" /\ m3call.ret # 0 /\ pc' = "close"
         \/ pc = "ending" /\ pc' = "thaw"
  BY DEF suspend_devices, Closed, Returned, Return
<1>2. m3call' \in CallType /\ m3call'.pc = "none" /\ m3call'.next = "none" /\ m3call'.ret = 0
  BY <1>1 DEF CallType, CallPcs
<1>3. M3TypeOK'
  BY <1>1, <1>2 DEF M3Inv, M3TypeOK, CallType, CallPcs
<1>4. LateAnswers' = LateAnswers
  BY <1>1 DEF LateAnswers, AnswerDue
<1>5. AnswerInv'
  BY <1>1, <1>2, <1>4 DEF M3Inv, AnswerInv
<1>6. CallInv'
  BY <1>1, <1>2 DEF M3Inv, CallInv, ResetPcs, SinceBegin
<1>7. FreshInv'
  BY <1>1, <1>2, <1>4 DEF M3Inv, FreshInv, SinceBegin
<1> QED
  BY <1>3, <1>5, <1>6, <1>7 DEF M3Inv

(* Steps of the transition that leave the callbacks alone stay on one side *)
(* of begin and end.                                                       *)
BeforeBegin == {"user", "freeze_user", "freeze_kernel", "begin", "thaw"}

LEMMA M3Unchanged ==
  ASSUME M3Inv, UNCHANGED m3Vars,
         \/ pc' = pc
         \/ pc \in BeforeBegin /\ pc' \in BeforeBegin
         \/ pc \in SinceBegin /\ pc' \in SinceBegin \cup {"close"}
  PROVE  M3Inv'
<1>1. M3TypeOK' /\ AnswerInv' /\ LateAnswers' = LateAnswers
  BY DEF M3Inv, M3TypeOK, AnswerInv, LateAnswers, AnswerDue, m3Vars
<1>2. CASE pc' = pc
  <2>1. CallInv'
    BY <1>2 DEF M3Inv, CallInv, m3Vars
  <2>2. FreshInv'
    BY <1>1, <1>2 DEF M3Inv, FreshInv, m3Vars
  <2> QED
    BY <1>1, <2>1, <2>2 DEF M3Inv
<1>3. CASE pc \in BeforeBegin /\ pc' \in BeforeBegin
  <2>1. CallInv'
    BY <1>3 DEF M3Inv, CallInv, m3Vars, BeforeBegin, SinceBegin
  <2>2. FreshInv'
    BY <1>1, <1>3 DEF M3Inv, FreshInv, m3Vars, BeforeBegin, SinceBegin
  <2> QED
    BY <1>1, <2>1, <2>2 DEF M3Inv
<1>4. CASE pc \in SinceBegin /\ pc' \in SinceBegin \cup {"close"}
  <2>1. CallInv'
    BY <1>4 DEF M3Inv, CallInv, m3Vars, SinceBegin
  <2>2. FreshInv'
    BY <1>1, <1>4 DEF M3Inv, FreshInv, m3Vars, SinceBegin
  <2> QED
    BY <1>1, <2>1, <2>2 DEF M3Inv
<1> QED
  BY <1>2, <1>3, <1>4

LEMMA M3Kept ==
  ASSUME M3Inv, [Next]_vars
  PROVE  M3Inv'
<1>1. ASSUME NEW s \in Sources,
             \/ Raise(s) /\ UNCHANGED <<m3Vars, sysVars>>
             \/ DeviceIrq(s) \/ TimerSoftirq(s) \/ Relax(s) \/ Attribute(s)
      PROVE  UNCHANGED m3Vars /\ pc' = pc
  BY <1>1 DEF DeviceIrq, TimerSoftirq, Relax, Attribute, device_wakeup_store, sysVars
<1>2. ASSUME NEW d \in Device, AsyncThread(d)
      PROVE  UNCHANGED m3Vars /\ pc' = pc
  BY <1>2 DEF AsyncThread, sysVars
<1>3. CASE DpmStep \/ UNCHANGED vars
  BY <1>3, M3Unchanged DEF DpmStep, vars, sysVars
<1>4. CASE User
  BY <1>4, M3Unchanged
     DEF User, wakeup_count_show, wakeup_count_store, state_store, BeforeBegin
<1>5. CASE freeze_processes \/ freeze_kernel_threads \/ suspend_finish
  BY <1>5, M3Unchanged
     DEF freeze_processes, freeze_kernel_threads, try_to_freeze_tasks, suspend_finish, BeforeBegin
<1>6. CASE suspend_enter \/ syscore_suspend \/ am33xx_pm_enter \/ am33xx_pm_finish \/ devices_resumed
  BY <1>6, M3Unchanged
     DEF suspend_enter, syscore_suspend, am33xx_pm_enter, am33xx_pm_finish, devices_resumed, SinceBegin
<1>7. CASE M3Irq
  BY <1>7, TxevKept DEF M3Irq, sysVars
<1>8. CASE M3Call
  BY <1>8, StatementKept, SendKept, WaitKept DEF M3Call, Callback, sysVars
<1>9. CASE M3
  BY <1>9, M3Answering DEF M3, sysVars
<1>10. CASE EnterState
  BY <1>5, <1>6, <1>10, BeginKept, CloseKept, ReturnKept DEF EnterState
<1> QED
  BY <1>1, <1>2, <1>3, <1>4, <1>6, <1>7, <1>8, <1>9, <1>10, M3Unchanged DEF Next

-----------------------------------------------------------------------------
(***************************************************************************)
(* The transition: where its parts are, and what is stopped meanwhile.     *)
(***************************************************************************)

TransitionType ==
  /\ irq \in [Sources -> {"none", "raised", "pending", "masked"}]
  /\ lines \in {"enabled", "suspended"}
  /\ pc \in {"user", "freeze_user", "freeze_kernel", "begin", "beginning", "devices",
             "noirq", "asleep", "waking", "resume", "close", "ending", "thaw"}
  /\ sys \in [frozen : BOOLEAN, usermodehelper_disabled : BOOLEAN, pads : {"normal", "sleep"}]

TransitionInv == TransitionType /\ dpm \in DpmType /\ PhaseInv /\ SysInv

(* Where dpm goes, and what it does to the lines.                          *)
LEMMA DpmMoves ==
  ASSUME dpm \in DpmType, Dpm
  PROVE  \/ /\ dpm.pc \in SuspendPcs \cup {"prepare"}
            /\ dpm'.pc \in SuspendPcs \cup {"prepare", "started"} /\ UNCHANGED irqVars
         \/ /\ dpm.pc = "suspend_noirq" /\ dpm'.pc = "suspend_noirq_loop"
            /\ lines' = "suspended" /\ irq' = irq
         \/ /\ dpm.pc = "suspend_noirq_loop" /\ dpm'.pc \in NoirqPcs /\ UNCHANGED irqVars
         \/ /\ dpm.pc = "resume_noirq" /\ dpm'.pc = "resume_noirq" /\ UNCHANGED irqVars
         \/ /\ dpm.pc = "resume_noirq" /\ dpm'.pc = "woken"
            /\ lines' = "enabled" /\ irq' = Enabled
         \/ /\ dpm.pc \in ResumePcs \cup {"resume"}
            /\ dpm'.pc \in ResumePcs \cup {"resumed"} /\ UNCHANGED irqVars
<1> USE DEF DpmType, At, Goto, SuspendPcs, NoirqPcs, ResumePcs
<1>1. CASE dpm_prepare
  BY <1>1 DEF dpm_prepare
<1>2. CASE dpm_suspend \/ dpm_suspend_end \/ suspend_sync
  BY <1>2 DEF dpm_suspend, dpm_suspend_end, suspend_sync
<1>3. CASE device_suspend
  BY <1>3 DEF device_suspend
<1>4. CASE device_suspend_returns
  BY <1>4 DEF device_suspend_returns
<1>5. CASE suspend_device_irqs \/ dpm_suspend_noirq_end
  BY <1>5 DEF suspend_device_irqs, dpm_suspend_noirq_end, irqVars
<1>6. CASE device_suspend_noirq
  BY <1>6 DEF device_suspend_noirq
<1>7. CASE device_resume_noirq \/ resume_device_irqs
  BY <1>7 DEF device_resume_noirq, resume_device_irqs
<1>8. CASE dpm_resume \/ dpm_complete
  BY <1>8 DEF dpm_resume, dpm_complete
<1>9. CASE resume_next \/ device_resume_returns
  BY <1>9 DEF resume_next, device_resume_returns
<1> QED
  BY <1>1, <1>2, <1>3, <1>4, <1>5, <1>6, <1>7, <1>8, <1>9 DEF Dpm

LEMMA DpmTransition ==
  ASSUME TransitionInv, dpm' \in DpmType, DpmStep
  PROVE  TransitionInv'
<1>1. UNCHANGED <<pc, sys>> /\ Dpm
  BY DEF DpmStep, sysVars
<1>2. CASE \/ dpm.pc \in SuspendPcs \cup {"prepare"} /\ dpm'.pc \in SuspendPcs \cup {"prepare", "started"}
           \/ dpm.pc \in ResumePcs \cup {"resume"} /\ dpm'.pc \in ResumePcs \cup {"resumed"}
  <2>1. UNCHANGED irqVars
    BY <1>1, <1>2, DpmMoves DEF TransitionInv, SuspendPcs, NoirqPcs, ResumePcs
  <2>2. PhaseInv'
    BY <1>1, <1>2 DEF TransitionInv, PhaseInv, SuspendPcs, NoirqPcs, ResumePcs
  <2>3. SysInv'
    BY <1>1, <1>2, <2>1 DEF TransitionInv, SysInv, irqVars, SuspendPcs, NoirqPcs, ResumePcs
  <2> QED
    BY <1>1, <2>1, <2>2, <2>3 DEF TransitionInv, TransitionType, irqVars
<1>3. CASE \/ dpm.pc = "suspend_noirq_loop" /\ dpm'.pc \in NoirqPcs /\ UNCHANGED irqVars
           \/ dpm.pc = "resume_noirq" /\ dpm'.pc = "resume_noirq" /\ UNCHANGED irqVars
  <2>1. PhaseInv'
    BY <1>1, <1>3 DEF TransitionInv, PhaseInv, SuspendPcs, NoirqPcs, ResumePcs
  <2>2. SysInv'
    BY <1>1, <1>3 DEF TransitionInv, SysInv, irqVars, NoirqPcs
  <2> QED
    BY <1>1, <1>3, <2>1, <2>2 DEF TransitionInv, TransitionType, irqVars
<1>4. CASE /\ dpm.pc = "suspend_noirq" /\ dpm'.pc = "suspend_noirq_loop"
           /\ lines' = "suspended" /\ irq' = irq
  <2>1. PhaseInv'
    BY <1>1, <1>4 DEF TransitionInv, PhaseInv, SuspendPcs, NoirqPcs, ResumePcs
  <2>2. SysInv'
    BY <1>1, <1>4 DEF TransitionInv, SysInv, NoirqPcs
  <2> QED
    BY <1>1, <1>4, <2>1, <2>2 DEF TransitionInv, TransitionType
<1>5. CASE dpm.pc = "resume_noirq" /\ dpm'.pc = "woken" /\ lines' = "enabled" /\ irq' = Enabled
  <2>1. PhaseInv'
    BY <1>1, <1>5 DEF TransitionInv, PhaseInv, SuspendPcs, NoirqPcs, ResumePcs
  <2>2. irq' \in [Sources -> {"none", "raised"}]
    BY <1>5 DEF Enabled
  <2>3. SysInv'
    BY <1>1, <1>5, <2>2 DEF TransitionInv, SysInv, NoirqPcs
  <2> QED
    BY <1>1, <1>5, <2>1, <2>2, <2>3 DEF TransitionInv, TransitionType
<1> QED
  BY <1>1, <1>2, <1>3, <1>4, <1>5, DpmMoves DEF TransitionInv

(* The threads leave it alone, and the interrupts keep to the lines.       *)
LEMMA ThreadTransition ==
  ASSUME TransitionInv, dpm' \in DpmType, NEW d \in Device, AsyncThread(d)
  PROVE  TransitionInv'
<1>1. UNCHANGED <<pc, sys, irq, lines>>
  <2>1. CASE wait_children(d) \/ suspend_callback(d) \/ wait_parent(d) \/ resume_callback(d)
    BY <2>1 DEF wait_children, suspend_callback, wait_parent, resume_callback, irqVars, AsyncThread, sysVars
  <2>2. CASE check_pending(d)
    BY <2>2 DEF check_pending, irqVars, AsyncThread, sysVars
  <2> QED
    BY <2>1, <2>2 DEF AsyncThread, Thread
<1>2. dpm'.pc = dpm.pc
  <2>1. CASE wait_children(d) \/ check_pending(d) \/ wait_parent(d) \/ resume_callback(d)
    BY <2>1 DEF wait_children, check_pending, wait_parent, resume_callback
  <2>2. CASE suspend_callback(d)
    BY <2>2 DEF suspend_callback, TransitionInv, DpmType
  <2> QED
    BY <2>1, <2>2 DEF AsyncThread, Thread
<1>3. PhaseInv' /\ SysInv'
  BY <1>1, <1>2 DEF TransitionInv, PhaseInv, SysInv
<1> QED
  BY <1>1, <1>3 DEF TransitionInv, TransitionType

LEMMA IrqTransition ==
  ASSUME TransitionInv, NEW s \in Sources,
         (Raise(s) /\ UNCHANGED sysVars) \/ DeviceIrq(s)
  PROVE  TransitionInv'
<1>1. UNCHANGED <<pc, sys, lines, dpm>>
  BY DEF Raise, DeviceIrq, handle_level_irq, handle_edge_irq, Handle, dpmVars, sysVars
<1>2. /\ irq' \in [Sources -> {"none", "raised", "pending", "masked"}]
      /\ lines = "enabled" => irq'[s] \in {"none", "raised"}
      /\ \A t \in Sources \ {s} : irq'[t] = irq[t]
  <2>1. CASE Raise(s)
    BY <2>1 DEF Raise, TransitionInv, TransitionType
  <2>2. CASE DeviceIrq(s)
    BY <2>2 DEF DeviceIrq, handle_level_irq, handle_edge_irq, Handle, TransitionInv, TransitionType
  <2> QED
    BY <2>1, <2>2
<1>3. PhaseInv'
  BY <1>1 DEF TransitionInv, PhaseInv
<1>4. SysInv'
  BY <1>1, <1>2 DEF TransitionInv, SysInv
<1> QED
  BY <1>1, <1>2, <1>3, <1>4 DEF TransitionInv, TransitionType

LEMMA QuietTransition ==
  ASSUME TransitionInv, UNCHANGED <<pc, sys, dpm, irqVars>>
  PROVE  TransitionInv'
<1>1. PhaseInv' /\ SysInv'
  BY DEF TransitionInv, PhaseInv, SysInv, irqVars
<1> QED
  BY <1>1 DEF TransitionInv, TransitionType, irqVars

(* A step of enter_state: it moves pc, with dpm and what is stopped.       *)
LEMMA EnterMoves ==
  ASSUME TransitionInv, dpm' \in DpmType,
         \/ EnterState \/ am33xx_pm_enter \/ (User /\ state_store /\ pc' # pc)
  PROVE  /\ UNCHANGED irqVars
         /\ sys' \in [frozen : BOOLEAN, usermodehelper_disabled : BOOLEAN, pads : {"normal", "sleep"}]
         /\ \/ pc = "user" /\ pc' = "freeze_user" /\ dpm' = dpm
                 /\ sys'.pads = sys.pads /\ sys'.frozen = sys.frozen
            \/ pc = "freeze_user" /\ pc' = "freeze_kernel" /\ dpm' = dpm
                 /\ sys'.pads = sys.pads /\ sys'.frozen
            \/ pc = "freeze_kernel" /\ pc' = "begin" /\ dpm' = dpm
                 /\ sys'.pads = sys.pads /\ sys'.frozen
            \/ pc \in {"freeze_user", "freeze_kernel"} /\ pc' = "thaw" /\ UNCHANGED <<dpm, sys>>
            \/ pc = "thaw" /\ pc' = "user" /\ dpm' = dpm /\ sys'.pads = sys.pads
                 /\ ~sys'.frozen /\ ~sys'.usermodehelper_disabled
            \/ pc = "begin" /\ pc' = "beginning" /\ UNCHANGED <<dpm, sys>>
            \/ pc = "beginning" /\ pc' = "devices" /\ dpm'.pc = "prepare" /\ sys' = sys
            \/ pc = "beginning" /\ pc' = "close" /\ UNCHANGED <<dpm, sys>>
            \/ pc = "devices" /\ dpm.pc = "started" /\ pc' = "resume" /\ dpm'.pc = "resume" /\ sys' = sys
            \/ pc = "devices" /\ dpm.pc = "started" /\ pc' = "noirq" /\ dpm'.pc = "suspend_noirq"
                 /\ sys'.pads = "sleep" /\ sys'.frozen = sys.frozen
            \/ pc \in {"noirq", "asleep"} /\ dpm.pc = "off" /\ pc' = "waking"
                 /\ dpm'.pc = "resume_noirq" /\ sys' = sys
            \/ pc = "noirq" /\ dpm.pc = "off" /\ pc' = "asleep" /\ UNCHANGED <<dpm, sys>>
            \/ pc \in {"noirq", "waking"} /\ dpm.pc = "woken" /\ pc' = "resume"
                 /\ dpm'.pc = "resume" /\ sys'.pads = "normal" /\ sys'.frozen = sys.frozen
            \/ pc = "resume" /\ dpm.pc = "resumed" /\ pc' = "close" /\ dpm'.pc = "idle" /\ sys' = sys
            \/ pc = "close" /\ pc' = "ending" /\ UNCHANGED <<dpm, sys>>
            \/ pc = "ending" /\ pc' = "thaw" /\ UNCHANGED <<dpm, sys>>
<1> USE DEF TransitionInv, TransitionType, DpmType, At, Goto
<1>1. CASE User /\ state_store /\ pc' # pc
  BY <1>1 DEF state_store, dpmVars
<1>2. CASE freeze_processes
  BY <1>2 DEF freeze_processes, try_to_freeze_tasks, dpmVars
<1>3. CASE freeze_kernel_threads
  BY <1>3 DEF freeze_kernel_threads, try_to_freeze_tasks, dpmVars
<1>4. CASE suspend_finish
  BY <1>4 DEF suspend_finish, dpmVars
<1>5. CASE Begin \/ Close \/ Closed
  BY <1>5 DEF Begin, Close, Closed, dpmVars
<1>6. CASE suspend_devices
  BY <1>6 DEF suspend_devices
<1>7. CASE suspend_enter
  BY <1>7 DEF suspend_enter
<1>8. CASE syscore_suspend
  BY <1>8 DEF syscore_suspend
<1>9. CASE am33xx_pm_enter
  BY <1>9 DEF am33xx_pm_enter, PhaseInv
<1>10. CASE am33xx_pm_finish
  BY <1>10 DEF am33xx_pm_finish
<1>11. CASE devices_resumed
  BY <1>11 DEF devices_resumed
<1> QED
  BY <1>1, <1>2, <1>3, <1>4, <1>5, <1>6, <1>7, <1>8, <1>9, <1>10, <1>11 DEF EnterState

LEMMA EnterTransition ==
  ASSUME TransitionInv, dpm' \in DpmType,
         \/ EnterState \/ am33xx_pm_enter \/ (User /\ state_store /\ pc' # pc)
  PROVE  TransitionInv'
<1>1. TransitionType'
  BY EnterMoves DEF TransitionInv, TransitionType, irqVars
<1>2. PhaseInv'
  BY EnterMoves DEF TransitionInv, PhaseInv, SuspendPcs, NoirqPcs, ResumePcs
<1>3. SysInv'
  BY EnterMoves DEF TransitionInv, PhaseInv, SysInv, irqVars, NoirqPcs, SuspendPcs, ResumePcs
<1> QED
  BY <1>1, <1>2, <1>3 DEF TransitionInv

LEMMA TransitionKept ==
  ASSUME TransitionInv, dpm' \in DpmType, [Next]_vars
  PROVE  TransitionInv'
<1>1. ASSUME NEW s \in Sources, TimerSoftirq(s) \/ Relax(s) \/ Attribute(s)
      PROVE  UNCHANGED <<pc, sys, dpm, irqVars>>
  BY <1>1 DEF TimerSoftirq, Relax, Attribute, device_wakeup_store, sysVars, dpmVars
<1>2. ASSUME M3Irq \/ M3Call \/ M3 \/ UNCHANGED vars
      PROVE  UNCHANGED <<pc, sys, dpm, irqVars>>
  BY <1>2 DEF M3Irq, M3Call, M3, vars, sysVars, dpmVars
<1>3. CASE User
  <2>1. CASE wakeup_count_show \/ wakeup_count_store
    BY <2>1, QuietTransition DEF wakeup_count_show, wakeup_count_store, dpmVars
  <2>2. CASE state_store /\ pc' = pc
    <3>1. UNCHANGED <<pc, sys, dpm, irqVars>>
      BY <2>2 DEF state_store, dpmVars
    <3> QED
      BY <3>1, QuietTransition
  <2>3. CASE state_store /\ pc' # pc
    BY <1>3, <2>3, EnterTransition
  <2> QED
    BY <1>3, <2>1, <2>2, <2>3 DEF User
<1> QED
  BY <1>1, <1>2, <1>3, QuietTransition, IrqTransition, ThreadTransition, DpmTransition, EnterTransition
     DEF Next

-----------------------------------------------------------------------------
(***************************************************************************)
(* Going to sleep.                                                         *)
(***************************************************************************)

(* A counter that shows nothing new and nothing in progress means that     *)
(* nothing was detected: the events are fewer than the counter can hold.   *)
LEMMA NothingDetected ==
  ASSUME TypeOK, WakeupInv, user.step # "read", events_check_enabled,
         ~Pending(combined_event_count)
  PROVE  since = 0 /\ \A s \in Sources : ~ws[s].active
<1>1. /\ WakeupTypeOK /\ since \in Nat /\ saved_count \in 0..(CountMod - 1)
      /\ MaxEvents \in 1..(CountMod - 1) /\ CountMod \in Nat /\ CountMod > 0
  BY WakeupAssumption DEF TypeOK, DevicePMTypeOK, WakeupTypeOK
<1>2. Inpr(combined_event_count) = 0 /\ Cnt(combined_event_count) = saved_count
  BY <1>1, CounterType DEF Pending
<1>3. PICK k \in 0..MaxEvents : /\ Cnt(combined_event_count) = (saved_count + k) % CountMod
                                /\ since > 0 => k + Inpr(combined_event_count) > 0
  BY DEF WakeupInv, TrackInv, Tracks
<1>4. k \in 0..(CountMod - 1)
  BY <1>1
<1>5. k = 0
  BY <1>1, <1>2, <1>3, <1>4, ModDistinct
<1>6. since = 0
  BY <1>1, <1>2, <1>3, <1>5
<1>7. ASSUME NEW s \in Sources PROVE ~ws[s].active
  BY <1>1, <1>2, RoomForOne DEF WakeupInv
<1> QED
  BY <1>6, <1>7

LEMMA SleepKept ==
  ASSUME TypeOK, WakeupInv, NoWakeupLost, [Next]_vars
  PROVE  NoWakeupLost'
<1> SUFFICES ASSUME pc' = "asleep", events_check_enabled'
             PROVE  /\ since' = 0
                    /\ \A s \in Sources : ws'[s].state = "attached" => ~ws'[s].active /\ irq'[s] # "pending"
  BY DEF NoWakeupLost
<1>1. ASSUME UNCHANGED <<pc, wakeupVars>>,
             \A s \in Sources : irq'[s] = "pending" => irq[s] = "pending"
      PROVE  /\ since' = 0
             /\ \A s \in Sources : ws'[s].state = "attached" => ~ws'[s].active /\ irq'[s] # "pending"
  BY <1>1 DEF NoWakeupLost, wakeupVars, counters
<1>2. ASSUME NEW s \in Sources, Raise(s) /\ UNCHANGED <<m3Vars, sysVars>>
      PROVE  /\ since' = 0
             /\ \A t \in Sources : ws'[t].state = "attached" => ~ws'[t].active /\ irq'[t] # "pending"
  <2>1. UNCHANGED <<pc, wakeupVars>> /\ irq' = [irq EXCEPT ![s] = "raised"]
    BY <1>2 DEF Raise, sysVars
  <2>2. \A t \in Sources : irq'[t] = "pending" => irq[t] = "pending"
    BY <2>1 DEF TypeOK, DevicePMTypeOK
  <2> QED
    BY <1>1, <2>1, <2>2
<1>3. CASE M3 \/ UNCHANGED vars
  <2>1. UNCHANGED <<pc, wakeupVars, irq>>
    BY <1>3 DEF M3, vars, sysVars, irqVars
  <2> QED
    BY <1>1, <2>1
<1>4. CASE syscore_suspend
  <2>1. /\ pc = "noirq" /\ ~WakeupIrqPending /\ ~Pending(combined_event_count)
        /\ UNCHANGED <<since, ws, irq>> /\ events_check_enabled
    BY <1>4 DEF syscore_suspend, irqVars, Pending
  <2>2. user.step # "read"
    BY <2>1 DEF WakeupInv, TrackInv
  <2>3. since = 0 /\ \A s \in Sources : ~ws[s].active
    BY <2>1, <2>2, NothingDetected
  <2> QED
    BY <2>1, <2>3 DEF WakeupIrqPending
<1>5. ASSUME \/ Awake /\ pc' = pc
             \/ pc' # "asleep"
      PROVE  FALSE
  BY <1>5 DEF Awake
<1>6. ASSUME NEW s \in Sources, DeviceIrq(s) \/ TimerSoftirq(s) \/ Relax(s) \/ Attribute(s)
      PROVE  FALSE
  BY <1>5, <1>6 DEF DeviceIrq, TimerSoftirq, Relax, Attribute, device_wakeup_store, Running, sysVars
<1>7. ASSUME NEW d \in Device, AsyncThread(d)
      PROVE  FALSE
  BY <1>5, <1>7 DEF AsyncThread, Running, sysVars
<1>8. ASSUME M3Irq \/ DpmStep \/ M3Call
      PROVE  FALSE
  BY <1>5, <1>8 DEF M3Irq, DpmStep, M3Call, Running, sysVars
<1>9. ASSUME am33xx_pm_enter \/ User
      PROVE  FALSE
  BY <1>5, <1>9 DEF am33xx_pm_enter, User, wakeup_count_show, wakeup_count_store, state_store, Running
<1>10. CASE EnterState /\ ~syscore_suspend
  <2>1. CASE freeze_processes \/ freeze_kernel_threads
    BY <1>5, <2>1 DEF freeze_processes, freeze_kernel_threads, try_to_freeze_tasks
  <2>2. CASE suspend_finish \/ Begin \/ suspend_devices \/ suspend_enter
    BY <1>5, <2>2 DEF suspend_finish, Begin, suspend_devices, suspend_enter
  <2>3. CASE am33xx_pm_finish \/ devices_resumed \/ Close \/ Closed
    BY <1>5, <2>3 DEF am33xx_pm_finish, devices_resumed, Close, Closed
  <2> QED
    BY <1>10, <2>1, <2>2, <2>3 DEF EnterState
<1> QED
  BY <1>2, <1>3, <1>4, <1>6, <1>7, <1>8, <1>9, <1>10 DEF Next

-----------------------------------------------------------------------------
(***************************************************************************)
(* The invariant.                                                          *)
(***************************************************************************)

LEMMA InitWakeup ==
  ASSUME Init
  PROVE  /\ WakeupTypeOK /\ WakeupInv
         /\ user \in [step : {"idle", "read", "armed"}, count : 0..(CountMod - 1)]
<1> USE DEF Init, DevicePMInit, WakeupInit
<1>1. /\ CountMod \in Nat /\ CountMod > 0 /\ InprMod \in Nat /\ MaxEvents \in Nat /\ MaxEvents > 0
      /\ IsFiniteSet(Sources) /\ Cardinality(Sources) \in Nat /\ Cardinality(Sources) < InprMod
  BY WakeupAssumption, FS_CardinalityType
<1>2. 0 \in 0..(CountMod * InprMod - 1) /\ 0 % InprMod = 0
  <2>1. InprMod * 1 <= InprMod * CountMod /\ InprMod * CountMod \in Nat
    BY <1>1, ProductMonotone
  <2>2. InprMod * CountMod = CountMod * InprMod /\ InprMod > 0
    BY <1>1
  <2>3. 0 \in 0..(InprMod - 1)
    BY <1>1, <2>2
  <2>4. 0 % InprMod = 0
    BY <1>1, <2>2, <2>3, ModSmall
  <2>5. ASSUME NEW w \in Nat, NEW i \in Nat, i > 0, i * 1 <= w PROVE 0 \in 0..(w - 1)
    BY <2>5
  <2> QED
    BY <1>1, <2>1, <2>2, <2>4, <2>5, Zenon
<1>3. WakeupTypeOK
  <2>1. ws \in [Sources -> [active : BOOLEAN, owed : 0..1, timer : BOOLEAN,
                            state : {"attached", "detached", "none"}]]
    OBVIOUS
  <2>2. saved_count \in 0..(CountMod - 1) /\ since \in 0..MaxEvents
    BY <1>1
  <2>3. combined_event_count \in 0..(Word - 1)
    BY <1>2 DEF Word
  <2> QED
    BY <2>1, <2>2, <2>3, Zenon DEF WakeupTypeOK
<1>4. SourceInv
  BY DEF SourceInv
<1>5. CountBalanced
  <2>1. {s \in Sources : ws[s].active} = {}
    OBVIOUS
  <2> QED
    BY <1>2, <2>1, FS_EmptySet DEF CountBalanced, Inpr
<1>6. EventBound
  <2>1. Signalled = {}
    BY DEF Signalled
  <2> QED
    BY <1>1, <2>1, FS_EmptySet DEF EventBound
<1>7. TrackInv
  BY DEF TrackInv
<1>8. user \in [step : {"idle", "read", "armed"}, count : 0..(CountMod - 1)]
  BY <1>1
<1> QED
  BY <1>3, <1>4, <1>5, <1>6, <1>7, <1>8 DEF WakeupInv

LEMMA InitDevices ==
  ASSUME Init
  PROVE  DeviceType /\ DeviceInv
<1> USE DEF Init, DevicePMInit
<1>1. Devices \in Seq(Device) /\ None \notin Device /\ <<>> \in Seq(Device)
  BY DevicePMAssumption
<1>2. DeviceType
  <2>1. lists \in ListType
    BY <1>1 DEF ListType
  <2>2. dpm \in DpmType
    BY DEF DpmType, DpmPcs
  <2>3. usage \in [Device -> 0..1]
    OBVIOUS
  <2>4. thread \in [Device -> {"none"} \cup SuspendStates \cup ResumeStates]
    OBVIOUS
  <2>5. is_suspended \subseteq Device /\ completion \subseteq Device /\ async_error \in BOOLEAN
    OBVIOUS
  <2> QED
    BY <2>1, <2>2, <2>3, <2>4, <2>5, Zenon DEF DeviceType
<1>3. OrderInv
  BY <1>1 DEF OrderInv
<1>4. EmptyInv
  BY DEF EmptyInv, SuspendPcs, NoirqPcs
<1>5. CurInv
  BY DEF CurInv
<1>6. ThreadInv
  BY DEF ThreadInv, SuspendStates, ResumeStates
<1>7. SuspendedInv
  BY DEF SuspendedInv, SuspendPcs, ResumePcs
<1>8. TreeInv
  BY DEF TreeInv, Children
<1>9. UsageInv
  BY DEF UsageInv
<1> QED
  BY <1>2, <1>3, <1>4, <1>5, <1>6, <1>7, <1>8, <1>9 DEF DeviceInv

LEMMA InitM3 ==
  ASSUME Init
  PROVE  M3Inv
<1> USE DEF Init, M3Init
<1>1. M3TypeOK
  <2>1. mbox \in MboxType
    BY WkupM3Assumption DEF MboxType
  <2>2. m3 \in M3Type /\ m3call \in CallType /\ a8_m3_sync \in Nat /\ hlt \in 0..1
    BY DEF M3Type, CallType, CallPcs
  <2>3. stale \in BOOLEAN
    BY Zenon
  <2> QED
    BY <2>1, <2>2, <2>3, M3Types, Zenon
<1>2. AnswerInv
  BY DEF AnswerInv, LateAnswers, AnswerDue
<1>3. CallInv
  BY DEF CallInv, ResetPcs, SinceBegin
<1>4. FreshInv
  BY DEF FreshInv, SinceBegin
<1> QED
  BY <1>1, <1>2, <1>3, <1>4 DEF M3Inv

LEMMA InitTransition ==
  ASSUME Init
  PROVE  TransitionType /\ PhaseInv /\ SysInv /\ NoWakeupLost
BY DEF Init, DevicePMInit, TransitionType, PhaseInv, SysInv, NoWakeupLost, NoirqPcs

(* The types, put together from those of the parts.                        *)
LEMMA TypeParts ==
  TypeOK <=> /\ WakeupTypeOK /\ DeviceType /\ M3TypeOK /\ TransitionType
             /\ user \in [step : {"idle", "read", "armed"}, count : 0..(CountMod - 1)]
BY DEF TypeOK, DevicePMTypeOK, DeviceType, TransitionType, ListType, DpmType, DpmPcs,
       SuspendStates, ResumeStates

LEMMA InitInvariant ==
  ASSUME Init
  PROVE  IInv
<1>1. TypeOK
  BY InitWakeup, InitDevices, InitM3, InitTransition, TypeParts DEF M3Inv
<1> QED
  BY <1>1, InitWakeup, InitDevices, InitM3, InitTransition DEF IInv, M3Inv

LEMMA NextInvariant ==
  ASSUME IInv, [Next]_vars
  PROVE  IInv'
<1>1. /\ TypeOK /\ WakeupInv /\ DeviceInv /\ M3Inv /\ TransitionInv /\ NoWakeupLost
      /\ PhaseInv /\ DeviceType
  BY TypeParts DEF IInv, M3Inv, TransitionInv, DeviceType
<1>2. WakeupTypeOK' /\ WakeupInv' /\ user' \in [step : {"idle", "read", "armed"}, count : 0..(CountMod - 1)]
  BY <1>1, WakeupKept
<1>3. DeviceType' /\ DeviceInv'
  BY <1>1, DeviceKept
<1>4. M3TypeOK' /\ AnswerInv' /\ CallInv' /\ FreshInv'
  BY <1>1, M3Kept DEF M3Inv
<1>5. TransitionType' /\ PhaseInv' /\ SysInv'
  BY <1>1, <1>3, TransitionKept DEF DeviceType, TransitionInv
<1>6. NoWakeupLost'
  BY <1>1, SleepKept
<1>7. TypeOK'
  <2>1. (TypeOK <=> /\ WakeupTypeOK /\ DeviceType /\ M3TypeOK /\ TransitionType
                    /\ user \in [step : {"idle", "read", "armed"}, count : 0..(CountMod - 1)])'
    BY TypeParts, PTL
  <2> QED
    BY <1>2, <1>3, <1>4, <1>5, <2>1
<1> QED
  BY <1>2, <1>3, <1>4, <1>5, <1>6, <1>7 DEF IInv

(* Suspend's parts stay in agreement: the counter with the sources, the    *)
(* lists with the phase of dpm, the M3's answers, in time or late, with    *)
(* the callback that waits for one, and all of them with the step that     *)
(* enter_state has reached.                                                *)
THEOREM Invariance == Spec => []IInv
<1>1. Init => IInv
  BY InitInvariant
<1>2. IInv /\ [Next]_vars => IInv'
  BY NextInvariant
<1> QED
  BY <1>1, <1>2, PTL DEF Spec

(* Every variable keeps its type; in particular hlt_counter and the        *)
(* references that the transition holds are 0 or 1, and the additions to   *)
(* combined_event_count never carry out of one of its halves.              *)
THEOREM TypeCorrect == Spec => []TypeOK
<1>1. IInv => TypeOK
  BY DEF IInv
<1> QED
  BY <1>1, Invariance, PTL

(* The lower half of combined_event_count is the number of active sources, *)
(* although wakeup_source_activate and wakeup_source_deactivate only add   *)
(* to one word that wraps (drivers/base/power/wakeup.c).                   *)
THEOREM CountCorrect == Spec => []CountBalanced
<1>1. IInv => CountBalanced
  BY DEF IInv, WakeupInv
<1> QED
  BY <1>1, Invariance, PTL

(* The promise of wakeup_count: suspend_enter does not put the system to   *)
(* sleep after a wakeup event that came later than the read of the counter,*)
(* for any number of events below the counter's range.                     *)
THEOREM WakeupCorrect == Spec => []NoWakeupLost
<1>1. IInv => NoWakeupLost
  BY DEF IInv
<1> QED
  BY <1>1, Invariance, PTL

(* With any device tree and any of its devices asynchronous,               *)
(* __device_suspend runs a device's callback after its children's, and     *)
(* device_resume the other way round.                                      *)
THEOREM TreeCorrect == Spec => []ChildrenFirst
<1>1. IInv => ChildrenFirst
  BY DEF IInv, DeviceInv, TreeInv, ChildrenFirst
<1> QED
  BY <1>1, Invariance, PTL

(* am33xx_pm_enter is reached only with every device suspended in both     *)
(* phases and the lines disabled, however many failures and lost or late   *)
(* answers there were on the way; and with the M3 told to go to sleep,     *)
(* unless am33xx_pm_begin took an old answer for that to its message.      *)
THEOREM AsleepCorrect == Spec => []AsleepQuiet
<1>1. ASSUME IInv, pc = "asleep"
      PROVE  /\ lists.noirq = Devices /\ is_suspended = Device
             /\ lines = "suspended" /\ sys.pads = "sleep" /\ sys.frozen
             /\ ~stale => m3.mode = "lp"
  <2>1. dpm.pc = "off" /\ (~stale => m3.mode = "lp") /\ sys.pads = "sleep" /\ sys.frozen
    BY <1>1 DEF IInv, PhaseInv, FreshInv, SinceBegin, SysInv
  <2>2. lines = "suspended"
    BY <1>1, <2>1 DEF IInv, SysInv, NoirqPcs
  <2>3. is_suspended = Device
    BY <1>1, <2>1 DEF IInv, DeviceInv, SuspendedInv
  <2>4. lists.prepared = <<>> /\ lists.suspended = <<>> /\ lists.dpm = <<>> /\ lists.noirq \in Seq(Device)
    BY <1>1, <2>1 DEF IInv, DeviceInv, EmptyInv, NoirqPcs, TypeOK, DevicePMTypeOK
  <2>5. lists.noirq = Devices
    BY <1>1, <2>4 DEF IInv, DeviceInv, OrderInv
  <2> QED
    BY <2>1, <2>2, <2>3, <2>5
<1>2. IInv => AsleepQuiet
  BY <1>1 DEF AsleepQuiet
<1> QED
  BY <1>2, Invariance, PTL

(* However enter_state ends, and whatever failed in it, user space finds   *)
(* the devices on dpm_list in their order and resumed, and everything that *)
(* the transition stopped running again; however late the M3 answered, one *)
(* answer at most is left over in a8_m3_sync or still to come.             *)
THEOREM RestoredCorrect == Spec => []AllRestored
<1>1. ASSUME IInv, pc = "user"
      PROVE  /\ lists.dpm = Devices
             /\ is_suspended = {} /\ \A d \in Device : usage[d] = 0 /\ thread[d] = "none"
             /\ lines = "enabled" /\ \A s \in Sources : irq[s] \in {"none", "raised"}
             /\ ~sys.frozen /\ ~sys.usermodehelper_disabled /\ sys.pads = "normal"
             /\ hlt = 0 /\ ipc = "reset" /\ LateAnswers <= 1
  <2>1. dpm.pc = "idle"
    BY <1>1 DEF IInv, PhaseInv
  <2>2. lists.prepared = <<>> /\ lists.suspended = <<>> /\ lists.noirq = <<>> /\ lists.dpm \in Seq(Device)
    BY <1>1, <2>1 DEF IInv, DeviceInv, EmptyInv, NoirqPcs, TypeOK, DevicePMTypeOK
  <2>3. lists.dpm = Devices
    BY <1>1, <2>2 DEF IInv, DeviceInv, OrderInv
  <2>4. is_suspended = {}
    BY <1>1, <2>1 DEF IInv, DeviceInv, SuspendedInv
  <2>5. ASSUME NEW d \in Device PROVE thread[d] = "none"
    <3>1. thread[d] \in {"none"} \cup SuspendStates \cup ResumeStates
      BY <1>1, TypeParts DEF IInv, DeviceType
    <3>2. thread[d] \notin SuspendStates /\ thread[d] \notin ResumeStates
      BY <1>1, <2>1 DEF IInv, DeviceInv, ThreadInv, SuspendPcs, ResumePcs
    <3> QED
      BY <3>1, <3>2
  <2>6. ASSUME NEW d \in Device PROVE usage[d] = 0
    BY <1>1, <2>4, <2>5 DEF IInv, DeviceInv, UsageInv
  <2>7. /\ lines = "enabled" /\ ~sys.frozen /\ ~sys.usermodehelper_disabled /\ sys.pads = "normal"
    BY <1>1, <2>1 DEF IInv, SysInv, NoirqPcs, TypeOK, DevicePMTypeOK
  <2>8. \A s \in Sources : irq[s] \in {"none", "raised"}
    BY <1>1, <2>7 DEF IInv, SysInv
  <2>9. hlt = 0 /\ ipc = "reset" /\ m3call.pc = "none"
    BY <1>1 DEF IInv, CallInv, SinceBegin
  <2>10. LateAnswers <= 1
    BY <1>1, <2>9 DEF IInv, AnswerInv
  <2> QED
    BY <2>3, <2>4, <2>5, <2>6, <2>7, <2>8, <2>9, <2>10
<1>2. IInv => AllRestored
  BY <1>1 DEF AllRestored
<1> QED
  BY <1>2, Invariance, PTL

=============================================================================
