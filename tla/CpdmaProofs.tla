----------------------------- MODULE CpdmaProofs -----------------------------
(***************************************************************************)
(* Proofs about Cpdma, for a pool of any size, any number of receive       *)
(* buffers the lower half holds, and any quota.  An engine that a stop let *)
(* go astray is part of them: it stays in its half of the pool and does no *)
(* harm to the list, the bitmap or the other channel.                      *)
(***************************************************************************)
EXTENDS Cpdma, FiniteSetTheorems, SequenceTheorems, WellFoundedInduction, TLAPS

USE DEF history

(* The part of the pool a channel allocates from.                          *)
Half(c) == IF c = "rx" THEN 1..(NumDesc \div 2) ELSE TxHalf

(* The CPU has moved chan->head past a descriptor it has yet to free.      *)
Held(c) == cpu.ch = c /\ cpu.pc \in {"free", "rest_free"}

(* The queue as the list in descriptor memory holds it.                    *)
Live(c) == IF Held(c) THEN Tail(fifo[c]) ELSE fifo[c]

InQueue(c, d) == \E i \in 1..Len(fifo[c]) : fifo[c][i] = d

(* chan->head, the hw_next pointers and chan->tail are the queue.          *)
ChainInv(c) == LET q == Live(c) IN
  /\ head[c] = IF Len(q) = 0 THEN Nil ELSE q[1]
  /\ Len(q) > 0 => tail[c] = q[Len(q)]
  /\ \A i \in 1..Len(q) : desc[q[i]].next = IF i = Len(q) THEN Nil ELSE q[i + 1]

(* The engine has completed the first k descriptors and no other; the      *)
(* teardown mark is on none of a channel that runs.                        *)
OwnerInv(c, k) == \A i \in 1..Len(Live(c)) :
  /\ desc[Live(c)[i]].owner <=> i > k
  /\ desc[Live(c)[i]].td => i <= k /\ state[c] = "teardown"

(* It is at the first one it has not completed, or about to go there, and  *)
(* what it read of hw_next is right or was read before the successor was   *)
(* linked.  A stopped channel is at rest.                                  *)
EngineInv(c, k) == LET q == Live(c) IN
  /\ hw[c].busy = Nil => /\ hw[c].next = Nil
                         /\ hdp[c] # Nil => k < Len(q) /\ hdp[c] = q[k + 1]
  /\ hw[c].busy # Nil => /\ k < Len(q) /\ hw[c].busy = q[k + 1]
                         /\ hdp[c] = hw[c].next
                         /\ hdp[c] # Nil => k + 1 < Len(q) /\ hdp[c] = q[k + 2]
  /\ (state[c] # "active" /\ ~td[c]) => hdp[c] = Nil /\ hw[c].busy = Nil

(* An end-of-queue mark is on the last completed descriptor only and tells *)
(* that the engine is at rest; it is there when all are completed.         *)
EoqInv(c, k) == LET q == Live(c) IN
  /\ \A i \in 1..k : desc[q[i]].eoq => i = k /\ hdp[c] = Nil /\ hw[c].busy = Nil
  /\ (k = Len(q) /\ k > 0) => desc[q[k]].eoq

(* A running channel with work left is at it, or its end-of-queue mark is  *)
(* still to be seen; and while a completed descriptor is unacknowledged,   *)
(* the interrupt stands and the completion pointer names the last one.     *)
RunInv(c, k) == LET q == Live(c) IN state[c] = "active" =>
  /\ k < Len(q) => hdp[c] # Nil \/ hw[c].busy # Nil \/ (k > 0 /\ desc[q[k]].eoq)
  /\ k > 0 => irq[c] /\ hwcp[c] = q[k]

(* A teardown request stands only while the CPU waits for it.              *)
StopInv(c, k) ==
  /\ td[c] => state[c] = "teardown" /\ cpu.pc = "wait" /\ cpu.ch = c
  /\ state[c] = "idle" => k = 0

LiveInv(c, k) ==
  OwnerInv(c, k) /\ EoqInv(c, k) /\ EngineInv(c, k) /\ RunInv(c, k) /\ StopInv(c, k)

(* A channel that does not run is empty unless it is being filled, and     *)
(* what it is filled with is fresh.                                        *)
RestInv(c) == LET q == Live(c) IN state[c] = "idle" =>
  /\ Len(q) = 0 \/ (cpu.job = "open" /\ c = "rx")
  /\ \A i \in 1..Len(q) : desc[q[i]].owner /\ ~desc[q[i]].eoq /\ ~desc[q[i]].td

(* The list is the queue in any case; what is said of the engine is said   *)
(* of one that is not astray.                                              *)
ChanOK(c) == /\ ChainInv(c) /\ RestInv(c)
             /\ Tame(c) => \E k \in 0..Len(Live(c)) : LiveInv(c, k)

ChanInv == \A c \in Chan : ChanOK(c)

(* The engine and the hw_next pointers stay in the channel's half.         *)
HalfInv == \A c \in Chan :
  /\ hdp[c] \in Half(c) \cup {Nil}
  /\ hw[c].busy \in Half(c) \cup {Nil} /\ hw[c].next \in Half(c) \cup {Nil}
  /\ \A d \in Half(c) : desc[d].next \in Half(c) \cup {Nil}

(* A queue holds descriptors of its half, each once, and the bitmap is     *)
(* that of the queued ones and the one just allocated.                     *)
QueueInv == \A c \in Chan : \A i \in 1..Len(fifo[c]) :
  /\ fifo[c][i] \in Half(c)
  /\ \A j \in 1..Len(fifo[c]) : fifo[c][i] = fifo[c][j] => i = j

BitmapInv == \A d \in Desc : (d - 1 \in bitmap) <=>
  (InQueue("tx", d) \/ InQueue("rx", d) \/ (cpu.pc = "chain" /\ d = cpu.desc))

Fresh == [next |-> Nil, owner |-> TRUE, eoq |-> FALSE, td |-> FALSE]

(* What the local variables of the CPU's place hold.                       *)
CpuInv ==
  LET c == cpu.ch
      q == Live(cpu.ch)
  IN
  /\ cpu.pc = "dequeue" => Len(q) > 0 /\ cpu.desc = q[1]
  /\ (cpu.pc = "dequeue" /\ Tame(c)) => /\ ~desc[q[1]].owner
                                        /\ cpu.eoq = desc[q[1]].eoq /\ cpu.td = desc[q[1]].td
  /\ Held(c) => Len(fifo[c]) > 0 /\ cpu.desc = fifo[c][1]
  /\ cpu.pc \in {"check", "misqueued"} => Len(q) > 1 /\ cpu.desc = q[Len(q) - 1]
  /\ (cpu.pc = "misqueued" /\ Tame(c)) => ~desc[cpu.desc].owner /\ desc[cpu.desc].eoq
  /\ cpu.pc = "chain" => /\ cpu.desc \in Half(c) /\ ~InQueue(c, cpu.desc)
                         /\ desc[cpu.desc].next = Nil
  /\ (cpu.pc = "chain" /\ (Tame(c) \/ cpu.job = "open")) => desc[cpu.desc] = Fresh

SubmitPcs == {"submit", "chain", "check"}
ProcessPcs == {"process", "dequeue", "free", "handler"}
StopPcs == {"stop", "wait", "rest", "rest_free", "stopped"}

(* chan->state of the channel being stopped.                               *)
StopState == IF cpu.pc = "stop" THEN "active"
             ELSE IF cpu.pc = "stopped" THEN "idle" ELSE "teardown"

(* Which places a call has, and the states of controller and channels      *)
(* there.                                                                  *)
PhaseInv ==
  \/ /\ cpu.job = "none" /\ cpu.pc = "idle"
     /\ ctlr \in {"idle", "active"} /\ \A c \in Chan : state[c] = ctlr
  \/ /\ cpu.job = "open" /\ cpu.pc \in SubmitPcs \cup {"fill", "start"} /\ cpu.ch = "rx"
     /\ ctlr = "idle" /\ \A c \in Chan : state[c] = "idle"
  \/ /\ cpu.job = "xmit" /\ cpu.pc \in SubmitPcs \cup {"misqueued"} /\ cpu.ch = "tx"
     /\ ctlr = "active" /\ \A c \in Chan : state[c] = "active"
  \/ /\ cpu.job = "poll"
     /\ cpu.pc \in SubmitPcs \cup ProcessPcs \cup {"misqueued", "loop", "next"}
     /\ cpu.pc \in SubmitPcs \cup {"misqueued"} => cpu.ch = "rx"
     /\ cpu.pc \in ProcessPcs => cpu.used < Quota
     /\ ctlr = "active" /\ \A c \in Chan : state[c] = "active"
  \/ /\ cpu.job = "timeout" /\ cpu.pc \in ProcessPcs \cup StopPcs /\ cpu.ch = "tx"
     /\ ctlr = "active" /\ state["rx"] = "active" /\ state["tx"] = StopState
  \/ /\ cpu.job = "close" /\ cpu.pc \in ProcessPcs \cup StopPcs
     /\ ctlr = "teardown" /\ state[cpu.ch] = StopState
     /\ cpu.ch = "tx" => state["rx"] = "active"
     /\ cpu.ch = "rx" => state["tx"] = "idle"

(* The receive queue never holds more than the buffers the open queued:    *)
(* that is what keeps the search of a full half from being reached.        *)
CountInv ==
  LET n == Len(fifo["rx"])
  IN
  /\ n <= RxDescs
  /\ cpu.job = "open" => n <= cpu.used
  /\ (cpu.job = "open" /\ cpu.pc \in {"submit", "chain"}) => n < cpu.used
  /\ (cpu.job = "poll" /\ cpu.ch = "rx" /\ cpu.pc \in {"handler", "submit", "chain"})
       => n < RxDescs

(* All that is said without HalfInv, which only an engine astray needs.    *)
IInv == TypeOK /\ PhaseInv /\ CpuInv /\ QueueInv /\ BitmapInv /\ CountInv /\ ChanInv

Inv == IInv /\ HalfInv

(***************************************************************************)
(* Descriptors and queues.                                                 *)
(***************************************************************************)

LEMMA HalfFacts ==
  /\ NumDesc \in Nat /\ RxDescs \in Nat \ {0} /\ Quota \in Nat \ {0}
  /\ NumDesc \div 2 \in Nat /\ 1 <= NumDesc \div 2 /\ NumDesc \div 2 < NumDesc
  /\ RxDescs <= NumDesc \div 2
BY CpdmaAssumption

LEMMA HalfDesc ==
  /\ \A c \in Chan : \A d \in Half(c) : d \in Desc /\ d \in Nat \ {0}
  /\ \A c, e \in Chan : \A d \in Half(c) : d \in Half(e) => c = e
BY HalfFacts DEF Half, Desc, TxHalf, Chan

LEMMA RemoveHead ==
  ASSUME NEW s \in Seq(Desc), Len(s) > 0,
         \A i, j \in 1..Len(s) : s[i] = s[j] => i = j
  PROVE  RemoveAt(s, CHOOSE i \in DOMAIN s : s[i] = s[1]) = Tail(s)
<1>1. DOMAIN s = 1..Len(s) /\ Len(s) \in Nat
  BY LenProperties
<1>2. (CHOOSE i \in DOMAIN s : s[i] = s[1]) = 1
  BY <1>1
<1>3. SubSeq(s, 1, 0) = <<>>
  BY SubSeqEmpty
<1>4. s # <<>>
  BY EmptySeq
<1>5. Tail(s) = SubSeq(s, 2, Len(s)) /\ Tail(s) \in Seq(Desc)
  BY <1>4, TailIsSubSeq, HeadTailProperties
<1>6. <<>> \o Tail(s) = Tail(s)
  BY <1>5, ConcatEmptySeq
<1>7. RemoveAt(s, 1) = SubSeq(s, 1, 0) \o SubSeq(s, 2, Len(s))
  BY DEF RemoveAt
<1> QED
  BY <1>2, <1>3, <1>5, <1>6, <1>7

LEMMA TailFacts ==
  ASSUME NEW s \in Seq(Desc), Len(s) > 0
  PROVE  /\ Tail(s) \in Seq(Desc) /\ Len(Tail(s)) = Len(s) - 1
         /\ Len(Tail(s)) \in Nat /\ Len(s) \in Nat
         /\ \A i \in 1..Len(Tail(s)) : Tail(s)[i] = s[i + 1]
<1>1. s # <<>>
  BY EmptySeq
<1> QED
  BY <1>1, HeadTailProperties, LenProperties

LEMMA AppendFacts ==
  ASSUME NEW s \in Seq(Desc), NEW d \in Desc
  PROVE  /\ Append(s, d) \in Seq(Desc) /\ Len(Append(s, d)) = Len(s) + 1
         /\ Len(s) \in Nat
         /\ \A i \in 1..Len(s) : Append(s, d)[i] = s[i]
         /\ Append(s, d)[Len(s) + 1] = d
BY AppendProperties, LenProperties

(* The queue in memory: its descriptors belong to the channel's half.      *)
LEMMA LiveFacts ==
  ASSUME IInv, NEW c \in Chan
  PROVE  /\ fifo[c] \in Seq(Desc) /\ Len(fifo[c]) \in Nat
         /\ Live(c) \in Seq(Desc) /\ Len(Live(c)) \in Nat
         /\ Held(c) => Live(c) = Tail(fifo[c]) /\ Len(Live(c)) = Len(fifo[c]) - 1
         /\ ~Held(c) => Live(c) = fifo[c]
         /\ \A i \in 1..Len(Live(c)) :
              /\ Live(c)[i] \in Half(c) /\ Live(c)[i] \in Desc /\ Live(c)[i] # Nil
              /\ \A j \in 1..Len(Live(c)) : Live(c)[i] = Live(c)[j] => i = j
<1>1. fifo[c] \in Seq(Desc) /\ Len(fifo[c]) \in Nat
  BY LenProperties DEF IInv, TypeOK
<1>2. \A i \in 1..Len(fifo[c]) : /\ fifo[c][i] \in Half(c)
                                 /\ fifo[c][i] \in Desc /\ fifo[c][i] # Nil
                                 /\ \A j \in 1..Len(fifo[c]) : fifo[c][i] = fifo[c][j] => i = j
  BY HalfDesc DEF IInv, QueueInv, Nil
<1>3. CASE ~Held(c)
  <2>1. Live(c) = fifo[c]
    BY <1>3 DEF Live
  <2> QED
    BY <1>1, <1>2, <1>3, <2>1
<1>4. CASE Held(c)
  <2>1. Live(c) = Tail(fifo[c]) /\ Len(fifo[c]) > 0
    BY <1>4 DEF Live, IInv, CpuInv, Held
  <2>2. /\ Live(c) \in Seq(Desc) /\ Len(Live(c)) = Len(fifo[c]) - 1 /\ Len(Live(c)) \in Nat
        /\ \A i \in 1..Len(Live(c)) : Live(c)[i] = fifo[c][i + 1]
    BY <1>1, <2>1, TailFacts
  <2>3. \A i \in 1..Len(Live(c)) : i + 1 \in 1..Len(fifo[c])
    BY <1>1, <2>2
  <2>4. ASSUME NEW i \in 1..Len(Live(c)), NEW j \in 1..Len(Live(c)), Live(c)[i] = Live(c)[j]
        PROVE  i = j
    <3>1. i + 1 = j + 1
      BY <1>2, <2>2, <2>3, <2>4
    <3> QED
      BY <3>1
  <2>5. \A i \in 1..Len(Live(c)) : Live(c)[i] \in Half(c) /\ Live(c)[i] \in Desc /\ Live(c)[i] # Nil
    BY <1>2, <2>2, <2>3
  <2> QED
    BY <1>1, <1>4, <2>1, <2>2, <2>4, <2>5
<1> QED
  BY <1>3, <1>4

(* A step that changes nothing of a channel keeps what is said of it.      *)
LEMMA ChanFrame ==
  ASSUME NEW e \in Chan, ChanOK(e), Live(e)' = Live(e), Len(Live(e)) \in Nat,
         \A i \in 1..Len(Live(e)) : desc'[Live(e)[i]] = desc[Live(e)[i]],
         head'[e] = head[e], tail'[e] = tail[e], hdp'[e] = hdp[e], hw'[e] = hw[e],
         hwcp'[e] = hwcp[e], irq'[e] = irq[e], td'[e] = td[e], state'[e] = state[e],
         astray'[e] = astray[e],
         (td[e] /\ Tame(e)) => cpu'.pc = "wait" /\ cpu'.ch = e,
         (state[e] = "idle" /\ cpu.job = "open") => cpu'.job = "open" \/ Len(Live(e)) = 0
  PROVE  ChanOK(e)'
<1>0. ChainInv(e)'
  BY DEF ChanOK, ChainInv
<1>1. ChainInv(e)' /\ RestInv(e)'
  <2>1. SUFFICES ASSUME state[e] = "idle"
                 PROVE  RestInv(e)'
    BY <1>0 DEF RestInv
  <2>2. Len(Live(e)) = 0 \/ (cpu.job = "open" /\ e = "rx")
    BY <2>1 DEF ChanOK, RestInv
  <2>3. \A i \in 1..Len(Live(e)) : /\ desc[Live(e)[i]].owner
                                   /\ ~desc[Live(e)[i]].eoq /\ ~desc[Live(e)[i]].td
    BY <2>1 DEF ChanOK, RestInv
  <2> QED
    BY <2>1, <2>2, <2>3 DEF RestInv
<1>2. (Tame(e) => Tame(e)') /\ (Tame(e)' => Tame(e))
  BY DEF Tame
<1>3. SUFFICES ASSUME Tame(e)
               PROVE  \E k \in 0..Len(Live(e)) : LiveInv(e, k)'
  BY <1>1, <1>2 DEF ChanOK
<1>4. PICK k \in 0..Len(Live(e)) : LiveInv(e, k)
  BY <1>3 DEF ChanOK
<1>5. k \in Nat /\ k <= Len(Live(e))
  BY <1>4
<1>6. OwnerInv(e, k)'
  BY <1>4 DEF LiveInv, OwnerInv
<1>7. EngineInv(e, k)'
  BY <1>4 DEF LiveInv, EngineInv
<1>8. EoqInv(e, k)'
  BY <1>4, <1>5 DEF LiveInv, EoqInv
<1>9. RunInv(e, k)'
  BY <1>4, <1>5 DEF LiveInv, RunInv
<1>10. StopInv(e, k)'
  BY <1>3, <1>4 DEF LiveInv, StopInv
<1> QED
  BY <1>4, <1>6, <1>7, <1>8, <1>9, <1>10 DEF LiveInv

(***************************************************************************)
(* Steps of the engine.                                                    *)
(***************************************************************************)

LEMMA EngineFrame ==
  ASSUME IInv, UNCHANGED <<driver, cpu, history>>
  PROVE  /\ PhaseInv' /\ QueueInv' /\ BitmapInv' /\ CountInv'
         /\ \A x \in Chan : Live(x)' = Live(x) /\ Tame(x)' = Tame(x)
<1>1. PhaseInv' /\ CountInv' /\ QueueInv'
  BY DEF IInv, PhaseInv, CountInv, QueueInv, driver, StopState
<1>2. BitmapInv'
  BY DEF IInv, BitmapInv, InQueue, driver
<1>3. \A x \in Chan : Live(x)' = Live(x) /\ Tame(x)' = Tame(x)
  BY DEF Live, Held, Tame
<1> QED
  BY <1>1, <1>2, <1>3

(* The engine writes to descriptors it owns, which the CPU is not at.      *)
LEMMA EngineCpu ==
  ASSUME IInv, UNCHANGED <<driver, cpu, history>>, NEW c \in Chan, NEW m \in 1..Len(Live(c)),
         desc[Live(c)[m]].owner,
         \A d \in Desc : d # Live(c)[m] => desc'[d] = desc[d]
  PROVE  CpuInv'
<1> DEFINE b == Live(c)[m]
           p == cpu.ch
<1>1. p \in Chan /\ Live(p)' = Live(p) /\ Held(p)' = Held(p) /\ Tame(p)' = Tame(p)
  BY EngineFrame DEF IInv, TypeOK, Held
<1>2. b \in Half(c) /\ b \in Desc /\ InQueue(c, b)
  <2>1. CASE ~Held(c)
    BY <2>1, LiveFacts DEF InQueue
  <2>2. CASE Held(c)
    <3>1. Len(fifo[c]) > 0
      BY <2>2 DEF IInv, CpuInv, Held
    <3>2. fifo[c] \in Seq(Desc) /\ Live(c) = Tail(fifo[c])
      BY <2>2, LiveFacts
    <3>3. Live(c)[m] = fifo[c][m + 1] /\ m + 1 \in 1..Len(fifo[c])
      BY <3>1, <3>2, TailFacts
    <3> QED
      BY <3>3, LiveFacts DEF InQueue
  <2> QED
    BY <2>1, <2>2
<1>3. (cpu.pc = "dequeue" /\ Tame(p)) => desc'[Live(p)[1]] = desc[Live(p)[1]]
  <2> HAVE cpu.pc = "dequeue" /\ Tame(p)
  <2>1. Len(Live(p)) > 0 /\ ~desc[Live(p)[1]].owner
    BY DEF IInv, CpuInv
  <2>2. Live(p)[1] \in Desc
    BY <1>1, <2>1, LiveFacts
  <2> QED
    BY <2>1, <2>2
<1>4. (cpu.pc = "misqueued" /\ Tame(p)) => desc'[cpu.desc] = desc[cpu.desc]
  <2> HAVE cpu.pc = "misqueued" /\ Tame(p)
  <2>1. Len(Live(p)) > 1 /\ cpu.desc = Live(p)[Len(Live(p)) - 1] /\ ~desc[cpu.desc].owner
    BY DEF IInv, CpuInv
  <2>2. cpu.desc \in Desc
    BY <1>1, <2>1, LiveFacts
  <2> QED
    BY <2>1, <2>2
<1>5. cpu.pc = "chain" => desc'[cpu.desc] = desc[cpu.desc]
  <2> HAVE cpu.pc = "chain"
  <2>1. cpu.desc \in Half(p) /\ ~InQueue(p, cpu.desc)
    BY DEF IInv, CpuInv
  <2>2. cpu.desc # b /\ cpu.desc \in Desc
    BY <1>1, <1>2, <2>1, HalfDesc
  <2> QED
    BY <2>2
<1>6. \A d : InQueue(p, d)' <=> InQueue(p, d)
  BY DEF InQueue
<1> HIDE DEF b
<1> QED
  BY <1>1, <1>3, <1>4, <1>5, <1>6 DEF IInv, CpuInv

(* The other channel does not notice.                                      *)
LEMMA EngineOther ==
  ASSUME IInv, UNCHANGED <<driver, cpu, history>>, NEW c \in Chan, NEW e \in Chan, e # c,
         \A d \in Desc : d \notin Half(c) => desc'[d] = desc[d],
         hdp'[e] = hdp[e], hw'[e] = hw[e], hwcp'[e] = hwcp[e], irq'[e] = irq[e], td'[e] = td[e]
  PROVE  ChanOK(e)'
<1>1. Live(e)' = Live(e)
  BY EngineFrame
<1>2. \A i \in 1..Len(Live(e)) : desc'[Live(e)[i]] = desc[Live(e)[i]]
  BY LiveFacts, HalfDesc
<1>3. ChanOK(e) /\ Len(Live(e)) \in Nat
  BY LiveFacts DEF IInv, ChanInv
<1>4. (td[e] /\ Tame(e)) => cpu.pc = "wait" /\ cpu.ch = e
  BY <1>3 DEF ChanOK, LiveInv, StopInv
<1>5. UNCHANGED <<state, head, tail, cpu>>
  BY DEF driver
<1> QED
  BY <1>1, <1>2, <1>3, <1>4, <1>5, ChanFrame

(* A channel that does not run has nothing the engine could be at.         *)
LEMMA EngineRest ==
  ASSUME IInv, UNCHANGED <<driver, cpu, history>>, NEW c \in Chan, ctlr # "idle"
  PROVE  RestInv(c)'
<1>1. Live(c)' = Live(c) /\ state' = state
  BY EngineFrame DEF driver
<1>2. cpu.job # "open"
  BY DEF IInv, PhaseInv
<1>3. state[c] = "idle" => Len(Live(c)) = 0
  BY <1>2 DEF IInv, ChanInv, ChanOK, RestInv
<1> QED
  BY <1>1, <1>3 DEF RestInv

LEMMA FetchStep ==
  ASSUME IInv, NEW c \in Chan, Tame(c), hw_fetch(c)
  PROVE  IInv'
<1> DEFINE q == Live(c)
           n == Len(q)
<1>1. UNCHANGED <<driver, cpu, history>> /\ UNCHANGED <<desc, hwcp, irq, td>>
  BY DEF hw_fetch
<1>2. PICK k \in 0..n : LiveInv(c, k)
  BY DEF IInv, ChanInv, ChanOK
<1>3. /\ n \in Nat /\ k \in Nat /\ k <= n
      /\ \A i \in 1..n : q[i] \in Desc /\ q[i] # Nil
  BY <1>2, LiveFacts
<1>4. hdp[c] # Nil /\ hw[c].busy = Nil /\ k < n /\ hdp[c] = q[k + 1]
  BY <1>2 DEF hw_fetch, LiveInv, EngineInv
<1>5. desc[hdp[c]].next = IF k + 1 = n THEN Nil ELSE q[k + 2]
  <2>1. k + 1 \in 1..n
    BY <1>3, <1>4
  <2> QED
    BY <1>3, <1>4, <2>1 DEF IInv, ChanInv, ChanOK, ChainInv
<1>6. /\ hw' = [hw EXCEPT ![c] = [busy |-> hdp[c], next |-> desc[hdp[c]].next]]
      /\ hdp' = [hdp EXCEPT ![c] = desc[hdp[c]].next]
      /\ hw \in [Chan -> [busy : Desc \cup {Nil}, next : Desc \cup {Nil}]]
      /\ hdp \in [Chan -> Desc \cup {Nil}]
  BY DEF hw_fetch, IInv, TypeOK
<1>7. /\ hw'[c].busy = q[k + 1] /\ hw'[c].next = desc[hdp[c]].next /\ hdp'[c] = desc[hdp[c]].next
      /\ \A e \in Chan : e # c => hw'[e] = hw[e] /\ hdp'[e] = hdp[e]
  BY <1>4, <1>6
<1>8. q[k + 1] \in Desc /\ q[k + 1] # Nil /\ desc[hdp[c]].next \in Desc \cup {Nil}
  BY <1>3, <1>4, <1>5
<1>9. TypeOK'
  BY <1>1, <1>4, <1>6, <1>8 DEF IInv, TypeOK, driver
<1>10. Live(c)' = q /\ Tame(c)' /\ PhaseInv' /\ QueueInv' /\ BitmapInv' /\ CountInv'
  BY <1>1, EngineFrame
<1>11. CpuInv'
  BY <1>1 DEF IInv, CpuInv, Live, Held, InQueue, Tame
<1>12. ASSUME NEW e \in Chan, e # c PROVE ChanOK(e)'
  BY <1>1, <1>7, <1>12, EngineOther
<1>13. ChanOK(c)'
  <2> HIDE DEF q, n
  <2>0. UNCHANGED <<state, head, tail>>
    BY <1>1 DEF driver
  <2>1. ChainInv(c)'
    BY <1>1, <1>10, <2>0 DEF IInv, ChanInv, ChanOK, ChainInv, q
  <2>2. OwnerInv(c, k)'
    BY <1>1, <1>2, <1>10, <2>0 DEF LiveInv, OwnerInv, q
  <2>3. EngineInv(c, k)'
    <3>1. state[c] # "active" => td[c]
      BY <1>1, <1>2, <1>4, <2>0 DEF LiveInv, EngineInv
    <3> QED
      BY <1>1, <1>3, <1>4, <1>5, <1>7, <1>8, <1>10, <2>0, <3>1 DEF EngineInv, n
  <2>4. \A i \in 1..k : ~desc[q[i]].eoq
    BY <1>2, <1>4 DEF LiveInv, EoqInv, q
  <2>5. EoqInv(c, k)'
    BY <1>1, <1>3, <1>4, <1>10, <2>4 DEF EoqInv, n
  <2>6. RunInv(c, k)'
    BY <1>1, <1>2, <1>7, <1>8, <1>10, <2>0 DEF LiveInv, RunInv, n, q
  <2>8. StopInv(c, k)'
    BY <1>1, <1>2, <1>10, <2>0 DEF LiveInv, StopInv
  <2>9. RestInv(c)'
    BY <1>1, EngineRest DEF hw_fetch
  <2> QED
    BY <1>2, <1>10, <2>9, <2>1, <2>2, <2>3, <2>5, <2>6, <2>8 DEF ChanOK, LiveInv, n
<1> QED
  BY <1>9, <1>10, <1>11, <1>12, <1>13 DEF IInv, ChanInv

LEMMA CompleteStep ==
  ASSUME IInv, NEW c \in Chan, Tame(c), hw_complete(c)
  PROVE  IInv'
<1> DEFINE q == Live(c)
           n == Len(q)
           b == hw[c].busy
<1>1. UNCHANGED <<driver, cpu, history>> /\ UNCHANGED <<hdp, td>> /\ b # Nil
  BY DEF hw_complete
<1>2. PICK k \in 0..n : LiveInv(c, k)
  BY DEF IInv, ChanInv, ChanOK
<1>3. /\ n \in Nat /\ k \in Nat /\ k <= n
      /\ \A i \in 1..n : /\ q[i] \in Desc /\ q[i] # Nil /\ q[i] \in Half(c)
                         /\ \A j \in 1..n : q[i] = q[j] => i = j
  BY <1>2, LiveFacts
<1>4. /\ k < n /\ b = q[k + 1] /\ hdp[c] = hw[c].next /\ k + 1 \in 1..n
      /\ hdp[c] # Nil => k + 1 < n /\ hdp[c] = q[k + 2]
      /\ state[c] # "active" => td[c]
  BY <1>1, <1>2, <1>3 DEF LiveInv, EngineInv
<1>5. b \in Desc /\ b \in Half(c) /\ desc[b].owner /\ ~desc[b].td
  BY <1>2, <1>3, <1>4 DEF LiveInv, OwnerInv
<1>6. /\ desc' = [desc EXCEPT ![b].owner = FALSE, ![b].eoq = (hw[c].next = Nil)]
      /\ desc \in [Desc -> [next : Desc \cup {Nil}, owner : BOOLEAN, eoq : BOOLEAN, td : BOOLEAN]]
  BY DEF hw_complete, IInv, TypeOK
<1>7. /\ ~desc'[b].owner /\ (desc'[b].eoq <=> hdp[c] = Nil)
      /\ desc'[b].td = desc[b].td /\ desc'[b].next = desc[b].next
      /\ \A d \in Desc : d # b => desc'[d] = desc[d]
  BY <1>4, <1>5, <1>6
<1>8. desc' \in [Desc -> [next : Desc \cup {Nil}, owner : BOOLEAN, eoq : BOOLEAN, td : BOOLEAN]]
  <2>a. desc \in [Desc -> [next : Desc \cup {Nil}, owner : BOOLEAN, eoq : BOOLEAN, td : BOOLEAN]]
    BY <1>6
  <2>1. CASE hw[c].next = Nil
    <3>1. desc' = [desc EXCEPT ![b].owner = FALSE, ![b].eoq = TRUE]
      BY <1>6, <2>1
    <3> QED
      BY <1>5, <2>a, <3>1, ZenonT(30)
  <2>2. CASE hw[c].next # Nil
    <3>1. desc' = [desc EXCEPT ![b].owner = FALSE, ![b].eoq = FALSE]
      BY <1>6, <2>2
    <3> QED
      BY <1>5, <2>a, <3>1, ZenonT(30)
  <2> QED
    BY <2>1, <2>2
<1>9. /\ hw' = [hw EXCEPT ![c] = [busy |-> Nil, next |-> Nil]]
      /\ hwcp' = [hwcp EXCEPT ![c] = b] /\ irq' = [irq EXCEPT ![c] = TRUE]
      /\ hw \in [Chan -> [busy : Desc \cup {Nil}, next : Desc \cup {Nil}]]
      /\ hwcp \in [Chan -> Desc \cup {Nil, TEARDOWN_VALUE}] /\ irq \in [Chan -> BOOLEAN]
  BY DEF hw_complete, IInv, TypeOK
<1>10. /\ hw'[c].busy = Nil /\ hw'[c].next = Nil /\ hwcp'[c] = b /\ irq'[c]
       /\ \A e \in Chan : e # c => hw'[e] = hw[e] /\ hwcp'[e] = hwcp[e] /\ irq'[e] = irq[e]
  BY <1>9
<1>11. TypeOK'
  <2>1. /\ hw' \in [Chan -> [busy : Desc \cup {Nil}, next : Desc \cup {Nil}]]
        /\ hwcp' \in [Chan -> Desc \cup {Nil, TEARDOWN_VALUE}] /\ irq' \in [Chan -> BOOLEAN]
    BY <1>5, <1>9
  <2> QED
    BY <1>1, <1>8, <2>1 DEF IInv, TypeOK, driver
<1>12. Live(c)' = q /\ Tame(c)' /\ PhaseInv' /\ QueueInv' /\ BitmapInv' /\ CountInv'
  BY <1>1, EngineFrame
<1>13. CpuInv'
  BY <1>1, <1>4, <1>5, <1>7, EngineCpu
<1>14. ASSUME NEW e \in Chan, e # c PROVE ChanOK(e)'
  BY <1>1, <1>5, <1>7, <1>10, <1>14, EngineOther
<1>15. ChanOK(c)'
  <2> HIDE DEF q, n, b
  <2>0. UNCHANGED <<state, head, tail>>
    BY <1>1 DEF driver
  <2>a. \A i \in 1..n : /\ i # k + 1 => desc'[q[i]] = desc[q[i]]
                        /\ desc'[q[i]].next = desc[q[i]].next
                        /\ desc'[q[i]].td = desc[q[i]].td
    BY <1>3, <1>4, <1>7
  <2>1. ChainInv(c)'
    BY <1>12, <2>0, <2>a DEF IInv, ChanInv, ChanOK, ChainInv, q, n
  <2>2. OwnerInv(c, k + 1)'
    <3>1. \A i \in 1..n : (desc[q[i]].owner <=> i > k) /\ (desc[q[i]].td => i <= k /\ state[c] = "teardown")
      BY <1>2 DEF LiveInv, OwnerInv, n, q
    <3>2. \A i \in 1..n : desc'[q[i]].owner <=> i > k + 1
      BY <1>3, <1>4, <1>7, <2>a, <3>1
    <3>3. \A i \in 1..n : desc'[q[i]].td => i <= k + 1 /\ state[c] = "teardown"
      BY <1>3, <2>a, <3>1
    <3> QED
      BY <1>12, <2>0, <3>2, <3>3 DEF OwnerInv, n
  <2>3. EngineInv(c, k + 1)'
    BY <1>1, <1>3, <1>4, <1>10, <1>12, <2>0 DEF EngineInv, n
  <2>4. \A i \in 1..k : ~desc[q[i]].eoq
    BY <1>1, <1>2 DEF LiveInv, EoqInv, q, b
  <2>5. EoqInv(c, k + 1)'
    <3>1. \A i \in 1..(k + 1) : desc'[q[i]].eoq => i = k + 1 /\ hdp[c] = Nil
      BY <1>3, <1>4, <1>7, <2>4, <2>a
    <3>2. k + 1 = n => desc'[q[k + 1]].eoq
      BY <1>4, <1>7
    <3> QED
      BY <1>1, <1>3, <1>10, <1>12, <3>1, <3>2 DEF EoqInv, n
  <2>6. RunInv(c, k + 1)'
    BY <1>1, <1>3, <1>4, <1>7, <1>10, <1>12, <2>0 DEF RunInv, n
  <2>7. StopInv(c, k + 1)'
    <3>1. td[c] => state[c] = "teardown" /\ cpu.pc = "wait" /\ cpu.ch = c
      BY <1>2 DEF LiveInv, StopInv
    <3>2. state[c] # "idle"
      BY <1>4, <3>1
    <3> QED
      BY <1>1, <2>0, <3>1, <3>2 DEF StopInv
  <2>8. RestInv(c)'
    BY <1>1, EngineRest DEF hw_complete
  <2> QED
    <3>1. k + 1 \in 0..n
      BY <1>3, <1>4
    <3> QED
      BY <1>12, <2>1, <2>2, <2>3, <2>5, <2>6, <2>7, <2>8, <3>1 DEF ChanOK, LiveInv, n
<1> QED
  BY <1>11, <1>12, <1>13, <1>14, <1>15 DEF IInv, ChanInv

(* A teardown with nothing to give back, and with a descriptor to mark.    *)
LEMMA TeardownStep ==
  ASSUME IInv, NEW c \in Chan, Tame(c), hw_teardown(c)
  PROVE  IInv'
<1> DEFINE q == Live(c)
           n == Len(q)
           b == hdp[c]
<1>1. UNCHANGED <<driver, cpu, history>> /\ UNCHANGED hw /\ hw[c].busy = Nil /\ td[c]
  BY DEF hw_teardown
<1>2. PICK k \in 0..n : LiveInv(c, k)
  BY DEF IInv, ChanInv, ChanOK
<1>3. /\ n \in Nat /\ k \in Nat /\ k <= n
      /\ \A i \in 1..n : /\ q[i] \in Desc /\ q[i] # Nil /\ q[i] \in Half(c)
                         /\ \A j \in 1..n : q[i] = q[j] => i = j
  BY <1>2, LiveFacts
<1>4. /\ b # Nil => k < n /\ b = q[k + 1] /\ k + 1 \in 1..n
      /\ hw[c].next = Nil
      /\ state[c] = "teardown"
  BY <1>1, <1>2, <1>3 DEF LiveInv, EngineInv, StopInv
<1>5. b # Nil => b \in Desc /\ b \in Half(c) /\ desc[b].owner
  BY <1>2, <1>3, <1>4 DEF LiveInv, OwnerInv
<1>6. /\ desc' = IF b = Nil THEN desc
                 ELSE [desc EXCEPT ![b].owner = FALSE, ![b].eoq = TRUE, ![b].td = TRUE]
      /\ desc \in [Desc -> [next : Desc \cup {Nil}, owner : BOOLEAN, eoq : BOOLEAN, td : BOOLEAN]]
  BY DEF hw_teardown, IInv, TypeOK
<1>7. /\ b # Nil => ~desc'[b].owner /\ desc'[b].eoq /\ desc'[b].td /\ desc'[b].next = desc[b].next
      /\ \A d \in Desc : d # b => desc'[d] = desc[d]
      /\ b = Nil => desc' = desc
  BY <1>5, <1>6
<1>8. desc' \in [Desc -> [next : Desc \cup {Nil}, owner : BOOLEAN, eoq : BOOLEAN, td : BOOLEAN]]
  BY <1>5, <1>6, ZenonT(60)
<1>9. /\ hdp' = [hdp EXCEPT ![c] = Nil] /\ td' = [td EXCEPT ![c] = FALSE]
      /\ hwcp' = [hwcp EXCEPT ![c] = TEARDOWN_VALUE] /\ irq' = [irq EXCEPT ![c] = TRUE]
      /\ hdp \in [Chan -> Desc \cup {Nil}] /\ td \in [Chan -> BOOLEAN]
      /\ hwcp \in [Chan -> Desc \cup {Nil, TEARDOWN_VALUE}] /\ irq \in [Chan -> BOOLEAN]
  BY DEF hw_teardown, IInv, TypeOK
<1>10. /\ hdp'[c] = Nil /\ ~td'[c]
       /\ \A e \in Chan : e # c => /\ hdp'[e] = hdp[e] /\ td'[e] = td[e]
                                   /\ hwcp'[e] = hwcp[e] /\ irq'[e] = irq[e]
  BY <1>9
<1>11. TypeOK'
  <2>1. /\ hdp' \in [Chan -> Desc \cup {Nil}] /\ td' \in [Chan -> BOOLEAN]
        /\ hwcp' \in [Chan -> Desc \cup {Nil, TEARDOWN_VALUE}] /\ irq' \in [Chan -> BOOLEAN]
    BY <1>9
  <2> QED
    BY <1>1, <1>8, <2>1 DEF IInv, TypeOK, driver
<1>12. Live(c)' = q /\ Tame(c)' /\ PhaseInv' /\ QueueInv' /\ BitmapInv' /\ CountInv'
  BY <1>1, EngineFrame
<1>13. CpuInv'
  <2>1. CASE b = Nil
    BY <1>1, <1>7, <2>1 DEF IInv, CpuInv, Live, Held, InQueue, Tame
  <2>2. CASE b # Nil
    BY <1>1, <1>4, <1>5, <1>7, <2>2, EngineCpu
  <2> QED
    BY <2>1, <2>2
<1>14. ASSUME NEW e \in Chan, e # c PROVE ChanOK(e)'
  <2>1. \A d \in Desc : d \notin Half(c) => desc'[d] = desc[d]
    BY <1>5, <1>7
  <2> QED
    BY <1>1, <1>10, <1>14, <2>1, EngineOther
<1>15. ChanOK(c)'
  <2> HIDE DEF q, n, b
  <2>0. UNCHANGED <<state, head, tail>>
    BY <1>1 DEF driver
  <2>a. /\ \A i \in 1..n : desc'[q[i]].next = desc[q[i]].next
        /\ \A i \in 1..n : i # k + 1 => desc'[q[i]] = desc[q[i]]
    BY <1>3, <1>4, <1>7
  <2>1. ChainInv(c)'
    BY <1>12, <2>0, <2>a DEF IInv, ChanInv, ChanOK, ChainInv, q, n
  <2>b. \A i \in 1..n : desc[q[i]].owner <=> i > k
    BY <1>2 DEF LiveInv, OwnerInv, n, q
  <2>c. /\ \A i \in 1..n : desc[q[i]].td => i <= k
        /\ \A i \in 1..k : desc[q[i]].eoq => i = k /\ b = Nil
    BY <1>2 DEF LiveInv, OwnerInv, EoqInv, n, q, b
  <2>d. (k = n /\ k > 0) => desc[q[k]].eoq
    BY <1>2 DEF LiveInv, EoqInv, n, q
  <2>e. RestInv(c)'
    BY <1>1, EngineRest DEF hw_teardown
  <2>2. ASSUME NEW m \in 0..n,
               \A i \in 1..n : /\ desc'[q[i]].owner <=> i > m
                               /\ desc'[q[i]].td => i <= m,
               \A i \in 1..m : desc'[q[i]].eoq => i = m,
               (m = n /\ m > 0) => desc'[q[m]].eoq
        PROVE  ChanOK(c)'
    <3>1. OwnerInv(c, m)'
      BY <1>4, <1>12, <2>0, <2>2 DEF OwnerInv, n
    <3>2. EngineInv(c, m)' /\ RunInv(c, m)'
      BY <1>1, <1>4, <1>10, <1>12, <2>0 DEF EngineInv, RunInv
    <3>3. EoqInv(c, m)'
      BY <1>1, <1>10, <1>12, <2>2 DEF EoqInv, n
    <3>4. StopInv(c, m)'
      BY <1>1, <1>4, <1>10, <1>12, <2>0, <2>2 DEF StopInv
    <3> QED
      BY <1>12, <2>1, <2>e, <3>1, <3>2, <3>3, <3>4 DEF ChanOK, LiveInv, n
  <2>3. CASE b = Nil
    <3>1. desc' = desc
      BY <1>7, <2>3
    <3> QED
      BY <2>2, <2>b, <2>c, <2>d, <3>1
  <2>4. CASE b # Nil
    <3>1. k + 1 \in 0..n /\ k + 1 \in 1..n
      BY <1>3, <1>4, <2>4
    <3>2. ~desc'[q[k + 1]].owner /\ desc'[q[k + 1]].eoq /\ desc'[q[k + 1]].td
      BY <1>4, <1>7, <2>4
    <3>3. \A i \in 1..n : (desc'[q[i]].owner <=> i > k + 1)
      BY <1>3, <2>a, <2>b, <3>2
    <3>4. \A i \in 1..n : desc'[q[i]].td => i <= k + 1
      BY <1>3, <2>a, <2>c
    <3>5. \A i \in 1..(k + 1) : desc'[q[i]].eoq => i = k + 1
      BY <1>3, <1>4, <2>4, <2>a, <2>c
    <3> QED
      BY <2>2, <3>1, <3>2, <3>3, <3>4, <3>5
  <2> QED
    BY <2>3, <2>4
<1> QED
  BY <1>11, <1>12, <1>13, <1>14, <1>15 DEF IInv, ChanInv

(***************************************************************************)
(* Steps of the CPU that change nothing but its place.                     *)
(***************************************************************************)

CpuTypeOK == /\ cpu \in [job : Jobs, pc : PCs, ch : Chan, desc : Desc \cup {Nil},
                         eoq : BOOLEAN, td : BOOLEAN, used : Nat]
             /\ cpu.used <= IF cpu.job = "poll" THEN Quota ELSE RxDescs

LEMMA CpuType == TypeOK => CpuTypeOK
BY DEF TypeOK, CpuTypeOK

(* The CPU as a call begins.                                               *)
Call(j, l, c) == [job |-> j, pc |-> l, ch |-> c, desc |-> Nil, eoq |-> FALSE,
                  td |-> FALSE, used |-> 0]

LEMMA CallFacts ==
  ASSUME NEW j \in Jobs, NEW l \in PCs, NEW c \in Chan, cpu' = Call(j, l, c)
  PROVE  CpuTypeOK' /\ cpu'.job = j /\ cpu'.pc = l /\ cpu'.ch = c /\ cpu'.used = 0
BY HalfFacts DEF Call, CpuTypeOK

LEMMA CpuFrame ==
  ASSUME IInv, UNCHANGED <<state, head, tail, bitmap, desc, hardware, history>>,
         cpu.pc \notin {"free", "rest_free", "wait", "chain"},
         cpu'.pc \notin {"free", "rest_free", "chain"},
         cpu.job = "open" => cpu'.job = "open"
  PROVE  /\ ChanInv' /\ QueueInv' /\ BitmapInv'
         /\ \A c \in Chan : Live(c)' = fifo[c] /\ Live(c) = fifo[c]
<1>1. \A c \in Chan : ~Held(c) /\ ~Held(c)' /\ Live(c)' = fifo[c] /\ Live(c) = fifo[c]
  BY DEF Held, Live
<1>2. QueueInv' /\ BitmapInv'
  BY DEF IInv, QueueInv, BitmapInv, InQueue
<1>3. ASSUME NEW c \in Chan PROVE ChanOK(c)'
  <2>1. ChanOK(c) /\ Len(Live(c)) \in Nat
    BY LiveFacts DEF IInv, ChanInv
  <2>2. Tame(c) => ~td[c]
    BY <2>1 DEF ChanOK, LiveInv, StopInv
  <2>3. UNCHANGED <<state, head, tail, desc, hdp, hw, hwcp, irq, td, astray>>
    BY DEF hardware
  <2> QED
    BY <1>1, <2>1, <2>2, <2>3, ChanFrame
<1> QED
  BY <1>1, <1>2, <1>3 DEF ChanInv

(* Returning from cpdma_chan_submit.                                       *)
LEMMA SubmitReturns ==
  ASSUME IInv, cpu.pc \in SubmitPcs \cup {"misqueued"}, cpu' = AfterSubmit,
         UNCHANGED <<ctlr, state>>
  PROVE  /\ CpuTypeOK' /\ PhaseInv' /\ CpuInv'
         /\ cpu'.pc \in {"fill", "loop", "idle"}
         /\ cpu.job = "open" => cpu'.job = "open" /\ cpu'.used = cpu.used
         /\ cpu'.job = "open" => cpu.job = "open"
         /\ \A c \in Chan : ~Held(c)'
<1>0. CpuTypeOK
  BY CpuType DEF IInv
<1>a. /\ cpu.job \in {"open", "xmit", "poll"}
      /\ cpu.job \in {"open", "poll"} => cpu.ch = "rx"
      /\ cpu.job = "open" => ctlr = "idle" /\ \A c \in Chan : state[c] = "idle"
      /\ cpu.job # "open" => ctlr = "active" /\ \A c \in Chan : state[c] = "active"
  BY DEF IInv, PhaseInv, SubmitPcs, ProcessPcs, StopPcs
<1>1. CASE cpu.job = "open"
  <2>1. cpu' = [cpu EXCEPT !.pc = "fill", !.desc = Nil]
    BY <1>1 DEF AfterSubmit
  <2>2. /\ cpu'.pc = "fill" /\ cpu'.job = "open" /\ cpu'.ch = "rx" /\ cpu'.used = cpu.used
        /\ CpuTypeOK'
    BY <1>0, <1>1, <1>a, <2>1 DEF CpuTypeOK, PCs
  <2> QED
    BY <1>1, <1>a, <2>2 DEF PhaseInv, CpuInv, Held
<1>2. CASE cpu.job = "poll"
  <2>1. cpu' = [cpu EXCEPT !.pc = "loop", !.desc = Nil]
    BY <1>2 DEF AfterSubmit
  <2>2. /\ cpu'.pc = "loop" /\ cpu'.job = "poll" /\ cpu'.ch = "rx" /\ cpu'.used = cpu.used
        /\ CpuTypeOK'
    BY <1>0, <1>2, <1>a, <2>1 DEF CpuTypeOK, PCs
  <2> QED
    BY <1>2, <1>a, <2>2 DEF PhaseInv, CpuInv, Held, SubmitPcs, ProcessPcs
<1>3. CASE cpu.job = "xmit"
  <2>1. cpu' = Idle
    BY <1>3 DEF AfterSubmit
  <2>2. /\ cpu'.pc = "idle" /\ cpu'.job = "none" /\ CpuTypeOK'
    BY <2>1, HalfFacts DEF Idle, CpuTypeOK, PCs, Jobs, Chan
  <2> QED
    BY <1>3, <1>a, <2>2 DEF PhaseInv, CpuInv, Held
<1> QED
  BY <1>a, <1>1, <1>2, <1>3

(* What is left to show of a step that changes only cpu and ctlr.          *)
LEMMA CpuStep ==
  ASSUME IInv, UNCHANGED <<state, head, tail, bitmap, desc, hardware, history>>,
         ctlr' \in {"idle", "active", "teardown"},
         cpu.pc \notin {"free", "rest_free", "wait", "chain"},
         cpu'.pc \notin {"free", "rest_free", "chain"},
         cpu.job = "open" => cpu'.job = "open",
         CpuTypeOK', PhaseInv', CpuInv', CountInv'
  PROVE  IInv'
<1>1. TypeOK'
  BY DEF IInv, TypeOK, CpuTypeOK, hardware
<1> QED
  BY <1>1, CpuFrame DEF IInv

LEMMA CheckStep ==
  ASSUME IInv, check_eoq
  PROVE  IInv'
<1>1. /\ cpu.pc = "check" /\ cpu.pc \in SubmitPcs
      /\ UNCHANGED <<ctlr, state, head, tail, bitmap, desc, hardware, history>>
  BY DEF check_eoq, At, driver, SubmitPcs
<1>2. CASE cpu' = AfterSubmit
  <2>1. CountInv'
    BY <1>1, <1>2, SubmitReturns DEF IInv, CountInv
  <2>2. ctlr' \in {"idle", "active", "teardown"}
    BY <1>1 DEF IInv, TypeOK
  <2> QED
    BY <1>1, <1>2, <2>1, <2>2, SubmitReturns, CpuStep
<1>3. CASE /\ cpu' = [cpu EXCEPT !.pc = "misqueued"]
           /\ desc[cpu.desc].eoq /\ ~desc[cpu.desc].owner /\ state[cpu.ch] = "active"
  <2>1. /\ CpuTypeOK' /\ cpu'.pc = "misqueued" /\ cpu'.job = cpu.job /\ cpu'.ch = cpu.ch
        /\ cpu'.desc = cpu.desc /\ cpu'.used = cpu.used /\ cpu.ch \in Chan
    BY <1>3, CpuType DEF IInv, CpuTypeOK, PCs
  <2>2. PhaseInv' /\ cpu.job # "open"
    BY <1>1, <1>3, <2>1 DEF IInv, PhaseInv, SubmitPcs, ProcessPcs, StopPcs
  <2>3. CountInv'
    BY <1>1, <2>1, <2>2 DEF IInv, CountInv
  <2>4. Live(cpu.ch)' = Live(cpu.ch) /\ Live(cpu.ch) = fifo[cpu.ch]
    BY <1>1, <2>1, <2>2, <2>3, CpuFrame
  <2>5. Len(fifo[cpu.ch]) > 1 /\ cpu.desc = fifo[cpu.ch][Len(fifo[cpu.ch]) - 1]
    BY <1>1, <2>4 DEF IInv, CpuInv
  <2>6. CpuInv'
    BY <1>1, <1>3, <2>1, <2>4, <2>5 DEF CpuInv, Held
  <2>7. ctlr' \in {"idle", "active", "teardown"}
    BY <1>1 DEF IInv, TypeOK
  <2> QED
    BY <1>1, <2>1, <2>2, <2>3, <2>6, <2>7, CpuStep
<1> QED
  BY <1>2, <1>3 DEF check_eoq

LEMMA ProcessHeadStep ==
  ASSUME IInv, process_head
  PROVE  IInv'
<1> DEFINE p == cpu.ch
           d == head[p]
<1>1. /\ cpu.pc = "process" /\ p \in Chan /\ CpuTypeOK
      /\ UNCHANGED <<ctlr, state, head, tail, bitmap, desc, hardware, history>>
      /\ ctlr' \in {"idle", "active", "teardown"}
  BY CpuType DEF process_head, At, driver, IInv, TypeOK
<1>a. cpu.job # "open" /\ cpu.job \in {"poll", "timeout", "close"}
  BY <1>1 DEF IInv, PhaseInv, SubmitPcs, ProcessPcs, StopPcs
<1>2. CASE ProcessFails
  <2>1. /\ CpuTypeOK' /\ cpu'.pc = (IF cpu.job = "poll" THEN "next" ELSE "rest")
        /\ cpu'.job = cpu.job /\ cpu'.ch = p /\ cpu'.used = cpu.used
    BY <1>1, <1>2 DEF ProcessFails, Goto, CpuTypeOK, PCs
  <2>2. PhaseInv'
    BY <1>1, <1>a, <2>1 DEF IInv, PhaseInv, SubmitPcs, ProcessPcs, StopPcs, StopState
  <2>3. CountInv' /\ CpuInv'
    BY <1>1, <1>a, <2>1 DEF IInv, CountInv, CpuInv, Held
  <2> QED
    BY <1>1, <1>a, <2>1, <2>2, <2>3, CpuStep
<1>3. CASE /\ d # Nil /\ ~desc[d].owner
           /\ cpu' = [cpu EXCEPT !.pc = "dequeue", !.desc = d,
                                 !.eoq = desc[d].eoq, !.td = desc[d].td]
  <2>0. d \in Desc /\ desc[d].eoq \in BOOLEAN /\ desc[d].td \in BOOLEAN
    BY <1>1, <1>3 DEF IInv, TypeOK
  <2>1. /\ CpuTypeOK' /\ cpu'.pc = "dequeue" /\ cpu'.job = cpu.job /\ cpu'.ch = p
        /\ cpu'.used = cpu.used /\ cpu'.desc = d
        /\ cpu'.eoq = desc[d].eoq /\ cpu'.td = desc[d].td
    BY <1>1, <1>3, <2>0 DEF CpuTypeOK, PCs
  <2>2. PhaseInv'
    BY <1>1, <1>a, <2>1 DEF IInv, PhaseInv, SubmitPcs, ProcessPcs, StopPcs, StopState
  <2>3. CountInv'
    BY <1>1, <1>a, <2>1 DEF IInv, CountInv
  <2>4. Live(p)' = Live(p)
    BY <1>1, <1>a, <2>1, <2>3, CpuFrame
  <2>5. Len(Live(p)) > 0 /\ d = Live(p)[1]
    <3>1. d = (IF Len(Live(p)) = 0 THEN Nil ELSE Live(p)[1]) /\ Len(Live(p)) \in Nat
      BY <1>1, LiveFacts DEF IInv, ChanInv, ChanOK, ChainInv
    <3> QED
      BY <1>3, <3>1
  <2>6. CpuInv'
    BY <1>1, <1>3, <2>1, <2>4, <2>5 DEF CpuInv, Held
  <2> QED
    BY <1>1, <1>a, <2>1, <2>2, <2>3, <2>6, CpuStep
<1> QED
  BY <1>2, <1>3 DEF process_head

LEMMA HandlerStep ==
  ASSUME IInv, handler_drops \/ rx_handler_resubmits
  PROVE  IInv'
<1>1. /\ cpu.pc = "handler" /\ cpu.ch \in Chan /\ CpuTypeOK
      /\ UNCHANGED <<ctlr, state, head, tail, bitmap, desc, hardware, history>>
      /\ ctlr' \in {"idle", "active", "teardown"}
  BY CpuType DEF handler_drops, rx_handler_resubmits, At, driver, IInv, TypeOK
<1>2. cpu.job \in {"poll", "timeout", "close"} /\ (cpu.job = "poll" => cpu.used < Quota)
  BY <1>1 DEF IInv, PhaseInv, SubmitPcs, ProcessPcs, StopPcs
<1>3. /\ CpuTypeOK' /\ cpu'.job = cpu.job /\ cpu'.ch = cpu.ch
      /\ cpu.job # "poll" => cpu'.pc \in {"rest", "process"}
      /\ cpu.job = "poll" => cpu'.pc = "loop" \/ (cpu'.pc = "submit" /\ cpu.ch = "rx")
  <2>0. PICK u \in Nat : u = cpu.used + 1
    BY <1>1 DEF CpuTypeOK
  <2>a. cpu.job = "poll" => u <= Quota
    BY <1>1, <1>2, <2>0, HalfFacts DEF CpuTypeOK
  <2>1. CASE cpu.job = "poll" /\ handler_drops
    <3>1. cpu' = [cpu EXCEPT !.pc = "loop", !.used = u, !.desc = Nil, !.eoq = FALSE, !.td = FALSE]
      BY <2>0, <2>1 DEF handler_drops, AfterHandler
    <3> QED
      BY <1>1, <2>1, <2>a, <3>1 DEF CpuTypeOK, PCs
  <2>2. CASE rx_handler_resubmits
    <3>1. /\ cpu' = [cpu EXCEPT !.pc = "submit", !.used = u, !.desc = Nil,
                                !.eoq = FALSE, !.td = FALSE]
          /\ cpu.job = "poll" /\ cpu.ch = "rx"
      BY <1>1, <2>0, <2>2 DEF rx_handler_resubmits, AfterHandler, CpuTypeOK
    <3> QED
      BY <1>1, <2>a, <3>1 DEF CpuTypeOK, PCs
  <2>3. CASE cpu.job # "poll" /\ handler_drops
    <3>1. cpu' = [cpu EXCEPT !.pc = IF cpu.td THEN "rest" ELSE "process",
                             !.desc = Nil, !.eoq = FALSE, !.td = FALSE]
      BY <2>3 DEF handler_drops, AfterHandler
    <3> QED
      BY <1>1, <1>2, <2>3, <3>1, HalfFacts DEF CpuTypeOK, PCs
  <2> QED
    BY <2>1, <2>2, <2>3
<1>4. PhaseInv'
  BY <1>1, <1>2, <1>3 DEF IInv, PhaseInv, SubmitPcs, ProcessPcs, StopPcs, StopState
<1>5. CountInv' /\ CpuInv'
  BY <1>1, <1>2, <1>3 DEF IInv, CountInv, CpuInv, Held
<1> QED
  BY <1>1, <1>2, <1>3, <1>4, <1>5, CpuStep

(* The loop of cpdma_chan_process, and the next channel.                   *)
LEMMA LoopStep ==
  ASSUME IInv, process_loop \/ poll_next
  PROVE  IInv'
<1>1. /\ cpu.pc \in {"loop", "next"} /\ cpu.ch \in Chan /\ CpuTypeOK
      /\ UNCHANGED <<ctlr, state, head, tail, bitmap, desc, hardware, history>>
      /\ ctlr' \in {"idle", "active", "teardown"}
  BY CpuType DEF process_loop, poll_next, At, driver, IInv, TypeOK
<1>2. cpu.job = "poll" /\ ctlr = "active" /\ \A c \in Chan : state[c] = "active"
  BY <1>1 DEF IInv, PhaseInv, SubmitPcs, ProcessPcs, StopPcs
<1>3. /\ CpuTypeOK'
      /\ \/ cpu'.job = "poll" /\ cpu'.pc = "process" /\ cpu'.used < Quota
         \/ cpu'.job = "poll" /\ cpu'.pc \in {"loop", "next"}
         \/ cpu'.job = "none" /\ cpu'.pc = "idle"
  <2>1. CASE process_loop
    BY <1>1, <1>2, <2>1 DEF process_loop, Goto, CpuTypeOK, PCs
  <2>2. CASE poll_next
    <3>1. cpu' = Call("poll", "loop", "rx") \/ cpu' = Call("none", "idle", "tx")
      BY <2>2 DEF poll_next, Idle, Call
    <3> QED
      BY <3>1, CallFacts DEF PCs, Jobs, Chan
  <2> QED
    BY <2>1, <2>2
<1>4. PhaseInv'
  BY <1>1, <1>2, <1>3 DEF PhaseInv, SubmitPcs, ProcessPcs
<1>5. CountInv' /\ CpuInv'
  BY <1>1, <1>2, <1>3 DEF IInv, CountInv, CpuInv, Held
<1> QED
  BY <1>1, <1>2, <1>3, <1>4, <1>5, CpuStep

LEMMA PollStep ==
  ASSUME IInv, cpsw_poll \/ cpsw_ndo_start_xmit
  PROVE  IInv'
<1>1. /\ cpu.pc = "idle" /\ ctlr = "active"
      /\ UNCHANGED <<ctlr, state, head, tail, bitmap, desc, hardware, history>>
      /\ ctlr' \in {"idle", "active", "teardown"}
  BY DEF cpsw_poll, cpsw_ndo_start_xmit, At, driver
<1>2. cpu.job = "none" /\ \A c \in Chan : state[c] = "active"
  BY <1>1 DEF IInv, PhaseInv, SubmitPcs, ProcessPcs, StopPcs
<1>3. cpu' = Call("poll", "loop", "tx") \/ cpu' = Call("xmit", "submit", "tx")
  BY DEF cpsw_poll, cpsw_ndo_start_xmit, Idle, Call
<1>4. /\ CpuTypeOK' /\ cpu'.ch = "tx"
      /\ \/ cpu'.job = "poll" /\ cpu'.pc = "loop"
         \/ cpu'.job = "xmit" /\ cpu'.pc = "submit"
  BY <1>3, CallFacts DEF PCs, Jobs, Chan
<1>5. PhaseInv'
  BY <1>1, <1>2, <1>4 DEF PhaseInv, SubmitPcs, ProcessPcs
<1>6. CountInv' /\ CpuInv'
  BY <1>1, <1>2, <1>4 DEF IInv, CountInv, CpuInv, Held
<1> QED
  BY <1>1, <1>2, <1>4, <1>5, <1>6, CpuStep

LEMMA OpenStep ==
  ASSUME IInv, cpsw_ndo_open
  PROVE  IInv'
<1>1. /\ cpu.pc = "idle" /\ ctlr = "idle"
      /\ UNCHANGED <<ctlr, state, head, tail, bitmap, desc, hardware, history>>
      /\ ctlr' \in {"idle", "active", "teardown"}
  BY DEF cpsw_ndo_open, At, driver
<1>2. cpu.job = "none" /\ \A c \in Chan : state[c] = "idle"
  BY <1>1 DEF IInv, PhaseInv, SubmitPcs, ProcessPcs, StopPcs
<1>3. cpu' = Call("open", "fill", "rx")
  BY DEF cpsw_ndo_open, Idle, Call
<1>4. CpuTypeOK' /\ cpu'.ch = "rx" /\ cpu'.job = "open" /\ cpu'.pc = "fill" /\ cpu'.used = 0
  BY <1>3, CallFacts DEF PCs, Jobs, Chan
<1>5. PhaseInv'
  BY <1>1, <1>2, <1>4 DEF PhaseInv, SubmitPcs
<1>6. Len(fifo["rx"]) = 0
  <2>1. "rx" \in Chan /\ Live("rx") = fifo["rx"]
    BY <1>1 DEF Chan, Live, Held
  <2>2. ChanOK("rx")
    BY <2>1 DEF IInv, ChanInv
  <2> QED
    BY <1>2, <2>1, <2>2 DEF ChanOK, RestInv
<1>7. CountInv' /\ CpuInv'
  BY <1>1, <1>4, <1>6, HalfFacts DEF CountInv, CpuInv, Held
<1> QED
  BY <1>1, <1>2, <1>4, <1>5, <1>7, CpuStep

LEMMA FillStep ==
  ASSUME IInv, open_fill
  PROVE  IInv'
<1>1. /\ cpu.pc = "fill" /\ cpu.ch \in Chan /\ CpuTypeOK
      /\ UNCHANGED <<ctlr, state, head, tail, bitmap, desc, hardware, history>>
      /\ ctlr' \in {"idle", "active", "teardown"}
  BY CpuType DEF open_fill, At, driver, IInv, TypeOK
<1>2. /\ cpu.job = "open" /\ cpu.ch = "rx" /\ ctlr = "idle" /\ \A c \in Chan : state[c] = "idle"
      /\ Len(fifo["rx"]) <= cpu.used /\ Len(fifo["rx"]) \in Nat
  BY <1>1, LiveFacts DEF IInv, PhaseInv, SubmitPcs, ProcessPcs, StopPcs, CountInv
<1>3. /\ CpuTypeOK' /\ cpu'.job = "open" /\ cpu'.ch = "rx"
      /\ \/ cpu'.pc = "submit" /\ Len(fifo["rx"]) < cpu'.used
         \/ cpu'.pc = "start" /\ Len(fifo["rx"]) <= cpu'.used
  <2>1. CASE Goto("start")
    BY <1>1, <1>2, <2>1 DEF Goto, CpuTypeOK, PCs
  <2>2. CASE cpu.used < RxDescs /\ cpu' = [cpu EXCEPT !.pc = "submit", !.used = @ + 1]
    <3>1. PICK u \in Nat : u = cpu.used + 1
      BY <1>1 DEF CpuTypeOK
    <3>2. u <= RxDescs /\ Len(fifo["rx"]) < u
      BY <1>1, <1>2, <2>2, <3>1, HalfFacts DEF CpuTypeOK
    <3>3. cpu' = [cpu EXCEPT !.pc = "submit", !.used = u]
      BY <2>2, <3>1
    <3> QED
      BY <1>1, <1>2, <3>2, <3>3 DEF CpuTypeOK, PCs
  <2> QED
    BY <2>1, <2>2 DEF open_fill
<1>4. PhaseInv'
  BY <1>1, <1>2, <1>3 DEF PhaseInv, SubmitPcs
<1>5. CountInv' /\ CpuInv'
  <2>1. Len(fifo["rx"]) <= RxDescs
    BY DEF IInv, CountInv
  <2>2. CountInv'
    BY <1>1, <1>2, <1>3, <2>1, HalfFacts DEF CountInv, CpuTypeOK
  <2> QED
    BY <1>3, <2>2 DEF CpuInv, Held
<1> QED
  BY <1>1, <1>2, <1>3, <1>4, <1>5, CpuStep

(* The interface goes down, and the transmit watchdog.                     *)
LEMMA BeginStopStep ==
  ASSUME IInv, cpsw_ndo_stop \/ cpsw_ndo_tx_timeout
  PROVE  IInv'
<1>1. /\ cpu.pc = "idle" /\ ctlr = "active"
      /\ UNCHANGED <<state, head, tail, bitmap, desc, hardware, history>>
  BY DEF cpsw_ndo_stop, cpsw_ndo_tx_timeout, At, driver
<1>2. cpu.job = "none" /\ \A c \in Chan : state[c] = "active"
  BY <1>1 DEF IInv, PhaseInv, SubmitPcs, ProcessPcs, StopPcs
<1>3. \/ cpu' = Call("close", "stop", "tx") /\ ctlr' = "teardown"
      \/ cpu' = Call("timeout", "stop", "tx") /\ ctlr' = "active"
  BY <1>1 DEF cpsw_ndo_stop, cpsw_ndo_tx_timeout, Idle, Call, driver
<1>4. /\ CpuTypeOK' /\ cpu'.ch = "tx" /\ cpu'.pc = "stop"
      /\ \/ cpu'.job = "close" /\ ctlr' = "teardown"
         \/ cpu'.job = "timeout" /\ ctlr' = "active"
  BY <1>3, CallFacts DEF PCs, Jobs, Chan
<1>5. PhaseInv'
  BY <1>1, <1>2, <1>4 DEF PhaseInv, ProcessPcs, StopPcs, StopState, Chan
<1>6. CountInv' /\ CpuInv'
  BY <1>1, <1>2, <1>4 DEF IInv, CountInv, CpuInv, Held
<1>7. ctlr' \in {"idle", "active", "teardown"}
  BY <1>4
<1> QED
  BY <1>1, <1>2, <1>4, <1>5, <1>6, <1>7, CpuStep

LEMMA StopNextStep ==
  ASSUME IInv, ctlr_stop_next
  PROVE  IInv'
<1>1. /\ cpu.pc = "stopped" /\ cpu.job = "close" /\ cpu.ch \in Chan /\ CpuTypeOK
      /\ UNCHANGED <<state, head, tail, bitmap, desc, hardware, history>>
  BY CpuType DEF ctlr_stop_next, At, IInv, TypeOK
<1>2. /\ ctlr = "teardown" /\ state[cpu.ch] = "idle"
      /\ cpu.ch = "tx" => state["rx"] = "active"
      /\ cpu.ch = "rx" => state["tx"] = "idle"
  BY <1>1 DEF IInv, PhaseInv, StopState
<1>3. CASE cpu.ch = "tx"
  <2>1. cpu' = [cpu EXCEPT !.pc = "stop", !.ch = "rx", !.desc = Nil] /\ ctlr' = "teardown"
    BY <1>2, <1>3 DEF ctlr_stop_next
  <2>2. CpuTypeOK' /\ cpu'.pc = "stop" /\ cpu'.job = "close" /\ cpu'.ch = "rx"
    BY <1>1, <2>1 DEF CpuTypeOK, PCs, Chan
  <2>3. PhaseInv'
    BY <1>1, <1>2, <1>3, <2>1, <2>2 DEF PhaseInv, ProcessPcs, StopPcs, StopState
  <2>4. CountInv' /\ CpuInv'
    BY <1>1, <2>2 DEF IInv, CountInv, CpuInv, Held
  <2>5. ctlr' \in {"idle", "active", "teardown"}
    BY <2>1
  <2> QED
    BY <1>1, <2>2, <2>3, <2>4, <2>5, CpuStep
<1>4. CASE cpu.ch = "rx"
  <2>1. cpu' = Call("none", "idle", "tx") /\ ctlr' = "idle"
    BY <1>4 DEF ctlr_stop_next, Idle, Call
  <2>2. CpuTypeOK' /\ cpu'.pc = "idle" /\ cpu'.job = "none"
    BY <2>1, CallFacts DEF PCs, Jobs, Chan
  <2>3. PhaseInv'
    BY <1>1, <1>2, <1>4, <2>1, <2>2 DEF PhaseInv, Chan
  <2>4. CountInv' /\ CpuInv'
    BY <1>1, <2>2 DEF IInv, CountInv, CpuInv, Held
  <2>5. ctlr' \in {"idle", "active", "teardown"}
    BY <2>1
  <2> QED
    BY <1>1, <2>2, <2>3, <2>4, <2>5, CpuStep
<1> QED
  BY <1>1, <1>3, <1>4 DEF Chan

(***************************************************************************)
(* Submission.                                                             *)
(***************************************************************************)

LEMMA SmallestExists ==
  ASSUME NEW T \in SUBSET Nat, T # {}
  PROVE  \E x \in T : \A y \in T : x <= y
<1> DEFINE R == OpToRel(<, Nat)
<1>1. \E x \in T : \A y \in T : ~(<<y, x>> \in R)
  BY NatLessThanWellFounded, WFMin
<1>2. \A x, y \in Nat : (<<y, x>> \in R) <=> y < x
  BY DEF OpToRel
<1> HIDE DEF R
<1>3. \A x, y \in Nat : ~(y < x) => x <= y
  OBVIOUS
<1> QED
  BY <1>1, <1>2, <1>3, Zenon

(* The bitmap search finds a zero if there is one.                         *)
LEMMA FindZeroFacts ==
  ASSUME NEW size \in Nat, NEW start \in Nat
  PROVE  LET zeros == (start..(size - 1)) \ bitmap
         IN  IF zeros = {} THEN FindZero(size, start) = size + 1
                           ELSE FindZero(size, start) \in zeros
<1> DEFINE zeros == (start..(size - 1)) \ bitmap
<1>1. CASE zeros = {}
  BY <1>1 DEF FindZero
<1>2. CASE zeros # {}
  <2>1. \E x \in zeros : \A y \in zeros : x <= y
    <3>1. zeros \in SUBSET Nat
      OBVIOUS
    <3> HIDE DEF zeros
    <3> QED
      BY <1>2, <3>1, SmallestExists
  <2>2. FindZero(size, start) = CHOOSE i \in zeros : \A j \in zeros : i <= j
    BY <1>2 DEF FindZero
  <2> HIDE DEF zeros
  <2>3. (CHOOSE i \in zeros : \A j \in zeros : i <= j) \in zeros
    BY <2>1
  <2> QED
    BY <1>2, <2>2, <2>3 DEF zeros
<1> QED
  BY <1>1, <1>2

(* A sequence that holds 1..m has m entries.                               *)
LEMMA CoverLength ==
  ASSUME NEW s \in Seq(Desc), NEW m \in Nat, \A d \in 1..m : \E i \in 1..Len(s) : s[i] = d
  PROVE  m <= Len(s)
<1> DEFINE T == {s[i] : i \in 1..Len(s)}
<1>1. Len(s) \in Nat /\ s \in [1..Len(s) -> Desc]
  BY LenProperties
<1>2. s \in Surjection(1..Len(s), T)
  BY <1>1 DEF Surjection
<1>3. IsFiniteSet(1..Len(s)) /\ Cardinality(1..Len(s)) = Len(s)
  <2>1. \A x \in Nat : IsFiniteSet(1..x) /\ Cardinality(1..x) = x
    BY FS_Interval
  <2> QED
    BY <1>1, <2>1
<1>4. IsFiniteSet(T) /\ Cardinality(T) <= Len(s)
  BY <1>2, <1>3, FS_Surjection
<1>5. 1..m \in SUBSET T
  OBVIOUS
<1>6. Cardinality(1..m) = m
  BY FS_Interval
<1>7. Cardinality(1..m) <= Cardinality(T) /\ Cardinality(T) \in Nat
  BY <1>4, <1>5, FS_Subset, FS_CardinalityType
<1> QED
  BY <1>1, <1>4, <1>6, <1>7

(* cpdma_desc_alloc takes a free descriptor of the channel's own half.     *)
LEMMA AllocFacts ==
  ASSUME IInv, cpu.pc = "submit", AllocIndex(cpu.ch) < NumDesc
  PROVE  /\ AllocIndex(cpu.ch) \in 0..(NumDesc - 1) /\ AllocIndex(cpu.ch) \notin bitmap
         /\ AllocIndex(cpu.ch) + 1 \in Half(cpu.ch)
<1>1. cpu.ch \in Chan
  BY DEF IInv, TypeOK
<1>2. CASE cpu.ch = "tx"
  <2>1. AllocIndex(cpu.ch) = FindZero(NumDesc, NumDesc \div 2)
    BY <1>2 DEF AllocIndex
  <2>2. AllocIndex(cpu.ch) \in ((NumDesc \div 2)..(NumDesc - 1)) \ bitmap
    BY <2>1, FindZeroFacts, HalfFacts
  <2> QED
    BY <1>2, <2>2, HalfFacts DEF Half, TxHalf
<1>3. CASE cpu.ch = "rx"
  <2> DEFINE H == NumDesc \div 2
  <2>1. AllocIndex(cpu.ch) = FindZero(H, 0)
    BY <1>3 DEF AllocIndex
  <2>2. Len(fifo["rx"]) < RxDescs
    <3>1. cpu.job = "open" \/ cpu.job = "poll"
      BY <1>3 DEF IInv, PhaseInv, ProcessPcs, StopPcs
    <3>2. cpu.used \in Nat /\ (cpu.job = "open" => cpu.used <= RxDescs)
      BY DEF IInv, TypeOK
    <3>3. Len(fifo["rx"]) \in Nat
      BY LiveFacts DEF Chan
    <3> QED
      BY <1>3, <3>1, <3>2, <3>3, HalfFacts DEF IInv, CountInv
  <2>3. (0..(H - 1)) \ bitmap # {}
    <3> SUFFICES ASSUME \A i \in 0..(H - 1) : i \in bitmap PROVE FALSE
      OBVIOUS
    <3>1. ASSUME NEW d \in 1..H PROVE \E i \in 1..Len(fifo["rx"]) : fifo["rx"][i] = d
      <4>1. d \in Desc /\ d - 1 \in 0..(H - 1) /\ d \notin TxHalf
        BY <3>1, HalfFacts DEF Desc, TxHalf
      <4>2. InQueue("tx", d) \/ InQueue("rx", d)
        BY <4>1 DEF IInv, BitmapInv
      <4>3. ~InQueue("tx", d)
        BY <4>1 DEF IInv, QueueInv, InQueue, Half, Chan
      <4> QED
        BY <4>2, <4>3 DEF InQueue
    <3>2. fifo["rx"] \in Seq(Desc) /\ Len(fifo["rx"]) \in Nat
      BY LiveFacts DEF Chan
    <3>3. H <= Len(fifo["rx"])
      BY <3>1, <3>2, CoverLength, HalfFacts
    <3> QED
      BY <2>2, <3>2, <3>3, HalfFacts
  <2>4. AllocIndex(cpu.ch) \in (0..(H - 1)) \ bitmap
    BY <2>1, <2>3, FindZeroFacts, HalfFacts
  <2> QED
    BY <1>3, <2>4, HalfFacts DEF Half
<1> QED
  BY <1>1, <1>2, <1>3 DEF Chan

LEMMA AllocStep ==
  ASSUME IInv, cpdma_chan_submit
  PROVE  IInv'
<1> DEFINE i == AllocIndex(cpu.ch)
           d == i + 1
           p == cpu.ch
<1>1. /\ cpu.pc = "submit" /\ p \in Chan /\ CpuTypeOK
      /\ UNCHANGED <<ctlr, state, head, tail, hardware, history>>
      /\ ctlr' \in {"idle", "active", "teardown"}
  BY CpuType DEF cpdma_chan_submit, At, IInv, TypeOK
<1>2. CASE ~(i < NumDesc)
  <2>1. cpu' = AfterSubmit /\ UNCHANGED <<bitmap, desc>>
    BY <1>2 DEF cpdma_chan_submit
  <2>2. CountInv'
    <3>1. Len(fifo["rx"]) \in Nat /\ cpu.used \in Nat
      BY LiveFacts DEF Chan, IInv, TypeOK
    <3> QED
      BY <1>1, <2>1, <3>1, SubmitReturns DEF IInv, CountInv, SubmitPcs
  <2> QED
    BY <1>1, <2>1, <2>2, SubmitReturns, CpuStep DEF SubmitPcs
<1>3. CASE i < NumDesc
  <2>1. i \in 0..(NumDesc - 1) /\ i \notin bitmap /\ d \in Half(p)
    BY <1>1, <1>3, AllocFacts
  <2>2. d \in Desc /\ d \in Nat \ {0} /\ d - 1 = i
    BY <1>1, <2>1, HalfDesc
  <2>3. /\ bitmap' = bitmap \cup {i}
        /\ desc' = [desc EXCEPT ![d] = Fresh]
        /\ cpu' = [cpu EXCEPT !.pc = "chain", !.desc = d]
    BY <1>3 DEF cpdma_chan_submit, Fresh
  <2> HIDE DEF i, d
  <2>4. /\ CpuTypeOK' /\ cpu'.pc = "chain" /\ cpu'.job = cpu.job /\ cpu'.ch = p
        /\ cpu'.desc = d /\ cpu'.used = cpu.used
    BY <1>1, <2>2, <2>3 DEF CpuTypeOK, PCs
  <2>5. desc'[d] = Fresh /\ \A e \in Desc : e # d => desc'[e] = desc[e]
    BY <2>2, <2>3 DEF IInv, TypeOK
  <2>6. TypeOK'
    <3>1. desc' \in [Desc -> [next : Desc \cup {Nil}, owner : BOOLEAN, eoq : BOOLEAN, td : BOOLEAN]]
      BY <2>2, <2>3 DEF IInv, TypeOK, Fresh
    <3>2. bitmap' \subseteq 0..(NumDesc - 1)
      BY <2>1, <2>3 DEF IInv, TypeOK
    <3> QED
      BY <1>1, <2>4, <3>1, <3>2 DEF IInv, TypeOK, CpuTypeOK, hardware
  <2>7. PhaseInv'
    BY <1>1, <2>4 DEF IInv, PhaseInv, SubmitPcs, ProcessPcs, StopPcs
  <2>8. CountInv'
    BY <1>1, <2>4 DEF IInv, CountInv
  <2>9. QueueInv' /\ \A c \in Chan, e \in Desc : InQueue(c, e)' <=> InQueue(c, e)
    BY <1>1 DEF IInv, QueueInv, InQueue
  <2>10. \A c \in Chan : ~InQueue(c, d)
    BY <1>1, <2>1, <2>2 DEF IInv, BitmapInv, Chan
  <2>11. BitmapInv'
    <3>1. \A e \in Desc : (e - 1 \in bitmap) <=> (InQueue("tx", e) \/ InQueue("rx", e))
      BY <1>1 DEF IInv, BitmapInv
    <3>2. \A e \in Desc : (e - 1 \in bitmap') <=> (e - 1 \in bitmap \/ e = d)
      BY <2>2, <2>3 DEF Desc
    <3> QED
      BY <2>4, <2>9, <3>1, <3>2 DEF BitmapInv, Chan
  <2>12. CpuInv'
    BY <1>1, <2>1, <2>2, <2>4, <2>5, <2>9, <2>10 DEF CpuInv, Held, Fresh
  <2>13. ASSUME NEW c \in Chan PROVE ChanOK(c)'
    <3>1. ~Held(c) /\ ~Held(c)' /\ Live(c) = fifo[c] /\ Live(c)' = fifo[c]
      BY <1>1, <2>4 DEF Held, Live
    <3>2. ChanOK(c) /\ Len(Live(c)) \in Nat
      BY LiveFacts DEF IInv, ChanInv
    <3>3. Tame(c) => ~td[c]
      BY <1>1, <3>2 DEF ChanOK, LiveInv, StopInv
    <3>4. \A j \in 1..Len(Live(c)) : desc'[Live(c)[j]] = desc[Live(c)[j]]
      BY <2>5, <2>10, <3>1, LiveFacts DEF InQueue
    <3>5. UNCHANGED <<state, head, tail, hdp, hw, hwcp, irq, td, astray>>
      BY <1>1 DEF hardware
    <3> QED
      BY <2>4, <3>1, <3>2, <3>3, <3>4, <3>5, ChanFrame
  <2> QED
    BY <2>6, <2>7, <2>8, <2>9, <2>11, <2>12, <2>13 DEF IInv, ChanInv
<1> QED
  BY <1>2, <1>3

(* The new descriptor joins the queue.                                     *)
LEMMA AppendQueue ==
  ASSUME IInv, cpu.pc = "chain", UNCHANGED bitmap,
         NEW p \in Chan, p = cpu.ch, NEW d \in Desc, d = cpu.desc,
         fifo' = [fifo EXCEPT ![p] = Append(@, d)],
         cpu'.pc \notin {"free", "rest_free", "submit", "chain", "handler"},
         cpu.job = "open" => cpu'.used = cpu.used,
         cpu'.job = "open" => cpu.job = "open"
  PROVE  /\ QueueInv' /\ BitmapInv' /\ CountInv' /\ fifo' \in [Chan -> Seq(Desc)]
         /\ \A e \in Chan : Live(e) = fifo[e] /\ (e # p => Live(e)' = fifo[e])
         /\ Live(p)' \in Seq(Desc) /\ Len(Live(p)') = Len(fifo[p]) + 1
         /\ \A i \in 1..Len(fifo[p]) : Live(p)'[i] = fifo[p][i]
         /\ Live(p)'[Len(fifo[p]) + 1] = d
<1> DEFINE s == fifo[p]
           n == Len(s)
           r == fifo'[p]
<1>1. /\ d \in Half(p) /\ ~InQueue(p, d)
      /\ fifo \in [Chan -> Seq(Desc)] /\ s \in Seq(Desc) /\ n \in Nat
  BY LiveFacts DEF IInv, TypeOK, CpuInv
<1>2. r = Append(s, d) /\ \A e \in Chan : e # p => fifo'[e] = fifo[e]
  BY <1>1
<1>3. /\ r \in Seq(Desc) /\ Len(r) = n + 1 /\ r[n + 1] = d
      /\ \A i \in 1..n : r[i] = s[i]
  BY <1>1, <1>2, AppendFacts
<1>4. fifo' \in [Chan -> Seq(Desc)]
  BY <1>1, <1>2, <1>3
<1>5. /\ \A e \in Chan : Live(e) = fifo[e] /\ Live(e)' = fifo'[e]
  BY DEF Live, Held
<1> HIDE DEF r
<1>6. QueueInv'
  <2> SUFFICES ASSUME NEW c \in Chan, NEW i \in 1..Len(fifo'[c])
               PROVE  /\ fifo'[c][i] \in Half(c)
                      /\ \A j \in 1..Len(fifo'[c]) : fifo'[c][i] = fifo'[c][j] => i = j
    BY DEF QueueInv
  <2>1. CASE c # p
    BY <1>2, <2>1 DEF IInv, QueueInv
  <2>2. CASE c = p
    <3>1. \A k \in 1..n : s[k] \in Half(p) /\ s[k] # d /\ \A j \in 1..n : s[k] = s[j] => k = j
      BY <1>1 DEF IInv, QueueInv, InQueue
    <3>2. fifo'[c] = r
      BY <2>2 DEF r
    <3>3. i \in 1..(n + 1) /\ (i \in 1..n \/ i = n + 1)
      BY <1>1, <1>3, <3>2
    <3>4. \A j \in 1..(n + 1) : j \in 1..n \/ j = n + 1
      BY <1>1
    <3> QED
      BY <1>1, <1>3, <2>2, <3>1, <3>2, <3>3, <3>4
  <2> QED
    BY <2>1, <2>2
<1>7. \A e \in Desc : /\ InQueue(p, e)' <=> InQueue(p, e) \/ e = d
                      /\ \A c \in Chan : c # p => (InQueue(c, e)' <=> InQueue(c, e))
  <2> SUFFICES ASSUME NEW e \in Desc
               PROVE  /\ InQueue(p, e)' <=> InQueue(p, e) \/ e = d
                      /\ \A c \in Chan : c # p => (InQueue(c, e)' <=> InQueue(c, e))
    OBVIOUS
  <2>1. (\E i \in 1..Len(r) : r[i] = e) <=> (\E i \in 1..n : s[i] = e) \/ e = d
    <3>1. \A i \in 1..(n + 1) : i \in 1..n \/ i = n + 1
      BY <1>1
    <3>2. n + 1 \in 1..(n + 1) /\ \A i \in 1..n : i \in 1..(n + 1)
      BY <1>1
    <3> QED
      BY <1>3, <3>1, <3>2
  <2>2. InQueue(p, e)' <=> \E i \in 1..Len(r) : r[i] = e
    BY DEF InQueue, r
  <2>3. InQueue(p, e) <=> \E i \in 1..n : s[i] = e
    BY DEF InQueue
  <2> QED
    BY <1>2, <2>1, <2>2, <2>3 DEF InQueue
<1>8. BitmapInv'
  BY <1>1, <1>7 DEF IInv, BitmapInv, Chan
<1>9. CountInv'
  <2>1. Len(fifo["rx"]) \in Nat /\ cpu.used \in Nat /\ (cpu.job # "poll" => cpu.used <= RxDescs)
    BY LiveFacts DEF Chan, IInv, TypeOK
  <2>2. CASE p = "tx"
    <3>1. fifo'["rx"] = fifo["rx"]
      BY <1>2, <2>2 DEF Chan
    <3> QED
      BY <2>1, <3>1 DEF IInv, CountInv
  <2>3. CASE p = "rx"
    <3>1. Len(fifo'["rx"]) = Len(fifo["rx"]) + 1
      BY <1>3, <2>3 DEF r
    <3>2. Len(fifo["rx"]) < RxDescs /\ (cpu.job = "open" => Len(fifo["rx"]) < cpu.used)
      <4>1. cpu.job = "open" \/ cpu.job = "poll"
        BY <2>3 DEF IInv, PhaseInv, ProcessPcs, StopPcs
      <4> QED
        BY <2>1, <2>3, <4>1, HalfFacts DEF IInv, CountInv
    <3> QED
      BY <2>1, <3>1, <3>2, HalfFacts DEF CountInv
  <2> QED
    BY <1>1, <2>2, <2>3 DEF Chan
<1>10. Live(p)' = r
  BY <1>5 DEF r
<1> QED
  BY <1>1, <1>2, <1>3, <1>4, <1>5, <1>6, <1>8, <1>9, <1>10

(* A step on one channel whose other channel is untouched; the CPU does    *)
(* not wait for a teardown before it.                                      *)
LEMMA OtherChannel ==
  ASSUME IInv, NEW p \in Chan, NEW e \in Chan, e # p, cpu.pc # "wait",
         Live(e)' = Live(e),
         \A d \in Desc : d \notin Half(p) => desc'[d] = desc[d],
         head'[e] = head[e], tail'[e] = tail[e], hdp'[e] = hdp[e], hw'[e] = hw[e],
         hwcp'[e] = hwcp[e], irq'[e] = irq[e], td'[e] = td[e], state'[e] = state[e],
         astray'[e] = astray[e],
         (state[e] = "idle" /\ cpu.job = "open") => cpu'.job = "open"
  PROVE  ChanOK(e)'
<1>1. ChanOK(e) /\ Len(Live(e)) \in Nat
  BY LiveFacts DEF IInv, ChanInv
<1>2. Tame(e) => ~td[e]
  BY <1>1 DEF ChanOK, LiveInv, StopInv
<1>3. \A i \in 1..Len(Live(e)) : desc'[Live(e)[i]] = desc[Live(e)[i]]
  BY LiveFacts, HalfDesc
<1> QED
  BY <1>1, <1>2, <1>3, ChanFrame

(* What is known of the channel a CPU step works on.                       *)
LEMMA ThisHead ==
  ASSUME IInv, NEW p \in Chan
  PROVE  Len(Live(p)) = 0 <=> head[p] = Nil
<1>1. Len(Live(p)) \in Nat
  BY LiveFacts
<1>2. Len(Live(p)) # 0 => head[p] = Live(p)[1] /\ head[p] # Nil
  <2> SUFFICES ASSUME Len(Live(p)) # 0 PROVE head[p] = Live(p)[1] /\ head[p] # Nil
    OBVIOUS
  <2>1. 1 \in 1..Len(Live(p))
    BY <1>1
  <2>2. Live(p)[1] # Nil
    BY <2>1, LiveFacts
  <2> QED
    BY <2>2 DEF IInv, ChanInv, ChanOK, ChainInv
<1>3. Len(Live(p)) = 0 => head[p] = Nil
  BY DEF IInv, ChanInv, ChanOK, ChainInv
<1> QED
  BY <1>2, <1>3

LEMMA ThisChannel ==
  ASSUME IInv, NEW p \in Chan, Tame(p)
  PROVE  \E k \in 0..Len(Live(p)) :
           /\ LiveInv(p, k) /\ k \in Nat /\ k <= Len(Live(p))
           /\ cpu.pc # "wait" => ~td[p]
<1>1. PICK k \in 0..Len(Live(p)) : LiveInv(p, k)
  BY DEF IInv, ChanInv, ChanOK
<1>2. cpu.pc # "wait" => ~td[p]
  BY <1>1 DEF LiveInv, StopInv
<1>3. Len(Live(p)) \in Nat
  BY LiveFacts
<1> QED
  BY <1>1, <1>2, <1>3

LEMMA SubmitHeadStep ==
  ASSUME IInv, submit_head
  PROVE  IInv'
<1>1. /\ cpu.pc = "chain" /\ head[cpu.ch] = Nil /\ cpu.ch \in Chan /\ CpuTypeOK /\ cpu' = AfterSubmit
      /\ cpu.desc \in Half(cpu.ch) /\ desc[cpu.desc].next = Nil
      /\ Tame(cpu.ch) \/ cpu.job = "open" => desc[cpu.desc] = Fresh
      /\ UNCHANGED <<ctlr, state, bitmap, desc, hw, hwcp, irq, td, astray>>
  BY CpuType DEF submit_head, At, IInv, TypeOK, CpuInv
<1>2. PICK p \in Chan : p = cpu.ch
  BY <1>1
<1>3. PICK d \in Desc : d = cpu.desc /\ d # Nil
  BY <1>1, HalfDesc DEF Nil
<1>4. /\ head' = [head EXCEPT ![p] = d] /\ tail' = [tail EXCEPT ![p] = d]
      /\ hdp' = IF state[p] = "active" THEN [hdp EXCEPT ![p] = d] ELSE hdp
      /\ fifo' = [fifo EXCEPT ![p] = Append(@, d)]
  BY <1>2, <1>3 DEF submit_head
<1>5. /\ CpuTypeOK' /\ PhaseInv' /\ CpuInv' /\ cpu'.pc \in {"fill", "loop", "idle"}
      /\ cpu.job = "open" => cpu'.job = "open" /\ cpu'.used = cpu.used
      /\ cpu'.job = "open" => cpu.job = "open"
  BY <1>1, SubmitReturns DEF SubmitPcs
<1>7. Len(Live(p)) = 0 /\ Live(p) = fifo[p]
  BY <1>1, <1>2, ThisHead DEF Live, Held
<1>9. /\ QueueInv' /\ BitmapInv' /\ CountInv' /\ fifo' \in [Chan -> Seq(Desc)]
      /\ \A e \in Chan : e # p => Live(e)' = Live(e)
      /\ Len(Live(p)') = 1 /\ Live(p)'[1] = d
  <2>1. /\ QueueInv' /\ BitmapInv' /\ CountInv' /\ fifo' \in [Chan -> Seq(Desc)]
        /\ \A e \in Chan : Live(e) = fifo[e] /\ (e # p => Live(e)' = fifo[e])
        /\ Len(Live(p)') = Len(fifo[p]) + 1 /\ Live(p)'[Len(fifo[p]) + 1] = d
    BY <1>1, <1>2, <1>3, <1>4, <1>5, AppendQueue
  <2>2. Len(fifo[p]) + 1 = 1
    BY <1>7
  <2> QED
    BY <2>1, <2>2
<1>10. TypeOK'
  <2>1. /\ head' \in [Chan -> Desc \cup {Nil}] /\ tail' \in [Chan -> Desc \cup {Nil}]
        /\ hdp' \in [Chan -> Desc \cup {Nil}]
    BY <1>4 DEF IInv, TypeOK
  <2> QED
    BY <1>1, <1>5, <1>9, <2>1 DEF IInv, TypeOK, CpuTypeOK
<1>11. /\ head'[p] = d /\ tail'[p] = d
       /\ hdp'[p] = (IF state[p] = "active" THEN d ELSE hdp[p])
       /\ \A e \in Chan : e # p => head'[e] = head[e] /\ tail'[e] = tail[e] /\ hdp'[e] = hdp[e]
  BY <1>4 DEF IInv, TypeOK
<1>12. ASSUME NEW e \in Chan, e # p PROVE ChanOK(e)'
  BY <1>1, <1>2, <1>5, <1>9, <1>11, <1>12, OtherChannel
<1>13. ChanOK(p)'
  <2>0. desc'[d].next = Nil /\ (Tame(p) \/ cpu.job = "open" => desc'[d] = Fresh)
    BY <1>1, <1>2, <1>3
  <2>1. ChainInv(p)'
    BY <1>9, <1>11, <2>0 DEF ChainInv
  <2>2. state[p] = "idle" => cpu.job = "open" /\ p = "rx"
    BY <1>1, <1>2 DEF IInv, PhaseInv, SubmitPcs, ProcessPcs, StopPcs
  <2>3. RestInv(p)'
    BY <1>1, <1>5, <1>9, <2>0, <2>2 DEF RestInv, Fresh
  <2>4. SUFFICES ASSUME Tame(p) PROVE LiveInv(p, 0)'
    BY <1>1, <1>9, <2>1, <2>3 DEF ChanOK, Tame
  <2>5. PICK k \in 0..Len(Live(p)) : LiveInv(p, k) /\ k \in Nat /\ k <= Len(Live(p)) /\ ~td[p]
    BY <1>1, <2>4, ThisChannel
  <2>6. k = 0 /\ hdp[p] = Nil /\ hw[p].busy = Nil /\ hw[p].next = Nil
    BY <1>7, <2>5 DEF LiveInv, EngineInv
  <2>7. OwnerInv(p, 0)' /\ EoqInv(p, 0)'
    BY <1>9, <2>0, <2>4 DEF OwnerInv, EoqInv, Fresh
  <2>8. EngineInv(p, 0)' /\ RunInv(p, 0)'
    BY <1>1, <1>3, <1>9, <1>11, <2>6 DEF EngineInv, RunInv
  <2>9. StopInv(p, 0)'
    BY <1>1, <2>5 DEF StopInv
  <2> QED
    BY <2>7, <2>8, <2>9 DEF LiveInv
<1> QED
  BY <1>5, <1>9, <1>10, <1>12, <1>13 DEF IInv, ChanInv

LEMMA SubmitTailStep ==
  ASSUME IInv, submit_tail
  PROVE  IInv'
<1>1. /\ cpu.pc = "chain" /\ head[cpu.ch] # Nil /\ cpu.ch \in Chan /\ CpuTypeOK
      /\ cpu.desc \in Half(cpu.ch) /\ desc[cpu.desc].next = Nil /\ ~InQueue(cpu.ch, cpu.desc)
      /\ Tame(cpu.ch) \/ cpu.job = "open" => desc[cpu.desc] = Fresh
      /\ UNCHANGED <<ctlr, state, head, bitmap, hdp, hw, hwcp, irq, td, astray>>
  BY CpuType DEF submit_tail, At, IInv, TypeOK, CpuInv, hardware
<1>2. PICK p \in Chan : p = cpu.ch
  BY <1>1
<1>3. PICK d \in Desc : d = cpu.desc /\ d # Nil
  BY <1>1, HalfDesc DEF Nil
<1> DEFINE q == fifo[p]
           n == Len(q)
           t == q[n]
<1>7. /\ Live(p) = q /\ n \in Nat /\ n > 0
      /\ \A i \in 1..n : /\ q[i] \in Desc /\ q[i] # Nil /\ q[i] \in Half(p) /\ q[i] # d
                         /\ \A j \in 1..n : q[i] = q[j] => i = j
  <2>1. Live(p) = q /\ Len(Live(p)) # 0
    BY <1>1, <1>2, ThisHead DEF Live, Held
  <2>2. \A i \in 1..n : q[i] # d
    BY <1>1, <1>2, <1>3 DEF InQueue
  <2> QED
    BY <2>1, <2>2, LiveFacts
<1>8. tail[p] = t /\ t \in Desc /\ t \in Half(p) /\ t # d /\ n \in 1..n
  BY <1>7 DEF IInv, ChanInv, ChanOK, ChainInv
<1>4. /\ desc' = [desc EXCEPT ![t].next = d] /\ tail' = [tail EXCEPT ![p] = d]
      /\ fifo' = [fifo EXCEPT ![p] = Append(@, d)]
      /\ cpu' = [cpu EXCEPT !.pc = "check", !.desc = t]
  BY <1>2, <1>3, <1>8 DEF submit_tail
<1>5. /\ CpuTypeOK' /\ cpu'.pc = "check" /\ cpu'.desc = t /\ cpu'.job = cpu.job
      /\ cpu'.ch = p /\ cpu'.used = cpu.used
  BY <1>1, <1>2, <1>4, <1>8 DEF CpuTypeOK, PCs
<1> HIDE DEF q, n, t
<1>9. /\ QueueInv' /\ BitmapInv' /\ CountInv' /\ fifo' \in [Chan -> Seq(Desc)]
      /\ \A e \in Chan : e # p => Live(e)' = Live(e)
      /\ Len(Live(p)') = n + 1 /\ Live(p)'[n + 1] = d
      /\ \A i \in 1..n : Live(p)'[i] = q[i]
  BY <1>1, <1>2, <1>3, <1>4, <1>5, AppendQueue DEF q, n
<1>10. /\ desc'[t].next = d /\ desc'[t].owner = desc[t].owner /\ desc'[t].eoq = desc[t].eoq
       /\ desc'[t].td = desc[t].td
       /\ \A e \in Desc : e # t => desc'[e] = desc[e]
       /\ desc' \in [Desc -> [next : Desc \cup {Nil}, owner : BOOLEAN, eoq : BOOLEAN, td : BOOLEAN]]
  <2>1. desc \in [Desc -> [next : Desc \cup {Nil}, owner : BOOLEAN, eoq : BOOLEAN, td : BOOLEAN]]
    BY DEF IInv, TypeOK
  <2> QED
    BY <1>4, <1>8, <2>1
<1>11. /\ tail'[p] = d /\ tail' \in [Chan -> Desc \cup {Nil}]
       /\ \A e \in Chan : e # p => tail'[e] = tail[e]
  BY <1>4 DEF IInv, TypeOK
<1>12. TypeOK'
  BY <1>1, <1>5, <1>9, <1>10, <1>11 DEF IInv, TypeOK, CpuTypeOK
<1>13. PhaseInv' /\ cpu.job \in {"open", "xmit", "poll"} /\ (state[p] = "idle" => cpu.job = "open" /\ p = "rx")
  BY <1>1, <1>2, <1>5 DEF IInv, PhaseInv, SubmitPcs, ProcessPcs, StopPcs
<1>15. CpuInv'
  <2>1. Len(Live(p)') > 1 /\ Live(p)'[Len(Live(p)') - 1] = t
    BY <1>7, <1>8, <1>9 DEF t
  <2>2. cpu.ch' = p /\ Live(cpu.ch)' = Live(p)'
    BY <1>5
  <2> QED
    BY <1>5, <2>1, <2>2 DEF CpuInv, Held
<1>16. ASSUME NEW e \in Chan, e # p PROVE ChanOK(e)'
  <2>1. \A x \in Desc : x \notin Half(p) => desc'[x] = desc[x]
    BY <1>8, <1>10
  <2> QED
    BY <1>1, <1>2, <1>5, <1>9, <1>11, <1>16, <2>1, OtherChannel
<1>17. ChanOK(p)'
  <2> DEFINE r == Live(p)'
  <2>0. /\ Len(r) = n + 1 /\ r[n + 1] = d /\ \A i \in 1..n : r[i] = q[i]
        /\ \A i \in 1..(n + 1) : i \in 1..n \/ i = n + 1
        /\ n \in Nat /\ n + 1 \in Nat
    BY <1>7, <1>9
  <2>a. /\ desc'[d].next = Nil /\ (Tame(p) \/ cpu.job = "open" => desc'[d] = Fresh)
        /\ \A i \in 1..n : /\ desc'[q[i]].owner = desc[q[i]].owner
                           /\ desc'[q[i]].eoq = desc[q[i]].eoq
                           /\ desc'[q[i]].td = desc[q[i]].td
                           /\ desc'[q[i]].next = IF i = n THEN d ELSE q[i + 1]
    <3>1. desc'[d].next = Nil /\ (Tame(p) \/ cpu.job = "open" => desc'[d] = Fresh)
      BY <1>1, <1>2, <1>3, <1>8, <1>10
    <3>2. \A i \in 1..n : desc[q[i]].next = IF i = n THEN Nil ELSE q[i + 1]
      BY <1>7 DEF IInv, ChanInv, ChanOK, ChainInv, n
    <3>3. \A i \in 1..n : i # n => q[i] # t
      BY <1>7, <1>8 DEF t
    <3> QED
      BY <1>7, <1>10, <3>1, <3>2, <3>3 DEF t
  <2>1. ChainInv(p)'
    <3>1. head'[p] = r[1]
      <4>1. head[p] = q[1] /\ 1 \in 1..n
        BY <1>7 DEF IInv, ChanInv, ChanOK, ChainInv, n
      <4> QED
        BY <1>1, <2>0, <4>1
    <3>2. \A i \in 1..(n + 1) : desc'[r[i]].next = IF i = n + 1 THEN Nil ELSE r[i + 1]
      <4> SUFFICES ASSUME NEW i \in 1..(n + 1)
                   PROVE  desc'[r[i]].next = IF i = n + 1 THEN Nil ELSE r[i + 1]
        OBVIOUS
      <4>1. CASE i = n + 1
        BY <2>0, <2>a, <4>1
      <4>2. CASE i = n
        BY <1>8, <2>0, <2>a, <4>2
      <4>3. CASE i \in 1..n /\ i # n
        <5>1. i + 1 \in 1..n /\ i # n + 1
          BY <2>0, <4>3
        <5> QED
          BY <2>0, <2>a, <4>3, <5>1
      <4> QED
        BY <2>0, <4>1, <4>2, <4>3
    <3> HIDE DEF r
    <3>3. Len(r) # 0 /\ tail'[p] = r[Len(r)]
      BY <1>11, <2>0
    <3> QED
      BY <2>0, <3>1, <3>2, <3>3 DEF ChainInv, r
  <2>c. RestInv(p)'
    <3> SUFFICES ASSUME state[p] = "idle"
                 PROVE  /\ cpu'.job = "open" /\ p = "rx"
                        /\ \A i \in 1..(n + 1) : /\ desc'[r[i]].owner
                                                 /\ ~desc'[r[i]].eoq /\ ~desc'[r[i]].td
      BY <1>1, <2>0 DEF RestInv
    <3>1. cpu.job = "open" /\ p = "rx" /\ cpu'.job = "open"
      BY <1>5, <1>13
    <3>2. \A i \in 1..n : desc[q[i]].owner /\ ~desc[q[i]].eoq /\ ~desc[q[i]].td
      BY <1>7 DEF IInv, ChanInv, ChanOK, RestInv, n
    <3>3. \A i \in 1..n : desc'[r[i]].owner /\ ~desc'[r[i]].eoq /\ ~desc'[r[i]].td
      BY <2>0, <2>a, <3>2
    <3>4. desc'[r[n + 1]].owner /\ ~desc'[r[n + 1]].eoq /\ ~desc'[r[n + 1]].td
      BY <2>0, <2>a, <3>1 DEF Fresh
    <3> QED
      BY <2>0, <3>1, <3>3, <3>4
  <2>d. SUFFICES ASSUME Tame(p) PROVE \E k \in 0..Len(r) : LiveInv(p, k)'
    BY <1>1, <2>1, <2>c DEF ChanOK, Tame
  <2>e. PICK k \in 0..Len(Live(p)) : LiveInv(p, k) /\ k \in Nat /\ k <= Len(Live(p)) /\ ~td[p]
    BY <1>1, <2>d, ThisChannel
  <2>f. k \in Nat /\ k <= n /\ desc'[d] = Fresh
    BY <1>7, <2>a, <2>d, <2>e DEF n
  <2>2. OwnerInv(p, k)'
    <3>1. \A i \in 1..n : (desc[q[i]].owner <=> i > k) /\ (desc[q[i]].td => i <= k /\ state[p] = "teardown")
      BY <1>7, <2>e DEF LiveInv, OwnerInv, n
    <3>2. \A i \in 1..(n + 1) : /\ desc'[r[i]].owner <=> i > k
                                /\ desc'[r[i]].td => i <= k /\ state[p] = "teardown"
      <4> SUFFICES ASSUME NEW i \in 1..(n + 1)
                   PROVE  /\ desc'[r[i]].owner <=> i > k
                          /\ desc'[r[i]].td => i <= k /\ state[p] = "teardown"
        OBVIOUS
      <4>1. CASE i = n + 1
        BY <2>0, <2>f, <4>1 DEF Fresh
      <4>2. CASE i \in 1..n
        BY <2>0, <2>a, <3>1, <4>2, ZenonT(30)
      <4> QED
        BY <2>0, <4>1, <4>2
    <3> QED
      BY <1>1, <2>0, <3>2 DEF OwnerInv
  <2>3. EngineInv(p, k)'
    <3>1. /\ hw[p].busy = Nil => /\ hw[p].next = Nil
                                 /\ hdp[p] # Nil => k < n /\ hdp[p] = q[k + 1]
          /\ hw[p].busy # Nil => /\ k < n /\ hw[p].busy = q[k + 1]
                                 /\ hdp[p] = hw[p].next
                                 /\ hdp[p] # Nil => k + 1 < n /\ hdp[p] = q[k + 2]
          /\ state[p] # "active" => hdp[p] = Nil /\ hw[p].busy = Nil
      BY <1>7, <2>e DEF LiveInv, EngineInv, n
    <3>2. /\ k < n => r[k + 1] = q[k + 1] /\ k < n + 1
          /\ k + 1 < n => r[k + 2] = q[k + 2] /\ k + 1 < n + 1
      BY <2>0, <2>f
    <3> QED
      BY <1>1, <2>0, <3>1, <3>2 DEF EngineInv
  <2>4. \A i \in 1..k : desc'[r[i]].eoq = desc[q[i]].eoq /\ r[i] = q[i] /\ i \in 1..n
    BY <2>0, <2>a, <2>f
  <2>b. /\ \A i \in 1..k : desc[q[i]].eoq => i = k /\ hdp[p] = Nil /\ hw[p].busy = Nil
        /\ (k = n /\ k > 0) => desc[q[k]].eoq
    BY <1>7, <2>e DEF LiveInv, EoqInv, n
  <2>5. EoqInv(p, k)'
    BY <1>1, <2>0, <2>4, <2>b, <2>f DEF EoqInv
  <2>6. RunInv(p, k)'
    <3>1. state[p] = "active" =>
            /\ k < n => hdp[p] # Nil \/ hw[p].busy # Nil \/ (k > 0 /\ desc[q[k]].eoq)
            /\ k > 0 => irq[p] /\ hwcp[p] = q[k]
      BY <1>7, <2>e DEF LiveInv, RunInv, n
    <3>2. k > 0 => desc'[r[k]].eoq = desc[q[k]].eoq /\ r[k] = q[k]
      BY <2>0, <2>4, <2>f
    <3>3. n > 0 /\ (k < n \/ k = n)
      BY <1>7, <2>0, <2>f
    <3> QED
      BY <1>1, <2>b, <3>1, <3>2, <3>3 DEF RunInv
  <2>7. StopInv(p, k)'
    BY <1>1, <2>e DEF LiveInv, StopInv
  <2>8. k \in 0..Len(r)
    BY <2>0, <2>f
  <2> QED
    BY <2>2, <2>3, <2>5, <2>6, <2>7, <2>8 DEF LiveInv
<1> QED
  BY <1>9, <1>12, <1>13, <1>15, <1>16, <1>17 DEF IInv, ChanInv

(* The submitter saw the end of queue: the engine is at rest in front of   *)
(* the new descriptor, and is started on it.                               *)
LEMMA MisqueuedStep ==
  ASSUME IInv, misqueued
  PROVE  IInv'
<1>1. /\ cpu.pc = "misqueued" /\ cpu.ch \in Chan /\ CpuTypeOK /\ cpu' = AfterSubmit
      /\ UNCHANGED <<ctlr, state, head, tail, bitmap, hw, hwcp, irq, td, history>>
  BY CpuType DEF misqueued, At, IInv, TypeOK, driver
<1>2. PICK p \in Chan : p = cpu.ch
  BY <1>1
<1> DEFINE q == fifo[p]
           n == Len(q)
           m == cpu.desc
<1>4. \A c \in Chan : Live(c) = fifo[c]
  BY <1>1 DEF Live, Held
<1>5. /\ n \in Nat /\ n > 1 /\ m = q[n - 1] /\ (Tame(p) => ~desc[m].owner /\ desc[m].eoq)
      /\ \A i \in 1..n : /\ q[i] \in Desc /\ q[i] # Nil /\ q[i] \in Half(p)
                         /\ \A j \in 1..n : q[i] = q[j] => i = j
  <2>1. /\ Len(Live(p)) > 1 /\ m = Live(p)[Len(Live(p)) - 1]
        /\ Tame(p) => ~desc[m].owner /\ desc[m].eoq
    BY <1>1, <1>2 DEF IInv, CpuInv
  <2> QED
    BY <1>4, <2>1, LiveFacts
<1>6. n - 1 \in 1..n /\ n \in 1..n /\ m \in Desc /\ m \in Half(p)
  BY <1>5
<1>8. tail[p] = q[n]
  BY <1>4, <1>5 DEF IInv, ChanInv, ChanOK, ChainInv
<1>9. /\ desc' = [desc EXCEPT ![m].eoq = FALSE]
      /\ hdp' = [hdp EXCEPT ![p] = q[n]]
  BY <1>2, <1>8 DEF misqueued
<1>10. /\ CpuTypeOK' /\ PhaseInv' /\ CpuInv' /\ cpu'.pc \in {"fill", "loop", "idle"}
       /\ cpu.job = "open" => cpu'.job = "open" /\ cpu'.used = cpu.used
       /\ cpu'.job = "open" => cpu.job = "open"
       /\ \A c \in Chan : ~Held(c)'
  BY <1>1, SubmitReturns DEF SubmitPcs
<1> HIDE DEF q, n, m
<1>11. \A c \in Chan : Live(c)' = fifo[c]
  BY <1>1, <1>10 DEF Live
<1>12. /\ ~desc'[m].eoq /\ desc'[m].owner = desc[m].owner
       /\ desc'[m].td = desc[m].td /\ desc'[m].next = desc[m].next
       /\ \A e \in Desc : e # m => desc'[e] = desc[e]
       /\ desc' \in [Desc -> [next : Desc \cup {Nil}, owner : BOOLEAN, eoq : BOOLEAN, td : BOOLEAN]]
  <2>1. desc \in [Desc -> [next : Desc \cup {Nil}, owner : BOOLEAN, eoq : BOOLEAN, td : BOOLEAN]]
    BY DEF IInv, TypeOK
  <2> QED
    BY <1>6, <1>9, <2>1
<1>13. /\ hdp'[p] = q[n] /\ hdp' \in [Chan -> Desc \cup {Nil}]
       /\ \A e \in Chan : e # p => hdp'[e] = hdp[e]
  <2>1. hdp \in [Chan -> Desc \cup {Nil}]
    BY DEF IInv, TypeOK
  <2> QED
    BY <1>5, <1>6, <1>9, <2>1
<1>14. TypeOK'
  BY <1>1, <1>10, <1>12, <1>13 DEF IInv, TypeOK, CpuTypeOK
<1>15. QueueInv' /\ BitmapInv' /\ CountInv'
  <2>1. QueueInv' /\ BitmapInv'
    BY <1>1, <1>10 DEF IInv, QueueInv, BitmapInv, InQueue
  <2> QED
    BY <1>1, <1>10, <2>1 DEF IInv, CountInv
<1>16. ASSUME NEW e \in Chan, e # p PROVE ChanOK(e)'
  <2>1. \A x \in Desc : x \notin Half(p) => desc'[x] = desc[x]
    BY <1>6, <1>12
  <2> QED
    BY <1>1, <1>2, <1>4, <1>10, <1>11, <1>13, <1>16, <2>1, OtherChannel
<1>17. ChanOK(p)'
  <2>1. Live(p)' = q /\ Live(p) = q
    BY <1>4, <1>11 DEF q
  <2>2. \A i \in 1..n : /\ desc'[q[i]].next = desc[q[i]].next /\ desc'[q[i]].owner = desc[q[i]].owner
                        /\ desc'[q[i]].td = desc[q[i]].td
                        /\ i # n - 1 => desc'[q[i]].eoq = desc[q[i]].eoq
    BY <1>5, <1>6, <1>12
  <2>3. ChainInv(p)'
    BY <1>1, <2>1, <2>2, SMTT(20) DEF IInv, ChanInv, ChanOK, ChainInv, n
  <2>6. state[p] = "active"
    BY <1>1, <1>2 DEF IInv, PhaseInv, SubmitPcs, ProcessPcs, StopPcs
  <2>a. RestInv(p)'
    BY <1>1, <2>6 DEF RestInv
  <2>b. SUFFICES ASSUME Tame(p) PROVE \E k \in 0..n : LiveInv(p, k)'
    BY <1>1, <2>1, <2>3, <2>a DEF ChanOK, Tame, n
  <2>c. PICK k \in 0..n : LiveInv(p, k) /\ k \in Nat /\ k <= n /\ ~td[p]
    BY <1>1, <2>1, <2>b, ThisChannel DEF n
  <2>d. k = n - 1 /\ hdp[p] = Nil /\ hw[p].busy = Nil /\ hw[p].next = Nil
    <3>1. n - 1 <= k
      BY <1>5, <1>6, <2>1, <2>b, <2>c DEF LiveInv, OwnerInv, n
    <3>2. n - 1 \in 1..k
      BY <1>5, <3>1, <2>c
    <3> QED
      BY <1>5, <2>1, <2>b, <2>c, <3>2 DEF LiveInv, EoqInv, EngineInv, n
  <2>4. OwnerInv(p, k)'
    BY <1>1, <2>1, <2>2, <2>c DEF LiveInv, OwnerInv, n
  <2>5. q[k + 1] = q[n] /\ k < n /\ q[n] # Nil
    BY <1>5, <1>6, <2>d
  <2>7. EngineInv(p, k)'
    BY <1>1, <1>13, <2>1, <2>5, <2>6, <2>d DEF EngineInv, n
  <2>8. EoqInv(p, k)'
    <3>1. \A i \in 1..k : ~desc'[q[i]].eoq
      <4> SUFFICES ASSUME NEW i \in 1..k PROVE ~desc'[q[i]].eoq
        OBVIOUS
      <4>1. i \in 1..n
        BY <1>5, <2>c
      <4>2. CASE i = k
        BY <1>5, <1>12, <2>d, <4>2
      <4>3. CASE i # k
        BY <2>1, <2>2, <2>c, <2>d, <4>1, <4>3 DEF LiveInv, EoqInv
      <4> QED
        BY <4>2, <4>3
    <3> QED
      BY <2>1, <2>5, <3>1 DEF EoqInv, n
  <2>9. RunInv(p, k)'
    BY <1>1, <1>13, <2>1, <2>5, <2>6, <2>c DEF LiveInv, RunInv
  <2>10. StopInv(p, k)'
    BY <1>1, <2>6, <2>c DEF StopInv
  <2> QED
    BY <2>c, <2>4, <2>7, <2>8, <2>9, <2>10 DEF LiveInv
<1> QED
  BY <1>10, <1>14, <1>15, <1>16, <1>17 DEF IInv, ChanInv

(***************************************************************************)
(* Completion.                                                             *)
(***************************************************************************)

(* The head moves on: the list in memory loses its first descriptor, which *)
(* the CPU now holds.                                                      *)
LEMMA TakeHead ==
  ASSUME IInv, NEW p \in Chan, p = cpu.ch, cpu.pc \in {"dequeue", "rest"}, head[p] # Nil,
         cpu'.pc \in {"free", "rest_free"}, cpu'.ch = p, cpu'.job = cpu.job,
         cpu'.used = cpu.used, cpu'.desc = head[p],
         head' = [head EXCEPT ![p] = desc[head[p]].next],
         UNCHANGED <<tail, bitmap, desc, fifo>>
  PROVE  LET q == fifo[p]
             n == Len(q)
         IN  /\ QueueInv' /\ BitmapInv' /\ CountInv' /\ CpuInv' /\ ChainInv(p)'
             /\ head' \in [Chan -> Desc \cup {Nil}]
             /\ \A e \in Chan : e # p => head'[e] = head[e] /\ Live(e)' = Live(e)
             /\ Live(p) = q /\ n \in Nat /\ n > 0 /\ head[p] = q[1]
             /\ desc[q[1]].next = IF n = 1 THEN Nil ELSE q[2]
             /\ Len(Live(p)') = n - 1
             /\ \A i \in 1..(n - 1) : Live(p)'[i] = q[i + 1] /\ i + 1 \in 1..n
<1> DEFINE q == fifo[p]
           n == Len(q)
           r == Live(p)'
<1>1. Live(p) = q /\ Live(p)' = Tail(q) /\ \A e \in Chan : e # p => Live(e)' = Live(e)
  BY DEF Live, Held
<1>2. n \in Nat /\ n > 0 /\ head[p] = q[1] /\ q \in Seq(Desc)
  <2>1. Len(Live(p)) # 0
    BY ThisHead
  <2>2. n \in Nat /\ q \in Seq(Desc)
    BY LiveFacts
  <2> QED
    BY <1>1, <2>1, <2>2 DEF IInv, ChanInv, ChanOK, ChainInv
<1>3. Len(r) = n - 1 /\ \A i \in 1..(n - 1) : r[i] = q[i + 1] /\ i + 1 \in 1..n
  BY <1>1, <1>2, TailFacts
<1>4. \A i \in 1..n : /\ q[i] \in Desc
                      /\ desc[q[i]].next = IF i = n THEN Nil ELSE q[i + 1]
  BY <1>1, LiveFacts DEF IInv, ChanInv, ChanOK, ChainInv
<1> HIDE DEF q, n, r
<1>5. desc[q[1]].next = IF n = 1 THEN Nil ELSE q[2]
  <2>1. 1 \in 1..n /\ 1 + 1 = 2
    BY <1>2
  <2>2. desc[q[1]].next = IF 1 = n THEN Nil ELSE q[1 + 1]
    BY <1>4, <2>1
  <2> QED
    BY <2>1, <2>2
<1>6. desc[head[p]].next \in Desc \cup {Nil}
  <2>1. n # 1 => 2 \in 1..n
    BY <1>2
  <2> QED
    BY <1>2, <1>4, <1>5, <2>1
<1>7. /\ head' \in [Chan -> Desc \cup {Nil}] /\ head'[p] = desc[head[p]].next
      /\ \A e \in Chan : e # p => head'[e] = head[e]
  <2>1. head \in [Chan -> Desc \cup {Nil}]
    BY DEF IInv, TypeOK
  <2> QED
    BY <1>6, <2>1
<1>8. QueueInv' /\ BitmapInv' /\ CountInv'
  <2>1. QueueInv' /\ BitmapInv'
    BY DEF IInv, QueueInv, BitmapInv, InQueue
  <2> QED
    BY <2>1 DEF IInv, CountInv
<1>9. CpuInv'
  <2>1. cpu.ch' = p /\ fifo' = fifo
    OBVIOUS
  <2> QED
    BY <1>2, <2>1 DEF CpuInv, Held, q, n
<1>10. ChainInv(p)'
  <2>1. head'[p] = IF Len(r) = 0 THEN Nil ELSE r[1]
    <3>1. n # 1 => 1 \in 1..(n - 1)
      BY <1>2
    <3> QED
      BY <1>2, <1>3, <1>5, <1>7, <3>1
  <2>2. Len(r) > 0 => tail[p] = r[Len(r)]
    <3>1. tail[p] = q[n]
      BY <1>1, <1>2 DEF IInv, ChanInv, ChanOK, ChainInv, q, n
    <3> QED
      BY <1>2, <1>3, <3>1
  <2>3. \A i \in 1..Len(r) : desc[r[i]].next = IF i = Len(r) THEN Nil ELSE r[i + 1]
    <3> SUFFICES ASSUME NEW i \in 1..(n - 1)
                 PROVE  desc[r[i]].next = IF i = n - 1 THEN Nil ELSE r[i + 1]
      BY <1>3
    <3>1. i + 1 \in 1..n /\ r[i] = q[i + 1] /\ (i # n - 1 => i + 1 \in 1..(n - 1))
      BY <1>2, <1>3
    <3>2. desc[q[i + 1]].next = IF i + 1 = n THEN Nil ELSE q[(i + 1) + 1]
      BY <1>4, <3>1
    <3> QED
      BY <1>2, <1>3, <3>1, <3>2
  <2> QED
    BY <2>1, <2>2, <2>3 DEF ChainInv, r
<1> QED
  BY <1>1, <1>2, <1>3, <1>5, <1>7, <1>8, <1>9, <1>10 DEF q, n, r

LEMMA DequeueStep ==
  ASSUME IInv, dequeue
  PROVE  IInv'
<1>1. /\ cpu.pc = "dequeue" /\ cpu.ch \in Chan /\ CpuTypeOK
      /\ UNCHANGED <<ctlr, state, tail, bitmap, desc, hw, hwcp, td, fifo>>
  BY CpuType DEF dequeue, At, IInv, TypeOK
<1>2. PICK p \in Chan : p = cpu.ch
  BY <1>1
<1> DEFINE q == fifo[p]
           n == Len(q)
           r == Live(p)'
           restart == Requeue
<1>4. /\ cpu.desc = Live(p)[1] /\ Len(Live(p)) > 0
      /\ Tame(p) => /\ ~desc[Live(p)[1]].owner
                    /\ cpu.eoq = desc[Live(p)[1]].eoq /\ cpu.td = desc[Live(p)[1]].td
      /\ head[p] = Live(p)[1] /\ head[p] # Nil
  <2>1. /\ cpu.desc = Live(p)[1] /\ Len(Live(p)) > 0
        /\ Tame(p) => /\ ~desc[Live(p)[1]].owner
                      /\ cpu.eoq = desc[Live(p)[1]].eoq /\ cpu.td = desc[Live(p)[1]].td
    BY <1>1, <1>2 DEF IInv, CpuInv
  <2>2. head[p] = Live(p)[1]
    BY <2>1, LiveFacts DEF IInv, ChanInv, ChanOK, ChainInv
  <2>3. 1 \in 1..Len(Live(p))
    BY <2>1, LiveFacts
  <2> QED
    BY <2>1, <2>2, <2>3, LiveFacts
<1>5. /\ CpuTypeOK' /\ cpu'.pc = "free" /\ cpu'.ch = p /\ cpu'.job = cpu.job
      /\ cpu'.used = cpu.used /\ cpu'.desc = head[p]
  BY <1>1, <1>2, <1>4 DEF dequeue, Goto, CpuTypeOK, PCs
<1>6. /\ head' = [head EXCEPT ![p] = desc[head[p]].next]
      /\ hdp' = IF restart THEN [hdp EXCEPT ![p] = desc[head[p]].next] ELSE hdp
      /\ restart <=> cpu.eoq /\ desc[head[p]].next # Nil /\ ~cpu.td
      /\ irq' = [irq EXCEPT ![p] = irq[p] /\ hwcp[p] # head[p]]
  BY <1>2, <1>4 DEF dequeue, Requeue
<1>7. /\ QueueInv' /\ BitmapInv' /\ CountInv' /\ CpuInv' /\ ChainInv(p)'
      /\ head' \in [Chan -> Desc \cup {Nil}]
      /\ \A e \in Chan : e # p => head'[e] = head[e] /\ Live(e)' = Live(e)
      /\ Live(p) = q /\ n \in Nat /\ n > 0 /\ head[p] = q[1]
      /\ desc[q[1]].next = IF n = 1 THEN Nil ELSE q[2]
      /\ Len(r) = n - 1
      /\ \A i \in 1..(n - 1) : r[i] = q[i + 1] /\ i + 1 \in 1..n
  BY <1>1, <1>2, <1>4, <1>5, <1>6, TakeHead
<1>8. /\ 1 \in 1..n
      /\ \A i \in 1..n : /\ q[i] \in Desc /\ q[i] # Nil
                         /\ \A j \in 1..n : q[i] = q[j] => i = j
  BY <1>7, LiveFacts
<1>10. desc[head[p]].next # Nil <=> n # 1
  <2> HIDE DEF q, n, r
  <2>1. n \in Nat /\ n > 0
    BY <1>7
  <2>2. n # 1 => 2 \in 1..n
    BY <2>1
  <2> QED
    BY <1>7, <1>8, <2>2
<1>11. hdp' = IF restart THEN [hdp EXCEPT ![p] = q[2]] ELSE hdp
  BY <1>6, <1>7, <1>10
<1>a. restart => n # 1
  BY <1>6, <1>10
<1>12. PhaseInv' /\ cpu.job # "open" /\ state[p] # "idle"
  BY <1>1, <1>2, <1>5 DEF IInv, PhaseInv, SubmitPcs, ProcessPcs, StopPcs, StopState
<1>b. /\ astray' \in [Chan -> {"no", "late", "restarted"}]
      /\ \A e \in Chan : e # p => astray'[e] = astray[e]
      /\ Tame(p)' => Tame(p) /\ (restart => state[p] = "active")
  <2>1. astray \in [Chan -> {"no", "late", "restarted"}]
    BY DEF IInv, TypeOK
  <2>2. astray' = IF (restart /\ state[p] # "active") /\ Tame(p)
                  THEN [astray EXCEPT ![p] = "restarted"] ELSE astray
    BY <1>2 DEF dequeue, StopRestarts
  <2> QED
    BY <2>1, <2>2 DEF Tame
<1> HIDE DEF q, n, r, restart
<1>13. /\ hdp' \in [Chan -> Desc \cup {Nil}] /\ hdp'[p] = (IF restart THEN q[2] ELSE hdp[p])
       /\ \A e \in Chan : e # p => hdp'[e] = hdp[e]
  <2>1. hdp \in [Chan -> Desc \cup {Nil}]
    BY DEF IInv, TypeOK
  <2>2. restart => q[2] \in Desc
    <3>1. restart => 2 \in 1..n
      BY <1>7, <1>a
    <3> QED
      BY <1>8, <3>1
  <2> QED
    BY <1>11, <2>1, <2>2
<1>14. /\ irq' \in [Chan -> BOOLEAN] /\ (irq'[p] <=> irq[p] /\ hwcp[p] # q[1])
       /\ \A e \in Chan : e # p => irq'[e] = irq[e]
  <2>1. irq \in [Chan -> BOOLEAN]
    BY DEF IInv, TypeOK
  <2>2. (irq[p] /\ hwcp[p] # head[p]) \in BOOLEAN
    OBVIOUS
  <2> QED
    BY <1>6, <1>7, <2>1, <2>2
<1>15. TypeOK'
  BY <1>1, <1>5, <1>7, <1>13, <1>14, <1>b DEF IInv, TypeOK, CpuTypeOK
<1>16. ASSUME NEW e \in Chan, e # p PROVE ChanOK(e)'
  BY <1>1, <1>2, <1>5, <1>7, <1>13, <1>14, <1>16, <1>b, OtherChannel
<1>17. ChanOK(p)'
  <2>a. RestInv(p)'
    BY <1>1, <1>12 DEF RestInv
  <2>b. SUFFICES ASSUME Tame(p), restart => state[p] = "active"
                 PROVE  \E k \in 0..Len(r) : LiveInv(p, k)'
    BY <1>7, <1>b, <2>a DEF ChanOK, r
  <2>c. PICK k \in 0..Len(Live(p)) : LiveInv(p, k) /\ k \in Nat /\ k <= Len(Live(p)) /\ ~td[p]
    BY <1>1, <2>b, ThisChannel
  <2>d. restart <=> desc[q[1]].eoq /\ n # 1 /\ ~desc[q[1]].td
    BY <1>4, <1>6, <1>7, <1>10, <2>b
  <2>e. 1 <= k /\ k <= n
    <3>1. ~desc[q[1]].owner
      BY <1>4, <1>7, <2>b
    <3> QED
      BY <1>7, <1>8, <2>c, <3>1 DEF LiveInv, OwnerInv, n
  <2>1. /\ \A i \in 1..n : /\ desc[q[i]].owner <=> i > k
                           /\ desc[q[i]].td => i <= k /\ state[p] = "teardown"
        /\ \A i \in 1..k : desc[q[i]].eoq => i = k /\ hdp[p] = Nil /\ hw[p].busy = Nil
        /\ (k = n /\ k > 0) => desc[q[k]].eoq
    BY <1>7, <2>c DEF LiveInv, OwnerInv, EoqInv, n
  <2>2. /\ hw[p].busy = Nil => /\ hw[p].next = Nil
                               /\ hdp[p] # Nil => k < n /\ hdp[p] = q[k + 1]
        /\ hw[p].busy # Nil => /\ k < n /\ hw[p].busy = q[k + 1]
                               /\ hdp[p] = hw[p].next
                               /\ hdp[p] # Nil => k + 1 < n /\ hdp[p] = q[k + 2]
        /\ state[p] # "active" => hdp[p] = Nil /\ hw[p].busy = Nil
    BY <1>7, <2>c DEF LiveInv, EngineInv, n
  <2>3. /\ state[p] = "active" =>
             /\ k < n => hdp[p] # Nil \/ hw[p].busy # Nil \/ (k > 0 /\ desc[q[k]].eoq)
             /\ k > 0 => irq[p] /\ hwcp[p] = q[k]
    BY <2>c, <1>7 DEF LiveInv, RunInv, n
  <2>5. /\ k - 1 \in Nat /\ k - 1 \in 0..(n - 1)
        /\ k < n => k \in 1..(n - 1) /\ r[k] = q[k + 1]
        /\ k + 1 < n => k + 1 \in 1..(n - 1) /\ r[k + 1] = q[k + 2]
        /\ k > 1 => k - 1 \in 1..(n - 1) /\ r[k - 1] = q[k]
    <3>1. /\ k - 1 \in Nat /\ k - 1 \in 0..(n - 1)
          /\ k < n => k \in 1..(n - 1)
          /\ k + 1 < n => k + 1 \in 1..(n - 1) /\ (k + 1) + 1 = k + 2
          /\ k > 1 => k - 1 \in 1..(n - 1) /\ (k - 1) + 1 = k
      <4>1. n \in Nat /\ k \in Nat /\ 1 <= k /\ k <= n
        BY <2>c, <1>7, <2>e
      <4> QED
        BY <4>1
    <3> QED
      BY <1>7, <3>1
  <2>6. restart => k = 1 /\ hdp[p] = Nil /\ hw[p].busy = Nil /\ k < n /\ state[p] = "active"
    <3>1. 1 \in 1..k
      BY <2>c, <2>e
    <3> QED
      BY <1>7, <2>1, <2>b, <2>d, <2>e, <3>1
  <2>7. OwnerInv(p, k - 1)'
    <3>1. \A i \in 1..(n - 1) : /\ desc[r[i]].owner <=> i > k - 1
                                /\ desc[r[i]].td => i <= k - 1 /\ state[p] = "teardown"
      <4> TAKE i \in 1..(n - 1)
      <4>1. r[i] = q[i + 1] /\ i + 1 \in 1..n
        BY <1>7
      <4>2. /\ desc[q[i + 1]].owner <=> i + 1 > k
            /\ desc[q[i + 1]].td => i + 1 <= k /\ state[p] = "teardown"
        BY <2>1, <4>1
      <4>3. n \in Nat /\ k \in Nat
        BY <2>c, <1>7
      <4>4. (i + 1 > k <=> i > k - 1) /\ (i + 1 <= k <=> i <= k - 1)
        BY <4>3
      <4> QED
        BY <4>1, <4>2, <4>4
    <3> QED
      BY <1>1, <1>7, <3>1 DEF OwnerInv, r
  <2>8. EngineInv(p, k - 1)'
    <3>1. (k - 1) + 1 = k /\ (k - 1) + 2 = k + 1 /\ (k - 1 < n - 1 <=> k < n) /\ (k < n - 1 <=> k + 1 < n)
      BY <2>c, <1>7
    <3>2. CASE restart
      <4>1. hdp'[p] = r[1] /\ k = 1 /\ k < n
        BY <1>13, <2>5, <2>6, <3>2
      <4> QED
        BY <1>1, <1>7, <2>2, <2>6, <3>1, <3>2, <4>1 DEF EngineInv, r
    <3>3. CASE ~restart
      <4>1. hdp'[p] = hdp[p]
        BY <1>13, <3>3
      <4> QED
        BY <1>1, <1>7, <2>2, <2>5, <3>1, <4>1 DEF EngineInv, r
    <3> QED
      BY <3>2, <3>3
  <2>9. EoqInv(p, k - 1)'
    <3>1. ASSUME NEW i \in 1..(k - 1), desc[r[i]].eoq
          PROVE  i = k - 1 /\ hdp'[p] = Nil /\ hw[p].busy = Nil
      <4>1. i \in 1..(n - 1) /\ i + 1 \in 1..k /\ r[i] = q[i + 1] /\ k # 1
        BY <2>c, <1>7, <2>e, <3>1
      <4>2. i + 1 = k /\ hdp[p] = Nil /\ hw[p].busy = Nil
        BY <2>1, <3>1, <4>1
      <4> QED
        BY <2>c, <1>13, <2>6, <4>1, <4>2
    <3>2. (k - 1 = n - 1 /\ k - 1 > 0) => desc[r[k - 1]].eoq
      BY <2>c, <1>7, <2>1, <2>5
    <3> QED
      BY <1>1, <1>7, <3>1, <3>2 DEF EoqInv, r
  <2>10. RunInv(p, k - 1)'
    <3> SUFFICES ASSUME state[p] = "active"
                 PROVE  /\ k - 1 < n - 1 => hdp'[p] # Nil \/ hw[p].busy # Nil \/ (k - 1 > 0 /\ desc[r[k - 1]].eoq)
                        /\ k - 1 > 0 => irq'[p] /\ hwcp[p] = r[k - 1]
      BY <1>1, <1>7 DEF RunInv, r
    <3>1. k - 1 > 0 => irq'[p] /\ hwcp[p] = r[k - 1]
      <4> SUFFICES ASSUME k > 1 PROVE irq'[p] /\ hwcp[p] = r[k - 1]
        BY <2>c
      <4>1. q[k] # q[1]
        BY <2>c, <1>8, <2>e
      <4> QED
        BY <1>14, <2>3, <2>5, <4>1
    <3>2. k < n => hdp'[p] # Nil \/ hw[p].busy # Nil \/ (k > 1 /\ desc[r[k - 1]].eoq)
      <4> SUFFICES ASSUME k < n, hw[p].busy = Nil, hdp[p] = Nil
                   PROVE  hdp'[p] # Nil \/ (k > 1 /\ desc[r[k - 1]].eoq)
        BY <1>13, <2>6
      <4>1. desc[q[k]].eoq
        BY <2>3
      <4>2. CASE k = 1
        <5>1. restart
          <6>1. ~desc[q[1]].td /\ n # 1
            BY <1>7, <1>8, <2>1, <4>2
          <6> QED
            BY <2>d, <4>1, <4>2, <6>1
        <5>2. q[2] # Nil
          <6>1. 2 \in 1..n
            BY <1>7, <4>2
          <6> QED
            BY <1>8, <6>1
        <5> QED
          BY <1>13, <5>1, <5>2
      <4>3. CASE k > 1
        BY <2>5, <4>1, <4>3
      <4> QED
        BY <2>c, <2>e, <4>2, <4>3
    <3> QED
      BY <2>c, <1>7, <3>1, <3>2
  <2>11. StopInv(p, k - 1)'
    BY <1>1, <1>12, <2>c DEF StopInv
  <2> QED
    BY <1>7, <2>5, <2>7, <2>8, <2>9, <2>10, <2>11 DEF LiveInv, r
<1> QED
  BY <1>7, <1>12, <1>15, <1>16, <1>17 DEF IInv, ChanInv

(* A held descriptor goes back to the pool.                                *)
LEMMA FreeStep ==
  ASSUME IInv, cpdma_chan_free \/ stop_rest_free
  PROVE  IInv'
<1>1. /\ cpu.pc \in {"free", "rest_free"} /\ cpu.ch \in Chan /\ CpuTypeOK
      /\ UNCHANGED <<ctlr, state, head, tail, desc, hdp, hw, hwcp, irq, td, astray>>
  BY CpuType DEF cpdma_chan_free, stop_rest_free, FreeDesc, At, IInv, TypeOK, hardware
<1>2. PICK p \in Chan : p = cpu.ch
  BY <1>1
<1> DEFINE q == fifo[p]
           n == Len(q)
           r == fifo'[p]
           d == cpu.desc
<1>3. /\ Held(p) /\ n > 0 /\ d = q[1] /\ q \in Seq(Desc) /\ n \in Nat /\ 1 \in 1..n
      /\ Live(p) = Tail(q) /\ Len(Live(p)) = n - 1
      /\ \A i \in 1..n : /\ q[i] \in Half(p) /\ q[i] \in Desc
                         /\ \A j \in 1..n : q[i] = q[j] => i = j
  <2>1. Held(p) /\ n > 0 /\ d = q[1]
    BY <1>1, <1>2 DEF Held, IInv, CpuInv
  <2>2. /\ q \in Seq(Desc) /\ n \in Nat /\ Live(p) = Tail(q) /\ Len(Live(p)) = n - 1
    BY <2>1, LiveFacts
  <2>3. \A i \in 1..n : /\ q[i] \in Half(p) /\ q[i] \in Desc
                        /\ \A j \in 1..n : q[i] = q[j] => i = j
    BY HalfDesc DEF IInv, QueueInv
  <2> QED
    BY <2>1, <2>2, <2>3
<1>4. /\ bitmap' = bitmap \ {d - 1}
      /\ fifo' = [fifo EXCEPT ![p] = RemoveAt(q, CHOOSE i \in DOMAIN q : q[i] = d)]
      /\ cpu' = [cpu EXCEPT !.pc = IF cpu.pc = "free" THEN "handler" ELSE "rest"]
  BY <1>2 DEF cpdma_chan_free, stop_rest_free, FreeDesc, Goto, At
<1>5. RemoveAt(q, CHOOSE i \in DOMAIN q : q[i] = d) = Tail(q)
  BY <1>3, RemoveHead
<1>6. /\ fifo \in [Chan -> Seq(Desc)] /\ r = Tail(q) /\ \A e \in Chan : e # p => fifo'[e] = fifo[e]
  BY <1>4, <1>5 DEF IInv, TypeOK
<1>7. /\ r \in Seq(Desc) /\ Len(r) = n - 1
      /\ \A i \in 1..(n - 1) : r[i] = q[i + 1] /\ i + 1 \in 1..n
  BY <1>3, <1>6, TailFacts
<1>8. fifo' \in [Chan -> Seq(Desc)]
  BY <1>4, <1>5, <1>6, <1>7
<1>9. /\ CpuTypeOK' /\ cpu'.pc = (IF cpu.pc = "free" THEN "handler" ELSE "rest")
      /\ cpu'.ch = p /\ cpu'.job = cpu.job /\ cpu'.used = cpu.used
  BY <1>1, <1>2, <1>4 DEF CpuTypeOK, PCs
<1>10. /\ \A e \in Chan : Live(e)' = Live(e)
       /\ \A e \in Chan : Live(e)' = fifo'[e]
  <2>1. \A e \in Chan : Live(e)' = fifo'[e]
    BY <1>9 DEF Live, Held
  <2>2. \A e \in Chan : e # p => Live(e) = fifo[e]
    BY <1>2 DEF Live, Held
  <2>3. Live(p)' = Live(p)
    BY <1>3, <1>6, <2>1
  <2>4. \A e \in Chan : e # p => Live(e)' = Live(e)
    BY <1>6, <2>1, <2>2
  <2> QED
    BY <2>1, <2>3, <2>4
<1> HIDE DEF q, n, r, d
<1>11. TypeOK'
  <2>1. bitmap' \subseteq 0..(NumDesc - 1)
    BY <1>4 DEF IInv, TypeOK
  <2> QED
    BY <1>1, <1>8, <1>9, <2>1 DEF IInv, TypeOK, CpuTypeOK
<1>12. PhaseInv' /\ cpu.job # "open"
  BY <1>1, <1>2, <1>9 DEF IInv, PhaseInv, SubmitPcs, ProcessPcs, StopPcs, StopState
<1>13. CpuInv'
  BY <1>9 DEF CpuInv, Held
<1>14. QueueInv'
  <2> SUFFICES ASSUME NEW c \in Chan, NEW i \in 1..Len(fifo'[c])
               PROVE  /\ fifo'[c][i] \in Half(c)
                      /\ \A j \in 1..Len(fifo'[c]) : fifo'[c][i] = fifo'[c][j] => i = j
    BY DEF QueueInv
  <2>1. CASE c # p
    BY <1>6, <2>1 DEF IInv, QueueInv
  <2>2. CASE c = p
    <3>1. fifo'[c] = r /\ i \in 1..(n - 1)
      BY <1>7, <2>2 DEF r
    <3>2. r[i] \in Half(p)
      BY <1>3, <1>7, <3>1
    <3>3. ASSUME NEW j \in 1..(n - 1), r[i] = r[j] PROVE i = j
      <4>1. i + 1 = j + 1
        BY <1>3, <1>7, <3>1, <3>3
      <4> QED
        BY <3>1, <4>1
    <3> QED
      BY <1>7, <2>2, <3>1, <3>2, <3>3
  <2> QED
    BY <2>1, <2>2
<1>15. BitmapInv'
  <2>1. ASSUME NEW e \in Desc PROVE InQueue(p, e)' <=> InQueue(p, e) /\ e # d
    <3>1. InQueue(p, e)' <=> \E i \in 1..(n - 1) : r[i] = e
      BY <1>7 DEF InQueue, r
    <3>2. InQueue(p, e) <=> \E i \in 1..n : q[i] = e
      BY DEF InQueue, q, n
    <3>3. ASSUME NEW i \in 1..(n - 1), r[i] = e PROVE InQueue(p, e) /\ e # d
      <4>1. q[i + 1] = e /\ i + 1 \in 1..n /\ i + 1 # 1
        BY <1>3, <1>7, <3>3
      <4> QED
        BY <1>3, <3>2, <4>1
    <3>4. ASSUME NEW i \in 1..n, q[i] = e, e # d PROVE \E j \in 1..(n - 1) : r[j] = e
      <4>1. i # 1
        BY <1>3, <3>4
      <4>2. i - 1 \in 1..(n - 1) /\ (i - 1) + 1 = i
        BY <1>3, <4>1
      <4> QED
        BY <1>7, <3>4, <4>2
    <3> QED
      BY <3>1, <3>2, <3>3, <3>4
  <2>2. \A c \in Chan, e \in Desc : c # p => (InQueue(c, e)' <=> InQueue(c, e))
    BY <1>6 DEF InQueue
  <2>3. \A c \in Chan : c # p => ~InQueue(c, d)
    BY <1>3, HalfDesc DEF IInv, QueueInv, InQueue
  <2>4. \A e \in Desc : (e - 1 \in bitmap') <=> (e - 1 \in bitmap /\ e # d)
    BY <1>3, <1>4 DEF Desc
  <2>5. \A e \in Desc : (e - 1 \in bitmap) <=> (InQueue("tx", e) \/ InQueue("rx", e))
    BY <1>1 DEF IInv, BitmapInv
  <2>6. cpu'.pc # "chain"
    BY <1>9
  <2> QED
    BY <2>1, <2>2, <2>3, <2>4, <2>5, <2>6 DEF BitmapInv, Chan
<1>16. CountInv'
  <2>1. Len(fifo["rx"]) \in Nat /\ Len(fifo["rx"]) <= RxDescs
    BY LiveFacts DEF Chan, IInv, CountInv
  <2>2. CASE p = "rx"
    <3>1. Len(fifo'["rx"]) = Len(fifo["rx"]) - 1
      BY <1>7, <2>2 DEF r, q, n
    <3> QED
      BY <1>9, <1>12, <2>1, <3>1, HalfFacts DEF CountInv
  <2>3. CASE p # "rx"
    <3>1. fifo'["rx"] = fifo["rx"]
      BY <1>6, <2>3 DEF Chan
    <3> QED
      BY <1>9, <1>12, <2>1, <2>3, <3>1 DEF CountInv
  <2> QED
    BY <2>2, <2>3
<1>17. ASSUME NEW e \in Chan PROVE ChanOK(e)'
  <2>1. ChanOK(e) /\ Len(Live(e)) \in Nat
    BY LiveFacts DEF IInv, ChanInv
  <2>2. Tame(e) => ~td[e]
    BY <1>1, <2>1 DEF ChanOK, LiveInv, StopInv
  <2> QED
    BY <1>1, <1>9, <1>10, <2>1, <2>2, ChanFrame
<1> QED
  BY <1>11, <1>12, <1>13, <1>14, <1>15, <1>16, <1>17 DEF IInv, ChanInv

(***************************************************************************)
(* Starting and stopping.                                                  *)
(***************************************************************************)

(* A step that leaves the queues alone and ends a call or goes on with it. *)
LEMMA ControlFrame ==
  ASSUME IInv, UNCHANGED <<head, tail, bitmap, desc, fifo>>, CpuTypeOK',
         cpu.pc \in {"start", "stop", "wait", "rest", "stopped"},
         cpu'.pc \in {"idle", "wait", "process", "stopped"}, cpu'.job # "open"
  PROVE  /\ QueueInv' /\ BitmapInv' /\ CpuInv' /\ CountInv'
         /\ \A c \in Chan : /\ Live(c) = fifo[c] /\ Live(c)' = fifo[c]
                            /\ ChainInv(c)' /\ ChainInv(c)
<1>1. \A c \in Chan : Live(c) = fifo[c] /\ Live(c)' = fifo[c]
  BY DEF Live, Held
<1>2. QueueInv' /\ BitmapInv'
  BY DEF IInv, QueueInv, BitmapInv, InQueue
<1>3. CpuInv'
  BY DEF CpuInv, Held
<1>4. CountInv'
  BY DEF IInv, CountInv
<1>5. \A c \in Chan : ChainInv(c)
  BY DEF IInv, ChanInv, ChanOK
<1>6. \A c \in Chan : ChainInv(c)'
  BY <1>1, <1>5 DEF ChainInv
<1> QED
  BY <1>1, <1>2, <1>3, <1>4, <1>5, <1>6

(* Every channel starts at its head, with nothing completed.               *)
LEMMA CtlrStartStep ==
  ASSUME IInv, cpdma_ctlr_start
  PROVE  IInv'
<1>1. /\ cpu.pc = "start" /\ cpu' = Call("none", "idle", "tx")
      /\ ctlr' = "active" /\ state' = [c \in Chan |-> "active"] /\ hdp' = head
      /\ hw' = [c \in Chan |-> [busy |-> Nil, next |-> Nil]]
      /\ hwcp' = [c \in Chan |-> Nil]
      /\ irq' = [c \in Chan |-> FALSE] /\ td' = [c \in Chan |-> FALSE]
      /\ astray' = [c \in Chan |-> "no"]
      /\ UNCHANGED <<head, tail, bitmap, desc, fifo>>
  BY DEF cpdma_ctlr_start, At, Idle, Call
<1>2. CpuTypeOK' /\ cpu'.job = "none" /\ cpu'.pc = "idle"
  BY <1>1, CallFacts DEF Jobs, PCs, Chan
<1>3. cpu.job = "open" /\ \A c \in Chan : state[c] = "idle"
  BY <1>1 DEF IInv, PhaseInv, SubmitPcs, ProcessPcs, StopPcs
<1>4. /\ QueueInv' /\ BitmapInv' /\ CpuInv' /\ CountInv'
      /\ \A c \in Chan : /\ Live(c) = fifo[c] /\ Live(c)' = fifo[c]
                         /\ ChainInv(c)' /\ ChainInv(c)
  BY <1>1, <1>2, ControlFrame
<1>5. TypeOK'
  BY <1>1, <1>2 DEF IInv, TypeOK, CpuTypeOK
<1>6. PhaseInv'
  BY <1>1, <1>2 DEF PhaseInv
<1>7. ASSUME NEW c \in Chan PROVE ChanOK(c)'
  <2> DEFINE n == Len(fifo[c])
  <2>1. /\ state'[c] = "active" /\ hdp'[c] = head[c] /\ hw'[c].busy = Nil /\ hw'[c].next = Nil
        /\ ~td'[c]
    BY <1>1
  <2>2. n \in Nat /\ \A i \in 1..n : fifo[c][i] # Nil
    BY <1>4, LiveFacts
  <2>3. head[c] = IF n = 0 THEN Nil ELSE fifo[c][1]
    BY <1>4 DEF ChainInv
  <2>4. \A i \in 1..n : desc[fifo[c][i]].owner /\ ~desc[fifo[c][i]].td
    BY <1>3, <1>4 DEF IInv, ChanInv, ChanOK, RestInv
  <2>5. RestInv(c)'
    BY <2>1 DEF RestInv
  <2> HIDE DEF n
  <2>7. n # 0 => 1 \in 1..n /\ 0 < n
    BY <2>2
  <2>8. OwnerInv(c, 0)'
    BY <1>1, <1>4, <2>2, <2>4 DEF OwnerInv, n
  <2>9. EngineInv(c, 0)'
    BY <1>4, <2>1, <2>3, <2>7 DEF EngineInv, n
  <2>10. EoqInv(c, 0)'
    BY <1>4 DEF EoqInv
  <2>11. RunInv(c, 0)'
    <3>1. 0 < n => hdp'[c] # Nil
      BY <2>1, <2>2, <2>3, <2>7
    <3> QED
      BY <1>4, <3>1 DEF RunInv, n
  <2>12. StopInv(c, 0)'
    BY <2>1 DEF StopInv
  <2>13. 0 \in 0..n
    BY <2>2
  <2> QED
    BY <1>4, <2>5, <2>8, <2>9, <2>10, <2>11, <2>12, <2>13 DEF ChanOK, LiveInv, n
<1> QED
  BY <1>4, <1>5, <1>6, <1>7 DEF IInv, ChanInv

(* The teardown is asked for; nothing else happens yet.                    *)
LEMMA ChanStopStep ==
  ASSUME IInv, cpdma_chan_stop
  PROVE  IInv'
<1>1. /\ cpu.pc = "stop" /\ cpu.ch \in Chan /\ CpuTypeOK /\ cpu' = [cpu EXCEPT !.pc = "wait"]
      /\ UNCHANGED <<ctlr, head, tail, bitmap, desc, hdp, hw, hwcp, irq, history>>
  BY CpuType DEF cpdma_chan_stop, At, Goto, IInv, TypeOK
<1>2. PICK p \in Chan : p = cpu.ch
  BY <1>1
<1>3. /\ state[p] = "active" /\ state' = [state EXCEPT ![p] = "teardown"]
      /\ td' = [td EXCEPT ![p] = TRUE]
  BY <1>2 DEF cpdma_chan_stop
<1>4. CpuTypeOK' /\ cpu'.pc = "wait" /\ cpu'.ch = p /\ cpu'.job = cpu.job
  BY <1>1, <1>2 DEF CpuTypeOK, PCs
<1>5. cpu.job \in {"close", "timeout"} /\ (cpu.job = "timeout" => p = "tx")
  BY <1>1, <1>2 DEF IInv, PhaseInv, SubmitPcs, ProcessPcs, StopPcs
<1>6. /\ state'[p] = "teardown" /\ td'[p] /\ \A e \in Chan : e # p => state'[e] = state[e] /\ td'[e] = td[e]
  BY <1>3 DEF IInv, TypeOK
<1>7. TypeOK'
  BY <1>1, <1>3, <1>4 DEF IInv, TypeOK, CpuTypeOK
<1>8. PhaseInv'
  BY <1>1, <1>2, <1>4, <1>5, <1>6 DEF IInv, PhaseInv, SubmitPcs, ProcessPcs, StopPcs, StopState, Chan
<1>9. /\ QueueInv' /\ BitmapInv' /\ CpuInv' /\ CountInv'
      /\ \A c \in Chan : /\ Live(c) = fifo[c] /\ Live(c)' = fifo[c]
                         /\ ChainInv(c)' /\ ChainInv(c)
  BY <1>1, <1>4, <1>5, ControlFrame
<1>11. ASSUME NEW e \in Chan, e # p PROVE ChanOK(e)'
  BY <1>1, <1>2, <1>4, <1>5, <1>6, <1>9, <1>11, OtherChannel
<1>12. ChanOK(p)'
  <2>0. RestInv(p)'
    BY <1>6 DEF RestInv
  <2>a. SUFFICES ASSUME Tame(p) PROVE \E k \in 0..Len(Live(p)') : LiveInv(p, k)'
    BY <1>1, <1>9, <2>0 DEF ChanOK, Tame
  <2>1. PICK k \in 0..Len(Live(p)) : LiveInv(p, k) /\ k \in Nat /\ k <= Len(Live(p))
    BY <2>a, ThisChannel
  <2>2. Len(Live(p)') = Len(Live(p)) /\ Live(p)' = Live(p) /\ Len(Live(p)) \in Nat
    BY <1>9, LiveFacts
  <2>3. OwnerInv(p, k)'
    BY <1>1, <1>3, <1>6, <2>1, <2>2 DEF LiveInv, OwnerInv
  <2>4. EngineInv(p, k)'
    BY <1>1, <1>6, <2>1, <2>2 DEF LiveInv, EngineInv
  <2>5. EoqInv(p, k)'
    BY <1>1, <2>1, <2>2 DEF LiveInv, EoqInv
  <2>6. RunInv(p, k)'
    BY <1>6 DEF RunInv
  <2>7. StopInv(p, k)'
    BY <1>4, <1>6 DEF StopInv
  <2> QED
    BY <2>1, <2>2, <2>3, <2>4, <2>5, <2>6, <2>7 DEF LiveInv
<1> QED
  BY <1>7, <1>8, <1>9, <1>11, <1>12 DEF IInv, ChanInv

(* The wait ends; the engine is astray if it has not answered.             *)
LEMMA StopWaitStep ==
  ASSUME IInv, stop_wait
  PROVE  IInv'
<1>1. /\ cpu.pc = "wait" /\ cpu.ch \in Chan /\ CpuTypeOK /\ cpu' = [cpu EXCEPT !.pc = "process"]
      /\ UNCHANGED <<ctlr, state, head, tail, bitmap, desc, hdp, hw, hwcp, td, fifo>>
  BY CpuType DEF stop_wait, At, Goto, IInv, TypeOK, driver
<1>2. PICK p \in Chan : p = cpu.ch
  BY <1>1
<1>3. /\ irq' = [irq EXCEPT ![p] = irq[p] /\ hwcp[p] # TEARDOWN_VALUE]
      /\ astray' = IF td[p] THEN [astray EXCEPT ![p] = "late"] ELSE astray
  BY <1>2 DEF stop_wait
<1>a. /\ astray' \in [Chan -> {"no", "late", "restarted"}]
      /\ \A e \in Chan : e # p => astray'[e] = astray[e]
      /\ Tame(p)' => Tame(p) /\ ~td[p]
  <2>1. astray \in [Chan -> {"no", "late", "restarted"}]
    BY DEF IInv, TypeOK
  <2> QED
    BY <1>3, <2>1 DEF Tame
<1>b. irq' \in [Chan -> BOOLEAN] /\ \A e \in Chan : e # p => irq'[e] = irq[e]
  <2>1. irq \in [Chan -> BOOLEAN]
    BY DEF IInv, TypeOK
  <2>2. (irq[p] /\ hwcp[p] # TEARDOWN_VALUE) \in BOOLEAN
    OBVIOUS
  <2> QED
    BY <1>3, <2>1, <2>2
<1>4. CpuTypeOK' /\ cpu'.pc = "process" /\ cpu'.ch = p /\ cpu'.job = cpu.job
  BY <1>1, <1>2 DEF CpuTypeOK, PCs
<1>5. cpu.job \in {"close", "timeout"} /\ (cpu.job = "timeout" => p = "tx") /\ state[p] = "teardown"
  BY <1>1, <1>2 DEF IInv, PhaseInv, SubmitPcs, ProcessPcs, StopPcs, StopState
<1>6. TypeOK' /\ \A e \in Chan : e # p => irq'[e] = irq[e]
  BY <1>1, <1>4, <1>a, <1>b DEF IInv, TypeOK, CpuTypeOK
<1>7. PhaseInv'
  BY <1>1, <1>2, <1>4, <1>5 DEF IInv, PhaseInv, SubmitPcs, ProcessPcs, StopPcs, StopState
<1>8. /\ QueueInv' /\ BitmapInv' /\ CpuInv' /\ CountInv'
      /\ \A c \in Chan : /\ Live(c) = fifo[c] /\ Live(c)' = fifo[c]
                         /\ ChainInv(c)' /\ ChainInv(c)
  BY <1>1, <1>4, <1>5, ControlFrame
<1>10. ASSUME NEW e \in Chan, e # p PROVE ChanOK(e)'
  <2>1. ChanOK(e) /\ Len(Live(e)) \in Nat
    BY LiveFacts DEF IInv, ChanInv
  <2>2. Tame(e) => ~td[e]
    BY <1>2, <1>10, <2>1 DEF ChanOK, LiveInv, StopInv
  <2> QED
    BY <1>1, <1>4, <1>5, <1>6, <1>8, <1>10, <1>a, <2>1, <2>2, ChanFrame
<1>11. ChanOK(p)'
  <2>0. RestInv(p)'
    BY <1>1, <1>5 DEF RestInv
  <2>a. SUFFICES ASSUME Tame(p), ~td[p] PROVE \E k \in 0..Len(Live(p)') : LiveInv(p, k)'
    BY <1>8, <1>a, <2>0 DEF ChanOK
  <2>1. PICK k \in 0..Len(Live(p)) : LiveInv(p, k) /\ k \in Nat /\ k <= Len(Live(p))
    BY <2>a, ThisChannel
  <2>2. Len(Live(p)') = Len(Live(p)) /\ Live(p)' = Live(p) /\ Len(Live(p)) \in Nat
    BY <1>8, LiveFacts
  <2>3. OwnerInv(p, k)'
    BY <1>1, <2>1, <2>2 DEF LiveInv, OwnerInv
  <2>4. EngineInv(p, k)'
    BY <1>1, <2>1, <2>2 DEF LiveInv, EngineInv
  <2>5. EoqInv(p, k)'
    BY <1>1, <2>1, <2>2 DEF LiveInv, EoqInv
  <2>6. RunInv(p, k)'
    BY <1>1, <1>5 DEF RunInv
  <2>7. StopInv(p, k)'
    BY <1>1, <1>5, <2>a DEF StopInv
  <2> QED
    BY <2>1, <2>2, <2>3, <2>4, <2>5, <2>6, <2>7 DEF LiveInv
<1> QED
  BY <1>6, <1>7, <1>8, <1>10, <1>11 DEF IInv, ChanInv

(* An empty channel is idle again.                                         *)
LEMMA StopDoneStep ==
  ASSUME IInv, stop_done
  PROVE  IInv'
<1>1. /\ cpu.pc = "rest" /\ cpu.ch \in Chan /\ CpuTypeOK /\ cpu' = [cpu EXCEPT !.pc = "stopped"]
      /\ UNCHANGED <<ctlr, head, tail, bitmap, desc, hdp, hw, hwcp, irq, td, history>>
  BY CpuType DEF stop_done, At, Goto, IInv, TypeOK, hardware
<1>2. PICK p \in Chan : p = cpu.ch
  BY <1>1
<1>3. head[p] = Nil /\ state' = [state EXCEPT ![p] = "idle"]
  BY <1>2 DEF stop_done
<1>4. CpuTypeOK' /\ cpu'.pc = "stopped" /\ cpu'.ch = p /\ cpu'.job = cpu.job
  BY <1>1, <1>2 DEF CpuTypeOK, PCs
<1>5. cpu.job \in {"close", "timeout"} /\ (cpu.job = "timeout" => p = "tx") /\ state[p] = "teardown"
  BY <1>1, <1>2 DEF IInv, PhaseInv, SubmitPcs, ProcessPcs, StopPcs, StopState
<1>6. state'[p] = "idle" /\ \A e \in Chan : e # p => state'[e] = state[e]
  BY <1>3 DEF IInv, TypeOK
<1>7. TypeOK'
  BY <1>1, <1>3, <1>4 DEF IInv, TypeOK, CpuTypeOK
<1>8. PhaseInv'
  BY <1>1, <1>2, <1>4, <1>5, <1>6 DEF IInv, PhaseInv, SubmitPcs, ProcessPcs, StopPcs, StopState, Chan
<1>9. /\ QueueInv' /\ BitmapInv' /\ CpuInv' /\ CountInv'
      /\ \A c \in Chan : /\ Live(c) = fifo[c] /\ Live(c)' = fifo[c]
                         /\ ChainInv(c)' /\ ChainInv(c)
  BY <1>1, <1>4, <1>5, ControlFrame
<1>11. ASSUME NEW e \in Chan, e # p PROVE ChanOK(e)'
  BY <1>1, <1>2, <1>4, <1>5, <1>6, <1>9, <1>11, OtherChannel
<1>12. ChanOK(p)'
  <2>1. Len(Live(p)) = 0 /\ Live(p)' = Live(p)
    BY <1>3, <1>9, ThisHead
  <2>2. RestInv(p)'
    BY <2>1 DEF RestInv
  <2>3. SUFFICES ASSUME Tame(p) PROVE LiveInv(p, 0)'
    BY <1>1, <1>9, <2>1, <2>2 DEF ChanOK, Tame
  <2>4. PICK k \in 0..Len(Live(p)) : LiveInv(p, k) /\ k \in Nat /\ k <= Len(Live(p)) /\ ~td[p]
    BY <1>1, <2>3, ThisChannel
  <2>5. hdp[p] = Nil /\ hw[p].busy = Nil /\ hw[p].next = Nil
    BY <1>5, <2>4 DEF LiveInv, EngineInv
  <2>6. OwnerInv(p, 0)' /\ EoqInv(p, 0)'
    BY <2>1 DEF OwnerInv, EoqInv
  <2>7. EngineInv(p, 0)' /\ RunInv(p, 0)'
    BY <1>1, <1>6, <2>5 DEF EngineInv, RunInv
  <2>8. StopInv(p, 0)'
    BY <1>1, <2>4 DEF StopInv
  <2> QED
    BY <2>6, <2>7, <2>8 DEF LiveInv
<1> QED
  BY <1>7, <1>8, <1>9, <1>11, <1>12 DEF IInv, ChanInv

(* The transmit channel starts again after a timeout; it is empty.         *)
LEMMA ChanStartStep ==
  ASSUME IInv, cpdma_chan_start
  PROVE  IInv'
<1>1. /\ cpu.pc = "stopped" /\ cpu.job = "timeout" /\ cpu.ch = "tx"
      /\ ctlr = "active" /\ state["rx"] = "active" /\ state["tx"] = "idle"
  BY DEF cpdma_chan_start, At, IInv, PhaseInv, SubmitPcs, ProcessPcs, StopPcs, StopState
<1> DEFINE p == "tx"
<1>2. p \in Chan
  BY DEF Chan
<1>3. Len(Live(p)) = 0
  BY <1>1, <1>2 DEF IInv, ChanInv, ChanOK, RestInv
<1>4. head[p] = Nil
  BY <1>2, <1>3, ThisHead
<1>5. /\ state' = [state EXCEPT ![p] = "active"] /\ cpu' = Call("none", "idle", "tx")
      /\ UNCHANGED <<ctlr, head, tail, bitmap, desc, hdp, hw, hwcp, irq, td, history>>
  BY <1>1, <1>4 DEF cpdma_chan_start, Idle, Call
<1>6. CpuTypeOK' /\ cpu'.job = "none" /\ cpu'.pc = "idle"
  BY <1>5, CallFacts DEF Jobs, PCs, Chan
<1>7. state'[p] = "active" /\ \A e \in Chan : e # p => state'[e] = state[e]
  BY <1>2, <1>5 DEF IInv, TypeOK
<1>8. TypeOK'
  BY <1>2, <1>5, <1>6 DEF IInv, TypeOK, CpuTypeOK
<1>9. PhaseInv'
  BY <1>1, <1>5, <1>6, <1>7 DEF PhaseInv, Chan
<1>10. /\ QueueInv' /\ BitmapInv' /\ CpuInv' /\ CountInv'
       /\ \A c \in Chan : /\ Live(c) = fifo[c] /\ Live(c)' = fifo[c]
                          /\ ChainInv(c)' /\ ChainInv(c)
  BY <1>1, <1>5, <1>6, ControlFrame
<1>12. ASSUME NEW e \in Chan, e # p PROVE ChanOK(e)'
  BY <1>1, <1>2, <1>5, <1>6, <1>7, <1>10, <1>12, OtherChannel
<1>13. ChanOK(p)'
  <2>1. Live(p)' = Live(p)
    BY <1>2, <1>10
  <2>2. RestInv(p)'
    BY <1>7 DEF RestInv
  <2>3. SUFFICES ASSUME Tame(p) PROVE LiveInv(p, 0)'
    BY <1>2, <1>3, <1>5, <1>10, <2>1, <2>2 DEF ChanOK, Tame
  <2>4. PICK k \in 0..Len(Live(p)) : LiveInv(p, k) /\ k \in Nat /\ k <= Len(Live(p)) /\ ~td[p]
    BY <1>1, <1>2, <2>3, ThisChannel
  <2>5. hdp[p] = Nil /\ hw[p].busy = Nil /\ hw[p].next = Nil
    BY <1>1, <2>4 DEF LiveInv, EngineInv
  <2>6. OwnerInv(p, 0)' /\ EoqInv(p, 0)'
    BY <1>3, <2>1 DEF OwnerInv, EoqInv
  <2>7. EngineInv(p, 0)'
    BY <1>5, <2>5 DEF EngineInv
  <2>8. RunInv(p, 0)'
    BY <1>3, <2>1 DEF RunInv
  <2>9. StopInv(p, 0)'
    BY <1>5, <2>4 DEF StopInv
  <2> QED
    BY <2>6, <2>7, <2>8, <2>9 DEF LiveInv
<1> QED
  BY <1>8, <1>9, <1>10, <1>12, <1>13 DEF IInv, ChanInv

(* A stopped channel gives back what is left, completed or not.            *)
LEMMA StopRestStep ==
  ASSUME IInv, stop_rest
  PROVE  IInv'
<1>1. /\ cpu.pc = "rest" /\ cpu.ch \in Chan /\ CpuTypeOK
      /\ UNCHANGED <<ctlr, state, tail, bitmap, desc, hdp, hw, hwcp, irq, td, history>>
  BY CpuType DEF stop_rest, At, IInv, TypeOK, hardware
<1>2. PICK p \in Chan : p = cpu.ch
  BY <1>1
<1>3. /\ head[p] # Nil /\ head' = [head EXCEPT ![p] = desc[head[p]].next]
      /\ cpu' = [cpu EXCEPT !.pc = "rest_free", !.desc = head[p]]
  BY <1>2 DEF stop_rest
<1>4. head[p] \in Desc \cup {Nil}
  BY DEF IInv, TypeOK
<1>5. /\ CpuTypeOK' /\ cpu'.pc = "rest_free" /\ cpu'.ch = p /\ cpu'.job = cpu.job
      /\ cpu'.used = cpu.used /\ cpu'.desc = head[p]
  BY <1>1, <1>2, <1>3, <1>4 DEF CpuTypeOK, PCs
<1>6. cpu.job \in {"close", "timeout"} /\ (cpu.job = "timeout" => p = "tx") /\ state[p] = "teardown"
  BY <1>1, <1>2 DEF IInv, PhaseInv, SubmitPcs, ProcessPcs, StopPcs, StopState
<1> DEFINE q == fifo[p]
           n == Len(q)
           r == Live(p)'
<1>7. /\ QueueInv' /\ BitmapInv' /\ CountInv' /\ CpuInv' /\ ChainInv(p)'
      /\ head' \in [Chan -> Desc \cup {Nil}]
      /\ \A e \in Chan : e # p => head'[e] = head[e] /\ Live(e)' = Live(e)
      /\ Live(p) = q /\ n \in Nat /\ n > 0
      /\ Len(r) = n - 1
      /\ \A i \in 1..(n - 1) : r[i] = q[i + 1] /\ i + 1 \in 1..n
  BY <1>1, <1>2, <1>3, <1>5, TakeHead
<1>10. TypeOK'
  BY <1>1, <1>5, <1>7 DEF IInv, TypeOK, CpuTypeOK
<1>11. PhaseInv'
  BY <1>1, <1>2, <1>5, <1>6 DEF IInv, PhaseInv, SubmitPcs, ProcessPcs, StopPcs, StopState
<1>13. ASSUME NEW e \in Chan, e # p PROVE ChanOK(e)'
  BY <1>1, <1>2, <1>5, <1>6, <1>7, <1>13, OtherChannel
<1> HIDE DEF q, n, r
<1>8. RestInv(p)'
  BY <1>1, <1>6 DEF RestInv
<1>16. ASSUME Tame(p), NEW k \in 0..n, NEW m \in 0..(n - 1), m = (IF k = 0 THEN 0 ELSE k - 1),
              LiveInv(p, k), ~td[p]
       PROVE  LiveInv(p, m)'
  <2>a. n \in Nat /\ n > 0 /\ k \in Nat /\ k <= n
    BY <1>7
  <2>b. /\ m \in Nat /\ m <= n - 1 /\ m \in 0..(n - 1)
        /\ m > 0 => k > 1 /\ m = k - 1 /\ m \in 1..(n - 1) /\ m + 1 = k
        /\ \A i \in Nat : i > 0 => (i > m <=> i + 1 > k)
    BY <1>16, <2>a
  <2>c. hdp[p] = Nil /\ hw[p].busy = Nil /\ hw[p].next = Nil
    BY <1>6, <1>16 DEF LiveInv, EngineInv
  <2>1. /\ \A i \in 1..n : /\ desc[q[i]].owner <=> i > k
                           /\ desc[q[i]].td => i <= k
        /\ \A i \in 1..k : desc[q[i]].eoq => i = k
        /\ (k = n /\ k > 0) => desc[q[k]].eoq
    BY <1>7, <1>16 DEF LiveInv, OwnerInv, EoqInv, n
  <2>2. OwnerInv(p, m)'
    <3>1. ASSUME NEW i \in 1..(n - 1)
          PROVE  /\ desc[r[i]].owner <=> i > m
                 /\ desc[r[i]].td => i <= m
      <4>1. r[i] = q[i + 1] /\ i + 1 \in 1..n
        BY <1>7
      <4>2. (desc[q[i + 1]].owner <=> i + 1 > k) /\ (desc[q[i + 1]].td => i + 1 <= k)
        BY <2>1, <4>1
      <4>3. i \in Nat /\ i > 0
        OBVIOUS
      <4>4. (i > m <=> i + 1 > k) /\ (i + 1 <= k => i <= m)
        <5>1. i > m <=> i + 1 > k
          BY <2>b, <4>3
        <5> QED
          BY <2>a, <2>b, <4>3, <5>1
      <4> QED
        BY <4>1, <4>2, <4>4
    <3> QED
      BY <1>1, <1>6, <1>7, <3>1 DEF OwnerInv, r
  <2>3. m > 0 => r[m] = q[k]
    BY <1>7, <2>b
  <2>4. EngineInv(p, m)'
    BY <1>1, <2>c DEF EngineInv
  <2>5. EoqInv(p, m)'
    <3>1. ASSUME NEW i \in 1..m, desc[r[i]].eoq PROVE i = m
      <4>1. m > 0 /\ i \in 1..(n - 1) /\ i + 1 \in 1..k
        BY <2>a, <2>b
      <4>2. r[i] = q[i + 1]
        BY <1>7, <4>1
      <4>3. i + 1 = k
        BY <2>1, <3>1, <4>1, <4>2
      <4> QED
        BY <2>a, <2>b, <4>1, <4>3
    <3>2. (m = n - 1 /\ m > 0) => desc[r[m]].eoq
      <4>1. (m = n - 1 /\ m > 0) => k = n /\ k > 0
        BY <2>a, <2>b
      <4> QED
        BY <2>1, <2>3, <4>1
    <3> QED
      BY <1>1, <1>7, <2>c, <3>1, <3>2 DEF EoqInv, r
  <2>6. RunInv(p, m)'
    BY <1>1, <1>6 DEF RunInv
  <2>7. StopInv(p, m)'
    BY <1>1, <1>6, <1>16 DEF StopInv
  <2> QED
    BY <2>2, <2>4, <2>5, <2>6, <2>7 DEF LiveInv
<1>17. ChanOK(p)'
  <2>1. SUFFICES ASSUME Tame(p) PROVE \E m \in 0..(n - 1) : LiveInv(p, m)'
    BY <1>1, <1>7, <1>8 DEF ChanOK, Tame, r
  <2>2. PICK k \in 0..n : LiveInv(p, k) /\ ~td[p]
    BY <1>1, <1>7, <2>1, ThisChannel DEF n
  <2>3. (IF k = 0 THEN 0 ELSE k - 1) \in 0..(n - 1)
    BY <1>7, <2>2
  <2> QED
    BY <1>16, <2>1, <2>2, <2>3
<1> QED
  BY <1>7, <1>10, <1>11, <1>13, <1>17 DEF IInv, ChanInv

(***************************************************************************)
(* The invariant.                                                          *)
(***************************************************************************)

LEMMA InitStep == Init => IInv
<1> SUFFICES ASSUME Init PROVE IInv
  OBVIOUS
<1>1. /\ ctlr = "idle" /\ state = [c \in Chan |-> "idle"]
      /\ head = [c \in Chan |-> Nil] /\ tail = [c \in Chan |-> Nil] /\ bitmap = {}
      /\ desc = [d \in Desc |-> [next |-> Nil, owner |-> FALSE, eoq |-> FALSE, td |-> FALSE]]
      /\ hdp = [c \in Chan |-> Nil]
      /\ hw = [c \in Chan |-> [busy |-> Nil, next |-> Nil]]
      /\ hwcp = [c \in Chan |-> Nil]
      /\ irq = [c \in Chan |-> FALSE] /\ td = [c \in Chan |-> FALSE]
      /\ cpu = Call("none", "idle", "tx")
      /\ fifo = [c \in Chan |-> <<>>] /\ astray = [c \in Chan |-> "no"]
  BY DEF Init, Idle, Call
<1>2. CpuTypeOK /\ cpu.job = "none" /\ cpu.pc = "idle"
  BY <1>1, HalfFacts DEF Call, CpuTypeOK, Jobs, PCs, Chan
<1>3. <<>> \in Seq(Desc) /\ Len(<<>>) = 0
  BY EmptySeq
<1>4. TypeOK
  BY <1>1, <1>2, <1>3 DEF TypeOK, CpuTypeOK
<1>5. \A c \in Chan : fifo[c] = <<>> /\ Live(c) = <<>> /\ Len(fifo[c]) = 0 /\ Len(Live(c)) = 0
  BY <1>1, <1>2, <1>3 DEF Live, Held
<1>6. PhaseInv /\ CpuInv
  BY <1>1, <1>2 DEF PhaseInv, CpuInv, Held
<1>7. QueueInv
  BY <1>5 DEF QueueInv
<1>8. BitmapInv
  BY <1>1, <1>2, <1>5 DEF BitmapInv, InQueue, Chan
<1>9. CountInv
  BY <1>2, <1>5, HalfFacts DEF CountInv, Chan
<1>10. ASSUME NEW c \in Chan PROVE ChanOK(c)
  <2>1. ChainInv(c)
    BY <1>1, <1>5 DEF ChainInv
  <2>2. OwnerInv(c, 0) /\ EoqInv(c, 0)
    BY <1>5 DEF OwnerInv, EoqInv
  <2>3. EngineInv(c, 0) /\ RunInv(c, 0)
    BY <1>1, <1>5 DEF EngineInv, RunInv
  <2>4. StopInv(c, 0)
    BY <1>1 DEF StopInv
  <2>5. 0 \in 0..Len(Live(c))
    BY <1>5
  <2>6. RestInv(c)
    BY <1>5 DEF RestInv
  <2> QED
    BY <2>1, <2>2, <2>3, <2>4, <2>5, <2>6 DEF ChanOK, LiveInv
<1> QED
  BY <1>4, <1>6, <1>7, <1>8, <1>9, <1>10 DEF IInv, ChanInv

LEMMA StutterStep ==
  ASSUME IInv, UNCHANGED vars
  PROVE  IInv'
<1> USE DEF vars
<1>1. TypeOK' /\ PhaseInv' /\ QueueInv' /\ CountInv'
  BY DEF IInv, TypeOK, PhaseInv, StopState, QueueInv, CountInv
<1>2. \A c \in Chan : Live(c)' = Live(c)
  BY DEF Live, Held
<1>3. BitmapInv'
  BY DEF IInv, BitmapInv, InQueue
<1>4. CpuInv'
  BY DEF IInv, CpuInv, Live, Held, InQueue, Tame
<1>5. ASSUME NEW c \in Chan PROVE ChanOK(c)'
  <2>1. ChanOK(c) /\ Len(Live(c)) \in Nat
    BY LiveFacts DEF IInv, ChanInv
  <2>2. (td[c] /\ Tame(c)) => cpu.pc = "wait" /\ cpu.ch = c
    BY <2>1 DEF ChanOK, LiveInv, StopInv
  <2> QED
    BY <1>2, <2>1, <2>2, ChanFrame
<1> QED
  BY <1>1, <1>3, <1>4, <1>5 DEF IInv, ChanInv

(***************************************************************************)
(* Steps of an engine that no longer keeps to the queue.                   *)
(***************************************************************************)

LEMMA HalfType ==
  ASSUME HalfInv, NEW c \in Chan
  PROVE  /\ hdp[c] # Nil => hdp[c] \in Half(c) /\ hdp[c] \in Desc
         /\ hw[c].busy # Nil => hw[c].busy \in Half(c) /\ hw[c].busy \in Desc
BY HalfDesc DEF HalfInv

LEMMA WildStep ==
  ASSUME IInv, HalfInv, NEW c \in Chan, ~Tame(c),
         hw_fetch(c) \/ hw_complete(c) \/ hw_teardown(c)
  PROVE  IInv'
<1> DEFINE b == hw[c].busy
           h == hdp[c]
<1>1. UNCHANGED <<driver, cpu, history>> /\ ctlr # "idle"
  BY DEF hw_fetch, hw_complete, hw_teardown
<1>2. UNCHANGED <<ctlr, state, head, tail, bitmap>>
  BY <1>1 DEF driver
<1>3. /\ hdp \in [Chan -> Desc \cup {Nil}]
      /\ hw \in [Chan -> [busy : Desc \cup {Nil}, next : Desc \cup {Nil}]]
      /\ hwcp \in [Chan -> Desc \cup {Nil, TEARDOWN_VALUE}]
      /\ desc \in [Desc -> [next : Desc \cup {Nil}, owner : BOOLEAN, eoq : BOOLEAN, td : BOOLEAN]]
      /\ irq \in [Chan -> BOOLEAN] /\ td \in [Chan -> BOOLEAN]
  BY DEF IInv, TypeOK
<1>4. /\ hdp' \in [Chan -> Desc \cup {Nil}]
      /\ hw' \in [Chan -> [busy : Desc \cup {Nil}, next : Desc \cup {Nil}]]
      /\ hwcp' \in [Chan -> Desc \cup {Nil, TEARDOWN_VALUE}]
      /\ desc' \in [Desc -> [next : Desc \cup {Nil}, owner : BOOLEAN, eoq : BOOLEAN, td : BOOLEAN]]
      /\ \A d \in Desc : /\ desc'[d].next = desc[d].next
                         /\ d \notin Half(c) => desc'[d] = desc[d]
      /\ \A e \in Chan : e # c => hdp'[e] = hdp[e] /\ hw'[e] = hw[e] /\ hwcp'[e] = hwcp[e]
  <2>1. CASE hw_fetch(c)
    <3>1. h \in Desc /\ desc[h].next \in Desc \cup {Nil}
      BY <1>3, <2>1, HalfType DEF hw_fetch
    <3>2. /\ hw' = [hw EXCEPT ![c] = [busy |-> h, next |-> desc[h].next]]
          /\ hdp' = [hdp EXCEPT ![c] = desc[h].next]
          /\ UNCHANGED <<desc, hwcp>>
      BY <2>1 DEF hw_fetch
    <3> QED
      BY <1>3, <3>1, <3>2
  <2>2. CASE hw_complete(c)
    <3>1. b \in Desc /\ b \in Half(c) /\ b # Nil
      BY <2>2, HalfType DEF hw_complete
    <3>2. PICK y \in BOOLEAN : y = (hw[c].next = Nil)
      OBVIOUS
    <3>3. desc' = [desc EXCEPT ![b].owner = FALSE, ![b].eoq = y]
      BY <2>2, <3>2 DEF hw_complete
    <3>4. /\ hw' = [hw EXCEPT ![c] = [busy |-> Nil, next |-> Nil]] /\ UNCHANGED hdp
          /\ hwcp' = [hwcp EXCEPT ![c] = b]
      BY <2>2 DEF hw_complete
    <3> HIDE DEF b
    <3>5. /\ desc' \in [Desc -> [next : Desc \cup {Nil}, owner : BOOLEAN, eoq : BOOLEAN, td : BOOLEAN]]
          /\ \A d \in Desc : /\ desc'[d].next = desc[d].next
                             /\ d # b => desc'[d] = desc[d]
      BY <1>3, <3>1, <3>3
    <3> QED
      BY <1>3, <3>1, <3>4, <3>5
  <2>3. CASE hw_teardown(c)
    <3>1. /\ UNCHANGED hw /\ hdp' = [hdp EXCEPT ![c] = Nil]
          /\ hwcp' = [hwcp EXCEPT ![c] = TEARDOWN_VALUE]
          /\ \/ desc' = desc
             \/ /\ h # Nil
                /\ desc' = [desc EXCEPT ![h].owner = FALSE, ![h].eoq = TRUE, ![h].td = TRUE]
      BY <2>3 DEF hw_teardown
    <3>2. h # Nil => h \in Desc /\ h \in Half(c)
      BY HalfType
    <3> HIDE DEF h
    <3>3. /\ desc' \in [Desc -> [next : Desc \cup {Nil}, owner : BOOLEAN, eoq : BOOLEAN, td : BOOLEAN]]
          /\ \A d \in Desc : /\ desc'[d].next = desc[d].next
                             /\ d \notin Half(c) => desc'[d] = desc[d]
      <4>1. CASE desc' = desc
        BY <1>3, <4>1
      <4>2. CASE h # Nil /\ desc' = [desc EXCEPT ![h].owner = FALSE, ![h].eoq = TRUE, ![h].td = TRUE]
        BY <1>3, <3>2, <4>2, ZenonT(30)
      <4> QED
        BY <3>1, <4>1, <4>2
    <3> QED
      BY <1>3, <3>1, <3>3
  <2> QED
    BY <2>1, <2>2, <2>3
<1>5. /\ irq' \in [Chan -> BOOLEAN] /\ td' \in [Chan -> BOOLEAN]
      /\ \A e \in Chan : e # c => irq'[e] = irq[e] /\ td'[e] = td[e]
  <2>1. /\ irq' = irq \/ irq' = [irq EXCEPT ![c] = TRUE]
        /\ td' = td \/ td' = [td EXCEPT ![c] = FALSE]
    BY DEF hw_fetch, hw_complete, hw_teardown
  <2> QED
    BY <1>3, <2>1
<1>6. TypeOK'
  BY <1>1, <1>2, <1>4, <1>5 DEF IInv, TypeOK
<1>7. /\ PhaseInv' /\ QueueInv' /\ BitmapInv' /\ CountInv'
      /\ \A x \in Chan : Live(x)' = Live(x) /\ Tame(x)' = Tame(x)
  BY <1>1, EngineFrame
<1>8. CpuInv'
  <2> DEFINE p == cpu.ch
             q == Live(p)
  <2>1. /\ p \in Chan /\ q' = q /\ Held(p)' = Held(p) /\ Tame(p)' = Tame(p)
        /\ InQueue(p, cpu.desc)' = InQueue(p, cpu.desc)
    BY <1>1, <1>7 DEF IInv, TypeOK, Held, InQueue
  <2>2. cpu.job # "open"
    BY <1>1 DEF IInv, PhaseInv
  <2>3. cpu.pc \in {"dequeue", "misqueued", "chain"} => cpu.desc \in Half(p)
    <3>1. Len(q) \in Nat /\ \A i \in 1..Len(q) : q[i] \in Half(p)
      BY <2>1, LiveFacts
    <3>2. CASE cpu.pc = "dequeue"
      <4>1. Len(q) > 0 /\ cpu.desc = q[1]
        BY <3>2 DEF IInv, CpuInv
      <4> QED
        BY <3>1, <4>1
    <3>3. CASE cpu.pc = "misqueued"
      <4>1. Len(q) > 1 /\ cpu.desc = q[Len(q) - 1]
        BY <3>3 DEF IInv, CpuInv
      <4> QED
        BY <3>1, <4>1
    <3>4. CASE cpu.pc = "chain"
      BY <3>4 DEF IInv, CpuInv
    <3> QED
      BY <3>2, <3>3, <3>4
  <2>4. ASSUME cpu.pc \in {"dequeue", "misqueued", "chain"}, Tame(p)
        PROVE  desc'[cpu.desc] = desc[cpu.desc]
    <3>1. p # c /\ cpu.desc \in Half(p) /\ cpu.desc \in Desc
      BY <2>1, <2>3, <2>4, HalfDesc
    <3> QED
      BY <1>4, <2>1, <3>1, HalfDesc
  <2>5. cpu.pc = "chain" => desc'[cpu.desc].next = desc[cpu.desc].next
    BY <1>4, <2>1, <2>3, HalfDesc
  <2>6. CASE cpu.pc = "dequeue"
    BY <1>1, <2>1, <2>4, <2>6 DEF IInv, CpuInv
  <2>7. CASE cpu.pc = "misqueued"
    BY <1>1, <2>1, <2>4, <2>7 DEF IInv, CpuInv
  <2>8. CASE cpu.pc = "chain"
    BY <1>1, <2>1, <2>2, <2>4, <2>5, <2>8 DEF IInv, CpuInv, Half
  <2>9. CASE cpu.pc \notin {"dequeue", "misqueued", "chain"}
    BY <1>1, <2>1, <2>9 DEF IInv, CpuInv
  <2> QED
    BY <2>6, <2>7, <2>8, <2>9
<1>9. ASSUME NEW e \in Chan, e # c PROVE ChanOK(e)'
  BY <1>1, <1>4, <1>5, <1>9, EngineOther
<1>10. ChanOK(c)'
  <2>1. ChainInv(c)'
    <3>1. \A i \in 1..Len(Live(c)) : desc'[Live(c)[i]].next = desc[Live(c)[i]].next
      BY <1>4, LiveFacts
    <3> QED
      BY <1>2, <1>7, <3>1 DEF IInv, ChanInv, ChanOK, ChainInv
  <2>2. RestInv(c)'
    BY <1>1, EngineRest
  <2> QED
    BY <1>7, <2>1, <2>2 DEF ChanOK
<1> QED
  BY <1>6, <1>7, <1>8, <1>9, <1>10 DEF IInv, ChanInv

(***************************************************************************)
(* The engine stays in the half.                                           *)
(***************************************************************************)

LEMMA HalfKept ==
  ASSUME HalfInv, NEW c \in Chan,
         \A e \in Chan :
           /\ e # c => /\ hdp'[e] = hdp[e] /\ hw'[e] = hw[e]
                       /\ \A d \in Half(e) : desc'[d].next = desc[d].next
           /\ e = c => /\ hdp'[e] \in Half(e) \cup {Nil, hdp[e]}
                       /\ hw'[e].busy \in Half(e) \cup {Nil, hw[e].busy}
                       /\ hw'[e].next \in Half(e) \cup {Nil, hw[e].next}
                       /\ \A d \in Half(e) : desc'[d].next \in Half(e) \cup {Nil, desc[d].next}
  PROVE  HalfInv'
<1> SUFFICES ASSUME NEW e \in Chan
             PROVE  /\ hdp'[e] \in Half(e) \cup {Nil}
                    /\ hw'[e].busy \in Half(e) \cup {Nil} /\ hw'[e].next \in Half(e) \cup {Nil}
                    /\ \A d \in Half(e) : desc'[d].next \in Half(e) \cup {Nil}
  BY DEF HalfInv, Half
<1>1. CASE e # c
  BY <1>1 DEF HalfInv
<1>2. CASE e = c
  BY <1>2 DEF HalfInv
<1> QED
  BY <1>1, <1>2

(* Head and tail of the list are in the half.                              *)
LEMMA ListHalf ==
  ASSUME IInv, NEW c \in Chan
  PROVE  /\ head[c] \in Half(c) \cup {Nil}
         /\ head[c] # Nil => tail[c] \in Half(c)
         /\ Len(Live(c)) > 0 => tail[c] \in Half(c)
<1>1. Len(Live(c)) \in Nat /\ \A i \in 1..Len(Live(c)) : Live(c)[i] \in Half(c)
  BY LiveFacts
<1>2. Len(Live(c)) > 0 => 1 \in 1..Len(Live(c)) /\ Len(Live(c)) \in 1..Len(Live(c))
  BY <1>1
<1>3. ChainInv(c)
  BY DEF IInv, ChanInv, ChanOK
<1> QED
  BY <1>1, <1>2, <1>3 DEF ChainInv

LEMMA HalfSubmission ==
  ASSUME IInv, HalfInv, Submission
  PROVE  HalfInv'
<1>0. cpu.ch \in Chan /\ desc \in [Desc -> [next : Desc \cup {Nil}, owner : BOOLEAN,
                                           eoq : BOOLEAN, td : BOOLEAN]]
      /\ hdp \in [Chan -> Desc \cup {Nil}]
  BY DEF IInv, TypeOK
<1>h. \A e \in Chan : \A d \in Half(e) : d \in Desc
  BY HalfDesc
<1>1. CASE cpdma_chan_submit
  <2>1. UNCHANGED <<hdp, hw>>
    BY <1>1 DEF cpdma_chan_submit, hardware
  <2>2. \A d \in Desc : desc'[d].next \in {Nil, desc[d].next}
    <3>1. \/ desc' = desc
          \/ \E j : desc' = [desc EXCEPT ![j] = [next |-> Nil, owner |-> TRUE, eoq |-> FALSE, td |-> FALSE]]
      BY <1>1 DEF cpdma_chan_submit
    <3> QED
      BY <1>0, <3>1
  <2> QED
    BY <1>h, <2>1, <2>2 DEF HalfInv, Half
<1>2. CASE submit_head
  <2>1. cpu.desc \in Half(cpu.ch)
    BY <1>2 DEF submit_head, At, IInv, CpuInv
  <2>2. UNCHANGED <<hw, desc>> /\ (hdp' = hdp \/ hdp' = [hdp EXCEPT ![cpu.ch] = cpu.desc])
    BY <1>2 DEF submit_head
  <2> QED
    BY <1>0, <2>1, <2>2, HalfKept
<1>3. CASE submit_tail
  <2>1. cpu.desc \in Half(cpu.ch) /\ tail[cpu.ch] \in Half(cpu.ch)
    BY <1>0, <1>3, ListHalf DEF submit_tail, At, IInv, CpuInv
  <2>2. UNCHANGED <<hw, hdp>> /\ desc' = [desc EXCEPT ![tail[cpu.ch]].next = cpu.desc]
    BY <1>3 DEF submit_tail, hardware
  <2>3. \A d \in Desc : desc'[d].next = IF d = tail[cpu.ch] THEN cpu.desc ELSE desc[d].next
    BY <1>0, <2>2
  <2>4. \A e \in Chan : e # cpu.ch => \A d \in Half(e) : d \in Desc /\ d # tail[cpu.ch]
    BY <1>0, <2>1, HalfDesc
  <2> QED
    BY <1>0, <1>h, <2>1, <2>2, <2>3, <2>4, HalfKept
<1>4. CASE check_eoq
  BY <1>4 DEF check_eoq, hardware, HalfInv, Half
<1>5. CASE misqueued
  <2>1. tail[cpu.ch] \in Half(cpu.ch)
    BY <1>0, <1>5, ListHalf, LiveFacts DEF misqueued, At, IInv, CpuInv
  <2>2. /\ UNCHANGED hw /\ hdp' = [hdp EXCEPT ![cpu.ch] = tail[cpu.ch]]
        /\ desc' = [desc EXCEPT ![cpu.desc].eoq = FALSE]
    BY <1>5 DEF misqueued
  <2>3. \A d \in Desc : desc'[d].next = desc[d].next
    BY <1>0, <2>2
  <2> QED
    BY <1>0, <1>h, <2>1, <2>2, <2>3, HalfKept
<1> QED
  BY <1>1, <1>2, <1>3, <1>4, <1>5 DEF Submission

LEMMA HalfDriver ==
  ASSUME IInv, HalfInv, Completion \/ Control \/ Calls \/ cpsw_poll \/ UNCHANGED vars
  PROVE  HalfInv'
<1>0. cpu.ch \in Chan /\ hdp \in [Chan -> Desc \cup {Nil}]
  BY DEF IInv, TypeOK
<1>1. CASE dequeue
  <2>1. cpu.desc \in Half(cpu.ch)
    <3>1. Len(Live(cpu.ch)) > 0 /\ cpu.desc = Live(cpu.ch)[1]
      BY <1>1 DEF dequeue, At, IInv, CpuInv
    <3> QED
      BY <1>0, <3>1, LiveFacts, SMTT(20)
  <2>2. desc[cpu.desc].next \in Half(cpu.ch) \cup {Nil}
    BY <1>0, <2>1 DEF HalfInv
  <2>3. UNCHANGED <<hw, desc>> /\ (hdp' = hdp \/ hdp' = [hdp EXCEPT ![cpu.ch] = desc[cpu.desc].next])
    BY <1>1 DEF dequeue
  <2> QED
    BY <1>0, <2>2, <2>3, HalfKept
<1>2. CASE cpdma_ctlr_start
  <2>1. /\ hdp' = head /\ hw' = [c \in Chan |-> [busy |-> Nil, next |-> Nil]] /\ UNCHANGED desc
    BY <1>2 DEF cpdma_ctlr_start
  <2>2. \A c \in Chan : head[c] \in Half(c) \cup {Nil}
    BY ListHalf
  <2> QED
    BY <2>1, <2>2 DEF HalfInv, Half
<1>3. CASE cpdma_chan_start
  <2>1. UNCHANGED <<hw, desc>> /\ (hdp' = hdp \/ hdp' = [hdp EXCEPT ![cpu.ch] = head[cpu.ch]])
    BY <1>3 DEF cpdma_chan_start
  <2>2. head[cpu.ch] \in Half(cpu.ch) \cup {Nil}
    BY <1>0, ListHalf
  <2> QED
    BY <1>0, <2>1, <2>2, HalfKept
<1>4. CASE UNCHANGED <<hdp, hw, desc>>
  BY <1>4 DEF HalfInv, Half
<1>5. CASE Completion
  <2>1. dequeue \/ UNCHANGED <<hdp, hw, desc>>
    BY <1>5 DEF Completion, process_head, cpdma_chan_free, FreeDesc, handler_drops,
       rx_handler_resubmits, process_loop, poll_next, hardware
  <2> QED
    BY <1>1, <1>4, <2>1
<1>6. CASE Control
  <2>1. cpdma_ctlr_start \/ cpdma_chan_start \/ UNCHANGED <<hdp, hw, desc>>
    BY <1>6 DEF Control, open_fill, cpdma_chan_stop, stop_wait, stop_rest, stop_rest_free,
       FreeDesc, stop_done, ctlr_stop_next, hardware
  <2> QED
    BY <1>2, <1>3, <1>4, <2>1
<1>7. CASE Calls \/ cpsw_poll \/ UNCHANGED vars
  <2>1. UNCHANGED <<hdp, hw, desc>>
    BY <1>7 DEF Calls, cpsw_ndo_open, cpsw_ndo_start_xmit, cpsw_ndo_stop, cpsw_ndo_tx_timeout,
       cpsw_poll, vars, hardware
  <2> QED
    BY <1>4, <2>1
<1> QED
  BY <1>5, <1>6, <1>7

LEMMA HalfEngine ==
  ASSUME IInv, HalfInv, NEW c \in Chan, Engine(c)
  PROVE  HalfInv'
<1>0. /\ hdp \in [Chan -> Desc \cup {Nil}]
      /\ hw \in [Chan -> [busy : Desc \cup {Nil}, next : Desc \cup {Nil}]]
      /\ desc \in [Desc -> [next : Desc \cup {Nil}, owner : BOOLEAN, eoq : BOOLEAN, td : BOOLEAN]]
  BY DEF IInv, TypeOK
<1>h. \A e \in Chan : \A d \in Half(e) : d \in Desc
  BY HalfDesc
<1>1. CASE hw_fetch(c)
  <2>1. hdp[c] \in Half(c) /\ desc[hdp[c]].next \in Half(c) \cup {Nil}
    BY <1>1 DEF hw_fetch, HalfInv
  <2>2. /\ hw' = [hw EXCEPT ![c] = [busy |-> hdp[c], next |-> desc[hdp[c]].next]]
        /\ hdp' = [hdp EXCEPT ![c] = desc[hdp[c]].next] /\ UNCHANGED desc
    BY <1>1 DEF hw_fetch
  <2> QED
    BY <1>0, <2>1, <2>2, HalfKept
<1>2. CASE hw_complete(c)
  <2>1. /\ hw' = [hw EXCEPT ![c] = [busy |-> Nil, next |-> Nil]] /\ UNCHANGED hdp
        /\ desc' = [desc EXCEPT ![hw[c].busy].owner = FALSE, ![hw[c].busy].eoq = (hw[c].next = Nil)]
    BY <1>2 DEF hw_complete
  <2>2. \A d \in Desc : desc'[d].next = desc[d].next
    BY <1>0, <2>1
  <2> QED
    BY <1>0, <1>h, <2>1, <2>2, HalfKept
<1>3. CASE hw_teardown(c)
  <2>1. /\ UNCHANGED hw /\ hdp' = [hdp EXCEPT ![c] = Nil]
        /\ \/ desc' = desc
           \/ desc' = [desc EXCEPT ![hdp[c]].owner = FALSE, ![hdp[c]].eoq = TRUE, ![hdp[c]].td = TRUE]
    BY <1>3 DEF hw_teardown
  <2>2. \A d \in Desc : desc'[d].next = desc[d].next
    BY <1>0, <2>1
  <2> QED
    BY <1>0, <1>h, <2>1, <2>2, HalfKept
<1> QED
  BY <1>1, <1>2, <1>3 DEF Engine

LEMMA InvInit == Init => Inv
<1>1. Init => HalfInv
  BY HalfDesc DEF Init, HalfInv
<1> QED
  BY <1>1, InitStep DEF Inv

(* No step of the driver or of the engine breaks the invariant.            *)
LEMMA NextStep ==
  ASSUME Inv, [Next]_vars
  PROVE  Inv'
<1>0. IInv /\ HalfInv
  BY DEF Inv
<1>1. CASE Submission
  BY <1>0, <1>1, AllocStep, SubmitHeadStep, SubmitTailStep, CheckStep, MisqueuedStep, HalfSubmission
     DEF Submission, Inv
<1>2. CASE Completion
  BY <1>0, <1>2, ProcessHeadStep, DequeueStep, FreeStep, HandlerStep, LoopStep, HalfDriver
     DEF Completion, Inv
<1>3. CASE Control
  BY <1>0, <1>3, FillStep, CtlrStartStep, ChanStopStep, StopWaitStep, StopRestStep, FreeStep,
     StopDoneStep, StopNextStep, ChanStartStep, HalfDriver DEF Control, Inv
<1>4. CASE Calls
  BY <1>0, <1>4, OpenStep, PollStep, BeginStopStep, HalfDriver DEF Calls, Inv
<1>5. CASE cpsw_poll
  BY <1>0, <1>5, PollStep, HalfDriver DEF Inv
<1>6. ASSUME NEW c \in Chan, Engine(c) PROVE Inv'
  <2>1. IInv'
    <3>1. CASE Tame(c)
      BY <1>0, <1>6, <3>1, FetchStep, CompleteStep, TeardownStep DEF Engine
    <3>2. CASE ~Tame(c)
      BY <1>0, <1>6, <3>2, WildStep DEF Engine
    <3> QED
      BY <3>1, <3>2
  <2> QED
    BY <1>0, <1>6, <2>1, HalfEngine DEF Inv
<1>7. CASE UNCHANGED vars
  BY <1>0, <1>7, StutterStep, HalfDriver DEF Inv
<1> QED
  BY <1>1, <1>2, <1>3, <1>4, <1>5, <1>6, <1>7 DEF Next

(* The inductive invariant holds: the engine has completed a prefix of     *)
(* each queue, is at the descriptor behind it or told by an end-of-queue   *)
(* mark that it stopped, and queues, list pointers and bitmap agree at     *)
(* every step of submit, process and stop.  A stop that let the engine go  *)
(* astray loses hold of it, but not of the queue, and the engine stays in  *)
(* its half of the pool.                                                   *)
THEOREM CpdmaInvariant == Spec => []Inv
<1>1. Init => Inv
  BY InvInit
<1>2. Inv /\ [Next]_vars => Inv'
  BY NextStep
<1> QED
  BY <1>1, <1>2, PTL DEF Spec

(* cpdma_chan_process, cpsw_ndo_open: every variable keeps its type, a     *)
(* poll takes no more than its quota, and the open queues no more buffers  *)
(* than rx_descs.                                                          *)
THEOREM TypeCorrect == Spec => []TypeOK
<1>1. Inv => TypeOK
  BY DEF Inv, IInv
<1> QED
  BY <1>1, CpdmaInvariant, PTL

(* The descriptor the engine is at, or will take next, is in the queue.    *)
LEMMA DmaImplied == IInv => DmaOnQueuedBuffers
<1> SUFFICES ASSUME IInv, NEW c \in Chan, Tame(c)
             PROVE  /\ hdp[c] \in ToSet(fifo[c]) \cup {Nil}
                    /\ hw[c].busy \in ToSet(fifo[c]) \cup {Nil}
  BY DEF DmaOnQueuedBuffers
<1> DEFINE q == Live(c)
           n == Len(q)
<1>1. n \in Nat
  BY LiveFacts
<1>2. \A i \in 1..n : q[i] \in ToSet(fifo[c])
  <2> SUFFICES ASSUME NEW i \in 1..n PROVE q[i] \in ToSet(fifo[c])
    OBVIOUS
  <2>1. fifo[c] \in Seq(Desc) /\ Len(fifo[c]) \in Nat /\ DOMAIN fifo[c] = 1..Len(fifo[c])
    BY LiveFacts, LenProperties
  <2>2. CASE Held(c)
    <3>1. q = Tail(fifo[c]) /\ Len(fifo[c]) > 0
      BY <2>2, LiveFacts DEF IInv, CpuInv, Held
    <3>2. n = Len(fifo[c]) - 1 /\ q[i] = fifo[c][i + 1]
      BY <2>1, <3>1, TailFacts
    <3> HIDE DEF q, n
    <3>3. i + 1 \in 1..Len(fifo[c])
      BY <2>1, <3>2
    <3> QED
      BY <2>1, <3>2, <3>3 DEF ToSet
  <2>3. CASE ~Held(c)
    <3>1. q = fifo[c]
      BY <2>3, LiveFacts
    <3> QED
      BY <2>1, <3>1 DEF ToSet
  <2> QED
    BY <2>2, <2>3
<1>3. PICK k \in 0..n : EngineInv(c, k)
  BY DEF IInv, ChanInv, ChanOK, LiveInv
<1>4. /\ hw[c].busy = Nil => (hdp[c] # Nil => k < n /\ hdp[c] = q[k + 1])
      /\ hw[c].busy # Nil => /\ k < n /\ hw[c].busy = q[k + 1]
                             /\ hdp[c] # Nil => k + 1 < n /\ hdp[c] = q[k + 2]
  BY <1>3 DEF EngineInv
<1> HIDE DEF q, n
<1>5. (k < n => k + 1 \in 1..n) /\ (k + 1 < n => k + 2 \in 1..n)
  BY <1>1
<1> QED
  BY <1>2, <1>4, <1>5

(* cpdma_chan_stop, __cpdma_chan_process, __cpdma_chan_free: the engine is *)
(* never at a buffer that was given back, though it moves between any two  *)
(* accesses of the CPU to descriptors and registers and the interface goes *)
(* down at any time, unless a stop ended before the teardown was done or   *)
(* started the engine itself (Tame).                                       *)
THEOREM DmaCorrect == Spec => []DmaOnQueuedBuffers
<1>1. Inv => DmaOnQueuedBuffers
  BY DmaImplied DEF Inv
<1> QED
  BY <1>1, CpdmaInvariant, PTL

LEMMA IdleFacts ==
  ASSUME IInv, cpu.pc = "idle"
  PROVE  /\ cpu.job = "none" /\ \A c \in Chan : state[c] = ctlr
         /\ \A c \in Chan : /\ Live(c) = fifo[c] /\ fifo[c] \in Seq(Desc)
                            /\ Len(fifo[c]) \in Nat /\ (fifo[c] = <<>> <=> Len(fifo[c]) = 0)
                            /\ DOMAIN fifo[c] = 1..Len(fifo[c])
<1>1. cpu.job = "none" /\ \A c \in Chan : state[c] = ctlr
  BY DEF IInv, PhaseInv, SubmitPcs, ProcessPcs, StopPcs
<1>2. \A c \in Chan : Live(c) = fifo[c]
  BY DEF Live, Held
<1> QED
  BY <1>1, <1>2, LiveFacts, LenProperties, EmptySeq

LEMMA QueueImplied == IInv => QueueIntact
<1> SUFFICES ASSUME IInv, cpu.pc = "idle"
             PROVE  QueueIntact
  BY DEF QueueIntact, At
<1>1. ASSUME NEW c \in Chan
      PROVE  /\ head[c] = IF fifo[c] = <<>> THEN Nil ELSE fifo[c][1]
             /\ fifo[c] # <<>> => tail[c] = Last(fifo[c])
             /\ \A i \in 1..Len(fifo[c]) :
                  desc[fifo[c][i]].next = IF i = Len(fifo[c]) THEN Nil ELSE fifo[c][i + 1]
  <2>1. ChainInv(c)
    BY DEF IInv, ChanInv, ChanOK
  <2>2. fifo[c] # <<>> => Len(fifo[c]) > 0
    BY IdleFacts
  <2> QED
    BY <2>1, <2>2, IdleFacts DEF ChainInv, Last
<1>2. ASSUME NEW c \in Chan, NEW e \in Chan, NEW i \in Desc, NEW j \in Desc,
             i <= Len(fifo[c]), j <= Len(fifo[e]), fifo[c][i] = fifo[e][j]
      PROVE  c = e /\ i = j
  <2>1. i \in 1..Len(fifo[c]) /\ j \in 1..Len(fifo[e])
    BY <1>2, IdleFacts, HalfFacts DEF Desc
  <2>2. fifo[c][i] \in Half(c) /\ fifo[e][j] \in Half(e)
    BY <2>1 DEF IInv, QueueInv
  <2>3. c = e
    BY <1>2, <2>2, HalfDesc
  <2> QED
    BY <1>2, <2>1, <2>3 DEF IInv, QueueInv
<1>3. \A c \in Chan : ToSet(fifo[c]) = {d \in Desc : InQueue(c, d)}
  <2> SUFFICES ASSUME NEW c \in Chan PROVE ToSet(fifo[c]) = {d \in Desc : InQueue(c, d)}
    OBVIOUS
  <2>1. DOMAIN fifo[c] = 1..Len(fifo[c]) /\ \A i \in 1..Len(fifo[c]) : fifo[c][i] \in Desc
    BY IdleFacts, HalfDesc DEF IInv, QueueInv
  <2> QED
    BY <2>1 DEF ToSet, InQueue
<1>4. bitmap = {d - 1 : d \in UNION {ToSet(fifo[c]) : c \in Chan}}
  <2>1. UNION {ToSet(fifo[c]) : c \in Chan} = {d \in Desc : InQueue("tx", d) \/ InQueue("rx", d)}
    BY <1>3 DEF Chan
  <2>2. \A d \in Desc : (d - 1 \in bitmap) <=> (InQueue("tx", d) \/ InQueue("rx", d))
    BY DEF IInv, BitmapInv
  <2>3. \A b \in bitmap : b + 1 \in Desc /\ (b + 1) - 1 = b
    BY HalfFacts DEF IInv, TypeOK, Desc
  <2>4. ASSUME NEW b \in bitmap PROVE \E d \in Desc : (InQueue("tx", d) \/ InQueue("rx", d)) /\ b = d - 1
    BY <2>2, <2>3
  <2>5. ASSUME NEW d \in Desc, InQueue("tx", d) \/ InQueue("rx", d) PROVE d - 1 \in bitmap
    BY <2>2, <2>5
  <2> QED
    BY <2>1, <2>4, <2>5
<1>5. ctlr = "idle" => bitmap = {}
  <2> SUFFICES ASSUME ctlr = "idle", NEW b \in bitmap PROVE FALSE
    OBVIOUS
  <2>1. \A c \in Chan : Len(fifo[c]) = 0
    BY IdleFacts DEF IInv, ChanInv, ChanOK, RestInv
  <2>2. \A c \in Chan, d \in Desc : ~InQueue(c, d)
    BY <2>1 DEF InQueue
  <2>3. b + 1 \in Desc /\ (b + 1) - 1 = b
    BY HalfFacts DEF IInv, TypeOK, Desc
  <2> QED
    BY <2>2, <2>3 DEF IInv, BitmapInv, Chan
<1> QED
  BY <1>1, <1>2, <1>4, <1>5 DEF QueueIntact

(* cpdma_desc_alloc, __cpdma_chan_submit, __cpdma_chan_process: between    *)
(* calls the list in descriptor memory is the queue of what was submitted  *)
(* and not given back, no descriptor is queued twice, the bitmap is that   *)
(* of the queued ones, and none is lost when the interface goes down.      *)
THEOREM QueueCorrect == Spec => []QueueIntact
<1>1. Inv => QueueIntact
  BY QueueImplied DEF Inv
<1> QED
  BY <1>1, CpdmaInvariant, PTL

LEMMA StallImplied == IInv => NoStalledQueue
<1> SUFFICES ASSUME IInv, NEW c \in Chan, cpu.pc = "idle", Tame(c), state[c] = "active",
                    fifo[c] # <<>>
             PROVE  hdp[c] # Nil \/ hw[c].busy # Nil \/ irq[c]
  BY DEF NoStalledQueue, At
<1>1. Live(c) = fifo[c] /\ Len(fifo[c]) \in Nat /\ Len(fifo[c]) # 0
  BY IdleFacts
<1>2. PICK k \in 0..Len(fifo[c]) : RunInv(c, k)
  BY <1>1 DEF IInv, ChanInv, ChanOK, LiveInv
<1>3. /\ k < Len(fifo[c]) => hdp[c] # Nil \/ hw[c].busy # Nil \/ k > 0
      /\ k > 0 => irq[c]
  BY <1>1, <1>2 DEF RunInv
<1> QED
  BY <1>1, <1>3

(* __cpdma_chan_submit, __cpdma_chan_process: whatever the order of the    *)
(* engine's end of queue and the submitter's chaining, a running channel   *)
(* with packets is worked on or interrupts.                                *)
THEOREM StallCorrect == Spec => []NoStalledQueue
<1>1. Inv => NoStalledQueue
  BY StallImplied DEF Inv
<1> QED
  BY <1>1, CpdmaInvariant, PTL

=============================================================================
