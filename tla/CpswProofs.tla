----------------------------- MODULE CpswProofs -----------------------------
(***************************************************************************)
(* Proofs about Cpsw, for any ring sizes and any poll budget.              *)
(***************************************************************************)
EXTENDS Cpsw, FiniteSetTheorems, SequenceTheorems, TLAPS

(* The task is in the middle of opening or of stopping device n.           *)
OpenPcs == {"open", "slave", "start", "enable"}
StopPcs == {"stop", "napi_disable", "halt", "detach"}
Opening(n) == task.n = n /\ task.pc \in OpenPcs
Stopping(n) == task.n = n /\ task.pc \in StopPcs

(* Which operation can be at which point.                                  *)
TaskInv == /\ task.op \in {"none", "suspended"} <=> task.pc = "idle"
           /\ task.op = "none" => task = Idle
           /\ task.pc \in OpenPcs => task.op \in {"open", "resume"}
           /\ task.pc = "open" => task.op = "resume"
           /\ task.pc \in StopPcs => task.op \in {"close", "suspend"}
           /\ task.pc = "stop" => task.op = "suspend"

(* What open_stat and NAPI say of a device: they agree but between         *)
(* napi_disable and the end of cpsw_ndo_stop.                              *)
OpenInv == \A n \in Slave :
  /\ Opening(n) => ~open_stat[n]
  /\ Stopping(n) => open_stat[n]
  /\ napi[n] # "off" <=> open_stat[n] /\ ~(task.n = n /\ task.pc \in {"halt", "detach"})

(* And what the network stack says of it.  A system suspend closes devices *)
(* that stay running, the first one first, and opens them the same way.    *)
RunInv ==
  /\ task.op \in {"open", "close"} \/ task = Idle =>
       \A n \in Slave : n # task.n \/ task = Idle => (dev[n].running <=> open_stat[n])
  /\ task.op = "open" => dev[task.n].running
  /\ task.op = "close" => ~dev[task.n].running
  /\ task.op \in {"suspend", "resume"} => dev[task.n].running
  /\ task.op = "suspend" => /\ task.n = 0 => (dev[1].running <=> open_stat[1])
                            /\ task.n = 1 => ~open_stat[0]
  /\ task.op = "resume" => /\ task.n = 0 => ~open_stat[1]
                           /\ task.n = 1 => (dev[0].running <=> open_stat[0])
  /\ task.op = "suspended" => /\ \A n \in Slave : ~open_stat[n]
                              /\ \E n \in Slave : dev[n].running

(* The DMA has been started for an open device that has not yet given it   *)
(* up.                                                                     *)
Started == \/ task.pc = "enable"
           \/ \E n \in Slave : open_stat[n] /\ ~(task.n = n /\ task.pc = "detach")

(* A started DMA runs with the interrupts enabled or about to be; one that *)
(* is not started has no receive buffers, but for those the first open     *)
(* sets up.                                                                *)
DmaInv == /\ Started => /\ dma.state = "active"
                        /\ line.enabled \/ lost \/ \E n \in Slave : napi[n] = "sched"
          /\ ~Started /\ task.pc # "start" => dma.rx = 0 /\ dma.rxdone = <<>>

(* Only a queue with packets is run.                                       *)
SchedInv == \A n \in Slave : dev[n].sched => dev[n].backlog > 0

(* The lines are never disabled twice.                                     *)
DepthInv == line.depth <= 1

IInv == /\ TypeOK /\ TaskInv /\ OpenInv /\ RunInv
        /\ DmaInv /\ SchedInv /\ IrqBalanced /\ DepthInv

-----------------------------------------------------------------------------

(* How many of the two devices are in a set.                               *)
One(P) == IF P THEN 1 ELSE 0

LEMMA TwoCount ==
  ASSUME NEW S \in SUBSET Slave
  PROVE  Cardinality(S) = One(0 \in S) + One(1 \in S)
<1>1. S = {} \/ S = {0} \/ S = {1} \/ S = {0} \cup {1}
  BY DEF Slave
<1>2. /\ IsFiniteSet({0}) /\ Cardinality({0}) = 1 /\ Cardinality({1}) = 1
      /\ Cardinality({}) = 0
  BY FS_Singleton, FS_EmptySet
<1>3. Cardinality({0} \cup {1}) = 2
  <2>1. 1 \notin {0}
    OBVIOUS
  <2> QED
    BY <1>2, <2>1, FS_AddElement
<1> QED
  BY <1>1, <1>2, <1>3 DEF One

(* The two counts of the driver.                                           *)
LEMMA Counts ==
  ASSUME TypeOK
  PROVE  /\ usage_state = One(open_stat[0]) + One(open_stat[1])
         /\ IrqBalanced <=> line.depth = One(napi[0] = "sched") + One(napi[1] = "sched")
                                          + One(lost)
<1>1. usage_state = One(open_stat[0]) + One(open_stat[1])
  BY TwoCount DEF usage_state, Slave, One
<1>2. Cardinality({n \in Slave : napi[n] = "sched"})
        = One(napi[0] = "sched") + One(napi[1] = "sched")
  BY TwoCount DEF Slave, One
<1> QED
  BY <1>1, <1>2 DEF IrqBalanced, One

LEMMA CpswInit == Init => IInv
<1> SUFFICES ASSUME Init PROVE IInv
  OBVIOUS
<1>1. TypeOK
  <2>1. /\ <<>> \in Seq(Slave) /\ Len(<<>>) = 0 /\ 0 \in Slave
        /\ RxDescs \in Nat /\ TxDescs \in Nat /\ MaxBacklog \in Nat
    BY CpswAssumption DEF Slave
  <2>2. dev \in [Slave -> Device]
    BY <2>1 DEF Init, Device
  <2>4. dma = [state |-> "idle", tx |-> <<>>, txdone |-> 0, rx |-> 0, rxdone |-> <<>>]
    BY DEF Init
  <2>3. dma \in [state : {"idle", "active"}, tx : Seq(Slave), txdone : Nat,
                rx : Nat, rxdone : Seq(Slave)]
    BY <2>4
  <2>5. /\ Len(dma.tx) <= TxDescs /\ dma.txdone <= Len(dma.tx)
        /\ dma.rx + Len(dma.rxdone) <= RxDescs
    BY <2>1, <2>4
  <2>6. task \in [op : {"none", "open", "close", "suspend", "suspended", "resume"},
                 n : Slave,
                 pc : {"idle", "open", "slave", "start", "enable",
                       "stop", "napi_disable", "halt", "detach"}]
    BY <2>1 DEF Init, Idle
  <2> QED
    BY <2>2, <2>3, <2>5, <2>6 DEF Init, TypeOK
<1>2. TaskInv /\ OpenInv /\ RunInv
  BY DEF Init, TaskInv, OpenInv, RunInv, OpenPcs, StopPcs, Opening, Stopping, Idle, Slave
<1>3. DmaInv /\ SchedInv /\ DepthInv
  BY DEF Init, DmaInv, SchedInv, DepthInv, Started, Idle, Slave
<1>4. IrqBalanced
  BY <1>1, Counts DEF Init, One, Slave
<1> QED
  BY <1>1, <1>2, <1>3, <1>4 DEF IInv

(* The steps that leave alone who is open and running.                     *)
Quiet(n) == \/ dev_queue_xmit(n) \/ qdisc_run_ends(n) \/ cpsw_ndo_start_xmit(n)
            \/ dev_watchdog(n) \/ cpsw_ndo_tx_timeout(n)
            \/ link_up(n) \/ link_down(n) \/ linkwatch_do_dev(n) \/ cpsw_poll(n)
            \/ cpsw_interrupt \/ hw_transmit \/ hw_receive(n)

SameOpen == /\ UNCHANGED <<open_stat, task>>
            /\ \A n \in Slave : /\ dev'[n].running = dev[n].running
                                /\ napi'[n] = "off" <=> napi[n] = "off"

LEMMA QuietSame ==
  ASSUME TypeOK, NEW n \in Slave, Quiet(n)
  PROVE  SameOpen
<1> USE DEF TypeOK, Device
<1>1. CASE dev_queue_xmit(n)
  BY <1>1 DEF SameOpen, dev_queue_xmit
<1>2. CASE cpsw_ndo_tx_timeout(n)
  BY <1>2 DEF SameOpen, cpsw_ndo_tx_timeout, tx_handler
<1>3. CASE cpsw_poll(n)
  BY <1>3 DEF SameOpen, cpsw_poll, tx_handler
<1>4. CASE cpsw_interrupt
  BY <1>4 DEF SameOpen, cpsw_interrupt
<1>5. CASE qdisc_run_ends(n)
  BY <1>5 DEF SameOpen, qdisc_run_ends
<1>6. CASE cpsw_ndo_start_xmit(n)
  <2>1. \/ dev' = [dev EXCEPT ![n].backlog = @ - 1, ![n].sched = dev[n].backlog > 1]
        \/ dev' = [dev EXCEPT ![n].stopped = TRUE]
    BY <1>6 DEF cpsw_ndo_start_xmit
  <2>2. \A m \in Slave : dev'[m].running = dev[m].running
    <3>1. CASE dev' = [dev EXCEPT ![n].backlog = @ - 1, ![n].sched = dev[n].backlog > 1]
      BY <3>1
    <3>2. CASE dev' = [dev EXCEPT ![n].stopped = TRUE]
      BY <3>2
    <3> QED
      BY <2>1, <3>1, <3>2
  <2> QED
    BY <1>6, <2>2 DEF SameOpen, cpsw_ndo_start_xmit
<1>7. CASE dev_watchdog(n)
  BY <1>7 DEF SameOpen, dev_watchdog
<1>8. CASE link_up(n)
  BY <1>8 DEF SameOpen, link_up
<1>9. CASE link_down(n)
  BY <1>9 DEF SameOpen, link_down
<1>10. CASE linkwatch_do_dev(n)
  BY <1>10 DEF SameOpen, linkwatch_do_dev
<1>11. CASE hw_transmit
  BY <1>11 DEF SameOpen, hw_transmit
<1>12. CASE hw_receive(n)
  BY <1>12 DEF SameOpen, hw_receive
<1> QED
  BY <1>1, <1>2, <1>3, <1>4, <1>5, <1>6, <1>7, <1>8, <1>9, <1>10, <1>11, <1>12 DEF Quiet

(* The operations go through their points in order, and a device is open,  *)
(* polled and running as TaskInv, OpenInv and RunInv say.                  *)
Sequencing == TaskInv /\ OpenInv /\ RunInv

LEMMA QuietSequencing ==
  ASSUME TypeOK, Sequencing, SameOpen
  PROVE  Sequencing'
<1>1. TaskInv'
  BY DEF Sequencing, SameOpen, TaskInv, Idle
<1>2. OpenInv'
  BY DEF Sequencing, SameOpen, OpenInv, Opening, Stopping
<1>3. task' = task /\ open_stat' = open_stat /\ \A n \in Slave : dev'[n].running = dev[n].running
  BY DEF SameOpen
<1>4. RunInv'
  BY <1>3 DEF Sequencing, TaskInv, RunInv, Idle, Slave, TypeOK
<1> QED
  BY <1>1, <1>2, <1>4 DEF Sequencing

(* A step inside an open or a stop.                                        *)
Inner(k, l) == /\ task.pc = k /\ Step(l) /\ UNCHANGED <<open_stat, napi>>
               /\ \A n \in Slave : dev'[n].running <=> dev[n].running

LEMMA InnerSequencing ==
  ASSUME TypeOK, Sequencing,
         \/ Inner("open", "slave") \/ Inner("slave", "start") \/ Inner("start", "enable")
         \/ Inner("stop", "napi_disable") \/ Inner("halt", "detach")
  PROVE  Sequencing'
<1>0. ASSUME NEW k, NEW l, Inner(k, l)
      PROVE  task.pc = k /\ task'.pc = l /\ task' = [op |-> task.op, n |-> task.n, pc |-> task'.pc]
  BY <1>0 DEF Inner, Step, TypeOK
<1>1. /\ task' = [op |-> task.op, n |-> task.n, pc |-> task'.pc]
      /\ \/ task.pc = "open" /\ task'.pc = "slave"
         \/ task.pc = "slave" /\ task'.pc = "start"
         \/ task.pc = "start" /\ task'.pc = "enable"
         \/ task.pc = "stop" /\ task'.pc = "napi_disable"
         \/ task.pc = "halt" /\ task'.pc = "detach"
  BY <1>0
<1>2. TaskInv'
  BY <1>1 DEF Sequencing, TaskInv, Idle, OpenPcs, StopPcs
<1>3. UNCHANGED <<open_stat, napi>> /\ \A n \in Slave : dev'[n].running <=> dev[n].running
  BY DEF Inner
<1>4. OpenInv'
  BY <1>1, <1>3 DEF Sequencing, OpenInv, Opening, Stopping, OpenPcs, StopPcs
<1>5. RunInv'
  BY <1>1, <1>3 DEF Sequencing, TaskInv, RunInv, Idle, Slave, TypeOK
<1> QED
  BY <1>2, <1>4, <1>5 DEF Sequencing

(* A step that ends with the device closed or opened.                      *)
LEMMA FinishSequencing ==
  ASSUME TypeOK, Sequencing,
         open_enable \/ stop_detach
  PROVE  Sequencing'
<1> DEFINE up == task.pc = "enable"
<1>1. /\ open_stat' = [open_stat EXCEPT ![task.n] = up]
      /\ napi' = IF up THEN [napi EXCEPT ![task.n] = "idle"] ELSE napi
      /\ task.pc \in {"enable", "detach"}
      /\ Finish(IF up THEN "open" ELSE "stop")
  BY DEF open_enable, stop_detach
<1>2. \A n \in Slave : dev'[n].running = dev[n].running
  <2>1. CASE open_enable
    BY <2>1 DEF open_enable, TypeOK, Device
  <2>2. CASE stop_detach
    BY <2>2 DEF stop_detach, TypeOK, Device
  <2> QED
    BY <2>1, <2>2
<1>3. task.op = IF up THEN (IF task.op = "open" THEN "open" ELSE "resume")
                      ELSE (IF task.op = "close" THEN "close" ELSE "suspend")
  BY <1>1 DEF Sequencing, TaskInv, OpenPcs, StopPcs
<1>4. CASE task.op \in {"suspend", "resume"} /\ task.n = 0 /\ dev[1].running
  <2>1. task' = [op |-> task.op, n |-> 1, pc |-> IF up THEN "open" ELSE "stop"]
    BY <1>1, <1>4 DEF Finish, TypeOK
  <2>2. TaskInv'
    BY <1>1, <1>3, <1>4, <2>1 DEF TaskInv, OpenPcs, StopPcs
  <2>3. OpenInv'
    BY <1>1, <1>3, <1>4, <2>1, ZenonT(30)
       DEF Sequencing, RunInv, OpenInv, Opening, Stopping, OpenPcs, StopPcs, TypeOK, Slave
  <2>4. RunInv'
    BY <1>1, <1>2, <1>3, <1>4, <2>1 DEF Sequencing, RunInv, TypeOK, Slave, Idle
  <2> QED
    BY <2>2, <2>3, <2>4 DEF Sequencing
<1>5. CASE ~(task.op \in {"suspend", "resume"} /\ task.n = 0 /\ dev[1].running)
  <2>1. task' = [op |-> IF task.op = "suspend" THEN "suspended" ELSE "none", n |-> 0, pc |-> "idle"]
    BY <1>1, <1>5 DEF Finish, Idle
  <2>2. TaskInv'
    BY <2>1 DEF TaskInv, OpenPcs, StopPcs, Idle
  <2>3. OpenInv'
    BY <1>1, <1>3, <1>5, <2>1
       DEF Sequencing, RunInv, OpenInv, Opening, Stopping, OpenPcs, StopPcs, TypeOK, Slave
  <2>4. RunInv'
    BY <1>1, <1>2, <1>3, <1>5, <2>1, ZenonT(30) DEF Sequencing, RunInv, TypeOK, Slave, Idle
  <2> QED
    BY <2>2, <2>3, <2>4 DEF Sequencing
<1> QED
  BY <1>4, <1>5

LEMMA SequencingStep ==
  ASSUME TypeOK, Sequencing, Next
  PROVE  Sequencing'
<1> USE DEF TypeOK
<1>1. ASSUME NEW n \in Slave, dev_open(n) PROVE Sequencing'
  <2>1. /\ task = Idle /\ ~dev[n].running
        /\ task' = [op |-> "open", n |-> n, pc |-> "slave"]
        /\ UNCHANGED <<open_stat, napi>>
    BY <1>1 DEF dev_open
  <2>5. \A m \in Slave : dev'[m].running <=> m = n \/ dev[m].running
    BY <1>1 DEF dev_open, ndo_open, Device
  <2>2. TaskInv'
    BY <2>1 DEF TaskInv, Idle, OpenPcs, StopPcs
  <2>3. OpenInv'
    BY <2>1 DEF Sequencing, RunInv, OpenInv, Opening, Stopping, Idle, OpenPcs, StopPcs
  <2>4. RunInv'
    BY <2>1, <2>5 DEF Sequencing, RunInv, Idle, Slave
  <2> QED
    BY <2>2, <2>3, <2>4 DEF Sequencing
<1>2. ASSUME NEW n \in Slave, dev_close(n) PROVE Sequencing'
  <2>1. /\ task = Idle /\ dev[n].running
        /\ task' = [op |-> "close", n |-> n, pc |-> "napi_disable"]
        /\ UNCHANGED <<open_stat, napi>>
    BY <1>2 DEF dev_close
  <2>5. \A m \in Slave : dev'[m].running <=> m # n /\ dev[m].running
    BY <1>2 DEF dev_close, Device
  <2>2. TaskInv'
    BY <2>1 DEF TaskInv, Idle, OpenPcs, StopPcs
  <2>3. OpenInv'
    BY <2>1 DEF Sequencing, RunInv, OpenInv, Opening, Stopping, Idle, OpenPcs, StopPcs
  <2>4. RunInv'
    BY <2>1, <2>5 DEF Sequencing, RunInv, Idle, Slave
  <2> QED
    BY <2>2, <2>3, <2>4 DEF Sequencing
<1>3. CASE stop_napi
  <2>1. /\ task.pc = "napi_disable"
        /\ task' = [op |-> task.op, n |-> task.n, pc |-> "halt"]
        /\ napi' = [napi EXCEPT ![task.n] = "off"] /\ UNCHANGED open_stat
    BY <1>3 DEF stop_napi, Step
  <2>5. \A m \in Slave : dev'[m].running <=> dev[m].running
    BY <1>3 DEF stop_napi, Device
  <2>2. TaskInv'
    BY <2>1 DEF Sequencing, TaskInv, Idle, OpenPcs, StopPcs
  <2>3. OpenInv'
    BY <2>1 DEF Sequencing, OpenInv, Opening, Stopping, OpenPcs, StopPcs
  <2>4. RunInv'
    BY <2>1, <2>5 DEF Sequencing, TaskInv, RunInv, Idle, Slave
  <2> QED
    BY <2>2, <2>3, <2>4 DEF Sequencing
<1>4. CASE cpsw_suspend \/ cpsw_resume
  <2>1. /\ UNCHANGED <<dev, open_stat, napi>>
        /\ \/ /\ task = Idle /\ task' = [op |-> "suspend", n |-> FirstRunning, pc |-> "stop"]
              /\ \E n \in Slave : dev[n].running
           \/ /\ task.op = "suspended"
              /\ task' = [op |-> "resume", n |-> FirstRunning, pc |-> "open"]
    BY <1>4 DEF cpsw_suspend, cpsw_resume
  <2>2. /\ FirstRunning \in Slave /\ dev[FirstRunning].running
        /\ FirstRunning = 1 => ~dev[0].running
    BY <2>1 DEF FirstRunning, Slave, Sequencing, RunInv
  <2>3. TaskInv'
    BY <2>1 DEF TaskInv, Idle, OpenPcs, StopPcs
  <2>4. OpenInv'
    BY <2>1, <2>2
       DEF Sequencing, TaskInv, RunInv, OpenInv, Opening, Stopping, Idle, OpenPcs, StopPcs
  <2>5. RunInv'
    BY <2>1, <2>2 DEF Sequencing, RunInv, Idle, Slave
  <2> QED
    BY <2>3, <2>4, <2>5 DEF Sequencing
<1>5. CASE resume_open
  <2>1. dev[task.n].running
    BY <1>5 DEF resume_open, Sequencing, TaskInv, RunInv
  <2>2. \A n \in Slave : dev'[n].running <=> n = task.n \/ dev[n].running
    BY <1>5 DEF resume_open, ndo_open, Device
  <2>3. Inner("open", "slave")
    BY <1>5, <2>1, <2>2 DEF resume_open, Inner
  <2> QED
    BY <2>3, InnerSequencing
<1>6. CASE open_slave
  <2>1. \A n \in Slave : dev'[n].running <=> dev[n].running
    BY <1>6 DEF open_slave, PortOpened, FillRx, Device
  <2>2. Inner("slave", "start")
    BY <1>6, <2>1 DEF open_slave, PortOpened, FillRx, Inner
  <2> QED
    BY <2>2, InnerSequencing
<1>7. CASE open_start
  <2>1. \A n \in Slave : dev'[n].running <=> dev[n].running
    BY <1>7 DEF open_start, Device
  <2>2. Inner("start", "enable")
    BY <1>7, <2>1 DEF open_start, Inner
  <2> QED
    BY <2>2, InnerSequencing
<1>8. CASE suspend_stop
  <2>1. \A n \in Slave : dev'[n].running <=> dev[n].running
    BY <1>8 DEF suspend_stop, Device
  <2>2. Inner("stop", "napi_disable")
    BY <1>8, <2>1 DEF suspend_stop, Inner
  <2> QED
    BY <2>2, InnerSequencing
<1>9. CASE stop_halt
  <2>0. dev' = dev \/ dev' = tx_handler(ToSet(dma.tx), dev)
    BY <1>9 DEF stop_halt
  <2>1. \A n \in Slave : dev'[n].running <=> dev[n].running
    <3>1. \A D : \A n \in Slave : tx_handler(D, dev)[n].running <=> dev[n].running
      BY DEF tx_handler, Device
    <3> QED
      BY <2>0, <3>1
  <2>2. Inner("halt", "detach")
    BY <1>9, <2>1 DEF stop_halt, Inner
  <2> QED
    BY <2>2, InnerSequencing
<1>10. CASE open_enable \/ stop_detach
  BY <1>10, FinishSequencing
<1>11. ASSUME NEW n \in Slave, Quiet(n) PROVE Sequencing'
  BY <1>11, QuietSame, QuietSequencing
<1> QED
  BY <1>1, <1>2, <1>3, <1>4, <1>5, <1>6, <1>7, <1>8, <1>9, <1>10, <1>11
     DEF Next, TaskStep, Quiet, Slave

LEMMA MaxPositive == MaxBacklog \in Nat /\ MaxBacklog > 0
BY CpswAssumption

(* What the completion handlers return.                                    *)
LEMMA TxHandler ==
  ASSUME TypeOK, NEW D
  PROVE  /\ tx_handler(D, dev) \in [Slave -> Device]
         /\ \A n \in Slave : /\ tx_handler(D, dev)[n].sched = dev[n].sched
                             /\ tx_handler(D, dev)[n].backlog = dev[n].backlog
<1>1. dev \in [Slave -> Device]
  BY DEF TypeOK
<1>2. tx_handler(D, dev) \in [Slave -> Device]
  BY <1>1 DEF tx_handler, Device
<1>3. \A n \in Slave : /\ tx_handler(D, dev)[n].sched = dev[n].sched
                       /\ tx_handler(D, dev)[n].backlog = dev[n].backlog
  BY <1>1 DEF tx_handler, Device
<1> QED
  BY <1>2, <1>3

LEMMA RxHandler ==
  ASSUME NEW ports \in Seq(Slave), NEW k \in rx_handler(ports)
  PROVE  k \in Nat /\ k <= Len(ports)
<1> DEFINE R == {i \in DOMAIN ports : Resubmits(ports[i])}
<1>1. Len(ports) \in Nat /\ R \in SUBSET (1..Len(ports))
  OBVIOUS
<1>2. IsFiniteSet(1..Len(ports)) /\ Cardinality(1..Len(ports)) = Len(ports)
  <2>1. 1 \in Int /\ Len(ports) \in Int /\ (Len(ports) = 0 \/ Len(ports) >= 1)
    BY <1>1
  <2>2. /\ IsFiniteSet(1..Len(ports))
        /\ Cardinality(1..Len(ports)) = IF 1 > Len(ports) THEN 0 ELSE Len(ports) - 1 + 1
    BY <2>1, FS_Interval
  <2> QED
    BY <1>1, <2>1, <2>2
<1>3. IsFiniteSet(R) /\ Cardinality(R) <= Len(ports)
  <2> HIDE DEF R
  <2> QED
    BY <1>1, <1>2, FS_Subset
<1>4. Cardinality(R) \in Nat
  BY <1>3, FS_CardinalityType
<1> QED
  BY <1>1, <1>3, <1>4 DEF rx_handler

LEMMA DevTypeStep ==
  ASSUME TypeOK, SchedInv, Next
  PROVE  dev' \in [Slave -> Device]
<1> USE DEF Device
<1>0. dev \in [Slave -> Device] /\ MaxBacklog \in Nat /\ MaxBacklog > 0 /\ task.n \in Slave
  BY MaxPositive DEF TypeOK
<1>1. ASSUME NEW n \in Slave, dev_queue_xmit(n) PROVE dev' \in [Slave -> Device]
  <2>1. dev' = [dev EXCEPT ![n].backlog = @ + 1, ![n].sched = TRUE] /\ dev[n].backlog < MaxBacklog
    BY <1>1 DEF dev_queue_xmit
  <2>3. n \in Slave /\ dev[n] \in Device /\ dev[n].backlog + 1 \in 0..MaxBacklog
    BY <1>0, <2>1
  <2>4. dev'[n] \in Device
    BY <1>0, <2>1, <2>3
  <2>2. \A m \in Slave : dev'[m] \in Device
    BY <1>0, <2>1, <2>4
  <2> QED
    BY <1>0, <2>1, <2>2
<1>2. ASSUME NEW n \in Slave, qdisc_run_ends(n) PROVE dev' \in [Slave -> Device]
  BY <1>0, <1>2 DEF qdisc_run_ends
<1>3. ASSUME NEW n \in Slave, cpsw_ndo_start_xmit(n) PROVE dev' \in [Slave -> Device]
  <2>1. CASE dev' = [dev EXCEPT ![n].backlog = @ - 1, ![n].sched = dev[n].backlog > 1]
    BY <1>0, <1>3, <2>1, SMTT(30) DEF SchedInv, cpsw_ndo_start_xmit
  <2>2. CASE dev' = [dev EXCEPT ![n].stopped = TRUE]
    BY <1>0, <2>2
  <2> QED
    BY <1>3, <2>1, <2>2 DEF cpsw_ndo_start_xmit
<1>4. ASSUME NEW n \in Slave, dev_watchdog(n) PROVE dev' \in [Slave -> Device]
  BY <1>0, <1>4 DEF dev_watchdog
<1>5. ASSUME NEW n \in Slave, cpsw_ndo_tx_timeout(n) PROVE dev' \in [Slave -> Device]
  <2>1. PICK D : dev' = [tx_handler(D, dev) EXCEPT ![n].sched = @ \/ (n \in D /\ dev[n].backlog > 0)]
    BY <1>5 DEF cpsw_ndo_tx_timeout
  <2>2. tx_handler(D, dev) \in [Slave -> Device]
    BY TxHandler
  <2>3. (tx_handler(D, dev)[n].sched \/ (n \in D /\ dev[n].backlog > 0)) \in BOOLEAN
    OBVIOUS
  <2>4. \A m \in Slave : dev'[m] \in Device
    BY <2>1, <2>2, <2>3
  <2> QED
    BY <2>1, <2>2, <2>4
<1>6. ASSUME NEW n \in Slave, link_up(n) PROVE dev' \in [Slave -> Device]
  <2>1. dev' = [dev EXCEPT ![n].carrier = TRUE, ![n].port = TRUE,
                        ![n].stopped = @ /\ ~dev[n].running,
                        ![n].sched = @ \/ (dev[n].running /\ dev[n].stopped
                                            /\ dev[n].backlog > 0)]
    BY <1>6 DEF link_up
  <2>2. \A m \in Slave : dev'[m] \in Device
    BY <1>0, <2>1, ZenonT(30)
  <2> QED
    BY <1>0, <2>1, <2>2
<1>7. ASSUME NEW n \in Slave, link_down(n) PROVE dev' \in [Slave -> Device]
  <2>1. dev' = [dev EXCEPT ![n].carrier = FALSE, ![n].port = FALSE, ![n].stopped = TRUE]
    BY <1>7 DEF link_down
  <2>2. \A m \in Slave : dev'[m] \in Device
    BY <1>0, <2>1
  <2> QED
    BY <1>0, <2>1, <2>2
<1>8. ASSUME NEW n \in Slave, linkwatch_do_dev(n) PROVE dev' \in [Slave -> Device]
  <2>1. dev' = [dev EXCEPT ![n].active = dev[n].carrier,
                        ![n].backlog = 0, ![n].sched = FALSE]
    BY <1>8 DEF linkwatch_do_dev
  <2>3. n \in Slave /\ dev[n] \in Device /\ 0 \in 0..MaxBacklog
    BY <1>0, <2>1
  <2>4. dev'[n] \in Device
    BY <1>0, <2>1, <2>3
  <2>2. \A m \in Slave : dev'[m] \in Device
    BY <1>0, <2>1, <2>4
  <2> QED
    BY <1>0, <2>1, <2>2
<1>9. ASSUME NEW n \in Slave, cpsw_poll(n) PROVE dev' \in [Slave -> Device]
  <2>1. dev' = dev \/ \E D : dev' = tx_handler(D, dev)
    BY <1>9 DEF cpsw_poll
  <2> QED
    BY <1>0, <2>1, TxHandler
<1>10. ASSUME NEW n \in Slave, dev_open(n) PROVE dev' \in [Slave -> Device]
  BY <1>0, <1>10, ZenonT(30) DEF dev_open, ndo_open
<1>11. ASSUME NEW n \in Slave, dev_close(n) PROVE dev' \in [Slave -> Device]
  <2>1. dev' = [dev EXCEPT ![n].running = FALSE, ![n].active = FALSE,
                        ![n].backlog = 0, ![n].sched = FALSE, ![n].stopped = TRUE]
    BY <1>11 DEF dev_close
  <2>3. n \in Slave /\ dev[n] \in Device /\ 0 \in 0..MaxBacklog
    BY <1>0, <2>1
  <2>4. dev'[n] \in Device
    BY <1>0, <2>1, <2>3
  <2>2. \A m \in Slave : dev'[m] \in Device
    BY <1>0, <2>1, <2>4
  <2> QED
    BY <1>0, <2>1, <2>2
<1>12. CASE resume_open
  BY <1>0, <1>12, ZenonT(30) DEF resume_open, ndo_open
<1>13. CASE open_slave
  BY <1>0, <1>13, ZenonT(30) DEF open_slave, PortOpened, FillRx
<1>14. CASE open_enable
  BY <1>0, <1>14 DEF open_enable
<1>15. CASE suspend_stop
  BY <1>0, <1>15 DEF suspend_stop
<1>16. CASE stop_napi
  BY <1>0, <1>16 DEF stop_napi
<1>17. CASE stop_halt
  <2>1. dev' = dev \/ \E D : dev' = tx_handler(D, dev)
    BY <1>17 DEF stop_halt
  <2> QED
    BY <1>0, <2>1, TxHandler
<1>18. CASE stop_detach
  BY <1>0, <1>18 DEF stop_detach
<1>19. CASE UNCHANGED dev
  BY <1>0, <1>19
<1> QED
  BY <1>1, <1>2, <1>3, <1>4, <1>5, <1>6, <1>7, <1>8, <1>9, <1>10, <1>11,
     <1>12, <1>13, <1>14, <1>15, <1>16, <1>17, <1>18, <1>19
     DEF Next, TaskStep, open_start, cpsw_resume, cpsw_suspend, cpsw_interrupt, hw_transmit,
         hw_receive

LEMMA SchedStep ==
  ASSUME TypeOK, SchedInv, Next
  PROVE  SchedInv'
<1> USE DEF SchedInv, Device
<1>0. dev \in [Slave -> Device]
  BY DEF TypeOK
<1>1. ASSUME NEW n \in Slave, dev_queue_xmit(n) PROVE SchedInv'
  BY <1>0, <1>1 DEF dev_queue_xmit
<1>2. ASSUME NEW n \in Slave, qdisc_run_ends(n) PROVE SchedInv'
  BY <1>0, <1>2 DEF qdisc_run_ends
<1>3. ASSUME NEW n \in Slave, cpsw_ndo_start_xmit(n) PROVE SchedInv'
  <2>1. CASE dev' = [dev EXCEPT ![n].backlog = @ - 1, ![n].sched = dev[n].backlog > 1]
    BY <1>0, <1>3, <2>1 DEF cpsw_ndo_start_xmit
  <2>2. CASE dev' = [dev EXCEPT ![n].stopped = TRUE]
    BY <1>0, <2>2
  <2> QED
    BY <1>3, <2>1, <2>2 DEF cpsw_ndo_start_xmit
<1>4. ASSUME NEW n \in Slave, dev_watchdog(n) PROVE SchedInv'
  BY <1>0, <1>4 DEF dev_watchdog
<1>5. ASSUME NEW n \in Slave, cpsw_ndo_tx_timeout(n) PROVE SchedInv'
  <2>1. PICK D : dev' = [tx_handler(D, dev) EXCEPT ![n].sched = @ \/ (n \in D /\ dev[n].backlog > 0)]
    BY <1>5 DEF cpsw_ndo_tx_timeout
  <2> QED
    BY <2>1, TxHandler
<1>6. ASSUME NEW n \in Slave, link_up(n) PROVE SchedInv'
  BY <1>0, <1>6 DEF link_up
<1>7. ASSUME NEW n \in Slave, link_down(n) PROVE SchedInv'
  BY <1>0, <1>7 DEF link_down
<1>8. ASSUME NEW n \in Slave, linkwatch_do_dev(n) PROVE SchedInv'
  BY <1>0, <1>8 DEF linkwatch_do_dev
<1>9. ASSUME NEW n \in Slave, cpsw_poll(n) PROVE SchedInv'
  <2>1. dev' = dev \/ \E D : dev' = tx_handler(D, dev)
    BY <1>9 DEF cpsw_poll
  <2> QED
    BY <1>0, <2>1, TxHandler
<1>10. ASSUME NEW n \in Slave, dev_open(n) PROVE SchedInv'
  BY <1>0, <1>10 DEF dev_open, ndo_open
<1>11. ASSUME NEW n \in Slave, dev_close(n) PROVE SchedInv'
  BY <1>0, <1>11 DEF dev_close
<1>12. CASE resume_open
  BY <1>0, <1>12 DEF resume_open, ndo_open
<1>13. CASE open_slave
  BY <1>0, <1>13 DEF open_slave, PortOpened, FillRx
<1>14. CASE open_enable
  BY <1>0, <1>14 DEF open_enable
<1>15. CASE suspend_stop
  BY <1>0, <1>15 DEF suspend_stop
<1>16. CASE stop_napi
  BY <1>0, <1>16 DEF stop_napi
<1>17. CASE stop_halt
  <2>1. dev' = dev \/ \E D : dev' = tx_handler(D, dev)
    BY <1>17 DEF stop_halt
  <2> QED
    BY <1>0, <2>1, TxHandler
<1>18. CASE stop_detach
  BY <1>0, <1>18 DEF stop_detach
<1>19. CASE UNCHANGED dev
  BY <1>0, <1>19
<1> QED
  BY <1>1, <1>2, <1>3, <1>4, <1>5, <1>6, <1>7, <1>8, <1>9, <1>10, <1>11,
     <1>12, <1>13, <1>14, <1>15, <1>16, <1>17, <1>18, <1>19
     DEF Next, TaskStep, open_start, cpsw_resume, cpsw_suspend, cpsw_interrupt, hw_transmit,
         hw_receive

(* The rings: their types, and that no more buffers are in them than were  *)
(* set up.                                                                 *)
DmaType == /\ dma \in [state : {"idle", "active"}, tx : Seq(Slave), txdone : Nat,
                       rx : Nat, rxdone : Seq(Slave)]
           /\ Len(dma.tx) <= TxDescs /\ dma.txdone <= Len(dma.tx)
           /\ dma.rx + Len(dma.rxdone) <= RxDescs

LEMMA RingSizes == TxDescs \in Nat /\ RxDescs \in Nat /\ RxDescs > 0 /\ Budget \in Nat /\ Budget > 0
BY CpswAssumption

LEMMA RingType ==
  ASSUME NEW st \in {"idle", "active"}, NEW tx \in Seq(Slave), NEW td \in Nat, NEW rx \in Nat,
         NEW rd \in Seq(Slave), Len(tx) <= TxDescs, td <= Len(tx), rx + Len(rd) <= RxDescs,
         dma' = [state |-> st, tx |-> tx, txdone |-> td, rx |-> rx, rxdone |-> rd]
  PROVE  DmaType'
<1>1. dma' \in [state : {"idle", "active"}, tx : Seq(Slave), txdone : Nat, rx : Nat,
               rxdone : Seq(Slave)]
  OBVIOUS
<1>2. dma'.tx = tx /\ dma'.txdone = td /\ dma'.rx = rx /\ dma'.rxdone = rd
  OBVIOUS
<1> QED
  BY <1>1, <1>2 DEF DmaType

(* A poll takes finished packets out of the rings and puts back at most as *)
(* many buffers as it took out.                                            *)
LEMMA PollDma ==
  ASSUME DmaType, NEW n \in Slave, cpsw_poll(n)
  PROVE  /\ DmaType'
         /\ dma'.state = dma.state
         /\ dma.rx = 0 /\ dma.rxdone = <<>> => dma'.rx = 0 /\ dma'.rxdone = <<>>
<1> DEFINE num_rx == IF Len(dma.rxdone) < Budget THEN Len(dma.rxdone) ELSE Budget
<1>0. /\ dma.tx \in Seq(Slave) /\ dma.rxdone \in Seq(Slave) /\ dma.txdone \in Nat /\ dma.rx \in Nat
      /\ Len(dma.tx) \in Nat /\ Len(dma.rxdone) \in Nat
      /\ Len(dma.tx) <= TxDescs /\ dma.txdone <= Len(dma.tx)
      /\ dma.rx + Len(dma.rxdone) <= RxDescs
  BY DEF DmaType
<1>1. num_rx \in Nat /\ num_rx <= Len(dma.rxdone)
  BY <1>0, RingSizes
<1>2. CASE dma.state # "active"
  <2>1. dma' = dma
    BY <1>2 DEF cpsw_poll
  <2> QED
    BY <2>1 DEF DmaType
<1>3. CASE dma.state = "active"
  <2> DEFINE taken == SubSeq(dma.rxdone, 1, num_rx)
             tx    == SubSeq(dma.tx, dma.txdone + 1, Len(dma.tx))
             left  == SubSeq(dma.rxdone, num_rx + 1, Len(dma.rxdone))
  <2>1. PICK k \in rx_handler(taken) :
          dma' = [dma EXCEPT !.tx = tx, !.txdone = 0, !.rx = @ + k, !.rxdone = left]
    BY <1>3 DEF cpsw_poll
  <2> HIDE DEF num_rx
  <2>2. taken \in Seq(Slave) /\ Len(taken) = num_rx
    BY <1>0, <1>1, SubSeqProperties
  <2>3. tx \in Seq(Slave) /\ Len(tx) = Len(dma.tx) - dma.txdone
    <3>1. /\ dma.txdone + 1 \in Int /\ Len(dma.tx) \in Int
          /\ \A i \in dma.txdone + 1 .. Len(dma.tx) : dma.tx[i] \in Slave
      BY <1>0
    <3>2. /\ tx \in Seq(Slave)
          /\ Len(tx) = IF dma.txdone + 1 <= Len(dma.tx) THEN Len(dma.tx) - (dma.txdone + 1) + 1 ELSE 0
      BY <3>1, SubSeqProperties
    <3> QED
      BY <1>0, <3>2
  <2>4. left \in Seq(Slave) /\ Len(left) = Len(dma.rxdone) - num_rx
    BY <1>0, <1>1, SubSeqProperties
  <2> HIDE DEF taken, tx, left
  <2>5. k \in Nat /\ k <= num_rx
    BY <2>1, <2>2, RxHandler
  <2>6. dma' = [state |-> "active", tx |-> tx, txdone |-> 0, rx |-> dma.rx + k, rxdone |-> left]
    BY <1>3, <2>1 DEF DmaType
  <2>7. DmaType'
    <3>1. Len(tx) <= TxDescs /\ 0 <= Len(tx)
      BY <1>0, <2>3, RingSizes
    <3>2. dma.rx + k \in Nat
      BY <1>0, <2>5
    <3>3. dma.rx + k + Len(left) <= RxDescs
      BY <1>0, <1>1, <2>4, <2>5, RingSizes
    <3> QED
      BY <2>3, <2>4, <2>6, <3>1, <3>2, <3>3, RingType
  <2>8. ASSUME dma.rx = 0, dma.rxdone = <<>> PROVE dma'.rx = 0 /\ dma'.rxdone = <<>>
    <3>1. Len(dma.rxdone) = 0
      BY <2>8
    <3>2. num_rx = 0 /\ k = 0 /\ Len(left) = 0
      BY <1>0, <1>1, <2>4, <2>5, <3>1
    <3> QED
      BY <2>4, <2>6, <2>8, <3>2, EmptySeq
  <2> QED
    BY <1>3, <2>6, <2>7, <2>8
<1> QED
  BY <1>2, <1>3

LEMMA DmaTypeStep ==
  ASSUME TypeOK, Sequencing, DmaInv, Next
  PROVE  DmaType'
<1>0. /\ DmaType
      /\ dma.tx \in Seq(Slave) /\ dma.rxdone \in Seq(Slave) /\ dma.txdone \in Nat /\ dma.rx \in Nat
      /\ Len(dma.tx) \in Nat /\ Len(dma.rxdone) \in Nat
      /\ Len(dma.tx) <= TxDescs /\ dma.txdone <= Len(dma.tx)
      /\ dma.rx + Len(dma.rxdone) <= RxDescs
      /\ dma = [state |-> dma.state, tx |-> dma.tx, txdone |-> dma.txdone, rx |-> dma.rx,
                rxdone |-> dma.rxdone]
      /\ dma.state \in {"idle", "active"}
  BY DEF TypeOK, DmaType
<1>1. CASE UNCHANGED dma
  BY <1>0, <1>1 DEF DmaType
<1>2. ASSUME NEW n \in Slave, cpsw_ndo_start_xmit(n) PROVE DmaType'
  <2>1. CASE dma' = [dma EXCEPT !.tx = Append(@, n)] /\ Len(dma.tx) < TxDescs
    <3>1. Append(dma.tx, n) \in Seq(Slave) /\ Len(Append(dma.tx, n)) = Len(dma.tx) + 1
      BY <1>0, AppendProperties
    <3>2. dma' = [state |-> dma.state, tx |-> Append(dma.tx, n), txdone |-> dma.txdone,
                  rx |-> dma.rx, rxdone |-> dma.rxdone]
      BY <1>0, <2>1
    <3> QED
      <4>1. Len(Append(dma.tx, n)) <= TxDescs /\ dma.txdone <= Len(Append(dma.tx, n))
        BY <1>0, <2>1, <3>1, RingSizes
      <4> QED
        BY <1>0, <3>1, <3>2, <4>1, RingType
  <2> QED
    BY <1>1, <1>2, <2>1 DEF cpsw_ndo_start_xmit
<1>3. ASSUME NEW n \in Slave, cpsw_ndo_tx_timeout(n) PROVE DmaType'
  <2>1. CASE dma' = [dma EXCEPT !.tx = <<>>, !.txdone = 0]
    <3>1. dma' = [state |-> dma.state, tx |-> <<>>, txdone |-> 0, rx |-> dma.rx, rxdone |-> dma.rxdone]
      BY <1>0, <2>1
    <3> QED
      BY <1>0, <3>1, RingSizes DEF DmaType
  <2> QED
    BY <1>1, <1>3, <2>1 DEF cpsw_ndo_tx_timeout
<1>4. ASSUME NEW n \in Slave, cpsw_poll(n) PROVE DmaType'
  BY <1>0, <1>4, PollDma
<1>5. CASE open_slave
  <2>1. CASE usage_state = 0
    <3>1. PICK k \in 0..RxDescs : dma' = [dma EXCEPT !.rx = @ + k]
      BY <1>5, <2>1 DEF open_slave, PortOpened, FillRx
    <3>2. dma' = [state |-> dma.state, tx |-> dma.tx, txdone |-> dma.txdone, rx |-> dma.rx + k,
                  rxdone |-> dma.rxdone]
      BY <1>0, <3>1
    <3>3. ~open_stat[0] /\ ~open_stat[1]
      BY <2>1, Counts DEF One, TypeOK
    <3>4. dma.rx = 0 /\ dma.rxdone = <<>>
      BY <1>5, <3>3 DEF DmaInv, Started, open_slave, Slave
    <3> QED
      BY <1>0, <3>1, <3>2, <3>4, RingSizes DEF DmaType
  <2>2. CASE usage_state # 0
    BY <1>1, <1>5, <2>2 DEF open_slave, PortOpened, FillRx
  <2> QED
    BY <2>1, <2>2
<1>6. CASE open_start
  <2>1. dma' = [state |-> "active", tx |-> dma.tx, txdone |-> dma.txdone,
                rx |-> dma.rx, rxdone |-> dma.rxdone]
    BY <1>0, <1>6 DEF open_start
  <2> QED
    BY <1>0, <2>1 DEF DmaType
<1>7. CASE stop_halt
  <2>1. CASE dma' = [state |-> "idle", tx |-> <<>>, txdone |-> 0, rx |-> 0, rxdone |-> <<>>]
    BY <2>1, RingSizes DEF DmaType
  <2> QED
    BY <1>1, <1>7, <2>1 DEF stop_halt
<1>8. CASE hw_transmit
  <2>1. /\ dma.txdone < Len(dma.tx)
        /\ dma' = [state |-> dma.state, tx |-> dma.tx, txdone |-> dma.txdone + 1,
                   rx |-> dma.rx, rxdone |-> dma.rxdone]
    BY <1>0, <1>8 DEF hw_transmit
  <2> QED
    BY <1>0, <2>1 DEF DmaType
<1>9. ASSUME NEW n \in Slave, hw_receive(n) PROVE DmaType'
  <2>1. Append(dma.rxdone, n) \in Seq(Slave) /\ Len(Append(dma.rxdone, n)) = Len(dma.rxdone) + 1
    BY <1>0, AppendProperties
  <2>2. /\ dma.rx > 0
        /\ dma' = [state |-> dma.state, tx |-> dma.tx, txdone |-> dma.txdone,
                   rx |-> dma.rx - 1, rxdone |-> Append(dma.rxdone, n)]
    BY <1>0, <1>9 DEF hw_receive
  <2> QED
    BY <1>0, <2>1, <2>2 DEF DmaType
<1> QED
  BY <1>1, <1>2, <1>3, <1>4, <1>5, <1>6, <1>7, <1>8, <1>9
     DEF Next, TaskStep, resume_open, open_enable, suspend_stop, stop_napi, stop_detach,
         cpsw_resume, cpsw_suspend, cpsw_interrupt, dev_queue_xmit, qdisc_run_ends, dev_watchdog,
         link_up, link_down, linkwatch_do_dev, dev_open, dev_close

(* The interrupt lines: balanced with the polls, at most one of which is   *)
(* scheduled.                                                              *)
LineOK == /\ line \in [enabled : BOOLEAN, depth : Nat]
          /\ napi \in [Slave -> {"off", "idle", "sched"}]
          /\ lost \in BOOLEAN
          /\ line.depth = One(napi[0] = "sched") + One(napi[1] = "sched") + One(lost)
          /\ line.depth <= 1

LEMMA LineStep ==
  ASSUME TypeOK, Sequencing, LineOK, Next
  PROVE  LineOK'
<1> USE DEF LineOK, One, Slave
<1>0. task.n \in Slave /\ open_stat \in [Slave -> BOOLEAN]
  BY DEF TypeOK
<1>1. CASE UNCHANGED <<line, napi, lost>>
  BY <1>1
<1>2. ASSUME UNCHANGED <<napi, lost>>, NEW b \in BOOLEAN, line' = [line EXCEPT !.enabled = b]
      PROVE  LineOK'
  BY <1>2
<1>3. CASE cpsw_interrupt /\ dev[Owner].running
  <2>1. line.depth = 0 /\ line' = [enabled |-> FALSE, depth |-> 1]
    BY <1>3 DEF cpsw_interrupt, Interrupting
  <2>2. Owner \in Slave /\ napi[0] # "sched" /\ napi[1] # "sched" /\ ~lost
    BY <2>1 DEF Owner
  <2>3. \/ napi' = [napi EXCEPT ![Owner] = "sched"] /\ lost' = lost
        \/ lost' = TRUE /\ napi' = napi
    BY <1>3 DEF cpsw_interrupt
  <2>4. CASE napi' = [napi EXCEPT ![Owner] = "sched"] /\ lost' = lost
    <3>1. CASE Owner = 0
      BY <2>1, <2>2, <2>4, <3>1
    <3>2. CASE Owner = 1
      BY <2>1, <2>2, <2>4, <3>2
    <3> QED
      BY <2>2, <3>1, <3>2
  <2>5. CASE lost' = TRUE /\ napi' = napi
    BY <2>1, <2>2, <2>5
  <2> QED
    BY <2>3, <2>4, <2>5
<1>4. ASSUME NEW n \in Slave, cpsw_poll(n) PROVE LineOK'
  <2>1. napi[n] = "sched" /\ line.depth = 1 /\ ~lost
    BY <1>4 DEF cpsw_poll
  <2>2. \A m \in Slave : m # n => napi[m] # "sched"
    BY <2>1
  <2> DEFINE live == dma.state = "active"
             done == (IF Len(dma.rxdone) < Budget THEN Len(dma.rxdone) ELSE Budget) < Budget
  <2>3. /\ napi' = [napi EXCEPT ![n] = IF done \/ ~live \/ Disabling(n) THEN "idle" ELSE @]
        /\ line' = IF done \/ ~live THEN [enabled |-> TRUE, depth |-> line.depth - 1] ELSE line
        /\ lost' = (lost \/ (live /\ ~done /\ Disabling(n)))
    BY <1>4 DEF cpsw_poll
  <2> HIDE DEF live, done
  <2>4. CASE done \/ ~live
    <3>1. napi' = [napi EXCEPT ![n] = "idle"] /\ line' = [enabled |-> TRUE, depth |-> line.depth - 1]
      BY <2>3, <2>4
    <3>2. line' = [enabled |-> TRUE, depth |-> 0]
      BY <2>1, <3>1
    <3>3. lost' = FALSE
      BY <2>1, <2>3, <2>4
    <3>4. napi'[0] # "sched" /\ napi'[1] # "sched"
      BY <2>2, <3>1
    <3>5. napi' \in [Slave -> {"off", "idle", "sched"}]
      BY <3>1
    <3>6. line' \in [enabled : BOOLEAN, depth : Nat] /\ line'.depth = 0
      BY <3>2
    <3>7. line'.depth = One(napi'[0] = "sched") + One(napi'[1] = "sched") + One(lost')
      BY <3>3, <3>4, <3>6
    <3>8. line'.depth <= 1
      BY <3>6
    <3>9. lost' \in BOOLEAN
      BY <3>3, Zenon
    <3> QED
      BY <3>5, <3>6, <3>7, <3>8, <3>9
  <2>5. CASE ~(done \/ ~live) /\ Disabling(n)
    <3>1. napi' = [napi EXCEPT ![n] = "idle"] /\ line' = line /\ lost' = TRUE
      BY <2>3, <2>5
    <3> QED
      BY <2>1, <2>2, <3>1
  <2>6. CASE ~(done \/ ~live) /\ ~Disabling(n)
    <3>1. napi' = napi /\ line' = line /\ lost' = FALSE
      BY <2>1, <2>3, <2>6
    <3> QED
      BY <2>1, <3>1
  <2> QED
    BY <2>4, <2>5, <2>6
<1>5. CASE open_enable
  <2>1. napi[task.n] = "off"
    BY <1>0, <1>5 DEF open_enable, Sequencing, OpenInv, Opening, OpenPcs
  <2>2. napi' = [napi EXCEPT ![task.n] = "idle"] /\ UNCHANGED <<line, lost>>
    BY <1>5 DEF open_enable
  <2> QED
    BY <1>0, <2>1, <2>2
<1>6. CASE stop_napi
  <2>1. /\ napi[task.n] = "idle" /\ napi' = [napi EXCEPT ![task.n] = "off"]
        /\ UNCHANGED <<line, lost>>
    BY <1>6 DEF stop_napi
  <2> QED
    BY <1>0, <2>1
<1>7. ASSUME UNCHANGED <<napi, lost>>, NEW n \in Slave, ndo_open(n) PROVE LineOK'
  <2>1. (line.enabled /\ usage_state > 0) \in BOOLEAN
    OBVIOUS
  <2>2. line' = [line EXCEPT !.enabled = line.enabled /\ usage_state > 0]
    BY <1>7 DEF ndo_open
  <2> QED
    BY <1>2, <1>7, <2>1, <2>2
<1>8. ASSUME NEW n \in Slave, dev_open(n) PROVE LineOK'
  BY <1>7, <1>8 DEF dev_open
<1>9. CASE resume_open
  BY <1>0, <1>7, <1>9 DEF resume_open
<1>10. ASSUME NEW n \in Slave, cpsw_ndo_tx_timeout(n) PROVE LineOK'
  BY <1>2, <1>10 DEF cpsw_ndo_tx_timeout
<1>11. CASE open_start
  BY <1>2, <1>11 DEF open_start
<1>12. CASE stop_halt
  BY <1>1, <1>2, <1>12 DEF stop_halt
<1>13. CASE cpsw_interrupt /\ ~dev[Owner].running
  BY <1>1, <1>13 DEF cpsw_interrupt
<1> QED
  BY <1>1, <1>3, <1>4, <1>5, <1>6, <1>8, <1>9, <1>10, <1>11, <1>12, <1>13
     DEF Next, TaskStep, open_slave, suspend_stop, stop_detach,
         cpsw_resume, cpsw_suspend, dev_queue_xmit, qdisc_run_ends, cpsw_ndo_start_xmit,
         dev_watchdog, link_up, link_down, linkwatch_do_dev, dev_close, hw_transmit, hw_receive

(* The DMA runs, and its interrupts are enabled or about to be, as long as *)
(* a device uses it.                                                       *)
Heard == line.enabled \/ lost \/ \E n \in Slave : napi[n] = "sched"

LEMMA DmaStep ==
  ASSUME TypeOK, Sequencing, LineOK, DmaInv, Next
  PROVE  DmaInv'
<1> USE DEF Slave
<1>0. /\ task.n \in Slave /\ open_stat \in [Slave -> BOOLEAN]
      /\ napi \in [Slave -> {"off", "idle", "sched"}]
      /\ line \in [enabled : BOOLEAN, depth : Nat] /\ lost \in BOOLEAN
      /\ dma = [state |-> dma.state, tx |-> dma.tx, txdone |-> dma.txdone, rx |-> dma.rx,
                rxdone |-> dma.rxdone]
      /\ task = [op |-> task.op, n |-> task.n, pc |-> task.pc]
      /\ DmaType
  BY DEF TypeOK, DmaType
<1>1. Started => dma.state = "active" /\ Heard
  BY DEF DmaInv, Heard
<1>2. ~Started /\ task.pc # "start" => dma.rx = 0 /\ dma.rxdone = <<>>
  BY DEF DmaInv
<1>3. ASSUME Started' <=> Started, task'.pc = "start" <=> task.pc = "start",
             dma'.state = dma.state, Heard \/ ~Started => Heard' \/ ~Started,
             dma.rx = 0 /\ dma.rxdone = <<>> => dma'.rx = 0 /\ dma'.rxdone = <<>>
      PROVE  DmaInv'
  <2>1. Started' => dma'.state = "active" /\ Heard'
    BY <1>1, <1>3
  <2>2. ~Started' /\ task'.pc # "start" => dma'.rx = 0 /\ dma'.rxdone = <<>>
    BY <1>2, <1>3
  <2> QED
    BY <2>1, <2>2 DEF DmaInv, Heard
<1>4. ASSUME UNCHANGED <<task, open_stat>> PROVE Started' <=> Started
  BY <1>4 DEF Started
<1>5. ASSUME UNCHANGED <<napi, lost>>, line' = line \/ line' = [line EXCEPT !.enabled = TRUE]
      PROVE  Heard => Heard'
  BY <1>0, <1>5 DEF Heard
<1>6. ASSUME NEW n \in Slave,
             \/ dev_queue_xmit(n) \/ qdisc_run_ends(n) \/ dev_watchdog(n)
             \/ link_up(n) \/ link_down(n) \/ linkwatch_do_dev(n)
      PROVE  DmaInv'
  <2>1. UNCHANGED <<task, open_stat, napi, lost, line, dma>>
    BY <1>6 DEF dev_queue_xmit, qdisc_run_ends, dev_watchdog, link_up, link_down,
                linkwatch_do_dev
  <2> QED
    BY <1>3, <1>4, <1>5, <2>1
<1>7. ASSUME NEW n \in Slave, cpsw_ndo_start_xmit(n) \/ cpsw_ndo_tx_timeout(n)
      PROVE  DmaInv'
  <2>1. /\ UNCHANGED <<task, open_stat, napi, lost>>
        /\ line' = line \/ line' = [line EXCEPT !.enabled = TRUE]
    BY <1>7 DEF cpsw_ndo_start_xmit, cpsw_ndo_tx_timeout
  <2>2. dma'.state = dma.state /\ dma'.rx = dma.rx /\ dma'.rxdone = dma.rxdone
    <3>1. CASE cpsw_ndo_start_xmit(n)
      BY <1>0, <3>1 DEF cpsw_ndo_start_xmit
    <3>2. CASE cpsw_ndo_tx_timeout(n)
      BY <1>0, <3>2 DEF cpsw_ndo_tx_timeout
    <3> QED
      BY <1>7, <3>1, <3>2
  <2> QED
    BY <1>3, <1>4, <1>5, <2>1, <2>2
<1>8. CASE hw_transmit \/ \E n \in Slave : hw_receive(n)
  <2>1. UNCHANGED <<task, open_stat, napi, lost, line>>
    BY <1>8 DEF hw_transmit, hw_receive
  <2>2. dma'.state = dma.state
    BY <1>0, <1>8 DEF hw_transmit, hw_receive
  <2>3. dma.rx = 0 /\ dma.rxdone = <<>> => dma'.rx = 0 /\ dma'.rxdone = <<>>
    BY <1>0, <1>8 DEF hw_transmit, hw_receive
  <2> QED
    BY <1>3, <1>4, <1>5, <2>1, <2>2, <2>3
<1>9. ASSUME NEW n \in Slave, cpsw_poll(n) PROVE DmaInv'
  <2>1. /\ dma'.state = dma.state
        /\ dma.rx = 0 /\ dma.rxdone = <<>> => dma'.rx = 0 /\ dma'.rxdone = <<>>
    BY <1>0, <1>9, PollDma
  <2>2. UNCHANGED <<task, open_stat>>
    BY <1>9 DEF cpsw_poll
  <2>3. Heard'
    <3> DEFINE live == dma.state = "active"
               done == (IF Len(dma.rxdone) < Budget THEN Len(dma.rxdone) ELSE Budget) < Budget
    <3>1. /\ napi' = [napi EXCEPT ![n] = IF done \/ ~live \/ Disabling(n) THEN "idle" ELSE @]
          /\ line' = IF done \/ ~live THEN [enabled |-> TRUE, depth |-> line.depth - 1] ELSE line
          /\ lost' = (lost \/ (live /\ ~done /\ Disabling(n)))
          /\ napi[n] = "sched"
      BY <1>9 DEF cpsw_poll
    <3> HIDE DEF live, done
    <3>2. CASE done \/ ~live
      BY <3>1, <3>2 DEF Heard
    <3>3. CASE ~(done \/ ~live) /\ Disabling(n)
      BY <3>1, <3>3 DEF Heard
    <3>4. CASE ~(done \/ ~live) /\ ~Disabling(n)
      BY <1>0, <3>1, <3>4 DEF Heard
    <3> QED
      BY <3>2, <3>3, <3>4
  <2> QED
    BY <1>3, <1>4, <2>1, <2>2, <2>3
<1>10. CASE cpsw_interrupt
  <2>1. UNCHANGED <<task, open_stat, dma>>
    BY <1>10 DEF cpsw_interrupt
  <2>2. CASE dev[Owner].running
    <3>1. Heard'
      BY <1>0, <1>10, <2>2 DEF cpsw_interrupt, Heard, Owner
    <3> QED
      BY <1>3, <1>4, <2>1, <3>1
  <2>3. CASE ~dev[Owner].running
    <3>1. UNCHANGED <<line, napi, lost>>
      BY <1>10, <2>3 DEF cpsw_interrupt
    <3> QED
      BY <1>3, <1>4, <2>1, <3>1 DEF Heard, Started
  <2> QED
    BY <2>2, <2>3
<1>11. CASE suspend_stop \/ stop_napi \/ cpsw_suspend \/ cpsw_resume \/ \E n \in Slave : dev_close(n)
  <2>1. /\ UNCHANGED <<open_stat, dma, line, lost>>
        /\ task.pc \in {"stop", "napi_disable", "idle"}
        /\ task'.pc \in {"stop", "napi_disable", "halt", "open"}
    BY <1>0, <1>11 DEF suspend_stop, stop_napi, cpsw_suspend, cpsw_resume, dev_close, Idle, Step,
                       Sequencing, TaskInv
  <2>2. Started' <=> Started
    BY <2>1 DEF Started
  <2>3. Heard => Heard'
    <3>1. \A n \in Slave : napi[n] = "sched" => napi'[n] = "sched"
      BY <1>0, <1>11 DEF suspend_stop, stop_napi, cpsw_suspend, cpsw_resume, dev_close
    <3> QED
      BY <2>1, <3>1 DEF Heard
  <2> QED
    BY <1>3, <2>1, <2>2, <2>3
<1>12. CASE resume_open \/ \E n \in Slave : dev_open(n)
  <2>1. /\ UNCHANGED <<open_stat, dma, napi, lost>>
        /\ task.pc \in {"open", "idle"} /\ task'.pc = "slave"
        /\ line' = [line EXCEPT !.enabled = @ /\ usage_state > 0]
    BY <1>0, <1>12 DEF resume_open, dev_open, ndo_open, Step, Idle
  <2>2. Started' <=> Started
    BY <2>1 DEF Started
  <2>3. Started => usage_state > 0
    BY <1>0, <2>1, Counts DEF Started, One
  <2>4. Heard /\ usage_state > 0 => Heard'
    BY <1>0, <2>1 DEF Heard
  <2> QED
    BY <1>3, <1>1, <2>1, <2>2, <2>3, <2>4
<1>13. CASE open_slave
  <2>1. /\ UNCHANGED <<open_stat, napi, lost, line>>
        /\ task.pc = "slave" /\ task'.pc = "start"
    BY <1>0, <1>13 DEF open_slave, PortOpened, FillRx, Step
  <2>2. dma'.state = dma.state
    BY <1>0, <1>13 DEF open_slave, PortOpened, FillRx
  <2>3. Started' <=> Started
    BY <2>1 DEF Started
  <2>4. Started' => dma'.state = "active" /\ Heard'
    BY <1>1, <1>5, <2>1, <2>2, <2>3
  <2> QED
    BY <2>1, <2>4 DEF DmaInv, Heard
<1>14. CASE open_start
  <2>1. dma'.state = "active" /\ line'.enabled /\ task'.pc = "enable"
    BY <1>0, <1>14 DEF open_start, Step
  <2> QED
    BY <2>1 DEF DmaInv, Started
<1>15. CASE open_enable
  <2>1. /\ UNCHANGED <<dma, line, lost>> /\ task.pc = "enable"
        /\ open_stat'[task.n]
        /\ \A n \in Slave : napi[n] = "sched" /\ n # task.n => napi'[n] = "sched"
    BY <1>0, <1>15 DEF open_enable
  <2>2. task'.pc \in {"open", "idle"}
    BY <1>0, <1>15 DEF open_enable, Finish, Idle
  <2>3. napi[task.n] = "off"
    BY <1>0, <2>1 DEF Sequencing, OpenInv, Opening, OpenPcs
  <2>4. Started /\ Started'
    BY <1>0, <2>1, <2>2 DEF Started
  <2>5. Heard'
    BY <1>1, <2>1, <2>3, <2>4 DEF Heard
  <2> QED
    BY <1>1, <2>1, <2>4, <2>5 DEF DmaInv, Heard
<1>16. CASE stop_halt
  <2>1. /\ task.pc = "halt" /\ task'.pc = "detach" /\ task'.n = task.n
        /\ UNCHANGED <<open_stat, napi, lost>>
    BY <1>0, <1>16 DEF stop_halt, Step
  <2>2. open_stat[task.n]
    BY <1>0, <2>1 DEF Sequencing, OpenInv, Stopping, StopPcs
  <2>3. CASE usage_state <= 1
    <3>1. dma'.rx = 0 /\ dma'.rxdone = <<>>
      BY <1>16, <2>3 DEF stop_halt
    <3>2. \A n \in Slave : n # task.n => ~open_stat[n]
      BY <1>0, <2>2, <2>3, Counts DEF One
    <3>3. ~Started'
      BY <2>1, <3>2 DEF Started
    <3> QED
      BY <3>1, <3>3 DEF DmaInv
  <2>4. CASE ~(usage_state <= 1)
    <3>1. UNCHANGED <<line, dma>>
      BY <1>16, <2>4 DEF stop_halt
    <3>2. \A n \in Slave : open_stat[n]
      BY <1>0, <2>2, <2>4, Counts DEF One
    <3>3. Started /\ Started'
      BY <1>0, <2>1, <3>2 DEF Started
    <3>4. Heard'
      BY <1>1, <1>5, <2>1, <3>1, <3>3
    <3> QED
      BY <1>1, <3>1, <3>3, <3>4 DEF DmaInv, Heard
  <2> QED
    BY <2>3, <2>4
<1>17. CASE stop_detach
  <2>1. /\ UNCHANGED <<dma, line, lost, napi>> /\ task.pc = "detach"
        /\ \A n \in Slave : open_stat'[n] <=> n # task.n /\ open_stat[n]
    BY <1>0, <1>17 DEF stop_detach
  <2>2. task'.pc \in {"stop", "idle"}
    BY <1>0, <1>17 DEF stop_detach, Finish, Idle
  <2>3. Started' <=> Started
    BY <2>1, <2>2 DEF Started
  <2> QED
    BY <1>3, <1>5, <2>1, <2>2, <2>3
<1> QED
  BY <1>6, <1>7, <1>8, <1>9, <1>10, <1>11, <1>12, <1>13, <1>14, <1>15, <1>16, <1>17
     DEF Next, TaskStep

LEMMA RestType ==
  ASSUME TypeOK, Next
  PROVE  /\ open_stat' \in [Slave -> BOOLEAN]
         /\ task' \in [op : {"none", "open", "close", "suspend", "suspended", "resume"},
                       n : Slave,
                       pc : {"idle", "open", "slave", "start", "enable",
                             "stop", "napi_disable", "halt", "detach"}]
<1>1. open_stat' \in [Slave -> BOOLEAN]
  BY DEF TypeOK, Next, TaskStep, resume_open, open_slave, open_start, open_enable,
         suspend_stop, stop_napi, stop_halt, stop_detach, cpsw_resume, cpsw_suspend,
         cpsw_interrupt, hw_transmit, dev_queue_xmit, qdisc_run_ends, cpsw_ndo_start_xmit,
         dev_watchdog, cpsw_ndo_tx_timeout, link_up, link_down, linkwatch_do_dev, cpsw_poll,
         dev_open, dev_close, hw_receive
<1>2. 0 \in Slave /\ 1 \in Slave /\ FirstRunning \in Slave
  BY DEF Slave, FirstRunning
<1>3. ASSUME NEW f \in {"open", "stop"}, Finish(f)
      PROVE  task' \in [op : {"none", "open", "close", "suspend", "suspended", "resume"},
                        n : Slave,
                        pc : {"idle", "open", "slave", "start", "enable",
                              "stop", "napi_disable", "halt", "detach"}]
  BY <1>2, <1>3 DEF TypeOK, Finish, Idle
<1>4. \/ UNCHANGED task \/ Finish("open") \/ Finish("stop")
      \/ Step("slave") \/ Step("start") \/ Step("enable")
      \/ Step("napi_disable") \/ Step("halt") \/ Step("detach")
      \/ \E n \in Slave : \/ task' = [op |-> "open", n |-> n, pc |-> "slave"]
                          \/ task' = [op |-> "close", n |-> n, pc |-> "napi_disable"]
      \/ task' = [op |-> "suspend", n |-> FirstRunning, pc |-> "stop"]
      \/ task' = [op |-> "resume", n |-> FirstRunning, pc |-> "open"]
  BY DEF Next, TaskStep, resume_open, open_slave, open_start, open_enable,
         suspend_stop, stop_napi, stop_halt, stop_detach, cpsw_resume, cpsw_suspend,
         cpsw_interrupt, hw_transmit, dev_queue_xmit, qdisc_run_ends, cpsw_ndo_start_xmit,
         dev_watchdog, cpsw_ndo_tx_timeout, link_up, link_down, linkwatch_do_dev, cpsw_poll,
         dev_open, dev_close, hw_receive
<1>5. task' \in [op : {"none", "open", "close", "suspend", "suspended", "resume"},
                 n : Slave,
                 pc : {"idle", "open", "slave", "start", "enable",
                       "stop", "napi_disable", "halt", "detach"}]
  BY <1>2, <1>3, <1>4 DEF TypeOK, Step
<1> QED
  BY <1>1, <1>5

LEMMA CpswStep == IInv /\ [Next]_vars => IInv'
<1> SUFFICES ASSUME IInv, [Next]_vars PROVE IInv'
  OBVIOUS
<1>1. TypeOK /\ Sequencing /\ DmaInv /\ SchedInv
  BY DEF IInv, Sequencing
<1>2. LineOK
  BY <1>1, Counts DEF IInv, TypeOK, LineOK, DepthInv
<1>3. CASE Next
  <2>1. Sequencing' /\ SchedInv' /\ DmaType' /\ LineOK' /\ DmaInv' /\ dev' \in [Slave -> Device]
    BY <1>1, <1>2, <1>3, SequencingStep, SchedStep, DmaTypeStep, LineStep, DmaStep, DevTypeStep
  <2>2. TypeOK'
    BY <1>1, <1>3, <2>1, RestType DEF TypeOK, DmaType, LineOK
  <2>3. IrqBalanced' /\ DepthInv'
    <3>1. (TypeOK => (IrqBalanced <=> line.depth = One(napi[0] = "sched")
                                                   + One(napi[1] = "sched") + One(lost)))'
      BY Counts, PTL
    <3> QED
      BY <2>1, <2>2, <3>1 DEF LineOK, DepthInv, One
  <2> QED
    BY <2>1, <2>2, <2>3 DEF IInv, Sequencing
<1>4. CASE UNCHANGED vars
  BY <1>4 DEF vars, IInv, TypeOK, TaskInv, OpenInv, RunInv, DmaInv, SchedInv, IrqBalanced,
              DepthInv, Started, Opening, Stopping, Idle
<1> QED
  BY <1>3, <1>4

LEMMA CpswInvariant == Spec => []IInv
BY CpswInit, CpswStep, PTL DEF Spec

(* The state has its types, and no ring ever holds more than its           *)
(* descriptors.                                                            *)
THEOREM TypeCorrect == Spec => []TypeOK
<1>1. IInv => TypeOK
  BY DEF IInv
<1> QED
  BY <1>1, CpswInvariant, PTL

(* cpsw_interrupt, cpsw_poll, napi_disable: every disable_irq of the       *)
(* handler has its enable_irq in a scheduled poll, or is the one that was  *)
(* lost, however opens, closes and suspends of the two devices interleave. *)
THEOREM IrqCorrect == Spec => []IrqBalanced
<1>1. IInv => IrqBalanced
  BY DEF IInv
<1> QED
  BY <1>1, CpswInvariant, PTL

(* cpsw_ndo_open and cpsw_ndo_stop share one DMA by counting open devices: *)
(* it runs, heard, whenever a device is open and no operation is going on. *)
THEOREM DmaCorrect == Spec => []DmaWhileOpen
<1>1. IInv => DmaWhileOpen
  <2> SUFFICES ASSUME IInv, NEW n \in Slave, open_stat[n], task = Idle
               PROVE  /\ dma.state = "active"
                      /\ line.enabled \/ lost \/ \E m \in Slave : napi[m] = "sched"
    BY DEF DmaWhileOpen
  <2>1. Started
    BY DEF Started, Idle
  <2> QED
    BY <2>1 DEF IInv, DmaInv
<1> QED
  BY <1>1, CpswInvariant, PTL

(* An operation is at a point of its own code, a device in the middle of   *)
(* being opened or stopped is not or still marked open, NAPI is enabled    *)
(* exactly from napi_enable to napi_disable, and a device that the system  *)
(* suspend closed is running and gets opened again.                        *)
THEOREM SequencingCorrect == Spec => []Sequencing
<1>1. IInv => Sequencing
  BY DEF IInv, Sequencing
<1> QED
  BY <1>1, CpswInvariant, PTL

=============================================================================
