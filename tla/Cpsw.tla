-------------------------------- MODULE Cpsw --------------------------------
(***************************************************************************)
(* The Ethernet switch driver, drivers/net/ethernet/ti/cpsw.c, built for   *)
(* two independent ports (CONFIG_TI_CPSW_DUAL_EMAC): two network devices   *)
(* over one DMA controller, one transmit and one receive channel, and one  *)
(* set of interrupt lines.                                                 *)
(*                                                                         *)
(* The DMA is taken as Cpdma shows it: a queue per channel, served and     *)
(* given back in order.  A process step, an interrupt handler, a NAPI      *)
(* poll and a transmission are each atomic, as they are on a processor     *)
(* without preemption: an open or close runs in process context, and       *)
(* interrupts and softirqs run between any two of its steps.               *)
(*                                                                         *)
(* Left out: packet contents, address tables, VLANs, statistics, time      *)
(* stamps, interrupt pacing, an absent PHY, the failure of                 *)
(* device_create_file, and a transmission by the network stack from within *)
(* netif_receive_skb, which is here one after the poll.                    *)
(***************************************************************************)
EXTENDS Integers, Sequences, SequencesExt, FiniteSets

CONSTANTS
  TxDescs,     \* descriptors the transmit channel can have in use
  RxDescs,     \* priv->data.rx_descs
  Budget,      \* CPSW_POLL_WEIGHT: received packets per poll
  MaxBacklog   \* bound on the packets waiting in a device's queue

ASSUME CpswAssumption == {TxDescs, RxDescs, Budget, MaxBacklog} \subseteq Nat \ {0}

Slave == {0, 1}    \* the two devices; 0 is the one the interrupt belongs to

VARIABLES
  dev,       \* what the network stack and the PHY know of each device
  napi,      \* its napi_struct: "off" (disabled), "idle" or "sched"
  open_stat, \* slaves[i].open_stat
  dma,       \* the controller and its two channels
  line,      \* the interrupts: enabled in the device; disable depth of the lines
  task,      \* the open, close, suspend or resume that is going on
  lost       \* history: the lines were disabled and no poll will enable them

vars == <<dev, napi, open_stat, dma, line, task, lost>>

Idle == [op |-> "none", n |-> 0, pc |-> "idle"]

(* running: __LINK_STATE_START; phy: slave->phy is attached; port: frames  *)
(* pass from the wire; stopped: the queue is XOFF; active: a real qdisc is *)
(* attached; backlog: the packets in it; sched: it is not empty and about  *)
(* to be run.                                                              *)
Device == [running : BOOLEAN, carrier : BOOLEAN, phy : BOOLEAN, port : BOOLEAN, stopped : BOOLEAN, active : BOOLEAN, backlog : 0..MaxBacklog,
           sched : BOOLEAN]

(* tx: the device of each packet given to the DMA, oldest first, of which  *)
(* txdone are transmitted; rx: empty buffers the DMA has; rxdone: the port *)
(* of each received packet.                                                *)
Init == /\ dev = [n \in Slave |-> [running |-> FALSE, carrier |-> TRUE, phy |-> FALSE,
                                   port |-> FALSE, stopped |-> FALSE, active |-> FALSE,
                                   backlog |-> 0, sched |-> FALSE]]
        /\ napi = [n \in Slave |-> "off"]
        /\ open_stat = [n \in Slave |-> FALSE]
        /\ dma = [state |-> "idle", tx |-> <<>>, txdone |-> 0, rx |-> 0, rxdone |-> <<>>]
        /\ line = [enabled |-> FALSE, depth |-> 0]
        /\ task = Idle
        /\ lost = FALSE

(* cpsw_common_res_usage_state                                             *)
usage_state == Cardinality({n \in Slave : open_stat[n]})

(***************************************************************************)
(* Completion handlers.                                                    *)
(***************************************************************************)

(* cpsw_tx_handler for the packets of the devices in D: a stopped queue    *)
(* may be used again, but nobody is told to run it.                        *)
tx_handler(D, d) == [n \in Slave |-> IF n \in D THEN [d[n] EXCEPT !.stopped = FALSE] ELSE d[n]]

(* cpsw_rx_handler queues a new buffer for a packet of port p.             *)
Resubmits(p) == dev[p].running /\ dev[p].carrier

(* cpsw_rx_handler for a sequence of received packets: how many new        *)
(* buffers it may queue, for it goes without one that it cannot allocate.  *)
rx_handler(ports) ==
  0..Cardinality({i \in DOMAIN ports : Resubmits(ports[i])})

(***************************************************************************)
(* The network stack and the transmit routine.                             *)
(***************************************************************************)

(* dev_queue_xmit: a packet is queued and the queue run.                   *)
dev_queue_xmit(n) ==
  /\ dev[n].active /\ dev[n].backlog < MaxBacklog
  /\ dev' = [dev EXCEPT ![n].backlog = @ + 1, ![n].sched = TRUE]
  /\ UNCHANGED <<napi, open_stat, dma, line, task, lost>>

(* qdisc_run finds the queue stopped.                                      *)
qdisc_run_ends(n) ==
  /\ dev[n].sched /\ dev[n].stopped
  /\ dev' = [dev EXCEPT ![n].sched = FALSE]
  /\ UNCHANGED <<napi, open_stat, dma, line, task, lost>>

(* cpsw_ndo_start_xmit, called by qdisc_run: with no descriptor left, or   *)
(* when the packet cannot be padded, the queue is stopped and the stack    *)
(* keeps the packet.                                                       *)
cpsw_ndo_start_xmit(n) ==
  /\ dev[n].sched /\ ~dev[n].stopped
  /\ \/ /\ Len(dma.tx) < TxDescs
        /\ dma' = [dma EXCEPT !.tx = Append(@, n)]
        /\ dev' = [dev EXCEPT ![n].backlog = @ - 1, ![n].sched = dev[n].backlog > 1]
     \/ dev' = [dev EXCEPT ![n].stopped = TRUE] /\ UNCHANGED dma
  /\ UNCHANGED <<napi, open_stat, line, task, lost>>

(* dev_watchdog finds the queue not stopped: on releasing the transmit     *)
(* lock it has the queue run.                                              *)
dev_watchdog(n) ==
  /\ dev[n].active /\ dev[n].running /\ dev[n].carrier /\ ~dev[n].stopped
  /\ dev[n].backlog > 0
  /\ dev' = [dev EXCEPT ![n].sched = TRUE]
  /\ UNCHANGED <<napi, open_stat, dma, line, task, lost>>

(* cpsw_ndo_tx_timeout, called by dev_watchdog if the queue is stopped for *)
(* too long: the transmit channel is torn down, which gives all its        *)
(* packets back, and started again.                                        *)
cpsw_ndo_tx_timeout(n) ==
  /\ dev[n].active /\ dev[n].running /\ dev[n].carrier /\ dev[n].stopped
  /\ LET given == IF dma.state = "active" THEN ToSet(dma.tx) ELSE {}
     IN  /\ dma' = IF dma.state = "active" THEN [dma EXCEPT !.tx = <<>>, !.txdone = 0] ELSE dma
         /\ dev' = [tx_handler(given, dev) EXCEPT ![n].sched = @ \/ (n \in given /\ dev[n].backlog > 0)]
  /\ line' = [line EXCEPT !.enabled = TRUE]
  /\ UNCHANGED <<napi, open_stat, task, lost>>

(* Mutant: the queue is not woken when the link is up.                     *)
link_up_no_wake(n) ==
  /\ dev[n].phy
  /\ dev' = [dev EXCEPT ![n].carrier = TRUE, ![n].port = TRUE]
  /\ UNCHANGED <<napi, open_stat, dma, line, task, lost>>

(* cpsw_adjust_link, called by the PHY state machine each time that it has *)
(* polled the PHY: it found the link up,                                   *)
link_up(n) ==
  /\ dev[n].phy
  /\ dev' = [dev EXCEPT ![n].carrier = TRUE, ![n].port = TRUE,
                        ![n].stopped = @ /\ ~dev[n].running,
                        ![n].sched = @ \/ (dev[n].running /\ dev[n].stopped
                                            /\ dev[n].backlog > 0)]
  /\ UNCHANGED <<napi, open_stat, dma, line, task, lost>>

(* or down.                                                                *)
link_down(n) ==
  /\ dev[n].phy
  /\ dev' = [dev EXCEPT ![n].carrier = FALSE, ![n].port = FALSE, ![n].stopped = TRUE]
  /\ UNCHANGED <<napi, open_stat, dma, line, task, lost>>

(* linkwatch_do_dev: the qdisc follows the carrier.  It takes the rtnl     *)
(* mutex, which an open or a close holds and a suspend does not.           *)
linkwatch_do_dev(n) ==
  /\ task.op \notin {"open", "close"}
  /\ dev[n].running /\ dev[n].active # dev[n].carrier
  /\ dev' = [dev EXCEPT ![n].active = dev[n].carrier,
                        ![n].backlog = 0, ![n].sched = FALSE]
  /\ UNCHANGED <<napi, open_stat, dma, line, task, lost>>

(***************************************************************************)
(* Interrupt and NAPI.                                                     *)
(***************************************************************************)

Disabling(n) == task.n = n /\ task.pc = "napi_disable"

(* Mutant: always the first device's.                                      *)
OwnerFirst == 0

(* Whose NAPI the interrupt schedules: the first device's if it runs.      *)
Owner == IF dev[0].running THEN 0 ELSE 1

Interrupting == /\ line.depth = 0 /\ line.enabled
                /\ dma.state = "active" /\ (dma.txdone > 0 \/ dma.rxdone # <<>>)

(* cpsw_interrupt: the interrupts are disabled twice over, in the device   *)
(* and at the lines, and the poll scheduled, which is to enable them       *)
(* again; napi_schedule does nothing if NAPI is disabled.  With neither    *)
(* device running the handler returns and nothing is masked.               *)
cpsw_interrupt ==
  /\ Interrupting
  /\ \/ /\ dev[Owner].running
        /\ line' = [enabled |-> FALSE, depth |-> line.depth + 1]
        /\ IF napi[Owner] = "idle" /\ ~Disabling(Owner)
           THEN napi' = [napi EXCEPT ![Owner] = "sched"] /\ UNCHANGED lost
           ELSE lost' = TRUE /\ UNCHANGED napi
     \/ ~dev[Owner].running /\ UNCHANGED <<line, napi, lost>>
  /\ UNCHANGED <<dev, open_stat, dma, task>>

(* Mutant: the interrupts are enabled also when the poll is to go on.      *)
poll_enables_early(n) ==
  LET num_rx == IF Len(dma.rxdone) < Budget THEN Len(dma.rxdone) ELSE Budget
  IN  /\ napi[n] = "sched"
      /\ \E k \in rx_handler(SubSeq(dma.rxdone, 1, num_rx)) :
           dma' = [dma EXCEPT !.tx = SubSeq(@, dma.txdone + 1, Len(@)), !.txdone = 0,
                              !.rx = @ + k, !.rxdone = SubSeq(@, num_rx + 1, Len(@))]
      /\ dev' = tx_handler(ToSet(SubSeq(dma.tx, 1, dma.txdone)), dev)
      /\ napi' = [napi EXCEPT ![n] = IF num_rx < Budget THEN "idle" ELSE @]
      /\ line' = [enabled |-> TRUE, depth |-> line.depth - 1]
      /\ UNCHANGED <<open_stat, task, lost>>

(* cpsw_poll, and net_rx_action around it: transmitted packets, then       *)
(* received ones up to the budget.  A poll that did not use its budget up  *)
(* completes and enables the interrupts; one that did is polled again, or, *)
(* if NAPI is being disabled, completed by net_rx_action, which does not   *)
(* know of the interrupts.                                                 *)
cpsw_poll(n) ==
  LET num_rx == IF Len(dma.rxdone) < Budget THEN Len(dma.rxdone) ELSE Budget
      done   == num_rx < Budget
      live   == dma.state = "active"
  IN  /\ napi[n] = "sched"
      /\ \E k \in rx_handler(SubSeq(dma.rxdone, 1, num_rx)) :
           dma' = IF live THEN [dma EXCEPT !.tx = SubSeq(@, dma.txdone + 1, Len(@)),
                                           !.txdone = 0, !.rx = @ + k,
                                           !.rxdone = SubSeq(@, num_rx + 1, Len(@))]
                          ELSE dma
      /\ dev' = IF live THEN tx_handler(ToSet(SubSeq(dma.tx, 1, dma.txdone)), dev) ELSE dev
      /\ napi' = [napi EXCEPT ![n] = IF done \/ ~live \/ Disabling(n) THEN "idle" ELSE @]
      /\ line' = IF done \/ ~live THEN [enabled |-> TRUE, depth |-> line.depth - 1] ELSE line
      /\ lost' = (lost \/ (live /\ ~done /\ Disabling(n)))
      /\ UNCHANGED <<open_stat, task>>

(***************************************************************************)
(* Opening and closing a device, and system suspend.                       *)
(***************************************************************************)

Step(l) == task' = [task EXCEPT !.pc = l]

(* Where a finished open or stop of task.n leads: a suspend or resume goes *)
(* on with the second device if that runs.                                 *)
Finish(first) ==
  task' = IF task.op \in {"suspend", "resume"} /\ task.n = 0 /\ dev[1].running
          THEN [task EXCEPT !.n = 1, !.pc = first]
          ELSE [Idle EXCEPT !.op = IF task.op = "suspend" THEN "suspended" ELSE @]

(* The head of cpsw_ndo_open.                                              *)
ndo_open(n) ==
  /\ line' = [line EXCEPT !.enabled = @ /\ usage_state > 0]
  /\ dev' = [dev EXCEPT ![n].running = TRUE, ![n].carrier = FALSE]

(* __dev_open calls cpsw_ndo_open with the device marked running.          *)
dev_open(n) ==
  /\ task = Idle /\ ~dev[n].running
  /\ ndo_open(n)
  /\ task' = [op |-> "open", n |-> n, pc |-> "slave"]
  /\ UNCHANGED <<napi, open_stat, dma, lost>>

resume_open ==
  /\ task.pc = "open"
  /\ ndo_open(task.n)
  /\ Step("slave")
  /\ UNCHANGED <<napi, open_stat, dma, lost>>

(* cpsw_slave_open: the port is reset and the PHY attached.                *)
PortOpened == [dev EXCEPT ![task.n].port = FALSE, ![task.n].phy = TRUE]

(* The receive buffers that the first device to open queues: fewer than    *)
(* wanted if there is no memory.                                           *)
FillRx == \E k \in 0..RxDescs : dma' = [dma EXCEPT !.rx = @ + k]

(* The middle of cpsw_ndo_open.  The first device also sets up the common  *)
(* resources, among them the statistics attribute, which is taken to be    *)
(* created.                                                                *)
open_slave ==
  /\ task.pc = "slave"
  /\ dev' = PortOpened
  /\ IF usage_state = 0 THEN FillRx ELSE UNCHANGED dma
  /\ Step("start")
  /\ UNCHANGED <<napi, open_stat, line, lost>>

(* cpdma_ctlr_start, which does nothing if the controller runs, and        *)
(* cpsw_intr_enable.                                                       *)
open_start ==
  /\ task.pc = "start"
  /\ dma' = [dma EXCEPT !.state = "active"]
  /\ line' = [line EXCEPT !.enabled = TRUE]
  /\ Step("enable")
  /\ UNCHANGED <<dev, napi, open_stat, lost>>

(* napi_enable and the end of cpsw_ndo_open; __dev_open then activates the *)
(* queue if there is a carrier already.                                    *)
open_enable ==
  /\ task.pc = "enable"
  /\ napi' = [napi EXCEPT ![task.n] = "idle"]
  /\ open_stat' = [open_stat EXCEPT ![task.n] = TRUE]
  /\ dev' = IF task.op = "open" THEN [dev EXCEPT ![task.n].active = dev[task.n].carrier] ELSE dev
  /\ Finish("open")
  /\ UNCHANGED <<dma, line, lost>>

(* __dev_close_many: not running any more, the qdisc detached; then        *)
(* cpsw_ndo_stop stops the queue and napi_disable begins.                  *)
dev_close(n) ==
  /\ task = Idle /\ dev[n].running
  /\ dev' = [dev EXCEPT ![n].running = FALSE, ![n].active = FALSE,
                        ![n].backlog = 0, ![n].sched = FALSE, ![n].stopped = TRUE]
  /\ task' = [op |-> "close", n |-> n, pc |-> "napi_disable"]
  /\ UNCHANGED <<napi, open_stat, dma, line, lost>>

(* The same of cpsw_ndo_stop when the system suspends.                     *)
suspend_stop ==
  /\ task.pc = "stop"
  /\ dev' = [dev EXCEPT ![task.n].stopped = TRUE]
  /\ Step("napi_disable")
  /\ UNCHANGED <<napi, open_stat, dma, line, lost>>

(* napi_disable ends when no poll is scheduled; the carrier is turned off. *)
stop_napi ==
  /\ task.pc = "napi_disable" /\ napi[task.n] = "idle"
  /\ napi' = [napi EXCEPT ![task.n] = "off"]
  /\ dev' = [dev EXCEPT ![task.n].carrier = FALSE]
  /\ Step("halt")
  /\ UNCHANGED <<open_stat, dma, line, lost>>

(* Mutant: the DMA is stopped with either device.                          *)
halt_shared ==
  /\ task.pc = "halt"
  /\ line' = [line EXCEPT !.enabled = FALSE]
  /\ dma' = [state |-> "idle", tx |-> <<>>, txdone |-> 0, rx |-> 0, rxdone |-> <<>>]
  /\ dev' = tx_handler(ToSet(dma.tx), dev)
  /\ Step("detach")
  /\ UNCHANGED <<napi, open_stat, lost>>

(* The last open device also stops the interrupts and the DMA, which gives *)
(* every packet back: the transmit handler starts queues, and no receive   *)
(* buffer is queued again.                                                 *)
stop_halt ==
  /\ task.pc = "halt"
  /\ IF usage_state <= 1
     THEN /\ line' = [line EXCEPT !.enabled = FALSE]
          /\ dma' = [state |-> "idle", tx |-> <<>>, txdone |-> 0, rx |-> 0, rxdone |-> <<>>]
          /\ dev' = tx_handler(ToSet(dma.tx), dev)
     ELSE UNCHANGED <<line, dma, dev>>
  /\ Step("detach")
  /\ UNCHANGED <<napi, open_stat, lost>>

(* cpsw_slave_stop: the PHY is detached before its state machine reports   *)
(* the link down, so the port goes on passing frames.                      *)
stop_detach ==
  /\ task.pc = "detach"
  /\ dev' = [dev EXCEPT ![task.n].phy = FALSE]
  /\ open_stat' = [open_stat EXCEPT ![task.n] = FALSE]
  /\ Finish("stop")
  /\ UNCHANGED <<napi, dma, line, lost>>

(* cpsw_suspend and cpsw_resume, for the devices that run.  They stay      *)
(* running, and the rtnl mutex is not taken.                               *)
FirstRunning == IF dev[0].running THEN 0 ELSE 1

cpsw_suspend ==
  /\ task = Idle /\ \E n \in Slave : dev[n].running
  /\ task' = [op |-> "suspend", n |-> FirstRunning, pc |-> "stop"]
  /\ UNCHANGED <<dev, napi, open_stat, dma, line, lost>>

cpsw_resume ==
  /\ task.op = "suspended"
  /\ task' = [op |-> "resume", n |-> FirstRunning, pc |-> "open"]
  /\ UNCHANGED <<dev, napi, open_stat, dma, line, lost>>

(***************************************************************************)
(* The DMA (external): as Cpdma shows it.                                  *)
(***************************************************************************)

hw_transmit ==
  /\ dma.state = "active" /\ dma.txdone < Len(dma.tx)
  /\ dma' = [dma EXCEPT !.txdone = @ + 1]
  /\ UNCHANGED <<dev, napi, open_stat, line, task, lost>>

hw_receive(n) ==
  /\ dma.state = "active" /\ dma.rx > 0 /\ dev[n].port
  /\ dma' = [dma EXCEPT !.rx = @ - 1, !.rxdone = Append(@, n)]
  /\ UNCHANGED <<dev, napi, open_stat, line, task, lost>>

(***************************************************************************)
(* The specification.                                                      *)
(***************************************************************************)

TaskStep == \/ resume_open \/ open_slave \/ open_start
            \/ open_enable \/ suspend_stop \/ stop_napi \/ stop_halt \/ stop_detach \/ cpsw_resume

Next == \/ TaskStep \/ cpsw_suspend \/ cpsw_interrupt \/ hw_transmit
        \/ \E n \in Slave : \/ dev_queue_xmit(n) \/ qdisc_run_ends(n) \/ cpsw_ndo_start_xmit(n)
                            \/ dev_watchdog(n) \/ cpsw_ndo_tx_timeout(n)
                            \/ link_up(n) \/ link_down(n) \/ linkwatch_do_dev(n) \/ cpsw_poll(n)
                            \/ dev_open(n) \/ dev_close(n) \/ hw_receive(n)

Spec == Init /\ [][Next]_vars

(* The process goes on, interrupts are taken and softirqs run, the         *)
(* watchdog timer fires, and the PHY is polled every second, which finds   *)
(* the link still up unless it has gone.                                   *)
Fairness == /\ WF_vars(TaskStep)
            /\ WF_vars(cpsw_interrupt \/ \E n \in Slave : cpsw_poll(n))
            /\ \A n \in Slave : /\ WF_vars(dev[n].carrier /\ link_up(n))
                                /\ WF_vars(dev_watchdog(n))

FairSpec == Spec /\ Fairness

(* All that the code lets one assume: also that queues are run, that the   *)
(* transmit timeout is not put off for ever, that link events are handled  *)
(* and that the DMA transmits.                                             *)
FullFairSpec ==
  /\ FairSpec /\ WF_vars(hw_transmit)
  /\ \A n \in Slave : /\ WF_vars(qdisc_run_ends(n) \/ cpsw_ndo_start_xmit(n))
                      /\ WF_vars(cpsw_ndo_tx_timeout(n)) /\ WF_vars(linkwatch_do_dev(n))

(***************************************************************************)
(* Properties.                                                             *)
(***************************************************************************)

TypeOK == /\ dev \in [Slave -> Device]
          /\ napi \in [Slave -> {"off", "idle", "sched"}]
          /\ open_stat \in [Slave -> BOOLEAN]
          /\ dma \in [state : {"idle", "active"}, tx : Seq(Slave), txdone : Nat,
                      rx : Nat, rxdone : Seq(Slave)]
          /\ Len(dma.tx) <= TxDescs /\ dma.txdone <= Len(dma.tx)
          /\ dma.rx + Len(dma.rxdone) <= RxDescs
          /\ line \in [enabled : BOOLEAN, depth : Nat]
          /\ task \in [op : {"none", "open", "close", "suspend", "suspended", "resume"},
                       n : Slave,
                       pc : {"idle", "open", "slave", "start", "enable",
                             "stop", "napi_disable", "halt", "detach"}]
          /\ lost \in BOOLEAN

(* The lines are disabled exactly once for every scheduled poll: an        *)
(* enable_irq is never unbalanced, the two devices are never polled at     *)
(* once, and without a poll the lines are open, unless the interrupt was   *)
(* lost.                                                                   *)
IrqBalanced == line.depth = Cardinality({n \in Slave : napi[n] = "sched"}) + IF lost THEN 1 ELSE 0

(* The shared DMA runs as long as a device is open, whatever the order in  *)
(* which the two are opened and closed, and a device that is open has the  *)
(* interrupts enabled or polled for.                                       *)
DmaWhileOpen == (\E n \in Slave : open_stat[n] /\ task = Idle) =>
  /\ dma.state = "active"
  /\ line.enabled \/ lost \/ \E n \in Slave : napi[n] = "sched"

(* Every packet that the DMA has transmitted is given back, also when the  *)
(* other device is polled or either one is opened or closed meanwhile,     *)
(* unless the interrupt was lost.                                          *)
TxReclaimed == dma.txdone > 0 ~> dma.txdone = 0 \/ lost

(* A waiting packet is tried again, whichever way the queue was stopped:   *)
(* also for want of descriptors that the other device had, or by a restart *)
(* that did not run the queue.  The PHY poll or the watchdog does it, if   *)
(* no transmit completion did, unless the link goes away.                  *)
BacklogRun == \A n \in Slave :
  dev[n].backlog > 0 ~> dev[n].sched \/ dev[n].backlog = 0 \/ ~dev[n].carrier

(* Documentation/networking/driver.txt: a packet for which                 *)
(* hard_start_xmit returned 0 is freed in finite time, and none is left in *)
(* the ring unreclaimed for ever.                                          *)
TxFreed == dma.txdone > 0 ~> dma.txdone = 0
=============================================================================
