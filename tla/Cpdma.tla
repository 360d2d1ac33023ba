------------------------------- MODULE Cpdma -------------------------------
(***************************************************************************)
(* The CPPI DMA engine of the Ethernet switch and its driver:              *)
(* drivers/net/ethernet/ti/davinci_cpdma.c, called as cpsw.c calls it.     *)
(*                                                                         *)
(* Every access of the CPU to the descriptor memory or to a register that  *)
(* the hardware also uses is a step of its own, so the two hardware        *)
(* channels move between any two of them.  Software does not interleave    *)
(* with software: the build is uniprocessor and not preemptible,           *)
(* cpdma_chan_submit and cpdma_ctlr_stop run with interrupts off, and the  *)
(* transmit routine, NAPI and the transmit watchdog run with bottom halves *)
(* off.  An interrupt handler only schedules NAPI, so the interrupt is the *)
(* guard of cpsw_poll.                                                     *)
(*                                                                         *)
(* Left out: packet contents and lengths, statistics, dumps, and           *)
(* chan->count, which is used only to load the flow-control register       *)
(* rxfree.                                                                 *)
(***************************************************************************)
EXTENDS Integers, Sequences, SequencesExt, FiniteSets

CONSTANTS
  NumDesc,        \* pool->num_desc
  RxDescs,        \* priv->data.rx_descs: buffers queued by cpsw_ndo_open
  Quota           \* packets cpdma_chan_process takes per call

ASSUME CpdmaAssumption ==
  /\ NumDesc \in Nat \ {0, 1} /\ Quota \in Nat \ {0}
  /\ RxDescs \in 1..(NumDesc \div 2)

Chan == {"tx", "rx"}
Nil == 0                         \* NULL, and 0 in hw_next and hdp
Desc == 1..NumDesc               \* desc_phys; bit number + 1
TxHalf == (NumDesc \div 2 + 1)..NumDesc   \* what transmit allocates from
TEARDOWN_VALUE == NumDesc + 1    \* in the completion pointer

VARIABLES
  ctlr,      \* ctlr->state
  state,     \* chan->state
  head, tail,\* chan->head, chan->tail
  bitmap,    \* pool->bitmap: numbers of the allocated descriptors
  desc,      \* hw_next and the OWNER, EOQ, TD_COMPLETE bits of hw_mode
  hdp,       \* the head descriptor pointer register of each channel
  hw,        \* what the engine is at: descriptor and the hw_next it read
  hwcp,      \* completion pointer as the engine last set it
  irq,       \* the channel's interrupt is asserted
  td,        \* teardown was requested and is not yet done
  cpu,       \* what the CPU is at
  fifo,      \* history: descriptors submitted and not yet given back
  astray     \* history: what cpdma_chan_stop left of the engine (Tame)

hardware == <<hdp, hw, hwcp, irq, td>>
driver == <<ctlr, state, head, tail, bitmap>>
history == <<fifo, astray>>
vars == <<ctlr, state, head, tail, bitmap, desc, hdp, hw, hwcp, irq, td, cpu, fifo, astray>>

Jobs == {"none", "open", "xmit", "poll", "close", "timeout"}
PCs == {"idle", "fill", "start", "submit", "chain", "check", "misqueued", "loop", "next",
        "process", "dequeue", "free", "handler", "stop", "wait", "rest", "rest_free", "stopped"}

Idle == [job |-> "none", pc |-> "idle", ch |-> "tx", desc |-> Nil, eoq |-> FALSE,
         td |-> FALSE, used |-> 0]

Init == /\ ctlr = "idle" /\ state = [c \in Chan |-> "idle"]
        /\ head = [c \in Chan |-> Nil] /\ tail = [c \in Chan |-> Nil]
        /\ bitmap = {}
        /\ desc = [d \in Desc |-> [next |-> Nil, owner |-> FALSE, eoq |-> FALSE, td |-> FALSE]]
        /\ hdp = [c \in Chan |-> Nil]
        /\ hw = [c \in Chan |-> [busy |-> Nil, next |-> Nil]]
        /\ hwcp = [c \in Chan |-> Nil]
        /\ irq = [c \in Chan |-> FALSE] /\ td = [c \in Chan |-> FALSE]
        /\ cpu = Idle
        /\ fifo = [c \in Chan |-> <<>>]
        /\ astray = [c \in Chan |-> "no"]

At(l) == cpu.pc = l
Goto(l) == cpu' = [cpu EXCEPT !.pc = l]

(* The engine does what the driver believes it does.  It no longer does    *)
(* when a stop has gone on although the teardown was not yet done          *)
(* ("late"), or has itself started the engine again ("restarted"); it does *)
(* again after the soft reset of the next open.                            *)
Tame(c) == astray[c] = "no"

(***************************************************************************)
(* The descriptor pool.                                                    *)
(***************************************************************************)

(* bitmap_find_next_zero_area for one bit: when there is none it returns   *)
(* size + 1, not size.                                                     *)
FindZero(size, start) ==
  LET zeros == (start..(size - 1)) \ bitmap
  IN  IF zeros = {} THEN size + 1 ELSE CHOOSE i \in zeros : \A j \in zeros : i <= j

(* Mutant: transmit searches the receive half too, where a full half is    *)
(* reported as a free bit.                                                 *)
AllocIndexShared(c) == IF c = "rx" THEN FindZero(NumDesc \div 2, 0)
                                   ELSE FindZero(NumDesc \div 2, 0)

(* cpdma_desc_alloc: receive takes from the lower half of the pool,        *)
(* transmit from the upper.                                                *)
AllocIndex(c) == IF c = "rx" THEN FindZero(NumDesc \div 2, 0)
                             ELSE FindZero(NumDesc, NumDesc \div 2)

(***************************************************************************)
(* Submission.                                                             *)
(***************************************************************************)

(* Where the CPU goes on when cpdma_chan_submit returns.                   *)
AfterSubmit == CASE cpu.job = "open" -> [cpu EXCEPT !.pc = "fill", !.desc = Nil]
                 [] cpu.job = "poll" -> [cpu EXCEPT !.pc = "loop", !.desc = Nil]
                 [] OTHER -> Idle

(* cpdma_chan_submit up to the call of __cpdma_chan_submit.  The new       *)
(* descriptor is not yet reachable by the engine.                          *)
cpdma_chan_submit ==
  /\ At("submit")
  /\ state[cpu.ch] # "teardown"
  /\ LET i == AllocIndex(cpu.ch)
     IN  IF i < NumDesc
         THEN /\ bitmap' = bitmap \cup {i}
              /\ desc' = [desc EXCEPT ![i + 1] = [next |-> Nil, owner |-> TRUE,
                                                  eoq |-> FALSE, td |-> FALSE]]
              /\ cpu' = [cpu EXCEPT !.pc = "chain", !.desc = i + 1]
         ELSE /\ cpu' = AfterSubmit
              /\ UNCHANGED <<bitmap, desc>>
  /\ UNCHANGED <<ctlr, state, head, tail, hardware, history>>

(* __cpdma_chan_submit on an idle channel.                                 *)
submit_head ==
  /\ At("chain") /\ head[cpu.ch] = Nil
  /\ head' = [head EXCEPT ![cpu.ch] = cpu.desc]
  /\ tail' = [tail EXCEPT ![cpu.ch] = cpu.desc]
  /\ hdp' = IF state[cpu.ch] = "active" THEN [hdp EXCEPT ![cpu.ch] = cpu.desc] ELSE hdp
  /\ fifo' = [fifo EXCEPT ![cpu.ch] = Append(@, cpu.desc)]
  /\ cpu' = AfterSubmit
  /\ UNCHANGED <<ctlr, state, bitmap, desc, hw, hwcp, irq, td, astray>>

(* Otherwise the descriptor is chained behind the tail.  cpu.desc now      *)
(* holds prev; the new descriptor is chan->tail.                           *)
submit_tail ==
  /\ At("chain") /\ head[cpu.ch] # Nil
  /\ desc' = [desc EXCEPT ![tail[cpu.ch]].next = cpu.desc]
  /\ tail' = [tail EXCEPT ![cpu.ch] = cpu.desc]
  /\ fifo' = [fifo EXCEPT ![cpu.ch] = Append(@, cpu.desc)]
  /\ cpu' = [cpu EXCEPT !.pc = "check", !.desc = tail[cpu.ch]]
  /\ UNCHANGED <<ctlr, state, head, bitmap, hardware, astray>>

(* Reads the mode of prev to see if the engine has already stopped there.  *)
check_eoq ==
  /\ At("check")
  /\ cpu' = IF desc[cpu.desc].eoq /\ ~desc[cpu.desc].owner /\ state[cpu.ch] = "active"
            THEN [cpu EXCEPT !.pc = "misqueued"]
            ELSE AfterSubmit
  /\ UNCHANGED <<driver, desc, hardware, history>>

misqueued ==
  /\ At("misqueued")
  /\ desc' = [desc EXCEPT ![cpu.desc].eoq = FALSE]
  /\ hdp' = [hdp EXCEPT ![cpu.ch] = tail[cpu.ch]]
  /\ cpu' = AfterSubmit
  /\ UNCHANGED <<driver, hw, hwcp, irq, td, history>>

(***************************************************************************)
(* Completion.                                                             *)
(***************************************************************************)

(* __cpdma_chan_process returned an error: the loop of cpdma_chan_process  *)
(* or the first loop of cpdma_chan_stop ends.                              *)
ProcessFails == Goto(IF cpu.job = "poll" THEN "next" ELSE "rest")

(* __cpdma_chan_process up to the read of the head's mode.                 *)
process_head ==
  /\ At("process")
  /\ LET d == head[cpu.ch]
     IN  IF d = Nil \/ desc[d].owner
         THEN ProcessFails
         ELSE cpu' = [cpu EXCEPT !.pc = "dequeue", !.desc = d,
                                 !.eoq = desc[d].eoq, !.td = desc[d].td]
  /\ UNCHANGED <<driver, desc, hardware, history>>

(* Mutant: a channel that stopped behind this packet is not restarted.     *)
dequeue_no_requeue ==
  /\ At("dequeue")
  /\ head' = [head EXCEPT ![cpu.ch] = desc[cpu.desc].next]
  /\ irq' = [irq EXCEPT ![cpu.ch] = @ /\ hwcp[cpu.ch] # cpu.desc]
  /\ Goto("free")
  /\ UNCHANGED <<ctlr, state, tail, bitmap, desc, hdp, hw, hwcp, td, history>>

(* Mutant: the acknowledgement clears the interrupt even if the engine has *)
(* completed more in the meantime.                                         *)
dequeue_acks_all ==
  /\ At("dequeue")
  /\ LET next == desc[cpu.desc].next
     IN  /\ head' = [head EXCEPT ![cpu.ch] = next]
         /\ hdp' = IF cpu.eoq /\ next # Nil /\ ~cpu.td
                   THEN [hdp EXCEPT ![cpu.ch] = next] ELSE hdp
  /\ irq' = [irq EXCEPT ![cpu.ch] = FALSE]
  /\ Goto("free")
  /\ UNCHANGED <<ctlr, state, tail, bitmap, desc, hw, hwcp, td, history>>

(* The engine stopped behind this packet although there is more, and not   *)
(* because of a teardown.                                                  *)
Requeue == cpu.eoq /\ desc[cpu.desc].next # Nil /\ ~cpu.td

(* A restart in the loop of cpdma_chan_stop.                               *)
StopRestarts == Requeue /\ state[cpu.ch] # "active"

(* Mutant: the engine is also restarted behind a teardown.                 *)
dequeue_ignores_td ==
  /\ At("dequeue")
  /\ LET next == desc[cpu.desc].next
     IN  /\ head' = [head EXCEPT ![cpu.ch] = next]
         /\ hdp' = IF cpu.eoq /\ next # Nil THEN [hdp EXCEPT ![cpu.ch] = next] ELSE hdp
  /\ irq' = [irq EXCEPT ![cpu.ch] = @ /\ hwcp[cpu.ch] # cpu.desc]
  /\ astray' = IF StopRestarts THEN [astray EXCEPT ![cpu.ch] = "restarted"] ELSE astray
  /\ Goto("free")
  /\ UNCHANGED <<ctlr, state, tail, bitmap, desc, hw, hwcp, td, fifo>>

(* The head moves on, the completion is acknowledged (the interrupt goes   *)
(* away if nothing was completed since) and the engine is restarted if it  *)
(* stopped here although there is more.                                    *)
dequeue ==
  /\ At("dequeue")
  /\ LET next == desc[cpu.desc].next
     IN  /\ head' = [head EXCEPT ![cpu.ch] = next]
         /\ hdp' = IF Requeue THEN [hdp EXCEPT ![cpu.ch] = next] ELSE hdp
  /\ irq' = [irq EXCEPT ![cpu.ch] = @ /\ hwcp[cpu.ch] # cpu.desc]
  /\ astray' = IF StopRestarts /\ Tame(cpu.ch)
               THEN [astray EXCEPT ![cpu.ch] = "restarted"] ELSE astray
  /\ Goto("free")
  /\ UNCHANGED <<ctlr, state, tail, bitmap, desc, hw, hwcp, td, fifo>>

(* __cpdma_chan_free of cpu.desc: the buffer is unmapped, the descriptor   *)
(* returned to the pool, and the handler called, which gives the buffer    *)
(* back to the network stack.                                              *)
FreeDesc(l) ==
  /\ bitmap' = bitmap \ {cpu.desc - 1}
  /\ fifo' = [fifo EXCEPT ![cpu.ch] = RemoveAt(@, CHOOSE i \in DOMAIN @ : @[i] = cpu.desc)]
  /\ Goto(l)
  /\ UNCHANGED <<ctlr, state, head, tail, desc, hardware, astray>>

cpdma_chan_free == At("free") /\ FreeDesc("handler")

(* After the handler: the poll loop counts the packet; the loop of         *)
(* cpdma_chan_stop goes on until it has seen TD_COMPLETE.                  *)
AfterHandler == IF cpu.job = "poll"
                THEN [cpu EXCEPT !.pc = "loop", !.used = @ + 1, !.desc = Nil,
                                 !.eoq = FALSE, !.td = FALSE]
                ELSE [cpu EXCEPT !.pc = IF cpu.td THEN "rest" ELSE "process",
                                 !.desc = Nil, !.eoq = FALSE, !.td = FALSE]

(* cpsw_tx_handler, and cpsw_rx_handler when it drops its buffer: the      *)
(* interface is down, has no carrier, or no new buffer can be allocated.   *)
handler_drops ==
  /\ At("handler")
  /\ cpu' = AfterHandler
  /\ UNCHANGED <<driver, desc, hardware, history>>

(* cpsw_rx_handler when it passes the packet on and queues a new buffer.   *)
rx_handler_resubmits ==
  /\ At("handler") /\ cpu.ch = "rx" /\ cpu.job = "poll"
  /\ cpu' = [AfterHandler EXCEPT !.pc = "submit"]
  /\ UNCHANGED <<driver, desc, hardware, history>>

(* cpsw_poll, started because a channel interrupts, and the loop of        *)
(* cpdma_chan_process, first for transmit and then for receive.            *)
cpsw_poll ==
  /\ At("idle") /\ ctlr = "active"
  /\ \E c \in Chan : irq[c]
  /\ cpu' = [Idle EXCEPT !.job = "poll", !.pc = "loop"]
  /\ UNCHANGED <<driver, desc, hardware, history>>

process_loop ==
  /\ At("loop")
  /\ state[cpu.ch] = "active"
  /\ Goto(IF cpu.used < Quota THEN "process" ELSE "next")
  /\ UNCHANGED <<driver, desc, hardware, history>>

poll_next ==
  /\ At("next")
  /\ cpu' = IF cpu.ch = "tx" THEN [Idle EXCEPT !.job = "poll", !.pc = "loop", !.ch = "rx"]
                             ELSE Idle
  /\ UNCHANGED <<driver, desc, hardware, history>>

(***************************************************************************)
(* Starting and stopping.                                                  *)
(***************************************************************************)

cpsw_ndo_open ==
  /\ At("idle") /\ ctlr = "idle"
  /\ cpu' = [Idle EXCEPT !.job = "open", !.pc = "fill", !.ch = "rx"]
  /\ UNCHANGED <<driver, desc, hardware, history>>

(* The loop that queues the receive buffers; it ends early when no buffer  *)
(* can be allocated.                                                       *)
open_fill ==
  /\ At("fill")
  /\ \/ /\ cpu.used < RxDescs
        /\ cpu' = [cpu EXCEPT !.pc = "submit", !.used = @ + 1]
     \/ Goto("start")
  /\ UNCHANGED <<driver, desc, hardware, history>>

(* cpdma_ctlr_start: soft reset, the registers cleared, and every channel  *)
(* started at its head.                                                    *)
cpdma_ctlr_start ==
  /\ At("start")
  /\ ctlr' = "active"
  /\ state' = [c \in Chan |-> "active"]
  /\ hdp' = head
  /\ hw' = [c \in Chan |-> [busy |-> Nil, next |-> Nil]]
  /\ hwcp' = [c \in Chan |-> Nil]
  /\ irq' = [c \in Chan |-> FALSE] /\ td' = [c \in Chan |-> FALSE]
  /\ astray' = [c \in Chan |-> "no"]
  /\ cpu' = Idle
  /\ UNCHANGED <<head, tail, bitmap, desc, fifo>>

(* cpsw_ndo_start_xmit                                                     *)
cpsw_ndo_start_xmit ==
  /\ At("idle") /\ ctlr = "active"
  /\ cpu' = [Idle EXCEPT !.job = "xmit", !.pc = "submit"]
  /\ UNCHANGED <<driver, desc, hardware, history>>

(* cpsw_ndo_stop, at cpdma_ctlr_stop: transmit is stopped before receive.  *)
cpsw_ndo_stop ==
  /\ At("idle") /\ ctlr = "active"
  /\ ctlr' = "teardown"
  /\ cpu' = [Idle EXCEPT !.job = "close", !.pc = "stop"]
  /\ UNCHANGED <<state, head, tail, bitmap, desc, hardware, history>>

(* cpsw_ndo_tx_timeout, when the queue has been stopped for too long; the  *)
(* time is left out.                                                       *)
cpsw_ndo_tx_timeout ==
  /\ At("idle") /\ ctlr = "active"
  /\ cpu' = [Idle EXCEPT !.job = "timeout", !.pc = "stop"]
  /\ UNCHANGED <<driver, desc, hardware, history>>

(* cpdma_chan_stop: the teardown request.                                  *)
cpdma_chan_stop ==
  /\ At("stop")
  /\ state[cpu.ch] = "active"
  /\ state' = [state EXCEPT ![cpu.ch] = "teardown"]
  /\ td' = [td EXCEPT ![cpu.ch] = TRUE]
  /\ Goto("wait")
  /\ UNCHANGED <<ctlr, head, tail, bitmap, desc, hdp, hw, hwcp, irq, history>>

(* The wait for the teardown value and its acknowledgement.  The loop may  *)
(* end at any time: 100 ms are over, or the completion pointer still holds *)
(* the value of an earlier teardown.                                       *)
stop_wait ==
  /\ At("wait")
  /\ irq' = [irq EXCEPT ![cpu.ch] = @ /\ hwcp[cpu.ch] # TEARDOWN_VALUE]
  /\ astray' = IF td[cpu.ch] THEN [astray EXCEPT ![cpu.ch] = "late"] ELSE astray
  /\ Goto("process")
  /\ UNCHANGED <<driver, desc, hdp, hw, hwcp, td, fifo>>

(* The packets left behind the teardown are given back one by one.         *)
stop_rest ==
  /\ At("rest") /\ head[cpu.ch] # Nil
  /\ head' = [head EXCEPT ![cpu.ch] = desc[head[cpu.ch]].next]
  /\ cpu' = [cpu EXCEPT !.pc = "rest_free", !.desc = head[cpu.ch]]
  /\ UNCHANGED <<ctlr, state, tail, bitmap, desc, hardware, history>>

stop_rest_free == At("rest_free") /\ FreeDesc("rest")

stop_done ==
  /\ At("rest") /\ head[cpu.ch] = Nil
  /\ state' = [state EXCEPT ![cpu.ch] = "idle"]
  /\ Goto("stopped")
  /\ UNCHANGED <<ctlr, head, tail, bitmap, desc, hardware, history>>

(* The rest of cpdma_ctlr_stop.                                            *)
ctlr_stop_next ==
  /\ At("stopped") /\ cpu.job = "close"
  /\ IF cpu.ch = "tx"
     THEN cpu' = [cpu EXCEPT !.pc = "stop", !.ch = "rx", !.desc = Nil] /\ UNCHANGED ctlr
     ELSE cpu' = Idle /\ ctlr' = "idle"
  /\ UNCHANGED <<state, head, tail, bitmap, desc, hardware, history>>

(* cpdma_chan_start, called by cpsw_ndo_tx_timeout.                        *)
cpdma_chan_start ==
  /\ At("stopped") /\ cpu.job = "timeout"
  /\ state' = [state EXCEPT ![cpu.ch] = "active"]
  /\ hdp' = IF head[cpu.ch] # Nil THEN [hdp EXCEPT ![cpu.ch] = head[cpu.ch]] ELSE hdp
  /\ cpu' = Idle
  /\ UNCHANGED <<ctlr, head, tail, bitmap, desc, hw, hwcp, irq, td, history>>

(***************************************************************************)
(* The engine (external): what the driver relies on.                       *)
(***************************************************************************)

(* It takes the descriptor at hdp and reads its hw_next.  A receive        *)
(* channel does so when a packet arrives.                                  *)
hw_fetch(c) ==
  /\ ctlr # "idle" /\ hdp[c] # Nil /\ hw[c].busy = Nil
  /\ hw' = [hw EXCEPT ![c] = [busy |-> hdp[c], next |-> desc[hdp[c]].next]]
  /\ hdp' = [hdp EXCEPT ![c] = desc[hdp[c]].next]
  /\ UNCHANGED <<driver, desc, hwcp, irq, td, cpu, history>>

(* It gives the descriptor back, marked EOQ if it had no successor, and    *)
(* interrupts.                                                             *)
hw_complete(c) ==
  /\ hw[c].busy # Nil /\ ctlr # "idle"
  /\ desc' = [desc EXCEPT ![hw[c].busy].owner = FALSE, ![hw[c].busy].eoq = (hw[c].next = Nil)]
  /\ hw' = [hw EXCEPT ![c] = [busy |-> Nil, next |-> Nil]]
  /\ hwcp' = [hwcp EXCEPT ![c] = hw[c].busy]
  /\ irq' = [irq EXCEPT ![c] = TRUE]
  /\ UNCHANGED <<driver, hdp, td, cpu, history>>

(* A teardown takes effect between packets: the next descriptor, if any,   *)
(* is given back with TD_COMPLETE, and the channel stops.                  *)
hw_teardown(c) ==
  /\ td[c] /\ hw[c].busy = Nil /\ ctlr # "idle"
  /\ desc' = IF hdp[c] = Nil THEN desc
             ELSE [desc EXCEPT ![hdp[c]].owner = FALSE, ![hdp[c]].eoq = TRUE, ![hdp[c]].td = TRUE]
  /\ hdp' = [hdp EXCEPT ![c] = Nil]
  /\ hwcp' = [hwcp EXCEPT ![c] = TEARDOWN_VALUE]
  /\ irq' = [irq EXCEPT ![c] = TRUE]
  /\ td' = [td EXCEPT ![c] = FALSE]
  /\ UNCHANGED <<driver, hw, cpu, history>>

(***************************************************************************)
(* The specification.                                                      *)
(***************************************************************************)

Submission == \/ cpdma_chan_submit \/ submit_head \/ submit_tail \/ check_eoq \/ misqueued
Completion == \/ process_head \/ dequeue \/ cpdma_chan_free \/ handler_drops
              \/ rx_handler_resubmits \/ process_loop \/ poll_next
Control == \/ open_fill \/ cpdma_ctlr_start \/ cpdma_chan_stop \/ stop_wait \/ stop_rest
           \/ stop_rest_free \/ stop_done \/ ctlr_stop_next \/ cpdma_chan_start
Calls == cpsw_ndo_open \/ cpsw_ndo_start_xmit \/ cpsw_ndo_stop \/ cpsw_ndo_tx_timeout
Engine(c) == hw_fetch(c) \/ hw_complete(c) \/ hw_teardown(c)

Next == Submission \/ Completion \/ Control \/ Calls \/ cpsw_poll \/ \E c \in Chan : Engine(c)

Spec == Init /\ [][Next]_vars

(* The CPU goes on with what it is at.  NAPI runs on the way out of the    *)
(* interrupt, before the interrupted context can transmit again, so a      *)
(* pending interrupt is not put off for ever.  The engine transmits what   *)
(* it is given and finishes what it began; receiving waits for the wire.   *)
Fairness == /\ WF_vars(Submission \/ Completion \/ Control)
            /\ SF_vars(cpsw_poll)
            /\ WF_vars(hw_fetch("tx"))
            /\ \A c \in Chan : WF_vars(hw_complete(c)) /\ WF_vars(hw_teardown(c))

FairSpec == Spec /\ Fairness

(***************************************************************************)
(* Properties.                                                             *)
(***************************************************************************)

(* The types; the counter of a loop stays within the loop's limit: a poll  *)
(* never takes more than its quota.                                        *)
TypeOK == /\ ctlr \in {"idle", "active", "teardown"}
          /\ state \in [Chan -> {"idle", "active", "teardown"}]
          /\ head \in [Chan -> Desc \cup {Nil}] /\ tail \in [Chan -> Desc \cup {Nil}]
          /\ bitmap \subseteq 0..(NumDesc - 1)
          /\ desc \in [Desc -> [next : Desc \cup {Nil}, owner : BOOLEAN,
                                eoq : BOOLEAN, td : BOOLEAN]]
          /\ hdp \in [Chan -> Desc \cup {Nil}]
          /\ hw \in [Chan -> [busy : Desc \cup {Nil}, next : Desc \cup {Nil}]]
          /\ hwcp \in [Chan -> Desc \cup {Nil, TEARDOWN_VALUE}]
          /\ irq \in [Chan -> BOOLEAN] /\ td \in [Chan -> BOOLEAN]
          /\ cpu \in [job : Jobs, pc : PCs, ch : Chan, desc : Desc \cup {Nil},
                      eoq : BOOLEAN, td : BOOLEAN, used : Nat]
          /\ cpu.used <= IF cpu.job = "poll" THEN Quota ELSE RxDescs
          /\ fifo \in [Chan -> Seq(Desc)]
          /\ astray \in [Chan -> {"no", "late", "restarted"}]

(* The engine is only ever at a descriptor that was submitted to its       *)
(* channel and not yet given back: it never moves data into or out of a    *)
(* buffer the network stack owns again, unless a stop let it go astray.    *)
DmaOnQueuedBuffers == \A c \in Chan :
  Tame(c) => {hdp[c], hw[c].busy} \subseteq ToSet(fifo[c]) \cup {Nil}

(* What the comment in cpdma_chan_stop says of the packets its last loop   *)
(* gives back: they have not been transmitted or received.  Not said of a  *)
(* stop that did not wait for the teardown, of which the driver warns.     *)
RestUntouched == \A c \in Chan :
  (At("rest_free") /\ cpu.ch = c /\ astray[c] # "late")
    => desc[cpu.desc].owner /\ hw[c].busy # cpu.desc

(* The list in descriptor memory, followed over hw_next from chan->head,   *)
(* is the queue of what was submitted and not given back, in order; no     *)
(* descriptor is in two queues or in one twice, and exactly the queued     *)
(* ones are allocated, which are none when the interface is down.  This    *)
(* holds even when the engine is astray.                                   *)
QueueIntact == At("idle") =>
  /\ \A c \in Chan : LET q == fifo[c] IN
       /\ head[c] = IF q = <<>> THEN Nil ELSE q[1]
       /\ q # <<>> => tail[c] = Last(q)
       /\ \A i \in 1..Len(q) : desc[q[i]].next = IF i = Len(q) THEN Nil ELSE q[i + 1]
  /\ \A c, e \in Chan, i, j \in Desc :
       (i <= Len(fifo[c]) /\ j <= Len(fifo[e]) /\ fifo[c][i] = fifo[e][j]) => c = e /\ i = j
  /\ bitmap = {d - 1 : d \in UNION {ToSet(fifo[c]) : c \in Chan}}
  /\ ctlr = "idle" => bitmap = {}

(* A running channel with packets is being worked on, or interrupts:       *)
(* whatever the order of the engine's end of queue and the submitter's     *)
(* chaining, one side restarts the channel.                                *)
NoStalledQueue == \A c \in Chan :
  (At("idle") /\ Tame(c) /\ state[c] = "active" /\ fifo[c] # <<>>)
    => hdp[c] # Nil \/ hw[c].busy # Nil \/ irq[c]

(* Every transmitted packet is given back, unless a stop let the engine go *)
(* astray.                                                                 *)
TransmitsComplete == \A d \in TxHalf :
  (d \in ToSet(fifo["tx"])) ~> (d \notin ToSet(fifo["tx"]) \/ ~Tame("tx"))

=============================================================================
