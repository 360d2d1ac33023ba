------------------------------- MODULE WkupM3 -------------------------------
(***************************************************************************)
(* The Cortex M3 that puts the AM335x to sleep: the begin and end          *)
(* callbacks of arch/arm/mach-omap2/pm33xx.c and the sending side of the   *)
(* mailbox, arch/arm/plat-omap/mailbox.c.                                  *)
(*                                                                         *)
(* The command is in the IPC registers, the message in the mailbox only    *)
(* interrupts the M3, whose answer is the TXEV interrupt.  The code waits  *)
(* five seconds for it, and a wait may end at any time without it: the M3  *)
(* is external, and may answer late or never.                              *)
(*                                                                         *)
(* TXEV and the M3 come between any two statements of a callback that      *)
(* touch what they touch.                                                  *)
(***************************************************************************)
EXTENDS Integers

CONSTANTS
  FifoSize,    \* messages the mailbox holds
  KfifoSize    \* messages the queue of the driver holds

ASSUME WkupM3Assumption == FifoSize \in Nat \ {0} /\ KfifoSize \in Nat \ {0}

VARIABLES
  m3_state,
  ipc,       \* the command in the IPC registers
  mbox,      \* the mailbox: messages in its FIFO, in the kfifo, the interrupt
             \* to the M3 enabled, and raised
  a8_m3_sync,\* the completion's count
  m3,        \* the M3: the command it obeys, its TXEV interrupt, and m3_eoi,
             \* which keeps TXEV from being raised while it is set
  hlt,       \* hlt_counter: the idle loop may not stop the processor
  m3call,    \* the callback under way: where it is, what follows a reset, its
             \* result
  stale      \* history, from begin to end: begin found an answer to an earlier
             \* message left over or still to come

m3Vars == <<m3_state, ipc, mbox, a8_m3_sync, m3, hlt, m3call, stale>>

(* After wkup_m3_init and the interrupt with which the firmware answers.   *)
M3Init ==
  /\ m3_state = "INITED" /\ ipc = "reset"
  /\ mbox = [fifo |-> 0, kfifo |-> 0, enabled |-> TRUE, raised |-> FALSE]
  /\ a8_m3_sync = 0
  /\ m3 = [mode |-> "reset", txev |-> FALSE, eoi |-> FALSE]
  /\ hlt = 0
  /\ m3call = [pc |-> "none", next |-> "none", ret |-> 0]
  /\ stale = FALSE

(***************************************************************************)
(* The mailbox.                                                            *)
(***************************************************************************)

(* omap_mbox_msg_send: the message goes to the kfifo and the tasklet, which*)
(* runs when the lock is released, moves what fits into the FIFO; with an  *)
(* empty kfifo and space the message is written at once, which is the same.*)
(* Only a further message moves what is left: the interrupt for a FIFO     *)
(* with space again is enabled for the M3, not for the A8.                 *)
CanSend == mbox.kfifo < KfifoSize

Sent(box) ==
  LET queued == box.kfifo + 1
      space == FifoSize - box.fifo
      moved == IF queued < space THEN queued ELSE space
  IN  [box EXCEPT !.fifo = @ + moved, !.kfifo = queued - moved, !.raised = @ \/ moved > 0]

(* The M3 is interrupted, reads the command and answers.                   *)
M3Answers ==
  /\ mbox.raised /\ mbox.enabled /\ ~m3.txev
  /\ mbox' = [mbox EXCEPT !.raised = FALSE]
  /\ m3' = [m3 EXCEPT !.mode = ipc, !.txev = ~m3.eoi]
  /\ UNCHANGED <<m3_state, ipc, a8_m3_sync, hlt, m3call, stale>>

(* The interrupt handler: it flushes the FIFO and ends the wait.  In an    *)
(* unknown state it returns with m3_eoi set.                               *)
wkup_m3_txev_handler ==
  /\ m3.txev
  /\ m3' = [m3 EXCEPT !.txev = FALSE, !.eoi = (m3_state = "UNKNOWN")]
  /\ m3_state' = IF m3_state = "MSG_FOR_RESET" THEN "INITED" ELSE m3_state
  /\ IF m3_state \in {"MSG_FOR_RESET", "MSG_FOR_LP"}
     THEN a8_m3_sync' = a8_m3_sync + 1
     ELSE UNCHANGED a8_m3_sync
  /\ mbox' = IF m3_state = "INITED" THEN mbox ELSE [mbox EXCEPT !.fifo = 0, !.raised = FALSE]
  /\ UNCHANGED <<ipc, hlt, m3call, stale>>

(***************************************************************************)
(* The callbacks.                                                          *)
(***************************************************************************)

(* Something of an earlier message is left that can end a wait.            *)
AnswerDue == m3.txev \/ mbox.raised

(* The callback goes on at a statement; a reset returns to next.           *)
Go(where) == m3call' = [m3call EXCEPT !.pc = where]
CallReset(next, ret) == m3call' = [pc |-> "reset", next |-> next, ret |-> ret]

(* am33xx_pm_begin up to am33xx_ipc_cmd.                                   *)
am33xx_pm_begin ==
  /\ m3call.pc = "none"
  /\ hlt' = hlt + 1
  /\ ipc' = "lp"
  /\ stale' = (AnswerDue \/ a8_m3_sync > 0)
  /\ Go("lp_state")
  /\ UNCHANGED <<m3_state, mbox, a8_m3_sync, m3>>

lp_state ==
  /\ m3call.pc = "lp_state"
  /\ m3_state' = "MSG_FOR_LP" /\ mbox' = [mbox EXCEPT !.enabled = TRUE]
  /\ Go("lp_send")
  /\ UNCHANGED <<ipc, a8_m3_sync, m3, hlt, stale>>

(* A message that cannot be sent is followed by a reset, and then the      *)
(* answer is waited for all the same.                                      *)
lp_send ==
  /\ m3call.pc = "lp_send"
  /\ IF CanSend THEN mbox' = Sent(mbox) /\ Go("lp_wait")
                ELSE UNCHANGED mbox /\ CallReset("lp_wait", -1)
  /\ UNCHANGED <<m3_state, ipc, a8_m3_sync, m3, hlt, stale>>

(* wait_for_completion_timeout returns 0: only an answer that is there     *)
(* already keeps it from that.                                             *)
TimedOut == a8_m3_sync = 0

lp_wait ==
  /\ m3call.pc = "lp_wait"
  /\ IF TimedOut
     THEN CallReset("done", -1) /\ UNCHANGED <<a8_m3_sync, mbox>>
     ELSE /\ a8_m3_sync' = a8_m3_sync - 1
          /\ mbox' = [mbox EXCEPT !.enabled = FALSE]
          /\ Go("done")
  /\ UNCHANGED <<m3_state, ipc, m3, hlt, stale>>

(* am33xx_m3_state_machine_reset.                                          *)
am33xx_m3_state_machine_reset ==
  /\ m3call.pc = "reset"
  /\ ipc' = "reset"
  /\ Go("reset_state")
  /\ UNCHANGED <<m3_state, mbox, a8_m3_sync, m3, hlt, stale>>

reset_state ==
  /\ m3call.pc = "reset_state"
  /\ m3_state' = "MSG_FOR_RESET"
  /\ Go("reset_send")
  /\ UNCHANGED <<ipc, mbox, a8_m3_sync, m3, hlt, stale>>

reset_send ==
  /\ m3call.pc = "reset_send"
  /\ IF CanSend
     THEN mbox' = Sent(mbox) /\ Go("reset_wait") /\ UNCHANGED m3_state
     ELSE /\ m3_state' = "UNKNOWN"
          /\ m3call' = [m3call EXCEPT !.pc = m3call.next, !.next = "none"]
          /\ UNCHANGED mbox
  /\ UNCHANGED <<ipc, a8_m3_sync, m3, hlt, stale>>

reset_wait ==
  /\ m3call.pc = "reset_wait"
  /\ a8_m3_sync' = IF TimedOut THEN 0 ELSE a8_m3_sync - 1
  /\ m3call' = [m3call EXCEPT !.pc = m3call.next, !.next = "none"]
  /\ UNCHANGED <<m3_state, ipc, mbox, m3, hlt, stale>>

(* am33xx_pm_end, and its last statement when the reset has returned.      *)
am33xx_pm_end ==
  /\ m3call.pc = "none"
  /\ mbox' = [mbox EXCEPT !.enabled = TRUE]
  /\ CallReset("end", 0)
  /\ stale' = FALSE
  /\ UNCHANGED <<m3_state, ipc, a8_m3_sync, m3, hlt>>

enable_hlt ==
  /\ m3call.pc = "end"
  /\ hlt' = hlt - 1
  /\ Go("done")
  /\ UNCHANGED <<m3_state, ipc, mbox, a8_m3_sync, m3, stale>>

Callback == \/ lp_state \/ lp_send \/ lp_wait
            \/ am33xx_m3_state_machine_reset \/ reset_state \/ reset_send \/ reset_wait
            \/ enable_hlt

(* The callback has returned to the caller.                                *)
Returned == m3call.pc = "done"
Return == m3call' = [pc |-> "none", next |-> "none", ret |-> 0]

M3TypeOK ==
  /\ m3_state \in {"UNKNOWN", "INITED", "MSG_FOR_RESET", "MSG_FOR_LP"}
  /\ ipc \in {"lp", "reset"}
  /\ mbox \in [fifo : 0..FifoSize, kfifo : 0..KfifoSize, enabled : BOOLEAN, raised : BOOLEAN]
  /\ a8_m3_sync \in Nat
  /\ m3 \in [mode : {"lp", "reset"}, txev : BOOLEAN, eoi : BOOLEAN]
  /\ hlt \in 0..1
  /\ m3call \in [pc : {"none", "lp_state", "lp_send", "lp_wait", "reset", "reset_state",
                       "reset_send", "reset_wait", "end", "done"},
                 next : {"none", "lp_wait", "done", "end"}, ret : {0, -1}]
  /\ stale \in BOOLEAN

=============================================================================
