# TLA+ models of the AM335x monitor kernel

The repository is a Linux 3.2 kernel (`src/linux-3.2.0`) for a patient monitor
built on TI's AM335x. This project models the parts of it that are concurrent,
small enough to be checked, and used by everything else on the board: the
sleeping locks, runtime power management, system suspend, the driver of the
Ethernet switch and its DMA, and the vendor's own nurse-call driver.

The build matters to what can interleave. `arch/arm/configs/aPM_MPU_defconfig`
selects a uniprocessor kernel without preemption (no `CONFIG_SMP`,
`CONFIG_PREEMPT_NONE`), `CONFIG_RWSEM_GENERIC_SPINLOCK`, tiny RCU,
`CONFIG_PM_RUNTIME`, the dual-EMAC mode of CPSW and the nurse-call driver.
Tasks change only where one sleeps, but interrupts, softirqs, timers and
hardware come in between any two statements. The lock models and `RuntimePM`
do not use the uniprocessor assumption for safety: their steps interleave as
they would with several processors. `Cpdma`, `Cpsw`, `Suspend` and `NurseCall`
do use it, because their code has no locking that would make it right
otherwise.

## 1. Inventory

| Component | State | Operations | Interacts with | What is hard | What makes it correct |
|---|---|---|---|---|---|
| Read/write semaphores, `lib/rwsem-spinlock.c` | `activity`, `wait_list`, `wait_lock`, a waiter on the stack of each sleeper | down/up read/write, trylocks, downgrade, the two waking functions | tasks, scheduler | the sleeper polls its waiter without the lock while a waker hands the lock over and wakes it | exclusion, exact `activity`, first come first served, no lost wake-up |
| Counting semaphores, `kernel/semaphore.c` | `count`, `wait_list` | down, interruptible, killable, timeout, trylock, up | signals, timers | a hand-over racing a signal or a timeout | units neither lost nor invented, no waiter behind a free unit |
| Mutexes, `kernel/mutex.c`, ARM fast paths | `count`, `wait_list`, `wait_lock` | lock (three kinds), trylock, unlock, slow paths | signals | `count` changes outside the lock; -1 means "maybe waiters" | exclusion, a free mutex has count 1, a free mutex with waiters gets taken |
| Runtime PM, `drivers/base/power/runtime.c` | `dev->power`: status, usage and child counts, request and its work item, timer, flags; wait queue | get/put, idle, suspend, resume, autosuspend, barrier, enable/disable, forbid/allow, set_status, the work and the timer | bus and driver callbacks, workqueue `pm_wq`, timer softirq, parent and child devices | the lock is dropped around every callback and on the way to the parent; functions call each other and repeat their tests | a held device is active, no active device under an inactive parent, counts balance, waiters are woken, a disable leaves nothing running |
| CPPI DMA, `davinci_cpdma.c` | descriptor pool, queue per channel, the registers of the engine | submit, process, start, stop | DMA engine, `cpsw.c` (open, xmit, NAPI poll, watchdog, close) | the engine runs into the end of the queue while the CPU extends it; teardown | the engine only sees queued buffers, no stalled queue, every packet back once and in order |
| Nurse call, `drivers/nursecall` | mode, pulse flag, level, GPIO pin, timer | six ioctl commands, the pulse timer | user process, timer softirq | the timer outlives a change of mode | the pin shows the call, a pulse ends |
| CPSW driver, `cpsw.c`, on `net/core/dev.c` and `net/sched/sch_generic.c` | two network devices with a queue, a NAPI and a PHY each; one DMA, one set of interrupt lines; which slaves are open | open, stop, suspend, resume, xmit, transmit timeout, interrupt, poll, completion handlers, link changes | CPDMA, NAPI, qdisc, watchdog, PHY poll, rtnl | two queues over one ring; interrupts masked in two places by one context and unmasked by another; opens and closes in between | enable and disable of the lines balance, the DMA runs while somebody needs it, packets come back, a stopped queue is run again |
| Wakeup sources, `power/wakeup.c` | events registered and in progress in one word, sources with a timer, the saved count | stay_awake, relax, wakeup_event, timer, creation and removal, save and check of the count | suspend, drivers, sysfs | an event between the check and the suspend; a timer function that has started | no event is slept over, the count of events in progress is exact |
| System suspend, `kernel/power`, `power/main.c` | four device lists, completions, `async_error`, frozen tasks | freeze, prepare, suspend, suspend without interrupts, the way back from each | wakeup sources, runtime PM, interrupt lines, the platform | a thread per device, failures half-way, events at any moment | children before parents, sleep only when all is quiet, everything restored |
| AM335x sleep, `pm33xx.c` | state of the message exchange, IPC registers, completion | begin, enter, end, reset, TXEV interrupt | Cortex M3, mailbox | the M3 answers late or never | the M3 has the command when the system sleeps, everything is restored after a failed exchange, late answers do not add up |
| Interrupt core, `kernel/irq` | line state, depth, pending | suspend and resume of the lines, flow handlers, check for wakeup interrupts | drivers, suspend | an interrupt on a line that has just been disabled | it is not forgotten |
| Mailbox, `plat-omap/mailbox.c` | software queue, hardware FIFO | send, flush | tasklet, M3 | both full | the sender learns of it |
| omap_device, omap_hwmod | state machine per module | enable, idle, shutdown | runtime PM callbacks | failure in the middle | state matches the clocks |
| Scheduler, timers, softirqs, workqueues, RCU | | | everything | | used as environment |
| mm, fs, network stack, CAN, USB, sound, LEDs, boards | | | | | not considered |

`PROJECT.json` lists every component with its status, and under `hazards` the
places where the code is hard to test, each at its line and with the
properties that would notice.

## 2. Plan

1. *(done)* Sleeping locks: `RwLock` (what a fair read/write lock promises),
   `RwSem` implementing it, `Semaphore`, `Mutex`, with proofs.
2. *(done)* `RuntimePM`, model-checked and proved.
3. *(done)* `Cpdma` and `NurseCall`, model-checked and proved.
4. *(done)* `Wakeup`, `DevicePM` and `WkupM3`, composed in `Suspend`,
   model-checked.
5. *(done)* `Cpsw`: the interrupt, NAPI and the two network devices with their
   transmit queues over the rings that `Cpdma` shows to be FIFO queues,
   model-checked.
6. *(done)* Proofs about `Cpsw`, for any ring sizes and budget, and about
   `Suspend`, for any device tree, sources and word size.
7. *(done)* Proofs about `RuntimePM`: the callbacks, the counters, what a get,
   a child and a disable are promised, the wait queues and the work items, for
   any tree of devices.
8. *(done)* Proofs about `Cpdma`: the queues, the pool and the engine, for any
   pool and quota.
9. Later: SRCU, `omap_device`, the request and release side of the interrupt
   core, the CAN controller.

## 3. Modules

`KList` and `KTask` hold what the locks share: lists as sequences (`list_del`)
and `signal_pending_state`. Each `MC*` module only instantiates its
specification.

Definitions have the names of the functions they model where there is one
action per function; a function that gives up the lock, sleeps or touches
something another actor reads has one action per stretch in between, and `map`
in `PROJECT.json` gives the lines of each. Definitions whose comment begins
with "Mutant:" are deliberate errors. Each property is known to fail when its
mutant takes the place of the definition below it; no specification uses them.

### RwLock, RwSem

A critical section of `sem->wait_lock` is one step, except where it publishes
something a task reads without the lock: clearing `waiter->task` and
`wake_up_process` are separate steps of the waker, taken with the lock held.
`pc` says where each task is, `waiting` is `waiter.task # NULL`, `tsk` and
`woken` are locals of the waking function. `RwLock` is the promise: requests
are queued, and granted in order, leading readers together. `RwSem!LockSpec`
is its instance under the mapping from tasks to requests and holders.

### Semaphore

Every critical section of `sem->lock` is a step. Sleeping, signals, time-outs
and stray wake-ups are separate. `how` is the variant of `down` a task is in.
`total` is the number of units ever put in, bounded by `MaxTotal` since
anybody may call `up`.

### Mutex

`count` is changed by `ldrex`/`strex` pairs without a lock: a step has at most
one access to it, and a failed exclusive store is a step of its own. The
slow paths own `wait_lock`.

### RuntimePM

Each actor (a task, the worker of a device, the timer softirq) has a stack of
frames because `rpm_idle`, `rpm_suspend` and `rpm_resume` call each other and
`__pm_runtime_*` functions. A step is what happens under one hold of
`power.lock`; `lock` is the actor that keeps it across an internal call. Time
is left out: an armed timer may fire at any moment and a delay may or may not
be over. Callbacks return one of `SuspendResults`/`ResumeResults`, and an idle
callback may itself request a suspend, as `pm_generic_runtime_idle` does.
`unwoken` and `swallowed` are history: a suspend has ended without waking the
queue since the queue was last woken, and a barrier has taken the work item of
the request away. The two failures of the code that they record happen in
`pm_device`, and are the named exceptions of `NoLostWakeup` and
`RequestHasWork` (section 7).

Two rules about callers are kept apart from the actions, as guards in `Next`.
`MayEnable`: who enables a device has disabled it before (or probes it:
`Driver[d]`), and its parent is enabled, since probing and `device_resume` go
from parents to children. `MaySetStatus`: the status a driver states "reflects
the actual state of the device", hence it does not state one while a callback
runs. Nothing else is asked of callers: any task disables any device of
`Targets`, a parent too, several may at once, and a status of suspended can
always be set.

### Cpdma

The CPU runs one job at a time (`cpu.job`: open, transmit, poll, timeout,
close), and `cpu.pc` is the next access to descriptor memory or a register;
the engine (`hw_fetch`, `hw_complete`, `hw_teardown`, external) acts between
any two. `fifo` is a history variable: the descriptors handed to a channel and
not yet given back. The engine is modelled by what the driver relies on: it
follows `hw_next`, marks the last packet EOQ, stops, and answers a teardown
with TD_COMPLETE on the next descriptor and the teardown value in the
completion pointer. One thing is taken from the callers: `RxDescs` is at most
half the pool (64 of 128 on this board); beyond that `cpdma_desc_alloc` hands
out descriptors of the transmit half.

The wait for a teardown may end before the teardown is done, as it does after
100 ms. `astray` is history: it says of a channel that a stop went on although
the teardown was not done (`"late"`), or started the engine itself
(`"restarted"`, section 7). From then until the soft reset of the next open the
driver has no hold of the engine, and what is said of the engine is said of a
channel that is not astray (`Tame`); what is said of the driver's own lists and
bitmap is said always.

### Cpsw

Two devices over one controller. `dev` is what the network stack and the PHY
know of each (running, carrier, attached PHY, port forwarding, queue stopped,
qdisc active, its backlog, `sched` when it is about to be run), `napi` its
NAPI, `line` the two masks of the interrupts (the enable bits of the device,
the disable depth of the lines), `task` the open, close, suspend or resume
under way with the step it is at. The DMA is two FIFO queues with completed
packets in front. Interrupt handler, poll and transmission are atomic, as they
are on this build, and come between any two steps of `task`. The parts of the
network core that the driver depends on are modelled from their code:
`__dev_open` sets the running flag before it calls the driver,
`__dev_close_many` clears it first, `net_rx_action` completes a poll that used
its budget up while NAPI is being disabled, `dev_watchdog` runs the queue when
it releases the transmit lock, `linkwatch_do_dev` attaches and detaches the
qdisc. `lost` is a history variable: the interrupt has disabled the lines and
no poll was scheduled (section 7); three of the properties are stated for
executions without it, and the run `cpsw_tx_hang` is about it.

### Wakeup, DevicePM, WkupM3, Suspend

`Wakeup` keeps `combined_event_count` as the one word it is, with the number of
events in progress in its lower part and the number of registered ones above,
so that the one addition in `wakeup_source_deactivate` and the wrap are the
code's; `CountMod` stands for 2^16. Of the statistics only the difference of
`active_count` and `relax_count` is kept, which the code compares. Time is left
out: a timer may fire at any moment, and since `__pm_wakeup_event` starts it
only if the new expiry is later than a remembered one, it may also not be
started. `since` is a history variable, the events detected since user space
read `wakeup_count`.

`DevicePM` has the thread that runs the `dpm_*` functions (`dpm`) and a thread
per asynchronous device (`thread`). Device lists are sequences; a device's
completion is its membership in `completion`. The runtime PM barrier of
`__device_suspend` is a choice whether it found a resume request. Interrupt
lines are as `suspend_device_irqs` leaves them: an edge on a disabled line
becomes pending, a level is only masked.

`WkupM3` is the exchange with the Cortex M3. The command is in the IPC
registers, the message in the mailbox only interrupts the M3, which answers or
stays silent: the five-second waits may end at any moment without an answer, and
the answer may come at any moment after that. Each statement of a callback that
touches what the M3 or its interrupt touches is a step. `stale` is history: this
`am33xx_pm_begin` found an answer to an earlier message in the completion, or
still to come. The mailbox's interrupt registers are those of the M3, so that the A8
takes no mailbox interrupt, and what is left in the software queue is moved by
the tasklet of the next message.

`Suspend` extends the three and adds `enter_state` (`pc`), the freezer and user
space, which may write to `state` with or without the protocol of
`wakeup_count`. A source has one object: it is not enabled again before its
removal has ended.

### NurseCall

Statements of one ioctl are steps, since the timer softirq comes in between;
two ioctls do not interleave, because none sleeps. `left` counts the ticks to
the expiry. A mode may be selected at any time. `overtaken` is history: the mode
was set while the timer of an earlier pulse was still linked, after which the
driver no longer knows what its timer will do (section 7).

## 4. Runs

| Run | Instance | States | Properties |
|---|---|---|---|
| `rwsem` | 3 tasks | 10,108 | `Exclusion`, `ActivityCounts`, `HeadIsWriter`, `NoLostWakeup`, refinement `LockSpec`, `EveryWaiterServed` |
| `semaphore` | 3 tasks, count 1, at most 2 units | 97,254 | `UnitsConserved`, `NoIdleUnit`, `WaitersAlive`, `NoLostWakeup`, `WaitersServed` |
| `mutex` | 3 tasks | 384,912 | `MutualExclusion`, `NoLostWakeup`, `WaitersAlive`, `FreeIsTaken` |
| `pm_tree` | bus with a device, 1 task, workers, fair | 40,928 | `ParentActive`, `ChildCount`, `UsageBalanced`, `GetReturns`, `ResumeServed` |
| `pm_device` | 1 device, 2 tasks up to symmetry, every call | 1,402,676 | `HeldIsActive`, `CallbacksExclusive`, `DisabledIsQuiet`, `RequestHasWork`, `NoLostWakeup` |
| `cpdma` | 3 descriptors, quota 1, fair | 764,495 | `DmaOnQueuedBuffers`, `QueueIntact`, `NoStalledQueue`, `TransmitsComplete` |
| `nurse_call` | pulse of 10 ticks, fair | 1,792 | `PinShowsCall`, `PulseEnds` |
| `suspend` | 3 devices, 2 of them asynchronous, 2 wakeup sources | 4,956,039 | `NoWakeupLost`, `CountBalanced`, `ChildrenFirst`, `AsleepQuiet`, `AllRestored` |
| `cpsw` | 2 devices, rings, budget and backlog of 1, fair | 374,790 | `IrqBalanced`, `DmaWhileOpen`, `TxReclaimed`, `BacklogRun` |

Three runs are expected to fail, each against a sentence of the repository
(section 7): `dpm_hang`, `cpsw_tx_hang`, `cpdma_close`.

Why the bounds are enough. Three tasks are what the locks need for every role
at once: a holder, a waiter of each kind and a newcomer that could overtake;
`rwsem` was also run with four (335,552 states). One unit more than the
initial count lets a foreign `up` meet a full and an empty semaphore. In
`RuntimePM` a device below a bus has every way into and out of the parent's
resume; all settings together are affordable with one device, and two tasks are
enough for a second disable, a request during a barrier and a get during an
autosuspend. The tasks are interchangeable there: `Next` and the invariants
name none, and only `Init` says which one is to enable the device first.
(A bus with two devices was run for the safety properties as well:
one child keeps the parent up while the other goes down.) Two transmit
descriptors are the least for which a packet can be linked behind another, which
is where the race with the engine is; the receive side has one buffer in the
passing run, and two, with a quota of two, in `cpdma_close`. The length of the pulse plays no role, and the
theorems hold for every one. In `suspend` a parent and a child in threads of
their own and a device that is suspended synchronously are all the cases of
`dpm_wait`; the counter wraps at 3 and at most two events come between two reads
of it, so that it wraps but does not come round, as 2^16 and a sane number of
events do; a mailbox and a queue of one are both full after the two messages of
one failed exchange. In `cpsw` one descriptor is the ring that the other
device has taken, and a budget of one is used up by a single packet; the
invariants were also run with two descriptors, two buffers and a budget of two
(3,219,820 states).

`CHECK_DEADLOCK FALSE` appears in the `RuntimePM` runs, where the tasks may run
out of calls the rules allow, and in the two of `Suspend`, where the code really
can hang (section 7).

## 5. Fairness

- Locks: a task inside a lock function goes on, and a holder releases. The
  first holds because the sections under `wait_lock` are finite and the
  scheduler runs a runnable task; the second is what the users of a lock owe.
  Nothing obliges a task to lock. Signals and stray wake-ups are not fair.
- `RuntimePM`: strong fairness for each actor that is inside a call. An actor
  needs `power.lock` for most steps, which others take again and again; on
  this build the lock is free whenever a task gets the processor, because it is
  taken with interrupts off and never held across a sleep.
- `Cpdma`: the CPU goes on with its job (weak), a pending interrupt is
  eventually polled (strong: NAPI runs on the way out of the interrupt, before
  the interrupted code can transmit again), the engine transmits what it is
  given and answers teardowns (weak). Nothing is said of packets arriving.
- `Cpsw`: the process that opens, closes or resumes goes on, interrupts are
  taken and softirqs run, the watchdog timer fires, and the PHY is polled, which
  finds the link as it is (all weak: nothing that enables one of these is undone
  by the others). `TxFreed` is refuted under more: also the DMA transmits,
  queues are run, transmit timeouts and link events are handled.
- `Suspend`, for `TransitionEnds` only: threads, interrupt handlers, the timer
  softirq and drivers that end their events run, and a wait for the M3 ends, if
  only because its time runs out. Nothing is assumed of the M3, of the end of
  sleep or of user space.
- `NurseCall`: an ioctl ends and timers expire.

## 6. What is proved

The proofs are checked by TLAPS for every value of the constants that the
named assumptions admit.

- `RwSemProofs`, any finite set of tasks. `Exclusion` alone is not inductive:
  while a waker hands the lock over, `activity` does not yet count whom it
  woke. `IInv` therefore states what `activity` means at each point of the
  code (`FreeInv` outside the sections, `OneWriterInv`, `DoWakeInv`,
  `DowngradeInv`, `WakeWriterInv` inside), that the list holds exactly the
  waiting tasks once each (`QueueInv`), that one task is inside
  (`OwnerInv`), and `NoLostWakeup`. From it follow `TypeCorrect`,
  `MutualExclusion`, `ActivityCorrect`, `HeadCorrect` (the unchecked
  assumption of `__up_read` that the head of the list is a writer),
  `WakeupCorrect`, `NoStrandedQueue`, and `Refinement`: every step of the code
  is a step of `RwLock` or changes nothing of it.
- `SemaphoreProofs`, any finite set of tasks and any initial count: units
  conserved, no waiter behind a free unit, the list holds live waiters only,
  no lost wake-up. The invariant adds that a sleeper's state is the one its
  variant asked for. The lemmas `ListDel`, `ListAddTail` and `ListPop` say what
  unlinking, appending and removing the head do to a list without duplicates.
- `MutexProofs`, any finite set of tasks: mutual exclusion over every
  interleaving of fast and slow paths, a mutex nobody holds has count 1 or a
  releaser on its way, wake-ups, live waiters.
- `NurseCallProofs`, any length of the pulse and any order of commands: the pin
  shows the call in every mode that was set with the timer off (`NurseCallPin`),
  and a linked timer is initialised only in a mode that was not
  (`NurseCallTimer`). The invariant (`AloneInIoctl`) says of the former modes
  that a running timer means the ioctl is not past its first test.

- `CpswProofs`, any number of descriptors, buffers and waiting packets and any
  budget. `IrqBalanced` and `DmaWhileOpen` are about the moments between two
  operations, so `IInv` says what holds in the middle of an open, a stop, a
  suspend or a resume: `TaskInv`, `OpenInv` and `RunInv` (which step an operation
  can be at and the flags that each device has there) and `DmaInv` (the DMA and
  the two masks of the interrupts at each step).
- `CpdmaProofs`, a pool of any size, any quota, any number of receive buffers
  that the lower half holds; the interface goes down at any time, and waits for
  a teardown expire at any time.
  The three properties are about `fifo`, which the code does not have, so `IInv`
  ties the code's state to it at every access:
  - `ChainInv`: `head`, the `hw_next` pointers and `tail` are the queue as the
    CPU has it (`Live`: without the descriptor it has dequeued and not freed).
  - `LiveInv`, one number `k` for each channel: the engine has completed the
    first `k` descriptors and no other (`OwnerInv`), is at number `k + 1` or
    going there (`EngineInv`), and an end-of-queue mark is on number `k` only and
    means that it is at rest (`EoqInv`). `RunInv` is why no queue stalls: if the
    engine is at rest before the end of the queue, that mark is still to be seen
    by a poll, and the interrupt for it stands. `StopInv` is about teardowns: a
    request stands only while the CPU waits for it, and with it gone and the
    channel not active the engine is at rest, so that the last loop of
    `cpdma_chan_stop` frees buffers the engine is not at.
  - `QueueInv`, `BitmapInv`: each queue is in its half of the pool, without
    repetition, and the bitmap is that of the queues and of the one descriptor
    being submitted. `CountInv` keeps the receive queue at `rx_descs`; by the
    pigeonhole argument of `CoverLength` the receive half then has a free bit
    whenever it is searched, so that the wrong answer of
    `bitmap_find_next_zero_area` for a full half is not met (`AllocFacts`).
  - `CpuInv`, `PhaseInv`: what the locals hold at each place, and which places
    each call has.

  - A stop that went on too early, or restarted the engine, loses hold of it: the
    lists, the bitmap and the locals are described for every channel, `LiveInv`
    for those that are not astray. `HalfInv` says why the queues survive a stray
    engine: it follows `hw_next`, which never leaves the channel's half of the
    pool, and writes only mode bits, of which the driver believes nothing that
    could break a list.

  From `Inv`, which is `IInv` and `HalfInv`, follow `TypeCorrect`, `DmaCorrect`,
  `QueueCorrect` and `StallCorrect`. TLC has checked `Inv` on the instance of the
  run.

- `SuspendProofs`, any sequence of distinct devices in which parents come first,
  any of them asynchronous or failing, any set of wakeup sources, any word size
  with room for all of them. `IInv` has a part for each module that `Suspend`
  composes.
  - `WakeupInv`: each source owes the counter what it has added, and `Tracks`
    says by how far the counter has moved since it was read. `NoWakeupLost`
    follows only because the events are fewer than the range of the counter
    (`MaxEvents < CountMod`, here 2^16): after a full turn the counter would look
    unchanged. The arithmetic (`WordUp`, `WordDown`, `ModDistinct`) is that the
    one addition carries from the lower half into the upper and never beyond.
  - `DeviceInv`: the four lists joined are always the registered devices in
    their order (`OrderInv`); which devices are suspended, waited for or have a
    thread in each phase. `ChildrenFirst` is not inductive without the two
    facts that parents precede their children in every list and that a thread
    still waiting keeps its device's completion open.
  - `AnswerInv`: answers in the completion, and one still to come, are at most one
    outside the two waits and two inside, because each message is followed by a
    wait that takes an answer if there is one: late answers do not add up.
    `CallInv`: where the callbacks can be and what they have told the M3.
    `FreshInv`: a begin that found no old answer (`~stale`) has nothing to take
    for its own but its own, so when it succeeds the M3 has read the sleep
    command, and says nothing more until `am33xx_pm_end`.
  - `PhaseInv`, `SysInv`: where `dpm` can be at each step of `enter_state`, and
    what is frozen, disabled or switched there.

  From it follow `TypeCorrect`, `CountCorrect`, `WakeupCorrect`, `TreeCorrect`,
  `AsleepCorrect` and `RestoredCorrect`.

- `RuntimePMProofs`, any finite sets of devices and tasks, any parents, flags,
  settings and results of callbacks. The inductive invariants are in a module of
  their own, `RuntimePMInv`. None of the invariants of the runs is inductive: what
  is true of `usage_count` or the status depends on the calls that are under
  way, each anywhere in its function. `IInv` says of every stack which frames it
  can hold (`StackInv`: when a call has a reference on its parent, who can be in
  a disable or a get), and states each number as a number of frames: the status
  as the calls in a callback (`CallbackInv`), `disable_depth` as at least the
  disables that are in their barrier or have returned (`DepthInv`),
  `usage_count` as users, children that resume, barriers and settings
  (`UsageInv`), `child_count` as the children (`ChildInv`). `RestInv` says that a
  device in error, or disabled with no barrier left, is in no callback. An action then
  pushes, replaces or pops one frame, and the lemmas on `CountIn` say what this
  does to each number. From it follow `TypeCorrect`, `CallbacksCorrect`,
  `ChildrenCorrect`, `UsageCorrect` and `HeldCorrect`.

  `ParentCorrect` needs one more invariant, `ParentInv`: a parent on which a
  resuming child holds a reference is enabled, and active once the child has
  looked. It assumes that no driver states a status (`"set_status" \notin
  Settings`), because `__pm_runtime_set_status` sets a device active under any
  parent for which runtime PM is disabled (`runtime.c:915`), and enabling the
  parent afterwards does not look at its children; and that no device is disabled
  above a child for which runtime PM is in use (`Childless`), since `rpm_resume`
  goes on without the parent when that is disabled (`runtime.c:605`). Both are
  what the code does; the PM core, which disables parents too, has suspended all
  children before.

  `DisabledCorrect` needs `QuietInv`: while `disable_depth` is raised and no
  disable is in its barrier (`Raising`), no request is pending, no timer armed and
  no callback or idle notification goes on; and a disable that is in its barrier
  has stopped the timer before it cancels, and has no pending request when it
  waits. Any number of tasks disable and enable.

  `WakeupCorrect` needs `WaitInv`: what each sleeper waits for (a suspend, any
  callback, an idle notification) is going on, or its end is on record as silent;
  a step either leaves it so, wakes the queue of the device, or is the restart of
  an autosuspend (`runtime.c:431`), which sets `unwoken`.

  `RequestCorrect` needs `RequestInv`: a pending request has its work item queued
  or about to look, or some task is cancelling it; a work item that is grabbed is
  being cancelled; a request that is not pending has been swallowed; and the
  frames below the innermost one are calls that wait for a callee, hence never in
  the middle of a cancellation. It assumes nothing of the callers.

  The invariants hold for every use of the calls: `WakeupCorrect`,
  `RequestCorrect` and `DisabledCorrect` have no hypothesis on `Settings`.

Only model-checked: the liveness properties, since TLAPS does not handle
fairness. Every invariant that a run checks is proved as well.

## 7. Findings

- `dpm_hang`: `__device_suspend` returns without completing the device when a
  wakeup event is pending or another device has failed (`power/main.c:871`,
  `:881`). The thread of an asynchronous parent waits for that completion for
  ever and the transition with it, although `kernel/power/main.c:334` says that
  it will be aborted.
- `cpsw_tx_hang`: `cpsw_interrupt` disables the lines and leaves it to the poll
  to enable them, but `napi_schedule` does nothing while NAPI is disabled
  (`cpsw.c:860`). A completion for eth1 that comes while eth0 is being opened
  disables the lines for good.
- `cpdma_close`: the loop of `cpdma_chan_stop` that takes the completed packets
  restarts the engine behind a missed end of queue (`davinci_cpdma.c:772`), after
  the teardown was acknowledged, and the last loop gives that packet back, although
  the comment at line 870 says of those packets that they "haven't been tx/rx'ed".

Observations, seen while modelling, without a run of their own:

- Runtime PM: an autosuspend whose callback returns `-EBUSY` is tried again
  without waking the wait queue (`runtime.c:431`), so that a
  `pm_runtime_get_sync` that waited for the failed suspend may sleep on. A
  `pm_request_resume` during the cancellation in `__pm_runtime_barrier`
  (`runtime.c:957`) returns success and is dropped. A second
  `pm_runtime_disable` returns while the first still waits (`runtime.c:1041`).
  All three happen in `pm_device`; the properties name them (`unwoken`,
  `swallowed`, `DisableWaits`) and say that nothing else of the kind happens.
- CPDMA: when the wait for a teardown expires, or ends at once because the
  completion pointer still holds the value of an earlier one, the packets are
  given back with the engine running. The list, the pool and the next open are
  sound even then (`QueueCorrect`, `StallCorrect`). `cpdma_chan_stop` does not
  correct `chan->count`.
- Nurse call: a mode command during a pulse clears `pulse_status` and leaves the
  timer linked (`nurse_call.c:187`). The timer then inverts the pin of the new
  mode; and an alarm within the second initialises the linked timer (line 81),
  against the comment of `kernel/timer.c:412`. `PinShowsCall` and `PulseEnds` name
  these outcomes; `NurseCallTimer` shows that there is no other way to the second.
- CPSW: the lines can be lost in two more ways, during a suspend, which leaves
  the devices running, and when `napi_disable` meets a poll that used its whole
  budget. The port of a closed device goes on passing frames, each of which takes
  a buffer out of the shared receive ring (`cpsw.c:811`).
- Wakeup sources: an event with a time may be left without a timer
  (`wakeup.c:537`), in the first five minutes after boot always; disabling a
  source that is kept awake never returns (`wakeup.c:85`); a level-triggered
  wakeup interrupt that comes after `suspend_device_irqs` is masked and
  forgotten (`chip.c:363`), for which reason `NoWakeupLost` speaks of edges.
- AM335x: `a8_m3_sync` keeps an answer that came too late (`pm33xx.c:75`), and the
  next `am33xx_pm_begin` takes it for the answer to its own message and disables
  the interrupt of the M3 before that has read the command: the system then goes
  to sleep without the M3. `AsleepQuiet` names this case (`stale`) and holds of
  every other. A mailbox that a silent M3 has filled is emptied by nobody.

## 8. Not modelled

In the modelled parts: devices with `no_callbacks` or `irq_safe` in runtime PM;
lock debugging, lock-nesting annotations and optimistic spinning in the locks
(not configured); creation and destruction of the DMA controller, its
interrupt-mask calls, statistics and `rxfree`; registration of the nurse-call
character device; the address table, VLANs, `ethtool`, `ioctl`, interrupt pacing
and probing of the switch, and a PHY that is not there; hibernation, devices
registered or removed during a transition, failing `syscore` callbacks and the
code that runs while the AM335x is asleep; the receiving side of the mailbox,
which this board does not use. The device list and runtime PM are not composed:
of runtime PM, `DevicePM` sees the barrier's answer and the reference it takes.
The components with status `not_modelled` in `PROJECT.json` are left out for the
reasons given there. Far the largest part of the repository is stock kernel code
and drivers that this board does not build; the share of its lines that the map
covers says nothing here.
