# A TLA+ model of stm32f103Templet

stm32f103Templet is a firmware skeleton for the STM32F103: the uC/OS-II kernel,
a message layer between three tasks, serial ports driven by interrupts, and a
table of application modules. This directory holds TLA+ modules that model its
own logic and the parts of the kernel that logic rests on, the TLC runs that
check them on small instances, and proofs, checked by TLAPS, for every instance.

## 1. Inventory

| Component | Source | State | Operations | Interacts with |
|---|---|---|---|---|
| Message layer | SYSTEM/src/sys.c | two partitions (30 x 32 and 16 x 256 bytes), one queue of 30 pointers per task | MEM_Get, MEM_Put, MSG_Send, MSG_Receive, MSG_Free | calls OSMemGet/Put, OSQPost/Accept; called by all tasks |
| Kernel partitions | UCOSII/CORE/os_mem.c | free list threaded through the free blocks, counters | OSMemCreate, Get, Put, Query | memory shared with whoever holds a block |
| Kernel queues | UCOSII/CORE/os_q.c | ring of pointers, IN, OUT, entry count, wait list | OSQCreate, Accept, Post, PostFront, PostOpt, Pend, PendAbort, Flush, Del, Query | scheduler, when tasks wait |
| Serial ports | SYSTEM/src/usart.c | per port a send and a receive ring, TXEIE in CR1 | Usart_Init, SetData, GetData, interrupt handler | handler and task share the rings with no lock |
| Task loops | User/src/main.c | lastOSTime of each task | process, drain queue, OSTimeDly | module table, message layer, kernel time |
| Module table | User/src/module.c | constant table of init, process, handle functions | Module_Init, AfterInit, Process, MsgHandle | calls the modules below |
| MsgTest, serial echo, input, LED, watchdog | Module/src/*.c | period counters, a debounce record per key | one process and one handle function each | message layer, serial ports, GPIO |
| Kernel scheduler and time | UCOSII/CORE/os_core.c, os_task.c, os_time.c, PORT/os_cpu_a.asm | TCBs, ready list, OSTime, nesting counters | OS_Sched, OSTimeTick, OSTimeDly, suspend, resume, create, delete | PendSV and SysTick |
| Kernel semaphores, mutexes, mailboxes | UCOSII/CORE/os_sem.c, os_mutex.c, os_mbox.c | event control blocks with wait lists; the owner of a mutex and its raised priority | pend, post, abort, delete | scheduler; not used by the application |
| Tool functions | User/src/tool.c | none | bits, hex conversion, sort, search, wrapped subtraction | task loops, input, AT interpreter |
| AT interpreter | AT/src/at_port.c, at_cmd.c | line buffer, receive state, echo flag, constant command table | receive, parse, dispatch | serial ports; commented out of the module table |
| Display, touch, USB, vendor libraries | HARDWARE, USB, UCGUI, Librarise | registers | I/O | hardware |

Hard behaviours, and the property each component owes:

* **Message layer.** Tasks preempt each other between any two critical sections;
  every get and post may fail, with blocks already taken; a block's first word is
  overwritten when it is freed. It owes: no block lost or used twice, messages
  delivered once, in order and intact, every block returned in the end.
* **Partitions.** The free list lives in memory the clients write. It owes: the
  list is always exactly the free blocks.
* **Queues.** Two pointers and a counter updated apart, wrapping in both
  directions. It owes: a bounded sequence.
* **Serial ports.** The interrupt handler runs between any two steps of the task.
  It owes: bytes once and in order both ways, no transmit wake-up lost, every
  byte sent.
* **Scheduler.** A context switch is only requested (PendSV), ticks, posts,
  suspends and timeouts fall in between. It owes: a ready bit exactly for the
  tasks that may run, a waiting task woken once, by the event or by its timeout.
* **Task loops and boot.** Time is read twice per iteration, the first period
  reaches back through the boot delays, nothing wakes a task but the clock. They
  owe: no tick lost, a message handled within a tick, the watchdog fed in time.
* **Keys and LED.** Contacts bounce on both edges and six states share one timer.
  They owe: one toggle per press, however long it is held.
* **Mutexes.** The owner's priority moves while it sleeps or waits, and waiters
  time out while they are handed the mutex. They owe: one owner at a time, who is
  raised only while it must be and lowered again.
* **AT interpreter.** A line comes in pieces and may be too long; the parser looks
  past its end. It owes: each line is executed once, by the command it names, or
  dropped whole.

PROJECT.json lists the components and, under `hazards`, each hazard at the line
where it bites.

## 2. Modules

| Module | Models | Abstract specification | Proofs |
|---|---|---|---|
| `Messaging` | sys.c with the memory the MsgTest handler takes and the drain loop of main.c | `MsgChannel` | `MessagingProof` |
| `OsMem` | os_mem.c, one partition | `MemPool` | `OsObjectsProof` |
| `OsQueue` | os_q.c, one queue nobody waits on | `Deque` | `OsObjectsProof` |
| `UsartRing` | usart.c, one port | `ByteStream`, twice | `UsartRingProof` |
| `TaskLoop` | main.c with the boot of the kernel, the period of MsgTest, the echo module's message and the watchdog | | `TaskLoopProof` |
| `InputLed` | input_module.c, input.c, led_module.c | `Debouncer` | `InputLedProof` |
| `Kernel` | os_core.c, os_task.c, os_time.c, one semaphore of os_sem.c, PendSV and SysTick | `CountingSemaphore` | `KernelProof` |
| `Mutex` | os_mutex.c, one mutex, with delays, suspension and timeouts | `PriorityLock` | `MutexProof` |
| `AtParser` | at_port.c, at_cmd.c | | `TextProof` |
| `Tool` | tool.c: hex conversions and search | | `TextProof` |
| `MCMessaging`, `MCKernel`, `MCTaskLoop` | values of constants and symmetry | | |
| `MCParts` | small instances of six parts side by side | | |

`Messaging` rests on `OsMem` and `OsQueue`: it uses a partition as a set
of free blocks, which `OsMem` is shown to implement, and a queue as a bounded
sequence, which `OsQueue` is shown to implement. In return `Messaging` keeps to what
`OsMem` asks of the clients of a partition, to return only blocks they hold and to
write only there (`PartitionsRespected`). `TaskLoop` takes from `Kernel` that
the most urgent ready task runs, and gives `InputLed` that a loop takes at most one
sample per tick. `Kernel` and `Mutex` model the same wait list at two grains: every
critical section of a semaphore with handlers in between, whole calls of a mutex.
`MCParts` joins `OsMem`, `OsQueue`, `InputLed`, `Mutex`, `AtParser` and `Tool`, which
share no state: a variable chosen at the start says which of them the behaviour
steps, so their state spaces add up instead of multiplying, and every property of
each is checked as in a run of its own.

**Messaging.** One step is one critical section (OSMemGet, OSMemPut, OSQPost,
OSQAccept) with the code of the same task up to the next. `pc[t]` says between
which two the task stands:

| pc | the task is about to | action |
|---|---|---|
| idle | send or receive | SendGet, SendNoBlock, Receive |
| getData | get the data block (sys.c:192) | SendGetData, SendNoData |
| undo | return the message block (sys.c:197) | SendUndo |
| post | post (sys.c:203) | SendPost, SendFull |
| handle, query, putData | run the handlers (main.c:104) | HandleOther, TestGetBuf, TestGetData, TestPutData, TestPutBuf |
| free, freeMessage | return the data block, then the message block (sys.c:227-228) | FreeData, FreeMessage |

All tasks may be between any two steps at once, which allows more interleavings
than the fixed priorities do. A message is a value; the payload of a long message
is the value stored in the first word of its data block, which a link overwrites
when the block is freed, so a read after free shows. `MEM_Put` of an address in
neither partition returns an error and changes nothing. The handlers that take no
memory are `HandleOther`.

**OsMem.** A call is a step. Blocks are numbered in address order; 0 is NULL.
`Write` is a client writing the first word of a block it holds, to anything.

**OsQueue.** A call is a step. Slots are offsets, so `OSQStart` is 0 and `OSQEnd`
is one past the last.

**UsartRing.** Positions are offsets into the rings. A call is split where another
party can see it: usart_SetData takes its snapshot and stores the bytes
(`SetData`), publishes the head (`Publish`), and Usart_SetData tests and sets TXEIE
(`Kick`); usart_GetData takes its snapshot (`GetData`), then reads pRecBufH again,
copies and moves the tail (`Copy`). The bytes of one call are stored in the step
of the snapshot, for the handler reads only bytes behind the published head, as
long as TXEIE is right; the run `usart_resend` shows it can be wrong, and needs no
finer steps. `USART_IRQHandler` runs between any two steps, or, with `MUX_TASK`,
between any two calls; it receives, transmits, or does both. `unsent` and `unread`
are history variables for the two refinements.

**Kernel.** One step is one critical section with the code of the same task or
handler up to the next. `pc[t]` says where a task stands: `run` between calls,
`sched` before the OS_Sched that ends a service, `schedPend` before the OS_Sched
inside OSSemPend, `woken` before the second half of OSSemPend. A service called by
a handler ends without OS_Sched. OS_Sched and OSIntExit only set PENDSVSET;
`PendSV_Handler` switches once no handler is active, and until then any handler but
SysTick may come in between (os_cpu_a.asm:27-31 gives SysTick and PendSV the same,
lowest priority, and PendSV is the one of the two served first). The SysTick handler
visits one TCB per step, so that other handlers can call services between two.
Entering a handler is one step too: OSIntEnter increments OSIntNesting with interrupts
enabled (os_core.c:635-642), but a handler that falls in between has left it as it was
when it returns, and the one it interrupted has called no service yet.
Bit tables are sets of priorities; `OSTCBPrioTbl` is computed from `OSTCBPrio`.
A call that returns an error and changes nothing is no step. Init is OSStart
after the tasks and the semaphore are created. Any task and any handler but
SysTick may call any service on any task, in the order it likes.

**TaskLoop.** One step is one statement of the loop: `Read` (main.c:97), `Call`
(the second read and the subtraction, main.c:98), `Modules` (Module_Process, then
main.c:99), `Drain` (one message of main.c:101-116) and `OSTimeDly` (main.c:117); a
tick may fall between any two. Task 0 first boots: `ModuleInit` (which starts the
watchdog), `OSStatInit` (two sleeps), `CreateTasks`. A step belongs to a task that
is awake while every more urgent one sleeps. That a loop sleeps again
within `BUSY` ticks is assumed of the load; TaskLoopAssumption says how large
it may be for the periods to fit 16 bits and the watchdog to be fed, and
no property holds for a load without such a bound. Ticks no variable of the code
records (`owed`, `cur`, `gap`, `busy`, `due`, `age`, `fresh`) are history variables.

**InputLed.** One step is one iteration of task 0: the LED module with the period,
then a sample of every key. The level of each key is free in every sample. A key's
debouncer is a phase and a count of equal samples in `Debouncer`; key 0 turns `s_state`.
WK_UP, whose pin is active high, is treated as active low like the others
(input.c:14-16, input_module.c:96): it reads as held from the start and nothing uses it.

**Mutex.** A call with its OS_Sched and the switch is one step. Tasks are named by
the priority they were created with; `OSTCBPrio` is the one they have now.
OSMutexPend has two steps, for the caller waits in between; a timeout in OSTimeTick
leaves the task in the wait list until it runs. `CAREFUL` is a restriction on
callers that no document states; it excludes two calls and nothing else. A waiter
that is handed the mutex while it is suspended still has its OSTCBEventPtr, and an
OSMutexPend that raises it then (`Misled`) puts it back into the wait list of the
mutex it owns (os_mutex.c:483); and OS_DEL_NO_PEND of a mutex whose owner is still
raised, its waiters having timed out, leaves the owner raised for good
(os_mutex.c:319). A task inside OSMutexPend may be suspended all the same. `HighestRunsOncePosted` says
"once posted" because OSMutexPost of a raised owner whose waiters all gave up
returns without OS_Sched (os_mutex.c:620): it may run below a ready task until the
next scheduling point.

**AtParser.** One step is one received byte: searching the head "AT", storing a byte
of the line, or executing the line at its line feed. A line longer than the buffer
sends the receiver back to Idle unheard. The buffer keeps what earlier lines left,
for the length of the name is searched in all of it. Values of arguments are left
out, which also hides that +DEBUG accepts numbers outside the (0-100) its test
command reports, and unset ones when no digit follows. `at_cmdLine` has one byte
more than the buffer, `Behind`, which belongs to whatever object the linker puts
there. pCmdLine is where the code leaves it: one past a line that was too long, and
past the NUL of a line that was executed.

The code has a defect here. A line whose LF takes byte 128 passes the length check
(at_port.c:128), but at_port.c:117-118 steps past the LF and stores a NUL without one,
in the byte behind the buffer. The model does the same, so no property says that the
stores stay inside the buffer. What holds is how far it goes: `AtTypeOK` says that every
byte received is stored inside, and that the byte behind becomes NUL at most;
`OverrunByNulOnly` that only a line of exactly that length does it. No text of the
repository says how long a line may be, so it is not among the findings of section 3.

**Tool.** A step calls HexToStr and then StrToHex on its output in either case, or
GetByteIndex; the result is compared with what the functions are for.

In each module the operators named `_Faulty` or `_Skips` are plausible slips of
the code, used only to confirm that each property notices one.

## 3. Runs

| Run | Properties | Bounds and what they reach |
|---|---|---|
| messaging | TypeOK, OneOwner, ImplementsChannel | 2 tasks, 3 small blocks, 1 big, 2 slots, lengths 24/25/33/257: both partitions run dry, queues overflow, every length boundary |
| messaging_live | QueueNeverFull, Recycled | 2 small blocks and as many slots, 1 big block, fairness; as in config.h a queue has a slot for every small block |
| parts | MemTypeOK, FreeListWhole, ImplementsPool | 4 blocks, so that first, middle and last links differ |
| | QTypeOK, PointersAgree, ImplementsDeque | 3 slots, 3 messages: wraps of both pointers in both directions |
| | InputTypeOK, ImplementsDebouncer | 2 keys, off time 2, long time 4, LED 4: every state is left in time and too early |
| | MutexTypeOK, MutexReadyExact, PriorityInheritance, MutualExclusion, WaitListWaits, HighestRunsOncePosted, ImplementsLock | PIP 0, 4 tasks and idle, timeouts of 1 and 2 ticks, CAREFUL: an owner, two waiters to choose from, and a task between them |
| | AtTypeOK, ExecutesLine | a buffer of 4 and 9 kinds of bytes: lines that fit, fill it up to the LF (and overrun it by the NUL) and are too long, over the rest of any earlier line |
| | ToolsMeetTheirDocs | every byte before 4 others, every bit string of up to 3 bytes |
| task_loop | LoopTypeOK, NoDrift, HandledNextTick, WatchdogFed, PeriodExact, NeverEarly, EveryLoopRuns | 2 loops with delays 1 and 2, busy for up to 1 and 2 ticks, a clock of 16 ticks that wraps within two message periods of 8, fairness |
| mutex_del | NoneMeansOwner, **violated** | PIP 0, 3 tasks and idle, not CAREFUL |
| usart | EverySent, TxInOrder | rings of 3 bytes, 2 byte values, interrupts masked, at most 2 bytes unsent and 2 unread, fairness |
| usart_shipped | TypeOK, NoLostWakeup, RxInOrder | the same with interrupts unmasked and no fairness; it has every behaviour of the masked port and more |
| usart_resend | TxInOrder, **violated** | interrupts unmasked, as shipped |
| usart_full | TxInOrder, **violated** | masked, but the caller may fill the ring |
| kernel | TypeOK, ReadyExact, WaitersPend, HighestRuns, ImplementsSemaphore | 2 tasks and idle, 4 priorities, 2 handlers nested, locks nested twice, delays of 2 ticks, counts up to 1 |
| kernel_post | PostSignals, **violated** | tasks only, any of them may change any priority |
| kernel_stale | HighestRuns, **violated** | the same, with the scheduler locked |

`NEST_MAX`, `LOCK_MAX`, `CNT_MAX` and `Ticks` are the bounds of the kernel model.
Two tasks are enough for a broadcast abort, a post that has to choose, and a task
that interferes with another in the middle of a pend; a handler is the third actor.
One spare priority lets a task pass the other in either direction. Two nested
handlers are enough for a service inside the tick and for a second handler between
a request and PendSV. `FRESH` is a restriction on OSTaskChangePrio: any task or
handler may change any task's priority at any moment, also with the scheduler locked,
but not where one of the two copies it relies on is stale (`Misled`): a task that was
answered and has not run since still has its OSTCBEventPtr, and OSPrioCur is still the
priority the running task was moved from, which another one now gets. The code does
not check either, and findings 3 and 4 show what happens without it.

`BUSY` in `TaskLoop` and `CAREFUL` in `Mutex` are assumptions on the load and the
callers (section 2). Two loops are enough for preemption in both directions; with
the periods of the run an iteration may see none, one or several ticks between its
two reads.

`TX_LIMIT` and `RX_LIMIT` are the bounds of the serial model. RX_LIMIT is real: the
handler never checks for a full receive ring, so order is promised only to a
reader that keeps up (usart_loop_module reads every tick, 12 bytes at 115200 baud
against 256). TX_LIMIT below the ring's length is what a caller must respect for
the send ring to work, and `usart_full` lifts it.

**Findings.** (1) `usart_resend`: with USART_SUPPORT_MUX_TASK 0, the handler can
send everything between the store of the new head (usart.c:123) and the test of
TXEIE (usart.c:251); the interrupt of an empty ring is then enabled and the handler,
which sends before it compares, goes round the ring once more. (2) `usart_full`: a
call that fills the send ring publishes a head equal to the tail; the ring then
looks empty and the next call overwrites bytes not sent. README.md:59 of the
repository promises that what is written is buffered in a circular buffer;
config.h:13 describes the switch as one for several threads only. (3) `kernel_post`:
a task that was posted to keeps its OSTCBEventPtr until it runs; OSTaskChangePrio
takes that for waiting, puts it back into the wait list, and the next OSSemPost is
spent on it although it returns OS_ERR_NONE. (4) `kernel_stale`: OSTaskChangePrio
leaves OSPrioCur as it was; with the scheduler locked (or, in the same way, in a
handler) the old priority can pass to another task, and OS_Sched then sees no reason
to switch. (5) `mutex_del`: OSMutexDel with OS_DEL_ALWAYS readies the waiters with
OS_STAT_PEND_OK (os_mutex.c:344), so their OSMutexPend returns OS_ERR_NONE, "your
task owns the mutex" (os_mutex.c:390), although no task does. The application
changes no priorities and uses no mutex, so (3) to (5) do not bite it today.

**Fairness.** `Messaging!FairSpec`: a task that is in the middle of a call goes on
(weak fairness of `Continue`: no step of it waits for another task, and the kernel
runs every ready task because the loops all sleep in OSTimeDly), and the drain
loop keeps calling MSG_Receive (strong fairness, since a task may be sending at
times). `UsartRing!FairSpec`: the task finishes a call, and an enabled, unmasked
transmit interrupt is raised whenever the data register is empty, which it is
again and again; strong, because masked calls disable it in between.
`TaskLoop!FairSpec`: SysTick goes on, the boot goes on, and so does the step of a
task that stays the most urgent one awake, for which weak fairness is enough
because BUSY keeps every more urgent loop from running for ever.

**Deadlock** is checked in every run but two: kernel_post and kernel_stale have no
interrupts, so the idle task may be left alone for good.

## 4. Proofs

| Theorem | Argument |
|---|---|
| `MessagingProof!TypeCorrect` | TypeOK with `Control`: which variables are set at each pc |
| `MessagingProof!Ownership` | the inductive invariant `OInv` below |
| `MessagingProof!NoQueueOverflows` | the messages in a queue and the one about to be posted are different small blocks, so there are fewer than small blocks |
| `MessagingProof!ChannelImplemented` | a message that is posted and not yet freed is never written: by `OInv` its blocks are in no one else's hands |
| `MessagingProof!PartitionsRespected` | what a task is about to return is, by `OInv`, placed with it and so not free; a free block is written only by the step that takes it |
| `OsObjectsProof!MemTypeCorrect`, `FreeListIsWhole`, `PoolImplemented` | existence of a list of the free blocks in order; Get drops its head, Put prepends |
| `OsObjectsProof!QTypeCorrect`, `PointersAlwaysAgree`, `DequeImplemented` | PointersAgree is inductive with TypeOK; the refinement follows slot by slot |
| `UsartRingProof!TypeCorrect`, `WakeupKept` | NoLostWakeup is inductive by itself |
| `UsartRingProof!ReceivedInOrder` | `Holds`: the ring from tail to head is the sequence of bytes unread, and never full; for RX_LIMIT below the length |
| `UsartRingProof!SentInOrder` | `Holds` for the bytes unsent; for MUX_TASK and TX_LIMIT below the length, which `usart_resend` and `usart_full` show to be needed |
| `TaskLoopProof!LoopTypeCorrect`, `PeriodsExact`, `LoopsNeverEarly`, `MsgTestNoDrift`, `MessagesNextTick`, `WatchdogInTime` | one invariant: lastOSTime is OSTime less the ticks owed, modulo its width, and a loop owes no more than the bound of its pc |
| `TaskLoopProof!LoopSubIsDifference` | arithmetic, branch by branch |
| `InputLedProof!InputTypeCorrect`, `DebouncerImplemented` | a simulation state by state: what phase and count each of the six states and its timer stand for |
| `KernelProof!KernelTypeCorrect`, `ReadyListExact`, `WaitListPends`, `HighestTaskRuns`, `SemaphoreImplemented` | the invariant `Inv` below |
| `MutexProof!MutexTypeCorrect`, `MutexReadyListExact`, `MutexExcludes`, `OwnerInherits`, `OnlyWaitersWait`, `HighestTaskRuns`, `LockImplemented` | the invariant `Inv` below |
| `TextProof!AtTypeCorrect`, `OverrunByNulOnly`, `LineExecuted` | the invariant `AtInv` below |
| `TextProof!ToolsCorrect` | pairs of numerals, and the loop equation below |

**Messaging.** OneOwner is not inductive: that a freed block was named once does not
say by whom. `OInv` gives every block a place (free, queue, task, buf, query,
data) and an owner there, and says, for each place, that the blocks the code would
find there are exactly those placed there. Each action then moves one block, or two,
from a place to another, and its proof has a step per place the move disturbs.

**Kernel.** What runs depends on what is ready, and a task is ready only as the wait
list says, so no property is inductive alone. `Inv` says of every task whether it
is ready and whether it waits, was answered, or gave up and is still in the list
(`WaitOK`); that OSPrioCur is the running task's priority or, after
OSTaskChangePrio and until the switch, no task's (`CurOK`), so that the comparison
of OS_Sched is right; and that where no switch is pending the highest task runs
(`HighestOK`). The theorems assume FRESH: without it `CurOK` fails as in
`kernel_stale`, and `WaitOK` as in `kernel_post`. The refinement then follows action
by action.

**Mutex.** `Inv` adds who may be raised (the owner only, and to PIP only) and that a
waiter is never more urgent than the owner; that a task lowered without OS_Sched
still is the only one that could own the mutex is what lets the refinement go
through the unscheduled window. The theorems assume CAREFUL; without it TLC finds
`MutexTypeOK`, `MutexReadyExact`, `PriorityInheritance`, `WaitListWaits`,
`HighestRunsOncePosted` and `ImplementsLock` all violated.

**AT interpreter.** `AtInv` says that while a line is received the buffer holds it up
to pCmdLine, with no line feed before. at_getCmdLen searches on into what earlier
lines left, so three lemmas carry the proof: where it stops (`FirstStop`); that a name
and a suffix begin the line exactly if they are what it cuts off and what stands
behind that (`Match`); and that a name found in the table ends inside the line, for it
would hold the line feed otherwise (`Found`). The assumptions on the table are what
at_cmd.c relies on: no name holds a line feed or a byte that ends a name, and the empty
name has an at_exeCmd.

**Tools.** GetByteIndex is a loop, modelled as a recursive function of the index.
That it has a value at all is a theorem here (`LoopEnds`): a function that meets the
loop's equation is exhibited, and any that does gives the first index, by the least
index where it would not (`FirstIndex`).

Assumptions are the named ASSUMEs of the modules: partitions are disjoint, the
number of small blocks is finite, sizes are natural numbers, a NULL is no block, a
ring has at least one slot (two bytes for a serial ring), limits of the key timers
are ordered, the loads of TaskLoop fit its periods, the buffers of the tools hold
bytes. Nothing else about the shipped sizes is assumed.

Every invariant and every action property or refinement of a passing run is stated by
a theorem. Only model-checked are the liveness properties, Recycled, EverySent and
EveryLoopRuns, for fairness is out of the prover's reach, and the five findings, which
are counterexamples.

## 5. Plan

What the project leaves for later, in order:

1. Tasks that wait on a queue or a mailbox, on the wait list `Kernel` has for a
   semaphore; OSTaskCreate and OSTaskDel.
2. Two mutexes taken one inside the other, and handlers between the steps of a mutex
   call.
3. The echo module composed with two `UsartRing`s.
4. `UsbPower`: suspend, resume and reset of usb_pwr.c, once the USB device is part
   of the build.

## 6. Not modelled

Most of the repository is not its own logic. Of its source lines, the fonts, uC/GUI,
the STM32 peripheral library, the register definitions and the USB sample are the
overwhelming part: third-party code, tables, and register access whose effect is in the
hardware. They have no state the properties of this system are about, and most of
them are not compiled into the firmware. The modules cover the code that has: the
kernel services and application files of section 2.

Of those files these parts are left out:

* Register set-up, pin configuration, baud rates, and the busy waits of delay.c.
* Debug_Printf: compiled out. The read of pMessage after a post on sys.c:205 only
  feeds it.
* CR1 |= 1<<7 (usart.c:252) is a read-modify-write that the handler may fall into;
  `Kick` models it as one step. The task gets there with the bit cleared, and then
  the handler does not write CR1 (usart.c:295), so nothing is lost between the two.
* Tool_BubbleSort, which nothing calls and whose outer loop runs while j < 0 and so
  never, and Tool_SetBitFor.
* PE4 is read twice and the two readings OR-ed; a sample is one level.
* Display and touch drivers, USB, ESP8266 commands: not built, or I/O only.
* Mailboxes, event flags and timers of the kernel: not used by the application.
* The names, sizes and queries of kernel objects: read-only.
