------------------------------ MODULE TaskLoop ------------------------------
(* The loops of the tasks (User/src/main.c): each measures the ticks since   *)
(* its previous iteration, runs its modules with that period, drains its     *)
(* message queue and sleeps.  TaskStart boots the system first.  Task 0 is   *)
(* the most urgent; a ready task runs only while every more urgent one       *)
(* sleeps, and a tick may fall between any two statements.                   *)
(*                                                                           *)
(* Assumed of the load, not of the code: a loop that wakes is asleep again,  *)
(* preemption included, within BUSY ticks.                                   *)
EXTENDS Integers, Sequences

CONSTANTS LAST,          \* the tasks are 0..LAST, task k of priority TASK_Prio+k
          Delay,         \* [Task -> argument of its OSTimeDly]
          BUSY,          \* [Task -> ticks an iteration takes at most]
          STAT_DLY,      \* OS_TICKS_PER_SEC / 10, which OSStatInit sleeps
          TIME_MOD, U16, \* 2^32 and 2^16: values of OSTime and of a period
          MSG_INTERVAL,  \* 1000, the period of the MsgTest message
          MESSAGE_NUM,   \* slots of a task's queue
          IWDG_TICKS     \* ticks after which the watchdog resets the chip

Task == 0..LAST

(* No period of loop k is longer than these: the first one, which reaches    *)
(* back to the start of the tick counter, and a later one.                   *)
FirstPeriod(k) == 2 + STAT_DLY + 3 * BUSY[0] + BUSY[k]
LaterPeriod(k) == Delay[k] + 2 * BUSY[k]

ASSUME TaskLoopAssumption ==
    /\ LAST \in Nat \ {0} /\ MESSAGE_NUM \in Nat \ {0}
    /\ Delay \in [Task -> Nat \ {0}] /\ BUSY \in [Task -> Nat \ {0}]
    /\ Delay[0] = 1 /\ \A k \in Task : Delay[k] <= 2 + STAT_DLY
    /\ {STAT_DLY, U16, TIME_MOD, MSG_INTERVAL, IWDG_TICKS} \subseteq Nat \ {0}
    /\ \A k \in Task : FirstPeriod(k) <= MSG_INTERVAL /\ LaterPeriod(k) <= MSG_INTERVAL
    /\ FirstPeriod(0) < IWDG_TICKS
    /\ 2 * MSG_INTERVAL <= U16 /\ U16 <= TIME_MOD

VARIABLES
    OSTime,      \* the kernel's tick counter
    OSTCBDly,    \* [Task -> ticks left to sleep]
    pc,          \* [Task -> the statement it is at]
    lastOSTime, nextOSTime,   \* [Task -> the locals of its loop]
    period,      \* [Task -> the argument of its Module_Process, 0 outside it]
    s_period,    \* MsgTest: ticks since its last message
    QMessage     \* the queue of task 0, a sequence of message types

(* History, for the properties: ticks the code never stores.                 *)
VARIABLES
    owed,   \* [Task -> ticks since its last read of OSTime on line 98]
    cur,    \* [Task -> ticks since line 97, while it is between 97 and 98]
    gap,    \* [Task -> ticks between these two lines, an iteration ago]
    busy,   \* [Task -> ticks since it woke]
    due,    \* ticks passed or counted twice, less those MsgTest reported
    age,    \* ticks since the watchdog was started or reloaded
    fresh   \* no tick has passed since the last MsgTest message

locals == <<lastOSTime, nextOSTime, period>>
history == <<owed, cur, gap, busy, due, age, fresh>>
vars == <<OSTime, OSTCBDly, pc, locals, s_period, QMessage, history>>

Zero == [k \in Task |-> 0]

Init == /\ OSTime = 0 /\ OSTCBDly = Zero
        /\ pc = [k \in Task |-> IF k = 0 THEN "init" ELSE "none"]
        /\ lastOSTime = Zero /\ nextOSTime = Zero /\ period = Zero
        /\ s_period = 0 /\ QMessage = <<>>
        /\ owed = Zero /\ cur = Zero /\ gap = Zero /\ busy = Zero
        /\ due = 0 /\ age = 0 /\ fresh = FALSE

Awake(k) == pc[k] # "none" /\ OSTCBDly[k] = 0

(* The kernel runs the most urgent ready task (HighestRuns of Kernel).       *)
Running(k) == Awake(k) /\ \A j \in 0..(k - 1) : ~Awake(j)

Goto(k, from, to) == pc[k] = from /\ pc' = [pc EXCEPT ![k] = to]

(* The program moves on without touching what is not named.                  *)
TimerVars == <<OSTime, OSTCBDly, busy>>
LoopVars == <<locals, owed, cur, gap>>
MsgVars == <<s_period, QMessage, due, age, fresh>>

-----------------------------------------------------------------------------
(* Definitions whose name ends in _Faulty are plausible slips in the code,   *)
(* used to show that the properties below would notice them.                 *)

(* OSTimeTick, the handler of SysTick.                                       *)
Wake_Faulty(k) == OSTCBDly[k] - 1
Wake(k) == OSTCBDly[k] - (IF OSTCBDly[k] > 0 THEN 1 ELSE 0)

OSTimeTick ==
    /\ \A k \in Task : Awake(k) => busy[k] < BUSY[k]
    /\ OSTime' = IF OSTime = TIME_MOD - 1 THEN 0 ELSE OSTime + 1
    /\ OSTCBDly' = [k \in Task |-> Wake(k)]
    /\ owed' = [k \in Task |-> owed[k] + 1]
    /\ cur' = [k \in Task |-> IF pc[k] = "call" THEN cur[k] + 1 ELSE 0]
    /\ busy' = [k \in Task |-> IF Awake(k) THEN busy[k] + 1 ELSE 0]
    /\ due' = due + 1
    /\ age' = IF pc[0] = "init" THEN 0 ELSE age + 1
    /\ fresh' = FALSE
    /\ UNCHANGED <<pc, locals, s_period, QMessage, gap>>

(* OSTimeDly by task k: it sleeps, and the next ready task runs.             *)
Sleep_Faulty(k, ticks) ==   \* a tick short
    /\ OSTCBDly' = [OSTCBDly EXCEPT ![k] = ticks - 1]
    /\ busy' = [busy EXCEPT ![k] = 0]
    /\ UNCHANGED OSTime

Sleep_Never(k, ticks) ==    \* the delay is forgotten
    /\ busy' = [busy EXCEPT ![k] = 0]
    /\ UNCHANGED <<OSTCBDly, OSTime>>

Sleep(k, ticks) ==
    /\ OSTCBDly' = [OSTCBDly EXCEPT ![k] = ticks]
    /\ busy' = [busy EXCEPT ![k] = 0]
    /\ UNCHANGED OSTime

(* TaskStart up to its loop.  Module_Init starts the watchdog, OSStatInit    *)
(* sleeps twice; only then are the other tasks created.                      *)
ModuleInit ==
    /\ Running(0)
    /\ Goto(0, "init", "sync")
    /\ UNCHANGED <<TimerVars, LoopVars, MsgVars>>

OSStatInit ==
    /\ Running(0)
    /\ \/ Goto(0, "sync", "measure") /\ Sleep(0, 2)
       \/ Goto(0, "measure", "create") /\ Sleep(0, STAT_DLY)
    /\ UNCHANGED <<LoopVars, MsgVars>>

CreateTasks ==
    /\ Running(0)
    /\ pc[0] = "create"
    /\ pc' = [k \in Task |-> "read"]
    /\ UNCHANGED <<TimerVars, LoopVars, MsgVars>>

(* Line 97: nextOSTime=OSTime.                                               *)
Read(k) ==
    /\ Running(k)
    /\ Goto(k, "read", "call")
    /\ nextOSTime' = [nextOSTime EXCEPT ![k] = OSTime]
    /\ cur' = [cur EXCEPT ![k] = 0]
    /\ UNCHANGED <<TimerVars, lastOSTime, period, owed, gap, MsgVars>>

Tool_LoopSub_Faulty(last, next) ==
    IF next >= last THEN next - last ELSE (TIME_MOD - 1) - last + next
Tool_LoopSub(last, next) ==
    IF next >= last THEN next - last ELSE (TIME_MOD - 1) - last + next + 1

(* Line 98 up to the call: OSTime is read again, and the period is cut to    *)
(* the 16 bits of Module_Process's parameter.                                *)
Call(k) ==
    /\ Running(k)
    /\ Goto(k, "call", "modules")
    /\ period' = [period EXCEPT ![k] = Tool_LoopSub(lastOSTime[k], OSTime) % U16]
    /\ owed' = [owed EXCEPT ![k] = 0]
    /\ gap' = [gap EXCEPT ![k] = cur[k]]
    /\ cur' = [cur EXCEPT ![k] = 0]
    /\ due' = IF k = 1 THEN due + gap[1] ELSE due
    /\ UNCHANGED <<TimerVars, lastOSTime, nextOSTime, s_period, QMessage, age, fresh>>

(* MSG_Send to task 0; a full queue drops the message.                       *)
MSG_Send(message) ==
    QMessage' = IF Len(QMessage) < MESSAGE_NUM
                THEN Append(QMessage, message) ELSE QMessage

MsgTest_Faulty(p) ==   \* s_period=0
    LET t == (s_period + p) % U16 IN
    IF t >= MSG_INTERVAL
    THEN /\ s_period' = 0
         /\ due' = due - MSG_INTERVAL
         /\ fresh' = TRUE
         /\ MSG_Send("TEST")
    ELSE s_period' = t /\ UNCHANGED <<QMessage, due, fresh>>

(* MsgTest_ModuleProcess1.                                                   *)
MsgTest(p) ==
    LET t == (s_period + p) % U16 IN
    IF t >= MSG_INTERVAL
    THEN /\ s_period' = t - MSG_INTERVAL
         /\ due' = due - MSG_INTERVAL
         /\ fresh' = TRUE
         /\ MSG_Send("TEST")
    ELSE s_period' = t /\ UNCHANGED <<QMessage, due, fresh>>

(* Module_Process through the table of module.c, then line 99.  Task 0       *)
(* reloads the watchdog and posts the echo message; LED and Input, which     *)
(* also run here, are the module InputLed.                                   *)
Feeds_Faulty(k) == k = 1
Feeds(k) == k = 0

Modules(k) ==
    /\ Running(k)
    /\ Goto(k, "modules", "drain")
    /\ lastOSTime' = [lastOSTime EXCEPT ![k] = nextOSTime[k]]
    /\ period' = [period EXCEPT ![k] = 0]
    /\ age' = IF Feeds(k) THEN 0 ELSE age
    /\ \/ k = 0 /\ MSG_Send("LOOP") /\ UNCHANGED <<s_period, due, fresh>>
       \/ k = 1 /\ MsgTest(period[1])
       \/ k > 1 /\ UNCHANGED <<s_period, QMessage, due, fresh>>
    /\ UNCHANGED <<TimerVars, nextOSTime, owed, cur, gap>>

(* The do-while loop: receive, handle and free until the queue is empty.     *)
Drain(k) ==
    /\ Running(k)
    /\ k = 0 /\ QMessage # <<>> /\ pc[k] = "drain"
    /\ QMessage' = Tail(QMessage)
    /\ UNCHANGED <<pc, TimerVars, LoopVars, s_period, due, age, fresh>>

Drained_Faulty(k) == TRUE   \* an if where the code has a do-while
Drained(k) == k = 0 => QMessage = <<>>

OSTimeDly(k) ==
    /\ Running(k)
    /\ Drained(k)
    /\ Goto(k, "drain", "read")
    /\ Sleep(k, Delay[k])
    /\ UNCHANGED <<LoopVars, MsgVars>>

Step(k) == Read(k) \/ Call(k) \/ Modules(k) \/ Drain(k) \/ OSTimeDly(k)

Next == \/ OSTimeTick \/ ModuleInit \/ OSStatInit \/ CreateTasks
        \/ \E k \in Task : Step(k)

Spec == Init /\ [][Next]_vars

(* The tick keeps coming, and the program runs on; BUSY says how fast.       *)
FairSpec == /\ Spec
            /\ WF_vars(OSTimeTick) /\ WF_vars(ModuleInit \/ OSStatInit \/ CreateTasks)
            /\ \A k \in Task : WF_vars(Step(k))

-----------------------------------------------------------------------------
(* Ranges.                                                                   *)
LoopTypeOK ==
    /\ OSTime \in 0..(TIME_MOD - 1)
    /\ OSTCBDly \in [Task -> Nat]
    /\ pc \in [Task -> {"none", "init", "sync", "measure", "create",
                        "read", "call", "modules", "drain"}]
    /\ lastOSTime \in [Task -> 0..(TIME_MOD - 1)]
    /\ nextOSTime \in [Task -> 0..(TIME_MOD - 1)]
    /\ period \in [Task -> 0..(U16 - 1)]
    /\ s_period \in 0..(U16 - 1)
    /\ QMessage \in Seq({"LOOP", "TEST"})
    /\ owed \in [Task -> Nat] /\ cur \in [Task -> Nat] /\ gap \in [Task -> Nat]
    /\ busy \in [Task -> Nat] /\ due \in Int /\ age \in Nat /\ fresh \in BOOLEAN

Calls(k) == pc[k] = "call" /\ pc'[k] = "modules"

(* Through the wrap of the tick counter and the cut to 16 bits, the period a *)
(* module is given is the ticks since the last one, and counts a second time *)
(* just those that fell between the two reads of OSTime, lines 97 and 98.    *)
PeriodExact == [][\A k \in Task : Calls(k) => period'[k] = owed[k] + gap[k]]_vars

(* A loop never comes round before its delay has fully passed: what samples  *)
(* its input once per iteration (Input_ModuleProcess0) never sees one tick   *)
(* twice, however late it woke the time before.                              *)
NeverEarly == [][\A k \in Task : Calls(k) => owed[k] >= Delay[k]]_vars

(* MsgTest loses no time: the ticks it still has to report are those in      *)
(* s_period, in the period under way and since, so however long an iteration *)
(* took, its messages never fall behind the clock.                           *)
NoDrift == due = s_period + period[1] + owed[1]

(* Task 0 never sleeps on a message of an earlier tick: what a less urgent   *)
(* task posts is handled at the next tick, and nothing piles up.             *)
HandledNextTick ==
    OSTCBDly[0] > 0 /\ QMessage # <<>> => QMessage = <<"TEST">> /\ fresh

(* The watchdog, started before the boot delays, is reloaded in time as long *)
(* as task 0 meets its own bound, whatever the other tasks do.               *)
WatchdogFed == age < IWDG_TICKS

(* Every loop comes round for ever, the least urgent one included.           *)
EveryLoopRuns == \A k \in Task : []<>(pc[k] = "modules")
=============================================================================
