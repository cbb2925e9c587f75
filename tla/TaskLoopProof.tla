---------------------------- MODULE TaskLoopProof ----------------------------
(* Theorems about TaskLoop, for any number of tasks, any delays, busy times  *)
(* and widths that meet TaskLoopAssumption: the safety properties of its     *)
(* run, all from one inductive invariant.                                    *)
EXTENDS TaskLoop, TLAPS

BootPc == {"init", "sync", "measure", "create"}
LoopPc == {"read", "call", "modules", "drain"}

(* The tasks exist all at once, when TaskStart has booted the system.        *)
Created == \/ pc[0] \in BootPc /\ \A k \in Task \ {0} : pc[k] = "none"
           \/ \A k \in Task : pc[k] \in LoopPc

(* A task sleeps only where the code calls OSTimeDly; how long it is awake.  *)
SleepOK(k) ==
    /\ OSTCBDly[k] > 0 => pc[k] \in {"measure", "create", "read"} /\ busy[k] = 0
    /\ pc[k] = "none" => busy[k] = 0
    /\ busy[k] <= BUSY[k]

(* The first period: the ticks since the start, while TaskStart boots.       *)
BootOwed(k) ==
    /\ pc[0] \in BootPc => gap[k] = 0 /\ period[k] = 0
    /\ pc[0] \in {"init", "sync"} => owed[k] <= busy[0]
    /\ pc[0] = "measure" =>
          /\ 2 <= owed[k] + OSTCBDly[0]
          /\ owed[k] + OSTCBDly[0] <= 2 + BUSY[0] + busy[0]
    /\ pc[0] = "create" =>
          /\ 2 + STAT_DLY <= owed[k] + OSTCBDly[0]
          /\ owed[k] + OSTCBDly[0] <= 2 + STAT_DLY + 2 * BUSY[0] + busy[0]

(* A later one: what an iteration leaves to the next, and the sleep between. *)
LoopOwed(k) ==
    /\ pc[k] \in {"read", "call"} =>
          /\ Delay[k] <= owed[k] + OSTCBDly[k]
          /\ owed[k] + gap[k] + OSTCBDly[k] <= MSG_INTERVAL - BUSY[k] + busy[k]
    /\ pc[k] = "call" => cur[k] <= busy[k]
    /\ pc[k] \in {"modules", "drain"} => owed[k] + gap[k] <= busy[k]
    /\ period[k] <= MSG_INTERVAL
    /\ pc[k] # "modules" => period[k] = 0

(* The tick counter a number of ticks after it was t.                        *)
After(t, ticks) == IF t + ticks < TIME_MOD THEN t + ticks ELSE t + ticks - TIME_MOD

Clock(k) ==
    /\ pc[k] # "modules" => OSTime = After(lastOSTime[k], owed[k] + gap[k])
    /\ pc[k] = "modules" => OSTime = After(nextOSTime[k], owed[k] + gap[k])
    /\ pc[k] = "call" => OSTime = After(nextOSTime[k], cur[k])

(* The watchdog's age is bounded like the periods of task 0.                 *)
AgeOK ==
    /\ pc[0] = "init" => age = 0
    /\ pc[0] \in BootPc => age <= owed[0]
    /\ pc[0] \in {"read", "call", "modules"} =>
          age + OSTCBDly[0] <= 2 + STAT_DLY + 3 * BUSY[0] + busy[0]
    /\ pc[0] = "drain" => age <= busy[0]

(* While task 0 sleeps its queue holds at most one message, of this tick.    *)
QueueOK ==
    /\ pc[0] \in BootPc => QMessage = <<>>
    /\ pc[0] = "read" => OSTCBDly[0] <= 1
    /\ fresh => pc[1] = "drain" \/ (pc[1] = "read" /\ OSTCBDly[1] > 0)
    /\ HandledNextTick

Inv == /\ LoopTypeOK /\ Created
       /\ \A k \in Task : SleepOK(k)
       /\ \A k \in Task : BootOwed(k)
       /\ \A k \in Task : LoopOwed(k)
       /\ \A k \in Task : Clock(k)
       /\ s_period < MSG_INTERVAL /\ NoDrift
       /\ AgeOK /\ QueueOK

-----------------------------------------------------------------------------
LEMMA Constants ==
    /\ 0 \in Task /\ 1 \in Task /\ Task \subseteq Nat
    /\ STAT_DLY \in Nat /\ MSG_INTERVAL \in Nat /\ U16 \in Nat /\ TIME_MOD \in Nat
    /\ IWDG_TICKS \in Nat /\ MESSAGE_NUM \in Nat
    /\ 0 < MSG_INTERVAL /\ 2 * MSG_INTERVAL <= U16 /\ U16 <= TIME_MOD /\ 0 < MESSAGE_NUM
    /\ Delay[0] = 1 /\ BUSY[0] \in Nat
    /\ 2 + STAT_DLY + 4 * BUSY[0] < IWDG_TICKS
<1>1. 0 \in Task /\ 1 \in Task /\ Task \subseteq Nat
  BY TaskLoopAssumption DEF Task
<1>2. /\ STAT_DLY \in Nat /\ MSG_INTERVAL \in Nat /\ U16 \in Nat /\ TIME_MOD \in Nat
      /\ IWDG_TICKS \in Nat /\ MESSAGE_NUM \in Nat /\ 0 < MSG_INTERVAL /\ 0 < MESSAGE_NUM
  BY TaskLoopAssumption
<1>3. Delay[0] = 1 /\ BUSY[0] \in Nat
  BY <1>1, TaskLoopAssumption
<1>4. 2 * MSG_INTERVAL <= U16 /\ U16 <= TIME_MOD
  BY TaskLoopAssumption
<1>5. 2 + STAT_DLY + 4 * BUSY[0] < IWDG_TICKS
  BY <1>2, <1>3, TaskLoopAssumption DEF FirstPeriod
<1> QED BY <1>1, <1>2, <1>3, <1>4, <1>5

LEMMA TaskConstants ==
    ASSUME NEW k \in Task
    PROVE  /\ Delay[k] \in Nat /\ BUSY[k] \in Nat /\ 0 < BUSY[k] /\ 0 < Delay[k]
           /\ Delay[k] <= 2 + STAT_DLY
           /\ 2 + STAT_DLY + 3 * BUSY[0] + BUSY[k] <= MSG_INTERVAL
           /\ Delay[k] + 2 * BUSY[k] <= MSG_INTERVAL
BY TaskLoopAssumption DEF FirstPeriod, LaterPeriod

LEMMA InitInv == Init => Inv
<1> SUFFICES ASSUME Init PROVE Inv
    OBVIOUS
<1> USE Constants, TaskConstants DEF Init, Zero
<1>1. LoopTypeOK
  <2>1. pc \in [Task -> {"none", "init", "sync", "measure", "create",
                        "read", "call", "modules", "drain"}]
    OBVIOUS
  <2>2. \A f \in {OSTCBDly, owed, cur, gap, busy} : f \in [Task -> Nat]
    OBVIOUS
  <2>3. lastOSTime \in [Task -> 0..(TIME_MOD - 1)] /\ nextOSTime \in [Task -> 0..(TIME_MOD - 1)]
    OBVIOUS
  <2>4. period \in [Task -> 0..(U16 - 1)]
    OBVIOUS
  <2>5. QMessage \in Seq({"LOOP", "TEST"})
    OBVIOUS
  <2>6. OSTime \in 0..(TIME_MOD - 1) /\ s_period \in 0..(U16 - 1)
    OBVIOUS
  <2>7. due \in Int /\ age \in Nat
    OBVIOUS
  <2>8. fresh = FALSE
    OBVIOUS
  <2> QED BY <2>1, <2>2, <2>3, <2>4, <2>5, <2>6, <2>7, <2>8 DEF LoopTypeOK
<1>2. Created
  BY DEF Created, BootPc
<1>3. \A k \in Task : SleepOK(k)
  BY DEF SleepOK
<1>4. \A k \in Task : BootOwed(k)
  BY DEF BootOwed, BootPc
<1>5. \A k \in Task : LoopOwed(k)
  BY DEF LoopOwed
<1>6. \A k \in Task : Clock(k)
  BY DEF Clock, After
<1>7. s_period < MSG_INTERVAL /\ NoDrift
  BY DEF NoDrift
<1>8. AgeOK /\ QueueOK
  BY DEF AgeOK, QueueOK, HandledNextTick, BootPc
<1> QED BY <1>1, <1>2, <1>3, <1>4, <1>5, <1>6, <1>7, <1>8 DEF Inv

-----------------------------------------------------------------------------
LEMMA Pointwise ==
    ASSUME LoopTypeOK, NEW k \in Task
    PROVE  /\ OSTCBDly[k] \in Nat /\ owed[k] \in Nat /\ cur[k] \in Nat
           /\ gap[k] \in Nat /\ busy[k] \in Nat
           /\ lastOSTime[k] \in 0..(TIME_MOD - 1) /\ nextOSTime[k] \in 0..(TIME_MOD - 1)
           /\ period[k] \in Nat
BY DEF LoopTypeOK

(* A tick: the sleepers count down, everyone's period and the clock go on.   *)
LEMMA TickInv == ASSUME Inv, OSTimeTick PROVE Inv'
<1>0. /\ LoopTypeOK /\ Created /\ AgeOK /\ QueueOK /\ NoDrift
      /\ OSTime \in 0..(TIME_MOD - 1)
  BY DEF Inv, LoopTypeOK
<1>1. /\ OSTime' = IF OSTime = TIME_MOD - 1 THEN 0 ELSE OSTime + 1
      /\ OSTCBDly' = [k \in Task |-> Wake(k)]
      /\ owed' = [k \in Task |-> owed[k] + 1]
      /\ cur' = [k \in Task |-> IF pc[k] = "call" THEN cur[k] + 1 ELSE 0]
      /\ busy' = [k \in Task |-> IF Awake(k) THEN busy[k] + 1 ELSE 0]
      /\ due' = due + 1
      /\ age' = IF pc[0] = "init" THEN 0 ELSE age + 1
      /\ fresh' = FALSE
      /\ UNCHANGED <<pc, lastOSTime, nextOSTime, period, s_period, QMessage, gap>>
  BY DEF OSTimeTick, locals
<1>2. ASSUME NEW k \in Task
      PROVE  /\ OSTCBDly'[k] = IF OSTCBDly[k] > 0 THEN OSTCBDly[k] - 1 ELSE OSTCBDly[k]
             /\ busy'[k] = IF pc[k] # "none" /\ OSTCBDly[k] = 0 THEN busy[k] + 1 ELSE 0
             /\ pc[k] # "none" /\ OSTCBDly[k] = 0 => busy[k] < BUSY[k]
             /\ owed'[k] = owed[k] + 1
             /\ pc[k] = "call" => cur'[k] = cur[k] + 1
             /\ OSTCBDly'[k] \in Nat /\ busy'[k] \in Nat /\ cur'[k] \in Nat
  <2>1. OSTCBDly'[k] = IF OSTCBDly[k] > 0 THEN OSTCBDly[k] - 1 ELSE OSTCBDly[k]
    BY <1>0, <1>1, Pointwise DEF Wake
  <2>2. /\ busy'[k] = IF pc[k] # "none" /\ OSTCBDly[k] = 0 THEN busy[k] + 1 ELSE 0
        /\ pc[k] # "none" /\ OSTCBDly[k] = 0 => busy[k] < BUSY[k]
    BY <1>1 DEF Awake, OSTimeTick
  <2>3. owed'[k] = owed[k] + 1 /\ cur'[k] = IF pc[k] = "call" THEN cur[k] + 1 ELSE 0
    BY <1>1
  <2> QED BY <1>0, <2>1, <2>2, <2>3, Pointwise
<1>3. LoopTypeOK'
  <2>1. \A f \in {OSTCBDly', owed', cur', busy'} : f \in [Task -> Nat]
    BY <1>0, <1>1, <1>2, Pointwise
  <2>2. OSTime' \in 0..(TIME_MOD - 1)
    BY <1>0, <1>1, Constants
  <2>3. due' \in Int /\ age' \in Nat
    BY <1>0, <1>1 DEF LoopTypeOK
  <2> QED BY <1>0, <1>1, <2>1, <2>2, <2>3 DEF LoopTypeOK
<1>4. Created'
  BY <1>0, <1>1 DEF Created
<1>5. \A k \in Task : SleepOK(k)'
  <2> SUFFICES ASSUME NEW k \in Task PROVE SleepOK(k)'
    OBVIOUS
  <2>1. SleepOK(k)
    BY DEF Inv
  <2> QED BY <2>1, <1>0, <1>1, <1>2, Pointwise, TaskConstants DEF SleepOK
<1>6. \A k \in Task : BootOwed(k)'
  <2> SUFFICES ASSUME NEW k \in Task PROVE BootOwed(k)'
    OBVIOUS
  <2>1. BootOwed(k) /\ SleepOK(0)
    BY Constants DEF Inv
  <2>2. /\ owed[k] \in Nat /\ OSTCBDly[0] \in Nat /\ busy[0] \in Nat /\ BUSY[0] \in Nat
        /\ STAT_DLY \in Nat
    BY <1>0, Pointwise, Constants
  <2> QED BY <2>1, <2>2, <1>1, <1>2, Constants DEF BootOwed, SleepOK
<1>7. \A k \in Task : LoopOwed(k)'
  <2> SUFFICES ASSUME NEW k \in Task PROVE LoopOwed(k)'
    OBVIOUS
  <2>1. LoopOwed(k) /\ SleepOK(k)
    BY DEF Inv
  <2> QED BY <2>1, <1>0, <1>1, <1>2, Pointwise, TaskConstants, Constants DEF LoopOwed, SleepOK
<1>8. \A k \in Task : Clock(k)'
  <2> SUFFICES ASSUME NEW k \in Task PROVE Clock(k)'
    OBVIOUS
  <2>1. Clock(k)
    BY DEF Inv
  <2>2. owed'[k] + gap[k] <= MSG_INTERVAL /\ (pc[k] = "call" => cur'[k] <= MSG_INTERVAL)
    <3>1. /\ SleepOK(k)' /\ SleepOK(0)' /\ BootOwed(k)' /\ LoopOwed(k)' /\ Created'
          /\ busy'[0] \in Nat /\ OSTCBDly'[0] \in Nat
      BY <1>2, <1>4, <1>5, <1>6, <1>7, Constants
    <3>2. CASE pc[k] \in LoopPc
      BY <3>1, <3>2, <1>0, <1>1, <1>2, Pointwise, TaskConstants, Constants
         DEF LoopPc, SleepOK, LoopOwed
    <3>3. CASE pc[0] \in BootPc
      <4>1. gap[k] = 0 /\ owed'[k] <= 2 + STAT_DLY + 3 * BUSY[0] /\ pc[k] # "call"
        BY <3>1, <3>3, <1>0, <1>1, <1>2, Pointwise, Constants
           DEF BootPc, SleepOK, BootOwed, Created, LoopPc
      <4> QED BY <4>1, <1>0, <1>2, Pointwise, TaskConstants, Constants
    <3> QED BY <3>2, <3>3, <1>0, <1>4 DEF Created
  <2> QED BY <2>1, <2>2, <1>0, <1>1, <1>2, Pointwise, Constants DEF Clock, After
<1>9. (s_period < MSG_INTERVAL /\ NoDrift)'
  <2>1. s_period < MSG_INTERVAL
    BY DEF Inv
  <2>2. s_period \in Nat /\ due \in Int /\ owed[1] \in Nat /\ period[1] \in Nat
    BY <1>0, Pointwise, Constants DEF LoopTypeOK
  <2> QED BY <2>1, <2>2, <1>0, <1>1, <1>2, Constants DEF NoDrift
<1>10. AgeOK'
  <2>1. SleepOK(0) /\ OSTCBDly[0] \in Nat /\ busy[0] \in Nat /\ age \in Nat /\ owed[0] \in Nat
    BY <1>0, Pointwise, Constants DEF Inv, LoopTypeOK
  <2> QED BY <2>1, <1>0, <1>1, <1>2, Constants DEF AgeOK, SleepOK, BootPc
<1>11. QueueOK'
  <2>1. SleepOK(0) /\ OSTCBDly[0] \in Nat
    BY <1>0, Pointwise, Constants DEF Inv
  <2> QED BY <2>1, <1>0, <1>1, <1>2, Constants DEF QueueOK, HandledNextTick, SleepOK, BootPc
<1> QED BY <1>3, <1>4, <1>5, <1>6, <1>7, <1>8, <1>9, <1>10, <1>11 DEF Inv

(* TaskStart: the watchdog is started, then the two sleeps of OSStatInit.    *)
LEMMA ModuleInitInv == ASSUME Inv, ModuleInit PROVE Inv'
<1>0. LoopTypeOK /\ Created /\ AgeOK /\ QueueOK
  BY DEF Inv
<1>1. /\ pc[0] = "init" /\ pc' = [pc EXCEPT ![0] = "sync"]
      /\ UNCHANGED <<OSTime, OSTCBDly, busy, lastOSTime, nextOSTime, period, owed, cur, gap>>
      /\ UNCHANGED <<s_period, QMessage, due, age, fresh>>
  BY DEF ModuleInit, Goto, TimerVars, LoopVars, MsgVars, locals
<1>2. pc'[0] = "sync" /\ \A k \in Task \ {0} : pc'[k] = "none" /\ pc[k] = "none"
  BY <1>0, <1>1, Constants DEF LoopTypeOK, Created, LoopPc
<1>3. LoopTypeOK'
  BY <1>0, <1>1, Constants DEF LoopTypeOK
<1>4. Created'
  BY <1>2 DEF Created, BootPc
<1>5. ASSUME NEW k \in Task
      PROVE  SleepOK(k)' /\ BootOwed(k)' /\ LoopOwed(k)' /\ Clock(k)'
  <2>1. SleepOK(k) /\ BootOwed(k) /\ LoopOwed(k) /\ Clock(k)
    BY DEF Inv
  <2>2. \/ pc[k] = "init" /\ pc'[k] = "sync"
        \/ pc[k] = "none" /\ pc'[k] = "none"
    BY <1>1, <1>2
  <2>3. SleepOK(k)'
    BY <2>1, <2>2, <1>1 DEF SleepOK
  <2>4. BootOwed(k)'
    BY <2>1, <1>1, <1>2 DEF BootOwed, BootPc
  <2>5. LoopOwed(k)'
    BY <2>1, <2>2, <1>1 DEF LoopOwed
  <2>6. Clock(k)'
    BY <2>1, <2>2, <1>1 DEF Clock, After
  <2> QED BY <2>3, <2>4, <2>5, <2>6
<1>6. (s_period < MSG_INTERVAL /\ NoDrift)'
  BY <1>1 DEF Inv, NoDrift
<1>7. AgeOK' /\ QueueOK'
  BY <1>0, <1>1, <1>2, Constants DEF AgeOK, QueueOK, HandledNextTick, BootPc
<1> QED BY <1>3, <1>4, <1>5, <1>6, <1>7 DEF Inv

LEMMA OSStatInitInv == ASSUME Inv, OSStatInit PROVE Inv'
<1>0. LoopTypeOK /\ Created /\ AgeOK /\ QueueOK
  BY DEF Inv
<1>1. /\ OSTCBDly[0] = 0
      /\ \/ /\ pc[0] = "sync" /\ pc' = [pc EXCEPT ![0] = "measure"]
            /\ OSTCBDly' = [OSTCBDly EXCEPT ![0] = 2]
         \/ /\ pc[0] = "measure" /\ pc' = [pc EXCEPT ![0] = "create"]
            /\ OSTCBDly' = [OSTCBDly EXCEPT ![0] = STAT_DLY]
      /\ busy' = [busy EXCEPT ![0] = 0]
      /\ UNCHANGED <<OSTime, lastOSTime, nextOSTime, period, owed, cur, gap>>
      /\ UNCHANGED <<s_period, QMessage, due, age, fresh>>
  BY DEF OSStatInit, Running, Awake, Goto, Sleep, LoopVars, MsgVars, locals
<1>2. /\ \A k \in Task \ {0} : pc'[k] = "none" /\ pc[k] = "none"
      /\ \A k \in Task \ {0} : OSTCBDly'[k] = OSTCBDly[k] /\ busy'[k] = busy[k]
      /\ busy'[0] = 0
      /\ \/ pc[0] = "sync" /\ pc'[0] = "measure" /\ OSTCBDly'[0] = 2
         \/ pc[0] = "measure" /\ pc'[0] = "create" /\ OSTCBDly'[0] = STAT_DLY
  BY <1>0, <1>1, Constants DEF LoopTypeOK, Created, LoopPc
<1>3. LoopTypeOK'
  <2>0. OSTCBDly \in [Task -> Nat] /\ busy \in [Task -> Nat]
    BY <1>0 DEF LoopTypeOK
  <2>1. OSTCBDly' \in [Task -> Nat] /\ busy' \in [Task -> Nat]
    BY <2>0, <1>1, Constants
  <2>2. pc' \in [Task -> {"none", "init", "sync", "measure", "create",
                         "read", "call", "modules", "drain"}]
    BY <1>0, <1>1, Constants DEF LoopTypeOK
  <2> QED BY <1>0, <1>1, <2>1, <2>2 DEF LoopTypeOK
<1>4. Created'
  BY <1>2 DEF Created, BootPc
<1>5. ASSUME NEW k \in Task
      PROVE  SleepOK(k)' /\ BootOwed(k)' /\ LoopOwed(k)' /\ Clock(k)'
  <2>1. SleepOK(k) /\ BootOwed(k) /\ LoopOwed(k) /\ Clock(k) /\ SleepOK(0)
    BY Constants DEF Inv
  <2>2. SleepOK(k)'
    BY <2>1, <1>1, <1>2, TaskConstants DEF SleepOK
  <2>3. BootOwed(k)'
    BY <2>1, <1>0, <1>1, <1>2, Constants, Pointwise DEF BootOwed, BootPc, SleepOK
  <2>4. LoopOwed(k)' /\ Clock(k)'
    BY <2>1, <1>1, <1>2 DEF LoopOwed, Clock, After
  <2> QED BY <2>2, <2>3, <2>4
<1>6. (s_period < MSG_INTERVAL /\ NoDrift)'
  BY <1>1 DEF Inv, NoDrift
<1>7. AgeOK' /\ QueueOK'
  BY <1>0, <1>1, <1>2, Constants DEF AgeOK, QueueOK, HandledNextTick, BootPc
<1> QED BY <1>3, <1>4, <1>5, <1>6, <1>7 DEF Inv

(* The first period of every task is the whole boot.                         *)
LEMMA CreateTasksInv == ASSUME Inv, CreateTasks PROVE Inv'
<1>0. LoopTypeOK /\ Created /\ AgeOK /\ QueueOK
  BY DEF Inv
<1>1. /\ OSTCBDly[0] = 0 /\ pc[0] = "create" /\ pc' = [k \in Task |-> "read"]
      /\ UNCHANGED <<OSTime, OSTCBDly, busy, lastOSTime, nextOSTime, period, owed, cur, gap>>
      /\ UNCHANGED <<s_period, QMessage, due, age, fresh>>
  BY DEF CreateTasks, Running, Awake, TimerVars, LoopVars, MsgVars, locals
<1>2. \A k \in Task : pc'[k] = "read" /\ (k # 0 => pc[k] = "none")
  BY <1>0, <1>1, Constants DEF Created, LoopPc
<1>3. LoopTypeOK'
  <2>1. pc' \in [Task -> {"none", "init", "sync", "measure", "create",
                         "read", "call", "modules", "drain"}]
    BY <1>1
  <2> QED BY <1>0, <1>1, <2>1 DEF LoopTypeOK
<1>4. Created'
  BY <1>2 DEF Created, LoopPc
<1>5. ASSUME NEW k \in Task
      PROVE  SleepOK(k)' /\ BootOwed(k)' /\ LoopOwed(k)' /\ Clock(k)'
  <2>1. SleepOK(k) /\ BootOwed(k) /\ LoopOwed(k) /\ Clock(k) /\ SleepOK(0)
    BY Constants DEF Inv
  <2>2. OSTCBDly[k] = 0 /\ pc'[k] = "read" /\ pc'[0] = "read" /\ pc[k] # "modules"
    BY <2>1, <1>0, <1>1, <1>2, Constants, Pointwise DEF SleepOK
  <2>3. SleepOK(k)' /\ BootOwed(k)'
    BY <2>1, <2>2, <1>1 DEF SleepOK, BootOwed, BootPc
  <2>4. LoopOwed(k)'
    <3>1. /\ 2 + STAT_DLY <= owed[k] /\ gap[k] = 0 /\ period[k] = 0
          /\ owed[k] <= 2 + STAT_DLY + 3 * BUSY[0]
      BY <2>1, <1>0, <1>1, Constants, Pointwise DEF BootOwed, SleepOK, BootPc
    <3> QED BY <3>1, <2>2, <1>0, <1>1, Constants, TaskConstants, Pointwise DEF LoopOwed
  <2>5. Clock(k)'
    BY <2>1, <2>2, <1>1 DEF Clock, After
  <2> QED BY <2>3, <2>4, <2>5
<1>6. (s_period < MSG_INTERVAL /\ NoDrift)'
  BY <1>1 DEF Inv, NoDrift
<1>7. AgeOK'
  <2>1. BootOwed(0) /\ SleepOK(0) /\ age \in Nat
    BY <1>0, Constants DEF Inv, LoopTypeOK
  <2> QED BY <2>1, <1>0, <1>1, <1>2, Constants, Pointwise DEF AgeOK, BootOwed, SleepOK, BootPc
<1>8. QueueOK'
  <2>1. ~fresh
    BY <1>0, <1>1, <1>2, Constants DEF QueueOK
  <2> QED BY <2>1, <1>0, <1>1, <1>2, Constants DEF QueueOK, HandledNextTick, BootPc
<1> QED BY <1>3, <1>4, <1>5, <1>6, <1>7, <1>8 DEF Inv

-----------------------------------------------------------------------------
(* The loop: every task exists, and the one that runs is awake.              *)
LEMMA InLoop ==
    ASSUME Inv, NEW k \in Task, Running(k), pc[k] \in LoopPc
    PROVE  OSTCBDly[k] = 0 /\ \A j \in Task : pc[j] \in LoopPc
BY Constants DEF Inv, Created, Running, Awake, LoopPc, BootPc

LEMMA ReadInv == ASSUME Inv, NEW k \in Task, Read(k) PROVE Inv'
<1>0. LoopTypeOK /\ AgeOK /\ QueueOK
  BY DEF Inv
<1>1. /\ Running(k) /\ pc[k] = "read" /\ pc' = [pc EXCEPT ![k] = "call"]
      /\ nextOSTime' = [nextOSTime EXCEPT ![k] = OSTime]
      /\ cur' = [cur EXCEPT ![k] = 0]
      /\ UNCHANGED <<OSTime, OSTCBDly, busy, lastOSTime, period, owed, gap>>
      /\ UNCHANGED <<s_period, QMessage, due, age, fresh>>
  BY DEF Read, Goto, TimerVars, MsgVars
<1>2. OSTCBDly[k] = 0 /\ \A j \in Task : pc[j] \in LoopPc
  BY <1>1, InLoop DEF LoopPc
<1>3. ASSUME NEW j \in Task
      PROVE  /\ pc'[j] = IF j = k THEN "call" ELSE pc[j]
             /\ nextOSTime'[j] = IF j = k THEN OSTime ELSE nextOSTime[j]
             /\ cur'[j] = IF j = k THEN 0 ELSE cur[j]
             /\ OSTime \in 0..(TIME_MOD - 1)
  BY <1>0, <1>1 DEF LoopTypeOK
<1>4. LoopTypeOK'
  <2>1. cur' \in [Task -> Nat] /\ nextOSTime' \in [Task -> 0..(TIME_MOD - 1)]
    BY <1>0, <1>1 DEF LoopTypeOK
  <2>2. pc' \in [Task -> {"none", "init", "sync", "measure", "create",
                         "read", "call", "modules", "drain"}]
    BY <1>0, <1>1 DEF LoopTypeOK
  <2> QED BY <1>0, <1>1, <2>1, <2>2 DEF LoopTypeOK
<1>5. \A j \in Task : pc'[j] \in LoopPc
  BY <1>2, <1>3 DEF LoopPc
<1>6. ASSUME NEW j \in Task
      PROVE  SleepOK(j)' /\ BootOwed(j)' /\ LoopOwed(j)' /\ Clock(j)'
  <2>1. SleepOK(j) /\ LoopOwed(j) /\ Clock(j)
    BY DEF Inv
  <2>2. SleepOK(j)'
    BY <2>1, <1>1, <1>2, <1>3, <1>5 DEF SleepOK, LoopPc
  <2>3. BootOwed(j)'
    BY <1>5, Constants DEF BootOwed, BootPc, LoopPc
  <2>4. LoopOwed(j)'
    BY <2>1, <1>0, <1>1, <1>3, Pointwise DEF LoopOwed
  <2>5. Clock(j)'
    BY <2>1, <1>1, <1>3, Constants DEF Clock, After
  <2> QED BY <2>2, <2>3, <2>4, <2>5
<1>7. (s_period < MSG_INTERVAL /\ NoDrift)'
  BY <1>1 DEF Inv, NoDrift
<1>8. AgeOK'
  BY <1>0, <1>1, <1>2, <1>3, <1>5, Constants DEF AgeOK, BootPc, LoopPc
<1>9. QueueOK'
  BY <1>0, <1>1, <1>2, <1>3, <1>5, Constants DEF QueueOK, HandledNextTick, BootPc, LoopPc
<1> QED BY <1>4, <1>5, <1>6, <1>7, <1>8, <1>9 DEF Inv, Created

(* Tool_LoopSub, in both branches, is the difference modulo the width of the *)
(* counter, and leads from the one time to the other (tool.c:106-113).       *)
THEOREM LoopSubIsDifference ==
    \A last, next \in 0..(TIME_MOD - 1) :
        /\ Tool_LoopSub(last, next) = (next - last) % TIME_MOD
        /\ After(last, Tool_LoopSub(last, next)) = next
<1> SUFFICES ASSUME NEW last \in 0..(TIME_MOD - 1), NEW next \in 0..(TIME_MOD - 1)
             PROVE  /\ Tool_LoopSub(last, next) = (next - last) % TIME_MOD
                    /\ After(last, Tool_LoopSub(last, next)) = next
  OBVIOUS
<1>1. CASE next >= last
  BY <1>1, Constants DEF Tool_LoopSub, After
<1>2. CASE next < last
  BY <1>2, Constants DEF Tool_LoopSub, After
<1> QED BY <1>1, <1>2

(* The difference over the wrap of the counter, and its cut to 16 bits.      *)
LEMMA Difference ==
    ASSUME NEW last \in 0..(TIME_MOD - 1), NEW ticks \in Nat, ticks <= MSG_INTERVAL
    PROVE  Tool_LoopSub(last, After(last, ticks)) % U16 = ticks
<1>1. Tool_LoopSub(last, After(last, ticks)) = ticks
  BY Constants DEF Tool_LoopSub, After
<1>2. ticks \in 0..(U16 - 1)
  BY Constants
<1> QED BY <1>1, <1>2, Constants

(* Only the task itself moves it from line 98 into its modules.              *)
LEMMA OnlyCall ==
    ASSUME LoopTypeOK, Next, NEW k \in Task, Calls(k)
    PROVE  Call(k)
<1>1. pc[k] = "call" /\ pc'[k] = "modules" /\ pc \in [Task -> {"none", "init", "sync",
         "measure", "create", "read", "call", "modules", "drain"}]
  BY DEF Calls, LoopTypeOK
<1>2. ~OSTimeTick /\ ~ModuleInit /\ ~OSStatInit /\ ~CreateTasks
  BY <1>1, Constants DEF OSTimeTick, ModuleInit, OSStatInit, CreateTasks, Goto
<1>3. PICK j \in Task : Step(j)
  BY <1>2 DEF Next
<1>4. Call(j) /\ j = k
  BY <1>1, <1>3 DEF Step, Read, Call, Modules, Drain, OSTimeDly, Goto, LoopVars
<1> QED BY <1>4

LEMMA CallPeriod ==
    ASSUME Inv, NEW k \in Task, Call(k)
    PROVE  period'[k] = owed[k] + gap[k] /\ period'[k] <= MSG_INTERVAL
<1>1. /\ Running(k) /\ pc[k] = "call"
      /\ period' = [period EXCEPT ![k] = Tool_LoopSub(lastOSTime[k], OSTime) % U16]
  BY DEF Call, Goto
<1>2. LoopTypeOK /\ SleepOK(k) /\ LoopOwed(k) /\ Clock(k)
  BY DEF Inv
<1>3. OSTime = After(lastOSTime[k], owed[k] + gap[k])
  BY <1>1, <1>2 DEF Clock
<1>4. owed[k] + gap[k] <= MSG_INTERVAL /\ owed[k] + gap[k] \in Nat
  BY <1>1, <1>2, Pointwise, Constants, TaskConstants DEF LoopOwed, SleepOK
<1>5. lastOSTime[k] \in 0..(TIME_MOD - 1)
  BY <1>2, Pointwise
<1>6. period'[k] = Tool_LoopSub(lastOSTime[k], OSTime) % U16
  BY <1>1, <1>2 DEF LoopTypeOK
<1> QED BY <1>3, <1>4, <1>5, <1>6, Difference

LEMMA CallInv == ASSUME Inv, NEW k \in Task, Call(k) PROVE Inv'
<1>0. LoopTypeOK /\ AgeOK /\ QueueOK /\ NoDrift
  BY DEF Inv
<1>1. /\ Running(k) /\ pc[k] = "call" /\ pc' = [pc EXCEPT ![k] = "modules"]
      /\ period' = [period EXCEPT ![k] = Tool_LoopSub(lastOSTime[k], OSTime) % U16]
      /\ owed' = [owed EXCEPT ![k] = 0]
      /\ gap' = [gap EXCEPT ![k] = cur[k]]
      /\ cur' = [cur EXCEPT ![k] = 0]
      /\ due' = IF k = 1 THEN due + gap[1] ELSE due
      /\ UNCHANGED <<OSTime, OSTCBDly, busy, lastOSTime, nextOSTime>>
      /\ UNCHANGED <<s_period, QMessage, age, fresh>>
  BY DEF Call, Goto, TimerVars
<1>2. OSTCBDly[k] = 0 /\ \A j \in Task : pc[j] \in LoopPc
  BY <1>1, InLoop DEF LoopPc
<1>3. period'[k] = owed[k] + gap[k] /\ period'[k] <= MSG_INTERVAL
  BY CallPeriod
<1>4. ASSUME NEW j \in Task
      PROVE  /\ pc'[j] = IF j = k THEN "modules" ELSE pc[j]
             /\ owed'[j] = IF j = k THEN 0 ELSE owed[j]
             /\ gap'[j] = IF j = k THEN cur[k] ELSE gap[j]
             /\ period'[j] = IF j = k THEN owed[k] + gap[k] ELSE period[j]
  BY <1>0, <1>1, <1>3 DEF LoopTypeOK
<1>5. LoopTypeOK'
  <2>0. owed \in [Task -> Nat] /\ gap \in [Task -> Nat] /\ cur \in [Task -> Nat]
    BY <1>0 DEF LoopTypeOK
  <2>1. owed' \in [Task -> Nat] /\ cur' \in [Task -> Nat]
    BY <2>0, <1>1
  <2>5. gap' \in [Task -> Nat]
    BY <2>0, <1>1
  <2>2. period' \in [Task -> 0..(U16 - 1)]
    <3>1. period'[k] \in 0..(U16 - 1)
      BY <1>0, <1>3, Pointwise, Constants
    <3>2. period \in [Task -> 0..(U16 - 1)]
      BY <1>0 DEF LoopTypeOK
    <3> QED BY <1>1, <3>1, <3>2
  <2>3. pc' \in [Task -> {"none", "init", "sync", "measure", "create",
                         "read", "call", "modules", "drain"}]
    BY <1>0, <1>1 DEF LoopTypeOK
  <2>4. due' \in Int
    BY <1>0, <1>1, Pointwise, Constants DEF LoopTypeOK
  <2> QED BY <1>0, <1>1, <2>1, <2>2, <2>3, <2>4, <2>5 DEF LoopTypeOK
<1>6. \A j \in Task : pc'[j] \in LoopPc
  BY <1>2, <1>4 DEF LoopPc
<1>7. ASSUME NEW j \in Task
      PROVE  SleepOK(j)' /\ BootOwed(j)' /\ LoopOwed(j)' /\ Clock(j)'
  <2>1. SleepOK(j) /\ LoopOwed(j) /\ Clock(j)
    BY DEF Inv
  <2>2. SleepOK(j)'
    BY <2>1, <1>1, <1>2, <1>4, <1>6 DEF SleepOK, LoopPc
  <2>3. BootOwed(j)'
    BY <1>6, Constants DEF BootOwed, BootPc, LoopPc
  <2>4. LoopOwed(j)'
    BY <2>1, <1>0, <1>1, <1>3, <1>4, Pointwise DEF LoopOwed
  <2>5. Clock(j)'
    BY <2>1, <1>0, <1>1, <1>4, Pointwise DEF Clock, After
  <2> QED BY <2>2, <2>3, <2>4, <2>5
<1>8. (s_period < MSG_INTERVAL /\ NoDrift)'
  <2>1. period[1] = 0 \/ k # 1
    BY <1>1 DEF Inv, LoopOwed
  <2>2. s_period \in Nat /\ due \in Int /\ s_period < MSG_INTERVAL
    BY <1>0 DEF LoopTypeOK, Inv
  <2> QED BY <2>1, <2>2, <1>0, <1>1, <1>4, Pointwise, Constants DEF NoDrift
<1>9. AgeOK'
  BY <1>0, <1>1, <1>2, <1>4, <1>6, Constants DEF AgeOK, BootPc, LoopPc
<1>10. QueueOK'
  BY <1>0, <1>1, <1>2, <1>4, <1>6, Constants DEF QueueOK, HandledNextTick, BootPc, LoopPc
<1> QED BY <1>5, <1>6, <1>7, <1>8, <1>9, <1>10 DEF Inv, Created

(* MsgTest reports whole intervals and keeps the rest.                       *)
LEMMA MsgTestStep ==
    ASSUME LoopTypeOK, s_period < MSG_INTERVAL, NEW p \in Nat, p <= MSG_INTERVAL, MsgTest(p)
    PROVE  /\ s_period' \in Nat /\ s_period' < MSG_INTERVAL /\ due' \in Int
           /\ due' - s_period' = due - (s_period + p)
           /\ fresh' \in BOOLEAN
           /\ \/ fresh' /\ MSG_Send("TEST")
              \/ UNCHANGED <<fresh, QMessage>>
<1>1. (s_period + p) % U16 = s_period + p
  <2>1. s_period + p \in 0..(U16 - 1)
    BY Constants DEF LoopTypeOK
  <2> QED BY <2>1, Constants
<1>2. s_period \in Nat /\ due \in Int
  BY DEF LoopTypeOK
<1>3. CASE s_period + p >= MSG_INTERVAL
  <2>0. due' = due - MSG_INTERVAL
    BY <1>1, <1>3 DEF MsgTest
  <2>1. s_period' = s_period + p - MSG_INTERVAL
    <3>1. (s_period + p) % U16 >= MSG_INTERVAL
      BY <1>1, <1>3
    <3>2. s_period' = ((s_period + p) % U16) - MSG_INTERVAL
      BY <3>1 DEF MsgTest
    <3>3. s_period' = (s_period + p) - MSG_INTERVAL
      BY <3>2, <1>1
    <3> QED BY <3>3, <1>2, Constants
  <2>2. fresh' \in BOOLEAN /\ fresh'
    BY <1>1, <1>3 DEF MsgTest
  <2>3. MSG_Send("TEST")
    BY <1>1, <1>3 DEF MsgTest
  <2>4. /\ s_period' \in Nat /\ s_period' < MSG_INTERVAL /\ due' \in Int
        /\ due' - s_period' = due - (s_period + p)
    BY <2>0, <2>1, <1>2, <1>3, Constants
  <2> QED BY <2>2, <2>3, <2>4
<1>4. CASE ~(s_period + p >= MSG_INTERVAL)
  <2>1. s_period' = s_period + p /\ UNCHANGED <<QMessage, due, fresh>>
    BY <1>1, <1>4 DEF MsgTest
  <2> QED BY <2>1, <1>2, <1>4, Constants DEF LoopTypeOK
<1> QED BY <1>3, <1>4

LEMMA SendType ==
    ASSUME NEW m \in {"LOOP", "TEST"}, QMessage \in Seq({"LOOP", "TEST"}), MSG_Send(m)
    PROVE  /\ QMessage' \in Seq({"LOOP", "TEST"})
           /\ QMessage = <<>> => QMessage' = <<m>>
<1>1. QMessage' = QMessage \/ QMessage' = Append(QMessage, m)
  BY DEF MSG_Send
<1>2. QMessage' \in Seq({"LOOP", "TEST"})
  BY <1>1
<1>3. ASSUME QMessage = <<>> PROVE QMessage' = <<m>>
  <2>1. Len(QMessage) = 0
    BY <1>3
  <2>2. QMessage' = Append(QMessage, m)
    BY <2>1, Constants DEF MSG_Send
  <2> QED BY <2>2, <1>3
<1> QED BY <1>2, <1>3

LEMMA ModulesInv == ASSUME Inv, NEW k \in Task, Modules(k) PROVE Inv'
<1>0. LoopTypeOK /\ AgeOK /\ QueueOK /\ NoDrift
  BY DEF Inv
<1>1. /\ Running(k) /\ pc[k] = "modules" /\ pc' = [pc EXCEPT ![k] = "drain"]
      /\ lastOSTime' = [lastOSTime EXCEPT ![k] = nextOSTime[k]]
      /\ period' = [period EXCEPT ![k] = 0]
      /\ age' = IF k = 0 THEN 0 ELSE age
      /\ UNCHANGED <<OSTime, OSTCBDly, busy, nextOSTime, owed, cur, gap>>
  BY DEF Modules, Feeds, Goto, TimerVars
<1>2. OSTCBDly[k] = 0 /\ \A j \in Task : pc[j] \in LoopPc
  BY <1>1, InLoop DEF LoopPc
<1>3. period[k] \in Nat /\ period[k] <= MSG_INTERVAL /\ s_period < MSG_INTERVAL /\ s_period \in Nat
  BY <1>0, Pointwise DEF Inv, LoopOwed, LoopTypeOK
<1>4. ASSUME NEW j \in Task
      PROVE  /\ pc'[j] = IF j = k THEN "drain" ELSE pc[j]
             /\ lastOSTime'[j] = IF j = k THEN nextOSTime[k] ELSE lastOSTime[j]
             /\ period'[j] = IF j = k THEN 0 ELSE period[j]
  BY <1>0, <1>1 DEF LoopTypeOK
<1>5. \/ k # 1 /\ UNCHANGED <<s_period, due, fresh>>
      \/ /\ k = 1 /\ s_period' \in Nat /\ due' \in Int /\ fresh' \in BOOLEAN
         /\ due' - s_period' = due - (s_period + period[k])
         /\ (fresh' /\ MSG_Send("TEST")) \/ UNCHANGED <<fresh, QMessage>>
  BY <1>0, <1>1, <1>3, MsgTestStep DEF Modules
<1>6. s_period' < MSG_INTERVAL
  BY <1>0, <1>1, <1>3, MsgTestStep DEF Modules
<1>7. \/ k = 0 /\ MSG_Send("LOOP")
      \/ k = 1 /\ MSG_Send("TEST") /\ fresh'
      \/ UNCHANGED <<fresh, QMessage>>
  BY <1>0, <1>1, <1>3, MsgTestStep DEF Modules
<1>8. LoopTypeOK'
  <2>1. QMessage' \in Seq({"LOOP", "TEST"})
    BY <1>0, <1>7, SendType DEF LoopTypeOK
  <2>0. s_period' \in Nat /\ due' \in Int
    BY <1>0, <1>3, <1>5 DEF LoopTypeOK
  <2>2. s_period' \in 0..(U16 - 1)
    BY <2>0, <1>6, Constants
  <2>7. fresh' \in BOOLEAN
    BY <1>0, <1>5 DEF LoopTypeOK
  <2>3. lastOSTime' \in [Task -> 0..(TIME_MOD - 1)]
    BY <1>0, <1>1 DEF LoopTypeOK
  <2>4. pc' \in [Task -> {"none", "init", "sync", "measure", "create",
                         "read", "call", "modules", "drain"}]
    BY <1>0, <1>1 DEF LoopTypeOK
  <2>5. period' \in [Task -> 0..(U16 - 1)]
    BY <1>0, <1>1, Constants DEF LoopTypeOK
  <2>6. age' \in Nat
    BY <1>0, <1>1 DEF LoopTypeOK
  <2> QED BY <1>0, <1>1, <2>0, <2>1, <2>2, <2>3, <2>4, <2>5, <2>6, <2>7
          DEF LoopTypeOK
<1>9. \A j \in Task : pc'[j] \in LoopPc
  BY <1>2, <1>4 DEF LoopPc
<1>10. ASSUME NEW j \in Task
       PROVE  SleepOK(j)' /\ BootOwed(j)' /\ LoopOwed(j)' /\ Clock(j)'
  <2>1. SleepOK(j) /\ LoopOwed(j) /\ Clock(j)
    BY DEF Inv
  <2>2. SleepOK(j)'
    BY <2>1, <1>1, <1>2, <1>4, <1>9 DEF SleepOK, LoopPc
  <2>3. BootOwed(j)'
    BY <1>9, Constants DEF BootOwed, BootPc, LoopPc
  <2>4. LoopOwed(j)'
    BY <2>1, <1>1, <1>4, Constants DEF LoopOwed
  <2>5. Clock(j)'
    BY <2>1, <1>1, <1>4 DEF Clock, After
  <2> QED BY <2>2, <2>3, <2>4, <2>5
<1>11. NoDrift'
  <2>1. owed[1] \in Nat /\ period[1] \in Nat /\ due \in Int
    BY <1>0, Pointwise, Constants DEF LoopTypeOK
  <2> QED BY <2>1, <1>0, <1>1, <1>3, <1>4, <1>5, Constants DEF NoDrift
<1>12. AgeOK'
  <2>1. SleepOK(0) /\ busy[0] \in Nat
    BY <1>0, Pointwise, Constants DEF Inv
  <2> QED BY <2>1, <1>0, <1>1, <1>2, <1>4, <1>9, Constants DEF AgeOK, BootPc, LoopPc
<1>13. QueueOK'
  <2>1. pc'[0] \notin BootPc
    BY <1>9, Constants DEF BootPc, LoopPc
  <2>2. pc'[0] = "read" => OSTCBDly'[0] <= 1
    BY <1>0, <1>1, <1>4, Constants DEF QueueOK
  <2>3. fresh' => pc'[1] = "drain" \/ (pc'[1] = "read" /\ OSTCBDly'[1] > 0)
    BY <1>0, <1>1, <1>4, <1>5, Constants DEF QueueOK
  <2>4. HandledNextTick'
    <3>1. CASE k = 0
      BY <3>1, <1>1, <1>2 DEF HandledNextTick
    <3>2. CASE k # 0 /\ UNCHANGED <<fresh, QMessage>>
      BY <3>2, <1>0, <1>1 DEF HandledNextTick, QueueOK
    <3>3. CASE k = 1 /\ MSG_Send("TEST") /\ fresh'
      <4>1. ~fresh
        BY <3>3, <1>0, <1>1 DEF QueueOK
      <4>2. OSTCBDly[0] > 0 => QMessage' = <<"TEST">>
        BY <4>1, <3>3, <1>0, SendType DEF QueueOK, HandledNextTick, LoopTypeOK
      <4> QED BY <4>2, <3>3, <1>1 DEF HandledNextTick
    <3> QED BY <3>1, <3>2, <3>3, <1>7
  <2> QED BY <2>1, <2>2, <2>3, <2>4 DEF QueueOK
<1> QED BY <1>6, <1>8, <1>9, <1>10, <1>11, <1>12, <1>13 DEF Inv, Created

LEMMA DrainInv == ASSUME Inv, NEW k \in Task, Drain(k) PROVE Inv'
<1>0. LoopTypeOK /\ QueueOK
  BY DEF Inv
<1>1. /\ Running(k) /\ k = 0 /\ QMessage # <<>> /\ pc[k] = "drain" /\ QMessage' = Tail(QMessage)
      /\ UNCHANGED <<pc, OSTime, OSTCBDly, busy, lastOSTime, nextOSTime, period, owed, cur, gap>>
      /\ UNCHANGED <<s_period, due, age, fresh>>
  BY DEF Drain, TimerVars, LoopVars, locals
<1>2. OSTCBDly[0] = 0 /\ \A j \in Task : pc[j] \in LoopPc
  BY <1>1, InLoop DEF LoopPc
<1>3. LoopTypeOK'
  <2>1. QMessage' \in Seq({"LOOP", "TEST"})
    BY <1>0, <1>1 DEF LoopTypeOK
  <2> QED BY <1>0, <1>1, <2>1 DEF LoopTypeOK
<1>4. Created' /\ AgeOK' /\ NoDrift' /\ (s_period < MSG_INTERVAL)'
  BY <1>1 DEF Inv, Created, AgeOK, NoDrift
<1>5. ASSUME NEW j \in Task
      PROVE  SleepOK(j)' /\ BootOwed(j)' /\ LoopOwed(j)' /\ Clock(j)'
  BY <1>1 DEF Inv, SleepOK, BootOwed, LoopOwed, Clock, After
<1>6. QueueOK'
  BY <1>0, <1>1, <1>2 DEF QueueOK, HandledNextTick, BootPc
<1> QED BY <1>3, <1>4, <1>5, <1>6 DEF Inv

LEMMA OSTimeDlyInv == ASSUME Inv, NEW k \in Task, OSTimeDly(k) PROVE Inv'
<1>0. LoopTypeOK /\ AgeOK /\ QueueOK
  BY DEF Inv
<1>1. /\ Running(k) /\ pc[k] = "drain" /\ pc' = [pc EXCEPT ![k] = "read"]
      /\ k = 0 => QMessage = <<>>
      /\ OSTCBDly' = [OSTCBDly EXCEPT ![k] = Delay[k]]
      /\ busy' = [busy EXCEPT ![k] = 0]
      /\ UNCHANGED <<OSTime, lastOSTime, nextOSTime, period, owed, cur, gap>>
      /\ UNCHANGED <<s_period, QMessage, due, age, fresh>>
  BY DEF OSTimeDly, Goto, Drained, Sleep, LoopVars, MsgVars, locals
<1>2. OSTCBDly[k] = 0 /\ \A j \in Task : pc[j] \in LoopPc
  BY <1>1, InLoop DEF LoopPc
<1>3. ASSUME NEW j \in Task
      PROVE  /\ pc'[j] = IF j = k THEN "read" ELSE pc[j]
             /\ OSTCBDly'[j] = IF j = k THEN Delay[k] ELSE OSTCBDly[j]
             /\ busy'[j] = IF j = k THEN 0 ELSE busy[j]
  BY <1>0, <1>1 DEF LoopTypeOK
<1>4. LoopTypeOK'
  <2>1. OSTCBDly \in [Task -> Nat] /\ busy \in [Task -> Nat]
    BY <1>0 DEF LoopTypeOK
  <2>2. OSTCBDly' \in [Task -> Nat] /\ busy' \in [Task -> Nat]
    BY <2>1, <1>1, TaskConstants
  <2>3. pc' \in [Task -> {"none", "init", "sync", "measure", "create",
                         "read", "call", "modules", "drain"}]
    BY <1>0, <1>1 DEF LoopTypeOK
  <2> QED BY <1>0, <1>1, <2>2, <2>3 DEF LoopTypeOK
<1>5. \A j \in Task : pc'[j] \in LoopPc
  BY <1>2, <1>3 DEF LoopPc
<1>6. ASSUME NEW j \in Task
      PROVE  SleepOK(j)' /\ BootOwed(j)' /\ LoopOwed(j)' /\ Clock(j)'
  <2>1. SleepOK(j) /\ LoopOwed(j) /\ Clock(j)
    BY DEF Inv
  <2>2. SleepOK(j)'
    BY <2>1, <1>1, <1>3, <1>5, TaskConstants DEF SleepOK, LoopPc
  <2>3. BootOwed(j)'
    BY <1>5, Constants DEF BootOwed, BootPc, LoopPc
  <2>4. LoopOwed(j)'
    <3>1. CASE j = k
      <4>1. /\ pc'[j] = "read" /\ OSTCBDly'[j] = Delay[j] /\ busy'[j] = 0
            /\ owed'[j] = owed[j] /\ gap'[j] = gap[j] /\ period'[j] = 0
            /\ owed[j] + gap[j] <= BUSY[j]
        BY <3>1, <2>1, <1>0, <1>1, <1>3, Pointwise, TaskConstants DEF LoopOwed, SleepOK
      <4>2. Delay[j] <= owed[j] + Delay[j]
        BY <1>0, Pointwise, TaskConstants
      <4>3. owed[j] + gap[j] + Delay[j] <= MSG_INTERVAL - BUSY[j] + 0
        BY <4>1, <1>0, Pointwise, TaskConstants, Constants
      <4> QED BY <4>1, <4>2, <4>3, Constants DEF LoopOwed
    <3>2. CASE j # k
      BY <3>2, <2>1, <1>1, <1>3 DEF LoopOwed
    <3> QED BY <3>1, <3>2
  <2>5. Clock(j)'
    BY <2>1, <1>1, <1>3 DEF Clock, After
  <2> QED BY <2>2, <2>3, <2>4, <2>5
<1>7. (s_period < MSG_INTERVAL /\ NoDrift)'
  BY <1>1 DEF Inv, NoDrift
<1>8. AgeOK'
  <2>1. SleepOK(0) /\ busy[0] \in Nat /\ age \in Nat
    BY <1>0, Pointwise, Constants DEF Inv, LoopTypeOK
  <2> QED BY SMTT(40), <2>1, <1>0, <1>1, <1>2, <1>3, <1>5, Constants DEF AgeOK, SleepOK, BootPc, LoopPc
<1>9. QueueOK'
  <2>1. pc'[0] \notin BootPc
    BY <1>5, Constants DEF BootPc, LoopPc
  <2>2. pc'[0] = "read" => OSTCBDly'[0] <= 1
    BY <1>0, <1>1, <1>3, Constants DEF QueueOK
  <2>3. fresh' => pc'[1] = "drain" \/ (pc'[1] = "read" /\ OSTCBDly'[1] > 0)
    BY <1>0, <1>1, <1>3, Constants, TaskConstants DEF QueueOK
  <2>4. HandledNextTick'
    BY <1>0, <1>1, <1>3, Constants DEF QueueOK, HandledNextTick
  <2> QED BY <2>1, <2>2, <2>3, <2>4 DEF QueueOK
<1> QED BY <1>4, <1>5, <1>6, <1>7, <1>8, <1>9 DEF Inv, Created

LEMMA StutterInv == ASSUME Inv, UNCHANGED vars PROVE Inv'
<1>1. /\ UNCHANGED <<OSTime, OSTCBDly, pc, lastOSTime, nextOSTime, period, s_period, QMessage>>
      /\ UNCHANGED <<owed, cur, gap, busy, due, age, fresh>>
  BY DEF vars, locals, history
<1>2. (LoopTypeOK /\ Created)'
  BY <1>1 DEF Inv, LoopTypeOK, Created
<1>3. \A k \in Task : (SleepOK(k) /\ BootOwed(k) /\ LoopOwed(k))'
  BY <1>1 DEF Inv, SleepOK, BootOwed, LoopOwed
<1>4. \A k \in Task : Clock(k)'
  BY <1>1 DEF Inv, Clock, After
<1>5. (s_period < MSG_INTERVAL /\ NoDrift /\ AgeOK /\ QueueOK)'
  BY <1>1 DEF Inv, NoDrift, AgeOK, QueueOK, HandledNextTick
<1> QED BY <1>2, <1>3, <1>4, <1>5 DEF Inv

LEMMA StepInv == Inv /\ [Next]_vars => Inv'
<1> SUFFICES ASSUME Inv, [Next]_vars PROVE Inv'
    OBVIOUS
<1>1. CASE OSTimeTick            BY <1>1, TickInv
<1>2. CASE ModuleInit            BY <1>2, ModuleInitInv
<1>3. CASE OSStatInit            BY <1>3, OSStatInitInv
<1>4. CASE CreateTasks           BY <1>4, CreateTasksInv
<1>5. ASSUME NEW k \in Task, Step(k) PROVE Inv'
  BY <1>5, ReadInv, CallInv, ModulesInv, DrainInv, OSTimeDlyInv DEF Step
<1>6. CASE UNCHANGED vars        BY <1>6, StutterInv
<1> QED BY <1>1, <1>2, <1>3, <1>4, <1>5, <1>6 DEF Next

LEMMA Invariant == Spec => []Inv
BY InitInv, StepInv, PTL DEF Spec

-----------------------------------------------------------------------------
(* Every variable of the loops stays in its range: no period leaves 16 bits. *)
THEOREM LoopTypeCorrect == Spec => []LoopTypeOK
<1>1. Inv => LoopTypeOK
  BY DEF Inv
<1> QED BY <1>1, Invariant, PTL

(* The period given to a module is the ticks since the last one plus those   *)
(* counted twice between lines 97 and 98, through every wrap of the counter. *)
THEOREM PeriodsExact == Spec => PeriodExact
<1> DEFINE Act == \A k \in Task : Calls(k) => period'[k] = owed[k] + gap[k]
<1>1. Inv /\ [Next]_vars => [Act]_vars
  <2> SUFFICES ASSUME Inv, Next, NEW k \in Task, Calls(k)
               PROVE  period'[k] = owed[k] + gap[k]
    OBVIOUS
  <2>1. Call(k)
    BY OnlyCall DEF Inv
  <2> QED BY <2>1, CallPeriod
<1> QED BY <1>1, Invariant, PTL DEF Spec, PeriodExact

(* No loop comes round before its delay has passed since the last time.      *)
THEOREM LoopsNeverEarly == Spec => NeverEarly
<1> DEFINE Act == \A k \in Task : Calls(k) => owed[k] >= Delay[k]
<1>1. Inv /\ [Next]_vars => [Act]_vars
  <2> SUFFICES ASSUME Inv, Next, NEW k \in Task, Calls(k)
               PROVE  owed[k] >= Delay[k]
    OBVIOUS
  <2>1. Call(k)
    BY OnlyCall DEF Inv
  <2>2. pc[k] = "call" /\ OSTCBDly[k] = 0
    BY <2>1 DEF Call, Goto, Running, Awake
  <2>3. LoopOwed(k) /\ LoopTypeOK
    BY DEF Inv
  <2> QED BY <2>2, <2>3, Pointwise, TaskConstants DEF LoopOwed
<1> QED BY <1>1, Invariant, PTL DEF Spec, NeverEarly

(* MsgTest never falls behind the clock, however long an iteration took.     *)
THEOREM MsgTestNoDrift == Spec => []NoDrift
<1>1. Inv => NoDrift
  BY DEF Inv
<1> QED BY <1>1, Invariant, PTL

(* Task 0 never sleeps on a message of an earlier tick.                      *)
THEOREM MessagesNextTick == Spec => []HandledNextTick
<1>1. Inv => HandledNextTick
  BY DEF Inv, QueueOK
<1> QED BY <1>1, Invariant, PTL

(* The watchdog never fires while task 0 keeps to its own busy time.         *)
THEOREM WatchdogInTime == Spec => []WatchdogFed
<1>1. Inv => WatchdogFed
  <2> SUFFICES ASSUME Inv PROVE WatchdogFed
    OBVIOUS
  <2>1. /\ LoopTypeOK /\ Created /\ AgeOK /\ SleepOK(0) /\ BootOwed(0)
        /\ age \in Nat
    BY Constants DEF Inv, LoopTypeOK
  <2> QED BY <2>1, Pointwise, Constants
          DEF WatchdogFed, Created, AgeOK, SleepOK, BootOwed, BootPc, LoopPc
<1> QED BY <1>1, Invariant, PTL
=============================================================================
