-------------------------------- MODULE Kernel --------------------------------
(* The scheduler of uC/OS-II as compiled here: os_core.c, os_task.c,         *)
(* os_time.c, one semaphore of os_sem.c, and the context switch of           *)
(* os_cpu_a.asm.  A step is one critical section, with the code of the same  *)
(* task or handler up to the next.  A context switch is only requested       *)
(* (PENDSVSET): PendSV has the lowest interrupt priority, so it waits until  *)
(* no other handler is active, but runs before the task goes on.  Handlers   *)
(* run between any two steps, nest, and all but SysTick call services.       *)
(*                                                                           *)
(* OSRdyGrp/OSRdyTbl and OSEventGrp/OSEventTbl are sets of priorities, the   *)
(* smallest of which OSUnMapTbl finds.  OSTCBPrioTbl is OSTCBPrio inverted.  *)
EXTENDS Integers

CONSTANTS
    Task, Idle,        \* the tasks; the one that is always ready
    OS_LOWEST_PRIO,    \* the priority of Idle; 0 is the highest
    Ticks,             \* delays and timeouts that callers ask for
    CNT_MAX,           \* largest count of a semaphore (65535)
    NEST_MAX,          \* bound: handlers active at the same time
    LOCK_MAX,          \* bound: nested calls of OSSchedLock
    FRESH              \* OSTaskChangePrio is never called where a stale
                       \* copy misleads it (Misled)

Prio == 0..OS_LOWEST_PRIO
User == Task \ {Idle}

ASSUME KernelAssumption ==
    /\ Idle \in Task
    /\ OS_LOWEST_PRIO \in Nat
    /\ Ticks \subseteq Nat \ {0}
    /\ CNT_MAX \in Nat \ {0} /\ NEST_MAX \in Nat /\ LOCK_MAX \in Nat
    /\ FRESH \in BOOLEAN

VARIABLES
    OSTCBPrio,       \* [Task -> Prio]
    OSTCBStat,       \* [Task -> SUBSET {"SEM", "SUSPEND"}]; {} is OS_STAT_RDY
    OSTCBStatPend,   \* [Task -> {"OK", "TO", "ABORT"}]
    OSTCBDly,        \* [Task -> ticks left of a delay or timeout, or 0]
    OSTCBEventPtr,   \* [Task -> BOOLEAN]: points to the semaphore
    OSRdyTbl,        \* priorities of the tasks that are ready
    OSEventTbl,      \* priorities of the tasks that wait for the semaphore
    OSEventCnt,      \* the count of the semaphore
    OSPrioCur, OSTCBCur,          \* the running task
    OSPrioHighRdy, OSTCBHighRdy,  \* the task PendSV will switch to
    PENDSVSET,       \* a switch is requested
    OSIntNesting, OSLockNesting,
    tick,            \* the SysTick handler is active, as the outermost one
    visit,           \* tasks OSTimeTick has still to visit
    pc,              \* [Task -> where the task is between critical sections]
    perr             \* what the last OSSemPend to return has returned

tcb == <<OSTCBPrio, OSTCBStat, OSTCBStatPend, OSTCBDly, OSTCBEventPtr>>
event == <<OSEventTbl, OSEventCnt>>
switch == <<OSPrioCur, OSTCBCur, OSPrioHighRdy, OSTCBHighRdy, PENDSVSET>>
nesting == <<OSIntNesting, OSLockNesting, tick, visit>>
vars == <<tcb, OSRdyTbl, event, switch, nesting, pc, perr>>

First(prios) == CHOOSE p \in prios : \A q \in prios : p <= q
OSTCBPrioTbl(p) == CHOOSE t \in Task : OSTCBPrio[t] = p

(* OSStart: all tasks created, the highest one running.                      *)
Init == /\ OSTCBPrio \in [Task -> Prio]
        /\ OSTCBPrio[Idle] = OS_LOWEST_PRIO
        /\ \A t, u \in Task : OSTCBPrio[t] = OSTCBPrio[u] => t = u
        /\ OSTCBStat = [t \in Task |-> {}]
        /\ OSTCBStatPend = [t \in Task |-> "OK"]
        /\ OSTCBDly = [t \in Task |-> 0]
        /\ OSTCBEventPtr = [t \in Task |-> FALSE]
        /\ OSRdyTbl = {OSTCBPrio[t] : t \in Task}
        /\ OSEventTbl = {} /\ OSEventCnt = 0
        /\ OSPrioCur = First(OSRdyTbl) /\ OSTCBCur = OSTCBPrioTbl(OSPrioCur)
        /\ OSPrioHighRdy = OSPrioCur /\ OSTCBHighRdy = OSTCBCur
        /\ PENDSVSET = FALSE
        /\ OSIntNesting = 0 /\ OSLockNesting = 0
        /\ tick = FALSE /\ visit = {}
        /\ pc = [t \in Task |-> "run"]
        /\ perr = "NONE"

-----------------------------------------------------------------------------
(* Definitions whose name ends in _Faulty are plausible slips in the code,   *)
(* used to show that the properties below would notice them.                 *)

(* The running task, when no handler is active, can take its next step.      *)
Running(t) == t = OSTCBCur /\ OSIntNesting = 0 /\ ~PENDSVSET

(* The SysTick handler is the one that runs: no other has interrupted it.    *)
InTick == tick /\ OSIntNesting = 1

(* A task between calls, or a handler other than SysTick's, calls a service. *)
FromTask == Running(OSTCBCur) /\ pc[OSTCBCur] = "run" /\ OSTCBCur # Idle
Calling == FromTask \/ (OSIntNesting > 0 /\ ~InTick)

(* The call of OS_Sched at the end of a service: a step of the task's own,   *)
(* nothing in a handler.                                                     *)
ThenSched == pc' = IF OSIntNesting = 0 THEN [pc EXCEPT ![OSTCBCur] = "sched"]
                   ELSE pc

(* OS_SchedNew and the request for a switch, in OS_Sched and OSIntExit.      *)
SchedNew ==
    LET p == First(OSRdyTbl)
    IN /\ OSPrioHighRdy' = p
       /\ OSTCBHighRdy' = OSTCBPrioTbl(p)
       /\ PENDSVSET' = (PENDSVSET \/ p # OSPrioCur)
       /\ UNCHANGED <<OSPrioCur, OSTCBCur>>

OS_Sched ==
    \E t \in Task :
        /\ Running(t)
        /\ pc[t] \in {"sched", "schedPend"}
        /\ IF OSLockNesting = 0 THEN SchedNew ELSE UNCHANGED switch
        /\ pc' = [pc EXCEPT ![t] = IF @ = "sched" THEN "run" ELSE "woken"]
        /\ UNCHANGED <<tcb, OSRdyTbl, event, nesting, perr>>

PendSV_Handler ==
    /\ PENDSVSET /\ OSIntNesting = 0
    /\ OSPrioCur' = OSPrioHighRdy
    /\ OSTCBCur' = OSTCBHighRdy
    /\ PENDSVSET' = FALSE
    /\ UNCHANGED <<tcb, OSRdyTbl, event, OSPrioHighRdy, OSTCBHighRdy, nesting, pc, perr>>

-----------------------------------------------------------------------------
(* SysTick has the priority of PendSV, the lowest: it interrupts no other    *)
(* handler, and waits for a PendSV that is requested.                        *)
OSIntEnter ==
    /\ OSIntNesting < NEST_MAX
    /\ OSIntNesting' = OSIntNesting + 1
    /\ \/ UNCHANGED <<tick, visit>>
       \/ OSIntNesting = 0 /\ ~PENDSVSET /\ tick' = TRUE /\ visit' = User
    /\ UNCHANGED <<tcb, OSRdyTbl, event, switch, OSLockNesting, pc, perr>>

OSIntExit_Faulty ==    \* a switch requested before is taken to be good enough
    /\ OSIntNesting > 0
    /\ IF InTick THEN visit = {} /\ tick' = FALSE ELSE UNCHANGED tick
    /\ OSIntNesting' = OSIntNesting - 1
    /\ IF OSIntNesting = 1 /\ OSLockNesting = 0 /\ ~PENDSVSET THEN SchedNew
       ELSE UNCHANGED switch
    /\ UNCHANGED <<tcb, OSRdyTbl, event, OSLockNesting, visit, pc, perr>>

OSIntExit ==
    /\ OSIntNesting > 0
    /\ IF InTick THEN visit = {} /\ tick' = FALSE ELSE UNCHANGED tick
    /\ OSIntNesting' = OSIntNesting - 1
    /\ IF OSIntNesting = 1 /\ OSLockNesting = 0 THEN SchedNew
       ELSE UNCHANGED switch
    /\ UNCHANGED <<tcb, OSRdyTbl, event, OSLockNesting, visit, pc, perr>>

(* OSTimeTick at one TCB; the list is in order of creation, any order here.  *)
OSTimeTick_Faulty(t) ==   \* a task is made ready although it is suspended
    /\ InTick /\ t \in visit
    /\ visit' = visit \ {t}
    /\ OSTCBDly' = [OSTCBDly EXCEPT ![t] = IF @ = 0 THEN 0 ELSE @ - 1]
    /\ IF OSTCBDly[t] # 1 THEN UNCHANGED <<OSTCBStat, OSTCBStatPend, OSRdyTbl>>
       ELSE /\ OSTCBStat' = [OSTCBStat EXCEPT ![t] = @ \ {"SEM"}]
            /\ OSTCBStatPend' = [OSTCBStatPend EXCEPT
                   ![t] = IF "SEM" \in OSTCBStat[t] THEN "TO" ELSE "OK"]
            /\ OSRdyTbl' = OSRdyTbl \cup {OSTCBPrio[t]}
    /\ UNCHANGED <<OSTCBPrio, OSTCBEventPtr, event, switch, OSIntNesting,
                   OSLockNesting, tick, pc, perr>>

OSTimeTick(t) ==
    /\ InTick /\ t \in visit
    /\ visit' = visit \ {t}
    /\ OSTCBDly' = [OSTCBDly EXCEPT ![t] = IF @ = 0 THEN 0 ELSE @ - 1]
    /\ IF OSTCBDly[t] # 1 THEN UNCHANGED <<OSTCBStat, OSTCBStatPend, OSRdyTbl>>
       ELSE /\ OSTCBStat' = [OSTCBStat EXCEPT ![t] = @ \ {"SEM"}]
            /\ OSTCBStatPend' = [OSTCBStatPend EXCEPT
                   ![t] = IF "SEM" \in OSTCBStat[t] THEN "TO" ELSE "OK"]
            /\ OSRdyTbl' = IF "SUSPEND" \in OSTCBStat[t] THEN OSRdyTbl
                           ELSE OSRdyTbl \cup {OSTCBPrio[t]}
    /\ UNCHANGED <<OSTCBPrio, OSTCBEventPtr, event, switch, OSIntNesting,
                   OSLockNesting, tick, pc, perr>>

OSSchedLock ==
    /\ FromTask
    /\ OSLockNesting < LOCK_MAX
    /\ OSLockNesting' = OSLockNesting + 1
    /\ UNCHANGED <<tcb, OSRdyTbl, event, switch, OSIntNesting, tick, visit, pc, perr>>

OSSchedUnlock ==
    /\ FromTask
    /\ OSLockNesting > 0
    /\ OSLockNesting' = OSLockNesting - 1
    /\ IF OSLockNesting = 1 THEN ThenSched ELSE UNCHANGED pc
    /\ UNCHANGED <<tcb, OSRdyTbl, event, switch, OSIntNesting, tick, visit, perr>>

-----------------------------------------------------------------------------
(* OS_EventTaskRdy, for the tasks with the given priorities in the wait list.*)
OS_EventTaskRdy_Faulty(prios, pend_stat) ==   \* OSTCBDly keeps running
    LET Woken(t) == OSTCBPrio[t] \in prios
    IN /\ OSTCBStat' = [t \in Task |-> IF Woken(t) THEN OSTCBStat[t] \ {"SEM"}
                                       ELSE OSTCBStat[t]]
       /\ OSTCBStatPend' = [t \in Task |-> IF Woken(t) THEN pend_stat
                                           ELSE OSTCBStatPend[t]]
       /\ OSRdyTbl' = OSRdyTbl \cup {OSTCBPrio[t] : t \in
                          {u \in Task : Woken(u) /\ "SUSPEND" \notin OSTCBStat[u]}}
       /\ OSEventTbl' = OSEventTbl \ prios
       /\ UNCHANGED <<OSTCBPrio, OSTCBDly, OSTCBEventPtr>>

OS_EventTaskRdy(prios, pend_stat) ==
    LET Woken(t) == OSTCBPrio[t] \in prios
    IN /\ OSTCBDly' = [t \in Task |-> IF Woken(t) THEN 0 ELSE OSTCBDly[t]]
       /\ OSTCBStat' = [t \in Task |-> IF Woken(t) THEN OSTCBStat[t] \ {"SEM"}
                                       ELSE OSTCBStat[t]]
       /\ OSTCBStatPend' = [t \in Task |-> IF Woken(t) THEN pend_stat
                                           ELSE OSTCBStatPend[t]]
       /\ OSRdyTbl' = OSRdyTbl \cup {OSTCBPrio[t] : t \in
                          {u \in Task : Woken(u) /\ "SUSPEND" \notin OSTCBStat[u]}}
       /\ OSEventTbl' = OSEventTbl \ prios
       /\ UNCHANGED <<OSTCBPrio, OSTCBEventPtr>>

OSSemPost ==
    /\ Calling
    /\ \/ /\ OSEventTbl # {}
          /\ OS_EventTaskRdy({First(OSEventTbl)}, "OK")
          /\ ThenSched
          /\ UNCHANGED OSEventCnt
       \/ /\ OSEventTbl = {}
          /\ OSEventCnt < CNT_MAX
          /\ OSEventCnt' = OSEventCnt + 1
          /\ UNCHANGED <<tcb, OSRdyTbl, OSEventTbl, pc>>
    /\ UNCHANGED <<switch, nesting, perr>>

(* OSSemPendAbort, for the first waiting task or for all.                    *)
OSSemPendAbort ==
    /\ Calling
    /\ OSEventTbl # {}
    /\ \E prios \in {OSEventTbl, {First(OSEventTbl)}} : OS_EventTaskRdy(prios, "ABORT")
    /\ ThenSched
    /\ UNCHANGED <<OSEventCnt, switch, nesting, perr>>

OSSemAccept ==
    /\ Calling
    /\ OSEventCnt > 0
    /\ OSEventCnt' = OSEventCnt - 1
    /\ UNCHANGED <<tcb, OSRdyTbl, OSEventTbl, switch, nesting, pc, perr>>

OSSemSet(cnt) ==
    /\ Calling
    /\ OSEventCnt > 0 \/ OSEventTbl = {}
    /\ OSEventCnt' = cnt
    /\ UNCHANGED <<tcb, OSRdyTbl, OSEventTbl, switch, nesting, pc, perr>>

(* OSSemPend when the count is positive, and when the task must wait.        *)
OSSemPendTakes ==
    /\ FromTask /\ OSLockNesting = 0
    /\ OSEventCnt > 0
    /\ OSEventCnt' = OSEventCnt - 1
    /\ perr' = "NONE"
    /\ UNCHANGED <<tcb, OSRdyTbl, OSEventTbl, switch, nesting, pc>>

OSSemPend(timeout) ==
    /\ FromTask /\ OSLockNesting = 0
    /\ OSEventCnt = 0
    /\ OSTCBStat' = [OSTCBStat EXCEPT ![OSTCBCur] = @ \cup {"SEM"}]
    /\ OSTCBStatPend' = [OSTCBStatPend EXCEPT ![OSTCBCur] = "OK"]
    /\ OSTCBDly' = [OSTCBDly EXCEPT ![OSTCBCur] = timeout]
    /\ OSTCBEventPtr' = [OSTCBEventPtr EXCEPT ![OSTCBCur] = TRUE]
    /\ OSEventTbl' = OSEventTbl \cup {OSTCBPrio[OSTCBCur]}
    /\ OSRdyTbl' = OSRdyTbl \ {OSTCBPrio[OSTCBCur]}
    /\ pc' = [pc EXCEPT ![OSTCBCur] = "schedPend"]
    /\ UNCHANGED <<OSTCBPrio, OSEventCnt, switch, nesting, perr>>

(* OSSemPend once the task runs again.                                       *)
OSSemPendReturns_Faulty(t) ==   \* stays in the wait list after a timeout
    /\ Running(t) /\ pc[t] = "woken"
    /\ perr' = CASE OSTCBStatPend[t] = "OK" -> "NONE"
                 [] OSTCBStatPend[t] = "ABORT" -> "ABORT"
                 [] OTHER -> "TIMEOUT"
    /\ OSTCBStat' = [OSTCBStat EXCEPT ![t] = {}]
    /\ OSTCBStatPend' = [OSTCBStatPend EXCEPT ![t] = "OK"]
    /\ OSTCBEventPtr' = [OSTCBEventPtr EXCEPT ![t] = FALSE]
    /\ pc' = [pc EXCEPT ![t] = "run"]
    /\ UNCHANGED <<OSTCBPrio, OSTCBDly, OSRdyTbl, event, switch, nesting>>

OSSemPendReturns(t) ==
    /\ Running(t) /\ pc[t] = "woken"
    /\ perr' = CASE OSTCBStatPend[t] = "OK" -> "NONE"
                 [] OSTCBStatPend[t] = "ABORT" -> "ABORT"
                 [] OTHER -> "TIMEOUT"
    /\ OSEventTbl' = IF OSTCBStatPend[t] = "TO" THEN OSEventTbl \ {OSTCBPrio[t]}
                     ELSE OSEventTbl
    /\ OSTCBStat' = [OSTCBStat EXCEPT ![t] = {}]
    /\ OSTCBStatPend' = [OSTCBStatPend EXCEPT ![t] = "OK"]
    /\ OSTCBEventPtr' = [OSTCBEventPtr EXCEPT ![t] = FALSE]
    /\ pc' = [pc EXCEPT ![t] = "run"]
    /\ UNCHANGED <<OSTCBPrio, OSTCBDly, OSRdyTbl, OSEventCnt, switch, nesting>>

-----------------------------------------------------------------------------
OSTimeDly(ticks) ==
    /\ FromTask /\ OSLockNesting = 0
    /\ OSRdyTbl' = OSRdyTbl \ {OSTCBPrio[OSTCBCur]}
    /\ OSTCBDly' = [OSTCBDly EXCEPT ![OSTCBCur] = ticks]
    /\ ThenSched
    /\ UNCHANGED <<OSTCBPrio, OSTCBStat, OSTCBStatPend, OSTCBEventPtr, event,
                   switch, nesting, perr>>

OSTimeDlyResume(t) ==
    /\ Calling
    /\ OSTCBDly[t] # 0
    /\ OSTCBDly' = [OSTCBDly EXCEPT ![t] = 0]
    /\ OSTCBStat' = [OSTCBStat EXCEPT ![t] = @ \ {"SEM"}]
    /\ OSTCBStatPend' = [OSTCBStatPend EXCEPT
           ![t] = IF "SEM" \in OSTCBStat[t] THEN "TO" ELSE "OK"]
    /\ IF "SUSPEND" \in OSTCBStat[t] THEN UNCHANGED <<OSRdyTbl, pc>>
       ELSE OSRdyTbl' = OSRdyTbl \cup {OSTCBPrio[t]} /\ ThenSched
    /\ UNCHANGED <<OSTCBPrio, OSTCBEventPtr, event, switch, nesting, perr>>

OSTaskSuspend(t) ==
    /\ Calling
    /\ OSRdyTbl' = OSRdyTbl \ {OSTCBPrio[t]}
    /\ OSTCBStat' = [OSTCBStat EXCEPT ![t] = @ \cup {"SUSPEND"}]
    /\ IF t = OSTCBCur THEN ThenSched ELSE UNCHANGED pc
    /\ UNCHANGED <<OSTCBPrio, OSTCBStatPend, OSTCBDly, OSTCBEventPtr, event,
                   switch, nesting, perr>>

OSTaskResume(t) ==
    /\ Calling
    /\ "SUSPEND" \in OSTCBStat[t]
    /\ OSTCBStat' = [OSTCBStat EXCEPT ![t] = @ \ {"SUSPEND"}]
    /\ IF OSTCBStat[t] = {"SUSPEND"} /\ OSTCBDly[t] = 0
       THEN OSRdyTbl' = OSRdyTbl \cup {OSTCBPrio[t]} /\ ThenSched
       ELSE UNCHANGED <<OSRdyTbl, pc>>
    /\ UNCHANGED <<OSTCBPrio, OSTCBStatPend, OSTCBDly, OSTCBEventPtr, event,
                   switch, nesting, perr>>

(* OSTaskChangePrio relies on two copies that may be stale: t was answered,  *)
(* so that its OSTCBEventPtr should be null; or the running task was moved   *)
(* from the priority that OSPrioCur still has, and now another one gets it.  *)
Misled(t, newprio) ==
    \/ OSTCBEventPtr[t] /\ OSTCBPrio[t] \notin OSEventTbl
    \/ t # OSTCBCur /\ newprio = OSPrioCur

OSTaskChangePrio_Faulty(t, newprio) ==   \* the new priority may be in use
    /\ Calling
    /\ FRESH => ~Misled(t, newprio)
    /\ OSTCBPrio' = [OSTCBPrio EXCEPT ![t] = newprio]
    /\ OSRdyTbl' = IF OSTCBPrio[t] \in OSRdyTbl
                   THEN (OSRdyTbl \ {OSTCBPrio[t]}) \cup {newprio} ELSE OSRdyTbl
    /\ OSEventTbl' = IF OSTCBEventPtr[t]
                     THEN (OSEventTbl \ {OSTCBPrio[t]}) \cup {newprio} ELSE OSEventTbl
    /\ ThenSched
    /\ UNCHANGED <<OSTCBStat, OSTCBStatPend, OSTCBDly, OSTCBEventPtr, OSEventCnt,
                   switch, nesting, perr>>

OSTaskChangePrio(t, newprio) ==
    /\ Calling
    /\ FRESH => ~Misled(t, newprio)
    /\ \A u \in Task : OSTCBPrio[u] # newprio
    /\ OSTCBPrio' = [OSTCBPrio EXCEPT ![t] = newprio]
    /\ OSRdyTbl' = IF OSTCBPrio[t] \in OSRdyTbl
                   THEN (OSRdyTbl \ {OSTCBPrio[t]}) \cup {newprio} ELSE OSRdyTbl
    /\ OSEventTbl' = IF OSTCBEventPtr[t]
                     THEN (OSEventTbl \ {OSTCBPrio[t]}) \cup {newprio} ELSE OSEventTbl
    /\ ThenSched
    /\ UNCHANGED <<OSTCBStat, OSTCBStatPend, OSTCBDly, OSTCBEventPtr, OSEventCnt,
                   switch, nesting, perr>>

-----------------------------------------------------------------------------
Semaphore == \/ OSSemPost \/ OSSemPendAbort \/ OSSemAccept \/ OSSemPendTakes
             \/ \E cnt \in {0, 1} : OSSemSet(cnt)
             \/ \E timeout \in Ticks \cup {0} : OSSemPend(timeout)
             \/ \E t \in User : OSSemPendReturns(t)

Tasks == \/ \E ticks \in Ticks : OSTimeDly(ticks)
         \/ \E t \in User : \/ OSTimeDlyResume(t)
                            \/ OSTaskSuspend(t)
                            \/ OSTaskResume(t)
                            \/ \E p \in Prio : OSTaskChangePrio(t, p)

Switching == \/ OS_Sched \/ PendSV_Handler
             \/ OSIntEnter \/ OSIntExit \/ \E t \in User : OSTimeTick(t)
             \/ OSSchedLock \/ OSSchedUnlock

Next == Semaphore \/ Tasks \/ Switching

Spec == Init /\ [][Next]_vars

-----------------------------------------------------------------------------
(* Ranges; no two tasks ever share a priority.                               *)
TypeOK ==
    /\ OSTCBPrio \in [Task -> Prio]
    /\ \A t, u \in Task : OSTCBPrio[t] = OSTCBPrio[u] => t = u
    /\ OSTCBStat \in [Task -> SUBSET {"SEM", "SUSPEND"}]
    /\ OSTCBStatPend \in [Task -> {"OK", "TO", "ABORT"}]
    /\ OSTCBDly \in [Task -> Nat]
    /\ OSTCBEventPtr \in [Task -> BOOLEAN]
    /\ OSRdyTbl \subseteq Prio /\ OSEventTbl \subseteq Prio
    /\ OSEventCnt \in Nat
    /\ OSPrioCur \in Prio /\ OSTCBCur \in Task
    /\ OSPrioHighRdy \in Prio /\ OSTCBHighRdy \in Task
    /\ PENDSVSET \in BOOLEAN
    /\ OSIntNesting \in 0..NEST_MAX /\ OSLockNesting \in 0..LOCK_MAX
    /\ tick \in BOOLEAN /\ visit \subseteq User
    /\ pc \in [Task -> {"run", "sched", "schedPend", "woken"}]
    /\ perr \in {"NONE", "TIMEOUT", "ABORT"}

(* A priority is in the ready list exactly if its task may run: it waits for *)
(* nothing, is not suspended and its delay is over, through every mixture of *)
(* suspend, resume, post, abort, tick and timeout (os_core.c:941-951,        *)
(* 1062-1074, os_task.c:819-825, 987-991, os_time.c:189-198).                *)
ReadyExact ==
    OSRdyTbl = {OSTCBPrio[t] : t \in {u \in Task : OSTCBStat[u] = {} /\ OSTCBDly[u] = 0}}

(* The wait list holds only tasks inside OSSemPend, every task still marked  *)
(* pending is in it, and none of them waits while the count is positive.     *)
WaitersPend ==
    /\ \A t \in Task : OSTCBPrio[t] \in OSEventTbl => pc[t] \in {"schedPend", "woken"}
    /\ OSEventTbl \subseteq {OSTCBPrio[t] : t \in Task}
    /\ \A t \in Task : "SEM" \in OSTCBStat[t] => OSTCBPrio[t] \in OSEventTbl
    /\ OSEventTbl # {} => OSEventCnt = 0

(* With no handler active and the scheduler not locked, the highest ready    *)
(* task runs, or it is the one PendSV is about to switch to, or the running  *)
(* task is about to call OS_Sched.                                           *)
HighestRuns ==
    OSIntNesting = 0 /\ OSLockNesting = 0 =>
        LET highest == OSTCBPrioTbl(First(OSRdyTbl))
        IN IF PENDSVSET THEN OSTCBHighRdy = highest /\ OSPrioHighRdy = OSTCBPrio[highest]
           ELSE pc[OSTCBCur] \in {"sched", "schedPend"} \/ OSTCBCur = highest

(* os_sem.c:462: a post that returns OS_ERR_NONE has signaled the semaphore. *)
(* It is counted, or it is what ends the wait of a task in OSSemPend.        *)
PostSignals ==
    [][OSSemPost =>
         \/ OSEventCnt' = OSEventCnt + 1
         \/ \E t \in Task : /\ pc[t] \in {"schedPend", "woken"}
                            /\ "SEM" \in OSTCBStat[t] \/ OSTCBStatPend[t] = "TO"
                            /\ OSTCBStatPend'[t] = "OK"]_vars

(* What has become of every task's wait, by what OSSemPend will do next.     *)
Waits == [t \in Task |->
            IF pc[t] \notin {"schedPend", "woken"} THEN "no"
            ELSE IF OSTCBPrio[t] \in OSEventTbl THEN "waiting"
            ELSE IF OSTCBStatPend[t] = "ABORT" THEN "aborted" ELSE "granted"]

Counting == INSTANCE CountingSemaphore WITH
    Max <- CNT_MAX, count <- OSEventCnt, wait <- Waits, result <- perr

(* A semaphore counts: OSSemPend returns OS_ERR_NONE for exactly as many     *)
(* posts as it says, a wait ends by a post, an abort or a timeout and never  *)
(* by two of them, wherever ticks and handlers fall.                         *)
ImplementsSemaphore == Counting!Spec
=============================================================================
