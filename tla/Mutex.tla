-------------------------------- MODULE Mutex --------------------------------
(* One mutual exclusion semaphore of uC/OS-II with its priority inheritance  *)
(* (UCOSII/CORE/os_mutex.c), among tasks that also sleep and time out.  A    *)
(* call, its OS_Sched and the switch are one step: what handlers do between  *)
(* them is the subject of Kernel.  The scheduler is not locked.              *)
(*                                                                           *)
(* Tasks are named by the priority they were created with, all of them above *)
(* PIP and so less urgent, as OSMutexCreate assumes (os_mutex.c:145-147).    *)
(* The callers keep the rules of OSMutexPend and OSMutexDel: the owner pends *)
(* on nothing and is ready when its mutex is deleted (os_mutex.c:408, 263).  *)
EXTENDS Integers

CONSTANTS PIP,              \* the priority inheritance priority
          OS_LOWEST_PRIO,   \* of the idle task
          Timeout,          \* delays and timeouts callers ask for
          CAREFUL           \* callers avoid two calls that no document rules
                            \* out: OSMutexPend where it is misled (Misled),
                            \* and OS_DEL_NO_PEND while the owner is raised

Task == (PIP + 1)..OS_LOWEST_PRIO
Idle == OS_LOWEST_PRIO
NoTask == -1                \* a null pointer
RESERVED == -2              \* OS_TCB_RESERVED
AVAILABLE == 255            \* OS_MUTEX_AVAILABLE

ASSUME MutexAssumption ==
    /\ PIP \in Nat /\ OS_LOWEST_PRIO \in Nat /\ PIP + 1 < OS_LOWEST_PRIO
    /\ OS_LOWEST_PRIO < AVAILABLE
    /\ Timeout \subseteq Nat \ {0} /\ CAREFUL \in BOOLEAN

VARIABLES
    OSTCBPrio,        \* [Task -> its priority now]
    OSTCBPrioTbl,     \* [priority -> its task, NoTask or RESERVED]
    OSTCBStat,        \* [Task -> SUBSET {"MUTEX", "SUSPEND"}]
    OSTCBStatPend,    \* [Task -> "OK" or "TO"]
    OSTCBDly,         \* [Task -> ticks left]
    OSRdyTbl,         \* the priorities that are ready
    OSPrioCur, OSTCBCur,   \* the running task and its priority
    created,          \* the event control block is this mutex
    OSEventTbl,       \* the priorities that wait for it
    ownerPrio,        \* low byte of OSEventCnt: the owner's own priority
    owner,            \* OSEventPtr: the owner, or NoTask
    inPend            \* [Task -> it is inside OSMutexPend, which is also when
                      \* its OSTCBEventPtr points to the mutex]

(* History, for the properties.                                              *)
VARIABLES
    holds,            \* tasks told that they own the mutex
    orphan,           \* tasks whose wait ended by the deletion
    unscheduled       \* a task was lowered and OS_Sched not called since

tcb == <<OSTCBPrio, OSTCBPrioTbl, OSTCBStat, OSTCBStatPend, OSTCBDly>>
current == <<OSPrioCur, OSTCBCur, unscheduled>>
event == <<created, OSEventTbl, ownerPrio, owner>>
mutexVars == <<tcb, OSRdyTbl, current, event, inPend, holds, orphan>>

First(prios) == CHOOSE p \in prios : \A q \in prios : p <= q

MutexInit ==
    /\ OSTCBPrio = [t \in Task |-> t]
    /\ OSTCBPrioTbl = [p \in PIP..OS_LOWEST_PRIO |-> IF p = PIP THEN NoTask ELSE p]
    /\ OSTCBStat = [t \in Task |-> {}]
    /\ OSTCBStatPend = [t \in Task |-> "OK"]
    /\ OSTCBDly = [t \in Task |-> 0]
    /\ OSRdyTbl = Task
    /\ OSPrioCur = PIP + 1 /\ OSTCBCur = PIP + 1 /\ unscheduled = FALSE
    /\ created = FALSE /\ OSEventTbl = {} /\ ownerPrio = AVAILABLE /\ owner = NoTask
    /\ inPend = [t \in Task |-> FALSE]
    /\ holds = {} /\ orphan = {}

(* Definitions whose name ends in _Faulty are plausible slips in the code,   *)
(* used to show that the properties below would notice them.                 *)

(* OS_Sched and the switch, or neither; prio is OSPrioCur by then.           *)
OS_Sched_Faulty(prio) ==          \* only switches to a more urgent task
    LET highest == First(OSRdyTbl')
    IN /\ OSPrioCur' = highest
       /\ OSTCBCur' = IF highest < prio THEN OSTCBPrioTbl'[highest] ELSE OSTCBCur
       /\ unscheduled' = FALSE
OS_Sched(prio) ==
    LET highest == First(OSRdyTbl')
    IN /\ OSPrioCur' = highest
       /\ OSTCBCur' = IF highest # prio THEN OSTCBPrioTbl'[highest] ELSE OSTCBCur
       /\ unscheduled' = FALSE

NoSched(prio, lowered) ==
    /\ OSPrioCur' = prio
    /\ unscheduled' = (unscheduled \/ lowered)
    /\ UNCHANGED OSTCBCur

(* The running task is between two calls.                                    *)
Calling == OSTCBCur # Idle /\ ~inPend[OSTCBCur]

(* The priorities of those tasks of a set that are not suspended.            *)
Runnable(tasks) == {OSTCBPrio[t] : t \in {u \in tasks : "SUSPEND" \notin OSTCBStat[u]}}

(* How a task is told that its delay is over: it waited, or only slept.      *)
TickStatPend_Faulty(t) == "OK"    \* looks at OSTCBStat when it is cleared
TickStatPend(t) == IF "MUTEX" \in OSTCBStat[t] THEN "TO" ELSE "OK"

(* SysTick: OSTimeTick over all tasks, then OSIntExit.                       *)
OSTimeTick ==
    LET done == {t \in Task : OSTCBDly[t] = 1}
    IN /\ OSTCBDly' = [t \in Task |-> IF OSTCBDly[t] = 0 THEN 0 ELSE OSTCBDly[t] - 1]
       /\ OSTCBStat' = [t \in Task |->
              IF t \in done THEN OSTCBStat[t] \ {"MUTEX"} ELSE OSTCBStat[t]]
       /\ OSTCBStatPend' = [t \in Task |->
              IF t \in done THEN TickStatPend(t) ELSE OSTCBStatPend[t]]
       /\ OSRdyTbl' = OSRdyTbl \cup Runnable(done)
       /\ UNCHANGED <<OSTCBPrio, OSTCBPrioTbl, event, inPend, holds, orphan>>
       /\ OS_Sched(OSPrioCur)

OSTimeDly(ticks) ==
    /\ Calling
    /\ OSTCBDly' = [OSTCBDly EXCEPT ![OSTCBCur] = ticks]
    /\ OSRdyTbl' = OSRdyTbl \ {OSTCBPrio[OSTCBCur]}
    /\ UNCHANGED <<OSTCBPrio, OSTCBPrioTbl, OSTCBStat, OSTCBStatPend, event,
                   inPend, holds, orphan>>
    /\ OS_Sched(OSPrioCur)

OSTaskSuspend(t) ==
    /\ Calling
    /\ OSTCBStat' = [OSTCBStat EXCEPT ![t] = @ \cup {"SUSPEND"}]
    /\ OSRdyTbl' = OSRdyTbl \ {OSTCBPrio[t]}
    /\ UNCHANGED <<OSTCBPrio, OSTCBPrioTbl, OSTCBStatPend, OSTCBDly, event,
                   inPend, holds, orphan>>
    /\ IF t = OSTCBCur THEN OS_Sched(OSPrioCur) ELSE NoSched(OSPrioCur, FALSE)

OSTaskResume(t) ==
    /\ Calling
    /\ "SUSPEND" \in OSTCBStat[t]
    /\ OSTCBStat' = [OSTCBStat EXCEPT ![t] = @ \ {"SUSPEND"}]
    /\ UNCHANGED <<OSTCBPrio, OSTCBPrioTbl, OSTCBStatPend, OSTCBDly, event,
                   inPend, holds, orphan>>
    /\ IF OSTCBStat[t] = {"SUSPEND"} /\ OSTCBDly[t] = 0
       THEN OSRdyTbl' = OSRdyTbl \cup {OSTCBPrio[t]} /\ OS_Sched(OSPrioCur)
       ELSE UNCHANGED OSRdyTbl /\ NoSched(OSPrioCur, FALSE)

-----------------------------------------------------------------------------
OSMutexCreate ==
    /\ Calling
    /\ ~created /\ OSTCBPrioTbl[PIP] = NoTask
    /\ created' = TRUE
    /\ OSTCBPrioTbl' = [OSTCBPrioTbl EXCEPT ![PIP] = RESERVED]
    /\ UNCHANGED <<OSTCBPrio, OSTCBStat, OSTCBStatPend, OSTCBDly, OSRdyTbl,
                   OSEventTbl, ownerPrio, owner, inPend, holds, orphan>>
    /\ NoSched(OSPrioCur, FALSE)

(* OSMutexAccept, and OSMutexPend when the mutex is available.               *)
OSMutexAccept ==
    /\ Calling
    /\ created /\ ownerPrio = AVAILABLE
    /\ ownerPrio' = OSTCBPrio[OSTCBCur]
    /\ owner' = OSTCBCur
    /\ holds' = holds \cup {OSTCBCur}
    /\ UNCHANGED <<tcb, OSRdyTbl, created, OSEventTbl, inPend, orphan>>
    /\ NoSched(OSPrioCur, FALSE)

(* The owner is to be raised to PIP, in the ready list if it is ready, else  *)
(* in the wait list it seems to be in.                                       *)
Promote_Faulty == /\ OSTCBPrio[owner] > PIP /\ ownerPrio > OSTCBPrio[OSTCBCur]
                  /\ OSTCBPrio[owner] \in OSRdyTbl   \* a sleeping owner stays low
Promote == OSTCBPrio[owner] > PIP /\ ownerPrio > OSTCBPrio[OSTCBCur]

Raise(prios) == (prios \ {OSTCBPrio[owner]}) \cup {PIP}
PromotedRdy == IF Promote /\ OSTCBPrio[owner] \in OSRdyTbl
               THEN Raise(OSRdyTbl) ELSE OSRdyTbl
(* The owner was handed the mutex and suspended before it ran, so that its   *)
(* OSTCBEventPtr should be null: it is not waiting (os_mutex.c:483).         *)
Misled == Promote /\ OSTCBPrio[owner] \notin OSRdyTbl /\ inPend[owner]
PromotedWait == IF Misled THEN Raise(OSEventTbl) ELSE OSEventTbl

(* OSMutexPend when it is not.                                               *)
OSMutexPend(timeout) ==
    /\ Calling
    /\ created /\ ownerPrio # AVAILABLE /\ owner # OSTCBCur
    /\ CAREFUL => ~Misled
    /\ OSTCBPrio' = IF Promote THEN [OSTCBPrio EXCEPT ![owner] = PIP] ELSE OSTCBPrio
    /\ OSTCBPrioTbl' = IF Promote THEN [OSTCBPrioTbl EXCEPT ![PIP] = owner]
                       ELSE OSTCBPrioTbl
    /\ OSRdyTbl' = PromotedRdy \ {OSTCBPrio[OSTCBCur]}
    /\ OSEventTbl' = PromotedWait \cup {OSTCBPrio[OSTCBCur]}
    /\ OSTCBStat' = [OSTCBStat EXCEPT ![OSTCBCur] = @ \cup {"MUTEX"}]
    /\ OSTCBStatPend' = [OSTCBStatPend EXCEPT ![OSTCBCur] = "OK"]
    /\ OSTCBDly' = [OSTCBDly EXCEPT ![OSTCBCur] = timeout]
    /\ inPend' = [inPend EXCEPT ![OSTCBCur] = TRUE]
    /\ UNCHANGED <<created, ownerPrio, owner, holds, orphan>>
    /\ OS_Sched(OSPrioCur)

(* The end of OSMutexPend, when the task runs again.  OS_EventTaskRemove.    *)
WithoutMe_Faulty == OSEventTbl
WithoutMe == OSEventTbl \ {OSTCBPrio[OSTCBCur]}

OSMutexPendReturns ==
    /\ inPend[OSTCBCur]
    /\ inPend' = [inPend EXCEPT ![OSTCBCur] = FALSE]
    /\ IF OSTCBStatPend[OSTCBCur] = "OK"
       THEN /\ holds' = IF OSTCBCur \in orphan THEN holds ELSE holds \cup {OSTCBCur}
            /\ UNCHANGED OSEventTbl
       ELSE OSEventTbl' = WithoutMe /\ UNCHANGED holds
    /\ orphan' = orphan \ {OSTCBCur}
    /\ OSTCBStat' = [OSTCBStat EXCEPT ![OSTCBCur] = {}]
    /\ OSTCBStatPend' = [OSTCBStatPend EXCEPT ![OSTCBCur] = "OK"]
    /\ UNCHANGED <<OSTCBPrio, OSTCBPrioTbl, OSTCBDly, OSRdyTbl, created,
                   ownerPrio, owner>>
    /\ NoSched(OSPrioCur, FALSE)

-----------------------------------------------------------------------------
Raised == owner # NoTask /\ OSTCBPrio[owner] = PIP

(* OSMutex_RdyAtPrio, if the owner was raised, and what OSPrioCur is then.   *)
Restored_Faulty == OSTCBPrio
RestoredRdy_Faulty == IF Raised THEN OSRdyTbl \cup {ownerPrio} ELSE OSRdyTbl
RestoredCur_Faulty == OSPrioCur

Restored == IF Raised THEN [OSTCBPrio EXCEPT ![owner] = ownerPrio] ELSE OSTCBPrio
RestoredRdy == IF Raised THEN (OSRdyTbl \ {PIP}) \cup {ownerPrio} ELSE OSRdyTbl
RestoredCur == IF Raised THEN ownerPrio ELSE OSPrioCur

(* OS_EventTaskRdy for the tasks that wait with these priorities.            *)
OS_EventTaskRdy(prios) ==
    LET Woken(t) == OSTCBPrio[t] \in prios
    IN /\ OSTCBStat' = [t \in Task |->
              IF Woken(t) THEN OSTCBStat[t] \ {"MUTEX"} ELSE OSTCBStat[t]]
       /\ OSTCBStatPend' = [t \in Task |-> IF Woken(t) THEN "OK" ELSE OSTCBStatPend[t]]
       /\ OSTCBDly' = [t \in Task |-> IF Woken(t) THEN 0 ELSE OSTCBDly[t]]
       /\ OSRdyTbl' = RestoredRdy \cup Runnable({t \in Task : Woken(t)})
       /\ OSEventTbl' = OSEventTbl \ prios

NewOwner_Faulty == CHOOSE p \in OSEventTbl : \A q \in OSEventTbl : q <= p
NewOwner == First(OSEventTbl)

OSMutexPost ==
    /\ Calling
    /\ created /\ owner = OSTCBCur
    /\ OSTCBPrio' = Restored
    /\ OSTCBPrioTbl' = [OSTCBPrioTbl EXCEPT ![PIP] = RESERVED]
    /\ holds' = holds \ {OSTCBCur}
    /\ \/ /\ OSEventTbl # {}
          /\ OS_EventTaskRdy({NewOwner})
          /\ ownerPrio' = NewOwner /\ owner' = OSTCBPrioTbl'[NewOwner]
          /\ OS_Sched(RestoredCur)
       \/ /\ OSEventTbl = {}
          /\ OSRdyTbl' = RestoredRdy
          /\ ownerPrio' = AVAILABLE /\ owner' = NoTask
          /\ UNCHANGED <<OSTCBStat, OSTCBStatPend, OSTCBDly, OSEventTbl>>
          /\ NoSched(RestoredCur, Raised)
    /\ UNCHANGED <<created, inPend, orphan>>

(* The event control block goes back to the free list.  Tasks whose wait is  *)
(* over, or ends now, have still to return from OSMutexPend.                 *)
Freed == /\ created' = FALSE /\ ownerPrio' = AVAILABLE /\ owner' = NoTask
         /\ OSTCBPrioTbl' = [OSTCBPrioTbl EXCEPT ![PIP] = NoTask]
         /\ holds' = {}
         /\ orphan' = orphan \cup {t \in Task : inPend[t] /\ t \in OSEventTbl \cup {owner}}

OSMutexDelNoPend ==
    /\ Calling
    /\ created /\ OSEventTbl = {}
    /\ CAREFUL => ~Raised
    /\ Freed
    /\ UNCHANGED <<OSTCBPrio, OSTCBStat, OSTCBStatPend, OSTCBDly, OSRdyTbl,
                   OSEventTbl, inPend>>
    /\ NoSched(OSPrioCur, FALSE)

OSMutexDelAlways ==
    /\ Calling
    /\ created /\ (owner # NoTask => OSTCBPrio[owner] \in OSRdyTbl)
    /\ Freed
    /\ OSTCBPrio' = Restored
    /\ OS_EventTaskRdy(OSEventTbl)
    /\ IF OSEventTbl # {} THEN OS_Sched(RestoredCur) ELSE NoSched(RestoredCur, Raised)
    /\ UNCHANGED inPend

MutexNext == \/ OSTimeTick \/ OSMutexCreate \/ OSMutexAccept \/ OSMutexPendReturns
             \/ OSMutexPost \/ OSMutexDelNoPend \/ OSMutexDelAlways
             \/ \E ticks \in Timeout : OSTimeDly(ticks)
             \/ \E t \in Task \ {Idle} : OSTaskSuspend(t) \/ OSTaskResume(t)
             \/ \E timeout \in Timeout \cup {0} : OSMutexPend(timeout)

MutexSpec == MutexInit /\ [][MutexNext]_mutexVars

-----------------------------------------------------------------------------
(* Ranges; the priority table finds every task, and the entry of PIP is the  *)
(* raised owner's, or reserved as long as there is a mutex.                  *)
MutexTypeOK ==
    /\ OSTCBPrio \in [Task -> PIP..OS_LOWEST_PRIO]
    /\ \A t \in Task : OSTCBPrioTbl[OSTCBPrio[t]] = t /\ OSTCBPrioTbl[t] = t
    /\ OSTCBPrioTbl[PIP] \in Task \cup {IF created THEN RESERVED ELSE NoTask}
    /\ OSTCBStat \in [Task -> SUBSET {"MUTEX", "SUSPEND"}]
    /\ OSTCBStatPend \in [Task -> {"OK", "TO"}]
    /\ OSTCBDly \in [Task -> Nat]
    /\ OSRdyTbl \subseteq PIP..OS_LOWEST_PRIO /\ OSEventTbl \subseteq Task
    /\ OSTCBCur \in Task /\ OSPrioCur = OSTCBPrio[OSTCBCur]
    /\ created \in BOOLEAN /\ unscheduled \in BOOLEAN
    /\ owner \in Task \cup {NoTask}
    /\ ownerPrio = IF owner = NoTask THEN AVAILABLE ELSE owner
    /\ inPend \in [Task -> BOOLEAN]
    /\ holds \subseteq Task /\ orphan \subseteq Task

(* A priority is in the ready list exactly if its task waits for nothing.    *)
MutexReadyExact ==
    OSRdyTbl = {OSTCBPrio[t] : t \in {u \in Task : OSTCBStat[u] = {} /\ OSTCBDly[u] = 0}}

(* ucos_ii.h:356: OSEventTbl is the list of tasks waiting for the event.  A  *)
(* task leaves it with its answer, or in OSMutexPend when it gave up.        *)
WaitListWaits ==
    \A p \in OSEventTbl : \E t \in Task : OSTCBPrio[t] = p /\ inPend[t] /\ t # owner

(* Priority inheritance: only the owner of the mutex ever runs above its own *)
(* priority, and it is at least as urgent as every task that waits for it,   *)
(* however the waiters came and gave up.                                     *)
PriorityInheritance ==
    /\ \A t \in Task : OSTCBPrio[t] # t => t = owner
    /\ \A t \in Task : t \in OSEventTbl => owner # NoTask /\ OSTCBPrio[owner] <= t

(* A task told that it owns the mutex does, till it posts, unless the mutex  *)
(* was deleted: no two of them are inside at once, whatever mixture of       *)
(* timeouts, late answers and hand-overs there was.                          *)
MutualExclusion == \A t \in holds : owner = t

(* The highest ready task runs, once the post of a raised owner whose        *)
(* waiters had given up is followed by a scheduling point.                   *)
HighestRunsOncePosted == unscheduled \/ OSTCBCur = OSTCBPrioTbl[First(OSRdyTbl)]

(* os_core.c:1617: the highest ready task runs after every call.             *)
MutexHighestRuns == OSTCBCur = OSTCBPrioTbl[First(OSRdyTbl)]

(* os_mutex.c:391: OS_ERR_NONE says that the task owns the mutex.            *)
NoneMeansOwner ==
    [][\A t \in Task : /\ inPend[t] /\ ~inPend'[t]
                       /\ OSTCBStatPend[t] = "OK"
                       => owner = t]_mutexVars

Lock == INSTANCE PriorityLock WITH holder <- owner, waiting <- OSEventTbl

(* The mutex is a lock: one owner, the most urgent waiter next.              *)
ImplementsLock == Lock!Spec
=============================================================================
