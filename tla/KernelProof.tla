----------------------------- MODULE KernelProof -----------------------------
(* Theorems about Kernel, for any number of tasks, priorities, delays and    *)
(* nested handlers, when OSTaskChangePrio is not called where it is misled   *)
(* (FRESH; KernelStale.cfg is what happens else).  All of them follow from   *)
(* one inductive invariant: what runs depends on what is ready, and a task   *)
(* is ready only as the wait list says, so neither is inductive alone.       *)
EXTENDS Kernel, TLAPS, FiniteSetTheorems

InPend(t) == pc[t] \in {"schedPend", "woken"}

(* ReadyExact, task by task.                                                 *)
ReadyOK ==
    /\ \A t \in Task : OSTCBPrio[t] \in OSRdyTbl <=> OSTCBStat[t] = {} /\ OSTCBDly[t] = 0
    /\ \A p \in OSRdyTbl : \E t \in Task : OSTCBPrio[t] = p

(* A task in OSSemPend is waiting, or has its answer: it left the wait list  *)
(* without a timeout, or gave up and has still to leave it.                  *)
WaitOK(t) ==
    /\ OSTCBEventPtr[t] <=> InPend(t)
    /\ "SEM" \in OSTCBStat[t] => OSTCBPrio[t] \in OSEventTbl
    /\ OSTCBPrio[t] \in OSEventTbl => InPend(t)
    /\ InPend(t) /\ "SEM" \notin OSTCBStat[t] =>
          /\ OSTCBDly[t] = 0
          /\ OSTCBPrio[t] \in OSEventTbl <=> OSTCBStatPend[t] = "TO"

ListOK ==
    /\ \A p \in OSEventTbl : \E t \in Task : OSTCBPrio[t] = p
    /\ OSEventTbl # {} => OSEventCnt = 0

IdleOK == OSTCBStat[Idle] = {} /\ OSTCBDly[Idle] = 0 /\ pc[Idle] = "run"

IsHighest(t) == OSTCBPrio[t] \in OSRdyTbl /\ \A p \in OSRdyTbl : OSTCBPrio[t] <= p

(* OSPrioCur is stale from OSTaskChangePrio on the running task until the    *)
(* next switch, which may be far if the scheduler is locked, but no task has *)
(* that priority: OS_SchedNew does not take it for the highest one.          *)
CurOK == OSPrioCur = OSTCBPrio[OSTCBCur] \/ \A t \in Task : OSTCBPrio[t] # OSPrioCur

LockOK == OSLockNesting > 0 => ~PENDSVSET /\ ~InPend(OSTCBCur)

HighestOK ==
    OSIntNesting = 0 /\ OSLockNesting = 0 =>
       /\ PENDSVSET => IsHighest(OSTCBHighRdy) /\ OSPrioHighRdy = OSTCBPrio[OSTCBHighRdy]
       /\ ~PENDSVSET => pc[OSTCBCur] \in {"sched", "schedPend"} \/ IsHighest(OSTCBCur)

Inv == /\ TypeOK /\ ReadyOK
       /\ \A t \in Task : WaitOK(t)
       /\ ListOK /\ IdleOK /\ CurOK /\ LockOK /\ HighestOK

-----------------------------------------------------------------------------
(* First: the least priority of a nonempty set, which is always there.       *)
LEMMA FirstIsLeast ==
    ASSUME NEW S, S \subseteq Nat, S # {}
    PROVE  First(S) \in S /\ \A q \in S : First(S) <= q
<1> DEFINE Below(n) == 0..(n - 1)
           T == {Below(n) : n \in S}
           R == StrictSubsetOrdering(Nat)
<1>1. T \subseteq FiniteSubsetsOf(Nat) /\ T # {}
  <2>1. ASSUME NEW n \in S PROVE IsFiniteSet(Below(n)) /\ Below(n) \subseteq Nat
    BY FS_Interval
  <2> QED BY <2>1 DEF FiniteSubsetsOf
<1>2. PICK x \in T : \A y \in T : ~(<<y, x>> \in R)
  <2> HIDE DEF T, R
  <2>1. IsWellFoundedOn(StrictSubsetOrdering(Nat), FiniteSubsetsOf(Nat))
    BY FS_StrictSubsetOrderingWellFounded
  <2> QED BY <2>1, <1>1, WFMin DEF R
<1>3. PICK m \in S : x = Below(m)
  OBVIOUS
<1>4. \A q \in S : m <= q
  <2> SUFFICES ASSUME NEW q \in S, q < m PROVE FALSE
    BY <1>3
  <2>1. Below(q) \subseteq Below(m) /\ Below(q) # Below(m)
    <3>1. q \in Below(m) /\ q \notin Below(q)
      OBVIOUS
    <3> QED BY <3>1
  <2>2. <<Below(q), Below(m)>> \in R
    BY <2>1 DEF StrictSubsetOrdering
  <2> QED BY <2>2, <1>2, <1>3
<1> QED BY <1>4 DEF First

LEMMA PrioNat == Prio \subseteq Nat
BY KernelAssumption DEF Prio

LEMMA TaskValues ==
    ASSUME TypeOK, NEW t \in Task
    PROVE  /\ OSTCBPrio[t] \in Nat /\ OSTCBPrio[t] \in Prio
           /\ OSTCBStat[t] \subseteq {"SEM", "SUSPEND"}
           /\ OSTCBDly[t] \in Nat
<1>1. OSTCBPrio[t] \in Prio
  BY DEF TypeOK
<1>2. OSTCBStat[t] \in SUBSET {"SEM", "SUSPEND"} /\ OSTCBDly[t] \in Nat
  BY DEF TypeOK
<1> QED BY <1>1, <1>2, PrioNat

(* OSTCBPrioTbl and First find the highest ready task: Idle is always ready. *)
LEMMA HighestExists ==
    ASSUME TypeOK, ReadyOK, IdleOK
    PROVE  LET p == First(OSRdyTbl) IN
           /\ p \in OSRdyTbl /\ \A q \in OSRdyTbl : p <= q
           /\ OSTCBPrioTbl(p) \in Task /\ OSTCBPrio[OSTCBPrioTbl(p)] = p
           /\ IsHighest(OSTCBPrioTbl(p))
           /\ \A t \in Task : IsHighest(t) => t = OSTCBPrioTbl(p)
<1> DEFINE p == First(OSRdyTbl)
<1>1. OSRdyTbl \subseteq Nat /\ OSRdyTbl # {}
  BY KernelAssumption, PrioNat DEF TypeOK, ReadyOK, IdleOK
<1>2. p \in OSRdyTbl /\ \A q \in OSRdyTbl : p <= q
  BY <1>1, FirstIsLeast
<1>3. OSTCBPrioTbl(p) \in Task /\ OSTCBPrio[OSTCBPrioTbl(p)] = p
  BY <1>2 DEF ReadyOK, OSTCBPrioTbl
<1>4. IsHighest(OSTCBPrioTbl(p))
  BY <1>2, <1>3 DEF IsHighest
<1>5. ASSUME NEW t \in Task, IsHighest(t) PROVE t = OSTCBPrioTbl(p)
  <2>1. OSTCBPrio[t] <= p /\ p <= OSTCBPrio[t]
    BY <1>2, <1>5 DEF IsHighest
  <2>2. OSTCBPrio[t] = p
    <3>1. OSTCBPrio[t] \in Nat /\ p \in Nat
      BY <1>1, <1>2, <1>5, TaskValues
    <3> HIDE DEF p
    <3> QED BY <2>1, <3>1
  <2> QED BY <2>2, <1>3 DEF TypeOK
<1> QED BY <1>2, <1>3, <1>4, <1>5

-----------------------------------------------------------------------------
LEMMA InitInv == Init => Inv
<1> SUFFICES ASSUME Init PROVE Inv
    OBVIOUS
<1>1. /\ OSTCBPrio \in [Task -> Prio] /\ Idle \in Task
      /\ \A t, u \in Task : OSTCBPrio[t] = OSTCBPrio[u] => t = u
      /\ OSRdyTbl = {OSTCBPrio[t] : t \in Task}
      /\ OSPrioCur = First(OSRdyTbl) /\ OSTCBCur = OSTCBPrioTbl(OSPrioCur)
      /\ OSPrioHighRdy = OSPrioCur /\ OSTCBHighRdy = OSTCBCur
      /\ ~PENDSVSET /\ OSIntNesting = 0 /\ OSLockNesting = 0
      /\ OSEventTbl = {} /\ OSEventCnt = 0
  BY KernelAssumption DEF Init
<1>2. \A t \in Task : /\ OSTCBStat[t] = {} /\ OSTCBStatPend[t] = "OK" /\ OSTCBDly[t] = 0
                      /\ ~OSTCBEventPtr[t] /\ pc[t] = "run"
  BY DEF Init
<1>3. /\ OSPrioCur \in OSRdyTbl /\ \A q \in OSRdyTbl : OSPrioCur <= q
  <2>1. OSRdyTbl \subseteq Nat
    BY <1>1, PrioNat
  <2>2. OSRdyTbl # {}
    BY <1>1
  <2> QED BY <2>1, <2>2, <1>1, FirstIsLeast
<1>4. OSTCBCur \in Task /\ OSTCBPrio[OSTCBCur] = OSPrioCur
  BY <1>1, <1>3 DEF OSTCBPrioTbl
<1>5. TypeOK
  <2>1. OSTCBStat \in [Task -> SUBSET {"SEM", "SUSPEND"}] /\ OSTCBDly \in [Task -> Nat]
    BY DEF Init
  <2>2. OSTCBEventPtr \in [Task -> BOOLEAN]
    BY DEF Init
  <2>3. OSTCBStatPend \in [Task -> {"OK", "TO", "ABORT"}]
    BY DEF Init
  <2>4. pc \in [Task -> {"run", "sched", "schedPend", "woken"}]
    BY DEF Init
  <2>5. tick \in BOOLEAN /\ PENDSVSET \in BOOLEAN
    BY DEF Init
  <2>6. visit \subseteq User /\ perr \in {"NONE", "TIMEOUT", "ABORT"}
    BY DEF Init
  <2>7. OSIntNesting \in 0..NEST_MAX /\ OSLockNesting \in 0..LOCK_MAX
    BY <1>1, KernelAssumption
  <2>8. OSRdyTbl \subseteq Prio /\ OSEventTbl \subseteq Prio /\ OSEventCnt \in Nat
    BY <1>1
  <2>9. OSPrioCur \in Prio /\ OSPrioHighRdy \in Prio /\ OSTCBHighRdy \in Task
    BY <1>1, <1>3, <1>4, <2>8
  <2> QED BY <1>1, <1>4, <2>1, <2>2, <2>3, <2>4, <2>5, <2>6, <2>7, <2>8, <2>9 DEF TypeOK
<1>6. ListOK /\ IdleOK /\ LockOK
  BY <1>1, <1>2 DEF ListOK, IdleOK, LockOK
<1>9. ReadyOK
  BY <1>1, <1>2 DEF ReadyOK
<1>7. \A t \in Task : WaitOK(t)
  BY <1>1, <1>2 DEF WaitOK, InPend
<1>8. CurOK /\ HighestOK
  BY <1>1, <1>3, <1>4 DEF CurOK, HighestOK, IsHighest
<1> QED BY <1>5, <1>6, <1>7, <1>8, <1>9 DEF Inv

-----------------------------------------------------------------------------
(* The scheduler: the tasks, the ready list and the wait list stay.          *)

(* What is said of the tasks and their lists survives a step that leaves     *)
(* them alone and moves no task into OSSemPend or out of it.                 *)
LEMMA ListsFrame ==
    ASSUME Inv, UNCHANGED <<tcb, OSRdyTbl, event>>,
           \A t \in Task : InPend(t)' <=> InPend(t), pc'[Idle] = "run"
    PROVE  ReadyOK' /\ (\A t \in Task : WaitOK(t)') /\ ListOK' /\ IdleOK'
<1>1. UNCHANGED <<OSTCBPrio, OSTCBStat, OSTCBStatPend, OSTCBDly, OSTCBEventPtr,
                  OSRdyTbl, OSEventTbl, OSEventCnt>>
  BY DEF tcb, event
<1>2. ReadyOK'
  BY <1>1 DEF Inv, ReadyOK
<1>3. ASSUME NEW t \in Task PROVE WaitOK(t)'
  <2>1. WaitOK(t) /\ (InPend(t)' <=> InPend(t))
    BY DEF Inv
  <2> QED BY <1>1, <2>1 DEF WaitOK
<1>4. ListOK' /\ IdleOK'
  BY <1>1 DEF Inv, ListOK, IdleOK
<1> QED BY <1>2, <1>3, <1>4

(* SchedNew chooses the highest task, and asks for a switch if it must.      *)
LEMMA SchedNewChooses ==
    ASSUME Inv, OSLockNesting = 0, SchedNew, UNCHANGED <<tcb, OSRdyTbl>>
    PROVE  /\ OSPrioHighRdy' \in Prio /\ OSTCBHighRdy' \in Task
           /\ PENDSVSET' \in BOOLEAN /\ UNCHANGED <<OSPrioCur, OSTCBCur>>
           /\ PENDSVSET => PENDSVSET'
           /\ IsHighest(OSTCBHighRdy)' /\ OSPrioHighRdy' = OSTCBPrio[OSTCBHighRdy']
           /\ ~PENDSVSET' => OSPrioCur = OSTCBPrio[OSTCBCur] /\ IsHighest(OSTCBCur)
<1> DEFINE p == First(OSRdyTbl)
<1>1. /\ OSPrioHighRdy' = p /\ OSTCBHighRdy' = OSTCBPrioTbl(p)
      /\ PENDSVSET' = (PENDSVSET \/ p # OSPrioCur)
      /\ UNCHANGED <<OSPrioCur, OSTCBCur>> /\ UNCHANGED <<OSTCBPrio, OSRdyTbl>>
  BY DEF SchedNew, tcb
<1>2. /\ p \in OSRdyTbl /\ OSTCBPrioTbl(p) \in Task /\ OSTCBPrio[OSTCBPrioTbl(p)] = p
      /\ IsHighest(OSTCBPrioTbl(p))
  BY HighestExists DEF Inv
<1> HIDE DEF p
<1>3. p \in Prio /\ OSTCBCur \in Task
  BY <1>2 DEF Inv, TypeOK
<1>4. ASSUME ~PENDSVSET' PROVE OSPrioCur = OSTCBPrio[OSTCBCur] /\ IsHighest(OSTCBCur)
  <2>1. ~PENDSVSET /\ p = OSPrioCur
    BY <1>1, <1>4
  <2>2. OSPrioCur = OSTCBPrio[OSTCBCur]
    BY <2>1, <1>2 DEF Inv, CurOK
  <2>3. OSTCBCur = OSTCBPrioTbl(p)
    BY <2>1, <2>2, <1>2, <1>3 DEF Inv, TypeOK
  <2> QED BY <2>2, <2>3, <1>2
<1>5. IsHighest(OSTCBHighRdy)'
  BY <1>1, <1>2 DEF IsHighest
<1> QED BY <1>1, <1>2, <1>3, <1>4, <1>5

LEMMA SchedInv == ASSUME Inv, OS_Sched PROVE Inv'
<1>1. PICK t \in Task :
         /\ Running(t) /\ pc[t] \in {"sched", "schedPend"}
         /\ IF OSLockNesting = 0 THEN SchedNew ELSE UNCHANGED switch
         /\ pc' = [pc EXCEPT ![t] = IF @ = "sched" THEN "run" ELSE "woken"]
         /\ UNCHANGED <<tcb, OSRdyTbl, event, nesting, perr>>
  BY DEF OS_Sched
<1>2. /\ TypeOK /\ CurOK /\ LockOK /\ HighestOK /\ IdleOK
      /\ t = OSTCBCur /\ OSIntNesting = 0 /\ ~PENDSVSET
  BY <1>1 DEF Inv, Running
<1>3. pc \in [Task -> {"run", "sched", "schedPend", "woken"}] /\ Idle \in Task
  BY <1>2, KernelAssumption DEF TypeOK
<1>4. /\ pc'[t] \in {"run", "woken"} /\ t # Idle
      /\ \A u \in Task : u # t => pc'[u] = pc[u]
      /\ pc' \in [Task -> {"run", "sched", "schedPend", "woken"}]
      /\ pc'[t] = "woken" <=> pc[t] = "schedPend"
  BY <1>1, <1>2, <1>3 DEF IdleOK
<1>5. ReadyOK' /\ (\A u \in Task : WaitOK(u)') /\ ListOK' /\ IdleOK'
  <2>1. \A u \in Task : InPend(u)' <=> InPend(u)
    BY <1>1, <1>4 DEF InPend
  <2>2. pc'[Idle] = "run"
    BY <1>2, <1>3, <1>4 DEF IdleOK
  <2> QED BY <1>1, <2>1, <2>2, ListsFrame
<1>6. UNCHANGED <<OSTCBPrio, OSTCBStat, OSTCBStatPend, OSTCBDly, OSTCBEventPtr, OSRdyTbl,
                  OSEventTbl, OSEventCnt, OSIntNesting, OSLockNesting, tick, visit, perr>>
  BY <1>1 DEF tcb, event, nesting
<1>7. CASE OSLockNesting = 0
  <2>1. /\ OSPrioHighRdy' \in Prio /\ OSTCBHighRdy' \in Task
        /\ PENDSVSET' \in BOOLEAN /\ UNCHANGED <<OSPrioCur, OSTCBCur>>
        /\ IsHighest(OSTCBHighRdy)' /\ OSPrioHighRdy' = OSTCBPrio[OSTCBHighRdy']
        /\ ~PENDSVSET' => OSPrioCur = OSTCBPrio[OSTCBCur] /\ IsHighest(OSTCBCur)
    BY <1>1, <1>7, SchedNewChooses
  <2>2. TypeOK'
    BY <1>2, <1>4, <1>6, <2>1 DEF TypeOK
  <2>3. CurOK' /\ LockOK'
    BY <1>2, <1>6, <1>7, <2>1 DEF CurOK, LockOK
  <2>4. HighestOK'
    BY <1>6, <2>1 DEF HighestOK, IsHighest
  <2> QED BY <1>5, <2>2, <2>3, <2>4 DEF Inv
<1>8. CASE OSLockNesting # 0
  <2>1. OSLockNesting > 0 /\ UNCHANGED <<OSPrioCur, OSTCBCur, OSPrioHighRdy, OSTCBHighRdy, PENDSVSET>>
    BY <1>1, <1>2, <1>8, KernelAssumption DEF TypeOK, switch
  <2>2. TypeOK'
    BY <1>2, <1>4, <1>6, <2>1 DEF TypeOK
  <2>3. LockOK' /\ CurOK'
    BY <1>1, <1>2, <1>4, <1>6, <2>1 DEF CurOK, LockOK, InPend
  <2>4. HighestOK'
    BY <1>6, <2>1 DEF HighestOK
  <2> QED BY <1>5, <2>2, <2>3, <2>4 DEF Inv
<1> QED BY <1>7, <1>8

LEMMA PendSVInv == ASSUME Inv, PendSV_Handler PROVE Inv'
<1>1. /\ PENDSVSET /\ OSIntNesting = 0
      /\ OSPrioCur' = OSPrioHighRdy /\ OSTCBCur' = OSTCBHighRdy /\ ~PENDSVSET' /\ PENDSVSET' \in BOOLEAN
      /\ UNCHANGED <<OSTCBPrio, OSTCBStat, OSTCBStatPend, OSTCBDly, OSTCBEventPtr, OSRdyTbl,
                     OSEventTbl, OSEventCnt, OSIntNesting, OSLockNesting, tick, visit, perr>>
      /\ UNCHANGED <<OSPrioHighRdy, OSTCBHighRdy, pc>> /\ UNCHANGED <<tcb, event>>
  BY DEF PendSV_Handler, tcb, event, nesting
<1>2. TypeOK /\ HighestOK /\ LockOK /\ IdleOK
  BY DEF Inv
<1>3. OSLockNesting = 0
  BY <1>1, <1>2, KernelAssumption DEF LockOK, TypeOK
<1>4. IsHighest(OSTCBHighRdy) /\ OSPrioHighRdy = OSTCBPrio[OSTCBHighRdy]
  BY <1>1, <1>2, <1>3 DEF HighestOK
<1>5. TypeOK'
  BY <1>1, <1>2 DEF TypeOK
<1>6. ReadyOK' /\ (\A u \in Task : WaitOK(u)') /\ ListOK' /\ IdleOK'
  <2>1. \A u \in Task : InPend(u)' <=> InPend(u)
    BY <1>1 DEF InPend
  <2> QED BY <1>1, <1>2, <2>1, ListsFrame DEF IdleOK
<1>7. CurOK' /\ LockOK' /\ HighestOK'
  BY <1>1, <1>3, <1>4 DEF CurOK, LockOK, HighestOK, IsHighest
<1> QED BY <1>5, <1>6, <1>7 DEF Inv

LEMMA IntEnterInv == ASSUME Inv, OSIntEnter PROVE Inv'
<1>1. /\ OSIntNesting < NEST_MAX /\ OSIntNesting' = OSIntNesting + 1
      /\ tick' \in BOOLEAN /\ visit' \subseteq User
      /\ UNCHANGED <<OSTCBPrio, OSTCBStat, OSTCBStatPend, OSTCBDly, OSTCBEventPtr, OSRdyTbl,
                     OSEventTbl, OSEventCnt, OSPrioCur, OSTCBCur, OSPrioHighRdy,
                     OSTCBHighRdy, PENDSVSET, OSLockNesting, pc, perr>>
      /\ UNCHANGED <<tcb, event>>
  BY DEF OSIntEnter, tcb, event, switch, Inv, TypeOK
<1>2. TypeOK /\ CurOK /\ LockOK /\ IdleOK
  BY DEF Inv
<1>3. OSIntNesting' \in 0..NEST_MAX /\ OSIntNesting' # 0
  BY <1>1, <1>2, KernelAssumption DEF TypeOK
<1>4. TypeOK'
  BY <1>1, <1>2, <1>3 DEF TypeOK
<1>5. ReadyOK' /\ (\A u \in Task : WaitOK(u)') /\ ListOK' /\ IdleOK'
  <2>1. \A u \in Task : InPend(u)' <=> InPend(u)
    BY <1>1 DEF InPend
  <2> QED BY <1>1, <1>2, <2>1, ListsFrame DEF IdleOK
<1>6. CurOK' /\ LockOK' /\ HighestOK'
  BY <1>1, <1>2, <1>3 DEF CurOK, LockOK, HighestOK, InPend
<1> QED BY <1>4, <1>5, <1>6 DEF Inv

LEMMA IntExitInv == ASSUME Inv, OSIntExit PROVE Inv'
<1>1. /\ OSIntNesting > 0 /\ OSIntNesting' = OSIntNesting - 1
      /\ tick' \in BOOLEAN
      /\ IF OSIntNesting = 1 /\ OSLockNesting = 0 THEN SchedNew ELSE UNCHANGED switch
      /\ UNCHANGED <<OSTCBPrio, OSTCBStat, OSTCBStatPend, OSTCBDly, OSTCBEventPtr, OSRdyTbl,
                     OSEventTbl, OSEventCnt, OSLockNesting, visit, pc, perr>>
      /\ UNCHANGED <<tcb, event, OSRdyTbl>>
  BY DEF OSIntExit, tcb, event, Inv, TypeOK
<1>2. TypeOK /\ CurOK /\ LockOK /\ IdleOK
  BY DEF Inv
<1>3. OSIntNesting \in Nat /\ OSIntNesting' \in 0..NEST_MAX /\ OSLockNesting \in Nat
  BY <1>1, <1>2, KernelAssumption DEF TypeOK
<1>4. ReadyOK' /\ (\A u \in Task : WaitOK(u)') /\ ListOK' /\ IdleOK'
  <2>1. \A u \in Task : InPend(u)' <=> InPend(u)
    BY <1>1 DEF InPend
  <2> QED BY <1>1, <1>2, <2>1, ListsFrame DEF IdleOK
<1>5. CASE OSIntNesting = 1 /\ OSLockNesting = 0
  <2>1. /\ OSPrioHighRdy' \in Prio /\ OSTCBHighRdy' \in Task
        /\ PENDSVSET' \in BOOLEAN /\ UNCHANGED <<OSPrioCur, OSTCBCur>>
        /\ PENDSVSET => PENDSVSET'
        /\ IsHighest(OSTCBHighRdy)' /\ OSPrioHighRdy' = OSTCBPrio[OSTCBHighRdy']
        /\ ~PENDSVSET' => OSPrioCur = OSTCBPrio[OSTCBCur] /\ IsHighest(OSTCBCur)
    BY <1>1, <1>5, SchedNewChooses
  <2>2. TypeOK'
    BY <1>1, <1>2, <1>3, <2>1 DEF TypeOK
  <2>3. CurOK' /\ LockOK'
    BY <1>1, <1>2, <1>5, <2>1 DEF CurOK, LockOK
  <2>4. HighestOK'
    BY <1>1, <2>1 DEF HighestOK, IsHighest
  <2> QED BY <1>4, <2>2, <2>3, <2>4 DEF Inv
<1>6. CASE ~(OSIntNesting = 1 /\ OSLockNesting = 0)
  <2>1. UNCHANGED <<OSPrioCur, OSTCBCur, OSPrioHighRdy, OSTCBHighRdy, PENDSVSET>>
    BY <1>1, <1>6 DEF switch
  <2>2. TypeOK'
    BY <1>1, <1>2, <1>3, <2>1 DEF TypeOK
  <2>3. CurOK' /\ LockOK'
    BY <1>1, <1>2, <2>1 DEF CurOK, LockOK, InPend
  <2>4. HighestOK'
    BY <1>1, <1>3, <1>6 DEF HighestOK
  <2> QED BY <1>4, <2>2, <2>3, <2>4 DEF Inv
<1> QED BY <1>5, <1>6

(* A task between calls: no switch is pending, and it is the highest.        *)
LEMMA FromTaskFacts ==
    ASSUME Inv, FromTask
    PROVE  /\ OSIntNesting = 0 /\ ~PENDSVSET /\ pc[OSTCBCur] = "run"
           /\ OSTCBCur \in Task /\ OSTCBCur # Idle
           /\ OSLockNesting = 0 => IsHighest(OSTCBCur)
BY DEF FromTask, Running, Inv, TypeOK, HighestOK

(* ThenSched: the task will call OS_Sched; in a handler OSIntExit will do.   *)
LEMMA ThenSchedStep ==
    ASSUME Inv, Calling, ThenSched
    PROVE  /\ pc' \in [Task -> {"run", "sched", "schedPend", "woken"}]
           /\ \A t \in Task : InPend(t)' <=> InPend(t)
           /\ pc'[Idle] = "run"
           /\ OSIntNesting = 0 => pc'[OSTCBCur] = "sched" /\ FromTask
           /\ OSIntNesting # 0 => UNCHANGED pc
<1>1. pc \in [Task -> {"run", "sched", "schedPend", "woken"}] /\ OSIntNesting \in Nat
  BY KernelAssumption DEF Inv, TypeOK
<1>2. CASE OSIntNesting = 0
  <2>1. FromTask
    BY <1>2 DEF Calling
  <2>2. pc' = [pc EXCEPT ![OSTCBCur] = "sched"]
    BY <1>2 DEF ThenSched
  <2> QED BY <1>1, <1>2, <2>1, <2>2, FromTaskFacts, KernelAssumption DEF InPend, Inv, IdleOK
<1>3. CASE OSIntNesting # 0
  BY <1>1, <1>3 DEF ThenSched, InPend, Inv, IdleOK
<1> QED BY <1>2, <1>3

(* A service that changes no priority and switches nothing itself.           *)
LEMMA ServiceFrame ==
    ASSUME Inv, Calling, UNCHANGED <<OSTCBPrio, switch, nesting>>,
           \/ ThenSched
           \/ UNCHANGED pc /\ (IsHighest(OSTCBCur) => IsHighest(OSTCBCur)')
    PROVE  CurOK' /\ LockOK' /\ HighestOK'
<1>1. UNCHANGED <<OSTCBPrio, OSPrioCur, OSTCBCur, OSPrioHighRdy, OSTCBHighRdy, PENDSVSET,
                  OSIntNesting, OSLockNesting>>
  BY DEF switch, nesting
<1>2. CurOK /\ LockOK /\ HighestOK /\ OSTCBCur \in Task /\ OSIntNesting \in Nat
  BY KernelAssumption DEF Inv, TypeOK
<1>3. CASE ThenSched
  <2>1. /\ \A t \in Task : InPend(t)' <=> InPend(t)
        /\ OSIntNesting = 0 => pc'[OSTCBCur] = "sched" /\ FromTask
        /\ OSIntNesting # 0 => UNCHANGED pc
    BY <1>3, ThenSchedStep
  <2>2. CASE OSIntNesting = 0
    BY <1>1, <1>2, <2>1, <2>2, FromTaskFacts DEF CurOK, LockOK, HighestOK, InPend
  <2>3. CASE OSIntNesting # 0
    BY <1>1, <1>2, <2>1, <2>3 DEF CurOK, LockOK, HighestOK, InPend
  <2> QED BY <2>2, <2>3
<1>4. CASE UNCHANGED pc /\ (IsHighest(OSTCBCur) => IsHighest(OSTCBCur)')
  <2>1. CurOK' /\ LockOK'
    BY <1>1, <1>2, <1>4 DEF CurOK, LockOK, InPend
  <2>2. HighestOK'
    <3>1. CASE OSIntNesting = 0
      <4>1. FromTask
        BY <3>1 DEF Calling
      <4>2. ~PENDSVSET' /\ OSTCBCur' = OSTCBCur
        BY <4>1, <1>1, FromTaskFacts
      <4>3. OSLockNesting' = 0 => IsHighest(OSTCBCur)'
        BY <4>1, <1>1, <1>4, FromTaskFacts
      <4> QED BY <4>2, <4>3 DEF HighestOK
    <3>2. CASE OSIntNesting # 0
      BY <3>2, <1>1 DEF HighestOK
    <3> QED BY <3>1, <3>2
  <2> QED BY <2>1, <2>2
<1> QED BY <1>3, <1>4

LEMMA SchedLockInv == ASSUME Inv, OSSchedLock PROVE Inv'
<1>1. /\ FromTask /\ OSLockNesting < LOCK_MAX /\ OSLockNesting' = OSLockNesting + 1
      /\ UNCHANGED <<OSTCBPrio, OSTCBStat, OSTCBStatPend, OSTCBDly, OSTCBEventPtr, OSRdyTbl,
                     OSEventTbl, OSEventCnt, OSPrioCur, OSTCBCur, OSPrioHighRdy,
                     OSTCBHighRdy, PENDSVSET, OSIntNesting, tick, visit, pc, perr>>
      /\ UNCHANGED <<tcb, event, OSRdyTbl>>
  BY DEF OSSchedLock, tcb, event, switch
<1>2. TypeOK /\ IdleOK
  BY DEF Inv
<1>3. OSLockNesting' \in 0..LOCK_MAX /\ OSLockNesting' # 0
  BY <1>1, <1>2, KernelAssumption DEF TypeOK
<1>4. TypeOK'
  BY <1>1, <1>2, <1>3 DEF TypeOK
<1>5. ReadyOK' /\ (\A u \in Task : WaitOK(u)') /\ ListOK' /\ IdleOK'
  <2>1. \A u \in Task : InPend(u)' <=> InPend(u)
    BY <1>1 DEF InPend
  <2> QED BY <1>1, <1>2, <2>1, ListsFrame DEF IdleOK
<1>6. CurOK' /\ LockOK' /\ HighestOK'
  BY <1>1, <1>3, FromTaskFacts DEF Inv, CurOK, LockOK, HighestOK, InPend
<1> QED BY <1>4, <1>5, <1>6 DEF Inv

LEMMA SchedUnlockInv == ASSUME Inv, OSSchedUnlock PROVE Inv'
<1>1. /\ FromTask /\ OSLockNesting > 0 /\ OSLockNesting' = OSLockNesting - 1
      /\ IF OSLockNesting = 1 THEN ThenSched ELSE UNCHANGED pc
      /\ UNCHANGED <<OSTCBPrio, OSTCBStat, OSTCBStatPend, OSTCBDly, OSTCBEventPtr, OSRdyTbl,
                     OSEventTbl, OSEventCnt, OSPrioCur, OSTCBCur, OSPrioHighRdy,
                     OSTCBHighRdy, PENDSVSET, OSIntNesting, tick, visit, perr>>
      /\ UNCHANGED <<tcb, event, OSRdyTbl>>
  BY DEF OSSchedUnlock, tcb, event, switch
<1>2. TypeOK /\ IdleOK /\ OSLockNesting \in Nat
  BY KernelAssumption DEF Inv, TypeOK
<1>3. OSLockNesting' \in 0..LOCK_MAX
  BY <1>1, <1>2, KernelAssumption DEF TypeOK
<1>4. /\ pc' \in [Task -> {"run", "sched", "schedPend", "woken"}]
      /\ \A t \in Task : InPend(t)' <=> InPend(t)
      /\ pc'[Idle] = "run"
      /\ OSLockNesting = 1 => pc'[OSTCBCur] = "sched"
  <2>1. CASE OSLockNesting = 1
    BY <2>1, <1>1, ThenSchedStep, FromTaskFacts DEF Calling
  <2>2. CASE OSLockNesting # 1
    BY <2>2, <1>1, <1>2 DEF TypeOK, IdleOK, InPend
  <2> QED BY <2>1, <2>2
<1>5. TypeOK'
  BY <1>1, <1>2, <1>3, <1>4 DEF TypeOK
<1>6. ReadyOK' /\ (\A u \in Task : WaitOK(u)') /\ ListOK' /\ IdleOK'
  BY <1>1, <1>4, ListsFrame
<1>7. CurOK' /\ LockOK'
  BY <1>1, <1>4, FromTaskFacts DEF Inv, CurOK, LockOK, InPend
<1>8. HighestOK'
  BY <1>1, <1>2, <1>3, <1>4, FromTaskFacts DEF HighestOK
<1> QED BY <1>5, <1>6, <1>7, <1>8 DEF Inv

-----------------------------------------------------------------------------
(* The semaphore.  OS_EventTaskRdy gives some waiters their answer: they are *)
(* ready unless suspended, no longer waiting, and their timeout is off.      *)
LEMMA EventTaskRdyStep ==
    ASSUME Inv, NEW prios, prios \subseteq OSEventTbl, NEW s \in {"OK", "ABORT"},
           OS_EventTaskRdy(prios, s), OSEventCnt' = OSEventCnt,
           \A t \in Task : InPend(t)' <=> InPend(t), pc'[Idle] = "run"
    PROVE  /\ OSTCBStat' \in [Task -> SUBSET {"SEM", "SUSPEND"}]
           /\ OSTCBStatPend' \in [Task -> {"OK", "TO", "ABORT"}]
           /\ OSTCBDly' \in [Task -> Nat]
           /\ OSRdyTbl' \subseteq Prio /\ OSEventTbl' \subseteq Prio
           /\ ReadyOK' /\ (\A t \in Task : WaitOK(t)') /\ ListOK' /\ IdleOK'
<1> DEFINE Woken(t) == OSTCBPrio[t] \in prios
<1>1. /\ OSTCBDly' = [t \in Task |-> IF Woken(t) THEN 0 ELSE OSTCBDly[t]]
      /\ OSTCBStat' = [t \in Task |-> IF Woken(t) THEN OSTCBStat[t] \ {"SEM"} ELSE OSTCBStat[t]]
      /\ OSTCBStatPend' = [t \in Task |-> IF Woken(t) THEN s ELSE OSTCBStatPend[t]]
      /\ OSRdyTbl' = OSRdyTbl \cup {OSTCBPrio[t] : t \in
                         {u \in Task : Woken(u) /\ "SUSPEND" \notin OSTCBStat[u]}}
      /\ OSEventTbl' = OSEventTbl \ prios
      /\ UNCHANGED <<OSTCBPrio, OSTCBEventPtr>>
  BY DEF OS_EventTaskRdy
<1>2. TypeOK /\ ReadyOK /\ ListOK /\ IdleOK /\ Idle \in Task
  BY KernelAssumption DEF Inv
<1>3. ASSUME NEW t \in Task
      PROVE  /\ OSTCBStat[t] \subseteq {"SEM", "SUSPEND"} /\ OSTCBDly[t] \in Nat
             /\ OSTCBStatPend[t] \in {"OK", "TO", "ABORT"} /\ OSTCBPrio[t] \in Prio
             /\ OSTCBPrio'[t] = OSTCBPrio[t] /\ OSTCBEventPtr'[t] = OSTCBEventPtr[t]
             /\ Woken(t) => /\ OSTCBDly'[t] = 0 /\ OSTCBStat'[t] = OSTCBStat[t] \ {"SEM"}
                            /\ OSTCBStatPend'[t] = s
             /\ ~Woken(t) => /\ OSTCBDly'[t] = OSTCBDly[t] /\ OSTCBStat'[t] = OSTCBStat[t]
                             /\ OSTCBStatPend'[t] = OSTCBStatPend[t]
             /\ WaitOK(t)
  BY <1>1, <1>2, TaskValues DEF TypeOK, Inv
<1>4. /\ OSTCBStat' \in [Task -> SUBSET {"SEM", "SUSPEND"}]
      /\ OSTCBStatPend' \in [Task -> {"OK", "TO", "ABORT"}]
      /\ OSTCBDly' \in [Task -> Nat]
  <2>1. OSTCBDly' \in [Task -> Nat]
    BY <1>1, <1>3
  <2>2. OSTCBStatPend' \in [Task -> {"OK", "TO", "ABORT"}]
    BY <1>1, <1>3
  <2>3. OSTCBStat' \in [Task -> SUBSET {"SEM", "SUSPEND"}]
    BY <1>1, <1>3
  <2> QED BY <2>1, <2>2, <2>3
<1>5. OSRdyTbl' \subseteq Prio /\ OSEventTbl' \subseteq Prio
  BY <1>1, <1>2, <1>3 DEF TypeOK
<1>6. ReadyOK'
  <2>1. ASSUME NEW t \in Task
        PROVE  OSTCBPrio'[t] \in OSRdyTbl' <=> OSTCBStat'[t] = {} /\ OSTCBDly'[t] = 0
    <3>1. OSTCBPrio[t] \in OSRdyTbl <=> OSTCBStat[t] = {} /\ OSTCBDly[t] = 0
      BY <1>2 DEF ReadyOK
    <3>2. OSTCBPrio[t] \in OSRdyTbl' <=>
             OSTCBPrio[t] \in OSRdyTbl \/ (Woken(t) /\ "SUSPEND" \notin OSTCBStat[t])
      BY <1>1, <1>2 DEF TypeOK
    <3>3. CASE Woken(t)
      BY <1>3, <3>1, <3>2, <3>3
    <3>4. CASE ~Woken(t)
      BY <1>3, <3>1, <3>2, <3>4
    <3> QED BY <3>3, <3>4
  <2>2. ASSUME NEW p \in OSRdyTbl' PROVE \E t \in Task : OSTCBPrio'[t] = p
    BY <1>1, <1>2 DEF ReadyOK
  <2> QED BY <2>1, <2>2 DEF ReadyOK
<1>7. ASSUME NEW t \in Task PROVE WaitOK(t)'
  <2>1. InPend(t)' <=> InPend(t)
    OBVIOUS
  <2>2. OSTCBPrio[t] \in OSEventTbl' <=> OSTCBPrio[t] \in OSEventTbl /\ ~Woken(t)
    BY <1>1
  <2>3. CASE Woken(t)
    BY <1>3, <2>1, <2>2, <2>3 DEF WaitOK
  <2>4. CASE ~Woken(t)
    BY <1>3, <2>1, <2>2, <2>4 DEF WaitOK
  <2> QED BY <2>3, <2>4
<1>8. ListOK'
  BY <1>1, <1>2 DEF ListOK
<1>9. IdleOK'
  <2>1. ~Woken(Idle)
    BY <1>2, <1>3 DEF WaitOK, IdleOK, InPend
  <2> QED BY <2>1, <1>2, <1>3 DEF IdleOK
<1> QED BY <1>4, <1>5, <1>6, <1>7, <1>8, <1>9

LEMMA FirstWaiter ==
    ASSUME TypeOK, OSEventTbl # {}
    PROVE  {First(OSEventTbl)} \subseteq OSEventTbl
BY FirstIsLeast, PrioNat DEF TypeOK

(* A post or an abort that ends a wait, then OS_Sched.                       *)
LEMMA WakeInv ==
    ASSUME Inv, Calling, NEW prios, prios \subseteq OSEventTbl, NEW s \in {"OK", "ABORT"},
           OS_EventTaskRdy(prios, s), ThenSched, UNCHANGED <<OSEventCnt, switch, nesting, perr>>
    PROVE  Inv'
<1>1. /\ pc' \in [Task -> {"run", "sched", "schedPend", "woken"}]
      /\ \A t \in Task : InPend(t)' <=> InPend(t)
      /\ pc'[Idle] = "run"
  BY ThenSchedStep
<1>2. /\ OSTCBStat' \in [Task -> SUBSET {"SEM", "SUSPEND"}]
      /\ OSTCBStatPend' \in [Task -> {"OK", "TO", "ABORT"}]
      /\ OSTCBDly' \in [Task -> Nat]
      /\ OSRdyTbl' \subseteq Prio /\ OSEventTbl' \subseteq Prio
      /\ ReadyOK' /\ (\A t \in Task : WaitOK(t)') /\ ListOK' /\ IdleOK'
  BY <1>1, EventTaskRdyStep
<1>3. UNCHANGED <<OSTCBPrio, OSTCBEventPtr, OSEventCnt, OSPrioCur, OSTCBCur, OSPrioHighRdy,
                  OSTCBHighRdy, PENDSVSET, OSIntNesting, OSLockNesting, tick, visit, perr>>
  BY DEF OS_EventTaskRdy, switch, nesting
<1>4. TypeOK'
  BY <1>1, <1>2, <1>3 DEF Inv, TypeOK
<1>5. CurOK' /\ LockOK' /\ HighestOK'
  <2>1. UNCHANGED <<OSTCBPrio, switch, nesting>>
    BY <1>3
  <2> QED BY <2>1, ServiceFrame
<1> QED BY <1>2, <1>4, <1>5 DEF Inv

(* A service that only changes the count.                                    *)
LEMMA CountInv ==
    ASSUME Inv, Calling, OSEventCnt' \in Nat, OSEventTbl # {} => OSEventCnt' = 0,
           UNCHANGED <<tcb, OSRdyTbl, OSEventTbl, switch, nesting, pc>>,
           perr' \in {"NONE", "TIMEOUT", "ABORT"}
    PROVE  Inv'
<1>1. UNCHANGED <<OSTCBPrio, OSTCBStat, OSTCBStatPend, OSTCBDly, OSTCBEventPtr, OSRdyTbl,
                  OSEventTbl, OSPrioCur, OSTCBCur, OSPrioHighRdy, OSTCBHighRdy, PENDSVSET,
                  OSIntNesting, OSLockNesting, tick, visit, pc>>
  BY DEF tcb, switch, nesting
<1>2. TypeOK'
  BY <1>1 DEF Inv, TypeOK
<1>3. ReadyOK' /\ (\A t \in Task : WaitOK(t)') /\ ListOK' /\ IdleOK'
  BY <1>1 DEF Inv, ReadyOK, WaitOK, ListOK, IdleOK, InPend
<1>4. CurOK' /\ LockOK' /\ HighestOK'
  <2>1. UNCHANGED <<OSTCBPrio, switch, nesting>> /\ UNCHANGED pc
    BY <1>1
  <2>2. IsHighest(OSTCBCur) => IsHighest(OSTCBCur)'
    BY <1>1 DEF IsHighest
  <2> QED BY <2>1, <2>2, ServiceFrame
<1> QED BY <1>2, <1>3, <1>4 DEF Inv

LEMMA PostInv == ASSUME Inv, OSSemPost PROVE Inv'
<1>1. CASE OSEventTbl # {}
  <2>1. /\ Calling /\ OS_EventTaskRdy({First(OSEventTbl)}, "OK") /\ ThenSched
        /\ UNCHANGED <<OSEventCnt, switch, nesting, perr>>
    BY <1>1 DEF OSSemPost
  <2>2. {First(OSEventTbl)} \subseteq OSEventTbl
    BY <1>1, FirstWaiter DEF Inv
  <2> QED BY <2>1, <2>2, WakeInv
<1>2. CASE OSEventTbl = {}
  BY <1>2, CountInv DEF OSSemPost, Inv, TypeOK
<1> QED BY <1>1, <1>2

LEMMA AbortInv == ASSUME Inv, OSSemPendAbort PROVE Inv'
<1>1. PICK prios \in {OSEventTbl, {First(OSEventTbl)}} : OS_EventTaskRdy(prios, "ABORT")
  BY DEF OSSemPendAbort
<1>2. prios \subseteq OSEventTbl
  BY <1>1, FirstWaiter DEF Inv, OSSemPendAbort
<1> QED BY <1>1, <1>2, WakeInv DEF OSSemPendAbort

LEMMA AcceptInv == ASSUME Inv, OSSemAccept PROVE Inv'
<1>1. OSEventCnt' \in Nat /\ OSEventTbl = {}
  BY DEF OSSemAccept, Inv, TypeOK, ListOK
<1> QED BY <1>1, CountInv DEF OSSemAccept, Inv, TypeOK

LEMMA SetInv == ASSUME Inv, NEW cnt \in {0, 1}, OSSemSet(cnt) PROVE Inv'
<1>1. OSEventCnt' \in Nat /\ OSEventTbl = {}
  BY DEF OSSemSet, Inv, TypeOK, ListOK
<1> QED BY <1>1, CountInv DEF OSSemSet, Inv, TypeOK

LEMMA TakesInv == ASSUME Inv, OSSemPendTakes PROVE Inv'
<1>1. OSEventCnt' \in Nat /\ OSEventTbl = {} /\ Calling
  BY DEF OSSemPendTakes, Inv, TypeOK, ListOK, Calling
<1> QED BY <1>1, CountInv DEF OSSemPendTakes

LEMMA PendInv == ASSUME Inv, NEW timeout \in Ticks \cup {0}, OSSemPend(timeout) PROVE Inv'
<1> DEFINE t == OSTCBCur
<1>1. /\ FromTask /\ OSLockNesting = 0 /\ OSEventCnt = 0
      /\ OSTCBStat' = [OSTCBStat EXCEPT ![t] = @ \cup {"SEM"}]
      /\ OSTCBStatPend' = [OSTCBStatPend EXCEPT ![t] = "OK"]
      /\ OSTCBDly' = [OSTCBDly EXCEPT ![t] = timeout]
      /\ OSTCBEventPtr' = [OSTCBEventPtr EXCEPT ![t] = TRUE]
      /\ OSEventTbl' = OSEventTbl \cup {OSTCBPrio[t]}
      /\ OSRdyTbl' = OSRdyTbl \ {OSTCBPrio[t]}
      /\ pc' = [pc EXCEPT ![t] = "schedPend"]
      /\ UNCHANGED <<OSTCBPrio, OSEventCnt, OSPrioCur, OSTCBCur, OSPrioHighRdy, OSTCBHighRdy,
                     PENDSVSET, OSIntNesting, OSLockNesting, tick, visit, perr>>
  BY DEF OSSemPend, switch, nesting
<1>2. TypeOK /\ ReadyOK /\ ListOK /\ IdleOK /\ Idle \in Task
  BY KernelAssumption DEF Inv
<1>3. /\ OSIntNesting = 0 /\ ~PENDSVSET /\ pc[t] = "run" /\ t \in Task /\ t # Idle
  BY <1>1, FromTaskFacts
<1> HIDE DEF t
<1>4. timeout \in Nat
  BY KernelAssumption
<1>5. /\ OSTCBStat'[t] = OSTCBStat[t] \cup {"SEM"} /\ OSTCBStatPend'[t] = "OK"
      /\ OSTCBEventPtr'[t] /\ pc'[t] = "schedPend"
  BY <1>1, <1>2, <1>3 DEF TypeOK
<1>6. ASSUME NEW u \in Task, u # t
      PROVE  /\ OSTCBStat'[u] = OSTCBStat[u] /\ OSTCBStatPend'[u] = OSTCBStatPend[u]
             /\ OSTCBDly'[u] = OSTCBDly[u] /\ OSTCBEventPtr'[u] = OSTCBEventPtr[u]
             /\ pc'[u] = pc[u] /\ OSTCBPrio[u] # OSTCBPrio[t] /\ WaitOK(u)
  BY <1>1, <1>2, <1>3, <1>6 DEF TypeOK, Inv
<1>7. TypeOK'
  <2>1. OSTCBPrio[t] \in Prio /\ OSTCBStat[t] \subseteq {"SEM", "SUSPEND"}
    BY <1>2, <1>3, TaskValues
  <2>2. OSTCBStat' \in [Task -> SUBSET {"SEM", "SUSPEND"}]
    <3>1. OSTCBStat[t] \cup {"SEM"} \in SUBSET {"SEM", "SUSPEND"}
      BY <2>1
    <3> QED BY <1>1, <1>2, <3>1 DEF TypeOK
  <2>3. OSTCBStatPend' \in [Task -> {"OK", "TO", "ABORT"}]
    BY <1>1, <1>2 DEF TypeOK
  <2>4. OSTCBDly' \in [Task -> Nat]
    BY <1>1, <1>2, <1>4 DEF TypeOK
  <2>5. OSTCBEventPtr' \in [Task -> BOOLEAN]
    BY <1>1, <1>2 DEF TypeOK
  <2>6. pc' \in [Task -> {"run", "sched", "schedPend", "woken"}]
    BY <1>1, <1>2 DEF TypeOK
  <2>7. OSRdyTbl' \subseteq Prio /\ OSEventTbl' \subseteq Prio
    BY <1>1, <1>2, <2>1 DEF TypeOK
  <2> QED BY <1>1, <1>2, <2>2, <2>3, <2>4, <2>5, <2>6, <2>7 DEF TypeOK
<1>8. ReadyOK'
  <2>1. ASSUME NEW u \in Task
        PROVE  OSTCBPrio'[u] \in OSRdyTbl' <=> OSTCBStat'[u] = {} /\ OSTCBDly'[u] = 0
    <3>1. CASE u = t
      BY <1>1, <1>5, <3>1
    <3>2. CASE u # t
      BY <1>1, <1>2, <1>6, <3>2 DEF ReadyOK
    <3> QED BY <3>1, <3>2
  <2> QED BY <1>1, <1>2, <2>1 DEF ReadyOK
<1>9. ASSUME NEW u \in Task PROVE WaitOK(u)'
  <2>1. CASE u = t
    BY <1>1, <1>5, <2>1 DEF WaitOK, InPend
  <2>2. CASE u # t
    BY <1>1, <1>6, <2>2 DEF WaitOK, InPend
  <2> QED BY <2>1, <2>2
<1>10. ListOK' /\ IdleOK'
  BY <1>1, <1>2, <1>3, <1>6 DEF ListOK, IdleOK
<1>11. CurOK' /\ LockOK' /\ HighestOK'
  BY <1>1, <1>3, <1>5 DEF Inv, CurOK, LockOK, HighestOK, t
<1> QED BY <1>7, <1>8, <1>9, <1>10, <1>11 DEF Inv

(* A task that runs in OSSemPend is the highest, so it is ready.             *)
LEMMA ReturningFacts ==
    ASSUME Inv, NEW t \in User, Running(t), pc[t] = "woken"
    PROVE  /\ t \in Task /\ t # Idle /\ t = OSTCBCur
           /\ OSIntNesting = 0 /\ OSLockNesting = 0 /\ ~PENDSVSET
           /\ IsHighest(t) /\ OSTCBStat[t] = {} /\ OSTCBDly[t] = 0
           /\ OSTCBPrio[t] \in OSEventTbl <=> OSTCBStatPend[t] = "TO"
<1>1. t \in Task /\ t # Idle /\ t = OSTCBCur /\ OSIntNesting = 0 /\ ~PENDSVSET
  BY DEF Running, User
<1>2. InPend(t)
  BY DEF InPend
<1>3. OSLockNesting = 0
  BY <1>1, <1>2, KernelAssumption DEF Inv, LockOK, TypeOK
<1>4. IsHighest(t)
  BY <1>1, <1>3 DEF Inv, HighestOK
<1>5. OSTCBStat[t] = {} /\ OSTCBDly[t] = 0
  BY <1>1, <1>4 DEF Inv, ReadyOK, IsHighest
<1>6. OSTCBPrio[t] \in OSEventTbl <=> OSTCBStatPend[t] = "TO"
  <2>1. WaitOK(t)
    BY <1>1 DEF Inv
  <2> QED BY <1>2, <1>5, <2>1 DEF WaitOK
<1> QED BY <1>1, <1>3, <1>4, <1>5, <1>6

LEMMA PendReturnsInv == ASSUME Inv, NEW t \in User, OSSemPendReturns(t) PROVE Inv'
<1>1. /\ Running(t) /\ pc[t] = "woken"
      /\ OSEventTbl' = IF OSTCBStatPend[t] = "TO" THEN OSEventTbl \ {OSTCBPrio[t]}
                       ELSE OSEventTbl
      /\ OSTCBStat' = [OSTCBStat EXCEPT ![t] = {}]
      /\ OSTCBStatPend' = [OSTCBStatPend EXCEPT ![t] = "OK"]
      /\ OSTCBEventPtr' = [OSTCBEventPtr EXCEPT ![t] = FALSE]
      /\ pc' = [pc EXCEPT ![t] = "run"]
      /\ UNCHANGED <<OSTCBPrio, OSTCBDly, OSRdyTbl, OSEventCnt, OSPrioCur, OSTCBCur,
                     OSPrioHighRdy, OSTCBHighRdy, PENDSVSET, OSIntNesting, OSLockNesting,
                     tick, visit>>
  BY DEF OSSemPendReturns, switch, nesting
<1>2. perr' \in {"NONE", "TIMEOUT", "ABORT"}
  BY DEF OSSemPendReturns
<1>3. TypeOK /\ ReadyOK /\ ListOK /\ IdleOK /\ Idle \in Task
  BY KernelAssumption DEF Inv
<1>4. /\ t \in Task /\ t # Idle /\ t = OSTCBCur
      /\ OSIntNesting = 0 /\ OSLockNesting = 0 /\ ~PENDSVSET
      /\ IsHighest(t) /\ OSTCBStat[t] = {} /\ OSTCBDly[t] = 0
      /\ OSTCBPrio[t] \in OSEventTbl <=> OSTCBStatPend[t] = "TO"
  BY <1>1, ReturningFacts
<1>5. OSTCBStat'[t] = {} /\ ~OSTCBEventPtr'[t] /\ pc'[t] = "run"
  BY <1>1, <1>3, <1>4 DEF TypeOK
<1>6. ASSUME NEW u \in Task, u # t
      PROVE  /\ OSTCBStat'[u] = OSTCBStat[u] /\ OSTCBStatPend'[u] = OSTCBStatPend[u]
             /\ OSTCBEventPtr'[u] = OSTCBEventPtr[u]
             /\ pc'[u] = pc[u] /\ OSTCBPrio[u] # OSTCBPrio[t] /\ WaitOK(u)
  BY <1>1, <1>3, <1>4, <1>6 DEF TypeOK, Inv
<1>7. TypeOK'
  <2>1. OSTCBStat' \in [Task -> SUBSET {"SEM", "SUSPEND"}]
    BY <1>1, <1>3 DEF TypeOK
  <2>2. OSTCBStatPend' \in [Task -> {"OK", "TO", "ABORT"}]
    BY <1>1, <1>3 DEF TypeOK
  <2>3. OSTCBEventPtr' \in [Task -> BOOLEAN]
    BY <1>1, <1>3 DEF TypeOK
  <2>4. pc' \in [Task -> {"run", "sched", "schedPend", "woken"}]
    BY <1>1, <1>3 DEF TypeOK
  <2>5. OSEventTbl' \subseteq Prio
    BY <1>1, <1>3 DEF TypeOK
  <2> QED BY <1>1, <1>2, <1>3, <2>1, <2>2, <2>3, <2>4, <2>5 DEF TypeOK
<1>8. ReadyOK'
  <2>1. ASSUME NEW u \in Task
        PROVE  OSTCBPrio'[u] \in OSRdyTbl' <=> OSTCBStat'[u] = {} /\ OSTCBDly'[u] = 0
    BY <1>1, <1>3, <1>4, <1>5, <1>6 DEF ReadyOK
  <2> QED BY <1>1, <1>3, <2>1 DEF ReadyOK
<1>9. ASSUME NEW u \in Task PROVE WaitOK(u)'
  <2>1. CASE u = t
    BY <1>1, <1>4, <1>5, <2>1 DEF WaitOK, InPend
  <2>2. CASE u # t
    BY <1>1, <1>6, <2>2 DEF WaitOK, InPend
  <2> QED BY <2>1, <2>2
<1>10. ListOK' /\ IdleOK'
  BY <1>1, <1>3, <1>4, <1>6 DEF ListOK, IdleOK
<1>11. CurOK' /\ LockOK' /\ HighestOK'
  BY <1>1, <1>4 DEF Inv, CurOK, LockOK, HighestOK, IsHighest
<1> QED BY <1>7, <1>8, <1>9, <1>10, <1>11 DEF Inv

-----------------------------------------------------------------------------
(* Delays and suspension: one task changes, all priorities and the wait list *)
(* stay.  What is left to show is the new state of that task.                *)
LEMMA OneTask ==
    ASSUME Inv, NEW t \in Task, t # Idle,
           UNCHANGED <<OSTCBPrio, OSTCBEventPtr, OSEventTbl, OSEventCnt>>,
           \A u \in Task : InPend(u)' <=> InPend(u), pc'[Idle] = "run",
           \A u \in Task : u # t => /\ OSTCBStat'[u] = OSTCBStat[u] /\ OSTCBDly'[u] = OSTCBDly[u]
                                    /\ OSTCBStatPend'[u] = OSTCBStatPend[u],
           OSRdyTbl' \in {OSRdyTbl, OSRdyTbl \cup {OSTCBPrio[t]}, OSRdyTbl \ {OSTCBPrio[t]}},
           OSTCBPrio[t] \in OSRdyTbl' <=> OSTCBStat'[t] = {} /\ OSTCBDly'[t] = 0,
           "SEM" \in OSTCBStat'[t] => "SEM" \in OSTCBStat[t],
           InPend(t) /\ "SEM" \notin OSTCBStat'[t] =>
              /\ OSTCBDly'[t] = 0
              /\ OSTCBPrio[t] \in OSEventTbl <=> OSTCBStatPend'[t] = "TO"
    PROVE  ReadyOK' /\ (\A u \in Task : WaitOK(u)') /\ ListOK' /\ IdleOK'
<1>1. ReadyOK /\ ListOK /\ IdleOK /\ TypeOK /\ Idle \in Task /\ OSTCBPrio' = OSTCBPrio
  BY KernelAssumption DEF Inv
<1>2. ReadyOK'
  <2>1. ASSUME NEW u \in Task, u # t
        PROVE  OSTCBPrio[u] \in OSRdyTbl' <=> OSTCBStat'[u] = {} /\ OSTCBDly'[u] = 0
    <3>1. OSTCBPrio[u] # OSTCBPrio[t]
      BY <1>1, <2>1 DEF TypeOK
    <3>2. OSTCBPrio[u] \in OSRdyTbl' <=> OSTCBPrio[u] \in OSRdyTbl
      BY <3>1
    <3> QED BY <1>1, <2>1, <3>2 DEF ReadyOK
  <2>2. ASSUME NEW p \in OSRdyTbl' PROVE \E u \in Task : OSTCBPrio[u] = p
    BY <1>1 DEF ReadyOK
  <2> QED BY <1>1, <2>1, <2>2 DEF ReadyOK
<1>3. ASSUME NEW u \in Task PROVE WaitOK(u)'
  <2>1. WaitOK(u) /\ (InPend(u)' <=> InPend(u))
    BY DEF Inv
  <2>2. OSTCBEventPtr'[u] = OSTCBEventPtr[u] /\ OSEventTbl' = OSEventTbl
    OBVIOUS
  <2>3. CASE u = t
    BY <1>1, <2>1, <2>2, <2>3 DEF WaitOK
  <2>4. CASE u # t
    BY <1>1, <2>1, <2>2, <2>4 DEF WaitOK
  <2> QED BY <2>3, <2>4
<1>4. ListOK' /\ IdleOK'
  BY <1>1 DEF ListOK, IdleOK
<1> QED BY <1>2, <1>3, <1>4

(* A timeout runs out, or a delay: by a tick or by OSTimeDlyResume.          *)
LEMMA TimeoutStep ==
    ASSUME Inv, NEW t \in User, OSTCBDly[t] # 0,
           UNCHANGED <<OSTCBPrio, OSTCBEventPtr, OSEventTbl, OSEventCnt>>,
           \A u \in Task : InPend(u)' <=> InPend(u), pc'[Idle] = "run",
           OSTCBDly' = [OSTCBDly EXCEPT ![t] = 0],
           OSTCBStat' = [OSTCBStat EXCEPT ![t] = @ \ {"SEM"}],
           OSTCBStatPend' = [OSTCBStatPend EXCEPT
               ![t] = IF "SEM" \in OSTCBStat[t] THEN "TO" ELSE "OK"],
           OSRdyTbl' = IF "SUSPEND" \in OSTCBStat[t] THEN OSRdyTbl
                       ELSE OSRdyTbl \cup {OSTCBPrio[t]}
    PROVE  /\ OSTCBStat' \in [Task -> SUBSET {"SEM", "SUSPEND"}]
           /\ OSTCBStatPend' \in [Task -> {"OK", "TO", "ABORT"}]
           /\ OSTCBDly' \in [Task -> Nat] /\ OSRdyTbl' \subseteq Prio
           /\ ReadyOK' /\ (\A u \in Task : WaitOK(u)') /\ ListOK' /\ IdleOK'
<1>1. TypeOK /\ ReadyOK /\ t \in Task /\ t # Idle
  BY DEF Inv, User
<1>2. /\ OSTCBPrio[t] \in Prio /\ OSTCBStat[t] \subseteq {"SEM", "SUSPEND"}
      /\ OSTCBPrio[t] \notin OSRdyTbl /\ WaitOK(t)
  BY <1>1, TaskValues DEF ReadyOK, Inv
<1>3. /\ OSTCBDly'[t] = 0 /\ OSTCBStat'[t] = OSTCBStat[t] \ {"SEM"}
      /\ OSTCBStatPend'[t] = IF "SEM" \in OSTCBStat[t] THEN "TO" ELSE "OK"
  BY <1>1 DEF TypeOK
<1>4. \A u \in Task : u # t => /\ OSTCBStat'[u] = OSTCBStat[u] /\ OSTCBDly'[u] = OSTCBDly[u]
                               /\ OSTCBStatPend'[u] = OSTCBStatPend[u]
  BY <1>1 DEF TypeOK
<1>5. OSTCBStat' \in [Task -> SUBSET {"SEM", "SUSPEND"}]
  <2>1. OSTCBStat[t] \ {"SEM"} \in SUBSET {"SEM", "SUSPEND"}
    BY <1>2
  <2> QED BY <1>1, <2>1 DEF TypeOK
<1>6. OSTCBStatPend' \in [Task -> {"OK", "TO", "ABORT"}]
  BY <1>1 DEF TypeOK
<1>7. OSTCBDly' \in [Task -> Nat] /\ OSRdyTbl' \subseteq Prio
  BY <1>1, <1>2 DEF TypeOK
<1>8. OSTCBPrio[t] \in OSRdyTbl' <=> OSTCBStat'[t] = {} /\ OSTCBDly'[t] = 0
  BY <1>2, <1>3
<1>9. InPend(t) /\ "SEM" \notin OSTCBStat'[t] =>
         /\ OSTCBDly'[t] = 0
         /\ OSTCBPrio[t] \in OSEventTbl <=> OSTCBStatPend'[t] = "TO"
  BY <1>2, <1>3 DEF WaitOK
<1>10. "SEM" \in OSTCBStat'[t] => "SEM" \in OSTCBStat[t]
  BY <1>3
<1>11. OSRdyTbl' \in {OSRdyTbl, OSRdyTbl \cup {OSTCBPrio[t]}, OSRdyTbl \ {OSTCBPrio[t]}}
  OBVIOUS
<1>12. ReadyOK' /\ (\A u \in Task : WaitOK(u)') /\ ListOK' /\ IdleOK'
  BY <1>1, <1>4, <1>8, <1>9, <1>10, <1>11, OneTask
<1> QED BY <1>5, <1>6, <1>7, <1>12

LEMMA TimeTickInv == ASSUME Inv, NEW t \in User, OSTimeTick(t) PROVE Inv'
<1>1. /\ OSIntNesting = 1 /\ visit' = visit \ {t}
      /\ OSTCBDly' = [OSTCBDly EXCEPT ![t] = IF @ = 0 THEN 0 ELSE @ - 1]
      /\ IF OSTCBDly[t] # 1 THEN UNCHANGED <<OSTCBStat, OSTCBStatPend, OSRdyTbl>>
         ELSE /\ OSTCBStat' = [OSTCBStat EXCEPT ![t] = @ \ {"SEM"}]
              /\ OSTCBStatPend' = [OSTCBStatPend EXCEPT
                     ![t] = IF "SEM" \in OSTCBStat[t] THEN "TO" ELSE "OK"]
              /\ OSRdyTbl' = IF "SUSPEND" \in OSTCBStat[t] THEN OSRdyTbl
                             ELSE OSRdyTbl \cup {OSTCBPrio[t]}
      /\ UNCHANGED <<OSTCBPrio, OSTCBEventPtr, OSEventTbl, OSEventCnt, OSPrioCur, OSTCBCur,
                     OSPrioHighRdy, OSTCBHighRdy, PENDSVSET, OSIntNesting, OSLockNesting,
                     tick, pc, perr>>
  BY DEF OSTimeTick, InTick, event, switch
<1>2. TypeOK /\ ReadyOK /\ IdleOK /\ t \in Task /\ t # Idle /\ OSTCBDly[t] \in Nat /\ WaitOK(t)
  BY DEF Inv, User, TypeOK
<1>3. (\A u \in Task : InPend(u)' <=> InPend(u)) /\ pc'[Idle] = "run"
  BY <1>1, <1>2 DEF InPend, IdleOK
<1>4. /\ OSTCBStat' \in [Task -> SUBSET {"SEM", "SUSPEND"}]
      /\ OSTCBStatPend' \in [Task -> {"OK", "TO", "ABORT"}]
      /\ OSTCBDly' \in [Task -> Nat] /\ OSRdyTbl' \subseteq Prio
      /\ ReadyOK' /\ (\A u \in Task : WaitOK(u)') /\ ListOK' /\ IdleOK'
  <2>1. CASE OSTCBDly[t] = 1
    <3>1. OSTCBDly' = [OSTCBDly EXCEPT ![t] = 0]
      BY <1>1, <1>2, <2>1 DEF TypeOK
    <3>2. /\ OSTCBStat' = [OSTCBStat EXCEPT ![t] = @ \ {"SEM"}]
          /\ OSTCBStatPend' = [OSTCBStatPend EXCEPT
                 ![t] = IF "SEM" \in OSTCBStat[t] THEN "TO" ELSE "OK"]
          /\ OSRdyTbl' = IF "SUSPEND" \in OSTCBStat[t] THEN OSRdyTbl
                         ELSE OSRdyTbl \cup {OSTCBPrio[t]}
      BY <1>1, <2>1
    <3>3. OSTCBDly[t] # 0 /\ UNCHANGED <<OSTCBPrio, OSTCBEventPtr, OSEventTbl, OSEventCnt>>
      BY <1>1, <2>1
    <3> QED BY <1>3, <3>1, <3>2, <3>3, TimeoutStep
  <2>2. CASE OSTCBDly[t] # 1
    <3>1. UNCHANGED <<OSTCBStat, OSTCBStatPend, OSRdyTbl>>
      BY <1>1, <2>2
    <3>2. /\ \A u \in Task : u # t => OSTCBDly'[u] = OSTCBDly[u]
          /\ OSTCBDly' \in [Task -> Nat]
      BY <1>1, <1>2 DEF TypeOK
    <3>3. OSTCBDly'[t] \in Nat /\ (OSTCBDly'[t] = 0 <=> OSTCBDly[t] = 0)
      BY <1>1, <1>2, <2>2 DEF TypeOK
    <3>4. OSTCBPrio[t] \in OSRdyTbl' <=> OSTCBStat'[t] = {} /\ OSTCBDly'[t] = 0
      BY <1>2, <3>1, <3>3 DEF ReadyOK
    <3>5. InPend(t) /\ "SEM" \notin OSTCBStat'[t] =>
             /\ OSTCBDly'[t] = 0
             /\ OSTCBPrio[t] \in OSEventTbl <=> OSTCBStatPend'[t] = "TO"
      BY <1>2, <3>1, <3>3 DEF WaitOK
    <3>6. ReadyOK' /\ (\A u \in Task : WaitOK(u)') /\ ListOK' /\ IdleOK'
      BY <1>1, <1>2, <1>3, <3>1, <3>2, <3>4, <3>5, OneTask
    <3> QED BY <1>2, <3>1, <3>2, <3>6 DEF TypeOK
  <2> QED BY <2>1, <2>2
<1>5. TypeOK'
  BY <1>1, <1>2, <1>4 DEF TypeOK
<1>6. CurOK' /\ LockOK' /\ HighestOK'
  BY <1>1 DEF Inv, CurOK, LockOK, HighestOK, InPend
<1> QED BY <1>4, <1>5, <1>6 DEF Inv

LEMMA DlyResumeInv == ASSUME Inv, NEW t \in User, OSTimeDlyResume(t) PROVE Inv'
<1>1. /\ Calling /\ OSTCBDly[t] # 0
      /\ OSTCBDly' = [OSTCBDly EXCEPT ![t] = 0]
      /\ OSTCBStat' = [OSTCBStat EXCEPT ![t] = @ \ {"SEM"}]
      /\ OSTCBStatPend' = [OSTCBStatPend EXCEPT
             ![t] = IF "SEM" \in OSTCBStat[t] THEN "TO" ELSE "OK"]
      /\ OSRdyTbl' = IF "SUSPEND" \in OSTCBStat[t] THEN OSRdyTbl
                     ELSE OSRdyTbl \cup {OSTCBPrio[t]}
      /\ ThenSched \/ (UNCHANGED pc /\ OSRdyTbl' = OSRdyTbl)
      /\ UNCHANGED <<OSTCBPrio, OSTCBEventPtr, OSEventTbl, OSEventCnt, OSPrioCur, OSTCBCur,
                     OSPrioHighRdy, OSTCBHighRdy, PENDSVSET, OSIntNesting, OSLockNesting,
                     tick, visit, perr>>
      /\ UNCHANGED <<switch, nesting>>
  BY DEF OSTimeDlyResume, event, switch, nesting
<1>2. TypeOK /\ IdleOK
  BY DEF Inv
<1>3. /\ pc' \in [Task -> {"run", "sched", "schedPend", "woken"}]
      /\ \A u \in Task : InPend(u)' <=> InPend(u)
      /\ pc'[Idle] = "run"
  <2>1. CASE ThenSched
    BY <1>1, <2>1, ThenSchedStep
  <2>2. CASE UNCHANGED pc
    BY <1>2, <2>2 DEF TypeOK, IdleOK, InPend
  <2> QED BY <1>1, <2>1, <2>2
<1>4. /\ OSTCBStat' \in [Task -> SUBSET {"SEM", "SUSPEND"}]
      /\ OSTCBStatPend' \in [Task -> {"OK", "TO", "ABORT"}]
      /\ OSTCBDly' \in [Task -> Nat] /\ OSRdyTbl' \subseteq Prio
      /\ ReadyOK' /\ (\A u \in Task : WaitOK(u)') /\ ListOK' /\ IdleOK'
  BY <1>1, <1>3, TimeoutStep
<1>5. TypeOK'
  BY <1>1, <1>2, <1>3, <1>4 DEF TypeOK
<1>6. CurOK' /\ LockOK' /\ HighestOK'
  <2>1. OSRdyTbl' = OSRdyTbl => (IsHighest(OSTCBCur) => IsHighest(OSTCBCur)')
    BY <1>1 DEF IsHighest
  <2> QED BY <1>1, <2>1, ServiceFrame
<1> QED BY <1>4, <1>5, <1>6 DEF Inv

LEMMA TimeDlyInv == ASSUME Inv, NEW ticks \in Ticks, OSTimeDly(ticks) PROVE Inv'
<1> DEFINE t == OSTCBCur
<1>1. /\ FromTask /\ ThenSched /\ Calling
      /\ OSRdyTbl' = OSRdyTbl \ {OSTCBPrio[t]}
      /\ OSTCBDly' = [OSTCBDly EXCEPT ![t] = ticks]
      /\ UNCHANGED <<OSTCBPrio, OSTCBStat, OSTCBStatPend, OSTCBEventPtr, OSEventTbl, OSEventCnt,
                     OSPrioCur, OSTCBCur, OSPrioHighRdy, OSTCBHighRdy, PENDSVSET,
                     OSIntNesting, OSLockNesting, tick, visit, perr>>
      /\ UNCHANGED <<switch, nesting>>
  BY DEF OSTimeDly, Calling, event, switch, nesting
<1>2. TypeOK /\ ReadyOK
  BY DEF Inv
<1>3. t \in Task /\ t # Idle /\ pc[t] = "run"
  BY <1>1, FromTaskFacts
<1> HIDE DEF t
<1>4. ticks \in Nat /\ ticks # 0
  BY KernelAssumption
<1>5. /\ pc' \in [Task -> {"run", "sched", "schedPend", "woken"}]
      /\ \A u \in Task : InPend(u)' <=> InPend(u)
      /\ pc'[Idle] = "run"
  BY <1>1, ThenSchedStep
<1>6. /\ OSTCBDly'[t] = ticks /\ OSTCBDly' \in [Task -> Nat]
      /\ \A u \in Task : u # t => OSTCBDly'[u] = OSTCBDly[u]
  BY <1>1, <1>2, <1>3, <1>4 DEF TypeOK
<1>7. ~InPend(t)
  BY <1>3 DEF InPend
<1>8. ReadyOK' /\ (\A u \in Task : WaitOK(u)') /\ ListOK' /\ IdleOK'
  <2>1. OSTCBPrio[t] \in OSRdyTbl' <=> OSTCBStat'[t] = {} /\ OSTCBDly'[t] = 0
    BY <1>1, <1>4, <1>6
  <2> QED BY <1>1, <1>3, <1>5, <1>6, <1>7, <2>1, OneTask
<1>9. TypeOK'
  BY <1>1, <1>2, <1>5, <1>6 DEF TypeOK
<1>10. CurOK' /\ LockOK' /\ HighestOK'
  BY <1>1, ServiceFrame
<1> QED BY <1>8, <1>9, <1>10 DEF Inv

LEMMA SuspendInv == ASSUME Inv, NEW t \in User, OSTaskSuspend(t) PROVE Inv'
<1>1. /\ Calling
      /\ OSRdyTbl' = OSRdyTbl \ {OSTCBPrio[t]}
      /\ OSTCBStat' = [OSTCBStat EXCEPT ![t] = @ \cup {"SUSPEND"}]
      /\ IF t = OSTCBCur THEN ThenSched ELSE UNCHANGED pc
      /\ UNCHANGED <<OSTCBPrio, OSTCBStatPend, OSTCBDly, OSTCBEventPtr, OSEventTbl, OSEventCnt,
                     OSPrioCur, OSTCBCur, OSPrioHighRdy, OSTCBHighRdy, PENDSVSET,
                     OSIntNesting, OSLockNesting, tick, visit, perr>>
      /\ UNCHANGED <<switch, nesting>>
  BY DEF OSTaskSuspend, event, switch, nesting
<1>2. TypeOK /\ IdleOK /\ t \in Task /\ t # Idle /\ OSTCBCur \in Task /\ WaitOK(t)
  BY DEF Inv, User, TypeOK
<1>3. /\ pc' \in [Task -> {"run", "sched", "schedPend", "woken"}]
      /\ \A u \in Task : InPend(u)' <=> InPend(u)
      /\ pc'[Idle] = "run"
  <2>1. CASE t = OSTCBCur
    BY <1>1, <2>1, ThenSchedStep
  <2>2. CASE t # OSTCBCur
    BY <1>1, <1>2, <2>2 DEF TypeOK, IdleOK, InPend
  <2> QED BY <2>1, <2>2
<1>4. /\ OSTCBStat'[t] = OSTCBStat[t] \cup {"SUSPEND"}
      /\ \A u \in Task : u # t => OSTCBStat'[u] = OSTCBStat[u]
  BY <1>1, <1>2 DEF TypeOK
<1>5. OSTCBStat' \in [Task -> SUBSET {"SEM", "SUSPEND"}]
  <2>1. OSTCBStat[t] \cup {"SUSPEND"} \in SUBSET {"SEM", "SUSPEND"}
    BY <1>2, TaskValues
  <2> QED BY <1>1, <1>2, <2>1 DEF TypeOK
<1>6. ReadyOK' /\ (\A u \in Task : WaitOK(u)') /\ ListOK' /\ IdleOK'
  <2>1. OSTCBPrio[t] \in OSRdyTbl' <=> OSTCBStat'[t] = {} /\ OSTCBDly'[t] = 0
    BY <1>1, <1>4
  <2>2. "SEM" \in OSTCBStat'[t] <=> "SEM" \in OSTCBStat[t]
    BY <1>4
  <2>3. InPend(t) /\ "SEM" \notin OSTCBStat'[t] =>
           /\ OSTCBDly'[t] = 0
           /\ OSTCBPrio[t] \in OSEventTbl <=> OSTCBStatPend'[t] = "TO"
    BY <1>1, <1>2, <2>2 DEF WaitOK
  <2> QED BY <1>1, <1>2, <1>3, <1>4, <2>1, <2>2, <2>3, OneTask
<1>7. TypeOK'
  BY <1>1, <1>2, <1>3, <1>5 DEF TypeOK
<1>8. CurOK' /\ LockOK' /\ HighestOK'
  <2>1. CASE t = OSTCBCur
    BY <1>1, <2>1, ServiceFrame
  <2>2. CASE t # OSTCBCur
    <3>1. OSTCBPrio[OSTCBCur] # OSTCBPrio[t]
      BY <1>2, <2>2 DEF TypeOK
    <3>2. IsHighest(OSTCBCur) => IsHighest(OSTCBCur)'
      BY <1>1, <3>1 DEF IsHighest
    <3> QED BY <1>1, <2>2, <3>2, ServiceFrame
  <2> QED BY <2>1, <2>2
<1> QED BY <1>6, <1>7, <1>8 DEF Inv

LEMMA ResumeInv == ASSUME Inv, NEW t \in User, OSTaskResume(t) PROVE Inv'
<1>1. /\ Calling /\ "SUSPEND" \in OSTCBStat[t]
      /\ OSTCBStat' = [OSTCBStat EXCEPT ![t] = @ \ {"SUSPEND"}]
      /\ IF OSTCBStat[t] = {"SUSPEND"} /\ OSTCBDly[t] = 0
         THEN OSRdyTbl' = OSRdyTbl \cup {OSTCBPrio[t]} /\ ThenSched
         ELSE UNCHANGED <<OSRdyTbl, pc>>
      /\ UNCHANGED <<OSTCBPrio, OSTCBStatPend, OSTCBDly, OSTCBEventPtr, OSEventTbl, OSEventCnt,
                     OSPrioCur, OSTCBCur, OSPrioHighRdy, OSTCBHighRdy, PENDSVSET,
                     OSIntNesting, OSLockNesting, tick, visit, perr>>
      /\ UNCHANGED <<switch, nesting>>
  BY DEF OSTaskResume, event, switch, nesting
<1>2. TypeOK /\ ReadyOK /\ IdleOK /\ t \in Task /\ t # Idle /\ WaitOK(t)
  BY DEF Inv, User
<1>3. OSTCBStat[t] \subseteq {"SEM", "SUSPEND"} /\ OSTCBPrio[t] \in Prio
  BY <1>2, TaskValues
<1>4. /\ pc' \in [Task -> {"run", "sched", "schedPend", "woken"}]
      /\ \A u \in Task : InPend(u)' <=> InPend(u)
      /\ pc'[Idle] = "run"
  <2>1. CASE ThenSched
    BY <1>1, <2>1, ThenSchedStep
  <2>2. CASE UNCHANGED pc
    BY <1>2, <2>2 DEF TypeOK, IdleOK, InPend
  <2> QED BY <1>1, <2>1, <2>2
<1>5. /\ OSTCBStat'[t] = OSTCBStat[t] \ {"SUSPEND"}
      /\ \A u \in Task : u # t => OSTCBStat'[u] = OSTCBStat[u]
  BY <1>1, <1>2 DEF TypeOK
<1>6. OSTCBStat' \in [Task -> SUBSET {"SEM", "SUSPEND"}]
  <2>1. OSTCBStat[t] \ {"SUSPEND"} \in SUBSET {"SEM", "SUSPEND"}
    BY <1>3
  <2> QED BY <1>1, <1>2, <2>1 DEF TypeOK
<1>7. OSRdyTbl' \in {OSRdyTbl, OSRdyTbl \cup {OSTCBPrio[t]}, OSRdyTbl \ {OSTCBPrio[t]}}
  BY <1>1
<1>8. ReadyOK' /\ (\A u \in Task : WaitOK(u)') /\ ListOK' /\ IdleOK'
  <2>1. OSTCBPrio[t] \in OSRdyTbl' <=> OSTCBStat'[t] = {} /\ OSTCBDly'[t] = 0
    <3>1. OSTCBPrio[t] \notin OSRdyTbl
      BY <1>1, <1>2 DEF ReadyOK
    <3>2. OSTCBStat'[t] = {} <=> OSTCBStat[t] = {"SUSPEND"}
      BY <1>1, <1>3, <1>5
    <3> QED BY <1>1, <3>1, <3>2
  <2>2. "SEM" \in OSTCBStat'[t] <=> "SEM" \in OSTCBStat[t]
    BY <1>5
  <2>3. InPend(t) /\ "SEM" \notin OSTCBStat'[t] =>
           /\ OSTCBDly'[t] = 0
           /\ OSTCBPrio[t] \in OSEventTbl <=> OSTCBStatPend'[t] = "TO"
    BY <1>1, <1>2, <2>2 DEF WaitOK
  <2> QED BY <1>1, <1>2, <1>4, <1>5, <1>7, <2>1, <2>2, <2>3, OneTask
<1>9. TypeOK'
  <2>1. OSRdyTbl' \subseteq Prio
    BY <1>2, <1>3, <1>7 DEF TypeOK
  <2> QED BY <1>1, <1>2, <1>4, <1>6, <2>1 DEF TypeOK
<1>10. CurOK' /\ LockOK' /\ HighestOK'
  <2>1. OSRdyTbl' = OSRdyTbl => (IsHighest(OSTCBCur) => IsHighest(OSTCBCur)')
    BY <1>1 DEF IsHighest
  <2> QED BY <1>1, <2>1, ServiceFrame
<1> QED BY <1>8, <1>9, <1>10 DEF Inv

(* When a task gets a new priority, its entries in the two lists move with   *)
(* it, and nobody else's do: it has one in the wait list exactly if its      *)
(* OSTCBEventPtr says so, unless OSTaskChangePrio is misled.                 *)
LEMMA ChangePrioMoves ==
    ASSUME Inv, FRESH, NEW t \in User, NEW p \in Prio, OSTaskChangePrio(t, p)
    PROVE  /\ OSTCBPrio' \in [Task -> Prio]
           /\ OSTCBPrio'[t] = p /\ \A u \in Task : OSTCBPrio[u] # p
           /\ \A u \in Task : u # t => OSTCBPrio'[u] = OSTCBPrio[u]
           /\ OSRdyTbl' \subseteq Prio /\ OSEventTbl' \subseteq Prio
           /\ \A u \in Task : /\ OSTCBPrio'[u] \in OSRdyTbl' <=> OSTCBPrio[u] \in OSRdyTbl
                              /\ OSTCBPrio'[u] \in OSEventTbl' <=> OSTCBPrio[u] \in OSEventTbl
           /\ \A q \in OSRdyTbl' \cup OSEventTbl' : \E u \in Task : OSTCBPrio'[u] = q
           /\ OSEventTbl' # {} => OSEventTbl # {}
<1>1. /\ \A u \in Task : OSTCBPrio[u] # p
      /\ OSTCBPrio' = [OSTCBPrio EXCEPT ![t] = p]
      /\ OSRdyTbl' = IF OSTCBPrio[t] \in OSRdyTbl
                     THEN (OSRdyTbl \ {OSTCBPrio[t]}) \cup {p} ELSE OSRdyTbl
      /\ OSEventTbl' = IF OSTCBEventPtr[t]
                       THEN (OSEventTbl \ {OSTCBPrio[t]}) \cup {p} ELSE OSEventTbl
      /\ OSTCBEventPtr[t] => OSTCBPrio[t] \in OSEventTbl
  BY DEF OSTaskChangePrio, Misled
<1>2. TypeOK /\ ReadyOK /\ ListOK /\ t \in Task /\ WaitOK(t)
  BY DEF Inv, User
<1>3. OSEventTbl' = IF OSTCBPrio[t] \in OSEventTbl
                    THEN (OSEventTbl \ {OSTCBPrio[t]}) \cup {p} ELSE OSEventTbl
  BY <1>1, <1>2 DEF WaitOK, TypeOK
<1>4. /\ OSTCBPrio' \in [Task -> Prio] /\ OSTCBPrio'[t] = p /\ p # OSTCBPrio[t]
      /\ \A u \in Task : u # t => OSTCBPrio'[u] = OSTCBPrio[u] /\ OSTCBPrio[u] # OSTCBPrio[t]
      /\ p \notin OSRdyTbl /\ p \notin OSEventTbl
  BY <1>1, <1>2 DEF TypeOK, ReadyOK, ListOK
<1>5. OSRdyTbl' \subseteq Prio /\ OSEventTbl' \subseteq Prio
  BY <1>1, <1>2, <1>3 DEF TypeOK
<1>6. ASSUME NEW u \in Task
      PROVE  /\ OSTCBPrio'[u] \in OSRdyTbl' <=> OSTCBPrio[u] \in OSRdyTbl
             /\ OSTCBPrio'[u] \in OSEventTbl' <=> OSTCBPrio[u] \in OSEventTbl
  <2>1. CASE u = t
    BY <1>1, <1>3, <1>4, <2>1
  <2>2. CASE u # t
    BY <1>1, <1>3, <1>4, <2>2
  <2> QED BY <2>1, <2>2
<1>7. ASSUME NEW q \in OSRdyTbl' \cup OSEventTbl' PROVE \E u \in Task : OSTCBPrio'[u] = q
  <2>1. CASE q = p
    BY <1>2, <1>4, <2>1
  <2>2. CASE q # p
    <3>1. q \in OSRdyTbl \cup OSEventTbl
      BY <1>1, <1>3, <2>2
    <3>2. PICK u \in Task : OSTCBPrio[u] = q
      BY <1>2, <3>1 DEF ReadyOK, ListOK
    <3>3. u # t
      BY <1>1, <1>3, <1>4, <2>2, <3>2
    <3> QED BY <1>4, <3>2, <3>3
  <2> QED BY <2>1, <2>2
<1>8. OSEventTbl' # {} => OSEventTbl # {}
  BY <1>3
<1> QED BY <1>1, <1>4, <1>5, <1>6, <1>7, <1>8

(* Who calls, and whose priority changes, is open: it is the OS_Sched at the *)
(* end, or OSIntExit, that asks for the switch, even if OSPrioCur is stale.  *)
LEMMA ChangePrioInv ==
    ASSUME Inv, FRESH, NEW t \in User, NEW p \in Prio, OSTaskChangePrio(t, p)
    PROVE  Inv'
<1>1. /\ Calling /\ ThenSched
      /\ t # OSTCBCur => p # OSPrioCur
      /\ UNCHANGED <<OSTCBStat, OSTCBStatPend, OSTCBDly, OSTCBEventPtr, OSEventCnt, OSPrioCur,
                     OSTCBCur, OSPrioHighRdy, OSTCBHighRdy, PENDSVSET, OSIntNesting,
                     OSLockNesting, tick, visit, perr>>
  BY DEF OSTaskChangePrio, Misled, switch, nesting
<1>2. /\ TypeOK /\ ReadyOK /\ ListOK /\ IdleOK /\ CurOK /\ LockOK
      /\ t \in Task /\ OSTCBCur \in Task /\ Idle \in Task
  BY KernelAssumption DEF Inv, User, TypeOK
<1>3. /\ OSTCBPrio' \in [Task -> Prio]
      /\ OSTCBPrio'[t] = p /\ \A u \in Task : OSTCBPrio[u] # p
      /\ \A u \in Task : u # t => OSTCBPrio'[u] = OSTCBPrio[u]
      /\ OSRdyTbl' \subseteq Prio /\ OSEventTbl' \subseteq Prio
      /\ \A u \in Task : /\ OSTCBPrio'[u] \in OSRdyTbl' <=> OSTCBPrio[u] \in OSRdyTbl
                         /\ OSTCBPrio'[u] \in OSEventTbl' <=> OSTCBPrio[u] \in OSEventTbl
      /\ \A q \in OSRdyTbl' \cup OSEventTbl' : \E u \in Task : OSTCBPrio'[u] = q
      /\ OSEventTbl' # {} => OSEventTbl # {}
  BY ChangePrioMoves
<1>4. /\ pc' \in [Task -> {"run", "sched", "schedPend", "woken"}]
      /\ \A u \in Task : InPend(u)' <=> InPend(u)
      /\ pc'[Idle] = "run"
      /\ OSIntNesting = 0 => pc'[OSTCBCur] = "sched" /\ FromTask
      /\ OSIntNesting # 0 => UNCHANGED pc
  BY <1>1, ThenSchedStep
<1>5. TypeOK'
  <2>1. \A u, v \in Task : OSTCBPrio'[u] = OSTCBPrio'[v] => u = v
    BY <1>2, <1>3 DEF TypeOK
  <2> QED BY <1>1, <1>2, <1>3, <1>4, <2>1 DEF TypeOK
<1>6. ReadyOK'
  BY <1>1, <1>2, <1>3 DEF ReadyOK
<1>7. ASSUME NEW u \in Task PROVE WaitOK(u)'
  <2>1. WaitOK(u) /\ (InPend(u)' <=> InPend(u))
    BY <1>4 DEF Inv
  <2>2. OSTCBPrio'[u] \in OSEventTbl' <=> OSTCBPrio[u] \in OSEventTbl
    BY <1>3
  <2> QED BY <1>1, <2>1, <2>2 DEF WaitOK
<1>8. ListOK' /\ IdleOK'
  BY <1>1, <1>2, <1>3, <1>4 DEF ListOK, IdleOK
<1>9. CurOK'
  <2>1. CASE p = OSPrioCur
    BY <1>1, <1>3, <2>1 DEF CurOK
  <2>2. CASE p # OSPrioCur /\ OSPrioCur = OSTCBPrio[OSTCBCur]
    <3>1. CASE t = OSTCBCur
      <4>1. ASSUME NEW u \in Task PROVE OSTCBPrio'[u] # OSPrioCur
        <5>1. CASE u = t
          BY <1>3, <2>2, <5>1
        <5>2. CASE u # t
          BY <1>2, <1>3, <2>2, <3>1, <5>2 DEF TypeOK
        <5> QED BY <5>1, <5>2
      <4> QED BY <1>1, <4>1 DEF CurOK
    <3>2. CASE t # OSTCBCur
      BY <1>1, <1>2, <1>3, <2>2, <3>2 DEF CurOK
    <3> QED BY <3>1, <3>2
  <2>3. CASE p # OSPrioCur /\ \A u \in Task : OSTCBPrio[u] # OSPrioCur
    <3>1. \A u \in Task : OSTCBPrio'[u] # OSPrioCur
      BY <1>2, <1>3, <2>3
    <3> QED BY <1>1, <3>1 DEF CurOK
  <2> QED BY <1>2, <2>1, <2>2, <2>3 DEF CurOK
<1>10. LockOK' /\ HighestOK'
  <2>1. LockOK'
    BY <1>1, <1>2, <1>4 DEF LockOK
  <2>2. CASE OSIntNesting = 0
    BY <1>1, <1>4, <2>1, <2>2, FromTaskFacts DEF HighestOK
  <2>3. CASE OSIntNesting # 0
    BY <1>1, <2>1, <2>3 DEF HighestOK
  <2> QED BY <2>2, <2>3, <2>1
<1> QED BY <1>5, <1>6, <1>7, <1>8, <1>9, <1>10 DEF Inv

-----------------------------------------------------------------------------
LEMMA StutterInv == ASSUME Inv, UNCHANGED vars PROVE Inv'
<1>1. UNCHANGED <<OSTCBPrio, OSTCBStat, OSTCBStatPend, OSTCBDly, OSTCBEventPtr, OSRdyTbl,
                  OSEventTbl, OSEventCnt, OSPrioCur, OSTCBCur, OSPrioHighRdy, OSTCBHighRdy,
                  PENDSVSET, OSIntNesting, OSLockNesting, tick, visit, pc, perr>>
  BY DEF vars, tcb, event, switch, nesting
<1>2. TypeOK'
  BY <1>1 DEF Inv, TypeOK
<1>3. ReadyOK' /\ (\A t \in Task : WaitOK(t)') /\ ListOK' /\ IdleOK'
  BY <1>1 DEF Inv, ReadyOK, WaitOK, ListOK, IdleOK, InPend
<1>4. CurOK' /\ LockOK' /\ HighestOK'
  BY <1>1 DEF Inv, CurOK, LockOK, HighestOK, InPend, IsHighest
<1> QED BY <1>2, <1>3, <1>4 DEF Inv

LEMMA StepInv == ASSUME FRESH, Inv, [Next]_vars PROVE Inv'
<1>1. CASE Semaphore
  <2>1. CASE OSSemPost
    BY <2>1, PostInv
  <2>2. CASE OSSemPendAbort
    BY <2>2, AbortInv
  <2>3. CASE OSSemAccept
    BY <2>3, AcceptInv
  <2>4. CASE OSSemPendTakes
    BY <2>4, TakesInv
  <2>5. CASE \E cnt \in {0, 1} : OSSemSet(cnt)
    BY <2>5, SetInv
  <2>6. CASE \E timeout \in Ticks \cup {0} : OSSemPend(timeout)
    BY <2>6, PendInv
  <2>7. CASE \E t \in User : OSSemPendReturns(t)
    BY <2>7, PendReturnsInv
  <2> QED BY <1>1, <2>1, <2>2, <2>3, <2>4, <2>5, <2>6, <2>7 DEF Semaphore
<1>2. CASE Tasks
  <2>1. CASE \E ticks \in Ticks : OSTimeDly(ticks)
    BY <2>1, TimeDlyInv
  <2>2. ASSUME NEW t \in User, OSTimeDlyResume(t) PROVE Inv'
    BY <2>2, DlyResumeInv
  <2>3. ASSUME NEW t \in User, OSTaskSuspend(t) PROVE Inv'
    BY <2>3, SuspendInv
  <2>4. ASSUME NEW t \in User, OSTaskResume(t) PROVE Inv'
    BY <2>4, ResumeInv
  <2>5. ASSUME NEW t \in User, NEW p \in Prio, OSTaskChangePrio(t, p) PROVE Inv'
    BY <2>5, ChangePrioInv
  <2> QED BY <1>2, <2>1, <2>2, <2>3, <2>4, <2>5 DEF Tasks
<1>3. CASE Switching
  BY <1>3, SchedInv, PendSVInv, IntEnterInv, IntExitInv, TimeTickInv, SchedLockInv,
     SchedUnlockInv DEF Switching
<1>4. CASE UNCHANGED vars
  BY <1>4, StutterInv
<1> QED BY <1>1, <1>2, <1>3, <1>4 DEF Next

LEMMA Invariant == ASSUME FRESH PROVE Spec => []Inv
<1>1. Init => Inv
  BY InitInv
<1>2. Inv /\ [Next]_vars => Inv'
  BY StepInv
<1> QED BY <1>1, <1>2, PTL DEF Spec

(* All variables of the kernel keep their ranges and no two tasks ever share *)
(* a priority, although OSTaskChangePrio moves them (os_task.c:95).          *)
THEOREM KernelTypeCorrect == ASSUME FRESH PROVE Spec => []TypeOK
<1>1. Inv => TypeOK
  BY DEF Inv
<1> QED BY <1>1, Invariant, PTL

(* However suspend, resume, post, abort, tick, timeout and change of         *)
(* priority mix, the ready list is exactly the tasks that may run.           *)
THEOREM ReadyListExact == ASSUME FRESH PROVE Spec => []ReadyExact
<1>1. Inv => ReadyExact
  <2> SUFFICES ASSUME Inv PROVE ReadyExact
    OBVIOUS
  <2>1. ReadyOK
    BY DEF Inv
  <2> QED BY <2>1 DEF ReadyOK, ReadyExact
<1> QED BY <1>1, Invariant, PTL

(* The wait list of the semaphore is exact too, and is empty while there is  *)
(* something to take.                                                        *)
THEOREM WaitListPends == ASSUME FRESH PROVE Spec => []WaitersPend
<1>1. Inv => WaitersPend
  <2> SUFFICES ASSUME Inv PROVE WaitersPend
    OBVIOUS
  <2>1. (\A t \in Task : WaitOK(t)) /\ ListOK
    BY DEF Inv
  <2>2. \A t \in Task : OSTCBPrio[t] \in OSEventTbl => pc[t] \in {"schedPend", "woken"}
    BY <2>1 DEF WaitOK, InPend
  <2>3. \A t \in Task : "SEM" \in OSTCBStat[t] => OSTCBPrio[t] \in OSEventTbl
    BY <2>1 DEF WaitOK
  <2>4. OSEventTbl \subseteq {OSTCBPrio[t] : t \in Task}
    BY <2>1 DEF ListOK
  <2> QED BY <2>1, <2>2, <2>3, <2>4 DEF WaitersPend, ListOK
<1> QED BY <1>1, Invariant, PTL

(* With any number of tasks and handlers, no ready task of a higher priority *)
(* is left waiting for the processor but for a switch that is under way.     *)
THEOREM HighestTaskRuns == ASSUME FRESH PROVE Spec => []HighestRuns
<1>1. Inv => HighestRuns
  <2> SUFFICES ASSUME Inv PROVE HighestRuns
    OBVIOUS
  <2> DEFINE highest == OSTCBPrioTbl(First(OSRdyTbl))
  <2>1. OSTCBPrio[highest] = First(OSRdyTbl) /\ \A t \in Task : IsHighest(t) => t = highest
    BY HighestExists DEF Inv
  <2>2. OSTCBCur \in Task /\ OSTCBHighRdy \in Task /\ HighestOK
    BY DEF Inv, TypeOK
  <2> QED BY <2>1, <2>2 DEF HighestRuns, HighestOK
<1> QED BY <1>1, Invariant, PTL

-----------------------------------------------------------------------------
(* The refinement.  A wait ends in Waits where OSSemPend finds it ended.     *)
LEMMA WaitsSame ==
    ASSUME \A t \in Task : InPend(t)' <=> InPend(t),
           \A t \in Task : InPend(t) => OSTCBPrio'[t] \in OSEventTbl' <=> OSTCBPrio[t] \in OSEventTbl,
           \A t \in Task : InPend(t) /\ OSTCBPrio[t] \notin OSEventTbl =>
                              OSTCBStatPend'[t] = OSTCBStatPend[t]
    PROVE  UNCHANGED Waits
<1> DEFINE W(t) == IF pc[t] \notin {"schedPend", "woken"} THEN "no"
                   ELSE IF OSTCBPrio[t] \in OSEventTbl THEN "waiting"
                   ELSE IF OSTCBStatPend[t] = "ABORT" THEN "aborted" ELSE "granted"
<1>1. Waits = [t \in Task |-> W(t)] /\ Waits' = [t \in Task |-> W(t)']
  BY DEF Waits
<1>2. ASSUME NEW t \in Task PROVE W(t)' = W(t)
  BY <1>2 DEF InPend
<1> QED BY <1>1, <1>2

LEMMA WaitsAt ==
    ASSUME NEW t \in Task
    PROVE  /\ Waits[t] = IF ~InPend(t) THEN "no"
                         ELSE IF OSTCBPrio[t] \in OSEventTbl THEN "waiting"
                         ELSE IF OSTCBStatPend[t] = "ABORT" THEN "aborted" ELSE "granted"
           /\ Waits'[t] = IF ~InPend(t)' THEN "no"
                          ELSE IF OSTCBPrio'[t] \in OSEventTbl' THEN "waiting"
                          ELSE IF OSTCBStatPend'[t] = "ABORT" THEN "aborted" ELSE "granted"
BY DEF Waits, InPend

(* OS_EventTaskRdy ends the waits of the tasks it is given and no other.     *)
LEMMA WokenWaits ==
    ASSUME Inv, Calling, NEW prios, prios \subseteq OSEventTbl, NEW s \in {"OK", "ABORT"},
           OS_EventTaskRdy(prios, s), ThenSched
    PROVE  /\ Waits' = [t \in Task |-> IF OSTCBPrio[t] \in prios
                                       THEN IF s = "ABORT" THEN "aborted" ELSE "granted"
                                       ELSE Waits[t]]
           /\ \A t \in Task : OSTCBPrio[t] \in prios => Waits[t] = "waiting"
<1>1. /\ OSTCBPrio' = OSTCBPrio /\ OSEventTbl' = OSEventTbl \ prios
      /\ OSTCBStatPend' = [t \in Task |-> IF OSTCBPrio[t] \in prios THEN s ELSE OSTCBStatPend[t]]
  BY DEF OS_EventTaskRdy
<1>2. \A t \in Task : InPend(t)' <=> InPend(t)
  BY ThenSchedStep
<1>3. ASSUME NEW t \in Task, OSTCBPrio[t] \in prios
      PROVE  Waits[t] = "waiting" /\ Waits'[t] = IF s = "ABORT" THEN "aborted" ELSE "granted"
  <2>1. InPend(t) /\ OSTCBPrio[t] \in OSEventTbl
    BY <1>3 DEF Inv, WaitOK
  <2>2. InPend(t)' /\ OSTCBPrio'[t] \notin OSEventTbl' /\ OSTCBStatPend'[t] = s
    BY <1>1, <1>2, <1>3, <2>1
  <2> QED BY <2>1, <2>2, WaitsAt
<1>4. ASSUME NEW t \in Task, OSTCBPrio[t] \notin prios PROVE Waits'[t] = Waits[t]
  <2>1. /\ InPend(t)' <=> InPend(t)
        /\ OSTCBPrio'[t] \in OSEventTbl' <=> OSTCBPrio[t] \in OSEventTbl
        /\ OSTCBStatPend'[t] = OSTCBStatPend[t]
    BY <1>1, <1>2, <1>4
  <2> QED BY <2>1, WaitsAt
<1>5. Waits' = [t \in Task |-> Waits'[t]]
  BY DEF Waits
<1> QED BY <1>3, <1>4, <1>5

(* A step that neither starts nor ends a wait: what the tasks in OSSemPend   *)
(* have been told, and who is in the list, stays.                            *)
LEMMA NoWaitStep ==
    ASSUME Inv, \A u \in Task : InPend(u)' <=> InPend(u),
           UNCHANGED <<OSTCBPrio, OSEventTbl, OSEventCnt, perr>>,
           \A u \in Task : \/ OSTCBStatPend'[u] = OSTCBStatPend[u]
                          \/ OSTCBDly[u] # 0
    PROVE  UNCHANGED Counting!vars
<1>1. ASSUME NEW u \in Task, InPend(u), OSTCBPrio[u] \notin OSEventTbl
      PROVE  OSTCBStatPend'[u] = OSTCBStatPend[u]
  BY <1>1 DEF Inv, WaitOK
<1>2. UNCHANGED Waits
  BY <1>1, WaitsSame
<1> QED BY <1>2 DEF Counting!vars

LEMMA NextSemaphore == ASSUME Inv, Semaphore PROVE Counting!Step
<1>1. TypeOK /\ ListOK
  BY DEF Inv
<1>2. OSEventTbl = {} => Counting!Nobody
  BY WaitsAt DEF Counting!Nobody
<1>3. CASE OSSemPost
  <2>1. CASE OSEventTbl # {}
    <3>1. /\ Calling /\ OS_EventTaskRdy({First(OSEventTbl)}, "OK") /\ ThenSched
          /\ UNCHANGED <<OSEventCnt, perr>> /\ {First(OSEventTbl)} \subseteq OSEventTbl
      BY <1>1, <1>3, <2>1, FirstWaiter DEF OSSemPost
    <3>2. PICK t \in Task : OSTCBPrio[t] = First(OSEventTbl)
      BY <1>1, <3>1 DEF ListOK
    <3>3. \A u \in Task : OSTCBPrio[u] \in {First(OSEventTbl)} <=> u = t
      BY <1>1, <3>2 DEF TypeOK
    <3>4. /\ Waits' = [u \in Task |-> IF OSTCBPrio[u] \in {First(OSEventTbl)}
                                      THEN IF "OK" = "ABORT" THEN "aborted" ELSE "granted"
                                      ELSE Waits[u]]
          /\ Waits[t] = "waiting"
      BY <3>1, <3>3, WokenWaits
    <3>5. Waits' = [Waits EXCEPT ![t] = "granted"]
      <4>1. Waits' = [u \in Task |-> IF u = t THEN "granted" ELSE Waits[u]]
        BY <3>3, <3>4
      <4>2. Waits = [u \in Task |-> Waits[u]]
        BY DEF Waits
      <4> QED BY <4>1, <4>2
    <3>6. Counting!Post
      BY <3>1, <3>4, <3>5 DEF Counting!Post
    <3> QED BY <3>6 DEF Counting!Step
  <2>2. CASE OSEventTbl = {}
    <3>1. /\ OSEventCnt < CNT_MAX /\ OSEventCnt' = OSEventCnt + 1
          /\ UNCHANGED <<OSTCBPrio, OSTCBStatPend, OSEventTbl, pc, perr>>
      BY <1>3, <2>2 DEF OSSemPost, tcb
    <3>2. UNCHANGED Waits
      BY <3>1 DEF Waits
    <3>3. Counting!Post
      BY <1>2, <2>2, <3>1, <3>2 DEF Counting!Post
    <3> QED BY <3>3 DEF Counting!Step
  <2> QED BY <2>1, <2>2
<1>4. CASE OSSemPendAbort
  <2>1. PICK prios \in {OSEventTbl, {First(OSEventTbl)}} : OS_EventTaskRdy(prios, "ABORT")
    BY <1>4 DEF OSSemPendAbort
  <2>2. prios \subseteq OSEventTbl
    BY <1>1, <1>4, FirstWaiter DEF OSSemPendAbort
  <2> DEFINE S == {t \in Task : OSTCBPrio[t] \in prios}
  <2>3. /\ Waits' = [t \in Task |-> IF OSTCBPrio[t] \in prios
                                    THEN IF "ABORT" = "ABORT" THEN "aborted" ELSE "granted"
                                    ELSE Waits[t]]
        /\ \A t \in Task : OSTCBPrio[t] \in prios => Waits[t] = "waiting"
    BY <1>4, <2>1, <2>2, WokenWaits DEF OSSemPendAbort
  <2>4. S \in SUBSET {t \in Task : Waits[t] = "waiting"}
    BY <2>3
  <2>5. Waits' = [t \in Task |-> IF t \in S THEN "aborted" ELSE Waits[t]]
    BY <2>3
  <2>6. Counting!Abort
    <3>1. UNCHANGED <<OSEventCnt, perr>>
      BY <1>4 DEF OSSemPendAbort
    <3> HIDE DEF S
    <3> QED BY <2>4, <2>5, <3>1 DEF Counting!Abort
  <2> QED BY <2>6 DEF Counting!Step
<1>5. CASE OSSemAccept
  <2>1. UNCHANGED Waits
    BY <1>5 DEF OSSemAccept, tcb, Waits
  <2>2. Counting!Take /\ UNCHANGED perr
    BY <1>5, <2>1 DEF OSSemAccept, Counting!Take
  <2> QED BY <2>2 DEF Counting!Step
<1>6. CASE OSSemPendTakes
  <2>1. UNCHANGED Waits
    BY <1>6 DEF OSSemPendTakes, tcb, Waits
  <2>2. OSTCBCur \in Task /\ Waits[OSTCBCur] = "no"
    <3>1. OSTCBCur \in Task /\ ~InPend(OSTCBCur)
      BY <1>6, FromTaskFacts DEF OSSemPendTakes, InPend
    <3> QED BY <3>1, WaitsAt
  <2>3. Counting!TakeNow(OSTCBCur)
    BY <1>6, <2>1, <2>2 DEF OSSemPendTakes, Counting!TakeNow, Counting!Take
  <2> QED BY <2>2, <2>3 DEF Counting!Step
<1>7. ASSUME NEW cnt \in {0, 1}, OSSemSet(cnt) PROVE Counting!Step
  <2>1. UNCHANGED Waits
    BY <1>7 DEF OSSemSet, tcb, Waits
  <2>2. Counting!Set(cnt)
    BY <1>2, <1>7, <2>1 DEF OSSemSet, Counting!Set
  <2>3. cnt \in 0..CNT_MAX
    BY KernelAssumption
  <2> QED BY <2>2, <2>3 DEF Counting!Step
<1>8. ASSUME NEW timeout \in Ticks \cup {0}, OSSemPend(timeout) PROVE Counting!Step
  <2>0. PICK t \in Task : t = OSTCBCur
    BY <1>1 DEF TypeOK
  <2>1. /\ OSEventCnt = 0 /\ UNCHANGED <<OSTCBPrio, OSEventCnt, perr>>
        /\ OSTCBStatPend' = [OSTCBStatPend EXCEPT ![t] = "OK"]
        /\ OSEventTbl' = OSEventTbl \cup {OSTCBPrio[t]}
        /\ pc' = [pc EXCEPT ![t] = "schedPend"]
    BY <1>8, <2>0 DEF OSSemPend
  <2>2. ~InPend(t)
    BY <1>8, <2>0, FromTaskFacts DEF OSSemPend, InPend
  <2>3. Waits[t] = "no" /\ Waits'[t] = "waiting"
    <3>1. InPend(t)' /\ OSTCBPrio'[t] \in OSEventTbl'
      BY <1>1, <2>1, <2>2 DEF InPend, TypeOK
    <3> QED BY <2>2, <3>1, WaitsAt
  <2>4. ASSUME NEW u \in Task, u # t PROVE Waits'[u] = Waits[u]
    <3>1. /\ InPend(u)' <=> InPend(u)
          /\ OSTCBPrio'[u] \in OSEventTbl' <=> OSTCBPrio[u] \in OSEventTbl
          /\ OSTCBStatPend'[u] = OSTCBStatPend[u]
      BY <1>1, <2>1, <2>2, <2>4 DEF InPend, TypeOK
    <3> QED BY <3>1, WaitsAt
  <2>5. Waits' = [Waits EXCEPT ![t] = "waiting"]
    <3>1. Waits = [u \in Task |-> Waits[u]] /\ Waits' = [u \in Task |-> Waits'[u]]
      BY DEF Waits
    <3> QED BY <2>3, <2>4, <3>1
  <2>6. Counting!Wait(t)
    BY <2>1, <2>3, <2>5 DEF Counting!Wait
  <2> QED BY <2>6 DEF Counting!Step
<1>9. ASSUME NEW t \in User, OSSemPendReturns(t) PROVE Counting!Step
  <2>1. /\ Running(t) /\ pc[t] = "woken" /\ UNCHANGED <<OSTCBPrio, OSEventCnt>>
        /\ perr' = CASE OSTCBStatPend[t] = "OK" -> "NONE"
                     [] OSTCBStatPend[t] = "ABORT" -> "ABORT"
                     [] OTHER -> "TIMEOUT"
        /\ OSEventTbl' = IF OSTCBStatPend[t] = "TO" THEN OSEventTbl \ {OSTCBPrio[t]}
                         ELSE OSEventTbl
        /\ OSTCBStatPend' = [OSTCBStatPend EXCEPT ![t] = "OK"]
        /\ pc' = [pc EXCEPT ![t] = "run"]
    BY <1>9 DEF OSSemPendReturns
  <2>2. t \in Task /\ (OSTCBPrio[t] \in OSEventTbl <=> OSTCBStatPend[t] = "TO")
    BY <2>1, ReturningFacts
  <2>3. Waits[t] = IF OSTCBStatPend[t] = "TO" THEN "waiting"
                   ELSE IF OSTCBStatPend[t] = "ABORT" THEN "aborted" ELSE "granted"
    <3>1. InPend(t)
      BY <2>1 DEF InPend
    <3> QED BY <2>2, <3>1, WaitsAt
  <2>4. OSTCBStatPend[t] \in {"OK", "TO", "ABORT"}
    BY <1>1, <2>2 DEF TypeOK
  <2>5. /\ Waits[t] # "no"
        /\ perr' = CASE Waits[t] = "granted" -> "NONE"
                     [] Waits[t] = "aborted" -> "ABORT"
                     [] OTHER -> "TIMEOUT"
    <3>1. CASE OSTCBStatPend[t] = "OK"
      BY <2>1, <2>3, <3>1
    <3>2. CASE OSTCBStatPend[t] = "TO"
      BY <2>1, <2>3, <3>2
    <3>3. CASE OSTCBStatPend[t] = "ABORT"
      BY <2>1, <2>3, <3>3
    <3> QED BY <2>4, <3>1, <3>2, <3>3
  <2>6. Waits'[t] = "no"
    <3>1. ~InPend(t)'
      BY <1>1, <2>1, <2>2 DEF InPend, TypeOK
    <3> QED BY <2>2, <3>1, WaitsAt
  <2>7. ASSUME NEW u \in Task, u # t PROVE Waits'[u] = Waits[u]
    <3>1. /\ InPend(u)' <=> InPend(u)
          /\ OSTCBPrio'[u] \in OSEventTbl' <=> OSTCBPrio[u] \in OSEventTbl
          /\ OSTCBStatPend'[u] = OSTCBStatPend[u]
      BY <1>1, <2>1, <2>2, <2>7 DEF InPend, TypeOK
    <3> QED BY <3>1, WaitsAt
  <2>8. Waits' = [Waits EXCEPT ![t] = "no"]
    <3>1. Waits = [u \in Task |-> Waits[u]] /\ Waits' = [u \in Task |-> Waits'[u]]
      BY DEF Waits
    <3> QED BY <2>6, <2>7, <3>1
  <2>9. Counting!Return(t)
    BY <2>1, <2>5, <2>8 DEF Counting!Return
  <2> QED BY <2>2, <2>9 DEF Counting!Step
<1> QED BY <1>3, <1>4, <1>5, <1>6, <1>7, <1>8, <1>9 DEF Semaphore

LEMMA NextTasks == ASSUME Inv, FRESH, Tasks PROVE UNCHANGED Counting!vars
<1>1. TypeOK /\ \A t \in User : t \in Task
  BY DEF Inv, User
<1>2. ASSUME NEW ticks \in Ticks, OSTimeDly(ticks) PROVE UNCHANGED Counting!vars
  <2>1. \A u \in Task : InPend(u)' <=> InPend(u)
    BY <1>2, ThenSchedStep DEF OSTimeDly, Calling
  <2> QED BY <1>2, <2>1, NoWaitStep DEF OSTimeDly, event
<1>3. ASSUME NEW t \in User, OSTimeDlyResume(t) PROVE UNCHANGED Counting!vars
  <2>1. \A u \in Task : InPend(u)' <=> InPend(u)
    <3>1. CASE ThenSched
      BY <1>3, <3>1, ThenSchedStep DEF OSTimeDlyResume
    <3>2. CASE UNCHANGED pc
      BY <3>2 DEF InPend
    <3> QED BY <1>3, <3>1, <3>2 DEF OSTimeDlyResume
  <2>2. UNCHANGED <<OSTCBPrio, OSEventTbl, OSEventCnt, perr>>
    BY <1>3 DEF OSTimeDlyResume, event
  <2>3. \A u \in Task : OSTCBStatPend'[u] = OSTCBStatPend[u] \/ OSTCBDly[u] # 0
    BY <1>1, <1>3 DEF OSTimeDlyResume, TypeOK
  <2> QED BY <2>1, <2>2, <2>3, NoWaitStep
<1>4. ASSUME NEW t \in User, OSTaskSuspend(t) PROVE UNCHANGED Counting!vars
  <2>1. \A u \in Task : InPend(u)' <=> InPend(u)
    <3>1. CASE ThenSched
      BY <1>4, <3>1, ThenSchedStep DEF OSTaskSuspend
    <3>2. CASE UNCHANGED pc
      BY <3>2 DEF InPend
    <3> QED BY <1>4, <3>1, <3>2 DEF OSTaskSuspend
  <2> QED BY <1>4, <2>1, NoWaitStep DEF OSTaskSuspend, event
<1>5. ASSUME NEW t \in User, OSTaskResume(t) PROVE UNCHANGED Counting!vars
  <2>1. \A u \in Task : InPend(u)' <=> InPend(u)
    <3>1. CASE ThenSched
      BY <1>5, <3>1, ThenSchedStep DEF OSTaskResume
    <3>2. CASE UNCHANGED pc
      BY <3>2 DEF InPend
    <3> QED BY <1>5, <3>1, <3>2 DEF OSTaskResume
  <2> QED BY <1>5, <2>1, NoWaitStep DEF OSTaskResume, event
<1>6. ASSUME NEW t \in User, NEW p \in Prio, OSTaskChangePrio(t, p)
      PROVE  UNCHANGED Counting!vars
  <2>1. Calling /\ ThenSched /\ UNCHANGED <<OSTCBStatPend, OSEventCnt, perr>>
    BY <1>6 DEF OSTaskChangePrio
  <2>2. \A u \in Task : InPend(u)' <=> InPend(u)
    BY <2>1, ThenSchedStep
  <2>3. \A u \in Task : OSTCBPrio'[u] \in OSEventTbl' <=> OSTCBPrio[u] \in OSEventTbl
    BY <1>6, ChangePrioMoves
  <2>4. UNCHANGED Waits
    BY <2>1, <2>2, <2>3, WaitsSame
  <2> QED BY <2>1, <2>4 DEF Counting!vars
<1> QED BY <1>2, <1>3, <1>4, <1>5, <1>6 DEF Tasks

LEMMA NextSwitching == ASSUME Inv, Switching PROVE UNCHANGED Counting!vars
<1>1. TypeOK
  BY DEF Inv
<1>2. CASE OS_Sched
  <2>1. PICK t \in Task : /\ pc[t] \in {"sched", "schedPend"}
                          /\ pc' = [pc EXCEPT ![t] = IF @ = "sched" THEN "run" ELSE "woken"]
    BY <1>2 DEF OS_Sched
  <2>2. \A u \in Task : InPend(u)' <=> InPend(u)
    BY <1>1, <2>1 DEF InPend, TypeOK
  <2> QED BY <1>2, <2>2, NoWaitStep DEF OS_Sched, tcb, event
<1>3. CASE OSSchedUnlock
  <2>1. \A u \in Task : InPend(u)' <=> InPend(u)
    <3>1. CASE ThenSched
      BY <1>3, <3>1, ThenSchedStep DEF OSSchedUnlock, Calling
    <3>2. CASE UNCHANGED pc
      BY <3>2 DEF InPend
    <3> QED BY <1>3, <3>1, <3>2 DEF OSSchedUnlock
  <2> QED BY <1>3, <2>1, NoWaitStep DEF OSSchedUnlock, tcb, event
<1>4. CASE UNCHANGED <<tcb, event, pc, perr>>
  BY <1>4 DEF tcb, event, Waits, Counting!vars
<1>5. ASSUME NEW t \in User, OSTimeTick(t) PROVE UNCHANGED Counting!vars
  <2>1. UNCHANGED <<OSTCBPrio, OSEventTbl, OSEventCnt, pc, perr>>
    BY <1>5 DEF OSTimeTick, event
  <2>2. \A u \in Task : InPend(u)' <=> InPend(u)
    BY <2>1 DEF InPend
  <2>3. \A u \in Task : OSTCBStatPend'[u] = OSTCBStatPend[u] \/ OSTCBDly[u] # 0
    BY <1>1, <1>5 DEF OSTimeTick, TypeOK
  <2> QED BY <2>1, <2>2, <2>3, NoWaitStep
<1> QED BY <1>2, <1>3, <1>4, <1>5
        DEF Switching, PendSV_Handler, OSIntEnter, OSIntExit, OSSchedLock

LEMMA InitSemaphore == Init => Counting!Init
<1> SUFFICES ASSUME Init PROVE Counting!Init
    OBVIOUS
<1>1. Waits = [t \in Task |-> "no"]
  BY DEF Init, Waits
<1> QED BY <1>1 DEF Init, Counting!Init

(* OSSemPend returns as a counting semaphore says, for any number of tasks,  *)
(* timeouts and handlers: a post, an abort or a timeout ends a wait, one of  *)
(* them only, and the answer is the one that did.                            *)
THEOREM SemaphoreImplemented == ASSUME FRESH PROVE Spec => ImplementsSemaphore
<1>1. Init => Counting!Init
  BY InitSemaphore
<1>2. Inv /\ [Next]_vars => [Counting!Next]_Counting!vars
  <2>1. CASE UNCHANGED vars
    BY <2>1 DEF vars, tcb, event, Waits, Counting!vars
  <2> QED BY <2>1, NextSemaphore, NextTasks, NextSwitching DEF Next, Counting!Next
<1> QED BY <1>1, <1>2, Invariant, PTL DEF Spec, ImplementsSemaphore, Counting!Spec
=============================================================================
