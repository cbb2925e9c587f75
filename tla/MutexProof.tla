------------------------------ MODULE MutexProof ------------------------------
(* Theorems about Mutex, for any number of tasks, priorities and timeouts,   *)
(* when the callers are CAREFUL (without it two of the properties fail, see  *)
(* the module).  All follow from one inductive invariant: who may be raised, *)
(* who waits and who was answered, and that the running task is ready.       *)
EXTENDS Mutex, TLAPS, FiniteSetTheorems

TblOK == OSTCBPrioTbl \in [PIP..OS_LOWEST_PRIO -> Task \cup {NoTask, RESERVED}]

(* MutexReadyExact, task by task.                                            *)
ReadyOK ==
    /\ \A t \in Task : OSTCBPrio[t] \in OSRdyTbl <=> OSTCBStat[t] = {} /\ OSTCBDly[t] = 0
    /\ \A p \in OSRdyTbl : \E t \in Task : OSTCBPrio[t] = p

RaisedOK == \A t \in Task : OSTCBPrio[t] = t \/ (t = owner /\ OSTCBPrio[t] = PIP)

(* In OSMutexPend a task waits, or has given up and is still in the list, or *)
(* left it when it became the owner or lost the mutex to a deletion.         *)
WaitOK(t) ==
    /\ t \in OSEventTbl => /\ inPend[t] /\ t # owner
                           /\ owner # NoTask /\ OSTCBPrio[owner] <= t
    /\ "MUTEX" \in OSTCBStat[t] => t \in OSEventTbl
    /\ inPend[t] /\ "MUTEX" \notin OSTCBStat[t] =>
          /\ OSTCBDly[t] = 0
          /\ t \in OSEventTbl <=> OSTCBStatPend[t] = "TO"
          /\ t \notin OSEventTbl => t = owner \/ t \in orphan
    /\ t \in orphan => inPend[t] /\ t \notin OSEventTbl

IdleOK == OSTCBStat[Idle] = {} /\ OSTCBDly[Idle] = 0 /\ ~inPend[Idle]

IsHighest(t) == OSTCBPrio[t] \in OSRdyTbl /\ \A p \in OSRdyTbl : OSTCBPrio[t] <= p

(* The running task is ready; until it is scheduled again after a post that  *)
(* lowered it, nobody else can have taken the mutex.                         *)
CurOK == /\ OSTCBPrio[OSTCBCur] \in OSRdyTbl
         /\ unscheduled \/ IsHighest(OSTCBCur)
         /\ unscheduled => owner \in {NoTask, OSTCBCur}

Inv == /\ MutexTypeOK /\ TblOK /\ ReadyOK /\ RaisedOK
       /\ \A t \in Task : WaitOK(t)
       /\ IdleOK /\ CurOK /\ MutualExclusion

-----------------------------------------------------------------------------
LEMMA TaskFacts ==
    /\ Task \subseteq Nat /\ PIP \in Nat /\ PIP \notin Task /\ NoTask \notin Task
    /\ AVAILABLE \notin Task /\ Idle \in Task /\ PIP + 1 \in Task
    /\ RESERVED \notin Task
    /\ \A t \in Task : t \in PIP..OS_LOWEST_PRIO /\ PIP < t /\ PIP + 1 <= t
    /\ PIP \in PIP..OS_LOWEST_PRIO
    /\ PIP..OS_LOWEST_PRIO \subseteq Nat /\ PIP..OS_LOWEST_PRIO = Task \cup {PIP}
BY MutexAssumption DEF Task, NoTask, AVAILABLE, RESERVED, Idle

(* First: the least priority of a nonempty set, which is always there.       *)
LEMMA FirstIsLeast ==
    ASSUME NEW S, S \subseteq Nat, S # {}
    PROVE  First(S) \in S /\ \A q \in S : First(S) <= q
<1> DEFINE Below(n) == 0..(n - 1)
           T == {Below(n) : n \in S}
           R == StrictSubsetOrdering(Nat)
<1>1. T \subseteq FiniteSubsetsOf(Nat) /\ T # {}
  <2>1. ASSUME NEW n \in S PROVE IsFiniteSet(Below(n)) /\ Below(n) \subseteq Nat
    BY FS_Interval
  <2> QED BY <2>1 DEF FiniteSubsetsOf
<1>2. PICK x \in T : \A y \in T : ~(<<y, x>> \in R)
  <2> HIDE DEF T, R
  <2>1. IsWellFoundedOn(StrictSubsetOrdering(Nat), FiniteSubsetsOf(Nat))
    BY FS_StrictSubsetOrderingWellFounded
  <2> QED BY <2>1, <1>1, WFMin DEF R
<1>3. PICK m \in S : x = Below(m)
  OBVIOUS
<1>4. \A q \in S : m <= q
  <2> SUFFICES ASSUME NEW q \in S, q < m PROVE FALSE
    BY <1>3
  <2>1. q \in Below(m) /\ q \notin Below(q) /\ Below(q) \subseteq Below(m)
    OBVIOUS
  <2>2. <<Below(q), Below(m)>> \in R
    BY <2>1 DEF StrictSubsetOrdering
  <2> QED BY <2>2, <1>2, <1>3
<1> QED BY <1>4 DEF First

(* What is known of one task.                                                *)
LEMMA TaskValues ==
    ASSUME Inv, NEW t \in Task
    PROVE  /\ OSTCBPrio[t] \in PIP..OS_LOWEST_PRIO /\ OSTCBPrio[t] \in Nat /\ OSTCBPrio[t] <= t
           /\ OSTCBPrio[t] = t \/ (t = owner /\ OSTCBPrio[t] = PIP)
           /\ OSTCBStat[t] \subseteq {"MUTEX", "SUSPEND"} /\ OSTCBDly[t] \in Nat
           /\ OSTCBStatPend[t] \in {"OK", "TO"} /\ inPend[t] \in BOOLEAN
           /\ OSTCBPrioTbl[OSTCBPrio[t]] = t /\ OSTCBPrioTbl[t] = t
           /\ \A u \in Task : OSTCBPrio[u] = OSTCBPrio[t] => u = t
           /\ WaitOK(t)
<1>1. OSTCBPrio[t] \in PIP..OS_LOWEST_PRIO /\ OSTCBPrio[t] \in Nat
  BY TaskFacts DEF Inv, MutexTypeOK
<1>2. OSTCBPrio[t] = t \/ (t = owner /\ OSTCBPrio[t] = PIP)
  BY DEF Inv, RaisedOK
<1>3. OSTCBPrio[t] <= t
  BY <1>2, TaskFacts
<1>4. OSTCBStat[t] \in SUBSET {"MUTEX", "SUSPEND"} /\ OSTCBDly[t] \in Nat
  BY DEF Inv, MutexTypeOK
<1>5. OSTCBStatPend[t] \in {"OK", "TO"}
  BY DEF Inv, MutexTypeOK
<1>6. inPend[t] \in BOOLEAN
  BY DEF Inv, MutexTypeOK
<1>7. /\ OSTCBPrioTbl[OSTCBPrio[t]] = t /\ OSTCBPrioTbl[t] = t
      /\ \A u \in Task : OSTCBPrio[u] = OSTCBPrio[t] => u = t
  BY DEF Inv, MutexTypeOK
<1>8. WaitOK(t)
  BY DEF Inv
<1> QED BY <1>1, <1>2, <1>3, <1>4, <1>5, <1>6, <1>7, <1>8

(* The highest of some ready tasks, one of which is Idle.                    *)
LEMMA HighestExists ==
    ASSUME NEW rdy, NEW prio \in [Task -> PIP..OS_LOWEST_PRIO], NEW tbl,
           \A t \in Task : tbl[prio[t]] = t,
           \A p \in rdy : \E t \in Task : prio[t] = p, prio[Idle] \in rdy
    PROVE  /\ First(rdy) \in rdy /\ \A q \in rdy : First(rdy) <= q
           /\ tbl[First(rdy)] \in Task /\ prio[tbl[First(rdy)]] = First(rdy)
           /\ \A t \in Task : prio[t] \in rdy /\ (\A q \in rdy : prio[t] <= q)
                 => t = tbl[First(rdy)]
<1>1. rdy \subseteq Nat /\ rdy # {}
  BY TaskFacts
<1>2. First(rdy) \in rdy /\ \A q \in rdy : First(rdy) <= q
  BY <1>1, FirstIsLeast
<1>3. tbl[First(rdy)] \in Task /\ prio[tbl[First(rdy)]] = First(rdy)
  BY <1>2
<1>4. ASSUME NEW t \in Task, prio[t] \in rdy, \A q \in rdy : prio[t] <= q
      PROVE  t = tbl[First(rdy)]
  <2>1. /\ prio[t] <= First(rdy) /\ First(rdy) <= prio[t]
        /\ prio[t] \in Nat /\ First(rdy) \in Nat
    BY <1>1, <1>2, <1>4
  <2>2. prio[t] = First(rdy)
    BY <2>1
  <2> QED BY <2>2
<1> QED BY <1>2, <1>3, <1>4

(* OS_Sched: the highest ready task runs from here.                          *)
LEMMA SchedStep ==
    ASSUME ReadyOK', IdleOK', OSTCBPrio' \in [Task -> PIP..OS_LOWEST_PRIO],
           \A t \in Task : OSTCBPrioTbl'[OSTCBPrio'[t]] = t,
           OSTCBCur \in Task, NEW prio, prio = OSTCBPrio'[OSTCBCur], OS_Sched(prio)
    PROVE  /\ OSTCBCur' \in Task /\ OSPrioCur' = OSTCBPrio'[OSTCBCur']
           /\ unscheduled' \in BOOLEAN /\ CurOK'
<1> DEFINE p == First(OSRdyTbl')
<1>1. (\A q \in OSRdyTbl' : \E t \in Task : OSTCBPrio'[t] = q) /\ OSTCBPrio'[Idle] \in OSRdyTbl'
  BY TaskFacts DEF ReadyOK, IdleOK
<1>2. /\ p \in OSRdyTbl' /\ \A q \in OSRdyTbl' : p <= q
      /\ OSTCBPrioTbl'[p] \in Task /\ OSTCBPrio'[OSTCBPrioTbl'[p]] = p
  BY <1>1, HighestExists
<1>3. /\ OSPrioCur' = p /\ ~unscheduled' /\ unscheduled' \in BOOLEAN
      /\ OSTCBCur' = IF p # prio THEN OSTCBPrioTbl'[p] ELSE OSTCBCur
  BY DEF OS_Sched
<1> HIDE DEF p
<1>4. OSTCBCur' = OSTCBPrioTbl'[p]
  BY <1>3
<1> QED BY <1>2, <1>3, <1>4 DEF CurOK, IsHighest

(* No OS_Sched: the running task goes on, and is ready and the highest still.*)
LEMMA NoSchedStep ==
    ASSUME OSTCBCur \in Task, NEW prio, prio = OSTCBPrio'[OSTCBCur], NEW lowered \in BOOLEAN,
           NoSched(prio, lowered), unscheduled \in BOOLEAN,
           OSTCBPrio'[OSTCBCur] \in OSRdyTbl',
           ~unscheduled /\ ~lowered => \A p \in OSRdyTbl' : OSTCBPrio'[OSTCBCur] <= p,
           unscheduled \/ lowered => owner' \in {NoTask, OSTCBCur}
    PROVE  /\ OSTCBCur' \in Task /\ OSPrioCur' = OSTCBPrio'[OSTCBCur']
           /\ unscheduled' \in BOOLEAN /\ CurOK'
BY DEF NoSched, CurOK, IsHighest

-----------------------------------------------------------------------------
LEMMA InitInv == MutexInit => Inv
<1> SUFFICES ASSUME MutexInit PROVE Inv
    OBVIOUS
<1>1. /\ OSTCBPrio = [t \in Task |-> t] /\ OSRdyTbl = Task
      /\ OSTCBPrioTbl = [p \in PIP..OS_LOWEST_PRIO |-> IF p = PIP THEN NoTask ELSE p]
      /\ OSPrioCur = PIP + 1 /\ OSTCBCur = PIP + 1 /\ ~unscheduled
      /\ ~created /\ OSEventTbl = {} /\ ownerPrio = AVAILABLE /\ owner = NoTask
      /\ holds = {} /\ orphan = {}
  BY DEF MutexInit
<1>2. \A t \in Task : /\ OSTCBStat[t] = {} /\ OSTCBStatPend[t] = "OK" /\ OSTCBDly[t] = 0
                      /\ ~inPend[t] /\ OSTCBPrio[t] = t /\ OSTCBPrioTbl[t] = t
  BY <1>1, TaskFacts DEF MutexInit
<1>3. TblOK
  BY <1>1, TaskFacts DEF TblOK
<1>4. MutexTypeOK
  <2>1. OSTCBPrio \in [Task -> PIP..OS_LOWEST_PRIO]
    BY <1>1, TaskFacts
  <2>2. OSTCBStat \in [Task -> SUBSET {"MUTEX", "SUSPEND"}] /\ OSTCBDly \in [Task -> Nat]
    BY DEF MutexInit
  <2>3. inPend \in [Task -> BOOLEAN]
    BY DEF MutexInit
  <2>4. OSTCBStatPend \in [Task -> {"OK", "TO"}]
    BY DEF MutexInit
  <2>5. created \in BOOLEAN /\ unscheduled \in BOOLEAN
    BY DEF MutexInit
  <2>6. OSTCBPrioTbl[PIP] = NoTask
    BY <1>1, TaskFacts
  <2> QED BY <1>1, <1>2, <2>1, <2>2, <2>3, <2>4, <2>5, <2>6, TaskFacts DEF MutexTypeOK
<1>5. ReadyOK /\ RaisedOK /\ IdleOK /\ MutualExclusion
  BY <1>1, <1>2, TaskFacts DEF ReadyOK, RaisedOK, IdleOK, MutualExclusion
<1>6. \A t \in Task : WaitOK(t)
  BY <1>1, <1>2 DEF WaitOK
<1>7. CurOK
  BY <1>1, <1>2, TaskFacts DEF CurOK, IsHighest
<1> QED BY <1>3, <1>4, <1>5, <1>6, <1>7 DEF Inv

-----------------------------------------------------------------------------
(* Ticks, delays and suspension leave the mutex and all priorities alone.    *)
LEMMA QuietFrame ==
    ASSUME Inv,
           UNCHANGED <<OSTCBPrio, OSTCBPrioTbl, created, OSEventTbl, ownerPrio, owner, inPend,
                       holds, orphan>>,
           OSTCBStat' \in [Task -> SUBSET {"MUTEX", "SUSPEND"}],
           OSTCBStatPend' \in [Task -> {"OK", "TO"}], OSTCBDly' \in [Task -> Nat],
           ReadyOK', \A t \in Task : WaitOK(t)', IdleOK', CurOK',
           OSTCBCur' \in Task, OSPrioCur' = OSTCBPrio'[OSTCBCur'], unscheduled' \in BOOLEAN
    PROVE  Inv'
<1>1. OSRdyTbl' \subseteq PIP..OS_LOWEST_PRIO
  BY DEF Inv, MutexTypeOK, ReadyOK
<1>2. MutexTypeOK'
  BY <1>1 DEF Inv, MutexTypeOK
<1>3. TblOK' /\ RaisedOK' /\ MutualExclusion'
  BY DEF Inv, TblOK, RaisedOK, MutualExclusion
<1> QED BY <1>2, <1>3 DEF Inv

(* Who runs was chosen before, and is ready.                                 *)
LEMMA CurFacts ==
    ASSUME Inv
    PROVE  /\ OSTCBCur \in Task /\ OSPrioCur = OSTCBPrio[OSTCBCur]
           /\ OSTCBPrio[OSTCBCur] \in OSRdyTbl
           /\ OSTCBStat[OSTCBCur] = {} /\ OSTCBDly[OSTCBCur] = 0
           /\ unscheduled \in BOOLEAN
           /\ ~unscheduled => \A p \in OSRdyTbl : OSTCBPrio[OSTCBCur] <= p
           /\ unscheduled => owner \in {NoTask, OSTCBCur}
BY DEF Inv, MutexTypeOK, CurOK, IsHighest, ReadyOK

LEMMA TimeTickInv == ASSUME Inv, OSTimeTick PROVE Inv'
<1> DEFINE done == {t \in Task : OSTCBDly[t] = 1}
<1>1. /\ OSTCBDly' = [t \in Task |-> IF OSTCBDly[t] = 0 THEN 0 ELSE OSTCBDly[t] - 1]
      /\ OSTCBStat' = [t \in Task |->
             IF t \in done THEN OSTCBStat[t] \ {"MUTEX"} ELSE OSTCBStat[t]]
      /\ OSTCBStatPend' = [t \in Task |->
             IF t \in done THEN IF "MUTEX" \in OSTCBStat[t] THEN "TO" ELSE "OK"
             ELSE OSTCBStatPend[t]]
      /\ OSRdyTbl' = OSRdyTbl \cup {OSTCBPrio[t] : t \in {u \in done : "SUSPEND" \notin OSTCBStat[u]}}
      /\ UNCHANGED <<OSTCBPrio, OSTCBPrioTbl, created, OSEventTbl, ownerPrio, owner, inPend,
                     holds, orphan>>
      /\ OS_Sched(OSPrioCur)
  BY DEF OSTimeTick, TickStatPend, Runnable, event
<1>2. ASSUME NEW t \in Task
      PROVE  /\ OSTCBStat[t] \subseteq {"MUTEX", "SUSPEND"} /\ OSTCBDly[t] \in Nat
             /\ OSTCBStatPend[t] \in {"OK", "TO"}
             /\ \A u \in Task : OSTCBPrio[u] = OSTCBPrio[t] => u = t
             /\ WaitOK(t)
             /\ OSTCBPrio[t] \in OSRdyTbl <=> OSTCBStat[t] = {} /\ OSTCBDly[t] = 0
             /\ OSTCBDly'[t] = IF OSTCBDly[t] = 0 THEN 0 ELSE OSTCBDly[t] - 1
             /\ OSTCBDly[t] = 1 => /\ OSTCBStat'[t] = OSTCBStat[t] \ {"MUTEX"}
                                   /\ OSTCBStatPend'[t] = IF "MUTEX" \in OSTCBStat[t]
                                                          THEN "TO" ELSE "OK"
             /\ OSTCBDly[t] # 1 => /\ OSTCBStat'[t] = OSTCBStat[t]
                                   /\ OSTCBStatPend'[t] = OSTCBStatPend[t]
  BY <1>1, TaskValues DEF Inv, ReadyOK
<1>3. OSTCBStat' \in [Task -> SUBSET {"MUTEX", "SUSPEND"}]
  BY <1>1, <1>2
<1>4. OSTCBStatPend' \in [Task -> {"OK", "TO"}]
  BY <1>1, <1>2
<1>5. OSTCBDly' \in [Task -> Nat]
  <2>1. ASSUME NEW t \in Task
        PROVE  (IF OSTCBDly[t] = 0 THEN 0 ELSE OSTCBDly[t] - 1) \in Nat
    <3>1. OSTCBDly[t] \in Nat
      BY <1>2
    <3> QED BY <3>1
  <2> QED BY <1>1, <2>1
<1>6. ReadyOK'
  <2>1. ASSUME NEW t \in Task
        PROVE  OSTCBPrio[t] \in OSRdyTbl' <=> OSTCBStat'[t] = {} /\ OSTCBDly'[t] = 0
    <3>1. OSTCBPrio[t] \in OSRdyTbl' <=> \/ OSTCBPrio[t] \in OSRdyTbl
                                         \/ OSTCBDly[t] = 1 /\ "SUSPEND" \notin OSTCBStat[t]
      <4>1. \A u \in Task : OSTCBPrio[u] = OSTCBPrio[t] => u = t
        BY <1>2
      <4>2. OSRdyTbl' = OSRdyTbl \cup {OSTCBPrio[u] : u \in
               {v \in Task : OSTCBDly[v] = 1 /\ "SUSPEND" \notin OSTCBStat[v]}}
        BY <1>1
      <4> QED BY <4>1, <4>2
    <3>2. /\ OSTCBPrio[t] \in OSRdyTbl <=> OSTCBStat[t] = {} /\ OSTCBDly[t] = 0
          /\ OSTCBDly[t] \in Nat /\ OSTCBStat[t] \subseteq {"MUTEX", "SUSPEND"}
          /\ OSTCBDly'[t] = IF OSTCBDly[t] = 0 THEN 0 ELSE OSTCBDly[t] - 1
      BY <1>2
    <3>3. CASE OSTCBDly[t] = 1
      <4>1. OSTCBStat'[t] = OSTCBStat[t] \ {"MUTEX"} /\ OSTCBDly'[t] = 0
        BY <1>2, <3>2, <3>3
      <4> QED BY <3>1, <3>2, <3>3, <4>1
    <3>4. CASE OSTCBDly[t] # 1
      <4>1. OSTCBStat'[t] = OSTCBStat[t] /\ (OSTCBDly'[t] = 0 <=> OSTCBDly[t] = 0)
        BY <1>2, <3>2, <3>4
      <4> QED BY <3>1, <3>2, <3>4, <4>1
    <3> QED BY <3>3, <3>4
  <2>2. ASSUME NEW p \in OSRdyTbl' PROVE \E t \in Task : OSTCBPrio[t] = p
    BY <1>1 DEF Inv, ReadyOK
  <2>3. OSTCBPrio' = OSTCBPrio
    BY <1>1
  <2> QED BY <2>1, <2>2, <2>3 DEF ReadyOK
<1>7. ASSUME NEW t \in Task PROVE WaitOK(t)'
  <2>1. /\ WaitOK(t) /\ OSTCBDly[t] \in Nat
        /\ OSTCBDly'[t] = IF OSTCBDly[t] = 0 THEN 0 ELSE OSTCBDly[t] - 1
        /\ UNCHANGED <<OSTCBPrio, OSEventTbl, owner, inPend, orphan>>
    BY <1>1, <1>2
  <2>2. CASE OSTCBDly[t] = 1
    <3>1. /\ OSTCBStat'[t] = OSTCBStat[t] \ {"MUTEX"} /\ OSTCBDly'[t] = 0
          /\ OSTCBStatPend'[t] = IF "MUTEX" \in OSTCBStat[t] THEN "TO" ELSE "OK"
      BY <1>2, <2>1, <2>2
    <3> QED BY <2>1, <2>2, <3>1 DEF WaitOK
  <2>3. CASE OSTCBDly[t] # 1
    <3>1. /\ OSTCBStat'[t] = OSTCBStat[t] /\ OSTCBStatPend'[t] = OSTCBStatPend[t]
          /\ OSTCBDly[t] = 0 => OSTCBDly'[t] = 0
      BY <1>2, <2>1, <2>3
    <3> QED BY <2>1, <3>1 DEF WaitOK
  <2> QED BY <2>2, <2>3
<1>8. IdleOK'
  BY <1>1, <1>2, TaskFacts DEF Inv, IdleOK
<1>9. /\ OSTCBCur' \in Task /\ OSPrioCur' = OSTCBPrio'[OSTCBCur']
      /\ unscheduled' \in BOOLEAN /\ CurOK'
  BY <1>1, <1>6, <1>8, CurFacts, SchedStep DEF Inv, MutexTypeOK
<1> QED BY <1>1, <1>3, <1>4, <1>5, <1>6, <1>7, <1>8, <1>9, QuietFrame

(* One task changes, and the mutex and all priorities stay.                  *)
LEMMA OneTask ==
    ASSUME Inv, NEW t \in Task, t # Idle,
           UNCHANGED <<OSTCBPrio, OSTCBPrioTbl, OSEventTbl, owner, inPend, orphan, OSTCBStatPend>>,
           \A u \in Task : u # t => OSTCBStat'[u] = OSTCBStat[u] /\ OSTCBDly'[u] = OSTCBDly[u],
           OSRdyTbl' \in {OSRdyTbl, OSRdyTbl \cup {OSTCBPrio[t]}, OSRdyTbl \ {OSTCBPrio[t]}},
           OSTCBPrio[t] \in OSRdyTbl' <=> OSTCBStat'[t] = {} /\ OSTCBDly'[t] = 0,
           "MUTEX" \in OSTCBStat'[t] <=> "MUTEX" \in OSTCBStat[t],
           inPend[t] => OSTCBDly'[t] = OSTCBDly[t]
    PROVE  ReadyOK' /\ (\A u \in Task : WaitOK(u)') /\ IdleOK'
<1>1. ReadyOK'
  <2>1. ASSUME NEW u \in Task, u # t
        PROVE  OSTCBPrio[u] \in OSRdyTbl' <=> OSTCBStat'[u] = {} /\ OSTCBDly'[u] = 0
    <3>1. OSTCBPrio[u] # OSTCBPrio[t]
      BY <2>1, TaskValues
    <3>2. OSTCBPrio[u] \in OSRdyTbl' <=> OSTCBPrio[u] \in OSRdyTbl
      BY <3>1
    <3> QED BY <2>1, <3>2 DEF Inv, ReadyOK
  <2>2. ASSUME NEW p \in OSRdyTbl' PROVE \E u \in Task : OSTCBPrio[u] = p
    BY DEF Inv, ReadyOK
  <2> QED BY <2>1, <2>2 DEF ReadyOK
<1>2. ASSUME NEW u \in Task PROVE WaitOK(u)'
  <2>1. WaitOK(u)
    BY TaskValues
  <2>2. CASE u = t
    BY <2>1, <2>2 DEF WaitOK
  <2>3. CASE u # t
    BY <2>1, <2>3 DEF WaitOK
  <2> QED BY <2>2, <2>3
<1>3. IdleOK'
  BY TaskFacts DEF Inv, IdleOK
<1> QED BY <1>1, <1>2, <1>3

LEMMA TimeDlyInv == ASSUME Inv, NEW ticks \in Timeout, OSTimeDly(ticks) PROVE Inv'
<1>0. PICK t \in Task : t = OSTCBCur
  BY CurFacts
<1>1. /\ t # Idle /\ ~inPend[t]
      /\ OSTCBDly' = [OSTCBDly EXCEPT ![t] = ticks] /\ OSRdyTbl' = OSRdyTbl \ {OSTCBPrio[t]}
      /\ UNCHANGED <<OSTCBPrio, OSTCBPrioTbl, OSTCBStat, OSTCBStatPend, created, OSEventTbl,
                     ownerPrio, owner, inPend, holds, orphan>>
      /\ OS_Sched(OSPrioCur)
  BY <1>0 DEF OSTimeDly, Calling, event
<1>2. ticks \in Nat /\ ticks # 0
  BY MutexAssumption
<1>3. /\ OSTCBDly'[t] = ticks /\ OSTCBDly' \in [Task -> Nat]
      /\ \A u \in Task : u # t => OSTCBDly'[u] = OSTCBDly[u]
  BY <1>1, <1>2 DEF Inv, MutexTypeOK
<1>4. OSTCBStat' \in [Task -> SUBSET {"MUTEX", "SUSPEND"}] /\ OSTCBStatPend' \in [Task -> {"OK", "TO"}]
  BY <1>1 DEF Inv, MutexTypeOK
<1>5. ReadyOK' /\ (\A u \in Task : WaitOK(u)') /\ IdleOK'
  <2>1. OSTCBPrio[t] \in OSRdyTbl' <=> OSTCBStat'[t] = {} /\ OSTCBDly'[t] = 0
    BY <1>1, <1>2, <1>3
  <2> QED BY <1>1, <1>3, <2>1, OneTask
<1>6. /\ OSTCBCur' \in Task /\ OSPrioCur' = OSTCBPrio'[OSTCBCur']
      /\ unscheduled' \in BOOLEAN /\ CurOK'
  BY <1>1, <1>5, CurFacts, SchedStep DEF Inv, MutexTypeOK
<1> QED BY <1>1, <1>3, <1>4, <1>5, <1>6, QuietFrame

LEMMA SuspendInv ==
    ASSUME Inv, NEW t \in Task \ {Idle}, OSTaskSuspend(t)
    PROVE  Inv'
<1>1. /\ OSTCBStat' = [OSTCBStat EXCEPT ![t] = @ \cup {"SUSPEND"}]
      /\ OSRdyTbl' = OSRdyTbl \ {OSTCBPrio[t]}
      /\ UNCHANGED <<OSTCBPrio, OSTCBPrioTbl, OSTCBStatPend, OSTCBDly, created, OSEventTbl,
                     ownerPrio, owner, inPend, holds, orphan>>
      /\ IF t = OSTCBCur THEN OS_Sched(OSPrioCur) ELSE NoSched(OSPrioCur, FALSE)
  BY DEF OSTaskSuspend, event
<1>2. OSTCBStat[t] \cup {"SUSPEND"} \in SUBSET {"MUTEX", "SUSPEND"}
  BY TaskValues
<1>3. /\ OSTCBStat'[t] = OSTCBStat[t] \cup {"SUSPEND"}
      /\ \A u \in Task : u # t => OSTCBStat'[u] = OSTCBStat[u]
      /\ OSTCBStat' \in [Task -> SUBSET {"MUTEX", "SUSPEND"}]
  BY <1>1, <1>2 DEF Inv, MutexTypeOK
<1>4. OSTCBDly' \in [Task -> Nat] /\ OSTCBStatPend' \in [Task -> {"OK", "TO"}]
  BY <1>1 DEF Inv, MutexTypeOK
<1>5. ReadyOK' /\ (\A u \in Task : WaitOK(u)') /\ IdleOK'
  <2>1. OSTCBPrio[t] \in OSRdyTbl' <=> OSTCBStat'[t] = {} /\ OSTCBDly'[t] = 0
    BY <1>1, <1>3
  <2>2. "MUTEX" \in OSTCBStat'[t] <=> "MUTEX" \in OSTCBStat[t]
    BY <1>3
  <2> QED BY <1>1, <1>3, <2>1, <2>2, OneTask
<1>6. /\ OSTCBCur' \in Task /\ OSPrioCur' = OSTCBPrio'[OSTCBCur']
      /\ unscheduled' \in BOOLEAN /\ CurOK'
  <2>1. CASE t = OSTCBCur
    BY <1>1, <1>5, <2>1, CurFacts, SchedStep DEF Inv, MutexTypeOK
  <2>2. CASE t # OSTCBCur
    <3>1. OSTCBPrio[OSTCBCur] # OSTCBPrio[t]
      BY <2>2, CurFacts, TaskValues
    <3>2. /\ OSTCBPrio'[OSTCBCur] \in OSRdyTbl' /\ NoSched(OSPrioCur, FALSE)
          /\ ~unscheduled => \A p \in OSRdyTbl' : OSTCBPrio'[OSTCBCur] <= p
      BY <1>1, <2>2, <3>1, CurFacts
    <3> QED BY <1>1, <3>2, CurFacts, NoSchedStep
  <2> QED BY <2>1, <2>2
<1> QED BY <1>1, <1>3, <1>4, <1>5, <1>6, QuietFrame

LEMMA ResumeInv == ASSUME Inv, NEW t \in Task \ {Idle}, OSTaskResume(t) PROVE Inv'
<1>1. /\ "SUSPEND" \in OSTCBStat[t]
      /\ OSTCBStat' = [OSTCBStat EXCEPT ![t] = @ \ {"SUSPEND"}]
      /\ UNCHANGED <<OSTCBPrio, OSTCBPrioTbl, OSTCBStatPend, OSTCBDly, created, OSEventTbl,
                     ownerPrio, owner, inPend, holds, orphan>>
      /\ IF OSTCBStat[t] = {"SUSPEND"} /\ OSTCBDly[t] = 0
         THEN OSRdyTbl' = OSRdyTbl \cup {OSTCBPrio[t]} /\ OS_Sched(OSPrioCur)
         ELSE UNCHANGED OSRdyTbl /\ NoSched(OSPrioCur, FALSE)
  BY DEF OSTaskResume, event
<1>2. OSTCBStat[t] \ {"SUSPEND"} \in SUBSET {"MUTEX", "SUSPEND"} /\ WaitOK(t)
  BY TaskValues
<1>3. /\ OSTCBStat'[t] = OSTCBStat[t] \ {"SUSPEND"}
      /\ \A u \in Task : u # t => OSTCBStat'[u] = OSTCBStat[u]
      /\ OSTCBStat' \in [Task -> SUBSET {"MUTEX", "SUSPEND"}]
  BY <1>1, <1>2 DEF Inv, MutexTypeOK
<1>4. OSTCBDly' \in [Task -> Nat] /\ OSTCBStatPend' \in [Task -> {"OK", "TO"}]
  BY <1>1 DEF Inv, MutexTypeOK
<1>5. ReadyOK' /\ (\A u \in Task : WaitOK(u)') /\ IdleOK'
  <2>1. OSTCBPrio[t] \in OSRdyTbl' <=> OSTCBStat'[t] = {} /\ OSTCBDly'[t] = 0
    <3>1. OSTCBPrio[t] \notin OSRdyTbl
      BY <1>1 DEF Inv, ReadyOK
    <3>2. OSTCBStat'[t] = {} <=> OSTCBStat[t] = {"SUSPEND"}
      BY <1>1, <1>2, <1>3
    <3> QED BY <1>1, <3>1, <3>2
  <2>2. "MUTEX" \in OSTCBStat'[t] <=> "MUTEX" \in OSTCBStat[t]
    BY <1>3
  <2>3. OSRdyTbl' \in {OSRdyTbl, OSRdyTbl \cup {OSTCBPrio[t]}, OSRdyTbl \ {OSTCBPrio[t]}}
    BY <1>1
  <2> QED BY <1>1, <1>3, <2>1, <2>2, <2>3, OneTask
<1>6. /\ OSTCBCur' \in Task /\ OSPrioCur' = OSTCBPrio'[OSTCBCur']
      /\ unscheduled' \in BOOLEAN /\ CurOK'
  <2>1. CASE OS_Sched(OSPrioCur)
    BY <1>1, <1>5, <2>1, CurFacts, SchedStep DEF Inv, MutexTypeOK
  <2>2. CASE UNCHANGED OSRdyTbl /\ NoSched(OSPrioCur, FALSE)
    BY <1>1, <2>2, CurFacts, NoSchedStep
  <2> QED BY <1>1, <2>1, <2>2
<1> QED BY <1>1, <1>3, <1>4, <1>5, <1>6, QuietFrame

-----------------------------------------------------------------------------
(* The calls on the mutex.  The caller is at its own priority or raised, and *)
(* neither waits nor was answered.                                           *)
LEMMA CallerFacts ==
    ASSUME Inv, Calling
    PROVE  /\ OSTCBCur \in Task /\ OSTCBCur # Idle /\ ~inPend[OSTCBCur]
           /\ OSTCBCur \notin OSEventTbl /\ OSTCBCur \notin orphan
           /\ OSTCBCur # owner => OSTCBPrio[OSTCBCur] = OSTCBCur
           /\ ~Raised => OSTCBPrio[OSTCBCur] = OSTCBCur
<1>1. PICK t \in Task : t = OSTCBCur
  BY CurFacts
<1>2. t # Idle /\ ~inPend[t] /\ WaitOK(t) /\ (OSTCBPrio[t] = t \/ (t = owner /\ OSTCBPrio[t] = PIP))
  BY <1>1, TaskValues DEF Calling
<1>3. t \notin OSEventTbl /\ t \notin orphan
  BY <1>2 DEF WaitOK
<1>4. ~Raised => OSTCBPrio[t] = t
  BY <1>2, TaskFacts DEF Raised
<1> QED BY <1>1, <1>2, <1>3, <1>4

LEMMA CreateInv == ASSUME Inv, OSMutexCreate PROVE Inv'
<1>1. /\ Calling /\ ~created /\ OSTCBPrioTbl[PIP] = NoTask
      /\ created' /\ created' \in BOOLEAN
      /\ OSTCBPrioTbl' = [OSTCBPrioTbl EXCEPT ![PIP] = RESERVED]
      /\ UNCHANGED <<OSTCBPrio, OSTCBStat, OSTCBStatPend, OSTCBDly, OSRdyTbl,
                     OSEventTbl, ownerPrio, owner, inPend, holds, orphan>>
      /\ NoSched(OSPrioCur, FALSE)
  BY DEF OSMutexCreate
<1>2. /\ TblOK' /\ OSTCBPrioTbl'[PIP] = RESERVED
      /\ \A p \in PIP..OS_LOWEST_PRIO : p # PIP => OSTCBPrioTbl'[p] = OSTCBPrioTbl[p]
  BY <1>1, TaskFacts DEF Inv, TblOK
<1>3. \A t \in Task : OSTCBPrio[t] # PIP
  BY <1>1, TaskValues, TaskFacts
<1>4. /\ OSTCBCur' \in Task /\ OSPrioCur' = OSTCBPrio'[OSTCBCur']
      /\ unscheduled' \in BOOLEAN /\ CurOK'
  BY <1>1, CurFacts, NoSchedStep
<1>5. MutexTypeOK'
  <2>1. \A t \in Task : OSTCBPrioTbl'[OSTCBPrio'[t]] = t /\ OSTCBPrioTbl'[t] = t
    BY <1>1, <1>2, <1>3, TaskValues, TaskFacts
  <2> QED BY <1>1, <1>2, <1>4, <2>1 DEF Inv, MutexTypeOK
<1>6. ReadyOK' /\ RaisedOK' /\ IdleOK' /\ MutualExclusion' /\ (\A t \in Task : WaitOK(t)')
  BY <1>1 DEF Inv, ReadyOK, RaisedOK, IdleOK, MutualExclusion, WaitOK
<1> QED BY <1>2, <1>4, <1>5, <1>6 DEF Inv

LEMMA AcceptInv == ASSUME Inv, OSMutexAccept PROVE Inv'
<1>1. /\ Calling /\ ownerPrio = AVAILABLE
      /\ ownerPrio' = OSTCBPrio[OSTCBCur] /\ owner' = OSTCBCur
      /\ holds' = holds \cup {OSTCBCur}
      /\ UNCHANGED <<OSTCBPrio, OSTCBPrioTbl, OSTCBStat, OSTCBStatPend, OSTCBDly, OSRdyTbl,
                     created, OSEventTbl, inPend, orphan>>
      /\ NoSched(OSPrioCur, FALSE)
  BY DEF OSMutexAccept, tcb
<1>2. /\ owner = NoTask /\ OSEventTbl = {} /\ holds = {}
      /\ \A t \in Task : OSTCBPrio[t] = t
  <2>1. owner = NoTask
    BY <1>1, TaskFacts DEF Inv, MutexTypeOK
  <2>2. OSEventTbl = {}
    BY <2>1, TaskValues DEF Inv, MutexTypeOK, WaitOK
  <2>3. holds = {}
    BY <2>1, TaskFacts DEF Inv, MutexTypeOK, MutualExclusion
  <2> QED BY <2>1, <2>2, <2>3, TaskValues, TaskFacts
<1>3. OSTCBCur \in Task /\ ~inPend[OSTCBCur]
  BY <1>1, CallerFacts
<1>4. /\ OSTCBCur' \in Task /\ OSPrioCur' = OSTCBPrio'[OSTCBCur']
      /\ unscheduled' \in BOOLEAN /\ CurOK'
  BY <1>1, CurFacts, NoSchedStep
<1>5. MutexTypeOK'
  BY <1>1, <1>2, <1>3, <1>4, TaskFacts DEF Inv, MutexTypeOK
<1>6. TblOK' /\ ReadyOK' /\ RaisedOK' /\ IdleOK' /\ MutualExclusion'
  BY <1>1, <1>2 DEF Inv, TblOK, ReadyOK, RaisedOK, IdleOK, MutualExclusion
<1>7. ASSUME NEW t \in Task PROVE WaitOK(t)'
  <2>1. WaitOK(t)
    BY TaskValues
  <2> QED BY <1>1, <1>2, <1>3, <2>1, TaskFacts DEF WaitOK
<1> QED BY <1>4, <1>5, <1>6, <1>7 DEF Inv

LEMMA PendReturnsInv == ASSUME Inv, OSMutexPendReturns PROVE Inv'
<1>0. PICK t \in Task : t = OSTCBCur
  BY CurFacts
<1>1. /\ inPend[t] /\ inPend' = [inPend EXCEPT ![t] = FALSE]
      /\ IF OSTCBStatPend[t] = "OK"
         THEN /\ holds' = IF t \in orphan THEN holds ELSE holds \cup {t}
              /\ UNCHANGED OSEventTbl
         ELSE OSEventTbl' = OSEventTbl \ {OSTCBPrio[t]} /\ UNCHANGED holds
      /\ orphan' = orphan \ {t}
      /\ OSTCBStat' = [OSTCBStat EXCEPT ![t] = {}]
      /\ OSTCBStatPend' = [OSTCBStatPend EXCEPT ![t] = "OK"]
      /\ UNCHANGED <<OSTCBPrio, OSTCBPrioTbl, OSTCBDly, OSRdyTbl, created, ownerPrio, owner>>
      /\ NoSched(OSPrioCur, FALSE)
  BY <1>0 DEF OSMutexPendReturns, WithoutMe
<1>2. /\ OSTCBStat[t] = {} /\ WaitOK(t) /\ OSTCBStatPend[t] \in {"OK", "TO"}
      /\ OSTCBPrio[t] = t \/ t = owner
  BY <1>0, CurFacts, TaskValues
<1>3. /\ t \in OSEventTbl <=> OSTCBStatPend[t] = "TO"
      /\ t \notin OSEventTbl => t = owner \/ t \in orphan
      /\ t \in OSEventTbl => OSTCBPrio[t] = t
  BY <1>1, <1>2 DEF WaitOK
<1>4. OSEventTbl' = OSEventTbl \ {t}
  BY <1>1, <1>2, <1>3
<1>5. /\ OSTCBStat'[t] = {} /\ ~inPend'[t]
      /\ \A u \in Task : u # t => /\ OSTCBStat'[u] = OSTCBStat[u] /\ inPend'[u] = inPend[u]
                                  /\ OSTCBStatPend'[u] = OSTCBStatPend[u]
  BY <1>1 DEF Inv, MutexTypeOK
<1>6. MutualExclusion' /\ holds' \subseteq Task
  BY <1>1, <1>2, <1>3 DEF Inv, MutualExclusion, MutexTypeOK
<1>7. /\ OSTCBCur' \in Task /\ OSPrioCur' = OSTCBPrio'[OSTCBCur']
      /\ unscheduled' \in BOOLEAN /\ CurOK'
  BY <1>1, CurFacts, NoSchedStep
<1>8. MutexTypeOK'
  <2>1. OSTCBStat' \in [Task -> SUBSET {"MUTEX", "SUSPEND"}]
    BY <1>1 DEF Inv, MutexTypeOK
  <2>2. OSTCBStatPend' \in [Task -> {"OK", "TO"}]
    BY <1>1 DEF Inv, MutexTypeOK
  <2>3. inPend' \in [Task -> BOOLEAN]
    BY <1>1 DEF Inv, MutexTypeOK
  <2>4. OSEventTbl' \subseteq Task /\ orphan' \subseteq Task
    BY <1>1, <1>4 DEF Inv, MutexTypeOK
  <2> QED BY <1>1, <1>6, <1>7, <2>1, <2>2, <2>3, <2>4 DEF Inv, MutexTypeOK
<1>9. ReadyOK' /\ IdleOK'
  <2>1. \A u \in Task : OSTCBStat'[u] = OSTCBStat[u] /\ (inPend'[u] => inPend[u])
    BY <1>2, <1>5
  <2> QED BY <1>1, <2>1, TaskFacts DEF Inv, ReadyOK, IdleOK
<1>10. ASSUME NEW u \in Task PROVE WaitOK(u)'
  <2>1. WaitOK(u)
    BY TaskValues
  <2>2. CASE u = t
    BY <1>1, <1>4, <1>5, <2>2 DEF WaitOK
  <2>3. CASE u # t
    BY <1>1, <1>4, <1>5, <2>1, <2>3 DEF WaitOK
  <2> QED BY <2>2, <2>3
<1>11. TblOK' /\ RaisedOK'
  BY <1>1 DEF Inv, TblOK, RaisedOK
<1> QED BY <1>6, <1>7, <1>8, <1>9, <1>10, <1>11 DEF Inv

(* The owner never waits for its own mutex, and only it may be raised.       *)
LEMMA OwnerFacts ==
    ASSUME Inv, owner # NoTask
    PROVE  /\ owner \in Task /\ ownerPrio = owner /\ owner \notin OSEventTbl
           /\ \A u \in Task : u # owner => OSTCBPrio[u] = u
<1>1. owner \in Task /\ ownerPrio = owner
  BY DEF Inv, MutexTypeOK
<1>2. WaitOK(owner) /\ \A u \in Task : u # owner => OSTCBPrio[u] = u
  BY <1>1, TaskValues
<1> QED BY <1>1, <1>2 DEF WaitOK

LEMMA PendInv ==
    ASSUME CAREFUL, Inv, NEW timeout \in Timeout \cup {0}, OSMutexPend(timeout)
    PROVE  Inv'
<1>0. PICK t \in Task, o \in Task \cup {NoTask} : t = OSTCBCur /\ o = owner
  BY CurFacts DEF Inv, MutexTypeOK
<1>1. /\ Calling /\ created /\ ownerPrio # AVAILABLE /\ o # t
      /\ OSTCBPrio' = IF Promote THEN [OSTCBPrio EXCEPT ![o] = PIP] ELSE OSTCBPrio
      /\ OSTCBPrioTbl' = IF Promote THEN [OSTCBPrioTbl EXCEPT ![PIP] = o] ELSE OSTCBPrioTbl
      /\ OSRdyTbl' = PromotedRdy \ {OSTCBPrio[t]}
      /\ OSEventTbl' = PromotedWait \cup {OSTCBPrio[t]}
      /\ OSTCBStat' = [OSTCBStat EXCEPT ![t] = @ \cup {"MUTEX"}]
      /\ OSTCBStatPend' = [OSTCBStatPend EXCEPT ![t] = "OK"]
      /\ OSTCBDly' = [OSTCBDly EXCEPT ![t] = timeout]
      /\ inPend' = [inPend EXCEPT ![t] = TRUE]
      /\ UNCHANGED <<created, ownerPrio, owner, holds, orphan>>
      /\ OS_Sched(OSPrioCur) /\ ~Misled
  BY <1>0 DEF OSMutexPend
<1>2. /\ o \in Task /\ ownerPrio = o /\ owner # NoTask
      /\ o \notin OSEventTbl /\ \A u \in Task : u # o => OSTCBPrio[u] = u
      /\ OSTCBPrio[o] \in {o, PIP}
  <2>1. owner # NoTask
    BY <1>1 DEF Inv, MutexTypeOK
  <2> QED BY <1>0, <2>1, OwnerFacts, TaskValues
<1>3. /\ t # Idle /\ ~inPend[t] /\ t \notin OSEventTbl /\ t \notin orphan /\ OSTCBPrio[t] = t
      /\ OSTCBStat[t] = {}
  BY <1>0, <1>1, CallerFacts, CurFacts
<1>4. Promote <=> OSTCBPrio[o] = o /\ o > t
  BY <1>0, <1>2, <1>3, TaskFacts DEF Promote
<1>5. PromotedWait = OSEventTbl
  BY <1>1 DEF PromotedWait
<1>6. /\ \A u \in Task : u # o => OSTCBPrio'[u] = u
      /\ OSTCBPrio'[o] = PIP \/ (OSTCBPrio'[o] = o /\ OSTCBPrio[o] = o /\ o <= t)
      /\ OSTCBPrio' \in [Task -> PIP..OS_LOWEST_PRIO]
  <2>1. CASE Promote
    BY <1>1, <1>2, <2>1, TaskFacts DEF Inv, MutexTypeOK
  <2>2. CASE ~Promote
    <3>1. OSTCBPrio[o] = PIP \/ o <= t
      BY <1>2, <1>4, <2>2, TaskFacts
    <3> QED BY <1>1, <1>2, <2>2, <3>1 DEF Inv, MutexTypeOK
  <2> QED BY <2>1, <2>2
<1>7. /\ TblOK' /\ OSTCBPrioTbl'[PIP] \in Task \cup {RESERVED}
      /\ \A u \in Task : OSTCBPrioTbl'[u] = u
      /\ OSTCBPrio'[o] = PIP => OSTCBPrioTbl'[PIP] = o
  <2>1. CASE Promote
    <3>1. OSTCBPrioTbl' = [OSTCBPrioTbl EXCEPT ![PIP] = o]
      BY <1>1, <2>1
    <3>2. TblOK' /\ OSTCBPrioTbl'[PIP] = o
      BY <1>2, <3>1, TaskFacts DEF Inv, TblOK
    <3>3. \A u \in Task : OSTCBPrioTbl'[u] = u
      BY <3>1, TaskValues, TaskFacts DEF Inv, TblOK
    <3> QED BY <1>2, <3>2, <3>3
  <2>2. CASE ~Promote
    BY <1>1, <1>2, <2>2, TaskValues DEF Inv, MutexTypeOK, TblOK
  <2> QED BY <2>1, <2>2
<1>8. \A u \in Task : OSTCBPrioTbl'[OSTCBPrio'[u]] = u
  BY <1>6, <1>7
<1>9. /\ OSTCBStat'[t] = {"MUTEX"} /\ OSTCBStatPend'[t] = "OK" /\ inPend'[t]
      /\ \A u \in Task : u # t => /\ OSTCBStat'[u] = OSTCBStat[u] /\ OSTCBDly'[u] = OSTCBDly[u]
                                  /\ OSTCBStatPend'[u] = OSTCBStatPend[u] /\ inPend'[u] = inPend[u]
  BY <1>1, <1>3 DEF Inv, MutexTypeOK
<1>10. ASSUME NEW u \in Task
       PROVE  OSTCBPrio'[u] \in OSRdyTbl' <=> OSTCBPrio[u] \in OSRdyTbl /\ u # t
  <2>1. \A v \in Task : OSTCBPrio[v] # PIP \/ v = o
    BY <1>0, TaskValues, TaskFacts
  <2>2. CASE Promote
    <3>1. PIP \notin OSRdyTbl /\ OSTCBPrio[o] = o
      BY <1>4, <2>1, <2>2, <1>2, TaskFacts DEF Inv, ReadyOK
    <3>2. OSRdyTbl' = IF o \in OSRdyTbl THEN ((OSRdyTbl \ {o}) \cup {PIP}) \ {t}
                      ELSE OSRdyTbl \ {t}
      BY <1>0, <1>1, <1>3, <2>2, <3>1 DEF PromotedRdy, Raise
    <3>3. OSTCBPrio' = [OSTCBPrio EXCEPT ![o] = PIP]
      BY <1>1, <2>2
    <3>4. CASE u = o
      BY <1>1, <1>2, <3>1, <3>2, <3>3, <3>4, TaskFacts DEF Inv, MutexTypeOK
    <3>5. CASE u # o
      BY <1>2, <1>6, <3>2, <3>5, TaskFacts
    <3> QED BY <3>4, <3>5
  <2>3. CASE ~Promote
    <3>1. OSTCBPrio' = OSTCBPrio /\ OSRdyTbl' = OSRdyTbl \ {OSTCBPrio[t]}
      BY <1>1, <2>3 DEF PromotedRdy
    <3>2. OSTCBPrio[u] = OSTCBPrio[t] <=> u = t
      BY TaskValues
    <3> QED BY <3>1, <3>2
  <2> QED BY <2>2, <2>3
<1>11. ReadyOK'
  <2>1. ASSUME NEW u \in Task
        PROVE  OSTCBPrio'[u] \in OSRdyTbl' <=> OSTCBStat'[u] = {} /\ OSTCBDly'[u] = 0
    BY <1>9, <1>10 DEF Inv, ReadyOK
  <2>2. ASSUME NEW p \in OSRdyTbl' PROVE \E u \in Task : OSTCBPrio'[u] = p
    <3>1. CASE Promote
      <4>1. p \in OSRdyTbl \/ p = PIP
        BY <1>0, <1>1 DEF PromotedRdy, Raise
      <4>2. p \in OSRdyTbl => p = PIP \/ p # o
        BY <1>0, <1>1, <1>2, <1>4, <3>1 DEF PromotedRdy, Raise
      <4>3. OSTCBPrio'[o] = PIP
        BY <1>1, <1>2, <3>1 DEF Inv, MutexTypeOK
      <4>4. CASE p = PIP
        BY <1>2, <4>3, <4>4
      <4>5. CASE p # PIP
        <5>1. PICK u \in Task : OSTCBPrio[u] = p
          BY <4>1, <4>5 DEF Inv, ReadyOK
        <5>2. u # o
          BY <1>4, <3>1, <4>1, <4>2, <4>5, <5>1
        <5> QED BY <1>2, <1>6, <5>1, <5>2
      <4> QED BY <4>4, <4>5
    <3>2. CASE ~Promote
      BY <1>1, <3>2 DEF PromotedRdy, Inv, ReadyOK
    <3> QED BY <3>1, <3>2
  <2> QED BY <2>1, <2>2 DEF ReadyOK
<1>12. IdleOK'
  BY <1>3, <1>9, TaskFacts DEF Inv, IdleOK
<1>13. /\ OSTCBCur' \in Task /\ OSPrioCur' = OSTCBPrio'[OSTCBCur']
       /\ unscheduled' \in BOOLEAN /\ CurOK'
  BY <1>0, <1>1, <1>3, <1>6, <1>8, <1>11, <1>12, CurFacts, SchedStep
<1>14. MutexTypeOK'
  <2>1. OSTCBStat' \in [Task -> SUBSET {"MUTEX", "SUSPEND"}]
    <3>1. OSTCBStat[t] \cup {"MUTEX"} \in SUBSET {"MUTEX", "SUSPEND"}
      BY <1>3
    <3> QED BY <1>1, <3>1 DEF Inv, MutexTypeOK
  <2>2. OSTCBStatPend' \in [Task -> {"OK", "TO"}]
    BY <1>1 DEF Inv, MutexTypeOK
  <2>3. inPend' \in [Task -> BOOLEAN]
    BY <1>1 DEF Inv, MutexTypeOK
  <2>4. OSTCBDly' \in [Task -> Nat]
    BY <1>1, MutexAssumption DEF Inv, MutexTypeOK
  <2>5. OSRdyTbl' \subseteq PIP..OS_LOWEST_PRIO
    BY <1>6, <1>11 DEF ReadyOK
  <2>6. OSEventTbl' \subseteq Task
    BY <1>1, <1>3, <1>5 DEF Inv, MutexTypeOK
  <2>7. OSTCBPrioTbl'[PIP] \in Task \cup {IF created' THEN RESERVED ELSE NoTask}
    BY <1>1, <1>7
  <2> QED BY <1>1, <1>6, <1>7, <1>8, <1>13, <2>1, <2>2, <2>3, <2>4, <2>5, <2>6, <2>7
          DEF Inv, MutexTypeOK
<1>15. ASSUME NEW u \in Task PROVE WaitOK(u)'
  <2>1. /\ WaitOK(u) /\ OSEventTbl' = OSEventTbl \cup {t} /\ owner' = o /\ o # NoTask
        /\ UNCHANGED orphan
    BY <1>0, <1>1, <1>2, <1>3, <1>5, TaskValues
  <2>2. CASE u = t
    <3>1. OSTCBPrio'[o] <= t
      BY <1>6, TaskFacts
    <3> QED BY <1>1, <1>3, <1>9, <2>1, <2>2, <3>1 DEF WaitOK
  <2>3. CASE u # t
    <3>1. u \in OSEventTbl => OSTCBPrio'[o] <= u
      <4>1. u \in OSEventTbl => OSTCBPrio[o] <= u
        BY <1>0, <2>1 DEF WaitOK
      <4> QED BY <1>6, <4>1, TaskFacts
    <3> QED BY <1>0, <1>9, <2>1, <2>3, <3>1 DEF WaitOK
  <2> QED BY <2>2, <2>3
<1>16. RaisedOK' /\ MutualExclusion'
  BY <1>0, <1>1, <1>6 DEF Inv, RaisedOK, MutualExclusion
<1> QED BY <1>7, <1>11, <1>12, <1>13, <1>14, <1>15, <1>16 DEF Inv

(* OSMutex_RdyAtPrio: all tasks are at their own priority afterwards, and    *)
(* as ready as they were.  A raised owner that is ready is the one that runs.*)
LEMMA RestoreFacts ==
    ASSUME Inv, Raised => OSTCBPrio[owner] \in OSRdyTbl
    PROVE  /\ Restored = [u \in Task |-> u]
           /\ RestoredRdy \subseteq Task
           /\ \A u \in Task : u \in RestoredRdy <=> OSTCBPrio[u] \in OSRdyTbl
           /\ Raised => owner = OSTCBCur
           /\ RestoredCur = OSTCBCur
           /\ ~Raised => RestoredRdy = OSRdyTbl /\ \A u \in Task : OSTCBPrio[u] = u
<1>1. /\ OSTCBPrio \in [Task -> PIP..OS_LOWEST_PRIO]
      /\ \A u \in Task : OSTCBPrio[u] = u \/ (u = owner /\ OSTCBPrio[u] = PIP)
      /\ \A p \in OSRdyTbl : \E u \in Task : OSTCBPrio[u] = p
      /\ OSTCBCur \in Task /\ OSPrioCur = OSTCBPrio[OSTCBCur]
  BY DEF Inv, MutexTypeOK, RaisedOK, ReadyOK
<1>2. CASE Raised
  <2>1. /\ owner \in Task /\ ownerPrio = owner /\ OSTCBPrio[owner] = PIP
        /\ PIP \in OSRdyTbl
    BY <1>2, OwnerFacts DEF Raised
  <2>2. owner = OSTCBCur
    <3>1. CASE unscheduled
      BY <1>2, <3>1, CurFacts DEF Raised
    <3>2. CASE ~unscheduled
      <4>1. OSTCBPrio[OSTCBCur] <= PIP
        BY <2>1, <3>2, CurFacts
      <4>2. OSTCBPrio[OSTCBCur] = PIP
        BY <1>1, <4>1, TaskFacts
      <4> QED BY <1>1, <4>2, TaskFacts
    <3> QED BY <3>1, <3>2
  <2>3. /\ Restored = [OSTCBPrio EXCEPT ![owner] = owner]
        /\ RestoredRdy = (OSRdyTbl \ {PIP}) \cup {owner} /\ RestoredCur = owner
    BY <1>2, <2>1 DEF Restored, RestoredRdy, RestoredCur
  <2>4. Restored = [u \in Task |-> u]
    BY <1>1, <2>1, <2>3
  <2>5. RestoredRdy \subseteq Task
    BY <1>1, <2>1, <2>3
  <2>6. \A u \in Task : u \in RestoredRdy <=> OSTCBPrio[u] \in OSRdyTbl
    BY <1>1, <2>1, <2>3, TaskFacts
  <2> QED BY <1>2, <2>2, <2>3, <2>4, <2>5, <2>6
<1>3. CASE ~Raised
  <2>1. \A u \in Task : OSTCBPrio[u] = u
    BY <1>1, <1>3, TaskFacts DEF Raised
  <2>2. /\ Restored = OSTCBPrio /\ RestoredRdy = OSRdyTbl /\ RestoredCur = OSPrioCur
    BY <1>3 DEF Restored, RestoredRdy, RestoredCur
  <2>3. Restored = [u \in Task |-> u]
    BY <1>1, <2>1, <2>2
  <2>4. RestoredRdy \subseteq Task
    BY <1>1, <2>1, <2>2
  <2> QED BY <1>1, <1>3, <2>1, <2>2, <2>3, <2>4
<1> QED BY <1>2, <1>3

(* OS_EventTaskRdy for some of the waiters, after OSMutex_RdyAtPrio.         *)
LEMMA WakeFacts ==
    ASSUME Inv, Raised => OSTCBPrio[owner] \in OSRdyTbl,
           NEW prios, prios \subseteq OSEventTbl, OS_EventTaskRdy(prios),
           OSTCBPrio' = Restored, UNCHANGED inPend
    PROVE  /\ OSTCBStat' \in [Task -> SUBSET {"MUTEX", "SUSPEND"}]
           /\ OSTCBStatPend' \in [Task -> {"OK", "TO"}]
           /\ OSTCBDly' \in [Task -> Nat]
           /\ \A u \in prios : /\ OSTCBStat'[u] = OSTCBStat[u] \ {"MUTEX"}
                               /\ OSTCBStatPend'[u] = "OK" /\ OSTCBDly'[u] = 0
           /\ \A u \in Task \ prios : /\ OSTCBStat'[u] = OSTCBStat[u]
                                       /\ OSTCBStatPend'[u] = OSTCBStatPend[u]
                                       /\ OSTCBDly'[u] = OSTCBDly[u]
           /\ OSEventTbl' = OSEventTbl \ prios
           /\ OSRdyTbl' \subseteq Task /\ ReadyOK' /\ IdleOK'
<1> DEFINE Woken(t) == OSTCBPrio[t] \in prios
<1>1. /\ OSTCBStat' = [t \in Task |->
             IF Woken(t) THEN OSTCBStat[t] \ {"MUTEX"} ELSE OSTCBStat[t]]
      /\ OSTCBStatPend' = [t \in Task |-> IF Woken(t) THEN "OK" ELSE OSTCBStatPend[t]]
      /\ OSTCBDly' = [t \in Task |-> IF Woken(t) THEN 0 ELSE OSTCBDly[t]]
      /\ OSRdyTbl' = RestoredRdy \cup {OSTCBPrio[t] : t \in
                        {u \in {v \in Task : Woken(v)} : "SUSPEND" \notin OSTCBStat[u]}}
      /\ OSEventTbl' = OSEventTbl \ prios
  BY DEF OS_EventTaskRdy, Runnable
<1>2. prios \subseteq Task /\ OSEventTbl \subseteq Task
  BY DEF Inv, MutexTypeOK
<1>3. ASSUME NEW t \in Task PROVE Woken(t) <=> t \in prios
  <2>1. OSTCBPrio[t] = t \/ (OSTCBPrio[t] = PIP /\ t = owner)
    BY TaskValues
  <2>2. t = owner => t \notin OSEventTbl
    BY TaskValues DEF WaitOK
  <2> QED BY <1>2, <2>1, <2>2, TaskFacts
<1>4. ASSUME NEW t \in prios
      PROVE  /\ OSTCBPrio[t] = t /\ inPend[t]
             /\ OSTCBStat[t] \subseteq {"MUTEX", "SUSPEND"}
  <2>1. t \in Task /\ t \in OSEventTbl
    BY <1>2
  <2>2. WaitOK(t) /\ OSTCBStat[t] \subseteq {"MUTEX", "SUSPEND"} /\ (OSTCBPrio[t] = t \/ t = owner)
    BY <2>1, TaskValues
  <2> QED BY <2>1, <2>2 DEF WaitOK
<1>5. OSRdyTbl' = RestoredRdy \cup {u \in prios : "SUSPEND" \notin OSTCBStat[u]}
  BY <1>1, <1>2, <1>3, <1>4
<1>6. \A u \in prios : /\ OSTCBStat'[u] = OSTCBStat[u] \ {"MUTEX"}
                      /\ OSTCBStatPend'[u] = "OK" /\ OSTCBDly'[u] = 0
  BY <1>1, <1>2, <1>3
<1>7. \A u \in Task \ prios : /\ OSTCBStat'[u] = OSTCBStat[u]
                              /\ OSTCBStatPend'[u] = OSTCBStatPend[u]
                              /\ OSTCBDly'[u] = OSTCBDly[u]
  BY <1>1, <1>3
<1>8. OSTCBStat' \in [Task -> SUBSET {"MUTEX", "SUSPEND"}]
  BY <1>1, TaskValues
<1>9. OSTCBStatPend' \in [Task -> {"OK", "TO"}]
  BY <1>1, TaskValues
<1>10. OSTCBDly' \in [Task -> Nat]
  BY <1>1, TaskValues
<1> HIDE DEF Woken
<1>11. /\ OSTCBPrio' = [u \in Task |-> u] /\ OSRdyTbl' \subseteq Task
       /\ \A u \in Task : u \in OSRdyTbl' <=>
             OSTCBPrio[u] \in OSRdyTbl \/ (u \in prios /\ "SUSPEND" \notin OSTCBStat[u])
  BY <1>2, <1>5, RestoreFacts
<1>12. ASSUME NEW u \in Task PROVE u \in OSRdyTbl' <=> OSTCBStat'[u] = {} /\ OSTCBDly'[u] = 0
  <2>1. CASE u \in prios
    <3>1. WaitOK(u) /\ (OSTCBPrio[u] \in OSRdyTbl <=> OSTCBStat[u] = {} /\ OSTCBDly[u] = 0)
      BY TaskValues DEF Inv, ReadyOK
    <3>2. OSTCBStat'[u] = OSTCBStat[u] \ {"MUTEX"} /\ OSTCBDly'[u] = 0
      BY <1>6, <2>1
    <3>3. OSTCBStat'[u] = {} <=> "SUSPEND" \notin OSTCBStat[u]
      BY <1>4, <2>1, <3>2
    <3>4. OSTCBStat[u] = {} => "SUSPEND" \notin OSTCBStat[u]
      OBVIOUS
    <3> QED BY <1>11, <2>1, <3>1, <3>2, <3>3, <3>4
  <2>2. CASE u \notin prios
    BY <1>7, <1>11, <2>2 DEF Inv, ReadyOK
  <2> QED BY <2>1, <2>2
<1>13. ReadyOK'
  BY <1>11, <1>12 DEF ReadyOK
<1>14. IdleOK'
  <2>1. Idle \notin prios
    BY <1>4 DEF Inv, IdleOK
  <2> QED BY <1>7, <2>1, TaskFacts DEF Inv, IdleOK
<1> QED BY <1>1, <1>6, <1>7, <1>8, <1>9, <1>10, <1>11, <1>13, <1>14

(* What follows a call that gives the mutex away and lowers its owner: the   *)
(* parts of the invariant that say who runs, and the ranges.                 *)
LEMMA GivenAway ==
    ASSUME Inv, OSTCBPrio' = Restored, ReadyOK', IdleOK', OSRdyTbl' \subseteq Task,
           Raised => OSTCBPrio[owner] \in OSRdyTbl, NEW e \in {RESERVED, NoTask},
           OSTCBPrioTbl' = [OSTCBPrioTbl EXCEPT ![PIP] = e],
           OSTCBStat'[OSTCBCur] = {}, OSTCBDly'[OSTCBCur] = 0,
           \/ OS_Sched(RestoredCur)
           \/ /\ NoSched(RestoredCur, Raised) /\ owner' = NoTask
              /\ OSRdyTbl' = RestoredRdy
    PROVE  /\ OSTCBPrio' \in [Task -> PIP..OS_LOWEST_PRIO] /\ RaisedOK' /\ TblOK'
           /\ \A t \in Task : OSTCBPrio'[t] = t /\ OSTCBPrioTbl'[OSTCBPrio'[t]] = t /\ OSTCBPrioTbl'[t] = t
           /\ OSTCBPrioTbl'[PIP] = e
           /\ OSRdyTbl' \subseteq PIP..OS_LOWEST_PRIO
           /\ OSTCBCur' \in Task /\ OSPrioCur' = OSTCBPrio'[OSTCBCur']
           /\ unscheduled' \in BOOLEAN /\ CurOK'
<1>1. OSTCBPrio' = [u \in Task |-> u] /\ RestoredCur = OSTCBCur /\ OSTCBCur \in Task
  BY RestoreFacts, CurFacts
<1>2. OSTCBPrio' \in [Task -> PIP..OS_LOWEST_PRIO] /\ RaisedOK'
  BY <1>1, TaskFacts DEF RaisedOK
<1>3. /\ TblOK' /\ OSTCBPrioTbl'[PIP] = e
      /\ \A t \in Task : OSTCBPrioTbl'[t] = t
  <2>1. TblOK' /\ OSTCBPrioTbl'[PIP] = e
    BY TaskFacts DEF Inv, TblOK
  <2>2. \A t \in Task : OSTCBPrioTbl'[t] = t
    BY TaskValues, TaskFacts DEF Inv, TblOK
  <2> QED BY <2>1, <2>2
<1>4. \A t \in Task : OSTCBPrio'[t] = t /\ OSTCBPrioTbl'[OSTCBPrio'[t]] = t
  BY <1>1, <1>3
<1>5. OSRdyTbl' \subseteq PIP..OS_LOWEST_PRIO
  BY TaskFacts
<1>6. /\ OSTCBCur' \in Task /\ OSPrioCur' = OSTCBPrio'[OSTCBCur']
      /\ unscheduled' \in BOOLEAN /\ CurOK'
  <2>1. CASE OS_Sched(RestoredCur)
    <3>1. PICK p : p = RestoredCur
      OBVIOUS
    <3>2. OS_Sched(p) /\ p = OSTCBPrio'[OSTCBCur]
      BY <1>1, <1>4, <2>1, <3>1 DEF OS_Sched
    <3> QED BY <1>1, <1>2, <1>4, <3>2, SchedStep
  <2>2. CASE NoSched(RestoredCur, Raised) /\ owner' = NoTask /\ OSRdyTbl' = RestoredRdy
    <3>1. /\ OSPrioCur' = OSTCBCur /\ OSTCBCur' = OSTCBCur
          /\ unscheduled' \in BOOLEAN /\ (unscheduled' <=> unscheduled \/ Raised)
      BY <1>1, <2>2 DEF NoSched
    <3>2. OSTCBPrio'[OSTCBCur] \in OSRdyTbl'
      BY <1>1 DEF ReadyOK
    <3>3. ~unscheduled' => \A p \in OSRdyTbl' : OSTCBPrio'[OSTCBCur] <= p
      BY <1>1, <1>4, <2>2, <3>1, CurFacts, RestoreFacts
    <3> QED BY <1>1, <1>4, <2>2, <3>1, <3>2, <3>3 DEF CurOK, IsHighest
  <2> QED BY <2>1, <2>2
<1> QED BY <1>2, <1>3, <1>4, <1>5, <1>6

LEMMA PostInv == ASSUME Inv, OSMutexPost PROVE Inv'
<1>1. /\ Calling /\ created /\ owner = OSTCBCur /\ OSTCBPrio' = Restored
      /\ OSTCBPrioTbl' = [OSTCBPrioTbl EXCEPT ![PIP] = RESERVED]
      /\ holds' = holds \ {OSTCBCur}
      /\ UNCHANGED <<created, inPend, orphan>>
  BY DEF OSMutexPost
<1>2. /\ OSTCBCur \in Task /\ OSTCBPrio[owner] \in OSRdyTbl /\ ~inPend[OSTCBCur]
      /\ OSTCBCur \notin OSEventTbl /\ OSTCBStat[OSTCBCur] = {} /\ OSTCBDly[OSTCBCur] = 0
      /\ OSTCBCur \notin orphan
  BY <1>1, CurFacts, CallerFacts
<1>3. holds' = {}
  BY <1>1 DEF Inv, MutualExclusion
<1>4. CASE OSEventTbl # {}
  <2>0. PICK n : n = NewOwner
    OBVIOUS
  <2>1. n \in OSEventTbl /\ n \in Task /\ \A q \in OSEventTbl : n <= q
    <3>1. OSEventTbl \subseteq Task /\ OSEventTbl \subseteq Nat
      BY TaskFacts DEF Inv, MutexTypeOK
    <3> QED BY <1>4, <2>0, <3>1, FirstIsLeast DEF NewOwner
  <2>2. /\ OS_EventTaskRdy({n}) /\ ownerPrio' = n /\ owner' = OSTCBPrioTbl'[n]
        /\ OS_Sched(RestoredCur)
    BY <1>4, <2>0 DEF OSMutexPost
  <2>3. /\ OSTCBStat' \in [Task -> SUBSET {"MUTEX", "SUSPEND"}]
        /\ OSTCBStatPend' \in [Task -> {"OK", "TO"}]
        /\ OSTCBDly' \in [Task -> Nat]
        /\ \A u \in {n} : /\ OSTCBStat'[u] = OSTCBStat[u] \ {"MUTEX"}
                          /\ OSTCBStatPend'[u] = "OK" /\ OSTCBDly'[u] = 0
        /\ \A u \in Task \ {n} : /\ OSTCBStat'[u] = OSTCBStat[u]
                                  /\ OSTCBStatPend'[u] = OSTCBStatPend[u]
                                  /\ OSTCBDly'[u] = OSTCBDly[u]
        /\ OSEventTbl' = OSEventTbl \ {n}
        /\ OSRdyTbl' \subseteq Task /\ ReadyOK' /\ IdleOK'
    <3>1. {n} \subseteq OSEventTbl
      BY <2>1
    <3> QED BY <1>1, <1>2, <2>2, <3>1, WakeFacts
  <2>4. OSTCBCur # n /\ OSTCBStat'[OSTCBCur] = {} /\ OSTCBDly'[OSTCBCur] = 0
    BY <1>2, <2>1, <2>3
  <2>5. /\ OSTCBPrio' \in [Task -> PIP..OS_LOWEST_PRIO] /\ RaisedOK' /\ TblOK'
        /\ \A t \in Task : OSTCBPrio'[t] = t /\ OSTCBPrioTbl'[OSTCBPrio'[t]] = t /\ OSTCBPrioTbl'[t] = t
        /\ OSTCBPrioTbl'[PIP] = RESERVED
        /\ OSRdyTbl' \subseteq PIP..OS_LOWEST_PRIO
        /\ OSTCBCur' \in Task /\ OSPrioCur' = OSTCBPrio'[OSTCBCur']
        /\ unscheduled' \in BOOLEAN /\ CurOK'
    BY <1>1, <1>2, <2>2, <2>3, <2>4, GivenAway
  <2>6. owner' = n
    BY <2>1, <2>2, <2>5
  <2>7. MutexTypeOK'
    <3>1. OSEventTbl' \subseteq Task /\ n # NoTask
      BY <2>1, <2>3, TaskFacts DEF Inv, MutexTypeOK
    <3> QED BY <1>1, <1>3, <2>1, <2>2, <2>3, <2>5, <2>6, <3>1 DEF Inv, MutexTypeOK
  <2>8. ASSUME NEW u \in Task PROVE WaitOK(u)'
    <3>1. /\ WaitOK(u) /\ owner' # NoTask /\ OSTCBPrio'[owner'] = n
          /\ inPend' = inPend /\ orphan' = orphan
      BY <1>1, <2>1, <2>5, <2>6, TaskValues, TaskFacts
    <3>2. CASE u = n
      BY <2>1, <2>3, <2>6, <3>1, <3>2 DEF WaitOK
    <3>3. CASE u # n
      BY <1>1, <1>2, <2>1, <2>3, <2>6, <3>1, <3>3 DEF WaitOK
    <3> QED BY <3>2, <3>3
  <2>9. MutualExclusion'
    BY <1>3 DEF MutualExclusion
  <2> QED BY <2>3, <2>5, <2>7, <2>8, <2>9 DEF Inv
<1>5. CASE OSEventTbl = {}
  <2>1. /\ OSRdyTbl' = RestoredRdy /\ ownerPrio' = AVAILABLE /\ owner' = NoTask
        /\ UNCHANGED <<OSTCBStat, OSTCBStatPend, OSTCBDly, OSEventTbl>>
        /\ NoSched(RestoredCur, Raised)
    BY <1>5 DEF OSMutexPost
  <2>2. /\ OSTCBPrio' = [u \in Task |-> u] /\ RestoredRdy \subseteq Task
        /\ \A u \in Task : u \in RestoredRdy <=> OSTCBPrio[u] \in OSRdyTbl
    BY <1>1, <1>2, RestoreFacts
  <2>3. ReadyOK' /\ IdleOK'
    BY <1>1, <2>1, <2>2, TaskFacts DEF Inv, ReadyOK, IdleOK
  <2>4. /\ OSTCBPrio' \in [Task -> PIP..OS_LOWEST_PRIO] /\ RaisedOK' /\ TblOK'
        /\ \A t \in Task : OSTCBPrio'[t] = t /\ OSTCBPrioTbl'[OSTCBPrio'[t]] = t /\ OSTCBPrioTbl'[t] = t
        /\ OSTCBPrioTbl'[PIP] = RESERVED
        /\ OSRdyTbl' \subseteq PIP..OS_LOWEST_PRIO
        /\ OSTCBCur' \in Task /\ OSPrioCur' = OSTCBPrio'[OSTCBCur']
        /\ unscheduled' \in BOOLEAN /\ CurOK'
    BY <1>1, <1>2, <2>1, <2>2, <2>3, GivenAway
  <2>5. MutexTypeOK'
    BY <1>1, <1>3, <2>1, <2>4 DEF Inv, MutexTypeOK
  <2>6. ASSUME NEW u \in Task PROVE WaitOK(u)'
    <3>1. WaitOK(u)
      BY TaskValues
    <3> QED BY <1>1, <1>2, <1>5, <2>1, <3>1 DEF WaitOK
  <2>7. MutualExclusion'
    BY <1>3 DEF MutualExclusion
  <2> QED BY <2>3, <2>4, <2>5, <2>6, <2>7 DEF Inv
<1> QED BY <1>4, <1>5

(* OSMutexDel takes the answer back from the owner that has still to return  *)
(* and wakes the waiters without one.                                        *)
LEMMA DelAlwaysInv == ASSUME Inv, OSMutexDelAlways PROVE Inv'
<1>1. /\ Calling /\ (owner # NoTask => OSTCBPrio[owner] \in OSRdyTbl)
      /\ ~created' /\ created' \in BOOLEAN /\ ownerPrio' = AVAILABLE /\ owner' = NoTask
      /\ OSTCBPrioTbl' = [OSTCBPrioTbl EXCEPT ![PIP] = NoTask]
      /\ holds' = {}
      /\ orphan' = orphan \cup {t \in Task : inPend[t] /\ t \in OSEventTbl \cup {owner}}
      /\ OSTCBPrio' = Restored /\ OS_EventTaskRdy(OSEventTbl)
      /\ IF OSEventTbl # {} THEN OS_Sched(RestoredCur) ELSE NoSched(RestoredCur, Raised)
      /\ UNCHANGED inPend
  BY DEF OSMutexDelAlways, Freed
<1>2. /\ OSTCBCur \in Task /\ (Raised => OSTCBPrio[owner] \in OSRdyTbl)
      /\ OSTCBCur \notin OSEventTbl /\ OSTCBStat[OSTCBCur] = {} /\ OSTCBDly[OSTCBCur] = 0
  BY <1>1, CurFacts, CallerFacts DEF Raised
<1>3. /\ OSTCBStat' \in [Task -> SUBSET {"MUTEX", "SUSPEND"}]
      /\ OSTCBStatPend' \in [Task -> {"OK", "TO"}]
      /\ OSTCBDly' \in [Task -> Nat]
      /\ \A u \in OSEventTbl : /\ OSTCBStat'[u] = OSTCBStat[u] \ {"MUTEX"}
                               /\ OSTCBStatPend'[u] = "OK" /\ OSTCBDly'[u] = 0
      /\ \A u \in Task \ OSEventTbl : /\ OSTCBStat'[u] = OSTCBStat[u]
                                       /\ OSTCBStatPend'[u] = OSTCBStatPend[u]
                                       /\ OSTCBDly'[u] = OSTCBDly[u]
      /\ OSEventTbl' = OSEventTbl \ OSEventTbl
      /\ OSRdyTbl' \subseteq Task /\ ReadyOK' /\ IdleOK'
  BY <1>1, <1>2, WakeFacts
<1>4. OSEventTbl = {} => OSRdyTbl' = RestoredRdy
  <2>1. OSEventTbl = {} => Runnable({t \in Task : OSTCBPrio[t] \in OSEventTbl}) = {}
    BY DEF Runnable
  <2> QED BY <1>1, <2>1 DEF OS_EventTaskRdy
<1>5. OSTCBStat'[OSTCBCur] = {} /\ OSTCBDly'[OSTCBCur] = 0
  BY <1>2, <1>3
<1>6. /\ OSTCBPrio' \in [Task -> PIP..OS_LOWEST_PRIO] /\ RaisedOK' /\ TblOK'
      /\ \A t \in Task : OSTCBPrio'[t] = t /\ OSTCBPrioTbl'[OSTCBPrio'[t]] = t /\ OSTCBPrioTbl'[t] = t
      /\ OSTCBPrioTbl'[PIP] = NoTask
      /\ OSRdyTbl' \subseteq PIP..OS_LOWEST_PRIO
      /\ OSTCBCur' \in Task /\ OSPrioCur' = OSTCBPrio'[OSTCBCur']
      /\ unscheduled' \in BOOLEAN /\ CurOK'
  BY <1>1, <1>2, <1>3, <1>4, <1>5, GivenAway
<1>7. MutexTypeOK'
  BY <1>1, <1>3, <1>6 DEF Inv, MutexTypeOK
<1>8. ASSUME NEW u \in Task PROVE WaitOK(u)'
  <2>1. WaitOK(u) /\ OSEventTbl' = {} /\ inPend' = inPend /\ owner' = NoTask
    BY <1>1, <1>3, TaskValues
  <2>2. u \in orphan' <=> u \in orphan \/ (inPend[u] /\ (u \in OSEventTbl \/ u = owner))
    BY <1>1
  <2>3. CASE u \in OSEventTbl
    BY <1>3, <2>1, <2>2, <2>3 DEF WaitOK
  <2>4. CASE u \notin OSEventTbl
    <3>1. /\ OSTCBStat'[u] = OSTCBStat[u] /\ OSTCBStatPend'[u] = OSTCBStatPend[u]
          /\ OSTCBDly'[u] = OSTCBDly[u]
      BY <1>3, <2>4
    <3> QED BY <2>1, <2>2, <2>4, <3>1 DEF WaitOK
  <2> QED BY <2>3, <2>4
<1>9. MutualExclusion'
  BY <1>1 DEF MutualExclusion
<1> QED BY <1>3, <1>6, <1>7, <1>8, <1>9 DEF Inv

LEMMA DelNoPendInv == ASSUME Inv, CAREFUL, OSMutexDelNoPend PROVE Inv'
<1>1. /\ Calling /\ OSEventTbl = {} /\ ~Raised
      /\ ~created' /\ created' \in BOOLEAN /\ ownerPrio' = AVAILABLE /\ owner' = NoTask
      /\ OSTCBPrioTbl' = [OSTCBPrioTbl EXCEPT ![PIP] = NoTask]
      /\ holds' = {}
      /\ orphan' = orphan \cup {t \in Task : inPend[t] /\ t \in OSEventTbl \cup {owner}}
      /\ UNCHANGED <<OSTCBPrio, OSTCBStat, OSTCBStatPend, OSTCBDly, OSRdyTbl,
                     OSEventTbl, inPend>>
      /\ NoSched(OSPrioCur, FALSE)
  BY DEF OSMutexDelNoPend, Freed
<1>2. /\ OSTCBCur \in Task /\ OSTCBStat[OSTCBCur] = {} /\ OSTCBDly[OSTCBCur] = 0
      /\ Restored = OSTCBPrio /\ RestoredRdy = OSRdyTbl /\ RestoredCur = OSPrioCur
      /\ OSRdyTbl \subseteq Task
  BY <1>1, CurFacts, RestoreFacts DEF Restored, RestoredRdy, RestoredCur
<1>3. ReadyOK' /\ IdleOK'
  BY <1>1 DEF Inv, ReadyOK, IdleOK
<1>4. NoSched(RestoredCur, Raised)
  BY <1>1, <1>2 DEF NoSched, Inv, MutexTypeOK
<1>5. /\ OSTCBPrio' \in [Task -> PIP..OS_LOWEST_PRIO] /\ RaisedOK' /\ TblOK'
      /\ \A t \in Task : OSTCBPrio'[t] = t /\ OSTCBPrioTbl'[OSTCBPrio'[t]] = t /\ OSTCBPrioTbl'[t] = t
      /\ OSTCBPrioTbl'[PIP] = NoTask
      /\ OSRdyTbl' \subseteq PIP..OS_LOWEST_PRIO
      /\ OSTCBCur' \in Task /\ OSPrioCur' = OSTCBPrio'[OSTCBCur']
      /\ unscheduled' \in BOOLEAN /\ CurOK'
  BY <1>1, <1>2, <1>3, <1>4, GivenAway
<1>6. MutexTypeOK'
  BY <1>1, <1>5 DEF Inv, MutexTypeOK
<1>7. ASSUME NEW u \in Task PROVE WaitOK(u)'
  <2>1. WaitOK(u)
    BY TaskValues
  <2> QED BY <1>1, <2>1 DEF WaitOK
<1>8. MutualExclusion'
  BY <1>1 DEF MutualExclusion
<1> QED BY <1>3, <1>5, <1>6, <1>7, <1>8 DEF Inv

-----------------------------------------------------------------------------
LEMMA StepInv == ASSUME CAREFUL, Inv, [MutexNext]_mutexVars PROVE Inv'
<1>1. CASE UNCHANGED mutexVars
  <2>1. UNCHANGED <<OSTCBPrio, OSTCBPrioTbl, OSTCBStat, OSTCBStatPend, OSTCBDly, OSRdyTbl,
                    OSPrioCur, OSTCBCur, unscheduled, created, OSEventTbl, ownerPrio, owner,
                    inPend, holds, orphan>>
    BY <1>1 DEF mutexVars, tcb, current, event
  <2>2. MutexTypeOK'
    BY <2>1 DEF Inv, MutexTypeOK
  <2>3. TblOK' /\ ReadyOK' /\ RaisedOK' /\ IdleOK' /\ MutualExclusion'
    BY <2>1 DEF Inv, TblOK, ReadyOK, RaisedOK, IdleOK, MutualExclusion
  <2>4. (\A t \in Task : WaitOK(t)') /\ CurOK'
    BY <2>1 DEF Inv, WaitOK, CurOK, IsHighest
  <2> QED BY <2>2, <2>3, <2>4 DEF Inv
<1>2. ASSUME NEW t \in Task \ {Idle}, OSTaskSuspend(t) \/ OSTaskResume(t) PROVE Inv'
  BY <1>2, SuspendInv, ResumeInv
<1>3. ASSUME NEW ticks \in Timeout, OSTimeDly(ticks) PROVE Inv'
  BY <1>3, TimeDlyInv
<1>4. ASSUME NEW timeout \in Timeout \cup {0}, OSMutexPend(timeout) PROVE Inv'
  BY <1>4, PendInv
<1> QED BY <1>1, <1>2, <1>3, <1>4, TimeTickInv, CreateInv, AcceptInv, PendReturnsInv,
           PostInv, DelNoPendInv, DelAlwaysInv DEF MutexNext

LEMMA Invariant == ASSUME CAREFUL PROVE MutexSpec => []Inv
<1>1. MutexInit => Inv
  BY InitInv
<1>2. Inv /\ [MutexNext]_mutexVars => Inv'
  BY StepInv
<1> QED BY <1>1, <1>2, PTL DEF MutexSpec

(* The priority table finds every task, raised or not, and the entry of the  *)
(* inheritance priority is the raised owner's or as OSMutexCreate left it.   *)
THEOREM MutexTypeCorrect == ASSUME CAREFUL PROVE MutexSpec => []MutexTypeOK
<1>1. Inv => MutexTypeOK
  BY DEF Inv
<1> QED BY <1>1, Invariant, PTL

(* The ready list is exact while priorities are raised and lowered.          *)
THEOREM MutexReadyListExact == ASSUME CAREFUL PROVE MutexSpec => []MutexReadyExact
<1>1. Inv => MutexReadyExact
  <2> SUFFICES ASSUME Inv PROVE MutexReadyExact
    OBVIOUS
  <2>1. ReadyOK
    BY DEF Inv
  <2> QED BY <2>1 DEF ReadyOK, MutexReadyExact
<1> QED BY <1>1, Invariant, PTL

(* No two tasks have been told that they own the mutex.                      *)
THEOREM MutexExcludes == ASSUME CAREFUL PROVE MutexSpec => []MutualExclusion
<1>1. Inv => MutualExclusion
  BY DEF Inv
<1> QED BY <1>1, Invariant, PTL

(* The owner is as urgent as every waiter, and nobody else is ever raised.   *)
THEOREM OwnerInherits == ASSUME CAREFUL PROVE MutexSpec => []PriorityInheritance
<1>1. Inv => PriorityInheritance
  <2> SUFFICES ASSUME Inv PROVE PriorityInheritance
    OBVIOUS
  <2>1. RaisedOK /\ \A t \in Task : WaitOK(t)
    BY DEF Inv
  <2> QED BY <2>1 DEF RaisedOK, WaitOK, PriorityInheritance
<1> QED BY <1>1, Invariant, PTL

(* The wait list holds waiting tasks only, and never the owner.              *)
THEOREM OnlyWaitersWait == ASSUME CAREFUL PROVE MutexSpec => []WaitListWaits
<1>1. Inv => WaitListWaits
  <2> SUFFICES ASSUME Inv PROVE WaitListWaits
    OBVIOUS
  <2>1. ASSUME NEW p \in OSEventTbl PROVE OSTCBPrio[p] = p /\ inPend[p] /\ p # owner /\ p \in Task
    <3>1. p \in Task
      BY DEF Inv, MutexTypeOK
    <3> QED BY <3>1 DEF Inv, WaitOK, RaisedOK
  <2> QED BY <2>1 DEF WaitListWaits
<1> QED BY <1>1, Invariant, PTL

(* The highest ready task runs, raised tasks included, but after the post of *)
(* a raised owner that nobody waits for any more.                            *)
THEOREM HighestTaskRuns == ASSUME CAREFUL PROVE MutexSpec => []HighestRunsOncePosted
<1>1. Inv => HighestRunsOncePosted
  <2> SUFFICES ASSUME Inv, ~unscheduled PROVE OSTCBCur = OSTCBPrioTbl[First(OSRdyTbl)]
    BY DEF HighestRunsOncePosted
  <2>1. /\ OSTCBPrio \in [Task -> PIP..OS_LOWEST_PRIO] /\ OSTCBCur \in Task
        /\ \A t \in Task : OSTCBPrioTbl[OSTCBPrio[t]] = t
    BY DEF Inv, MutexTypeOK
  <2>2. (\A p \in OSRdyTbl : \E t \in Task : OSTCBPrio[t] = p) /\ OSTCBPrio[Idle] \in OSRdyTbl
    BY TaskFacts DEF Inv, ReadyOK, IdleOK
  <2>3. OSTCBPrio[OSTCBCur] \in OSRdyTbl /\ \A p \in OSRdyTbl : OSTCBPrio[OSTCBCur] <= p
    BY DEF Inv, CurOK, IsHighest
  <2> QED BY <2>1, <2>2, <2>3, HighestExists
<1> QED BY <1>1, Invariant, PTL

(* Every call maps to what a lock does: the deletion of the mutex drops its  *)
(* waiters, and ticks and suspensions change nothing.                        *)
LEMMA NextLock == ASSUME CAREFUL, Inv, [MutexNext]_mutexVars PROVE [Lock!Next]_Lock!vars
<1>1. CASE UNCHANGED <<owner, OSEventTbl>>
  BY <1>1 DEF Lock!vars
<1>2. CASE OSMutexAccept
  <2>1. owner = NoTask /\ owner' = OSTCBCur /\ UNCHANGED OSEventTbl /\ OSTCBCur \in Task
    BY <1>2, CurFacts, TaskFacts DEF OSMutexAccept, Inv, MutexTypeOK
  <2>2. Lock!Take(OSTCBCur)
    BY <2>1 DEF Lock!Take
  <2> QED BY <2>1, <2>2 DEF Lock!Next
<1>3. ASSUME NEW timeout \in Timeout \cup {0}, OSMutexPend(timeout) PROVE Lock!Next
  <2>1. /\ Calling /\ ownerPrio # AVAILABLE /\ owner # OSTCBCur /\ UNCHANGED owner
        /\ OSEventTbl' = PromotedWait \cup {OSTCBPrio[OSTCBCur]} /\ ~Misled
    BY <1>3 DEF OSMutexPend
  <2>2. owner # NoTask
    BY <2>1 DEF Inv, MutexTypeOK
  <2>3. /\ OSTCBCur \in Task /\ OSTCBPrio[OSTCBCur] = OSTCBCur /\ OSTCBCur \notin OSEventTbl
        /\ PromotedWait = OSEventTbl
    BY <2>1, <2>2, CallerFacts DEF PromotedWait
  <2>4. Lock!Wait(OSTCBCur)
    BY <2>1, <2>2, <2>3 DEF Lock!Wait
  <2> QED BY <2>3, <2>4 DEF Lock!Next
<1>4. CASE OSMutexPendReturns
  <2>1. PICK t \in Task : t = OSTCBCur
    BY CurFacts
  <2>2. CASE UNCHANGED OSEventTbl
    BY <1>1, <1>4, <2>2 DEF OSMutexPendReturns
  <2>3. CASE OSEventTbl' = OSEventTbl \ {OSTCBPrio[t]} /\ OSTCBStatPend[t] # "OK"
    <3>1. /\ inPend[t] /\ WaitOK(t) /\ OSTCBStat[t] = {} /\ OSTCBStatPend[t] \in {"OK", "TO"}
          /\ OSTCBPrio[t] = t \/ t = owner
      BY <1>4, <2>1, CurFacts, TaskValues DEF OSMutexPendReturns
    <3>2. t \in OSEventTbl /\ OSTCBPrio[t] = t
      BY <2>3, <3>1 DEF WaitOK
    <3>3. Lock!GiveUp(t)
      BY <1>4, <2>3, <3>2 DEF Lock!GiveUp, OSMutexPendReturns
    <3> QED BY <3>3 DEF Lock!Next
  <2> QED BY <1>4, <2>1, <2>2, <2>3 DEF OSMutexPendReturns, WithoutMe
<1>5. CASE OSMutexPost
  <2>1. owner \in Task /\ owner # NoTask
    BY <1>5, CurFacts, TaskFacts DEF OSMutexPost
  <2>2. CASE OSEventTbl = {}
    <3>1. Lock!Release
      BY <1>5, <2>1, <2>2 DEF OSMutexPost, Lock!Release
    <3> QED BY <3>1 DEF Lock!Next
  <2>3. CASE OSEventTbl # {}
    <3>1. PICK n : n = NewOwner
      OBVIOUS
    <3>2. n \in OSEventTbl /\ n \in Task /\ \A q \in OSEventTbl : n <= q
      <4>1. OSEventTbl \subseteq Task /\ OSEventTbl \subseteq Nat
        BY TaskFacts DEF Inv, MutexTypeOK
      <4> QED BY <2>3, <3>1, <4>1, FirstIsLeast DEF NewOwner
    <3>3. /\ OSEventTbl' = OSEventTbl \ {n} /\ owner' = OSTCBPrioTbl'[n]
          /\ OSTCBPrioTbl' = [OSTCBPrioTbl EXCEPT ![PIP] = RESERVED]
      BY <1>5, <2>3, <3>1 DEF OSMutexPost, OS_EventTaskRdy
    <3>4. owner' = n
      BY <3>2, <3>3, TaskValues, TaskFacts DEF Inv, TblOK
    <3>5. Lock!HandOver(n)
      BY <2>1, <3>2, <3>3, <3>4 DEF Lock!HandOver
    <3> QED BY <3>2, <3>5 DEF Lock!Next
  <2> QED BY <2>2, <2>3
<1>6. CASE OSMutexDelNoPend \/ OSMutexDelAlways
  <2>1. owner' = NoTask /\ OSEventTbl' = {}
    BY <1>6 DEF OSMutexDelNoPend, OSMutexDelAlways, Freed, OS_EventTaskRdy
  <2>2. Lock!Delete
    BY <2>1 DEF Lock!Delete
  <2> QED BY <2>2 DEF Lock!Next
<1>7. CASE OSTimeTick \/ OSMutexCreate
  BY <1>1, <1>7 DEF OSTimeTick, OSMutexCreate, event
<1>8. ASSUME NEW ticks \in Timeout, OSTimeDly(ticks) PROVE [Lock!Next]_Lock!vars
  BY <1>1, <1>8 DEF OSTimeDly, event
<1>9. ASSUME NEW t \in Task \ {Idle}, OSTaskSuspend(t) \/ OSTaskResume(t)
      PROVE  [Lock!Next]_Lock!vars
  BY <1>1, <1>9 DEF OSTaskSuspend, OSTaskResume, event
<1>10. CASE UNCHANGED mutexVars
  BY <1>1, <1>10 DEF mutexVars, event
<1> QED BY <1>2, <1>3, <1>4, <1>5, <1>6, <1>7, <1>8, <1>9, <1>10 DEF MutexNext

(* The mutex is a lock that a post hands to the most urgent waiter, however  *)
(* many tasks wait, time out and are raised.                                 *)
THEOREM LockImplemented == ASSUME CAREFUL PROVE MutexSpec => ImplementsLock
<1>1. MutexInit => Lock!Init
  BY DEF MutexInit, Lock!Init
<1>2. Inv /\ [MutexNext]_mutexVars => [Lock!Next]_Lock!vars
  BY NextLock
<1> QED BY <1>1, <1>2, Invariant, PTL DEF MutexSpec, ImplementsLock, Lock!Spec
=============================================================================
