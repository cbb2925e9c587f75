------------------------------- MODULE OsQueue -------------------------------
(* The pointer ring of an OS_Q of uC/OS-II (UCOSII/CORE/os_q.c) while no     *)
(* task waits on the queue, which is how the firmware uses its queues: they  *)
(* are polled with OSQAccept.  Slots are 0..OSQSize-1, so OSQStart is 0 and  *)
(* OSQEnd is OSQSize.  Every call is one critical section, hence one step.   *)
EXTENDS Integers, Sequences

CONSTANTS OSQSize,            \* number of slots
          Message,            \* what can be posted
          Ok, QFull, QEmpty   \* OS_ERR_NONE, OS_ERR_Q_FULL, OS_ERR_Q_EMPTY

OSQStart == 0
OSQEnd == OSQSize

ASSUME OsQueueAssumption == /\ OSQSize \in Nat \ {0}
                            /\ {Ok, QFull, QEmpty} \cap Message = {}

VARIABLES OSQIn, OSQOut,   \* next slot to fill, next slot to empty
          OSQEntries,      \* number of messages in the queue
          slot,            \* [0..OSQSize-1 -> message last written there, or Ok]
          qReply            \* what the last call returned

qVars == <<OSQIn, OSQOut, OSQEntries, slot, qReply>>

(* OSQCreate.  A slot that was never written holds no message.               *)
QInit == /\ OSQIn = OSQStart
         /\ OSQOut = OSQStart
         /\ OSQEntries = 0
         /\ slot = [i \in OSQStart..(OSQEnd - 1) |-> Ok]
         /\ qReply = Ok

(* A definition whose name ends in _Faulty is a plausible slip in the code,  *)
(* used to show that the properties below would notice it.                   *)
Wrap_Faulty(p) == IF p > OSQEnd THEN OSQStart ELSE p
Wrap(p) == IF p = OSQEnd THEN OSQStart ELSE p

Room_Faulty == OSQEntries <= OSQSize
Room == OSQEntries < OSQSize

(* OSQPost, and OSQPostOpt without OS_POST_OPT_FRONT.                        *)
OSQPost(m) ==
    /\ Room
    /\ slot' = [slot EXCEPT ![OSQIn] = m]
    /\ OSQIn' = Wrap(OSQIn + 1)
    /\ OSQEntries' = OSQEntries + 1
    /\ qReply' = Ok
    /\ UNCHANGED OSQOut

(* OSQPostFront, and OSQPostOpt with OS_POST_OPT_FRONT.                      *)
OSQPostFront(m) ==
    /\ Room
    /\ OSQOut' = (IF OSQOut = OSQStart THEN OSQEnd ELSE OSQOut) - 1
    /\ slot' = [slot EXCEPT ![OSQOut'] = m]
    /\ OSQEntries' = OSQEntries + 1
    /\ qReply' = Ok
    /\ UNCHANGED OSQIn

OSQPostFails ==
    /\ ~Room
    /\ qReply' = QFull
    /\ UNCHANGED <<OSQIn, OSQOut, OSQEntries, slot>>

(* OSQAccept, and OSQPend when a message is there.                           *)
OSQAccept ==
    /\ OSQEntries > 0
    /\ qReply' = slot[OSQOut]
    /\ OSQOut' = Wrap(OSQOut + 1)
    /\ OSQEntries' = OSQEntries - 1
    /\ UNCHANGED <<OSQIn, slot>>

OSQAcceptFails ==
    /\ OSQEntries = 0
    /\ qReply' = QEmpty
    /\ UNCHANGED <<OSQIn, OSQOut, OSQEntries, slot>>

OSQFlush_Faulty ==   \* leaves OSQOut where it was
    /\ OSQIn' = OSQStart
    /\ OSQEntries' = 0
    /\ qReply' = Ok
    /\ UNCHANGED <<OSQOut, slot>>

OSQFlush ==
    /\ OSQIn' = OSQStart
    /\ OSQOut' = OSQStart
    /\ OSQEntries' = 0
    /\ qReply' = Ok
    /\ UNCHANGED slot

QNext == \/ \E m \in Message : OSQPost(m) \/ OSQPostFront(m)
         \/ OSQPostFails \/ OSQAccept \/ OSQAcceptFails \/ OSQFlush

QSpec == QInit /\ [][QNext]_qVars

-----------------------------------------------------------------------------
(* Ranges; no pointer rests on OSQEnd, one past the storage.                 *)
QTypeOK == /\ OSQIn \in OSQStart..(OSQEnd - 1)
           /\ OSQOut \in OSQStart..(OSQEnd - 1)
           /\ OSQEntries \in 0..OSQSize
           /\ slot \in [OSQStart..(OSQEnd - 1) -> Message \cup {Ok}]
           /\ qReply \in Message \cup {Ok, QFull, QEmpty}

(* The two pointers and the counter, which are updated apart, agree: the     *)
(* entries reach from OSQOut to OSQIn, with an empty and a full ring told    *)
(* apart by the counter alone.                                               *)
PointersAgree == OSQIn \in {OSQOut + OSQEntries, OSQOut + OSQEntries - OSQSize}

(* The slot n places after OSQOut, and the messages in the ring in order.    *)
Slot(n) == IF OSQOut + n < OSQEnd THEN OSQOut + n ELSE OSQOut + n - OSQSize
Content == [i \in 1..OSQEntries |-> slot[Slot(i - 1)]]

Queue == INSTANCE Deque WITH content <- Content, Capacity <- OSQSize,
                            reply <- qReply

(* The ring is a bounded queue: through any number of wraps of either        *)
(* pointer, in either direction, no message is lost, repeated, reordered or  *)
(* overwritten, and a call fails exactly when the queue is full or empty.    *)
ImplementsDeque == Queue!Spec
=============================================================================
