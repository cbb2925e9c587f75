------------------------------ MODULE Messaging ------------------------------
(* The message layer of SYSTEM/src/sys.c over two OS_MEM partitions and one  *)
(* OS_Q per task: MSG_Send, MSG_Receive, MSG_Free, MEM_Get and MEM_Put, and  *)
(* the scratch blocks the MsgTest handler takes while it handles a message.  *)
(*                                                                           *)
(* A step is one critical section (OSMemGet, OSMemPut, OSQPost, OSQAccept)   *)
(* with the code of the same task up to the next one, which touches only     *)
(* local variables and blocks the task owns.  Tasks preempt each other       *)
(* between any two steps.  The linked free list and the pointer ring are     *)
(* modules of their own (OsMem, OsQueue); here they are a set and a sequence.*)
EXTENDS Integers, Sequences, FiniteSets

CONSTANTS
    Task,              \* the tasks, each with a queue QMessage[t]
    TestTask,          \* the task whose handler table holds MsgTest (task 0)
    Value,             \* what a message can carry, its message number included
    MESSAGE_MSG_TEST,  \* the value the MsgTest handler reacts to
    Length,            \* the values of len that callers pass
    SmallBlock,        \* blocks of _OSMEM_Mem
    BigBlock,          \* blocks of _OSMEM_MemBig
    MESSAGE_NUM,       \* slots of a queue
    MEM_SIZE, MEM_BIG_SIZE,
    HEAD_SIZE,         \* sizeof(MessageHead_sut)
    QUERY_SIZE,        \* sizeof(OS_MEM_DATA), the larger of the two query blocks
    NULL, LINK         \* no block or task; a first word overwritten by a link

Block == SmallBlock \cup BigBlock
InlineSize == MEM_SIZE - HEAD_SIZE

ASSUME MessagingAssumption ==
    /\ TestTask \in Task
    /\ MESSAGE_MSG_TEST \in Value
    /\ Length \subseteq Nat
    /\ SmallBlock \cap BigBlock = {} /\ IsFiniteSet(SmallBlock)
    /\ MESSAGE_NUM \in Nat \ {0}
    /\ MEM_SIZE \in Nat /\ MEM_BIG_SIZE \in Nat
    /\ HEAD_SIZE \in Nat /\ QUERY_SIZE \in Nat
    /\ NULL \notin Task \cup Block \cup Value
    /\ LINK \notin Value

OS_ERR_NONE == 0
OS_ERR_Q_FULL == 30
OS_ERR_MEM_NO_FREE_BLKS == 93
MEM_ERR == 255       \* *perr=0xff: no partition has blocks of that size

VARIABLES
    free,      \* blocks on the free list of their partition
    mem,       \* [Block -> contents]: first word, len and data of a message
    queue,     \* [Task -> Seq(Block)]: the message pointers posted to QMessage
    pc,        \* [Task -> where the task is between two critical sections]
    pMessage,  \* [Task -> Block or NULL]: pMessage of MSG_Send or of the loop
    to,        \* [Task -> Task or NULL]: argument task of MSG_Send
    err,       \* [Task -> what the task's last MSG_Send returned or will]
    pBuf,      \* [Task -> Block or NULL]: scratch text of the MsgTest handler
    pData,     \* [Task -> Block or NULL]: query block of the MsgTest handler
    queries    \* [Task -> 0..2]: query blocks the handler has still to ask for

vars == <<free, mem, queue, pc, pMessage, to, err, pBuf, pData, queries>>

Contents == [message : Value \cup {LINK},        \* the first word
             len : Length \cup {0},
             data : Value \cup Block \cup {NULL}]  \* data8, or pData

Blank == [message |-> LINK, len |-> 0, data |-> NULL]

Init == /\ free = Block
        /\ mem = [b \in Block |-> Blank]
        /\ queue = [t \in Task |-> <<>>]
        /\ pc = [t \in Task |-> "idle"]
        /\ pMessage = [t \in Task |-> NULL]
        /\ to = [t \in Task |-> NULL]
        /\ err = [t \in Task |-> OS_ERR_NONE]
        /\ pBuf = [t \in Task |-> NULL]
        /\ pData = [t \in Task |-> NULL]
        /\ queries = [t \in Task |-> 0]

-----------------------------------------------------------------------------
(* Definitions whose name ends in _Faulty are plausible slips in the code,   *)
(* used to show that the properties below would notice them.                 *)

(* MEM_Get(size): the blocks it may return, and the error when there is none.*)
Candidates_Faulty(size) == IF size < MEM_SIZE THEN free \cap SmallBlock
                           ELSE IF size < MEM_BIG_SIZE THEN free \cap BigBlock
                           ELSE {}
Candidates(size) == IF size <= MEM_SIZE THEN free \cap SmallBlock
                    ELSE IF size <= MEM_BIG_SIZE THEN free \cap BigBlock
                    ELSE {}

GetError(size) == IF size <= MEM_SIZE \/ size <= MEM_BIG_SIZE
                  THEN OS_ERR_MEM_NO_FREE_BLKS ELSE MEM_ERR

(* MEM_Put(b): the address selects the partition, OSMemPut writes the link   *)
(* over the first word.  The rest of a free block is treated as lost, since  *)
(* its next owner may write it at any time.                                  *)
MEM_Put(b) == /\ free' = free \cup ({b} \cap Block)
              /\ mem' = [mem EXCEPT ![b] = Blank]

Goto(t, step) == pc' = [pc EXCEPT ![t] = step]

Long(b) == mem[b].len > InlineSize   \* the data of message b is out of line

-----------------------------------------------------------------------------
(* MSG_Send(task, message, .., data, len): the message block and its header. *)
SendGet(t, dst, v, n) ==
    /\ pc[t] = "idle"
    /\ \E b \in Candidates(MEM_SIZE) :
         /\ free' = free \ {b}
         /\ mem' = [mem EXCEPT ![b] =
                      [message |-> v, len |-> n,
                       data |-> IF n > InlineSize THEN NULL ELSE v]]
         /\ pMessage' = [pMessage EXCEPT ![t] = b]
    /\ to' = [to EXCEPT ![t] = dst]
    /\ err' = [err EXCEPT ![t] = OS_ERR_NONE]
    /\ Goto(t, IF n > InlineSize THEN "getData" ELSE "post")
    /\ UNCHANGED <<queue, pBuf, pData, queries>>

SendNoBlock(t) ==
    /\ pc[t] = "idle"
    /\ Candidates(MEM_SIZE) = {}
    /\ err' = [err EXCEPT ![t] = GetError(MEM_SIZE)]
    /\ UNCHANGED <<free, mem, queue, pc, pMessage, to, pBuf, pData, queries>>

SendGetData(t) ==
    /\ pc[t] = "getData"
    /\ \E d \in Candidates(mem[pMessage[t]].len) :
         /\ free' = free \ {d}
         /\ mem' = [mem EXCEPT ![pMessage[t]].data = d,
                               ![d].message = mem[pMessage[t]].message]
    /\ Goto(t, "post")
    /\ UNCHANGED <<queue, pMessage, to, err, pBuf, pData, queries>>

SendNoData(t) ==
    /\ pc[t] = "getData"
    /\ Candidates(mem[pMessage[t]].len) = {}
    /\ err' = [err EXCEPT ![t] = GetError(mem[pMessage[t]].len)]
    /\ Goto(t, "undo")
    /\ UNCHANGED <<free, mem, queue, pMessage, to, pBuf, pData, queries>>

SendUndo_Faulty(t) ==    \* returns err without MEM_Put
    /\ pc[t] = "undo"
    /\ pMessage' = [pMessage EXCEPT ![t] = NULL]
    /\ to' = [to EXCEPT ![t] = NULL]
    /\ Goto(t, "idle")
    /\ UNCHANGED <<free, mem, queue, err, pBuf, pData, queries>>

SendUndo(t) ==
    /\ pc[t] = "undo"
    /\ MEM_Put(pMessage[t])
    /\ pMessage' = [pMessage EXCEPT ![t] = NULL]
    /\ to' = [to EXCEPT ![t] = NULL]
    /\ Goto(t, "idle")
    /\ UNCHANGED <<queue, err, pBuf, pData, queries>>

(* OSQPost finds a free slot in QMessage[t].                                 *)
HasRoom_Faulty(t) == Len(queue[t]) + 1 < MESSAGE_NUM
HasRoom(t) == Len(queue[t]) < MESSAGE_NUM

SendPost(t) ==
    /\ pc[t] = "post"
    /\ HasRoom(to[t])
    /\ queue' = [queue EXCEPT ![to[t]] = Append(@, pMessage[t])]
    /\ pMessage' = [pMessage EXCEPT ![t] = NULL]
    /\ to' = [to EXCEPT ![t] = NULL]
    /\ err' = [err EXCEPT ![t] = OS_ERR_NONE]
    /\ Goto(t, "idle")
    /\ UNCHANGED <<free, mem, pBuf, pData, queries>>

SendFull(t) ==
    /\ pc[t] = "post"
    /\ ~HasRoom(to[t])
    /\ to' = [to EXCEPT ![t] = NULL]
    /\ err' = [err EXCEPT ![t] = OS_ERR_Q_FULL]
    /\ Goto(t, "free")
    /\ UNCHANGED <<free, mem, queue, pMessage, pBuf, pData, queries>>

-----------------------------------------------------------------------------
(* MSG_Receive(t), then Module_MsgHandle(t, pMessage).                       *)
Receive_Faulty(t) ==     \* OSQOut is not advanced
    /\ pc[t] = "idle"
    /\ queue[t] # <<>>
    /\ pMessage' = [pMessage EXCEPT ![t] = Head(queue[t])]
    /\ Goto(t, "handle")
    /\ UNCHANGED <<free, mem, queue, to, err, pBuf, pData, queries>>

Receive(t) ==
    /\ pc[t] = "idle"
    /\ queue[t] # <<>>
    /\ pMessage' = [pMessage EXCEPT ![t] = Head(queue[t])]
    /\ queue' = [queue EXCEPT ![t] = Tail(@)]
    /\ Goto(t, "handle")
    /\ UNCHANGED <<free, mem, to, err, pBuf, pData, queries>>

IsTest(t) == t = TestTask /\ mem[pMessage[t]].message = MESSAGE_MSG_TEST

HandleOther(t) ==     \* no handler, or one that takes no memory
    /\ pc[t] = "handle"
    /\ ~IsTest(t)
    /\ Goto(t, "free")
    /\ UNCHANGED <<free, mem, queue, pMessage, to, err, pBuf, pData, queries>>

TestGetBuf(t) ==
    /\ pc[t] = "handle"
    /\ IsTest(t)
    /\ \/ /\ \E b \in Candidates(MEM_SIZE) :
               /\ free' = free \ {b}
               /\ pBuf' = [pBuf EXCEPT ![t] = b]
          /\ queries' = [queries EXCEPT ![t] = 2]
          /\ Goto(t, "query")
       \/ /\ Candidates(MEM_SIZE) = {}
          /\ Goto(t, "free")
          /\ UNCHANGED <<free, pBuf, queries>>
    /\ UNCHANGED <<mem, queue, pMessage, to, err, pData>>

TestGetData(t) ==     \* the block OSQQuery, then the one OSMemQuery writes
    /\ pc[t] = "query"
    /\ queries[t] > 0
    /\ queries' = [queries EXCEPT ![t] = @ - 1]
    /\ \/ /\ \E b \in Candidates(QUERY_SIZE) :
               /\ free' = free \ {b}
               /\ pData' = [pData EXCEPT ![t] = b]
          /\ Goto(t, "putData")
       \/ /\ Candidates(QUERY_SIZE) = {}
          /\ UNCHANGED <<free, pData, pc>>
    /\ UNCHANGED <<mem, queue, pMessage, to, err, pBuf>>

TestPutData(t) ==
    /\ pc[t] = "putData"
    /\ MEM_Put(pData[t])
    /\ pData' = [pData EXCEPT ![t] = NULL]
    /\ Goto(t, "query")
    /\ UNCHANGED <<queue, pMessage, to, err, pBuf, queries>>

TestPutBuf_Faulty(t) ==  \* returns without MEM_Put(pBuf)
    /\ pc[t] = "query"
    /\ queries[t] = 0
    /\ pBuf' = [pBuf EXCEPT ![t] = NULL]
    /\ Goto(t, "free")
    /\ UNCHANGED <<free, mem, queue, pMessage, to, err, pData, queries>>

TestPutBuf(t) ==
    /\ pc[t] = "query"
    /\ queries[t] = 0
    /\ MEM_Put(pBuf[t])
    /\ pBuf' = [pBuf EXCEPT ![t] = NULL]
    /\ Goto(t, "free")
    /\ UNCHANGED <<queue, pMessage, to, err, pData, queries>>

-----------------------------------------------------------------------------
(* MSG_Free(pMessage): the data block first, then the message block.         *)
FreeData(t) ==
    /\ pc[t] = "free"
    /\ Long(pMessage[t])
    /\ MEM_Put(mem[pMessage[t]].data)
    /\ Goto(t, "freeMessage")
    /\ UNCHANGED <<queue, pMessage, to, err, pBuf, pData, queries>>

FreeMessage(t) ==
    /\ \/ pc[t] = "freeMessage"
       \/ pc[t] = "free" /\ ~Long(pMessage[t])
    /\ MEM_Put(pMessage[t])
    /\ pMessage' = [pMessage EXCEPT ![t] = NULL]
    /\ Goto(t, "idle")
    /\ UNCHANGED <<queue, to, err, pBuf, pData, queries>>

-----------------------------------------------------------------------------
Send(t) == \/ \E dst \in Task, v \in Value, n \in Length : SendGet(t, dst, v, n)
           \/ SendNoBlock(t)

(* What the task does once it has begun a call.                              *)
Continue(t) == \/ SendGetData(t) \/ SendNoData(t) \/ SendUndo(t)
               \/ SendPost(t) \/ SendFull(t)
               \/ HandleOther(t) \/ TestGetBuf(t) \/ TestGetData(t)
               \/ TestPutData(t) \/ TestPutBuf(t)
               \/ FreeData(t) \/ FreeMessage(t)

Next == \E t \in Task : Send(t) \/ Receive(t) \/ Continue(t)

Spec == Init /\ [][Next]_vars

(* A task that has begun a call goes on with it, and the drain loop of every *)
(* task keeps calling MSG_Receive.                                           *)
Fairness == \A t \in Task : WF_vars(Continue(t)) /\ SF_vars(Receive(t))

FairSpec == Spec /\ Fairness

-----------------------------------------------------------------------------
Step == {"idle", "getData", "undo", "post", "handle", "query", "putData",
         "free", "freeMessage"}

(* The variables stay in range: the queues hold message blocks of the small  *)
(* partition, and a task only ever handles such blocks (SYS_Start, MEM_Get). *)
TypeOK ==
    /\ free \subseteq Block
    /\ mem \in [Block -> Contents]
    /\ queue \in [Task -> Seq(SmallBlock)]
    /\ pc \in [Task -> Step]
    /\ pMessage \in [Task -> SmallBlock \cup {NULL}]
    /\ to \in [Task -> Task \cup {NULL}]
    /\ err \in [Task -> {OS_ERR_NONE, OS_ERR_Q_FULL,
                        OS_ERR_MEM_NO_FREE_BLKS, MEM_ERR}]
    /\ pBuf \in [Task -> SmallBlock \cup {NULL}]
    /\ pData \in [Task -> Block \cup {NULL}]
    /\ queries \in [Task -> 0..2]

(* The message a task holds has its data block: not yet while MEM_Get is     *)
(* asked for one, and no longer once MSG_Free has returned it.               *)
HasData(t) == pc[t] \notin {"getData", "undo", "freeMessage"}

(* Message block m carries the data block mem[m].data.                       *)
Carries(m) ==
    /\ Long(m)
    /\ \E t \in Task : \/ \E i \in DOMAIN queue[t] : queue[t][i] = m
                       \/ pMessage[t] = m /\ HasData(t)

(* The queue slots that hold a pointer to block b.                           *)
Slots(b) == {slot \in Task \X (1..MESSAGE_NUM) :
                 /\ slot[2] <= Len(queue[slot[1]])
                 /\ queue[slot[1]][slot[2]] = b}

(* Everything in the system that refers to block b.                          *)
Names(b) ==
    UNION { {<<"free", f>> : f \in free \cap {b}},
            {<<"queue", slot>> : slot \in Slots(b)},
            {<<"task", t>> : t \in {u \in Task : pMessage[u] = b}},
            {<<"buf", t>> : t \in {u \in Task : pBuf[u] = b}},
            {<<"query", t>> : t \in {u \in Task : pData[u] = b}},
            {<<"data", m>> : m \in {n \in Block : Carries(n) /\ mem[n].data = b}} }

(* No block is lost and none is used twice: at every moment each block of    *)
(* both partitions is either free, or in one slot of one queue, or held by   *)
(* one task in one variable, or the data of one live message, and never two  *)
(* of these, whichever of MSG_Send's, MSG_Free's and the handler's paths the *)
(* tasks are on (sys.c:181-231, msg_test_module.c:27-70).                    *)
OneOwner == \A b \in Block : \E name \in Names(b) : Names(b) = {name}

(* With at least as many slots per queue as small blocks, as config.h has it *)
(* (MESSAGE_NUM and MEM_NUM are both 30), MSG_Send runs out of blocks before *)
(* any queue overflows, so its MSG_Free branch (sys.c:206-208) is never run. *)
QueueNeverFull ==
    MESSAGE_NUM >= Cardinality(SmallBlock) => \A t \in Task : err[t] # OS_ERR_Q_FULL

(* Message m as its receiver reads it.                                       *)
Decode(m) == [message |-> mem[m].message,
              len |-> mem[m].len,
              data |-> IF ~Long(m) THEN mem[m].data
                       ELSE IF mem[m].data \in Block THEN mem[mem[m].data].message
                       ELSE NULL]

(* The abstract channels: the posted blocks decoded, and the message a task  *)
(* is handling, which must stay readable until the handlers return.          *)
Sendable == {[message |-> v, len |-> n, data |-> v] : v \in Value, n \in Length}
Posted == [t \in Task |-> [i \in DOMAIN queue[t] |-> Decode(queue[t][i])]]
Handled == [t \in Task |-> IF pc[t] \in {"handle", "query", "putData"}
                          THEN Decode(pMessage[t]) ELSE NULL]

Channel == INSTANCE MsgChannel WITH
    Message <- Sendable,
    Capacity <- MESSAGE_NUM,
    NoMessage <- NULL,
    channel <- Posted,
    handling <- Handled

(* Whatever blocks are recycled meanwhile, what a task receives is exactly   *)
(* what was sent to it, in order, once, and unchanged while it is handled:   *)
(* the message layer implements MsgChannel.                                  *)
ImplementsChannel == Channel!Spec

(* Every block that leaves a free list comes back to it: no sequence of full *)
(* queues, empty partitions and nested gets makes the pool shrink for good,  *)
(* and no message waits forever in the queue of a task that keeps draining.  *)
Recycled == \A b \in Block : b \notin free ~> b \in free
=============================================================================
