--------------------------- MODULE MessagingProof ---------------------------
(* Proofs about the message layer, for any number of tasks and blocks, any   *)
(* queue length and any block sizes.                                         *)
EXTENDS Messaging, SequenceTheorems, FiniteSetTheorems, TLAPS

(* What each task's variables hold at each place of its program: a task      *)
(* holds a message unless it is idle, and scratch blocks only while the      *)
(* MsgTest handler runs.                                                     *)
Control ==
    \A t \in Task :
        /\ pMessage[t] = NULL <=> pc[t] = "idle"
        /\ pBuf[t] # NULL <=> pc[t] \in {"query", "putData"}
        /\ pData[t] # NULL <=> pc[t] = "putData"
        /\ pc[t] \in {"getData", "undo", "post"} => to[t] \in Task

TypeInv == TypeOK /\ Control

LEMMA CandidatesAreFree ==
  ASSUME NEW size
  PROVE  Candidates(size) \subseteq free
  BY DEF Candidates

LEMMA MessagesAreSmall ==
  Candidates(MEM_SIZE) \subseteq SmallBlock
  BY MessagingAssumption DEF Candidates

(* The two stores of SendGetData keep every block's contents well-typed.     *)
LEMMA FieldUpdates ==
  ASSUME TypeOK, NEW b \in Block, NEW d \in Block
  PROVE  [mem EXCEPT ![b].data = d, ![d].message = mem[b].message]
           \in [Block -> Contents]
<1> DEFINE first == [mem EXCEPT ![b].data = d]
<1>1. mem[b] \in Contents
  BY DEF TypeOK
<1>2. [mem[b] EXCEPT !.data = d] \in Contents
  BY <1>1 DEF Contents
<1>3. first \in [Block -> Contents]
  BY <1>2 DEF TypeOK
<1>4. [first[d] EXCEPT !.message = mem[b].message] \in Contents
  BY <1>1, <1>3 DEF Contents
<1>. QED
  BY <1>3, <1>4

LEMMA InitTypeInv == Init => TypeInv
  BY MessagingAssumption
  DEF Contents, Init, TypeInv, TypeOK, Control, Step, Blank, Block, OS_ERR_NONE

(* Where a variable is a function of the tasks, an action changes it at the  *)
(* acting task only; every step below is one conjunct of TypeInv.            *)
LEMMA NextTypeInv == TypeInv /\ [Next]_vars => TypeInv'
<1> SUFFICES ASSUME TypeInv, [Next]_vars PROVE TypeInv'
  OBVIOUS
<1> USE MessagingAssumption DEF TypeInv, TypeOK, Control, Step, Goto, Block
<1>1. ASSUME NEW t \in Task, NEW dst \in Task, NEW v \in Value, NEW n \in Length,
             SendGet(t, dst, v, n)
      PROVE  TypeInv'
  BY <1>1, MessagesAreSmall DEF SendGet, Contents, OS_ERR_NONE
<1>2. ASSUME NEW t \in Task, SendNoBlock(t) PROVE TypeInv'
  BY <1>2 DEF SendNoBlock, GetError
<1>3. ASSUME NEW t \in Task, SendGetData(t) PROVE TypeInv'
  <2>1. PICK d \in Candidates(mem[pMessage[t]].len) :
          mem' = [mem EXCEPT ![pMessage[t]].data = d,
                             ![d].message = mem[pMessage[t]].message]
          /\ free' = free \ {d}
    BY <1>3 DEF SendGetData
  <2>2. d \in Block /\ pMessage[t] \in Block
    BY <1>3, <2>1, CandidatesAreFree DEF SendGetData
  <2>3. mem' \in [Block -> Contents]
    BY <2>1, <2>2, FieldUpdates
  <2>. QED
    BY ZenonT(60), <1>3, <2>1, <2>3 DEF SendGetData
<1>4. ASSUME NEW t \in Task, SendNoData(t) PROVE TypeInv'
  BY <1>4 DEF SendNoData, GetError
<1>5. ASSUME NEW t \in Task, SendUndo(t) PROVE TypeInv'
  BY <1>5 DEF SendUndo, MEM_Put, Blank, Contents
<1>6. ASSUME NEW t \in Task, SendPost(t) PROVE TypeInv'
  BY <1>6, AppendProperties DEF SendPost
<1>7. ASSUME NEW t \in Task, SendFull(t) PROVE TypeInv'
  BY <1>7 DEF SendFull
<1>8. ASSUME NEW t \in Task, Receive(t) PROVE TypeInv'
  BY <1>8, HeadTailProperties DEF Receive
<1>9. ASSUME NEW t \in Task, HandleOther(t) PROVE TypeInv'
  BY <1>9 DEF HandleOther
<1>10. ASSUME NEW t \in Task, TestGetBuf(t) PROVE TypeInv'
  <2>1. CASE Candidates(MEM_SIZE) = {}
    BY ZenonT(200), <1>10, <2>1 DEF TestGetBuf
  <2>2. CASE Candidates(MEM_SIZE) # {}
    <3>1. PICK b \in Candidates(MEM_SIZE) :
                 free' = free \ {b} /\ pBuf' = [pBuf EXCEPT ![t] = b]
      BY <1>10, <2>2 DEF TestGetBuf
    <3>2. b \in SmallBlock /\ b # NULL
      BY <3>1, MessagesAreSmall
    <3>3. /\ pc[t] = "handle" /\ pc' = [pc EXCEPT ![t] = "query"]
          /\ queries' = [queries EXCEPT ![t] = 2]
          /\ UNCHANGED <<mem, queue, pMessage, to, err, pData>>
      BY <1>10, <2>2 DEF TestGetBuf
    <3>. QED
      BY <3>1, <3>2, <3>3
  <2>. QED
    BY <2>1, <2>2
<1>11. ASSUME NEW t \in Task, TestGetData(t) PROVE TypeInv'
  <2>1. CASE Candidates(QUERY_SIZE) = {}
    BY <1>11, <2>1 DEF TestGetData
  <2>2. CASE Candidates(QUERY_SIZE) # {}
    <3>1. PICK b \in Candidates(QUERY_SIZE) :
                 free' = free \ {b} /\ pData' = [pData EXCEPT ![t] = b]
      BY <1>11, <2>2 DEF TestGetData
    <3>2. b \in Block /\ b # NULL
      BY <3>1, CandidatesAreFree
    <3>3. /\ pc[t] = "query" /\ pc' = [pc EXCEPT ![t] = "putData"]
          /\ queries' = [queries EXCEPT ![t] = @ - 1] /\ queries[t] > 0
          /\ UNCHANGED <<mem, queue, pMessage, to, err, pBuf>>
      BY <1>11, <2>2 DEF TestGetData
    <3>. QED
      BY <3>1, <3>2, <3>3
  <2>. QED
    BY <2>1, <2>2
<1>12. ASSUME NEW t \in Task, TestPutData(t) PROVE TypeInv'
  BY <1>12 DEF TestPutData, MEM_Put, Blank, Contents
<1>13. ASSUME NEW t \in Task, TestPutBuf(t) PROVE TypeInv'
  BY <1>13 DEF TestPutBuf, MEM_Put, Blank, Contents
<1>14. ASSUME NEW t \in Task, FreeData(t) PROVE TypeInv'
  BY <1>14 DEF FreeData, MEM_Put, Blank, Contents
<1>15. ASSUME NEW t \in Task, FreeMessage(t) PROVE TypeInv'
  BY <1>15 DEF FreeMessage, MEM_Put, Blank, Contents
<1>16. CASE UNCHANGED vars
  BY <1>16 DEF vars
<1>. QED
  BY <1>1, <1>2, <1>3, <1>4, <1>5, <1>6, <1>7, <1>8, <1>9, <1>10, <1>11, <1>12,
     <1>13, <1>14, <1>15, <1>16 DEF Next, Send, Continue

LEMMA TypeInvariance == Spec => []TypeInv
  BY InitTypeInv, NextTypeInv, PTL DEF Spec

(* The variables of the message layer stay in range.                         *)
THEOREM TypeCorrect == Spec => []TypeOK
  BY TypeInvariance, PTL DEF TypeInv

-----------------------------------------------------------------------------
(* place and at say of every block where it is: free, in the queue of task   *)
(* at[b], held by task at[b] in pMessage, pBuf or pData, or the data of the  *)
(* message block at[b].                                                      *)
Placed(place, at) ==
    \A b \in Block : \/ place[b] = "free"
                     \/ place[b] \in {"queue", "task", "buf", "query"} /\ at[b] \in Task
                     \/ place[b] = "data" /\ at[b] \in Block

(* Message block m has a data block.                                         *)
Bears(m, place, at) ==
    /\ Long(m)
    /\ \/ place[m] = "queue"
       \/ place[m] = "task" /\ HasData(at[m])

OwnFree(place) == \A b \in Block : place[b] = "free" <=> b \in free

OwnQueue(place, at) ==
    \A t \in Task :
        /\ \A i \in DOMAIN queue[t] : /\ place[queue[t][i]] = "queue"
                                     /\ at[queue[t][i]] = t
        /\ \A i, j \in DOMAIN queue[t] : queue[t][i] = queue[t][j] => i = j
        /\ \A b \in Block : place[b] = "queue" /\ at[b] = t
                             => \E i \in DOMAIN queue[t] : queue[t][i] = b

OwnTask(place, at) ==
    \A t \in Task, b \in Block :
        /\ (place[b] = "task" /\ at[b] = t) <=> pMessage[t] = b
        /\ (place[b] = "buf" /\ at[b] = t) <=> pBuf[t] = b
        /\ (place[b] = "query" /\ at[b] = t) <=> pData[t] = b

OwnData(place, at) ==
    \A m \in Block :
        /\ \A b \in Block : (place[b] = "data" /\ at[b] = m)
                             <=> (Bears(m, place, at) /\ mem[m].data = b)
        /\ Bears(m, place, at) => mem[m].data \in Block

(* A sender asks for a data block because its message is long.               *)
OwnPending(place, at) ==
    \A m \in Block : place[m] = "task" /\ pc[at[m]] = "getData" => Long(m)

Owned(place, at) == /\ Placed(place, at)
                    /\ OwnPending(place, at)
                    /\ OwnFree(place)
                    /\ OwnQueue(place, at)
                    /\ OwnTask(place, at)
                    /\ OwnData(place, at)

OInv == TypeInv /\ \E place, at : Owned(place, at)

LEMMA InitOInv == Init => OInv
<1> SUFFICES ASSUME Init PROVE OInv
  OBVIOUS
<1> PICK place, at : place = [b \in Block |-> "free"] /\ at = [b \in Block |-> NULL]
  OBVIOUS
<1>1. Owned(place, at)
  BY MessagingAssumption
  DEF Init, Owned, Placed, OwnFree, OwnQueue, OwnTask, OwnData, OwnPending, Bears, Blank
<1>. QED
  BY <1>1, InitTypeInv DEF OInv

(* A step that moves no block keeps place and at.                            *)
LEMMA KeepsOwner ==
  ASSUME TypeInv, NEW place, NEW at, Owned(place, at),
         UNCHANGED <<free, mem, queue, pMessage, pBuf, pData>>,
         \A t \in Task : /\ pMessage[t] # NULL => (HasData(t)' <=> HasData(t))
                         /\ pc'[t] = "getData" => pc[t] = "getData"
  PROVE  Owned(place, at)'
<1>1. ASSUME NEW m \in Block
      PROVE  Bears(m, place, at)' <=> Bears(m, place, at)
  <2>1. Long(m)' <=> Long(m)
    BY DEF Long
  <2>2. place[m] = "task" => at[m] \in Task /\ pMessage[at[m]] # NULL
    BY MessagingAssumption DEF Owned, Placed, OwnTask
  <2>3. place[m] = "task" => (HasData(at[m])' <=> HasData(at[m]))
    BY <2>2
  <2>. QED
    BY <2>1, <2>3 DEF Bears
<1>2. OwnPending(place, at)'
  BY DEF Owned, Placed, OwnPending, Long
<1>. QED
  BY <1>1, <1>2 DEF Owned, Placed, OwnFree, OwnQueue, OwnTask, OwnData

(* The ranges the proofs below use.                                          *)
LEMMA Ranges ==
  ASSUME TypeInv
  PROVE  /\ SmallBlock \subseteq Block /\ NULL \notin Block
         /\ free \subseteq Block
         /\ mem \in [Block -> Contents]
         /\ queue \in [Task -> Seq(SmallBlock)]
         /\ \A t \in Task : \A i \in DOMAIN queue[t] : queue[t][i] \in Block
         /\ pc \in [Task -> Step]
         /\ pMessage \in [Task -> SmallBlock \cup {NULL}]
         /\ pBuf \in [Task -> SmallBlock \cup {NULL}]
         /\ pData \in [Task -> Block \cup {NULL}]
<1>1. SmallBlock \subseteq Block /\ NULL \notin Block
  BY MessagingAssumption DEF Block
<1>. QED
  BY <1>1 DEF TypeInv, TypeOK

(* Block b is now at task t's (or message t's) place v.                      *)
Moved(f, b, v) == [x \in Block |-> IF x = b THEN v ELSE f[x]]

(* A message other than the block that moves and the acting task's message   *)
(* keeps its data.                                                           *)
LEMMA OthersBear ==
  ASSUME TypeInv, NEW place, NEW at, Owned(place, at), NEW t \in Task, NEW step,
         pc' = [pc EXCEPT ![t] = step],
         NEW m \in Block, m # pMessage[t], Long(m)' <=> Long(m)
  PROVE  Bears(m, place, at)' <=> Bears(m, place, at)
<1>1. place[m] = "task" => at[m] \in Task /\ at[m] # t
  BY Ranges DEF Owned, Placed, OwnTask
<1>2. \A u \in Task : u # t => (HasData(u)' <=> HasData(u))
  BY Ranges DEF HasData
<1>. QED
  BY <1>1, <1>2 DEF Bears

(* Block b goes back to its free list.                                       *)
LEMMA Release ==
  ASSUME TypeInv, NEW place, NEW at, Owned(place, at), NEW b \in Block,
         place[b] # "queue", ~Bears(b, place, at),
         free' = free \cup {b},
         mem' = [mem EXCEPT ![b] = Blank],
         queue' = queue,
         \A t \in Task :
            /\ pMessage'[t] = IF pMessage[t] = b THEN NULL ELSE pMessage[t]
            /\ pBuf'[t] = IF pBuf[t] = b THEN NULL ELSE pBuf[t]
            /\ pData'[t] = IF pData[t] = b THEN NULL ELSE pData[t],
         \A m \in Block \ {b} : Bears(m, place, at)' <=>
                                (Bears(m, place, at) /\ mem[m].data # b),
         \A t \in Task : pc'[t] = "getData" => pc[t] = "getData"
  PROVE  \E p, a : Owned(p, a)'
<1>1. PICK p : p = Moved(place, b, "free")
  OBVIOUS
<1>2. Placed(p, at)' /\ OwnFree(p)'
  BY <1>1 DEF Owned, Placed, OwnFree, Moved
<1>3. OwnQueue(p, at)'
  BY <1>1, Ranges DEF Owned, OwnQueue, Moved
<1>4. OwnTask(p, at)'
  BY <1>1, Ranges DEF Owned, OwnTask, Moved
<1>5. ~Bears(b, p, at)'
  BY <1>1 DEF Bears, Moved
<1>6. \A m \in Block \ {b} : Bears(m, p, at)' <=>
                             (Bears(m, place, at) /\ mem[m].data # b)
  BY <1>1 DEF Bears, Moved
<1>7. \A m \in Block \ {b} : mem'[m] = mem[m]
  BY Ranges
<1>8. OwnData(p, at)'
  BY <1>1, <1>5, <1>6, <1>7 DEF Owned, OwnData, Moved
<1>9. OwnPending(p, at)'
  BY <1>1, <1>2, <1>7 DEF Owned, Placed, OwnPending, Moved, Long
<1>10. Owned(p, at)'
  BY <1>2, <1>3, <1>4, <1>8, <1>9 DEF Owned
<1>. QED
  BY <1>10

(* A free block b becomes the scratch block of task t.                       *)
LEMMA TakeScratch ==
  ASSUME TypeInv, NEW place, NEW at, Owned(place, at), NEW t \in Task,
         NEW b \in free, free' = free \ {b},
         UNCHANGED <<mem, queue, pMessage>>,
         \A u \in Task : /\ pMessage[u] # NULL => (HasData(u)' <=> HasData(u))
                         /\ pc'[u] = "getData" => pc[u] = "getData",
         \/ /\ pBuf[t] = NULL /\ pBuf' = [pBuf EXCEPT ![t] = b]
            /\ pData' = pData
         \/ /\ pData[t] = NULL /\ pData' = [pData EXCEPT ![t] = b]
            /\ pBuf' = pBuf
  PROVE  \E p, a : Owned(p, a)'
<1>1. PICK new \in {"buf", "query"} :
         \A u \in Task :
            /\ pBuf'[u] = IF u = t /\ new = "buf" THEN b ELSE pBuf[u]
            /\ pData'[u] = IF u = t /\ new = "query" THEN b ELSE pData[u]
            /\ new = "buf" => pBuf[t] = NULL
            /\ new = "query" => pData[t] = NULL
  BY Ranges
<1>2. PICK p, a : p = Moved(place, b, new) /\ a = Moved(at, b, t)
  OBVIOUS
<1>3. b \in Block /\ b # NULL /\ place[b] = "free"
  BY Ranges DEF Owned, OwnFree
<1>4. Placed(p, a)' /\ OwnFree(p)'
  BY <1>1, <1>2, <1>3 DEF Owned, Placed, OwnFree, Moved
<1>5. OwnQueue(p, a)'
  BY <1>1, <1>2, <1>3, Ranges DEF Owned, OwnQueue, Moved
<1>6. OwnTask(p, a)'
  BY <1>1, <1>2, <1>3, Ranges DEF Owned, OwnTask, Moved
<1>7. ASSUME NEW m \in Block
      PROVE  Bears(m, p, a)' <=> Bears(m, place, at)
  <2>1. Long(m)' <=> Long(m)
    BY DEF Long
  <2>2. place[m] = "task" => at[m] \in Task /\ pMessage[at[m]] # NULL
    BY MessagingAssumption DEF Owned, Placed, OwnTask
  <2>3. place[m] = "task" => (HasData(at[m])' <=> HasData(at[m]))
    BY <2>2
  <2>. QED
    BY <1>1, <1>2, <1>3, <2>1, <2>3 DEF Bears, Moved
<1>8. OwnData(p, a)'
  BY <1>1, <1>2, <1>3, <1>7 DEF Owned, OwnData, Moved
<1>9. OwnPending(p, a)'
  BY <1>1, <1>2, <1>3, <1>4 DEF Owned, Placed, OwnPending, Moved, Long
<1>10. Owned(p, a)'
  BY <1>4, <1>5, <1>6, <1>8, <1>9 DEF Owned
<1>. QED
  BY <1>10
(* The block a step moves, and where to, is all that changes.                *)
LEMMA NextOInv == OInv /\ [Next]_vars => OInv'
<1> SUFFICES ASSUME OInv, [Next]_vars PROVE OInv'
  OBVIOUS
<1>1. PICK place, at : Owned(place, at)
  BY DEF OInv
<1>2. TypeInv /\ TypeInv'
  BY NextTypeInv DEF OInv
<1>3. SUFFICES \E p, a : Owned(p, a)'
  BY <1>2 DEF OInv
<1> USE <1>1, <1>2
<1> DEFINE Kept == \E p, a : Owned(p, a)'
<1>4. ASSUME NEW t \in Task, NEW dst \in Task, NEW v \in Value, NEW n \in Length,
             SendGet(t, dst, v, n)
      PROVE  Kept
  <2>1. PICK b \in Candidates(MEM_SIZE) :
          /\ free' = free \ {b}
          /\ pMessage' = [pMessage EXCEPT ![t] = b]
          /\ mem' = [mem EXCEPT ![b] = [message |-> v, len |-> n,
                       data |-> IF n > InlineSize THEN NULL ELSE v]]
    BY <1>4 DEF SendGet
  <2>2. PICK p, a : p = Moved(place, b, "task") /\ a = Moved(at, b, t)
    OBVIOUS
  <2>3. b \in Block /\ place[b] = "free" /\ pMessage[t] = NULL
    BY <1>4, <2>1, CandidatesAreFree, Ranges
    DEF Owned, OwnFree, TypeInv, Control, SendGet
  <2>4. /\ pc' = [pc EXCEPT ![t] = IF n > InlineSize THEN "getData" ELSE "post"]
        /\ UNCHANGED <<queue, pBuf, pData>>
    BY <1>4 DEF SendGet, Goto
  <2>5. Placed(p, a)' /\ OwnFree(p)'
    BY <2>1, <2>2, <2>3 DEF Owned, Placed, OwnFree, Moved
  <2>6. OwnQueue(p, a)'
    BY <2>2, <2>3, <2>4, Ranges DEF Owned, OwnQueue, Moved
  <2>7. OwnTask(p, a)'
    BY <2>1, <2>2, <2>3, <2>4, Ranges DEF Owned, OwnTask, Moved
  <2>8. Long(b)' <=> n > InlineSize
    BY <2>1, <2>3, Ranges DEF Long
  <2>9. \A m \in Block : m # b => mem'[m] = mem[m] /\ (Long(m)' <=> Long(m))
    BY <2>1, Ranges DEF Long
  <2>10. ~Bears(b, place, at) /\ ~Bears(b, p, a)'
    <3>1. HasData(t)' <=> ~(n > InlineSize)
      BY <2>4, Ranges DEF HasData
    <3>. QED
      BY <2>2, <2>3, <2>8, <3>1 DEF Bears, Moved
  <2>11. ASSUME NEW m \in Block, m # b
         PROVE  Bears(m, p, a)' <=> Bears(m, place, at)
    <3>1. Bears(m, place, at)' <=> Bears(m, place, at)
      BY <2>3, <2>4, <2>9, <2>11, OthersBear, Ranges
    <3>. QED
      BY <2>2, <2>3, <2>11, <3>1 DEF Bears, Moved
  <2>12. OwnData(p, a)'
    BY <2>2, <2>3, <2>9, <2>10, <2>11 DEF Owned, OwnData, Moved
  <2>13. OwnPending(p, a)'
    <3>1. \A m \in Block : m # b /\ p[m] = "task" =>
                             a[m] \in Task /\ a[m] # t /\ place[m] = "task" /\ a[m] = at[m]
      BY SMTT(40), <2>2, <2>3, Ranges DEF Owned, Placed, OwnTask, Moved
    <3>. QED
      BY <2>2, <2>4, <2>8, <2>9, <3>1, Ranges DEF Owned, OwnPending, Moved
  <2>14. Owned(p, a)'
    BY <2>5, <2>6, <2>7, <2>12, <2>13 DEF Owned
  <2>. QED
    BY <2>14
<1>5. ASSUME NEW t \in Task, SendNoBlock(t) PROVE Kept
  BY <1>5, KeepsOwner DEF SendNoBlock, HasData
<1>6. ASSUME NEW t \in Task, SendGetData(t) PROVE Kept
  <2>1. PICK d \in Candidates(mem[pMessage[t]].len) :
          /\ free' = free \ {d}
          /\ mem' = [mem EXCEPT ![pMessage[t]].data = d,
                                ![d].message = mem[pMessage[t]].message]
    BY <1>6 DEF SendGetData
  <2>2. PICK m : m = pMessage[t]
    OBVIOUS
  <2>3. PICK p, a : p = Moved(place, d, "data") /\ a = Moved(at, d, m)
    OBVIOUS
  <2>4. /\ d \in Block /\ place[d] = "free"
        /\ m \in Block /\ place[m] = "task" /\ at[m] = t
    <3>1. m \in Block
      BY <1>6, <2>2, Ranges DEF SendGetData, TypeInv, Control
    <3>. QED
      BY <2>1, <2>2, <3>1, CandidatesAreFree, Ranges DEF Owned, OwnFree, OwnTask
  <2>5. /\ pc[t] = "getData" /\ pc' = [pc EXCEPT ![t] = "post"]
        /\ UNCHANGED <<queue, pMessage, pBuf, pData>>
    BY <1>6 DEF SendGetData, Goto
  <2>6. Long(m)
    BY <2>4, <2>5 DEF Owned, OwnPending
  <2>7. /\ mem'[m].data = d
        /\ \A x \in Block : mem'[x].len = mem[x].len
        /\ \A x \in Block : x # m => mem'[x].data = mem[x].data
    <3>1. mem[m] \in Contents /\ mem[d] \in Contents /\ m # d
      BY <2>4, Ranges
    <3>. QED
      BY <2>1, <2>2, <2>4, <3>1, Ranges DEF Contents
  <2>8. \A x \in Block : Long(x)' <=> Long(x)
    BY <2>7 DEF Long
  <2>9. Placed(p, a)' /\ OwnFree(p)'
    BY <2>1, <2>3, <2>4 DEF Owned, Placed, OwnFree, Moved
  <2>10. OwnQueue(p, a)'
    BY <2>3, <2>4, <2>5, Ranges DEF Owned, OwnQueue, Moved
  <2>11. OwnTask(p, a)'
    BY <2>3, <2>4, <2>5, Ranges DEF Owned, OwnTask, Moved
  <2>12. ~Bears(m, place, at) /\ Bears(m, p, a)'
    <3>1. HasData(t)' /\ ~HasData(t)
      BY <2>5, Ranges DEF HasData
    <3>. QED
      BY <2>3, <2>4, <2>6, <2>8, <3>1 DEF Bears, Moved
  <2>13. ~Bears(d, place, at) /\ ~Bears(d, p, a)'
    BY <2>3, <2>4 DEF Bears, Moved
  <2>14. ASSUME NEW x \in Block, x # m, x # d
         PROVE  Bears(x, p, a)' <=> Bears(x, place, at)
    <3>1. Bears(x, place, at)' <=> Bears(x, place, at)
      BY <2>2, <2>5, <2>8, <2>14, OthersBear
    <3>. QED
      BY <2>3, <2>14, <3>1 DEF Bears, Moved
  <2>15. OwnData(p, a)'
    BY <2>3, <2>4, <2>7, <2>12, <2>13, <2>14 DEF Owned, OwnData, Moved
  <2>16. OwnPending(p, a)'
    <3>1. \A x \in Block : p[x] = "task" => x # d /\ place[x] = "task" /\ a[x] = at[x]
      BY <2>3 DEF Moved
    <3>2. \A x \in Block : p[x] = "task" => a[x] \in Task
      BY <3>1 DEF Owned, Placed
    <3>. QED
      BY <2>5, <2>8, <3>1, <3>2, Ranges DEF Owned, OwnPending
  <2>17. Owned(p, a)'
    BY <2>9, <2>10, <2>11, <2>15, <2>16 DEF Owned
  <2>. QED
    BY <2>17
<1>7. ASSUME NEW t \in Task, SendNoData(t) PROVE Kept
  <2>1. \A u \in Task : /\ HasData(u)' <=> HasData(u)
                        /\ pc'[u] = "getData" => pc[u] = "getData"
    BY <1>7, Ranges DEF SendNoData, HasData, Goto
  <2>. QED
    BY <1>7, <2>1, KeepsOwner DEF SendNoData
<1>8. ASSUME NEW t \in Task, SendUndo(t) PROVE Kept
  <2>1. PICK b : b = pMessage[t]
    OBVIOUS
  <2>2. b \in Block /\ place[b] = "task" /\ at[b] = t
    <3>1. b \in Block
      BY <1>8, <2>1, Ranges DEF SendUndo, TypeInv, Control
    <3>. QED
      BY <2>1, <3>1 DEF Owned, OwnTask
  <2>3. /\ pc[t] = "undo" /\ pc' = [pc EXCEPT ![t] = "idle"]
        /\ free' = free \cup {b} /\ mem' = [mem EXCEPT ![b] = Blank]
        /\ pMessage' = [pMessage EXCEPT ![t] = NULL]
        /\ UNCHANGED <<queue, pBuf, pData>>
    BY <1>8, <2>1, <2>2 DEF SendUndo, MEM_Put, Goto
  <2>4. ~Bears(b, place, at)
    BY <2>2, <2>3 DEF Bears, HasData
  <2>5. ASSUME NEW m \in Block \ {b}
        PROVE  Bears(m, place, at)' <=> (Bears(m, place, at) /\ mem[m].data # b)
    <3>1. Long(m)' <=> Long(m)
      BY <2>2, <2>3, Ranges DEF Long
    <3>2. Bears(m, place, at)' <=> Bears(m, place, at)
      BY <2>1, <2>3, <2>5, <3>1, OthersBear
    <3>3. Bears(m, place, at) => mem[m].data # b
      BY <2>2 DEF Owned, OwnData
    <3>. QED
      BY <3>2, <3>3
  <2>6. \A u \in Task :
          /\ pMessage'[u] = IF pMessage[u] = b THEN NULL ELSE pMessage[u]
          /\ pBuf'[u] = IF pBuf[u] = b THEN NULL ELSE pBuf[u]
          /\ pData'[u] = IF pData[u] = b THEN NULL ELSE pData[u]
    BY <2>1, <2>2, <2>3, Ranges DEF Owned, OwnTask
  <2>7. \A u \in Task : pc'[u] = "getData" => pc[u] = "getData"
    BY <2>3, Ranges
  <2>. QED
    BY <2>2, <2>3, <2>4, <2>5, <2>6, <2>7, Release
<1>9. ASSUME NEW t \in Task, SendPost(t) PROVE Kept
  <2>1. PICK b, dst : b = pMessage[t] /\ dst = to[t]
    OBVIOUS
  <2>2. PICK p, a : p = Moved(place, b, "queue") /\ a = Moved(at, b, dst)
    OBVIOUS
  <2>3. b \in Block /\ dst \in Task /\ place[b] = "task" /\ at[b] = t
    <3>1. b \in Block /\ dst \in Task
      BY <1>9, <2>1, Ranges DEF SendPost, TypeInv, Control
    <3>. QED
      BY <2>1, <3>1 DEF Owned, OwnTask
  <2>4. /\ pc[t] = "post" /\ pc' = [pc EXCEPT ![t] = "idle"]
        /\ queue' = [queue EXCEPT ![dst] = Append(@, b)]
        /\ pMessage' = [pMessage EXCEPT ![t] = NULL]
        /\ UNCHANGED <<free, mem, pBuf, pData>>
    BY <1>9, <2>1, <2>3 DEF SendPost, Goto
  <2>5. Placed(p, a)' /\ OwnFree(p)'
    BY <2>2, <2>3, <2>4 DEF Owned, Placed, OwnFree, Moved
  <2>6. OwnQueue(p, a)'
    <3>1. PICK q : q = queue[dst]
      OBVIOUS
    <3>2. q \in Seq(SmallBlock) /\ b \in SmallBlock
      BY <2>1, <2>3, <3>1, Ranges
    <3>3. /\ queue'[dst] = Append(q, b)
          /\ \A u \in Task : u # dst => queue'[u] = queue[u]
      BY <2>3, <2>4, <3>1, Ranges
    <3>4. /\ DOMAIN Append(q, b) = DOMAIN q \cup {Len(q) + 1}
          /\ Append(q, b)[Len(q) + 1] = b
          /\ \A i \in DOMAIN q : Append(q, b)[i] = q[i] /\ i # Len(q) + 1
      BY <3>2
    <3>5. \A u \in Task : \A i \in DOMAIN queue[u] : queue[u][i] # b
      BY <2>3 DEF Owned, OwnQueue
    <3>6. \A u \in Task : u # dst =>
             /\ \A i \in DOMAIN queue'[u] : p[queue'[u][i]] = "queue" /\ a[queue'[u][i]] = u
             /\ \A i, j \in DOMAIN queue'[u] : queue'[u][i] = queue'[u][j] => i = j
             /\ \A x \in Block : p[x] = "queue" /\ a[x] = u
                                   => \E i \in DOMAIN queue'[u] : queue'[u][i] = x
      BY <2>2, <2>3, <3>3, <3>5, Ranges DEF Owned, OwnQueue, Moved
    <3>7. /\ \A i \in DOMAIN queue'[dst] : p[queue'[dst][i]] = "queue" /\ a[queue'[dst][i]] = dst
          /\ \A i, j \in DOMAIN queue'[dst] : queue'[dst][i] = queue'[dst][j] => i = j
          /\ \A x \in Block : p[x] = "queue" /\ a[x] = dst
                                => \E i \in DOMAIN queue'[dst] : queue'[dst][i] = x
      BY <2>2, <2>3, <3>1, <3>3, <3>4, <3>5, Ranges DEF Owned, OwnQueue, Moved
    <3>. QED
      BY <3>6, <3>7 DEF OwnQueue
  <2>7. OwnTask(p, a)'
    BY <2>1, <2>2, <2>3, <2>4, Ranges DEF Owned, OwnTask, Moved
  <2>8. \A x \in Block : Long(x)' <=> Long(x)
    BY <2>4 DEF Long
  <2>9. ASSUME NEW x \in Block
        PROVE  Bears(x, p, a)' <=> Bears(x, place, at)
    <3>1. CASE x = b
      <4>1. HasData(t)
        BY <2>4 DEF HasData
      <4>. QED
        BY <2>2, <2>3, <2>8, <3>1, <4>1 DEF Bears, Moved
    <3>2. CASE x # b
      <4>1. Bears(x, place, at)' <=> Bears(x, place, at)
        BY <2>1, <2>4, <2>8, <3>2, OthersBear
      <4>. QED
        BY <2>2, <3>2, <4>1 DEF Bears, Moved
    <3>. QED
      BY <3>1, <3>2
  <2>10. OwnData(p, a)'
    BY <2>2, <2>3, <2>4, <2>9 DEF Owned, OwnData, Moved
  <2>11. OwnPending(p, a)'
    <3>1. \A x \in Block : p[x] = "task" => x # b /\ place[x] = "task" /\ a[x] = at[x]
      BY <2>2 DEF Moved
    <3>2. \A x \in Block : p[x] = "task" => a[x] \in Task
      BY <3>1 DEF Owned, Placed
    <3>. QED
      BY <2>4, <2>8, <3>1, <3>2, Ranges DEF Owned, OwnPending
  <2>12. Owned(p, a)'
    BY <2>5, <2>6, <2>7, <2>10, <2>11 DEF Owned
  <2>. QED
    BY <2>12
<1>10. ASSUME NEW t \in Task, SendFull(t) PROVE Kept
  <2>1. \A u \in Task : /\ HasData(u)' <=> HasData(u)
                        /\ pc'[u] = "getData" => pc[u] = "getData"
    BY <1>10, Ranges DEF SendFull, HasData, Goto
  <2>. QED
    BY <1>10, <2>1, KeepsOwner DEF SendFull
<1>11. ASSUME NEW t \in Task, Receive(t) PROVE Kept
  <2>1. PICK b, q : b = Head(queue[t]) /\ q = queue[t]
    OBVIOUS
  <2>2. PICK p : p = Moved(place, b, "task")
    OBVIOUS
  <2>3. /\ pc[t] = "idle" /\ pMessage[t] = NULL /\ pc' = [pc EXCEPT ![t] = "handle"]
        /\ q # <<>> /\ queue' = [queue EXCEPT ![t] = Tail(q)]
        /\ pMessage' = [pMessage EXCEPT ![t] = b]
        /\ UNCHANGED <<free, mem, pBuf, pData>>
    BY <1>11, <2>1 DEF Receive, Goto, TypeInv, Control
  <2>4. /\ q \in Seq(SmallBlock)
        /\ 1 \in DOMAIN q /\ q[1] = b
        /\ \A i \in DOMAIN Tail(q) : i + 1 \in DOMAIN q /\ Tail(q)[i] = q[i + 1] /\ i + 1 # 1
        /\ \A i \in DOMAIN q : i # 1 => i - 1 \in DOMAIN Tail(q) /\ Tail(q)[i - 1] = q[i]
    BY <2>1, <2>3, Ranges
  <2>5. b \in Block /\ place[b] = "queue" /\ at[b] = t
    BY <2>1, <2>4, Ranges DEF Owned, OwnQueue
  <2>6. Placed(p, at)' /\ OwnFree(p)'
    BY <2>2, <2>3, <2>5 DEF Owned, Placed, OwnFree, Moved
  <2>7. OwnQueue(p, at)'
    <3>1. /\ queue'[t] = Tail(q)
          /\ \A u \in Task : u # t => queue'[u] = queue[u]
      BY <2>3, Ranges
    <3>2. /\ \A i \in DOMAIN q : place[q[i]] = "queue" /\ at[q[i]] = t
          /\ \A i, j \in DOMAIN q : q[i] = q[j] => i = j
          /\ \A x \in Block : place[x] = "queue" /\ at[x] = t => \E i \in DOMAIN q : q[i] = x
      BY <2>1 DEF Owned, OwnQueue
    <3>3. \A u \in Task : u # t =>
             /\ \A i \in DOMAIN queue'[u] : p[queue'[u][i]] = "queue" /\ at[queue'[u][i]] = u
             /\ \A i, j \in DOMAIN queue'[u] : queue'[u][i] = queue'[u][j] => i = j
             /\ \A x \in Block : p[x] = "queue" /\ at[x] = u
                                   => \E i \in DOMAIN queue'[u] : queue'[u][i] = x
      BY <2>2, <2>5, <3>1, Ranges DEF Owned, OwnQueue, Moved
    <3>4. \A i \in DOMAIN Tail(q) : Tail(q)[i] # b /\ Tail(q)[i] \in Block
      BY <2>1, <2>4, <3>2, Ranges
    <3>5. \A i \in DOMAIN queue'[t] : p[queue'[t][i]] = "queue" /\ at[queue'[t][i]] = t
      BY <2>2, <2>4, <3>1, <3>2, <3>4 DEF Moved
    <3>6. ASSUME NEW x \in Block, p[x] = "queue", at[x] = t
          PROVE  \E i \in DOMAIN queue'[t] : queue'[t][i] = x
      <4>1. x # b /\ place[x] = "queue"
        BY <2>2, <3>6 DEF Moved
      <4>2. PICK i \in DOMAIN q : q[i] = x
        BY <3>2, <3>6, <4>1
      <4>3. i - 1 \in DOMAIN Tail(q) /\ Tail(q)[i - 1] = x
        BY <2>4, <4>1, <4>2
      <4>. QED
        BY <3>1, <4>3
    <3>7. \A i, j \in DOMAIN queue'[t] : queue'[t][i] = queue'[t][j] => i = j
      BY <2>4, <3>1, <3>2
    <3>. QED
      BY <3>3, <3>5, <3>6, <3>7 DEF OwnQueue
  <2>8. OwnTask(p, at)'
    BY <2>2, <2>3, <2>5, Ranges DEF Owned, OwnTask, Moved
  <2>9. \A x \in Block : Long(x)' <=> Long(x)
    BY <2>3 DEF Long
  <2>10. ASSUME NEW x \in Block
         PROVE  Bears(x, p, at)' <=> Bears(x, place, at)
    <3>1. CASE x = b
      <4>1. HasData(t)'
        BY <2>3, Ranges DEF HasData
      <4>. QED
        BY <2>2, <2>5, <2>9, <3>1, <4>1 DEF Bears, Moved
    <3>2. CASE x # b
      <4>1. Bears(x, place, at)' <=> Bears(x, place, at)
        BY <2>3, <2>9, OthersBear, Ranges
      <4>. QED
        BY <2>2, <3>2, <4>1 DEF Bears, Moved
    <3>. QED
      BY <3>1, <3>2
  <2>11. OwnData(p, at)'
    BY <2>2, <2>3, <2>5, <2>10 DEF Owned, OwnData, Moved
  <2>12. OwnPending(p, at)'
    <3>1. \A x \in Block : p[x] = "task" /\ x # b => place[x] = "task" /\ at[x] \in Task
      BY <2>2 DEF Moved, Owned, Placed
    <3>. QED
      BY <2>3, <2>5, <2>9, <3>1, Ranges DEF Owned, OwnPending
  <2>13. Owned(p, at)'
    BY <2>6, <2>7, <2>8, <2>11, <2>12 DEF Owned
  <2>. QED
    BY <2>13
<1>12. ASSUME NEW t \in Task, HandleOther(t) PROVE Kept
  <2>1. \A u \in Task : /\ HasData(u)' <=> HasData(u)
                        /\ pc'[u] = "getData" => pc[u] = "getData"
    BY <1>12, Ranges DEF HandleOther, HasData, Goto
  <2>. QED
    BY <1>12, <2>1, KeepsOwner DEF HandleOther
<1>13. ASSUME NEW t \in Task, TestGetBuf(t) PROVE Kept
  <2>1. \A u \in Task : /\ HasData(u)' <=> HasData(u)
                        /\ pc'[u] = "getData" => pc[u] = "getData"
    BY <1>13, Ranges DEF TestGetBuf, HasData, Goto
  <2>2. CASE Candidates(MEM_SIZE) = {}
    BY <1>13, <2>1, <2>2, KeepsOwner DEF TestGetBuf
  <2>3. CASE Candidates(MEM_SIZE) # {}
    <3>1. PICK b \in free : free' = free \ {b} /\ pBuf' = [pBuf EXCEPT ![t] = b]
      BY <1>13, <2>3, CandidatesAreFree DEF TestGetBuf
    <3>2. pBuf[t] = NULL /\ UNCHANGED <<mem, queue, pMessage, pData>>
      BY <1>13 DEF TestGetBuf, TypeInv, Control
    <3>. QED
      BY <2>1, <3>1, <3>2, TakeScratch
  <2>. QED
    BY <2>2, <2>3
<1>14. ASSUME NEW t \in Task, TestGetData(t) PROVE Kept
  <2>1. \A u \in Task : /\ HasData(u)' <=> HasData(u)
                        /\ pc'[u] = "getData" => pc[u] = "getData"
    BY <1>14, Ranges DEF TestGetData, HasData, Goto
  <2>2. CASE Candidates(QUERY_SIZE) = {}
    BY <1>14, <2>1, <2>2, KeepsOwner DEF TestGetData
  <2>3. CASE Candidates(QUERY_SIZE) # {}
    <3>1. PICK b \in free : free' = free \ {b} /\ pData' = [pData EXCEPT ![t] = b]
      BY <1>14, <2>3, CandidatesAreFree DEF TestGetData
    <3>2. pData[t] = NULL /\ UNCHANGED <<mem, queue, pMessage, pBuf>>
      BY <1>14 DEF TestGetData, TypeInv, Control
    <3>. QED
      BY <2>1, <3>1, <3>2, TakeScratch
  <2>. QED
    BY <2>2, <2>3
<1>15. ASSUME NEW t \in Task, TestPutData(t) PROVE Kept
  <2>1. PICK b : b = pData[t]
    OBVIOUS
  <2>2. b \in Block /\ place[b] = "query" /\ at[b] = t
    <3>1. b \in Block
      BY <1>15, <2>1, Ranges DEF TestPutData, TypeInv, Control
    <3>. QED
      BY <2>1, <3>1 DEF Owned, OwnTask
  <2>3. /\ pc[t] = "putData" /\ pc' = [pc EXCEPT ![t] = "query"]
        /\ free' = free \cup {b} /\ mem' = [mem EXCEPT ![b] = Blank]
        /\ pData' = [pData EXCEPT ![t] = NULL]
        /\ UNCHANGED <<queue, pMessage, pBuf>>
    BY <1>15, <2>1, <2>2 DEF TestPutData, MEM_Put, Goto
  <2>4. ~Bears(b, place, at)
    BY <2>2 DEF Bears
  <2>5. \A u \in Task : /\ HasData(u)' <=> HasData(u)
                        /\ pc'[u] = "getData" => pc[u] = "getData"
    BY <2>3, Ranges DEF HasData
  <2>6. ASSUME NEW m \in Block \ {b}
        PROVE  Bears(m, place, at)' <=> (Bears(m, place, at) /\ mem[m].data # b)
    <3>1. Long(m)' <=> Long(m)
      BY <2>2, <2>3, Ranges DEF Long
    <3>2. Bears(m, place, at)' <=> Bears(m, place, at)
      BY <2>5, <3>1 DEF Bears, Owned, Placed
    <3>3. Bears(m, place, at) => mem[m].data # b
      BY <2>2 DEF Owned, OwnData
    <3>. QED
      BY <3>2, <3>3
  <2>7. \A u \in Task :
          /\ pMessage'[u] = IF pMessage[u] = b THEN NULL ELSE pMessage[u]
          /\ pBuf'[u] = IF pBuf[u] = b THEN NULL ELSE pBuf[u]
          /\ pData'[u] = IF pData[u] = b THEN NULL ELSE pData[u]
    BY <2>1, <2>2, <2>3, Ranges DEF Owned, OwnTask
  <2>. QED
    BY <2>2, <2>3, <2>4, <2>5, <2>6, <2>7, Release
<1>16. ASSUME NEW t \in Task, TestPutBuf(t) PROVE Kept
  <2>1. PICK b : b = pBuf[t]
    OBVIOUS
  <2>2. b \in Block /\ place[b] = "buf" /\ at[b] = t
    <3>1. b \in Block
      BY <1>16, <2>1, Ranges DEF TestPutBuf, TypeInv, Control
    <3>. QED
      BY <2>1, <3>1 DEF Owned, OwnTask
  <2>3. /\ pc[t] = "query" /\ pc' = [pc EXCEPT ![t] = "free"]
        /\ free' = free \cup {b} /\ mem' = [mem EXCEPT ![b] = Blank]
        /\ pBuf' = [pBuf EXCEPT ![t] = NULL]
        /\ UNCHANGED <<queue, pMessage, pData>>
    BY <1>16, <2>1, <2>2 DEF TestPutBuf, MEM_Put, Goto
  <2>4. ~Bears(b, place, at)
    BY <2>2 DEF Bears
  <2>5. \A u \in Task : /\ HasData(u)' <=> HasData(u)
                        /\ pc'[u] = "getData" => pc[u] = "getData"
    BY <2>3, Ranges DEF HasData
  <2>6. ASSUME NEW m \in Block \ {b}
        PROVE  Bears(m, place, at)' <=> (Bears(m, place, at) /\ mem[m].data # b)
    <3>1. Long(m)' <=> Long(m)
      BY <2>2, <2>3, Ranges DEF Long
    <3>2. Bears(m, place, at)' <=> Bears(m, place, at)
      BY <2>5, <3>1 DEF Bears, Owned, Placed
    <3>3. Bears(m, place, at) => mem[m].data # b
      BY <2>2 DEF Owned, OwnData
    <3>. QED
      BY <3>2, <3>3
  <2>7. \A u \in Task :
          /\ pMessage'[u] = IF pMessage[u] = b THEN NULL ELSE pMessage[u]
          /\ pBuf'[u] = IF pBuf[u] = b THEN NULL ELSE pBuf[u]
          /\ pData'[u] = IF pData[u] = b THEN NULL ELSE pData[u]
    BY <2>1, <2>2, <2>3, Ranges DEF Owned, OwnTask
  <2>. QED
    BY <2>2, <2>3, <2>4, <2>5, <2>6, <2>7, Release
<1>17. ASSUME NEW t \in Task, FreeData(t) PROVE Kept
  <2>1. PICK m, b : m = pMessage[t] /\ b = mem[m].data
    OBVIOUS
  <2>2. Bears(m, place, at) /\ m \in Block
    <3>1. m \in Block /\ Long(m) /\ HasData(t)
      BY <1>17, <2>1, Ranges DEF FreeData, TypeInv, Control, HasData
    <3>. QED
      BY <2>1, <3>1 DEF Owned, OwnTask, Bears
  <2>3. b \in Block /\ place[b] = "data" /\ at[b] = m
    BY <2>1, <2>2 DEF Owned, OwnData
  <2>4. /\ pc[t] = "free" /\ pc' = [pc EXCEPT ![t] = "freeMessage"]
        /\ free' = free \cup {b} /\ mem' = [mem EXCEPT ![b] = Blank]
        /\ UNCHANGED <<queue, pMessage, pBuf, pData>>
    BY <1>17, <2>1, <2>3 DEF FreeData, MEM_Put, Goto
  <2>5. ~Bears(b, place, at)
    BY <2>3 DEF Bears
  <2>6. ASSUME NEW x \in Block \ {b}
        PROVE  Bears(x, place, at)' <=> (Bears(x, place, at) /\ mem[x].data # b)
    <3>1. CASE x = m
      <4>1. ~HasData(t)'
        BY <2>4, Ranges DEF HasData
      <4>2. place[m] = "task" /\ at[m] = t
        BY <2>1, <2>2 DEF Owned, OwnTask
      <4>. QED
        BY <2>1, <3>1, <4>1, <4>2 DEF Bears
    <3>2. CASE x # m
      <4>1. Long(x)' <=> Long(x)
        BY <2>3, <2>4, Ranges DEF Long
      <4>2. Bears(x, place, at)' <=> Bears(x, place, at)
        BY <2>1, <2>4, <3>2, <4>1, OthersBear
      <4>3. Bears(x, place, at) => mem[x].data # b
        BY <2>3, <3>2 DEF Owned, OwnData
      <4>. QED
        BY <4>2, <4>3
    <3>. QED
      BY <3>1, <3>2
  <2>7. \A u \in Task :
          /\ pMessage'[u] = IF pMessage[u] = b THEN NULL ELSE pMessage[u]
          /\ pBuf'[u] = IF pBuf[u] = b THEN NULL ELSE pBuf[u]
          /\ pData'[u] = IF pData[u] = b THEN NULL ELSE pData[u]
    BY <2>3, <2>4, Ranges DEF Owned, OwnTask
  <2>8. \A u \in Task : pc'[u] = "getData" => pc[u] = "getData"
    BY <2>4, Ranges
  <2>. QED
    BY <2>3, <2>4, <2>5, <2>6, <2>7, <2>8, Release
<1>18. ASSUME NEW t \in Task, FreeMessage(t) PROVE Kept
  <2>1. PICK b : b = pMessage[t]
    OBVIOUS
  <2>2. b \in Block /\ place[b] = "task" /\ at[b] = t
    <3>1. b \in Block
      BY <1>18, <2>1, Ranges DEF FreeMessage, TypeInv, Control
    <3>. QED
      BY <2>1, <3>1 DEF Owned, OwnTask
  <2>3. /\ ~HasData(t) \/ ~Long(b)
        /\ pc' = [pc EXCEPT ![t] = "idle"]
        /\ free' = free \cup {b} /\ mem' = [mem EXCEPT ![b] = Blank]
        /\ pMessage' = [pMessage EXCEPT ![t] = NULL]
        /\ UNCHANGED <<queue, pBuf, pData>>
    BY <1>18, <2>1, <2>2 DEF FreeMessage, MEM_Put, Goto, HasData
  <2>4. ~Bears(b, place, at)
    BY <2>2, <2>3 DEF Bears
  <2>5. ASSUME NEW m \in Block \ {b}
        PROVE  Bears(m, place, at)' <=> (Bears(m, place, at) /\ mem[m].data # b)
    <3>1. Long(m)' <=> Long(m)
      BY <2>2, <2>3, Ranges DEF Long
    <3>2. Bears(m, place, at)' <=> Bears(m, place, at)
      BY <2>1, <2>3, <2>5, <3>1, OthersBear
    <3>3. Bears(m, place, at) => mem[m].data # b
      BY <2>2 DEF Owned, OwnData
    <3>. QED
      BY <3>2, <3>3
  <2>6. \A u \in Task :
          /\ pMessage'[u] = IF pMessage[u] = b THEN NULL ELSE pMessage[u]
          /\ pBuf'[u] = IF pBuf[u] = b THEN NULL ELSE pBuf[u]
          /\ pData'[u] = IF pData[u] = b THEN NULL ELSE pData[u]
    BY <2>1, <2>2, <2>3, Ranges DEF Owned, OwnTask
  <2>7. \A u \in Task : pc'[u] = "getData" => pc[u] = "getData"
    BY <2>3, Ranges
  <2>. QED
    BY <2>2, <2>3, <2>4, <2>5, <2>6, <2>7, Release
<1>19. CASE UNCHANGED vars
  BY <1>19, KeepsOwner DEF vars, HasData
<1>. QED
  BY <1>4, <1>5, <1>6, <1>7, <1>8, <1>9, <1>10, <1>11, <1>12, <1>13, <1>14,
     <1>15, <1>16, <1>17, <1>18, <1>19 DEF Next, Send, Continue

(* A queue never holds more than MESSAGE_NUM messages.                       *)
QueueBound == \A t \in Task : Len(queue[t]) <= MESSAGE_NUM

LEMMA InitQueueBound == Init => QueueBound
  BY MessagingAssumption DEF Init, QueueBound

LEMMA NextQueueBound == TypeInv /\ QueueBound /\ [Next]_vars => QueueBound'
<1> SUFFICES ASSUME TypeInv, QueueBound, [Next]_vars PROVE QueueBound'
  OBVIOUS
<1>1. ASSUME NEW t \in Task, SendPost(t) PROVE QueueBound'
  <2>1. to[t] \in Task /\ Len(queue[to[t]]) < MESSAGE_NUM
    BY <1>1 DEF SendPost, HasRoom, TypeInv, Control
  <2>2. \A u \in Task : queue'[u] = IF u = to[t] THEN Append(queue[u], pMessage[t])
                                               ELSE queue[u]
    BY <1>1, Ranges DEF SendPost
  <2>3. \A u \in Task : Len(Append(queue[u], pMessage[t])) = Len(queue[u]) + 1
    BY <1>1, Ranges
  <2>4. \A u \in Task : Len(queue[u]) \in Nat
    BY Ranges
  <2>5. ASSUME NEW u \in Task PROVE Len(queue'[u]) <= MESSAGE_NUM
    <3>1. CASE u = to[t]
      <4>1. Len(queue'[u]) = Len(queue[u]) + 1
        BY <2>2, <2>3, <3>1
      <4>2. Len(queue[u]) < MESSAGE_NUM /\ Len(queue[u]) \in Nat
        BY <2>1, <2>4, <3>1
      <4>. QED
        BY <4>1, <4>2, MessagingAssumption
    <3>2. CASE u # to[t]
      BY <2>2, <3>2 DEF QueueBound
    <3>. QED
      BY <3>1, <3>2
  <2>. QED
    BY <2>5 DEF QueueBound
<1>2. ASSUME NEW t \in Task, Receive(t) PROVE QueueBound'
  <2>1. \A u \in Task : queue'[u] = IF u = t THEN Tail(queue[u]) ELSE queue[u]
    BY <1>2, Ranges DEF Receive
  <2>2. Len(Tail(queue[t])) <= Len(queue[t])
    BY <1>2, Ranges DEF Receive
  <2>3. Len(Tail(queue[t])) \in Nat /\ Len(queue[t]) \in Nat
    BY <1>2, Ranges DEF Receive
  <2>4. Len(queue[t]) <= MESSAGE_NUM
    BY DEF QueueBound
  <2>5. Len(Tail(queue[t])) <= MESSAGE_NUM
    BY <2>2, <2>3, <2>4, MessagingAssumption
  <2>. QED
    BY <2>1, <2>5 DEF QueueBound
<1>3. ASSUME UNCHANGED queue PROVE QueueBound'
  BY <1>3 DEF QueueBound
<1>4. ASSUME NEW t \in Task, Send(t) PROVE UNCHANGED queue
  BY <1>4 DEF Send, SendGet, SendNoBlock
<1>5. ASSUME NEW t \in Task, Continue(t) PROVE UNCHANGED queue \/ SendPost(t)
  BY <1>5 DEF Continue, SendGetData, SendNoData, SendUndo, SendFull, HandleOther,
     TestGetBuf, TestGetData, TestPutData, TestPutBuf, FreeData, FreeMessage
<1>6. CASE UNCHANGED vars
  BY <1>3, <1>6 DEF vars
<1>. QED
  BY <1>1, <1>2, <1>3, <1>4, <1>5, <1>6 DEF Next

(* The names of a block are those place and at give it: one each.            *)
LEMMA OneOwnerFollows == OInv /\ QueueBound => OneOwner
<1> SUFFICES ASSUME OInv, QueueBound, NEW b \in Block
             PROVE  \E name \in Names(b) : Names(b) = {name}
  BY DEF OneOwner
<1>1. PICK place, at : Owned(place, at)
  BY DEF OInv
<1>2. TypeInv
  BY DEF OInv
<1>3. \A f : f \in free \cap {b} <=> (f = b /\ place[b] = "free")
  BY <1>1 DEF Owned, OwnFree
<1>4. \A u \in Task : pMessage[u] = b <=> (place[b] = "task" /\ at[b] = u)
  BY <1>1 DEF Owned, OwnTask
<1>5. \A u \in Task : pBuf[u] = b <=> (place[b] = "buf" /\ at[b] = u)
  BY <1>1 DEF Owned, OwnTask
<1>6. \A u \in Task : pData[u] = b <=> (place[b] = "query" /\ at[b] = u)
  BY <1>1 DEF Owned, OwnTask
<1>7. ASSUME NEW m \in Block
      PROVE  (Carries(m) /\ mem[m].data = b) <=> (place[b] = "data" /\ at[b] = m)
  <2>1. Carries(m) <=> Bears(m, place, at)
    <3>1. (\E t \in Task : \E i \in DOMAIN queue[t] : queue[t][i] = m)
            <=> place[m] = "queue"
      BY <1>1 DEF Owned, Placed, OwnQueue
    <3>2. (\E t \in Task : pMessage[t] = m /\ HasData(t))
            <=> (place[m] = "task" /\ HasData(at[m]))
      BY <1>1 DEF Owned, Placed, OwnTask
    <3>. QED
      BY <3>1, <3>2 DEF Carries, Bears
  <2>. QED
    BY <1>1, <2>1 DEF Owned, OwnData
<1>8. place[b] = "queue" => \E slot \in Slots(b) : Slots(b) = {slot}
  <2>1. SUFFICES ASSUME place[b] = "queue"
                 PROVE  \E slot \in Slots(b) : Slots(b) = {slot}
    OBVIOUS
  <2>2. at[b] \in Task
    BY <1>1, <2>1 DEF Owned, Placed
  <2>3. PICK i \in DOMAIN queue[at[b]] : queue[at[b]][i] = b
    BY <1>1, <2>1, <2>2 DEF Owned, OwnQueue
  <2>4. \A u \in Task : queue[u] \in Seq(SmallBlock) /\ Len(queue[u]) <= MESSAGE_NUM
    BY <1>2, Ranges DEF QueueBound
  <2>5. <<at[b], i>> \in Slots(b)
    BY <2>2, <2>3, <2>4, MessagingAssumption DEF Slots
  <2>6. ASSUME NEW slot \in Slots(b) PROVE slot = <<at[b], i>>
    <3>1. PICK u \in Task, j \in 1..MESSAGE_NUM :
            slot = <<u, j>> /\ j <= Len(queue[u]) /\ queue[u][j] = b
      BY DEF Slots
    <3>2. j \in DOMAIN queue[u]
      BY <2>4, <3>1, MessagingAssumption
    <3>. QED
      BY <1>1, <2>2, <2>3, <3>1, <3>2 DEF Owned, OwnQueue
  <2>. QED
    BY <2>5, <2>6
<1>9. place[b] # "queue" => Slots(b) = {}
  <2>1. ASSUME NEW slot \in Slots(b) PROVE place[b] = "queue"
    <3>1. PICK u \in Task, j \in 1..MESSAGE_NUM :
            slot = <<u, j>> /\ j <= Len(queue[u]) /\ queue[u][j] = b
      BY DEF Slots
    <3>2. j \in DOMAIN queue[u]
      BY <1>2, <3>1, MessagingAssumption, Ranges
    <3>. QED
      BY <1>1, <3>1, <3>2 DEF Owned, OwnQueue
  <2>. QED
    BY <2>1
<1>10. \A name : name \in Names(b) <=>
         \/ place[b] = "free" /\ name = <<"free", b>>
         \/ \E slot \in Slots(b) : name = <<"queue", slot>>
         \/ \E u \in Task : place[b] = "task" /\ at[b] = u /\ name = <<"task", u>>
         \/ \E u \in Task : place[b] = "buf" /\ at[b] = u /\ name = <<"buf", u>>
         \/ \E u \in Task : place[b] = "query" /\ at[b] = u /\ name = <<"query", u>>
         \/ \E m \in Block : place[b] = "data" /\ at[b] = m /\ name = <<"data", m>>
  BY <1>3, <1>4, <1>5, <1>6, <1>7 DEF Names
<1>11. \/ place[b] = "free"
       \/ place[b] \in {"queue", "task", "buf", "query"} /\ at[b] \in Task
       \/ place[b] = "data" /\ at[b] \in Block
  BY <1>1 DEF Owned, Placed
<1>12. CASE place[b] = "queue"
  <2>1. PICK slot \in Slots(b) : Slots(b) = {slot}
    BY <1>8, <1>12
  <2>2. \A name : name \in Names(b) <=> name = <<"queue", slot>>
    BY <1>10, <1>12, <2>1
  <2>3. Names(b) = {<<"queue", slot>>}
    BY <2>2
  <2>. QED
    BY <2>3
<1>13. CASE place[b] # "queue"
  <2>1. \A name : name \in Names(b) <=>
             name = <<place[b], IF place[b] = "free" THEN b ELSE at[b]>>
    BY <1>9, <1>10, <1>11, <1>13
  <2>2. Names(b) = {<<place[b], IF place[b] = "free" THEN b ELSE at[b]>>}
    BY <2>1
  <2>. QED
    BY <2>2
<1>. QED
  BY <1>12, <1>13

LEMMA Invariance == Spec => [](OInv /\ QueueBound)
<1>1. OInv => TypeInv
  BY DEF OInv
<1>. QED
  BY <1>1, InitOInv, NextOInv, InitQueueBound, NextQueueBound, PTL DEF Spec

(* At every moment every block has exactly one owner, whatever the numbers   *)
(* of tasks, blocks and slots and the sizes of blocks and messages.          *)
THEOREM Ownership == Spec => []OneOwner
  BY Invariance, OneOwnerFollows, PTL
-----------------------------------------------------------------------------
(* A sender that is about to post finds room: the messages of a queue, with  *)
(* its own, are different small blocks, and there are no more of those than  *)
(* slots.                                                                    *)
LEMMA SenderFindsRoom ==
  ASSUME OInv, MESSAGE_NUM >= Cardinality(SmallBlock),
         NEW t \in Task, pc[t] = "post"
  PROVE  HasRoom(to[t])
<1>1. PICK place, at : Owned(place, at)
  BY DEF OInv
<1>2. PICK q : q = queue[to[t]]
  OBVIOUS
<1>3. PICK n : n = Len(q)
  OBVIOUS
<1>4. /\ to[t] \in Task /\ q \in Seq(SmallBlock)
      /\ pMessage[t] \in SmallBlock
  BY <1>2, Ranges, MessagingAssumption DEF OInv, TypeInv, TypeOK, Control
<1>5. n \in Nat /\ DOMAIN q = 1..n /\ \A i \in 1..n : q[i] \in SmallBlock
  BY <1>3, <1>4
<1>6. \A i, j \in 1..n : q[i] = q[j] => i = j
  BY <1>1, <1>2, <1>4, <1>5 DEF Owned, OwnQueue
<1>7. \A i \in 1..n : place[q[i]] = "queue"
  BY <1>1, <1>2, <1>4, <1>5 DEF Owned, OwnQueue
<1>8. place[pMessage[t]] = "task"
  BY <1>1, <1>4 DEF Owned, OwnTask, Block
<1>9. PICK f : f = [i \in 1..n + 1 |-> IF i <= n THEN q[i] ELSE pMessage[t]]
  OBVIOUS
<1>10. f \in [1..n + 1 -> SmallBlock]
  BY <1>4, <1>5, <1>9
<1>11. \A i, j \in 1..n + 1 : f[i] = f[j] => i = j
  <2> SUFFICES ASSUME NEW i \in 1..n + 1, NEW j \in 1..n + 1, f[i] = f[j]
               PROVE  i = j
    OBVIOUS
  <2>1. CASE i <= n /\ j <= n
    BY <1>5, <1>6, <1>9, <2>1
  <2>2. CASE i <= n /\ ~(j <= n)
    BY <1>5, <1>7, <1>8, <1>9, <2>2
  <2>3. CASE ~(i <= n) /\ j <= n
    BY <1>5, <1>7, <1>8, <1>9, <2>3
  <2>4. CASE ~(i <= n) /\ ~(j <= n)
    BY <1>5, <2>4
  <2>. QED
    BY <2>1, <2>2, <2>3, <2>4
<1>12. /\ IsFiniteSet(1..n + 1) /\ Cardinality(1..n + 1) = n + 1
       /\ IsFiniteSet(SmallBlock) /\ Cardinality(SmallBlock) \in Nat
  BY <1>5, FS_Interval, FS_CardinalityType, MessagingAssumption
<1>13. ~(Cardinality(SmallBlock) < Cardinality(1..n + 1))
  <2> SUFFICES ASSUME Cardinality(SmallBlock) < Cardinality(1..n + 1) PROVE FALSE
    OBVIOUS
  <2>1. \E i, j \in 1..n + 1 : i # j /\ f[i] = f[j]
    BY ZenonT(60), <1>10, <1>12, FS_PigeonHole
  <2>. QED
    BY <1>11, <2>1
<1>. QED
  BY <1>2, <1>3, <1>5, <1>12, <1>13, MessagingAssumption DEF HasRoom

LEMMA NextNeverFull == OInv /\ QueueNeverFull /\ [Next]_vars => QueueNeverFull'
<1> SUFFICES ASSUME OInv, QueueNeverFull, [Next]_vars,
                    MESSAGE_NUM >= Cardinality(SmallBlock)
             PROVE  \A t \in Task : err'[t] # OS_ERR_Q_FULL
  BY DEF QueueNeverFull
<1>1. /\ \A t \in Task : err[t] # OS_ERR_Q_FULL
      /\ err \in [Task -> {OS_ERR_NONE, OS_ERR_Q_FULL, OS_ERR_MEM_NO_FREE_BLKS, MEM_ERR}]
  BY DEF QueueNeverFull, OInv, TypeInv, TypeOK
<1> USE DEF OS_ERR_NONE, OS_ERR_Q_FULL, OS_ERR_MEM_NO_FREE_BLKS, MEM_ERR
<1>2. ASSUME NEW t \in Task, Send(t) PROVE \A u \in Task : err'[u] # OS_ERR_Q_FULL
  BY <1>1, <1>2 DEF Send, SendGet, SendNoBlock, GetError
<1>3. ASSUME NEW t \in Task, SendNoData(t) PROVE \A u \in Task : err'[u] # OS_ERR_Q_FULL
  BY <1>1, <1>3 DEF SendNoData, GetError
<1>4. ASSUME NEW t \in Task, SendPost(t) PROVE \A u \in Task : err'[u] # OS_ERR_Q_FULL
  BY <1>1, <1>4 DEF SendPost
<1>5. ASSUME NEW t \in Task PROVE ~SendFull(t)
  BY SenderFindsRoom DEF SendFull
<1>6. ASSUME UNCHANGED err PROVE \A u \in Task : err'[u] # OS_ERR_Q_FULL
  BY <1>1, <1>6
<1>7. ASSUME NEW t \in Task, Continue(t)
      PROVE  SendNoData(t) \/ SendPost(t) \/ UNCHANGED err
  BY <1>5, <1>7 DEF Continue, SendGetData, SendUndo, HandleOther,
     TestGetBuf, TestGetData, TestPutData, TestPutBuf, FreeData, FreeMessage
<1>8. ASSUME NEW t \in Task, Receive(t) PROVE UNCHANGED err
  BY <1>8 DEF Receive
<1>9. CASE UNCHANGED vars
  BY <1>6, <1>9 DEF vars
<1>. QED
  BY <1>2, <1>3, <1>4, <1>6, <1>7, <1>8, <1>9 DEF Next

(* With as many slots per queue as small blocks no send is ever refused by a *)
(* full queue, for any number of tasks and blocks.                           *)
THEOREM NoQueueOverflows == Spec => []QueueNeverFull
<1>1. Init => QueueNeverFull
  BY DEF Init, QueueNeverFull, OS_ERR_NONE, OS_ERR_Q_FULL
<1>. QED
  BY <1>1, NextNeverFull, Invariance, PTL DEF Spec
-----------------------------------------------------------------------------
(* The refinement.  A message is live from its posting, or being ready to be *)
(* posted, until its handlers return; a step writes only to blocks that no   *)
(* live message is or has as data, so it reads the same till the end.        *)
Live(m, place, at) ==
    \/ place[m] = "queue"
    \/ place[m] = "task" /\ pc[at[m]] \in {"post", "handle", "query", "putData"}

Writable(x, place, at) ==
    \/ place[x] \in {"free", "buf", "query"}
    \/ /\ place[x] = "task"
       /\ pc[at[x]] \in {"undo", "free", "freeMessage"} \/ SendGetData(at[x])
    \/ place[x] = "data" /\ place[at[x]] = "task" /\ pc[at[at[x]]] = "free"

Untouched(place, at) ==
    \A x \in Block : mem'[x] = mem[x] \/ Writable(x, place, at)

LEMMA PutIsSafe ==
  ASSUME TypeInv, NEW x \in Block, mem' = [mem EXCEPT ![x] = Blank],
         NEW place, NEW at, Writable(x, place, at)
  PROVE  Untouched(place, at)
  BY Ranges DEF Untouched

LEMMA NoLiveWrite ==
  ASSUME TypeInv, NEW place, NEW at, Owned(place, at), [Next]_vars
  PROVE  Untouched(place, at)
<1>1. ASSUME UNCHANGED mem PROVE Untouched(place, at)
  BY <1>1 DEF Untouched
<1>2. \A t \in Task : pMessage[t] # NULL =>
                 /\ pMessage[t] \in Block
                 /\ place[pMessage[t]] = "task" /\ at[pMessage[t]] = t
  BY Ranges DEF Owned, OwnTask
<1>3. ASSUME NEW t \in Task, NEW dst \in Task, NEW v \in Value, NEW n \in Length,
             SendGet(t, dst, v, n)
      PROVE  Untouched(place, at)
  <2>1. PICK b \in free : \A x \in Block : x # b => mem'[x] = mem[x]
    BY <1>3, CandidatesAreFree, Ranges DEF SendGet
  <2>2. b \in Block /\ place[b] = "free"
    BY Ranges DEF Owned, OwnFree
  <2> QED BY <2>1, <2>2 DEF Untouched, Writable
<1>4. ASSUME NEW t \in Task, SendGetData(t) PROVE Untouched(place, at)
  <2>1. PICK d \in Candidates(mem[pMessage[t]].len) :
          mem' = [mem EXCEPT ![pMessage[t]].data = d,
                             ![d].message = mem[pMessage[t]].message]
    BY <1>4 DEF SendGetData
  <2>2. d \in Block /\ place[d] = "free"
    BY CandidatesAreFree, Ranges DEF Owned, OwnFree
  <2>3. \A x \in Block : x # d /\ x # pMessage[t] => mem'[x] = mem[x]
    BY <2>1, <2>2, Ranges
  <2>4. pc[t] = "getData" /\ pMessage[t] # NULL
    BY <1>4 DEF SendGetData, TypeInv, Control
  <2>5. Writable(pMessage[t], place, at)
    BY <1>2, <1>4, <2>4 DEF Writable
  <2> QED BY <2>2, <2>3, <2>5 DEF Untouched, Writable
<1>5. ASSUME NEW t \in Task, pc[t] \in {"undo", "free", "freeMessage"},
             mem' = [mem EXCEPT ![pMessage[t]] = Blank]
      PROVE  Untouched(place, at)
  <2>1. pMessage[t] # NULL
    BY <1>5 DEF TypeInv, Control
  <2>2. Writable(pMessage[t], place, at)
    BY <1>2, <1>5, <2>1 DEF Writable
  <2> QED BY <1>2, <1>5, <2>1, <2>2, PutIsSafe
<1>6. ASSUME NEW t \in Task, FreeData(t) PROVE Untouched(place, at)
  <2>1. PICK m : m = pMessage[t]
    OBVIOUS
  <2>2. m \in Block /\ place[m] = "task" /\ at[m] = t /\ pc[t] = "free" /\ Long(m)
    BY <1>2, <1>6, <2>1 DEF FreeData, TypeInv, Control
  <2>3. Bears(m, place, at)
    BY <2>2 DEF Bears, HasData
  <2>4. PICK d : d = mem[m].data
    OBVIOUS
  <2>5. d \in Block /\ place[d] = "data" /\ at[d] = m
    BY <2>2, <2>3, <2>4 DEF Owned, OwnData
  <2>6. mem' = [mem EXCEPT ![d] = Blank]
    BY <1>6, <2>1, <2>4 DEF FreeData, MEM_Put
  <2> QED BY <2>2, <2>5, <2>6, PutIsSafe DEF Writable
<1>7. ASSUME NEW t \in Task, TestPutData(t) PROVE Untouched(place, at)
  <2>1. pData[t] \in Block
    BY <1>7, Ranges DEF TestPutData, TypeInv, Control
  <2>2. place[pData[t]] = "query"
    BY <2>1 DEF Owned, OwnTask
  <2>3. mem' = [mem EXCEPT ![pData[t]] = Blank]
    BY <1>7 DEF TestPutData, MEM_Put
  <2> QED BY <2>1, <2>2, <2>3, PutIsSafe DEF Writable
<1>8. ASSUME NEW t \in Task, TestPutBuf(t) PROVE Untouched(place, at)
  <2>1. pBuf[t] \in Block
    BY <1>8, Ranges DEF TestPutBuf, TypeInv, Control
  <2>2. place[pBuf[t]] = "buf"
    BY <2>1 DEF Owned, OwnTask
  <2>3. mem' = [mem EXCEPT ![pBuf[t]] = Blank]
    BY <1>8 DEF TestPutBuf, MEM_Put
  <2> QED BY <2>1, <2>2, <2>3, PutIsSafe DEF Writable
<1>9. ASSUME NEW t \in Task, SendUndo(t) \/ FreeMessage(t) PROVE Untouched(place, at)
  BY <1>5, <1>9 DEF SendUndo, FreeMessage, MEM_Put
<1>10. ASSUME NEW t \in Task, SendNoBlock(t) \/ Receive(t) \/ SendNoData(t) \/ SendPost(t)
              \/ SendFull(t) \/ HandleOther(t) \/ TestGetBuf(t) \/ TestGetData(t)
       PROVE  UNCHANGED mem
  BY <1>10 DEF SendNoBlock, Receive, SendNoData, SendPost, SendFull, HandleOther,
     TestGetBuf, TestGetData
<1>11. CASE UNCHANGED vars
  BY <1>1, <1>11 DEF vars
<1> QED
  BY <1>1, <1>3, <1>4, <1>6, <1>7, <1>8, <1>9, <1>10, <1>11 DEF Next, Send, Continue

(* A live message reads the same after every step.                           *)
LEMMA DecodeKept ==
  ASSUME TypeInv, NEW place, NEW at, Owned(place, at), Untouched(place, at),
         NEW m \in Block, Live(m, place, at)
  PROVE  Decode(m)' = Decode(m)
<1>1. mem'[m] = mem[m]
  BY DEF Untouched, Live, Writable, SendGetData
<1>2. Long(m)' <=> Long(m)
  BY <1>1 DEF Long
<1>3. CASE Long(m)
  <2>1. Bears(m, place, at)
    BY <1>3 DEF Bears, Live, HasData
  <2>2. PICK d : d = mem[m].data
    OBVIOUS
  <2>3. d \in Block /\ place[d] = "data" /\ at[d] = m
    BY <2>1, <2>2 DEF Owned, OwnData
  <2>4. mem'[d] = mem[d]
    BY <2>3 DEF Untouched, Live, Writable
  <2> QED BY <1>1, <1>2, <1>3, <2>2, <2>4 DEF Decode
<1> QED BY <1>1, <1>2, <1>3 DEF Decode
(* What a sender is about to post is what it was called with.                *)
Senders ==
    \A t \in Task :
        /\ pc[t] = "getData" => /\ mem[pMessage[t]].message \in Value
                                /\ mem[pMessage[t]].len \in Length
        /\ pc[t] = "post" => Decode(pMessage[t]) \in Sendable

Acts(t) == Send(t) \/ Receive(t) \/ Continue(t)

LEMMA OthersWait ==
  ASSUME TypeInv, NEW t \in Task, Acts(t), NEW u \in Task, u # t
  PROVE  pc'[u] = pc[u] /\ pMessage'[u] = pMessage[u]
<1> USE Ranges DEF Goto
<1>1. CASE Send(t)
  <2>1. CASE \E dst \in Task, v \in Value, n \in Length : SendGet(t, dst, v, n)
    <3>1. PICK dst \in Task, v \in Value, n \in Length : SendGet(t, dst, v, n)
      BY <2>1
    <3> QED BY <3>1 DEF SendGet
  <2> QED BY <1>1, <2>1 DEF Send, SendNoBlock
<1>2. CASE Receive(t)
  BY <1>2 DEF Receive
<1>3. CASE Continue(t)
  BY <1>3 DEF Continue, SendGetData, SendNoData, SendUndo, SendPost, SendFull,
     HandleOther, TestGetBuf, TestGetData, TestPutData, TestPutBuf, FreeData, FreeMessage
<1> QED BY <1>1, <1>2, <1>3 DEF Acts

LEMMA HeldMessage ==
  ASSUME TypeInv, NEW place, NEW at, Owned(place, at), NEW t \in Task, pMessage[t] # NULL
  PROVE  /\ pMessage[t] \in Block
         /\ place[pMessage[t]] = "task" /\ at[pMessage[t]] = t
  BY Ranges DEF Owned, OwnTask

(* The contents of a sender's message, from the header to the post.          *)
LEMMA SenderGoesOn ==
  ASSUME OInv, Senders, [Next]_vars, NEW t \in Task,
         pc'[t] = pc[t], pMessage'[t] = pMessage[t]
  PROVE  /\ pc'[t] = "getData" => /\ mem'[pMessage'[t]].message \in Value
                                  /\ mem'[pMessage'[t]].len \in Length
         /\ pc'[t] = "post" => Decode(pMessage[t])' \in Sendable
<1>1. PICK place, at : Owned(place, at)
  BY DEF OInv
<1>2. TypeInv /\ Untouched(place, at)
  BY <1>1, NoLiveWrite DEF OInv
<1>3. PICK m : m = pMessage[t]
  OBVIOUS
<1>4. CASE pc[t] = "getData"
  <2>1. m \in Block /\ place[m] = "task" /\ at[m] = t
    BY <1>1, <1>2, <1>3, <1>4, HeldMessage DEF TypeInv, Control
  <2>2. ~SendGetData(t)
    BY <1>2, <1>4, Ranges DEF SendGetData, Goto
  <2>3. mem'[m] = mem[m]
    BY <1>2, <1>4, <2>1, <2>2 DEF Untouched, Writable
  <2> QED BY <1>3, <1>4, <2>3 DEF Senders
<1>5. CASE pc[t] = "post"
  <2>1. m \in Block /\ place[m] = "task" /\ at[m] = t
    BY <1>1, <1>2, <1>3, <1>5, HeldMessage DEF TypeInv, Control
  <2>2. Decode(m)' = Decode(m)
    BY <1>1, <1>2, <1>5, <2>1, DecodeKept DEF Live
  <2>3. Decode(pMessage[t])' = Decode(m)'
    BY <1>3 DEF Decode, Long
  <2>4. Decode(m) \in Sendable
    BY <1>3, <1>5 DEF Senders
  <2> QED BY <1>5, <2>2, <2>3, <2>4 DEF Sendable
<1> QED BY <1>4, <1>5

LEMMA NextSenders == OInv /\ Senders /\ [Next]_vars => Senders'
<1> SUFFICES ASSUME OInv, Senders, [Next]_vars, NEW t \in Task
             PROVE  /\ pc'[t] = "getData" => /\ mem'[pMessage'[t]].message \in Value
                                             /\ mem'[pMessage'[t]].len \in Length
                    /\ pc'[t] = "post" => Decode(pMessage[t])' \in Sendable
  BY DEF Senders
<1>1. TypeInv
  BY DEF OInv
<1>2. CASE pc'[t] = pc[t] /\ pMessage'[t] = pMessage[t]
  BY <1>2, SenderGoesOn
<1>3. ASSUME NEW dst \in Task, NEW v \in Value, NEW n \in Length, SendGet(t, dst, v, n)
      PROVE  /\ pc'[t] = "getData" => /\ mem'[pMessage'[t]].message \in Value
                                      /\ mem'[pMessage'[t]].len \in Length
             /\ pc'[t] = "post" => Decode(pMessage[t])' \in Sendable
  <2>1. PICK b \in Block :
          /\ pMessage'[t] = b
          /\ mem'[b] = [message |-> v, len |-> n, data |-> IF n > InlineSize THEN NULL ELSE v]
          /\ pc'[t] = IF n > InlineSize THEN "getData" ELSE "post"
    BY <1>1, <1>3, CandidatesAreFree, Ranges DEF SendGet, Goto
  <2>2. CASE n > InlineSize
    BY <2>1, <2>2
  <2>3. CASE ~(n > InlineSize)
    <3>1. ~Long(pMessage[t])'
      BY <2>1, <2>3 DEF Long
    <3>2. Decode(pMessage[t])' = [message |-> v, len |-> n, data |-> v]
      BY <2>1, <2>3, <3>1 DEF Decode
    <3> QED BY <2>1, <2>3, <3>2 DEF Sendable
  <2> QED BY <2>2, <2>3
<1>4. CASE SendGetData(t)
  <2>1. PICK d \in Candidates(mem[pMessage[t]].len) :
          mem' = [mem EXCEPT ![pMessage[t]].data = d,
                             ![d].message = mem[pMessage[t]].message]
    BY <1>4 DEF SendGetData
  <2>2. PICK m : m = pMessage[t]
    OBVIOUS
  <2>3. PICK place, at : Owned(place, at)
    BY DEF OInv
  <2>4. /\ pc[t] = "getData" /\ pc'[t] = "post" /\ pMessage'[t] = m
    BY <1>1, <1>4, <2>2, Ranges DEF SendGetData, Goto
  <2>5. /\ d \in Block /\ d # m /\ m \in Block /\ place[m] = "task" /\ at[m] = t
    <3>1. d \in Block /\ place[d] = "free"
      BY <1>1, <2>3, CandidatesAreFree, Ranges DEF Owned, OwnFree
    <3>2. m \in Block /\ place[m] = "task" /\ at[m] = t
      BY <1>1, <2>2, <2>3, <2>4, HeldMessage DEF TypeInv, Control
    <3> QED BY <3>1, <3>2
  <2>6. mem[m].message \in Value /\ mem[m].len \in Length
    BY <2>2, <2>4 DEF Senders
  <2>7. Long(m)
    BY <2>3, <2>4, <2>5 DEF Owned, OwnPending
  <2>8. /\ mem'[m].message = mem[m].message /\ mem'[m].len = mem[m].len
        /\ mem'[m].data = d /\ mem'[d].message = mem[m].message
    <3>1. mem[m] \in Contents /\ mem[d] \in Contents
      BY <1>1, <2>5, Ranges
    <3> QED BY <1>1, <2>1, <2>2, <2>5, <3>1, Ranges DEF Contents
  <2>9. Long(pMessage[t])'
    BY <2>4, <2>7, <2>8 DEF Long
  <2>10. Decode(pMessage[t])' = [message |-> mem[m].message, len |-> mem[m].len,
                                 data |-> mem[m].message]
    BY <2>4, <2>5, <2>8, <2>9 DEF Decode
  <2> QED BY <2>4, <2>6, <2>10 DEF Sendable
<1>5. ASSUME Acts(t), ~SendGetData(t),
             ~\E dst \in Task, v \in Value, n \in Length : SendGet(t, dst, v, n)
      PROVE  pc'[t] \notin {"getData", "post"} \/ (pc'[t] = pc[t] /\ pMessage'[t] = pMessage[t])
  BY <1>1, <1>5, Ranges DEF Acts, Send, Continue, SendNoBlock, SendNoData, SendUndo,
     SendPost, SendFull, Receive, HandleOther, TestGetBuf, TestGetData, TestPutData,
     TestPutBuf, FreeData, FreeMessage, Goto
<1>6. ASSUME NEW u \in Task, Acts(u), u # t
      PROVE  pc'[t] = pc[t] /\ pMessage'[t] = pMessage[t]
  BY <1>1, <1>6, OthersWait
<1>7. CASE UNCHANGED vars
  BY <1>2, <1>7 DEF vars
<1> QED BY <1>2, <1>3, <1>4, <1>5, <1>6, <1>7 DEF Next, Acts
(* What the tasks see of the queues and of the messages being handled.       *)
LEMMA PostedKept ==
  ASSUME OInv, [Next]_vars, queue' = queue
  PROVE  Posted' = Posted
<1>1. PICK place, at : Owned(place, at)
  BY DEF OInv
<1>2. TypeInv /\ Untouched(place, at)
  BY <1>1, NoLiveWrite DEF OInv
<1>3. ASSUME NEW t \in Task, NEW i \in DOMAIN queue[t]
      PROVE  Decode(queue[t][i])' = Decode(queue[t][i])
  <2>1. PICK m : m = queue[t][i]
    OBVIOUS
  <2>2. m \in Block /\ place[m] = "queue"
    BY <1>1, <1>2, <2>1, Ranges DEF Owned, OwnQueue
  <2>3. Decode(m)' = Decode(m)
    BY <1>1, <1>2, <2>2, DecodeKept DEF Live
  <2>4. queue'[t][i] = m
    BY <2>1
  <2>5. Decode(queue[t][i])' = Decode(m)'
    BY <2>4 DEF Decode, Long
  <2> QED BY <2>1, <2>3, <2>5
<1> QED BY <1>3 DEF Posted

Handling(t) == pc[t] \in {"handle", "query", "putData"}

LEMMA HandledSame ==
  ASSUME OInv, [Next]_vars, NEW t \in Task,
         Handling(t)' => Handling(t) /\ pMessage'[t] = pMessage[t]
  PROVE  Handled'[t] = IF Handling(t)' THEN Handled[t] ELSE NULL
<1>1. PICK place, at : Owned(place, at)
  BY DEF OInv
<1>2. TypeInv /\ Untouched(place, at)
  BY <1>1, NoLiveWrite DEF OInv
<1>3. CASE Handling(t)'
  <2>1. PICK m : m = pMessage[t]
    OBVIOUS
  <2>2. m \in Block /\ place[m] = "task" /\ at[m] = t
    BY <1>1, <1>2, <1>3, <2>1, HeldMessage DEF TypeInv, Control, Handling
  <2>3. Decode(m)' = Decode(m)
    BY <1>1, <1>2, <1>3, <2>2, DecodeKept DEF Live, Handling
  <2>4. Decode(pMessage[t])' = Decode(m)'
    BY <1>3, <2>1 DEF Decode, Long
  <2> QED BY <1>3, <2>1, <2>3, <2>4 DEF Handled, Handling
<1>4. CASE ~Handling(t)'
  BY <1>4 DEF Handled, Handling
<1> QED BY <1>3, <1>4

(* A step of task t that posts and receives nothing ends a handling or is    *)
(* not seen at all.                                                          *)
LEMMA QuietStep ==
  ASSUME OInv, [Next]_vars, queue' = queue, NEW t \in Task,
         Handling(t)' => Handling(t) /\ pMessage'[t] = pMessage[t],
         \A u \in Task : u # t => pc'[u] = pc[u] /\ pMessage'[u] = pMessage[u]
  PROVE  [Channel!Next]_Channel!vars
<1>1. Posted' = Posted
  BY PostedKept
<1>2. \A u \in Task : u # t => Handled'[u] = Handled[u]
  <2>1. ASSUME NEW u \in Task, u # t
        PROVE  Handled'[u] = IF Handling(u)' THEN Handled[u] ELSE NULL
    BY <2>1, HandledSame DEF Handling
  <2>2. \A u \in Task : u # t /\ ~Handling(u)' => Handled[u] = NULL
    BY DEF Handled, Handling
  <2> QED BY <2>1, <2>2
<1>3. Handled'[t] = IF Handling(t)' THEN Handled[t] ELSE NULL
  BY HandledSame
<1>4. /\ Handled = [u \in Task |-> Handled[u]]
      /\ Handled' = [u \in Task |-> Handled'[u]]
  BY DEF Handled
<1>5. CASE Handled'[t] = Handled[t]
  <2>1. Handled' = Handled
    BY <1>2, <1>4, <1>5
  <2> QED BY <1>1, <2>1 DEF Channel!vars
<1>6. CASE Handled'[t] # Handled[t]
  <2>1. Handled[t] # NULL /\ Handled'[t] = NULL
    BY <1>3, <1>6
  <2>2. Handled' = [Handled EXCEPT ![t] = NULL]
    BY <1>2, <1>4, <2>1
  <2>3. Channel!Done(t)
    BY <1>1, <2>1, <2>2 DEF Channel!Done
  <2> QED BY <2>3 DEF Channel!Next
<1> QED BY <1>5, <1>6

LEMMA PostIsPost ==
  ASSUME OInv, Senders, NEW t \in Task, SendPost(t)
  PROVE  Channel!Next
<1>1. PICK r, m : r = to[t] /\ m = pMessage[t]
  OBVIOUS
<1>2. /\ pc[t] = "post" /\ r \in Task /\ Len(queue[r]) < MESSAGE_NUM
      /\ queue' = [queue EXCEPT ![r] = Append(@, m)]
      /\ pMessage' = [pMessage EXCEPT ![t] = NULL]
      /\ pc' = [pc EXCEPT ![t] = "idle"] /\ mem' = mem
  BY <1>1 DEF SendPost, HasRoom, Goto, OInv, TypeInv, Control
<1>3. TypeInv
  BY DEF OInv
<1>4. /\ queue \in [Task -> Seq(SmallBlock)]
      /\ m \in SmallBlock
      /\ pc \in [Task -> Step] /\ pMessage \in [Task -> SmallBlock \cup {NULL}]
  BY <1>1, <1>2, <1>3, Ranges DEF TypeInv, Control
<1>5. \A x : Decode(x)' = Decode(x)
  BY <1>2 DEF Decode, Long
<1>6. Decode(m) \in Sendable
  BY <1>1, <1>2 DEF Senders
<1>7. \A u \in Task : Posted'[u] = [i \in DOMAIN queue'[u] |-> Decode(queue'[u][i])]
  <2>1. mem' = mem
    BY <1>2
  <2> QED BY <2>1 DEF Posted, Decode, Long
<1>8. ASSUME NEW u \in Task, u # r PROVE Posted'[u] = Posted[u]
  BY <1>2, <1>4, <1>7, <1>8 DEF Posted
<1>9. /\ Posted[r] \in Seq({Decode(x) : x \in SmallBlock})
      /\ Len(Posted[r]) = Len(queue[r])
      /\ \A i \in 1..Len(queue[r]) : Posted[r][i] = Decode(queue[r][i])
  <2>1. PICK q : q = queue[r]
    OBVIOUS
  <2>2. q \in Seq(SmallBlock)
    BY <1>2, <1>4, <2>1
  <2>3. Posted[r] = [i \in 1..Len(q) |-> Decode(q[i])]
    BY <1>2, <2>1, <2>2 DEF Posted
  <2> QED BY <2>1, <2>2, <2>3
<1>10. Posted'[r] = Append(Posted[r], Decode(m))
  <2>1. PICK q : q = queue[r]
    OBVIOUS
  <2>2. q \in Seq(SmallBlock) /\ queue'[r] = Append(q, m) /\ Len(q) \in Nat
    BY <1>2, <1>4, <2>1
  <2>3. Posted'[r] = [i \in 1..Len(q) + 1 |-> Decode(Append(q, m)[i])]
    <3>1. PICK longer : longer = Append(q, m)
      OBVIOUS
    <3>2. queue'[r] = longer /\ r \in Task
      BY <1>2, <2>2, <3>1
    <3>3. Posted'[r] = [i \in DOMAIN longer |-> Decode(longer[i])]
      BY <1>7, <3>2
    <3>4. DOMAIN longer = 1..Len(q) + 1
      BY <1>4, <2>2, <3>1
    <3> QED BY <3>1, <3>3, <3>4
  <2>4. \A i \in 1..Len(q) + 1 : Append(q, m)[i] = IF i <= Len(q) THEN q[i] ELSE m
    BY <1>4, <2>2
  <2>5. Append(Posted[r], Decode(m)) = [i \in 1..Len(q) + 1 |->
            IF i <= Len(q) THEN Posted[r][i] ELSE Decode(m)]
    BY <1>9, <2>1, <2>2
  <2> QED BY <1>9, <2>1, <2>2, <2>3, <2>4, <2>5
<1>11. Posted' = [Posted EXCEPT ![r] = Append(@, Decode(m))]
  <2>1. /\ Posted = [u \in Task |-> Posted[u]] /\ Posted' = [u \in Task |-> Posted'[u]]
    BY DEF Posted
  <2> QED BY <1>2, <1>8, <1>10, <2>1
<1>12. Handled' = Handled
  BY <1>2, <1>4, <1>5 DEF Handled
<1>13. Channel!Post(r, Decode(m))
  BY <1>2, <1>9, <1>11, <1>12 DEF Channel!Post
<1> QED BY <1>2, <1>6, <1>13 DEF Channel!Next
LEMMA ReceiveIsReceive ==
  ASSUME OInv, NEW t \in Task, Receive(t)
  PROVE  Channel!Next
<1>1. PICK q : q = queue[t]
  OBVIOUS
<1>2. /\ pc[t] = "idle" /\ q # <<>>
      /\ queue' = [queue EXCEPT ![t] = Tail(@)]
      /\ pMessage' = [pMessage EXCEPT ![t] = Head(q)]
      /\ pc' = [pc EXCEPT ![t] = "handle"] /\ mem' = mem
  BY <1>1 DEF Receive, Goto
<1>3. /\ queue \in [Task -> Seq(SmallBlock)] /\ q \in Seq(SmallBlock)
      /\ pc \in [Task -> Step] /\ pMessage \in [Task -> SmallBlock \cup {NULL}]
  BY <1>1, Ranges DEF OInv
<1>4. \A x : Decode(x)' = Decode(x)
  BY <1>2 DEF Decode, Long
<1>5. \A u \in Task : Posted'[u] = [i \in DOMAIN queue'[u] |-> Decode(queue'[u][i])]
  <2>1. mem' = mem
    BY <1>2
  <2> QED BY <2>1 DEF Posted, Decode, Long
<1>6. ASSUME NEW u \in Task, u # t PROVE Posted'[u] = Posted[u]
  BY <1>2, <1>3, <1>5, <1>6 DEF Posted
<1>7. /\ Posted[t] = [i \in 1..Len(q) |-> Decode(q[i])]
      /\ Len(q) \in Nat /\ Len(q) > 0
  BY <1>1, <1>2, <1>3 DEF Posted
<1>8. /\ Posted[t] \in Seq({Decode(x) : x \in SmallBlock})
      /\ Len(Posted[t]) = Len(q) /\ Posted[t] # <<>>
      /\ Head(Posted[t]) = Decode(Head(q))
  BY SMTT(40), <1>3, <1>7
<1>9. Posted'[t] = Tail(Posted[t])
  <2>1. PICK rest : rest = Tail(q)
    OBVIOUS
  <2>2. queue'[t] = rest
    BY <1>1, <1>2, <1>3, <2>1
  <2>3. Posted'[t] = [i \in DOMAIN rest |-> Decode(rest[i])]
    BY <1>5, <2>2
  <2>4. DOMAIN rest = 1..Len(q) - 1 /\ \A i \in 1..Len(q) - 1 : rest[i] = q[i + 1]
    BY <1>2, <1>3, <2>1
  <2>5. Tail(Posted[t]) = [i \in 1..Len(q) - 1 |-> Posted[t][i + 1]]
    BY <1>8
  <2>6. \A i \in 1..Len(q) - 1 : Posted[t][i + 1] = Decode(q[i + 1])
    BY <1>7
  <2> QED BY SMTT(40), <2>3, <2>4, <2>5, <2>6
<1>10. Posted' = [Posted EXCEPT ![t] = Tail(@)]
  <2>1. /\ Posted = [u \in Task |-> Posted[u]] /\ Posted' = [u \in Task |-> Posted'[u]]
    BY DEF Posted
  <2> QED BY <1>6, <1>9, <2>1
<1>11. Handled[t] = NULL
  BY <1>2 DEF Handled
<1>12. Handled' = [Handled EXCEPT ![t] = Decode(Head(q))]
  <2>1. Handled'[t] = Decode(Head(q))
    BY <1>2, <1>3, <1>4 DEF Handled
  <2>2. ASSUME NEW u \in Task, u # t PROVE Handled'[u] = Handled[u]
    BY <1>2, <1>3, <1>4, <2>2 DEF Handled
  <2>3. /\ Handled = [u \in Task |-> Handled[u]] /\ Handled' = [u \in Task |-> Handled'[u]]
    BY DEF Handled
  <2> QED BY <2>1, <2>2, <2>3
<1>13. Channel!Receive(t)
  BY <1>8, <1>10, <1>11, <1>12 DEF Channel!Receive
<1> QED BY <1>13 DEF Channel!Next

(* What a task receives is what was sent to it, in order, once and unchanged *)
(* while it is handled, for any numbers of tasks, blocks and slots and any   *)
(* lengths: the message layer implements bounded channels.                   *)
THEOREM ChannelImplemented == Spec => ImplementsChannel
<1>1. Init => Channel!Init /\ Senders
  BY DEF Init, Channel!Init, Posted, Handled, Senders
<1>2. OInv /\ Senders /\ [Next]_vars => [Channel!Next]_Channel!vars
  <2> SUFFICES ASSUME OInv, Senders, [Next]_vars PROVE [Channel!Next]_Channel!vars
    OBVIOUS
  <2>1. ASSUME NEW t \in Task, Acts(t), ~SendPost(t), ~Receive(t)
        PROVE  [Channel!Next]_Channel!vars
    <3>1. TypeInv
      BY DEF OInv
    <3>2. /\ queue' = queue
          /\ Handling(t)' => Handling(t) /\ pMessage'[t] = pMessage[t]
      <4>1. CASE \E dst \in Task, v \in Value, n \in Length : SendGet(t, dst, v, n)
        BY <3>1, <4>1, Ranges DEF SendGet, Goto, Handling
      <4>2. CASE SendNoBlock(t)
        BY <4>2 DEF SendNoBlock, Handling
      <4>3. CASE Continue(t)
        BY <2>1, <3>1, <4>3, Ranges DEF Continue, SendGetData, SendNoData, SendUndo,
           SendFull, HandleOther, TestGetBuf, TestGetData, TestPutData, TestPutBuf,
           FreeData, FreeMessage, Goto, Handling
      <4> QED BY <2>1, <4>1, <4>2, <4>3 DEF Acts, Send
    <3>3. \A u \in Task : u # t => pc'[u] = pc[u] /\ pMessage'[u] = pMessage[u]
      BY <2>1, <3>1, OthersWait
    <3> QED BY <3>2, <3>3, QuietStep
  <2>2. CASE UNCHANGED vars
    BY <2>2 DEF vars, Channel!vars, Posted, Handled, Decode, Long
  <2> QED BY <2>1, <2>2, PostIsPost, ReceiveIsReceive DEF Next, Acts
<1> QED
  BY <1>1, <1>2, NextSenders, Invariance, PTL DEF Spec, ImplementsChannel, Channel!Spec
(* What OsMem asks of its clients.  Task t is about to return block b.       *)
Returns(t, b) ==
    \/ pc[t] \in {"undo", "freeMessage"} /\ b = pMessage[t]
    \/ pc[t] = "free" /\ b = IF Long(pMessage[t]) THEN mem[pMessage[t]].data
                             ELSE pMessage[t]
    \/ pc[t] = "putData" /\ b = pData[t]
    \/ pc[t] = "query" /\ queries[t] = 0 /\ b = pBuf[t]

(* No call returns an address outside the partitions or a block that is free *)
(* already, and no two tasks are about to return the same block.             *)
ReturnsHeld ==
    \A t \in Task : \A b : Returns(t, b) =>
        /\ b \in Block \ free
        /\ \A u \in Task : Returns(u, b) => u = t

(* A step writes into a block that was free only if it takes the block.      *)
FreeUntouched ==
    \A b \in Block : mem'[b] # mem[b] => b \notin free \/ b \notin free'

LEMMA OInvReturnsHeld == OInv => ReturnsHeld
<1> SUFFICES ASSUME OInv PROVE ReturnsHeld
  OBVIOUS
<1>1. PICK place, at : TypeInv /\ Owned(place, at)
  BY DEF OInv
<1> DEFINE By(t, b) == \/ place[b] \in {"task", "buf", "query"} /\ at[b] = t
                       \/ /\ place[b] = "data" /\ at[b] \in Block
                          /\ place[at[b]] = "task" /\ at[at[b]] = t
<1>2. ASSUME NEW t \in Task, NEW b, Returns(t, b) PROVE b \in Block /\ By(t, b)
  <2>1. pMessage[t] # NULL =>
           pMessage[t] \in Block /\ place[pMessage[t]] = "task" /\ at[pMessage[t]] = t
    BY <1>1, Ranges DEF Owned, OwnTask
  <2>2. CASE pc[t] \in {"undo", "free", "freeMessage"} /\ b = pMessage[t]
    BY <1>1, <2>1, <2>2 DEF TypeInv, Control
  <2>3. CASE pc[t] = "free" /\ Long(pMessage[t]) /\ b = mem[pMessage[t]].data
    <3>1. PICK m : m = pMessage[t]
      OBVIOUS
    <3>2. m \in Block /\ place[m] = "task" /\ at[m] = t
      BY <1>1, <2>1, <2>3, <3>1 DEF TypeInv, Control
    <3>3. Bears(m, place, at)
      BY <2>3, <3>1, <3>2 DEF Bears, HasData
    <3>4. b \in Block /\ place[b] = "data" /\ at[b] = m
      BY <1>1, <2>3, <3>1, <3>2, <3>3 DEF Owned, OwnData
    <3> QED BY <3>2, <3>4
  <2>4. CASE pc[t] = "putData" /\ b = pData[t]
    <3>1. pData[t] \in Block
      BY <1>1, <2>4, Ranges DEF TypeInv, Control
    <3> QED BY <1>1, <2>4, <3>1 DEF Owned, OwnTask
  <2>5. CASE pc[t] = "query" /\ b = pBuf[t]
    <3>1. pBuf[t] \in Block
      BY <1>1, <2>5, Ranges DEF TypeInv, Control
    <3> QED BY <1>1, <2>5, <3>1 DEF Owned, OwnTask
  <2> QED BY <1>2, <2>2, <2>3, <2>4, <2>5 DEF Returns
<1>3. ASSUME NEW t \in Task, NEW b \in Block, By(t, b)
      PROVE  b \notin free /\ \A u \in Task : By(u, b) => u = t
  BY <1>1, <1>3 DEF Owned, OwnFree
<1> HIDE DEF By
<1> QED BY <1>2, <1>3 DEF ReturnsHeld

LEMMA OInvFreeUntouched == OInv /\ [Next]_vars => FreeUntouched
<1> SUFFICES ASSUME OInv, [Next]_vars PROVE FreeUntouched
  OBVIOUS
<1>1. TypeInv /\ ReturnsHeld
  BY OInvReturnsHeld DEF OInv
<1>2. ASSUME UNCHANGED mem PROVE FreeUntouched
  BY <1>2 DEF FreeUntouched
<1>3. ASSUME NEW t \in Task, NEW b, Returns(t, b), MEM_Put(b) PROVE FreeUntouched
  <2>1. b \in Block \ free
    BY <1>1, <1>3 DEF ReturnsHeld
  <2>2. \A x \in Block : x # b => mem'[x] = mem[x]
    BY <1>1, <1>3, Ranges DEF MEM_Put
  <2> QED BY <2>1, <2>2 DEF FreeUntouched
<1>4. ASSUME NEW t \in Task, NEW dst \in Task, NEW v \in Value, NEW n \in Length,
             SendGet(t, dst, v, n)
      PROVE  FreeUntouched
  <2>1. PICK b \in free : /\ \A x \in Block : x # b => mem'[x] = mem[x]
                          /\ free' = free \ {b}
    BY <1>1, <1>4, CandidatesAreFree, Ranges DEF SendGet
  <2> QED BY <2>1 DEF FreeUntouched
<1>5. ASSUME NEW t \in Task, SendGetData(t) PROVE FreeUntouched
  <2>1. PICK d \in Candidates(mem[pMessage[t]].len) :
          /\ mem' = [mem EXCEPT ![pMessage[t]].data = d,
                                ![d].message = mem[pMessage[t]].message]
          /\ free' = free \ {d}
    BY <1>5 DEF SendGetData
  <2>2. \A x \in Block : x # d /\ x # pMessage[t] => mem'[x] = mem[x]
    BY <1>1, <2>1, CandidatesAreFree, Ranges
  <2>3. pc[t] = "getData" /\ pMessage[t] \in Block
    BY <1>1, <1>5, Ranges DEF SendGetData, TypeInv, Control
  <2>4. pMessage[t] \notin free
    BY <2>3 DEF OInv, Owned, OwnFree, OwnTask
  <2> QED BY <2>1, <2>2, <2>4 DEF FreeUntouched
<1>6. ASSUME NEW t \in Task, SendUndo(t) \/ FreeMessage(t) PROVE FreeUntouched
  <2>1. Returns(t, pMessage[t]) /\ MEM_Put(pMessage[t])
    BY <1>6 DEF SendUndo, FreeMessage, Returns
  <2> QED BY <1>3, <2>1
<1>7. ASSUME NEW t \in Task, FreeData(t) PROVE FreeUntouched
  <2>1. Returns(t, mem[pMessage[t]].data) /\ MEM_Put(mem[pMessage[t]].data)
    BY <1>7 DEF FreeData, Returns
  <2> QED BY <1>3, <2>1
<1>8. ASSUME NEW t \in Task, TestPutData(t) PROVE FreeUntouched
  <2>1. Returns(t, pData[t]) /\ MEM_Put(pData[t])
    BY <1>8 DEF TestPutData, Returns
  <2> QED BY <1>3, <2>1
<1>9. ASSUME NEW t \in Task, TestPutBuf(t) PROVE FreeUntouched
  <2>1. Returns(t, pBuf[t]) /\ MEM_Put(pBuf[t])
    BY <1>9 DEF TestPutBuf, Returns
  <2> QED BY <1>3, <2>1
<1>10. ASSUME NEW t \in Task, SendNoBlock(t) \/ Receive(t) \/ SendNoData(t) \/ SendPost(t)
              \/ SendFull(t) \/ HandleOther(t) \/ TestGetBuf(t) \/ TestGetData(t)
       PROVE  UNCHANGED mem
  BY <1>10 DEF SendNoBlock, Receive, SendNoData, SendPost, SendFull, HandleOther,
     TestGetBuf, TestGetData
<1>11. CASE UNCHANGED vars
  BY <1>2, <1>11 DEF vars
<1> QED
  BY <1>2, <1>4, <1>5, <1>6, <1>7, <1>8, <1>9, <1>10, <1>11 DEF Next, Send, Continue

(* The tasks keep to what OsMem asks of the clients of a partition, and so   *)
(* its theorems hold for both of them: a block is returned by one task, and  *)
(* once, and no free block, whose first word is a link, is ever written.     *)
THEOREM PartitionsRespected == Spec => []ReturnsHeld /\ [][FreeUntouched]_vars
  BY OInvReturnsHeld, OInvFreeUntouched, Invariance, PTL DEF Spec
=============================================================================
