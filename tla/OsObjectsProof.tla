---------------------------- MODULE OsObjectsProof ----------------------------
(* Theorems about the two kernel objects that need no scheduler: a memory    *)
(* partition with any number of blocks, and the pointer ring of a queue with *)
(* any number of slots.                                                      *)
EXTENDS OsMem, OsQueue, FiniteSetTheorems, SequenceTheorems, TLAPS

-----------------------------------------------------------------------------
(* The memory partition.                                                     *)

(* A partition whose free list is whole, with its ranges: inductive, because *)
(* the list that witnesses FreeListWhole loses its first block in OSMemGet   *)
(* and gains a first block in OSMemPut, and clients write no listed block.   *)
MemInv == MemTypeOK /\ FreeListWhole

(* OSMemPut of a block that was handed out finds OSMemNFree below NBlks.     *)
LEMMA HeldLeavesRoom ==
  ASSUME MemInv, NEW b \in held
  PROVE  OSMemNFree < NBlks
<1> SUFFICES ASSUME OSMemNFree = NBlks PROVE FALSE
  BY OsMemAssumption DEF MemInv, MemTypeOK
<1>1. PICK list \in [1..NBlks -> Block] : IsFreeList(list)
  BY DEF MemInv, FreeListWhole
<1>2. list \in [1..NBlks -> Block \ {b}]
  BY <1>1 DEF IsFreeList
<1>3. IsFiniteSet(1..NBlks) /\ Cardinality(1..NBlks) = NBlks
  BY FS_Interval, OsMemAssumption
<1>4. IsFiniteSet(Block \ {b}) /\ Cardinality(Block \ {b}) = NBlks - 1
  BY ZenonT(60), <1>3, FS_RemoveElement DEF MemInv, MemTypeOK, Block
<1>5. \E i, j \in 1..NBlks : i # j /\ list[i] = list[j]
  BY <1>2, <1>3, <1>4, FS_PigeonHole, OsMemAssumption
<1>. QED
  BY <1>1, <1>5 DEF IsFreeList

LEMMA InitMem == MemInit => MemInv
<1> SUFFICES ASSUME MemInit PROVE MemInv
  OBVIOUS
<1> USE OsMemAssumption DEF MemInit, Block, NULL
<1>1. MemTypeOK
  BY DEF MemTypeOK, FirstWord
<1>2. FreeListWhole
  <2> PICK list : list = [i \in 1..NBlks |-> i]
    OBVIOUS
  <2>1. list \in [1..OSMemNFree -> Block]
    OBVIOUS
  <2>2. {list[i] : i \in 1..OSMemNFree} = Block \ held
    <3>1. \A b \in Block : list[b] = b
      OBVIOUS
    <3>. QED
      BY <3>1
  <2>3. \A i \in 1..OSMemNFree :
          word[list[i]] = IF i = OSMemNFree THEN NULL ELSE list[i + 1]
    BY DEF FirstWord
  <2>4. /\ \A i, j \in 1..OSMemNFree : list[i] = list[j] => i = j
        /\ OSMemFreeList = IF OSMemNFree = 0 THEN NULL ELSE list[1]
    OBVIOUS
  <2>5. IsFreeList(list)
    BY Zenon, <2>2, <2>3, <2>4 DEF IsFreeList
  <2>. QED
    BY <2>1, <2>5 DEF FreeListWhole
<1>. QED
  BY <1>1, <1>2 DEF MemInv

LEMMA NextMem == MemInv /\ [MemNext]_memVars => MemInv'
<1> SUFFICES ASSUME MemInv, [MemNext]_memVars PROVE MemInv'
  OBVIOUS
<1> USE OsMemAssumption DEF MemInv
<1>1. PICK list \in [1..OSMemNFree -> Block] : IsFreeList(list)
  BY DEF FreeListWhole
<1>2. CASE OSMemGet
  <2> USE <1>2 DEF OSMemGet, NextFree
  <2> PICK rest : rest = [i \in 1..(OSMemNFree - 1) |-> list[i + 1]]
    OBVIOUS
  <2>1. OSMemNFree \in 1..NBlks /\ OSMemFreeList = list[1]
    BY <1>1 DEF MemTypeOK, IsFreeList
  <2>2. OSMemFreeList \in Block \ held
    BY <1>1, <2>1 DEF IsFreeList
  <2>3. MemTypeOK'
    BY <2>1, <2>2 DEF MemTypeOK
  <2>4. rest \in [1..OSMemNFree' -> Block]
    BY <2>1
  <2>5. \A i, j \in 1..OSMemNFree' : rest[i] = rest[j] => i = j
    BY <1>1, <2>1 DEF IsFreeList
  <2>6. {rest[i] : i \in 1..OSMemNFree'} = Block \ held'
    <3>1. ASSUME NEW i \in 1..OSMemNFree' PROVE rest[i] \in Block \ held'
      BY <1>1, <2>1, <3>1 DEF IsFreeList
    <3>2. ASSUME NEW b \in Block \ held'
          PROVE  \E i \in 1..OSMemNFree' : rest[i] = b
      <4>1. PICK k \in 1..OSMemNFree : list[k] = b
        BY <1>1, <3>2 DEF IsFreeList
      <4>2. k # 1
        BY <2>1, <3>2, <4>1
      <4>3. k - 1 \in 1..OSMemNFree' /\ rest[k - 1] = b
        BY <2>1, <4>1, <4>2
      <4>. QED
        BY <4>3
    <3>. QED
      BY <3>1, <3>2
  <2>7. OSMemFreeList' = IF OSMemNFree' = 0 THEN NULL ELSE rest[1]
    BY <1>1, <2>1 DEF IsFreeList
  <2>8. \A i \in 1..OSMemNFree' :
          word'[rest[i]] = IF i = OSMemNFree' THEN NULL ELSE rest[i + 1]
    BY <1>1, <2>1 DEF IsFreeList
  <2>9. IsFreeList(rest)'
    BY <2>5, <2>6, <2>7, <2>8 DEF IsFreeList
  <2>. QED
    BY <2>3, <2>4, <2>9 DEF FreeListWhole
<1>3. CASE OSMemGetFails
  <2>1. MemTypeOK'
    BY <1>3 DEF OSMemGetFails, MemTypeOK
  <2>2. IsFreeList(list)'
    BY <1>1, <1>3 DEF OSMemGetFails, IsFreeList
  <2>. QED
    BY <1>3, <2>1, <2>2 DEF OSMemGetFails, FreeListWhole
<1>4. ASSUME NEW b \in Block, OSMemPut(b) PROVE MemInv'
  <2> USE <1>4 DEF OSMemPut, Link
  <2>1. OSMemNFree \in 0..(NBlks - 1)
    BY HeldLeavesRoom DEF MemTypeOK
  <2>2. OSMemNFree' = OSMemNFree + 1 /\ OSMemFreeList' = b /\ held' = held \ {b}
        /\ word' = [word EXCEPT ![b] = OSMemFreeList] /\ memReply' = b
    BY <2>1
  <2>3. MemTypeOK'
    BY <2>1, <2>2 DEF MemTypeOK
  <2> PICK longer :
         longer = [i \in 1..(OSMemNFree + 1) |-> IF i = 1 THEN b ELSE list[i - 1]]
    OBVIOUS
  <2>4. longer \in [1..OSMemNFree' -> Block]
    BY <2>1, <2>2
  <2>5. \A i \in 1..OSMemNFree : list[i] \in Block \ held
    BY <1>1 DEF IsFreeList
  <2>6. \A i, j \in 1..OSMemNFree' : longer[i] = longer[j] => i = j
    BY <1>1, <2>1, <2>2, <2>5 DEF IsFreeList
  <2>7. {longer[i] : i \in 1..OSMemNFree'} = Block \ held'
    <3>1. ASSUME NEW i \in 1..OSMemNFree' PROVE longer[i] \in Block \ held'
      BY <2>1, <2>2, <2>5, <3>1
    <3>2. ASSUME NEW c \in Block \ held'
          PROVE  \E i \in 1..OSMemNFree' : longer[i] = c
      <4>1. CASE c = b
        BY <2>1, <2>2, <4>1
      <4>2. CASE c # b
        <5>1. PICK k \in 1..OSMemNFree : list[k] = c
          BY <1>1, <2>2, <3>2, <4>2 DEF IsFreeList
        <5>2. k + 1 \in 1..OSMemNFree' /\ longer[k + 1] = c
          BY <2>1, <2>2, <5>1
        <5>. QED
          BY <5>2
      <4>. QED
        BY <4>1, <4>2
    <3>3. {longer[i] : i \in 1..OSMemNFree'} \subseteq Block \ held'
      BY ONLY <3>1
    <3>4. Block \ held' \subseteq {longer[i] : i \in 1..OSMemNFree'}
      BY ONLY <3>2
    <3>. QED
      BY ONLY <3>3, <3>4
  <2>8. OSMemFreeList' = IF OSMemNFree' = 0 THEN NULL ELSE longer[1]
    BY <2>1, <2>2
  <2>9. ASSUME NEW i \in 1..OSMemNFree'
        PROVE  word'[longer[i]] = IF i = OSMemNFree' THEN NULL ELSE longer[i + 1]
    <3>1. CASE i = 1
      <4>1. word'[longer[i]] = OSMemFreeList
        BY <2>1, <2>2, <3>1 DEF MemTypeOK
      <4>. QED
        BY <1>1, <2>1, <2>2, <3>1, <4>1 DEF IsFreeList
    <3>2. CASE i # 1
      <4>1. i - 1 \in 1..OSMemNFree /\ longer[i] = list[i - 1]
        BY <2>1, <2>2, <2>9, <3>2
      <4>2. word'[longer[i]] = word[list[i - 1]]
        BY <2>2, <2>5, <4>1 DEF MemTypeOK
      <4>. QED
        BY <1>1, <2>1, <2>2, <4>1, <4>2 DEF IsFreeList
    <3>. QED
      BY <3>1, <3>2
  <2>10. IsFreeList(longer)'
    BY <2>6, <2>7, <2>8, <2>9 DEF IsFreeList
  <2>. QED
    BY <2>3, <2>4, <2>10 DEF FreeListWhole
<1>5. ASSUME NEW b \in Block, NEW w \in Block \cup {NULL}, Write(b, w) PROVE MemInv'
  <2>1. MemTypeOK'
    BY <1>5 DEF Write, MemTypeOK
  <2>2. IsFreeList(list)'
    BY <1>1, <1>5 DEF Write, IsFreeList, MemTypeOK
  <2>. QED
    BY <1>5, <2>1, <2>2 DEF Write, FreeListWhole
<1>6. CASE UNCHANGED memVars
  BY <1>6 DEF memVars, MemTypeOK, FreeListWhole, IsFreeList
<1>. QED
  BY <1>2, <1>3, <1>4, <1>5, <1>6 DEF MemNext

LEMMA MemInvariance == MemSpec => []MemInv
  BY InitMem, NextMem, PTL DEF MemSpec

(* The control block and the first words stay in their ranges.               *)
THEOREM MemTypeCorrect == MemSpec => []MemTypeOK
  BY MemInvariance, PTL DEF MemInv

(* The free list of a partition of any size is whole at every moment.        *)
THEOREM FreeListIsWhole == MemSpec => []FreeListWhole
  BY MemInvariance, PTL DEF MemInv

-----------------------------------------------------------------------------
LEMMA InitPool == MemInit => Pool!Init
  BY DEF MemInit, Pool!Init

(* Every call maps to the call of the same name on the set of free blocks.   *)
LEMMA NextPool == MemInv /\ [MemNext]_memVars => [Pool!Next]_Pool!vars
<1> SUFFICES ASSUME MemInv, [MemNext]_memVars PROVE [Pool!Next]_Pool!vars
  OBVIOUS
<1> USE OsMemAssumption DEF MemInv
<1>1. PICK list \in [1..OSMemNFree -> Block] : IsFreeList(list)
  BY DEF FreeListWhole
<1>2. CASE OSMemGet
  <2>1. 1 \in 1..OSMemNFree /\ OSMemFreeList = list[1]
    BY <1>1, <1>2 DEF OSMemGet, IsFreeList, MemTypeOK
  <2>2. OSMemFreeList \in Block \ held
    BY <1>1, <2>1 DEF IsFreeList
  <2>3. Pool!Get(OSMemFreeList)
    BY <1>2, <2>2 DEF OSMemGet, Pool!Get
  <2>. QED
    BY <2>2, <2>3 DEF Pool!Next
<1>3. CASE OSMemGetFails
  <2>1. Block \ held = {}
    BY <1>1, <1>3 DEF OSMemGetFails, IsFreeList
  <2>. QED
    BY <1>3, <2>1 DEF OSMemGetFails, Pool!GetFails, Pool!Next
<1>4. ASSUME NEW b \in Block, OSMemPut(b) PROVE Pool!Next
  <2>1. OSMemNFree < NBlks
    BY <1>4, HeldLeavesRoom DEF OSMemPut
  <2>2. Pool!Put(b)
    BY <1>4, <2>1 DEF OSMemPut, Pool!Put, MemTypeOK
  <2>. QED
    BY <2>2 DEF Pool!Next
<1>5. ASSUME NEW b \in Block, NEW w \in Block \cup {NULL}, Write(b, w)
      PROVE  UNCHANGED Pool!vars
  BY <1>5 DEF Write, Pool!vars
<1>6. CASE UNCHANGED memVars
  BY <1>6 DEF memVars, Pool!vars
<1>. QED
  BY <1>2, <1>3, <1>4, <1>5, <1>6 DEF MemNext

(* The linked free list implements the set of free blocks it stands for.     *)
THEOREM PoolImplemented == MemSpec => ImplementsPool
<1>1. MemInit => Pool!Init
  BY InitPool
<1>2. MemInv /\ [MemNext]_memVars => [Pool!Next]_Pool!vars
  BY NextPool
<1>. QED
  BY <1>1, <1>2, MemInvariance, PTL DEF MemSpec, ImplementsPool, Pool!Spec

-----------------------------------------------------------------------------
(* The pointer ring.                                                         *)

(* The ranges need the pointers to agree (OSQEntries cannot go below 0 or    *)
(* above OSQSize), and the pointers agree because they are in range.         *)
QInv == QTypeOK /\ PointersAgree

LEMMA InitQ == QInit => QInv
  BY OsQueueAssumption
  DEF QInit, QInv, QTypeOK, PointersAgree, OSQStart, OSQEnd

LEMMA NextQ == QInv /\ [QNext]_qVars => QInv'
<1> SUFFICES ASSUME QInv, [QNext]_qVars PROVE QInv'
  OBVIOUS
<1> USE OsQueueAssumption DEF QInv, QTypeOK, PointersAgree, OSQStart, OSQEnd
<1>1. ASSUME NEW m \in Message, OSQPost(m) PROVE QInv'
  BY <1>1 DEF OSQPost, Room, Wrap
<1>2. ASSUME NEW m \in Message, OSQPostFront(m) PROVE QInv'
  BY <1>2 DEF OSQPostFront, Room
<1>3. CASE OSQPostFails
  BY <1>3 DEF OSQPostFails
<1>4. CASE OSQAccept
  BY <1>4 DEF OSQAccept, Wrap
<1>5. CASE OSQAcceptFails
  BY <1>5 DEF OSQAcceptFails
<1>6. CASE OSQFlush
  BY <1>6 DEF OSQFlush
<1>7. CASE UNCHANGED qVars
  BY <1>7 DEF qVars
<1>. QED
  BY <1>1, <1>2, <1>3, <1>4, <1>5, <1>6, <1>7 DEF QNext

LEMMA QInvariance == QSpec => []QInv
  BY InitQ, NextQ, PTL DEF QSpec

(* Pointers, counter and slots stay in range: the storage of QMessage is     *)
(* never written outside its OSQSize slots.                                  *)
THEOREM QTypeCorrect == QSpec => []QTypeOK
  BY QInvariance, PTL DEF QInv

(* The pointers and the counter agree at every moment.                       *)
THEOREM PointersAlwaysAgree == QSpec => []PointersAgree
  BY QInvariance, PTL DEF QInv

-----------------------------------------------------------------------------
(* The places after OSQOut are slots, and OSQIn is the first one after the   *)
(* last entry.                                                               *)
LEMMA SlotFacts ==
  ASSUME QInv
  PROVE  /\ \A n \in 0..(OSQSize - 1) : Slot(n) \in OSQStart..(OSQEnd - 1)
         /\ \A n, k \in 0..(OSQSize - 1) : Slot(n) = Slot(k) => n = k
         /\ OSQEntries < OSQSize => Slot(OSQEntries) = OSQIn
  BY OsQueueAssumption DEF QInv, QTypeOK, PointersAgree, Slot, OSQStart, OSQEnd

LEMMA ContentType ==
  ASSUME QInv
  PROVE  Content \in Seq(Message \cup {Ok}) /\ Len(Content) = OSQEntries
<1>1. \A i \in 1..OSQEntries : Slot(i - 1) \in OSQStart..(OSQEnd - 1)
  BY SlotFacts, OsQueueAssumption DEF QInv, QTypeOK
<1>2. Content \in [1..OSQEntries -> Message \cup {Ok}]
  BY <1>1 DEF Content, QInv, QTypeOK
<1>. QED
  BY <1>2, OsQueueAssumption DEF QInv, QTypeOK, Content

LEMMA InitDeque == QInit => Queue!Init
  BY DEF QInit, Queue!Init, Content

(* Every call maps to the call of the same name on the sequence of messages. *)
LEMMA NextDeque == QInv /\ [QNext]_qVars => [Queue!Next]_Queue!vars
<1> SUFFICES ASSUME QInv, [QNext]_qVars PROVE [Queue!Next]_Queue!vars
  OBVIOUS
<1> USE OsQueueAssumption
<1>0. /\ Content \in Seq(Message \cup {Ok}) /\ Len(Content) = OSQEntries
      /\ OSQEntries \in 0..OSQSize
      /\ QInv'
  BY ContentType, NextQ DEF QInv, QTypeOK
<1>1. ASSUME NEW m \in Message, OSQPost(m) PROVE Queue!Next
  <2>1. OSQEntries < OSQSize /\ OSQEntries' = OSQEntries + 1
    BY <1>1 DEF OSQPost, Room
  <2>2. \A i \in 1..OSQEntries' :
          Content'[i] = IF i = OSQEntries' THEN m ELSE Content[i]
    <3> SUFFICES ASSUME NEW i \in 1..OSQEntries'
                 PROVE  Content'[i] = IF i = OSQEntries' THEN m ELSE Content[i]
      OBVIOUS
    <3>1. Slot(i - 1)' = Slot(i - 1) /\ Content'[i] = slot'[Slot(i - 1)]
      BY <1>1 DEF OSQPost, Slot, Content
    <3>2. Slot(i - 1) \in OSQStart..(OSQEnd - 1)
      BY <1>0, <2>1, SlotFacts
    <3>3. (Slot(i - 1) = OSQIn) <=> (i = OSQEntries')
      <4>1. OSQEntries \in 0..(OSQSize - 1) /\ i - 1 \in 0..(OSQSize - 1)
        BY <1>0, <2>1
      <4>. QED
        BY <1>0, <2>1, <4>1, SlotFacts
    <3>. QED
      BY <1>0, <1>1, <2>1, <3>1, <3>2, <3>3 DEF OSQPost, QInv, QTypeOK, Content
  <2>3. Content' = Append(Content, m)
    <3>1. Content' = [i \in 1..OSQEntries' |-> Content'[i]]
      BY DEF Content
    <3>2. Append(Content, m) =
            [i \in 1..(OSQEntries + 1) |-> IF i = OSQEntries + 1 THEN m ELSE Content[i]]
      <4> DEFINE long == Append(Content, m)
      <4>1. /\ long \in Seq(Message \cup {Ok})
            /\ Len(long) = OSQEntries + 1
            /\ \A i \in 1..(OSQEntries + 1) :
                  long[i] = IF i = OSQEntries + 1 THEN m ELSE Content[i]
        BY <1>0
      <4> HIDE DEF long
      <4>2. long = [i \in 1..(OSQEntries + 1) |-> long[i]]
        BY <1>0, <4>1
      <4>. QED
        BY <4>1, <4>2 DEF long
    <3>. QED
      BY <2>1, <2>2, <3>1, <3>2
  <2>4. Queue!Post(m)
    BY <1>0, <1>1, <2>1, <2>3 DEF OSQPost, Queue!Post
  <2>. QED
    BY <2>4 DEF Queue!Next
<1>2. ASSUME NEW m \in Message, OSQPostFront(m) PROVE Queue!Next
  <2>1. OSQEntries < OSQSize /\ OSQEntries' = OSQEntries + 1
    BY <1>2 DEF OSQPostFront, Room
  <2>2. /\ OSQOut' = Slot(0)' /\ OSQOut' \in OSQStart..(OSQEnd - 1)
        /\ \A n \in 1..(OSQSize - 1) : Slot(n)' = Slot(n - 1)
    BY <1>2 DEF OSQPostFront, Slot, QInv, QTypeOK, OSQStart, OSQEnd
  <2>3. \A n \in 0..(OSQSize - 2) : Slot(n) # OSQOut' /\ Slot(n) \in OSQStart..(OSQEnd - 1)
    BY <1>2 DEF OSQPostFront, Slot, QInv, QTypeOK, OSQStart, OSQEnd
  <2>4. \A i \in 1..OSQEntries' :
          Content'[i] = IF i = 1 THEN m ELSE Content[i - 1]
    <3> SUFFICES ASSUME NEW i \in 1..OSQEntries'
                 PROVE  Content'[i] = IF i = 1 THEN m ELSE Content[i - 1]
      OBVIOUS
    <3>1. Content'[i] = slot'[Slot(i - 1)']
      BY DEF Content, Slot
    <3>2. CASE i = 1
      BY <1>2, <2>2, <3>1, <3>2 DEF OSQPostFront, QInv, QTypeOK
    <3>3. CASE i # 1
      <4>1. i - 1 \in 1..OSQEntries /\ i - 1 \in 1..(OSQSize - 1) /\ i - 2 \in 0..(OSQSize - 2)
        BY <1>0, <2>1, <3>3
      <4>2. Slot(i - 1)' = Slot(i - 2)
        BY <2>2, <4>1
      <4>3. slot'[Slot(i - 2)] = slot[Slot(i - 2)]
        BY <1>2, <2>3, <4>1 DEF OSQPostFront, QInv, QTypeOK
      <4>4. Content[i - 1] = slot[Slot(i - 2)]
        BY <1>0, <4>1 DEF Content
      <4>. QED
        BY <3>1, <3>3, <4>2, <4>3, <4>4
    <3>. QED
      BY <3>2, <3>3
  <2>5. Content' = <<m>> \o Content
    <3>1. Content' = [i \in 1..OSQEntries' |-> Content'[i]]
      BY DEF Content
    <3>2. <<m>> \o Content =
            [i \in 1..(OSQEntries + 1) |-> IF i = 1 THEN m ELSE Content[i - 1]]
      BY <1>0
    <3>. QED
      BY <2>1, <2>4, <3>1, <3>2
  <2>6. Queue!PostFront(m)
    BY <1>0, <1>2, <2>1, <2>5 DEF OSQPostFront, Queue!PostFront
  <2>. QED
    BY <2>6 DEF Queue!Next
<1>3. CASE OSQPostFails
  <2>1. Content' = Content
    BY <1>3 DEF OSQPostFails, Content, Slot
  <2>. QED
    BY <1>0, <1>3, <2>1 DEF OSQPostFails, Room, Queue!PostFails, Queue!Next
<1>4. CASE OSQAccept
  <2>1. OSQEntries > 0 /\ OSQEntries' = OSQEntries - 1
    BY <1>4 DEF OSQAccept
  <2>2. qReply' = Content[1]
    BY <1>0, <1>4, <2>1 DEF OSQAccept, Content, Slot, QInv, QTypeOK, OSQStart, OSQEnd
  <2>3. \A i \in 1..OSQEntries' : Content'[i] = Content[i + 1]
    <3> SUFFICES ASSUME NEW i \in 1..OSQEntries'
                 PROVE  Content'[i] = Content[i + 1]
      OBVIOUS
    <3>1. Slot(i - 1)' = Slot(i)
      BY SMTT(40), <1>0, <1>4, <2>1 DEF OSQAccept, Wrap, Slot, QInv, QTypeOK, OSQStart, OSQEnd
    <3>2. Content'[i] = slot[Slot(i - 1)'] /\ Content[i + 1] = slot[Slot(i)]
      BY <1>0, <1>4, <2>1 DEF OSQAccept, Content, Slot
    <3>. QED
      BY <3>1, <3>2
  <2>4. Content # <<>> /\ Content' = Tail(Content)
    BY SMTT(40), <1>0, <2>1, <2>3 DEF Content
  <2>5. Queue!Accept
    BY <1>0, <2>1, <2>2, <2>4 DEF Queue!Accept
  <2>. QED
    BY <2>5 DEF Queue!Next
<1>5. CASE OSQAcceptFails
  <2>1. Content' = Content /\ Content = <<>>
    BY <1>0, <1>5 DEF OSQAcceptFails, Content, Slot
  <2>. QED
    BY <1>5, <2>1 DEF OSQAcceptFails, Queue!AcceptFails, Queue!Next
<1>6. CASE OSQFlush
  BY <1>6 DEF OSQFlush, Content, Queue!Flush, Queue!Next
<1>7. CASE UNCHANGED qVars
  BY <1>7 DEF qVars, Queue!vars, Content, Slot
<1>. QED
  BY <1>1, <1>2, <1>3, <1>4, <1>5, <1>6, <1>7 DEF QNext

(* The ring of any size implements the bounded queue.                        *)
THEOREM DequeImplemented == QSpec => ImplementsDeque
<1>1. QInit => Queue!Init
  BY InitDeque
<1>2. QInv /\ [QNext]_qVars => [Queue!Next]_Queue!vars
  BY NextDeque
<1>. QED
  BY <1>1, <1>2, QInvariance, PTL DEF QSpec, ImplementsDeque, Queue!Spec
=============================================================================
