-------------------------------- MODULE OsMem --------------------------------
(* One OS_MEM partition of uC/OS-II (UCOSII/CORE/os_mem.c): NBlks blocks,    *)
(* the free ones linked through their own first word.  The first word of a   *)
(* block that a client holds belongs to the client, who may write it.  Every *)
(* call is one critical section, so a step is a call.                        *)
EXTENDS Naturals

CONSTANTS NBlks,         \* number of blocks; their addresses are 1..NBlks
          Full, NoBlock  \* OS_ERR_MEM_FULL and OS_ERR_MEM_NO_FREE_BLKS

NULL == 0
Block == 1..NBlks

ASSUME OsMemAssumption == /\ NBlks \in Nat \ {0}
                          /\ {Full, NoBlock} \cap (Block \cup {NULL}) = {}
                          /\ Full # NoBlock

VARIABLES
    OSMemFreeList,  \* address of the first free block, or NULL
    OSMemNFree,     \* number of free blocks
    word,           \* [Block -> first word of the block]
    held,           \* the blocks clients have got and not put back
    memReply           \* what the last call returned

memVars == <<OSMemFreeList, OSMemNFree, word, held, memReply>>

(* A definition whose name ends in _Faulty is a plausible slip in the code,  *)
(* used to show that the properties below would notice it.                   *)

(* OSMemCreate links every block to the following one.                       *)
FirstWord_Faulty(b) == IF b <= NBlks THEN b + 1 ELSE NULL
FirstWord(b) == IF b < NBlks THEN b + 1 ELSE NULL

MemInit == /\ OSMemFreeList = 1
           /\ OSMemNFree = NBlks
           /\ word = [b \in Block |-> FirstWord(b)]
           /\ held = {}
           /\ memReply = NoBlock

NextFree_Faulty == OSMemFreeList
NextFree == word[OSMemFreeList]

OSMemGet ==
    /\ OSMemNFree > 0
    /\ OSMemFreeList' = NextFree
    /\ OSMemNFree' = OSMemNFree - 1
    /\ held' = held \cup {OSMemFreeList}
    /\ memReply' = OSMemFreeList
    /\ UNCHANGED word

OSMemGetFails ==
    /\ OSMemNFree = 0
    /\ memReply' = NoBlock
    /\ UNCHANGED <<OSMemFreeList, OSMemNFree, word, held>>

Link_Faulty(b) == word
Link(b) == [word EXCEPT ![b] = OSMemFreeList]

OSMemPut(b) ==
    /\ b \in held
    /\ IF OSMemNFree >= NBlks
       THEN memReply' = Full /\ UNCHANGED <<OSMemFreeList, OSMemNFree, word, held>>
       ELSE /\ word' = Link(b)
            /\ OSMemFreeList' = b
            /\ OSMemNFree' = OSMemNFree + 1
            /\ held' = held \ {b}
            /\ memReply' = b

Write(b, w) ==
    /\ b \in held
    /\ word' = [word EXCEPT ![b] = w]
    /\ UNCHANGED <<OSMemFreeList, OSMemNFree, held, memReply>>

MemNext == \/ OSMemGet
           \/ OSMemGetFails
           \/ \E b \in Block : \/ OSMemPut(b)
                               \/ \E w \in Block \cup {NULL} : Write(b, w)

MemSpec == MemInit /\ [][MemNext]_memVars

-----------------------------------------------------------------------------
(* Ranges of the partition control block and of the first words.             *)
MemTypeOK == /\ OSMemFreeList \in Block \cup {NULL}
             /\ OSMemNFree \in 0..NBlks
             /\ word \in [Block -> Block \cup {NULL}]
             /\ held \subseteq Block
             /\ memReply \in Block \cup {Full, NoBlock}

(* list is the free list, first block first.                                 *)
IsFreeList(list) ==
    /\ \A i, j \in 1..OSMemNFree : list[i] = list[j] => i = j
    /\ {list[i] : i \in 1..OSMemNFree} = Block \ held
    /\ OSMemFreeList = IF OSMemNFree = 0 THEN NULL ELSE list[1]
    /\ \A i \in 1..OSMemNFree :
          word[list[i]] = IF i = OSMemNFree THEN NULL ELSE list[i + 1]

(* The free list is whole: from OSMemFreeList the links pass exactly the     *)
(* blocks no client holds, each once, and end in NULL after OSMemNFree of    *)
(* them, whatever clients wrote into the blocks they held and in whatever    *)
(* order they returned them (OSMemGet and OSMemPut, os_mem.c:153-358).       *)
FreeListWhole == \E list \in [1..OSMemNFree -> Block] : IsFreeList(list)

Pool == INSTANCE MemPool WITH free <- Block \ held, reply <- memReply

(* The linked list behaves as a set of blocks: OSMemGet fails only when no   *)
(* block is free, never hands out a block twice, and a block that was handed *)
(* out is never refused by OSMemPut.                                         *)
ImplementsPool == Pool!Spec
=============================================================================
