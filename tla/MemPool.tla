------------------------------- MODULE MemPool -------------------------------
(* What a memory partition promises: a set of free blocks, from which Get    *)
(* hands out one, unless there is none, and to which Put returns one.        *)
CONSTANTS Block, NoBlock   \* the blocks, and the reply when none is free

VARIABLES free,    \* the free blocks
          reply    \* what the last call returned: a block, an error, or itself

vars == <<free, reply>>

Init == free = Block /\ reply = NoBlock

Get(b) == b \in free /\ free' = free \ {b} /\ reply' = b

GetFails == free = {} /\ reply' = NoBlock /\ UNCHANGED free

Put(b) == b \notin free /\ free' = free \cup {b} /\ reply' = b

Next == \/ \E b \in Block : Get(b) \/ Put(b)
        \/ GetFails

Spec == Init /\ [][Next]_vars
=============================================================================
