----------------------------- MODULE ByteStream -----------------------------
(* What a serial line with a buffer promises: the bytes put in come out      *)
(* once, in the order they went in, and nothing else comes out.              *)
EXTENDS Naturals, Sequences

VARIABLES pipe,   \* the bytes put in that have not come out
          out     \* the bytes that came out last

vars == <<pipe, out>>

Init == pipe = <<>> /\ out = <<>>

Put == /\ Len(pipe') > Len(pipe)
       /\ SubSeq(pipe', 1, Len(pipe)) = pipe
       /\ UNCHANGED out

Take(n) == /\ out' = SubSeq(pipe, 1, n)
           /\ pipe' = SubSeq(pipe, n + 1, Len(pipe))

Next == Put \/ \E n \in 0..Len(pipe) : Take(n)

Spec == Init /\ [][Next]_vars
=============================================================================
