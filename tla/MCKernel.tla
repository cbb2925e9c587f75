------------------------------ MODULE MCKernel ------------------------------
(* Small instances of Kernel: two tasks and the idle task, one priority to   *)
(* spare, handlers that nest.                                                *)
EXTENDS Kernel, TLC

CONSTANTS t1, t2, idle   \* model values

(* The tasks differ only in their priorities, which Init and                 *)
(* OSTaskChangePrio choose freely.                                           *)
Symmetry == Permutations(User)
=============================================================================
