---------------------------- MODULE MCMessaging ----------------------------
(* Small instances of Messaging: the boundary lengths of MSG_Send and        *)
(* MEM_Get, few enough blocks that both partitions run dry.                  *)
EXTENDS Messaging, TLC

CONSTANTS t0, t1, s1, s2, s3, g1, test, loop   \* model values

(* The small blocks are interchangeable.                                     *)
Symmetry == Permutations(SmallBlock)
=============================================================================
