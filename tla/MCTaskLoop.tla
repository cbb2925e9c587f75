----------------------------- MODULE MCTaskLoop -----------------------------
(* TaskLoop for TLC: two tasks with the delays 1 and 2 for the 1, 10 and 100 *)
(* of main.c, and a tick counter that wraps within a few periods.            *)
EXTENDS TaskLoop

MCDelay == [k \in Task |-> k + 1]
MCBusy == [k \in Task |-> 1 + k]
=============================================================================
