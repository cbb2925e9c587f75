-------------------------- MODULE CountingSemaphore --------------------------
(* What a semaphore promises the tasks that pend on it.  A wait that is over *)
(* was granted a post, aborted, or gave up; a granted wait returns NONE.     *)
EXTENDS Naturals

CONSTANTS Task, Max

VARIABLES count,
          wait,     \* [Task -> {"no", "waiting", "granted", "aborted"}]
          result    \* "NONE", "TIMEOUT" or "ABORT": how the last wait ended

vars == <<count, wait, result>>

Init == /\ count = 0
        /\ wait = [t \in Task |-> "no"]
        /\ result = "NONE"

Nobody == \A t \in Task : wait[t] # "waiting"

Take == count > 0 /\ count' = count - 1 /\ UNCHANGED wait

TakeNow(t) == Take /\ wait[t] = "no" /\ result' = "NONE"

Wait(t) == /\ count = 0
           /\ wait[t] = "no"
           /\ wait' = [wait EXCEPT ![t] = "waiting"]
           /\ UNCHANGED <<count, result>>

Post == /\ \/ Nobody /\ count < Max /\ count' = count + 1 /\ UNCHANGED wait
           \/ \E t \in Task : /\ wait[t] = "waiting"
                              /\ wait' = [wait EXCEPT ![t] = "granted"]
                              /\ UNCHANGED count
        /\ UNCHANGED result

Abort == /\ \E S \in SUBSET {t \in Task : wait[t] = "waiting"} :
               wait' = [t \in Task |-> IF t \in S THEN "aborted" ELSE wait[t]]
         /\ UNCHANGED <<count, result>>

Return(t) == /\ wait[t] # "no"
             /\ wait' = [wait EXCEPT ![t] = "no"]
             /\ result' = CASE wait[t] = "granted" -> "NONE"
                              [] wait[t] = "aborted" -> "ABORT"
                              [] OTHER -> "TIMEOUT"
             /\ UNCHANGED count

Set(n) == /\ count > 0 \/ Nobody
          /\ count' = n
          /\ UNCHANGED <<wait, result>>

Step == \/ \E t \in Task : TakeNow(t) \/ Wait(t) \/ Return(t)
        \/ (Take /\ UNCHANGED result) \/ Post \/ Abort
        \/ \E n \in 0..Max : Set(n)

(* What changes nothing, such as aborting no wait, is not a step.            *)
Next == vars' # vars /\ Step

Spec == Init /\ [][Next]_vars
=============================================================================
