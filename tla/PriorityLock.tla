---------------------------- MODULE PriorityLock ----------------------------
(* What a mutex promises: one holder at a time, and a release that hands the *)
(* lock to the most urgent of the tasks that wait for it.                    *)
EXTENDS Integers

CONSTANTS Task, NoTask    \* tasks are numbered by urgency; no task

VARIABLES holder, waiting

vars == <<holder, waiting>>

Init == holder = NoTask /\ waiting = {}

Take(t) == holder = NoTask /\ holder' = t /\ UNCHANGED waiting

Wait(t) == /\ holder \notin {NoTask, t} /\ t \notin waiting
           /\ waiting' = waiting \cup {t} /\ UNCHANGED holder

GiveUp(t) == t \in waiting /\ waiting' = waiting \ {t} /\ UNCHANGED holder

Release == /\ holder # NoTask /\ waiting = {}
           /\ holder' = NoTask /\ UNCHANGED waiting

HandOver(t) == /\ holder # NoTask
               /\ t \in waiting /\ \A u \in waiting : t <= u
               /\ holder' = t /\ waiting' = waiting \ {t}

Delete == holder' = NoTask /\ waiting' = {}

Next == \/ Release \/ Delete
        \/ \E t \in Task : Take(t) \/ Wait(t) \/ GiveUp(t) \/ HandOver(t)

Spec == Init /\ [][Next]_vars
=============================================================================
