----------------------------- MODULE MsgChannel -----------------------------
(* What MSG_Send, MSG_Receive and MSG_Free promise the tasks, with no word   *)
(* of memory: every task has a bounded first-in first-out channel, a message *)
(* arrives exactly as it was sent, and a task handles one message at a time. *)
EXTENDS Naturals, Sequences

CONSTANTS Task,      \* the receiving tasks
          Message,   \* what a sender can put into a message
          Capacity,  \* how many messages a channel holds
          NoMessage  \* a task that handles nothing

VARIABLES channel,   \* [Task -> Seq(Message)]: posted, not yet received
          handling   \* [Task -> Message \cup {NoMessage}]

vars == <<channel, handling>>

Init == /\ channel = [t \in Task |-> <<>>]
        /\ handling = [t \in Task |-> NoMessage]

Post(t, m) == /\ Len(channel[t]) < Capacity
              /\ channel' = [channel EXCEPT ![t] = Append(@, m)]
              /\ UNCHANGED handling

Receive(t) == /\ handling[t] = NoMessage
              /\ channel[t] # <<>>
              /\ handling' = [handling EXCEPT ![t] = Head(channel[t])]
              /\ channel' = [channel EXCEPT ![t] = Tail(@)]

Done(t) == /\ handling[t] # NoMessage
           /\ handling' = [handling EXCEPT ![t] = NoMessage]
           /\ UNCHANGED channel

Next == \E t \in Task : \/ \E m \in Message : Post(t, m)
                        \/ Receive(t)
                        \/ Done(t)

Spec == Init /\ [][Next]_vars
=============================================================================
