-------------------------------- MODULE Deque --------------------------------
(* What a message queue promises when no task waits on it: a bounded         *)
(* sequence, filled at either end and emptied from the front.                *)
EXTENDS Naturals, Sequences

CONSTANTS Message, Capacity, Ok, QFull, QEmpty

VARIABLES content,  \* the messages in the queue, oldest first
          reply     \* what the last call returned: a message or a code

vars == <<content, reply>>

Init == content = <<>> /\ reply = Ok

Post(m) == /\ Len(content) < Capacity
           /\ content' = Append(content, m)
           /\ reply' = Ok

PostFront(m) == /\ Len(content) < Capacity
                /\ content' = <<m>> \o content
                /\ reply' = Ok

PostFails == Len(content) = Capacity /\ reply' = QFull /\ UNCHANGED content

Accept == /\ content # <<>>
          /\ reply' = Head(content)
          /\ content' = Tail(content)

AcceptFails == content = <<>> /\ reply' = QEmpty /\ UNCHANGED content

Flush == content' = <<>> /\ reply' = Ok

Next == \/ \E m \in Message : Post(m) \/ PostFront(m)
        \/ PostFails \/ Accept \/ AcceptFails \/ Flush

Spec == Init /\ [][Next]_vars
=============================================================================
