------------------------------ MODULE Debouncer ------------------------------
(* What debouncing promises for each key of a board: the key counts as       *)
(* pressed or released only after Accept samples in a row that contradict    *)
(* what it counted as before, and a press that lasts is reported once more.  *)
(* The switch is turned by every press of key 0 and by nothing else.         *)
EXTENDS Integers

CONSTANTS Key, Accept,    \* samples that turn a key
          Long            \* samples in a row after which a press is long

VARIABLES key,     \* [Key -> what it counts as, and since when]
          switch   \* turned by the presses of key 0

vars == <<key, switch>>

(* phase: what it counts as; streak: contrary samples in a row; hold:        *)
(* samples in a row of a press, till it is long; event: 1 when the last      *)
(* sample turned it to pressed, 0 to released, 2 to long, else -1.           *)
Cell(phase, streak, hold, event) ==
    [phase |-> phase, streak |-> streak, hold |-> hold, event |-> event]

Init == key = [k \in Key |-> Cell("up", 0, 0, -1)] /\ switch = FALSE

Same(c) ==
    IF c.phase # "down" THEN Cell(c.phase, 0, c.hold, -1)
    ELSE IF c.hold = Long THEN Cell("long", 0, 0, 2)
    ELSE Cell("down", 0, c.hold + 1, -1)

Contrary(c) ==
    IF c.streak + 1 < Accept THEN Cell(c.phase, c.streak + 1, 0, -1)
    ELSE IF c.phase = "up" THEN Cell("down", 0, Accept, 1)
    ELSE Cell("up", 0, 0, 0)

Sample(pressed) ==
    key' = [k \in Key |-> IF k \in pressed <=> key[k].phase # "up"
                         THEN Same(key[k]) ELSE Contrary(key[k])]

Next == /\ \E pressed \in SUBSET Key : Sample(pressed)
        /\ switch' = IF key'[0].event = 1 THEN ~switch ELSE switch

Spec == Init /\ [][Next]_vars
=============================================================================
