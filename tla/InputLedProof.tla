---------------------------- MODULE InputLedProof ----------------------------
(* Theorems about InputLed, for any keys, times and periods: its types, and  *)
(* that six states and one timer per key implement Debouncer.                *)
EXTENDS InputLed, TLAPS

(* What InputTypeOK says of one key.                                         *)
KeyOK(in) ==
    /\ in \in [state : State, inputTime : 0..inputLongTime]
    /\ in.state \in {"VIBRATE", "VIBRATE2", "VIBRATE3"} => in.inputTime < inputOffTime
    /\ in.state = "DOWN" => in.inputTime < inputLongTime

(* One sample keeps a key in its ranges, whatever the pin says: none of the  *)
(* branches of Input_Handle lets the shared timer pass the limit of the      *)
(* state it leads to.                                                        *)
LEMMA HandleType ==
    ASSUME NEW in, KeyOK(in), NEW d \in {0, 1}
    PROVE  KeyOK(Input_Handle(in, d).input) /\ Input_Handle(in, d).ret \in {-1, 0, 1, 2}
<1> USE InputLedAssumption DEF KeyOK, State, Handled, Timed, HEART_INTERVAL
<1>1. CASE d = 0
  <2>0. Input_Handle(in, d) = OnPressed(in)
    BY <1>1 DEF Input_Handle
  <2>1. CASE in.state = "IDLE"       BY <2>0, <2>1 DEF OnPressed
  <2>2. CASE in.state = "VIBRATE"    BY <2>0, <2>2 DEF OnPressed
  <2>3. CASE in.state = "DOWN"       BY <2>0, <2>3 DEF OnPressed
  <2>4. CASE in.state = "VIBRATE2"   BY <2>0, <2>4 DEF OnPressed
  <2>5. CASE in.state = "VIBRATE3"   BY <2>0, <2>5 DEF OnPressed
  <2>6. CASE in.state = "LONG_DOWN"  BY <2>0, <2>6 DEF OnPressed
  <2> QED BY <2>1, <2>2, <2>3, <2>4, <2>5, <2>6
<1>2. CASE d = 1
  <2>0. Input_Handle(in, d) = OnReleased(in)
    BY <1>2 DEF Input_Handle
  <2>1. CASE in.state = "IDLE"       BY <2>0, <2>1 DEF OnReleased
  <2>2. CASE in.state = "VIBRATE"    BY <2>0, <2>2 DEF OnReleased
  <2>3. CASE in.state = "DOWN"       BY <2>0, <2>3 DEF OnReleased
  <2>4. CASE in.state = "VIBRATE2"   BY <2>0, <2>4 DEF OnReleased
  <2>5. CASE in.state = "VIBRATE3"   BY <2>0, <2>5 DEF OnReleased
  <2>6. CASE in.state = "LONG_DOWN"  BY <2>0, <2>6 DEF OnReleased
  <2> QED BY <2>1, <2>2, <2>3, <2>4, <2>5, <2>6
<1> QED BY <1>1, <1>2

(* What Debouncer makes of each of the six states.                           *)
LEMMA SeenCell ==
    ASSUME NEW in, NEW ret
    PROVE  /\ Seen(in, ret) = Panel!Cell(Phase(in), Streak(in), Hold(in), ret)
           /\ in.state = "IDLE" =>
                 Phase(in) = "up" /\ Streak(in) = 0 /\ Hold(in) = 0
           /\ in.state = "VIBRATE" =>
                 Phase(in) = "up" /\ Streak(in) = in.inputTime + 1 /\ Hold(in) = 0
           /\ in.state = "DOWN" =>
                 Phase(in) = "down" /\ Streak(in) = 0 /\ Hold(in) = in.inputTime + 1
           /\ in.state = "VIBRATE2" =>
                 Phase(in) = "down" /\ Streak(in) = in.inputTime + 1 /\ Hold(in) = 0
           /\ in.state = "VIBRATE3" =>
                 Phase(in) = "long" /\ Streak(in) = in.inputTime + 1 /\ Hold(in) = 0
           /\ in.state = "LONG_DOWN" =>
                 Phase(in) = "long" /\ Streak(in) = 0 /\ Hold(in) = 0
BY DEF Seen, Panel!Cell, Phase, Streak, Hold

LEMMA CellFields ==
    ASSUME NEW phase, NEW streak, NEW hold, NEW event
    PROVE  LET c == Panel!Cell(phase, streak, hold, event)
           IN  c.phase = phase /\ c.streak = streak /\ c.hold = hold /\ c.event = event
BY DEF Panel!Cell

LEMMA SameCell ==
    ASSUME NEW phase, NEW streak, NEW hold, NEW event
    PROVE  Panel!Same(Panel!Cell(phase, streak, hold, event))
             = IF phase # "down" THEN Panel!Cell(phase, 0, hold, -1)
               ELSE IF hold = inputLongTime THEN Panel!Cell("long", 0, 0, 2)
               ELSE Panel!Cell("down", 0, hold + 1, -1)
BY CellFields DEF Panel!Same

LEMMA ContraryCell ==
    ASSUME NEW phase, NEW streak, NEW hold, NEW event
    PROVE  Panel!Contrary(Panel!Cell(phase, streak, hold, event))
             = IF streak + 1 < inputOffTime + 1 THEN Panel!Cell(phase, streak + 1, 0, -1)
               ELSE IF phase = "up" THEN Panel!Cell("down", 0, inputOffTime + 1, 1)
               ELSE Panel!Cell("up", 0, 0, 0)
BY CellFields DEF Panel!Contrary

(* One sample does to a key what Debouncer says: one case for each state and *)
(* level, two when the timer may run out.                                    *)
LEMMA HandleSimulates ==
    ASSUME NEW in, KeyOK(in), NEW ret, NEW d \in {0, 1}
    PROVE  Seen(Input_Handle(in, d).input, Input_Handle(in, d).ret)
             = IF d = 0 <=> Phase(in) # "up" THEN Panel!Same(Seen(in, ret))
                                             ELSE Panel!Contrary(Seen(in, ret))
<1> DEFINE out == Input_Handle(in, d)
           time == in.inputTime
<1>0. /\ in.state \in State /\ time \in Nat /\ inputOffTime \in Nat /\ inputLongTime \in Nat
      /\ 0 < inputOffTime /\ inputOffTime < inputLongTime
      /\ in.state \in {"VIBRATE", "VIBRATE2", "VIBRATE3"} => time < inputOffTime
      /\ in.state = "DOWN" => time < inputLongTime
  BY InputLedAssumption DEF KeyOK
<1>1. CASE d = 0 /\ in.state = "IDLE"
  <2>1. out.input.state = "VIBRATE" /\ out.input.inputTime = 0 /\ out.ret = -1
    BY <1>0, <1>1 DEF Input_Handle, OnPressed, Handled, Timed, HEART_INTERVAL
  <2>2. Seen(out.input, out.ret) = Panel!Cell("up", 0 + 1, 0, -1)
    BY <2>1, SeenCell
  <2>3. Seen(in, ret) = Panel!Cell("up", 0, 0, ret) /\ Phase(in) = "up"
    BY <1>1, SeenCell
  <2>4. Panel!Contrary(Seen(in, ret)) = Seen(out.input, out.ret)
    BY <1>0, <1>1, <2>2, <2>3, ContraryCell
  <2> QED BY <1>1, <2>3, <2>4
<1>2. CASE d = 0 /\ in.state = "VIBRATE" /\ time + 1 >= inputOffTime
  <2>1. out.input.state = "DOWN" /\ out.input.inputTime = time + 1 /\ out.ret = 1
    BY <1>0, <1>2 DEF Input_Handle, OnPressed, Handled, Timed, HEART_INTERVAL
  <2>2. Seen(out.input, out.ret) = Panel!Cell("down", 0, time + 1 + 1, 1)
    BY <2>1, SeenCell
  <2>3. Seen(in, ret) = Panel!Cell("up", time + 1, 0, ret) /\ Phase(in) = "up"
    BY <1>2, SeenCell
  <2>4. Panel!Contrary(Seen(in, ret)) = Seen(out.input, out.ret)
    BY <1>0, <1>2, <2>2, <2>3, ContraryCell
  <2> QED BY <1>2, <2>3, <2>4
<1>3. CASE d = 0 /\ in.state = "VIBRATE" /\ time + 1 < inputOffTime
  <2>1. out.input.state = "VIBRATE" /\ out.input.inputTime = time + 1 /\ out.ret = -1
    BY <1>0, <1>3 DEF Input_Handle, OnPressed, Handled, Timed, HEART_INTERVAL
  <2>2. Seen(out.input, out.ret) = Panel!Cell("up", time + 1 + 1, 0, -1)
    BY <2>1, SeenCell
  <2>3. Seen(in, ret) = Panel!Cell("up", time + 1, 0, ret) /\ Phase(in) = "up"
    BY <1>3, SeenCell
  <2>4. Panel!Contrary(Seen(in, ret)) = Seen(out.input, out.ret)
    BY <1>0, <1>3, <2>2, <2>3, ContraryCell
  <2> QED BY <1>3, <2>3, <2>4
<1>4. CASE d = 0 /\ in.state = "DOWN" /\ time + 1 >= inputLongTime
  <2>1. out.input.state = "LONG_DOWN" /\ out.input.inputTime = time + 1 /\ out.ret = 2
    BY <1>0, <1>4 DEF Input_Handle, OnPressed, Handled, Timed, HEART_INTERVAL
  <2>2. Seen(out.input, out.ret) = Panel!Cell("long", 0, 0, 2)
    BY <2>1, SeenCell
  <2>3. Seen(in, ret) = Panel!Cell("down", 0, time + 1, ret) /\ Phase(in) = "down"
    BY <1>4, SeenCell
  <2>4. Panel!Same(Seen(in, ret)) = Seen(out.input, out.ret)
    BY <1>0, <1>4, <2>2, <2>3, SameCell
  <2> QED BY <1>4, <2>3, <2>4
<1>5. CASE d = 0 /\ in.state = "DOWN" /\ time + 1 < inputLongTime
  <2>1. out.input.state = "DOWN" /\ out.input.inputTime = time + 1 /\ out.ret = -1
    BY <1>0, <1>5 DEF Input_Handle, OnPressed, Handled, Timed, HEART_INTERVAL
  <2>2. Seen(out.input, out.ret) = Panel!Cell("down", 0, time + 1 + 1, -1)
    BY <2>1, SeenCell
  <2>3. Seen(in, ret) = Panel!Cell("down", 0, time + 1, ret) /\ Phase(in) = "down"
    BY <1>5, SeenCell
  <2>4. Panel!Same(Seen(in, ret)) = Seen(out.input, out.ret)
    BY <1>0, <1>5, <2>2, <2>3, SameCell
  <2> QED BY <1>5, <2>3, <2>4
<1>6. CASE d = 0 /\ in.state = "VIBRATE2"
  <2>1. out.input.state = "DOWN" /\ out.input.inputTime = 0 /\ out.ret = -1
    BY <1>0, <1>6 DEF Input_Handle, OnPressed, Handled, Timed, HEART_INTERVAL
  <2>2. Seen(out.input, out.ret) = Panel!Cell("down", 0, 0 + 1, -1)
    BY <2>1, SeenCell
  <2>3. Seen(in, ret) = Panel!Cell("down", time + 1, 0, ret) /\ Phase(in) = "down"
    BY <1>6, SeenCell
  <2>4. Panel!Same(Seen(in, ret)) = Seen(out.input, out.ret)
    BY <1>0, <1>6, <2>2, <2>3, SameCell
  <2> QED BY <1>6, <2>3, <2>4
<1>7. CASE d = 0 /\ in.state = "VIBRATE3"
  <2>1. out.input.state = "LONG_DOWN" /\ out.input.inputTime = 0 /\ out.ret = -1
    BY <1>0, <1>7 DEF Input_Handle, OnPressed, Handled, Timed, HEART_INTERVAL
  <2>2. Seen(out.input, out.ret) = Panel!Cell("long", 0, 0, -1)
    BY <2>1, SeenCell
  <2>3. Seen(in, ret) = Panel!Cell("long", time + 1, 0, ret) /\ Phase(in) = "long"
    BY <1>7, SeenCell
  <2>4. Panel!Same(Seen(in, ret)) = Seen(out.input, out.ret)
    BY <1>0, <1>7, <2>2, <2>3, SameCell
  <2> QED BY <1>7, <2>3, <2>4
<1>8. CASE d = 0 /\ in.state = "LONG_DOWN"
  <2>1. out.input.state = "LONG_DOWN" /\ out.input.inputTime = time /\ out.ret = -1
    BY <1>0, <1>8 DEF Input_Handle, OnPressed, Handled, Timed, HEART_INTERVAL
  <2>2. Seen(out.input, out.ret) = Panel!Cell("long", 0, 0, -1)
    BY <2>1, SeenCell
  <2>3. Seen(in, ret) = Panel!Cell("long", 0, 0, ret) /\ Phase(in) = "long"
    BY <1>8, SeenCell
  <2>4. Panel!Same(Seen(in, ret)) = Seen(out.input, out.ret)
    BY <1>0, <1>8, <2>2, <2>3, SameCell
  <2> QED BY <1>8, <2>3, <2>4
<1>9. CASE d = 1 /\ in.state = "IDLE"
  <2>1. out.input.state = "IDLE" /\ out.input.inputTime = time /\ out.ret = -1
    BY <1>0, <1>9 DEF Input_Handle, OnReleased, Handled, Timed, HEART_INTERVAL
  <2>2. Seen(out.input, out.ret) = Panel!Cell("up", 0, 0, -1)
    BY <2>1, SeenCell
  <2>3. Seen(in, ret) = Panel!Cell("up", 0, 0, ret) /\ Phase(in) = "up"
    BY <1>9, SeenCell
  <2>4. Panel!Same(Seen(in, ret)) = Seen(out.input, out.ret)
    BY <1>0, <1>9, <2>2, <2>3, SameCell
  <2> QED BY <1>9, <2>3, <2>4
<1>10. CASE d = 1 /\ in.state = "VIBRATE"
  <2>1. out.input.state = "IDLE" /\ out.input.inputTime = 0 /\ out.ret = -1
    BY <1>0, <1>10 DEF Input_Handle, OnReleased, Handled, Timed, HEART_INTERVAL
  <2>2. Seen(out.input, out.ret) = Panel!Cell("up", 0, 0, -1)
    BY <2>1, SeenCell
  <2>3. Seen(in, ret) = Panel!Cell("up", time + 1, 0, ret) /\ Phase(in) = "up"
    BY <1>10, SeenCell
  <2>4. Panel!Same(Seen(in, ret)) = Seen(out.input, out.ret)
    BY <1>0, <1>10, <2>2, <2>3, SameCell
  <2> QED BY <1>10, <2>3, <2>4
<1>11. CASE d = 1 /\ in.state = "DOWN"
  <2>1. out.input.state = "VIBRATE2" /\ out.input.inputTime = 0 /\ out.ret = -1
    BY <1>0, <1>11 DEF Input_Handle, OnReleased, Handled, Timed, HEART_INTERVAL
  <2>2. Seen(out.input, out.ret) = Panel!Cell("down", 0 + 1, 0, -1)
    BY <2>1, SeenCell
  <2>3. Seen(in, ret) = Panel!Cell("down", 0, time + 1, ret) /\ Phase(in) = "down"
    BY <1>11, SeenCell
  <2>4. Panel!Contrary(Seen(in, ret)) = Seen(out.input, out.ret)
    BY <1>0, <1>11, <2>2, <2>3, ContraryCell
  <2> QED BY <1>11, <2>3, <2>4
<1>12. CASE d = 1 /\ in.state = "LONG_DOWN"
  <2>1. out.input.state = "VIBRATE3" /\ out.input.inputTime = 0 /\ out.ret = -1
    BY <1>0, <1>12 DEF Input_Handle, OnReleased, Handled, Timed, HEART_INTERVAL
  <2>2. Seen(out.input, out.ret) = Panel!Cell("long", 0 + 1, 0, -1)
    BY <2>1, SeenCell
  <2>3. Seen(in, ret) = Panel!Cell("long", 0, 0, ret) /\ Phase(in) = "long"
    BY <1>12, SeenCell
  <2>4. Panel!Contrary(Seen(in, ret)) = Seen(out.input, out.ret)
    BY <1>0, <1>12, <2>2, <2>3, ContraryCell
  <2> QED BY <1>12, <2>3, <2>4
<1>13. CASE d = 1 /\ in.state = "VIBRATE2" /\ time + 1 >= inputOffTime
  <2>1. out.input.state = "IDLE" /\ out.input.inputTime = 0 /\ out.ret = 0
    BY <1>0, <1>13 DEF Input_Handle, OnReleased, Handled, Timed, HEART_INTERVAL
  <2>2. Seen(out.input, out.ret) = Panel!Cell("up", 0, 0, 0)
    BY <2>1, SeenCell
  <2>3. Seen(in, ret) = Panel!Cell("down", time + 1, 0, ret) /\ Phase(in) = "down"
    BY <1>13, SeenCell
  <2>4. Panel!Contrary(Seen(in, ret)) = Seen(out.input, out.ret)
    BY <1>0, <1>13, <2>2, <2>3, ContraryCell
  <2> QED BY <1>13, <2>3, <2>4
<1>14. CASE d = 1 /\ in.state = "VIBRATE2" /\ time + 1 < inputOffTime
  <2>1. out.input.state = "VIBRATE2" /\ out.input.inputTime = time + 1 /\ out.ret = -1
    BY <1>0, <1>14 DEF Input_Handle, OnReleased, Handled, Timed, HEART_INTERVAL
  <2>2. Seen(out.input, out.ret) = Panel!Cell("down", time + 1 + 1, 0, -1)
    BY <2>1, SeenCell
  <2>3. Seen(in, ret) = Panel!Cell("down", time + 1, 0, ret) /\ Phase(in) = "down"
    BY <1>14, SeenCell
  <2>4. Panel!Contrary(Seen(in, ret)) = Seen(out.input, out.ret)
    BY <1>0, <1>14, <2>2, <2>3, ContraryCell
  <2> QED BY <1>14, <2>3, <2>4
<1>15. CASE d = 1 /\ in.state = "VIBRATE3" /\ time + 1 >= inputOffTime
  <2>1. out.input.state = "IDLE" /\ out.input.inputTime = 0 /\ out.ret = 0
    BY <1>0, <1>15 DEF Input_Handle, OnReleased, Handled, Timed, HEART_INTERVAL
  <2>2. Seen(out.input, out.ret) = Panel!Cell("up", 0, 0, 0)
    BY <2>1, SeenCell
  <2>3. Seen(in, ret) = Panel!Cell("long", time + 1, 0, ret) /\ Phase(in) = "long"
    BY <1>15, SeenCell
  <2>4. Panel!Contrary(Seen(in, ret)) = Seen(out.input, out.ret)
    BY <1>0, <1>15, <2>2, <2>3, ContraryCell
  <2> QED BY <1>15, <2>3, <2>4
<1>16. CASE d = 1 /\ in.state = "VIBRATE3" /\ time + 1 < inputOffTime
  <2>1. out.input.state = "VIBRATE3" /\ out.input.inputTime = time + 1 /\ out.ret = -1
    BY <1>0, <1>16 DEF Input_Handle, OnReleased, Handled, Timed, HEART_INTERVAL
  <2>2. Seen(out.input, out.ret) = Panel!Cell("long", time + 1 + 1, 0, -1)
    BY <2>1, SeenCell
  <2>3. Seen(in, ret) = Panel!Cell("long", time + 1, 0, ret) /\ Phase(in) = "long"
    BY <1>16, SeenCell
  <2>4. Panel!Contrary(Seen(in, ret)) = Seen(out.input, out.ret)
    BY <1>0, <1>16, <2>2, <2>3, ContraryCell
  <2> QED BY <1>16, <2>3, <2>4
<1> QED BY <1>0, <1>1, <1>2, <1>3, <1>4, <1>5, <1>6, <1>7, <1>8, <1>9, <1>10, <1>11, <1>12, <1>13, <1>14, <1>15, <1>16 DEF State

LEMMA TypeSplit ==
    InputTypeOK <=> /\ Inputs \in [Key -> [state : State, inputTime : 0..inputLongTime]]
                    /\ \A k \in Key : KeyOK(Inputs[k])
                    /\ r \in [Key -> {-1, 0, 1, 2}]
                    /\ s_state \in BOOLEAN /\ s_period \in 0..(BLINK - 1)
                    /\ LED \in BOOLEAN
BY DEF InputTypeOK, KeyOK

LEMMA InitType == InputInit => InputTypeOK
<1> SUFFICES ASSUME InputInit PROVE InputTypeOK
    OBVIOUS
<1>1. Inputs = [k \in Key |-> [state |-> "IDLE", inputTime |-> 0]]
  BY DEF InputInit
<1>2. [state |-> "IDLE", inputTime |-> 0] \in [state : State, inputTime : 0..inputLongTime]
  BY InputLedAssumption DEF State
<1>3. Inputs \in [Key -> [state : State, inputTime : 0..inputLongTime]]
  BY <1>1, <1>2
<1>4. \A k \in Key : KeyOK(Inputs[k])
  BY <1>1, <1>2 DEF KeyOK
<1>5. r \in [Key -> {-1, 0, 1, 2}]
  BY DEF InputInit
<1>6. s_state \in BOOLEAN /\ s_period \in 0..(BLINK - 1) /\ LED \in BOOLEAN
  <2>1. s_state = FALSE /\ s_period = 0 /\ LED = TRUE
    BY DEF InputInit
  <2>2. 0 \in 0..(BLINK - 1)
    BY InputLedAssumption
  <2> QED BY <2>1, <2>2
<1> QED BY <1>3, <1>4, <1>5, <1>6, TypeSplit

(* The states and timers stay in range, and the LED's timer below BLINK.     *)
LEMMA StepType == InputTypeOK /\ [InputNext]_inputVars => InputTypeOK'
<1> SUFFICES ASSUME InputTypeOK, [InputNext]_inputVars PROVE InputTypeOK'
    OBVIOUS
<1>1. CASE UNCHANGED inputVars
  BY <1>1 DEF InputTypeOK, inputVars
<1>2. CASE InputNext
  <2>1. PICK p \in Period, bit \in [Key -> {0, 1}] :
           LED_ModuleProcess0(p) /\ Input_ModuleProcess0(bit)
    BY <1>2 DEF InputNext
  <2>2. \A k \in Key : /\ KeyOK(Inputs[k]) /\ bit[k] \in {0, 1}
    BY <2>1, TypeSplit
  <2>3. \A k \in Key : /\ KeyOK(Input_Handle(Inputs[k], bit[k]).input)
                       /\ Input_Handle(Inputs[k], bit[k]).ret \in {-1, 0, 1, 2}
    BY <2>2, HandleType
  <2>4. /\ Inputs' = [k \in Key |-> Input_Handle(Inputs[k], bit[k]).input]
        /\ r' = [k \in Key |-> Input_Handle(Inputs[k], bit[k]).ret]
        /\ s_state' = IF r'[0] = 1 THEN ~s_state ELSE s_state
    BY <2>1 DEF Input_ModuleProcess0
  <2>5. /\ Inputs' \in [Key -> [state : State, inputTime : 0..inputLongTime]]
        /\ \A k \in Key : KeyOK(Inputs'[k])
    BY <2>3, <2>4 DEF KeyOK
  <2>6. r' \in [Key -> {-1, 0, 1, 2}]
    BY <2>3, <2>4
  <2>7. s_state' \in BOOLEAN
    <3>1. s_state \in BOOLEAN
      BY DEF InputTypeOK
    <3> QED BY <2>4, <3>1
  <2>8. s_period' \in 0..(BLINK - 1) /\ LED' \in BOOLEAN
    <3>1. s_period \in 0..(BLINK - 1) /\ LED \in BOOLEAN
      BY DEF InputTypeOK
    <3>2. CASE s_state
      BY <3>1, <3>2, <2>1 DEF LED_ModuleProcess0
    <3>3. CASE ~s_state
      <4>1. Elapsed(p) \in Nat
        BY <3>1, <2>1, InputLedAssumption DEF Elapsed
      <4>2. /\ s_period' = IF Blinks(p) THEN 0 ELSE Elapsed(p)
            /\ LED' = IF Blinks(p) THEN ~LED ELSE LED
        BY <3>3, <2>1 DEF LED_ModuleProcess0
      <4>3. s_period' \in 0..(BLINK - 1)
        BY <4>1, <4>2, InputLedAssumption DEF Blinks
      <4> QED BY <3>1, <4>2, <4>3
    <3> QED BY <3>2, <3>3
  <2> QED BY <2>5, <2>6, <2>7, <2>8 DEF InputTypeOK, KeyOK
<1> QED BY <1>1, <1>2

(* Every reachable state of the keys and the LED has its type: the time of a *)
(* key never runs past the limit of its state (input_module.c:28).           *)
THEOREM InputTypeCorrect == InputSpec => []InputTypeOK
BY InitType, StepType, PTL DEF InputSpec

-----------------------------------------------------------------------------
LEMMA InitSeen == InputInit => Panel!Init
<1> SUFFICES ASSUME InputInit PROVE Panel!Init
    OBVIOUS
<1> DEFINE in == [state |-> "IDLE", inputTime |-> 0]
<1>2. Seen(in, -1) = Panel!Cell("up", 0, 0, -1)
  BY SeenCell
<1>3. \A k \in Key : Inputs[k] = in /\ r[k] = -1
  BY DEF InputInit
<1>4. [k \in Key |-> Seen(Inputs[k], r[k])] = [k \in Key |-> Panel!Cell("up", 0, 0, -1)]
  BY <1>2, <1>3
<1> QED BY <1>4 DEF Panel!Init, InputInit

LEMMA StepSeen ==
    InputTypeOK /\ [InputNext]_inputVars => [Panel!Next]_(Panel!vars)
<1> SUFFICES ASSUME InputTypeOK, [InputNext]_inputVars
             PROVE  [Panel!Next]_(Panel!vars)
    OBVIOUS
<1>1. CASE UNCHANGED inputVars
  BY <1>1 DEF inputVars, Panel!vars
<1>2. CASE InputNext
  <2>1. PICK p \in Period, bit \in [Key -> {0, 1}] :
           LED_ModuleProcess0(p) /\ Input_ModuleProcess0(bit)
    BY <1>2 DEF InputNext
  <2> DEFINE pressed == {k \in Key : bit[k] = 0}
             before == [k \in Key |-> Seen(Inputs[k], r[k])]
             after == [k \in Key |-> Seen(Inputs'[k], r'[k])]
  <2>2. /\ Inputs' = [k \in Key |-> Input_Handle(Inputs[k], bit[k]).input]
        /\ r' = [k \in Key |-> Input_Handle(Inputs[k], bit[k]).ret]
        /\ s_state' = IF r'[0] = 1 THEN ~s_state ELSE s_state
    BY <2>1 DEF Input_ModuleProcess0
  <2>3. ASSUME NEW k \in Key
        PROVE  after[k] = IF k \in pressed <=> before[k].phase # "up"
                          THEN Panel!Same(before[k]) ELSE Panel!Contrary(before[k])
    <3>1. KeyOK(Inputs[k]) /\ bit[k] \in {0, 1}
      BY <2>1, TypeSplit
    <3>2. after[k] = Seen(Input_Handle(Inputs[k], bit[k]).input,
                          Input_Handle(Inputs[k], bit[k]).ret)
      BY <2>2
    <3>3. before[k] = Seen(Inputs[k], r[k]) /\ before[k].phase = Phase(Inputs[k])
      BY DEF Seen
    <3>4. k \in pressed <=> bit[k] = 0
      OBVIOUS
    <3> QED BY <3>1, <3>2, <3>3, <3>4, HandleSimulates
  <2>4. after = [k \in Key |-> IF k \in pressed <=> before[k].phase # "up"
                               THEN Panel!Same(before[k]) ELSE Panel!Contrary(before[k])]
    BY <2>3
  <2>5. Panel!Sample(pressed)
    BY <2>4 DEF Panel!Sample, Seen
  <2>6. after[0].event = r'[0]
    BY InputLedAssumption DEF Seen
  <2>7. s_state' = IF after[0].event = 1 THEN ~s_state ELSE s_state
    BY <2>2, <2>6
  <2> QED BY <2>5, <2>7 DEF Panel!Next, Seen
<1> QED BY <1>1, <1>2

(* The keys and the LED's switch implement the debounced panel, for any      *)
(* number of keys, any limits and any bounce of the contacts.                *)
THEOREM DebouncerImplemented == InputSpec => ImplementsDebouncer
<1> QED BY InputTypeCorrect, InitSeen, StepSeen, PTL
        DEF InputSpec, ImplementsDebouncer, Panel!Spec
=============================================================================
