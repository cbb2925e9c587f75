------------------------------ MODULE InputLed ------------------------------
(* The key debouncing and the blinking LED (Module/src/input_module.c,       *)
(* Module/src/led_module.c).  Task 0 calls both once per iteration, LED      *)
(* first; key 0 switches the blinking off and on.  Every step is one         *)
(* iteration, that is one sample (NeverEarly of TaskLoop: at most one per    *)
(* tick).  A contact may bounce: every sample is free.                       *)
EXTENDS Integers

CONSTANTS Key,             \* the key codes, 0 among them
          inputOffTime,    \* INPUT_RANGE[0]
          inputLongTime,   \* INPUT_RANGE[1]
          BLINK,           \* 500, ticks between two changes of the LED
          Period           \* the periods a loop may measure

HEART_INTERVAL == 1        \* 1000 / OS_TICKS_PER_SEC

ASSUME InputLedAssumption ==
    /\ 0 \in Key /\ BLINK \in Nat \ {0} /\ Period \subseteq Nat
    /\ inputOffTime \in Nat \ {0}
    /\ inputLongTime \in Nat /\ inputOffTime < inputLongTime

VARIABLES Inputs,      \* [Key -> the state and inputTime of its Input_sut]
          r,           \* [Key -> what Input_Handle last returned for it]
          s_state,     \* LED: blinking is switched off
          s_period,    \* LED: ticks since it changed
          LED          \* its pin

inputVars == <<Inputs, r, s_state, s_period, LED>>

State == {"IDLE", "DOWN", "LONG_DOWN", "VIBRATE", "VIBRATE2", "VIBRATE3"}

InputInit == /\ Inputs = [k \in Key |-> [state |-> "IDLE", inputTime |-> 0]]
             /\ r = [k \in Key |-> -1]
             /\ s_state = FALSE /\ s_period = 0 /\ LED = TRUE

(* The result of Input_Handle: the new state and time, and what it returns.  *)
Handled(state, time, ret) ==
    [input |-> [state |-> state, inputTime |-> time], ret |-> ret]

(* The time goes on; when it reaches the limit the state changes.            *)
Timed(in, limit, next, time, ret) ==
    IF in.inputTime + HEART_INTERVAL >= limit
    THEN Handled(next, time, ret)
    ELSE Handled(in.state, in.inputTime + HEART_INTERVAL, -1)

(* Definitions whose name ends in _Faulty are plausible slips in the code,   *)
(* used to show that the properties below would notice them.                 *)
OnPressed_Faulty(in) ==   \* VIBRATE3 goes back to DOWN
    LET time == in.inputTime + HEART_INTERVAL IN
    CASE in.state = "IDLE"      -> Handled("VIBRATE", 0, -1)
      [] in.state = "VIBRATE"   -> Timed(in, inputOffTime, "DOWN", time, 1)
      [] in.state = "DOWN"      -> Timed(in, inputLongTime, "LONG_DOWN", time, 2)
      [] in.state = "VIBRATE2"  -> Handled("DOWN", 0, -1)
      [] in.state = "VIBRATE3"  -> Handled("DOWN", 0, -1)
      [] in.state = "LONG_DOWN" -> Handled("LONG_DOWN", in.inputTime, -1)

OnPressed(in) ==
    LET time == in.inputTime + HEART_INTERVAL IN
    CASE in.state = "IDLE"      -> Handled("VIBRATE", 0, -1)
      [] in.state = "VIBRATE"   -> Timed(in, inputOffTime, "DOWN", time, 1)
      [] in.state = "DOWN"      -> Timed(in, inputLongTime, "LONG_DOWN", time, 2)
      [] in.state = "VIBRATE2"  -> Handled("DOWN", 0, -1)
      [] in.state = "VIBRATE3"  -> Handled("LONG_DOWN", 0, -1)
      [] in.state = "LONG_DOWN" -> Handled("LONG_DOWN", in.inputTime, -1)

OnReleased(in) ==
    CASE in.state = "IDLE"      -> Handled("IDLE", in.inputTime, -1)
      [] in.state = "VIBRATE"   -> Handled("IDLE", 0, -1)
      [] in.state = "DOWN"      -> Handled("VIBRATE2", 0, -1)
      [] in.state = "LONG_DOWN" -> Handled("VIBRATE3", 0, -1)
      [] in.state \in {"VIBRATE2", "VIBRATE3"} ->
            Timed(in, inputOffTime, "IDLE", 0, 0)

(* Input_Handle with mode OPEN, as Input_ModuleInit sets every key: a bit    *)
(* that is 0 is a pressed key.                                               *)
Input_Handle(in, d) == IF d = 0 THEN OnPressed(in) ELSE OnReleased(in)

(* input_Data and Tool_GetBitFor: the level of each key's pin.               *)
Input_ModuleProcess0(bit) ==
    /\ Inputs' = [k \in Key |-> Input_Handle(Inputs[k], bit[k]).input]
    /\ r' = [k \in Key |-> Input_Handle(Inputs[k], bit[k]).ret]
    /\ s_state' = IF r'[0] = 1 THEN ~s_state ELSE s_state   \* LED_ModuleOnOff

(* s_period+=period, in 16 bits.                                             *)
Elapsed(period) == (s_period + period) % 65536
Blinks_Faulty(period) == Elapsed(period) > BLINK
Blinks(period) == Elapsed(period) >= BLINK

LED_ModuleProcess0(period) ==
    IF s_state
    THEN UNCHANGED <<s_period, LED>>
    ELSE /\ s_period' = IF Blinks(period) THEN 0 ELSE Elapsed(period)
         /\ LED' = IF Blinks(period) THEN ~LED ELSE LED

(* The part of Module_Process(0, period) that concerns these two modules.    *)
InputNext == \E period \in Period, bit \in [Key -> {0, 1}] :
                /\ LED_ModuleProcess0(period)
                /\ Input_ModuleProcess0(bit)

InputSpec == InputInit /\ [][InputNext]_inputVars

-----------------------------------------------------------------------------
(* Ranges; the time of a key never runs past the limit of its state.         *)
InputTypeOK ==
    /\ Inputs \in [Key -> [state : State, inputTime : 0..inputLongTime]]
    /\ \A k \in Key :
          Inputs[k].state \in {"VIBRATE", "VIBRATE2", "VIBRATE3"} =>
             Inputs[k].inputTime < inputOffTime
    /\ \A k \in Key : Inputs[k].state = "DOWN" => Inputs[k].inputTime < inputLongTime
    /\ r \in [Key -> {-1, 0, 1, 2}]
    /\ s_state \in BOOLEAN /\ s_period \in 0..(BLINK - 1) /\ LED \in BOOLEAN

Phase(in) == CASE in.state \in {"IDLE", "VIBRATE"} -> "up"
               [] in.state \in {"DOWN", "VIBRATE2"} -> "down"
               [] OTHER -> "long"
Streak(in) == IF in.state \in {"VIBRATE", "VIBRATE2", "VIBRATE3"}
              THEN in.inputTime + 1 ELSE 0
Hold(in) == IF in.state = "DOWN" THEN in.inputTime + 1 ELSE 0

(* How Debouncer sees a key.                                                 *)
Seen(in, ret) == [phase |-> Phase(in), streak |-> Streak(in), hold |-> Hold(in),
                  event |-> ret]

Panel == INSTANCE Debouncer WITH
            Accept <- inputOffTime + 1,
            Long   <- inputLongTime,
            switch <- s_state,
            key    <- [k \in Key |-> Seen(Inputs[k], r[k])]

(* Six states and one shared timer per key debounce it: whatever the contact *)
(* does, a key turns only after inputOffTime+1 contrary samples in a row, on *)
(* either edge and in a long press too; a press and its long form are each   *)
(* reported once, and key 0 turns the LED's switch once per press.           *)
ImplementsDebouncer == Panel!Spec
=============================================================================
