------------------------------- MODULE MCParts -------------------------------
(* Small instances of six parts that share no state: two kernel objects that *)
(* need no scheduler, the mutex, the keys and the LED, the AT interpreter    *)
(* and the tool functions.  A behaviour steps one of them, which `part`      *)
(* names, so that their state spaces add up instead of multiplying.          *)
EXTENDS OsMem, OsQueue, InputLed, Mutex, AtParser, Tool

VARIABLE part

Init == /\ MemInit /\ QInit /\ InputInit /\ MutexInit /\ AtInit /\ ToolInit
        /\ part \in {"mem", "queue", "input", "mutex", "at", "tool"}

vars == <<memVars, qVars, inputVars, mutexVars, atVars, toolVars, part>>

Mem   == part = "mem"   /\ MemNext   /\ UNCHANGED <<qVars, inputVars, mutexVars, atVars, toolVars>>
Que   == part = "queue" /\ QNext     /\ UNCHANGED <<memVars, inputVars, mutexVars, atVars, toolVars>>
Input == part = "input" /\ InputNext /\ UNCHANGED <<memVars, qVars, mutexVars, atVars, toolVars>>
Mut   == part = "mutex" /\ MutexNext /\ UNCHANGED <<memVars, qVars, inputVars, atVars, toolVars>>
At    == part = "at" /\ at_recvTask  /\ UNCHANGED <<memVars, qVars, inputVars, mutexVars, toolVars>>
Tools == part = "tool" /\ ToolNext   /\ UNCHANGED <<memVars, qVars, inputVars, mutexVars, atVars>>

Next == UNCHANGED part /\ (Mem \/ Que \/ Input \/ Mut \/ At \/ Tools)

Spec == Init /\ [][Next]_vars

-----------------------------------------------------------------------------
(* Values of the constants.  In AtParser <<>> is "AT" itself, <<"E">> is     *)
(* "E", <<"A">> stands for "+DEBUG", <<"T">> for "+RST" and "+GMR" and       *)
(* <<"E", "E">> for "+GSLP" and "+IPR".                                      *)
MCExe   == {<<>>, <<"T">>}
MCQuery == {<<"A">>}
MCSetup == {<<"E">>, <<"A">>, <<"E", "E">>}
MCEcho  == <<"E">>
MCDebug == <<"A">>

MCDatum  == {<<b, c>> : b \in 0..255, c \in {0, 9, 10, 255}}
MCBuffer == UNION {[1..n -> 0..1] : n \in 0..3}
=============================================================================
