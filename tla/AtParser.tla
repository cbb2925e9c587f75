------------------------------ MODULE AtParser ------------------------------
(* The AT command interpreter on a serial port (AT/src/at_port.c,            *)
(* AT/src/at_cmd.c).  Bytes arrive in reads of any length; all state is      *)
(* static, so a step is one byte.  A byte is a letter or a sign; NUL fills   *)
(* the buffer at first.  The byte behind the buffer belongs to some other    *)
(* object, OTHER at first, which one is the linker's choice; it is part of   *)
(* the model because a line that fills the buffer has its closing NUL stored *)
(* there (at_port.c:118).                                                    *)
EXTENDS Integers, Sequences

CONSTANTS at_cmdLenMax,   \* the size of the line buffer, 128
          Byte,           \* the bytes that may arrive, CR and LF among them
          ExeName,        \* names with an at_exeCmd; the empty name is "AT"
          QueryName,      \* names with an at_queryCmd
          TestName,       \* names with an at_testCmd
          SetupName,      \* names with an at_setupCmd
          EchoName,       \* "E", which sets echoFlag
          DebugName       \* "+DEBUG"

Behind == at_cmdLenMax + 1             \* the index one past the buffer

at_fun == ExeName \cup QueryName \cup TestName \cup SetupName

Digit == {"0", "1"}
Stop == Digit \cup {"CR", "=", "?"}    \* what ends a name, at_cmd.c:75

ASSUME AtAssumption ==
    /\ at_cmdLenMax \in Nat \ {0}
    /\ "LF" \in Byte /\ {"NUL", "OTHER"} \cap Byte = {}
    /\ at_fun \subseteq Seq(Byte \ (Stop \cup {"LF"})) /\ <<>> \in ExeName
    /\ {EchoName, DebugName} \subseteq SetupName /\ EchoName # DebugName

VARIABLES at_state,    \* "Idle" or "Recving"; no byte arrives in another state,
                       \* as no command of the table clears specialAtState
          atHead,      \* atHead[1]: the byte before, while Idle
          at_cmdLine,  \* the line buffer, with what earlier lines left in it,
                       \* and at Behind the byte that follows it in memory
          pCmdLine,    \* where the next byte goes, while Recving
          echoFlag,
          sent         \* what the last byte made the interpreter send

atVars == <<at_state, atHead, at_cmdLine, pCmdLine, echoFlag, sent>>

AtInit == /\ at_state = "Idle" /\ atHead = "NUL" /\ pCmdLine = 1
          /\ at_cmdLine = [i \in 1..Behind |-> IF i = Behind THEN "OTHER" ELSE "NUL"]
          /\ echoFlag = TRUE /\ sent = <<>>

(* Every byte but LF is echoed.                                              *)
Echo(temp) == IF echoFlag /\ temp # "LF" THEN <<temp>> ELSE <<>>

(* Definitions whose name ends in _Faulty are plausible slips in the code,   *)
(* used to show that the properties below would notice them.                 *)

(* Idle: search for the head "AT" (or "at").                                 *)
SearchHead(temp) ==
    /\ at_state = "Idle"
    /\ \/ /\ atHead = "A" /\ temp = "T"
          /\ at_state' = "Recving" /\ pCmdLine' = 1 /\ atHead' = "NUL"
          /\ sent' = Echo(temp)
       \/ /\ ~(atHead = "A" /\ temp = "T")
          /\ atHead' = temp
          /\ sent' = IF temp = "LF" THEN <<"ERROR">> ELSE Echo(temp)
          /\ UNCHANGED <<at_state, pCmdLine>>
    /\ UNCHANGED <<at_cmdLine, echoFlag>>

IsFull_Faulty == pCmdLine > at_cmdLenMax
IsFull == pCmdLine >= at_cmdLenMax

(* Recving: a byte of the line; one that fills the buffer ends it unheard.   *)
StoreByte(temp) ==
    /\ at_state = "Recving" /\ temp # "LF"
    /\ at_cmdLine' = [at_cmdLine EXCEPT ![pCmdLine] = temp]
    /\ at_state' = IF IsFull THEN "Idle" ELSE "Recving"
    /\ pCmdLine' = pCmdLine + 1
    /\ sent' = Echo(temp)
    /\ UNCHANGED <<atHead, echoFlag>>

(* The length of the name that starts a buffer, or -1.                       *)
at_getCmdLen(line) ==
    LET stops == {i \in 1..at_cmdLenMax : line[i] \in Stop}
    IN IF stops = {} THEN -1
       ELSE (CHOOSE i \in stops : \A j \in stops : i <= j) - 1

at_cmdSearch(line) ==
    at_getCmdLen(line) # -1 /\ SubSeq(line, 1, at_getCmdLen(line)) \in at_fun

(* What a set-up command may answer.  +DEBUG compares a number with 100 that *)
(* sscanf read, or did not: either answer.                                   *)
SetupReplies_Faulty(name, para) ==    \* no return after the error
    CASE name = EchoName  -> {IF para \in Digit THEN <<"OK">> ELSE <<"ERROR", "OK">>}
      [] name = DebugName -> {<<"OK">>, <<"ERROR">>}
      [] OTHER            -> {<<"OK">>}

SetupReplies(name, para) ==
    CASE name = EchoName  -> {IF para \in Digit THEN <<"OK">> ELSE <<"ERROR">>}
      [] name = DebugName -> {<<"OK">>, <<"ERROR">>}
      [] OTHER            -> {<<"OK">>}

(* The replies of at_cmdProcess to the buffer.                               *)
at_cmdProcess(line) ==
    LET cmdLen == at_getCmdLen(line)
        name == SubSeq(line, 1, cmdLen)
        p(i) == line[cmdLen + 1 + i]
        Run(names) == IF name \in names THEN {<<"OK">>} ELSE {<<"ERROR">>}
    IN IF ~at_cmdSearch(line) THEN {<<"ERROR">>}
       ELSE IF p(0) = "CR" THEN Run(ExeName)
       ELSE IF p(0) = "?" /\ p(1) = "CR" THEN Run(QueryName)
       ELSE IF p(0) = "=" /\ p(1) = "?" /\ p(2) = "CR" THEN Run(TestName)
       ELSE IF p(0) \in Digit \cup {"="} /\ name \in SetupName
            THEN SetupReplies(name, p(0))
       ELSE {<<"ERROR">>}

(* at_setupCmdE, the one command that changes the interpreter's state.       *)
EchoAfter(line) ==
    IF at_cmdSearch(line) /\ SubSeq(line, 1, at_getCmdLen(line)) = EchoName
       /\ line[at_getCmdLen(line) + 1] \in Digit
    THEN line[at_getCmdLen(line) + 1] = "1" ELSE echoFlag

(* The buffer when LF and, without a check, the closing NUL are stored: the  *)
(* NUL goes to Behind if LF takes the last byte.                             *)
Closed_Faulty == [at_cmdLine EXCEPT ![pCmdLine + 1] = "NUL"]    \* LF is not stored
Closed == [at_cmdLine EXCEPT ![pCmdLine] = "LF", ![pCmdLine + 1] = "NUL"]

(* Recving: LF ends the line, which is processed (at_procTask) at once.      *)
EndLine ==
    /\ at_state = "Recving"
    /\ at_cmdLine' = Closed
    /\ \E reply \in at_cmdProcess(Closed) :
          sent' = (IF echoFlag THEN <<"ENTER", "ENTER">> ELSE <<>>) \o reply
    /\ echoFlag' = EchoAfter(Closed)
    /\ at_state' = "Idle"
    /\ pCmdLine' = pCmdLine + 2    \* past LF, then past NUL
    /\ UNCHANGED atHead

at_recvTask == EndLine \/ \E temp \in Byte : SearchHead(temp) \/ StoreByte(temp)

AtSpec == AtInit /\ [][at_recvTask]_atVars

-----------------------------------------------------------------------------
(* Ranges.  A byte that is received is stored inside the buffer.  The stores *)
(* as a whole do not stay inside it: at_port.c:117-118 steps past LF and     *)
(* stores a NUL with no check, so the index may come to rest two past the    *)
(* end and the byte behind the buffer become NUL.  It becomes nothing else,  *)
(* and no store goes further.                                                *)
AtTypeOK ==
    /\ at_state \in {"Idle", "Recving"}
    /\ atHead \in Byte \cup {"NUL"}
    /\ at_cmdLine \in [1..Behind -> Byte \cup {"NUL", "OTHER"}]
    /\ at_cmdLine[Behind] \in {"NUL", "OTHER"}
    /\ pCmdLine \in 1..(Behind + 1)
    /\ at_state = "Recving" => pCmdLine \in 1..at_cmdLenMax
    /\ echoFlag \in BOOLEAN
    /\ Len(sent) \in 0..3

(* What a line, from its head on to LF, asks for.                            *)
Starts(line, text) ==
    Len(text) <= Len(line) /\ SubSeq(line, 1, Len(text)) = text
Calls(line, names, tail) == \E name \in names : Starts(line, name \o tail)
Sets(line) == {name \in SetupName : \E b \in Digit \cup {"="} :
                  Starts(line, name \o <<b>>) /\ ~Starts(line, name \o <<"=", "?", "CR">>)}

Answers(line) ==
    IF \/ Calls(line, ExeName, <<"CR">>)
       \/ Calls(line, QueryName, <<"?", "CR">>)
       \/ Calls(line, TestName, <<"=", "?", "CR">>)
       \/ Sets(line) \ {EchoName, DebugName} # {}
       \/ \E b \in Digit : Starts(line, EchoName \o <<b>>)
    THEN {<<"OK">>}
    ELSE IF DebugName \in Sets(line) THEN {<<"OK">>, <<"ERROR">>} ELSE {<<"ERROR">>}

(* Every line is answered once, by what it says itself: neither the bytes    *)
(* that longer lines left in the buffer, nor how the line was cut into       *)
(* reads, change the command that is called or the answer (at_cmd.c:93-172). *)
ExecutesLine ==
    [][EndLine => \E reply \in Answers(Append(SubSeq(at_cmdLine, 1, pCmdLine - 1), "LF")) :
                     sent' = (IF echoFlag THEN <<"ENTER", "ENTER">> ELSE <<>>) \o reply]_atVars
=============================================================================
