-------------------------------- MODULE Tool --------------------------------
(* The conversions and the search of User/src/tool.c: a step calls each on a *)
(* fresh input.  Characters are their ASCII codes, offsets count from 0.     *)
(* Tool_LoopSub is in TaskLoop, Tool_GetBitFor in InputLed; Tool_BubbleSort  *)
(* is called nowhere.                                                        *)
EXTENDS Integers, Sequences

CONSTANTS Datum,     \* byte sequences to convert
          Buffer,    \* byte sequences to search
          Wanted     \* bytes to look for in them

ASSUME ToolAssumption ==
    Datum \subseteq Seq(0..255) /\ Buffer \subseteq Seq(0..255) /\ Wanted \subseteq 0..255

VARIABLES pbSrc, text, back,   \* bytes, their numerals, what is read back
          search               \* a call of Tool_GetByteIndex and its result

toolVars == <<pbSrc, text, back, search>>

(* Definitions whose name ends in _Faulty are plausible slips in the code,   *)
(* used to show that the property below would notice them.                   *)
Numeral_Faulty(n) == IF 48 + n > 58 THEN 48 + n + 7 ELSE 48 + n
Numeral(n) == IF 48 + n > 57 THEN 48 + n + 7 ELSE 48 + n

Tool_HexToStr(src) ==
    [i \in 1..2 * Len(src) |->
        LET b == src[(i + 1) \div 2]
        IN Numeral(IF i % 2 = 1 THEN b \div 16 ELSE b % 16)]

toupper(c) == IF c \in 97..122 THEN c - 32 ELSE c
tolower(c) == IF c \in 65..90 THEN c + 32 ELSE c

Nibble(c) == LET s == (toupper(c) - 48) % 256 IN IF s > 9 THEN s - 7 ELSE s

Tool_StrToHex(src) ==
    [i \in 1..Len(src) \div 2 |->
        (Nibble(src[2 * i - 1]) * 16 + Nibble(src[2 * i])) % 256]

Tool_GetByteIndex(pBuf, start, len, byte) ==
    LET from[index \in Nat] ==
            IF index < len /\ pBuf[index + 1] # byte THEN from[index + 1] ELSE index
    IN from[start]

ToolInit == pbSrc = <<>> /\ text = <<>> /\ back = <<>> /\ search = <<>>

(* HexToStr, and StrToHex on what it wrote in either case.                   *)
Convert == \E bytes \in Datum :
    /\ pbSrc' = bytes
    /\ text' = Tool_HexToStr(bytes)
    /\ back' = <<Tool_StrToHex(text'),
                 Tool_StrToHex([i \in 1..Len(text') |-> tolower(text'[i])])>>
    /\ search' = <<>>

Search == \E buf \in Buffer, byte \in Wanted : \E start, len \in 0..Len(buf) :
    /\ search' = <<buf, start, len, byte, Tool_GetByteIndex(buf, start, len, byte)>>
    /\ pbSrc' = <<>> /\ text' = <<>> /\ back' = <<>>

ToolNext == Convert \/ Search

ToolSpec == ToolInit /\ [][ToolNext]_toolVars

-----------------------------------------------------------------------------
(* Tool_HexToStr writes two numerals per byte, the high one first, and       *)
(* Tool_StrToHex reads any byte back from them, in capitals or not.          *)
HexRoundTrip ==
    /\ \A i \in 1..Len(text) : text[i] \in (48..57) \cup (65..70)
    /\ Len(text) = 2 * Len(pbSrc)
    /\ \A k \in 1..Len(back) : back[k] = pbSrc

(* Tool_GetByteIndex returns the first offset from start on where the byte   *)
(* is, or the end, and start when there is nothing to search.                *)
IndexIsFirst ==
    search = <<>> \/
    LET buf == search[1] start == search[2] len == search[3]
        byte == search[4] index == search[5]
    IN /\ \A i \in start..(index - 1) : buf[i + 1] # byte
       /\ index = (IF start > len THEN start ELSE len) \/ (index < len /\ buf[index + 1] = byte)
       /\ index >= start

(* Both.                                                                     *)
ToolsMeetTheirDocs == HexRoundTrip /\ IndexIsFirst
=============================================================================
