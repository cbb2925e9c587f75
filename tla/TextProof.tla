------------------------------ MODULE TextProof ------------------------------
(* Theorems about the parts that read and write text: the AT interpreter, for*)
(* any buffer, bytes and command names, and the functions of tool.c, for any *)
(* inputs.                                                                   *)
EXTENDS AtParser, Tool, TLAPS, FiniteSetTheorems, SequenceTheorems

(* The least of a nonempty set of natural numbers is there.                  *)
LEMMA LeastExists ==
    ASSUME NEW S, S \subseteq Nat, S # {}
    PROVE  \E m \in S : \A q \in S : m <= q
<1> DEFINE Below(n) == 0..(n - 1)
           T == {Below(n) : n \in S}
           R == StrictSubsetOrdering(Nat)
<1>1. T \subseteq FiniteSubsetsOf(Nat) /\ T # {}
  <2>1. ASSUME NEW n \in S PROVE IsFiniteSet(Below(n)) /\ Below(n) \subseteq Nat
    BY FS_Interval
  <2> QED BY <2>1 DEF FiniteSubsetsOf
<1>2. PICK x \in T : \A y \in T : ~(<<y, x>> \in R)
  <2> HIDE DEF T, R
  <2>1. IsWellFoundedOn(StrictSubsetOrdering(Nat), FiniteSubsetsOf(Nat))
    BY FS_StrictSubsetOrderingWellFounded
  <2> QED BY <2>1, <1>1, WFMin DEF R
<1>3. PICK m \in S : x = Below(m)
  OBVIOUS
<1>4. ASSUME NEW q \in S, q < m PROVE FALSE
  <2>1. q \in Below(m) /\ q \notin Below(q) /\ Below(q) \subseteq Below(m)
    BY <1>4
  <2>2. <<Below(q), Below(m)>> \in R
    BY <2>1 DEF StrictSubsetOrdering
  <2> QED BY <2>2, <1>2, <1>3
<1> QED BY <1>4

-----------------------------------------------------------------------------
(* The AT interpreter.                                                       *)

(* While a line is received, the bytes stored so far hold no LF: the one     *)
(* that ends the line is the first.                                          *)
LineOK == at_state = "Recving" => \A i \in 1..(pCmdLine - 1) : at_cmdLine[i] # "LF"

AtInv == AtTypeOK /\ LineOK

Char == Byte \cup Stop \cup {"LF", "NUL", "OTHER"}
NameChar == Byte \ (Stop \cup {"LF"})

(* A buffer that starts with a line of n bytes, LF the last of them.         *)
IsLine(buf, line, n) ==
    /\ n \in 1..at_cmdLenMax
    /\ buf \in [1..Behind -> Char]
    /\ line \in Seq(Char) /\ Len(line) = n
    /\ \A i \in 1..n : line[i] = buf[i] /\ (buf[i] = "LF" <=> i = n)

(* Where at_getCmdLen stops.                                                 *)
LEMMA FirstStop ==
    ASSUME NEW buf
    PROVE  LET k == at_getCmdLen(buf)
           IN  \/ k = -1 /\ \A i \in 1..at_cmdLenMax : buf[i] \notin Stop
               \/ /\ k \in 0..(at_cmdLenMax - 1) /\ buf[k + 1] \in Stop
                  /\ \A i \in 1..k : buf[i] \notin Stop
<1> DEFINE stops == {i \in 1..at_cmdLenMax : buf[i] \in Stop}
           least == CHOOSE i \in stops : \A j \in stops : i <= j
<1>1. at_cmdLenMax \in Nat
  BY AtAssumption
<1>2. CASE stops = {}
  <2>1. at_getCmdLen(buf) = -1
    BY <1>2 DEF at_getCmdLen
  <2> QED BY <1>2, <2>1
<1>3. CASE stops # {}
  <2>1. stops \subseteq Nat
    BY <1>1
  <2> HIDE DEF stops
  <2>2. \E i \in stops : \A j \in stops : i <= j
    BY <1>3, <2>1, LeastExists
  <2>3. least \in stops /\ \A j \in stops : least <= j
    BY <2>2
  <2>4. at_getCmdLen(buf) = least - 1
    BY <1>3 DEF at_getCmdLen, stops
  <2> HIDE DEF least
  <2>5. least \in 1..at_cmdLenMax /\ buf[least] \in Stop
    BY <2>3 DEF stops
  <2>6. \A i \in 1..(least - 1) : i \in 1..at_cmdLenMax /\ i \notin stops
    BY <1>1, <2>3, <2>5
  <2>7. \A i \in 1..(least - 1) : buf[i] \notin Stop
    BY <2>6 DEF stops
  <2>8. least - 1 \in 0..(at_cmdLenMax - 1) /\ (least - 1) + 1 = least
    BY <1>1, <2>5
  <2> QED BY <2>4, <2>5, <2>7, <2>8
<1> QED BY <1>2, <1>3

Begins(line, name, tail) == Starts(line, name \o tail)

(* The same, byte by byte.                                                   *)
LEMMA StartsConcat ==
    ASSUME NEW line \in Seq(Char), NEW name \in Seq(Char), NEW tail \in Seq(Char)
    PROVE  Begins(line, name, tail) <=>
              /\ Len(name) + Len(tail) <= Len(line)
              /\ \A i \in 1..Len(name) : line[i] = name[i]
              /\ \A j \in 1..Len(tail) : line[Len(name) + j] = tail[j]
<1> DEFINE all == name \o tail
<1>1. /\ Len(name) \in Nat /\ Len(tail) \in Nat /\ Len(line) \in Nat
      /\ all \in Seq(Char) /\ Len(all) = Len(name) + Len(tail)
      /\ \A i \in 1..(Len(name) + Len(tail)) :
            all[i] = IF i <= Len(name) THEN name[i] ELSE tail[i - Len(name)]
  BY ConcatProperties, LenProperties
<1> HIDE DEF all
<1>2. ASSUME Len(all) <= Len(line)
      PROVE  SubSeq(line, 1, Len(all)) = all <=> \A i \in 1..Len(all) : line[i] = all[i]
  <2>1. \A i \in 1..Len(all) : line[i] \in Char
    BY <1>1, <1>2, ElementOfSeq
  <2>2. /\ SubSeq(line, 1, Len(all)) \in Seq(Char)
        /\ Len(SubSeq(line, 1, Len(all))) = Len(all)
        /\ \A i \in 1..Len(all) : SubSeq(line, 1, Len(all))[i] = line[i]
    BY <1>1, <2>1, SubSeqProperties
  <2> QED BY <1>1, <2>2, SeqEqual
<1>3. (\A i \in 1..Len(all) : line[i] = all[i]) <=>
         /\ \A i \in 1..Len(name) : line[i] = name[i]
         /\ \A j \in 1..Len(tail) : line[Len(name) + j] = tail[j]
  <2>1. ASSUME \A i \in 1..Len(all) : line[i] = all[i]
        PROVE  /\ \A i \in 1..Len(name) : line[i] = name[i]
               /\ \A j \in 1..Len(tail) : line[Len(name) + j] = tail[j]
    <3>1. \A i \in 1..Len(name) : line[i] = name[i]
      BY <1>1, <2>1
    <3>2. ASSUME NEW j \in 1..Len(tail) PROVE line[Len(name) + j] = tail[j]
      <4>1. /\ Len(name) + j \in 1..Len(all) /\ ~(Len(name) + j <= Len(name))
            /\ (Len(name) + j) - Len(name) = j
        BY <1>1
      <4> QED BY <1>1, <2>1, <4>1
    <3> QED BY <3>1, <3>2
  <2>2. ASSUME \A i \in 1..Len(name) : line[i] = name[i],
               \A j \in 1..Len(tail) : line[Len(name) + j] = tail[j],
               NEW i \in 1..Len(all)
        PROVE  line[i] = all[i]
    <3>1. CASE i <= Len(name)
      BY <1>1, <2>2, <3>1
    <3>2. CASE ~(i <= Len(name))
      <4>1. i - Len(name) \in 1..Len(tail) /\ Len(name) + (i - Len(name)) = i
        BY <1>1, <3>2
      <4> QED BY <1>1, <2>2, <3>2, <4>1
    <3> QED BY <3>1, <3>2
  <2> QED BY <2>1, <2>2
<1> QED BY <1>1, <1>2, <1>3 DEF Begins, Starts, all

(* A name and what follows it start a line exactly if they are what          *)
(* at_getCmdLen cuts off its buffer and what stands behind that.             *)
LEMMA Match ==
    ASSUME NEW buf, NEW line, NEW n, IsLine(buf, line, n),
           NEW name \in Seq(NameChar), NEW tail \in Seq(Char),
           Len(tail) \in Nat \ {0}, tail[1] \in Stop
    PROVE  LET k == at_getCmdLen(buf)
           IN  Begins(line, name, tail) <=>
                  /\ k # -1 /\ name = SubSeq(buf, 1, k) /\ k + Len(tail) <= n
                  /\ \A j \in 1..Len(tail) : buf[k + j] = tail[j]
<1> DEFINE k == at_getCmdLen(buf)
<1>0. /\ n \in 1..at_cmdLenMax /\ at_cmdLenMax \in Nat
      /\ buf \in [1..(at_cmdLenMax + 1) -> Char] /\ Len(line) = n /\ line \in Seq(Char)
      /\ \A i \in 1..n : line[i] = buf[i]
  BY AtAssumption DEF IsLine, Behind
<1>1. /\ name \in Seq(Char) /\ Len(name) \in Nat
      /\ \A i \in 1..Len(name) : name[i] \in NameChar /\ name[i] \notin Stop
  <2>1. NameChar \subseteq Char
    BY DEF NameChar, Char
  <2> QED BY <2>1, SeqMonotonic, ElementOfSeq, LenProperties DEF NameChar
<1>2. \/ k = -1 /\ \A i \in 1..at_cmdLenMax : buf[i] \notin Stop
      \/ /\ k \in 0..(at_cmdLenMax - 1) /\ buf[k + 1] \in Stop
         /\ \A i \in 1..k : buf[i] \notin Stop
  BY FirstStop
<1> HIDE DEF k
<1>3. Begins(line, name, tail) <=>
         /\ Len(name) + Len(tail) <= n
         /\ \A i \in 1..Len(name) : line[i] = name[i]
         /\ \A j \in 1..Len(tail) : line[Len(name) + j] = tail[j]
  <2>0. line \in Seq(Char) /\ name \in Seq(Char)
    BY <1>0, <1>1
  <2>1. Begins(line, name, tail) <=>
           /\ Len(name) + Len(tail) <= Len(line)
           /\ \A i \in 1..Len(name) : line[i] = name[i]
           /\ \A j \in 1..Len(tail) : line[Len(name) + j] = tail[j]
    BY <2>0, StartsConcat
  <2> QED BY <1>0, <2>1
<1>4. ASSUME k \in 0..(at_cmdLenMax - 1)
      PROVE  /\ SubSeq(buf, 1, k) \in Seq(Char) /\ Len(SubSeq(buf, 1, k)) = k
             /\ \A i \in 1..k : SubSeq(buf, 1, k)[i] = buf[i]
  <2>1. \A i \in 1..k : buf[i] \in Char
    BY <1>0, <1>4
  <2> QED BY <1>4, <2>1, SubSeqProperties
<1>5. ASSUME Begins(line, name, tail)
      PROVE  /\ k # -1 /\ name = SubSeq(buf, 1, k) /\ k + Len(tail) <= n
             /\ \A j \in 1..Len(tail) : buf[k + j] = tail[j]
  <2>1. /\ Len(name) + Len(tail) <= n
        /\ \A i \in 1..Len(name) : buf[i] = name[i]
        /\ \A j \in 1..Len(tail) : buf[Len(name) + j] = tail[j]
    <3>1. Len(name) + Len(tail) <= n
      BY <1>3, <1>5
    <3>2. ASSUME NEW i \in 1..Len(name) PROVE buf[i] = name[i]
      <4>1. i \in 1..n
        BY <1>0, <1>1, <3>1
      <4> QED BY <1>0, <1>3, <1>5, <4>1
    <3>3. ASSUME NEW j \in 1..Len(tail) PROVE buf[Len(name) + j] = tail[j]
      <4>1. Len(name) + j \in 1..n
        BY <1>0, <1>1, <3>1
      <4> QED BY <1>0, <1>3, <1>5, <4>1
    <3> QED BY <3>1, <3>2, <3>3
  <2>2. buf[Len(name) + 1] \in Stop /\ Len(name) + 1 \in 1..n
    <3>1. 1 \in 1..Len(tail)
      OBVIOUS
    <3> QED BY <1>0, <1>1, <2>1, <3>1
  <2>3. \A i \in 1..Len(name) : buf[i] \notin Stop
    BY <1>1, <2>1
  <2>4. k \in 0..(at_cmdLenMax - 1) /\ k = Len(name)
    <3>1. k # -1
      BY <1>0, <1>2, <2>2
    <3>2. k \in 0..(at_cmdLenMax - 1) /\ buf[k + 1] \in Stop /\ \A i \in 1..k : buf[i] \notin Stop
      BY <1>2, <3>1
    <3>3. ~(k < Len(name))
      <4>1. k < Len(name) => k + 1 \in 1..Len(name)
        BY <1>1, <3>2
      <4> QED BY <2>3, <3>2, <4>1
    <3>4. ~(Len(name) < k)
      <4>1. Len(name) < k => Len(name) + 1 \in 1..k
        BY <1>1, <3>2
      <4> QED BY <2>2, <3>2, <4>1
    <3> QED BY <1>1, <3>2, <3>3, <3>4
  <2>5. name = SubSeq(buf, 1, k)
    <3>1. \A i \in 1..k : name[i] = SubSeq(buf, 1, k)[i]
      BY <1>4, <2>1, <2>4
    <3> QED BY <1>1, <1>4, <2>4, <3>1, SeqEqual
  <2> QED BY <2>1, <2>4, <2>5
<1>6. ASSUME k # -1, name = SubSeq(buf, 1, k), k + Len(tail) <= n,
             \A j \in 1..Len(tail) : buf[k + j] = tail[j]
      PROVE  Begins(line, name, tail)
  <2>1. k \in 0..(at_cmdLenMax - 1)
    BY <1>2, <1>6
  <2>2. Len(name) = k /\ \A i \in 1..k : name[i] = buf[i]
    BY <1>4, <1>6, <2>1
  <2>3. ASSUME NEW i \in 1..Len(name) PROVE line[i] = name[i]
    <3>1. i \in 1..n
      BY <1>0, <1>6, <2>1, <2>2
    <3> QED BY <1>0, <2>2, <3>1
  <2>4. ASSUME NEW j \in 1..Len(tail) PROVE line[Len(name) + j] = tail[j]
    <3>1. k + j \in 1..n
      BY <1>0, <1>6, <2>1
    <3> QED BY <1>0, <1>6, <2>2, <3>1
  <2> QED BY <1>3, <1>6, <2>2, <2>3, <2>4
<1> QED BY <1>5, <1>6 DEF k

(* A name that is in the table ends inside the line: it would hold the LF    *)
(* otherwise, so that nothing an earlier line left is taken for a command.   *)
LEMMA Found ==
    ASSUME NEW buf, NEW line, NEW n, IsLine(buf, line, n), at_cmdSearch(buf)
    PROVE  LET k == at_getCmdLen(buf)
           IN  /\ k \in 0..(at_cmdLenMax - 1) /\ k + 1 < n /\ buf[k + 1] \in Stop
               /\ SubSeq(buf, 1, k) \in at_fun
<1> DEFINE k == at_getCmdLen(buf)
           name == SubSeq(buf, 1, k)
<1>0. /\ n \in 1..at_cmdLenMax /\ at_cmdLenMax \in Nat
      /\ buf \in [1..(at_cmdLenMax + 1) -> Char] /\ buf[n] = "LF"
  BY AtAssumption DEF IsLine, Behind
<1>1. k # -1 /\ name \in at_fun
  BY DEF at_cmdSearch
<1>2. k \in 0..(at_cmdLenMax - 1) /\ buf[k + 1] \in Stop
  BY <1>1, FirstStop
<1>3. name \in Seq(NameChar)
  BY <1>1, AtAssumption DEF NameChar
<1>4. Len(name) = k /\ \A i \in 1..k : name[i] = buf[i]
  <2> HIDE DEF k
  <2>1. \A i \in 1..k : buf[i] \in Char
    BY <1>0, <1>2
  <2> QED BY <1>2, <2>1, SubSeqProperties
<1> HIDE DEF k, name
<1>5. \A i \in 1..k : buf[i] # "LF"
  BY <1>3, <1>4, ElementOfSeq DEF NameChar
<1>6. ~(n <= k)
  BY <1>0, <1>5
<1>7. n # k + 1
  BY <1>0, <1>2 DEF Stop, Digit
<1> QED BY <1>0, <1>1, <1>2, <1>6, <1>7 DEF k, name

(* What the four forms of a command ask of the buffer.                       *)
LEMMA Forms ==
    ASSUME NEW buf, NEW line, NEW n, IsLine(buf, line, n), NEW name \in at_fun
    PROVE  LET k == at_getCmdLen(buf)
               Is == at_cmdSearch(buf) /\ name = SubSeq(buf, 1, k)
           IN  /\ Begins(line, name, <<"CR">>) <=> Is /\ buf[k + 1] = "CR"
               /\ Begins(line, name, <<"?", "CR">>) <=>
                     Is /\ buf[k + 1] = "?" /\ buf[k + 2] = "CR"
               /\ Begins(line, name, <<"=", "?", "CR">>) <=>
                     Is /\ buf[k + 1] = "=" /\ buf[k + 2] = "?" /\ buf[k + 3] = "CR"
               /\ \A b \in Digit \cup {"="} :
                     Begins(line, name, <<b>>) <=> Is /\ buf[k + 1] = b
<1> DEFINE k == at_getCmdLen(buf)
           Is == at_cmdSearch(buf) /\ name = SubSeq(buf, 1, k)
<1>0. n \in 1..at_cmdLenMax /\ at_cmdLenMax \in Nat /\ \A i \in 1..n : (buf[i] = "LF" <=> i = n)
  BY AtAssumption DEF IsLine
<1>1. name \in Seq(NameChar)
  BY AtAssumption DEF NameChar
<1>2. Is <=> k # -1 /\ name = SubSeq(buf, 1, k)
  BY DEF at_cmdSearch
<1>3. Is => k \in 0..(at_cmdLenMax - 1) /\ k + 1 < n
  BY Found
<1>4. ASSUME NEW tail \in Seq(Char), Len(tail) \in Nat \ {0}, tail[1] \in Stop
      PROVE  Begins(line, name, tail) <=>
                Is /\ k + Len(tail) <= n /\ \A j \in 1..Len(tail) : buf[k + j] = tail[j]
  <2>1. Begins(line, name, tail) <=>
           /\ k # -1 /\ name = SubSeq(buf, 1, k) /\ k + Len(tail) <= n
           /\ \A j \in 1..Len(tail) : buf[k + j] = tail[j]
    BY <1>1, <1>4, Match
  <2> HIDE DEF Is, k
  <2> QED BY <1>2, <2>1
<1> HIDE DEF Is, k
<1>5. ASSUME NEW b \in Stop PROVE Begins(line, name, <<b>>) <=> Is /\ buf[k + 1] = b
  <2> DEFINE tail == <<b>>
  <2>1. tail \in Seq(Char) /\ Len(tail) = 1 /\ tail[1] = b
    BY DEF Char
  <2>2. tail \in Seq(Char) /\ Len(tail) \in Nat \ {0} /\ tail[1] \in Stop
    BY <2>1
  <2> HIDE DEF tail
  <2>3. Begins(line, name, tail) <=>
           Is /\ k + Len(tail) <= n /\ \A j \in 1..Len(tail) : buf[k + j] = tail[j]
    BY <1>4, <2>2
  <2>4. (\A j \in 1..Len(tail) : buf[k + j] = tail[j]) <=> buf[k + 1] = b
    BY <2>1
  <2> QED BY <1>0, <1>3, <2>1, <2>3, <2>4 DEF tail
<1>6. Begins(line, name, <<"?", "CR">>) <=> Is /\ buf[k + 1] = "?" /\ buf[k + 2] = "CR"
  <2> DEFINE tail == <<"?", "CR">>
  <2>1. tail \in Seq(Char) /\ Len(tail) = 2 /\ tail[1] = "?" /\ tail[2] = "CR"
    BY DEF Char, Stop
  <2>2. tail \in Seq(Char) /\ Len(tail) \in Nat \ {0} /\ tail[1] \in Stop
    BY <2>1 DEF Stop
  <2> HIDE DEF tail
  <2>3. Begins(line, name, tail) <=>
           Is /\ k + Len(tail) <= n /\ \A j \in 1..Len(tail) : buf[k + j] = tail[j]
    BY <1>4, <2>2
  <2>4. (\A j \in 1..Len(tail) : buf[k + j] = tail[j]) <=> buf[k + 1] = "?" /\ buf[k + 2] = "CR"
    BY <2>1
  <2> QED BY <1>0, <1>3, <2>1, <2>3, <2>4 DEF tail
<1>7. Begins(line, name, <<"=", "?", "CR">>) <=>
         Is /\ buf[k + 1] = "=" /\ buf[k + 2] = "?" /\ buf[k + 3] = "CR"
  <2> DEFINE tail == <<"=", "?", "CR">>
  <2>1. tail \in Seq(Char) /\ Len(tail) = 3 /\ tail[1] = "=" /\ tail[2] = "?" /\ tail[3] = "CR"
    BY DEF Char, Stop
  <2>2. tail \in Seq(Char) /\ Len(tail) \in Nat \ {0} /\ tail[1] \in Stop
    BY <2>1 DEF Stop
  <2> HIDE DEF tail
  <2>3. Begins(line, name, tail) <=>
           Is /\ k + Len(tail) <= n /\ \A j \in 1..Len(tail) : buf[k + j] = tail[j]
    BY <1>4, <2>2
  <2>4. (\A j \in 1..Len(tail) : buf[k + j] = tail[j]) <=>
           buf[k + 1] = "=" /\ buf[k + 2] = "?" /\ buf[k + 3] = "CR"
    BY <2>1
  <2>5. Is /\ buf[k + 2] = "?" => k + 3 <= n
    BY <1>0, <1>3
  <2> QED BY <2>1, <2>3, <2>4, <2>5 DEF tail
<1>8. "CR" \in Stop /\ Digit \cup {"="} \subseteq Stop
  BY DEF Stop
<1>9. /\ Begins(line, name, <<"CR">>) <=> Is /\ buf[k + 1] = "CR"
      /\ \A b \in Digit \cup {"="} : Begins(line, name, <<b>>) <=> Is /\ buf[k + 1] = b
  BY <1>5, <1>8
<1> QED BY <1>6, <1>7, <1>9 DEF Is, k

(* The command that at_cmdProcess runs for a buffer is the one its line asks *)
(* for, with the same answer.                                                *)
LEMMA SameAnswer ==
    ASSUME NEW buf, NEW line, NEW n, IsLine(buf, line, n)
    PROVE  at_cmdProcess(buf) = Answers(line)
<1> DEFINE k == at_getCmdLen(buf)
           name == SubSeq(buf, 1, k)
           p0 == buf[k + 1]
           p1 == buf[k + 2]
           p2 == buf[k + 3]
           found == at_cmdSearch(buf)
           Run(names) == IF name \in names THEN {<<"OK">>} ELSE {<<"ERROR">>}
<1>1. /\ ExeName \subseteq at_fun /\ QueryName \subseteq at_fun /\ TestName \subseteq at_fun
      /\ SetupName \subseteq at_fun /\ EchoName \in SetupName /\ DebugName \in SetupName
      /\ EchoName # DebugName
  BY AtAssumption DEF at_fun
<1>2. found => name \in at_fun /\ p0 \in Digit \cup {"CR", "=", "?"} /\ k \in Nat
  BY Found DEF Stop
<1>3. at_cmdProcess(buf) =
         IF ~found THEN {<<"ERROR">>}
         ELSE IF p0 = "CR" THEN Run(ExeName)
         ELSE IF p0 = "?" /\ p1 = "CR" THEN Run(QueryName)
         ELSE IF p0 = "=" /\ p1 = "?" /\ p2 = "CR" THEN Run(TestName)
         ELSE IF p0 \in Digit \cup {"="} /\ name \in SetupName THEN SetupReplies(name, p0)
         ELSE {<<"ERROR">>}
  <2> HIDE DEF k
  <2>1. found => k + 1 + 0 = k + 1 /\ k + 1 + 1 = k + 2 /\ k + 1 + 2 = k + 3
    BY <1>2
  <2> QED BY <2>1 DEF at_cmdProcess, k
<1>4. ASSUME NEW nm \in at_fun
      PROVE  /\ Starts(line, nm \o <<"CR">>) <=> found /\ nm = name /\ p0 = "CR"
             /\ Starts(line, nm \o <<"?", "CR">>) <=>
                   found /\ nm = name /\ p0 = "?" /\ p1 = "CR"
             /\ Starts(line, nm \o <<"=", "?", "CR">>) <=>
                   found /\ nm = name /\ p0 = "=" /\ p1 = "?" /\ p2 = "CR"
             /\ \A b \in Digit \cup {"="} :
                   Starts(line, nm \o <<b>>) <=> found /\ nm = name /\ p0 = b
  BY Forms DEF Begins
<1> HIDE DEF k, name, p0, p1, p2, found
<1>5. /\ Calls(line, ExeName, <<"CR">>) <=> found /\ name \in ExeName /\ p0 = "CR"
      /\ Calls(line, QueryName, <<"?", "CR">>) <=>
            found /\ name \in QueryName /\ p0 = "?" /\ p1 = "CR"
      /\ Calls(line, TestName, <<"=", "?", "CR">>) <=>
            found /\ name \in TestName /\ p0 = "=" /\ p1 = "?" /\ p2 = "CR"
  BY <1>1, <1>4 DEF Calls
<1>6. Sets(line) = IF /\ found /\ name \in SetupName /\ p0 \in Digit \cup {"="}
                      /\ ~(p0 = "=" /\ p1 = "?" /\ p2 = "CR")
                   THEN {name} ELSE {}
  <2>1. ASSUME NEW nm \in SetupName
        PROVE  (\E b \in Digit \cup {"="} :
                   Starts(line, nm \o <<b>>) /\ ~Starts(line, nm \o <<"=", "?", "CR">>))
               <=> /\ found /\ nm = name /\ p0 \in Digit \cup {"="}
                   /\ ~(p0 = "=" /\ p1 = "?" /\ p2 = "CR")
    BY <1>1, <1>4
  <2> QED BY <2>1 DEF Sets
<1>7. (\E b \in Digit : Starts(line, EchoName \o <<b>>)) <=>
         found /\ EchoName = name /\ p0 \in Digit
  BY <1>1, <1>4
<1>8. Answers(line) =
         IF \/ found /\ name \in ExeName /\ p0 = "CR"
            \/ found /\ name \in QueryName /\ p0 = "?" /\ p1 = "CR"
            \/ found /\ name \in TestName /\ p0 = "=" /\ p1 = "?" /\ p2 = "CR"
            \/ Sets(line) \ {EchoName, DebugName} # {}
            \/ found /\ EchoName = name /\ p0 \in Digit
         THEN {<<"OK">>}
         ELSE IF DebugName \in Sets(line) THEN {<<"OK">>, <<"ERROR">>} ELSE {<<"ERROR">>}
  BY <1>5, <1>7 DEF Answers
<1>9. p0 \in Digit => p0 \notin {"CR", "?", "="}
  BY DEF Digit
<1>10. CASE found /\ p0 \in Digit \cup {"="} /\ name \in SetupName
            /\ ~(p0 = "=" /\ p1 = "?" /\ p2 = "CR")
  <2>1. at_cmdProcess(buf) = SetupReplies(name, p0) /\ Sets(line) = {name}
    BY <1>3, <1>6, <1>9, <1>10
  <2>2. CASE name = EchoName
    <3>1. SetupReplies(name, p0) = IF p0 \in Digit THEN {<<"OK">>} ELSE {<<"ERROR">>}
      BY <1>1, <2>2 DEF SetupReplies
    <3> QED BY <1>1, <1>8, <1>9, <1>10, <2>1, <2>2, <3>1
  <2>3. CASE name = DebugName
    <3>1. SetupReplies(name, p0) = {<<"OK">>, <<"ERROR">>}
      BY <1>1, <2>3 DEF SetupReplies
    <3> QED BY <1>1, <1>8, <1>9, <1>10, <2>1, <2>3, <3>1
  <2>4. CASE name \notin {EchoName, DebugName}
    <3>1. SetupReplies(name, p0) = {<<"OK">>}
      BY <2>4 DEF SetupReplies
    <3> QED BY <1>8, <1>9, <1>10, <2>1, <2>4, <3>1
  <2> QED BY <2>2, <2>3, <2>4
<1>11. CASE ~(/\ found /\ p0 \in Digit \cup {"="} /\ name \in SetupName
              /\ ~(p0 = "=" /\ p1 = "?" /\ p2 = "CR"))
  <2>1. Sets(line) = {}
    BY <1>6, <1>11
  <2> QED BY <1>1, <1>2, <1>3, <1>8, <1>9, <1>11, <2>1
<1> QED BY <1>10, <1>11

(* When LF comes, the buffer holds the line, closed by LF.                   *)
LEMMA ClosedIsLine ==
    ASSUME AtInv, at_state = "Recving"
    PROVE  IsLine(Closed, Append(SubSeq(at_cmdLine, 1, pCmdLine - 1), "LF"), pCmdLine)
<1> DEFINE stored == SubSeq(at_cmdLine, 1, pCmdLine - 1)
<1>1. /\ at_cmdLenMax \in Nat /\ pCmdLine \in 1..at_cmdLenMax
      /\ at_cmdLine \in [1..(at_cmdLenMax + 1) -> Char]
      /\ \A i \in 1..(pCmdLine - 1) : at_cmdLine[i] # "LF"
  BY AtAssumption DEF AtInv, AtTypeOK, LineOK, Char, Behind
<1>2. /\ stored \in Seq(Char) /\ Len(stored) = pCmdLine - 1
      /\ \A i \in 1..(pCmdLine - 1) : stored[i] = at_cmdLine[i]
  <2>1. \A i \in 1..(pCmdLine - 1) : at_cmdLine[i] \in Char
    BY <1>1
  <2>2. /\ stored \in Seq(Char)
        /\ Len(stored) = IF 1 <= pCmdLine - 1 THEN pCmdLine - 1 - 1 + 1 ELSE 0
        /\ \A i \in 1..(pCmdLine - 1 - 1 + 1) : stored[i] = at_cmdLine[1 + i - 1]
    BY <1>1, <2>1, SubSeqProperties
  <2> QED BY <1>1, <2>2
<1> HIDE DEF stored
<1>3. "LF" \in Char
  BY DEF Char
<1>4. /\ Append(stored, "LF") \in Seq(Char) /\ Len(Append(stored, "LF")) = pCmdLine
      /\ \A i \in 1..(pCmdLine - 1) : Append(stored, "LF")[i] = at_cmdLine[i]
      /\ Append(stored, "LF")[pCmdLine] = "LF"
  BY <1>1, <1>2, <1>3
<1>5. /\ Closed \in [1..(at_cmdLenMax + 1) -> Char] /\ Closed[pCmdLine] = "LF"
      /\ \A i \in 1..(pCmdLine - 1) : Closed[i] = at_cmdLine[i]
  <2>1. {"LF", "NUL"} \subseteq Char
    BY DEF Char
  <2> QED BY <1>1, <2>1 DEF Closed
<1> QED BY <1>1, <1>4, <1>5 DEF IsLine, stored, Behind

(* at_cmdProcess answers once.                                               *)
LEMMA OneReply ==
    ASSUME NEW buf, NEW reply \in at_cmdProcess(buf)
    PROVE  reply \in {<<"OK">>, <<"ERROR">>}
<1>1. EchoName # DebugName
  BY AtAssumption
<1>2. ASSUME NEW name, NEW para PROVE SetupReplies(name, para) \subseteq {<<"OK">>, <<"ERROR">>}
  BY <1>1 DEF SetupReplies
<1> QED BY <1>2 DEF at_cmdProcess

LEMMA InitAt == AtInit => AtInv
BY AtAssumption DEF AtInit, AtInv, AtTypeOK, LineOK, Behind

LEMMA StepAt == AtInv /\ [at_recvTask]_atVars => AtInv'
<1> SUFFICES ASSUME AtInv, [at_recvTask]_atVars PROVE AtInv'
  OBVIOUS
<1> DEFINE Cell == Byte \cup {"NUL", "OTHER"}
<1>0. /\ at_cmdLenMax \in Nat \ {0} /\ "LF" \in Byte /\ Behind = at_cmdLenMax + 1
      /\ at_state \in {"Idle", "Recving"} /\ atHead \in Byte \cup {"NUL"}
      /\ at_cmdLine \in [1..Behind -> Cell] /\ at_cmdLine[Behind] \in {"NUL", "OTHER"}
      /\ pCmdLine \in 1..(Behind + 1) /\ echoFlag \in BOOLEAN
      /\ at_state = "Recving" => pCmdLine \in 1..at_cmdLenMax
      /\ at_state = "Recving" => \A i \in 1..(pCmdLine - 1) : at_cmdLine[i] # "LF"
  BY AtAssumption DEF AtInv, AtTypeOK, LineOK, Behind
<1>1. ASSUME NEW temp \in Byte PROVE Len(Echo(temp)) \in 0..3
  BY DEF Echo
<1>2. ASSUME NEW temp \in Byte, SearchHead(temp) PROVE AtInv'
  <2>1. Len(sent') \in 0..3
    BY <1>1, <1>2 DEF SearchHead
  <2> QED BY <1>0, <1>2, <2>1 DEF SearchHead, AtInv, AtTypeOK, LineOK
<1>3. ASSUME NEW temp \in Byte, StoreByte(temp) PROVE AtInv'
  <2>1. Len(sent') \in 0..3
    BY <1>1, <1>3 DEF StoreByte
  <2>2. /\ at_state = "Recving" /\ temp # "LF" /\ UNCHANGED <<atHead, echoFlag>>
        /\ at_cmdLine' = [at_cmdLine EXCEPT ![pCmdLine] = temp]
        /\ at_state' = IF IsFull THEN "Idle" ELSE "Recving"
        /\ pCmdLine' = pCmdLine + 1
    BY <1>3 DEF StoreByte
  <2>3. /\ at_cmdLine' \in [1..Behind -> Cell] /\ at_cmdLine'[Behind] = at_cmdLine[Behind]
        /\ pCmdLine' \in 1..Behind
    BY <1>0, <2>2
  <2>4. CASE IsFull
    BY <1>0, <2>1, <2>2, <2>3, <2>4 DEF AtInv, AtTypeOK, LineOK
  <2>5. CASE ~IsFull
    <3>1. pCmdLine' = pCmdLine + 1 /\ pCmdLine' \in 1..at_cmdLenMax /\ at_state' = "Recving"
      BY <1>0, <2>2, <2>5 DEF IsFull
    <3>2. ASSUME NEW i \in 1..(pCmdLine' - 1) PROVE at_cmdLine'[i] # "LF"
      <4>1. i \in 1..Behind /\ (i = pCmdLine \/ i \in 1..(pCmdLine - 1))
        BY <1>0, <3>1
      <4> QED BY <1>0, <2>2, <4>1
    <3> QED BY <1>0, <2>1, <2>2, <2>3, <3>1, <3>2 DEF AtInv, AtTypeOK, LineOK
  <2> QED BY <2>4, <2>5
<1>4. CASE EndLine
  <2>1. PICK reply \in at_cmdProcess(Closed) :
           sent' = (IF echoFlag THEN <<"ENTER", "ENTER">> ELSE <<>>) \o reply
    BY <1>4 DEF EndLine
  <2>2. Len(sent') \in 0..3
    BY <2>1, OneReply
  <2>3. EchoAfter(Closed) \in BOOLEAN
    BY <1>0 DEF EchoAfter
  <2>4. at_cmdLine' \in [1..Behind -> Cell] /\ at_cmdLine'[Behind] \in {"NUL", "OTHER"}
    BY <1>0, <1>4 DEF EndLine, Closed
  <2>5. pCmdLine' \in 1..(Behind + 1)
    BY <1>0, <1>4 DEF EndLine
  <2> QED BY <1>0, <1>4, <2>2, <2>3, <2>4, <2>5 DEF EndLine, AtInv, AtTypeOK, LineOK
<1>5. CASE UNCHANGED atVars
  BY <1>5 DEF atVars, AtInv, AtTypeOK, LineOK
<1> QED BY <1>2, <1>3, <1>4, <1>5 DEF at_recvTask

LEMMA AtInvariant == AtSpec => []AtInv
BY InitAt, StepAt, PTL DEF AtSpec

(* Every byte received is stored inside a buffer of any length; the one byte *)
(* behind it is changed to NUL at most, and no byte sends more than three.   *)
THEOREM AtTypeCorrect == AtSpec => []AtTypeOK
<1>1. AtInv => AtTypeOK
  BY DEF AtInv
<1> QED BY <1>1, AtInvariant, PTL

(* The only store that leaves the buffer is the NUL of a line whose LF takes *)
(* its last byte (at_port.c:118, 128).                                       *)
OnlyFullLineOverruns ==
    [][at_cmdLine'[Behind] # at_cmdLine[Behind] =>
          EndLine /\ pCmdLine = at_cmdLenMax /\ at_cmdLine'[Behind] = "NUL"]_atVars

(* The buffer is overrun by the closing NUL of a line whose LF takes its last*)
(* byte, and by nothing else, whatever lines came before: neither by a line  *)
(* too long nor by any byte received.                                        *)
THEOREM OverrunByNulOnly == AtSpec => OnlyFullLineOverruns
<1>1. AtInv /\ [at_recvTask]_atVars =>
         (at_cmdLine'[Behind] # at_cmdLine[Behind] =>
            EndLine /\ pCmdLine = at_cmdLenMax /\ at_cmdLine'[Behind] = "NUL")
  <2> SUFFICES ASSUME AtInv, [at_recvTask]_atVars, at_cmdLine'[Behind] # at_cmdLine[Behind]
               PROVE  EndLine /\ pCmdLine = at_cmdLenMax /\ at_cmdLine'[Behind] = "NUL"
    OBVIOUS
  <2>1. /\ at_cmdLenMax \in Nat \ {0} /\ Behind = at_cmdLenMax + 1
        /\ DOMAIN at_cmdLine = 1..Behind
        /\ at_cmdLine = [i \in 1..Behind |-> at_cmdLine[i]]
        /\ at_state = "Recving" => pCmdLine \in 1..at_cmdLenMax
    BY AtAssumption DEF AtInv, AtTypeOK, Behind
  <2>2. ASSUME NEW temp \in Byte, SearchHead(temp) PROVE FALSE
    BY <2>2 DEF SearchHead
  <2>3. ASSUME NEW temp \in Byte, StoreByte(temp) PROVE FALSE
    BY <2>1, <2>3 DEF StoreByte
  <2>4. EndLine
    BY <2>2, <2>3 DEF at_recvTask, atVars
  <2>5. pCmdLine \in 1..at_cmdLenMax /\ at_cmdLine' = Closed
    BY <2>1, <2>4 DEF EndLine
  <2>6. pCmdLine = at_cmdLenMax
    <3>1. pCmdLine # at_cmdLenMax => Closed[Behind] = at_cmdLine[Behind]
      BY <2>1, <2>5 DEF Closed
    <3> QED BY <2>5, <3>1
  <2>7. Closed[Behind] = "NUL"
    BY <2>1, <2>5, <2>6 DEF Closed
  <2> QED BY <2>4, <2>5, <2>6, <2>7
<1> QED BY <1>1, AtInvariant, PTL DEF AtSpec, OnlyFullLineOverruns

(* Whatever earlier lines left in the buffer, for any table of commands, a   *)
(* line is answered once and as its own bytes ask.                           *)
THEOREM LineExecuted == AtSpec => ExecutesLine
<1>1. AtInv => (EndLine =>
         \E reply \in Answers(Append(SubSeq(at_cmdLine, 1, pCmdLine - 1), "LF")) :
            sent' = (IF echoFlag THEN <<"ENTER", "ENTER">> ELSE <<>>) \o reply)
  <2> SUFFICES ASSUME AtInv, EndLine
               PROVE  \E reply \in Answers(Append(SubSeq(at_cmdLine, 1, pCmdLine - 1), "LF")) :
                         sent' = (IF echoFlag THEN <<"ENTER", "ENTER">> ELSE <<>>) \o reply
    OBVIOUS
  <2>1. at_cmdProcess(Closed) = Answers(Append(SubSeq(at_cmdLine, 1, pCmdLine - 1), "LF"))
    BY ClosedIsLine, SameAnswer DEF EndLine
  <2> QED BY <2>1 DEF EndLine
<1> QED BY <1>1, AtInvariant, PTL DEF ExecutesLine

-----------------------------------------------------------------------------
(* The functions of tool.c.                                                  *)

LEMMA NibbleOfNumeral ==
    ASSUME NEW n \in 0..15
    PROVE  /\ Numeral(n) \in (48..57) \cup (65..70)
           /\ Nibble(Numeral(n)) = n /\ Nibble(tolower(Numeral(n))) = n
BY DEF Numeral, Nibble, toupper, tolower

(* Two numerals per byte; each pair, in capitals or not, is read as the byte.*)
LEMMA RoundTrip ==
    ASSUME NEW bytes \in Seq(0..255)
    PROVE  LET numerals == Tool_HexToStr(bytes)
               small == [i \in 1..Len(numerals) |-> tolower(numerals[i])]
           IN  /\ Len(numerals) = 2 * Len(bytes)
               /\ \A i \in 1..Len(numerals) : numerals[i] \in (48..57) \cup (65..70)
               /\ Tool_StrToHex(numerals) = bytes
               /\ Tool_StrToHex(small) = bytes
<1> DEFINE numerals == Tool_HexToStr(bytes)
           small == [i \in 1..Len(numerals) |-> tolower(numerals[i])]
           N == Len(bytes)
           Half(i) == IF i % 2 = 1 THEN bytes[(i + 1) \div 2] \div 16
                      ELSE bytes[(i + 1) \div 2] % 16
<1>1. N \in Nat /\ \A k \in 1..N : bytes[k] \in 0..255
  BY LenProperties, ElementOfSeq
<1>2. numerals = [i \in 1..2 * N |-> Numeral(Half(i))]
  BY DEF Tool_HexToStr
<1>3. ASSUME NEW k \in 1..N
      PROVE  /\ 2 * k - 1 \in 1..2 * N /\ 2 * k \in 1..2 * N
             /\ Half(2 * k - 1) = bytes[k] \div 16 /\ Half(2 * k) = bytes[k] % 16
             /\ bytes[k] \div 16 \in 0..15 /\ bytes[k] % 16 \in 0..15
             /\ ((bytes[k] \div 16) * 16 + (bytes[k] % 16)) % 256 = bytes[k]
  <2>1. bytes[k] \in 0..255
    BY <1>1
  <2>2. /\ 2 * k - 1 \in 1..2 * N /\ 2 * k \in 1..2 * N
        /\ (2 * k - 1) % 2 = 1 /\ (2 * k) % 2 # 1
        /\ ((2 * k - 1) + 1) \div 2 = k /\ (2 * k + 1) \div 2 = k
    BY <1>1
  <2>3. Half(2 * k - 1) = bytes[k] \div 16 /\ Half(2 * k) = bytes[k] % 16
    BY <2>2
  <2>4. \A b \in 0..255 : /\ b \div 16 \in 0..15 /\ b % 16 \in 0..15
                          /\ ((b \div 16) * 16 + (b % 16)) % 256 = b
    OBVIOUS
  <2> QED BY ZenonT(60), <2>1, <2>2, <2>3, <2>4
<1>4. ASSUME NEW i \in 1..2 * N PROVE Half(i) \in 0..15
  <2>1. (i + 1) \div 2 \in 1..N
    BY <1>1
  <2>2. bytes[(i + 1) \div 2] \in 0..255
    BY <1>1, <2>1
  <2>3. \A b \in 0..255 : b \div 16 \in 0..15 /\ b % 16 \in 0..15
    OBVIOUS
  <2> QED BY <2>2, <2>3
<1> HIDE DEF numerals, Half, N
<1>5. /\ \A i \in 1..2 * N : numerals[i] = Numeral(Half(i)) /\ numerals[i] \in (48..57) \cup (65..70)
      /\ Len(numerals) = 2 * N
  <2>1. 2 * N \in Nat
    BY <1>1
  <2>2. \A i \in 1..2 * N : numerals[i] = Numeral(Half(i)) /\ numerals[i] \in (48..57) \cup (65..70)
    BY <1>2, <1>4, NibbleOfNumeral
  <2>3. numerals \in Seq((48..57) \cup (65..70)) /\ DOMAIN numerals = 1..2 * N
    <3>1. numerals \in [1..2 * N -> (48..57) \cup (65..70)]
      BY <1>2, <2>2
    <3> QED BY SMTT(40), <2>1, <3>1, SeqDef
  <2> QED BY <2>1, <2>2, <2>3, LenProperties
<1>6. bytes = [k \in 1..N |-> bytes[k]]
  BY LenProperties DEF N
<1>7. ASSUME NEW k \in 1..N
      PROVE  \E h, l \in 0..15 : /\ numerals[2 * k - 1] = Numeral(h) /\ numerals[2 * k] = Numeral(l)
                                 /\ (h * 16 + l) % 256 = bytes[k]
  <2>1. numerals[2 * k - 1] = Numeral(Half(2 * k - 1)) /\ numerals[2 * k] = Numeral(Half(2 * k))
    BY <1>3, <1>5
  <2>2. /\ Half(2 * k - 1) \in 0..15 /\ Half(2 * k) \in 0..15
        /\ (Half(2 * k - 1) * 16 + Half(2 * k)) % 256 = bytes[k]
    BY <1>3
  <2>3. PICK h, l \in 0..15 : h = Half(2 * k - 1) /\ l = Half(2 * k)
    BY <2>2
  <2> QED BY ZenonT(60), <2>1, <2>2, <2>3
<1>8. Tool_StrToHex(numerals) = bytes
  <2>1. ASSUME NEW k \in 1..N
        PROVE  (Nibble(numerals[2 * k - 1]) * 16 + Nibble(numerals[2 * k])) % 256 = bytes[k]
    <3>1. PICK h, l \in 0..15 :
             /\ numerals[2 * k - 1] = Numeral(h) /\ numerals[2 * k] = Numeral(l)
             /\ (h * 16 + l) % 256 = bytes[k]
      BY <1>7
    <3>2. Nibble(Numeral(h)) = h /\ Nibble(Numeral(l)) = l
      BY NibbleOfNumeral
    <3> QED BY <3>1, <3>2
  <2>2. Len(numerals) \div 2 = N
    BY <1>1, <1>5
  <2> QED BY <1>6, <2>1, <2>2 DEF Tool_StrToHex
<1>9. Tool_StrToHex(small) = bytes
  <2>1. Len(small) = 2 * N /\ \A i \in 1..2 * N : small[i] = tolower(numerals[i])
    <3>1. 2 * N \in Nat
      BY <1>1
    <3>2. small \in [1..2 * N -> Int]
      <4>0. \A c \in (48..57) \cup (65..70) : tolower(c) \in Int
        BY DEF tolower
      <4>1. \A i \in 1..2 * N : tolower(numerals[i]) \in Int
        BY <1>5, <4>0
      <4>2. small = [i \in 1..2 * N |-> tolower(numerals[i])]
        BY <1>5
      <4> QED BY <4>1, <4>2
    <3>3. small \in Seq(Int) /\ DOMAIN small = 1..2 * N
      BY <3>1, <3>2, SeqDef
    <3> QED BY <1>5, <3>1, <3>3, LenProperties
  <2> HIDE DEF small
  <2>2. ASSUME NEW k \in 1..N
        PROVE  (Nibble(small[2 * k - 1]) * 16 + Nibble(small[2 * k])) % 256 = bytes[k]
    <3>1. PICK h, l \in 0..15 :
             /\ numerals[2 * k - 1] = Numeral(h) /\ numerals[2 * k] = Numeral(l)
             /\ (h * 16 + l) % 256 = bytes[k]
      BY <1>7
    <3>2. /\ small[2 * k - 1] = tolower(numerals[2 * k - 1])
          /\ small[2 * k] = tolower(numerals[2 * k])
      BY <1>3, <2>1
    <3>3. Nibble(tolower(Numeral(h))) = h /\ Nibble(tolower(Numeral(l))) = l
      BY NibbleOfNumeral
    <3> QED BY <3>1, <3>2, <3>3
  <2>3. Len(small) \div 2 = N
    BY <1>1, <2>1
  <2> QED BY <1>6, <2>2, <2>3 DEF Tool_StrToHex
<1> QED BY <1>5, <1>8, <1>9 DEF numerals, N

(* The loop of Tool_GetByteIndex, as the equation that its recursive form    *)
(* solves: some function does, and every one that does finds the first byte. *)
LoopEquation(f, buf, len, byte) ==
    f = [index \in Nat |->
            IF index < len /\ buf[index + 1] # byte THEN f[index + 1] ELSE index]

LEMMA LoopEnds ==
    ASSUME NEW buf, NEW len \in Nat, NEW byte
    PROVE  \E f : LoopEquation(f, buf, len, byte)
<1> DEFINE Ends(i) == {j \in Nat : i <= j /\ (j = len \/ (j < len /\ buf[j + 1] = byte))}
           Least(i) == CHOOSE m \in Ends(i) : \A q \in Ends(i) : m <= q
           g == [i \in Nat |-> IF i < len THEN Least(i) ELSE i]
<1>1. ASSUME NEW i \in Nat, i < len PROVE Least(i) \in Ends(i) /\ \A q \in Ends(i) : Least(i) <= q
  <2>1. Ends(i) \subseteq Nat /\ len \in Ends(i)
    BY <1>1
  <2> HIDE DEF Ends
  <2> QED BY <2>1, LeastExists
<1>2. ASSUME NEW i \in Nat
      PROVE  g[i] = IF i < len /\ buf[i + 1] # byte THEN g[i + 1] ELSE i
  <2>0. /\ g[i] = IF i < len THEN Least(i) ELSE i
        /\ g[i + 1] = IF i + 1 < len THEN Least(i + 1) ELSE i + 1
    OBVIOUS
  <2> HIDE DEF g
  <2>1. CASE i >= len
    BY <2>0, <2>1
  <2>2. CASE i < len /\ buf[i + 1] = byte
    <3>1. i \in Ends(i) /\ Least(i) \in Ends(i) /\ \A q \in Ends(i) : Least(i) <= q
      BY <1>1, <2>2
    <3> HIDE DEF Least
    <3>2. Least(i) \in Nat /\ i <= Least(i) /\ Least(i) <= i
      BY <3>1
    <3> QED BY <2>0, <2>2, <3>2
  <2>3. CASE i < len /\ buf[i + 1] # byte
    <3>1. Ends(i) = Ends(i + 1)
      BY <2>3
    <3>2. CASE i + 1 < len
      BY <2>0, <2>3, <3>1, <3>2
    <3>3. CASE ~(i + 1 < len)
      <4>1. Least(i) \in Ends(i)
        BY <1>1, <2>3
      <4> HIDE DEF Least
      <4>2. len = i + 1 /\ Least(i) = len
        BY <2>3, <3>1, <3>3, <4>1
      <4> QED BY <2>0, <2>3, <3>3, <4>2
    <3> QED BY <3>2, <3>3
  <2> QED BY <2>1, <2>2, <2>3
<1> HIDE DEF Ends, Least
<1>3. g = [i \in Nat |-> IF i < len /\ buf[i + 1] # byte THEN g[i + 1] ELSE i]
  <2>1. g = [i \in Nat |-> g[i]]
    OBVIOUS
  <2> HIDE DEF g
  <2> QED BY <1>2, <2>1
<1> HIDE DEF g
<1> QED BY <1>3 DEF LoopEquation

LEMMA FirstIndex ==
    ASSUME NEW buf, NEW start \in Nat, NEW len \in Nat, NEW byte
    PROVE  LET index == Tool_GetByteIndex(buf, start, len, byte)
           IN  /\ \A i \in start..(index - 1) : buf[i + 1] # byte
               /\ \/ index = (IF start > len THEN start ELSE len)
                  \/ index < len /\ buf[index + 1] = byte
               /\ index >= start
<1> DEFINE from == CHOOSE f : LoopEquation(f, buf, len, byte)
           Right(i) == /\ from[i] \in Nat /\ i <= from[i]
                       /\ \A k \in i..(from[i] - 1) : buf[k + 1] # byte
                       /\ from[i] = len \/ (from[i] < len /\ buf[from[i] + 1] = byte)
           Bad == {d \in 0..len : ~Right(len - d)}
<1>1. LoopEquation(from, buf, len, byte)
  BY LoopEnds
<1>2. Tool_GetByteIndex(buf, start, len, byte) = from[start]
  BY DEF Tool_GetByteIndex, LoopEquation
<1> HIDE DEF from
<1>3. \A i \in Nat : from[i] = IF i < len /\ buf[i + 1] # byte THEN from[i + 1] ELSE i
  BY <1>1 DEF LoopEquation
<1>4. Bad = {}
  <2> SUFFICES ASSUME Bad # {} PROVE FALSE
    OBVIOUS
  <2>1. PICK d \in Bad : \A e \in Bad : d <= e
    <3>1. Bad \subseteq Nat
      OBVIOUS
    <3> HIDE DEF Bad
    <3> QED BY <3>1, LeastExists
  <2>2. PICK i \in 0..len : i = len - d /\ ~Right(i)
    BY <2>1
  <2>3. from[i] = IF i < len /\ buf[i + 1] # byte THEN from[i + 1] ELSE i
    BY <1>3
  <2>4. CASE i = len
    BY <2>2, <2>3, <2>4
  <2>5. CASE i < len /\ buf[i + 1] = byte
    BY <2>2, <2>3, <2>5
  <2>6. CASE i < len /\ buf[i + 1] # byte
    <3>1. d - 1 \in 0..len /\ ~(d <= d - 1) /\ len - (d - 1) = i + 1
      BY <2>1, <2>2, <2>6
    <3>2. Right(i + 1)
      BY <2>1, <3>1
    <3>3. from[i] = from[i + 1] /\ i + 1 <= from[i]
      BY <2>3, <2>6, <3>2
    <3>4. \A k \in i..(from[i] - 1) : k = i \/ k \in (i + 1)..(from[i + 1] - 1)
      BY <3>2, <3>3
    <3>5. Right(i)
      BY <2>6, <3>2, <3>3, <3>4
    <3> QED BY <2>2, <3>5
  <2> QED BY <2>4, <2>5, <2>6
<1>5. CASE start <= len
  <2>1. Right(start)
    <3>1. len - start \in 0..len /\ len - (len - start) = start
      BY <1>5
    <3> QED BY <1>4, <3>1
  <2> QED BY <1>2, <1>5, <2>1
<1>6. CASE start > len
  BY <1>2, <1>3, <1>6
<1> QED BY <1>5, <1>6

-----------------------------------------------------------------------------
LEMMA InitTool == ToolInit => ToolsMeetTheirDocs
<1> SUFFICES ASSUME ToolInit PROVE ToolsMeetTheirDocs
  OBVIOUS
<1>1. pbSrc = <<>> /\ text = <<>> /\ back = <<>> /\ search = <<>> /\ Len(<<>>) = 0
  BY DEF ToolInit
<1> QED BY <1>1 DEF ToolsMeetTheirDocs, HexRoundTrip, IndexIsFirst

LEMMA StepTool == ToolsMeetTheirDocs /\ [ToolNext]_toolVars => ToolsMeetTheirDocs'
<1> SUFFICES ASSUME ToolsMeetTheirDocs, [ToolNext]_toolVars PROVE ToolsMeetTheirDocs'
  OBVIOUS
<1>1. CASE Convert
  <2>1. PICK bytes \in Datum :
           /\ pbSrc' = bytes /\ text' = Tool_HexToStr(bytes) /\ search' = <<>>
           /\ back' = <<Tool_StrToHex(text'),
                        Tool_StrToHex([i \in 1..Len(text') |-> tolower(text'[i])])>>
    BY <1>1 DEF Convert
  <2>2. bytes \in Seq(0..255)
    BY ToolAssumption
  <2>3. /\ Len(text') = 2 * Len(bytes)
        /\ \A i \in 1..Len(text') : text'[i] \in (48..57) \cup (65..70)
        /\ Tool_StrToHex(text') = bytes
        /\ Tool_StrToHex([i \in 1..Len(text') |-> tolower(text'[i])]) = bytes
    BY <2>1, <2>2, RoundTrip
  <2>4. back' = <<bytes, bytes>>
    BY <2>1, <2>3
  <2>5. \A k \in 1..Len(back') : back'[k] = pbSrc'
    BY <2>1, <2>4
  <2>6. HexRoundTrip'
    BY <2>1, <2>3, <2>5 DEF HexRoundTrip
  <2>7. IndexIsFirst'
    BY <2>1 DEF IndexIsFirst
  <2> QED BY <2>6, <2>7 DEF ToolsMeetTheirDocs
<1>2. CASE Search
  <2>1. PICK buf \in Buffer, byte \in Wanted : \E start, len \in 0..Len(buf) :
           search' = <<buf, start, len, byte, Tool_GetByteIndex(buf, start, len, byte)>>
    BY <1>2 DEF Search
  <2>2. PICK start \in 0..Len(buf), len \in 0..Len(buf) :
           search' = <<buf, start, len, byte, Tool_GetByteIndex(buf, start, len, byte)>>
    BY <2>1
  <2>3. start \in Nat /\ len \in Nat
    OBVIOUS
  <2>4. PICK index : index = Tool_GetByteIndex(buf, start, len, byte)
    OBVIOUS
  <2>5. /\ \A i \in start..(index - 1) : buf[i + 1] # byte
        /\ index = (IF start > len THEN start ELSE len) \/ (index < len /\ buf[index + 1] = byte)
        /\ index >= start
    BY <2>3, <2>4, FirstIndex
  <2>6. /\ search'[1] = buf /\ search'[2] = start /\ search'[3] = len
        /\ search'[4] = byte /\ search'[5] = index
    BY <2>2, <2>4
  <2>7. IndexIsFirst'
    BY <2>5, <2>6 DEF IndexIsFirst
  <2>8. HexRoundTrip'
    <3>1. pbSrc' = <<>> /\ text' = <<>> /\ back' = <<>> /\ Len(<<>>) = 0
      BY <1>2 DEF Search
    <3> QED BY <3>1 DEF HexRoundTrip
  <2> QED BY <2>7, <2>8 DEF ToolsMeetTheirDocs
<1>3. CASE UNCHANGED toolVars
  BY <1>3 DEF toolVars, ToolsMeetTheirDocs, HexRoundTrip, IndexIsFirst
<1> QED BY <1>1, <1>2, <1>3 DEF ToolNext

(* Any bytes survive the way to numerals and back, and the search finds the  *)
(* first place of a byte or the end, in every buffer and from every start.   *)
THEOREM ToolsCorrect == ToolSpec => []ToolsMeetTheirDocs
BY InitTool, StepTool, PTL DEF ToolSpec
=============================================================================
