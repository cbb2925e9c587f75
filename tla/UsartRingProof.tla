--------------------------- MODULE UsartRingProof ---------------------------
(* Proofs about the rings of a serial port, for rings of any length, with and*)
(* without masked interrupts, however much the task writes.                  *)
EXTENDS UsartRing, SequenceTheorems, TLAPS

LEMMA Positions ==
  /\ 0 \in Slot
  /\ \A p \in Slot : Next1(p) \in Slot
  /\ \A p \in Slot, k \in Nat : Slide(p, k) \in Slot
  /\ \A p, q \in Slot : Ahead(p, q) \in 1..len
<1>1. \A p \in Slot, k \in Nat : (p + k) % len \in Slot
  BY UsartAssumption DEF Slot
<1>. QED
  BY <1>1, UsartAssumption DEF Slot, Next1, Slide, Ahead

(* A run of bytes of a ring is a sequence of bytes.                          *)
LEMMA RunIsSeq ==
  ASSUME NEW buf \in [Slot -> Byte], NEW p \in Slot, NEW n \in Nat
  PROVE  Run(buf, p, n) \in Seq(Byte)
<1>1. \A k \in 1..n : k - 1 \in Nat
  OBVIOUS
<1>2. \A k \in 1..n : Slide(p, k - 1) \in Slot
  BY <1>1, Positions
<1>. QED
  BY <1>2 DEF Run

LEMMA InitTypeOK == Init => TypeOK
<1> SUFFICES ASSUME Init PROVE TypeOK
  OBVIOUS
<1>1. sendBuf \in [Slot -> Byte] /\ recBuf \in [Slot -> Byte]
  BY UsartAssumption DEF Init
<1>2. /\ pSendBufH \in Slot /\ pSendBufE \in Slot
      /\ pRecBufH \in Slot /\ pRecBufE \in Slot /\ pH \in Slot
  BY Positions DEF Init
<1>3. r \in 0..len
  BY UsartAssumption DEF Init
<1>4. DR \in Seq(Byte) /\ pData \in Seq(Byte)
  BY DEF Init
<1>5. unsent \in Seq(Byte) /\ unread \in Seq(Byte)
  BY DEF Init
<1>. QED
  BY <1>1, <1>2, <1>3, <1>4, <1>5 DEF Init, TypeOK

(* The call of usart_SetData keeps every byte and position in range.         *)
LEMMA SetDataTypeOK ==
  ASSUME TypeOK, NEW n \in 1..len, NEW data \in [1..n -> Byte], SetData(data)
  PROVE  TypeOK'
<1>1. Len(data) = n
  OBVIOUS
<1> DEFINE room == Ahead(pSendBufH, pSendBufE)
           k == IF n < room THEN n ELSE room
           Offset(i) == IF i = pSendBufH THEN 0 ELSE Ahead(pSendBufH, i)
<1>2. room \in 1..len /\ n \in Nat
  BY Positions DEF TypeOK
<1>3. k \in 1..n /\ k \in 1..len /\ k \in Nat
  BY <1>2, UsartAssumption
<1>4. /\ sendBuf' = [i \in Slot |-> IF Offset(i) < k THEN data[Offset(i) + 1] ELSE sendBuf[i]]
      /\ pH' = Slide(pSendBufH, k)
      /\ r' = (IF n < room THEN k ELSE room - 1)
      /\ pc' = "publish"
      /\ UNCHANGED <<pSendBufH, pSendBufE, TXEIE, DR, unsent>>
      /\ UNCHANGED <<recBuf, pRecBufH, pRecBufE, pData, unread>>
  BY <1>1 DEF SetData, rxVars
<1>5. sendBuf' \in [Slot -> Byte]
  <2>1. ASSUME NEW i \in Slot, Offset(i) < k PROVE data[Offset(i) + 1] \in Byte
    <3>0. pSendBufH \in Slot
      BY DEF TypeOK
    <3>a. Ahead(pSendBufH, i) \in 1..len
      BY <3>0, Positions
    <3>1. Offset(i) \in 0..len
      <4> HIDE DEF k
      <4>1. 0 \in 0..len /\ 1..len \subseteq 0..len
        BY UsartAssumption
      <4>. QED
        BY <3>a, <4>1
    <3> HIDE DEF Offset, k
    <3>. QED
      BY <2>1, <1>2, <1>3, <3>1
  <2>2. \A i \in Slot : sendBuf[i] \in Byte
    BY DEF TypeOK
  <2> HIDE DEF Offset, k
  <2>. QED
    BY <1>4, <2>1, <2>2
<1>6. pH' \in Slot
  BY <1>3, <1>4, Positions DEF TypeOK
<1>7. r' \in 0..len
  BY <1>2, <1>3, <1>4, UsartAssumption
<1>. QED
  BY <1>4, <1>5, <1>6, <1>7 DEF TypeOK

LEMMA NextTypeOK == TypeOK /\ [Next]_vars => TypeOK'
<1> SUFFICES ASSUME TypeOK, [Next]_vars PROVE TypeOK'
  OBVIOUS
<1>1. ASSUME NEW n \in 1..len, NEW data \in [1..n -> Byte], SetData(data)
      PROVE  TypeOK'
  BY <1>1, SetDataTypeOK
<1>2. ASSUME NEW size \in 0..len, GetData(size) PROVE TypeOK'
  <2>1. pData' \in Seq(Byte)
    <3>1. pData' = <<>> \/ pData' = pData
      BY <1>2 DEF GetData
    <3>2. <<>> \in Seq(Byte) /\ pData \in Seq(Byte)
      BY DEF TypeOK
    <3>. QED
      BY <3>1, <3>2
  <2>2. pH' \in Slot
    BY <1>2 DEF GetData, TypeOK
  <2>3. r' \in 0..len
    BY <1>2 DEF GetData, TypeOK
  <2>4. pc' \in {"idle", "publish", "kick", "copy"}
    BY <1>2 DEF GetData, TypeOK
  <2>. QED
    BY <1>2, <2>1, <2>2, <2>3, <2>4 DEF GetData, TypeOK, txVars
<1>3. CASE Publish
  <2>1. Run(sendBuf, pSendBufH, Ahead(pSendBufH, pH)) \in Seq(Byte)
    <3>0. pSendBufH \in Slot /\ pH \in Slot
      BY DEF TypeOK
    <3>a. Ahead(pSendBufH, pH) \in 1..len
      BY <3>0, Positions
    <3>1. Ahead(pSendBufH, pH) \in Nat
      BY <3>a
    <3>. QED
      BY <3>1, RunIsSeq DEF TypeOK
  <2>2. unsent' \in Seq(Byte)
    <3>1. unsent \in Seq(Byte)
      BY DEF TypeOK
    <3>2. unsent \o Run(sendBuf, pSendBufH, Ahead(pSendBufH, pH)) \in Seq(Byte)
      BY <2>1, <3>1, ConcatProperties
    <3>. QED
      BY <1>3, <3>1, <3>2 DEF Publish
  <2>3. pSendBufH' \in Slot
    BY <1>3 DEF Publish, TypeOK
  <2>. QED
    BY <1>3, <2>2, <2>3 DEF Publish, TypeOK, rxVars
<1>4. CASE Kick
  BY <1>4 DEF Kick, TypeOK, rxVars
<1>5. CASE Copy
  <2>1. PICK n : /\ n = (IF Available > r /\ r # 0 THEN r ELSE Available)
                 /\ pData' = Run(recBuf, pRecBufE, n)
                 /\ pRecBufE' = Slide(pRecBufE, n)
                 /\ unread' = SubSeq(unread, n + 1, Len(unread))
    BY <1>5 DEF Copy
  <2>2. n \in Nat
    BY <2>1, UsartAssumption DEF Available, TypeOK, Slot
  <2>3. pData' \in Seq(Byte)
    BY <2>1, <2>2, RunIsSeq DEF TypeOK
  <2>4. pRecBufE' \in Slot
    BY <2>1, <2>2, Positions DEF TypeOK
  <2>5. unread' \in Seq(Byte)
    <3>1. unread \in Seq(Byte)
      BY DEF TypeOK
    <3>2. n + 1 \in 1..(Len(unread) + 1) \/ n + 1 > Len(unread)
      BY <2>2, <3>1
    <3>3. \A i \in (n + 1)..Len(unread) : unread[i] \in Byte
      BY <2>2, <3>1
    <3>. QED
      BY <2>1, <2>2, <3>1, <3>3
  <2>. QED
    BY <1>5, <2>3, <2>4, <2>5 DEF Copy, TypeOK, txVars
<1>6. ASSUME NEW b \in Byte, Receive(b)
      PROVE  /\ recBuf' \in [Slot -> Byte] /\ pRecBufH' \in Slot
             /\ unread' \in Seq(Byte)
             /\ UNCHANGED <<pRecBufE, pData>>
  <2>1. recBuf' \in [Slot -> Byte]
    BY <1>6 DEF Receive, TypeOK
  <2>2. pRecBufH' \in Slot
    BY <1>6, Positions DEF Receive, TypeOK
  <2>3. unread' \in Seq(Byte)
    BY <1>6 DEF Receive, TypeOK
  <2>. QED
    BY <1>6, <2>1, <2>2, <2>3 DEF Receive
<1>7. ASSUME Transmit
      PROVE  /\ pSendBufE' \in Slot /\ TXEIE' \in BOOLEAN
             /\ DR' \in Seq(Byte) /\ unsent' \in Seq(Byte)
             /\ UNCHANGED <<sendBuf, pSendBufH>>
  <2>1. pSendBufE' \in Slot
    BY <1>7, Positions DEF Transmit, TypeOK
  <2>2. DR' \in Seq(Byte)
    <3>1. sendBuf[pSendBufE] \in Byte
      BY DEF TypeOK
    <3>. QED
      BY <1>7, <3>1 DEF Transmit
  <2>3. unsent' \in Seq(Byte)
    BY <1>7 DEF Transmit, TypeOK
  <2>. QED
    BY <1>7, <2>1, <2>2, <2>3 DEF Transmit
<1>8. CASE USART_IRQHandler
  <2>1. CASE RxIRQ
    BY <1>6, <2>1 DEF RxIRQ, TypeOK, txVars
  <2>2. CASE TxIRQ
    BY <1>7, <2>2 DEF TxIRQ, TypeOK, rxVars
  <2>3. CASE BothIRQ
    BY <1>6, <1>7, <2>3 DEF BothIRQ, TypeOK
  <2>. QED
    BY <1>8, <2>1, <2>2, <2>3 DEF USART_IRQHandler
<1>9. CASE UNCHANGED vars
  BY <1>9 DEF vars, txVars, rxVars, TypeOK
<1>. QED
  BY <1>1, <1>2, <1>3, <1>4, <1>5, <1>8, <1>9 DEF Next, Call, Continue

(* The positions stay inside the rings, the variables in range.              *)
THEOREM TypeCorrect == Spec => []TypeOK
  BY InitTypeOK, NextTypeOK, PTL DEF Spec

(* Whatever the interleaving of the task with the interrupt handler, bytes   *)
(* that wait in the ring are never left without the transmit interrupt.      *)
THEOREM WakeupKept == Spec => []NoLostWakeup
<1>1. Init => NoLostWakeup
  BY DEF Init, NoLostWakeup
<1>2. NoLostWakeup /\ [Next]_vars => NoLostWakeup'
  <2> SUFFICES ASSUME NoLostWakeup, [Next]_vars PROVE NoLostWakeup'
    OBVIOUS
  <2> USE DEF NoLostWakeup
  <2>1. ASSUME NEW data, SetData(data) PROVE NoLostWakeup'
    BY <2>1 DEF SetData
  <2>2. ASSUME NEW size, GetData(size) PROVE NoLostWakeup'
    BY <2>2 DEF GetData, txVars
  <2>3. CASE Publish
    BY <2>3 DEF Publish
  <2>4. CASE Kick
    BY <2>4 DEF Kick
  <2>5. CASE Copy
    BY <2>5 DEF Copy, txVars
  <2>6. CASE USART_IRQHandler
    <3>1. CASE RxIRQ
      BY <3>1 DEF RxIRQ, txVars
    <3>2. CASE Transmit /\ UNCHANGED <<pc, r>>
      BY <3>2 DEF Transmit
    <3>. QED
      BY <2>6, <3>1, <3>2 DEF USART_IRQHandler, TxIRQ, BothIRQ
  <2>7. CASE UNCHANGED vars
    BY <2>7 DEF vars, txVars
  <2>. QED
    BY <2>1, <2>2, <2>3, <2>4, <2>5, <2>6, <2>7 DEF Next, Call, Continue
<1>. QED
  BY <1>1, <1>2, PTL DEF Spec
-----------------------------------------------------------------------------
(* Order.  Between tail e and head h a ring holds exactly the bytes of q,    *)
(* and it is never full.                                                     *)
Holds(buf, e, h, q) ==
    /\ Len(q) < len
    /\ h = Slide(e, Len(q))
    /\ \A k \in 1..Len(q) : buf[Slide(e, k - 1)] = q[k]

LEMMA SlideIs ==
  ASSUME NEW p \in Slot, NEW k \in 0..len
  PROVE  Slide(p, k) = IF p + k < len THEN p + k ELSE p + k - len
<1>1. \A x \in 0..(len - 1) : x % len = x
  BY UsartAssumption
<1>2. \A x \in len..(2 * len - 1) : x % len = x - len
  BY UsartAssumption
<1> QED BY <1>1, <1>2, UsartAssumption DEF Slide, Slot

LEMMA SlideSlide ==
  ASSUME NEW p \in Slot, NEW j \in 0..len, NEW k \in 0..len, j + k <= len
  PROVE  /\ Slide(p, j) \in Slot
         /\ Slide(Slide(p, j), k) = Slide(p, j + k)
<1>1. j + k \in 0..len
  BY UsartAssumption
<1>2. /\ Slide(p, j) = IF p + j < len THEN p + j ELSE p + j - len
      /\ Slide(p, j + k) = IF p + (j + k) < len THEN p + (j + k) ELSE p + (j + k) - len
  BY <1>1, SlideIs
<1>3. Slide(p, j) \in Slot
  BY <1>2, UsartAssumption DEF Slot
<1>4. Slide(Slide(p, j), k) = IF Slide(p, j) + k < len THEN Slide(p, j) + k
                              ELSE Slide(p, j) + k - len
  BY <1>3, SlideIs
<1> QED BY <1>2, <1>3, <1>4, UsartAssumption DEF Slot

LEMMA NextIsSlide == ASSUME NEW p \in Slot PROVE Next1(p) = Slide(p, 1)
  BY SlideIs, UsartAssumption DEF Next1, Slot

LEMMA AheadIs ==
  ASSUME NEW p \in Slot, NEW k \in 0..(len - 1)
  PROVE  /\ Ahead(Slide(p, k), p) = len - k
         /\ k # 0 => Ahead(p, Slide(p, k)) = k
<1>1. k \in 0..len
  BY UsartAssumption
<1> QED BY <1>1, SlideIs, UsartAssumption DEF Ahead, Slot

(* Taking the first n bytes off a ring, in one read or one by one.           *)
LEMMA TakeKeeps ==
  ASSUME NEW buf, NEW e \in Slot, NEW h, NEW q \in Seq(Byte), Holds(buf, e, h, q),
         NEW n \in 0..Len(q)
  PROVE  /\ Run(buf, e, n) = SubSeq(q, 1, n)
         /\ Holds(buf, Slide(e, n), h, SubSeq(q, n + 1, Len(q)))
<1>1. PICK u : u = Len(q)
  OBVIOUS
<1>2. u \in Nat /\ u < len /\ n \in 0..u /\ len \in Nat
  BY <1>1, UsartAssumption DEF Holds
<1>3. Run(buf, e, n) = SubSeq(q, 1, n)
  <2>1. \A k \in 1..n : buf[Slide(e, k - 1)] = q[k]
    BY <1>1, <1>2 DEF Holds
  <2>2. SubSeq(q, 1, n) = [k \in 1..n |-> q[k]]
    BY <1>1, <1>2
  <2> QED BY <2>1, <2>2 DEF Run
<1>4. PICK rest : rest = SubSeq(q, n + 1, u)
  OBVIOUS
<1>5. /\ rest \in Seq(Byte) /\ Len(rest) = u - n
      /\ \A k \in 1..(u - n) : rest[k] = q[n + k]
  BY <1>1, <1>2, <1>4
<1>6. h = Slide(Slide(e, n), u - n)
  <2>1. n \in 0..len /\ u - n \in 0..len /\ n + (u - n) = u /\ u <= len
    BY <1>2
  <2> QED BY <1>1, <2>1, SlideSlide DEF Holds
<1>7. ASSUME NEW k \in 1..(u - n) PROVE buf[Slide(Slide(e, n), k - 1)] = rest[k]
  <2>1. n \in 0..len /\ k - 1 \in 0..len /\ n + (k - 1) <= len
        /\ n + (k - 1) = (n + k) - 1 /\ n + k \in 1..u
    BY <1>2
  <2>2. Slide(Slide(e, n), k - 1) = Slide(e, (n + k) - 1)
    BY <2>1, SlideSlide
  <2>3. buf[Slide(e, (n + k) - 1)] = q[n + k]
    BY <1>1, <2>1 DEF Holds
  <2> QED BY <1>5, <2>2, <2>3
<1>8. Holds(buf, Slide(e, n), h, rest)
  BY <1>2, <1>5, <1>6, <1>7 DEF Holds
<1> QED BY <1>1, <1>3, <1>4, <1>8

(* The n bytes behind the head become part of what the ring holds.           *)
LEMMA PutKeeps ==
  ASSUME NEW buf \in [Slot -> Byte], NEW e \in Slot, NEW h, NEW q \in Seq(Byte),
         Holds(buf, e, h, q), NEW n \in Nat, Len(q) + n < len
  PROVE  Holds(buf, e, Slide(h, n), q \o Run(buf, h, n))
<1>1. PICK u : u = Len(q)
  OBVIOUS
<1>2. u \in Nat /\ u + n < len /\ len \in Nat
  BY <1>1, UsartAssumption
<1>3. h = Slide(e, u) /\ h \in Slot /\ Slide(h, n) = Slide(e, u + n)
  <2>1. u \in 0..len /\ n \in 0..len /\ u + n <= len
    BY <1>2
  <2> QED BY <1>1, <2>1, SlideSlide DEF Holds
<1>4. PICK more : more = Run(buf, h, n)
  OBVIOUS
<1>5. /\ more \in Seq(Byte) /\ Len(more) = n
      /\ \A k \in 1..n : more[k] = buf[Slide(h, k - 1)]
  <2>1. more \in Seq(Byte)
    BY <1>3, <1>4, RunIsSeq
  <2>2. more = [k \in 1..n |-> buf[Slide(h, k - 1)]]
    BY <1>4 DEF Run
  <2> QED BY <2>1, <2>2
<1>6. /\ q \o more \in Seq(Byte) /\ Len(q \o more) = u + n
      /\ \A k \in 1..u + n : (q \o more)[k] = IF k <= u THEN q[k] ELSE more[k - u]
  BY <1>1, <1>2, <1>5, ConcatProperties
<1>7. ASSUME NEW k \in 1..u + n PROVE buf[Slide(e, k - 1)] = (q \o more)[k]
  <2>1. CASE k <= u
    BY <1>1, <1>2, <1>6, <2>1 DEF Holds
  <2>2. CASE ~(k <= u)
    <3>1. u \in 0..len /\ k - u - 1 \in 0..len /\ u + (k - u - 1) <= len
          /\ u + (k - u - 1) = k - 1 /\ k - u \in 1..n
      BY <1>2, <2>2
    <3>2. Slide(h, k - u - 1) = Slide(e, k - 1)
      BY <1>3, <3>1, SlideSlide
    <3> QED BY <1>5, <1>6, <2>2, <3>1, <3>2
  <2> QED BY <2>1, <2>2
<1>8. Holds(buf, e, Slide(h, n), q \o more)
  BY <1>2, <1>3, <1>6, <1>7 DEF Holds
<1> QED BY <1>4, <1>8

(* Writing behind the head leaves what the ring holds alone.                 *)
LEMMA WriteKeeps ==
  ASSUME NEW buf, NEW new, NEW e \in Slot, NEW h, NEW q \in Seq(Byte),
         Holds(buf, e, h, q),
         \A i \in Slot : i # h /\ Ahead(h, i) >= len - Len(q) => new[i] = buf[i]
  PROVE  Holds(new, e, h, q)
<1>1. PICK u : u = Len(q)
  OBVIOUS
<1>2. u \in Nat /\ u < len /\ len \in Nat /\ h = Slide(e, u)
  BY <1>1, UsartAssumption DEF Holds
<1>3. ASSUME NEW k \in 1..u PROVE new[Slide(e, k - 1)] = buf[Slide(e, k - 1)]
  <2>1. u \in 0..len /\ k - 1 \in 0..len
    BY <1>2
  <2>2. /\ h = IF e + u < len THEN e + u ELSE e + u - len
        /\ Slide(e, k - 1) = IF e + (k - 1) < len THEN e + (k - 1) ELSE e + (k - 1) - len
    BY <1>2, <2>1, SlideIs
  <2>3. /\ Slide(e, k - 1) \in Slot /\ Slide(e, k - 1) # h
        /\ Ahead(h, Slide(e, k - 1)) >= len - u
    BY <1>2, <2>2 DEF Slot, Ahead
  <2> QED BY <1>1, <2>3
<1> QED BY <1>1, <1>3 DEF Holds
-----------------------------------------------------------------------------
(* Reception.  The head the task has read is one the handler has passed or   *)
(* reached, with all bytes up to it still unread.                            *)
RxInv ==
    /\ Holds(recBuf, pRecBufE, pRecBufH, unread)
    /\ pc = "copy" => \E c \in 1..Len(unread) : pH = Slide(pRecBufE, c)

(* One byte comes in.                                                        *)
LEMMA ReceivePuts ==
  ASSUME RX_LIMIT < len, TypeOK, RxInv, NEW b \in Byte, Receive(b), UNCHANGED pH,
         pc' = "copy" => pc = "copy"
  PROVE  RxInv' /\ Rx!Put
<1>1. PICK u : u = Len(unread)
  OBVIOUS
<1>2. /\ u \in Nat /\ u + 1 < len /\ unread \in Seq(Byte)
      /\ pRecBufE \in Slot /\ pRecBufH \in Slot /\ recBuf \in [Slot -> Byte]
  BY <1>1, UsartAssumption DEF Receive, TypeOK
<1>3. /\ recBuf' = [recBuf EXCEPT ![pRecBufH] = b] /\ pRecBufH' = Slide(pRecBufH, 1)
      /\ unread' = Append(unread, b) /\ UNCHANGED <<pRecBufE, pData>>
  BY <1>2, NextIsSlide DEF Receive
<1>4. recBuf' \in [Slot -> Byte] /\ recBuf'[pRecBufH] = b
  BY <1>2, <1>3
<1>5. Holds(recBuf', pRecBufE, pRecBufH, unread)
  <2>1. \A i \in Slot : i # pRecBufH => recBuf'[i] = recBuf[i]
    BY <1>2, <1>3
  <2> QED BY <1>2, <2>1, WriteKeeps DEF RxInv
<1>6. Holds(recBuf', pRecBufE, Slide(pRecBufH, 1), unread \o Run(recBuf', pRecBufH, 1))
  BY <1>1, <1>2, <1>4, <1>5, PutKeeps
<1>7. Run(recBuf', pRecBufH, 1) = <<b>>
  <2>1. Slide(pRecBufH, 0) = pRecBufH
    BY <1>2, SlideIs, UsartAssumption DEF Slot
  <2> QED BY <1>4, <2>1 DEF Run
<1>8. /\ unread \o <<b>> = unread' /\ unread' \in Seq(Byte)
      /\ Len(unread') = u + 1 /\ SubSeq(unread', 1, u) = unread
  BY <1>1, <1>2, <1>3
<1>9. Holds(recBuf, pRecBufE, pRecBufH, unread)'
  BY <1>3, <1>6, <1>7, <1>8 DEF Holds
<1>10. pc' = "copy" => \E c \in 1..Len(unread') : pH' = Slide(pRecBufE', c)
  BY <1>1, <1>2, <1>3, <1>8 DEF RxInv
<1>11. RxInv'
  BY <1>9, <1>10 DEF RxInv, Slide
<1> QED BY <1>1, <1>2, <1>3, <1>8, <1>11 DEF Rx!Put

(* The copy takes what the two pointers leave, the second read of the head   *)
(* (usart.c:158) included.                                                   *)
LEMMA CopyTakes ==
  ASSUME RX_LIMIT < len, TypeOK, RxInv, Copy
  PROVE  RxInv' /\ Rx!Next
<1>1. PICK u : u = Len(unread)
  OBVIOUS
<1>2. /\ u \in Nat /\ u < len /\ unread \in Seq(Byte) /\ len \in Nat
      /\ pRecBufE \in Slot /\ pRecBufH \in Slot /\ pH \in Slot /\ r \in 0..len
  BY <1>1, UsartAssumption DEF Holds, RxInv, TypeOK
<1>3. PICK c \in 1..u : pH = Slide(pRecBufE, c)
  BY <1>1 DEF RxInv, Copy
<1>4. Available \in 1..u
  <2>1. u \in 0..len /\ c \in 0..len
    BY <1>2, <1>3
  <2>2. /\ pH = IF pRecBufE + c < len THEN pRecBufE + c ELSE pRecBufE + c - len
        /\ pRecBufH = IF pRecBufE + u < len THEN pRecBufE + u ELSE pRecBufE + u - len
    BY <1>1, <1>2, <1>3, <2>1, SlideIs DEF RxInv, Holds
  <2> QED BY <1>2, <1>3, <2>2 DEF Available, Slot
<1>5. PICK n \in 0..u : /\ pData' = Run(recBuf, pRecBufE, n)
                        /\ pRecBufE' = Slide(pRecBufE, n)
                        /\ unread' = SubSeq(unread, n + 1, Len(unread))
  <2>1. PICK n : /\ n = IF Available > r /\ r # 0 THEN r ELSE Available
                 /\ pData' = Run(recBuf, pRecBufE, n)
                 /\ pRecBufE' = Slide(pRecBufE, n)
                 /\ unread' = SubSeq(unread, n + 1, Len(unread))
    BY DEF Copy
  <2>2. n \in 0..u
    BY <1>2, <1>4, <2>1
  <2> QED BY <2>1, <2>2
<1>6. UNCHANGED <<recBuf, pRecBufH>> /\ pc' = "idle"
  BY DEF Copy
<1>7. /\ Run(recBuf, pRecBufE, n) = SubSeq(unread, 1, n)
      /\ Holds(recBuf, Slide(pRecBufE, n), pRecBufH, SubSeq(unread, n + 1, Len(unread)))
  BY <1>1, <1>2, TakeKeeps DEF RxInv
<1>8. Holds(recBuf, pRecBufE, pRecBufH, unread)'
  BY <1>5, <1>6, <1>7 DEF Holds
<1>9. RxInv'
  BY <1>6, <1>8 DEF RxInv
<1>10. Rx!Take(n)
  BY <1>5, <1>7 DEF Rx!Take
<1> QED BY <1>1, <1>5, <1>9, <1>10 DEF Rx!Next

LEMMA NextRx ==
  ASSUME RX_LIMIT < len, TypeOK, RxInv, [Next]_vars
  PROVE  RxInv' /\ [Rx!Next]_Rx!vars
<1>1. ASSUME UNCHANGED rxVars, pc' # "copy" PROVE RxInv' /\ [Rx!Next]_Rx!vars
  BY <1>1 DEF rxVars, RxInv, Holds, Rx!vars
<1>2. ASSUME NEW data, SetData(data) PROVE RxInv' /\ [Rx!Next]_Rx!vars
  BY <1>1, <1>2 DEF SetData
<1>3. ASSUME NEW size, GetData(size) PROVE RxInv' /\ [Rx!Next]_Rx!vars
  <2>1. UNCHANGED <<recBuf, pRecBufH, pRecBufE, unread>>
    BY <1>3 DEF GetData
  <2>2. Holds(recBuf, pRecBufE, pRecBufH, unread)'
    BY <2>1 DEF RxInv, Holds
  <2>3. PICK u : u = Len(unread)
    OBVIOUS
  <2>4. u \in Nat /\ pRecBufE \in Slot /\ pRecBufH = Slide(pRecBufE, u)
    BY <2>3 DEF RxInv, Holds, TypeOK
  <2>5. CASE pRecBufH = pRecBufE
    <3>1. u = 0
      <4>1. u < len /\ u \in 0..len
        BY <2>3, <2>4, UsartAssumption DEF RxInv, Holds
      <4>2. Slide(pRecBufE, u) = IF pRecBufE + u < len THEN pRecBufE + u
                                 ELSE pRecBufE + u - len
        BY <2>4, <4>1, SlideIs
      <4>3. PICK e \in Int : e = pRecBufE
        BY <2>4, UsartAssumption DEF Slot
      <4>4. e = IF e + u < len THEN e + u ELSE e + u - len
        BY <2>4, <2>5, <4>2, <4>3
      <4> QED BY <2>4, <4>1, <4>3, <4>4, UsartAssumption
    <3>2. pData' = <<>> /\ pc' # "copy"
      BY <1>3, <2>5 DEF GetData
    <3>3. Rx!Take(0)
      <4>1. unread \in Seq(Byte) /\ Len(unread) = 0
        BY <2>3, <3>1 DEF TypeOK
      <4>2. SubSeq(unread, 1, 0) = <<>> /\ SubSeq(unread, 1, Len(unread)) = unread
        BY <4>1
      <4> QED BY <2>1, <3>2, <4>1, <4>2 DEF Rx!Take
    <3>4. 0 \in 0..Len(unread)
      BY <2>3, <2>4
    <3> QED BY <2>2, <3>2, <3>3, <3>4 DEF RxInv, Rx!Next
  <2>6. CASE pRecBufH # pRecBufE
    <3>1. /\ pH' = pRecBufH /\ UNCHANGED pData
      BY <1>3, <2>6 DEF GetData
    <3>2. u # 0
      <4>1. Slide(pRecBufE, 0) = pRecBufE
        BY <2>4, SlideIs, UsartAssumption DEF Slot
      <4> QED BY <2>4, <2>6, <4>1
    <3>3. \E c \in 1..Len(unread) : pH' = Slide(pRecBufE, c)
      BY <2>3, <2>4, <3>1, <3>2
    <3>4. \E c \in 1..Len(unread') : pH' = Slide(pRecBufE', c)
      BY <2>1, <3>3
    <3> QED BY <2>1, <2>2, <3>1, <3>4 DEF RxInv, Rx!vars, Slide
  <2> QED BY <2>5, <2>6
<1>4. CASE Publish \/ Kick
  BY <1>1, <1>4 DEF Publish, Kick
<1>5. CASE Copy
  BY <1>5, CopyTakes
<1>6. CASE USART_IRQHandler
  <2>1. CASE TxIRQ
    BY <2>1 DEF TxIRQ, rxVars, RxInv, Holds, Slide, Rx!vars
  <2>2. ASSUME NEW b \in Byte, Receive(b), UNCHANGED <<pc, pH>>
        PROVE  RxInv' /\ [Rx!Next]_Rx!vars
    BY <2>2, ReceivePuts DEF Rx!Next
  <2> QED BY <1>6, <2>1, <2>2 DEF USART_IRQHandler, RxIRQ, BothIRQ
<1>7. CASE UNCHANGED vars
  BY <1>7 DEF vars, rxVars, RxInv, Holds, Slide, Rx!vars
<1> QED BY <1>2, <1>3, <1>4, <1>5, <1>6, <1>7 DEF Next, Call, Continue

(* As long as the reader keeps up with the line, its calls return the bytes  *)
(* received, once and in order, for rings of any length, with and without    *)
(* masked interrupts, wherever the handler interrupts a call.                *)
THEOREM ReceivedInOrder == ASSUME RX_LIMIT < len PROVE Spec => RxInOrder
<1>1. Init => RxInv /\ Rx!Init
  <2> SUFFICES ASSUME Init PROVE RxInv /\ Rx!Init
    OBVIOUS
  <2>1. Len(unread) = 0
    BY DEF Init
  <2>2. Slide(0, 0) = 0
    BY Positions, SlideIs, UsartAssumption DEF Slot
  <2> QED BY <2>1, <2>2, UsartAssumption DEF Init, RxInv, Holds, Rx!Init
<1>2. TypeOK /\ RxInv /\ [Next]_vars => RxInv' /\ [Rx!Next]_Rx!vars
  BY NextRx
<1> QED BY <1>1, <1>2, TypeCorrect, PTL DEF Spec, RxInOrder, Rx!Spec
-----------------------------------------------------------------------------
(* Transmission, with interrupts masked during a call and callers that never *)
(* fill the ring.  The interrupt is only on while there are bytes to send.   *)
TxInv ==
    /\ Holds(sendBuf, pSendBufE, pSendBufH, unsent)
    /\ pc = "publish" => r # 0 /\ Len(unsent) + r < len /\ pH = Slide(pSendBufH, r)
    /\ pc = "kick" => unsent # <<>>
    /\ TXEIE => unsent # <<>>

(* usart_SetData has room for all bytes and writes to none that wait.        *)
LEMMA SetDataWritesBehind ==
  ASSUME TX_LIMIT < len, TypeOK, TxInv,
         NEW n \in 1..len, NEW data \in [1..n -> Byte], SetData(data)
  PROVE  TxInv' /\ UNCHANGED Tx!vars
<1>1. PICK u : u = Len(unsent)
  OBVIOUS
<1>2. /\ u \in Nat /\ u < len /\ len \in Nat
      /\ pSendBufE \in Slot /\ pSendBufH \in Slot /\ pSendBufH = Slide(pSendBufE, u)
      /\ unsent \in Seq(Byte)
  BY <1>1, UsartAssumption DEF TypeOK, TxInv, Holds
<1>3. Len(data) = n /\ u + n < len
  BY <1>1, <1>2, UsartAssumption DEF SetData
<1>4. Ahead(pSendBufH, pSendBufE) = len - u
  <2>1. u \in 0..(len - 1)
    BY <1>2
  <2> QED BY <1>2, <2>1, AheadIs
<1>5. n < len - u /\ n \in 1..len /\ n # 0
  BY <1>2, <1>3
<1>6. /\ sendBuf' = [i \in Slot |->
            IF (IF i = pSendBufH THEN 0 ELSE Ahead(pSendBufH, i)) < n
            THEN data[(IF i = pSendBufH THEN 0 ELSE Ahead(pSendBufH, i)) + 1]
            ELSE sendBuf[i]]
      /\ pH' = Slide(pSendBufH, n) /\ r' = n /\ pc' = "publish"
      /\ UNCHANGED <<pSendBufH, pSendBufE, TXEIE, DR, unsent>>
  BY <1>3, <1>4, <1>5 DEF SetData
<1>7. \A i \in Slot : i # pSendBufH /\ Ahead(pSendBufH, i) >= len - Len(unsent)
                        => sendBuf'[i] = sendBuf[i]
  <2> SUFFICES ASSUME NEW i \in Slot, i # pSendBufH, Ahead(pSendBufH, i) >= len - u
               PROVE  sendBuf'[i] = sendBuf[i]
    BY <1>1
  <2>1. Ahead(pSendBufH, i) \in 1..len
    BY <1>2, Positions
  <2>2. ~(Ahead(pSendBufH, i) < n)
    BY <1>2, <1>5, <2>1
  <2> QED BY <1>6, <2>2
<1>8. Holds(sendBuf', pSendBufE, pSendBufH, unsent)
  BY <1>2, <1>7, WriteKeeps DEF TxInv
<1>9. Holds(sendBuf, pSendBufE, pSendBufH, unsent)'
  BY <1>6, <1>8 DEF Holds, Slide
<1>10. Len(unsent') + r' < len /\ pH' = Slide(pSendBufH', r')
  BY <1>1, <1>3, <1>6
<1>11. TXEIE' => unsent' # <<>>
  BY <1>6 DEF TxInv
<1> QED BY <1>5, <1>6, <1>9, <1>10, <1>11 DEF TxInv, Slide, Tx!vars

LEMMA PublishPuts ==
  ASSUME TypeOK, TxInv, Publish
  PROVE  TxInv' /\ Tx!Put
<1>1. PICK u : u = Len(unsent)
  OBVIOUS
<1>2. /\ u \in Nat /\ len \in Nat /\ r \in Nat /\ r # 0 /\ u + r < len
      /\ pSendBufE \in Slot /\ pSendBufH \in Slot /\ unsent \in Seq(Byte)
      /\ pH = Slide(pSendBufH, r) /\ sendBuf \in [Slot -> Byte]
  BY <1>1, UsartAssumption DEF TypeOK, TxInv, Publish
<1>3. Ahead(pSendBufH, pH) = r
  <2>1. r \in 0..(len - 1)
    BY <1>2
  <2> QED BY <1>2, <2>1, AheadIs
<1>4. PICK more : more = Run(sendBuf, pSendBufH, r)
  OBVIOUS
<1>5. /\ pSendBufH' = pH /\ unsent' = unsent \o more /\ pc' = "kick"
      /\ UNCHANGED <<sendBuf, pSendBufE, TXEIE, DR>>
  BY <1>2, <1>3, <1>4 DEF Publish
<1>6. Holds(sendBuf, pSendBufE, pH, unsent \o more)
  BY <1>1, <1>2, <1>4, PutKeeps DEF TxInv
<1>7. Holds(sendBuf, pSendBufE, pSendBufH, unsent)'
  BY <1>5, <1>6 DEF Holds, Slide
<1>8. more \in Seq(Byte) /\ Len(more) = r
  <2>1. more \in Seq(Byte)
    BY <1>2, <1>4, RunIsSeq
  <2>2. more = [k \in 1..r |-> sendBuf[Slide(pSendBufH, k - 1)]]
    BY <1>4 DEF Run
  <2> QED BY <1>2, <2>1, <2>2
<1>9. /\ unsent' \in Seq(Byte) /\ Len(unsent') = u + r
      /\ SubSeq(unsent', 1, u) = unsent
  <2>1. /\ unsent' \in Seq(Byte) /\ Len(unsent') = u + r
        /\ \A k \in 1..u : unsent'[k] = unsent[k]
    <3>1. PICK both : both = unsent \o more
      OBVIOUS
    <3>2. both \in Seq(Byte) /\ Len(both) = u + r
      BY <1>1, <1>2, <1>8, <3>1, ConcatProperties
    <3>3. \A k \in 1..u : both[k] = unsent[k]
      BY <1>1, <1>2, <1>8, <3>1, ConcatProperties
    <3> QED BY <1>5, <3>1, <3>2, <3>3
  <2> QED BY <1>1, <1>2, <2>1
<1>10. unsent' # <<>>
  BY <1>2, <1>9
<1>11. TxInv'
  BY <1>5, <1>7, <1>10 DEF TxInv
<1>12. Tx!Put
  BY <1>1, <1>2, <1>5, <1>9 DEF Tx!Put
<1> QED BY <1>11, <1>12

LEMMA TransmitTakes ==
  ASSUME TypeOK, TxInv, Transmit, pc = "idle", UNCHANGED <<pc, pH, r>>
  PROVE  TxInv' /\ Tx!Take(1) /\ 1 \in 0..Len(unsent)
<1>1. PICK u : u = Len(unsent)
  OBVIOUS
<1>2. /\ u \in Nat /\ u > 0 /\ u < len /\ len \in Nat /\ unsent \in Seq(Byte)
      /\ unsent # <<>>
      /\ pSendBufE \in Slot /\ sendBuf \in [Slot -> Byte]
  BY <1>1, UsartAssumption DEF TypeOK, TxInv, Transmit, Holds
<1>3. 1 \in 0..u
  BY <1>2
<1>4. /\ Run(sendBuf, pSendBufE, 1) = SubSeq(unsent, 1, 1)
      /\ Holds(sendBuf, Slide(pSendBufE, 1), pSendBufH, SubSeq(unsent, 2, Len(unsent)))
  <2>1. 1 + 1 = 2
    OBVIOUS
  <2> QED BY <1>1, <1>2, <1>3, <2>1, TakeKeeps DEF TxInv
<1>5. /\ pSendBufE' = Slide(pSendBufE, 1) /\ DR' = <<sendBuf[pSendBufE]>>
      /\ unsent' = Tail(unsent) /\ UNCHANGED <<sendBuf, pSendBufH>>
      /\ TXEIE' = (pSendBufE' # pSendBufH)
  BY <1>2, NextIsSlide DEF Transmit
<1>6. Run(sendBuf, pSendBufE, 1) = <<sendBuf[pSendBufE]>>
  <2>1. Slide(pSendBufE, 0) = pSendBufE
    BY <1>2, SlideIs, UsartAssumption DEF Slot
  <2> QED BY <2>1 DEF Run
<1>7. Tail(unsent) = SubSeq(unsent, 2, Len(unsent))
  BY <1>2
<1>8. Holds(sendBuf, pSendBufE, pSendBufH, unsent)'
  BY <1>4, <1>5, <1>7 DEF Holds, Slide
<1>9. TXEIE' => unsent' # <<>>
  <2> SUFFICES ASSUME unsent' = <<>> PROVE pSendBufE' = pSendBufH
    BY <1>5
  <2>1. Len(unsent') = 0
    OBVIOUS
  <2>2. pSendBufE' \in Slot
    BY <1>2, <1>5, Positions
  <2>3. pSendBufH' = Slide(pSendBufE', 0)
    BY <1>8, <2>1 DEF Holds, Slide
  <2>4. Slide(pSendBufE', 0) = pSendBufE'
    BY <2>2, SlideIs, UsartAssumption DEF Slot
  <2> QED BY <1>5, <2>3, <2>4
<1>10. TxInv'
  BY <1>8, <1>9 DEF TxInv
<1>11. Tx!Take(1)
  <2>1. 1 + 1 = 2
    OBVIOUS
  <2> QED BY <1>4, <1>5, <1>6, <1>7, <2>1 DEF Tx!Take
<1> QED BY <1>1, <1>3, <1>10, <1>11

LEMMA NextTx ==
  ASSUME MUX_TASK, TX_LIMIT < len, TypeOK, TxInv, [Next]_vars
  PROVE  TxInv' /\ [Tx!Next]_Tx!vars
<1>1. ASSUME UNCHANGED txVars, pc' \notin {"publish", "kick"}
      PROVE  TxInv' /\ [Tx!Next]_Tx!vars
  BY <1>1 DEF txVars, TxInv, Holds, Slide, Tx!vars
<1>2. ASSUME NEW n \in 1..len, NEW data \in [1..n -> Byte], SetData(data)
      PROVE  TxInv' /\ [Tx!Next]_Tx!vars
  BY <1>2, SetDataWritesBehind
<1>3. ASSUME NEW size, GetData(size) PROVE TxInv' /\ [Tx!Next]_Tx!vars
  BY <1>1, <1>3 DEF GetData
<1>4. CASE Publish
  BY <1>4, PublishPuts DEF Tx!Next
<1>5. CASE Kick
  BY <1>5 DEF Kick, TxInv, Holds, Slide, Tx!vars
<1>6. CASE Copy
  BY <1>1, <1>6 DEF Copy
<1>7. CASE USART_IRQHandler
  <2>1. pc = "idle"
    BY <1>7 DEF USART_IRQHandler, Unmasked
  <2>2. CASE RxIRQ
    BY <1>1, <2>1, <2>2 DEF RxIRQ
  <2>3. ASSUME Transmit, UNCHANGED <<pc, pH, r>> PROVE TxInv' /\ [Tx!Next]_Tx!vars
    BY <2>1, <2>3, TransmitTakes DEF Tx!Next
  <2> QED BY <1>7, <2>2, <2>3 DEF USART_IRQHandler, TxIRQ, BothIRQ
<1>8. CASE UNCHANGED vars
  BY <1>8 DEF vars, txVars, TxInv, Holds, Slide, Tx!vars
<1> QED BY <1>2, <1>3, <1>4, <1>5, <1>6, <1>7, <1>8 DEF Next, Call, Continue

(* With interrupts masked during calls and callers that leave the ring a     *)
(* free byte, everything written is sent, once and in order, for rings of    *)
(* any length; the findings show that neither condition can be dropped.      *)
THEOREM SentInOrder == ASSUME MUX_TASK, TX_LIMIT < len PROVE Spec => TxInOrder
<1>1. Init => TxInv /\ Tx!Init
  <2> SUFFICES ASSUME Init PROVE TxInv /\ Tx!Init
    OBVIOUS
  <2>1. Len(unsent) = 0
    BY DEF Init
  <2>2. Slide(0, 0) = 0
    BY Positions, SlideIs, UsartAssumption DEF Slot
  <2> QED BY <2>1, <2>2, UsartAssumption DEF Init, TxInv, Holds, Tx!Init
<1>2. TypeOK /\ TxInv /\ [Next]_vars => TxInv' /\ [Tx!Next]_Tx!vars
  BY NextTx
<1> QED BY <1>1, <1>2, TypeCorrect, PTL DEF Spec, TxInOrder, Tx!Spec
=============================================================================
