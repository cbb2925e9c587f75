------------------------------ MODULE UsartRing ------------------------------
(* One sutUSART of SYSTEM/src/usart.c: the two rings between the interrupt   *)
(* handler of a serial port and the task that calls Usart_SetData and        *)
(* Usart_GetData.  The handler runs between any two steps of the task, except*)
(* where the task masks interrupts.  A position in a ring is an offset from  *)
(* the start of its buffer, so pH - p->pSendBuf is the position itself.      *)
EXTENDS Integers, Sequences

CONSTANTS
    len,        \* bytes in each ring
    Byte,
    MUX_TASK,   \* USART_SUPPORT_MUX_TASK: the calls run with interrupts masked
    TX_LIMIT,   \* the task leaves at most this many bytes unsent in the ring
    RX_LIMIT    \* the line delivers at most this many bytes before a read

ASSUME UsartAssumption == /\ len \in Nat /\ len > 1
                          /\ 0 \in Byte
                          /\ MUX_TASK \in BOOLEAN
                          /\ TX_LIMIT \in Nat /\ RX_LIMIT \in Nat

VARIABLES
    sendBuf, pSendBufH, pSendBufE,   \* the ring to the line: task, handler
    recBuf, pRecBufH, pRecBufE,      \* the ring from the line: handler, task
    TXEIE,      \* bit 7 of CR1: the transmit interrupt is enabled
    pc,         \* where the task is between two steps of a call
    pH,         \* its copy of a head: the new one, or the one to read up to
    r,          \* the result of usart_SetData; the size of usart_GetData
    DR,         \* <<the byte last written to the data register>>
    pData,      \* what the last usart_GetData copied out
    unsent,     \* history: bytes the task has put into sendBuf, not sent yet
    unread      \* history: bytes received, not read yet

txVars == <<sendBuf, pSendBufH, pSendBufE, TXEIE, DR, unsent>>
rxVars == <<recBuf, pRecBufH, pRecBufE, pData, unread>>
vars == <<txVars, rxVars, pc, pH, r>>

Slot == 0..(len - 1)

(* Usart_Init.  The buffers are static, hence zero.                          *)
Init == /\ sendBuf = [i \in Slot |-> 0] /\ pSendBufH = 0 /\ pSendBufE = 0
        /\ recBuf = [i \in Slot |-> 0] /\ pRecBufH = 0 /\ pRecBufE = 0
        /\ TXEIE = FALSE
        /\ pc = "idle" /\ pH = 0 /\ r = 0
        /\ DR = <<>> /\ pData = <<>>
        /\ unsent = <<>> /\ unread = <<>>

(* Definitions named _Faulty or _Skips are plausible slips in the code, used *)
(* to show that the properties below would notice them.                      *)
Next1_Faulty(p) == IF p + 1 > len THEN 0 ELSE p + 1
Next1(p) == IF p + 1 >= len THEN 0 ELSE p + 1

(* Steps from position p forward to position q, a whole turn when they meet. *)
Ahead(p, q) == IF q > p THEN q - p ELSE q - p + len

(* The position k steps after p, and the n bytes from p on.                  *)
Slide(p, k) == (p + k) % len
Run(buf, p, n) == [k \in 1..n |-> buf[Slide(p, k - 1)]]

-----------------------------------------------------------------------------
(* usart_SetData: the bytes go into the ring up to and including the one     *)
(* that makes the head meet the tail; that one is not counted in r.          *)
SetData(data) ==
    /\ pc = "idle"
    /\ Len(unsent) + Len(data) <= TX_LIMIT
    /\ LET room == Ahead(pSendBufH, pSendBufE)
           n == IF Len(data) < room THEN Len(data) ELSE room
           Offset(i) == IF i = pSendBufH THEN 0 ELSE Ahead(pSendBufH, i)
       IN /\ sendBuf' = [i \in Slot |->
                IF Offset(i) < n THEN data[Offset(i) + 1] ELSE sendBuf[i]]
          /\ pH' = Slide(pSendBufH, n)
          /\ r' = IF Len(data) < room THEN n ELSE room - 1
    /\ pc' = "publish"
    /\ UNCHANGED <<pSendBufH, pSendBufE, TXEIE, DR, unsent, rxVars>>

Publish ==
    /\ pc = "publish"
    /\ IF r # 0
       THEN /\ pSendBufH' = pH
            /\ unsent' = unsent \o Run(sendBuf, pSendBufH, Ahead(pSendBufH, pH))
       ELSE UNCHANGED <<pSendBufH, unsent>>
    /\ pc' = "kick"
    /\ UNCHANGED <<sendBuf, pSendBufE, TXEIE, DR, rxVars, pH, r>>

(* Usart_SetData: enable the transmit interrupt if it is not.                *)
Kick ==
    /\ pc = "kick"
    /\ TXEIE' = (TXEIE \/ r # 0)
    /\ pc' = "idle"
    /\ UNCHANGED <<sendBuf, pSendBufH, pSendBufE, DR, unsent, rxVars, pH, r>>

-----------------------------------------------------------------------------
(* usart_GetData(size): the two pointers are read together, and one branch   *)
(* reads pRecBufH again.  A size of 0 asks for everything.                   *)
GetData(size) ==
    /\ pc = "idle"
    /\ IF pRecBufH = pRecBufE
       THEN pData' = <<>> /\ UNCHANGED <<pc, pH, r>>
       ELSE pc' = "copy" /\ pH' = pRecBufH /\ r' = size /\ UNCHANGED pData
    /\ UNCHANGED <<txVars, recBuf, pRecBufH, pRecBufE, unread>>

Available == IF pH > pRecBufE THEN pH - pRecBufE
             ELSE len - (pRecBufE - pRecBufH)

Copy_Faulty ==         \* the tail is set to the head that was read first
    /\ pc = "copy"
    /\ LET n == IF Available > r /\ r # 0 THEN r ELSE Available
       IN /\ pData' = Run(recBuf, pRecBufE, n)
          /\ pRecBufE' = pH
          /\ unread' = SubSeq(unread, n + 1, Len(unread))
    /\ pc' = "idle"
    /\ UNCHANGED <<txVars, recBuf, pRecBufH, pH, r>>

Copy ==
    /\ pc = "copy"
    /\ LET n == IF Available > r /\ r # 0 THEN r ELSE Available
       IN /\ pData' = Run(recBuf, pRecBufE, n)
          /\ pRecBufE' = Slide(pRecBufE, n)
          /\ unread' = SubSeq(unread, n + 1, Len(unread))
    /\ pc' = "idle"
    /\ UNCHANGED <<txVars, recBuf, pRecBufH, pH, r>>

-----------------------------------------------------------------------------
(* _USART_IRQHandler: a byte has come (RXNE), the data register is empty     *)
(* (TXE) with its interrupt enabled, or both.                                *)
Receive(b) ==
    /\ Len(unread) < RX_LIMIT
    /\ recBuf' = [recBuf EXCEPT ![pRecBufH] = b]
    /\ pRecBufH' = Next1(pRecBufH)
    /\ unread' = Append(unread, b)
    /\ UNCHANGED <<pRecBufE, pData>>

Transmit_Faulty ==     \* stops one byte early
    /\ TXEIE
    /\ DR' = <<sendBuf[pSendBufE]>>
    /\ pSendBufE' = Next1(pSendBufE)
    /\ TXEIE' = (Next1(pSendBufE') # pSendBufH)
    /\ unsent' = IF unsent = <<>> THEN <<>> ELSE Tail(unsent)
    /\ UNCHANGED <<sendBuf, pSendBufH>>

Transmit_Skips ==      \* moves on before it reads
    /\ TXEIE
    /\ DR' = <<sendBuf[Next1(pSendBufE)]>>
    /\ pSendBufE' = Next1(pSendBufE)
    /\ TXEIE' = (pSendBufE' # pSendBufH)
    /\ unsent' = IF unsent = <<>> THEN <<>> ELSE Tail(unsent)
    /\ UNCHANGED <<sendBuf, pSendBufH>>

Transmit ==
    /\ TXEIE
    /\ DR' = <<sendBuf[pSendBufE]>>
    /\ pSendBufE' = Next1(pSendBufE)
    /\ TXEIE' = (pSendBufE' # pSendBufH)
    /\ unsent' = IF unsent = <<>> THEN <<>> ELSE Tail(unsent)
    /\ UNCHANGED <<sendBuf, pSendBufH>>

Unmasked == MUX_TASK => pc = "idle"

RxIRQ == \E b \in Byte : Receive(b) /\ UNCHANGED <<txVars, pc, pH, r>>
TxIRQ == Transmit /\ UNCHANGED <<rxVars, pc, pH, r>>
BothIRQ == \E b \in Byte : Receive(b) /\ Transmit /\ UNCHANGED <<pc, pH, r>>

USART_IRQHandler == Unmasked /\ (RxIRQ \/ TxIRQ \/ BothIRQ)

-----------------------------------------------------------------------------
Call == \/ \E n \in 1..len : \E data \in [1..n -> Byte] : SetData(data)
        \/ \E size \in 0..len : GetData(size)

Continue == Publish \/ Kick \/ Copy

Next == Call \/ Continue \/ USART_IRQHandler

Spec == Init /\ [][Next]_vars

(* The task goes on with a call it has begun, and an empty data register     *)
(* raises the transmit interrupt as long as it is enabled and not masked.    *)
Fairness == WF_vars(Continue) /\ SF_vars(Unmasked /\ (TxIRQ \/ BothIRQ))

FairSpec == Spec /\ Fairness

-----------------------------------------------------------------------------
(* Ranges: no position ever rests one past the end of its ring.              *)
TypeOK == /\ sendBuf \in [Slot -> Byte] /\ recBuf \in [Slot -> Byte]
          /\ pSendBufH \in Slot /\ pSendBufE \in Slot
          /\ pRecBufH \in Slot /\ pRecBufE \in Slot /\ pH \in Slot
          /\ TXEIE \in BOOLEAN
          /\ pc \in {"idle", "publish", "kick", "copy"}
          /\ r \in 0..len
          /\ DR \in Seq(Byte) /\ pData \in Seq(Byte)
          /\ unsent \in Seq(Byte) /\ unread \in Seq(Byte)

(* No lost wake-up: whenever bytes wait in the ring the transmit interrupt   *)
(* is on, or the task is about to turn it on, however the handler's clearing *)
(* of the bit falls between the task's store of the head and its test of the *)
(* bit (usart.c:123, 251, 302-305).                                          *)
NoLostWakeup == pSendBufH # pSendBufE => TXEIE \/ (pc = "kick" /\ r # 0)

(* Every byte put into the ring is sent at last.                             *)
EverySent == \A i \in Slot : (unsent # <<>> /\ pSendBufE = i) ~> pSendBufE # i

Tx == INSTANCE ByteStream WITH pipe <- unsent, out <- DR
Rx == INSTANCE ByteStream WITH pipe <- unread, out <- pData

(* The line gets the bytes of the successive Usart_SetData calls, each once  *)
(* and in order, and nothing else.                                           *)
TxInOrder == Tx!Spec

(* The successive Usart_GetData calls return the bytes received, each once   *)
(* and in order, while the handler goes on receiving between their steps.    *)
RxInOrder == Rx!Spec
=============================================================================
