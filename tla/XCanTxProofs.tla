---------------------------- MODULE XCanTxProofs ----------------------------
(***************************************************************************)
(* Safety of the transmit path for every ring size, counter width, number  *)
(* of frames and bus-off events, for either kind of TXOK and on one or     *)
(* several CPUs.                                                           *)
(***************************************************************************)
EXTENDS XCanTx, SequenceTheorems, TLAPS

Flag(b) == IF b THEN 1 ELSE 0

\* The wrapped counters are as far apart as the true ones.
CountersAgree == queued - reaped = Diff(tx_head, tx_tail)

\* The frame being added cannot bring the counters a whole turn apart.
RoomToCount == (queued - reaped) + Flag(xpc \in {"put", "inc"}) <= CntMod - 1

\* What is in the FIFO or was sent has been counted by tx_head, and the frame about to
\* be written as well.
SentWereQueued == sent + Len(fifo) + Flag(xpc = "fifo") <= queued

\* Every TXOK that ISR still shows, and the one the handler has acknowledged but not yet
\* counted, belongs to a transmitted frame that tx_tail has not counted.
TxokAccounted == reaped + txok + Flag(ipc \in {"echo", "tail"}) <= sent

\* So does the TXOK in the handler's isr.
SeenAccounted == ipc = "loop" /\ seenTxok => reaped + 1 <= sent

IndInv == /\ TypeOK /\ CountersAgree /\ RoomToCount /\ SentWereQueued
          /\ TxokAccounted /\ SeenAccounted /\ NoTxStorm /\ FifoNeverOverrun

USE DEF Flag

\* A counter has a slot in the ring.
LEMMA SlotInRange == \A c \in 0..CntMod-1 : Slot(c) \in 0..TxMax-1
  BY TxAssumption DEF Slot

\* A counter that wraps stays in its range.
LEMMA IncType == \A c \in 0..CntMod-1 : Inc(c) \in 0..CntMod-1
  BY TxAssumption DEF Inc

\* The invariant holds when the device is registered.
LEMMA InitInv == Init => IndInv
  <1> SUFFICES ASSUME Init PROVE IndInv
    OBVIOUS
  <1>1. TypeOK
    <2>1. awake \in BOOLEAN /\ seenTxok \in BOOLEAN /\ seenBsoff \in BOOLEAN
          /\ timer \in BOOLEAN /\ bsoff \in BOOLEAN
      BY Zenon DEF Init
    <2>2. fifo \in Seq(Nat) /\ Len(fifo) <= TxMax /\ echoed \in Seq(Nat)
      BY TxAssumption DEF Init
    <2>3. echo_skb \in [0..TxMax-1 -> Nat]
      BY DEF Init
    <2> QED
      BY <2>1, <2>2, <2>3, TxAssumption DEF Init, TypeOK
  <1>2. CountersAgree /\ RoomToCount
    BY TxAssumption DEF Init, CountersAgree, RoomToCount, Diff
  <1>3. SentWereQueued /\ TxokAccounted
    BY DEF Init, SentWereQueued, TxokAccounted
  <1>4. SeenAccounted /\ NoTxStorm /\ FifoNeverOverrun
    BY DEF Init, SeenAccounted, NoTxStorm, FifoNeverOverrun
  <1> QED
    BY <1>1, <1>2, <1>3, <1>4 DEF IndInv

\* Every step keeps the types.
LEMMA TypeStep == TypeOK /\ [Next]_vars => TypeOK'
  <1> SUFFICES ASSUME TypeOK, [Next]_vars PROVE TypeOK'
    OBVIOUS
  <1> USE TxAssumption DEF TypeOK, vars, ring, irq, hw, rst, hist
  <1>1. CASE XmitBegin
    BY <1>1 DEF XmitBegin
  <1>2. CASE XmitBusy
    BY <1>2 DEF XmitBusy
  <1>3. CASE XmitPutEcho
    <2>1. echo_skb' \in [0..TxMax-1 -> Nat]
      <3> DEFINE f == IF echo_skb[Slot(tx_head)] = 0 THEN queued + 1
                      ELSE echo_skb[Slot(tx_head)]
      <3>1. f \in Nat
        BY SlotInRange
      <3>2. echo_skb' = [echo_skb EXCEPT ![Slot(tx_head)] = f]
        BY <1>3 DEF XmitPutEcho
      <3> HIDE DEF f
      <3> QED
        BY <3>1, <3>2
    <2>2. xpc' = "inc" /\ UNCHANGED <<tx_head, tx_tail, awake, irq, rst, hw, hist>>
      BY <1>3 DEF XmitPutEcho
    <2> QED
      BY <2>1, <2>2
  <1>4. CASE XmitIncHead
    BY <1>4, IncType DEF XmitIncHead
  <1>5. CASE XmitWriteFifo
    <2>1. fifo' \in Seq(Nat) /\ Len(fifo') <= TxMax
      <3>1. CASE Len(fifo) < TxMax /\ fifo' = Append(fifo, queued)
        BY <3>1
      <3> QED
        BY <1>5, <3>1 DEF XmitWriteFifo
    <2> QED
      BY <1>5, <2>1 DEF XmitWriteFifo
  <1>6. CASE XmitCheck
    BY <1>6 DEF XmitCheck
  <1>7. CASE XmitStop
    BY <1>7 DEF XmitStop
  <1>8. CASE IrqBegin
    BY <1>8 DEF IrqBegin
  <1>9. CASE IrqTxLoop
    BY <1>9 DEF IrqTxLoop, AfterIcr
  <1>10. CASE IrqGetEcho
    <2>1. echo_skb' \in [0..TxMax-1 -> Nat]
      BY <1>10 DEF IrqGetEcho
    <2>2. echo_skb[Slot(tx_tail)] \in Nat
      BY SlotInRange
    <2>3. echoed' \in Seq(Nat)
      BY <1>10, <2>2 DEF IrqGetEcho
    <2>4. /\ ipc' = "tail"
          /\ UNCHANGED <<tx_head, tx_tail, awake, xpc, seenTxok, seenBsoff, rst, hw,
                         queued, reaped, sent>>
      BY <1>10 DEF IrqGetEcho
    <2> QED
      BY <2>1, <2>3, <2>4
  <1>11. CASE IrqIncTail
    BY <1>11, IncType DEF IrqIncTail
  <1>12. CASE IrqReread
    BY <1>12 DEF IrqReread
  <1>13. CASE IrqWake
    BY <1>13 DEF IrqWake
  <1>14. CASE IrqAckErr
    BY <1>14 DEF IrqAckErr
  <1>15. CASE IrqBusOffReset
    <2>1. fifo' \in Seq(Nat) /\ Len(fifo') <= TxMax
      BY <1>15 DEF IrqBusOffReset, SoftReset
    <2>2. bsoff' \in BOOLEAN
      BY <1>15, Zenon DEF IrqBusOffReset, SoftReset
    <2> QED
      BY <1>15, <2>1, <2>2 DEF IrqBusOffReset, SoftReset
  <1>16. CASE IrqBusOffArm
    BY <1>16 DEF IrqBusOffArm
  <1>17. CASE RestartFlush
    <2>1. echo_skb' \in [0..TxMax-1 -> Nat]
      BY <1>17 DEF RestartFlush
    <2>2. timer' \in BOOLEAN
      BY <1>17, Zenon DEF RestartFlush
    <2> QED
      BY <1>17, <2>1, <2>2 DEF RestartFlush
  <1>18. CASE RestartReset
    <2>1. fifo' \in Seq(Nat) /\ Len(fifo') <= TxMax
      BY <1>18 DEF RestartReset, SoftReset
    <2>2. bsoff' \in BOOLEAN
      BY <1>18, Zenon DEF RestartReset, SoftReset
    <2> QED
      BY <1>18, <2>1, <2>2 DEF RestartReset, SoftReset
  <1>19. CASE RestartStart
    BY <1>19 DEF RestartStart
  <1>20. CASE RestartTimeout
    BY <1>20 DEF RestartTimeout
  <1>21. CASE RestartWake
    BY <1>21 DEF RestartWake
  <1>22. CASE HwTransmit
    BY <1>22 DEF HwTransmit, AfterTransmit
  <1>23. CASE HwBusOff
    BY <1>23 DEF HwBusOff
  <1>24. CASE UNCHANGED vars
    BY <1>24
  <1> QED
    BY <1>1, <1>2, <1>3, <1>4, <1>5, <1>6, <1>7, <1>8, <1>9, <1>10, <1>11, <1>12, <1>13,
       <1>14, <1>15, <1>16, <1>17, <1>18, <1>19, <1>20, <1>21, <1>22, <1>23, <1>24
    DEF Next, Xmit, Irq, Restart

\* The distance of the two counters is 0 only when they are equal, and grows by one with the
\* first of them.
LEMMA DiffInc == \A h, t \in 0..CntMod-1 :
                    /\ Diff(h, t) \in 0..CntMod-1
                    /\ Diff(h, t) = 0 <=> h = t
                    /\ Diff(h, t) < CntMod - 1 => Diff(Inc(h), t) = Diff(h, t) + 1
                    /\ h # t => Diff(h, Inc(t)) = Diff(h, t) - 1
  BY TxAssumption DEF Diff, Inc

\* The part of the invariant that relates counters, FIFO and TXOK.
Accounting == /\ CountersAgree /\ RoomToCount /\ SentWereQueued
              /\ TxokAccounted /\ SeenAccounted /\ NoTxStorm /\ FifoNeverOverrun

\* Every step keeps the accounting.
LEMMA AccountingStep == IndInv /\ TypeOK' /\ [Next]_vars => Accounting'
  <1> SUFFICES ASSUME TypeOK, Accounting, TypeOK', [Next]_vars PROVE Accounting'
    BY DEF IndInv, Accounting
  <1> USE TxAssumption DEF TypeOK, Accounting, CountersAgree, RoomToCount, SentWereQueued,
          TxokAccounted, SeenAccounted, NoTxStorm, FifoNeverOverrun,
          vars, ring, irq, hw, rst, hist
  <1>1. CASE XmitBegin
    BY <1>1 DEF XmitBegin
  <1>2. CASE XmitBusy
    BY <1>2 DEF XmitBusy
  <1>3. CASE XmitPutEcho
    BY <1>3 DEF XmitPutEcho
  <1>4. CASE XmitIncHead
    <2>1. Diff(Inc(tx_head), tx_tail) = Diff(tx_head, tx_tail) + 1
      <3>1. Diff(tx_head, tx_tail) < CntMod - 1
        BY <1>4 DEF XmitIncHead
      <3> QED
        BY <3>1, DiffInc DEF TypeOK
    <2>2. CountersAgree'
      BY <1>4, <2>1 DEF XmitIncHead
    <2>3. RoomToCount' /\ SentWereQueued' /\ TxokAccounted' /\ FifoNeverOverrun'
      BY <1>4 DEF XmitIncHead
    <2>4. SeenAccounted' /\ NoTxStorm'
      BY <1>4 DEF XmitIncHead
    <2> QED
      BY <2>2, <2>3, <2>4
  <1>5. CASE XmitWriteFifo
    BY <1>5 DEF XmitWriteFifo
  <1>6. CASE XmitCheck
    BY <1>6 DEF XmitCheck
  <1>7. CASE XmitStop
    BY <1>7 DEF XmitStop
  <1>8. CASE IrqBegin
    BY <1>8 DEF IrqBegin
  <1>9. CASE IrqTxLoop
    <2>1. seenTxok => tx_head # tx_tail
      <3>1. seenTxok => Diff(tx_head, tx_tail) # 0
        BY <1>9 DEF IrqTxLoop
      <3> QED
        BY <3>1, DiffInc
    <2>2. UNCHANGED <<ring, awake, xpc, seenTxok, seenBsoff, rst, fifo, bsoff, core,
                      busOffs, hist>>
      BY <1>9 DEF IrqTxLoop
    <2>3. CountersAgree' /\ RoomToCount' /\ SentWereQueued' /\ FifoNeverOverrun'
      BY <2>2
    <2>4. CASE seenTxok
      <3>1. ipc' = "echo" /\ txok' = AfterIcr
        BY <1>9, <2>1, <2>4 DEF IrqTxLoop
      <3>2. reaped + 1 <= sent /\ reaped + txok <= sent
        BY <1>9, <2>4 DEF IrqTxLoop
      <3>3. TxokAccounted'
        BY <2>2, <3>1, <3>2 DEF AfterIcr
      <3>4. SeenAccounted' /\ NoTxStorm'
        BY <3>1
      <3> QED
        BY <2>3, <3>3, <3>4
    <2>5. CASE ~seenTxok
      <3>1. ipc = "loop" /\ ipc' = "wake" /\ txok' = txok
        BY <1>9, <2>5 DEF IrqTxLoop
      <3>2. TxokAccounted' /\ SeenAccounted'
        BY <2>2, <3>1
      <3>3. NoTxStorm'
        BY <2>2, <2>5
      <3> QED
        BY <2>3, <3>2, <3>3
    <2> QED
      BY <2>4, <2>5
  <1>10. CASE IrqGetEcho
    BY <1>10 DEF IrqGetEcho
  <1>11. CASE IrqIncTail
    <2>1. Diff(tx_head, Inc(tx_tail)) = Diff(tx_head, tx_tail) - 1
      <3>1. Diff(tx_head, tx_tail) # 0
        BY <1>11 DEF IrqIncTail
      <3> QED
        BY <3>1, DiffInc
    <2>2. CountersAgree'
      BY <1>11, <2>1 DEF IrqIncTail
    <2>3. RoomToCount' /\ SentWereQueued' /\ TxokAccounted' /\ FifoNeverOverrun'
      BY <1>11 DEF IrqIncTail
    <2>4. SeenAccounted' /\ NoTxStorm'
      BY <1>11 DEF IrqIncTail
    <2> QED
      BY <2>2, <2>3, <2>4
  <1>12. CASE IrqReread
    <2>1. seenTxok' => txok > 0
      BY <1>12, Zenon DEF IrqReread
    <2>2. /\ ipc = "reread" /\ ipc' = "loop"
          /\ UNCHANGED <<ring, awake, xpc, seenBsoff, rst, hw, hist>>
      BY <1>12 DEF IrqReread
    <2> QED
      BY <2>1, <2>2
  <1>13. CASE IrqWake
    BY <1>13 DEF IrqWake
  <1>14. CASE IrqAckErr
    BY <1>14 DEF IrqAckErr
  <1>15. CASE IrqBusOffReset
    BY <1>15 DEF IrqBusOffReset, SoftReset
  <1>16. CASE IrqBusOffArm
    BY <1>16 DEF IrqBusOffArm
  <1>17. CASE RestartFlush
    BY <1>17 DEF RestartFlush
  <1>18. CASE RestartReset
    BY <1>18 DEF RestartReset, SoftReset
  <1>19. CASE RestartStart
    BY <1>19 DEF RestartStart
  <1>20. CASE RestartTimeout
    BY <1>20 DEF RestartTimeout
  <1>21. CASE RestartWake
    BY <1>21 DEF RestartWake
  <1>22. CASE HwTransmit
    BY <1>22 DEF HwTransmit, AfterTransmit
  <1>23. CASE HwBusOff
    BY <1>23 DEF HwBusOff
  <1>24. CASE UNCHANGED vars
    BY <1>24
  <1> QED
    BY <1>1, <1>2, <1>3, <1>4, <1>5, <1>6, <1>7, <1>8, <1>9, <1>10, <1>11, <1>12, <1>13,
       <1>14, <1>15, <1>16, <1>17, <1>18, <1>19, <1>20, <1>21, <1>22, <1>23, <1>24
    DEF Next, Xmit, Irq, Restart

\* Every step keeps the invariant.
LEMMA InvStep == IndInv /\ [Next]_vars => IndInv'
  BY TypeStep, AccountingStep DEF IndInv, Accounting

\* The invariant holds in every state.
LEMMA Invariance == Spec => []IndInv
  <1>1. Init => IndInv
    BY InitInv
  <1>2. IndInv /\ [Next]_vars => IndInv'
    BY InvStep
  <1> QED
    BY <1>1, <1>2, PTL DEF Spec

\* Every variable keeps the kind of value it was given: the counters stay within their
\* width, the FIFO within its depth and each context at one of its program points.
THEOREM TypeCorrect == Spec => []TypeOK
  <1>1. IndInv => TypeOK
    BY DEF IndInv
  <1> QED
    BY <1>1, Invariance, PTL

\* The interrupt handler never returns with a TXOK that it saw and left standing, which
\* a level sensitive line would turn into an interrupt storm.
THEOREM NoStorm == Spec => []NoTxStorm
  <1>1. IndInv => NoTxStorm
    BY DEF IndInv
  <1> QED
    BY <1>1, Invariance, PTL

\* xcan_start_xmit never writes a frame to a full TX FIFO.
THEOREM NoOverrun == Spec => []FifoNeverOverrun
  <1>1. IndInv => FifoNeverOverrun
    BY DEF IndInv
  <1> QED
    BY <1>1, Invariance, PTL

-----------------------------------------------------------------------------
(* Frames are looped back at most once. *)

\* The newest frame that may be in the ring.
Newest == IF xpc = "inc" THEN queued + 1 ELSE queued

EchoInv ==
    /\ \A s \in 0..TxMax-1 : echo_skb[s] <= Newest
    /\ \A i \in 1..Len(echoed) : 0 < echoed[i] /\ echoed[i] <= Newest
    /\ \A s, t \in 0..TxMax-1 : echo_skb[s] = echo_skb[t] /\ echo_skb[s] # 0 => s = t
    /\ EchoOnce

\* The part of TypeOK that the slots and the looped back frames need.
EchoType == /\ echo_skb \in [0..TxMax-1 -> Nat] /\ queued \in Nat
            /\ echoed \in Seq(Nat) /\ Len(echoed) \in Nat
            /\ \A i \in 1..Len(echoed) : echoed[i] \in Nat

\* It follows from TypeOK.
LEMMA EchoTyped == TypeOK => EchoType
  BY DEF TypeOK, EchoType

\* The ring is empty at first.
LEMMA EchoInit == Init => EchoInv
  BY TxAssumption DEF Init, EchoInv, EchoOnce, Newest

\* can_put_echo_skb puts the newest frame, which is nowhere yet.
LEMMA EchoPut == TypeOK /\ EchoInv /\ XmitPutEcho => EchoInv'
  <1> SUFFICES ASSUME TypeOK, EchoInv, XmitPutEcho PROVE EchoInv'
    OBVIOUS
  <1> DEFINE s0 == Slot(tx_head)
  <1>1. EchoType /\ s0 \in 0..TxMax-1
    BY EchoTyped, SlotInRange DEF TypeOK
  <1>2. /\ echo_skb' = [echo_skb EXCEPT ![s0] = IF echo_skb[s0] = 0 THEN queued + 1
                                                ELSE echo_skb[s0]]
        /\ echoed' = echoed /\ Newest = queued /\ Newest' = queued + 1
    BY DEF XmitPutEcho, hist, Newest
  <1> HIDE DEF s0
  <1>3. CASE echo_skb[s0] = 0
    <2>1. /\ echo_skb'[s0] = queued + 1
          /\ \A s \in 0..TxMax-1 : s # s0 => echo_skb'[s] = echo_skb[s]
      BY <1>1, <1>2, <1>3 DEF EchoType
    <2>2. /\ \A s \in 0..TxMax-1 : echo_skb[s] \in Nat /\ echo_skb[s] < queued + 1
          /\ \A i \in 1..Len(echoed) : echoed[i] < queued + 1
      BY <1>1, <1>2 DEF EchoInv, EchoType
    <2> QED
      BY <1>1, <1>2, <2>1, <2>2 DEF EchoInv, EchoOnce, EchoType
  <1>4. CASE echo_skb[s0] # 0
    <2>1. \A s \in 0..TxMax-1 : echo_skb'[s] = echo_skb[s]
      BY <1>1, <1>2, <1>4 DEF EchoType
    <2>2. /\ \A s \in 0..TxMax-1 : echo_skb[s] <= queued + 1
          /\ \A i \in 1..Len(echoed) : 0 < echoed[i] /\ echoed[i] <= queued + 1
      <3>1. /\ \A s \in 0..TxMax-1 : echo_skb[s] \in Nat /\ echo_skb[s] <= queued
            /\ \A i \in 1..Len(echoed) : echoed[i] \in Nat /\ 0 < echoed[i] /\ echoed[i] <= queued
        BY <1>1, <1>2 DEF EchoInv, EchoType
      <3> QED
        BY <1>1, <3>1 DEF EchoType
    <2>3. /\ \A s \in 0..TxMax-1 : echo_skb'[s] <= Newest'
          /\ \A i \in 1..Len(echoed') : 0 < echoed'[i] /\ echoed'[i] <= Newest'
      BY <1>2, <2>1, <2>2
    <2>4. \A s, t \in 0..TxMax-1 : echo_skb'[s] = echo_skb'[t] /\ echo_skb'[s] # 0 => s = t
      BY <2>1 DEF EchoInv
    <2>5. EchoOnce'
      BY <1>2, <2>1 DEF EchoInv, EchoOnce
    <2> QED
      BY <2>3, <2>4, <2>5 DEF EchoInv
  <1> QED
    BY <1>3, <1>4

\* can_get_echo_skb takes the frame out of the ring as it loops it back.
LEMMA EchoGet == TypeOK /\ EchoInv /\ IrqGetEcho => EchoInv'
  <1> SUFFICES ASSUME TypeOK, EchoInv, IrqGetEcho PROVE EchoInv'
    OBVIOUS
  <1> DEFINE s0 == Slot(tx_tail)
  <1> DEFINE f == echo_skb[s0]
  <1>1. EchoType /\ s0 \in 0..TxMax-1
    BY EchoTyped, SlotInRange DEF TypeOK
  <1>2. /\ echoed' = IF f = 0 THEN echoed ELSE Append(echoed, f)
        /\ Newest' = Newest /\ Newest \in Nat
        /\ echo_skb'[s0] = 0
        /\ \A s \in 0..TxMax-1 : s # s0 => echo_skb'[s] = echo_skb[s]
    BY <1>1 DEF IrqGetEcho, Newest, EchoType
  <1>3. f \in Nat /\ f <= Newest
    BY <1>1 DEF EchoInv, EchoType
  <1>4. /\ \A i \in 1..Len(echoed) : echoed[i] # f
        /\ \A s \in 0..TxMax-1 : f # 0 /\ s # s0 => echo_skb[s] # f
    BY <1>1 DEF EchoInv, EchoOnce
  <1> HIDE DEF s0, f
  <1>5. /\ \A s \in 0..TxMax-1 : echo_skb'[s] <= Newest'
        /\ \A s, t \in 0..TxMax-1 : echo_skb'[s] = echo_skb'[t] /\ echo_skb'[s] # 0 => s = t
    BY <1>1, <1>2 DEF EchoInv
  <1>6. CASE f = 0
    <2>1. echoed' = echoed
      BY <1>2, <1>6
    <2>2. \A i \in 1..Len(echoed), s \in 0..TxMax-1 : echo_skb'[s] # echoed[i]
      BY <1>1, <1>2 DEF EchoInv, EchoOnce, EchoType
    <2> QED
      BY <1>2, <1>5, <2>1, <2>2 DEF EchoInv, EchoOnce
  <1>7. CASE f # 0
    <2> DEFINE n == Len(echoed)
    <2>1. /\ n \in Nat /\ Len(echoed') = n + 1
          /\ echoed'[n + 1] = f
          /\ \A i \in 1..n : echoed'[i] = echoed[i]
      BY <1>1, <1>2, <1>3, <1>7 DEF EchoType
    <2>2. \A i \in 1..n+1 : i \in 1..n \/ i = n + 1
      BY <2>1
    <2>3. /\ \A i \in 1..n : 0 < echoed[i] /\ echoed[i] <= Newest
          /\ \A i, j \in 1..n : echoed[i] = echoed[j] => i = j
          /\ \A i \in 1..n, s \in 0..TxMax-1 : echo_skb[s] # echoed[i]
      BY DEF EchoInv, EchoOnce
    <2> HIDE DEF n
    <2>4. \A i \in 1..n+1 : 0 < echoed'[i] /\ echoed'[i] <= Newest'
      BY <1>2, <1>3, <1>7, <2>1, <2>2, <2>3
    <2>5. \A i, j \in 1..n+1 : echoed'[i] = echoed'[j] => i = j
      BY <1>4, <2>1, <2>2, <2>3 DEF n
    <2>6. \A i \in 1..n+1, s \in 0..TxMax-1 : echo_skb'[s] # echoed'[i]
      BY <1>1, <1>2, <1>4, <1>7, <2>1, <2>2, <2>3
    <2> QED
      BY <1>5, <2>1, <2>4, <2>5, <2>6 DEF EchoInv, EchoOnce
  <1> QED
    BY <1>6, <1>7

\* Every step keeps what is known of the ring.
LEMMA EchoStep == TypeOK /\ EchoInv /\ [Next]_vars => EchoInv'
  <1> SUFFICES ASSUME TypeOK, EchoInv, [Next]_vars PROVE EchoInv'
    OBVIOUS
  <1>1. CASE XmitPutEcho
    BY <1>1, EchoPut
  <1>2. CASE IrqGetEcho
    BY <1>2, EchoGet
  <1>3. CASE XmitIncHead
    <2>1. echo_skb' = echo_skb /\ echoed' = echoed /\ Newest' = Newest
      BY <1>3 DEF XmitIncHead, Newest, TypeOK
    <2> QED
      BY <2>1 DEF EchoInv, EchoOnce
  <1>4. CASE RestartFlush
    <2>1. /\ \A s \in 0..TxMax-1 : echo_skb'[s] = 0
          /\ echoed' = echoed /\ Newest' = Newest
      BY <1>4 DEF RestartFlush, Newest, hist
    <2>2. EchoType
      BY EchoTyped
    <2> QED
      BY <2>1, <2>2 DEF EchoInv, EchoOnce, EchoType, Newest
  <1>5. CASE \/ XmitBegin \/ XmitBusy \/ XmitWriteFifo \/ XmitCheck \/ XmitStop
            \/ IrqBegin \/ IrqTxLoop \/ IrqIncTail \/ IrqReread \/ IrqWake
            \/ IrqAckErr \/ IrqBusOffReset \/ IrqBusOffArm
            \/ RestartReset \/ RestartStart \/ RestartTimeout \/ RestartWake
            \/ HwTransmit \/ HwBusOff \/ UNCHANGED vars
    <2>1. /\ echo_skb' = echo_skb /\ echoed' = echoed /\ queued' = queued
          /\ xpc' = "inc" <=> xpc = "inc"
      BY <1>5 DEF XmitBegin, XmitBusy, XmitWriteFifo, XmitCheck, XmitStop, IrqBegin,
         IrqTxLoop, IrqIncTail, IrqReread, IrqWake,
         IrqAckErr, IrqBusOffReset, IrqBusOffArm, RestartReset, RestartStart, RestartTimeout,
         RestartWake, HwTransmit, HwBusOff,
         vars, ring, hist
    <2> QED
      BY <2>1 DEF EchoInv, EchoOnce, Newest
  <1> QED
    BY <1>1, <1>2, <1>3, <1>4, <1>5 DEF Next, Xmit, Irq, Restart

\* No frame is looped back to the sockets twice, in any interleaving of the handler, the
\* sender and the restart timer.
THEOREM LoopedOnce == Spec => []EchoOnce
  <1>1. Init => EchoInv
    BY EchoInit
  <1>2. TypeOK /\ EchoInv /\ [Next]_vars => EchoInv'
    BY EchoStep
  <1>3. EchoInv => EchoOnce
    BY DEF EchoInv
  <1> QED
    BY <1>1, <1>2, <1>3, TypeCorrect, PTL DEF Spec
=============================================================================
