-------------------------- MODULE XCanTxOrderProofs --------------------------
(***************************************************************************)
(* What the transmit path does on the system its code was written for: the *)
(* interrupt, the sender and the restart timer on one CPU, a TXOK for each *)
(* frame and no bus-off.  There the counters are exact, the queue never    *)
(* runs into a full FIFO, and XCanTx implements EchoFifo: every accepted   *)
(* frame is looped back once, in order, after the bus carried it.          *)
(*                                                                         *)
(* The inequalities of XCanTxProofs become equalities here, and the slots  *)
(* of echo_skb are followed through the wrap-around of the counters.       *)
(***************************************************************************)
EXTENDS XCanTxProofs

\* The system: the handler runs to completion, each TXOK is cleared on its own, and the
\* bus never goes off.
Pinned == ~Smp /\ ~StickyTxok /\ MaxBusOffs = 0

\* tx_max divides the counters' range (any power of two divides 2^32), so that the slot
\* tx_head % tx_max goes on from slot to slot when tx_head wraps.
RingFits == CntMod % TxMax = 0

-----------------------------------------------------------------------------
(* The invariant that relates the queue, the counters and the FIFO.        *)

\* Nothing resets the core.
Calm == /\ core = "normal" /\ rpc = "idle" /\ ~timer /\ ~bsoff /\ ~seenBsoff
        /\ ipc \in {"idle", "loop", "echo", "tail", "reread", "wake"}

Outstanding == queued - reaped

\* Each frame the core has sent is counted by tx_tail, or shown by a TXOK, or is the one
\* whose TXOK the handler has just acknowledged.
TxokExact == reaped + txok + Flag(ipc \in {"echo", "tail"}) = sent

\* Each frame tx_head has counted was sent, or is in the FIFO, or is being written.
FifoExact == sent + Len(fifo) + Flag(xpc = "fifo") = queued

\* The ring has room whenever the sender may add a frame.  The handler wakes the queue
\* only after it has counted a frame of its own run, during which no frame was added.
RingRoom ==
    /\ Outstanding <= TxMax
    /\ xpc \in {"put", "inc"} => Outstanding < TxMax
    /\ awake /\ xpc = "idle" => Outstanding < TxMax
    /\ ipc \in {"reread", "wake"} => Outstanding < TxMax
    /\ ipc = "loop" /\ ~seenTxok => Outstanding < TxMax

\* Only the end of a call of xcan_start_xmit stops the queue.
SenderAwake == xpc # "idle" => awake

PinnedInv == Calm /\ TxokExact /\ FifoExact /\ RingRoom /\ SenderAwake /\ NeverFullWhenAwake

-----------------------------------------------------------------------------
(* The invariant that says where each outstanding frame is in echo_skb.    *)

\* The counter k increments after c.
Adv(c, k) == IF c + k < CntMod THEN c + k ELSE c + k - CntMod

\* The slot of the k-th outstanding frame, the oldest being number 0.
SlotAt(k) == Slot(Adv(tx_tail, k))

\* The first and the last of them that echo_skb holds.
First == Flag(ipc = "tail")
Last == Outstanding - 1 + Flag(xpc = "inc")

\* Each outstanding frame is in its slot,
RingHolds == \A k \in First..Last : echo_skb[SlotAt(k)] = reaped + 1 + k

\* the other slots are empty,
RingElse == \A s \in 0..TxMax-1 : echo_skb[s] # 0 => \E k \in First..Last : s = SlotAt(k)

\* and every frame that left the ring was looped back.
LoopedCount == Len(echoed) = reaped + Flag(ipc = "tail")

RingInv == RingHolds /\ RingElse /\ LoopedCount

-----------------------------------------------------------------------------
USE DEF Flag

\* Initially no frame is outstanding.
LEMMA PinnedStart == Init => PinnedInv
  <1> SUFFICES ASSUME Init PROVE PinnedInv
    OBVIOUS
  <1>1. Calm
    BY Zenon DEF Init, Calm
  <1>2. TxokExact /\ FifoExact /\ NeverFullWhenAwake /\ SenderAwake
    BY DEF Init, TxokExact, FifoExact, NeverFullWhenAwake, SenderAwake
  <1>3. RingRoom
    BY TxAssumption DEF Init, RingRoom, Outstanding
  <1> QED
    BY <1>1, <1>2, <1>3 DEF PinnedInv

\* Without a bus-off none of the steps that reset the core or the ring is taken.
LEMMA NoReset ==
  ASSUME Pinned, IndInv, PinnedInv
  PROVE  ~IrqAckErr /\ ~IrqBusOffReset /\ ~IrqBusOffArm /\ ~Restart /\ ~HwBusOff
  <1>1. ~HwBusOff
    BY DEF HwBusOff, IndInv, TypeOK, Pinned
  <1>2. ~IrqAckErr /\ ~IrqBusOffReset /\ ~IrqBusOffArm
    BY DEF PinnedInv, Calm, IrqAckErr, IrqBusOffReset, IrqBusOffArm
  <1>3. ~Restart
    BY DEF PinnedInv, Calm, Restart, RestartFlush, RestartReset, RestartStart,
       RestartTimeout, RestartWake
  <1> QED
    BY <1>1, <1>2, <1>3

\* Each step of the three contexts and the core keeps the counts exact.
LEMMA PinnedStep == ASSUME Pinned, IndInv, PinnedInv, [Next]_vars PROVE PinnedInv'
  <1>0. /\ queued \in Nat /\ reaped \in Nat /\ sent \in Nat /\ txok \in Nat
        /\ TxMax \in Nat /\ Len(fifo) \in Nat /\ fifo \in Seq(Nat)
        /\ awake \in BOOLEAN /\ seenTxok \in BOOLEAN
    BY TxAssumption DEF IndInv, TypeOK
  <1> USE DEF PinnedInv, Pinned, Calm, TxokExact, FifoExact, RingRoom, Outstanding,
          SenderAwake, NeverFullWhenAwake, vars, ring, irq, hw, rst, hist
  <1>1. CASE XmitBegin
    <2>1. /\ xpc = "idle" /\ awake /\ ipc = "idle"
          /\ xpc' = IF Len(fifo) = TxMax THEN "busy" ELSE "put"
          /\ UNCHANGED <<ring, awake, irq, rst, hw, hist>>
      BY <1>0, <1>1 DEF XmitBegin, XmitMayRun
    <2>2. Outstanding < TxMax /\ Len(fifo) <= Outstanding
      BY <1>0, <2>1
    <2>3. xpc' = "put"
      BY <1>0, <2>1, <2>2
    <2>4. Calm' /\ SenderAwake' /\ NeverFullWhenAwake'
      BY <2>1, <2>3
    <2>5. TxokExact' /\ FifoExact' /\ RingRoom'
      BY <1>0, <2>1, <2>2, <2>3
    <2> QED
      BY <2>4, <2>5
  <1>2. CASE XmitBusy
    BY <1>0, <1>2 DEF XmitBusy
  <1>3. CASE XmitPutEcho
    BY <1>0, <1>3 DEF XmitPutEcho
  <1>4. CASE XmitIncHead
    <2>1. /\ xpc = "inc" /\ xpc' = "fifo" /\ ipc = "idle" /\ queued' = queued + 1
          /\ UNCHANGED <<tx_tail, echo_skb, awake, irq, rst, hw, reaped, sent, echoed>>
      BY <1>0, <1>4 DEF XmitIncHead, XmitMayRun
    <2>2. Calm' /\ SenderAwake' /\ NeverFullWhenAwake'
      BY <1>0, <2>1
    <2>3. TxokExact' /\ FifoExact'
      BY <1>0, <2>1
    <2>4. RingRoom'
      BY <1>0, <2>1
    <2> QED
      BY <2>2, <2>3, <2>4
  <1>5. CASE XmitWriteFifo
    <2>1. /\ xpc = "fifo" /\ xpc' = "check" /\ ipc = "idle"
          /\ UNCHANGED <<ring, awake, irq, rst, txok, bsoff, core, busOffs, hist>>
      BY <1>0, <1>5 DEF XmitWriteFifo, XmitMayRun
    <2>2. Len(fifo') = Len(fifo) + 1
      BY <1>0, <1>5 DEF XmitWriteFifo, IndInv, FifoNeverOverrun
    <2>3. Calm' /\ SenderAwake' /\ NeverFullWhenAwake'
      BY <1>0, <2>1
    <2>4. TxokExact' /\ FifoExact' /\ RingRoom'
      BY <1>0, <2>1, <2>2
    <2> QED
      BY <2>3, <2>4
  <1>6. CASE XmitCheck
    BY <1>0, <1>6 DEF XmitCheck, IndInv, CountersAgree
  <1>7. CASE XmitStop
    BY <1>0, <1>7 DEF XmitStop
  <1>8. CASE IrqBegin
    <2>1. /\ ipc = "idle" /\ ipc' = "loop" /\ seenTxok' = TRUE /\ seenBsoff' = FALSE
          /\ UNCHANGED <<ring, awake, xpc, rst, hw, hist>>
      <3>1. /\ ipc = "idle" /\ ipc' = "loop" /\ txok > 0
            /\ UNCHANGED <<ring, awake, xpc, rst, hw, hist>>
        BY <1>0, <1>8 DEF IrqBegin
      <3>2. seenTxok' = TRUE /\ seenBsoff' = FALSE
        <4>1. bsoff = FALSE
          BY DEF IndInv, TypeOK
        <4> QED
          BY <1>8, <3>1, <4>1, Zenon DEF IrqBegin
      <3> QED
        BY <3>1, <3>2
    <2>2. Calm' /\ SenderAwake' /\ NeverFullWhenAwake'
      BY <1>0, <2>1
    <2>3. TxokExact' /\ FifoExact' /\ RingRoom'
      BY <1>0, <2>1
    <2> QED
      BY <2>2, <2>3
  <1>9. CASE IrqTxLoop
    <2>1. UNCHANGED <<ring, awake, xpc, seenTxok, seenBsoff, rst, fifo, bsoff, core,
                      busOffs, hist>>
      BY <1>0, <1>9 DEF IrqTxLoop
    <2>2. CASE seenTxok
      <3>1. tx_head # tx_tail
        <4>1. queued - reaped # 0
          BY <1>0, <1>9, <2>2 DEF IrqTxLoop, IndInv, SeenAccounted
        <4> QED
          BY <4>1, DiffInc DEF IndInv, CountersAgree, TypeOK
      <3>2. ipc = "loop" /\ ipc' = "echo" /\ txok' = AfterIcr
        BY <1>9, <2>2, <3>1 DEF IrqTxLoop
      <3>3. txok' = txok - 1
        BY <1>0, <2>2, <3>2 DEF AfterIcr, IndInv, SeenAccounted
      <3> QED
        BY <1>0, <2>1, <3>2, <3>3
    <2>3. CASE ~seenTxok
      <3>1. ipc = "loop" /\ ipc' = "wake" /\ txok' = txok
        BY <1>9, <2>3 DEF IrqTxLoop
      <3> QED
        BY <1>0, <2>1, <2>3, <3>1
    <2> QED
      BY <2>2, <2>3
  <1>10. CASE IrqGetEcho
    BY <1>0, <1>10 DEF IrqGetEcho
  <1>11. CASE IrqIncTail
    <2>1. /\ ipc = "tail" /\ ipc' = "reread" /\ reaped' = reaped + 1
          /\ UNCHANGED <<tx_head, echo_skb, awake, xpc, seenTxok, seenBsoff, rst, hw,
                         queued, sent, echoed>>
      BY <1>0, <1>11 DEF IrqIncTail
    <2>2. Calm' /\ SenderAwake' /\ NeverFullWhenAwake'
      BY <1>0, <2>1
    <2>3. TxokExact' /\ FifoExact' /\ RingRoom'
      BY <1>0, <2>1
    <2> QED
      BY <2>2, <2>3
  <1>12. CASE IrqReread
    BY <1>0, <1>12 DEF IrqReread
  <1>13. CASE IrqWake
    BY <1>0, <1>13 DEF IrqWake
  <1>14. CASE HwTransmit
    <2>1. /\ fifo # << >> /\ fifo' = Tail(fifo) /\ sent' = sent + 1 /\ txok' = txok + 1
          /\ UNCHANGED <<ring, awake, xpc, irq, rst, bsoff, core, busOffs, queued, reaped,
                         echoed>>
      BY <1>0, <1>14 DEF HwTransmit, AfterTransmit
    <2>2. Len(fifo') = Len(fifo) - 1
      BY <1>0, <2>1
    <2>3. Calm' /\ SenderAwake' /\ NeverFullWhenAwake'
      BY <1>0, <2>1
    <2>4. TxokExact'
      BY <1>0, <2>1
    <2>5. FifoExact'
      <3>1. xpc' = xpc /\ queued' = queued /\ sent' = sent + 1
        BY <2>1
      <3>2. sent + Len(fifo) + Flag(xpc = "fifo") = queued
        OBVIOUS
      <3> QED
        BY <1>0, <2>2, <3>1, <3>2, SMTT(30)
    <2>6. RingRoom'
      BY <2>1
    <2> QED
      BY <2>3, <2>4, <2>5, <2>6
  <1>15. ~IrqAckErr /\ ~IrqBusOffReset /\ ~IrqBusOffArm /\ ~Restart /\ ~HwBusOff
    BY NoReset
  <1>16. CASE UNCHANGED vars
    BY <1>16
  <1> QED
    BY <1>1, <1>2, <1>3, <1>4, <1>5, <1>6, <1>7, <1>8, <1>9, <1>10, <1>11, <1>12, <1>13,
       <1>14, <1>15, <1>16 DEF Next, Xmit, Irq

\* The counts are exact in every reachable state.
LEMMA PinnedInvariance == ASSUME Pinned PROVE Spec => [](IndInv /\ PinnedInv)
  <1>1. Init => PinnedInv
    BY PinnedStart
  <1>2. IndInv /\ PinnedInv /\ [Next]_vars => PinnedInv'
    BY PinnedStep
  <1> QED
    BY <1>1, <1>2, Invariance, PTL DEF Spec

\* The assertion of xcan_start_xmit, "BUG!, TX FIFO full when queue awake!", never fires:
\* whenever the stack may call it, fewer than tx_max frames are outstanding.
THEOREM NeverFull == ASSUME Pinned PROVE Spec => []NeverFullWhenAwake
  <1>1. PinnedInv => NeverFullWhenAwake
    BY DEF PinnedInv
  <1> QED
    BY <1>1, PinnedInvariance, PTL

\* When no completion waits to be handled, tx_tail has counted every frame the core sent.
THEOREM TailCounts == ASSUME Pinned PROVE Spec => []TailCountsSent
  <1>1. IndInv /\ PinnedInv => TailCountsSent
    BY DEF IndInv, TypeOK, PinnedInv, TxokExact, TailCountsSent
  <1> QED
    BY <1>1, PinnedInvariance, PTL

\* The only step into a state that nothing wakes is the sender's stop, with the ring
\* already empty: the handler itself always wakes before it returns.
LEMMA StallStep ==
  ASSUME Pinned, IndInv, PinnedInv, Next, ~Stalled, Stalled'
  PROVE  xpc = "stop" /\ tx_head = tx_tail
  <1> USE DEF vars, ring, irq, hw, rst, hist
  <1>1. /\ ~awake' /\ fifo' = << >> /\ txok' = 0
        /\ xpc' = "idle" /\ ipc' = "idle"
    BY Zenon DEF Stalled
  <1>2. ~IrqAckErr /\ ~IrqBusOffReset /\ ~IrqBusOffArm /\ ~Restart /\ ~HwBusOff
    BY NoReset
  <1>3. ~HwTransmit
    <2>1. txok + 1 # 0
      BY DEF IndInv, TypeOK
    <2> QED
      BY <1>1, <2>1 DEF HwTransmit, AfterTransmit, Pinned
  <1>4. ~Irq
    <2>1. ~IrqBegin /\ ~IrqTxLoop /\ ~IrqGetEcho /\ ~IrqIncTail /\ ~IrqReread
      BY <1>1 DEF IrqBegin, IrqTxLoop, IrqGetEcho, IrqIncTail, IrqReread
    <2>2. ~IrqWake
      BY <1>1, Zenon DEF IrqWake
    <2> QED
      BY <1>2, <2>1, <2>2 DEF Irq
  <1>5. XmitBusy \/ XmitCheck \/ XmitStop
    BY <1>1, <1>2, <1>3, <1>4
       DEF Next, Xmit, XmitBegin, XmitPutEcho, XmitIncHead, XmitWriteFifo
  <1>6. XmitStop
    <2>1. ~XmitBusy
      BY DEF XmitBusy, PinnedInv, NeverFullWhenAwake
    <2>2. ~XmitCheck
      BY <1>1 DEF XmitCheck, PinnedInv, SenderAwake
    <2> QED
      BY <1>5, <2>1, <2>2
  <1>7. xpc = "stop" /\ ipc = "idle" /\ fifo = << >> /\ txok = 0
    BY <1>1, <1>6 DEF XmitStop
  <1>8. queued - reaped = 0
    BY <1>7 DEF PinnedInv, TxokExact, FifoExact, IndInv, TypeOK
  <1> QED
    BY <1>7, <1>8, DiffInc DEF IndInv, CountersAgree, TypeOK

\* A stall comes only from a stop that was decided before the handler emptied the ring
\* and carried out after it.
THEOREM OnlyLateStops == ASSUME Pinned PROVE Spec => OnlyLateStopStalls
  <1>1. IndInv /\ PinnedInv /\ [Next]_vars
          => [~Stalled /\ Stalled' => xpc = "stop" /\ tx_head = tx_tail]_vars
    BY StallStep
  <1> QED
    BY <1>1, PinnedInvariance, PTL DEF Spec, OnlyLateStopStalls
-----------------------------------------------------------------------------
(* Arithmetic of the slots *)

\* Quotient and remainder.
LEMMA DivMod == ASSUME NEW m \in Nat \ {0}, NEW x \in Nat
                PROVE /\ x = m * (x \div m) + (x % m) /\ x % m \in 0..m-1 /\ x \div m \in Nat
  OBVIOUS

\* A positive multiple of m is at least m.
LEMMA NoMultiple == ASSUME NEW m \in Nat \ {0}, NEW k \in Int, 0 < m * k PROVE m * k >= m
  <1>1. CASE k <= 0
    BY <1>1
  <1>2. CASE k >= 1
    BY <1>2
  <1> QED BY <1>1, <1>2

\* The remainder is the only one of its range.
LEMMA Unique == ASSUME NEW m \in Nat \ {0}, NEW x \in Nat, NEW q \in Int, NEW r \in 0..m-1,
                       x = m * q + r
                PROVE x % m = r
  OBVIOUS

\* Numbers with the same remainder differ by a multiple.
LEMMA Factor == ASSUME NEW m \in Int, NEW a \in Int, NEW b \in Int, NEW r \in Int
                PROVE (m * b + r) - (m * a + r) = m * (b - a)
  OBVIOUS

\* Of m consecutive numbers no two have the same remainder.
LEMMA ModDistinct == ASSUME NEW m \in Nat \ {0}, NEW x \in Nat, NEW y \in Nat, x < y, y - x < m
   PROVE x % m # y % m
  <1> SUFFICES ASSUME x % m = y % m PROVE FALSE
    OBVIOUS
  <1> DEFINE k == (y \div m) - (x \div m)
  <1>1. k \in Int
    BY DivMod
  <1>2. y - x = m * k
    <2>1. x = m * (x \div m) + (x % m)  /\ y = m * (y \div m) + (y % m)
      BY DivMod
    <2>2. (x \div m) \in Int /\ (y \div m) \in Int /\ x % m \in Int
      BY DivMod
    <2>3. (m * (y \div m) + (x % m)) - (m * (x \div m) + (x % m)) = m * k
      BY <2>2, Factor
    <2> QED BY <2>1, <2>3
  <1> HIDE DEF k
  <1>3. m * k >= m
    BY <1>1, <1>2, NoMultiple
  <1> QED
    BY <1>1, <1>2, <1>3

\* Taking off a multiple of m leaves the remainder as it is.
LEMMA ModWrap == ASSUME NEW m \in Nat \ {0}, NEW n \in Nat, n % m = 0, NEW x \in Nat, x >= n
                 PROVE (x - n) % m = x % m
  <1> DEFINE q == n \div m
             a == (x - n) \div m
             r == (x - n) % m
  <1>1. n = m * q /\ q \in Nat
    BY DivMod
  <1>2. x - n = m * a + r /\ a \in Nat /\ r \in 0..m-1
    <2>1. x - n \in Nat
      OBVIOUS
    <2> QED
      BY <2>1, DivMod
  <1> HIDE DEF q, a, r
  <1>3. x = m * (a + q) + r
    <2>1. m * q + (m * a + r) = m * (a + q) + r
      BY <1>1, <1>2
    <2> QED
      BY <1>1, <1>2, <2>1
  <1>4. x % m = r
    BY <1>1, <1>2, <1>3, Unique
  <1> QED
    BY <1>4 DEF r

\* The slot goes round with the counter, also across the wrap.
LEMMA SlotAdv ==
  ASSUME RingFits, NEW c \in 0..CntMod-1, NEW k \in Nat
  PROVE  Slot(Adv(c, k)) = (c + k) % TxMax
  <1>1. CASE c + k < CntMod
    BY <1>1 DEF Slot, Adv
  <1>2. CASE c + k >= CntMod
    <2>1. ((c + k) - CntMod) % TxMax = (c + k) % TxMax
      <3> DEFINE x == c + k
      <3>1. /\ TxMax \in Nat \ {0} /\ CntMod \in Nat /\ CntMod % TxMax = 0
            /\ x \in Nat /\ x >= CntMod
        BY <1>2, TxAssumption DEF RingFits
      <3> HIDE DEF x
      <3>2. (x - CntMod) % TxMax = x % TxMax
        BY <3>1, ModWrap, Zenon
      <3> QED
        BY <3>2 DEF x
    <2>2. Adv(c, k) = (c + k) - CntMod
      BY <1>2, TxAssumption DEF Adv
    <2> QED
      BY <2>1, <2>2 DEF Slot
  <1> QED
    BY <1>1, <1>2, TxAssumption

\* Of tx_max consecutive counter values no two share a slot.
LEMMA SlotsDistinct ==
  ASSUME RingFits, NEW c \in 0..CntMod-1, NEW j \in Nat, NEW k \in Nat, j < k, k - j < TxMax
  PROVE  Slot(Adv(c, j)) # Slot(Adv(c, k))
  <1>1. (c + j) % TxMax # (c + k) % TxMax
    <2>1. c + j \in Nat /\ c + k \in Nat /\ c + j < c + k /\ (c + k) - (c + j) < TxMax
      BY TxAssumption
    <2> QED
      BY <2>1, TxAssumption, ModDistinct
  <1> QED
    BY <1>1, SlotAdv

\* k increments after the next counter value are k + 1 after this one.
LEMMA AdvInc ==
  ASSUME NEW c \in 0..CntMod-1, NEW k \in Nat, k < CntMod
  PROVE  Adv(Inc(c), k) = Adv(c, k + 1)
  BY TxAssumption DEF Adv, Inc

\* The difference of the counters leads from the tail to the head.
LEMMA AdvDiff ==
  ASSUME NEW h \in 0..CntMod-1, NEW t \in 0..CntMod-1
  PROVE  Adv(t, Diff(h, t)) = h
  BY TxAssumption DEF Adv, Diff

\* The advanced counter is a counter value.
LEMMA AdvRange ==
  ASSUME NEW c \in 0..CntMod-1, NEW k \in Nat, k < CntMod
  PROVE  Adv(c, k) \in 0..CntMod-1
  BY TxAssumption DEF Adv

-----------------------------------------------------------------------------
(* The ring of echo skbs *)

\* What the ring proofs need of the other invariants.
RingType ==
    /\ tx_tail \in 0..CntMod-1 /\ tx_head \in 0..CntMod-1
    /\ echo_skb \in [0..TxMax-1 -> Nat] /\ TxMax \in Nat \ {0} /\ CntMod \in Nat
    /\ queued \in Nat /\ reaped \in Nat /\ sent \in Nat /\ echoed \in Seq(Nat)
    /\ Outstanding \in Nat /\ Outstanding < CntMod /\ Outstanding <= TxMax
    /\ xpc \in {"put", "inc"} => Outstanding < TxMax
    /\ ipc \in {"echo", "tail"} => Outstanding > 0 /\ reaped + 1 <= sent
    /\ First \in {0, 1} /\ Last \in Int /\ Last < TxMax /\ Last < CntMod
    /\ tx_head = Adv(tx_tail, Outstanding)

\* The counters' invariants give it.
LEMMA RingTyped == ASSUME IndInv, PinnedInv PROVE RingType
  <1>1. /\ tx_tail \in 0..CntMod-1 /\ tx_head \in 0..CntMod-1
        /\ echo_skb \in [0..TxMax-1 -> Nat] /\ TxMax \in Nat \ {0} /\ CntMod \in Nat
        /\ queued \in Nat /\ reaped \in Nat /\ sent \in Nat /\ echoed \in Seq(Nat)
        /\ txok \in Nat /\ Len(fifo) \in Nat
    BY TxAssumption DEF IndInv, TypeOK
  <1>2. Outstanding = Diff(tx_head, tx_tail) /\ Outstanding \in 0..CntMod-1
    BY <1>1, DiffInc DEF IndInv, CountersAgree, Outstanding
  <1>3. /\ Outstanding <= TxMax
        /\ xpc \in {"put", "inc"} => Outstanding < TxMax
    BY DEF PinnedInv, RingRoom
  <1>4. ipc \in {"echo", "tail"} => Outstanding > 0 /\ reaped + 1 <= sent
    BY <1>1 DEF PinnedInv, TxokExact, FifoExact, Outstanding
  <1>5. xpc = "inc" => Outstanding + 1 <= CntMod - 1
    BY <1>1 DEF IndInv, RoomToCount, Outstanding
  <1>6. First \in {0, 1} /\ Last \in Int /\ Last < TxMax /\ Last < CntMod
    BY <1>1, <1>2, <1>3, <1>5 DEF First, Last
  <1>7. tx_head = Adv(tx_tail, Outstanding)
    BY <1>1, <1>2, AdvDiff
  <1> QED
    BY <1>1, <1>2, <1>3, <1>4, <1>6, <1>7 DEF RingType

\* Initially every slot is empty.
LEMMA RingStart == Init => RingInv
  <1> SUFFICES ASSUME Init PROVE RingInv
    OBVIOUS
  <1>1. First = 0 /\ Last = -1 /\ LoopedCount
    BY DEF Init, First, Last, Outstanding, LoopedCount
  <1>2. \A s \in 0..TxMax-1 : echo_skb[s] = 0
    BY DEF Init
  <1> QED
    BY <1>1, <1>2 DEF RingInv, RingHolds, RingElse

\* A step that leaves the slots and the tail alone keeps it.
LEMMA RingFrame ==
  ASSUME RingInv,
         UNCHANGED <<tx_tail, echo_skb, reaped, echoed>>,
         First' = First, Last' = Last, (ipc' = "tail") <=> (ipc = "tail")
  PROVE  RingInv'
  BY DEF RingInv, RingHolds, RingElse, LoopedCount, SlotAt

\* can_put_echo_skb finds the slot of tx_head empty.
LEMMA RingPut == ASSUME RingFits, RingType, RingInv, XmitPutEcho, ipc = "idle" PROVE RingInv'
  <1> DEFINE d == Outstanding
             s0 == Slot(tx_head)
  <1>1. /\ xpc = "put" /\ xpc' = "inc" /\ s0 = SlotAt(d) /\ s0 \in 0..TxMax-1
        /\ First = 0 /\ First' = 0 /\ Last = d - 1 /\ Last' = d
        /\ d \in Nat /\ d < TxMax /\ queued + 1 = reaped + 1 + d
        /\ UNCHANGED <<tx_tail, tx_head, reaped, queued, echoed, ipc>>
    BY SlotInRange DEF RingType, XmitPutEcho, SlotAt, First, Last, Outstanding, irq, hist
  <1>2. \A k \in 0..d-1 : SlotAt(k) # s0 /\ SlotAt(k) \in 0..TxMax-1
    <2> TAKE k \in 0..d-1
    <2>1. SlotAt(k) # SlotAt(d)
      BY <1>1, SlotsDistinct DEF SlotAt, RingType
    <2>2. SlotAt(k) \in 0..TxMax-1
      <3>1. k \in Nat /\ k < CntMod /\ tx_tail \in 0..CntMod-1
        BY <1>1 DEF RingType
      <3> QED
        BY <3>1, AdvRange, SlotInRange DEF SlotAt
    <2> QED
      BY <1>1, <2>1, <2>2
  <1>3. echo_skb[s0] = 0
    BY <1>1, <1>2 DEF RingInv, RingElse, RingType
  <1>4. /\ echo_skb'[s0] = queued + 1
        /\ \A s \in 0..TxMax-1 : s # s0 => echo_skb'[s] = echo_skb[s]
    BY <1>1, <1>3 DEF XmitPutEcho, RingType
  <1>5. \A k \in Int : SlotAt(k)' = SlotAt(k)
    BY <1>1 DEF SlotAt
  <1> HIDE DEF d, s0
  <1>6. RingHolds'
    <2> SUFFICES ASSUME NEW k \in 0..d PROVE echo_skb'[SlotAt(k)] = reaped + 1 + k
      BY <1>1, <1>5 DEF RingHolds
    <2>1. CASE k = d
      BY <1>1, <1>4, <2>1
    <2>2. CASE k # d
      <3>1. k \in 0..d-1
        BY <1>1, <2>2
      <3>2. echo_skb[SlotAt(k)] = reaped + 1 + k
        BY <1>1, <3>1 DEF RingInv, RingHolds
      <3> QED
        BY <1>2, <1>4, <3>1, <3>2
    <2> QED
      BY <2>1, <2>2
  <1>7. RingElse'
    <2> SUFFICES ASSUME NEW s \in 0..TxMax-1, echo_skb'[s] # 0
                 PROVE  \E k \in 0..d : s = SlotAt(k)
      BY <1>1, <1>5 DEF RingElse
    <2>1. CASE s = s0
      BY <1>1, <2>1
    <2>2. CASE s # s0
      <3>1. echo_skb[s] # 0
        BY <1>4, <2>2
      <3>2. PICK k \in 0..d-1 : s = SlotAt(k)
        BY <1>1, <3>1 DEF RingInv, RingElse
      <3> QED
        BY <1>1, <3>2
    <2> QED
      BY <2>1, <2>2
  <1>8. LoopedCount'
    BY <1>1 DEF RingInv, LoopedCount
  <1> QED
    BY <1>6, <1>7, <1>8 DEF RingInv

\* can_get_echo_skb finds the oldest outstanding frame in the slot of tx_tail.
LEMMA RingGet == ASSUME RingFits, RingType, RingInv, IrqGetEcho PROVE RingInv'
  <1> DEFINE s0 == Slot(tx_tail)
  <1>1. /\ ipc = "echo" /\ ipc' = "tail" /\ s0 = SlotAt(0) /\ s0 \in 0..TxMax-1
        /\ First = 0 /\ First' = 1 /\ Last' = Last /\ Last \in Int
        /\ 0 <= Last /\ Last < TxMax /\ Last < CntMod
        /\ UNCHANGED <<tx_tail, reaped, queued>>
    <2>1. Adv(tx_tail, 0) = tx_tail
      BY DEF RingType, Adv
    <2>2. s0 = SlotAt(0) /\ s0 \in 0..TxMax-1
      BY <2>1, SlotInRange DEF RingType, SlotAt
    <2>3. /\ ipc = "echo" /\ ipc' = "tail"
          /\ UNCHANGED <<tx_tail, reaped, queued, xpc>>
      BY DEF IrqGetEcho
    <2>4. First = 0 /\ First' = 1 /\ Last' = Last /\ 0 <= Last
      BY <2>3 DEF RingType, First, Last, Outstanding
    <2> QED
      BY <2>2, <2>3, <2>4 DEF RingType
  <1>2. \A k \in 1..Last : SlotAt(k) # s0 /\ SlotAt(k) \in 0..TxMax-1
    <2> TAKE k \in 1..Last
    <2>1. SlotAt(0) # SlotAt(k)
      BY <1>1, SlotsDistinct DEF SlotAt, RingType
    <2>2. SlotAt(k) \in 0..TxMax-1
      <3>1. k \in Nat /\ k < CntMod /\ tx_tail \in 0..CntMod-1
        BY <1>1 DEF RingType
      <3> QED
        BY <3>1, AdvRange, SlotInRange DEF SlotAt
    <2> QED
      BY <1>1, <2>1, <2>2
  <1>3. echo_skb[s0] = reaped + 1
    BY <1>1 DEF RingInv, RingHolds, RingType
  <1>4. /\ echo_skb'[s0] = 0
        /\ \A s \in 0..TxMax-1 : s # s0 => echo_skb'[s] = echo_skb[s]
        /\ echoed' = Append(echoed, reaped + 1)
    BY <1>1, <1>3 DEF IrqGetEcho, RingType
  <1>5. \A k \in Int : SlotAt(k)' = SlotAt(k)
    BY <1>1 DEF SlotAt
  <1> HIDE DEF s0
  <1>6. RingHolds'
    <2> SUFFICES ASSUME NEW k \in 1..Last PROVE echo_skb'[SlotAt(k)] = reaped + 1 + k
      BY <1>1, <1>5 DEF RingHolds
    <2>1. echo_skb[SlotAt(k)] = reaped + 1 + k
      BY <1>1 DEF RingInv, RingHolds
    <2> QED
      BY <1>2, <1>4, <2>1
  <1>7. RingElse'
    <2> SUFFICES ASSUME NEW s \in 0..TxMax-1, echo_skb'[s] # 0
                 PROVE  \E k \in 1..Last : s = SlotAt(k)
      BY <1>1, <1>5 DEF RingElse
    <2>1. s # s0 /\ echo_skb[s] # 0
      BY <1>4
    <2>2. PICK k \in 0..Last : s = SlotAt(k)
      BY <1>1, <2>1 DEF RingInv, RingElse
    <2> QED
      BY <1>1, <2>1, <2>2
  <1>8. LoopedCount'
    BY <1>1, <1>4 DEF RingInv, LoopedCount, RingType
  <1> QED
    BY <1>6, <1>7, <1>8 DEF RingInv

\* When tx_tail moves on, each frame is one place nearer to it.
LEMMA RingTail == ASSUME RingFits, RingType, RingInv, IrqIncTail PROVE RingInv'
  <1>1. /\ ipc = "tail" /\ ipc' = "reread" /\ tx_tail' = Inc(tx_tail)
        /\ reaped' = reaped + 1 /\ reaped \in Nat
        /\ First = 1 /\ First' = 0 /\ Last' = Last - 1 /\ Last \in Int /\ Last < CntMod
        /\ UNCHANGED <<echo_skb, echoed>>
    BY DEF RingType, IrqIncTail, First, Last, Outstanding
  <1>2. \A k \in 0..Last-1 : SlotAt(k)' = SlotAt(k + 1) /\ k + 1 \in 1..Last
    <2> TAKE k \in 0..Last-1
    <2>1. k \in Nat /\ k < CntMod /\ k + 1 \in 1..Last /\ tx_tail \in 0..CntMod-1
      BY <1>1 DEF RingType
    <2>2. Adv(Inc(tx_tail), k) = Adv(tx_tail, k + 1)
      BY <2>1, AdvInc
    <2>3. SlotAt(k)' = Slot(Adv(tx_tail', k))
      BY DEF SlotAt
    <2> QED
      BY <1>1, <2>1, <2>2, <2>3 DEF SlotAt
  <1>3. RingHolds'
    <2> SUFFICES ASSUME NEW k \in 0..Last-1
                 PROVE  echo_skb[SlotAt(k)'] = reaped + 1 + 1 + k
      BY <1>1 DEF RingHolds
    <2>1. echo_skb[SlotAt(k + 1)] = reaped + 1 + (k + 1)
      BY <1>1, <1>2 DEF RingInv, RingHolds
    <2> QED
      BY <1>1, <1>2, <2>1
  <1>4. RingElse'
    <2> SUFFICES ASSUME NEW s \in 0..TxMax-1, echo_skb[s] # 0
                 PROVE  \E k \in 0..Last-1 : s = SlotAt(k)'
      BY <1>1 DEF RingElse
    <2>1. PICK k \in 1..Last : s = SlotAt(k)
      BY <1>1 DEF RingInv, RingElse
    <2>2. k - 1 \in 0..Last-1 /\ s = SlotAt(k - 1)'
      BY <1>1, <1>2, <2>1
    <2> QED
      BY <2>2
  <1>5. LoopedCount'
    BY <1>1 DEF RingInv, LoopedCount
  <1> QED
    BY <1>3, <1>4, <1>5 DEF RingInv

\* Every other step leaves the ring as it is.
LEMMA RingStep ==
  ASSUME Pinned, RingFits, IndInv, PinnedInv, RingInv, [Next]_vars
  PROVE  RingInv'
  <1> USE DEF vars, ring, irq, hw, rst, hist
  <1>0. RingType
    BY RingTyped
  <1>1. CASE XmitPutEcho
    BY <1>0, <1>1, RingPut DEF XmitPutEcho, XmitMayRun, Pinned
  <1>2. CASE IrqGetEcho
    BY <1>0, <1>2, RingGet
  <1>3. CASE IrqIncTail
    BY <1>0, <1>3, RingTail
  <1>4. CASE XmitIncHead
    <2>1. /\ UNCHANGED <<tx_tail, echo_skb, reaped, echoed, ipc>>
          /\ xpc = "inc" /\ xpc' = "fifo" /\ queued' = queued + 1
      BY <1>4 DEF XmitIncHead
    <2>2. First' = First /\ Last' = Last
      BY <1>0, <2>1 DEF First, Last, Outstanding, RingType
    <2> QED
      BY <2>1, <2>2, RingFrame
  <1>5. CASE \/ XmitBegin \/ XmitBusy \/ XmitWriteFifo \/ XmitCheck \/ XmitStop
            \/ IrqBegin \/ IrqTxLoop \/ IrqReread \/ IrqWake \/ HwTransmit \/ UNCHANGED vars
    <2>1. /\ UNCHANGED <<tx_tail, echo_skb, reaped, queued, echoed>>
          /\ (ipc' = "tail") <=> (ipc = "tail")
          /\ (xpc' = "inc") <=> (xpc = "inc")
      BY <1>5 DEF XmitBegin, XmitBusy, XmitWriteFifo, XmitCheck, XmitStop,
         IrqBegin, IrqTxLoop, IrqReread, IrqWake, HwTransmit
    <2>2. First' = First /\ Last' = Last
      BY <2>1 DEF First, Last, Outstanding
    <2> QED
      BY <2>1, <2>2, RingFrame
  <1>6. ~IrqAckErr /\ ~IrqBusOffReset /\ ~IrqBusOffArm /\ ~Restart /\ ~HwBusOff
    BY NoReset
  <1> QED
    BY <1>1, <1>2, <1>3, <1>4, <1>5, <1>6 DEF Next, Xmit, Irq

\* The ring holds the outstanding frames in every reachable state.
LEMMA RingInvariance ==
  ASSUME Pinned, RingFits
  PROVE  Spec => [](IndInv /\ PinnedInv /\ RingInv)
  <1>1. Init => RingInv
    BY RingStart
  <1>2. IndInv /\ PinnedInv /\ RingInv /\ [Next]_vars => RingInv'
    BY RingStep
  <1> QED
    BY <1>1, <1>2, PinnedInvariance, PTL DEF Spec

-----------------------------------------------------------------------------
(* The refinement *)

\* The initial state is the abstract one.
LEMMA PromiseInit == Init => Promise!Init
  BY DEF Init, Promise!Init, Written

\* Writing the FIFO accepts a frame, the core's transmission carries it, can_get_echo_skb
\* loops it back; every other step leaves the promise's variables as they are.
LEMMA PromiseStep ==
  ASSUME Pinned, RingFits, IndInv, PinnedInv, RingInv, [Next]_vars
  PROVE  [Promise!Next]_(Promise!vars)
  <1> USE DEF vars, ring, irq, hw, rst, hist
  <1>0. RingType
    BY RingTyped
  <1>1. CASE XmitIncHead
    <2>1. Written' = Written /\ UNCHANGED <<sent, echoed>>
      BY <1>0, <1>1 DEF XmitIncHead, Written, RingType
    <2> QED
      BY <2>1 DEF Promise!vars
  <1>2. CASE XmitWriteFifo
    <2>1. /\ Written' = Written + 1 /\ UNCHANGED <<sent, echoed>>
          /\ Written = queued - 1 /\ ipc = "idle"
      BY <1>0, <1>2 DEF XmitWriteFifo, XmitMayRun, Pinned, Written, RingType
    <2>2. Written - Len(echoed) < TxMax
      BY <1>0, <2>1 DEF RingInv, LoopedCount, RingType, Outstanding
    <2>3. Promise!Accept
      BY <2>1, <2>2 DEF Promise!Accept
    <2> QED
      BY <2>3 DEF Promise!Next
  <1>3. CASE HwTransmit
    <2>1. /\ Written' = Written /\ UNCHANGED echoed /\ sent' = sent + 1
          /\ Len(fifo) > 0
      BY <1>3 DEF HwTransmit, Written, IndInv, TypeOK
    <2>2. sent < Written
      BY <1>0, <2>1 DEF PinnedInv, FifoExact, Written, RingType, IndInv, TypeOK
    <2>3. Promise!Transmit
      BY <2>1, <2>2 DEF Promise!Transmit
    <2> QED
      BY <2>3 DEF Promise!Next
  <1>4. CASE IrqGetEcho
    <2>1. First = 0 /\ 0 <= Last /\ ipc = "echo" /\ reaped + 1 <= sent
      BY <1>0, <1>4 DEF IrqGetEcho, RingType, First, Last
    <2>2. echo_skb[Slot(tx_tail)] = reaped + 1
      <3>1. Adv(tx_tail, 0) = tx_tail
        BY <1>0 DEF RingType, Adv
      <3> QED
        BY <1>0, <2>1, <3>1 DEF RingInv, RingHolds, SlotAt, RingType
    <2>3. Len(echoed) = reaped
      BY <1>0, <2>1 DEF RingInv, LoopedCount, RingType
    <2>4. Written' = Written /\ UNCHANGED sent /\ echoed' = Append(echoed, Len(echoed) + 1)
      BY <1>0, <1>4, <2>2, <2>3 DEF IrqGetEcho, Written, RingType
    <2>5. Promise!Loop
      BY <1>0, <2>1, <2>3, <2>4 DEF Promise!Loop, RingType
    <2> QED
      BY <2>5 DEF Promise!Next
  <1>5. CASE \/ XmitBegin \/ XmitBusy \/ XmitPutEcho \/ XmitCheck \/ XmitStop
            \/ IrqBegin \/ IrqTxLoop \/ IrqIncTail \/ IrqReread \/ IrqWake \/ UNCHANGED vars
    <2>1. /\ UNCHANGED <<queued, sent, echoed>>
          /\ (xpc' = "fifo") <=> (xpc = "fifo")
      BY <1>5 DEF XmitBegin, XmitBusy, XmitPutEcho, XmitCheck, XmitStop,
         IrqBegin, IrqTxLoop, IrqIncTail, IrqReread, IrqWake
    <2> QED
      BY <2>1 DEF Promise!vars, Written
  <1>6. ~IrqAckErr /\ ~IrqBusOffReset /\ ~IrqBusOffArm /\ ~Restart /\ ~HwBusOff
    BY NoReset
  <1> QED
    BY <1>1, <1>2, <1>3, <1>4, <1>5, <1>6 DEF Next, Xmit, Irq

\* The driver keeps the promise of EchoFifo, its fairness apart: frames are accepted while
\* fewer than tx_max are in flight, and looped back once each, in order, after the bus.
THEOREM KeepsPromise ==
  ASSUME Pinned, RingFits
  PROVE  Spec => Promise!Init /\ [][Promise!Next]_(Promise!vars)
  <1>1. Init => Promise!Init
    BY PromiseInit
  <1>2. IndInv /\ PinnedInv /\ RingInv /\ [Next]_vars => [Promise!Next]_(Promise!vars)
    BY PromiseStep
  <1> QED
    BY <1>1, <1>2, RingInvariance, PTL DEF Spec

-----------------------------------------------------------------------------
(* What the promise amounts to, proved of EchoFifo's steps alone.           *)

\* The frames looped back are 1, 2, 3, ... without a gap, each after the bus carried it,
\* and at most TxMax of the accepted frames are still in flight.
InOrderLoopback ==
    /\ Written \in Nat /\ sent \in Nat /\ echoed \in Seq(Nat)
    /\ \A i \in 1..Len(echoed) : echoed[i] = i
    /\ Len(echoed) <= sent /\ sent <= Written /\ Written - Len(echoed) <= TxMax

\* EchoFifo's steps keep it, whatever the driver does underneath.
LEMMA PromiseOrder ==
  /\ Promise!Init => InOrderLoopback
  /\ InOrderLoopback /\ [Promise!Next]_(Promise!vars) => InOrderLoopback'
  <1>1. Promise!Init => InOrderLoopback
    BY TxAssumption DEF Promise!Init, InOrderLoopback
  <1>2. ASSUME InOrderLoopback, [Promise!Next]_(Promise!vars) PROVE InOrderLoopback'
    <2>0. TxMax \in Nat /\ Len(echoed) \in Nat
      BY TxAssumption DEF InOrderLoopback
    <2>1. CASE Promise!Accept
      BY <1>2, <2>0, <2>1 DEF Promise!Accept, InOrderLoopback
    <2>2. CASE Promise!Transmit
      BY <1>2, <2>0, <2>2 DEF Promise!Transmit, InOrderLoopback
    <2>3. CASE Promise!Loop
      <3>1. /\ echoed' = Append(echoed, Len(echoed) + 1) /\ Len(echoed) < sent
            /\ UNCHANGED <<Written, sent>>
        BY <2>3 DEF Promise!Loop
      <3>2. /\ echoed' \in Seq(Nat) /\ Len(echoed') = Len(echoed) + 1
            /\ \A i \in 1..Len(echoed') : echoed'[i] = i
        BY <1>2, <2>0, <3>1 DEF InOrderLoopback
      <3> QED
        BY <1>2, <2>0, <3>1, <3>2 DEF InOrderLoopback
    <2>4. CASE UNCHANGED Promise!vars
      BY <1>2, <2>4 DEF Promise!vars, InOrderLoopback
    <2> QED
      BY <1>2, <2>1, <2>2, <2>3, <2>4 DEF Promise!Next
  <1> QED
    BY <1>1, <1>2

\* So the sockets see the frames 1, 2, 3, ... without a gap, none before it was on the bus.
THEOREM LoopedInOrder ==
  ASSUME Pinned, RingFits
  PROVE  Spec => []InOrderLoopback
  BY PromiseOrder, KeepsPromise, PTL
=============================================================================
