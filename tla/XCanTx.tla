------------------------------- MODULE XCanTx -------------------------------
(***************************************************************************)
(* The transmit path of the Xilinx CAN driver (xilinx_can.c): the network  *)
(* stack's xcan_start_xmit, the transmit and bus-off parts of the interrupt*)
(* handler xcan_interrupt, the restart timer that ends in                  *)
(* xcan_do_set_mode(CAN_MODE_START), and the CAN core they share.          *)
(*                                                                         *)
(* The three contexts take no common lock, so each access to a shared word *)
(* or register is a step of its own, with a program counter per context.   *)
(* A frame is the number of the xcan_start_xmit call that accepted it.     *)
(* The four TX FIFO writes of one frame are one step: the last of them is  *)
(* what hands the frame to the core.                                       *)
(***************************************************************************)
EXTENDS Integers, Sequences

CONSTANTS
    TxMax,       \* tx_max: the device tree's "tx-fifo-depth", the depth of the TX FIFO
    CntMod,      \* tx_head and tx_tail are unsigned: they wrap at CntMod (2^32)
    StickyTxok,  \* TXOK is one bit that a single ICR write clears; otherwise it stays
                 \* asserted until it was cleared once per transmitted frame
    Smp,         \* the contexts run on different CPUs; otherwise the interrupt runs to
                 \* completion and softirqs do not preempt each other
    MaxFrames,   \* bound: number of frames accepted
    MaxBusOffs   \* bound: number of bus-off events

ASSUME TxAssumption ==
    /\ TxMax \in Nat \ {0}
    /\ CntMod \in Nat /\ CntMod > 1
    /\ StickyTxok \in BOOLEAN /\ Smp \in BOOLEAN
    /\ MaxFrames \in Nat /\ MaxBusOffs \in Nat

VARIABLES
    tx_head, tx_tail,  \* the driver's counters
    echo_skb,          \* can_priv.echo_skb: the frame kept in each slot, 0 when empty
    awake,             \* the transmit queue is not stopped
    xpc,               \* where xcan_start_xmit is
    ipc,               \* where xcan_interrupt is
    seenTxok,          \* TXOK in the handler's local isr
    seenBsoff,         \* BSOFF in the handler's local isr
    timer,             \* can_priv.restart_timer is pending
    rpc,               \* where the restart timer's function is
    fifo,              \* the core's TX FIFO
    txok,              \* how many more times ISR will show TXOK (0 or 1 when sticky)
    bsoff,             \* ISR.BSOFF
    core,              \* the mode of the core
    busOffs,           \* number of bus-off events so far
    queued,            \* history: frames counted by tx_head, without wrap-around
    reaped,            \* history: frames counted by tx_tail, without wrap-around
    sent,              \* history: frames the core has transmitted
    echoed             \* history: the frames looped back to the sockets

ring   == <<tx_head, tx_tail, echo_skb>>
irq    == <<ipc, seenTxok, seenBsoff>>
hw     == <<fifo, txok, bsoff, core, busOffs>>
hist   == <<queued, reaped, sent, echoed>>
rst    == <<timer, rpc>>
vars   == <<ring, awake, xpc, irq, rst, hw, hist>>

-----------------------------------------------------------------------------
(* Helpers *)

\* Mutant: a counter that does not wrap.
Inc_NoWrap(c) == c + 1

\* unsigned increment
Inc(c) == IF c = CntMod - 1 THEN 0 ELSE c + 1
\* unsigned subtraction
Diff(a, b) == IF a >= b THEN a - b ELSE a - b + CntMod
Slot(c) == c % TxMax

\* What an ICR write of TXOK leaves of it.
AfterIcr == IF StickyTxok \/ txok = 0 THEN 0 ELSE txok - 1
\* What one more transmitted frame makes of it.
AfterTransmit == IF StickyTxok THEN 1 ELSE txok + 1

XmitMayRun    == Smp \/ (ipc = "idle" /\ rpc = "idle")
RestartMayRun == Smp \/ (ipc = "idle" /\ xpc = "idle")

\* Writing SRR.RESET: FIFOs and ISR are cleared, the core is in configuration mode.
SoftReset ==
    /\ fifo' = << >>
    /\ txok' = 0
    /\ bsoff' = FALSE
    /\ core' = "config"
    /\ UNCHANGED busOffs

-----------------------------------------------------------------------------
Init ==
    /\ tx_head = 0 /\ tx_tail = 0
    /\ echo_skb = [s \in 0..TxMax-1 |-> 0]
    /\ awake = TRUE
    /\ xpc = "idle" /\ ipc = "idle" /\ rpc = "idle" /\ timer = FALSE
    /\ seenTxok = FALSE /\ seenBsoff = FALSE
    /\ fifo = << >> /\ txok = 0 /\ bsoff = FALSE /\ core = "normal"
    /\ busOffs = 0
    /\ queued = 0 /\ reaped = 0 /\ sent = 0 /\ echoed = << >>

-----------------------------------------------------------------------------
(* xcan_start_xmit.  The stack calls it when the queue is awake and never  *)
(* twice at a time.  MaxFrames bounds the run, and no more than CntMod - 1 *)
(* frames may be unaccounted for (2^32 - 1 in the driver).                 *)

\* Mutant: the TXFLL test is dropped.
XmitBegin_NoTest ==
    /\ xpc = "idle" /\ awake /\ XmitMayRun
    /\ queued < MaxFrames /\ queued - reaped < CntMod - 1
    /\ xpc' = "put"
    /\ UNCHANGED <<ring, awake, irq, rst, hw, hist>>

XmitBegin ==
    /\ xpc = "idle" /\ awake /\ XmitMayRun
    /\ queued < MaxFrames /\ queued - reaped < CntMod - 1
    /\ xpc' = IF Len(fifo) = TxMax THEN "busy" ELSE "put"
    /\ UNCHANGED <<ring, awake, irq, rst, hw, hist>>

\* "BUG!, TX FIFO full when queue awake!": the stack keeps the frame.
XmitBusy ==
    /\ xpc = "busy" /\ XmitMayRun
    /\ awake' = FALSE
    /\ xpc' = "idle"
    /\ UNCHANGED <<ring, irq, rst, hw, hist>>

\* can_put_echo_skb frees the new skb when the slot is occupied.
XmitPutEcho ==
    /\ xpc = "put" /\ XmitMayRun
    /\ echo_skb' = [echo_skb EXCEPT ![Slot(tx_head)] = IF @ = 0 THEN queued + 1 ELSE @]
    /\ xpc' = "inc"
    /\ UNCHANGED <<tx_head, tx_tail, awake, irq, rst, hw, hist>>

XmitIncHead ==
    /\ xpc = "inc" /\ XmitMayRun
    /\ tx_head' = Inc(tx_head)
    /\ queued' = queued + 1
    /\ xpc' = "fifo"
    /\ UNCHANGED <<tx_tail, echo_skb, awake, irq, rst, hw, reaped, sent, echoed>>

\* A core in configuration mode may ignore the frame, and a full FIFO does.
XmitWriteFifo ==
    /\ xpc = "fifo" /\ XmitMayRun
    /\ \/ Len(fifo) < TxMax /\ fifo' = Append(fifo, queued)
       \/ (core = "config" \/ Len(fifo) = TxMax) /\ UNCHANGED fifo
    /\ xpc' = "check"
    /\ UNCHANGED <<ring, awake, irq, rst, txok, bsoff, core, busOffs, hist>>

\* Mutant: one frame too many.
XmitCheck_OffByOne ==
    /\ xpc = "check" /\ XmitMayRun
    /\ xpc' = IF Diff(tx_head, tx_tail) = TxMax + 1 THEN "stop" ELSE "idle"
    /\ UNCHANGED <<ring, awake, irq, rst, hw, hist>>

XmitCheck ==
    /\ xpc = "check" /\ XmitMayRun
    /\ xpc' = IF Diff(tx_head, tx_tail) = TxMax THEN "stop" ELSE "idle"
    /\ UNCHANGED <<ring, awake, irq, rst, hw, hist>>

XmitStop ==
    /\ xpc = "stop" /\ XmitMayRun
    /\ awake' = FALSE
    /\ xpc' = "idle"
    /\ UNCHANGED <<ring, irq, rst, hw, hist>>

Xmit == \/ XmitBusy \/ XmitPutEcho \/ XmitIncHead
        \/ XmitWriteFifo \/ XmitCheck \/ XmitStop

-----------------------------------------------------------------------------
(* xcan_interrupt, its TXOK and BSOFF branches.  The line is level         *)
(* sensitive: the handler runs while an enabled ISR bit is set.            *)

\* Mutant: everything that was read is acknowledged at once, and TXOK again in the loop.
IrqBegin_AckAll ==
    /\ ipc = "idle"
    /\ txok > 0 \/ bsoff
    /\ seenTxok' = (txok > 0)
    /\ seenBsoff' = bsoff
    /\ txok' = AfterIcr
    /\ ipc' = IF txok > 0 THEN "loop" ELSE "err"
    /\ UNCHANGED <<ring, awake, xpc, rst, fifo, bsoff, core, busOffs, hist>>

IrqBegin ==
    /\ ipc = "idle"
    /\ txok > 0 \/ bsoff
    /\ seenTxok' = (txok > 0)
    /\ seenBsoff' = bsoff
    /\ ipc' = IF txok > 0 THEN "loop" ELSE "err"
    /\ UNCHANGED <<ring, awake, xpc, rst, hw, hist>>

\* Mutant: the acknowledgement is forgotten.
IrqTxLoop_NoAck ==
    /\ ipc = "loop"
    /\ ipc' = IF tx_head # tx_tail /\ seenTxok THEN "echo" ELSE "wake"
    /\ UNCHANGED <<ring, awake, xpc, seenTxok, seenBsoff, rst, hw, hist>>

\* The loop condition of xcan_tx_interrupt, and the ICR write that follows it.
IrqTxLoop ==
    /\ ipc = "loop"
    /\ IF tx_head # tx_tail /\ seenTxok
       THEN ipc' = "echo" /\ txok' = AfterIcr
       ELSE ipc' = "wake" /\ UNCHANGED txok
    /\ UNCHANGED <<ring, awake, xpc, seenTxok, seenBsoff, rst, fifo, bsoff, core,
                   busOffs, hist>>

\* Mutant: the slot of the newest frame instead of the oldest.
IrqGetEcho_Head ==
    /\ ipc = "echo"
    /\ LET f == echo_skb[Slot(tx_head)]
       IN  echoed' = IF f = 0 THEN echoed ELSE Append(echoed, f)
    /\ echo_skb' = [echo_skb EXCEPT ![Slot(tx_head)] = 0]
    /\ ipc' = "tail"
    /\ UNCHANGED <<tx_head, tx_tail, awake, xpc, seenTxok, seenBsoff, rst, hw,
                   queued, reaped, sent>>

\* Mutant: the slot is not emptied.
IrqGetEcho_Keep ==
    /\ ipc = "echo"
    /\ LET f == echo_skb[Slot(tx_tail)]
       IN  echoed' = IF f = 0 THEN echoed ELSE Append(echoed, f)
    /\ ipc' = "tail"
    /\ UNCHANGED <<ring, awake, xpc, seenTxok, seenBsoff, rst, hw,
                   queued, reaped, sent>>

\* can_get_echo_skb
IrqGetEcho ==
    /\ ipc = "echo"
    /\ LET f == echo_skb[Slot(tx_tail)]
       IN  echoed' = IF f = 0 THEN echoed ELSE Append(echoed, f)
    /\ echo_skb' = [echo_skb EXCEPT ![Slot(tx_tail)] = 0]
    /\ ipc' = "tail"
    /\ UNCHANGED <<tx_head, tx_tail, awake, xpc, seenTxok, seenBsoff, rst, hw,
                   queued, reaped, sent>>

IrqIncTail ==
    /\ ipc = "tail"
    /\ tx_tail' = Inc(tx_tail)
    /\ reaped' = reaped + 1
    /\ ipc' = "reread"
    /\ UNCHANGED <<tx_head, echo_skb, awake, xpc, seenTxok, seenBsoff, rst, hw,
                   queued, sent, echoed>>

IrqReread ==
    /\ ipc = "reread"
    /\ seenTxok' = (txok > 0)
    /\ ipc' = "loop"
    /\ UNCHANGED <<ring, awake, xpc, seenBsoff, rst, hw, hist>>

\* Mutant: the wake-up is forgotten.
IrqWake_Never ==
    /\ ipc = "wake"
    /\ ipc' = IF seenBsoff THEN "err" ELSE "idle"
    /\ UNCHANGED <<ring, awake, xpc, seenTxok, seenBsoff, rst, hw, hist>>

\* Mutant: only while frames are outstanding.
IrqWake_IfBusy ==
    /\ ipc = "wake"
    /\ awake' = (awake \/ tx_head # tx_tail)
    /\ ipc' = IF seenBsoff THEN "err" ELSE "idle"
    /\ UNCHANGED <<ring, xpc, seenTxok, seenBsoff, rst, hw, hist>>

\* netif_wake_queue, whatever the ring holds
IrqWake ==
    /\ ipc = "wake"
    /\ awake' = TRUE
    /\ ipc' = IF seenBsoff THEN "err" ELSE "idle"
    /\ UNCHANGED <<ring, xpc, seenTxok, seenBsoff, rst, hw, hist>>

\* The ICR write of the error bits.
IrqAckErr ==
    /\ ipc = "err"
    /\ bsoff' = FALSE
    /\ ipc' = "reset"
    /\ UNCHANGED <<ring, awake, xpc, seenTxok, seenBsoff, rst, fifo, txok, core,
                   busOffs, hist>>

\* xcan_err_interrupt leaves the core in configuration mode on bus-off.
IrqBusOffReset ==
    /\ ipc = "reset"
    /\ SoftReset
    /\ ipc' = "off"
    /\ UNCHANGED <<ring, awake, xpc, seenTxok, seenBsoff, rst, hist>>

\* can_bus_off arms the restart timer.
IrqBusOffArm ==
    /\ ipc = "off"
    /\ timer' = TRUE
    /\ ipc' = "idle"
    /\ UNCHANGED <<ring, awake, xpc, seenTxok, seenBsoff, rpc, hw, hist>>

Irq == \/ IrqBegin \/ IrqTxLoop \/ IrqGetEcho \/ IrqIncTail \/ IrqReread \/ IrqWake
       \/ IrqAckErr \/ IrqBusOffReset \/ IrqBusOffArm

-----------------------------------------------------------------------------
(* The restart timer: can_restart frees the echo skbs, then                *)
(* xcan_do_set_mode runs xcan_chip_start and wakes the queue.  tx_head and *)
(* tx_tail are left as they are.                                           *)

RestartFlush ==
    /\ rpc = "idle" /\ timer /\ RestartMayRun
    /\ timer' = FALSE
    /\ echo_skb' = [s \in 0..TxMax-1 |-> 0]
    /\ rpc' = "reset"
    /\ UNCHANGED <<tx_head, tx_tail, awake, xpc, irq, hw, hist>>

RestartReset ==
    /\ rpc = "reset" /\ RestartMayRun
    /\ SoftReset
    /\ rpc' = "start"
    /\ UNCHANGED <<ring, awake, xpc, irq, timer, hist>>

RestartStart ==
    /\ rpc = "start" /\ RestartMayRun
    /\ core' = "normal"
    /\ rpc' = "wake"
    /\ UNCHANGED <<ring, awake, xpc, irq, timer, fifo, txok, bsoff, busOffs, hist>>

\* A mode change did not come within XCAN_TIMEOUT: the queue is left as it is, and the
\* core may still follow the CEN that was written.
RestartTimeout ==
    /\ rpc = "start" /\ RestartMayRun
    /\ core' \in {"config", "normal"}
    /\ rpc' = "idle"
    /\ UNCHANGED <<ring, awake, xpc, irq, timer, fifo, txok, bsoff, busOffs, hist>>

RestartWake ==
    /\ rpc = "wake" /\ RestartMayRun
    /\ awake' = TRUE
    /\ rpc' = "idle"
    /\ UNCHANGED <<ring, xpc, irq, timer, hw, hist>>

Restart == \/ RestartFlush \/ RestartReset \/ RestartStart
           \/ RestartTimeout \/ RestartWake

-----------------------------------------------------------------------------
(* The CAN core *)

HwTransmit ==
    /\ core = "normal" /\ fifo # << >>
    /\ fifo' = Tail(fifo)
    /\ sent' = sent + 1
    /\ txok' = AfterTransmit
    /\ UNCHANGED <<ring, awake, xpc, irq, rst, bsoff, core, busOffs, queued, reaped, echoed>>

HwBusOff ==
    /\ core = "normal" /\ busOffs < MaxBusOffs
    /\ core' = "busoff"
    /\ bsoff' = TRUE
    /\ busOffs' = busOffs + 1
    /\ UNCHANGED <<ring, awake, xpc, irq, rst, fifo, txok, hist>>

-----------------------------------------------------------------------------
Next == XmitBegin \/ Xmit \/ Irq \/ Restart \/ HwTransmit \/ HwBusOff

Spec == Init /\ [][Next]_vars

\* Every context that has begun goes on, a pending interrupt is taken and the core
\* transmits what it holds; nobody has to hand over a frame or take the bus down.
Fairness == WF_vars(Xmit) /\ WF_vars(Irq) /\ WF_vars(HwTransmit)

FairSpec == Spec /\ Fairness

-----------------------------------------------------------------------------
(* Properties *)

\* Every variable holds a value of its kind.
TypeOK ==
    /\ tx_head \in 0..CntMod-1 /\ tx_tail \in 0..CntMod-1
    /\ echo_skb \in [0..TxMax-1 -> Nat]
    /\ awake \in BOOLEAN
    /\ xpc \in {"idle", "busy", "put", "inc", "fifo", "check", "stop"}
    /\ ipc \in {"idle", "loop", "echo", "tail", "reread", "wake", "err", "reset", "off"}
    /\ seenTxok \in BOOLEAN /\ seenBsoff \in BOOLEAN
    /\ timer \in BOOLEAN /\ rpc \in {"idle", "reset", "start", "wake"}
    /\ fifo \in Seq(Nat) /\ Len(fifo) <= TxMax
    /\ txok \in Nat /\ bsoff \in BOOLEAN
    /\ core \in {"normal", "busoff", "config"} /\ busOffs \in Nat
    /\ queued \in Nat /\ reaped \in Nat /\ sent \in Nat
    /\ echoed \in Seq(Nat)

\* The interrupt handler never leaves xcan_tx_interrupt with a TXOK it saw and did not
\* acknowledge: on a level sensitive line that would call it again for ever.  The loop
\* acknowledges only while tx_head and tx_tail differ, so this says that no TXOK is ever
\* seen without a frame to account it to, whatever was reset, merged or interleaved.
NoTxStorm == ipc = "wake" => ~seenTxok

\* xcan_start_xmit writes a frame only to a TX FIFO with room: the TXFLL test at its
\* entry still holds at the writes, even after the ring's accounting has gone wrong.
FifoNeverOverrun == xpc \in {"put", "inc", "fifo"} => Len(fifo) < TxMax

\* No frame is looped back twice, and one that was is no longer in the ring, whatever
\* the order in which the slots were filled, emptied by the handler and flushed.
EchoOnce ==
    /\ \A i, j \in 1..Len(echoed) : echoed[i] = echoed[j] => i = j
    /\ \A i \in 1..Len(echoed), s \in 0..TxMax-1 : echo_skb[s] # echoed[i]

\* The assertion of xcan_start_xmit: "BUG!, TX FIFO full when queue awake!".
NeverFullWhenAwake == xpc # "busy"

\* "tx_tail: Tx CAN packets successfully sended": once no completion is waiting to be
\* handled, tx_tail has counted every frame the core has sent.
TailCountsSent == ipc = "idle" /\ txok = 0 => reaped = sent

\* A stopped queue is woken as long as the core still has a frame to send, since every
\* completion wakes it.
StoppedWakes == (~awake /\ fifo # << >>) ~> awake

\* A queue that nothing can wake any more: it is stopped, no frame is outstanding, no
\* completion pending and no context running.
Stalled == /\ ~awake /\ fifo = << >> /\ txok = 0 /\ ~bsoff /\ core = "normal"
           /\ xpc = "idle" /\ ipc = "idle" /\ rpc = "idle" /\ ~timer

\* Stalls come from one place only: xcan_start_xmit found the ring full, the handler then
\* reaped it and woke the queue, and the stop that was already decided came last.
OnlyLateStopStalls == [][~Stalled /\ Stalled' => xpc = "stop" /\ tx_head = tx_tail]_vars

\* The promise to the socket layer, with the frames of the ring as the accepted ones.
Written == IF xpc = "fifo" THEN queued - 1 ELSE queued
Promise == INSTANCE EchoFifo WITH Capacity <- TxMax, accepted <- Written,
                                  transmitted <- sent, looped <- echoed
Implements == Promise!Spec
=============================================================================
