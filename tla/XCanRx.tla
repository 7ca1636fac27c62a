------------------------------- MODULE XCanRx -------------------------------
(***************************************************************************)
(* The receive path of xilinx_can.c: the interrupt handler masks the RX    *)
(* interrupts and schedules NAPI, xcan_rx_poll drains the RX FIFO, ends    *)
(* the polling and unmasks them.  Both change IER by reading it and        *)
(* writing it back, with no lock between them; on several CPUs the end of  *)
(* one poll may run beside the next.  RXOFLW is not enabled in IER, but    *)
(* the handler acts on it whenever it reads ISR: it resets the core, as it *)
(* does on bus-off; after a bus-off the restart timer, on any CPU, brings  *)
(* the core and IER back.                                                  *)
(*                                                                         *)
(* A frame is the number of its arrival; NoFrame stands for what reading   *)
(* an empty FIFO returns.                                                  *)
(***************************************************************************)
EXTENDS Integers, Sequences

CONSTANTS
    Cpus,          \* the CPUs that take interrupts and run NAPI
    RxDepth,       \* depth of the RX FIFO
    Quota,         \* NAPI's quota of a poll (64 in the driver)
    MaxFrames,     \* bound: number of frames that arrive
    MaxOverflows,  \* bound: number of arrivals at a full FIFO
    MaxErrors,     \* bound: number of error interrupts
    MaxBusOffs     \* bound: number of bus-off events

ASSUME RxAssumption ==
    /\ Cpus # {}
    /\ RxDepth \in Nat \ {0} /\ Quota \in Nat \ {0}
    /\ MaxFrames \in Nat /\ MaxOverflows \in Nat /\ MaxErrors \in Nat
    /\ MaxBusOffs \in Nat

VARIABLES
    fifo,         \* the core's RX FIFO
    rxok,         \* ISR.RXOK
    rxnemp,       \* ISR.RXNEMP
    rxoflw,       \* ISR.RXOFLW
    bsoff,        \* ISR.BSOFF
    error,        \* the other bits of ISR that lead to xcan_err_interrupt
    ier,          \* IER: "rx" for RXOK and RXNEMP, "other" for the rest of XCAN_INTR_ALL
    core,         \* "normal", "busoff", or "config" after a reset
    ipc, icpu,    \* where xcan_interrupt is, and on which CPU
    seen,         \* the causes in its isr
    iier,         \* its ier
    sched, owner, \* NAPI_STATE_SCHED and the CPU whose poll list holds the napi structure
    ppc,          \* where xcan_rx_poll is on each CPU
    pisr,         \* RXNEMP in its isr
    work,         \* its work_done
    pier,         \* its ier
    timer,        \* can_priv.restart_timer is pending
    rpc, rcpu,    \* where its function is, and on which CPU
    arrived,      \* history: frames that found room
    lost,         \* number of frames that did not
    errors,       \* number of error interrupts so far
    busOffs,      \* number of bus-off events so far
    raced,        \* history: the last restart wrote IER between the read and the write
                  \* of another context
    delivered     \* history: what netif_receive_skb was given

bits  == <<rxok, rxnemp, rxoflw, bsoff, error>>
hw    == <<fifo, bits, core>>
irq   == <<ipc, icpu, seen, iier>>
napi  == <<sched, owner>>
poll  == <<ppc, pisr, work, pier>>
rst   == <<timer, rpc, rcpu, raced>>
hist  == <<arrived, lost, errors, busOffs>>
vars  == <<hw, ier, irq, napi, poll, rst, hist, delivered>>

NoFrame == 0
AllIrqs == {"rx", "other"}
AllCauses == {"rx", "bsoff", "rxoflw", "error"}

-----------------------------------------------------------------------------
Init ==
    /\ fifo = << >> /\ core = "normal" /\ ier = AllIrqs
    /\ rxok = FALSE /\ rxnemp = FALSE /\ rxoflw = FALSE /\ bsoff = FALSE /\ error = FALSE
    /\ ipc = "idle" /\ icpu \in Cpus /\ seen = {} /\ iier = {}
    /\ sched = FALSE /\ owner \in Cpus
    /\ ppc = [c \in Cpus |-> "idle"] /\ pisr = [c \in Cpus |-> FALSE]
    /\ work = [c \in Cpus |-> 0] /\ pier = [c \in Cpus |-> {}]
    /\ timer = FALSE /\ rpc = "idle" /\ rcpu \in Cpus /\ raced = FALSE
    /\ arrived = 0 /\ lost = 0 /\ errors = 0 /\ busOffs = 0 /\ delivered = << >>

-----------------------------------------------------------------------------
(* The CAN core *)

HwReceive ==
    /\ core = "normal" /\ arrived < MaxFrames /\ Len(fifo) < RxDepth
    /\ fifo' = Append(fifo, arrived + 1)
    /\ arrived' = arrived + 1
    /\ rxok' = TRUE /\ rxnemp' = TRUE
    /\ UNCHANGED <<rxoflw, bsoff, error, core, ier, irq, napi, poll, rst, lost, errors,
                   busOffs, delivered>>

HwOverflow ==
    /\ core = "normal" /\ lost < MaxOverflows /\ Len(fifo) = RxDepth
    /\ lost' = lost + 1
    /\ rxoflw' = TRUE
    /\ UNCHANGED <<fifo, rxok, rxnemp, bsoff, error, core, ier, irq, napi, poll, rst,
                   arrived, errors, busOffs, delivered>>

HwError ==
    /\ core = "normal" /\ errors < MaxErrors /\ ~error
    /\ error' = TRUE
    /\ errors' = errors + 1
    /\ UNCHANGED <<fifo, rxok, rxnemp, rxoflw, bsoff, core, ier, irq, napi, poll, rst,
                   arrived, lost, busOffs, delivered>>

HwBusOff ==
    /\ core = "normal" /\ busOffs < MaxBusOffs
    /\ core' = "busoff"
    /\ bsoff' = TRUE
    /\ busOffs' = busOffs + 1
    /\ UNCHANGED <<fifo, rxok, rxnemp, rxoflw, error, ier, irq, napi, poll, rst, arrived,
                   lost, errors, delivered>>

\* Writing SRR.RESET: the FIFO, ISR and IER are cleared, the core is in configuration mode.
SoftReset ==
    /\ fifo' = << >> /\ core' = "config" /\ ier' = {}
    /\ rxok' = FALSE /\ rxnemp' = FALSE /\ rxoflw' = FALSE /\ bsoff' = FALSE /\ error' = FALSE

-----------------------------------------------------------------------------
(* xcan_interrupt *)

Asserted == ("rx" \in ier /\ (rxok \/ rxnemp)) \/ ("other" \in ier /\ (error \/ bsoff))

\* Where the handler goes after the error branch.
AfterErrors == IF "rx" \in seen THEN "read" ELSE "idle"
AfterBusOff == IF "rxoflw" \in seen THEN "oflw" ELSE AfterErrors

\* One read of ISR, whatever IER masks.
IrqBegin(c) ==
    /\ ipc = "idle" /\ Asserted
    /\ icpu' = c
    /\ seen' = {b \in AllCauses : CASE b = "rx" -> rxok \/ rxnemp
                                  [] b = "bsoff" -> bsoff
                                  [] b = "rxoflw" -> rxoflw
                                  [] b = "error" -> error}
    /\ ipc' = IF bsoff \/ rxoflw \/ error THEN "errors" ELSE "read"
    /\ UNCHANGED <<hw, ier, iier, napi, poll, rst, hist, delivered>>

\* All error causes are acknowledged when one was seen.
IrqAckErrors ==
    /\ ipc = "errors"
    /\ error' = FALSE /\ rxoflw' = FALSE /\ bsoff' = FALSE
    /\ ipc' = IF "bsoff" \in seen THEN "bsoff" ELSE AfterBusOff
    /\ UNCHANGED <<fifo, rxok, rxnemp, core, ier, icpu, seen, iier, napi, poll, rst, hist,
                   delivered>>

\* Bus-off: SRR.RESET, and can_bus_off arms the restart timer.
IrqBusOff ==
    /\ ipc = "bsoff"
    /\ SoftReset
    /\ timer' = TRUE
    /\ ipc' = AfterBusOff
    /\ UNCHANGED <<icpu, seen, iier, napi, poll, rpc, rcpu, raced, hist, delivered>>

\* RX FIFO overflow: SRR.RESET, and nothing arms a restart.
IrqOverflow ==
    /\ ipc = "oflw"
    /\ SoftReset
    /\ ipc' = AfterErrors
    /\ UNCHANGED <<icpu, seen, iier, napi, poll, rst, hist, delivered>>

IrqReadIer ==
    /\ ipc = "read"
    /\ iier' = ier
    /\ ipc' = "mask"
    /\ UNCHANGED <<hw, ier, icpu, seen, napi, poll, rst, hist, delivered>>

\* Mutant: every interrupt is masked.
IrqMask_All ==
    /\ ipc = "mask"
    /\ ier' = {}
    /\ ipc' = "schedule"
    /\ UNCHANGED <<hw, icpu, seen, iier, napi, poll, rst, hist, delivered>>

IrqMask ==
    /\ ipc = "mask"
    /\ ier' = iier \ {"rx"}
    /\ ipc' = "schedule"
    /\ UNCHANGED <<hw, icpu, seen, iier, napi, poll, rst, hist, delivered>>

\* Mutant: NAPI_STATE_SCHED is not looked at.
IrqSchedule_NoTest ==
    /\ ipc = "schedule"
    /\ sched' = TRUE
    /\ owner' = icpu
    /\ ipc' = "idle"
    /\ UNCHANGED <<hw, ier, icpu, seen, iier, poll, rst, hist, delivered>>

\* napi_schedule does nothing when the napi structure is scheduled already.
IrqSchedule ==
    /\ ipc = "schedule"
    /\ sched' = TRUE
    /\ owner' = IF sched THEN owner ELSE icpu
    /\ ipc' = "idle"
    /\ UNCHANGED <<hw, ier, icpu, seen, iier, poll, rst, hist, delivered>>

Irq == \/ \E c \in Cpus : IrqBegin(c)
       \/ IrqAckErrors \/ IrqBusOff \/ IrqOverflow \/ IrqReadIer \/ IrqMask \/ IrqSchedule

-----------------------------------------------------------------------------
(* xcan_rx_poll on CPU c, when the handler has not interrupted it there    *)
(* and the restart timer's softirq is not running there                    *)

At(c, here) == /\ ppc[c] = here
               /\ ipc # "idle" => icpu # c
               /\ rpc # "idle" => rcpu # c
Goto(c, there) == ppc' = [ppc EXCEPT ![c] = there]

PollBegin(c) ==
    /\ At(c, "idle") /\ sched /\ owner = c
    /\ work' = [work EXCEPT ![c] = 0]
    /\ pisr' = [pisr EXCEPT ![c] = rxnemp]
    /\ Goto(c, "loop")
    /\ UNCHANGED <<hw, ier, irq, napi, pier, rst, hist, delivered>>

\* Mutant: the quota is not looked at.
PollMore_NoQuota(c) ==
    /\ At(c, "loop") /\ pisr[c]
    /\ rxok' = FALSE
    /\ Goto(c, "rx")
    /\ UNCHANGED <<fifo, rxnemp, rxoflw, bsoff, error, core, ier, irq, napi, pisr, work, pier,
                   rst, hist, delivered>>

\* The loop condition, and the ICR write of RXOK that follows it.
PollMore(c) ==
    /\ At(c, "loop") /\ pisr[c] /\ work[c] < Quota
    /\ rxok' = FALSE
    /\ Goto(c, "rx")
    /\ UNCHANGED <<fifo, rxnemp, rxoflw, bsoff, error, core, ier, irq, napi, pisr, work, pier,
                   rst, hist, delivered>>

\* The loop is left: with its quota used up the poll stays scheduled.
PollDone(c) ==
    /\ At(c, "loop") /\ ~(pisr[c] /\ work[c] < Quota)
    /\ Goto(c, IF work[c] < Quota THEN "complete" ELSE "idle")
    /\ UNCHANGED <<hw, ier, irq, napi, pisr, work, pier, rst, hist, delivered>>

\* Mutant: DW1 and DW2 are not read, so the frame stays in the FIFO.
PollRx_NoPop(c) ==
    /\ At(c, "rx")
    /\ delivered' = Append(delivered, IF fifo = << >> THEN NoFrame ELSE Head(fifo))
    /\ work' = [work EXCEPT ![c] = @ + 1]
    /\ Goto(c, "ack")
    /\ UNCHANGED <<hw, ier, irq, napi, pisr, pier, rst, hist>>

\* xcan_rx with an skb
PollRx(c) ==
    /\ At(c, "rx")
    /\ fifo' = IF fifo = << >> THEN fifo ELSE Tail(fifo)
    /\ delivered' = Append(delivered, IF fifo = << >> THEN NoFrame ELSE Head(fifo))
    /\ work' = [work EXCEPT ![c] = @ + 1]
    /\ Goto(c, "ack")
    /\ UNCHANGED <<bits, core, ier, irq, napi, pisr, pier, rst, hist>>

\* xcan_rx without one: the frame stays in the FIFO.
PollRxNoMem(c) ==
    /\ At(c, "rx")
    /\ Goto(c, "ack")
    /\ UNCHANGED <<hw, ier, irq, napi, pisr, work, pier, rst, hist, delivered>>

\* The ICR write of RXNEMP: the core sets it again while the FIFO holds a frame.
PollAck(c) ==
    /\ At(c, "ack")
    /\ rxnemp' = (fifo # << >>)
    /\ Goto(c, "reread")
    /\ UNCHANGED <<fifo, rxok, rxoflw, bsoff, error, core, ier, irq, napi, pisr, work, pier,
                   rst, hist, delivered>>

\* Mutant: the loop goes on with the ISR it read at first.
PollReread_Stale(c) ==
    /\ At(c, "reread")
    /\ Goto(c, "loop")
    /\ UNCHANGED <<hw, ier, irq, napi, pisr, work, pier, rst, hist, delivered>>

PollReread(c) ==
    /\ At(c, "reread")
    /\ pisr' = [pisr EXCEPT ![c] = rxnemp]
    /\ Goto(c, "loop")
    /\ UNCHANGED <<hw, ier, irq, napi, work, pier, rst, hist, delivered>>

\* Mutant: a poll that found nothing leaves IER alone.
PollComplete_IfWork(c) ==
    /\ At(c, "complete")
    /\ sched' = FALSE
    /\ Goto(c, IF work[c] = 0 THEN "idle" ELSE "read")
    /\ UNCHANGED <<hw, ier, irq, owner, pisr, work, pier, rst, hist, delivered>>

\* napi_complete
PollComplete(c) ==
    /\ At(c, "complete")
    /\ sched' = FALSE
    /\ Goto(c, "read")
    /\ UNCHANGED <<hw, ier, irq, owner, pisr, work, pier, rst, hist, delivered>>

PollReadIer(c) ==
    /\ At(c, "read")
    /\ pier' = [pier EXCEPT ![c] = ier]
    /\ Goto(c, "unmask")
    /\ UNCHANGED <<hw, ier, irq, napi, pisr, work, rst, hist, delivered>>

PollUnmask(c) ==
    /\ At(c, "unmask")
    /\ ier' = pier[c] \union {"rx"}
    /\ Goto(c, "idle")
    /\ UNCHANGED <<hw, irq, napi, pisr, work, pier, rst, hist, delivered>>

Poll(c) == \/ PollBegin(c) \/ PollMore(c) \/ PollDone(c) \/ PollRx(c) \/ PollRxNoMem(c)
           \/ PollAck(c) \/ PollReread(c) \/ PollComplete(c) \/ PollReadIer(c)
           \/ PollUnmask(c)

-----------------------------------------------------------------------------
(* The restart timer: can_restart, then xcan_do_set_mode.  Its delay (at   *)
(* least one tick) outlasts the handler that armed it.                     *)

RestartMayRun == ipc # "idle" => icpu # rcpu

RestartReset(c) ==
    /\ rpc = "idle" /\ timer
    /\ ipc # "idle" => "bsoff" \notin seen /\ icpu # c
    /\ ppc[c] = "idle"
    /\ timer' = FALSE /\ rcpu' = c
    /\ SoftReset
    /\ rpc' = "enable"
    /\ UNCHANGED <<irq, napi, poll, raced, hist, delivered>>

\* The write of XCAN_INTR_ALL to IER.
RestartEnable ==
    /\ rpc = "enable" /\ RestartMayRun
    /\ ier' = AllIrqs
    /\ raced' = (ipc = "mask" \/ \E c \in Cpus : ppc[c] = "unmask")
    /\ rpc' = "start"
    /\ UNCHANGED <<hw, irq, napi, poll, timer, rcpu, hist, delivered>>

RestartStart ==
    /\ rpc = "start" /\ RestartMayRun
    /\ core' = "normal"
    /\ rpc' = "idle"
    /\ UNCHANGED <<fifo, bits, ier, irq, napi, poll, timer, rcpu, raced, hist, delivered>>

\* A mode change did not come within XCAN_TIMEOUT.
RestartTimeout ==
    /\ rpc \in {"enable", "start"} /\ RestartMayRun
    /\ rpc' = "idle"
    /\ UNCHANGED <<hw, ier, irq, napi, poll, timer, rcpu, raced, hist, delivered>>

Restart == (\E c \in Cpus : RestartReset(c)) \/ RestartEnable \/ RestartStart \/ RestartTimeout

-----------------------------------------------------------------------------
Hw == HwReceive \/ HwOverflow \/ HwError \/ HwBusOff

Next == Hw \/ Irq \/ Restart \/ \E c \in Cpus : Poll(c)

Spec == Init /\ [][Next]_vars

\* The handler and the softirqs go on, and an skb is not refused for ever.
Fairness == WF_vars(Irq) /\ \A c \in Cpus : WF_vars(Poll(c)) /\ SF_vars(PollRx(c))

FairSpec == Spec /\ Fairness

-----------------------------------------------------------------------------
(* Properties *)

\* Every variable holds a value of its kind.
TypeOK ==
    /\ fifo \in Seq(Nat) /\ Len(fifo) <= RxDepth
    /\ rxok \in BOOLEAN /\ rxnemp \in BOOLEAN
    /\ rxoflw \in BOOLEAN /\ bsoff \in BOOLEAN /\ error \in BOOLEAN
    /\ ier \subseteq AllIrqs /\ core \in {"normal", "busoff", "config"}
    /\ ipc \in {"idle", "errors", "bsoff", "oflw", "read", "mask", "schedule"}
    /\ icpu \in Cpus
    /\ seen \subseteq AllCauses /\ iier \subseteq AllIrqs
    /\ sched \in BOOLEAN /\ owner \in Cpus
    /\ ppc \in [Cpus -> {"idle", "loop", "rx", "ack", "reread", "complete", "read",
                         "unmask"}]
    /\ pisr \in [Cpus -> BOOLEAN] /\ work \in [Cpus -> 0..Quota]
    /\ pier \in [Cpus -> SUBSET AllIrqs]
    /\ timer \in BOOLEAN /\ rpc \in {"idle", "enable", "start"} /\ rcpu \in Cpus
    /\ raced \in BOOLEAN
    /\ arrived \in Nat /\ lost \in Nat /\ errors \in Nat /\ busOffs \in Nat
    /\ delivered \in Seq(Nat)

\* Reception is never left masked with nobody to unmask it: either a poll is scheduled or
\* running, or the handler is about to schedule one, or the end of a poll is on its way
\* to the IER write.  The two read-modify-writes of IER may overtake each other; what
\* saves them is the order of napi_complete, the writes and napi_schedule.
NeverDeaf ==
    core = "normal" /\ "rx" \notin ier =>
        sched \/ ipc = "schedule" \/ \E c \in Cpus : ppc[c] \in {"read", "unmask"}

\* "Enable interrupts", says xcan_chip_start: while the core runs, the other interrupts
\* are enabled.
OthersEnabled == core = "normal" => "other" \in ier

\* They are lost from IER in one way only: a restart wrote it between the read and the
\* write of the handler or of the end of a poll, and the older value was written last.
OthersLostOnlyByRace == OthersEnabled \/ raced

\* Only one poll at a time reads the RX FIFO and acknowledges its interrupts.
Draining(c) == ppc[c] \in {"loop", "rx", "ack", "reread", "complete"}
OnePoller == \A c, d \in Cpus : Draining(c) /\ Draining(d) => c = d

\* A frame is delivered at most once and never after a younger one, whatever polls end
\* and begin and even when the core is reset while one is running.
InOrder == \A i, j \in 1..Len(delivered) :
               i < j /\ delivered[j] # NoFrame => delivered[i] < delivered[j]

\* Without overflow, the promise to the sockets.
Promise == INSTANCE FrameFifo WITH Capacity <- RxDepth
Implements == Promise!Spec
=============================================================================
