------------------------------ MODULE XCanLife ------------------------------
(***************************************************************************)
(* The life of a device of xilinx_can.c: probe and remove, open and close, *)
(* the error counter query, and what they race with on another CPU: the    *)
(* interrupt handler, the NAPI poll and the restart timer.  Every call     *)
(* that can fail may fail, and the unwinding is step by step as in the     *)
(* code.  The networking core serialises open, close and the query (RTNL); *)
(* probe and remove run in a thread of their own.                          *)
(*                                                                         *)
(* Reception and transmission are reduced to what these calls see of them: *)
(* RXNEMP, IER and the state of NAPI; XCanRx and XCanTx have the rest.  A  *)
(* local of a function is reset once it has been used.                     *)
(***************************************************************************)
EXTENDS Integers

CONSTANT Calls  \* what is called besides probe, open and close: "remove", "berr", and
                \* "early" for an open before probe has returned

ASSUME CallsAssumption == Calls \subseteq {"remove", "berr", "early"}

VARIABLES
    pc,         \* where the thread that holds RTNL is
    dpc,        \* where probe or remove is
    res,        \* what is held of: netdev, registered, irq, candev
    clk,        \* enable count of can_clk and of bus_clk
    up,         \* xcan_open has returned 0 and xcan_close has not begun
    accessors,  \* read_reg and write_reg: "le", "be", or "none" before probe sets them
    core,       \* mode of the core
    ier,        \* IER: "rx" for RXOK and RXNEMP, "other" for the rest
    rxnemp,     \* ISR.RXNEMP
    bsoff,      \* ISR.BSOFF
    ipc,        \* where xcan_interrupt is
    seenRx,     \* RXNEMP in its isr
    seenOflw,   \* RXOFLW in its isr
    iier,       \* its ier
    napi,       \* "off", "idle", or "sched" when a poll is due or draining
    ppc,        \* where xcan_rx_poll is
    pier,       \* its ier
    timer,      \* can_priv.restart_timer is pending
    rpc,        \* where its function is
    late,       \* history: since its last reset the core was enabled by an open that
                \* failed or by a restart that a close did not wait for
    orphan      \* history: the handler armed the timer after close_candev had deleted it

ctl  == <<pc, dpc>>
dev  == <<res, clk, up, accessors>>
hw   == <<core, ier, rxnemp, bsoff>>
irq  == <<ipc, seenRx, seenOflw, iier>>
poll == <<napi, ppc, pier>>
rst  == <<timer, rpc>>
hist == <<late, orphan>>
vars == <<ctl, dev, hw, irq, poll, rst, hist>>

Clocks  == {"can", "bus"}
AllIrqs == {"rx", "other"}
Clocked == \A c \in Clocks : clk[c] > 0

Enable(c)  == clk' = [clk EXCEPT ![c] = @ + 1]
Disable(c) == clk' = [clk EXCEPT ![c] = @ - 1]

\* Writing SRR.RESET
SoftReset ==
    /\ core' = "config" /\ ier' = {}
    /\ rxnemp' = FALSE /\ bsoff' = FALSE
    /\ late' = FALSE

\* The thread that holds RTNL goes from one place to another and leaves the other
\* contexts alone.
Step(from, to) == /\ pc = from /\ pc' = to
                  /\ UNCHANGED <<dpc, accessors, irq, orphan>>
\* Likewise probe and remove.
DriverStep(from, to) == /\ dpc = from /\ dpc' = to
                        /\ UNCHANGED <<pc, up, irq, rst, orphan>>

-----------------------------------------------------------------------------
Init ==
    /\ pc = "idle" /\ dpc = "idle"
    /\ res = {} /\ clk = [c \in Clocks |-> 0] /\ up = FALSE /\ accessors = "none"
    /\ core = "config" /\ ier = {} /\ rxnemp = FALSE /\ bsoff = FALSE
    /\ ipc = "idle" /\ seenRx = FALSE /\ seenOflw = FALSE /\ iier = {}
    /\ napi = "off" /\ ppc = "idle" /\ pier = {}
    /\ timer = FALSE /\ rpc = "idle"
    /\ late = FALSE /\ orphan = FALSE

-----------------------------------------------------------------------------
(* xcan_probe *)

ProbeAlloc ==
    /\ res = {}
    /\ DriverStep("idle", "p_can")
    /\ res' = {"netdev"}
    /\ UNCHANGED <<clk, accessors, hw, poll, late>>

\* The clocks are looked up, or not, and can_clk is enabled, or not.
ProbeCanClk ==
    /\ \/ DriverStep("p_can", "p_bus") /\ Enable("can")
       \/ DriverStep("p_can", "p_free") /\ UNCHANGED clk
    /\ UNCHANGED <<res, accessors, hw, poll, late>>

ProbeBusClk ==
    /\ \/ DriverStep("p_bus", "p_detect") /\ Enable("bus")
       \/ DriverStep("p_bus", "p_uncan") /\ UNCHANGED clk
    /\ UNCHANGED <<res, accessors, hw, poll, late>>

\* The registers of the core are little-endian; what tells is that SR reads CONFIG.
ProbeDetect ==
    /\ DriverStep("p_detect", "p_register")
    /\ accessors' = IF core = "config" THEN "le" ELSE "be"
    /\ UNCHANGED <<res, clk, hw, poll, late>>

ProbeRegister ==
    /\ \/ DriverStep("p_register", "p_putbus") /\ res' = res \union {"registered"}
       \/ DriverStep("p_register", "p_unbus") /\ UNCHANGED res
    /\ UNCHANGED <<clk, accessors, hw, poll, late>>

\* The end of a successful probe: the device may be open already.
ProbePutBus ==
    /\ DriverStep("p_putbus", "p_putcan") /\ Disable("bus")
    /\ UNCHANGED <<res, accessors, hw, poll, late>>

ProbePutCan ==
    /\ DriverStep("p_putcan", "idle") /\ Disable("can")
    /\ UNCHANGED <<res, accessors, hw, poll, late>>

\* err_unprepare_disable_busclk is shared with a failed registration only: it disables
\* bus_clk and falls through.
ProbeUnBus ==
    /\ DriverStep("p_unbus", "p_uncan") /\ Disable("bus")
    /\ UNCHANGED <<res, accessors, hw, poll, late>>

ProbeUnCan ==
    /\ DriverStep("p_uncan", "p_free") /\ Disable("can")
    /\ UNCHANGED <<res, accessors, hw, poll, late>>

ProbeFree ==
    /\ DriverStep("p_free", "idle")
    /\ res' = {} /\ accessors' = "none"
    /\ UNCHANGED <<clk, hw, poll, late>>

Probe == \/ ProbeCanClk \/ ProbeBusClk \/ ProbeDetect \/ ProbeRegister \/ ProbePutBus
         \/ ProbePutCan \/ ProbeUnBus \/ ProbeUnCan \/ ProbeFree

-----------------------------------------------------------------------------
(* xcan_remove.  It resets the core before anything else, with the clocks  *)
(* as they are: without them the write may get lost.                       *)

RemoveReset ==
    /\ "remove" \in Calls /\ "registered" \in res
    /\ DriverStep("idle", "r_unregister")
    /\ \/ SoftReset
       \/ ~Clocked /\ UNCHANGED <<hw, late>>
    /\ UNCHANGED <<res, clk, accessors, poll>>

\* unregister_candev takes RTNL and closes a device that is up.
RemoveClose ==
    /\ dpc = "r_unregister" /\ pc = "idle" /\ up
    /\ pc' = "c_napi" /\ up' = FALSE
    /\ UNCHANGED <<dpc, res, clk, accessors, hw, irq, poll, rst, hist>>

RemoveUnregister ==
    /\ pc = "idle" /\ ~up
    /\ DriverStep("r_unregister", "p_free")
    /\ res' = res \ {"registered"}
    /\ UNCHANGED <<clk, accessors, hw, poll, late>>

Remove == RemoveClose \/ RemoveUnregister

-----------------------------------------------------------------------------
(* xcan_open *)

OpenIrq ==
    /\ "registered" \in res /\ ~up /\ dpc # "r_unregister"
    /\ "early" \in Calls \/ dpc = "idle"
    /\ Step("idle", "o_can")
    /\ res' = res \union {"irq"}
    /\ UNCHANGED <<clk, up, hw, poll, rst, late>>

OpenCanClk ==
    /\ \/ Step("o_can", "o_bus") /\ Enable("can")
       \/ Step("o_can", "u_irq") /\ UNCHANGED clk
    /\ UNCHANGED <<res, up, hw, poll, rst, late>>

\* Mutant: the wrong label of the unwinding.
OpenBusClk_Label ==
    /\ \/ Step("o_bus", "o_reset") /\ Enable("bus")
       \/ Step("o_bus", "u_bus") /\ UNCHANGED clk
    /\ UNCHANGED <<res, up, hw, poll, rst, late>>

OpenBusClk ==
    /\ \/ Step("o_bus", "o_reset") /\ Enable("bus")
       \/ Step("o_bus", "u_can") /\ UNCHANGED clk
    /\ UNCHANGED <<res, up, hw, poll, rst, late>>

\* set_reset_mode; on a timeout the core may or may not have been reset.
OpenReset ==
    /\ \/ Step("o_reset", "o_candev") /\ SoftReset
       \/ Step("o_reset", "u_bus") /\ SoftReset
       \/ Step("o_reset", "u_bus") /\ UNCHANGED <<hw, late>>
    /\ UNCHANGED <<res, clk, up, poll, rst>>

\* Mutant: the bus clock stays on when open_candev fails.
OpenCandev_Label ==
    /\ \/ Step("o_candev", "o_start") /\ res' = res \union {"candev"}
       \/ Step("o_candev", "u_can") /\ UNCHANGED res
    /\ UNCHANGED <<clk, up, hw, poll, rst, late>>

OpenCandev ==
    /\ \/ Step("o_candev", "o_start") /\ res' = res \union {"candev"}
       \/ Step("o_candev", "u_bus") /\ UNCHANGED res
    /\ UNCHANGED <<clk, up, hw, poll, rst, late>>

\* xcan_chip_start: the reset,
OpenStart ==
    /\ \/ Step("o_start", "o_enable") /\ SoftReset
       \/ Step("o_start", "u_candev") /\ SoftReset
       \/ Step("o_start", "u_candev") /\ UNCHANGED <<hw, late>>
    /\ UNCHANGED <<res, clk, up, poll, rst>>

\* the write of IER,
OpenEnable ==
    /\ Step("o_enable", "o_cen")
    /\ ier' = AllIrqs
    /\ UNCHANGED <<dev, core, rxnemp, bsoff, poll, rst, late>>

\* and CEN, which the core may follow in time, too late, or not at all.
OpenCen ==
    /\ \/ Step("o_cen", "o_napi") /\ core' = "normal" /\ UNCHANGED late
       \/ Step("o_cen", "u_candev") /\ core' \in {"config", "normal"} /\ late' = TRUE
    /\ UNCHANGED <<dev, ier, rxnemp, bsoff, poll, rst>>

\* Mutant: napi_enable is forgotten.
OpenNapi_NoEnable ==
    /\ Step("o_napi", "idle")
    /\ up' = TRUE
    /\ UNCHANGED <<res, clk, hw, poll, rst, late>>

OpenNapi ==
    /\ Step("o_napi", "idle")
    /\ napi' = "idle"
    /\ up' = TRUE
    /\ UNCHANGED <<res, clk, hw, ppc, pier, rst, late>>

\* err_candev, err_bus_clk, err_can_clk, err_irq
UnwindCandev ==
    /\ rpc = "idle"
    /\ Step("u_candev", "u_bus")
    /\ res' = res \ {"candev"} /\ timer' = FALSE
    /\ UNCHANGED <<clk, up, hw, poll, rpc, late>>

UnwindBus ==
    /\ Step("u_bus", "u_can") /\ Disable("bus")
    /\ UNCHANGED <<res, up, hw, poll, rst, late>>

UnwindCan ==
    /\ Step("u_can", "u_irq") /\ Disable("can")
    /\ UNCHANGED <<res, up, hw, poll, rst, late>>

UnwindIrq ==
    /\ ipc = "idle"
    /\ Step("u_irq", "idle")
    /\ res' = res \ {"irq"}
    /\ UNCHANGED <<clk, up, hw, poll, rst, late>>

Open == \/ OpenCanClk \/ OpenBusClk \/ OpenReset \/ OpenCandev \/ OpenStart \/ OpenEnable
        \/ OpenCen \/ OpenNapi \/ UnwindCandev \/ UnwindBus \/ UnwindCan \/ UnwindIrq

-----------------------------------------------------------------------------
(* xcan_close: napi_disable waits for a poll that is due or draining,      *)
(* free_irq for the handler, close_candev for the restart timer.           *)

CloseBegin ==
    /\ up /\ dpc # "r_unregister"
    /\ Step("idle", "c_napi")
    /\ up' = FALSE
    /\ UNCHANGED <<res, clk, hw, poll, rst, late>>

\* Mutant: a poll is not waited for.
CloseNapi_NoWait ==
    /\ Step("c_napi", "c_chip")
    /\ napi' = "off"
    /\ UNCHANGED <<dev, hw, ppc, pier, rst, late>>

CloseNapi ==
    /\ napi = "idle"
    /\ Step("c_napi", "c_chip")
    /\ napi' = "off"
    /\ UNCHANGED <<dev, hw, ppc, pier, rst, late>>

\* Mutant: the interrupts are disabled, the core is left as it is.
CloseChip_NoReset ==
    /\ Step("c_chip", "c_bus")
    /\ ier' = {}
    /\ UNCHANGED <<dev, core, rxnemp, bsoff, poll, rst, late>>

\* xcan_chip_stop
CloseChip ==
    /\ Step("c_chip", "c_bus")
    /\ SoftReset
    /\ UNCHANGED <<dev, poll, rst>>

CloseBus ==
    /\ Step("c_bus", "c_can") /\ Disable("bus")
    /\ UNCHANGED <<res, up, hw, poll, rst, late>>

CloseCan ==
    /\ Step("c_can", "c_irq") /\ Disable("can")
    /\ UNCHANGED <<res, up, hw, poll, rst, late>>

\* Mutant: a handler that is running is not waited for.
CloseIrq_NoWait ==
    /\ Step("c_irq", "c_candev")
    /\ res' = res \ {"irq"}
    /\ UNCHANGED <<clk, up, hw, poll, rst, late>>

CloseIrq ==
    /\ ipc = "idle"
    /\ Step("c_irq", "c_candev")
    /\ res' = res \ {"irq"}
    /\ UNCHANGED <<clk, up, hw, poll, rst, late>>

CloseCandev ==
    /\ rpc = "idle"
    /\ Step("c_candev", "idle")
    /\ res' = res \ {"candev"} /\ timer' = FALSE
    /\ UNCHANGED <<clk, up, hw, poll, rpc, late>>

Close == CloseNapi \/ CloseChip \/ CloseBus \/ CloseCan \/ CloseIrq \/ CloseCandev

-----------------------------------------------------------------------------
(* xcan_get_berr_counter *)

BerrCan ==
    /\ "berr" \in Calls /\ "registered" \in res /\ dpc # "r_unregister"
    /\ Step("idle", "b_bus") /\ Enable("can")
    /\ UNCHANGED <<res, up, hw, poll, rst, late>>

\* Mutant: ECR is read whether or not bus_clk came on.
BerrBus_NoTest ==
    /\ Step("b_bus", "b_read")
    /\ Enable("bus") \/ UNCHANGED clk
    /\ UNCHANGED <<res, up, hw, poll, rst, late>>

BerrBus ==
    /\ \/ Step("b_bus", "b_read") /\ Enable("bus")
       \/ Step("b_bus", "b_putcan") /\ UNCHANGED clk
    /\ UNCHANGED <<res, up, hw, poll, rst, late>>

BerrReadPutBus ==
    /\ Step("b_read", "b_putcan") /\ Disable("bus")
    /\ UNCHANGED <<res, up, hw, poll, rst, late>>

BerrPutCan ==
    /\ Step("b_putcan", "idle") /\ Disable("can")
    /\ UNCHANGED <<res, up, hw, poll, rst, late>>

Berr == BerrBus \/ BerrReadPutBus \/ BerrPutCan

-----------------------------------------------------------------------------
(* xcan_interrupt: entered, ISR read, the core reset for a bus-off or an   *)
(* overflow, IER read, IER written, poll scheduled                         *)

\* The causes that stay until they are dealt with.
Pending == ("rx" \in ier /\ rxnemp) \/ ("other" \in ier /\ bsoff)

\* Any other cause (TXOK, ERROR, ARBLST) may come once the core has been started; the handler
\* is all that looks at it.
IrqEnter ==
    /\ "irq" \in res /\ ipc = "idle"
    /\ Pending \/ ("other" \in ier /\ core # "config")
    /\ ipc' = "isr"
    /\ UNCHANGED <<ctl, dev, hw, seenRx, seenOflw, iier, poll, rst, hist>>

\* What the handler does after the bus-off branch, and after the overflow branch.
AfterErrors(rx)       == IF rx THEN "ier" ELSE "idle"
AfterBusOff(oflw, rx) == IF oflw THEN "oflw" ELSE AfterErrors(rx)

\* RXOFLW is not in IER; like those, it may be set in ISR by now.
IrqIsr ==
    /\ ipc = "isr"
    /\ seenRx' = rxnemp /\ seenOflw' \in {FALSE, core # "config"}
    /\ ipc' = IF bsoff THEN "bsoff" ELSE AfterBusOff(seenOflw', rxnemp)
    /\ bsoff' = FALSE
    /\ UNCHANGED <<ctl, dev, core, ier, rxnemp, iier, poll, rst, hist>>

IrqBusOff ==
    /\ ipc = "bsoff"
    /\ SoftReset
    /\ timer' = TRUE
    /\ ipc' = AfterBusOff(seenOflw, seenRx)
    /\ orphan' = (orphan \/ "candev" \notin res)
    /\ UNCHANGED <<ctl, dev, seenRx, seenOflw, iier, poll, rpc>>

\* The core is reset, and nothing arms the timer.
IrqOverflow ==
    /\ ipc = "oflw"
    /\ SoftReset
    /\ ipc' = AfterErrors(seenRx) /\ seenOflw' = FALSE
    /\ UNCHANGED <<ctl, dev, seenRx, iier, poll, rst, orphan>>

IrqReadIer ==
    /\ ipc = "ier"
    /\ iier' = ier
    /\ ipc' = "mask"
    /\ UNCHANGED <<ctl, dev, hw, seenRx, seenOflw, poll, rst, hist>>

IrqMask ==
    /\ ipc = "mask"
    /\ ier' = iier \ {"rx"} /\ iier' = {}
    /\ ipc' = "schedule"
    /\ UNCHANGED <<ctl, dev, core, rxnemp, bsoff, seenRx, seenOflw,
                   poll, rst, hist>>

\* napi_schedule does nothing when NAPI is off, or being turned off, or scheduled.
IrqSchedule ==
    /\ ipc = "schedule"
    /\ napi' = IF napi = "idle" /\ pc # "c_napi" THEN "sched" ELSE napi
    /\ ipc' = "idle" /\ seenRx' = FALSE
    /\ UNCHANGED <<ctl, dev, hw, seenOflw, iier, ppc, pier, rst, hist>>

Irq == \/ IrqEnter \/ IrqIsr \/ IrqBusOff \/ IrqOverflow \/ IrqReadIer \/ IrqMask
       \/ IrqSchedule

-----------------------------------------------------------------------------
(* xcan_rx_poll *)

PollBegin ==
    /\ ppc = "idle" /\ napi = "sched"
    /\ ppc' = "drain"
    /\ UNCHANGED <<ctl, dev, hw, irq, napi, pier, rst, hist>>

\* Mutant: a poll that finds nothing leaves IER alone.
PollDrain_IfWork ==
    /\ ppc = "drain"
    /\ rxnemp' = FALSE
    /\ napi' = "idle"
    /\ ppc' = IF rxnemp THEN "ier" ELSE "idle"
    /\ UNCHANGED <<ctl, dev, core, ier, bsoff, irq, pier, rst, hist>>

\* The loop, and napi_complete.
PollDrain ==
    /\ ppc = "drain"
    /\ rxnemp' = FALSE
    /\ napi' = "idle"
    /\ ppc' = "ier"
    /\ UNCHANGED <<ctl, dev, core, ier, bsoff, irq, pier, rst, hist>>

\* The quota is used up: NAPI calls again, unless it is being turned off.
PollQuota ==
    /\ ppc = "drain" /\ rxnemp
    /\ napi' = IF pc = "c_napi" THEN "idle" ELSE "sched"
    /\ ppc' = "idle"
    /\ UNCHANGED <<ctl, dev, hw, irq, pier, rst, hist>>

PollReadIer ==
    /\ ppc = "ier"
    /\ pier' = ier
    /\ ppc' = "unmask"
    /\ UNCHANGED <<ctl, dev, hw, irq, napi, rst, hist>>

PollUnmask ==
    /\ ppc = "unmask"
    /\ ier' = pier \union {"rx"} /\ pier' = {}
    /\ ppc' = "idle"
    /\ UNCHANGED <<ctl, dev, core, rxnemp, bsoff, irq, napi, rst, hist>>

Poll == PollBegin \/ PollDrain \/ PollQuota \/ PollReadIer \/ PollUnmask

-----------------------------------------------------------------------------
(* The restart timer: can_restart and xcan_do_set_mode *)

RestartBegin ==
    /\ timer /\ rpc = "idle"
    /\ timer' = FALSE
    /\ rpc' = "reset"
    /\ UNCHANGED <<ctl, dev, hw, irq, poll, hist>>

\* Also set_reset_mode may time out.
RestartReset ==
    /\ rpc = "reset"
    /\ \/ rpc' \in {"enable", "idle"} /\ SoftReset
       \/ rpc' = "idle" /\ UNCHANGED <<hw, late>>
    /\ UNCHANGED <<ctl, dev, irq, poll, timer, orphan>>

RestartEnable ==
    /\ rpc = "enable"
    /\ ier' = AllIrqs
    /\ rpc' = "cen"
    /\ UNCHANGED <<ctl, dev, core, rxnemp, bsoff, irq, poll, timer, hist>>

\* In time, too late, or not at all.
RestartCen ==
    /\ rpc = "cen"
    /\ core' \in {"config", "normal"}
    /\ late' = (late \/ ~up)
    /\ rpc' = "idle"
    /\ UNCHANGED <<ctl, dev, ier, rxnemp, bsoff, irq, poll, timer, orphan>>

Restart == RestartBegin \/ RestartReset \/ RestartEnable \/ RestartCen

-----------------------------------------------------------------------------
(* The CAN core *)

HwCause ==
    /\ core = "normal" /\ Clocked
    /\ \/ rxnemp' = TRUE /\ UNCHANGED <<core, bsoff>>
       \/ bsoff' = TRUE /\ core' = "busoff" /\ UNCHANGED <<rxnemp>>
    /\ UNCHANGED <<ctl, dev, ier, irq, poll, rst, hist>>

-----------------------------------------------------------------------------
Begin == ProbeAlloc \/ RemoveReset \/ OpenIrq \/ CloseBegin \/ BerrCan
Run   == Probe \/ Remove \/ Open \/ Close \/ Berr
Next  == Begin \/ Run \/ Irq \/ Poll \/ Restart \/ HwCause

Spec == Init /\ [][Next]_vars

\* What has begun goes on: the threads, a pending interrupt, a due poll, an armed timer.
\* The waits of open and close are fair strongly: free_irq shuts the interrupt off before it
\* waits, and the timer has a delay in which del_timer_sync finds it idle.
Fairness == /\ WF_vars(Probe \/ Remove) /\ SF_vars(Open \/ Close \/ Berr)
            /\ WF_vars(Irq /\ (ipc = "idle" => Pending)) /\ WF_vars(Poll) /\ WF_vars(Restart)

FairSpec == Spec /\ Fairness

-----------------------------------------------------------------------------
(* Properties *)

\* Every variable holds a value of its kind; no clock is disabled more often than enabled.
TypeOK ==
    /\ pc \in {"idle", "o_can", "o_bus", "o_reset", "o_candev", "o_start", "o_enable",
               "o_cen", "o_napi", "u_candev", "u_bus", "u_can", "u_irq", "c_napi",
               "c_chip", "c_bus", "c_can", "c_irq", "c_candev", "b_bus", "b_read",
               "b_putcan"}
    /\ dpc \in {"idle", "p_can", "p_bus", "p_detect", "p_register", "p_putbus",
                "p_putcan", "p_unbus", "p_uncan", "p_free", "r_unregister"}
    /\ res \subseteq {"netdev", "registered", "irq", "candev"}
    /\ clk \in [Clocks -> 0..3] /\ up \in BOOLEAN /\ accessors \in {"none", "le", "be"}
    /\ core \in {"config", "normal", "busoff"} /\ ier \subseteq AllIrqs
    /\ rxnemp \in BOOLEAN /\ bsoff \in BOOLEAN
    /\ ipc \in {"idle", "isr", "bsoff", "oflw", "ier", "mask", "schedule"}
    /\ seenRx \in BOOLEAN /\ seenOflw \in BOOLEAN /\ iier \subseteq AllIrqs
    /\ napi \in {"off", "idle", "sched"} /\ ppc \in {"idle", "drain", "ier", "unmask"}
    /\ pier \subseteq AllIrqs
    /\ timer \in BOOLEAN /\ rpc \in {"idle", "reset", "enable", "cen"} /\ late \in BOOLEAN
    /\ orphan \in BOOLEAN

\* Whatever failed on the way: between two calls a device that is up holds exactly what
\* xcan_open took, one that is not holds nothing, and no timer is left behind but one that the
\* handler armed after close_candev had deleted it.
NothingLeaks ==
    pc = "idle" /\ dpc = "idle" =>
        /\ \A c \in Clocks : clk[c] = IF up THEN 1 ELSE 0
        /\ up <=> "irq" \in res
        /\ up <=> "candev" \in res
        /\ up <=> napi # "off"
        /\ ~up /\ ~orphan => ~timer /\ rpc = "idle"

\* probe, open, close and the error counter query touch registers with both clocks on,
\* also while probe gives its clocks back beside an open.
CallsClocked ==
    \/ pc \in {"o_reset", "o_start", "o_enable", "o_cen", "c_chip", "b_read"}
    \/ dpc = "p_detect"
    => Clocked

\* The handler, the poll and the restart do so too, except in two windows: the end of
\* a close, and the start of an open.  A poll is never caught while it drains: only the
\* IER accesses after napi_complete are not waited for.
StrayOnlyInWindows ==
    ~Clocked =>
        /\ ppc # "drain"
        /\ ipc \in {"isr", "bsoff", "oflw", "ier", "mask"} =>
               pc \in {"c_can", "c_irq", "o_can", "o_bus", "u_can", "u_irq"}
        /\ rpc # "idle" => pc \in {"c_can", "c_irq", "c_candev"} \/ orphan

\* The handler arms a timer after close_candev has deleted it only while an open that
\* failed unwinds, which closes the CAN device before it frees the interrupt, or while the
\* next open has not got to open_candev: never during or after a close.
OrphanOnlyAroundOpen ==
    [][~orphan /\ orphan' => pc \in {"o_can", "o_bus", "o_reset", "o_candev",
                                     "u_bus", "u_can", "u_irq"}]_vars

\* probe tells the byte order by the mode of the core.  It is misled only by a core that
\* an open or a late restart left enabled: no other sequence of calls does it.
MisledOnlyByLateStart == [][accessors' = "be" /\ accessors # "be" => late]_vars

\* The interface is up and RX is masked, and no handler, poll or restart will unmask it,
Masked == "rx" \notin ier /\ napi = "idle" /\ ppc = "idle" /\ ipc \in {"idle", "isr"}
             /\ ~timer /\ rpc \in {"idle", "cen"}

\* or the core is off the bus, and no restart will bring it back: reception is dead.
Stranded == core = "config" /\ ~timer /\ rpc = "idle"

Deaf == up /\ dpc # "r_unregister" /\ (Masked \/ Stranded)

\* "Enable interrupts": an interface that is up has its RX interrupts, or a poll to come.
OpenHears == ~Deaf

\* It happens in three ways only: an interrupt between xcan_chip_start and napi_enable, a
\* restart that times out, or the reset of the core for an overflow.
DeafOnlyFromStart ==
    [][~Deaf /\ Deaf' => pc = "o_napi" \/ rpc \in {"reset", "cen"} \/ ipc = "oflw"]_vars

\* Every call returns: napi_disable, free_irq and close_candev wait for contexts that end.
CallsReturn == pc # "idle" ~> pc = "idle"
=============================================================================
