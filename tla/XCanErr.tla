------------------------------- MODULE XCanErr -------------------------------
(***************************************************************************)
(* The error interrupts of xilinx_can.c: what xcan_interrupt and           *)
(* xcan_err_interrupt make of the core's error counters and error bits,    *)
(* can.state, and the starts and stops of the core that change can.state   *)
(* too: open, close and the restart timer.  The core, the handler, the     *)
(* timer's function and the thread of open and close run at the same time. *)
(*                                                                         *)
(* Of IER this module follows the error interrupts, which go on and off    *)
(* together.  The handler and the end of a poll change the RX interrupts   *)
(* by reading IER and writing it back, and so may bring an older value of  *)
(* the others back too: so much of the RX path is here, the rest of it is  *)
(* in XCanRx.  TXOK is in XCanTx.  Sleep mode is left out: only            *)
(* xcan_suspend asks for it.                                               *)
(***************************************************************************)
EXTENDS Integers

CONSTANTS
    TxKinds, RxKinds,             \* error kinds of ESR that count in TEC, and in REC
    WarnAt, PassiveAt, BusOffAt,  \* the levels of the error counters: 96, 128 and 256
    MaxEvents,                    \* bound: number of things that happen to the core
    MaxFrames                     \* bound: number of frames that come in

Kinds == TxKinds \union RxKinds

ASSUME ErrAssumption ==
    /\ TxKinds \intersect RxKinds = {}
    /\ WarnAt \in Nat \ {0} /\ PassiveAt \in Nat /\ BusOffAt \in Nat
    /\ WarnAt =< PassiveAt /\ PassiveAt < BusOffAt
    /\ MaxEvents \in Nat /\ MaxFrames \in Nat

VARIABLES
    core,         \* mode of the core: "config" or "normal"
    tec, rec,     \* ECR, the error counters
    esr,          \* ESR, the kinds of error since it was last cleared
    isr,          \* ISR
    ier,          \* IER enables ERROR, ARBLST and BSOFF
    events,       \* number of things that have happened to the core
    frames,       \* number of frames that have come in
    rx,           \* "fifo" when a frame has come in, "due" when NAPI is to poll, or "none"
    ipc,          \* where xcan_interrupt is
    seen,         \* the causes in its isr
    kinds,        \* its err_status
    rxhigh,       \* its rxerr > 127
    status,       \* its status: "active", "warning", "passive", or "none" (bus-off, config)
    iier,         \* its ier
    pier,         \* what the poll that is about to write IER has read from it, in a set
    state,        \* can.state
    pc,           \* where the thread of open and close is
    spc,          \* where xcan_chip_start is, called from "open" and from "restart"
    timer,        \* can_priv.restart_timer is pending
    owed,         \* history: kinds that were latched and not yet counted in the statistics
    late,         \* history: kinds among them that came while the handler was Blind or Doomed
    moved,        \* history: ECR has changed since the handler read it first
    swallowed,    \* history: the handler cleared a BSOFF that it had not seen
    masked,       \* history: since the last reset an older value was written to IER, and
                  \* has disabled the error interrupts
    judged,       \* history: since the last start or stop the handler has set can.state
    clobbered,    \* history: since then, xcan_chip_start has overwritten what it set
    stranded      \* history: the last start failed, or the last reset was for an overflow

regs   == <<core, tec, rec, esr, isr, ier>>
locals == <<seen, kinds, rxhigh, status>>
tails  == <<frames, rx, iier, pier>>
runs   == <<pc, spc, timer>>
hist   == <<owed, late, moved, swallowed, masked, judged, clobbered, stranded>>
vars   == <<regs, events, ipc, locals, tails, state, runs, hist>>

ErrCauses == {"error", "arblst", "bsoff", "rxoflw"}
AllCauses == ErrCauses \union {"rx"}
Enabled   == {"error", "arblst", "bsoff"}   \* by XCAN_INTR_ALL
Starters  == {"open", "restart"}
States    == {"STOPPED", "ERROR_ACTIVE", "ERROR_WARNING", "ERROR_PASSIVE", "BUS_OFF"}

-----------------------------------------------------------------------------
Init ==
    /\ core = "config" /\ tec = 0 /\ rec = 0 /\ esr = {} /\ isr = {} /\ ier = FALSE
    /\ events = 0 /\ frames = 0
    /\ ipc = "idle" /\ seen = {} /\ kinds = {} /\ rxhigh = FALSE /\ status = "none"
    /\ rx = "none" /\ iier = FALSE /\ pier = {}
    /\ state = "STOPPED"
    /\ pc = "down" /\ spc = [w \in Starters |-> "idle"] /\ timer = FALSE
    /\ owed = {} /\ late = {} /\ moved = FALSE
    /\ swallowed = FALSE /\ masked = FALSE
    /\ judged = FALSE /\ clobbered = FALSE /\ stranded = FALSE

-----------------------------------------------------------------------------
(* The CAN core *)

BusOff == core = "normal" /\ tec = BusOffAt
OnBus  == core = "normal" /\ tec < BusOffAt

\* What SR says: ESTAT is 11 when error passive and not when bus-off; ERRWRN follows the
\* counters.
Status == CASE core = "config"                      -> "none"
          [] OnBus /\ (tec >= PassiveAt \/ rec >= PassiveAt) -> "passive"
          [] OnBus /\ tec < WarnAt /\ rec < WarnAt  -> "active"
          [] OTHER                                  -> "warning"

\* Where the handler is between its first look at ECR and the use of what it read.
Comparing == {"sr", "judge"}

\* Where it is between its read of ISR, which did not show ERROR, and its write of ESR.
Blind == ipc \in {"clear", "esr", "ack"} /\ "error" \notin seen

\* Where it is between its read of ESR and a reset of its own.
Doomed == /\ ipc \in {"ack", "ecr", "sr", "judge", "bsoff", "oflw"}
          /\ seen \intersect {"bsoff", "rxoflw"} # {}

Happens == OnBus /\ events < MaxEvents /\ events' = events + 1

HwError(k) ==
    /\ Happens
    /\ tec' = IF k \in TxKinds THEN tec + 1 ELSE tec
    /\ rec' = IF k \in RxKinds /\ rec < PassiveAt THEN rec + 1 ELSE rec
    /\ esr' = esr \union {k} /\ owed' = owed \union {k}
    /\ isr' = isr \union {"error"} \union (IF tec' = BusOffAt THEN {"bsoff"} ELSE {})
    /\ late' = IF Blind \/ Doomed THEN late \union {k} ELSE late
    /\ moved' = (ipc \in Comparing)
    /\ UNCHANGED <<core, ier, ipc, locals, tails, state, runs, swallowed, masked, judged,
                   clobbered, stranded>>

\* A frame went out or came in.
HwGood ==
    /\ Happens
    /\ \/ tec' = (IF tec > 0 THEN tec - 1 ELSE 0) /\ UNCHANGED rec
       \/ rec' = (IF rec > 0 THEN rec - 1 ELSE 0) /\ UNCHANGED tec
    /\ moved' = (ipc \in Comparing)
    /\ UNCHANGED <<core, esr, isr, ier, ipc, locals, tails, state, runs, owed, late,
                   swallowed, masked, judged, clobbered, stranded>>

HwFrame ==
    /\ OnBus /\ frames < MaxFrames /\ frames' = frames + 1
    /\ rx' = IF rx = "none" THEN "fifo" ELSE rx
    /\ UNCHANGED <<regs, events, ipc, locals, iier, pier, state, runs, hist>>

HwCause(b) ==
    /\ Happens
    /\ isr' = isr \union {b}
    /\ UNCHANGED <<core, tec, rec, esr, ier, ipc, locals, tails, state, runs, hist>>

Hw == \/ (\E k \in Kinds : HwError(k)) \/ HwGood \/ HwFrame
      \/ (\E b \in {"arblst", "rxoflw"} : HwCause(b))

\* Writing SRR.RESET
SoftReset ==
    /\ core' = "config" /\ tec' = 0 /\ rec' = 0 /\ esr' = {} /\ isr' = {} /\ ier' = FALSE
    /\ rx' = IF rx = "fifo" THEN "none" ELSE rx
    /\ swallowed' = FALSE /\ masked' = FALSE
    /\ moved' = (ipc \in Comparing)

-----------------------------------------------------------------------------
(* xcan_interrupt and xcan_err_interrupt *)

IrqAt(here, there) == ipc = here /\ ipc' = there

\* ISR is read, for an error or for a frame.
IrqBegin ==
    /\ pc \notin {"down", "c_candev"}
    /\ (ier /\ isr \intersect Enabled # {}) \/ rx = "fifo"
    /\ IrqAt("idle", IF isr = {} THEN "ier" ELSE "clear")
    /\ seen' = isr \union (IF rx = "fifo" THEN {"rx"} ELSE {})
    /\ UNCHANGED <<events, regs, kinds, rxhigh, status, tails, state, runs, hist>>

\* All error causes are cleared when one was seen.
IrqClear ==
    /\ IrqAt("clear", "esr")
    /\ isr' = {}
    /\ swallowed' = (swallowed \/ ("bsoff" \in isr /\ "bsoff" \notin seen))
    /\ UNCHANGED <<events, core, tec, rec, esr, ier, locals, tails, state, runs, owed, late,
                   moved, masked, judged, clobbered, stranded>>

IrqEsr ==
    /\ IrqAt("esr", "ack")
    /\ kinds' = esr
    /\ UNCHANGED <<events, regs, seen, rxhigh, status, tails, state, runs, hist>>

\* Mutant: ESR is cleared, whatever was read from it.
IrqAckEsr_All ==
    /\ IrqAt("ack", "ecr")
    /\ esr' = {}
    /\ UNCHANGED <<events, core, tec, rec, isr, ier, locals, tails, state, runs, hist>>

\* ESR is written with what was read from it.
IrqAckEsr ==
    /\ IrqAt("ack", "ecr")
    /\ esr' = esr \ kinds
    /\ UNCHANGED <<events, core, tec, rec, isr, ier, locals, tails, state, runs, hist>>

\* The two reads of ECR.
IrqEcr ==
    /\ IrqAt("ecr", "sr")
    /\ rxhigh' = (rec >= PassiveAt)
    /\ UNCHANGED <<events, regs, seen, kinds, status, tails, state, runs, hist>>

\* Mutant: bus-off is looked for in SR, where ESTAT does not show it.
IrqSr_NoBusOff ==
    /\ IrqAt("sr", "judge")
    /\ status' = Status
    /\ UNCHANGED <<events, regs, seen, kinds, rxhigh, tails, state, runs, hist>>

\* SR is read last; once BSOFF was seen nobody looks at it.
IrqSr ==
    /\ IrqAt("sr", IF "bsoff" \in seen THEN "bsoff" ELSE "judge")
    /\ status' = IF "bsoff" \in seen THEN status ELSE Status
    /\ UNCHANGED <<events, regs, seen, kinds, rxhigh, tails, state, runs, hist>>

AfterJudging == IF "rxoflw" \in seen THEN "oflw" ELSE "report"

\* Mutant: can_bus_off is not called.
IrqBusOff_NoTimer ==
    /\ IrqAt("bsoff", AfterJudging)
    /\ state' = "BUS_OFF"
    /\ SoftReset
    /\ judged' = TRUE /\ clobbered' = FALSE /\ stranded' = FALSE
    /\ rxhigh' = FALSE
    /\ UNCHANGED <<events, frames, seen, kinds, status, iier, pier, runs, owed, late>>

\* Bus-off: SRR.RESET, and can_bus_off arms the restart timer.
IrqBusOff ==
    /\ IrqAt("bsoff", AfterJudging)
    /\ state' = "BUS_OFF"
    /\ SoftReset
    /\ timer' = TRUE
    /\ judged' = TRUE /\ clobbered' = FALSE /\ stranded' = FALSE
    /\ rxhigh' = FALSE
    /\ UNCHANGED <<events, frames, seen, kinds, status, iier, pier, pc, spc, owed, late>>

\* Mutant: the level is looked at for ERROR only.
IrqJudge_ForError ==
    /\ IrqAt("judge", AfterJudging)
    /\ state' = CASE "error" \in seen /\ status = "passive" -> "ERROR_PASSIVE"
                [] "error" \in seen /\ status = "warning" -> "ERROR_WARNING"
                [] OTHER                                  -> state
    /\ judged' = (judged \/ status \in {"passive", "warning"})
    /\ clobbered' = (clobbered /\ status \notin {"passive", "warning"})
    /\ rxhigh' = FALSE /\ status' = "none" /\ moved' = FALSE
    /\ UNCHANGED <<events, regs, seen, kinds, tails, runs, owed, late, swallowed, masked,
                   stranded>>

\* Mutant: can.state takes the error status for a state.
IrqJudge_Raw ==
    /\ IrqAt("judge", AfterJudging)
    /\ state' = IF status \in {"passive", "warning"} THEN status ELSE state
    /\ judged' = (judged \/ status \in {"passive", "warning"})
    /\ clobbered' = (clobbered /\ status \notin {"passive", "warning"})
    /\ rxhigh' = FALSE /\ status' = "none" /\ moved' = FALSE
    /\ UNCHANGED <<events, regs, seen, kinds, tails, runs, owed, late, swallowed, masked,
                   stranded>>

\* An error level below the warning leaves can.state as it is.
IrqJudge ==
    /\ IrqAt("judge", AfterJudging)
    /\ state' = CASE status = "passive" -> "ERROR_PASSIVE"
                [] status = "warning"   -> "ERROR_WARNING"
                [] OTHER                -> state
    /\ judged' = (judged \/ status \in {"passive", "warning"})
    /\ clobbered' = (clobbered /\ status \notin {"passive", "warning"})
    /\ rxhigh' = FALSE /\ status' = "none" /\ moved' = FALSE
    /\ UNCHANGED <<events, regs, seen, kinds, tails, runs, owed, late, swallowed, masked,
                   stranded>>

\* Overflow: SRR.RESET, and nothing arms a restart.
IrqOverflow ==
    /\ IrqAt("oflw", "report")
    /\ SoftReset
    /\ stranded' = TRUE
    /\ UNCHANGED <<events, frames, locals, iier, pier, state, runs, owed, late, judged,
                   clobbered>>

\* The kinds are counted, and told in the error frame, if ERROR was seen.  What was lost
\* meanwhile is owed no longer.
IrqReport ==
    /\ IrqAt("report", IF "rx" \in seen THEN "ier" ELSE "idle")
    /\ seen' = IF "rx" \in seen THEN seen ELSE {}
    /\ owed' = owed \ ((late \ esr) \union (IF "error" \in seen THEN kinds ELSE {}))
    /\ late' = {} /\ kinds' = {}
    /\ UNCHANGED <<events, regs, rxhigh, status, tails, state, runs, moved, swallowed, masked,
                   judged, clobbered, stranded>>

\* IER is written with a value that was read from it some time before.
WriteBack(old) == ier' = old /\ masked' = (masked \/ (ier /\ ~old))

\* The handler has seen a frame: IER is read, and written without the RX interrupts; then
\* NAPI is scheduled, if it is enabled.
IrqReadIer ==
    /\ IrqAt("ier", "mask")
    /\ iier' = ier
    /\ UNCHANGED <<events, regs, locals, frames, rx, pier, state, runs, hist>>

IrqMask ==
    /\ IrqAt("mask", "idle")
    /\ WriteBack(iier)
    /\ iier' = FALSE /\ seen' = {}
    /\ rx' = IF pc = "up" THEN "due" ELSE rx
    /\ UNCHANGED <<events, core, tec, rec, esr, isr, kinds, rxhigh, status, frames, pier,
                   state, runs, owed, late, moved, swallowed, judged, clobbered, stranded>>

IrqRest == \/ IrqClear \/ IrqEsr \/ IrqAckEsr \/ IrqEcr \/ IrqSr
           \/ IrqBusOff \/ IrqJudge \/ IrqOverflow \/ IrqReport \/ IrqReadIer \/ IrqMask
Irq == IrqBegin \/ IrqRest

-----------------------------------------------------------------------------
(* The end of xcan_rx_poll, on any CPU: the FIFO is empty, IER is read,    *)
(* and written with the RX interrupts.  NAPI has been told before that the *)
(* poll is complete, so xcan_close does not wait for it.  One end of a     *)
(* poll at a time is followed.                                             *)

PollReadIer ==
    /\ rx = "due" /\ pier = {}
    /\ rx' = "none"
    /\ pier' = {ier}
    /\ UNCHANGED <<events, regs, ipc, locals, frames, iier, state, runs, hist>>

PollUnmask ==
    /\ \E old \in pier : WriteBack(old)
    /\ pier' = {}
    /\ UNCHANGED <<events, core, tec, rec, esr, isr, ipc, locals, frames, rx, iier, state,
                   runs, owed, late, moved, swallowed, judged, clobbered, stranded>>

Poll == PollReadIer \/ PollUnmask

-----------------------------------------------------------------------------
(* xcan_chip_start, called from xcan_open and from the restart timer *)

StartAt(w, here, there) == spc[w] = here /\ spc' = [spc EXCEPT ![w] = there]

\* set_reset_mode
StartReset(w) ==
    /\ StartAt(w, "reset", "setup")
    /\ SoftReset
    /\ judged' = FALSE /\ clobbered' = FALSE /\ stranded' = FALSE
    /\ UNCHANGED <<events, frames, ipc, locals, iier, pier, state, pc, timer, owed, late>>

\* xcan_set_bittiming, which refuses a core that is not in configuration mode; then IER.
StartSetup(w) ==
    /\ StartAt(w, "setup", IF core = "config" THEN "cen" ELSE "failed")
    /\ ier' = (ier \/ core = "config")
    /\ UNCHANGED <<events, core, tec, rec, esr, isr, ipc, locals, tails, state, pc, timer, hist>>

StartCen(w) ==
    /\ StartAt(w, "cen", "state")
    /\ core' = "normal"
    /\ UNCHANGED <<events, tec, rec, esr, isr, ier, ipc, locals, tails, state, pc, timer, hist>>

\* A mode is not reached in time; the core may have obeyed all the same.
StartTimeout(w) ==
    /\ \/ StartAt(w, "reset", "failed") /\ UNCHANGED regs
       \/ StartAt(w, "cen", "failed") /\ core' \in {core, "normal"}
                                     /\ UNCHANGED <<tec, rec, esr, isr, ier>>
    /\ UNCHANGED <<events, ipc, locals, tails, state, pc, timer, hist>>

StartResetTimeout(w) ==
    /\ StartAt(w, "reset", "failed")
    /\ SoftReset
    /\ judged' = FALSE /\ clobbered' = FALSE
    /\ UNCHANGED <<events, frames, ipc, locals, iier, pier, state, pc, timer, owed, late,
                   stranded>>

\* The core has answered: the state is set.
StartState(w) ==
    /\ StartAt(w, "state", "done")
    /\ state' = "ERROR_ACTIVE"
    /\ judged' = FALSE /\ clobbered' = (clobbered \/ judged)
    /\ UNCHANGED <<events, regs, ipc, locals, tails, pc, timer, owed, late, moved, swallowed,
                   masked, stranded>>

Start(w) == \/ StartReset(w) \/ StartSetup(w) \/ StartCen(w)
            \/ StartTimeout(w) \/ StartResetTimeout(w) \/ StartState(w)

\* The timer fires: can_restart, xcan_do_set_mode.  Its delay outlasts the handler that
\* armed it.
RestartBegin ==
    /\ timer /\ (ipc # "idle" => "bsoff" \notin seen)
    /\ StartAt("restart", "idle", "reset")
    /\ timer' = FALSE
    /\ UNCHANGED <<events, regs, ipc, locals, tails, state, pc, hist>>

RestartEnd ==
    /\ \/ StartAt("restart", "failed", "idle") /\ stranded' = TRUE
       \/ StartAt("restart", "done", "idle") /\ UNCHANGED stranded
    /\ UNCHANGED <<events, regs, ipc, locals, tails, state, pc, timer, owed, late, moved,
                   swallowed, masked, judged, clobbered>>

Restart == RestartBegin \/ Start("restart") \/ RestartEnd

-----------------------------------------------------------------------------
(* xcan_open and xcan_close, as far as the core, the timer and can.state   *)
(* go                                                                      *)

Thread(from, to) ==
    pc = from /\ pc' = to /\ UNCHANGED <<events, frames, ipc, locals, iier, pier>>

\* A device that was closed with its core left on, or a restart left due, is not followed:
\* what its next open meets is in XCanLife.
OpenBegin ==
    /\ core = "config" /\ ~timer /\ spc["restart"] = "idle"
    /\ Thread("down", "open")
    /\ StartAt("open", "idle", "reset")
    /\ UNCHANGED <<rx, regs, state, timer, hist>>

OpenEnd ==
    /\ \/ Thread("open", "up") /\ StartAt("open", "done", "idle")
       \/ Thread("open", "u_candev") /\ StartAt("open", "failed", "idle")
    /\ UNCHANGED <<rx, regs, state, timer, hist>>

\* close_candev deletes the timer and waits for its function; free_irq waits for the handler.
UnwindCandev ==
    /\ spc["restart"] = "idle"
    /\ Thread("u_candev", "u_irq")
    /\ timer' = FALSE
    /\ UNCHANGED <<rx, regs, state, spc, hist>>

UnwindIrq ==
    /\ ipc = "idle"
    /\ Thread("u_irq", "down")
    /\ UNCHANGED <<rx, regs, state, spc, timer, hist>>

\* xcan_chip_stop: the interrupts are disabled and the core is reset; what it has not told
\* is not asked for any more,
CloseChip ==
    /\ Thread("up", "c_state")
    /\ SoftReset
    /\ owed' = {} /\ late' = {}
    /\ judged' = FALSE /\ clobbered' = FALSE
    /\ UNCHANGED <<state, spc, timer, stranded>>

\* then can.state is set.
CloseState ==
    /\ Thread("c_state", "c_irq")
    /\ state' = "STOPPED"
    /\ UNCHANGED <<rx, regs, spc, timer, hist>>

CloseIrq ==
    /\ ipc = "idle"
    /\ Thread("c_irq", "c_candev")
    /\ UNCHANGED <<rx, regs, state, spc, timer, hist>>

CloseCandev ==
    /\ spc["restart"] = "idle"
    /\ Thread("c_candev", "down")
    /\ timer' = FALSE
    /\ UNCHANGED <<rx, regs, state, spc, hist>>

Calls == \/ OpenBegin \/ Start("open") \/ OpenEnd \/ UnwindCandev \/ UnwindIrq
         \/ CloseChip \/ CloseState \/ CloseIrq \/ CloseCandev

-----------------------------------------------------------------------------
Next == Hw \/ Irq \/ Poll \/ Restart \/ Calls

Spec == Init /\ [][Next]_vars

\* The handler comes for an interrupt that is enabled and goes on, and so does the timer's
\* function.
FairSpec == /\ Spec
            /\ WF_vars(IrqBegin /\ ier /\ isr \intersect Enabled # {}) /\ WF_vars(IrqRest)
            /\ WF_vars(Restart)

-----------------------------------------------------------------------------
(* Properties *)

\* Every variable holds a value of its kind.
TypeOK ==
    /\ events \in 0..MaxEvents /\ frames \in 0..MaxFrames
    /\ core \in {"config", "normal"} /\ tec \in 0..BusOffAt /\ rec \in 0..PassiveAt
    /\ esr \subseteq Kinds /\ isr \subseteq ErrCauses /\ ier \in BOOLEAN
    /\ ipc \in {"idle", "clear", "esr", "ack", "ecr", "sr", "bsoff", "judge", "oflw",
                "report", "ier", "mask"}
    /\ seen \subseteq AllCauses /\ kinds \subseteq Kinds
    /\ rxhigh \in BOOLEAN /\ status \in {"active", "warning", "passive", "none"}
    /\ rx \in {"none", "fifo", "due"} /\ iier \in BOOLEAN /\ pier \subseteq BOOLEAN
    /\ state \in States
    /\ pc \in {"down", "open", "u_candev", "u_irq", "up", "c_state", "c_irq", "c_candev"}
    /\ spc \in [Starters -> {"idle", "reset", "setup", "cen", "state", "done", "failed"}]
    /\ timer \in BOOLEAN
    /\ owed \subseteq Kinds /\ late \subseteq Kinds /\ moved \in BOOLEAN
    /\ swallowed \in BOOLEAN /\ masked \in BOOLEAN /\ judged \in BOOLEAN
    /\ clobbered \in BOOLEAN /\ stranded \in BOOLEAN

\* The interface is up, no error interrupt is due and nobody is about to change can.state.
Settled == /\ pc = "up" /\ ipc = "idle" /\ spc["restart"] = "idle"
           /\ isr \intersect {"error", "bsoff"} = {}

\* How bad a state is, and how bad the core's is.
Rank == [s \in States |-> CASE s = "ERROR_WARNING" -> 1 [] s = "ERROR_PASSIVE" -> 2
                             [] s = "BUS_OFF" -> 3 [] OTHER -> 0]
Level == IF BusOff \/ (core = "config" /\ timer) THEN 3
         ELSE CASE Status = "passive" -> 2 [] Status = "warning" -> 1 [] OTHER -> 0

\* can.state never promises more than the core can keep, unless xcan_chip_start has
\* overwritten what the handler found, or the handler has cleared a bus-off it did not see.
NeverBetter == Settled => Rank[state] >= Level \/ clobbered \/ swallowed

\* An interface that is up has its core off the bus only while a restart is due, unless
\* the last start failed or the core was reset for an overflow.
DeadOnlyWhen == Settled /\ core = "config" => timer \/ stranded

\* An error that the core has latched is counted by the handler, unless the interface is
\* closed before, or it came while the handler was between its read of ISR, which did not show
\* it, and its write of ESR, or between its read of ESR and its reset of the core.
KindsAccounted ==
    owed \subseteq esr \union late \union (IF "error" \in seen THEN kinds ELSE {})

\* Mutant: the larger counter is blamed the wrong way round.
Told_Swapped == IF rxhigh THEN "TX_PASSIVE" ELSE "RX_PASSIVE"

\* What the error frame says of an error passive core.
Told == IF rxhigh THEN "RX_PASSIVE" ELSE "TX_PASSIVE"

\* The error frame blames a counter that has reached the level, unless ECR has changed
\* since it was read.
HonestPassive ==
    ipc = "judge" /\ status = "passive" /\ ~moved =>
        IF Told = "RX_PASSIVE" THEN rec >= PassiveAt ELSE tec >= PassiveAt

\* A core that is bus-off while the interface is up comes back, unless the interface is
\* closed, the bus-off was cleared unseen, a start failed, an overflow reset the core, or a
\* write of IER, by the handler or a poll, has undone that of the last start.
BusOffRestarts ==
    BusOff /\ pc = "up" ~> pc # "up" \/ OnBus \/ swallowed \/ stranded \/ masked

\* When the core is bus-off and no interrupt is due, can.state says so.
BusOffKnown == Settled /\ BusOff => state = "BUS_OFF"
=============================================================================
