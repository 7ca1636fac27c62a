# zynq-can-sja1000-top: models, checks and proofs

The repository builds a Linux system for a Zynq board with several CAN controllers: FPGA
logic under `system/`, a PetaLinux tree with a CAN driver (`xilinx_can.c`) and a program
that shows its time stamps (`canhwtstamp`) under `petalinux/`, and a test suite for the CAN
interfaces under `ci/`. The part with state, concurrency and failure is the driver, and most
of the project is about it. Paths below are
relative to the repository; line numbers without a file are lines of
`petalinux/components/modules/xilinx_can/xilinx_can.c`.

## 1. Inventory

| Component | State it keeps | Operations | Hard behaviour |
|---|---|---|---|
| Transmit path (402-476, 875-891) | `tx_head`, `tx_tail`, the ring of echo skbs, the queue's stop bit; TX FIFO and ISR.TXOK in the core | `xcan_start_xmit`, `xcan_tx_interrupt`, flush on restart | sender and handler on two CPUs without a lock; TXOK is one bit for any number of frames; resets empty the FIFO and not the ring |
| Receive path (593-662, 835-868, 936-942) | NAPI state, IER; RX FIFO, ISR.RXOK and RXNEMP in the core | `xcan_interrupt`, `xcan_rx_poll`, `xcan_rx` | IER is read, changed and written from three contexts; the end of a poll runs beside the next; resets in the middle of a poll; no memory |
| Errors (673-823, 927-934) | `can.state`, statistics, error frames; restart timer; ESR, ECR, SR and ISR in the core | bus-off, overflow, state changes, counting of errors | five registers read one after the other while the core goes on; the core is reset under everybody's feet; restart from a timer; `can.state` set from three contexts |
| Life of the device (953-1091, 1245-1394) | clocks, interrupt, NAPI, CAN device, byte order | probe, remove, open, close, error counter query | every call may fail half way; interrupts, polls and timers outlive the call that stops them |
| Time stamps (501-580, 1354-1357) | reference point, conversion factor; the core's counter | `xcan_timestamp2ktime` | 16-bit counter extended by the nearest multiple; truncated factor; a reference that outlives close |
| Time stamp ioctl (1093-1159) | none | set, get | what is asked for and what is granted differ |
| Suspend, resume (1176-1232) | clocks, mode | | undefined: the driver data is taken for what it is not |
| `system/ip/display_16bit_cmd_data_bus_1.0` | AXI handshake bits, I/O state machine, divider | write transfer | handshake with a machine that is busy; a ready bit a clock behind; data and strobe at the same edges |
| `system/ip/spi_leds_and_enc_1.0` | shift register, counters | SPI transfer, quadrature counting | hand-over between clock domains of the divider |
| `system/ip/can_crossbar_*` | one register | routing | every receiver must hear what drives its bus |
| PWM and audio cores, `can_merge`, pin adapters, `top.vhd` | a counter and a comparator, or nothing | | |
| `ci/cantest` | selector, send and receive queues | event loop | termination, retry on a full queue |
| `canhwtstamp` | options, the socket's queue and pending error (kernel) | asks for time stamps, waits, prints | a refused request; errors that come before frames |

How they interact: the networking core calls `xcan_start_xmit` (softirq) and open, close and
the query (under RTNL); the core's interrupt calls `xcan_interrupt`, which calls the TX part
itself, schedules the RX poll (softirq) and, on bus-off, arms the restart timer of the CAN
layer; the timer calls `xcan_do_set_mode` (softirq). Handler, softirqs and threads run on
any CPU, at the same time, and the driver has no lock. They share `tx_head`, `tx_tail`, IER,
ISR, `can.state` and the mode of the core. `canhwtstamp` talks to the driver by one ioctl and
hears from it through a raw CAN socket.

What makes each correct:

* transmit: a frame accepted is looped back once, in order, after it was sent; the FIFO is
  never overrun; a stopped queue is woken; the handler ends;
* receive: a frame that entered the FIFO is delivered once and in order; reception is never
  left masked; one poll at a time drains; nobody loses another's bits of IER;
* life: what a call took is given back whatever fails; registers are touched with clocks
  on; every call returns; an interface that is up hears;
* errors: `can.state` never promises more than the core can keep; every latched error is
  counted; a core that is bus-off comes back; an interface that is up is off the bus only
  while a restart is due;
* time stamps: the time given lies near now whatever happens, and is the counter's when
  the frequency divides 10^9, frames are read in time and nothing stops or resets the core;
  what the program prints is that;
* FPGA cores: every accepted write has its effect once; the handshakes do not hang.

`PROJECT.json` lists 40 hazards at their lines, with the property that covers each or the
reason why none does.

## 2. Modules

| Module | Models | Role |
|---|---|---|
| `EchoFifo` | what transmission promises | abstract specification: accept, send, loop back |
| `XCanTx` | transmit path, bus-off and restart as they touch it | implements `EchoFifo` when pinned |
| `XCanTxProofs` | | invariants and theorems about `XCanTx` |
| `XCanTxOrderProofs` | | EXTENDS it: the accounting, the order and the promise when pinned |
| `FrameFifo` | what reception promises | abstract specification: a bounded FIFO of frames |
| `XCanRx` | receive path, overflow, bus-off and restart | implements `FrameFifo` when nothing resets the core |
| `MCXCanRx` | | symmetry of the CPUs for the larger run |
| `XCanRxProofs` | | invariants and theorems about `XCanRx`, and the promise when nothing resets the core |
| `XCanLife` | probe, remove, open, close, query, and what they race with | |
| `XCanLifeProofs` | | invariant and theorems about `XCanLife` |
| `XCanErr` | error interrupts, `can.state`, bus-off, restart, and open and close as they touch them | |
| `XCanErrProofs` | | invariants and theorems about `XCanErr` |
| `XCanTimestamp` | the core's counter, its clock, `xcan_timestamp2ktime` | |
| `CanHwtstamp` | the ioctl, the socket and `canhwtstamp` | EXTENDS `XCanTimestamp`: the two composed |
| `CanHwtstampProofs` | | arithmetic, invariant and theorems about both |
| `DisplayBus` | write channels of the AXI slave and I/O machine of the display port, with an AXI master (external) | a clocked design: every step is one edge |
| `DisplayBusProofs` | | invariants and theorems about `DisplayBus` |

### State and code

A context of execution (sender, handler, poll on a CPU, restart, thread under RTNL) has a
program counter of its own (`xpc`, `ipc`, `ppc[c]`, `rpc`, `pc`, `dpc`); its locals are
variables (`seen`, `iier`, `pier[c]`, ...). One action is what lies between two accesses to
something another context can touch: a register, `tx_head`, `tx_tail`, the queue's bit, the
state of NAPI. So `ier = read(IER); ier &= ~RX; write(IER, ier); napi_schedule()` (938-941)
is three actions, `IrqReadIer`, `IrqMask`, `IrqSchedule`.

The registers of the core are variables (`ier`, `rxok`, `rxnemp`, `txok`, ...), and what the
core does is modelled from how the driver uses it and marked external: TXOK, RXOK and RXNEMP
are sticky bits cleared by ICR, RXNEMP is set again while the FIFO holds a frame, a reset
empties the FIFOs and clears IER and ISR, a core in configuration mode neither sends nor
receives.

Abstracted: a frame is its number; its contents, statistics, LEDs and log messages are left
out. The five register accesses that write a frame to the TX FIFO are one action, as are the
five that read one from the RX FIFO (nobody else touches them in between, but a reset may
come before or after). `XCanTx` has TXOK as the only cause of an interrupt besides bus-off (the reset for an overflow
is to the transmit path a bus-off whose restart never comes), and `XCanRx` keeps all but RX in
one bit `other`. The carrier: `can_restart` and the bus-off
branch turn it off and on, which stops the queue by way of the link watch, later; the models
let the sender run in between, which allows more than the code does. The restart delay
(`restart_ms`) is taken to be set; with 0 the restart is a call of the user with the same
steps. The timer fires after the handler that armed it has returned: its delay is a
millisecond at least.

`XCanLife` keeps of reception what open and close see (one RX bit, the mask, NAPI, and the
overflow with its reset of the core, 731-740, which clears IER and has nobody to set it again)
and leaves the transmit queue out. The causes other than RX and bus-off have no bit of their
own: they may come at any time once the core runs, and only the handler looks at them, so whether
one is set is decided when it does. There a register access without clocks goes on as if it
worked (that it happens is what the properties are about), except the reset in
`xcan_remove`, which may be lost. It has one poll at a time, and the core is in
configuration mode at power-on.

`CONSTANT Calls` of `XCanLife` says which calls there are beside open and close: `"remove"`,
`"berr"` (the error counter query) and `"early"` (an open that comes between
`register_candev` and the end of `xcan_probe`).

`XCanErr` has one action per register access of `xcan_interrupt` and `xcan_err_interrupt`:
ISR read, all error causes cleared, ESR read, ESR written, ECR, SR, and then the branch for
bus-off (with its reset and the timer) or for the level, the overflow with its reset, the
report, and the read and the write of IER (938-940) when the handler had seen an RX interrupt.
The end of a poll (862-865) is here too, as a read of IER and a write at any later time; `pier`
holds what it has read. One poll's end at a time is enough: two are the business of `XCanRx`.
ECR is read twice in a row for its two halves; the model takes that as one step. The
error counters go up and down by one and their three levels are small; which kind of error
counts in which counter is the constants `TxKinds` and `RxKinds`. What else there is of the interrupts for frames belongs to `XCanTx` and `XCanRx`, which know
nothing of `can.state`. Sleep is left out: the core
sleeps only when `xcan_suspend` asks for it. The core does not recover from bus-off by
itself. A device that was closed with its core left on, or a restart left due, is not
opened again here (`XCanLife` follows those). Its history variables name what excuses a
property: `late` (an error that the handler cannot count: it came between its read of ISR,
which did not show it, and its write of ESR, `Blind`; or between its read of ESR and its own
reset of the core for a bus-off or an overflow, `Doomed`), `masked` (since the last reset IER
was written with an older value, which has switched the error interrupts off), `swallowed` (a BSOFF cleared unseen), `clobbered` (`can.state` set by the handler and then
overwritten by the end of `xcan_chip_start`), `stranded` (a failed start, or an overflow),
`moved` (ECR changed after it was read).

In `XCanTimestamp` time is a variable, `now`, that `Elapse` advances by one nanosecond;
`clocked` is for how long `can_clk` has run, and the core's counter is what that gives at
`freq`. The widths are constants: `Half` is 2^15 and `NsPerSec` 10^9 in the code. A frame in
the RX FIFO carries the counter of its arrival in full, of which the driver sees what is left
modulo the period. `Close` stops the clock and drops the FIFO, `Open` starts it with the
counter kept or cleared (the code does not say which); `ref` stays. `Reset` is the write of SRR
while the interface is up, by the handler for a bus-off (694) or an overflow (735) and by
`xcan_chip_start` when the restart timer fires (321): `can_clk` runs on, the counter is kept or
cleared, the FIFO is emptied, `ref` stays (546). A poll that had seen RXNEMP before that reads
on regardless (`stale`, `RxNothing`): the stamp of a frame that is none may then be the first
and become the reference. `cut` remembers that the counter is out of step with the reference,
for any of these reasons. For how long the core stays off the bus after a reset changes nothing
here, so the restart is in the same step. The branch under `#if 0`
(508-543) is not compiled and not modelled; `tmdiffns` is used by nobody.

`CanHwtstamp` adds the program and its socket. Options that concern software time stamps
change nothing that is modelled, and `SOF_TIMESTAMPING_RAW_HARDWARE` is taken to be given:
without it no hardware time is printed. The wake-up every five seconds does nothing (the call
that used to send is commented out) and is a stutter. The error EINVAL or ENOTSUP that `main`
tolerates when nothing was asked for cannot come from this driver. The driver stamps every
frame whether or not it was asked to (`TODO: only if requested?`, 617), so what is granted
changes nothing in it.

`DisplayBus` has another form, since hardware runs in step: its only action, `Clock`, is one
rising edge, the conjunction of one operator per process (`AwReady`, `WReady`, `Request`,
...), each of which computes its registers from the old values. The I/O machine has one
operator per state. The divider `lcd_bus_clkdiv` is 1, the value of the only instance
(`display_16bit_cmd_data_bus_v1_0.vhd:289`), so each clock is a tick. What is written is the
number of the write; the panel gets one half of it or two, by `WSTRB(2)`. The master is
external and does what AXI allows one with a single outstanding write: it raises the address
and the data in either order, holds each until it is taken, and takes the response at any
time. It begins the next write a clock after the response at the earliest. The register file
itself, the read channels and a reset in operation are left out.

### Promises

`EchoFifo` and `FrameFifo` know nothing of rings, bits or CPUs. `XCanTx!Implements` and
`XCanRx!Implements` instantiate them with a refinement mapping: a frame is in the abstract
queue from the moment the driver (or the core) holds it until it is handed over; all the
steps of masking, polling, clearing and counting are stutters. The liveness of `FrameFifo`
(every frame is delivered) is checked too.

## 3. Runs

| Run | Configuration | Question and answer |
|---|---|---|
| `XCanTxPinned` | all contexts on one CPU, one TXOK seen per frame, no bus-off | Is the accounting right at all? The queue is never awake with a full FIFO, `tx_tail` counts what was sent, the path implements `EchoFifo`, a stopped queue is woken, and it stalls only if `netif_stop_queue` came after the last wake-up. |
| `XCanTxRacing` | contexts on several CPUs, merged TXOK, bus-off and restart | What survives when the accounting has gone wrong? No interrupt storm, no overrun of the FIFO, no frame looped back twice. |
| `XCanTxFullAwake` | interrupt on another CPU | The assertion "BUG!, TX FIFO full when queue awake!" can fire. |
| `XCanRxPolling` | two CPUs, errors, no memory; no reset | Reception implements `FrameFifo`, with its liveness. |
| `XCanRxOverflow` | two CPUs, overflow, bus-off, restart | Reception is never left masked, one poll drains, order holds, the other interrupts are lost in one way only. |
| `XCanLife` | all calls, all failures | Clocks and resources balance; every irregular access is confined to a named window. |
| `XCanLifeReturns` | open, close; fairness | open and close return whatever fails. |
| `XCanErr` | open, close, restart, timeouts; two kinds of error, four events, one frame; fairness | Is `can.state` honest, is every error counted, is every interface that is off the bus about to be restarted, and does bus-off end? Yes, but for the cases that the history variables name. |
| `XCanErrBusOffLost` | the same | A bus-off that comes while the handler is at work on another error may be cleared unseen: the state is wrong and the interface is dead. |
| `HwTimestamps` | a frequency that divides a second and one that does not; a period of 6 ticks; a close or a reset of the core; a socket of one frame; fairness of the program | The time given is always near now; what is printed is the counter's time when the frequency divides, frames are read in time, and since the first was read the interface has stayed up and nothing has reset the core; frames are printed once, in order, whatever errors come, and in the end. |
| `DisplayBus` | three writes | What is accepted is shown once, in order, framed by the strobe; a write that meets a ready machine is answered. |
| `DisplayBusHangs` | the same | A write whose address is taken while the machine is busy is never answered, unless the machine is ready in the very next clock. |

The three violation runs are findings; `PROJECT.json` quotes the line that each contradicts.

Three more properties are known to fail and are stated in the modules without a run of their
own; the passing runs check the weaker form that holds. To see one fail, put it alone in the
cfg named:

* `XCanTx!TailCountsSent` in `XCanTxRacing.cfg`: TXOK is one bit, two completions before one
  ICR write (882) advance `tx_tail` once, although line 128 documents it as the number of
  frames sent. It holds, and is checked, when each completion is seen (`XCanTxPinned`).
* `XCanRx!OthersEnabled` in `XCanRxOverflow.cfg`: the poll or the handler that read IER before
  `xcan_chip_start` wrote it writes the old value back (863-865, 938-940 against 331) and leaves
  a running core without its TX and error interrupts. `OthersLostOnlyByRace`, which is checked
  and proved, says that there is no other way.
* `XCanLife!OpenHears` in `XCanLifeReturns.cfg`: a frame between `xcan_chip_start` (1009) and
  `napi_enable` (1016) masks RX and its `napi_schedule` is lost, so open returns 0 on an
  interface that does not hear. A restart that times out and the reset for an overflow (735)
  leave it as deaf. `DeafOnlyFromStart`, which is checked and proved, says that there is no
  fourth way.

Bounds. The depths of the FIFOs are 2 and 3 (a ring of one has no order, with two a slot is
used again after one wrap); counters wrap at a small modulus that the depth divides, so that
they do wrap within a run; the frames of the receive runs are 3 and 4, more than the FIFO
holds and more than one quota; two CPUs, since each race is between two. Overflows, bus-offs
and error interrupts are bounded by constants named `Max...`: one reset already meets every
step of the others. `XCanLife` has no bound, its state is finite; its liveness
run has `Calls = {}`, so open and close are there and remove, the query and the early open are
not (none of them is waited for). In `XCanErr` the levels are 1, 2 and 3, so that the counters pass
through each of them and back, and four events reach bus-off by way of both lower levels with
one to spare: an overflow, an arbitration loss, or an error of the other kind in between. One
frame is enough for a handler and a poll to hold an old value of IER; a bus-off with the
interrupts masked is then met by way of a poll's end that is held up over a close and an open,
where an open writes IER. The same over a bus-off and its restart takes six events and is out
of the bounds of this run; `masked` excuses both. `XCanTxPinned`
has each TXOK seen by itself: that two may merge, which spoils `tx_tail`, is
the business of `XCanTxRacing`, whose properties hold all the same, and of the list above. In
`HwTimestamps` time runs for a whole period of the counter, so that a stamp of the
second turn is extended; three frames are the reference, one that is compared with it, and one
that is read from an emptied FIFO; a frame can wait for more than half
a period, and the frequency that does not divide has its factor truncated. Of a second with 5 units the frequencies 5 and 2 have the
multipliers 1 and, truncated, 2; a multiplier above 1 with a frequency that divides is left to
the proofs, which have all of them. Three writes let a second one meet a machine that is busy
with the first and a third follow it.

Fairness. Handler, polls and restart are weakly fair: an interrupt that is asserted is taken,
a scheduled poll runs, an armed timer fires, and a context that has begun goes on. Failing
allocations are the exception: reading a frame is strongly fair, that is, memory does not
stay out for ever whenever the poll asks. The core (arrivals, transmissions, errors), the
user's calls and the sender have no fairness for safety; where a run needs frames to leave
the core, it says so in its specification. In `XCanLife` the waits of open and close are
strongly fair: `free_irq` shuts the interrupt off before it waits, and the timer's delay
leaves `del_timer_sync` a moment in which it finds it idle. In `XCanErr` the handler is entered when a
cause that IER lets through is set, in `XCanLife` when that is RX or bus-off (RXOFLW alone is not in IER: `XCAN_INTR_ALL`, 102, leaves it
out) and the timer fires. `canhwtstamp` goes on once it has been set up. The clock of
`DisplayBus` ticks.

The check for deadlock is off (`CHECK_DEADLOCK FALSE`) in the runs of the driver: a bounded run
stops when its bounds are used up, and a device on which nobody calls anything stands still.
It is on for `DisplayBus`, where the clock can always tick.

## 4. Proofs

The proofs hold for every depth, quota, number of CPUs and bound (within the assumptions named
in the modules: positive depths, a modulus larger than the depth, and so on).

* `TypeCorrect` (every module with proofs).
* `NoStorm`, `NoOverrun`, `LoopedOnce` for the transmit path. The argument does not go by the
  accounting, which races break, but by weaker facts that every step keeps: a TXOK that is
  visible has a frame in the ring to account it to; the sender writes only after a look at
  the FIFO that nothing can have falsified, since it alone fills it; a slot is emptied in the
  step that loops its frame back.
* `NeverFull`, `TailCounts`, `OnlyLateStops`, `KeepsPromise` and `LoopedInOrder` for the
  transmit path on the system its code was written for (`Pinned`: handler, sender and timer on
  one CPU, a TXOK for each frame, no bus-off; the finding of `XCanTxFullAwake` shows that the
  hypothesis is needed). There the inequalities become equations: what is counted plus what
  TXOK shows plus what the handler has just acknowledged is what was sent (`TxokExact`), and
  that plus the FIFO plus the frame being written is what was accepted (`FifoExact`). That the
  ring has room whenever the sender may run (`RingRoom`) has to say of the handler that it
  wakes the queue only after it has counted a frame in this run. For the order the slots are
  followed through the wraps of the counters: the k-th frame outstanding is in the slot of the
  k-th counter after `tx_tail` (`RingHolds`), and the other slots are empty (`RingElse`). A
  wrap moves from slot to slot only if `tx_max` divides the range of the counters (`RingFits`;
  for 2^32, any power of two): without that a frame may land in a slot that is in use, and
  with `CntMod = 5` in `XCanTxPinned.cfg` TLC finds `Implements` violated. From the two
  invariants every step of `XCanTx` is a step of `EchoFifo` or a stutter.
* `NotDeaf`: reception is never masked unless somebody will unmask it. Alone this is not
  inductive: a restart writes IER before it lets the core run, and what overtakes that write
  counts already. `Listening` states it from that write on; that no reset falls between the
  write and the start is `RestartAlone`. A poll that has read IER will write the RX bits
  whatever it read, a handler that has read it will schedule, and a schedule that is refused
  is refused because one is pending.
* `Exclusive`: one poll drains. It rests on ownership of NAPI (`OneOwner`): the CPU between
  `napi_schedule` and `napi_complete` is unique although the tails are not.
* `OthersSafe`: while the core runs, the other interrupts are enabled unless a
  read-modify-write has spanned the restart (`OthersKept`, with `Alone` and `RestartAlone`:
  the handler and the timer exclude each other's reset).
* `DeliveredInOrder`: no frame is delivered twice or after a younger one, with overflow,
  bus-off, restart and polls that end late. The invariant (`Younger`) is about the FIFO as much
  as about what was delivered: it is increasing, and all of it is younger than all that was
  delivered; a reset only drops frames.
* `KeepsPromise` of `XCanRx`: with no overflow and no bus-off (`Calm`) every step is one of
  `FrameFifo` or a stutter. What has to be shown is that a poll which goes on to read a frame
  finds one (`Truthful`): RXNEMP may be set with the FIFO empty, but only between the read of
  the last frame and the ICR write, and then the one poll that drains (`OneOwner`) is the one
  that looks again.

* `Delivered` and `Framed` for the display port. What was accepted is what was shown and then
  the one or two halves still owed (`Balance`). That a request never meets a busy machine rests
  on `Ready`: WREADY is given only to an idle machine, and from the request on the address
  channel is taken, so that no second WREADY can be on its way before `ready_for_rq` falls.

* `NearNowAlways` and `ExactAlways` for the time stamps. The
  arithmetic first: what is left of a difference in 16 bits with a sign lies in
  [-Half, Half) and differs from it by whole periods (`SignedRange`), two such numbers that
  differ by whole periods are equal (`NearestUnique`), so the extension lies within half a
  period of now (`NearestToNow`) and is exact when the counter lies within half a period of
  where the driver takes it to be (`NearestExact`). Frames that are read within `Tolerance`, two
  ticks less than half a period, do (`InTime`): the rounding of three divisions costs the two
  ticks. The invariant then follows a frame: what waits in the FIFO carries the counter of the
  clock that runs (`Waiting`), the reference was cut from that clock and read in time
  (`RefKnown`), and what is queued or printed is exact (`AllExact`). Once the interface was
  closed or the core reset after the reference was taken, or the reference was taken from an
  emptied FIFO, nothing is claimed but `StampNearNow`: the reset does not touch
  `ref_timepoint`. The theorems hold for the
  real widths, 2^15 and 10^9.
* `AscendAlways`: under the same conditions the times printed for two frames are as far apart
  as the counters of the frames, and never run backwards. `ShownExact` is about one frame; this
  needs besides that a later frame has no smaller counter (`Rising`), which a stop of the clock
  would break, and then the reference is cut off or there is no frame.
* `InOrderAlways` and `GrantedAlways` for what the program prints. The frame printed last, the
  frames of the socket and those of the FIFO are numbered upwards (`Order`); a frame that
  moves on is the first of where it leaves and the last of where it goes.

* `NoKindLost`, `NeverJustDead`, `BlameIsHonest` and `StateNeverBetter` for the error
  interrupts. The four concern different parts of the state, and each has its own strengthening. That no error kind is lost
  (`KindsInv`) needs what the handler holds at each stage: before it reads ESR it holds nothing
  (`Empty`); a kind that it is about to clear without having seen ERROR is late (`Unseen`); a
  kind is owed without ERROR in ISR only if it is late or will be counted (`Flagged`); and of
  what is in ESR before it resets the core itself, each kind is late or among those it has read
  and will count (`Wiped`). That the
  core is off the bus only with a restart due (`DeadInv`) needs where the two starts of the core
  are; that the blame is honest (`HonestInv`) needs that a change of ECR between its two reads
  and the read of SR is remembered. That `can.state` never promises too much (`StateInv`) needs
  most: a core that is worse than active was judged or is going to be (`Judged`), what was
  judged and not written over is as bad as the core unless it is going to be judged again
  (`Upheld`), what the handler has read of SR is as bad as the core is unless an interrupt is due
  again (`StatusFresh`), and a bus-off is in ISR, in the handler's hands, or was swallowed
  (`BusOffShown`). They rest on who may be where at the same time (`StartsAlone`,
  `TimerAlone`): a start of the core that has not set CEN has the core to itself.

* `GivesBack`, `CallsKeepClocks`, `TwoWindows`, `OrphanAroundOpen`, `MisledByLateStart` and
  `DeafFromStart`: every safety property of the life of the device. One invariant carries
  them: the place of the two threads says what is held (`Held`) and how often each clock is
  enabled (`Counts`), a context runs only while what it serves is held, the orphan timer aside
  (`Contexts`), and a core that is on belongs to an interface or was started late
  (`CoreOwned`). That needs no cleverness, and is what the unwinding labels are supposed to
  achieve; the windows and the three action properties then follow step by step. `DeafFromStart`
  has three ways in which an interface that is up goes deaf for good, the reset for an overflow
  among them.

Every safety property that a passing run checks is so a theorem, and of the two promises the
initial states and the steps. Left to TLC: liveness (`StoppedWakes`, `CallsReturn`,
`AnsweredWhenReady`, `AcceptedShown`, `BusOffRestarts`, `FramesShown`, and the fairness of
`EchoFifo` and `FrameFifo` in the two `Implements`), because the prover handles neither fairness
nor ENABLED; and the three violations, which are counterexamples.

## 5. What could follow

1. What remains of the two promises when the core is reset: an abstract FIFO that may drop all
   it holds at once, and `XCanRx` with overflow and bus-off as its implementation.
2. `SpiEnc`: the SPI shifter and the quadrature counter of `spi_leds_and_enc`.
3. The event loop of `ci/cantest` (it ends only if no frame is lost).

## 6. Not modelled

* Suspend and resume: `xcan_suspend` and `xcan_resume` (1176-1232) take the `net_device` that
  probe stored as driver data for a `platform_device`. What follows is undefined, and a model
  of it would say nothing. With them goes sleep mode: nothing else puts the core to sleep.
* `xcan_hwtstamp_get` (1133-1146): returns a constant; nobody here calls it.
* Bit timing arithmetic, register layout and byte swapping, LEDs, statistics other than the
  count of errors, and the contents of error frames but for the counter they blame.
* What a frame does in an open that comes before line 1355: a division by zero.
* The FPGA cores other than the display port: the crossbar, the merger and the pin adapters
  are combinational (with one register in front), the PWM and audio cores are a counter and a
  comparison in a vendor's AXI template, and the SPI and encoder core is for later. Of the
  display port, the read channels, a reset in operation and the unused example master.
* The drivers of the FPGA cores (`drivers/*/src`): generated templates of register macros and a
  self test.
* `ci/cantest`, and all that is configuration, packaging or generated.
