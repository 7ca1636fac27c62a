---------------------------- MODULE XCanTimestamp ----------------------------
(***************************************************************************)
(* The hardware time stamps of xilinx_can.c.  The core stamps a received   *)
(* frame with the low bits of a counter of its clock; when the driver      *)
(* reads the frame, later, xcan_timestamp2ktime extends the stamp to a     *)
(* time of the system's clock: it counts from the first frame that was     *)
(* read since the driver was loaded and takes the multiple of the          *)
(* counter's period that is nearest to now.                                *)
(*                                                                         *)
(* The unit of time is one nanosecond.  The widths are scaled down: a      *)
(* second has NsPerSec of them, and the counter has a period of 2 * Half   *)
(* in place of 2^16.                                                       *)
(***************************************************************************)
EXTENDS Integers, Sequences

CONSTANTS
    Half,       \* half the period of the core's counter: 2^15
    NsPerSec,   \* 10^9
    Freqs,      \* frequencies that can_clk may have
    RxDepth,    \* depth of the RX FIFO
    MaxTime,    \* bound: the last nanosecond
    MaxFrames,  \* bound: number of frames that arrive
    MaxStops    \* bound: number of times the interface is closed or the core reset

ASSUME TimestampAssumption ==
    /\ Half \in Nat \ {0} /\ NsPerSec \in Nat \ {0}
    /\ Freqs # {} /\ Freqs \subseteq 1..NsPerSec
    /\ RxDepth \in Nat \ {0}
    /\ MaxTime \in Nat /\ MaxFrames \in Nat /\ MaxStops \in Nat

VARIABLES
    now,       \* the system's clock
    freq,      \* can.clock.freq
    running,   \* the interface is up and can_clk runs
    clocked,   \* for how long can_clk has run since the counter was cleared
    fifo,      \* the core's RX FIFO: frames with the time and the counter of their arrival
    arrived,   \* number of frames that have arrived, or were read from an empty FIFO
    stops,     \* number of times the interface was closed or the core reset
    stale,     \* a poll that found RXNEMP set before a reset has not yet read its frame
    ref,       \* ref_timepoint; a ktime of 0 is none
    refTick,   \* history: the counter, in full, that ref.ts was cut from
    slow,      \* history: a frame has waited in the FIFO for too long
    cut        \* history: the counter is not in step with ref: can_clk stood still, or the
               \* counter was cleared, or the frame that gave ref was none

core   == <<running, clocked, fifo, arrived, stops>>
driver == <<stale, ref, refTick, slow>>
vars   == <<now, freq, core, driver, cut>>

Period  == 2 * Half
NoRef   == [ktime |-> 0, ts |-> 0]
Counter == (clocked * freq) \div NsPerSec

\* Truncated: a period of the counter takes longer unless freq divides 10^9.
cantime2ns_mul == NsPerSec \div freq

-----------------------------------------------------------------------------
(* xcan_timestamp2ktime *)

\* Mutant: the adjustment is taken for an unsigned number.
Signed_No(x) == x % Period

\* What is left of a difference in 16 bits, with a sign.
Signed(x) == ((x + Half) % Period) - Half

\* Mutant: the stamp of the reference is forgotten.
Cantime_NoRef(r, t) == (t - r.ktime) \div cantime2ns_mul

Cantime(r, t) == (t - r.ktime) \div cantime2ns_mul + r.ts

Adj(r, ts, t) == Signed(ts - (Cantime(r, t) % Period))

Timestamp2ktime(r, ts, t) ==
    r.ktime + (Cantime(r, t) + Adj(r, ts, t) - r.ts) * cantime2ns_mul

\* The reference for a stamp ts that is read at time t.
Reference(ts, t) == IF ref.ktime = 0 THEN [ktime |-> t, ts |-> ts] ELSE ref

-----------------------------------------------------------------------------
Init ==
    /\ now = 1 /\ freq \in Freqs
    /\ running = TRUE /\ clocked = 0 /\ fifo = << >> /\ arrived = 0 /\ stops = 0
    /\ stale = FALSE /\ ref = NoRef /\ refTick = 0 /\ slow = FALSE /\ cut = FALSE

Elapse ==
    /\ now < MaxTime
    /\ now' = now + 1
    /\ clocked' = IF running THEN clocked + 1 ELSE clocked
    /\ UNCHANGED <<freq, running, fifo, arrived, stops, driver, cut>>

HwReceive ==
    /\ running /\ arrived < MaxFrames /\ Len(fifo) < RxDepth
    /\ arrived' = arrived + 1
    /\ fifo' = Append(fifo, [id |-> arrived', at |-> now, tick |-> Counter])
    /\ UNCHANGED <<now, freq, running, clocked, stops, driver, cut>>

\* How long a frame may wait so that the extension is right: two ticks less than half a
\* period.
Tolerance == (Half - 2) * cantime2ns_mul

\* Mutant: the data words are not read, and the frame stays in the FIFO.
Rx_Keep(f) ==
    /\ running /\ fifo # << >> /\ f = Head(fifo)
    /\ ref' = Reference(f.tick % Period, now)
    /\ refTick' = IF ref = NoRef THEN f.tick ELSE refTick
    /\ slow' = (slow \/ now - f.at > Tolerance) /\ stale' = FALSE
    /\ UNCHANGED <<now, freq, running, clocked, fifo, arrived, stops, cut>>

\* xcan_rx as far as time is concerned: frame f is read.
Rx(f) ==
    /\ running /\ fifo # << >> /\ f = Head(fifo)
    /\ fifo' = Tail(fifo)
    /\ ref' = Reference(f.tick % Period, now)
    /\ refTick' = IF ref = NoRef THEN f.tick ELSE refTick
    /\ slow' = (slow \/ now - f.at > Tolerance) /\ stale' = FALSE
    /\ UNCHANGED <<now, freq, running, clocked, arrived, stops, cut>>

\* The FIFO was emptied before the poll came to read: it reads a frame with stamp ts that is
\* none.
RxNothing(ts) ==
    /\ running /\ stale /\ fifo = << >>
    /\ arrived' = arrived + 1
    /\ ref' = Reference(ts, now)
    /\ refTick' = IF ref = NoRef THEN ts ELSE refTick
    /\ stale' = FALSE /\ cut' = TRUE
    /\ UNCHANGED <<now, freq, running, clocked, fifo, stops, slow>>

\* The time it is given.
Stamp(f) == Timestamp2ktime(Reference(f.tick % Period, now), f.tick % Period, now)

\* The core is reset while the interface is up: by the handler for a bus-off or an overflow,
\* and by xcan_chip_start when the restart timer fires.  The FIFO is emptied and the counter
\* may be cleared; can_clk runs on and ref_timepoint stays.
Reset ==
    /\ running /\ stops < MaxStops
    /\ stops' = stops + 1 /\ fifo' = << >>
    /\ clocked' \in {clocked, 0}
    /\ stale' \in {stale, stale \/ fifo # << >>}
    /\ cut' = (cut \/ ref # NoRef)
    /\ UNCHANGED <<now, freq, running, arrived, ref, refTick, slow>>

\* xcan_close, and later xcan_open: the clock stands still in between, and a reset may
\* clear the counter.  xcan_close waits for the poll.  ref_timepoint stays.
Close ==
    /\ running /\ ~stale /\ stops < MaxStops
    /\ running' = FALSE /\ stops' = stops + 1 /\ fifo' = << >>
    /\ cut' = (cut \/ ref # NoRef)
    /\ UNCHANGED <<now, freq, clocked, arrived, driver>>

Open ==
    /\ ~running
    /\ running' = TRUE
    /\ clocked' \in {clocked, 0}
    /\ UNCHANGED <<now, freq, fifo, arrived, stops, driver, cut>>

-----------------------------------------------------------------------------
Next == \/ Elapse \/ HwReceive \/ Reset \/ Close \/ Open
        \/ \E f \in {fifo[i] : i \in DOMAIN fifo} : Rx(f)
        \/ \E ts \in 0..(Period - 1) : RxNothing(ts)

Spec == Init /\ [][Next]_vars

-----------------------------------------------------------------------------
(* What a stamp is worth *)

\* It lies within half a period of the moment the frame is read, one tick of rounding apart.
NearNow(stamp) == /\ stamp >= now - (Half + 1) * cantime2ns_mul
                  /\ stamp < now + Half * cantime2ns_mul

\* It counts from the reference as the core did.
Exact(stamp, tick) == stamp = ref.ktime + (tick - refTick) * cantime2ns_mul
=============================================================================
