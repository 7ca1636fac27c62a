-------------------------- MODULE CanHwtstampProofs --------------------------
(***************************************************************************)
(* Theorems about the time stamps, from the driver to the program that     *)
(* prints them.  First the arithmetic of xcan_timestamp2ktime for every    *)
(* width of the counter (Half) and every factor: the extension of a stamp  *)
(* lies near now, and it is exact when the counter is within half a period *)
(* of where the driver takes it to be.  Then the invariant that carries    *)
(* this from the arrival of a frame to the line that is printed for it.    *)
(***************************************************************************)
EXTENDS CanHwtstamp, SequenceTheorems, TLAPS

-----------------------------------------------------------------------------
(* Arithmetic *)

\* A quotient by a positive number, as the multiple it is of it.
LEMMA QuotientBounds ==
    ASSUME NEW a \in Nat, NEW b \in Nat \ {0}
    PROVE  /\ a \div b \in Nat
           /\ b * (a \div b) =< a
           /\ a < b * (a \div b) + b
BY SMT

\* A remainder by the period, as what is left of the number.
LEMMA Remainder ==
    ASSUME NEW x \in Int
    PROVE  /\ x % Period \in 0..(Period - 1)
           /\ \E q \in Int : x = q * Period + (x % Period)
<1>1. Period \in Nat \ {0}
  BY TimestampAssumption DEF Period
<1> HIDE DEF Period
<1>2. x % Period \in 0..(Period - 1)
  BY <1>1, SMT
<1>3. x \div Period \in Int /\ x = (x \div Period) * Period + (x % Period)
  BY <1>1, SMT
<1> QED BY <1>2, <1>3

\* The factor the driver computes is positive.
LEMMA FactorPositive ==
    ASSUME freq \in Freqs
    PROVE  cantime2ns_mul \in Nat \ {0}
<1>1. freq \in Nat \ {0} /\ NsPerSec \in Nat /\ freq =< NsPerSec
  BY TimestampAssumption
<1>2. NsPerSec < freq * (NsPerSec \div freq) + freq /\ NsPerSec \div freq \in Nat
  BY <1>1, QuotientBounds
<1>3. NsPerSec \div freq # 0
  BY <1>1, <1>2, SMT
<1> QED BY <1>2, <1>3 DEF cantime2ns_mul

-----------------------------------------------------------------------------
(* The extension of a stamp *)

\* A signed 16 bit number is one, and differs from the number it was cut from by whole periods.
LEMMA SignedRange ==
    ASSUME NEW x \in Int
    PROVE  /\ Signed(x) \in Int
           /\ -Half =< Signed(x) /\ Signed(x) < Half
           /\ \E q \in Int : x = q * Period + Signed(x)
<1>1. Half \in Nat \ {0} /\ Period = 2 * Half /\ x + Half \in Int
  BY TimestampAssumption DEF Period
<1>2. /\ (x + Half) % Period \in 0..(Period - 1)
      /\ \E q \in Int : x + Half = q * Period + ((x + Half) % Period)
  BY <1>1, Remainder
<1> DEFINE m == (x + Half) % Period
<1>3. PICK q \in Int : x + Half = q * Period + m
  BY <1>2
<1>4. m \in 0..(Period - 1)
  BY <1>2
<1>5. Signed(x) = m - Half
  BY DEF Signed
<1> HIDE DEF m
<1>6. q * Period \in Int
  BY <1>1, SMT
<1>7. x = q * Period + (m - Half)
  BY <1>1, <1>3, <1>4, <1>6, SMT
<1> QED BY <1>1, <1>4, <1>5, <1>7, SMT

\* Numbers of less than half a period are not confused by whole periods.
LEMMA NearestUnique ==
    ASSUME NEW a \in Int, NEW b \in Int, NEW q \in Int,
           -Half =< a, a < Half, -Half =< b, b < Half,
           a = q * Period + b
    PROVE  a = b
<1>1. Half \in Nat \ {0} /\ Period = 2 * Half
  BY TimestampAssumption DEF Period
<1>2. CASE q = 0
  BY <1>1, <1>2, SMT
<1>3. CASE q >= 1
  <2>1. q * Period >= Period
    BY <1>1, <1>3, SMT
  <2> QED BY <1>1, <2>1, SMT
<1>4. CASE q =< -1
  <2>1. q * Period =< -Period
    BY <1>1, <1>4, SMT
  <2> QED BY <1>1, <2>1, SMT
<1> QED BY <1>2, <1>3, <1>4, SMT

\* The stamp a frame is given, with the adjustment named.
LEMMA StampForm ==
    ASSUME freq \in Freqs, NEW r, NEW ts \in Int, NEW t \in Nat,
           r.ktime \in Nat, r.ts \in Int, r.ktime =< t
    PROVE  /\ cantime2ns_mul \in Nat \ {0}
           /\ (t - r.ktime) \div cantime2ns_mul \in Nat
           /\ Cantime(r, t) \in Int
           /\ Adj(r, ts, t) \in Int
           /\ -Half =< Adj(r, ts, t) /\ Adj(r, ts, t) < Half
           /\ Timestamp2ktime(r, ts, t)
                 = r.ktime + ((t - r.ktime) \div cantime2ns_mul + Adj(r, ts, t)) * cantime2ns_mul
<1>1. cantime2ns_mul \in Nat \ {0}
  BY FactorPositive
<1>2. t - r.ktime \in Nat
  BY SMT
<1> DEFINE c == (t - r.ktime) \div cantime2ns_mul
<1>3. c \in Nat
  BY <1>1, <1>2, QuotientBounds
<1>4. Cantime(r, t) = c + r.ts /\ Cantime(r, t) \in Int
  BY <1>3 DEF Cantime
<1>5. Cantime(r, t) % Period \in Int
  BY <1>4, Remainder
<1>6. /\ Adj(r, ts, t) \in Int
      /\ -Half =< Adj(r, ts, t) /\ Adj(r, ts, t) < Half
  BY <1>5, SignedRange DEF Adj
<1> HIDE DEF c
<1>7. Cantime(r, t) + Adj(r, ts, t) - r.ts = c + Adj(r, ts, t)
  BY <1>3, <1>4, <1>6, SMT
<1>8. Timestamp2ktime(r, ts, t) = r.ktime + (c + Adj(r, ts, t)) * cantime2ns_mul
  BY <1>7 DEF Timestamp2ktime
<1> QED BY <1>1, <1>3, <1>4, <1>6, <1>8 DEF c

\* Whatever the stamp and the reference, the time lies within half a period of now.
LEMMA NearestToNow ==
    ASSUME freq \in Freqs, NEW r, NEW ts \in Int, now \in Nat,
           r.ktime \in Nat, r.ts \in Int, r.ktime =< now
    PROVE  NearNow(Timestamp2ktime(r, ts, now))
<1> DEFINE m == cantime2ns_mul
           D == now - r.ktime
           c == D \div m
           a == Adj(r, ts, now)
<1>1. /\ m \in Nat \ {0} /\ c \in Nat /\ a \in Int /\ -Half =< a /\ a < Half
      /\ Timestamp2ktime(r, ts, now) = r.ktime + (c + a) * m
  BY StampForm
<1>2. D \in Nat
  BY SMT
<1>3. m * c =< D /\ D < m * c + m
  BY <1>1, <1>2, QuotientBounds
<1>4. Half \in Nat
  BY TimestampAssumption
<1>5. now = r.ktime + D
  BY <1>2, SMT
<1> HIDE DEF m, D, c, a
<1>6. /\ (c + a) * m = m * c + a * m
      /\ (Half + 1) * m = Half * m + m
      /\ a * m \in Int /\ Half * m \in Int /\ m * c \in Int
  BY <1>1, <1>4, SMT
<1>7. a * m >= -(Half * m)
  BY <1>1, <1>4, SMT
<1>8. a * m =< Half * m - m
  <2>1. a =< Half - 1
    BY <1>1, <1>4, SMT
  <2>2. a * m =< (Half - 1) * m
    BY <1>1, <1>4, <2>1, SMT
  <2>3. (Half - 1) * m = Half * m - m
    BY <1>1, <1>4, SMT
  <2> QED BY <2>2, <2>3
<1>9. /\ r.ktime + (c + a) * m >= now - (Half + 1) * m
      /\ r.ktime + (c + a) * m < now + Half * m
  BY <1>1, <1>2, <1>3, <1>5, <1>6, <1>7, <1>8, SMT
<1> QED BY <1>1, <1>9 DEF NearNow, m

\* When the counter in full lies within half a period of where the driver takes it to be, the
\* extension finds it.
LEMMA NearestExact ==
    ASSUME freq \in Freqs, NEW r, NEW t \in Nat, NEW tick \in Int, NEW rtick \in Int,
           r.ktime \in Nat, r.ktime =< t, r.ts = rtick % Period,
           -Half =< tick - rtick - (t - r.ktime) \div cantime2ns_mul,
           tick - rtick - (t - r.ktime) \div cantime2ns_mul < Half
    PROVE  Timestamp2ktime(r, tick % Period, t) = r.ktime + (tick - rtick) * cantime2ns_mul
<1> DEFINE m == cantime2ns_mul
           c == (t - r.ktime) \div m
           a == Adj(r, tick % Period, t)
           y == tick - rtick - c
<1>1. r.ts \in Int /\ tick % Period \in Int
  BY Remainder
<1>2. /\ m \in Nat \ {0} /\ c \in Nat /\ a \in Int /\ -Half =< a /\ a < Half
      /\ Timestamp2ktime(r, tick % Period, t) = r.ktime + (c + a) * m
  BY <1>1, StampForm
<1>3. Cantime(r, t) = c + r.ts
  BY DEF Cantime
<1>4. c + r.ts \in Int
  BY <1>1, <1>2
<1>5. PICK q1 \in Int : tick = q1 * Period + (tick % Period)
  BY Remainder
<1>6. PICK q2 \in Int : c + r.ts = q2 * Period + ((c + r.ts) % Period)
  BY <1>4, Remainder
<1>7. PICK q3 \in Int : rtick = q3 * Period + (rtick % Period)
  BY Remainder
<1>8. (c + r.ts) % Period \in Int
  BY <1>4, Remainder
<1> DEFINE x == (tick % Period) - ((c + r.ts) % Period)
<1>9. x \in Int /\ a = Signed(x)
  BY <1>1, <1>3, <1>8 DEF Adj
<1>10. PICK q4 \in Int : x = q4 * Period + Signed(x)
  BY <1>9, SignedRange
<1>11. Period \in Int /\ Half \in Nat \ {0}
  BY TimestampAssumption DEF Period
<1>12. y \in Int /\ -Half =< y /\ y < Half
  BY <1>2
<1> DEFINE ts == tick % Period
           lsw == (c + r.ts) % Period
<1>13. /\ tick = q1 * Period + ts
       /\ c + r.ts = q2 * Period + lsw
       /\ rtick = q3 * Period + r.ts
       /\ ts - lsw = q4 * Period + a
       /\ y = tick - rtick - c
       /\ ts \in Int /\ lsw \in Int
  BY <1>1, <1>5, <1>6, <1>7, <1>8, <1>9, <1>10
<1> HIDE DEF m, c, a, y, x, ts, lsw
<1>14. /\ q1 * Period \in Int /\ q2 * Period \in Int /\ q3 * Period \in Int /\ q4 * Period \in Int
       /\ (q1 - q2 - q3 + q4) * Period = q1 * Period - q2 * Period - q3 * Period + q4 * Period
  BY <1>11, SMT
<1>15. y = (q1 - q2 - q3 + q4) * Period + a
  BY <1>1, <1>2, <1>12, <1>13, <1>14, SMT
<1>16. y = a
  <2>1. q1 - q2 - q3 + q4 \in Int
    OBVIOUS
  <2> QED BY <1>2, <1>12, <1>15, <2>1, NearestUnique
<1>17. c + a = tick - rtick
  <2>1. a = tick - rtick - c
    BY <1>13, <1>16
  <2>2. c \in Int /\ a \in Int
    BY <1>2
  <2> QED BY <2>1, <2>2, SMT
<1> QED BY <1>2, <1>17 DEF m

-----------------------------------------------------------------------------
(* The counter, when its frequency divides 10^9 *)

Divides == NsPerSec % freq = 0

\* The counter at time t of a clock that has run since o.
CounterAt(o, t) == ((t - o) * freq) \div NsPerSec

\* When the frequency divides 10^9, the factor is not truncated.
LEMMA FactorDivides ==
    ASSUME freq \in Freqs, Divides
    PROVE  NsPerSec = freq * cantime2ns_mul
<1>1. freq \in Nat \ {0} /\ NsPerSec \in Nat
  BY TimestampAssumption
<1>2. NsPerSec = freq * (NsPerSec \div freq) + (NsPerSec % freq)
  BY <1>1, SMT
<1>3. NsPerSec \div freq \in Nat
  BY <1>1, QuotientBounds
<1> QED BY <1>1, <1>2, <1>3 DEF Divides, cantime2ns_mul

\* A tick is cantime2ns_mul nanoseconds.
LEMMA TickLength ==
    ASSUME freq \in Freqs, Divides, NEW x \in Nat
    PROVE  /\ (x * freq) \div NsPerSec \in Nat
           /\ cantime2ns_mul * ((x * freq) \div NsPerSec) =< x
           /\ x < cantime2ns_mul * ((x * freq) \div NsPerSec) + cantime2ns_mul
<1> DEFINE m == cantime2ns_mul
           k == (x * freq) \div NsPerSec
<1>1. freq \in Nat \ {0} /\ NsPerSec \in Nat \ {0} /\ m \in Nat \ {0}
  BY TimestampAssumption, FactorPositive
<1>2. NsPerSec = freq * m
  BY FactorDivides
<1>3. x * freq \in Nat
  BY <1>1, SMT
<1>4. k \in Nat /\ NsPerSec * k =< x * freq /\ x * freq < NsPerSec * k + NsPerSec
  BY <1>1, <1>3, QuotientBounds
<1> HIDE DEF m, k
<1>5. m * k \in Nat
  BY <1>1, <1>4, SMT
<1>6. NsPerSec * k = freq * (m * k) /\ freq * (m * k + m) = freq * (m * k) + freq * m
  BY <1>1, <1>2, <1>4, SMT
<1>7. freq * (m * k) =< freq * x /\ freq * x < freq * (m * k + m)
  BY <1>1, <1>2, <1>4, <1>6, SMT
<1>8. m * k =< x
  <2> SUFFICES ASSUME m * k >= x + 1 PROVE FALSE
    BY <1>5, SMT
  <2>1. freq * (m * k) >= freq * (x + 1) /\ freq * (x + 1) = freq * x + freq
    BY <1>1, <1>5, SMT
  <2> QED BY <1>1, <1>5, <1>7, <2>1, SMT
<1>9. x < m * k + m
  <2> SUFFICES ASSUME x >= m * k + m PROVE FALSE
    BY <1>1, <1>5, SMT
  <2>1. freq * x >= freq * (m * k + m)
    BY <1>1, <1>5, SMT
  <2> QED BY <1>1, <1>5, <1>7, <2>1, SMT
<1> QED BY <1>4, <1>8, <1>9 DEF m, k

\* Frames that are read within the tolerance leave the counter within half a period of where
\* the driver takes it to be.
LEMMA InTime ==
    ASSUME freq \in Freqs, Divides,
           NEW o \in Int, NEW a \in Nat, NEW b \in Nat, NEW k \in Nat, NEW t \in Nat,
           o =< a, a =< k, k =< t, o =< b, b =< t,
           k - a =< Tolerance, t - b =< Tolerance
    PROVE  /\ CounterAt(o, a) \in Nat /\ CounterAt(o, b) \in Nat
           /\ -Half =< CounterAt(o, b) - CounterAt(o, a) - (t - k) \div cantime2ns_mul
           /\ CounterAt(o, b) - CounterAt(o, a) - (t - k) \div cantime2ns_mul < Half
<1> DEFINE m == cantime2ns_mul
           A == CounterAt(o, a)
           B == CounterAt(o, b)
           c == (t - k) \div m
           y == B - A - c
<1>1. m \in Nat \ {0} /\ Half \in Nat \ {0}
  BY FactorPositive, TimestampAssumption
<1>2. a - o \in Nat /\ b - o \in Nat /\ t - k \in Nat
  BY SMT
<1>3. A \in Nat /\ m * A =< a - o /\ a - o < m * A + m
  BY <1>2, TickLength DEF CounterAt
<1>4. B \in Nat /\ m * B =< b - o /\ b - o < m * B + m
  BY <1>2, TickLength DEF CounterAt
<1>5. c \in Nat /\ m * c =< t - k /\ t - k < m * c + m
  BY <1>1, <1>2, QuotientBounds
<1>6. Tolerance = (Half - 2) * m
  BY DEF Tolerance
<1>7. y = B - A - c
  OBVIOUS
<1>8. k - a =< (Half - 2) * m /\ t - b =< (Half - 2) * m
  BY <1>6
<1> HIDE DEF m, A, B, c, y
<1>9. /\ (Half - 2) * m = m * Half - 2 * m /\ m * Half \in Int
      /\ m * y = m * B - m * A - m * c
      /\ m * A \in Int /\ m * B \in Int /\ m * c \in Int /\ y \in Int
  BY <1>1, <1>3, <1>4, <1>5, <1>7, SMT
<1>10. m * y < m * Half /\ m * y > m - m * Half
  BY <1>1, <1>3, <1>4, <1>5, <1>8, <1>9, SMT
<1>11. y < Half
  <2> SUFFICES ASSUME y >= Half PROVE FALSE
    BY <1>1, <1>9, SMT
  <2>1. m * y >= m * Half
    BY <1>1, <1>9, SMT
  <2> QED BY <1>9, <1>10, <2>1, SMT
<1>12. y >= -Half
  <2> SUFFICES ASSUME y < -Half PROVE FALSE
    BY <1>1, <1>9, SMT
  <2>1. m * y =< m * (-Half) /\ m * (-Half) = -(m * Half)
    BY <1>1, <1>9, SMT
  <2> QED BY <1>1, <1>9, <1>10, <2>1, SMT
<1> QED BY <1>3, <1>4, <1>11, <1>12 DEF A, B, c, y, m

-----------------------------------------------------------------------------
(* The inductive invariant *)

\* When can_clk would have been started, had it run since without a stop.
Origin == now - clocked

\* The reference is no later than now, and it is known by its time.
Clocks == now >= 1 /\ ref.ktime =< now /\ (ref.ktime = 0 => ref = NoRef)

\* The frames in the FIFO have come in since the clock was started, and carry its counter.
Waiting ==
    /\ ~running => fifo = << >>
    /\ \A i \in DOMAIN fifo : /\ Origin =< fifo[i].at /\ fifo[i].at =< now
                              /\ fifo[i].tick = CounterAt(Origin, fifo[i].at)

\* The reference belongs to a frame that came in on this clock and was read in time.
RefKnown ==
    ref # NoRef /\ ~cut =>
        /\ running /\ ref.ts = refTick % Period
        /\ \E a \in Nat : /\ Origin =< a /\ a =< ref.ktime
                          /\ refTick = CounterAt(Origin, a)
                          /\ ~slow => ref.ktime - a =< Tolerance

\* Every frame that was stamped is stamped exactly.
AllExact ==
    /\ ref = NoRef => queue = << >> /\ shown = NoFrame
    /\ Divides /\ ~slow /\ ~cut /\ ref # NoRef =>
          /\ \A i \in DOMAIN queue : Exact(queue[i].hw, queue[i].tick)
          /\ shown # NoFrame => Exact(shown.hw, shown.tick)

\* The program receives when there is something to receive.
Ready == apc = "recv" => queue # << >> \/ error

IInv == TypeOK /\ Ready /\ Clocks /\ Waiting /\ RefKnown /\ AllExact

-----------------------------------------------------------------------------
(* The steps *)

\* The invariant holds when the driver has been loaded.
LEMMA InitInv == AppInit => IInv
<1> SUFFICES ASSUME AppInit PROVE IInv
  OBVIOUS
<1> USE DEF AppInit, Init
<1>1. TypeOK
  <2>1. /\ fifo \in Seq(Frame) /\ queue \in Seq(Stamped)
        /\ Len(fifo) = 0 /\ Len(queue) = 0
    BY EmptySeq
  <2>2. ref \in [ktime : Nat, ts : 0..(Period - 1)]
    BY TimestampAssumption, SMT DEF NoRef, Period
  <2>3. shown \in Stamped
    BY DEF NoFrame, Stamped
  <2>4. granted \in [tx : {"off", "refused"}, rx : {"none", "all", "refused"}]
    BY DEF Refused
  <2>5. /\ Len(fifo) =< RxDepth /\ Len(queue) =< SockMax
        /\ now \in Nat /\ freq \in Freqs /\ clocked \in 0..now
        /\ arrived \in Nat /\ stops \in Nat /\ refTick \in Nat
    BY <2>1, TimestampAssumption, SocketAssumption, SMT
  <2>6. /\ running \in BOOLEAN /\ slow \in BOOLEAN /\ cut \in BOOLEAN
        /\ error \in BOOLEAN /\ stale \in BOOLEAN
        /\ apc \in {"start", "loop", "recv", "exit"} /\ opts \subseteq Options
    BY Zenon
  <2> QED BY <2>1, <2>2, <2>3, <2>4, <2>5, <2>6, Zenon DEF TypeOK
<1>2. Ready
  BY DEF Ready
<1>3. Clocks
  BY DEF Clocks, NoRef
<1>4. Waiting
  BY EmptySeq DEF Waiting
<1>5. RefKnown
  BY DEF RefKnown
<1>6. AllExact
  BY DEF AllExact
<1> QED BY <1>1, <1>2, <1>3, <1>4, <1>5, <1>6 DEF IInv

\* Time passes: while the clock runs, its origin stands still.
LEMMA ElapseInv == IInv /\ Elapse /\ UNCHANGED app => IInv'
<1> SUFFICES ASSUME IInv, Elapse, UNCHANGED app PROVE IInv'
  OBVIOUS
<1>1. /\ now' = now + 1
      /\ UNCHANGED <<freq, running, fifo, arrived, stops, ref, refTick, slow, stale, cut>>
      /\ UNCHANGED <<apc, opts, granted, queue, error, shown>>
  BY DEF Elapse, driver, app
<1>2. TypeOK /\ now \in Nat /\ clocked \in 0..now
  BY DEF IInv, TypeOK
<1>3. clocked' \in 0..now'
  BY <1>1, <1>2 DEF Elapse
<1>4. TypeOK'
  BY <1>1, <1>2, <1>3 DEF TypeOK, Period
<1>5. Ready'
  BY <1>1, Zenon DEF IInv, Ready
<1>6. Clocks'
  <2>1. Clocks /\ ref.ktime \in Nat
    BY <1>2 DEF IInv, TypeOK
  <2> QED BY <1>1, <1>2, <2>1 DEF Clocks, NoRef
<1>7. running => Origin' = Origin
  BY <1>1, <1>2 DEF Elapse, Origin
<1>8. Waiting'
  <2>1. Waiting /\ fifo \in Seq(Frame)
    BY <1>2 DEF IInv, TypeOK
  <2>2. ~running' => fifo' = << >>
    BY <1>1, <2>1, Zenon DEF Waiting
  <2>3. ASSUME NEW i \in DOMAIN fifo'
        PROVE  /\ Origin' =< fifo'[i].at /\ fifo'[i].at =< now'
               /\ fifo'[i].tick = CounterAt(Origin, fifo[i].at)'
    <3>1. i \in DOMAIN fifo /\ i \in 1..Len(fifo)
      BY <1>1, <2>1, <2>3, LenProperties
    <3>2. running
      BY <2>1, <3>1, EmptySeq DEF Waiting
    <3>3. /\ Origin =< fifo[i].at /\ fifo[i].at =< now
          /\ fifo[i].tick = CounterAt(Origin, fifo[i].at)
      BY <2>1, <3>1 DEF Waiting
    <3>4. fifo[i].at \in Nat
      <4>1. fifo[i] \in Frame
        BY <2>1, <3>1, ElementOfSeq
      <4> QED BY <4>1 DEF Frame
    <3> QED BY <1>1, <1>2, <1>7, <3>2, <3>3, <3>4 DEF CounterAt
  <2> QED BY <2>2, <2>3 DEF Waiting
<1>9. RefKnown'
  <2>1. RefKnown
    BY DEF IInv
  <2>2. CASE running
    BY <1>1, <1>7, <2>1, <2>2 DEF RefKnown, CounterAt, Tolerance, cantime2ns_mul, NoRef, Period
  <2>3. CASE ~running
    BY <1>1, <2>1, <2>3, Zenon DEF RefKnown, NoRef
  <2> QED BY <2>2, <2>3
<1>10. AllExact'
  <2>1. AllExact
    BY DEF IInv
  <2> QED BY <1>1, <2>1 DEF AllExact, Exact, Divides, cantime2ns_mul, NoRef, NoFrame
<1> QED BY <1>4, <1>5, <1>6, <1>8, <1>9, <1>10 DEF IInv

\* A frame comes in and takes the counter with it.
LEMMA HwReceiveInv == IInv /\ HwReceive /\ UNCHANGED app => IInv'
<1> SUFFICES ASSUME IInv, HwReceive, UNCHANGED app PROVE IInv'
  OBVIOUS
<1> DEFINE e == [id |-> arrived + 1, at |-> now, tick |-> Counter]
<1>1. /\ running /\ Len(fifo) < RxDepth
      /\ arrived' = arrived + 1 /\ fifo' = Append(fifo, e)
      /\ UNCHANGED <<now, freq, running, clocked, stops, ref, refTick, slow, stale, cut>>
      /\ UNCHANGED <<apc, opts, granted, queue, error, shown>>
  BY DEF HwReceive, driver, app
<1>2. /\ TypeOK /\ now \in Nat /\ clocked \in 0..now /\ freq \in Freqs
      /\ fifo \in Seq(Frame) /\ arrived \in Nat
  BY DEF IInv, TypeOK
<1>3. Counter \in Nat
  <2>1. freq \in Nat /\ clocked \in Nat /\ NsPerSec \in Nat \ {0}
    BY <1>2, TimestampAssumption
  <2>2. clocked * freq \in Nat
    BY <2>1, SMT
  <2> QED BY <2>1, <2>2, QuotientBounds DEF Counter
<1>4. e \in Frame
  BY <1>2, <1>3 DEF Frame
<1> HIDE DEF e
<1>5. /\ fifo' \in Seq(Frame) /\ Len(fifo') = Len(fifo) + 1
      /\ \A i \in 1..Len(fifo) : fifo'[i] = fifo[i]
      /\ fifo'[Len(fifo) + 1] = e
      /\ Len(fifo) \in Nat /\ DOMAIN fifo = 1..Len(fifo) /\ DOMAIN fifo' = 1..Len(fifo')
  BY <1>1, <1>2, <1>4, AppendProperties, LenProperties
<1>6. Len(fifo') =< RxDepth /\ arrived' \in Nat
  BY <1>1, <1>2, <1>5, TimestampAssumption, SMT
<1>7. TypeOK'
  BY <1>1, <1>2, <1>5, <1>6 DEF TypeOK, Period
<1>8. Ready'
  BY <1>1, Zenon DEF IInv, Ready
<1>9. Clocks'
  BY <1>1 DEF IInv, Clocks, NoRef
<1>10. Waiting'
  <2>1. Waiting
    BY DEF IInv
  <2>2. e.at = now /\ e.tick = Counter
    BY DEF e
  <2>3. Origin =< now /\ CounterAt(Origin, now) = Counter
    <3>1. Origin =< now /\ now - Origin = clocked
      BY <1>2, SMT DEF Origin
    <3> QED BY <3>1 DEF CounterAt, Counter
  <2>4. ASSUME NEW i \in DOMAIN fifo'
        PROVE  /\ Origin =< fifo'[i].at /\ fifo'[i].at =< now
               /\ fifo'[i].tick = CounterAt(Origin, fifo'[i].at)
    <3>1. CASE i = Len(fifo) + 1
      BY <1>2, <1>5, <2>2, <2>3, <3>1
    <3>2. CASE i # Len(fifo) + 1
      <4>1. i \in 1..Len(fifo)
        BY <1>5, <2>4, <3>2
      <4> QED BY <1>5, <2>1, <4>1 DEF Waiting
    <3> QED BY <3>1, <3>2
  <2>5. Origin' = Origin /\ now' = now /\ freq' = freq
    BY <1>1 DEF Origin
  <2> QED BY <1>1, <2>4, <2>5 DEF Waiting, CounterAt
<1>11. RefKnown'
  BY <1>1 DEF IInv, RefKnown, CounterAt, Tolerance, cantime2ns_mul, NoRef, Period, Origin
<1>12. AllExact'
  BY <1>1 DEF IInv, AllExact, Exact, Divides, cantime2ns_mul, NoRef, NoFrame
<1> QED BY <1>7, <1>8, <1>9, <1>10, <1>11, <1>12 DEF IInv

\* The interface comes up, and no frame waits then.
LEMMA OpenInv == IInv /\ Open /\ UNCHANGED app => IInv'
<1> SUFFICES ASSUME IInv, Open, UNCHANGED app PROVE IInv'
  OBVIOUS
<1>1. /\ ~running /\ running' = TRUE /\ clocked' \in {clocked, 0}
      /\ UNCHANGED <<now, freq, fifo, arrived, stops, ref, refTick, slow, stale, cut>>
      /\ UNCHANGED <<apc, opts, granted, queue, error, shown>>
  BY DEF Open, driver, app
<1>2. TypeOK /\ Waiting /\ RefKnown
  BY DEF IInv
<1>3. clocked' \in 0..now'
  BY <1>1, <1>2 DEF TypeOK
<1>4. running' \in BOOLEAN
  BY <1>1, Zenon
<1>5. TypeOK'
  BY <1>1, <1>2, <1>3, <1>4 DEF TypeOK, Period
<1>6. Ready'
  BY <1>1, Zenon DEF IInv, Ready
<1>7. Clocks'
  BY <1>1 DEF IInv, Clocks, NoRef
<1>8. Waiting'
  <2>1. fifo' = << >> /\ DOMAIN fifo' = {}
    BY <1>1, <1>2 DEF Waiting
  <2> QED BY <1>1, <2>1, Zenon DEF Waiting
<1>9. RefKnown'
  BY <1>1, <1>2, Zenon DEF RefKnown, NoRef
<1>10. AllExact'
  BY <1>1 DEF IInv, AllExact, Exact, Divides, cantime2ns_mul, NoRef, NoFrame
<1> QED BY <1>5, <1>6, <1>7, <1>8, <1>9, <1>10 DEF IInv

\* The core is reset: the FIFO is emptied, and a reference that was taken is cut off.
LEMMA ResetInv == IInv /\ Reset /\ UNCHANGED app => IInv'
<1> SUFFICES ASSUME IInv, Reset, UNCHANGED app PROVE IInv'
  OBVIOUS
<1>1. /\ stops' = stops + 1 /\ fifo' = << >> /\ clocked' \in {clocked, 0} /\ running
      /\ UNCHANGED <<now, freq, running, arrived, ref, refTick, slow>>
      /\ UNCHANGED <<apc, opts, granted, queue, error, shown>>
  BY DEF Reset, driver, app
<1>2. cut' = (cut \/ ref # NoRef)
  BY DEF Reset
<1>3. TypeOK
  BY DEF IInv
<1>4. cut' \in BOOLEAN /\ stale' \in BOOLEAN
  <2>1. stale \in BOOLEAN
    BY <1>3, Zenon DEF TypeOK
  <2>2. stale' = stale \/ stale' = (stale \/ fifo # << >>)
    BY Zenon DEF Reset
  <2> QED BY <1>2, <2>1, <2>2, Zenon
<1>5. fifo' \in Seq(Frame) /\ Len(fifo') =< RxDepth /\ stops' \in Nat /\ DOMAIN fifo' = {}
  BY <1>1, <1>3, TimestampAssumption DEF TypeOK
<1>6. clocked' \in 0..now'
  BY <1>1, <1>3 DEF TypeOK
<1>7. TypeOK'
  BY <1>1, <1>3, <1>4, <1>5, <1>6 DEF TypeOK, Period
<1>8. Ready'
  BY <1>1, Zenon DEF IInv, Ready
<1>9. Clocks'
  BY <1>1 DEF IInv, Clocks, NoRef
<1>10. Waiting'
  BY <1>1, <1>5, Zenon DEF Waiting
<1>11. ref' = NoRef' \/ cut'
  BY <1>1, <1>2, Zenon DEF NoRef
<1>12. RefKnown'
  BY <1>11, Zenon DEF RefKnown
<1>13. AllExact'
  <2>1. ref' = NoRef' => queue' = << >> /\ shown' = NoFrame'
    BY <1>1, Zenon DEF IInv, AllExact, NoRef, NoFrame
  <2> QED BY <1>11, <2>1, Zenon DEF AllExact
<1> QED BY <1>7, <1>8, <1>9, <1>10, <1>12, <1>13 DEF IInv

\* The interface goes down: the FIFO is emptied, and a reference that was taken is cut off.
LEMMA DownInv == IInv /\ Down => IInv'
<1> SUFFICES ASSUME IInv, Down PROVE IInv'
  OBVIOUS
<1>1. /\ running' = FALSE /\ stops' = stops + 1 /\ fifo' = << >>
      /\ UNCHANGED <<now, freq, clocked, arrived, ref, refTick, slow, stale>>
      /\ UNCHANGED <<apc, opts, granted, queue, shown>>
  BY DEF Down, Close, driver
<1>2. cut' = (cut \/ ref # NoRef) /\ error' = Bound
  BY DEF Down, Close
<1>3. TypeOK
  BY DEF IInv
<1>4. running' \in BOOLEAN /\ cut' \in BOOLEAN /\ error' \in BOOLEAN
  <2>1. running' \in BOOLEAN
    BY <1>1
  <2>2. cut' \in BOOLEAN
    BY <1>2, Zenon
  <2>3. error' \in BOOLEAN
    BY <1>2 DEF Bound
  <2> QED BY <2>1, <2>2, <2>3
<1>5. fifo' \in Seq(Frame) /\ Len(fifo') =< RxDepth /\ stops' \in Nat /\ DOMAIN fifo' = {}
  BY <1>1, <1>3, TimestampAssumption DEF TypeOK
<1>6. TypeOK'
  BY <1>1, <1>3, <1>4, <1>5 DEF TypeOK, Period
<1>7. Ready'
  BY <1>1, <1>2, Zenon DEF Ready, Bound
<1>8. Clocks'
  BY <1>1 DEF IInv, Clocks, NoRef
<1>9. Waiting'
  BY <1>1, <1>5, Zenon DEF Waiting
<1>10. ref' = NoRef' \/ cut'
  BY <1>1, <1>2, Zenon DEF NoRef
<1>11. RefKnown'
  BY <1>10, Zenon DEF RefKnown
<1>12. AllExact'
  <2>1. ref' = NoRef' => queue' = << >> /\ shown' = NoFrame'
    BY <1>1, Zenon DEF IInv, AllExact, NoRef, NoFrame
  <2> QED BY <1>10, <2>1, Zenon DEF AllExact
<1> QED BY <1>6, <1>7, <1>8, <1>9, <1>11, <1>12 DEF IInv

\* What the program does before it receives leaves the driver and the frames alone.
LEMMA AppInv == IInv /\ (Setup \/ SetupFails \/ Select \/ RecvError) => IInv'
<1> SUFFICES ASSUME IInv, Setup \/ SetupFails \/ Select \/ RecvError PROVE IInv'
  OBVIOUS
<1> USE DEF Setup, SetupFails, Select, RecvError
<1>1. UNCHANGED <<now, freq, running, clocked, fifo, arrived, stops, ref, refTick, slow, stale,
                  cut, queue, shown>>
  BY DEF vars, core, driver
<1>2. TypeOK /\ Ready
  BY DEF IInv
<1>3. apc' \in {"start", "loop", "recv", "exit"} /\ error' \in BOOLEAN
  BY <1>2, Zenon DEF TypeOK
<1>4. /\ opts' \subseteq Options
      /\ granted' \in [tx : {"off", "refused"}, rx : {"none", "all", "refused"}]
  <2>1. CASE Setup
    <3>1. opts' \subseteq Options
      BY <2>1
    <3>2. granted' = HwtstampSet(Request(opts')) /\ granted' # Refused
      BY <2>1
    <3>3. granted' \in [tx : {"off", "refused"}, rx : {"none", "all", "refused"}]
      <4>1. PICK t \in {"on", "off"}, r \in {"v1_sync", "none"} :
                Request(opts') = [tx |-> t, rx |-> r]
        BY DEF Request
      <4>2. CASE t = "on"
        BY <3>2, <4>1, <4>2 DEF HwtstampSet, Refused
      <4>3. CASE t = "off" /\ r = "none"
        BY <3>2, <4>1, <4>3 DEF HwtstampSet, Refused
      <4>4. CASE t = "off" /\ r = "v1_sync"
        BY <3>2, <4>1, <4>4 DEF HwtstampSet, Refused
      <4> QED BY <4>2, <4>3, <4>4
    <3> QED BY <3>1, <3>3
  <2>2. CASE SetupFails \/ Select \/ RecvError
    BY <1>2, <2>2 DEF TypeOK
  <2> QED BY <2>1, <2>2
<1>5. TypeOK'
  BY <1>1, <1>2, <1>3, <1>4 DEF TypeOK, Period
<1>6. Ready'
  BY <1>1, <1>2 DEF Ready
<1> HIDE DEF Setup, SetupFails, Select, RecvError
<1>7. Clocks'
  BY <1>1 DEF IInv, Clocks, NoRef
<1>8. Waiting'
  BY <1>1 DEF IInv, Waiting, CounterAt, Origin
<1>9. RefKnown'
  BY <1>1 DEF IInv, RefKnown, CounterAt, Tolerance, cantime2ns_mul, NoRef, Period, Origin
<1>10. AllExact'
  BY <1>1 DEF IInv, AllExact, Exact, Divides, cantime2ns_mul, NoRef, NoFrame
<1> QED BY <1>5, <1>6, <1>7, <1>8, <1>9, <1>10 DEF IInv

\* The program prints the frame that has waited longest.
LEMMA RecvFrameInv == IInv /\ RecvFrame => IInv'
<1> SUFFICES ASSUME IInv, RecvFrame PROVE IInv'
  OBVIOUS
<1>1. /\ apc = "recv" /\ ~error /\ apc' = "loop"
      /\ queue' = Tail(queue) /\ shown' = Head(queue)
      /\ UNCHANGED <<now, freq, running, clocked, fifo, arrived, stops, ref, refTick, slow,
                    stale, cut>>
      /\ UNCHANGED <<opts, granted, error>>
  BY DEF RecvFrame, vars, core, driver
<1>2. TypeOK /\ queue \in Seq(Stamped) /\ Len(queue) =< SockMax
  BY DEF IInv, TypeOK
<1>3. queue # << >>
  BY <1>1, Zenon DEF IInv, Ready
<1>4. /\ Head(queue) \in Stamped /\ queue' \in Seq(Stamped)
      /\ Len(queue') = Len(queue) - 1
      /\ \A i \in 1..Len(queue') : queue'[i] = queue[i + 1]
      /\ Len(queue) \in Nat /\ DOMAIN queue = 1..Len(queue) /\ DOMAIN queue' = 1..Len(queue')
      /\ Head(queue) = queue[1]
  BY <1>1, <1>2, <1>3, HeadTailProperties, LenProperties
<1>5. Len(queue') =< SockMax /\ 1 \in DOMAIN queue
  BY <1>2, <1>3, <1>4, EmptySeq, SocketAssumption
<1>6. TypeOK'
  <2>1. apc' \in {"start", "loop", "recv", "exit"} /\ error' \in BOOLEAN /\ shown' \in Stamped
    BY <1>1, <1>2, <1>4 DEF TypeOK
  <2> QED BY <1>1, <1>2, <1>4, <1>5, <2>1 DEF TypeOK, Period
<1>7. Ready'
  BY <1>1 DEF Ready
<1>8. Clocks'
  BY <1>1 DEF IInv, Clocks, NoRef
<1>9. Waiting'
  BY <1>1 DEF IInv, Waiting, CounterAt, Origin
<1>10. RefKnown'
  BY <1>1 DEF IInv, RefKnown, CounterAt, Tolerance, cantime2ns_mul, NoRef, Period, Origin
<1>11. AllExact'
  <2>1. ref # NoRef
    BY <1>3, Zenon DEF IInv, AllExact
  <2>2. ASSUME Divides', ~slow', ~cut'
        PROVE  /\ \A i \in DOMAIN queue' : Exact(queue'[i].hw, queue'[i].tick)
               /\ Exact(shown'.hw, shown'.tick)
    <3>1. \A i \in DOMAIN queue : Exact(queue[i].hw, queue[i].tick)
      BY <1>1, <2>1, <2>2 DEF IInv, AllExact, Divides
    <3>2. \A i \in DOMAIN queue' : queue'[i] = queue[i + 1] /\ i + 1 \in DOMAIN queue
      BY <1>4
    <3> QED BY <1>1, <1>4, <1>5, <3>1, <3>2
  <2>3. ref' # NoRef'
    BY <1>1, <2>1 DEF NoRef
  <2> QED BY <1>1, <2>2, <2>3 DEF AllExact, Exact, cantime2ns_mul
<1> QED BY <1>6, <1>7, <1>8, <1>9, <1>10, <1>11 DEF IInv

\* What xcan_rx takes for the reference is a time that has been, and never 0.
LEMMA ReferenceFits ==
    ASSUME TypeOK, Clocks, NEW ts \in 0..(Period - 1)
    PROVE  /\ Reference(ts, now) \in [ktime : Nat, ts : 0..(Period - 1)]
           /\ Reference(ts, now).ktime =< now /\ Reference(ts, now).ktime # 0
BY SMT DEF TypeOK, Clocks, Reference

\* A frame is read, given its time, and queued.
LEMMA ReceiveInv ==
    ASSUME IInv, NEW f, Receive(f)
    PROVE  IInv'
<1>0. f = Head(fifo)
  BY DEF Receive, Rx
<1> DEFINE R == Reference(f.tick % Period, now)
           s == [id |-> f.id, tick |-> f.tick, hw |-> Stamp(f)]
<1>1. /\ running /\ fifo # << >> /\ fifo' = Tail(fifo) /\ ref' = R
      /\ refTick' = IF ref = NoRef THEN f.tick ELSE refTick
      /\ UNCHANGED <<now, freq, running, clocked, arrived, stops, cut>>
      /\ stale' = FALSE /\ UNCHANGED <<apc, opts, granted, error, shown>>
  BY DEF Receive, Rx, Deliver
<1>2. slow' = (slow \/ now - f.at > Tolerance)
  BY DEF Receive, Rx
<1>3. queue' = queue \/ (Len(queue) < SockMax /\ queue' = Append(queue, s))
  BY DEF Receive, Deliver
<1>4. /\ TypeOK /\ Clocks /\ Waiting /\ RefKnown /\ AllExact /\ Ready
      /\ now \in Nat /\ clocked \in 0..now /\ freq \in Freqs /\ refTick \in Nat
      /\ fifo \in Seq(Frame) /\ Len(fifo) =< RxDepth
      /\ queue \in Seq(Stamped) /\ Len(queue) =< SockMax
      /\ Half \in Nat \ {0} /\ SockMax \in Nat /\ RxDepth \in Nat
  BY TimestampAssumption, SocketAssumption DEF IInv, TypeOK
<1>5. /\ f \in Frame /\ f = fifo[1] /\ 1 \in DOMAIN fifo
      /\ fifo' \in Seq(Frame) /\ Len(fifo') = Len(fifo) - 1 /\ Len(fifo) \in Nat
      /\ DOMAIN fifo = 1..Len(fifo) /\ DOMAIN fifo' = 1..Len(fifo')
      /\ \A i \in 1..Len(fifo') : fifo'[i] = fifo[i + 1]
  BY <1>0, <1>1, <1>4, HeadTailProperties, LenProperties, EmptySeq
<1>6. f.id \in Nat /\ f.at \in Nat /\ f.tick \in Nat
  BY <1>5 DEF Frame
<1>7. f.tick % Period \in 0..(Period - 1)
  BY <1>6, Remainder
<1>8. /\ R \in [ktime : Nat, ts : 0..(Period - 1)] /\ R.ktime \in Nat /\ R.ts \in Int
      /\ R.ktime =< now /\ R.ktime # 0
  <2>1. /\ R \in [ktime : Nat, ts : 0..(Period - 1)]
        /\ R.ktime =< now /\ R.ktime # 0
    BY <1>4, <1>7, ReferenceFits
  <2> HIDE DEF R
  <2> QED BY <2>1
<1>9. ref' # NoRef'
  <2> HIDE DEF R
  <2> QED BY <1>1, <1>8 DEF NoRef
<1>10. Stamp(f) = Timestamp2ktime(R, f.tick % Period, now)
  BY DEF Stamp
<1>11. s \in Stamped
  <2>1. /\ cantime2ns_mul \in Nat \ {0}
        /\ (now - R.ktime) \div cantime2ns_mul \in Nat
        /\ Adj(R, f.tick % Period, now) \in Int
        /\ Timestamp2ktime(R, f.tick % Period, now) = R.ktime +
             ((now - R.ktime) \div cantime2ns_mul + Adj(R, f.tick % Period, now)) * cantime2ns_mul
    <3> HIDE DEF R
    <3>1. f.tick % Period \in Int /\ now \in Nat /\ freq \in Freqs
      BY <1>4, <1>7
    <3>2. R.ktime \in Nat /\ R.ts \in Int /\ R.ktime =< now
      BY <1>8
    <3> QED BY <3>1, <3>2, StampForm, Zenon
  <2> HIDE DEF R
  <2> DEFINE k == (now - R.ktime) \div cantime2ns_mul
             b == Adj(R, f.tick % Period, now)
             m == cantime2ns_mul
  <2>2. Timestamp2ktime(R, f.tick % Period, now) = R.ktime + (k + b) * m
    BY <2>1
  <2>3. k \in Nat /\ b \in Int /\ m \in Nat
    BY <2>1
  <2> HIDE DEF k, b, m
  <2>4. R.ktime + (k + b) * m \in Int
    BY <1>8, <2>3, SMT
  <2> QED BY <1>6, <1>10, <2>2, <2>4 DEF Stamped
<1>12. f.at =< now /\ Origin =< f.at /\ f.tick = CounterAt(Origin, f.at) /\ Origin \in Int
  BY <1>4, <1>5 DEF Waiting, Origin
<1> HIDE DEF R, s
<1>13. refTick' \in Nat
  BY <1>1, <1>4, <1>6
<1>14. queue' \in Seq(Stamped) /\ Len(queue') =< SockMax
  BY <1>3, <1>4, <1>11, AppendProperties, LenProperties
<1>15. slow' \in BOOLEAN /\ stale' \in BOOLEAN
  BY <1>1, <1>2, Zenon
<1>16. TypeOK'
  <2>1. ref' \in [ktime : Nat, ts : 0..(Period - 1)] /\ Len(fifo') =< RxDepth
    BY <1>1, <1>4, <1>5, <1>8
  <2> QED BY <1>1, <1>4, <1>5, <1>13, <1>14, <1>15, <2>1 DEF TypeOK, Period
<1>17. Ready'
  <2>1. queue # << >> => queue' # << >>
    BY <1>3, <1>4, <1>11, AppendProperties
  <2> QED BY <1>1, <1>4, <2>1, Zenon DEF Ready
<1>18. Clocks'
  BY <1>1, <1>4, <1>8 DEF Clocks
<1>19. Waiting'
  <2>1. \A i \in DOMAIN fifo' : i + 1 \in DOMAIN fifo /\ fifo'[i] = fifo[i + 1]
    BY <1>5
  <2>2. Origin' = Origin /\ now' = now /\ freq' = freq /\ running' = running
    BY <1>1 DEF Origin
  <2>3. \A i \in DOMAIN fifo' : /\ Origin =< fifo'[i].at /\ fifo'[i].at =< now
                                /\ fifo'[i].tick = CounterAt(Origin, fifo'[i].at)
    BY <1>4, <2>1 DEF Waiting
  <2> QED BY <1>1, <2>2, <2>3 DEF Waiting, CounterAt
<1>20. ~slow' => ~slow /\ now - f.at =< Tolerance
  <2>1. ~slow' => ~slow /\ ~(now - f.at > Tolerance)
    BY <1>2, Zenon
  <2>2. Tolerance \in Int
    <3>1. cantime2ns_mul \in Nat
      BY <1>4, FactorPositive
    <3> QED BY <1>4, <3>1, SMT DEF Tolerance
  <2> QED BY <1>4, <1>6, <2>1, <2>2
<1>21. ~cut => /\ running /\ ref'.ts = refTick' % Period
               /\ \E a \in Nat : /\ Origin =< a /\ a =< R.ktime
                                 /\ refTick' = CounterAt(Origin, a)
                                 /\ ~slow' => R.ktime - a =< Tolerance
  <2>1. CASE ref = NoRef
    <3>1. R = [ktime |-> now, ts |-> f.tick % Period] /\ refTick' = f.tick
      BY <1>1, <2>1 DEF R, Reference, NoRef
    <3>2. R.ktime = now /\ R.ts = f.tick % Period
      BY <3>1
    <3> QED BY <1>1, <1>6, <1>12, <1>20, <3>1, <3>2
  <2>2. CASE ref # NoRef
    <3>1. R = ref /\ refTick' = refTick
      BY <1>1, <1>4, <2>2 DEF R, Reference, Clocks
    <3> QED BY <1>1, <1>4, <1>20, <2>2, <3>1 DEF RefKnown
  <2> QED BY <2>1, <2>2
<1>22. RefKnown'
  <2>1. /\ Origin' = Origin /\ Tolerance' = Tolerance /\ Period' = Period
        /\ cut' = cut /\ running' = running
    BY <1>1 DEF Origin, Tolerance, cantime2ns_mul, Period
  <2>2. \A a \in Nat : CounterAt(Origin, a)' = CounterAt(Origin, a)
    BY <1>1, <2>1 DEF CounterAt
  <2> QED BY <1>1, <1>21, <2>1, <2>2 DEF RefKnown
<1>23. ASSUME Divides, ~slow', ~cut
       PROVE  s.hw = R.ktime + (s.tick - refTick') * cantime2ns_mul
  <2>1. PICK a \in Nat : /\ Origin =< a /\ a =< R.ktime
                         /\ refTick' = CounterAt(Origin, a)
                         /\ ~slow' => R.ktime - a =< Tolerance
    BY <1>1, <1>21, <1>23
  <2>2. now - f.at =< Tolerance /\ R.ktime - a =< Tolerance
    <3>1. now - f.at =< Tolerance
      BY <1>20, <1>23
    <3>2. R.ktime - a =< Tolerance
      BY <1>23, <2>1
    <3> QED BY <3>1, <3>2, Zenon
  <2>3. /\ -Half =< f.tick - refTick' - (now - R.ktime) \div cantime2ns_mul
        /\ f.tick - refTick' - (now - R.ktime) \div cantime2ns_mul < Half
    <3>1. /\ freq \in Freqs /\ Origin \in Int /\ a \in Nat /\ f.at \in Nat /\ R.ktime \in Nat
          /\ now \in Nat /\ Origin =< a /\ a =< R.ktime /\ R.ktime =< now
          /\ Origin =< f.at /\ f.at =< now /\ R.ktime - a =< Tolerance /\ now - f.at =< Tolerance
      BY <1>4, <1>6, <1>8, <1>12, <2>1, <2>2, Zenon
    <3>2. /\ -Half =< CounterAt(Origin, f.at) - CounterAt(Origin, a)
                        - (now - R.ktime) \div cantime2ns_mul
          /\ CounterAt(Origin, f.at) - CounterAt(Origin, a)
                 - (now - R.ktime) \div cantime2ns_mul < Half
      BY <1>23, <3>1, InTime, Zenon
    <3>3. f.tick = CounterAt(Origin, f.at) /\ refTick' = CounterAt(Origin, a)
      BY <1>12, <2>1, Zenon
    <3> QED BY <3>2, <3>3, Zenon
  <2>4. R.ts = refTick' % Period
    BY <1>1, <1>21, <1>23
  <2>5. f.tick \in Int /\ refTick' \in Int
    BY <1>6, <1>13
  <2>6. Timestamp2ktime(R, f.tick % Period, now) = R.ktime + (f.tick - refTick') * cantime2ns_mul
    <3>1. R.ktime \in Nat /\ R.ktime =< now /\ now \in Nat /\ freq \in Freqs
      BY <1>4, <1>8
    <3> QED BY <2>3, <2>4, <2>5, <3>1, NearestExact, Zenon
  <2>7. s.hw = Stamp(f) /\ s.tick = f.tick
    BY DEF s
  <2> QED BY <1>10, <2>6, <2>7
<1>24. AllExact'
  <2>1. ASSUME Divides', ~slow', ~cut'
        PROVE  /\ (\A i \in DOMAIN queue : Exact(queue[i].hw, queue[i].tick))'
               /\ (shown # NoFrame => Exact(shown.hw, shown.tick))'
    <3>1. Divides /\ ~slow /\ ~cut
      BY <1>1, <1>20, <2>1 DEF Divides
    <3>2. ref # NoRef => R = ref /\ refTick' = refTick
      BY <1>1, <1>4 DEF R, Reference, Clocks
    <3>3. cantime2ns_mul' = cantime2ns_mul /\ NoFrame' = NoFrame
      BY <1>1 DEF cantime2ns_mul, NoFrame
    <3>4. ASSUME NEW i \in DOMAIN queue
          PROVE  queue[i].hw = R.ktime + (queue[i].tick - refTick') * cantime2ns_mul
      <4>1. ref # NoRef
        BY <1>4, <3>4, EmptySeq DEF AllExact
      <4> QED BY <1>4, <3>1, <3>2, <3>4, <4>1 DEF AllExact, Exact
    <3>5. shown # NoFrame => shown.hw = R.ktime + (shown.tick - refTick') * cantime2ns_mul
      <4> SUFFICES ASSUME shown # NoFrame
                   PROVE  shown.hw = R.ktime + (shown.tick - refTick') * cantime2ns_mul
        OBVIOUS
      <4>1. ref # NoRef
        BY <1>4 DEF AllExact
      <4> QED BY <1>4, <3>1, <3>2, <4>1 DEF AllExact, Exact
    <3>6. s.hw = R.ktime + (s.tick - refTick') * cantime2ns_mul
      BY <1>23, <2>1, <3>1
    <3>7. \A i \in DOMAIN queue' : queue'[i] = s \/ (i \in DOMAIN queue /\ queue'[i] = queue[i])
      BY <1>3, <1>4, <1>11, <1>14, AppendProperties, LenProperties
    <3>8. \A i \in DOMAIN queue' :
             queue'[i].hw = R.ktime + (queue'[i].tick - refTick') * cantime2ns_mul
      BY <3>4, <3>6, <3>7
    <3>9. shown' = shown /\ ref' = R
      BY <1>1
    <3> QED BY <3>3, <3>5, <3>8, <3>9 DEF Exact
  <2> QED BY <1>9, <2>1 DEF AllExact
<1> QED BY <1>16, <1>17, <1>18, <1>19, <1>22, <1>24 DEF IInv

\* A frame that is none is read: it is stamped and queued like any other, and its stamp may
\* become the reference, which is not in step with the counter from then on.
LEMMA NothingInv ==
    ASSUME IInv, NEW ts \in 0..(Period - 1), ReceiveNothing(ts)
    PROVE  IInv'
<1> DEFINE f == [id |-> arrived + 1, tick |-> ts]
           R == Reference(ts, now)
           s == [id |-> f.id, tick |-> f.tick, hw |-> Stamp(f)]
<1>1. /\ ref' = R /\ arrived' = arrived + 1 /\ cut' = TRUE /\ stale' = FALSE
      /\ refTick' = IF ref = NoRef THEN ts ELSE refTick
      /\ UNCHANGED <<now, freq, running, clocked, fifo, stops, slow>>
      /\ UNCHANGED <<apc, opts, granted, error, shown>>
  BY DEF ReceiveNothing, RxNothing, Deliver
<1>2. queue' = queue \/ (Len(queue) < SockMax /\ queue' = Append(queue, s))
  BY DEF ReceiveNothing, Deliver
<1>3. /\ TypeOK /\ Clocks /\ Waiting /\ Ready
      /\ now \in Nat /\ freq \in Freqs /\ arrived \in Nat /\ refTick \in Nat
      /\ queue \in Seq(Stamped) /\ Len(queue) =< SockMax /\ SockMax \in Nat
  BY SocketAssumption DEF IInv, TypeOK
<1>4. ts \in Nat /\ Half \in Nat \ {0} /\ Period = 2 * Half
  BY TimestampAssumption DEF Period
<1>5. f.id \in Nat /\ f.tick = ts /\ f.id = arrived + 1
  BY <1>3
<1>6. ts % Period = ts
  BY <1>4, SMT
<1>7. Stamp(f) = Timestamp2ktime(R, ts, now)
  BY <1>5, <1>6 DEF Stamp
<1> HIDE DEF f
<1>8. /\ R \in [ktime : Nat, ts : 0..(Period - 1)] /\ R.ktime =< now /\ R.ktime # 0
  BY <1>3, ReferenceFits
<1> HIDE DEF R
<1>9. R.ktime \in Nat /\ R.ts \in Int
  BY <1>8
<1>10. s \in Stamped
  <2> DEFINE k == (now - R.ktime) \div cantime2ns_mul
             b == Adj(R, ts, now)
             m == cantime2ns_mul
  <2>1. m \in Nat \ {0} /\ k \in Nat /\ b \in Int
        /\ Timestamp2ktime(R, ts, now) = R.ktime + (k + b) * m
    <3>1. ts \in Int
      BY <1>4
    <3> QED BY <1>3, <1>8, <1>9, <3>1, StampForm, Zenon
  <2> HIDE DEF k, b, m
  <2>2. R.ktime + (k + b) * m \in Int
    BY <1>9, <2>1, SMT
  <2> QED BY <1>4, <1>5, <1>7, <2>1, <2>2 DEF Stamped
<1> HIDE DEF s
<1>11. queue' \in Seq(Stamped) /\ Len(queue') =< SockMax
  BY <1>2, <1>3, <1>10, AppendProperties, LenProperties
<1>12. refTick' \in Nat /\ arrived' \in Nat
  BY <1>1, <1>3, <1>4
<1>13. cut' \in BOOLEAN /\ stale' \in BOOLEAN
  BY <1>1, Zenon
<1>14. TypeOK'
  BY <1>1, <1>3, <1>8, <1>11, <1>12, <1>13 DEF TypeOK, Period
<1>15. Ready'
  <2>1. queue # << >> => queue' # << >>
    BY <1>2, <1>3, <1>10, AppendProperties
  <2> QED BY <1>1, <1>3, <2>1, Zenon DEF Ready
<1>16. Clocks'
  BY <1>1, <1>3, <1>8 DEF Clocks
<1>17. Waiting'
  BY <1>1, <1>3 DEF Waiting, CounterAt, Origin
<1>18. ref' # NoRef'
  BY <1>1, <1>8 DEF NoRef
<1>19. RefKnown' /\ AllExact'
  BY <1>1, <1>18, Zenon DEF RefKnown, AllExact
<1> QED BY <1>14, <1>15, <1>16, <1>17, <1>19 DEF IInv

\* Every step keeps the invariant.
LEMMA NextInv == IInv /\ [AppNext]_allVars => IInv'
<1> SUFFICES ASSUME IInv, [AppNext]_allVars PROVE IInv'
  OBVIOUS
<1>1. CASE (Elapse \/ HwReceive \/ Reset \/ Open) /\ UNCHANGED app
  BY <1>1, ElapseInv, HwReceiveInv, ResetInv, OpenInv
<1>2. CASE Driver \/ Down
  BY <1>2, ReceiveInv, NothingInv, DownInv DEF Driver
<1>3. CASE Setup \/ SetupFails \/ Reader
  BY <1>3, AppInv, RecvFrameInv DEF Reader
<1>4. CASE UNCHANGED allVars
  <2>1. /\ UNCHANGED <<now, freq, running, clocked, fifo, arrived, stops, ref, refTick, slow,
                      stale, cut, apc, opts, granted, queue, error, shown>>
    BY <1>4 DEF allVars, vars, core, driver, app
  <2>2. TypeOK' /\ Ready' /\ Clocks'
    BY <2>1 DEF IInv, TypeOK, Ready, Clocks, NoRef, Period
  <2>3. Waiting' /\ RefKnown' /\ AllExact'
    BY <2>1 DEF IInv, Waiting, RefKnown, AllExact, CounterAt, Tolerance, cantime2ns_mul, NoRef,
                Period, Origin, Exact, Divides, NoFrame
  <2> QED BY <2>2, <2>3 DEF IInv
<1> QED BY <1>1, <1>2, <1>3, <1>4 DEF AppNext

\* The invariant holds in every state.
THEOREM Invariance == AppSpec => []IInv
<1>1. AppInit => IInv
  BY InitInv
<1>2. IInv /\ [AppNext]_allVars => IInv'
  BY NextInv
<1> QED BY <1>1, <1>2, PTL DEF AppSpec

-----------------------------------------------------------------------------
(* What follows *)

\* Every variable of the driver, the socket and the program holds a value of its kind.
THEOREM TypeCorrect == AppSpec => []TypeOK
<1>1. IInv => TypeOK
  BY DEF IInv
<1> QED BY <1>1, Invariance, PTL

\* For every width of the counter and every frequency, a frame that is read is given a time
\* within half a period of now: xcan_timestamp2ktime never runs away.
THEOREM NearNowAlways == AppSpec => []StampNearNow
<1>1. IInv => StampNearNow
  <2> SUFFICES ASSUME IInv, running, fifo # << >> PROVE NearNow(Stamp(Head(fifo)))
    BY DEF StampNearNow
  <2> DEFINE f == Head(fifo)
             R == Reference(f.tick % Period, now)
  <2>1. TypeOK /\ Clocks /\ fifo \in Seq(Frame) /\ freq \in Freqs /\ now \in Nat
    BY DEF IInv, TypeOK
  <2>2. f.tick \in Nat
    <3>1. f \in Frame
      BY <2>1, HeadTailProperties
    <3> QED BY <3>1 DEF Frame
  <2>3. f.tick % Period \in 0..(Period - 1) /\ f.tick % Period \in Int
    <3>1. f.tick % Period \in 0..(Period - 1)
      <4> HIDE DEF f
      <4>1. f.tick \in Int
        BY <2>2
      <4> QED BY <4>1, Remainder, Zenon
    <3> QED BY <3>1
  <2>4. R \in [ktime : Nat, ts : 0..(Period - 1)] /\ R.ktime =< now
    BY <2>1, <2>3, ReferenceFits
  <2>5. Stamp(f) = Timestamp2ktime(R, f.tick % Period, now)
    BY DEF Stamp
  <2> HIDE DEF R, f
  <2>6. R.ktime \in Nat /\ R.ts \in Int
    BY <2>4
  <2>7. NearNow(Timestamp2ktime(R, f.tick % Period, now))
    BY <2>1, <2>3, <2>4, <2>6, NearestToNow, Zenon
  <2> QED BY <2>5, <2>7 DEF f
<1> QED BY <1>1, Invariance, PTL

\* For every width of the counter, every frequency that divides 10^9 and every bound on the
\* FIFO and the socket, canhwtstamp prints the time the core's counter shows, as long as frames
\* are read within the tolerance and, since the first one was read, the interface has stayed up
\* and nothing has reset the core (no bus-off, no overflow, no restart), and no frame was read
\* from a FIFO that such a reset had emptied.
THEOREM ExactAlways == AppSpec => []ShownExact
<1>1. IInv => ShownExact
  BY DEF IInv, AllExact, ShownExact, Divides
<1> QED BY <1>1, Invariance, PTL

-----------------------------------------------------------------------------
(* The order of the frames *)

Increasing(s) == \A i, j \in DOMAIN s : i < j => s[i].id < s[j].id

\* The frame printed last, those in the socket and those in the FIFO have come in one after
\* the other.
Order == /\ Increasing(queue) /\ Increasing(fifo)
         /\ shown.id =< arrived
         /\ \A i \in DOMAIN queue : shown.id < queue[i].id /\ queue[i].id =< arrived
         /\ \A j \in DOMAIN fifo : shown.id < fifo[j].id /\ fifo[j].id =< arrived
         /\ \A i \in DOMAIN queue, j \in DOMAIN fifo : queue[i].id < fifo[j].id

\* A frame that is later than all of a sequence keeps it increasing at its end.
LEMMA AppendIncreasing ==
    ASSUME NEW S, NEW s \in Seq(S), NEW e \in S, Increasing(s),
           \A i \in DOMAIN s : s[i].id < e.id
    PROVE  /\ Increasing(Append(s, e))
           /\ DOMAIN Append(s, e) = 1..(Len(s) + 1) /\ DOMAIN s = 1..Len(s) /\ Len(s) \in Nat
           /\ \A i \in DOMAIN Append(s, e) :
                 IF i = Len(s) + 1 THEN Append(s, e)[i] = e
                 ELSE i \in DOMAIN s /\ Append(s, e)[i] = s[i]
<1> DEFINE t == Append(s, e)
<1>1. /\ DOMAIN t = 1..(Len(s) + 1) /\ DOMAIN s = 1..Len(s) /\ Len(s) \in Nat
      /\ \A i \in 1..Len(s) : t[i] = s[i]
      /\ t[Len(s) + 1] = e
  BY AppendProperties, LenProperties
<1> HIDE DEF t
<1>2. \A i \in DOMAIN t : IF i = Len(s) + 1 THEN t[i] = e
                          ELSE i \in DOMAIN s /\ t[i] = s[i]
  BY <1>1
<1>3. ASSUME NEW i \in DOMAIN t, NEW j \in DOMAIN t, i < j PROVE t[i].id < t[j].id
  <2>1. i # Len(s) + 1
    BY <1>1, <1>3
  <2>2. i \in DOMAIN s /\ t[i] = s[i]
    BY <1>2, <2>1
  <2> QED BY <1>2, <1>3, <2>2 DEF Increasing
<1>4. Increasing(t)
  BY <1>3 DEF Increasing
<1> QED BY <1>1, <1>2, <1>4 DEF t

\* Without its first frame a sequence is increasing still, and later than that frame.
LEMMA TailIncreasing ==
    ASSUME NEW S, NEW s \in Seq(S), s # << >>, Increasing(s)
    PROVE  /\ Increasing(Tail(s))
           /\ Head(s) = s[1] /\ 1 \in DOMAIN s
           /\ \A i \in DOMAIN Tail(s) : /\ i + 1 \in DOMAIN s /\ Tail(s)[i] = s[i + 1]
                                        /\ s[1].id < Tail(s)[i].id
<1> DEFINE t == Tail(s)
<1>1. /\ DOMAIN s = 1..Len(s) /\ Len(s) \in Nat /\ Len(s) # 0
      /\ DOMAIN t = 1..Len(t) /\ Len(t) = Len(s) - 1
      /\ \A i \in 1..Len(t) : t[i] = s[i + 1]
      /\ Head(s) = s[1]
  BY HeadTailProperties, LenProperties, EmptySeq
<1> HIDE DEF t
<1>2. 1 \in DOMAIN s /\ \A i \in DOMAIN t : i + 1 \in DOMAIN s /\ i \in Nat /\ 1 < i + 1
  BY <1>1
<1>3. \A i \in DOMAIN t : s[1].id < t[i].id
  BY <1>1, <1>2 DEF Increasing
<1>4. Increasing(t)
  BY <1>1, <1>2 DEF Increasing
<1> QED BY <1>1, <1>2, <1>3, <1>4 DEF t

\* Numbers of frames.
LEMMA Ids ==
    ASSUME TypeOK
    PROVE  /\ shown.id \in Nat /\ arrived \in Nat
           /\ fifo \in Seq(Frame) /\ queue \in Seq(Stamped)
           /\ \A i \in DOMAIN queue : queue[i].id \in Nat
           /\ \A j \in DOMAIN fifo : fifo[j].id \in Nat
<1>1. shown \in Stamped /\ arrived \in Nat /\ fifo \in Seq(Frame) /\ queue \in Seq(Stamped)
  BY DEF TypeOK
<1>2. \A i \in DOMAIN queue : queue[i] \in Stamped
  BY <1>1, ElementOfSeq, LenProperties
<1>3. \A j \in DOMAIN fifo : fifo[j] \in Frame
  BY <1>1, ElementOfSeq, LenProperties
<1> QED BY <1>1, <1>2, <1>3 DEF Frame, Stamped

\* A frame that enters the FIFO is the latest.
LEMMA OrderReceive == IInv /\ Order /\ HwReceive /\ UNCHANGED app => Order'
<1> SUFFICES ASSUME IInv, Order, HwReceive, UNCHANGED app PROVE Order'
  OBVIOUS
<1> DEFINE e == [id |-> arrived + 1, at |-> now, tick |-> Counter]
<1>1. /\ arrived' = arrived + 1 /\ fifo' = Append(fifo, e)
      /\ UNCHANGED <<queue, shown>>
  BY DEF HwReceive, app
<1>2. TypeOK
  BY DEF IInv
<1>3. e.id = arrived + 1
  OBVIOUS
<1>4. e \in [id : {arrived + 1}, at : {now}, tick : {Counter}]
  OBVIOUS
<1> HIDE DEF e
<1>5. fifo \in Seq(Frame \union {e}) /\ e \in Frame \union {e}
  <2>1. fifo \in Seq(Frame)
    BY <1>2, Ids
  <2> QED BY <2>1, SMT
<1>6. \A j \in DOMAIN fifo : fifo[j].id < e.id
  BY <1>2, <1>3, Ids DEF Order
<1>7. Increasing(fifo)
  BY DEF Order
<1>8. /\ Increasing(fifo')
      /\ DOMAIN fifo' = 1..(Len(fifo) + 1)
      /\ \A i \in DOMAIN fifo' : IF i = Len(fifo) + 1 THEN fifo'[i] = e
                                 ELSE i \in DOMAIN fifo /\ fifo'[i] = fifo[i]
  BY <1>1, <1>5, <1>6, <1>7, AppendIncreasing
<1>9. \A j \in DOMAIN fifo' : shown.id < fifo'[j].id /\ fifo'[j].id =< arrived'
  BY <1>1, <1>2, <1>3, <1>8, Ids DEF Order
<1>10. \A i \in DOMAIN queue, j \in DOMAIN fifo' : queue[i].id < fifo'[j].id
  BY <1>2, <1>3, <1>8, Ids DEF Order
<1>11. /\ shown.id =< arrived'
       /\ \A i \in DOMAIN queue : shown.id < queue[i].id /\ queue[i].id =< arrived'
  BY <1>1, <1>2, Ids DEF Order
<1> QED BY <1>1, <1>8, <1>9, <1>10, <1>11 DEF Order, Increasing

\* xcan_rx takes the earliest frame of the FIFO; it becomes the last of the socket or is
\* dropped.
LEMMA OrderFrame ==
    ASSUME IInv, Order, NEW f, Receive(f)
    PROVE  Order'
<1> DEFINE e == [id |-> f.id, tick |-> f.tick, hw |-> Stamp(f)]
<1>1. /\ fifo # << >> /\ f = Head(fifo) /\ fifo' = Tail(fifo)
      /\ queue' = Append(queue, e) \/ queue' = queue
      /\ UNCHANGED <<shown, arrived>>
  BY DEF Receive, Rx, Deliver
<1>2. TypeOK
  BY DEF IInv
<1>3. e.id = f.id
  OBVIOUS
<1> HIDE DEF e
<1>4. /\ Increasing(fifo') /\ f = fifo[1] /\ 1 \in DOMAIN fifo
      /\ \A i \in DOMAIN fifo' : /\ i + 1 \in DOMAIN fifo /\ fifo'[i] = fifo[i + 1]
                                 /\ f.id < fifo'[i].id
  <2>1. Increasing(fifo) /\ fifo \in Seq(Frame)
    BY <1>2, Ids DEF Order
  <2> QED BY <1>1, <2>1, TailIncreasing
<1>5. \A j \in DOMAIN fifo' : shown.id < fifo'[j].id /\ fifo'[j].id =< arrived
  BY <1>4 DEF Order
<1>6. CASE queue' = queue
  BY <1>1, <1>4, <1>5, <1>6 DEF Order, Increasing
<1>7. CASE queue' = Append(queue, e)
  <2>1. queue \in Seq(Stamped \union {e}) /\ e \in Stamped \union {e}
    <3>1. queue \in Seq(Stamped)
      BY <1>2, Ids
    <3> QED BY <3>1, SMT
  <2>2. \A i \in DOMAIN queue : queue[i].id < e.id
    BY <1>3, <1>4 DEF Order
  <2>3. Increasing(queue)
    BY DEF Order
  <2>4. /\ Increasing(queue')
        /\ \A i \in DOMAIN queue' : IF i = Len(queue) + 1 THEN queue'[i] = e
                                    ELSE i \in DOMAIN queue /\ queue'[i] = queue[i]
    BY <1>7, <2>1, <2>2, <2>3, AppendIncreasing
  <2>5. \A i \in DOMAIN queue' : shown.id < queue'[i].id /\ queue'[i].id =< arrived
    BY <1>3, <1>4, <2>4 DEF Order
  <2>6. \A i \in DOMAIN queue', j \in DOMAIN fifo' : queue'[i].id < fifo'[j].id
    BY <1>3, <1>4, <2>4 DEF Order
  <2>7. shown.id =< arrived
    BY DEF Order
  <2> QED BY <1>1, <1>4, <1>5, <2>4, <2>5, <2>6, <2>7 DEF Order, Increasing
<1> QED BY <1>1, <1>6, <1>7

\* A frame that is none counts as the latest.
LEMMA OrderNothing ==
    ASSUME IInv, Order, NEW ts \in 0..(Period - 1), ReceiveNothing(ts)
    PROVE  Order'
<1> DEFINE f == [id |-> arrived + 1, tick |-> ts]
           e == [id |-> f.id, tick |-> f.tick, hw |-> Stamp(f)]
<1>1. /\ fifo = << >> /\ fifo' = << >> /\ arrived' = arrived + 1
      /\ queue' = Append(queue, e) \/ queue' = queue
      /\ shown' = shown
  BY DEF ReceiveNothing, RxNothing, Deliver
<1>2. TypeOK /\ arrived \in Nat /\ shown.id \in Nat
  BY DEF IInv, TypeOK, Stamped
<1>3. e.id = arrived + 1
  OBVIOUS
<1> HIDE DEF e
<1>4. DOMAIN fifo = {} /\ DOMAIN fifo' = {}
  BY <1>1
<1>5. queue \in Seq(Stamped) /\ \A i \in DOMAIN queue : queue[i].id \in Nat
  BY <1>2, Ids
<1>6. shown.id =< arrived /\ Increasing(queue)
      /\ \A i \in DOMAIN queue : shown.id < queue[i].id /\ queue[i].id =< arrived
  BY DEF Order
<1>7. CASE queue' = queue
  <2>1. \A i \in DOMAIN queue' : shown'.id < queue'[i].id /\ queue'[i].id =< arrived'
    BY <1>1, <1>2, <1>5, <1>6, <1>7
  <2>2. shown'.id =< arrived'
    BY <1>1, <1>2, <1>6
  <2> QED BY <1>4, <1>6, <1>7, <2>1, <2>2 DEF Order, Increasing
<1>8. CASE queue' = Append(queue, e)
  <2>1. queue \in Seq(Stamped \union {e}) /\ e \in Stamped \union {e}
    BY <1>5, SMT
  <2>2. \A i \in DOMAIN queue : queue[i].id < e.id
    BY <1>2, <1>3, <1>5, <1>6
  <2>3. /\ Increasing(queue')
        /\ \A i \in DOMAIN queue' : IF i = Len(queue) + 1 THEN queue'[i] = e
                                    ELSE i \in DOMAIN queue /\ queue'[i] = queue[i]
    BY <1>6, <1>8, <2>1, <2>2, AppendIncreasing
  <2>4. \A i \in DOMAIN queue' : shown'.id < queue'[i].id /\ queue'[i].id =< arrived'
    BY <1>1, <1>2, <1>3, <1>5, <1>6, <2>3
  <2>5. shown'.id =< arrived'
    BY <1>1, <1>2, <1>6
  <2> QED BY <1>4, <2>3, <2>4, <2>5 DEF Order, Increasing
<1> QED BY <1>1, <1>7, <1>8

\* recvpacket prints the earliest frame of the socket.
LEMMA OrderRecv == IInv /\ Order /\ RecvFrame => Order' /\ shown'.id > shown.id
<1> SUFFICES ASSUME IInv, Order, RecvFrame PROVE Order' /\ shown'.id > shown.id
  OBVIOUS
<1>1. /\ queue' = Tail(queue) /\ shown' = Head(queue) /\ UNCHANGED <<fifo, arrived>>
  BY DEF RecvFrame, vars, core
<1>2. TypeOK /\ queue # << >>
  BY DEF IInv, Ready, RecvFrame
<1>3. /\ Increasing(queue') /\ shown' = queue[1] /\ 1 \in DOMAIN queue
      /\ \A i \in DOMAIN queue' : /\ i + 1 \in DOMAIN queue /\ queue'[i] = queue[i + 1]
                                  /\ shown'.id < queue'[i].id
  <2>1. Increasing(queue) /\ queue \in Seq(Stamped)
    BY <1>2, Ids DEF Order
  <2> QED BY <1>1, <1>2, <2>1, TailIncreasing
<1>4. shown'.id =< arrived /\ shown.id < shown'.id
  BY <1>3 DEF Order
<1>5. \A i \in DOMAIN queue' : shown'.id < queue'[i].id /\ queue'[i].id =< arrived
  BY <1>3 DEF Order
<1>6. \A j \in DOMAIN fifo : shown'.id < fifo[j].id /\ fifo[j].id =< arrived
  BY <1>3 DEF Order
<1>7. \A i \in DOMAIN queue', j \in DOMAIN fifo : queue'[i].id < fifo[j].id
  BY <1>3 DEF Order
<1>8. shown.id \in Nat /\ shown'.id \in Nat
  BY <1>2, <1>3, Ids
<1>9. Increasing(fifo)
  BY DEF Order
<1>10. Order'
  BY <1>1, <1>3, <1>4, <1>5, <1>6, <1>7, <1>9 DEF Order, Increasing
<1> QED BY <1>4, <1>8, <1>10

\* Every step keeps the order.
LEMMA OrderStep == IInv /\ Order /\ [AppNext]_allVars => Order'
<1> SUFFICES ASSUME IInv, Order, [AppNext]_allVars PROVE Order'
  OBVIOUS
<1>1. ASSUME UNCHANGED <<fifo, queue, shown, arrived>> PROVE Order'
  BY <1>1 DEF Order, Increasing
<1>2. CASE Down \/ (Reset /\ UNCHANGED app)
  <2>1. fifo' = << >> /\ UNCHANGED <<queue, shown, arrived>>
    BY <1>2 DEF Down, Close, Reset, app
  <2>2. DOMAIN fifo' = {}
    BY <2>1
  <2> QED BY <2>1, <2>2 DEF Order, Increasing
<1>3. CASE (Elapse \/ Open) /\ UNCHANGED app
  BY <1>1, <1>3 DEF Elapse, Open, app
<1>4. CASE Setup \/ SetupFails \/ Select \/ RecvError
  BY <1>1, <1>4 DEF Setup, SetupFails, Select, RecvError, vars, core
<1>5. CASE UNCHANGED allVars
  BY <1>1, <1>5 DEF allVars, vars, core, app
<1>6. CASE Driver
  BY <1>6, OrderFrame, OrderNothing DEF Driver
<1> QED BY <1>2, <1>3, <1>4, <1>5, <1>6, OrderReceive, OrderRecv DEF AppNext, Reader

\* canhwtstamp prints the frames in the order in which they came in, and each of them once
\* (ShownInOrder), for all bounds.
THEOREM InOrderAlways == AppSpec => ShownInOrder
<1>1. AppInit => Order
  <2> SUFFICES ASSUME AppInit PROVE Order
    OBVIOUS
  <2>1. DOMAIN queue = {} /\ DOMAIN fifo = {} /\ shown.id = 0 /\ arrived = 0
    BY DEF AppInit, Init, NoFrame
  <2> QED BY <2>1 DEF Order, Increasing
<1>2. IInv /\ Order /\ [AppNext]_allVars => Order'
  BY OrderStep
<1>3. IInv /\ Order /\ [AppNext]_allVars => [RecvFrame => shown'.id > shown.id]_allVars
  BY OrderRecv
<1> QED BY <1>1, <1>2, <1>3, Invariance, PTL DEF AppSpec, ShownInOrder

\* A program that waits for frames has been granted the time stamps it asked for, and has not
\* asked for those the driver cannot take (GrantedOrExit).
THEOREM GrantedAlways == AppSpec => []GrantedOrExit
<1>1. AppInit => GrantedOrExit
  BY DEF AppInit, GrantedOrExit, Bound
<1>2. GrantedOrExit /\ [AppNext]_allVars => GrantedOrExit'
  <2> SUFFICES ASSUME GrantedOrExit, [AppNext]_allVars PROVE GrantedOrExit'
    OBVIOUS
  <2>1. CASE Setup
    BY <2>1 DEF Setup, HwtstampSet, Request, Refused, GrantedOrExit
  <2>2. CASE SetupFails
    BY <2>2 DEF SetupFails, GrantedOrExit, Bound
  <2>3. ASSUME UNCHANGED <<opts, granted>>, Bound' => Bound PROVE GrantedOrExit'
    BY <2>3 DEF GrantedOrExit
  <2>4. CASE Reader
    BY <2>3, <2>4 DEF Reader, Select, RecvError, RecvFrame, Bound
  <2>5. CASE (Elapse \/ HwReceive \/ Reset \/ Open) /\ UNCHANGED app
    BY <2>3, <2>5 DEF app, Bound
  <2>6. CASE Driver \/ Down
    BY <2>3, <2>6 DEF Driver, Receive, ReceiveNothing, Deliver, Down, Bound
  <2>7. CASE UNCHANGED allVars
    BY <2>3, <2>7 DEF allVars, app, Bound
  <2> QED BY <2>1, <2>2, <2>4, <2>5, <2>6, <2>7 DEF AppNext
<1> QED BY <1>1, <1>2, PTL DEF AppSpec

-----------------------------------------------------------------------------
(* The times of the frames *)

\* The number and the counter of each frame that is in the FIFO, in the socket, or printed last.
Known == {<<shown.id, shown.tick>>}
         \union {<<queue[i].id, queue[i].tick>> : i \in DOMAIN queue}
         \union {<<fifo[j].id, fifo[j].tick>> : j \in DOMAIN fifo}

\* While the counter keeps step with the reference, a later frame has no smaller counter.
Rising == ~cut => /\ \A a \in Known : a[2] =< Counter
                  /\ \A a, b \in Known : a[1] < b[1] => a[2] =< b[2]

\* Between two frames that are printed the time advances by what the core's counter did.
StampsAscend ==
    [][RecvFrame /\ shown # NoFrame /\ Divides /\ ~slow /\ ~cut
           => /\ shown'.hw - shown.hw = (shown'.tick - shown.tick) * cantime2ns_mul
              /\ shown'.hw >= shown.hw]_allVars

\* A product grows with its first factor,
LEMMA ProductGrows ==
    ASSUME NEW a \in Nat, NEW b \in Nat, NEW n \in Nat, a =< b
    PROVE  a * n \in Nat /\ b * n \in Nat /\ a * n =< b * n
<1>1. PICK d \in Nat : b = a + d
  <2>1. b - a \in Nat /\ b = a + (b - a)
    OBVIOUS
  <2> QED BY <2>1
<1>2. a * n \in Nat /\ d * n \in Nat /\ b * n = a * n + d * n
  BY <1>1, SMT
<1> QED BY <1>2

\* a quotient with its dividend,
LEMMA QuotientGrows ==
    ASSUME NEW a \in Nat, NEW b \in Nat, NEW n \in Nat \ {0}, a =< b
    PROVE  a \div n =< b \div n
<1> DEFINE p == a \div n
           q == b \div n
<1>1. p \in Nat /\ q \in Nat /\ n * p =< a /\ b < n * q + n
  BY QuotientBounds
<1> HIDE DEF p, q
<1>2. SUFFICES ASSUME p >= q + 1 PROVE FALSE
  BY <1>1 DEF p, q
<1>3. n * p >= n * (q + 1) /\ n * (q + 1) = n * q + n
  BY <1>1, <1>2, SMT
<1>4. n * p \in Int /\ n * q \in Int
  BY <1>1, SMT
<1> QED BY <1>1, <1>3, <1>4, SMT

\* so the counter grows with the time can_clk has run.
LEMMA CounterGrows ==
    ASSUME TypeOK
    PROVE  /\ Counter \in Nat
           /\ freq' = freq /\ clocked' \in Nat /\ clocked' >= clocked => Counter =< Counter'
<1>1. freq \in Nat /\ NsPerSec \in Nat \ {0} /\ clocked \in Nat
  BY TimestampAssumption DEF TypeOK
<1>2. clocked * freq \in Nat
  BY <1>1, SMT
<1>3. Counter \in Nat
  BY <1>1, <1>2, QuotientBounds DEF Counter
<1>4. ASSUME freq' = freq, clocked' \in Nat, clocked' >= clocked PROVE Counter =< Counter'
  <2>1. clocked' * freq \in Nat /\ clocked * freq =< clocked' * freq
    BY <1>1, <1>4, ProductGrows, Zenon
  <2> QED BY <1>1, <1>2, <1>4, <2>1, QuotientGrows DEF Counter
<1> QED BY <1>3, <1>4

\* The numbers and the counters of frames are natural numbers.
LEMMA KnownNumbers ==
    ASSUME TypeOK
    PROVE  \A a \in Known : a[1] \in Nat /\ a[2] \in Nat
<1>1. shown \in Stamped /\ fifo \in Seq(Frame) /\ queue \in Seq(Stamped)
  BY DEF TypeOK
<1>2. /\ \A i \in DOMAIN queue : queue[i] \in Stamped
      /\ \A j \in DOMAIN fifo : fifo[j] \in Frame
  BY <1>1, ElementOfSeq, LenProperties
<1> QED BY <1>1, <1>2 DEF Known, Frame, Stamped

\* A step that brings no new frame, and neither cuts the counter nor sets it back.
LEMMA RisingFrame ==
    ASSUME TypeOK, Rising, Known' \subseteq Known, cut' = cut,
           freq' = freq, clocked' \in Nat, clocked' >= clocked
    PROVE  Rising'
<1>1. Counter \in Nat /\ Counter' \in Int /\ Counter =< Counter'
  <2>1. Counter' \in Int
    <3>1. freq \in Nat /\ NsPerSec \in Nat \ {0} /\ clocked \in Nat
      BY TimestampAssumption DEF TypeOK
    <3>2. clocked' * freq \in Nat
      BY <3>1, ProductGrows, Zenon
    <3> QED BY <3>1, <3>2, QuotientBounds DEF Counter
  <2> QED BY <2>1, CounterGrows
<1>2. ASSUME ~cut', NEW a \in Known' PROVE a[2] =< Counter'
  <2>1. a[2] \in Nat /\ a[2] =< Counter
    BY <1>2, KnownNumbers DEF Rising
  <2> QED BY <1>1, <2>1
<1>3. ASSUME ~cut' PROVE \A a, b \in Known' : a[1] < b[1] => a[2] =< b[2]
  BY <1>3 DEF Rising
<1> QED BY <1>2, <1>3 DEF Rising

\* A frame that enters the FIFO has the largest number and the largest counter.
LEMMA RisingReceive == IInv /\ Order /\ Rising /\ HwReceive /\ UNCHANGED app => Rising'
<1> SUFFICES ASSUME IInv, Order, Rising, HwReceive, UNCHANGED app PROVE Rising'
  OBVIOUS
<1> DEFINE e == [id |-> arrived + 1, at |-> now, tick |-> Counter]
           new == <<arrived + 1, Counter>>
<1>1. /\ fifo' = Append(fifo, e) /\ cut' = cut
      /\ UNCHANGED <<queue, shown, freq, clocked>>
  BY DEF HwReceive, app
<1>2. TypeOK /\ arrived \in Nat
  BY DEF IInv, TypeOK
<1>3. Counter' = Counter /\ Counter \in Nat
  BY <1>1, <1>2, CounterGrows DEF Counter
<1>4. e.id = arrived + 1 /\ e.tick = Counter
  OBVIOUS
<1>5. /\ DOMAIN fifo' = 1..(Len(fifo) + 1) /\ DOMAIN fifo = 1..Len(fifo) /\ Len(fifo) \in Nat
      /\ \A j \in 1..Len(fifo) : fifo'[j] = fifo[j]
      /\ fifo'[Len(fifo) + 1] = e
  <2>1. fifo \in Seq(Frame \union {e}) /\ e \in Frame \union {e}
    <3> HIDE DEF e
    <3>1. fifo \in Seq(Frame)
      BY <1>2, Ids
    <3> QED BY <3>1, SMT
  <2> HIDE DEF e
  <2> QED BY <1>1, <2>1, AppendProperties, LenProperties
<1>6. Known' \subseteq Known \union {new}
  <2>1. \A j \in DOMAIN fifo' :
            \/ j \in DOMAIN fifo /\ fifo'[j] = fifo[j]
            \/ fifo'[j].id = arrived + 1 /\ fifo'[j].tick = Counter
    <3> HIDE DEF e
    <3> QED BY <1>4, <1>5
  <2> HIDE DEF e
  <2> QED BY <1>1, <2>1 DEF Known
<1>7. \A a \in Known : a[1] < arrived + 1
  <2>1. \A a \in Known : a[1] =< arrived
    BY DEF Known, Order
  <2> QED BY <1>2, <2>1, KnownNumbers
<1>8. ASSUME ~cut', NEW a \in Known' PROVE a[2] =< Counter'
  BY <1>1, <1>3, <1>6, <1>8 DEF Rising
<1>9. ASSUME ~cut', NEW a \in Known', NEW b \in Known', a[1] < b[1] PROVE a[2] =< b[2]
  <2>1. CASE a \in Known /\ b \in Known
    BY <1>1, <1>9, <2>1 DEF Rising
  <2>2. CASE a \in Known /\ b = new
    BY <1>1, <1>9, <2>2 DEF Rising
  <2>3. a # new
    <3>1. a = new => a[1] = arrived + 1
      OBVIOUS
    <3>2. b \in Known => b[1] < arrived + 1 /\ b[1] \in Nat
      BY <1>2, <1>7, KnownNumbers
    <3>3. b = new => b[1] = arrived + 1
      OBVIOUS
    <3> HIDE DEF new
    <3> QED BY <1>2, <1>6, <1>9, <3>1, <3>2, <3>3
  <2> HIDE DEF new
  <2> QED BY <1>6, <2>1, <2>2, <2>3
<1> QED BY <1>8, <1>9 DEF Rising

\* The frame that is read, and the one that is received, stay what they are.
LEMMA RisingDriver == IInv /\ Rising /\ Driver => Rising'
<1> SUFFICES ASSUME IInv, Rising, NEW f, Receive(f) PROVE Rising'
  BY DEF Driver, ReceiveNothing, RxNothing, Rising
<1> DEFINE e == [id |-> f.id, tick |-> f.tick, hw |-> Stamp(f)]
<1>1. /\ fifo # << >> /\ f = Head(fifo) /\ fifo' = Tail(fifo)
      /\ queue' = Append(queue, e) \/ queue' = queue
      /\ UNCHANGED <<shown, freq, clocked, cut>>
  BY DEF Receive, Rx, Deliver
<1>2. TypeOK /\ clocked \in Nat
  BY DEF IInv, TypeOK
<1>3. e.id = f.id /\ e.tick = f.tick
  OBVIOUS
<1> HIDE DEF e
<1>4. /\ f = fifo[1] /\ 1 \in DOMAIN fifo
      /\ \A i \in DOMAIN fifo' : i + 1 \in DOMAIN fifo /\ fifo'[i] = fifo[i + 1]
  <2>1. fifo \in Seq(Frame)
    BY <1>2, Ids
  <2>2. /\ DOMAIN fifo = 1..Len(fifo) /\ Len(fifo) \in Nat /\ Len(fifo) # 0
        /\ DOMAIN fifo' = 1..Len(fifo') /\ Len(fifo') = Len(fifo) - 1
        /\ \A i \in 1..Len(fifo') : fifo'[i] = fifo[i + 1]
        /\ Head(fifo) = fifo[1]
    BY <1>1, <2>1, HeadTailProperties, LenProperties, EmptySeq
  <2> QED BY <1>1, <2>2
<1>5. \A i \in DOMAIN queue' : \/ i \in DOMAIN queue /\ queue'[i] = queue[i]
                               \/ queue'[i] = e
  <2>1. CASE queue' = queue
    BY <2>1
  <2>2. CASE queue' = Append(queue, e)
    <3>1. queue \in Seq(Stamped \union {e}) /\ e \in Stamped \union {e}
      <4>1. queue \in Seq(Stamped)
        BY <1>2, Ids
      <4> QED BY <4>1, SMT
    <3>2. /\ DOMAIN queue' = 1..(Len(queue) + 1) /\ DOMAIN queue = 1..Len(queue)
          /\ Len(queue) \in Nat
          /\ \A i \in 1..Len(queue) : queue'[i] = queue[i]
          /\ queue'[Len(queue) + 1] = e
      BY <2>2, <3>1, AppendProperties, LenProperties
    <3> QED BY <3>2
  <2> QED BY <1>1, <2>1, <2>2
<1>6. Known' \subseteq Known
  <2>1. <<f.id, f.tick>> \in Known
    BY <1>4 DEF Known
  <2> QED BY <1>1, <1>3, <1>4, <1>5, <2>1 DEF Known
<1> QED BY <1>1, <1>2, <1>6, RisingFrame

\* The frame that is printed comes from the socket.
LEMMA RisingRecv == IInv /\ Rising /\ RecvFrame => Rising' /\ <<shown'.id, shown'.tick>> \in Known
<1> SUFFICES ASSUME IInv, Rising, RecvFrame
             PROVE  Rising' /\ <<shown'.id, shown'.tick>> \in Known
  OBVIOUS
<1>1. /\ queue' = Tail(queue) /\ shown' = Head(queue)
      /\ UNCHANGED <<fifo, freq, clocked, cut>>
  BY DEF RecvFrame, vars, core
<1>2. TypeOK /\ queue # << >> /\ clocked \in Nat
  BY DEF IInv, Ready, RecvFrame, TypeOK
<1>3. /\ shown' = queue[1] /\ 1 \in DOMAIN queue
      /\ \A i \in DOMAIN queue' : i + 1 \in DOMAIN queue /\ queue'[i] = queue[i + 1]
  <2>1. queue \in Seq(Stamped)
    BY <1>2, Ids
  <2>2. /\ DOMAIN queue = 1..Len(queue) /\ Len(queue) \in Nat /\ Len(queue) # 0
        /\ DOMAIN queue' = 1..Len(queue') /\ Len(queue') = Len(queue) - 1
        /\ \A i \in 1..Len(queue') : queue'[i] = queue[i + 1]
        /\ Head(queue) = queue[1]
    BY <1>1, <1>2, <2>1, HeadTailProperties, LenProperties, EmptySeq
  <2> QED BY <1>1, <2>2
<1>4. Known' \subseteq Known /\ <<shown'.id, shown'.tick>> \in Known
  BY <1>1, <1>3 DEF Known
<1> QED BY <1>1, <1>2, <1>4, RisingFrame

\* A stop of the clock, or a reset, cuts the counter off from the reference, or there is no
\* frame yet.
LEMMA RisingStop ==
    IInv /\ Rising /\ (Down \/ ((Reset \/ Open) /\ UNCHANGED app)) => Rising'
<1> SUFFICES ASSUME IInv, Rising, Down \/ ((Reset \/ Open) /\ UNCHANGED app), ~cut' PROVE Rising'
  BY DEF Rising
<1>1. /\ UNCHANGED <<queue, shown, freq, ref>> /\ fifo' = << >> /\ ~cut
      /\ clocked' \in {clocked, 0}
  <2>1. CASE Down
    <3>1. clocked' = clocked
      BY <2>1 DEF Down, Close
    <3>2. ~(cut \/ ref # NoRef)
      BY <2>1, Zenon DEF Down, Close
    <3> QED BY <2>1, <3>1, <3>2, Zenon DEF Down, Close, driver
  <2>2. CASE Open /\ UNCHANGED app
    <3>1. fifo = << >>
      BY <2>2, Zenon DEF Open, IInv, Waiting
    <3> QED BY <2>2, <3>1 DEF Open, app, driver
  <2>3. CASE Reset /\ UNCHANGED app
    <3>1. ~(cut \/ ref # NoRef)
      BY <2>3, Zenon DEF Reset
    <3> QED BY <2>3, <3>1, Zenon DEF Reset, app, driver
  <2> QED BY <2>1, <2>2, <2>3
<1>2. ref = NoRef
  BY DEF Down, Close, Open, Reset, IInv, RefKnown
<1>3. queue = << >> /\ shown = NoFrame
  BY <1>2 DEF IInv, AllExact
<1>4. Known' = {<<0, 0>>}
  BY <1>1, <1>3 DEF Known, NoFrame
<1>5. 0 =< Counter'
  <2>1. freq \in Nat /\ NsPerSec \in Nat \ {0} /\ clocked \in Nat /\ clocked' \in Nat
    BY <1>1, TimestampAssumption DEF IInv, TypeOK
  <2>2. clocked' * freq \in Nat
    <3>1. clocked' =< clocked'
      BY <2>1
    <3> QED BY <2>1, <3>1, ProductGrows, Zenon
  <2>3. (clocked' * freq) \div NsPerSec \in Nat
    BY <2>1, <2>2, QuotientBounds, Zenon
  <2> QED BY <1>1, <2>3 DEF Counter
<1> QED BY <1>4, <1>5 DEF Rising

\* Every step keeps the counters rising.
LEMMA RisingStep == IInv /\ Order /\ Rising /\ [AppNext]_allVars => Rising'
<1> SUFFICES ASSUME IInv, Order, Rising, [AppNext]_allVars PROVE Rising'
  OBVIOUS
<1>1. TypeOK /\ clocked \in Nat
  BY DEF IInv, TypeOK
<1>2. ASSUME UNCHANGED <<fifo, queue, shown, cut, freq>>, clocked' \in {clocked, clocked + 1}
      PROVE  Rising'
  <2>1. Known' \subseteq Known
    BY <1>2 DEF Known
  <2>2. clocked' \in Nat /\ clocked' >= clocked
    BY <1>1, <1>2
  <2> QED BY <1>1, <1>2, <2>1, <2>2, RisingFrame
<1>3. CASE Elapse /\ UNCHANGED app
  BY <1>2, <1>3 DEF Elapse, app
<1>4. CASE Setup \/ SetupFails \/ Select \/ RecvError
  BY <1>2, <1>4 DEF Setup, SetupFails, Select, RecvError, vars, core
<1>5. CASE UNCHANGED allVars
  BY <1>2, <1>5 DEF allVars, vars, core, app
<1> QED BY <1>3, <1>4, <1>5, RisingReceive, RisingDriver, RisingRecv, RisingStop
        DEF AppNext, Reader

\* When the frequency divides 10^9, frames are read in time and never from an emptied FIFO, and
\* since the first one was read the interface has stayed up and nothing has reset the core, the
\* times canhwtstamp prints are as far apart as the counters of the frames, and never run
\* backwards.
THEOREM AscendAlways == AppSpec => StampsAscend
<1>1. AppInit => Order /\ Rising
  <2> SUFFICES ASSUME AppInit PROVE Order /\ Rising
    OBVIOUS
  <2>1. /\ queue = << >> /\ fifo = << >> /\ shown = NoFrame /\ arrived = 0
        /\ clocked = 0 /\ freq \in Freqs
    BY DEF AppInit, Init
  <2>2. Known = {<<0, 0>>}
    BY <2>1 DEF Known, NoFrame
  <2>3. 0 =< Counter
    <3>1. 0 * freq = 0 /\ NsPerSec \in Nat \ {0}
      BY <2>1, TimestampAssumption
    <3> QED BY <2>1, <3>1, QuotientBounds DEF Counter
  <2>4. DOMAIN queue = {} /\ DOMAIN fifo = {} /\ shown.id = 0
    BY <2>1 DEF NoFrame
  <2> QED BY <2>1, <2>2, <2>3, <2>4 DEF Order, Increasing, Rising
<1>2. IInv /\ Order /\ [AppNext]_allVars => Order'
  BY OrderStep
<1>3. IInv /\ Order /\ Rising /\ [AppNext]_allVars => Rising'
  BY RisingStep
<1>4. IInv /\ IInv' /\ Order /\ Rising /\ [AppNext]_allVars
      => [RecvFrame /\ shown # NoFrame /\ Divides /\ ~slow /\ ~cut
             => /\ shown'.hw - shown.hw = (shown'.tick - shown.tick) * cantime2ns_mul
                /\ shown'.hw >= shown.hw]_allVars
  <2> SUFFICES ASSUME IInv, IInv', Order, Rising, RecvFrame, shown # NoFrame, Divides,
                      ~slow, ~cut
               PROVE  /\ shown'.hw - shown.hw = (shown'.tick - shown.tick) * cantime2ns_mul
                      /\ shown'.hw >= shown.hw
    OBVIOUS
  <2>1. UNCHANGED <<ref, refTick, freq, slow, cut>>
    BY DEF RecvFrame, vars, driver
  <2>2. shown.id < shown'.id /\ shown.id \in Nat /\ shown'.id \in Nat
    <3>1. shown.id \in Nat /\ shown'.id \in Nat
      BY Ids DEF IInv, TypeOK, Stamped
    <3> QED BY <3>1, OrderRecv
  <2>3. shown.tick =< shown'.tick
    <3>1. <<shown.id, shown.tick>> \in Known /\ <<shown'.id, shown'.tick>> \in Known
      BY RisingRecv DEF Known
    <3> QED BY <2>2, <3>1 DEF Rising
  <2>4. ref # NoRef /\ shown' # NoFrame
    BY <2>2, <2>1 DEF IInv, AllExact, NoFrame
  <2>5. /\ shown.hw = ref.ktime + (shown.tick - refTick) * cantime2ns_mul
        /\ shown'.hw = ref.ktime + (shown'.tick - refTick) * cantime2ns_mul
    BY <2>1, <2>4 DEF IInv, AllExact, Exact, Divides, NoFrame, NoRef, cantime2ns_mul
  <2>6. /\ shown.tick \in Nat /\ shown'.tick \in Nat /\ refTick \in Nat /\ ref.ktime \in Nat
        /\ cantime2ns_mul \in Nat
    BY FactorPositive DEF IInv, TypeOK, Stamped
  <2>7. (shown'.tick - shown.tick) * cantime2ns_mul \in Nat
    BY <2>3, <2>6, SMT
  <2> DEFINE m == cantime2ns_mul
             x == shown.tick
             y == shown'.tick
  <2> HIDE DEF m, x, y
  <2>8. ref.ktime + (y - refTick) * m - (ref.ktime + (x - refTick) * m) = (y - x) * m
    BY <2>6, SMT DEF m, x, y
  <2> QED BY <2>5, <2>6, <2>7, <2>8, SMT DEF m, x, y
<1> QED BY <1>1, <1>2, <1>3, <1>4, Invariance, PTL DEF AppSpec, StampsAscend
=============================================================================
