---------------------------- MODULE XCanRxProofs ----------------------------
(***************************************************************************)
(* Safety of the receive path for every set of CPUs, FIFO depth and quota, *)
(* with overflow, bus-off and restart; and, without those, the safety part *)
(* of what FrameFifo promises.                                             *)
(***************************************************************************)
EXTENDS XCanRx, SequenceTheorems, TLAPS

\* While a poll reads a frame, its quota leaves room to count it.
WorkLeft == \A c \in Cpus : ppc[c] = "rx" => work[c] < Quota

\* A restart that is pending or running has the core to itself: in configuration mode no
\* error bit is set, and the handler is not in its error branch.
RestartAlone ==
    /\ core = "config" => ~bsoff /\ ~rxoflw /\ ~error
    /\ timer \/ rpc # "idle" => core = "config"
    /\ rpc # "idle" => ~timer /\ ipc \notin {"errors", "bsoff", "oflw"}
    /\ ipc \in {"errors", "bsoff"} => ~timer
    /\ ipc = "bsoff" => "bsoff" \in seen
    /\ ipc = "oflw" /\ "bsoff" \notin seen => ~timer

\* The core is out of configuration mode, or a restart has set IER and will take it out.
Enabled == core # "config" \/ rpc = "start"

\* NeverDeaf from the moment a restart writes IER.
Listening ==
    Enabled /\ "rx" \notin ier =>
        sched \/ ipc = "schedule" \/ \E c \in Cpus : ppc[c] \in {"read", "unmask"}

\* A poll that is draining the FIFO is the one NAPI has scheduled, and where it has.
OneOwner == \A c \in Cpus : Draining(c) => sched /\ owner = c

\* The values of IER that wait to be written back hold the other interrupts too, unless
\* a restart came between.
OthersKept ==
    Enabled /\ ~raced =>
        /\ "other" \in ier
        /\ ipc = "mask" => "other" \in iier
        /\ \A c \in Cpus : ppc[c] = "unmask" => "other" \in pier[c]

\* Both hold at first.
LEMMA InitType == Init => TypeOK /\ WorkLeft
  <1> SUFFICES ASSUME Init PROVE TypeOK /\ WorkLeft
    OBVIOUS
  <1>1. fifo \in Seq(Nat) /\ Len(fifo) <= RxDepth /\ delivered \in Seq(Nat)
    BY RxAssumption DEF Init
  <1>2. /\ rxok \in BOOLEAN /\ rxnemp \in BOOLEAN
        /\ rxoflw \in BOOLEAN /\ bsoff \in BOOLEAN /\ error \in BOOLEAN
        /\ sched \in BOOLEAN /\ timer \in BOOLEAN /\ raced \in BOOLEAN
        /\ pisr \in [Cpus -> BOOLEAN]
    BY Zenon DEF Init
  <1>3. work \in [Cpus -> 0..Quota] /\ pier \in [Cpus -> SUBSET AllIrqs] /\ WorkLeft
    BY RxAssumption DEF Init, WorkLeft
  <1> QED
    BY <1>1, <1>2, <1>3 DEF Init, TypeOK, AllIrqs, AllCauses

\* So do the strengthenings of the safety invariants.
LEMMA InitSafe == Init => RestartAlone /\ Listening /\ OneOwner /\ OthersKept
  BY DEF Init, RestartAlone, Listening, OneOwner, OthersKept, Enabled, Draining, AllIrqs

\* Every step keeps the type, the quota and the depth of the FIFO.
LEMMA TypeStep == TypeOK /\ WorkLeft /\ [Next]_vars => TypeOK'
  <1> SUFFICES ASSUME TypeOK, WorkLeft, [Next]_vars PROVE TypeOK'
    OBVIOUS
  <1> USE RxAssumption DEF TypeOK, AllIrqs, AllCauses, NoFrame, vars, hw, bits, irq, napi,
        poll, rst, hist
  <1>1. CASE HwReceive
    BY <1>1 DEF HwReceive
  <1>2. CASE HwOverflow
    BY <1>2 DEF HwOverflow
  <1>3. CASE HwError
    BY <1>3 DEF HwError
  <1>4. CASE HwBusOff
    BY <1>4 DEF HwBusOff
  <1>5. CASE IrqAckErrors
    BY <1>5 DEF IrqAckErrors, AfterBusOff, AfterErrors
  <1>6. CASE IrqBusOff
    <2>1. /\ rxok' \in BOOLEAN /\ rxnemp' \in BOOLEAN
          /\ rxoflw' \in BOOLEAN /\ bsoff' \in BOOLEAN /\ error' \in BOOLEAN /\ timer' \in BOOLEAN
      BY <1>6, Zenon DEF IrqBusOff, SoftReset
    <2>2. fifo' \in Seq(Nat) /\ Len(fifo') <= RxDepth
      BY <1>6 DEF IrqBusOff, SoftReset
    <2> QED
      BY <1>6, <2>1, <2>2 DEF IrqBusOff, SoftReset, AfterBusOff, AfterErrors
  <1>7. CASE IrqOverflow
    <2>1. /\ rxok' \in BOOLEAN /\ rxnemp' \in BOOLEAN
          /\ rxoflw' \in BOOLEAN /\ bsoff' \in BOOLEAN /\ error' \in BOOLEAN /\ timer' \in BOOLEAN
      BY <1>7, Zenon DEF IrqOverflow, SoftReset
    <2>2. fifo' \in Seq(Nat) /\ Len(fifo') <= RxDepth
      BY <1>7 DEF IrqOverflow, SoftReset
    <2> QED
      BY <1>7, <2>1, <2>2 DEF IrqOverflow, SoftReset, AfterErrors
  <1>8. CASE IrqReadIer
    BY <1>8 DEF IrqReadIer
  <1>9. CASE IrqMask
    BY <1>9 DEF IrqMask
  <1>10. CASE IrqSchedule
    BY <1>10 DEF IrqSchedule
  <1>11. CASE RestartEnable
    <2>1. raced' \in BOOLEAN
      BY <1>11, Zenon DEF RestartEnable
    <2> QED
      BY <1>11, <2>1 DEF RestartEnable
  <1>12. CASE RestartStart
    BY <1>12 DEF RestartStart
  <1>13. CASE RestartTimeout
    BY <1>13 DEF RestartTimeout
  <1>14. ASSUME NEW c \in Cpus, IrqBegin(c) PROVE TypeOK'
    <2>1. seen' \subseteq AllCauses
      BY <1>14 DEF IrqBegin
    <2>2. ipc' \in {"errors", "read"} /\ icpu' = c
      BY <1>14 DEF IrqBegin
    <2>3. UNCHANGED <<hw, ier, iier, napi, poll, rst, hist, delivered>>
      BY <1>14 DEF IrqBegin
    <2> QED
      BY <2>1, <2>2, <2>3
  <1>15. ASSUME NEW c \in Cpus, RestartReset(c) PROVE TypeOK'
    <2>1. /\ rxok' \in BOOLEAN /\ rxnemp' \in BOOLEAN
          /\ rxoflw' \in BOOLEAN /\ bsoff' \in BOOLEAN /\ error' \in BOOLEAN /\ timer' \in BOOLEAN
      BY <1>15, Zenon DEF RestartReset, SoftReset
    <2>2. fifo' \in Seq(Nat) /\ Len(fifo') <= RxDepth
      BY <1>15 DEF RestartReset, SoftReset
    <2> QED
      BY <1>15, <2>1, <2>2 DEF RestartReset, SoftReset
  <1>16. ASSUME NEW c \in Cpus, PollBegin(c) PROVE TypeOK'
    BY <1>16 DEF PollBegin, At, Goto
  <1>17. ASSUME NEW c \in Cpus, PollMore(c) PROVE TypeOK'
    <2>1. rxok' \in BOOLEAN
      BY <1>17, Zenon DEF PollMore
    <2>2. ppc' \in [Cpus -> {"idle", "loop", "rx", "ack", "reread", "complete", "read",
                             "unmask"}]
      BY <1>17 DEF PollMore, Goto
    <2>3. UNCHANGED <<fifo, rxnemp, rxoflw, bsoff, error, core, ier, irq, napi, pisr, work,
                         pier, rst, hist, delivered>>
      BY <1>17 DEF PollMore
    <2> QED
      BY <2>1, <2>2, <2>3
  <1>18. ASSUME NEW c \in Cpus, PollDone(c) PROVE TypeOK'
    BY <1>18 DEF PollDone, At, Goto
  <1>19. ASSUME NEW c \in Cpus, PollRx(c) PROVE TypeOK'
    <2>1. fifo' \in Seq(Nat) /\ Len(fifo') <= RxDepth
      <3>1. CASE fifo = << >>
        BY <1>19, <3>1 DEF PollRx
      <3>2. CASE fifo # << >>
        BY <1>19, <3>2, HeadTailProperties DEF PollRx
      <3> QED
        BY <3>1, <3>2
    <2>2. delivered' \in Seq(Nat)
      <3>1. CASE fifo = << >>
        BY <1>19, <3>1, AppendProperties DEF PollRx
      <3>2. CASE fifo # << >>
        BY <1>19, <3>2, HeadTailProperties, AppendProperties DEF PollRx
      <3> QED
        BY <3>1, <3>2
    <2>3. work' \in [Cpus -> 0..Quota]
      <3>1. work[c] < Quota
        BY <1>19 DEF PollRx, At, WorkLeft
      <3>2. work' = [work EXCEPT ![c] = @ + 1]
        BY <1>19 DEF PollRx
      <3> QED
        BY <3>1, <3>2
    <2>4. ppc' \in [Cpus -> {"idle", "loop", "rx", "ack", "reread", "complete", "read",
                             "unmask"}]
      BY <1>19 DEF PollRx, Goto
    <2>5. UNCHANGED <<bits, irq, napi, pisr, rst>>
      BY <1>19 DEF PollRx
    <2>6. UNCHANGED <<core, ier, pier, hist>>
      BY <1>19 DEF PollRx
    <2>7. /\ rxok' \in BOOLEAN /\ rxnemp' \in BOOLEAN
          /\ rxoflw' \in BOOLEAN /\ bsoff' \in BOOLEAN /\ error' \in BOOLEAN
          /\ sched' \in BOOLEAN /\ timer' \in BOOLEAN /\ raced' \in BOOLEAN
          /\ pisr' \in [Cpus -> BOOLEAN]
      BY <2>5
    <2>8. /\ ier' \subseteq AllIrqs /\ core' \in {"normal", "busoff", "config"}
          /\ pier' \in [Cpus -> SUBSET AllIrqs]
          /\ arrived' \in Nat /\ lost' \in Nat /\ errors' \in Nat /\ busOffs' \in Nat
      BY <2>6
    <2>9. UNCHANGED <<ipc, icpu, seen, iier, owner, rpc, rcpu>>
      BY <2>5
    <2> QED
      BY <2>1, <2>2, <2>3, <2>4, <2>7, <2>8, <2>9
  <1>20. ASSUME NEW c \in Cpus, PollRxNoMem(c) PROVE TypeOK'
    BY <1>20 DEF PollRxNoMem, At, Goto
  <1>21. ASSUME NEW c \in Cpus, PollAck(c) PROVE TypeOK'
    <2>1. rxnemp' \in BOOLEAN
      BY <1>21, Zenon DEF PollAck
    <2>2. ppc' \in [Cpus -> {"idle", "loop", "rx", "ack", "reread", "complete", "read",
                             "unmask"}]
      BY <1>21 DEF PollAck, Goto
    <2>3. UNCHANGED <<fifo, rxok, rxoflw, bsoff, error, core, ier, irq, napi, pisr, work,
                         pier, rst, hist, delivered>>
      BY <1>21 DEF PollAck
    <2> QED
      BY <2>1, <2>2, <2>3
  <1>22. ASSUME NEW c \in Cpus, PollReread(c) PROVE TypeOK'
    BY <1>22 DEF PollReread, At, Goto
  <1>23. ASSUME NEW c \in Cpus, PollComplete(c) PROVE TypeOK'
    <2>1. sched' \in BOOLEAN
      BY <1>23, Zenon DEF PollComplete
    <2>2. ppc' \in [Cpus -> {"idle", "loop", "rx", "ack", "reread", "complete", "read",
                             "unmask"}]
      BY <1>23 DEF PollComplete, Goto
    <2>3. UNCHANGED <<hw, ier, irq, owner, pisr, work, pier, rst, hist, delivered>>
      BY <1>23 DEF PollComplete
    <2> QED
      BY <2>1, <2>2, <2>3
  <1>24. ASSUME NEW c \in Cpus, PollReadIer(c) PROVE TypeOK'
    BY <1>24 DEF PollReadIer, At, Goto
  <1>25. ASSUME NEW c \in Cpus, PollUnmask(c) PROVE TypeOK'
    BY <1>25 DEF PollUnmask, At, Goto
  <1>26. CASE UNCHANGED vars
    BY <1>26
  <1> QED
    BY <1>1, <1>2, <1>3, <1>4, <1>5, <1>6, <1>7, <1>8, <1>9, <1>10, <1>11, <1>12, <1>13,
       <1>14, <1>15, <1>16, <1>17, <1>18, <1>19, <1>20, <1>21, <1>22, <1>23, <1>24, <1>25, <1>26
    DEF Next, Hw, Irq, Restart, Poll

\* Only the loop condition leads to the read of a frame.
LEMMA WorkLeftStep == TypeOK /\ WorkLeft /\ [Next]_vars => WorkLeft'
  <1> SUFFICES ASSUME TypeOK, WorkLeft, [Next]_vars PROVE WorkLeft'
    OBVIOUS
  <1> USE DEF TypeOK, WorkLeft, vars, hw, bits, irq, napi, poll, rst, hist
  <1>1. CASE UNCHANGED poll
    BY <1>1
  <1>2. CASE \E c \in Cpus : Poll(c)
    <2> PICK c \in Cpus : Poll(c)
      BY <1>2
    <2>1. CASE PollMore(c)
      BY <2>1 DEF PollMore, At, Goto
    <2>2. CASE PollRx(c)
      BY <2>2 DEF PollRx, At, Goto
    <2>3. CASE PollBegin(c)
      BY <2>3 DEF PollBegin, At, Goto
    <2>4. CASE PollDone(c) \/ PollRxNoMem(c) \/ PollAck(c) \/ PollReread(c)
      BY <2>4 DEF PollDone, PollRxNoMem, PollAck, PollReread, At, Goto
    <2>5. CASE PollComplete(c) \/ PollReadIer(c) \/ PollUnmask(c)
      BY <2>5 DEF PollComplete, PollReadIer, PollUnmask, At, Goto
    <2> QED
      BY <2>1, <2>2, <2>3, <2>4, <2>5 DEF Poll
  <1> QED
    BY <1>1, <1>2 DEF Next, Hw, Irq, Restart, HwReceive, HwOverflow, HwError, HwBusOff,
       IrqBegin, IrqAckErrors, IrqBusOff, IrqOverflow, IrqReadIer, IrqMask, IrqSchedule,
       RestartReset, RestartEnable, RestartStart, RestartTimeout

\* The handler arms the timer at the end of its bus-off branch, after the reset has cleared
\* the error bits; the timer's function starts once that branch is left.
LEMMA RestartStep == TypeOK /\ RestartAlone /\ [Next]_vars => RestartAlone'
  <1> SUFFICES ASSUME TypeOK, RestartAlone, [Next]_vars PROVE RestartAlone'
    OBVIOUS
  <1> USE DEF TypeOK, RestartAlone, vars, hw, bits, irq, napi, poll, rst, hist
  <1>1. CASE HwReceive
    BY <1>1 DEF HwReceive
  <1>2. CASE HwOverflow
    BY <1>2 DEF HwOverflow
  <1>3. CASE HwError
    BY <1>3 DEF HwError
  <1>4. CASE HwBusOff
    BY <1>4 DEF HwBusOff
  <1>5. CASE IrqAckErrors
    BY <1>5 DEF IrqAckErrors, AfterBusOff, AfterErrors
  <1>6. CASE IrqBusOff
    BY <1>6 DEF IrqBusOff, AfterBusOff, AfterErrors, SoftReset
  <1>7. CASE IrqOverflow
    BY <1>7 DEF IrqOverflow, AfterErrors, SoftReset
  <1>8. CASE IrqReadIer
    BY <1>8 DEF IrqReadIer
  <1>9. CASE IrqMask
    BY <1>9 DEF IrqMask
  <1>10. CASE IrqSchedule
    BY <1>10 DEF IrqSchedule
  <1>11. CASE RestartEnable
    BY <1>11 DEF RestartEnable
  <1>12. CASE RestartStart
    BY <1>12 DEF RestartStart
  <1>13. CASE RestartTimeout
    BY <1>13 DEF RestartTimeout
  <1>14. ASSUME NEW c \in Cpus, IrqBegin(c) PROVE RestartAlone'
    BY <1>14 DEF IrqBegin
  <1>15. ASSUME NEW c \in Cpus, RestartReset(c) PROVE RestartAlone'
    BY <1>15 DEF RestartReset, SoftReset
  <1>16. ASSUME NEW c \in Cpus, PollBegin(c) PROVE RestartAlone'
    BY <1>16 DEF PollBegin, At, Goto
  <1>17. ASSUME NEW c \in Cpus, PollMore(c) PROVE RestartAlone'
    BY <1>17 DEF PollMore, At, Goto
  <1>18. ASSUME NEW c \in Cpus, PollDone(c) PROVE RestartAlone'
    BY <1>18 DEF PollDone, At, Goto
  <1>19. ASSUME NEW c \in Cpus, PollRx(c) PROVE RestartAlone'
    BY <1>19 DEF PollRx, At, Goto
  <1>20. ASSUME NEW c \in Cpus, PollRxNoMem(c) PROVE RestartAlone'
    BY <1>20 DEF PollRxNoMem, At, Goto
  <1>21. ASSUME NEW c \in Cpus, PollAck(c) PROVE RestartAlone'
    BY <1>21 DEF PollAck, At, Goto
  <1>22. ASSUME NEW c \in Cpus, PollReread(c) PROVE RestartAlone'
    BY <1>22 DEF PollReread, At, Goto
  <1>23. ASSUME NEW c \in Cpus, PollComplete(c) PROVE RestartAlone'
    BY <1>23 DEF PollComplete, At, Goto
  <1>24. ASSUME NEW c \in Cpus, PollReadIer(c) PROVE RestartAlone'
    BY <1>24 DEF PollReadIer, At, Goto
  <1>25. ASSUME NEW c \in Cpus, PollUnmask(c) PROVE RestartAlone'
    BY <1>25 DEF PollUnmask, At, Goto
  <1>26. CASE UNCHANGED vars
    BY <1>26
  <1> QED
    BY <1>1, <1>2, <1>3, <1>4, <1>5, <1>6, <1>7, <1>8, <1>9, <1>10, <1>11, <1>12, <1>13,
       <1>14, <1>15, <1>16, <1>17, <1>18, <1>19, <1>20, <1>21, <1>22, <1>23, <1>24, <1>25, <1>26
    DEF Next, Hw, Irq, Restart, Poll

\* No read-modify-write of IER leaves reception masked without somebody to unmask it.
LEMMA ListeningStep == TypeOK /\ RestartAlone /\ Listening /\ [Next]_vars => Listening'
  <1> SUFFICES ASSUME TypeOK, RestartAlone, Listening, [Next]_vars PROVE Listening'
    OBVIOUS
  <1> USE DEF TypeOK, RestartAlone, Listening, Enabled, AllIrqs, vars, hw, bits, irq, napi,
        poll, rst, hist
  <1>1. CASE HwReceive
    BY <1>1 DEF HwReceive
  <1>2. CASE HwOverflow
    BY <1>2 DEF HwOverflow
  <1>3. CASE HwError
    BY <1>3 DEF HwError
  <1>4. CASE HwBusOff
    BY <1>4 DEF HwBusOff
  <1>5. CASE IrqAckErrors
    BY <1>5 DEF IrqAckErrors, AfterBusOff, AfterErrors
  <1>6. CASE IrqBusOff
    BY <1>6 DEF IrqBusOff, AfterBusOff, AfterErrors, SoftReset
  <1>7. CASE IrqOverflow
    BY <1>7 DEF IrqOverflow, AfterErrors, SoftReset
  <1>8. CASE IrqReadIer
    BY <1>8 DEF IrqReadIer
  <1>9. CASE IrqMask
    BY <1>9 DEF IrqMask
  <1>10. CASE IrqSchedule
    BY <1>10 DEF IrqSchedule
  <1>11. CASE RestartEnable
    BY <1>11 DEF RestartEnable
  <1>12. CASE RestartStart
    BY <1>12 DEF RestartStart
  <1>13. CASE RestartTimeout
    BY <1>13 DEF RestartTimeout
  <1>14. ASSUME NEW c \in Cpus, IrqBegin(c) PROVE Listening'
    BY <1>14 DEF IrqBegin
  <1>15. ASSUME NEW c \in Cpus, RestartReset(c) PROVE Listening'
    BY <1>15 DEF RestartReset, SoftReset
  <1>16. ASSUME NEW c \in Cpus, PollBegin(c) PROVE Listening'
    BY <1>16 DEF PollBegin, At, Goto
  <1>17. ASSUME NEW c \in Cpus, PollMore(c) PROVE Listening'
    BY <1>17 DEF PollMore, At, Goto
  <1>18. ASSUME NEW c \in Cpus, PollDone(c) PROVE Listening'
    BY <1>18 DEF PollDone, At, Goto
  <1>19. ASSUME NEW c \in Cpus, PollRx(c) PROVE Listening'
    BY <1>19 DEF PollRx, At, Goto
  <1>20. ASSUME NEW c \in Cpus, PollRxNoMem(c) PROVE Listening'
    BY <1>20 DEF PollRxNoMem, At, Goto
  <1>21. ASSUME NEW c \in Cpus, PollAck(c) PROVE Listening'
    BY <1>21 DEF PollAck, At, Goto
  <1>22. ASSUME NEW c \in Cpus, PollReread(c) PROVE Listening'
    BY <1>22 DEF PollReread, At, Goto
  <1>23. ASSUME NEW c \in Cpus, PollComplete(c) PROVE Listening'
    BY <1>23 DEF PollComplete, At, Goto
  <1>24. ASSUME NEW c \in Cpus, PollReadIer(c) PROVE Listening'
    BY <1>24 DEF PollReadIer, At, Goto
  <1>25. ASSUME NEW c \in Cpus, PollUnmask(c) PROVE Listening'
    BY <1>25 DEF PollUnmask, At, Goto
  <1>26. CASE UNCHANGED vars
    BY <1>26
  <1> QED
    BY <1>1, <1>2, <1>3, <1>4, <1>5, <1>6, <1>7, <1>8, <1>9, <1>10, <1>11, <1>12, <1>13,
       <1>14, <1>15, <1>16, <1>17, <1>18, <1>19, <1>20, <1>21, <1>22, <1>23, <1>24, <1>25, <1>26
    DEF Next, Hw, Irq, Restart, Poll

\* NAPI gives the poll away only after the one that drains the FIFO is complete.
LEMMA OneOwnerStep == TypeOK /\ OneOwner /\ [Next]_vars => OneOwner'
  <1> SUFFICES ASSUME TypeOK, OneOwner, [Next]_vars PROVE OneOwner'
    OBVIOUS
  <1> USE DEF TypeOK, OneOwner, Draining, vars, hw, bits, irq, napi, poll, rst, hist
  <1>1. CASE HwReceive
    BY <1>1 DEF HwReceive
  <1>2. CASE HwOverflow
    BY <1>2 DEF HwOverflow
  <1>3. CASE HwError
    BY <1>3 DEF HwError
  <1>4. CASE HwBusOff
    BY <1>4 DEF HwBusOff
  <1>5. CASE IrqAckErrors
    BY <1>5 DEF IrqAckErrors, AfterBusOff, AfterErrors
  <1>6. CASE IrqBusOff
    BY <1>6 DEF IrqBusOff, AfterBusOff, AfterErrors, SoftReset
  <1>7. CASE IrqOverflow
    BY <1>7 DEF IrqOverflow, AfterErrors, SoftReset
  <1>8. CASE IrqReadIer
    BY <1>8 DEF IrqReadIer
  <1>9. CASE IrqMask
    BY <1>9 DEF IrqMask
  <1>10. CASE IrqSchedule
    BY <1>10 DEF IrqSchedule
  <1>11. CASE RestartEnable
    BY <1>11 DEF RestartEnable
  <1>12. CASE RestartStart
    BY <1>12 DEF RestartStart
  <1>13. CASE RestartTimeout
    BY <1>13 DEF RestartTimeout
  <1>14. ASSUME NEW c \in Cpus, IrqBegin(c) PROVE OneOwner'
    BY <1>14 DEF IrqBegin
  <1>15. ASSUME NEW c \in Cpus, RestartReset(c) PROVE OneOwner'
    BY <1>15 DEF RestartReset, SoftReset
  <1>16. ASSUME NEW c \in Cpus, PollBegin(c) PROVE OneOwner'
    BY <1>16 DEF PollBegin, At, Goto
  <1>17. ASSUME NEW c \in Cpus, PollMore(c) PROVE OneOwner'
    BY <1>17 DEF PollMore, At, Goto
  <1>18. ASSUME NEW c \in Cpus, PollDone(c) PROVE OneOwner'
    BY <1>18 DEF PollDone, At, Goto
  <1>19. ASSUME NEW c \in Cpus, PollRx(c) PROVE OneOwner'
    BY <1>19 DEF PollRx, At, Goto
  <1>20. ASSUME NEW c \in Cpus, PollRxNoMem(c) PROVE OneOwner'
    BY <1>20 DEF PollRxNoMem, At, Goto
  <1>21. ASSUME NEW c \in Cpus, PollAck(c) PROVE OneOwner'
    BY <1>21 DEF PollAck, At, Goto
  <1>22. ASSUME NEW c \in Cpus, PollReread(c) PROVE OneOwner'
    BY <1>22 DEF PollReread, At, Goto
  <1>23. ASSUME NEW c \in Cpus, PollComplete(c) PROVE OneOwner'
    BY <1>23 DEF PollComplete, At, Goto
  <1>24. ASSUME NEW c \in Cpus, PollReadIer(c) PROVE OneOwner'
    BY <1>24 DEF PollReadIer, At, Goto
  <1>25. ASSUME NEW c \in Cpus, PollUnmask(c) PROVE OneOwner'
    BY <1>25 DEF PollUnmask, At, Goto
  <1>26. CASE UNCHANGED vars
    BY <1>26
  <1> QED
    BY <1>1, <1>2, <1>3, <1>4, <1>5, <1>6, <1>7, <1>8, <1>9, <1>10, <1>11, <1>12, <1>13,
       <1>14, <1>15, <1>16, <1>17, <1>18, <1>19, <1>20, <1>21, <1>22, <1>23, <1>24, <1>25, <1>26
    DEF Next, Hw, Irq, Restart, Poll

\* A value of IER that was read while the other interrupts were enabled holds them.
LEMMA OthersStep == TypeOK /\ RestartAlone /\ OthersKept /\ [Next]_vars => OthersKept'
  <1> SUFFICES ASSUME TypeOK, RestartAlone, OthersKept, [Next]_vars PROVE OthersKept'
    OBVIOUS
  <1> USE DEF TypeOK, RestartAlone, OthersKept, Enabled, AllIrqs, vars, hw, bits, irq, napi,
        poll, rst, hist
  <1>1. CASE HwReceive
    BY <1>1 DEF HwReceive
  <1>2. CASE HwOverflow
    BY <1>2 DEF HwOverflow
  <1>3. CASE HwError
    BY <1>3 DEF HwError
  <1>4. CASE HwBusOff
    BY <1>4 DEF HwBusOff
  <1>5. CASE IrqAckErrors
    BY <1>5 DEF IrqAckErrors, AfterBusOff, AfterErrors
  <1>6. CASE IrqBusOff
    BY <1>6 DEF IrqBusOff, AfterBusOff, AfterErrors, SoftReset
  <1>7. CASE IrqOverflow
    BY <1>7 DEF IrqOverflow, AfterErrors, SoftReset
  <1>8. CASE IrqReadIer
    BY <1>8 DEF IrqReadIer
  <1>9. CASE IrqMask
    BY <1>9 DEF IrqMask
  <1>10. CASE IrqSchedule
    BY <1>10 DEF IrqSchedule
  <1>11. CASE RestartEnable
    BY <1>11 DEF RestartEnable
  <1>12. CASE RestartStart
    BY <1>12 DEF RestartStart
  <1>13. CASE RestartTimeout
    BY <1>13 DEF RestartTimeout
  <1>14. ASSUME NEW c \in Cpus, IrqBegin(c) PROVE OthersKept'
    BY <1>14 DEF IrqBegin
  <1>15. ASSUME NEW c \in Cpus, RestartReset(c) PROVE OthersKept'
    BY <1>15 DEF RestartReset, SoftReset
  <1>16. ASSUME NEW c \in Cpus, PollBegin(c) PROVE OthersKept'
    BY <1>16 DEF PollBegin, At, Goto
  <1>17. ASSUME NEW c \in Cpus, PollMore(c) PROVE OthersKept'
    BY <1>17 DEF PollMore, At, Goto
  <1>18. ASSUME NEW c \in Cpus, PollDone(c) PROVE OthersKept'
    BY <1>18 DEF PollDone, At, Goto
  <1>19. ASSUME NEW c \in Cpus, PollRx(c) PROVE OthersKept'
    BY <1>19 DEF PollRx, At, Goto
  <1>20. ASSUME NEW c \in Cpus, PollRxNoMem(c) PROVE OthersKept'
    BY <1>20 DEF PollRxNoMem, At, Goto
  <1>21. ASSUME NEW c \in Cpus, PollAck(c) PROVE OthersKept'
    BY <1>21 DEF PollAck, At, Goto
  <1>22. ASSUME NEW c \in Cpus, PollReread(c) PROVE OthersKept'
    BY <1>22 DEF PollReread, At, Goto
  <1>23. ASSUME NEW c \in Cpus, PollComplete(c) PROVE OthersKept'
    BY <1>23 DEF PollComplete, At, Goto
  <1>24. ASSUME NEW c \in Cpus, PollReadIer(c) PROVE OthersKept'
    BY <1>24 DEF PollReadIer, At, Goto
  <1>25. ASSUME NEW c \in Cpus, PollUnmask(c) PROVE OthersKept'
    BY <1>25 DEF PollUnmask, At, Goto
  <1>26. CASE UNCHANGED vars
    BY <1>26
  <1> QED
    BY <1>1, <1>2, <1>3, <1>4, <1>5, <1>6, <1>7, <1>8, <1>9, <1>10, <1>11, <1>12, <1>13,
       <1>14, <1>15, <1>16, <1>17, <1>18, <1>19, <1>20, <1>21, <1>22, <1>23, <1>24, <1>25, <1>26
    DEF Next, Hw, Irq, Restart, Poll

\* Every variable keeps the kind of value it was given; the FIFO keeps to its depth and a
\* poll to its quota.
THEOREM TypeCorrect == Spec => []TypeOK
  <1>1. Init => TypeOK /\ WorkLeft
    BY InitType
  <1>2. TypeOK /\ WorkLeft /\ [Next]_vars => TypeOK' /\ WorkLeft'
    BY TypeStep, WorkLeftStep
  <1> QED
    BY <1>1, <1>2, PTL DEF Spec

\* No error is handled while a restart is pending or running.
LEMMA Alone == Spec => []RestartAlone
  <1>1. Init => RestartAlone
    BY InitSafe
  <1>2. TypeOK /\ RestartAlone /\ [Next]_vars => RestartAlone'
    BY RestartStep
  <1> QED
    BY <1>1, <1>2, TypeCorrect, PTL DEF Spec

\* Reception is never left masked without a poll scheduled, running or about to unmask it:
\* the order of napi_complete and the IER accesses in xcan_rx_poll and of the IER
\* accesses and napi_schedule in xcan_interrupt is right for any number of CPUs.
THEOREM NotDeaf == Spec => []NeverDeaf
  <1>1. Init => Listening
    BY InitSafe
  <1>2. TypeOK /\ RestartAlone /\ Listening /\ [Next]_vars => Listening'
    BY ListeningStep
  <1>3. Listening => NeverDeaf
    BY DEF Listening, NeverDeaf, Enabled
  <1> QED
    BY <1>1, <1>2, <1>3, TypeCorrect, Alone, PTL DEF Spec

\* Two polls never drain the FIFO at the same time, although the end of one may run
\* beside the next.
THEOREM Exclusive == Spec => []OnePoller
  <1>1. Init => OneOwner
    BY InitSafe
  <1>2. TypeOK /\ OneOwner /\ [Next]_vars => OneOwner'
    BY OneOwnerStep
  <1>3. OneOwner => OnePoller
    BY DEF OneOwner, OnePoller
  <1> QED
    BY <1>1, <1>2, <1>3, TypeCorrect, PTL DEF Spec

\* The other interrupts get lost from IER only in a read-modify-write that a restart's
\* write of IER came between.
THEOREM OthersSafe == Spec => []OthersLostOnlyByRace
  <1>1. Init => OthersKept
    BY InitSafe
  <1>2. TypeOK /\ RestartAlone /\ OthersKept /\ [Next]_vars => OthersKept'
    BY OthersStep
  <1>3. OthersKept => OthersLostOnlyByRace
    BY DEF OthersKept, Enabled, OthersLostOnlyByRace, OthersEnabled
  <1> QED
    BY <1>1, <1>2, <1>3, TypeCorrect, Alone, PTL DEF Spec
-----------------------------------------------------------------------------
(* Order of delivery, in every instance *)

\* What InOrder rests on: the FIFO holds frames in the order of their arrival, each younger
\* than every frame delivered.
Younger ==
    /\ \A i \in 1..Len(fifo) : fifo[i] \in 1..arrived
    /\ \A i, j \in 1..Len(fifo) : i < j => fifo[i] < fifo[j]
    /\ \A i \in 1..Len(delivered) : delivered[i] <= arrived
    /\ \A i \in 1..Len(delivered), j \in 1..Len(fifo) : delivered[i] < fifo[j]
OrderInv == Younger /\ InOrder

\* How a step may change the FIFO and what has been delivered.
LEMMA FifoSteps ==
    ASSUME TypeOK, [Next]_vars
    PROVE  \/ HwReceive \/ \E c \in Cpus : PollRx(c)
           \/ fifo' = << >> /\ UNCHANGED <<arrived, delivered>>
           \/ UNCHANGED <<fifo, arrived, delivered>>
<1> USE DEF vars, hw, bits, hist
<1>1. CASE Hw
  BY <1>1 DEF Hw, HwOverflow, HwError, HwBusOff
<1>2. CASE Irq
  BY <1>2 DEF Irq, IrqBegin, IrqAckErrors, IrqBusOff, IrqOverflow, IrqReadIer, IrqMask,
     IrqSchedule, SoftReset
<1>3. CASE Restart
  BY <1>3 DEF Restart, RestartReset, RestartEnable, RestartStart, RestartTimeout, SoftReset
<1>4. ASSUME NEW c \in Cpus, Poll(c), ~PollRx(c) PROVE UNCHANGED <<fifo, arrived, delivered>>
  BY <1>4 DEF Poll, PollBegin, PollMore, PollDone, PollRxNoMem, PollAck, PollReread,
     PollComplete, PollReadIer, PollUnmask
<1>5. CASE UNCHANGED vars
  BY <1>5
<1> QED BY <1>1, <1>2, <1>3, <1>4, <1>5 DEF Next

\* A sequence with an element at its end,
LEMMA AtEnd ==
    ASSUME NEW s \in Seq(Nat), NEW e \in Nat
    PROVE  /\ Len(Append(s, e)) = Len(s) + 1 /\ Append(s, e)[Len(s) + 1] = e
           /\ \A i \in 1..Len(s) : Append(s, e)[i] = s[i]
BY AppendProperties

\* and without its first.
LEMMA AtFront ==
    ASSUME NEW s \in Seq(Nat), s # << >>
    PROVE  /\ Len(s) >= 1 /\ Len(Tail(s)) = Len(s) - 1 /\ Head(s) = s[1]
           /\ \A i \in 1..Len(Tail(s)) : Tail(s)[i] = s[i + 1]
BY HeadTailProperties, EmptySeq

\* A frame that arrives is younger than all the others.
LEMMA ArrivalOrdered ==
    ASSUME TypeOK, OrderInv, HwReceive
    PROVE  OrderInv'
<1>1. /\ fifo \in Seq(Nat) /\ arrived \in Nat /\ delivered \in Seq(Nat)
      /\ \A i \in 1..Len(delivered) : delivered[i] \in Nat
  BY DEF TypeOK
<1>2. fifo' = Append(fifo, arrived + 1) /\ arrived' = arrived + 1 /\ delivered' = delivered
  BY DEF HwReceive
<1>3. /\ Len(fifo') = Len(fifo) + 1 /\ fifo'[Len(fifo) + 1] = arrived + 1
      /\ \A i \in 1..Len(fifo) : fifo'[i] = fifo[i]
  BY <1>1, <1>2, AtEnd
<1>4. Len(fifo) \in Nat
  BY <1>1
<1> DEFINE n == Len(fifo)
<1>5. /\ \A i \in 1..n : fifo'[i] \in 1..arrived
      /\ \A i, j \in 1..n : i < j => fifo'[i] < fifo'[j]
  BY <1>3 DEF OrderInv, Younger
<1>6. /\ \A i \in 1..Len(fifo') : fifo'[i] \in 1..arrived'
      /\ \A i, j \in 1..Len(fifo') : i < j => fifo'[i] < fifo'[j]
  <2> HIDE DEF n
  <2>1. n \in Nat /\ arrived \in Nat
    BY <1>1, <1>4 DEF n
  <2>2. Len(fifo') = n + 1 /\ arrived' = arrived + 1 /\ fifo'[n + 1] = arrived + 1
    BY <1>2, <1>3 DEF n
  <2>3. \A i \in 1..(n + 1) : i \in 1..n \/ i = n + 1
    BY <2>1
  <2> QED BY <1>5, <2>1, <2>2, <2>3
<1>7. \A i \in 1..Len(delivered) : delivered[i] <= arrived'
  BY <1>1, <1>2 DEF OrderInv, Younger
<1>8. \A i \in 1..Len(delivered), j \in 1..Len(fifo') : delivered[i] < fifo'[j]
  <2> TAKE i \in 1..Len(delivered), j \in 1..Len(fifo')
  <2>1. j \in 1..Len(fifo) \/ j = Len(fifo) + 1
    BY <1>3, <1>4
  <2>2. delivered[i] \in Nat /\ delivered[i] <= arrived
    BY <1>1 DEF OrderInv, Younger
  <2>3. j \in 1..Len(fifo) => delivered[i] < fifo[j]
    BY DEF OrderInv, Younger
  <2> QED BY <1>1, <1>3, <2>1, <2>2, <2>3
<1>9. InOrder'
  BY <1>2, Zenon DEF OrderInv, InOrder
<1> QED BY <1>2, <1>6, <1>7, <1>8, <1>9 DEF OrderInv, Younger

\* xcan_rx delivers the eldest frame of the FIFO, or none when the FIFO is empty.
LEMMA DeliveryOrdered ==
    ASSUME TypeOK, OrderInv, NEW c \in Cpus, PollRx(c)
    PROVE  OrderInv'
<1>1. /\ fifo \in Seq(Nat) /\ arrived \in Nat /\ delivered \in Seq(Nat)
      /\ Len(fifo) \in Nat /\ Len(delivered) \in Nat
      /\ \A i \in 1..Len(delivered) : delivered[i] \in Nat
  BY DEF TypeOK
<1>2. arrived' = arrived
  BY DEF PollRx, hist
<1> DEFINE e == IF fifo = << >> THEN NoFrame ELSE Head(fifo)
<1>3. delivered' = Append(delivered, e)
  BY DEF PollRx
<1>4. CASE fifo = << >>
  <2>1. fifo' = << >> /\ e = 0 /\ Len(fifo') = 0
    BY <1>4 DEF PollRx, NoFrame
  <2>2. /\ Len(delivered') = Len(delivered) + 1 /\ delivered'[Len(delivered) + 1] = 0
        /\ \A i \in 1..Len(delivered) : delivered'[i] = delivered[i]
    BY <1>1, <1>3, <2>1, AtEnd
  <2>3. \A i \in 1..Len(delivered') : i \in 1..Len(delivered) \/ i = Len(delivered) + 1
    BY <1>1, <2>2
  <2>4. \A i \in 1..Len(delivered') : delivered'[i] <= arrived'
    <3>1. 0 <= arrived /\ \A i \in 1..Len(delivered) : delivered[i] <= arrived
      BY <1>1 DEF OrderInv, Younger
    <3> QED BY <1>2, <2>2, <2>3, <3>1
  <2>5. InOrder'
    <3> SUFFICES ASSUME NEW i \in 1..Len(delivered'), NEW j \in 1..Len(delivered'), i < j,
                        delivered'[j] # 0
                 PROVE  delivered'[i] < delivered'[j]
      BY DEF InOrder, NoFrame
    <3>1. i \in 1..Len(delivered) /\ j \in 1..Len(delivered)
      BY <1>1, <2>2, <2>3
    <3> QED BY <2>2, <3>1 DEF OrderInv, InOrder, NoFrame
  <2> QED BY <2>1, <2>4, <2>5 DEF OrderInv, Younger
<1>5. CASE fifo # << >>
  <2>1. fifo' = Tail(fifo) /\ e = fifo[1] /\ fifo[1] \in 1..arrived
    BY <1>1, <1>5, AtFront DEF PollRx, OrderInv, Younger
  <2>2. /\ Len(fifo) >= 1 /\ Len(fifo') = Len(fifo) - 1
        /\ \A i \in 1..Len(fifo') : fifo'[i] = fifo[i + 1]
    BY <1>1, <1>5, <2>1, AtFront
  <2>3. /\ Len(delivered') = Len(delivered) + 1 /\ delivered'[Len(delivered) + 1] = fifo[1]
        /\ \A i \in 1..Len(delivered) : delivered'[i] = delivered[i]
    BY <1>1, <1>3, <2>1, AtEnd
  <2>4. \A i \in 1..Len(fifo) : fifo[i] \in 1..arrived
    BY DEF OrderInv, Younger
  <2>5. \A i \in 1..Len(fifo') : i + 1 \in 1..Len(fifo) /\ 1 < i + 1
    BY <1>1, <2>2
  <2>6. \A i \in 1..Len(fifo') : fifo'[i] \in 1..arrived' /\ fifo[1] < fifo'[i]
    BY <1>1, <1>2, <2>2, <2>4, <2>5 DEF OrderInv, Younger
  <2>7. \A i, j \in 1..Len(fifo') : i < j => fifo'[i] < fifo'[j]
    <3> TAKE i, j \in 1..Len(fifo')
    <3>1. i < j => i + 1 < j + 1
      BY <1>1, <2>2
    <3>2. i + 1 < j + 1 => fifo[i + 1] < fifo[j + 1]
      BY <2>5 DEF OrderInv, Younger
    <3> QED BY <2>2, <3>1, <3>2
  <2>8. \A i \in 1..Len(delivered) : delivered[i] < fifo[1]
    BY <1>1, <2>2 DEF OrderInv, Younger
  <2>9. \A i \in 1..Len(delivered') : delivered'[i] <= arrived'
    <3> TAKE i \in 1..Len(delivered')
    <3>1. i \in 1..Len(delivered) \/ i = Len(delivered) + 1
      BY <1>1, <2>3
    <3>2. fifo[1] <= arrived
      BY <1>1, <2>1
    <3>3. i \in 1..Len(delivered) => delivered[i] <= arrived
      BY DEF OrderInv, Younger
    <3> QED BY <1>2, <2>3, <3>1, <3>2, <3>3
  <2>10. \A i \in 1..Len(delivered'), j \in 1..Len(fifo') : delivered'[i] < fifo'[j]
    <3> TAKE i \in 1..Len(delivered'), j \in 1..Len(fifo')
    <3>1. fifo[1] < fifo'[j] /\ fifo'[j] \in Nat
      BY <2>6, <1>1, <1>2
    <3>2. i \in 1..Len(delivered) => delivered'[i] < fifo[1] /\ delivered'[i] \in Nat
      BY <1>1, <2>3, <2>8
    <3>3. i \in 1..Len(delivered) \/ delivered'[i] = fifo[1]
      BY <1>1, <2>3
    <3> QED BY <3>1, <3>2, <3>3, <2>1
  <2>11. InOrder'
    <3> SUFFICES ASSUME NEW i \in 1..Len(delivered'), NEW j \in 1..Len(delivered'), i < j,
                        delivered'[j] # 0
                 PROVE  delivered'[i] < delivered'[j]
      BY DEF InOrder, NoFrame
    <3>1. i \in 1..Len(delivered) /\ (j \in 1..Len(delivered) \/ j = Len(delivered) + 1)
      <4>1. Len(delivered) \in Nat /\ Len(delivered') = Len(delivered) + 1 /\ i < j
        BY <1>1, <2>3
      <4> QED BY <4>1
    <3>2. CASE j \in 1..Len(delivered)
      BY <2>3, <3>1, <3>2 DEF OrderInv, InOrder, NoFrame
    <3>3. CASE j = Len(delivered) + 1
      BY <2>3, <2>8, <3>1, <3>3
    <3> QED BY <3>1, <3>2, <3>3
  <2> QED BY <2>6, <2>7, <2>9, <2>10, <2>11 DEF OrderInv, Younger
<1> QED BY <1>4, <1>5

\* A reset only drops frames, and no other step touches the FIFO or what has been delivered.
LEMMA OrderStep == TypeOK /\ OrderInv /\ [Next]_vars => OrderInv'
<1> SUFFICES ASSUME TypeOK, OrderInv, [Next]_vars PROVE OrderInv'
  OBVIOUS
<1>1. CASE fifo' = << >> /\ UNCHANGED <<arrived, delivered>>
  <2>1. Len(fifo') = 0 /\ InOrder'
    BY <1>1 DEF OrderInv, InOrder
  <2> QED BY <1>1, <2>1 DEF OrderInv, Younger
<1>2. CASE UNCHANGED <<fifo, arrived, delivered>>
  BY <1>2 DEF OrderInv, Younger, InOrder
<1> QED BY <1>1, <1>2, FifoSteps, ArrivalOrdered, DeliveryOrdered

\* No frame is delivered twice or after a younger one, for any number of CPUs and whatever
\* resets, restarts and ends of polls come between.
THEOREM DeliveredInOrder == Spec => []InOrder
<1>1. Init => OrderInv
  BY DEF Init, OrderInv, Younger, InOrder
<1>2. TypeOK /\ OrderInv /\ [Next]_vars => OrderInv'
  BY OrderStep
<1>3. OrderInv => InOrder
  BY DEF OrderInv
<1> QED BY <1>1, <1>2, <1>3, TypeCorrect, PTL DEF Spec

-----------------------------------------------------------------------------
(* With no overflow and no bus-off: what FrameFifo promises *)

\* Then the core runs all the time.
Calm == MaxOverflows = 0 /\ MaxBusOffs = 0
Running ==
    /\ core = "normal" /\ ~rxoflw /\ ~bsoff
    /\ seen \subseteq {"rx", "error"} /\ ipc \notin {"bsoff", "oflw"}
    /\ ~timer /\ rpc = "idle"

\* RXNEMP says that the FIFO holds a frame, except between the pop of the last one and the
\* ICR write; so a poll that goes on to read a frame finds one.
Truthful ==
    /\ rxnemp /\ fifo = << >> => \E c \in Cpus : ppc[c] = "ack"
    /\ \A c \in Cpus : (ppc[c] = "loop" /\ pisr[c]) \/ ppc[c] = "rx" => fifo # << >>

\* The frames that arrived are the delivered ones and then those in the FIFO.
Sequence ==
    /\ Len(delivered) + Len(fifo) = arrived
    /\ \A i \in 1..Len(delivered) : delivered[i] = i
    /\ \A i \in 1..Len(fifo) : fifo[i] = Len(delivered) + i

\* Nothing resets the core, so nothing clears the FIFO.
LEMMA RunningStep == TypeOK /\ Calm /\ Running /\ [Next]_vars => Running'
<1> SUFFICES ASSUME TypeOK, Calm, Running, [Next]_vars PROVE Running'
  OBVIOUS
<1> DEFINE same == UNCHANGED <<core, rxoflw, bsoff, seen, ipc, timer, rpc>>
<1>0. rxoflw \in BOOLEAN /\ bsoff \in BOOLEAN /\ timer \in BOOLEAN
  BY DEF TypeOK
<1>1. same => Running'
  BY <1>0 DEF Running
<1>2. CASE Hw
  <2>1. lost \in Nat /\ busOffs \in Nat
    BY DEF TypeOK
  <2>2. ~HwOverflow /\ ~HwBusOff
    BY <2>1 DEF Calm, HwOverflow, HwBusOff
  <2>3. HwReceive \/ HwError => same
    BY DEF HwReceive, HwError, irq, rst
  <2> QED BY <1>1, <1>2, <2>2, <2>3 DEF Hw
<1>3. CASE Irq
  <2>1. ASSUME NEW c \in Cpus, IrqBegin(c) PROVE Running'
    BY <2>1 DEF IrqBegin, Running, AllCauses, hw, bits, rst
  <2>2. CASE IrqAckErrors
    BY <2>2 DEF IrqAckErrors, AfterBusOff, AfterErrors, Running, rst
  <2>3. CASE IrqReadIer \/ IrqMask \/ IrqSchedule
    <3>1. UNCHANGED <<hw, seen, rst>> /\ ipc' \in {"mask", "schedule", "idle"}
      BY <2>3 DEF IrqReadIer, IrqMask, IrqSchedule
    <3>2. UNCHANGED <<core, rxoflw, bsoff, seen, timer, rpc>>
      BY <3>1 DEF hw, bits, rst
    <3> QED BY <1>0, <3>1, <3>2 DEF Running
  <2>4. ~IrqBusOff /\ ~IrqOverflow
    BY DEF IrqBusOff, IrqOverflow, Running
  <2> QED BY <1>3, <2>1, <2>2, <2>3, <2>4 DEF Irq
<1>4. ~Restart
  BY DEF Restart, RestartReset, RestartEnable, RestartStart, RestartTimeout, Running
<1>5. ASSUME NEW c \in Cpus, Poll(c) PROVE Running'
  <2>1. UNCHANGED <<core, rxoflw, bsoff, irq, rst>>
    BY <1>5 DEF Poll, PollBegin, PollMore, PollDone, PollRx, PollRxNoMem, PollAck, PollReread,
       PollComplete, PollReadIer, PollUnmask, hw, bits
  <2> QED BY <1>1, <2>1 DEF irq, rst
<1>6. CASE UNCHANGED vars
  BY <1>1, <1>6 DEF vars, hw, bits, irq, rst
<1> QED BY <1>2, <1>3, <1>4, <1>5, <1>6 DEF Next

\* Only the poll that drains the FIFO takes frames from it, and it looks at RXNEMP again
\* after the ICR write.
LEMMA TruthfulStep ==
    TypeOK /\ TypeOK' /\ Running /\ Running' /\ OneOwner /\ Truthful /\ [Next]_vars => Truthful'
<1> SUFFICES ASSUME TypeOK, TypeOK', Running, Running', OneOwner, Truthful, [Next]_vars
             PROVE  Truthful'
  OBVIOUS
<1>1. CASE HwReceive
  <2>1. fifo' = Append(fifo, arrived + 1) /\ fifo \in Seq(Nat) /\ arrived + 1 \in Nat
    BY <1>1 DEF HwReceive, TypeOK
  <2>2. fifo' # << >>
    BY <2>1, AppendProperties
  <2> QED BY <2>2 DEF Truthful
<1>2. CASE UNCHANGED <<fifo, rxnemp, poll>>
  BY <1>2 DEF Truthful, poll
<1>3. ASSUME NEW c \in Cpus, Poll(c) PROVE Truthful'
  <2>0. /\ ppc \in [Cpus -> {"idle", "loop", "rx", "ack", "reread", "complete", "read", "unmask"}]
        /\ pisr \in [Cpus -> BOOLEAN]
    BY DEF TypeOK
  <2>1. CASE PollBegin(c)
    <3>1. /\ fifo' = fifo /\ rxnemp' = rxnemp /\ ppc[c] = "idle" /\ owner = c
          /\ ppc' = [ppc EXCEPT ![c] = "loop"] /\ pisr' = [pisr EXCEPT ![c] = rxnemp]
      BY <2>1 DEF PollBegin, At, Goto, hw, bits
    <3>2. \A d \in Cpus : ppc[d] # "ack"
      BY <3>1 DEF OneOwner, Draining
    <3> QED BY <2>0, <3>1, <3>2 DEF Truthful
  <2>2. CASE PollMore(c)
    BY <2>0, <2>2 DEF PollMore, At, Goto, Truthful
  <2>3. CASE PollDone(c) \/ PollComplete(c) \/ PollReadIer(c) \/ PollUnmask(c)
    BY <2>0, <2>3 DEF PollDone, PollComplete, PollReadIer, PollUnmask, At, Goto, Truthful,
       hw, bits
  <2>4. CASE PollRx(c)
    <3>1. ppc[c] = "rx" /\ ppc' = [ppc EXCEPT ![c] = "ack"]
      BY <2>4 DEF PollRx, At, Goto
    <3>2. \A d \in Cpus : d # c => ppc'[d] = ppc[d] /\ ppc[d] \notin {"loop", "rx"}
      BY <2>0, <3>1 DEF OneOwner, Draining
    <3> QED BY <2>0, <3>1, <3>2 DEF Truthful
  <2>5. CASE PollRxNoMem(c)
    BY <2>0, <2>5 DEF PollRxNoMem, At, Goto, Truthful, hw, bits
  <2>6. CASE PollAck(c)
    BY <2>0, <2>6 DEF PollAck, At, Goto, Truthful
  <2>7. CASE PollReread(c)
    <3>1. /\ fifo' = fifo /\ rxnemp' = rxnemp /\ ppc[c] = "reread"
          /\ ppc' = [ppc EXCEPT ![c] = "loop"] /\ pisr' = [pisr EXCEPT ![c] = rxnemp]
      BY <2>7 DEF PollReread, At, Goto, hw, bits
    <3>2. \A d \in Cpus : ppc[d] # "ack"
      BY <3>1 DEF OneOwner, Draining
    <3> QED BY <2>0, <3>1, <3>2 DEF Truthful
  <2> QED BY <1>3, <2>1, <2>2, <2>3, <2>4, <2>5, <2>6, <2>7 DEF Poll
<1>4. CASE Irq
  BY <1>2, <1>4 DEF Irq, IrqBegin, IrqAckErrors, IrqBusOff, IrqOverflow, IrqReadIer, IrqMask,
     IrqSchedule, hw, bits, Running
<1>5. CASE HwOverflow \/ HwError \/ HwBusOff \/ UNCHANGED vars
  BY <1>2, <1>5 DEF HwOverflow, HwError, HwBusOff, vars, hw, bits
<1>6. ~Restart
  BY DEF Restart, RestartReset, RestartEnable, RestartStart, RestartTimeout, Running
<1> QED BY <1>1, <1>3, <1>4, <1>5, <1>6 DEF Next, Hw

\* The frame that arrives finds room and is the next.
LEMMA ArriveStep ==
    ASSUME TypeOK, Sequence, HwReceive
    PROVE  Sequence' /\ Promise!Arrive
<1>1. fifo \in Seq(Nat) /\ arrived \in Nat /\ Len(fifo) \in Nat /\ Len(delivered) \in Nat
  BY DEF TypeOK
<1>2. /\ Len(fifo) < RxDepth /\ fifo' = Append(fifo, arrived + 1)
      /\ arrived' = arrived + 1 /\ delivered' = delivered
  BY DEF HwReceive
<1>3. /\ Len(fifo') = Len(fifo) + 1 /\ fifo'[Len(fifo) + 1] = arrived + 1
      /\ \A i \in 1..Len(fifo) : fifo'[i] = fifo[i]
  BY <1>1, <1>2, AtEnd
<1>4. Len(delivered) + Len(fifo) = arrived
  BY DEF Sequence
<1>5. arrived - Len(delivered) < RxDepth
  BY <1>1, <1>2, <1>4, RxAssumption
<1>6. Len(delivered') + Len(fifo') = arrived'
  BY <1>1, <1>2, <1>3, <1>4
<1>7. \A i \in 1..Len(fifo') : fifo'[i] = Len(delivered') + i
  <2> TAKE i \in 1..Len(fifo')
  <2>1. i \in 1..Len(fifo) \/ i = Len(fifo) + 1
    BY <1>1, <1>3
  <2>2. CASE i \in 1..Len(fifo)
    BY <1>2, <1>3, <2>2 DEF Sequence
  <2>3. CASE i = Len(fifo) + 1
    BY <1>1, <1>2, <1>3, <1>4, <2>3
  <2> QED BY <2>1, <2>2, <2>3
<1> QED BY <1>2, <1>5, <1>6, <1>7 DEF Sequence, Promise!Arrive

\* The frame at the head of the FIFO is the next to deliver.
LEMMA DeliverStep ==
    ASSUME TypeOK, Truthful, Sequence, NEW c \in Cpus, PollRx(c)
    PROVE  Sequence' /\ Promise!Deliver
<1>1. /\ fifo \in Seq(Nat) /\ delivered \in Seq(Nat) /\ arrived \in Nat
      /\ Len(fifo) \in Nat /\ Len(delivered) \in Nat
  BY DEF TypeOK
<1>2. fifo # << >>
  BY DEF Truthful, PollRx, At
<1>3. arrived' = arrived /\ fifo' = Tail(fifo) /\ delivered' = Append(delivered, Head(fifo))
  BY <1>2 DEF PollRx, hist
<1>4. /\ Len(fifo) >= 1 /\ Len(fifo') = Len(fifo) - 1 /\ Head(fifo) = fifo[1]
      /\ \A i \in 1..Len(fifo') : fifo'[i] = fifo[i + 1]
  BY <1>1, <1>2, <1>3, AtFront
<1>5. Head(fifo) = Len(delivered) + 1
  BY <1>1, <1>4 DEF Sequence
<1>6. /\ Len(delivered') = Len(delivered) + 1 /\ delivered'[Len(delivered) + 1] = Head(fifo)
      /\ \A i \in 1..Len(delivered) : delivered'[i] = delivered[i]
  BY <1>1, <1>3, <1>5, AtEnd
<1>7. Len(delivered) + Len(fifo) = arrived
  BY DEF Sequence
<1>8. Len(delivered) < arrived /\ Len(delivered') + Len(fifo') = arrived'
  <2>1. /\ arrived' = arrived /\ Len(fifo') = Len(fifo) - 1
        /\ Len(delivered') = Len(delivered) + 1 /\ Len(fifo) >= 1
    BY <1>3, <1>4, <1>6
  <2>2. Len(fifo) \in Nat /\ Len(delivered) \in Nat /\ arrived \in Nat
    BY <1>1
  <2> QED BY <1>7, <2>1, <2>2
<1>9. \A i \in 1..Len(delivered') : delivered'[i] = i
  <2> TAKE i \in 1..Len(delivered')
  <2>1. i \in 1..Len(delivered) \/ i = Len(delivered) + 1
    BY <1>1, <1>6
  <2> QED BY <1>5, <1>6, <2>1 DEF Sequence
<1>10. \A i \in 1..Len(fifo') : fifo'[i] = Len(delivered') + i
  <2> TAKE i \in 1..Len(fifo')
  <2>1. i + 1 \in 1..Len(fifo) /\ i \in Nat
    BY <1>1, <1>4
  <2>2. fifo[i + 1] = Len(delivered) + (i + 1)
    BY <2>1 DEF Sequence
  <2> QED BY <1>1, <1>4, <1>6, <2>1, <2>2
<1> QED BY <1>3, <1>5, <1>8, <1>9, <1>10 DEF Sequence, Promise!Deliver

\* Every step of the receive path is one of FrameFifo or leaves what it speaks of alone.
LEMMA PromiseStep ==
    TypeOK /\ Running /\ Truthful /\ Sequence /\ [Next]_vars
    => Sequence' /\ [Promise!Next]_(Promise!vars)
<1> SUFFICES ASSUME TypeOK, Running, Truthful, Sequence, [Next]_vars
             PROVE  Sequence' /\ [Promise!Next]_(Promise!vars)
  OBVIOUS
<1>1. CASE HwReceive
  BY <1>1, ArriveStep DEF Promise!Next
<1>2. CASE \E c \in Cpus : PollRx(c)
  BY <1>2, DeliverStep DEF Promise!Next
<1>3. CASE UNCHANGED <<fifo, arrived, delivered>>
  BY <1>3 DEF Sequence, Promise!vars
<1>4. CASE Irq
  BY <1>3, <1>4 DEF Irq, IrqBegin, IrqAckErrors, IrqBusOff, IrqOverflow, IrqReadIer, IrqMask,
     IrqSchedule, hw, bits, hist, Running
<1>5. CASE HwOverflow \/ HwError \/ HwBusOff \/ UNCHANGED vars
  BY <1>3, <1>5 DEF HwOverflow, HwError, HwBusOff, vars, hw, bits, hist
<1>6. ~Restart
  BY DEF Restart, RestartReset, RestartEnable, RestartStart, RestartTimeout, Running
<1>7. ASSUME NEW c \in Cpus, Poll(c), ~PollRx(c) PROVE UNCHANGED <<fifo, arrived, delivered>>
  BY <1>7 DEF Poll, PollBegin, PollMore, PollDone, PollRxNoMem, PollAck, PollReread,
     PollComplete, PollReadIer, PollUnmask, hw, bits, hist
<1> QED BY <1>1, <1>2, <1>3, <1>4, <1>5, <1>6, <1>7 DEF Next, Hw

\* The safety part of Implements: when the FIFO never overflows and the bus never goes off,
\* every frame that arrives is delivered exactly once, in the order of arrival, however the
\* polls and the interrupts interleave; that none stays behind is left to TLC.
THEOREM KeepsPromise ==
    ASSUME Calm
    PROVE  Spec => Promise!Init /\ [][Promise!Next]_(Promise!vars)
<1>1. Init => Running /\ OneOwner /\ Truthful /\ Sequence /\ Promise!Init
  <2> SUFFICES ASSUME Init PROVE Running /\ OneOwner /\ Truthful /\ Sequence /\ Promise!Init
    OBVIOUS
  <2>1. Running /\ Truthful
    BY DEF Init, Running, Truthful
  <2> QED BY <2>1, InitSafe DEF Init, Sequence, Promise!Init
<1>2. TypeOK /\ Running /\ [Next]_vars => Running'
  BY RunningStep, Calm
<1>3. TypeOK /\ OneOwner /\ [Next]_vars => OneOwner'
  BY OneOwnerStep
<1>4. TypeOK /\ TypeOK' /\ Running /\ Running' /\ OneOwner /\ Truthful /\ [Next]_vars => Truthful'
  BY TruthfulStep
<1>5. TypeOK /\ Running /\ Truthful /\ Sequence /\ [Next]_vars
      => Sequence' /\ [Promise!Next]_(Promise!vars)
  BY PromiseStep
<1> QED BY <1>1, <1>2, <1>3, <1>4, <1>5, TypeCorrect, PTL DEF Spec
=============================================================================
