---------------------------- MODULE XCanErrProofs ----------------------------
(***************************************************************************)
(* Proofs about XCanErr.  TypeOK and the four invariants of its runs hold  *)
(* in every instance.  The four are about different parts of the state, so *)
(* each has a strengthening of its own, inductive with TypeOK; that of     *)
(* can.state (StateInv) rests on the others' facts about who is where.     *)
(***************************************************************************)
EXTENDS XCanErr, TLAPS

\* TypeOK, the flags apart from the rest.
Flags  == /\ ier \in BOOLEAN /\ iier \in BOOLEAN /\ masked \in BOOLEAN
          /\ rxhigh \in BOOLEAN /\ timer \in BOOLEAN /\ moved \in BOOLEAN
          /\ swallowed \in BOOLEAN /\ judged \in BOOLEAN /\ clobbered \in BOOLEAN
          /\ stranded \in BOOLEAN
Values == /\ events \in 0..MaxEvents /\ frames \in 0..MaxFrames
          /\ core \in {"config", "normal"} /\ tec \in 0..BusOffAt /\ rec \in 0..PassiveAt
          /\ esr \subseteq Kinds /\ isr \subseteq ErrCauses
          /\ ipc \in {"idle", "clear", "esr", "ack", "ecr", "sr", "bsoff", "judge", "oflw",
                      "report", "ier", "mask"}
          /\ seen \subseteq AllCauses /\ kinds \subseteq Kinds
          /\ status \in {"active", "warning", "passive", "none"}
          /\ rx \in {"none", "fifo", "due"} /\ pier \subseteq BOOLEAN
          /\ state \in States
          /\ pc \in {"down", "open", "u_candev", "u_irq", "up", "c_state", "c_irq", "c_candev"}
          /\ spc \in [Starters -> {"idle", "reset", "setup", "cen", "state", "done", "failed"}]
          /\ owed \subseteq Kinds /\ late \subseteq Kinds

\* The two parts make TypeOK.
LEMMA TypeParts == /\ TypeOK <=> Values /\ Flags
                   /\ TypeOK' <=> Values' /\ Flags'
BY Zenon DEF TypeOK, Values, Flags

\* What the handler has made of the error kinds at each of its stages.  Before it reads ESR
\* it holds no kinds, and when it is through none is late; if it did not see ERROR, every kind
\* that is owed and that it is about to clear is late; a kind is owed in ESR without ERROR in
\* ISR only while the handler, which has cleared ERROR, is on its way to ESR; and what is owed
\* in ESR when the handler is going to reset the core is late, or among what it counts.
Quiet   == {"idle", "ier", "mask"}
Empty   == /\ ipc = "idle" => seen = {}
           /\ ipc \in Quiet \union {"clear", "esr"} => kinds = {}
           /\ ipc \in Quiet => late = {}
Unseen  == "error" \notin seen =>
              /\ ipc \in {"clear", "esr"} => owed \intersect esr \subseteq late
              /\ ipc = "ack" => owed \intersect kinds \subseteq late
Flagged == "error" \notin isr => CASE ipc = "esr" -> TRUE
                                 [] ipc = "ack" -> owed \intersect esr \subseteq kinds
                                 [] OTHER       -> owed \intersect esr = {}
Counted == IF "error" \in seen THEN kinds ELSE {}
Wiped   == Doomed => owed \intersect esr \subseteq late \union Counted
KindsInv == Empty /\ Unseen /\ Flagged /\ Wiped /\ KindsAccounted

\* When the interface is up, or a start of xcan_open has seen the core in normal mode, a core
\* that is in configuration mode has a restart due, a restart that has not yet set CEN or has
\* failed, or a reason why it is stranded.  xcan_open starts the core only while it is in it.
OpenOnly == spc["open"] # "idle" => pc = "open"
CoreDead == (pc = "up" \/ spc["open"] \in {"state", "done"}) /\ core = "config" =>
               timer \/ stranded \/ spc["restart"] \in {"reset", "setup", "cen", "failed"}
DeadInv  == OpenOnly /\ CoreDead

\* Unless ECR has changed since, what the handler has read is what ECR says.
HonestInv == ~moved =>
                /\ ipc \in Comparing => (rxhigh <=> rec >= PassiveAt)
                /\ ipc = "judge" /\ status = "passive" => tec >= PassiveAt \/ rec >= PassiveAt

\* A core in configuration mode has counted nothing and shows no interrupt.
ConfigClean == core = "config" => /\ tec = 0 /\ rec = 0 /\ esr = {} /\ isr = {}
                                  /\ rx # "fifo" /\ ~swallowed

\* free_irq has waited for the handler.
IrqQuiet == pc \in {"down", "c_candev"} => ipc = "idle"

\* The handler resets the core only for a BSOFF or an overflow that it has seen.
BranchSeen == /\ ipc = "bsoff" => "bsoff" \in seen
              /\ ipc = "oflw" => "rxoflw" \in seen

\* A start of the core that has not yet set CEN has the core to itself: it is off the bus, no
\* restart is due, the handler has no bus-off to judge and the other starter is further on.
Early == {"reset", "setup", "cen"}
StartsAlone ==
    /\ \A w \in Starters : spc[w] \in Early => core = "config" /\ ~timer /\ "bsoff" \notin seen
    /\ ~(spc["open"] \in Early /\ spc["restart"] \in Early)

\* While a restart is due the core is off and the handler has nothing left to judge.
TimerAlone == timer => core = "config" /\ ipc \in Quiet \union {"oflw", "report"}

\* Where the handler is before it has read SR.
Looking == {"clear", "esr", "ack", "ecr", "sr"}

\* A bus-off is shown by ISR, or the handler has seen it, or has cleared it unseen.
BusOffShown == BusOff => \/ "bsoff" \in isr \/ swallowed
                         \/ "bsoff" \in seen /\ ipc \in Looking \union {"bsoff"}

\* What the handler has read of SR is as bad as the core still is, unless an interrupt is
\* due again.
StatusRank == CASE status = "passive" -> 2 [] status = "warning" -> 1 [] OTHER -> 0
Due == isr \intersect {"error", "bsoff"} # {}
StatusFresh == ipc = "judge" => Due \/ swallowed \/ StatusRank >= Level

\* can.state is going to be judged again.
Pending == Due \/ ipc \in Looking \union {"judge", "bsoff"}

\* The interface is up, or xcan_open has reset the core.
Live == pc = "up" \/ spc["open"] \in {"setup", "cen", "state", "done"}

\* A core that is worse than active was judged, or is going to be; and what was judged, and
\* not overwritten since, is as bad as the core unless it is judged again.
Judged == Live /\ Level > 0 => Pending \/ judged \/ clobbered \/ swallowed
Upheld == Live /\ judged /\ ~clobbered => Pending \/ swallowed \/ Rank[state] >= Level

\* The clauses about the core, the handler and the starts, and those about can.state.
Front == ConfigClean /\ IrqQuiet /\ BranchSeen /\ StartsAlone /\ TimerAlone /\ BusOffShown
StateInv == Front /\ StatusFresh /\ Judged /\ Upheld

-----------------------------------------------------------------------------
(* Every step preserves each part *)

\* No step takes a variable out of its type.
LEMMA ValuesKept ==
    ASSUME TypeOK, Next
    PROVE  Values'
<1>1. ASSUME NEW k \in Kinds, HwError(k) PROVE Values'
  BY <1>1, ErrAssumption
  DEF tails, HwError, Happens, OnBus, Comparing, locals, runs, Values, TypeOK, Kinds,
      AllCauses, ErrCauses
<1>2. ASSUME HwGood PROVE Values'
  BY <1>2, ErrAssumption
  DEF tails, HwGood, Happens, OnBus, Comparing, locals, runs, Values, TypeOK
<1>3. ASSUME NEW b \in {"arblst", "rxoflw"}, HwCause(b) PROVE Values'
  BY <1>3, ErrAssumption
  DEF tails, HwCause, Happens, OnBus, locals, runs, hist, Values, TypeOK, AllCauses, ErrCauses
<1>4. ASSUME IrqBegin PROVE Values'
  BY <1>4 DEF tails, IrqBegin, IrqAt, regs, runs, hist, Values, TypeOK, AllCauses, ErrCauses
<1>5. ASSUME IrqClear PROVE Values'
  BY <1>5 DEF tails, IrqClear, IrqAt, locals, runs, Values, TypeOK, AllCauses, ErrCauses
<1>6. ASSUME IrqEsr PROVE Values'
  BY <1>6 DEF tails, IrqEsr, IrqAt, regs, runs, hist, Values, TypeOK
<1>7. ASSUME IrqAckEsr PROVE Values'
  BY <1>7 DEF tails, IrqAckEsr, IrqAt, locals, runs, hist, Values, TypeOK
<1>8. ASSUME IrqEcr PROVE Values'
  BY <1>8 DEF tails, IrqEcr, IrqAt, regs, runs, hist, Values, TypeOK
<1>9. ASSUME IrqSr PROVE Values'
  BY <1>9, ErrAssumption
  DEF tails, IrqSr, IrqAt, Status, OnBus, regs, runs, hist, Values, TypeOK
<1>10. ASSUME IrqBusOff PROVE Values'
  BY <1>10, ErrAssumption
  DEF tails, IrqBusOff, IrqAt, AfterJudging, SoftReset, Comparing, Values, TypeOK, States,
      Starters
<1>11. ASSUME IrqJudge PROVE Values'
  BY <1>11 DEF tails, IrqJudge, IrqAt, AfterJudging, regs, runs, Values, TypeOK, States
<1>12. ASSUME IrqOverflow PROVE Values'
  BY <1>12, ErrAssumption
  DEF tails, IrqOverflow, IrqAt, SoftReset, Comparing, locals, runs, Values, TypeOK
<1>13. ASSUME IrqReport PROVE Values'
  BY <1>13 DEF tails, IrqReport, IrqAt, regs, runs, Values, TypeOK, AllCauses, ErrCauses
<1>14. ASSUME NEW w \in Starters, StartReset(w) PROVE Values'
  BY <1>14, ErrAssumption
  DEF tails, StartReset, StartAt, SoftReset, Comparing, locals, Values, TypeOK, Starters
<1>15. ASSUME NEW w \in Starters, StartSetup(w) PROVE Values'
  BY <1>15 DEF tails, StartSetup, StartAt, locals, hist, Values, TypeOK, Starters
<1>16. ASSUME NEW w \in Starters, StartCen(w) PROVE Values'
  BY <1>16 DEF tails, StartCen, StartAt, locals, hist, Values, TypeOK, Starters
<1>17. ASSUME NEW w \in Starters, StartTimeout(w) PROVE Values'
  <2> USE DEF tails, Starters, Values, TypeOK, Kinds, locals, runs, hist
  <2>1. CASE StartAt(w, "reset", "failed") /\ UNCHANGED regs
    BY <1>17, <2>1 DEF tails, StartTimeout, StartAt, regs
  <2>2. CASE StartAt(w, "cen", "failed") /\ core' \in {core, "normal"}
             /\ UNCHANGED <<tec, rec, esr, isr, ier>>
    BY <1>17, <2>2 DEF tails, StartTimeout, StartAt, regs
  <2> QED BY <1>17, <2>1, <2>2 DEF tails, StartTimeout
<1>18. ASSUME NEW w \in Starters, StartResetTimeout(w) PROVE Values'
  BY <1>18, ErrAssumption
  DEF tails, StartResetTimeout, StartAt, SoftReset, Comparing, locals, Values, TypeOK, Starters
<1>19. ASSUME NEW w \in Starters, StartState(w) PROVE Values'
  BY <1>19 DEF tails, StartState, StartAt, regs, locals, Values, TypeOK, States, Starters
<1>20. ASSUME RestartBegin PROVE Values'
  BY <1>20 DEF tails, RestartBegin, StartAt, regs, locals, hist, Values, TypeOK, Starters
<1>21. ASSUME RestartEnd PROVE Values'
  BY <1>21 DEF tails, RestartEnd, StartAt, regs, locals, Values, TypeOK, Starters
<1>22. ASSUME OpenBegin PROVE Values'
  BY <1>22 DEF tails, OpenBegin, Thread, locals, StartAt, regs, hist, Values, TypeOK, Starters
<1>23. ASSUME OpenEnd PROVE Values'
  BY <1>23 DEF tails, OpenEnd, Thread, locals, StartAt, regs, hist, Values, TypeOK, Starters
<1>24. ASSUME UnwindCandev PROVE Values'
  BY <1>24 DEF tails, UnwindCandev, Thread, locals, regs, hist, Values, TypeOK, Starters
<1>25. ASSUME UnwindIrq PROVE Values'
  BY <1>25 DEF tails, UnwindIrq, Thread, locals, regs, hist, Values, TypeOK, Starters
<1>26. ASSUME CloseChip PROVE Values'
  BY <1>26, ErrAssumption
  DEF tails, CloseChip, Thread, locals, SoftReset, Comparing, Values, TypeOK, Starters
<1>27. ASSUME CloseState PROVE Values'
  BY <1>27 DEF tails, CloseState, Thread, locals, regs, hist, Values, TypeOK, States, Starters
<1>28. ASSUME CloseIrq PROVE Values'
  BY <1>28 DEF tails, CloseIrq, Thread, locals, regs, hist, Values, TypeOK, Starters
<1>29. ASSUME CloseCandev PROVE Values'
  BY <1>29 DEF tails, CloseCandev, Thread, locals, regs, hist, Values, TypeOK, Starters
<1>30. ASSUME HwFrame PROVE Values'
  BY <1>30, ErrAssumption DEF tails, HwFrame, OnBus, regs, locals, runs, hist, Values, TypeOK
<1>31. ASSUME IrqReadIer PROVE Values'
  BY <1>31 DEF tails, IrqReadIer, IrqAt, regs, locals, runs, hist, Values, TypeOK
<1>32. ASSUME IrqMask PROVE Values'
  BY <1>32 DEF tails, IrqMask, WriteBack, IrqAt, regs, locals, runs, hist, Values, TypeOK
<1>33. ASSUME PollReadIer PROVE Values'
  BY <1>33 DEF tails, PollReadIer, regs, locals, runs, hist, Values, TypeOK
<1>34. ASSUME PollUnmask PROVE Values'
  BY <1>34 DEF tails, PollUnmask, WriteBack, regs, locals, runs, hist, Values, TypeOK
<1> QED
  BY <1>1, <1>2, <1>3, <1>4, <1>5, <1>6, <1>7, <1>8, <1>9, <1>10, <1>11, <1>12, <1>13,
     <1>14, <1>15, <1>16, <1>17, <1>18, <1>19, <1>20, <1>21, <1>22, <1>23, <1>24, <1>25,
     <1>26, <1>27, <1>28, <1>29, <1>30, <1>31, <1>32, <1>33, <1>34
  DEF Next, Hw, Irq, IrqRest, Poll, Restart, Start, Calls, Starters

\* No step takes a flag out of BOOLEAN.
LEMMA FlagsKept ==
    ASSUME TypeOK, Next
    PROVE  Flags'
<1>1. ASSUME NEW k \in Kinds, HwError(k) PROVE Flags'
  <2>1. moved' \in BOOLEAN
    BY <1>1 DEF HwError
  <2> QED
    BY <1>1, <2>1, Zenon DEF tails, HwError, Happens, OnBus, locals, runs, Flags, TypeOK
<1>2. ASSUME HwGood PROVE Flags'
  <2>1. moved' \in BOOLEAN
    BY <1>2 DEF HwGood
  <2> QED
    BY <1>2, <2>1, Zenon DEF tails, HwGood, Happens, OnBus, locals, runs, Flags, TypeOK
<1>3. ASSUME NEW b \in {"arblst", "rxoflw"}, HwCause(b) PROVE Flags'
  BY <1>3, Zenon DEF tails, HwCause, Happens, OnBus, locals, runs, hist, Flags, TypeOK
<1>4. ASSUME IrqBegin PROVE Flags'
  BY <1>4, Zenon DEF tails, IrqBegin, IrqAt, regs, runs, hist, Flags, TypeOK
<1>5. ASSUME IrqClear PROVE Flags'
  BY <1>5, Zenon DEF tails, IrqClear, IrqAt, locals, runs, Flags, TypeOK
<1>6. ASSUME IrqEsr PROVE Flags'
  BY <1>6, Zenon DEF tails, IrqEsr, IrqAt, regs, runs, hist, Flags, TypeOK
<1>7. ASSUME IrqAckEsr PROVE Flags'
  BY <1>7, Zenon DEF tails, IrqAckEsr, IrqAt, locals, runs, hist, Flags, TypeOK
<1>8. ASSUME IrqEcr PROVE Flags'
  <2>1. rxhigh' \in BOOLEAN
    BY <1>8 DEF tails, IrqEcr
  <2> QED BY <1>8, <2>1, Zenon DEF tails, IrqEcr, Flags, TypeOK, regs, runs, hist
<1>9. ASSUME IrqSr PROVE Flags'
  BY <1>9, Zenon DEF tails, IrqSr, IrqAt, Status, OnBus, regs, runs, hist, Flags, TypeOK
<1>10. ASSUME IrqBusOff PROVE Flags'
  <2>1. moved' \in BOOLEAN
    BY <1>10 DEF IrqBusOff, SoftReset
  <2> QED
    BY <1>10, <2>1, Zenon
    DEF tails, IrqBusOff, IrqAt, AfterJudging, SoftReset, Flags, TypeOK
<1>11. ASSUME IrqJudge PROVE Flags'
  BY <1>11, Zenon DEF tails, IrqJudge, IrqAt, AfterJudging, regs, runs, Flags, TypeOK
<1>12. ASSUME IrqOverflow PROVE Flags'
  <2>1. moved' \in BOOLEAN
    BY <1>12 DEF IrqOverflow, SoftReset
  <2> QED
    BY <1>12, <2>1, Zenon
    DEF tails, IrqOverflow, IrqAt, SoftReset, locals, runs, Flags, TypeOK
<1>13. ASSUME IrqReport PROVE Flags'
  BY <1>13, Zenon DEF tails, IrqReport, IrqAt, regs, runs, Flags, TypeOK
<1>14. ASSUME NEW w \in Starters, StartReset(w) PROVE Flags'
  <2>1. moved' \in BOOLEAN
    BY <1>14 DEF StartReset, SoftReset
  <2> QED
    BY <1>14, <2>1, Zenon DEF tails, StartReset, StartAt, SoftReset, locals, Flags, TypeOK
<1>15. ASSUME NEW w \in Starters, StartSetup(w) PROVE Flags'
  BY <1>15, Zenon DEF tails, StartSetup, StartAt, locals, hist, Flags, TypeOK
<1>16. ASSUME NEW w \in Starters, StartCen(w) PROVE Flags'
  BY <1>16, Zenon DEF tails, StartCen, StartAt, locals, hist, Flags, TypeOK
<1>17. ASSUME NEW w \in Starters, StartTimeout(w) PROVE Flags'
  BY <1>17, Zenon DEF tails, StartTimeout, StartAt, regs, locals, hist, Flags, TypeOK
<1>18. ASSUME NEW w \in Starters, StartResetTimeout(w) PROVE Flags'
  <2>1. moved' \in BOOLEAN
    BY <1>18 DEF StartResetTimeout, SoftReset
  <2> QED
    BY <1>18, <2>1, Zenon
    DEF tails, StartResetTimeout, StartAt, SoftReset, locals, Flags, TypeOK
<1>19. ASSUME NEW w \in Starters, StartState(w) PROVE Flags'
  BY <1>19, Zenon DEF tails, StartState, StartAt, regs, locals, Flags, TypeOK
<1>20. ASSUME RestartBegin PROVE Flags'
  BY <1>20, Zenon DEF tails, RestartBegin, StartAt, regs, locals, hist, Flags, TypeOK
<1>21. ASSUME RestartEnd PROVE Flags'
  BY <1>21, Zenon DEF tails, RestartEnd, StartAt, regs, locals, Flags, TypeOK
<1>22. ASSUME OpenBegin PROVE Flags'
  BY <1>22, Zenon DEF tails, OpenBegin, Thread, locals, StartAt, regs, hist, Flags, TypeOK
<1>23. ASSUME OpenEnd PROVE Flags'
  BY <1>23, Zenon DEF tails, OpenEnd, Thread, locals, StartAt, regs, hist, Flags, TypeOK
<1>24. ASSUME UnwindCandev PROVE Flags'
  BY <1>24, Zenon DEF tails, UnwindCandev, Thread, locals, regs, hist, Flags, TypeOK
<1>25. ASSUME UnwindIrq PROVE Flags'
  BY <1>25, Zenon DEF tails, UnwindIrq, Thread, locals, regs, hist, Flags, TypeOK
<1>26. ASSUME CloseChip PROVE Flags'
  <2>1. moved' \in BOOLEAN
    BY <1>26 DEF CloseChip, SoftReset
  <2> QED
    BY <1>26, <2>1, Zenon DEF tails, CloseChip, Thread, locals, SoftReset, Flags, TypeOK
<1>27. ASSUME CloseState PROVE Flags'
  BY <1>27, Zenon DEF tails, CloseState, Thread, locals, regs, hist, Flags, TypeOK
<1>28. ASSUME CloseIrq PROVE Flags'
  BY <1>28, Zenon DEF tails, CloseIrq, Thread, locals, regs, hist, Flags, TypeOK
<1>29. ASSUME CloseCandev PROVE Flags'
  BY <1>29, Zenon DEF tails, CloseCandev, Thread, locals, regs, hist, Flags, TypeOK
<1>30. ASSUME HwFrame PROVE Flags'
  BY <1>30, Zenon DEF tails, HwFrame, OnBus, regs, locals, runs, hist, Flags, TypeOK
<1>31. ASSUME IrqReadIer PROVE Flags'
  BY <1>31, Zenon DEF tails, IrqReadIer, IrqAt, regs, locals, runs, hist, Flags, TypeOK
<1>32. ASSUME IrqMask PROVE Flags'
  BY <1>32, Zenon DEF tails, IrqMask, WriteBack, IrqAt, regs, locals, runs, hist, Flags, TypeOK
<1>33. ASSUME PollReadIer PROVE Flags'
  BY <1>33, Zenon DEF tails, PollReadIer, regs, locals, runs, hist, Flags, TypeOK
<1>34. ASSUME PollUnmask PROVE Flags'
  BY <1>34, Zenon DEF tails, PollUnmask, WriteBack, regs, locals, runs, hist, Flags, TypeOK
<1> QED
  BY <1>1, <1>2, <1>3, <1>4, <1>5, <1>6, <1>7, <1>8, <1>9, <1>10, <1>11, <1>12, <1>13,
     <1>14, <1>15, <1>16, <1>17, <1>18, <1>19, <1>20, <1>21, <1>22, <1>23, <1>24, <1>25,
     <1>26, <1>27, <1>28, <1>29, <1>30, <1>31, <1>32, <1>33, <1>34
  DEF Next, Hw, Irq, IrqRest, Poll, Restart, Start, Calls, Starters

\* No step of the handler, of the core or of a reset loses an error kind.
LEMMA KindsKept ==
    ASSUME TypeOK, Front, KindsInv, Next
    PROVE  KindsInv'
<1> USE DEF KindsInv, Empty, Unseen, Flagged, Counted, Wiped, Doomed, KindsAccounted, Quiet
<1>1. ASSUME NEW k \in Kinds, HwError(k) PROVE KindsInv'
  BY <1>1
  DEF HwError, Happens, OnBus, Comparing, locals, runs, Blind
<1>2. ASSUME HwGood PROVE KindsInv'
  BY <1>2
  DEF HwGood, Happens, OnBus, Comparing, locals, runs
<1>3. ASSUME NEW b \in {"arblst", "rxoflw"}, HwCause(b) PROVE KindsInv'
  BY <1>3
  DEF HwCause, Happens, OnBus, locals, runs, hist
<1>4. ASSUME IrqBegin PROVE KindsInv'
  BY <1>4
  DEF IrqBegin, IrqAt, regs, runs, hist
<1>5. ASSUME IrqClear PROVE KindsInv'
  BY <1>5
  DEF IrqClear, IrqAt, locals, runs
<1>6. ASSUME IrqEsr PROVE KindsInv'
  BY <1>6
  DEF IrqEsr, IrqAt, regs, runs, hist
<1>7. ASSUME IrqAckEsr PROVE KindsInv'
  BY <1>7
  DEF IrqAckEsr, IrqAt, locals, runs, hist
<1>8. ASSUME IrqEcr PROVE KindsInv'
  BY <1>8
  DEF IrqEcr, IrqAt, regs, runs, hist
<1>9. ASSUME IrqSr PROVE KindsInv'
  BY <1>9
  DEF IrqSr, IrqAt, Status, OnBus, regs, runs, hist
<1>10. ASSUME IrqBusOff PROVE KindsInv'
  BY <1>10
  DEF IrqBusOff, IrqAt, AfterJudging, SoftReset, Comparing,
      Front, BranchSeen
<1>11. ASSUME IrqJudge PROVE KindsInv'
  BY <1>11
  DEF IrqJudge, IrqAt, AfterJudging, regs, runs
<1>12. ASSUME IrqOverflow PROVE KindsInv'
  BY <1>12
  DEF IrqOverflow, IrqAt, SoftReset, Comparing, locals, runs,
      Front, BranchSeen
<1>13. ASSUME IrqReport PROVE KindsInv'
  BY <1>13
  DEF IrqReport, IrqAt, regs, runs
<1>14. ASSUME NEW w \in Starters, StartReset(w) PROVE KindsInv'
  BY <1>14
  DEF StartReset, StartAt, SoftReset, Comparing, locals,
      Front, ConfigClean, StartsAlone, Early
<1>15. ASSUME NEW w \in Starters, StartSetup(w) PROVE KindsInv'
  BY <1>15
  DEF StartSetup, StartAt, locals, hist
<1>16. ASSUME NEW w \in Starters, StartCen(w) PROVE KindsInv'
  BY <1>16
  DEF StartCen, StartAt, locals, hist
<1>17. ASSUME NEW w \in Starters, StartTimeout(w) PROVE KindsInv'
  BY <1>17
  DEF StartTimeout, StartAt, regs, locals, hist
<1>18. ASSUME NEW w \in Starters, StartResetTimeout(w) PROVE KindsInv'
  BY <1>18
  DEF StartResetTimeout, StartAt, SoftReset, Comparing, locals,
      Front, ConfigClean, StartsAlone, Early
<1>19. ASSUME NEW w \in Starters, StartState(w) PROVE KindsInv'
  BY <1>19
  DEF StartState, StartAt, regs, locals
<1>20. ASSUME RestartBegin PROVE KindsInv'
  BY <1>20
  DEF RestartBegin, StartAt, regs, locals, hist
<1>21. ASSUME RestartEnd PROVE KindsInv'
  BY <1>21
  DEF RestartEnd, StartAt, regs, locals
<1>22. ASSUME OpenBegin PROVE KindsInv'
  BY <1>22
  DEF OpenBegin, Thread, locals, StartAt, regs, hist
<1>23. ASSUME OpenEnd PROVE KindsInv'
  BY <1>23
  DEF OpenEnd, Thread, locals, StartAt, regs, hist
<1>24. ASSUME UnwindCandev PROVE KindsInv'
  BY <1>24
  DEF UnwindCandev, Thread, locals, regs, hist
<1>25. ASSUME UnwindIrq PROVE KindsInv'
  BY <1>25
  DEF UnwindIrq, Thread, locals, regs, hist
<1>26. ASSUME CloseChip PROVE KindsInv'
  BY <1>26
  DEF CloseChip, Thread, locals, SoftReset, Comparing
<1>27. ASSUME CloseState PROVE KindsInv'
  BY <1>27
  DEF CloseState, Thread, locals, regs, hist
<1>28. ASSUME CloseIrq PROVE KindsInv'
  BY <1>28
  DEF CloseIrq, Thread, locals, regs, hist
<1>29. ASSUME CloseCandev PROVE KindsInv'
  BY <1>29
  DEF CloseCandev, Thread, locals, regs, hist
<1>30. ASSUME HwFrame PROVE KindsInv'
  BY <1>30 DEF HwFrame, OnBus, regs, locals, runs, hist
<1>31. ASSUME IrqReadIer PROVE KindsInv'
  BY <1>31 DEF IrqReadIer, IrqAt, regs, locals, runs, hist
<1>32. ASSUME IrqMask PROVE KindsInv'
  BY <1>32 DEF IrqMask, WriteBack, IrqAt, regs, locals, runs, hist
<1>33. ASSUME PollReadIer PROVE KindsInv'
  BY <1>33 DEF PollReadIer, regs, locals, runs, hist
<1>34. ASSUME PollUnmask PROVE KindsInv'
  BY <1>34 DEF PollUnmask, WriteBack, regs, locals, runs, hist
<1> QED
  BY <1>1, <1>2, <1>3, <1>4, <1>5, <1>6, <1>7, <1>8, <1>9, <1>10, <1>11, <1>12, <1>13,
     <1>14, <1>15, <1>16, <1>17, <1>18, <1>19, <1>20, <1>21, <1>22, <1>23, <1>24, <1>25,
     <1>26, <1>27, <1>28, <1>29, <1>30, <1>31, <1>32, <1>33, <1>34
  DEF Next, Hw, Irq, IrqRest, Poll, Restart, Start, Calls, Starters

\* Whatever takes the core off the bus leaves a restart due, or a reason why none is.
LEMMA DeadKept ==
    ASSUME TypeOK, DeadInv, Next
    PROVE  DeadInv'
<1>1. ASSUME NEW k \in Kinds, HwError(k) PROVE DeadInv'
  BY <1>1 DEF HwError, Happens, OnBus, Comparing, locals, runs, DeadInv, OpenOnly, CoreDead
<1>2. ASSUME HwGood PROVE DeadInv'
  BY <1>2 DEF HwGood, Happens, OnBus, Comparing, locals, runs, DeadInv, OpenOnly, CoreDead
<1>3. ASSUME NEW b \in {"arblst", "rxoflw"}, HwCause(b) PROVE DeadInv'
  BY <1>3 DEF HwCause, Happens, OnBus, locals, runs, hist, DeadInv, OpenOnly, CoreDead
<1>4. ASSUME IrqBegin PROVE DeadInv'
  BY <1>4 DEF IrqBegin, IrqAt, regs, runs, hist, DeadInv, OpenOnly, CoreDead
<1>5. ASSUME IrqClear PROVE DeadInv'
  BY <1>5 DEF IrqClear, IrqAt, locals, runs, DeadInv, OpenOnly, CoreDead
<1>6. ASSUME IrqEsr PROVE DeadInv'
  BY <1>6 DEF IrqEsr, IrqAt, regs, runs, hist, DeadInv, OpenOnly, CoreDead
<1>7. ASSUME IrqAckEsr PROVE DeadInv'
  BY <1>7 DEF IrqAckEsr, IrqAt, locals, runs, hist, DeadInv, OpenOnly, CoreDead
<1>8. ASSUME IrqEcr PROVE DeadInv'
  BY <1>8 DEF IrqEcr, IrqAt, regs, runs, hist, DeadInv, OpenOnly, CoreDead
<1>9. ASSUME IrqSr PROVE DeadInv'
  BY <1>9 DEF IrqSr, IrqAt, Status, OnBus, regs, runs, hist, DeadInv, OpenOnly, CoreDead
<1>10. ASSUME IrqBusOff PROVE DeadInv'
  BY <1>10, TypeOK
  DEF IrqBusOff, IrqAt, AfterJudging, SoftReset, Comparing, DeadInv, OpenOnly, CoreDead,
      TypeOK, Starters
<1>11. ASSUME IrqJudge PROVE DeadInv'
  BY <1>11 DEF IrqJudge, IrqAt, AfterJudging, regs, runs, DeadInv, OpenOnly, CoreDead
<1>12. ASSUME IrqOverflow PROVE DeadInv'
  BY <1>12
  DEF IrqOverflow, IrqAt, SoftReset, Comparing, locals, runs, DeadInv, OpenOnly, CoreDead
<1>13. ASSUME IrqReport PROVE DeadInv'
  BY <1>13 DEF IrqReport, IrqAt, regs, runs, DeadInv, OpenOnly, CoreDead
<1>14. ASSUME NEW w \in Starters, StartReset(w) PROVE DeadInv'
  BY <1>14, TypeOK
  DEF StartReset, StartAt, SoftReset, Comparing, locals, DeadInv, OpenOnly, CoreDead,
      TypeOK, Starters
<1>15. ASSUME NEW w \in Starters, StartSetup(w) PROVE DeadInv'
  BY <1>15, TypeOK
  DEF StartSetup, StartAt, locals, hist, DeadInv, OpenOnly, CoreDead, TypeOK, Starters
<1>16. ASSUME NEW w \in Starters, StartCen(w) PROVE DeadInv'
  BY <1>16, TypeOK
  DEF StartCen, StartAt, locals, hist, DeadInv, OpenOnly, CoreDead, TypeOK, Starters
<1>17. ASSUME NEW w \in Starters, StartTimeout(w) PROVE DeadInv'
  BY <1>17, TypeOK
  DEF StartTimeout, StartAt, regs, locals, hist, DeadInv, OpenOnly, CoreDead, TypeOK,
      Starters
<1>18. ASSUME NEW w \in Starters, StartResetTimeout(w) PROVE DeadInv'
  BY <1>18, TypeOK
  DEF StartResetTimeout, StartAt, SoftReset, Comparing, locals, DeadInv, OpenOnly,
      CoreDead, TypeOK, Starters
<1>19. ASSUME NEW w \in Starters, StartState(w) PROVE DeadInv'
  BY <1>19, TypeOK
  DEF StartState, StartAt, regs, locals, DeadInv, OpenOnly, CoreDead, TypeOK, Starters
<1>20. ASSUME RestartBegin PROVE DeadInv'
  BY <1>20, TypeOK
  DEF RestartBegin, StartAt, regs, locals, hist, DeadInv, OpenOnly, CoreDead, TypeOK,
      Starters
<1>21. ASSUME RestartEnd PROVE DeadInv'
  BY <1>21, TypeOK
  DEF RestartEnd, StartAt, regs, locals, DeadInv, OpenOnly, CoreDead, TypeOK, Starters
<1>22. ASSUME OpenBegin PROVE DeadInv'
  BY <1>22, TypeOK
  DEF OpenBegin, Thread, locals, StartAt, regs, hist, DeadInv, OpenOnly, CoreDead, TypeOK,
      Starters
<1>23. ASSUME OpenEnd PROVE DeadInv'
  BY <1>23, TypeOK
  DEF OpenEnd, Thread, locals, StartAt, regs, hist, DeadInv, OpenOnly, CoreDead, TypeOK,
      Starters
<1>24. ASSUME UnwindCandev PROVE DeadInv'
  BY <1>24, TypeOK
  DEF UnwindCandev, Thread, locals, regs, hist, DeadInv, OpenOnly, CoreDead, TypeOK,
      Starters
<1>25. ASSUME UnwindIrq PROVE DeadInv'
  BY <1>25, TypeOK
  DEF UnwindIrq, Thread, locals, regs, hist, DeadInv, OpenOnly, CoreDead, TypeOK, Starters
<1>26. ASSUME CloseChip PROVE DeadInv'
  BY <1>26, TypeOK
  DEF CloseChip, Thread, locals, SoftReset, Comparing, DeadInv, OpenOnly, CoreDead,
      TypeOK, Starters
<1>27. ASSUME CloseState PROVE DeadInv'
  BY <1>27, TypeOK
  DEF CloseState, Thread, locals, regs, hist, DeadInv, OpenOnly, CoreDead, TypeOK,
      Starters
<1>28. ASSUME CloseIrq PROVE DeadInv'
  BY <1>28, TypeOK
  DEF CloseIrq, Thread, locals, regs, hist, DeadInv, OpenOnly, CoreDead, TypeOK, Starters
<1>29. ASSUME CloseCandev PROVE DeadInv'
  BY <1>29, TypeOK
  DEF CloseCandev, Thread, locals, regs, hist, DeadInv, OpenOnly, CoreDead, TypeOK,
      Starters
<1>30. ASSUME HwFrame PROVE DeadInv'
  BY <1>30 DEF HwFrame, OnBus, regs, locals, runs, hist, DeadInv, OpenOnly, CoreDead
<1>31. ASSUME IrqReadIer PROVE DeadInv'
  BY <1>31 DEF IrqReadIer, IrqAt, regs, locals, runs, hist, DeadInv, OpenOnly, CoreDead
<1>32. ASSUME IrqMask PROVE DeadInv'
  BY <1>32 DEF IrqMask, WriteBack, IrqAt, regs, locals, runs, hist, DeadInv, OpenOnly, CoreDead
<1>33. ASSUME PollReadIer PROVE DeadInv'
  BY <1>33 DEF PollReadIer, regs, locals, runs, hist, DeadInv, OpenOnly, CoreDead
<1>34. ASSUME PollUnmask PROVE DeadInv'
  BY <1>34 DEF PollUnmask, WriteBack, regs, locals, runs, hist, DeadInv, OpenOnly, CoreDead
<1> QED
  BY <1>1, <1>2, <1>3, <1>4, <1>5, <1>6, <1>7, <1>8, <1>9, <1>10, <1>11, <1>12, <1>13,
     <1>14, <1>15, <1>16, <1>17, <1>18, <1>19, <1>20, <1>21, <1>22, <1>23, <1>24, <1>25,
     <1>26, <1>27, <1>28, <1>29, <1>30, <1>31, <1>32, <1>33, <1>34
  DEF Next, Hw, Irq, IrqRest, Poll, Restart, Start, Calls, Starters

\* Whatever changes ECR while the handler compares its reads is remembered.
LEMMA HonestKept ==
    ASSUME TypeOK, HonestInv, Next
    PROVE  HonestInv'
<1>1. ASSUME NEW k \in Kinds, HwError(k) PROVE HonestInv'
  BY <1>1, ErrAssumption DEF HwError, Happens, OnBus, Comparing, locals, runs, HonestInv
<1>2. ASSUME HwGood PROVE HonestInv'
  BY <1>2, ErrAssumption DEF HwGood, Happens, OnBus, Comparing, locals, runs, HonestInv
<1>3. ASSUME NEW b \in {"arblst", "rxoflw"}, HwCause(b) PROVE HonestInv'
  BY <1>3 DEF HwCause, Happens, OnBus, locals, runs, hist, HonestInv, Comparing
<1>4. ASSUME IrqBegin PROVE HonestInv'
  BY <1>4 DEF IrqBegin, IrqAt, regs, runs, hist, HonestInv, Comparing
<1>5. ASSUME IrqClear PROVE HonestInv'
  BY <1>5 DEF IrqClear, IrqAt, locals, runs, HonestInv, Comparing
<1>6. ASSUME IrqEsr PROVE HonestInv'
  BY <1>6 DEF IrqEsr, IrqAt, regs, runs, hist, HonestInv, Comparing
<1>7. ASSUME IrqAckEsr PROVE HonestInv'
  BY <1>7 DEF IrqAckEsr, IrqAt, locals, runs, hist, HonestInv, Comparing
<1>8. ASSUME IrqEcr PROVE HonestInv'
  BY <1>8, ErrAssumption DEF IrqEcr, IrqAt, regs, runs, hist, HonestInv, Comparing
<1>9. ASSUME IrqSr PROVE HonestInv'
  BY <1>9, ErrAssumption
  DEF IrqSr, IrqAt, Status, OnBus, regs, runs, hist, HonestInv, Comparing
<1>10. ASSUME IrqBusOff PROVE HonestInv'
  BY <1>10 DEF IrqBusOff, IrqAt, AfterJudging, SoftReset, Comparing, HonestInv
<1>11. ASSUME IrqJudge PROVE HonestInv'
  BY <1>11 DEF IrqJudge, IrqAt, AfterJudging, regs, runs, HonestInv, Comparing
<1>12. ASSUME IrqOverflow PROVE HonestInv'
  BY <1>12 DEF IrqOverflow, IrqAt, SoftReset, Comparing, locals, runs, HonestInv
<1>13. ASSUME IrqReport PROVE HonestInv'
  BY <1>13 DEF IrqReport, IrqAt, regs, runs, HonestInv, Comparing
<1>14. ASSUME NEW w \in Starters, StartReset(w) PROVE HonestInv'
  BY <1>14 DEF StartReset, StartAt, SoftReset, Comparing, locals, HonestInv
<1>15. ASSUME NEW w \in Starters, StartSetup(w) PROVE HonestInv'
  BY <1>15 DEF StartSetup, StartAt, locals, hist, HonestInv, Comparing
<1>16. ASSUME NEW w \in Starters, StartCen(w) PROVE HonestInv'
  BY <1>16 DEF StartCen, StartAt, locals, hist, HonestInv, Comparing
<1>17. ASSUME NEW w \in Starters, StartTimeout(w) PROVE HonestInv'
  BY <1>17 DEF StartTimeout, StartAt, regs, locals, hist, HonestInv, Comparing
<1>18. ASSUME NEW w \in Starters, StartResetTimeout(w) PROVE HonestInv'
  BY <1>18 DEF StartResetTimeout, StartAt, SoftReset, Comparing, locals, HonestInv
<1>19. ASSUME NEW w \in Starters, StartState(w) PROVE HonestInv'
  BY <1>19 DEF StartState, StartAt, regs, locals, HonestInv, Comparing
<1>20. ASSUME RestartBegin PROVE HonestInv'
  BY <1>20 DEF RestartBegin, StartAt, regs, locals, hist, HonestInv, Comparing
<1>21. ASSUME RestartEnd PROVE HonestInv'
  BY <1>21 DEF RestartEnd, StartAt, regs, locals, HonestInv, Comparing
<1>22. ASSUME OpenBegin PROVE HonestInv'
  BY <1>22 DEF OpenBegin, Thread, locals, StartAt, regs, hist, HonestInv, Comparing
<1>23. ASSUME OpenEnd PROVE HonestInv'
  BY <1>23 DEF OpenEnd, Thread, locals, StartAt, regs, hist, HonestInv, Comparing
<1>24. ASSUME UnwindCandev PROVE HonestInv'
  BY <1>24 DEF UnwindCandev, Thread, locals, regs, hist, HonestInv, Comparing
<1>25. ASSUME UnwindIrq PROVE HonestInv'
  BY <1>25 DEF UnwindIrq, Thread, locals, regs, hist, HonestInv, Comparing
<1>26. ASSUME CloseChip PROVE HonestInv'
  BY <1>26 DEF CloseChip, Thread, locals, SoftReset, Comparing, HonestInv
<1>27. ASSUME CloseState PROVE HonestInv'
  BY <1>27 DEF CloseState, Thread, locals, regs, hist, HonestInv, Comparing
<1>28. ASSUME CloseIrq PROVE HonestInv'
  BY <1>28 DEF CloseIrq, Thread, locals, regs, hist, HonestInv, Comparing
<1>29. ASSUME CloseCandev PROVE HonestInv'
  BY <1>29 DEF CloseCandev, Thread, locals, regs, hist, HonestInv, Comparing
<1>30. ASSUME HwFrame PROVE HonestInv'
  BY <1>30 DEF HwFrame, OnBus, regs, locals, runs, hist, HonestInv, Comparing
<1>31. ASSUME IrqReadIer PROVE HonestInv'
  BY <1>31 DEF IrqReadIer, IrqAt, regs, locals, runs, hist, HonestInv, Comparing
<1>32. ASSUME IrqMask PROVE HonestInv'
  BY <1>32 DEF IrqMask, WriteBack, IrqAt, regs, locals, runs, hist, HonestInv, Comparing
<1>33. ASSUME PollReadIer PROVE HonestInv'
  BY <1>33 DEF PollReadIer, regs, locals, runs, hist, HonestInv, Comparing
<1>34. ASSUME PollUnmask PROVE HonestInv'
  BY <1>34 DEF PollUnmask, WriteBack, regs, locals, runs, hist, HonestInv, Comparing
<1> QED
  BY <1>1, <1>2, <1>3, <1>4, <1>5, <1>6, <1>7, <1>8, <1>9, <1>10, <1>11, <1>12, <1>13,
     <1>14, <1>15, <1>16, <1>17, <1>18, <1>19, <1>20, <1>21, <1>22, <1>23, <1>24, <1>25,
     <1>26, <1>27, <1>28, <1>29, <1>30, <1>31, <1>32, <1>33, <1>34
  DEF Next, Hw, Irq, IrqRest, Poll, Restart, Start, Calls, Starters

\* None of the clauses of Front is broken by a step of the core, the handler, the timer, or
\* open and close.
LEMMA FrontKept ==
    ASSUME TypeOK, Empty, OpenOnly, Front, Next
    PROVE  Front'
<1> USE ErrAssumption DEF Front, ConfigClean, IrqQuiet, BranchSeen, StartsAlone, TimerAlone,
      BusOffShown, BusOff, Looking, Early, TypeOK, Starters, Quiet, Empty, OpenOnly
<1>1. ASSUME NEW k \in Kinds, HwError(k) PROVE Front'
  BY <1>1 DEF tails, HwError, Happens, OnBus, Comparing, locals, runs
<1>2. ASSUME HwGood PROVE Front'
  BY <1>2 DEF tails, HwGood, Happens, OnBus, Comparing, locals, runs
<1>3. ASSUME NEW b \in {"arblst", "rxoflw"}, HwCause(b) PROVE Front'
  BY <1>3 DEF tails, HwCause, Happens, OnBus, locals, runs, hist
<1>4. ASSUME IrqBegin PROVE Front'
  BY <1>4 DEF tails, IrqBegin, IrqAt, regs, runs, hist
<1>5. ASSUME IrqClear PROVE Front'
  BY <1>5 DEF tails, IrqClear, IrqAt, locals, runs
<1>6. ASSUME IrqEsr PROVE Front'
  BY <1>6 DEF tails, IrqEsr, IrqAt, regs, runs, hist
<1>7. ASSUME IrqAckEsr PROVE Front'
  BY <1>7 DEF tails, IrqAckEsr, IrqAt, locals, runs, hist
<1>8. ASSUME IrqEcr PROVE Front'
  BY <1>8 DEF tails, IrqEcr, IrqAt, regs, runs, hist
<1>9. ASSUME IrqSr PROVE Front'
  BY <1>9 DEF tails, IrqSr, IrqAt, Status, OnBus, regs, runs, hist
<1>10. ASSUME IrqBusOff PROVE Front'
  BY <1>10 DEF tails, IrqBusOff, IrqAt, AfterJudging, SoftReset, Comparing
<1>11. ASSUME IrqJudge PROVE Front'
  BY <1>11 DEF tails, IrqJudge, IrqAt, AfterJudging, regs, runs
<1>12. ASSUME IrqOverflow PROVE Front'
  BY <1>12 DEF tails, IrqOverflow, IrqAt, SoftReset, Comparing, locals, runs
<1>13. ASSUME IrqReport PROVE Front'
  BY <1>13 DEF tails, IrqReport, IrqAt, regs, runs
<1>14. ASSUME NEW w \in Starters, StartReset(w) PROVE Front'
  BY <1>14 DEF tails, StartReset, StartAt, SoftReset, Comparing, locals
<1>15. ASSUME NEW w \in Starters, StartSetup(w) PROVE Front'
  BY <1>15 DEF tails, StartSetup, StartAt, locals, hist
<1>16. ASSUME NEW w \in Starters, StartCen(w) PROVE Front'
  BY <1>16 DEF tails, StartCen, StartAt, locals, hist
<1>17. ASSUME NEW w \in Starters, StartTimeout(w) PROVE Front'
  BY <1>17 DEF tails, StartTimeout, StartAt, regs, locals, hist
<1>18. ASSUME NEW w \in Starters, StartResetTimeout(w) PROVE Front'
  BY <1>18 DEF tails, StartResetTimeout, StartAt, SoftReset, Comparing, locals
<1>19. ASSUME NEW w \in Starters, StartState(w) PROVE Front'
  BY <1>19 DEF tails, StartState, StartAt, regs, locals
<1>20. ASSUME RestartBegin PROVE Front'
  BY <1>20 DEF tails, RestartBegin, StartAt, regs, locals, hist
<1>21. ASSUME RestartEnd PROVE Front'
  BY <1>21 DEF tails, RestartEnd, StartAt, regs, locals
<1>22. ASSUME OpenBegin PROVE Front'
  BY <1>22 DEF tails, OpenBegin, Thread, locals, StartAt, regs, hist
<1>23. ASSUME OpenEnd PROVE Front'
  BY <1>23 DEF tails, OpenEnd, Thread, locals, StartAt, regs, hist
<1>24. ASSUME UnwindCandev PROVE Front'
  BY <1>24 DEF tails, UnwindCandev, Thread, locals, regs, hist
<1>25. ASSUME UnwindIrq PROVE Front'
  BY <1>25 DEF tails, UnwindIrq, Thread, locals, regs, hist
<1>26. ASSUME CloseChip PROVE Front'
  BY <1>26 DEF tails, CloseChip, Thread, locals, SoftReset, Comparing
<1>27. ASSUME CloseState PROVE Front'
  BY <1>27 DEF tails, CloseState, Thread, locals, regs, hist
<1>28. ASSUME CloseIrq PROVE Front'
  BY <1>28 DEF tails, CloseIrq, Thread, locals, regs, hist
<1>29. ASSUME CloseCandev PROVE Front'
  BY <1>29 DEF tails, CloseCandev, Thread, locals, regs, hist
<1>30. ASSUME HwFrame PROVE Front'
  BY <1>30 DEF tails, HwFrame, OnBus, regs, locals, runs, hist
<1>31. ASSUME IrqReadIer PROVE Front'
  BY <1>31 DEF tails, IrqReadIer, IrqAt, regs, locals, runs, hist
<1>32. ASSUME IrqMask PROVE Front'
  BY <1>32 DEF tails, IrqMask, WriteBack, IrqAt, regs, locals, runs, hist
<1>33. ASSUME PollReadIer PROVE Front'
  BY <1>33 DEF tails, PollReadIer, regs, locals, runs, hist
<1>34. ASSUME PollUnmask PROVE Front'
  BY <1>34 DEF tails, PollUnmask, WriteBack, regs, locals, runs, hist
<1> QED
  BY <1>1, <1>2, <1>3, <1>4, <1>5, <1>6, <1>7, <1>8, <1>9, <1>10, <1>11, <1>12, <1>13,
     <1>14, <1>15, <1>16, <1>17, <1>18, <1>19, <1>20, <1>21, <1>22, <1>23, <1>24, <1>25,
     <1>26, <1>27, <1>28, <1>29, <1>30, <1>31, <1>32, <1>33, <1>34
  DEF Next, Hw, Irq, IrqRest, Poll, Restart, Start, Calls, Starters

\* The level of the core, and the ranks, are among 0..3.
LEMMA LevelFacts ==
    ASSUME TypeOK
    PROVE  /\ Level \in 0..3 /\ StatusRank \in 0..2 /\ Rank[state] \in 0..3
           /\ Rank["ERROR_WARNING"] = 1 /\ Rank["ERROR_PASSIVE"] = 2 /\ Rank["BUS_OFF"] = 3
           /\ tec = 0 /\ rec = 0 /\ ~timer => Level = 0
           /\ core = "config" /\ ~timer => Level = 0
           /\ Level = 3 => BusOff \/ timer
BY ErrAssumption
DEF TypeOK, Level, Status, StatusRank, BusOff, OnBus, Rank, States

\* A frame on the bus makes the level no worse.
LEMMA LevelFalls ==
    ASSUME TypeOK, TypeOK', core' = core, timer' = timer, tec' <= tec, rec' <= rec, OnBus
    PROVE  Level' <= Level
BY ErrAssumption DEF TypeOK, Level, Status, BusOff, OnBus

\* A step after which can.state is going to be judged keeps the verdict,
LEMMA VerdictPending == ASSUME Pending' PROVE Judged' /\ Upheld'
BY DEF Judged, Upheld

\* so does one after which the core is no worse than active,
LEMMA VerdictActive == ASSUME TypeOK', Level' = 0 PROVE Judged' /\ Upheld'
<1>1. Rank[state]' \in 0..3
  BY LevelFacts DEF TypeOK, Rank, States
<1> QED BY <1>1 DEF Judged, Upheld

\* and one that changes neither can.state nor what was judged, and worsens nothing.
LEMMA VerdictFrame ==
    ASSUME TypeOK, TypeOK', Judged, Upheld, Level' <= Level,
           UNCHANGED <<state, judged, clobbered>>,
           Live' => Live, Pending => Pending', swallowed => swallowed'
    PROVE  Judged' /\ Upheld'
<1>1. Level \in 0..3 /\ Level' \in 0..3 /\ Rank[state] \in 0..3 /\ Rank[state]' = Rank[state]
  BY ErrAssumption DEF TypeOK, Level, Status, BusOff, OnBus, Rank, States
<1>2. Level' > 0 => Level > 0
  BY <1>1
<1>3. Rank[state] >= Level => Rank[state]' >= Level'
  BY <1>1
<1> QED BY <1>2, <1>3, Zenon DEF Judged, Upheld

\* The same after a step.
LEMMA LevelTyped ==
    ASSUME TypeOK'
    PROVE  /\ Level' \in 0..3 /\ Rank[state]' \in 0..3
           /\ state' = "BUS_OFF" => Rank[state]' = 3
BY ErrAssumption DEF TypeOK, Level, Status, BusOff, OnBus, Rank, States

\* Counters at zero and no restart due: the core is no worse than active.
LEMMA LevelNone ==
    ASSUME TypeOK', tec' = 0, rec' = 0, ~timer'
    PROVE  Level' = 0
BY ErrAssumption DEF TypeOK, Level, Status, BusOff, OnBus

\* A step into a worse level raises an interrupt; the handler clears it only on the way to a
\* look at SR or to the bus-off branch, and no reset or start hides what it wrote but the one
\* that sets clobbered.
LEMMA VerdictKept ==
    ASSUME TypeOK, TypeOK', OpenOnly, Front, StatusFresh, Judged, Upheld, Next
    PROVE  Judged' /\ Upheld'
<1>1. ASSUME NEW k \in Kinds, HwError(k) PROVE Judged' /\ Upheld'
  <2>1. Pending'
    BY <1>1 DEF HwError, Pending, Due
  <2> QED BY <2>1, VerdictPending
<1>2. ASSUME HwGood PROVE Judged' /\ Upheld'
  <2>1. /\ UNCHANGED <<core, timer, state, judged, clobbered, swallowed, isr, ipc, status, pc,
                        spc>>
        /\ OnBus /\ tec' <= tec /\ rec' <= rec
    BY <1>2 DEF HwGood, Happens, locals, runs, TypeOK
  <2>2. Level' <= Level
    BY <2>1, LevelFalls
  <2>3. (Live' => Live) /\ (Pending => Pending')
    BY <2>1, <2>2, LevelFacts, LevelTyped DEF Live, Pending, Due
  <2> QED BY <2>1, <2>2, <2>3, VerdictFrame
<1>3. ASSUME NEW b \in {"arblst", "rxoflw"}, HwCause(b) PROVE Judged' /\ Upheld'
  <2>1. UNCHANGED <<core, tec, rec, timer, state, judged, clobbered>>
    BY <1>3 DEF HwCause, runs, hist
  <2>2. Level' = Level
    BY <2>1 DEF Level, Status, BusOff, OnBus
  <2>3. (Live' => Live) /\ (Pending => Pending') /\ (swallowed => swallowed')
    BY <1>3, <2>1, <2>2 DEF HwCause, runs, hist, Live, Pending, Due
  <2> QED BY <2>1, <2>2, <2>3, VerdictFrame, LevelFacts
<1>4. ASSUME IrqBegin PROVE Judged' /\ Upheld'
  <2>1. CASE isr # {}
    <3>1. Pending'
      BY <1>4, <2>1 DEF IrqBegin, IrqAt, Pending, Looking
    <3> QED BY <3>1, VerdictPending
  <2>2. CASE isr = {}
    <3>1. UNCHANGED <<core, tec, rec, timer, state, judged, clobbered>>
      BY <1>4 DEF IrqBegin, regs, runs, hist
    <3>2. Level' = Level
      BY <3>1 DEF Level, Status, BusOff, OnBus
    <3>3. (Live' => Live) /\ (Pending => Pending') /\ (swallowed => swallowed')
      BY <1>4, <2>2 DEF IrqBegin, IrqAt, regs, runs, hist, Live, Pending, Due, Looking
    <3> QED BY <3>1, <3>2, <3>3, VerdictFrame, LevelFacts
  <2> QED BY <2>1, <2>2
<1>5. ASSUME IrqClear PROVE Judged' /\ Upheld'
  <2>1. Pending'
    BY <1>5 DEF IrqClear, IrqAt, Pending, Looking
  <2> QED BY <2>1, VerdictPending
<1>6. ASSUME IrqEsr PROVE Judged' /\ Upheld'
  <2>1. Pending'
    BY <1>6 DEF IrqEsr, IrqAt, Pending, Looking
  <2> QED BY <2>1, VerdictPending
<1>7. ASSUME IrqAckEsr PROVE Judged' /\ Upheld'
  <2>1. Pending'
    BY <1>7 DEF IrqAckEsr, IrqAt, Pending, Looking
  <2> QED BY <2>1, VerdictPending
<1>8. ASSUME IrqEcr PROVE Judged' /\ Upheld'
  <2>1. Pending'
    BY <1>8 DEF IrqEcr, IrqAt, Pending, Looking
  <2> QED BY <2>1, VerdictPending
<1>9. ASSUME IrqSr PROVE Judged' /\ Upheld'
  <2>1. Pending'
    BY <1>9 DEF IrqSr, IrqAt, Pending
  <2> QED BY <2>1, VerdictPending
<1>10. ASSUME IrqBusOff PROVE Judged' /\ Upheld'
  <2>1. state' = "BUS_OFF"
    BY <1>10 DEF IrqBusOff
  <2>2. Rank[state]' >= Level'
    BY <2>1, LevelFacts, LevelTyped
  <2>3. judged'
    BY <1>10, Zenon DEF IrqBusOff
  <2> QED BY <2>2, <2>3, Zenon DEF Judged, Upheld
<1>11. ASSUME IrqJudge PROVE Judged' /\ Upheld'
  <2>1. /\ ipc = "judge" /\ UNCHANGED <<core, tec, rec, timer, isr, swallowed, pc, spc>>
        /\ state' = CASE status = "passive" -> "ERROR_PASSIVE"
                    [] status = "warning"   -> "ERROR_WARNING"
                    [] OTHER                -> state
        /\ judged' = (judged \/ status \in {"passive", "warning"})
        /\ clobbered' = (clobbered /\ status \notin {"passive", "warning"})
    BY <1>11 DEF IrqJudge, IrqAt, regs, runs
  <2>2. Level' = Level /\ Live' = Live
    BY <2>1 DEF Level, Status, BusOff, Live
  <2>3. CASE Due
    <3>1. Pending'
      BY <2>1, <2>3 DEF Pending, Due
    <3> QED BY <3>1, VerdictPending
  <2>4. CASE swallowed
    BY <2>1, <2>4, Zenon DEF Judged, Upheld
  <2>5. CASE ~Due /\ ~swallowed
    <3>1. StatusRank >= Level
      BY <2>1, <2>5 DEF StatusFresh
    <3>2. CASE status \in {"passive", "warning"}
      <4>1. Rank[state]' >= Level'
        BY <2>1, <2>2, <3>1, <3>2, LevelFacts DEF StatusRank
      <4>2. judged'
        BY <2>1, <3>2
      <4> QED BY <4>1, <4>2, Zenon DEF Judged, Upheld
    <3>3. CASE status \notin {"passive", "warning"}
      <4>1. Level' = 0
        BY <2>2, <3>1, <3>3, LevelFacts DEF StatusRank
      <4> QED BY <4>1, VerdictActive
    <3> QED BY <3>2, <3>3
  <2> QED BY <2>3, <2>4, <2>5
<1>12. ASSUME IrqOverflow PROVE Judged' /\ Upheld'
  <2>1. CASE timer
    <3>1. UNCHANGED <<core, tec, rec, timer, state, judged, clobbered, isr, swallowed, pc, spc>>
      <4>1. core = "config" /\ tec = 0 /\ rec = 0 /\ isr = {} /\ ~swallowed
        BY <2>1 DEF Front, TimerAlone, ConfigClean
      <4>2. /\ core' = "config" /\ tec' = 0 /\ rec' = 0 /\ isr' = {}
            /\ UNCHANGED <<timer, state, judged, clobbered, pc, spc>>
        BY <1>12 DEF IrqOverflow, SoftReset, locals, runs
      <4>3. UNCHANGED swallowed
        BY <1>12, <4>1, Zenon DEF IrqOverflow, SoftReset, TypeOK
      <4> QED BY <4>1, <4>2, <4>3
    <3>2. Level' = Level
      BY <3>1 DEF Level, Status, BusOff, OnBus
    <3>3. (Live' => Live) /\ (Pending => Pending')
      BY <1>12, <3>1, <3>2 DEF IrqOverflow, IrqAt, Live, Pending, Due, Looking
    <3> QED BY <3>1, <3>2, <3>3, VerdictFrame, LevelFacts
  <2>2. CASE ~timer
    <3>1. tec' = 0 /\ rec' = 0 /\ ~timer'
      BY <1>12, <2>2 DEF IrqOverflow, SoftReset, locals, runs
    <3> QED BY <3>1, LevelNone, VerdictActive
  <2> QED BY <2>1, <2>2
<1>13. ASSUME IrqReport PROVE Judged' /\ Upheld'
  <2>1. UNCHANGED <<core, tec, rec, timer, state, judged, clobbered>>
    BY <1>13 DEF IrqReport, IrqAt, regs, runs
  <2>2. Level' = Level
    BY <2>1 DEF Level, Status, BusOff, OnBus
  <2>3. (Live' => Live) /\ (Pending => Pending') /\ (swallowed => swallowed')
    BY <1>13, <2>1, <2>2 DEF IrqReport, IrqAt, regs, runs, Live, Pending, Due, Looking
  <2> QED BY <2>1, <2>2, <2>3, VerdictFrame, LevelFacts
<1>14. ASSUME NEW w \in Starters, StartReset(w) PROVE Judged' /\ Upheld'
  <2>1. tec' = 0 /\ rec' = 0 /\ ~timer'
    BY <1>14 DEF StartReset, StartAt, SoftReset, Front, StartsAlone, Early
  <2>2. Level' = 0
    BY <2>1, LevelNone
  <2> QED BY <2>2, VerdictActive
<1>15. ASSUME NEW w \in Starters, StartSetup(w) PROVE Judged' /\ Upheld'
  <2>1. UNCHANGED <<core, tec, rec, timer, state, judged, clobbered>>
    BY <1>15 DEF StartSetup, StartAt, locals, hist
  <2>2. Level' = Level
    BY <2>1 DEF Level, Status, BusOff, OnBus
  <2>3. (Live' => Live) /\ (Pending => Pending') /\ (swallowed => swallowed')
    BY <1>15, <2>1, <2>2 DEF StartSetup, StartAt, hist, Live, Pending, Due
  <2> QED BY <2>1, <2>2, <2>3, VerdictFrame, LevelFacts
<1>16. ASSUME NEW w \in Starters, StartCen(w) PROVE Judged' /\ Upheld'
  <2>1. tec' = 0 /\ rec' = 0 /\ ~timer'
    BY <1>16 DEF StartCen, StartAt, Front, ConfigClean, StartsAlone, Early
  <2>2. Level' = 0
    BY <2>1, LevelNone
  <2> QED BY <2>2, VerdictActive
<1>17. ASSUME NEW w \in Starters, StartTimeout(w) PROVE Judged' /\ Upheld'
  <2>1. CASE UNCHANGED regs
    <3>1. UNCHANGED <<core, tec, rec, timer, state, judged, clobbered, swallowed>>
      BY <1>17, <2>1 DEF StartTimeout, regs, hist
    <3>2. Level' = Level
      BY <3>1 DEF Level, Status, BusOff, OnBus
    <3>3. (Live' => Live) /\ (Pending => Pending')
      BY <1>17, <2>1, <3>2
      DEF StartTimeout, StartAt, regs, Live, Pending, Due, TypeOK, Starters
    <3> QED BY <3>1, <3>2, <3>3, VerdictFrame, LevelFacts
  <2>2. CASE ~UNCHANGED regs
    <3>1. tec' = 0 /\ rec' = 0 /\ ~timer'
      BY <1>17, <2>2 DEF StartTimeout, StartAt, Front, ConfigClean, StartsAlone, Early
    <3> QED BY <3>1, LevelNone, VerdictActive
  <2> QED BY <2>1, <2>2
<1>18. ASSUME NEW w \in Starters, StartResetTimeout(w) PROVE Judged' /\ Upheld'
  <2>1. tec' = 0 /\ rec' = 0 /\ ~timer'
    BY <1>18 DEF StartResetTimeout, StartAt, SoftReset, Front, StartsAlone, Early
  <2>2. Level' = 0
    BY <2>1, LevelNone
  <2> QED BY <2>2, VerdictActive
<1>19. ASSUME NEW w \in Starters, StartState(w) PROVE Judged' /\ Upheld'
  <2>1. /\ UNCHANGED <<core, tec, rec, timer, isr, ipc, status, pc, swallowed>>
        /\ spc[w] = "state" /\ spc' = [spc EXCEPT ![w] = "done"]
        /\ ~judged' /\ (clobbered' <=> clobbered \/ judged)
    BY <1>19 DEF StartState, StartAt, regs, locals
  <2>2. Level' = Level /\ StatusRank' = StatusRank
    BY <2>1 DEF Level, Status, BusOff, StatusRank
  <2>3. (Live' => Live) /\ (Pending <=> Pending')
    BY <2>1, <2>2 DEF Live, Pending, Due
  <2>4. swallowed' <=> swallowed
    BY <2>1
  <2>5. Level' > 0 <=> Level > 0
    BY <2>2
  <2> QED BY <2>1, <2>3, <2>4, <2>5, Zenon DEF Judged, Upheld
<1>20. ASSUME RestartBegin PROVE Judged' /\ Upheld'
  <2>1. UNCHANGED <<core, tec, rec, state, judged, clobbered, isr, ipc, status, pc, swallowed>>
        /\ tec = 0 /\ rec = 0 /\ ~timer'
    BY <1>20 DEF RestartBegin, regs, locals, hist, Front, ConfigClean, TimerAlone
  <2> QED BY <2>1, LevelNone, VerdictActive
<1>21. ASSUME RestartEnd PROVE Judged' /\ Upheld'
  <2>1. UNCHANGED <<core, tec, rec, timer, state, judged, clobbered>>
    BY <1>21 DEF RestartEnd, StartAt, regs, locals
  <2>2. Level' = Level
    BY <2>1 DEF Level, Status, BusOff, OnBus
  <2>3. (Live' => Live) /\ (Pending => Pending') /\ (swallowed => swallowed')
    BY <1>21, <2>1, <2>2 DEF RestartEnd, StartAt, regs, Live, Pending, Due, TypeOK, Starters
  <2> QED BY <2>1, <2>2, <2>3, VerdictFrame, LevelFacts
<1>22. ASSUME OpenBegin PROVE Judged' /\ Upheld'
  <2>1. UNCHANGED <<core, tec, rec, timer, state, judged, clobbered>>
    BY <1>22 DEF OpenBegin, regs, hist
  <2>2. Level' = Level
    BY <2>1 DEF Level, Status, BusOff, OnBus
  <2>3. (Live' => Live) /\ (Pending => Pending') /\ (swallowed => swallowed')
    BY <1>22, <2>1, <2>2
    DEF OpenBegin, Thread, StartAt, Live, Pending, Due, Front, ConfigClean
  <2> QED BY <2>1, <2>2, <2>3, VerdictFrame, LevelFacts
<1>23. ASSUME OpenEnd PROVE Judged' /\ Upheld'
  <2>1. UNCHANGED <<core, tec, rec, timer, state, judged, clobbered>>
    BY <1>23 DEF OpenEnd, regs, hist
  <2>2. Level' = Level
    BY <2>1 DEF Level, Status, BusOff, OnBus
  <2>3. (Live' => Live) /\ (Pending => Pending') /\ (swallowed => swallowed')
    BY <1>23, <2>1, <2>2 DEF OpenEnd, Thread, StartAt, regs, hist, Live, Pending, Due, TypeOK
  <2> QED BY <2>1, <2>2, <2>3, VerdictFrame, LevelFacts
<1>24. ASSUME UnwindCandev PROVE Judged' /\ Upheld'
  <2>1. ~Live'
    BY <1>24 DEF UnwindCandev, Thread, Live, OpenOnly
  <2> QED BY <2>1, Zenon DEF Judged, Upheld
<1>25. ASSUME UnwindIrq PROVE Judged' /\ Upheld'
  <2>1. UNCHANGED <<core, tec, rec, timer, state, judged, clobbered>>
    BY <1>25 DEF UnwindIrq, regs, hist
  <2>2. Level' = Level
    BY <2>1 DEF Level, Status, BusOff, OnBus
  <2>3. (Live' => Live) /\ (Pending => Pending') /\ (swallowed => swallowed')
    BY <1>25, <2>1, <2>2 DEF UnwindIrq, Thread, regs, hist, Live, Pending, Due
  <2> QED BY <2>1, <2>2, <2>3, VerdictFrame, LevelFacts
<1>26. ASSUME CloseChip PROVE Judged' /\ Upheld'
  <2>1. ~Live'
    BY <1>26 DEF CloseChip, Thread, Live, OpenOnly
  <2> QED BY <2>1, Zenon DEF Judged, Upheld
<1>27. ASSUME CloseState PROVE Judged' /\ Upheld'
  <2>1. ~Live'
    BY <1>27 DEF CloseState, Thread, Live, OpenOnly
  <2> QED BY <2>1, Zenon DEF Judged, Upheld
<1>28. ASSUME CloseIrq PROVE Judged' /\ Upheld'
  <2>1. UNCHANGED <<core, tec, rec, timer, state, judged, clobbered>>
    BY <1>28 DEF CloseIrq, regs, hist
  <2>2. Level' = Level
    BY <2>1 DEF Level, Status, BusOff, OnBus
  <2>3. (Live' => Live) /\ (Pending => Pending') /\ (swallowed => swallowed')
    BY <1>28, <2>1, <2>2 DEF CloseIrq, Thread, regs, hist, Live, Pending, Due
  <2> QED BY <2>1, <2>2, <2>3, VerdictFrame, LevelFacts
<1>29. ASSUME CloseCandev PROVE Judged' /\ Upheld'
  <2>1. ~Live'
    BY <1>29 DEF CloseCandev, Thread, Live, OpenOnly
  <2> QED BY <2>1, Zenon DEF Judged, Upheld
<1>30. ASSUME HwFrame PROVE Judged' /\ Upheld'
  <2>1. UNCHANGED <<core, tec, rec, timer, state, judged, clobbered>>
    BY <1>30 DEF HwFrame, IrqAt, regs, runs, hist
  <2>2. Level' = Level
    BY <2>1 DEF Level, Status, BusOff, OnBus
  <2>3. (Live' => Live) /\ (Pending => Pending') /\ (swallowed => swallowed')
    BY <1>30, <2>1, <2>2 DEF HwFrame, IrqAt, regs, runs, hist, Live, Pending, Due, Looking
  <2> QED BY <2>1, <2>2, <2>3, VerdictFrame, LevelFacts
<1>31. ASSUME IrqReadIer PROVE Judged' /\ Upheld'
  <2>1. UNCHANGED <<core, tec, rec, timer, state, judged, clobbered>>
    BY <1>31 DEF IrqReadIer, IrqAt, regs, runs, hist
  <2>2. Level' = Level
    BY <2>1 DEF Level, Status, BusOff, OnBus
  <2>3. (Live' => Live) /\ (Pending => Pending') /\ (swallowed => swallowed')
    BY <1>31, <2>1, <2>2 DEF IrqReadIer, IrqAt, regs, runs, hist, Live, Pending, Due, Looking
  <2> QED BY <2>1, <2>2, <2>3, VerdictFrame, LevelFacts
<1>32. ASSUME IrqMask PROVE Judged' /\ Upheld'
  <2>1. UNCHANGED <<core, tec, rec, timer, state, judged, clobbered>>
    BY <1>32 DEF IrqMask, IrqAt, regs, runs, hist
  <2>2. Level' = Level
    BY <2>1 DEF Level, Status, BusOff, OnBus
  <2>3. (Live' => Live) /\ (Pending => Pending') /\ (swallowed => swallowed')
    BY <1>32, <2>1, <2>2 DEF IrqMask, IrqAt, regs, runs, hist, Live, Pending, Due, Looking
  <2> QED BY <2>1, <2>2, <2>3, VerdictFrame, LevelFacts
<1>33. ASSUME PollReadIer PROVE Judged' /\ Upheld'
  <2>1. UNCHANGED <<core, tec, rec, timer, state, judged, clobbered>>
    BY <1>33 DEF PollReadIer, IrqAt, regs, runs, hist
  <2>2. Level' = Level
    BY <2>1 DEF Level, Status, BusOff, OnBus
  <2>3. (Live' => Live) /\ (Pending => Pending') /\ (swallowed => swallowed')
    BY <1>33, <2>1, <2>2 DEF PollReadIer, IrqAt, regs, runs, hist, Live, Pending, Due, Looking
  <2> QED BY <2>1, <2>2, <2>3, VerdictFrame, LevelFacts
<1>34. ASSUME PollUnmask PROVE Judged' /\ Upheld'
  <2>1. UNCHANGED <<core, tec, rec, timer, state, judged, clobbered>>
    BY <1>34 DEF PollUnmask, IrqAt, regs, runs, hist
  <2>2. Level' = Level
    BY <2>1 DEF Level, Status, BusOff, OnBus
  <2>3. (Live' => Live) /\ (Pending => Pending') /\ (swallowed => swallowed')
    BY <1>34, <2>1, <2>2 DEF PollUnmask, IrqAt, regs, runs, hist, Live, Pending, Due, Looking
  <2> QED BY <2>1, <2>2, <2>3, VerdictFrame, LevelFacts
<1> QED
  BY <1>1, <1>2, <1>3, <1>4, <1>5, <1>6, <1>7, <1>8, <1>9, <1>10, <1>11, <1>12, <1>13,
     <1>14, <1>15, <1>16, <1>17, <1>18, <1>19, <1>20, <1>21, <1>22, <1>23, <1>24, <1>25,
     <1>26, <1>27, <1>28, <1>29, <1>30, <1>31, <1>32, <1>33, <1>34
  DEF Next, Hw, Irq, IrqRest, Poll, Restart, Start, Calls, Starters

\* A step that leaves the core alone leaves what was read as fresh as it was,
LEMMA FreshFrame ==
    ASSUME TypeOK, TypeOK', StatusFresh,
           UNCHANGED <<core, tec, rec, isr, ipc, status, swallowed>>, timer' => timer
    PROVE  StatusFresh'
<1>1. Level' <= Level /\ Level \in 0..3 /\ Level' \in 0..3
  BY ErrAssumption DEF TypeOK, Level, Status, BusOff, OnBus
<1>2. StatusRank' = StatusRank /\ StatusRank \in 0..2 /\ (Due' <=> Due)
  BY DEF StatusRank, Due
<1>3. StatusRank >= Level => StatusRank >= Level'
  BY <1>1, <1>2
<1> QED BY <1>2, <1>3 DEF StatusFresh

\* and a reset leaves nothing worse to be read.
LEMMA FreshReset ==
    ASSUME TypeOK', Front, UNCHANGED <<ipc, timer>>, tec' = 0, rec' = 0
    PROVE  StatusFresh'
<1>1. CASE timer
  BY <1>1 DEF StatusFresh, Front, TimerAlone, Quiet
<1>2. CASE ~timer
  <2>1. Level' = 0
    BY <1>2, LevelNone
  <2>2. StatusRank' \in 0..2
    BY DEF StatusRank
  <2> QED BY <2>1, <2>2 DEF StatusFresh
<1> QED BY <1>1, <1>2

\* The counters rise only with an interrupt, so what the handler read of SR stays as bad as
\* the core, or there is an interrupt due.
LEMMA FreshKept ==
    ASSUME TypeOK, TypeOK', Front, StatusFresh, Next
    PROVE  StatusFresh'
<1>1. ASSUME NEW k \in Kinds, HwError(k) PROVE StatusFresh'
  <2>1. Due'
    BY <1>1 DEF HwError, Due
  <2> QED BY <2>1 DEF StatusFresh
<1>2. ASSUME HwGood PROVE StatusFresh'
  <2>1. /\ UNCHANGED <<core, timer, swallowed, isr, ipc, status>>
        /\ OnBus /\ tec' <= tec /\ rec' <= rec
    BY <1>2 DEF HwGood, Happens, locals, runs, TypeOK
  <2>2. Level' <= Level
    BY <2>1, LevelFalls
  <2>3. StatusRank' = StatusRank /\ (Due <=> Due')
    BY <2>1 DEF StatusRank, Due
  <2>4. StatusRank >= Level => StatusRank >= Level'
    BY <2>2, LevelFacts, LevelTyped
  <2> QED BY <2>1, <2>3, <2>4 DEF StatusFresh
<1>3. ASSUME NEW b \in {"arblst", "rxoflw"}, HwCause(b) PROVE StatusFresh'
  <2>1. UNCHANGED <<core, tec, rec, timer, ipc, status, swallowed>> /\ (Due => Due')
    BY <1>3 DEF HwCause, locals, runs, hist, Due
  <2>2. Level' = Level /\ StatusRank' = StatusRank
    BY <2>1 DEF Level, Status, BusOff, StatusRank
  <2> QED BY <2>1, <2>2 DEF StatusFresh
<1>4. ASSUME IrqBegin PROVE StatusFresh'
  <2>1. ipc' # "judge"
    BY <1>4 DEF IrqBegin, IrqAt
  <2> QED BY <2>1 DEF StatusFresh
<1>5. ASSUME IrqClear PROVE StatusFresh'
  <2>1. ipc' # "judge"
    BY <1>5 DEF IrqClear, IrqAt, locals, runs
  <2> QED BY <2>1 DEF StatusFresh
<1>6. ASSUME IrqEsr PROVE StatusFresh'
  <2>1. ipc' # "judge"
    BY <1>6 DEF IrqEsr, IrqAt
  <2> QED BY <2>1 DEF StatusFresh
<1>7. ASSUME IrqAckEsr PROVE StatusFresh'
  <2>1. ipc' # "judge"
    BY <1>7 DEF IrqAckEsr, IrqAt
  <2> QED BY <2>1 DEF StatusFresh
<1>8. ASSUME IrqEcr PROVE StatusFresh'
  <2>1. ipc' # "judge"
    BY <1>8 DEF IrqEcr, IrqAt
  <2> QED BY <2>1 DEF StatusFresh
<1>9. ASSUME IrqSr PROVE StatusFresh'
  <2>1. CASE "bsoff" \in seen
    <3>1. ipc' # "judge"
      BY <1>9, <2>1 DEF IrqSr, IrqAt
    <3> QED BY <3>1 DEF StatusFresh
  <2>2. CASE "bsoff" \notin seen
    <3>1. /\ ipc = "sr" /\ ipc' = "judge" /\ status' = Status /\ ~timer
          /\ UNCHANGED <<core, tec, rec, timer, isr, state, swallowed>>
      BY <1>9, <2>2 DEF IrqSr, IrqAt, regs, runs, hist, Front, TimerAlone, Quiet
    <3>2. CASE BusOff
      <4>1. Due \/ swallowed
        BY <2>2, <3>1, <3>2 DEF Front, BusOffShown, Due
      <4> QED BY <3>1, <4>1 DEF StatusFresh, Due
    <3>3. CASE ~BusOff
      <4>1. StatusRank' >= Level'
        BY <3>1, <3>3 DEF StatusRank, Level, Status, BusOff, OnBus
      <4> QED BY <4>1 DEF StatusFresh
    <3> QED BY <3>2, <3>3
  <2> QED BY <2>1, <2>2
<1>10. ASSUME IrqBusOff PROVE StatusFresh'
  <2>1. ipc' # "judge"
    BY <1>10 DEF IrqBusOff, IrqAt, AfterJudging
  <2> QED BY <2>1 DEF StatusFresh
<1>11. ASSUME IrqJudge PROVE StatusFresh'
  <2>1. ipc' # "judge"
    BY <1>11 DEF IrqJudge, IrqAt, AfterJudging
  <2> QED BY <2>1 DEF StatusFresh
<1>12. ASSUME IrqOverflow PROVE StatusFresh'
  <2>1. ipc' # "judge"
    BY <1>12 DEF IrqOverflow, IrqAt
  <2> QED BY <2>1 DEF StatusFresh
<1>13. ASSUME IrqReport PROVE StatusFresh'
  <2>1. ipc' # "judge"
    BY <1>13 DEF IrqReport, IrqAt, regs, runs
  <2> QED BY <2>1 DEF StatusFresh
<1>14. ASSUME NEW w \in Starters, StartReset(w) PROVE StatusFresh'
  <2>1. UNCHANGED <<ipc, timer>> /\ tec' = 0 /\ rec' = 0
    BY <1>14 DEF StartReset, SoftReset
  <2> QED BY <2>1, FreshReset
<1>15. ASSUME NEW w \in Starters, StartSetup(w) PROVE StatusFresh'
  <2>1. UNCHANGED <<core, tec, rec, isr, ipc, status, swallowed>> /\ (timer' => timer)
    BY <1>15 DEF StartSetup, StartAt, locals, hist
  <2> QED BY <2>1, FreshFrame
<1>16. ASSUME NEW w \in Starters, StartCen(w) PROVE StatusFresh'
  <2>1. /\ UNCHANGED <<ipc, timer>> /\ tec' = 0 /\ rec' = 0
    BY <1>16 DEF StartCen, StartAt, Front, ConfigClean, StartsAlone, Early
  <2> QED BY <2>1, FreshReset
<1>17. ASSUME NEW w \in Starters, StartTimeout(w) PROVE StatusFresh'
  <2>1. CASE UNCHANGED regs
    <3>1. UNCHANGED <<core, tec, rec, isr, ipc, status, swallowed>> /\ (timer' => timer)
      BY <1>17, <2>1 DEF StartTimeout, regs, locals, hist
    <3> QED BY <3>1, FreshFrame
  <2>2. CASE ~UNCHANGED regs
    <3>1. UNCHANGED <<ipc, timer>> /\ tec' = 0 /\ rec' = 0
      BY <1>17, <2>2 DEF StartTimeout, regs, Front, ConfigClean, TypeOK
    <3> QED BY <3>1, FreshReset
  <2> QED BY <2>1, <2>2
<1>18. ASSUME NEW w \in Starters, StartResetTimeout(w) PROVE StatusFresh'
  <2>1. UNCHANGED <<ipc, timer>> /\ tec' = 0 /\ rec' = 0
    BY <1>18 DEF StartResetTimeout, SoftReset
  <2> QED BY <2>1, FreshReset
<1>19. ASSUME NEW w \in Starters, StartState(w) PROVE StatusFresh'
  <2>1. UNCHANGED <<core, tec, rec, isr, ipc, status, swallowed>> /\ (timer' => timer)
    BY <1>19 DEF StartState, StartAt, regs, locals
  <2> QED BY <2>1, FreshFrame
<1>20. ASSUME RestartBegin PROVE StatusFresh'
  <2>1. UNCHANGED <<core, tec, rec, isr, ipc, status, swallowed>> /\ (timer' => timer)
    BY <1>20 DEF RestartBegin, regs, locals, hist
  <2> QED BY <2>1, FreshFrame
<1>21. ASSUME RestartEnd PROVE StatusFresh'
  <2>1. UNCHANGED <<core, tec, rec, isr, ipc, status, swallowed>> /\ (timer' => timer)
    BY <1>21 DEF RestartEnd, StartAt, regs, locals
  <2> QED BY <2>1, FreshFrame
<1>22. ASSUME OpenBegin PROVE StatusFresh'
  <2>1. UNCHANGED <<core, tec, rec, isr, ipc, status, swallowed>> /\ (timer' => timer)
    BY <1>22 DEF OpenBegin, Thread, locals, regs, hist
  <2> QED BY <2>1, FreshFrame
<1>23. ASSUME OpenEnd PROVE StatusFresh'
  <2>1. UNCHANGED <<core, tec, rec, isr, ipc, status, swallowed>> /\ (timer' => timer)
    BY <1>23 DEF OpenEnd, Thread, locals, regs, hist
  <2> QED BY <2>1, FreshFrame
<1>24. ASSUME UnwindCandev PROVE StatusFresh'
  <2>1. UNCHANGED <<core, tec, rec, isr, ipc, status, swallowed>> /\ (timer' => timer)
    BY <1>24 DEF UnwindCandev, Thread, locals, regs, hist
  <2> QED BY <2>1, FreshFrame
<1>25. ASSUME UnwindIrq PROVE StatusFresh'
  <2>1. UNCHANGED <<core, tec, rec, isr, ipc, status, swallowed>> /\ (timer' => timer)
    BY <1>25 DEF UnwindIrq, Thread, locals, regs, hist
  <2> QED BY <2>1, FreshFrame
<1>26. ASSUME CloseChip PROVE StatusFresh'
  <2>1. UNCHANGED <<ipc, timer>> /\ tec' = 0 /\ rec' = 0
    BY <1>26 DEF CloseChip, Thread, SoftReset
  <2> QED BY <2>1, FreshReset
<1>27. ASSUME CloseState PROVE StatusFresh'
  <2>1. UNCHANGED <<core, tec, rec, isr, ipc, status, swallowed>> /\ (timer' => timer)
    BY <1>27 DEF CloseState, Thread, locals, regs, hist
  <2> QED BY <2>1, FreshFrame
<1>28. ASSUME CloseIrq PROVE StatusFresh'
  <2>1. UNCHANGED <<core, tec, rec, isr, ipc, status, swallowed>> /\ (timer' => timer)
    BY <1>28 DEF CloseIrq, Thread, locals, regs, hist
  <2> QED BY <2>1, FreshFrame
<1>29. ASSUME CloseCandev PROVE StatusFresh'
  <2>1. UNCHANGED <<core, tec, rec, isr, ipc, status, swallowed>> /\ (timer' => timer)
    BY <1>29 DEF CloseCandev, Thread, locals, regs, hist
  <2> QED BY <2>1, FreshFrame
<1>30. ASSUME HwFrame PROVE StatusFresh'
  <2>1. UNCHANGED <<core, tec, rec, isr, ipc, status, swallowed>> /\ (timer' => timer)
    BY <1>30 DEF HwFrame, regs, locals, runs, hist
  <2> QED BY <2>1, FreshFrame
<1>31. ASSUME IrqReadIer PROVE StatusFresh'
  <2>1. ipc' # "judge"
    BY <1>31 DEF IrqReadIer, IrqAt
  <2> QED BY <2>1 DEF StatusFresh
<1>32. ASSUME IrqMask PROVE StatusFresh'
  <2>1. ipc' # "judge"
    BY <1>32 DEF IrqMask, IrqAt
  <2> QED BY <2>1 DEF StatusFresh
<1>33. ASSUME PollReadIer PROVE StatusFresh'
  <2>1. UNCHANGED <<core, tec, rec, isr, ipc, status, swallowed>> /\ (timer' => timer)
    BY <1>33 DEF PollReadIer, regs, locals, runs, hist
  <2> QED BY <2>1, FreshFrame
<1>34. ASSUME PollUnmask PROVE StatusFresh'
  <2>1. UNCHANGED <<core, tec, rec, isr, ipc, status, swallowed>> /\ (timer' => timer)
    BY <1>34 DEF PollUnmask, regs, locals, runs, hist
  <2> QED BY <2>1, FreshFrame
<1> QED
  BY <1>1, <1>2, <1>3, <1>4, <1>5, <1>6, <1>7, <1>8, <1>9, <1>10, <1>11, <1>12, <1>13,
     <1>14, <1>15, <1>16, <1>17, <1>18, <1>19, <1>20, <1>21, <1>22, <1>23, <1>24, <1>25,
     <1>26, <1>27, <1>28, <1>29, <1>30, <1>31, <1>32, <1>33, <1>34
  DEF Next, Hw, Irq, IrqRest, Poll, Restart, Start, Calls, Starters

-----------------------------------------------------------------------------
(* The theorems *)

\* The inductive invariant.
IInv == TypeOK /\ KindsInv /\ DeadInv /\ HonestInv /\ StateInv

\* The parts hold at the start.
LEMMA Initially == Init => IInv
<1> SUFFICES ASSUME Init PROVE IInv
  OBVIOUS
<1>1. TypeOK
  <2>1. Values
    BY ErrAssumption DEF Init, Values, Kinds, ErrCauses, AllCauses, States, Starters
  <2>2. Flags
    BY Zenon DEF Init, Flags
  <2> QED BY <2>1, <2>2, TypeParts
<1>2. KindsInv
  BY DEF Init, KindsInv, Empty, Unseen, Counted, Flagged, Wiped, Doomed, KindsAccounted
<1>3. DeadInv
  BY DEF Init, DeadInv, OpenOnly, CoreDead, Starters
<1>4. HonestInv
  BY DEF Init, HonestInv, Comparing
<1>5. StateInv
  <2>1. Front
    BY ErrAssumption
    DEF Init, Front, ConfigClean, IrqQuiet, BranchSeen, StartsAlone, Early, TimerAlone,
        BusOffShown, BusOff, Starters
  <2>2. StatusFresh /\ Judged /\ Upheld
    BY DEF Init, StatusFresh, Judged, Upheld, Live, Starters
  <2> QED BY <2>1, <2>2 DEF StateInv
<1> QED BY <1>1, <1>2, <1>3, <1>4, <1>5 DEF IInv

\* Nor does a stuttering step break them.
LEMMA Stuttering == IInv /\ UNCHANGED vars => IInv'
<1> SUFFICES ASSUME IInv, UNCHANGED vars PROVE IInv'
  OBVIOUS
<1>1. TypeOK'
  BY DEF IInv, TypeOK, vars, regs, locals, tails, runs, hist
<1>2. KindsInv'
  BY DEF IInv, KindsInv, Empty, Unseen, Counted, Flagged, Wiped, Doomed, KindsAccounted,
         vars, regs, locals, runs, hist
<1>3. DeadInv'
  BY DEF IInv, DeadInv, OpenOnly, CoreDead, vars, regs, locals, runs, hist
<1>4. HonestInv'
  BY DEF IInv, HonestInv, Comparing, vars, regs, locals, runs, hist
<1>5. StateInv'
  <2>1. UNCHANGED <<core, tec, rec, timer, state, status, ipc, isr, judged, clobbered, swallowed>>
    BY DEF vars, regs, locals, runs, hist
  <2>2. Level' = Level /\ StatusRank' = StatusRank
    BY <2>1 DEF Level, Status, BusOff, OnBus, StatusRank
  <2>3. Front'
    BY DEF IInv, StateInv, Front, ConfigClean, IrqQuiet, BranchSeen, StartsAlone, TimerAlone,
           BusOffShown, BusOff, vars, regs, locals, tails, runs, hist
  <2>4. (Pending' <=> Pending) /\ (Due' <=> Due) /\ (Live' <=> Live)
    BY DEF Pending, Due, Live, vars, regs, locals, runs
  <2> QED BY <2>1, <2>2, <2>3, <2>4 DEF IInv, StateInv, StatusFresh, Judged, Upheld
<1> QED BY <1>1, <1>2, <1>3, <1>4, <1>5 DEF IInv

\* The five parts together are inductive.
THEOREM Invariance == Spec => []IInv
<1>1. IInv /\ [Next]_vars => IInv'
  <2> SUFFICES ASSUME IInv, Next PROVE IInv'
    BY Stuttering
  <2>1. TypeOK'
    BY ValuesKept, FlagsKept, TypeParts DEF IInv
  <2>2. KindsInv' /\ DeadInv' /\ HonestInv'
    BY KindsKept, DeadKept, HonestKept DEF IInv, StateInv
  <2>3. StateInv'
    BY <2>1, FrontKept, FreshKept, VerdictKept DEF IInv, StateInv, KindsInv, DeadInv
  <2> QED BY <2>1, <2>2, <2>3 DEF IInv
<1> QED BY Initially, <1>1, PTL DEF Spec

\* Every variable of the model keeps its type (TypeOK), for all error levels and all sets of
\* error kinds.
THEOREM TypeCorrect == Spec => []TypeOK
<1>1. IInv => TypeOK
  BY DEF IInv
<1> QED BY Invariance, <1>1, PTL

\* Until the interface is closed, the handler loses no error kind (KindsAccounted) but one that
\* came between its read of ISR, which did not show ERROR, and its write of ESR, or between its
\* read of ESR and the reset of the core that it then does for a bus-off or an overflow.  The
\* order of the two clears in xcan_interrupt and xcan_err_interrupt loses no other.
THEOREM NoKindLost == Spec => []KindsAccounted
<1>1. IInv => KindsAccounted
  BY DEF IInv, KindsInv
<1> QED BY Invariance, <1>1, PTL

\* An interface that is up has its core off the bus only while a restart is due
\* (DeadOnlyWhen), but for a failed start and an overflow: no interleaving of the handler, the
\* timer and open leaves it off the bus otherwise.
THEOREM NeverJustDead == Spec => []DeadOnlyWhen
<1>1. IInv => DeadOnlyWhen
  BY DEF IInv, DeadInv, CoreDead, DeadOnlyWhen, Settled
<1> QED BY Invariance, <1>1, PTL

\* The error frame of an error passive core blames a counter that has reached the level
\* (HonestPassive), unless ECR has changed since xcan_err_interrupt read it.
THEOREM BlameIsHonest == Spec => []HonestPassive
<1>1. IInv => HonestPassive
  BY DEF IInv, HonestInv, HonestPassive, Told, Comparing
<1> QED BY Invariance, <1>1, PTL

\* can.state never promises more than the core can keep (NeverBetter): when the interface is
\* up, no error interrupt is due and no restart is running, it is as bad as the core's level,
\* unless xcan_chip_start wrote over what the handler found or a bus-off was cleared unseen.
THEOREM StateNeverBetter == Spec => []NeverBetter
<1>1. IInv => NeverBetter
  <2> SUFFICES ASSUME IInv, Settled, ~clobbered, ~swallowed PROVE Rank[state] >= Level
    BY DEF NeverBetter
  <2>1. Level \in 0..3 /\ Rank[state] \in 0..3
    BY LevelFacts DEF IInv
  <2>2. ~Pending /\ Live
    BY DEF Settled, Pending, Due, Looking, Live
  <2>3. CASE Level > 0
    BY <2>2, <2>3 DEF IInv, StateInv, Judged, Upheld
  <2> QED BY <2>1, <2>3
<1> QED BY Invariance, <1>1, PTL
=============================================================================
