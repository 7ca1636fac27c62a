---------------------------- MODULE XCanLifeProofs ----------------------------
(***************************************************************************)
(* Proofs about XCanLife.  What is held, which contexts may run, who has   *)
(* the core on and how often each clock is enabled follow from where the   *)
(* threads are; together this is inductive, and every safety property of   *)
(* the module follows from it.                                             *)
(***************************************************************************)
EXTENDS XCanLife, TLAPS

\* TypeOK in two parts, the flags and the rest, but for the bounds of the clocks' counts.
Flags  == /\ up \in BOOLEAN /\ rxnemp \in BOOLEAN /\ bsoff \in BOOLEAN
          /\ seenRx \in BOOLEAN /\ seenOflw \in BOOLEAN
          /\ timer \in BOOLEAN /\ late \in BOOLEAN /\ orphan \in BOOLEAN
Places ==
    /\ pc \in {"idle", "o_can", "o_bus", "o_reset", "o_candev", "o_start", "o_enable",
               "o_cen", "o_napi", "u_candev", "u_bus", "u_can", "u_irq", "c_napi",
               "c_chip", "c_bus", "c_can", "c_irq", "c_candev", "b_bus", "b_read",
               "b_putcan"}
    /\ dpc \in {"idle", "p_can", "p_bus", "p_detect", "p_register", "p_putbus",
                "p_putcan", "p_unbus", "p_uncan", "p_free", "r_unregister"}
    /\ res \subseteq {"netdev", "registered", "irq", "candev"}
    /\ clk \in [Clocks -> Int] /\ accessors \in {"none", "le", "be"}
    /\ core \in {"config", "normal", "busoff"} /\ ier \subseteq AllIrqs
    /\ ipc \in {"idle", "isr", "bsoff", "oflw", "ier", "mask", "schedule"}
    /\ iier \subseteq AllIrqs
    /\ napi \in {"off", "idle", "sched"} /\ ppc \in {"idle", "drain", "ier", "unmask"}
    /\ pier \subseteq AllIrqs /\ rpc \in {"idle", "reset", "enable", "cen"}

\* Where the thread holds the interrupt and not yet, or no longer, the CAN device; and where
\* it holds both.
IrqOnly == {"o_can", "o_bus", "o_reset", "o_candev", "u_bus", "u_can", "u_irq"}
Both    == {"o_start", "o_enable", "o_cen", "o_napi", "u_candev",
            "c_napi", "c_chip", "c_bus", "c_can", "c_irq"}
Opening == IrqOnly \union Both \union {"c_candev"}

\* What is held is what the place of the thread says.
Held == /\ "irq" \in res <=> up \/ pc \in IrqOnly \union Both
        /\ "candev" \in res <=> up \/ pc \in Both \union {"c_candev"}
        /\ up => pc \notin Opening
        /\ up \/ pc # "idle" => "registered" \in res
        /\ "registered" \in res => dpc \in {"idle", "p_putbus", "p_putcan", "r_unregister"}

\* The contexts run only while what they serve is there; but the timer may be an orphan.
Contexts == /\ napi # "off" <=> up \/ pc = "c_napi"
            /\ ppc = "drain" => napi = "sched"
            /\ ipc # "idle" => "irq" \in res
            /\ timer \/ rpc # "idle" => orphan \/ "candev" \in res

\* A core that is on belongs to an interface, or is on by a late start.
CoreOwned == core # "config" => late \/ up \/ pc \in {"o_napi", "c_napi", "c_chip"}

\* The clocks are enabled as often as probe, the open interface and the thread have them.
Share(b) == IF b THEN 1 ELSE 0
CanPcs   == {"o_bus", "o_reset", "o_candev", "o_start", "o_enable", "o_cen", "o_napi",
             "u_candev", "u_bus", "u_can", "c_napi", "c_chip", "c_bus", "c_can",
             "b_bus", "b_read", "b_putcan"}
BusPcs   == {"o_reset", "o_candev", "o_start", "o_enable", "o_cen", "o_napi",
             "u_candev", "u_bus", "c_napi", "c_chip", "c_bus", "b_read"}
CanDpcs  == {"p_bus", "p_detect", "p_register", "p_putbus", "p_putcan", "p_unbus", "p_uncan"}
BusDpcs  == {"p_detect", "p_register", "p_putbus", "p_unbus"}
Counts   == /\ clk["can"] = Share(up) + Share(pc \in CanPcs) + Share(dpc \in CanDpcs)
            /\ clk["bus"] = Share(up) + Share(pc \in BusPcs) + Share(dpc \in BusDpcs)

\* The inductive invariant.
IInv == TypeOK /\ Held /\ Contexts /\ CoreOwned /\ Counts

-----------------------------------------------------------------------------
(* What each part of the system leaves alone *)

\* Probe leaves the interface, the core and the contexts alone.
LEMMA ProbeFrame ==
    ASSUME Probe \/ ProbeAlloc
    PROVE  dpc # "r_unregister" /\ UNCHANGED <<pc, up, hw, irq, poll, rst, hist>>
BY DEF Probe, ProbeCanClk, ProbeBusClk, ProbeDetect, ProbeRegister, ProbePutBus,
       ProbePutCan, ProbeUnBus, ProbeUnCan, ProbeFree, ProbeAlloc, DriverStep, hist

\* Remove leaves the clocks and the byte order alone.
LEMMA RemoveFrame ==
    ASSUME Remove \/ RemoveReset
    PROVE  UNCHANGED <<clk, accessors, orphan>>
BY DEF Remove, RemoveClose, RemoveUnregister, RemoveReset, DriverStep, dev, hist

\* The calls under RTNL leave probe, the handler and the byte order alone.
LEMMA CallFrame ==
    ASSUME Open \/ Close \/ Berr \/ OpenIrq \/ CloseBegin \/ BerrCan
    PROVE  UNCHANGED <<dpc, accessors, irq, orphan>>
BY DEF Open, OpenCanClk, OpenBusClk, OpenReset, OpenCandev, OpenStart, OpenEnable, OpenCen,
       OpenNapi, UnwindCandev, UnwindBus, UnwindCan, UnwindIrq, Close, CloseNapi,
       CloseChip, CloseBus, CloseCan, CloseIrq, CloseCandev, Berr, BerrBus, BerrReadPutBus,
       BerrPutCan, OpenIrq, CloseBegin, BerrCan, Step

\* The contexts leave the threads and what they hold alone.
LEMMA ContextFrame ==
    ASSUME Irq \/ Poll \/ Restart \/ HwCause
    PROVE  UNCHANGED <<ctl, dev>>
BY DEF Irq, IrqEnter, IrqIsr, IrqBusOff, IrqOverflow, IrqReadIer, IrqMask, IrqSchedule, Poll,
       PollBegin, PollDrain, PollQuota, PollReadIer, PollUnmask, Restart, RestartBegin,
       RestartReset,
       RestartEnable, RestartCen, HwCause

\* Only a bus-off makes an orphan.
LEMMA OrphanFrame ==
    ASSUME Irq \/ Poll \/ Restart \/ HwCause, ~orphan, orphan'
    PROVE  IrqBusOff
BY DEF Irq, IrqEnter, IrqIsr, IrqBusOff, IrqOverflow, IrqReadIer, IrqMask, IrqSchedule, Poll,
       PollBegin, PollDrain, PollQuota, PollReadIer, PollUnmask, Restart, RestartBegin,
       RestartReset,
       RestartEnable, RestartCen, HwCause, hist

-----------------------------------------------------------------------------
(* Every step preserves each part *)

\* No step takes a variable out of its type;
LEMMA PlacesKept ==
    ASSUME TypeOK, Next
    PROVE  Places'
<1>1. ASSUME ProbeAlloc PROVE Places'
  BY <1>1 DEF ProbeAlloc, DriverStep, irq, rst, hw, poll, Places, TypeOK
<1>2. ASSUME RemoveReset PROVE Places'
  BY <1>2
  DEF RemoveReset, DriverStep, irq, rst, SoftReset, Clocked, hw, poll, Places, TypeOK
<1>3. ASSUME OpenIrq PROVE Places'
  BY <1>3 DEF OpenIrq, Step, irq, hw, poll, rst, Places, TypeOK
<1>4. ASSUME CloseBegin PROVE Places'
  BY <1>4 DEF CloseBegin, Step, irq, hw, poll, rst, Places, TypeOK
<1>5. ASSUME BerrCan PROVE Places'
  BY <1>5 DEF BerrCan, Step, irq, Enable, hw, poll, rst, Places, TypeOK, Clocks
<1>6. ASSUME ProbeCanClk PROVE Places'
  BY <1>6 DEF ProbeCanClk, DriverStep, irq, rst, Enable, hw, poll, Places, TypeOK, Clocks
<1>7. ASSUME ProbeBusClk PROVE Places'
  BY <1>7 DEF ProbeBusClk, DriverStep, irq, rst, Enable, hw, poll, Places, TypeOK, Clocks
<1>8. ASSUME ProbeDetect PROVE Places'
  BY <1>8 DEF ProbeDetect, DriverStep, irq, rst, hw, poll, Places, TypeOK
<1>9. ASSUME ProbeRegister PROVE Places'
  <2>1. res' \subseteq {"netdev", "registered", "irq", "candev"}
    BY <1>9 DEF ProbeRegister, TypeOK
  <2> QED BY <1>9, <2>1 DEF ProbeRegister, DriverStep, irq, rst, hw, poll, Places, TypeOK
<1>10. ASSUME ProbePutBus PROVE Places'
  BY <1>10 DEF ProbePutBus, DriverStep, irq, rst, Disable, hw, poll, Places, TypeOK, Clocks
<1>11. ASSUME ProbePutCan PROVE Places'
  BY <1>11 DEF ProbePutCan, DriverStep, irq, rst, Disable, hw, poll, Places, TypeOK, Clocks
<1>12. ASSUME ProbeUnBus PROVE Places'
  BY <1>12 DEF ProbeUnBus, DriverStep, irq, rst, Disable, hw, poll, Places, TypeOK, Clocks
<1>13. ASSUME ProbeUnCan PROVE Places'
  BY <1>13 DEF ProbeUnCan, DriverStep, irq, rst, Disable, hw, poll, Places, TypeOK, Clocks
<1>14. ASSUME ProbeFree PROVE Places'
  BY <1>14 DEF ProbeFree, DriverStep, irq, rst, hw, poll, Places, TypeOK
<1>15. ASSUME RemoveClose PROVE Places'
  BY <1>15 DEF RemoveClose, hw, irq, poll, rst, hist, Places, TypeOK
<1>16. ASSUME RemoveUnregister PROVE Places'
  BY <1>16 DEF RemoveUnregister, DriverStep, irq, rst, hw, poll, Places, TypeOK
<1>17. ASSUME OpenCanClk PROVE Places'
  BY <1>17 DEF OpenCanClk, Step, irq, Enable, hw, poll, rst, Places, TypeOK, Clocks
<1>18. ASSUME OpenBusClk PROVE Places'
  BY <1>18 DEF OpenBusClk, Step, irq, Enable, hw, poll, rst, Places, TypeOK, Clocks
<1>19. ASSUME OpenReset PROVE Places'
  BY <1>19 DEF OpenReset, Step, irq, SoftReset, hw, poll, rst, Places, TypeOK
<1>20. ASSUME OpenCandev PROVE Places'
  <2>1. res' \subseteq {"netdev", "registered", "irq", "candev"}
    BY <1>20 DEF OpenCandev, TypeOK
  <2> QED BY <1>20, <2>1 DEF OpenCandev, Step, irq, hw, poll, rst, Places, TypeOK
<1>21. ASSUME OpenStart PROVE Places'
  BY <1>21 DEF OpenStart, Step, irq, SoftReset, hw, poll, rst, Places, TypeOK
<1>22. ASSUME OpenEnable PROVE Places'
  BY <1>22 DEF OpenEnable, Step, irq, dev, poll, rst, Places, TypeOK, AllIrqs
<1>23. ASSUME OpenCen PROVE Places'
  BY <1>23 DEF OpenCen, Step, irq, dev, poll, rst, Places, TypeOK
<1>24. ASSUME OpenNapi PROVE Places'
  BY <1>24 DEF OpenNapi, Step, irq, hw, rst, Places, TypeOK
<1>25. ASSUME UnwindCandev PROVE Places'
  BY <1>25 DEF UnwindCandev, Step, irq, hw, poll, Places, TypeOK
<1>26. ASSUME UnwindBus PROVE Places'
  BY <1>26 DEF UnwindBus, Step, irq, Disable, hw, poll, rst, Places, TypeOK, Clocks
<1>27. ASSUME UnwindCan PROVE Places'
  BY <1>27 DEF UnwindCan, Step, irq, Disable, hw, poll, rst, Places, TypeOK, Clocks
<1>28. ASSUME UnwindIrq PROVE Places'
  BY <1>28 DEF UnwindIrq, Step, irq, hw, poll, rst, Places, TypeOK
<1>29. ASSUME CloseNapi PROVE Places'
  BY <1>29 DEF CloseNapi, Step, irq, dev, hw, rst, Places, TypeOK
<1>30. ASSUME CloseChip PROVE Places'
  BY <1>30 DEF CloseChip, Step, irq, SoftReset, dev, poll, rst, Places, TypeOK
<1>31. ASSUME CloseBus PROVE Places'
  BY <1>31 DEF CloseBus, Step, irq, Disable, hw, poll, rst, Places, TypeOK, Clocks
<1>32. ASSUME CloseCan PROVE Places'
  BY <1>32 DEF CloseCan, Step, irq, Disable, hw, poll, rst, Places, TypeOK, Clocks
<1>33. ASSUME CloseIrq PROVE Places'
  BY <1>33 DEF CloseIrq, Step, irq, hw, poll, rst, Places, TypeOK
<1>34. ASSUME CloseCandev PROVE Places'
  BY <1>34 DEF CloseCandev, Step, irq, hw, poll, Places, TypeOK
<1>35. ASSUME BerrBus PROVE Places'
  BY <1>35 DEF BerrBus, Step, irq, Enable, hw, poll, rst, Places, TypeOK, Clocks
<1>36. ASSUME BerrReadPutBus PROVE Places'
  BY <1>36 DEF BerrReadPutBus, Step, irq, Disable, hw, poll, rst, Places, TypeOK, Clocks
<1>37. ASSUME BerrPutCan PROVE Places'
  BY <1>37 DEF BerrPutCan, Step, irq, Disable, hw, poll, rst, Places, TypeOK, Clocks
<1>38. ASSUME IrqEnter PROVE Places'
  BY <1>38 DEF IrqEnter, ctl, dev, hw, poll, rst, hist, Places, TypeOK
<1>39. ASSUME IrqIsr PROVE Places'
  BY <1>39 DEF IrqIsr, AfterBusOff, AfterErrors, ctl, dev, poll, rst, hist, Places, TypeOK
<1>40. ASSUME IrqBusOff PROVE Places'
  BY <1>40 DEF IrqBusOff, SoftReset, AfterBusOff, AfterErrors, ctl, dev, poll, Places, TypeOK
<1>41. ASSUME IrqReadIer PROVE Places'
  BY <1>41 DEF IrqReadIer, ctl, dev, hw, poll, rst, hist, Places, TypeOK, AllIrqs
<1>42. ASSUME IrqMask PROVE Places'
  BY <1>42 DEF IrqMask, ctl, dev, poll, rst, hist, Places, TypeOK, AllIrqs
<1>43. ASSUME IrqSchedule PROVE Places'
  BY <1>43 DEF IrqSchedule, ctl, dev, hw, rst, hist, Places, TypeOK
<1>44. ASSUME PollBegin PROVE Places'
  BY <1>44 DEF PollBegin, ctl, dev, hw, irq, rst, hist, Places, TypeOK
<1>45. ASSUME PollDrain PROVE Places'
  BY <1>45 DEF PollDrain, ctl, dev, irq, rst, hist, Places, TypeOK
<1>46. ASSUME PollQuota PROVE Places'
  BY <1>46 DEF PollQuota, ctl, dev, hw, irq, rst, hist, Places, TypeOK
<1>47. ASSUME PollReadIer PROVE Places'
  BY <1>47 DEF PollReadIer, ctl, dev, hw, irq, rst, hist, Places, TypeOK, AllIrqs
<1>48. ASSUME PollUnmask PROVE Places'
  BY <1>48 DEF PollUnmask, ctl, dev, irq, rst, hist, Places, TypeOK, AllIrqs
<1>49. ASSUME RestartBegin PROVE Places'
  BY <1>49 DEF RestartBegin, ctl, dev, hw, irq, poll, hist, Places, TypeOK
<1>50. ASSUME RestartReset PROVE Places'
  BY <1>50 DEF RestartReset, SoftReset, hw, ctl, dev, irq, poll, Places, TypeOK
<1>51. ASSUME RestartEnable PROVE Places'
  BY <1>51 DEF RestartEnable, ctl, dev, irq, poll, hist, Places, TypeOK, AllIrqs
<1>52. ASSUME RestartCen PROVE Places'
  BY <1>52 DEF RestartCen, ctl, dev, irq, poll, Places, TypeOK
<1>53. ASSUME HwCause PROVE Places'
  BY <1>53 DEF HwCause, Clocked, ctl, dev, irq, poll, rst, hist, Places, TypeOK
<1>54. ASSUME IrqOverflow PROVE Places'
  BY <1>54
  DEF IrqOverflow, SoftReset, AfterErrors, ctl, dev, poll, rst, hist, Places, TypeOK
<1> QED
  BY <1>1, <1>2, <1>3, <1>4, <1>5, <1>6, <1>7, <1>8, <1>9, <1>10, <1>11, <1>12, <1>13,
     <1>14, <1>15, <1>16, <1>17, <1>18, <1>19, <1>20, <1>21, <1>22, <1>23, <1>24, <1>25,
     <1>26, <1>27, <1>28, <1>29, <1>30, <1>31, <1>32, <1>33, <1>34, <1>35, <1>36, <1>37,
     <1>38, <1>39, <1>40, <1>41, <1>42, <1>43, <1>44, <1>45, <1>46, <1>47, <1>48, <1>49,
     <1>50, <1>51, <1>52, <1>53, <1>54
  DEF Next, Begin, Run, Probe, Remove, Open, Close, Berr, Irq, Poll, Restart

\* nor a flag.
LEMMA FlagsKept ==
    ASSUME TypeOK, Next
    PROVE  Flags'
<1>1. ASSUME ProbeAlloc PROVE Flags'
  BY <1>1, Zenon DEF ProbeAlloc, DriverStep, irq, rst, hw, poll, Flags, TypeOK
<1>2. ASSUME RemoveReset PROVE Flags'
  BY <1>2, Zenon
  DEF RemoveReset, DriverStep, irq, rst, SoftReset, Clocked, hw, poll, Flags, TypeOK
<1>3. ASSUME OpenIrq PROVE Flags'
  BY <1>3, Zenon DEF OpenIrq, Step, irq, hw, poll, rst, Flags, TypeOK
<1>4. ASSUME CloseBegin PROVE Flags'
  BY <1>4, Zenon DEF CloseBegin, Step, irq, hw, poll, rst, Flags, TypeOK
<1>5. ASSUME BerrCan PROVE Flags'
  BY <1>5, Zenon DEF BerrCan, Step, irq, Enable, hw, poll, rst, Flags, TypeOK
<1>6. ASSUME ProbeCanClk PROVE Flags'
  BY <1>6, Zenon DEF ProbeCanClk, DriverStep, irq, rst, Enable, hw, poll, Flags, TypeOK
<1>7. ASSUME ProbeBusClk PROVE Flags'
  BY <1>7, Zenon DEF ProbeBusClk, DriverStep, irq, rst, Enable, hw, poll, Flags, TypeOK
<1>8. ASSUME ProbeDetect PROVE Flags'
  BY <1>8, Zenon DEF ProbeDetect, DriverStep, irq, rst, hw, poll, Flags, TypeOK
<1>9. ASSUME ProbeRegister PROVE Flags'
  BY <1>9, Zenon DEF ProbeRegister, DriverStep, irq, rst, hw, poll, Flags, TypeOK
<1>10. ASSUME ProbePutBus PROVE Flags'
  BY <1>10, Zenon DEF ProbePutBus, DriverStep, irq, rst, Disable, hw, poll, Flags, TypeOK
<1>11. ASSUME ProbePutCan PROVE Flags'
  BY <1>11, Zenon DEF ProbePutCan, DriverStep, irq, rst, Disable, hw, poll, Flags, TypeOK
<1>12. ASSUME ProbeUnBus PROVE Flags'
  BY <1>12, Zenon DEF ProbeUnBus, DriverStep, irq, rst, Disable, hw, poll, Flags, TypeOK
<1>13. ASSUME ProbeUnCan PROVE Flags'
  BY <1>13, Zenon DEF ProbeUnCan, DriverStep, irq, rst, Disable, hw, poll, Flags, TypeOK
<1>14. ASSUME ProbeFree PROVE Flags'
  BY <1>14, Zenon DEF ProbeFree, DriverStep, irq, rst, hw, poll, Flags, TypeOK
<1>15. ASSUME RemoveClose PROVE Flags'
  BY <1>15, Zenon DEF RemoveClose, hw, irq, poll, rst, hist, Flags, TypeOK
<1>16. ASSUME RemoveUnregister PROVE Flags'
  BY <1>16, Zenon DEF RemoveUnregister, DriverStep, irq, rst, hw, poll, Flags, TypeOK
<1>17. ASSUME OpenCanClk PROVE Flags'
  BY <1>17, Zenon DEF OpenCanClk, Step, irq, Enable, hw, poll, rst, Flags, TypeOK
<1>18. ASSUME OpenBusClk PROVE Flags'
  BY <1>18, Zenon DEF OpenBusClk, Step, irq, Enable, hw, poll, rst, Flags, TypeOK
<1>19. ASSUME OpenReset PROVE Flags'
  BY <1>19, Zenon DEF OpenReset, Step, irq, SoftReset, hw, poll, rst, Flags, TypeOK
<1>20. ASSUME OpenCandev PROVE Flags'
  BY <1>20, Zenon DEF OpenCandev, Step, irq, hw, poll, rst, Flags, TypeOK
<1>21. ASSUME OpenStart PROVE Flags'
  BY <1>21, Zenon DEF OpenStart, Step, irq, SoftReset, hw, poll, rst, Flags, TypeOK
<1>22. ASSUME OpenEnable PROVE Flags'
  BY <1>22, Zenon DEF OpenEnable, Step, irq, dev, poll, rst, Flags, TypeOK
<1>23. ASSUME OpenCen PROVE Flags'
  BY <1>23, Zenon DEF OpenCen, Step, irq, dev, poll, rst, Flags, TypeOK
<1>24. ASSUME OpenNapi PROVE Flags'
  BY <1>24, Zenon DEF OpenNapi, Step, irq, hw, rst, Flags, TypeOK
<1>25. ASSUME UnwindCandev PROVE Flags'
  BY <1>25, Zenon DEF UnwindCandev, Step, irq, hw, poll, Flags, TypeOK
<1>26. ASSUME UnwindBus PROVE Flags'
  BY <1>26, Zenon DEF UnwindBus, Step, irq, Disable, hw, poll, rst, Flags, TypeOK
<1>27. ASSUME UnwindCan PROVE Flags'
  BY <1>27, Zenon DEF UnwindCan, Step, irq, Disable, hw, poll, rst, Flags, TypeOK
<1>28. ASSUME UnwindIrq PROVE Flags'
  BY <1>28, Zenon DEF UnwindIrq, Step, irq, hw, poll, rst, Flags, TypeOK
<1>29. ASSUME CloseNapi PROVE Flags'
  BY <1>29, Zenon DEF CloseNapi, Step, irq, dev, hw, rst, Flags, TypeOK
<1>30. ASSUME CloseChip PROVE Flags'
  BY <1>30, Zenon DEF CloseChip, Step, irq, SoftReset, dev, poll, rst, Flags, TypeOK
<1>31. ASSUME CloseBus PROVE Flags'
  BY <1>31, Zenon DEF CloseBus, Step, irq, Disable, hw, poll, rst, Flags, TypeOK
<1>32. ASSUME CloseCan PROVE Flags'
  BY <1>32, Zenon DEF CloseCan, Step, irq, Disable, hw, poll, rst, Flags, TypeOK
<1>33. ASSUME CloseIrq PROVE Flags'
  BY <1>33, Zenon DEF CloseIrq, Step, irq, hw, poll, rst, Flags, TypeOK
<1>34. ASSUME CloseCandev PROVE Flags'
  BY <1>34, Zenon DEF CloseCandev, Step, irq, hw, poll, Flags, TypeOK
<1>35. ASSUME BerrBus PROVE Flags'
  BY <1>35, Zenon DEF BerrBus, Step, irq, Enable, hw, poll, rst, Flags, TypeOK
<1>36. ASSUME BerrReadPutBus PROVE Flags'
  BY <1>36, Zenon DEF BerrReadPutBus, Step, irq, Disable, hw, poll, rst, Flags, TypeOK
<1>37. ASSUME BerrPutCan PROVE Flags'
  BY <1>37, Zenon DEF BerrPutCan, Step, irq, Disable, hw, poll, rst, Flags, TypeOK
<1>38. ASSUME IrqEnter PROVE Flags'
  BY <1>38, Zenon DEF IrqEnter, ctl, dev, hw, poll, rst, hist, Flags, TypeOK
<1>39. ASSUME IrqIsr PROVE Flags'
  BY <1>39, Zenon DEF IrqIsr, AfterBusOff, AfterErrors, ctl, dev, poll, rst, hist, Flags, TypeOK
<1>40. ASSUME IrqBusOff PROVE Flags'
  BY <1>40, Zenon DEF IrqBusOff, SoftReset, AfterBusOff, AfterErrors, ctl, dev, poll, Flags,
     TypeOK
<1>41. ASSUME IrqReadIer PROVE Flags'
  BY <1>41, Zenon DEF IrqReadIer, ctl, dev, hw, poll, rst, hist, Flags, TypeOK
<1>42. ASSUME IrqMask PROVE Flags'
  BY <1>42, Zenon DEF IrqMask, ctl, dev, poll, rst, hist, Flags, TypeOK
<1>43. ASSUME IrqSchedule PROVE Flags'
  BY <1>43, Zenon DEF IrqSchedule, ctl, dev, hw, rst, hist, Flags, TypeOK
<1>44. ASSUME PollBegin PROVE Flags'
  BY <1>44, Zenon DEF PollBegin, ctl, dev, hw, irq, rst, hist, Flags, TypeOK
<1>45. ASSUME PollDrain PROVE Flags'
  BY <1>45, Zenon DEF PollDrain, ctl, dev, irq, rst, hist, Flags, TypeOK
<1>46. ASSUME PollQuota PROVE Flags'
  BY <1>46, Zenon DEF PollQuota, ctl, dev, hw, irq, rst, hist, Flags, TypeOK
<1>47. ASSUME PollReadIer PROVE Flags'
  BY <1>47, Zenon DEF PollReadIer, ctl, dev, hw, irq, rst, hist, Flags, TypeOK
<1>48. ASSUME PollUnmask PROVE Flags'
  BY <1>48, Zenon DEF PollUnmask, ctl, dev, irq, rst, hist, Flags, TypeOK
<1>49. ASSUME RestartBegin PROVE Flags'
  BY <1>49, Zenon DEF RestartBegin, ctl, dev, hw, irq, poll, hist, Flags, TypeOK
<1>50. ASSUME RestartReset PROVE Flags'
  BY <1>50, Zenon DEF RestartReset, SoftReset, hw, ctl, dev, irq, poll, Flags, TypeOK
<1>51. ASSUME RestartEnable PROVE Flags'
  BY <1>51, Zenon DEF RestartEnable, ctl, dev, irq, poll, hist, Flags, TypeOK
<1>52. ASSUME RestartCen PROVE Flags'
  BY <1>52, Zenon DEF RestartCen, ctl, dev, irq, poll, Flags, TypeOK
<1>53. ASSUME HwCause PROVE Flags'
  BY <1>53, Zenon DEF HwCause, Clocked, ctl, dev, irq, poll, rst, hist, Flags, TypeOK
<1>54. ASSUME IrqOverflow PROVE Flags'
  BY <1>54, Zenon
  DEF IrqOverflow, SoftReset, AfterErrors, ctl, dev, poll, rst, hist, Flags, TypeOK
<1> QED
  BY <1>1, <1>2, <1>3, <1>4, <1>5, <1>6, <1>7, <1>8, <1>9, <1>10, <1>11, <1>12, <1>13,
     <1>14, <1>15, <1>16, <1>17, <1>18, <1>19, <1>20, <1>21, <1>22, <1>23, <1>24, <1>25,
     <1>26, <1>27, <1>28, <1>29, <1>30, <1>31, <1>32, <1>33, <1>34, <1>35, <1>36, <1>37,
     <1>38, <1>39, <1>40, <1>41, <1>42, <1>43, <1>44, <1>45, <1>46, <1>47, <1>48, <1>49,
     <1>50, <1>51, <1>52, <1>53, <1>54
  DEF Next, Begin, Run, Probe, Remove, Open, Close, Berr, Irq, Poll, Restart

\* Every way out of a call gives back what the way in took.
LEMMA HeldKept ==
    ASSUME Held, Next
    PROVE  Held'
<1>1. ASSUME Irq \/ Poll \/ Restart \/ HwCause PROVE Held'
  BY <1>1, ContextFrame DEF Held, ctl, dev
<1>2. ASSUME ProbeAlloc PROVE Held'
  BY <1>2 DEF ProbeAlloc, DriverStep, irq, rst, hw, poll, Held, Opening, IrqOnly, Both
<1>3. ASSUME RemoveReset PROVE Held'
  BY <1>3
  DEF RemoveReset, DriverStep, irq, rst, SoftReset, Clocked, hw, poll, Held, Opening,
      IrqOnly, Both
<1>4. ASSUME OpenIrq PROVE Held'
  BY <1>4 DEF OpenIrq, Step, irq, hw, poll, rst, Held, Opening, IrqOnly, Both
<1>5. ASSUME CloseBegin PROVE Held'
  BY <1>5 DEF CloseBegin, Step, irq, hw, poll, rst, Held, Opening, IrqOnly, Both
<1>6. ASSUME BerrCan PROVE Held'
  BY <1>6 DEF BerrCan, Step, irq, Enable, hw, poll, rst, Held, Opening, IrqOnly, Both
<1>7. ASSUME ProbeCanClk PROVE Held'
  BY <1>7
  DEF ProbeCanClk, DriverStep, irq, rst, Enable, hw, poll, Held, Opening, IrqOnly, Both
<1>8. ASSUME ProbeBusClk PROVE Held'
  BY <1>8
  DEF ProbeBusClk, DriverStep, irq, rst, Enable, hw, poll, Held, Opening, IrqOnly, Both
<1>9. ASSUME ProbeDetect PROVE Held'
  BY <1>9 DEF ProbeDetect, DriverStep, irq, rst, hw, poll, Held, Opening, IrqOnly, Both
<1>10. ASSUME ProbeRegister PROVE Held'
  BY <1>10 DEF ProbeRegister, DriverStep, irq, rst, hw, poll, Held, Opening, IrqOnly, Both
<1>11. ASSUME ProbePutBus PROVE Held'
  BY <1>11
  DEF ProbePutBus, DriverStep, irq, rst, Disable, hw, poll, Held, Opening, IrqOnly, Both
<1>12. ASSUME ProbePutCan PROVE Held'
  BY <1>12
  DEF ProbePutCan, DriverStep, irq, rst, Disable, hw, poll, Held, Opening, IrqOnly, Both
<1>13. ASSUME ProbeUnBus PROVE Held'
  BY <1>13
  DEF ProbeUnBus, DriverStep, irq, rst, Disable, hw, poll, Held, Opening, IrqOnly, Both
<1>14. ASSUME ProbeUnCan PROVE Held'
  BY <1>14
  DEF ProbeUnCan, DriverStep, irq, rst, Disable, hw, poll, Held, Opening, IrqOnly, Both
<1>15. ASSUME ProbeFree PROVE Held'
  BY <1>15 DEF ProbeFree, DriverStep, irq, rst, hw, poll, Held, Opening, IrqOnly, Both
<1>16. ASSUME RemoveClose PROVE Held'
  BY <1>16 DEF RemoveClose, hw, irq, poll, rst, hist, Held, Opening, IrqOnly, Both
<1>17. ASSUME RemoveUnregister PROVE Held'
  BY <1>17
  DEF RemoveUnregister, DriverStep, irq, rst, hw, poll, Held, Opening, IrqOnly, Both
<1>18. ASSUME OpenCanClk PROVE Held'
  BY <1>18 DEF OpenCanClk, Step, irq, Enable, hw, poll, rst, Held, Opening, IrqOnly, Both
<1>19. ASSUME OpenBusClk PROVE Held'
  BY <1>19 DEF OpenBusClk, Step, irq, Enable, hw, poll, rst, Held, Opening, IrqOnly, Both
<1>20. ASSUME OpenReset PROVE Held'
  BY <1>20 DEF OpenReset, Step, irq, SoftReset, hw, poll, rst, Held, Opening, IrqOnly, Both
<1>21. ASSUME OpenCandev PROVE Held'
  BY <1>21 DEF OpenCandev, Step, irq, hw, poll, rst, Held, Opening, IrqOnly, Both
<1>22. ASSUME OpenStart PROVE Held'
  BY <1>22 DEF OpenStart, Step, irq, SoftReset, hw, poll, rst, Held, Opening, IrqOnly, Both
<1>23. ASSUME OpenEnable PROVE Held'
  BY <1>23 DEF OpenEnable, Step, irq, dev, poll, rst, Held, Opening, IrqOnly, Both
<1>24. ASSUME OpenCen PROVE Held'
  BY <1>24 DEF OpenCen, Step, irq, dev, poll, rst, Held, Opening, IrqOnly, Both
<1>25. ASSUME OpenNapi PROVE Held'
  BY <1>25 DEF OpenNapi, Step, irq, hw, rst, Held, Opening, IrqOnly, Both
<1>26. ASSUME UnwindCandev PROVE Held'
  BY <1>26 DEF UnwindCandev, Step, irq, hw, poll, Held, Opening, IrqOnly, Both
<1>27. ASSUME UnwindBus PROVE Held'
  BY <1>27 DEF UnwindBus, Step, irq, Disable, hw, poll, rst, Held, Opening, IrqOnly, Both
<1>28. ASSUME UnwindCan PROVE Held'
  BY <1>28 DEF UnwindCan, Step, irq, Disable, hw, poll, rst, Held, Opening, IrqOnly, Both
<1>29. ASSUME UnwindIrq PROVE Held'
  BY <1>29 DEF UnwindIrq, Step, irq, hw, poll, rst, Held, Opening, IrqOnly, Both
<1>30. ASSUME CloseNapi PROVE Held'
  BY <1>30 DEF CloseNapi, Step, irq, dev, hw, rst, Held, Opening, IrqOnly, Both
<1>31. ASSUME CloseChip PROVE Held'
  BY <1>31 DEF CloseChip, Step, irq, SoftReset, dev, poll, rst, Held, Opening, IrqOnly, Both
<1>32. ASSUME CloseBus PROVE Held'
  BY <1>32 DEF CloseBus, Step, irq, Disable, hw, poll, rst, Held, Opening, IrqOnly, Both
<1>33. ASSUME CloseCan PROVE Held'
  BY <1>33 DEF CloseCan, Step, irq, Disable, hw, poll, rst, Held, Opening, IrqOnly, Both
<1>34. ASSUME CloseIrq PROVE Held'
  BY <1>34 DEF CloseIrq, Step, irq, hw, poll, rst, Held, Opening, IrqOnly, Both
<1>35. ASSUME CloseCandev PROVE Held'
  BY <1>35 DEF CloseCandev, Step, irq, hw, poll, Held, Opening, IrqOnly, Both
<1>36. ASSUME BerrBus PROVE Held'
  BY <1>36 DEF BerrBus, Step, irq, Enable, hw, poll, rst, Held, Opening, IrqOnly, Both
<1>37. ASSUME BerrReadPutBus PROVE Held'
  BY <1>37
  DEF BerrReadPutBus, Step, irq, Disable, hw, poll, rst, Held, Opening, IrqOnly, Both
<1>38. ASSUME BerrPutCan PROVE Held'
  BY <1>38 DEF BerrPutCan, Step, irq, Disable, hw, poll, rst, Held, Opening, IrqOnly, Both
<1> QED
  BY <1>1, <1>2, <1>3, <1>4, <1>5, <1>6, <1>7, <1>8, <1>9, <1>10, <1>11, <1>12, <1>13,
     <1>14, <1>15, <1>16, <1>17, <1>18, <1>19, <1>20, <1>21, <1>22, <1>23, <1>24, <1>25,
     <1>26, <1>27, <1>28, <1>29, <1>30, <1>31, <1>32, <1>33, <1>34, <1>35, <1>36, <1>37,
     <1>38
  DEF Next, Begin, Run, Probe, Remove, Open, Close, Berr

\* No call gives back what a context that is left running needs, the orphan timer aside.
LEMMA ContextsKept ==
    ASSUME Held, Contexts, Next
    PROVE  Contexts'
<1>1. ASSUME ProbeAlloc PROVE Contexts'
  BY <1>1
  DEF ProbeAlloc, DriverStep, irq, rst, hw, poll, Contexts, Held, Opening, IrqOnly, Both
<1>2. ASSUME RemoveReset PROVE Contexts'
  BY <1>2
  DEF RemoveReset, DriverStep, irq, rst, SoftReset, Clocked, hw, poll, Contexts, Held,
      Opening, IrqOnly, Both
<1>3. ASSUME OpenIrq PROVE Contexts'
  BY <1>3 DEF OpenIrq, Step, irq, hw, poll, rst, Contexts, Held, Opening, IrqOnly, Both
<1>4. ASSUME CloseBegin PROVE Contexts'
  BY <1>4 DEF CloseBegin, Step, irq, hw, poll, rst, Contexts, Held, Opening, IrqOnly, Both
<1>5. ASSUME BerrCan PROVE Contexts'
  BY <1>5
  DEF BerrCan, Step, irq, Enable, hw, poll, rst, Contexts, Held, Opening, IrqOnly, Both
<1>6. ASSUME ProbeCanClk PROVE Contexts'
  BY <1>6
  DEF ProbeCanClk, DriverStep, irq, rst, Enable, hw, poll, Contexts, Held, Opening,
      IrqOnly, Both
<1>7. ASSUME ProbeBusClk PROVE Contexts'
  BY <1>7
  DEF ProbeBusClk, DriverStep, irq, rst, Enable, hw, poll, Contexts, Held, Opening,
      IrqOnly, Both
<1>8. ASSUME ProbeDetect PROVE Contexts'
  BY <1>8
  DEF ProbeDetect, DriverStep, irq, rst, hw, poll, Contexts, Held, Opening, IrqOnly, Both
<1>9. ASSUME ProbeRegister PROVE Contexts'
  BY <1>9
  DEF ProbeRegister, DriverStep, irq, rst, hw, poll, Contexts, Held, Opening, IrqOnly,
      Both
<1>10. ASSUME ProbePutBus PROVE Contexts'
  BY <1>10
  DEF ProbePutBus, DriverStep, irq, rst, Disable, hw, poll, Contexts, Held, Opening,
      IrqOnly, Both
<1>11. ASSUME ProbePutCan PROVE Contexts'
  BY <1>11
  DEF ProbePutCan, DriverStep, irq, rst, Disable, hw, poll, Contexts, Held, Opening,
      IrqOnly, Both
<1>12. ASSUME ProbeUnBus PROVE Contexts'
  BY <1>12
  DEF ProbeUnBus, DriverStep, irq, rst, Disable, hw, poll, Contexts, Held, Opening,
      IrqOnly, Both
<1>13. ASSUME ProbeUnCan PROVE Contexts'
  BY <1>13
  DEF ProbeUnCan, DriverStep, irq, rst, Disable, hw, poll, Contexts, Held, Opening,
      IrqOnly, Both
<1>14. ASSUME ProbeFree PROVE Contexts'
  BY <1>14
  DEF ProbeFree, DriverStep, irq, rst, hw, poll, Contexts, Held, Opening, IrqOnly, Both
<1>15. ASSUME RemoveClose PROVE Contexts'
  BY <1>15 DEF RemoveClose, hw, irq, poll, rst, hist, Contexts, Held, Opening, IrqOnly, Both
<1>16. ASSUME RemoveUnregister PROVE Contexts'
  BY <1>16
  DEF RemoveUnregister, DriverStep, irq, rst, hw, poll, Contexts, Held, Opening, IrqOnly,
      Both
<1>17. ASSUME OpenCanClk PROVE Contexts'
  BY <1>17
  DEF OpenCanClk, Step, irq, Enable, hw, poll, rst, Contexts, Held, Opening, IrqOnly, Both
<1>18. ASSUME OpenBusClk PROVE Contexts'
  BY <1>18
  DEF OpenBusClk, Step, irq, Enable, hw, poll, rst, Contexts, Held, Opening, IrqOnly, Both
<1>19. ASSUME OpenReset PROVE Contexts'
  BY <1>19
  DEF OpenReset, Step, irq, SoftReset, hw, poll, rst, Contexts, Held, Opening, IrqOnly,
      Both
<1>20. ASSUME OpenCandev PROVE Contexts'
  BY <1>20 DEF OpenCandev, Step, irq, hw, poll, rst, Contexts, Held, Opening, IrqOnly, Both
<1>21. ASSUME OpenStart PROVE Contexts'
  BY <1>21
  DEF OpenStart, Step, irq, SoftReset, hw, poll, rst, Contexts, Held, Opening, IrqOnly,
      Both
<1>22. ASSUME OpenEnable PROVE Contexts'
  BY <1>22 DEF OpenEnable, Step, irq, dev, poll, rst, Contexts, Held, Opening, IrqOnly, Both
<1>23. ASSUME OpenCen PROVE Contexts'
  BY <1>23 DEF OpenCen, Step, irq, dev, poll, rst, Contexts, Held, Opening, IrqOnly, Both
<1>24. ASSUME OpenNapi PROVE Contexts'
  BY <1>24 DEF OpenNapi, Step, irq, hw, rst, Contexts, Held, Opening, IrqOnly, Both
<1>25. ASSUME UnwindCandev PROVE Contexts'
  BY <1>25 DEF UnwindCandev, Step, irq, hw, poll, Contexts, Held, Opening, IrqOnly, Both
<1>26. ASSUME UnwindBus PROVE Contexts'
  BY <1>26
  DEF UnwindBus, Step, irq, Disable, hw, poll, rst, Contexts, Held, Opening, IrqOnly, Both
<1>27. ASSUME UnwindCan PROVE Contexts'
  BY <1>27
  DEF UnwindCan, Step, irq, Disable, hw, poll, rst, Contexts, Held, Opening, IrqOnly, Both
<1>28. ASSUME UnwindIrq PROVE Contexts'
  BY <1>28 DEF UnwindIrq, Step, irq, hw, poll, rst, Contexts, Held, Opening, IrqOnly, Both
<1>29. ASSUME CloseNapi PROVE Contexts'
  BY <1>29 DEF CloseNapi, Step, irq, dev, hw, rst, Contexts, Held, Opening, IrqOnly, Both
<1>30. ASSUME CloseChip PROVE Contexts'
  BY <1>30
  DEF CloseChip, Step, irq, SoftReset, dev, poll, rst, Contexts, Held, Opening, IrqOnly,
      Both
<1>31. ASSUME CloseBus PROVE Contexts'
  BY <1>31
  DEF CloseBus, Step, irq, Disable, hw, poll, rst, Contexts, Held, Opening, IrqOnly, Both
<1>32. ASSUME CloseCan PROVE Contexts'
  BY <1>32
  DEF CloseCan, Step, irq, Disable, hw, poll, rst, Contexts, Held, Opening, IrqOnly, Both
<1>33. ASSUME CloseIrq PROVE Contexts'
  BY <1>33 DEF CloseIrq, Step, irq, hw, poll, rst, Contexts, Held, Opening, IrqOnly, Both
<1>34. ASSUME CloseCandev PROVE Contexts'
  BY <1>34 DEF CloseCandev, Step, irq, hw, poll, Contexts, Held, Opening, IrqOnly, Both
<1>35. ASSUME BerrBus PROVE Contexts'
  BY <1>35
  DEF BerrBus, Step, irq, Enable, hw, poll, rst, Contexts, Held, Opening, IrqOnly, Both
<1>36. ASSUME BerrReadPutBus PROVE Contexts'
  BY <1>36
  DEF BerrReadPutBus, Step, irq, Disable, hw, poll, rst, Contexts, Held, Opening, IrqOnly,
      Both
<1>37. ASSUME BerrPutCan PROVE Contexts'
  BY <1>37
  DEF BerrPutCan, Step, irq, Disable, hw, poll, rst, Contexts, Held, Opening, IrqOnly,
      Both
<1>38. ASSUME IrqEnter PROVE Contexts'
  BY <1>38
  DEF IrqEnter, ctl, dev, hw, poll, rst, hist, Contexts, Held, Opening, IrqOnly, Both
<1>39. ASSUME IrqIsr PROVE Contexts'
  BY <1>39
  DEF IrqIsr, AfterBusOff, AfterErrors, ctl, dev, poll, rst, hist, Contexts, Held, Opening,
  IrqOnly,
      Both
<1>40. ASSUME IrqBusOff PROVE Contexts'
  BY <1>40
  DEF IrqBusOff, SoftReset, AfterBusOff, AfterErrors, ctl, dev, poll, Contexts, Held, Opening,
  IrqOnly,
      Both
<1>41. ASSUME IrqReadIer PROVE Contexts'
  BY <1>41
  DEF IrqReadIer, ctl, dev, hw, poll, rst, hist, Contexts, Held, Opening, IrqOnly, Both
<1>42. ASSUME IrqMask PROVE Contexts'
  BY <1>42 DEF IrqMask, ctl, dev, poll, rst, hist, Contexts, Held, Opening, IrqOnly, Both
<1>43. ASSUME IrqSchedule PROVE Contexts'
  BY <1>43 DEF IrqSchedule, ctl, dev, hw, rst, hist, Contexts, Held, Opening, IrqOnly, Both
<1>44. ASSUME PollBegin PROVE Contexts'
  BY <1>44
  DEF PollBegin, ctl, dev, hw, irq, rst, hist, Contexts, Held, Opening, IrqOnly, Both
<1>45. ASSUME PollDrain PROVE Contexts'
  BY <1>45 DEF PollDrain, ctl, dev, irq, rst, hist, Contexts, Held, Opening, IrqOnly, Both
<1>46. ASSUME PollQuota PROVE Contexts'
  BY <1>46
  DEF PollQuota, ctl, dev, hw, irq, rst, hist, Contexts, Held, Opening, IrqOnly, Both
<1>47. ASSUME PollReadIer PROVE Contexts'
  BY <1>47
  DEF PollReadIer, ctl, dev, hw, irq, rst, hist, Contexts, Held, Opening, IrqOnly, Both
<1>48. ASSUME PollUnmask PROVE Contexts'
  BY <1>48 DEF PollUnmask, ctl, dev, irq, rst, hist, Contexts, Held, Opening, IrqOnly, Both
<1>49. ASSUME RestartBegin PROVE Contexts'
  BY <1>49
  DEF RestartBegin, ctl, dev, hw, irq, poll, hist, Contexts, Held, Opening, IrqOnly, Both
<1>50. ASSUME RestartReset PROVE Contexts'
  BY <1>50
  DEF RestartReset, SoftReset, hw, ctl, dev, irq, poll, Contexts, Held, Opening, IrqOnly,
      Both
<1>51. ASSUME RestartEnable PROVE Contexts'
  BY <1>51
  DEF RestartEnable, ctl, dev, irq, poll, hist, Contexts, Held, Opening, IrqOnly, Both
<1>52. ASSUME RestartCen PROVE Contexts'
  BY <1>52 DEF RestartCen, ctl, dev, irq, poll, Contexts, Held, Opening, IrqOnly, Both
<1>53. ASSUME HwCause PROVE Contexts'
  BY <1>53
  DEF HwCause, Clocked, ctl, dev, irq, poll, rst, hist, Contexts, Held, Opening, IrqOnly,
      Both
<1>54. ASSUME IrqOverflow PROVE Contexts'
  BY <1>54
  DEF IrqOverflow, SoftReset, AfterErrors, ctl, dev, poll, rst, hist, Contexts, Held, Opening,
      IrqOnly, Both
<1> QED
  BY <1>1, <1>2, <1>3, <1>4, <1>5, <1>6, <1>7, <1>8, <1>9, <1>10, <1>11, <1>12, <1>13,
     <1>14, <1>15, <1>16, <1>17, <1>18, <1>19, <1>20, <1>21, <1>22, <1>23, <1>24, <1>25,
     <1>26, <1>27, <1>28, <1>29, <1>30, <1>31, <1>32, <1>33, <1>34, <1>35, <1>36, <1>37,
     <1>38, <1>39, <1>40, <1>41, <1>42, <1>43, <1>44, <1>45, <1>46, <1>47, <1>48, <1>49,
     <1>50, <1>51, <1>52, <1>53, <1>54
  DEF Next, Begin, Run, Probe, Remove, Open, Close, Berr, Irq, Poll, Restart

\* The core is left on by nobody else.
LEMMA CoreKept ==
    ASSUME Held, CoreOwned, Next
    PROVE  CoreOwned'
<1>1. ASSUME Probe \/ ProbeAlloc PROVE CoreOwned'
  BY <1>1, ProbeFrame DEF CoreOwned, hw, hist
<1>2. ASSUME RemoveReset PROVE CoreOwned'
  BY <1>2
  DEF RemoveReset, DriverStep, irq, rst, SoftReset, Clocked, hw, poll, CoreOwned, Held,
      Opening, IrqOnly, Both
<1>3. ASSUME OpenIrq PROVE CoreOwned'
  BY <1>3 DEF OpenIrq, Step, irq, hw, poll, rst, CoreOwned, Held, Opening, IrqOnly, Both
<1>4. ASSUME CloseBegin PROVE CoreOwned'
  BY <1>4 DEF CloseBegin, Step, irq, hw, poll, rst, CoreOwned, Held, Opening, IrqOnly, Both
<1>5. ASSUME BerrCan PROVE CoreOwned'
  BY <1>5
  DEF BerrCan, Step, irq, Enable, hw, poll, rst, CoreOwned, Held, Opening, IrqOnly, Both
<1>6. ASSUME RemoveClose PROVE CoreOwned'
  BY <1>6 DEF RemoveClose, hw, irq, poll, rst, hist, CoreOwned, Held, Opening, IrqOnly, Both
<1>7. ASSUME RemoveUnregister PROVE CoreOwned'
  BY <1>7
  DEF RemoveUnregister, DriverStep, irq, rst, hw, poll, CoreOwned, Held, Opening, IrqOnly,
      Both
<1>8. ASSUME OpenCanClk PROVE CoreOwned'
  BY <1>8
  DEF OpenCanClk, Step, irq, Enable, hw, poll, rst, CoreOwned, Held, Opening, IrqOnly,
      Both
<1>9. ASSUME OpenBusClk PROVE CoreOwned'
  BY <1>9
  DEF OpenBusClk, Step, irq, Enable, hw, poll, rst, CoreOwned, Held, Opening, IrqOnly,
      Both
<1>10. ASSUME OpenReset PROVE CoreOwned'
  BY <1>10
  DEF OpenReset, Step, irq, SoftReset, hw, poll, rst, CoreOwned, Held, Opening, IrqOnly,
      Both
<1>11. ASSUME OpenCandev PROVE CoreOwned'
  BY <1>11 DEF OpenCandev, Step, irq, hw, poll, rst, CoreOwned, Held, Opening, IrqOnly, Both
<1>12. ASSUME OpenStart PROVE CoreOwned'
  BY <1>12
  DEF OpenStart, Step, irq, SoftReset, hw, poll, rst, CoreOwned, Held, Opening, IrqOnly,
      Both
<1>13. ASSUME OpenEnable PROVE CoreOwned'
  BY <1>13
  DEF OpenEnable, Step, irq, dev, poll, rst, CoreOwned, Held, Opening, IrqOnly, Both
<1>14. ASSUME OpenCen PROVE CoreOwned'
  BY <1>14 DEF OpenCen, Step, irq, dev, poll, rst, CoreOwned, Held, Opening, IrqOnly, Both
<1>15. ASSUME OpenNapi PROVE CoreOwned'
  BY <1>15 DEF OpenNapi, Step, irq, hw, rst, CoreOwned, Held, Opening, IrqOnly, Both
<1>16. ASSUME UnwindCandev PROVE CoreOwned'
  BY <1>16 DEF UnwindCandev, Step, irq, hw, poll, CoreOwned, Held, Opening, IrqOnly, Both
<1>17. ASSUME UnwindBus PROVE CoreOwned'
  BY <1>17
  DEF UnwindBus, Step, irq, Disable, hw, poll, rst, CoreOwned, Held, Opening, IrqOnly,
      Both
<1>18. ASSUME UnwindCan PROVE CoreOwned'
  BY <1>18
  DEF UnwindCan, Step, irq, Disable, hw, poll, rst, CoreOwned, Held, Opening, IrqOnly,
      Both
<1>19. ASSUME UnwindIrq PROVE CoreOwned'
  BY <1>19 DEF UnwindIrq, Step, irq, hw, poll, rst, CoreOwned, Held, Opening, IrqOnly, Both
<1>20. ASSUME CloseNapi PROVE CoreOwned'
  BY <1>20 DEF CloseNapi, Step, irq, dev, hw, rst, CoreOwned, Held, Opening, IrqOnly, Both
<1>21. ASSUME CloseChip PROVE CoreOwned'
  BY <1>21
  DEF CloseChip, Step, irq, SoftReset, dev, poll, rst, CoreOwned, Held, Opening, IrqOnly,
      Both
<1>22. ASSUME CloseBus PROVE CoreOwned'
  BY <1>22
  DEF CloseBus, Step, irq, Disable, hw, poll, rst, CoreOwned, Held, Opening, IrqOnly, Both
<1>23. ASSUME CloseCan PROVE CoreOwned'
  BY <1>23
  DEF CloseCan, Step, irq, Disable, hw, poll, rst, CoreOwned, Held, Opening, IrqOnly, Both
<1>24. ASSUME CloseIrq PROVE CoreOwned'
  BY <1>24 DEF CloseIrq, Step, irq, hw, poll, rst, CoreOwned, Held, Opening, IrqOnly, Both
<1>25. ASSUME CloseCandev PROVE CoreOwned'
  BY <1>25 DEF CloseCandev, Step, irq, hw, poll, CoreOwned, Held, Opening, IrqOnly, Both
<1>26. ASSUME BerrBus PROVE CoreOwned'
  BY <1>26
  DEF BerrBus, Step, irq, Enable, hw, poll, rst, CoreOwned, Held, Opening, IrqOnly, Both
<1>27. ASSUME BerrReadPutBus PROVE CoreOwned'
  BY <1>27
  DEF BerrReadPutBus, Step, irq, Disable, hw, poll, rst, CoreOwned, Held, Opening,
      IrqOnly, Both
<1>28. ASSUME BerrPutCan PROVE CoreOwned'
  BY <1>28
  DEF BerrPutCan, Step, irq, Disable, hw, poll, rst, CoreOwned, Held, Opening, IrqOnly,
      Both
<1>29. ASSUME IrqEnter PROVE CoreOwned'
  BY <1>29
  DEF IrqEnter, ctl, dev, hw, poll, rst, hist, CoreOwned, Held, Opening, IrqOnly, Both
<1>30. ASSUME IrqIsr PROVE CoreOwned'
  BY <1>30
  DEF IrqIsr, AfterBusOff, AfterErrors, ctl, dev, poll, rst, hist, CoreOwned, Held, Opening,
  IrqOnly,
      Both
<1>31. ASSUME IrqBusOff PROVE CoreOwned'
  BY <1>31
  DEF IrqBusOff, SoftReset, AfterBusOff, AfterErrors, ctl, dev, poll, CoreOwned, Held, Opening,
      IrqOnly, Both
<1>32. ASSUME IrqReadIer PROVE CoreOwned'
  BY <1>32
  DEF IrqReadIer, ctl, dev, hw, poll, rst, hist, CoreOwned, Held, Opening, IrqOnly, Both
<1>33. ASSUME IrqMask PROVE CoreOwned'
  BY <1>33 DEF IrqMask, ctl, dev, poll, rst, hist, CoreOwned, Held, Opening, IrqOnly, Both
<1>34. ASSUME IrqSchedule PROVE CoreOwned'
  BY <1>34 DEF IrqSchedule, ctl, dev, hw, rst, hist, CoreOwned, Held, Opening, IrqOnly, Both
<1>35. ASSUME PollBegin PROVE CoreOwned'
  BY <1>35
  DEF PollBegin, ctl, dev, hw, irq, rst, hist, CoreOwned, Held, Opening, IrqOnly, Both
<1>36. ASSUME PollDrain PROVE CoreOwned'
  BY <1>36 DEF PollDrain, ctl, dev, irq, rst, hist, CoreOwned, Held, Opening, IrqOnly, Both
<1>37. ASSUME PollQuota PROVE CoreOwned'
  BY <1>37
  DEF PollQuota, ctl, dev, hw, irq, rst, hist, CoreOwned, Held, Opening, IrqOnly, Both
<1>38. ASSUME PollReadIer PROVE CoreOwned'
  BY <1>38
  DEF PollReadIer, ctl, dev, hw, irq, rst, hist, CoreOwned, Held, Opening, IrqOnly, Both
<1>39. ASSUME PollUnmask PROVE CoreOwned'
  BY <1>39 DEF PollUnmask, ctl, dev, irq, rst, hist, CoreOwned, Held, Opening, IrqOnly, Both
<1>40. ASSUME RestartBegin PROVE CoreOwned'
  BY <1>40
  DEF RestartBegin, ctl, dev, hw, irq, poll, hist, CoreOwned, Held, Opening, IrqOnly, Both
<1>41. ASSUME RestartReset PROVE CoreOwned'
  BY <1>41
  DEF RestartReset, SoftReset, hw, ctl, dev, irq, poll, CoreOwned, Held, Opening, IrqOnly,
      Both
<1>42. ASSUME RestartEnable PROVE CoreOwned'
  BY <1>42
  DEF RestartEnable, ctl, dev, irq, poll, hist, CoreOwned, Held, Opening, IrqOnly, Both
<1>43. ASSUME RestartCen PROVE CoreOwned'
  BY <1>43 DEF RestartCen, ctl, dev, irq, poll, CoreOwned, Held, Opening, IrqOnly, Both
<1>44. ASSUME HwCause PROVE CoreOwned'
  BY <1>44
  DEF HwCause, Clocked, ctl, dev, irq, poll, rst, hist, CoreOwned, Held, Opening, IrqOnly,
      Both
<1>45. ASSUME IrqOverflow PROVE CoreOwned'
  BY <1>45
  DEF IrqOverflow, SoftReset, AfterErrors, ctl, dev, poll, rst, hist, CoreOwned
<1> QED
  BY <1>1, <1>2, <1>3, <1>4, <1>5, <1>6, <1>7, <1>8, <1>9, <1>10, <1>11, <1>12, <1>13,
     <1>14, <1>15, <1>16, <1>17, <1>18, <1>19, <1>20, <1>21, <1>22, <1>23, <1>24, <1>25,
     <1>26, <1>27, <1>28, <1>29, <1>30, <1>31, <1>32, <1>33, <1>34, <1>35, <1>36, <1>37,
     <1>38, <1>39, <1>40, <1>41, <1>42, <1>43, <1>44, <1>45
  DEF Next, Begin, Run, Remove, Open, Close, Berr, Irq, Poll, Restart

\* The clocks go with the places.
LEMMA CountsKept ==
    ASSUME TypeOK, Held, Counts, Next
    PROVE  Counts'
<1>1. ASSUME Irq \/ Poll \/ Restart \/ HwCause PROVE Counts'
  BY <1>1, ContextFrame DEF Counts, ctl, dev
<1>2. ASSUME ProbeAlloc PROVE Counts'
  BY <1>2
  DEF ProbeAlloc, DriverStep, irq, rst, hw, poll, Counts, Share, CanPcs, BusPcs, CanDpcs,
      BusDpcs, Held, Opening, IrqOnly, Both
<1>3. ASSUME RemoveReset PROVE Counts'
  BY <1>3
  DEF RemoveReset, DriverStep, irq, rst, SoftReset, Clocked, hw, poll, Counts, Share,
      CanPcs, BusPcs, CanDpcs, BusDpcs, Held, Opening, IrqOnly, Both
<1>4. ASSUME OpenIrq PROVE Counts'
  BY <1>4
  DEF OpenIrq, Step, irq, hw, poll, rst, Counts, Share, CanPcs, BusPcs, CanDpcs, BusDpcs,
      Held, Opening, IrqOnly, Both
<1>5. ASSUME CloseBegin PROVE Counts'
  BY <1>5
  DEF CloseBegin, Step, irq, hw, poll, rst, Counts, Share, CanPcs, BusPcs, CanDpcs,
      BusDpcs, Held, Opening, IrqOnly, Both
<1>6. ASSUME BerrCan PROVE Counts'
  BY <1>6
  DEF BerrCan, Step, irq, Enable, hw, poll, rst, Counts, Share, CanPcs, BusPcs, CanDpcs,
      BusDpcs, Held, Opening, IrqOnly, Both, Clocks, TypeOK
<1>7. ASSUME ProbeCanClk PROVE Counts'
  BY <1>7
  DEF ProbeCanClk, DriverStep, irq, rst, Enable, hw, poll, Counts, Share, CanPcs, BusPcs,
      CanDpcs, BusDpcs, Held, Opening, IrqOnly, Both, Clocks, TypeOK
<1>8. ASSUME ProbeBusClk PROVE Counts'
  BY <1>8
  DEF ProbeBusClk, DriverStep, irq, rst, Enable, hw, poll, Counts, Share, CanPcs, BusPcs,
      CanDpcs, BusDpcs, Held, Opening, IrqOnly, Both, Clocks, TypeOK
<1>9. ASSUME ProbeDetect PROVE Counts'
  BY <1>9
  DEF ProbeDetect, DriverStep, irq, rst, hw, poll, Counts, Share, CanPcs, BusPcs, CanDpcs,
      BusDpcs, Held, Opening, IrqOnly, Both
<1>10. ASSUME ProbeRegister PROVE Counts'
  BY <1>10
  DEF ProbeRegister, DriverStep, irq, rst, hw, poll, Counts, Share, CanPcs, BusPcs,
      CanDpcs, BusDpcs, Held, Opening, IrqOnly, Both
<1>11. ASSUME ProbePutBus PROVE Counts'
  BY <1>11
  DEF ProbePutBus, DriverStep, irq, rst, Disable, hw, poll, Counts, Share, CanPcs, BusPcs,
      CanDpcs, BusDpcs, Held, Opening, IrqOnly, Both, Clocks, TypeOK
<1>12. ASSUME ProbePutCan PROVE Counts'
  BY <1>12
  DEF ProbePutCan, DriverStep, irq, rst, Disable, hw, poll, Counts, Share, CanPcs, BusPcs,
      CanDpcs, BusDpcs, Held, Opening, IrqOnly, Both, Clocks, TypeOK
<1>13. ASSUME ProbeUnBus PROVE Counts'
  BY <1>13
  DEF ProbeUnBus, DriverStep, irq, rst, Disable, hw, poll, Counts, Share, CanPcs, BusPcs,
      CanDpcs, BusDpcs, Held, Opening, IrqOnly, Both, Clocks, TypeOK
<1>14. ASSUME ProbeUnCan PROVE Counts'
  BY <1>14
  DEF ProbeUnCan, DriverStep, irq, rst, Disable, hw, poll, Counts, Share, CanPcs, BusPcs,
      CanDpcs, BusDpcs, Held, Opening, IrqOnly, Both, Clocks, TypeOK
<1>15. ASSUME ProbeFree PROVE Counts'
  BY <1>15
  DEF ProbeFree, DriverStep, irq, rst, hw, poll, Counts, Share, CanPcs, BusPcs, CanDpcs,
      BusDpcs, Held, Opening, IrqOnly, Both
<1>16. ASSUME RemoveClose PROVE Counts'
  BY <1>16
  DEF RemoveClose, hw, irq, poll, rst, hist, Counts, Share, CanPcs, BusPcs, CanDpcs,
      BusDpcs, Held, Opening, IrqOnly, Both
<1>17. ASSUME RemoveUnregister PROVE Counts'
  BY <1>17
  DEF RemoveUnregister, DriverStep, irq, rst, hw, poll, Counts, Share, CanPcs, BusPcs,
      CanDpcs, BusDpcs, Held, Opening, IrqOnly, Both
<1>18. ASSUME OpenCanClk PROVE Counts'
  BY <1>18
  DEF OpenCanClk, Step, irq, Enable, hw, poll, rst, Counts, Share, CanPcs, BusPcs,
      CanDpcs, BusDpcs, Held, Opening, IrqOnly, Both, Clocks, TypeOK
<1>19. ASSUME OpenBusClk PROVE Counts'
  BY <1>19
  DEF OpenBusClk, Step, irq, Enable, hw, poll, rst, Counts, Share, CanPcs, BusPcs,
      CanDpcs, BusDpcs, Held, Opening, IrqOnly, Both, Clocks, TypeOK
<1>20. ASSUME OpenReset PROVE Counts'
  BY <1>20
  DEF OpenReset, Step, irq, SoftReset, hw, poll, rst, Counts, Share, CanPcs, BusPcs,
      CanDpcs, BusDpcs, Held, Opening, IrqOnly, Both
<1>21. ASSUME OpenCandev PROVE Counts'
  BY <1>21
  DEF OpenCandev, Step, irq, hw, poll, rst, Counts, Share, CanPcs, BusPcs, CanDpcs,
      BusDpcs, Held, Opening, IrqOnly, Both
<1>22. ASSUME OpenStart PROVE Counts'
  BY <1>22
  DEF OpenStart, Step, irq, SoftReset, hw, poll, rst, Counts, Share, CanPcs, BusPcs,
      CanDpcs, BusDpcs, Held, Opening, IrqOnly, Both
<1>23. ASSUME OpenEnable PROVE Counts'
  BY <1>23
  DEF OpenEnable, Step, irq, dev, poll, rst, Counts, Share, CanPcs, BusPcs, CanDpcs,
      BusDpcs, Held, Opening, IrqOnly, Both
<1>24. ASSUME OpenCen PROVE Counts'
  BY <1>24
  DEF OpenCen, Step, irq, dev, poll, rst, Counts, Share, CanPcs, BusPcs, CanDpcs, BusDpcs,
      Held, Opening, IrqOnly, Both
<1>25. ASSUME OpenNapi PROVE Counts'
  BY <1>25
  DEF OpenNapi, Step, irq, hw, rst, Counts, Share, CanPcs, BusPcs, CanDpcs, BusDpcs, Held,
      Opening, IrqOnly, Both
<1>26. ASSUME UnwindCandev PROVE Counts'
  BY <1>26
  DEF UnwindCandev, Step, irq, hw, poll, Counts, Share, CanPcs, BusPcs, CanDpcs, BusDpcs,
      Held, Opening, IrqOnly, Both
<1>27. ASSUME UnwindBus PROVE Counts'
  BY <1>27
  DEF UnwindBus, Step, irq, Disable, hw, poll, rst, Counts, Share, CanPcs, BusPcs,
      CanDpcs, BusDpcs, Held, Opening, IrqOnly, Both, Clocks, TypeOK
<1>28. ASSUME UnwindCan PROVE Counts'
  BY <1>28
  DEF UnwindCan, Step, irq, Disable, hw, poll, rst, Counts, Share, CanPcs, BusPcs,
      CanDpcs, BusDpcs, Held, Opening, IrqOnly, Both, Clocks, TypeOK
<1>29. ASSUME UnwindIrq PROVE Counts'
  BY <1>29
  DEF UnwindIrq, Step, irq, hw, poll, rst, Counts, Share, CanPcs, BusPcs, CanDpcs,
      BusDpcs, Held, Opening, IrqOnly, Both
<1>30. ASSUME CloseNapi PROVE Counts'
  BY <1>30
  DEF CloseNapi, Step, irq, dev, hw, rst, Counts, Share, CanPcs, BusPcs, CanDpcs, BusDpcs,
      Held, Opening, IrqOnly, Both
<1>31. ASSUME CloseChip PROVE Counts'
  BY <1>31
  DEF CloseChip, Step, irq, SoftReset, dev, poll, rst, Counts, Share, CanPcs, BusPcs,
      CanDpcs, BusDpcs, Held, Opening, IrqOnly, Both
<1>32. ASSUME CloseBus PROVE Counts'
  BY <1>32
  DEF CloseBus, Step, irq, Disable, hw, poll, rst, Counts, Share, CanPcs, BusPcs, CanDpcs,
      BusDpcs, Held, Opening, IrqOnly, Both, Clocks, TypeOK
<1>33. ASSUME CloseCan PROVE Counts'
  BY <1>33
  DEF CloseCan, Step, irq, Disable, hw, poll, rst, Counts, Share, CanPcs, BusPcs, CanDpcs,
      BusDpcs, Held, Opening, IrqOnly, Both, Clocks, TypeOK
<1>34. ASSUME CloseIrq PROVE Counts'
  BY <1>34
  DEF CloseIrq, Step, irq, hw, poll, rst, Counts, Share, CanPcs, BusPcs, CanDpcs, BusDpcs,
      Held, Opening, IrqOnly, Both
<1>35. ASSUME CloseCandev PROVE Counts'
  BY <1>35
  DEF CloseCandev, Step, irq, hw, poll, Counts, Share, CanPcs, BusPcs, CanDpcs, BusDpcs,
      Held, Opening, IrqOnly, Both
<1>36. ASSUME BerrBus PROVE Counts'
  BY <1>36
  DEF BerrBus, Step, irq, Enable, hw, poll, rst, Counts, Share, CanPcs, BusPcs, CanDpcs,
      BusDpcs, Held, Opening, IrqOnly, Both, Clocks, TypeOK
<1>37. ASSUME BerrReadPutBus PROVE Counts'
  BY <1>37
  DEF BerrReadPutBus, Step, irq, Disable, hw, poll, rst, Counts, Share, CanPcs, BusPcs,
      CanDpcs, BusDpcs, Held, Opening, IrqOnly, Both, Clocks, TypeOK
<1>38. ASSUME BerrPutCan PROVE Counts'
  BY <1>38
  DEF BerrPutCan, Step, irq, Disable, hw, poll, rst, Counts, Share, CanPcs, BusPcs,
      CanDpcs, BusDpcs, Held, Opening, IrqOnly, Both, Clocks, TypeOK
<1> QED
  BY <1>1, <1>2, <1>3, <1>4, <1>5, <1>6, <1>7, <1>8, <1>9, <1>10, <1>11, <1>12, <1>13,
     <1>14, <1>15, <1>16, <1>17, <1>18, <1>19, <1>20, <1>21, <1>22, <1>23, <1>24, <1>25,
     <1>26, <1>27, <1>28, <1>29, <1>30, <1>31, <1>32, <1>33, <1>34, <1>35, <1>36, <1>37,
     <1>38
  DEF Next, Begin, Run, Probe, Remove, Open, Close, Berr

\* The bounds of the counts follow from the counts, so the parts make TypeOK.
LEMMA TypeParts == Places /\ Flags /\ Counts => TypeOK
<1> SUFFICES ASSUME Places, Flags, Counts PROVE TypeOK
  OBVIOUS
<1>1. clk["can"] \in 0..3 /\ clk["bus"] \in 0..3
  BY DEF Counts, Share
<1>2. clk \in [Clocks -> 0..3]
  BY <1>1 DEF Places, Clocks
<1> QED BY <1>2, Zenon DEF TypeOK, Places, Flags

\* The invariant holds at the start.
LEMMA Initially == Init => IInv
<1> SUFFICES ASSUME Init PROVE IInv
  OBVIOUS
<1>1. Places
  BY DEF Init, Places, Clocks, AllIrqs
<1>2. Flags
  BY Zenon DEF Init, Flags
<1>3. Held /\ Contexts /\ CoreOwned
  BY DEF Init, Held, Contexts, CoreOwned, Opening, IrqOnly, Both
<1>4. Counts
  BY DEF Init, Counts, Share, CanPcs, BusPcs, CanDpcs, BusDpcs, Clocks
<1> QED BY <1>1, <1>2, <1>3, <1>4, TypeParts DEF IInv

\* A stuttering step keeps it.
LEMMA Stuttering == IInv /\ UNCHANGED vars => IInv'
<1> SUFFICES ASSUME IInv, UNCHANGED vars PROVE IInv'
  OBVIOUS
<1> USE DEF vars, ctl, dev, hw, irq, poll, rst, hist
<1>1. TypeOK'
  BY DEF IInv, TypeOK
<1>2. Held' /\ Contexts' /\ CoreOwned'
  BY DEF IInv, Held, Contexts, CoreOwned
<1>3. Counts'
  BY DEF IInv, Counts
<1> QED BY <1>1, <1>2, <1>3 DEF IInv

\* Every step keeps the invariant.
LEMMA Inductive == IInv /\ [Next]_vars => IInv'
<1> SUFFICES ASSUME IInv, Next PROVE IInv'
  BY Stuttering
<1>1. Places' /\ Flags' /\ Held' /\ Contexts' /\ CoreOwned' /\ Counts'
  BY PlacesKept, FlagsKept, HeldKept, ContextsKept, CoreKept, CountsKept DEF IInv
<1>2. TypeOK'
  BY <1>1, TypeParts, PTL
<1> QED BY <1>1, <1>2 DEF IInv

\* The invariant holds throughout.
THEOREM Invariance == Spec => []IInv
BY Initially, Inductive, PTL DEF Spec

-----------------------------------------------------------------------------
(* The theorems *)

\* Every variable keeps its type (TypeOK); in particular no clock is disabled more often
\* than it was enabled.
THEOREM TypeCorrect == Spec => []TypeOK
<1>1. IInv => TypeOK
  BY DEF IInv
<1> QED BY Invariance, <1>1, PTL

\* Whatever failed in probe, open or close, between two calls a device that is up holds what
\* xcan_open took and one that is not holds nothing (NothingLeaks).
THEOREM GivesBack == Spec => []NothingLeaks
<1>1. IInv => NothingLeaks
  <2> SUFFICES ASSUME IInv, pc = "idle", dpc = "idle" PROVE NothingLeaks
    BY DEF NothingLeaks
  <2>1. \A c \in Clocks : clk[c] = IF up THEN 1 ELSE 0
    BY DEF IInv, Counts, Share, CanPcs, BusPcs, CanDpcs, BusDpcs, Clocks
  <2>2. /\ up <=> "irq" \in res
        /\ up <=> "candev" \in res
        /\ up <=> napi # "off"
        /\ ~up /\ ~orphan => ~timer /\ rpc = "idle"
    BY DEF IInv, Held, Contexts, IrqOnly, Both
  <2> QED BY <2>1, <2>2, Zenon DEF NothingLeaks
<1> QED BY Invariance, <1>1, PTL

\* probe, open, close and the error counter query touch registers only with both clocks on
\* (CallsClocked).
THEOREM CallsKeepClocks == Spec => []CallsClocked
<1>1. IInv => CallsClocked
  BY DEF IInv, CallsClocked, Clocked, Clocks, Counts, Share, CanPcs, BusPcs, CanDpcs, BusDpcs
<1> QED BY Invariance, <1>1, PTL

\* The handler, the poll and the restart touch registers without clocks only in the two
\* windows at the end of a close and at the start of an open (StrayOnlyInWindows).
THEOREM TwoWindows == Spec => []StrayOnlyInWindows
<1>1. IInv => StrayOnlyInWindows
  <2> SUFFICES ASSUME IInv, ~Clocked PROVE StrayOnlyInWindows
    BY DEF StrayOnlyInWindows
  <2>1. ~up /\ ~(pc \in CanPcs /\ pc \in BusPcs)
    BY DEF IInv, Clocked, Clocks, Counts, Share
  <2>2. /\ ppc # "drain"
        /\ ipc # "idle" => pc \in {"c_can", "c_irq", "o_can", "o_bus", "u_can", "u_irq"}
        /\ rpc # "idle" => pc \in {"c_can", "c_irq", "c_candev"} \/ orphan
    BY <2>1 DEF IInv, Held, Contexts, IrqOnly, Both, CanPcs, BusPcs
  <2> QED BY <2>2 DEF StrayOnlyInWindows
<1> QED BY Invariance, <1>1, PTL

\* The handler arms a timer that nobody will delete only around an open
\* (OrphanOnlyAroundOpen), never in or after a close.
THEOREM OrphanAroundOpen == Spec => OrphanOnlyAroundOpen
<1>1. IInv /\ [Next]_vars =>
        [~orphan /\ orphan' => pc \in {"o_can", "o_bus", "o_reset", "o_candev",
                                        "u_bus", "u_can", "u_irq"}]_vars
  <2> SUFFICES ASSUME IInv, Next, ~orphan, orphan' PROVE pc \in IrqOnly
    BY DEF IrqOnly
  <2>1. IrqBusOff
    BY ProbeFrame, RemoveFrame, CallFrame, OrphanFrame DEF Next, Begin, Run, hist
  <2> QED BY <2>1 DEF IrqBusOff, IInv, Held, Contexts, IrqOnly, Both
<1> QED BY Invariance, <1>1, PTL DEF Spec, OrphanOnlyAroundOpen

\* probe reads the byte order wrong only when a late start has left the core on
\* (MisledOnlyByLateStart).
THEOREM MisledByLateStart == Spec => MisledOnlyByLateStart
<1>1. IInv /\ [Next]_vars => [accessors' = "be" /\ accessors # "be" => late]_vars
  <2> SUFFICES ASSUME IInv, Next, accessors' = "be", accessors # "be" PROVE late
    BY DEF vars
  <2>1. Probe \/ ProbeAlloc
    BY RemoveFrame, CallFrame, ContextFrame DEF Next, Begin, Run, dev
  <2>2. ProbeDetect
    BY <2>1 DEF Probe, ProbeCanClk, ProbeBusClk, ProbeDetect, ProbeRegister, ProbePutBus,
               ProbePutCan, ProbeUnBus, ProbeUnCan, ProbeFree, DriverStep, ProbeAlloc
  <2>3. dpc = "p_detect" /\ core # "config"
    BY <2>2 DEF ProbeDetect, DriverStep
  <2> QED BY <2>3 DEF IInv, Held, CoreOwned
<1> QED BY Invariance, <1>1, PTL DEF Spec, MisledOnlyByLateStart

\* A step that makes the interface deaf is one of the three.
LEMMA DeafStep ==
    ASSUME IInv, Next, ~Deaf, Deaf'
    PROVE  pc = "o_napi" \/ rpc \in {"reset", "cen"} \/ ipc = "oflw"
<1> USE DEF IInv, Deaf, Masked, Stranded
<1>1. CASE Probe \/ ProbeAlloc
  BY <1>1, ProbeFrame DEF hw, irq, poll, rst
<1>2. CASE Remove \/ RemoveReset
  BY <1>2 DEF Remove, RemoveClose, RemoveUnregister, RemoveReset, DriverStep
<1>3. CASE Open \/ OpenIrq
  BY <1>3 DEF Open, OpenCanClk, OpenBusClk, OpenReset, OpenCandev, OpenStart, OpenEnable, OpenCen,
              OpenNapi, UnwindCandev, UnwindBus, UnwindCan, UnwindIrq, OpenIrq, Step, Held,
              Opening, IrqOnly, Both, dev
<1>4. CASE Close \/ CloseBegin
  BY <1>4 DEF Close, CloseNapi, CloseChip, CloseBus, CloseCan, CloseIrq, CloseCandev,
     CloseBegin, Step, Held, Opening, Both, dev
<1>5. CASE Berr \/ BerrCan
  BY <1>5 DEF Berr, BerrBus, BerrReadPutBus, BerrPutCan, BerrCan, Step, hw, irq, poll, rst
<1>6. CASE Irq
  BY <1>6 DEF Irq, IrqEnter, IrqIsr, IrqBusOff, IrqOverflow, IrqReadIer, IrqMask, IrqSchedule,
              AfterErrors, AfterBusOff, SoftReset, Held, Contexts, Opening, Both, ctl, dev,
              hw, poll, rst
<1>7. CASE Poll
  BY <1>7 DEF Poll, PollBegin, PollDrain, PollQuota, PollReadIer, PollUnmask, Held, Opening, Both,
              ctl, dev, hw, irq, rst
<1>8. CASE Restart
  BY <1>8 DEF Restart, RestartBegin, RestartReset, RestartEnable, RestartCen, AllIrqs,
              ctl, dev, irq, poll
<1>9. CASE HwCause
  BY <1>9 DEF HwCause, ctl, dev, irq, poll, rst
<1> QED BY <1>1, <1>2, <1>3, <1>4, <1>5, <1>6, <1>7, <1>8, <1>9 DEF Next, Begin, Run

\* An interface that is up goes deaf only by an interrupt between xcan_chip_start and
\* napi_enable, by a restart that times out, or by the reset of the core for an overflow
\* (DeafOnlyFromStart).
THEOREM DeafFromStart == Spec => DeafOnlyFromStart
<1>1. IInv /\ [Next]_vars =>
        [~Deaf /\ Deaf' => pc = "o_napi" \/ rpc \in {"reset", "cen"} \/ ipc = "oflw"]_vars
  BY DeafStep
<1> QED BY Invariance, <1>1, PTL DEF Spec, DeafOnlyFromStart
=============================================================================
