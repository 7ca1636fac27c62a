-------------------------- MODULE DisplayBusProofs --------------------------
(***************************************************************************)
(* Safety of the display port for any number of writes.                    *)
(***************************************************************************)
EXTENDS DisplayBus, SequenceTheorems, TLAPS

NextHalf(d) == [d EXCEPT !.half = @ + 1]

\* A transfer has one half or two.
Count(dbl) == IF dbl THEN 2 ELSE 1

\* Number of halves that were accepted and not yet shown: those requested and those in
\* the machine.
Owed == IF trasfer_rq THEN Count(trasfer_rq_dbl)
        ELSE CASE io_state = "iddle" -> 0
               [] io_state = "wrfin" -> Count(dbl_r) - 1
               [] OTHER -> Count(dbl_r)

FirstOwed == IF trasfer_rq THEN Half(data_out, 1)
             ELSE IF io_state = "wrfin" THEN NextHalf(data_out_r) ELSE data_out_r

SecondOwed == IF trasfer_rq THEN Half(data_out, 2) ELSE NextHalf(data_out_r)

\* The bus carries what the machine transfers from the clock before the strobe on, and
\* the strobe is on in two states.
BusFollows ==
    /\ io_state \in {"wr0", "wr1", "wr2"} => lcd_data = data_out_r
    /\ wr_n <=> io_state \notin {"wr1", "wr2"}

\* The machine that is about to take a request can: it is idle from before WREADY until
\* the request, and one that has been made has been answered.
Ready ==
    /\ bvalid => aw = "taken" /\ w = "taken"
    /\ trasfer_rq => aw = "taken" /\ io_state = "iddle"
    /\ wready => io_state = "iddle" /\ ~trasfer_rq
    /\ ready_for_rq => io_state = "iddle"

\* The second half comes after the first.
Halved == dbl_r => data_out_r.half = 1

\* What is owed completes what is shown.
Balance ==
    /\ Len(accepted) = Len(shown) + Owed
    /\ \A i \in 1..Len(shown) : shown[i] = accepted[i]
    /\ Owed > 0 => accepted[Len(shown) + 1] = FirstOwed
    /\ Owed = 2 => accepted[Len(shown) + 2] = SecondOwed

IndInv == TypeOK /\ BusFollows /\ Ready /\ Halved /\ Balance

USE MaxWritesAssumption

-----------------------------------------------------------------------------
\* The invariant holds after reset.
LEMMA InitInv == Init => IndInv
  <1> SUFFICES ASSUME Init PROVE IndInv
    OBVIOUS
  <1>1. TypeOK
    <2>1. /\ awready \in BOOLEAN /\ wready \in BOOLEAN /\ bvalid \in BOOLEAN
          /\ trasfer_rq \in BOOLEAN /\ trasfer_rq_dbl \in BOOLEAN
          /\ ready_for_rq \in BOOLEAN /\ dbl_r \in BOOLEAN /\ wr_n \in BOOLEAN
      BY Zenon DEF Init
    <2>2. write \in [reg : Registers, dbl : BOOLEAN]
      BY DEF Init, Registers
    <2>3. /\ data_out \in [n : Nat, dc : Registers]
          /\ data_out_r \in HalfRecords /\ lcd_data \in HalfRecords
      BY DEF Init, HighZ, Half, Nothing, HalfRecords, Registers, Halves
    <2>4. accepted \in Seq(HalfRecords) /\ shown \in Seq(HalfRecords)
      BY DEF Init
    <2> QED
      BY <2>1, <2>2, <2>3, <2>4 DEF Init, TypeOK, Registers
  <1>2. BusFollows
    <2>1. wr_n /\ io_state = "iddle"
      BY Zenon DEF Init
    <2> QED
      BY <2>1 DEF BusFollows
  <1>3. Ready /\ Halved
    <2>1. ~bvalid /\ ~trasfer_rq /\ ~wready /\ ~ready_for_rq /\ ~dbl_r
      BY Zenon DEF Init
    <2> QED
      BY <2>1 DEF Ready, Halved
  <1>4. Balance
    <2>1. ~trasfer_rq /\ io_state = "iddle"
      BY Zenon DEF Init
    <2>2. Owed = 0
      BY <2>1 DEF Owed
    <2>3. accepted = << >> /\ shown = << >>
      BY DEF Init
    <2> QED
      BY <2>2, <2>3 DEF Balance
  <1> QED
    BY <1>1, <1>2, <1>3, <1>4 DEF IndInv

-----------------------------------------------------------------------------
\* A channel that the slave takes is taken, and one that waits goes on.
LEMMA NextMaster ==
  ASSUME TypeOK, Master
  PROVE  /\ aw' \in {"none", "valid", "taken"} /\ w' \in {"none", "valid", "taken"}
         /\ write' \in [reg : Registers, dbl : BOOLEAN] /\ begun' \in Nat
  <1>1. CASE MasterBegin
    BY <1>1 DEF MasterBegin, TypeOK
  <1>2. CASE MasterPauses \/ MasterNotReady
    BY <1>2 DEF MasterPauses, MasterNotReady, master, TypeOK
  <1>3. CASE MasterWrites
    <2>1. aw' \in {"none", "valid", "taken"}
      BY <1>3, Zenon DEF MasterWrites, Raise, Taken, Waits
    <2>2. w' \in {"none", "valid", "taken"}
      BY <1>3, Zenon DEF MasterWrites, Raise, Taken, Waits
    <2> QED
      BY <1>3, <2>1, <2>2 DEF MasterWrites, TypeOK
  <1>4. CASE MasterEnds
    BY <1>4 DEF MasterEnds, TypeOK
  <1> QED
    BY <1>1, <1>2, <1>3, <1>4 DEF Master

\* What Request appends.
LEMMA RequestType ==
  ASSUME TypeOK, Request
  PROVE  /\ trasfer_rq' \in BOOLEAN /\ trasfer_rq_dbl' \in BOOLEAN
         /\ data_out' \in [n : Nat, dc : Registers]
         /\ accepted' \in Seq(HalfRecords)
         /\ ToPanel => Len(accepted') = Len(accepted) + Count(trasfer_rq_dbl')
         /\ ToPanel => \A i \in 1..Len(accepted) : accepted'[i] = accepted[i]
         /\ ToPanel => accepted'[Len(accepted) + 1] = Half(data_out', 1)
         /\ ToPanel /\ trasfer_rq_dbl' => accepted'[Len(accepted) + 2] = Half(data_out', 2)
  <1>1. trasfer_rq' \in BOOLEAN
    BY Zenon DEF Request, ToPanel
  <1>2. CASE ToPanel
    <2> DEFINE k == Count(trasfer_rq_dbl')
               new == [h \in 1..k |-> Half(data_out', h)]
    <2>1. trasfer_rq_dbl' = write.dbl /\ data_out' = [n |-> begun, dc |-> awaddr]
      BY <1>2, Zenon DEF Request
    <2>2. trasfer_rq_dbl' \in BOOLEAN
      BY <2>1 DEF TypeOK
    <2>3. data_out' \in [n : Nat, dc : Registers]
      BY <2>1 DEF TypeOK
    <2>4. k \in 1..2 /\ (trasfer_rq_dbl' => k = 2)
      BY <2>2 DEF Count
    <2>5. accepted' = accepted \o new
      BY <1>2, <2>1, Zenon DEF Request, Count
    <2>6. \A h \in 1..k : Half(data_out', h) \in HalfRecords
      BY <2>3, <2>4 DEF Half, HalfRecords, Halves
    <2> HIDE DEF k
    <2>7. new \in Seq(HalfRecords) /\ Len(new) = k
      BY <2>4, <2>6
    <2>8. new[1] = Half(data_out', 1) /\ (k = 2 => new[2] = Half(data_out', 2))
      BY <2>4
    <2>9. accepted \in Seq(HalfRecords) /\ Len(accepted) \in Nat
      BY LenProperties DEF TypeOK
    <2> HIDE DEF new
    <2>10. /\ accepted' \in Seq(HalfRecords) /\ Len(accepted') = Len(accepted) + k
           /\ \A i \in 1 .. Len(accepted) + k : accepted'[i] =
                  IF i <= Len(accepted) THEN accepted[i] ELSE new[i - Len(accepted)]
      BY <2>5, <2>7, <2>9, ConcatProperties
    <2>11. \A i \in 1..Len(accepted) : accepted'[i] = accepted[i]
      BY <2>4, <2>9, <2>10
    <2>12. accepted'[Len(accepted) + 1] = new[1]
      BY <2>4, <2>9, <2>10
    <2>13. k = 2 => accepted'[Len(accepted) + 2] = new[2]
      BY <2>9, <2>10
    <2> QED
      BY <1>1, <2>2, <2>3, <2>4, <2>8, <2>10, <2>11, <2>12, <2>13 DEF k
  <1>3. CASE ~ToPanel
    <2>1. /\ accepted' = accepted /\ data_out' = data_out
          /\ trasfer_rq_dbl' = trasfer_rq_dbl
      BY <1>3, Zenon DEF Request
    <2> QED
      BY <1>1, <1>3, <2>1 DEF TypeOK
  <1> QED
    BY <1>2, <1>3

\* What the machine keeps and drives.
LEMMA FsmType ==
  ASSUME TypeOK, Halved, Fsm
  PROVE  /\ ready_for_rq' \in BOOLEAN /\ dbl_r' \in BOOLEAN /\ wr_n' \in BOOLEAN
         /\ io_state' \in {"iddle", "wrini", "wr0", "wr1", "wr2", "wrfin"}
         /\ data_out_r' \in HalfRecords /\ lcd_data' \in HalfRecords
         /\ Halved'
  <1>1. HighZ \in HalfRecords /\ Half(data_out, 1) \in HalfRecords
        /\ Half(data_out, 1).half = 1
    BY DEF TypeOK, HighZ, Half, Nothing, HalfRecords, Registers, Halves
  <1>2. ready_for_rq' \in BOOLEAN /\ wr_n' \in BOOLEAN
    BY Zenon DEF Fsm, Iddle, IddleRequest, WrIni, Wr0, Wr1, Wr2, WrFinDouble, WrFin,
                 Step, Drive
  <1>3. CASE Iddle \/ WrFin
    <2>1. data_out_r' = data_out_r /\ dbl_r' = dbl_r /\ lcd_data' = HighZ
          /\ io_state' = "iddle"
      BY <1>3, Zenon DEF Iddle, WrFin, Goto, Drive
    <2> QED
      BY <1>1, <1>2, <2>1 DEF TypeOK, Halved
  <1>4. CASE IddleRequest
    <2>1. data_out_r' = Half(data_out, 1) /\ dbl_r' = trasfer_rq_dbl
          /\ lcd_data' = Half(data_out, 1) /\ io_state' = "wr0"
      BY <1>4, Zenon DEF IddleRequest, Goto, Drive
    <2> QED
      BY <1>1, <1>2, <2>1 DEF TypeOK, Halved
  <1>5. CASE WrIni \/ Wr0 \/ Wr1 \/ Wr2
    <2>1. data_out_r' = data_out_r /\ dbl_r' = dbl_r /\ lcd_data' = data_out_r
      BY <1>5, Zenon DEF WrIni, Wr0, Wr1, Wr2, Step, Goto, Drive
    <2>2. io_state' \in {"wr0", "wr1", "wr2", "wrfin"}
      BY <1>5, Zenon DEF WrIni, Wr0, Wr1, Wr2, Step, Goto
    <2> QED
      BY <1>2, <2>1, <2>2 DEF TypeOK, Halved
  <1>6. CASE WrFinDouble
    <2>1. dbl_r /\ ~dbl_r' /\ dbl_r' \in BOOLEAN /\ lcd_data' = data_out_r
          /\ io_state' = "wrini"
      BY <1>6, Zenon DEF WrFinDouble, Goto, Drive
    <2>2. data_out_r' = [data_out_r EXCEPT !.half = @ + 1]
      BY <1>6 DEF WrFinDouble
    <2>3. data_out_r' \in HalfRecords
      BY <2>1, <2>2 DEF TypeOK, Halved, HalfRecords, Halves
    <2> QED
      BY <1>2, <2>1, <2>3 DEF TypeOK, Halved
  <1> QED
    BY <1>3, <1>4, <1>5, <1>6 DEF Fsm

-----------------------------------------------------------------------------
\* Which strobe and which data go with the machine's states.
LEMMA NextBus ==
  ASSUME TypeOK, BusFollows, Fsm
  PROVE  BusFollows'
  <1>1. CASE Iddle \/ WrFin
    <2>1. io_state' = "iddle" /\ wr_n'
      BY <1>1, Zenon DEF Iddle, WrFin, Goto, Drive
    <2> QED
      BY <2>1 DEF BusFollows
  <1>2. CASE IddleRequest
    <2>1. io_state' = "wr0" /\ wr_n' /\ lcd_data' = data_out_r'
      BY <1>2, Zenon DEF IddleRequest, Goto, Drive
    <2> QED
      BY <2>1 DEF BusFollows
  <1>3. CASE WrIni
    <2>1. io_state' = "wr0" /\ wr_n' /\ lcd_data' = data_out_r'
      BY <1>3, Zenon DEF WrIni, Step, Goto, Drive
    <2> QED
      BY <2>1 DEF BusFollows
  <1>4. CASE Wr0 \/ Wr1
    <2>1. io_state' \in {"wr1", "wr2"} /\ ~wr_n' /\ lcd_data' = data_out_r'
      BY <1>4, Zenon DEF Wr0, Wr1, Step, Goto, Drive
    <2> QED
      BY <2>1 DEF BusFollows
  <1>5. CASE Wr2
    <2>1. io_state' = "wrfin" /\ wr_n'
      BY <1>5, Zenon DEF Wr2, Step, Goto, Drive
    <2> QED
      BY <2>1 DEF BusFollows
  <1>6. CASE WrFinDouble
    <2>1. io_state' = "wrini" /\ wr_n'
      BY <1>6, Zenon DEF WrFinDouble, Goto, Drive
    <2> QED
      BY <2>1 DEF BusFollows
  <1> QED
    BY <1>1, <1>2, <1>3, <1>4, <1>5, <1>6 DEF Fsm

\* A machine without a request stays idle.
LEMMA StaysIdle ==
  ASSUME Fsm, io_state = "iddle", ~trasfer_rq
  PROVE  Iddle
  <1>1. /\ ~IddleRequest
    BY DEF IddleRequest
  <1>2. ~WrIni /\ ~Wr0 /\ ~Wr1 /\ ~Wr2 /\ ~WrFinDouble /\ ~WrFin
    BY DEF WrIni, Wr0, Wr1, Wr2, WrFinDouble, WrFin, Step, Goto
  <1> QED
    BY <1>1, <1>2, Zenon DEF Fsm

\* A request is made of a machine that is idle and stays so for this clock, and the
\* master's channels are taken by then.
LEMMA RequestMeetsIdle ==
  ASSUME TypeOK, Ready, Clock, Wren
  PROVE  /\ ~bvalid /\ io_state = "iddle" /\ ~trasfer_rq /\ Iddle
         /\ aw' = "taken" /\ w' = "taken"
  <1>1. aw = "valid" /\ w = "valid" /\ awready /\ wready
    BY DEF Wren, Both
  <1>2. ~bvalid /\ io_state = "iddle" /\ ~trasfer_rq
    BY <1>1 DEF Ready
  <1>3. Iddle
    BY <1>2, StaysIdle DEF Clock
  <1>4. MasterWrites
    BY <1>1, <1>2 DEF Clock, Master, MasterBegin, MasterPauses, MasterEnds, MasterNotReady
  <1>5. aw' = "taken" /\ w' = "taken"
    BY <1>1, <1>4 DEF MasterWrites, Raise, Taken, Waits
  <1> QED
    BY <1>2, <1>3, <1>5

\* Every edge keeps Ready.
LEMMA NextReady ==
  ASSUME TypeOK, Ready, Clock
  PROVE  Ready'
  <1> USE DEF Clock, Slave
  <1>1. bvalid' => aw' = "taken" /\ w' = "taken"
    <2>1. CASE bvalid
      <3>1. aw = "taken" /\ w = "taken"
        BY <2>1 DEF Ready
      <3>2. MasterEnds \/ MasterNotReady
        BY <2>1, <3>1 DEF Master, MasterBegin, MasterPauses, MasterWrites
      <3>3. bvalid' => <<aw', w'>> # <<"none", "none">>
        BY <2>1, Zenon DEF Response
      <3>4. CASE MasterEnds
        BY <3>3, <3>4 DEF MasterEnds
      <3>5. CASE MasterNotReady
        BY <3>1, <3>5 DEF MasterNotReady, master
      <3> QED
        BY <3>2, <3>4, <3>5
    <2>2. CASE ~bvalid
      <3>1. bvalid' => Wren
        BY <2>2, Zenon DEF Response
      <3> QED
        BY <3>1, RequestMeetsIdle
    <2> QED
      BY <2>1, <2>2
  <1>2. trasfer_rq' => aw' = "taken" /\ io_state' = "iddle"
    <2>1. trasfer_rq' => Wren
      BY Zenon DEF Request, ToPanel
    <2>2. Wren => aw' = "taken" /\ Iddle
      BY RequestMeetsIdle
    <2>3. Iddle => io_state' = "iddle"
      BY DEF Iddle, Goto
    <2> QED
      BY <2>1, <2>2, <2>3, Zenon
  <1>3. wready' => io_state' = "iddle" /\ ~trasfer_rq'
    <2> SUFFICES ASSUME wready' PROVE io_state' = "iddle" /\ ~trasfer_rq'
      BY Zenon
    <2>1. ~wready /\ aw = "valid" /\ ready_for_rq
      BY Zenon DEF WReady, Both
    <2>2. io_state = "iddle" /\ ~trasfer_rq
      BY <2>1 DEF Ready
    <2>3. io_state' = "iddle"
      BY <2>2, StaysIdle DEF Iddle, Goto
    <2>4. ~trasfer_rq'
      BY <2>1, Zenon DEF Request, ToPanel, Wren
    <2> QED
      BY <2>3, <2>4
  <1>4. ready_for_rq' => io_state' = "iddle"
    BY Zenon DEF Fsm, Iddle, IddleRequest, WrIni, Wr0, Wr1, Wr2, WrFinDouble, WrFin,
                 Step, Goto
  <1> QED
    BY <1>1, <1>2, <1>3, <1>4, Zenon DEF Ready

-----------------------------------------------------------------------------
(* Balance: a write adds to what is owed, the end of a strobe takes from it, *)
(* and every other step leaves what is owed alone.                           *)

\* At most two halves are owed; what was accepted and what was shown are sequences.
LEMMA OwedType ==
  ASSUME TypeOK
  PROVE  /\ Owed \in 0..2
         /\ Len(shown) \in Nat /\ Len(accepted) \in Nat
         /\ shown \in Seq(HalfRecords) /\ accepted \in Seq(HalfRecords)
  <1>1. Count(trasfer_rq_dbl) \in 1..2 /\ Count(dbl_r) \in 1..2
    BY DEF Count
  <1>2. Owed \in 0..2
    BY <1>1 DEF Owed, TypeOK
  <1> QED
    BY <1>2, LenProperties DEF TypeOK

\* A step that neither accepts nor shows, and leaves what is owed.
LEMMA BalanceStays ==
  ASSUME Balance, UNCHANGED <<accepted, shown>>, Owed' = Owed,
         Owed > 0 => FirstOwed' = FirstOwed,
         Owed = 2 => SecondOwed' = SecondOwed
  PROVE  Balance'
  BY DEF Balance

\* An edge at which a write is accepted adds its halves to what is owed.
LEMMA BalanceAccepts ==
  ASSUME TypeOK, BusFollows, Ready, Balance, Clock, ToPanel
  PROVE  Balance'
  <1>1. io_state = "iddle" /\ ~trasfer_rq /\ Iddle
    BY RequestMeetsIdle DEF ToPanel
  <1>2. wr_n
    BY <1>1 DEF BusFollows
  <1>3. shown' = shown
    BY <1>2, Zenon DEF Clock, Panel
  <1>4. trasfer_rq'
    BY Zenon DEF Clock, Slave, Request
  <1>5. /\ trasfer_rq_dbl' \in BOOLEAN
        /\ Len(accepted') = Len(accepted) + Count(trasfer_rq_dbl')
        /\ \A i \in 1..Len(accepted) : accepted'[i] = accepted[i]
        /\ accepted'[Len(accepted) + 1] = Half(data_out', 1)
        /\ trasfer_rq_dbl' => accepted'[Len(accepted) + 2] = Half(data_out', 2)
    BY RequestType DEF Clock, Slave
  <1>6. Len(accepted) = Len(shown) /\ Len(shown) \in Nat
    BY <1>1, OwedType DEF Balance, Owed
  <1>7. Owed' = Count(trasfer_rq_dbl') /\ FirstOwed' = Half(data_out', 1)
        /\ SecondOwed' = Half(data_out', 2)
    BY <1>4, Zenon DEF Owed, FirstOwed, SecondOwed, Count, Half
  <1>8. Owed' = 2 => trasfer_rq_dbl'
    BY <1>5, <1>7 DEF Count
  <1>9. \A i \in 1..Len(shown) : shown[i] = accepted[i]
    BY DEF Balance
  <1>10. /\ Len(accepted') = Len(shown') + Owed'
         /\ \A i \in 1..Len(shown') : shown'[i] = accepted'[i]
    BY <1>3, <1>5, <1>6, <1>7, <1>9
  <1>11. /\ accepted'[Len(shown') + 1] = FirstOwed'
         /\ Owed' = 2 => accepted'[Len(shown') + 2] = SecondOwed'
    BY <1>3, <1>5, <1>6, <1>7, <1>8
  <1> QED
    BY <1>10, <1>11 DEF Balance

\* The strobe ends: the panel has the first half that was owed.
LEMMA BalanceShows ==
  ASSUME TypeOK, BusFollows, Ready, Balance, Clock, ~ToPanel, Wr2
  PROVE  Balance'
  <1>1. io_state = "wr2" /\ io_state' = "wrfin" /\ wr_n'
        /\ data_out_r' = data_out_r /\ dbl_r' = dbl_r
    BY Zenon DEF Wr2, Step, Goto, Drive
  <1>2. ~wr_n /\ lcd_data' = data_out_r /\ lcd_data = data_out_r
    BY <1>1 DEF BusFollows, Wr2, Step, Drive
  <1>3. shown' = Append(shown, data_out_r)
    BY <1>1, <1>2, Zenon DEF Clock, Panel
  <1>4. ~trasfer_rq' /\ accepted' = accepted
    BY Zenon DEF Clock, Slave, Request
  <1>5. ~trasfer_rq
    BY <1>1 DEF Ready
  <1>6. Owed = Count(dbl_r) /\ FirstOwed = data_out_r /\ SecondOwed = NextHalf(data_out_r)
    BY <1>1, <1>5 DEF Owed, FirstOwed, SecondOwed
  <1>7. Owed' = Count(dbl_r) - 1 /\ FirstOwed' = NextHalf(data_out_r)
    <2>1. Owed' = Count(dbl_r') - 1 /\ FirstOwed' = NextHalf(data_out_r')
      BY <1>1, <1>4 DEF Owed, FirstOwed, Count, NextHalf
    <2> QED
      BY <1>1, <2>1
  <1>8. Count(dbl_r) \in 1..2
    BY DEF Count
  <1>9. shown \in Seq(HalfRecords) /\ data_out_r \in HalfRecords /\ Len(shown) \in Nat
    BY OwedType DEF TypeOK
  <1>10. /\ Len(shown') = Len(shown) + 1
         /\ \A i \in 1..Len(shown) : shown'[i] = shown[i]
         /\ shown'[Len(shown) + 1] = data_out_r
    BY <1>3, <1>9, AppendProperties
  <1>11. /\ Len(accepted) = Len(shown) + Owed
         /\ \A i \in 1..Len(shown) : shown[i] = accepted[i]
         /\ Owed > 0 => accepted[Len(shown) + 1] = FirstOwed
         /\ Owed = 2 => accepted[Len(shown) + 2] = SecondOwed
    BY DEF Balance
  <1>12. Len(accepted') = Len(shown') + Owed'
    BY <1>4, <1>6, <1>7, <1>8, <1>9, <1>10, <1>11
  <1>13. \A i \in 1..Len(shown') : shown'[i] = accepted'[i]
    BY <1>4, <1>6, <1>8, <1>9, <1>10, <1>11
  <1>14. Owed' > 0 => accepted'[Len(shown') + 1] = FirstOwed'
    BY <1>4, <1>6, <1>7, <1>8, <1>9, <1>10, <1>11
  <1>15. Owed' # 2
    BY <1>7, <1>8
  <1> QED
    BY <1>12, <1>13, <1>14, <1>15 DEF Balance

\* Every other edge leaves what is owed and what was shown.
LEMMA BalanceKeeps ==
  ASSUME TypeOK, BusFollows, Ready, Balance, Clock, ~ToPanel, ~Wr2
  PROVE  Balance'
  <1>1. ~trasfer_rq' /\ accepted' = accepted
    BY Zenon DEF Clock, Slave, Request
  <1>2. Fsm
    BY DEF Clock
  <1>3. ~wr_n => ~wr_n'
    <2>1. ~wr_n => io_state \in {"wr1", "wr2"}
      BY Zenon DEF BusFollows
    <2>2. io_state = "wr1" => Wr1
      BY <1>2 DEF Fsm, Iddle, IddleRequest, WrIni, Wr0, Wr2, WrFinDouble, WrFin, Step, Goto
    <2>3. io_state # "wr2"
      BY <1>2 DEF Fsm, Iddle, IddleRequest, WrIni, Wr0, Wr1, WrFinDouble, WrFin, Step, Goto
    <2>4. Wr1 => ~wr_n'
      BY Zenon DEF Wr1, Step, Drive
    <2> QED
      BY <2>1, <2>2, <2>3, <2>4
  <1>4. shown' = shown
    BY <1>3, Zenon DEF Clock, Panel
  <1>5. trasfer_rq => io_state = "iddle"
    BY DEF Ready
  <1>6. CASE Iddle
    <2>1. ~trasfer_rq /\ io_state = "iddle" /\ io_state' = "iddle"
      BY <1>6 DEF Iddle, Goto
    <2>2. Owed = 0 /\ Owed' = 0
      BY <1>1, <2>1 DEF Owed
    <2> QED
      BY <1>1, <1>4, <2>2, BalanceStays
  <1>7. CASE IddleRequest
    <2>1. trasfer_rq /\ io_state' = "wr0" /\ data_out_r' = Half(data_out, 1)
          /\ dbl_r' = trasfer_rq_dbl
      BY <1>7, Zenon DEF IddleRequest, Goto
    <2>2. Owed = Count(trasfer_rq_dbl) /\ FirstOwed = Half(data_out, 1)
          /\ SecondOwed = Half(data_out, 2)
      BY <2>1 DEF Owed, FirstOwed, SecondOwed
    <2>3. Owed' = Count(dbl_r') /\ FirstOwed' = data_out_r'
          /\ SecondOwed' = NextHalf(data_out_r')
      BY <1>1, <2>1 DEF Owed, FirstOwed, SecondOwed, Count, NextHalf
    <2>4. NextHalf(Half(data_out, 1)) = Half(data_out, 2)
      BY DEF NextHalf, Half
    <2> QED
      BY <1>1, <1>4, <2>1, <2>2, <2>3, <2>4, BalanceStays
  <1>8. CASE WrIni \/ Wr0 \/ Wr1
    <2>1. io_state \in {"wrini", "wr0", "wr1"} /\ io_state' \in {"wr0", "wr1", "wr2"}
          /\ data_out_r' = data_out_r /\ dbl_r' = dbl_r
      BY <1>8, Zenon DEF WrIni, Wr0, Wr1, Step, Goto
    <2>2. ~trasfer_rq
      BY <1>5, <2>1
    <2>3. Owed = Count(dbl_r) /\ FirstOwed = data_out_r
          /\ SecondOwed = NextHalf(data_out_r)
      BY <2>1, <2>2 DEF Owed, FirstOwed, SecondOwed
    <2>4. Owed' = Count(dbl_r') /\ FirstOwed' = data_out_r'
          /\ SecondOwed' = NextHalf(data_out_r')
      BY <1>1, <2>1 DEF Owed, FirstOwed, SecondOwed, Count, NextHalf
    <2> QED
      BY <1>1, <1>4, <2>1, <2>3, <2>4, BalanceStays
  <1>9. CASE WrFinDouble
    <2>1. io_state = "wrfin" /\ io_state' = "wrini" /\ dbl_r /\ ~dbl_r'
      BY <1>9, Zenon DEF WrFinDouble, Goto
    <2>2. data_out_r' = NextHalf(data_out_r)
      BY <1>9 DEF WrFinDouble, NextHalf
    <2>3. ~trasfer_rq
      BY <1>5, <2>1
    <2>4. Owed = 1 /\ FirstOwed = NextHalf(data_out_r)
      BY <2>1, <2>3 DEF Owed, FirstOwed, Count
    <2>5. Owed' = Count(dbl_r') /\ FirstOwed' = data_out_r'
      BY <1>1, <2>1 DEF Owed, FirstOwed, Count
    <2>6. Count(dbl_r') = 1
      BY <2>1, Zenon DEF Count
    <2> QED
      BY <1>1, <1>4, <2>2, <2>4, <2>5, <2>6, BalanceStays
  <1>10. CASE WrFin
    <2>1. io_state = "wrfin" /\ io_state' = "iddle" /\ ~dbl_r
      BY <1>10, Zenon DEF WrFin, Goto
    <2>2. ~trasfer_rq
      BY <1>5, <2>1
    <2>3. Owed = 0
      BY <2>1, <2>2 DEF Owed, Count
    <2>4. Owed' = 0
      BY <1>1, <2>1 DEF Owed
    <2> QED
      BY <1>1, <1>4, <2>3, <2>4, BalanceStays
  <1> QED
    BY <1>2, <1>6, <1>7, <1>8, <1>9, <1>10 DEF Fsm

-----------------------------------------------------------------------------
\* Every edge keeps the invariant.
LEMMA StepInv == IndInv /\ [Clock]_vars => IndInv'
  <1> SUFFICES ASSUME IndInv, [Clock]_vars PROVE IndInv'
    OBVIOUS
  <1>1. CASE Clock
    <2> USE <1>1 DEF IndInv, Clock
    <2>1. TypeOK'
      <3>1. /\ awready' \in BOOLEAN /\ wready' \in BOOLEAN /\ bvalid' \in BOOLEAN
        BY Zenon DEF Slave, AwReady, WReady, Response, Wren
      <3>2. awaddr' \in Registers
        BY DEF Slave, AwAddr, TypeOK
      <3>3. shown' \in Seq(HalfRecords)
        BY DEF Panel, TypeOK
      <3>4. /\ trasfer_rq' \in BOOLEAN /\ trasfer_rq_dbl' \in BOOLEAN
            /\ data_out' \in [n : Nat, dc : Registers]
            /\ accepted' \in Seq(HalfRecords)
        BY RequestType DEF Slave
      <3> QED
        BY <3>1, <3>2, <3>3, <3>4, NextMaster, FsmType DEF TypeOK
    <2>2. BusFollows' /\ Ready' /\ Halved'
      BY NextBus, NextReady, FsmType
    <2>3. Balance'
      BY BalanceAccepts, BalanceShows, BalanceKeeps
    <2> QED
      BY <2>1, <2>2, <2>3
  <1>2. CASE UNCHANGED vars
    <2>1. UNCHANGED <<aw, w, write, begun>>
      BY <1>2, Zenon DEF vars, master
    <2>2. UNCHANGED <<awready, wready, bvalid, awaddr, trasfer_rq, trasfer_rq_dbl, data_out>>
      BY <1>2, Zenon DEF vars, slave
    <2>3. UNCHANGED <<ready_for_rq, io_state, data_out_r, dbl_r, wr_n, lcd_data>>
      BY <1>2, Zenon DEF vars, fsm
    <2>4. UNCHANGED <<accepted, shown>>
      BY <1>2, Zenon DEF vars
    <2>5. TypeOK' /\ BusFollows' /\ Ready' /\ Halved'
      BY <2>1, <2>2, <2>3, <2>4 DEF IndInv, TypeOK, BusFollows, Ready, Halved
    <2>6. Owed' = Owed /\ FirstOwed' = FirstOwed /\ SecondOwed' = SecondOwed
      BY <2>2, <2>3 DEF Owed, FirstOwed, SecondOwed
    <2> QED
      BY <2>4, <2>5, <2>6, BalanceStays DEF IndInv
  <1> QED
    BY <1>1, <1>2

\* IndInv always holds.
THEOREM Invariance == Spec => []IndInv
  BY InitInv, StepInv, PTL DEF Spec

\* Every variable holds a value of its kind.
THEOREM TypeCorrect == Spec => []TypeOK
  <1>1. IndInv => TypeOK
    BY DEF IndInv
  <1> QED
    BY Invariance, <1>1, PTL

\* No half is lost to a busy machine, doubled or reordered, and an idle machine that has
\* no request owes nothing.
THEOREM Delivered == Spec => []NothingLost
  <1>1. IndInv => NothingLost
    <2> SUFFICES ASSUME IndInv PROVE NothingLost
      OBVIOUS
    <2>1. /\ Owed \in 0..2 /\ Len(shown) \in Nat /\ Len(accepted) \in Nat
          /\ shown \in Seq(HalfRecords) /\ accepted \in Seq(HalfRecords)
      BY OwedType DEF IndInv
    <2>2. Len(accepted) = Len(shown) + Owed
          /\ \A i \in 1..Len(shown) : shown[i] = accepted[i]
      BY DEF IndInv, Balance
    <2>3. \A i \in 1..Len(shown) : accepted[i] \in HalfRecords
      BY <2>1, <2>2, ElementOfSeq
    <2> DEFINE sub == SubSeq(accepted, 1, Len(shown))
    <2>4. /\ sub \in Seq(HalfRecords)
          /\ Len(sub) = IF 1 <= Len(shown) THEN Len(shown) - 1 + 1 ELSE 0
          /\ \A i \in 1 .. Len(shown) - 1 + 1 : sub[i] = accepted[1 + i - 1]
      <3> HIDE DEF sub
      <3>1. 1 \in Int /\ Len(shown) \in Int
        BY <2>1
      <3> QED
        BY <2>3, <3>1, SubSeqProperties DEF sub
    <2> HIDE DEF sub
    <2>5. Len(sub) = Len(shown) /\ \A i \in 1..Len(shown) : shown[i] = sub[i]
      BY <2>1, <2>2, <2>4
    <2>6. shown = sub
      BY <2>1, <2>4, <2>5, SeqEqual
    <2>7. Len(shown) <= Len(accepted)
      BY <2>1, <2>2
    <2>8. ASSUME io_state = "iddle", ~trasfer_rq PROVE shown = accepted
      <3>1. Owed = 0
        BY <2>8 DEF Owed
      <3>2. Len(shown) = Len(accepted)
        BY <2>1, <2>2, <3>1
      <3> QED
        BY <2>1, <2>2, <3>2, SeqEqual
    <2> QED
      BY <2>6, <2>7, <2>8 DEF NothingLost, sub
  <1> QED
    BY Invariance, <1>1, PTL

\* The strobe frames stable data.
THEOREM Framed == Spec => StrobeFramesData
  <1>1. IndInv /\ [Clock]_vars => [~wr_n \/ ~wr_n' => lcd_data' = lcd_data]_vars
    <2> SUFFICES ASSUME IndInv, Clock, ~wr_n \/ ~wr_n' PROVE lcd_data' = lcd_data
      OBVIOUS
    <2>1. Fsm
      BY DEF Clock
    <2>2. ~wr_n => io_state \in {"wr1", "wr2"}
      BY Zenon DEF IndInv, BusFollows
    <2>3. ~wr_n' => Wr0 \/ Wr1
      BY <2>1, Zenon DEF Fsm, Iddle, IddleRequest, WrIni, Wr2, WrFinDouble, WrFin, Step, Drive
    <2>4. io_state \in {"wr1", "wr2"} => Wr1 \/ Wr2
      BY <2>1 DEF Fsm, Iddle, IddleRequest, WrIni, Wr0, WrFinDouble, WrFin, Step, Goto
    <2>5. Wr0 \/ Wr1 \/ Wr2
      BY <2>2, <2>3, <2>4, Zenon
    <2>6. io_state \in {"wr0", "wr1", "wr2"} /\ lcd_data' = data_out_r
      BY <2>5, Zenon DEF Wr0, Wr1, Wr2, Step, Goto, Drive
    <2> QED
      BY <2>6 DEF IndInv, BusFollows
  <1> QED
    BY Invariance, <1>1, PTL DEF Spec, StrobeFramesData
=============================================================================
