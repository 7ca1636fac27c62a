----------------------------- MODULE DisplayBus -----------------------------
(***************************************************************************)
(* The display port display_16bit_cmd_data_bus: the write channels of its  *)
(* AXI slave, the state machine that drives the bus of the panel, and, as  *)
(* an external part, an AXI master with one write outstanding, which begins *)
(* the next a clock after the response at the earliest.                    *)
(*                                                                         *)
(* All processes share one clock: a step is one rising edge, at which each *)
(* process computes its registers from the old values of all of them.  The *)
(* machine's divider is 1, as in the only instance.  What is written is    *)
(* abstracted to the number of the write, of which the panel gets one half *)
(* or two.  Reset is the initial state.                                    *)
(***************************************************************************)
EXTENDS Naturals, Sequences

CONSTANT MaxWrites  \* bound: number of writes begun

ASSUME MaxWritesAssumption == MaxWrites \in Nat

VARIABLES
    aw, w,         \* the master's channels: "none", "valid", or "taken" by the slave
    write,         \* the write it makes: to which register, and WSTRB(2)
    begun,         \* number of writes begun
    awready, wready, bvalid,
    awaddr,        \* axi_awaddr: the register addressed
    trasfer_rq,
    trasfer_rq_dbl,
    data_out,      \* data_out and dc_out: the number of the write and its kind
    ready_for_rq,
    io_state,      \* io_state_r
    data_out_r,    \* data_out_r and dc_out_r: also which half is in the lower bits
    dbl_r,         \* trasfer_rq_dbl_r
    wr_n,          \* the strobe of the panel, which takes lcd_data as it rises
    lcd_data,      \* lcd_data and lcd_dc; while the data float, lcd_dc is not kept
    accepted,      \* history: the halves the slave accepted
    shown          \* history: the halves the panel took

master == <<aw, w, write, begun>>
slave  == <<awready, wready, bvalid, awaddr, trasfer_rq, trasfer_rq_dbl, data_out>>
fsm    == <<ready_for_rq, io_state, data_out_r, dbl_r, wr_n, lcd_data>>
vars   == <<master, slave, fsm, accepted, shown>>

Registers == {"command", "data", "other"}
Halves    == 1..2
Nothing   == [n |-> 0, dc |-> "other"]
Half(d, h) == [n |-> d.n, dc |-> d.dc, half |-> h]
HighZ     == Half(Nothing, 1)

Both == aw = "valid" /\ w = "valid"
Wren == awready /\ wready /\ Both
\* The write reaches the panel: slv_reg2 or slv_reg3.
ToPanel == Wren /\ awaddr \in {"command", "data"}

-----------------------------------------------------------------------------
Init ==
    /\ aw = "none" /\ w = "none" /\ begun = 0
    /\ write = [reg |-> "other", dbl |-> FALSE]
    /\ awready = FALSE /\ wready = FALSE /\ bvalid = FALSE /\ awaddr = "other"
    /\ trasfer_rq = FALSE /\ trasfer_rq_dbl = FALSE /\ data_out = Nothing
    /\ ready_for_rq = FALSE /\ io_state = "iddle"
    /\ data_out_r = HighZ /\ dbl_r = FALSE
    /\ wr_n = TRUE /\ lcd_data = HighZ
    /\ accepted = << >> /\ shown = << >>

-----------------------------------------------------------------------------
(* The master: it raises the two channels at once or one after the other,  *)
(* keeps a channel valid until it is taken, and takes the response at any  *)
(* time.                                                                   *)

Raise(old, new) == old = "none" /\ new \in {"none", "valid"}
Taken(old, new, ready) == old = "valid" /\ new = IF ready THEN "taken" ELSE "valid"
Waits(old, new) == old = "taken" /\ new = "taken"

MasterBegin ==
    /\ aw = "none" /\ w = "none" /\ begun < MaxWrites
    /\ \/ aw' = "valid" /\ w' \in {"none", "valid"}
       \/ aw' = "none" /\ w' = "valid"
    /\ write' \in [reg : Registers, dbl : BOOLEAN]
    /\ begun' = begun + 1

MasterPauses ==
    /\ aw = "none" /\ w = "none"
    /\ UNCHANGED master

MasterWrites ==
    /\ <<aw, w>> # <<"none", "none">> /\ ~bvalid
    /\ Raise(aw, aw') \/ Taken(aw, aw', awready) \/ Waits(aw, aw')
    /\ Raise(w, w') \/ Taken(w, w', wready) \/ Waits(w, w')
    /\ UNCHANGED <<write, begun>>

\* BVALID and BREADY
MasterEnds ==
    /\ bvalid
    /\ aw' = "none" /\ w' = "none"
    /\ UNCHANGED <<write, begun>>

\* BVALID without BREADY
MasterNotReady ==
    /\ bvalid
    /\ UNCHANGED master

Master == MasterBegin \/ MasterPauses \/ MasterWrites \/ MasterEnds \/ MasterNotReady

-----------------------------------------------------------------------------
(* The slave: one operator per process *)

\* Mutant: the address waits for the data.
AwReady_AfterData == awready' = (~awready /\ Both /\ wready)

AwReady == awready' = (~awready /\ Both)

AwAddr == awaddr' = IF ~awready /\ Both THEN write.reg ELSE awaddr

\* Mutant: whatever the machine does.
WReady_Always == wready' = (~wready /\ Both)

WReady == wready' = (~wready /\ Both /\ ready_for_rq)

Request ==
    /\ trasfer_rq' = ToPanel
    /\ IF ToPanel
       THEN data_out' = [n |-> begun, dc |-> awaddr] /\ trasfer_rq_dbl' = write.dbl
       ELSE UNCHANGED <<data_out, trasfer_rq_dbl>>
    /\ accepted' = IF ToPanel
                   THEN accepted \o [h \in 1..(IF write.dbl THEN 2 ELSE 1) |->
                                         Half(data_out', h)]
                   ELSE accepted

\* The response goes when the master takes it.
Response == bvalid' = IF bvalid THEN <<aw', w'>> # <<"none", "none">> ELSE Wren

Slave == AwReady /\ AwAddr /\ WReady /\ Request /\ Response

-----------------------------------------------------------------------------
(* io_fsm: one operator per state *)

Goto(from, to) == io_state = from /\ io_state' = to
Drive(d, strobe) == lcd_data' = d /\ wr_n' = ~strobe

Iddle ==
    /\ ~trasfer_rq
    /\ Goto("iddle", "iddle")
    /\ ready_for_rq' = TRUE
    /\ Drive(HighZ, FALSE)
    /\ UNCHANGED <<data_out_r, dbl_r>>

IddleRequest ==
    /\ trasfer_rq
    /\ Goto("iddle", "wr0")
    /\ ready_for_rq' = FALSE
    /\ data_out_r' = Half(data_out, 1) /\ dbl_r' = trasfer_rq_dbl
    /\ Drive(Half(data_out, 1), FALSE)

Step(from, to, strobe) ==
    /\ Goto(from, to)
    /\ ready_for_rq' = FALSE
    /\ Drive(data_out_r, strobe)
    /\ UNCHANGED <<data_out_r, dbl_r>>

WrIni == Step("wrini", "wr0", FALSE)
Wr0   == Step("wr0", "wr1", TRUE)
Wr1   == Step("wr1", "wr2", TRUE)
Wr2   == Step("wr2", "wrfin", FALSE)

\* Mutant: the request for a double transfer is not withdrawn.
WrFinDouble_Keep ==
    /\ dbl_r
    /\ Goto("wrfin", "wrini")
    /\ ready_for_rq' = FALSE
    /\ data_out_r' = [data_out_r EXCEPT !.half = @ + 1] /\ UNCHANGED dbl_r
    /\ Drive(data_out_r, FALSE)

\* Mutant: the second half is strobed at once.
WrFinDouble_Early ==
    /\ dbl_r
    /\ Goto("wrfin", "wr0")
    /\ ready_for_rq' = FALSE
    /\ data_out_r' = [data_out_r EXCEPT !.half = @ + 1] /\ dbl_r' = FALSE
    /\ Drive(data_out_r, FALSE)

\* The second half follows.
WrFinDouble ==
    /\ dbl_r
    /\ Goto("wrfin", "wrini")
    /\ ready_for_rq' = FALSE
    /\ data_out_r' = [data_out_r EXCEPT !.half = @ + 1] /\ dbl_r' = FALSE
    /\ Drive(data_out_r, FALSE)

WrFin ==
    /\ ~dbl_r
    /\ Goto("wrfin", "iddle")
    /\ ready_for_rq' = TRUE
    /\ Drive(HighZ, FALSE)
    /\ UNCHANGED <<data_out_r, dbl_r>>

Fsm == Iddle \/ IddleRequest \/ WrIni \/ Wr0 \/ Wr1 \/ Wr2 \/ WrFinDouble \/ WrFin

\* The panel takes what is on the bus as the strobe ends.
Panel == shown' = IF ~wr_n /\ wr_n' THEN Append(shown, lcd_data) ELSE shown

-----------------------------------------------------------------------------
Clock == Master /\ Slave /\ Fsm /\ Panel

Spec == Init /\ [][Clock]_vars

\* The clock runs.
FairSpec == Spec /\ WF_vars(Clock)

-----------------------------------------------------------------------------
(* Properties *)

HalfRecords == [n : Nat, dc : Registers, half : Halves]

\* Every variable holds a value of its kind; a transfer has no third half.
TypeOK ==
    /\ aw \in {"none", "valid", "taken"} /\ w \in {"none", "valid", "taken"}
    /\ write \in [reg : Registers, dbl : BOOLEAN] /\ begun \in Nat
    /\ awready \in BOOLEAN /\ wready \in BOOLEAN /\ bvalid \in BOOLEAN
    /\ awaddr \in Registers /\ trasfer_rq \in BOOLEAN /\ trasfer_rq_dbl \in BOOLEAN
    /\ data_out \in [n : Nat, dc : Registers]
    /\ ready_for_rq \in BOOLEAN
    /\ io_state \in {"iddle", "wrini", "wr0", "wr1", "wr2", "wrfin"}
    /\ data_out_r \in HalfRecords /\ dbl_r \in BOOLEAN
    /\ wr_n \in BOOLEAN /\ lcd_data \in HalfRecords
    /\ accepted \in Seq(HalfRecords) /\ shown \in Seq(HalfRecords)

\* What the slave accepted and the panel has not got is in the machine or about to enter
\* it: nothing is lost to a machine that is busy, doubled or reordered.
NothingLost ==
    /\ Len(shown) <= Len(accepted)
    /\ shown = SubSeq(accepted, 1, Len(shown))
    /\ io_state = "iddle" /\ ~trasfer_rq => shown = accepted

\* The strobe frames stable data: the bus holds its value for the clock before the strobe,
\* during it and for the clock after it.
StrobeFramesData == [][~wr_n \/ ~wr_n' => lcd_data' = lcd_data]_vars

\* "axi_wready is asserted for one S_AXI_ACLK clock cycle when both S_AXI_AWVALID and
\* S_AXI_WVALID are asserted": a write that is presented gets its response.
WriteAnswered == Both ~> bvalid

\* It does when the machine is ready as the two channels meet.
AnsweredWhenReady == Both /\ ~awready /\ ~wready /\ ready_for_rq ~> bvalid

\* Every half that was accepted is shown.
AcceptedShown == trasfer_rq ~> shown = accepted
=============================================================================
