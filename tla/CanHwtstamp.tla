----------------------------- MODULE CanHwtstamp -----------------------------
(***************************************************************************)
(* canhwtstamp (timestamping.c) on top of the driver's time stamps: the    *)
(* program asks the driver for them through an ioctl, binds a raw CAN      *)
(* socket and prints, for every frame it receives, the time stamps that    *)
(* came with it.  It is called with SOF_TIMESTAMPING_RAW_HARDWARE, without *)
(* which there is no hardware time to print.                               *)
(*                                                                         *)
(* The kernel's socket is external: a bounded queue, and a pending error   *)
(* after the interface went down.  The program's wake-ups every five       *)
(* seconds do nothing any more (the frame they used to send is commented   *)
(* out) and are stutters; its setup is one step, since nothing in the      *)
(* driver depends on how far it has come.                                  *)
(***************************************************************************)
EXTENDS XCanTimestamp

CONSTANT SockMax   \* number of frames the socket's queue holds

ASSUME SocketAssumption == SockMax \in Nat \ {0}

VARIABLES
    apc,      \* where main is: "start", "loop", "recv", or "exit"
    opts,     \* its so_timestamping_flags: TX_HARDWARE and RX_HARDWARE
    granted,  \* hwconfig as the ioctl returned it
    queue,    \* the socket's queue: frames with the time stamp the driver gave them
    error,    \* the socket has an error pending
    shown     \* history: the last frame printed

app     == <<apc, opts, granted, queue, error, shown>>
allVars == <<vars, app>>

Options == {"tx", "rx"}
Frame   == [id : Nat, at : Nat, tick : Nat]
Stamped == [id : Nat, tick : Nat, hw : Int]
NoFrame == [id |-> 0, tick |-> 0, hw |-> 0]
Refused == [tx |-> "refused", rx |-> "refused"]

-----------------------------------------------------------------------------
(* xcan_hwtstamp_set: the filters for parts of PTP become HWTSTAMP_FILTER_ALL *)

\* Mutant: transmit time stamps, which the driver cannot take, are granted.
HwtstampSet_Tx(cfg) ==
    IF cfg.rx \notin {"none", "all", "v1_sync"}
    THEN Refused
    ELSE [cfg EXCEPT !.rx = IF @ = "none" THEN @ ELSE "all"]

HwtstampSet(cfg) ==
    IF cfg.tx # "off" \/ cfg.rx \notin {"none", "all", "v1_sync"}
    THEN Refused
    ELSE [cfg EXCEPT !.rx = IF @ = "none" THEN @ ELSE "all"]

-----------------------------------------------------------------------------
(* main and recvpacket *)

\* What is asked of the driver.
Request(o) == [tx |-> IF "tx" \in o THEN "on" ELSE "off",
               rx |-> IF "rx" \in o THEN "v1_sync" ELSE "none"]

\* The options are read, the socket is opened, the driver is asked and the socket is bound.
Setup ==
    /\ apc = "start"
    /\ opts' \in SUBSET Options
    /\ granted' = HwtstampSet(Request(opts'))
    /\ granted' # Refused
    /\ apc' = "loop"
    /\ UNCHANGED <<vars, queue, error, shown>>

\* The driver refuses, another system call fails, or an option is not known: bail or usage.
SetupFails ==
    /\ apc = "start"
    /\ apc' = "exit"
    /\ UNCHANGED <<vars, opts, granted, queue, error, shown>>

\* select returns with the socket readable or in error.
Select ==
    /\ apc = "loop" /\ (queue # << >> \/ error)
    /\ apc' = "recv"
    /\ UNCHANGED <<vars, opts, granted, queue, error, shown>>

\* Mutant: an error ends the program.
RecvError_Bail ==
    /\ apc = "recv" /\ error
    /\ error' = FALSE
    /\ apc' = "exit"
    /\ UNCHANGED <<vars, opts, granted, queue, shown>>

\* recvmsg returns the pending error first; it is printed, no more.
RecvError ==
    /\ apc = "recv" /\ error
    /\ error' = FALSE
    /\ apc' = "loop"
    /\ UNCHANGED <<vars, opts, granted, queue, shown>>

\* Mutant: what is printed is the time at which the frame is received.
RecvFrame_Now ==
    /\ apc = "recv" /\ ~error
    /\ queue' = Tail(queue)
    /\ shown' = [Head(queue) EXCEPT !.hw = now]
    /\ apc' = "loop"
    /\ UNCHANGED <<vars, opts, granted, error>>

\* One frame is received and printed.
RecvFrame ==
    /\ apc = "recv" /\ ~error
    /\ queue' = Tail(queue)
    /\ shown' = Head(queue)
    /\ apc' = "loop"
    /\ UNCHANGED <<vars, opts, granted, error>>

Reader == Select \/ RecvError \/ RecvFrame

-----------------------------------------------------------------------------
(* The driver and the socket: netif_receive_skb, and the interface going   *)
(* down                                                                    *)

Bound == apc \in {"loop", "recv"}

\* Mutant: the socket's queue has no limit.
Deliver_NoLimit(f) ==
    /\ queue' = IF Bound THEN Append(queue, [id |-> f.id, tick |-> f.tick, hw |-> Stamp(f)])
                         ELSE queue
    /\ UNCHANGED <<apc, opts, granted, error, shown>>

\* A frame goes to the socket with its time stamp, if there is room for it.
Deliver(f) ==
    /\ queue' = IF Bound /\ Len(queue) < SockMax
                THEN Append(queue, [id |-> f.id, tick |-> f.tick, hw |-> Stamp(f)])
                ELSE queue
    /\ UNCHANGED <<apc, opts, granted, error, shown>>

Receive(f) == Rx(f) /\ Deliver(f)

ReceiveNothing(ts) == RxNothing(ts) /\ Deliver([id |-> arrived + 1, tick |-> ts])

Down ==
    /\ Close
    /\ error' = Bound
    /\ UNCHANGED <<apc, opts, granted, queue, shown>>

Driver == \/ \E f \in {fifo[i] : i \in DOMAIN fifo} : Receive(f)
          \/ \E ts \in 0..(Period - 1) : ReceiveNothing(ts)

-----------------------------------------------------------------------------
AppInit == /\ Init
           /\ apc = "start" /\ opts = {} /\ granted = Refused
           /\ queue = << >> /\ error = FALSE /\ shown = NoFrame

AppNext == \/ (Elapse \/ HwReceive \/ Reset \/ Open) /\ UNCHANGED app
           \/ Driver \/ Down
           \/ Setup \/ SetupFails \/ Reader

\* The program goes on once it has been set up.
AppSpec == AppInit /\ [][AppNext]_allVars /\ WF_allVars(Reader)

-----------------------------------------------------------------------------
(* Properties *)

\* Every variable holds a value of its kind.
TypeOK ==
    /\ now \in Nat /\ freq \in Freqs /\ running \in BOOLEAN /\ clocked \in 0..now
    /\ fifo \in Seq(Frame) /\ Len(fifo) =< RxDepth
    /\ arrived \in Nat /\ stops \in Nat
    /\ ref \in [ktime : Nat, ts : 0..(Period - 1)] /\ refTick \in Nat
    /\ slow \in BOOLEAN /\ cut \in BOOLEAN /\ stale \in BOOLEAN
    /\ apc \in {"start", "loop", "recv", "exit"} /\ opts \subseteq Options
    /\ granted \in [tx : {"off", "refused"}, rx : {"none", "all", "refused"}]
    /\ queue \in Seq(Stamped) /\ Len(queue) =< SockMax
    /\ error \in BOOLEAN
    /\ shown \in Stamped

\* Whatever the latencies, the drift, the stops and the resets, a frame that is read now is
\* given a time within half a period of now.
StampNearNow == running /\ fifo # << >> => NearNow(Stamp(Head(fifo)))

\* The hardware time that is printed for a frame counts from the reference as the core did,
\* when the frequency divides 10^9, unless a frame has waited too long in the FIFO, the
\* interface was closed or the core reset after the reference had been taken, or the poll has
\* read a frame from a FIFO that a reset had emptied.
ShownExact ==
    shown # NoFrame /\ NsPerSec % freq = 0 /\ ~slow /\ ~cut
        => Exact(shown.hw, shown.tick)

\* Frames are printed in the order in which they came in, those that were read from an emptied
\* FIFO among them, and each of them once.
ShownInOrder == [][RecvFrame => shown'.id > shown.id]_allVars

\* Whoever asked for time stamps of received frames has them granted, or the program has ended;
\* nobody is granted those of sent frames.
GrantedOrExit ==
    Bound => /\ granted.tx = "off" /\ "tx" \notin opts
             /\ "rx" \in opts => granted.rx = "all"

\* A frame in the socket's queue is printed.
FramesShown == \A n \in 1..MaxFrames :
    (\E i \in DOMAIN queue : queue[i].id = n) ~> shown.id >= n
=============================================================================
