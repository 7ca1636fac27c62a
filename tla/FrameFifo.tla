----------------------------- MODULE FrameFifo ------------------------------
(***************************************************************************)
(* What a receive path promises the sockets: the frames that found room in *)
(* a buffer of Capacity frames are delivered exactly once, in the order of *)
(* their arrival, and none stays in the buffer for ever.  Frames are       *)
(* numbered 1, 2, ... as they arrive; a frame that finds no room is none.  *)
(***************************************************************************)
EXTENDS Naturals, Sequences

CONSTANT Capacity  \* a positive number

VARIABLES arrived,    \* number of frames that found room
          delivered   \* the frames the sockets got, in order

vars == <<arrived, delivered>>

Init == arrived = 0 /\ delivered = << >>

Arrive ==
    /\ arrived - Len(delivered) < Capacity
    /\ arrived' = arrived + 1
    /\ UNCHANGED delivered

Deliver ==
    /\ Len(delivered) < arrived
    /\ delivered' = Append(delivered, Len(delivered) + 1)
    /\ UNCHANGED arrived

Next == Arrive \/ Deliver

Spec == Init /\ [][Next]_vars /\ WF_vars(Deliver)
=============================================================================
