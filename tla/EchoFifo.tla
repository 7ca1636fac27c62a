------------------------------ MODULE EchoFifo ------------------------------
(***************************************************************************)
(* What a CAN driver promises the socket layer about transmission: frames  *)
(* are numbered 1, 2, ... in the order they are accepted, at most Capacity *)
(* of them are in flight, and each is looped back to the local sockets     *)
(* exactly once, in that order, and only after the bus has carried it.     *)
(* XCanTx is shown to implement this specification for the hardware and    *)
(* scheduling its code was written for.                                    *)
(***************************************************************************)
EXTENDS Naturals, Sequences

CONSTANT Capacity  \* a positive number

VARIABLES accepted,     \* number of frames the driver has taken
          transmitted,  \* number of them the bus has carried
          looped        \* the frames looped back, in order

vars == <<accepted, transmitted, looped>>

Init == accepted = 0 /\ transmitted = 0 /\ looped = << >>

Accept ==
    /\ accepted - Len(looped) < Capacity
    /\ accepted' = accepted + 1
    /\ UNCHANGED <<transmitted, looped>>

Transmit ==
    /\ transmitted < accepted
    /\ transmitted' = transmitted + 1
    /\ UNCHANGED <<accepted, looped>>

Loop ==
    /\ Len(looped) < transmitted
    /\ looped' = Append(looped, Len(looped) + 1)
    /\ UNCHANGED <<accepted, transmitted>>

Next == Accept \/ Transmit \/ Loop

Spec == Init /\ [][Next]_vars /\ WF_vars(Transmit) /\ WF_vars(Loop)
=============================================================================
