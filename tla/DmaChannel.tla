------------------------------ MODULE DmaChannel ------------------------------
(****************************************************************************)
(* What a DMA channel promises its user: a requested transfer is carried    *)
(* out burst by burst, in address order, and is reported complete when, and *)
(* only when, its last burst has been carried.                              *)
(****************************************************************************)
EXTENDS Integers, Sequences

CONSTANTS MaxLen     \* bound: bursts of a transfer

VARIABLES
    phase,     \* "idle" or "busy"
    size,      \* bursts of the transfer under way
    carried    \* the bursts carried so far, by their position in the transfer

vars == <<phase, size, carried>>

Init == phase = "idle" /\ size = 0 /\ carried = <<>>

Request ==
    /\ phase = "idle"
    /\ phase' = "busy"
    /\ size' \in 1 .. MaxLen
    /\ carried' = <<>>

Carry ==
    /\ phase = "busy"
    /\ Len(carried) < size
    /\ carried' = Append(carried, Len(carried) + 1)
    /\ UNCHANGED <<phase, size>>

Complete ==
    /\ phase = "busy"
    /\ Len(carried) = size
    /\ phase' = "idle"
    /\ UNCHANGED <<size, carried>>

Next == Request \/ Carry \/ Complete

Spec     == Init /\ [][Next]_vars
FairSpec == Spec /\ WF_vars(Carry) /\ WF_vars(Complete)
================================================================================
