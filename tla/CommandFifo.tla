---------------------------- MODULE CommandFifo ----------------------------
(***************************************************************************)
(* What the command queue of the satel client promises: the commands it    *)
(* accepts are sent once each, in the order they were accepted, and at     *)
(* most Capacity of them wait.                                             *)
(***************************************************************************)
EXTENDS Naturals, Sequences

CONSTANTS Cmds, Capacity

VARIABLES
    accepted,   \* every command accepted, in order
    sent        \* every command handed to the socket, in order

Init == accepted = <<>> /\ sent = <<>>

Accept ==
    /\ Len(accepted) - Len(sent) < Capacity
    /\ \E c \in Cmds : accepted' = Append(accepted, c)
    /\ UNCHANGED sent

Send ==
    /\ Len(sent) < Len(accepted)
    /\ sent' = Append(sent, accepted[Len(sent) + 1])
    /\ UNCHANGED accepted

Next == Accept \/ Send

Spec == Init /\ [][Next]_<<accepted, sent>>
=============================================================================
