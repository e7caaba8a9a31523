----------------------------- MODULE PacketFifo -----------------------------
(***************************************************************************)
(* What a touchpad driver may rely on when its interrupt routine hands     *)
(* packets to its work loop: a bounded queue of whole packets.  Packets    *)
(* leave in the order in which they were accepted, each one exactly once   *)
(* and with the bytes the device sent.  A packet that meets a full queue   *)
(* is not accepted, which is a stuttering step here.                       *)
(***************************************************************************)
EXTENDS Naturals, Sequences

CONSTANTS
    Packet,     \* the packets a device can send
    Capacity    \* how many packets the queue holds

VARIABLES
    queue,      \* accepted packets that no handler has finished with
    handled     \* the packet whose handling ended last, or << >>

vars == <<queue, handled>>

Init == queue = << >> /\ handled = << >>

(* The interrupt routine accepts a complete packet. *)
Accept(p) ==
    /\ Len(queue) < Capacity
    /\ queue' = Append(queue, p)
    /\ UNCHANGED handled

(* The work loop finishes with the oldest packet. *)
Handle ==
    /\ queue # << >>
    /\ handled' = Head(queue)
    /\ queue' = Tail(queue)

Next == Handle \/ \E p \in Packet : Accept(p)

Spec == Init /\ [][Next]_vars
=============================================================================
