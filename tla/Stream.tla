------------------------------- MODULE Stream -------------------------------
(***************************************************************************)
(* What the Reliable session promises to the layers above it: each         *)
(* direction is a queue, and the reading application is handed the frames  *)
(* of the other end once each and in the order they were queued.           *)
(***************************************************************************)
EXTENDS Integers, Sequences

CONSTANT Peer

VARIABLES
    sent,        \* number of frames each peer has queued; frame i carries i
    delivered    \* payloads each peer's application was handed

vars == <<sent, delivered>>

other(p) == CHOOSE q \in Peer : q # p

Init ==
    /\ sent = [p \in Peer |-> 0]
    /\ delivered = [p \in Peer |-> << >>]

Put(p) ==
    /\ sent' = [sent EXCEPT ![p] = @ + 1]
    /\ UNCHANGED delivered

\* A run of frames comes through at once when a hole closes.
Get(p) ==
    \E n \in 1 .. sent[other(p)] - Len(delivered[p]) :
       /\ delivered' = [delivered EXCEPT ![p] =
                           @ \o [i \in 1 .. n |-> Len(@) + i - 1]]
       /\ UNCHANGED sent

Next == \E p \in Peer : Put(p) \/ Get(p)

Spec == Init /\ [][Next]_vars
=============================================================================
