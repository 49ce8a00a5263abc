------------------------------ MODULE RfuFrames -----------------------------
(***************************************************************************)
(* The frames of the emulated RFU link (pokeldn/gba/gbaframe.py, ni.py).   *)
(*                                                                         *)
(* An NI transfer is a fixed sequence of sub-frames, so a sub-frame (its   *)
(* state, n and phase) is its position in the transfer, 1, 2, ..., and the *)
(* last position is the terminal NULL that nobody acknowledges.  Commands  *)
(* are members of a set; timestamps are left out, as nothing reads them.   *)
(***************************************************************************)
EXTENDS Naturals, Sequences, FiniteSets

CONSTANTS
    ConnectId,        \* connection ids a child may present
    Command,          \* commands of a child or parent slot
    Idle,             \* the all-zero command
    ChildLast,        \* sub-frames of the child's transfer (START, 3 x NI, END, NULL: 6)
    ParentLast        \* sub-frames of the parent's transfer (2 x START, NI, END, NULL: 5)

ASSUME FrameAssumption ==
    /\ Idle \in Command
    /\ {ChildLast, ParentLast} \subseteq Nat \ {0, 1}

\* Frames of the child.
CFrame(cid)   == [kind |-> "C", cid |-> cid]
ChildNI(i)    == [kind |-> "ni", at |-> i]
ChildAck(i)   == [kind |-> "niack", at |-> i]
ChildUni(cmd) == [kind |-> "uni", cmd |-> cmd]
KFrame        == [kind |-> "K"]
DFrame        == [kind |-> "D"]
Metadata      == [kind |-> "metadata"]

\* Frames of the parent.
AFrame            == [kind |-> "A"]
LinkState(n)      == [kind |-> "L", n |-> n]
ParentNI(i)       == [kind |-> "ni", at |-> i]
ParentAck(i)      == [kind |-> "niack", at |-> i]
ParentUni(w, row) == [kind |-> "uni", words |-> w, echo |-> row]
NoFrame           == [kind |-> "none"]

ParentFrame(words) ==
    {AFrame, LinkState(0), LinkState(1)}
        \cup {ParentNI(i) : i \in 1 .. ParentLast}
        \cup {ParentAck(i) : i \in 1 .. ChildLast - 1}
        \cup {ParentUni(words, row) : row \in Command}
=============================================================================
