------------------------------- MODULE RfuLink ------------------------------
(***************************************************************************)
(* The leader (RfuLeader) and the joiner (SimChild) bring up the emulated  *)
(* RFU link.  The Reliable stream below them gives each frame to the other *)
(* end once: the leader receives in order, the joiner takes each frame as  *)
(* it lands, in any order (process_datagram of sim.py).                    *)
(***************************************************************************)
EXTENDS RfuLeader, SimChild, Bags

CONSTANTS
    OutstandingMax,   \* HOST_OUTSTANDING_MAX: parent frames on their way
    PendingMax,       \* bound: replies that wait in the leader's queue
    Cid               \* the joiner's connect_id

ASSUME LinkAssumption == {OutstandingMax, PendingMax} \subseteq Nat \ {0} /\ Cid \in ConnectId

VARIABLES
    downlink,         \* bag of the leader's frames that have not landed
    uplink,           \* the joiner's frames in stream order
    mirrored_at,      \* history: the leader's sub-frames that landed
    echo_owed         \* history: commands received and not mirrored since

history == <<mirrored_at, echo_owed>>
vars == <<leaderVars, childVars, downlink, uplink, history>>

Init ==
    /\ LeaderInit
    /\ ChildInit
    /\ downlink = EmptyBag
    /\ uplink = << >>
    /\ mirrored_at = {}
    /\ echo_owed = {}

-----------------------------------------------------------------------------
(* The leader.                                                             *)

leaderReceive ==
    /\ uplink # << >> /\ Len(pending) < PendingMax
    /\ uplink' = Tail(uplink)
    /\ \E ev \in Event :
          /\ receive(Head(uplink), ev)
          /\ echo_owed' = IF ev = "uni" THEN echo_owed \cup {Head(uplink).cmd} ELSE echo_owed
    /\ UNCHANGED <<childVars, downlink, mirrored_at>>

\* The stream opens with A; a tick without a frame sends nothing.
Emit(frame) ==
    /\ downlink' = downlink (+) SetToBag({frame})
    /\ echo_owed' = IF frame.kind = "uni" THEN echo_owed \ {frame.echo} ELSE echo_owed

leaderTick ==
    /\ BagCardinality(downlink) < OutstandingMax
    /\ \E out \in ParentFrame(Idle) : tick(Idle, out) /\ Emit(out)
    /\ UNCHANGED <<childVars, uplink, mirrored_at>>

-----------------------------------------------------------------------------
(* The joiner.                                                             *)

childReceive(f) ==
    /\ BagIn(f, downlink)
    /\ downlink' = downlink (-) SetToBag({f})
    /\ \/ f.kind = "A" /\ onAccept /\ UNCHANGED mirrored_at
       \/ f.kind = "L" /\ onOther /\ UNCHANGED mirrored_at
       \/ f.kind = "ni" /\ onHostNi(f.at) /\ mirrored_at' = mirrored_at \cup {f.at}
       \/ f.kind = "niack" /\ onHostAck(f.at) /\ UNCHANGED mirrored_at
       \/ f.kind = "uni" /\ onHostUni /\ UNCHANGED mirrored_at
    /\ UNCHANGED <<leaderVars, uplink, echo_owed>>

Queue(frame) ==
    /\ uplink' = Append(uplink, frame)
    /\ UNCHANGED <<leaderVars, downlink, history>>

Opening    == childOpen /\ Queue(Metadata)
Connecting == childConnect /\ Queue(CFrame(Cid))
NextNi(quiet)  == childNiNext(quiet, Len(uplink)) /\ Queue(ChildNI(ni_emitted + 1))
AgainNi(quiet) == childNiAgain(quiet, Len(uplink)) /\ Queue(ChildNI(ni_emitted))
Mirror(quiet)  == childMirror(quiet, Len(uplink)) /\ Queue(ChildAck(cur_ack))
Resend(quiet)  == childResend(quiet, Len(uplink)) /\ Queue(ChildNI(ni_resend))
MirrorAgain    == childMirrorAgain(Len(uplink)) /\ Queue(ChildAck(cur_ack))
UniSlot(quiet, cmd) == childUniSlot(quiet, Len(uplink)) /\ Queue(ChildUni(cmd))

childTick ==
    \/ Opening
    \/ Connecting
    \/ \E quiet \in BOOLEAN : \/ NextNi(quiet)
                               \/ AgainNi(quiet)
                               \/ Mirror(quiet)
                               \/ Resend(quiet)
                               \/ \E cmd \in Command : UniSlot(quiet, cmd)
    \/ MirrorAgain

Next ==
    \/ leaderReceive
    \/ leaderTick
    \/ \E f \in BagToSet(downlink) : childReceive(f)
    \/ childTick

Spec == Init /\ [][Next]_vars

-----------------------------------------------------------------------------
(* Fairness: both ends run a VBlank loop, the stream below loses nothing,   *)
(* and the joiner's counters run out in the end.                            *)

Fairness ==
    /\ WF_vars(leaderReceive)
    /\ WF_vars(leaderTick)
    /\ \A f \in ParentFrame(Idle) : WF_vars(childReceive(f))
    /\ WF_vars(Opening)
    /\ WF_vars(Connecting)
    /\ WF_vars(NextNi(TRUE))
    /\ WF_vars(AgainNi(TRUE))
    /\ WF_vars(Mirror(TRUE))
    /\ WF_vars(\E cmd \in Command : UniSlot(TRUE, cmd))

FairSpec == Spec /\ Fairness

-----------------------------------------------------------------------------
(* Properties.                                                             *)

\* The leader's receiver is handed each sub-frame of the joiner's transfer once
\* and in order: a re-sent sub-frame appended twice would corrupt the game data.
GameDataInOrder == \A i \in 1 .. Len(game_data) : game_data[i] = i

\* Both transfers are stop-and-wait: neither end sends a sub-frame before the
\* other end has the one before it, whatever order the joiner's frames land in.
StopAndWait ==
    /\ \A i \in 1 .. ni_emitted - 1 : i \in seen_child_ni
    /\ \A i \in 1 .. parent_at - 1 : i \in mirrored_at

\* A UNI slot that reaches the leader before its own transfer is over would
\* fault its link manager: the joiner never has one on the way by then.
NoEarlyUni ==
    \A n \in 1 .. Len(uplink) : uplink[n].kind = "uni" => state = "UNI"

\* A command that came in is mirrored back, or still waits for its turn; none
\* is dropped for a newer one.
NoEchoLost == echo_owed \subseteq ToSet(echo_queue)

\* Once the joiner has presented its id both ends reach UNI, although frames
\* reach the joiner in any order and its acks of the leader may come too late.
LinkComesUp == conn_sent ~> (state = "UNI" /\ ni_done)

\* Every command the leader receives is mirrored in the end.
EchoComesBack == \A cmd \in Command : cmd \in echo_owed ~> cmd \notin echo_owed
=============================================================================
