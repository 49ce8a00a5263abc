------------------------------ MODULE GiftSession ----------------------------
(***************************************************************************)
(* A Mystery Gift session: the host's engine and the client's, from the    *)
(* first request to the disconnect.  Both are of this repository; either   *)
(* may face a console instead.                                             *)
(*                                                                         *)
(* Below them slots and frames arrive once and in order (modules Reliable  *)
(* and HostSession).                                                       *)
(***************************************************************************)
EXTENDS GiftHost

CONSTANTS
    Sessions,         \* what the host offers, what the console holds and answers
    SilenceLimit,     \* CHILD_SILENCE_LIMIT: ticks the shut window holds a slot back
    OutstandingMax,   \* HOST_OUTSTANDING_MAX: frames of the host that have not landed
    UplinkMax         \* bound: slots of the client that have not landed

ASSUME GiftSessionAssumption ==
    SilenceLimit \in Nat /\ {OutstandingMax, UplinkMax} \subseteq Nat \ {0}

VARIABLES
    host, client,         \* the two engines
    downlink, uplink,     \* what has not landed: frames [own, echo], slots
    turn,                 \* one slot per frame
    silence,              \* ticks since the client's last slot
    stopped               \* the host's loop has ended and its network with it

vars == <<host, client, downlink, uplink, turn, silence, stopped>>

Init ==
    /\ \E s \in Sessions : host = NewHost(s.dist) /\ client = NewClient(s.console)
    /\ downlink = << >> /\ uplink = << >>
    /\ turn = "host" /\ silence = 0 /\ stopped = FALSE

-----------------------------------------------------------------------------
Other(t) == IF t = "host" THEN "client" ELSE "host"

\* D goes one frame after the last close poll, and is the one frame that the hole guard
\* does not hold back.
Closing == host.poll_sent /\ host.disconnect

HostMayTick ==
    /\ turn = "host" \/ client.gone
    /\ ~stopped /\ host.state # "MG_DONE"
    /\ Closing \/ Len(downlink) < OutstandingMax

hostFrame ==
    IF Closing THEN Polled([host EXCEPT !.state = "MG_DONE"], Disconnect) ELSE host_tick(host)

hostTick ==
    /\ HostMayTick
    /\ LET o    == hostFrame
           echo == IF o.h.echo = << >> THEN Idle ELSE Head(o.h.echo)
       IN  /\ host' = [o.h EXCEPT !.echo = IF @ = << >> THEN @ ELSE Tail(@)]
           /\ downlink' = Append(downlink, [own |-> o.word, echo |-> echo])
    /\ turn' = Other(turn)
    /\ UNCHANGED <<client, uplink, silence, stopped>>

\* The client has left the network; the host's clock may stand still behind the hole
\* guard, so its loop does not wait for the session to be done.
hostStop ==
    /\ client.gone /\ ~stopped
    /\ stopped' = TRUE
    /\ UNCHANGED <<host, client, downlink, uplink, turn, silence>>

hostHear ==
    /\ uplink # << >> /\ ~stopped
    /\ host' = feed_child_slot(host, Head(uplink))
    /\ uplink' = Tail(uplink)
    /\ UNCHANGED <<client, downlink, turn, silence, stopped>>

clientHear ==
    /\ downlink # << >> /\ ~client.gone
    /\ LET f == Head(downlink)
       IN  client' = IF f.own = Disconnect THEN [client EXCEPT !.gone = TRUE]
                     ELSE feed_in_frame(client, f)
    /\ downlink' = Tail(downlink)
    /\ UNCHANGED <<host, uplink, turn, silence, stopped>>

ClientMayTick == turn = "client" /\ ~client.gone /\ Len(uplink) < UplinkMax

clientTick(again) ==
    /\ ClientMayTick
    /\ LET o == tick(client, again)
       IN  client' = o.c /\ uplink' = Append(uplink, o.out)
    /\ silence' = 0 /\ turn' = "host"
    /\ UNCHANGED <<host, downlink, stopped>>

\* The window is shut, for so long; poll_send_done only moves the resend of a block.
clientGated ==
    /\ turn = "client" /\ ~client.gone /\ silence < SilenceLimit
    /\ silence' = silence + 1 /\ turn' = "host"
    /\ UNCHANGED <<host, client, downlink, uplink, stopped>>

\* It goes some time after its close has been answered.
clientLeave ==
    /\ client.done /\ client.close_confirmed /\ ~client.gone
    /\ client' = [client EXCEPT !.gone = TRUE]
    /\ UNCHANGED <<host, downlink, uplink, turn, silence, stopped>>

Next ==
    \/ hostTick \/ hostHear \/ hostStop
    \/ clientHear \/ clientGated \/ clientLeave
    \/ \E again \in BOOLEAN : clientTick(again)

Spec == Init /\ [][Next]_vars

\* Frames and slots land and both ends tick.  Each is stated of the variable that only
\* this step changes so.
FairSpec ==
    /\ Spec
    /\ WF_uplink(uplink # << >> /\ ~stopped /\ uplink' = Tail(uplink))
    /\ WF_downlink(downlink # << >> /\ ~client.gone /\ downlink' = Tail(downlink))
    /\ WF_turn(HostMayTick /\ turn' = Other(turn))
    /\ WF_turn(ClientMayTick /\ turn' = "host")
    /\ WF_vars(clientLeave) /\ WF_vars(hostStop)

-----------------------------------------------------------------------------
\* The host's server never meets what it cannot go on from (MysteryGiftServerError,
\* which ends the process), and the client never a message it does not await (natively
\* LinkRfu_FatalError): every script of the one fits the script it has pushed to the other.
NoLinkError == host.server.action # Raised /\ ~client.error

\* "The console silently drops a block that arrives before it consumed the previous one"
\* (inter_block_gap_frames): in spite of the gap of its own sends and of the frames in
\* between, the client has read every block when the next one lands.
OneUnread == Len(client.host_blocks) <= 1

\* Each promise of a session is kept once and in order, and the verdict of the host and
\* the message of the client are those that follow from what the console holds and
\* answers, never earlier than the last part.
Promise ==
    INSTANCE GiftPromise WITH
        session <- [dist |-> host.server.dist, console |-> client.console],
        kept    <- client.kept,
        verdict <- host.server.result,
        told    <- client.result

ImplementsPromise == Promise!Spec

\* "The console's Rfu_LinkClose and post-gift save must finish before the LDN network
\* disappears": the host takes the link down only after the client is done.
NetworkOutlivesGift == (host.disconnect \/ stopped) => client.done

\* Every session comes to its end: the client is done, both have left.
GiftEnds == <>(stopped /\ client.gone /\ client.done)

\* "it never saves unless the verdict is success" (_SCRIPT_BUFFER_SUCCESS): the client
\* ends with the message that saves only if the host has found the payload right.
SavesOnVerdict == client.result = "BUFFER_SUCCESS" => host.server.matched
=============================================================================
