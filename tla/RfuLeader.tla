------------------------------ MODULE RfuLeader -----------------------------
(***************************************************************************)
(* The leader (parent) side of the emulated RFU link, RFULeader and        *)
(* ChildEcho of pokeldn/gba/rfu_leader.py.  The module holds the leader's  *)
(* state and its two entry points, receive and tick; HostSession and       *)
(* RfuLink supply the child and the transport.                             *)
(***************************************************************************)
EXTENDS RfuFrames, SequencesExt

CONSTANTS
    SkipModes,        \* values of skip_parent_ni: a Union Room child has it set
    KeepaliveFrames,  \* keepalive_frames
    EchoMax           \* ECHO_MAX (64)

ASSUME LeaderAssumption ==
    /\ SkipModes \subseteq BOOLEAN /\ SkipModes # {}
    /\ KeepaliveFrames \in Nat
    /\ EchoMax \in Nat \ {0}

NoId == "none"        \* connect_id is None

ASSUME NoIdAssumption == NoId \notin ConnectId

VARIABLES
    skip_parent_ni,   \* a parameter of the leader, chosen at the start
    state,            \* WAIT_CONNECT, CHILD_NI, PARENT_NI, KEEPALIVE, UNI, DISCONNECTED
    connect_id,
    pending,          \* _pending: frames queued for tick
    seen_child_ni,    \* _seen_child_ni
    game_data,        \* sub-frames handed to the ParentNIReceiver, in order
    parent_at,        \* the parent's sub-frame emitted last, 0 before the first
    parent_waiting,   \* _parent_waiting is not None
    keepalive_left,
    echo_queue,       \* ChildEcho._queue
    echo_row,         \* ChildEcho.cmd
    echo_dropped      \* ChildEcho.dropped > 0

leaderVars == <<skip_parent_ni, state, connect_id, pending, seen_child_ni, game_data,
                parent_at, parent_waiting, keepalive_left, echo_queue, echo_row, echo_dropped>>
linkVars   == <<connect_id, seen_child_ni, game_data, keepalive_left>>
niVars     == <<skip_parent_ni, parent_at, parent_waiting>>
echoVars   == <<echo_queue, echo_row, echo_dropped>>

LeaderInit ==
    /\ skip_parent_ni \in SkipModes
    /\ state = "WAIT_CONNECT"
    /\ connect_id = NoId
    /\ pending = << >>
    /\ seen_child_ni = {}
    /\ game_data = << >>
    /\ parent_at = 0
    /\ parent_waiting = FALSE
    /\ keepalive_left = 0
    /\ echo_queue = << >>
    /\ echo_row = Idle
    /\ echo_dropped = FALSE

connected == connect_id # NoId /\ state # "DISCONNECTED"

-----------------------------------------------------------------------------
(* receive: one disjunct per kind of frame; ev is the event it returns.     *)

connect(f, ev) ==
    /\ f.kind = "C" /\ connect_id = NoId
    /\ ev = "connect"
    /\ connect_id' = f.cid
    /\ state' = "CHILD_NI"
    /\ pending' = pending \o <<AFrame, LinkState(0)>>
    /\ UNCHANGED <<seen_child_ni, game_data, keepalive_left, niVars, echoVars>>

\* The child repeats C in every VBlank until it sees A.
connectAgain(f, ev) ==
    /\ f.kind = "C" /\ connect_id # NoId
    /\ ev = IF f.cid = connect_id /\ state # "DISCONNECTED"
            THEN "connect_duplicate" ELSE "connect_rejected"
    /\ UNCHANGED leaderVars

childDisconnect(f, ev) ==
    /\ f.kind = "D"
    /\ ev = "disconnect"
    /\ state' = "DISCONNECTED"
    /\ pending' = << >>
    /\ UNCHANGED <<linkVars, niVars, echoVars>>

parentNiAck(f, ev) ==
    /\ f.kind = "niack" /\ connected
    /\ state = "PARENT_NI" /\ parent_waiting /\ f.at = parent_at
    /\ ev = "parent_ni_ack"
    /\ parent_waiting' = FALSE
    /\ UNCHANGED <<state, pending, skip_parent_ni, parent_at, linkVars, echoVars>>

\* K, the title metadata and everything that is out of turn change nothing.
ignored(f, ev) ==
    /\ \/ f.kind = "K" /\ ev = "k_ack"
       \/ f.kind = "metadata" /\ ev = "none"
       \/ f.kind \in {"niack", "ni", "uni"} /\ ~connected /\ ev = "none"
       \/ /\ f.kind = "niack" /\ connected
          /\ ~(state = "PARENT_NI" /\ parent_waiting /\ f.at = parent_at)
          /\ ev = "ni_ack_ignored"
       \/ /\ f.kind = "ni" /\ connected
          /\ state \notin {"CHILD_NI", "PARENT_NI"}
          /\ ev = "ni_out_of_phase"
       \/ f.kind = "uni" /\ connected /\ state # "UNI" /\ ev = "uni_early"
    /\ UNCHANGED leaderVars

\* Mutant: off by one, the END is not acknowledged either.
acksOfBeforeEnd(i) == IF i >= ChildLast - 1 THEN << >> ELSE <<ParentAck(i)>>

\* The terminal NULL is not acknowledged.
acksOf(i) == IF i = ChildLast THEN << >> ELSE <<ParentAck(i)>>

\* Mutant: a repeated sub-frame is appended again.
childNiRepeatAppended(f, ev) ==
    /\ f.kind = "ni" /\ connected
    /\ state \in {"CHILD_NI", "PARENT_NI"}
    /\ f.at \in seen_child_ni
    /\ ev = "child_ni_duplicate"
    /\ pending' = pending \o acksOf(f.at)
    /\ game_data' = Append(game_data, f.at)
    /\ UNCHANGED <<state, connect_id, seen_child_ni, keepalive_left, niVars, echoVars>>

\* A repeated sub-frame is acknowledged again and not appended.
childNiRepeat(f, ev) ==
    /\ f.kind = "ni" /\ connected
    /\ state \in {"CHILD_NI", "PARENT_NI"}
    /\ f.at \in seen_child_ni
    /\ ev = "child_ni_duplicate"
    /\ pending' = pending \o acksOf(f.at)
    /\ UNCHANGED <<state, niVars, linkVars, echoVars>>

\* The child's NULL hands over to the parent's transfer, or skips it.
childNi(f, ev) ==
    /\ f.kind = "ni" /\ connected
    /\ state \in {"CHILD_NI", "PARENT_NI"}
    /\ f.at \notin seen_child_ni
    /\ seen_child_ni' = seen_child_ni \cup {f.at}
    /\ game_data' = Append(game_data, f.at)
    /\ IF f.at = ChildLast /\ state = "CHILD_NI"
       THEN /\ pending' = Append(pending, LinkState(1))
            /\ state' = IF ~skip_parent_ni THEN "PARENT_NI"
                        ELSE IF KeepaliveFrames > 0 THEN "KEEPALIVE" ELSE "UNI"
            /\ keepalive_left' = IF skip_parent_ni THEN KeepaliveFrames ELSE keepalive_left
            /\ ev = "child_ni_complete"
       ELSE /\ pending' = pending \o acksOf(f.at)
            /\ ev = "child_ni"
            /\ UNCHANGED <<state, keepalive_left>>
    /\ UNCHANGED <<connect_id, niVars, echoVars>>

\* Mutant: the older policy, keep the newest two commands and drop the rest.
echoAppendNewestTwo(cmd) ==
    LET longer == Append(echo_queue, cmd)
    IN  /\ echo_queue' = IF Len(longer) > 2 THEN Tail(longer) ELSE longer
        /\ echo_dropped' = (echo_dropped \/ Len(longer) > 2)

\* ChildEcho.append: a command already waiting is folded into its entry.
echoAppend(cmd) ==
    LET longer == IF Contains(echo_queue, cmd) THEN echo_queue ELSE Append(echo_queue, cmd)
    IN  /\ echo_queue' = IF Len(longer) > EchoMax THEN Tail(longer) ELSE longer
        /\ echo_dropped' = (echo_dropped \/ Len(longer) > EchoMax)

childUni(f, ev) ==
    /\ f.kind = "uni" /\ connected /\ state = "UNI"
    /\ ev = "uni"
    /\ echoAppend(f.cmd)
    /\ UNCHANGED <<state, pending, echo_row, linkVars, niVars>>

receive(f, ev) ==
    \/ connect(f, ev)
    \/ connectAgain(f, ev)
    \/ childDisconnect(f, ev)
    \/ parentNiAck(f, ev)
    \/ ignored(f, ev)
    \/ childNiRepeat(f, ev)
    \/ childNi(f, ev)
    \/ childUni(f, ev)

Event == {"connect", "connect_duplicate", "connect_rejected", "disconnect",
          "parent_ni_ack", "k_ack", "none", "ni_ack_ignored", "ni_out_of_phase",
          "uni_early", "child_ni_duplicate", "child_ni_complete", "child_ni", "uni"}

-----------------------------------------------------------------------------
(* tick: one disjunct per kind of frame it returns; out is the frame.       *)

flushPending(out) ==
    /\ pending # << >>
    /\ out = Head(pending)
    /\ pending' = Tail(pending)
    /\ UNCHANGED <<state, linkVars, niVars, echoVars>>

\* keepalive_frames: the first parent sub-frame, presented again and again.
keepAlive(out) ==
    /\ pending = << >> /\ state = "KEEPALIVE" /\ keepalive_left > 0
    /\ out = ParentNI(1)
    /\ keepalive_left' = keepalive_left - 1
    /\ UNCHANGED <<state, connect_id, pending, seen_child_ni, game_data, niVars, echoVars>>

\* The current sub-frame is presented in every VBlank until the child mirrors it.
parentNiRepeat(out) ==
    /\ pending = << >> /\ state = "PARENT_NI" /\ parent_waiting
    /\ out = ParentNI(parent_at)
    /\ UNCHANGED leaderVars

\* Mutant: the next sub-frame does not wait for the child's mirror.
mirroredNever(i) == FALSE

\* The child mirrors every sub-frame but the terminal NULL.
mirrored(i) == i # ParentLast

parentNiNext(out) ==
    /\ pending = << >> /\ state = "PARENT_NI" /\ ~parent_waiting
    /\ out = ParentNI(parent_at + 1)
    /\ parent_at' = parent_at + 1
    /\ parent_waiting' = mirrored(parent_at + 1)
    /\ state' = IF parent_at + 1 = ParentLast THEN "UNI" ELSE state
    /\ UNCHANGED <<pending, skip_parent_ni, linkVars, echoVars>>

\* Mutant: the row published is the one before.
nextRowStale == echo_row

\* ChildEcho.next_row: with nothing queued the last row stands.
nextRow == IF echo_queue = << >> THEN echo_row ELSE Head(echo_queue)

parentUni(words, out) ==
    /\ pending = << >>
    /\ state = "UNI" \/ (state = "KEEPALIVE" /\ keepalive_left = 0)
    /\ out = ParentUni(words, nextRow)
    /\ echo_row' = nextRow
    /\ echo_queue' = IF echo_queue = << >> THEN echo_queue ELSE Tail(echo_queue)
    /\ state' = "UNI"
    /\ UNCHANGED <<pending, echo_dropped, linkVars, niVars>>

tickSilent(out) ==
    /\ pending = << >>
    /\ state \in {"WAIT_CONNECT", "CHILD_NI", "DISCONNECTED"}
    /\ out = NoFrame
    /\ UNCHANGED leaderVars

tick(words, out) ==
    \/ flushPending(out)
    \/ keepAlive(out)
    \/ parentNiRepeat(out)
    \/ parentNiNext(out)
    \/ parentUni(words, out)
    \/ tickSilent(out)

\* disconnect_frame after a child has connected, and on_ldn_leave.
leaderDisconnect ==
    /\ state' = "DISCONNECTED"
    /\ pending' = << >>
    /\ UNCHANGED <<linkVars, niVars, echoVars>>
=============================================================================
