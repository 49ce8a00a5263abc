----------------------------- MODULE HostSession ----------------------------
(***************************************************************************)
(* HostSession of pokeldn/frlg/link/host_session.py: it composes the       *)
(* Reliable stream, the RFU leader (RfuLeader) and an activity engine, one *)
(* call of tick per VBlank, and faces a console.                           *)
(*                                                                         *)
(* Of the Reliable stream only what the session reads is kept, frames are  *)
(* their positions in the stream: module Reliable shows that the console's *)
(* frames reach receive_reliable in order and once, and that an ack names  *)
(* frames that arrived.  The engine and the console are external.          *)
(***************************************************************************)
EXTENDS RfuLeader

CONSTANTS
    MaxInflight,      \* max_inflight of the link (128)
    OutstandingMax,   \* HOST_OUTSTANDING_MAX (6)
    Word, CloseLink,  \* what the engine hands out: a word, the READY_CLOSE_LINK poll
    Cid, OtherCid,    \* connect_id of the console, and of a second C
    SentMax,          \* bound: frames of the host
    ConsoleMax        \* bound: frames of the console

ASSUME SessionAssumption ==
    /\ {MaxInflight, OutstandingMax, SentMax, ConsoleMax} \subseteq Nat \ {0}
    /\ {Word, CloseLink} \subseteq Command \ {Idle}
    /\ {Cid, OtherCid} \subseteq ConnectId

NoSeq == 0            \* connect_seq is None; positions start at 1

VARIABLES
    sent,             \* the host's frames, in stream order
    acked,            \* positions the console has acked
    connect_seq,      \* position of C in the console's stream
    connect_ack_sent,
    close_poll_sent,
    disconnect_sent,
    stopped,
    ack_owed,         \* the reliable session owes the console an ack
    \* the engine
    phase,            \* active, closing, requested (disconnect_requested), done
    handed,           \* history: words the engine handed out
    \* the console and the air
    got,              \* positions that reached the console
    air_ack,          \* what the ack on its way says has arrived
    inbox,            \* the console's frames that have not been delivered
    in_count,         \* the console's frames delivered to the session
    acked_in,         \* history: the cumulative ack the host sent last
    said              \* the console's frames, as a set, for what it may send next

linkAckVars == <<connect_seq, connect_ack_sent, ack_owed, in_count, acked_in>>
closeVars   == <<close_poll_sent, disconnect_sent>>
engineVars  == <<phase, handed>>
consoleVars == <<got, air_ack, inbox, said>>
vars == <<leaderVars, sent, acked, stopped, linkAckVars, closeVars, engineVars, consoleVars>>

Init ==
    /\ LeaderInit
    /\ sent = << >> /\ acked = {}
    /\ connect_seq = NoSeq /\ connect_ack_sent = FALSE
    /\ close_poll_sent = FALSE /\ disconnect_sent = FALSE /\ stopped = FALSE
    /\ ack_owed = FALSE /\ in_count = 0 /\ acked_in = 0
    /\ phase = "active" /\ handed = 0
    /\ got = {} /\ air_ack = {} /\ inbox = << >> /\ said = {}

Positions == 1 .. Len(sent)

\* The length of the contiguous run of positions from 1 on.
runOf(S) == CHOOSE n \in 0 .. Cardinality(S) : 1 .. n \subseteq S /\ n + 1 \notin S

local_opened == sent # << >>
inflight     == Len(sent) - runOf(acked)
outstanding  == Cardinality(Positions \ acked)

-----------------------------------------------------------------------------
(* receive_reliable, one delivery at a time.                                *)

receive_reliable ==
    /\ ~stopped /\ inbox # << >>
    /\ inbox' = Tail(inbox)
    /\ in_count' = in_count + 1
    /\ ack_owed' = TRUE
    /\ \E ev \in Event :
          /\ receive(Head(inbox), ev)
          /\ connect_seq' = IF ev = "connect" /\ connect_seq = NoSeq
                            THEN in_count + 1 ELSE connect_seq
          \* feed_child_slot: a close request of the console may end the activity
          /\ \/ UNCHANGED phase
             \/ ev = "uni" /\ phase = "active" /\ phase' = "closing"
    /\ UNCHANGED <<sent, acked, stopped, connect_ack_sent, acked_in, closeVars, handed,
                   got, air_ack, said>>

\* The console's bulk ack.
receiveAck ==
    /\ ~stopped /\ air_ack # {}
    /\ acked' = acked \cup air_ack
    /\ air_ack' = {}
    /\ UNCHANGED <<leaderVars, sent, stopped, linkAckVars, closeVars, engineVars,
                   got, inbox, said>>

-----------------------------------------------------------------------------
(* tick.                                                                   *)

\* Mutant: any ack will do.
coversConnectAny(id) == id > 0

\* Mutant: off by one, the ack must cover the frame after C too.
coversConnectNext(id) == connect_seq # NoSeq /\ id > connect_seq + 1

\* The cumulative ack covers C itself, not merely the frame before it.
coversConnect(id) == connect_seq # NoSeq /\ id > connect_seq

\* reliable.poll: the ack goes out when it is owed and its time has come.
pollAck(now) ==
    /\ now => ack_owed
    /\ ack_owed' = (ack_owed /\ ~now)
    /\ acked_in' = IF now THEN in_count + 1 ELSE acked_in
    /\ connect_ack_sent' = (connect_ack_sent \/ (now /\ coversConnect(in_count + 1)))
    /\ UNCHANGED <<connect_seq, in_count>>

closing == close_poll_sent /\ phase = "requested"

windowFull == inflight >= MaxInflight

\* Mutant: off by one, a frame more than the console's queue takes.
backloggedLate == ~closing /\ outstanding > OutstandingMax

\* The hole guard does not hold the close path.
backlogged == ~closing /\ outstanding >= OutstandingMax

held ==
    /\ windowFull \/ backlogged
    /\ UNCHANGED <<leaderVars, sent, closeVars, engineVars>>

\* Mutant: the flag is forgotten, so D is queued in every VBlank.
markDisconnectNever == UNCHANGED <<disconnect_sent, phase>>

\* Mutant: the engine is told and the session forgets.
markDisconnectLost == UNCHANGED disconnect_sent /\ phase' = "done"

markDisconnect == disconnect_sent' = TRUE /\ phase' = "done"

\* D goes out one VBlank after the final close-link poll.
sendDisconnect ==
    /\ ~windowFull /\ ~backlogged
    /\ closing /\ ~disconnect_sent
    /\ leaderDisconnect
    /\ sent' = Append(sent, DFrame)
    /\ markDisconnect
    /\ UNCHANGED <<close_poll_sent, handed>>

\* Mutant: the engine is ticked before the link is in UNI.
engineTickEarly(words) ==
    /\ words = Word
    /\ handed' = handed + 1
    /\ UNCHANGED phase

\* The engine's tick: words in UNI, None before.  A closing engine polls until
\* its grace period is over, then asks for the disconnect.
engineTick(words) ==
    \/ /\ state = "UNI"
       /\ \/ phase = "active" /\ words = Word /\ UNCHANGED phase
          \/ phase = "closing" /\ words \in {Word, CloseLink} /\ UNCHANGED phase
          \/ /\ phase = "closing" /\ close_poll_sent
             /\ words \in {Word, CloseLink} /\ phase' = "requested"
       /\ handed' = handed + 1
    \/ state # "UNI" /\ words = Idle /\ UNCHANGED engineVars

Emit(frame) == sent' = IF frame = NoFrame THEN sent ELSE Append(sent, frame)

sendFrame ==
    /\ ~windowFull /\ ~backlogged
    /\ ~(closing /\ ~disconnect_sent)
    /\ Len(sent) < SentMax
    /\ \E words \in {Word, CloseLink, Idle} :
          /\ engineTick(words)
          /\ IF ~local_opened /\ ~connect_ack_sent'
             THEN UNCHANGED <<leaderVars, sent, close_poll_sent>>
             ELSE /\ \E out \in ParentFrame(words) \cup {NoFrame} : tick(words, out) /\ Emit(out)
                  /\ close_poll_sent' = (close_poll_sent \/ words = CloseLink)
    /\ UNCHANGED disconnect_sent

hostTick(now) ==
    /\ ~stopped
    /\ pollAck(now)
    /\ held \/ sendDisconnect \/ sendFrame
    /\ UNCHANGED <<acked, stopped, consoleVars>>

on_ldn_leave ==
    /\ ~stopped
    /\ stopped' = TRUE
    /\ leaderDisconnect
    /\ UNCHANGED <<sent, acked, linkAckVars, closeVars, engineVars, consoleVars>>

-----------------------------------------------------------------------------
(* The console: its stream lands a frame at any time and in any order, as   *)
(* the link sends every frame again until it is acked.                      *)

consoleGets(n) ==
    /\ n \in Positions \ got
    /\ got' = got \cup {n}
    /\ UNCHANGED <<leaderVars, sent, acked, stopped, linkAckVars, closeVars, engineVars,
                   air_ack, inbox, said>>

\* An ack replaces the one before it, which is thereby lost.
consoleAcks ==
    /\ got \ acked # {}
    /\ air_ack' = got
    /\ UNCHANGED <<leaderVars, sent, acked, stopped, linkAckVars, closeVars, engineVars,
                   got, inbox, said>>

released == runOf(got)
Seen(frame) == \E n \in 1 .. released : sent[n] = frame
SeenKind(k) == \E n \in 1 .. released : sent[n].kind = k

\* What the console may say next, given what it has said and seen.
maySay(f) ==
    \/ f = Metadata /\ said = {}
    \/ f = CFrame(Cid) /\ Metadata \in said /\ ~SeenKind("A")
    \/ f = CFrame(OtherCid) /\ CFrame(Cid) \in said
    \/ \E i \in 1 .. ChildLast :
          /\ f = ChildNI(i) /\ SeenKind("A")
          /\ i > 1 => Seen(ParentAck(i - 1))
    \/ \E i \in 1 .. ParentLast - 1 : f = ChildAck(i) /\ Seen(ParentNI(i))
    \/ f = KFrame /\ SeenKind("niack")
    \/ f = ChildUni(Idle) /\ (SeenKind("uni") \/ (skip_parent_ni /\ ChildNI(ChildLast) \in said))
    \/ f = DFrame /\ SeenKind("A")

consoleSays(f) ==
    /\ Len(inbox) + in_count < ConsoleMax
    /\ DFrame \notin said /\ ~SeenKind("D")
    /\ maySay(f)
    /\ f \in said => f.kind \in {"C", "ni", "uni"}
    /\ inbox' = Append(inbox, f)
    /\ said' = said \cup {f}
    /\ UNCHANGED <<leaderVars, sent, acked, stopped, linkAckVars, closeVars, engineVars,
                   got, air_ack>>

ConsoleFrame ==
    {Metadata, CFrame(Cid), CFrame(OtherCid), KFrame, DFrame, ChildUni(Idle)}
        \cup {ChildNI(i) : i \in 1 .. ChildLast}
        \cup {ChildAck(i) : i \in 1 .. ParentLast - 1}

Next ==
    \/ receive_reliable
    \/ receiveAck
    \/ \E now \in BOOLEAN : hostTick(now)
    \/ on_ldn_leave
    \/ \E n \in Positions : consoleGets(n)
    \/ consoleAcks
    \/ \E f \in ConsoleFrame : consoleSays(f)

Spec == Init /\ [][Next]_vars

-----------------------------------------------------------------------------
(* Fairness: the VBlank loop runs for ever, an owed ack comes due and what  *)
(* has arrived is read.                                                     *)

LoopFair ==
    /\ WF_vars(hostTick(FALSE))
    /\ WF_vars(ack_owed /\ hostTick(TRUE))
    /\ WF_vars(receive_reliable)

\* The console is there: frames reach it and its acks reach the host.
ConsoleFair ==
    /\ \A n \in 1 .. SentMax + 1 : WF_vars(consoleGets(n))
    /\ WF_vars(consoleAcks)
    /\ SF_vars(receiveAck)

FairSpec == Spec /\ LoopFair /\ ConsoleFair

-----------------------------------------------------------------------------
(* Properties.                                                             *)

\* The stream opens with A, the only one however often C is repeated, and not
\* before an ack that covers C went out: an ack of the frame before C is not
\* enough for the console.
AcceptAfterConnectAck ==
    sent # << >> => /\ \A n \in Positions : sent[n] = AFrame <=> n = 1
                    /\ acked_in > connect_seq /\ connect_seq # NoSeq

\* D is the last frame, there is one, and the close-link poll went out before it.
DisconnectEndsStream ==
    \A n \in Positions : sent[n] = DFrame =>
        /\ n = Len(sent)
        /\ \E m \in 1 .. n - 1 : sent[m].kind = "uni" /\ sent[m].words = CloseLink

\* Every word the engine hands out is sent: none is taken and then dropped
\* because the leader still had a reply to send.
NoWordLost == handed = Cardinality({n \in Positions : sent[n].kind = "uni"
                                                      /\ sent[n].words # Idle})

\* While the console acknowledges, a requested disconnect is sent, however
\* many frames wait behind a hole.
CloseEnds == closing ~> (disconnect_sent \/ stopped)

\* A connected console is accepted, whatever the order of acks and ticks.
ConnectIsAccepted ==
    connect_seq # NoSeq ~> (local_opened \/ state = "DISCONNECTED")

\* host_session.py:151: when a hole closes, the console's game gets at once what
\* waited behind it.  Of these frames at most OutstandingMax have not been acked
\* (D apart, which the guard lets through), and all are within the window.
ReleaseIsGuarded ==
    [][LET release == released + 1 .. released'
       IN  /\ Cardinality(release) <= MaxInflight
           /\ Cardinality({n \in release \ acked : sent[n] # DFrame}) <= OutstandingMax]_vars
=============================================================================
