---------------------------- MODULE RfuLinkProofs ---------------------------
(***************************************************************************)
(* The bring-up of the link is safe for every length of the two transfers, *)
(* every number of frames on their way and any order they land in.         *)
(*                                                                         *)
(* What may be in the queues depends on how far the link has come: each    *)
(* kind of frame stands for something that has happened at its sender.     *)
(***************************************************************************)
EXTENDS RfuLink, TLAPS, SequenceTheorems, FunctionTheorems, FiniteSetTheorems

\* The set S if the condition holds, no member otherwise.
When(cond, S) == {x \in S : cond}

\* The joiner's frames: sub-frames it has emitted, mirrors of sub-frames that
\* landed, and UNI slots once the leader is in UNI.
UpFrame ==
    {Metadata, CFrame(Cid)}
        \cup {ChildNI(i) : i \in 1 .. ni_emitted}
        \cup {ChildAck(i) : i \in mirrored_at}
        \cup {ChildUni(cmd) : cmd \in When(state = "UNI", Command)}

\* The leader's replies: acks of sub-frames it has.
QueueFrame == {AFrame, LinkState(0), LinkState(1)} \cup {ParentAck(i) : i \in seen_child_ni}

DownFrame ==
    QueueFrame \cup {ParentNI(i) : i \in Nat \ {0}}
        \cup {ParentUni(Idle, row) : row \in When(state = "UNI", Command)}

FramesInv ==
    /\ uplink \in Seq(UpFrame)
    /\ pending \in Seq(QueueFrame)
    /\ DOMAIN downlink \subseteq DownFrame

\* The joiner's transfer: at most one sub-frame is out that the leader lacks.
ChildInv ==
    /\ game_data \in Seq(Nat)
    /\ GameDataInOrder
    /\ seen_child_ni = 1 .. Len(game_data)
    /\ ni_emitted \in Len(game_data) .. Len(game_data) + 1
    /\ ack_key \in seen_child_ni \cup {Nothing}
    /\ ni_resend \in 0 .. ni_emitted

\* The leader's transfer: it has not begun in CHILD_NI, and the leader waits
\* unless the sub-frame it sent last has landed.
ParentInv ==
    /\ state \in {"WAIT_CONNECT", "CHILD_NI", "PARENT_NI", "KEEPALIVE", "UNI"}
    /\ connect_id = NoId => state = "WAIT_CONNECT"
    /\ parent_at \in Nat /\ mirrored_at \subseteq Nat \ {0}
    /\ state \in {"WAIT_CONNECT", "CHILD_NI"} => parent_at = 0
    /\ 1 .. parent_at - 1 \subseteq mirrored_at
    /\ state = "PARENT_NI" /\ ~parent_waiting => 1 .. parent_at \subseteq mirrored_at
    /\ cur_ack \in mirrored_at \cup {Nothing}

UniInv ==
    /\ uni_seen => state = "UNI"
    /\ ni_done => uni_seen

LinkInv == FramesInv /\ ChildInv /\ ParentInv /\ UniInv

\* A command waits in the queue once.
EchoInv ==
    /\ echo_queue \in Seq(Command)
    /\ \A i, j \in 1 .. Len(echo_queue) : echo_queue[i] = echo_queue[j] => i = j

-----------------------------------------------------------------------------
(* The queues.                                                             *)

LEMMA SeqMono ==
    ASSUME NEW S, NEW T, S \subseteq T, NEW s \in Seq(S)
    PROVE  s \in Seq(T)
<1>1. s \in [1 .. Len(s) -> S] /\ Len(s) \in Nat
  BY LenProperties
<1> QED
  BY <1>1, IsASeq

LEMMA UpKinds ==
    ASSUME NEW f \in UpFrame
    PROVE  /\ f.kind \in {"metadata", "C", "ni", "niack", "uni"}
           /\ f.kind = "C" => f.cid = Cid
           /\ f.kind = "ni" => f.at \in 1 .. ni_emitted
           /\ f.kind = "niack" => f.at \in mirrored_at
           /\ f.kind = "uni" => state = "UNI" /\ f.cmd \in Command
BY DEF UpFrame, When, Metadata, CFrame, ChildNI, ChildAck, ChildUni

LEMMA DownKinds ==
    ASSUME NEW f \in DownFrame
    PROVE  /\ f.kind = "ni" => f.at \in Nat \ {0}
           /\ f.kind = "niack" => f.at \in seen_child_ni
           /\ f.kind = "uni" => state = "UNI"
BY DEF DownFrame, QueueFrame, When, AFrame, LinkState, ParentAck, ParentNI, ParentUni

\* As the link comes up more may be in the queues, never less.
LEMMA FramesGrow ==
    ASSUME ni_emitted \in Nat, ni_emitted' \in Nat, ni_emitted <= ni_emitted',
           mirrored_at \subseteq mirrored_at', seen_child_ni \subseteq seen_child_ni',
           state = "UNI" => state' = "UNI"
    PROVE  UpFrame \subseteq UpFrame' /\ QueueFrame \subseteq QueueFrame'
               /\ DownFrame \subseteq DownFrame'
<1>1. 1 .. ni_emitted \subseteq 1 .. ni_emitted'
  OBVIOUS
<1>2. UpFrame \subseteq UpFrame'
  BY <1>1 DEF UpFrame, When
<1>3. QueueFrame \subseteq QueueFrame'
  BY DEF QueueFrame
<1>4. DownFrame \subseteq DownFrame'
  BY <1>3 DEF DownFrame, When
<1> QED
  BY <1>2, <1>3, <1>4

\* What is in the bag after a frame is put in, or taken out.
LEMMA BagPut ==
    ASSUME NEW B, NEW f
    PROVE  DOMAIN (B (+) SetToBag({f})) \subseteq DOMAIN B \cup {f}
BY DEF (+), SetToBag

LEMMA BagTake ==
    ASSUME NEW B, NEW f
    PROVE  DOMAIN (B (-) SetToBag({f})) \subseteq DOMAIN B
BY DEF (-), SetToBag

-----------------------------------------------------------------------------
(* The invariant, action by action.                                         *)

LEMMA InitLink == Init => LinkInv /\ EchoInv
<1> SUFFICES ASSUME Init PROVE LinkInv /\ EchoInv
  OBVIOUS
<1>1. FramesInv
  BY DEF Init, LeaderInit, FramesInv, EmptyBag, SetToBag
<1>2. ChildInv
  BY DEF Init, LeaderInit, ChildInit, ChildInv, GameDataInOrder, Nothing
<1>3. ParentInv /\ UniInv
  BY DEF Init, LeaderInit, ChildInit, ParentInv, UniInv, Nothing
<1>4. EchoInv
  BY FrameAssumption DEF Init, LeaderInit, EchoInv
<1> QED
  BY <1>1, <1>2, <1>3, <1>4 DEF LinkInv

LEMMA Numbers ==
    ASSUME ChildInv
    PROVE  /\ Len(game_data) \in Nat /\ ni_emitted \in Nat /\ seen_child_ni \subseteq Nat \ {0}
           /\ ack_key \in Nat /\ ni_resend \in Nat
           /\ seen_child_ni \subseteq 1 .. ni_emitted
BY LenProperties DEF ChildInv, Nothing

\* The queue after a reply.
LEMMA ReplyQueued ==
    ASSUME pending \in Seq(QueueFrame), QueueFrame \subseteq QueueFrame',
           \/ pending' = pending
           \/ \E i \in seen_child_ni' : pending' = pending \o acksOf(i)
           \/ pending' = Append(pending, LinkState(1))
           \/ pending' = pending \o <<AFrame, LinkState(0)>>
    PROVE  pending' \in Seq(QueueFrame')
<1>1. pending \in Seq(QueueFrame')
  BY SeqMono
<1>2. /\ AFrame \in QueueFrame' /\ LinkState(0) \in QueueFrame' /\ LinkState(1) \in QueueFrame'
      /\ \A i \in seen_child_ni' : ParentAck(i) \in QueueFrame'
  BY DEF QueueFrame
<1> DEFINE Q == QueueFrame'
<1>3. /\ pending \in Seq(Q) /\ AFrame \in Q /\ LinkState(0) \in Q /\ LinkState(1) \in Q
      /\ \A i \in seen_child_ni' : ParentAck(i) \in Q
  BY <1>1, <1>2
<1> HIDE DEF Q
<1>4. \A i \in seen_child_ni' : acksOf(i) \in Seq(Q)
  BY <1>3 DEF acksOf
<1>5. <<AFrame, LinkState(0)>> \in Seq(Q)
  BY <1>3
<1>6. pending' \in Seq(Q)
  <2>1. ASSUME NEW i \in seen_child_ni', pending' = pending \o acksOf(i)
        PROVE  pending' \in Seq(Q)
    BY <1>3, <1>4, <2>1, ConcatProperties
  <2>2. ASSUME pending' = pending \o <<AFrame, LinkState(0)>> PROVE pending' \in Seq(Q)
    BY <1>3, <1>5, <2>2, ConcatProperties
  <2>3. ASSUME pending' = Append(pending, LinkState(1)) PROVE pending' \in Seq(Q)
    BY <1>3, <2>3, AppendProperties
  <2> QED
    BY <1>3, <2>1, <2>2, <2>3
<1> QED
  BY <1>6 DEF Q

\* What one frame of the joiner does to the leader.
LEMMA ReceiveEffect ==
    ASSUME LinkInv, NEW f \in UpFrame, NEW ev, receive(f, ev)
    PROVE  /\ parent_at' = parent_at
           /\ \/ pending' = pending
              \/ \E i \in seen_child_ni' : pending' = pending \o acksOf(i)
              \/ pending' = Append(pending, LinkState(1))
              \/ pending' = pending \o <<AFrame, LinkState(0)>>
           /\ \/ UNCHANGED <<game_data, seen_child_ni>>
              \/ /\ f.kind = "ni" /\ f.at \notin seen_child_ni
                 /\ game_data' = Append(game_data, f.at)
                 /\ seen_child_ni' = seen_child_ni \cup {f.at}
           /\ \/ UNCHANGED <<state, connect_id, parent_waiting>>
              \/ /\ state = "WAIT_CONNECT" /\ state' = "CHILD_NI" /\ connect_id' # NoId
              \/ /\ state = "CHILD_NI" /\ state' \in {"PARENT_NI", "KEEPALIVE", "UNI"}
                 /\ connect_id' # NoId
              \/ /\ f.kind = "niack" /\ f.at = parent_at
                 /\ UNCHANGED <<state, connect_id>>
<1>1. CASE connect(f, ev)
  BY <1>1, UpKinds, LinkAssumption, NoIdAssumption
  DEF connect, niVars, LinkInv, ParentInv
<1>2. CASE connectAgain(f, ev) \/ ignored(f, ev)
  BY <1>2 DEF connectAgain, ignored, leaderVars
<1>3. CASE childDisconnect(f, ev)
  BY <1>3, UpKinds DEF childDisconnect
<1>4. CASE parentNiAck(f, ev)
  BY <1>4 DEF parentNiAck, linkVars
<1>5. CASE childUni(f, ev)
  BY <1>5 DEF childUni, linkVars, niVars
<1>6. CASE childNiRepeat(f, ev)
  BY <1>6 DEF childNiRepeat, linkVars, niVars
<1>7. CASE childNi(f, ev)
  <2>1. /\ f.kind = "ni" /\ connect_id # NoId /\ parent_at' = parent_at
        /\ f.at \notin seen_child_ni
        /\ game_data' = Append(game_data, f.at)
        /\ seen_child_ni' = seen_child_ni \cup {f.at}
        /\ connect_id' = connect_id /\ parent_waiting' = parent_waiting
    BY <1>7 DEF childNi, connected, niVars
  <2>2. CASE f.at = ChildLast /\ state = "CHILD_NI"
    BY <1>7, <2>1, <2>2 DEF childNi
  <2>3. CASE ~(f.at = ChildLast /\ state = "CHILD_NI")
    BY <1>7, <2>1, <2>3 DEF childNi
  <2> QED
    BY <2>1, <2>2, <2>3
<1> QED
  BY <1>1, <1>2, <1>3, <1>4, <1>5, <1>6, <1>7 DEF receive

\* A sub-frame the leader has not seen is the next one.
LEMMA NextSubFrame ==
    ASSUME ChildInv, NEW i \in 1 .. ni_emitted, i \notin seen_child_ni,
           game_data' = Append(game_data, i), seen_child_ni' = seen_child_ni \cup {i},
           UNCHANGED <<ni_emitted, ack_key, ni_resend>>
    PROVE  ChildInv' /\ seen_child_ni \subseteq seen_child_ni'
<1>1. Len(game_data) \in Nat /\ ni_emitted \in Nat /\ i = Len(game_data) + 1
  BY Numbers DEF ChildInv
<1>2. /\ game_data' \in Seq(Nat) /\ Len(game_data') = Len(game_data) + 1
      /\ \A k \in 1 .. Len(game_data) : game_data'[k] = game_data[k]
      /\ game_data'[Len(game_data) + 1] = i
  BY <1>1, AppendProperties DEF ChildInv
<1>3. GameDataInOrder'
  BY <1>1, <1>2 DEF GameDataInOrder, ChildInv
<1>4. seen_child_ni' = 1 .. Len(game_data')
  BY <1>1, <1>2 DEF ChildInv
<1>5. ni_emitted' \in Len(game_data') .. Len(game_data') + 1
  BY <1>1, <1>2 DEF ChildInv
<1> QED
  BY <1>2, <1>3, <1>4, <1>5 DEF ChildInv

LEMMA LeaderReceiveLink ==
    ASSUME LinkInv, leaderReceive
    PROVE  LinkInv'
<1> DEFINE f == Head(uplink)
<1>1. /\ f \in UpFrame /\ uplink' = Tail(uplink) /\ uplink' \in Seq(UpFrame)
      /\ UNCHANGED <<childVars, downlink, mirrored_at>>
  BY HeadTailProperties DEF leaderReceive, LinkInv, FramesInv
<1>2. PICK ev \in Event : receive(f, ev)
  BY DEF leaderReceive
<1> HIDE DEF f
<1>3. UNCHANGED <<ni_emitted, ack_key, ni_resend, cur_ack, uni_seen, ni_done>>
  BY <1>1 DEF childVars, sendVars, mirrorVars
<1>4. ChildInv' /\ seen_child_ni \subseteq seen_child_ni'
  <2>1. CASE UNCHANGED <<game_data, seen_child_ni>>
    BY <1>3, <2>1 DEF LinkInv, ChildInv, GameDataInOrder
  <2>2. CASE /\ f.kind = "ni" /\ f.at \notin seen_child_ni
             /\ game_data' = Append(game_data, f.at)
             /\ seen_child_ni' = seen_child_ni \cup {f.at}
    BY <1>1, <1>3, <2>2, UpKinds, NextSubFrame DEF LinkInv
  <2> QED
    BY <1>1, <1>2, <2>1, <2>2, ReceiveEffect
<1>5. state = "UNI" => state' = "UNI"
  BY <1>1, <1>2, ReceiveEffect
<1>6. ParentInv'
  <2>1. /\ parent_at \in Nat /\ parent_at' = parent_at /\ mirrored_at' = mirrored_at
        /\ cur_ack' = cur_ack
    BY <1>1, <1>2, <1>3, ReceiveEffect DEF LinkInv, ParentInv
  <2>2. CASE UNCHANGED <<state, connect_id, parent_waiting>>
    BY <2>1, <2>2 DEF LinkInv, ParentInv
  <2>3. CASE \/ state = "WAIT_CONNECT" /\ state' = "CHILD_NI" /\ connect_id' # NoId
             \/ /\ state = "CHILD_NI" /\ state' \in {"PARENT_NI", "KEEPALIVE", "UNI"}
                /\ connect_id' # NoId
    <3>1. parent_at' = 0 /\ 1 .. parent_at' = {}
      BY <2>1, <2>3 DEF LinkInv, ParentInv
    <3> QED
      BY <2>1, <2>3, <3>1 DEF LinkInv, ParentInv
  <2>4. CASE f.kind = "niack" /\ f.at = parent_at /\ UNCHANGED <<state, connect_id>>
    <3>1. parent_at \in mirrored_at
      BY <1>1, <2>4, UpKinds
    <3>2. 1 .. parent_at \subseteq mirrored_at
      BY <2>1, <3>1 DEF LinkInv, ParentInv
    <3> QED
      BY <2>1, <2>4, <3>2 DEF LinkInv, ParentInv
  <2> QED
    BY <1>1, <1>2, <2>2, <2>3, <2>4, ReceiveEffect
<1>7. UniInv'
  BY <1>3, <1>5 DEF LinkInv, UniInv
<1>8. FramesInv'
  <2>1. /\ ni_emitted \in Nat /\ ni_emitted' \in Nat /\ ni_emitted <= ni_emitted'
        /\ mirrored_at \subseteq mirrored_at'
    BY <1>1, <1>3, Numbers DEF LinkInv
  <2>2. /\ UpFrame \subseteq UpFrame' /\ QueueFrame \subseteq QueueFrame'
        /\ DownFrame \subseteq DownFrame'
    BY <1>4, <1>5, <2>1, FramesGrow
  <2>3. pending' \in Seq(QueueFrame')
    BY <1>1, <1>2, <2>2, ReceiveEffect, ReplyQueued DEF LinkInv, FramesInv
  <2>4. uplink' \in Seq(UpFrame')
    BY <1>1, <2>2, SeqMono
  <2> QED
    BY <1>1, <2>2, <2>3, <2>4 DEF LinkInv, FramesInv
<1> QED
  BY <1>4, <1>6, <1>7, <1>8 DEF LinkInv

\* What a tick of the leader does, and which frame it hands out.
LEMMA TickEffect ==
    ASSUME LinkInv, NEW out \in ParentFrame(Idle), tick(Idle, out)
    PROVE  /\ UNCHANGED <<connect_id, seen_child_ni, game_data>>
           /\ \/ pending' = pending
              \/ pending # << >> /\ pending' = Tail(pending)
           /\ out \in DownFrame'
           /\ \/ UNCHANGED <<state, parent_at, parent_waiting>>
              \/ /\ state = "PARENT_NI" /\ ~parent_waiting
                 /\ parent_at' = parent_at + 1
                 /\ state' \in {"PARENT_NI", "UNI"}
                 /\ state' = "PARENT_NI" => parent_waiting'
              \/ /\ state \in {"KEEPALIVE", "UNI"} /\ state' = "UNI"
                 /\ UNCHANGED <<parent_at, parent_waiting>>
<1>1. CASE flushPending(out)
  <2>1. out \in QueueFrame /\ seen_child_ni' = seen_child_ni /\ state' = state
    BY <1>1, HeadTailProperties DEF flushPending, linkVars, LinkInv, FramesInv
  <2> QED
    BY <1>1, <2>1 DEF flushPending, linkVars, niVars, DownFrame, QueueFrame
<1>2. CASE tickSilent(out)
  BY <1>2 DEF tickSilent, ParentFrame, NoFrame, AFrame, LinkState, ParentNI, ParentAck, ParentUni
<1>3. \A i \in Nat \ {0} : ParentNI(i) \in DownFrame'
  BY DEF DownFrame
<1>4. out.kind = "ni" => out.at \in Nat \ {0}
  BY FrameAssumption DEF ParentFrame, AFrame, LinkState, ParentNI, ParentAck, ParentUni
<1>5. CASE keepAlive(out)
  BY <1>3, <1>5 DEF keepAlive, niVars
<1>6. CASE parentNiRepeat(out)
  <2>1. parent_at \in Nat \ {0}
    BY <1>4, <1>6 DEF parentNiRepeat, ParentNI
  <2> QED
    BY <1>3, <1>6, <2>1 DEF parentNiRepeat, leaderVars
<1>7. CASE parentNiNext(out)
  <2>1. parent_at + 1 \in Nat \ {0}
    BY DEF LinkInv, ParentInv
  <2>2. state' = "PARENT_NI" => parent_waiting'
    BY <1>7, FrameAssumption DEF parentNiNext, mirrored
  <2> QED
    BY <1>3, <1>7, <2>1, <2>2 DEF parentNiNext, linkVars
<1>8. CASE parentUni(Idle, out)
  <2>1. \E row \in Command : out = ParentUni(Idle, row)
    BY <1>8 DEF parentUni, ParentFrame, AFrame, LinkState, ParentNI, ParentAck, ParentUni
  <2>2. out \in DownFrame'
    BY <1>8, <2>1 DEF parentUni, DownFrame, When
  <2> QED
    BY <1>8, <2>2 DEF parentUni, linkVars, niVars
<1> QED
  BY <1>1, <1>2, <1>5, <1>6, <1>7, <1>8 DEF tick

LEMMA LeaderTickLink ==
    ASSUME LinkInv, leaderTick
    PROVE  LinkInv'
<1>1. PICK out \in ParentFrame(Idle) : tick(Idle, out) /\ Emit(out)
  BY DEF leaderTick
<1>2. /\ UNCHANGED <<childVars, uplink, mirrored_at>>
      /\ downlink' = downlink (+) SetToBag({out})
  BY <1>1 DEF leaderTick, Emit
<1>3. UNCHANGED <<ni_emitted, ack_key, ni_resend, cur_ack, uni_seen, ni_done>>
  BY <1>2 DEF childVars, sendVars, mirrorVars
<1>4. UNCHANGED <<connect_id, seen_child_ni, game_data>>
  BY <1>1, TickEffect
<1>5. ChildInv'
  BY <1>3, <1>4 DEF LinkInv, ChildInv, GameDataInOrder
<1>6. state = "UNI" => state' = "UNI"
  BY <1>1, TickEffect
<1>7. ParentInv'
  <2>1. CASE UNCHANGED <<state, parent_at, parent_waiting>>
    BY <1>2, <1>3, <1>4, <2>1 DEF LinkInv, ParentInv
  <2>2. CASE /\ state = "PARENT_NI" /\ ~parent_waiting
             /\ parent_at' = parent_at + 1
             /\ state' \in {"PARENT_NI", "UNI"}
             /\ state' = "PARENT_NI" => parent_waiting'
    <3>1. parent_at \in Nat /\ 1 .. parent_at' - 1 \subseteq mirrored_at
      BY <2>2 DEF LinkInv, ParentInv
    <3> QED
      BY <1>2, <1>3, <1>4, <2>2, <3>1 DEF LinkInv, ParentInv
  <2>3. CASE /\ state \in {"KEEPALIVE", "UNI"} /\ state' = "UNI"
             /\ UNCHANGED <<parent_at, parent_waiting>>
    BY <1>2, <1>3, <1>4, <2>3 DEF LinkInv, ParentInv
  <2> QED
    BY <1>1, <2>1, <2>2, <2>3, TickEffect
<1>8. UniInv'
  BY <1>3, <1>6 DEF LinkInv, UniInv
<1>9. FramesInv'
  <2>1. ni_emitted \in Nat
    BY Numbers DEF LinkInv
  <2>2. /\ UpFrame \subseteq UpFrame' /\ QueueFrame \subseteq QueueFrame'
        /\ DownFrame \subseteq DownFrame'
    BY <1>2, <1>3, <1>4, <1>6, <2>1, FramesGrow
  <2>3. pending' \in Seq(QueueFrame)
    <3>1. pending \in Seq(QueueFrame)
      BY DEF LinkInv, FramesInv
    <3> QED
      BY <1>1, <3>1, TickEffect, HeadTailProperties
  <2>4. pending' \in Seq(QueueFrame')
    BY <2>2, <2>3, SeqMono
  <2>5. uplink' \in Seq(UpFrame')
    BY <1>2, <2>2, SeqMono DEF LinkInv, FramesInv
  <2>6. DOMAIN downlink' \subseteq DOMAIN downlink \cup {out}
    BY <1>2, BagPut
  <2>7. out \in DownFrame'
    BY <1>1, TickEffect
  <2> QED
    BY <2>2, <2>4, <2>5, <2>6, <2>7 DEF LinkInv, FramesInv
<1> QED
  BY <1>5, <1>7, <1>8, <1>9 DEF LinkInv

\* A frame of the leader lands at the joiner.
LEMMA ChildReceiveLink ==
    ASSUME LinkInv, NEW f \in BagToSet(downlink), childReceive(f)
    PROVE  LinkInv'
<1>1. /\ f \in DownFrame /\ downlink' = downlink (-) SetToBag({f})
      /\ UNCHANGED <<leaderVars, uplink>>
  BY DEF childReceive, LinkInv, FramesInv, BagToSet
<1>2. UNCHANGED <<state, connect_id, pending, seen_child_ni, game_data, parent_at, parent_waiting>>
  BY <1>1 DEF leaderVars
<1>3. UNCHANGED <<ni_emitted, ni_done>>
  BY DEF childReceive, onAccept, onOther, onHostNi, onHostAck, onHostUni, sendVars, childVars
<1>4. ack_key' = ack_key \/ (f.kind = "niack" /\ ack_key' = f.at)
  BY DEF childReceive, onAccept, onOther, onHostNi, onHostAck, onHostUni, sendVars, childVars
<1>5. ni_resend' \in {ni_resend, Nothing} \/ (f.kind = "niack" /\ ni_resend' = resend_after(f.at))
  BY DEF childReceive, onAccept, onOther, onHostNi, onHostAck, onHostUni, sendVars, childVars
<1>6. /\ mirrored_at \subseteq mirrored_at'
      /\ mirrored_at' \subseteq Nat \ {0}
      /\ cur_ack' \in mirrored_at' \cup {Nothing}
  <2>1. CASE f.kind = "ni" /\ onHostNi(f.at) /\ mirrored_at' = mirrored_at \cup {f.at}
    BY <1>1, <2>1, DownKinds DEF onHostNi, LinkInv, ParentInv
  <2>2. CASE mirrored_at' = mirrored_at /\ cur_ack' = cur_ack
    BY <2>2 DEF LinkInv, ParentInv
  <2> QED
    BY <2>1, <2>2 DEF childReceive, onAccept, onOther, onHostAck, onHostUni, mirrorVars, childVars
<1>7. ChildInv'
  <2>1. ack_key' \in seen_child_ni \cup {Nothing}
    BY <1>1, <1>4, DownKinds DEF LinkInv, ChildInv
  <2>2. ni_resend' \in 0 .. ni_emitted
    BY <1>1, <1>5, DownKinds, Numbers DEF LinkInv, ChildInv, resend_after, Nothing
  <2> QED
    BY <1>2, <1>3, <2>1, <2>2 DEF LinkInv, ChildInv, GameDataInOrder
<1>8. ParentInv'
  BY <1>2, <1>6 DEF LinkInv, ParentInv
<1>9. UniInv'
  <2>1. uni_seen' = uni_seen \/ f.kind = "uni"
    BY DEF childReceive, onAccept, onOther, onHostNi, onHostAck, childVars
  <2>2. uni_seen => uni_seen'
    BY DEF childReceive, onAccept, onOther, onHostNi, onHostAck, onHostUni, childVars
  <2> QED
    BY <1>1, <1>2, <1>3, <2>1, <2>2, DownKinds DEF LinkInv, UniInv
<1>10. FramesInv'
  <2>1. /\ UpFrame \subseteq UpFrame' /\ QueueFrame \subseteq QueueFrame'
        /\ DownFrame \subseteq DownFrame'
    BY <1>2, <1>3, <1>6, Numbers, FramesGrow DEF LinkInv
  <2>2. uplink' \in Seq(UpFrame') /\ pending' \in Seq(QueueFrame')
    BY <1>1, <1>2, <2>1, SeqMono DEF LinkInv, FramesInv
  <2>3. DOMAIN downlink' \subseteq DOMAIN downlink
    BY <1>1, BagTake
  <2> QED
    BY <2>1, <2>2, <2>3 DEF LinkInv, FramesInv
<1> QED
  BY <1>7, <1>8, <1>9, <1>10 DEF LinkInv

\* The joiner queues a frame and advances no further than the leader allows.
LEMMA QueueLink ==
    ASSUME LinkInv, NEW frame \in UpFrame', Queue(frame),
           UNCHANGED <<ack_key, ni_resend, cur_ack, uni_seen>>,
           ni_emitted' \in ni_emitted .. Len(game_data) + 1,
           ni_done' => uni_seen
    PROVE  LinkInv'
<1>1. /\ uplink' = Append(uplink, frame)
      /\ UNCHANGED <<state, connect_id, pending, seen_child_ni, game_data, parent_at,
                     parent_waiting, downlink, mirrored_at>>
  BY DEF Queue, leaderVars, history
<1>2. ChildInv'
  BY <1>1, Numbers DEF LinkInv, ChildInv, GameDataInOrder
<1>3. ParentInv' /\ UniInv'
  BY <1>1 DEF LinkInv, ParentInv, UniInv
<1>4. FramesInv'
  <2>1. /\ UpFrame \subseteq UpFrame' /\ QueueFrame \subseteq QueueFrame'
        /\ DownFrame \subseteq DownFrame'
    BY <1>1, Numbers, FramesGrow DEF LinkInv
  <2>2. uplink \in Seq(UpFrame') /\ pending' \in Seq(QueueFrame')
    BY <1>1, <2>1, SeqMono DEF LinkInv, FramesInv
  <2>3. uplink' \in Seq(UpFrame')
    BY <1>1, <2>2, AppendProperties
  <2> QED
    BY <1>1, <2>1, <2>2, <2>3 DEF LinkInv, FramesInv
<1> QED
  BY <1>2, <1>3, <1>4 DEF LinkInv

LEMMA ChildTickLink ==
    ASSUME LinkInv, childTick
    PROVE  LinkInv'
<1>1. /\ Len(game_data) \in Nat /\ ni_emitted \in Nat
      /\ ni_emitted \in Len(game_data) .. Len(game_data) + 1 /\ (ni_done => uni_seen)
  BY Numbers DEF LinkInv, ChildInv, UniInv
<1>2. /\ Metadata \in UpFrame' /\ CFrame(Cid) \in UpFrame'
      /\ \A i \in 1 .. ni_emitted' : ChildNI(i) \in UpFrame'
      /\ \A i \in mirrored_at' : ChildAck(i) \in UpFrame'
      /\ \A cmd \in Command : state' = "UNI" => ChildUni(cmd) \in UpFrame'
  BY DEF UpFrame, When
<1>3. ASSUME Opening \/ Connecting PROVE LinkInv'
  <2>1. UNCHANGED <<ack_key, ni_resend, cur_ack, uni_seen, ni_emitted, ni_done>>
    BY <1>3 DEF Opening, Connecting, childOpen, childConnect, sendVars, mirrorVars
  <2> QED
    BY <1>1, <1>2, <1>3, <2>1, QueueLink DEF Opening, Connecting
<1>4. ASSUME NEW quiet \in BOOLEAN, NextNi(quiet) PROVE LinkInv'
  <2>1. /\ UNCHANGED <<ack_key, ni_resend, cur_ack, uni_seen, ni_done>>
        /\ ni_emitted' = ni_emitted + 1
        /\ ni_emitted = 0 \/ ack_key = ni_emitted
        /\ Queue(ChildNI(ni_emitted + 1))
    BY <1>4 DEF NextNi, childNiNext, mayAdvance, mirrorVars
  <2>2. ni_emitted <= Len(game_data)
    BY <1>1, <2>1 DEF LinkInv, ChildInv, Nothing
  <2>3. ni_emitted' \in ni_emitted .. Len(game_data) + 1 /\ ni_emitted + 1 \in 1 .. ni_emitted'
    BY <1>1, <2>1, <2>2
  <2> QED
    BY <1>1, <1>2, <2>1, <2>3, QueueLink
<1>5. ASSUME NEW quiet \in BOOLEAN, AgainNi(quiet) PROVE LinkInv'
  <2>1. /\ UNCHANGED <<ack_key, ni_resend, cur_ack, uni_seen, ni_done, ni_emitted>>
        /\ ni_emitted # 0 /\ Queue(ChildNI(ni_emitted))
    BY <1>5 DEF AgainNi, childNiAgain, resendDue, mayAdvance, sendVars, mirrorVars
  <2>2. ni_emitted \in 1 .. ni_emitted'
    BY <1>1, <2>1
  <2> QED
    BY <1>1, <1>2, <2>1, <2>2, QueueLink
<1>6. ASSUME NEW quiet \in BOOLEAN, Mirror(quiet) \/ MirrorAgain PROVE LinkInv'
  <2>1. /\ UNCHANGED <<ack_key, ni_resend, cur_ack, uni_seen, ni_done, ni_emitted>>
        /\ cur_ack # Nothing /\ Queue(ChildAck(cur_ack))
    BY <1>6 DEF Mirror, MirrorAgain, childMirror, childMirrorAgain, mirrorDue, sendVars, mirrorVars
  <2>2. cur_ack \in mirrored_at'
    BY <2>1 DEF Queue, history, LinkInv, ParentInv
  <2> QED
    BY <1>1, <1>2, <2>1, <2>2, QueueLink
<1>7. ASSUME NEW quiet \in BOOLEAN, Resend(quiet) PROVE LinkInv'
  <2>1. /\ UNCHANGED <<ack_key, ni_resend, cur_ack, uni_seen, ni_done, ni_emitted>>
        /\ ni_resend # Nothing /\ Queue(ChildNI(ni_resend))
    BY <1>7 DEF Resend, childResend, mirrorVars
  <2>2. ni_resend \in 1 .. ni_emitted'
    BY <1>1, <2>1 DEF LinkInv, ChildInv, Nothing
  <2> QED
    BY <1>1, <1>2, <2>1, <2>2, QueueLink
<1>8. ASSUME NEW quiet \in BOOLEAN, NEW cmd \in Command, UniSlot(quiet, cmd) PROVE LinkInv'
  <2>1. /\ UNCHANGED <<ack_key, ni_resend, cur_ack, uni_seen, ni_emitted>>
        /\ uni_seen /\ Queue(ChildUni(cmd))
    BY <1>1, <1>8 DEF UniSlot, childUniSlot, mayGoUni, sendVars, mirrorVars
  <2>2. state' = "UNI"
    BY <2>1 DEF Queue, leaderVars, LinkInv, UniInv
  <2> QED
    BY <1>1, <1>2, <2>1, <2>2, QueueLink
<1> QED
  BY <1>3, <1>4, <1>5, <1>6, <1>7, <1>8 DEF childTick

LEMMA NextLink == LinkInv /\ [Next]_vars => LinkInv'
<1> SUFFICES ASSUME LinkInv, [Next]_vars PROVE LinkInv'
  OBVIOUS
<1>1. CASE leaderReceive
  BY <1>1, LeaderReceiveLink
<1>2. CASE leaderTick
  BY <1>2, LeaderTickLink
<1>3. CASE \E f \in BagToSet(downlink) : childReceive(f)
  BY <1>3, ChildReceiveLink
<1>4. CASE childTick
  BY <1>4, ChildTickLink
<1>5. CASE UNCHANGED vars
  BY <1>5 DEF vars, leaderVars, childVars, sendVars, mirrorVars, history, LinkInv, FramesInv,
     ChildInv, ParentInv, UniInv, GameDataInOrder, UpFrame, QueueFrame, DownFrame, When
<1> QED
  BY <1>1, <1>2, <1>3, <1>4, <1>5 DEF Next

LEMMA SpecLink == Spec => []LinkInv
<1>1. Init => LinkInv
  BY InitLink
<1> QED
  BY <1>1, NextLink, PTL DEF Spec

\* The leader has the joiner's game data whole and in order, however often the
\* joiner sends a sub-frame again and however late the acks land.
THEOREM GameDataIsInOrder == Spec => []GameDataInOrder
<1>1. LinkInv => GameDataInOrder
  BY DEF LinkInv, ChildInv
<1> QED
  BY <1>1, SpecLink, PTL

\* Neither transfer runs ahead of the other end, for every length of the two.
THEOREM TransfersStopAndWait == Spec => []StopAndWait
<1>1. LinkInv => StopAndWait
  BY Numbers DEF LinkInv, ChildInv, ParentInv, StopAndWait
<1> QED
  BY <1>1, SpecLink, PTL

\* No UNI slot of the joiner is on its way before the leader is in UNI.
THEOREM UniIsNeverEarly == Spec => []NoEarlyUni
<1>1. LinkInv => NoEarlyUni
  <2> SUFFICES ASSUME LinkInv, NEW n \in 1 .. Len(uplink), uplink[n].kind = "uni"
               PROVE  state = "UNI"
    BY DEF NoEarlyUni
  <2>1. uplink[n] \in UpFrame
    BY ElementOfSeq DEF LinkInv, FramesInv
  <2> QED
    BY <2>1, UpKinds
<1> QED
  BY <1>1, SpecLink, PTL

-----------------------------------------------------------------------------
(* The echo.                                                               *)

\* A command that waits is found, and a new one is appended once.
LEMMA EchoAppended ==
    ASSUME EchoInv, NEW cmd \in Command, echoAppend(cmd),
           IsFiniteSet(Command), Cardinality(Command) <= EchoMax
    PROVE  EchoInv' /\ ToSet(echo_queue') = ToSet(echo_queue) \cup {cmd}
<1> DEFINE longer == IF Contains(echo_queue, cmd) THEN echo_queue ELSE Append(echo_queue, cmd)
<1>1. echo_queue \in Seq(Command) /\ Len(echo_queue) \in Nat /\ DOMAIN echo_queue = 1 .. Len(echo_queue)
  BY LenProperties DEF EchoInv
<1>2. /\ longer \in Seq(Command)
      /\ \A i, j \in 1 .. Len(longer) : longer[i] = longer[j] => i = j
      /\ ToSet(longer) = ToSet(echo_queue) \cup {cmd}
  <2>1. CASE Contains(echo_queue, cmd)
    BY <1>1, <2>1 DEF EchoInv, Contains, ToSet
  <2>2. CASE ~Contains(echo_queue, cmd)
    <3>1. /\ longer = Append(echo_queue, cmd) /\ longer \in Seq(Command)
          /\ Len(longer) = Len(echo_queue) + 1
          /\ DOMAIN longer = 1 .. Len(longer)
          /\ \A i \in 1 .. Len(echo_queue) : longer[i] = echo_queue[i]
          /\ longer[Len(echo_queue) + 1] = cmd
      BY <1>1, <2>2, AppendProperties, LenProperties
    <3>2. \A i \in 1 .. Len(echo_queue) : echo_queue[i] # cmd
      BY <2>2 DEF Contains
    <3> HIDE DEF longer
    <3>3. \A i, j \in 1 .. Len(longer) : longer[i] = longer[j] => i = j
      BY <1>1, <3>1, <3>2 DEF EchoInv
    <3>4. ToSet(longer) = ToSet(echo_queue) \cup {cmd}
      BY <1>1, <3>1 DEF ToSet
    <3> QED
      BY <3>1, <3>3, <3>4
  <2> QED
    BY <2>1, <2>2
<1> HIDE DEF longer
<1>3. Len(longer) <= Cardinality(Command)
  <2>1. Len(longer) \in Nat /\ longer \in [1 .. Len(longer) -> Command]
    BY <1>2, LenProperties
  <2>2. Cardinality(1 .. Len(longer)) = Len(longer)
    BY <2>1, FS_Interval
  <2>3. longer \in Injection(1 .. Len(longer), Command)
    BY <1>2, <2>1 DEF Injection, IsInjective
  <2> QED
    BY <2>2, <2>3, FS_Injection
<1>4. ~(Len(longer) > EchoMax)
  <2>1. EchoMax \in Nat /\ Cardinality(Command) \in Nat /\ Len(longer) \in Nat
    BY <1>2, LeaderAssumption, LenProperties, FS_CardinalityType
  <2> QED
    BY <1>3, <2>1
<1>5. echo_queue' = longer
  BY <1>4 DEF echoAppend, longer
<1> QED
  BY <1>2, <1>5 DEF EchoInv

\* The row a frame mirrors is the command at the head of the queue.
LEMMA TickEcho ==
    ASSUME EchoInv, NoEchoLost, leaderTick
    PROVE  EchoInv' /\ NoEchoLost'
<1>1. PICK out \in ParentFrame(Idle) : tick(Idle, out) /\ Emit(out)
  BY DEF leaderTick
<1>2. CASE parentUni(Idle, out)
  <2>1. /\ out.kind = "uni" /\ out.echo = nextRow
        /\ echo_queue' = IF echo_queue = << >> THEN echo_queue ELSE Tail(echo_queue)
        /\ echo_owed' = echo_owed \ {nextRow}
    BY <1>1, <1>2 DEF parentUni, ParentUni, Emit
  <2>2. echo_queue \in Seq(Command) /\ DOMAIN echo_queue = 1 .. Len(echo_queue)
    BY LenProperties DEF EchoInv
  <2>3. CASE echo_queue = << >>
    BY <2>1, <2>2, <2>3 DEF EchoInv, NoEchoLost, ToSet
  <2>4. CASE echo_queue # << >>
    <3>1. /\ Len(echo_queue) \in Nat \ {0} /\ echo_queue' \in Seq(Command)
          /\ Len(echo_queue') = Len(echo_queue) - 1
          /\ DOMAIN echo_queue' = 1 .. Len(echo_queue) - 1
          /\ \A i \in 1 .. Len(echo_queue) - 1 : echo_queue'[i] = echo_queue[i + 1]
      BY <2>1, <2>2, <2>4, HeadTailProperties, LenProperties, EmptySeq
    <3>2. nextRow = echo_queue[1]
      BY <2>2, <2>4 DEF nextRow
    <3>3. EchoInv'
      BY <3>1 DEF EchoInv
    <3>4. ToSet(echo_queue) \subseteq ToSet(echo_queue') \cup {nextRow}
      <4> SUFFICES ASSUME NEW i \in 1 .. Len(echo_queue), i # 1
                   PROVE  echo_queue[i] \in ToSet(echo_queue')
        BY <2>2, <3>2 DEF ToSet
      <4>1. i - 1 \in 1 .. Len(echo_queue) - 1 /\ echo_queue'[i - 1] = echo_queue[i]
        BY <3>1
      <4> QED
        BY <3>1, <4>1 DEF ToSet
    <3> QED
      BY <2>1, <3>3, <3>4 DEF NoEchoLost
  <2> QED
    BY <2>3, <2>4
<1>3. CASE ~parentUni(Idle, out)
  <2>1. echo_queue' = echo_queue
    BY <1>1, <1>3 DEF tick, flushPending, keepAlive, parentNiRepeat, parentNiNext, tickSilent,
       echoVars, leaderVars
  <2>2. echo_owed' \subseteq echo_owed
    BY <1>1 DEF Emit
  <2> QED
    BY <2>1, <2>2 DEF EchoInv, NoEchoLost
<1> QED
  BY <1>2, <1>3

LEMMA ReceiveEcho ==
    ASSUME IsFiniteSet(Command), Cardinality(Command) <= EchoMax,
           LinkInv, EchoInv, NoEchoLost, leaderReceive
    PROVE  EchoInv' /\ NoEchoLost'
<1> DEFINE f == Head(uplink)
<1>1. f \in UpFrame
  BY HeadTailProperties DEF leaderReceive, LinkInv, FramesInv
<1>2. PICK ev \in Event :
          /\ receive(f, ev)
          /\ echo_owed' = IF ev = "uni" THEN echo_owed \cup {f.cmd} ELSE echo_owed
  BY DEF leaderReceive
<1> HIDE DEF f
<1>3. CASE childUni(f, ev)
  BY <1>1, <1>2, <1>3, UpKinds, EchoAppended DEF childUni, NoEchoLost
<1>4. CASE ~childUni(f, ev)
  <2>1. echo_queue' = echo_queue /\ ev # "uni"
    BY <1>2, <1>4 DEF receive, connect, connectAgain, childDisconnect, parentNiAck, ignored,
       childNiRepeat, childNi, echoVars, leaderVars
  <2> QED
    BY <1>2, <2>1 DEF EchoInv, NoEchoLost
<1> QED
  BY <1>3, <1>4

LEMMA NextEcho ==
    ASSUME IsFiniteSet(Command), Cardinality(Command) <= EchoMax
    PROVE  LinkInv /\ EchoInv /\ NoEchoLost /\ [Next]_vars => EchoInv' /\ NoEchoLost'
<1> SUFFICES ASSUME LinkInv, EchoInv, NoEchoLost, [Next]_vars PROVE EchoInv' /\ NoEchoLost'
  OBVIOUS
<1>1. CASE leaderReceive
  BY <1>1, ReceiveEcho
<1>2. CASE leaderTick
  BY <1>2, TickEcho
<1>3. CASE UNCHANGED <<echo_queue, echo_owed>>
  BY <1>3 DEF EchoInv, NoEchoLost
<1>4. CASE \E f \in BagToSet(downlink) : childReceive(f)
  BY <1>3, <1>4 DEF childReceive, leaderVars
<1>5. CASE childTick
  BY <1>3, <1>5 DEF childTick, Opening, Connecting, NextNi, AgainNi, Mirror, Resend, UniSlot,
     MirrorAgain, Queue, leaderVars, history
<1>6. CASE UNCHANGED vars
  BY <1>3, <1>6 DEF vars, leaderVars, history
<1> QED
  BY <1>1, <1>2, <1>4, <1>5, <1>6 DEF Next

\* No command of the joiner is dropped for a newer one as long as the queue has
\* room for every command once.
THEOREM NoEchoIsLost ==
    IsFiniteSet(Command) /\ Cardinality(Command) <= EchoMax /\ Spec => []NoEchoLost
<1>1. ASSUME IsFiniteSet(Command), Cardinality(Command) <= EchoMax
      PROVE  Spec => []NoEchoLost
  <2>1. LinkInv /\ EchoInv /\ NoEchoLost /\ [Next]_vars => (LinkInv /\ EchoInv /\ NoEchoLost)'
    BY <1>1, NextLink, NextEcho
  <2>2. Init => LinkInv /\ EchoInv /\ NoEchoLost
    <3>1. Init => NoEchoLost
      BY DEF Init, NoEchoLost
    <3> QED
      BY <3>1, InitLink
  <2> QED
    BY <2>1, <2>2, PTL DEF Spec
<1> QED
  BY <1>1
=============================================================================
