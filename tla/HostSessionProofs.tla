-------------------------- MODULE HostSessionProofs -------------------------
(***************************************************************************)
(* What the console may rely on in the host's stream holds for every       *)
(* window, every number of sub-frames and however many frames are sent.    *)
(***************************************************************************)
EXTENDS HostSession, TLAPS, SequenceTheorems, FiniteSetTheorems

LeaderState == {"WAIT_CONNECT", "CHILD_NI", "PARENT_NI", "KEEPALIVE", "UNI", "DISCONNECTED"}

\* The frames receive queues, and all frames of the host.
Queueable == {AFrame} \cup {LinkState(n) : n \in Nat} \cup {ParentAck(i) : i \in Nat}
HostFrame == Queueable \cup {ParentNI(i) : i \in Nat} \cup {DFrame}
                 \cup {ParentUni(w, row) : w \in Command, row \in Command}

TypeOK ==
    /\ skip_parent_ni \in SkipModes
    /\ state \in LeaderState
    /\ connect_id \in ConnectId \cup {NoId}
    /\ pending \in Seq(Queueable)
    /\ sent \in Seq(HostFrame)
    /\ inbox \in Seq(ConsoleFrame)
    /\ {in_count, acked_in, connect_seq, handed} \subseteq Nat
    /\ connect_ack_sent \in BOOLEAN /\ close_poll_sent \in BOOLEAN /\ disconnect_sent \in BOOLEAN

\* Before C nothing is queued or sent.
ConnectInv ==
    /\ connect_id = NoId <=> connect_seq = NoSeq
    /\ connect_id = NoId => /\ state \in {"WAIT_CONNECT", "DISCONNECTED"}
                            /\ pending = << >> /\ sent = << >>
    /\ state = "DISCONNECTED" => pending = << >>

\* The acks that went out, and what waited for them.
AckInv ==
    /\ acked_in <= in_count + 1
    /\ connect_ack_sent => connect_seq # NoSeq /\ acked_in > connect_seq
    /\ sent # << >> => connect_ack_sent
    /\ close_poll_sent => sent # << >>

\* A is the first frame: it heads the queue until it is sent, and is queued once.
AcceptInv ==
    /\ \A n \in Positions : sent[n] = AFrame <=> n = 1
    /\ \A i \in 1 .. Len(pending) : pending[i] = AFrame => i = 1 /\ sent = << >>
    /\ sent = << >> /\ connect_id # NoId /\ state # "DISCONNECTED"
           => pending # << >> /\ Head(pending) = AFrame

\* D is sent once, and nothing after it.
DisconnectInv ==
    /\ \A n \in Positions : sent[n] = DFrame => n = Len(sent) /\ disconnect_sent
    /\ disconnect_sent => state = "DISCONNECTED" /\ close_poll_sent

StreamInv == TypeOK /\ ConnectInv /\ AckInv /\ AcceptInv /\ DisconnectInv

\* A leader that hands over to UNI by a frame of its own, be it the NULL of its
\* transfer or a keepalive, enters UNI with its replies sent.
OwnHandover == TRUE \in SkipModes => KeepaliveFrames > 0

\* The close-link poll counts as sent only when it is in the stream.
PollInv ==
    /\ state = "UNI" => pending = << >> /\ sent # << >>
    /\ close_poll_sent => \E m \in Positions : sent[m].kind = "uni" /\ sent[m].words = CloseLink

WordAt == {n \in Positions : sent[n].kind = "uni" /\ sent[n].words # Idle}

CloseInv == StreamInv /\ PollInv

-----------------------------------------------------------------------------
(* What one frame of the console, and one tick, can do to the leader.       *)

LEMMA FrameKinds ==
    /\ \A r \in Queueable : r.kind \in {"A", "L", "niack"} /\ (r.kind = "A" <=> r = AFrame)
    /\ \A f \in HostFrame : /\ f.kind \in {"A", "L", "niack", "ni", "uni", "D"}
                            /\ f.kind = "A" <=> f = AFrame
                            /\ f.kind = "D" <=> f = DFrame
    /\ NoFrame.kind = "none" /\ DFrame.kind = "D" /\ AFrame.kind = "A"
BY DEF Queueable, HostFrame, AFrame, DFrame, NoFrame, LinkState, ParentAck, ParentNI, ParentUni

\* A frame is the accepted C, ends the link, changes nothing that counts here,
\* or is answered by one more frame in the queue.
LEMMA ReceiveEffect ==
    ASSUME TypeOK, NEW f \in ConsoleFrame, NEW ev, receive(f, ev)
    PROVE  /\ skip_parent_ni' = skip_parent_ni
           /\ \/ /\ ev = "connect" /\ connect_id = NoId /\ connect_id' \in ConnectId
                 /\ state' = "CHILD_NI"
                 /\ pending' = pending \o <<AFrame, LinkState(0)>>
              \/ /\ ev # "connect" /\ connect_id' = connect_id
                 /\ state' = "DISCONNECTED" /\ pending' = << >>
              \/ /\ ev # "connect" /\ connect_id' = connect_id
                 /\ state' = state /\ pending' = pending
              \/ /\ ev # "connect" /\ connect_id' = connect_id /\ connect_id # NoId
                 /\ state \in {"CHILD_NI", "PARENT_NI"}
                 /\ state' \in {state, "PARENT_NI", "KEEPALIVE", "UNI"}
                 /\ state' = "UNI" => skip_parent_ni /\ ~(KeepaliveFrames > 0)
                 /\ \E r \in Queueable \ {AFrame} : pending' = Append(pending, r)
<1>1. CASE connect(f, ev)
  <2>1. f.cid \in ConnectId
    BY <1>1, SessionAssumption DEF connect, ConsoleFrame, CFrame, ChildNI, ChildAck, ChildUni,
       KFrame, DFrame, Metadata
  <2> QED
    BY <1>1, <2>1 DEF connect, niVars
<1>2. CASE connectAgain(f, ev) \/ ignored(f, ev)
  BY <1>2 DEF connectAgain, ignored, leaderVars
<1>3. CASE childDisconnect(f, ev)
  BY <1>3 DEF childDisconnect, niVars, linkVars
<1>4. CASE parentNiAck(f, ev) \/ childUni(f, ev)
  BY <1>4 DEF parentNiAck, childUni, niVars, linkVars
<1>5. \A i \in Nat : acksOf(i) = << >> \/ (ParentAck(i) \in Queueable \ {AFrame}
                                            /\ acksOf(i) = <<ParentAck(i)>>)
  BY FrameKinds DEF acksOf, Queueable, ParentAck, AFrame
<1>6. f.kind = "ni" => f.at \in Nat
  BY DEF ConsoleFrame, CFrame, ChildNI, ChildAck, ChildUni, KFrame, DFrame, Metadata
<1>7. \A r \in Queueable : pending \o <<r>> = Append(pending, r)
  BY DEF TypeOK
<1>8. pending \o << >> = pending
  BY DEF TypeOK
<1>9. CASE childNiRepeat(f, ev)
  BY <1>5, <1>6, <1>7, <1>8, <1>9 DEF childNiRepeat, niVars, linkVars, connected
<1>10. CASE childNi(f, ev)
  <2>1. LinkState(1) \in Queueable \ {AFrame}
    BY DEF LinkState, Queueable, AFrame
  <2>2. KeepaliveFrames \in Nat
    BY LeaderAssumption
  <2>3. CASE f.at = ChildLast /\ state = "CHILD_NI"
    BY <1>10, <2>1, <2>2, <2>3 DEF childNi, niVars, connected
  <2>4. CASE ~(f.at = ChildLast /\ state = "CHILD_NI")
    BY <1>5, <1>6, <1>7, <1>8, <1>10, <2>4 DEF childNi, niVars, connected
  <2> QED
    BY <2>3, <2>4
<1> QED
  BY <1>1, <1>2, <1>3, <1>4, <1>9, <1>10 DEF receive

\* A tick sends what waits, or a frame of the phase it is in, or nothing.
LEMMA TickEffect ==
    ASSUME TypeOK, NEW words \in Command, NEW out \in ParentFrame(words) \cup {NoFrame},
           tick(words, out)
    PROVE  /\ skip_parent_ni' = skip_parent_ni /\ connect_id' = connect_id
           /\ \/ /\ pending # << >> /\ out = Head(pending) /\ pending' = Tail(pending)
                 /\ state' = state
              \/ /\ pending = << >> /\ pending' = << >>
                 /\ state \in {"PARENT_NI", "KEEPALIVE", "UNI"}
                 /\ state' \in {"PARENT_NI", "KEEPALIVE", "UNI"}
                 /\ out \in HostFrame /\ out.kind \in {"ni", "uni"}
                 /\ out.kind = "uni" => out.words = words
                 /\ state = "UNI" => out.kind = "uni" /\ state' = "UNI"
              \/ /\ pending = << >> /\ pending' = << >> /\ out = NoFrame
                 /\ state \in {"WAIT_CONNECT", "CHILD_NI", "DISCONNECTED"} /\ state' = state
<1>1. CASE flushPending(out)
  BY <1>1 DEF flushPending, niVars, linkVars
<1>2. CASE tickSilent(out)
  BY <1>2 DEF tickSilent, leaderVars
<1>3. out.kind \in {"ni", "uni"} => out \in HostFrame
  BY DEF ParentFrame, HostFrame, AFrame, LinkState, ParentNI, ParentAck, ParentUni, NoFrame
<1>4. CASE keepAlive(out) \/ parentNiRepeat(out)
  BY <1>3, <1>4 DEF keepAlive, parentNiRepeat, niVars, leaderVars, ParentNI
<1>5. CASE parentNiNext(out)
  BY <1>3, <1>5 DEF parentNiNext, linkVars, ParentNI
<1>6. CASE parentUni(words, out)
  BY <1>3, <1>6 DEF parentUni, niVars, linkVars, ParentUni
<1> QED
  BY <1>1, <1>2, <1>4, <1>5, <1>6 DEF tick

-----------------------------------------------------------------------------
(* The invariant, action by action.                                         *)

LEMMA InitStream == Init => StreamInv
<1> SUFFICES ASSUME Init PROVE StreamInv
  OBVIOUS
<1>1. TypeOK
  <2>1. /\ pending \in Seq(Queueable) /\ sent \in Seq(HostFrame) /\ inbox \in Seq(ConsoleFrame)
        /\ state \in LeaderState /\ skip_parent_ni \in SkipModes
        /\ connect_id \in ConnectId \cup {NoId}
    BY DEF Init, LeaderInit, LeaderState
  <2>2. {in_count, acked_in, connect_seq, handed} \subseteq Nat
    BY DEF Init, NoSeq
  <2>3. connect_ack_sent \in BOOLEAN /\ close_poll_sent \in BOOLEAN /\ disconnect_sent \in BOOLEAN
    BY Zenon DEF Init
  <2> QED
    BY <2>1, <2>2, <2>3 DEF TypeOK
<1>2. ConnectInv /\ AckInv /\ AcceptInv /\ DisconnectInv
  BY DEF Init, LeaderInit, ConnectInv, AckInv, AcceptInv, DisconnectInv, Positions, NoSeq
<1> QED
  BY <1>1, <1>2 DEF StreamInv

LEMMA ReceiveStream ==
    ASSUME StreamInv, receive_reliable
    PROVE  StreamInv'
<1> DEFINE f == Head(inbox)
<1>1. /\ f \in ConsoleFrame /\ inbox' \in Seq(ConsoleFrame)
      /\ in_count' = in_count + 1
      /\ UNCHANGED <<sent, connect_ack_sent, acked_in, close_poll_sent, disconnect_sent, handed>>
  BY HeadTailProperties DEF receive_reliable, StreamInv, TypeOK, closeVars
<1>2. PICK ev \in Event :
          /\ receive(f, ev)
          /\ connect_seq' = IF ev = "connect" /\ connect_seq = NoSeq
                            THEN in_count + 1 ELSE connect_seq
  BY DEF receive_reliable
<1>3. TypeOK /\ in_count \in Nat /\ connect_seq \in Nat /\ acked_in \in Nat
  BY DEF StreamInv, TypeOK
<1>4. connect_seq' \in Nat /\ in_count' \in Nat
  BY <1>1, <1>2, <1>3
<1> HIDE DEF f
<1>5. CASE /\ ev = "connect" /\ connect_id = NoId /\ connect_id' \in ConnectId
           /\ state' = "CHILD_NI" /\ skip_parent_ni' = skip_parent_ni
           /\ pending' = pending \o <<AFrame, LinkState(0)>>
  <2>1. pending = << >> /\ sent = << >> /\ connect_seq = NoSeq /\ connect_id' # NoId
    BY <1>5, NoIdAssumption DEF StreamInv, ConnectInv
  <2>2. /\ pending' \in Seq(Queueable) /\ Len(pending') = 2
        /\ pending'[1] = AFrame /\ pending'[2] = LinkState(0)
        /\ Head(pending') = AFrame /\ pending' # << >>
    BY <1>5, <2>1 DEF Queueable
  <2>3. connect_seq' = in_count + 1 /\ connect_seq' # NoSeq
    BY <1>2, <1>3, <1>5, <2>1 DEF NoSeq
  <2>4. TypeOK'
    BY <1>1, <1>4, <1>5, <2>2 DEF StreamInv, TypeOK, LeaderState
  <2>5. ConnectInv' /\ DisconnectInv'
    BY <1>1, <1>5, <2>1, <2>3 DEF StreamInv, ConnectInv, AckInv, DisconnectInv, Positions
  <2>6. AckInv'
    BY <1>1, <1>3, <2>1, <2>3 DEF StreamInv, AckInv
  <2>7. AcceptInv'
    <3>1. LinkState(0) # AFrame
      BY DEF LinkState, AFrame
    <3> QED
      BY <1>1, <2>1, <2>2, <3>1 DEF StreamInv, AcceptInv, Positions
  <2> QED
    BY <2>4, <2>5, <2>6, <2>7 DEF StreamInv
<1>6. ASSUME ev # "connect", connect_id' = connect_id, skip_parent_ni' = skip_parent_ni
      PROVE  /\ connect_seq' = connect_seq
             /\ AckInv'
             /\ pending' \in Seq(Queueable) /\ state' \in LeaderState => TypeOK'
  BY <1>1, <1>2, <1>3, <1>4, <1>6 DEF StreamInv, AckInv, TypeOK
<1>7. CASE /\ ev # "connect" /\ connect_id' = connect_id /\ skip_parent_ni' = skip_parent_ni
           /\ state' = "DISCONNECTED" /\ pending' = << >>
  <2>1. TypeOK'
    BY <1>6, <1>7, EmptySeq DEF LeaderState
  <2>2. ConnectInv' /\ DisconnectInv' /\ AcceptInv'
    BY <1>1, <1>6, <1>7 DEF StreamInv, ConnectInv, DisconnectInv, AcceptInv, Positions
  <2> QED
    BY <1>6, <1>7, <2>1, <2>2 DEF StreamInv
<1>8. CASE /\ ev # "connect" /\ connect_id' = connect_id /\ skip_parent_ni' = skip_parent_ni
           /\ state' = state /\ pending' = pending
  <2>1. TypeOK'
    BY <1>6, <1>8 DEF StreamInv, TypeOK
  <2>2. ConnectInv' /\ DisconnectInv' /\ AcceptInv'
    BY <1>1, <1>6, <1>8 DEF StreamInv, ConnectInv, DisconnectInv, AcceptInv, Positions
  <2> QED
    BY <1>6, <1>8, <2>1, <2>2 DEF StreamInv
<1>9. CASE /\ ev # "connect" /\ connect_id' = connect_id /\ connect_id # NoId
           /\ skip_parent_ni' = skip_parent_ni
           /\ state \in {"CHILD_NI", "PARENT_NI"}
           /\ state' \in {state, "PARENT_NI", "KEEPALIVE", "UNI"}
           /\ \E r \in Queueable \ {AFrame} : pending' = Append(pending, r)
  <2>1. PICK r \in Queueable \ {AFrame} : pending' = Append(pending, r)
    BY <1>9
  <2>2. /\ pending \in Seq(Queueable) /\ pending' \in Seq(Queueable)
        /\ Len(pending') = Len(pending) + 1 /\ Len(pending) \in Nat
        /\ \A i \in 1 .. Len(pending) : pending'[i] = pending[i]
        /\ pending'[Len(pending) + 1] = r
    BY <2>1, AppendProperties, LenProperties DEF StreamInv, TypeOK
  <2>3. TypeOK'
    BY <1>6, <1>9, <2>2 DEF LeaderState
  <2>4. ConnectInv' /\ DisconnectInv'
    BY <1>1, <1>6, <1>9 DEF StreamInv, ConnectInv, DisconnectInv, Positions
  <2>5. AcceptInv'
    <3>1. \A i \in 1 .. Len(pending') : pending'[i] = AFrame => i = 1 /\ sent' = << >>
      BY <1>1, <2>1, <2>2 DEF StreamInv, AcceptInv
    <3>2. sent' = << >> => pending' # << >> /\ Head(pending') = AFrame
      <4> SUFFICES ASSUME sent' = << >> PROVE pending' # << >> /\ Head(pending') = AFrame
        OBVIOUS
      <4>1. pending # << >> /\ Head(pending) = AFrame
        BY <1>1, <1>9 DEF StreamInv, AcceptInv
      <4> QED
        BY <2>1, <2>2, <4>1
    <3> QED
      BY <1>1, <3>1, <3>2 DEF StreamInv, AcceptInv, Positions
  <2> QED
    BY <1>6, <1>9, <2>3, <2>4, <2>5 DEF StreamInv
<1> QED
  BY <1>1, <1>2, <1>3, <1>5, <1>7, <1>8, <1>9, ReceiveEffect

LEMMA PollAckEffect ==
    ASSUME TypeOK, AckInv, NEW now \in BOOLEAN, pollAck(now)
    PROVE  /\ connect_seq' = connect_seq /\ in_count' = in_count
           /\ acked_in' \in Nat /\ acked_in' <= in_count' + 1
           /\ connect_ack_sent' \in BOOLEAN
           /\ connect_ack_sent => connect_ack_sent'
           /\ connect_ack_sent' => connect_seq' # NoSeq /\ acked_in' > connect_seq'
<1>1. in_count \in Nat /\ acked_in \in Nat /\ connect_seq \in Nat /\ connect_ack_sent \in BOOLEAN
  BY DEF TypeOK
<1>2. CASE now
  BY <1>1, <1>2 DEF AckInv, pollAck, coversConnect
<1>3. CASE ~now
  BY <1>1, <1>3 DEF AckInv, pollAck
<1> QED
  BY <1>2, <1>3

\* What the queue gives up, seen from the stream it goes into.
LEMMA FlushAccept ==
    ASSUME StreamInv, pending # << >>,
           sent' = Append(sent, Head(pending)), pending' = Tail(pending)
    PROVE  /\ AcceptInv' /\ sent' # << >> /\ pending' \in Seq(Queueable)
           /\ Head(pending) \in Queueable /\ sent' \in Seq(HostFrame)
<1>1. /\ pending \in Seq(Queueable) /\ sent \in Seq(HostFrame)
      /\ Len(pending) \in Nat \ {0} /\ Len(sent) \in Nat
      /\ Head(pending) \in Queueable /\ Head(pending) = pending[1]
      /\ pending' \in Seq(Queueable) /\ Len(pending') = Len(pending) - 1
      /\ \A i \in 1 .. Len(pending) - 1 : pending'[i] = pending[i + 1]
  BY HeadTailProperties, EmptySeq, LenProperties DEF StreamInv, TypeOK
<1>2. Head(pending) \in HostFrame
  BY <1>1 DEF HostFrame
<1>3. /\ sent' \in Seq(HostFrame) /\ Len(sent') = Len(sent) + 1
      /\ \A n \in 1 .. Len(sent) : sent'[n] = sent[n]
      /\ sent'[Len(sent) + 1] = Head(pending)
  BY <1>1, <1>2, AppendProperties
<1>4. Head(pending) = AFrame <=> sent = << >>
  <2>1. ASSUME sent = << >> PROVE Head(pending) = AFrame
    BY <2>1 DEF StreamInv, AcceptInv, ConnectInv
  <2>2. ASSUME Head(pending) = AFrame PROVE sent = << >>
    BY <1>1, <2>2 DEF StreamInv, AcceptInv
  <2> QED
    BY <2>1, <2>2
<1>5. sent = << >> <=> Len(sent) = 0
  BY <1>1, EmptySeq
<1>6. \A n \in Positions' : sent'[n] = AFrame <=> n = 1
  BY <1>1, <1>3, <1>4, <1>5 DEF Positions, StreamInv, AcceptInv
<1>7. \A i \in 1 .. Len(pending') : pending'[i] # AFrame
  BY <1>1 DEF StreamInv, AcceptInv
<1>8. sent' # << >>
  BY <1>1, <1>3, EmptySeq
<1> QED
  BY <1>1, <1>3, <1>6, <1>7, <1>8 DEF AcceptInv

\* A frame that is not A goes into a stream that has begun.
LEMMA AppendAccept ==
    ASSUME StreamInv, NEW f \in HostFrame, f # AFrame, sent # << >>,
           sent' = Append(sent, f), pending' = << >>
    PROVE  AcceptInv' /\ sent' # << >> /\ sent' \in Seq(HostFrame)
<1>1. /\ sent \in Seq(HostFrame) /\ Len(sent) \in Nat /\ Len(sent) # 0
      /\ sent' \in Seq(HostFrame) /\ Len(sent') = Len(sent) + 1
      /\ \A n \in 1 .. Len(sent) : sent'[n] = sent[n]
      /\ sent'[Len(sent) + 1] = f
  BY AppendProperties, LenProperties, EmptySeq DEF StreamInv, TypeOK
<1>2. \A n \in Positions' : sent'[n] = AFrame <=> n = 1
  BY <1>1 DEF Positions, StreamInv, AcceptInv
<1>3. sent' # << >> /\ Len(pending') = 0
  BY <1>1, EmptySeq
<1> QED
  BY <1>1, <1>2, <1>3 DEF AcceptInv, Positions

\* D goes into the stream as its last frame, and no other frame is D.
LEMMA AppendDisconnect ==
    ASSUME TypeOK, DisconnectInv, NEW f \in HostFrame, ~disconnect_sent,
           sent' = Append(sent, f), f = DFrame => disconnect_sent'
    PROVE  \A n \in Positions' : sent'[n] = DFrame => n = Len(sent') /\ disconnect_sent'
<1>1. /\ sent \in Seq(HostFrame) /\ Len(sent) \in Nat /\ Len(sent') = Len(sent) + 1
      /\ \A n \in 1 .. Len(sent) : sent'[n] = sent[n]
      /\ sent'[Len(sent) + 1] = f
  BY AppendProperties, LenProperties DEF TypeOK
<1> QED
  BY <1>1 DEF Positions, DisconnectInv

LEMMA SendDisconnectStream ==
    ASSUME StreamInv, NEW now \in BOOLEAN, pollAck(now), sendDisconnect,
           UNCHANGED inbox
    PROVE  StreamInv'
<1>1. /\ close_poll_sent /\ ~disconnect_sent /\ close_poll_sent' = close_poll_sent
      /\ disconnect_sent' = TRUE /\ handed' = handed
      /\ sent' = Append(sent, DFrame)
      /\ state' = "DISCONNECTED" /\ pending' = << >>
      /\ connect_id' = connect_id /\ skip_parent_ni' = skip_parent_ni
  BY DEF sendDisconnect, closing, leaderDisconnect, markDisconnect, linkVars, niVars
<1>2. DFrame \in HostFrame /\ DFrame # AFrame
  BY DEF HostFrame, DFrame, AFrame
<1>3. sent # << >>
  BY <1>1 DEF StreamInv, AckInv
<1>4. AcceptInv' /\ sent' # << >> /\ sent' \in Seq(HostFrame)
  BY <1>1, <1>2, <1>3, AppendAccept
<1>5. TypeOK'
  <2>1. disconnect_sent' \in BOOLEAN
    BY <1>1, Zenon
  <2>2. pending' \in Seq(Queueable) /\ state' \in LeaderState
    BY <1>1 DEF LeaderState
  <2> QED
    BY <1>1, <1>4, <2>1, <2>2, PollAckEffect DEF StreamInv, TypeOK
<1>6. AckInv'
  BY <1>3, <1>4, PollAckEffect DEF StreamInv, AckInv
<1>7. ConnectInv'
  BY <1>1, <1>3, PollAckEffect DEF StreamInv, ConnectInv
<1>8. DisconnectInv'
  BY <1>1, <1>2, AppendDisconnect DEF StreamInv, DisconnectInv
<1> QED
  BY <1>4, <1>5, <1>6, <1>7, <1>8 DEF StreamInv

\* The engine may be asked for words and the frame kept back: nothing is sent.
LEMMA HeldBackStream ==
    ASSUME StreamInv, NEW now \in BOOLEAN, pollAck(now), handed' \in Nat,
           UNCHANGED <<leaderVars, sent, close_poll_sent, disconnect_sent, inbox>>
    PROVE  StreamInv'
<1>1. TypeOK'
  BY PollAckEffect DEF StreamInv, TypeOK, leaderVars
<1>2. ConnectInv' /\ AckInv'
  BY PollAckEffect DEF StreamInv, ConnectInv, AckInv, leaderVars
<1>3. AcceptInv' /\ DisconnectInv'
  BY DEF StreamInv, AcceptInv, DisconnectInv, Positions, leaderVars
<1> QED
  BY <1>1, <1>2, <1>3 DEF StreamInv

LEMMA EngineTickEffect ==
    ASSUME TypeOK, NEW words, engineTick(words)
    PROVE  /\ handed' \in Nat
           /\ words = Word \/ words = CloseLink => state = "UNI" /\ handed' = handed + 1
           /\ words # Word /\ words # CloseLink => handed' = handed
           /\ state = "UNI" => words = Word \/ words = CloseLink
BY SessionAssumption DEF TypeOK, engineTick, engineVars

LEMMA Words == {Word, CloseLink, Idle} \subseteq Command /\ Word # Idle /\ CloseLink # Idle
BY SessionAssumption, FrameAssumption

\* The close-link poll is marked sent in a VBlank in which a frame was sent.
LEMMA SendFrameStream ==
    ASSUME StreamInv, NEW now \in BOOLEAN, pollAck(now), sendFrame, UNCHANGED inbox
    PROVE  StreamInv'
<1>1. PICK words \in {Word, CloseLink, Idle} :
          /\ engineTick(words)
          /\ IF ~local_opened /\ ~connect_ack_sent'
             THEN UNCHANGED <<leaderVars, sent, close_poll_sent>>
             ELSE /\ \E out \in ParentFrame(words) \cup {NoFrame} : tick(words, out) /\ Emit(out)
                  /\ close_poll_sent' = (close_poll_sent \/ words = CloseLink)
  BY DEF sendFrame
<1>2. disconnect_sent' = disconnect_sent /\ handed' \in Nat
  BY <1>1, EngineTickEffect DEF sendFrame, StreamInv
<1>3. CASE UNCHANGED <<leaderVars, sent, close_poll_sent>>
  BY <1>2, <1>3, HeldBackStream
<1>4. CASE ~UNCHANGED <<leaderVars, sent, close_poll_sent>>
  <2>1. PICK out \in ParentFrame(words) \cup {NoFrame} : tick(words, out) /\ Emit(out)
    BY <1>1, <1>4
  <2>2. /\ sent # << >> \/ connect_ack_sent'
        /\ close_poll_sent' = (close_poll_sent \/ words = CloseLink)
        /\ words = CloseLink => state = "UNI"
    BY <1>1, <1>4, EngineTickEffect DEF local_opened, StreamInv
  <2>3. connect_ack_sent' /\ (close_poll_sent => sent # << >>)
    BY <2>2, PollAckEffect DEF StreamInv, AckInv
  <2>4. close_poll_sent' \in BOOLEAN
    BY <2>2, Zenon DEF StreamInv, TypeOK
  <2>5. skip_parent_ni' = skip_parent_ni /\ connect_id' = connect_id
    BY <2>1, TickEffect, Words DEF StreamInv
  <2>6. state # "DISCONNECTED" => ~disconnect_sent
    BY DEF StreamInv, DisconnectInv
  <2>7. ASSUME sent' # << >>, AcceptInv', sent' \in Seq(HostFrame),
               pending' \in Seq(Queueable), state' \in LeaderState,
               connect_id # NoId, DisconnectInv', state' = "DISCONNECTED" => pending' = << >>
        PROVE  StreamInv'
    <3>1. TypeOK'
      BY <1>2, <2>4, <2>5, <2>7, PollAckEffect DEF StreamInv, TypeOK
    <3>2. AckInv'
      BY <2>3, <2>7, PollAckEffect DEF StreamInv, AckInv
    <3>3. ConnectInv'
      BY <2>5, <2>7, PollAckEffect DEF StreamInv, ConnectInv
    <3> QED
      BY <2>7, <3>1, <3>2, <3>3 DEF StreamInv
  <2>8. CASE /\ pending # << >> /\ out = Head(pending) /\ pending' = Tail(pending)
             /\ state' = state
    <3>1. Head(pending) \in Queueable /\ pending \in Seq(Queueable)
      BY <2>8 DEF StreamInv, TypeOK
    <3>2. Head(pending) # NoFrame /\ Head(pending) # DFrame /\ Head(pending) \in HostFrame
      BY <3>1, FrameKinds DEF HostFrame
    <3>3. sent' = Append(sent, Head(pending))
      BY <2>1, <2>8, <3>2 DEF Emit
    <3>4. /\ AcceptInv' /\ sent' # << >> /\ pending' \in Seq(Queueable)
          /\ sent' \in Seq(HostFrame)
      BY <2>8, <3>3, FlushAccept
    <3>5. connect_id # NoId /\ state # "DISCONNECTED"
      BY <2>8 DEF StreamInv, ConnectInv
    <3>6. DisconnectInv'
      BY <1>2, <2>6, <2>8, <3>2, <3>3, <3>5, AppendDisconnect DEF StreamInv, DisconnectInv
    <3> QED
      BY <2>7, <2>8, <3>4, <3>5, <3>6 DEF StreamInv, TypeOK
  <2>9. CASE /\ pending = << >> /\ pending' = << >>
             /\ state \in {"PARENT_NI", "KEEPALIVE", "UNI"}
             /\ state' \in {"PARENT_NI", "KEEPALIVE", "UNI"}
             /\ out \in HostFrame /\ out.kind \in {"ni", "uni"}
    <3>1. out # NoFrame /\ out # DFrame /\ out # AFrame
      BY <2>9, FrameKinds
    <3>2. sent' = Append(sent, out)
      BY <2>1, <3>1 DEF Emit
    <3>3. connect_id # NoId /\ sent # << >>
      BY <2>9 DEF StreamInv, ConnectInv, AcceptInv
    <3>4. AcceptInv' /\ sent' # << >> /\ sent' \in Seq(HostFrame)
      BY <2>9, <3>1, <3>2, <3>3, AppendAccept
    <3>5. DisconnectInv'
      BY <1>2, <2>6, <2>9, <3>1, <3>2, AppendDisconnect DEF StreamInv, DisconnectInv
    <3>6. pending' \in Seq(Queueable) /\ state' \in LeaderState
      BY <2>9 DEF LeaderState
    <3> QED
      BY <2>7, <2>9, <3>3, <3>4, <3>5, <3>6
  <2>10. CASE /\ pending = << >> /\ pending' = << >> /\ out = NoFrame
              /\ state \in {"WAIT_CONNECT", "CHILD_NI", "DISCONNECTED"} /\ state' = state
    <3>1. sent' = sent /\ (close_poll_sent' <=> close_poll_sent)
      BY <2>1, <2>2, <2>10 DEF Emit
    <3>2. TypeOK'
      BY <1>2, <2>4, <2>5, <2>10, <3>1, PollAckEffect DEF StreamInv, TypeOK
    <3>3. AckInv' /\ ConnectInv'
      BY <2>3, <2>5, <2>10, <3>1, PollAckEffect DEF StreamInv, AckInv, ConnectInv
    <3>4. AcceptInv' /\ DisconnectInv'
      BY <1>2, <2>5, <2>10, <3>1 DEF StreamInv, AcceptInv, DisconnectInv, Positions
    <3> QED
      BY <3>2, <3>3, <3>4 DEF StreamInv
  <2> QED
    BY <2>1, <2>8, <2>9, <2>10, TickEffect, Words DEF StreamInv
<1> QED
  BY <1>3, <1>4

\* The station leaves: the queue is dropped, what was sent stands.
LEMMA LeaveStream ==
    ASSUME StreamInv, on_ldn_leave
    PROVE  StreamInv'
<1>1. /\ state' = "DISCONNECTED" /\ pending' = << >>
      /\ skip_parent_ni' = skip_parent_ni /\ connect_id' = connect_id
      /\ UNCHANGED <<sent, inbox, in_count, acked_in, connect_seq, handed, connect_ack_sent,
                     close_poll_sent, disconnect_sent>>
  BY DEF on_ldn_leave, leaderDisconnect, linkVars, niVars, linkAckVars, closeVars, engineVars,
     consoleVars
<1>2. pending' \in Seq(Queueable) /\ state' \in LeaderState
  BY <1>1 DEF LeaderState
<1>3. TypeOK'
  BY <1>1, <1>2 DEF StreamInv, TypeOK
<1>4. ConnectInv' /\ AckInv' /\ DisconnectInv'
  BY <1>1 DEF StreamInv, ConnectInv, AckInv, DisconnectInv, Positions
<1>5. AcceptInv'
  BY <1>1 DEF StreamInv, AcceptInv, Positions
<1> QED
  BY <1>3, <1>4, <1>5 DEF StreamInv

LEMMA OtherStream ==
    ASSUME StreamInv, inbox' \in Seq(ConsoleFrame),
           UNCHANGED <<leaderVars, sent, linkAckVars, closeVars, engineVars>>
    PROVE  StreamInv'
<1>1. TypeOK'
  BY DEF StreamInv, TypeOK, leaderVars, linkAckVars, closeVars, engineVars
<1>2. ConnectInv' /\ AckInv'
  BY DEF StreamInv, ConnectInv, AckInv, leaderVars, linkAckVars, closeVars
<1>3. AcceptInv' /\ DisconnectInv'
  BY DEF StreamInv, AcceptInv, DisconnectInv, Positions, leaderVars, closeVars
<1> QED
  BY <1>1, <1>2, <1>3 DEF StreamInv

LEMMA ConsoleStream ==
    ASSUME StreamInv,
           \/ receiveAck \/ consoleAcks \/ (\E n \in Positions : consoleGets(n))
           \/ (\E f \in ConsoleFrame : consoleSays(f)) \/ UNCHANGED vars
    PROVE  StreamInv'
<1>1. inbox \in Seq(ConsoleFrame)
  BY DEF StreamInv, TypeOK
<1>2. UNCHANGED <<leaderVars, sent, linkAckVars, closeVars, engineVars>>
  BY DEF receiveAck, consoleAcks, consoleGets, consoleSays, vars
<1>3. inbox' \in Seq(ConsoleFrame)
  <2>1. CASE UNCHANGED inbox
    BY <1>1, <2>1
  <2>2. CASE \E f \in ConsoleFrame : consoleSays(f)
    BY <1>1, <2>2, AppendProperties DEF consoleSays
  <2> QED
    BY <2>1, <2>2 DEF receiveAck, consoleAcks, consoleGets, vars, consoleVars
<1> QED
  BY <1>2, <1>3, OtherStream

LEMMA NextStream == StreamInv /\ [Next]_vars => StreamInv'
<1> SUFFICES ASSUME StreamInv, [Next]_vars PROVE StreamInv'
  OBVIOUS
<1>1. CASE receive_reliable
  BY <1>1, ReceiveStream
<1>2. ASSUME NEW now \in BOOLEAN, hostTick(now) PROVE StreamInv'
  <2>1. pollAck(now) /\ inbox' = inbox
    BY <1>2 DEF hostTick, consoleVars
  <2>2. CASE held
    <3>1. UNCHANGED <<leaderVars, sent, close_poll_sent, disconnect_sent, handed>>
      BY <2>2 DEF held, closeVars, engineVars
    <3>2. handed' \in Nat
      BY <3>1 DEF StreamInv, TypeOK
    <3> QED
      BY <2>1, <3>1, <3>2, HeldBackStream
  <2>3. CASE sendDisconnect
    BY <2>1, <2>3, SendDisconnectStream
  <2>4. CASE sendFrame
    BY <2>1, <2>4, SendFrameStream
  <2> QED
    BY <1>2, <2>2, <2>3, <2>4 DEF hostTick
<1>3. CASE on_ldn_leave
  BY <1>3, LeaveStream
<1>4. CASE \/ receiveAck \/ consoleAcks \/ (\E n \in Positions : consoleGets(n))
           \/ (\E f \in ConsoleFrame : consoleSays(f)) \/ UNCHANGED vars
  BY <1>4, ConsoleStream
<1> QED
  BY <1>1, <1>2, <1>3, <1>4 DEF Next

LEMMA SpecStream == Spec => []StreamInv
<1> QED
  BY InitStream, NextStream, PTL DEF Spec

\* The console sees A as the first frame of the stream, once, and only after an
\* ack that covers its C, for every window and however often it repeats C.
THEOREM AcceptIsSafe == Spec => []AcceptAfterConnectAck
<1>1. StreamInv => AcceptAfterConnectAck
  BY DEF StreamInv, AckInv, AcceptInv, AcceptAfterConnectAck
<1> QED
  BY <1>1, SpecStream, PTL

-----------------------------------------------------------------------------
(* The words of the engine, for a leader that enters UNI by a frame of its  *)
(* own.                                                                     *)

\* A step that sends nothing and leaves the engine alone.
LEMMA QuietClose ==
    ASSUME CloseInv, StreamInv', state' = "UNI" => pending' = << >> /\ sent' # << >>,
           UNCHANGED <<sent, close_poll_sent>>
    PROVE  CloseInv'
BY DEF CloseInv, PollInv, Positions

LEMMA ReceiveClose ==
    ASSUME OwnHandover, CloseInv, receive_reliable
    PROVE  CloseInv' /\ UNCHANGED <<sent, handed>>
<1>1. Head(inbox) \in ConsoleFrame
  BY HeadTailProperties DEF receive_reliable, CloseInv, StreamInv, TypeOK
<1>2. PICK ev \in Event : receive(Head(inbox), ev)
  BY DEF receive_reliable
<1>3. StreamInv' /\ UNCHANGED <<sent, handed, close_poll_sent>>
  BY ReceiveStream DEF CloseInv, receive_reliable, closeVars
<1>4. skip_parent_ni => KeepaliveFrames > 0
  BY LeaderAssumption DEF OwnHandover, CloseInv, StreamInv, TypeOK
<1>5. TypeOK
  BY DEF CloseInv, StreamInv
<1>6. state' = "UNI" => state = "UNI" /\ pending' = pending
  BY <1>1, <1>2, <1>4, <1>5, ReceiveEffect
<1>7. state' = "UNI" => pending' = << >> /\ sent' # << >>
  BY <1>3, <1>6 DEF CloseInv, PollInv
<1> QED
  BY <1>3, <1>7, QuietClose

isWord(f) == f.kind = "uni" /\ f.words # Idle

\* The words in the stream are counted one frame at a time.
LEMMA WordAtAppend ==
    ASSUME TypeOK, NEW f \in HostFrame, sent' = Append(sent, f)
    PROVE  Cardinality(WordAt') = IF isWord(f) THEN Cardinality(WordAt) + 1 ELSE Cardinality(WordAt)
<1>1. /\ Len(sent) \in Nat /\ Len(sent') = Len(sent) + 1
      /\ \A n \in 1 .. Len(sent) : sent'[n] = sent[n]
      /\ sent'[Len(sent) + 1] = f
  BY AppendProperties, LenProperties DEF TypeOK
<1>2. IsFiniteSet(WordAt) /\ WordAt \subseteq 1 .. Len(sent)
  <2>1. IsFiniteSet(1 .. Len(sent))
    BY <1>1, FS_Interval
  <2> QED
    BY <2>1, FS_Subset DEF WordAt, Positions
<1>3. CASE isWord(f)
  <2>1. WordAt' = WordAt \cup {Len(sent) + 1}
    BY <1>1, <1>3 DEF WordAt, Positions, isWord
  <2>2. Len(sent) + 1 \notin WordAt
    BY <1>1, <1>2
  <2> QED
    BY <1>2, <1>3, <2>1, <2>2, FS_AddElement
<1>4. CASE ~isWord(f)
  <2>1. WordAt' = WordAt
    BY <1>1, <1>4 DEF WordAt, Positions, isWord
  <2> QED
    BY <1>4, <2>1
<1> QED
  BY <1>3, <1>4

\* A poll in the stream stays there.
LEMMA PollStays ==
    ASSUME TypeOK, NEW f \in HostFrame, sent' = Append(sent, f),
           \/ \E m \in Positions : sent[m].kind = "uni" /\ sent[m].words = CloseLink
           \/ f.kind = "uni" /\ f.words = CloseLink
    PROVE  \E m \in Positions' : sent'[m].kind = "uni" /\ sent'[m].words = CloseLink
<1>1. /\ Len(sent) \in Nat /\ Len(sent') = Len(sent) + 1
      /\ \A n \in 1 .. Len(sent) : sent'[n] = sent[n]
      /\ sent'[Len(sent) + 1] = f
  BY AppendProperties, LenProperties DEF TypeOK
<1> QED
  BY <1>1 DEF Positions

LEMMA SendDisconnectClose ==
    ASSUME CloseInv, NoWordLost, StreamInv', sendDisconnect
    PROVE  CloseInv' /\ NoWordLost'
<1>1. /\ close_poll_sent /\ close_poll_sent' = close_poll_sent /\ handed' = handed
      /\ sent' = Append(sent, DFrame) /\ state' = "DISCONNECTED"
  BY DEF sendDisconnect, closing, leaderDisconnect
<1>2. DFrame \in HostFrame /\ ~isWord(DFrame) /\ TypeOK
  BY DEF HostFrame, DFrame, isWord, CloseInv, StreamInv
<1>3. \E m \in Positions' : sent'[m].kind = "uni" /\ sent'[m].words = CloseLink
  BY <1>1, <1>2, PollStays DEF CloseInv, PollInv
<1>4. NoWordLost'
  BY <1>1, <1>2, WordAtAppend DEF NoWordLost, WordAt
<1> QED
  BY <1>1, <1>3, <1>4 DEF CloseInv, PollInv

LEMMA SendFrameClose ==
    ASSUME CloseInv, NoWordLost, StreamInv', sendFrame
    PROVE  CloseInv' /\ NoWordLost'
<1>1. PICK words \in {Word, CloseLink, Idle} :
          /\ engineTick(words)
          /\ IF ~local_opened /\ ~connect_ack_sent'
             THEN UNCHANGED <<leaderVars, sent, close_poll_sent>>
             ELSE /\ \E out \in ParentFrame(words) \cup {NoFrame} : tick(words, out) /\ Emit(out)
                  /\ close_poll_sent' = (close_poll_sent \/ words = CloseLink)
  BY DEF sendFrame
<1>2. TypeOK /\ words \in Command
  BY Words DEF CloseInv, StreamInv
<1>3. CASE state = "UNI"
  <2>1. pending = << >> /\ sent # << >> /\ handed' = handed + 1 /\ words # Idle
    BY <1>1, <1>2, <1>3, EngineTickEffect, Words DEF CloseInv, PollInv
  <2>2. PICK out \in ParentFrame(words) \cup {NoFrame} : tick(words, out) /\ Emit(out)
    BY <1>1, <2>1 DEF local_opened
  <2>3. close_poll_sent' = (close_poll_sent \/ words = CloseLink)
    BY <1>1, <2>1 DEF local_opened
  <2>4. /\ pending' = << >> /\ out \in HostFrame
        /\ out.kind = "uni" /\ out.words = words
    BY <1>2, <1>3, <2>1, <2>2, TickEffect
  <2>5. sent' = Append(sent, out) /\ isWord(out)
    BY <2>1, <2>2, <2>4, FrameKinds DEF Emit, isWord
  <2>6. sent' # << >>
    BY <1>2, <2>4, <2>5 DEF TypeOK
  <2>7. close_poll_sent' =>
            \E m \in Positions' : sent'[m].kind = "uni" /\ sent'[m].words = CloseLink
    BY <1>2, <2>3, <2>4, <2>5, PollStays DEF CloseInv, PollInv
  <2>8. NoWordLost'
    BY <1>2, <2>1, <2>4, <2>5, WordAtAppend DEF NoWordLost, WordAt
  <2> QED
    BY <2>4, <2>6, <2>7, <2>8 DEF CloseInv, PollInv
<1>4. CASE state # "UNI"
  <2>1. handed' = handed /\ words = Idle /\ words # CloseLink
    BY <1>1, <1>2, <1>4, EngineTickEffect, Words
  <2>2. CASE UNCHANGED <<leaderVars, sent, close_poll_sent>>
    BY <1>4, <2>1, <2>2 DEF CloseInv, PollInv, NoWordLost, Positions, leaderVars
  <2>3. CASE ~UNCHANGED <<leaderVars, sent, close_poll_sent>>
    <3>1. PICK out \in ParentFrame(words) \cup {NoFrame} : tick(words, out) /\ Emit(out)
      BY <1>1, <2>3
    <3>2. close_poll_sent' <=> close_poll_sent
      BY <1>1, <2>1, <2>3
    <3>3. CASE out = NoFrame
      <4>1. sent' = sent /\ state' # "UNI"
        <5>1. NoFrame \notin Queueable /\ NoFrame \notin HostFrame
          BY FrameKinds
        <5>2. pending # << >> => Head(pending) \in Queueable
          BY <1>2 DEF TypeOK
        <5> QED
          BY <1>2, <1>4, <3>1, <3>3, <5>1, <5>2, TickEffect DEF Emit
      <4> QED
        BY <2>1, <3>2, <4>1 DEF CloseInv, PollInv, NoWordLost, Positions
    <3>4. CASE out # NoFrame
      <4>1. sent' = Append(sent, out)
        BY <3>1, <3>4 DEF Emit
      <4>2. /\ out \in HostFrame /\ ~isWord(out)
            /\ state' = "UNI" => pending' = << >>
        <5>1. \A r \in Queueable : r \in HostFrame /\ ~isWord(r)
          BY FrameKinds DEF HostFrame, isWord
        <5>2. pending # << >> => Head(pending) \in Queueable
          BY <1>2 DEF TypeOK
        <5> QED
          BY <1>2, <1>4, <2>1, <3>1, <3>4, <5>1, <5>2, TickEffect DEF isWord
      <4>3. sent' # << >>
        BY <1>2, <4>1, <4>2 DEF TypeOK
      <4>4. close_poll_sent' =>
                \E m \in Positions' : sent'[m].kind = "uni" /\ sent'[m].words = CloseLink
        BY <1>2, <3>2, <4>1, <4>2, PollStays DEF CloseInv, PollInv
      <4>5. NoWordLost'
        BY <1>2, <2>1, <4>1, <4>2, WordAtAppend DEF NoWordLost, WordAt
      <4> QED
        BY <4>2, <4>3, <4>4, <4>5 DEF CloseInv, PollInv
    <3> QED
      BY <3>3, <3>4
  <2> QED
    BY <2>2, <2>3
<1> QED
  BY <1>3, <1>4

LEMMA InitClose == Init => CloseInv /\ NoWordLost
<1> SUFFICES ASSUME Init PROVE CloseInv /\ NoWordLost
  OBVIOUS
<1>1. StreamInv
  BY InitStream
<1>2. sent = << >> /\ handed = 0 /\ state # "UNI" /\ ~close_poll_sent
  BY DEF Init, LeaderInit
<1>3. PollInv
  BY <1>2 DEF PollInv
<1>4. {n \in Positions : sent[n].kind = "uni" /\ sent[n].words # Idle} = {}
  BY <1>2 DEF Positions
<1> QED
  BY <1>1, <1>2, <1>3, <1>4, FS_EmptySet DEF CloseInv, NoWordLost

LEMMA NextClose ==
    ASSUME OwnHandover
    PROVE  CloseInv /\ NoWordLost /\ [Next]_vars => CloseInv' /\ NoWordLost'
<1> SUFFICES ASSUME CloseInv, NoWordLost, [Next]_vars PROVE CloseInv' /\ NoWordLost'
  OBVIOUS
<1>1. StreamInv'
  BY NextStream DEF CloseInv
<1>2. CASE receive_reliable
  BY <1>2, ReceiveClose DEF NoWordLost, Positions
<1>3. ASSUME /\ UNCHANGED <<sent, handed, close_poll_sent>>
             /\ UNCHANGED leaderVars \/ state' = "DISCONNECTED"
      PROVE  CloseInv' /\ NoWordLost'
  <2>1. state' = "UNI" => pending' = << >> /\ sent' # << >>
    BY <1>3 DEF CloseInv, PollInv, leaderVars
  <2> QED
    BY <1>1, <1>3, <2>1, QuietClose DEF NoWordLost, Positions
<1>4. ASSUME NEW now \in BOOLEAN, hostTick(now) PROVE CloseInv' /\ NoWordLost'
  <2>1. CASE held
    BY <1>3, <2>1 DEF held, closeVars, engineVars
  <2>2. CASE sendDisconnect
    BY <1>1, <2>2, SendDisconnectClose
  <2>3. CASE sendFrame
    BY <1>1, <2>3, SendFrameClose
  <2> QED
    BY <1>4, <2>1, <2>2, <2>3 DEF hostTick
<1>5. CASE on_ldn_leave
  BY <1>3, <1>5 DEF on_ldn_leave, leaderDisconnect, closeVars, engineVars
<1>6. CASE \/ receiveAck \/ consoleAcks \/ (\E n \in Positions : consoleGets(n))
           \/ (\E f \in ConsoleFrame : consoleSays(f)) \/ UNCHANGED vars
  BY <1>3, <1>6 DEF receiveAck, consoleAcks, consoleGets, consoleSays, vars, closeVars, engineVars
<1> QED
  BY <1>2, <1>4, <1>5, <1>6 DEF Next

LEMMA SpecClose == OwnHandover /\ Spec => [](CloseInv /\ NoWordLost)
<1>1. ASSUME OwnHandover PROVE Spec => [](CloseInv /\ NoWordLost)
  <2>1. CloseInv /\ NoWordLost /\ [Next]_vars => (CloseInv /\ NoWordLost)'
    BY <1>1, NextClose
  <2>2. Init => CloseInv /\ NoWordLost
    BY InitClose
  <2> QED
    BY <2>1, <2>2, PTL DEF Spec
<1> QED
  BY <1>1

\* The disconnect frame ends the stream and there is one, however long the
\* stream and whoever ends the link; a close-link poll went out before it.
THEOREM DisconnectIsLast == OwnHandover /\ Spec => []DisconnectEndsStream
<1>1. CloseInv => DisconnectEndsStream
  <2> SUFFICES ASSUME CloseInv, NEW n \in Positions, sent[n] = DFrame
               PROVE  /\ n = Len(sent)
                      /\ \E m \in 1 .. n - 1 : sent[m].kind = "uni" /\ sent[m].words = CloseLink
    BY DEF DisconnectEndsStream
  <2>1. n = Len(sent) /\ close_poll_sent /\ Len(sent) \in Nat
    BY LenProperties DEF CloseInv, StreamInv, TypeOK, DisconnectInv
  <2>2. PICK m \in Positions : sent[m].kind = "uni" /\ sent[m].words = CloseLink
    BY <2>1 DEF CloseInv, PollInv
  <2>3. m # n
    BY <2>2 DEF DFrame
  <2> QED
    BY <2>1, <2>2, <2>3 DEF Positions
<1> QED
  BY <1>1, SpecClose, PTL

\* Every word the engine hands out is in the stream, for every number of them
\* and however often the session holds the engine back.
THEOREM EveryWordIsSent == OwnHandover /\ Spec => []NoWordLost
BY SpecClose, PTL
=============================================================================
