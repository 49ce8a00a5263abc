------------------------------ MODULE Reliable ------------------------------
(***************************************************************************)
(* Two peers running the Pia Reliable session of pokeldn/ldn/reliable.py   *)
(* (HostReliableSession on top of ReliableLink) over a network that loses, *)
(* duplicates and reorders packets.                                        *)
(*                                                                         *)
(* Payloads are abstracted to the position of the frame in the stream of   *)
(* its sender (0, 1, 2, ...), so the order and the multiplicity of what    *)
(* the application receives can be told from the values alone.  Clocks are *)
(* abstracted to choice: at any poll any unacked frame may have reached    *)
(* its retransmission time and the delayed ack may have become due.        *)
(***************************************************************************)
EXTENDS SeqNum, Sequences, FiniteSets

CONSTANTS
    Peer,             \* the two ends
    MaxInflight,      \* MAX_INFLIGHT: frames kept in the send window (128)
    MaskBits,         \* bits of the selective-ack mask (128)
    NackThreshold,    \* dup_nack_threshold
    RetransmitLimit,  \* due_retransmits(limit=...), 0 for no limit
    Quota             \* Quota[p]: frames p sends (bounds the model)

ASSUME PeerAssumption == \E a, b \in Peer : a # b /\ Peer = {a, b}
ASSUME WindowAssumption ==
    /\ MaxInflight \in Nat \ {0}
    /\ MaskBits \in Nat
    /\ MaxInflight <= MaskBits
    /\ MaxInflight < Half
    /\ MaskBits < SeqSpace
ASSUME LimitAssumption ==
    /\ NackThreshold \in Nat \ {0}
    /\ RetransmitLimit \in Nat
    /\ Quota \in [Peer -> Nat]

NoGap == -1           \* _peer_gap is None

VARIABLES
    net,              \* packets in the air
    \* the send side of each peer (ReliableLink)
    localOpened,      \* the opening frame was queued
    outSeq,           \* id of the next new frame
    windowLo,         \* lowest id still in the window
    unacked,          \* id -> [inner, init, resent, acked]
    peerGap,          \* the hole the other end last reported, or NoGap
    gapNacks,         \* how often it reported it (saturates at NackThreshold)
    \* the receive side of each peer
    peerOpened,       \* an Initialized frame has arrived
    recvNext,         \* next id expected by the ack accounting
    recvOoo,          \* ids received beyond recvNext
    ackOwed,          \* data arrived since the last bulk ack
    ackArmed,         \* _next_ack_ms is not None
    deliverNext,      \* next id due to the application
    deliverBuf,       \* id -> payload, frames waiting for a hole to close
    \* history
    sent,             \* number of frames queued so far
    base,             \* number of frames that have left the window
    delivered         \* payloads given to the application, in order

sendVars == <<localOpened, outSeq, windowLo, unacked, peerGap, gapNacks, sent, base>>
recvVars == <<peerOpened, recvNext, recvOoo, deliverNext, deliverBuf, delivered>>
ackVars  == <<ackOwed, ackArmed>>
vars     == <<net, sendVars, recvVars, ackVars>>

Other(p) == CHOOSE q \in Peer : q # p

\* A DATA frame; retransmissions of a frame are the same packet.  The header's
\* window base is left out: receive() never reads it.
DataTo(p, s, e) == [type |-> "data", to |-> p, seq |-> s, init |-> e.init,
                    inner |-> e.inner]

\* A bulk ack.  upto is history: how many frames the id stands for.
AckTo(p, id, mask, n) == [type |-> "ack", to |-> p, ackId |-> id, mask |-> mask,
                          upto |-> n]

Entry == [inner : Nat, init : BOOLEAN, resent : BOOLEAN, acked : BOOLEAN]

\* A function from some of the keys K to values V.
IsMap(f, K, V) ==
    /\ f = [k \in DOMAIN f |-> f[k]]
    /\ DOMAIN f \subseteq K
    /\ \A k \in DOMAIN f : f[k] \in V

EmptyMap == [k \in {} |-> 0]

inflight(p) == Cardinality(DOMAIN unacked[p])

\* Frames of the window that the other end has not acknowledged.
Outstanding(p) == {s \in DOMAIN unacked[p] : ~unacked[p][s].acked}

Init ==
    /\ net = {}
    /\ localOpened = [p \in Peer |-> FALSE]
    /\ outSeq      = [p \in Peer |-> Start]
    /\ windowLo    = [p \in Peer |-> Start]
    /\ unacked     = [p \in Peer |-> EmptyMap]
    /\ peerGap     = [p \in Peer |-> NoGap]
    /\ gapNacks    = [p \in Peer |-> 0]
    /\ peerOpened  = [p \in Peer |-> FALSE]
    /\ recvNext    = [p \in Peer |-> Start]
    /\ recvOoo     = [p \in Peer |-> {}]
    /\ ackOwed     = [p \in Peer |-> FALSE]
    /\ ackArmed    = [p \in Peer |-> FALSE]
    /\ deliverNext = [p \in Peer |-> Start]
    /\ deliverBuf  = [p \in Peer |-> EmptyMap]
    /\ sent        = [p \in Peer |-> 0]
    /\ base        = [p \in Peer |-> 0]
    /\ delivered   = [p \in Peer |-> << >>]

-----------------------------------------------------------------------------
(* Sending.                                                                *)

\* ReliableLink.queue: allocate the next id and put the frame on the air.
queue(p, init) ==
    LET s == outSeq[p]
        e == [inner |-> sent[p], init |-> init, resent |-> FALSE, acked |-> FALSE]
    IN  /\ unacked' = [unacked EXCEPT ![p] =
                          [k \in DOMAIN unacked[p] \cup {s} |->
                              IF k = s THEN e ELSE unacked[p][k]]]
        /\ outSeq' = [outSeq EXCEPT ![p] = Plus(s, 1)]
        /\ sent' = [sent EXCEPT ![p] = @ + 1]
        /\ net' = net \cup {DataTo(Other(p), s, e)}
        /\ UNCHANGED <<windowLo, peerGap, gapNacks, base>>

\* HostReliableSession.open: idempotent, so only the first call has an effect.
open(p) ==
    /\ ~localOpened[p]
    /\ sent[p] < Quota[p]
    /\ localOpened' = [localOpened EXCEPT ![p] = TRUE]
    /\ queue(p, TRUE)
    /\ UNCHANGED <<recvVars, ackVars>>

\* HostReliableSession.send: raises when unopened or when the window is full.
send(p) ==
    /\ localOpened[p]
    /\ inflight(p) < MaxInflight
    /\ sent[p] < Quota[p]
    /\ queue(p, FALSE)
    /\ UNCHANGED <<localOpened, recvVars, ackVars>>

-----------------------------------------------------------------------------
(* Receiving DATA.                                                         *)

\* Mutant: the run behind a closed hole is not taken along.
note_receivedOnce(p, s) ==
    \/ /\ s = recvNext[p]
       /\ recvNext' = [recvNext EXCEPT ![p] = Plus(s, 1)]
       /\ UNCHANGED recvOoo
    \/ /\ SeqLt(recvNext[p], s)
       /\ recvOoo' = [recvOoo EXCEPT ![p] = @ \cup {s}]
       /\ UNCHANGED recvNext
    \/ /\ s # recvNext[p]
       /\ ~SeqLt(recvNext[p], s)
       /\ UNCHANGED <<recvNext, recvOoo>>

\* ReliableLink.note_received: the accounting that acks are built from.
note_received(p, s) ==
    \/ /\ s = recvNext[p]
       /\ \E n \in 0 .. SeqSpace - 1 :
             /\ IsRun(Plus(s, 1), recvOoo[p], n)
             /\ recvNext' = [recvNext EXCEPT ![p] = Plus(s, n + 1)]
             /\ recvOoo' = [recvOoo EXCEPT ![p] =
                               @ \ {Plus(s, k) : k \in 1 .. n}]
    \/ /\ SeqLt(recvNext[p], s)
       /\ recvOoo' = [recvOoo EXCEPT ![p] = @ \cup {s}]
       /\ UNCHANGED recvNext
    \/ /\ s # recvNext[p]
       /\ ~SeqLt(recvNext[p], s)
       /\ UNCHANGED <<recvNext, recvOoo>>

\* Mutant: a repeated frame is handed out again.
deliverAgain(p, s, inner) ==
    /\ ~SeqLt(deliverNext[p], s)
    /\ deliverNext' = [deliverNext EXCEPT ![p] = IF s = @ THEN Plus(s, 1) ELSE @]
    /\ delivered' = [delivered EXCEPT ![p] = Append(@, inner)]
    /\ UNCHANGED deliverBuf

\* Mutant: frames are handed out as they land, holes or not.
deliverAtOnce(p, s, inner) ==
    \/ /\ s = deliverNext[p] \/ SeqLt(deliverNext[p], s)
       /\ deliverNext' = [deliverNext EXCEPT ![p] = Plus(s, 1)]
       /\ delivered' = [delivered EXCEPT ![p] = Append(@, inner)]
       /\ UNCHANGED deliverBuf
    \/ /\ s # deliverNext[p]
       /\ ~SeqLt(deliverNext[p], s)
       /\ UNCHANGED <<deliverNext, deliverBuf, delivered>>

\* HostReliableSession._deliver: what reaches the application, in order.
deliver(p, s, inner) ==
    \/ /\ s = deliverNext[p]
       /\ \E n \in 0 .. SeqSpace - 1 :
             /\ IsRun(Plus(s, 1), DOMAIN deliverBuf[p], n)
             /\ deliverNext' = [deliverNext EXCEPT ![p] = Plus(s, n + 1)]
             /\ delivered' = [delivered EXCEPT ![p] = @ \o
                   [i \in 1 .. n + 1 |->
                       IF i = 1 THEN inner ELSE deliverBuf[p][Plus(s, i - 1)]]]
             /\ deliverBuf' = [deliverBuf EXCEPT ![p] =
                   [k \in DOMAIN deliverBuf[p] \ {Plus(s, j) : j \in 1 .. n} |->
                       deliverBuf[p][k]]]
    \/ /\ SeqLt(deliverNext[p], s)
       /\ deliverBuf' = [deliverBuf EXCEPT ![p] =
             [k \in DOMAIN deliverBuf[p] \cup {s} |->
                 IF k \in DOMAIN deliverBuf[p] THEN deliverBuf[p][k] ELSE inner]]
       /\ UNCHANGED <<deliverNext, delivered>>
    \/ /\ s # deliverNext[p]
       /\ ~SeqLt(deliverNext[p], s)
       /\ UNCHANGED <<deliverNext, deliverBuf, delivered>>

\* A packet does not stay in the air while half of the id space goes by; with
\* 16-bit ids that is 32768 frames.
FreshData(p, m) == Len(delivered[p]) <= m.inner + Half
FreshAck(p, m)  == sent[p] <= m.upto + Half

\* A plain frame must not consume the slot of the Initialized opening frame.
PlainBeforeOpen(p, m) == ~peerOpened[p] /\ m.seq = Start /\ ~m.init

\* Mutant: only news is acknowledged, so a lost ack is never repeated.
receiveDataAckNews(p, m) ==
    /\ m.type = "data" /\ m.to = p
    /\ FreshData(p, m)
    /\ ~PlainBeforeOpen(p, m)
    /\ peerOpened' = [peerOpened EXCEPT ![p] = @ \/ m.init]
    /\ note_received(p, m.seq)
    /\ ackOwed' = [ackOwed EXCEPT ![p] = @ \/ recvNext' # recvNext]
    /\ ackArmed' = [ackArmed EXCEPT ![p] = @ \/ recvNext' # recvNext]
    /\ deliver(p, m.seq, m.inner)
    /\ UNCHANGED <<net, sendVars>>

\* HostReliableSession.receive on a DATA frame.
receiveData(p, m) ==
    /\ m.type = "data" /\ m.to = p
    /\ FreshData(p, m)
    /\ ~PlainBeforeOpen(p, m)
    /\ peerOpened' = [peerOpened EXCEPT ![p] = @ \/ m.init]
    /\ note_received(p, m.seq)
    /\ ackOwed' = [ackOwed EXCEPT ![p] = TRUE]
    /\ ackArmed' = [ackArmed EXCEPT ![p] = TRUE]
    /\ deliver(p, m.seq, m.inner)
    /\ UNCHANGED <<net, sendVars>>

-----------------------------------------------------------------------------
(* Receiving an ack.                                                       *)

MASK_ORIGIN_OFFSET == 1

MaskBit(id, s) == Minus(s, Plus(id, MASK_ORIGIN_OFFSET))

\* Mutant: the mask is read one id too early, so it marks the peer's hole.
arrivedEarly(m, s) == SeqLt(s, m.ackId) \/ Minus(s, m.ackId) \in m.mask

\* The bulk ack m says that the frame with id s has arrived.
arrived(m, s) == SeqLt(s, m.ackId) \/ MaskBit(m.ackId, s) \in m.mask

\* Mutant: the base moves over the whole window, acked or not.
slideUnacked(p, marked) ==
    \E n \in 0 .. MaxInflight :
       /\ IsRun(windowLo[p], DOMAIN marked, n)
       /\ windowLo' = [windowLo EXCEPT ![p] = Plus(@, n)]
       /\ base' = [base EXCEPT ![p] = @ + n]
       /\ unacked' = [unacked EXCEPT ![p] = EmptyMap]

\* The window base moves over the contiguous acked run only.
slide(p, marked) ==
    \E n \in 0 .. MaxInflight :
       /\ IsRun(windowLo[p], {s \in DOMAIN marked : marked[s].acked}, n)
       /\ windowLo' = [windowLo EXCEPT ![p] = Plus(@, n)]
       /\ base' = [base EXCEPT ![p] = @ + n]
       /\ unacked' = [unacked EXCEPT ![p] =
             [s \in DOMAIN marked \ {Plus(windowLo[p], k) : k \in 0 .. n - 1} |->
                 marked[s]]]

\* An ack whose mask is not empty names the peer's first hole.
countNack(p, m, window) ==
    IF m.mask # {} /\ m.ackId \in DOMAIN window /\ ~window[m.ackId].acked
    THEN /\ peerGap' = [peerGap EXCEPT ![p] = m.ackId]
         /\ gapNacks' = [gapNacks EXCEPT ![p] =
               IF m.ackId # peerGap[p] THEN 1
               ELSE IF @ < NackThreshold THEN @ + 1 ELSE @]
    ELSE /\ peerGap' = [peerGap EXCEPT ![p] = NoGap]
         /\ gapNacks' = [gapNacks EXCEPT ![p] = 0]

\* ReliableLink.on_ack, reached from HostReliableSession.receive.
on_ack(p, m) ==
    /\ m.type = "ack" /\ m.to = p
    /\ FreshAck(p, m)
    /\ LET marked == [s \in DOMAIN unacked[p] |->
                         [unacked[p][s] EXCEPT !.acked = @ \/ arrived(m, s)]]
       IN slide(p, marked)
    /\ countNack(p, m, unacked'[p])
    /\ UNCHANGED <<net, localOpened, outSeq, sent, recvVars, ackVars>>

-----------------------------------------------------------------------------
(* The timer-driven poll.                                                  *)

\* The first response to a fresh report of a hole does not wait for a timer.
FastDue(p) ==
    {s \in Outstanding(p) :
        /\ s = peerGap[p]
        /\ gapNacks[p] >= NackThreshold
        /\ ~unacked[p][s].resent}

\* Outstanding frames older than s, in window order.
Older(p, s) == {t \in Outstanding(p) : Minus(t, windowLo[p]) < Minus(s, windowLo[p])}

\* due_retransmits walks the window from its oldest frame; with a limit it
\* stops at the first frame that is not due and after `limit' frames.
due_retransmits(p, due) ==
    {s \in due : RetransmitLimit = 0
                   \/ /\ Older(p, s) \subseteq due
                      /\ Cardinality(Older(p, s)) < RetransmitLimit}

\* ReliableLink.ack_payload.
ack_payload(p) ==
    AckTo(Other(p), recvNext[p],
          {MaskBit(recvNext[p], s) : s \in recvOoo[p]} \cap (0 .. MaskBits - 1),
          Len(delivered[p]))

\* HostReliableSession.poll: `due' are the frames whose time has come, and
\* `elapsed' says that the delayed-ack time has.
poll(p, due, elapsed) ==
    LET again  == due_retransmits(p, due)
        ackNow == elapsed /\ ackArmed[p] /\ (ackOwed[p] \/ recvOoo[p] # {})
    IN  /\ due \subseteq Outstanding(p)
        /\ FastDue(p) \subseteq due
        /\ unacked' = [unacked EXCEPT ![p] =
              [s \in DOMAIN unacked[p] |->
                  [unacked[p][s] EXCEPT !.resent = @ \/ s \in again]]]
        /\ gapNacks' = [gapNacks EXCEPT ![p] =
              IF peerGap[p] \in again /\ @ >= NackThreshold THEN 0 ELSE @]
        /\ net' = net \cup {DataTo(Other(p), s, unacked[p][s]) : s \in again}
                      \cup (IF ackNow THEN {ack_payload(p)} ELSE {})
        /\ ackOwed' = [ackOwed EXCEPT ![p] = @ /\ ~ackNow]
        /\ ackArmed' = [ackArmed EXCEPT ![p] = IF ackNow THEN recvOoo[p] # {} ELSE @]
        /\ UNCHANGED <<localOpened, outSeq, windowLo, peerGap, sent, base, recvVars>>

\* The air loses a packet.
lose(m) ==
    /\ net' = net \ {m}
    /\ UNCHANGED <<sendVars, recvVars, ackVars>>

Next ==
    \/ \E p \in Peer :
          \/ open(p)
          \/ send(p)
          \/ \E m \in net : receiveData(p, m)
          \/ \E m \in net : on_ack(p, m)
          \/ \E due \in SUBSET Outstanding(p), elapsed \in BOOLEAN : poll(p, due, elapsed)
    \/ \E m \in net : lose(m)

Spec == Init /\ [][Next]_vars

-----------------------------------------------------------------------------
(* Fairness: both ends are polled for ever and time passes, so a frame that *)
(* stays unacked comes due again and again and an owed ack goes out; the    *)
(* air may lose any packet but not every copy of one that is sent for ever. *)

pollFrame(p, s) == \E due \in SUBSET Outstanding(p), elapsed \in BOOLEAN :
                      /\ s \in due_retransmits(p, due)
                      /\ poll(p, due, elapsed)

pollAck(p) == \E due \in SUBSET Outstanding(p) :
                 /\ ackArmed[p] /\ (ackOwed[p] \/ recvOoo[p] # {})
                 /\ poll(p, due, TRUE)

\* receiveData and on_ack on the packets that stand for one position.
receiveFrame(p, i) == \E m \in net : m.type = "data" /\ m.inner = i /\ receiveData(p, m)
receiveAck(p, i)   == \E m \in net : m.type = "ack" /\ m.upto = i /\ on_ack(p, m)

Fairness ==
    \A p \in Peer :
       /\ WF_vars(open(p))
       /\ WF_vars(pollAck(p))
       /\ \A s \in SeqId : WF_vars(pollFrame(p, s))
       /\ \A i \in 0 .. Quota[Other(p)] - 1 : SF_vars(receiveFrame(p, i))
       /\ \A i \in 1 .. Quota[p] : SF_vars(receiveAck(p, i))

FairSpec == Spec /\ Fairness

-----------------------------------------------------------------------------
(* Properties.                                                             *)

Received(p, i) == \/ i < Len(delivered[p])
                  \/ IdOf(i) \in recvOoo[p]

TypeOK ==
    /\ localOpened \in [Peer -> BOOLEAN]
    /\ peerOpened \in [Peer -> BOOLEAN]
    /\ ackOwed \in [Peer -> BOOLEAN]
    /\ ackArmed \in [Peer -> BOOLEAN]
    /\ outSeq \in [Peer -> SeqId]
    /\ windowLo \in [Peer -> SeqId]
    /\ recvNext \in [Peer -> SeqId]
    /\ deliverNext \in [Peer -> SeqId]
    /\ peerGap \in [Peer -> SeqId \cup {NoGap}]
    /\ gapNacks \in [Peer -> 0 .. NackThreshold]
    /\ recvOoo \in [Peer -> SUBSET SeqId]
    /\ sent \in [Peer -> Nat]
    /\ base \in [Peer -> Nat]
    /\ delivered \in [Peer -> Seq(Nat)]
    /\ DOMAIN unacked = Peer
    /\ DOMAIN deliverBuf = Peer
    /\ \A p \in Peer : IsMap(unacked[p], SeqId, Entry) /\ IsMap(deliverBuf[p], SeqId, Nat)

\* What the application is handed is the other end's stream from its first
\* frame on: nothing lost, repeated or out of order, across the id wrap too.
InOrderExactlyOnce ==
    \A p \in Peer :
       /\ Len(delivered[p]) <= sent[Other(p)]
       /\ \A i \in 1 .. Len(delivered[p]) : delivered[p][i] = i - 1

\* A frame the sender counts as acked, or has let go of, did arrive: reading
\* the mask one id off would mark the peer's hole, and it would never be resent.
AckedWasReceived ==
    \A p \in Peer :
       /\ base[p] <= Len(delivered[Other(p)])
       /\ \A s \in DOMAIN unacked[p] :
             unacked[p][s].acked => Received(Other(p), unacked[p][s].inner)

\* The ack accounting and the delivery order are kept apart in the code; an id
\* acked by one and not held by the other would be a frame lost for good.
DeliveryTracksAcks ==
    \A p \in Peer :
       /\ deliverNext[p] = recvNext[p]
       /\ DOMAIN deliverBuf[p] = recvOoo[p]

\* Every id received beyond a hole fits the selective-ack mask, so an ack
\* always reports all that arrived.
MaskCoversReceived ==
    \A p \in Peer : \A s \in recvOoo[p] : MaskBit(recvNext[p], s) < MaskBits

\* Every frame that was queued is delivered at the other end and in the end
\* leaves the window of its sender, whatever the air loses on the way.
QueuedIsDelivered ==
    \A p \in Peer : \A i \in 0 .. Quota[p] - 1 :
       sent[p] > i ~> (Len(delivered[Other(p)]) > i /\ base[p] > i)

\* The session implements the two queues it promises.
Promise == INSTANCE Stream
ImplementsStream == Promise!Spec

-----------------------------------------------------------------------------
(* The inductive invariant behind the safety properties: every id that one  *)
(* end holds is the id of a position, and the positions of the two ends are *)
(* within one window of each other.                                         *)

\* Number of frames p's application has consumed.
consumed(p) == Len(delivered[p])

WindowInv(p) ==
    /\ base[p] <= sent[p]
    /\ sent[p] <= base[p] + MaxInflight
    /\ outSeq[p] = IdOf(sent[p])
    /\ windowLo[p] = IdOf(base[p])
    /\ localOpened[p] <=> sent[p] # 0
    /\ DOMAIN unacked[p] = {IdOf(i) : i \in base[p] .. sent[p] - 1}
    /\ \A i \in base[p] .. sent[p] - 1 :
          /\ unacked[p][IdOf(i)].inner = i
          /\ unacked[p][IdOf(i)].init = (i = 0)

\* q receives what p sends.
ReceiveInv(q, p) ==
    /\ base[p] <= consumed(q)
    /\ consumed(q) <= sent[p]
    /\ recvNext[q] = IdOf(consumed(q))
    /\ deliverNext[q] = IdOf(consumed(q))
    /\ \A i \in 1 .. consumed(q) : delivered[q][i] = i - 1
    /\ \A s \in recvOoo[q] : \E i \in consumed(q) + 1 .. sent[p] - 1 : s = IdOf(i)
    /\ DOMAIN deliverBuf[q] = recvOoo[q]
    /\ \A i \in consumed(q) + 1 .. sent[p] - 1 :
          IdOf(i) \in recvOoo[q] => deliverBuf[q][IdOf(i)] = i

AckInv(p, q) ==
    \A i \in base[p] .. sent[p] - 1 :
       unacked[p][IdOf(i)].acked => Received(q, i)

\* m travels from p to q.
DataInv(m, p) ==
    /\ m.inner \in Nat
    /\ m.inner < sent[p]
    /\ m.seq = IdOf(m.inner)
    /\ m.init = (m.inner = 0)

AckMessageInv(m, p, q) ==
    /\ m.upto \in Nat
    /\ m.upto <= consumed(p)
    /\ m.ackId = IdOf(m.upto)
    /\ m.mask \subseteq 0 .. MaskBits - 1
    /\ \A b \in m.mask : /\ m.upto + 1 + b < sent[q]
                         /\ Received(p, m.upto + 1 + b)

NetInv ==
    \A m \in net : /\ m.to \in Peer
                   /\ m.type \in {"data", "ack"}
                   /\ m.type = "data" => DataInv(m, Other(m.to))
                   /\ m.type = "ack" => AckMessageInv(m, Other(m.to), m.to)

Inv ==
    /\ TypeOK
    /\ \A p \in Peer : /\ WindowInv(p)
                        /\ ReceiveInv(p, Other(p))
                        /\ AckInv(p, Other(p))
    /\ NetInv
=============================================================================
