---------------------------- MODULE PartyExchange ---------------------------
(***************************************************************************)
(* BufferTradeParties between HostTradeEngine (host_trade.py) and          *)
(* TradeEngine (trade.py), the part both spend in block transfers: Rounds  *)
(* times the host asks for a block of the joiner, sends one of its own and *)
(* waits for the joiner to go idle.  (The code has five rounds: three      *)
(* party pairs, mail and ribbons.)                                         *)
(*                                                                         *)
(* The joiner's slots reach the host in order and once.  A frame of the    *)
(* host carries its own words and one mirrored slot of the joiner; the     *)
(* joiner takes frames as they land (sim.py:248), so a frame whose         *)
(* datagram was lost is overtaken by younger ones.                         *)
(***************************************************************************)
EXTENDS BlockTransfer, SequencesExt

CONSTANTS
    Rounds,
    ChildFrags, HostFrags,   \* fragments of a block (17 of a party block)
    Settle,                  \* party_link_settle_frames (30)
    OutstandingMax,          \* HOST_OUTSTANDING_MAX: host frames that have not landed
    ChildWindow,             \* MAX_INFLIGHT: joiner slots on their way
    SlotCreditMax,           \* SLOT_CREDIT_MAX (2)
    QuietMax,                \* bound: slots CHILD_SILENCE_LIMIT (20) grants in all
    LateMax                  \* bound: frames of the host that younger ones overtake

ASSUME ExchangeAssumption ==
    /\ {Rounds, ChildFrags, HostFrags, Settle, OutstandingMax, ChildWindow,
        SlotCreditMax} \subseteq Nat \ {0}
    /\ {QuietMax, LateMax} \subseteq Nat
    /\ HoldGap < Settle

VARIABLES
    \* the host
    expected,         \* _expected: the round it is in, 0 when the exchange is over
    req_due,          \* _words holds the BLOCK_REQ
    blocks,           \* _blocks: own blocks that wait
    host_sender,      \* _sender
    rx,               \* _rx
    child_party,      \* per round, the joiner's block
    settling,         \* _link_waiting_idle
    idle_frames,      \* _link_idle_frames
    echo_queue, echo_row,
    \* the joiner
    host_rx,          \* rx.peers[0]: the host's blocks
    ack,              \* rx.peers[1]: the host's mirror of our own block
    child_sender,     \* sender
    party_sent,       \* _party_sent
    host_party,       \* _host_party, one entry per block counted
    slot_credit,      \* _slot_credit
    quiet_left,       \* what is left of QuietMax
    \* the link
    downlink, uplink,
    behind,           \* how many at the head of downlink have been overtaken
    late              \* frames that have been overtaken so far

hostVars  == <<expected, req_due, blocks, host_sender, rx, child_party, settling,
               idle_frames, echo_queue, echo_row>>
childVars == <<host_rx, ack, child_sender, party_sent, host_party, slot_credit, quiet_left,
               behind, late>>
vars == <<hostVars, childVars, downlink, uplink>>

NoBlock == << >>

Init ==
    /\ expected = 1 /\ req_due = TRUE /\ blocks = <<1>>
    /\ host_sender = NoSender /\ rx = EmptyRecv
    /\ child_party = [r \in 1 .. Rounds |-> NoBlock]
    /\ settling = FALSE /\ idle_frames = 0
    /\ echo_queue = << >> /\ echo_row = IdleSlot
    /\ host_rx = EmptyRecv /\ ack = EmptyRecv
    /\ child_sender = NoSender /\ party_sent = 0 /\ host_party = << >>
    /\ slot_credit = 0 /\ quiet_left = QuietMax
    /\ downlink = << >> /\ uplink = << >> /\ behind = 0 /\ late = 0

-----------------------------------------------------------------------------
(* The host.                                                               *)

\* The row it mirrors: the next slot that waits, or the last one again.
emit(words) ==
    /\ Len(downlink) < OutstandingMax
    /\ echo_row' = IF echo_queue = << >> THEN echo_row ELSE Head(echo_queue)
    /\ echo_queue' = IF echo_queue = << >> THEN echo_queue ELSE Tail(echo_queue)
    /\ downlink' = Append(downlink, [words |-> words, echo |-> echo_row'])
    /\ UNCHANGED <<expected, rx, child_party, settling, idle_frames, childVars, uplink>>

hostRequest ==
    /\ req_due
    /\ req_due' = FALSE
    /\ emit(ReqSlot)
    /\ UNCHANGED <<blocks, host_sender>>

current == IF ~active(host_sender) /\ blocks # << >>
           THEN NewSender(Head(blocks), HostFrags, TRUE) ELSE host_sender

hostSend ==
    /\ ~req_due
    /\ blocks' = IF active(host_sender) \/ blocks = << >> THEN blocks ELSE Tail(blocks)
    /\ \E o \in ticked(current, EmptyRecv, FALSE) :
          /\ host_sender' = IF active(o.sender) THEN o.sender ELSE NoSender
          /\ emit(o.words)
    /\ UNCHANGED req_due

\* A slot that waits already is folded into its entry; the queue's bound of 64
\* is not reached here.
mirror(slot) ==
    /\ echo_queue' = IF Contains(echo_queue, slot) THEN echo_queue ELSE Append(echo_queue, slot)
    /\ uplink' = Tail(uplink)
    /\ UNCHANGED <<host_sender, echo_row, childVars, downlink>>

more == expected < Rounds

\* Idle slots of the joiner, once its block is in: after enough of them the
\* next round begins, or the exchange is over.
hostIdle ==
    /\ uplink # << >> /\ Head(uplink) = IdleSlot
    /\ IF ~settling THEN UNCHANGED <<expected, req_due, blocks, settling, idle_frames>>
       ELSE IF idle_frames + 1 < Settle
       THEN /\ idle_frames' = idle_frames + 1
            /\ UNCHANGED <<expected, req_due, blocks, settling>>
       ELSE /\ settling' = FALSE /\ idle_frames' = 0
            /\ expected' = IF more THEN expected + 1 ELSE 0
            /\ req_due' = more
            /\ blocks' = IF more THEN Append(blocks, expected + 1) ELSE blocks
    /\ mirror(IdleSlot)
    /\ UNCHANGED <<rx, child_party>>

\* A fragment or an INIT; the fragment that completes the block is consumed.
hostBlock ==
    /\ uplink # << >> /\ Head(uplink) # IdleSlot
    /\ LET got == fed(rx, Head(uplink))
       IN  IF got.done /\ ~rx.done
           THEN /\ rx' = consume(got)
                /\ child_party' = IF expected = 0 THEN child_party
                                  ELSE [child_party EXCEPT ![expected] = got.buf]
                /\ settling' = (settling \/ expected # 0)
           ELSE rx' = got /\ UNCHANGED <<child_party, settling>>
    /\ idle_frames' = 0
    /\ mirror(Head(uplink))
    /\ UNCHANGED <<expected, req_due, blocks>>

-----------------------------------------------------------------------------
(* The joiner.                                                             *)

\* _begin_send: the mirror is reset first, it still holds the last block.
begin_send ==
    /\ child_sender' = NewSender(party_sent + 1, ChildFrags, FALSE)
    /\ ack' = EmptyRecv

\* feed_in_frame: both slots, then a request (ignored while a block goes out),
\* then a block of the host that this frame completed.
land(f) ==
    /\ host_rx' = fed(host_rx, f.words)
    /\ IF f.words = ReqSlot /\ ~active(child_sender)
       THEN begin_send /\ party_sent' = party_sent + 1
       ELSE ack' = fed(ack, f.echo) /\ UNCHANGED <<child_sender, party_sent>>
    /\ host_party' = IF host_rx'.done /\ ~host_rx.done /\ Len(host_party) < Rounds
                     THEN Append(host_party, host_rx'.buf) ELSE host_party

\* The n-th frame leaves the link ahead of those before it.
overtake(n) ==
    /\ behind' = IF n <= behind THEN behind - 1 ELSE n - 1
    /\ late' = IF n <= behind THEN late ELSE late + (n - 1 - behind)
    /\ late' <= LateMax

childReceive(n) ==
    /\ n \in DOMAIN downlink
    /\ overtake(n)
    /\ land(downlink[n])
    /\ slot_credit' = IF slot_credit < SlotCreditMax THEN slot_credit + 1 ELSE slot_credit
    /\ downlink' = RemoveAt(downlink, n)
    /\ UNCHANGED <<hostVars, quiet_left, uplink>>

\* Mutant: the joiner never consumes the host's block, so it stays open.
peer_sendingStill == host_rx.receiving

peer_sending == host_rx.receiving /\ ~host_rx.done

childSender(o) ==
    /\ child_sender' = IF active(o.sender) THEN o.sender ELSE NoSender
    /\ UNCHANGED <<hostVars, host_rx, ack, party_sent, host_party, behind, late, downlink>>

\* A slot costs a credit, which a frame of the host earns; after
\* CHILD_SILENCE_LIMIT quiet VBlanks one goes out without.
childTick ==
    /\ Len(uplink) < ChildWindow
    /\ \/ slot_credit > 0 /\ slot_credit' = slot_credit - 1 /\ UNCHANGED quiet_left
       \/ slot_credit = 0 /\ quiet_left > 0 /\ quiet_left' = quiet_left - 1 /\ UNCHANGED slot_credit
    /\ \E o \in ticked(child_sender, ack, peer_sending) :
          /\ childSender(o)
          /\ uplink' = Append(uplink, o.words)

\* poll_send_done: on a VBlank without a slot only HOLD advances, its words are
\* discarded.  The window counts slots until they are acked, which may be after
\* they have reached the host, so it can be full whatever is in uplink.
childGated ==
    /\ child_sender.at = "hold"
    /\ \E o \in ticked(child_sender, ack, peer_sending) : childSender(o)
    /\ UNCHANGED <<uplink, slot_credit, quiet_left>>

Next ==
    \/ hostRequest
    \/ hostSend
    \/ hostIdle
    \/ hostBlock
    \/ \E n \in 1 .. OutstandingMax : childReceive(n)
    \/ childTick
    \/ childGated

Spec == Init /\ [][Next]_vars

\* Both VBlank loops run, and what was sent arrives.
Fairness ==
    /\ WF_vars(hostRequest \/ hostSend)
    /\ WF_vars(hostIdle \/ hostBlock)
    /\ WF_vars(childReceive(1))
    /\ WF_vars(childTick)

FairSpec == Spec /\ Fairness

-----------------------------------------------------------------------------
(* Properties.                                                             *)

\* The host's copy of the joiner's r-th block is that block, whole, although
\* HOLD sends fragments again around the end of every block.
ChildPartyIntact ==
    \A r \in 1 .. Rounds :
        child_party[r] # NoBlock => child_party[r] = [i \in 1 .. ChildFrags |-> r]

\* A block the joiner counts is made of fragments the host has sent, and no
\* fragment serves for two blocks, whatever order frames land in and however
\* often a late INIT opens the block again.  So no block is counted twice.
asked == IF expected = 0 THEN Rounds ELSE expected

NoFragmentTwice ==
    \A i \in 1 .. HostFrags : \A m, n \in DOMAIN host_party :
        /\ host_party[n][i] \in 1 .. asked
        /\ host_party[m][i] = host_party[n][i] => m = n

\* The joiner counts the host's blocks and never reads a name in them: the n-th
\* it counts is the n-th the host sent, whole, as long as none of its frames
\* has overtaken another.
HostPartyInOrder ==
    late = 0 =>
        \A n \in DOMAIN host_party : host_party[n] = [i \in 1 .. HostFrags |-> n]

\* The exchange comes to its end, with every block of both sides, unless a frame
\* overtakes another: a block that is left open then may hold the joiner's own
\* for ever (trade.py:926), while the host asks for nothing more.
ExchangeEnds ==
    <>(late > 0 \/ (expected = 0 /\ Len(host_party) = Rounds))

hostWordsLanded ==
    /\ ~active(host_sender) /\ blocks = << >>
    /\ \A n \in DOMAIN downlink : downlink[n].words = IdleSlot

ReceiveAnyOrder ==
    hostWordsLanded /\ expected # 0 => Len(host_party) = expected /\ ~peer_sending

DoneMeansDelivered ==
    ~active(child_sender) => \A k \in 1 .. party_sent : child_party[k] # NoBlock

\* block.py:2: "Receive is idempotent and order-independent; send re-sends every
\* stage until the host's reflection ... acks it".  Once every frame of the
\* host's blocks has landed they are there, and none is open; and a sender of
\* the joiner that is done has its block in the host's hands.  Frames that
\* overtake each other break either half: an INIT that lands after a fragment,
\* and a mirror of the block before that lands after the reset.
TransferInAnyOrder == ReceiveAnyOrder /\ DoneMeansDelivered
=============================================================================
