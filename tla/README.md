# pokeldn in TLA+

This directory holds a formal model of the protocol core of pokeldn, the program that lets a Linux
computer speak Nintendo Switch local wireless to Pokémon games on a real console. The models are
translated from the Python source, checked by TLC on small instances, and in part proved by TLAPS for
every value of the constants.

It covers the path of a FireRed / LeafGreen session: the Pia connection that brings it up, the Reliable
stream, the emulated GBA wireless
adapter (RFU) on top of it, the session that drives both, the block transfer, the trade room's engines
on the hosting and on the joining side, and the Mystery Gift session from the host's scripts to what the
console keeps.

## 1. The system

pokeldn is layered by what a module is true of. `pokeldn/ldn` is the wireless layer of every Switch
title (LDN, Pia), `pokeldn/gba` the GBA adapter's protocol that FireRed and LeafGreen run inside it, and
`pokeldn/frlg`, `lgpe`, `swsh`, `bdsp`, `pla` and `tomodachi` are the games. Everything runs in one
thread, a loop of one tick per VBlank (about 60 per second). Concurrency is between the two ends and
the air between them: each end reads what has landed, updates its state machines and sends at most one
frame per tick, while frames and acks of the other end are lost, repeated, delayed or out of order.

### Components of the session path

| component | state | operations | what makes it correct |
|---|---|---|---|
| Pia connection, `ldn/host_pia.py`, `ldn/pia_connect.py` | host: Net acked, join seen, finalized, RTT template; joiner: stage (NET, FINALIZE, CONNECTED), join sent, last RTT | `receive`, `tick`; `on_message`, `maybe_repeat_join`, `maybe_originate_rtt` | both ends pass the stages in step; a join that arrived leads to a live session |
| Reliable stream, `ldn/reliable.py` | send window (`unacked`, `window_lo`, `out_seq`), receive accounts (`recv_next`, `recv_ooo`, `_deliver_next`, `_deliver_buf`), ack timer, gap counter | `open`, `send`, `receive`, `poll` | frames delivered once and in order; acks are true; every received id can be reported; what is queued arrives |
| RFU leader, `gba/rfu_leader.py`, `gba/ni.py` | phase (WAIT_CONNECT, CHILD_NI, PARENT_NI, KEEPALIVE, UNI, DISCONNECTED), pending replies, NI positions, echo queue | `receive`, `tick`, `disconnect_frame`, `on_ldn_leave` | game data assembled in order; stop-and-wait; no early UNI; every command mirrored; link comes up |
| joiner's orchestrator, `frlg/link/sim.py` | opening flags, NI sender and mirror, slot credit, host-UNI flag | `process_datagram`, `_on_gba_in`, `_drive_reliable` | the same, from the other end, though it takes frames as they land |
| host session, `frlg/link/host_session.py` | reliable + leader + engine, `connect_seq`, ack flags, close flags | `receive_reliable`, `tick`, `on_ldn_leave` | A only after C is acked; frames outstanding are bounded; no word lost; D last, and D comes |
| block transfer, `gba/block.py` | `RecvBlock` (count, flags), `BlockSender` (INIT, STREAM, HOLD, DONE) | `on_init`, `on_block`, `consume`, `tick` | a block arrives whole, never mixed; a sender is done only when its block is there (the host's receiver always, the joiner's only on a link that loses nothing) |
| party exchange, `H_PARTY` in `frlg/link/host_trade.py` and the sender side of `frlg/link/trade.py` | requests, both blocks, settle window, mirror of the joiner's row | `_request_and_send`, `_idle_party_link_settle`, `_begin_send`, `_tick_sender`, `poll_send_done` | both parties arrive in place; the exchange ends (once a frame is overtaken by younger ones, neither: see the findings) |
| barrier mirror, `gba/barrier.py` | mode (IDLE, STANDBY, CLOSE), who started the round, own count, silent frames, burst | `initiate`, `initiate_close`, `on_host_standby`, `on_host_close`, `observe_frame`, `desired_words` | both ends pass the same rounds; the joiner's count is never ahead; silence ends a round only when it is over |
| joiner trade engine, `frlg/link/trade.py`, `frlg/link/linkstate.py` | state (S1, S4, S5, S6, S7, CANCEL), barrier, sender, both parties, pending answers, held keys | `feed_in_frame`, `tick`, `poll_send_done`, `handle_seating`, `handle_exit` | every block, key and close lands on a leader that waits for it; no Pokémon lost or doubled; the session ends |
| Mystery Gift host, `frlg/gift/host_mystery_gift.py`, `mg_server.py`, `mg_link.py` | phase, queues of words and blocks, gap, grace and retry counters, the server's script, param and verdict | `feed_child_slot`, `tick`, `_pump`, `mark_close_poll_sent` | the verdict follows from what the console did; no block lands on an unread one; the network outlives the save |
| Mystery Gift client, `frlg/gift/mg_client.py`, `mg_script.py` | phase, script, chunks of a message, what is kept, barrier | `feed_in_frame`, `tick`, `poll_send_done` | never a message it does not await; what is kept is what was offered; it ends |
| host trade engine, `frlg/link/host_trade.py` | phase, queues of words, held keys and blocks, parties, barrier counts, quiet windows, timers | `feed_child_slot`, `tick`, `mark_disconnect_sent` | every word lands on a console that waits for it; no Pokémon lost or doubled; what is shown is what is traded; the session ends |

### How they interact

    host trade engine   \
                         <- feed_child_slot / tick ->   host session  <->  RFU leader
    Mystery Gift host   /                                   |
         | server script                            Reliable session  ~~ air ~~  Reliable session
                                                                                    |
    joiner trade engine / Mystery Gift client  <- barrier, block sender ->  Sim  <->  NI

Reliable messages travel in Pia datagrams. `HostPeerProtocol` hands them to the session once the console
has sent its type 6, and ticks the session from then on; `Sim` drives its Reliable side once
`ConnectionManager` is CONNECTED.

`HostSession.tick` polls the Reliable session (acks and retransmissions), applies its gates, asks the
engine for one row of words, wraps it in a leader frame together with the mirror of one command of the
joiner, and hands it to the Reliable session. `receive_reliable` feeds delivered frames to the leader,
and UNI slots to the engine. The joiner does the same, except that it hands frames to its engine as
they land, ahead of missing ones (`sim.py:248`). On the host, words go before held keys and those
before blocks.

### What is hard

* Order: the joiner reads frames of the host out of order; NI acks, mirrors and block fragments come
  late and look like those of the next step.
* Loss and repetition: every stage has its own retry (Reliable retransmissions, NI re-sends, mirrored
  rows, INIT re-sends out of HOLD, standby repeats, close retries), and each must be harmless when the
  answer was only late.
* Silence as a signal: the host takes idle slots of the console for the end of a barrier or of a link
  task (12, 30 and 75 frames), while the console repeats after 60.
* Limits: a 16-bit id, a window and a mask of 128, a cap of 6 frames the console has not acknowledged,
  64 mirrored rows.
* Two players who decide on their own: cancel, decline and walk out at any time.
* Two interpreters in step: the Mystery Gift server pushes scripts for the client to run and awaits what
  they send. A message that does not fit ends the process on one side and the link on the other.
* Pacing without an answer: nobody acknowledges that a block has been *read*, so the host counts frames
  and hopes (`host_mystery_gift.py:429`).
* Ending: the network must stay up while the console saves, and go down although a console that has left
  will never acknowledge another frame.

`PROJECT.json` lists these hazards one by one, at the line where each bites, with the properties that
cover it, and lists every other component of the repository with the reason it is not modelled.

## 2. Modules

| module | models | abstraction |
|---|---|---|
| `SeqNum` | id arithmetic, `_seq_lt`, the contiguous run | ids modulo `SeqSpace` |
| `Stream` | abstract specification: two queues | payload = position |
| `Reliable` | two `HostReliableSession`s and the air | clocks are choices |
| `PiaAir` | the datagrams of the handshake, one message each | what is sent may land any number of times |
| `PiaHost` | `HostPeerProtocol` up to a live session | timers are choices; no property update |
| `PiaJoiner` | `ConnectionManager` as `Sim` drives it | the host's id is known |
| `PiaConnection` | the two facing each other, either of them a console | `Mode` says which, and how it behaves |
| `RfuFrames` | the frames of the RFU link, as records | NI slots are positions, commands are model values |
| `RfuLeader` | `RFULeader`, `ParentNIReceiver`, `ParentNISender`, `ChildEcho` | each operation is an operator, composed below |
| `SimChild` | the joiner's half of the bring-up in `Sim` | K frames left out |
| `RfuLink` | leader and joiner over the Reliable stream: ordered towards the leader, a bag towards the joiner | retransmission is delay |
| `HostSession` | `HostSession` over `RfuLeader` and the send side of Reliable | engine and console are external |
| `BlockTransfer` | `RecvBlock`, `BlockReceiver`, `BlockSender` | a fragment is its index and the number of its block |
| `PartyExchange` | rounds of `H_PARTY` between host and joiner, over `BlockTransfer` | frames of the host may overtake each other; `LateMax` bounds how many are overtaken |
| `HostTrade` | `HostTradeEngine`, the whole trade room, facing a console | a block takes some frames; the rounds of the party exchange are one |
| `Barrier` | `BarrierResponder` | one silence counter for two |
| `JoinerEngine` | `TradeEngine`, its held keys and the loop of `frlg_trade_join.py`, as operators on a record | a block is its last fragment; three party blocks are one |
| `JoinerTrade` | the joiner over `Barrier` and `JoinerEngine`, facing a console that leads | both links in order, bounded in length |
| `Swap` | abstract specification of a trade: the leader commits and owes, the follower commits | CONFIRM_FINISH_TRADE is what is owed |
| `GiftScripts` | the server's scripts, the client's scripts, the messages and their chunks | a body is what it is for, a size is "full", "dump" or other |
| `GiftServer`, `GiftClient`, `GiftHost` | the three engines of Mystery Gift, as operators on records | `expect_console`, player ids and instructions that no script uses are left out |
| `GiftSession` | host and client facing each other | both links in order, bounded in length |
| `GiftPromise` | abstract specification of a session: parts kept, verdict, message | neither messages nor scripts |
| `ReliableProofs`, `SessionProofs` (of `PiaConnection` and `GiftPromise`), `RfuLinkProofs`, `HostSessionProofs`, `PartyExchangeProofs`, `HostTradeProofs`, `JoinerTradeProofs`, `SwapProofs` | the theorems | |
| `MCReliable`, `MCPia`, `MCRfuLink`, `MCHostSession`, `MCPartyExchange`, `MCHostTrade`, `MCJoinerTrade`, `MCGift` | instances for TLC | |

Variables and operators keep the names of the code (`unacked`, `close_poll_sent`,
`on_child_standby`, ...) where TLA+ allows it; `PROJECT.json` maps each definition to its lines.
`PiaConnection` is put together from modules with variables of their own, so it may be read one end at a
time. `Reliable`'s variables are functions from the two ends to the field of the session object; `HostTrade`,
`JoinerEngine`, `Barrier` and the Gift modules keep the engine's fields in one record, because the
handlers call one another and each operator maps the record to the next one. Definitions whose comment starts with "Mutant:" are plausible bugs of the
definition below them; no run uses them unless it is put in the place of the original, and each
property is shown to fail for one of them.

### Abstractions worth knowing

* *Timers.* A timer may elapse at any tick (`Reliable`, the leave, animation, grace and close timers of
  `HostTrade`), so every order of timeout and answer is explored. Windows that count slots (quiet,
  settle, room exit, re-sends, credits) count in the model too, with smaller numbers.
* *The Reliable stream* is a network of lost, repeated and reordered packets in `Reliable` only. Above
  it, a lost frame is a late frame: towards the leader the stream is in order (theorem `Ordered`),
  towards the joiner it is a bag, because `Sim` does not wait for holes. In the bag frames may overtake
  each other by any number within the outstanding cap. So it is in `RfuLink` and in `PartyExchange`.
* *Reliable's air* forgets packets older than half of the id space (`FreshData`, `FreshAck`). Without
  that no 16-bit protocol is safe; with a window of 128 and 65536 ids it allows for a packet to be
  overtaken by more than 32000 others.
* *The console* is code that is not in this repository. In `HostTrade` it does what the scripted
  console of `tests/test_host_end_to_end.py` does, and beyond the script it misses echoes, repeats
  standbys, waits, chooses, cancels and walks out when its player likes. In `HostSession` it sends any
  frame a console may send next, and acknowledges with any holes.
* *HostTrade and time.* Both ends run one frame per VBlank, so they take turns, and a frame is late by
  at most what the two queues hold. `LINK_PLAYER` blocks with stale contents, the status reports and
  the Union Room, chat, colosseum and battle phases are left out. The held route to the seat is its
  last key, READY.
* *The joiner's leader* (`JoinerTrade`) is a console, and so is external. It does what the comments of
  `trade.py` and `barrier.py` say of it: counts its barriers, asks for blocks, mirrors every slot that is
  not idle, repeats a count after it has passed, keeps the rounds of a warp to itself, takes its time to
  save, and its player chooses, declines and leaves when it likes. Mail, the nets for a leader that has
  vanished (`SAVE_CHAIN_TIMEOUT`, `BUFFERTRADE_SETTLE`, `SEAT_HOST_READY_MAX`) and the tail after the
  last CLOSE are left out: with a leader that keeps its time they do nothing.
* *A Gift session has no external end*: both engines are in this repository, and each may face a real
  console instead of the other. What the console holds (card, stamps, news), what its player answers, and
  what a code payload does (its status, whether it repoints the message that waits) are chosen at the start.
  A console that holds the same news is a client that answers so: it does what `SAVE_NEWS` returns for it.
* *The two links of `JoinerTrade` and `GiftSession`* are in order and bounded by `OutstandingMax` and
  `UplinkMax`, so a frame is late by at most what they hold. Towards the host that is theorem `Ordered`.
  Towards the joiner and the client it is an assumption, that no frame of the leader is lost meanwhile:
  what overtaking does to a block is the subject of `PartyExchange`, and these two modules, whose blocks are
  whole, begin where it ends well. A shut window holds the
  joiner back for at most `SilenceLimit` ticks, as `CHILD_SILENCE_LIMIT` does.
* *BlockTransfer* leaves out `stream_gap` and `stream_repeat`, which are 0 and 1 on this path.

## 3. What TLC checks

| run | question | result |
|---|---|---|
| `reliable` | the inductive invariant, order, ack and delivery accounts, the mask is wide enough, refinement of `Stream`; what is queued is delivered and leaves the window | holds |
| `pia_connection` | the stages of the two ends stay in step; a repeated join arrives; a join that arrived leads to a live session | holds |
| `rfu_link_join` | bring-up: game data in order, stop-and-wait, no early UNI, both ends reach UNI, every command mirrored | holds |
| `host_session` | accept after ack, D ends the stream, no word lost, the close ends, C is answered, a closed hole hands over what the guard and the window allow | holds |
| `party_exchange` | with frames of the host that overtake each other: the host's copy of the joiner's party is intact, no fragment serves for two blocks; while none has, the joiner's blocks are in place; if none ever does, the exchange ends | holds |
| `party_any_order` | block transfer does not depend on the order frames land in | violated |
| `host_trade` | two trades and the walk out: every word heard, what is shown is traded, refinement of `Swap`, exit before close, the end | holds |
| `host_trade_decline` | a declined trade returns both sides to the menu | violated |
| `joiner_trade` | two trades and the walk out from the other side: every slot heard, the count never ahead, what is shown is traded, refinement of `Swap`, the end | holds |
| `joiner_decline` | a joiner whose decline has been taken offers nothing more | violated |
| `gift` | every branch of every server script: no link error, no block on an unread one, the network outlives the gift, refinement of `GiftPromise`, the end | holds |
| `gift_dump` | the console saves only if the verdict is success | violated |

Four refinements: the pair of `Reliable` sessions implements two queues (`ImplementsStream`); a host
trade facing a console, and a joiner facing a console that leads, each implement one exchange of two
Pokémon (`ImplementsSwap`, twice, with the two sides in opposite roles); a Gift session implements its
promise (`ImplementsPromise`). `Swap`'s step `First` is the leader's commit, `Second` the follower's, and
what is owed is computed from the leader's count of trades being one ahead. In `GiftPromise`, `kept` is
what the client has saved or run, `verdict` the server's result, `told` the message the client ends with.

### Findings

* **A declined trade is never answered** (`host_trade.py:991`). A follower whose player says NO at the
  confirm prompt sends `READY_CANCEL_TRADE`; `trade.py:725-729` does so too. The host reads that command
  only in `H_LEAVE_MENU`; in `H_CONFIRM` it is dropped and both ends wait for ever, although
  `docs/frlg_link.md:161` has a one-sided cancel return both to the menu. The same wedge was once fixed
  for `REQUEST_CANCEL` in `H_SELECT` (`tests/test_host_trade_engine.py:559-563`).
* **A decline may be forgotten** (`trade.py:682`). The joiner takes up its cancel-to-leave at its sender's
  DONE (`trade.py:934-936`), which needs a tick after the mirror. When the mirror of the decline and the
  leader's `*_CANCEL` land in one burst, line 682 clears the flag first, and the joiner chooses its
  Pokémon again.
* **A failed dump may be saved as a success** (`mg_server.py:1016` against its own comment at 397-398).
  The branch follows the size check of the last block, the text the check of all of them: with an early
  block dropped and the last one right, the console gets the failure text in the success exit, which
  saves, and the host reports success.

* **Block transfer does depend on the order** (`block.py:35`). `Sim` feeds each frame as it lands because "the
  emulator is order-tolerant" and to "never stall the RFU exchange on a gap" (`sim.py:248`), and `block.py:2` says
  "Receive is idempotent and order-independent; send re-sends every stage until the host's reflection ... acks it".
  A frame whose datagram is lost lands after younger ones, and then either half fails (`party_any_order`; TLC shows
  the one it meets first, and finds the other in the same instance if `DoneMeansDelivered` is checked alone):
  * *receive*: an `INIT` that lands after the fragments opens the block again, empty (`block.py:35`), and a
    fragment that lands ahead of its `INIT` is dropped (`block.py:45`), `ReceiveAnyOrder`;
  * *send*: a mirrored `INIT` of the block before that lands after the reset of `trade.py:549` arms the new
    sender, which then sends no `INIT`; the host drops its fragments, mirrors them all the same, and the sender is
    DONE with a block that was never delivered, the early DONE that `block.py:196` warns of, `DoneMeansDelivered`.

  What follows of the first half is the condition on `late` in two properties of `party_exchange`; without it
  TLC violates both in that instance. The block left open is filled up by fragments of the next, whose `INIT` is taken for a
  re-send, and the joiner counts a block made of two (`HostPartyInOrder`); or it is never filled up, the joiner
  holds its own block back (`trade.py:926`), the host, which trusts Pia and sends no fragment twice, asks for no
  other before it has that one, and the exchange stands still (`ExchangeEnds`). The other two properties of the
  run, `ChildPartyIntact` and `NoFragmentTwice`, hold in any order, and section 4 proves them.

**Margins of the Pia connection.** These are properties that hold only for some pairings; `PiaConnection`
names the condition in its properties (`mode.repeats`, `mode.early`).

* *A type 6 lost to an early probe.* `ConnectionManager` re-sends its type 6 "on a re-sent accept"
  (`pia_connect.py:597`), but not once it is CONNECTED, and any RTT message after the first accept makes it
  so (line 608). A Mystery Gift console probes before it is finalized (`docs/frlg_link.md:258-260`). If the
  type 6 is lost and a probe lands before the next accept, no type 6 is ever sent again, and the joiner
  sends Reliable frames to a host that takes none. Without `~mode.early` TLC finds this in `ComesUp` and
  `StagesInStep`. A console that trades probes after finalization and is safe.
* *A join that is lost alone.* The joiner answers the Net request with two datagrams. If only the first
  lands, the host stops its probes; without `join_repeat_ticks` (0 by default) no join follows. Hence
  `mode.repeats` in the first conjunct of `ComesUp`.
* *A Net response that is lost alone* costs nothing but probes: the join lands, the joiner leaves NET, and
  answers no further 0x11, so the host repeats it for the rest of the session.
* `ConnectionManager.on_message` would take a Reliable message for a sign of life, too; `Sim` never gives it
  one (`sim.py:240-259`), so RTT alone makes the joiner CONNECTED.
* `HostPeerProtocol` is written for one Switch. A join of a second console would replace `guest_var`
  (`host_pia.py:410`) while the session goes on; the model has one joiner.

**A margin of the Union Room leader.** By default (`union_room_keepalive` 0, `config.py:237`, passed on at
`host_app.py:126-129`) the leader of a Union Room enters UNI inside `receive`, with its last NI ack and L(1)
still queued (`rfu_leader.py:256-270`). The next ticks send those two, but the session has asked the engine
for by then and throws it away: `NoWordLost` fails for that leader, as TLC shows if `HostSession.cfg` sets
`SkipModes` to `{TRUE}` with its `KeepaliveFrames` of 0. What is lost is harmless, because the engine's first words repeat
`SEND_PLAYER_IDS` (`host_trade.py:282-284`). The run and the theorems name the condition: `OwnHandover` in
`HostSessionProofs`, a leader hands over to UNI in a frame of its own.

**A margin of the hole guard.** "A closed hole then releases at most HOST_OUTSTANDING_MAX frames"
(`host_session.py:153`) is not what the guard at line 157 ensures. It counts frames that are not acked at all;
frames the selective mask has acked behind a hole are with the console as well, and come on top when the hole
closes. `ReleaseIsGuarded` states what does hold: at most `OutstandingMax` of the frames handed over at once have
not been acked, and all are within the window (128 in the code). With `SkipModes` `{TRUE}` and `MaxInflight` 4,
TLC violates `[][released' - released <= OutstandingMax]_vars` under `Spec`.

### Bounds, and why they are enough

* `Reliable`: 6 ids starting near the wrap, a window and a mask of 2, three frames of the host and the
  console's acks. The ids wrap during the run, a hole opens behind a full window, and old copies stay in
  the air. One direction is enough: the two ends share nothing but the air, and the proofs cover both
  directions, every window and the reuse of ids over many turns. `Quota` bounds the frames,
  `NackThreshold` and `RetransmitLimit` take small values. A send gate that counted only the frames not
  acked at all would let an id fall off the mask; that takes 8 ids to see, and the gate is the subject of
  `MaskIsWideEnough`.
* `PiaConnection`: nothing is bounded. A message is in the air or it is not, since a copy says nothing
  new; `MCModes` are our host, and our joiner with and without the repeated join against a console that
  trades and against one with a Mystery Gift.
* `RfuLink`: NI transfers of 4 and 3 positions, `OutstandingMax` 2, `EchoMax` 2 and two commands (so
  that a queue may fill), `SlotCreditMax` 1, `PendingMax` 2 for the leader's replies; both kinds of
  leader (`SkipModes`), and at least one keepalive frame. Transfers longer than the outstanding cap are
  what makes stale acks possible. The queue has room for both commands, so its drop at `rfu_leader.py:97` does
  not fire: what `NoEchoLost` checks is that `coalesce` keeps a command from waiting twice.
* `HostSession`: `MaxInflight` 3 over `OutstandingMax` 2, so the hole guard and the window close at
  different times; `SentMax` and `ConsoleMax` bound the two streams and are past the whole bring-up.
* `PartyExchange`: two rounds, blocks of two fragments, `HoldGap` 1 and `Settle` 6. In the code the
  settle window is 30 frames and the gap 6; in this instance the exchange ends if `Settle` is at least
  6, the time of an INIT re-send to the host and its mirror back. `QuietMax` bounds the slots that
  silence grants, `WatchdogInit` the wait for the first mirror.
  `OutstandingMax` 2 over `WatchdogInit` 1 is 6 over 4 in the code: all `INIT`s of a block can be overtaken by
  its first fragment. `LateMax` 1: one frame of the host, any one, may be overtaken, by as many younger ones as
  it has the time for. That suffices for the finding, its consequences and the mutants; the proofs have no such bound.
* `HostTrade`: two trades with parties of two, two save rounds for the code's six, `Repeat` 4 against
  `Quiet` 6 (60 and 75 in the code), `EchoFrames` 3 (4), `LinkIdle` 6 (12, longer than a round trip),
  `Settle` 2 within the player's `MenuDelay` 4, `ExitWait` 12 (300). The console misses up to
  `MissMax` = 2 echoes, so that a save barrier is repeated twice running and the quiet window must be
  started again; the player makes up to `Extra` = 2 requests that lead to no trade, so that both the
  single and the double cancel at the select screen, the extra trade after the last one and the cancel
  before and after the host is ready all happen.
* `JoinerTrade`: two trades with parties of two, `BlockFrames` 2 (so that the mirror and the answer may
  fall between two fragments; 3 in `joiner_decline`, where the burst needs room), two save rounds, at most
  one repeat of a count, one move that brings the menu back, both answers at the prompt. `SeatIdle` 4 and
  `Settle` 5 stand for 75 and 30, `IdleTimeout` 4 for 90 and `InitiateTimeout` 8 for 120; `LeaderAssumption`
  names what the numbers must keep: a mirrored round is over before the seam, the next request is not in
  one burst with the last mirror, and `InitiateTimeout` outlasts a write of the save and the way there and
  back. The last one is a margin of the code: a count that lands after `InitiateTimeout` is mirrored, not
  matched.
* `GiftSession`: `DumpBlocks` 2 (a verdict over several blocks), `FullChunks` 2 (a message of several
  chunks), `BlockFrames` 2, `ChildGap` 1, `Grace` 6, `CloseRetry` 4. `Sessions` is every branch of every server
  script: each kind of gift against a console with none, the same, another or a variant card, stamps full
  or present, both answers of the player, a refused phrase, an invalid game, a payload that proves itself
  or not. `HostGap` 7 stands for 36 and `ChildGap` 1 for 12. With `HostGap` 5 or 6 `OneUnread` fails: the
  gap has to outlast the client's own gap, the shut window and what is under way. So the margin of 36
  against 12 rests on how long the window can stay shut.

`CHECK_DEADLOCK FALSE` is said where the system stops: after D, or when the bounds are used up.

### Fairness

Both loops run one tick per VBlank for as long as the program runs, so ticks, and reading what has
landed, are weakly fair. A packet that is sent again and again gets through some day: strong fairness of
`receiveFrame` and `receiveAck` in `Reliable` and `HostSession`. A timer elapses and a block ends: strong
fairness of `hostTick(TRUE, FALSE, TRUE)` in `HostTrade`, where the two ends take turns so that the step
is enabled again and again. The player goes on some day, too (`Choose`). `host_session` assumes that
the console is there and keeps acknowledging (`ConsoleFair`); nothing is assumed of a console that has
left.

In `PiaConnection` both loops run for ever, the console's too, so every timer comes due again (weak
fairness), and a message that is sent again and again gets through (strong fairness of its receipt, one
per message). A console gives up on a join after about three seconds (`docs/frlg_link.md:257`); the model
lets it wait, so `ComesUp` says that nothing is stuck, not how fast it goes.

`JoinerTrade` and `GiftSession` state weak fairness of each loop's tick and of what lands, as the variable
that only this step changes so (`WF_turn`, `WF_uplink`, `WF_downlink`), which asks the same and keeps
TLC's tableau small. In `JoinerTrade` the countdowns of the joiner elapse if it ticks for ever, and the
player goes on. In `GiftSession` nothing else is assumed: in particular not that the host's clock still
runs once the client has left, because the hole guard may hold it for ever (`hostStop`: the loop ends
when the station has gone, `host_app.py:251`).

## 4. What is proved

`ReliableProofs` proves of `Reliable`, for every id space, window, mask and quota that meet the
assumptions named in the module (two ends; window not larger than the mask and less than half the id
space):

| theorem | states |
|---|---|
| `InvAlways` | the inductive invariant `Inv` |
| `TypeCorrect` | `TypeOK` |
| `Ordered` | `InOrderExactlyOnce` |
| `AcksAreTrue` | `AckedWasReceived` |
| `DeliveryAgrees` | `DeliveryTracksAcks` |
| `MaskIsWideEnough` | `MaskCoversReceived` |
| `SessionImplementsStream` | `ImplementsStream`, the refinement of `Stream` |

and `SeqLtIsOrder`, on which they rest: `_seq_lt` is the order of positions as long as they are less than
half of the id space apart.

The properties speak of what was delivered or acked; alone they are not inductive, since a step reads
ids and the ids say nothing of the stream. `Inv` ties every id to a position: a sender's `outSeq` and
`windowLo` are the ids of `sent` and `base`, its window holds the frames between them (`WindowInv`); a
receiver's `recvNext` is the id of the number of frames consumed, and everything it holds beyond is a
frame the other end has sent (`ReceiveInv`); entries marked acked have arrived (`AckInv`); packets in
the air carry true positions, and acks in the air were true when sent and stay so (`NetInv`). Since the
two ends are within a window of each other and packets are fresh, comparing ids compares positions, by
`SeqLtIsOrder` and `IdOfInjective`. The proof has one lemma per action (`QueueInv`, `ReceiveDataInv`,
`OnAckInv`, `PollInv`, ...), and `NextInv` puts them together. The refinement follows because every
action leaves `sent` and `delivered` alone except queueing (`Put`) and a receive that closes a hole
(`Get`, lemma `ReceiveIsGet`).

`SessionProofs` proves `StagesAlwaysInStep`, `StagesInStep` of `PiaConnection` for every set of pairings. What is
in the air at a step may be old, so the inductive invariant adds what each message in the air says of its
sender (`MessagesTrue`): an accept is there only if the host has a join, a type 6 only if the joiner has
had an accept, an RTT message of the host only if it is finalized or probes early. All of these are
stable, so a late copy does no harm.

`RfuLinkProofs` proves of `RfuLink`, for every length of the two transfers, number of frames under way and
order in which the leader's frames land:

| theorem | states |
|---|---|
| `GameDataIsInOrder` | `GameDataInOrder` |
| `TransfersStopAndWait` | `StopAndWait` |
| `UniIsNeverEarly` | `NoEarlyUni` |
| `NoEchoIsLost` | `NoEchoLost`, if the queue has room for every command once (`Cardinality(Command) <= EchoMax`) |

Their invariant `LinkInv` says what a frame under way stands for: a sub-frame of the joiner has been emitted
and all before it are in the leader's hands (`ChildInv`), a mirror is of a sub-frame that has landed
(`ParentInv`), a UNI slot is there only once the leader is in UNI (`UniInv`). So a late copy never tells
anything false. `NoEchoIsLost` needs that no command waits twice (`EchoInv`), which is `coalesce` of `ChildEcho`;
the hypothesis is the condition under which the code's own counter `dropped` "must stay 0"
(`rfu_leader.py:81`): `Command` stands for the words that can wait at one time, and the code has 64 rows.

`HostSessionProofs` proves of `HostSession`, for every window, cap and length of the streams:

| theorem | states |
|---|---|
| `AcceptIsSafe` | `AcceptAfterConnectAck`: A is the first frame, once, and only after an ack that covers C |
| `DisconnectIsLast` | `DisconnectEndsStream` |
| `EveryWordIsSent` | `NoWordLost` |

`StreamInv` relates the stream to the flags: A heads the leader's queue until it is sent and is queued once
(`AcceptInv`), D in the stream means `disconnect_sent`, at its end (`DisconnectInv`). The last two theorems
assume `OwnHandover` (see the margin above); from it follows that in UNI nothing is pending (`PollInv`), so a
word that was asked for is the frame that goes out.

`PartyExchangeProofs` proves of `PartyExchange` over `BlockTransfer`, for any number of rounds and fragments:

| theorem | states |
|---|---|
| `ChildPartyIsIntact` | `ChildPartyIntact`, whatever order the host's frames land in |
| `FragmentsServeOnce` | `NoFragmentTwice`, whatever order the host's frames land in |

*Intact.* The joiner's `HOLD` repeats fragments of a block that is long there, so fragments of the block before
are under way when the next one starts. `PipeInv` says that they are all ahead of the next INIT, and `RecvInv`
that an open block takes fragments of its own only. `RoundInv` has the requests: one at a time, and none before
the block asked for last is in the host's hands.
*Once.* A position (block, fragment) is how far the host has got (`Said`), and the fragments up to it are the ones
it has uttered, each once, for its sender trusts Pia. `FragInv` says that a fragment it has uttered is in one place
at most and there once: on the link (`OnLink`), in the block that is coming in (`ComingIn`), or in a block that was
counted (`Counted`); a late `INIT` throws some away and brings none back. A frame that lands moves its fragment from the
first place to the second, the one that completes a block moves them all to the third (`FragmentTaken`). So a counted
block is new in each of its fragments, and none is of a round the host has not asked for.

`HostTradeProofs` proves of `HostTrade`:

| theorem | states |
|---|---|
| `ShownTraded` | `ShownIsTraded` |
| `HostImplementsSwap` | `ImplementsSwap`, the refinement of `Swap` |
| `HostConserves` | no trade that the host leads loses or duplicates a Pokémon |

They hold for any two parties (of any size; `PartyAssumption` says no more than that they are functions), any
number of trades, and however the timers and the slot-counting windows run: neither `Quiet`, `Repeat`, `Settle` nor a
bound of the queues is used. The quiet windows decide whether a word is heard (`EveryWordHeard`), not what is
traded. `Inv` says that the session is in one of six stages: `Apart` (on the way to the table), `Asking` (the
host's party and its request for the other are under way), `Choosing`, `Agreed`, `Owing` (the host has committed,
the console has not) and `Leaving`. In each of them at most one word of the trade is on its way down, wherever
it is (`Down`: queued in `blocks`, in `sender` or sent), at most one move of the console on its way up (`Up`),
and the stage says which. That is what the properties lack: `ShownIsTraded` speaks of the two ends, while
a step reads what is under way. Two facts were found only when the invariant was written down and checked with TLC:
a party the console has yet to send is the one it has now (`OneParty`), and no standby of the console may follow
its choice (`MoveLast`), or the standby would count as a save round of a trade that has just been committed.
The proof has a lemma for each slot the host reads (`FeedParty`, `FeedReady`, `FeedCancel`, `FeedInit`, `FeedFinish`),
one for its tick (`TickStep`, with `CommitStep`), one for each word the console hears (`HearReq`, `HearParty`,
`HearOffer`, `HearStart`, `HearFinish`, ...) and one for each slot it sends; everything else keeps a stage by two
lemmas (`StageKept`, `RoamKeeps`). `InvNext` puts them together and says of every step that it changes no party, is the
host's commit or is the console's; `StepImplements` maps the last two to `First` and `Second`.

`JoinerTradeProofs` proves of `JoinerTrade`:

| theorem | states |
|---|---|
| `JoinerNeverAhead` | `NeverAhead` |
| `JoinerShownIsTraded` | `ShownIsTraded` |
| `JoinerImplementsSwap` | `ImplementsSwap`, the refinement of `Swap` |
| `JoinerConserves` | no trade that the joiner follows loses or duplicates a Pokémon |

They hold for any two parties, any list of offers, any set of Pokémon that `refuse_partner_deoxys_mew` turns down,
either answer at the prompt, and however the clocks of the two ends run: no margin of `LeaderAssumption` is used.
The margins decide whether a slot of the joiner finds the console waiting (`EverySlotHeard`); a slot that does not is
lost on it, which delays a trade and never mixes two.

*The count.* `JoinerNeverAhead` needs two facts of `Inv` besides the property: every standby of the console that is under
way carries a count it has passed (`Passed`), and a round the joiner mirrors is one of those (`BarOk`), so that the
count which `observe_frame` adds when the console falls silent, or when its standby answers a round of the joiner's own, is still one
that the console has reached.

*The trade.* The session is in one of five stages: `Apart` (no menu yet, before the first trade or after one), `Choosing`,
`Agreed`, `Owing` (the console has committed, the joiner has not) and `Leaving`. In each of them at most one word of the
console that belongs to a trade is under way, wherever it is (`Down`: in `out` or on the link), and at most one move of the
joiner (`Up`: in `push`, in the sender or on the link), and the stage says which. A block counts as under way while its
sender still has to send it; one that waits for its mirror (HOLD) has gone out. Two things had to be added to what the
console is doing. The request for the first party looks like the one for the link player (`on_req` tells them apart by
`lp_sent`), so `Asked` says that the link player is not under way while the request for it is. And a joiner
whose cancel is under way has chosen (`selected`), so that a `*_CANCEL` that meets it takes back a choice that is there.
The proof has a lemma for each word that the joiner reads, for each branch of `TradeEngine.tick` in its
order (`TickTells`), for its timers (`TimersRun`), and for each slot the console hears (`Hears`), frame it makes (`TickStep`) and
move of its player (`MoveStep`); what touches no field that a stage speaks of keeps it by one lemma (`SteadyKeeps`).
`InvNext` says of every step that it changes no party, is the console's commit (`Gives`) or the joiner's (`Receives`), and
`StepImplements` maps those two to `First` and `Second`.

Of the abstract specifications:

| theorem | states |
|---|---|
| `SwapConserves` (`SwapProofs`) | every Pokémon is held or owed exactly once, for any two parties that hold none twice and none in common, and any number of trades |
| `PromiseKept` (`SessionProofs`) | what is kept is always the beginning of what is due, and neither verdict nor message comes before the last part, for any set of sessions and any length of a dump |
| `PromiseConsent` (`SessionProofs`) | no card takes the place of another whose owner has said NO, and nothing is kept of a gift behind a phrase that was not said |

`Conserved` is inductive once the type of the parties and the place of the owed Pokémon are added; `HostConserves`
and `JoinerConserves` are `SwapConserves` carried over by the refinements, with the two sides in opposite roles. `PromiseKept` follows from an invariant that says at which
position of the due parts the session stands, `PromiseConsent` from what `Due` may contain for such a
console.

### What the constants are assumed to be

Every module names its assumptions, and TLC evaluates them in the runs: windows, caps and counts are positive;
`WatchdogInit > 0` in `BlockTransfer` (4 in the code, `block.py:110`: a sender waits for a mirror before it sends INIT again);
`LeaderAssumption` (an echo queue of at least one row); `SessionAssumption` (a word is not idle); `TradeAssumption`
(a slot is offered once; the margins between windows) and the `LeaderAssumption` of `JoinerTrade`, of which the proofs use only what has no
time in it: that the parties are functions of their slots, that something is offered, and that `None`, the
cursor of no Pokémon, is not a slot of the console's party (`trade.py` keeps `None` itself for it).

### What only TLC checks

* Liveness, for TLAPS handles neither fairness nor ENABLED.
* `HostPartyInOrder`, whose condition is that no frame of the host has been overtaken yet; and `ReleaseIsGuarded` of `HostSession`.
* `EveryWordHeard` and `ExitBeforeClose` of `HostTrade`. They rest on time: how many frames a word is late, and
  that 75 quiet slots are more than the 60 between two repeats. An invariant would have to count both.
* `EverySlotHeard` of `JoinerTrade`, for the same reason: that a request finds the last sender done, and a barrier is
  started after the mirrored one has timed out, is a comparison of windows that an invariant would have to carry
  frame by frame.
* `NoLinkError`, `OneUnread`, `NetworkOutlivesGift` and the refinement of `GiftPromise` by `GiftSession`. The
  server's `run`, the client's `drain` and the host's `pump` and `Copies` are recursive operators over records, which keeps
  `GiftSession` out of the prover's reach: what an interpreter does with any script is induction over data. `GiftPromise`
  has none of them.

## 5. What is not modelled

Codecs, encryption and tables are functions of bytes and have no behaviour over time. The radio,
sockets, scanning and the bridges in `ldn/transport.py`, `ldn_mitm_host.py` and others are I/O. The
scripts in `bin/` for Sword/Shield, Brilliant Diamond and Legends Arceus hold their control in one
function around the radio. Most of the repository by lines is data: ROM symbol and name tables, script
assemblers for gift payloads, save formats. The complete list, with reasons, is under "components" in
`PROJECT.json`.

Of the modelled parts, left out are: the Union Room, chat, colosseum and battle phases of the host
engine; mail; of the host peer, the property update, round trip samples, the quiet gate and the
carry-forward; the tails after the last close (`LEAVE_TAIL_S`, `DONE_TAIL_S`) and the nets for a leader that
has vanished; the host loop's end after `idle_timeout_seconds` of silence (`host_app.py:371-376`, off by default); the
joiner's verdict `PLAYER_MON_INVALID` (`trade.py:721`, `740`), since the slot it offers always holds a Pokémon; the
gift server's `expect_console`, its player ids and their repetition; `poll_send_done`'s
clock beyond the re-send it may cause.

## 6. Plan

Done, in this order: `Reliable` with its proofs, `RfuLink`, `HostSession`, `PartyExchange`, `HostTrade`;
then `Barrier`, `JoinerTrade`, `Swap` with its proof, the Gift modules and `PiaConnection` with theirs; then the
theorems of `RfuLink`, `HostSession`, `PartyExchange`, `HostTrade` and `JoinerTrade`.

Next modules:

1. `SeenIn`: the joiner's 4096-entry set (`sim.py:341`) with a small limit.
2. The battle link: echo before ack (`host_trade.py:1259`) over `ChildEcho`.
3. `Window3` and `Leaver` of Let's Go (`ldn/reliable3.py`, `lgpe/leave.py`), against `Stream`.
4. The rest of the host peer: the property update (Net 0x50/0x51), the quiet gate on retransmissions
   (`host_pia.py:318`) and the carry-forward, over `Reliable`.

Theorems to prove next: `ExitBeforeClose` of `HostTrade`, with the age of a word in the invariant (the echoes still to be said
against the slots since the standby); `EverySlotHeard` and `EveryWordHeard` along the same lines; `ReleaseIsGuarded` of `HostSession`, by counting the
positions that are not acked.

The number of runs is kept small: a new module takes the place of a run that another one covers.
