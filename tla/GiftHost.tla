------------------------------- MODULE GiftHost ------------------------------
(***************************************************************************)
(* HostMysteryGiftEngine (pokeldn/frlg/gift/host_mystery_gift.py), the     *)
(* leader that distributes a gift: the LinkPlayer exchange, its barrier,   *)
(* the pacing of the blocks, the pump of the server and the close.         *)
(* Operators map the engine's record h to the next one.                    *)
(*                                                                         *)
(* SEND_PLAYER_IDS and its repetition, LinkPlayer blocks that are not      *)
(* valid and the status reports are left out.                              *)
(***************************************************************************)
EXTENDS GiftServer, GiftClient

CONSTANTS
    EchoFrames,       \* startup_standby_echo_frames (4): words for a standby or a close
    ClientReady,      \* client_ready_idle_frames (20): idle slots before the gift starts
    HostGap,          \* inter_block_gap_frames (36)
    CloseRetry,       \* close_retry_frames (60)
    Grace             \* post_client_close_grace_frames (300)

ASSUME GiftHostAssumption ==
    {EchoFrames, ClientReady, HostGap, CloseRetry, Grace} \subseteq Nat \ {0}

Req        == [op |-> "req"]
Disconnect == [op |-> "D"]

\* A block with the times each fragment goes out: block_repeat, ram_script_block_repeat.
Outbound(b) == [block |-> b, repeat |-> IF b.msg.ident = "RAM_SCRIPT" THEN 3 ELSE 2]

\* No countdown, no standby kept.
Off == -1

NewHost(dist) ==
    [state |-> "MG_LINK_PLAYER", words |-> << Req >>, blocks |-> << >>, sender |-> << >>, gap |-> 0,
     expected |-> TRUE, lp_complete |-> FALSE, pending |-> Off, idle_run |-> 0, exit_count |-> 0,
     confirmed |-> FALSE, grace |-> Off, retry |-> Off, disconnect |-> FALSE, poll_sent |-> FALSE,
     link |-> NewReceiver, recv_blocks |-> << >>, echo |-> << >>, server |-> NewServer(dist)]

RECURSIVE Copies(_, _)
Copies(n, w) == IF n = 0 THEN << >> ELSE Append(Copies(n - 1, w), w)

close_words(h) == [h EXCEPT !.words = @ \o Copies(EchoFrames, Close(h.exit_count))]

begin_close(h) == [close_words([h EXCEPT !.state = "MG_CLOSE"]) EXCEPT !.retry = CloseRetry]

-----------------------------------------------------------------------------
(* The pump.                                                               *)

queue_message(h, m) ==
    LET b == build_message(m) IN  [h EXCEPT !.blocks = @ \o [i \in DOMAIN b |-> Outbound(b[i])]]

Busied(h) == h.blocks # << >> \/ h.sender # << >>

\* A block that is not the one awaited is dropped, and the same message awaited anew.
drain_recv_blocks(h) ==
    LET d == drain(h.link, h.recv_blocks, FALSE)
        k == [h EXCEPT !.link = d.r, !.recv_blocks = d.blocks]
    IN  IF d.got THEN [k EXCEPT !.server = on_received(@, d.r.msg)] ELSE k

RECURSIVE pump(_)

pump_recv(h) == IF h.server.action.kind = "recv" THEN h ELSE pump(h)

awaiting(h) == IF listening(h.link) THEN h ELSE [h EXCEPT !.link = expect(h.server.action.ident)]

\* By what the server has come to.
pump_action(h) ==
    LET kind == h.server.action.kind
    IN  CASE kind = "send"   -> IF Busied(h) THEN h ELSE queue_message(h, h.server.loaded)
          [] kind = "recv"   -> pump_recv(drain_recv_blocks(awaiting(h)))
          [] kind = "done"   -> begin_close(h)
          [] kind = "raised" -> h

\* The server runs to the next message it waits for, or has to send.
pump(h) == pump_action([h EXCEPT !.server = run(@)])

begin_gift(h) == pump([h EXCEPT !.state = "MG_GIFT"])

-----------------------------------------------------------------------------
(* A slot of the client.                                                   *)

\* The start is counted once the barrier is over.
on_child_idle(h) ==
    LET k == [h EXCEPT !.idle_run = IF @ < ClientReady THEN @ + 1 ELSE @]
    IN  IF k.state = "MG_START" /\ k.idle_run = ClientReady THEN begin_gift(k) ELSE k

on_gift_block(h, b) ==
    LET k == drain_recv_blocks([h EXCEPT !.recv_blocks = Append(@, b)])
    IN  IF listening(h.link) /\ ~listening(k.link) THEN pump(k) ELSE k

on_child_block(h, b) ==
    CASE h.state = "MG_LINK_PLAYER" /\ h.expected ->
            [h EXCEPT !.expected = FALSE, !.blocks = Append(@, Outbound(LinkPlayer))]
      [] h.state = "MG_GIFT" -> on_gift_block(h, b)
      [] OTHER -> h

complete_link_player_barrier(h) ==
    [h EXCEPT !.state = "MG_START", !.pending = Off, !.idle_run = 0]

greater(m, n) == IF m > n THEN m ELSE n

\* Mutant: a standby that comes before the block is out is forgotten.
on_child_standbyUnlatched(h, n) ==
    LET k == [h EXCEPT !.words = @ \o Copies(EchoFrames, Standby(n)),
                       !.exit_count = greater(@, n + 1)]
    IN  IF h.state # "MG_LINK_PLAYER" \/ h.expected \/ ~h.lp_complete THEN k
        ELSE complete_link_player_barrier(k)

\* A standby may come before the last repeat of the block is out: it is kept until then.
on_child_standby(h, n) ==
    LET k == [h EXCEPT !.words = @ \o Copies(EchoFrames, Standby(n)),
                       !.exit_count = greater(@, n + 1)]
    IN  CASE h.state # "MG_LINK_PLAYER" \/ h.expected -> k
          [] h.state = "MG_LINK_PLAYER" /\ ~h.expected ->
                IF h.lp_complete THEN complete_link_player_barrier(k) ELSE [k EXCEPT !.pending = n]

\* Early or not, the client's close is answered; the network outlives it for some time.
on_child_close(h, n) ==
    LET k == [h EXCEPT !.exit_count = greater(@, n)]
        l == IF k.state \in {"MG_LINK_PLAYER", "MG_START", "MG_GIFT"} THEN begin_close(k) ELSE k
    IN  IF l.state # "MG_CLOSE" \/ l.confirmed THEN l
        ELSE [l EXCEPT !.confirmed = TRUE, !.grace = Grace]

\* Every slot that is not idle is mirrored in a frame of the host.
feed_child_slot(h, slot) ==
    LET k == [h EXCEPT !.idle_run = 0, !.echo = Append(@, slot)]
    IN  CASE slot.op = "idle"    -> on_child_idle(h)
          [] slot.op = "block"   -> on_child_block(k, slot)
          [] slot.op = "standby" -> on_child_standby(k, slot.count)
          [] slot.op = "close"   -> on_child_close(k, slot.count)
          [] slot.op \in {"busy", "again"} -> k

-----------------------------------------------------------------------------
(* A tick.                                                                 *)

\* Mutant: the countdown to the end does not wait for the client's close.
tick_closeUnconfirmed(h) ==
    IF h.retry = 1 THEN [h EXCEPT !.disconnect = TRUE] ELSE [h EXCEPT !.retry = @ - 1]

\* The close is said again until the grace after the client's has run out.
tick_close(h) ==
    LET k == IF h.grace = Off THEN h ELSE [h EXCEPT !.grace = @ - 1]
    IN  CASE k.grace = 0 -> [k EXCEPT !.grace = Off, !.disconnect = TRUE]
          [] k.grace # 0 -> IF k.retry > 1 THEN [k EXCEPT !.retry = @ - 1]
                            ELSE [close_words(k) EXCEPT !.retry = CloseRetry]

\* Mutant: no gap between two blocks.
block_sentNoGap(h) ==
    LET l == IF h.state # "MG_LINK_PLAYER" THEN h
             ELSE LET c == [h EXCEPT !.lp_complete = TRUE]
                  IN  IF c.pending = Off THEN c ELSE complete_link_player_barrier(c)
        k == [l EXCEPT !.sender = << >>]
    IN  IF k.blocks = << >> /\ k.state = "MG_GIFT" THEN pump([k EXCEPT !.server = on_sent(@)]) ELSE k

\* The last repeat of a block is out.
block_sent(h) ==
    LET l == IF h.state # "MG_LINK_PLAYER" THEN h
             ELSE LET c == [h EXCEPT !.lp_complete = TRUE]
                  IN  IF c.pending = Off THEN c ELSE complete_link_player_barrier(c)
        k == [l EXCEPT !.sender = << >>, !.gap = HostGap]
    IN  IF k.blocks = << >> /\ k.state = "MG_GIFT" THEN pump([k EXCEPT !.server = on_sent(@)]) ELSE k

Polled(h, word) == [h |-> h, word |-> word]

\* The block is whole with the first copy of its last fragment.
tick_block(h) ==
    LET s    == h.sender[1]
        word == IF s.left > s.repeat THEN Busy ELSE IF s.left = s.repeat THEN s.block ELSE Again
        k    == [h EXCEPT !.sender[1].left = @ - 1]
    IN  Polled(IF s.left = 1 THEN block_sent(k) ELSE k, word)

next_block(h) ==
    IF h.sender # << >> \/ h.blocks = << >> THEN h
    ELSE LET b == Head(h.blocks)
         IN  [h EXCEPT !.blocks = Tail(@),
                       !.sender = << [block |-> b.block, repeat |-> b.repeat,
                                      left |-> BlockFrames + b.repeat - 1] >>]

host_word(h) ==
    LET k == next_block(h)
    IN  CASE h.words # << >>               -> Polled([h EXCEPT !.words = Tail(@)], Head(h.words))
          [] h.words = << >> /\ h.gap > 0  -> Polled([h EXCEPT !.gap = @ - 1], Idle)
          [] h.words = << >> /\ h.gap = 0  -> IF k.sender = << >> THEN Polled(k, Idle) ELSE tick_block(k)

host_tick(h) ==
    LET o == host_word(IF h.state = "MG_CLOSE" /\ ~h.disconnect THEN tick_close(h) ELSE h)
    IN  [o EXCEPT !.h.poll_sent = @ \/ o.word.op = "close"]
=============================================================================
