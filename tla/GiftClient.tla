------------------------------ MODULE GiftClient -----------------------------
(***************************************************************************)
(* MysteryGiftClientEngine (pokeldn/frlg/gift/mg_client.py), the console   *)
(* that receives a gift: the interpreter of the client scripts, the        *)
(* sender of its blocks and the barrier it starts.  Operators map the      *)
(* engine's record c to the next one; GiftSession puts them into actions.  *)
(*                                                                         *)
(* A frame of the host is its own slot and the mirror of one slot of ours. *)
(* A block takes some frames and is its last fragment.  The instructions   *)
(* that no script of the server uses are left out (YES_NO, SEND_STAT, the  *)
(* conditional copies).                                                    *)
(***************************************************************************)
EXTENDS GiftScripts, Barrier

CONSTANTS
    BlockFrames,      \* frames that a block takes
    ChildGap          \* inter_block_gap (12): ticks between two blocks of the client

ASSUME GiftClientAssumption == BlockFrames \in Nat \ {0} /\ ChildGap \in Nat

Idle       == [op |-> "idle"]
Busy       == [op |-> "busy"]          \* the fragments before the last one
Again      == [op |-> "again"]         \* the last one once more
Standby(n) == [op |-> "standby", count |-> n]
Close(n)   == [op |-> "close", count |-> n]
LinkPlayer == Part([ident |-> "LINK_PLAYER", body |-> "none"], 0)

\* console: what it holds and how its player answers (module GiftServer);
\* kept: what it has saved or run, in order.
NewClient(console) ==
    [state |-> "C_LINK", func |-> "run", script |-> "INIT", cmdidx |-> 1, param |-> 0,
     bar |-> NewBarrier, sender |-> << >>, mirrored |-> FALSE, incoming |-> FALSE,
     lp_sent |-> FALSE, host_lp |-> FALSE, standby_init |-> FALSE, self_echo |-> -1,
     host_blocks |-> << >>, link |-> NewReceiver, buffer |-> << >>, pending |-> << >>,
     out |-> << >>, gap |-> 0, kept |-> << >>, pass |-> 1, result |-> "none",
     close_confirmed |-> FALSE, done |-> FALSE, error |-> FALSE, gone |-> FALSE,
     console |-> console]

established(c) == c.lp_sent /\ c.host_lp

-----------------------------------------------------------------------------
(* The scripts.                                                            *)

begin_block(c, b) ==
    [c EXCEPT !.sender = << [block |-> b, left |-> BlockFrames] >>, !.mirrored = FALSE]

begin_message(c, m) == [c EXCEPT !.out = build_message(m), !.func = "send"]

Msg(ident, body)  == [ident |-> ident, body |-> body]
Response(size, v) == Msg("RESPONSE", [size |-> size, value |-> v])
ReadyEnd          == Msg("READY_END", [size |-> "full", value |-> 0])

keep(c)           == [c EXCEPT !.kept = Append(@, c.buffer.body)]
copy_recv(c)      == [c EXCEPT !.script = c.buffer.body, !.cmdidx = 1]

\* A payload may point the message that waits to be sent elsewhere.
run_buffer(c) ==
    LET k == [keep(c) EXCEPT !.param = c.console.status, !.pass = @ + 1]
    IN  IF c.console.repoints[c.pass] THEN [k EXCEPT !.pending = Response("dump", 0)] ELSE k

save_news(c) ==
    LET same == c.console.news = "same"
    IN  [(IF same THEN c ELSE keep(c)) EXCEPT !.pending = Response("word", IF same THEN 1 ELSE 0)]

instruction(c, cmd) ==
    CASE cmd.op = "RETURN"         -> [c EXCEPT !.result = cmd.msg, !.func = "done"]
      [] cmd.op = "RECV"           -> [c EXCEPT !.link = expect(cmd.ident), !.func = "recv"]
      [] cmd.op = "SEND_LOADED"    ->
            begin_message(c, IF c.pending = << >> THEN Response("empty", 0) ELSE c.pending)
      [] cmd.op = "SEND_READY_END" -> begin_message(c, ReadyEnd)
      [] cmd.op = "COPY_RECV"      -> copy_recv(c)
      [] cmd.op = "ASK_TOSS"       -> [c EXCEPT !.param = c.console.toss]
      [] cmd.op = "LOAD_GAME_DATA" -> [c EXCEPT !.pending = Msg("GAME_DATA", c.console.data)]
      [] cmd.op = "LOAD_TOSS_RESPONSE" -> [c EXCEPT !.pending = Response("word", c.param)]
      [] cmd.op = "SAVE_NEWS"      -> save_news(c)
      [] cmd.op = "RUN_MEVENT_SCRIPT"  -> [keep(c) EXCEPT !.param = c.console.status]
      [] cmd.op = "RUN_BUFFER_SCRIPT"  -> run_buffer(c)
      [] cmd.op = "COPY_MSG"       -> c
      [] cmd.op \in {"SAVE_CARD", "SAVE_RAM_SCRIPT", "SAVE_STAMP", "RECV_EREADER_TRAINER"} -> keep(c)

\* One instruction a tick.
run_one(c) ==
    LET k == [c EXCEPT !.cmdidx = @ + 1]
    IN  IF c.cmdidx > Len(ClientScript[c.script]) THEN k
        ELSE instruction(k, ClientScript[c.script][c.cmdidx])

drain_recv(c) ==
    LET d == drain(c.link, c.host_blocks, c.error)
        k == [c EXCEPT !.link = d.r, !.host_blocks = d.blocks, !.error = d.bad]
    IN  IF d.got THEN [k EXCEPT !.buffer = d.r.msg, !.func = "run"] ELSE k

Out(c, slot) == [c |-> c, out |-> slot]

\* A tick of the sender.  It waits until no block of the host is half in; `again' sends
\* the last fragment once more while its mirror is out.
send_block(c) ==
    LET s == c.sender[1]
    IN  IF s.left = BlockFrames /\ c.incoming THEN Out(c, Idle)
        ELSE Out([c EXCEPT !.sender[1].left = @ - 1], IF s.left = 1 THEN s.block ELSE Busy)

send_step(c) ==
    IF c.gap > 0 THEN Out([c EXCEPT !.gap = @ - 1], Idle)
    ELSE IF c.sender # << >> THEN Out(c, Idle)
    ELSE IF c.out # << >> THEN send_block(begin_block([c EXCEPT !.out = Tail(@)], Head(c.out)))
    ELSE Out([c EXCEPT !.func = "run"], Idle)

gift_step(c) ==
    CASE c.func = "run"  -> Out(run_one(c), Idle)
      [] c.func = "recv" -> Out(drain_recv(c), Idle)
      [] c.func = "send" -> send_step(c)

finish(c) ==
    IF c.func # "done" THEN c
    ELSE [c EXCEPT !.state = "C_CLOSE", !.done = TRUE, !.bar = initiate_close(@)]

barrier_word(c) ==
    LET word == IF c.bar.mode = "STANDBY" THEN Standby(c.bar.local) ELSE Close(c.bar.local)
    IN  IF wants_emit(c.bar) THEN Out([c EXCEPT !.bar = emitted(@)], word) ELSE Out(c, Idle)

-----------------------------------------------------------------------------
(* A tick.                                                                 *)

\* The barrier is started once both know each other; the client starts when it is over.
tick_link(c) ==
    LET k == IF established(c) /\ ~c.standby_init
             THEN [c EXCEPT !.standby_init = TRUE, !.bar = initiate(@)] ELSE c
    IN  IF c.state = "C_LINK" /\ k.standby_init /\ ~active(k.bar) THEN [k EXCEPT !.state = "C_GIFT"]
        ELSE IF c.state = "C_LINK" THEN k ELSE c

close_word(c) == IF c.state = "C_CLOSE" THEN barrier_word(c) ELSE Out(c, Idle)

\* With no block of the script to send, the end of the script and its close.
or_close(o) == IF o.out # Idle THEN o ELSE close_word(finish(o.c))

past_link(c) ==
    IF c.bar.mode = "STANDBY" THEN barrier_word(c)
    ELSE or_close(IF c.state = "C_GIFT" THEN gift_step(c) ELSE Out(c, Idle))

tick_idle(c) == past_link(tick_link(c))

\* A block that has been mirrored is done, in this tick already.
tick(c, again) ==
    IF c.sender = << >> THEN tick_idle(c)
    ELSE IF c.sender[1].left > 0 THEN send_block(c)
    ELSE IF c.mirrored THEN tick_idle([c EXCEPT !.sender = << >>, !.gap = ChildGap])
    ELSE IF again THEN Out(c, Again) ELSE tick_idle(c)

-----------------------------------------------------------------------------
(* A frame.                                                                *)

\* The mirror of a slot of ours.
reflected(c, echo) ==
    CASE echo.op = "block" -> [c EXCEPT !.mirrored = TRUE]
      [] echo.op = "standby" /\ echo.count > c.self_echo -> [c EXCEPT !.self_echo = echo.count]
      [] echo.op = "close" /\ c.state = "C_CLOSE" -> [c EXCEPT !.close_confirmed = TRUE]
      [] OTHER -> c

observe_barrier(c, own) ==
    CASE own.op = "standby" -> [c EXCEPT !.bar = on_host_standby(@, own.count)]
      [] own.op = "close"   -> [c EXCEPT !.bar = on_host_close(@, own.count), !.close_confirmed = TRUE]
      [] OTHER              -> [c EXCEPT !.bar = observe_silence(@)]

\* The host's mirror of our count ends the round that we started.
own_round(c) ==
    IF c.bar.mode = "STANDBY" /\ c.bar.initiated /\ c.self_echo >= c.bar.local
    THEN [c EXCEPT !.bar = on_host_standby(@, c.bar.local)] ELSE c

\* One request, for the LinkPlayer.
on_req(c) ==
    IF c.sender # << >> \/ c.state # "C_LINK" \/ c.lp_sent THEN c
    ELSE begin_block([c EXCEPT !.lp_sent = TRUE], LinkPlayer)

on_host_block(c, b) ==
    IF ~c.host_lp /\ b.msg.ident = LinkPlayer.msg.ident THEN [c EXCEPT !.host_lp = TRUE]
    ELSE IF c.state \in {"C_LINK", "C_GIFT"} THEN [c EXCEPT !.host_blocks = Append(@, b)] ELSE c

feed_in_frame(c, f) ==
    LET k == own_round(observe_barrier(reflected(c, f.echo), f.own))
    IN  CASE f.own.op = "req"   -> on_req(k)
          [] f.own.op = "block" -> on_host_block([k EXCEPT !.incoming = FALSE], f.own)
          [] f.own.op = "busy"  -> [k EXCEPT !.incoming = TRUE]
          [] OTHER              -> k
=============================================================================
