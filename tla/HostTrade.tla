------------------------------ MODULE HostTrade -----------------------------
(***************************************************************************)
(* HostTradeEngine of pokeldn/frlg/link/host_trade.py, the leader of a     *)
(* trade room, from the first request to D, facing a console.              *)
(*                                                                         *)
(* Below it words and slots arrive once and in order (modules Reliable and *)
(* HostSession) and a block arrives whole (BlockTransfer); the rounds of   *)
(* the party exchange are those of PartyExchange, here they are one.       *)
(* Pokemon are names.  Union Room, colosseum and chat are left out.        *)
(*                                                                         *)
(* The console is external: it does what the scripted console of           *)
(* tests/test_host_end_to_end.py does, and what the engine's comments say  *)
(* of a real one.                                                          *)
(***************************************************************************)
EXTENDS Naturals, Sequences, FiniteSets

CONSTANTS
    HostMons, ChildMons,  \* the two parties at the start: slot -> Pokemon
    Offered,              \* offered_slots, one distinct slot per trade
    SaveRounds,           \* save_barrier_rounds (6)
    EchoFrames,           \* startup_standby_echo_frames (4)
    Quiet,                \* {save,entry}_final_standby_quiet_frames (75)
    Settle,               \* party_link_settle_frames (30)
    LinkIdle,             \* link_player_idle_frames (12)
    ExitWait,             \* post_cancel_exit_wait_frames (300)
    OutstandingMax,       \* HOST_OUTSTANDING_MAX: host frames that have not landed
    Repeat,               \* idle slots until the console repeats a standby (60)
    MenuDelay,            \* idle slots until the console's menu is up
    MissMax,              \* bound: echoes of a standby that the console misses
    Extra,                \* bound: requests of the player that come to nothing
    Answer,               \* what the player may answer at the confirm prompt
    UplinkMax             \* bound: slots of the console that have not landed

ASSUME TradeAssumption ==
    /\ Offered \in Seq(DOMAIN HostMons) /\ Offered # << >>
    /\ \A i, j \in DOMAIN Offered : i # j => Offered[i] # Offered[j]
    /\ {SaveRounds, EchoFrames, Quiet, Settle, LinkIdle, ExitWait, OutstandingMax,
        Repeat, UplinkMax} \subseteq Nat \ {0}
    /\ Repeat < Quiet       \* "Longer than ... native re-emission cadence"
    /\ Settle <= MenuDelay  \* nobody chooses before BufferTradeParties is over
    /\ MissMax < EchoFrames
    /\ Answer \subseteq {"INIT_BLOCK", "READY_CANCEL_TRADE"}

ASSUME PartyAssumption ==
    /\ HostMons = [slot \in DOMAIN HostMons |-> HostMons[slot]]
    /\ ChildMons = [slot \in DOMAIN ChildMons |-> ChildMons[slot]]

Trades == Len(Offered)
None == 0                 \* a count or slot that is None; counts start at 1

\* What travels.
Req(of)        == [op |-> "req", of |-> of]
Standby(n)     == [op |-> "standby", count |-> n]
Key(k)         == [op |-> "key", key |-> k]
Close          == [op |-> "close"]
Disconnect     == [op |-> "D"]
Idle           == [op |-> "idle"]
Block(cmd)     == [op |-> "block", cmd |-> cmd]
Mons(party)    == [op |-> "block", cmd |-> "party", mons |-> party]
Select(cmd, s) == [op |-> "block", cmd |-> cmd, cursor |-> s]

VARIABLES
    host,                 \* the engine, a record of its fields
    console,              \* the console, likewise
    downlink, uplink,     \* what has not landed
    turn,                 \* both ends run at one frame per VBlank
    exit_shown            \* history: EXIT_ROOM has been on a frame of the host

vars == <<host, console, downlink, uplink, turn, exit_shown>>

HostInit ==
    [state |-> "LINK_PLAYER", expected |-> "link_player",
     words |-> <<Req("link_player")>>, blocks |-> << >>, sender |-> << >>,
     held |-> << >>, steady |-> FALSE,
     party |-> HostMons, child_party |-> << >>, child_cursor |-> None, round |-> 0,
     quiet |-> 0, waiting_idle |-> FALSE, final_seen |-> FALSE, last_standby |-> None,
     save_last |-> None, save_rounds |-> 0, child_finish |-> FALSE,
     select_cancels |-> 0, leave_wait |-> FALSE,
     host_cancel_ready |-> FALSE, child_cancel |-> FALSE,
     cancel_standby |-> None, exit_wait |-> 0, child_exit_seen |-> FALSE,
     close_confirmed |-> FALSE, grace |-> FALSE,
     close_poll_sent |-> FALSE, disconnect_requested |-> FALSE]

\* out: blocks and keys to send; todo: standbys it still has to pass.
ConsoleInit ==
    [at |-> "link", out |-> << >>, count |-> 1, todo |-> 0, pending |-> FALSE,
     quiet |-> 0, missed |-> 0, party |-> ChildMons, view |-> << >>,
     cursor |-> None, offer |-> None, round |-> 0, extra |-> 0]

Init ==
    /\ host = HostInit
    /\ console = ConsoleInit
    /\ downlink = << >> /\ uplink = << >>
    /\ turn = "host"
    /\ exit_shown = FALSE

-----------------------------------------------------------------------------
(* The engine's phases.  Each operator maps the engine's record to the next. *)

times(w, n)      == [i \in 1 .. n |-> w]
say(h, ws)       == [h EXCEPT !.words = @ \o ws]
send(h, b)       == [h EXCEPT !.blocks = Append(@, b)]
enter(h, state)  == [h EXCEPT !.state = state]

request_and_send(h, what, b) ==
    send(say([h EXCEPT !.expected = what, !.quiet = 0], <<Req(what)>>), b)

begin_card_exchange(h) == request_and_send(enter(h, "ENTRY_CARD"), "card", Block("card"))

begin_party_exchange(h) ==
    request_and_send([enter(h, "PARTY") EXCEPT !.child_party = << >>],
                     "party", Mons(h.party))

\* After the last trade the menu is only left.
finish_party_exchange(h) ==
    LET over == [h EXCEPT !.expected = "none", !.waiting_idle = FALSE]
    IN  IF h.round >= Trades
        THEN [enter(over, "LEAVE_MENU") EXCEPT !.leave_wait = TRUE,
                 !.host_cancel_ready = FALSE, !.child_cancel = FALSE]
        ELSE [enter(over, "SELECT") EXCEPT !.select_cancels = 0]

enter_cancel_to_leave(h) ==
    send([enter(h, "CANCEL") EXCEPT !.cancel_standby = None, !.exit_wait = 0,
             !.child_exit_seen = FALSE], Block("BOTH_CANCEL_TRADE"))

leader_cancel_is_ready(h) ==
    LET ready == [h EXCEPT !.leave_wait = FALSE, !.host_cancel_ready = TRUE]
    IN  IF h.child_cancel THEN enter_cancel_to_leave(ready) ELSE ready

complete_room_exit(h) ==
    say([enter(h, "CLOSE") EXCEPT !.held = << >>, !.steady = FALSE,
            !.close_confirmed = FALSE, !.grace = FALSE],
        times(Close, EchoFrames))

\* Mutant: the console exited first, so the host closes at once.
begin_room_exitAtOnce(h, child_first) ==
    IF child_first THEN complete_room_exit(enter(h, "EXIT"))
    ELSE [enter(h, "EXIT") EXCEPT !.exit_wait = 0, !.child_exit_seen = FALSE,
             !.held = <<"EXIT">>, !.steady = TRUE]

begin_room_exit(h, child_first) ==
    [enter(h, "EXIT") EXCEPT !.exit_wait = 0, !.child_exit_seen = child_first,
        !.held = <<"EXIT">>, !.steady = TRUE]

\* Both Pokemon change hands: the console is told only now.
commit(h) ==
    LET slot == Offered[h.round + 1]
    IN  send([enter(h, "SAVE") EXCEPT !.party[slot] = h.child_party[h.child_cursor],
                 !.round = @ + 1, !.save_rounds = 0, !.save_last = None,
                 !.final_seen = FALSE, !.quiet = 0, !.child_finish = FALSE],
             Block("CONFIRM_FINISH_TRADE"))

-----------------------------------------------------------------------------
(* feed_child_slot: one operator per kind of slot.                          *)

maybe_finish_entry(h) ==
    IF h.state = "ENTRY_SEAT" /\ h.last_standby >= 4
    THEN [h EXCEPT !.held = << >>, !.steady = FALSE, !.final_seen = TRUE, !.quiet = 0]
    ELSE h

\* Mutant: the standby after the last round does not restart the quiet window.
saveRoundNoRestart(h, n) ==
    LET next   == h.save_last = None \/ n = h.save_last + 1
        rounds == IF next THEN h.save_rounds + 1 ELSE h.save_rounds
    IN  [h EXCEPT !.save_last = IF next THEN n ELSE @, !.save_rounds = rounds,
            !.final_seen = @ \/ rounds >= SaveRounds]

\* A save round is a new count; a repeat of the last count starts the quiet
\* window again.
saveRound(h, n) ==
    LET next   == h.save_last = None \/ n = h.save_last + 1
        rounds == IF next THEN h.save_rounds + 1 ELSE h.save_rounds
        final  == rounds >= SaveRounds
    IN  [h EXCEPT !.save_last = IF next THEN n ELSE @, !.save_rounds = rounds,
            !.quiet = IF final THEN 0 ELSE @, !.final_seen = @ \/ final]

\* The console's next count proves that it has passed the cancel barrier.
cancelRound(h, n) ==
    IF h.cancel_standby = None THEN [h EXCEPT !.cancel_standby = n]
    ELSE IF n = h.cancel_standby + 1
    THEN [enter(h, "RETURN_FIELD") EXCEPT !.exit_wait = ExitWait]
    ELSE h

echoed(h, n) ==
    [say(h, times(Standby(n), IF h.state \in {"LINK_PLAYER", "ENTRY_CARD", "ENTRY_SEAT",
                                              "CANCEL", "RETURN_FIELD"}
                              THEN EchoFrames ELSE 1))
     EXCEPT !.last_standby = n]

\* In PARTY a standby is late traffic and gets no echo.
on_child_standby(h, n) ==
    LET e == echoed(h, n)
    IN  CASE h.state = "PARTY"                                 -> [h EXCEPT !.quiet = 0]
          [] h.state = "LINK_PLAYER" /\ h.expected = "warp0"   -> begin_card_exchange(e)
          [] h.state = "ENTRY_CARD" /\ h.expected = "warp1"    ->
                [enter(e, "ENTRY_SEAT") EXCEPT !.expected = "warp2", !.held = <<"READY">>]
          [] h.state = "ENTRY_SEAT"                            -> maybe_finish_entry(e)
          [] h.state = "SAVE"                                  -> saveRound(e, n)
          [] h.state = "CANCEL"                                -> cancelRound(e, n)
          [] OTHER                                             -> e

\* The windows that only idle slots advance.
counted(h, limit, next) == IF h.quiet + 1 >= limit THEN next ELSE [h EXCEPT !.quiet = @ + 1]

feed_idle_slot(h) ==
    CASE h.state \in {"SAVE", "ENTRY_SEAT"} /\ h.final_seen ->
            counted(h, Quiet, begin_party_exchange(h))
      [] h.state = "LINK_PLAYER" /\ h.expected = "warp0"
            /\ h.sender = << >> /\ h.blocks = << >>         ->
            counted(h, LinkIdle, begin_card_exchange(h))
      [] h.state = "PARTY" /\ h.waiting_idle                ->
            counted(h, Settle, finish_party_exchange(h))
      [] OTHER                                              -> h

\* Mutant: the party of the first exchange stays.
on_child_partyFirst(h, mons) ==
    [h EXCEPT !.child_party = IF h.round = 0 THEN mons ELSE ChildMons,
        !.waiting_idle = TRUE, !.quiet = 0]

on_child_party(h, mons) ==
    [h EXCEPT !.child_party = mons, !.waiting_idle = TRUE, !.quiet = 0]

\* The blocks of the console that are no link command.
after_child_block(h, b) ==
    CASE b.cmd = "link_player" /\ h.expected = "link_player" ->
            send([h EXCEPT !.expected = "warp0"], Block("link_player"))
      [] b.cmd = "card" /\ h.expected = "card"               -> [h EXCEPT !.expected = "warp1"]
      [] b.cmd = "party" /\ h.expected = "party"             -> on_child_party(h, b.mons)
      [] OTHER                                               -> h

\* Mutant: a cancel at the select screen gets no answer.
cancel_at_selectSilent(h) == [h EXCEPT !.select_cancels = 1]

\* The second cancel in a row means that the console wants out.
cancel_at_select(h) ==
    LET more == [h EXCEPT !.select_cancels = @ + 1]
    IN  IF more.select_cancels >= 2
        THEN enter_cancel_to_leave([more EXCEPT !.host_cancel_ready = TRUE,
                                                !.child_cancel = TRUE])
        ELSE send(more, Block("PARTNER_CANCEL_TRADE"))

\* A cancel at the last menu is honoured once the host is ready, too.
cancel_at_leave(h) ==
    LET asked == [h EXCEPT !.child_cancel = TRUE]
    IN  IF h.host_cancel_ready THEN enter_cancel_to_leave(asked) ELSE asked

\* Mutant: the host shows its first Pokemon in every trade.
set_monsFirst(h) == Select("SET_MONS_TO_TRADE", Offered[1])

set_mons(h) == Select("SET_MONS_TO_TRADE", Offered[h.round + 1])

\* A link command out of its state is dropped.
on_child_linkcmd(h, b) ==
    CASE b.cmd = "READY_TO_TRADE" /\ h.state = "SELECT" ->
            send([enter(h, "CONFIRM") EXCEPT !.select_cancels = 0, !.child_cursor = b.cursor],
                 set_mons(h))
      [] b.cmd = "INIT_BLOCK" /\ h.state = "CONFIRM"        ->
            send(enter(h, "ANIM"), Block("START_TRADE"))
      [] b.cmd = "READY_FINISH_TRADE" /\ h.state = "ANIM"   -> [h EXCEPT !.child_finish = TRUE]
      [] b.cmd = "REQUEST_CANCEL" /\ h.state = "SELECT"     -> cancel_at_select(h)
      [] b.cmd = "REQUEST_CANCEL" /\ h.state = "LEAVE_MENU" -> cancel_at_leave(h)
      [] b.cmd \in {"READY_TO_TRADE", "READY_CANCEL_TRADE"} /\ h.state = "LEAVE_MENU" ->
            send(h, Block("PLAYER_CANCEL_TRADE"))
      [] OTHER                                             -> h

on_child_block(h, b) ==
    IF b.cmd \in {"link_player", "card", "party"} THEN after_child_block(h, b)
    ELSE on_child_linkcmd(h, b)

child_send_held_keys(h, k) ==
    CASE k = "READY" /\ h.state = "ENTRY_SEAT"  -> maybe_finish_entry(h)
      [] k = "EXIT" /\ h.state = "RETURN_FIELD" -> begin_room_exit(h, TRUE)
      [] k = "EXIT" /\ h.state = "EXIT"         ->
            complete_room_exit([h EXCEPT !.child_exit_seen = TRUE])
      [] OTHER                                  -> h

child_ready_close_link(h) ==
    IF h.state = "CLOSE" /\ ~h.close_confirmed
    THEN [h EXCEPT !.close_confirmed = TRUE, !.grace = TRUE] ELSE h

\* Any other slot starts the idle windows of PARTY and LINK_PLAYER again.
feed_child_slot(h, slot) ==
    LET n == IF h.state \in {"PARTY", "LINK_PLAYER"} THEN [h EXCEPT !.quiet = 0] ELSE h
    IN  CASE slot.op = "idle"    -> feed_idle_slot(h)
          [] slot.op = "standby" -> on_child_standby(n, slot.count)
          [] slot.op = "block"   -> on_child_block(n, slot)
          [] slot.op = "key"     -> child_send_held_keys(n, slot.key)
          [] slot.op = "close"   -> child_ready_close_link(n)

-----------------------------------------------------------------------------
(* tick.                                                                   *)

\* The timers of the state: `over' lets the one that runs elapse, `again' the
\* close retry (its words are out long before, 60 frames to 4).  The room exit
\* counts.
timers(h, over, again) ==
    CASE h.state = "LEAVE_MENU" /\ h.leave_wait /\ over -> leader_cancel_is_ready(h)
      [] h.state = "RETURN_FIELD"                       ->
            IF h.exit_wait = 1 THEN begin_room_exit(h, FALSE) ELSE [h EXCEPT !.exit_wait = @ - 1]
      [] h.state = "CLOSE" /\ ~h.disconnect_requested   ->
            LET closing == [h EXCEPT !.grace = @ /\ ~over,
                                     !.disconnect_requested = h.grace /\ over]
            IN  IF again /\ h.words = << >> THEN say(closing, times(Close, EchoFrames)) ELSE closing
      [] h.state = "ANIM" /\ h.child_finish /\ over      -> commit(h)
      [] OTHER                                           -> h

\* What a frame carries: nothing that matters, or one of the above.
Out(h, ws) == [host |-> h, out |-> ws]

\* The next held key; after the plan the key is EMPTY.
next_held_words(h) ==
    IF h.held = << >> THEN Out(h, << >>)
    ELSE LET k    == Head(h.held)
             rest == [h EXCEPT !.held = Tail(@)]
         IN  Out(IF k = "EXIT" /\ h.state = "EXIT" /\ h.child_exit_seen
                 THEN complete_room_exit(rest) ELSE rest,
                 <<Key(k)>>)

\* Words go before held keys, and both before blocks; a block takes several
\* frames, `last' says that this one is its last.
next_parent_words(h, last) ==
    IF h.words # << >> THEN Out([h EXCEPT !.words = Tail(@)], <<Head(h.words)>>)
    ELSE IF h.held # << >> \/ h.steady THEN next_held_words(h)
    ELSE LET starts  == h.sender = << >> /\ h.blocks # << >>
             sending == IF starts THEN <<Head(h.blocks)>> ELSE h.sender
             queued  == IF starts THEN Tail(h.blocks) ELSE h.blocks
             done    == last \/ sending = << >>
         IN  Out([h EXCEPT !.blocks = queued, !.sender = IF done THEN << >> ELSE sending],
                 IF done THEN sending ELSE << >>)
-----------------------------------------------------------------------------
(* The host.                                                               *)

hostFeed ==
    /\ uplink # << >>
    /\ host' = feed_child_slot(host, Head(uplink))
    /\ uplink' = Tail(uplink)
    /\ UNCHANGED <<console, downlink, turn, exit_shown>>

\* The frame of tick; it remembers a close poll that went out.
polled(h, last) ==
    LET o == next_parent_words(h, last)
    IN  [o EXCEPT !.host.close_poll_sent = @ \/ o.out = <<Close>>]

closing == host.close_poll_sent /\ host.disconnect_requested

\* D goes one frame after the last close poll and ends the session.
frame(over, again, last) ==
    IF closing
    THEN Out(enter(host, "DONE"), <<Disconnect>>)
    ELSE polled(timers(host, over, again), last)

hostTick(over, again, last) ==
    /\ turn = "host" /\ host.state # "DONE"
    /\ closing \/ Len(downlink) < OutstandingMax
    /\ LET f == frame(over, again, last)
       IN  /\ host' = f.host
           /\ downlink' = Append(downlink, IF f.out = << >> THEN Idle ELSE Head(f.out))
           /\ exit_shown' = (exit_shown \/ f.out = <<Key("EXIT")>>)
    /\ turn' = "console"
    /\ UNCHANGED <<console, uplink>>

-----------------------------------------------------------------------------
(* The console (external).                                                 *)

\* Where the last standby of a barrier leads.
AfterBarrier == [carded |-> "room", seat |-> "party", saving |-> "party", left |-> "field"]

goes(c, place)     == [c EXCEPT !.at = place, !.quiet = 0]
replies(c, b)      == [c EXCEPT !.out = Append(@, b)]
nothingCame(c)     == [goes(c, "menu") EXCEPT !.extra = IF @ < Extra THEN @ + 1 ELSE @]

passed(c) ==
    LET p == [c EXCEPT !.count = @ + 1, !.pending = FALSE, !.todo = @ - 1]
    IN  IF p.todo = 0 /\ p.at \in DOMAIN AfterBarrier THEN goes(p, AfterBarrier[p.at]) ELSE p

\* An echo lands, or its one frame is missed.
onEcho(c, n) ==
    IF ~c.pending \/ n # c.count THEN {c}
    ELSE {passed(c)} \cup (IF c.missed < MissMax THEN {[c EXCEPT !.missed = @ + 1]} ELSE {})

\* Both Pokemon change hands on the console.
swapped(c) ==
    [goes(c, "saving") EXCEPT !.party[c.cursor] = c.view[c.offer],
        !.round = @ + 1, !.todo = SaveRounds]

\* What the console waits for where it is.
Waits(c, w) ==
    CASE w.op \in {"idle", "standby"} -> TRUE
      [] w.op = "req"   -> c.at = [link_player |-> "link", card |-> "card", party |-> "party"][w.of]
      [] w.op = "key"   -> c.at \in [READY |-> {"room"}, EXIT |-> {"field", "exiting"}][w.key]
      [] w.op = "close" -> c.at \in {"out", "closing"}
      [] w.op = "D"     -> c.at = "closing"
      [] w.op = "block" -> c.at \in
            [link_player |-> {"linked"}, card |-> {"carding"}, party |-> {"partying"},
             SET_MONS_TO_TRADE |-> {"asked"}, START_TRADE |-> {"started"},
             CONFIRM_FINISH_TRADE |-> {"finishing"}, BOTH_CANCEL_TRADE |-> {"cancelling"},
             PARTNER_CANCEL_TRADE |-> {"cancelling", "declined"},
             PLAYER_CANCEL_TRADE |-> {"cancelling", "declined", "asked"}][w.cmd]

\* After the LinkPlayer blocks it sends one standby, or stays quiet.
onBlock(c, w) ==
    CASE w.cmd = "link_player" ->
            {[goes(c, "card") EXCEPT !.todo = 1], [goes(c, "card") EXCEPT !.count = 2]}
      [] w.cmd = "card"                 -> {[goes(c, "carded") EXCEPT !.todo = @ + 1]}
      [] w.cmd = "party"                -> {[goes(c, "menu") EXCEPT !.view = w.mons]}
      [] w.cmd = "SET_MONS_TO_TRADE"    -> {[goes(c, "prompt") EXCEPT !.offer = w.cursor]}
      [] w.cmd = "START_TRADE"          -> {goes(c, "anim")}
      [] w.cmd = "CONFIRM_FINISH_TRADE" -> {swapped(c)}
      [] w.cmd = "BOTH_CANCEL_TRADE"    -> {[goes(c, "left") EXCEPT !.todo = 2]}
      [] OTHER                          -> {nothingCame(c)}

onReq(c, of) ==
    CASE of = "link_player" -> replies(goes(c, "linked"), Block("link_player"))
      [] of = "card"        -> replies(goes(c, "carding"), Block("card"))
      [] of = "party"       -> replies(goes(c, "partying"), Mons(c.party))

onKey(c, k) ==
    CASE k = "READY" -> [replies(goes(c, "seat"), Key("READY")) EXCEPT !.todo = 2]
      [] k = "EXIT"  -> IF c.at = "field" THEN replies(goes(c, "out"), Key("EXIT"))
                        ELSE goes(c, "out")

\* The possible consoles after a frame; what it does not wait for is lost on it.
heard(c, w) ==
    IF ~Waits(c, w) THEN {c}
    ELSE CASE w.op = "idle"    -> {c}
           [] w.op = "standby" -> onEcho(c, w.count)
           [] w.op = "req"     -> {onReq(c, w.of)}
           [] w.op = "block"   -> onBlock(c, w)
           [] w.op = "key"     -> {onKey(c, w.key)}
           [] w.op = "close"   -> {IF c.at = "out" THEN replies(goes(c, "closing"), Close) ELSE c}
           [] w.op = "D"       -> {goes(c, "gone")}

consoleHear ==
    /\ downlink # << >>
    /\ console' \in heard(console, Head(downlink))
    /\ downlink' = Tail(downlink)
    /\ UNCHANGED <<host, uplink, turn, exit_shown>>

consoleSends(slot, next) ==
    /\ turn = "console" /\ console.at # "gone"
    /\ Len(uplink) < UplinkMax
    /\ uplink' = Append(uplink, slot)
    /\ console' = next
    /\ turn' = "host"
    /\ UNCHANGED <<host, downlink, exit_shown>>

consoleReply ==
    /\ console.out # << >>
    /\ consoleSends(Head(console.out), [console EXCEPT !.out = Tail(@)])

MustStandby(c) == c.out = << >> /\ c.todo > 0 /\ (c.pending => c.quiet = Repeat)

\* A standby, and again after Repeat idle slots without its echo.
consoleStandby ==
    /\ MustStandby(console)
    /\ consoleSends(Standby(console.count), [console EXCEPT !.pending = TRUE, !.quiet = 0])

consoleIdle ==
    /\ console.out = << >> /\ ~MustStandby(console)
    /\ consoleSends(Idle, [console EXCEPT !.quiet = IF @ < Repeat \/ @ < MenuDelay THEN @ + 1 ELSE @])

\* The player's moves.
Ready(c, place) == c.at = place /\ c.out = << >> /\ c.todo = 0

Choose ==
    \/ /\ Ready(console, "menu") /\ console.quiet >= MenuDelay
       /\ \/ /\ console.round < Trades \/ console.extra < Extra
             /\ \E slot \in DOMAIN console.party :
                    consoleSends(Select("READY_TO_TRADE", slot),
                                 [goes(console, "asked") EXCEPT !.cursor = slot])
          \/ /\ console.round = Trades \/ console.extra < Extra
             /\ consoleSends(Block("REQUEST_CANCEL"), goes(console, "cancelling"))
    \/ /\ Ready(console, "prompt")
       /\ \E cmd \in Answer :
             consoleSends(Block(cmd), goes(console, IF cmd = "INIT_BLOCK" THEN "started" ELSE "declined"))
    \/ /\ Ready(console, "anim")
       /\ consoleSends(Block("READY_FINISH_TRADE"), goes(console, "finishing"))
    \/ /\ Ready(console, "field") /\ console.quiet >= MenuDelay
       /\ consoleSends(Key("EXIT"), goes(console, "exiting"))

-----------------------------------------------------------------------------
Next ==
    \/ hostFeed
    \/ \E over, again, last \in BOOLEAN : hostTick(over, again, last)
    \/ consoleHear
    \/ consoleReply
    \/ consoleStandby
    \/ consoleIdle
    \/ Choose

Spec == Init /\ [][Next]_vars

\* Words land, ticks run, timers elapse, blocks end, and players go on.
FairSpec ==
    /\ Spec
    /\ WF_vars(hostFeed) /\ WF_vars(consoleHear)
    /\ WF_vars(\E over, again, last \in BOOLEAN : hostTick(over, again, last))
    /\ SF_vars(hostTick(TRUE, FALSE, TRUE))
    /\ WF_vars(consoleReply) /\ WF_vars(consoleStandby) /\ WF_vars(consoleIdle)
    /\ SF_vars(Choose)

-----------------------------------------------------------------------------
\* Every request, key, link command and close lands on a console that waits for
\* it; the quiet windows, echoes and delays of the engine are there for this.
EveryWordHeard == downlink # << >> => Waits(console, Head(downlink))

\* What the console is owed once the host has committed.
Owed == IF host.round = console.round THEN << >>
        ELSE <<[mon |-> console.view[console.offer], at |-> console.cursor]>>

Trade == INSTANCE Swap WITH LeaderMons <- HostMons, FollowerMons <- ChildMons,
                            leader <- host.party, follower <- console.party, owed <- Owed

\* The host commits before the console, by one trade at most, and the two commits
\* are one exchange of two Pokemon: no trade loses or duplicates one.
ImplementsSwap == Trade!Spec

\* From the prompt to the commit both ends mean the same two Pokemon: those the
\* host has promised for this trade and the player has chosen.
ShownIsTraded ==
    (console.at \in {"prompt", "started", "anim", "finishing"} /\ host.round = console.round) =>
        /\ console.offer = Offered[host.round + 1]
        /\ console.view[console.offer] = host.party[console.offer]
        /\ host.child_party[host.child_cursor] = console.party[console.cursor]

\* "our EXIT_ROOM must be exposed ... before READY_CLOSE_LINK" (next_held_words),
\* whoever leaves the room first.
ExitBeforeClose == host.state \in {"CLOSE", "DONE"} => exit_shown

\* Nobody waits for ever: every request, choice and standby of the console gets
\* its answer, and the session ends with both ends out of the room.
SessionEnds == <>(host.state = "DONE" /\ console.at = "gone")

\* "One-sided cancel returns both sides to the menu" (docs/frlg_link.md).
DeclineReturns == [](console.at = "declined" => <>(console.at = "menu"))
=============================================================================
