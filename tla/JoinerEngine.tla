----------------------------- MODULE JoinerEngine ----------------------------
(***************************************************************************)
(* TradeEngine of pokeldn/frlg/link/trade.py, the follower of a trade, with *)
(* its held keys (linkstate.py), as the loop of bin/frlg_trade_join.py and *)
(* Sim._gba_frame drive them.  Operators map the engine's record j to the  *)
(* next one; JoinerTrade puts them into actions.                           *)
(*                                                                         *)
(* A frame of the host is its own slot and the mirror of one slot of ours. *)
(* A block takes some frames and is its last fragment; the three party     *)
(* blocks are one.  Mail and the safety nets for a host that has vanished  *)
(* (SAVE_CHAIN_TIMEOUT, BUFFERTRADE_SETTLE, SEAT_HOST_READY_MAX) are left  *)
(* out.                                                                    *)
(***************************************************************************)
EXTENDS Barrier, Sequences

CONSTANTS
    JoinerMons,       \* the joiner's party: slot -> Pokemon
    Offered,          \* offered_slots, one per trade
    Decline,          \* decline: say NO at every prompt
    Refused,          \* the Pokemon refuse_partner_deoxys_mew turns down
    Route,            \* frames of the walk to the chair
    BlockFrames       \* frames that a block takes

ASSUME JoinerAssumption ==
    /\ Offered \in Seq(DOMAIN JoinerMons) /\ Offered # << >>
    /\ \A i, k \in DOMAIN Offered : i # k => Offered[i] # Offered[k]
    /\ Decline \in BOOLEAN
    /\ {Route, BlockFrames} \subseteq Nat \ {0}
    /\ JoinerMons = [slot \in DOMAIN JoinerMons |-> JoinerMons[slot]]

Trades == Len(Offered)
None == 0                 \* no cursor: slots count from 1

Idle           == [op |-> "idle"]
Busy           == [op |-> "busy"]             \* the fragments before the last one
Req(of)        == [op |-> "req", of |-> of]
Standby(n)     == [op |-> "standby", count |-> n]
Key(k)         == [op |-> "key", key |-> k]
Close          == [op |-> "close"]
Disconnect     == [op |-> "D"]
Block(cmd)     == [op |-> "block", cmd |-> cmd]
Mons(party)    == [op |-> "block", cmd |-> "party", mons |-> party]
Select(cmd, s) == [op |-> "block", cmd |-> cmd, cursor |-> s]

NewJoiner ==
    [state |-> "S1", bar |-> NewBarrier, sender |-> << >>, mirrored |-> FALSE,
     lp_sent |-> FALSE, host_lp |-> FALSE, card_supplied |-> FALSE, in_seat |-> FALSE,
     host_ready |-> FALSE, seat_over |-> FALSE, seated |-> FALSE, post_wait |-> FALSE,
     ready_echo |-> FALSE, standby_echo |-> 0, warp |-> {}, walking |-> FALSE, route |-> 0,
     exit_key |-> FALSE, responded_exit |-> FALSE, host_exiting |-> FALSE,
     party |-> JoinerMons, party_sent |-> 0, host_party |-> << >>, ribbons |-> FALSE,
     selected |-> FALSE, reselect |-> FALSE, push |-> << >>, anim |-> FALSE,
     finish_sent |-> FALSE, pending_confirm |-> FALSE, confirmed |-> FALSE,
     cancel_wait |-> FALSE, cancel_after_send |-> FALSE, host_cursor |-> None,
     round |-> 0, leaving |-> FALSE, requested_cancel |-> FALSE, cancelled |-> FALSE,
     seam |-> FALSE, save |-> FALSE, cancel_barrier |-> FALSE, return_barrier |-> FALSE,
     post_cancel |-> FALSE, done |-> FALSE, gone |-> FALSE]

in_seat_phase(j) == j.post_cancel \/ ~j.seat_over
established(j)   == j.lp_sent /\ j.host_lp

larger(m, n) == IF m > n THEN m ELSE n

\* The host needs a run of idle slots once both are seated.
held_keys_active(j) ==
    \/ j.host_exiting
    \/ /\ in_seat_phase(j)
       /\ ~(j.seated /\ larger(j.bar.host_count, j.standby_echo) >= 3)
       /\ ~(j.seated /\ j.ready_echo)

-----------------------------------------------------------------------------
(* Blocks of ours.                                                         *)

begin_send(j, b) == [j EXCEPT !.sender = [block |-> b, left |-> BlockFrames], !.mirrored = FALSE]

sending(j) == j.sender # << >>
holding(j) == sending(j) /\ j.sender.left = 0

\* A size-200 pull is the LinkPlayer once in a session, and the party from then on.
\* Once the host is seated it ends the phase of held keys.
pull_200(j) ==
    LET k == [j EXCEPT !.seat_over = @ \/ j.in_seat]
    IN  IF ~j.lp_sent THEN begin_send([k EXCEPT !.lp_sent = TRUE], Block("link_player"))
        ELSE begin_send([k EXCEPT !.party_sent = @ + 1],
                        IF j.party_sent = 0 THEN Mons(j.party) ELSE Block("zero"))

\* A request while a block is going out is the host pulling the same block again.
on_req(j, of) ==
    CASE sending(j)     -> j
      [] ~sending(j) /\ of = "card"    -> begin_send([j EXCEPT !.card_supplied = TRUE], Block("card"))
      [] ~sending(j) /\ of = "200"     -> pull_200(j)
      [] ~sending(j) /\ of = "ribbons" -> begin_send(j, Block("ribbons"))

-----------------------------------------------------------------------------
(* Rounds.                                                                 *)

reset_round_state(j) ==
    [j EXCEPT !.party_sent = 0, !.host_party = << >>, !.host_cursor = None, !.selected = FALSE,
        !.ribbons = FALSE, !.anim = FALSE, !.finish_sent = FALSE, !.pending_confirm = FALSE,
        !.confirmed = FALSE, !.cancel_wait = FALSE, !.reselect = FALSE, !.seam = FALSE]

\* Mutant: the Pokemon of the host takes the place of the first one offered.
commitFirst(j) ==
    LET got == [j EXCEPT !.party[Offered[1]] = j.host_party[j.host_cursor],
                  !.round = @ + 1, !.save = TRUE, !.state = "S1"]
    IN  reset_round_state([got EXCEPT !.leaving = @ \/ got.round >= Trades])

\* The Pokemon of the host takes the place of the one given away.
commit(j) ==
    LET got == [j EXCEPT
                  !.party[Offered[j.round + 1]] =
                      IF j.host_cursor = None THEN @ ELSE j.host_party[j.host_cursor],
                  !.round = @ + 1, !.save = TRUE, !.state = "S1"]
    IN  reset_round_state([got EXCEPT !.leaving = @ \/ got.round >= Trades])

confirm_verdict(j) == j.host_party[j.host_cursor] \notin Refused

run_confirm(j) ==
    IF j.confirmed THEN j
    ELSE LET k == [j EXCEPT !.confirmed = TRUE]
         IN  IF Decline THEN [k EXCEPT !.push = <<Block("READY_CANCEL_TRADE")>>, !.cancelled = TRUE]
             ELSE IF confirm_verdict(j) THEN [k EXCEPT !.push = <<Block("INIT_BLOCK")>>]
             ELSE [k EXCEPT !.cancel_wait = TRUE, !.cancelled = TRUE]

\* One side cancelled: both go back to the menu and choose again.
back_to_menu(j) ==
    [j EXCEPT !.state = "S4", !.selected = FALSE, !.reselect = TRUE, !.push = << >>,
        !.cancel_after_send = FALSE, !.confirmed = FALSE, !.cancel_wait = FALSE,
        !.cancelled = FALSE, !.requested_cancel = FALSE, !.host_cursor = None]

both_cancel(j) ==
    [j EXCEPT !.state = "CANCEL", !.cancelled = TRUE, !.cancel_barrier = TRUE,
        !.bar = initiate(@)]

on_linkcmd(j, b) ==
    CASE b.cmd = "SET_MONS_TO_TRADE" ->
            LET k == [j EXCEPT !.host_cursor = b.cursor]
            IN  IF j.state \in {"S5", "S4"} THEN run_confirm([k EXCEPT !.state = "S6"]) ELSE k
      [] b.cmd = "START_TRADE" ->
            IF j.cancelled THEN j ELSE [j EXCEPT !.state = "S7", !.anim = TRUE]
      [] b.cmd = "CONFIRM_FINISH_TRADE" ->
            IF j.cancelled THEN j
            ELSE IF j.finish_sent THEN commit(j) ELSE [j EXCEPT !.pending_confirm = TRUE]
      [] b.cmd = "BOTH_CANCEL_TRADE" -> both_cancel(j)
      [] b.cmd \in {"PLAYER_CANCEL_TRADE", "PARTNER_CANCEL_TRADE"} -> back_to_menu(j)

on_host_party(j, mons) ==
    LET k == [j EXCEPT !.seat_over = @ \/ j.in_seat]
    IN  IF j.host_party # << >> THEN k
        ELSE [k EXCEPT !.host_party = mons, !.state = IF @ = "S1" THEN "S4" ELSE @]

on_host_block(j, b) ==
    CASE b.cmd = "link_player" -> [j EXCEPT !.host_lp = TRUE, !.seat_over = @ \/ j.in_seat]
      [] b.cmd = "card"        -> j
      [] b.cmd = "party"       -> on_host_party(j, b.mons)
      [] b.cmd = "ribbons"     -> [j EXCEPT !.ribbons = TRUE]
      [] OTHER                 -> on_linkcmd(j, b)

-----------------------------------------------------------------------------
(* feed_in_frame.                                                          *)

mirror_landed(j, f) ==
    [j EXCEPT !.mirrored = @ \/ (sending(j) /\ f.echo = j.sender.block)]

\* The first held key of the host: it is in the room.
scan_entry_slots(j, f) ==
    IF j.host_ready \/ f.own.op # "key" THEN j
    ELSE [j EXCEPT !.in_seat = TRUE, !.bar = IF j.in_seat THEN @ ELSE reset_to_idle(@),
              !.host_ready = f.own.key = "READY"]

\* Our own mirrored EXIT counts, too.
scan_exit_room(j, f) ==
    [j EXCEPT !.host_exiting = @ \/ Key("EXIT") \in {f.own, f.echo}]

scan_own_reflection(j, f) ==
    [j EXCEPT !.ready_echo = @ \/ f.echo = Key("READY"),
              !.standby_echo = IF f.echo.op = "standby" /\ f.echo.count > @
                               THEN f.echo.count ELSE @]

\* Mutant: the mirror of our own standby is taken for the host's word.
observe_barriersEcho(j, f) ==
    [j EXCEPT !.bar = CASE f.own.op = "standby"  -> on_host_standby(@, f.own.count)
                        [] f.own.op = "close"    -> on_host_close(@, 0)
                        [] f.echo.op = "standby" -> on_host_standby(@, f.echo.count)
                        [] OTHER                 -> observe_silence(@)]

\* Our own mirrored standby is no word of the host.
observe_barriers(j, f) ==
    [j EXCEPT !.bar = CASE f.own.op = "standby" -> on_host_standby(@, f.own.count)
                        [] f.own.op = "close"   -> on_host_close(@, 0)
                        [] OTHER                -> observe_silence(@)]

\* Mutant: nothing but the block of the host ends the chain of save barriers.
end_save_chainNever(j, f) == j

\* The save chain ends when the host pulls or sends a block again.
end_save_chain(j, f) ==
    IF j.save /\ f.own.op \in {"req", "block"}
    THEN [j EXCEPT !.save = FALSE, !.bar = reset_to_idle(@)] ELSE j

feed_in_frame(j, f) ==
    LET seen == observe_barriers(
                    scan_own_reflection(
                        scan_exit_room(scan_entry_slots(mirror_landed(j, f), f), f), f), f)
        k    == end_save_chain(seen, f)
    IN  CASE f.own.op = "req"   -> on_req(k, f.own.of)
          [] f.own.op = "block" -> on_host_block(k, f.own)
          [] OTHER              -> k

-----------------------------------------------------------------------------
(* tick.  An outcome is the record and the words, or Yield for none.       *)

Out(j, w) == [j |-> j, out |-> w]
Yield == [op |-> "yield"]

\* The countdowns: `over' lets the one that runs elapse.  That of the animation
\* (1935 frames) is far longer than it takes to start the seam barrier.
advance_timers(j, over) ==
    LET fin == [j EXCEPT !.anim = FALSE, !.push = <<Block("READY_FINISH_TRADE")>>,
                         !.finish_sent = TRUE]
    IN  CASE ~over        -> j
          [] over /\ j.reselect    -> [j EXCEPT !.reselect = FALSE]
          [] over /\ ~j.reselect /\ j.cancel_wait ->
                [j EXCEPT !.cancel_wait = FALSE, !.push = <<Block("READY_CANCEL_TRADE")>>]
          [] over /\ ~j.reselect /\ ~j.cancel_wait /\ j.anim /\ j.seam ->
                IF j.pending_confirm THEN commit([fin EXCEPT !.pending_confirm = FALSE]) ELSE fin
          [] OTHER -> j

\* The sender is done; a cancel that is out makes the joiner leave.
sender_done(j) ==
    LET k == [j EXCEPT !.sender = << >>]
    IN  IF j.cancel_after_send /\ ~j.done
        THEN [k EXCEPT !.cancel_after_send = FALSE, !.state = "CANCEL", !.leaving = TRUE] ELSE k

\* HOLD without the mirror leaves the slot to the others.
tick_sender(j) ==
    CASE ~sending(j)                -> Out(j, Yield)
      [] holding(j) /\ j.mirrored   -> Out(sender_done(j), Idle)
      [] holding(j) /\ ~j.mirrored  -> Out(j, Yield)
      [] sending(j) /\ ~holding(j)  ->
            Out([j EXCEPT !.sender.left = @ - 1],
                IF j.sender.left = 1 THEN j.sender.block ELSE Busy)

\* want_emit, idle while it has nothing to say.
barrier_words(j) ==
    IF wants_emit(j.bar)
    THEN Out([j EXCEPT !.bar = emitted(@)],
             IF j.bar.mode = "CLOSE" THEN Close ELSE Standby(j.bar.local))
    ELSE Out(j, Idle)

\* Two barriers after BOTH_CANCEL: the way out of the menu, and back to the field.
enter_return(j) ==
    IF j.cancel_barrier /\ ~active(j.bar)
    THEN [j EXCEPT !.cancel_barrier = FALSE, !.return_barrier = TRUE, !.bar = initiate(@)] ELSE j

tick_exit_barriers(j) ==
    LET k == enter_return(j)
        over == k.return_barrier /\ ~active(k.bar)
    IN  CASE (k.cancel_barrier \/ k.return_barrier \/ k.post_cancel) /\ active(k.bar) ->
                barrier_words(k)
          [] over  -> Out([k EXCEPT !.return_barrier = FALSE, !.done = TRUE, !.post_cancel = TRUE],
                          Yield)
          [] OTHER -> Out(k, Yield)

\* The next round of the save chain starts when the last one is over.
tick_save_chain(j) ==
    IF ~j.save THEN Out(j, Yield)
    ELSE barrier_words([j EXCEPT !.bar = IF active(@) THEN @ ELSE initiate(@)])

\* Mutant: the menu counts as live before the host has sent its ribbons.
trade_menu_liveEarly(j) == j.host_party # << >> /\ j.lp_sent /\ j.party_sent >= 1

trade_menu_live(j) == j.host_party # << >> /\ j.lp_sent /\ j.party_sent >= 1 /\ j.ribbons

\* Mutant: every trade offers the first Pokemon.
select_offerFirst(j) ==
    IF ~(~j.selected /\ j.state = "S4" /\ ~j.reselect /\ trade_menu_live(j) /\ j.push = << >>) THEN j
    ELSE IF j.leaving
    THEN [j EXCEPT !.selected = TRUE, !.seat_over = TRUE, !.push = <<Block("REQUEST_CANCEL")>>,
                   !.requested_cancel = TRUE, !.cancelled = TRUE]
    ELSE [j EXCEPT !.selected = TRUE, !.seat_over = TRUE, !.state = "S5",
                   !.push = <<Select("READY_TO_TRADE", Offered[1])>>]

select_offer(j) ==
    IF ~(~j.selected /\ j.state = "S4" /\ ~j.reselect /\ trade_menu_live(j) /\ j.push = << >>) THEN j
    ELSE IF j.leaving
    THEN [j EXCEPT !.selected = TRUE, !.seat_over = TRUE, !.push = <<Block("REQUEST_CANCEL")>>,
                   !.requested_cancel = TRUE, !.cancelled = TRUE]
    ELSE [j EXCEPT !.selected = TRUE, !.seat_over = TRUE, !.state = "S5",
                   !.push = <<Select("READY_TO_TRADE", Offered[j.round + 1])>>]

\* The seam barrier starts with the animation.
enter_seam(j) ==
    IF j.anim /\ ~j.seam THEN [j EXCEPT !.seam = TRUE, !.bar = initiate(@)] ELSE j

tick_menu_and_push(j, over) ==
    LET k == select_offer(enter_seam(advance_timers(j, over)))
        b == Head(k.push)
        c == b.cmd \in {"REQUEST_CANCEL", "READY_CANCEL_TRADE"}
        p == begin_send([k EXCEPT !.push = << >>, !.cancel_after_send = @ \/ c,
                                  !.cancelled = @ \/ c], b)
    IN  IF k.push = << >> THEN Out(k, Yield) ELSE tick_sender(p)

\* Standbys 0 and 1, once each, and then silence until the host walks.
tick_warp_standbys(j) ==
    LET n == IF j.card_supplied THEN 1 ELSE 0
    IN  CASE ~established(j) \/ j.in_seat -> Out(j, Yield)
          [] OTHER -> IF n \in j.warp THEN Out(j, Idle)
                      ELSE Out([j EXCEPT !.warp = @ \cup {n}], Standby(n))

\* Once the host sends its own count, a mirror proves nothing.
host_reached(j) ==
    IF j.bar.host_count >= 2 THEN j.bar.host_count
    ELSE larger(j.bar.host_count, j.standby_echo)

\* Standbys 2 and 3, `again' and again until the host is there.
sustain(j, n, again) ==
    IF n \in j.warp /\ ~again THEN Out(j, Idle)
    ELSE Out([j EXCEPT !.warp = @ \cup {n}], Standby(n))

tick_seat_standbys(j, over, again) ==
    CASE ~(established(j) /\ j.seated /\ ~j.seat_over) -> Out(j, Yield)
      [] OTHER ->
         CASE ~j.host_ready                  -> Out(j, Idle)
           [] j.host_ready /\ j.post_wait /\ ~j.ready_echo -> Out([j EXCEPT !.post_wait = ~over], Idle)
           [] OTHER -> IF host_reached(j) >= 3 THEN Out(j, Idle)
                       ELSE sustain(j, IF host_reached(j) < 2 THEN 2 ELSE 3, again)

\* The first that has something to say has the slot.
tick(j, over, again) ==
    LET t1 == tick_sender(j)
        t2 == IF t1.out = Yield THEN tick_exit_barriers(t1.j) ELSE t1
        t3 == IF t2.out = Yield THEN tick_save_chain(t2.j) ELSE t2
        t4 == IF t3.out = Yield THEN tick_menu_and_push(t3.j, over) ELSE t3
        t5 == IF t4.out = Yield THEN tick_warp_standbys(t4.j) ELSE t4
        t6 == IF t5.out = Yield THEN tick_seat_standbys(t5.j, over, again) ELSE t5
    IN  IF t6.out = Yield THEN barrier_words(t6.j) ELSE t6

\* The window is shut: timers run and HOLD may end, nothing goes out.
poll_send_done(j, over) ==
    LET k == advance_timers(j, over)
    IN  IF holding(k) /\ k.mirrored THEN sender_done(k) ELSE k

-----------------------------------------------------------------------------
(* Held keys take the idle slots of the seat phase.                        *)

next_key(j) ==
    CASE j.exit_key -> Out([j EXCEPT !.exit_key = FALSE], Key("EXIT"))
      [] ~j.exit_key /\ j.route > 1 -> Out([j EXCEPT !.route = @ - 1], Key("EMPTY"))
      [] ~j.exit_key /\ j.route = 1 -> Out([j EXCEPT !.route = 0], Key("READY"))
      [] OTHER -> Out(j, Key("EMPTY"))

with_keys(o) ==
    IF o.out = Idle /\ established(o.j) /\ o.j.in_seat /\ held_keys_active(o.j)
    THEN next_key(o.j) ELSE o

\* What the loop does after each tick: walk, sit, answer the walk-out.
handle_seating(j) ==
    LET walks == j.in_seat /\ ~j.walking
        sits  == j.walking /\ j.route = 0 /\ ~j.seated
    IN  [j EXCEPT !.walking = @ \/ walks, !.route = IF walks THEN Route ELSE @,
                  !.seated = @ \/ sits, !.post_wait = IF sits THEN TRUE ELSE @]

handle_exit(j) ==
    IF j.host_exiting /\ ~j.responded_exit
    THEN [j EXCEPT !.responded_exit = TRUE, !.exit_key = TRUE] ELSE j
=============================================================================
