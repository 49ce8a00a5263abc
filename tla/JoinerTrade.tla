----------------------------- MODULE JoinerTrade -----------------------------
(***************************************************************************)
(* The trade joiner (TradeEngine, LinkState, BarrierResponder, the loop of *)
(* bin/frlg_trade_join.py) from the first request to the walk-out, facing  *)
(* a console that leads.                                                   *)
(*                                                                         *)
(* Below it slots and frames arrive once and in order (modules Reliable    *)
(* and HostSession).  The console is external: it does what the joiner's   *)
(* comments say of it, in the places of HostTradeEngine, which plays the   *)
(* same part in this repository.                                           *)
(***************************************************************************)
EXTENDS JoinerEngine

CONSTANTS
    LeaderMons,       \* the console's party: slot -> Pokemon
    SaveRounds,       \* barriers of the console's save (6)
    SaveWrite,        \* frames that a write of its save may take (18 to 108)
    SeatIdle,         \* idle slots in a row that end its entry (75)
    Settle,           \* idle slots in a row that end its exchange of the parties (30)
    SilenceLimit,     \* CHILD_SILENCE_LIMIT: ticks the shut window holds a slot back
    OutstandingMax,   \* bound: frames of the console that have not landed
    UplinkMax,        \* bound: slots of the joiner that have not landed
    Repeats,          \* bound: frames that repeat a count after it has passed
    Extra,            \* bound: the player's moves that bring the menu back
    Answer            \* what the console's player may answer at the prompt

\* The mirrored round 3 is over before the seam: the party exchange takes longer
\* than IDLE_TIMEOUT.  The next request does not land in a burst with the mirror of
\* the last block, on_req would take it for a repeat.  INITIATE_TIMEOUT outlasts a write
\* and the way there and back: a count that lands after it is mirrored, and
\* end_save_chain then drops the mirrored round without counting it.
ASSUME LeaderAssumption ==
    /\ {SaveRounds, SeatIdle, Settle, OutstandingMax, UplinkMax} \subseteq Nat \ {0}
    /\ {SaveWrite, SilenceLimit, Repeats, Extra} \subseteq Nat
    /\ Answer \subseteq {"yes", "no"}
    /\ LeaderMons = [slot \in DOMAIN LeaderMons |-> LeaderMons[slot]] /\ None \notin DOMAIN LeaderMons
    /\ IdleTimeout < SeatIdle + Settle
    /\ OutstandingMax + UplinkMax + 1 < Settle
    /\ SaveWrite + 2 * (OutstandingMax + UplinkMax) <= InitiateTimeout

VARIABLES
    joiner,               \* the engine, its barrier and its held keys
    leader,               \* the console
    downlink, uplink,     \* what has not landed: frames [own, echo], slots
    turn,                 \* one slot per frame
    silence,              \* ticks since the joiner's last slot
    declined              \* history: the console has taken a decline of the joiner

vars == <<joiner, leader, downlink, uplink, turn, silence, declined>>

\* todo: standbys it still has to pass; ready: the joiner's, for this count, is in;
\* repeat: frames that still repeat the last count; choice and reply: its player's
\* move and the joiner's; mine and theirs: the two Pokemon.
LeaderInit ==
    [at |-> "link", out |-> <<Req("200")>>, left |-> 0, count |-> 0, todo |-> 0,
     ready |-> FALSE, repeat |-> 0, echo |-> << >>, quiet |-> 0, write |-> 0,
     party |-> LeaderMons, view |-> << >>, mine |-> None, theirs |-> None,
     choice |-> "none", reply |-> "none", finish |-> FALSE, round |-> 0, extra |-> 0]

Init ==
    /\ joiner = NewJoiner
    /\ leader = LeaderInit
    /\ downlink = << >> /\ uplink = << >>
    /\ turn = "leader" /\ silence = 0
    /\ declined = FALSE

-----------------------------------------------------------------------------
(* The console hears a slot (external).                                    *)

goes(l, place)  == [l EXCEPT !.at = place, !.quiet = 0]
says(l, w)      == [l EXCEPT !.out = Append(@, w)]
passes(l, n)    == [l EXCEPT !.todo = n]

Places == {"link", "warp0", "card", "warp1", "room", "seat", "seated", "party", "partied",
           "ribbons", "menu", "prompt", "seam", "anim", "saving", "left", "field", "exiting",
           "closing", "gone"}

\* Where a block of the joiner may find it.
WaitsForBlock ==
    [link_player |-> {"link"}, card |-> {"card"}, party |-> {"party"}, ribbons |-> {"ribbons"},
     READY_TO_TRADE |-> {"menu"}, REQUEST_CANCEL |-> {"menu"},
     INIT_BLOCK |-> {"prompt"}, READY_CANCEL_TRADE |-> {"prompt"},
     READY_FINISH_TRADE |-> {"seam", "anim"}, zero |-> {}]

\* What the joiner says lands on a console that waits for it.
Waits(l, slot) ==
    CASE slot.op \in {"idle", "busy", "standby"} -> TRUE
      [] slot.op = "block" -> l.at \in WaitsForBlock[slot.cmd] /\ l.reply = "none"
      [] slot.op = "key"   -> l.at \in [EMPTY |-> Places, READY |-> {"room"}, EXIT |-> {"exiting"}][slot.key]
      [] slot.op = "close" -> l.at \in {"closing", "gone"}

\* Its own blocks answer those of the joiner.
onBlock(l, b) ==
    CASE b.cmd = "link_player" -> says(passes(goes(l, "warp0"), 1), Block("link_player"))
      [] b.cmd = "card"        -> says(passes(goes(l, "warp1"), 1), Block("card"))
      [] b.cmd = "party"       -> [says(goes(l, "partied"), Mons(l.party)) EXCEPT !.view = b.mons]
      [] b.cmd = "ribbons"     -> says(goes(l, "menu"), Block("ribbons"))
      [] b.cmd = "READY_TO_TRADE"     -> [l EXCEPT !.reply = "trade", !.theirs = b.cursor]
      [] b.cmd = "REQUEST_CANCEL"     -> [l EXCEPT !.reply = "cancel"]
      [] b.cmd = "INIT_BLOCK"         -> [l EXCEPT !.reply = "yes"]
      [] b.cmd = "READY_CANCEL_TRADE" -> [l EXCEPT !.reply = "no"]
      [] b.cmd = "READY_FINISH_TRADE" -> [l EXCEPT !.finish = TRUE]

onKey(l, k) ==
    CASE k = "READY" -> [l EXCEPT !.reply = "READY"]
      [] k = "EXIT"  -> says(goes(l, "closing"), Close)
      [] OTHER       -> l

takes(l, slot) ==
    IF ~Waits(l, slot) THEN l
    ELSE CASE slot.op = "standby" -> [l EXCEPT !.ready = @ \/ slot.count = l.count]
           [] slot.op = "block"   -> onBlock(l, slot)
           [] slot.op = "key"     -> onKey(l, slot.key)
           [] slot.op = "close"   -> IF l.at = "gone" THEN l ELSE says(goes(l, "gone"), Disconnect)
           [] OTHER               -> l

\* The windows that only idle slots advance, each in a row.
counts(l, slot) ==
    LET window == CASE l.at = "seated" -> SeatIdle [] l.at = "partied" -> Settle [] OTHER -> 0
    IN  [l EXCEPT !.quiet = IF slot # Idle THEN 0 ELSE IF @ < window THEN @ + 1 ELSE @]

\* Every slot that is not idle is mirrored in a frame of the console.
heard(l, slot) ==
    [takes(counts(l, slot), slot) EXCEPT !.echo = IF slot = Idle THEN @ ELSE Append(@, slot)]

leaderHear ==
    /\ uplink # << >>
    /\ leader' = heard(leader, Head(uplink))
    /\ declined' = (declined \/ Head(uplink) = Block("READY_CANCEL_TRADE"))
    /\ uplink' = Tail(uplink)
    /\ UNCHANGED <<joiner, downlink, turn, silence>>

-----------------------------------------------------------------------------
(* A frame of the console (external).                                      *)

AfterBarrier ==
    [warp0 |-> "card", warp1 |-> "room", seat |-> "seated", seam |-> "anim",
     saving |-> "party", left |-> "field"]

\* What it asks for where it comes to.
arrives(l, place) ==
    LET k == goes(l, place)
    IN  CASE place = "card"    -> says(k, Req("card"))
          [] place = "party"   -> says(k, Req("200"))
          [] place = "ribbons" -> says(k, Req("ribbons"))
          [] OTHER             -> k

Silent(l) == l.out = << >>

\* Both have reached the count: it says so, and goes on to the next.
AtBarrier(l) == l.todo > 0 /\ l.ready /\ Silent(l)

pass(l, repeats) ==
    LET p == [l EXCEPT !.count = @ + 1, !.ready = FALSE, !.todo = @ - 1, !.repeat = repeats,
                       !.write = 0]
    IN  IF p.todo = 0 THEN arrives(p, AfterBarrier[p.at]) ELSE p

\* The two moves, and what it says to them.
settles(l, place, b) == [says(goes(l, place), b) EXCEPT !.choice = "none", !.reply = "none"]

decided(l) ==
    LET both == <<l.choice, l.reply>>
    IN  CASE both = <<"trade", "trade">>   ->
                settles(l, "prompt", Select("SET_MONS_TO_TRADE", l.mine))
          [] both = <<"trade", "cancel">>  -> settles(l, "menu", Block("PARTNER_CANCEL_TRADE"))
          [] both = <<"cancel", "cancel">> -> settles(passes(l, 2), "left", Block("BOTH_CANCEL_TRADE"))
          [] both = <<"yes", "yes">>       -> settles(passes(l, 1), "seam", Block("START_TRADE"))
          [] OTHER                         -> settles(l, "menu", Block("PLAYER_CANCEL_TRADE"))

\* A window has run out, or both have moved.
goes_on(l) ==
    CASE l.at = "seated" /\ l.quiet = SeatIdle -> arrives(l, "party")
      [] l.at = "partied" /\ l.quiet = Settle  -> arrives(l, "ribbons")
      [] l.at = "room" /\ l.choice = "READY" /\ l.reply = "READY" ->
            [passes(goes(l, "seat"), 2) EXCEPT !.choice = "none", !.reply = "none"]
      [] l.at \in {"menu", "prompt"} /\ l.choice # "none" /\ l.reply # "none" -> decided(l)
      [] OTHER -> l

Frame(l, own) == [l |-> l, own |-> own]

\* A block takes BlockFrames frames; all else takes one.
speaks(l) ==
    LET w    == Head(l.out)
        left == IF w.op # "block" THEN 1 ELSE IF l.left = 0 THEN BlockFrames ELSE l.left
    IN  IF left = 1 THEN Frame([l EXCEPT !.out = Tail(@), !.left = 0], w)
        ELSE Frame([l EXCEPT !.left = left - 1], Busy)

\* With nothing to say it streams its keys where it can walk, or nothing.
murmurs(l) == Frame(l, IF l.at \in {"room", "field", "exiting"} THEN Key("EMPTY") ELSE Idle)

\* The rounds of the warps it may keep to itself; its save writes take their time.
frames(l) ==
    LET k == goes_on(l)
    IN  CASE k.repeat > 0  -> {Frame([k EXCEPT !.repeat = @ - 1], Standby(k.count - 1))}
          [] k.repeat = 0 /\ AtBarrier(k) ->
                {Frame(pass(k, r), Standby(k.count)) : r \in 0 .. Repeats}
                \cup (IF k.at \in {"warp0", "warp1"} THEN {Frame(pass(k, 0), Idle)} ELSE {})
                \cup (IF k.at = "saving" /\ k.write < SaveWrite
                       THEN {murmurs([k EXCEPT !.write = @ + 1])} ELSE {})
          [] k.repeat = 0 /\ ~AtBarrier(k) -> IF Silent(k) THEN {murmurs(k)} ELSE {speaks(k)}

LeaderMayTick ==
    /\ turn = "leader" /\ ~(leader.at = "gone" /\ Silent(leader))
    /\ Len(downlink) < OutstandingMax

leaderTick ==
    /\ LeaderMayTick
    /\ \E f \in frames(leader) :
          LET echo == IF f.l.echo = << >> THEN Idle ELSE Head(f.l.echo)
          IN  /\ leader' = [f.l EXCEPT !.echo = IF @ = << >> THEN @ ELSE Tail(@)]
              /\ downlink' = Append(downlink, [own |-> f.own, echo |-> echo])
    /\ turn' = "joiner"
    /\ UNCHANGED <<joiner, uplink, silence, declined>>

\* Both Pokemon change hands on the console.
swapped(l) ==
    [passes(goes(l, "saving"), SaveRounds) EXCEPT !.party[l.mine] = l.view[l.theirs],
        !.round = @ + 1, !.finish = FALSE]

moves(l, choice) == {[l EXCEPT !.choice = choice]}
again(l, choice) == IF l.extra < Extra THEN {[l EXCEPT !.choice = choice, !.extra = @ + 1]} ELSE {}

\* Its player sits, chooses, answers, watches the trade, leaves.
Moves(l) ==
    CASE l.at = "room"   -> {says([l EXCEPT !.choice = "READY"], Key("READY"))}
      [] l.at = "menu"   ->
            IF l.round = Trades THEN moves(l, "cancel") \cup again(l, "trade")
            ELSE {[l EXCEPT !.choice = "trade", !.mine = m] : m \in DOMAIN LeaderMons}
                 \cup again(l, "cancel")
      [] l.at = "prompt" -> (IF "yes" \in Answer THEN moves(l, "yes") ELSE {})
                            \cup (IF "no" \in Answer THEN again(l, "no") ELSE {})
      [] l.at = "anim"   -> IF l.finish THEN {says(swapped(l), Block("CONFIRM_FINISH_TRADE"))} ELSE {}
      [] l.at = "field"  -> {says(goes(l, "exiting"), Key("EXIT"))}
      [] OTHER           -> {}

leaderMove ==
    /\ leader.choice = "none" /\ Silent(leader) /\ leader.todo = 0
    /\ leader' \in Moves(leader)
    /\ UNCHANGED <<joiner, downlink, uplink, turn, silence, declined>>

-----------------------------------------------------------------------------
(* The joiner.                                                             *)

joinerHear ==
    /\ downlink # << >> /\ ~joiner.gone
    /\ LET f == Head(downlink)
       IN  joiner' = IF f.own = Disconnect THEN [joiner EXCEPT !.gone = TRUE]
                     ELSE feed_in_frame(joiner, f)
    /\ downlink' = Tail(downlink)
    /\ UNCHANGED <<leader, uplink, turn, silence, declined>>

\* After each tick the loop looks at the seat and at the way out.
looked(j) == handle_exit(handle_seating(j))

JoinerMayTick == turn = "joiner" /\ ~joiner.gone /\ Len(uplink) < UplinkMax

\* `over' lets the countdown that runs elapse, `resend' that of a standby.
joinerTick(over, resend) ==
    /\ JoinerMayTick
    /\ LET o == with_keys(tick(joiner, over, resend))
       IN  /\ joiner' = looked(o.j)
           /\ uplink' = Append(uplink, o.out)
    /\ silence' = 0 /\ turn' = "leader"
    /\ UNCHANGED <<leader, downlink, declined>>

\* The window is shut, for so long.
joinerGated(over) ==
    /\ turn = "joiner" /\ ~joiner.gone
    /\ silence < SilenceLimit
    /\ joiner' = looked(poll_send_done(joiner, over))
    /\ silence' = silence + 1 /\ turn' = "leader"
    /\ UNCHANGED <<leader, downlink, uplink, declined>>

\* It goes once the CLOSE of the console has been answered for some time.
Answered(b) == b.mode = "CLOSE" /\ b.burst_for = b.local /\ b.burst > 0

joinerLeave ==
    /\ Answered(joiner.bar) /\ ~joiner.gone
    /\ joiner' = [joiner EXCEPT !.gone = TRUE]
    /\ UNCHANGED <<leader, downlink, uplink, turn, silence, declined>>

-----------------------------------------------------------------------------
Next ==
    \/ leaderHear \/ leaderTick \/ leaderMove
    \/ joinerHear \/ joinerLeave
    \/ \E over, resend \in BOOLEAN : joinerTick(over, resend)
    \/ \E over \in BOOLEAN : joinerGated(over)

Spec == Init /\ [][Next]_vars

\* Frames and slots land, both ends tick, the player goes on, countdowns elapse.
\* Each is stated of the variable that only this step changes so; the last is
\* strong fairness of the tick, whose guard is all it needs to be enabled.
FairSpec ==
    /\ Spec
    /\ WF_uplink(uplink # << >> /\ uplink' = Tail(uplink))
    /\ WF_downlink(downlink # << >> /\ ~joiner.gone /\ downlink' = Tail(downlink))
    /\ WF_turn(LeaderMayTick /\ turn' = "joiner")
    /\ WF_turn(JoinerMayTick /\ turn' = "leader")
    /\ SF_vars(leaderMove) /\ WF_vars(joinerLeave)
    /\ []<>JoinerMayTick => []<><<joinerTick(TRUE, TRUE)>>_vars

-----------------------------------------------------------------------------
\* Every block, key and close of the joiner lands on a console that waits for it:
\* trade_menu_live, the order of the barriers and the held-key windows are for this.
EverySlotHeard == uplink # << >> => Waits(leader, Head(uplink))

\* "it runs one round ahead of the host and floods its buffer" (_tick_menu_and_push):
\* the joiner never has a count the console has not reached.
NeverAhead == joiner.bar.mode # "CLOSE" => joiner.bar.local <= leader.count

Level == leader.round = joiner.round

\* Once both have agreed, both mean the same two Pokemon: the one the joiner has
\* promised for this trade and the one the console's player has chosen.
ShownIsTraded ==
    (leader.at \in {"seam", "anim"} /\ Level) =>
        /\ leader.theirs = Offered[joiner.round + 1]
        /\ leader.view[leader.theirs] = joiner.party[leader.theirs]
        /\ joiner.host_cursor # None =>
              joiner.host_party[joiner.host_cursor] = leader.party[leader.mine]

\* What the joiner is owed once the console has committed.
Owed == IF Level THEN << >>
        ELSE <<[mon |-> joiner.host_party[joiner.host_cursor], at |-> Offered[joiner.round + 1]]>>

Trade == INSTANCE Swap WITH FollowerMons <- JoinerMons, leader <- leader.party,
                            follower <- joiner.party, owed <- Owed

\* The two commits of a trade are one exchange of two Pokemon.
ImplementsSwap == Trade!Spec

\* Nobody waits for ever: the session ends with both ends out of the room.
SessionEnds == <>(joiner.gone /\ leader.at = "gone")

\* "So a confirm-stage decline ... becomes a cancel-to-leave from here on"
\* (_tick_sender): a joiner whose decline has been taken offers nothing more.
DeclineLeaves == declined => joiner.state # "S5"
=============================================================================
