----------------------------- MODULE GiftServer ------------------------------
(***************************************************************************)
(* MysteryGiftServer (pokeldn/frlg/gift/mg_server.py): the interpreter of  *)
(* the server scripts.  Operators map its record s to the next one.        *)
(*                                                                         *)
(* The distribution is [kind, gated, expects], expects that buffer_expect  *)
(* is set; expect_console is not.  An exception is the action "raised".    *)
(***************************************************************************)
EXTENDS GiftScripts

NoAction == [kind |-> "none"]
Raised   == [kind |-> "raised"]

NewServer(dist) ==
    [dist |-> dist, script |-> "FIRST", cmdidx |-> 1, param |-> -1, action |-> NoAction,
     result |-> "none", loaded |-> << >>, received |-> << >>, data |-> << >>,
     matched |-> FALSE, blocks |-> 0]

commands(s) == IF s.script = "FIRST" THEN FirstScript(s.dist.kind, s.dist.gated)
               ELSE ServerScript[s.script]

goto(s, script) == [s EXCEPT !.script = script, !.cmdidx = 1]

AsInt(b) == IF b THEN 1 ELSE 0

\* "variant": the flagId of our card, the stamps or the icon of another.
CompareCardFlags == [none |-> 0, same |-> 1, variant |-> 1, diff |-> 2]
CompareRallyCard == [none |-> 0, same |-> 1, variant |-> 2, diff |-> 2]
CheckStamps      == [full |-> 1, new |-> 2, present |-> 3]

\* A block of a dump that is not of the size asked for is dropped.
read_buffer_dump(s) ==
    LET good == s.received.body.size = "dump"
        n    == s.blocks + AsInt(good)
    IN  [s EXCEPT !.blocks = n, !.matched = good /\ n = DumpBlocks, !.param = AsInt(good)]

read_buffer_status(s) ==
    LET ok == ~s.dist.expects \/ s.received.body.value = 1
    IN  [s EXCEPT !.matched = ok, !.param = AsInt(ok)]

\* The text of the verdict follows buffer_matched.
loads(s, cmd) ==
    [s EXCEPT !.loaded = [ident |-> cmd.ident,
        body |-> IF cmd.body # "verdict" THEN cmd.body
                 ELSE IF s.matched THEN "success" ELSE "failure"]]

\* Mutant: a card of our flagId is ours for the stamps too, whatever its icon.
doesByFlag(s, cmd) ==
    CASE cmd.op = "CHECK_GAME_DATA"       -> [s EXCEPT !.param = AsInt(s.data.valid)]
      [] cmd.op = "CHECK_QUESTIONNAIRE"   -> [s EXCEPT !.param = AsInt(s.data.phrase)]
      [] cmd.op = "CHECK_EXISTING_CARD"   -> [s EXCEPT !.param = CompareCardFlags[s.data.card]]
      [] cmd.op = "CHECK_RALLY_CARD"      -> [s EXCEPT !.param = CompareCardFlags[s.data.card]]
      [] cmd.op = "CHECK_EXISTING_STAMPS" -> [s EXCEPT !.param = CheckStamps[s.data.stamps]]
      [] cmd.op \in {"READ_RESPONSE", "READ_MEVENT_STATUS"} ->
            [s EXCEPT !.param = s.received.body.value]
      [] cmd.op = "READ_BUFFER_STATUS"    -> read_buffer_status(s)
      [] cmd.op = "READ_BUFFER_DUMP"      -> read_buffer_dump(s)

\* What the console says of itself, and what it answers, becomes the param.
does(s, cmd) ==
    CASE cmd.op = "CHECK_GAME_DATA"       -> [s EXCEPT !.param = AsInt(s.data.valid)]
      [] cmd.op = "CHECK_QUESTIONNAIRE"   -> [s EXCEPT !.param = AsInt(s.data.phrase)]
      [] cmd.op = "CHECK_EXISTING_CARD"   -> [s EXCEPT !.param = CompareCardFlags[s.data.card]]
      [] cmd.op = "CHECK_RALLY_CARD"      -> [s EXCEPT !.param = CompareRallyCard[s.data.card]]
      [] cmd.op = "CHECK_EXISTING_STAMPS" -> [s EXCEPT !.param = CheckStamps[s.data.stamps]]
      [] cmd.op \in {"READ_RESPONSE", "READ_MEVENT_STATUS"} ->
            [s EXCEPT !.param = s.received.body.value]
      [] cmd.op = "READ_BUFFER_STATUS"    -> read_buffer_status(s)
      [] cmd.op = "READ_BUFFER_DUMP"      -> read_buffer_dump(s)

executes(s, cmd) ==
    CASE cmd.op = "RETURN" -> [s EXCEPT !.result = cmd.msg, !.action = [kind |-> "done"]]
      [] cmd.op = "SEND" ->
            [s EXCEPT !.action = IF s.loaded = << >> THEN Raised ELSE [kind |-> "send"]]
      [] cmd.op = "RECV"           -> [s EXCEPT !.action = [kind |-> "recv", ident |-> cmd.ident]]
      [] cmd.op = "GOTO"           -> goto(s, cmd.to)
      [] cmd.op = "GOTO_IF_EQ"     -> IF s.param = cmd.value THEN goto(s, cmd.to) ELSE s
      [] cmd.op = "COPY_GAME_DATA" -> [s EXCEPT !.data = s.received.body]
      [] cmd.op = "LOAD"           -> loads(s, cmd)
      [] OTHER                     -> does(s, cmd)

step(s) ==
    IF s.cmdidx > Len(commands(s)) THEN [s EXCEPT !.action = Raised]
    ELSE executes([s EXCEPT !.cmdidx = @ + 1], commands(s)[s.cmdidx])

\* Up to the next message, either way, or the end.
RECURSIVE run(_)
run(s) == IF s.action # NoAction THEN s ELSE run(step(s))

on_sent(s) ==
    IF s.action.kind # "send" THEN [s EXCEPT !.action = Raised]
    ELSE [s EXCEPT !.action = NoAction, !.loaded = << >>]

on_received(s, m) ==
    IF s.action.kind # "recv" THEN [s EXCEPT !.action = Raised]
    ELSE IF m.ident # s.action.ident THEN [s EXCEPT !.action = Raised]
    ELSE [s EXCEPT !.action = NoAction, !.received = m]
=============================================================================
