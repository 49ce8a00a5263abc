----------------------------- MODULE GiftScripts -----------------------------
(***************************************************************************)
(* The two languages of a Mystery Gift session: the scripts the server     *)
(* runs (mg_server.py), the scripts it pushes for the console to run       *)
(* (mg_script.py), and the messages between them (mg_link.py).             *)
(*                                                                         *)
(* A script is a sequence of commands, a goto names a script.  False is 0  *)
(* and True is 1, as in the comparisons of the server: HAS_NO_CARD is 0.   *)
(***************************************************************************)
EXTENDS Integers, Sequences

CONSTANTS
    DumpBlocks,       \* buffer_dump_blocks: replies of one memory dump
    FullChunks        \* chunks of a message that fills the buffer (1024 / 252: 5)

ASSUME GiftScriptsAssumption == {DumpBlocks, FullChunks} \subseteq Nat \ {0}

Do(op)      == <<[op |-> op]>>
Recv(ident) == <<[op |-> "RECV", ident |-> ident]>>
Return(msg) == <<[op |-> "RETURN", msg |-> msg]>>

Times(n, s) == [i \in 1 .. n * Len(s) |-> s[((i - 1) % Len(s)) + 1]]

-----------------------------------------------------------------------------
(* Client scripts.                                                         *)

Continue  == Recv("CLIENT_SCRIPT") \o Do("COPY_RECV")
End(msg)  == Do("SEND_READY_END") \o Return(msg)
Answer    == Do("LOAD_TOSS_RESPONSE") \o Do("SEND_LOADED")
SaveCard  == Recv("CARD") \o Do("SAVE_CARD") \o Recv("RAM_SCRIPT") \o Do("SAVE_RAM_SCRIPT")
SaveStamp == Recv("STAMP") \o Do("SAVE_STAMP") \o Recv("RAM_SCRIPT") \o Do("RUN_MEVENT_SCRIPT")
SaveTrainer == Recv("EREADER_TRAINER") \o Do("RECV_EREADER_TRAINER")
RunMevent == Recv("RAM_SCRIPT") \o Do("RUN_MEVENT_SCRIPT") \o Answer \o Continue
Message(msg) == Recv("DYNAMIC_MSG") \o Do("COPY_MSG") \o End(msg)

\* The load arms the message, the payload then repoints it: once per block.
DumpPass == Do("LOAD_TOSS_RESPONSE") \o Do("RUN_BUFFER_SCRIPT") \o Do("SEND_LOADED")

ClientScript ==
    [INIT |-> Continue,
     SEND_GAME_DATA |-> Do("LOAD_GAME_DATA") \o Do("SEND_LOADED") \o Continue,
     SAVE_CARD |-> SaveCard \o End("CARD_RECEIVED"),
     SAVE_NEWS |-> Recv("NEWS") \o Do("SAVE_NEWS") \o Do("SEND_LOADED") \o Continue,
     HAD_NEWS |-> End("HAD_NEWS"),
     NEWS_RECEIVED |-> End("NEWS_RECEIVED"),
     SAVE_CARD_AND_TRAINER |-> SaveCard \o SaveTrainer \o End("TRAINER_RECEIVED"),
     SAVE_TRAINER |-> SaveTrainer \o End("TRAINER_RECEIVED"),
     INSTALL_CARD_AND_STAMP |-> SaveCard \o SaveStamp \o End("STAMP_RECEIVED"),
     SAVE_STAMP |-> SaveStamp \o End("STAMP_RECEIVED"),
     HAD_STAMP |-> End("HAD_STAMP"),
     NO_ROOM_STAMPS |-> End("NO_ROOM_STAMPS"),
     HAD_CARD |-> End("HAD_CARD"),
     ASK_TOSS |-> Do("ASK_TOSS") \o Answer \o Continue,
     DYNAMIC_ERROR |-> Message("BUFFER_FAILURE"),
     CANT_ACCEPT |-> End("CANT_ACCEPT"),
     SAVE_CARD_AND_MEVENT |-> SaveCard \o RunMevent,
     RUN_MEVENT |-> RunMevent,
     MEVENT_DONE |-> End("CARD_RECEIVED"),
     RUN_BUFFER |-> Recv("RAM_SCRIPT") \o Do("RUN_BUFFER_SCRIPT") \o Answer \o Continue,
     BUFFER_SUCCESS |-> Message("BUFFER_SUCCESS"),
     DUMP_MEMORY |-> Recv("RAM_SCRIPT") \o Times(DumpBlocks, DumpPass) \o Continue]

-----------------------------------------------------------------------------
(* Server scripts.                                                         *)

Load(ident, body) == <<[op |-> "LOAD", ident |-> ident, body |-> body]>> \o Do("SEND")
Push(script)      == Load("CLIENT_SCRIPT", script)
Goto(script)      == <<[op |-> "GOTO", to |-> script]>>
GotoIf(v, script) == <<[op |-> "GOTO_IF_EQ", value |-> v, to |-> script]>>

Finish(msg)         == Recv("READY_END") \o Return(msg)
Tell(script, msg)   == Push(script) \o Finish(msg)
Say(script, text, msg) == Push(script) \o Load("DYNAMIC_MSG", text) \o Finish(msg)
Toss(script)        == Push("ASK_TOSS") \o Recv("RESPONSE") \o Do("READ_RESPONSE")
                       \o GotoIf(0, script) \o Goto("CLIENT_CANCELED")
LoadCard            == Load("CARD", "card") \o Load("RAM_SCRIPT", "delivery")
\* Mutant: the stamp goes after its script.
LoadStampSwapped(script) == Load("RAM_SCRIPT", script) \o Load("STAMP", "stamp")
LoadStamp(script)   == Load("STAMP", "stamp") \o Load("RAM_SCRIPT", script)
LoadTrainer         == Load("EREADER_TRAINER", "trainer")
LoadMevent          == Load("RAM_SCRIPT", "mevent")

\* Diff, none and same card.
ByCard(diff, none, same) ==
    Do("CHECK_EXISTING_CARD") \o GotoIf(2, diff) \o GotoIf(0, none) \o Goto(same)

\* "it never saves unless the verdict is success" (lines 396-399).
ByVerdict == GotoIf(1, "BUFFER_SUCCESS") \o Goto("BUFFER_FAILURE")

GameData ==
    Push("SEND_GAME_DATA") \o Recv("GAME_DATA") \o Do("COPY_GAME_DATA")
        \o Do("CHECK_GAME_DATA") \o GotoIf(0, "CANT_SEND")

Questionnaire == Do("CHECK_QUESTIONNAIRE") \o GotoIf(0, "QUESTIONNAIRE_DENIED")

\* What follows the exchange of the game data and the gate.
SendScript ==
    [card |-> ByCard("TOSS_PROMPT", "SEND_CARD", "HAS_CARD"),
     news |-> Goto("SEND_NEWS"),
     stamp |-> Do("CHECK_RALLY_CARD") \o GotoIf(2, "STAMP_TOSS_PROMPT")
               \o GotoIf(0, "INSTALL_CARD_AND_STAMP") \o Do("CHECK_EXISTING_STAMPS")
               \o GotoIf(3, "HAS_STAMP") \o GotoIf(1, "NO_ROOM_STAMPS") \o Goto("SEND_STAMP_ONLY"),
     trainer |-> ByCard("TOSS_PROMPT_TRAINER", "SEND_CARD_AND_TRAINER", "SEND_TRAINER_ONLY"),
     mevent |-> ByCard("TOSS_PROMPT_MEVENT", "SEND_CARD_AND_MEVENT", "SEND_MEVENT_ONLY"),
     buffer |-> Push("RUN_BUFFER") \o Load("RAM_SCRIPT", "code")
                \o Recv("RESPONSE") \o Do("READ_BUFFER_STATUS") \o ByVerdict,
     dump |-> Push("DUMP_MEMORY") \o Load("RAM_SCRIPT", "code")
              \o Times(DumpBlocks, Recv("RESPONSE") \o Do("READ_BUFFER_DUMP")) \o ByVerdict]

MeventTail ==
    Recv("RESPONSE") \o Do("READ_MEVENT_STATUS") \o Tell("MEVENT_DONE", "CARD_SENT")

ServerScript ==
    [CANT_SEND |-> Tell("CANT_ACCEPT", "CANT_SEND_GIFT_1"),
     HAS_CARD |-> Tell("HAD_CARD", "HAS_CARD"),
     CLIENT_CANCELED |-> Say("DYNAMIC_ERROR", "canceled", "CLIENT_CANCELED"),
     HAS_NEWS |-> Tell("HAD_NEWS", "HAS_NEWS"),
     SEND_NEWS |-> Push("SAVE_NEWS") \o Load("NEWS", "news") \o Recv("RESPONSE")
                   \o Do("READ_RESPONSE") \o GotoIf(1, "HAS_NEWS")
                   \o Tell("NEWS_RECEIVED", "NEWS_SENT"),
     SEND_CARD |-> Push("SAVE_CARD") \o LoadCard \o Finish("CARD_SENT"),
     HAS_STAMP |-> Tell("HAD_STAMP", "HAS_STAMP"),
     NO_ROOM_STAMPS |-> Tell("NO_ROOM_STAMPS", "NO_ROOM_STAMPS"),
     SEND_STAMP_ONLY |-> Push("SAVE_STAMP") \o LoadStamp("activation") \o Finish("STAMP_SENT"),
     INSTALL_CARD_AND_STAMP |-> Push("INSTALL_CARD_AND_STAMP") \o LoadCard
                                \o LoadStamp("install") \o Finish("STAMP_SENT"),
     STAMP_TOSS_PROMPT |-> Toss("INSTALL_CARD_AND_STAMP"),
     SEND_CARD_AND_TRAINER |-> Push("SAVE_CARD_AND_TRAINER") \o LoadCard \o LoadTrainer
                               \o Finish("GIFT_SENT_1"),
     SEND_TRAINER_ONLY |-> Push("SAVE_TRAINER") \o LoadTrainer \o Finish("GIFT_SENT_1"),
     TOSS_PROMPT_TRAINER |-> Toss("SEND_CARD_AND_TRAINER"),
     SEND_CARD_AND_MEVENT |-> Push("SAVE_CARD_AND_MEVENT") \o LoadCard \o LoadMevent \o MeventTail,
     SEND_MEVENT_ONLY |-> Push("RUN_MEVENT") \o LoadMevent \o MeventTail,
     TOSS_PROMPT_MEVENT |-> Toss("SEND_CARD_AND_MEVENT"),
     BUFFER_SUCCESS |-> Say("BUFFER_SUCCESS", "verdict", "GIFT_SENT_1"),
     BUFFER_FAILURE |-> Say("DYNAMIC_ERROR", "verdict", "NOTHING_SENT"),
     TOSS_PROMPT |-> Toss("SEND_CARD"),
     QUESTIONNAIRE_DENIED |-> Say("DYNAMIC_ERROR", "denied", "NOTHING_SENT")]

\* gate_on_questionnaire puts the check behind the game data.
FirstScript(kind, gated) ==
    GameData \o (IF gated THEN Questionnaire ELSE << >>) \o SendScript[kind]

-----------------------------------------------------------------------------
(* Messages: a header block and the chunks of the payload.                 *)

\* One chunk for 252 bytes at most.
Chunks(m) ==
    CASE m.ident \in {"CARD", "NEWS"} -> 2
      [] m.ident = "READY_END" \/ (m.ident = "RAM_SCRIPT" /\ m.body = "delivery") -> FullChunks
      [] OTHER -> 1

Part(m, i) == [op |-> "block", msg |-> m, part |-> i]

build_message(m) == [i \in 1 .. Chunks(m) + 1 |-> Part(m, i - 1)]

\* MysteryGiftLinkReceiver: msg is what the header declared, intact that every chunk is its.
NewReceiver == [expected |-> "none", header |-> TRUE, msg |-> << >>, got |-> 0, intact |-> TRUE]

expect(ident) == [NewReceiver EXCEPT !.expected = ident]

listening(r) == r.expected # "none"

Fed(r, what) == [r |-> r, what |-> what]

\* A chunk in the place of a header, or one of another message in the place of a chunk,
\* has not the ident or not the CRC.
feed_block(r, b) ==
    LET fits == b.part = r.got + 1 /\ b.msg.ident = r.msg.ident
        k    == [r EXCEPT !.got = @ + 1, !.intact = @ /\ fits]
    IN  IF r.header
        THEN IF b.part = 0 /\ b.msg.ident = r.expected
             THEN Fed([r EXCEPT !.header = FALSE, !.msg = b.msg], "more")
             ELSE Fed(r, "error")
        ELSE IF k.got < Chunks(r.msg) THEN Fed(k, "more")
        ELSE IF k.intact THEN Fed([k EXCEPT !.expected = "none"], "message") ELSE Fed(k, "error")

Drained(r, blocks, got, bad) == [r |-> r, blocks |-> blocks, got |-> got, bad |-> bad]

\* Blocks are read up to the end of a message; after an error the same ident is awaited again.
RECURSIVE drain(_, _, _)
drain(r, blocks, bad) ==
    IF blocks = << >> \/ ~listening(r) THEN Drained(r, blocks, FALSE, bad)
    ELSE LET f == feed_block(r, Head(blocks))
         IN  CASE f.what = "message" -> Drained(f.r, Tail(blocks), TRUE, bad)
               [] f.what = "error"   -> drain(expect(r.expected), Tail(blocks), TRUE)
               [] f.what = "more"    -> drain(f.r, Tail(blocks), bad)
=============================================================================
