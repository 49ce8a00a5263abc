------------------------------ MODULE GiftPromise ----------------------------
(***************************************************************************)
(* What a Mystery Gift session promises, without messages or scripts: from *)
(* the gift on offer and what the console holds and its player answers     *)
(* follow the parts the console keeps, the verdict the host reports and    *)
(* the message the console ends with.  The verdict and the message come    *)
(* only once every part is kept.                                           *)
(***************************************************************************)
EXTENDS Integers, Sequences

CONSTANTS
    Sessions,         \* what the host offers, what the console holds and answers
    DumpBlocks        \* parts of a payload that dumps memory

VARIABLES session, kept, verdict, told

pvars == <<session, kept, verdict, told>>

Kinds == {"card", "news", "stamp", "trainer", "mevent", "buffer", "dump"}

Dist == [kind : Kinds, gated : BOOLEAN, expects : BOOLEAN]

\* The game data a console sends of itself.
Data == [valid : BOOLEAN, phrase : BOOLEAN, card : {"none", "same", "variant", "diff"},
         stamps : {"new", "full", "present"}]

\* toss is 1 for a player that keeps the card.
Console == [data : Data, toss : {0, 1}, news : {"none", "same"}, status : Nat,
            repoints : [1 .. DumpBlocks + 1 -> BOOLEAN]]

Session == [dist : Dist, console : Console]

Outcome(v, parts, msg) == [verdict |-> v, parts |-> parts, told |-> msg]

NothingKept(v, msg) == Outcome(v, << >>, msg)

Card == <<"card", "delivery">>

\* Only for the stamps do the stamps and the icon of a card count, too.
Others(s) == IF s.dist.kind = "stamp" THEN {"variant", "diff"} ELSE {"diff"}

Kind(s)        == s.dist.kind
HoldsNone(s)   == s.console.data.card = "none"
HoldsOther(s)  == s.console.data.card \in Others(s)
Installs(s)    == HoldsNone(s) \/ HoldsOther(s)
WithCard(s, p) == IF Installs(s) THEN Card \o p ELSE p

Refused(s) ==
    \/ ~s.console.data.valid
    \/ s.dist.gated /\ ~s.console.data.phrase

\* Its player is asked before another card goes, and may keep it.
KeepsOther(s) ==
    Kind(s) \in {"card", "stamp", "trainer", "mevent"} /\ HoldsOther(s) /\ s.console.toss = 1

Payload(s) == IF Kind(s) = "dump" THEN [i \in 1 .. DumpBlocks |-> "code"] ELSE <<"code">>

Proved(s) ==
    IF Kind(s) = "dump" THEN \A i \in 1 .. DumpBlocks : s.console.repoints[i]
    ELSE ~s.dist.expects \/ s.console.status = 1

DueCard(s) ==
    IF Installs(s) THEN Outcome("CARD_SENT", Card, "CARD_RECEIVED")
    ELSE NothingKept("HAS_CARD", "HAD_CARD")

DueStamp(s) ==
    CASE Installs(s) ->
            Outcome("STAMP_SENT", Card \o <<"stamp", "install">>, "STAMP_RECEIVED")
      [] ~Installs(s) /\ s.console.data.stamps = "new" ->
            Outcome("STAMP_SENT", <<"stamp", "activation">>, "STAMP_RECEIVED")
      [] ~Installs(s) /\ s.console.data.stamps = "full"    -> NothingKept("NO_ROOM_STAMPS", "NO_ROOM_STAMPS")
      [] ~Installs(s) /\ s.console.data.stamps = "present" -> NothingKept("HAS_STAMP", "HAD_STAMP")

DueNews(s) ==
    IF s.console.news = "same" THEN NothingKept("HAS_NEWS", "HAD_NEWS")
    ELSE Outcome("NEWS_SENT", <<"news">>, "NEWS_RECEIVED")

DueCode(s) ==
    IF Proved(s) THEN Outcome("GIFT_SENT_1", Payload(s), "BUFFER_SUCCESS")
    ELSE Outcome("NOTHING_SENT", Payload(s), "BUFFER_FAILURE")

DueGift(s) ==
    CASE Kind(s) = "card"    -> DueCard(s)
      [] Kind(s) = "news"    -> DueNews(s)
      [] Kind(s) = "stamp"   -> DueStamp(s)
      [] Kind(s) = "trainer" -> Outcome("GIFT_SENT_1", WithCard(s, <<"trainer">>), "TRAINER_RECEIVED")
      [] Kind(s) = "mevent"  -> Outcome("CARD_SENT", WithCard(s, <<"mevent">>), "CARD_RECEIVED")
      [] Kind(s) \in {"buffer", "dump"} -> DueCode(s)

Due(s) ==
    IF ~s.console.data.valid THEN NothingKept("CANT_SEND_GIFT_1", "CANT_ACCEPT")
    ELSE IF Refused(s) THEN NothingKept("NOTHING_SENT", "BUFFER_FAILURE")
    ELSE IF KeepsOther(s) THEN NothingKept("CLIENT_CANCELED", "BUFFER_FAILURE")
    ELSE DueGift(s)

-----------------------------------------------------------------------------
Init ==
    /\ session \in Sessions
    /\ kept = << >> /\ verdict = "none" /\ told = "none"

Complete == kept = Due(session).parts

\* The console keeps the next part.
Keep ==
    /\ Len(kept) < Len(Due(session).parts)
    /\ kept' = Append(kept, Due(session).parts[Len(kept) + 1])
    /\ UNCHANGED <<session, verdict, told>>

Report ==
    /\ Complete /\ verdict = "none"
    /\ verdict' = Due(session).verdict
    /\ UNCHANGED <<session, kept, told>>

Tell ==
    /\ Complete /\ told = "none"
    /\ told' = Due(session).told
    /\ UNCHANGED <<session, kept, verdict>>

Next == Keep \/ Report \/ Tell

Spec == Init /\ [][Next]_pvars

-----------------------------------------------------------------------------
\* What is kept is always the beginning of what is due, and no outcome comes earlier
\* than the last part (RECV READY_END before RETURN in every script of mg_server.py).
InOrder ==
    /\ Len(kept) <= Len(Due(session).parts)
    /\ \A i \in 1 .. Len(kept) : kept[i] = Due(session).parts[i]

NothingEarly == (verdict # "none" \/ told # "none") => Complete

Keeps(part) == \E i \in 1 .. Len(kept) : kept[i] = part

\* No card takes the place of another one whose owner has said NO (CLI_ASK_TOSS), and
\* nothing at all is kept of a gift behind a phrase that the player has not said.
Consent ==
    /\ Keeps("card") /\ session.console.data.card = "diff" => session.console.toss = 0
    /\ session.dist.gated /\ ~session.console.data.phrase => kept = << >>
=============================================================================
